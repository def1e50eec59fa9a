----------------------------- MODULE Objective -----------------------------
(***************************************************************************)
(* What the Office promises the owner about one objective, without tasks,  *)
(* retries, runs or processes: a delivered step stays delivered, at most   *)
(* one delivery is the objective's final answer, and an answered objective *)
(* is never reopened.  A failed or stopped objective may be resumed, and a *)
(* step that was in flight when it stopped may still deliver.              *)
(***************************************************************************)
EXTENDS Naturals

CONSTANT Tasks

VARIABLES
    phase,      \* the objective's status as the owner sees it
    delivered,  \* the steps whose result is kept
    answers     \* final answers given

vars == <<phase, delivered, answers>>

Open    == {"planning", "running"}
Stopped == {"failed", "cancelled"}

Init ==
    /\ phase = "planning"
    /\ delivered = {}
    /\ answers = 0

Accept ==
    /\ phase = "planning"
    /\ phase' = "running"
    /\ UNCHANGED <<delivered, answers>>

Deliver(t) ==
    /\ phase \in {"running"} \cup Stopped
    /\ t \notin delivered
    /\ delivered' = delivered \cup {t}
    /\ \/ UNCHANGED <<phase, answers>>
       \/ phase' = "completed" /\ answers' = 1

GiveUp ==
    /\ phase \in {"running"} \cup Stopped
    /\ phase' = "failed"
    /\ UNCHANGED <<delivered, answers>>

Stop ==
    /\ phase \in Open
    /\ phase' = "cancelled"
    /\ UNCHANGED <<delivered, answers>>

Resume ==
    /\ phase \in Stopped
    /\ phase' = "running"
    /\ UNCHANGED <<delivered, answers>>

Next ==
    \/ Accept
    \/ \E t \in Tasks : Deliver(t)
    \/ GiveUp
    \/ Stop
    \/ Resume

Spec == Init /\ [][Next]_vars
=============================================================================

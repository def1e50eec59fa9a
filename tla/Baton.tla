-------------------------------- MODULE Baton --------------------------------
(***************************************************************************)
(* What the Coding Continuity Supervisor promises of one branch, however   *)
(* its handlers overlap, fail and restart: a session writes only while it  *)
(* holds the branch, one session at a time; the branch changes hands only  *)
(* when nobody writes to it; and a session that stopped writing or let go  *)
(* of the branch never comes back.                                         *)
(***************************************************************************)
CONSTANTS Sessions, None

VARIABLES
    holder,     \* the session that has the branch
    writing,    \* the sessions whose worker may write to it
    spent       \* the sessions that stopped writing or let go

baton == <<holder, writing, spent>>

BatonInit == holder = None /\ writing = {} /\ spent = {}

Take(s) ==
    /\ holder = None /\ s \notin spent
    /\ holder' = s
    /\ UNCHANGED <<writing, spent>>

Write(s) ==
    /\ holder = s /\ writing = {} /\ s \notin spent
    /\ writing' = {s}
    /\ UNCHANGED <<holder, spent>>

Stop(s) ==
    /\ s \in writing
    /\ writing' = writing \ {s}
    /\ spent' = spent \cup {s}
    /\ UNCHANGED holder

LetGo(s) ==
    /\ holder = s /\ writing = {}
    /\ holder' = None
    /\ spent' = spent \cup {s}
    /\ UNCHANGED writing

BatonNext == \E s \in Sessions : Take(s) \/ Write(s) \/ Stop(s) \/ LetGo(s)

BatonSpec == BatonInit /\ [][BatonNext]_baton

=============================================================================

--------------------------- MODULE ObjectiveViews ---------------------------
(***************************************************************************)
(* What the Hub tells the owner of one objective, worked out from the rows *)
(* of ObjectiveRecovery by several files that do not share their rules:    *)
(* the derived lifecycle (src/domain), the Office and its workflow page    *)
(* (src/hub-office.js), the Live Operations view (src/hub-office-ops.js),  *)
(* the chat (src/hub-workspace.js), the Deliverables Center                *)
(* (src/hub-deliverables.js) and the ops watch (src/ops/ops-watch.js).     *)
(* Nothing here changes a row.  The objective has no coding session and no *)
(* approval, is no test and is older than the grace period of a stall; what *)
(* it did last is recent, so the Office still shows it.                     *)
(***************************************************************************)
EXTENDS ObjectiveRecovery

CONSTANTS
    Kind,      \* Kind[t]: what the stage of t is shown as
    Employee   \* Employee[t]: who works on t

TerminalJob == {"completed", "failed", "cancelled"}

-----------------------------------------------------------------------------
(* The derived lifecycle.                                                  *)

TaskTerminal == {"done", "skipped", "failed"}

(* wait_info keeps the reason of the last wait: nothing ever clears it.     *)
CapacityWait(t) == t \in waiting \/ deferred[t] # {}

OpenDeps(t) == {d \in Deps[t] \cap Created : status[d] \notin TaskTerminal}

(* taskExecution                                                           *)
Posture(t) ==
    CASE status[t] \in Finished -> "completed"
      [] status[t] = "failed"   -> "failed"
      [] status[t] \notin TaskTerminal /\ job \in TerminalJob -> "closed"
      [] OTHER ->
            CASE status[t] = "running" -> "executing"
              [] status[t] = "blocked" -> "waiting"
              [] status[t] = "queued" /\ (CapacityWait(t) \/ OpenDeps(t) # {}) -> "waiting"
              [] OTHER -> "queued"

(* isStalled and, without the steps, stuckObjectives.                       *)
Settled == {"done", "skipped", "failed", "blocked"}
Stalled == job \in OpenJob /\ Created # {} /\ \A t \in Created : status[t] \in Settled
StuckObjective == job \in OpenJob /\ ~\E t \in Tasks : status[t] \in {"queued", "running"}

(* waitSignals                                                             *)
WaitsForCapacity == {t \in Created : status[t] \in {"queued", "blocked"} /\ CapacityWait(t)}
WaitsForSteps == {t \in Created \ WaitsForCapacity : status[t] = "queued" /\ OpenDeps(t) # {}}
Waits == WaitsForCapacity \cup WaitsForSteps

(* jobLifecycle                                                            *)
Executing == \E t \in Tasks : status[t] = "running"
Scheduled == {t \in Created : Posture(t) = "queued"}
Lifecycle ==
    CASE job \in TerminalJob -> job
      [] job \in OpenJob /\ Executing -> "active"
      [] job \in OpenJob /\ ~Executing ->
            IF Waits # {} THEN "waiting"
            ELSE IF Scheduled = {} /\ Stalled THEN "needs owner"
            ELSE "active"

(* nextActionOf                                                            *)
NextAction ==
    CASE Lifecycle \in {"completed", "cancelled"} -> "none"
      [] Lifecycle = "failed"      -> "review failure"
      [] Lifecycle = "needs owner" -> "recover stalled"
      [] Lifecycle = "waiting" ->
            IF WaitsForCapacity # {} THEN "wait for capacity" ELSE "wait for steps"
      [] Lifecycle = "active" ->
            IF Executing THEN "in progress" ELSE IF Scheduled # {} THEN "scheduled" ELSE "plan"

(* The lists of current work, and how busy an employee is in them.          *)
CurrentWork ==
    CASE Lifecycle \in TerminalJob -> "none"
      [] OTHER -> Lifecycle

Postures(e) == {Posture(t) : t \in {u \in Created : Employee[u] = e}}
Availability(e) ==
    CASE "executing" \in Postures(e) -> "busy"
      [] Postures(e) \cap {"executing", "waiting"} = {"waiting"} -> "waiting"
      [] Postures(e) \cap {"executing", "waiting", "queued"} = {"queued"} -> "assigned"
      [] OTHER -> "available"

-----------------------------------------------------------------------------
(* The Office and the workflow of an objective; the chat has the same rule. *)

Undone(t) == {d \in Deps[t] : status[d] \notin Finished}

NodeState(t) ==
    CASE status[t] = "running" -> "working"
      [] status[t] = "queued"  ->
            IF t \in waiting THEN "capacity" ELSE IF Undone(t) # {} THEN "waiting" ELSE "ready"
      [] status[t] \in Finished -> "done"
      [] status[t] \in {"failed", "blocked"} -> status[t]

OfficeOffer(t) ==
    CASE NodeState(t) = "working" ->
            IF Kind[t] = "plan" THEN "thinking" ELSE IF Kind[t] = "synthesis" THEN "reviewing"
            ELSE "working"
      [] NodeState(t) \in {"capacity", "waiting", "ready"} ->
            IF job \notin {"running", "planning"} THEN "available"
            ELSE IF NodeState(t) = "ready" THEN "queued" ELSE "waiting"
      [] NodeState(t) = "failed"  -> "failed"
      [] NodeState(t) = "blocked" -> "blocked"
      [] NodeState(t) = "done"    -> "completed"

(* One state per employee: the first of these that a step of his offers.    *)
Rank == [thinking |-> 1, working |-> 1, reviewing |-> 1, waiting |-> 2, queued |-> 2,
         blocked |-> 3, failed |-> 3, completed |-> 4, available |-> 5]
Offers(e) == {OfficeOffer(t) : t \in {u \in Created : Employee[u] = e}} \cup {"available"}
OfficeState(e) == {o \in Offers(e) : \A p \in Offers(e) : Rank[o] <= Rank[p]}

Queue(e) == {t \in Created : /\ Employee[t] = e /\ job \in {"running", "planning"}
                             /\ NodeState(t) \in {"waiting", "ready", "capacity"}}

(* chatStage                                                               *)
ChatStage ==
    CASE job = "planning" \/ Created = {} -> "thinking"
      [] OTHER ->
            IF ~Executing /\ \E t \in Created : NodeState(t) = "capacity" THEN "capacity"
            ELSE IF \E t \in Created : Kind[t] = "synthesis"
                 THEN IF \E t \in Created : /\ Kind[t] = "synthesis" /\ NodeState(t) = "working"
                                            /\ \A u \in Created : Kind[u] = "synthesis" =>
                                                   Sequence[u] <= Sequence[t]
                      THEN "consolidating" ELSE "coordinating"
            ELSE IF \E t \in Created : status[t] \in {"running", "queued"} THEN "working"
            ELSE "finishing"

-----------------------------------------------------------------------------
(* The Live Operations view.                                               *)

JobActive == job \in {"planning", "running"}

OpsState(t) ==
    CASE status[t] = "running" -> IF Kind[t] = "synthesis" THEN "reviewing" ELSE "working"
      [] status[t] \in Finished -> "completed"
      [] status[t] = "failed"  -> "failed"
      [] status[t] = "blocked" -> "blocked"
      [] status[t] = "queued"  ->
            IF ~JobActive THEN "blocked"
            ELSE IF t \in waiting \/ \E d \in Deps[t] \cap Created : status[d] \notin Finished
                 THEN "waiting"
            ELSE "assigned"

AtWork     == {"working", "reviewing"}
NowWorking == {t \in Created : OpsState(t) \in AtWork}
Streams    == {t \in Created : Kind[t] \in {"workstream", "revision"}}
OpenStreams == {t \in Streams : OpsState(t) # "completed"}

(* Of several synthesis rounds only the last one is the final synthesis.    *)
Rounds == {t \in Created : Kind[t] = "synthesis"}
\* Seeded mistake: the first one.
FirstRound == {t \in Rounds : \A u \in Rounds : Sequence[u] >= Sequence[t]}
FinalRound == {t \in Rounds : \A u \in Rounds : Sequence[u] <= Sequence[t]}

Planning ==
    LET plan == {t \in Created : Kind[t] = "plan"} IN
    CASE plan = {} -> IF JobActive /\ Streams = {} THEN "working" ELSE "done"
      [] \E t \in plan : OpsState(t) = "completed" -> "done"
      [] \E t \in plan : OpsState(t) \in AtWork -> "working"
      [] OTHER -> "pending"

Synthesis ==
    CASE FinalRound = {} -> "not started"
      [] \E t \in FinalRound : OpsState(t) = "completed" -> "done"
      [] \E t \in FinalRound : OpsState(t) \in AtWork -> "working"
      [] \E t \in FinalRound : OpsState(t) = "failed" -> "failed"
      [] OTHER -> "waiting"

ChiefTask == {t \in NowWorking : Employee[t] = "chief"}
ChiefAction ==
    CASE job = "completed" -> "delivered"
      [] job \in {"failed", "cancelled"} -> "stopped"
      [] job \notin TerminalJob ->
            IF Planning = "working" THEN "planning"
            ELSE IF ChiefTask # {} THEN IF ChiefTask \subseteq FinalRound THEN "synthesis"
                                        ELSE IF ChiefTask \subseteq Rounds THEN "review"
                                        ELSE "working"
            ELSE IF OpenStreams # {} THEN "coordinating"
            ELSE "awaiting synthesis"

NextStep ==
    CASE job \in TerminalJob -> "none"
      [] job \notin TerminalJob ->
            IF Planning # "done" THEN "assign"
            ELSE IF Synthesis = "working" THEN "deliver"
            ELSE IF OpenStreams # {} THEN "synthesize after" ELSE "start synthesis"

OpsCapacity == {t \in waiting : OpsState(t) = "waiting"}

Stage ==
    CASE job \in TerminalJob -> job
      [] job \notin TerminalJob ->
            IF Planning # "done" THEN "planning"
            ELSE IF Synthesis = "working" THEN "synthesis"
            ELSE IF \E t \in Created : Kind[t] = "revision" /\ OpsState(t) # "completed"
                 THEN "revision"
            ELSE IF OpsCapacity # {} /\ NowWorking = {} THEN "waiting for capacity"
            ELSE "workstreams"

-----------------------------------------------------------------------------
(* A step in the Deliverables Center that has delivered nothing yet.        *)
PendingStatus(t) ==
    CASE status[t] \in {"failed", "blocked"} -> "blocked"
      [] status[t] \notin {"failed", "blocked"} ->
            IF job = "failed" THEN "blocked"
            ELSE IF status[t] = "running" THEN "in progress"
            ELSE IF t \in waiting THEN "capacity"
            ELSE IF Undone(t) # {} THEN "dependency" ELSE "queued"

(* A card is a workstream with its revisions, or the rounds of the synthesis; *)
(* it shows the newest version that is delivered.                           *)
Eligible == {t \in Created : job # "cancelled" /\ status[t] # "skipped" /\ Kind[t] # "plan"}
Revises(t) == {d \in Deps[t] \cap Eligible : Kind[t] = "revision" /\ Kind[d] = "workstream"}
Card(t) == IF Kind[t] = "synthesis" THEN Rounds \cap Eligible
           ELSE {t} \cup Revises(t) \cup {u \in Eligible : t \in Revises(u)}
Cards == {Card(t) : t \in Eligible}

Latest(card) == CHOOSE t \in card : \A u \in card : Sequence[u] <= Sequence[t]
CardStatus(card) ==
    IF status[Latest(card)] = "done" THEN "delivered" ELSE PendingStatus(Latest(card))

(* Once the Chief's last step is delivered, only its card asks the owner to  *)
(* decide.                                                                 *)
Consolidated == \E t \in FinalRound \cap Eligible : status[t] = "done"
Raises(card) == Consolidated => \A t \in card : Kind[t] = "synthesis"

-----------------------------------------------------------------------------
(* With no owner, every view of an objective fits what the runtime can      *)
(* still do with it:                                                        *)
(*   - an action is asked of the owner exactly when no step can progress;    *)
(*   - the result is called delivered only when there is one answer, every   *)
(*     workstream and card delivered, the last synthesis done and one card    *)
(*     left to ask for a decision; no decision is withdrawn before that; and  *)
(*     the synthesis is at work only when every workstream delivered;        *)
(*   - once planned, the Chief awaits the synthesis only when its last round *)
(*     is queued;                                                           *)
(*   - an employee is busy in the workload, at work in the Office and in      *)
(*     "now working" at the same time;                                      *)
(*   - they agree on which queued steps wait for capacity, for other steps   *)
(*     or for nothing, on a stall, and on the synthesis being at work.       *)
Hopeless == ~\E t \in Tasks : CanProgress(t)

AsksTheOwner ==
    job = "running" /\ Created # {} =>
        (NextAction \in {"recover stalled", "review failure"}) = Hopeless

DeliveredIsDelivered ==
    /\ ChiefAction = "delivered" \/ CurrentWork = "completed" =>
           /\ finals = 1 /\ OpenStreams = {} /\ Synthesis = "done"
           /\ \A card \in Cards : CardStatus(card) = "delivered"
           /\ Cardinality({card \in Cards : Raises(card)}) = 1
    /\ Consolidated => job = "completed"
    /\ Synthesis = "working" => \A t \in OpenStreams : Kind[t] = "revision"

AwaitsTheSynthesis ==
    ChiefAction = "awaiting synthesis" /\ Planning = "done" =>
        \E t \in FinalRound : status[t] = "queued"

BusyEverywhere ==
    job \in OpenJob =>
        \A e \in {Employee[t] : t \in Created} :
            LET busy == \E t \in NowWorking : Employee[t] = e IN
            /\ (Availability(e) = "busy") = busy
            /\ (OfficeState(e) \subseteq {"thinking", "working", "reviewing"}) = busy

SameWords ==
    job \in OpenJob =>
        /\ \A t \in {u \in Created : status[u] = "queued"} :
               /\ (PendingStatus(t) = "capacity") = (NodeState(t) = "capacity")
               /\ (t \in OpsCapacity) = (NodeState(t) = "capacity")
               /\ (PendingStatus(t) = "queued") = (NodeState(t) = "ready")
               /\ (OpsState(t) = "assigned") = (NodeState(t) = "ready")
               /\ t \in Queue(Employee[t])
        /\ Created # {} => Stalled = StuckObjective
        /\ (ChatStage = "consolidating") = (Synthesis = "working")
        /\ Stage = "waiting for capacity" => ChatStage = "capacity"
        /\ NextStep = "deliver" => Stage = "synthesis"

ViewsAreTrue ==
    /\ AsksTheOwner
    /\ DeliveredIsDelivered
    /\ AwaitsTheSynthesis
    /\ BusyEverywhere
    /\ SameWords
=============================================================================

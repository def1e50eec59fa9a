-------------------------- MODULE CodingAgentProofs --------------------------
(***************************************************************************)
(* The Coding Agent's invariant, for any number of workers and turns, any  *)
(* tools gated, and any number of failures and actions of the owner.       *)
(***************************************************************************)
EXTENDS CodingAgent, FiniteSetTheorems, TLAPS

(* What the invariant says of one worker's memory, given what the rows and  *)
(* GitHub hold.                                                             *)
Real(r) ==
    /\ r.work.pushed \subseteq remote
    /\ r.target \subseteq head
    /\ Pushes(r) => r.work.pushed \subseteq r.target
    /\ Pushes(r) /\ r.result = "done" => r.target \subseteq remote

Admit(r) == r.pc \in {"begin", "run"} /\ r.id[2] \in Gated => Is(approvals, r.id, "consumed")

Aim(r) ==
    /\ r.pc = "restore" => r.id = NoId
    /\ r.pc = "save" => r.then \in {"loop", "model", "advance", "ci", "completed"}
    /\ r.pc \in {"stop", "finish"} => r.then \in Ends

Sane(r) == r \in WorkerStates /\ Real(r) /\ Admit(r) /\ Aim(r)

(* It stays in its claim, knowing at least what it knew; or it ends it.     *)
Onward(r, n) ==
    \/ n = Idle
    \/ n.pc # "idle" /\ n.token = r.token /\ Extends(n.work, r.work)

(* What a step that starts no tool makes of a memory r.                     *)
Sound(r, n) == Sane(n) /\ Onward(r, n) /\ n.pc # "run"

-----------------------------------------------------------------------------
LEMMA NoCallsTyped == NoCalls \in [calls : Seq({"write", "ask", "finish"}), by : Nat, at : Nat]
<1>1. << >> \in Seq({"write", "ask", "finish"})
  OBVIOUS
<1> QED BY <1>1 DEF NoCalls

LEMMA NoWorkTyped == NoWork \in Works
BY NoCallsTyped DEF NoWork, Works, Phases

LEMMA IdleSane == Sane(Idle)
<1>1. NoId \in Ids
  BY DEF NoId, Ids, Tools
<1>2. Idle \in WorkerStates
  BY <1>1, NoWorkTyped DEF Idle, WorkerStates, Pcs
<1>3. Real(Idle) /\ Admit(Idle) /\ Aim(Idle)
  BY DEF Real, Admit, Aim, Idle, NoWork, Pushes, NoId
<1> QED BY <1>2, <1>3 DEF Sane

LEMMA ExtendsItself ==
    ASSUME NEW x \in Works
    PROVE  Extends(x, x)
BY DEF Works, Extends

LEMMA WorkParts ==
    ASSUME NEW x \in Works
    PROVE  /\ x.turn \in Nat /\ x.heard \subseteq Nat /\ x.done \subseteq Ids /\ x.pushed \subseteq Ids
           /\ x.phase \in Phases /\ x.merged \in BOOLEAN
           /\ x.pending \in [calls : Seq({"write", "ask", "finish"}), by : Nat, at : Nat]
           /\ x = [phase |-> x.phase, turn |-> x.turn, pending |-> x.pending, heard |-> x.heard,
                   done |-> x.done, pushed |-> x.pushed, merged |-> x.merged]
<1> DEFINE P == [calls : Seq({"write", "ask", "finish"}), by : Nat, at : Nat]
<1> HIDE DEF P
<1>1. x \in [phase : Phases, turn : Nat, pending : P, heard : SUBSET Nat, done : SUBSET Ids,
             pushed : SUBSET Ids, merged : BOOLEAN]
  BY DEF Works, P
<1>2. /\ x.turn \in Nat /\ x.heard \subseteq Nat /\ x.done \subseteq Ids /\ x.pushed \subseteq Ids
      /\ x.phase \in Phases /\ x.merged \in BOOLEAN /\ x.pending \in P
      /\ x = [phase |-> x.phase, turn |-> x.turn, pending |-> x.pending, heard |-> x.heard,
              done |-> x.done, pushed |-> x.pushed, merged |-> x.merged]
  BY <1>1
<1> QED BY <1>2 DEF P

LEMMA ExtendsOver ==
    ASSUME NEW x \in Works, NEW y \in Works, NEW z \in Works, Extends(z, y), Extends(y, x)
    PROVE  Extends(z, x)
<1>1. x.turn \in Nat /\ y.turn \in Nat /\ z.turn \in Nat
  BY WorkParts
<1>2. z.turn >= x.turn
  BY <1>1 DEF Extends
<1> QED BY <1>2 DEF Extends

LEMMA StopSane ==
    ASSUME NEW r, Sane(r), NEW st \in Ends
    PROVE  Sound(r, StopAs(r, st))
<1>1. StopAs(r, st) \in WorkerStates
  BY DEF StopAs, Sane, WorkerStates, Pcs, Ends, Statuses, Closed, Ids, Tools, NoId
<1>2. Real(StopAs(r, st)) /\ Admit(StopAs(r, st)) /\ Aim(StopAs(r, st))
  BY DEF StopAs, Sane, WorkerStates, NoId, Real, Pushes, Admit, Aim
<1>3. StopAs(r, st).work = r.work /\ r.work \in Works
  BY DEF StopAs, Sane, WorkerStates
<1>4. Onward(r, StopAs(r, st))
  BY <1>3, ExtendsItself DEF StopAs, Sane, WorkerStates, Onward
<1> QED BY <1>1, <1>2, <1>4 DEF Sane, Sound, StopAs, WorkerStates

LEMMA GoSane ==
    ASSUME NEW r, Sane(r), NEW pc \in Pcs \ {"idle", "restore", "begin", "run", "save", "stop", "finish"}
    PROVE  Sound(r, Go(r, pc))
<1>1. Go(r, pc) \in WorkerStates
  BY DEF Go, Sane, WorkerStates
<1>2. Real(Go(r, pc)) /\ Admit(Go(r, pc)) /\ Aim(Go(r, pc))
  BY DEF Go, Sane, WorkerStates, Real, Pushes, Admit, Aim
<1>3. Go(r, pc).work = r.work /\ r.work \in Works
  BY DEF Go, Sane, WorkerStates
<1>4. Onward(r, Go(r, pc))
  BY <1>3, ExtendsItself DEF Go, Sane, WorkerStates, Onward
<1> QED BY <1>1, <1>2, <1>4 DEF Sane, Sound, Go, WorkerStates

LEMMA SaveSane ==
    ASSUME NEW r, Sane(r), NEW next \in {"loop", "model", "advance", "ci", "completed"}
    PROVE  Sound(r, SaveThen(r, next))
<1>1. SaveThen(r, next) \in WorkerStates
  BY DEF SaveThen, Sane, WorkerStates, Pcs, Statuses, Closed
<1>2. Real(SaveThen(r, next)) /\ Admit(SaveThen(r, next)) /\ Aim(SaveThen(r, next))
  BY DEF SaveThen, Sane, WorkerStates, Real, Pushes, Admit, Aim
<1>3. SaveThen(r, next).work = r.work /\ r.work \in Works
  BY DEF SaveThen, Sane, WorkerStates
<1>4. Onward(r, SaveThen(r, next))
  BY <1>3, ExtendsItself DEF SaveThen, Sane, WorkerStates, Onward
<1> QED BY <1>1, <1>2, <1>4 DEF Sane, Sound, SaveThen, WorkerStates

LEMMA InvokeSane ==
    ASSUME NEW r, Sane(r), NEW id \in Ids,
           id[2] \in {"push", "again"} => r.work.pushed \subseteq r.target
    PROVE  Sound(r, Invoke(r, id))
<1>1. Invoke(r, id) \in WorkerStates
  BY DEF Invoke, Sane, WorkerStates, Pcs
<1>2. Real(Invoke(r, id)) /\ Admit(Invoke(r, id)) /\ Aim(Invoke(r, id))
  BY DEF Invoke, Sane, WorkerStates, Real, Pushes, Admit, Aim
<1>3. Invoke(r, id).work = r.work /\ r.work \in Works
  BY DEF Invoke, Sane, WorkerStates
<1>4. Onward(r, Invoke(r, id))
  BY <1>3, ExtendsItself DEF Invoke, Sane, WorkerStates, Onward
<1> QED BY <1>1, <1>2, <1>4 DEF Sane, Sound, Invoke, WorkerStates

LEMMA CallsAreNamed ==
    ASSUME NEW r \in WorkerStates
    PROVE  /\ CommitId(r) \in Ids /\ CommitId(r)[2] = "commit"
           /\ AgainId(r) \in Ids /\ AgainId(r)[2] = "again"
           /\ MergeId(r) \in Ids /\ MergeId(r)[2] = "merge"
           /\ IsFiniteSet(r.target) => PushId(r) \in Ids /\ PushId(r)[2] = "push"
<1>1. r.work.turn \in Nat /\ r.token \in Nat
  BY DEF WorkerStates, Works
<1>2. CommitId(r) \in Ids /\ AgainId(r) \in Ids /\ MergeId(r) \in Ids
  BY <1>1 DEF CommitId, AgainId, MergeId, Ids, Tools
<1>3. ASSUME IsFiniteSet(r.target) PROVE PushId(r) \in Ids
  <2>1. Cardinality(r.target) \in Nat
    BY <1>3, FS_CardinalityType
  <2>2. 2 * Cardinality(r.target) + (IF r.work.pushed = r.target THEN 1 ELSE 0) \in Nat
    BY <2>1
  <2> QED BY <1>1, <2>2 DEF PushId, Ids, Tools
<1> QED BY <1>2, <1>3 DEF CommitId, AgainId, MergeId, PushId

LEMMA SoundAfter ==
    ASSUME NEW r, Sane(r), NEW m, Sane(m), m.token = r.token, Extends(m.work, r.work),
           NEW n, Sound(m, n)
    PROVE  Sound(r, n)
<1>1. r.work \in Works /\ m.work \in Works /\ n.work \in Works
  BY DEF Sane, Sound, WorkerStates
<1>2. Extends(n.work, m.work) => Extends(n.work, r.work)
  BY <1>1, ExtendsOver
<1> QED BY <1>2 DEF Sound, Onward

LEMMA DeliverSane ==
    ASSUME NEW r, Sane(r)
    PROVE  /\ Sane(Deliver(r)) /\ Deliver(r).token = r.token
           /\ Extends(Deliver(r).work, r.work)
<1> DEFINE n == Deliver(r)
<1>1. r \in WorkerStates /\ r.work \in Works
  BY DEF Sane, WorkerStates
<1>2. n.work \in Works /\ Extends(n.work, r.work)
  <2>1. n.work = [r.work EXCEPT !.heard = r.work.heard \cup r.inbox] /\ r.inbox \subseteq Nat
    BY <1>1 DEF Deliver, WorkerStates
  <2> QED BY <1>1, <2>1, WorkParts DEF Works, Extends
<1>3. n \in WorkerStates
  BY <1>1, <1>2 DEF Deliver, WorkerStates
<1>4. Real(n) /\ Admit(n) /\ Aim(n) /\ n.token = r.token
  BY <1>1 DEF Deliver, Sane, WorkerStates, Works, Real, Pushes, Admit, Aim
<1> QED BY <1>2, <1>3, <1>4 DEF Sane

LEMMA NextCallSane ==
    ASSUME NEW r, Sane(r)
    PROVE  Sound(r, NextCall(r))
<1> DEFINE n == NextCall(r)
<1>1. r \in WorkerStates /\ r.work \in Works /\ NoId \in Ids
  BY DEF Sane, WorkerStates, NoId, Ids, Tools
<1>2. n.work \in Works /\ Extends(n.work, r.work)
  <2>1. n.work = [r.work EXCEPT !.pending.at = r.work.pending.at + 1]
    BY <1>1 DEF NextCall, WorkerStates
  <2>2. r.work.pending.at + 1 \in Nat
    BY <1>1, WorkParts
  <2> QED BY <1>1, <2>1, <2>2, WorkParts DEF Works, Extends
<1>3. n \in WorkerStates
  BY <1>1, <1>2 DEF NextCall, WorkerStates, Pcs
<1>4. Real(n) /\ Admit(n) /\ Aim(n) /\ n.token = r.token /\ n.pc = "call"
  BY <1>1 DEF NextCall, NoId, Sane, WorkerStates, Works, Real, Pushes, Admit, Aim
<1> QED BY <1>2, <1>3, <1>4 DEF Sane, Sound, Onward

(* A memory whose interrupted turn and phase are set.                       *)
Turned(r, p, phase) == [r EXCEPT !.work.pending = p, !.work.phase = phase]

LEMMA TurnedSane ==
    ASSUME NEW r, Sane(r), NEW p \in [calls : Seq({"write", "ask", "finish"}), by : Nat, at : Nat],
           NEW phase \in Phases
    PROVE  /\ Sane(Turned(r, p, phase)) /\ Turned(r, p, phase).token = r.token
           /\ Extends(Turned(r, p, phase).work, r.work)
<1> DEFINE n == Turned(r, p, phase)
           x == r.work
           y == [phase |-> phase, turn |-> x.turn, pending |-> p, heard |-> x.heard,
                 done |-> x.done, pushed |-> x.pushed, merged |-> x.merged]
<1>1. r \in WorkerStates /\ x \in Works
  BY DEF Sane, WorkerStates
<1>2. n.work = y
  <2>1. n.work = [x EXCEPT !.pending = p, !.phase = phase]
    BY <1>1 DEF Turned, WorkerStates
  <2>2. x = [phase |-> x.phase, turn |-> x.turn, pending |-> x.pending, heard |-> x.heard,
             done |-> x.done, pushed |-> x.pushed, merged |-> x.merged]
    BY <1>1, WorkParts
  <2> HIDE DEF n, x
  <2> QED BY <2>1, <2>2
<1>3. y \in Works /\ Extends(y, x)
  <2>1. y \in Works
    BY <1>1, WorkParts DEF Works
  <2>2. x.turn >= x.turn
    BY <1>1, WorkParts
  <2> QED BY <2>1, <2>2 DEF Extends
<1>4. n \in WorkerStates
  BY <1>1, <1>2, <1>3 DEF Turned, WorkerStates
<1>5. Real(n) /\ Admit(n) /\ Aim(n) /\ n.token = r.token
  BY <1>1 DEF Turned, Sane, WorkerStates, Works, Real, Pushes, Admit, Aim
<1> QED BY <1>2, <1>3, <1>4, <1>5 DEF Sane

LEMMA TurnedSaved ==
    ASSUME NEW r, Sane(r), NEW p \in [calls : Seq({"write", "ask", "finish"}), by : Nat, at : Nat],
           NEW phase \in Phases, NEW next \in {"loop", "model", "advance", "ci", "completed"}
    PROVE  Sound(r, SaveThen(Turned(r, p, phase), next))
<1> DEFINE m == Turned(r, p, phase)
<1> HIDE DEF m
<1>1. Sane(m) /\ m.token = r.token /\ Extends(m.work, r.work)
  BY TurnedSane DEF m
<1>2. Sound(m, SaveThen(m, next))
  BY <1>1, SaveSane
<1>3. Sound(r, SaveThen(m, next))
  BY <1>1, <1>2, SoundAfter
<1> QED BY <1>3 DEF m

LEMMA EndTurnSane ==
    ASSUME NEW r, Sane(r)
    PROVE  Sound(r, EndTurn(r))
<1> DEFINE d == Deliver(r)
<1> HIDE DEF d
<1>1. Sane(d) /\ d.token = r.token /\ Extends(d.work, r.work)
  BY DeliverSane DEF d
<1>2. d \in WorkerStates /\ d.work \in Works
  BY <1>1 DEF Sane, WorkerStates
<1>3. [d EXCEPT !.work.pending = NoCalls] = Turned(d, NoCalls, d.work.phase)
  BY <1>2, WorkParts DEF WorkerStates, Turned
<1>4. d.work.phase \in Phases
  BY <1>2, WorkParts
<1>5. Sound(d, SaveThen(Turned(d, NoCalls, d.work.phase), "loop"))
  BY <1>1, <1>4, NoCallsTyped, TurnedSaved
<1>6. Sound(r, SaveThen(Turned(d, NoCalls, d.work.phase), "loop"))
  BY <1>1, <1>5, SoundAfter
<1> QED BY <1>3, <1>6 DEF EndTurn, d

LEMMA FinishedSane ==
    ASSUME NEW r, Sane(r)
    PROVE  Sound(r, Finished(r))
<1> DEFINE phase == IF tree = {} THEN "report" ELSE "publish"
<1>1. phase \in Phases
  BY DEF Phases
<1> HIDE DEF phase
<1>2. Sound(r, SaveThen(Turned(r, NoCalls, phase), "loop"))
  BY <1>1, NoCallsTyped, TurnedSaved
<1> QED BY <1>2 DEF Finished, Turned, phase

LEMMA PhaseSane ==
    ASSUME NEW r, Sane(r), NEW phase \in Phases,
           NEW next \in {"loop", "model", "advance", "ci", "completed"}
    PROVE  Sound(r, SaveThen([r EXCEPT !.work.phase = phase], next))
<1>1. r \in WorkerStates /\ r.work \in Works
  BY DEF Sane, WorkerStates
<1>2. r.work.pending \in [calls : Seq({"write", "ask", "finish"}), by : Nat, at : Nat]
  BY <1>1, WorkParts
<1>3. [r EXCEPT !.work.phase = phase] = Turned(r, r.work.pending, phase)
  BY <1>1, WorkParts DEF WorkerStates, Turned
<1>4. Sound(r, SaveThen(Turned(r, r.work.pending, phase), next))
  BY <1>2, TurnedSaved
<1> QED BY <1>3, <1>4

-----------------------------------------------------------------------------
(* The memory a settled call leaves.                                        *)
Outcomes == {"done", "replayed", "error", "refused", "failed", "rejected"}

LEMMA SettleSane ==
    ASSUME NEW r, Sane(r), NEW outcome \in Outcomes, outcome = "done" => r.result = "done",
           remote \subseteq head, head \subseteq Ids, IsFiniteSet(head)
    PROVE  Sound(r, Settle(r, outcome))
<1> DEFINE next == [r EXCEPT !.id = NoId, !.result = ""]
           ok == outcome \in {"done", "replayed"}
<1>1. r \in WorkerStates /\ r.work \in Works /\ r.id \in Ids /\ r.target \subseteq Ids
  BY DEF Sane, WorkerStates
<1>2. NoId \in Ids /\ NoId[2] = ""
  BY DEF NoId, Ids, Tools
<1>3. CASE r.id[2] = "write"
  <2> DEFINE m == [r EXCEPT !.work.done = @ \cup {r.id}]
  <2>1. m.work = [r.work EXCEPT !.done = r.work.done \cup {r.id}]
    BY <1>1 DEF WorkerStates
  <2>2. m.work \in Works /\ Extends(m.work, r.work)
    BY <1>1, <2>1, WorkParts DEF Works, Extends
  <2>3. m \in WorkerStates /\ m.token = r.token
    BY <1>1, <2>2 DEF WorkerStates
  <2>4. /\ m.pc = r.pc /\ m.id = r.id /\ m.target = r.target /\ m.result = r.result /\ m.then = r.then
        /\ m.work.pushed = r.work.pushed
    <3>1. m.work.pushed = r.work.pushed
      <4> HIDE DEF m
      <4> QED BY <1>1, <2>1, WorkParts
    <3>2. /\ m.pc = r.pc /\ m.id = r.id /\ m.target = r.target /\ m.result = r.result
          /\ m.then = r.then
      BY <1>1 DEF WorkerStates
    <3> QED BY <3>1, <3>2
  <2> HIDE DEF m
  <2>5. Real(m) /\ Admit(m) /\ Aim(m)
    BY <2>4 DEF Sane, Real, Pushes, Admit, Aim
  <2>6. Sane(m)
    BY <2>3, <2>5 DEF Sane
  <2>7. Sound(r, NextCall(m))
    BY <2>2, <2>3, <2>6, NextCallSane, SoundAfter
  <2>8. Sound(r, NextCall(r))
    BY NextCallSane
  <2> QED BY <1>3, <2>7, <2>8 DEF Settle, m
<1>4. CASE r.id[2] = "commit" /\ ok /\ Publish = "none"
  <2> DEFINE m == [next EXCEPT !.target = {}]
  <2>1. m \in WorkerStates /\ m.token = r.token /\ m.work = r.work
    BY <1>1, <1>2 DEF WorkerStates
  <2>2. Real(m) /\ Admit(m) /\ Aim(m)
    <3>1. m.pc = r.pc /\ m.id = NoId /\ m.target = {} /\ m.then = r.then
      BY <1>1 DEF WorkerStates
    <3> HIDE DEF m
    <3> QED BY <1>2, <2>1, <3>1, GatedAssumption DEF Sane, Real, Pushes, Admit, Aim
  <2>3. Sane(m) /\ Extends(m.work, r.work)
    BY <1>1, <2>1, <2>2, ExtendsItself DEF Sane
  <2> HIDE DEF m
  <2>4. Sound(r, Go(m, "advance"))
    BY <2>1, <2>3, GoSane, SoundAfter DEF Pcs
  <2> QED BY <1>4, <2>4 DEF Settle, m
<1>5. CASE r.id[2] = "commit" /\ ok /\ Publish # "none"
  <2> DEFINE m == [r EXCEPT !.target = head]
  <2>1. m \in WorkerStates /\ m.token = r.token /\ m.work = r.work /\ m.target = head
    BY <1>1 DEF WorkerStates
  <2>2. Real(m) /\ Admit(m) /\ Aim(m)
    BY <1>1, <1>5 DEF Sane, WorkerStates, Real, Pushes, Admit, Aim
  <2>3. Sane(m) /\ Extends(m.work, r.work)
    BY <1>1, <2>1, <2>2, ExtendsItself DEF Sane
  <2>4. m.work.pushed \subseteq m.target
    BY <2>1, <2>2 DEF Real
  <2> HIDE DEF m
  <2>5. PushId(m) \in Ids
    BY <2>1, CallsAreNamed
  <2>6. Sound(r, Invoke(m, PushId(m)))
    BY <2>1, <2>3, <2>4, <2>5, InvokeSane, SoundAfter
  <2> QED BY <1>5, <2>6 DEF Settle, m
<1>6. CASE r.id[2] = "push" /\ outcome = "replayed"
  <2>1. AgainId(r) \in Ids /\ r.work.pushed \subseteq r.target
    BY <1>1, <1>6, CallsAreNamed DEF Sane, Real, Pushes
  <2>2. Sound(r, Invoke(r, AgainId(r)))
    BY <2>1, InvokeSane
  <2> QED BY <1>6, <2>2 DEF Settle, Proven
<1>7. CASE r.id[2] \in {"push", "again"} /\ outcome = "done"
  <2> DEFINE m == [next EXCEPT !.work.pushed = r.target, !.target = {}]
  <2>1. r.target \subseteq remote /\ r.work.pushed \subseteq r.target
    BY <1>7 DEF Sane, Real, Pushes
  <2>2. m.work = [r.work EXCEPT !.pushed = r.target]
    BY <1>1 DEF WorkerStates
  <2>3. m.work \in Works /\ Extends(m.work, r.work)
    BY <1>1, <2>1, <2>2, WorkParts DEF Works, Extends
  <2>4. m \in WorkerStates /\ m.token = r.token
    BY <1>1, <1>2, <2>3 DEF WorkerStates
  <2>5. /\ m.pc = r.pc /\ m.id = NoId /\ m.target = {} /\ m.then = r.then
        /\ m.work.pushed = r.target
    BY <1>1, <2>2, WorkParts DEF WorkerStates
  <2> HIDE DEF m
  <2>6. Real(m) /\ Admit(m) /\ Aim(m)
    BY <1>2, <2>1, <2>5, GatedAssumption DEF Sane, Real, Pushes, Admit, Aim
  <2>7. Sane(m)
    BY <2>4, <2>6 DEF Sane
  <2>8. Sound(r, SaveThen(m, "advance"))
    BY <2>3, <2>4, <2>7, SaveSane, SoundAfter
  <2> QED BY <1>7, <2>8 DEF Settle, Proven, m
<1>8. CASE r.id[2] = "merge" /\ (outcome = "done" \/ (outcome = "replayed" /\ merged # {}))
  <2> DEFINE m == [next EXCEPT !.work.merged = TRUE]
  <2> DEFINE y == [r.work EXCEPT !.merged = TRUE]
  <2>1. m.work = y
    BY <1>1 DEF WorkerStates
  <2>2. y \in Works
    BY <1>1 DEF Works
  <2>3. /\ y.turn = r.work.turn /\ y.heard = r.work.heard /\ y.done = r.work.done
        /\ y.pushed = r.work.pushed
    BY <1>1, WorkParts DEF Works
  <2>4. m.work \in Works /\ Extends(m.work, r.work)
    <3> HIDE DEF m, y
    <3> QED BY <1>1, <2>1, <2>3, <2>2, WorkParts DEF Extends
  <2>5. m \in WorkerStates /\ m.token = r.token
    BY <1>1, <1>2, <2>4 DEF WorkerStates
  <2>6. /\ m.pc = r.pc /\ m.id = NoId /\ m.target = r.target /\ m.then = r.then
        /\ m.work.pushed = r.work.pushed
    BY <1>1, <2>1, <2>3 DEF WorkerStates
  <2> HIDE DEF m
  <2>7. Real(m) /\ Admit(m) /\ Aim(m)
    BY <1>2, <2>6, GatedAssumption DEF Sane, Real, Pushes, Admit, Aim
  <2>8. Sane(m)
    BY <2>5, <2>7 DEF Sane
  <2>9. Sound(r, SaveThen(m, "advance"))
    BY <2>4, <2>5, <2>8, SaveSane, SoundAfter
  <2> QED BY <1>8, <2>9 DEF Settle, m
<1>9. CASE ~(\/ r.id[2] = "write"
             \/ r.id[2] = "commit" /\ ok
             \/ r.id[2] = "push" /\ outcome = "replayed"
             \/ r.id[2] \in {"push", "again"} /\ outcome = "done"
             \/ r.id[2] = "merge" /\ (outcome = "done" \/ (outcome = "replayed" /\ merged # {})))
  <2>1. Sound(r, StopAs(r, "blocked"))
    BY StopSane DEF Ends
  <2>2. Settle(r, outcome) = StopAs(r, "blocked")
    BY <1>9 DEF Settle, Proven
  <2> QED BY <2>1, <2>2
<1> QED BY <1>3, <1>4, <1>5, <1>6, <1>7, <1>8, <1>9

LEMMA GuardSane ==
    ASSUME NEW r, Sane(r), NEW n, Sound(r, n)
    PROVE  Sound(r, Guard(r, n))
<1>1. Sound(r, Idle)
  BY IdleSane DEF Sound, Onward, Idle
<1>2. Sound(r, StopAs(r, "cancelled")) /\ Sound(r, StopAs(r, "blocked"))
  BY StopSane DEF Ends
<1> QED BY <1>1, <1>2 DEF Guard

LEMMA DispatchSane ==
    ASSUME NEW r, Sane(r)
    PROVE  Sound(r, Dispatch(r))
<1>1. r \in WorkerStates
  BY DEF Sane
<1>2. \A pc \in {"take", "ci", "advance"} : Sound(r, Go(r, pc))
  BY GoSane DEF Pcs
<1>3. Sound(r, Invoke(r, CommitId(r))) /\ Sound(r, Invoke(r, MergeId(r)))
  BY <1>1, CallsAreNamed, InvokeSane
<1>4. Sound(r, SaveThen([r EXCEPT !.work.phase = "done"], "completed"))
  BY PhaseSane DEF Phases
<1> QED BY <1>2, <1>3, <1>4 DEF Dispatch

LEMMA FoundSane ==
    ASSUME NEW r, Sane(r), remote \subseteq head, head \subseteq Ids, IsFiniteSet(head)
    PROVE  Sound(r, Found(r))
<1>1. Sound(r, Settle(r, "rejected"))
  BY SettleSane DEF Outcomes
<1>2. Sound(r, Go(r, "consume")) /\ Sound(r, Go(r, "gate"))
  BY GoSane DEF Pcs
<1>3. ASSUME r.id[2] \notin Gated PROVE Sound(r, Go(r, "begin"))
  <2> DEFINE n == Go(r, "begin")
  <2>1. n \in WorkerStates /\ n.work = r.work /\ r.work \in Works /\ n.token = r.token
    BY DEF Go, Sane, WorkerStates, Pcs
  <2>2. Real(n) /\ Admit(n) /\ Aim(n)
    BY <1>3 DEF Go, Sane, WorkerStates, Real, Pushes, Admit, Aim
  <2>3. n.pc = "begin"
    BY DEF Go, Sane, WorkerStates
  <2> QED BY <2>1, <2>2, <2>3, ExtendsItself DEF Sane, Sound, Onward
<1> QED BY <1>1, <1>2, <1>3 DEF Found

-----------------------------------------------------------------------------
(* What a step keeps: the invariant, what the checkpoints recorded, and the *)
(* end of a session that has ended.                                         *)
Good ==
    /\ IInv'
    /\ Extends(checkpoint', checkpoint)
    /\ session.status \in Closed => session'.status = session.status /\ carrier' = carrier

(* No approval that was used up comes back, and no row leaves the ledger.   *)
Books ==
    /\ SessionTypeOK'
    /\ \A id : Is(approvals, id, "consumed") => Is(approvals', id, "consumed")
    /\ DOMAIN ledger \subseteq DOMAIN ledger'

(* What a worker with memory r does to the rows short of ending its claim.  *)
Minor(r) ==
    /\ Books
    /\ session' \in {session, [session EXCEPT !.late = FALSE]}
    /\ carrier' = carrier
    /\ \/ checkpoint' = checkpoint
       \/ checkpoint' = r.work /\ Holds(r.token)

LEMMA UnchangedMinor ==
    ASSUME SessionTypeOK, UNCHANGED rows, NEW r
    PROVE  Minor(r)
BY DEF SessionTypeOK, SessionRows, Carriers, rows, Minor, Books, Is

LEMMA TakeInputsMinor ==
    ASSUME SessionTypeOK, TakeInputs, NEW r
    PROVE  Minor(r)
BY DEF SessionTypeOK, SessionRows, Carriers, TakeInputs, Minor, Books, Is

LEMMA RenewMinor ==
    ASSUME SessionTypeOK, RenewLease, NEW r
    PROVE  Minor(r)
BY DEF SessionTypeOK, SessionRows, Carriers, RenewLease, Minor, Books, Is

LEMMA SaveMinor ==
    ASSUME SessionTypeOK, NEW r, SaveCheckpoint(r.work), Holds(r.token)
    PROVE  Minor(r)
BY DEF SessionTypeOK, SessionRows, Carriers, SaveCheckpoint, Minor, Books, Is

LEMMA RequestMinor ==
    ASSUME SessionTypeOK, NEW id \in Ids, RequestApproval(id), NEW r
    PROVE  Minor(r)
<1>1. CASE id \in DOMAIN approvals
  BY <1>1 DEF SessionTypeOK, SessionRows, Carriers, RequestApproval, Minor, Books, Is
<1>2. CASE id \notin DOMAIN approvals
  <2>1. approvals' = Put(approvals, id, "pending")
    BY <1>2 DEF RequestApproval
  <2>2. DOMAIN approvals' = DOMAIN approvals \cup {id} /\ approvals'[id] = "pending"
        /\ \A y \in DOMAIN approvals \ {id} : approvals'[y] = approvals[y]
    BY <2>1 DEF Put
  <2> QED BY <1>2, <2>2 DEF SessionTypeOK, SessionRows, Carriers, RequestApproval, Minor, Books, Is
<1> QED BY <1>1, <1>2

LEMMA ConsumeMinor ==
    ASSUME SessionTypeOK, NEW id \in Ids, ConsumeApproval(id), MayConsume(id), NEW r
    PROVE  Minor(r) /\ Is(approvals', id, "consumed")
BY DEF SessionTypeOK, SessionRows, Carriers, ConsumeApproval, MayConsume, Minor, Books, Is

LEMMA BeginMinor ==
    ASSUME SessionTypeOK, NEW key \in Keys, NEW st \in {"running", "approval_required"},
           BeginExecution(key, st), NEW r
    PROVE  Minor(r) /\ key \in DOMAIN ledger'
<1>1. DOMAIN ledger' = DOMAIN ledger \cup {key} /\ ledger'[key] = st
      /\ \A y \in DOMAIN ledger \ {key} : ledger'[y] = ledger[y]
  BY DEF BeginExecution, Put
<1> QED BY <1>1 DEF SessionTypeOK, SessionRows, Carriers, BeginExecution, Minor, Books, Is

LEMMA FinishMinor ==
    ASSUME SessionTypeOK, NEW key, NEW st \in {"succeeded", "failed"},
           FinishExecution(key, st), NEW r
    PROVE  Minor(r)
BY DEF SessionTypeOK, SessionRows, Carriers, FinishExecution, Minor, Books, Is

-----------------------------------------------------------------------------
Awake(r) == r.pc # "idle"

LEMMA IdleIs == Idle.pc = "idle" /\ Idle.token = 0 /\ ~Awake(Idle)
BY DEF Idle, Awake

LEMMA EachSane ==
    ASSUME IInv, NEW w \in Workers
    PROVE  Sane(workers[w])
<1>1. workers[w] \in WorkerStates
  BY DEF IInv, TypeOK
<1>2. Real(workers[w]) /\ Admit(workers[w]) /\ Aim(workers[w])
  BY DEF IInv, Reality, Admitted, Aims, Real, Admit, Aim, At
<1> QED BY <1>1, <1>2 DEF Sane

(* What Sane says of a memory still holds when GitHub and the books grew.   *)
LEMMA StaysSane ==
    ASSUME NEW n, Sane(n), Books, remote \subseteq remote', head \subseteq head',
           NEW w, workers'[w] = n
    PROVE  Sane(workers[w])'
<1>1. n.work.pushed \subseteq remote' /\ n.target \subseteq head'
  BY DEF Sane, Real
<1>2. Pushes(n) => /\ n.work.pushed \subseteq n.target
                   /\ n.result = "done" => n.target \subseteq remote'
  BY DEF Sane, Real
<1>3. Real(workers[w])'
  BY <1>1, <1>2 DEF Real, Pushes
<1>4. Admit(workers[w])' /\ Aim(workers[w])'
  BY DEF Sane, Admit, Aim, Books
<1> QED BY <1>3, <1>4 DEF Sane

(* A step of one worker that leaves the world alone and ends no claim.      *)
LEMMA MinorStep ==
    ASSUME IInv, NEW w \in Workers, Busy(w), Minor(workers[w]),
           NEW n, Set(w, n), Sane(workers[w])',
           UNCHANGED world, faults' \in 0 .. MaxFaults, clicks' \in 0 .. MaxClicks,
           \/ n = Idle
           \/ /\ n.pc # "idle" /\ n.token = workers[w].token
              /\ Holds(n.token) => Extends(n.work, checkpoint'),
           n.pc = "run" => \/ At(w, "run") /\ n.id = workers[w].id
                           \/ Key(n.id) \in DOMAIN ledger' \ DOMAIN ledger
    PROVE  Good
<1> DEFINE r == workers[w]
<1>1. r \in WorkerStates /\ r.work \in Works /\ checkpoint \in Works
  BY DEF IInv, TypeOK, WorkerStates
<1>2. /\ session'.status = session.status /\ session'.holder = session.holder
      /\ session'.claims = session.claims /\ carrier' = carrier /\ SessionTypeOK'
      /\ \A id : Is(approvals, id, "consumed") => Is(approvals', id, "consumed")
      /\ DOMAIN ledger \subseteq DOMAIN ledger'
  BY DEF Minor, Books, IInv, TypeOK, SessionTypeOK, SessionRows, Carriers
<1>3. /\ workers'[w] = n
      /\ \A v \in Workers \ {w} : workers'[v] = workers[v]
  BY DEF Set, IInv, TypeOK
<1>4. \A v \in Workers : Sane(workers[v])'
  <2> TAKE v \in Workers
  <2>1. CASE v = w
    BY <2>1
  <2>2. CASE v # w
    BY <1>3, <2>2, EachSane, StaysSane DEF Minor, world
  <2> QED BY <2>1, <2>2
<1>5. checkpoint' \in Works /\ Extends(checkpoint', checkpoint) /\ checkpoint'.pushed \subseteq remote
  <2>1. CASE checkpoint' = checkpoint
    BY <1>1, <2>1, ExtendsItself DEF IInv, Reality
  <2>2. CASE checkpoint' = r.work /\ Holds(r.token)
    BY <1>1, <2>2 DEF IInv, Knows, Reality
  <2> QED BY <2>1, <2>2 DEF Minor
<1>6. TypeOK'
  <2>1. workers' \in [Workers -> WorkerStates]
    BY <1>3, <1>4 DEF Set, Sane, IInv, TypeOK
  <2>2. {tree, head, remote, merged, executed, repeated}' \subseteq SUBSET Ids
    BY DEF IInv, TypeOK, world
  <2> QED BY <1>2, <1>5, <2>1, <2>2 DEF TypeOK
<1>7. /\ \A v \in Workers : Awake(workers[v]) => workers[v].token \in 1 .. session.claims
      /\ \A v \in Workers : ~Awake(workers[v]) => workers[v] = Idle
      /\ \A u, v \in Workers : u # v /\ Awake(workers[u]) => workers[u].token # workers[v].token
  BY DEF IInv, Tokens, Busy, At, Awake
<1>8. \A v \in Workers :
         /\ Awake(workers'[v]) => Awake(workers[v]) /\ workers'[v].token = workers[v].token
         /\ ~Awake(workers'[v]) => workers'[v] = Idle
  <2> TAKE v \in Workers
  <2>1. CASE v = w /\ n = Idle
    BY <1>3, <2>1, IdleIs DEF Awake
  <2>2. CASE v = w /\ n # Idle
    BY <1>3, <2>2 DEF Busy, At, Awake
  <2>3. CASE v # w
    BY <1>3, <1>7, <2>3 DEF Busy, At, Awake
  <2> QED BY <2>1, <2>2, <2>3
<1>9. Tokens'
  <2>1. \A u, v \in Workers : u # v /\ Awake(workers'[u]) => workers'[u].token # workers'[v].token
    <3> TAKE u \in Workers, v \in Workers
    <3> HAVE u # v /\ Awake(workers'[u])
    <3>1. Awake(workers[u]) /\ workers'[u].token = workers[u].token /\ workers[u].token \in 1 .. session.claims
      BY <1>7, <1>8
    <3>2. workers'[v].token = workers[v].token \/ workers'[v].token = 0
      BY <1>8, IdleIs
    <3> QED BY <1>7, <3>1, <3>2
  <2>2. \A v \in Workers : IF Awake(workers'[v]) THEN workers'[v].token \in 1 .. session'.claims
                                         ELSE workers'[v] = Idle
    BY <1>2, <1>7, <1>8
  <2>3. /\ session'.holder # 0 <=> session'.status = "running"
        /\ session'.holder <= session'.claims
    BY <1>2 DEF IInv, Tokens
  <2> QED BY <2>1, <2>2, <2>3 DEF Tokens, Busy, At, Awake
<1>10. Knows'
  <2> SUFFICES ASSUME NEW v \in Workers, Awake(workers'[v]), session.holder = workers'[v].token
               PROVE  Extends(workers'[v].work, checkpoint')
    BY <1>2 DEF Knows, Extends, Holds, Busy, At, Awake
  <2>1. CASE v = w
    <3>1. n # Idle
      BY <1>3, <2>1, IdleIs DEF Awake
    <3> QED BY <1>3, <2>1, <3>1 DEF Holds
  <2>2. CASE v # w
    <3>1. Awake(workers[v]) /\ session.holder = workers[v].token /\ session.holder # r.token
      BY <1>7, <1>8, <2>2 DEF Busy, At, Awake
    <3>2. checkpoint' = checkpoint
      BY <3>1 DEF Minor, Holds
    <3>3. Extends(workers[v].work, checkpoint)
      BY <3>1 DEF IInv, Knows, Holds, Busy, At, Awake
    <3> QED BY <1>3, <2>2, <3>2, <3>3
  <2> QED BY <2>1, <2>2
<1>11. Reality'
  <2>1. \A v \in Workers : Real(workers[v])'
    BY <1>4 DEF Sane
  <2>2. /\ (remote \subseteq head /\ head \subseteq tree /\ IsFiniteSet(tree))'
        /\ checkpoint'.pushed \subseteq remote'
    BY <1>5 DEF world, IInv, Reality
  <2> QED BY <2>1, <2>2 DEF Reality, Real
<1>12. Runs'
  <2>1. \A id \in executed' : Key(id)' \in DOMAIN ledger'
    BY <1>2 DEF world, IInv, Runs, Key
  <2>2. \A v \in Workers : v # w /\ At(v, "run")' =>
            At(v, "run") /\ workers'[v].id = workers[v].id
    BY <1>3 DEF At
  <2>3. CASE At(w, "run") /\ n.id = workers[w].id
    BY <1>2, <1>3, <2>1, <2>2, <2>3 DEF world, IInv, Runs, Key, At
  <2>4. CASE n.pc # "run"
    BY <1>2, <1>3, <2>1, <2>2, <2>4 DEF world, IInv, Runs, Key, At
  <2>5. CASE Key(n.id) \in DOMAIN ledger' \ DOMAIN ledger
    BY <1>2, <1>3, <2>1, <2>2, <2>5 DEF world, IInv, Runs, Key, At
  <2> QED BY <2>3, <2>4, <2>5
<1>13. Admitted' /\ Aims'
  BY <1>4 DEF Sane, Admit, Aim, Admitted, Aims, At
<1>14. CallOnce' /\ ApprovedFirst' /\ CarrierAgrees'
  <2>1. ApprovedFirst'
    BY <1>2 DEF world, IInv, ApprovedFirst
  <2>2. CallOnce' /\ CarrierAgrees'
    BY <1>2 DEF world, IInv, CallOnce, CarrierAgrees, CarrierOf
  <2> QED BY <2>1, <2>2
<1> QED BY <1>2, <1>5, <1>6, <1>11, <1>12, <1>13, <1>14, <1>9, <1>10 DEF Good, IInv

LEMMA SoundStep ==
    ASSUME IInv, NEW w \in Workers, Busy(w), Minor(workers[w]),
           NEW n, Set(w, n), Sound(workers[w], n),
           UNCHANGED world, faults' \in 0 .. MaxFaults, clicks' \in 0 .. MaxClicks
    PROVE  Good
<1> DEFINE r == workers[w]
<1>1. r.work \in Works /\ checkpoint \in Works /\ n.work \in Works
  BY DEF IInv, TypeOK, WorkerStates, Sound, Sane
<1>2. workers'[w] = n
  BY DEF Set, IInv, TypeOK
<1>3. Sane(workers[w])'
  BY <1>2, StaysSane DEF Sound, Minor, world
<1>4. ASSUME n # Idle
      PROVE  /\ n.pc # "idle" /\ n.token = r.token
             /\ Holds(n.token) => Extends(n.work, checkpoint')
  <2>1. n.pc # "idle" /\ n.token = r.token /\ Extends(n.work, r.work)
    BY <1>4 DEF Sound, Onward
  <2>2. ASSUME Holds(n.token) PROVE Extends(n.work, checkpoint')
    <3>1. Extends(r.work, checkpoint)
      BY <2>1, <2>2 DEF IInv, Knows
    <3>2. CASE checkpoint' = checkpoint
      BY <1>1, <2>1, <3>1, <3>2, ExtendsOver
    <3>3. CASE checkpoint' = r.work
      BY <2>1, <3>3
    <3> QED BY <3>2, <3>3 DEF Minor
  <2> QED BY <2>1, <2>2
<1>5. n.pc # "run"
  BY DEF Sound
<1> HIDE DEF r
<1> QED BY <1>3, <1>4, <1>5, MinorStep DEF r

(* The step that ends a claim: the worker that holds the token writes the   *)
(* status it stopped with.                                                  *)
LEMMA EndStep ==
    ASSUME IInv, NEW w \in Workers, At(w, "finish"), Holds(workers[w].token),
           FinishSession(workers[w].then), NEW n, Set(w, n), Sound(workers[w], n),
           UNCHANGED world, faults' \in 0 .. MaxFaults, clicks' \in 0 .. MaxClicks
    PROVE  Good
<1> DEFINE r == workers[w]
           st == r.then
<1>0. r \in WorkerStates /\ checkpoint \in Works /\ st \in Ends
  <2>1. st \in Ends
    BY DEF IInv, Aims, At
  <2> QED BY <2>1 DEF IInv, TypeOK
<1>1. /\ \A v \in Workers : Awake(workers[v]) => workers[v].token \in 1 .. session.claims
      /\ \A v \in Workers : ~Awake(workers[v]) => workers[v] = Idle
      /\ \A u, v \in Workers : u # v /\ Awake(workers[u]) => workers[u].token # workers[v].token
      /\ session.holder # 0 <=> session.status = "running"
  BY DEF IInv, Tokens, Busy, At, Awake
<1>2. /\ workers'[w] = n
      /\ \A v \in Workers \ {w} : workers'[v] = workers[v]
  BY DEF Set, IInv, TypeOK
<1>3. session.status = "running" /\ Awake(r) /\ session.claims \in Nat
  <2>1. Awake(r)
    BY DEF At, Awake
  <2>2. session.claims \in Nat
    BY DEF IInv, TypeOK, SessionTypeOK, SessionRows, Carriers
  <2> QED BY <1>1, <2>1, <2>2 DEF Holds
<1>4. /\ session'.status = st /\ session'.holder = 0 /\ session'.claims = session.claims
      /\ SessionTypeOK' /\ carrier' = FinishedCarrier(st)
  <2>1. /\ session'.status = st /\ session'.holder = 0 /\ session'.claims = session.claims
        /\ session' \in SessionRows
    BY <1>0 DEF FinishSession, IInv, TypeOK, SessionTypeOK, SessionRows, Carriers, Ends, Statuses, Closed
  <2>2. carrier' = FinishedCarrier(st)
        /\ carrier' \in Carriers
    BY <1>0 DEF FinishSession, FinishedCarrier, IInv, TypeOK, SessionTypeOK, SessionRows, Carriers, Ends
  <2> QED BY <2>1, <2>2 DEF FinishSession, IInv, TypeOK, SessionTypeOK, SessionRows, Carriers
<1>5. CarrierAgrees'
  <2>1. carrier = [job |-> "running", task |-> "assigned", run |-> "running"]
    BY <1>3 DEF IInv, CarrierAgrees, CarrierOf
  <2> QED BY <1>0, <1>4, <2>1 DEF CarrierAgrees, CarrierOf, FinishedCarrier, Ends
<1>6. Books /\ checkpoint' = checkpoint
  BY <1>4 DEF Books, FinishSession, Is
<1>7. \A v \in Workers : Sane(workers[v])'
  <2> TAKE v \in Workers
  <2>1. CASE v = w
    BY <1>2, <1>6, <2>1, StaysSane DEF Sound, world
  <2>2. CASE v # w
    BY <1>2, <1>6, <2>2, EachSane, StaysSane DEF world
  <2> QED BY <2>1, <2>2
<1>8. \A v \in Workers :
          /\ Awake(workers'[v]) => Awake(workers[v]) /\ workers'[v].token = workers[v].token
          /\ ~Awake(workers'[v]) => workers'[v] = Idle
  <2> TAKE v \in Workers
  <2>1. CASE v = w
    BY <1>2, <1>3, <2>1, IdleIs DEF Sound, Onward, Awake
  <2>2. CASE v # w
    BY <1>1, <1>2, <2>2
  <2> QED BY <2>1, <2>2
<1>9. TypeOK'
  <2>1. workers' \in [Workers -> WorkerStates]
    BY <1>2, <1>7 DEF Set, Sane, IInv, TypeOK
  <2>2. {tree, head, remote, merged, executed, repeated}' \subseteq SUBSET Ids
    BY DEF IInv, TypeOK, world
  <2> QED BY <1>0, <1>4, <1>6, <2>1, <2>2 DEF TypeOK
<1>10. Tokens'
  <2>1. \A u, v \in Workers : u # v /\ Awake(workers'[u]) => workers'[u].token # workers'[v].token
    <3> TAKE u \in Workers, v \in Workers
    <3> HAVE u # v /\ Awake(workers'[u])
    <3>1. Awake(workers[u]) /\ workers'[u].token = workers[u].token /\ workers[u].token \in 1 .. session.claims
      BY <1>1, <1>8
    <3>2. workers'[v].token = workers[v].token \/ workers'[v].token = 0
      BY <1>8, IdleIs
    <3> QED BY <1>1, <3>1, <3>2
  <2>2. \A v \in Workers : IF Awake(workers'[v]) THEN workers'[v].token \in 1 .. session'.claims
                                                  ELSE workers'[v] = Idle
    BY <1>1, <1>4, <1>8
  <2>3. /\ session'.holder # 0 <=> session'.status = "running"
        /\ session'.holder <= session'.claims
    BY <1>0, <1>3, <1>4 DEF Ends
  <2> QED BY <2>1, <2>2, <2>3 DEF Tokens, Busy, At, Awake
<1>11. Knows'
  <2>1. \A v \in Workers : Awake(workers'[v]) => session'.holder # workers'[v].token
    BY <1>1, <1>4, <1>8
  <2> QED BY <2>1 DEF Knows, Busy, At, Awake, Holds
<1>12. Reality'
  <2>1. \A v \in Workers : Real(workers[v])'
    BY <1>7 DEF Sane
  <2>2. /\ (remote \subseteq head /\ head \subseteq tree /\ IsFiniteSet(tree))'
        /\ checkpoint'.pushed \subseteq remote'
    BY <1>6 DEF world, IInv, Reality
  <2> QED BY <2>1, <2>2 DEF Reality, Real
<1>13. Runs'
  <2>1. \A v \in Workers : At(v, "run")' => At(v, "run") /\ workers'[v].id = workers[v].id
    BY <1>2 DEF At, Sound
  <2> QED BY <1>6, <2>1 DEF world, IInv, Runs, Key, Books
<1>14. Admitted' /\ Aims'
  BY <1>7 DEF Sane, Admit, Aim, Admitted, Aims, At
<1>15. CallOnce' /\ ApprovedFirst'
  BY <1>6 DEF world, IInv, CallOnce, ApprovedFirst, Books
<1>16. Extends(checkpoint', checkpoint)
  BY <1>0, <1>6, ExtendsItself
<1> QED BY <1>3, <1>5, <1>9, <1>10, <1>11, <1>12, <1>13, <1>14, <1>15, <1>16 DEF Good, IInv, Closed

LEMMA ClaimStep ==
    ASSUME IInv, NEW w \in Workers, Claim(w)
    PROVE  Good
<1> DEFINE t == session.claims + 1
           n == [Idle EXCEPT !.pc = "restore", !.token = t, !.work = checkpoint]
<1>0. session.claims \in Nat /\ checkpoint \in Works /\ checkpoint.pushed \subseteq remote
  BY DEF IInv, TypeOK, SessionTypeOK, SessionRows, Carriers, Reality
<1>1. /\ \A v \in Workers : Awake(workers[v]) => workers[v].token \in 1 .. session.claims
      /\ \A v \in Workers : ~Awake(workers[v]) => workers[v] = Idle
      /\ \A u, v \in Workers : u # v /\ Awake(workers[u]) => workers[u].token # workers[v].token
  BY DEF IInv, Tokens, Busy, At, Awake
<1>2. /\ workers'[w] = n
      /\ \A v \in Workers \ {w} : workers'[v] = workers[v]
  BY DEF Claim, Set, IInv, TypeOK
<1>3. Sane(n) /\ n.pc = "restore" /\ n.token = t /\ n.work = checkpoint
  <2>1. Idle \in WorkerStates /\ NoId[2] = ""
    BY IdleSane DEF Sane, NoId
  <2>2. n.pc = "restore" /\ n.token = t /\ n.work = checkpoint /\ n.id = NoId /\ n.target = {}
    BY DEF Idle
  <2>3. n \in WorkerStates
    <3>1. t \in Nat
      BY <1>0
    <3>2. "restore" \in Pcs
      BY DEF Pcs
    <3> HIDE DEF t
    <3> QED BY <1>0, <2>1, <3>1, <3>2 DEF WorkerStates
  <2> HIDE DEF n
  <2> QED BY <1>0, <2>1, <2>2, <2>3 DEF Sane, Real, Pushes, Admit, Aim
<1> HIDE DEF n
<1>4. session.status \in {"queued", "running"}
  BY DEF Claim, Claimable
<1>5. /\ session'.status = "running" /\ session'.holder = t /\ session'.claims = t
      /\ SessionTypeOK' /\ carrier' = [carrier EXCEPT !.job = "running"]
  <2>1. session'.status = "running" /\ session'.holder = t /\ session'.claims = t
    BY DEF Claim, ClaimSession, IInv, TypeOK, SessionTypeOK, SessionRows, Carriers
  <2>2. session' \in SessionRows
    <3>1. t \in Nat
      BY <1>0
    <3>2. session' = [session EXCEPT !.status = "running", !.holder = t, !.claims = t, !.late = FALSE]
      BY DEF Claim, ClaimSession
    <3>3. session \in SessionRows
      BY DEF IInv, TypeOK, SessionTypeOK, SessionRows, Carriers
    <3> HIDE DEF t
    <3> QED BY <3>1, <3>2, <3>3 DEF Statuses, SessionRows
  <2>3. carrier' \in Carriers
    BY DEF Claim, ClaimSession, IInv, TypeOK, SessionTypeOK, SessionRows, Carriers
  <2> QED BY <2>1, <2>2, <2>3 DEF Claim, ClaimSession, IInv, TypeOK, SessionTypeOK, SessionRows, Carriers
<1>6. CarrierAgrees'
  <2>1. carrier = [job |-> "running", task |-> "assigned", run |-> "running"]
    BY <1>4 DEF IInv, CarrierAgrees, CarrierOf
  <2> QED BY <1>5, <2>1 DEF CarrierAgrees, CarrierOf
<1>7. Books /\ checkpoint' = checkpoint /\ UNCHANGED world
  BY <1>5 DEF Books, Claim, ClaimSession, Is, Quiet, world
<1>8. \A v \in Workers : Sane(workers[v])'
  <2> TAKE v \in Workers
  <2>1. CASE v = w
    BY <1>2, <1>3, <1>7, <2>1, StaysSane DEF world
  <2>2. CASE v # w
    BY <1>2, <1>7, <2>2, EachSane, StaysSane DEF world
  <2> QED BY <2>1, <2>2
<1>9. TypeOK'
  <2>1. workers' \in [Workers -> WorkerStates]
    BY <1>2, <1>8 DEF Claim, Set, Sane, IInv, TypeOK
  <2>2. {tree, head, remote, merged, executed, repeated}' \subseteq SUBSET Ids
    BY <1>7 DEF IInv, TypeOK, world
  <2>3. faults' \in 0 .. MaxFaults /\ clicks' \in 0 .. MaxClicks
    BY DEF Claim, Quiet, IInv, TypeOK
  <2> QED BY <1>0, <1>5, <1>7, <2>1, <2>2, <2>3 DEF TypeOK
<1>10. Tokens'
  <2>1. \A u, v \in Workers : u # v /\ Awake(workers'[u]) => workers'[u].token # workers'[v].token
    <3> TAKE u \in Workers, v \in Workers
    <3> HAVE u # v /\ Awake(workers'[u])
    <3>1. CASE u = w
      <4>1. workers'[v].token = 0 \/ workers'[v].token \in 1 .. session.claims
        BY <1>1, <1>2, <3>1, IdleIs
      <4> QED BY <1>0, <1>2, <1>3, <3>1, <4>1
    <3>2. CASE v = w
      <4>1. workers'[u].token \in 1 .. session.claims
        BY <1>1, <1>2, <3>2
      <4> QED BY <1>0, <1>2, <1>3, <3>2, <4>1
    <3>3. CASE u # w /\ v # w
      BY <1>1, <1>2, <3>3
    <3> QED BY <3>1, <3>2, <3>3
  <2>2. \A v \in Workers : IF Awake(workers'[v]) THEN workers'[v].token \in 1 .. session'.claims
                                                  ELSE workers'[v] = Idle
    <3> TAKE v \in Workers
    <3>1. CASE v = w
      BY <1>0, <1>2, <1>3, <1>5, <3>1 DEF Awake
    <3>2. CASE v # w
      BY <1>0, <1>1, <1>2, <1>5, <3>2
    <3> QED BY <3>1, <3>2
  <2>3. /\ session'.holder # 0 <=> session'.status = "running"
        /\ session'.holder <= session'.claims
    BY <1>0, <1>5
  <2> QED BY <2>1, <2>2, <2>3 DEF Tokens, Busy, At, Awake
<1>11. Knows'
  <2> SUFFICES ASSUME NEW v \in Workers, Awake(workers'[v]), session'.holder = workers'[v].token
               PROVE  Extends(workers'[v].work, checkpoint')
    BY DEF Knows, Extends, Holds, Busy, At, Awake
  <2>1. CASE v = w
    BY <1>0, <1>2, <1>3, <1>7, <2>1, ExtendsItself
  <2>2. CASE v # w
    <3>1. workers'[v].token \in 1 .. session.claims
      BY <1>1, <1>2, <2>2
    <3> QED BY <1>0, <1>5, <3>1
  <2> QED BY <2>1, <2>2
<1>12. Reality'
  <2>1. \A v \in Workers : Real(workers[v])'
    BY <1>8 DEF Sane
  <2>2. /\ (remote \subseteq head /\ head \subseteq tree /\ IsFiniteSet(tree))'
        /\ checkpoint'.pushed \subseteq remote'
    BY <1>7 DEF world, IInv, Reality
  <2> QED BY <2>1, <2>2 DEF Reality, Real
<1>13. Runs'
  <2>1. \A v \in Workers : At(v, "run")' => At(v, "run") /\ workers'[v].id = workers[v].id
    BY <1>2, <1>3 DEF At
  <2> QED BY <1>7, <2>1 DEF world, IInv, Runs, Key, Books
<1>14. Admitted' /\ Aims'
  BY <1>8 DEF Sane, Admit, Aim, Admitted, Aims, At
<1>15. CallOnce' /\ ApprovedFirst'
  BY <1>7 DEF world, IInv, CallOnce, ApprovedFirst, Books
<1>16. Extends(checkpoint', checkpoint)
  BY <1>0, <1>7, ExtendsItself
<1> QED BY <1>4, <1>6, <1>9, <1>10, <1>11, <1>12, <1>13, <1>14, <1>15, <1>16 DEF Good, IInv, Closed

(* The step that runs a tool: it changes the world and the books not at all.*)
LEMMA RunStep ==
    ASSUME IInv, NEW w \in Workers, RunTool(w)
    PROVE  Good
<1> DEFINE r == workers[w]
<1>0. /\ r \in WorkerStates /\ r.work \in Works /\ r.id \in Ids /\ checkpoint \in Works
      /\ r.pc = "run" /\ tree \subseteq Ids /\ head \subseteq Ids /\ remote \subseteq Ids
      /\ merged \subseteq Ids /\ executed \subseteq Ids
      /\ remote \subseteq head /\ head \subseteq tree /\ IsFiniteSet(tree)
      /\ checkpoint.pushed \subseteq remote
  BY DEF RunTool, At, IInv, TypeOK, WorkerStates, Reality
<1>1. /\ tree' \subseteq Ids /\ head' \subseteq Ids /\ remote' \subseteq Ids /\ merged' \subseteq Ids
      /\ remote \subseteq remote' /\ head \subseteq head' /\ remote' \subseteq head' /\ head' \subseteq tree'
      /\ IsFiniteSet(tree')
  <2>1. IsFiniteSet(tree \cup {r.id})
    BY <1>0, FS_AddElement
  <2>2. CASE Effect(r)
    BY <1>0, <2>1, <2>2 DEF Effect, Pushes
  <2>3. CASE UNCHANGED <<tree, head, remote, merged>>
    BY <1>0, <2>3
  <2> QED BY <2>2, <2>3 DEF RunTool
<1>2. UNCHANGED <<session, carrier, checkpoint, approvals, inputs, ledger, faults, clicks>>
  BY DEF RunTool
<1>3. \E result \in {"done", "refused", "failed"} :
          /\ Set(w, [r EXCEPT !.pc = "record", !.result = result])
          /\ Pushes(r) /\ result = "done" => r.target \subseteq remote'
  <2>1. ASSUME Effect(r), Pushes(r) => MayPush(r), Pushes(r)
        PROVE  r.target \subseteq remote'
    BY <2>1 DEF Effect, MayPush
  <2> QED BY <2>1 DEF RunTool
<1>4. PICK result \in {"done", "refused", "failed"} :
          /\ Set(w, [r EXCEPT !.pc = "record", !.result = result])
          /\ Pushes(r) /\ result = "done" => r.target \subseteq remote'
  BY <1>3
<1> DEFINE n == [r EXCEPT !.pc = "record", !.result = result]
<1>5. /\ n \in WorkerStates /\ n.pc = "record" /\ n.result = result /\ n.token = r.token
      /\ n.work = r.work /\ n.id = r.id /\ n.target = r.target
  BY <1>0 DEF WorkerStates, Pcs
<1> HIDE DEF n
<1>6. /\ workers'[w] = n
      /\ \A v \in Workers \ {w} : workers'[v] = workers[v]
  BY <1>4 DEF Set, IInv, TypeOK, n
<1>7. Books
  BY <1>2 DEF Books, Is, IInv, TypeOK, SessionTypeOK, SessionRows, Carriers
<1>8. \A v \in Workers : Sane(workers[v])'
  <2> TAKE v \in Workers
  <2>1. CASE v = w
    <3>1. Real(r)
      BY EachSane DEF Sane
    <3>2. /\ n.work.pushed \subseteq remote' /\ n.target \subseteq head'
          /\ Pushes(n) => n.work.pushed \subseteq n.target
          /\ Pushes(n) /\ n.result = "done" => n.target \subseteq remote'
      BY <1>1, <1>4, <1>5, <3>1 DEF Real, Pushes
    <3>3. Real(workers[v])'
      BY <1>6, <2>1, <3>2 DEF Real, Pushes
    <3> QED BY <1>5, <1>6, <2>1, <3>3 DEF Sane, Admit, Aim
  <2>2. CASE v # w
    BY <1>1, <1>6, <1>7, <2>2, EachSane, StaysSane
  <2> QED BY <2>1, <2>2
<1>9. Key(r.id) \in DOMAIN ledger /\ r.id \notin executed /\ executed' = executed \cup {r.id}
      /\ repeated' = repeated /\ (r.id[2] \in Gated => Is(approvals, r.id, "consumed"))
  BY <1>0 DEF RunTool, At, IInv, Runs, Admitted
<1>10. TypeOK'
  <2>1. workers' \in [Workers -> WorkerStates]
    BY <1>4, <1>6, <1>8 DEF Set, Sane, IInv, TypeOK
  <2>2. {tree, head, remote, merged, executed, repeated}' \subseteq SUBSET Ids
    BY <1>0, <1>1, <1>9 DEF IInv, TypeOK
  <2>3. SessionTypeOK'
    BY <1>7 DEF Books
  <2> QED BY <1>2, <2>1, <2>2, <2>3 DEF IInv, TypeOK
<1>11. Tokens' /\ Knows'
  <2>1. \A v \in Workers : /\ Awake(workers'[v]) <=> Awake(workers[v])
                           /\ workers'[v].token = workers[v].token
                           /\ workers'[v].work = workers[v].work
                           /\ ~Awake(workers[v]) => workers'[v] = workers[v]
    BY <1>0, <1>5, <1>6 DEF Awake
  <2>2. /\ \A v \in Workers : Awake(workers[v]) => workers[v].token \in 1 .. session.claims
        /\ \A v \in Workers : ~Awake(workers[v]) => workers[v] = Idle
        /\ \A u, v \in Workers : u # v /\ Awake(workers[u]) => workers[u].token # workers[v].token
        /\ session.holder # 0 <=> session.status = "running"
        /\ session.holder <= session.claims
        /\ \A v \in Workers : Awake(workers[v]) /\ session.holder = workers[v].token
                                  => Extends(workers[v].work, checkpoint)
    BY DEF IInv, Tokens, Knows, Busy, At, Awake, Holds
  <2>3. /\ \A v \in Workers : IF Awake(workers'[v]) THEN workers'[v].token \in 1 .. session.claims
                                                     ELSE workers'[v] = Idle
        /\ \A u, v \in Workers : u # v /\ Awake(workers'[u]) => workers'[u].token # workers'[v].token
        /\ \A v \in Workers : Awake(workers'[v]) /\ session.holder = workers'[v].token
                                  => Extends(workers'[v].work, checkpoint)
    <3>1. \A v \in Workers : IF Awake(workers'[v]) THEN workers'[v].token \in 1 .. session.claims
                                                    ELSE workers'[v] = Idle
      BY <2>1, <2>2
    <3>2. \A u, v \in Workers : u # v /\ Awake(workers'[u]) => workers'[u].token # workers'[v].token
      BY <2>1, <2>2
    <3>3. \A v \in Workers : Awake(workers'[v]) /\ session.holder = workers'[v].token
                                 => Extends(workers'[v].work, checkpoint)
      BY <2>1, <2>2
    <3> QED BY <3>1, <3>2, <3>3
  <2>4. Tokens'
    BY <1>2, <2>2, <2>3 DEF Tokens, Busy, At, Awake
  <2>5. Knows'
    BY <1>2, <2>3 DEF Knows, Extends, Busy, At, Awake, Holds
  <2> QED BY <2>4, <2>5
<1>12. Reality'
  <2>1. \A v \in Workers : Real(workers[v])'
    BY <1>8 DEF Sane
  <2>2. checkpoint'.pushed \subseteq remote'
    BY <1>0, <1>1, <1>2
  <2> QED BY <1>1, <2>1, <2>2 DEF Reality, Real
<1>13. Runs'
  <2>1. \A v \in Workers : At(v, "run")' => v # w /\ At(v, "run") /\ workers'[v].id = workers[v].id
    BY <1>5, <1>6 DEF At
  <2>2. \A v \in Workers : At(v, "run")' => workers'[v].id # r.id
    BY <1>0, <2>1 DEF IInv, Runs, At
  <2> QED BY <1>2, <1>9, <2>1, <2>2 DEF IInv, Runs, Key
<1>14. Admitted' /\ Aims'
  BY <1>8 DEF Sane, Admit, Aim, Admitted, Aims, At
<1>15. CallOnce' /\ ApprovedFirst' /\ CarrierAgrees'
  <2>1. ApprovedFirst'
    BY <1>2, <1>9 DEF IInv, ApprovedFirst, Is
  <2>2. CallOnce' /\ CarrierAgrees'
    BY <1>2, <1>9 DEF IInv, CallOnce, CarrierAgrees, CarrierOf
  <2> QED BY <2>1, <2>2
<1>16. Extends(checkpoint', checkpoint)
  BY <1>0, <1>2, ExtendsItself
<1> QED BY <1>2, <1>10, <1>11, <1>12, <1>13, <1>14, <1>15, <1>16 DEF Good, IInv

(* A step of the owner or of the clock: only the rows change.               *)
LEMMA StillStep ==
    ASSUME IInv, Books, UNCHANGED <<workers, world>>, checkpoint' = checkpoint,
           session'.holder = session.holder, session'.claims = session.claims,
           session'.status = "running" <=> session.status = "running",
           ledger' = ledger, CarrierAgrees',
           session.status \in Closed => session'.status = session.status /\ carrier' = carrier,
           faults' \in 0 .. MaxFaults, clicks' \in 0 .. MaxClicks
    PROVE  Good
<1>1. TypeOK'
  BY DEF Books, IInv, TypeOK, world
<1>2. Tokens' /\ Knows'
  BY DEF IInv, Tokens, Knows, Busy, At, Holds, Extends
<1>3. Reality' /\ Runs' /\ Aims'
  BY DEF IInv, Reality, Runs, Aims, At, Key, Pushes, world
<1>4. Admitted' /\ ApprovedFirst'
  BY DEF IInv, Admitted, ApprovedFirst, Books, world
<1>5. CallOnce' /\ Extends(checkpoint', checkpoint)
  BY ExtendsItself DEF IInv, CallOnce, TypeOK, world
<1> QED BY <1>1, <1>2, <1>3, <1>4, <1>5 DEF Good, IInv

-----------------------------------------------------------------------------
LEMMA AtHand ==
    ASSUME IInv, NEW w \in Workers
    PROVE  /\ Sane(workers[w]) /\ SessionTypeOK
           /\ workers[w] \in WorkerStates /\ workers[w].work \in Works /\ workers[w].id \in Ids
           /\ remote \subseteq head /\ head \subseteq Ids /\ IsFiniteSet(head)
<1>1. IsFiniteSet(head)
  BY FS_Subset DEF IInv, Reality
<1> QED BY <1>1, EachSane DEF Sane, WorkerStates, IInv, TypeOK, Reality

LEMMA QuietWorld ==
    ASSUME IInv, Quiet
    PROVE  UNCHANGED world /\ faults' \in 0 .. MaxFaults /\ clicks' \in 0 .. MaxClicks
BY DEF Quiet, world, IInv, TypeOK

LEMMA FaultWorld ==
    ASSUME IInv, Fault
    PROVE  UNCHANGED world /\ faults' \in 0 .. MaxFaults /\ clicks' \in 0 .. MaxClicks
BY BoundsAssumption DEF Fault, world, IInv, TypeOK

LEMMA IdleSound ==
    ASSUME NEW r
    PROVE  Sound(r, Idle)
BY IdleSane DEF Sound, Onward, Idle

LEMMA FinishSound ==
    ASSUME NEW r, Sane(r), r.then \in Ends
    PROVE  Sound(r, Go(r, "finish"))
<1> DEFINE n == Go(r, "finish")
<1>1. /\ n \in WorkerStates /\ n.pc = "finish" /\ n.work = r.work /\ n.token = r.token
      /\ n.id = r.id /\ n.target = r.target /\ n.result = r.result /\ n.then = r.then /\ r.work \in Works
  BY DEF Go, Sane, WorkerStates, Pcs
<1> HIDE DEF n
<1>2. Real(n) /\ Admit(n) /\ Aim(n)
  BY <1>1 DEF Sane, Real, Pushes, Admit, Aim
<1>3. Sound(r, n)
  BY <1>1, <1>2, ExtendsItself DEF Sane, Sound, Onward
<1> QED BY <1>3 DEF n

(* A step that leaves the rows alone.                                       *)
LEMMA MemoryStep ==
    ASSUME IInv, NEW w \in Workers, Busy(w), UNCHANGED rows,
           NEW n, Set(w, n), Sound(workers[w], n),
           UNCHANGED world, faults' \in 0 .. MaxFaults, clicks' \in 0 .. MaxClicks
    PROVE  Good
BY AtHand, UnchangedMinor, SoundStep

LEMMA RestoreStep ==
    ASSUME IInv, NEW w \in Workers, Restore(w)
    PROVE  Good
<1> DEFINE r == workers[w]
           x == [checkpoint EXCEPT !.phase = r.work.phase, !.turn = r.work.turn]
           n == [r EXCEPT !.pc = "loop", !.work = x]
<1>1. Sane(r) /\ SessionTypeOK /\ r \in WorkerStates /\ r.work \in Works
  BY AtHand
<1>2. r.pc = "restore" /\ r.id = NoId /\ Busy(w)
  BY <1>1 DEF Restore, At, Sane, Aim, Busy
<1>3. checkpoint \in Works /\ checkpoint.pushed \subseteq remote
  BY DEF IInv, TypeOK, Reality
<1>4. /\ x.turn = r.work.turn /\ x.heard = checkpoint.heard /\ x.done = checkpoint.done
      /\ x.pushed = checkpoint.pushed
  BY <1>1, <1>3, WorkParts DEF Works
<1>5. x \in Works
  BY <1>1, <1>3, WorkParts DEF Works
<1> HIDE DEF x
<1>6. /\ n \in WorkerStates /\ n.pc = "loop" /\ n.work = x /\ n.token = r.token /\ n.id = r.id
      /\ n.target = r.target
  BY <1>1, <1>5 DEF WorkerStates, Pcs
<1>7. Set(w, n) /\ UNCHANGED rows /\ UNCHANGED world
      /\ faults' \in 0 .. MaxFaults /\ clicks' \in 0 .. MaxClicks
  BY QuietWorld DEF Restore, x
<1>8. Minor(r)
  BY <1>1, <1>7, UnchangedMinor
<1> HIDE DEF n
<1>9. Sane(n)
  <2>1. NoId[2] = ""
    BY DEF NoId
  <2> QED BY <1>1, <1>2, <1>3, <1>4, <1>6, <2>1 DEF Sane, Real, Pushes, Admit, Aim
<1>10. workers'[w] = n
  BY <1>7 DEF Set, IInv, TypeOK
<1>11. Sane(workers[w])'
  BY <1>7, <1>8, <1>9, <1>10, StaysSane DEF Minor, world
<1>12. checkpoint' = checkpoint
  BY <1>7 DEF rows
<1>13. Holds(n.token) => Extends(n.work, checkpoint')
  <2>1. Holds(r.token) => Extends(r.work, checkpoint)
    BY <1>2 DEF IInv, Knows
  <2> QED BY <1>4, <1>6, <1>12, <2>1 DEF Extends
<1>14. n.pc # "idle" /\ n.pc # "run"
  BY <1>6
<1> HIDE DEF r
<1> QED BY <1>2, <1>6, <1>7, <1>8, <1>11, <1>13, <1>14, MinorStep DEF r

LEMMA LoopStep ==
    ASSUME IInv, NEW w \in Workers, Loop(w)
    PROVE  Good
<1>1. Sound(workers[w], Guard(workers[w], Dispatch(workers[w])))
  BY AtHand, DispatchSane, GuardSane
<1>2. Busy(w) /\ UNCHANGED rows /\ UNCHANGED world
      /\ faults' \in 0 .. MaxFaults /\ clicks' \in 0 .. MaxClicks
  BY QuietWorld DEF Loop, Busy, At
<1> QED BY <1>1, <1>2, MemoryStep DEF Loop

LEMMA TakeStep ==
    ASSUME IInv, NEW w \in Workers, Take(w)
    PROVE  Good
<1> DEFINE r == [workers[w] EXCEPT !.inbox = @ \cup Unread]
<1>1. Sane(workers[w]) /\ SessionTypeOK /\ workers[w] \in WorkerStates
  BY AtHand
<1>2. Unread \subseteq Nat
  BY <1>1 DEF Unread, SessionTypeOK, SessionRows, Carriers
<1>3. /\ r \in WorkerStates /\ r.pc = workers[w].pc /\ r.work = workers[w].work
      /\ r.token = workers[w].token /\ r.id = workers[w].id /\ r.target = workers[w].target
      /\ r.result = workers[w].result /\ r.then = workers[w].then
  BY <1>1, <1>2 DEF WorkerStates
<1>4. Busy(w) /\ UNCHANGED world /\ faults' \in 0 .. MaxFaults /\ clicks' \in 0 .. MaxClicks
  BY QuietWorld DEF Take, Busy, At
<1>5. IF Holds(r.token)
      THEN /\ TakeInputs
           /\ Set(w, IF r.work.pending # NoCalls THEN Go(r, "call")
                     ELSE IF r.inbox # {} THEN SaveThen(Deliver(r), "model")
                     ELSE Go(r, "model"))
      ELSE Set(w, Idle) /\ UNCHANGED rows
  BY DEF Take
<1> HIDE DEF r
<1>6. Sane(r) /\ Extends(r.work, workers[w].work)
  BY <1>1, <1>3, AtHand, ExtendsItself DEF Sane, Real, Pushes, Admit, Aim
<1>7. \A pc \in {"call", "model"} : Sound(workers[w], Go(r, pc))
  BY <1>1, <1>3, <1>6, GoSane, SoundAfter DEF Pcs
<1>8. Sound(workers[w], SaveThen(Deliver(r), "model"))
  <2> DEFINE d == Deliver(r)
  <2>1. Sane(d) /\ d.token = r.token /\ Extends(d.work, r.work)
    BY <1>6, DeliverSane
  <2> HIDE DEF d
  <2>2. Sound(r, SaveThen(d, "model"))
    BY <1>6, <2>1, SaveSane, SoundAfter
  <2>3. Sound(workers[w], SaveThen(d, "model"))
    BY <1>1, <1>3, <1>6, <2>2, SoundAfter
  <2> QED BY <2>3 DEF d
<1>9. CASE Holds(r.token)
  <2>1. Minor(workers[w])
    BY <1>1, <1>5, <1>9, TakeInputsMinor
  <2>2. \E n : Set(w, n) /\ Sound(workers[w], n)
    BY <1>5, <1>7, <1>8, <1>9
  <2> QED BY <1>4, <2>1, <2>2, SoundStep
<1>10. CASE ~Holds(r.token)
  BY <1>4, <1>5, <1>10, IdleSound, MemoryStep
<1> QED BY <1>9, <1>10

LEMMA TurnStep ==
    ASSUME IInv, NEW w \in Workers, Turn(w)
    PROVE  Good
<1> DEFINE r == workers[w]
<1>1. Sane(r) /\ r \in WorkerStates /\ r.work \in Works
  BY AtHand
<1>2. Busy(w) /\ r.pc = "model" /\ UNCHANGED rows /\ UNCHANGED world
      /\ faults' \in 0 .. MaxFaults /\ clicks' \in 0 .. MaxClicks
  BY QuietWorld DEF Turn, Busy, At
<1>3. ASSUME NEW calls \in Turns
      PROVE  Sound(r, [r EXCEPT !.pc = "call", !.work.turn = @ + 1,
                                !.work.pending = [calls |-> calls, by |-> r.token, at |-> 1]])
  <2> DEFINE p == [calls |-> calls, by |-> r.token, at |-> 1]
             x == [r.work EXCEPT !.turn = r.work.turn + 1, !.pending = p]
             n == [r EXCEPT !.pc = "call", !.work.turn = @ + 1, !.work.pending = p]
  <2>1. p \in [calls : Seq({"write", "ask", "finish"}), by : Nat, at : Nat]
    BY <1>1, TurnsAssumption DEF WorkerStates
  <2>2. n.work = x
    BY <1>1 DEF WorkerStates
  <2> HIDE DEF p
  <2>3. r.work.turn \in Nat /\ r.work.turn + 1 \in Nat /\ r.work.turn + 1 >= r.work.turn
    BY <1>1, WorkParts
  <2>4. x \in Works
    BY <1>1, <2>1, <2>3 DEF Works
  <2>5. /\ x.turn = r.work.turn + 1 /\ x.heard = r.work.heard /\ x.done = r.work.done
        /\ x.pushed = r.work.pushed
    BY <1>1, WorkParts DEF Works
  <2> HIDE DEF x
  <2>6. /\ n \in WorkerStates /\ n.pc = "call" /\ n.token = r.token /\ n.id = r.id
        /\ n.target = r.target /\ n.result = r.result /\ n.then = r.then
    BY <1>1, <2>2, <2>4 DEF WorkerStates, Pcs
  <2> HIDE DEF n
  <2>7. Real(n) /\ Admit(n) /\ Aim(n)
    BY <1>1, <2>2, <2>5, <2>6 DEF Sane, Real, Pushes, Admit, Aim
  <2>8. Extends(n.work, r.work)
    BY <2>2, <2>3, <2>5 DEF Extends
  <2>9. Sound(r, n)
    BY <2>6, <2>7, <2>8 DEF Sane, Sound, Onward
  <2> QED BY <2>9 DEF n, p
<1>4. Sound(r, StopAs(r, "blocked"))
  BY <1>1, StopSane DEF Ends
<1>5. \E n : Set(w, n) /\ Sound(r, n)
  BY <1>3, <1>4 DEF Turn
<1> QED BY <1>2, <1>5, MemoryStep

LEMMA CallStep ==
    ASSUME IInv, NEW w \in Workers, Call(w)
    PROVE  Good
<1> DEFINE r == workers[w]
           p == r.work.pending
<1>1. Sane(r) /\ r \in WorkerStates /\ r.work \in Works
  BY AtHand
<1>2. Busy(w) /\ UNCHANGED rows /\ UNCHANGED world
      /\ faults' \in 0 .. MaxFaults /\ clicks' \in 0 .. MaxClicks
  BY QuietWorld DEF Call, Busy, At
<1>3. Sound(r, EndTurn(r)) /\ Sound(r, NextCall(r)) /\ Sound(r, Finished(r)) /\ Sound(r, StopAs(r, "blocked"))
  BY <1>1, EndTurnSane, NextCallSane, FinishedSane, StopSane DEF Ends
<1>4. Sound(r, NextCall(Deliver(r)))
  <2> DEFINE d == Deliver(r)
  <2>1. Sane(d) /\ d.token = r.token /\ Extends(d.work, r.work)
    BY <1>1, DeliverSane
  <2> HIDE DEF d
  <2>2. Sound(r, NextCall(d))
    BY <1>1, <2>1, NextCallSane, SoundAfter
  <2> QED BY <2>2 DEF d
<1>5. Sound(r, Invoke(r, <<r.work.turn, "write", p.by>>))
  <2>1. r.work.turn \in Nat /\ p.by \in Nat
    BY <1>1, WorkParts
  <2>2. <<r.work.turn, "write", p.by>> \in Ids
    BY <2>1 DEF Ids, Tools
  <2> QED BY <1>1, <2>2, InvokeSane
<1>6. \E n : Set(w, n) /\ Sound(r, n)
  <2>1. CASE Set(w, EndTurn(r))
    BY <1>3, <2>1
  <2>2. CASE Set(w, IF r.inbox # {} THEN NextCall(Deliver(r)) ELSE StopAs(r, "blocked"))
    BY <1>3, <1>4, <2>2
  <2>3. CASE \E s \in {Finished(r), NextCall(r), StopAs(r, "blocked")} : Set(w, s)
    BY <1>3, <2>3
  <2>4. CASE p.calls[p.at] = "write" /\ Set(w, Invoke(r, <<r.work.turn, p.calls[p.at], p.by>>))
    BY <1>5, <2>4
  <2> QED BY <2>1, <2>2, <2>3, <2>4 DEF Call
<1> QED BY <1>2, <1>6, MemoryStep

LEMMA FindStep ==
    ASSUME IInv, NEW w \in Workers, Find(w)
    PROVE  Good
<1>1. Sound(workers[w], Found(workers[w]))
  BY AtHand, FoundSane
<1>2. Busy(w) /\ UNCHANGED rows /\ UNCHANGED world
      /\ faults' \in 0 .. MaxFaults /\ clicks' \in 0 .. MaxClicks
  BY QuietWorld DEF Find, Busy, At
<1> QED BY <1>1, <1>2, MemoryStep DEF Find

(* The step that makes a call admitted, or lets it run.                     *)
LEMMA AdmitStep ==
    ASSUME IInv, NEW w \in Workers, NEW pc \in {"begin", "run"}, Busy(w), ~At(w, "restore"),
           Minor(workers[w]), checkpoint' = checkpoint, Set(w, Go(workers[w], pc)),
           workers[w].id[2] \in Gated => Is(approvals', workers[w].id, "consumed"),
           pc = "run" => Key(workers[w].id) \in DOMAIN ledger' \ DOMAIN ledger,
           UNCHANGED world, faults' \in 0 .. MaxFaults, clicks' \in 0 .. MaxClicks
    PROVE  Good
<1> DEFINE r == workers[w]
           n == Go(r, pc)
<1>1. Sane(r) /\ r \in WorkerStates /\ r.work \in Works
  BY AtHand
<1>2. /\ n \in WorkerStates /\ n.pc = pc /\ n.work = r.work /\ n.token = r.token
      /\ n.id = r.id /\ n.target = r.target /\ n.result = r.result
  BY <1>1 DEF Go, WorkerStates, Pcs
<1>3. Set(w, n)
  OBVIOUS
<1> HIDE DEF n
<1>4. workers'[w] = n
  BY <1>3 DEF Set, IInv, TypeOK
<1>5. Sane(workers[w])'
  <2>1. Real(workers[w])'
    BY <1>1, <1>2, <1>4 DEF Sane, Real, Pushes, world
  <2>2. Admit(workers[w])' /\ Aim(workers[w])'
    BY <1>2, <1>4 DEF Admit, Aim
  <2> QED BY <1>2, <1>4, <2>1, <2>2 DEF Sane
<1>6. Holds(n.token) => Extends(n.work, checkpoint')
  BY <1>2 DEF IInv, Knows
<1>7. n.pc # "idle" /\ (n.pc = "run" => Key(n.id) \in DOMAIN ledger' \ DOMAIN ledger)
  BY <1>2
<1> HIDE DEF r
<1> QED BY <1>2, <1>3, <1>5, <1>6, <1>7, MinorStep DEF r

LEMMA ConsumeStep ==
    ASSUME IInv, NEW w \in Workers, Consume(w)
    PROVE  Good
<1> DEFINE r == workers[w]
<1>1. Busy(w) /\ ~At(w, "restore") /\ UNCHANGED world
      /\ faults' \in 0 .. MaxFaults /\ clicks' \in 0 .. MaxClicks
  BY QuietWorld DEF Consume, Busy, At
<1>2. CASE MayConsume(r.id)
  <2>1. Minor(r) /\ Is(approvals', r.id, "consumed") /\ checkpoint' = checkpoint
    <3>1. ConsumeApproval(r.id) /\ SessionTypeOK /\ r.id \in Ids
      BY <1>2, AtHand DEF Consume
    <3>2. Minor(r) /\ Is(approvals', r.id, "consumed")
      BY <1>2, <3>1, ConsumeMinor
    <3> QED BY <3>1, <3>2 DEF ConsumeApproval
  <2>2. Set(w, Go(r, "begin"))
    BY <1>2 DEF Consume
  <2> QED BY <1>1, <2>1, <2>2, AdmitStep
<1>3. CASE ~MayConsume(r.id)
  <2>1. Sound(r, Settle(r, "error"))
    BY AtHand, SettleSane DEF Outcomes
  <2> QED BY <1>1, <1>3, <2>1, MemoryStep DEF Consume
<1> QED BY <1>2, <1>3

LEMMA KeysTyped ==
    ASSUME NEW id \in Ids
    PROVE  Key(id) \in Keys /\ <<id, FALSE>> \in Keys
<1>1. <<id, TRUE>> \in Keys /\ <<id, FALSE>> \in Keys
  BY DEF Keys
<1>2. CASE id[2] \in Gated
  <2>1. Key(id) = <<id, TRUE>>
    BY <1>2 DEF Key
  <2> QED BY <1>1, <2>1
<1>3. CASE id[2] \notin Gated
  <2>1. Key(id) = <<id, FALSE>>
    <3>1. (id[2] \in Gated) = FALSE
      BY <1>3
    <3> QED BY <3>1 DEF Key
  <2> QED BY <1>1, <2>1
<1> QED BY <1>2, <1>3

LEMMA GateStep ==
    ASSUME IInv, NEW w \in Workers, Gate(w)
    PROVE  Good
<1> DEFINE r == workers[w]
<1>1. Busy(w) /\ UNCHANGED world /\ faults' \in 0 .. MaxFaults /\ clicks' \in 0 .. MaxClicks
  BY QuietWorld DEF Gate, Busy, At
<1>2. Minor(r)
  <2>1. SessionTypeOK /\ <<r.id, FALSE>> \in Keys
    BY AtHand, KeysTyped
  <2>2. CASE Fresh(<<r.id, FALSE>>)
    BY <2>1, <2>2, BeginMinor DEF Gate
  <2>3. CASE ~Fresh(<<r.id, FALSE>>)
    BY <2>1, <2>3, UnchangedMinor DEF Gate
  <2> QED BY <2>2, <2>3
<1>3. Sound(r, Go(r, "request")) /\ Set(w, Go(r, "request"))
  BY AtHand, GoSane DEF Gate, Pcs
<1> QED BY <1>1, <1>2, <1>3, SoundStep

LEMMA RequestStep ==
    ASSUME IInv, NEW w \in Workers, Request(w)
    PROVE  Good
<1> DEFINE r == workers[w]
<1>1. Busy(w) /\ UNCHANGED world /\ faults' \in 0 .. MaxFaults /\ clicks' \in 0 .. MaxClicks
  BY QuietWorld DEF Request, Busy, At
<1>2. Sound(r, StopAs(r, "awaiting_approval")) /\ Sound(r, Idle)
  BY AtHand, StopSane, IdleSound DEF Ends
<1>3. CASE Holds(r.token)
  <2>1. Minor(r)
    BY <1>3, AtHand, RequestMinor DEF Request
  <2> QED BY <1>1, <1>2, <1>3, <2>1, SoundStep DEF Request
<1>4. CASE ~Holds(r.token)
  BY <1>1, <1>2, <1>4, MemoryStep DEF Request
<1> QED BY <1>3, <1>4

LEMMA BeginStep ==
    ASSUME IInv, NEW w \in Workers, Begin(w)
    PROVE  Good
<1> DEFINE r == workers[w]
<1>1. Busy(w) /\ ~At(w, "restore") /\ r.pc = "begin" /\ UNCHANGED world
      /\ faults' \in 0 .. MaxFaults /\ clicks' \in 0 .. MaxClicks
  BY QuietWorld DEF Begin, Busy, At
<1>2. CASE Fresh(Key(r.id))
  <2>1. Minor(r) /\ Key(r.id) \in DOMAIN ledger' \ DOMAIN ledger /\ checkpoint' = checkpoint
    BY <1>2, AtHand, KeysTyped, BeginMinor DEF Begin, BeginExecution, Fresh
  <2>2. Set(w, Go(r, "run"))
    BY <1>2 DEF Begin
  <2>3. r.id[2] \in Gated => Is(approvals', r.id, "consumed")
    <3>1. r.id[2] \in Gated => Is(approvals, r.id, "consumed")
      BY <1>1 DEF IInv, Admitted
    <3> QED BY <2>1, <3>1 DEF Minor, Books, Is
  <2> QED BY <1>1, <2>1, <2>2, <2>3, AdmitStep
<1>3. CASE ~Fresh(Key(r.id))
  <2>1. Sound(r, Settle(r, "replayed")) /\ Sound(r, Settle(r, "error"))
    BY AtHand, SettleSane DEF Outcomes
  <2>2. \E n : Set(w, n) /\ Sound(r, n)
    BY <1>3, <2>1 DEF Begin
  <2> QED BY <1>1, <1>3, <2>2, MemoryStep DEF Begin
<1> QED BY <1>2, <1>3

LEMMA RecordStep ==
    ASSUME IInv, NEW w \in Workers, Record(w)
    PROVE  Good
<1> DEFINE r == workers[w]
<1>1. Busy(w) /\ UNCHANGED world /\ faults' \in 0 .. MaxFaults /\ clicks' \in 0 .. MaxClicks
  BY QuietWorld DEF Record, Busy, At
<1>2. Minor(r)
  BY AtHand, FinishMinor DEF Record
<1>3. Sound(r, Settle(r, r.result)) /\ Set(w, Settle(r, r.result))
  <2>1. CASE r.result \in Outcomes
    BY <2>1, AtHand, SettleSane DEF Record
  <2>2. CASE r.result = ""
    <3>1. Settle(r, r.result) = Settle(r, "refused")
      BY <2>2 DEF Settle, Proven
    <3>2. Sound(r, Settle(r, "refused"))
      BY AtHand, SettleSane DEF Outcomes
    <3> QED BY <3>1, <3>2 DEF Record
  <2>3. r.result \in {"", "done", "refused", "failed"}
    BY AtHand DEF WorkerStates
  <2> QED BY <2>1, <2>2, <2>3 DEF Outcomes
<1> QED BY <1>1, <1>2, <1>3, SoundStep

LEMMA AdvanceStep ==
    ASSUME IInv, NEW w \in Workers, Advance(w)
    PROVE  Good
<1> DEFINE r == workers[w]
<1>1. Busy(w) /\ UNCHANGED rows /\ UNCHANGED world
      /\ faults' \in 0 .. MaxFaults /\ clicks' \in 0 .. MaxClicks
  BY QuietWorld DEF Advance, Busy, At
<1>2. \A phase \in Phases : Sound(r, SaveThen([r EXCEPT !.work.phase = phase], "loop"))
  BY AtHand, PhaseSane
<1>3. Sound(r, StopAs(r, "blocked"))
  BY AtHand, StopSane DEF Ends
<1>4. \E n : Set(w, n) /\ Sound(r, n)
  <2>1. "ci" \in Phases /\ "report" \in Phases
    BY DEF Phases
  <2> QED BY <1>2, <1>3, <2>1 DEF Advance
<1> QED BY <1>1, <1>4, MemoryStep

LEMMA CiStep ==
    ASSUME IInv, NEW w \in Workers, CiEnds(w) \/ CiPending(w)
    PROVE  Good
<1> DEFINE r == workers[w]
<1>1. Busy(w) /\ UNCHANGED rows /\ UNCHANGED world
      /\ faults' \in 0 .. MaxFaults /\ clicks' \in 0 .. MaxClicks
  BY QuietWorld DEF CiEnds, CiPending, Busy, At
<1>2. Sane(r)
  BY AtHand
<1>3. /\ Sound(r, SaveThen([r EXCEPT !.work.phase = "deploy"], "loop"))
      /\ Sound(r, SaveThen([r EXCEPT !.work.phase = "agent"], "loop"))
      /\ Sound(r, StopAs(r, "blocked")) /\ Sound(r, SaveThen(r, "ci"))
  BY <1>2, PhaseSane, StopSane, SaveSane DEF Phases, Ends
<1>4. \E n : Set(w, n) /\ Sound(r, n)
  BY <1>2, <1>3, GuardSane DEF CiEnds, CiPending
<1> QED BY <1>1, <1>4, MemoryStep

LEMMA SaveStep ==
    ASSUME IInv, NEW w \in Workers, Save(w)
    PROVE  Good
<1> DEFINE r == workers[w]
<1>1. Busy(w) /\ UNCHANGED world /\ faults' \in 0 .. MaxFaults /\ clicks' \in 0 .. MaxClicks
  BY QuietWorld DEF Save, Busy, At
<1>2. Sane(r) /\ SessionTypeOK /\ r.then \in {"loop", "model", "advance", "ci", "completed"}
  BY AtHand DEF Save, At, Sane, Aim
<1>3. Sound(r, Go(r, IF r.then = "completed" THEN "finish" ELSE r.then))
  <2>1. CASE r.then = "completed"
    BY <1>2, <2>1, FinishSound DEF Ends
  <2>2. CASE r.then # "completed"
    BY <1>2, <2>2, GoSane DEF Pcs
  <2> QED BY <2>1, <2>2
<1>4. CASE MayWrite(r.token)
  <2>1. Minor(r)
    BY <1>2, <1>4, SaveMinor DEF Save, MayWrite
  <2> QED BY <1>1, <1>3, <1>4, <2>1, SoundStep DEF Save
<1>5. CASE ~MayWrite(r.token)
  BY <1>1, <1>5, IdleSound, MemoryStep DEF Save
<1> QED BY <1>4, <1>5

LEMMA StopStep ==
    ASSUME IInv, NEW w \in Workers, Stop(w)
    PROVE  Good
<1> DEFINE r == workers[w]
<1>1. Busy(w) /\ UNCHANGED world /\ faults' \in 0 .. MaxFaults /\ clicks' \in 0 .. MaxClicks
  BY QuietWorld DEF Stop, Busy, At
<1>2. Sane(r) /\ SessionTypeOK /\ r.then \in Ends
  BY AtHand DEF Stop, At, Sane, Aim
<1>3. Sound(r, Go(r, "finish"))
  BY <1>2, FinishSound
<1>4. CASE MayWrite(r.token) /\ ~r.lost
  <2>1. Minor(r)
    BY <1>2, <1>4, SaveMinor DEF Stop, MayWrite
  <2> QED BY <1>1, <1>3, <1>4, <2>1, SoundStep DEF Stop
<1>5. CASE ~(MayWrite(r.token) /\ ~r.lost)
  BY <1>1, <1>5, IdleSound, MemoryStep DEF Stop
<1> QED BY <1>4, <1>5

LEMMA FinishStep ==
    ASSUME IInv, NEW w \in Workers, Finish(w)
    PROVE  Good
<1>1. Busy(w) /\ At(w, "finish") /\ UNCHANGED world
      /\ faults' \in 0 .. MaxFaults /\ clicks' \in 0 .. MaxClicks
  BY QuietWorld DEF Finish, Busy, At
<1>2. Set(w, Idle) /\ Sound(workers[w], Idle)
  BY IdleSound DEF Finish
<1>3. CASE Holds(workers[w].token)
  BY <1>1, <1>2, <1>3, EndStep DEF Finish
<1>4. CASE ~Holds(workers[w].token)
  BY <1>1, <1>2, <1>4, MemoryStep DEF Finish
<1> QED BY <1>3, <1>4

LEMMA RenewStep ==
    ASSUME IInv, NEW w \in Workers, Renew(w)
    PROVE  Good
<1> DEFINE r == workers[w]
<1>1. Busy(w) /\ UNCHANGED world /\ faults' \in 0 .. MaxFaults /\ clicks' \in 0 .. MaxClicks
  BY QuietWorld DEF Renew, Busy, At
<1>2. Sane(r) /\ SessionTypeOK /\ r \in WorkerStates /\ session.cancel \in BOOLEAN
  BY AtHand DEF SessionTypeOK, SessionRows, Carriers
<1>3. Minor(r) /\ checkpoint' = checkpoint
  <2>1. Minor(r)
    BY <1>2, RenewMinor, UnchangedMinor DEF Renew
  <2> QED BY <2>1 DEF Renew, RenewLease, rows
<1>4. PICK told \in BOOLEAN, lost \in BOOLEAN : Set(w, [r EXCEPT !.told = told, !.lost = lost])
  <2>1. CASE MayWrite(r.token)
    <3>1. (r.told \/ session.cancel) \in BOOLEAN
      BY <1>2 DEF WorkerStates
    <3>2. r = [r EXCEPT !.lost = r.lost] /\ r.lost \in BOOLEAN
      BY <1>2 DEF WorkerStates
    <3>3. [r EXCEPT !.told = r.told \/ session.cancel]
              = [r EXCEPT !.told = r.told \/ session.cancel, !.lost = r.lost]
      BY <1>2, <3>2 DEF WorkerStates
    <3>4. Set(w, [r EXCEPT !.told = r.told \/ session.cancel])
      BY <2>1 DEF Renew
    <3> QED BY <3>1, <3>2, <3>3, <3>4
  <2>2. CASE ~MayWrite(r.token)
    <3>1. [r EXCEPT !.lost = TRUE] = [r EXCEPT !.told = r.told, !.lost = TRUE] /\ r.told \in BOOLEAN
      BY <1>2 DEF WorkerStates
    <3> QED BY <2>2, <3>1 DEF Renew
  <2> QED BY <2>1, <2>2
<1> DEFINE n == [r EXCEPT !.told = told, !.lost = lost]
<1>5. /\ n \in WorkerStates /\ n.pc = r.pc /\ n.work = r.work /\ n.token = r.token /\ n.id = r.id
      /\ n.target = r.target /\ n.result = r.result /\ n.then = r.then
  BY <1>2 DEF WorkerStates
<1>6. Set(w, n)
  BY <1>4
<1> HIDE DEF n
<1>7. Sane(n)
  BY <1>2, <1>5 DEF Sane, Real, Pushes, Admit, Aim
<1>8. workers'[w] = n
  BY <1>6 DEF Set, IInv, TypeOK
<1>9. Sane(workers[w])'
  BY <1>1, <1>3, <1>7, <1>8, StaysSane DEF Minor, world
<1>10. Holds(n.token) => Extends(n.work, checkpoint')
  BY <1>1, <1>3, <1>5 DEF IInv, Knows
<1>11. n.pc # "idle" /\ (n.pc = "run" => At(w, "run") /\ n.id = r.id)
  BY <1>1, <1>5 DEF Busy, At
<1> HIDE DEF r
<1> QED BY <1>1, <1>3, <1>5, <1>6, <1>9, <1>10, <1>11, MinorStep DEF r

-----------------------------------------------------------------------------
LEMMA CrashStep ==
    ASSUME IInv, NEW w \in Workers, Crash(w)
    PROVE  Good
<1>1. Busy(w) /\ UNCHANGED world /\ faults' \in 0 .. MaxFaults /\ clicks' \in 0 .. MaxClicks
  BY FaultWorld DEF Crash, Busy
<1> QED BY <1>1, IdleSound, MemoryStep DEF Crash

LEMMA StumbleStep ==
    ASSUME IInv, NEW w \in Workers, Stumble(w)
    PROVE  Good
<1> DEFINE r == workers[w]
<1>1. Busy(w) /\ UNCHANGED world /\ faults' \in 0 .. MaxFaults /\ clicks' \in 0 .. MaxClicks
  BY FaultWorld DEF Stumble, Busy, At
<1>2. SessionTypeOK /\ r.id \in Ids /\ Sound(r, StopAs(r, "blocked"))
  BY AtHand, StopSane DEF Ends
<1>3. Minor(r)
  <2>1. CASE UNCHANGED rows
    BY <1>2, <2>1, UnchangedMinor
  <2>2. CASE TakeInputs
    BY <1>2, <2>2, TakeInputsMinor
  <2>3. CASE RequestApproval(r.id)
    BY <1>2, <2>3, RequestMinor
  <2>4. CASE MayWrite(r.token) /\ SaveCheckpoint(r.work)
    BY <1>2, <2>4, SaveMinor DEF MayWrite
  <2> QED BY <2>1, <2>2, <2>3, <2>4 DEF Stumble
<1> QED BY <1>1, <1>2, <1>3, SoundStep DEF Stumble

LEMMA StumbleAtEndStep ==
    ASSUME IInv, NEW w \in Workers, StumbleAtEnd(w)
    PROVE  Good
<1> DEFINE r == workers[w]
<1>1. Busy(w) /\ UNCHANGED world /\ faults' \in 0 .. MaxFaults /\ clicks' \in 0 .. MaxClicks
  BY FaultWorld DEF StumbleAtEnd, Busy, At
<1>2. Sane(r)
  BY AtHand
<1>3. CASE At(w, "stop") /\ Set(w, Go(r, "finish")) /\ UNCHANGED rows
  <2>1. Sound(r, Go(r, "finish"))
    BY <1>2, <1>3, FinishSound DEF At, Sane, Aim
  <2> QED BY <1>1, <1>3, <2>1, MemoryStep
<1>4. CASE /\ At(w, "finish")
           /\ Set(w, IF r.then = "completed" THEN StopAs(r, "blocked") ELSE Idle)
           /\ UNCHANGED rows \/ (Holds(r.token) /\ FinishSession(r.then))
  <2>1. Sound(r, StopAs(r, "blocked")) /\ Sound(r, Idle)
    BY <1>2, StopSane, IdleSound DEF Ends
  <2>2. \E n : Set(w, n) /\ Sound(r, n)
    BY <1>4, <2>1
  <2>3. CASE UNCHANGED rows
    BY <1>1, <2>2, <2>3, MemoryStep
  <2>4. CASE Holds(r.token) /\ FinishSession(r.then)
    BY <1>1, <1>4, <2>2, <2>4, EndStep
  <2> QED BY <1>4, <2>3, <2>4
<1> QED BY <1>3, <1>4 DEF StumbleAtEnd

LEMMA CallFailsStep ==
    ASSUME IInv, NEW w \in Workers, CallFails(w)
    PROVE  Good
<1> DEFINE r == workers[w]
<1>1. Busy(w) /\ UNCHANGED world /\ faults' \in 0 .. MaxFaults /\ clicks' \in 0 .. MaxClicks
  BY FaultWorld DEF CallFails, Busy, At
<1>2. /\ SessionTypeOK /\ r.id \in Ids /\ Key(r.id) \in Keys /\ <<r.id, FALSE>> \in Keys
      /\ Sound(r, Settle(r, "error"))
  BY AtHand, KeysTyped, SettleSane DEF Outcomes
<1>3. Minor(r)
  <2>1. CASE UNCHANGED rows
    BY <1>2, <2>1, UnchangedMinor
  <2>2. CASE MayConsume(r.id) /\ ConsumeApproval(r.id)
    BY <1>2, <2>2, ConsumeMinor
  <2>3. CASE BeginExecution(<<r.id, FALSE>>, "approval_required")
    BY <1>2, <2>3, BeginMinor
  <2>4. CASE BeginExecution(Key(r.id), "running")
    BY <1>2, <2>4, BeginMinor
  <2>5. CASE \E st \in {"succeeded", "failed"} : FinishExecution(Key(r.id), st)
    BY <1>2, <2>5, FinishMinor
  <2> QED BY <2>1, <2>2, <2>3, <2>4, <2>5 DEF CallFails
<1> QED BY <1>1, <1>2, <1>3, SoundStep DEF CallFails

LEMMA LeaseStep ==
    ASSUME IInv, LeaseExpires \/ LeaseOverdue
    PROVE  Good
<1>1. UNCHANGED world /\ faults' \in 0 .. MaxFaults /\ clicks' \in 0 .. MaxClicks
  BY QuietWorld, FaultWorld DEF LeaseExpires, LeaseOverdue
<1>2. Expire
  BY DEF LeaseExpires, LeaseOverdue
<1>3. /\ session'.status = session.status /\ session'.holder = session.holder
      /\ session'.claims = session.claims
      /\ session' \in SessionRows
  BY <1>2 DEF Expire, IInv, TypeOK, SessionTypeOK, SessionRows, Carriers
<1>4. Books
  BY <1>2, <1>3 DEF Expire, Books, Is, IInv, TypeOK, SessionTypeOK, SessionRows, Carriers
<1>5. CarrierAgrees' /\ carrier' = carrier /\ checkpoint' = checkpoint /\ ledger' = ledger
      /\ UNCHANGED workers
  BY <1>2, <1>3 DEF Expire, IInv, CarrierAgrees, CarrierOf
<1> QED BY <1>1, <1>3, <1>4, <1>5, StillStep

LEMMA ClickWorld ==
    ASSUME IInv, Click
    PROVE  /\ UNCHANGED <<workers, world>>
           /\ faults' \in 0 .. MaxFaults /\ clicks' \in 0 .. MaxClicks
BY BoundsAssumption DEF Click, IInv, TypeOK

LEMMA DecideStep ==
    ASSUME IInv, NEW id \in DOMAIN approvals, NEW decision \in {"approved", "rejected"},
           Decide(id, decision)
    PROVE  Good
<1> DEFINE requeues == LastPending(id) /\ session.status = "awaiting_approval"
<1>1. /\ SessionTypeOK
      /\ approvals[id] = "pending" /\ approvals' = [approvals EXCEPT ![id] = decision]
      /\ session' = IF requeues THEN [session EXCEPT !.status = "queued"] ELSE session
      /\ carrier' = IF LastPending(id) /\ carrier.job = "waiting_approval"
                    THEN [carrier EXCEPT !.job = "running"] ELSE carrier
      /\ UNCHANGED <<checkpoint, inputs, ledger>>
  BY DEF Decide, DecideApproval, Is, IInv, TypeOK
<1>2. UNCHANGED <<workers, world>> /\ faults' \in 0 .. MaxFaults /\ clicks' \in 0 .. MaxClicks
  BY ClickWorld DEF Decide
<1>3. CarrierAgrees
  BY DEF IInv
<1>4. /\ session'.holder = session.holder /\ session'.claims = session.claims
      /\ session' \in SessionRows
      /\ session'.status = IF requeues THEN "queued" ELSE session.status
  BY <1>1 DEF SessionTypeOK, SessionRows, Carriers, Statuses
<1>5. carrier.job = "waiting_approval" <=> session.status = "awaiting_approval"
  BY <1>1, <1>3 DEF CarrierAgrees, CarrierOf, SessionTypeOK, SessionRows, Carriers, Statuses, Closed
<1>6. carrier' = IF requeues THEN [carrier EXCEPT !.job = "running"] ELSE carrier
  BY <1>1, <1>5
<1>7. carrier' \in Carriers
  BY <1>1, <1>6 DEF SessionTypeOK, SessionRows, Carriers
<1>8. /\ DOMAIN approvals' = DOMAIN approvals /\ approvals'[id] = decision
      /\ \A i \in DOMAIN approvals \ {id} : approvals'[i] = approvals[i]
  BY <1>1
<1>9. Books
  BY <1>1, <1>4, <1>7, <1>8 DEF Books, Is, SessionTypeOK, SessionRows, Carriers
<1>10. CarrierAgrees'
  <2>1. CASE requeues
    BY <1>3, <1>4, <1>6, <2>1 DEF CarrierAgrees, CarrierOf
  <2>2. CASE ~requeues
    BY <1>3, <1>4, <1>6, <2>2 DEF CarrierAgrees, CarrierOf
  <2> QED BY <2>1, <2>2
<1>11. /\ session'.status = "running" <=> session.status = "running"
       /\ session.status \in Closed => session'.status = session.status /\ carrier' = carrier
  BY <1>4, <1>6 DEF Closed
<1> QED BY <1>1, <1>2, <1>4, <1>9, <1>10, <1>11, StillStep

LEMMA CancelStep ==
    ASSUME IInv, Cancel
    PROVE  Good
<1>1. UNCHANGED <<workers, world>> /\ faults' \in 0 .. MaxFaults /\ clicks' \in 0 .. MaxClicks
  BY ClickWorld DEF Cancel
<1>2. CarrierAgrees /\ SessionTypeOK
  BY DEF IInv, TypeOK
<1>3. /\ session' = IF session.status \in Closed THEN session
                     ELSE [session EXCEPT !.cancel = TRUE,
                                          !.status = IF @ \in Waiting THEN "cancelled" ELSE @]
      /\ carrier' = IF session'.status = "cancelled" THEN CancelledCarrier ELSE carrier
      /\ UNCHANGED <<checkpoint, approvals, inputs, ledger>>
  BY DEF Cancel, RequestCancel
<1>4. /\ session'.holder = session.holder /\ session'.claims = session.claims
      /\ session' \in SessionRows
      /\ session'.status = IF session.status \in Waiting THEN "cancelled" ELSE session.status
  BY <1>2, <1>3 DEF SessionTypeOK, SessionRows, Carriers, Statuses, Closed, Waiting
<1>5. session.status = "cancelled" => carrier = CancelledCarrier
  BY <1>2 DEF CarrierAgrees, CarrierOf, CancelledCarrier
<1>6. carrier' = IF session.status \in Waiting THEN CancelledCarrier ELSE carrier
  BY <1>3, <1>4, <1>5
<1>7. carrier' \in Carriers
  BY <1>2, <1>6 DEF SessionTypeOK, SessionRows, Carriers, CancelledCarrier
<1>8. Books
  BY <1>2, <1>3, <1>4, <1>7 DEF Books, Is, SessionTypeOK, SessionRows, Carriers
<1>9. CarrierAgrees'
  <2>1. CASE session.status \in Waiting
    BY <1>4, <1>6, <2>1 DEF CarrierAgrees, CarrierOf, CancelledCarrier
  <2>2. CASE session.status \notin Waiting
    BY <1>2, <1>4, <1>6, <2>2 DEF CarrierAgrees, CarrierOf
  <2> QED BY <2>1, <2>2
<1>10. /\ session'.status = "running" <=> session.status = "running"
       /\ session.status \in Closed => session'.status = session.status /\ carrier' = carrier
  BY <1>4, <1>6 DEF Closed, Waiting
<1> QED BY <1>1, <1>3, <1>4, <1>8, <1>9, <1>10, StillStep

(* Resume, and a reply to a blocked session, put it back in the queue.      *)
LEMMA Requeued ==
    ASSUME SessionTypeOK, CarrierAgrees, session.status = "blocked",
           session' = [session EXCEPT !.status = "queued"],
           carrier' = [carrier EXCEPT !.job = "running"]
    PROVE  /\ session'.holder = session.holder /\ session'.claims = session.claims
           /\ session' \in SessionRows
           /\ carrier' \in Carriers
           /\ session'.status = "queued" /\ CarrierAgrees'
<1>1. /\ session'.holder = session.holder /\ session'.claims = session.claims
      /\ session' \in SessionRows
      /\ session'.status = "queued"
  BY DEF SessionTypeOK, SessionRows, Carriers, Statuses
<1>2. carrier = [job |-> "blocked", task |-> "assigned", run |-> "running"]
  BY DEF CarrierAgrees, CarrierOf
<1>3. carrier' = [job |-> "running", task |-> "assigned", run |-> "running"]
  BY <1>2
<1>4. CarrierAgrees'
  BY <1>1, <1>3 DEF CarrierAgrees, CarrierOf
<1>5. carrier' \in Carriers
  BY DEF SessionTypeOK, SessionRows, Carriers
<1> QED BY <1>1, <1>4, <1>5

LEMMA ResumeStep ==
    ASSUME IInv, Resume
    PROVE  Good
<1>1. UNCHANGED <<workers, world>> /\ faults' \in 0 .. MaxFaults /\ clicks' \in 0 .. MaxClicks
  BY ClickWorld DEF Resume
<1>2. CarrierAgrees /\ SessionTypeOK
  BY DEF IInv, TypeOK
<1>3. /\ session.status = "blocked" /\ session' = [session EXCEPT !.status = "queued"]
      /\ carrier' = [carrier EXCEPT !.job = "running"]
      /\ UNCHANGED <<checkpoint, approvals, inputs, ledger>>
  BY DEF Resume, ResumeSession
<1>4. /\ session'.holder = session.holder /\ session'.claims = session.claims
      /\ session' \in SessionRows
      /\ carrier' \in Carriers
      /\ session'.status = "queued" /\ CarrierAgrees'
  BY <1>2, <1>3, Requeued
<1>5. Books
  BY <1>2, <1>3, <1>4 DEF Books, Is, SessionTypeOK, SessionRows, Carriers
<1>6. session.status \notin Closed /\ session.status # "running" /\ session'.status # "running"
  BY <1>3, <1>4 DEF Closed
<1> QED BY <1>1, <1>3, <1>4, <1>5, <1>6, StillStep

LEMMA ReplyStep ==
    ASSUME IInv, Reply
    PROVE  Good
<1>1. /\ UNCHANGED <<workers, world>> /\ faults' \in 0 .. MaxFaults /\ clicks' \in 0 .. MaxClicks
      /\ clicks + 1 \in Nat
  BY ClickWorld, BoundsAssumption DEF Reply, IInv, TypeOK
<1>2. CarrierAgrees /\ SessionTypeOK
  BY DEF IInv, TypeOK
<1>3. /\ session.status \notin Closed /\ inputs' = Put(inputs, clicks + 1, "unread")
      /\ UNCHANGED <<checkpoint, approvals, ledger>>
  BY DEF Reply, ReplySession
<1>4. DOMAIN inputs' \subseteq Nat /\ \A n \in DOMAIN inputs' : inputs'[n] \in {"unread", "taken"}
  BY <1>1, <1>2, <1>3 DEF Put, SessionTypeOK, SessionRows, Carriers
<1>5. CASE session.status = "blocked"
  <2>1. /\ session' = [session EXCEPT !.status = "queued"]
        /\ carrier' = [carrier EXCEPT !.job = "running"]
    BY <1>5 DEF Reply, ReplySession
  <2>2. /\ session'.holder = session.holder /\ session'.claims = session.claims
        /\ session' \in SessionRows
        /\ carrier' \in Carriers
        /\ session'.status = "queued" /\ CarrierAgrees'
    BY <1>2, <1>5, <2>1, Requeued
  <2>3. Books
    BY <1>2, <1>3, <1>4, <2>2 DEF Books, Is, SessionTypeOK, SessionRows, Carriers
  <2>4. session.status # "running" /\ session'.status # "running"
    BY <1>5, <2>2
  <2> QED BY <1>1, <1>3, <2>2, <2>3, <2>4, StillStep
<1>6. CASE session.status # "blocked"
  <2>1. UNCHANGED <<session, carrier>>
    BY <1>6 DEF Reply, ReplySession
  <2>2. Books
    BY <1>2, <1>3, <1>4, <2>1 DEF Books, Is, SessionTypeOK, SessionRows, Carriers
  <2>3. CarrierAgrees'
    BY <1>2, <2>1 DEF CarrierAgrees, CarrierOf
  <2> QED BY <1>1, <1>3, <2>1, <2>2, <2>3, StillStep
<1> QED BY <1>5, <1>6

-----------------------------------------------------------------------------
LEMMA InitIInv == Init => IInv
<1> SUFFICES ASSUME Init PROVE IInv
  OBVIOUS
<1>1. session = [status |-> "queued", cancel |-> FALSE, holder |-> 0, claims |-> 0, late |-> FALSE]
      /\ carrier = [job |-> "running", task |-> "assigned", run |-> "running"]
      /\ checkpoint = NoWork /\ approvals = << >> /\ inputs = << >> /\ ledger = << >>
      /\ workers = [w \in Workers |-> Idle] /\ tree = {} /\ head = {} /\ remote = {} /\ merged = {}
      /\ executed = {} /\ repeated = {} /\ faults = 0 /\ clicks = 0
  BY DEF Init, SessionInit
<1>2. SessionTypeOK
  BY <1>1 DEF SessionTypeOK, SessionRows, Carriers, Statuses
<1>3. TypeOK
  BY <1>1, <1>2, NoWorkTyped, IdleSane, BoundsAssumption DEF TypeOK, Sane
<1>4. \A w \in Workers : workers[w] = Idle /\ ~Busy(w) /\ ~At(w, "run")
  BY <1>1, IdleIs DEF Busy, At
<1>5. Tokens /\ Knows
  BY <1>1, <1>4 DEF Tokens, Knows
<1>6. Reality
  <2>1. \A w \in Workers : Real(workers[w])
    BY <1>4, IdleSane DEF Sane
  <2>2. IsFiniteSet(tree)
    BY <1>1, FS_EmptySet
  <2> QED BY <1>1, <2>1, <2>2 DEF Reality, Real, NoWork
<1>7. Admitted /\ Aims
  BY <1>4, IdleSane DEF Sane, Admit, Aim, Admitted, Aims, At
<1>8. Runs /\ CallOnce /\ ApprovedFirst
  BY <1>1, <1>4 DEF Runs, CallOnce, ApprovedFirst
<1>9. CarrierAgrees
  BY <1>1 DEF CarrierAgrees, CarrierOf
<1> QED BY <1>3, <1>5, <1>6, <1>7, <1>8, <1>9 DEF IInv

LEMMA NextGood == IInv /\ [Next]_vars => Good
<1> SUFFICES ASSUME IInv, [Next]_vars PROVE Good
  OBVIOUS
<1>1. CASE UNCHANGED vars
  <2>1. Books
    BY <1>1 DEF Books, Is, IInv, TypeOK, SessionTypeOK, SessionRows, Carriers, vars
  <2>2. CarrierAgrees'
    BY <1>1 DEF CarrierAgrees, CarrierOf, IInv, vars
  <2>3. faults' \in 0 .. MaxFaults /\ clicks' \in 0 .. MaxClicks
    BY <1>1 DEF IInv, TypeOK, vars
  <2> QED BY <1>1, <2>1, <2>2, <2>3, StillStep DEF vars, world
<1>2. ASSUME NEW w \in Workers, Step(w) PROVE Good
  BY <1>2, ClaimStep, RestoreStep, LoopStep, TakeStep, TurnStep, CallStep, FindStep, ConsumeStep,
     GateStep, RequestStep, BeginStep, RunStep, RecordStep, AdvanceStep, CiStep, SaveStep, StopStep,
     FinishStep DEF Step
<1>3. ASSUME NEW w \in Workers, Renew(w) \/ Failure(w) PROVE Good
  BY <1>3, RenewStep, CrashStep, StumbleStep, StumbleAtEndStep, CallFailsStep DEF Failure
<1>4. CASE LeaseExpires \/ LeaseOverdue
  BY <1>4, LeaseStep
<1>5. CASE Owner
  BY <1>5, DecideStep, CancelStep, ResumeStep, ReplyStep DEF Owner
<1> QED BY <1>1, <1>2, <1>3, <1>4, <1>5 DEF Next

(* The invariant is inductive: claims draw different tokens, the worker     *)
(* that may write knows all that was written, what is believed pushed is on *)
(* GitHub, and a call that runs was entered in the ledger by its one caller.*)
THEOREM AgentInvariant == Spec => []IInv
<1>1. Init => IInv
  BY InitIInv
<1>2. IInv /\ [Next]_vars => IInv'
  BY NextGood DEF Good
<1> QED BY <1>1, <1>2, PTL DEF Spec

(* The rows and the workers' memories always have the shape the code gives  *)
(* them.                                                                    *)
THEOREM AgentTypeCorrect == Spec => []TypeOK
<1>1. IInv => TypeOK
  BY DEF IInv
<1> QED BY <1>1, AgentInvariant, PTL

(* However many workers die, lose their lease or race for the session, no   *)
(* call reaches its tool twice: begin_tool_execution admits one caller.     *)
THEOREM ToolRunsOnce == Spec => []CallOnce
<1>1. IInv => CallOnce
  BY DEF IInv
<1> QED BY <1>1, AgentInvariant, PTL

(* A gated tool runs only after consume_agent_approval took the owner's     *)
(* approval of that very call.                                              *)
THEOREM GatedIsApproved == Spec => []ApprovedFirst
<1>1. IInv => ApprovedFirst
  BY DEF IInv
<1> QED BY <1>1, AgentInvariant, PTL

(* finish, cancel, decide, resume and reply each leave the session, its     *)
(* job, its task and its run telling the same story.                        *)
THEOREM CarrierFollows == Spec => []CarrierAgrees
<1>1. IInv => CarrierAgrees
  BY DEF IInv
<1> QED BY <1>1, AgentInvariant, PTL

(* What a checkpoint calls pushed is on GitHub, although a push may be      *)
(* replayed from the ledger, fail after its effect, or be made again.       *)
THEOREM PushedIsThere == Spec => []PublishedIsReal
<1>1. IInv => PublishedIsReal
  BY DEF IInv, Reality, PublishedIsReal
<1> QED BY <1>1, AgentInvariant, PTL

(* Nothing reopens a session that completed, failed or was cancelled.       *)
THEOREM EndIsFinal == Spec => ClosedIsFinal
<1>1. IInv /\ [Next]_vars =>
        [session.status \in Closed => session'.status = session.status /\ carrier' = carrier]_vars
  BY NextGood DEF Good
<1> QED BY <1>1, AgentInvariant, PTL DEF Spec, ClosedIsFinal

(* A worker whose lease passed on cannot set the session back: what one     *)
(* checkpoint recorded, every later one has.                                *)
THEOREM NothingForgotten == Spec => NeverForgets
<1>1. IInv /\ [Next]_vars =>
        [/\ checkpoint'.turn >= checkpoint.turn
         /\ checkpoint.heard \subseteq checkpoint'.heard
         /\ checkpoint.done \subseteq checkpoint'.done
         /\ checkpoint.pushed \subseteq checkpoint'.pushed]_vars
  BY NextGood DEF Good, Extends
<1> QED BY <1>1, AgentInvariant, PTL DEF Spec, NeverForgets
=============================================================================

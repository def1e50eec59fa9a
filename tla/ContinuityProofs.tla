-------------------------- MODULE ContinuityProofs --------------------------
(***************************************************************************)
(* Proofs about the coding continuity for any number of sessions, workers  *)
(* and overlapping handlers: the branch has one writer, and whoever takes  *)
(* it over finds what the session before it left behind.                   *)
(***************************************************************************)
EXTENDS ContinuitySupervisor, TLAPS

(* Every step of the Supervisor does one of five things to the branch.      *)
Still ==
    /\ proc' = proc
    /\ \A s \in Sessions : Holds(s)' = Holds(s) /\ (lease'[s] = "none") = (lease[s] = "none")

Took(s) ==
    /\ proc' = proc /\ ~Started(s) /\ lease[s] = "none"
    /\ \A t \in Sessions : ~Holds(t)
    /\ lease' = [lease EXCEPT ![s] = "ACTIVE"]

Began(s) ==
    /\ ~Started(s) /\ Holds(s)
    /\ proc' = [proc EXCEPT ![s] = "working"]
    /\ lease' = lease

Finished(s) ==
    /\ Working(s)
    /\ \E end \in Over : proc' = [proc EXCEPT ![s] = end]
    /\ lease' = lease

LetGoOf(s) ==
    /\ Holds(s) /\ ~Working(s)
    /\ proc' = proc
    /\ \E end \in {"RELEASED", "RECLAIMED"} : lease' = [lease EXCEPT ![s] = end]

(* What a step of handler f may do, to the branch and to everything the     *)
(* invariant speaks of.                                                     *)
Effect(f) ==
    \/ Still
    \/ \E s \in Sessions : Finished(s)
    \/ \E s \in Sessions : LetGoOf(s) /\ Ended(s)
    \/ f \in Flows /\ Owns(f) /\ (Took(To(f)) \/ Began(To(f)) \/ LetGoOf(To(f)))

Books ==
    /\ \A s \in Sessions : status'[s] = "absent" => status[s] = "absent"
    /\ \A s \in proven' : s \in proven \/ proc'[s] \in Over
    /\ \A s \in running' \cup beating' : s \in running \cup beating \/ proc'[s] # "none"
    /\ \A s \in expired' : lease'[s] = "ACTIVE"

Mine(f) ==
    /\ OwnSafe(f)' /\ StopSafe(f)'
    /\ Owns(f)' => \/ Owns(f) /\ To(f)' = To(f)
                   \/ To(f)' \in Sessions /\ Fresh(To(f)')

Moved(f) ==
    /\ TypeOK'
    /\ \A g \in Flows : g # f => flow'[g] = flow[g]
    /\ Effect(f)
    /\ Books
    /\ f \in Flows => Mine(f)

-----------------------------------------------------------------------------
(* A step of one handler of this shape keeps the invariant: it disturbs no  *)
(* session another handler owns, because sessions that ended stay ended and *)
(* an owned session is touched by its owner only.                           *)
LEMMA MovedKeepsInvariant ==
    ASSUME IInv, NEW f, Moved(f)
    PROVE  IInv'
<1> USE DEF Moved
<1>1. \A s \in Sessions : Ended(s) => Ended(s)'
  BY DEF Effect, Still, Took, Began, Finished, LetGoOf, Ended, Started, Working, Over, IInv, TypeOK
<1>2. \A s \in Sessions : Started(s) => Started(s)'
  BY DEF Effect, Still, Took, Began, Finished, LetGoOf, Ended, Started, Working, Over, IInv, TypeOK
<1>3. OneHolder'
  BY DEF Effect, Still, Took, Began, Finished, LetGoOf, IInv, OneHolder, Holds, OwnSafe, TypeOK, LeaseTypeOK
<1>4. WriterHoldsBranch'
  BY DEF Effect, Still, Took, Began, Finished, LetGoOf, IInv, WriterHoldsBranch, OneHolder, Working,
         Started, Holds, OwnSafe, TypeOK, LeaseTypeOK, Over, Ended
<1>5. Rooted'
  BY <1>1, <1>2 DEF Effect, Books, Still, Took, Began, Finished, LetGoOf, IInv, Rooted, Working, Started, Ended, Over,
         Holds, OwnSafe, TypeOK, LeaseTypeOK
<1>6. Owned'
  <2>1. ASSUME NEW g \in Flows, NEW h \in Flows, Owns(g)', Owns(h)', g # h
        PROVE  To(g)' # To(h)'
    <3>1. CASE g # f /\ h # f
      BY <2>1, <3>1 DEF IInv, Owned, Owns, To
    <3>2. CASE g = f
      BY <2>1, <3>2 DEF Mine, IInv, Owned, OwnSafe, Owns, To, Fresh
    <3>3. CASE h = f
      BY <2>1, <3>3 DEF Mine, IInv, Owned, OwnSafe, Owns, To, Fresh
    <3> QED
      BY <3>1, <3>2, <3>3
  <2> QED
    BY <2>1 DEF Owned
<1>7. ASSUME NEW g \in Flows, g # f
      PROVE  OwnSafe(g)'
  <2> DEFINE t == flow[g].to
  <2>1. flow'[g] = flow[g]
    BY <1>7
  <2>2. Owns(g) => t \in Sessions /\ status[t] # "absent"
    BY DEF IInv, OwnSafe, To
  <2>3. f \in Flows /\ Owns(g) /\ Owns(f) => To(f) # t
    BY <1>7 DEF IInv, Owned, To
  <2>4. Owns(g) /\ ~Started(t) => proc'[t] = "none"
    BY <2>2, <2>3 DEF Effect, Still, Took, Began, Finished, LetGoOf, Started, Working, IInv, TypeOK
  <2>5. Owns(g) /\ ~Started(t) /\ lease[t] = "none" => lease'[t] = "none"
    BY <2>2, <2>3 DEF Effect, Still, Took, Began, Finished, LetGoOf, Started, Working, Ended, Over, IInv,
                      TypeOK, LeaseTypeOK, Holds
  <2>6. Owns(g) /\ ~Started(t) /\ Holds(t) => lease'[t] \in {"ACTIVE", "FROZEN"}
    BY <2>2, <2>3 DEF Effect, Still, Took, Began, Finished, LetGoOf, Started, Working, Ended, Over, IInv,
                      TypeOK, LeaseTypeOK, Holds
  <2>7. Owns(g) /\ Started(t) => proc'[t] # "none"
    BY <1>2, <2>2 DEF Started
  <2>8. Owns(g) /\ ~Working(t) => proc'[t] # "working"
    BY <2>2, <2>3 DEF Effect, Still, Took, Began, Finished, LetGoOf, Working, Over, IInv, TypeOK
  <2> QED
    BY <2>1, <2>2, <2>4, <2>5, <2>6, <2>7, <2>8
    DEF IInv, OwnSafe, Books, To, Owns, Owning, Started, Working, Holds
<1>8. ASSUME NEW g \in Flows, g # f
      PROVE  StopSafe(g)'
  <2>1. flow'[g] = flow[g]
    BY <1>8
  <2>2. flow[g].todo \subseteq Sessions
    BY DEF IInv, TypeOK, Handlers
  <2>3. \A s \in Sessions : proc[s] \in Over => proc'[s] \in Over
    BY <1>1 DEF Ended
  <2>4. \A s \in Sessions : proc[s] # "none" => proc'[s] # "none"
    BY <1>2 DEF Started
  <2>5. flow[g].ok /\ flow[g].pc \in {"halt", "fail", "failing"} => flow[g].from \in Sessions
    BY DEF IInv, StopSafe, Stopping, From
  <2> QED
    BY <2>1, <2>2, <2>3, <2>4, <2>5 DEF IInv, StopSafe, Kind, From, Ended, Started
<1> QED
  BY <1>3, <1>4, <1>5, <1>6, <1>7, <1>8 DEF IInv, Mine

-----------------------------------------------------------------------------
(* How a handler goes on: to another point of itself, or out of itself.     *)
Others(f) ==
    /\ flow' \in [Flows -> Handlers]
    /\ \A g \in Flows : g # f => flow'[g] = flow[g]

Goes(f, pc, kind, ok) ==
    /\ Others(f)
    /\ flow'[f].pc = pc /\ flow'[f].kind = kind /\ flow'[f].ok = ok
    /\ flow'[f].from = flow[f].from /\ flow'[f].to = flow[f].to
    /\ flow'[f].loop = flow[f].loop /\ flow'[f].todo = flow[f].todo

Left(f) ==
    /\ Others(f)
    /\ flow'[f].pc \in {"idle", "next", "fatal"} /\ ~flow'[f].ok
    /\ flow'[f].todo \subseteq flow[f].todo
    /\ flow'[f].loop \in {"none", flow[f].loop}

LEMMA StepGoes ==
    ASSUME TypeOK, NEW f \in Flows, NEW pc \in Points, Step(f, pc)
    PROVE  Goes(f, pc, flow[f].kind, flow[f].ok)
  BY DEF TypeOK, Handlers, Step, Goes, Others

LEMMA TurnGoes ==
    ASSUME TypeOK, NEW f \in Flows, NEW pc \in Points, NEW kind \in Kinds, Turn(f, pc, kind)
    PROVE  Goes(f, pc, kind, flow[f].ok)
  BY DEF TypeOK, Handlers, Turn, Goes, Others

LEMMA MarkGoes ==
    ASSUME TypeOK, NEW f \in Flows, NEW pc \in Points, NEW ok \in BOOLEAN,
           flow' = [flow EXCEPT ![f].pc = pc, ![f].ok = ok]
    PROVE  Goes(f, pc, flow[f].kind, ok)
<1> DEFINE h == [flow[f] EXCEPT !.pc = pc, !.ok = ok]
<1>1. flow' = [flow EXCEPT ![f] = h] /\ h \in Handlers
  BY DEF TypeOK, Handlers
<1>2. Others(f)
  BY <1>1 DEF TypeOK, Others
<1>3. flow'[f].pc = pc /\ flow'[f].ok = ok /\ flow'[f].kind = flow[f].kind
  BY DEF TypeOK, Handlers
<1>4. /\ flow'[f].from = flow[f].from /\ flow'[f].to = flow[f].to
      /\ flow'[f].loop = flow[f].loop /\ flow'[f].todo = flow[f].todo
  BY DEF TypeOK, Handlers
<1> QED
  BY <1>2, <1>3, <1>4 DEF Goes

LEMMA ReturnLeaves ==
    ASSUME TypeOK, NEW f \in Flows, Return(f)
    PROVE  Left(f)
  BY DEF TypeOK, Handlers, Points, Kinds, Return, NoFlow, Left, Others

LEMMA ThrowLeaves ==
    ASSUME TypeOK, NEW f \in Flows, Throw(f)
    PROVE  Left(f)
  BY DEF TypeOK, Handlers, Points, Kinds, Throw, NoFlow, Left, Others

Kept == \A s \in Sessions : Started(s) => proc'[s] # "none"

(* A handler that leaves has nothing more to answer for.                    *)
LEMMA LeavingIsSafe ==
    ASSUME IInv, NEW f \in Flows, Left(f), Kept
    PROVE  Mine(f)
<1>1. ~Owns(f)' /\ OwnSafe(f)'
  BY DEF Left, Owns, Owning, Unleased, Leased, Launched, Dropped, OwnSafe
<1>2. StopSafe(f)'
  BY DEF Left, IInv, TypeOK, Handlers, StopSafe, Stopping, AfterStop, Passing, Kept, Started
<1> QED
  BY <1>1, <1>2 DEF Mine

-----------------------------------------------------------------------------
(* The steps that leave workers and leases alone.                           *)
Quiet ==
    /\ UNCHANGED <<proc, lease, expired>>
    /\ \A s \in Sessions : status'[s] = "absent" => status[s] = "absent"
    /\ \A s \in proven' : s \in proven \/ Ended(s)
    /\ \A s \in running' \cup beating' : s \in running \cup beating \/ Started(s)

LEMMA QuietMoves ==
    ASSUME IInv, TypeOK', NEW f \in Flows, Quiet, Others(f), Mine(f)
    PROVE  Moved(f)
<1>1. Still
  BY DEF Quiet, Still, Holds
<1>2. Books
  BY DEF IInv, Rooted, Quiet, Books, Ended, Started
<1> QED
  BY <1>1, <1>2 DEF Moved, Effect, Others

LEMMA ReadMoves ==
    ASSUME IInv, NEW f \in Flows, Drain(f) \/ Checkpoint(f) \/ Interrupt(f)
    PROVE  Moved(f)
<1>1. \/ Drain(f) /\ Goes(f, "draining", flow[f].kind, flow[f].ok)
      \/ Checkpoint(f) /\ Goes(f, "checkpointing", flow[f].kind, flow[f].ok)
      \/ Left(f)
  BY StepGoes, ThrowLeaves DEF IInv, Drain, Checkpoint, ReadMove, Interrupt, Points
<1>2. UNCHANGED <<rows, memory, world>> /\ faults' \in 0..MaxFaults
  BY SupervisorAssumption DEF Drain, Checkpoint, ReadMove, Interrupt, Fault, IInv, TypeOK
<1>3. Others(f)
  BY <1>1 DEF Goes, Left
<1>4. TypeOK'
  BY <1>2, <1>3 DEF IInv, TypeOK, LeaseTypeOK, Others, rows, memory, world, sessionRows, leaseRows, handoffRows
<1>5. Quiet
  BY <1>2 DEF Quiet, rows, memory, world, sessionRows, leaseRows, handoffRows
<1>6. Mine(f)
  <2>1. CASE Left(f)
    BY <2>1, <1>2, LeavingIsSafe DEF world, Kept, Started
  <2>2. CASE Drain(f) /\ Goes(f, "draining", flow[f].kind, flow[f].ok)
    BY <2>2, <1>2 DEF IInv, Goes, Mine, Owns, OwnSafe, StopSafe, Drain, ReadMove, At, Owning, Unleased, Leased,
       Launched, Dropped, Stopping, AfterStop, Passing, From, world, Started, Ended
  <2>3. CASE Checkpoint(f) /\ Goes(f, "checkpointing", flow[f].kind, flow[f].ok)
    BY <2>3, <1>2 DEF IInv, Goes, Mine, Owns, OwnSafe, StopSafe, Checkpoint, ReadMove, At, Owning, Unleased, Leased,
       Launched, Dropped, Stopping, AfterStop, Passing, From, world, Started, Ended
  <2> QED
    BY <1>1, <2>1, <2>2, <2>3
<1> QED
  BY <1>3, <1>4, <1>5, <1>6, QuietMoves

LEMMA WriteMoves ==
    ASSUME IInv, NEW f \in Flows, Draining(f) \/ Checkpointing(f)
    PROVE  Moved(f)
<1> USE DEF IInv
<1>1. From(f) \in Sessions /\ status[From(f)] # "absent"
  BY DEF Draining, Checkpointing, WriteMove, At, StopSafe, Stopping, AfterStop, From, Rooted, Started, Ended, Over
<1>2. \/ Draining(f) /\ Goes(f, "stop", flow[f].kind, flow[f].ok)
      \/ Checkpointing(f) /\ \E pc \in {"gates", "save"} : Goes(f, pc, flow[f].kind, flow[f].ok)
      \/ Left(f)
  BY StepGoes, ThrowLeaves DEF Draining, Checkpointing, WriteMove, Call, Points
<1>3. /\ UNCHANGED <<worker, ended, proven, bound, leaseRows, saved, handoffRows, memory, world>>
      /\ faults' \in 0..MaxFaults
      /\ \E to \in States : status' \in {status, [status EXCEPT ![From(f)] = to]}
  BY SupervisorAssumption DEF Draining, Checkpointing, WriteMove, Call, SetStatus, Fault, TypeOK, States, rows, sessionRows, leaseRows, handoffRows
<1>4. Others(f)
  BY <1>2 DEF Goes, Left
<1>5. TypeOK'
  BY <1>1, <1>3, <1>4 DEF TypeOK, LeaseTypeOK, Others, memory, world, leaseRows, handoffRows
<1>6. Quiet
  BY <1>1, <1>3 DEF Quiet, memory, world, leaseRows, TypeOK, LeaseTypeOK, States, Failures, Terminal
<1>7. Mine(f)
  <2>1. CASE Left(f)
    BY <2>1, <1>3, LeavingIsSafe DEF world, Kept, Started
  <2>2. CASE Draining(f) /\ Goes(f, "stop", flow[f].kind, flow[f].ok)
    BY <2>2, <1>3 DEF Goes, Mine, OwnSafe, StopSafe, Draining, WriteMove, At, Owns, Owning, Unleased, Leased, Launched,
       Dropped, Stopping, AfterStop, Passing, From, world, Started, Ended
  <2>3. CASE Checkpointing(f) /\ \E pc \in {"gates", "save"} : Goes(f, pc, flow[f].kind, flow[f].ok)
    BY <2>3, <1>3 DEF Goes, Mine, OwnSafe, StopSafe, Checkpointing, WriteMove, At, Owns, Owning, Unleased, Leased, Launched,
       Dropped, Stopping, AfterStop, Passing, From, world, Started, Ended
  <2> QED
    BY <1>2, <2>1, <2>2, <2>3
<1> QED
  BY <1>4, <1>5, <1>6, <1>7, QuietMoves

(* Stopping a worker ends it if it was still working.                       *)
LEMMA StopMoves ==
    ASSUME IInv, NEW f \in Flows, StopWorker(f) \/ Halt(f)
    PROVE  Moved(f)
<1> USE DEF IInv
<1> DEFINE me == flow[f].from
<1>1. me \in Sessions /\ Started(me) /\ ~Owns(f)
  BY DEF StopWorker, Halt, At, StopSafe, Stopping, From, Owns, Owning, Unleased, Leased, Launched, Dropped
<1>3. \/ proc' = Stopped(me) /\ Goes(f, "checkpoint", flow[f].kind, flow[f].ok)
      \/ flow[f].pc = "halt" /\ proc' = Stopped(me) /\ Goes(f, "fail", flow[f].kind, TRUE)
      \/ flow[f].pc = "halt" /\ proc' \in {proc, Stopped(me)} /\ Goes(f, "fail", flow[f].kind, flow[f].ok)
      \/ proc' \in {proc, Stopped(me)} /\ Left(f)
  <2>1. CASE StopWorker(f)
    BY <2>1, StepGoes, ThrowLeaves DEF StopWorker, Points, From
  <2>2. CASE Halt(f)
    BY <2>2, MarkGoes, StepGoes DEF Halt, At, Points, From
  <2> QED
    BY <2>1, <2>2
<1>4. UNCHANGED <<rows, memory, tree>> /\ faults' \in 0..MaxFaults
  BY SupervisorAssumption DEF StopWorker, Halt, Fault, TypeOK
<1>5. proc' = proc \/ Finished(me)
  BY <1>1, <1>3, <1>4 DEF Stopped, Finished, Working, Over, TypeOK, rows, leaseRows, LeaseTypeOK
<1>6. proc' = Stopped(me) => proc'[me] \in Over
  BY <1>1 DEF Stopped, Started, Over, TypeOK
<1>7. \A t \in Sessions : /\ proc[t] # "none" => proc'[t] # "none"
                          /\ proc[t] \in Over => proc'[t] \in Over
  BY <1>5 DEF Finished, Working, Over, TypeOK
<1>8. Others(f)
  BY <1>3 DEF Goes, Left
<1>9. TypeOK'
  <2>1. proc' \in [Sessions -> {"none", "working"} \cup Over]
    BY <1>5 DEF Finished, TypeOK
  <2> QED
    BY <1>4, <1>8, <2>1 DEF TypeOK, LeaseTypeOK, Others, memory, rows, sessionRows, leaseRows, handoffRows
<1>10. Books
  BY <1>4, <1>7 DEF Books, Rooted, Started, memory, rows, sessionRows, leaseRows, handoffRows
<1>11. Effect(f)
  BY <1>1, <1>4, <1>5 DEF Effect, Still, Holds, rows, sessionRows, leaseRows, handoffRows
<1>12. Mine(f)
  <2>1. CASE Left(f)
    <3>1. Kept
      BY <1>7 DEF Kept, Started
    <3> QED
      BY <2>1, <3>1, LeavingIsSafe
  <2>2. CASE ~Left(f)
    <3>1. ~Owns(f)' /\ OwnSafe(f)'
      BY <2>2, <1>3 DEF Goes, OwnSafe, Owns, Owning, Unleased, Leased, Launched,
       Dropped, Stopping, AfterStop, Passing
    <3>2. /\ flow'[f].from = me /\ flow'[f].loop = flow[f].loop /\ flow'[f].todo = flow[f].todo
          /\ flow[f].todo \subseteq Sessions
      BY <2>2, <1>3 DEF Goes, TypeOK, Handlers
    <3>3. flow'[f].pc = "checkpoint" => proc'[me] \in Over
      BY <2>2, <1>3, <1>6 DEF Goes
    <3>4. flow'[f].pc = "fail" /\ flow'[f].ok => proc'[me] \in Over
      BY <2>2, <1>1, <1>3, <1>6, <1>7 DEF Goes, StopSafe, From, Ended
    <3>5. flow'[f].pc \in {"checkpoint", "fail"}
      BY <2>2, <1>3 DEF Goes
    <3>6. StopSafe(f)'
      BY <1>1, <1>7, <3>2, <3>3, <3>4, <3>5
      DEF StopSafe, Stopping, AfterStop, Passing, From, Started, Ended, Over
    <3> QED
      BY <3>1, <3>6 DEF Mine
  <2> QED
    BY <2>1, <2>2
<1> QED
  BY <1>8, <1>9, <1>10, <1>11, <1>12 DEF Moved, Others

(* From the stop of a worker on, its handler only goes on to points that    *)
(* need that stop.                                                          *)
Winding == (AfterStop \ {"release"}) \cup {"choose"}

LEMMA WindingIsSafe ==
    ASSUME IInv, NEW f \in Flows, NEW pc \in Winding, NEW kind, NEW ok, Goes(f, pc, kind, ok),
           flow[f].pc \in AfterStop, proc' = proc
    PROVE  Mine(f)
<1> USE DEF IInv
<1>1. flow[f].from \in Sessions /\ proc[flow[f].from] \in Over
  BY DEF StopSafe, From, Ended
<1>2. ~Owns(f)' /\ OwnSafe(f)'
  BY DEF Goes, Winding, OwnSafe, Owns, Owning, Unleased, Leased, Launched,
       Dropped, Stopping, AfterStop, Passing
<1>3. StopSafe(f)'
  BY <1>1 DEF Goes, Winding, StopSafe, Stopping, AfterStop, Passing, From, Started, Ended, TypeOK, Handlers
<1> QED
  BY <1>2, <1>3 DEF Mine

LEMMA WindingMoves ==
    ASSUME IInv, NEW f \in Flows, Gates(f) \/ Transfer(f) \/ Save(f) \/ Condemn(f)
    PROVE  Moved(f)
<1> USE DEF IInv
<1>1. flow[f].pc \in AfterStop /\ From(f) \in Sessions /\ Ended(From(f)) /\ status[From(f)] # "absent"
  BY DEF Gates, Transfer, Save, Condemn, At, AfterStop, StopSafe, From, Rooted, Started, Ended, Over
<1>2. (\E pc \in Winding, kind \in Kinds, ok \in BOOLEAN : Goes(f, pc, kind, ok)) \/ Left(f)
  <2>1. CASE Gates(f)
    BY <2>1, MarkGoes DEF Gates, Points, Winding, AfterStop, TypeOK, Handlers
  <2>2. CASE Transfer(f)
    <3>1. \/ Step(f, "choose") \/ Step(f, "save") \/ Step(f, "yield") \/ Step(f, "condemn")
          \/ Turn(f, "save", "unsafe")
      BY <2>2 DEF Transfer, Unpublished
    <3> QED
      BY <3>1, StepGoes, TurnGoes DEF Points, Kinds, Winding, AfterStop, TypeOK, Handlers
  <2>3. CASE Save(f)
    BY <2>3, StepGoes, ThrowLeaves DEF Save, Call, Points, Winding, AfterStop, TypeOK, Handlers
  <2>4. CASE Condemn(f)
    BY <2>4, ReturnLeaves DEF Condemn, Call
  <2> QED
    BY <2>1, <2>2, <2>3, <2>4
<1>3. /\ UNCHANGED <<worker, bound, leaseRows, handoffRows, up, held, proc>>
      /\ faults' \in 0..MaxFaults
      /\ \A s \in running' \cup beating' : s \in running \cup beating
      /\ tree' \subseteq tree
      /\ saved' \in {saved, saved \cup {From(f)}}
      /\ ended' \in {ended, ended \cup {From(f)}}
      /\ proven' \subseteq proven
      /\ status' \in {status, [status EXCEPT ![From(f)] = "ABNORMAL_EXIT"]}
  <2>1. CASE Gates(f)
    BY <2>1 DEF Gates, TypeOK, memory, world, rows, sessionRows, leaseRows, handoffRows
  <2>2. CASE Transfer(f)
    BY <2>2, SupervisorAssumption DEF Transfer, Fault, TypeOK, memory, rows, sessionRows, leaseRows, handoffRows
  <2>3. CASE Save(f)
    BY <2>3, SupervisorAssumption DEF Save, Call, SaveCheckpoint, Fault, TypeOK, memory, world, rows, sessionRows, leaseRows, handoffRows
  <2>4. CASE Condemn(f)
    BY <2>4, SupervisorAssumption DEF Condemn, Call, CloseAbnormal, Fault, TypeOK, world, rows, sessionRows, leaseRows, handoffRows
  <2> QED
    BY <2>1, <2>2, <2>3, <2>4
<1>4. Others(f)
  BY <1>2 DEF Goes, Left
<1>5. TypeOK'
  BY <1>1, <1>3, <1>4 DEF TypeOK, LeaseTypeOK, Others, leaseRows, handoffRows, States, Failures
<1>6. Quiet
  BY <1>1, <1>3 DEF Quiet, leaseRows, TypeOK, LeaseTypeOK
<1>7. Mine(f)
  BY <1>1, <1>2, <1>3, WindingIsSafe, LeavingIsSafe DEF Kept, Started
<1> QED
  BY <1>4, <1>5, <1>6, <1>7, QuietMoves

(* Letting go of a lease whose worker ended, or never was.                  *)
Yielded(s) == UNCHANGED rows \/ \E final \in States : MayRelease(s) /\ ReleaseLease(s, final)

LEMMA YieldedRows ==
    ASSUME IInv, NEW s \in Sessions, Yielded(s), status[s] # "absent"
    PROVE  /\ lease' = lease \/ (Holds(s) /\ lease' = [lease EXCEPT ![s] = "RELEASED"])
           /\ LeaseTypeOK'
           /\ \A t \in Sessions : status'[t] = "absent" => status[t] = "absent"
           /\ proven' = proven
           /\ \A t \in expired' : lease'[t] = "ACTIVE"
<1> USE DEF IInv
<1>1. CASE UNCHANGED rows
  BY <1>1 DEF TypeOK, LeaseTypeOK, Rooted, rows, sessionRows, leaseRows, handoffRows
<1>2. CASE \E final \in States : MayRelease(s) /\ ReleaseLease(s, final)
  BY <1>2 DEF MayRelease, ReleaseLease, TypeOK, LeaseTypeOK, Rooted, handoffRows, Holds, States, Failures, Terminal
<1> QED
  BY <1>1, <1>2 DEF Yielded

LEMMA YieldMoves ==
    ASSUME IInv, NEW f \in Flows, Yield(f)
    PROVE  Moved(f)
<1> USE DEF IInv
<1>1. From(f) \in Sessions /\ Ended(From(f)) /\ status[From(f)] # "absent"
  BY DEF Yield, At, AfterStop, StopSafe, From, Rooted, Started, Ended, Over
<1>2. Yielded(From(f)) /\ Left(f)
  <2>1. FinalStatus(f) \in States
    BY DEF FinalStatus, States, Terminal
  <2> QED
    BY <2>1, ReturnLeaves, ThrowLeaves DEF Yield, LetGo, Call, Yielded
<1>3. /\ UNCHANGED <<up, world>> /\ faults' \in 0..MaxFaults
      /\ running' \subseteq running /\ held' \subseteq held /\ beating' \subseteq beating
  BY SupervisorAssumption DEF Yield, LetGo, Call, Fault, TypeOK
<1>4. TypeOK'
  BY <1>1, <1>2, <1>3, YieldedRows DEF TypeOK, world, Left, Others
<1>5. Effect(f)
  BY <1>1, <1>2, <1>3, YieldedRows DEF Effect, Still, LetGoOf, Ended, Working, Over, Holds, world
<1>6. Books
  BY <1>1, <1>2, <1>3, YieldedRows DEF Books
<1>7. Mine(f)
  BY <1>2, <1>3, LeavingIsSafe DEF Kept, Started, world
<1> QED
  BY <1>2, <1>4, <1>5, <1>6, <1>7 DEF Moved, Left, Others

LEMMA ReleaseMoves ==
    ASSUME IInv, NEW f \in Flows, Release(f)
    PROVE  Moved(f)
<1> USE DEF IInv
<1> DEFINE me == flow[f].to
<1>1. /\ From(f) \in Sessions /\ Ended(From(f)) /\ status[From(f)] # "absent"
      /\ me \in Sessions /\ status[me] # "absent" /\ proc[me] = "none" /\ lease[me] = "none" /\ Owns(f)
  BY DEF Release, At, StopSafe, OwnSafe, From, To, Rooted, Started, Ended, Over, Owns, Owning, Unleased, Leased, Launched,
       Dropped, Stopping, AfterStop, Passing
<1>2. Yielded(From(f)) /\ (Left(f) \/ Goes(f, "enroll", flow[f].kind, flow[f].ok))
  BY StepGoes, ThrowLeaves DEF Release, LetGo, Call, Yielded, Points, States
<1>3. /\ UNCHANGED <<up, running, world>> /\ faults' \in 0..MaxFaults
      /\ held' \subseteq held /\ beating' \subseteq beating
  BY SupervisorAssumption DEF Release, LetGo, Call, Fault, TypeOK
<1>4. Others(f)
  BY <1>2 DEF Goes, Left
<1>5. TypeOK'
  BY <1>1, <1>2, <1>3, <1>4, YieldedRows DEF TypeOK, world, Others
<1>6. Effect(f)
  BY <1>1, <1>2, <1>3, YieldedRows DEF Effect, Still, LetGoOf, Ended, Working, Over, Holds, world
<1>7. Books
  BY <1>1, <1>2, <1>3, YieldedRows DEF Books
<1>8. Mine(f)
  <2>1. CASE Left(f)
    BY <2>1, <1>3, LeavingIsSafe DEF Kept, Started, world
  <2>2. CASE Goes(f, "enroll", flow[f].kind, flow[f].ok)
    <3>1. lease'[me] = "none" /\ status'[me] # "absent" /\ proc'[me] = "none"
      BY <1>1, <1>2, <1>3, YieldedRows DEF Ended, Over, world, TypeOK, LeaseTypeOK
    <3>2. OwnSafe(f)' /\ Owns(f)'
      BY <2>2, <1>1, <3>1 DEF Goes, OwnSafe, To, Started, Owns, Owning, Unleased, Leased, Launched,
       Dropped, Stopping, AfterStop, Passing
    <3>3. StopSafe(f)'
      BY <2>2, <1>3 DEF Goes, StopSafe, Stopping, AfterStop, Passing, From, Started, Ended, TypeOK, Handlers, world
    <3> QED
      BY <2>2, <1>1, <3>2, <3>3 DEF Mine, Goes, To
  <2> QED
    BY <1>2, <2>1, <2>2
<1> QED
  BY <1>4, <1>5, <1>6, <1>7, <1>8 DEF Moved, Others

(* Taking the lease back from the new session.                              *)
LEMMA RetractMoves ==
    ASSUME IInv, NEW f \in Flows, Retract(f) \/ Unwind(f)
    PROVE  Moved(f)
<1> USE DEF IInv
<1> DEFINE me == flow[f].to
<1>1. me \in Sessions /\ status[me] # "absent" /\ proc[me] # "working" /\ Owns(f)
  BY DEF Retract, Unwind, At, OwnSafe, To, Working, Owns, Owning, Unleased, Leased, Launched,
       Dropped, Stopping, AfterStop, Passing
<1>2. Yielded(me) /\ (Left(f) \/ Goes(f, "disown", flow[f].kind, flow[f].ok))
  <2>1. CASE Retract(f)
    BY <2>1, StepGoes, ThrowLeaves DEF Retract, LetGo, Call, Yielded, Points, States, To
  <2>2. CASE Unwind(f)
    BY <2>2, StepGoes DEF Unwind, LetGo, Call, Yielded, Points, States, To
  <2> QED
    BY <2>1, <2>2
<1>3. /\ UNCHANGED <<up, running, world>> /\ faults' \in 0..MaxFaults
      /\ held' \subseteq held /\ beating' \subseteq beating
  BY SupervisorAssumption DEF Retract, Unwind, LetGo, Call, Fault, TypeOK
<1>4. Others(f)
  BY <1>2 DEF Goes, Left
<1>5. TypeOK'
  BY <1>1, <1>2, <1>3, <1>4, YieldedRows DEF TypeOK, world, Others
<1>6. Effect(f)
  BY <1>1, <1>2, <1>3, YieldedRows DEF Effect, Still, LetGoOf, Working, Holds, world, To
<1>7. Books
  BY <1>1, <1>2, <1>3, YieldedRows DEF Books
<1>8. Mine(f)
  <2>1. CASE Left(f)
    BY <2>1, <1>3, LeavingIsSafe DEF Kept, Started, world
  <2>2. CASE Goes(f, "disown", flow[f].kind, flow[f].ok)
    <3>1. status'[me] # "absent" /\ proc'[me] # "working"
      BY <1>1, <1>2, <1>3, YieldedRows DEF world
    <3>2. OwnSafe(f)' /\ Owns(f)'
      BY <2>2, <1>1, <3>1 DEF Goes, OwnSafe, To, Working, Owns, Owning, Unleased, Leased, Launched,
       Dropped, Stopping, AfterStop, Passing
    <3>3. StopSafe(f)'
      BY <2>2, <1>3 DEF Goes, StopSafe, Stopping, AfterStop, Passing, From, Started, Ended, TypeOK, Handlers, world
    <3> QED
      BY <2>2, <1>1, <3>2, <3>3 DEF Mine, Goes, To
  <2> QED
    BY <1>2, <2>1, <2>2
<1> QED
  BY <1>4, <1>5, <1>6, <1>7, <1>8 DEF Moved, Others

(* A handler that goes on with the session it owns.                         *)
Onward(f, pc, kind) ==
    /\ flow[f].pc \in Owning \ Launched /\ pc \in Owning \ (Launched \cup {"prepare"})
    /\ pc \in Unleased => flow[f].pc \in Unleased
    /\ pc \in Leased => flow[f].pc \in Leased
    /\ pc = "propose" => flow[f].pc = "prepare" /\ kind = flow[f].kind
    /\ pc = "release" => flow[f].pc = "propose" /\ kind = flow[f].kind /\ kind = "pass"

LEMMA OnwardIsSafe ==
    ASSUME IInv, NEW f \in Flows, NEW pc \in Points, NEW kind \in Kinds, NEW ok, Goes(f, pc, kind, ok),
           Onward(f, pc, kind), proc' = proc, lease' = lease,
           \A s \in Sessions : status'[s] = "absent" => status[s] = "absent"
    PROVE  Mine(f)
<1> USE DEF IInv
<1> DEFINE me == flow[f].to
<1>1. Owns(f) /\ me \in Sessions /\ status'[me] # "absent"
  BY DEF Onward, OwnSafe, Owns, To, Owning
<1>2. flow[f].pc \in Unleased => proc[me] = "none" /\ lease[me] = "none"
  BY DEF OwnSafe, To, Started
<1>3. flow[f].pc \in Leased => proc[me] = "none" /\ Holds(me)
  BY DEF OwnSafe, To, Started
<1>4. flow[f].pc \in Dropped => proc[me] # "working"
  BY DEF OwnSafe, To, Working
<1>5. OwnSafe(f)' /\ Owns(f)'
  BY <1>1, <1>2, <1>3, <1>4 DEF Onward, Goes, OwnSafe, To, Owns, Owning, Unleased, Leased, Launched, Dropped, Started,
     Working, Holds
<1>6. pc = "release" \/ (pc = "propose" /\ kind = "pass") => flow[f].from \in Sessions /\ proc[flow[f].from] \in Over
  BY DEF Onward, StopSafe, Passing, From, Kind, Ended
<1>7. StopSafe(f)'
  BY <1>6 DEF Onward, Goes, StopSafe, Owns, Owning, Unleased, Leased, Launched,
       Dropped, Stopping, AfterStop, Passing, From, Kind, Started, Ended, TypeOK, Handlers
<1> QED
  BY <1>1, <1>5, <1>7 DEF Mine, Goes, To

LEMMA OnwardMoves ==
    ASSUME IInv, NEW f \in Flows,
           Prepare(f) \/ Propose(f) \/ Enroll(f) \/ Record(f) \/ Discard(f) \/ Accept(f)
    PROVE  Moved(f)
<1> USE DEF IInv
<1> DEFINE me == flow[f].to
           Next1 == \E pc \in Points, kind \in Kinds, ok \in BOOLEAN : Goes(f, pc, kind, ok) /\ Onward(f, pc, kind)
           Next2 == \E ok \in BOOLEAN : Goes(f, "yield", "pause", ok)
                                        /\ flow[f].pc \in Passing /\ flow[f].kind = "pass"
<1>1. me \in Sessions /\ status[me] # "absent"
  BY DEF Prepare, Propose, Enroll, Record, Discard, Accept, At, OwnSafe, To, Owns, Owning, Unleased, Leased, Launched,
       Dropped, Stopping, AfterStop, Passing
<1>2. Next1 \/ Next2 \/ Left(f)
  <2>1. CASE Prepare(f) \/ Propose(f)
    <3>1. \/ flow[f].pc = "prepare" /\ (Step(f, "enroll") \/ Step(f, "propose"))
          \/ flow[f].pc = "propose" /\ (Step(f, "enroll") \/ (flow[f].kind = "pass" /\ Step(f, "release")))
          \/ flow[f].pc \in Passing /\ flow[f].kind = "pass" /\ Turn(f, "yield", "pause")
          \/ Return(f) \/ Throw(f)
      BY <2>1 DEF Prepare, Propose, Call, At, Kind, Passing
    <3>2. ASSUME NEW pc \in {"enroll", "propose", "release"}, Step(f, pc), Onward(f, pc, flow[f].kind)
          PROVE  Next1
      BY <3>2, StepGoes DEF TypeOK, Handlers, Points
    <3>3. ASSUME Turn(f, "yield", "pause")
          PROVE  \E ok \in BOOLEAN : Goes(f, "yield", "pause", ok)
      BY <3>3, TurnGoes DEF TypeOK, Handlers, Points, Kinds
    <3> HIDE DEF Next1
    <3> QED
      BY <3>1, <3>2, <3>3, ReturnLeaves, ThrowLeaves DEF Onward, Owns, Owning, Unleased, Leased, Launched,
       Dropped, Stopping, AfterStop, Passing
  <2>2. CASE Enroll(f) \/ Record(f) \/ Discard(f) \/ Accept(f)
    <3> DEFINE Mark == \E ok \in BOOLEAN : flow' = [flow EXCEPT ![f].pc = "unwind", ![f].ok = ok]
    <3>1. Enroll(f) => flow[f].pc = "enroll" /\ (Step(f, "acquire") \/ Step(f, "disown") \/ Mark)
      BY DEF Enroll, Withdraw, Call, At
    <3>2. Record(f) => /\ flow[f].pc = "record"
                       /\ (\E pc \in {"launch", "accept", "discard"} : Step(f, pc)) \/ Step(f, "disown") \/ Mark
      BY DEF Record, Withdraw, Call, At
    <3>3. Accept(f) => flow[f].pc = "accept" /\ (Step(f, "launch") \/ Step(f, "disown") \/ Mark)
      BY DEF Accept, Withdraw, Call, At
    <3>4. ASSUME Discard(f)
          PROVE  flow[f].pc = "discard" /\ Mark
      <4> DEFINE ok == To(f) \in saved
      <4>1. flow' = [flow EXCEPT ![f].pc = "unwind", ![f].ok = ok]
        BY <3>4 DEF Discard, Call
      <4>2. ok \in BOOLEAN
        OBVIOUS
      <4> QED
        BY <3>4, <4>1, <4>2 DEF Discard, At
    <3>5. ASSUME NEW pc \in Points, Step(f, pc), Onward(f, pc, flow[f].kind)
          PROVE  Next1
      BY <3>5, StepGoes DEF TypeOK, Handlers
    <3>6. ASSUME Mark, Onward(f, "unwind", flow[f].kind)
          PROVE  Next1
      BY <3>6, MarkGoes DEF TypeOK, Handlers, Points
    <3> HIDE DEF Next1, Mark
    <3> QED
      BY <2>2, <3>1, <3>2, <3>3, <3>4, <3>5, <3>6 DEF Onward, Points, Owns, Owning, Unleased, Leased, Launched,
       Dropped, Stopping, AfterStop, Passing
  <2> QED
    BY <2>1, <2>2
<1>3. /\ UNCHANGED <<worker, bound, lease, expired, memory, proc>> /\ faults' \in 0..MaxFaults
      /\ tree' \subseteq Sessions
      /\ status' = status \/ \E to \in States : status' = [status EXCEPT ![me] = to]
      /\ ended' \subseteq Sessions /\ proven' \subseteq proven /\ saved' \subseteq Sessions
      /\ giver' \in [Sessions -> Sessions \cup {None}]
      /\ baton' \in [Sessions -> {"none", "PROPOSED", "ACCEPTED", "FAILED"}]
  <2>0. faults' \in 0..MaxFaults
    <3>1. UNCHANGED faults \/ Fault
      BY DEF Prepare, Propose, Enroll, Record, Discard, Accept, Call
    <3> QED
      BY <3>1, SupervisorAssumption DEF Fault, TypeOK
  <2> USE DEF TypeOK, LeaseTypeOK, Call, States, Failures, To, rows, sessionRows, leaseRows, handoffRows
  <2>1. CASE Prepare(f)
    BY <2>0, <2>1, <1>1 DEF Prepare
  <2>2. CASE Propose(f)
    BY <2>0, <2>2, <1>1 DEF Propose, ProposeHandoff, world, Handlers, From
  <2>3. CASE Enroll(f)
    BY <2>0, <2>3, <1>1 DEF Enroll, SetStatus, world
  <2>4. CASE Record(f)
    BY <2>0, <2>4, <1>1 DEF Record, SaveCheckpoint, world
  <2>5. CASE Discard(f)
    BY <2>0, <2>5, <1>1 DEF Discard, CloseAbnormal, world
  <2>6. CASE Accept(f)
    BY <2>0, <2>6, <1>1 DEF Accept, AcceptHandoff, world
  <2> QED
    BY <2>1, <2>2, <2>3, <2>4, <2>5, <2>6
<1>4. Others(f)
  BY <1>2 DEF Goes, Left
<1>5. TypeOK'
  BY <1>1, <1>3, <1>4 DEF TypeOK, LeaseTypeOK, Others, memory
<1>6. Quiet
  BY <1>1, <1>3 DEF Quiet, memory, TypeOK, LeaseTypeOK, States, Failures, Terminal
<1>7. Mine(f)
  <2>1. CASE Left(f)
    BY <2>1, <1>3, LeavingIsSafe DEF Kept, Started
  <2>2. CASE Next1
    <3>1. proc' = proc /\ lease' = lease /\ \A s \in Sessions : status'[s] = "absent" => status[s] = "absent"
      BY <1>3, <1>6 DEF Quiet
    <3> HIDE DEF IInv
    <3> QED
      BY <2>2, <3>1, OnwardIsSafe
  <2>3. CASE Next2
    BY <2>3, <1>3 DEF Goes, Mine, OwnSafe, StopSafe, Owns, Owning, Unleased, Leased, Launched,
       Dropped, Stopping, AfterStop, Passing, From, Kind, Started, Ended, TypeOK, Handlers
  <2> QED
    BY <1>2, <2>1, <2>2, <2>3
<1> QED
  BY <1>4, <1>5, <1>6, <1>7, QuietMoves

(* A handler that starts with a new session.                                *)
Entered(f, t) ==
    /\ Others(f)
    /\ flow'[f].pc = "prepare" /\ flow'[f].to = t
    /\ flow'[f].loop = flow[f].loop /\ flow'[f].todo = flow[f].todo
    /\ flow'[f].kind = "pass" => flow'[f].from \in Sessions /\ Ended(flow'[f].from)

Newly(t) == Fresh(t) /\ \E w \in Workers : CreateSession(t, w)

LEMMA SetGoes ==
    ASSUME TypeOK, NEW f \in Flows, NEW h \in Handlers, flow' = [flow EXCEPT ![f] = h]
    PROVE  Others(f) /\ flow'[f] = h
  BY DEF TypeOK, Others

LEMMA CreationEnters ==
    ASSUME IInv, NEW f \in Flows, StartTask(f) \/ (\E s \in Sessions : Resume(f, s))
    PROVE  \E t \in Sessions : Newly(t) /\ Entered(f, t)
<1> USE DEF IInv
<1>1. CASE StartTask(f)
  <2>1. PICK t \in Sessions, w \in Workers :
          /\ Fresh(t) /\ CreateSession(t, w)
          /\ flow' = [flow EXCEPT ![f].pc = "prepare", ![f].kind = "start", ![f].to = t]
    BY <1>1 DEF StartTask
  <2> DEFINE h == [flow[f] EXCEPT !.pc = "prepare", !.kind = "start", !.to = t]
  <2>2. flow' = [flow EXCEPT ![f] = h] /\ h \in Handlers
    <3>1. flow[f] \in Handlers
      BY DEF TypeOK
    <3>2. h \in Handlers
      BY <3>1 DEF Handlers, Points, Kinds
    <3>3. flow' = [flow EXCEPT ![f] = h]
      BY <2>1, <3>1 DEF TypeOK, Handlers
    <3> QED
      BY <3>2, <3>3
  <2>3. h.pc = "prepare" /\ h.to = t /\ h.loop = flow[f].loop /\ h.todo = flow[f].todo /\ h.kind = "start"
    BY DEF TypeOK, Handlers
  <2> HIDE DEF h
  <2>4. Others(f) /\ flow'[f] = h
    BY <2>2, SetGoes
  <2> QED
    BY <2>1, <2>3, <2>4 DEF Newly, Entered
<1>2. ASSUME NEW s \in Sessions, Resume(f, s)
      PROVE  \E t \in Sessions : Newly(t) /\ Entered(f, t)
  <2>1. PICK t \in Sessions, w \in Workers :
          /\ Fresh(t) /\ CreateSession(t, w)
          /\ flow' = [flow EXCEPT ![f].pc = "prepare", ![f].kind = "resume", ![f].from = s, ![f].to = t]
    BY <1>2 DEF Resume
  <2> DEFINE h == [flow[f] EXCEPT !.pc = "prepare", !.kind = "resume", !.from = s, !.to = t]
  <2>2. flow' = [flow EXCEPT ![f] = h] /\ h \in Handlers
    <3>1. flow[f] \in Handlers
      BY DEF TypeOK
    <3>2. h \in Handlers
      BY <3>1 DEF Handlers, Points, Kinds
    <3>3. flow' = [flow EXCEPT ![f] = h]
      BY <2>1, <3>1 DEF TypeOK, Handlers
    <3> QED
      BY <3>2, <3>3
  <2>3. h.pc = "prepare" /\ h.to = t /\ h.loop = flow[f].loop /\ h.todo = flow[f].todo /\ h.kind = "resume"
    BY DEF TypeOK, Handlers
  <2> HIDE DEF h
  <2>4. Others(f) /\ flow'[f] = h
    BY <2>2, SetGoes
  <2> QED
    BY <2>1, <2>3, <2>4 DEF Newly, Entered
<1> QED
  BY <1>1, <1>2

LEMMA ChooseEnters ==
    ASSUME IInv, NEW f \in Flows, Choose(f)
    PROVE  \/ UNCHANGED rows /\ (Left(f) \/ (flow[f].kind = "pass" /\ Goes(f, "yield", "pause", flow[f].ok)))
           \/ \E t \in Sessions : Newly(t) /\ (Left(f) \/ Entered(f, t))
<1> USE DEF IInv
<1>1. \/ UNCHANGED rows /\ (Return(f) \/ (flow[f].kind = "pass" /\ Turn(f, "yield", "pause")))
      \/ \E t \in Sessions, w \in Workers :
           Fresh(t) /\ Call(TRUE, CreateSession(t, w),
                            flow' = [flow EXCEPT ![f].pc = "prepare", ![f].to = t], Throw(f))
  BY DEF Choose, Kind
<1>2. CASE UNCHANGED rows /\ (Return(f) \/ (flow[f].kind = "pass" /\ Turn(f, "yield", "pause")))
  BY <1>2, ReturnLeaves, TurnGoes DEF Points, Kinds
<1>3. ASSUME NEW t \in Sessions, NEW w \in Workers, Fresh(t),
             Call(TRUE, CreateSession(t, w), flow' = [flow EXCEPT ![f].pc = "prepare", ![f].to = t], Throw(f))
      PROVE  (UNCHANGED rows /\ Left(f)) \/ (Newly(t) /\ (Left(f) \/ Entered(f, t)))
  <2> DEFINE h == [flow[f] EXCEPT !.pc = "prepare", !.to = t]
  <2>1. \/ CreateSession(t, w) /\ flow' = [flow EXCEPT ![f] = h]
        \/ (UNCHANGED rows \/ CreateSession(t, w)) /\ Throw(f)
    <3>1. flow' = [flow EXCEPT ![f].pc = "prepare", ![f].to = t] => flow' = [flow EXCEPT ![f] = h]
      BY DEF TypeOK, Handlers
    <3> QED
      BY <1>3, <3>1 DEF Call
  <2>2. h \in Handlers
    <3>1. flow[f] \in Handlers
      BY DEF TypeOK
    <3> QED
      BY <3>1 DEF Handlers, Points
  <2>3. /\ h.pc = "prepare" /\ h.to = t /\ h.loop = flow[f].loop /\ h.todo = flow[f].todo
        /\ h.kind = flow[f].kind /\ h.from = flow[f].from
    BY DEF TypeOK, Handlers
  <2> HIDE DEF h
  <2>4. CASE flow' = [flow EXCEPT ![f] = h] /\ CreateSession(t, w)
    <3>1. Others(f) /\ flow'[f] = h
      BY <2>2, <2>4, SetGoes
    <3>2. flow[f].kind = "pass" => flow[f].from \in Sessions /\ Ended(flow[f].from)
      BY DEF Choose, At, StopSafe, Passing, Kind, From
    <3> QED
      BY <1>3, <2>3, <2>4, <3>1, <3>2 DEF Newly, Entered
  <2> QED
    BY <1>3, <2>1, <2>4, ThrowLeaves DEF Newly
<1> QED
  BY <1>1, <1>2, <1>3

LEMMA CreationMoves ==
    ASSUME IInv, NEW f \in Flows, Choose(f) \/ StartTask(f) \/ (\E s \in Sessions : Resume(f, s))
    PROVE  Moved(f)
<1> USE DEF IInv
<1> DEFINE Turned == flow[f].kind = "pass" /\ Goes(f, "yield", "pause", flow[f].ok)
<1>1. \/ UNCHANGED rows /\ (Left(f) \/ (Choose(f) /\ Turned))
      \/ \E t \in Sessions : Newly(t) /\ (Left(f) \/ Entered(f, t))
  <2> HIDE DEF IInv
  <2>1. CASE Choose(f)
    BY <2>1, ChooseEnters
  <2>2. CASE StartTask(f) \/ \E s \in Sessions : Resume(f, s)
    BY <2>2, CreationEnters
  <2> QED
    BY <2>1, <2>2
<1>2. UNCHANGED <<memory, proc>> /\ faults' \in 0..MaxFaults /\ tree' \subseteq Sessions
  <2>1. UNCHANGED faults \/ Fault
    BY DEF Choose, Call, StartTask, Resume
  <2>2. UNCHANGED <<memory, proc>> /\ tree' \subseteq Sessions
    BY DEF Choose, StartTask, Resume, TypeOK, world
  <2> QED
    BY <2>1, <2>2, SupervisorAssumption DEF Fault, TypeOK
<1>3. UNCHANGED <<ended, proven, bound, leaseRows, saved, handoffRows>>
  BY <1>1 DEF Newly, CreateSession, rows, sessionRows
<1>4. ASSUME NEW t \in Sessions, Newly(t)
      PROVE  /\ status[t] = "absent" /\ proc[t] = "none" /\ lease[t] = "none"
             /\ status' = [status EXCEPT ![t] = "STANDBY"]
             /\ worker' \in [Sessions -> Workers \cup {None}]
  BY <1>4 DEF Newly, CreateSession, Fresh, Rooted, Started, TypeOK, LeaseTypeOK
<1>5. Others(f)
  BY <1>1 DEF Goes, Left, Entered
<1>6. TypeOK'
  <2>1. status' \in [Sessions -> States \cup {"absent"}] /\ worker' \in [Sessions -> Workers \cup {None}]
    BY <1>1, <1>4 DEF TypeOK, LeaseTypeOK, States, rows, sessionRows
  <2> QED
    BY <1>2, <1>3, <1>5, <2>1 DEF TypeOK, LeaseTypeOK, Others, memory, leaseRows, handoffRows
<1>7. Quiet
  BY <1>1, <1>2, <1>3, <1>4 DEF Quiet, memory, TypeOK, LeaseTypeOK, rows, sessionRows, leaseRows
<1>8. Mine(f)
  <2>1. CASE Left(f)
    BY <2>1, <1>2, LeavingIsSafe DEF Kept, Started
  <2>2. CASE Choose(f) /\ Turned
    BY <2>2, <1>2 DEF Choose, At, Goes, Mine, OwnSafe, StopSafe, Owns, Owning, Unleased, Leased, Launched,
       Dropped, Stopping, AfterStop, Passing, From, Kind, Started, Ended, TypeOK, Handlers
  <2>3. ASSUME NEW t \in Sessions, Newly(t), Entered(f, t)
        PROVE  Mine(f)
    <3>1. status'[t] = "STANDBY" /\ proc'[t] = "none" /\ lease'[t] = "none"
      BY <1>2, <1>3, <1>4, <2>3 DEF TypeOK, LeaseTypeOK, leaseRows
    <3>2. OwnSafe(f)' /\ To(f)' = t
      BY <2>3, <3>1 DEF Entered, OwnSafe, To, Started, Owns, Owning, Unleased, Leased, Launched,
       Dropped, Stopping, AfterStop, Passing
    <3>3. StopSafe(f)'
      BY <1>2, <2>3 DEF Entered, StopSafe, Stopping, AfterStop, Passing, From, Kind, Started, Ended, TypeOK, Handlers
    <3> QED
      BY <2>3, <3>2, <3>3 DEF Mine, Newly
  <2> QED
    BY <1>1, <2>1, <2>2, <2>3
<1> QED
  BY <1>5, <1>6, <1>7, <1>8, QuietMoves

(* Taking the lease, and bringing the worker to life under it.              *)
LEMMA AcquireMoves ==
    ASSUME IInv, NEW f \in Flows, Acquire(f)
    PROVE  Moved(f)
<1> USE DEF IInv
<1> DEFINE me == flow[f].to
           Taken == MayAcquire(me) /\ AcquireLease(me)
<1>1. /\ me \in Sessions /\ status[me] # "absent" /\ proc[me] = "none" /\ lease[me] = "none" /\ Owns(f)
  BY DEF Acquire, At, OwnSafe, To, Started, Owns, Owning, Unleased, Leased, Launched,
       Dropped, Stopping, AfterStop, Passing
<1>2. \/ Taken /\ Goes(f, "record", flow[f].kind, flow[f].ok)
      \/ (UNCHANGED rows \/ Taken) /\ \E pc \in {"disown", "unwind"}, ok \in BOOLEAN : Goes(f, pc, flow[f].kind, ok)
  <2>1. flow[f].ok \in BOOLEAN
    BY DEF TypeOK, Handlers
  <2>2. \/ Taken /\ Step(f, "record")
        \/ (UNCHANGED rows \/ Taken) /\ \/ Step(f, "disown")
                                        \/ flow' = [flow EXCEPT ![f].pc = "unwind", ![f].ok = FALSE]
    BY DEF Acquire, Call, Withdraw, To
  <2> QED
    BY <2>1, <2>2, StepGoes, MarkGoes DEF Points
<1>3. /\ UNCHANGED <<up, running, beating, world>> /\ held' \subseteq Sessions
  BY <1>1 DEF Acquire, Call, Withdraw, TypeOK, To
<1>4. faults' \in 0..MaxFaults
  <2>1. UNCHANGED faults \/ Fault
    BY DEF Acquire, Call
  <2> QED
    BY <2>1, SupervisorAssumption DEF Fault, TypeOK
<1>5. Others(f)
  BY <1>2 DEF Goes
<1>6. UNCHANGED rows \/ (Taken /\ Took(me))
  BY <1>1, <1>2, <1>3 DEF Took, MayAcquire, AcquireLease, world, Started
<1>7. TypeOK'
  BY <1>1, <1>3, <1>4, <1>5, <1>6 DEF TypeOK, LeaseTypeOK, Others, AcquireLease, States, rows, sessionRows, leaseRows, handoffRows, world
<1>8. Effect(f)
  BY <1>1, <1>3, <1>6 DEF Effect, Still, Holds, rows, sessionRows, leaseRows, handoffRows, world, To
<1>9. Books
  BY <1>1, <1>3, <1>6 DEF Books, AcquireLease, Rooted, TypeOK, LeaseTypeOK, rows, sessionRows, leaseRows, handoffRows
<1>10. Mine(f)
  <2>1. status'[me] # "absent" /\ proc'[me] = "none" /\ (Taken => lease'[me] = "ACTIVE")
    BY <1>1, <1>3, <1>6 DEF AcquireLease, TypeOK, LeaseTypeOK, rows, sessionRows, leaseRows, handoffRows, world
  <2>2. flow'[f].pc \in {"record", "disown", "unwind"} /\ flow'[f].to = me
    BY <1>2 DEF Goes
  <2>3. flow'[f].pc = "record" => lease'[me] = "ACTIVE"
    BY <1>2, <2>1 DEF Goes
  <2>4. OwnSafe(f)' /\ Owns(f)'
    BY <1>1, <2>1, <2>2, <2>3 DEF OwnSafe, To, Started, Working, Holds, Owns, Owning, Unleased, Leased, Launched,
       Dropped, Stopping, AfterStop, Passing
  <2>5. StopSafe(f)'
    BY <2>2, <1>2, <1>3 DEF Goes, StopSafe, Stopping, AfterStop, Passing, From, Started, Ended, TypeOK, Handlers, world
  <2> QED
    BY <1>1, <2>2, <2>4, <2>5 DEF Mine, To
<1> QED
  BY <1>5, <1>7, <1>8, <1>9, <1>10 DEF Moved, Others


LEMMA LaunchMoves ==
    ASSUME IInv, NEW f \in Flows, Launch(f)
    PROVE  Moved(f)
<1> USE DEF IInv
<1> DEFINE me == flow[f].to
<1>1. /\ me \in Sessions /\ status[me] # "absent" /\ proc[me] = "none" /\ Holds(me) /\ Owns(f)
  BY DEF Launch, At, OwnSafe, To, Started, Owns, Owning, Unleased, Leased, Launched,
       Dropped, Stopping, AfterStop, Passing
<1>2. \/ proc' = [proc EXCEPT ![me] = "working"] /\ (Left(f) \/ Goes(f, "bind", flow[f].kind, flow[f].ok))
      \/ proc' = proc /\ Goes(f, "retract", flow[f].kind, flow[f].ok)
  BY StepGoes, ReturnLeaves, ThrowLeaves DEF Launch, Settle, Points, To
<1>3. /\ UNCHANGED <<rows, up, held, tree>> /\ faults' \in 0..MaxFaults
  BY <1>1, SupervisorAssumption DEF Launch, Fault, TypeOK, To
<1>4. running' \cup beating' \subseteq running \cup beating \cup {me} /\ (proc' = proc => UNCHANGED <<running, beating>>)
  <2>1. Settle(f) => running' \cup beating' \subseteq running \cup beating \cup {me}
    BY DEF Settle, To, Kind
  <2>2. proc' = [proc EXCEPT ![me] = "working"] => proc' # proc
    BY <1>1 DEF TypeOK
  <2> QED
    BY <2>1, <2>2 DEF Launch, To
<1>5. Others(f)
  BY <1>2 DEF Goes, Left
<1>6. TypeOK'
  <2>1. proc' \in [Sessions -> {"none", "working"} \cup Over]
    BY <1>1, <1>2 DEF TypeOK
  <2>2. running' \subseteq Sessions /\ beating' \subseteq Sessions
    BY <1>1, <1>4 DEF TypeOK
  <2> QED
    BY <1>3, <1>5, <2>1, <2>2 DEF TypeOK, LeaseTypeOK, Others, rows, sessionRows, leaseRows, handoffRows
<1>7. Effect(f)
  BY <1>1, <1>2, <1>3 DEF Effect, Still, Began, Holds, rows, sessionRows, leaseRows, handoffRows, To, Started
<1>8. Books
  BY <1>1, <1>2, <1>3, <1>4 DEF Books, Rooted, TypeOK, rows, sessionRows, leaseRows, handoffRows
<1>9. Mine(f)
  <2>1. \A s \in Sessions : /\ proc[s] # "none" => proc'[s] # "none"
                            /\ proc[s] \in Over => proc'[s] \in Over
    BY <1>1, <1>2 DEF TypeOK, Over
  <2>2. CASE Left(f)
    BY <2>1, <2>2, LeavingIsSafe DEF Kept, Started
  <2>3. CASE ~Left(f)
    <3>1. /\ flow'[f].pc \in {"bind", "retract"} /\ flow'[f].to = me
          /\ flow'[f].todo = flow[f].todo /\ flow'[f].loop = flow[f].loop
      BY <2>3, <1>2 DEF Goes
    <3>2. flow'[f].pc = "bind" => proc'[me] = "working"
      BY <2>3, <1>1, <1>2 DEF Goes, TypeOK
    <3>3. flow'[f].pc = "retract" => proc'[me] = "none"
      BY <2>3, <1>1, <1>2 DEF Goes
    <3>4. OwnSafe(f)' /\ Owns(f)'
      BY <1>1, <1>3, <3>1, <3>2, <3>3 DEF OwnSafe, To, Started, Working, rows, sessionRows, leaseRows, handoffRows, Owns, Owning, Unleased, Leased, Launched,
       Dropped, Stopping, AfterStop, Passing
    <3>5. StopSafe(f)'
      BY <2>1, <3>1 DEF StopSafe, Stopping, AfterStop, Passing, From, Started, Ended, TypeOK, Handlers
    <3> QED
      BY <1>1, <3>1, <3>4, <3>5 DEF Mine, To
  <2> QED
    BY <2>2, <2>3
<1> QED
  BY <1>5, <1>6, <1>7, <1>8, <1>9 DEF Moved, Others

LEMMA BindMoves ==
    ASSUME IInv, NEW f \in Flows, Bind(f)
    PROVE  Moved(f)
<1> USE DEF IInv
<1> DEFINE me == flow[f].to
<1>1. /\ me \in Sessions /\ status[me] # "absent" /\ proc[me] # "none" /\ Owns(f)
  BY DEF Bind, At, OwnSafe, To, Started, Owns, Owning, Unleased, Leased, Launched,
       Dropped, Stopping, AfterStop, Passing
<1>2. Left(f) \/ Goes(f, "undo", flow[f].kind, flow[f].ok)
  BY StepGoes, ReturnLeaves, ThrowLeaves DEF Bind, Call, Settle, Points
<1>3. /\ UNCHANGED <<status, worker, ended, proven, leaseRows, saved, handoffRows, up, held, world>>
      /\ bound' \subseteq Sessions
  BY <1>1 DEF Bind, Call, BindNative, TypeOK, LeaseTypeOK, rows, sessionRows, To
<1>4. running' \cup beating' \subseteq running \cup beating \cup {me}
  BY DEF Bind, Call, Settle, To, Kind
<1>5. faults' \in 0..MaxFaults
  BY SupervisorAssumption DEF Bind, Call, Fault, TypeOK
<1>6. Others(f)
  BY <1>2 DEF Goes, Left
<1>7. TypeOK'
  BY <1>1, <1>3, <1>4, <1>5, <1>6 DEF TypeOK, LeaseTypeOK, Others, world, leaseRows, handoffRows
<1>8. Quiet
  BY <1>1, <1>3, <1>4 DEF Quiet, world, leaseRows, Started
<1>9. Mine(f)
  <2>1. CASE Left(f)
    BY <2>1, <1>3, LeavingIsSafe DEF Kept, Started, world
  <2>2. CASE Goes(f, "undo", flow[f].kind, flow[f].ok)
    <3>1. OwnSafe(f)' /\ Owns(f)'
      BY <2>2, <1>1, <1>3 DEF Goes, OwnSafe, To, Started, world, Owns, Owning, Unleased, Leased, Launched,
       Dropped, Stopping, AfterStop, Passing
    <3>2. StopSafe(f)'
      BY <2>2, <1>3 DEF Goes, StopSafe, Stopping, AfterStop, Passing, From, Started, Ended, TypeOK, Handlers, world
    <3> QED
      BY <2>2, <1>1, <3>1, <3>2 DEF Mine, Goes, To
  <2> QED
    BY <1>2, <2>1, <2>2
<1> QED
  BY <1>6, <1>7, <1>8, <1>9, QuietMoves

LEMMA UndoMoves ==
    ASSUME IInv, NEW f \in Flows, Undo(f)
    PROVE  Moved(f)
<1> USE DEF IInv
<1> DEFINE me == flow[f].to
<1>1. /\ me \in Sessions /\ status[me] # "absent" /\ proc[me] # "none" /\ Owns(f)
  BY DEF Undo, At, OwnSafe, To, Started, Owns, Owning, Unleased, Leased, Launched,
       Dropped, Stopping, AfterStop, Passing
<1>2. \/ proc' = Stopped(me) /\ Goes(f, "retract", flow[f].kind, flow[f].ok)
      \/ proc' \in {proc, Stopped(me)} /\ Left(f)
  BY StepGoes, ReturnLeaves, ThrowLeaves DEF Undo, Points, To
<1>3. /\ UNCHANGED <<worker, bound, leaseRows, saved, handoffRows, memory, tree>>
      /\ faults' \in 0..MaxFaults
      /\ ended' \subseteq Sessions /\ proven' \subseteq proven
      /\ status' = status \/ status' = [status EXCEPT ![me] = "ABNORMAL_EXIT"]
  BY <1>1, SupervisorAssumption DEF Undo, Fault, CloseAbnormal, TypeOK, LeaseTypeOK, rows, sessionRows, To
<1>4. proc' = proc \/ Finished(me)
  BY <1>1, <1>2 DEF Stopped, Finished, Working, Over, TypeOK, leaseRows, Goes, Left, Undo, CloseAbnormal, rows
<1>5. proc' = Stopped(me) => proc'[me] \in Over
  BY <1>1 DEF Stopped, Over, TypeOK
<1>6. \A t \in Sessions : /\ proc[t] # "none" => proc'[t] # "none"
                          /\ proc[t] \in Over => proc'[t] \in Over
  BY <1>4 DEF Finished, Working, Over, TypeOK
<1>7. Others(f)
  BY <1>2 DEF Goes, Left
<1>8. TypeOK'
  <2>1. proc' \in [Sessions -> {"none", "working"} \cup Over]
    BY <1>4 DEF Finished, TypeOK
  <2>2. status' \in [Sessions -> States \cup {"absent"}]
    BY <1>1, <1>3 DEF TypeOK, LeaseTypeOK, States, Failures
  <2> QED
    BY <1>3, <1>7, <2>1, <2>2 DEF TypeOK, LeaseTypeOK, Others, memory, leaseRows, handoffRows
<1>9. Books
  BY <1>1, <1>3, <1>6 DEF Books, Rooted, Started, TypeOK, LeaseTypeOK, memory, leaseRows
<1>10. Effect(f)
  BY <1>1, <1>3, <1>4 DEF Effect, Still, Holds, leaseRows
<1>11. Mine(f)
  <2>1. CASE Left(f)
    BY <2>1, <1>6, LeavingIsSafe DEF Kept, Started
  <2>2. CASE proc' = Stopped(me) /\ Goes(f, "retract", flow[f].kind, flow[f].ok)
    <3>1. status'[me] # "absent" /\ proc'[me] # "working"
      BY <2>2, <1>1, <1>3, <1>5 DEF Over, TypeOK, LeaseTypeOK
    <3>2. OwnSafe(f)' /\ Owns(f)'
      BY <2>2, <1>1, <3>1 DEF Goes, OwnSafe, To, Working, Owns, Owning, Unleased, Leased, Launched,
       Dropped, Stopping, AfterStop, Passing
    <3>3. StopSafe(f)'
      BY <2>2, <1>6 DEF Goes, StopSafe, Stopping, AfterStop, Passing, From, Started, Ended, TypeOK, Handlers
    <3> QED
      BY <2>2, <1>1, <3>2, <3>3 DEF Mine, Goes, To
  <2> QED
    BY <1>2, <2>1, <2>2
<1> QED
  BY <1>7, <1>8, <1>9, <1>10, <1>11 DEF Moved, Others

LEMMA DisownMoves ==
    ASSUME IInv, NEW f \in Flows, Disown(f)
    PROVE  Moved(f)
<1> USE DEF IInv
<1>1. Left(f)
  BY ReturnLeaves, ThrowLeaves DEF Disown, Call
<1>2. /\ UNCHANGED <<sessionRows, leaseRows, saved, giver, up, held, beating, proc>>
      /\ baton' \in [Sessions -> {"none", "PROPOSED", "ACCEPTED", "FAILED"}]
      /\ running' \subseteq running /\ tree' \subseteq tree
  BY DEF Disown, Call, FailHandoff, TypeOK, LeaseTypeOK, rows, handoffRows
<1>3. faults' \in 0..MaxFaults
  <2>1. UNCHANGED faults \/ Fault
    BY DEF Disown, Call
  <2> QED
    BY <2>1, SupervisorAssumption DEF Fault, TypeOK
<1>4. TypeOK'
  BY <1>1, <1>2, <1>3 DEF TypeOK, LeaseTypeOK, Left, Others, sessionRows, leaseRows
<1>5. Quiet
  BY <1>2 DEF Quiet, sessionRows, leaseRows
<1>6. Mine(f)
  BY <1>1, <1>2, LeavingIsSafe DEF Kept, Started
<1> QED
  BY <1>1, <1>4, <1>5, <1>6, QuietMoves DEF Left


(* Recording what became of a worker whose lease was lost.                  *)
LEMMA FailMoves ==
    ASSUME IInv, NEW f \in Flows, FailRead(f) \/ FailWrite(f)
    PROVE  Moved(f)
<1> USE DEF IInv
<1> DEFINE me == flow[f].from
<1>1. /\ me \in Sessions /\ proc[me] # "none" /\ status[me] # "absent"
      /\ flow[f].ok => proc[me] \in Over
  BY DEF FailRead, FailWrite, At, StopSafe, Stopping, From, Started, Ended, Rooted
<1>2. Left(f) \/ (flow[f].pc = "fail" /\ Goes(f, "failing", flow[f].kind, flow[f].ok))
  BY StepGoes, ReturnLeaves DEF FailRead, FailWrite, Call, Forget, Points, At
<1>3. /\ UNCHANGED <<worker, bound, leaseRows, saved, handoffRows, up, held, beating, world>>
      /\ running' \subseteq running
      /\ ended' \subseteq Sessions
      /\ status' = status \/ status' = [status EXCEPT ![me] = "ABNORMAL_EXIT"]
  BY <1>1 DEF FailRead, FailWrite, Call, Forget, CloseAbnormal, TypeOK, LeaseTypeOK, rows, sessionRows, From
<1>4. \A s \in proven' : s \in proven \/ (s = me /\ flow[f].ok)
  BY DEF FailRead, FailWrite, Call, CloseAbnormal, rows, sessionRows, From
<1>5. faults' \in 0..MaxFaults
  <2>1. UNCHANGED faults \/ Fault
    BY DEF FailRead, FailWrite, Call
  <2> QED
    BY <2>1, SupervisorAssumption DEF Fault, TypeOK
<1>6. Others(f)
  BY <1>2 DEF Goes, Left
<1>7. TypeOK'
  BY <1>1, <1>3, <1>4, <1>5, <1>6 DEF TypeOK, LeaseTypeOK, Others, world, leaseRows, handoffRows, States, Failures
<1>8. Quiet
  BY <1>1, <1>3, <1>4 DEF Quiet, world, leaseRows, Ended, TypeOK, LeaseTypeOK
<1>9. Mine(f)
  <2>1. CASE Left(f)
    BY <2>1, <1>3, LeavingIsSafe DEF Kept, Started, world
  <2>2. CASE flow[f].pc = "fail" /\ Goes(f, "failing", flow[f].kind, flow[f].ok)
    BY <2>2, <1>1, <1>3 DEF Goes, Mine, OwnSafe, StopSafe, Owns, Owning, Unleased, Leased, Launched,
       Dropped, Stopping, AfterStop, Passing, From, Kind, Started, Ended, TypeOK, Handlers, world
  <2> QED
    BY <1>2, <2>1, <2>2
<1> QED
  BY <1>6, <1>7, <1>8, <1>9, QuietMoves

-----------------------------------------------------------------------------
(* Handlers that begin, and the loops of the poll and of a shutdown: they   *)
(* look at sessions that once had a worker.                                 *)
Looks(f) ==
    /\ Others(f)
    /\ flow'[f].pc \in {"idle", "next", "fatal", "drain", "halt", "verify"}
    /\ flow'[f].pc \in {"drain", "halt"} => flow'[f].from \in Sessions /\ Started(flow'[f].from)
    /\ flow'[f].pc = "verify" => flow'[f].from \in Sessions /\ Ended(flow'[f].from)
    /\ ~flow'[f].ok
    /\ flow'[f].loop \in {"poll", "shutdown"} => \A s \in flow'[f].todo : s \in Sessions /\ Started(s)

LEMMA LookingIsSafe ==
    ASSUME IInv, NEW f \in Flows, Looks(f), Kept, \A s \in Sessions : Ended(s) => proc'[s] \in Over
    PROVE  Mine(f)
<1>1. ~Owns(f)' /\ OwnSafe(f)'
  BY DEF Looks, OwnSafe, Owns, Owning, Unleased, Leased, Launched,
       Dropped, Stopping, AfterStop, Passing
<1>2. StopSafe(f)'
  BY DEF Looks, StopSafe, Owns, Owning, Unleased, Leased, Launched,
       Dropped, Stopping, AfterStop, Passing, From, Kept, Started, Ended
<1> QED
  BY <1>1, <1>2 DEF Mine

(* A handler at rest or between two sessions knows nothing of a stop.       *)
LEMMA TodoStarted ==
    ASSUME IInv, NEW f \in Flows
    PROVE  /\ flow[f] \in Handlers
           /\ flow[f].todo \subseteq Sessions
           /\ flow[f].pc \in {"idle", "next"} => ~flow[f].ok
           /\ flow[f].loop \in {"poll", "shutdown"} => \A s \in flow[f].todo : Started(s)
  BY DEF IInv, TypeOK, Handlers, StopSafe

LEMMA BeginLooks ==
    ASSUME IInv, NEW f \in Flows, At(f, "idle"),
           NEW s \in Sessions, Started(s), NEW pc \in {"drain", "halt"}, NEW kind \in Kinds, Begin(f, pc, kind, s)
    PROVE  Looks(f)
<1> DEFINE h == [flow[f] EXCEPT !.pc = pc, !.kind = kind, !.from = s]
<1>1. flow[f] \in Handlers
  BY TodoStarted
<1>2. h \in Handlers
  BY <1>1 DEF Handlers, Points
<1>3. h.pc = pc /\ h.from = s /\ h.ok = flow[f].ok /\ h.loop = flow[f].loop /\ h.todo = flow[f].todo
  BY <1>1 DEF Handlers
<1>4. flow' = [flow EXCEPT ![f] = h]
  BY <1>1 DEF Begin, IInv, TypeOK, Handlers
<1> HIDE DEF h
<1>5. Others(f) /\ flow'[f] = h
  BY <1>2, <1>4, SetGoes DEF IInv
<1> QED
  BY <1>3, <1>5, TodoStarted DEF Looks, At

LEMMA LoopLooks ==
    ASSUME IInv, NEW f \in Flows, At(f, "idle"), NEW loop \in {"poll", "shutdown"},
           flow' = [flow EXCEPT ![f].pc = "next", ![f].loop = loop, ![f].todo = running]
    PROVE  Looks(f)
<1> DEFINE h == [flow[f] EXCEPT !.pc = "next", !.loop = loop, !.todo = running]
<1>1. flow[f] \in Handlers
  BY TodoStarted
<1>2. h \in Handlers
  BY <1>1 DEF Handlers, Points, IInv, TypeOK
<1>3. h.pc = "next" /\ h.ok = flow[f].ok /\ h.todo = running
  BY <1>1 DEF Handlers
<1>4. flow' = [flow EXCEPT ![f] = h]
  BY <1>1 DEF IInv, TypeOK, Handlers
<1> HIDE DEF h
<1>5. Others(f) /\ flow'[f] = h
  BY <1>2, <1>4, SetGoes DEF IInv
<1>6. \A s \in running : s \in Sessions /\ Started(s)
  BY DEF IInv, Rooted, TypeOK
<1> QED
  BY <1>3, <1>5, <1>6, TodoStarted DEF Looks, At

LEMMA PickLooks ==
    ASSUME IInv, NEW f \in Flows, At(f, "next"), NEW s \in flow[f].todo,
           NEW pc \in {"drain", "halt", "verify"}, NEW kind \in Kinds,
           pc = "verify" => Ended(s), pc # "verify" => flow[f].loop \in {"poll", "shutdown"},
           flow' = [flow EXCEPT ![f].pc = pc, ![f].kind = kind, ![f].from = s, ![f].todo = @ \ {s}]
    PROVE  Looks(f)
<1> DEFINE h == [flow[f] EXCEPT !.pc = pc, !.kind = kind, !.from = s, !.todo = flow[f].todo \ {s}]
<1>1. flow[f] \in Handlers /\ s \in Sessions
  BY TodoStarted
<1>2. h \in Handlers
  BY <1>1 DEF Handlers, Points
<1>3. h.pc = pc /\ h.from = s /\ h.ok = flow[f].ok /\ h.loop = flow[f].loop /\ h.todo = flow[f].todo \ {s}
  BY <1>1 DEF Handlers
<1>4. flow' = [flow EXCEPT ![f] = h]
  BY <1>1 DEF IInv, TypeOK, Handlers
<1> HIDE DEF h
<1>5. Others(f) /\ flow'[f] = h
  BY <1>2, <1>4, SetGoes DEF IInv
<1> QED
  BY <1>1, <1>3, <1>5, TodoStarted DEF Looks, At

LEMMA SkipLooks ==
    ASSUME IInv, NEW f \in Flows, At(f, "next"), NEW s, flow' = [flow EXCEPT ![f].todo = @ \ {s}]
    PROVE  Looks(f)
<1> DEFINE h == [flow[f] EXCEPT !.todo = flow[f].todo \ {s}]
<1>1. flow[f] \in Handlers
  BY TodoStarted
<1>2. h \in Handlers
  BY <1>1 DEF Handlers
<1>3. h.pc = "next" /\ h.ok = flow[f].ok /\ h.loop = flow[f].loop /\ h.todo = flow[f].todo \ {s}
  BY <1>1 DEF Handlers, At
<1>4. flow' = [flow EXCEPT ![f] = h]
  BY <1>1 DEF IInv, TypeOK, Handlers
<1> HIDE DEF h
<1>5. Others(f) /\ flow'[f] = h
  BY <1>2, <1>4, SetGoes DEF IInv
<1> QED
  BY <1>3, <1>5, TodoStarted DEF Looks, At

LEMMA LeftLooks ==
    ASSUME IInv, NEW f \in Flows, Left(f)
    PROVE  Looks(f)
<1>1. \A s \in flow'[f].todo : s \in Sessions
  BY TodoStarted DEF Left
<1>2. flow'[f].loop \in {"poll", "shutdown"} => flow[f].loop \in {"poll", "shutdown"}
  BY DEF Left
<1> QED
  BY <1>1, <1>2, TodoStarted DEF Left, Looks


LEMMA LookingMoves ==
    ASSUME IInv, NEW f \in Flows, Looks(f), UNCHANGED <<rows, running, held, world>>,
           beating' \subseteq beating, up' \in {"down", "starting", "up", "stopping"},
           faults' \in 0..MaxFaults
    PROVE  Moved(f)
<1> USE DEF IInv
<1>1. Others(f)
  BY DEF Looks
<1>2. TypeOK'
  BY <1>1 DEF TypeOK, LeaseTypeOK, Others, world, rows, sessionRows, leaseRows, handoffRows
<1>3. Quiet
  BY DEF Quiet, world, rows, sessionRows, leaseRows, handoffRows
<1>4. Mine(f)
  BY LookingIsSafe DEF Kept, Started, Ended, world
<1> QED
  BY <1>1, <1>2, <1>3, <1>4, QuietMoves

LEMMA AskMoves ==
    ASSUME IInv, NEW f \in Flows, NEW s \in Sessions,
           (\E k \in {"pass", "pause", "abort", "finish"} : Ask(f, s, k)) \/ LoseLease(f, s)
    PROVE  Moved(f)
<1>1. Looks(f)
  <2>1. ASSUME NEW k \in {"pass", "pause", "abort", "finish"}, Ask(f, s, k)
        PROVE  Looks(f)
    BY <2>1, BeginLooks DEF Ask, IInv, Rooted, Kinds
  <2>2. CASE LoseLease(f, s)
    <3>1. CASE s \in running
      BY <2>2, <3>1, BeginLooks DEF LoseLease, IInv, Rooted, Kinds
    <3>2. CASE s \notin running
      BY <2>2, <3>2, TodoStarted DEF LoseLease, Looks, Others, At, IInv, TypeOK
    <3> QED
      BY <3>1, <3>2
  <2> QED
    BY <2>1, <2>2
<1>2. /\ UNCHANGED <<rows, running, held, up, world>> /\ beating' \subseteq beating
      /\ (UNCHANGED faults \/ Fault)
  BY DEF Ask, LoseLease, memory
<1>3. up \in {"down", "starting", "up", "stopping"} /\ faults' \in 0..MaxFaults
  BY <1>2, SupervisorAssumption DEF Fault, IInv, TypeOK
<1> QED
  BY <1>1, <1>2, <1>3, LookingMoves

LEMMA LoopsMove ==
    ASSUME IInv, NEW f \in Flows, PollTick(f) \/ Shutdown(f) \/ Boot(f) \/ RecoverDone(f)
    PROVE  Moved(f)
<1>1. Looks(f)
  <2>1. CASE PollTick(f)
    BY <2>1, LoopLooks DEF PollTick
  <2>2. CASE Shutdown(f)
    BY <2>2, LoopLooks DEF Shutdown
  <2>3. CASE Boot(f)
    <3> DEFINE h == [NoFlow EXCEPT !.pc = "next", !.loop = "poll"]
    <3>1. h \in Handlers /\ h.pc = "next" /\ ~h.ok /\ h.todo = {}
      BY DEF Handlers, NoFlow, Points, Kinds
    <3>2. flow' = [flow EXCEPT ![f] = h]
      BY <2>3 DEF Boot
    <3> HIDE DEF h
    <3> QED
      BY <3>1, <3>2, SetGoes DEF Looks, IInv
  <2>4. CASE RecoverDone(f)
    <3>1. NoFlow \in Handlers /\ NoFlow.pc = "idle" /\ ~NoFlow.ok /\ NoFlow.loop = "none"
      BY DEF NoFlow, Handlers, Points, Kinds
    <3> QED
      BY <2>4, <3>1, SetGoes DEF RecoverDone, Looks, IInv
  <2> QED
    BY <2>1, <2>2, <2>3, <2>4
<1>2. /\ UNCHANGED <<rows, running, held, beating, world, faults>>
      /\ up' \in {"down", "starting", "up", "stopping"}
  BY DEF PollTick, Shutdown, Boot, RecoverDone, memory, IInv, TypeOK
<1> QED
  BY <1>1, <1>2, LookingMoves DEF IInv, TypeOK

LEMMA PollMoves ==
    ASSUME IInv, NEW f \in Flows, NEW s \in Sessions, PollOne(f, s) \/ RecoverOne(f, s) \/ ShutdownOne(f, s)
    PROVE  Moved(f)
<1> DEFINE Pick(pc, kind) ==
             flow' = [flow EXCEPT ![f].pc = pc, ![f].kind = kind, ![f].from = s, ![f].todo = @ \ {s}]
           Skip == flow' = [flow EXCEPT ![f].todo = @ \ {s}]
<1>1. At(f, "next") /\ s \in flow[f].todo
  BY DEF PollOne, RecoverOne, ShutdownOne
<1>2. Looks(f)
  <2>1. CASE PollOne(f, s)
    <3>1. flow[f].loop = "poll" /\ (Pick("drain", "finish") \/ Pick("drain", "pass") \/ Skip \/ Throw(f))
      BY <2>1 DEF PollOne
    <3> QED
      BY <1>1, <3>1, PickLooks, SkipLooks, ThrowLeaves, LeftLooks DEF IInv, Kinds
  <2>2. CASE RecoverOne(f, s)
    <3>1. (StopConfirmed(s) /\ Pick("verify", "recover")) \/ Skip
      BY <2>2 DEF RecoverOne
    <3>2. StopConfirmed(s) => Ended(s)
      BY DEF StopConfirmed, IInv, Rooted, Ended
    <3> QED
      BY <1>1, <3>1, <3>2, PickLooks, SkipLooks DEF Kinds
  <2>3. CASE ShutdownOne(f, s)
    BY <1>1, <2>3, PickLooks DEF ShutdownOne, Kinds
  <2> QED
    BY <2>1, <2>2, <2>3
<1>3. UNCHANGED <<rows, memory, world>> /\ (UNCHANGED faults \/ Fault)
  BY DEF PollOne, RecoverOne, ShutdownOne
<1>4. up \in {"down", "starting", "up", "stopping"} /\ faults' \in 0..MaxFaults
  BY <1>3, SupervisorAssumption DEF Fault, IInv, TypeOK
<1> QED
  BY <1>2, <1>3, <1>4, LookingMoves DEF memory

-----------------------------------------------------------------------------
(* Recovery: stale leases are frozen, and reclaimed from workers that ended. *)
LEMMA FreezeMoves ==
    ASSUME IInv, NEW f \in Flows, Freeze(f)
    PROVE  Moved(f)
<1> USE DEF IInv
<1>1. UNCHANGED rows \/ FreezeStaleLeases
  BY DEF Freeze, Call
<1>2. Looks(f)
  <2>1. \/ flow' = [flow EXCEPT ![f].loop = "recover", ![f].todo = {s \in Sessions : lease'[s] = "FROZEN"}]
        \/ Throw(f)
    BY DEF Freeze, Call
  <2>2. CASE flow' = [flow EXCEPT ![f].loop = "recover", ![f].todo = {s \in Sessions : lease'[s] = "FROZEN"}]
    <3> DEFINE h == [flow[f] EXCEPT !.loop = "recover", !.todo = {s \in Sessions : lease'[s] = "FROZEN"}]
    <3>1. flow[f] \in Handlers /\ flow[f].pc = "next" /\ ~flow[f].ok
      BY TodoStarted DEF Freeze, At
    <3>2. h \in Handlers /\ h.pc = "next" /\ ~h.ok /\ h.loop = "recover"
      BY <3>1 DEF Handlers
    <3>3. flow' = [flow EXCEPT ![f] = h]
      BY <2>2, <3>1 DEF TypeOK, Handlers
    <3> HIDE DEF h
    <3>4. Others(f) /\ flow'[f] = h
      BY <3>2, <3>3, SetGoes
    <3> QED
      BY <3>2, <3>4 DEF Looks
  <2>3. CASE Throw(f)
    BY <2>3, ThrowLeaves, LeftLooks
  <2> QED
    BY <2>1, <2>2, <2>3
<1>3. /\ UNCHANGED <<up, running, world>> /\ held' \subseteq held /\ beating' \subseteq beating
      /\ (UNCHANGED faults \/ Fault)
  BY DEF Freeze, Call
<1>4. faults' \in 0..MaxFaults
  BY <1>3, SupervisorAssumption DEF Fault, TypeOK
<1>5. Others(f)
  BY <1>2 DEF Looks
<1>6. /\ lease' \in [Sessions -> {"none", "ACTIVE", "RELEASED", "FROZEN", "RECLAIMED"}]
      /\ \A s \in Sessions : lease'[s] = lease[s] \/ (lease[s] = "ACTIVE" /\ lease'[s] = "FROZEN")
      /\ \A s \in expired' : s \in Sessions /\ lease'[s] = "ACTIVE"
  BY <1>1 DEF FreezeStaleLeases, Stale, Rooted, TypeOK, LeaseTypeOK, rows, sessionRows, leaseRows, handoffRows
<1>7. /\ status' \in [Sessions -> States \cup {"absent"}]
      /\ \A s \in Sessions : status'[s] = "absent" => status[s] = "absent"
  BY <1>1 DEF FreezeStaleLeases, States, Failures, TypeOK, LeaseTypeOK, rows, sessionRows, leaseRows, handoffRows
<1>8. /\ UNCHANGED <<worker, bound, saved, handoffRows>>
      /\ ended' \subseteq Sessions /\ proven' \subseteq proven
  BY <1>1 DEF FreezeStaleLeases, TypeOK, LeaseTypeOK, rows, sessionRows, leaseRows, handoffRows
<1>9. TypeOK'
  BY <1>3, <1>4, <1>5, <1>6, <1>7, <1>8 DEF TypeOK, LeaseTypeOK, Others, handoffRows, world
<1>10. Effect(f)
  BY <1>3, <1>6 DEF Effect, Still, Holds, world
<1>11. Books
  BY <1>3, <1>6, <1>7, <1>8 DEF Books, Rooted, TypeOK, LeaseTypeOK, world
<1>12. Mine(f)
  BY <1>2, <1>3, LookingIsSafe DEF Kept, Started, Ended, world
<1> QED
  BY <1>5, <1>9, <1>10, <1>11, <1>12 DEF Moved, Others

LEMMA VerifyMoves ==
    ASSUME IInv, NEW f \in Flows, Verify(f)
    PROVE  Moved(f)
<1> USE DEF IInv
<1>1. Left(f) \/ Goes(f, "reclaim", flow[f].kind, flow[f].ok)
  BY StepGoes, ReturnLeaves, ThrowLeaves DEF Verify, Points
<1>2. UNCHANGED <<rows, memory, proc, faults>> /\ tree' \subseteq tree
  BY DEF Verify
<1>3. Others(f)
  BY <1>1 DEF Goes, Left
<1>4. TypeOK'
  BY <1>2, <1>3 DEF TypeOK, LeaseTypeOK, Others, memory, rows, sessionRows, leaseRows, handoffRows
<1>5. Quiet
  BY <1>2 DEF Quiet, memory, rows, sessionRows, leaseRows, handoffRows
<1>6. Mine(f)
  BY <1>1, <1>2, WindingIsSafe, LeavingIsSafe DEF Kept, Started, Verify, At, AfterStop, Winding
<1> QED
  BY <1>3, <1>4, <1>5, <1>6, QuietMoves

LEMMA ReclaimMoves ==
    ASSUME IInv, NEW f \in Flows, Reclaim(f)
    PROVE  Moved(f)
<1> USE DEF IInv
<1> DEFINE me == flow[f].from
<1>1. me \in Sessions /\ proc[me] \in Over /\ flow[f].pc \in AfterStop
  BY DEF Reclaim, At, AfterStop, StopSafe, From, Ended
<1>2. Left(f) \/ Goes(f, "choose", flow[f].kind, flow[f].ok)
  BY StepGoes, ThrowLeaves DEF Reclaim, Call, Points
<1>3. UNCHANGED <<memory, world>> /\ (UNCHANGED faults \/ Fault)
  BY DEF Reclaim, Call
<1>4. faults' \in 0..MaxFaults
  BY <1>3, SupervisorAssumption DEF Fault, TypeOK
<1>5. UNCHANGED rows \/ (MayReclaim(me) /\ ReclaimLease(me))
  BY DEF Reclaim, Call, From
<1>6. Others(f)
  BY <1>2 DEF Goes, Left
<1>7. UNCHANGED rows \/ LetGoOf(me)
  BY <1>1, <1>3, <1>5 DEF MayReclaim, ReclaimLease, LetGoOf, Holds, Working, Over, world
<1>8. TypeOK'
  BY <1>1, <1>3, <1>4, <1>5, <1>6 DEF TypeOK, LeaseTypeOK, Others, ReclaimLease, memory, world, rows, sessionRows, leaseRows, handoffRows
<1>9. Effect(f)
  BY <1>1, <1>3, <1>7 DEF Effect, Still, Holds, Ended, world, rows, sessionRows, leaseRows, handoffRows
<1>10. Books
  BY <1>1, <1>3, <1>5 DEF Books, Rooted, MayReclaim, ReclaimLease, TypeOK, LeaseTypeOK, memory, world, rows, sessionRows, leaseRows, handoffRows
<1>11. Mine(f)
  BY <1>1, <1>2, <1>3, WindingIsSafe, LeavingIsSafe DEF Kept, Started, Winding, world
<1> QED
  BY <1>6, <1>8, <1>9, <1>10, <1>11 DEF Moved, Others


-----------------------------------------------------------------------------
(* The world, and the end of the process.                                   *)
LEMMA WorldMoves ==
    ASSUME IInv, NEW s \in Sessions, WorkerEnds(s) \/ LeaseExpires(s)
    PROVE  Moved(None)
<1> USE DEF IInv
<1>1. None \notin Flows
  BY SupervisorAssumption
<1>2. CASE WorkerEnds(s)
  <2>1. /\ UNCHANGED <<rows, memory, flow, tree, faults>>
        /\ proc[s] = "working" /\ \E end \in Over : proc' = [proc EXCEPT ![s] = end]
    BY <1>2 DEF WorkerEnds
  <2>2. TypeOK'
    BY <2>1 DEF TypeOK, LeaseTypeOK, memory, rows, sessionRows, leaseRows, handoffRows
  <2>3. Finished(s)
    BY <2>1 DEF Finished, Working, rows, sessionRows, leaseRows, handoffRows
  <2>4. Books
    BY <2>1 DEF Books, Rooted, TypeOK, Over, memory, rows, sessionRows, leaseRows, handoffRows
  <2> QED
    BY <1>1, <2>1, <2>2, <2>3, <2>4 DEF Moved, Effect
<1>3. CASE LeaseExpires(s)
  <2>1. /\ UNCHANGED <<memory, flow, world, faults, sessionRows, lease, saved, handoffRows>>
        /\ lease[s] = "ACTIVE" /\ expired' = expired \cup {s}
    BY <1>3 DEF LeaseExpires, Expire, Live
  <2>2. TypeOK'
    BY <2>1 DEF TypeOK, LeaseTypeOK, memory, world, sessionRows, handoffRows
  <2>3. Still /\ Books
    BY <2>1 DEF Still, Books, Holds, Rooted, memory, world, sessionRows
  <2> QED
    BY <1>1, <2>1, <2>2, <2>3 DEF Moved, Effect
<1> QED
  BY <1>2, <1>3

LEMMA DeathKeepsInvariant ==
    ASSUME IInv, Die, faults' \in 0..MaxFaults
    PROVE  IInv'
<1> USE DEF IInv, Die
<1>1. TypeOK'
  BY DEF TypeOK, LeaseTypeOK, world, rows, sessionRows, leaseRows, handoffRows, NoFlow, Handlers, Points, Kinds
<1>2. OneHolder' /\ WriterHoldsBranch' /\ Rooted'
  BY DEF OneHolder, WriterHoldsBranch, Rooted, Holds, Working, Started, Ended, world, rows, sessionRows, leaseRows, handoffRows
<1>3. \A f \in Flows : ~Owns(f)' /\ OwnSafe(f)' /\ StopSafe(f)'
  BY DEF NoFlow, OwnSafe, StopSafe, Owns, Owning, Unleased, Leased, Launched,
       Dropped, Stopping, AfterStop, Passing
<1> QED
  BY <1>1, <1>2, <1>3 DEF Owned

-----------------------------------------------------------------------------
LEMMA InitInvariant == Init => IInv
<1> SUFFICES ASSUME Init PROVE IInv
  OBVIOUS
<1>1. TypeOK
  BY SupervisorAssumption DEF Init, LeaseInit, TypeOK, LeaseTypeOK, NoFlow, Handlers, Points, Kinds
<1>2. OneHolder /\ WriterHoldsBranch /\ Rooted
  BY DEF Init, LeaseInit, OneHolder, WriterHoldsBranch, Rooted, Holds, Working, Started
<1>3. \A f \in Flows : ~Owns(f) /\ OwnSafe(f) /\ StopSafe(f)
  BY DEF Init, NoFlow, OwnSafe, StopSafe, Owns, Owning, Unleased, Leased, Launched,
       Dropped, Stopping, AfterStop, Passing
<1> QED
  BY <1>1, <1>2, <1>3 DEF IInv, Owned

(* A step of a handler has the shape that keeps the invariant, unless it    *)
(* ends the process.                                                        *)
LEMMA FlowMoves ==
    ASSUME IInv, NEW f \in Flows, FlowStep(f)
    PROVE  Moved(f) \/ (ShutdownDone(f) /\ Die)
<1>1. CASE GiveUp(f)
  BY <1>1, ReadMoves, WriteMoves, StopMoves, WindingMoves, YieldMoves DEF GiveUp
<1>2. CASE TakeOver(f)
  BY <1>2, CreationMoves, OnwardMoves, ReleaseMoves, AcquireMoves, LaunchMoves, BindMoves, UndoMoves,
     RetractMoves, DisownMoves DEF TakeOver
<1>3. CASE Lose(f)
  BY <1>3, StopMoves, FailMoves DEF Lose
<1>4. CASE Freeze(f) \/ Verify(f) \/ Reclaim(f)
  BY <1>4, FreezeMoves, VerifyMoves, ReclaimMoves
<1>5. CASE RecoverDone(f)
  BY <1>5, LoopsMove
<1>6. CASE \E s \in Sessions : PollOne(f, s) \/ RecoverOne(f, s) \/ ShutdownOne(f, s)
  BY <1>6, PollMoves
<1>7. CASE ShutdownDone(f)
  BY <1>7 DEF ShutdownDone
<1> QED
  BY <1>1, <1>2, <1>3, <1>4, <1>5, <1>6, <1>7 DEF FlowStep, Recover

Ends == Die /\ faults' \in 0..MaxFaults

LEMMA NextMoves ==
    ASSUME IInv, Next
    PROVE  (\E f \in Flows \cup {None} : Moved(f)) \/ Ends
<1>1. ASSUME NEW f \in Flows, FlowStep(f)
      PROVE  Moved(f) \/ Ends
  BY <1>1, FlowMoves DEF Ends, ShutdownDone, IInv, TypeOK
<1>2. ASSUME NEW f \in Flows, Request(f) \/ PollTick(f) \/ Shutdown(f) \/ Boot(f)
      PROVE  Moved(f)
  <2>1. CASE StartTask(f) \/ \E s \in Sessions : Resume(f, s)
    BY <2>1, CreationMoves
  <2>2. CASE PollTick(f) \/ Shutdown(f) \/ Boot(f)
    BY <2>2, LoopsMove
  <2>3. CASE \E s \in Sessions, k \in {"pass", "pause", "abort", "finish"} : Ask(f, s, k)
    BY <2>3, AskMoves
  <2> QED
    BY <1>2, <2>1, <2>2, <2>3 DEF Request
<1>3. ASSUME NEW f \in Flows, NEW s \in Sessions, LoseLease(f, s)
      PROVE  Moved(f)
  BY <1>3, AskMoves
<1>4. ASSUME NEW s \in Sessions, WorkerEnds(s) \/ LeaseExpires(s)
      PROVE  Moved(None)
  BY <1>4, WorldMoves
<1>5. CASE Crash \/ Exit
  BY <1>5, SupervisorAssumption DEF Crash, Exit, Ends, Fault, IInv, TypeOK
<1> QED
  BY <1>1, <1>2, <1>3, <1>4, <1>5 DEF Next

LEMMA NextInvariant == IInv /\ [Next]_vars => IInv'
<1> SUFFICES ASSUME IInv, [Next]_vars PROVE IInv'
  OBVIOUS
<1>1. CASE Next
  BY <1>1, NextMoves, MovedKeepsInvariant, DeathKeepsInvariant DEF Ends
<1>2. CASE UNCHANGED vars
  BY <1>2 DEF vars, memory, world, rows, sessionRows, leaseRows, handoffRows, IInv, TypeOK, LeaseTypeOK, OneHolder,
     WriterHoldsBranch, Rooted, Owned, OwnSafe, StopSafe, Holds, Working, Started, Ended, Owns, To, From, Kind
<1> QED
  BY <1>1, <1>2

(* The invariant of the Supervisor: a new session belongs to the handler    *)
(* that created it, and whoever lets go of a lease does so after the stop.  *)
THEOREM SupervisorInvariant == Spec => []IInv
  BY InitInvariant, NextInvariant, PTL DEF Spec

(* The type invariant of the Supervisor, for any number of sessions,        *)
(* workers and handlers in progress.                                        *)
THEOREM TypeCorrect == Spec => []TypeOK
<1>1. IInv => TypeOK
  BY DEF IInv
<1> QED
  BY <1>1, SupervisorInvariant, PTL

(* Exactly one worker may write to the branch at a time (the unique index   *)
(* coding_leases_one_writer and the Supervisor's order of calls).           *)
THEOREM WritersExclude == Spec => []OneWriter
<1>1. IInv => OneWriter
  BY DEF IInv, OneWriter, WriterHoldsBranch, OneHolder
<1> QED
  BY <1>1, SupervisorInvariant, PTL

(* A worker that may still write keeps the branch taken: no failed call,    *)
(* crash or recovery lets go of its lease (recoverStale, LeaseManager).     *)
THEOREM WritersKeepTheLease == Spec => []WriterHoldsBranch
<1>1. IInv => WriterHoldsBranch
  BY DEF IInv
<1> QED
  BY <1>1, SupervisorInvariant, PTL

(* Wherever LEASE_LOST_STOP_CONFIRMED is written, the worker did stop       *)
(* (failSession, onLeaseLost, drainForShutdown).                            *)
THEOREM ProofsOfStop == Spec => []ProvenIsStopped
<1>1. IInv => ProvenIsStopped
  BY DEF IInv, Rooted, ProvenIsStopped, Ended, Working, Over
<1> QED
  BY <1>1, SupervisorInvariant, PTL


-----------------------------------------------------------------------------
(* The baton: what the handlers do to the branch, without the handlers.     *)
HolderIs ==
    /\ \A s \in Sessions : Holds(s) => Holder = s
    /\ (\A s \in Sessions : ~Holds(s)) => Holder = None

LEMMA HolderHolds == OneHolder => HolderIs
  BY DEF OneHolder, Holder, HolderIs

LEMMA EffectIsBaton ==
    ASSUME IInv, IInv', NEW f, Effect(f)
    PROVE  [B!BatonNext]_(B!baton)
<1> DEFINE writing == {s \in Sessions : Working(s)}
<1>1. /\ \A s \in Sessions : Holds(s) => Holder = s
      /\ (\A s \in Sessions : ~Holds(s)) => Holder = None
  BY HolderHolds DEF IInv, HolderIs
<1>2. /\ \A s \in Sessions : Holds(s)' => Holder' = s
      /\ (\A s \in Sessions : ~Holds(s)') => Holder' = None
  <2>1. HolderIs'
    <3>1. OneHolder'
      BY DEF IInv
    <3> QED
      BY <3>1, HolderHolds, PTL
  <2> QED
    BY <2>1 DEF HolderIs
<1>3. /\ lease \in [Sessions -> {"none", "ACTIVE", "RELEASED", "FROZEN", "RECLAIMED"}]
      /\ lease' \in [Sessions -> {"none", "ACTIVE", "RELEASED", "FROZEN", "RECLAIMED"}]
      /\ proc \in [Sessions -> {"none", "working"} \cup Over]
      /\ proc' \in [Sessions -> {"none", "working"} \cup Over]
  BY DEF IInv, TypeOK, LeaseTypeOK
<1>4. \A s \in Sessions : Working(s) => Holds(s)
  BY DEF IInv, WriterHoldsBranch
<1>5. CASE Still
  <2>1. Holder' = Holder
    BY <1>1, <1>2, <1>5 DEF Still
  <2>2. writing' = writing /\ Spent' = Spent
    BY <1>3, <1>5 DEF Still, Working, Spent, Holds
  <2> QED
    BY <2>1, <2>2 DEF B!baton
<1>6. ASSUME NEW s \in Sessions, Finished(s)
      PROVE  B!Stop(s)
  <2>1. Holder' = Holder
    BY <1>1, <1>2, <1>6 DEF Finished, Holds
  <2>2. writing' = writing \ {s} /\ Spent' = Spent \cup {s} /\ s \in writing
    BY <1>3, <1>6 DEF Finished, Working, Spent, Over
  <2> QED
    BY <2>1, <2>2 DEF B!Stop
<1>7. ASSUME NEW s \in Sessions, LetGoOf(s)
      PROVE  B!LetGo(s)
  <2>1. Holder = s /\ Holder' = None
    BY <1>1, <1>2, <1>3, <1>7 DEF LetGoOf, Holds, IInv, OneHolder
  <2>2. writing = {} /\ writing' = {} /\ Spent' = Spent \cup {s}
    BY <1>1, <1>3, <1>4, <1>7, <2>1 DEF LetGoOf, Working, Spent, Holds
  <2> QED
    BY <2>1, <2>2 DEF B!LetGo
<1>8. ASSUME NEW s \in Sessions, Took(s)
      PROVE  B!Take(s)
  <2>1. Holder = None /\ Holder' = s
    BY <1>1, <1>2, <1>3, <1>8 DEF Took, Holds
  <2>2. writing' = writing /\ Spent' = Spent /\ s \notin Spent
    BY <1>3, <1>8 DEF Took, Working, Spent, Started, Over
  <2> QED
    BY <2>1, <2>2 DEF B!Take
<1>9. ASSUME NEW s \in Sessions, Began(s)
      PROVE  B!Write(s)
  <2>1. Holder = s /\ Holder' = s
    BY <1>1, <1>2, <1>9 DEF Began, Holds
  <2>2. writing = {} /\ writing' = {s} /\ Spent' = Spent /\ s \notin Spent
    BY <1>1, <1>3, <1>4, <1>9, <2>1 DEF Began, Working, Spent, Started, Holds, Over
  <2> QED
    BY <2>1, <2>2 DEF B!Write
<1>10. f \in Flows /\ Owns(f) => To(f) \in Sessions
  BY DEF IInv, OwnSafe
<1> QED
  BY <1>5, <1>6, <1>7, <1>8, <1>9, <1>10 DEF Effect, B!BatonNext

(* Every behaviour of the Supervisor, with its overlapping handlers, failed *)
(* calls and crashes, is a behaviour of the baton: the branch changes hands *)
(* only when nobody writes to it.                                           *)
THEOREM SupervisorImplementsBaton == Spec => ImplementsBaton
<1>1. Init => B!BatonInit
  <2> SUFFICES ASSUME Init PROVE B!BatonInit
    OBVIOUS
  <2>1. IInv /\ \A s \in Sessions : lease[s] = "none" /\ proc[s] = "none"
    BY InitInvariant DEF Init, LeaseInit
  <2>2. Holder = None
    BY <2>1, HolderHolds DEF IInv, Holds, HolderIs
  <2> QED
    BY <2>1, <2>2 DEF B!BatonInit, Working, Spent, Over
<1>2. IInv /\ IInv' /\ [Next]_vars => [B!BatonNext]_(B!baton)
  <2> SUFFICES ASSUME IInv, IInv', [Next]_vars PROVE [B!BatonNext]_(B!baton)
    OBVIOUS
  <2>1. ASSUME UNCHANGED <<lease, proc>>
        PROVE  UNCHANGED B!baton
    BY <2>1 DEF B!baton, Holder, Spent, Working, Holds
  <2>2. CASE UNCHANGED vars \/ Ends
    BY <2>1, <2>2 DEF vars, Ends, Die, world, rows, leaseRows
  <2>3. CASE Next /\ ~Ends
    BY <2>3, NextMoves, EffectIsBaton DEF Moved
  <2> QED
    BY <2>2, <2>3
<1> QED
  BY <1>1, <1>2, SupervisorInvariant, PTL DEF Spec, ImplementsBaton, B!BatonSpec



(***************************************************************************)
(* What a session leaves behind: whoever is offered a branch, is given it  *)
(* or is told that it is finished finds the checkpoint, the stopped worker *)
(* and the published work that go with it.                                 *)
(***************************************************************************)

(* A session that has nothing more to do with the branch: its worker ended, *)
(* or it let go of the branch and never gets it again.                      *)
Gone(s)    == Ended(s) \/ lease[s] \in {"RELEASED", "RECLAIMED"}
Retired(s) == s \in Sessions /\ s \in saved /\ Gone(s)

Published(s) == Managed(s) => s \notin tree

Offered ==
    \A s \in Sessions : status[s] = "HANDOFF_READY" => s \in saved /\ lease[s] = "RELEASED"

Completed ==
    \A s \in Sessions :
        status[s] = "COMPLETED" => Ended(s) /\ lease[s] = "RELEASED" /\ Published(s)

Given == \A t \in Sessions : baton[t] # "none" => Retired(giver[t])

(* What a handler knows of the session it takes the branch from, of the     *)
(* handoff it proposed, and of the branch it is about to complete.          *)
Recovering == {"verify", "reclaim"}
Late       == Owning \ {"prepare", "propose"}

Knows(f) ==
    /\ flow[f].pc \in Recovering => Kind(f) = "recover"
    /\ flow[f].pc = "choose" => Kind(f) \in {"pass", "recover"}
    /\ flow[f].pc \in Recovering \cup {"choose"} => From(f) \in Sessions /\ Ended(From(f))
    /\ flow[f].pc \in Owning => Kind(f) \in {"start", "pass", "recover", "resume"}
    /\ flow[f].pc \in {"prepare", "propose"} /\ Kind(f) # "start"
         => From(f) \in Sessions /\ Gone(From(f))
    /\ flow[f].pc = "propose" => Kind(f) # "start"
    /\ flow[f].pc \in Late /\ Kind(f) # "start" => baton[To(f)] # "none"
    /\ flow[f].pc \in {"save", "yield"} /\ Kind(f) = "finish" => Published(From(f))

HInv == Offered /\ Completed /\ Given /\ \A f \in Flows : Knows(f)

-----------------------------------------------------------------------------
(* What every step keeps of the rows, of the worktrees, and of the handler  *)
(* that takes it.                                                           *)
Lasting == \A s \in Sessions : Ended(s) => Ended(s)'

Honest ==
    /\ saved \subseteq saved'
    /\ \A s \in Sessions :
         /\ lease[s] \in {"RELEASED", "RECLAIMED"} => lease'[s] = lease[s]
         /\ status'[s] = "HANDOFF_READY"
              => status[s] = "HANDOFF_READY" \/ (s \in saved' /\ lease'[s] = "RELEASED")
         /\ status'[s] = "COMPLETED"
              => status[s] = "COMPLETED" \/ (Ended(s) /\ lease'[s] = "RELEASED" /\ Published(s))
         /\ baton'[s] # "none"
              => (baton[s] # "none" /\ giver'[s] = giver[s]) \/ Retired(giver'[s])
         /\ baton[s] # "none" => baton'[s] # "none"
         /\ Started(s) => worker'[s] = worker[s]

Tidy == \A s \in Sessions : Started(s) /\ s \in tree' => s \in tree

Careful(f) == Honest /\ Tidy /\ (f \in Flows => Knows(f)')

LEMMA EndsLast ==
    ASSUME IInv, NEW f, Moved(f)
    PROVE  Lasting
  BY DEF Lasting, Moved, Effect, Still, Took, Began, Finished, LetGoOf, Ended, Started, Working, Over,
         IInv, TypeOK

(* What a handler knows stays true while others move, and so does what the  *)
(* rows say.                                                                *)
LEMMA CarefulKeeps ==
    ASSUME IInv, HInv, NEW f, Moved(f), Careful(f)
    PROVE  HInv'
<1>1. Lasting /\ Honest /\ Tidy
  BY EndsLast DEF Careful
<1>2. \A s \in Sessions : Ended(s) => Started(s)
  BY DEF Ended, Started, Over
<1>3. \A s \in Sessions : Started(s) /\ Published(s) => Published(s)'
  BY <1>1 DEF Honest, Tidy, Published, Managed
<1>4. \A s \in Sessions : Gone(s) => Gone(s)'
  BY <1>1 DEF Lasting, Honest, Gone
<1>5. Offered'
  BY <1>1 DEF Honest, Offered, HInv
<1>6. Completed'
  BY <1>1, <1>2, <1>3 DEF Honest, Lasting, Completed, HInv
<1>7. Given'
  <2>1. \A s : Retired(s) => s \in Sessions /\ s \in saved' /\ Gone(s)'
    BY <1>1, <1>4 DEF Retired, Honest
  <2> QED
    BY <1>1, <2>1 DEF Honest, Given, Retired, Gone, Ended, HInv
<1>8. ASSUME NEW g \in Flows, g # f
      PROVE  Knows(g)'
  <2>1. flow'[g] = flow[g]
    BY <1>8 DEF Moved
  <2>2. flow[g].pc \in Late => flow[g].to \in Sessions
    BY DEF IInv, OwnSafe, Owns, Late, To
  <2>3. flow[g].pc \in {"save", "yield"} => flow[g].from \in Sessions /\ Started(flow[g].from)
    BY <1>2 DEF IInv, StopSafe, AfterStop, From
  <2>4. \A s \in Sessions : Ended(s) => proc'[s] \in Over
    BY <1>1 DEF Lasting, Ended
  <2>5. \A s \in Sessions : Gone(s) => proc'[s] \in Over \/ lease'[s] \in {"RELEASED", "RECLAIMED"}
    BY <1>4 DEF Gone, Ended
  <2>6. \A s \in Sessions : baton[s] # "none" => baton'[s] # "none"
    BY <1>1 DEF Honest
  <2>7. \A s \in Sessions : Started(s) /\ Published(s) => (worker'[s] \notin Native => s \notin tree')
    BY <1>3 DEF Published, Managed
  <2>8. Knows(g)
    BY DEF HInv
  <2> QED
    BY <2>1, <2>2, <2>3, <2>4, <2>5, <2>6, <2>7, <2>8
    DEF Knows, From, To, Kind, Ended, Gone, Published, Managed
<1> QED
  BY <1>5, <1>6, <1>7, <1>8 DEF HInv, Careful

-----------------------------------------------------------------------------
(* The database functions, one by one.                                      *)
LEMMA SameRows ==
    ASSUME UNCHANGED rows
    PROVE  Honest
  BY DEF Honest, rows, sessionRows, leaseRows, handoffRows

LEMMA StatusHonest ==
    ASSUME IInv, NEW s \in Sessions, NEW to \in {"DRAINING", "CHECKPOINTING", "ACQUIRING"}, SetStatus(s, to)
    PROVE  Honest
  BY DEF SetStatus, Honest, leaseRows, handoffRows, IInv, TypeOK, LeaseTypeOK

LEMMA CloseHonest ==
    ASSUME IInv, NEW s \in Sessions, NEW confirmed, CloseAbnormal(s, confirmed)
    PROVE  Honest
  BY DEF CloseAbnormal, Honest, leaseRows, handoffRows, IInv, TypeOK, LeaseTypeOK

LEMMA SaveHonest ==
    ASSUME NEW s \in Sessions, SaveCheckpoint(s)
    PROVE  Honest
  BY DEF SaveCheckpoint, Honest, sessionRows, leaseRows, handoffRows

LEMMA BindHonest ==
    ASSUME NEW s \in Sessions, BindNative(s)
    PROVE  Honest
  BY DEF BindNative, Honest, leaseRows, handoffRows

LEMMA ReleaseHonest ==
    ASSUME IInv, NEW s \in Sessions, NEW final, MayRelease(s), ReleaseLease(s, final),
           final = "COMPLETED" => Ended(s) /\ Published(s)
    PROVE  Honest
  BY DEF MayRelease, ReleaseLease, Honest, handoffRows, IInv, TypeOK, LeaseTypeOK

(* Only a session without a row gets one, and a lease only one that has     *)
(* none.                                                                    *)
LEMMA CreateHonest ==
    ASSUME IInv, NEW s \in Sessions, NEW w, Fresh(s), CreateSession(s, w)
    PROVE  Honest
  BY DEF Fresh, CreateSession, Honest, leaseRows, handoffRows, IInv, Rooted, TypeOK, LeaseTypeOK

LEMMA AcquireHonest ==
    ASSUME IInv, NEW s \in Sessions, lease[s] = "none", AcquireLease(s)
    PROVE  Honest
  BY DEF AcquireLease, Honest, handoffRows, IInv, TypeOK, LeaseTypeOK

LEMMA ReclaimHonest ==
    ASSUME IInv, NEW s \in Sessions, MayReclaim(s), ReclaimLease(s)
    PROVE  Honest
  BY DEF MayReclaim, ReclaimLease, Honest, sessionRows, handoffRows, IInv, TypeOK, LeaseTypeOK

LEMMA FreezeHonest ==
    ASSUME IInv, FreezeStaleLeases
    PROVE  Honest
  BY DEF FreezeStaleLeases, Stale, Honest, handoffRows, IInv, Rooted

LEMMA ProposeHonest ==
    ASSUME IInv, NEW s, NEW t \in Sessions, Retired(s), ProposeHandoff(s, t)
    PROVE  Honest /\ baton'[t] # "none"
  BY DEF ProposeHandoff, Honest, sessionRows, leaseRows, IInv, TypeOK, LeaseTypeOK

LEMMA AnswerHonest ==
    ASSUME IInv, NEW t \in Sessions, baton[t] # "none", AcceptHandoff(t) \/ FailHandoff(t)
    PROVE  Honest
  BY DEF AcceptHandoff, FailHandoff, Honest, sessionRows, leaseRows, IInv, TypeOK, LeaseTypeOK

-----------------------------------------------------------------------------
(* A handler has only something to know at these points.                    *)
Watched == Owning \cup Recovering \cup {"choose", "save", "yield"}

LEMMA Carefree ==
    ASSUME NEW f, flow'[f].pc \notin Watched
    PROVE  Knows(f)'
  BY DEF Knows, Watched, Owning, Unleased, Late, Recovering

LEMMA LeavesCarefree ==
    ASSUME NEW f, Left(f)
    PROVE  Knows(f)'
  BY Carefree DEF Left, Watched, Owning, Unleased, Leased, Launched, Dropped, Recovering

(* A handler past the handoff it proposed.                                  *)
LEMMA StaysLate ==
    ASSUME IInv, HInv, NEW f \in Flows, Honest, flow[f].pc \in Late,
           NEW pc \in Late, NEW ok, Goes(f, pc, flow[f].kind, ok)
    PROVE  Knows(f)'
<1>1. flow[f].to \in Sessions
  BY DEF IInv, OwnSafe, Owns, Late, To
<1>2. /\ flow[f].kind \in {"start", "pass", "recover", "resume"}
      /\ flow[f].kind # "start" => baton[flow[f].to] # "none"
  BY DEF HInv, Knows, Late, Kind, To
<1>3. flow'[f].kind # "start" => baton'[flow'[f].to] # "none"
  BY <1>1, <1>2 DEF Goes, Honest
<1>4. pc \notin {"verify", "reclaim", "choose", "prepare", "propose", "save", "yield"}
  BY DEF Late, Owning, Unleased, Leased, Launched, Dropped
<1> QED
  BY <1>2, <1>3, <1>4 DEF Goes, Knows, Kind, To, Recovering

-----------------------------------------------------------------------------
(* Giving up the branch.                                                    *)
LEMMA StopCareful ==
    ASSUME IInv, HInv, NEW f \in Flows,
           \/ Drain(f) \/ Draining(f) \/ StopWorker(f) \/ Checkpoint(f) \/ Gates(f) \/ Interrupt(f)
           \/ Condemn(f) \/ Halt(f) \/ FailRead(f) \/ FailWrite(f)
    PROVE  Careful(f)
<1> USE DEF IInv
<1>1. From(f) \in Sessions \/ Gates(f) \/ Interrupt(f)
  BY DEF StopSafe, Stopping, AfterStop, At, Drain, Draining, StopWorker, Checkpoint, ReadMove, WriteMove,
         Condemn, Halt, FailRead, FailWrite
<1>2. Honest
  <2>1. CASE Draining(f)
    BY <1>1, <2>1, SameRows, StatusHonest DEF Draining, WriteMove, Call, Gates, Interrupt, At
  <2>2. CASE Condemn(f) \/ FailWrite(f)
    BY <1>1, <2>2, SameRows, CloseHonest DEF Condemn, FailWrite, Call, Gates, Interrupt, At
  <2>3. CASE UNCHANGED rows
    BY <2>3, SameRows
  <2> QED
    BY <2>1, <2>2, <2>3 DEF Drain, ReadMove, StopWorker, Checkpoint, Gates, Interrupt, Halt, FailRead
<1>3. Tidy
  BY DEF Tidy, Drain, Draining, ReadMove, WriteMove, StopWorker, Checkpoint, Gates, Interrupt, Condemn,
         Halt, FailRead, FailWrite, world
<1>4. \/ Left(f)
      \/ \E pc \in {"draining", "stop", "checkpoint", "checkpointing", "transfer", "fail", "failing"} : \E ok :
           Goes(f, pc, flow[f].kind, ok)
  <2>1. \/ Left(f) \/ Step(f, "draining") \/ Step(f, "stop") \/ Step(f, "checkpoint")
        \/ Step(f, "checkpointing") \/ Step(f, "fail") \/ Step(f, "failing")
        \/ \E pc \in {"transfer", "fail"}, ok \in BOOLEAN :
             flow' = [flow EXCEPT ![f].pc = pc, ![f].ok = ok]
    BY ThrowLeaves, ReturnLeaves
    DEF Drain, Draining, ReadMove, WriteMove, StopWorker, Checkpoint, Gates, Interrupt, Condemn, Call,
        Halt, FailRead, FailWrite, Forget
  <2> QED
    BY <2>1, StepGoes, MarkGoes DEF Points
<1>5. Knows(f)'
  BY <1>4, LeavesCarefree, Carefree
  DEF Goes, Watched, Owning, Unleased, Leased, Launched, Dropped, Recovering
<1> QED
  BY <1>2, <1>3, <1>5 DEF Careful

(* A worktree that was published is removed before its session is completed. *)
LEMMA WindCareful ==
    ASSUME IInv, HInv, NEW f \in Flows, Checkpointing(f) \/ Transfer(f) \/ Save(f)
    PROVE  Careful(f)
<1> USE DEF IInv
<1> DEFINE me == flow[f].from
<1>1. me \in Sessions /\ Ended(me)
  BY DEF StopSafe, AfterStop, At, Checkpointing, WriteMove, Transfer, Save, From
<1>2. Honest
  <2>1. CASE Checkpointing(f)
    BY <1>1, <2>1, SameRows, StatusHonest DEF Checkpointing, WriteMove, Call, From
  <2>2. CASE Save(f)
    BY <1>1, <2>2, SameRows, SaveHonest DEF Save, Call, From
  <2> QED
    BY <2>1, <2>2, SameRows DEF Transfer
<1>3. Tidy
  BY DEF Tidy, Checkpointing, WriteMove, Transfer, Save, world
<1>4. Knows(f)'
  <2>1. CASE Checkpointing(f)
    <3>1. Left(f) \/ Goes(f, IF Kind(f) = "finish" THEN "gates" ELSE "save", Kind(f), flow[f].ok)
      BY <2>1, StepGoes, ThrowLeaves DEF Checkpointing, WriteMove, Call, Points, Kind
    <3>2. CASE Kind(f) = "finish" /\ ~Left(f)
      BY <3>1, <3>2, Carefree
      DEF Goes, Watched, Owning, Unleased, Leased, Launched, Dropped, Recovering
    <3>3. CASE Kind(f) # "finish" /\ ~Left(f)
      BY <3>1, <3>3
      DEF Goes, Knows, Kind, Owning, Unleased, Leased, Launched, Dropped, Late, Recovering
    <3> QED
      BY <3>2, <3>3, LeavesCarefree
  <2>2. CASE Transfer(f)
    <3>1. CASE /\ Managed(me) => me \in tree
               /\ tree' = IF Managed(me) THEN tree \ {me} ELSE tree
               /\ Step(f, CASE Kind(f) = "pass" -> "choose" [] Kind(f) = "finish" -> "save" [] OTHER -> "yield")
      <4>1. worker' = worker /\ proc' = proc
        BY <2>2 DEF Transfer, rows, sessionRows
      <4>2. worker'[me] \notin Native => me \notin tree'
        BY <3>1, <4>1 DEF Managed
      <4>3. proc'[me] \in Over
        BY <1>1, <4>1 DEF Ended
      <4>4. CASE Kind(f) = "pass"
        <5>1. Goes(f, "choose", "pass", flow[f].ok)
          BY <3>1, <4>4, StepGoes DEF Points, Kind
        <5> QED
          BY <1>1, <4>3, <5>1 DEF Goes, Knows, Kind, From, Ended, Owning, Unleased, Leased, Launched,
              Dropped, Late, Recovering
      <4>5. CASE Kind(f) # "pass"
        <5>1. \E pc \in {"save", "yield"} : Goes(f, pc, flow[f].kind, flow[f].ok)
          <6>1. Step(f, "save") \/ Step(f, "yield")
            BY <3>1, <4>5
          <6> QED
            BY <6>1, StepGoes DEF Points
        <5> QED
          BY <4>2, <5>1 DEF Goes, Knows, Kind, From, Published, Managed, Owning, Unleased, Leased,
              Launched, Dropped, Late, Recovering
      <4> QED
        BY <4>4, <4>5
    <3>2. CASE Unpublished(f)
      <4>1. Goes(f, "save", "unsafe", flow[f].ok) \/ Goes(f, "condemn", flow[f].kind, flow[f].ok)
        BY <3>2, StepGoes, TurnGoes DEF Unpublished, Points, Kinds
      <4> QED
        BY <4>1 DEF Goes, Knows, Kind, Owning, Unleased, Leased, Launched, Dropped, Late, Recovering
    <3> QED
      BY <2>2, <3>1, <3>2 DEF Transfer, From
  <2>3. CASE Save(f)
    <3>1. /\ Kind(f) = "finish" => Published(me)
          /\ worker' = worker /\ tree' = tree
      BY <2>3 DEF HInv, Knows, Save, At, From, Call, SaveCheckpoint, world, rows, sessionRows
    <3>2. Left(f) \/ \E pc \in {"yield", "condemn", "transfer"} : Goes(f, pc, flow[f].kind, flow[f].ok)
      <4>1. Left(f) \/ Step(f, "yield") \/ Step(f, "condemn") \/ Step(f, "transfer")
        BY <2>3, ThrowLeaves DEF Save, Call
      <4> QED
        BY <4>1, StepGoes DEF Points
    <3>3. CASE ~Left(f)
      BY <3>1, <3>2, <3>3
      DEF Goes, Knows, Kind, From, Published, Managed, Owning, Unleased, Leased, Launched, Dropped,
          Late, Recovering
    <3> QED
      BY <3>3, LeavesCarefree
  <2> QED
    BY <2>1, <2>2, <2>3
<1> QED
  BY <1>2, <1>3, <1>4 DEF Careful

LEMMA YieldCareful ==
    ASSUME IInv, HInv, NEW f \in Flows, Yield(f)
    PROVE  Careful(f)
<1> USE DEF IInv
<1> DEFINE me == flow[f].from
<1>1. me \in Sessions /\ Ended(me) /\ (Kind(f) = "finish" => Published(me))
  BY DEF StopSafe, AfterStop, At, Yield, From, HInv, Knows
<1>2. FinalStatus(f) = "COMPLETED" => Kind(f) = "finish"
  BY DEF FinalStatus
<1>3. UNCHANGED rows \/ (MayRelease(me) /\ ReleaseLease(me, FinalStatus(f)))
  BY DEF Yield, LetGo, Call, From
<1>4. Honest
  BY <1>1, <1>2, <1>3, SameRows, ReleaseHonest
<1>5. Left(f)
  BY ReturnLeaves, ThrowLeaves DEF Yield, LetGo, Call
<1>6. Tidy
  BY DEF Yield, Tidy, world
<1> QED
  BY <1>4, <1>5, <1>6, LeavesCarefree DEF Careful

-----------------------------------------------------------------------------
(* Taking it over.  A handler that starts with a new session knows whose    *)
(* work it goes on with.                                                    *)
Heir(f, kind, from) ==
    /\ flow'[f].pc = "prepare" /\ flow'[f].kind = kind /\ flow'[f].from = from
    /\ kind \in {"start", "pass", "recover", "resume"}
    /\ kind # "start" => from \in Sessions /\ Gone(from)

LEMMA HeirKnows ==
    ASSUME IInv, NEW f, NEW kind, NEW from, Heir(f, kind, from), Honest, proc' = proc
    PROVE  Knows(f)'
<1>1. kind # "start" => from \in Sessions /\ (proc'[from] \in Over \/ lease'[from] \in {"RELEASED", "RECLAIMED"})
  BY DEF Heir, Gone, Ended, Honest
<1> QED
  BY <1>1 DEF Heir, Knows, Kind, From, Ended, Gone, Late, Recovering, Owning, Unleased

LEMMA RequestCareful ==
    ASSUME IInv, HInv, NEW f \in Flows, StartTask(f) \/ (\E s \in Sessions : Resume(f, s))
    PROVE  Careful(f)
<1> USE DEF IInv
<1>1. flow[f] \in Handlers /\ flow \in [Flows -> Handlers]
  BY DEF TypeOK
<1>2. \E t \in Sessions, w \in Workers :
        Fresh(t) /\ CreateSession(t, w) /\ (tree' = tree \/ tree' = tree \cup {t}) /\ proc' = proc
  BY DEF StartTask, Resume
<1>3. Honest
  BY <1>2, CreateHonest
<1>4. Tidy
  BY <1>2 DEF Tidy, Fresh, Rooted
<1>5. \E from : Heir(f, "start", from) \/ Heir(f, "resume", from)
  <2>1. CASE StartTask(f)
    <3>1. PICK t \in Sessions :
            flow' = [flow EXCEPT ![f].pc = "prepare", ![f].kind = "start", ![f].to = t]
      BY <2>1 DEF StartTask
    <3>2. flow'[f].pc = "prepare" /\ flow'[f].kind = "start" /\ flow'[f].from = flow[f].from
      BY <1>1, <3>1 DEF Handlers
    <3> QED
      BY <3>2 DEF Heir
  <2>2. ASSUME NEW s \in Sessions, Resume(f, s)
        PROVE  Heir(f, "resume", s)
    <3>1. Gone(s)
      BY <2>2 DEF Resume, HInv, Offered, Gone
    <3>2. PICK t \in Sessions :
            flow' = [flow EXCEPT ![f].pc = "prepare", ![f].kind = "resume", ![f].from = s, ![f].to = t]
      BY <2>2 DEF Resume
    <3>3. flow'[f].pc = "prepare" /\ flow'[f].kind = "resume" /\ flow'[f].from = s
      BY <1>1, <3>2 DEF Handlers
    <3> QED
      BY <3>1, <3>3 DEF Heir
  <2> QED
    BY <2>1, <2>2
<1>6. Knows(f)'
  BY <1>2, <1>3, <1>5, HeirKnows
<1> QED
  BY <1>3, <1>4, <1>6 DEF Careful

LEMMA ChooseCareful ==
    ASSUME IInv, HInv, NEW f \in Flows, Choose(f)
    PROVE  Careful(f)
<1> USE DEF IInv
<1>1. flow[f] \in Handlers /\ flow \in [Flows -> Handlers]
  BY DEF TypeOK
<1>2. /\ flow[f].kind \in {"pass", "recover"}
      /\ flow[f].from \in Sessions /\ Gone(flow[f].from)
  BY DEF Choose, At, HInv, Knows, Kind, From, Gone
<1>3. UNCHANGED rows \/ \E t \in Sessions, w \in Workers : Fresh(t) /\ CreateSession(t, w)
  BY DEF Choose, Call
<1>4. Honest
  BY <1>3, SameRows, CreateHonest
<1>5. proc' = proc /\ tree' = tree
  BY DEF Choose, world
<1>6. \/ Left(f)
      \/ Goes(f, "yield", "pause", flow[f].ok)
      \/ Heir(f, flow[f].kind, flow[f].from)
  <2>1. \/ Left(f) \/ Turn(f, "yield", "pause")
        \/ \E t \in Sessions : flow' = [flow EXCEPT ![f].pc = "prepare", ![f].to = t]
    BY ThrowLeaves, ReturnLeaves DEF Choose, Call
  <2>2. ASSUME NEW t \in Sessions, flow' = [flow EXCEPT ![f].pc = "prepare", ![f].to = t]
        PROVE  Heir(f, flow[f].kind, flow[f].from)
    BY <1>1, <1>2, <2>2 DEF Heir, Handlers
  <2> QED
    BY <2>1, <2>2, TurnGoes DEF Points, Kinds
<1>7. Knows(f)'
  <2>1. CASE Goes(f, "yield", "pause", flow[f].ok)
    BY <2>1 DEF Goes, Knows, Kind, Owning, Unleased, Leased, Launched, Dropped, Late, Recovering
  <2> QED
    BY <1>4, <1>5, <1>6, <2>1, HeirKnows, LeavesCarefree
<1>8. Tidy
  BY <1>5 DEF Tidy
<1> QED
  BY <1>4, <1>7, <1>8 DEF Careful

LEMMA PrepareCareful ==
    ASSUME IInv, HInv, NEW f \in Flows, Prepare(f)
    PROVE  Careful(f)
<1> USE DEF IInv
<1> DEFINE new == flow[f].to
<1>1. new \in Sessions /\ ~Started(new)
  BY DEF Prepare, At, OwnSafe, Owns, Owning, Unleased, To
<1>2. /\ Kind(f) \in {"start", "pass", "recover", "resume"}
      /\ Kind(f) # "start" => From(f) \in Sessions /\ Gone(From(f))
  BY DEF Prepare, At, HInv, Knows, Owning, Unleased
<1>3. UNCHANGED <<rows, proc>> /\ (tree' = tree \/ tree' = tree \cup {new})
  BY DEF Prepare, To
<1>4. Honest /\ Tidy
  BY <1>1, <1>3, SameRows DEF Tidy
<1>5. \/ Left(f)
      \/ Goes(f, "yield", "pause", flow[f].ok)
      \/ Goes(f, IF Kind(f) = "start" THEN "enroll" ELSE "propose", Kind(f), flow[f].ok)
  <2>1. \/ Left(f) \/ Turn(f, "yield", "pause")
        \/ Step(f, IF Kind(f) = "start" THEN "enroll" ELSE "propose")
    BY ThrowLeaves, ReturnLeaves DEF Prepare
  <2> QED
    BY <2>1, StepGoes, TurnGoes DEF Points, Kinds, Kind
<1>6. Knows(f)'
  <2>1. CASE Goes(f, "yield", "pause", flow[f].ok)
    BY <2>1 DEF Goes, Knows, Kind, Owning, Unleased, Leased, Launched, Dropped, Late, Recovering
  <2>2. CASE Goes(f, "enroll", "start", flow[f].ok)
    BY <2>2 DEF Goes, Knows, Kind, Owning, Unleased, Leased, Launched, Dropped, Late, Recovering
  <2>3. CASE Kind(f) # "start" /\ Goes(f, "propose", Kind(f), flow[f].ok)
    <3>1. From(f)' = From(f) /\ Kind(f)' = Kind(f) /\ flow'[f].pc = "propose"
      BY <2>3 DEF Goes, From, Kind
    <3>2. Gone(From(f))'
      <4>1. proc' = proc /\ lease' = lease
        BY <1>3 DEF rows, leaseRows
      <4> QED
        BY <1>2, <2>3, <3>1, <4>1 DEF Gone, Ended
    <3> QED
      BY <1>2, <2>3, <3>1, <3>2 DEF Knows, Owning, Unleased, Late, Recovering
  <2> QED
    BY <1>5, <2>1, <2>2, <2>3, LeavesCarefree
<1> QED
  BY <1>4, <1>6 DEF Careful

(* The session that gives the branch has a checkpoint, or the handoff is    *)
(* refused.                                                                 *)
LEMMA ProposeCareful ==
    ASSUME IInv, HInv, NEW f \in Flows, Propose(f)
    PROVE  Careful(f)
<1> USE DEF IInv
<1>1. To(f) \in Sessions
  BY DEF Propose, At, OwnSafe, Owns, Owning, Unleased
<1>2. /\ Kind(f) \in {"pass", "recover", "resume"}
      /\ From(f) \in Sessions /\ Gone(From(f))
  BY DEF Propose, At, HInv, Knows, Owning, Unleased
<1>3. MayPropose(From(f)) /\ ProposeHandoff(From(f), To(f)) => Honest /\ baton'[To(f)] # "none"
  BY <1>1, <1>2, ProposeHonest DEF MayPropose, Retired
<1>4. UNCHANGED rows \/ (MayPropose(From(f)) /\ ProposeHandoff(From(f), To(f)))
  BY DEF Propose, Call
<1>5. Honest
  BY <1>3, <1>4, SameRows
<1>6. \/ Left(f)
      \/ Goes(f, "yield", "pause", flow[f].ok)
      \/ /\ MayPropose(From(f)) /\ ProposeHandoff(From(f), To(f))
         /\ \E pc \in {"release", "enroll"} : Goes(f, pc, Kind(f), flow[f].ok)
  <2>1. \/ Left(f) \/ Turn(f, "yield", "pause")
        \/ /\ MayPropose(From(f)) /\ ProposeHandoff(From(f), To(f))
           /\ Step(f, "release") \/ Step(f, "enroll")
    BY ThrowLeaves DEF Propose, Call
  <2> QED
    BY <2>1, StepGoes, TurnGoes DEF Points, Kinds, Kind
<1>7. Knows(f)'
  <2>1. CASE Goes(f, "yield", "pause", flow[f].ok)
    BY <2>1 DEF Goes, Knows, Kind, Owning, Unleased, Leased, Launched, Dropped, Late, Recovering
  <2>2. ASSUME NEW pc \in {"release", "enroll"}, Goes(f, pc, Kind(f), flow[f].ok), baton'[To(f)] # "none"
        PROVE  Knows(f)'
    <3>1. flow'[f].pc = pc /\ flow'[f].kind = Kind(f) /\ flow'[f].to = To(f)
      BY <2>2 DEF Goes, To
    <3> QED
      BY <1>2, <2>2, <3>1 DEF Knows, Kind, To, Owning, Unleased, Late, Recovering
  <2> QED
    BY <1>3, <1>6, <2>1, <2>2, LeavesCarefree
<1>8. Tidy
  BY DEF Propose, Tidy, world
<1> QED
  BY <1>5, <1>7, <1>8 DEF Careful

(* From the proposal on, the handler goes on with the same session, or is   *)
(* done with it.                                                            *)
LEMMA LateCareful ==
    ASSUME IInv, HInv, NEW f \in Flows,
           \/ Release(f) \/ Enroll(f) \/ Acquire(f) \/ Record(f) \/ Discard(f) \/ Accept(f)
           \/ Launch(f) \/ Bind(f) \/ Undo(f) \/ Retract(f) \/ Unwind(f) \/ Disown(f)
    PROVE  Careful(f)
<1> USE DEF IInv
<1>1. flow[f].pc \in Late
  BY DEF Release, Enroll, Acquire, Record, Discard, Accept, Launch, Bind, Undo, Retract, Unwind, Disown,
         At, Late, Owning, Unleased, Leased, Launched, Dropped
<1>2. To(f) \in Sessions
  BY <1>1 DEF OwnSafe, Owns, Late
<1>3. Honest
  <2>1. CASE Release(f)
    <3>1. From(f) \in Sessions
      BY <2>1 DEF Release, At, StopSafe, AfterStop
    <3>2. UNCHANGED rows \/ (MayRelease(From(f)) /\ ReleaseLease(From(f), "HANDOFF_READY"))
      BY <2>1 DEF Release, LetGo, Call
    <3> QED
      BY <3>1, <3>2, SameRows, ReleaseHonest
  <2>2. CASE Enroll(f) \/ Record(f) \/ Discard(f) \/ Bind(f) \/ Undo(f)
    <3>1. \/ UNCHANGED rows \/ SetStatus(To(f), "ACQUIRING") \/ SaveCheckpoint(To(f))
          \/ CloseAbnormal(To(f), FALSE) \/ BindNative(To(f))
      BY <2>2 DEF Enroll, Record, Discard, Bind, Undo, Call
    <3> QED
      BY <1>2, <3>1, SameRows, StatusHonest, SaveHonest, CloseHonest, BindHonest
  <2>3. CASE Acquire(f)
    <3>1. lease[To(f)] = "none"
      BY <2>3 DEF Acquire, At, OwnSafe, Unleased
    <3> QED
      BY <1>2, <2>3, <3>1, SameRows, AcquireHonest DEF Acquire, Call
  <2>4. CASE Accept(f)
    BY <1>2, <2>4, SameRows, AnswerHonest DEF Accept, MayAccept, Call
  <2>5. CASE Retract(f) \/ Unwind(f)
    <3>1. UNCHANGED rows \/ (MayRelease(To(f)) /\ ReleaseLease(To(f), "HANDOFF_READY"))
      BY <2>5 DEF Retract, Unwind, LetGo, Call
    <3> QED
      BY <1>2, <3>1, SameRows, ReleaseHonest
  <2>6. CASE Disown(f)
    <3>1. Kind(f) # "start" => baton[To(f)] # "none"
      BY <1>1 DEF HInv, Knows
    <3>2. UNCHANGED rows \/ (Kind(f) # "start" /\ FailHandoff(To(f)))
      BY <2>6 DEF Disown, Call
    <3> QED
      BY <1>2, <3>1, <3>2, SameRows, AnswerHonest
  <2> QED
    BY <2>1, <2>2, <2>3, <2>4, <2>5, <2>6, SameRows DEF Launch
<1>4. Left(f) \/ \E pc \in Late : \E ok : Goes(f, pc, flow[f].kind, ok)
  <2>1. \/ Left(f)
        \/ \E pc \in {"enroll", "acquire", "record", "discard", "accept", "launch", "bind", "undo",
                       "retract", "disown"} : Step(f, pc)
        \/ \E ok \in BOOLEAN : flow' = [flow EXCEPT ![f].pc = "unwind", ![f].ok = ok]
    <3>1. CASE Release(f) \/ Enroll(f) \/ Acquire(f) \/ Record(f)
      BY <3>1, ThrowLeaves DEF Release, Enroll, Acquire, Record, Withdraw, LetGo, Call
    <3>2. CASE Discard(f)
      <4>1. (To(f) \in saved) \in BOOLEAN
        OBVIOUS
      <4> QED
        BY <3>2, <4>1 DEF Discard, Call
    <3>3. CASE Accept(f) \/ Launch(f) \/ Bind(f)
      BY <3>3, ThrowLeaves, ReturnLeaves DEF Accept, Launch, Bind, Withdraw, Settle, Call
    <3>4. CASE Undo(f) \/ Retract(f) \/ Unwind(f)
      BY <3>4, ThrowLeaves, ReturnLeaves DEF Undo, Retract, Unwind, LetGo, Call
    <3>5. CASE Disown(f)
      BY <3>5, ThrowLeaves, ReturnLeaves DEF Disown, Call
    <3> QED
      BY <3>1, <3>2, <3>3, <3>4, <3>5
  <2> QED
    BY <2>1, StepGoes, MarkGoes DEF Points, Late, Owning, Unleased, Leased, Launched, Dropped
<1>5. Knows(f)'
  BY <1>1, <1>3, <1>4, StaysLate, LeavesCarefree
<1>6. Tidy
  BY DEF Tidy, Release, Enroll, Acquire, Record, Discard, Accept, Launch, Bind, Undo, Retract, Unwind,
         Disown, world
<1> QED
  BY <1>3, <1>5, <1>6 DEF Careful

-----------------------------------------------------------------------------
(* The poll, the recovery of stale leases and what the owner asks.          *)
LEMMA LookingCareful ==
    ASSUME IInv, HInv, NEW f \in Flows, UNCHANGED <<rows, world>>,
           flow' = flow \/ flow'[f].pc \notin Watched
    PROVE  Careful(f)
<1>1. Honest /\ Tidy
  BY SameRows DEF Tidy, world
<1>2. ASSUME flow' = flow
      PROVE  Knows(f)'
  <2>1. UNCHANGED <<proc, tree, lease, worker, baton>>
    BY DEF world, rows, sessionRows, leaseRows, handoffRows
  <2> QED
    BY <1>2, <2>1 DEF HInv, Knows, From, To, Kind, Ended, Gone, Published, Managed
<1> QED
  BY <1>1, <1>2, Carefree DEF Careful, HInv

LEMMA RequestsCareful ==
    ASSUME IInv, HInv, NEW f \in Flows,
           \/ \E s \in Sessions :
                \/ LoseLease(f, s) \/ PollOne(f, s) \/ ShutdownOne(f, s)
                \/ \E k \in {"pass", "pause", "abort", "finish"} : Ask(f, s, k)
           \/ PollTick(f) \/ Shutdown(f) \/ Boot(f) \/ RecoverDone(f)
    PROVE  Careful(f)
<1> USE DEF IInv
<1>1. UNCHANGED <<rows, world>>
  BY DEF Ask, LoseLease, PollOne, ShutdownOne, PollTick, Shutdown, Boot, RecoverDone
<1>2. flow[f] \in Handlers /\ flow \in [Flows -> Handlers]
  BY DEF TypeOK
<1>3. flow' = flow \/ flow'[f].pc \in {"idle", "next", "fatal", "drain", "halt"}
  <2>1. ASSUME NEW s \in Sessions, PollOne(f, s)
        PROVE  flow'[f].pc \in {"idle", "next", "fatal", "drain"}
    <3> DEFINE Pick(kind) == flow' = [flow EXCEPT ![f].pc = "drain", ![f].kind = kind, ![f].from = s,
                                                  ![f].todo = @ \ {s}]
               Skip == flow' = [flow EXCEPT ![f].todo = @ \ {s}]
    <3>1. At(f, "next") /\ (Pick("finish") \/ Pick("pass") \/ Skip \/ Throw(f))
      BY <2>1 DEF PollOne
    <3>2. CASE Pick("finish") \/ Pick("pass")
      BY <1>2, <3>2 DEF Handlers
    <3>3. CASE Skip
      BY <1>2, <3>1, <3>3 DEF Handlers, At
    <3> QED
      BY <3>1, <3>2, <3>3, ThrowLeaves DEF Left
  <2>2. ASSUME NEW s \in Sessions, LoseLease(f, s) \/ ShutdownOne(f, s)
        PROVE  flow' = flow \/ flow'[f].pc = "halt"
    <3>1. CASE LoseLease(f, s)
      BY <1>2, <2>2, <3>1 DEF LoseLease, Begin, Handlers
    <3>2. CASE ShutdownOne(f, s)
      <4>1. flow' = [flow EXCEPT ![f].pc = "halt", ![f].kind = "lost", ![f].from = s, ![f].todo = @ \ {s}]
        BY <3>2 DEF ShutdownOne
      <4> QED
        BY <1>2, <4>1 DEF Handlers
    <3> QED
      BY <2>2, <3>1, <3>2
  <2>3. ASSUME NEW s \in Sessions, NEW k, Ask(f, s, k)
        PROVE  flow'[f].pc = "drain"
    BY <1>2, <2>3 DEF Ask, Begin, Handlers
  <2>4. ASSUME PollTick(f) \/ Shutdown(f) \/ Boot(f) \/ RecoverDone(f)
        PROVE  flow'[f].pc \in {"idle", "next"}
    <3>1. CASE PollTick(f) \/ Shutdown(f)
      <4>1. PICK loop \in {"poll", "shutdown"} :
              flow' = [flow EXCEPT ![f].pc = "next", ![f].loop = loop, ![f].todo = running]
        BY <3>1 DEF PollTick, Shutdown
      <4> QED
        BY <1>2, <4>1 DEF Handlers
    <3>2. CASE Boot(f)
      BY <1>2, <3>2 DEF Boot, NoFlow
    <3>3. CASE RecoverDone(f)
      BY <1>2, <3>3 DEF RecoverDone, NoFlow
    <3> QED
      BY <2>4, <3>1, <3>2, <3>3
  <2>5. CASE PollTick(f) \/ Shutdown(f) \/ Boot(f) \/ RecoverDone(f)
    BY <2>4, <2>5
  <2>6. CASE \E s \in Sessions : LoseLease(f, s) \/ ShutdownOne(f, s)
    BY <2>2, <2>6
  <2>7. CASE \E s \in Sessions : PollOne(f, s) \/ \E k \in {"pass", "pause", "abort", "finish"} : Ask(f, s, k)
    BY <2>1, <2>3, <2>7
  <2> QED
    BY <2>5, <2>6, <2>7
<1>4. flow' = flow \/ flow'[f].pc \notin Watched
  BY <1>3 DEF Watched, Owning, Unleased, Leased, Launched, Dropped, Recovering
<1> QED
  BY <1>1, <1>4, LookingCareful

(* A lease is only taken from a worker that is known to have ended.         *)
LEMMA RecoverCareful ==
    ASSUME IInv, HInv, NEW f \in Flows,
           Freeze(f) \/ Verify(f) \/ Reclaim(f) \/ (\E s \in Sessions : RecoverOne(f, s))
    PROVE  Careful(f)
<1> USE DEF IInv
<1>1. flow[f] \in Handlers /\ flow \in [Flows -> Handlers]
  BY DEF TypeOK
<1>2. CASE Freeze(f)
  <2>1. Honest
    BY <1>2, SameRows, FreezeHonest DEF Freeze, Call
  <2>2. Left(f) \/ flow'[f].pc = "next"
    <3>1. Throw(f) \/ \E todo : flow' = [flow EXCEPT ![f].loop = "recover", ![f].todo = todo]
      BY <1>2 DEF Freeze, Call
    <3>2. ASSUME NEW todo, flow' = [flow EXCEPT ![f].loop = "recover", ![f].todo = todo]
          PROVE  flow'[f].pc = "next"
      BY <1>1, <1>2, <3>2 DEF Freeze, At, Handlers
    <3> QED
      BY <3>1, <3>2, ThrowLeaves
  <2>3. Knows(f)'
    BY <2>2, Carefree, LeavesCarefree DEF Watched, Owning, Unleased, Leased, Launched, Dropped, Recovering
  <2> QED
    BY <1>2, <2>1, <2>3 DEF Careful, Tidy, Freeze, world
<1>3. ASSUME NEW s \in Sessions, RecoverOne(f, s)
      PROVE  Careful(f)
  <2>1. UNCHANGED <<rows, world>> /\ At(f, "next")
    BY <1>3 DEF RecoverOne
  <2>2. \/ StopConfirmed(s) /\ flow' = [flow EXCEPT ![f].pc = "verify", ![f].kind = "recover", ![f].from = s,
                                                   ![f].todo = @ \ {s}]
        \/ flow' = [flow EXCEPT ![f].todo = @ \ {s}]
    BY <1>3 DEF RecoverOne
  <2>3. StopConfirmed(s) => Ended(s)
    BY DEF StopConfirmed, Rooted, Ended
  <2>4. CASE flow' = [flow EXCEPT ![f].todo = @ \ {s}]
    <3>1. flow'[f].pc = "next"
      BY <1>1, <2>1, <2>4 DEF Handlers, At
    <3> QED
      BY <2>1, <3>1, LookingCareful DEF Watched, Owning, Unleased, Leased, Launched, Dropped, Recovering
  <2>5. CASE StopConfirmed(s) /\ flow' = [flow EXCEPT ![f].pc = "verify", ![f].kind = "recover", ![f].from = s,
                                                      ![f].todo = @ \ {s}]
    <3>1. flow'[f].pc = "verify" /\ flow'[f].kind = "recover" /\ flow'[f].from = s
      BY <1>1, <2>5 DEF Handlers
    <3>2. proc'[s] \in Over
      BY <2>1, <2>3, <2>5 DEF Ended, world
    <3>3. Knows(f)'
      BY <3>1, <3>2 DEF Knows, Kind, From, Ended, Recovering, Late, Owning, Unleased, Leased, Launched,
          Dropped
    <3> QED
      BY <2>1, <3>3, SameRows DEF Careful, Tidy, world
  <2> QED
    BY <2>2, <2>4, <2>5
<1>4. CASE Verify(f) \/ Reclaim(f)
  <2> DEFINE me == flow[f].from
  <2>1. me \in Sessions /\ Ended(me) /\ flow[f].kind = "recover"
    BY <1>4 DEF Verify, Reclaim, At, HInv, Knows, From, Kind, Recovering
  <2>2. Honest
    BY <1>4, <2>1, SameRows, ReclaimHonest DEF Verify, Reclaim, Call, From
  <2>3. proc' = proc /\ tree' \subseteq tree
    BY <1>4 DEF Verify, Reclaim, world
  <2>4. Left(f) \/ \E pc \in {"reclaim", "choose"} : Goes(f, pc, "recover", flow[f].ok)
    <3>1. Left(f) \/ Step(f, "reclaim") \/ Step(f, "choose")
      BY <1>4, ThrowLeaves, ReturnLeaves DEF Verify, Reclaim, Call
    <3> QED
      BY <2>1, <3>1, StepGoes DEF Points
  <2>5. Knows(f)'
    <3>1. ASSUME NEW pc \in {"reclaim", "choose"}, Goes(f, pc, "recover", flow[f].ok)
          PROVE  Knows(f)'
      <4>1. flow'[f].pc = pc /\ flow'[f].kind = "recover" /\ flow'[f].from = me /\ proc'[me] \in Over
        BY <2>1, <2>3, <3>1 DEF Goes, Ended
      <4> QED
        BY <2>1, <4>1 DEF Knows, Kind, From, Ended, Recovering, Late, Owning, Unleased, Leased,
            Launched, Dropped
    <3> QED
      BY <2>4, <3>1, LeavesCarefree
  <2> QED
    BY <2>2, <2>3, <2>5 DEF Careful, Tidy
<1> QED
  BY <1>2, <1>3, <1>4

LEMMA WorldCareful ==
    ASSUME IInv, NEW s \in Sessions, WorkerEnds(s) \/ LeaseExpires(s)
    PROVE  Careful(None)
<1>1. None \notin Flows
  BY SupervisorAssumption
<1>2. UNCHANGED <<sessionRows, lease, saved, handoffRows, tree>>
  BY DEF WorkerEnds, LeaseExpires, Expire, world, rows, leaseRows
<1> QED
  BY <1>1, <1>2 DEF Careful, Honest, Tidy, sessionRows, handoffRows

-----------------------------------------------------------------------------
LEMMA InitHandover == Init => HInv
<1> SUFFICES ASSUME Init PROVE HInv
  OBVIOUS
<1>1. Offered /\ Completed /\ Given
  BY DEF Init, LeaseInit, Offered, Completed, Given
<1>2. \A f \in Flows : flow[f].pc = "idle"
  BY DEF Init, NoFlow
<1> QED
  BY <1>1, <1>2 DEF HInv, Knows, Owning, Unleased, Leased, Launched, Dropped, Late, Recovering

LEMMA DeathKeepsHandover ==
    ASSUME IInv, HInv, Die
    PROVE  HInv'
<1>1. UNCHANGED <<proc, tree, status, lease, saved, worker, giver, baton>>
  BY DEF Die, world, rows, sessionRows, leaseRows, handoffRows
<1>2. \A f \in Flows : flow'[f].pc = "idle"
  BY DEF Die, NoFlow
<1>3. Offered' /\ Completed' /\ Given'
  BY <1>1 DEF HInv, Offered, Completed, Given, Retired, Gone, Ended, Published, Managed
<1> QED
  BY <1>2, <1>3 DEF HInv, Knows, Owning, Unleased, Leased, Launched, Dropped, Late, Recovering

(* Every step of the Supervisor is careful, or ends the process.            *)
LEMMA NextHandover ==
    ASSUME IInv, HInv, Next
    PROVE  HInv'
<1>1. ASSUME NEW f \in Flows, FlowStep(f)
      PROVE  HInv'
  <2>1. Moved(f) \/ Die
    BY <1>1, FlowMoves
  <2>2. CASE Die
    BY <2>2, DeathKeepsHandover
  <2>3. CASE Moved(f) /\ ~Die
    <3>1. ASSUME GiveUp(f) PROVE Careful(f)
      BY <3>1, StopCareful, WindCareful, YieldCareful DEF GiveUp
    <3>2. ASSUME TakeOver(f) PROVE Careful(f)
      BY <3>2, ChooseCareful, PrepareCareful, ProposeCareful, LateCareful DEF TakeOver
    <3>3. ASSUME Lose(f) PROVE Careful(f)
      BY <3>3, StopCareful DEF Lose
    <3>4. ASSUME Recover(f) PROVE Careful(f)
      BY <2>3, <3>4, RecoverCareful, RequestsCareful DEF Recover, ShutdownDone
    <3>5. Careful(f)
      BY <1>1, <3>1, <3>2, <3>3, <3>4 DEF FlowStep
    <3> QED
      BY <2>3, <3>5, CarefulKeeps
  <2> QED
    BY <2>1, <2>2, <2>3
<1>2. ASSUME NEW f \in Flows, Request(f) \/ PollTick(f) \/ Shutdown(f) \/ Boot(f)
      PROVE  HInv'
  <2>1. CASE StartTask(f) \/ \E s \in Sessions : Resume(f, s)
    BY <2>1, CreationMoves, RequestCareful, CarefulKeeps
  <2>2. CASE PollTick(f) \/ Shutdown(f) \/ Boot(f)
    BY <2>2, LoopsMove, RequestsCareful, CarefulKeeps
  <2>3. CASE \E s \in Sessions, k \in {"pass", "pause", "abort", "finish"} : Ask(f, s, k)
    <3>1. PICK s \in Sessions, k \in {"pass", "pause", "abort", "finish"} : Ask(f, s, k)
      BY <2>3
    <3>2. Moved(f)
      BY <3>1, AskMoves
    <3>3. Careful(f)
      BY <3>1, RequestsCareful
    <3> QED
      BY <3>2, <3>3, CarefulKeeps
  <2> QED
    BY <1>2, <2>1, <2>2, <2>3 DEF Request
<1>3. ASSUME NEW f \in Flows, NEW s \in Sessions, LoseLease(f, s)
      PROVE  HInv'
  <2>1. Moved(f)
    BY <1>3, AskMoves
  <2>2. Careful(f)
    BY <1>3, RequestsCareful
  <2> QED
    BY <2>1, <2>2, CarefulKeeps
<1>4. ASSUME NEW s \in Sessions, WorkerEnds(s) \/ LeaseExpires(s)
      PROVE  HInv'
  BY <1>4, WorldMoves, WorldCareful, CarefulKeeps
<1>5. CASE Crash \/ Exit
  BY <1>5, DeathKeepsHandover DEF Crash, Exit
<1> QED
  BY <1>1, <1>2, <1>3, <1>4, <1>5 DEF Next

(* What a session leaves behind when it lets go, and what every handler     *)
(* knows of it: true in every reachable state.                              *)
THEOREM HandoverInvariant == Spec => [](IInv /\ HInv)
<1>1. IInv /\ HInv /\ [Next]_vars => HInv'
  <2> SUFFICES ASSUME IInv, HInv, [Next]_vars PROVE HInv'
    OBVIOUS
  <2>1. CASE Next
    BY <2>1, NextHandover
  <2>2. CASE UNCHANGED vars
    <3>1. UNCHANGED <<flow, proc, tree, status, lease, saved, worker, giver, baton>>
      BY <2>2 DEF vars, world, rows, sessionRows, leaseRows, handoffRows
    <3> QED
      BY <3>1 DEF HInv, Offered, Completed, Given, Retired, Gone, Ended, Published, Managed, Knows,
          From, To, Kind
  <2> QED
    BY <2>1, <2>2
<1> QED
  BY <1>1, InitHandover, SupervisorInvariant, PTL DEF Spec

(* A session offered for resumption has a checkpoint, no writer and no      *)
(* lease its successor would wait for (RESUME_SESSION, resumeTask).         *)
THEOREM ReadyToResume == Spec => []ReadyIsSafe
<1>1. IInv /\ HInv => ReadyIsSafe
  BY DEF IInv, HInv, Offered, ReadyIsSafe, WriterHoldsBranch, Holds
<1> QED
  BY <1>1, HandoverInvariant, PTL

(* Whoever is offered or given the baton gets it from a session whose       *)
(* worker has stopped and that left a checkpoint (passBaton, recoverStale,  *)
(* propose_handoff), however its handlers overlap, fail and die.            *)
THEOREM BatonComesFromTheStopped == Spec => []StoppedBeforeHandover
<1>1. IInv /\ HInv => StoppedBeforeHandover
  BY DEF IInv, HInv, Given, Retired, Gone, Ended, StoppedBeforeHandover, WriterHoldsBranch, Holds,
      Working, Over
<1> QED
  BY <1>1, HandoverInvariant, PTL

(* A completed session has no writer and no lease, and the worktree it      *)
(* worked in was published and removed (finish, prepareTransfer).           *)
THEOREM CompletionIsPublished == Spec => []CompletedIsPublished
<1>1. IInv /\ HInv => CompletedIsPublished
  BY DEF HInv, Completed, Published, Ended, CompletedIsPublished, Holds, Working, Over
<1> QED
  BY <1>1, HandoverInvariant, PTL

============================================================================

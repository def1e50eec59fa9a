---------------------- MODULE ObjectiveRecoveryProofs ----------------------
(***************************************************************************)
(* Proofs about ObjectiveRecovery for any workflow, any number of slots,   *)
(* tabs, retries and waits, with or without lost heartbeats, and about     *)
(* what ObjectiveViews shows of its rows.                                  *)
(*                                                                         *)
(* Everything that touches the queue goes through one of the operators of  *)
(* TaskQueue or an owner statement, so the argument is made once for each  *)
(* of them (the lemmas on steps of the queue) and the runtime's and the    *)
(* owner's actions only choose among them.                                 *)
(***************************************************************************)
EXTENDS ObjectiveViews, FiniteSetTheorems, WellFoundedInduction, TLAPS

(* The part of the inductive invariant that speaks of the rows alone.       *)
QueueSafe ==
    /\ FinalOnce
    /\ DeliveredOnce
    /\ RunningIsRecoverable
    /\ AnsweredIsQuiet

IInv == TypeOK /\ QueueSafe /\ UnclaimedIsEmpty

(* What every step of the queue does for the proof.                         *)
QueueStepOK ==
    /\ QueueTypeOK'
    /\ QueueSafe'
    /\ [Promise!Next]_(Promise!vars)

-----------------------------------------------------------------------------
LEMMA ClaimNextJobStep ==
    ASSUME QueueTypeOK, QueueSafe, ClaimNextJob
    PROVE  QueueStepOK
<1>1. QueueTypeOK'
  BY DEF QueueTypeOK, ClaimNextJob, taskRows, runRows, JobStatus
<1>2. QueueSafe'
  BY DEF QueueSafe, FinalOnce, DeliveredOnce, RunningIsRecoverable, AnsweredIsQuiet,
         ClaimNextJob, taskRows, runRows
<1>3. Promise!Accept
  BY DEF Promise!Accept, ClaimNextJob, taskRows, runRows
<1> QED BY <1>1, <1>2, <1>3 DEF QueueStepOK, Promise!Next

LEMMA CreateTaskStep ==
    ASSUME QueueTypeOK, QueueSafe, NEW t \in Tasks, CreateTask(t)
    PROVE  QueueStepOK
<1>1. QueueTypeOK'
  BY QueueAssumption DEF QueueTypeOK, CreateTask, runRows, TaskStatus
<1>2. QueueSafe'
  BY DEF QueueSafe, FinalOnce, DeliveredOnce, RunningIsRecoverable, AnsweredIsQuiet,
         CreateTask, runRows, QueueTypeOK
<1>3. UNCHANGED Promise!vars
  BY DEF Promise!vars, CreateTask, QueueTypeOK
<1> QED BY <1>1, <1>2, <1>3 DEF QueueStepOK

LEMMA ClaimTaskStep ==
    ASSUME QueueTypeOK, QueueSafe, NEW t \in Tasks, ClaimTask(t)
    PROVE  QueueStepOK
<1>1. QueueTypeOK'
  BY DEF QueueTypeOK, ClaimTask, NextRun, TaskStatus
<1>2. QueueSafe'
  BY DEF QueueSafe, FinalOnce, DeliveredOnce, RunningIsRecoverable, AnsweredIsQuiet,
         ClaimTask, NextRun, Ready, QueueTypeOK
<1>3. UNCHANGED Promise!vars
  BY DEF Promise!vars, ClaimTask, Ready, QueueTypeOK
<1> QED BY <1>1, <1>2, <1>3 DEF QueueStepOK

LEMMA CompleteTaskStep ==
    ASSUME QueueTypeOK, QueueSafe, job # "planning",
           NEW t \in Tasks, NEW n \in Nat, CompleteTask(t, n)
    PROVE  QueueStepOK
<1> USE DEF CompleteTask, MayComplete, QueueTypeOK
<1>1. QueueTypeOK'
  <2>1. handoffs' \subseteq (Tasks \X Tasks)
    BY DEF Receivers, Dependents
  <2>2. job' \in JobStatus /\ finals' \in Nat
    BY DEF JobStatus
  <2> QED BY <2>1, <2>2 DEF TaskStatus
<1>2. QueueSafe'
  <2>1. job # "completed"
    BY DEF QueueSafe, AnsweredIsQuiet
  <2>2. FinalOnce'
    BY <2>1 DEF QueueSafe, FinalOnce
  <2>3. DeliveredOnce' /\ RunningIsRecoverable'
    BY DEF QueueSafe, DeliveredOnce, RunningIsRecoverable
  <2>4. AnsweredIsQuiet'
    BY <2>1 DEF AnsweredIsQuiet, AllOthersFinished, Created, Finished
  <2> QED BY <2>2, <2>3, <2>4 DEF QueueSafe
<1>3. Promise!Deliver(t)
  <2>1. job \in {"running"} \cup Promise!Stopped
    BY DEF QueueSafe, AnsweredIsQuiet, JobStatus, Promise!Stopped
  <2>2. {u \in Tasks : status[u] = "done"}' = {u \in Tasks : status[u] = "done"} \cup {t}
    OBVIOUS
  <2>3. (finals' = 1 /\ job' = "completed") \/ UNCHANGED <<job, finals>>
    BY DEF QueueSafe, FinalOnce, AnsweredIsQuiet
  <2> QED BY <2>1, <2>2, <2>3 DEF Promise!Deliver
<1> QED BY <1>1, <1>2, <1>3 DEF QueueStepOK, Promise!Next

LEMMA FailTaskStep ==
    ASSUME QueueTypeOK, QueueSafe, job # "planning",
           NEW t \in Tasks, NEW n \in Nat, FailTask(t, n)
    PROVE  QueueStepOK
<1> USE DEF FailTask, MarkRunFailed, QueueTypeOK
<1>1. QueueTypeOK'
  <2>1. status' \in [Tasks -> TaskStatus] /\ job' \in JobStatus
    BY DEF TaskStatus, JobStatus
  <2> QED BY <2>1
<1>2. job # "completed"
  BY DEF QueueSafe, AnsweredIsQuiet
<1>3. \A u \in Tasks : /\ status'[u] = "running" => status[u] = "running" /\ u # t
                       /\ status'[u] = "done" <=> status[u] = "done"
  OBVIOUS
<1>4. QueueSafe'
  BY <1>2, <1>3 DEF QueueSafe, FinalOnce, DeliveredOnce, RunningIsRecoverable, AnsweredIsQuiet
<1>5. [Promise!Next]_(Promise!vars)
  <2>1. UNCHANGED <<{u \in Tasks : status[u] = "done"}, finals>>
    BY <1>3
  <2>2. CASE UNCHANGED job
    BY <2>1, <2>2 DEF Promise!vars
  <2>3. CASE job' = "failed"
    BY <2>1, <2>3, <1>2 DEF Promise!GiveUp, Promise!Next, Promise!Stopped, JobStatus
  <2> QED BY <2>2, <2>3
<1> QED BY <1>1, <1>4, <1>5 DEF QueueStepOK

LEMMA DeferTaskStep ==
    ASSUME QueueTypeOK, QueueSafe, NEW t \in Tasks, NEW n \in Nat, DeferTask(t, n)
    PROVE  QueueStepOK
<1> USE DEF DeferTask, MayDefer, QueueTypeOK
<1>1. QueueTypeOK'
  BY QueueAssumption DEF TaskStatus
<1>2. QueueSafe'
  BY DEF QueueSafe, FinalOnce, DeliveredOnce, RunningIsRecoverable, AnsweredIsQuiet
<1>3. UNCHANGED Promise!vars
  BY DEF Promise!vars
<1> QED BY <1>1, <1>2, <1>3 DEF QueueStepOK

LEMMA WaitElapsesStep ==
    ASSUME QueueTypeOK, QueueSafe, NEW t \in Tasks, WaitElapses(t)
    PROVE  QueueStepOK
<1> USE DEF WaitElapses, runRows, QueueTypeOK
<1>1. QueueTypeOK'
  OBVIOUS
<1>2. QueueSafe'
  BY DEF QueueSafe, FinalOnce, DeliveredOnce, RunningIsRecoverable, AnsweredIsQuiet
<1>3. UNCHANGED Promise!vars
  BY DEF Promise!vars
<1> QED BY <1>1, <1>2, <1>3 DEF QueueStepOK

LEMMA QueueUnchanged ==
    ASSUME QueueTypeOK, QueueSafe, UNCHANGED queueVars
    PROVE  QueueStepOK
<1> USE DEF queueVars, taskRows, runRows
<1>1. QueueTypeOK'
  BY DEF QueueTypeOK
<1>2. QueueSafe'
  BY DEF QueueSafe, FinalOnce, DeliveredOnce, RunningIsRecoverable, AnsweredIsQuiet
<1>3. UNCHANGED Promise!vars
  BY DEF Promise!vars
<1> QED BY <1>1, <1>2, <1>3 DEF QueueStepOK

-----------------------------------------------------------------------------
(* No operator of the queue takes a claimed job back to 'planning'.         *)
LEMMA NeverUnclaimed ==
    ASSUME job # "planning", NEW t \in Tasks, NEW n \in Nat,
           \/ CreateTask(t) \/ ClaimTask(t) \/ CompleteTask(t, n)
           \/ FailTask(t, n) \/ DeferTask(t, n) \/ UNCHANGED queueVars
    PROVE  job' # "planning"
BY DEF CreateTask, ClaimTask, CompleteTask, FailTask, DeferTask, queueVars

(* The steps of one executor.                                               *)
LEMMA ExecutorStepOK ==
    ASSUME IInv, NEW e \in exec, ExecutorStep(e)
    PROVE  QueueStepOK /\ RuntimeTypeOK' /\ job' # "planning"
<1> USE DEF IInv, TypeOK
<1>1. /\ job # "planning"
      /\ e \in Executors
      /\ e.task \in Tasks /\ e.run \in Nat
  BY DEF UnclaimedIsEmpty, RuntimeTypeOK, Executors
<1>2. /\ Failing(e) \in Executors
      /\ \A t \in Tasks : [e EXCEPT !.todo = @ \ {t}] \in Executors
      /\ \A B \in Batches[e.task] : [e EXCEPT !.phase = "saving", !.todo = B] \in Executors
  BY <1>1, RuntimeAssumption DEF Failing, Executors, Phases
<1>3. \A f \in Executors : Becomes(e, f) => exec' \subseteq Executors
  BY DEF Becomes, RuntimeTypeOK
<1>4. Leaves(e) => exec' \subseteq Executors
  BY DEF Leaves, RuntimeTypeOK
<1>5. CASE Answer(e)
  <2>1. exec' \subseteq Executors
    BY <1>2, <1>3, <1>5 DEF Answer
  <2>2. UNCHANGED <<queueVars, booting>>
    BY <1>5 DEF Answer
  <2> QED BY <1>1, <2>1, <2>2, QueueUnchanged, NeverUnclaimed DEF RuntimeTypeOK
<1>6. CASE \E t \in Tasks : EnsureTask(e, t)
  <2>1. PICK t \in Tasks : EnsureTask(e, t)
    BY <1>6
  <2>2. exec' \subseteq Executors
    BY <1>2, <1>3, <2>1 DEF EnsureTask
  <2>3. booting' = booting /\ (CreateTask(t) \/ UNCHANGED queueVars)
    BY <2>1 DEF EnsureTask
  <2>4. QueueStepOK
    BY <2>3, CreateTaskStep, QueueUnchanged
  <2> QED BY <1>1, <2>2, <2>3, <2>4, NeverUnclaimed DEF RuntimeTypeOK
<1>7. CASE StageError(e)
  <2>1. exec' \subseteq Executors
    BY <1>2, <1>3, <1>7 DEF StageError
  <2>2. UNCHANGED <<queueVars, booting>>
    BY <1>7 DEF StageError
  <2> QED BY <1>1, <2>1, <2>2, QueueUnchanged, NeverUnclaimed DEF RuntimeTypeOK
<1>8. CASE Defer(e)
  <2>1. exec' \subseteq Executors
    BY <1>2, <1>3, <1>4, <1>8 DEF Defer
  <2>2. booting' = booting /\ (DeferTask(e.task, e.run) \/ UNCHANGED queueVars)
    BY <1>8 DEF Defer
  <2>3. QueueStepOK
    BY <1>1, <2>2, DeferTaskStep, QueueUnchanged
  <2> QED BY <1>1, <2>1, <2>2, <2>3, NeverUnclaimed DEF RuntimeTypeOK
<1>9. CASE Complete(e)
  <2>1. exec' \subseteq Executors
    BY <1>2, <1>3, <1>4, <1>9 DEF Complete
  <2>2. booting' = booting /\ (CompleteTask(e.task, e.run) \/ UNCHANGED queueVars)
    BY <1>9 DEF Complete
  <2>3. QueueStepOK
    BY <1>1, <2>2, CompleteTaskStep, QueueUnchanged
  <2> QED BY <1>1, <2>1, <2>2, <2>3, NeverUnclaimed DEF RuntimeTypeOK
<1>10. CASE Fail(e)
  <2>1. exec' \subseteq Executors
    BY <1>4, <1>10 DEF Fail
  <2>2. booting' = booting /\ (FailTask(e.task, e.run) \/ UNCHANGED queueVars)
    BY <1>10 DEF Fail
  <2>3. QueueStepOK
    BY <1>1, <2>2, FailTaskStep, QueueUnchanged
  <2> QED BY <1>1, <2>1, <2>2, <2>3, NeverUnclaimed DEF RuntimeTypeOK
<1>11. CASE Abandon(e)
  <2>1. exec' \subseteq Executors
    BY <1>4, <1>11 DEF Abandon
  <2>2. UNCHANGED <<queueVars, booting>>
    BY <1>11 DEF Abandon
  <2> QED BY <1>1, <2>1, <2>2, QueueUnchanged, NeverUnclaimed DEF RuntimeTypeOK
<1> QED BY <1>5, <1>6, <1>7, <1>8, <1>9, <1>10, <1>11 DEF ExecutorStep

(* The steps of the runtime's loop, its executors included.                 *)
LEMMA RuntimeStepOK ==
    ASSUME IInv, RuntimeStep
    PROVE  QueueStepOK /\ RuntimeTypeOK' /\ UnclaimedIsEmpty'
<1> USE DEF IInv, TypeOK
<1>1. CASE ClaimJob
  <2>1. QueueStepOK
    BY <1>1, ClaimNextJobStep DEF ClaimJob
  <2> QED BY <1>1, <2>1 DEF ClaimJob, ClaimNextJob, RuntimeTypeOK, UnclaimedIsEmpty
<1>2. CASE Bootstrap
  <2>1. job # "planning"
    BY <1>2 DEF Bootstrap, UnclaimedIsEmpty
  <2>2. QueueStepOK
    BY <1>2, RuntimeAssumption, CreateTaskStep, QueueUnchanged DEF Bootstrap
  <2>3. job' # "planning"
    BY <1>2, <2>1, RuntimeAssumption, NeverUnclaimed DEF Bootstrap
  <2> QED BY <1>2, <2>2, <2>3 DEF Bootstrap, RuntimeTypeOK, UnclaimedIsEmpty
<1>3. ASSUME NEW t \in Tasks, Start(t)
      PROVE  QueueStepOK /\ RuntimeTypeOK' /\ UnclaimedIsEmpty'
  <2>1. QueueStepOK
    BY <1>3, ClaimTaskStep DEF Start
  <2>2. attempts'[t] \in Nat
    BY <2>1 DEF QueueStepOK, QueueTypeOK
  <2>3. exec' \subseteq Executors
    BY <1>3, <2>2 DEF Start, RuntimeTypeOK, Executors, Phases
  <2>4. job' # "planning"
    BY <1>3 DEF Start, ClaimTask, Ready
  <2> QED BY <1>3, <2>1, <2>3, <2>4 DEF Start, RuntimeTypeOK, UnclaimedIsEmpty
<1>4. ASSUME NEW t \in Tasks, Recover(t)
      PROVE  QueueStepOK /\ RuntimeTypeOK' /\ UnclaimedIsEmpty'
  <2>1. PICK n \in open[t] : FailTask(t, n)
    BY <1>4 DEF Recover, RequeueStale
  <2>2. n \in Nat
    BY DEF QueueTypeOK
  <2>3. job # "planning"
    BY <2>1 DEF FailTask, UnclaimedIsEmpty, Created
  <2>4. QueueStepOK /\ job' # "planning"
    BY <2>1, <2>2, <2>3, FailTaskStep, NeverUnclaimed
  <2> QED BY <1>4, <2>4 DEF Recover, RuntimeTypeOK, runtimeVars, UnclaimedIsEmpty
<1>5. ASSUME NEW t \in Tasks, Elapse(t)
      PROVE  QueueStepOK /\ RuntimeTypeOK' /\ UnclaimedIsEmpty'
  <2>1. QueueStepOK
    BY <1>5, WaitElapsesStep DEF Elapse
  <2> QED BY <1>5, <2>1 DEF Elapse, WaitElapses, RuntimeTypeOK, runtimeVars,
                            UnclaimedIsEmpty, Created
<1>6. ASSUME NEW e \in exec, ExecutorStep(e)
      PROVE  QueueStepOK /\ RuntimeTypeOK' /\ UnclaimedIsEmpty'
  BY <1>6, ExecutorStepOK DEF UnclaimedIsEmpty
<1> QED BY <1>1, <1>2, <1>3, <1>4, <1>5, <1>6 DEF RuntimeStep

-----------------------------------------------------------------------------
(* The owner's statements.  A requeue may only bring back steps that are    *)
(* neither running nor done, which is what keeps FinalOnce and              *)
(* DeliveredOnce whatever the statements are interleaved with.              *)
LEMMA OwnerRowsOK ==
    ASSUME QueueTypeOK, QueueSafe, QueueTypeOK',
           UNCHANGED <<job, attempts, runRows, results, finals>>,
           \A t \in Tasks : status'[t] = status[t]
                            \/ (status[t] \notin {"running", "done"} /\ status'[t] \notin {"running", "done"})
    PROVE  QueueStepOK
<1>1. QueueSafe'
  BY DEF QueueSafe, FinalOnce, DeliveredOnce, RunningIsRecoverable, AnsweredIsQuiet, runRows
<1>2. UNCHANGED Promise!vars
  BY DEF Promise!vars
<1> QED BY <1>1, <1>2 DEF QueueStepOK

LEMMA OwnerStepOK ==
    ASSUME IInv, OwnerStep
    PROVE  QueueStepOK /\ OwnerTypeOK' /\ RuntimeTypeOK' /\ UnclaimedIsEmpty'
<1> USE DEF IInv, TypeOK
<1>1. \A s \in TabStates, o \in Tabs : Goes(o, s) => tab' \in [Tabs -> TabStates]
  BY DEF Goes, OwnerTypeOK
<1>2. Idle \in TabStates /\ \A s \in {"idle", "skip", "cancel", "load", "requeue"} : At(s) \in TabStates
  BY DEF Idle, At, TabStates
<1>3. ASSUME UNCHANGED <<queueVars, runtimeVars>>
      PROVE  QueueStepOK /\ RuntimeTypeOK' /\ UnclaimedIsEmpty'
  BY <1>3, QueueUnchanged DEF queueVars, taskRows, runtimeVars, RuntimeTypeOK, UnclaimedIsEmpty, Created
<1>4. PICK o \in Tabs :
          \/ StopRead(o) \/ StopSkip(o) \/ StopCancel(o)
          \/ ResumeRead(o) \/ ResumeLoad(o) \/ ResumeReopen(o)
          \/ \E r \in tab[o].todo : ResumeRequeue(o, r)
          \/ RequestFails(o)
  BY DEF OwnerStep
<1>5. CASE StopRead(o) \/ ResumeRead(o)
  <2>1. clicks' \in 0..MaxClicks
    BY <1>5, OwnerAssumption DEF StopRead, ResumeRead, Click, OwnerTypeOK
  <2> QED BY <1>1, <1>2, <1>3, <1>5, <2>1 DEF StopRead, ResumeRead, Click, OwnerTypeOK
<1>6. CASE StopSkip(o)
  <2>1. QueueTypeOK'
    BY <1>6 DEF StopSkip, QueueTypeOK, TaskStatus, runRows
  <2>2. QueueStepOK
    BY <1>6, <2>1, OwnerRowsOK DEF StopSkip, QueueTypeOK
  <2>3. job = "planning" => \A t \in Tasks : status'[t] = "absent"
    BY <1>6 DEF StopSkip, UnclaimedIsEmpty, Created
  <2> QED BY <1>1, <1>2, <1>6, <2>2, <2>3 DEF StopSkip, OwnerTypeOK, RuntimeTypeOK, runtimeVars,
                                         UnclaimedIsEmpty, Created
<1>7. CASE StopCancel(o)
  <2>1. QueueTypeOK'
    BY <1>7 DEF StopCancel, QueueTypeOK, JobStatus, taskRows, runRows
  <2>2. QueueSafe'
    BY <1>7 DEF StopCancel, QueueSafe, FinalOnce, DeliveredOnce, RunningIsRecoverable,
                AnsweredIsQuiet, OpenJob, taskRows, runRows
  <2>3. Promise!Stop \/ UNCHANGED Promise!vars
    BY <1>7 DEF StopCancel, Promise!Stop, Promise!Open, Promise!vars, OpenJob, taskRows
  <2>4. QueueStepOK
    BY <2>1, <2>2, <2>3 DEF QueueStepOK, Promise!Next
  <2>5. job' # "planning"
    BY <1>7 DEF StopCancel, OpenJob
  <2> QED BY <1>1, <1>2, <1>7, <2>4, <2>5 DEF StopCancel, OwnerTypeOK, RuntimeTypeOK, runtimeVars,
                                         UnclaimedIsEmpty
<1>8. CASE ResumeLoad(o)
  <2>1. [step |-> "requeue",
         todo |-> {[task |-> t, status |-> status[t], attempts |-> attempts[t]] :
                       t \in Unfinished}] \in TabStates
    BY DEF Unfinished, TabStates, Snapshots, QueueTypeOK
  <2> QED BY <1>1, <1>2, <1>3, <1>8, <2>1 DEF ResumeLoad, OwnerTypeOK
<1>9. CASE \E r \in tab[o].todo : ResumeRequeue(o, r)
  <2>1. PICK r \in tab[o].todo : ResumeRequeue(o, r)
    BY <1>9
  <2>2. tab[o] \in TabStates /\ r \in Snapshots
    BY DEF OwnerTypeOK, TabStates
  <2>3. r.task \in Tasks /\ r.status \in UnfinishedTask /\ r.attempts \in Nat
    BY <2>2 DEF Snapshots
  <2>4. [tab[o] EXCEPT !.todo = @ \ {r}] \in TabStates
    BY <2>2 DEF TabStates
  <2>5. QueueTypeOK'
    BY <2>1, <2>3, QueueAssumption DEF ResumeRequeue, StillLoaded, QueueTypeOK, TaskStatus, ResumeAttempts, runRows
  <2>6. QueueStepOK
    BY <2>1, <2>3, <2>5, OwnerRowsOK DEF ResumeRequeue, StillLoaded, QueueTypeOK, UnfinishedTask
  <2>7. job = "planning" => \A t \in Tasks : status'[t] = "absent"
    BY <2>1, <2>3 DEF ResumeRequeue, StillLoaded, UnclaimedIsEmpty, Created, UnfinishedTask
  <2> QED BY <1>1, <2>1, <2>4, <2>6, <2>7 DEF ResumeRequeue, StillLoaded, OwnerTypeOK, RuntimeTypeOK, runtimeVars,
                                         UnclaimedIsEmpty, Created
<1>10. CASE ResumeReopen(o)
  <2>1. QueueTypeOK'
    BY <1>10 DEF ResumeReopen, MayReopen, QueueTypeOK, JobStatus, taskRows, runRows
  <2>2. QueueSafe'
    BY <1>10 DEF ResumeReopen, MayReopen, QueueSafe, FinalOnce, DeliveredOnce, RunningIsRecoverable,
                 AnsweredIsQuiet, ResumableJob, taskRows, runRows
  <2>3. Promise!Resume \/ UNCHANGED Promise!vars
    BY <1>10 DEF ResumeReopen, MayReopen, Promise!Resume, Promise!Stopped, Promise!vars, ResumableJob, taskRows
  <2>4. QueueStepOK
    BY <2>1, <2>2, <2>3 DEF QueueStepOK, Promise!Next
  <2>5. job' = "planning" => job = "planning"
    BY <1>10 DEF ResumeReopen, MayReopen, ResumableJob
  <2> QED BY <1>1, <1>2, <1>10, <2>4, <2>5 DEF ResumeReopen, OwnerTypeOK, RuntimeTypeOK, runtimeVars,
                                         UnclaimedIsEmpty, Created, taskRows
<1>11. CASE RequestFails(o)
  BY <1>1, <1>2, <1>3, <1>11 DEF RequestFails, OwnerTypeOK
<1> QED BY <1>4, <1>5, <1>6, <1>7, <1>8, <1>9, <1>10, <1>11

LEMMA ProcessDiesOK ==
    ASSUME IInv, ProcessDies
    PROVE  QueueStepOK /\ OwnerTypeOK' /\ RuntimeTypeOK' /\ UnclaimedIsEmpty'
<1>1. QueueStepOK
  BY QueueUnchanged DEF IInv, TypeOK, ProcessDies, Crash
<1>2. OwnerTypeOK'
  BY DEF IInv, TypeOK, OwnerTypeOK, ProcessDies, Idle, TabStates
<1> QED BY <1>1, <1>2 DEF ProcessDies, Crash, RuntimeTypeOK, UnclaimedIsEmpty, IInv,
                          Created, queueVars, taskRows

-----------------------------------------------------------------------------
LEMMA InitOK == Init => IInv /\ Promise!Init
<1> SUFFICES ASSUME Init PROVE IInv /\ Promise!Init
  OBVIOUS
<1> USE DEF Init, QueueInit, RuntimeInit
<1>1. QueueTypeOK
  BY QueueAssumption DEF QueueTypeOK, JobStatus, TaskStatus
<1>2. RuntimeTypeOK /\ OwnerTypeOK
  <2>1. tab \in [Tabs -> TabStates] /\ clicks \in 0..MaxClicks
    BY OwnerAssumption DEF Idle, TabStates
  <2>2. booting \in BOOLEAN
    OBVIOUS
  <2>3. exec \subseteq Executors
    OBVIOUS
  <2> QED BY <2>1, <2>2, <2>3 DEF RuntimeTypeOK, OwnerTypeOK
<1>3. QueueSafe /\ UnclaimedIsEmpty
  BY DEF QueueSafe, FinalOnce, DeliveredOnce, RunningIsRecoverable, AnsweredIsQuiet,
         UnclaimedIsEmpty, Created
<1>4. Promise!Init
  BY DEF Promise!Init
<1> QED BY <1>1, <1>2, <1>3, <1>4 DEF IInv, TypeOK

LEMMA StepOK == IInv /\ [Next]_vars => IInv' /\ [Promise!Next]_(Promise!vars)
<1> SUFFICES ASSUME IInv, [Next]_vars
             PROVE  IInv' /\ [Promise!Next]_(Promise!vars)
  OBVIOUS
<1>1. CASE RuntimeStep /\ UNCHANGED ownerVars
  <2>1. OwnerTypeOK'
    BY <1>1 DEF IInv, TypeOK, OwnerTypeOK, ownerVars
  <2> QED BY <1>1, <2>1, RuntimeStepOK DEF QueueStepOK, IInv, TypeOK
<1>2. CASE OwnerStep
  BY <1>2, OwnerStepOK DEF QueueStepOK, IInv, TypeOK
<1>3. CASE ProcessDies
  BY <1>3, ProcessDiesOK DEF QueueStepOK, IInv, TypeOK
<1>4. CASE UNCHANGED vars
  <2>1. QueueStepOK
    BY <1>4, QueueUnchanged DEF vars, IInv, TypeOK
  <2>2. RuntimeTypeOK' /\ OwnerTypeOK' /\ UnclaimedIsEmpty'
    BY <1>4 DEF vars, runtimeVars, ownerVars, queueVars, taskRows, IInv, TypeOK, RuntimeTypeOK,
                OwnerTypeOK, UnclaimedIsEmpty, Created
  <2> QED BY <2>1, <2>2 DEF QueueStepOK, IInv, TypeOK
<1> QED BY <1>1, <1>2, <1>3, <1>4 DEF Next

(* IInv is an invariant of the whole system.                                *)
THEOREM Inductive == Spec => []IInv
<1>1. Init => IInv
  BY InitOK
<1>2. IInv /\ [Next]_vars => IInv'
  BY StepOK
<1> QED BY <1>1, <1>2, PTL DEF Spec

(* Every row, executor and request always has the values the code gives it. *)
THEOREM TypeCorrect == Spec => []TypeOK
BY Inductive, PTL DEF IInv

(* Whatever crashes, late executors and racing owner requests do, an        *)
(* objective is answered exactly when it is completed and only once.        *)
THEOREM AnsweredOnce == Spec => []FinalOnce
<1>1. IInv => FinalOnce
  BY DEF IInv, QueueSafe
<1> QED BY <1>1, Inductive, PTL

(* Every step is delivered exactly once.                                    *)
THEOREM ExactlyOnceDelivery == Spec => []DeliveredOnce
<1>1. IInv => DeliveredOnce
  BY DEF IInv, QueueSafe
<1> QED BY <1>1, Inductive, PTL

(* requeue_stale_tasks can always recover a running step.                   *)
THEOREM AlwaysRecoverable == Spec => []RunningIsRecoverable
<1>1. IInv => RunningIsRecoverable
  BY DEF IInv, QueueSafe
<1> QED BY <1>1, Inductive, PTL

(* Nothing runs after the final answer.                                     *)
THEOREM QuietAfterAnswer == Spec => []AnsweredIsQuiet
<1>1. IInv => AnsweredIsQuiet
  BY DEF IInv, QueueSafe
<1> QED BY <1>1, Inductive, PTL

(* What was delivered or answered stays so, and is not worked on again.      *)
THEOREM AnswersAreFinal == Spec => []AnswersStand
BY AnsweredOnce, ExactlyOnceDelivery, QuietAfterAnswer, PTL DEF AnswersStand

(* Runtime, recovery and owner together implement Objective: deliveries are *)
(* never taken back and a completed objective is never reopened.            *)
THEOREM Refinement == Spec => ImplementsObjective
<1>1. Init => Promise!Init
  BY InitOK
<1>2. IInv /\ [Next]_vars => [Promise!Next]_(Promise!vars)
  BY StepOK
<1> QED BY <1>1, <1>2, Inductive, PTL DEF Spec, ImplementsObjective, Promise!Spec

(***************************************************************************)
(* What the runtime promises on its own (no owner request), for any        *)
(* workflow and any number of slots, retries and waits.                    *)
(***************************************************************************)

(* No owner stops or resumes the objective.                                 *)
NoOwner == OwnerActions = {}

(* The plan of an objective is well founded: a step is written after the    *)
(* steps it depends on, so every group of steps has one that depends on     *)
(* none of the others.                                                      *)
DepsWritten == \A t \in Created : Deps[t] \subseteq Created
WellFounded == \A S \in SUBSET Created : S # {} => \E s \in S : Deps[s] \cap S = {}

(* A step that runs or is delivered has everything it depends on.           *)
BuiltOnDone ==
    \A t \in Tasks : status[t] \in {"running", "done"} =>
        \A d \in Deps[t] : status[d] = "done"

(* While the job runs nothing has been given up and something is left to    *)
(* do; a failed job keeps its failed step, so it is never answered.         *)
NothingSkipped == \A t \in Tasks : status[t] # "skipped"
StillHopeful ==
    job = "running" =>
        /\ \A t \in Tasks : status[t] \in {"absent", "queued", "running", "done"}
        /\ Created # {} => \E t \in Created : status[t] # "done"
GaveUpOn == job = "failed" => \E t \in Tasks : status[t] = "failed"
NotCancelled == job # "cancelled"

PlanSafe ==
    /\ DepsWritten /\ WellFounded /\ BuiltOnDone
    /\ NothingSkipped /\ StillHopeful /\ GaveUpOn /\ NotCancelled

-----------------------------------------------------------------------------
(* No operator of the queue takes a step away.                              *)
LEMMA SameSteps ==
    ASSUME Created' = Created, DepsWritten, WellFounded
    PROVE  DepsWritten' /\ WellFounded'
BY DEF DepsWritten, WellFounded

LEMMA CreatesPlan ==
    ASSUME QueueTypeOK, PlanSafe, NEW t \in Tasks, CreateTask(t)
    PROVE  PlanSafe'
<1> USE DEF QueueTypeOK, CreateTask
<1>1. Created' = Created \cup {t} /\ t \notin Created
  BY DEF Created
<1>2. DepsWritten'
  BY <1>1 DEF PlanSafe, DepsWritten
<1>3. WellFounded'
  <2> SUFFICES ASSUME NEW S \in SUBSET (Created \cup {t}), S # {}
               PROVE  \E s \in S : Deps[s] \cap S = {}
    BY <1>1 DEF WellFounded
  <2>1. CASE S \ {t} = {}
    <3>1. S = {t}
      BY <2>1
    <3> QED BY <1>1, <3>1
  <2>2. CASE S \ {t} # {}
    <3>1. PICK s \in S \ {t} : Deps[s] \cap (S \ {t}) = {}
      BY <2>2 DEF PlanSafe, WellFounded
    <3>2. t \notin Deps[s]
      BY <1>1, <3>1 DEF PlanSafe, DepsWritten
    <3> QED BY <3>1, <3>2
  <2> QED BY <2>1, <2>2
<1>4. BuiltOnDone'
  BY QueueAssumption DEF PlanSafe, BuiltOnDone
<1>5. NothingSkipped' /\ StillHopeful' /\ GaveUpOn' /\ NotCancelled'
  BY <1>1 DEF PlanSafe, NothingSkipped, StillHopeful, GaveUpOn, NotCancelled
<1> QED BY <1>2, <1>3, <1>4, <1>5 DEF PlanSafe

LEMMA ClaimsPlan ==
    ASSUME QueueTypeOK, PlanSafe, NEW t \in Tasks, ClaimTask(t)
    PROVE  PlanSafe'
<1> USE DEF QueueTypeOK, ClaimTask
<1>1. Created' = Created /\ t \in Created
  BY DEF Created, Ready
<1>2. DepsWritten' /\ WellFounded'
  BY <1>1, SameSteps DEF PlanSafe
<1>3. \A d \in Deps[t] : status[d] = "done"
  BY QueueAssumption DEF Ready, Finished, PlanSafe, NothingSkipped
<1>4. BuiltOnDone'
  BY <1>3, QueueAssumption DEF PlanSafe, BuiltOnDone, Ready
<1>5. NothingSkipped' /\ StillHopeful' /\ GaveUpOn' /\ NotCancelled'
  BY <1>1 DEF PlanSafe, NothingSkipped, StillHopeful, GaveUpOn, NotCancelled, Ready
<1> QED BY <1>2, <1>4, <1>5 DEF PlanSafe

LEMMA CompletesPlan ==
    ASSUME QueueTypeOK, PlanSafe, NEW t \in Tasks, NEW n \in Nat, CompleteTask(t, n)
    PROVE  PlanSafe'
<1> USE DEF QueueTypeOK, CompleteTask, MayComplete
<1>1. Created' = Created /\ t \in Created
  BY DEF Created
<1>2. DepsWritten' /\ WellFounded'
  BY <1>1, SameSteps DEF PlanSafe
<1>3. BuiltOnDone'
  BY QueueAssumption DEF PlanSafe, BuiltOnDone
<1>4. NothingSkipped' /\ NotCancelled'
  BY DEF PlanSafe, NothingSkipped, NotCancelled
<1>5. StillHopeful'
  <2> SUFFICES ASSUME job' = "running"
               PROVE  /\ \A u \in Tasks : status'[u] \in {"absent", "queued", "running", "done"}
                      /\ \E u \in Created : status'[u] # "done"
    BY <1>1 DEF StillHopeful
  <2>1. job = "running" /\ ~AllOthersFinished(t)
    OBVIOUS
  <2>2. \E u \in Created \ {t} : status[u] # "done"
    BY <2>1 DEF AllOthersFinished, Finished
  <2> QED BY <2>1, <2>2 DEF PlanSafe, StillHopeful, Created
<1>6. GaveUpOn'
  BY DEF PlanSafe, GaveUpOn
<1> QED BY <1>2, <1>3, <1>4, <1>5, <1>6 DEF PlanSafe

LEMMA FailsPlan ==
    ASSUME QueueTypeOK, PlanSafe, NEW t \in Tasks, NEW n \in Nat, FailTask(t, n)
    PROVE  PlanSafe'
<1> USE DEF QueueTypeOK, FailTask
<1>1. Created' = Created /\ t \in Created
  BY DEF Created
<1>2. DepsWritten' /\ WellFounded'
  BY <1>1, SameSteps DEF PlanSafe
<1>3. \A u \in Tasks : /\ status'[u] \in {"running", "done"} => status[u] = status'[u]
                       /\ status[u] = "done" => status'[u] = "done"
  OBVIOUS
<1>4. BuiltOnDone'
  BY <1>3, QueueAssumption DEF PlanSafe, BuiltOnDone
<1>5. NothingSkipped' /\ NotCancelled'
  BY DEF PlanSafe, NothingSkipped, NotCancelled
<1>6. StillHopeful'
  BY <1>1 DEF PlanSafe, StillHopeful
<1>7. GaveUpOn'
  <2>1. CASE RetriesLeft(t)
    BY <2>1 DEF PlanSafe, GaveUpOn
  <2>2. CASE ~RetriesLeft(t)
    BY <2>2 DEF GaveUpOn
  <2> QED BY <2>1, <2>2
<1> QED BY <1>2, <1>4, <1>5, <1>6, <1>7 DEF PlanSafe

LEMMA DefersPlan ==
    ASSUME QueueTypeOK, PlanSafe, NEW t \in Tasks, NEW n \in Nat, DeferTask(t, n)
    PROVE  PlanSafe'
<1> USE DEF QueueTypeOK, DeferTask, MayDefer
<1>1. Created' = Created /\ t \in Created
  BY DEF Created
<1>2. DepsWritten' /\ WellFounded'
  BY <1>1, SameSteps DEF PlanSafe
<1>3. BuiltOnDone'
  BY QueueAssumption DEF PlanSafe, BuiltOnDone
<1>4. NothingSkipped' /\ NotCancelled' /\ StillHopeful' /\ GaveUpOn'
  BY <1>1 DEF PlanSafe, NothingSkipped, NotCancelled, StillHopeful, GaveUpOn
<1> QED BY <1>2, <1>3, <1>4 DEF PlanSafe

LEMMA StatusKeepsPlan ==
    ASSUME PlanSafe, UNCHANGED status,
           UNCHANGED job \/ (job' = "running" /\ Created = {})
    PROVE  PlanSafe'
<1>1. Created' = Created
  BY DEF Created
<1>2. DepsWritten' /\ WellFounded'
  BY <1>1, SameSteps DEF PlanSafe
<1>3. BuiltOnDone' /\ NothingSkipped'
  BY DEF PlanSafe, BuiltOnDone, NothingSkipped
<1>4. StillHopeful' /\ GaveUpOn' /\ NotCancelled'
  BY <1>1 DEF PlanSafe, StillHopeful, GaveUpOn, NotCancelled, Created
<1> QED BY <1>2, <1>3, <1>4 DEF PlanSafe

-----------------------------------------------------------------------------
(* Everything the runtime does to the rows is one operator of the queue.    *)
LEMMA RuntimeMoves ==
    ASSUME IInv, RuntimeStep
    PROVE  \/ ClaimNextJob
           \/ \E t \in Tasks : CreateTask(t) \/ ClaimTask(t) \/ WaitElapses(t)
           \/ \E t \in Tasks, n \in Nat : CompleteTask(t, n) \/ FailTask(t, n) \/ DeferTask(t, n)
           \/ UNCHANGED queueVars
<1>1. \A e \in exec : e.task \in Tasks /\ e.run \in Nat
  BY DEF IInv, TypeOK, RuntimeTypeOK, Executors
<1>2. CASE ClaimJob \/ Bootstrap
  BY <1>2, RuntimeAssumption DEF ClaimJob, Bootstrap
<1>3. CASE \E t \in Tasks : Start(t) \/ Recover(t) \/ Elapse(t)
  BY <1>3 DEF Start, Recover, Elapse, RequeueStale, IInv, TypeOK, QueueTypeOK
<1>4. ASSUME NEW e \in exec, ExecutorStep(e)
      PROVE  \/ \E t \in Tasks : CreateTask(t)
             \/ CompleteTask(e.task, e.run) \/ FailTask(e.task, e.run) \/ DeferTask(e.task, e.run)
             \/ UNCHANGED queueVars
  <2>1. CASE Answer(e) \/ StageError(e) \/ Abandon(e)
    BY <2>1 DEF Answer, StageError, Abandon
  <2>2. CASE \E t \in Tasks : EnsureTask(e, t)
    BY <2>2 DEF EnsureTask
  <2>3. CASE Defer(e)
    BY <2>3 DEF Defer
  <2>4. CASE Complete(e)
    BY <2>4 DEF Complete
  <2>5. CASE Fail(e)
    BY <2>5 DEF Fail
  <2> QED BY <1>4, <2>1, <2>2, <2>3, <2>4, <2>5 DEF ExecutorStep
<1> QED BY <1>1, <1>2, <1>3, <1>4 DEF RuntimeStep

LEMMA RuntimeKeepsPlan ==
    ASSUME IInv, PlanSafe, RuntimeStep
    PROVE  PlanSafe'
<1> USE DEF IInv, TypeOK
<1>1. CASE ClaimNextJob
  BY <1>1, StatusKeepsPlan DEF ClaimNextJob, taskRows, UnclaimedIsEmpty
<1>2. ASSUME NEW t \in Tasks, CreateTask(t) \/ ClaimTask(t) \/ WaitElapses(t)
      PROVE  PlanSafe'
  BY <1>2, CreatesPlan, ClaimsPlan, StatusKeepsPlan DEF WaitElapses
<1>3. ASSUME NEW t \in Tasks, NEW n \in Nat,
             CompleteTask(t, n) \/ FailTask(t, n) \/ DeferTask(t, n)
      PROVE  PlanSafe'
  BY <1>3, CompletesPlan, FailsPlan, DefersPlan
<1>4. CASE UNCHANGED queueVars
  BY <1>4, StatusKeepsPlan DEF queueVars, taskRows
<1> QED BY <1>1, <1>2, <1>3, <1>4, RuntimeMoves

(* With no owner there is never a request, and every step is one of the     *)
(* runtime's or the end of its process.                                     *)
LEMMA NoOwnerSteps ==
    ASSUME NoOwner, NoRequest, [Next]_vars
    PROVE  NoRequest' /\ (RuntimeStep \/ Crash \/ UNCHANGED <<queueVars, runtimeVars>>)
<1>1. ~OwnerStep
  <2>1. Idle.step = "idle"
    BY DEF Idle
  <2>2. \A o \in Tabs : tab[o] = Idle
    BY DEF NoRequest
  <2>3. \A o \in Tabs : ~StopRead(o) /\ ~ResumeRead(o)
    BY DEF NoOwner, StopRead, ResumeRead, Click
  <2>4. \A o \in Tabs : /\ ~StopSkip(o) /\ ~StopCancel(o) /\ ~ResumeLoad(o) /\ ~ResumeReopen(o)
                       /\ ~RequestFails(o)
                       /\ \A r \in tab[o].todo : ~ResumeRequeue(o, r)
    BY <2>1, <2>2 DEF StopSkip, StopCancel, ResumeLoad, ResumeReopen, ResumeRequeue, RequestFails
  <2> QED BY <2>3, <2>4 DEF OwnerStep
<1>2. CASE RuntimeStep /\ UNCHANGED ownerVars
  BY <1>2 DEF ownerVars, NoRequest
<1>3. CASE ProcessDies
  BY <1>3 DEF ProcessDies, NoRequest
<1>4. CASE UNCHANGED vars
  BY <1>4 DEF vars, ownerVars, NoRequest
<1> QED BY <1>1, <1>2, <1>3, <1>4 DEF Next

LEMMA PlanInvariant == NoOwner => (Spec => [](NoRequest /\ PlanSafe))
<1> SUFFICES ASSUME NoOwner PROVE Spec => [](NoRequest /\ PlanSafe)
  OBVIOUS
<1>1. Init => NoRequest /\ PlanSafe
  BY DEF Init, QueueInit, NoRequest, PlanSafe, DepsWritten, WellFounded, BuiltOnDone,
         NothingSkipped, StillHopeful, GaveUpOn, NotCancelled, Created
<1>2. IInv /\ NoRequest /\ PlanSafe /\ [Next]_vars => (NoRequest /\ PlanSafe)'
  <2> SUFFICES ASSUME IInv, NoRequest, PlanSafe, [Next]_vars
               PROVE  NoRequest' /\ PlanSafe'
    OBVIOUS
  <2>1. UNCHANGED queueVars => PlanSafe'
    BY StatusKeepsPlan DEF queueVars, taskRows
  <2> QED BY <2>1, NoOwnerSteps, RuntimeKeepsPlan DEF Crash
<1> QED BY <1>1, <1>2, Inductive, PTL DEF Spec

(* Of the steps still to be delivered, one depends on none of the others:   *)
(* it runs, or it can be claimed now or after its wait.                     *)
THEOREM SomethingToDo == NoOwner => (Spec => []NeverStranded)
<1> SUFFICES ASSUME NoOwner PROVE Spec => []NeverStranded
  OBVIOUS
<1>1. ASSUME IInv, PlanSafe PROVE NeverStranded
  <2> SUFFICES ASSUME job = "running", Created # {}
               PROVE  \E t \in Tasks : CanProgress(t)
    BY DEF NeverStranded
  <2> DEFINE Left == {t \in Created : status[t] # "done"}
  <2>1. Left # {} /\ Left \in SUBSET Created
    BY <1>1 DEF PlanSafe, StillHopeful
  <2>2. PICK t \in Left : Deps[t] \cap Left = {}
    BY <1>1, <2>1 DEF PlanSafe, WellFounded
  <2>3. \A d \in Deps[t] : status[d] = "done"
    BY <1>1, <2>2 DEF PlanSafe, DepsWritten
  <2>4. t \in Tasks /\ status[t] \in {"queued", "running"}
    BY <1>1 DEF PlanSafe, StillHopeful, Created
  <2> QED BY <2>3, <2>4 DEF CanProgress, Finished
<1> QED BY <1>1, Inductive, PlanInvariant, PTL

-----------------------------------------------------------------------------
(* Every run of an undelivered step is accounted for, and a deferral grants *)
(* the attempt it used up.                                                  *)
OpenIsLatest ==
    \A t \in Tasks : open[t] = IF status[t] = "running" THEN {attempts[t]} ELSE {}
RunsAddUp ==
    \A t \in Tasks : status[t] # "done" =>
        failed[t] \cup deferred[t] \cup open[t] = 1..attempts[t]
WaitsAreFree ==
    \A t \in Tasks :
        /\ IsFiniteSet(failed[t]) /\ IsFiniteSet(deferred[t])
        /\ Cardinality(deferred[t]) <= waits[t]
        /\ status[t] = "absent" => waits[t] = 0
        /\ status[t] # "absent" => maxAttempts[t] = MaxAttempts + waits[t]

FailedOften ==
    \A t \in Tasks : status[t] = "failed" => Cardinality(failed[t]) >= MaxAttempts

RunsSafe == OpenIsLatest /\ RunsAddUp /\ WaitsAreFree /\ FailedOften

LEMMA CreateKeepsRuns ==
    ASSUME QueueTypeOK, RunsSafe, NEW t \in Tasks, CreateTask(t)
    PROVE  RunsSafe'
<1> USE DEF QueueTypeOK, CreateTask, runRows, RunsSafe
<1>1. OpenIsLatest'
  BY DEF OpenIsLatest
<1>2. RunsAddUp'
  BY DEF RunsAddUp
<1>3. WaitsAreFree'
  BY QueueAssumption DEF WaitsAreFree
<1>4. FailedOften'
  BY DEF FailedOften
<1> QED BY <1>1, <1>2, <1>3, <1>4

LEMMA ClaimKeepsRuns ==
    ASSUME QueueTypeOK, RunsSafe, NEW t \in Tasks, ClaimTask(t)
    PROVE  RunsSafe'
<1> USE DEF QueueTypeOK, ClaimTask, Ready, NextRun, RunsSafe
<1>1. OpenIsLatest'
  BY DEF OpenIsLatest
<1>2. RunsAddUp'
  <2> SUFFICES ASSUME NEW u \in Tasks, status'[u] # "done"
               PROVE  (failed[u] \cup deferred[u] \cup open[u])' = 1..attempts'[u]
    BY DEF RunsAddUp
  <2>1. CASE u = t
    <3>1. failed[t] \cup deferred[t] \cup open[t] = 1..attempts[t] /\ attempts[t] \in Nat
      BY DEF RunsAddUp
    <3>2. 1..(attempts[t] + 1) = (1..attempts[t]) \cup {attempts[t] + 1}
      BY <3>1
    <3> QED BY <2>1, <3>1, <3>2
  <2>2. CASE u # t
    BY <2>2 DEF RunsAddUp
  <2> QED BY <2>1, <2>2
<1>3. WaitsAreFree'
  BY DEF WaitsAreFree
<1>4. FailedOften'
  BY DEF FailedOften
<1> QED BY <1>1, <1>2, <1>3, <1>4

LEMMA CompleteKeepsRuns ==
    ASSUME QueueTypeOK, RunsSafe, NEW t \in Tasks, CompleteTask(t, attempts[t])
    PROVE  RunsSafe'
<1> USE DEF QueueTypeOK, CompleteTask, MayComplete, RunsSafe
<1>1. OpenIsLatest'
  BY DEF OpenIsLatest
<1>2. RunsAddUp'
  BY DEF RunsAddUp
<1>3. WaitsAreFree'
  BY DEF WaitsAreFree
<1>4. FailedOften'
  BY DEF FailedOften
<1> QED BY <1>1, <1>2, <1>3, <1>4

(* The runs of a step that has just been closed are its attempts, and all   *)
(* of them but the deferred ones have failed.                               *)
LEMMA EnoughFailed ==
    ASSUME NEW F, NEW D, NEW n \in Nat, NEW w \in Nat, NEW b \in Nat,
           IsFiniteSet(F), IsFiniteSet(D), F \cup D = 1..n,
           Cardinality(D) <= w, n >= b + w
    PROVE  Cardinality(F) >= b
<1>1. Cardinality(1..n) = n
  BY FS_Interval
<1>2. /\ Cardinality(F \cup D) = Cardinality(F) + Cardinality(D) - Cardinality(F \cap D)
      /\ IsFiniteSet(F \cap D)
  BY FS_Union, FS_Intersection
<1>3. Cardinality(F) \in Nat /\ Cardinality(D) \in Nat /\ Cardinality(F \cap D) \in Nat
  BY <1>2, FS_CardinalityType
<1>4. n = Cardinality(F) + Cardinality(D) - Cardinality(F \cap D)
  BY <1>1, <1>2
<1> DEFINE f == Cardinality(F)
           d == Cardinality(D)
           both == Cardinality(F \cap D)
<1>5. f \in Nat /\ d \in Nat /\ both \in Nat /\ n = f + d - both /\ d <= w
  BY <1>3, <1>4
<1> HIDE DEF f, d, both
<1>6. f >= b
  BY <1>5
<1> QED BY <1>6 DEF f

LEMMA FailKeepsRuns ==
    ASSUME QueueTypeOK, RunsSafe, NEW t \in Tasks, FailTask(t, attempts[t])
    PROVE  RunsSafe'
<1> USE DEF QueueTypeOK, RunsSafe
<1>1. /\ status[t] = "running" /\ status'[t] \in {"queued", "failed"}
      /\ \A u \in Tasks \ {t} : \/ status'[u] = status[u]
                                \/ status[u] = "queued" /\ status'[u] = "blocked"
  BY DEF FailTask
<1>2. /\ failed' = [failed EXCEPT ![t] = @ \cup {attempts[t]}]
      /\ open' = [open EXCEPT ![t] = @ \ {attempts[t]}]
      /\ deferred' = [deferred EXCEPT ![t] = @ \ {attempts[t]}]
      /\ UNCHANGED <<attempts, maxAttempts, waits>>
  BY DEF FailTask, MarkRunFailed
<1>3. OpenIsLatest'
  BY <1>1, <1>2 DEF OpenIsLatest
<1>4. /\ open'[t] = {}
      /\ failed'[t] \cup deferred'[t] = 1..attempts[t]
  BY <1>1, <1>2 DEF OpenIsLatest, RunsAddUp
<1>5. RunsAddUp'
  BY <1>1, <1>2, <1>4 DEF RunsAddUp
<1>6. WaitsAreFree'
  <2>1. IsFiniteSet(failed[t]) /\ IsFiniteSet(deferred[t]) /\ Cardinality(deferred[t]) <= waits[t]
    BY DEF WaitsAreFree
  <2>2. IsFiniteSet(failed'[t])
    BY <1>2, <2>1, FS_AddElement
  <2>3. /\ IsFiniteSet(deferred'[t])
        /\ Cardinality(deferred'[t]) <= Cardinality(deferred[t])
    BY <1>2, <2>1, FS_Subset
  <2>4. /\ Cardinality(deferred'[t]) \in Nat /\ Cardinality(deferred[t]) \in Nat
        /\ waits[t] \in Nat
    BY <2>1, <2>3, FS_CardinalityType, QueueAssumption
  <2>5. Cardinality(deferred'[t]) <= waits[t]
    BY <2>1, <2>3, <2>4
  <2> SUFFICES ASSUME NEW u \in Tasks
               PROVE  /\ IsFiniteSet(failed'[u]) /\ IsFiniteSet(deferred'[u])
                      /\ Cardinality(deferred'[u]) <= waits'[u]
                      /\ status'[u] = "absent" => waits'[u] = 0
                      /\ status'[u] # "absent" => maxAttempts'[u] = MaxAttempts + waits'[u]
    BY DEF WaitsAreFree
  <2>6. CASE u = t
    BY <1>1, <1>2, <2>2, <2>3, <2>5, <2>6 DEF WaitsAreFree
  <2>7. CASE u # t
    BY <1>1, <1>2, <2>7 DEF WaitsAreFree
  <2> QED BY <2>6, <2>7
<1>7. FailedOften'
  <2>1. ASSUME status'[t] = "failed" PROVE Cardinality(failed'[t]) >= MaxAttempts
    <3>1. attempts[t] >= maxAttempts[t]
      BY <2>1 DEF FailTask, RetriesLeft
    <3>2. maxAttempts[t] = MaxAttempts + waits[t]
      BY <1>1 DEF WaitsAreFree
    <3>3. /\ IsFiniteSet(failed'[t]) /\ IsFiniteSet(deferred'[t])
          /\ Cardinality(deferred'[t]) <= waits[t]
      BY <1>2, <1>6 DEF WaitsAreFree
    <3>4. attempts[t] \in Nat /\ waits[t] \in Nat /\ MaxAttempts \in Nat
      BY QueueAssumption
    <3>5. attempts[t] >= MaxAttempts + waits[t]
      BY <3>1, <3>2
    <3> HIDE DEF QueueTypeOK, RunsSafe
    <3> QED BY <1>4, <3>3, <3>4, <3>5, EnoughFailed
  <2>2. ASSUME NEW u \in Tasks \ {t}, status'[u] = "failed"
        PROVE  Cardinality(failed'[u]) >= MaxAttempts
    BY <1>1, <1>2, <2>2 DEF FailedOften
  <2> QED BY <2>1, <2>2 DEF FailedOften
<1> QED BY <1>3, <1>5, <1>6, <1>7

LEMMA DeferKeepsRuns ==
    ASSUME QueueTypeOK, RunsSafe, NEW t \in Tasks, DeferTask(t, attempts[t])
    PROVE  RunsSafe'
<1> USE DEF QueueTypeOK, DeferTask, MayDefer, RunsSafe
<1>1. open[t] = {attempts[t]}
  BY DEF OpenIsLatest
<1>2. OpenIsLatest'
  BY DEF OpenIsLatest
<1>3. RunsAddUp'
  BY <1>1 DEF RunsAddUp
<1>4. WaitsAreFree'
  <2>1. /\ IsFiniteSet(failed[t]) /\ IsFiniteSet(deferred[t])
        /\ Cardinality(deferred[t]) <= waits[t]
        /\ maxAttempts[t] = MaxAttempts + waits[t]
    BY DEF WaitsAreFree
  <2>2. deferred'[t] = deferred[t] \cup {attempts[t]}
    BY <1>1
  <2>3. /\ IsFiniteSet(deferred[t] \cup {attempts[t]})
        /\ Cardinality(deferred[t] \cup {attempts[t]}) <= Cardinality(deferred[t]) + 1
        /\ Cardinality(deferred[t]) \in Nat
    <3> HIDE DEF QueueTypeOK, RunsSafe, DeferTask, MayDefer
    <3>1. Cardinality(deferred[t]) \in Nat
      BY <2>1, FS_CardinalityType
    <3>2. /\ IsFiniteSet(deferred[t] \cup {attempts[t]})
          /\ Cardinality(deferred[t] \cup {attempts[t]})
                 \in {Cardinality(deferred[t]), Cardinality(deferred[t]) + 1}
      BY <2>1, FS_AddElement
    <3> QED BY <3>1, <3>2
  <2>4. Cardinality(deferred[t] \cup {attempts[t]}) \in Nat
    BY <2>3, FS_CardinalityType
  <2>5. waits[t] \in Nat /\ waits'[t] = waits[t] + 1 /\ MaxAttempts \in Nat
        /\ maxAttempts'[t] = maxAttempts[t] + 1
    BY QueueAssumption
  <2>6. /\ IsFiniteSet(deferred'[t]) /\ Cardinality(deferred'[t]) <= waits'[t]
        /\ maxAttempts'[t] = MaxAttempts + waits'[t]
    BY <2>1, <2>2, <2>3, <2>4, <2>5
  <2> QED BY <2>1, <2>6 DEF WaitsAreFree
<1>5. FailedOften'
  BY DEF FailedOften
<1> QED BY <1>2, <1>3, <1>4, <1>5

LEMMA SameKeepsRuns ==
    ASSUME RunsSafe, UNCHANGED <<status, attempts, maxAttempts, waits, runRows>>
    PROVE  RunsSafe'
BY DEF RunsSafe, OpenIsLatest, RunsAddUp, WaitsAreFree, FailedOften, runRows

-----------------------------------------------------------------------------
(* With heartbeats that arrive, a step has one executor at most, it works   *)
(* on the step's latest run, and it only lingers on a step that is done.    *)
OneExecutor == \A e, f \in exec : e.task = f.task => e = f
OnLatestRun ==
    \A e \in exec :
        /\ e.run = attempts[e.task]
        /\ \/ status[e.task] = "running"
           \/ e.phase = "failing" /\ status[e.task] = "done"
BootsAlone == booting => job = "running" /\ exec = {} /\ Created = {}
AnsweredInFull == job = "completed" => \A t \in Created : status[t] = "done"

ExecutorsSafe == OneExecutor /\ OnLatestRun /\ BootsAlone /\ AnsweredInFull

RInv == NoRequest /\ PlanSafe /\ RunsSafe /\ ExecutorsSafe

(* A step of the queue that concerns task t: what the executors of the      *)
(* other tasks rely on stays.                                               *)
Spares(t) ==
    \A u \in Tasks \ {t} : status[u] \in {"running", "done"} =>
        status'[u] = status[u] /\ attempts'[u] = attempts[u]

LEMMA QueueSpares ==
    ASSUME QueueTypeOK, NEW t \in Tasks, NEW n \in Nat,
           \/ CreateTask(t) \/ ClaimTask(t) \/ CompleteTask(t, n)
           \/ FailTask(t, n) \/ DeferTask(t, n) \/ UNCHANGED queueVars
    PROVE  Spares(t)
<1> USE DEF QueueTypeOK, Spares
<1>1. CASE CreateTask(t) \/ ClaimTask(t)
  BY <1>1 DEF CreateTask, ClaimTask
<1>2. CASE CompleteTask(t, n)
  BY <1>2 DEF CompleteTask
<1>3. CASE FailTask(t, n)
  BY <1>3 DEF FailTask
<1>4. CASE DeferTask(t, n)
  BY <1>4 DEF DeferTask
<1>5. CASE UNCHANGED queueVars
  BY <1>5 DEF queueVars, taskRows
<1> QED BY <1>1, <1>2, <1>3, <1>4, <1>5

(* One executor steps: it leaves, or goes on at the same run.               *)
LEMMA ExecutorGoesOn ==
    ASSUME RuntimeTypeOK, ExecutorsSafe, NEW e \in exec, NEW f, Spares(e.task),
           Leaves(e) \/ Becomes(e, f),
           Becomes(e, f) =>
                /\ f.task = e.task /\ f.run = e.run /\ attempts'[e.task] = attempts[e.task]
                /\ \/ status'[e.task] = "running"
                   \/ f.phase = "failing" /\ status'[e.task] = "done"
    PROVE  OneExecutor' /\ OnLatestRun'
<1> USE DEF Leaves, Becomes
<1>1. \A g \in exec \ {e} : g.task # e.task /\ g.task \in Tasks
  BY DEF ExecutorsSafe, OneExecutor, RuntimeTypeOK, Executors
<1>2. OneExecutor'
  BY <1>1 DEF ExecutorsSafe, OneExecutor
<1>3. \A g \in exec \ {e} : /\ g.run = attempts'[g.task]
                            /\ \/ status'[g.task] = "running"
                               \/ g.phase = "failing" /\ status'[g.task] = "done"
  BY <1>1 DEF ExecutorsSafe, OnLatestRun, Spares
<1>4. \A g \in exec' : g \in exec \ {e} \/ (Becomes(e, f) /\ g = f)
  OBVIOUS
<1>5. e.run = attempts[e.task]
  BY DEF ExecutorsSafe, OnLatestRun
<1>6. OnLatestRun'
  <2> SUFFICES ASSUME NEW g \in exec'
               PROVE  /\ g.run = attempts'[g.task]
                      /\ \/ status'[g.task] = "running"
                         \/ g.phase = "failing" /\ status'[g.task] = "done"
    BY DEF OnLatestRun
  <2> QED BY <1>3, <1>4, <1>5
<1> QED BY <1>2, <1>6

LEMMA ExecutorKeepsRInv ==
    ASSUME IInv, RInv, NEW e \in exec, ExecutorStep(e)
    PROVE  RunsSafe' /\ ExecutorsSafe'
<1> USE DEF IInv, TypeOK, RInv
<1>1. /\ e.task \in Tasks /\ e.run \in Nat /\ e.run = attempts[e.task]
      /\ \/ status[e.task] = "running"
         \/ e.phase = "failing" /\ status[e.task] = "done"
  BY DEF RuntimeTypeOK, Executors, ExecutorsSafe, OnLatestRun
<1>2. /\ Failing(e).task = e.task /\ Failing(e).run = e.run /\ Failing(e).phase = "failing"
      /\ \A t \in Tasks : LET f == [e EXCEPT !.todo = @ \ {t}]
                          IN  f.task = e.task /\ f.run = e.run /\ f.phase = e.phase
      /\ \A B \in Batches[e.task] : LET f == [e EXCEPT !.phase = "saving", !.todo = B]
                                    IN  f.task = e.task /\ f.run = e.run /\ f.phase = "saving"
  BY DEF Failing, RuntimeTypeOK, Executors
<1>3. ~booting
  BY DEF ExecutorsSafe, BootsAlone
<1>4. ASSUME UNCHANGED queueVars
      PROVE  RunsSafe' /\ AnsweredInFull' /\ Spares(e.task) /\ UNCHANGED <<status, attempts>>
  BY <1>1, <1>4, SameKeepsRuns, QueueSpares
     DEF queueVars, taskRows, AnsweredInFull, ExecutorsSafe, Created
<1>5. ASSUME NEW f, Leaves(e) \/ Becomes(e, f), UNCHANGED <<queueVars, booting>>,
             f.task = e.task, f.run = e.run, f.phase = "failing" \/ status[e.task] = "running"
      PROVE  RunsSafe' /\ ExecutorsSafe'
  <2>1. OneExecutor' /\ OnLatestRun'
    BY <1>1, <1>4, <1>5, ExecutorGoesOn
  <2> QED BY <1>3, <1>4, <1>5, <2>1 DEF ExecutorsSafe, BootsAlone
<1>6. CASE Answer(e) \/ StageError(e) \/ Abandon(e)
  <2>1. CASE Answer(e)
    <3>1. PICK B \in Batches[e.task] : Becomes(e, [e EXCEPT !.phase = "saving", !.todo = B])
      BY <2>1 DEF Answer
    <3> QED BY <1>1, <1>2, <1>5, <2>1, <3>1 DEF Answer
  <2>2. CASE StageError(e)
    BY <1>2, <1>5, <2>2 DEF StageError
  <2>3. CASE Abandon(e)
    BY <1>2, <1>5, <2>3 DEF Abandon
  <2> QED BY <1>6, <2>1, <2>2, <2>3
<1>7. ASSUME NEW t \in Tasks, EnsureTask(e, t)
      PROVE  RunsSafe' /\ ExecutorsSafe'
  <2>1. e.phase = "saving" /\ status[e.task] = "running" /\ booting' = booting
    BY <1>1, <1>7 DEF EnsureTask
  <2>2. PICK f \in {[e EXCEPT !.todo = @ \ {t}], Failing(e)} : Becomes(e, f)
    BY <1>7 DEF EnsureTask
  <2>3. f.task = e.task /\ f.run = e.run
    BY <1>2
  <2>4. CASE UNCHANGED queueVars
    BY <1>5, <2>1, <2>2, <2>3, <2>4
  <2>5. CASE CreateTask(t)
    <3>1. RunsSafe'
      BY <2>5, CreateKeepsRuns
    <3>2. Spares(e.task) /\ status'[e.task] = "running" /\ attempts'[e.task] = attempts[e.task]
      BY <1>1, <2>1, <2>5 DEF Spares, CreateTask, QueueTypeOK
    <3>3. OneExecutor' /\ OnLatestRun'
      BY <2>2, <2>3, <3>2, ExecutorGoesOn
    <3>4. job # "completed" /\ job' = job
      BY <1>1, <2>1, <2>5 DEF ExecutorsSafe, AnsweredInFull, Created, CreateTask
    <3> QED BY <1>3, <2>1, <3>1, <3>3, <3>4 DEF ExecutorsSafe, BootsAlone, AnsweredInFull
  <2> QED BY <1>7, <2>4, <2>5 DEF EnsureTask
<1>8. ASSUME NEW f, Leaves(e) \/ Becomes(e, f), booting' = booting,
             f.task = e.task, f.run = e.run, RunsSafe', AnsweredInFull', Spares(e.task),
             Becomes(e, f) => /\ attempts'[e.task] = attempts[e.task]
                              /\ f.phase = "failing" /\ status'[e.task] \in {"running", "done"}
      PROVE  RunsSafe' /\ ExecutorsSafe'
  <2>1. OneExecutor' /\ OnLatestRun'
    BY <1>8, ExecutorGoesOn
  <2> QED BY <1>3, <1>8, <2>1 DEF ExecutorsSafe, BootsAlone
<1>9. CASE Defer(e)
  <2>1. CASE UNCHANGED queueVars
    BY <1>2, <1>5, <1>9, <2>1 DEF Defer
  <2>2. CASE DeferTask(e.task, e.run) /\ Leaves(e)
    <3>1. RunsSafe' /\ Spares(e.task)
      BY <1>1, <2>2, DeferKeepsRuns, QueueSpares
    <3>2. AnsweredInFull'
      BY <1>1, <2>2 DEF ExecutorsSafe, AnsweredInFull, Created, DeferTask, MayDefer
    <3>3. e.task = e.task /\ (Becomes(e, e) => FALSE)
      BY <2>2 DEF Leaves, Becomes
    <3> QED BY <1>8, <1>9, <2>2, <3>1, <3>2, <3>3 DEF Defer
  <2> QED BY <1>9, <2>1, <2>2 DEF Defer
<1>10. CASE Complete(e)
  <2>1. CASE UNCHANGED queueVars
    BY <1>2, <1>5, <1>10, <2>1 DEF Complete
  <2>2. CASE CompleteTask(e.task, e.run) /\ (Leaves(e) \/ Becomes(e, Failing(e)))
    <3>1. RunsSafe' /\ Spares(e.task)
      BY <1>1, <2>2, CompleteKeepsRuns, QueueSpares
    <3>2. status'[e.task] = "done" /\ attempts'[e.task] = attempts[e.task]
      BY <1>1, <2>2 DEF CompleteTask, QueueTypeOK
    <3>3. AnsweredInFull'
      BY <1>1, <2>2 DEF CompleteTask, MayComplete, AllOthersFinished, Finished, ExecutorsSafe,
                        AnsweredInFull, Created, PlanSafe, NothingSkipped, QueueTypeOK
    <3> QED BY <1>2, <1>8, <1>10, <2>2, <3>1, <3>2, <3>3 DEF Complete
  <2> QED BY <1>10, <2>1, <2>2 DEF Complete
<1>11. CASE Fail(e)
  <2>1. CASE UNCHANGED queueVars
    BY <1>2, <1>5, <1>11, <2>1 DEF Fail
  <2>2. CASE FailTask(e.task, e.run) /\ Leaves(e)
    <3>1. RunsSafe' /\ Spares(e.task)
      BY <1>1, <2>2, FailKeepsRuns, QueueSpares
    <3>2. AnsweredInFull'
      BY <1>1, <2>2 DEF ExecutorsSafe, AnsweredInFull, Created, FailTask
    <3>3. Becomes(e, e) => FALSE
      BY <2>2 DEF Leaves, Becomes
    <3> QED BY <1>8, <1>11, <2>2, <3>1, <3>2, <3>3 DEF Fail
  <2> QED BY <1>11, <2>1, <2>2 DEF Fail
<1> QED BY <1>6, <1>7, <1>9, <1>10, <1>11 DEF ExecutorStep

(* No live executor stays unheard for as long as it takes to be recovered.  *)
HeartbeatsArrive == ~LostHeartbeats

LEMMA RuntimeKeepsRInv ==
    ASSUME HeartbeatsArrive, IInv, RInv, RuntimeStep
    PROVE  RunsSafe' /\ ExecutorsSafe'
<1> USE DEF IInv, TypeOK, RInv
<1>1. CASE ClaimJob
  <2>1. RunsSafe'
    BY <1>1, SameKeepsRuns DEF ClaimJob, ClaimNextJob, taskRows
  <2>2. exec = {} /\ exec' = {} /\ Created' = {} /\ job' = "running"
    BY <1>1 DEF ClaimJob, ClaimNextJob, UnclaimedIsEmpty, Created, taskRows
  <2> QED BY <2>1, <2>2 DEF ExecutorsSafe, OneExecutor, OnLatestRun, BootsAlone, AnsweredInFull
<1>2. CASE Bootstrap
  <2>1. job = "running" /\ exec = {} /\ exec' = {} /\ ~booting'
    BY <1>2 DEF Bootstrap, ExecutorsSafe, BootsAlone
  <2>2. RunsSafe' /\ job' = job
    BY <1>2, RuntimeAssumption, CreateKeepsRuns, SameKeepsRuns
       DEF Bootstrap, CreateTask, queueVars, taskRows
  <2> QED BY <2>1, <2>2 DEF ExecutorsSafe, OneExecutor, OnLatestRun, BootsAlone, AnsweredInFull
<1>3. ASSUME NEW t \in Tasks, Start(t)
      PROVE  RunsSafe' /\ ExecutorsSafe'
  <2>1. RunsSafe'
    BY <1>3, ClaimKeepsRuns DEF Start
  <2>2. Spares(t)
    BY <1>3, QueueSpares DEF Start
  <2>3. /\ status[t] = "queued" /\ status'[t] = "running"
        /\ job = "running" /\ job' = job
    BY <1>3 DEF Start, ClaimTask, Ready, QueueTypeOK
  <2>4. \A g \in exec : g.task \in Tasks \ {t}
    BY <2>3 DEF ExecutorsSafe, OnLatestRun, RuntimeTypeOK, Executors
  <2>5. \A g \in exec : /\ g.run = attempts'[g.task]
                        /\ \/ status'[g.task] = "running"
                           \/ g.phase = "failing" /\ status'[g.task] = "done"
    BY <2>2, <2>4 DEF Spares, ExecutorsSafe, OnLatestRun
  <2>6. PICK f : f.task = t /\ f.run = attempts'[t] /\ (exec' = exec \cup {f} \/ exec' = exec)
    <3> DEFINE new == [task |-> t, run |-> attempts'[t], phase |-> "model", todo |-> {}]
    <3>1. new.task = t /\ new.run = attempts'[t]
      OBVIOUS
    <3>2. exec' = exec \cup {new} \/ exec' = exec
      BY <1>3 DEF Start
    <3> QED BY <3>1, <3>2
  <2>7. OneExecutor'
    BY <2>4, <2>6 DEF ExecutorsSafe, OneExecutor
  <2>8. OnLatestRun'
    BY <2>3, <2>5, <2>6 DEF OnLatestRun
  <2> QED BY <1>3, <2>1, <2>3, <2>7, <2>8 DEF Start, ExecutorsSafe, BootsAlone, AnsweredInFull
<1>4. ASSUME NEW t \in Tasks, Recover(t)
      PROVE  RunsSafe' /\ ExecutorsSafe'
  <2>1. status[t] = "running" /\ FailTask(t, attempts[t])
    BY <1>4 DEF Recover, RequeueStale, RunsSafe, OpenIsLatest
  <2>2. RunsSafe'
    BY <2>1, FailKeepsRuns
  <2>3. Spares(t)
    BY <2>1, QueueSpares DEF QueueTypeOK
  <2>4. \A g \in exec : g.task \in Tasks \ {t}
    BY <1>4 DEF Recover, Unheard, HeartbeatsArrive, RuntimeTypeOK, Executors
  <2>5. OneExecutor' /\ OnLatestRun'
    BY <1>4, <2>3, <2>4 DEF Recover, runtimeVars, Spares, ExecutorsSafe, OneExecutor, OnLatestRun
  <2>6. job' # "completed"
    BY <2>1 DEF FailTask, ExecutorsSafe, AnsweredInFull, Created
  <2> QED BY <1>4, <2>2, <2>5, <2>6
          DEF Recover, runtimeVars, ExecutorsSafe, BootsAlone, AnsweredInFull
<1>5. ASSUME NEW t \in Tasks, Elapse(t)
      PROVE  RunsSafe' /\ ExecutorsSafe'
  <2>1. UNCHANGED <<job, status, attempts, maxAttempts, waits, runRows, exec, booting>>
    BY <1>5 DEF Elapse, WaitElapses, runtimeVars
  <2>2. RunsSafe'
    BY <2>1, SameKeepsRuns
  <2> QED BY <2>1, <2>2 DEF ExecutorsSafe, OneExecutor, OnLatestRun, BootsAlone, AnsweredInFull, Created
<1>6. ASSUME NEW e \in exec, ExecutorStep(e)
      PROVE  RunsSafe' /\ ExecutorsSafe'
  BY <1>6, ExecutorKeepsRInv
<1> QED BY <1>1, <1>2, <1>3, <1>4, <1>5, <1>6 DEF RuntimeStep

LEMMA RuntimeInvariant == NoOwner /\ HeartbeatsArrive => (Spec => []RInv)
<1> SUFFICES ASSUME NoOwner, HeartbeatsArrive PROVE Spec => []RInv
  OBVIOUS
<1>1. Init => RunsSafe /\ ExecutorsSafe
  <2> SUFFICES ASSUME Init PROVE RunsSafe /\ ExecutorsSafe
    OBVIOUS
  <2> USE DEF Init, QueueInit, RuntimeInit
  <2>1. OpenIsLatest /\ RunsAddUp /\ FailedOften
    BY DEF OpenIsLatest, RunsAddUp, FailedOften
  <2>2. WaitsAreFree
    BY FS_EmptySet DEF WaitsAreFree
  <2>3. ExecutorsSafe
    BY DEF ExecutorsSafe, OneExecutor, OnLatestRun, BootsAlone, AnsweredInFull
  <2> QED BY <2>1, <2>2, <2>3 DEF RunsSafe
<1>2. IInv /\ RInv /\ [Next]_vars => RunsSafe' /\ ExecutorsSafe'
  <2> SUFFICES ASSUME IInv, RInv, [Next]_vars
               PROVE  RunsSafe' /\ ExecutorsSafe'
    OBVIOUS
  <2>1. RuntimeStep \/ Crash \/ UNCHANGED <<queueVars, runtimeVars>>
    BY NoOwnerSteps DEF RInv
  <2>2. CASE Crash
    <3>1. UNCHANGED queueVars /\ exec' = {} /\ ~booting'
      BY <2>2 DEF Crash
    <3> QED BY <3>1, SameKeepsRuns DEF RInv, ExecutorsSafe, OneExecutor, OnLatestRun, BootsAlone,
                                       AnsweredInFull, Created, queueVars, taskRows
  <2>3. CASE UNCHANGED <<queueVars, runtimeVars>>
    BY <2>3, SameKeepsRuns DEF RInv, ExecutorsSafe, OneExecutor, OnLatestRun, BootsAlone,
                               AnsweredInFull, Created, queueVars, taskRows, runtimeVars
  <2> QED BY <2>1, <2>2, <2>3, RuntimeKeepsRInv
<1>3. Spec => [](NoRequest /\ PlanSafe)
  BY PlanInvariant
<1>4. NoRequest /\ PlanSafe /\ RunsSafe /\ ExecutorsSafe <=> RInv
  BY DEF RInv
<1> QED BY <1>1, <1>2, <1>3, <1>4, Inductive, PTL DEF Spec

(* Where nobody stops or resumes the objective and heartbeats arrive, a     *)
(* step runs only on results that exist, and the answer leaves out none of  *)
(* the steps written for it (claim_next_task, finalize).                    *)
THEOREM OnlyDeliveredIsBuiltOn ==
    NoOwner /\ HeartbeatsArrive => (Spec => []BuildsOnDelivered)
<1> SUFFICES ASSUME NoOwner, HeartbeatsArrive PROVE Spec => []BuildsOnDelivered
  OBVIOUS
<1>1. IInv /\ RInv => BuildsOnDelivered
  BY QueueAssumption DEF IInv, QueueSafe, DeliveredOnce, RInv, PlanSafe, BuiltOnDone, ExecutorsSafe,
                         AnsweredInFull, BuildsOnDelivered
<1> QED BY <1>1, Inductive, RuntimeInvariant, PTL

(* Under the same conditions, waits for capacity never cost a step one of    *)
(* the retries it was created with: one that is given up made no attempt     *)
(* but failed ones and waits, and all its retries failed (fail_task,         *)
(* defer_task).  Runs lost in a crash, or whose reply was lost, are among    *)
(* the failed ones.                                                         *)
THEOREM BudgetIsSpentOnFailures ==
    NoOwner /\ HeartbeatsArrive => (Spec => []GivesUpOnlyAfterBudget)
<1> SUFFICES ASSUME NoOwner, HeartbeatsArrive PROVE Spec => []GivesUpOnlyAfterBudget
  OBVIOUS
<1>1. RInv => GivesUpOnlyAfterBudget
  BY DEF RInv, RunsSafe, OpenIsLatest, RunsAddUp, WaitsAreFree, FailedOften, GivesUpOnlyAfterBudget
<1> QED BY <1>1, RuntimeInvariant, PTL

-----------------------------------------------------------------------------
(* An answer is written in whole before its step is delivered: for any      *)
(* owner, with or without heartbeats.  An executor that saves has written   *)
(* what it no longer lists.                                                 *)
SavesInOrder ==
    \A e \in exec : e.phase = "saving" => \E B \in Batches[e.task] : B \subseteq Created \cup e.todo
AnswerIsWritten ==
    \A t \in Tasks : status[t] = "done" => \E B \in Batches[t] : B \subseteq Created

WInv == SavesInOrder /\ AnswerIsWritten

(* A step of any other kind: no step is taken away or delivered, and every  *)
(* executor was there before or is not saving.                              *)
LEMMA QuietKeepsWInv ==
    ASSUME WInv, Created \subseteq Created',
           \A t \in Tasks : status'[t] = "done" => status[t] = "done",
           \A e \in exec' : e \in exec \/ e.phase # "saving"
    PROVE  WInv'
<1>1. SavesInOrder'
  BY DEF WInv, SavesInOrder
<1>2. AnswerIsWritten'
  <2> SUFFICES ASSUME NEW t \in Tasks, status'[t] = "done"
               PROVE  \E B \in Batches[t] : B \subseteq Created'
    BY DEF AnswerIsWritten
  <2>1. PICK B \in Batches[t] : B \subseteq Created
    BY DEF WInv, AnswerIsWritten
  <2> QED BY <2>1
<1> QED BY <1>1, <1>2 DEF WInv

(* Only complete_task delivers a step, and no operator takes one away.      *)
LEMMA OthersDeliverNothing ==
    ASSUME QueueTypeOK, NEW t \in Tasks, NEW n \in Nat,
           \/ ClaimNextJob \/ CreateTask(t) \/ ClaimTask(t) \/ WaitElapses(t)
           \/ FailTask(t, n) \/ DeferTask(t, n) \/ UNCHANGED queueVars
    PROVE  /\ Created \subseteq Created'
           /\ \A u \in Tasks : status'[u] = "done" => status[u] = "done"
<1> USE DEF QueueTypeOK, Created
<1>1. CASE ClaimNextJob \/ WaitElapses(t) \/ UNCHANGED queueVars
  BY <1>1 DEF ClaimNextJob, WaitElapses, queueVars, taskRows
<1>2. CASE CreateTask(t) \/ ClaimTask(t)
  BY <1>2 DEF CreateTask, ClaimTask
<1>3. CASE FailTask(t, n)
  BY <1>3 DEF FailTask
<1>4. CASE DeferTask(t, n)
  BY <1>4 DEF DeferTask
<1> QED BY <1>1, <1>2, <1>3, <1>4

LEMMA ExecutorKeepsWInv ==
    ASSUME IInv, WInv, NEW e \in exec, ExecutorStep(e)
    PROVE  WInv'
<1> USE DEF IInv, TypeOK
<1>1. e \in Executors /\ e.task \in Tasks /\ e.run \in Nat
  BY DEF RuntimeTypeOK, Executors
<1>2. Failing(e).phase = "failing"
  BY <1>1 DEF Failing, Executors
<1>3. \A f : f.phase # "saving" /\ (Leaves(e) \/ Becomes(e, f)) =>
          \A g \in exec' : g \in exec \/ g.phase # "saving"
  BY DEF Leaves, Becomes
<1>4. CASE Answer(e)
  <2>1. PICK B \in Batches[e.task] : Becomes(e, [e EXCEPT !.phase = "saving", !.todo = B])
    BY <1>4 DEF Answer
  <2> DEFINE f == [e EXCEPT !.phase = "saving", !.todo = B]
  <2>2. f.task = e.task /\ f.todo = B
    BY <1>1 DEF Executors
  <2>3. UNCHANGED status /\ Created' = Created
    BY <1>4 DEF Answer, queueVars, taskRows, Created
  <2>4. \A g \in exec' : g \in exec \/ g = f
    BY <2>1 DEF Becomes
  <2>5. SavesInOrder'
    BY <2>2, <2>3, <2>4 DEF WInv, SavesInOrder
  <2>6. AnswerIsWritten'
    BY <2>3 DEF WInv, AnswerIsWritten
  <2> QED BY <2>5, <2>6 DEF WInv
<1>5. ASSUME NEW t \in Tasks, EnsureTask(e, t)
      PROVE  WInv'
  <2>1. /\ Created \subseteq Created'
        /\ \A u \in Tasks : status'[u] = "done" => status[u] = "done"
    BY <1>1, <1>5, OthersDeliverNothing DEF EnsureTask
  <2>2. CASE Becomes(e, Failing(e))
    BY <1>2, <1>3, <2>1, <2>2, QuietKeepsWInv
  <2>3. CASE t \in Created' /\ Becomes(e, [e EXCEPT !.todo = @ \ {t}])
    <3> DEFINE f == [e EXCEPT !.todo = @ \ {t}]
    <3>1. f.task = e.task /\ f.todo = e.todo \ {t}
      BY <1>1 DEF Executors
    <3>2. e.phase = "saving"
      BY <1>5 DEF EnsureTask
    <3>3. \E B \in Batches[e.task] : B \subseteq Created' \cup f.todo
      <4>1. PICK B \in Batches[e.task] : B \subseteq Created \cup e.todo
        BY <3>2 DEF WInv, SavesInOrder
      <4>2. B \subseteq Created' \cup f.todo
        BY <2>1, <2>3, <3>1, <4>1
      <4> QED BY <4>2
    <3>4. \A g \in exec' : g \in exec \/ g = f
      BY <2>3 DEF Becomes
    <3>5. SavesInOrder'
      <4> SUFFICES ASSUME NEW g \in exec', g.phase = "saving"
                   PROVE  \E B \in Batches[g.task] : B \subseteq Created' \cup g.todo
        BY DEF SavesInOrder
      <4>1. CASE g = f
        BY <3>1, <3>3, <4>1
      <4>2. CASE g \in exec
        <5>1. PICK B \in Batches[g.task] : B \subseteq Created \cup g.todo
          BY <4>2 DEF WInv, SavesInOrder
        <5>2. B \subseteq Created' \cup g.todo
          BY <2>1, <5>1
        <5> QED BY <5>2
      <4> QED BY <3>4, <4>1, <4>2
    <3>6. AnswerIsWritten'
      <4> SUFFICES ASSUME NEW u \in Tasks, status'[u] = "done"
                   PROVE  \E B \in Batches[u] : B \subseteq Created'
        BY DEF AnswerIsWritten
      <4>1. PICK B \in Batches[u] : B \subseteq Created
        BY <2>1 DEF WInv, AnswerIsWritten
      <4> QED BY <2>1, <4>1
    <3> QED BY <3>5, <3>6 DEF WInv
  <2>4. t \in Created' \/ Becomes(e, Failing(e))
    BY <1>5 DEF EnsureTask, CreateTask, Created, queueVars, taskRows, QueueTypeOK
  <2> QED BY <1>5, <2>2, <2>3, <2>4 DEF EnsureTask
<1>6. CASE StageError(e) \/ Abandon(e) \/ Defer(e) \/ Fail(e)
  <2>1. Leaves(e) \/ Becomes(e, Failing(e))
    BY <1>6 DEF StageError, Abandon, Defer, Fail
  <2>2. FailTask(e.task, e.run) \/ DeferTask(e.task, e.run) \/ UNCHANGED queueVars
    BY <1>6 DEF StageError, Abandon, Defer, Fail
  <2> QED BY <1>1, <1>2, <1>3, <2>1, <2>2, OthersDeliverNothing, QuietKeepsWInv
<1>7. CASE Complete(e)
  <2>1. Leaves(e) \/ Becomes(e, Failing(e))
    BY <1>7 DEF Complete
  <2>2. CASE UNCHANGED queueVars
    BY <1>1, <1>2, <1>3, <2>1, <2>2, OthersDeliverNothing, QuietKeepsWInv
  <2>3. CASE CompleteTask(e.task, e.run)
    <3>1. Created' = Created /\ \A u \in Tasks \ {e.task} : status'[u] = status[u]
      BY <1>1, <2>3 DEF CompleteTask, MayComplete, Created, QueueTypeOK
    <3>2. \E B \in Batches[e.task] : B \subseteq Created
      BY <1>7 DEF Complete, Written, WInv, SavesInOrder
    <3>3. AnswerIsWritten'
      BY <3>1, <3>2 DEF WInv, AnswerIsWritten
    <3>4. SavesInOrder'
      BY <1>2, <1>3, <2>1, <3>1 DEF WInv, SavesInOrder
    <3> QED BY <3>3, <3>4 DEF WInv
  <2> QED BY <1>7, <2>2, <2>3 DEF Complete
<1> QED BY <1>4, <1>5, <1>6, <1>7 DEF ExecutorStep

LEMMA StepKeepsWInv ==
    ASSUME IInv, WInv, [Next]_vars
    PROVE  WInv'
<1> USE DEF IInv, TypeOK
<1>1. CASE RuntimeStep
  <2>1. CASE ClaimJob \/ Bootstrap
    BY <2>1, RuntimeAssumption, OthersDeliverNothing, QuietKeepsWInv DEF ClaimJob, Bootstrap
  <2>2. ASSUME NEW t \in Tasks, Start(t) PROVE WInv'
    <3> DEFINE new == [task |-> t, run |-> attempts'[t], phase |-> "model", todo |-> {}]
    <3>1. new.phase # "saving"
      OBVIOUS
    <3>2. exec' = exec \cup {new} \/ exec' = exec
      BY <2>2 DEF Start
    <3>3. \A g \in exec' : g \in exec \/ g.phase # "saving"
      BY <3>1, <3>2
    <3> QED BY <2>2, <3>3, OthersDeliverNothing, QuietKeepsWInv DEF Start
  <2>3. ASSUME NEW t \in Tasks, Recover(t) \/ Elapse(t) PROVE WInv'
    <3>1. exec' = exec
      BY <2>3 DEF Recover, Elapse, runtimeVars
    <3>2. (\E n \in Nat : FailTask(t, n)) \/ WaitElapses(t)
      BY <2>3 DEF Recover, Elapse, RequeueStale, QueueTypeOK
    <3> QED BY <3>1, <3>2, OthersDeliverNothing, QuietKeepsWInv
  <2>4. ASSUME NEW e \in exec, ExecutorStep(e) PROVE WInv'
    BY <2>4, ExecutorKeepsWInv
  <2> QED BY <1>1, <2>1, <2>2, <2>3, <2>4 DEF RuntimeStep
<1>2. CASE OwnerStep
  <2>1. exec' = exec
    BY <1>2 DEF OwnerStep, StopRead, ResumeRead, Click, StopSkip, StopCancel, ResumeLoad,
                ResumeRequeue, ResumeReopen, RequestFails, runtimeVars
  <2>2. PICK o \in Tabs :
          \/ StopRead(o) \/ StopSkip(o) \/ StopCancel(o)
          \/ ResumeRead(o) \/ ResumeLoad(o) \/ ResumeReopen(o)
          \/ \E r \in tab[o].todo : ResumeRequeue(o, r)
          \/ RequestFails(o)
    BY <1>2 DEF OwnerStep
  <2>3. CASE StopSkip(o)
    <3>1. Created \subseteq Created' /\ \A u \in Tasks : status'[u] = "done" => status[u] = "done"
      BY <2>3 DEF StopSkip, Created
    <3> QED BY <2>1, <3>1, QuietKeepsWInv
  <2>4. CASE \E r \in tab[o].todo : ResumeRequeue(o, r)
    <3>1. Created \subseteq Created' /\ \A u \in Tasks : status'[u] = "done" => status[u] = "done"
      BY <2>4 DEF ResumeRequeue, Created, QueueTypeOK
    <3> QED BY <2>1, <3>1, QuietKeepsWInv
  <2>5. CASE UNCHANGED status
    BY <2>1, <2>5, QuietKeepsWInv DEF Created
  <2> QED BY <2>2, <2>3, <2>4, <2>5 DEF StopRead, ResumeRead, Click, StopCancel, ResumeLoad,
                                       ResumeReopen, RequestFails, queueVars, taskRows
<1>3. CASE ProcessDies
  <2>1. exec' = {} /\ UNCHANGED status
    BY <1>3 DEF ProcessDies, Crash, queueVars, taskRows
  <2> QED BY <2>1, QuietKeepsWInv DEF Created
<1>4. CASE UNCHANGED vars
  BY <1>4, QuietKeepsWInv DEF vars, queueVars, taskRows, runtimeVars, Created
<1> QED BY <1>1, <1>2, <1>3, <1>4 DEF Next

(* Every delivered step has written one whole answer of its model, whatever *)
(* interrupted it and whoever runs it again.                                *)
THEOREM AnswerWritten == Spec => []AnswerIsWritten
<1>1. Init => WInv
  BY DEF Init, QueueInit, RuntimeInit, WInv, SavesInOrder, AnswerIsWritten
<1>2. IInv /\ WInv /\ [Next]_vars => WInv'
  BY StepKeepsWInv
<1>3. WInv => AnswerIsWritten
  BY DEF WInv
<1> QED BY <1>1, <1>2, <1>3, Inductive, PTL DEF Spec

AnswersAlike == \A t \in Tasks : \E B : Batches[t] = {B}

(* Where the model, asked again, asks for the same steps, nothing else of   *)
(* its answers is ever written.                                             *)
THEOREM PlanWritten == AnswersAlike => (Spec => []PlanIsWhole)
<1> SUFFICES ASSUME AnswersAlike PROVE Spec => []PlanIsWhole
  OBVIOUS
<1>1. AnswerIsWritten => PlanIsWhole
  <2> SUFFICES ASSUME AnswerIsWritten, NEW t \in Tasks, status[t] = "done"
               PROVE  Created \cap UNION Batches[t] \in Batches[t]
    BY DEF PlanIsWhole
  <2>1. PICK B : Batches[t] = {B}
    BY DEF AnswersAlike
  <2>2. UNION Batches[t] = B /\ B \subseteq Created
    BY <2>1 DEF AnswerIsWritten
  <2>3. Created \cap B = B
    BY <2>2
  <2> QED BY <2>1, <2>2, <2>3
<1> QED BY <1>1, AnswerWritten, PTL

-----------------------------------------------------------------------------
(* A step plans its own work: what it asks for depends on itself or on the  *)
(* other steps of the same answer, and on at least one of them.  (A round   *)
(* of revision reads earlier deliveries instead, and gets no handoff of     *)
(* them.)                                                                   *)
PlansItsOwn ==
    \A t \in Tasks : \A B \in Batches[t] : \A u \in B :
        Deps[u] # {} /\ Deps[u] \subseteq B \cup {t}

(* What is being saved comes from an answer of the model.                   *)
SavesAnAnswer ==
    \A e \in exec : e.phase = "saving" => \E B \in Batches[e.task] : e.todo \subseteq B

(* While the job may still be answered, a delivered step has told everyone  *)
(* who depends on it.                                                       *)
ToldOfDone ==
    job # "failed" =>
        \A u \in Created : \A d \in Deps[u] : status[d] = "done" => <<d, u>> \in handoffs

(* Nothing an answer asks for is delivered before the step that asked.      *)
LEMMA OwnWorkComesLater ==
    ASSUME PlanSafe, PlansItsOwn, NEW t \in Tasks, status[t] = "running",
           NEW B \in Batches[t], B \subseteq Tasks, NEW u \in B
    PROVE  \A d \in Deps[u] : status[d] # "done"
<1> DEFINE Early == {v \in B : status[v] = "done"}
<1>1. Early = {}
  <2> SUFFICES ASSUME Early # {} PROVE FALSE
    OBVIOUS
  <2>1. PICK v \in Early : Deps[v] \cap Early = {}
    BY DEF PlanSafe, WellFounded, Created
  <2>2. \A d \in Deps[v] : status[d] = "done"
    BY DEF PlanSafe, BuiltOnDone
  <2>3. Deps[v] # {} /\ Deps[v] \subseteq B \cup {t}
    BY DEF PlansItsOwn
  <2> QED BY <2>1, <2>2, <2>3
<1>2. Deps[u] \subseteq B \cup {t}
  BY DEF PlansItsOwn
<1> QED BY <1>1, <1>2

LEMMA ExecutorKeepsTold ==
    ASSUME IInv, RInv, PlansItsOwn, SavesAnAnswer, ToldOfDone, NEW e \in exec, ExecutorStep(e)
    PROVE  SavesAnAnswer' /\ ToldOfDone'
<1> USE DEF IInv, TypeOK
<1>1. e \in Executors /\ e.task \in Tasks /\ e.run \in Nat
  BY DEF RuntimeTypeOK, Executors
<1>2. Failing(e).phase = "failing"
  BY <1>1 DEF Failing, Executors
<1>3. ASSUME Leaves(e) \/ Becomes(e, Failing(e))
      PROVE  SavesAnAnswer'
  BY <1>2, <1>3 DEF Leaves, Becomes, SavesAnAnswer
<1>4. ASSUME UNCHANGED queueVars PROVE ToldOfDone'
  BY <1>4 DEF queueVars, taskRows, ToldOfDone, Created
<1>5. CASE Answer(e)
  <2>1. PICK B \in Batches[e.task] : Becomes(e, [e EXCEPT !.phase = "saving", !.todo = B])
    BY <1>5 DEF Answer
  <2> DEFINE f == [e EXCEPT !.phase = "saving", !.todo = B]
  <2>2. f.task = e.task /\ f.todo = B
    BY <1>1 DEF Executors
  <2>3. \A g \in exec' : g \in exec \/ g = f
    BY <2>1 DEF Becomes
  <2>4. SavesAnAnswer'
    BY <2>2, <2>3 DEF SavesAnAnswer
  <2> QED BY <1>4, <1>5, <2>4 DEF Answer
<1>6. ASSUME NEW t \in Tasks, EnsureTask(e, t)
      PROVE  SavesAnAnswer' /\ ToldOfDone'
  <2>1. PICK B \in Batches[e.task] : e.todo \subseteq B
    BY <1>6 DEF EnsureTask, SavesAnAnswer
  <2>2. SavesAnAnswer'
    <3>1. CASE Becomes(e, Failing(e))
      BY <1>3, <3>1
    <3>2. CASE Becomes(e, [e EXCEPT !.todo = @ \ {t}])
      <4> DEFINE f == [e EXCEPT !.todo = @ \ {t}]
      <4>1. f.task = e.task /\ f.todo \subseteq B
        BY <1>1, <2>1 DEF Executors
      <4>2. \A g \in exec' : g \in exec \/ g = f
        BY <3>2 DEF Becomes
      <4> QED BY <4>1, <4>2 DEF SavesAnAnswer
    <3> QED BY <1>6, <3>1, <3>2 DEF EnsureTask
  <2>3. CASE CreateTask(t)
    <3>1. status[e.task] = "running"
      BY <1>6 DEF EnsureTask, RInv, ExecutorsSafe, OnLatestRun
    <3>2. t \in B /\ B \subseteq Tasks
      BY <1>1, <1>6, <2>1, RuntimeAssumption DEF EnsureTask, First
    <3>3. \A d \in Deps[t] : status[d] # "done"
      BY <1>1, <3>1, <3>2, OwnWorkComesLater DEF RInv
    <3>4. /\ Created' = Created \cup {t} /\ job' = job /\ handoffs' = handoffs
          /\ \A d \in Tasks : status'[d] = "done" => status[d] = "done"
      BY <2>3 DEF CreateTask, Created, QueueTypeOK
    <3>5. Deps[t] \subseteq Tasks /\ \A u \in Created : Deps[u] \subseteq Tasks
      BY QueueAssumption DEF Created
    <3>6. ToldOfDone'
      BY <3>3, <3>4, <3>5 DEF ToldOfDone
    <3> QED BY <2>2, <3>6
  <2> QED BY <1>4, <1>6, <2>2, <2>3 DEF EnsureTask
<1>7. CASE StageError(e) \/ Abandon(e)
  BY <1>3, <1>4, <1>7 DEF StageError, Abandon
<1>8. CASE Defer(e) \/ Fail(e)
  <2>1. SavesAnAnswer'
    BY <1>3, <1>8 DEF Defer, Fail
  <2>2. CASE DeferTask(e.task, e.run)
    BY <1>1, <2>1, <2>2, QueueAssumption DEF DeferTask, MayDefer, ToldOfDone, Created, QueueTypeOK
  <2>3. CASE FailTask(e.task, e.run)
    <3>1. /\ Created' = Created /\ handoffs' = handoffs /\ job' \in {job, "failed"}
          /\ \A d \in Tasks : status'[d] = "done" => status[d] = "done"
      BY <1>1, <2>3 DEF FailTask, Created, QueueTypeOK
    <3> QED BY <2>1, <3>1, QueueAssumption DEF ToldOfDone, Created
  <2> QED BY <1>4, <1>8, <2>1, <2>2, <2>3 DEF Defer, Fail
<1>9. CASE Complete(e)
  <2>1. SavesAnAnswer'
    BY <1>3, <1>9 DEF Complete
  <2>2. CASE CompleteTask(e.task, e.run)
    <3>1. /\ Created' = Created /\ status[e.task] = "running"
          /\ handoffs' = handoffs \cup ({e.task} \X Receivers(e.task))
          /\ \A d \in Tasks \ {e.task} : status'[d] = status[d]
          /\ job' \in {job, "completed"}
      BY <1>1, <2>2 DEF CompleteTask, MayComplete, Created, QueueTypeOK
    <3>2. job' # "failed" => job # "failed"
      <4>1. ASSUME job = "failed", job' # "failed" PROVE FALSE
        <5>1. PICK v \in Tasks : status[v] = "failed"
          BY <4>1 DEF RInv, PlanSafe, GaveUpOn
        <5>2. ~AllOthersFinished(e.task)
          BY <3>1, <5>1 DEF AllOthersFinished, Created, Finished
        <5> QED BY <2>2, <4>1, <5>2 DEF CompleteTask
      <4> QED BY <4>1
    <3>3. ASSUME job' # "failed", NEW u \in Created, e.task \in Deps[u]
          PROVE  <<e.task, u>> \in handoffs'
      <4>1. status[u] \notin {"running", "done"}
        BY <3>1, <3>3 DEF RInv, PlanSafe, BuiltOnDone, Created
      <4>2. job = "running"
        <5>1. job \notin {"planning", "completed"}
          BY <1>1, <3>1 DEF UnclaimedIsEmpty, QueueSafe, AnsweredIsQuiet
        <5>2. job # "failed"
          BY <3>2, <3>3
        <5>3. job # "cancelled"
          BY DEF RInv, PlanSafe, NotCancelled
        <5> QED BY <5>1, <5>2, <5>3 DEF QueueTypeOK, JobStatus
      <4>3. status[u] = "queued"
        BY <4>1, <4>2 DEF RInv, PlanSafe, StillHopeful, Created
      <4>4. u \in Receivers(e.task)
        BY <3>3, <4>3 DEF Receivers, Dependents, Created
      <4> QED BY <3>1, <4>4
    <3>4. ToldOfDone'
      <4> SUFFICES ASSUME job' # "failed", NEW u \in Created, NEW d \in Deps[u], status'[d] = "done"
                   PROVE  <<d, u>> \in handoffs'
        BY <3>1 DEF ToldOfDone
      <4>1. CASE d = e.task
        BY <3>3, <4>1
      <4>2. CASE d # e.task
        BY <3>1, <3>2, <4>2, QueueAssumption DEF ToldOfDone, Created
      <4> QED BY <4>1, <4>2
    <3> QED BY <2>1, <3>4
  <2> QED BY <1>4, <1>9, <2>1, <2>2 DEF Complete
<1> QED BY <1>5, <1>6, <1>7, <1>8, <1>9 DEF ExecutorStep

LEMMA RuntimeKeepsTold ==
    ASSUME IInv, RInv, PlansItsOwn, SavesAnAnswer, ToldOfDone, RuntimeStep
    PROVE  SavesAnAnswer' /\ ToldOfDone'
<1> USE DEF IInv, TypeOK
<1>1. ASSUME NEW t \in Tasks, NEW n \in Nat,
             \/ ClaimNextJob \/ ClaimTask(t) \/ WaitElapses(t) \/ FailTask(t, n)
             \/ UNCHANGED queueVars
      PROVE  ToldOfDone'
  <2>1. /\ Created' = Created /\ handoffs' = handoffs
        /\ job' \in {job, "failed"} \/ Created = {}
        /\ \A d \in Tasks : status'[d] = "done" => status[d] = "done"
    <3> USE DEF QueueTypeOK, Created
    <3>1. CASE ClaimNextJob \/ WaitElapses(t) \/ UNCHANGED queueVars
      BY <3>1 DEF ClaimNextJob, WaitElapses, queueVars, taskRows, UnclaimedIsEmpty
    <3>2. CASE ClaimTask(t)
      BY <3>2 DEF ClaimTask, Ready
    <3>3. CASE FailTask(t, n)
      BY <3>3 DEF FailTask
    <3> QED BY <1>1, <3>1, <3>2, <3>3
  <2> QED BY <2>1, QueueAssumption DEF ToldOfDone, Created
<1>2. CASE ClaimJob
  BY <1>1, <1>2, RuntimeAssumption DEF ClaimJob, SavesAnAnswer
<1>3. CASE Bootstrap
  <2>1. exec' = {} /\ Created = {}
    BY <1>3 DEF Bootstrap, RInv, ExecutorsSafe, BootsAlone
  <2>2. \A d \in Tasks : status'[d] # "done"
    BY <1>3, <2>1 DEF Bootstrap, CreateTask, Created, queueVars, taskRows, QueueTypeOK
  <2>3. ToldOfDone'
    BY <2>2, QueueAssumption DEF ToldOfDone, Created
  <2> QED BY <2>1, <2>3 DEF SavesAnAnswer
<1>4. ASSUME NEW t \in Tasks, Start(t) PROVE SavesAnAnswer' /\ ToldOfDone'
  <2> DEFINE new == [task |-> t, run |-> attempts'[t], phase |-> "model", todo |-> {}]
  <2>1. new.phase # "saving"
    OBVIOUS
  <2>2. exec' = exec \cup {new} \/ exec' = exec
    BY <1>4 DEF Start
  <2>3. SavesAnAnswer'
    BY <2>1, <2>2 DEF SavesAnAnswer
  <2> QED BY <1>1, <1>4, <2>3 DEF Start
<1>5. ASSUME NEW t \in Tasks, Recover(t) \/ Elapse(t) PROVE SavesAnAnswer' /\ ToldOfDone'
  <2>1. (\E n \in Nat : FailTask(t, n)) \/ WaitElapses(t)
    BY <1>5 DEF Recover, Elapse, RequeueStale, QueueTypeOK
  <2>2. exec' = exec
    BY <1>5 DEF Recover, Elapse, runtimeVars
  <2> QED BY <1>1, <2>1, <2>2 DEF SavesAnAnswer
<1>6. ASSUME NEW e \in exec, ExecutorStep(e) PROVE SavesAnAnswer' /\ ToldOfDone'
  BY <1>6, ExecutorKeepsTold
<1> QED BY <1>2, <1>3, <1>4, <1>5, <1>6 DEF RuntimeStep

(* An answered objective has a handoff for every dependency edge, where     *)
(* steps plan their own work.                                               *)
THEOREM EveryEdgeIsHandedOver ==
    NoOwner /\ HeartbeatsArrive /\ PlansItsOwn => (Spec => []HandoffPerEdge)
<1> SUFFICES ASSUME NoOwner, HeartbeatsArrive, PlansItsOwn PROVE Spec => []HandoffPerEdge
  OBVIOUS
<1> DEFINE Told == SavesAnAnswer /\ ToldOfDone
<1>1. Init => Told
  BY DEF Init, QueueInit, RuntimeInit, SavesAnAnswer, ToldOfDone, Created
<1>2. IInv /\ RInv /\ Told /\ [Next]_vars => Told'
  <2> SUFFICES ASSUME IInv, RInv, SavesAnAnswer, ToldOfDone, [Next]_vars
               PROVE  SavesAnAnswer' /\ ToldOfDone'
    OBVIOUS
  <2>1. RuntimeStep \/ Crash \/ UNCHANGED <<queueVars, runtimeVars>>
    BY NoOwnerSteps DEF RInv
  <2>2. CASE Crash \/ UNCHANGED <<queueVars, runtimeVars>>
    BY <2>2 DEF Crash, queueVars, taskRows, runtimeVars, SavesAnAnswer, ToldOfDone, Created
  <2> QED BY <2>1, <2>2, RuntimeKeepsTold
<1>3. RInv /\ ToldOfDone => HandoffPerEdge
  BY QueueAssumption DEF RInv, ExecutorsSafe, AnsweredInFull, PlanSafe, DepsWritten, ToldOfDone,
                         HandoffPerEdge, Created
<1> QED BY <1>1, <1>2, <1>3, Inductive, RuntimeInvariant, PTL DEF Spec
-----------------------------------------------------------------------------
(* What the Hub shows of an objective whose plan hands work out and ends in  *)
(* a synthesis; one the Chief answers himself, or starts a coding session    *)
(* for, has none.  Its first step is the plan and everything else comes after *)
(* another step; a round of synthesis that asks for anything asks for a later *)
(* round, and one that asks for nothing comes after all other steps; a round *)
(* comes in any case after every workstream (dispatchWorkflow, revise).      *)
PlanShape ==
    LET synthesis == {t \in Tasks : Kind[t] = "synthesis"} IN
    /\ \A t \in Tasks : (Kind[t] = "plan" <=> t = Root) /\ (t # Root => Deps[t] # {})
    /\ \A B \in Batches[Root] : B \cap synthesis # {}
    /\ \A s \in synthesis :
           /\ Employee[s] = "chief"
           /\ \A B \in Batches[s] : B # {} => \E v \in B \cap synthesis : Sequence[s] < Sequence[v]
           /\ \A u \in Tasks \ {s} :
                  \/ s \in Downstream[u]
                  \/ Kind[u] # "workstream" /\ UNION Batches[s] # {}
           /\ \A u \in synthesis : Sequence[u] = Sequence[s] => u = s

(* An answered objective had steps, and only a step waits for capacity.      *)
HadSteps == job = "completed" => Created # {}
WaitersExist == waiting \subseteq Created
StepsExist == HadSteps /\ WaitersExist

(* Of the rows, what the views need.                                        *)
RowsInv == IInv /\ RInv /\ AnswerIsWritten /\ StepsExist

LEMMA RowsInvariant == NoOwner /\ HeartbeatsArrive => (Spec => []RowsInv)
<1> SUFFICES ASSUME NoOwner, HeartbeatsArrive PROVE Spec => []RowsInv
  OBVIOUS
<1>1. Init => StepsExist
  BY DEF Init, QueueInit, StepsExist, HadSteps, WaitersExist
<1>2. IInv /\ RInv /\ StepsExist /\ [Next]_vars => StepsExist'
  <2> SUFFICES ASSUME IInv, RInv, StepsExist, [Next]_vars
               PROVE  StepsExist'
    OBVIOUS
  <2> USE DEF StepsExist, HadSteps, WaitersExist
  <2>1. RuntimeStep \/ Crash \/ UNCHANGED <<queueVars, runtimeVars>>
    BY NoOwnerSteps DEF RInv
  <2>2. CASE UNCHANGED queueVars
    BY <2>2 DEF queueVars, taskRows, Created
  <2>3. CASE RuntimeStep
    <3>1. QueueTypeOK
      BY DEF IInv, TypeOK
    <3>2. CASE ClaimNextJob
      BY <3>2 DEF ClaimNextJob, taskRows, Created
    <3>3. ASSUME NEW t \in Tasks, CreateTask(t) \/ ClaimTask(t) \/ WaitElapses(t)
          PROVE  StepsExist'
      BY <3>1, <3>3 DEF CreateTask, ClaimTask, WaitElapses, Created, QueueTypeOK
    <3>4. ASSUME NEW t \in Tasks, NEW n \in Nat,
                 CompleteTask(t, n) \/ FailTask(t, n) \/ DeferTask(t, n)
          PROVE  StepsExist'
      <4>1. status[t] = "running" /\ waiting' \subseteq waiting \cup {t}
        BY <3>4 DEF CompleteTask, FailTask, DeferTask, MayComplete, MayDefer
      <4>2. \A u \in Tasks : status[u] # "absent" => status'[u] # "absent"
        BY <3>1, <3>4 DEF CompleteTask, FailTask, DeferTask, QueueTypeOK
      <4>3. t \in Created /\ Created \subseteq Created'
        BY <4>1, <4>2 DEF Created
      <4> QED BY <4>1, <4>3
    <3> QED BY <2>2, <2>3, <3>2, <3>3, <3>4, RuntimeMoves
  <2> QED BY <2>1, <2>2, <2>3 DEF Crash
<1> QED BY <1>1, <1>2, Inductive, RuntimeInvariant, AnswerWritten, PTL DEF Spec, RowsInv

-----------------------------------------------------------------------------
(* Of any steps one is the latest: the one with the fewest after it.         *)
LEMMA LatestExists ==
    ASSUME NEW S, S \subseteq Tasks, S # {}
    PROVE  \E t \in S : \A u \in S : Sequence[u] <= Sequence[t]
<1> DEFINE After(t) == {u \in S : Sequence[u] > Sequence[t]}
           Counts   == {Cardinality(After(t)) : t \in S}
           Less     == OpToRel(<, Nat)
<1>1. \A t \in S : IsFiniteSet(After(t)) /\ Cardinality(After(t)) \in Nat
  <2> SUFFICES ASSUME NEW t \in S
               PROVE  IsFiniteSet(After(t)) /\ Cardinality(After(t)) \in Nat
    OBVIOUS
  <2>1. After(t) \in SUBSET Tasks
    OBVIOUS
  <2>2. IsFiniteSet(After(t))
    <3> HIDE DEF After
    <3> QED BY <2>1, QueueAssumption, FS_Subset
  <2> QED BY <2>2, FS_CardinalityType
<1>2. Counts \subseteq Nat /\ Counts # {}
  <2>1. PICK t \in S : TRUE
    OBVIOUS
  <2>2. Cardinality(After(t)) \in Counts
    BY <2>1
  <2> HIDE DEF After
  <2> QED BY <1>1, <2>2
<1>3. IsWellFoundedOn(Less, Nat)
  BY NatLessThanWellFounded
<1>4. PICK n \in Counts : \A m \in Counts : ~(<<m, n>> \in Less)
  <2> HIDE DEF Less, Counts
  <2> QED BY <1>2, <1>3, WFMin
<1>5. PICK t \in S : n = Cardinality(After(t))
  BY <1>4
<1>6. \A u \in S : ~(Cardinality(After(u)) < Cardinality(After(t)))
  <2> SUFFICES ASSUME NEW u \in S, Cardinality(After(u)) < Cardinality(After(t))
               PROVE  FALSE
    OBVIOUS
  <2>1. Cardinality(After(u)) \in Counts
    OBVIOUS
  <2>2. <<Cardinality(After(u)), n>> \in Less
    <3> HIDE DEF After, Counts
    <3> QED BY <1>1, <1>5 DEF OpToRel
  <2> HIDE DEF Less, Counts, After
  <2> QED BY <1>4, <2>1, <2>2
<1>7. ASSUME NEW u \in S, Sequence[u] > Sequence[t]
      PROVE  FALSE
  <2>0. \A v \in S : Sequence[v] \in Nat
    BY QueueAssumption
  <2>1. After(u) \subseteq After(t) \ {u}
    BY <1>7, <2>0
  <2>2. u \in After(t)
    BY <1>7
  <2> HIDE DEF After
  <2>3. Cardinality(After(t) \ {u}) = Cardinality(After(t)) - 1 /\ IsFiniteSet(After(t) \ {u})
    BY <1>1, <2>2, FS_RemoveElement
  <2>4. Cardinality(After(u)) <= Cardinality(After(t) \ {u})
    BY <2>1, <2>3, FS_Subset
  <2> QED BY <1>1, <1>6, <2>3, <2>4
<1>8. \A u \in S : Sequence[u] \in Nat /\ Sequence[t] \in Nat
  BY QueueAssumption
<1> QED BY <1>7, <1>8

(* What a step that runs or is delivered comes after is delivered.           *)
LEMMA UpstreamIsDone ==
    ASSUME RowsInv, NEW u \in Tasks, NEW s \in Downstream[u], status[s] \in {"running", "done"}
    PROVE  status[u] = "done"
<1> SUFFICES ASSUME status[u] # "done"
             PROVE  FALSE
  OBVIOUS
<1> DEFINE Left == {v \in Tasks : status[v] \notin {"running", "done"}}
<1>1. \A v \in Tasks : status[v] # "done" => Dependents(v) \subseteq Left
  BY DEF RowsInv, RInv, PlanSafe, BuiltOnDone, Dependents
<1>2. Dependents(u) \subseteq Left /\ \A v \in Left : Dependents(v) \subseteq Left
  BY <1>1
<1>3. Downstream[u] = {v \in Tasks : \A S \in SUBSET Tasks :
          (Dependents(u) \subseteq S /\ \A w \in S : Dependents(w) \subseteq S) => v \in S}
  BY DEF Downstream
<1>4. s \in Left
  <2>1. Left \in SUBSET Tasks
    OBVIOUS
  <2> HIDE DEF Left
  <2> QED BY <1>2, <1>3, <2>1
<1> QED BY <1>4

LEMMA RowsAre ==
    ASSUME RowsInv
    PROVE  /\ job \in {"planning", "running", "completed", "failed"}
           /\ \A t \in Tasks :
                  status[t] \in {"absent", "queued", "running", "done", "failed", "blocked"}
           /\ job \in OpenJob =>
                  \A t \in Tasks : status[t] \in {"absent", "queued", "running", "done"}
           /\ job = "planning" => Created = {}
           /\ job = "completed" =>
                  Created # {} /\ finals = 1 /\ \A t \in Created : status[t] = "done"
           /\ job = "failed" => \E t \in Created : status[t] = "failed"
           /\ \A t \in Created : Deps[t] \subseteq Created
           /\ waiting \subseteq Created
           /\ Created \subseteq Tasks /\ \A t \in Created : status[t] # "absent"
           /\ \A t \in Tasks : status[t] # "absent" => t \in Created
<1>1. job \in JobStatus /\ job # "cancelled" /\ \A t \in Tasks : status[t] \in TaskStatus \ {"skipped"}
  BY DEF RowsInv, IInv, TypeOK, QueueTypeOK, RInv, PlanSafe, NotCancelled, NothingSkipped
<1>2. job = "planning" => Created = {}
  BY DEF RowsInv, IInv, UnclaimedIsEmpty
<1>3. job = "completed" =>
          Created # {} /\ finals = 1 /\ \A t \in Created : status[t] = "done"
  BY DEF RowsInv, StepsExist, HadSteps, RInv, ExecutorsSafe, AnsweredInFull, IInv, QueueSafe, FinalOnce
<1>4. job = "failed" => \E t \in Created : status[t] = "failed"
  BY DEF RowsInv, RInv, PlanSafe, GaveUpOn, Created
<1>5. \A t \in Created : Deps[t] \subseteq Created
  BY DEF RowsInv, RInv, PlanSafe, DepsWritten
<1>6. job = "running" => \A t \in Tasks : status[t] \in {"absent", "queued", "running", "done"}
  BY DEF RowsInv, RInv, PlanSafe, StillHopeful
<1>7. waiting \subseteq Created
  BY DEF RowsInv, StepsExist, WaitersExist
<1> QED BY <1>1, <1>2, <1>3, <1>4, <1>5, <1>6, <1>7 DEF JobStatus, TaskStatus, OpenJob, Created

(* The rounds of synthesis.                                                 *)
LEMMA RootIsFirst ==
    ASSUME RowsInv, PlanShape, Created # {}
    PROVE  Root \in Created
<1>1. PICK t \in Created : Deps[t] \cap Created = {}
  BY DEF RowsInv, RInv, PlanSafe, WellFounded
<1>2. Deps[t] = {}
  BY <1>1, RowsAre
<1> QED BY <1>2, RowsAre DEF PlanShape

LEMMA PlannedHasRounds ==
    ASSUME RowsInv, PlanShape, status[Root] = "done"
    PROVE  FinalRound # {}
<1>1. PICK B \in Batches[Root] : B \subseteq Created
  BY RuntimeAssumption DEF RowsInv, AnswerIsWritten
<1>2. PICK s \in B : s \in Tasks /\ Kind[s] = "synthesis"
  BY <1>1 DEF PlanShape
<1>3. Rounds # {} /\ Rounds \subseteq Tasks
  BY <1>1, <1>2 DEF Rounds, Created
<1> QED BY <1>3, LatestExists DEF FinalRound

LEMMA FinalRoundIs ==
    ASSUME RowsInv, PlanShape, NEW s \in FinalRound
    PROVE  /\ s \in Tasks /\ s \in Created /\ Kind[s] = "synthesis" /\ Employee[s] = "chief"
           /\ FinalRound = {s} /\ s \in Rounds
           /\ \A u \in Rounds : Sequence[u] <= Sequence[s]
           /\ status[s] \in {"running", "done"} =>
                  \A u \in Created : Kind[u] = "workstream" => status[u] = "done"
<1>1. s \in Tasks /\ s \in Created /\ Kind[s] = "synthesis" /\ s \in Rounds
  BY DEF FinalRound, Rounds, Created
<1>2. \A u \in Rounds : Sequence[u] <= Sequence[s]
  BY DEF FinalRound
<1>3. Employee[s] = "chief"
  BY <1>1 DEF PlanShape
<1>4. \A u \in FinalRound : u = s
  <2> SUFFICES ASSUME NEW u \in FinalRound PROVE u = s
    OBVIOUS
  <2>1. u \in Tasks /\ Kind[u] = "synthesis" /\ Sequence[u] <= Sequence[s] /\ Sequence[s] <= Sequence[u]
    BY <1>1, <1>2 DEF FinalRound, Rounds, Created
  <2>2. Sequence[u] = Sequence[s]
    BY <1>1, <2>1, QueueAssumption
  <2> QED BY <1>1, <2>1, <2>2 DEF PlanShape
<1>5. ASSUME status[s] \in {"running", "done"}, NEW u \in Created, Kind[u] = "workstream"
      PROVE  status[u] = "done"
  <2>1. u \in Tasks /\ u # s
    BY <1>1, <1>5 DEF Created
  <2>2. s \in Downstream[u]
    BY <1>1, <1>5, <2>1 DEF PlanShape
  <2> QED BY <1>5, <2>1, <2>2, UpstreamIsDone
<1> QED BY <1>1, <1>2, <1>3, <1>4, <1>5

(* Once the last round is delivered, so is everything, and with it the answer. *)
LEMMA FinalRoundEnds ==
    ASSUME RowsInv, PlanShape, AnswersAlike, NEW s \in FinalRound, status[s] = "done"
    PROVE  job = "completed"
<1>1. /\ s \in Tasks /\ s \in Created /\ Kind[s] = "synthesis"
      /\ \A u \in Rounds : Sequence[u] <= Sequence[s]
  BY FinalRoundIs
<1>2. PICK B : Batches[s] = {B}
  BY <1>1 DEF AnswersAlike
<1>3. B \subseteq Created
  BY <1>1, <1>2 DEF RowsInv, AnswerIsWritten
<1>4. B = {}
  <2> SUFFICES ASSUME B # {} PROVE FALSE
    OBVIOUS
  <2>1. PICK v \in B : v \in Tasks /\ Kind[v] = "synthesis" /\ Sequence[s] < Sequence[v]
    BY <1>1, <1>2 DEF PlanShape
  <2>2. Sequence[v] <= Sequence[s]
    BY <1>1, <1>3, <2>1 DEF Rounds
  <2> QED BY <1>1, <2>1, <2>2, QueueAssumption
<1>5. UNION Batches[s] = {}
  BY <1>2, <1>4
<1>6. ASSUME NEW u \in Created
      PROVE  status[u] = "done"
  <2>1. CASE u = s
    BY <2>1
  <2>2. CASE u # s
    <3>1. u \in Tasks /\ s \in Downstream[u]
      BY <1>1, <1>5, <2>2 DEF PlanShape, Created
    <3> QED BY <3>1, UpstreamIsDone
  <2> QED BY <2>1, <2>2
<1>7. job # "running"
  BY <1>1, <1>6 DEF RowsInv, RInv, PlanSafe, StillHopeful
<1>8. job # "failed" /\ job # "planning"
  BY <1>1, <1>6, RowsAre
<1> QED BY <1>7, <1>8, RowsAre

-----------------------------------------------------------------------------
(* The views.                                                              *)
LEMMA ViewOfJob ==
    ASSUME RowsInv
    PROVE  /\ job \in OpenJob <=> job \in {"planning", "running"}
           /\ job \in TerminalJob <=> job \in {"completed", "failed"}
           /\ job \in TerminalJob <=> job \notin OpenJob
           /\ JobActive <=> job \in OpenJob
BY RowsAre DEF OpenJob, TerminalJob, JobActive

LEMMA OpsStateIs ==
    ASSUME RowsInv, NEW t \in Created
    PROVE  /\ OpsState(t) \in AtWork <=> status[t] = "running"
           /\ OpsState(t) = "completed" <=> status[t] = "done"
           /\ OpsState(t) = "failed" <=> status[t] = "failed"
           /\ job \in OpenJob /\ status[t] = "queued" =>
                  /\ OpsState(t) = "waiting" <=> t \in waiting \/ Undone(t) # {}
                  /\ OpsState(t) = "assigned" <=> ~(t \in waiting \/ Undone(t) # {})
<1>1. t \in Tasks /\ status[t] \in {"queued", "running", "done", "failed", "blocked"}
  BY RowsAre DEF Created
<1>2. Deps[t] \subseteq Created
  BY RowsAre
<1>3. (\E d \in Deps[t] \cap Created : status[d] \notin Finished) <=> Undone(t) # {}
  BY <1>2 DEF Undone
<1>4. ASSUME status[t] = "running"
      PROVE  OpsState(t) \in {"working", "reviewing"}
  BY <1>4 DEF OpsState, Finished
<1>5. ASSUME status[t] = "done"
      PROVE  OpsState(t) = "completed"
  BY <1>5 DEF OpsState, Finished
<1>6. ASSUME status[t] \in {"failed", "blocked"}
      PROVE  OpsState(t) = status[t]
  BY <1>6 DEF OpsState, Finished
<1>7. ASSUME status[t] = "queued", job \notin OpenJob
      PROVE  OpsState(t) = "blocked"
  BY <1>7, ViewOfJob DEF OpsState, Finished
<1>8. ASSUME status[t] = "queued", job \in OpenJob, t \in waiting \/ Undone(t) # {}
      PROVE  OpsState(t) = "waiting"
  BY <1>3, <1>8, ViewOfJob DEF OpsState, Finished
<1>9. ASSUME status[t] = "queued", job \in OpenJob, ~(t \in waiting \/ Undone(t) # {})
      PROVE  OpsState(t) = "assigned"
  BY <1>3, <1>9, ViewOfJob DEF OpsState, Finished
<1>10. CASE status[t] \in {"running", "done", "failed", "blocked"}
  BY <1>4, <1>5, <1>6, <1>10 DEF AtWork
<1>11. CASE status[t] = "queued" /\ job \notin OpenJob
  BY <1>7, <1>11 DEF AtWork
<1>12. CASE status[t] = "queued" /\ job \in OpenJob
  BY <1>8, <1>9, <1>12 DEF AtWork
<1> QED BY <1>1, <1>10, <1>11, <1>12

LEMMA SameTruth ==
    ASSUME NEW a \in BOOLEAN, NEW b \in BOOLEAN, a <=> b
    PROVE  a = b
OBVIOUS

LEMMA OwnerIsAsked ==
    ASSUME RowsInv, NeverStranded
    PROVE  AsksTheOwner
<1> SUFFICES ASSUME job = "running", Created # {}
             PROVE  (NextAction \in {"recover stalled", "review failure"}) = Hopeless
  BY DEF AsksTheOwner
<1>1. ~Hopeless
  BY DEF NeverStranded, Hopeless
<1>2. PICK t \in Created : status[t] \in {"queued", "running"}
  BY RowsAre DEF NeverStranded, CanProgress
<1>3. ~Stalled
  BY <1>2 DEF Stalled, Settled
<1>4. job \notin TerminalJob /\ job \in OpenJob
  BY DEF TerminalJob, OpenJob
<1>5. Lifecycle \in {"active", "waiting"}
  BY <1>3, <1>4 DEF Lifecycle
<1>6. NextAction \notin {"recover stalled", "review failure"}
  <2>1. CASE Lifecycle = "active"
    BY <2>1 DEF NextAction
  <2>2. CASE Lifecycle = "waiting"
    BY <2>2 DEF NextAction
  <2> QED BY <1>5, <2>1, <2>2
<1> DEFINE asks == NextAction \in {"recover stalled", "review failure"}
<1>7. asks \in BOOLEAN
  OBVIOUS
<1>8. Hopeless \in BOOLEAN
  BY DEF Hopeless
<1>9. asks <=> Hopeless
  BY <1>1, <1>6
<1> HIDE DEF asks
<1>10. asks = Hopeless
  BY <1>7, <1>8, <1>9, SameTruth
<1> QED BY <1>10 DEF asks

LEMMA DeliveredIs ==
    ASSUME RowsInv, PlanShape, AnswersAlike
    PROVE  DeliveredIsDelivered
<1>1. ASSUME ChiefAction = "delivered" \/ CurrentWork = "completed"
      PROVE  job = "completed"
  <2>1. CASE ChiefAction = "delivered"
    BY <2>1, RowsAre DEF ChiefAction, TerminalJob
  <2>2. CASE CurrentWork = "completed"
    <3>1. Lifecycle = "completed"
      BY <2>2 DEF CurrentWork
    <3> QED BY <3>1, RowsAre, ViewOfJob DEF Lifecycle, OpenJob
  <2> QED BY <1>1, <2>1, <2>2
<1>2. ASSUME job = "completed"
      PROVE  /\ finals = 1 /\ OpenStreams = {} /\ Synthesis = "done"
             /\ \A card \in Cards : CardStatus(card) = "delivered"
             /\ Cardinality({card \in Cards : Raises(card)}) = 1
  <2>1. Created # {} /\ finals = 1 /\ \A t \in Created : status[t] = "done"
    BY <1>2, RowsAre
  <2>2. OpenStreams = {}
    BY <2>1, OpsStateIs DEF OpenStreams, Streams
  <2>3. PICK s \in FinalRound : TRUE
    BY <2>1, RootIsFirst, PlannedHasRounds
  <2>4. s \in Created /\ Kind[s] = "synthesis" /\ status[s] = "done" /\ FinalRound = {s} /\ s \in Tasks
    BY <2>1, FinalRoundIs
  <2>5. Synthesis = "done"
    BY <2>4, OpsStateIs DEF Synthesis
  <2>6. ASSUME NEW card \in Cards
        PROVE  CardStatus(card) = "delivered"
    <3>1. card \subseteq Created /\ card # {} /\ card \subseteq Tasks
      BY DEF Cards, Card, Revises, Eligible, Rounds, Created
    <3>2. Latest(card) \in card
      BY <3>1, LatestExists DEF Latest
    <3> QED BY <2>1, <3>1, <3>2 DEF CardStatus
  <2>7. {card \in Cards : Raises(card)} = {Rounds \cap Eligible}
    <3>1. s \in Eligible /\ s \in Rounds
      BY <1>2, <2>4 DEF Eligible, Rounds
    <3>2. Consolidated
      BY <2>4, <3>1 DEF Consolidated
    <3>3. Card(s) = Rounds \cap Eligible /\ Card(s) \in Cards
      BY <2>4, <3>1 DEF Card, Cards
    <3>4. Raises(Card(s))
      BY <3>3 DEF Raises, Rounds
    <3>5. ASSUME NEW card \in Cards, Raises(card)
          PROVE  card = Rounds \cap Eligible
      <4>1. PICK t \in Eligible : card = Card(t)
        BY DEF Cards
      <4>2. t \in card
        BY <4>1 DEF Card, Rounds, Eligible
      <4>3. Kind[t] = "synthesis"
        BY <3>2, <3>5, <4>2 DEF Raises
      <4> QED BY <4>1, <4>3 DEF Card
    <3> QED BY <3>3, <3>4, <3>5
  <2>8. Cardinality({card \in Cards : Raises(card)}) = 1
    BY <2>7, FS_Singleton
  <2> QED BY <2>1, <2>2, <2>5, <2>6, <2>8
<1>3. Consolidated => job = "completed"
  BY FinalRoundEnds DEF Consolidated
<1>4. ASSUME Synthesis = "working", NEW t \in OpenStreams
      PROVE  Kind[t] = "revision"
  <2>1. PICK s \in FinalRound : TRUE
    BY <1>4 DEF Synthesis
  <2>2. FinalRound = {s} /\ s \in Created
    BY FinalRoundIs
  <2>3. OpsState(s) \in AtWork
    BY <1>4, <2>2 DEF Synthesis
  <2>4. status[s] = "running"
    BY <2>2, <2>3, OpsStateIs
  <2>5. t \in Created /\ Kind[t] \in {"workstream", "revision"} /\ status[t] # "done"
    BY OpsStateIs DEF OpenStreams, Streams
  <2> QED BY <2>4, <2>5, FinalRoundIs
<1> QED BY <1>1, <1>2, <1>3, <1>4 DEF DeliveredIsDelivered

LEMMA SynthesisIsAwaited ==
    ASSUME RowsInv, PlanShape, AnswersAlike
    PROVE  AwaitsTheSynthesis
<1> SUFFICES ASSUME ChiefAction = "awaiting synthesis", Planning = "done"
             PROVE  \E t \in FinalRound : status[t] = "queued"
  BY DEF AwaitsTheSynthesis
<1>1. job \in OpenJob /\ ChiefTask = {} /\ OpenStreams = {} /\ Planning # "working"
  <2>1. job \notin TerminalJob
    BY RowsAre DEF ChiefAction, TerminalJob
  <2> QED BY <2>1, ViewOfJob DEF ChiefAction, TerminalJob
<1>2. Root \in Created /\ status[Root] = "done"
  <2> DEFINE plan == {t \in Created : Kind[t] = "plan"}
  <2>1. plan \subseteq {Root}
    BY DEF PlanShape, Created
  <2>2. plan # {}
    <3> SUFFICES ASSUME plan = {} PROVE FALSE
      OBVIOUS
    <3>1. Created = {}
      BY RootIsFirst, RuntimeAssumption DEF PlanShape
    <3>2. Streams = {} /\ JobActive
      BY <1>1, <3>1, ViewOfJob DEF Streams
    <3> QED BY <1>1, <3>2 DEF Planning
  <2>3. \E t \in plan : OpsState(t) = "completed"
    BY <1>1, <2>2 DEF Planning
  <2> QED BY <2>1, <2>3, OpsStateIs
<1>3. PICK s \in FinalRound : TRUE
  BY <1>2, PlannedHasRounds
<1>4. s \in Created /\ s \in Tasks /\ Employee[s] = "chief"
  BY <1>3, FinalRoundIs
<1>5. status[s] # "running"
  BY <1>1, <1>4, OpsStateIs DEF ChiefTask, NowWorking
<1>6. status[s] # "done"
  BY <1>1, FinalRoundEnds DEF OpenJob
<1>7. status[s] \in {"queued", "running", "done"}
  BY <1>1, <1>4, RowsAre
<1> QED BY <1>5, <1>6, <1>7

(* While the objective is open, its steps are queued, running or delivered, *)
(* and the views tell these apart alike.                                    *)
LEMMA NodeStateIs ==
    ASSUME RowsInv, job \in OpenJob, NEW t \in Created
    PROVE  /\ t \in Tasks /\ status[t] \in {"queued", "running", "done"}
           /\ status[t] = "running" => NodeState(t) = "working"
           /\ status[t] = "done" => NodeState(t) = "done"
           /\ status[t] = "queued" =>
                  /\ t \in waiting => NodeState(t) = "capacity" /\ PendingStatus(t) = "capacity"
                  /\ t \notin waiting /\ Undone(t) # {} =>
                         NodeState(t) = "waiting" /\ PendingStatus(t) = "dependency"
                  /\ t \notin waiting /\ Undone(t) = {} =>
                         NodeState(t) = "ready" /\ PendingStatus(t) = "queued"
<1>1. t \in Tasks /\ status[t] \in {"queued", "running", "done"} /\ job # "failed"
  BY RowsAre DEF Created, OpenJob
<1>2. ASSUME status[t] = "running"
      PROVE  NodeState(t) = "working"
  BY <1>2 DEF NodeState, Finished
<1>3. ASSUME status[t] = "done"
      PROVE  NodeState(t) = "done"
  BY <1>3 DEF NodeState, Finished
<1>4. ASSUME status[t] = "queued", t \in waiting
      PROVE  NodeState(t) = "capacity" /\ PendingStatus(t) = "capacity"
  BY <1>1, <1>4 DEF NodeState, PendingStatus, Finished
<1>5. ASSUME status[t] = "queued", t \notin waiting, Undone(t) # {}
      PROVE  NodeState(t) = "waiting" /\ PendingStatus(t) = "dependency"
  BY <1>1, <1>5 DEF NodeState, PendingStatus, Finished
<1>6. ASSUME status[t] = "queued", t \notin waiting, Undone(t) = {}
      PROVE  NodeState(t) = "ready" /\ PendingStatus(t) = "queued"
  BY <1>1, <1>6 DEF NodeState, PendingStatus, Finished
<1> QED BY <1>1, <1>2, <1>3, <1>4, <1>5, <1>6

LEMMA PostureIs ==
    ASSUME RowsInv, job \in OpenJob, NEW t \in Created
    PROVE  Posture(t) = "executing" <=> status[t] = "running"
<1>1. status[t] \in {"queued", "running", "done"}
  BY NodeStateIs
<1>2. job \notin TerminalJob
  BY ViewOfJob
<1>3. CASE status[t] = "running"
  BY <1>2, <1>3 DEF Posture, Finished, TaskTerminal
<1>4. CASE status[t] = "done"
  BY <1>4 DEF Posture, Finished, TaskTerminal
<1>5. CASE status[t] = "queued"
  BY <1>2, <1>5 DEF Posture, Finished, TaskTerminal
<1> QED BY <1>1, <1>3, <1>4, <1>5

LEMMA OfferIs ==
    ASSUME RowsInv, job \in OpenJob, NEW t \in Created
    PROVE  /\ status[t] = "running" => OfficeOffer(t) \in {"thinking", "working", "reviewing"}
           /\ status[t] # "running" => OfficeOffer(t) \in {"waiting", "queued", "completed"}
<1>1. job \in {"running", "planning"}
  BY ViewOfJob
<1>2. CASE status[t] = "running"
  BY <1>2, NodeStateIs DEF OfficeOffer
<1>3. CASE status[t] = "done"
  BY <1>3, NodeStateIs DEF OfficeOffer
<1>4. CASE status[t] = "queued"
  <2>1. NodeState(t) \in {"capacity", "waiting", "ready"}
    BY <1>4, NodeStateIs
  <2>2. OfficeOffer(t) \in {"waiting", "queued"}
    BY <1>1, <2>1 DEF OfficeOffer
  <2> QED BY <1>4, <2>2
<1> QED BY <1>2, <1>3, <1>4, NodeStateIs

(* An employee is busy everywhere or nowhere.                                *)
LEMMA BusyAlike ==
    ASSUME RowsInv
    PROVE  BusyEverywhere
<1> SUFFICES ASSUME job \in OpenJob, NEW e \in {Employee[t] : t \in Created}
             PROVE  LET busy == \E t \in NowWorking : Employee[t] = e IN
                    /\ (Availability(e) = "busy") = busy
                    /\ (OfficeState(e) \subseteq {"thinking", "working", "reviewing"}) = busy
  BY DEF BusyEverywhere
<1> DEFINE busy     == \E t \in NowWorking : Employee[t] = e
           assigned == Availability(e) = "busy"
           shown    == OfficeState(e) \subseteq {"thinking", "working", "reviewing"}
<1>1. busy <=> \E t \in Created : status[t] = "running" /\ Employee[t] = e
  BY OpsStateIs DEF NowWorking
<1>2. assigned <=> busy
  <2>1. "executing" \in Postures(e) <=> busy
    BY <1>1, PostureIs DEF Postures
  <2>2. assigned <=> "executing" \in Postures(e)
    BY DEF Availability
  <2> QED BY <2>1, <2>2
<1>3. ASSUME busy
      PROVE  shown
  <2>1. PICK t \in Created : status[t] = "running" /\ Employee[t] = e
    BY <1>1, <1>3
  <2>2. OfficeOffer(t) \in Offers(e) /\ OfficeOffer(t) \in {"thinking", "working", "reviewing"}
    BY <2>1, OfferIs DEF Offers
  <2>3. Rank[OfficeOffer(t)] = 1
    BY <2>2 DEF Rank
  <2>4. ASSUME NEW o \in OfficeState(e)
        PROVE  o \in {"thinking", "working", "reviewing"}
    <3>1. o \in Offers(e) /\ Rank[o] <= 1
      BY <2>2, <2>3, <2>4 DEF OfficeState
    <3>2. o \in {"thinking", "working", "reviewing", "waiting", "queued", "completed", "available"}
      BY <3>1, OfferIs DEF Offers
    <3> QED BY <3>1, <3>2 DEF Rank
  <2> QED BY <2>4
<1>4. ASSUME ~busy
      PROVE  ~shown
  <2>1. Offers(e) \subseteq {"waiting", "queued", "completed", "available"}
    BY <1>1, <1>4, OfferIs DEF Offers
  <2>2. "available" \in Offers(e)
    BY DEF Offers
  <2>3. PICK o \in Offers(e) : \A p \in Offers(e) : Rank[o] <= Rank[p]
    <3>1. CASE "waiting" \in Offers(e)
      BY <2>1, <3>1 DEF Rank
    <3>2. CASE "waiting" \notin Offers(e) /\ "queued" \in Offers(e)
      BY <2>1, <3>2 DEF Rank
    <3>3. CASE {"waiting", "queued"} \cap Offers(e) = {} /\ "completed" \in Offers(e)
      BY <2>1, <3>3 DEF Rank
    <3>4. CASE {"waiting", "queued", "completed"} \cap Offers(e) = {}
      BY <2>1, <2>2, <3>4 DEF Rank
    <3> QED BY <3>1, <3>2, <3>3, <3>4
  <2>4. o \in OfficeState(e)
    BY <2>3 DEF OfficeState
  <2> QED BY <2>1, <2>3, <2>4
<1>5. shown <=> busy
  BY <1>3, <1>4
<1>6. assigned \in BOOLEAN /\ shown \in BOOLEAN
  OBVIOUS
<1>7. busy \in BOOLEAN
  OBVIOUS
<1> HIDE DEF busy, assigned, shown
<1>8. assigned = busy /\ shown = busy
  BY <1>2, <1>5, <1>6, <1>7, SameTruth
<1> QED BY <1>8 DEF busy, assigned, shown

(* The views name what a queued step waits for, a stall and the synthesis     *)
(* alike.                                                                   *)
LEMMA QueuedAlike ==
    ASSUME RowsInv, job \in OpenJob, NEW t \in Created, status[t] = "queued"
    PROVE  /\ (PendingStatus(t) = "capacity") = (NodeState(t) = "capacity")
           /\ (t \in OpsCapacity) = (NodeState(t) = "capacity")
           /\ (PendingStatus(t) = "queued") = (NodeState(t) = "ready")
           /\ (OpsState(t) = "assigned") = (NodeState(t) = "ready")
           /\ t \in Queue(Employee[t])
<1> DEFINE c1 == PendingStatus(t) = "capacity"
           c2 == NodeState(t) = "capacity"
           c3 == t \in OpsCapacity
           r1 == PendingStatus(t) = "queued"
           r2 == NodeState(t) = "ready"
           r3 == OpsState(t) = "assigned"
<1>1. (c1 <=> c2) /\ (r1 <=> r2)
  BY NodeStateIs
<1>2. (c2 <=> t \in waiting) /\ (r2 <=> t \notin waiting /\ Undone(t) = {})
  BY NodeStateIs
<1>3. (c3 <=> t \in waiting) /\ (r3 <=> t \notin waiting /\ Undone(t) = {})
  BY OpsStateIs DEF OpsCapacity
<1>4. t \in Queue(Employee[t])
  <2>1. NodeState(t) \in {"waiting", "ready", "capacity"}
    BY NodeStateIs
  <2> QED BY <2>1, ViewOfJob DEF Queue
<1>5. c1 \in BOOLEAN /\ c2 \in BOOLEAN /\ r1 \in BOOLEAN /\ r2 \in BOOLEAN /\ r3 \in BOOLEAN
  OBVIOUS
<1>6. c3 \in BOOLEAN
  BY DEF OpsCapacity
<1> HIDE DEF c1, c2, c3, r1, r2, r3
<1>7. c1 = c2 /\ c3 = c2 /\ r1 = r2 /\ r3 = r2
  BY <1>1, <1>2, <1>3, <1>5, <1>6, SameTruth
<1> QED BY <1>4, <1>7 DEF c1, c2, c3, r1, r2, r3

LEMMA SynthesisIs ==
    ASSUME RowsInv, PlanShape, job \in OpenJob
    PROVE  (ChatStage = "consolidating") = (Synthesis = "working")
<1> DEFINE chat == ChatStage = "consolidating"
           ops  == Synthesis = "working"
           best(t) == /\ Kind[t] = "synthesis" /\ NodeState(t) = "working"
                      /\ \A u \in Created : Kind[u] = "synthesis" => Sequence[u] <= Sequence[t]
<1>1. ASSUME chat PROVE ops
  <2>1. \E t \in Created : best(t)
    <3>1. ~(job = "planning" \/ Created = {})
      BY <1>1 DEF ChatStage
    <3>2. ~(~Executing /\ \E t \in Created : NodeState(t) = "capacity")
      BY <1>1, <3>1 DEF ChatStage
    <3>3. \E t \in Created : Kind[t] = "synthesis"
      BY <1>1, <3>1, <3>2 DEF ChatStage
    <3> QED BY <1>1, <3>1, <3>2, <3>3 DEF ChatStage
  <2>2. PICK t \in Created : best(t)
    BY <2>1
  <2>3. t \in FinalRound
    BY <2>2 DEF FinalRound, Rounds
  <2>4. status[t] = "running"
    BY <2>2, NodeStateIs
  <2>5. OpsState(t) \in AtWork /\ OpsState(t) \notin {"completed", "failed"} /\ FinalRound = {t}
    BY <2>3, <2>4, OpsStateIs, FinalRoundIs
  <2>6. /\ FinalRound # {} /\ ~\E u \in FinalRound : OpsState(u) \in {"completed", "failed"}
        /\ \E u \in FinalRound : OpsState(u) \in AtWork
    BY <2>5
  <2> QED BY <2>6 DEF Synthesis
<1>2. ASSUME ops PROVE chat
  <2>1. PICK s \in FinalRound : TRUE
    BY <1>2 DEF Synthesis
  <2>2. /\ FinalRound = {s} /\ s \in Created /\ s \in Tasks /\ Kind[s] = "synthesis"
        /\ \A u \in Rounds : Sequence[u] <= Sequence[s]
    BY FinalRoundIs
  <2>3. OpsState(s) \in AtWork
    BY <1>2, <2>2 DEF Synthesis
  <2>4. status[s] = "running" /\ NodeState(s) = "working"
    BY <2>2, <2>3, OpsStateIs, NodeStateIs
  <2>5. best(s)
    BY <2>2, <2>4 DEF Rounds
  <2>6. Executing /\ job # "planning" /\ Created # {}
    BY <2>2, <2>4, RowsAre DEF Executing
  <2> QED BY <2>2, <2>5, <2>6 DEF ChatStage
<1>3. chat \in BOOLEAN /\ ops \in BOOLEAN
  OBVIOUS
<1> HIDE DEF chat, ops
<1>4. chat = ops
  BY <1>1, <1>2, <1>3, SameTruth
<1> QED BY <1>4 DEF chat, ops

LEMMA WordsAlike ==
    ASSUME RowsInv, PlanShape
    PROVE  SameWords
<1> SUFFICES ASSUME job \in OpenJob
             PROVE  SameWords
  BY DEF SameWords
<1>1. ASSUME Created # {}
      PROVE  Stalled = StuckObjective
  <2>1. Stalled \in BOOLEAN /\ StuckObjective \in BOOLEAN
    BY DEF Stalled, StuckObjective
  <2>2. Stalled => StuckObjective
    BY RowsAre DEF Stalled, StuckObjective, Settled
  <2>3. StuckObjective => Stalled
    BY <1>1, RowsAre DEF Stalled, StuckObjective, Settled
  <2> QED BY <2>1, <2>2, <2>3, SameTruth
<1>2. Stage = "waiting for capacity" => ChatStage = "capacity"
  <2> SUFFICES ASSUME Stage = "waiting for capacity"
               PROVE  ChatStage = "capacity"
    OBVIOUS
  <2>1. OpsCapacity # {} /\ NowWorking = {}
    <3>1. job \notin TerminalJob
      BY ViewOfJob
    <3>2. Planning = "done" /\ Synthesis # "working"
      BY <3>1 DEF Stage, TerminalJob
    <3>3. ~\E t \in Created : Kind[t] = "revision" /\ OpsState(t) # "completed"
      BY <3>1, <3>2 DEF Stage, TerminalJob
    <3> QED BY <3>1, <3>2, <3>3 DEF Stage, TerminalJob
  <2>2. PICK t \in waiting : OpsState(t) = "waiting"
    BY <2>1 DEF OpsCapacity
  <2>3. t \in Created
    BY RowsAre
  <2>4. status[t] = "queued"
    BY <2>2, <2>3, NodeStateIs, OpsStateIs DEF AtWork
  <2>5. NodeState(t) = "capacity"
    BY <2>3, <2>4, NodeStateIs
  <2>6. ~Executing
    BY <2>1, OpsStateIs, RowsAre DEF Executing, NowWorking
  <2>7. job # "planning" /\ Created # {}
    BY <2>3, RowsAre
  <2> QED BY <2>3, <2>5, <2>6, <2>7 DEF ChatStage
<1>3. NextStep = "deliver" => Stage = "synthesis"
  <2> SUFFICES ASSUME NextStep = "deliver"
               PROVE  Stage = "synthesis"
    OBVIOUS
  <2>1. job \notin TerminalJob
    BY ViewOfJob
  <2>2. Planning = "done" /\ Synthesis = "working"
    BY <2>1 DEF NextStep
  <2> QED BY <2>1, <2>2 DEF Stage
<1> QED BY <1>1, <1>2, <1>3, QueuedAlike, SynthesisIs DEF SameWords

(* With no owner and every heartbeat in time, where the model asked again     *)
(* asks for the same steps, every view of an objective that hands work out   *)
(* and ends in a synthesis is true: an action is asked of the owner exactly  *)
(* when no step can progress, delivered means delivered, and the Office, Live *)
(* Operations, the chat and the cards name the same steps alike.             *)
THEOREM ViewsHold ==
    NoOwner /\ HeartbeatsArrive /\ AnswersAlike /\ PlanShape => (Spec => []ViewsAreTrue)
<1> SUFFICES ASSUME NoOwner, HeartbeatsArrive, AnswersAlike, PlanShape
             PROVE  Spec => []ViewsAreTrue
  OBVIOUS
<1>1. RowsInv /\ NeverStranded => ViewsAreTrue
  BY OwnerIsAsked, DeliveredIs, SynthesisIsAwaited, BusyAlike, WordsAlike DEF ViewsAreTrue
<1> QED BY <1>1, RowsInvariant, SomethingToDo, PTL
============================================================================

------------------------- MODULE ObjectiveRecovery -------------------------
(***************************************************************************)
(* The whole life of one objective: the runtime of OfficeRuntime, and the  *)
(* owner, who stops or resumes the objective from browser tabs             *)
(* (src/hub-job-actions.js, served by the Hub inside the same process).    *)
(* Both owner operations read and write the same rows as the runtime, one  *)
(* unlocked statement at a time.                                           *)
(***************************************************************************)
EXTENDS OfficeRuntime

CONSTANTS
    Tabs,          \* the owner's browser tabs
    OwnerActions,  \* which of "stop" and "resume" the owner uses
    MaxClicks      \* bound: how often the owner clicks in all

ASSUME OwnerAssumption ==
    /\ OwnerActions \subseteq {"stop", "resume"}
    /\ MaxClicks \in Nat

VARIABLES
    tab,     \* tab[o]: how far o's request has come, and the snapshot it works from
    clicks   \* the requests sent so far

ownerVars == <<tab, clicks>>
vars == <<queueVars, runtimeVars, ownerVars>>

OpenJob        == {"planning", "running"}
ResumableJob   == {"failed", "cancelled"}
UnfinishedTask == {"failed", "blocked", "skipped"}
ResumeAttempts == 2

Snapshots == [task : Tasks, status : UnfinishedTask, attempts : Nat]
TabStates == [step : {"idle", "skip", "cancel", "load", "requeue"}, todo : SUBSET Snapshots]
Idle      == [step |-> "idle", todo |-> {}]
At(s)     == [step |-> s, todo |-> {}]

OwnerTypeOK ==
    /\ tab \in [Tabs -> TabStates]
    /\ clicks \in 0..MaxClicks

TypeOK == QueueTypeOK /\ RuntimeTypeOK /\ OwnerTypeOK

Init ==
    /\ QueueInit
    /\ RuntimeInit
    /\ tab = [o \in Tabs |-> Idle]
    /\ clicks = 0

Goes(o, s) == tab' = [tab EXCEPT ![o] = s]

-----------------------------------------------------------------------------
(* readJob, the first statement of either operation.                        *)
Click(o, action, expected, step) ==
    /\ action \in OwnerActions
    /\ tab[o] = Idle
    /\ clicks < MaxClicks
    /\ clicks' = clicks + 1
    /\ job \in expected
    /\ Goes(o, At(step))
    /\ UNCHANGED <<queueVars, runtimeVars>>

StopRead(o)   == Click(o, "stop", OpenJob, "skip")
ResumeRead(o) == Click(o, "resume", ResumableJob, "load")

(* stopObjective: skip what is queued, then close the job if still open.    *)
StopSkip(o) ==
    /\ tab[o].step = "skip"
    /\ status' = [t \in Tasks |-> IF status[t] = "queued" THEN "skipped" ELSE status[t]]
    /\ Goes(o, At("cancel"))
    /\ UNCHANGED <<job, attempts, maxAttempts, waits, waiting, runRows, results, finals,
                   handoffs, runtimeVars, clicks>>

StopCancel(o) ==
    /\ tab[o].step = "cancel"
    /\ job' = IF job \in OpenJob THEN "cancelled" ELSE job
    /\ Goes(o, Idle)
    /\ UNCHANGED <<taskRows, runRows, results, finals, handoffs, runtimeVars, clicks>>

(* resumeObjective: load the unfinished steps, or answer NOTHING_TO_RESUME. *)
Unfinished == {t \in Tasks : status[t] \in UnfinishedTask}

ResumeLoad(o) ==
    /\ tab[o].step = "load"
    /\ Goes(o, IF Unfinished = {} THEN Idle
               ELSE [step |-> "requeue",
                     todo |-> {[task |-> t, status |-> status[t], attempts |-> attempts[t]] :
                                   t \in Unfinished}])
    /\ UNCHANGED <<queueVars, runtimeVars, clicks>>

(* Requeue one loaded step, if its status is still the one loaded.          *)
\* Seeded mistake: the update is not guarded by the loaded status.
StillLoadedUnchecked(r) == TRUE
StillLoaded(r) == status[r.task] = r.status

ResumeRequeue(o, r) ==
    /\ tab[o].step = "requeue"
    /\ r \in tab[o].todo
    /\ \/ /\ StillLoaded(r)
          /\ status' = [status EXCEPT ![r.task] = "queued"]
          /\ maxAttempts' = [maxAttempts EXCEPT ![r.task] = r.attempts + ResumeAttempts]
          /\ waits' = [waits EXCEPT ![r.task] = 0]
          /\ waiting' = waiting \ {r.task}
       \/ /\ ~StillLoaded(r)
          /\ UNCHANGED <<status, maxAttempts, waits, waiting>>
    /\ Goes(o, [tab[o] EXCEPT !.todo = @ \ {r}])
    /\ UNCHANGED <<job, attempts, runRows, results, finals, handoffs, runtimeVars, clicks>>

(* Then reopen the job, if it is still failed or cancelled.                 *)
MayReopen == job \in ResumableJob

ResumeReopen(o) ==
    /\ tab[o].step = "requeue"
    /\ tab[o].todo = {}
    /\ job' = IF MayReopen THEN "running" ELSE job
    /\ Goes(o, Idle)
    /\ UNCHANGED <<taskRows, runRows, results, finals, handoffs, runtimeVars, clicks>>

(* A statement fails: the request answers with an error where it stands.    *)
RequestFails(o) ==
    /\ tab[o] # Idle
    /\ Goes(o, Idle)
    /\ UNCHANGED <<queueVars, runtimeVars, clicks>>

OwnerStep ==
    \E o \in Tabs :
        \/ StopRead(o) \/ StopSkip(o) \/ StopCancel(o)
        \/ ResumeRead(o) \/ ResumeLoad(o) \/ ResumeReopen(o)
        \/ \E r \in tab[o].todo : ResumeRequeue(o, r)
        \/ RequestFails(o)

(* The Hub lives in the runtime's process and dies with it.                 *)
ProcessDies ==
    /\ Crash
    /\ tab' = [o \in Tabs |-> Idle]
    /\ UNCHANGED clicks

Next ==
    \/ RuntimeStep /\ UNCHANGED ownerVars
    \/ OwnerStep
    \/ ProcessDies

Spec == Init /\ [][Next]_vars

(* The runtime's loop polls for ever, a model call ends (it has a time      *)
(* limit), and time passes.  Nothing is assumed of crashes, lost replies or *)
(* the owner.                                                               *)
RuntimeFairness ==
    /\ \A t \in Tasks :
        /\ WF_vars(Start(t) /\ UNCHANGED ownerVars)
        /\ WF_vars(Recover(t) /\ UNCHANGED ownerVars)
        /\ WF_vars(Elapse(t) /\ UNCHANGED ownerVars)
        /\ WF_vars((\E e \in exec : e.task = t /\ ExecutorStep(e)) /\ UNCHANGED ownerVars)

FairSpec == Spec /\ RuntimeFairness

-----------------------------------------------------------------------------
(* An objective has exactly one final answer once it is completed, and none *)
(* before: a retried or late complete_task must not answer it twice, nor a  *)
(* resume racing a completion reopen it (complete_task, lines 207-226).     *)
FinalOnce == finals = IF job = "completed" THEN 1 ELSE 0

(* A step is delivered exactly once, whoever completes it and however often *)
(* ("a retried network call must not double-complete", complete_task), and  *)
(* a delivered step is never run again.                                     *)
DeliveredOnce == \A t \in Tasks : results[t] = IF status[t] = "done" THEN 1 ELSE 0

(* A running step always has its latest run open.  requeue_stale_tasks      *)
(* skips a running task without an open run, so a step for which this fails *)
(* could never be recovered after a crash.                                  *)
RunningIsRecoverable == \A t \in Tasks : status[t] = "running" => attempts[t] \in open[t]

(* After the final answer nothing runs: no step is in progress in the       *)
(* database, even when late executors or a resume still write rows.         *)
AnsweredIsQuiet == job = "completed" => \A t \in Tasks : status[t] # "running"

(* The three together: nothing that was delivered or answered is ever        *)
(* delivered, answered or worked on a second time, whoever retries, resumes  *)
(* or comes late.                                                           *)
AnswersStand == FinalOnce /\ DeliveredOnce /\ AnsweredIsQuiet

(* Nothing exists of an objective nobody has claimed.                       *)
UnclaimedIsEmpty == job = "planning" => Created = {} /\ exec = {} /\ ~booting

(* The runtime and the owner together implement what Objective promises.    *)
Promise == INSTANCE Objective WITH
    phase <- job,
    delivered <- {t \in Tasks : status[t] = "done"},
    answers <- finals

ImplementsObjective == Promise!Spec

-----------------------------------------------------------------------------
(* The properties below are promises of the runtime alone: the runs that    *)
(* check them have no owner request.                                        *)

(* Waiting for capacity does not use up the retry budget ("A deferral never *)
(* consumes the task's retry budget", capacity_wait.sql:8): when a step is   *)
(* given up, every attempt it made is a failed run or one of its waits, and  *)
(* as many runs failed as it was created with attempts.  Only waits are      *)
(* free: a run that was lost in a crash, or whose claim or completion was    *)
(* not answered, is failed by requeue_stale_tasks or by its executor, and    *)
(* counts like one whose model failed.                                      *)
GivesUpOnlyAfterBudget ==
    \A t \in Tasks : status[t] = "failed" =>
        /\ failed[t] \cup deferred[t] = 1..attempts[t]
        /\ Cardinality(deferred[t]) <= waits[t]
        /\ Cardinality(failed[t]) >= MaxAttempts

(* Only what is delivered is built on: a step runs only when everything it    *)
(* depends on has a result (claim_next_task hands it those results), and an   *)
(* answered objective delivered every one of its steps.                      *)
BuildsOnDelivered ==
    /\ \A t \in Tasks : status[t] = "running" => \A d \in Deps[t] : results[d] = 1
    /\ job = "completed" => \A t \in Created : status[t] = "done"

(* A running objective always has a step that runs or can be claimed now or *)
(* after its wait: dependencies, retries and failures never leave it with   *)
(* nothing to do (the stall isStalled looks for).                           *)
CanProgress(t) ==
    \/ status[t] = "running"
    \/ status[t] = "queued" /\ \A d \in Deps[t] : status[d] \in Finished

NeverStranded ==
    job = "running" /\ Created # {} => \E t \in Tasks : CanProgress(t)

(* A completed step has written all the steps its answer asked for, however *)
(* often it was interrupted and run again ("Idempotent by sequence, so a    *)
(* restart resumes it", dispatchWorkflow).                                  *)
PlanIsWhole ==
    \A t \in Tasks : status[t] = "done" => Created \cap UNION Batches[t] \in Batches[t]

(* An answered objective has a handoff for every dependency edge ("one      *)
(* handoff per dependency edge leaving this task", complete_task).          *)
HandoffPerEdge ==
    job = "completed" => \A u \in Created : \A d \in Deps[u] : <<d, u>> \in handoffs

(* An objective whose first step exists ends: answered or failed.           *)
Settles == (job = "running" /\ Created # {}) ~> (job # "running")

-----------------------------------------------------------------------------
(* What the sources say of stop and resume.                                 *)

NoRequest == \A o \in Tabs : tab[o] = Idle

(* "a half-finished resume is harmless and can simply be repeated": with no *)
(* request under way, a failed objective still has a step to resume.        *)
ResumeCanBeRepeated == job = "failed" /\ NoRequest => Unfinished # {}
=============================================================================

------------------------------ MODULE TaskQueue ------------------------------
(***************************************************************************)
(* The Office's durable task queue: the rows of one objective (a job, its  *)
(* tasks, their runs, results and handoffs) and the SQL functions that     *)
(* change them.  Every operator below is one function of                   *)
(* supabase/migrations; each function locks its row and is one database    *)
(* transaction, so each is one step.  Who calls them, and when, is the     *)
(* business of OfficeRuntime and ObjectiveRecovery.                        *)
(*                                                                         *)
(* A task is identified by what ensureTask looks it up by (its place in    *)
(* the workflow): its Sequence number, its dependencies and its title.  A  *)
(* run is identified by the attempt number claim_next_task gives it, which *)
(* never repeats because `attempts` only grows.                            *)
(***************************************************************************)
EXTENDS Naturals, FiniteSets

CONSTANTS
    Tasks,        \* every task the workflow may create for the objective
    Deps,         \* Deps[t]: the tasks that t depends on (tasks.depends_on)
    Sequence,     \* Sequence[t]: tasks.sequence
    MaxAttempts,  \* the retry budget a task is created with (TASK_MAX_ATTEMPTS)
    MaxWaits      \* how often a task may wait for capacity (CAPACITY_LIMITS)

ASSUME QueueAssumption ==
    /\ IsFiniteSet(Tasks)
    /\ Deps \in [Tasks -> SUBSET Tasks]
    /\ Sequence \in [Tasks -> Nat]
    /\ MaxAttempts \in Nat \ {0}
    /\ MaxWaits \in Nat

VARIABLES
    job,          \* jobs.status
    status,       \* tasks.status ("absent": the row does not exist yet)
    attempts,     \* tasks.attempts
    maxAttempts,  \* tasks.max_attempts
    waits,        \* tasks.wait_count
    waiting,      \* tasks whose not_before still lies in the future
    open,         \* open[t]: attempt numbers of t's runs with status 'running'
    failed,       \* failed[t]: attempt numbers of t's runs with status 'failed'
    deferred,     \* deferred[t]: attempt numbers of t's runs with status 'cancelled'
    results,      \* results[t]: number of 'task' result rows of t
    finals,       \* number of 'final' result rows of the job
    handoffs      \* handoff rows, as <<from task, to task>>

taskRows == <<status, attempts, maxAttempts, waits, waiting>>
runRows  == <<open, failed, deferred>>
queueVars == <<job, taskRows, runRows, results, finals, handoffs>>

JobStatus  == {"planning", "running", "completed", "failed", "cancelled"}
TaskStatus == {"absent", "queued", "running", "done", "failed", "blocked", "skipped"}
Finished   == {"done", "skipped"}

QueueTypeOK ==
    /\ job \in JobStatus
    /\ status \in [Tasks -> TaskStatus]
    /\ attempts \in [Tasks -> Nat]
    /\ maxAttempts \in [Tasks -> Nat]
    /\ waits \in [Tasks -> 0..MaxWaits]
    /\ waiting \subseteq Tasks
    /\ open \in [Tasks -> SUBSET Nat]
    /\ failed \in [Tasks -> SUBSET Nat]
    /\ deferred \in [Tasks -> SUBSET Nat]
    /\ results \in [Tasks -> Nat]
    /\ finals \in Nat
    /\ handoffs \subseteq (Tasks \X Tasks)

QueueInit ==
    /\ job = "planning"
    /\ status = [t \in Tasks |-> "absent"]
    /\ attempts = [t \in Tasks |-> 0]
    /\ maxAttempts = [t \in Tasks |-> 0]
    /\ waits = [t \in Tasks |-> 0]
    /\ waiting = {}
    /\ open = [t \in Tasks |-> {}]
    /\ failed = [t \in Tasks |-> {}]
    /\ deferred = [t \in Tasks |-> {}]
    /\ results = [t \in Tasks |-> 0]
    /\ finals = 0
    /\ handoffs = {}

-----------------------------------------------------------------------------
Created == {t \in Tasks : status[t] # "absent"}

Dependents(t) == {u \in Tasks : t \in Deps[u]}

(* The recursive query of fail_task: everything that depends on t through   *)
(* any chain of tasks, whatever the status of the tasks on the chain.       *)
Downstream == [t \in Tasks |->
    {u \in Tasks : \A S \in SUBSET Tasks :
        (Dependents(t) \subseteq S /\ \A v \in S : Dependents(v) \subseteq S) => u \in S}]

(* A task claim_next_task may take.                                         *)
\* Seeded mistake: the dependency filter is lost.
ReadyIgnoringDeps(t) ==
    status[t] = "queued" /\ job = "running" /\ t \notin waiting

Ready(t) ==
    /\ status[t] = "queued"
    /\ job = "running"
    /\ t \notin waiting
    /\ \A d \in Deps[t] : status[d] \in Finished

-----------------------------------------------------------------------------
ClaimNextJob ==
    /\ job = "planning"
    /\ job' = "running"
    /\ UNCHANGED <<taskRows, runRows, results, finals, handoffs>>

(* create_task refuses a dependency that does not exist.                    *)
CreateTask(t) ==
    /\ status[t] = "absent"
    /\ Deps[t] \subseteq Created
    /\ status' = [status EXCEPT ![t] = "queued"]
    /\ maxAttempts' = [maxAttempts EXCEPT ![t] = MaxAttempts]
    /\ UNCHANGED <<job, attempts, waits, waiting, runRows, results, finals, handoffs>>

(* The attempt number of the run a claim opens.                             *)
\* Seeded mistake: the attempt number is read before the update.
NextRunStale(t) == attempts[t]
NextRun(t) == attempts[t] + 1

ClaimTask(t) ==
    /\ Ready(t)
    /\ \A u \in Tasks : Ready(u) => Sequence[t] <= Sequence[u]
    /\ status' = [status EXCEPT ![t] = "running"]
    /\ attempts' = [attempts EXCEPT ![t] = @ + 1]
    /\ open' = [open EXCEPT ![t] = @ \cup {NextRun(t)}]
    /\ UNCHANGED <<job, maxAttempts, waits, waiting, failed, deferred, results, finals, handoffs>>

(* complete_task raises an exception unless the task is running and the run *)
(* it is called for is open; a task already done is reported and left.      *)
\* Seeded mistake: only the run is checked.
MayCompleteAnyStatus(t, n) == n \in open[t]
MayComplete(t, n) == status[t] = "running" /\ n \in open[t]

\* Seeded mistake: the step itself is counted before it is done.
FinishedTooEarly(t) == \A u \in Created : status[u] \in Finished
AllOthersFinished(t) == \A u \in Created \ {t} : status[u] \in Finished

(* The dependents that receive a handoff.                                   *)
\* Seeded mistake: only dependents that can start now are told.
ReceiversReady(t) ==
    {v \in Dependents(t) :
        status[v] = "queued" /\ \A d \in Deps[v] \ {t} : status[d] = "done"}
Receivers(t) == {v \in Dependents(t) : status[v] = "queued"}

CompleteTask(t, n) ==
    /\ MayComplete(t, n)
    /\ status' = [status EXCEPT ![t] = "done"]
    /\ open' = [open EXCEPT ![t] = @ \ {n}]
    /\ results' = [results EXCEPT ![t] = @ + 1]
    /\ handoffs' = handoffs \cup ({t} \X Receivers(t))
    /\ \/ /\ AllOthersFinished(t)
          /\ job' = "completed"
          /\ finals' = finals + 1
       \/ /\ ~AllOthersFinished(t)
          /\ UNCHANGED <<job, finals>>
    /\ UNCHANGED <<attempts, maxAttempts, waits, waiting, failed, deferred>>

(* fail_task looks at the task's status only: not at whether run n is the   *)
(* task's open run.                                                         *)
MarkRunFailed(t, n) ==
    /\ failed' = [failed EXCEPT ![t] = @ \cup {n}]
    /\ open' = [open EXCEPT ![t] = @ \ {n}]
    /\ deferred' = [deferred EXCEPT ![t] = @ \ {n}]

\* Seeded mistake: off by one.
RetriesLeftMinusOne(t) == attempts[t] + 1 < maxAttempts[t]
RetriesLeft(t) == attempts[t] < maxAttempts[t]

FailTask(t, n) ==
    /\ status[t] = "running"
    /\ MarkRunFailed(t, n)
    /\ \/ /\ RetriesLeft(t)
          /\ status' = [status EXCEPT ![t] = "queued"]
          /\ UNCHANGED job
       \/ /\ ~RetriesLeft(t)
          /\ status' = [u \in Tasks |->
                IF u = t THEN "failed"
                ELSE IF u \in Downstream[t] /\ status[u] = "queued" THEN "blocked"
                ELSE status[u]]
          /\ job' = "failed"
    /\ UNCHANGED <<attempts, maxAttempts, waits, waiting, results, finals, handoffs>>

(* defer_task: the task returns to the queue until capacity is expected     *)
(* back, its run is cancelled if still open, and one more attempt is        *)
(* granted so that waiting costs no retry.                                  *)
MayDefer(t) == status[t] = "running" /\ waits[t] < MaxWaits

DeferTask(t, n) ==
    /\ MayDefer(t)
    /\ open' = [open EXCEPT ![t] = @ \ {n}]
    /\ deferred' = [deferred EXCEPT ![t] = IF n \in open[t] THEN @ \cup {n} ELSE @]
    /\ status' = [status EXCEPT ![t] = "queued"]
    /\ waiting' = waiting \cup {t}
    /\ waits' = [waits EXCEPT ![t] = @ + 1]
    /\ maxAttempts' = [maxAttempts EXCEPT ![t] = @ + 1]
    /\ UNCHANGED <<job, attempts, failed, results, finals, handoffs>>

(* One iteration of requeue_stale_tasks: it fails the most recently started *)
(* open run of a task whose started_at is too old.  The iterations of one   *)
(* call run in one transaction; taking them one at a time only adds the     *)
(* states in between.                                                       *)
RequeueStale(t) ==
    /\ status[t] = "running"
    /\ \E n \in open[t] : (\A m \in open[t] : m <= n) /\ FailTask(t, n)

(* not_before passes.                                                       *)
WaitElapses(t) ==
    /\ t \in waiting
    /\ waiting' = waiting \ {t}
    /\ UNCHANGED <<job, status, attempts, maxAttempts, waits, runRows, results, finals, handoffs>>
=============================================================================

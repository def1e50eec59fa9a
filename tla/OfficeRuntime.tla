--------------------------- MODULE OfficeRuntime ---------------------------
(***************************************************************************)
(* The Office runtime (src/workflow.js, started by src/index.js): one      *)
(* process that claims a planned job, creates its first task, and keeps up *)
(* to Slots claimed tasks in flight.  Each task in flight is an executor:  *)
(* it waits for a model, writes the tasks its answer asks for and then     *)
(* completes its own task, or fails or defers it.  Every call to the       *)
(* database is a step of its own; any of them may fail, lose its reply, or *)
(* be cut short because the process dies.                                  *)
(***************************************************************************)
EXTENDS TaskQueue

CONSTANTS
    Root,           \* the task bootstrap creates (Chief planning, or a direct conversation)
    Batches,        \* Batches[t]: the sets of tasks t's model answer may ask for
    Slots,          \* parallelTasks
    LostHeartbeats  \* TRUE: a live executor may stay unheard for staleMinutes

ASSUME RuntimeAssumption ==
    /\ Root \in Tasks
    /\ Batches \in [Tasks -> SUBSET SUBSET Tasks]
    /\ Slots \in Nat \ {0}
    /\ LostHeartbeats \in BOOLEAN

VARIABLES
    booting,  \* claim_next_job has returned the job and bootstrap has not ended
    exec      \* the executors in flight (OfficeWorkflow.inFlight)

runtimeVars == <<booting, exec>>

Phases == {"model", "saving", "failing"}

Executors == [task : Tasks, run : Nat, phase : Phases, todo : SUBSET Tasks]

RuntimeTypeOK ==
    /\ booting \in BOOLEAN
    /\ exec \subseteq Executors

RuntimeInit ==
    /\ booting = FALSE
    /\ exec = {}

Becomes(e, f) == exec' = (exec \ {e}) \cup {f}
Leaves(e)     == exec' = exec \ {e}
Failing(e)    == [e EXCEPT !.phase = "failing"]

-----------------------------------------------------------------------------
(* runOnce: claim a job, then bootstrap it.  claim_next_job only takes a    *)
(* job in 'planning', so a job whose reply is lost is not claimed again.    *)
ClaimJob ==
    /\ ~booting
    /\ ClaimNextJob
    /\ booting' \in BOOLEAN
    /\ UNCHANGED exec

Bootstrap ==
    /\ booting
    /\ booting' = FALSE
    /\ CreateTask(Root) \/ UNCHANGED queueVars
    /\ UNCHANGED exec

(* runOnce: claim the next ready task while a slot is free.                 *)
Start(t) ==
    /\ ~booting
    /\ Cardinality(exec) < Slots
    /\ ClaimTask(t)
    /\ \/ exec' = exec \cup {[task |-> t, run |-> attempts'[t], phase |-> "model", todo |-> {}]}
       \/ UNCHANGED exec
    /\ UNCHANGED booting

(* The model answers; the answer decides which tasks come next.             *)
Answer(e) ==
    /\ e.phase = "model"
    /\ \E B \in Batches[e.task] : Becomes(e, [e EXCEPT !.phase = "saving", !.todo = B])
    /\ UNCHANGED <<queueVars, booting>>

(* ensureTask: look the task up by its sequence; return it, create it, or   *)
(* refuse because another task holds the sequence.                          *)
Conflicts(t) == \E u \in Created \ {t} : Sequence[u] = Sequence[t]

First(todo) == {t \in todo : \A u \in todo : Sequence[t] <= Sequence[u]}

EnsureTask(e, t) ==
    /\ e.phase = "saving"
    /\ t \in First(e.todo)
    /\ \/ /\ Conflicts(t)
          /\ Becomes(e, Failing(e))
          /\ UNCHANGED queueVars
       \/ /\ ~Conflicts(t)
          /\ status[t] # "absent"
          /\ Becomes(e, [e EXCEPT !.todo = @ \ {t}])
          /\ UNCHANGED queueVars
       \/ /\ ~Conflicts(t)
          /\ CreateTask(t)
          /\ Becomes(e, [e EXCEPT !.todo = @ \ {t}]) \/ Becomes(e, Failing(e))
    /\ UNCHANGED booting

(* Any call of the stage throws before it changed anything.                 *)
StageError(e) ==
    /\ e.phase \in {"model", "saving"}
    /\ Becomes(e, Failing(e))
    /\ UNCHANGED <<queueVars, booting>>

(* No model route now, one is expected back: execute's catch defers.        *)
Defer(e) ==
    /\ e.phase = "model"
    /\ \/ DeferTask(e.task, e.run) /\ Leaves(e)
       \/ /\ status[e.task] # "running"
          /\ Leaves(e)
          /\ UNCHANGED queueVars
       \/ /\ status[e.task] = "running" /\ ~MayDefer(e.task)
          /\ Becomes(e, Failing(e))
          /\ UNCHANGED queueVars
    /\ UNCHANGED booting

(* The stage ends with complete_task.  The task may be completed although   *)
(* the reply is lost or the emit after it throws; execute then fails it.    *)
\* Seeded mistake: the stage completes before its tasks are written.
WrittenUnchecked(e) == e.phase = "saving"
Written(e) == e.phase = "saving" /\ e.todo = {}

Complete(e) ==
    /\ Written(e)
    /\ \/ CompleteTask(e.task, e.run) /\ (Leaves(e) \/ Becomes(e, Failing(e)))
       \/ /\ status[e.task] = "done"
          /\ Leaves(e)
          /\ UNCHANGED queueVars
       \/ /\ status[e.task] # "done" /\ ~MayComplete(e.task, e.run)
          /\ Becomes(e, Failing(e))
          /\ UNCHANGED queueVars
    /\ UNCHANGED booting

(* execute's catch calls fail_task, which ignores a task not running.       *)
Fail(e) ==
    /\ e.phase = "failing"
    /\ Leaves(e)
    /\ \/ FailTask(e.task, e.run)
       \/ status[e.task] # "running" /\ UNCHANGED queueVars
    /\ UNCHANGED booting

(* fail_task or defer_task cannot be reached: execute itself rejects and    *)
(* the task stays 'running' with nobody working on it.                      *)
Abandon(e) ==
    /\ e.phase \in {"model", "failing"}
    /\ Leaves(e)
    /\ UNCHANGED <<queueVars, booting>>

(* runOnce's periodic recovery.  withHeartbeat refreshes started_at while   *)
(* an executor of the task lives, unless its heartbeats are lost.           *)
Unheard(t) == LostHeartbeats \/ \A e \in exec : e.task # t

Recover(t) ==
    /\ ~booting
    /\ Unheard(t)
    /\ RequeueStale(t)
    /\ UNCHANGED runtimeVars

Elapse(t) == WaitElapses(t) /\ UNCHANGED runtimeVars

ExecutorStep(e) ==
    \/ Answer(e)
    \/ \E t \in Tasks : EnsureTask(e, t)
    \/ StageError(e)
    \/ Defer(e)
    \/ Complete(e)
    \/ Fail(e)
    \/ Abandon(e)

RuntimeStep ==
    \/ ClaimJob
    \/ Bootstrap
    \/ \E t \in Tasks : Start(t) \/ Recover(t) \/ Elapse(t)
    \/ \E e \in exec : ExecutorStep(e)

(* The process dies: nothing in memory survives, the rows stay.             *)
Crash ==
    /\ booting \/ exec # {}
    /\ booting' = FALSE
    /\ exec' = {}
    /\ UNCHANGED queueVars
=============================================================================

------------------------ MODULE ContinuitySupervisor ------------------------
(***************************************************************************)
(* The Coding Continuity Supervisor for one task branch: it starts a       *)
(* worker under the branch's write lease, keeps the lease alive, passes    *)
(* the baton to another worker, finishes, resumes, and recovers leases     *)
(* whose heartbeat stopped.                                                *)
(*                                                                         *)
(* Each handler of the Supervisor is an async function; between two awaits *)
(* it is a flow that waits at a program counter, and several flows run at  *)
(* once: the status poll has no guard against overlapping itself, and the  *)
(* owner, the usage timer and lost heartbeats start others.  Every await   *)
(* is a step that may also fail, before or after its effect.               *)
(***************************************************************************)
EXTENDS CodingLease

CONSTANTS
    Flows,      \* handlers that may be in progress at once
    Requests,   \* what the owner and the usage timer may ask for
    Stalls,     \* whether a call may take longer than a lease lasts
    MaxFaults   \* calls that fail and crashes, in all

ASSUME SupervisorAssumption ==
    /\ IsFiniteSet(Flows)
    /\ None \notin Flows
    /\ Requests \subseteq {"start", "pass", "pause", "abort", "finish", "resume", "shutdown"}
    /\ Stalls \in BOOLEAN
    /\ MaxFaults \in Nat

VARIABLES
    up,         \* the runtime process: "down", "starting", "up" or "stopping"
    running,    \* ContinuitySupervisor.running
    held,       \* LeaseManager.active
    beating,    \* leases whose heartbeat timer is set
    flow,       \* the handlers in progress
    proc,       \* the worker process of each session
    tree,       \* sessions whose worktree is on disk
    faults      \* failures so far

memory == <<up, running, held, beating>>
world  == <<proc, tree>>
vars   == <<rows, memory, flow, world, faults>>

Over == {"completed", "failed", "cancelled"}
Kinds == {"none", "start", "pass", "pause", "abort", "finish", "unsafe", "resume", "recover", "lost"}

NoFlow == [pc |-> "idle", kind |-> "none", from |-> None, to |-> None, ok |-> FALSE,
           loop |-> "none", todo |-> {}]

Points == {"idle", "next", "fatal", "drain", "draining", "stop", "checkpoint", "checkpointing",
           "gates", "transfer", "save", "condemn", "yield", "choose", "prepare", "propose",
           "release", "enroll", "acquire", "record", "discard", "accept", "launch", "bind", "undo",
           "retract", "unwind", "disown", "halt", "fail", "failing", "verify", "reclaim"}

Handlers ==
    [pc : Points, kind : Kinds, from : Sessions \cup {None}, to : Sessions \cup {None},
     ok : BOOLEAN, loop : {"none", "poll", "recover", "shutdown"}, todo : SUBSET Sessions]

TypeOK ==
    /\ LeaseTypeOK
    /\ up \in {"down", "starting", "up", "stopping"}
    /\ running \subseteq Sessions
    /\ held \subseteq Sessions
    /\ beating \subseteq Sessions
    /\ flow \in [Flows -> Handlers]
    /\ proc \in [Sessions -> {"none", "working"} \cup Over]
    /\ tree \subseteq Sessions
    /\ faults \in 0..MaxFaults

Init ==
    /\ LeaseInit
    /\ up = "up"
    /\ running = {} /\ held = {} /\ beating = {}
    /\ flow = [f \in Flows |-> NoFlow]
    /\ proc = [s \in Sessions |-> "none"]
    /\ tree = {}
    /\ faults = 0

-----------------------------------------------------------------------------
(* How a flow goes on.                                                      *)
At(f, pc)   == flow[f].pc = pc
From(f)     == flow[f].from
To(f)       == flow[f].to
Kind(f)     == flow[f].kind
Step(f, pc) == flow' = [flow EXCEPT ![f].pc = pc]
Turn(f, pc, kind) == flow' = [flow EXCEPT ![f].pc = pc, ![f].kind = kind]
Begin(f, pc, kind, s) == flow' = [flow EXCEPT ![f].pc = pc, ![f].kind = kind, ![f].from = s]

(* A handler called from the poll or the recovery loop returns to it.       *)
Return(f) ==
    flow' = [flow EXCEPT ![f] =
                IF @.loop = "none" THEN NoFlow
                ELSE [NoFlow EXCEPT !.pc = "next", !.loop = flow[f].loop, !.todo = flow[f].todo]]

(* An exception ends the whole poll; during start-up it ends the process.   *)
Throw(f) ==
    flow' = [flow EXCEPT ![f] = [NoFlow EXCEPT !.pc = IF up = "starting" THEN "fatal" ELSE "idle"]]

Fault == faults < MaxFaults /\ faults' = faults + 1

(* A database call: it is carried out, refused, lost, or its answer is lost. *)
Call(May, Effect, Then, Else) ==
    \/ May  /\ Effect /\ Then /\ UNCHANGED faults
    \/ ~May /\ UNCHANGED rows /\ Else /\ UNCHANGED faults
    \/ Fault /\ UNCHANGED rows /\ Else
    \/ Fault /\ May /\ Effect /\ Else

Stopped(s) ==
    [proc EXCEPT ![s] = IF @ # "working" THEN @
                        ELSE IF worker[s] \in Native THEN "cancelled" ELSE "failed"]

Fresh(t) == status[t] = "absent"

Managed(s) == worker[s] \notin Native    \* worktreeManagement 'supervisor'

-----------------------------------------------------------------------------
(* Requests.                                                                *)
StartTask(f) ==
    /\ "start" \in Requests /\ up = "up" /\ At(f, "idle")
    /\ \E t \in Sessions, w \in Workers :
         /\ Fresh(t)
         /\ CreateSession(t, w)
         /\ flow' = [flow EXCEPT ![f].pc = "prepare", ![f].kind = "start", ![f].to = t]
         /\ \/ UNCHANGED tree
            \/ w \in Native /\ tree' = tree \cup {t}   \* a worktree the owner named
    /\ UNCHANGED <<memory, proc, faults>>

Ask(f, s, kind) ==
    /\ kind \in Requests /\ up = "up" /\ At(f, "idle")
    /\ s \in running
    /\ Begin(f, "drain", kind, s)
    /\ UNCHANGED <<rows, memory, world, faults>>

Resume(f, s) ==
    /\ "resume" \in Requests /\ up = "up" /\ At(f, "idle")
    /\ status[s] = "HANDOFF_READY" /\ s \in saved
    /\ \A t \in Sessions : ~Holds(t)
    /\ \E t \in Sessions, w \in Workers :
         /\ Fresh(t)
         /\ CreateSession(t, w)
         /\ flow' = [flow EXCEPT ![f].pc = "prepare", ![f].kind = "resume",
                                 ![f].from = s, ![f].to = t]
         /\ tree' = IF w \in Native /\ s \in tree THEN tree \cup {t} ELSE tree
    /\ UNCHANGED <<memory, proc, faults>>

-----------------------------------------------------------------------------
(* Stopping the worker that holds the baton.  transitionSession reads the   *)
(* session, checks the move and writes it in a second call.                 *)
ReadMove(f, at, to, next) ==
    /\ At(f, at)
    /\ \/ MayMove(From(f), to) /\ Step(f, next) /\ UNCHANGED faults
       \/ ~MayMove(From(f), to) /\ Throw(f) /\ UNCHANGED faults
       \/ Fault /\ Throw(f)
    /\ UNCHANGED <<rows, memory, world>>

WriteMove(f, at, to, next) ==
    /\ At(f, at)
    /\ Call(TRUE, SetStatus(From(f), to), Step(f, next), Throw(f))
    /\ UNCHANGED <<memory, world>>

Drain(f)      == ReadMove(f, "drain", "DRAINING", "draining")
Draining(f)   == WriteMove(f, "draining", "DRAINING", "stop")
Checkpoint(f) == ReadMove(f, "checkpoint", "CHECKPOINTING", "checkpointing")
Checkpointing(f) ==
    WriteMove(f, "checkpointing", "CHECKPOINTING", IF Kind(f) = "finish" THEN "gates" ELSE "save")

\* Seeded mistake: a worker that is still draining counts as stopped.
StopWorkerDraining(f) ==
    /\ At(f, "stop")
    /\ proc' \in {proc, Stopped(From(f))}
    /\ Step(f, "checkpoint")
    /\ UNCHANGED <<rows, memory, tree, faults>>

StopWorker(f) ==
    /\ At(f, "stop")
    /\ \/ proc' = Stopped(From(f)) /\ Step(f, "checkpoint") /\ UNCHANGED faults
       \/ Fault /\ proc' \in {proc, Stopped(From(f))} /\ Throw(f)
    /\ UNCHANGED <<rows, memory, tree>>

(* The completion gates run for as long as the tests do.                    *)
Gates(f) ==
    /\ At(f, "gates")
    /\ \E passed \in BOOLEAN :
         flow' = [flow EXCEPT ![f].pc = "transfer", ![f].ok = passed]
    /\ UNCHANGED <<rows, memory, world, faults>>

(* An event that cannot be recorded, a clean-up or a read that fails is an  *)
(* exception like any other, where no try surrounds it.                     *)
Interrupt(f) ==
    /\ \/ flow[f].pc \in {"gates", "next"}
       \/ flow[f].pc \in {"transfer", "enroll"} /\ Kind(f) = "pass"
    /\ Fault
    /\ Throw(f)
    /\ UNCHANGED <<rows, memory, world>>

(* An unpublished branch is never completed nor given to anyone.            *)
\* Seeded mistake: finish completes although the branch was not published.
UnpublishedIgnored(f) == Step(f, IF Kind(f) = "finish" THEN "save" ELSE "condemn")

Unpublished(f) == IF Kind(f) = "finish" THEN Turn(f, "save", "unsafe") ELSE Step(f, "condemn")

(* prepareTransfer: publish the branch and remove the managed worktree.     *)
Transfer(f) ==
    /\ At(f, "transfer")
    /\ \/ /\ Managed(From(f)) => From(f) \in tree
          /\ tree' = IF Managed(From(f)) THEN tree \ {From(f)} ELSE tree
          /\ Step(f, CASE Kind(f) = "pass" -> "choose"
                       [] Kind(f) = "finish" -> "save"
                       [] OTHER -> "yield")
          /\ UNCHANGED faults
       \/ /\ Managed(From(f))
          /\ \/ From(f) \notin tree /\ UNCHANGED faults
             \/ Fault
          /\ Unpublished(f)
          /\ UNCHANGED tree
    /\ UNCHANGED <<rows, memory, proc>>

Save(f) ==
    /\ At(f, "save")
    /\ Call(MaySave(From(f)), SaveCheckpoint(From(f)),
            Step(f, CASE Kind(f) = "finish" -> "yield"
                      [] Kind(f) = "unsafe" -> "condemn"
                      [] OTHER -> "transfer"),
            Throw(f))
    /\ UNCHANGED <<memory, world>>

(* An unpublished worktree is kept, and so is the lease, without heartbeat. *)
Condemn(f) ==
    /\ At(f, "condemn")
    /\ Call(MayMove(From(f), "ABNORMAL_EXIT"), CloseAbnormal(From(f), FALSE), Return(f), Return(f))
    /\ beating' = beating \ {From(f)}
    /\ running' = running \ {From(f)}
    /\ UNCHANGED <<up, held, world>>

FinalStatus(f) ==
    CASE Kind(f) = "abort" -> "RELEASED"
      [] Kind(f) = "finish" /\ flow[f].ok -> "COMPLETED"
      [] OTHER -> "HANDOFF_READY"

(* LeaseManager.release, for a session whose handler does not catch.        *)
LetGo(f, s, final, Then, Else) ==
    Call(s \in held /\ MayRelease(s), ReleaseLease(s, final),
         Then /\ held' = held \ {s} /\ beating' = beating \ {s},
         Else /\ UNCHANGED <<running, held, beating>>)

Yield(f) ==
    /\ At(f, "yield")
    /\ LetGo(f, From(f), FinalStatus(f), Return(f) /\ running' = running \ {From(f)}, Throw(f))
    /\ UNCHANGED <<up, world>>

-----------------------------------------------------------------------------
(* Giving the baton to a new session.                                       *)
Choose(f) ==
    /\ At(f, "choose")
    /\ \/ /\ IF Kind(f) = "pass" THEN Turn(f, "yield", "pause") ELSE Return(f)
          /\ UNCHANGED <<rows, faults>>
       \/ \E t \in Sessions, w \in Workers \ {worker[From(f)]} :
            /\ Fresh(t)
            /\ Call(TRUE, CreateSession(t, w),
                    flow' = [flow EXCEPT ![f].pc = "prepare", ![f].to = t], Throw(f))
    /\ UNCHANGED <<memory, world>>

(* git refuses to check the branch out in a second worktree.                *)
Prepare(f) ==
    LET taken == \E s \in tree : Managed(s) IN
    /\ At(f, "prepare")
    /\ \/ /\ Managed(To(f)) => ~taken
          /\ Step(f, IF Kind(f) = "start" THEN "enroll" ELSE "propose")
          /\ tree' = IF Managed(To(f)) THEN tree \cup {To(f)} ELSE tree
          /\ UNCHANGED faults
       \/ /\ Managed(To(f))
          /\ \/ taken /\ UNCHANGED <<tree, faults>>
             \/ Fault /\ tree' \in {tree} \cup (IF taken THEN {} ELSE {tree \cup {To(f)}})
          /\ CASE Kind(f) = "pass" -> Turn(f, "yield", "pause")
               [] Kind(f) = "recover" -> Return(f)
               [] OTHER -> Throw(f)
    /\ UNCHANGED <<rows, memory, proc>>

Propose(f) ==
    /\ At(f, "propose")
    /\ Call(MayPropose(From(f)), ProposeHandoff(From(f), To(f)),
            Step(f, IF Kind(f) = "pass" THEN "release" ELSE "enroll"),
            IF Kind(f) = "pass" THEN Turn(f, "yield", "pause") ELSE Throw(f))
    /\ UNCHANGED <<memory, world>>

Release(f) ==
    /\ At(f, "release")
    /\ LetGo(f, From(f), "HANDOFF_READY", Step(f, "enroll") /\ UNCHANGED running, Throw(f))
    /\ UNCHANGED <<up, world>>

(* What is left when the new session cannot be brought to work.             *)
Withdraw(f, recorded) ==
    IF Kind(f) = "start" THEN Step(f, "disown")
    ELSE flow' = [flow EXCEPT ![f].pc = "unwind", ![f].ok = recorded]

Enroll(f) ==
    /\ At(f, "enroll")
    /\ Call(TRUE, SetStatus(To(f), "ACQUIRING"), Step(f, "acquire"), Withdraw(f, FALSE))
    /\ UNCHANGED <<memory, world>>

Acquire(f) ==
    /\ At(f, "acquire")
    /\ Call(MayAcquire(To(f)), AcquireLease(To(f)),
            Step(f, "record") /\ held' = held \cup {To(f)},
            Withdraw(f, FALSE) /\ UNCHANGED held)
    /\ UNCHANGED <<up, running, beating, world>>

Record(f) ==
    /\ At(f, "record")
    /\ Call(MaySave(To(f)), SaveCheckpoint(To(f)),
            Step(f, IF Kind(f) = "start" THEN "launch" ELSE "accept"),
            IF Kind(f) = "start" THEN Step(f, "discard") ELSE Withdraw(f, FALSE))
    /\ UNCHANGED <<memory, world>>

(* startTask closes the session and looks for the checkpoint it may have    *)
(* written before it lets go of the lease.                                  *)
Discard(f) ==
    /\ At(f, "discard")
    /\ Call(MayMove(To(f), "ABNORMAL_EXIT"), CloseAbnormal(To(f), FALSE),
            flow' = [flow EXCEPT ![f].pc = "unwind", ![f].ok = To(f) \in saved],
            flow' = [flow EXCEPT ![f].pc = "unwind", ![f].ok = To(f) \in saved])
    /\ UNCHANGED <<memory, world>>

Accept(f) ==
    /\ At(f, "accept")
    /\ Call(MayAccept(To(f)), AcceptHandoff(To(f)), Step(f, "launch"), Withdraw(f, TRUE))
    /\ UNCHANGED <<memory, world>>

(* adapter.start.  The Office adapter creates its native session first and  *)
(* binds it to the branch in a second call; a native session whose binding  *)
(* failed inside the adapter has no branch, so it writes to no worktree.    *)
Settle(f) ==
    /\ running' = (IF Kind(f) = "pass" THEN running \ {From(f)} ELSE running) \cup {To(f)}
    /\ beating' = beating \cup ({To(f)} \cap held)
    /\ IF To(f) \in held THEN Return(f) ELSE Throw(f)

Launch(f) ==
    /\ At(f, "launch")
    /\ \/ /\ proc' = [proc EXCEPT ![To(f)] = "working"]
          /\ IF Managed(To(f)) THEN Settle(f)
             ELSE Step(f, "bind") /\ UNCHANGED <<running, beating>>
          /\ UNCHANGED faults
       \/ /\ Fault
          /\ Step(f, "retract")
          /\ UNCHANGED <<proc, running, beating>>
    /\ UNCHANGED <<rows, up, held, tree>>

Bind(f) ==
    /\ At(f, "bind")
    /\ Call(TRUE, BindNative(To(f)), Settle(f), Step(f, "undo") /\ UNCHANGED <<running, beating>>)
    /\ UNCHANGED <<up, held, world>>

\* Seeded mistake: the lease is taken back from a worker nobody stopped.
UndoUnstopped(f) ==
    /\ At(f, "undo")
    /\ Step(f, "retract")
    /\ UNCHANGED <<rows, memory, world, faults>>

(* stopFailedExecution, and preserveUnconfirmedWorker when it cannot tell.  *)
Undo(f) ==
    /\ At(f, "undo")
    /\ \/ /\ proc' = Stopped(To(f)) /\ Step(f, "retract")
          /\ UNCHANGED <<rows, faults>>
       \/ /\ Fault
          /\ proc' \in {proc, Stopped(To(f))}
          /\ \/ MayMove(To(f), "ABNORMAL_EXIT") /\ CloseAbnormal(To(f), FALSE)
             \/ UNCHANGED rows
          /\ IF Kind(f) \in {"pass", "recover"} THEN Return(f) ELSE Throw(f)
    /\ UNCHANGED <<memory, tree>>

Retract(f) ==
    /\ At(f, "retract")
    /\ LetGo(f, To(f), "HANDOFF_READY", Step(f, "disown") /\ UNCHANGED running, Throw(f))
    /\ UNCHANGED <<up, world>>

(* The same two calls, whose failures are caught, before a worker exists.   *)
Unwind(f) ==
    /\ At(f, "unwind")
    /\ \/ /\ flow[f].ok
          /\ LetGo(f, To(f), "HANDOFF_READY", Step(f, "disown") /\ UNCHANGED running,
                   Step(f, "disown"))
       \/ /\ ~flow[f].ok
          /\ Step(f, "disown")
          /\ UNCHANGED <<rows, running, held, beating, faults>>
    /\ UNCHANGED <<up, world>>

Disown(f) ==
    /\ At(f, "disown")
    /\ CASE Kind(f) = "start" -> Throw(f) /\ UNCHANGED <<rows, faults>>
         [] Kind(f) = "resume" -> Call(TRUE, FailHandoff(To(f)), Throw(f), Throw(f))
         [] OTHER -> Call(TRUE, FailHandoff(To(f)), Return(f), Return(f))
    /\ running' = IF Kind(f) = "pass" THEN running \ {From(f)} ELSE running
    /\ tree' = IF Managed(To(f)) THEN tree \ {To(f)} ELSE tree
    /\ UNCHANGED <<up, held, beating, proc>>

-----------------------------------------------------------------------------
(* A lost heartbeat, and the same calls when the runtime shuts down.        *)
LoseLease(f, s) ==
    /\ up # "down" /\ s \in beating /\ At(f, "idle")
    /\ \/ ~Live(s) /\ UNCHANGED faults
       \/ Fault
    /\ beating' = beating \ {s}
    /\ IF s \in running THEN Begin(f, "halt", "lost", s) ELSE UNCHANGED flow
    /\ UNCHANGED <<rows, up, running, held, world>>

Halt(f) ==
    /\ At(f, "halt")
    /\ \/ /\ proc' = Stopped(From(f))
          /\ flow' = [flow EXCEPT ![f].pc = "fail", ![f].ok = TRUE]
          /\ UNCHANGED faults
       \/ Fault /\ proc' \in {proc, Stopped(From(f))} /\ Step(f, "fail")
    /\ UNCHANGED <<rows, memory, tree>>

Forget(f) == Return(f) /\ running' = running \ {From(f)}

FailRead(f) ==
    /\ At(f, "fail")
    /\ \/ /\ MayMove(From(f), "ABNORMAL_EXIT")
          /\ Step(f, "failing") /\ UNCHANGED <<running, faults>>
       \/ ~MayMove(From(f), "ABNORMAL_EXIT") /\ Forget(f) /\ UNCHANGED faults
       \/ Fault /\ Forget(f)
    /\ UNCHANGED <<rows, up, held, beating, world>>

\* Seeded mistake: the stop is recorded as confirmed when it was only tried.
FailWriteConfirmed(f) ==
    /\ At(f, "failing")
    /\ Call(TRUE, CloseAbnormal(From(f), TRUE), Forget(f), Forget(f))
    /\ UNCHANGED <<up, held, beating, world>>

FailWrite(f) ==
    /\ At(f, "failing")
    /\ Call(TRUE, CloseAbnormal(From(f), flow[f].ok), Forget(f), Forget(f))
    /\ UNCHANGED <<up, held, beating, world>>

-----------------------------------------------------------------------------
(* pollStatus: first the sessions in memory, then recoverStale.             *)
PollTick(f) ==
    /\ up = "up" /\ At(f, "idle")
    /\ flow' = [flow EXCEPT ![f].pc = "next", ![f].loop = "poll", ![f].todo = running]
    /\ UNCHANGED <<rows, memory, world, faults>>

(* The Office adapter reports a cancelled native session as active.         *)
\* Seeded mistake: the poll only looks for failures.
PollOneFailed(f, s) ==
    /\ At(f, "next") /\ flow[f].loop = "poll" /\ s \in flow[f].todo
    /\ flow' = IF proc[s] = "failed" /\ s \in running
               THEN [flow EXCEPT ![f].pc = "drain", ![f].kind = "pass", ![f].from = s,
                                 ![f].todo = @ \ {s}]
               ELSE [flow EXCEPT ![f].todo = @ \ {s}]
    /\ UNCHANGED <<rows, memory, world, faults>>

PollOne(f, s) ==
    /\ At(f, "next") /\ flow[f].loop = "poll" /\ s \in flow[f].todo
    /\ LET Called(kind) ==
             IF s \in running
             THEN flow' = [flow EXCEPT ![f].pc = "drain", ![f].kind = kind, ![f].from = s,
                                       ![f].todo = @ \ {s}]
             ELSE Throw(f)
       IN  \/ /\ CASE proc[s] = "completed" -> Called("finish")
                   [] proc[s] = "failed" -> Called("pass")
                   [] OTHER -> flow' = [flow EXCEPT ![f].todo = @ \ {s}]
              /\ UNCHANGED faults
           \/ Fault /\ Called("pass")
    /\ UNCHANGED <<rows, memory, world>>

Freeze(f) ==
    /\ At(f, "next") /\ flow[f].loop = "poll" /\ flow[f].todo = {}
    /\ LET stale == {s \in Sessions : Stale(s)} IN
         Call(TRUE, FreezeStaleLeases,
              /\ held' = held \ stale
              /\ beating' = beating \ stale
              /\ flow' = [flow EXCEPT ![f].loop = "recover",
                                      ![f].todo = {s \in Sessions : lease'[s] = "FROZEN"}],
              Throw(f) /\ UNCHANGED <<held, beating>>)
    /\ UNCHANGED <<up, running, world>>

(* Proof that the old writer ended: its stop was confirmed when its lease   *)
(* was lost, or its native session has ended.                               *)
\* Seeded mistake: a checkpoint is taken for proof that the writer ended.
StopConfirmedBySave(s) == s \in saved

StopConfirmed(s) ==
    \/ s \in proven
    \/ worker[s] \in Native /\ s \in bound /\ proc[s] \in Over

RecoverOne(f, s) ==
    /\ At(f, "next") /\ flow[f].loop = "recover" /\ s \in flow[f].todo
    /\ IF StopConfirmed(s) /\ s \in saved
       THEN flow' = [flow EXCEPT ![f].pc = "verify", ![f].kind = "recover", ![f].from = s,
                                 ![f].todo = @ \ {s}]
       ELSE flow' = [flow EXCEPT ![f].todo = @ \ {s}]
    /\ UNCHANGED <<rows, memory, world, faults>>

(* verifyBranch runs git in the leased worktree and throws without one.     *)
Verify(f) ==
    /\ At(f, "verify")
    /\ \/ /\ From(f) \in tree
          /\ Step(f, "reclaim")
          /\ tree' = IF Managed(From(f)) THEN tree \ {From(f)} ELSE tree
          /\ UNCHANGED faults
       \/ From(f) \notin tree /\ Throw(f) /\ UNCHANGED <<tree, faults>>
       \/ From(f) \in tree /\ Return(f) /\ UNCHANGED <<tree, faults>>   \* not clean
    /\ UNCHANGED <<rows, memory, proc>>

Reclaim(f) ==
    /\ At(f, "reclaim")
    /\ Call(MayReclaim(From(f)), ReclaimLease(From(f)), Step(f, "choose"), Throw(f))
    /\ UNCHANGED <<memory, world>>

RecoverDone(f) ==
    /\ At(f, "next") /\ flow[f].loop = "recover" /\ flow[f].todo = {}
    /\ flow' = [flow EXCEPT ![f] = NoFlow]
    /\ up' = IF up = "starting" THEN "up" ELSE up
    /\ UNCHANGED <<rows, running, held, beating, world, faults>>

-----------------------------------------------------------------------------
(* The process and the workers.  A worker outlives the runtime.             *)
Die ==
    /\ up' = "down"
    /\ running' = {} /\ held' = {} /\ beating' = {}
    /\ flow' = [f \in Flows |-> NoFlow]
    /\ UNCHANGED <<rows, world>>

Crash == up # "down" /\ Fault /\ Die
Exit  == (\E f \in Flows : At(f, "fatal")) /\ Die /\ UNCHANGED faults

(* drainForShutdown stops every worker and leaves its lease to expire.       *)
Shutdown(f) ==
    /\ "shutdown" \in Requests /\ up = "up" /\ At(f, "idle")
    /\ up' = "stopping"
    /\ flow' = [flow EXCEPT ![f].pc = "next", ![f].loop = "shutdown", ![f].todo = running]
    /\ UNCHANGED <<rows, running, held, beating, world, faults>>

ShutdownOne(f, s) ==
    /\ At(f, "next") /\ flow[f].loop = "shutdown" /\ s \in flow[f].todo
    /\ flow' = [flow EXCEPT ![f].pc = "halt", ![f].kind = "lost", ![f].from = s, ![f].todo = @ \ {s}]
    /\ UNCHANGED <<rows, memory, world, faults>>

ShutdownDone(f) ==
    /\ At(f, "next") /\ flow[f].loop = "shutdown" /\ flow[f].todo = {}
    /\ Die
    /\ UNCHANGED faults

Boot(f) ==
    /\ up = "down"
    /\ up' = "starting"
    /\ flow' = [flow EXCEPT ![f] = [NoFlow EXCEPT !.pc = "next", !.loop = "poll"]]
    /\ UNCHANGED <<rows, running, held, beating, world, faults>>

WorkerEnds(s) ==
    /\ proc[s] = "working"
    /\ \E end \in Over :
         /\ end = "cancelled" => worker[s] \in Native
         /\ proc' = [proc EXCEPT ![s] = end]
    /\ UNCHANGED <<rows, memory, flow, tree, faults>>

(* Nobody waits on a tended lease longer than it lasts, unless calls stall. *)
Tended(s) == s \in beating \/ \E f \in Flows : s \in {From(f), To(f)}

LeaseExpires(s) ==
    /\ Tended(s) => Stalls
    /\ Expire(s)
    /\ UNCHANGED <<memory, flow, world, faults>>

GiveUp(f) ==
    \/ Drain(f) \/ Draining(f) \/ StopWorker(f) \/ Checkpoint(f) \/ Checkpointing(f)
    \/ Gates(f) \/ Interrupt(f) \/ Transfer(f) \/ Save(f) \/ Condemn(f) \/ Yield(f)

TakeOver(f) ==
    \/ Choose(f) \/ Prepare(f) \/ Propose(f) \/ Release(f) \/ Enroll(f) \/ Acquire(f)
    \/ Record(f) \/ Discard(f) \/ Accept(f) \/ Launch(f) \/ Bind(f)
    \/ Undo(f) \/ Retract(f) \/ Unwind(f) \/ Disown(f)

Lose(f) == Halt(f) \/ FailRead(f) \/ FailWrite(f)

Recover(f) ==
    \/ Freeze(f) \/ Verify(f) \/ Reclaim(f) \/ RecoverDone(f)
    \/ \E s \in Sessions : PollOne(f, s) \/ RecoverOne(f, s) \/ ShutdownOne(f, s)
    \/ ShutdownDone(f)

FlowStep(f) == GiveUp(f) \/ TakeOver(f) \/ Lose(f) \/ Recover(f)

Request(f) ==
    \/ StartTask(f)
    \/ \E s \in Sessions : Resume(f, s) \/ \E k \in {"pass", "pause", "abort", "finish"} : Ask(f, s, k)

Next ==
    \/ \E f \in Flows : FlowStep(f) \/ Request(f) \/ PollTick(f) \/ Shutdown(f) \/ Boot(f)
    \/ \E f \in Flows, s \in Sessions : LoseLease(f, s)
    \/ \E s \in Sessions : WorkerEnds(s) \/ LeaseExpires(s)
    \/ Crash
    \/ Exit

Spec == Init /\ [][Next]_vars

(* Every await is settled, the timers fire, the process manager restarts    *)
(* the runtime and time passes.  Nothing is assumed of the owner, of the    *)
(* workers or of crashes.  Strong fairness where an action waits for a      *)
(* flow: how many handlers may run at once is a bound of the model.         *)
Fairness ==
    /\ \A f \in Flows : WF_vars(FlowStep(f))
    /\ SF_vars(\E f \in Flows : PollTick(f))
    /\ WF_vars(\E f \in Flows : Boot(f))
    /\ WF_vars(Exit)
    /\ \A s \in Sessions :
         /\ SF_vars(\E f \in Flows : ~Live(s) /\ LoseLease(f, s))
         /\ WF_vars(~Tended(s) /\ LeaseExpires(s))

FairSpec == Spec /\ Fairness

-----------------------------------------------------------------------------
Working(s) == proc[s] = "working"

(* Exactly one worker may write to the branch at a time, whatever the       *)
(* Supervisor, its crashes and its overlapping handlers do to the leases.   *)
OneWriter == \A s, t \in Sessions : Working(s) /\ Working(t) => s = t

(* A worker that may still write keeps the branch taken: its lease is never *)
(* released, and never reclaimed after it was frozen.                       *)
WriterHoldsBranch == \A s \in Sessions : Working(s) => Holds(s)

(* A session offered for resumption (RESUME_SESSION) has a checkpoint to    *)
(* resume from, no writer, and no lease its successor would wait for.       *)
ReadyIsSafe ==
    \A s \in Sessions : status[s] = "HANDOFF_READY" => s \in saved /\ ~Working(s) /\ ~Holds(s)

(* Whoever is offered or given a baton (propose_handoff) gets it from a     *)
(* session whose worker has stopped and that left a checkpoint.             *)
StoppedBeforeHandover ==
    \A t \in Sessions : baton[t] # "none" => giver[t] \in saved /\ ~Working(giver[t])

(* Recovery takes LEASE_LOST_STOP_CONFIRMED for proof that the old writer   *)
(* ended (recoverStale); wherever it is written, the writer did end.        *)
ProvenIsStopped == \A s \in proven : ~Working(s)

(* A completed session has no writer and no lease, and the worktree it      *)
(* worked in was published and removed (finish, prepareTransfer).           *)
CompletedIsPublished ==
    \A s \in Sessions :
        status[s] = "COMPLETED" => ~Working(s) /\ ~Holds(s) /\ (Managed(s) => s \notin tree)

(* The Supervisor implements the baton: a lease that is ACTIVE or FROZEN is *)
(* the branch, a working process is a writer.                               *)
Spent == {s \in Sessions : proc[s] \in Over \/ lease[s] \in {"RELEASED", "RECLAIMED"}}
Holder == IF \E s \in Sessions : Holds(s) THEN CHOOSE s \in Sessions : Holds(s) ELSE None

B == INSTANCE Baton WITH holder <- Holder, writing <- {s \in Sessions : Working(s)},
                         spent <- Spent

ImplementsBaton == B!BatonSpec

(* When nothing fails, a worker that completed or failed does not keep the  *)
(* branch (pollStatus, onLeaseLost, freezeStale).                           *)
EndedLetsGo ==
    \A s \in Sessions :
        (lease[s] = "ACTIVE" /\ proc[s] \in {"completed", "failed"}) ~> lease[s] # "ACTIVE"

-----------------------------------------------------------------------------
(* Why: the inductive invariant of the proofs.                              *)
Started(s) == proc[s] # "none"
Ended(s)   == proc[s] \in Over

(* From the moment its row exists until its worker runs or never will, a    *)
(* new session belongs to the one handler that created it.                  *)
Unleased == {"prepare", "propose", "release", "enroll", "acquire"}
Leased   == {"record", "accept", "launch"}
Launched == {"bind", "undo"}
Dropped  == {"discard", "retract", "unwind", "disown"}
Owning   == Unleased \cup Leased \cup Launched \cup Dropped

Owns(f) == flow[f].pc \in Owning

Owned == \A f, g \in Flows : Owns(f) /\ Owns(g) /\ f # g => To(f) # To(g)

OwnSafe(f) ==
    /\ Owns(f) => To(f) \in Sessions /\ status[To(f)] # "absent"
    /\ flow[f].pc \in Unleased => ~Started(To(f)) /\ lease[To(f)] = "none"
    /\ flow[f].pc \in Leased => ~Started(To(f)) /\ Holds(To(f))
    /\ flow[f].pc \in Launched => Started(To(f))
    /\ flow[f].pc \in Dropped => ~Working(To(f))

(* The handlers that let go of a lease or write the proof of a stop do so   *)
(* after the worker ended.                                                  *)
Stopping == {"drain", "draining", "stop", "halt", "fail", "failing"}
AfterStop == {"checkpoint", "checkpointing", "gates", "transfer", "save", "condemn", "yield",
              "verify", "reclaim", "release"}
Passing == {"choose", "prepare", "propose"}

StopSafe(f) ==
    /\ flow[f].pc \in Stopping => From(f) \in Sessions /\ Started(From(f))
    /\ flow[f].pc \in AfterStop \/ (flow[f].pc \in Passing /\ Kind(f) = "pass")
         => From(f) \in Sessions /\ Ended(From(f))
    /\ flow[f].pc \in {"halt", "fail", "failing"} /\ flow[f].ok => Ended(From(f))
    /\ flow[f].pc \in {"idle", "next"} => ~flow[f].ok
    /\ flow[f].loop \in {"poll", "shutdown"} => \A s \in flow[f].todo : Started(s)

Rooted ==
    /\ \A s \in Sessions : status[s] = "absent" => ~Started(s) /\ lease[s] = "none"
    /\ \A s \in running \cup beating : Started(s)
    /\ \A s \in proven : Ended(s)
    /\ \A s \in expired : lease[s] = "ACTIVE"

OneHolder == \A s, t \in Sessions : Holds(s) /\ Holds(t) => s = t

IInv ==
    /\ TypeOK
    /\ OneHolder
    /\ WriterHoldsBranch
    /\ Rooted
    /\ Owned
    /\ \A f \in Flows : OwnSafe(f) /\ StopSafe(f)

-----------------------------------------------------------------------------
(* A statement of the repository that the code does not keep.               *)

(* pollStatus: a lease is recovered as soon as it becomes stale.            *)
StaleIsFrozen == \A s \in Sessions : s \in expired ~> s \notin expired

============================================================================

----------------------------- MODULE CodingAgent -----------------------------
(***************************************************************************)
(* Workers that carry one Coding Agent session: the controller's loop      *)
(* (src/coding-agent/controller.js), the Tool Broker every effect goes     *)
(* through (src/tool-broker/broker.js) and the owner at the Hub.  A step   *)
(* is one database call, one tool call or one model call; between two      *)
(* steps a worker may die, lose its lease or be answered with an error.    *)
(*                                                                         *)
(* A turn of the model is the list of tools it calls.  "write" stands for  *)
(* a tool that changes the worktree, "ask" for request_human, "finish" for *)
(* finish, which comes last.  An edit is the call that made it; a commit   *)
(* and a branch are the sets of edits they contain.                        *)
(***************************************************************************)
EXTENDS AgentSession

CONSTANTS
    Workers,     \* worker processes, which share the sandbox volume
    Turns,       \* the lists of tools the model may call in one turn
    Gated,       \* tools whose effective decision is "approval"
    Publish,     \* config.publish
    MaxTurns,    \* limits.maxIterations
    MaxFaults,   \* bound: crashes, failed calls and leases that expire under a live worker
    MaxClicks    \* bound: actions of the owner

ASSUME BoundsAssumption == MaxTurns \in Nat /\ MaxFaults \in Nat /\ MaxClicks \in Nat
ASSUME TurnsAssumption == Turns \subseteq Seq({"write", "ask", "finish"})
ASSUME PublishAssumption == Publish \in {"pull_request", "branch", "none"}
ASSUME GatedAssumption == Gated \subseteq {"write", "merge"}

VARIABLES
    workers,     \* what each worker process has in memory
    tree,        \* edits in the worktree
    head,        \* edits in the newest commit of the work branch
    remote,      \* edits on the work branch at GitHub
    merged,      \* edits on the base branch
    executed,    \* calls whose tool was run
    repeated,    \* calls whose tool was run again
    faults, clicks

world == <<tree, head, remote, merged, executed, repeated>>
vars == <<session, carrier, checkpoint, approvals, inputs, ledger,
          workers, tree, head, remote, merged, executed, repeated, faults, clicks>>

-----------------------------------------------------------------------------
NoCalls == [calls |-> << >>, by |-> 0, at |-> 1]

(* What a checkpoint stores: phase, iteration, the interrupted turn, the    *)
(* replies delivered to the model, the edits reported to it, the head it    *)
(* proved published and whether it saw the merge.                           *)
NoWork == [phase |-> "agent", turn |-> 0, pending |-> NoCalls, heard |-> {}, done |-> {},
           pushed |-> {}, merged |-> FALSE]

Phases == {"agent", "publish", "ci", "deploy", "report", "done"}

NoId == <<0, "", 0>>

Idle == [pc |-> "idle", token |-> 0, lost |-> FALSE, told |-> FALSE, work |-> NoWork,
         inbox |-> {}, id |-> NoId, target |-> {}, result |-> "", then |-> "loop"]

Init ==
    /\ SessionInit(NoWork)
    /\ workers = [w \in Workers |-> Idle]
    /\ tree = {} /\ head = {} /\ remote = {} /\ merged = {}
    /\ executed = {} /\ repeated = {}
    /\ faults = 0 /\ clicks = 0

At(w, pc) == workers[w].pc = pc
Set(w, r) == workers' = [workers EXCEPT ![w] = r]

Go(r, pc)   == [r EXCEPT !.pc = pc]
SaveThen(r, pc) == [r EXCEPT !.pc = "save", !.then = pc]
StopAs(r, st)   == [r EXCEPT !.pc = "stop", !.then = st, !.id = NoId, !.target = {}, !.result = ""]
Invoke(r, id)   == [r EXCEPT !.pc = "find", !.id = id, !.result = ""]

Key(id) == <<id, id[2] \in Gated>>

Quiet == UNCHANGED <<tree, head, remote, merged, executed, repeated, faults, clicks>>

-----------------------------------------------------------------------------
(* CodingWorker.runOnce and Run.restore                                     *)
Claim(w) ==
    /\ At(w, "idle") /\ Claimable
    /\ ClaimSession
    /\ Set(w, [Idle EXCEPT !.pc = "restore", !.token = session.claims + 1, !.work = checkpoint])
    /\ Quiet

\* The phase and the iteration are those of the row the claim returned.
Restore(w) ==
    LET r == workers[w] IN
    /\ At(w, "restore")
    /\ Set(w, [r EXCEPT !.pc = "loop",
                        !.work = [checkpoint EXCEPT !.phase = r.work.phase, !.turn = r.work.turn]])
    /\ UNCHANGED rows /\ Quiet

CommitId(r) == <<r.work.turn, "commit", 0>>
PushId(r)   == <<r.work.turn, "push", 2 * Cardinality(r.target) + (IF r.work.pushed = r.target THEN 1 ELSE 0)>>
AgainId(r)  == <<r.work.turn, "again", r.token>>
MergeId(r)  == <<r.work.turn, "merge", 0>>

\* guard(): the reason to stop, if any.
Guard(r, otherwise) ==
    CASE r.lost -> Idle
      [] ~r.lost /\ r.told -> StopAs(r, "cancelled")
      [] ~r.lost /\ ~r.told /\ r.work.turn >= MaxTurns -> StopAs(r, "blocked")
      [] OTHER -> otherwise

Dispatch(r) ==
    CASE r.work.phase = "agent"   -> Go(r, "take")
      [] r.work.phase = "publish" -> Invoke(r, CommitId(r))
      [] r.work.phase = "ci"      -> Go(r, "ci")
      [] r.work.phase = "deploy"  -> IF r.work.merged THEN Go(r, "advance") ELSE Invoke(r, MergeId(r))
      [] OTHER                    -> SaveThen([r EXCEPT !.work.phase = "done"], "completed")

Loop(w) ==
    /\ At(w, "loop")
    /\ Set(w, Guard(workers[w], Dispatch(workers[w])))
    /\ UNCHANGED rows /\ Quiet

-----------------------------------------------------------------------------
(* One turn of the model: agentStep, executeToolCalls, executeToolCall      *)

Deliver(r) == [r EXCEPT !.work.heard = @ \cup r.inbox, !.inbox = {}]

Take(w) ==
    LET r == [workers[w] EXCEPT !.inbox = @ \cup Unread] IN
    /\ At(w, "take")
    /\ IF Holds(r.token)
       THEN /\ TakeInputs
            /\ Set(w, IF r.work.pending # NoCalls THEN Go(r, "call")
                      ELSE IF r.inbox # {} THEN SaveThen(Deliver(r), "model")
                      ELSE Go(r, "model"))
       ELSE Set(w, Idle) /\ UNCHANGED rows
    /\ Quiet

Turn(w) ==
    LET r == workers[w] IN
    /\ At(w, "model")
    /\ \/ \E calls \in Turns :
             Set(w, [r EXCEPT !.pc = "call", !.work.turn = @ + 1,
                              !.work.pending = [calls |-> calls, by |-> r.token, at |-> 1]])
       \/ Set(w, StopAs(r, "blocked"))         \* no model can take the turn
    /\ UNCHANGED rows /\ Quiet

NextCall(r) == [r EXCEPT !.pc = "call", !.work.pending.at = @ + 1, !.id = NoId, !.result = ""]

EndTurn(r) == SaveThen([Deliver(r) EXCEPT !.work.pending = NoCalls], "loop")

\* The gate passed: the replies in the inbox wait for the next turn.
Finished(r) ==
    SaveThen([r EXCEPT !.work.pending = NoCalls,
                       !.work.phase = IF tree = {} THEN "report" ELSE "publish"], "loop")

Call(w) ==
    LET r == workers[w]
        p == r.work.pending
        tool == p.calls[p.at]
    IN
    /\ At(w, "call")
    /\ \/ p.at > Len(p.calls) /\ Set(w, EndTurn(r))
       \/ /\ p.at <= Len(p.calls)
          /\ \/ /\ tool = "ask"
                /\ Set(w, IF r.inbox # {} THEN NextCall(Deliver(r)) ELSE StopAs(r, "blocked"))
             \/ /\ tool = "finish"
                /\ \E s \in {Finished(r), NextCall(r), StopAs(r, "blocked")} : Set(w, s)
             \/ /\ tool = "write"
                /\ Set(w, Invoke(r, <<r.work.turn, tool, p.by>>))
    /\ UNCHANGED rows /\ Quiet

-----------------------------------------------------------------------------
(* invoke and the Tool Broker                                               *)

\* Seeded mistake: the ledger's word is taken for the effect.
ProvenByLedger(outcome) == outcome \in {"done", "replayed"}

Proven(outcome) == outcome = "done"

(* What the caller of invoke does with the outcome: a call of the model     *)
(* ends with a result either way, one of the controller must succeed, and   *)
(* a replayed push proves nothing and is made again.                        *)
Settle(r, outcome) ==
    LET ok == outcome \in {"done", "replayed"}
        next == [r EXCEPT !.id = NoId, !.result = ""]
    IN
    CASE r.id[2] = "write" ->
           NextCall(IF ok THEN [r EXCEPT !.work.done = @ \cup {r.id}] ELSE r)
      [] r.id[2] = "commit" /\ ok ->
           LET committed == [r EXCEPT !.target = head] IN
           IF Publish = "none" THEN Go([next EXCEPT !.target = {}], "advance")
           ELSE Invoke(committed, PushId(committed))
      [] r.id[2] = "push" /\ outcome = "replayed" /\ ~Proven(outcome) ->
           Invoke(r, AgainId(r))
      [] r.id[2] \in {"push", "again"} /\ Proven(outcome) ->
           SaveThen([next EXCEPT !.work.pushed = r.target, !.target = {}], "advance")
      [] r.id[2] = "merge" /\ (outcome = "done" \/ (outcome = "replayed" /\ merged # {})) ->
           SaveThen([next EXCEPT !.work.merged = TRUE], "advance")
      [] OTHER -> StopAs(r, "blocked")

\* Seeded mistake: only a rejected call waits for the owner.
FoundUnlessRejected(r) ==
    IF Is(approvals, r.id, "rejected") THEN Settle(r, "rejected") ELSE Go(r, "begin")

Found(r) ==
    CASE Is(approvals, r.id, "rejected")  -> Settle(r, "rejected")
      [] r.id[2] \notin Gated             -> Go(r, "begin")
      [] Is(approvals, r.id, "approved")  -> Go(r, "consume")
      [] OTHER                            -> Go(r, "gate")

Find(w) ==
    /\ At(w, "find")
    /\ Set(w, Found(workers[w]))
    /\ UNCHANGED rows /\ Quiet

Consume(w) ==
    LET r == workers[w] IN
    /\ At(w, "consume")
    /\ IF MayConsume(r.id)
       THEN ConsumeApproval(r.id) /\ Set(w, Go(r, "begin"))
       ELSE Set(w, Settle(r, "error")) /\ UNCHANGED rows
    /\ Quiet

Gate(w) ==
    LET r == workers[w] IN
    /\ At(w, "gate")
    /\ IF Fresh(<<r.id, FALSE>>) THEN BeginExecution(<<r.id, FALSE>>, "approval_required")
       ELSE UNCHANGED rows
    /\ Set(w, Go(r, "request"))
    /\ Quiet

Request(w) ==
    LET r == workers[w] IN
    /\ At(w, "request")
    /\ IF Holds(r.token)
       THEN RequestApproval(r.id) /\ Set(w, StopAs(r, "awaiting_approval"))
       ELSE UNCHANGED rows /\ Set(w, Idle)
    /\ Quiet

Begin(w) ==
    LET r == workers[w] IN
    /\ At(w, "begin")
    /\ IF Fresh(Key(r.id))
       THEN BeginExecution(Key(r.id), "running") /\ Set(w, Go(r, "run"))
       ELSE /\ Set(w, Settle(r, IF Is(ledger, Key(r.id), "succeeded") THEN "replayed" ELSE "error"))
            /\ UNCHANGED rows
    /\ Quiet

-----------------------------------------------------------------------------
(* The tools                                                                *)

Pushes(r) == r.id[2] \in {"push", "again"}

\* publishBranch: the branch holds the tested head, and GitHub still holds
\* what this session pushed last, or already the head.
MayPush(r) == head = r.target /\ remote \in {head, r.work.pushed, {}}

\* GitHub merges the head it is told, and nothing else.
MayMerge(r) == remote = r.work.pushed

Effect(r) ==
    /\ tree'   = IF r.id[2] = "write"  THEN tree \cup {r.id} ELSE tree
    /\ head'   = IF r.id[2] = "commit" THEN tree ELSE head
    /\ remote' = IF Pushes(r) THEN head ELSE remote
    /\ merged' = IF r.id[2] = "merge"  THEN remote ELSE merged

(* A tool succeeds, answers with a structured error ("refused"), or throws  *)
(* or times out ("failed"); in the last two its effect may have happened.   *)
RunTool(w) ==
    LET r == workers[w] IN
    /\ At(w, "run")
    /\ executed' = executed \cup {r.id}
    /\ repeated' = repeated \cup ({r.id} \cap executed)
    /\ \/ /\ Pushes(r) => MayPush(r)
          /\ r.id[2] = "merge" => MayMerge(r)
          /\ Effect(r)
          /\ \E result \in {"done", "refused", "failed"} :
                 Set(w, [r EXCEPT !.pc = "record", !.result = result])
       \/ /\ UNCHANGED <<tree, head, remote, merged>>
          /\ \E result \in {"refused", "failed"} :
                 Set(w, [r EXCEPT !.pc = "record", !.result = result])
    /\ UNCHANGED <<session, carrier, checkpoint, approvals, inputs, ledger, faults, clicks>>

\* A structured error is audited as a call that succeeded.
Record(w) ==
    LET r == workers[w] IN
    /\ At(w, "record")
    /\ FinishExecution(Key(r.id), IF r.result = "failed" THEN "failed" ELSE "succeeded")
    /\ Set(w, Settle(r, r.result))
    /\ Quiet

-----------------------------------------------------------------------------
(* Publishing, CI, the merge and the end                                    *)

\* The pull request, which needs a commit and is proved like a push, then
\* the next phase.
Advance(w) ==
    LET r == workers[w]
        Enter(phase) == SaveThen([r EXCEPT !.work.phase = phase], "loop")
    IN
    /\ At(w, "advance")
    /\ \/ r.work.phase = "publish" /\ Publish = "pull_request" /\ remote # {} /\ Set(w, Enter("ci"))
       \/ r.work.phase = "publish" /\ Publish = "pull_request" /\ Set(w, StopAs(r, "blocked"))
       \/ r.work.phase = "publish" /\ Publish # "pull_request" /\ Set(w, Enter("report"))
       \/ r.work.phase = "deploy" /\ Set(w, Enter("report"))
    /\ UNCHANGED rows /\ Quiet

\* watchCi: success, no checks at all, failure, a limit or a timeout.
CiEnds(w) ==
    LET r == workers[w] IN
    /\ At(w, "ci")
    /\ \/ Set(w, Guard(r, SaveThen([r EXCEPT !.work.phase = "deploy"], "loop")))
       \/ Set(w, Guard(r, SaveThen([r EXCEPT !.work.phase = "agent"], "loop")))
       \/ Set(w, Guard(r, StopAs(r, "blocked")))
    /\ UNCHANGED rows /\ Quiet

CiPending(w) ==
    LET r == workers[w] IN
    /\ At(w, "ci")
    /\ Set(w, Guard(r, SaveThen(r, "ci")))
    /\ UNCHANGED rows /\ Quiet

Save(w) ==
    LET r == workers[w] IN
    /\ At(w, "save")
    /\ IF MayWrite(r.token)
       THEN /\ SaveCheckpoint(r.work)
            /\ Set(w, Go(r, IF r.then = "completed" THEN "finish" ELSE r.then))
       ELSE UNCHANGED rows /\ Set(w, Idle)
    /\ Quiet

\* stop(): a last checkpoint, then the status that ends this claim.
Stop(w) ==
    LET r == workers[w] IN
    /\ At(w, "stop")
    /\ IF MayWrite(r.token) /\ ~r.lost
       THEN SaveCheckpoint(r.work) /\ Set(w, Go(r, "finish"))
       ELSE UNCHANGED rows /\ Set(w, Idle)
    /\ Quiet

Finish(w) ==
    LET r == workers[w] IN
    /\ At(w, "finish")
    /\ IF Holds(r.token) THEN FinishSession(r.then) ELSE UNCHANGED rows
    /\ Set(w, Idle)
    /\ Quiet

\* renew(), every leaseRenewMs while the worker executes.
Renew(w) ==
    LET r == workers[w] IN
    /\ ~At(w, "idle")
    /\ IF MayWrite(r.token)
       THEN RenewLease /\ Set(w, [r EXCEPT !.told = @ \/ session.cancel])
       ELSE UNCHANGED rows /\ Set(w, [r EXCEPT !.lost = TRUE])
    /\ Quiet

-----------------------------------------------------------------------------
(* Failures                                                                 *)

Fault == faults < MaxFaults /\ faults' = faults + 1 /\ UNCHANGED <<world, clicks>>

Crash(w) ==
    /\ ~At(w, "idle") /\ Fault
    /\ Set(w, Idle)
    /\ UNCHANGED rows

\* A call outside the broker throws, or the budget or the time is spent:
\* execute() catches it and stops.
Stumble(w) ==
    LET r == workers[w] IN
    /\ workers[w].pc \in {"restore", "loop", "take", "model", "find", "request", "save"} /\ Fault
    /\ Set(w, StopAs(r, "blocked"))
    /\ \/ UNCHANGED rows
       \/ At(w, "take") /\ Holds(r.token) /\ TakeInputs
       \/ At(w, "request") /\ Holds(r.token) /\ RequestApproval(r.id)
       \/ At(w, "save") /\ MayWrite(r.token) /\ SaveCheckpoint(r.work)

\* stop() goes on without its checkpoint; a failed finish ends the claim,
\* unless it was complete()'s, which execute() catches.
StumbleAtEnd(w) ==
    LET r == workers[w] IN
    /\ Fault
    /\ \/ At(w, "stop") /\ ~r.lost /\ Set(w, Go(r, "finish")) /\ UNCHANGED rows
       \/ /\ At(w, "finish")
          /\ Set(w, IF r.then = "completed" THEN StopAs(r, "blocked") ELSE Idle)
          /\ \/ UNCHANGED rows
             \/ Holds(r.token) /\ FinishSession(r.then)

\* The broker reports a failed call of its own as a failed tool.
CallFails(w) ==
    LET r == workers[w] IN
    /\ workers[w].pc \in {"consume", "gate", "begin", "record"} /\ Fault
    /\ Set(w, Settle(r, "error"))
    /\ \/ UNCHANGED rows
       \/ At(w, "consume") /\ MayConsume(r.id) /\ ConsumeApproval(r.id)
       \/ At(w, "gate") /\ Fresh(<<r.id, FALSE>>) /\ BeginExecution(<<r.id, FALSE>>, "approval_required")
       \/ At(w, "begin") /\ Fresh(Key(r.id)) /\ BeginExecution(Key(r.id), "running")
       \/ At(w, "record") /\ \E st \in {"succeeded", "failed"} : FinishExecution(Key(r.id), st)

Expire ==
    /\ session.status = "running" /\ ~session.late
    /\ session' = [session EXCEPT !.late = TRUE]
    /\ UNCHANGED <<carrier, checkpoint, approvals, inputs, ledger, workers>>

Tended == \E w \in Workers : ~At(w, "idle") /\ Holds(workers[w].token)

LeaseExpires == ~Tended /\ Expire /\ Quiet

\* The heartbeat of a live worker comes too late.
LeaseOverdue == Tended /\ Expire /\ Fault

-----------------------------------------------------------------------------
(* The owner at the Hub                                                     *)
Click == clicks < MaxClicks /\ clicks' = clicks + 1 /\ UNCHANGED <<workers, world, faults>>

Decide(id, decision) == DecideApproval(id, decision) /\ Click
Cancel == RequestCancel /\ Click
Resume == ResumeSession /\ Click
Reply  == ReplySession(clicks + 1) /\ Click

Owner ==
    \/ \E id \in DOMAIN approvals, decision \in {"approved", "rejected"} : Decide(id, decision)
    \/ Cancel \/ Resume \/ Reply

Step(w) ==
    \/ Claim(w) \/ Restore(w) \/ Loop(w) \/ Take(w) \/ Turn(w) \/ Call(w)
    \/ Find(w) \/ Consume(w) \/ Gate(w) \/ Request(w) \/ Begin(w) \/ RunTool(w) \/ Record(w)
    \/ Advance(w) \/ CiEnds(w) \/ CiPending(w) \/ Save(w) \/ Stop(w) \/ Finish(w)

Failure(w) == Crash(w) \/ Stumble(w) \/ StumbleAtEnd(w) \/ CallFails(w)

Next ==
    \/ \E w \in Workers : Step(w) \/ Renew(w) \/ Failure(w)
    \/ LeaseExpires \/ LeaseOverdue \/ Owner

Spec == Init /\ [][Next]_vars

-----------------------------------------------------------------------------
Works == [phase : Phases,
          turn : Nat,
          pending : [calls : Seq({"write", "ask", "finish"}), by : Nat, at : Nat],
          heard : SUBSET Nat, done : SUBSET Ids, pushed : SUBSET Ids, merged : BOOLEAN]

Pcs == {"idle", "restore", "loop", "take", "model", "call", "find", "consume", "gate", "request",
        "begin", "run", "record", "advance", "ci", "save", "stop", "finish"}

WorkerStates ==
    [pc : Pcs, token : Nat, lost : BOOLEAN, told : BOOLEAN, work : Works, inbox : SUBSET Nat,
     id : Ids, target : SUBSET Ids, result : {"", "done", "refused", "failed"},
     then : {"loop", "model", "advance", "ci"} \cup Statuses]

TypeOK ==
    /\ SessionTypeOK
    /\ checkpoint \in Works
    /\ workers \in [Workers -> WorkerStates]
    /\ {tree, head, remote, merged, executed, repeated} \subseteq SUBSET Ids
    /\ faults \in 0 .. MaxFaults /\ clicks \in 0 .. MaxClicks

(* A call of a tool is made at most once, whoever dies, resumes or races.   *)
CallOnce == repeated = {}

(* A tool that needs the owner runs only on an approval of that very call,  *)
(* and uses it up.                                                          *)
ApprovedFirst == \A id \in executed : id[2] \in Gated => Is(approvals, id, "consumed")

(* The head a checkpoint calls pushed is on GitHub.                         *)
PublishedIsReal == checkpoint.pushed \subseteq remote

(* The job, the task and the run say what the session says.                 *)
CarrierOf(job, task, run) == carrier = [job |-> job, task |-> task, run |-> run]

CarrierAgrees ==
    /\ session.status \in {"queued", "running"} => CarrierOf("running", "assigned", "running")
    /\ session.status = "awaiting_approval"     => CarrierOf("waiting_approval", "assigned", "running")
    /\ session.status = "blocked"               => CarrierOf("blocked", "assigned", "running")
    /\ session.status = "completed"             => CarrierOf("completed", "done", "succeeded")
    /\ session.status = "failed"                => CarrierOf("failed", "failed", "failed")
    /\ session.status = "cancelled"             => CarrierOf("cancelled", "failed", "cancelled")

(* A session that has ended stays as it ended, and so does its job.         *)
ClosedIsFinal == [][session.status \in Closed => session'.status = session.status /\ carrier' = carrier]_vars

(* No checkpoint forgets what an earlier one recorded: "a stale worker can  *)
(* never overwrite newer state".                                            *)
NeverForgets ==
    [][/\ checkpoint'.turn >= checkpoint.turn
       /\ checkpoint.heard \subseteq checkpoint'.heard
       /\ checkpoint.done \subseteq checkpoint'.done
       /\ checkpoint.pushed \subseteq checkpoint'.pushed]_vars

(* Somebody may work on the session.                                        *)
Open == session.status \in {"queued", "running"} /\ ~session.cancel

-----------------------------------------------------------------------------
(* The inductive invariant, in parts.                                       *)

Busy(w) == ~At(w, "idle")

\* Claims draw different tokens, and the row holds one while it runs.
Tokens ==
    /\ session.holder # 0 <=> session.status = "running"
    /\ session.holder <= session.claims
    /\ \A w \in Workers : IF Busy(w) THEN workers[w].token \in 1 .. session.claims
                                      ELSE workers[w] = Idle
    /\ \A w, v \in Workers : w # v /\ Busy(w) => workers[w].token # workers[v].token

Extends(new, old) ==
    /\ new.turn >= old.turn
    /\ old.heard \subseteq new.heard
    /\ old.done \subseteq new.done
    /\ old.pushed \subseteq new.pushed

\* The worker that may write knows all that was written.
Knows == \A w \in Workers : Busy(w) /\ Holds(workers[w].token) => Extends(workers[w].work, checkpoint)

\* Nothing is on GitHub that is not committed, and no worker believes that
\* something is that is not.
Reality ==
    /\ remote \subseteq head /\ head \subseteq tree /\ IsFiniteSet(tree)
    /\ checkpoint.pushed \subseteq remote
    /\ \A w \in Workers :
          /\ workers[w].work.pushed \subseteq remote
          /\ workers[w].target \subseteq head
          /\ Pushes(workers[w]) => workers[w].work.pushed \subseteq workers[w].target
          /\ Pushes(workers[w]) /\ workers[w].result = "done" => workers[w].target \subseteq remote

\* A call is at one worker, and its row was there first.
Runs ==
    /\ \A id \in executed : Key(id) \in DOMAIN ledger
    /\ \A w \in Workers : At(w, "run") => /\ Key(workers[w].id) \in DOMAIN ledger
                                         /\ workers[w].id \notin executed
    /\ \A w, v \in Workers : w # v /\ At(w, "run") /\ At(v, "run") => workers[w].id # workers[v].id

\* A worker that is about to run a gated call used up its approval.
Admitted ==
    \A w \in Workers :
        workers[w].pc \in {"begin", "run"} /\ workers[w].id[2] \in Gated
            => Is(approvals, workers[w].id, "consumed")

\* A claim starts with no call in flight, and the steps that save, stop and
\* finish know what comes next.
Ends == {"completed", "cancelled", "blocked", "awaiting_approval"}

Aims ==
    \A w \in Workers :
        /\ At(w, "restore") => workers[w].id = NoId
        /\ At(w, "save") => workers[w].then \in {"loop", "model", "advance", "ci", "completed"}
        /\ workers[w].pc \in {"stop", "finish"} => workers[w].then \in Ends

IInv ==
    /\ TypeOK /\ Tokens /\ Knows /\ Reality /\ Runs /\ Admitted /\ Aims
    /\ CallOnce /\ ApprovedFirst /\ CarrierAgrees

-----------------------------------------------------------------------------
(* A session that waits for an approval has one to decide.                  *)
AwaitingIsAsked ==
    session.status = "awaiting_approval" => \E id \in DOMAIN approvals : approvals[id] = "pending"

(* A completed session left no edit it reported behind in the sandbox.      *)
CompletedIsPublished ==
    session.status = "completed" => checkpoint.done \cap tree \subseteq remote
=============================================================================

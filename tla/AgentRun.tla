------------------------------ MODULE AgentRun ------------------------------
(***************************************************************************)
(* What a Coding Agent session keeps in its conversation, and what it lets  *)
(* out (coding-agent/controller.js, context-budget.js, turn-budget.js):     *)
(* model turns and their tool calls, replies of the owner, old results that *)
(* are shortened, summaries for a new model or a long talk, the finish gate, *)
(* publishing, CI and deployment.  One worker at a time carries the session  *)
(* (leases, claims, cancellation and the ledger of tools are CodingAgent's); *)
(* it may die between two steps, and another goes on from the checkpoint.   *)
(*                                                                         *)
(* A turn of the model is the list of tools it calls.  "read" reads one and  *)
(* the same file, "edit" changes it, "shell" runs a command that changes a    *)
(* protected file, "grant" asks for leave to do so, "ask" asks the owner,     *)
(* "bad" is a call that only fails.  A call is <<iteration, position>>.       *)
(***************************************************************************)
EXTENDS Naturals, Sequences, FiniteSets

CONSTANTS
    Turns,          \* the lists of tools the model may call in one turn
    Publishes,      \* config: "none", "branch", "pull_request" or "merge"
    MaxTurns,       \* maxIterations
    MaxText,        \* maxTextOnlyTurns
    MaxErrors,      \* maxConsecutiveToolErrors
    MaxGate,        \* maxGateFailures
    MaxCi,          \* maxCiRounds
    MaxPolls,       \* of CI, the deployment and its verification
    MaxWaits,       \* for a provider, before the wall-clock limit
    Expected,       \* turns expected of a task of this size
    KeepRecent,     \* keepRecentTurns
    Batch,          \* batchChars, in long results
    CompactAt,      \* compactAtChars, in long results
    MaxReplies, MaxResumes, MaxCrashes     \* bounds

Tools == {"read", "edit", "shell", "grant", "ask", "bad", "finish"}

(* A turn is a list of tools; an error may happen before the session stops.  *)
ASSUME AgentRunAssumption ==
    /\ Turns \subseteq Seq(Tools)
    /\ Publishes \subseteq {"none", "branch", "pull_request", "merge"}
    /\ MaxTurns \in Nat /\ MaxErrors \in Nat \ {0}

VARIABLES
    status,         \* of the session
    publish,        \* its configuration
    mem,            \* what the worker has in memory
    saved,          \* the newest checkpoint
    tree,           \* the worktree: edits so far, and is a protected file changed
    leave,          \* the owner's decisions, on protected files and on the merge
    unread, taken,  \* the owner's replies
    dropped,        \* history: replies that were taken and never put in a conversation
    published,      \* history: what was pushed, and on which gate
    resumes, crashes

ownerVars == <<resumes, publish>>
agentVars == <<status, mem, saved, tree, leave, unread, taken, dropped, published, crashes, ownerVars>>

NoCall == <<0, 0>>
NoGate == [edits |-> 0, last |-> FALSE]
NoTurn == [calls |-> << >>, at |-> 0, results |-> {}, heard |-> {}]

(* A conversation: the calls of the model, their results, the replies of the *)
(* owner in it, and the calls whose results were lost.                       *)
NewTalk == [calls |-> {}, results |-> {}, heard |-> {}, orphans |-> {}]

(* What a checkpoint holds.                                                 *)
NoWork ==
    [phase |-> "work", iter |-> 0, talk |-> NewTalk, pending |-> NoTurn, route |-> "", told |-> {},
     sizeAt |-> MaxTurns + 1, fired |-> {}, gateFailures |-> 0, ciRounds |-> 0, gate |-> NoGate,
     pushed |-> 0, green |-> 0, merged |-> FALSE]

(* What a worker starts with beside it (new SessionRun).                     *)
Fresh == [pc |-> "loop", then |-> "", work |-> NoWork, force |-> FALSE, text |-> 0, errors |-> 0,
          read |-> [hash |-> 0, id |-> NoCall], inbox |-> {}, again |-> FALSE,
          finished |-> FALSE, waits |-> 0, polls |-> 0]

Idle == [Fresh EXCEPT !.pc = "idle"]

AgentInit ==
    /\ status = "queued" /\ publish \in Publishes /\ mem = Idle /\ saved = NoWork
    /\ tree = [edits |-> 0, guarded |-> FALSE]
    /\ leave = [change |-> "no", merge |-> "no"]
    /\ unread = {} /\ taken = {} /\ dropped = {} /\ published = {}
    /\ resumes = 0 /\ crashes = 0

Durable == <<status, saved, dropped, crashes, ownerVars>>
Outside == <<tree, leave, published>>
Inbox   == <<unread, taken>>

At(pc) == mem.pc = pc
Go(m, pc) == [m EXCEPT !.pc = pc]
SaveThen(m, pc) == [m EXCEPT !.pc = "save", !.then = pc]
Ends == {"blocked", "awaiting_approval", "completed"}
w == mem.work

-----------------------------------------------------------------------------
(* restore and prepareSandbox: the sandbox volume outlives the worker.       *)
Start ==
    /\ At("idle") /\ status \in {"queued", "running"}
    /\ status' = "running"
    /\ mem' = [Fresh EXCEPT !.work = saved]
    /\ UNCHANGED <<saved, dropped, crashes, ownerVars, Outside, Inbox>>

Checkpoint ==
    /\ At("save")
    /\ saved' = w
    /\ mem' = Go(mem, mem.then)
    /\ UNCHANGED <<status, dropped, crashes, ownerVars, Outside, Inbox>>

Known(work) == work.talk.heard \cup work.pending.heard

(* stop() and complete() save and then finish.  A reply that was taken and     *)
(* not put into the conversation goes with the worker's memory.             *)
Finish ==
    /\ mem.pc \in Ends
    /\ status' = mem.pc
    /\ dropped' = dropped \cup (mem.inbox \ Known(w))
    /\ mem' = Idle
    /\ UNCHANGED <<saved, crashes, ownerVars, Outside, Inbox>>

(* loop(), with its guard().                                                *)
OverLimit == w.iter >= MaxTurns \/ mem.waits > MaxWaits

Station == [work |-> "take", publish |-> "publish", ci |-> "ci", deploy |-> "deploy",
            verify |-> "verify", report |-> "report"]

Loop ==
    /\ At("loop")
    /\ mem' = IF OverLimit THEN SaveThen(mem, "blocked")
              ELSE [mem EXCEPT !.pc = Station[w.phase], !.polls = 0]
    /\ UNCHANGED <<Durable, Outside, Inbox>>

Complete ==
    /\ At("report")
    /\ mem' = SaveThen(mem, "completed")
    /\ UNCHANGED <<Durable, Outside, Inbox>>

(* deliverOwnerMessages                                                     *)
Deliver(m) == [m EXCEPT !.work.talk.heard = @ \cup m.inbox, !.inbox = {}]

(* takeOwnerMessages; an interrupted turn is finished first, otherwise the   *)
(* replies are put into the conversation and saved.                         *)
Take ==
    LET m == [mem EXCEPT !.inbox = @ \cup unread, !.work.told = @ \cup unread] IN
    /\ At("take")
    /\ unread' = {} /\ taken' = taken \cup unread
    /\ mem' = IF w.pending # NoTurn THEN [m EXCEPT !.pc = "call", !.again = TRUE, !.finished = FALSE]
              ELSE IF m.inbox # {} THEN SaveThen(Deliver(m), "trim") ELSE Go(m, "trim")
    /\ UNCHANGED <<Durable, Outside>>

-----------------------------------------------------------------------------
(* elideOldToolResults: long results older than the turns that are kept are   *)
(* shortened, when there are enough of them.  The result then says when.     *)
Answered(t) == {r.id[1] : r \in t.results}
Old(t, i) == Cardinality({j \in Answered(t) : j > i}) >= KeepRecent

Long(t) == {r \in t.results : r.kind = "long"}

Elided(t, now) ==
    LET old == {r \in Long(t) : Old(t, r.id[1])} IN
    IF Cardinality(old) < Batch THEN t
    ELSE [t EXCEPT !.results = (@ \ old) \cup
            {[r EXCEPT !.kind = "elided", !.of = <<now, 0>>] : r \in old}]

(* continuationMessage: a summary with the decisions of the owner and the    *)
(* recent part of the conversation as text.                                 *)
Summary(work) == [NewTalk EXCEPT !.heard = work.told]

(* compact(), when it was asked for or the conversation is too long.         *)
Trim ==
    LET t == Elided(w.talk, w.iter)
        m == [mem EXCEPT !.work.talk = t] IN
    /\ At("trim")
    /\ mem' = IF m.force \/ Cardinality(Long(t)) > CompactAt
              THEN SaveThen([m EXCEPT !.work.talk = Summary(m.work), !.force = FALSE,
                                      !.work.route = ""], "model")
              ELSE Go(m, "model")
    /\ UNCHANGED <<Durable, Outside, Inbox>>

(* The model answers the conversation it is shown, with calls or with text.  *)
Said(m, calls, route) ==
    [m EXCEPT !.work.iter = @ + 1, !.work.route = route,
              !.work.talk.calls = @ \cup {<<m.work.iter + 1, i>> : i \in DOMAIN calls}]

Calls(m, calls) ==
    [m EXCEPT !.pc = "call", !.text = 0, !.again = FALSE, !.finished = FALSE,
              !.work.pending = [NoTurn EXCEPT !.calls = calls, !.at = m.work.iter]]

Answer(m, route) ==
    \E calls \in Turns :
      LET said == Said(m, calls, route)
          text == [said EXCEPT !.text = @ + 1] IN
      mem' = IF calls # << >> THEN Calls(said, calls)
             ELSE SaveThen(text, IF text.text >= MaxText THEN "blocked" ELSE "loop")

(* The model that carries the conversation, or any when it is a summary      *)
(* nobody has answered.                                                     *)
SameModel ==
    /\ At("model")
    /\ Answer(mem, IF w.route = "" THEN "first" ELSE w.route)
    /\ UNCHANGED <<Durable, Outside, Inbox>>

(* onSwitch: a checkpoint, and another model is given a summary.             *)
Switch ==
    /\ At("model") /\ w.route # ""
    /\ mem' = SaveThen(mem, "switched")
    /\ UNCHANGED <<Durable, Outside, Inbox>>

OtherModel ==
    /\ At("switched")
    /\ Answer([mem EXCEPT !.work.talk = Summary(w)], IF w.route = "first" THEN "second" ELSE "first")
    /\ UNCHANGED <<Durable, Outside, Inbox>>

(* noEligibleModel: wait for a cooldown, make the request smaller, or stop.   *)
(* During a wait the guard looks at the clock; after it loop() saves again.  *)
NoModel ==
    /\ mem.pc \in {"model", "switched"}
    /\ \/ mem' = SaveThen([mem EXCEPT !.waits = @ + 1], "waited")
       \/ /\ w.sizeAt # w.iter
          /\ mem' = SaveThen([mem EXCEPT !.work.sizeAt = w.iter, !.force = TRUE], "loop")
       \/ mem' = SaveThen(mem, "blocked")
    /\ UNCHANGED <<Durable, Outside, Inbox>>

Waited ==
    /\ At("waited")
    /\ mem' = SaveThen(mem, IF OverLimit THEN "blocked" ELSE "loop")
    /\ UNCHANGED <<Durable, Outside, Inbox>>

-----------------------------------------------------------------------------
(* executeToolCalls: the first call without a result.                       *)
Done == {r.id[2] : r \in w.pending.results}
Left == DOMAIN w.pending.calls \ Done
Position == CHOOSE i \in Left : \A j \in Left : i <= j
CallId == <<w.pending.at, Position>>

Calling(tools) == At("call") /\ Left # {} /\ w.pending.calls[Position] \in tools

Result(m, kind, of) ==
    [m EXCEPT !.work.pending.results = @ \cup {[id |-> CallId, kind |-> kind, of |-> of]}]

\* Seeded mistake: what was read once is taken to be in the conversation.
PresentOnce(t, id) == id # NoCall

(* resultStillPresent                                                       *)
Present(t, id) == \E r \in Long(t) : r.id = id

(* brokerToolCall of read_file, with ReadTracker.check: an identical read      *)
(* whose full result is still in the conversation is answered with a note.  *)
Read ==
    LET hash == tree.edits + 1 IN
    /\ Calling({"read"})
    /\ mem' = IF mem.read.hash = hash /\ Present(w.talk, mem.read.id)
              THEN Result(mem, "note", mem.read.id)
              ELSE [Result(mem, "long", NoCall) EXCEPT !.read = [hash |-> hash, id |-> CallId]]
    /\ UNCHANGED <<Durable, Outside, Inbox>>

(* The edit tools refuse a protected path; a command does not.               *)
Change ==
    /\ Calling({"edit", "shell"})
    /\ tree' = [edits |-> tree.edits + 1, guarded |-> tree.guarded \/ Calling({"shell"})]
    /\ mem' = Result(mem, "short", NoCall)
    /\ UNCHANGED <<Durable, leave, published, Inbox>>

Bad ==
    /\ Calling({"bad"})
    /\ mem' = Result(mem, "error", NoCall)
    /\ UNCHANGED <<Durable, Outside, Inbox>>

(* request_human: the reply is the result; without one the session stops.    *)
Ask ==
    /\ Calling({"ask"})
    /\ mem' = IF mem.inbox = {} THEN SaveThen(mem, "blocked")
              ELSE [Result(mem, "short", NoCall) EXCEPT
                      !.work.pending.heard = @ \cup mem.inbox, !.inbox = {}]
    /\ UNCHANGED <<Durable, Outside, Inbox>>

Requested(what) == leave' = [leave EXCEPT ![what] = IF @ = "no" THEN "pending" ELSE @]

(* requestProtectedChange                                                   *)
Grant ==
    /\ Calling({"grant"})
    /\ mem' = CASE leave.change = "approved" -> Result(mem, "short", NoCall)
                [] leave.change = "rejected" -> Result(mem, "error", NoCall)
                [] OTHER -> SaveThen(mem, "awaiting_approval")
    /\ Requested("change")
    /\ UNCHANGED <<Durable, tree, published, Inbox>>

\* Seeded mistake: leave to change protected files is not looked up.
AllowedAnyway == TRUE

(* finishGate: paths, grants and secrets first, then the tests, if anything   *)
(* was changed.  A missing tool chain stops the session.                     *)
Allowed == tree.guarded => leave.change = "approved"

GatePasses ==
    [Result(mem, "short", NoCall) EXCEPT
       !.finished = TRUE, !.work.gate = [edits |-> tree.edits, last |-> Left = {Position}]]

GateFails ==
    LET n == [mem EXCEPT !.work.gateFailures = @ + 1] IN
    IF n.work.gateFailures >= MaxGate THEN SaveThen(n, "blocked") ELSE Result(n, "error", NoCall)

Gate ==
    /\ Calling({"finish"})
    /\ \/ Allowed /\ mem' = GatePasses
       \/ (~Allowed \/ tree.edits > 0) /\ mem' = GateFails
       \/ Allowed /\ tree.edits > 0 /\ mem' = SaveThen(mem, "blocked")
    /\ UNCHANGED <<Durable, Outside, Inbox>>

(* turnBudgetAction: what is due at this turn, each once.                    *)
Due(work) ==
    IF work.iter >= 2 * Expected /\ "escalate" \notin work.fired THEN {"escalate"}
    ELSE IF work.iter >= Expected /\ "replan" \notin work.fired THEN {"replan"} ELSE {}

Replan(m) == [m EXCEPT !.work.fired = @ \cup Due(m.work), !.force = @ \/ Due(m.work) = {"replan"}]

Push(m) == [m EXCEPT !.work.talk.results = @ \cup m.work.pending.results,
                     !.work.talk.heard = @ \cup m.work.pending.heard, !.work.pending = NoTurn]

AfterGate(gate) == IF gate.edits = 0 \/ publish = "none" THEN "report" ELSE "publish"

(* All calls have results: they go into the conversation and are saved.  The  *)
(* guard against errors in a row (and the one against six equal calls, which *)
(* stops alike) comes between the two: the turn is closed, its results gone.  *)
EndTurn ==
    LET results == w.pending.results
        errors  == {r \in results : r.kind = "error"}
        counted == [mem EXCEPT !.errors = IF errors = results THEN @ + Cardinality(errors) ELSE 0]
        closed  == [counted EXCEPT !.work.pending = NoTurn,
                                   !.work.talk.orphans = @ \cup {r.id : r \in results}]
        next    == Replan(Push(counted))
    IN
    /\ At("call") /\ w.pending # NoTurn /\ Left = {}
    /\ mem' = IF counted.errors >= MaxErrors THEN SaveThen(closed, "blocked")
              ELSE SaveThen(IF mem.finished THEN [next EXCEPT !.work.phase = AfterGate(w.gate)]
                            ELSE IF mem.again THEN Deliver(next) ELSE next, "loop")
    /\ UNCHANGED <<Durable, Outside, Inbox>>

-----------------------------------------------------------------------------
ToPhase(phase) == SaveThen([mem EXCEPT !.work.phase = phase], "loop")
Blocked == mem' = SaveThen(mem, "blocked")

(* publish(): commit all, push with a lease, open the pull request.  A push    *)
(* that is not proved on GitHub, or is refused, blocks.                      *)
PushBranch ==
    /\ At("publish")
    /\ \/ /\ published' = published \cup {[edits |-> tree.edits, guarded |-> tree.guarded, gate |-> w.gate]}
          /\ \/ mem' = SaveThen([mem EXCEPT !.work.pushed = tree.edits], "pull")
             \/ Blocked
       \/ published' = published /\ Blocked
    /\ UNCHANGED <<Durable, tree, leave, Inbox>>

PullRequest ==
    /\ At("pull")
    /\ IF publish = "branch" THEN mem' = ToPhase("report") ELSE mem' = ToPhase("ci") \/ Blocked
    /\ UNCHANGED <<Durable, Outside, Inbox>>

(* Still pending: look again, until the time-out.                            *)
Polled(next) ==
    IF mem.polls >= MaxPolls THEN Blocked ELSE mem' = [next EXCEPT !.polls = @ + 1]

CiFails ==
    LET n == [mem EXCEPT !.work.ciRounds = @ + 1] IN
    mem' = IF n.work.ciRounds > MaxCi THEN SaveThen(n, "blocked")
           ELSE SaveThen([n EXCEPT !.work.phase = "work"], "loop")

(* watchCi: green, or nothing reported; red, and the model is told; pending.  *)
Ci ==
    /\ At("ci")
    /\ \/ mem' = SaveThen([mem EXCEPT !.work.green = w.pushed,
                             !.work.phase = IF publish = "merge" THEN "deploy" ELSE "report"], "loop")
       \/ CiFails
       \/ Polled(SaveThen(mem, "ci"))
    /\ UNCHANGED <<Durable, Outside, Inbox>>

(* deploy(): the merge waits for the owner's approval; what was merged is      *)
(* recorded before the deployment is watched.                               *)
Merge ==
    /\ At("deploy") /\ ~w.merged
    /\ \/ leave.merge = "approved" /\ mem' = SaveThen([mem EXCEPT !.work.merged = TRUE], "deploy")
       \/ leave.merge \in {"approved", "rejected"} /\ Blocked
       \/ leave.merge \in {"no", "pending"} /\ mem' = SaveThen(mem, "awaiting_approval")
    /\ Requested("merge")
    /\ UNCHANGED <<Durable, tree, published, Inbox>>

Deploy ==
    /\ At("deploy") /\ w.merged
    /\ mem' = ToPhase("verify") \/ Blocked \/ Polled(mem)
    /\ UNCHANGED <<Durable, Outside, Inbox>>

Verify ==
    /\ At("verify")
    /\ mem' = ToPhase("report") \/ Blocked
    /\ UNCHANGED <<Durable, Outside, Inbox>>

-----------------------------------------------------------------------------
(* The worker dies: what was taken and not saved is gone.                    *)
Crash ==
    /\ ~At("idle") /\ crashes < MaxCrashes
    /\ crashes' = crashes + 1
    /\ mem' = Idle
    /\ dropped' = dropped \cup (taken \ Known(saved))
    /\ UNCHANGED <<status, saved, ownerVars, Outside, Inbox>>

(* The owner replies (a blocked session goes on), resumes, decides.          *)
Reply ==
    /\ status # "completed" /\ Cardinality(taken \cup unread) < MaxReplies
    /\ unread' = unread \cup {Cardinality(taken \cup unread) + 1}
    /\ status' = IF status = "blocked" THEN "queued" ELSE status
    /\ UNCHANGED <<mem, saved, taken, dropped, crashes, ownerVars, Outside>>

Resume ==
    /\ status = "blocked" /\ resumes < MaxResumes
    /\ resumes' = resumes + 1 /\ status' = "queued"
    /\ UNCHANGED <<mem, saved, dropped, crashes, publish, Outside, Inbox>>

Decide(what, decision) ==
    /\ leave[what] = "pending" /\ status # "completed"
    /\ leave' = [leave EXCEPT ![what] = decision]
    /\ status' = IF status = "awaiting_approval" THEN "queued" ELSE status
    /\ UNCHANGED <<mem, saved, tree, published, dropped, crashes, ownerVars, Inbox>>

Turn == Take \/ Trim \/ SameModel \/ Switch \/ OtherModel \/ NoModel \/ Waited
Tool == Read \/ Change \/ Bad \/ Ask \/ Grant \/ Gate \/ EndTurn
Ship == PushBranch \/ PullRequest \/ Ci \/ Merge \/ Deploy \/ Verify \/ Complete

AgentStep == Start \/ Checkpoint \/ Loop \/ Turn \/ Tool \/ Ship \/ Finish

Owner ==
    \/ Reply \/ Resume
    \/ \E what \in {"change", "merge"}, decision \in {"approved", "rejected"} : Decide(what, decision)

AgentNext == AgentStep \/ Crash \/ Owner

AgentSpec == AgentInit /\ [][AgentNext]_agentVars

-----------------------------------------------------------------------------
ResultRows == [id : Nat \X Nat, kind : {"long", "short", "error", "note", "elided"}, of : Nat \X Nat]

AgentTypeOK ==
    /\ status \in {"queued", "running"} \cup Ends
    /\ publish \in Publishes
    /\ mem.pc \in {"idle", "save", "loop", "take", "trim", "model", "switched", "waited", "call",
                   "pull"} \cup {Station[p] : p \in DOMAIN Station} \cup Ends
    /\ \A work \in {w, saved} :
         /\ work.phase \in DOMAIN Station
         /\ work.talk.results \cup work.pending.results \subseteq ResultRows
         /\ work.iter <= MaxTurns /\ work.gateFailures \in Nat
    /\ tree \in [edits : Nat, guarded : BOOLEAN]
    /\ leave \in [{"change", "merge"} -> {"no", "pending", "approved", "rejected"}]
    /\ unread \cap taken = {} /\ dropped \subseteq taken

(* What the model reads is whole.  Every call it made has its result, but     *)
(* those the guard against errors closed (controller.js:603).  A note sends   *)
(* it to a result of this conversation that was there in full when the note  *)
(* was written.  A reply that was taken is in front of it, or was lost with   *)
(* the memory of a worker (controller.js:258, context-budget.js:77-84).      *)
AtTheModel == mem.pc \in {"model", "switched"}

WhatTheModelReads ==
    AtTheModel =>
        /\ w.talk.calls \subseteq {r.id : r \in w.talk.results} \cup w.talk.orphans
        /\ \A n \in w.talk.results : n.kind = "note" =>
             \E r \in w.talk.results :
               r.id = n.of /\ (r.kind = "long" \/ (r.kind = "elided" /\ n.id[1] <= r.of[1]))
        /\ taken \subseteq w.talk.heard \cup dropped

(* What is pushed is what a finish gate passed, unless the model called more  *)
(* tools after finish in the same turn; then a protected file in it has leave. *)
(* What is merged was pushed and green, and the owner approved it; a session  *)
(* that completes has pushed all that it changed.                           *)
PublishedPassedGate ==
    /\ \A p \in published : p.gate.last =>
         p.edits = p.gate.edits /\ (p.guarded => leave.change = "approved")
    /\ saved.merged =>
         /\ leave.merge = "approved" /\ saved.green = saved.pushed
         /\ \E p \in published : p.edits = saved.pushed
    /\ status = "completed" /\ publish # "none" /\ saved.gate.last => saved.pushed = tree.edits

AgentRests == status \in Ends
=============================================================================

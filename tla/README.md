# Fahad AI Office: TLA+ models, checks and proofs

The Office is a Node.js program over a Supabase (PostgreSQL) database. One runtime process
runs objectives through a multi-agent workflow and serves the Hub, a second one runs the
Coding Agent, and a Coding Continuity Supervisor passes a task branch between coding workers.
All durable state is in database rows; every process may die at any await, and most
correctness arguments of the code are about what another process, another handler or the next
process finds in those rows.

This directory models the queue with its runtime and the owner's recovery buttons, what a step
does inside, the ways to a model and the money they cost, the qualification of routes, the
continuity Supervisor, the Coding Agent with the Tool Broker, the Telegram channel, the ops
watch, and what the tabs and views of the Hub make of the rows. Paths below are relative to the
repository.

Contents

1. Inventory of the system
2. The modules and what they correspond to
3. The runs: what each checks, its bounds, its fairness
4. What is proved, and how
5. Where the code and its own text disagree
6. What is not modelled
7. The plan

## 1. Inventory

| Part | State it keeps | Operations | What is hard | What makes it correct |
|---|---|---|---|---|
| **Task queue** `supabase/migrations/20260921113832…`, `20260930090000…`, `20260920174018…`, `src/db.js` | `jobs`, `tasks`, `runs`, `results`, `handoffs` | `claim_next_job`, `create_task`, `claim_next_task`, `complete_task`, `fail_task`, `defer_task`, `requeue_stale_tasks` | Late and repeated calls of executors that were given up; waits beside a retry budget | One final answer; each step delivered once; steps run on delivered inputs; a running step can be recovered |
| **Office runtime** `src/workflow.js`, `src/index.js` | executors in memory, `booting` | `runOnce` (claim, bootstrap, recover), `execute`, `dispatchWorkflow`, `withHeartbeat` | Crash between any two calls; a plan interrupted half-written; lost replies | No objective is left without a step that can run; an interrupted plan is completed whole; every objective settles |
| **Inside a step** `src/workflow.js`, `src/office/quality.js`, `finance.js` | drafts, what was consulted, revision steps | gates, return to FINANCE, revision round, fact gate, artifacts, launch of a coding session | Retries and malformed replies between the checks; places only some checks see | A wrong figure is not shipped as a closed result; every step ends |
| **Owner recovery** `src/hub-job-actions.js` | a snapshot per request | `stopObjective`, `resumeObjective` | Several unlocked statements over rows the runtime writes; two tabs | A completed objective is never reopened; deliveries are kept |
| **Continuity: rows** `supabase/migrations/20261004090000…`, `src/continuity/store.js`, `states.js` | worker sessions, leases, checkpoints, handoffs | acquire, heartbeat, save, release, freeze, reclaim, propose, accept; `transitionSession` (read, then write) | Read and write are two calls | One lease per branch |
| **Continuity: Supervisor** `src/continuity/supervisor.js`, `lease.js`, `adapters/*`, `external-driver.js`, `worktree.js` | `running`, `LeaseManager.active`, timers, worker processes, worktrees | start, pause, abort, hand off, finish, resume, poll, heartbeat lost, recover, shut down, restart | Timers that overlap; calls longer than a lease; crash with workers alive; a failed call anywhere | One writer per branch; a branch changes hands only when its writer stopped; completed work was published |
| **Coding Agent: rows** `supabase/migrations/20260925160000…`, `20260927090000…`, `20261009090000…` | session, carrier job/task/run, checkpoint, approvals, replies | claim, renew, save, finish, request / decide / consume approval, cancel, resume, reply | Claims race cancellations; a superseded worker goes on | Only the holder writes; carrier agrees with the session; what ended stays ended |
| **Coding Agent: controller** `src/coding-agent/controller.js`, `runtime.js` | transcript, phase, iteration, pending turn in a worker | model turn, tool calls, finish gate, publish, CI, merge, checkpoint, stop | Crash inside a turn; replay of an interrupted turn; late heartbeat | No call twice; published means on GitHub; comes to rest |
| **Coding Agent: conversation and shipping** `src/coding-agent/controller.js`, `context-budget.js`, `turn-budget.js`, `prompts.js` | messages, elided results, summary, limits, gate, worktree, published head | elide, compact, hand over to another model, note instead of a read, deliver replies, gate, publish, CI, merge, deploy, verify | What is shortened or replaced while notes, replies and results are on their way; calls after a finish | The model reads a whole conversation; what leaves the sandbox passed the gate |
| **Tool Broker** `src/tool-broker/broker.js`, `supabase/migrations/20260924093000…` | `tool_executions` by idempotency key | begin, run, finish | Died around the run; refused calls audited as successes | A gated tool runs once, on its own approval |
| **Workspace budget** `src/workspace-policy/`, `20260923170537…`, `20261005230000…` | policy row, reservations | reserve, settle, roll over | Several callers at the limit; costs above the reservation; a new month under open reservations | Counters are the sums of the reservations; the limit holds; a key is charged once |
| **Turn gateway and model runner** `src/model-gateway/agentic/turn-gateway.js`, `provider-state.js`, `capacity-pools.js`, `src/office/pool-runner.js` | provider states, cooldowns, attempts of a turn, transcript of a run | choose, reserve, call, classify, report, switch, escalate | States read before a turn and written after it; hooks that fail around a paid call | Reservations follow the calls; a model that takes over has all the work done; every run ends |
| **Model gateway** `src/model-gateway/gateway.js`, `contracts.js`, `store.js`, `src/workspace-policy/gateway.js` | provider health, cached answers, attempt rows | authorise, reserve, attempt, retry, fail over, settle | A failure on this side after a paid answer, classified by its message | What is settled is what was billed; a request is paid for once |
| **Qualification** `src/model-gateway/agentic/qualification.js`, `coding-qualification.js` | evidence rows, cache, daily counts | snapshot, pick, probe, save, background and owner's cycle | Cache, limited and ageing window, two kinds of cycle, restarts | Evidence decides what a route may do; dead routes are left alone |
| **Channels** `src/channels/` | announced ids, offset, delivery marks | poll, turn into a job, send, mark | Crash between send and mark; a query of the oldest ten | Heard and told once; every result arrives |
| **Ops watch** `src/ops/ops-watch.js` | snapshots, announced keys | read a window, compare, record, send | Watches overlap and fail; calls that span a watch | Each finding once, every loss |
| **Finance model** `src/office/finance.js` | none | schedule, totals, break-even, runway, scenarios, table | Amounts that do not divide into months | The figures add up and agree with each other |
| **Views** `src/domain/`, `src/hub-office.js`, `hub-office-ops.js`, `hub-workspace.js` | none | what each screen derives from the rows | Each file has rules of its own | None contradicts what the queue can still do |
| **Hub in the browser** `src/hub-ui/` | what a tab shows, refreshers, streams, pages | navigate, load, refresh, page, stop, resume | Answers that come late or in another order; hidden tabs; dropped streams | The tab keeps up; the board has no hole |
| Hub endpoints, sandbox and tools, canaries, reports, deployment | – | – | – | – |

How they meet. The runtime and the Hub are one process; the owner's buttons write the rows the
runtime claims from. The Coding Agent worker claims sessions whose carrier job the Office
shows; decisions, replies and cancellations reach it through the same rows. The Supervisor
drives native (Office) sessions through the Coding Agent's rows and command-line workers
through processes of its own; its Office adapter reads the status of an Office session.
Everything the Coding Agent does outside the database goes through the Tool Broker. Every paid
model call, of an objective or a coding turn, reserves from and settles to the workspace's one
budget. The channel turns messages into the jobs the runtime claims, and the views, the ops
watch and the tabs of the Hub only read.

## 2. Modules

```
TaskQueue ── OfficeRuntime ── ObjectiveRecovery ── ObjectiveViews ── ObjectiveRecoveryProofs
                                   │  refines Objective      └── MCRecovery ── MCHub, MCOwner
CodingLease ── ContinuitySupervisor ── ContinuityProofs
                                   │  refines Baton            MCContinuity
AgentSession ── CodingAgent ── CodingAgentProofs               MCAgent
AgentRun ── AgentRunProofs                                     MCServices, MCPublish (EXTENDS MCAgent)
WorkspaceBudget ── refines Account                             MCServices
      ├── TurnGateway (with ProviderState) ─┐                  MCServices
      └── ModelGateway ─────────────────────┴─ GatewayProofs   MCTurn
StageWork ── StageProofs                                       MCServices
ChannelBridge ── ChannelProofs                                 MCServices
OpsWatch ───────────┐                                          MCHub
DeliverablesPages ──┼─ HubProofs                               MCHub
LiveScreen ─────────┘                                          MCOwner
FinanceModel                                                   MCHub
Qualifier                                                      MCOwner
```

A line is EXTENDS: the left module holds the rows and one operator per database function,
the next one the program that calls them. `…Proofs` modules hold theorems, `MC…` modules
small instances. The `map` of `PROJECT.json` names the lines of every definition. `MCHub`,
`MCOwner`, `MCPublish` and `MCServices` each check several components that share no state: a variable `part` (`side`)
says which of them moves, so the state spaces add up and do not multiply.

**TaskQueue** – one objective and its steps. A step is identified by its place in the workflow
(`Sequence`); `runs[t]` is reduced to which attempts are open and which failed; a result or a
handoff to its existence. `StaleAfter` and `wait_until` are events (`RequeueStale`,
`WaitElapses`) whose guards are the SQL's.

**OfficeRuntime** – the claim loop, `bootstrap`, and executors: records `<task, run, phase,
todo>`, where `todo` is what `dispatchWorkflow` has still to write. What a planner answers is a
choice from `Batches[t]`; a second attempt may choose differently. Each `ensureTask` is a step
of its own; completing comes after the last. Each call may lose its reply (the effect happened,
the caller sees an error). `Unheard` is the condition under which recovery may take a step
for stale: nobody beats for it, or heartbeats are lost.

**ObjectiveRecovery** – the owner's requests, one statement per step. `Promise == INSTANCE
Objective` maps the job's status, the steps done and the final results.

**ObjectiveViews** – no variables: what lifecycle, next action, workload, the Office, Live
Operations, chat, deliverables cards and the ops watch each derive from ObjectiveRecovery's rows.

**StageWork** – what a step does between its claim and `complete_task`. A text is the set of
figures it states, each with the kind of place (table, month, line, claim, loose) that decides
which check sees it; FINANCE's calculation is a value, the Chief's requests, the drills of the
owner and failures are choices.

**CodingLease** – sessions, leases and handoffs of one branch. `expired` is the set of leases
whose `expires_at` passed; `proven` the sessions recorded `LEASE_LOST_STOP_CONFIRMED`.

**ContinuitySupervisor** – each async handler is a *flow* with a program counter (`flow[f].pc`
is the await it stands at), `from` and `to` sessions, and the loop it belongs to. A step is one
await together with the synchronous code up to the next one. `Interrupt` and the failing
variant of a step model a call that throws before or after its effect. `Die`, `Exit` and
`Boot` are the process; the workers (`proc`) and worktrees (`tree`) survive it.

**AgentSession** – one session, its carrier rows, its newest checkpoint, approvals, replies and
the broker's ledger. The lease token is the number of the claim that drew it.

**CodingAgent** – workers with a program counter. A call of a tool is named
`<<turn, tool, n>>`: for the model's tools `n` is the claim whose model named it (call ids of
two model turns differ), for the controller's it stands for the hash of the arguments, so that
two calls have the same name exactly when the code gives them the same idempotency key. Edits
are the calls that made them; worktree, commit, branch and base branch are sets of edits.

**AgentRun** – one session carried by one worker at a time, seen from the conversation: a turn is
the list of tools the model calls, a call is `<<iteration, position>>`, a result is its kind
(long, short, error, elided, or a note that points at another result), a reply a number, the
worktree a count of edits and whether a protected file is among them. `mem` dies with the
worker, `saved` is the newest checkpoint. `dropped`, `published` and the `orphans` of a
conversation are history.

**WorkspaceBudget** – the policy row's counters and the reservations by idempotency key; the
three database functions are one step each, since each locks what it changes. `Account` is what
they promise, without counters.

**ProviderState, TurnGateway** – what one failed call means for its route and for the routes
that share its quota; and runs of the model runner over the gateway: choice, cooldowns, hooks
around the call, the two-call read and write of a failure, switches with a checkpoint,
escalations, retries. Between two calls other runs move, or the process dies. A failed call may have
billed (`MayBill`: a refusal and an empty answer carry the usage); what fails on this side after the
answer becomes a failure without a cost (`Misread`: a settlement one of the credential, a report one
of the network or of the request, by its message); a row of `provider_status` that cannot be written
is passed over. `Legacy` are the runs of jobs without a workspace: they read no policy and reserve
nothing, so the budget knows nothing of what they pay.

**ModelGateway** – a request of a runtime without a pool: authorised, reserved, tried over its
providers with the classification of failures, recorded, settled; several requests in one
process share health, cached answers and the budget.

**Qualifier** – evidence rows (newest first), the cache and its lapse, the back-off, candidates
and their caps, cycles of the background and of the owner's canary, snapshots of other readers.
`known` is history: the newest result of each route and its errors since, each with the number of rows
of either suite written after it, so that the properties can say what a limited read still shows.

**ChannelBridge** – an update is its position in what the owner wrote. What the process
remembers dies with it; `marked` is what the events table keeps.

**OpsWatch** – a watch with each of its reads and writes; the timer does not wait for it. Time is
counted in half periods, because the window overlaps the one before by a minute. A row count is a
number of one table; a failed insert of a snapshot goes unnoticed, and a last snapshot that cannot be
read is taken for none, as in the code. `sent`, `lost` (the message failed), `cut` (watches that
failed), `blind` (watches that could not read the last snapshot) and `overlaps` are history.

**FinanceModel** – `calculateFinance` in integers: money in cents, exact amounts in 120ths of a
cent, so that months, weeks and scenario tenths are exact before the code rounds.

**DeliverablesPages** – the pages the Hub cuts and what a tab keeps of them, with requests and
answers as messages that arrive in any order or not at all.

**LiveScreen** – router, leave lists, refreshers, live stream and poll of one tab that follows an
objective; a screen is the version it was drawn from.

## 3. Runs

Every run names its bounds in its `.cfg` or its `MC` module. `CHECK_DEADLOCK FALSE` is set
everywhere because these systems do stop: an objective is answered, a session ends, and with
the bounded owner and the bounded failures used up nothing is left to happen.

### Objectives and the Hub

| Run | Properties | Bounds and what it shows |
|---|---|---|
| `hub` | BuildsOnDelivered, NeverStranded, PlanIsWhole, GivesUpOnlyAfterBudget, ViewsAreTrue | Six steps: plan, two parallel workstreams, a synthesis that asks for a revision, final synthesis; two attempts per step, one wait, two slots; crashes and lost replies anywhere (four failed or deferred runs together), no owner. A step runs on delivered inputs and the answer comes after all of them; an objective always has a step that runs or can be claimed; a plan interrupted half-written is completed whole; a step that is given up made no attempt but failed runs and waits, so waiting uses up no retry (runs lost in a crash, or with a lost reply, are failed runs and do); no view contradicts what the queue can still do. |
|  | BoardHasNoHole | Seven objectives, five of them when the tab opens, two pairs in one instant, one hidden test, pages of two, a refresh window of three, two refreshes at once. |
|  | WatchTells | Two paid calls, or a table of two rows; five instants; overlapping, failing, killed watches: each finding once unless watches overlapped; every paid call is told unless its last watch was cut short, and every fall of the rows between two snapshots unless the watch that stored the second was cut short, overlapped or could not read the first. |
|  | FiguresAddUp | About 2,400 proposals over four months: three sets of cost lines, explicit schedules, unit sales and subscriptions with churn and trials, prices that do not divide. |
| `owner` | AnswersStand (FinalOnce, DeliveredOnce, AnsweredIsQuiet), RunningIsRecoverable, ImplementsObjective | Two tabs, two requests, lost heartbeats (a living executor is recovered and runs beside its successor), a chain of three steps. One final answer, exactly-once delivery, no step runs after the answer; every step is one of the abstract `Objective`. |
|  | ScreenKeepsUp | One tab: page of a job, then Home; three changes, one mishap (hidden tab, dropped stream, failed request), two stops or resumes. What an open page shows is the newest version, or something is under way that will load it. |
|  | EvidenceDecides, DeadRoutesRest | Two free routes of different providers, one with one route a day; three probes, of which a read returns two rows, so that results and failures are pushed out of it before they are too old; age limit five, seven instants, one restart, canary or store failure. What is behind the limit counts no more, for the evidence and for the back-off. |
| `services` | HandoffPerEdge, Finishes | A planner that answers differently each time it is asked. Once its first step exists an objective is answered or failed, however often the process crashes; each edge of the first round has its handoff. `Finishes` is also about a model run whose routes fail for ever, and about the steps of StageWork. |
|  | ImplementsAccount | Three callers of one budget, a limit of three, costs up to three, two month ends: each step is one of the abstract `Account`. |
|  | HeardAndToldOnce | Two messages in a minute that allows one; or one message, an objective of the Hub and a question; one mishap. |
|  | ShipsOnlyTrueFigures | Two figures, one of them right; texts that state either in each kind of place; projects and direct conversations, the owner's two drills; FINANCE or AUDIT asked to work again; two attempts, one failure anywhere. |
| `results_arrive` | ResultsArrive (violated) | See section 5. |

Six steps are the smallest workflow with every edge kind the code creates (plan to several,
several to synthesis, revision on revision). Two attempts distinguish first, retry and budget
spent; two slots let two executors race. The owner's run uses the chain because each extra
parallel step multiplies interleavings without adding a kind of row; two tabs and two requests
are what stop-against-resume, stop-against-stop and resume-against-resume need. The board needs
more objectives than a page and a window hold together, and rows of one instant on both sides of
a page's end.

*Fairness*: the poll goes on claiming, recovering and letting waits elapse (`runOnce` is called
for ever by `main`), and an executor settles, per step, because `claim_next_task` orders by
sequence and creation and no step is passed over for ever. A model run and a stage are scheduled
and their calls are answered. Nothing is assumed of crashes or of the owner.

### Models and money

| Run | Properties | Bounds and what it shows |
|---|---|---|
| `turn` | BudgetHolds, HoldsAreOwned, TakesOverFromCheckpoint | Two runs of the model runner, one of a workspace and one of a job without one, over a free route and a paid one; a budget for one and a half paid turns; two turns a run, one escalation, two attempts on the spot, one failure of a route, a hook, a settlement, a row or the process, one month end. Reservations follow the calls, also when a refusal was billed or a write fails after the answer. |
|  | BudgetHolds, HoldsAreOwned, PaysOnce | Two requests of the model gateway over two providers, costs none, within and above the reservation, a cache of one answer, two troubles. What is settled is what was billed, and a request is paid once, or again only after a write that failed with the text of a network failure. |

In `services` the calls on this side do not fail (`Mistakes` is off), so that routes may fail for ever
without the states growing: what follows a failed write is checked in `turn`. Several callers at the
limit are the requests of `turn` and the callers of `ImplementsAccount`.

The two paths are alternatives of one run over the same budget module. The cache of a thousand
answers is scaled to one so that eviction happens.

### Continuity

| Run | Properties | Bounds and what it shows |
|---|---|---|
| `baton_overlap` | OneWriter, ReadyIsSafe | Two sessions, two handlers at once: starts, handoffs (usage limit), resumes, polls and the finishes they begin, lost heartbeats, recovery; calls may outlast a lease. Never two writers; a session offered for resumption has stopped, left a checkpoint and holds nothing. |
| `baton_failures` | WriterHoldsBranch, ProvenIsStopped, CompletedIsPublished, StoppedBeforeHandover, ImplementsBaton | One handler at a time, every request and the shutdown, any two failed calls or crashes, at every await. A writer keeps the branch taken, recovery's proof of a stop is never wrong, completed work was published, every step is one of the abstract `Baton`. |
| `baton_progress` | EndedLetsGo | Two overlapping handlers, no failure, no stalls: the lease of a worker that completed or failed is let go. |
| `stale_lease` | StaleIsFrozen (violated) | See section 5. |

Two sessions are giver and taker; a third adds the same pair again. Two failures are what the
nested error handlers of `handoff` need (a call fails, then the undo of it). Overlap and
failures are checked in separate runs because their product exceeds what a run can explore;
the proofs of section 4 cover the product for the safety properties `OneWriter`,
`WriterHoldsBranch`, `ProvenIsStopped` and `ImplementsBaton`. SYMMETRY over sessions is used
in the runs without temporal properties that distinguish them; in `baton_failures` the
refinement mapping `Holder` chooses a session, which is sound under permutation because it is
unique (`OneHolder`, part of the invariant).

*Fairness*: every await settles (WF of each flow), the process manager restarts the runtime and
an untended lease runs out (WF), the 60 s poll and the heartbeat timer fire (SF). Strong
fairness only where an action waits for a free flow: how many handlers may run at once is a
bound of the model, the code has none. Nothing is assumed of the owner or of workers ending.

### Coding Agent

| Run | Properties | Bounds and what it shows |
|---|---|---|
| `agent_session` | ApprovedFirst, CarrierAgrees, ClosedIsFinal, NeverForgets | Two worker processes, three turns of "edit, then ask" or "finish", edits gated, up to CI and the merge, two owner actions, one failure anywhere (a crash, a failed call before or after its effect, a heartbeat that comes too late). A gated tool runs only on its own approval and uses it up; job, task and run agree with the session; what ended stays ended; a superseded worker's checkpoint never hides a newer one. |
| `agent_publish` | CallOnce, PublishedIsReal, SessionsRest | The way from an edit to a merged pull request with a gated merge; refused, failed and half-done tools at any call, one owner action, one failure. No call is made twice; a head recorded as pushed is on GitHub; a session somebody may work on ends or waits for the owner. |
|  | SessionsRest | Two sessions of AgentRun: one that reads a file again and again, asks the owner and fails, over four turns, with one reply and one wait for a provider; and one that changes a protected file by a command, asks for leave, finishes and goes on editing in the same turn, publishing to a branch or merging, with one red CI, one poll and one resume. Each with two models, two gate failures, two errors in a row and one crash. |
| `services` | WhatTheModelReads | A session of three turns that read and fail, change a protected file, finish and ask, or ask for leave and finish; results are shortened after one more turn, the talk is summarised above two long results, two errors in a row stop it; one reply, one resume, one crash. Every call has its result, a note points at a full result, a reply that was taken is in front of the model; the exceptions are in section 5. |
|  | PublishedPassedGate | The same session, merging: two gate failures, one red CI. What is pushed passed the gate, with leave for what is protected; what is merged was green and approved. |
| `lost_approval` | AwaitingIsAsked (violated) | See section 5. |

One failure of the environment is on top of the tools' own: a tool may refuse or fail at every
call without using the bound. Two workers are the superseded one and its successor. Three
turns let a session be resumed with something behind it; `agent_publish` uses one worker process
(which may claim again and again) since a second adds only the safety cases of the other run.
SYMMETRY over the two workers is used only in `agent_session`, whose properties do not name them.

*Fairness*: a worker goes on (WF of its steps), the wait for CI ends (`ciTimeoutMs`: SF of
`CiEnds`, which competes with `CiPending`), and a lease nobody renews runs out (WF). A worker
process is always there to claim. In AgentRun the worker's next step is taken (WF): the model,
the tools and GitHub answer or time out. Nothing is assumed of the owner.

### Mutants

Every checked property of a passing run is paired in `PROJECT.json` with a mutation of one
modelled definition (a dropped guard, a stale token, a too early finish) under which TLC finds
it violated; the mutated forms are beside the originals, commented "Seeded mistake". No
specification uses them.

## 4. Proofs

TLAPS checks the following for every value of the constants (any workflow, any number of
sessions, workers, handlers, tabs, retries, failures), under the named assumptions in the
modules, which say no more than what the parameters are.

**ObjectiveRecoveryProofs.** `IInv` is TypeOK, FinalOnce, DeliveredOnce, RunningIsRecoverable,
AnsweredIsQuiet, and UnclaimedIsEmpty (a job nobody claimed has no step, executor or
bootstrap; needed because `Bootstrap` is guarded by memory, not by the job's row). Everything that
touches the rows goes through an operator of TaskQueue or an owner statement, so there is one
lemma per operator ("keeps the types, keeps the row invariants, is a step of Objective or a
stutter") and the runtime's actions only choose among them. Theorems: `Inductive`,
`TypeCorrect`, `AnsweredOnce`, `ExactlyOnceDelivery`, `AlwaysRecoverable`, `QuietAfterAnswer`,
their conjunction `AnswersAreFinal`, and `Refinement` (`Spec` implements `Objective`).

Its second half is about what the executors do with the plan, from four more parts of the invariant.
`PlanSafe`: edges only lead to steps that exist, what depends on an unfinished step cannot run, and
a step is failed or skipped only in an objective that was given up. `RunsSafe`: the open run of a
step is its newest, and open, failed and delivered runs add up to the attempts that were made.
`ExecutorsSafe`: at most one executor per step, on the newest run, knowing what it read.
`WInv`: what an executor has saved of its model's answer, in the order of its saves. From these
follow `SomethingToDo` (`NeverStranded`; the argument picks, among the steps left, one on which no
other of them is waiting, which exists because answers are finite and written in order),
`OnlyDeliveredIsBuiltOn`, `BudgetIsSpentOnFailures` (waits are free; crashes and lost replies are not),
`AnswerWritten`, `PlanWritten`, `EveryEdgeIsHandedOver`. They have conditions, each the place where
the code lets the property go:
no owner request (`NoOwner`: a stop or resume moves steps without asking who runs them), heartbeats
that arrive (`HeartbeatsArrive`: `fail_task` and `complete_task` look at the status of a step, not
at the run that calls, so an executor that was given up as lost and goes on can fail the attempt of
its successor), a model that, asked again, asks for the same steps (`AnswersAlike`), and steps that
plan their own work (`PlansItsOwn`: a round of revision reads earlier deliveries and gets no handoff
of them). `AnswerWritten` has none.

The last part is about the views. `ViewsHold` proves `ViewsAreTrue` from `RowsInv`: the invariants
above, `AnswerIsWritten`, and that an answered objective had steps and only a step waits for
capacity (`StepsExist`). No view has a rule of its own that could keep it true; what makes them
agree is what the rows can be. An open objective holds no failed, blocked or skipped step, so the
words for those never meet; and what runs or is delivered has everything before it delivered, along
any chain (`UpstreamIsDone`), so a synthesis at work means that no workstream is open, and a
delivered last round that the answer is there. It holds for plans that hand work out, in the shape
the Office writes them (`PlanShape`, `workflow.js:259-275`, `415-440`, `681-693`): one step of
planning that comes first, a synthesis in every plan, each round after every workstream, and a round
that asks for nothing after all other steps. An objective the Chief answers himself, or turns into a
coding session, has no synthesis and is outside the theorem as it is outside the runs. It needs
`AnswersAlike` as well: a synthesis that dies between writing a revision and the round after it and,
asked again, asks for nothing would be delivered as the last round with the revision still open.
Which of several steps of one place is the newest is settled by `LatestExists` (a set of steps has a
latest: one with fewest after it).

**ContinuityProofs.** `IInv` says that a new session belongs to the one flow that created it
until its worker runs or never will (`Owned`, `OwnSafe`); that a flow past its stop has a
worker that ended (`StopSafe`); that one session at most holds the branch and a writer always
does. `WriterHoldsBranch` alone is not inductive: a flow that is about to release must be known
to have stopped its worker, and nobody else may have started one. The argument is one lemma about any
step of the shape `Moved(f)` – one flow moves, and to the branch it does one of five things:
nothing, takes it, starts to write, stops writing, lets go – and one lemma per handler step
that it has this shape. Theorems: `SupervisorInvariant`, `TypeCorrect`, `WritersExclude`,
`WritersKeepTheLease`, `ProofsOfStop`, `SupervisorImplementsBaton`.

Its second half has a second invariant over the first, about the session that lets go. `HInv` says
that an offered session has its checkpoint and a released lease, that a completed one has also ended
and left no worktree, that every handoff was proposed by a session with a checkpoint whose worker
ended or that is without the branch for good; and it says what each handler `Knows` on its way: the
session it recovers has ended, the one it succeeds is gone, its handoff was proposed before the new
session is given anything. None of the three properties is inductive without `Knows`, because each
row is written by a handler several awaits after it made sure. A step is shown `Careful` (no row
takes back what it said, no worktree of a started session comes back, the handler knows what its new
point needs), one lemma per database function and one per group of handler steps; `CarefulKeeps`
does the rest for all other handlers at once. Theorems: `HandoverInvariant`, `ReadyToResume`
(`ReadyIsSafe`), `BatonComesFromTheStopped` (`StoppedBeforeHandover`), `CompletionIsPublished`
(`CompletedIsPublished`).

**CodingAgentProofs.** `IInv` adds to the checked invariants what the argument needs: claims
draw different tokens and the row holds one exactly while it runs (`Tokens`); the worker whose
token the row holds knows all that the newest checkpoint records (`Knows`), so a late save of
anybody else is refused and the holder's own only adds; no worker believes pushed what is not
on GitHub, and the head it is pushing contains what it pushed before (`Reality`); a call that
runs is in the ledger, not yet executed, and at one worker (`Runs`); its approval, when it needs
one, is used up (`Admitted`). The memory of a worker is reasoned about apart from the rows: one
lemma per operator on memory (`Settle`, `Dispatch`, `Found`, …) says that it yields a `Sound`
memory, one per database function that it is a `Minor` change of the rows, and `MinorStep`,
`EndStep`, `ClaimStep`, `RunStep` and `StillStep` put them together; a lemma per action then
only chooses. Each step is shown `Good`: it keeps `IInv`, extends the checkpoint and
leaves a closed session alone, from which all theorems follow: `AgentInvariant`,
`AgentTypeCorrect`, `ToolRunsOnce`, `GatedIsApproved`, `CarrierFollows`, `PushedIsThere`,
`EndIsFinal`, `NothingForgotten`. `PublishedIsReal` is not inductive alone: that a refused push
is not believed rests on the outcome the tool gave, and that a believed one stays true on the
branch only growing.

**AgentRunProofs.** `AgentIInv` has three parts. *What is let out*: `Ships` says at which phase the
worker may stand at each point, and `Shipped`, for the checkpoint as for the memory, that beyond the
model's work the worktree is what a gate passed, from CI on also what was pushed, and what is merged
was green and approved. `PublishedPassedGate` is about the last moment only; a push after a crash
relies on the checkpoint it resumes from, and that on no tool running outside the model's phase.
*What the model reads*: `Whole` says that the calls without a result are the pending turn's or the
orphans, and that a note leads to its result; what is kept between two points is another formula for
each point of a turn (`Follows`), since calls are added at one, carried out one at a time at another
and answered together at a third. *Replies* are numbered: each is unread, in the inbox, told to the
conversation or went with a worker. One lemma per operator on the conversation (`Elided`, `Summary`,
`Trim`, `Answer`, `Push`, `Deliver`) and one per step of a worker or of the owner. Theorems:
`AgentInvariant`, `AgentTypes`, `OnlyGatedWorkIsPublished` (`PublishedPassedGate`) and
`TheModelReadsAll` (`WhatTheModelReads`), for any turns, limits and number of replies, resumes and
crashes. Assumed (`AgentRunAssumption`): a turn is a list of the model's tools, `publish` is one of the
four values of the configuration, and an error may happen before the session stops.

**GatewayProofs.** The budget and its callers. *The budget*: the counters of the policy row are
sums over its reservations, written as cardinalities of sets of units `<<key, i>>`, so that each
operation adds or removes the units of one key; the lemmas say what adding, moving and forgetting
units does to a cardinality. `BudgetIInv` adds to the types and `BudgetHolds` that these sets are
finite, that what is reserved alone is within the limit (a new month starts from it) and that nothing
was settled in a month to come. Theorems: `BudgetIsSound`, `BudgetKeepsItsLimit` and
`BudgetImplementsAccount`, for any limit, callers, amounts, costs and number of months. *Runs of the model
runner*: `TurnIInv` adds to the types and the budget's books that a conversation is in the hands of
the route the run prefers, or of nobody and then saved whole (`SavedOrHeld`); that a run's keys are
numbered, so that those to come are free; and that between the reservation of a turn and its
settlement the run is at one of the points where it knows the key (`HoldsItsOwn`). Without the
numbers `Reserve` could find the key of an earlier turn, and the settlement of one would close the
other. `OthersKeep` says that a step which touches no key of another run leaves that run's part of
the invariant alone; `FreeHanded` and `StillHolding` say what the stepping run may do to its own
reservation, and the lemmas of the actions choose among them. Runs of jobs without a workspace hold
nothing, and the theorem claims nothing of them. *Requests of the model gateway*:
`RequestIInv` keeps a balance per request between the memory, what the providers billed and the
reservation (`Balanced`): both of its counters are what was billed, nothing else is reserved, and a
request goes on to another call only while every answer that was paid for was mistaken for a network
failure. `WaysIInv` puts the two over one budget, on the specification of the run `turn`. Theorems:
`TurnInvariant`, `EveryHandoverIsSaved` (`TakesOverFromCheckpoint`), `WaysInvariant`,
`ReservationsAreOwned` (`HoldsAreOwned`), `RequestsArePaidOnce` (`PaysOnce`) and
`CallersKeepTheBudget` (`BudgetHolds`, with the callers' own settlements in place of any). Assumed are
`TurnAssumption` and `GatewayAssumption`: the keys are those the code makes (run, number, turn or
incident), the amounts include the ones it reserves, a call may cost nothing, and costs are natural.

**StageProofs.** A result that is presented as closed is true for what its step read, and stays so
although steps are redone after it was checked. `StageInv` has five parts: the types; `StepsInOrder`
(a step runs, and delivers, after all it reads has been delivered, a revision step has its place in
`again`, the final synthesis knows what it reads); `OnTheWay` (what leaves the gate as closed is true
for the texts read, and no other way leads a synthesis to its delivery); `EffectsLast` (an
attempt saves its artifacts or launches its session once, at the end); and the property. The
property is not inductive without `StepsInOrder`: a later delivery could replace a text that a closed
result was made from, or a revision could be given to another employee. The argument about figures
is separate from the one about steps: whatever passes `Closes` after `Enforced` has no labelled figure
but the calculation and no banned one (`ClosedIsTrue`), by cases on which check sees which kind of place.
Theorems: `StageInductive`, `ShippedFiguresAreTrue` (`ShipsOnlyTrueFigures`) and
`StageTypesCorrect`, for any figures, texts, drills, number of attempts and failures. Assumed is that
models write texts without findings of the code's checks (`DraftsAssumption`).

**ChannelProofs.** `ChannelInv` adds two accounts to the types. *Inbound*: every update below the offset,
confirmed, or before the batch in hand was heard (a job or a refusal), the batch is without gaps, and
a message has been asked as a job at most once more than the process had mishaps. *Outbound*: a result was
sent at most as often as its mark was lost, until it is sent and waits for its mark; the queue holds a
result once, and none that waits for its mark. `HeardAndToldOnce` is about the
end of both ways, and a crash may come at any point of them. Since the outbox filters and cuts
what the tables hold, the proof needs what filtering a sequence and taking its first elements keep (`Within`,
`First`): these are proved from the recursive function's equation by its least counterexample
(`LeastNumber`), which stands in for induction. Theorems: `ChannelInductive`,
`ChannelKeepsItsWord` (`HeardAndToldOnce`), `ChannelTypesCorrect`, for any number of messages,
jobs, questions and mishaps, and any limits. Assumed is that the numbers are numbers, and that jobs of the
Hub and of the chat, questions and results, have names of their own (`ChannelAssumption`).

**HubProofs.** Two components that tell the owner what happens. *The tab* (LiveScreen): `LiveInv` says
beside the types who can still ask for a load. Whoever listens is in the leave list of the open screen
(`HooksAreLeft`), also the page that was left before its first load and listens from another screen;
what does not listen has no timer, no second load and no request of the owner
(`OnlyListenersAsk`); what an answer under way does not show is asked for after it (`LoadIsNew`); and the
open screen stops only at the end it shows (`StopsAtTheEnd`). `HeardIsShown` alone is not
inductive: when the error of a page that was left is painted over the open one, the next answer must still
make good for what was heard meanwhile, which only `LoadIsNew` keeps. One lemma says what `Trigger` and
`Over` do to a refresher, and one per step. Theorems: `LiveInductive` and `TabKeepsUp`
(`ScreenKeepsUp`), for any sequence of screens and any number of changes, mishaps, stops and resumes.
Assumed is that a screen is Home or the page of a job (`LiveAssumption`).

*The ops watch*: watches overlap, fail and are killed at any point, and what a watch acts on it has
read before. `WatchInv` adds to the types and the property what is on record of when watches ran
(`Timely`), what was sent (`SentIs`), and of every watch under way what it knows at the point it is at
(`Knows`: what it was told was announced is on record, and its findings name every call that this watch
is the last to see; `KnowsSent`: what earlier watches sent is among what it read as announced, unless
they overlapped; `KnowsSnaps`: as long as it is alone the snapshot it compares with is still the last,
unless it could not read it, and a fall between that and its own is among its findings). Without
`KnowsSnaps` a snapshot and the finding about it, which are written at different points, could come
apart. `AllTold` goes from the record to the owner: what is on record was sent, is about to be, or
its message failed. Theorems: `WatchInductive` and `OwnerIsTold` (`WatchTells`), for any number of
calls, rows and instants. Assumed is that the
bounds are numbers (`WatchAssumption`).

*The Deliverables Center*: refreshes and older pages cross each other, and the Hub answers from what is
in the database when it answers. `PagesInv` says what every answer on its way back holds, compared
with what it was asked for (`AnswerIsWhole`: a first page and a window have no gap from their newest
objective down, a page before a cursor none from the cursor down); that what was asked for since the
board last started over continues it (`RequestContinues`: an older page goes on at the cursor, a window
at the start); and that the parts of the board meet (`BoardIsWhole`), which is where `mixed` comes in.
That `olderThan` compares ids within one instant is what makes an older page begin where the last one
ended; the lemmas on `Newest` show that the rows the Hub reads beyond a page are enough to tell
whether there is another page. Theorems: `PagesInductive` and `PagesHaveNoHole` (`BoardHasNoHole`), for
any number of objectives, hidden tests, loose rows and refreshes and any limits. `PagesAssumption`:
instants never decrease along the board, and no more objectives share one than a page holds (60; each
is created by a request of its own). Without the second the rows that share the cursor's instant could
fill what the Hub reads.

Only model-checked: liveness (`Finishes`, `EndedLetsGo`, `SessionsRest`), which is out of the
prover's reach here; `EvidenceDecides`, which folds over lists of results, and the arithmetic of
`FiguresAddUp`, which folds over functions.

## 5. Where the code and its own text disagree

Three have a run that shows the shortest history.

* **`stale_lease`** – `supervisor.js:486-488` says that a lease is recovered as soon as it becomes
  stale. `freezeStale` drops the heartbeat of a session that is still in `running`; when its worker ends,
  `pollStatus` fails on it at every tick, before it reaches `recoverStale`.
* **`lost_approval`** – `docs/coding-agent.md:173-175` says that approving re-queues the parked
  session. A decision that falls between the insertion of the approval and the parking of the
  session re-queues nothing, and nothing can be decided or resumed afterwards.
* **`results_arrive`** – `office-bridge.js:208` says "Results arrive here". The query takes the ten
  oldest results since the process started, announced or not, so the eleventh of one process is
  never sent.

The others were found while reading and modelling and have no run of their own.

*Objectives*

* `hub-job-actions.js:10-13` calls a half-finished resume harmless and repeatable. One that requeued
  every step and died before reopening the job leaves nothing failed, blocked or skipped, and every
  later resume answers NOTHING_TO_RESUME (`ResumeCanBeRepeated` of ObjectiveRecovery states it and
  TLC refutes it).
* A step queued between the two statements of a stop, or retried after it, leaves a cancelled
  objective with nothing to resume (`hub-job-actions.js:68`, against line 73); a stop whose second
  statement fails leaves a running job whose steps are all settled. A second tab's resume that finds
  nothing to requeue and reopens the job leaves it running with a failed step.
* The step in flight when the owner stops an objective may complete it (`complete_task`, line
  213 of its migration).
* A failure during a resume leaves a running job with a failed step (`hub-job-actions.js:50`),
  and `isStalled` (`domain/lifecycle.js:242`) does not see it while a requeued step waits behind it.
* "A stalled objective can never progress on its own" (`domain/lifecycle.js:228-230`): an executor
  that is still at work on a plan that a stop skipped goes on to create steps that can be claimed.
* A planner that is interrupted and answers differently leaves the steps of both answers in
  the objective where they differ in sequence (`db.js:85` against `workflow.js:411`).
* `HandoffPerEdge` does not hold for steps created after their input was delivered (revision
  rounds) or requeued by a resume; it is checked for the first round only.
* An objective claimed whose process dies before its first step exists is never claimed again.
* A run lost in a crash is failed by `requeue_stale_tasks`, and so is one whose completion lost its
  reply, by `fail_task`: a step may be given up after as many crashes as it has attempts, with no failure of its own.

*Inside a step*

* A figure that FINANCE corrects in the revision round is out of `banned` in the next round
  (`workflow.js:640-641`); the synthesis written without revisions is not checked for a request
  again (:637), and since it asks with the same key it may be the same cached answer.
* `launchDevelopment` has no idempotency key: an attempt that dies after `createCodingSession` is
  followed by one that launches another session (:720). Artifacts are saved before `complete_task`
  and may be saved twice. Revision steps after a crash find their places taken (:675).
* When AUDIT is asked to redo its work it sees only the Chief's note, and the final synthesis reads the
  new report in place of the first: a figure that the first had shown to be wrong is no longer banned
  (`quality.js:275-290`) and may ship in a closed result if nothing else contradicts it. A direct answer may ship with
  figures marked INCONSISTENT, and with the drill of a wrong audit a wrong figure beside "VERIFIED".
* The table the Office draws itself rounds to whole units: its Total row (49.50 × 12 = 594) and the
  sum of its rows (12 × 50 = 600) may differ by more than its own gate allows
  (`finance.js:602-613`, `387-409`). `break_even_month` is 1 whenever the first month is not
  negative, whatever follows.
* Plan rules (`chief.js:102-168`): ids are normalised, dependencies only lower-cased; a duplicate that
  is renamed ("a" to "a-2") can capture another workstream's dependency.

*Models and money*

* "Attempt-store failure after a successful call never bills a backup provider"
  (`test/model-gateway.test.js:152`): a write that failed with "fetch failed" (`db.js:186`) is
  classified as a network failure (`contracts.js:124`), and the model is called and billed again.
  `PaysOnce` states the exception.
* The error of an answer above its reservation adds its cost twice to `spentUsd`; an empty answer is
  billed and never charged; a settlement that throws loses the answer; a charge that is swallowed
  leaves a bill uncounted. A reservation whose reply was lost, or whose process died, is held for ever.
* An answer of the turn gateway whose settlement fails is thrown away and taken for a refused credential
  (`turn-gateway.js:305-331`, `workspace-policy/contracts.js:13`): the route rests six hours
  (`provider-state.js:58-60`), and the reservation is settled at nothing when the first settlement did
  not reach the database. A report that fails with the message of a network failure has the same route
  asked and billed again (`:348`). Jobs without a workspace may call a paid route and
  have no budget (`pool-runner.js:119-122`, `215`), as the comment there says.
* A late write of a concurrent failure can shorten the rest of an exhausted route
  (`QuotaRests` of TurnGateway).
* Coding errors carry no `count` in the database store, so "Same back-off applies"
  (`qualification.js:462`) is not so: that back-off never grows. A failed read without any cache makes
  every route a candidate; a reader in flight during a save puts the older evidence back for five
  minutes; 300 rows may not reach back to a valid result. A cycle that meets the owner's canary, or
  whose save fails, waits six hours though untested routes remain (:404). Daily caps count routes,
  not calls, and a restart resets them.

*Views, watch and channel*

* `wait_info` is never cleared: a queued or blocked step goes on "waiting for capacity" after its wait.
* "Waiting to start the synthesis" is shown while the plan is queued. Where a job failed while a
  sibling step still runs, workload says available, Office and Live Operations say working. After a
  crash before the first step the lifecycle says that the Chief is planning, for ever.
* `ownerAction` counts a session blocked for capacity as the owner's, the lifecycle does not. A running
  session of a finished `launch_dev` step keeps its employee busy on a completed objective.
* The ops watch "sends each NEW finding once": a paid call that started more than a minute before a
  watch and ended in it is never told; one in the overlapping minute can be told twice together with
  another; a snapshot is stored before its alert, so a failure in between loses the alert; the same loss
  within seven days is not told again.
* "A failed read must never look like … 'nothing wrong'" (`ops-watch.js:168`), but the read of the last
  snapshot (`:183-187`) is not checked: when it fails nothing is compared and the lower counts are stored,
  so a fall of the rows is never told. A failed read of the bulk deletes makes a cleanup a suspected loss.
* Deliverables: the cursor is the oldest *visible* objective though `hub-deliverables.js:437` says
  "paging keeps the raw cursor"; rows asked for before the board starts over and merged afterwards
  leave a hole.
* "Resuming the job restarts it" (`office-model.js:411`): when a load that read "cancelled" is in flight
  at the resume, it stops the refresher afterwards, and the page shows a cancelled job that runs. A first
  load that fails after the owner left paints its error over the next screen (`screens.js:762`), and a
  failed first load is not retried. A page that stopped at a terminal job does not notice a resume from
  another tab.
* A message whose handling throws is lost at the next poll (`telegram.js:101`). A crash between a send
  and its mark, or a read of marks that fails, delivers a result twice, though line 102 of
  `office-bridge.js` says exactly once.

*Continuity*

* `transitionSession` writes unconditionally what it checked against an earlier read
  (`store.js:86`); two overlapping finishes can write CHECKPOINTING over COMPLETED.
* A resume of a continuity session that fails after its proposal leaves the handoff open, and
  every later resume is refused (`supervisor.js:678`). A failed Office bind leaves an unleased
  native session (`adapters/office.js:50`).
* `recoverStale` throws at every start when a frozen Office session has no worktree
  (`supervisor.js:606`), and the runtime does not come up. A lost answer of `acquire` blocks the
  branch until its row is repaired by hand. A lease reclaimed when no successor is eligible is
  not offered again (`supervisor.js:541`).
* The Office adapter reports a cancelled native session as ACTIVE (`adapters/office.js:90`), so
  its lease never ends; `EndedLetsGo` is therefore about completed and failed workers.

*Coding Agent*

* `controller.js:890` calls a required call one that must succeed. A commit that was refused is audited
  as a success, replayed as one after a resume, and the session completes with its edits in the sandbox.
  (The same is handled for pushes and pull requests.)
* A coding session cancelled while running whose worker has died is never claimed (the claim
  wants `not cancel_requested`), so it stays running.
* A broker row left `running` by a crash makes a required call fail for ever
  (TOOL_EXECUTION_IN_PROGRESS), and so does one that failed (TOOL_IDEMPOTENCY_BLOCKED), as
  long as the iteration is the same.
* A consumed approval whose call then died leads to an approval that is never asked again: the
  session awaits with nothing pending.
* The iteration limit says "resume to continue" (`controller.js:318`), but the iteration is in the
  checkpoint and no resume resets it: the next guard stops at once, and a finish accepted in the last
  turn is never published. "Raise the budget and resume" (:324): nothing raises a session's budget.
* Replies are "checkpointed immediately so a crash cannot lose them" (`controller.js:260`); they
  are marked taken one call before, and a crash between the two loses them for the model.
* A structured tool error that is replayed is reported to the model as a success without output.
* The guard against errors in a row or repeated calls throws between the closing of a turn and the
  message with its results (`controller.js:583-585`): the saved conversation has calls that nothing
  answers, and the resumed model is given it. These are the `orphans` of `WhatTheModelReads`.
* "Passes a finish gate" (`README.md:51`): the calls after `finish` in the same turn are executed, and
  what they edit is committed and published without a gate; a finish that passed before an approval
  stopped the turn is forgotten at the resume; a finish without changes followed by an edit completes
  with the edit in the sandbox. `PublishedPassedGate` is about a `finish` that is the last call.
* A reply taken while an interrupted turn is repeated and stops again is used up and shown to the model
  only among the owner's decisions of a later summary; one sent during a publishing that succeeds is
  never read.
* `gateFailures` is never reset: after GATE_LIMIT every resume repeats the finish and stops again.
* "Unchanged: … still in this conversation" can point at a result that is shortened, or gone with a
  summary, before the model reads the note for the first time.
* After a crash between the turn-budget note and the compaction it announces, the note says "the
  transcript was compacted" though the wish to compact was in memory only (`controller.js:597`).

## 6. What is not modelled

* *Objectives*: events, progress, costs, several objectives at once, and duplicate rows of one
  sequence (`ensureTask` reads and creates without a unique index; a step is its sequence here). Inside a
  step: narration cleaning, the social calendar, the evidence gate of a degraded search;
  recognising figures in text, whose verdict is a choice.
* *Continuity*: several branches, checkpoint payloads, usage numbers and scores, timer
  checkpoints, the gate worktree, MJE artifacts. `failSession`'s read and write are one step in three
  undo paths, where the row belongs to the flow.
* *Coding Agent*: several sessions; the model's budget and wall clock (any guard may stop a
  worker: `Stumble`), Supabase tools, the injected drill, the gate's own shell runs, the
  pull request's ledger row (it has the shape of the push), pull requests that do not wait for CI,
  a tool whose effect comes after its timeout, a lost sandbox volume. CodingAgent's several workers
  and AgentRun's conversation are not composed: what a superseded worker may write is CodingAgent's,
  and it is refused whatever is in the checkpoint.
* *Models*: which routes exist and fit a job, and what a policy grants: tables and filters whose
  outcome is a constant or a choice. The automatic order by cost and quality, and the sharing of
  outcomes of the model gateway with `provider_status`.
* *Hub*: reads of the refresh window that fail and are taken for empty (`hub-deliverables.js:362-365`, `453`);
  a load of several requests is one read of the server; views of coding sessions and approvals,
  attention, timelines, pages of several projects;
  what a screen draws; the 3D office; session cookies.
* Canaries, reports, startup checks, deployment scripts, row-level security: nothing over time that
  a model checker adds to.

The reason for each part is in `PROJECT.json`.

## 7. The plan

1. *(done)* TaskQueue, OfficeRuntime, ObjectiveRecovery, refinement of Objective, proofs.
2. *(done)* CodingLease, ContinuitySupervisor, refinement of Baton, proofs.
3. *(done)* AgentSession, CodingAgent and its runs; proofs of its inductive invariant; AgentRun.
4. *(done)* WorkspaceBudget with Account, proofs; TurnGateway and ModelGateway over it.
5. *(done)* ChannelBridge, StageWork, OpsWatch, FinanceModel, Qualifier.
6. *(done)* What the owner sees: ObjectiveViews, DeliverablesPages, LiveScreen.
7. *(done)* Proofs of AgentRun, the gateways, the handover and the office runtime.
8. *(done)* Proofs of StageWork, ChannelBridge, OpsWatch, LiveScreen and DeliverablesPages.
9. *(done)* A proof of what the views show (`ViewsHold`). Open: the views of coding sessions.

The number of runs is kept to one for each distinct question; a new component joins the run of
the components it resembles.

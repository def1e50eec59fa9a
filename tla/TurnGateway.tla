----------------------------- MODULE TurnGateway -----------------------------
(***************************************************************************)
(* Runs of the Office model runner (office/pool-runner.js) and the turns    *)
(* they ask of the turn gateway (turn-gateway.js), side by side: they share *)
(* the provider_status rows and the workspace budget.  A step is one call   *)
(* of the database, of a hook or of a provider; between two steps the other *)
(* runs move, and the process may die.                                     *)
(*                                                                         *)
(* Order is the order in which order() offers the routes; Fit and           *)
(* RelaxedFit are the routes that pass the checks of evaluate() that do not *)
(* change while a run lasts (privacy, capability, evidence, size), for the  *)
(* job and for its relaxed form.                                           *)
(***************************************************************************)
EXTENDS WorkspaceBudget, ProviderState, Sequences

CONSTANTS
    Runs,            \* runs of the model runner, one per claimed step
    Order,           \* the routes, best first
    Paid,            \* those with billing class "paid"
    Fit, RelaxedFit,
    PoolOf, Shared,  \* the capacity pool of a route; the pools that share one quota
    SecretOf,        \* the credential of a route
    PaidAllowed,     \* the runs whose routing and policy allow paid routes
    Legacy,          \* the runs of jobs without a workspace: no policy, no budget
    Tolerant,        \* the runs whose job has a relaxed form
    Estimate,        \* estimateTurnCost of a paid turn
    Kinds,           \* the kinds of failure that happen
    MaxTurns, MaxEscalations,
    Attempts,        \* maxAttemptsPerRoute
    MaxFaults,       \* bound: failures and crashes ...
    Endless,         \* ... unless they are not counted
    Mistakes         \* may calls on this side (hooks, the store) fail, and processes die?

Routes == {Order[i] : i \in DOMAIN Order}

NoRoute == "none"

(* Keys are made by runs; the largest reservation of a turn, and the least  *)
(* one of a charge, are amounts that callers ask for.  Paid routes have a    *)
(* price (model-pool.js leaves out those without), free routes have none.   *)
ASSUME TurnAssumption ==
    /\ Order \in Seq(Routes) /\ NoRoute \notin Routes
    /\ Keys \subseteq Runs \X Nat \X {"turn", "incident"}
    /\ Estimate \in Nat /\ {1, LesserOf(MaxRequest, Estimate)} \subseteq Amounts
    /\ 0 \in Costs
    /\ Kinds \subseteq FailureKinds
    /\ Attempts \in Nat \ {0}

VARIABLES
    health, cooling, row,   \* provider_status: health; routes whose cooldown has not passed;
                            \* consecutive_failures, at most 3
    code,                   \* last_error_code: the kind that wrote it
    run,                    \* what each run has in memory
    unbilled,               \* what failed calls billed and the budget never heard of
    faults

status == <<health, cooling, row, code>>
vars   == <<budget, status, run, unbilled, faults>>

Idle == [pc |-> "idle", turn |-> 0, escalations |-> 0, relaxed |-> FALSE, left |-> 0,
         failed |-> {}, excluded |-> {}, previous |-> NoRoute, preferred |-> NoRoute,
         route |-> NoRoute, attempt |-> 0, keys |-> 0, cost |-> 0, error |-> "",
         seen |-> [health |-> "healthy", row |-> 0], tools |-> 0, saved |-> 0,
         speaks |-> NoRoute, cuts |-> 0]

(* The key of the turn, and of the charge, that a run has under way.         *)
Key(p)      == <<p, run[p].keys, "turn">>
Incident(p) == <<p, run[p].keys, "incident">>

Cap3(n) == LesserOf(3, n)

Steps == {"idle", "choose", "switch", "reserve", "started", "call", "settle", "record", "report",
          "hook", "failed", "charge", "charged", "read", "write", "next", "answered"}
Ends  == {"done", "waiting", "exhausted", "aborted", "crashed"}

OthersInit ==
    /\ health = [r \in Routes |-> "healthy"]
    /\ cooling = {}
    /\ row = [r \in Routes |-> 0]
    /\ code = [r \in Routes |-> ""]
    /\ run = [p \in Runs |-> Idle]
    /\ unbilled = 0
    /\ faults = 0

Init == BudgetInit /\ OthersInit

-----------------------------------------------------------------------------
Is(p, pc) == run[p].pc = pc

(* A step that changes only what the run remembers.                         *)
Local(p, memory) ==
    /\ run' = [run EXCEPT ![p] = memory]
    /\ UNCHANGED <<budget, status, unbilled>>

At(p, pc) == [run[p] EXCEPT !.pc = pc]

(* A run that ended remembers nothing.                                      *)
Ended(pc) == [Idle EXCEPT !.pc = pc]

Fault == IF Endless THEN UNCHANGED faults
         ELSE faults < MaxFaults /\ faults' = faults + 1
Calm  == UNCHANGED faults

(* A call on this side failed: the error leaves turn() and run().           *)
Throws(p) == Mistakes /\ Fault /\ Local(p, Ended("aborted"))

-----------------------------------------------------------------------------
(* run(): getPolicy rolls an ended period over and reads the row once; what *)
(* is left of the budget is not read again while the run lasts.  A job       *)
(* without a workspace has no policy to read.                               *)
Left(s, r) == Minus(Monthly, s + r)

Start(p) ==
    /\ Is(p, "idle")
    /\ \/ p \notin Legacy /\ RollIfOver /\ Calm
       \/ p \notin Legacy /\ over /\ UNCHANGED budget /\ Mistakes /\ Fault   \* the rollover failed
       \/ p \in Legacy /\ UNCHANGED budget /\ Calm
    /\ run' = [run EXCEPT ![p] = [At(p, "choose") EXCEPT
                  !.left = IF p \in Legacy THEN 0 ELSE Left(spent', reserved')]]
    /\ UNCHANGED <<status, unbilled>>

(* getPolicy or a snapshot fails: nothing catches it.                       *)
Unreadable(p) ==
    /\ Is(p, "choose") \/ Is(p, "read") \/ (Is(p, "idle") /\ p \notin Legacy)
    /\ Throws(p)

(* evaluate(): the verdict on one route, from the rows as they are now.     *)
Rests(r) ==
    \/ r \in cooling
    \/ /\ PoolOf[r] \in Shared
       /\ \E o \in cooling : PoolOf[o] = PoolOf[r] /\ health[o] = "quota_exhausted"
    \/ \E o \in cooling : SecretOf[o] = SecretOf[r] /\ health[o] = "auth_error" /\ code[o] = "account"

(* Without a policy the budget has no end.                                  *)
MayPay(p, r) == r \in Paid => p \in PaidAllowed /\ (p \in Legacy \/ Estimate <= run[p].left)

Eligible(p, r) ==
    /\ r \in (IF run[p].relaxed THEN RelaxedFit ELSE Fit)
    /\ ~Rests(r)
    /\ r \notin run[p].failed \cup run[p].excluded
    /\ MayPay(p, r)

(* order(): the preferred route first while it is eligible.                 *)
Chosen(p) ==
    LET able == {i \in DOMAIN Order : Eligible(p, Order[i])}
    IN IF able = {} THEN NoRoute
       ELSE IF run[p].preferred \in {Order[i] : i \in able} THEN run[p].preferred
       ELSE Order[CHOOSE i \in able : \A j \in able : i <= j]

\* Seeded mistake: only a change within the turn is a switch.
SwitchingWithin(p, r) == run[p].previous # NoRoute

Switching(p, r) ==
    \/ run[p].previous # NoRoute
    \/ run[p].preferred # NoRoute /\ r # run[p].preferred

Choose(p) ==
    /\ Is(p, "choose")
    /\ Chosen(p) # NoRoute
    /\ Local(p, [At(p, IF Switching(p, Chosen(p)) THEN "switch" ELSE "reserve")
                     EXCEPT !.route = Chosen(p), !.attempt = 1])
    /\ Calm

(* hooks.authorize refused the route: it is not offered again in this turn. *)
Denied(p) ==
    /\ Is(p, "choose") /\ Mistakes
    /\ Chosen(p) # NoRoute
    /\ Local(p, [run[p] EXCEPT !.failed = @ \cup {Chosen(p)}])
    /\ Fault

(* A new turn() of the same run: nothing has failed in it yet.              *)
NextTurn(p, memory) ==
    IF memory.turn + 1 >= MaxTurns + MaxEscalations
    THEN Ended("exhausted")
    ELSE [memory EXCEPT !.turn = @ + 1, !.pc = "choose", !.failed = {}, !.previous = NoRoute,
                        !.error = "", !.route = NoRoute, !.attempt = 0]

(* No route is left: the job is relaxed once; otherwise the error goes to   *)
(* the caller, which decides whether the step waits (capacity.js).          *)
NothingLeft(p) ==
    /\ Is(p, "choose")
    /\ Chosen(p) = NoRoute
    /\ \/ /\ p \in Tolerant /\ ~run[p].relaxed
          /\ Local(p, NextTurn(p, [run[p] EXCEPT !.relaxed = TRUE, !.escalations = @ + 1]))
          /\ Calm
       \/ /\ p \in Tolerant => run[p].relaxed
          /\ Local(p, Ended("waiting")) /\ Calm
       \/ p \in Tolerant /\ ~run[p].relaxed /\ Throws(p)

(* onSwitch saves a checkpoint; prepare then renders the handoff from it.   *)
Switch(p) ==
    /\ Is(p, "switch")
    /\ \/ Local(p, [At(p, "reserve") EXCEPT !.saved = run[p].tools, !.speaks = NoRoute]) /\ Calm
       \/ Throws(p)

-----------------------------------------------------------------------------
(* hooks.reserve: a paid turn is reserved at its worst case, or at the      *)
(* largest request, when there is a policy.  It is called outside the try:   *)
(* a refusal ends the run.                                                  *)
Reserved(p) == run[p].route \in Paid /\ p \notin Legacy

Worst == LesserOf(MaxRequest, Estimate)

NewKey(p, kind) == <<p, run[p].keys + 1, kind>>

ReserveTurn(p) ==
    /\ Is(p, "reserve")
    /\ Reserved(p) => NewKey(p, "turn") \in Keys     \* bound: the keys of a run
    /\ \/ /\ ~Reserved(p)
          /\ Local(p, At(p, "started")) /\ Calm
       \/ /\ Reserved(p)
          /\ Reserve(NewKey(p, "turn"), Worst)
          /\ UNCHANGED <<status, unbilled>>
          /\ \/ run' = [run EXCEPT ![p] = [At(p, "started") EXCEPT !.keys = @ + 1]] /\ Calm
             \/ run' = [run EXCEPT ![p] = Ended("aborted")] /\ Mistakes /\ Fault
       \/ /\ Reserved(p)
          /\ ~CanReserve(NewKey(p, "turn"), Worst)
          /\ Local(p, Ended("aborted")) /\ Calm
       \/ Reserved(p) /\ Throws(p)

(* onAttempt "started", also outside the try.                               *)
Begin(p) ==
    /\ Is(p, "started")
    /\ \/ Local(p, At(p, "call")) /\ Calm
       \/ Throws(p)

(* The provider answers; a free route that reports a cost or another model  *)
(* is a failure of its own.                                                 *)
Answer(p) ==
    /\ Is(p, "call")
    /\ \E c \in Costs :
        /\ run[p].route \notin Paid => c = 0
        /\ Local(p, [At(p, "settle") EXCEPT !.cost = c])
    /\ Calm

(* What the provider billed for a call that failed: a refusal and an empty   *)
(* answer carry the usage of a call that was made.                          *)
MayBill(p, k, c) ==
    \/ k = "billed" /\ c > 0
    \/ k # "billed" /\ c = 0
    \/ k \in {"request", "transient"} /\ run[p].route \in Paid

Fail(p) ==
    /\ Is(p, "call")
    /\ \E k \in Kinds, c \in Costs :
        /\ k \in {"billed", "mismatch"} => run[p].route \notin Paid
        /\ MayBill(p, k, c)
        /\ Local(p, [At(p, "failed") EXCEPT !.error = k, !.cost = c])
    /\ Fault

(* A hook on this side failed before the call.                              *)
HookFails(p) ==
    /\ Is(p, "call") /\ Mistakes
    /\ Local(p, At(p, "hook"))
    /\ Fault

\* Seeded mistake: a turn that cost nothing is not settled.
SettlesCosts(p, c, memory) ==
    /\ IF Reserved(p) /\ c > 0 THEN Settle(Key(p), c) ELSE UNCHANGED budget
    /\ run' = [run EXCEPT ![p] = memory]
    /\ UNCHANGED <<status, unbilled>>

SettleTurn(p, c, memory) ==
    /\ IF Reserved(p) THEN Settle(Key(p), c) ELSE UNCHANGED budget
    /\ run' = [run EXCEPT ![p] = memory]
    /\ UNCHANGED <<status, unbilled>>

(* Whatever fails on this side after the answer is classified like a         *)
(* failure of the provider, without a cost: a settlement that fails has the  *)
(* class of a refused credential, whether the database did it or not; a      *)
(* report that fails is a failure of the network when its message says so,   *)
(* and the route is asked, and billed, again.                               *)
Misread(p, kind) == [At(p, "failed") EXCEPT !.error = kind, !.cost = 0]

Unsettled == "auth"
Unreported == {"request", "transient"}

SettleAnswer(p) ==
    /\ Is(p, "settle")
    /\ \/ SettleTurn(p, run[p].cost, [At(p, "record") EXCEPT !.cost = 0]) /\ Calm
       \/ /\ Reserved(p) /\ Mistakes /\ Fault
          /\ \/ SettleTurn(p, run[p].cost, Misread(p, Unsettled))
             \/ Local(p, Misread(p, Unsettled))

SettleHook(p) ==
    /\ Is(p, "hook")
    /\ \/ SettleTurn(p, 0, Ended("aborted")) /\ Calm
       \/ Reserved(p) /\ Throws(p)

-----------------------------------------------------------------------------
(* record_provider_outcome: an upsert that takes the caller's word.  When it *)
(* fails, the turn goes on as if the row had been written.                  *)
RecordSuccess(p) ==
    /\ Is(p, "record")
    /\ \/ /\ health' = [health EXCEPT ![run[p].route] = "healthy"]
          /\ cooling' = cooling \ {run[p].route}
          /\ row' = [row EXCEPT ![run[p].route] = 0]
          /\ run' = [run EXCEPT ![p] = At(p, "report")]
          /\ UNCHANGED <<budget, code, unbilled>> /\ Calm
       \/ Local(p, At(p, "report")) /\ Mistakes /\ Fault

Report(p) ==
    /\ Is(p, "report")
    /\ \/ Local(p, At(p, "answered")) /\ Calm
       \/ \E kind \in Unreported : Local(p, Misread(p, kind)) /\ Mistakes /\ Fault

SettleFailure(p) ==
    /\ Is(p, "failed")
    /\ LET then == IF ~Reserved(p) /\ run[p].cost > 0 THEN "charge" ELSE "read"
           owed == IF then = "charge" THEN run[p].cost ELSE 0
       IN \/ SettleTurn(p, run[p].cost, [At(p, then) EXCEPT !.cost = owed]) /\ Calm
          \/ Reserved(p) /\ SettleTurn(p, run[p].cost, Ended("aborted")) /\ Mistakes /\ Fault
          \/ Reserved(p) /\ Throws(p)

(* chargeUnreserved: a minimal reservation, settled at the real cost.       *)
(* Whatever fails in it is swallowed, and without a workspace it does       *)
(* nothing.                                                                 *)
Uncharged(p) ==
    /\ run' = [run EXCEPT ![p] = [At(p, "read") EXCEPT !.cost = 0]]
    /\ unbilled' = unbilled + run[p].cost
    /\ UNCHANGED status

Charge(p) ==
    /\ Is(p, "charge")
    /\ p \notin Legacy
    /\ NewKey(p, "incident") \in Keys
    /\ \/ /\ Reserve(NewKey(p, "incident"), 1)
          /\ run' = [run EXCEPT ![p] = [At(p, "charged") EXCEPT !.keys = @ + 1]]
          /\ UNCHANGED <<status, unbilled>> /\ Calm
       \/ /\ ~CanReserve(NewKey(p, "incident"), 1)
          /\ Uncharged(p) /\ UNCHANGED budget /\ Calm
       \/ /\ Reserve(NewKey(p, "incident"), 1) \/ UNCHANGED budget
          /\ Uncharged(p) /\ Mistakes /\ Fault

NothingToCharge(p) ==
    /\ Is(p, "charge")
    /\ p \in Legacy
    /\ Uncharged(p) /\ UNCHANGED budget /\ Calm

SettleCharge(p) ==
    /\ Is(p, "charged")
    /\ \/ /\ Settle(Incident(p), run[p].cost)
          /\ run' = [run EXCEPT ![p] = [At(p, "read") EXCEPT !.cost = 0]]
          /\ UNCHANGED <<status, unbilled>> /\ Calm
       \/ Uncharged(p) /\ UNCHANGED budget /\ Mistakes /\ Fault

(* recordFailure reads the row, decides, and writes it in a second call.    *)
ReadState(p) ==
    /\ Is(p, "read")
    /\ Local(p, [At(p, IF run[p].error = "drill" THEN "next" ELSE "write")
                     EXCEPT !.seen = [health |-> health[run[p].route], row |-> row[run[p].route]]])
    /\ Calm

Decided(p) == [At(p, "next") EXCEPT !.seen = Idle.seen]

WriteState(p) ==
    /\ Is(p, "write")
    /\ LET r == run[p].route
           o == FailureOutcome(run[p].error, Unnamed, 0, run[p].seen.health, run[p].seen.row + 1)
       IN /\ health' = [health EXCEPT ![r] = o.health]
          /\ cooling' = IF o.rest > 0 THEN cooling \cup {r} ELSE cooling \ {r}
          /\ row' = [row EXCEPT ![r] = Cap3(@ + 1)]
          /\ code' = [code EXCEPT ![r] = run[p].error]
    /\ run' = [run EXCEPT ![p] = Decided(p)]
    /\ UNCHANGED <<budget, unbilled>> /\ Calm

(* "Health bookkeeping must never block model execution": a row that is not  *)
(* written is passed over.                                                  *)
Unwritten(p) ==
    /\ Is(p, "write") /\ Mistakes
    /\ Local(p, Decided(p))
    /\ Fault

(* The attempt is reported; then the same route again, or the next one.     *)
\* Seeded mistake: a route that will not be asked again is not remembered.
AfterFailureForgets(p) ==
    [At(p, "choose") EXCEPT !.previous = run[p].route]

AfterFailure(p) ==
    IF RetriesHere(run[p].error, Unnamed, run[p].attempt, Attempts)
    THEN [At(p, "reserve") EXCEPT !.attempt = @ + 1]
    ELSE [At(p, "choose") EXCEPT !.failed = @ \cup {run[p].route}, !.previous = run[p].route]

Following(p) ==
    /\ Is(p, "next")
    /\ \/ Local(p, AfterFailure(p)) /\ Calm
       \/ Throws(p)

-----------------------------------------------------------------------------
(* Back in run(): tool calls and cut-off answers are continued in the same   *)
(* conversation, which the route that answered owns.                        *)
Continued(p) == [run[p] EXCEPT !.preferred = run[p].route, !.speaks = run[p].route]

UseTools(p) ==
    /\ Is(p, "answered")
    /\ run[p].turn < MaxTurns - 1
    /\ \/ Local(p, NextTurn(p, [Continued(p) EXCEPT !.tools = @ + 1])) /\ Calm
       \/ Throws(p)

CutOff(p) ==
    /\ Is(p, "answered")
    /\ run[p].cuts < 2
    /\ Local(p, NextTurn(p, [Continued(p) EXCEPT !.cuts = @ + 1]))
    /\ Calm

Accept(p) ==
    /\ Is(p, "answered")
    /\ Local(p, Ended("done"))
    /\ Calm

(* An answer that fails its validation: the model is excluded for this run   *)
(* and a checkpoint is what the next one starts from.                        *)
Escalated(p) ==
    [run[p] EXCEPT !.excluded = @ \cup {run[p].route}, !.escalations = @ + 1,
                   !.saved = run[p].tools, !.speaks = NoRoute, !.preferred = NoRoute]

Escalate(p) ==
    /\ Is(p, "answered")
    /\ \/ /\ Local(p, IF run[p].escalations >= MaxEscalations THEN Ended("exhausted")
                      ELSE NextTurn(p, Escalated(p)))
          /\ Calm
       \/ Throws(p)

-----------------------------------------------------------------------------
Step(p) ==
    \/ Start(p) \/ Choose(p) \/ Denied(p) \/ NothingLeft(p) \/ Switch(p)
    \/ ReserveTurn(p) \/ Begin(p) \/ Answer(p) \/ Fail(p) \/ HookFails(p)
    \/ SettleAnswer(p) \/ SettleHook(p) \/ RecordSuccess(p) \/ Report(p)
    \/ SettleFailure(p) \/ Charge(p) \/ NothingToCharge(p) \/ SettleCharge(p)
    \/ ReadState(p) \/ WriteState(p) \/ Unwritten(p) \/ Unreadable(p) \/ Following(p)
    \/ UseTools(p) \/ CutOff(p) \/ Accept(p) \/ Escalate(p)

Crash(p) ==
    /\ run[p].pc \notin Ends \cup {"idle"} /\ Mistakes
    /\ Local(p, Ended("crashed"))
    /\ Fault

CooldownEnds(r) ==
    /\ r \in cooling
    /\ cooling' = cooling \ {r}
    /\ UNCHANGED <<budget, health, row, code, run, unbilled, faults>>

(* releaseAuthCooldowns, when the runtime is started (again), which other    *)
(* processes outlive.                                                       *)
ReleaseAuth ==
    /\ \E r \in cooling : health[r] = "auth_error"
    /\ cooling' = {r \in cooling : health[r] # "auth_error"}
    /\ UNCHANGED <<budget, health, row, code, run, unbilled, faults>>

MonthEnds == PeriodEnds /\ UNCHANGED <<status, run, unbilled, faults>>

Next ==
    \/ \E p \in Runs : Step(p) \/ Crash(p)
    \/ \E r \in Routes : CooldownEnds(r)
    \/ ReleaseAuth
    \/ MonthEnds

Spec == Init /\ [][Next]_vars

(* Every call is answered or times out.                                     *)
FairSpec == Spec /\ \A p \in Runs : WF_vars(Step(p))

-----------------------------------------------------------------------------
Memories ==
    [pc : Steps \cup Ends, turn : Nat, escalations : Nat, relaxed : BOOLEAN, left : Nat,
     failed : SUBSET Routes, excluded : SUBSET Routes, previous : Routes \cup {NoRoute},
     preferred : Routes \cup {NoRoute}, route : Routes \cup {NoRoute}, attempt : 0..Attempts,
     keys : Nat, cost : Costs, error : FailureKinds \cup {""},
     seen : [health : Healths, row : 0..3], tools : Nat, saved : Nat,
     speaks : Routes \cup {NoRoute}, cuts : 0..2]

TypeOK ==
    /\ BudgetTypeOK
    /\ health \in [Routes -> Healths]
    /\ cooling \subseteq Routes
    /\ row \in [Routes -> 0..3]
    /\ code \in [Routes -> FailureKinds \cup {""}]
    /\ run \in [Runs -> Memories]
    /\ unbilled \in Nat
    /\ faults \in Nat

(* The money a run holds is the money of the call it has under way: a run   *)
(* of a workspace never calls a paid provider without an open reservation   *)
(* of its worst case (jobs without a workspace have no budget and reserve    *)
(* nothing), and the open reservation of a turn belongs to a call that is    *)
(* still to be settled, or to a run that died or threw.  Answers, refusals   *)
(* that were billed, writes that fail after the answer, retries, failovers   *)
(* and escalations leave nothing behind.                                    *)
Owing == {"started", "call", "settle", "hook", "failed"}

HoldsMatchCalls ==
    /\ \A p \in Runs \ Legacy : run[p].pc \in {"call", "settle"} /\ run[p].route \in Paid =>
           hold[Key(p)] = "reserved" /\ amount[Key(p)] = Worst
    /\ \A k \in Keys : hold[k] = "reserved" /\ k[3] = "turn" =>
           \/ run[k[1]].pc \in {"aborted", "crashed"}
           \/ k = Key(k[1]) /\ run[k[1]].pc \in Owing /\ Reserved(k[1])

(* A model that takes over starts from a checkpoint with every tool call    *)
(* that was made: whichever way a run comes to call another route than the  *)
(* one whose conversation it holds (failover, a rested favourite, an        *)
(* escalation, a relaxed job), the work done is saved before the call.      *)
TakesOverFromCheckpoint ==
    \A p \in Runs : run[p].pc = "call" =>
        run[p].speaks = run[p].route \/ (run[p].speaks = NoRoute /\ run[p].saved = run[p].tools)

(* What a free route billed anyway is charged to the budget                  *)
(* (office/pool-runner.js:225).                                             *)
BilledIsCharged == unbilled = 0

(* A route whose daily allowance is used up rests until it is reset          *)
(* (docs/router-efficiency.md:17).                                          *)
QuotaRests ==
    [][\A r \in Routes : r \in cooling \ cooling' /\ health[r] = "quota_exhausted" =>
           CooldownEnds(r)]_vars

(* Every run comes to an end: no failover, retry, escalation or relaxation   *)
(* goes round for ever.                                                     *)
RunsEnd == \A p \in Runs : <>(run[p].pc \in Ends)
=============================================================================

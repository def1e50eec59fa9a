---------------------------- MODULE ModelGateway ----------------------------
(***************************************************************************)
(* The model gateway of a runtime without a model pool: one request per    *)
(* run and stage, authorised and reserved by the workspace policy gateway  *)
(* (workspace-policy/gateway.js), answered by the first provider of its     *)
(* route that can (model-gateway/gateway.js), settled whatever happened.   *)
(* Several requests run at once in one process over one budget; between    *)
(* two calls of the store, of a hook or of a provider the others move.     *)
(***************************************************************************)
EXTENDS WorkspaceBudget, Sequences

CONSTANTS
    Calls,           \* the requests: keys of the budget
    AllowedProviders,\* in the order of the policy, the default one first
    PerProvider,     \* maxAttemptsPerProvider
    FailureThreshold,\* providerFailureThreshold
    CallCosts,       \* what an attempt may cost
    CacheSize,       \* completedCacheSize
    MaxTroubles      \* bound: what may go wrong

ASSUME GatewayAssumption ==
    /\ Calls \subseteq Keys
    /\ MaxRequest \in Amounts
    /\ CallCosts \subseteq Nat

VARIABLES
    providerHealth,  \* failures in a row; in \/ out of their cooldown
    executions,      \* the answers kept, oldest first
    request,         \* what each request has in memory
    paid,            \* what the providers billed it, and for how many answers
    troubles

gateway == <<providerHealth, executions>>
legacy  == <<budget, gateway, request, paid, troubles>>

Providers == {AllowedProviders[i] : i \in DOMAIN AllowedProviders}

FailureClasses == {"retry", "failover", "approval", "fatal"}

NewRequest == [pc |-> "new", left |-> 0, route |-> <<>>, at |-> 1, attempt |-> 1, spentUsd |-> 0,
               actualUsd |-> 0, class |-> "", recorded |-> FALSE]

NothingPaid == [usd |-> 0, last |-> 0, answers |-> 0, misread |-> 0]

GatewayInit ==
    /\ providerHealth = [failures |-> [p \in Providers |-> 0], resting |-> {}]
    /\ executions = <<>>
    /\ request = [k \in Calls |-> NewRequest]
    /\ paid = [k \in Calls |-> NothingPaid]
    /\ troubles = 0

LegacyInit == BudgetInit /\ GatewayInit

-----------------------------------------------------------------------------
Waits(k, pc) == request[k].pc = pc

Moves(k, pc) == [request[k] EXCEPT !.pc = pc]

Remembers(k, memory) == request' = [request EXCEPT ![k] = memory]

Trouble == troubles < MaxTroubles /\ troubles' = troubles + 1
Fine    == UNCHANGED troubles

Provider(k) == request[k].route[request[k].at]

(* The limit of the request is what was reserved for it.                    *)
WithinReservation(k, usd) == usd < amount[k]
PaidWithinReservation(k, usd) == usd <= amount[k]

(* A key that is under way or answered is answered with that execution.     *)
Executed(k) == \E i \in DOMAIN executions : executions[i] = k

Newest(s) == IF Len(s) > CacheSize THEN Tail(s) ELSE s

(* execute() and the first half of the policy gateway's run(): the context  *)
(* is asserted, the policy read (which ends an ended period), the whole     *)
(* route authorised whatever the health of its providers.                   *)
Authorize(k) ==
    /\ Waits(k, "new")
    /\ ~Executed(k)
    /\ executions' = Newest(Append(executions, k))
    /\ RollIfOver
    /\ Remembers(k, [Moves(k, "authorized") EXCEPT !.left = Minus(Monthly, spent' + reserved')])
    /\ Fine
    /\ UNCHANGED <<providerHealth, paid>>

(* Whatever throws before there is a reservation: nothing is left behind.    *)
Forget(k) == executions' = SelectSeq(executions, LAMBDA e : e # k)

Finished(pc) == [NewRequest EXCEPT !.pc = pc]

Refused(k) ==
    /\ Remembers(k, Finished("failed"))
    /\ Forget(k)
    /\ UNCHANGED <<budget, providerHealth, paid>>

Deny(k) ==
    /\ Waits(k, "authorized")
    /\ \/ request[k].left < MaxRequest /\ Fine
       \/ ~CanReserve(k, MaxRequest) /\ Fine
       \/ Trouble                               \* the policy forbids it; the store fails
    /\ Refused(k)

ReserveRequest(k) ==
    /\ Waits(k, "authorized")
    /\ request[k].left >= MaxRequest
    /\ Reserve(k, MaxRequest)
    /\ \/ Remembers(k, Moves(k, "reserved")) /\ Fine /\ UNCHANGED executions
       \/ Remembers(k, Finished("lost")) /\ Forget(k) /\ Trouble      \* the reply is lost
    /\ UNCHANGED <<providerHealth, paid>>

-----------------------------------------------------------------------------
(* providerHealthSnapshot forgets a provider whose cooldown is over; route()*)
(* leaves out one that rests, unless the request names its provider.        *)
Expired(p) == providerHealth.failures[p] >= FailureThreshold /\ p \notin providerHealth.resting

Unhealthy(p) == p \in providerHealth.resting

Ordered(named) ==
    IF named \in Providers
    THEN <<named>> \o SelectSeq(AllowedProviders, LAMBDA p : p # named)
    ELSE SelectSeq(AllowedProviders, LAMBDA p : ~Unhealthy(p))

Route(k, named) ==
    /\ Waits(k, "reserved")
    /\ providerHealth' = [providerHealth EXCEPT !.failures =
           [p \in Providers |-> IF Expired(p) THEN 0 ELSE @[p]]]
    /\ Remembers(k, IF Ordered(named) = <<>> THEN Moves(k, "settle")
                    ELSE [Moves(k, "start") EXCEPT !.route = Ordered(named)])
    /\ Fine
    /\ UNCHANGED <<budget, executions, paid>>

(* One attempt: the budget is asserted and the attempt recorded as started; *)
(* neither failure is caught.                                               *)
StartAttempt(k) ==
    /\ Waits(k, "start")
    /\ \/ /\ ~WithinReservation(k, request[k].spentUsd)
          /\ Remembers(k, Moves(k, "settle")) /\ Fine
       \/ /\ WithinReservation(k, request[k].spentUsd)
          /\ \/ Remembers(k, [Moves(k, "call") EXCEPT !.recorded = FALSE]) /\ Fine
             \/ Remembers(k, Moves(k, "settle")) /\ Trouble
    /\ UNCHANGED <<budget, gateway, paid>>

Bills(k, c, answers) ==
    paid' = [paid EXCEPT ![k] = [paid[k] EXCEPT !.usd = @ + c, !.last = c,
                                               !.answers = @ + answers]]

Succeeds(p) ==
    providerHealth' = [failures |-> [providerHealth.failures EXCEPT ![p] = 0],
                       resting |-> providerHealth.resting \ {p}]

(* An answer: its cost is counted before its row is written.                *)
\* Seeded mistake: the cost of an answer is not counted for the settlement.
CountSpent(k, c) == [Moves(k, "record") EXCEPT !.spentUsd = @ + c, !.recorded = TRUE]

Count(k, c) ==
    [Moves(k, "record") EXCEPT !.spentUsd = @ + c, !.actualUsd = @ + c, !.recorded = TRUE]

Answered(k) ==
    /\ Waits(k, "call")
    /\ \E c \in CallCosts : Bills(k, c, 1) /\ Remembers(k, Count(k, c))
    /\ Succeeds(Provider(k))
    /\ Fine
    /\ UNCHANGED <<budget, executions>>

(* A failure, of any class, and what the error says it cost (an empty        *)
(* answer says nothing).                                                    *)
Failed(k) ==
    /\ Waits(k, "call")
    /\ \E f \in FailureClasses, c \in CallCosts :
           /\ Bills(k, c, 0)
           /\ Remembers(k, [Moves(k, "caught") EXCEPT !.class = f, !.spentUsd = @ + c,
                                                      !.actualUsd = @ + c])
    /\ Trouble
    /\ UNCHANGED <<budget, gateway>>

(* The row of the answer is written, thresholds are told, and an answer     *)
(* above the reservation is an error.  What fails here is classified as if  *)
(* the provider had failed: by its message a retry or fatal; the error of   *)
(* the budget carries the cost, which is added once more.                   *)
\* Seeded mistake: an answer whose row cannot be written goes to the next provider.
HookClassFailover == {"failover", "fatal"}

HookClass == {"retry", "fatal"}

RecordAnswer(k) ==
    /\ Waits(k, "record")
    /\ \/ /\ PaidWithinReservation(k, request[k].spentUsd)
          /\ Remembers(k, Moves(k, "answered"))
          /\ Fine /\ UNCHANGED paid
       \/ /\ ~PaidWithinReservation(k, request[k].spentUsd)
          /\ Remembers(k, Moves(k, "settle"))
          /\ Fine /\ UNCHANGED paid
       \/ /\ \E f \in HookClass :
                /\ Remembers(k, [Moves(k, "caught") EXCEPT !.class = f])
                /\ paid' = [paid EXCEPT ![k].misread = IF f = "retry" THEN @ + 1 ELSE @]
          /\ Trouble
    /\ UNCHANGED <<budget, gateway>>

(* The failed attempt is recorded, unless its answer already was.            *)
Rested(p) ==
    LET failed == providerHealth.failures[p] + 1
        n == IF failed > FailureThreshold THEN FailureThreshold ELSE failed
    IN [failures |-> [providerHealth.failures EXCEPT ![p] = n],
        resting |-> IF n >= FailureThreshold THEN providerHealth.resting \cup {p}
                    ELSE providerHealth.resting \ {p}]

Retries(k) == request[k].class = "retry" /\ request[k].attempt < PerProvider

After(k) ==
    IF request[k].class \in {"approval", "fatal"} THEN Moves(k, "settle")
    ELSE IF Retries(k) THEN [Moves(k, "start") EXCEPT !.attempt = @ + 1]
    ELSE IF request[k].at < Len(request[k].route) THEN Moves(k, "switch")
    ELSE Moves(k, "settle")

Caught(k) ==
    /\ Waits(k, "caught")
    /\ \/ /\ ~request[k].recorded                \* the row cannot be written
          /\ Remembers(k, Moves(k, "settle"))
          /\ Trouble /\ UNCHANGED providerHealth
       \/ /\ providerHealth' = IF request[k].class \in {"retry", "failover"}
                               THEN Rested(Provider(k)) ELSE providerHealth
          /\ Remembers(k, IF request[k].recorded \/ PaidWithinReservation(k, request[k].spentUsd)
                          THEN After(k)
                          ELSE Moves(k, "settle"))
          /\ Fine
    /\ UNCHANGED <<budget, executions, paid>>

(* A backup is called only after the durable checkpoint.                    *)
NextProvider(k) == [Moves(k, "start") EXCEPT !.at = @ + 1, !.attempt = 1]

SwitchProvider(k) ==
    /\ Waits(k, "switch")
    /\ \/ Remembers(k, NextProvider(k)) /\ Fine
       \/ Remembers(k, Moves(k, "settle")) /\ Trouble
    /\ UNCHANGED <<budget, gateway, paid>>

-----------------------------------------------------------------------------
(* finally: the reservation is settled at what the attempts cost.  If that   *)
(* throws, its error replaces the answer.                                   *)
SettleRequest(k) ==
    /\ Waits(k, "answered") \/ Waits(k, "settle")
    /\ \/ /\ Settle(k, request[k].actualUsd)
          /\ IF Waits(k, "answered")
             THEN Remembers(k, Finished("done")) /\ UNCHANGED executions
             ELSE Remembers(k, Finished("failed")) /\ Forget(k)
          /\ Fine
       \/ /\ Settle(k, request[k].actualUsd) \/ UNCHANGED budget
          /\ Remembers(k, Finished("lost")) /\ Forget(k)
          /\ Trouble
    /\ UNCHANGED <<providerHealth, paid>>

(* The same key again (a second synthesis in the round without revisions): *)
(* the kept answer, or, when it was dropped, a new execution.               *)
AskAgain(k) ==
    /\ Waits(k, "done")
    /\ ~Executed(k)
    /\ Remembers(k, NewRequest)
    /\ Trouble
    /\ UNCHANGED <<budget, gateway, paid>>

-----------------------------------------------------------------------------
(* The process dies: what is in memory is gone, and the runs with it.       *)
Dies ==
    /\ \E k \in Calls : request[k].pc \notin {"new", "done", "failed", "lost"}
    /\ request' = [k \in Calls |-> IF request[k].pc = "new" THEN request[k]
                                   ELSE Finished("lost")]
    /\ providerHealth' = [failures |-> [p \in Providers |-> 0], resting |-> {}]
    /\ executions' = <<>>
    /\ Trouble
    /\ UNCHANGED <<budget, paid>>

CooldownPasses ==
    /\ \E p \in providerHealth.resting :
           providerHealth' = [providerHealth EXCEPT !.resting = @ \ {p}]
    /\ Fine
    /\ UNCHANGED <<budget, executions, request, paid>>

BudgetMonthEnds == PeriodEnds /\ UNCHANGED <<gateway, request, paid, troubles>>

RequestStep(k) ==
    \/ Authorize(k) \/ Deny(k) \/ ReserveRequest(k)
    \/ \E named \in Providers \cup {"any"} : Route(k, named)
    \/ StartAttempt(k) \/ Answered(k) \/ Failed(k) \/ RecordAnswer(k) \/ Caught(k)
    \/ SwitchProvider(k) \/ SettleRequest(k) \/ AskAgain(k)

LegacyNext ==
    \/ \E k \in Calls : RequestStep(k)
    \/ Dies
    \/ CooldownPasses
    \/ BudgetMonthEnds

-----------------------------------------------------------------------------
Billable == {"reserved", "start", "call", "record", "caught", "switch", "answered", "settle"}

(* The money of a request: it holds its reservation from before its first   *)
(* attempt until it is settled, nothing else holds one except what was lost *)
(* with its process or its settlement, and what it is settled at is what     *)
(* all its attempts billed, the failed ones and those whose row could not   *)
(* be written included (workspace-policy/gateway.js:59-85).                 *)
ChargesWhatWasBilled ==
    \A k \in Calls :
        /\ request[k].pc \in Billable => hold[k] = "reserved"
        /\ hold[k] = "reserved" => request[k].pc \in Billable \cup {"lost"}
        /\ hold[k] = "settled" => actual[k] = paid[k].usd

(* A request is answered once, however often it is asked, unless the write   *)
(* of an answered attempt failed with the message of a network failure: then *)
(* the gateway asks again for what it already paid for.  No attempt starts   *)
(* once the reservation is used up.                                         *)
PaysOnce ==
    \A k \in Calls :
        /\ paid[k].answers <= 1 + paid[k].misread
        /\ paid[k].usd > 0 => paid[k].usd - paid[k].last < MaxRequest
=============================================================================

--------------------------- MODULE WorkspaceBudget ---------------------------
(***************************************************************************)
(* The money of one workspace: the budget columns of its workspace_policies *)
(* row, its workspace_budget_reservations rows, and the three database      *)
(* functions that change them.  Each locks what it changes, so each is one  *)
(* step.  A caller is anything that holds an idempotency key: a model turn, *)
(* a tool call, the charge of an unexpected cost.  The policy is enabled;   *)
(* amounts are counted in the smallest unit a caller reserves.              *)
(***************************************************************************)
EXTENDS Naturals, FiniteSets

CONSTANTS
    Keys,         \* idempotency keys
    Monthly,      \* monthly_budget_usd
    MaxRequest,   \* max_request_budget_usd
    Amounts,      \* what callers ask for
    Costs,        \* what a settled call may have cost
    Months        \* bound: how often a budget period may end

ASSUME BudgetAssumption ==
    /\ Monthly \in Nat /\ MaxRequest \in Nat /\ Months \in Nat
    /\ Amounts \subseteq Nat \ {0}
    /\ Costs \subseteq Nat

VARIABLES
    spent, reserved,    \* spent_usd and reserved_usd of the policy row
    period,             \* how often the period was rolled over
    over,               \* now() >= budget_period_end
    hold,               \* status of the reservation of a key ("none": no row)
    amount,             \* its reserved_usd
    actual,             \* its actual_usd
    settledIn           \* the period its settled_at falls in

policyRow    == <<spent, reserved, period, over>>
reservations == <<hold, amount, actual, settledIn>>
budget       == <<policyRow, reservations>>

BudgetTypeOK ==
    /\ spent \in Nat /\ reserved \in Nat /\ period \in Nat /\ over \in BOOLEAN
    /\ hold \in [Keys -> {"none", "reserved", "settled"}]
    /\ amount \in [Keys -> Nat]
    /\ actual \in [Keys -> Nat]
    /\ settledIn \in [Keys -> Nat]

BudgetInit ==
    /\ spent = 0 /\ reserved = 0 /\ period = 0 /\ over = FALSE
    /\ hold = [k \in Keys |-> "none"]
    /\ amount = [k \in Keys |-> 0]
    /\ actual = [k \in Keys |-> 0]
    /\ settledIn = [k \in Keys |-> 0]

-----------------------------------------------------------------------------
\* Seeded mistake: what is only set aside does not count.
FitsSpent(n) == ~over /\ n <= MaxRequest /\ spent + n <= Monthly

(* reserve_workspace_budget.  A key that is already reserved is answered    *)
(* with its reservation, before the period and the limits are looked at;    *)
(* a key that is settled is refused.                                        *)
Fits(n) == ~over /\ n <= MaxRequest /\ spent + reserved + n <= Monthly

CanReserve(k, n) == hold[k] = "reserved" \/ (hold[k] = "none" /\ Fits(n))

NewReservation(k, n) ==
    /\ hold[k] = "none"
    /\ hold' = [hold EXCEPT ![k] = "reserved"]
    /\ amount' = [amount EXCEPT ![k] = n]
    /\ reserved' = reserved + n
    /\ UNCHANGED <<spent, period, over, actual, settledIn>>

Reserve(k, n) ==
    /\ CanReserve(k, n)
    /\ NewReservation(k, n) \/ (hold[k] = "reserved" /\ UNCHANGED budget)

-----------------------------------------------------------------------------
(* settle_workspace_budget: once per reservation, at any actual cost.       *)
Minus(a, b) == IF a >= b THEN a - b ELSE 0

FirstSettle(k, c) ==
    /\ hold[k] = "reserved"
    /\ hold' = [hold EXCEPT ![k] = "settled"]
    /\ actual' = [actual EXCEPT ![k] = c]
    /\ settledIn' = [settledIn EXCEPT ![k] = period]
    /\ reserved' = Minus(reserved, amount[k])
    /\ spent' = spent + c
    /\ UNCHANGED <<period, over, amount>>

Settle(k, c) == FirstSettle(k, c) \/ (hold[k] = "settled" /\ UNCHANGED budget)

-----------------------------------------------------------------------------
\* Seeded mistake: the new month also forgets what is reserved.
RollReserved ==
    /\ over
    /\ over' = FALSE
    /\ period' = period + 1
    /\ spent' = 0 /\ reserved' = 0
    /\ UNCHANGED reservations

(* roll_workspace_budget_period: the month starts at zero spend; what is    *)
(* reserved stays reserved and settles in the new month.                    *)
Roll ==
    /\ over
    /\ over' = FALSE
    /\ period' = period + 1
    /\ spent' = 0
    /\ UNCHANGED <<reserved, reservations>>

RollIfOver == Roll \/ (~over /\ UNCHANGED budget)

PeriodEnds ==
    /\ ~over /\ period < Months
    /\ over' = TRUE
    /\ UNCHANGED <<spent, reserved, period, reservations>>

BudgetNext ==
    \/ \E k \in Keys : \/ \E n \in Amounts : Reserve(k, n)
                       \/ \E c \in Costs : Settle(k, c)
    \/ Roll
    \/ PeriodEnds

BudgetSpec == BudgetInit /\ [][BudgetNext]_budget

-----------------------------------------------------------------------------
(* Amounts as sets of units, so that sums are cardinalities.                *)
Units(k, n) == {k} \X (1..n)

ChargedNow(k) == hold[k] = "settled" /\ settledIn[k] = period

Outstanding == UNION {IF hold[k] = "reserved" THEN Units(k, amount[k]) ELSE {} : k \in Keys}

Billed == UNION {IF ChargedNow(k) THEN Units(k, actual[k]) ELSE {} : k \in Keys}

Overrun == {u \in Billed : u[2] > amount[u[1]]}

(* The counters of the policy row are the sums of the reservation rows:     *)
(* what is reserved is what every open reservation holds, what is spent is  *)
(* what the calls settled in this period cost.  reserve, settle and the     *)
(* rollover keep them apart from each other, one row at a time.             *)
CountersAgree ==
    /\ reserved = Cardinality(Outstanding)
    /\ spent = Cardinality(Billed)

(* However many callers reserve at once, the month never promises more than *)
(* its limit; it is exceeded only by calls that cost more than they         *)
(* reserved, and by no more than that.                                      *)
WithinLimit == spent + reserved <= Monthly + Cardinality(Overrun)

(* Both together: the limit holds for what the reservations add up to.      *)
BudgetHolds == CountersAgree /\ WithinLimit

(* The rows implement the abstract account.                                 *)
Ledger == INSTANCE Account
    WITH held <- Outstanding, charged <- Billed, used <- {k \in Keys : hold[k] # "none"}

ImplementsAccount == Ledger!AccountSpec
=============================================================================

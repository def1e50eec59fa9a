---------------------------- MODULE FinanceModel ----------------------------
(***************************************************************************)
(* The arithmetic of FINANCE's model (src/office/finance.js): from cost    *)
(* lines and revenue assumptions to a monthly schedule, its totals, the    *)
(* break-even months, the runway and the scenarios, and the table the      *)
(* Office draws of them.  Money is in cents; what is not rounded yet is in *)
(* parts of a cent, small enough for a twelfth of a year, a week of 52 and *)
(* a scenario's tenths, so nothing is lost before the code rounds.         *)
(***************************************************************************)
EXTENDS Integers, FiniteSets, Functions

CONSTANTS
    Months,     \* months of the model
    Proposals   \* bound: the models FINANCE may propose

VARIABLES
    proposal,   \* the cleaned artifact
    figures     \* what the code calculated from it, once it has

financeVars == <<proposal, figures>>

Period == 1..Months
None   == 0 - 1
Parts  == 120
Nothing == [m \in Period |-> 0]

Total(f) == FoldFunction(LAMBDA x, y : x + y, 0, f)
RoundDiv(a, b) == (2 * a + b) \div (2 * b)
Cents(parts) == RoundDiv(parts, Parts)
Larger(a, b) == IF a >= b THEN a ELSE b
FirstMonth(months) == IF months = {} THEN None ELSE CHOOSE m \in months : \A n \in months : m <= n

(* allocateCents: every month rounded down, and the cents that are missing  *)
(* from the rounded total go to the months that lost most.                  *)
\* Seeded mistake: every month is rounded by itself.
RoundEach(exact) == [m \in Period |-> Cents(exact[m])]
Allocate(exact) ==
    LET floor == [m \in Period |-> exact[m] \div Parts]
        lost  == [m \in Period |-> exact[m] % Parts]
        extra == Cents(Total(exact)) - Total(floor)
        Before(m) == {n \in Period : lost[n] > lost[m] \/ (lost[n] = lost[m] /\ n < m)}
    IN [m \in Period |-> floor[m] + IF Cardinality(Before(m)) < extra THEN 1 ELSE 0]

(* Cost lines: once in a month, and from that month on every month.         *)
OneTime(p) == [m \in Period |-> Parts * Total([i \in p.items |-> IF i.month = m THEN i.once ELSE 0])]
Recurring(i) == Parts * i.monthly + 10 * i.annual + 520 * i.weekly
Fixed(p) == [m \in Period |-> Total([i \in p.items |-> IF i.month <= m THEN Recurring(i) ELSE 0])]

(* Customers at the end of each month; who is on trial does not pay yet.    *)
Customers(p, volume) ==
    LET active[m \in 0..Months] ==
            IF m = 0 THEN p.starting
            ELSE active[m - 1] - RoundDiv(active[m - 1] * p.churn, 100)
                 + RoundDiv(p.volume[m] * volume, 10)
    IN [m \in Period |-> IF p.kind = "subscription" THEN active[m] ELSE 0]

Paying(p, customers) == [m \in Period |-> IF m > p.trial THEN customers[m - p.trial] ELSE 0]

(* Price and volume are scaled by tenths in the scenarios, where the number *)
(* of units sold is not rounded.                                           *)
Revenue(p, customers, price, volume) ==
    CASE p.kind = "costs_only"        -> Nothing
      [] p.kind = "explicit_schedule" ->
            [m \in Period |-> Larger(0, RoundDiv(p.volume[m] * price * volume, 100))]
      [] p.kind = "unit_sales"        ->
            [m \in Period |-> RoundDiv(p.volume[m] * volume * p.price * price, 100)]
      [] p.kind = "subscription"      ->
            [m \in Period |-> RoundDiv(Paying(p, customers)[m] * p.price * price, 10)]

Variable(p, customers, volume) ==
    [m \in Period |-> IF p.kind = "unit_sales" THEN p.volume[m] * volume * p.unitCost * 12
                      ELSE customers[m] * p.unitCost * Parts]

RunningSum(f) == LET s[m \in Period] == f[m] + IF m = 1 THEN 0 ELSE s[m - 1] IN s

(* Payback: cumulative cash turns non-negative after having been negative.  *)
CashBreakEven(cumulative) ==
    IF cumulative[1] >= 0 THEN 1
    ELSE FirstMonth({m \in 2..Months : cumulative[m] >= 0 /\ cumulative[m - 1] < 0})

(* The whole months before the cash is exhausted.                           *)
Runway(cash, net) ==
    LET broke == {m \in Period : cash + RunningSum(net)[m] < 0} IN
    IF broke = {} THEN None ELSE FirstMonth(broke) - 1

Ceiling(a, b) == (a + b - 1) \div b

Core(p, price, volume) ==
    LET customers  == Customers(p, volume)
        variable   == Variable(p, customers, volume)
        once       == OneTime(p)
        fixed      == Fixed(p)
        revenue    == Revenue(p, customers, price, volume)
        costs      == Allocate([m \in Period |-> once[m] + fixed[m] + variable[m]])
        net        == [m \in Period |-> revenue[m] - costs[m]]
        cumulative == RunningSum(net)
        earns      == p.kind # "costs_only"
        varCents   == Allocate(variable)
        covered    == {m \in Period : /\ revenue[m] > 0
                                      /\ Parts * (revenue[m] - varCents[m]) >= fixed[m]}
        contribution == p.price - p.unitCost
    IN [revenue |-> revenue, costs |-> costs, net |-> net, cumulative |-> cumulative,
        customers |-> customers, paying |-> Paying(p, customers),
        one_time |-> Allocate(once), fixed |-> Allocate(fixed), variable |-> varCents,
        year_revenue |-> Total(revenue), year_costs |-> Total(costs),
        net_total |-> Total(revenue) - Total(costs),
        break_even_month |-> IF earns THEN CashBreakEven(cumulative) ELSE None,
        operating_break_even_month |-> IF earns THEN FirstMonth(covered) ELSE None,
        break_even_count |-> IF p.kind \in {"unit_sales", "subscription"} /\ contribution > 0
                             THEN Ceiling(fixed[Months], contribution * Parts) ELSE None,
        runway_months |-> IF p.cash = None THEN None ELSE Runway(p.cash, net)]

(* Twenty percent less and more on the price and on the volume.             *)
Scenario(p) == [cheaper |-> Core(p, 8, 10), dearer |-> Core(p, 12, 10),
                fewer |-> Core(p, 10, 8), more |-> Core(p, 10, 12)]

Calculate(p) == [calc |-> Core(p, 10, 10), sensitivity |-> Scenario(p)]

-----------------------------------------------------------------------------
(* The table the Office draws, in whole units, and what every financial     *)
(* table is held to: its months and its total row fit the calculation.     *)
Whole(cents) == RoundDiv(cents, 100)
Distance(a, b) == IF a >= b THEN a - b ELSE b - a

Agrees(stated, expected, per10000, absolute) ==
    10000 * Distance(stated, expected) <= Larger(10000 * absolute, per10000 * Distance(expected, 0))

Column(schedule, total) == [months |-> [m \in Period |-> Whole(schedule[m])], total |-> Whole(total)]
ScheduleTable(c) ==
    [revenue |-> Column(c.revenue, c.year_revenue), costs |-> Column(c.costs, c.year_costs),
     net |-> Column(c.net, c.net_total), cumulative |-> Column(c.cumulative, c.cumulative[Months])]

MonthsFit(column, schedule) == \A m \in Period : Agrees(100 * column.months[m], schedule[m], 5, 100)
TotalFits(column, expected) == Agrees(100 * column.total, expected, 5, 100)

-----------------------------------------------------------------------------
FinanceInit == proposal \in Proposals /\ figures = {}

Calculates ==
    /\ figures = {}
    /\ figures' = {Calculate(proposal)}
    /\ UNCHANGED proposal

FinanceNext == Calculates

-----------------------------------------------------------------------------
(* A schedule keeps its exact total, rounded once, and no month is a cent   *)
(* or more away from its exact value.                                      *)
Spreads(schedule, exact) ==
    /\ Total(schedule) = Cents(Total(exact))
    /\ \A m \in Period : Distance(Parts * schedule[m], exact[m]) < Parts

SpreadsExactly(p, c) ==
    LET variable == Variable(p, c.customers, 10) IN
    /\ Spreads(c.one_time, OneTime(p))
    /\ Spreads(c.fixed, Fixed(p))
    /\ Spreads(c.variable, variable)
    /\ Spreads(c.costs, [m \in Period |-> OneTime(p)[m] + Fixed(p)[m] + variable[m]])

(* The totals are the sums of what the months show.                         *)
TotalsAgree(c) ==
    /\ c.net_total = Total(c.net)
    /\ c.net_total = c.cumulative[Months]
    /\ \A m \in Period : c.cumulative[m] = Total([n \in 1..m |-> c.revenue[n] - c.costs[n]])

(* The break-even month is the first one whose cumulative cash is not       *)
(* negative; and in a month the recurring costs are covered exactly when as  *)
(* many customers pay, or units are sold, as the break-even count says.      *)
BreaksEven(p, c) ==
    /\ p.kind # "costs_only" =>
           c.break_even_month = FirstMonth({m \in Period : c.cumulative[m] >= 0})
    /\ c.break_even_count # None /\ p.trial = 0 =>
           LET count == IF p.kind = "unit_sales" THEN p.volume ELSE c.paying
               enough == count[Months] > 0 /\ count[Months] >= c.break_even_count
           IN /\ enough => c.operating_break_even_month # None
              /\ c.operating_break_even_month = Months => enough

(* The runway ends with the last month that is still paid.                  *)
RunsOut(p, c) ==
    p.cash # None =>
        LET balance == [m \in Period |-> p.cash + c.cumulative[m]] IN
        IF c.runway_months = None THEN \A m \in Period : balance[m] >= 0
        ELSE /\ \A m \in 1..c.runway_months : balance[m] >= 0
             /\ balance[c.runway_months + 1] < 0

(* A higher price never means less revenue, a worse result or a later       *)
(* break-even; more customers or units never mean less revenue.             *)
NoLater(a, b) == b.break_even_month = None \/ (a.break_even_month # None /\ a.break_even_month <= b.break_even_month)
ScenariosAreOrdered(c, s) ==
    /\ s.cheaper.year_revenue <= c.year_revenue /\ c.year_revenue <= s.dearer.year_revenue
    /\ s.cheaper.net_total <= c.net_total /\ c.net_total <= s.dearer.net_total
    /\ NoLater(c, s.cheaper) /\ NoLater(s.dearer, c)
    /\ s.fewer.year_revenue <= c.year_revenue /\ c.year_revenue <= s.more.year_revenue

(* The table drawn from the calculation fits it.  (That its Total row is also *)
(* the sum of its rows is not so: the rows are rounded one by one.)          *)
OwnTableFits(c) ==
    LET t == ScheduleTable(c) IN
    /\ MonthsFit(t.revenue, c.revenue) /\ TotalFits(t.revenue, c.year_revenue)
    /\ MonthsFit(t.costs, c.costs) /\ TotalFits(t.costs, c.year_costs)
    /\ MonthsFit(t.net, c.net) /\ TotalFits(t.net, c.net_total)
    /\ MonthsFit(t.cumulative, c.cumulative) /\ TotalFits(t.cumulative, c.net_total)

(* What FINANCE's model shows is consistent in itself and with its inputs.  *)
FiguresAddUp ==
    \A f \in figures :
        /\ SpreadsExactly(proposal, f.calc)
        /\ TotalsAgree(f.calc)
        /\ BreaksEven(proposal, f.calc)
        /\ RunsOut(proposal, f.calc)
        /\ ScenariosAreOrdered(f.calc, f.sensitivity)
        /\ OwnTableFits(f.calc)
=============================================================================

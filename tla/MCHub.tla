-------------------------------- MODULE MCHub --------------------------------
(***************************************************************************)
(* Parts of the Office and the Hub that share no state, each alone, in one   *)
(* run of TLC: the initial state picks the part that moves, and the others   *)
(* stay as they are.  The workflow is the one of MCRecovery with no owner.   *)
(***************************************************************************)
EXTENDS MCRecovery, OpsWatch, DeliverablesPages, FiniteSetsExt

VARIABLE part

(* A project of seven objectives, five of them written when the tab opens,   *)
(* two pairs of them at the same instant.                                   *)
BoardInstants == <<1, 2, 2, 3, 3, 4, 5>>
BoardTests    == {2}
BoardLoose    == {1, 3}

(* FINANCE's model over four months: cost lines, and every kind of revenue    *)
(* with prices that do not divide evenly.                                   *)
VARIABLES proposal, figures

financeVars == <<proposal, figures>>

Line(month, once, monthly, annual, weekly) ==
    [month |-> month, once |-> once, monthly |-> monthly, annual |-> annual, weekly |-> weekly]
CostLines ==
    {{Line(1, 700, 125, a, w), Line(3, 0, 0, 500, 25)} : a \in {0, 1300}, w \in {0, 25}}
    \cup {{Line(2, 0, 0, 1300, 0)}}

NoRevenue == [kind |-> "costs_only", volume |-> [m \in 1..4 |-> 0], price |-> 0, unitCost |-> 0,
              starting |-> 0, churn |-> 0, trial |-> 0]
Schedules     == {[NoRevenue EXCEPT !.kind = "explicit_schedule", !.volume = v] :
                    v \in [1..4 -> {0, 150, 1000}]}
UnitSales     == {[NoRevenue EXCEPT !.kind = "unit_sales", !.volume = v, !.price = 199, !.unitCost = c] :
                    v \in [1..4 -> {1, 3}], c \in {0, 61}}
Subscriptions == {[NoRevenue EXCEPT !.kind = "subscription", !.volume = v, !.price = 250,
                                    !.unitCost = 31, !.starting = s, !.churn = c, !.trial = t] :
                    v \in [1..4 -> {0, 3}], s \in {0, 3}, c \in {0, 50}, t \in {0, 1}}
FinanceProposals ==
    {[items |-> i, cash |-> c] @@ r : i \in CostLines, c \in {0 - 1, 900},
        r \in {NoRevenue} \cup Schedules \cup UnitSales \cup Subscriptions}

Finance == INSTANCE FinanceModel WITH Months <- 4, Proposals <- FinanceProposals
OneProposal == [items |-> {}, cash |-> 0 - 1] @@ NoRevenue

-----------------------------------------------------------------------------
Parts == {"workflow", "pages", "paid calls", "rows", "finance"}

all == <<part, vars, pageVars, watchVars, financeVars>>

HubInit ==
    /\ part \in Parts
    /\ Init
    /\ PagesInit
    /\ WatchInit
    /\ IF part = "finance" THEN Finance!FinanceInit ELSE proposal = OneProposal /\ figures = {}

Moves(p, rest) == part = p /\ UNCHANGED <<part, rest>>

(* The runs of all steps together that failed or were deferred are bounded.  *)
MaxMishaps == 4
Mishaps == MapThenSumSet(LAMBDA t : Cardinality(failed[t]) + Cardinality(deferred[t]), Tasks)

WorkMoves  ==
    Moves("workflow", <<pageVars, watchVars, financeVars>>) /\ Next /\ Mishaps' <= MaxMishaps
PagesMoves == Moves("pages", <<vars, watchVars, financeVars>>) /\ PagesNext

(* The watches with paid calls, on a table that does not change and of which  *)
(* no snapshot could be stored; and with a table of rows, without calls.     *)
CallMoves  ==
    /\ Moves("paid calls", <<vars, pageVars, financeVars>>)
    /\ WatchNext
    /\ UNCHANGED <<rows, cleanups, snaps>>
RowMoves   == Moves("rows", <<vars, pageVars, financeVars>>) /\ WatchNext /\ UNCHANGED call
Calculates == Moves("finance", <<vars, pageVars, watchVars>>) /\ Finance!FinanceNext

HubNext == WorkMoves \/ PagesMoves \/ CallMoves \/ RowMoves \/ Calculates

HubSpec == HubInit /\ [][HubNext]_all

-----------------------------------------------------------------------------
FiguresAddUp == part = "finance" => Finance!FiguresAddUp
=============================================================================

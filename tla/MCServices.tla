----------------------------- MODULE MCServices -----------------------------
(***************************************************************************)
(* The services around the queue that do not share state with each other,   *)
(* each alone, in one run of TLC: the initial state picks the part that      *)
(* moves, and the others stay as they are.                                 *)
(***************************************************************************)
EXTENDS AgentRun, StageWork, ChannelBridge, TLC

VARIABLE part

Nobody == {}

(* One objective with a planner that may answer differently when it is      *)
(* asked again: the two workstreams, another first workstream, or nothing    *)
(* more; and no owner.                                                      *)
VARIABLES job, steps, attempts, maxAttempts, waits, postponed, open, failed, deferred, results,
          finals, handoffs, booting, exec, tab, clicks

planVars == <<job, steps, attempts, maxAttempts, waits, postponed, open, failed, deferred,
              results, finals, handoffs, booting, exec, tab, clicks>>

PlanTasks    == {"plan", "w1", "w2", "v1", "synthesis"}
PlanDeps     == [plan |-> {}, w1 |-> {"plan"}, w2 |-> {"plan"}, v1 |-> {"plan"},
                 synthesis |-> {"w1", "w2"}]
PlanSequence == [plan |-> 10, w1 |-> 100, w2 |-> 101, v1 |-> 100, synthesis |-> 900]
PlanBatches  == [t \in PlanTasks |->
                   IF t = "plan" THEN {{"w1", "w2", "synthesis"}, {"v1"}, {}} ELSE {{}}]

Plan == INSTANCE ObjectiveRecovery WITH
    Tasks <- PlanTasks, Deps <- PlanDeps, Sequence <- PlanSequence, Batches <- PlanBatches,
    Root <- "plan", MaxAttempts <- 2, MaxWaits <- 1, Slots <- 2, LostHeartbeats <- FALSE,
    Tabs <- Nobody, OwnerActions <- Nobody, MaxClicks <- 0, status <- steps,
    waiting <- postponed

(* The budget of a workspace, used by anybody; and one run of the model     *)
(* runner, which uses it.                                                   *)
VARIABLES spent, reserved, period, over, hold, amount, actual, settledIn
VARIABLES health, cooling, row, code, run, unbilled, faults

moneyVars  == <<spent, reserved, period, over, hold, amount, actual, settledIn>>
runnerVars == <<health, cooling, row, code, run, unbilled, faults>>

MoneyKeys == {"k1", "k2", "k3"}
SmallAndLarge == {1, 2}
MoneyCosts == {0, 1, 3}

Money == INSTANCE WorkspaceBudget WITH
    Keys <- MoneyKeys, Monthly <- 3, MaxRequest <- 2, Amounts <- SmallAndLarge,
    Costs <- MoneyCosts, Months <- 2

(* Two free routes behind one key, one of them fit only for the relaxed      *)
(* job, and a paid one; the failures never stop.                            *)
RunnerKeys == {"p"} \X (1..9) \X {"turn", "incident"}
RouteOrder == <<"a", "b", "c">>
PaidRoutes == {"c"}
FitRoutes  == {"a", "c"}
AllRoutes  == {"a", "b", "c"}
Credential == [a |-> "key", b |-> "key", c |-> "c"]
SharedPool == {"key"}
OnlyRun    == {"p"}
Failures   == {"day", "transient"}
Free       == {0}

Runner == INSTANCE TurnGateway WITH
    Keys <- RunnerKeys, Monthly <- 5, MaxRequest <- 2, Amounts <- SmallAndLarge,
    Costs <- Free, Months <- 0,
    Runs <- OnlyRun, Order <- RouteOrder, Paid <- PaidRoutes, Fit <- FitRoutes,
    RelaxedFit <- AllRoutes, PoolOf <- Credential, Shared <- SharedPool, SecretOf <- Credential,
    PaidAllowed <- OnlyRun, Legacy <- Nobody,
    Tolerant <- OnlyRun, Estimate <- 2, Kinds <- Failures,
    MaxTurns <- 2, MaxEscalations <- 0, Attempts <- 2, MaxFaults <- 1, Endless <- TRUE,
    Mistakes <- FALSE

(* The Telegram channel.                                                    *)
HubJob    == {100}
Question  == {200}

(* Two messages in a minute for which one is allowed and nothing of the Hub;   *)
(* or one message, an objective of the Hub and a question.                  *)
OnlyChat == ToSet(finished') \subseteq ChatJobs /\ waiting' = <<>>
OneMessage == written' <= 1

(* What the steps of an objective do: two figures, one of them right for      *)
(* FINANCE's assumptions, texts that state either where each check looks.      *)
TwoFigures == 1..2
Wrote(calc, says, wants) == [calc |-> calc, says |-> says, findings |-> {}, asks |-> wants]
Texts ==
    [finance |-> {Wrote(1, {<<"line", 1>>}, "no"), Wrote(1, {<<"claim", 2>>}, "no"),
                  Wrote(0, {<<"loose", 1>>}, "consult")},
     product |-> {Wrote(0, {}, "no"), Wrote(0, {<<"table", 2>>}, "no")},
     audit |-> {Wrote(0, {<<"table", 2>>}, "no")},
     chief |-> {Wrote(0, {<<"line", 1>>, <<"loose", 2>>}, "no"),
                  Wrote(0, {<<"claim", 2>>, <<"table", 1>>}, "no"),
                  Wrote(0, {<<"line", 2>>}, "finance"), Wrote(0, {<<"line", 2>>}, "audit"),
                  Wrote(0, {<<"line", 2>>, <<"loose", 1>>}, "malformed")},
     research |-> {Wrote(0, {}, "no")},
     consult |-> {Wrote(0, {}, "no")}]
StageKinds  == {"project", "direct"}
StageDrills == {"none", "before", "after"}

(* A Coding Agent session whose turns read and fail, change a protected file, *)
(* finish and go on to ask the owner, or ask for leave and finish.            *)
SessionTurns == {<<"read", "bad">>, <<"shell", "finish", "ask">>, <<"grant", "finish">>}
OnGitHub     == {"merge"}

-----------------------------------------------------------------------------
Parts == {"plan", "money", "runner", "chat", "channel", "stages", "session"}

all == <<part, planVars, moneyVars, runnerVars, bridge, stageVars, agentVars>>

Init ==
    /\ part \in Parts
    /\ Plan!Init
    /\ IF part = "money" THEN Money!BudgetInit ELSE Runner!BudgetInit
    /\ Runner!OthersInit
    /\ BridgeInit
    /\ StageInit
    /\ part # "stages" => kind = "project" /\ drill = "none"
    /\ drill = "before" => kind = "direct"
    /\ AgentInit
    /\ part # "session" => publish = "merge"

Moves(p, rest) == part = p /\ UNCHANGED <<part, rest>>

PlanMoves    == Moves("plan", <<moneyVars, runnerVars, bridge, stageVars, agentVars>>) /\ Plan!Next
MoneyMoves   == Moves("money", <<planVars, runnerVars, bridge, stageVars, agentVars>>) /\ Money!BudgetNext
RunnerMoves  == Moves("runner", <<planVars, bridge, stageVars, agentVars>>) /\ Runner!Next
ChatMoves    == Moves("chat", <<planVars, moneyVars, runnerVars, stageVars, agentVars>>) /\ BridgeNext /\ OnlyChat
ChannelMoves == Moves("channel", <<planVars, moneyVars, runnerVars, stageVars, agentVars>>) /\ BridgeNext /\ OneMessage
StepMoves    == Moves("stages", <<planVars, moneyVars, runnerVars, bridge, agentVars>>) /\ StageNext
SessionMoves == Moves("session", <<planVars, moneyVars, runnerVars, bridge, stageVars>>) /\ AgentNext

Next == PlanMoves \/ MoneyMoves \/ RunnerMoves \/ ChatMoves \/ ChannelMoves \/ StepMoves
          \/ SessionMoves

(* The fairness of ObjectiveRecovery; and the run is scheduled, its calls    *)
(* are answered.                                                            *)
PlanOnly == Moves("plan", <<moneyVars, runnerVars, bridge, stageVars, agentVars>>) /\ UNCHANGED <<tab, clicks>>

Spec ==
    /\ Init /\ [][Next]_all
    /\ \A t \in PlanTasks :
        /\ WF_all(PlanOnly /\ Plan!Start(t))
        /\ WF_all(PlanOnly /\ Plan!Recover(t))
        /\ WF_all(PlanOnly /\ Plan!Elapse(t))
        /\ WF_all(PlanOnly /\ \E e \in exec : e.task = t /\ Plan!ExecutorStep(e))
    /\ WF_all(Moves("runner", <<planVars, bridge, stageVars, agentVars>>) /\ Runner!Step("p"))
    /\ WF_all(Moves("stages", <<planVars, moneyVars, runnerVars, bridge, agentVars>>) /\ StageStep)

-----------------------------------------------------------------------------
TypesOK ==
    /\ part \in Parts
    /\ part = "plan" => Plan!TypeOK
    /\ part = "money" => Money!BudgetTypeOK
    /\ part = "runner" => Runner!TypeOK
    /\ BridgeTypeOK
    /\ StageTypeOK
    /\ AgentTypeOK

(* The properties of the parts: each is explained where it is defined.      *)
HandoffPerEdge ==
    /\ TypesOK
    /\ part = "plan" => Plan!HandoffPerEdge

ImplementsAccount ==
    /\ part = "money" => Money!Ledger!AccountInit
    /\ [][part = "money" => Money!Ledger!AccountNext \/ UNCHANGED Money!Ledger!account]_all

(* What has begun ends: an objective whose first step exists is answered or  *)
(* failed (complete_task, fail_task), a run of the model runner answers or    *)
(* gives up (turn-gateway.js:340), and the steps of an objective end.         *)
Finishes ==
    (part = "plan" => job = "running" /\ Plan!Created # {})
        ~> (/\ part = "plan" => job # "running"
            /\ part = "runner" => run["p"].pc \in Runner!Ends
            /\ part = "stages" => StageEnded)
=============================================================================

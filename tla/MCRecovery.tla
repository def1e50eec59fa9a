----------------------------- MODULE MCRecovery -----------------------------
(***************************************************************************)
(* Small workflows for TLC.                                                *)
(***************************************************************************)
EXTENDS ObjectiveViews, TLC

NoBatch == {{}}

(* The single-specialist workflow: planning, research, final review.        *)
ChainTasks    == {"plan", "research", "review"}
ChainDeps     == [plan |-> {}, research |-> {"plan"}, review |-> {"research"}]
ChainSequence == [plan |-> 10, research |-> 20, review |-> 30]
ChainBatches  == [plan |-> {{"research", "review"}}, research |-> NoBatch, review |-> NoBatch]

ChainKind     == [plan |-> "plan", research |-> "workstream", review |-> "synthesis"]
ChainEmployee == [plan |-> "chief", research |-> "research", review |-> "chief"]

(* Two parallel workstreams and the Chief's synthesis.                      *)
FanTasks    == {"plan", "w1", "w2", "synthesis"}
FanDeps     == [plan |-> {}, w1 |-> {"plan"}, w2 |-> {"plan"}, synthesis |-> {"w1", "w2"}]
FanSequence == [plan |-> 10, w1 |-> 100, w2 |-> 101, synthesis |-> 900]
FanBatches  == [plan |-> {{"w1", "w2", "synthesis"}}, w1 |-> NoBatch, w2 |-> NoBatch,
                synthesis |-> NoBatch]

(* The same with a synthesis that asks for a revision of the first one.     *)
RevisionTasks    == FanTasks \cup {"revision", "final"}
RevisionDeps     == FanDeps @@ [revision |-> {"w1", "synthesis"}, final |-> {"revision", "w2"}]
RevisionSequence == FanSequence @@ [revision |-> 500, final |-> 950]
RevisionBatches  == [FanBatches EXCEPT !["synthesis"] = {{"revision", "final"}}]
                    @@ [revision |-> NoBatch, final |-> NoBatch]
RevisionKind     == [plan |-> "plan", w1 |-> "workstream", w2 |-> "workstream",
                     synthesis |-> "synthesis", revision |-> "revision", final |-> "synthesis"]
RevisionEmployee == [plan |-> "chief", w1 |-> "product", w2 |-> "finance",
                     synthesis |-> "chief", revision |-> "product", final |-> "chief"]
=============================================================================

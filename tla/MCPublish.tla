----------------------------- MODULE MCPublish -----------------------------
(***************************************************************************)
(* A Coding Agent session from two sides, each alone: "carried", the rows   *)
(* and calls of CodingAgent with one worker, where every tool call may fail; *)
(* and AgentRun, of a session that reads and talks ("talks") and of one that *)
(* changes a protected file and ships what it did ("ships").                *)
(***************************************************************************)
EXTENDS MCAgent

VARIABLES side, status, publish, mem, saved, files, leave, unread, taken, dropped, published,
          resumes, crashes

agentVars == <<status, publish, mem, saved, files, leave, unread, taken, dropped, published,
               resumes, crashes>>

TalkTurns == {<<"read">>, <<"read", "ask">>, <<"bad">>}
ShipTurns == {<<"shell", "finish">>, <<"grant", "finish", "edit">>}
Nowhere   == {"none"}
OnGitHub  == {"branch", "merge"}

Talks == INSTANCE AgentRun WITH
    tree <- files, Turns <- TalkTurns, Publishes <- Nowhere, MaxTurns <- 4, MaxText <- 2,
    MaxErrors <- 2, MaxGate <- 2, MaxCi <- 1, MaxPolls <- 0, MaxWaits <- 1, Expected <- 3,
    KeepRecent <- 1, Batch <- 1, CompactAt <- 2, MaxReplies <- 1, MaxResumes <- 0, MaxCrashes <- 1

Ships == INSTANCE AgentRun WITH
    tree <- files, Turns <- ShipTurns, Publishes <- OnGitHub, MaxTurns <- 3, MaxText <- 2,
    MaxErrors <- 2, MaxGate <- 2, MaxCi <- 1, MaxPolls <- 1, MaxWaits <- 0, Expected <- 4,
    KeepRecent <- 1, Batch <- 1, CompactAt <- 2, MaxReplies <- 0, MaxResumes <- 1, MaxCrashes <- 1

-----------------------------------------------------------------------------
all == <<side, vars, agentVars>>

Carried == side = "carried" /\ UNCHANGED <<side, agentVars>>
Run(s)  == side = s /\ UNCHANGED <<side, vars>>

MCInit ==
    /\ side \in {"carried", "talks", "ships"}
    /\ Init
    /\ IF side = "ships" THEN Ships!AgentInit ELSE Talks!AgentInit

MCNext ==
    \/ Carried /\ Next
    \/ Run("talks") /\ Talks!AgentNext
    \/ Run("ships") /\ Ships!AgentNext

(* A worker goes on, ciTimeoutMs ends the wait for CI, and a lease nobody    *)
(* renews runs out; the model, the tools and GitHub answer.                  *)
AgentStep == (Run("talks") /\ Talks!AgentStep) \/ (Run("ships") /\ Ships!AgentStep)

MCSpec ==
    /\ MCInit /\ [][MCNext]_all
    /\ \A w \in Workers : WF_all(Carried /\ Step(w)) /\ SF_all(Carried /\ CiEnds(w))
    /\ WF_all(Carried /\ LeaseExpires)
    /\ WF_all(AgentStep)

-----------------------------------------------------------------------------
(* A session somebody may work on comes to rest: it ends, or waits for the    *)
(* owner, whatever fails, is refused, stays pending or is asked again (the    *)
(* limits of controller.js:27-54 and the blockers of stop()).               *)
SessionsRest ==
    (side = "carried" => Open)
        ~> (/\ side = "carried" => ~Open
            /\ side = "talks" => Talks!AgentRests
            /\ side = "ships" => Ships!AgentRests)
=============================================================================

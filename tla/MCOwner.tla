------------------------------- MODULE MCOwner -------------------------------
(***************************************************************************)
(* What the owner sets in motion: stops and resumes of an objective (the     *)
(* workflow of MCRecovery), the tab in which he follows it, and the canary    *)
(* that qualifies routes beside the background.  They share no state: the     *)
(* initial state picks the part that moves, and the others stay as they are. *)
(***************************************************************************)
EXTENDS MCRecovery, LiveScreen

VARIABLE part

(* A tab of the Hub that opens the page of a job and then Home, with a stop    *)
(* and a resume, and with one thing that goes wrong.                        *)
JobThenHome == <<"job", "home">>

(* Two free routes of different providers, one of which may be called for     *)
(* one route in a day.  Three rows can be written and two are read, so that   *)
(* results and failures are pushed out of the read before they are too old.  *)
VARIABLES now, rows, cache, lapsed, reading, cycle, daily, nextAt, known, probes, events

qualifierVars == <<now, rows, cache, lapsed, reading, cycle, daily, nextAt, known, probes, events>>

FreeRoutes    == <<"r1", "r2">>
RouteProvider == [r1 |-> "or", r2 |-> "g"]
RoutesInADay  == [or |-> 1, g |-> 9]

Evidence == INSTANCE Qualifier WITH
    Order <- FreeRoutes, ProviderOf <- RouteProvider, Caps <- RoutesInADay, PerProvider <- 2,
    MaxRoutes <- 2, MaxCodingRoutes <- 1, RowLimit <- 2, Transient <- 1, Permanent <- 2,
    MaxRest <- 3, RetireAfter <- 2, MaxAge <- 5, Interval <- 2, BacklogInterval <- 1, Day <- 2,
    Horizon <- 6, MaxProbes <- 3, MaxEvents <- 1

-----------------------------------------------------------------------------
Parts == {"objective", "screen", "evidence"}

all == <<part, vars, liveVars, qualifierVars>>

OwnerInit ==
    /\ part \in Parts
    /\ Init
    /\ LiveInit
    /\ Evidence!QualifierInit

Part(p, rest) == part = p /\ UNCHANGED <<part, rest>>

Works     == Part("objective", <<liveVars, qualifierVars>>) /\ Next
TabMoves  == Part("screen", <<vars, qualifierVars>>) /\ LiveNext
Qualifies == Part("evidence", <<vars, liveVars>>) /\ Evidence!QualifierNext

OwnerNext == Works \/ TabMoves \/ Qualifies

OwnerSpec == OwnerInit /\ [][OwnerNext]_all

-----------------------------------------------------------------------------
(* The properties of the parts: each is explained where it is defined.      *)
EvidenceDecides == part = "evidence" => Evidence!QualifierTypeOK /\ Evidence!EvidenceDecides

DeadRoutesRest == [][part = "evidence" => Evidence!DeadRoutesRest]_all
=============================================================================

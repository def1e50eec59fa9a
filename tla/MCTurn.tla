------------------------------- MODULE MCTurn -------------------------------
(***************************************************************************)
(* The two ways to a model, over one workspace budget: two runs of the     *)
(* model runner, one of a workspace and one of a job without, over a free  *)
(* route and a paid one (the second free route does not fit their jobs),   *)
(* or two requests of the model gateway over two providers.                *)
(***************************************************************************)
EXTENDS TurnGateway, ModelGateway

CONSTANTS p1, p2

VARIABLE path    \* "pool": with a model pool; "gateway": without

Pools   == [a |-> "key", b |-> "key", c |-> "c", none |-> "none"]
Secrets == [a |-> "key", b |-> "key", c |-> "c", none |-> "none"]

CallKeys == {p1, p2} \X (1..4) \X {"turn", "incident"}
OneRunKeys == {p1} \X (1..9) \X {"turn", "incident"}
Requests == {p1, p2} \X {1} \X {"turn"}

FreeFirst == <<"a", "c">>
TwoFree   == <<"a", "b", "c">>
Backed    == <<"anthropic", "openai">>

-----------------------------------------------------------------------------
pool == <<status, run, unbilled, faults>>
requests == <<gateway, request, paid, troubles>>
all  == <<path, budget, pool, requests>>

MCInit ==
    /\ path \in {"pool", "gateway"}
    /\ Init
    /\ GatewayInit

MCNext ==
    \/ path = "pool" /\ Next /\ UNCHANGED <<path, requests>>
    \/ path = "gateway" /\ LegacyNext /\ UNCHANGED <<path, pool>>

MCSpec == MCInit /\ [][MCNext]_all

(* Reservations are owned, whichever way a model is reached: in a run of a   *)
(* workspace by a call that is still to be settled (TurnGateway,            *)
(* office/pool-runner.js:205-226), and for what all attempts of a request    *)
(* billed (ModelGateway).                                                   *)
HoldsAreOwned == IF path = "pool" THEN HoldsMatchCalls ELSE ChargesWhatWasBilled
=============================================================================

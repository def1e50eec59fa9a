---------------------------- MODULE ProviderState ----------------------------
(***************************************************************************)
(* What one failed call means for its route (provider-state.js), and which  *)
(* routes rest because of what another route reported (capacity-pools.js,   *)
(* turn-gateway.js).  A failure is its kind, after the classification of    *)
(* contracts.js, and the wait the provider named: a number of seconds, or   *)
(* Unnamed.  A cooldown of 0 is null.                                       *)
(***************************************************************************)
EXTENDS Integers

Unnamed == -1

Minute == 60
Hour   == 60 * Minute
Day    == 24 * Hour

Healths == {"healthy", "degraded", "rate_limited", "quota_exhausted", "unavailable",
            "auth_error"}

(* "account": only a human can fix it; "auth": any other refused credential; *)
(* "day", "minute" and "rate": a 429 for the day, the minute, or neither;    *)
(* "capacity": 402; "route": the model cannot serve; "billed" and           *)
(* "mismatch": a free route that was not honest; "transient": 5xx, network;  *)
(* "timeout": the same, but the request itself ran out of time; "drill":    *)
(* injected by a failover drill; "request": a refusal about one request.     *)
(* A write of ours that fails after the answer has a kind too.              *)
FailureKinds == {"account", "auth", "day", "minute", "rate", "capacity", "route", "invalid",
                 "billed", "mismatch", "transient", "timeout", "drill", "request"}

LesserOf(a, b)  == IF a <= b THEN a ELSE b
GreaterOf(a, b) == IF a >= b THEN a ELSE b
Clamped(n, low, high) == LesserOf(high, GreaterOf(low, n))

(* One minute, doubled n times, up to a limit; 2 ** 10 minutes exceed every  *)
(* limit in use.                                                            *)
Doubling(n, limit) == LesserOf(limit, Minute * 2 ^ LesserOf(10, n))

MinuteRest(wait, n) ==
    LET window == Clamped(IF wait = Unnamed THEN Minute ELSE wait, 1, Minute + 5)
    IN IF n >= 6 THEN GreaterOf(window, Doubling(n - 6, 10 * Minute)) ELSE window

RateRest(wait, n) ==
    IF wait = Unnamed THEN Doubling(n - 1, 30 * Minute)
    ELSE LET named == Clamped(wait, 1, 6 * Hour)
         IN IF n >= 3 /\ wait < 10 THEN GreaterOf(named, Doubling(n - 3, 30 * Minute)) ELSE named

(* quotaCooldownUntil: the provider's published schedule (reset, in seconds  *)
(* from now; 0 if it has none) before the wait it named.                     *)
QuotaRest(reset, wait) == IF reset > 0 THEN reset ELSE IF wait > 0 THEN wait ELSE Hour

(* failureOutcome, for the n-th failure in a row of a route that was in      *)
(* the given health.                                                        *)
FailureOutcome(kind, wait, reset, health, n) ==
    CASE kind = "account"  -> [health |-> "auth_error", rest |-> Day]
      [] kind = "auth"     -> [health |-> "auth_error", rest |-> 6 * Hour]
      [] kind \in {"mismatch", "billed"} -> [health |-> "unavailable", rest |-> Day]
      [] kind = "day"      -> [health |-> "quota_exhausted", rest |-> QuotaRest(reset, wait)]
      [] kind = "route"    -> [health |-> "unavailable", rest |-> 6 * Hour]
      [] kind = "invalid" /\ n >= 3 ->
             [health |-> "unavailable", rest |-> IF n >= 9 THEN Day ELSE 6 * Hour]
      [] kind = "capacity" -> [health |-> "quota_exhausted",
                               rest |-> IF reset > 0 THEN reset ELSE Hour]
      [] kind = "minute"   -> [health |-> "rate_limited", rest |-> MinuteRest(wait, n)]
      [] kind = "rate"     -> [health |-> "rate_limited", rest |-> RateRest(wait, n)]
      [] kind \in {"transient", "timeout"} ->
             IF n >= 2 THEN [health |-> "unavailable", rest |-> Doubling(n - 2, 30 * Minute)]
                       ELSE [health |-> "degraded", rest |-> Minute]
      [] OTHER -> [health |-> health, rest |-> 0]

(* turn-gateway.js: the same route is asked again, after a wait of at most   *)
(* 20 seconds, only for a failure that seconds can cure.                     *)
RetriesHere(kind, wait, attempt, attempts) ==
    /\ kind \in {"minute", "rate", "transient", "drill"}
    /\ kind = "minute" => wait # Unnamed
    /\ attempt < attempts
    /\ (IF wait = Unnamed THEN attempt ELSE wait) <= 20

=============================================================================

------------------------------- MODULE Account -------------------------------
(***************************************************************************)
(* What a workspace budget promises its callers, without the counters of   *)
(* the policy row: money is set aside before it is spent, under a key that *)
(* is charged at most once; nothing is set aside beyond the limit of the   *)
(* month; and a new month forgets what was spent, not what is set aside.   *)
(* An amount is a set of units <<key, 1>> ... <<key, n>>.                  *)
(***************************************************************************)
EXTENDS Naturals, FiniteSets

CONSTANTS
    Keys,       \* the idempotency keys callers may use
    Monthly,    \* the limit of one month
    Amounts,    \* what may be set aside at once
    Costs       \* what one call may cost

VARIABLES
    held,       \* units set aside and not charged yet
    charged,    \* units charged in this month
    used        \* keys that money was ever set aside for

account == <<held, charged, used>>

AccountInit == held = {} /\ charged = {} /\ used = {}

HoldUnits(k, n) ==
    /\ k \notin used
    /\ Cardinality(held) + Cardinality(charged) + n <= Monthly
    /\ held' = held \cup ({k} \X (1..n))
    /\ used' = used \cup {k}
    /\ UNCHANGED charged

ChargeUnits(k, n) ==
    /\ \E u \in held : u[1] = k
    /\ held' = {u \in held : u[1] # k}
    /\ charged' = charged \cup ({k} \X (1..n))
    /\ UNCHANGED used

NewMonth ==
    /\ charged' = {}
    /\ UNCHANGED <<held, used>>

AccountNext ==
    \/ \E k \in Keys, n \in Amounts : HoldUnits(k, n)
    \/ \E k \in Keys, c \in Costs : ChargeUnits(k, c)
    \/ NewMonth

AccountSpec == AccountInit /\ [][AccountNext]_account
=============================================================================

----------------------------- MODULE GatewayProofs -----------------------------
(***************************************************************************)
(* The workspace budget and the two ways to a model over it, for any number *)
(* of runs, requests, routes, providers and turns: the counters of the      *)
(* policy row are the sums over its reservations and stay in the limit,     *)
(* every reservation belongs to a call that is still to be settled, is      *)
(* settled at what was billed, and a route that takes over starts from a    *)
(* checkpoint.                                                             *)
(***************************************************************************)
EXTENDS MCTurn, FiniteSetTheorems, WellFoundedInduction, TLAPS

(* The budget.  A sum is the cardinality of a set of units, and every        *)
(* operation adds or removes the units of one key.                          *)

(* The inductive invariant: beside the counters, an open reservation has an *)
(* amount that callers ask for, what is set aside alone stays in the limit  *)
(* (a new month starts from it), and nothing was settled in a later month.  *)
BudgetIInv ==
    /\ BudgetTypeOK
    /\ IsFiniteSet(Outstanding) /\ IsFiniteSet(Billed)
    /\ CountersAgree
    /\ WithinLimit
    /\ reserved <= Monthly
    /\ \A k \in Keys : hold[k] = "reserved" => amount[k] \in Amounts
    /\ \A k \in Keys : hold[k] = "settled" => settledIn[k] <= period

-----------------------------------------------------------------------------
(* n units of a key are n.                                                  *)
LEMMA UnitsCounted ==
    ASSUME NEW k, NEW n \in Nat
    PROVE  IsFiniteSet(Units(k, n)) /\ Cardinality(Units(k, n)) = n
<1>1. IsFiniteSet({k}) /\ Cardinality({k}) = 1
  BY FS_Singleton
<1>2. IsFiniteSet(1..n) /\ Cardinality(1..n) = n
  BY FS_Interval
<1>3. IsFiniteSet({k} \X (1..n)) /\ Cardinality({k} \X (1..n)) = 1 * n
  BY <1>1, <1>2, FS_Product
<1> QED
  BY <1>3 DEF Units

(* A unit belongs to one key.                                               *)
LEMMA UnitsMembers ==
    ASSUME NEW k, NEW n \in Nat, NEW u \in Units(k, n)
    PROVE  u[1] = k /\ u[2] \in 1..n /\ u = <<k, u[2]>>
BY DEF Units

LEMMA UnitIn ==
    ASSUME NEW k, NEW n \in Nat, NEW i \in 1..n
    PROVE  <<k, i>> \in Units(k, n)
BY DEF Units

(* What two amounts of one key differ by.                                   *)
LEMMA UnitsBeyond ==
    ASSUME NEW k, NEW a \in Nat, NEW c \in Nat
    PROVE  LET beyond == {u \in Units(k, c) : u[2] > a}
           IN /\ IsFiniteSet(beyond)
              /\ Cardinality(beyond) \in Nat
              /\ Cardinality(beyond) >= c - a
<1> DEFINE beyond == {u \in Units(k, c) : u[2] > a}
<1>1. IsFiniteSet(Units(k, c)) /\ Cardinality(Units(k, c)) = c
  BY UnitsCounted
<1>2. IsFiniteSet(Units(k, a)) /\ Cardinality(Units(k, a)) = a
  BY UnitsCounted
<1>3. beyond \subseteq Units(k, c)
  OBVIOUS
<1>4. IsFiniteSet(beyond)
  BY <1>1, <1>3, FS_Subset
<1>5. Units(k, c) \subseteq beyond \cup Units(k, a)
  <2> SUFFICES ASSUME NEW u \in Units(k, c), ~(u[2] > a)
               PROVE  u \in Units(k, a)
    OBVIOUS
  <2>1. u[2] \in 1..c /\ u = <<k, u[2]>>
    BY UnitsMembers
  <2>2. u[2] \in 1..a
    BY <2>1
  <2> QED
    BY <2>1, <2>2, UnitIn
<1>6. /\ IsFiniteSet(beyond \cup Units(k, a))
      /\ Cardinality(beyond \cup Units(k, a))
           = Cardinality(beyond) + Cardinality(Units(k, a)) - Cardinality(beyond \cap Units(k, a))
  BY <1>2, <1>4, FS_Union
<1>7. Cardinality(beyond) \in Nat /\ Cardinality(beyond \cap Units(k, a)) \in Nat
  BY <1>2, <1>4, FS_CardinalityType, FS_Intersection
<1>8. c <= Cardinality(beyond \cup Units(k, a))
  BY <1>1, <1>5, <1>6, FS_Subset
<1> QED
  BY <1>2, <1>4, <1>6, <1>7, <1>8

LEMMA DisjointSum ==
    ASSUME NEW S, NEW T, IsFiniteSet(S), IsFiniteSet(T), S \cap T = {}
    PROVE  /\ IsFiniteSet(S \cup T)
           /\ Cardinality(S \cup T) = Cardinality(S) + Cardinality(T)
<1>1. Cardinality(S) \in Nat /\ Cardinality(T) \in Nat
  BY FS_CardinalityType
<1> QED
  BY <1>1, FS_Union, FS_EmptySet

-----------------------------------------------------------------------------
LEMMA InOutstanding ==
    \A u : u \in Outstanding <=> \E k \in Keys : hold[k] = "reserved" /\ u \in Units(k, amount[k])
BY DEF Outstanding

LEMMA InBilled ==
    \A u : u \in Billed <=> \E k \in Keys : ChargedNow(k) /\ u \in Units(k, actual[k])
BY DEF Billed

LEMMA InBilledNext ==
    \A u : u \in Billed' <=>
        \E k \in Keys : ChargedNow(k)' /\ u \in Units(k, actual'[k])
BY DEF Billed, Units, ChargedNow

LEMMA InOutstandingNext ==
    \A u : u \in Outstanding' <=>
        \E k \in Keys : hold'[k] = "reserved" /\ u \in Units(k, amount'[k])
BY DEF Outstanding, Units

(* Billed units are those of calls settled in this month.                   *)
LEMMA BilledKey ==
    ASSUME BudgetTypeOK, NEW u \in Billed
    PROVE  u[1] \in Keys /\ ChargedNow(u[1])
BY InBilled, UnitsMembers DEF BudgetTypeOK

LEMMA OutstandingKey ==
    ASSUME BudgetTypeOK, NEW u \in Outstanding
    PROVE  u[1] \in Keys /\ hold[u[1]] = "reserved"
BY InOutstanding, UnitsMembers DEF BudgetTypeOK

-----------------------------------------------------------------------------
(* A new reservation adds the units of a key that had none.                 *)
LEMMA ReservationAdds ==
    ASSUME BudgetIInv, NEW k \in Keys, NEW n \in Amounts, NewReservation(k, n)
    PROVE  /\ Outstanding' = Outstanding \cup Units(k, n)
           /\ Outstanding \cap Units(k, n) = {}
           /\ Billed' = Billed
           /\ Overrun' = Overrun
<1>0. n \in Nat /\ BudgetTypeOK
  BY BudgetAssumption DEF BudgetIInv
<1>1. /\ hold[k] = "none" /\ hold'[k] = "reserved" /\ amount'[k] = n
      /\ \A j \in Keys : j # k => hold'[j] = hold[j] /\ amount'[j] = amount[j]
      /\ actual' = actual /\ settledIn' = settledIn /\ period' = period
  BY <1>0 DEF NewReservation, BudgetTypeOK
<1>2. \A u : u \in Outstanding' <=> u \in Outstanding \cup Units(k, n)
  BY <1>1, InOutstanding, InOutstandingNext
<1>3. \A u \in Units(k, n) : u[1] = k
  BY <1>0, UnitsMembers
<1>4. \A u \in Outstanding : u[1] # k
  BY <1>0, <1>1, OutstandingKey
<1>5. \A j \in Keys : ChargedNow(j)' <=> ChargedNow(j)
  BY <1>1 DEF ChargedNow
<1>6. \A u : u \in Billed' <=> u \in Billed
  BY <1>1, <1>5, InBilled, InBilledNext
<1>7. \A u \in Billed : u[1] \in Keys /\ u[1] # k
  BY <1>0, <1>1, BilledKey DEF ChargedNow
<1>8. \A u \in Billed : amount'[u[1]] = amount[u[1]]
  BY <1>1, <1>7
<1>9. Billed' = Billed
  BY <1>6
<1>10. Overrun' = {u \in Billed' : u[2] > amount'[u[1]]}
  BY DEF Overrun
<1>11. Overrun' = Overrun
  BY <1>8, <1>9, <1>10 DEF Overrun
<1> QED
  BY <1>2, <1>3, <1>4, <1>9, <1>11

LEMMA NewReservationKeeps ==
    ASSUME BudgetIInv, NEW k \in Keys, NEW n \in Amounts, NewReservation(k, n), Fits(n)
    PROVE  BudgetIInv'
<1>0. n \in Nat /\ Monthly \in Nat /\ MaxRequest \in Nat /\ BudgetTypeOK
  BY BudgetAssumption DEF BudgetIInv
<1>1. /\ Outstanding' = Outstanding \cup Units(k, n)
      /\ Outstanding \cap Units(k, n) = {}
      /\ Billed' = Billed /\ Overrun' = Overrun
  BY ReservationAdds
<1>2. /\ reserved' = reserved + n /\ spent' = spent /\ period' = period /\ over' = over
      /\ hold' = [hold EXCEPT ![k] = "reserved"] /\ amount' = [amount EXCEPT ![k] = n]
      /\ actual' = actual /\ settledIn' = settledIn
  BY DEF NewReservation
<1>3. BudgetTypeOK'
  BY <1>0, <1>2 DEF BudgetTypeOK
<1>4. IsFiniteSet(Units(k, n)) /\ Cardinality(Units(k, n)) = n
  BY <1>0, UnitsCounted
<1>5. IsFiniteSet(Outstanding') /\ Cardinality(Outstanding') = Cardinality(Outstanding) + n
  BY <1>1, <1>4, DisjointSum DEF BudgetIInv
<1>6. IsFiniteSet(Billed') /\ Cardinality(Billed') = Cardinality(Billed)
  BY <1>1 DEF BudgetIInv
<1>7. CountersAgree'
  BY <1>2, <1>5, <1>6 DEF BudgetIInv, CountersAgree
<1>8. IsFiniteSet(Overrun) /\ Cardinality(Overrun) \in Nat
  <2>1. IsFiniteSet(Billed) /\ Overrun \subseteq Billed
    BY DEF BudgetIInv, Overrun
  <2> QED
    BY <2>1, FS_Subset, FS_CardinalityType
<1>9. spent + reserved + n <= Monthly
  BY DEF Fits
<1>10. WithinLimit'
  BY <1>0, <1>1, <1>2, <1>8, <1>9 DEF WithinLimit, BudgetTypeOK
<1>11. reserved' <= Monthly
  BY <1>0, <1>2, <1>9 DEF BudgetTypeOK
<1>12. \A j \in Keys : hold'[j] = "reserved" => amount'[j] \in Amounts
  BY <1>0, <1>2 DEF BudgetIInv, BudgetTypeOK
<1>13. \A j \in Keys : hold'[j] = "settled" => settledIn'[j] <= period'
  BY <1>0, <1>2 DEF BudgetIInv, BudgetTypeOK
<1> QED
  BY <1>3, <1>5, <1>6, <1>7, <1>10, <1>11, <1>12, <1>13 DEF BudgetIInv

-----------------------------------------------------------------------------
(* A settlement moves one key from what is set aside to what is billed.     *)
LEMMA SettlementMoves ==
    ASSUME BudgetIInv, NEW k \in Keys, NEW c \in Nat, FirstSettle(k, c)
    PROVE  /\ Outstanding' = Outstanding \ Units(k, amount[k])
           /\ Units(k, amount[k]) \subseteq Outstanding
           /\ Outstanding' = {u \in Outstanding : u[1] # k}
           /\ Billed' = Billed \cup Units(k, c)
           /\ Billed \cap Units(k, c) = {}
           /\ Overrun' = Overrun \cup {u \in Units(k, c) : u[2] > amount[k]}
<1>0. c \in Nat /\ BudgetTypeOK
  BY BudgetAssumption DEF BudgetIInv
<1>1. /\ hold[k] = "reserved" /\ hold'[k] = "settled"
      /\ actual'[k] = c /\ settledIn'[k] = period
      /\ \A j \in Keys : j # k => /\ hold'[j] = hold[j] /\ actual'[j] = actual[j]
                                  /\ settledIn'[j] = settledIn[j]
      /\ amount' = amount /\ period' = period
  BY <1>0 DEF FirstSettle, BudgetTypeOK
<1>2. amount[k] \in Nat /\ (\A j \in Keys : amount[j] \in Nat /\ actual[j] \in Nat)
  BY <1>0 DEF BudgetTypeOK
<1>3. Units(k, amount[k]) \subseteq Outstanding
  BY <1>1, InOutstanding
<1>4. \A j \in Keys : \A u \in Units(j, amount[j]) : u[1] = j
  BY <1>2, UnitsMembers
<1>5. \A u : u \in Outstanding' <=> u \in Outstanding /\ u[1] # k
  BY <1>1, <1>4, InOutstanding, InOutstandingNext
<1>6. \A u \in Outstanding : u[1] = k => u \in Units(k, amount[k])
  BY <1>4, InOutstanding
<1>7. ChargedNow(k)' /\ ~ChargedNow(k) /\ (\A j \in Keys : j # k => (ChargedNow(j)' <=> ChargedNow(j)))
  BY <1>1 DEF ChargedNow
<1>8. \A u : u \in Billed' <=> u \in Billed \cup Units(k, c)
  BY <1>1, <1>7, InBilled, InBilledNext
<1>9. \A u \in Billed : u[1] # k
  BY <1>0, <1>7, BilledKey
<1>10. \A u \in Units(k, c) : u[1] = k
  BY <1>0, UnitsMembers
<1>11. Overrun' = {u \in Billed' : u[2] > amount[u[1]]}
  BY <1>1 DEF Overrun
<1>12. Overrun' = Overrun \cup {u \in Units(k, c) : u[2] > amount[k]}
  BY <1>8, <1>10, <1>11 DEF Overrun
<1> QED
  BY <1>3, <1>4, <1>5, <1>6, <1>8, <1>9, <1>10, <1>12

LEMMA FirstSettleKeeps ==
    ASSUME BudgetIInv, NEW k \in Keys, NEW c \in Nat, FirstSettle(k, c)
    PROVE  BudgetIInv'
<1> DEFINE beyond == {u \in Units(k, c) : u[2] > amount[k]}
<1>0. c \in Nat /\ Monthly \in Nat /\ BudgetTypeOK /\ amount[k] \in Nat
  BY BudgetAssumption DEF BudgetIInv, BudgetTypeOK
<1>1. /\ Outstanding' = Outstanding \ Units(k, amount[k])
      /\ Units(k, amount[k]) \subseteq Outstanding
      /\ Billed' = Billed \cup Units(k, c)
      /\ Billed \cap Units(k, c) = {}
      /\ Overrun' = Overrun \cup beyond
  BY SettlementMoves
<1>2. /\ hold[k] = "reserved"
      /\ reserved' = Minus(reserved, amount[k]) /\ spent' = spent + c
      /\ period' = period /\ over' = over
      /\ hold' = [hold EXCEPT ![k] = "settled"] /\ amount' = amount
      /\ actual' = [actual EXCEPT ![k] = c] /\ settledIn' = [settledIn EXCEPT ![k] = period]
  BY DEF FirstSettle
<1>3. BudgetTypeOK'
  BY <1>0, <1>2 DEF BudgetTypeOK, Minus
<1>4. IsFiniteSet(Units(k, amount[k])) /\ Cardinality(Units(k, amount[k])) = amount[k]
  BY <1>0, UnitsCounted
<1>5. IsFiniteSet(Units(k, c)) /\ Cardinality(Units(k, c)) = c
  BY <1>0, UnitsCounted
<1>6. Outstanding \cap Units(k, amount[k]) = Units(k, amount[k])
  BY <1>1
<1>7. /\ IsFiniteSet(Outstanding')
      /\ Cardinality(Outstanding') = Cardinality(Outstanding) - amount[k]
  <2> DEFINE left == Outstanding \ Units(k, amount[k])
  <2>1. IsFiniteSet(Outstanding)
    BY DEF BudgetIInv
  <2>2. /\ IsFiniteSet(left)
        /\ Cardinality(left)
             = Cardinality(Outstanding) - Cardinality(Outstanding \cap Units(k, amount[k]))
    BY <2>1, FS_Difference
  <2>3. Cardinality(left) = Cardinality(Outstanding) - amount[k]
    BY <1>4, <1>6, <2>2
  <2>4. Outstanding' = left
    BY <1>1
  <2> HIDE DEF left
  <2> QED
    BY <2>2, <2>3, <2>4
<1>8. amount[k] <= Cardinality(Outstanding)
  BY <1>1, <1>4, FS_Subset DEF BudgetIInv
<1>9. /\ IsFiniteSet(Billed')
      /\ Cardinality(Billed') = Cardinality(Billed) + c
  BY <1>1, <1>5, DisjointSum DEF BudgetIInv
<1>10. reserved = Cardinality(Outstanding) /\ spent = Cardinality(Billed)
  BY DEF BudgetIInv, CountersAgree
<1>11. reserved' = reserved - amount[k]
  BY <1>0, <1>2, <1>8, <1>10 DEF Minus, BudgetTypeOK
<1>12. CountersAgree'
  BY <1>2, <1>7, <1>9, <1>10, <1>11 DEF CountersAgree
<1>13. /\ IsFiniteSet(Overrun) /\ Cardinality(Overrun) \in Nat
       /\ IsFiniteSet(beyond) /\ Cardinality(beyond) \in Nat
       /\ Cardinality(beyond) >= c - amount[k]
  <2>1. IsFiniteSet(Billed) /\ Overrun \subseteq Billed
    BY DEF BudgetIInv, Overrun
  <2>2. IsFiniteSet(Overrun) /\ Cardinality(Overrun) \in Nat
    BY <2>1, FS_Subset, FS_CardinalityType
  <2>3. /\ IsFiniteSet(beyond) /\ Cardinality(beyond) \in Nat
        /\ Cardinality(beyond) >= c - amount[k]
    BY <1>0, UnitsBeyond
  <2> QED
    BY <2>2, <2>3
<1>14. Cardinality(Overrun') = Cardinality(Overrun) + Cardinality(beyond)
  <2>1. Overrun \cap beyond = {}
    BY <1>1 DEF Overrun
  <2> HIDE DEF beyond
  <2> QED
    BY <1>1, <1>13, <2>1, DisjointSum
<1>15. spent + reserved <= Monthly + Cardinality(Overrun)
  BY DEF BudgetIInv, WithinLimit
<1>16. WithinLimit'
  <2> HIDE DEF beyond
  <2> QED
    BY <1>0, <1>2, <1>11, <1>13, <1>14, <1>15 DEF WithinLimit, BudgetTypeOK
<1>17. reserved' <= Monthly
  BY <1>0, <1>11 DEF BudgetIInv, BudgetTypeOK
<1>18. \A j \in Keys : hold'[j] = "reserved" => amount'[j] \in Amounts
  BY <1>0, <1>2 DEF BudgetIInv, BudgetTypeOK
<1>19. \A j \in Keys : hold'[j] = "settled" => settledIn'[j] <= period'
  BY <1>0, <1>2 DEF BudgetIInv, BudgetTypeOK
<1> QED
  BY <1>3, <1>7, <1>9, <1>12, <1>16, <1>17, <1>18, <1>19 DEF BudgetIInv

-----------------------------------------------------------------------------
LEMMA RollKeeps ==
    ASSUME BudgetIInv, Roll
    PROVE  BudgetIInv' /\ Outstanding' = Outstanding /\ Billed' = {}
<1>0. Monthly \in Nat /\ BudgetTypeOK
  BY BudgetAssumption DEF BudgetIInv
<1>1. /\ spent' = 0 /\ reserved' = reserved /\ period' = period + 1 /\ over' = FALSE
      /\ hold' = hold /\ amount' = amount /\ actual' = actual /\ settledIn' = settledIn
  BY DEF Roll, reservations
<1>2. BudgetTypeOK'
  <2>1. spent' \in Nat /\ reserved' \in Nat /\ period' \in Nat
    BY <1>0, <1>1 DEF BudgetTypeOK
  <2>2. over' \in BOOLEAN
    BY Zenon, <1>1
  <2> QED
    BY <1>0, <1>1, <2>1, <2>2 DEF BudgetTypeOK
<1>3. Outstanding' = Outstanding
  BY <1>1 DEF Outstanding
<1>4. \A k \in Keys : ~ChargedNow(k)'
  BY <1>0, <1>1 DEF ChargedNow, BudgetIInv, BudgetTypeOK
<1>5. Billed' = {}
  BY <1>4, InBilledNext
<1>6. Overrun' = {}
  BY <1>5 DEF Overrun
<1>7. IsFiniteSet({}) /\ Cardinality({}) = 0
  BY FS_EmptySet
<1>8. CountersAgree'
  BY <1>1, <1>3, <1>5, <1>7 DEF CountersAgree, BudgetIInv
<1>9. WithinLimit'
  BY <1>0, <1>1, <1>6, <1>7 DEF WithinLimit, BudgetIInv, BudgetTypeOK
<1>10. \A k \in Keys : hold'[k] = "settled" => settledIn'[k] <= period'
  BY <1>0, <1>1 DEF BudgetIInv, BudgetTypeOK
<1>11. /\ IsFiniteSet(Outstanding') /\ IsFiniteSet(Billed') /\ reserved' <= Monthly
       /\ \A k \in Keys : hold'[k] = "reserved" => amount'[k] \in Amounts
  BY <1>1, <1>3, <1>5, <1>7 DEF BudgetIInv
<1> QED
  BY <1>2, <1>3, <1>5, <1>8, <1>9, <1>10, <1>11 DEF BudgetIInv

(* A step that changes no row and no counter.                               *)
LEMMA OnlyTheClock ==
    ASSUME BudgetIInv, over' \in BOOLEAN,
           UNCHANGED <<spent, reserved, period, reservations>>
    PROVE  BudgetIInv' /\ Outstanding' = Outstanding /\ Billed' = Billed
<1>1. /\ spent' = spent /\ reserved' = reserved /\ period' = period
      /\ hold' = hold /\ amount' = amount /\ actual' = actual /\ settledIn' = settledIn
  BY DEF reservations
<1>2. BudgetTypeOK'
  BY <1>1 DEF BudgetTypeOK, BudgetIInv
<1>3. Outstanding' = Outstanding
  BY <1>1 DEF Outstanding
<1>4. Billed' = Billed
  BY <1>1 DEF Billed, ChargedNow
<1>5. Overrun' = Overrun
  BY <1>1, <1>4 DEF Overrun
<1>6. CountersAgree' /\ WithinLimit'
  BY <1>1, <1>3, <1>4, <1>5 DEF CountersAgree, WithinLimit, BudgetIInv
<1> QED
  BY <1>1, <1>2, <1>3, <1>4, <1>6 DEF BudgetIInv

LEMMA BudgetInitHolds == BudgetInit => BudgetIInv
<1> SUFFICES ASSUME BudgetInit PROVE BudgetIInv
  OBVIOUS
<1>1. BudgetTypeOK /\ Monthly \in Nat
  BY BudgetAssumption DEF BudgetInit, BudgetTypeOK
<1>2. Outstanding = {} /\ Billed = {}
  BY InOutstanding, InBilled DEF BudgetInit, ChargedNow
<1>3. Overrun = {}
  BY <1>2 DEF Overrun
<1>4. IsFiniteSet({}) /\ Cardinality({}) = 0
  BY FS_EmptySet
<1> QED
  BY <1>1, <1>2, <1>3, <1>4 DEF BudgetInit, BudgetIInv, CountersAgree, WithinLimit

LEMMA BudgetStep ==
    ASSUME BudgetIInv, [BudgetNext]_budget
    PROVE  BudgetIInv'
<1>1. CASE UNCHANGED budget
  <2>1. over' = over /\ over \in BOOLEAN /\ UNCHANGED <<spent, reserved, period, reservations>>
    BY <1>1 DEF budget, policyRow, BudgetIInv, BudgetTypeOK
  <2> QED
    BY <2>1, OnlyTheClock
<1>2. ASSUME NEW k \in Keys, NEW n \in Amounts, Reserve(k, n)
      PROVE  BudgetIInv'
  <2>1. CASE NewReservation(k, n)
    <3>1. Fits(n)
      BY <1>2, <2>1 DEF Reserve, CanReserve, NewReservation
    <3> QED
      BY <2>1, <3>1, NewReservationKeeps
  <2>2. CASE UNCHANGED budget
    BY <1>1, <2>2
  <2> QED
    BY <1>2, <2>1, <2>2 DEF Reserve
<1>3. ASSUME NEW k \in Keys, NEW c \in Costs, Settle(k, c)
      PROVE  BudgetIInv'
  <2>1. c \in Nat
    BY BudgetAssumption
  <2> QED
    BY <1>1, <1>3, <2>1, FirstSettleKeeps DEF Settle
<1>4. CASE Roll
  BY <1>4, RollKeeps
<1>5. CASE PeriodEnds
  <2>1. over' = TRUE /\ UNCHANGED <<spent, reserved, period, reservations>>
    BY <1>5 DEF PeriodEnds
  <2> QED
    BY <2>1, OnlyTheClock
<1> QED
  BY <1>1, <1>2, <1>3, <1>4, <1>5 DEF BudgetNext

(* For any number of callers, keys and amounts, the counters of the policy   *)
(* row are the sums of the reservation rows (supabase migrations, reserve   *)
(* and settle), whatever the order of reservations, settlements and months. *)
THEOREM BudgetIsSound == BudgetSpec => []BudgetIInv
<1>1. BudgetInit => BudgetIInv
  BY BudgetInitHolds
<1>2. BudgetIInv /\ [BudgetNext]_budget => BudgetIInv'
  BY BudgetStep
<1> QED
  BY <1>1, <1>2, PTL DEF BudgetSpec

(* The counters of the policy row are what its reservations add up to, and a  *)
(* month never promises more than its limit, however many callers reserve,    *)
(* settle late or twice, and months end.                                      *)
THEOREM BudgetKeepsItsLimit == BudgetSpec => []BudgetHolds
<1>1. BudgetIInv => BudgetHolds
  BY DEF BudgetIInv, BudgetHolds
<1> QED
  BY <1>1, BudgetIsSound, PTL

-----------------------------------------------------------------------------
(* The rows implement the account: a reservation holds units of a fresh key *)
(* within the limit, a settlement charges it once, a rollover forgets what  *)
(* was charged, and everything else leaves the account alone.               *)
USE DEF Ledger!account

LEMMA ReserveHolds ==
    ASSUME BudgetIInv, NEW k \in Keys, NEW n \in Amounts, NewReservation(k, n), Fits(n)
    PROVE  Ledger!HoldUnits(k, n)
<1>0. BudgetTypeOK /\ n \in Nat /\ Monthly \in Nat
  BY BudgetAssumption DEF BudgetIInv
<1>1. hold[k] = "none" /\ hold' = [hold EXCEPT ![k] = "reserved"]
  BY DEF NewReservation
<1>2. {j \in Keys : hold'[j] # "none"} = {j \in Keys : hold[j] # "none"} \cup {k}
  BY <1>0, <1>1 DEF BudgetTypeOK
<1>3. Ledger!Cardinality(Outstanding) + Ledger!Cardinality(Billed) + n <= Monthly
  <2>1. Cardinality(Outstanding) + Cardinality(Billed) + n <= Monthly
    BY <1>0 DEF BudgetIInv, CountersAgree, Fits, BudgetTypeOK
  <2>2. \A S : Ledger!Cardinality(S) = Cardinality(S)
    BY DEF Ledger!Cardinality, Cardinality
  <2> QED
    BY <2>1, <2>2
<1>4. Outstanding' = Outstanding \cup ({k} \X (1..n)) /\ Billed' = Billed
  BY ReservationAdds DEF Units
<1> QED
  BY <1>1, <1>2, <1>3, <1>4 DEF Ledger!HoldUnits

LEMMA SettleCharges ==
    ASSUME BudgetIInv, NEW k \in Keys, NEW c \in Nat, FirstSettle(k, c)
    PROVE  Ledger!ChargeUnits(k, c)
<1>0. BudgetTypeOK
  BY DEF BudgetIInv
<1>1. hold[k] = "reserved" /\ hold' = [hold EXCEPT ![k] = "settled"]
  BY DEF FirstSettle
<1>2. amount[k] \in Nat \ {0}
  BY <1>1, BudgetAssumption DEF BudgetIInv
<1>3. <<k, 1>> \in Outstanding
  <2>1. <<k, 1>> \in Units(k, amount[k])
    BY <1>2, UnitIn
  <2> QED
    BY <1>1, <2>1, InOutstanding
<1>4. {j \in Keys : hold'[j] # "none"} = {j \in Keys : hold[j] # "none"}
  BY <1>0, <1>1 DEF BudgetTypeOK
<1>5. /\ Outstanding' = {u \in Outstanding : u[1] # k}
      /\ Billed' = Billed \cup ({k} \X (1..c))
  BY SettlementMoves DEF Units
<1> QED
  BY <1>3, <1>4, <1>5 DEF Ledger!ChargeUnits

LEMMA UsedKeys ==
    ASSUME hold' = hold
    PROVE  {j \in Keys : hold'[j] # "none"} = {j \in Keys : hold[j] # "none"}
OBVIOUS

LEMMA AccountStep ==
    ASSUME BudgetIInv, [BudgetNext]_budget
    PROVE  [Ledger!AccountNext]_(Ledger!account)
<1>1. ASSUME over' \in BOOLEAN, UNCHANGED <<spent, reserved, period, reservations>>
      PROVE  UNCHANGED Ledger!account
  <2>1. Outstanding' = Outstanding /\ Billed' = Billed
    BY <1>1, OnlyTheClock
  <2>2. hold' = hold
    BY <1>1 DEF reservations
  <2> QED
    BY <2>1, <2>2
<1>2. CASE UNCHANGED budget
  <2>1. over' = over /\ over \in BOOLEAN /\ UNCHANGED <<spent, reserved, period, reservations>>
    BY <1>2 DEF budget, policyRow, BudgetIInv, BudgetTypeOK
  <2> QED
    BY <1>1, <2>1
<1>3. ASSUME NEW k \in Keys, NEW n \in Amounts, Reserve(k, n)
      PROVE  [Ledger!AccountNext]_(Ledger!account)
  <2>1. CASE NewReservation(k, n)
    <3>1. Fits(n)
      BY <1>3, <2>1 DEF Reserve, CanReserve, NewReservation
    <3>2. Ledger!HoldUnits(k, n)
      BY <2>1, <3>1, ReserveHolds
    <3> QED
      BY <3>2 DEF Ledger!AccountNext
  <2> QED
    BY <1>2, <1>3, <2>1 DEF Reserve
<1>4. ASSUME NEW k \in Keys, NEW c \in Costs, Settle(k, c)
      PROVE  [Ledger!AccountNext]_(Ledger!account)
  <2>1. CASE FirstSettle(k, c)
    <3>1. c \in Nat
      BY BudgetAssumption
    <3>2. Ledger!ChargeUnits(k, c)
      BY <2>1, <3>1, SettleCharges
    <3> QED
      BY <3>2 DEF Ledger!AccountNext
  <2> QED
    BY <1>2, <1>4, <2>1 DEF Settle
<1>5. CASE Roll
  <2>1. Outstanding' = Outstanding /\ Billed' = {}
    BY <1>5, RollKeeps
  <2>2. hold' = hold
    BY <1>5 DEF Roll, reservations
  <2>3. Ledger!NewMonth
    BY <2>1, <2>2 DEF Ledger!NewMonth
  <2> QED
    BY <2>3 DEF Ledger!AccountNext
<1>6. CASE PeriodEnds
  <2>1. over' = TRUE /\ UNCHANGED <<spent, reserved, period, reservations>>
    BY <1>6 DEF PeriodEnds
  <2> QED
    BY <1>1, <2>1
<1> QED
  BY <1>2, <1>3, <1>4, <1>5, <1>6 DEF BudgetNext

(* The rows and functions of the budget implement the abstract account:      *)
(* money is held before it is charged, a key is charged at most once, and    *)
(* no reservation goes past the limit of the month.                          *)
THEOREM BudgetImplementsAccount == BudgetSpec => ImplementsAccount
<1>1. BudgetInit => Ledger!AccountInit
  <2> SUFFICES ASSUME BudgetInit PROVE Ledger!AccountInit
    OBVIOUS
  <2>1. Outstanding = {} /\ Billed = {}
    BY InOutstanding, InBilled DEF BudgetInit, ChargedNow
  <2>2. {k \in Keys : hold[k] # "none"} = {}
    BY DEF BudgetInit
  <2> QED
    BY <2>1, <2>2 DEF Ledger!AccountInit
<1>2. BudgetIInv /\ [BudgetNext]_budget => [Ledger!AccountNext]_(Ledger!account)
  BY AccountStep
<1> QED
  BY <1>1, <1>2, BudgetIsSound, PTL DEF BudgetSpec, ImplementsAccount, Ledger!AccountSpec

-----------------------------------------------------------------------------
(* The callers.                                                             *)

(* The conversation of a run is in the hands of the route it prefers or of  *)
(* nobody; in nobody's, the checkpoint has every tool call.  Once a route    *)
(* is to be asked, the conversation is in no other route's hands.           *)
Chosing == {"idle", "choose"}

SavedOrHeld(m) ==
    /\ m.speaks \in {NoRoute, m.preferred}
    /\ m.speaks = NoRoute => m.saved = m.tools
    /\ m.pc \in Steps \ Chosing => m.route # NoRoute
    /\ m.pc \in Steps \ (Chosing \cup {"switch"}) => m.speaks \in {NoRoute, m.route}

(* What a run holds of the budget.  Its keys are numbered, so that those to *)
(* come are free; between the reservation of a turn and its settlement the  *)
(* run knows the key, and no other turn of it is reserved.                  *)
Billing == Owing \cup {"record", "report"}
Dead    == {"aborted", "crashed"}

TurnKeys(p) == {k \in Keys : k[1] = p /\ k[3] = "turn"}

(* What a run with this memory has under way is reserved.                   *)
Owes(p, m) == m.route \in Paid /\ p \notin Legacy

HoldsItsOwn(p) ==
    /\ run[p].pc \in Billing /\ Reserved(p) => Key(p) \in Keys
    /\ run[p].pc = "charged" => Incident(p) \in Keys
    /\ run[p].pc \in {"started", "call", "settle"} /\ Reserved(p) =>
           hold[Key(p)] = "reserved" /\ amount[Key(p)] = Worst
    /\ \A k \in TurnKeys(p) :
         /\ run[p].pc \notin Ends /\ k[2] > run[p].keys => hold[k] = "none"
         /\ hold[k] = "reserved" =>
              run[p].pc \in Dead \/ (k = Key(p) /\ run[p].pc \in Owing /\ Reserved(p))

Coherent == \A p \in Runs : SavedOrHeld(run[p]) /\ HoldsItsOwn(p)

TurnIInv == TypeOK /\ BudgetIInv /\ Coherent

-----------------------------------------------------------------------------
(* The memory of a run.                                                     *)
LEMMA LeastIndex ==
    ASSUME NEW S, S \subseteq Nat, S # {}
    PROVE  \E i \in S : \A j \in S : i <= j
<1> DEFINE Less == OpToRel(<, Nat)
<1>1. IsWellFoundedOn(Less, Nat)
  BY NatLessThanWellFounded
<1>2. PICK i \in S : \A j \in S : ~(<<j, i>> \in Less)
  <2> HIDE DEF Less
  <2> QED
    BY <1>1, WFMin
<1>3. \A j \in S : j < i => <<j, i>> \in Less
  BY DEF OpToRel
<1>4. \A j \in S : ~(j < i)
  <2> HIDE DEF Less
  <2> QED
    BY <1>2, <1>3
<1>5. \A j \in S : i <= j
  <2> TAKE j \in S
  <2>1. i \in Nat /\ j \in Nat
    OBVIOUS
  <2> QED
    BY <1>4, <2>1
<1> QED
  BY <1>5

LEMMA EndedType ==
    ASSUME NEW pc \in Ends
    PROVE  Ended(pc) \in Memories /\ SavedOrHeld(Ended(pc)) /\ Ended(pc).pc = pc
<1>1. Idle \in Memories
  BY TurnAssumption DEF Idle, Memories, Steps, Healths
<1>2. Ended(pc) \in Memories
  BY <1>1 DEF Ended, Memories
<1>3. /\ Ended(pc).pc = pc /\ Ended(pc).speaks = NoRoute
      /\ Ended(pc).saved = 0 /\ Ended(pc).tools = 0
  BY DEF Ended, Idle
<1>4. pc \notin Steps
  BY DEF Ends, Steps
<1> QED
  BY <1>2, <1>3, <1>4 DEF SavedOrHeld

LEMMA ChosenType ==
    ASSUME TypeOK, NEW p \in Runs
    PROVE  Chosen(p) \in Routes \cup {NoRoute}
<1> DEFINE able == {i \in DOMAIN Order : Eligible(p, Order[i])}
<1>1. able \subseteq Nat /\ able \subseteq DOMAIN Order
  BY TurnAssumption
<1>2. CASE able = {}
  BY <1>2 DEF Chosen
<1>3. CASE able # {}
  <2>1. \E i \in able : \A j \in able : i <= j
    <3> HIDE DEF able
    <3> QED
      BY <1>1, <1>3, LeastIndex
  <2> DEFINE least == CHOOSE i \in able : \A j \in able : i <= j
  <2>2. least \in able
    <3> HIDE DEF able
    <3> QED
      BY <2>1
  <2>3. Order[least] \in Routes
    BY <1>1, <2>2 DEF Routes
  <2>4. \A r \in {Order[i] : i \in able} : r \in Routes
    BY DEF Routes
  <2>5. Chosen(p) = IF run[p].preferred \in {Order[i] : i \in able} THEN run[p].preferred
                    ELSE Order[least]
    BY <1>3 DEF Chosen
  <2> HIDE DEF able, least
  <2> QED
    BY <2>3, <2>4, <2>5
<1> QED
  BY <1>2, <1>3

(* A new turn starts in the hands it is given.                              *)
LEMMA NextTurnType ==
    ASSUME NEW p, NEW m \in Memories, m.speaks \in {NoRoute, m.preferred},
           m.speaks = NoRoute => m.saved = m.tools
    PROVE  /\ NextTurn(p, m) \in Memories
           /\ SavedOrHeld(NextTurn(p, m))
           /\ \/ NextTurn(p, m).pc = "exhausted"
              \/ NextTurn(p, m).pc = "choose" /\ NextTurn(p, m).keys = m.keys
<1> DEFINE n == [m EXCEPT !.turn = @ + 1, !.pc = "choose", !.failed = {}, !.previous = NoRoute,
                          !.error = "", !.route = NoRoute, !.attempt = 0]
<1>1. n \in Memories
  <2>0. m.turn \in Nat
    BY DEF Memories
  <2>1. PICK t \in Nat : t = m.turn + 1
    BY <2>0
  <2>2. 0 \in 0..Attempts
    BY TurnAssumption
  <2>3. n = [m EXCEPT !.turn = t, !.pc = "choose", !.failed = {}, !.previous = NoRoute,
                      !.error = "", !.route = NoRoute, !.attempt = 0]
    BY <2>1
  <2> HIDE DEF n
  <2> QED
    BY <2>2, <2>3 DEF Memories, Steps
<1>2. n.pc = "choose" /\ n.keys = m.keys /\ n.speaks = m.speaks /\ n.preferred = m.preferred
      /\ n.saved = m.saved /\ n.tools = m.tools
  BY DEF Memories
<1>3. SavedOrHeld(n)
  BY <1>2 DEF SavedOrHeld, Chosing
<1>4. NextTurn(p, m) = n \/ NextTurn(p, m) = Ended("exhausted")
  BY DEF NextTurn
<1>5. "exhausted" \in Ends
  BY DEF Ends
<1> HIDE DEF n
<1>6. CASE NextTurn(p, m) = n
  BY <1>1, <1>2, <1>3, <1>6
<1>7. CASE NextTurn(p, m) = Ended("exhausted")
  BY <1>5, <1>7, EndedType
<1> QED
  BY <1>4, <1>6, <1>7

-----------------------------------------------------------------------------
(* What a step of a run leaves of the reservations: those of other runs as   *)
(* they are, and a run that holds no turn may be anywhere but in a paid     *)
(* call.                                                                    *)
OthersHold(p) ==
    \A k \in Keys : k[1] # p => hold'[k] = hold[k] /\ amount'[k] = amount[k]

LEMMA OthersKeep ==
    ASSUME TurnIInv, NEW p \in Runs, NEW m \in Memories,
           run' = [run EXCEPT ![p] = m], OthersHold(p),
           SavedOrHeld(m), HoldsItsOwn(p)'
    PROVE  Coherent'
<1>1. run'[p] = m
  BY DEF TurnIInv, TypeOK
<1>2. ASSUME NEW q \in Runs, q # p
      PROVE  SavedOrHeld(run'[q]) /\ HoldsItsOwn(q)'
  <2>1. run'[q] = run[q]
    BY <1>2 DEF TurnIInv, TypeOK
  <2>2. Key(q)' = Key(q) /\ Incident(q)' = Incident(q) /\ (Reserved(q)' <=> Reserved(q))
    BY <2>1 DEF Key, Incident, Reserved
  <2>3. Key(q)[1] = q
    BY DEF Key
  <2>4. \A k \in TurnKeys(q) : k \in Keys /\ k[1] # p
    BY <1>2 DEF TurnKeys
  <2>5. SavedOrHeld(run[q]) /\ HoldsItsOwn(q)
    BY DEF TurnIInv, Coherent
  <2>6. \A k \in TurnKeys(q) : hold'[k] = hold[k]
    BY <2>4 DEF OthersHold
  <2>7. Key(q) \in Keys => hold'[Key(q)] = hold[Key(q)] /\ amount'[Key(q)] = amount[Key(q)]
    BY <1>2, <2>3 DEF OthersHold
  <2>8. {"started", "call", "settle"} \subseteq Billing
    BY DEF Billing, Owing
  <2>9. HoldsItsOwn(q)'
    <3>1. run[q].pc \in Billing /\ Reserved(q) => Key(q) \in Keys
      BY <2>5 DEF HoldsItsOwn
    <3>2. run[q].pc \in {"started", "call", "settle"} /\ Reserved(q) =>
             hold'[Key(q)] = "reserved" /\ amount'[Key(q)] = Worst
      BY <2>5, <2>7, <2>8, <3>1 DEF HoldsItsOwn
    <3>3. \A k \in TurnKeys(q) :
             /\ run[q].pc \notin Ends /\ k[2] > run[q].keys => hold'[k] = "none"
             /\ hold'[k] = "reserved" =>
                  run[q].pc \in Dead \/ (k = Key(q) /\ run[q].pc \in Owing /\ Reserved(q))
      BY <2>5, <2>6 DEF HoldsItsOwn
    <3>4. run[q].pc = "charged" => Incident(q) \in Keys
      BY <2>5 DEF HoldsItsOwn
    <3>5. TurnKeys(q)' = TurnKeys(q) /\ Worst' = Worst
      BY DEF TurnKeys, Worst
    <3> QED
      BY <2>1, <2>2, <3>1, <3>2, <3>3, <3>4 DEF HoldsItsOwn, TurnKeys, Worst
  <2> QED
    BY <2>1, <2>5, <2>9
<1>3. \A q \in Runs : SavedOrHeld(run'[q]) /\ HoldsItsOwn(q)'
  BY <1>1, <1>2
<1> QED
  BY <1>3 DEF Coherent, SavedOrHeld

(* A run without a reserved turn.                                           *)
LEMMA FreeHanded ==
    ASSUME TurnIInv, NEW p \in Runs, NEW m \in Memories,
           run' = [run EXCEPT ![p] = m], OthersHold(p), SavedOrHeld(m),
           run[p].pc \notin Ends,
           \A k \in TurnKeys(p) : hold'[k] # "reserved" /\ (k[2] > run[p].keys => hold'[k] = hold[k]),
           m.pc \in Ends \/ m.keys >= run[p].keys,
           m.pc \in Billing /\ Owes(p, m) =>
               <<p, m.keys, "turn">> \in Keys /\ m.pc \notin {"started", "call", "settle"},
           m.pc = "charged" => <<p, m.keys, "incident">> \in Keys
    PROVE  Coherent'
<1>1. run'[p] = m /\ m.keys \in Nat /\ run[p].keys \in Nat
  BY DEF TurnIInv, TypeOK, Memories
<1>2. Key(p)' = <<p, m.keys, "turn">> /\ Incident(p)' = <<p, m.keys, "incident">>
  BY <1>1 DEF Key, Incident
<1>3. Reserved(p)' <=> Owes(p, m)
  BY <1>1 DEF Reserved, Owes
<1>4. {"started", "call", "settle"} \subseteq Billing
  BY DEF Billing, Owing
<1>5. \A k \in TurnKeys(p) : k[2] \in Nat
  BY TurnAssumption DEF TurnKeys
<1>6. \A k \in TurnKeys(p) : m.pc \notin Ends /\ k[2] > m.keys => hold'[k] = "none"
  <2> SUFFICES ASSUME NEW k \in TurnKeys(p), m.pc \notin Ends, k[2] > m.keys
               PROVE  hold'[k] = "none"
    OBVIOUS
  <2>1. k[2] > run[p].keys
    BY <1>1, <1>5
  <2> QED
    BY <2>1 DEF TurnIInv, Coherent, HoldsItsOwn
<1>7. HoldsItsOwn(p)'
  BY <1>1, <1>2, <1>3, <1>4, <1>6 DEF HoldsItsOwn, TurnKeys
<1> QED
  BY <1>7, OthersKeep

(* A run whose paid call goes on.                                           *)
LEMMA StillHolding ==
    ASSUME TurnIInv, NEW p \in Runs, NEW m \in Memories,
           run' = [run EXCEPT ![p] = m], hold' = hold, amount' = amount, SavedOrHeld(m),
           m.keys = run[p].keys, m.route = run[p].route,
           run[p].pc \in Owing, m.pc \in Owing,
           m.pc \in {"started", "call", "settle"} => run[p].pc \in {"started", "call", "settle"}
    PROVE  Coherent'
<1>1. run'[p] = m
  BY DEF TurnIInv, TypeOK
<1>2. Key(p)' = Key(p) /\ (Reserved(p)' <=> Reserved(p))
  BY <1>1 DEF Key, Reserved
<1>3. Owing \subseteq Billing /\ Owing \cap Ends = {} /\ "charged" \notin Owing
      /\ Owing \cap Dead = {}
  BY DEF Billing, Owing, Ends, Dead
<1>4. HoldsItsOwn(p)
  BY DEF TurnIInv, Coherent
<1>5. run[p].pc \notin Ends /\ run[p].pc \notin Dead /\ m.pc # "charged" /\ run[p].pc \in Billing
  BY <1>3
<1>6. HoldsItsOwn(p)'
  <2>1. Reserved(p) => Key(p) \in Keys
    BY <1>4, <1>5 DEF HoldsItsOwn
  <2>2. m.pc \in {"started", "call", "settle"} /\ Reserved(p) =>
           hold[Key(p)] = "reserved" /\ amount[Key(p)] = Worst
    BY <1>4 DEF HoldsItsOwn
  <2>3. \A k \in TurnKeys(p) :
           /\ k[2] > run[p].keys => hold[k] = "none"
           /\ hold[k] = "reserved" => k = Key(p) /\ Reserved(p)
    BY <1>4, <1>5 DEF HoldsItsOwn
  <2> QED
    BY <1>1, <1>2, <1>5, <2>1, <2>2, <2>3 DEF HoldsItsOwn, TurnKeys, Worst
<1>7. OthersHold(p)
  BY DEF OthersHold
<1> QED
  BY <1>6, <1>7, OthersKeep

-----------------------------------------------------------------------------
(* Steps that change only what the run remembers.                           *)
LEMMA Counted ==
    ASSUME TypeOK, Fault \/ Calm
    PROVE  faults' \in Nat
<1>1. faults' = faults \/ faults' = faults + 1
  BY Zenon DEF Fault, Calm
<1>2. faults \in Nat
  BY DEF TypeOK
<1> QED
  BY <1>1, <1>2

LEMMA BudgetAlone ==
    ASSUME BudgetIInv, UNCHANGED budget
    PROVE  BudgetIInv' /\ hold' = hold /\ amount' = amount
BY BudgetStep DEF budget, reservations

LEMMA LocalTypes ==
    ASSUME TurnIInv, NEW p \in Runs, NEW m \in Memories, Local(p, m), Fault \/ Calm
    PROVE  /\ TypeOK' /\ BudgetIInv'
           /\ run' = [run EXCEPT ![p] = m] /\ hold' = hold /\ amount' = amount
           /\ OthersHold(p)
<1>1. /\ run' = [run EXCEPT ![p] = m]
      /\ health' = health /\ cooling' = cooling /\ row' = row /\ code' = code
      /\ unbilled' = unbilled /\ UNCHANGED budget
  BY DEF Local, status
<1>2. BudgetIInv' /\ hold' = hold /\ amount' = amount
  BY <1>1, BudgetAlone DEF TurnIInv
<1>3. faults' \in Nat
  BY Counted DEF TurnIInv
<1>4. BudgetTypeOK'
  BY <1>2 DEF BudgetIInv
<1>5. run' \in [Runs -> Memories]
  BY <1>1 DEF TurnIInv, TypeOK
<1>6. TypeOK'
  BY <1>1, <1>3, <1>4, <1>5 DEF TurnIInv, TypeOK, Memories
<1> QED
  BY <1>1, <1>2, <1>6 DEF OthersHold

LEMMA DiesLocally ==
    ASSUME TurnIInv, NEW p \in Runs, NEW pc \in Dead, Local(p, Ended(pc)), Fault \/ Calm
    PROVE  TurnIInv'
<1>1. pc \in Ends /\ pc \notin Billing /\ pc # "charged"
  BY DEF Dead, Ends, Billing, Owing
<1>2. Ended(pc) \in Memories /\ SavedOrHeld(Ended(pc)) /\ Ended(pc).pc = pc
  BY <1>1, EndedType
<1>3. /\ TypeOK' /\ BudgetIInv'
      /\ run' = [run EXCEPT ![p] = Ended(pc)] /\ OthersHold(p)
  BY <1>2, LocalTypes
<1>4. run'[p] = Ended(pc)
  BY <1>3 DEF TurnIInv, TypeOK
<1>5. HoldsItsOwn(p)'
  BY <1>1, <1>2, <1>4 DEF HoldsItsOwn, Billing, Owing, Dead, Ends
<1> QED
  BY <1>2, <1>3, <1>5, OthersKeep DEF TurnIInv

LEMMA LocalFree ==
    ASSUME TurnIInv, NEW p \in Runs, NEW m \in Memories, Local(p, m), Fault \/ Calm,
           SavedOrHeld(m),
           run[p].pc \notin Ends \cup Owing,
           m.pc \in Ends \/ m.keys = run[p].keys,
           m.pc \in Billing /\ Owes(p, m) =>
               /\ run[p].pc \in Billing /\ m.route = run[p].route /\ m.keys = run[p].keys
               /\ m.pc \notin {"started", "call", "settle"},
           m.pc # "charged"
    PROVE  TurnIInv'
<1>1. /\ TypeOK' /\ BudgetIInv'
      /\ run' = [run EXCEPT ![p] = m] /\ hold' = hold /\ OthersHold(p)
  BY LocalTypes
<1>2. HoldsItsOwn(p) /\ run[p].keys \in Nat
  BY DEF TurnIInv, Coherent, TypeOK, Memories
<1>3. \A k \in TurnKeys(p) : hold[k] # "reserved"
  BY <1>2 DEF HoldsItsOwn, Dead, Ends
<1>4. m.pc \in Ends \/ m.keys >= run[p].keys
  BY <1>2
<1>5. m.pc \in Billing /\ Owes(p, m) =>
          <<p, m.keys, "turn">> \in Keys /\ m.pc \notin {"started", "call", "settle"}
  BY <1>2 DEF HoldsItsOwn, Reserved, Owes, Key
<1>6. Coherent'
  BY <1>1, <1>3, <1>4, <1>5, FreeHanded
<1> QED
  BY <1>1, <1>6 DEF TurnIInv

LEMMA LocalHolding ==
    ASSUME TurnIInv, NEW p \in Runs, NEW m \in Memories, Local(p, m), Fault \/ Calm,
           SavedOrHeld(m), m.keys = run[p].keys, m.route = run[p].route,
           run[p].pc \in Owing, m.pc \in Owing,
           m.pc \in {"started", "call", "settle"} => run[p].pc \in {"started", "call", "settle"}
    PROVE  TurnIInv'
<1>1. /\ TypeOK' /\ BudgetIInv'
      /\ run' = [run EXCEPT ![p] = m] /\ hold' = hold /\ amount' = amount
  BY LocalTypes
<1>2. Coherent'
  BY <1>1, StillHolding
<1> QED
  BY <1>1, <1>2 DEF TurnIInv

-----------------------------------------------------------------------------
(* Steps of a run, one by one.                                              *)
LEMMA Remembered ==
    ASSUME TurnIInv, NEW p \in Runs
    PROVE  /\ run[p] \in Memories
           /\ run[p].speaks \in {NoRoute, run[p].preferred}
           /\ run[p].speaks = NoRoute => run[p].saved = run[p].tools
           /\ run[p].pc \in Steps \ Chosing => run[p].route \in Routes
           /\ run[p].pc \in Steps \ (Chosing \cup {"switch"}) =>
                run[p].speaks \in {NoRoute, run[p].route}
           /\ HoldsItsOwn(p)
<1>1. run[p] \in Memories
  BY DEF TurnIInv, TypeOK
<1>2. SavedOrHeld(run[p]) /\ HoldsItsOwn(p)
  BY DEF TurnIInv, Coherent
<1>3. run[p].route \in Routes \cup {NoRoute}
  BY <1>1 DEF Memories
<1> QED
  BY <1>1, <1>2, <1>3 DEF SavedOrHeld

LEMMA AtType ==
    ASSUME NEW p, run[p] \in Memories, NEW pc \in Steps
    PROVE  At(p, pc) \in Memories /\ At(p, pc) = [run[p] EXCEPT !.pc = pc]
BY DEF At, Memories

LEMMA ThrowsKeeps ==
    ASSUME TurnIInv, NEW p \in Runs, Throws(p)
    PROVE  TurnIInv'
BY DiesLocally DEF Throws, Dead

LEMMA ChooseKeeps ==
    ASSUME TurnIInv, NEW p \in Runs, Choose(p)
    PROVE  TurnIInv'
<1> DEFINE pc == IF Switching(p, Chosen(p)) THEN "switch" ELSE "reserve"
           m == [At(p, pc) EXCEPT !.route = Chosen(p), !.attempt = 1]
<1>1. run[p].pc = "choose" /\ Local(p, m) /\ Calm
  BY DEF Choose, Is
<1>2. Chosen(p) \in Routes /\ Chosen(p) # NoRoute
  BY ChosenType DEF Choose, TurnIInv
<1>3. 1 \in 0..Attempts
  BY TurnAssumption
<1>4. pc \in {"switch", "reserve"}
  OBVIOUS
<1>5. pc = "reserve" => run[p].preferred = NoRoute \/ run[p].preferred = Chosen(p)
  BY DEF Switching
<1> HIDE DEF pc
<1>6. m \in Memories
  <2>1. run[p] \in Memories
    BY Remembered
  <2>2. pc \in Steps
    BY <1>4 DEF Steps
  <2>3. At(p, pc) \in Memories
    BY <2>1, <2>2, AtType
  <2> QED
    BY <1>2, <1>3, <2>3 DEF Memories
<1>7. /\ m.pc = pc /\ m.route = Chosen(p) /\ m.keys = run[p].keys /\ m.speaks = run[p].speaks
      /\ m.preferred = run[p].preferred /\ m.saved = run[p].saved /\ m.tools = run[p].tools
  BY Remembered DEF At, Memories
<1> HIDE DEF m
<1>8. SavedOrHeld(m)
  BY <1>2, <1>4, <1>5, <1>7, Remembered DEF SavedOrHeld
<1>9. run[p].pc \notin Ends \cup Owing /\ m.pc \notin Billing /\ m.pc # "charged"
  BY <1>1, <1>4, <1>7 DEF Ends, Owing, Billing
<1> QED
  BY <1>1, <1>6, <1>7, <1>8, <1>9, LocalFree

LEMMA DeniedKeeps ==
    ASSUME TurnIInv, NEW p \in Runs, Denied(p)
    PROVE  TurnIInv'
<1> DEFINE m == [run[p] EXCEPT !.failed = @ \cup {Chosen(p)}]
<1>1. run[p].pc = "choose" /\ Local(p, m) /\ Fault
  BY DEF Denied, Is
<1>2. Chosen(p) \in Routes
  BY ChosenType DEF Denied, TurnIInv
<1>3. m \in Memories
  <2>1. run[p] \in Memories
    BY Remembered
  <2>2. PICK F \in SUBSET Routes : F = run[p].failed \cup {Chosen(p)}
    BY <1>2, <2>1 DEF Memories
  <2>3. m = [run[p] EXCEPT !.failed = F]
    BY <2>2
  <2> HIDE DEF m
  <2> QED
    BY <2>1, <2>3 DEF Memories
<1>4. /\ m.pc = "choose" /\ m.keys = run[p].keys /\ m.speaks = run[p].speaks
      /\ m.preferred = run[p].preferred /\ m.saved = run[p].saved /\ m.tools = run[p].tools
  BY <1>1, Remembered DEF Memories
<1> HIDE DEF m
<1>5. SavedOrHeld(m)
  BY <1>4, Remembered DEF SavedOrHeld, Chosing
<1>6. run[p].pc \notin Ends \cup Owing /\ m.pc \notin Billing /\ m.pc # "charged"
  BY <1>1, <1>4 DEF Ends, Owing, Billing
<1> QED
  BY <1>1, <1>3, <1>4, <1>5, <1>6, LocalFree

(* The run ends, or starts another turn, without a call under way.          *)
LEMMA EndsQuietly ==
    ASSUME TurnIInv, NEW p \in Runs, NEW pc \in Ends, Local(p, Ended(pc)), Fault \/ Calm,
           run[p].pc \notin Ends \cup Owing
    PROVE  TurnIInv'
<1>1. Ended(pc) \in Memories /\ SavedOrHeld(Ended(pc)) /\ Ended(pc).pc = pc
  BY EndedType
<1>2. pc \notin Billing /\ pc # "charged"
  BY DEF Ends, Billing, Owing
<1> QED
  BY <1>1, <1>2, LocalFree

LEMMA TurnsAgain ==
    ASSUME TurnIInv, NEW p \in Runs, NEW m \in Memories, Local(p, NextTurn(p, m)), Calm,
           m.keys = run[p].keys, m.speaks \in {NoRoute, m.preferred},
           m.speaks = NoRoute => m.saved = m.tools,
           run[p].pc \notin Ends \cup Owing
    PROVE  TurnIInv'
<1>1. /\ NextTurn(p, m) \in Memories
      /\ SavedOrHeld(NextTurn(p, m))
      /\ \/ NextTurn(p, m).pc = "exhausted"
         \/ NextTurn(p, m).pc = "choose" /\ NextTurn(p, m).keys = m.keys
  BY NextTurnType
<1>2. /\ "exhausted" \in Ends /\ "choose" # "charged" /\ "exhausted" # "charged"
      /\ "choose" \notin Billing /\ "exhausted" \notin Billing
  BY DEF Ends, Billing, Owing
<1> QED
  BY <1>1, <1>2, LocalFree

LEMMA NothingLeftKeeps ==
    ASSUME TurnIInv, NEW p \in Runs, NothingLeft(p)
    PROVE  TurnIInv'
<1> DEFINE m == [run[p] EXCEPT !.relaxed = TRUE, !.escalations = @ + 1]
<1>1. run[p].pc = "choose" /\ run[p].pc \notin Ends \cup Owing
  BY DEF NothingLeft, Is, Ends, Owing
<1>2. m \in Memories
  <2>0. run[p].escalations \in Nat
    BY Remembered DEF Memories
  <2>1. PICK n \in Nat : n = run[p].escalations + 1
    BY <2>0
  <2>2. m = [run[p] EXCEPT !.relaxed = TRUE, !.escalations = n]
    BY <2>1
  <2>3. run[p] \in Memories
    BY Remembered
  <2> HIDE DEF m
  <2> QED
    BY <2>2, <2>3 DEF Memories
<1>3. /\ m.keys = run[p].keys /\ m.speaks = run[p].speaks
      /\ m.preferred = run[p].preferred /\ m.saved = run[p].saved /\ m.tools = run[p].tools
  BY Remembered DEF Memories
<1>4. \/ Local(p, NextTurn(p, m)) /\ Calm
      \/ Local(p, Ended("waiting")) /\ Calm
      \/ Throws(p)
  BY DEF NothingLeft
<1> HIDE DEF m
<1>5. CASE Local(p, NextTurn(p, m)) /\ Calm
  BY <1>1, <1>2, <1>3, <1>5, Remembered, TurnsAgain
<1>6. CASE Local(p, Ended("waiting")) /\ Calm
  <2>1. "waiting" \in Ends
    BY DEF Ends
  <2> QED
    BY <1>1, <1>6, <2>1, EndsQuietly
<1> QED
  BY <1>4, <1>5, <1>6, ThrowsKeeps

LEMMA SwitchKeeps ==
    ASSUME TurnIInv, NEW p \in Runs, Switch(p)
    PROVE  TurnIInv'
<1> DEFINE m == [At(p, "reserve") EXCEPT !.saved = run[p].tools, !.speaks = NoRoute]
<1>1. run[p].pc = "switch"
  BY DEF Switch, Is
<1>2. m \in Memories
  <2>1. run[p] \in Memories
    BY Remembered
  <2>2. At(p, "reserve") \in Memories
    BY <2>1, AtType DEF Steps
  <2>3. run[p].tools \in Nat
    BY <2>1 DEF Memories
  <2> QED
    BY <2>2, <2>3 DEF Memories
<1>3. /\ m.pc = "reserve" /\ m.route = run[p].route /\ m.keys = run[p].keys
      /\ m.speaks = NoRoute /\ m.saved = m.tools
  BY Remembered DEF At, Memories
<1>4. (Local(p, m) /\ Calm) \/ Throws(p)
  BY DEF Switch
<1> HIDE DEF m
<1>5. SavedOrHeld(m)
  <2>1. run[p].route \in Routes
    BY <1>1, Remembered DEF Steps, Chosing
  <2> QED
    BY <1>3, <2>1, TurnAssumption DEF SavedOrHeld
<1>6. run[p].pc \notin Ends \cup Owing /\ m.pc \notin Billing /\ m.pc # "charged"
  BY <1>1, <1>3 DEF Ends, Owing, Billing
<1> QED
  BY <1>2, <1>3, <1>4, <1>5, <1>6, LocalFree, ThrowsKeeps

-----------------------------------------------------------------------------
(* The calls of the budget.                                                 *)
LEMMA ReservesOne ==
    ASSUME BudgetIInv, NEW k \in Keys, NEW n \in Amounts, Reserve(k, n)
    PROVE  /\ BudgetIInv'
           /\ \A j \in Keys : j # k => hold'[j] = hold[j] /\ amount'[j] = amount[j]
           /\ hold'[k] = "reserved"
           /\ hold[k] = "none" => amount'[k] = n
           /\ actual' = actual
<1>0. BudgetTypeOK
  BY DEF BudgetIInv
<1>1. CASE NewReservation(k, n)
  <2>1. Fits(n)
    BY <1>1 DEF Reserve, CanReserve, NewReservation
  <2>2. BudgetIInv'
    BY <1>1, <2>1, NewReservationKeeps
  <2> QED
    BY <1>0, <1>1, <2>2 DEF NewReservation, BudgetTypeOK
<1>2. CASE hold[k] = "reserved" /\ UNCHANGED budget
  <2>1. BudgetIInv' /\ hold' = hold /\ amount' = amount
    BY <1>2, BudgetAlone
  <2> QED
    BY <1>2, <2>1 DEF budget, reservations
<1> QED
  BY <1>1, <1>2 DEF Reserve

LEMMA SettlesOne ==
    ASSUME BudgetIInv, NEW k \in Keys, NEW c \in Nat, Settle(k, c)
    PROVE  /\ BudgetIInv'
           /\ \A j \in Keys : j # k => hold'[j] = hold[j] /\ actual'[j] = actual[j]
           /\ hold'[k] = "settled" /\ amount' = amount
           /\ actual'[k] = IF hold[k] = "reserved" THEN c ELSE actual[k]
<1>0. BudgetTypeOK
  BY DEF BudgetIInv
<1>1. CASE FirstSettle(k, c)
  <2>1. BudgetIInv'
    BY <1>1, FirstSettleKeeps
  <2> QED
    BY <1>0, <1>1, <2>1 DEF FirstSettle, BudgetTypeOK
<1>2. CASE hold[k] = "settled" /\ UNCHANGED budget
  <2>1. BudgetIInv' /\ hold' = hold /\ amount' = amount
    BY <1>2, BudgetAlone
  <2> QED
    BY <1>2, <2>1 DEF budget, reservations
<1> QED
  BY <1>1, <1>2 DEF Settle

LEMMA ClocksAlone ==
    ASSUME BudgetIInv, RollIfOver \/ PeriodEnds \/ UNCHANGED budget
    PROVE  BudgetIInv' /\ hold' = hold /\ amount' = amount /\ actual' = actual
<1>1. BudgetIInv'
  BY BudgetStep DEF RollIfOver, BudgetNext
<1>2. hold' = hold /\ amount' = amount /\ actual' = actual
  BY DEF RollIfOver, Roll, PeriodEnds, budget, reservations
<1> QED
  BY <1>1, <1>2

LEMMA MoneyTypes ==
    ASSUME TurnIInv, NEW p \in Runs, NEW m \in Memories, run' = [run EXCEPT ![p] = m],
           BudgetIInv', UNCHANGED status, unbilled' \in Nat, Fault \/ Calm
    PROVE  TypeOK'
<1>1. health' = health /\ cooling' = cooling /\ row' = row /\ code' = code
  BY DEF status
<1>2. faults' \in Nat
  BY Counted DEF TurnIInv
<1>3. BudgetTypeOK'
  BY DEF BudgetIInv
<1>4. run' \in [Runs -> Memories]
  BY DEF TurnIInv, TypeOK
<1> QED
  BY <1>1, <1>2, <1>3, <1>4 DEF TurnIInv, TypeOK, Memories

LEMMA ReserveTurnKeeps ==
    ASSUME TurnIInv, NEW p \in Runs, ReserveTurn(p)
    PROVE  TurnIInv'
<1> DEFINE r == run[p]
           k == NewKey(p, "turn")
           m == [At(p, "started") EXCEPT !.keys = @ + 1]
<1>0. /\ r.pc = "reserve" /\ r \in Memories /\ r.route \in Routes /\ HoldsItsOwn(p)
      /\ r.speaks \in {NoRoute, r.route, r.preferred} /\ r.keys \in Nat
      /\ SavedOrHeld(r)
  <2>1. r.pc = "reserve"
    BY DEF ReserveTurn, Is
  <2>2. r \in Memories /\ r.route \in Routes /\ HoldsItsOwn(p)
    BY <2>1, Remembered DEF Steps, Chosing
  <2>3. SavedOrHeld(r)
    BY DEF TurnIInv, Coherent
  <2>4. r.keys \in Nat
    BY <2>2 DEF Memories
  <2> QED
    BY <2>1, <2>2, <2>3, <2>4 DEF SavedOrHeld
<1>1. r.pc \notin Ends \cup Owing /\ r.pc \notin Dead
  BY <1>0 DEF Ends, Owing, Dead
<1>2. \A j \in TurnKeys(p) : hold[j] # "reserved" /\ (j[2] > r.keys => hold[j] = "none")
  BY <1>0, <1>1 DEF HoldsItsOwn
<1>3. CASE ~Reserved(p) /\ Local(p, At(p, "started")) /\ Calm
  <2> DEFINE n == At(p, "started")
  <2>1. n \in Memories
    BY <1>0, AtType DEF Steps
  <2>2. /\ n.pc = "started" /\ n.route = r.route /\ n.keys = r.keys /\ n.speaks = r.speaks
        /\ n.preferred = r.preferred /\ n.saved = r.saved /\ n.tools = r.tools
    BY <1>0 DEF At, Memories
  <2> HIDE DEF n
  <2>3. SavedOrHeld(n)
    BY <1>0, <2>2, TurnAssumption DEF SavedOrHeld, Steps, Chosing
  <2>4. n.pc # "charged" /\ ~Owes(p, n) /\ Local(p, n)
    BY <1>3, <2>2 DEF n, Reserved, Owes
  <2> QED
    BY <1>1, <1>3, <2>1, <2>2, <2>3, <2>4, LocalFree
<1>4. CASE /\ Reserved(p)
           /\ Reserve(k, Worst)
           /\ UNCHANGED <<status, unbilled>>
           /\ \/ run' = [run EXCEPT ![p] = m] /\ Calm
              \/ run' = [run EXCEPT ![p] = Ended("aborted")] /\ Fault
  <2>1. k \in Keys /\ Worst \in Amounts
    <3>1. k \in Keys
      BY <1>4 DEF ReserveTurn
    <3>2. Worst \in Amounts
      BY TurnAssumption DEF Worst
    <3> QED
      BY <3>1, <3>2
  <2>2. k = <<p, r.keys + 1, "turn">> /\ k[1] = p /\ k[2] = r.keys + 1 /\ k[3] = "turn"
    BY DEF NewKey
  <2> HIDE DEF k
  <2>3. k \in TurnKeys(p) /\ hold[k] = "none"
    <3>1. k \in TurnKeys(p)
      BY <2>1, <2>2 DEF TurnKeys
    <3>2. k[2] > r.keys
      BY <1>0, <2>2
    <3> QED
      BY <1>2, <3>1, <3>2
  <2>4. /\ BudgetIInv'
        /\ \A j \in Keys : j # k => hold'[j] = hold[j] /\ amount'[j] = amount[j]
        /\ hold'[k] = "reserved" /\ amount'[k] = Worst
    BY <1>4, <2>1, <2>3, ReservesOne DEF TurnIInv
  <2>5. OthersHold(p)
    BY <2>2, <2>4 DEF OthersHold
  <2>6. unbilled' \in Nat
    BY <1>4 DEF TurnIInv, TypeOK
  <2>7. CASE run' = [run EXCEPT ![p] = m] /\ Calm
    <3>1. m \in Memories
      <4>1. At(p, "started") \in Memories
        BY <1>0, AtType DEF Steps
      <4>2. PICK i \in Nat : i = r.keys + 1
        BY <1>0
      <4>3. m = [At(p, "started") EXCEPT !.keys = i]
        BY <1>0, <4>2 DEF At, Memories
      <4> HIDE DEF m
      <4> QED
        BY <4>1, <4>3 DEF Memories
    <3>2. /\ m.pc = "started" /\ m.route = r.route /\ m.keys = r.keys + 1 /\ m.speaks = r.speaks
          /\ m.preferred = r.preferred /\ m.saved = r.saved /\ m.tools = r.tools
      BY <1>0 DEF At, Memories
    <3> HIDE DEF m
    <3>3. SavedOrHeld(m)
      BY <1>0, <3>2, TurnAssumption DEF SavedOrHeld, Steps, Chosing
    <3>4. TypeOK'
      BY <1>4, <2>4, <2>6, <2>7, <3>1, MoneyTypes
    <3>5. run'[p] = m
      BY <2>7 DEF TurnIInv, TypeOK
    <3>6. Key(p)' = k
      BY <2>2, <3>2, <3>5 DEF Key
    <3>7. Reserved(p)'
      BY <1>4, <3>2, <3>5 DEF Reserved
    <3>8. \A j \in TurnKeys(p) : j[2] > m.keys => hold'[j] = "none"
      <4> SUFFICES ASSUME NEW j \in TurnKeys(p), j[2] > m.keys
                   PROVE  hold'[j] = "none"
        OBVIOUS
      <4>1. j \in Keys /\ j[2] \in Nat
        BY TurnAssumption DEF TurnKeys
      <4>2. j[2] > r.keys /\ j[2] # r.keys + 1
        BY <1>0, <3>2, <4>1
      <4> QED
        BY <1>2, <2>2, <2>4, <4>1, <4>2
    <3>9. \A j \in TurnKeys(p) : hold'[j] = "reserved" => j = k
      BY <1>2, <2>4 DEF TurnKeys
    <3>10. "started" \in Owing /\ "started" \in Billing
      BY DEF Owing, Billing
    <3>11. HoldsItsOwn(p)'
      BY <2>1, <2>4, <3>2, <3>5, <3>6, <3>7, <3>8, <3>9, <3>10 DEF HoldsItsOwn, TurnKeys, Worst
    <3> QED
      BY <2>4, <2>5, <2>7, <3>1, <3>3, <3>4, <3>11, OthersKeep DEF TurnIInv
  <2>8. CASE run' = [run EXCEPT ![p] = Ended("aborted")] /\ Fault
    <3>1. /\ Ended("aborted") \in Memories /\ SavedOrHeld(Ended("aborted"))
          /\ Ended("aborted").pc = "aborted"
      BY EndedType DEF Ends
    <3>2. TypeOK'
      BY <1>4, <2>4, <2>6, <2>8, <3>1, MoneyTypes
    <3>3. run'[p] = Ended("aborted")
      BY <2>8 DEF TurnIInv, TypeOK
    <3>4. HoldsItsOwn(p)'
      BY <3>1, <3>3 DEF HoldsItsOwn, Billing, Owing, Dead, Ends
    <3> QED
      BY <2>4, <2>5, <2>8, <3>1, <3>2, <3>4, OthersKeep DEF TurnIInv
  <2> QED
    BY <1>4, <2>7, <2>8
<1>5. CASE Local(p, Ended("aborted")) /\ Calm
  BY <1>5, DiesLocally DEF Dead
<1>6. CASE Throws(p)
  BY <1>6, ThrowsKeeps
<1> QED
  BY <1>3, <1>4, <1>5, <1>6 DEF ReserveTurn

(* A memory that only moves on keeps the conversation in its hands.          *)
LEMMA MovesOn ==
    ASSUME TurnIInv, NEW p \in Runs, run[p].pc \in Steps \ (Chosing \cup {"switch"}),
           NEW m, m.speaks = run[p].speaks, m.preferred = run[p].preferred,
           m.saved = run[p].saved, m.tools = run[p].tools,
           m.route = run[p].route \/ m.pc \in Chosing
    PROVE  SavedOrHeld(m)
BY Remembered, TurnAssumption DEF SavedOrHeld, Steps, Chosing

LEMMA BeginKeeps ==
    ASSUME TurnIInv, NEW p \in Runs, Begin(p)
    PROVE  TurnIInv'
<1> DEFINE m == At(p, "call")
<1>1. run[p].pc = "started" /\ ((Local(p, m) /\ Calm) \/ Throws(p))
  BY DEF Begin, Is
<1>2. run[p] \in Memories
  BY Remembered
<1>3. m \in Memories
  BY <1>2, AtType DEF Steps
<1>4. /\ m.pc = "call" /\ m.route = run[p].route /\ m.keys = run[p].keys
      /\ m.speaks = run[p].speaks /\ m.preferred = run[p].preferred /\ m.saved = run[p].saved
      /\ m.tools = run[p].tools
  BY <1>2 DEF At, Memories
<1> HIDE DEF m
<1>5. SavedOrHeld(m)
  BY <1>1, <1>4, MovesOn DEF Steps, Chosing
<1>6. run[p].pc \in Owing /\ m.pc \in Owing
  BY <1>1, <1>4 DEF Owing
<1> QED
  BY <1>1, <1>3, <1>4, <1>5, <1>6, LocalHolding, ThrowsKeeps

LEMMA AnswerKeeps ==
    ASSUME TurnIInv, NEW p \in Runs, Answer(p)
    PROVE  TurnIInv'
<1>1. PICK c \in Costs : Local(p, [At(p, "settle") EXCEPT !.cost = c])
  BY DEF Answer
<1> DEFINE m == [At(p, "settle") EXCEPT !.cost = c]
<1>2. run[p].pc = "call" /\ Local(p, m) /\ Calm
  BY <1>1 DEF Answer, Is
<1>3. run[p] \in Memories
  BY Remembered
<1>4. At(p, "settle") \in Memories
  BY <1>3, AtType DEF Steps
<1>5. m \in Memories
  BY <1>4 DEF Memories
<1>6. /\ m.pc = "settle" /\ m.route = run[p].route /\ m.keys = run[p].keys
      /\ m.speaks = run[p].speaks /\ m.preferred = run[p].preferred /\ m.saved = run[p].saved
      /\ m.tools = run[p].tools
  BY <1>3 DEF At, Memories
<1> HIDE DEF m
<1>7. SavedOrHeld(m)
  BY <1>2, <1>6, MovesOn DEF Steps, Chosing
<1>8. run[p].pc \in Owing /\ m.pc \in Owing
  BY <1>2, <1>6 DEF Owing
<1> QED
  BY <1>2, <1>5, <1>6, <1>7, <1>8, LocalHolding

LEMMA FailKeeps ==
    ASSUME TurnIInv, NEW p \in Runs, Fail(p)
    PROVE  TurnIInv'
<1>1. PICK e \in Kinds, c \in Costs : Local(p, [At(p, "failed") EXCEPT !.error = e, !.cost = c])
  BY DEF Fail
<1> DEFINE m == [At(p, "failed") EXCEPT !.error = e, !.cost = c]
<1>2. run[p].pc = "call" /\ Local(p, m) /\ Fault
  BY <1>1 DEF Fail, Is
<1>3. run[p] \in Memories
  BY Remembered
<1>4. At(p, "failed") \in Memories /\ e \in FailureKinds
  BY <1>3, AtType, TurnAssumption DEF Steps
<1>5. m \in Memories
  BY <1>4 DEF Memories
<1>6. /\ m.pc = "failed" /\ m.route = run[p].route /\ m.keys = run[p].keys
      /\ m.speaks = run[p].speaks /\ m.preferred = run[p].preferred /\ m.saved = run[p].saved
      /\ m.tools = run[p].tools
  BY <1>3 DEF At, Memories
<1> HIDE DEF m
<1>7. SavedOrHeld(m)
  BY <1>2, <1>6, MovesOn DEF Steps, Chosing
<1>8. run[p].pc \in Owing /\ m.pc \in Owing
  BY <1>2, <1>6 DEF Owing
<1> QED
  BY <1>2, <1>5, <1>6, <1>7, <1>8, LocalHolding

LEMMA HookFailsKeeps ==
    ASSUME TurnIInv, NEW p \in Runs, HookFails(p)
    PROVE  TurnIInv'
<1> DEFINE m == At(p, "hook")
<1>1. run[p].pc = "call" /\ Local(p, m) /\ Fault
  BY DEF HookFails, Is
<1>2. run[p] \in Memories
  BY Remembered
<1>3. m \in Memories
  BY <1>2, AtType DEF Steps
<1>4. /\ m.pc = "hook" /\ m.route = run[p].route /\ m.keys = run[p].keys
      /\ m.speaks = run[p].speaks /\ m.preferred = run[p].preferred /\ m.saved = run[p].saved
      /\ m.tools = run[p].tools
  BY <1>2 DEF At, Memories
<1> HIDE DEF m
<1>5. SavedOrHeld(m)
  BY <1>1, <1>4, MovesOn DEF Steps, Chosing
<1>6. run[p].pc \in Owing /\ m.pc \in Owing
  BY <1>1, <1>4 DEF Owing
<1> QED
  BY <1>1, <1>3, <1>4, <1>5, <1>6, LocalHolding

-----------------------------------------------------------------------------
(* The settlement of a turn: afterwards nothing of it is reserved.          *)
LEMMA SettleTurnKeeps ==
    ASSUME TurnIInv, NEW p \in Runs, NEW c \in Costs, NEW m \in Memories, SettleTurn(p, c, m),
           Fault \/ Calm, run[p].pc \in Owing, SavedOrHeld(m),
           m.pc \in Ends \/ m.keys = run[p].keys,
           m.pc \in Billing /\ Owes(p, m) =>
               m.route = run[p].route /\ m.pc \notin Ends \cup {"started", "call", "settle"},
           m.pc # "charged"
    PROVE  TurnIInv'
<1>1. /\ run' = [run EXCEPT ![p] = m] /\ UNCHANGED <<status, unbilled>>
      /\ IF Reserved(p) THEN Settle(Key(p), c) ELSE UNCHANGED budget
  BY DEF SettleTurn
<1>2. HoldsItsOwn(p) /\ run[p] \in Memories
  BY Remembered
<1>3. /\ run[p].pc \notin Ends /\ run[p].pc \notin Dead /\ run[p].pc \in Billing
  BY DEF Owing, Ends, Dead, Billing
<1>4. /\ BudgetIInv' /\ OthersHold(p)
      /\ \A k \in TurnKeys(p) : /\ hold'[k] # "reserved"
                                /\ k[2] > run[p].keys => hold'[k] = hold[k]
  <2>1. CASE Reserved(p)
    <3>1. Key(p) \in Keys /\ c \in Nat
      BY <1>2, <1>3, <2>1, BudgetAssumption DEF HoldsItsOwn
    <3>2. /\ BudgetIInv' /\ amount' = amount
          /\ \A j \in Keys : j # Key(p) => hold'[j] = hold[j]
          /\ hold'[Key(p)] = "settled"
      BY <1>1, <2>1, <3>1, SettlesOne DEF TurnIInv
    <3>3. Key(p)[1] = p /\ Key(p)[2] = run[p].keys /\ run[p].keys \in Nat
      BY <1>2 DEF Key, Memories
    <3>4. OthersHold(p)
      BY <3>2, <3>3 DEF OthersHold
    <3>5. \A k \in TurnKeys(p) : k \in Keys /\ (hold[k] = "reserved" => k = Key(p))
      BY <1>2, <1>3 DEF HoldsItsOwn, TurnKeys
    <3>6. \A k \in TurnKeys(p) : k[2] > run[p].keys => k # Key(p)
      BY <3>3
    <3> QED
      BY <3>2, <3>4, <3>5, <3>6
  <2>2. CASE ~Reserved(p)
    <3>1. BudgetIInv' /\ hold' = hold /\ amount' = amount
      BY <1>1, <2>2, BudgetAlone DEF TurnIInv
    <3>2. \A k \in TurnKeys(p) : hold[k] # "reserved"
      BY <1>2, <1>3, <2>2 DEF HoldsItsOwn
    <3> QED
      BY <3>1, <3>2 DEF OthersHold
  <2> QED
    BY <2>1, <2>2
<1>5. m.pc \in Ends \/ m.keys >= run[p].keys
  <2>1. run[p].keys \in Nat
    BY <1>2 DEF Memories
  <2> QED
    BY <2>1
<1>6. m.pc \in Billing /\ Owes(p, m) =>
          <<p, m.keys, "turn">> \in Keys /\ m.pc \notin {"started", "call", "settle"}
  BY <1>2, <1>3 DEF HoldsItsOwn, Reserved, Owes, Key
<1>7. Coherent'
  BY <1>1, <1>3, <1>4, <1>5, <1>6, FreeHanded
<1>8. unbilled' \in Nat
  BY <1>1 DEF TurnIInv, TypeOK
<1>9. TypeOK'
  BY <1>1, <1>4, <1>8, MoneyTypes
<1> QED
  BY <1>4, <1>7, <1>9 DEF TurnIInv

LEMMA MisreadType ==
    ASSUME NEW p, run[p] \in Memories, NEW kind \in FailureKinds
    PROVE  LET m == Misread(p, kind)
           IN /\ m \in Memories
              /\ m.pc = "failed" /\ m.route = run[p].route /\ m.keys = run[p].keys
              /\ m.speaks = run[p].speaks /\ m.preferred = run[p].preferred
              /\ m.saved = run[p].saved /\ m.tools = run[p].tools
<1>1. At(p, "failed") \in Memories
  BY AtType DEF Steps
<1>2. 0 \in Costs
  BY TurnAssumption
<1>3. Misread(p, kind) \in Memories
  BY <1>1, <1>2 DEF Misread, Memories
<1> QED
  BY <1>3 DEF Misread, At, Memories

(* The kinds that writes of ours that fail are given.                       *)
LEMMA OursAreKinds == Unsettled \in FailureKinds /\ Unreported \subseteq FailureKinds
BY DEF Unsettled, Unreported, FailureKinds

LEMMA SettleAnswerKeeps ==
    ASSUME TurnIInv, NEW p \in Runs, SettleAnswer(p)
    PROVE  TurnIInv'
<1> DEFINE m == [At(p, "record") EXCEPT !.cost = 0]
           n == Misread(p, Unsettled)
<1>1. /\ run[p].pc = "settle"
      /\ \/ SettleTurn(p, run[p].cost, m) /\ Calm
         \/ SettleTurn(p, run[p].cost, n) /\ Fault
         \/ Local(p, n) /\ Fault
  BY DEF SettleAnswer, Is
<1>2. run[p] \in Memories /\ run[p].cost \in Costs
  BY Remembered DEF Memories
<1>3. m \in Memories
  <2>1. At(p, "record") \in Memories
    BY <1>2, AtType DEF Steps
  <2> QED
    BY <2>1, TurnAssumption DEF Memories
<1>4. /\ m.pc = "record" /\ m.route = run[p].route /\ m.keys = run[p].keys
      /\ m.speaks = run[p].speaks /\ m.preferred = run[p].preferred /\ m.saved = run[p].saved
      /\ m.tools = run[p].tools
  BY <1>2 DEF At, Memories
<1>5. /\ n \in Memories
      /\ n.pc = "failed" /\ n.route = run[p].route /\ n.keys = run[p].keys
      /\ n.speaks = run[p].speaks /\ n.preferred = run[p].preferred /\ n.saved = run[p].saved
      /\ n.tools = run[p].tools
  BY <1>2, MisreadType, OursAreKinds
<1> HIDE DEF m, n
<1>6. SavedOrHeld(m) /\ SavedOrHeld(n)
  BY <1>1, <1>4, <1>5, MovesOn DEF Steps, Chosing
<1>7. /\ run[p].pc \in Owing /\ n.pc \in Owing
      /\ m.pc \notin Ends \cup {"started", "call", "settle"}
      /\ n.pc \notin Ends \cup {"started", "call", "settle"}
      /\ m.pc # "charged" /\ n.pc # "charged"
  BY <1>1, <1>4, <1>5 DEF Owing, Ends
<1>8. CASE SettleTurn(p, run[p].cost, m) /\ Calm
  BY <1>2, <1>3, <1>4, <1>6, <1>7, <1>8, SettleTurnKeeps
<1>9. CASE SettleTurn(p, run[p].cost, n) /\ Fault
  BY <1>2, <1>5, <1>6, <1>7, <1>9, SettleTurnKeeps
<1>10. CASE Local(p, n) /\ Fault
  BY <1>5, <1>6, <1>7, <1>10, LocalHolding
<1> QED
  BY <1>1, <1>8, <1>9, <1>10

LEMMA SettleHookKeeps ==
    ASSUME TurnIInv, NEW p \in Runs, SettleHook(p)
    PROVE  TurnIInv'
<1> DEFINE m == Ended("aborted")
<1>1. run[p].pc = "hook" /\ ((SettleTurn(p, 0, m) /\ Calm) \/ Throws(p))
  BY DEF SettleHook, Is
<1>2. m \in Memories /\ SavedOrHeld(m) /\ m.pc = "aborted"
  BY EndedType DEF Ends
<1> HIDE DEF m
<1>3. /\ run[p].pc \in Owing /\ m.pc \in Ends /\ m.pc \notin Billing /\ m.pc # "charged"
      /\ 0 \in Costs
  BY <1>1, <1>2, TurnAssumption DEF Owing, Ends, Billing
<1> QED
  BY <1>1, <1>2, <1>3, SettleTurnKeeps, ThrowsKeeps

LEMMA NotLess == \A i \in Nat : i >= i
OBVIOUS

(* A step that also writes the row of a route, between two settlements.     *)
LEMMA WritesRow ==
    ASSUME TurnIInv, NEW p \in Runs, NEW m \in Memories, run' = [run EXCEPT ![p] = m],
           UNCHANGED budget, unbilled' = unbilled, Calm,
           health' \in [Routes -> Healths], cooling' \subseteq Routes, row' \in [Routes -> 0..3],
           code' \in [Routes -> FailureKinds \cup {""}],
           SavedOrHeld(m), m.keys = run[p].keys, m.route = run[p].route,
           run[p].pc \notin Ends \cup Owing,
           m.pc \in Billing => run[p].pc \in Billing /\ m.pc \notin {"started", "call", "settle"},
           m.pc # "charged"
    PROVE  TurnIInv'
<1>1. BudgetIInv' /\ hold' = hold /\ amount' = amount
  BY BudgetAlone DEF TurnIInv
<1>2. HoldsItsOwn(p) /\ run[p].keys \in Nat
  BY Remembered DEF Memories
<1>3. \A k \in TurnKeys(p) : hold[k] # "reserved"
  BY <1>2 DEF HoldsItsOwn, Dead, Ends
<1>4. m.keys >= run[p].keys
  BY <1>2, NotLess
<1>5. m.pc \in Billing /\ Owes(p, m) =>
          <<p, m.keys, "turn">> \in Keys /\ m.pc \notin {"started", "call", "settle"}
  BY <1>2 DEF HoldsItsOwn, Reserved, Owes, Key
<1>6. OthersHold(p)
  BY <1>1 DEF OthersHold
<1>7. Coherent'
  BY <1>1, <1>3, <1>4, <1>5, <1>6, FreeHanded
<1>8. faults' \in Nat
  BY Counted DEF TurnIInv
<1>9. run' \in [Runs -> Memories] /\ BudgetTypeOK' /\ unbilled' \in Nat
  BY <1>1 DEF TurnIInv, TypeOK, BudgetIInv
<1>10. TypeOK'
  BY <1>8, <1>9 DEF TypeOK, Memories
<1> QED
  BY <1>1, <1>7, <1>10 DEF TurnIInv

LEMMA RecordSuccessKeeps ==
    ASSUME TurnIInv, NEW p \in Runs, RecordSuccess(p)
    PROVE  TurnIInv'
<1> DEFINE m == At(p, "report")
<1>1. run[p].pc = "record"
  BY DEF RecordSuccess, Is
<1>2. run[p] \in Memories /\ run[p].route \in Routes
  BY <1>1, Remembered DEF Steps, Chosing
<1>3. m \in Memories
  BY <1>2, AtType DEF Steps
<1>4. /\ m.pc = "report" /\ m.route = run[p].route /\ m.keys = run[p].keys
      /\ m.speaks = run[p].speaks /\ m.preferred = run[p].preferred /\ m.saved = run[p].saved
      /\ m.tools = run[p].tools
  BY <1>2 DEF At, Memories
<1>5. /\ run[p].pc \notin Ends \cup Owing /\ run[p].pc \in Billing
      /\ m.pc \notin {"started", "call", "settle"} /\ m.pc # "charged"
  BY <1>1, <1>4 DEF Ends, Owing, Billing
<1>6. CASE /\ health' = [health EXCEPT ![run[p].route] = "healthy"]
           /\ cooling' = cooling \ {run[p].route}
           /\ row' = [row EXCEPT ![run[p].route] = 0]
           /\ run' = [run EXCEPT ![p] = m]
           /\ UNCHANGED <<budget, code, unbilled>> /\ Calm
  <2>1. health' \in [Routes -> Healths] /\ cooling' \subseteq Routes
    BY <1>2, <1>6 DEF TurnIInv, TypeOK, Healths
  <2>2. row' \in [Routes -> 0..3]
    <3>1. row \in [Routes -> 0..3]
      BY DEF TurnIInv, TypeOK
    <3>2. 0 \in 0..3
      OBVIOUS
    <3> HIDE DEF m
    <3> QED
      BY <1>2, <1>6, <3>1, <3>2
  <2>5. code' \in [Routes -> FailureKinds \cup {""}]
    BY <1>6 DEF TurnIInv, TypeOK
  <2> HIDE DEF m
  <2>3. SavedOrHeld(m)
    BY <1>1, <1>4, MovesOn DEF Steps, Chosing
  <2> QED
    BY <1>3, <1>4, <1>5, <1>6, <2>1, <2>2, <2>3, <2>5, WritesRow
<1>7. CASE Local(p, m) /\ Fault
  <2> HIDE DEF m
  <2>1. SavedOrHeld(m)
    BY <1>1, <1>4, MovesOn DEF Steps, Chosing
  <2> QED
    BY <1>3, <1>4, <1>5, <1>7, <2>1, LocalFree
<1> QED
  BY <1>6, <1>7 DEF RecordSuccess

LEMMA ReportKeeps ==
    ASSUME TurnIInv, NEW p \in Runs, Report(p)
    PROVE  TurnIInv'
<1> DEFINE m == At(p, "answered")
<1>0. PICK kind \in Unreported :
        \/ Local(p, m) /\ Calm
        \/ Local(p, Misread(p, kind)) /\ Fault
  BY DEF Report, Unreported
<1> DEFINE n == Misread(p, kind)
<1>1. run[p].pc = "report" /\ ((Local(p, m) /\ Calm) \/ (Local(p, n) /\ Fault))
  BY <1>0 DEF Report, Is
<1>2. run[p] \in Memories
  BY Remembered
<1>3. m \in Memories
  BY <1>2, AtType DEF Steps
<1>4. /\ m.pc = "answered" /\ m.route = run[p].route /\ m.keys = run[p].keys
      /\ m.speaks = run[p].speaks /\ m.preferred = run[p].preferred /\ m.saved = run[p].saved
      /\ m.tools = run[p].tools
  BY <1>2 DEF At, Memories
<1>5. /\ n \in Memories
      /\ n.pc = "failed" /\ n.route = run[p].route /\ n.keys = run[p].keys
      /\ n.speaks = run[p].speaks /\ n.preferred = run[p].preferred /\ n.saved = run[p].saved
      /\ n.tools = run[p].tools
  BY <1>2, MisreadType, OursAreKinds
<1> HIDE DEF m, n
<1>6. SavedOrHeld(m) /\ SavedOrHeld(n)
  BY <1>1, <1>4, <1>5, MovesOn DEF Steps, Chosing
<1>7. /\ run[p].pc \notin Ends \cup Owing /\ run[p].pc \in Billing
      /\ m.pc \notin Billing /\ m.pc # "charged"
      /\ n.pc \notin {"started", "call", "settle"} /\ n.pc # "charged"
  BY <1>1, <1>4, <1>5 DEF Ends, Owing, Billing
<1>8. CASE Local(p, m) /\ Calm
  BY <1>3, <1>4, <1>6, <1>7, <1>8, LocalFree
<1>9. CASE Local(p, n) /\ Fault
  BY <1>5, <1>6, <1>7, <1>9, LocalFree
<1> QED
  BY <1>1, <1>8, <1>9

-----------------------------------------------------------------------------
(* A failed call is settled, charged if it was free and billed, and told to *)
(* the row of its route.                                                    *)
LEMMA SettleFailureKeeps ==
    ASSUME TurnIInv, NEW p \in Runs, SettleFailure(p)
    PROVE  TurnIInv'
<1> DEFINE then == IF ~Reserved(p) /\ run[p].cost > 0 THEN "charge" ELSE "read"
           owed == IF then = "charge" THEN run[p].cost ELSE 0
           m == [At(p, then) EXCEPT !.cost = owed]
           n == Ended("aborted")
<1>1. /\ run[p].pc = "failed"
      /\ \/ SettleTurn(p, run[p].cost, m) /\ Calm
         \/ SettleTurn(p, run[p].cost, n) /\ Fault
         \/ Throws(p)
  BY DEF SettleFailure, Is
<1>2. run[p] \in Memories /\ run[p].cost \in Costs
  BY Remembered DEF Memories
<1>3. then \in {"charge", "read"} /\ owed \in Costs
  BY <1>2, TurnAssumption
<1> HIDE DEF then, owed
<1>4. m \in Memories
  <2>1. At(p, then) \in Memories
    BY <1>2, <1>3, AtType DEF Steps
  <2> QED
    BY <1>3, <2>1 DEF Memories
<1>5. /\ m.pc = then /\ m.route = run[p].route /\ m.keys = run[p].keys
      /\ m.speaks = run[p].speaks /\ m.preferred = run[p].preferred /\ m.saved = run[p].saved
      /\ m.tools = run[p].tools
  BY <1>2 DEF At, Memories
<1> HIDE DEF m
<1>6. SavedOrHeld(m)
  BY <1>1, <1>5, MovesOn DEF Steps, Chosing
<1>7. run[p].pc \in Owing /\ m.pc \notin Billing /\ m.pc # "charged"
  BY <1>1, <1>3, <1>5 DEF Owing, Billing
<1>8. n \in Memories /\ SavedOrHeld(n) /\ n.pc = "aborted"
  BY EndedType DEF Ends
<1>9. n.pc \in Ends /\ n.pc \notin Billing /\ n.pc # "charged"
  BY <1>8 DEF Ends, Billing, Owing
<1> HIDE DEF n
<1>10. CASE SettleTurn(p, run[p].cost, m) /\ Calm
  BY <1>2, <1>4, <1>5, <1>6, <1>7, <1>10, SettleTurnKeeps
<1>11. CASE SettleTurn(p, run[p].cost, n) /\ Fault
  BY <1>2, <1>7, <1>8, <1>9, <1>11, SettleTurnKeeps
<1> QED
  BY <1>1, <1>10, <1>11, ThrowsKeeps

(* A charge touches no key of a turn.                                       *)
LEMMA ChargesKeep ==
    ASSUME TurnIInv, NEW p \in Runs, NEW k \in Keys, k[1] = p, k[3] = "incident",
           NEW m \in Memories, run' = [run EXCEPT ![p] = m],
           BudgetIInv', \A j \in Keys : j # k => hold'[j] = hold[j] /\ amount'[j] = amount[j],
           UNCHANGED status, unbilled' \in Nat, Fault \/ Calm, SavedOrHeld(m),
           run[p].pc \notin Ends \cup Owing,
           m.keys >= run[p].keys, m.pc \notin Billing,
           m.pc = "charged" => <<p, m.keys, "incident">> \in Keys
    PROVE  TurnIInv'
<1>1. TypeOK'
  BY MoneyTypes
<1>2. OthersHold(p)
  BY DEF OthersHold
<1>3. \A j \in TurnKeys(p) : hold'[j] = hold[j]
  BY DEF TurnKeys
<1>4. \A j \in TurnKeys(p) : hold[j] # "reserved"
  <2>1. HoldsItsOwn(p)
    BY Remembered
  <2> QED
    BY <2>1 DEF HoldsItsOwn, Dead, Ends
<1>5. Coherent'
  BY <1>2, <1>3, <1>4, FreeHanded
<1> QED
  BY <1>1, <1>5 DEF TurnIInv

LEMMA ReadMemory ==
    ASSUME NEW p, run[p] \in Memories
    PROVE  LET m == [At(p, "read") EXCEPT !.cost = 0]
           IN /\ m \in Memories
              /\ m.pc = "read" /\ m.route = run[p].route /\ m.keys = run[p].keys
              /\ m.speaks = run[p].speaks /\ m.preferred = run[p].preferred
              /\ m.saved = run[p].saved /\ m.tools = run[p].tools
<1> DEFINE m == [At(p, "read") EXCEPT !.cost = 0]
<1>1. At(p, "read") \in Memories
  BY AtType DEF Steps
<1>2. m \in Memories
  BY <1>1, TurnAssumption DEF Memories
<1>3. /\ m.pc = "read" /\ m.route = run[p].route /\ m.keys = run[p].keys
      /\ m.speaks = run[p].speaks /\ m.preferred = run[p].preferred
      /\ m.saved = run[p].saved /\ m.tools = run[p].tools
  BY <1>1 DEF At, Memories
<1> QED
  BY <1>2, <1>3

LEMMA UnbilledType ==
    ASSUME TurnIInv, NEW p \in Runs
    PROVE  unbilled \in Nat /\ unbilled + run[p].cost \in Nat
<1>1. run[p].cost \in Costs
  BY Remembered DEF Memories
<1>2. run[p].cost \in Nat /\ unbilled \in Nat
  BY <1>1, BudgetAssumption DEF TurnIInv, TypeOK
<1> QED
  BY <1>2

LEMMA ChargeKeeps ==
    ASSUME TurnIInv, NEW p \in Runs, Charge(p)
    PROVE  TurnIInv'
<1> DEFINE k == NewKey(p, "incident")
           m == [At(p, "charged") EXCEPT !.keys = @ + 1]
           n == [At(p, "read") EXCEPT !.cost = 0]
<1>1. run[p].pc = "charge" /\ k \in Keys
  BY DEF Charge, Is
<1>2. run[p] \in Memories /\ run[p].keys \in Nat
  BY Remembered DEF Memories
<1>3. k = <<p, run[p].keys + 1, "incident">> /\ k[1] = p /\ k[3] = "incident"
  BY DEF NewKey
<1>4. m \in Memories
  <2>1. At(p, "charged") \in Memories
    BY <1>2, AtType DEF Steps
  <2>2. PICK i \in Nat : i = run[p].keys + 1
    BY <1>2
  <2>3. m = [At(p, "charged") EXCEPT !.keys = i]
    BY <1>2, <2>2 DEF At, Memories
  <2> HIDE DEF m
  <2> QED
    BY <2>1, <2>3 DEF Memories
<1>5. /\ m.pc = "charged" /\ m.route = run[p].route /\ m.keys = run[p].keys + 1
      /\ m.speaks = run[p].speaks /\ m.preferred = run[p].preferred /\ m.saved = run[p].saved
      /\ m.tools = run[p].tools
  BY <1>2 DEF At, Memories
<1>6. /\ n \in Memories
      /\ n.pc = "read" /\ n.route = run[p].route /\ n.keys = run[p].keys
      /\ n.speaks = run[p].speaks /\ n.preferred = run[p].preferred
      /\ n.saved = run[p].saved /\ n.tools = run[p].tools
  BY <1>2, ReadMemory
<1>7. \/ /\ Reserve(k, 1) /\ run' = [run EXCEPT ![p] = m]
         /\ UNCHANGED <<status, unbilled>> /\ Calm
      \/ /\ Reserve(k, 1) \/ UNCHANGED budget
         /\ run' = [run EXCEPT ![p] = n] /\ unbilled' = unbilled + run[p].cost
         /\ UNCHANGED status /\ (Fault \/ Calm)
  BY DEF Charge, Uncharged
<1> HIDE DEF k, m, n
<1>8. SavedOrHeld(m) /\ SavedOrHeld(n)
  BY <1>1, <1>5, <1>6, MovesOn DEF Steps, Chosing
<1>9. /\ run[p].pc \notin Ends \cup Owing /\ m.pc \notin Billing /\ n.pc \notin Billing
      /\ n.pc # "charged" /\ m.keys >= run[p].keys /\ n.keys >= run[p].keys
      /\ 1 \in Amounts
  BY <1>1, <1>2, <1>5, <1>6, TurnAssumption DEF Owing, Ends, Billing
<1>10. ASSUME Reserve(k, 1) \/ UNCHANGED budget
       PROVE  BudgetIInv' /\ \A j \in Keys : j # k => hold'[j] = hold[j] /\ amount'[j] = amount[j]
  BY <1>1, <1>9, <1>10, ReservesOne, BudgetAlone DEF TurnIInv
<1>11. CASE /\ Reserve(k, 1) /\ run' = [run EXCEPT ![p] = m]
            /\ UNCHANGED <<status, unbilled>> /\ Calm
  <2>1. <<p, m.keys, "incident">> \in Keys
    BY <1>1, <1>3, <1>5
  <2>2. unbilled' \in Nat
    BY <1>11, UnbilledType
  <2> QED
    BY <1>1, <1>3, <1>4, <1>8, <1>9, <1>10, <1>11, <2>1, <2>2, ChargesKeep
<1>12. CASE /\ Reserve(k, 1) \/ UNCHANGED budget
            /\ run' = [run EXCEPT ![p] = n] /\ unbilled' = unbilled + run[p].cost
            /\ UNCHANGED status /\ (Fault \/ Calm)
  <2>1. unbilled' \in Nat
    BY <1>12, UnbilledType
  <2> QED
    BY <1>1, <1>3, <1>6, <1>8, <1>9, <1>10, <1>12, <2>1, ChargesKeep
<1> QED
  BY <1>7, <1>11, <1>12

LEMMA NothingToChargeKeeps ==
    ASSUME TurnIInv, NEW p \in Runs, NothingToCharge(p)
    PROVE  TurnIInv'
<1> DEFINE n == [At(p, "read") EXCEPT !.cost = 0]
<1>1. /\ run[p].pc = "charge"
      /\ run' = [run EXCEPT ![p] = n] /\ unbilled' = unbilled + run[p].cost
      /\ UNCHANGED status /\ UNCHANGED budget /\ Calm
  BY DEF NothingToCharge, Uncharged, Is
<1>2. run[p] \in Memories /\ run[p].keys \in Nat /\ HoldsItsOwn(p)
  BY Remembered DEF Memories
<1>3. /\ n \in Memories
      /\ n.pc = "read" /\ n.route = run[p].route /\ n.keys = run[p].keys
      /\ n.speaks = run[p].speaks /\ n.preferred = run[p].preferred
      /\ n.saved = run[p].saved /\ n.tools = run[p].tools
  BY <1>2, ReadMemory
<1> HIDE DEF n
<1>4. SavedOrHeld(n)
  BY <1>1, <1>3, MovesOn DEF Steps, Chosing
<1>5. /\ run[p].pc \notin Ends /\ run[p].pc \notin Owing /\ run[p].pc \notin Dead
      /\ n.pc \notin Billing /\ n.pc # "charged" /\ n.keys >= run[p].keys
  BY <1>1, <1>2, <1>3 DEF Owing, Ends, Dead, Billing
<1>6. BudgetIInv' /\ hold' = hold /\ amount' = amount
  BY <1>1, BudgetAlone DEF TurnIInv
<1>7. \A k \in TurnKeys(p) : hold'[k] # "reserved" /\ hold'[k] = hold[k]
  BY <1>2, <1>5, <1>6 DEF HoldsItsOwn
<1>8. OthersHold(p)
  BY <1>6 DEF OthersHold
<1>9. Coherent'
  BY <1>1, <1>3, <1>4, <1>5, <1>7, <1>8, FreeHanded
<1>10. unbilled' \in Nat
  BY <1>1, UnbilledType
<1>11. TypeOK'
  BY <1>1, <1>3, <1>6, <1>10, MoneyTypes
<1> QED
  BY <1>6, <1>9, <1>11 DEF TurnIInv

LEMMA SettleChargeKeeps ==
    ASSUME TurnIInv, NEW p \in Runs, SettleCharge(p)
    PROVE  TurnIInv'
<1> DEFINE k == Incident(p)
           n == [At(p, "read") EXCEPT !.cost = 0]
<1>1. run[p].pc = "charged"
  BY DEF SettleCharge, Is
<1>2. run[p] \in Memories /\ run[p].keys \in Nat /\ run[p].cost \in Costs
  BY Remembered DEF Memories
<1>3. k \in Keys /\ k[1] = p /\ k[3] = "incident"
  <2>1. HoldsItsOwn(p)
    BY Remembered
  <2> QED
    BY <1>1, <2>1 DEF HoldsItsOwn, Incident
<1>4. /\ n \in Memories
      /\ n.pc = "read" /\ n.route = run[p].route /\ n.keys = run[p].keys
      /\ n.speaks = run[p].speaks /\ n.preferred = run[p].preferred
      /\ n.saved = run[p].saved /\ n.tools = run[p].tools
  BY <1>2, ReadMemory
<1>5. /\ Settle(k, run[p].cost) \/ UNCHANGED budget
      /\ run' = [run EXCEPT ![p] = n]
      /\ unbilled' = unbilled \/ unbilled' = unbilled + run[p].cost
      /\ UNCHANGED status /\ (Fault \/ Calm)
  BY DEF SettleCharge, Uncharged
<1> HIDE DEF k, n
<1>6. SavedOrHeld(n)
  BY <1>1, <1>4, MovesOn DEF Steps, Chosing
<1>7. /\ run[p].pc \notin Ends \cup Owing /\ n.pc \notin Billing
      /\ n.pc # "charged" /\ n.keys >= run[p].keys
  BY <1>1, <1>2, <1>4 DEF Owing, Ends, Billing
<1>8. BudgetIInv' /\ \A j \in Keys : j # k => hold'[j] = hold[j] /\ amount'[j] = amount[j]
  <2>1. run[p].cost \in Nat
    BY <1>2, BudgetAssumption
  <2> QED
    BY <1>3, <1>5, <2>1, SettlesOne, BudgetAlone DEF TurnIInv
<1>9. unbilled' \in Nat
  BY <1>5, UnbilledType
<1> QED
  BY <1>3, <1>4, <1>5, <1>6, <1>7, <1>8, <1>9, ChargesKeep

LEMMA ReadStateKeeps ==
    ASSUME TurnIInv, NEW p \in Runs, ReadState(p)
    PROVE  TurnIInv'
<1> DEFINE then == IF run[p].error = "drill" THEN "next" ELSE "write"
           seen_ == [health |-> health[run[p].route], row |-> row[run[p].route]]
           m == [At(p, then) EXCEPT !.seen = seen_]
<1>1. run[p].pc = "read" /\ Local(p, m) /\ Calm
  BY DEF ReadState, Is
<1>2. run[p] \in Memories /\ run[p].route \in Routes
  BY <1>1, Remembered DEF Steps, Chosing
<1>3. then \in {"next", "write"}
  OBVIOUS
<1>4. seen_ \in [health : Healths, row : 0..3]
  <2>1. health[run[p].route] \in Healths /\ row[run[p].route] \in 0..3
    BY <1>2 DEF TurnIInv, TypeOK
  <2> QED
    BY <2>1
<1> HIDE DEF then, seen_
<1>5. m \in Memories
  <2>1. At(p, then) \in Memories
    BY <1>2, <1>3, AtType DEF Steps
  <2> QED
    BY <1>4, <2>1 DEF Memories
<1>6. /\ m.pc = then /\ m.route = run[p].route /\ m.keys = run[p].keys
      /\ m.speaks = run[p].speaks /\ m.preferred = run[p].preferred /\ m.saved = run[p].saved
      /\ m.tools = run[p].tools
  BY <1>2 DEF At, Memories
<1> HIDE DEF m
<1>7. SavedOrHeld(m)
  BY <1>1, <1>6, MovesOn DEF Steps, Chosing
<1>8. run[p].pc \notin Ends \cup Owing /\ m.pc \notin Billing /\ m.pc # "charged"
  BY <1>1, <1>3, <1>6 DEF Ends, Owing, Billing
<1> QED
  BY <1>1, <1>5, <1>6, <1>7, <1>8, LocalFree

(* What a failure makes of a route is one of its healths.                   *)
LEMMA OutcomeHealth ==
    ASSUME NEW kind, NEW wait, NEW reset, NEW h \in Healths, NEW n
    PROVE  FailureOutcome(kind, wait, reset, h, n).health \in Healths
BY Zenon DEF FailureOutcome, Healths

LEMMA CountedRow ==
    ASSUME NEW n \in 0..3
    PROVE  Cap3(n + 1) \in 0..3
BY DEF Cap3, LesserOf

LEMMA DecidedType ==
    ASSUME NEW p, run[p] \in Memories
    PROVE  LET m == Decided(p)
           IN /\ m \in Memories
              /\ m.pc = "next" /\ m.route = run[p].route /\ m.keys = run[p].keys
              /\ m.speaks = run[p].speaks /\ m.preferred = run[p].preferred
              /\ m.saved = run[p].saved /\ m.tools = run[p].tools
<1>1. At(p, "next") \in Memories
  BY AtType DEF Steps
<1>2. Idle.seen \in [health : Healths, row : 0..3]
  BY DEF Idle, Healths
<1>3. Decided(p) \in Memories
  BY <1>1, <1>2 DEF Decided, Memories
<1> QED
  BY <1>3 DEF Decided, At, Memories

LEMMA WriteStateKeeps ==
    ASSUME TurnIInv, NEW p \in Runs, WriteState(p)
    PROVE  TurnIInv'
<1> DEFINE r == run[p].route
           e == run[p].error
           o == FailureOutcome(e, Unnamed, 0, run[p].seen.health, run[p].seen.row + 1)
           m == Decided(p)
<1>1. /\ run[p].pc = "write"
      /\ health' = [health EXCEPT ![r] = o.health]
      /\ cooling' = IF o.rest > 0 THEN cooling \cup {r} ELSE cooling \ {r}
      /\ row' = [row EXCEPT ![r] = Cap3(@ + 1)]
      /\ code' = [code EXCEPT ![r] = e]
      /\ run' = [run EXCEPT ![p] = m]
      /\ UNCHANGED <<budget, unbilled>> /\ Calm
  BY DEF WriteState, Is
<1>2. /\ run[p] \in Memories /\ r \in Routes /\ e \in FailureKinds \cup {""}
      /\ run[p].seen.health \in Healths
  <2>1. run[p] \in Memories /\ r \in Routes
    BY <1>1, Remembered DEF Steps, Chosing
  <2>2. e \in FailureKinds \cup {""} /\ run[p].seen \in [health : Healths, row : 0..3]
    BY <2>1 DEF Memories
  <2> QED
    BY <2>1, <2>2
<1>3. o.health \in Healths
  BY <1>2, OutcomeHealth
<1>4. row[r] \in 0..3
  BY <1>2 DEF TurnIInv, TypeOK
<1>5. Cap3(row[r] + 1) \in 0..3
  BY <1>4, CountedRow
<1>6. m \in Memories
  BY <1>2, DecidedType
<1>7. /\ m.pc = "next" /\ m.route = r /\ m.keys = run[p].keys
      /\ m.speaks = run[p].speaks /\ m.preferred = run[p].preferred /\ m.saved = run[p].saved
      /\ m.tools = run[p].tools
  BY <1>2, DecidedType
<1> HIDE DEF o, m
<1>8. health' \in [Routes -> Healths] /\ cooling' \subseteq Routes
  BY <1>1, <1>2, <1>3 DEF TurnIInv, TypeOK
<1>9. row' \in [Routes -> 0..3]
  <2>1. row \in [Routes -> 0..3]
    BY DEF TurnIInv, TypeOK
  <2>2. PICK n \in 0..3 : n = Cap3(row[r] + 1)
    BY <1>5
  <2>3. row' = [row EXCEPT ![r] = n]
    BY <1>1, <2>2
  <2> HIDE DEF r
  <2> QED
    BY <1>2, <2>1, <2>3
<1>10. code' \in [Routes -> FailureKinds \cup {""}]
  BY <1>1, <1>2 DEF TurnIInv, TypeOK
<1>11. SavedOrHeld(m)
  BY <1>1, <1>7, MovesOn DEF Steps, Chosing
<1>12. run[p].pc \notin Ends \cup Owing /\ m.pc \notin Billing /\ m.pc # "charged"
  BY <1>1, <1>7 DEF Ends, Owing, Billing
<1> QED
  BY <1>1, <1>6, <1>7, <1>8, <1>9, <1>10, <1>11, <1>12, WritesRow

LEMMA UnwrittenKeeps ==
    ASSUME TurnIInv, NEW p \in Runs, Unwritten(p)
    PROVE  TurnIInv'
<1> DEFINE m == Decided(p)
<1>1. run[p].pc = "write" /\ Local(p, m) /\ Fault
  BY DEF Unwritten, Is
<1>2. run[p] \in Memories
  BY Remembered
<1>3. /\ m \in Memories
      /\ m.pc = "next" /\ m.route = run[p].route /\ m.keys = run[p].keys
      /\ m.speaks = run[p].speaks /\ m.preferred = run[p].preferred /\ m.saved = run[p].saved
      /\ m.tools = run[p].tools
  BY <1>2, DecidedType
<1> HIDE DEF m
<1>4. SavedOrHeld(m)
  BY <1>1, <1>3, MovesOn DEF Steps, Chosing
<1>5. run[p].pc \notin Ends \cup Owing /\ m.pc \notin Billing /\ m.pc # "charged"
  BY <1>1, <1>3 DEF Ends, Owing, Billing
<1> QED
  BY <1>1, <1>3, <1>4, <1>5, LocalFree

LEMMA FollowingKeeps ==
    ASSUME TurnIInv, NEW p \in Runs, Following(p)
    PROVE  TurnIInv'
<1> DEFINE again == [At(p, "reserve") EXCEPT !.attempt = @ + 1]
           other == [At(p, "choose") EXCEPT !.failed = @ \cup {run[p].route},
                                            !.previous = run[p].route]
           m == AfterFailure(p)
<1>1. run[p].pc = "next" /\ ((Local(p, m) /\ Calm) \/ Throws(p))
  BY DEF Following, Is
<1>2. run[p] \in Memories /\ run[p].route \in Routes
  BY <1>1, Remembered DEF Steps, Chosing
<1>3. \/ m = again /\ RetriesHere(run[p].error, Unnamed, run[p].attempt, Attempts)
      \/ m = other
  BY DEF AfterFailure
<1>4. ASSUME RetriesHere(run[p].error, Unnamed, run[p].attempt, Attempts)
      PROVE  again \in Memories
  <2>1. At(p, "reserve") \in Memories /\ At(p, "reserve") = [run[p] EXCEPT !.pc = "reserve"]
    BY <1>2, AtType DEF Steps
  <2>2. run[p].attempt \in 0..Attempts
    BY <1>2 DEF Memories
  <2>3. run[p].attempt < Attempts
    BY <1>4 DEF RetriesHere
  <2>4. PICK n \in 0..Attempts : n = run[p].attempt + 1
    BY <2>2, <2>3, TurnAssumption
  <2>5. again = [At(p, "reserve") EXCEPT !.attempt = n]
    BY <1>2, <2>1, <2>4 DEF Memories
  <2> HIDE DEF again
  <2> QED
    BY <2>1, <2>5 DEF Memories
<1>5. other \in Memories
  <2>1. At(p, "choose") \in Memories /\ At(p, "choose") = [run[p] EXCEPT !.pc = "choose"]
    BY <1>2, AtType DEF Steps
  <2>2. PICK F \in SUBSET Routes : F = run[p].failed \cup {run[p].route}
    BY <1>2 DEF Memories
  <2>3. other = [At(p, "choose") EXCEPT !.failed = F, !.previous = run[p].route]
    BY <1>2, <2>1, <2>2 DEF Memories
  <2> HIDE DEF other
  <2> QED
    BY <1>2, <2>1, <2>3 DEF Memories
<1>6. /\ again.pc = "reserve" /\ again.route = run[p].route /\ again.keys = run[p].keys
      /\ again.speaks = run[p].speaks /\ again.preferred = run[p].preferred
      /\ again.saved = run[p].saved /\ again.tools = run[p].tools
  BY <1>2 DEF At, Memories
<1>7. /\ other.pc = "choose" /\ other.route = run[p].route /\ other.keys = run[p].keys
      /\ other.speaks = run[p].speaks /\ other.preferred = run[p].preferred
      /\ other.saved = run[p].saved /\ other.tools = run[p].tools
  BY <1>2 DEF At, Memories
<1> HIDE DEF again, other, m
<1>8. /\ m \in Memories /\ m.pc \in {"reserve", "choose"}
      /\ m.route = run[p].route /\ m.keys = run[p].keys
      /\ m.speaks = run[p].speaks /\ m.preferred = run[p].preferred
      /\ m.saved = run[p].saved /\ m.tools = run[p].tools
  BY <1>3, <1>4, <1>5, <1>6, <1>7
<1>9. SavedOrHeld(m)
  BY <1>1, <1>8, MovesOn DEF Steps, Chosing
<1>10. run[p].pc \notin Ends \cup Owing /\ m.pc \notin Billing /\ m.pc # "charged"
  BY <1>1, <1>8 DEF Ends, Owing, Billing
<1> QED
  BY <1>1, <1>8, <1>9, <1>10, LocalFree, ThrowsKeeps

-----------------------------------------------------------------------------
(* Back in the run: who owns the conversation.                              *)
LEMMA ContinuedType ==
    ASSUME TurnIInv, NEW p \in Runs, run[p].pc = "answered"
    PROVE  LET m == Continued(p)
           IN /\ m \in Memories
              /\ m.keys = run[p].keys /\ m.tools = run[p].tools /\ m.cuts = run[p].cuts
              /\ m.speaks = run[p].route /\ m.preferred = run[p].route /\ m.speaks # NoRoute
<1>1. run[p] \in Memories /\ run[p].route \in Routes
  BY Remembered DEF Steps, Chosing
<1>2. Continued(p) \in Memories
  BY <1>1 DEF Continued, Memories
<1>3. run[p].route # NoRoute
  BY <1>1, TurnAssumption
<1> QED
  BY <1>1, <1>2, <1>3 DEF Continued, Memories

LEMMA UseToolsKeeps ==
    ASSUME TurnIInv, NEW p \in Runs, UseTools(p)
    PROVE  TurnIInv'
<1> DEFINE m == [Continued(p) EXCEPT !.tools = @ + 1]
<1>1. run[p].pc = "answered" /\ ((Local(p, NextTurn(p, m)) /\ Calm) \/ Throws(p))
  BY DEF UseTools, Is
<1>2. /\ Continued(p) \in Memories /\ Continued(p).keys = run[p].keys
      /\ Continued(p).speaks = run[p].route /\ Continued(p).preferred = run[p].route
      /\ Continued(p).speaks # NoRoute
  BY <1>1, ContinuedType
<1>3. m \in Memories
  <2>1. Continued(p).tools \in Nat
    BY <1>2 DEF Memories
  <2>2. PICK n \in Nat : n = Continued(p).tools + 1
    BY <2>1
  <2>3. m = [Continued(p) EXCEPT !.tools = n]
    BY <2>2
  <2> HIDE DEF m
  <2> QED
    BY <1>2, <2>3 DEF Memories
<1>4. m.keys = run[p].keys /\ m.speaks = run[p].route /\ m.preferred = run[p].route
  BY <1>2 DEF Memories
<1> HIDE DEF m
<1>5. run[p].pc \notin Ends \cup Owing
  BY <1>1 DEF Ends, Owing
<1> QED
  BY <1>1, <1>2, <1>3, <1>4, <1>5, TurnsAgain, ThrowsKeeps

LEMMA CutOffKeeps ==
    ASSUME TurnIInv, NEW p \in Runs, CutOff(p)
    PROVE  TurnIInv'
<1> DEFINE m == [Continued(p) EXCEPT !.cuts = @ + 1]
<1>1. run[p].pc = "answered" /\ run[p].cuts < 2 /\ Local(p, NextTurn(p, m)) /\ Calm
  BY DEF CutOff, Is
<1>2. /\ Continued(p) \in Memories /\ Continued(p).keys = run[p].keys
      /\ Continued(p).cuts = run[p].cuts
      /\ Continued(p).speaks = run[p].route /\ Continued(p).preferred = run[p].route
      /\ Continued(p).speaks # NoRoute
  BY <1>1, ContinuedType
<1>3. m \in Memories
  <2>1. Continued(p).cuts \in 0..2 /\ Continued(p).cuts < 2
    BY <1>1, <1>2 DEF Memories
  <2>2. PICK n \in 0..2 : n = Continued(p).cuts + 1
    BY <2>1
  <2>3. m = [Continued(p) EXCEPT !.cuts = n]
    BY <2>2
  <2> HIDE DEF m
  <2> QED
    BY <1>2, <2>3 DEF Memories
<1>4. m.keys = run[p].keys /\ m.speaks = run[p].route /\ m.preferred = run[p].route
  BY <1>2 DEF Memories
<1> HIDE DEF m
<1>5. run[p].pc \notin Ends \cup Owing
  BY <1>1 DEF Ends, Owing
<1> QED
  BY <1>1, <1>2, <1>3, <1>4, <1>5, TurnsAgain

LEMMA AcceptKeeps ==
    ASSUME TurnIInv, NEW p \in Runs, Accept(p)
    PROVE  TurnIInv'
<1>1. /\ run[p].pc = "answered" /\ Local(p, Ended("done")) /\ Calm /\ "done" \in Ends
  BY DEF Accept, Is, Ends
<1>2. run[p].pc \notin Ends \cup Owing
  BY <1>1 DEF Ends, Owing
<1> QED
  BY <1>1, <1>2, EndsQuietly

LEMMA EscalateKeeps ==
    ASSUME TurnIInv, NEW p \in Runs, Escalate(p)
    PROVE  TurnIInv'
<1> DEFINE m == Escalated(p)
<1>1. /\ run[p].pc = "answered"
      /\ \/ Local(p, Ended("exhausted")) /\ Calm
         \/ Local(p, NextTurn(p, m)) /\ Calm
         \/ Throws(p)
  BY DEF Escalate, Is
<1>2. run[p] \in Memories /\ run[p].route \in Routes
  BY <1>1, Remembered DEF Steps, Chosing
<1>3. m \in Memories
  <2>1. run[p].escalations \in Nat /\ run[p].tools \in Nat
    BY <1>2 DEF Memories
  <2>2. PICK n \in Nat : n = run[p].escalations + 1
    BY <2>1
  <2>3. PICK F \in SUBSET Routes : F = run[p].excluded \cup {run[p].route}
    BY <1>2 DEF Memories
  <2>4. m = [run[p] EXCEPT !.excluded = F, !.escalations = n, !.saved = run[p].tools,
                           !.speaks = NoRoute, !.preferred = NoRoute]
    BY <2>2, <2>3 DEF Escalated
  <2> HIDE DEF m
  <2> QED
    BY <1>2, <2>1, <2>4 DEF Memories
<1>4. m.keys = run[p].keys /\ m.speaks = NoRoute /\ m.saved = m.tools
  BY <1>2 DEF Escalated, Memories
<1> HIDE DEF m
<1>5. run[p].pc \notin Ends \cup Owing /\ "exhausted" \in Ends
  BY <1>1 DEF Ends, Owing
<1> QED
  BY <1>1, <1>3, <1>4, <1>5, TurnsAgain, EndsQuietly, ThrowsKeeps

LEMMA LeftType ==
    ASSUME NEW s \in Nat, NEW r \in Nat
    PROVE  Left(s, r) \in Nat
BY BudgetAssumption DEF Left, Minus

LEMMA StartKeeps ==
    ASSUME TurnIInv, NEW p \in Runs, Start(p)
    PROVE  TurnIInv'
<1> DEFINE left == IF p \in Legacy THEN 0 ELSE Left(spent', reserved')
           m == [At(p, "choose") EXCEPT !.left = left]
<1>1. /\ run[p].pc = "idle"
      /\ RollIfOver \/ UNCHANGED budget
      /\ Fault \/ Calm
      /\ run' = [run EXCEPT ![p] = m]
      /\ UNCHANGED <<status, unbilled>>
  BY DEF Start, Is
<1>2. BudgetIInv' /\ hold' = hold /\ amount' = amount
  BY <1>1, ClocksAlone DEF TurnIInv
<1>3. left \in Nat
  <2>1. spent' \in Nat /\ reserved' \in Nat
    BY <1>2 DEF BudgetIInv, BudgetTypeOK
  <2> QED
    BY <2>1, LeftType
<1>4. run[p] \in Memories /\ HoldsItsOwn(p) /\ SavedOrHeld(run[p])
  BY Remembered DEF TurnIInv, Coherent
<1> HIDE DEF left
<1>5. m \in Memories
  <2>1. At(p, "choose") \in Memories
    BY <1>4, AtType DEF Steps
  <2> QED
    BY <1>3, <2>1 DEF Memories
<1>6. /\ m.pc = "choose" /\ m.keys = run[p].keys /\ m.speaks = run[p].speaks
      /\ m.preferred = run[p].preferred /\ m.saved = run[p].saved /\ m.tools = run[p].tools
  BY <1>4 DEF At, Memories
<1> HIDE DEF m
<1>7. SavedOrHeld(m)
  BY <1>4, <1>6 DEF SavedOrHeld, Chosing
<1>8. /\ run[p].pc \notin Ends /\ run[p].pc \notin Owing /\ run[p].pc \notin Dead
      /\ m.pc \notin Billing /\ m.pc # "charged"
  BY <1>1, <1>6 DEF Ends, Owing, Dead, Billing
<1>9. \A k \in TurnKeys(p) : hold'[k] # "reserved" /\ hold'[k] = hold[k]
  BY <1>2, <1>4, <1>8 DEF HoldsItsOwn
<1>10. m.keys >= run[p].keys
  BY <1>4, <1>6, NotLess DEF Memories
<1>11. OthersHold(p)
  BY <1>2 DEF OthersHold
<1>12. Coherent'
  BY <1>1, <1>5, <1>7, <1>8, <1>9, <1>10, <1>11, FreeHanded
<1>13. unbilled' \in Nat
  BY <1>1 DEF TurnIInv, TypeOK
<1>14. TypeOK'
  BY <1>1, <1>2, <1>5, <1>13, MoneyTypes
<1> QED
  BY <1>2, <1>12, <1>14 DEF TurnIInv

LEMMA StepKeeps ==
    ASSUME TurnIInv, NEW p \in Runs, Step(p)
    PROVE  TurnIInv'
<1>1. CASE Start(p) \/ Choose(p) \/ Denied(p) \/ NothingLeft(p) \/ Switch(p)
  BY <1>1, StartKeeps, ChooseKeeps, DeniedKeeps, NothingLeftKeeps, SwitchKeeps
<1>2. CASE ReserveTurn(p) \/ Begin(p) \/ Answer(p) \/ Fail(p) \/ HookFails(p)
  BY <1>2, ReserveTurnKeeps, BeginKeeps, AnswerKeeps, FailKeeps, HookFailsKeeps
<1>3. CASE SettleAnswer(p) \/ SettleHook(p) \/ RecordSuccess(p) \/ Report(p)
  BY <1>3, SettleAnswerKeeps, SettleHookKeeps, RecordSuccessKeeps, ReportKeeps
<1>4. CASE SettleFailure(p) \/ Charge(p) \/ NothingToCharge(p) \/ SettleCharge(p)
  BY <1>4, SettleFailureKeeps, ChargeKeeps, NothingToChargeKeeps, SettleChargeKeeps
<1>6. CASE ReadState(p) \/ WriteState(p) \/ Unwritten(p)
  BY <1>6, ReadStateKeeps, WriteStateKeeps, UnwrittenKeeps
<1>5. CASE Unreadable(p) \/ Following(p) \/ UseTools(p) \/ CutOff(p) \/ Accept(p) \/ Escalate(p)
  BY <1>5, ThrowsKeeps, FollowingKeeps, UseToolsKeeps, CutOffKeeps, AcceptKeeps, EscalateKeeps
     DEF Unreadable
<1> QED
  BY <1>1, <1>2, <1>3, <1>4, <1>5, <1>6 DEF Step

LEMMA CrashKeeps ==
    ASSUME TurnIInv, NEW p \in Runs, Crash(p)
    PROVE  TurnIInv'
BY DiesLocally DEF Crash, Dead

(* Nothing that happens around the runs changes what they hold.             *)
LEMMA AroundKeeps ==
    ASSUME TurnIInv, run' = run, unbilled' = unbilled, faults' = faults,
           health' = health, row' = row, code' = code, cooling' \subseteq cooling,
           UNCHANGED budget \/ PeriodEnds
    PROVE  TurnIInv'
<1>1. BudgetIInv' /\ hold' = hold /\ amount' = amount
  BY ClocksAlone DEF TurnIInv
<1>2. Coherent'
  <2>1. Coherent
    BY DEF TurnIInv
  <2> QED
    BY <1>1, <2>1 DEF Coherent, SavedOrHeld, HoldsItsOwn, TurnKeys, Key, Incident, Reserved, Worst
<1>3. TypeOK'
  BY <1>1 DEF TurnIInv, TypeOK, BudgetIInv, Memories
<1> QED
  BY <1>1, <1>2, <1>3 DEF TurnIInv

LEMMA TurnStep ==
    ASSUME TurnIInv, [Next]_vars
    PROVE  TurnIInv'
<1>1. ASSUME NEW p \in Runs, Step(p) \/ Crash(p)
      PROVE  TurnIInv'
  BY <1>1, StepKeeps, CrashKeeps
<1>2. CASE \E r \in Routes : CooldownEnds(r)
  <2>1. cooling' \subseteq cooling
    BY <1>2 DEF CooldownEnds
  <2> QED
    BY <1>2, <2>1, AroundKeeps DEF CooldownEnds
<1>3. CASE ReleaseAuth
  <2>1. cooling' \subseteq cooling
    BY <1>3 DEF ReleaseAuth
  <2> QED
    BY <1>3, <2>1, AroundKeeps DEF ReleaseAuth
<1>4. CASE MonthEnds
  BY <1>4, AroundKeeps DEF MonthEnds, status
<1>5. CASE UNCHANGED vars
  BY <1>5, AroundKeeps DEF vars, status
<1> QED
  BY <1>1, <1>2, <1>3, <1>4, <1>5 DEF Next

LEMMA TurnInit == Init => TurnIInv
<1> SUFFICES ASSUME Init PROVE TurnIInv
  OBVIOUS
<1>1. BudgetIInv /\ BudgetTypeOK
  BY BudgetInitHolds DEF Init, BudgetIInv
<1>2. Idle \in Memories
  BY TurnAssumption DEF Idle, Memories, Steps, Healths
<1>3. run \in [Runs -> Memories] /\ \A p \in Runs : run[p] = Idle
  BY <1>2 DEF Init, OthersInit
<1>4. TypeOK
  <2>1. health \in [Routes -> Healths] /\ cooling \subseteq Routes
    BY DEF Init, OthersInit, Healths
  <2>2. row \in [Routes -> 0..3]
    <3>1. 0 \in 0..3
      OBVIOUS
    <3> QED
      BY <3>1 DEF Init, OthersInit
  <2>3. code \in [Routes -> FailureKinds \cup {""}] /\ unbilled \in Nat /\ faults \in Nat
    BY DEF Init, OthersInit
  <2> QED
    BY <1>1, <1>3, <2>1, <2>2, <2>3 DEF TypeOK
<1>5. ASSUME NEW p \in Runs
      PROVE  SavedOrHeld(run[p]) /\ HoldsItsOwn(p)
  <2>1. /\ run[p].pc = "idle" /\ run[p].speaks = NoRoute
        /\ run[p].saved = 0 /\ run[p].tools = 0
    <3>1. /\ Idle.pc = "idle" /\ Idle.speaks = NoRoute
          /\ Idle.saved = 0 /\ Idle.tools = 0
      BY DEF Idle
    <3>2. run[p] = Idle
      BY <1>3
    <3> QED
      BY <3>1, <3>2
  <2>2. SavedOrHeld(run[p])
    BY <2>1 DEF SavedOrHeld, Chosing
  <2>3. \A k \in Keys : hold[k] = "none"
    BY DEF Init, BudgetInit
  <2>4. HoldsItsOwn(p)
    BY <2>1, <2>3 DEF HoldsItsOwn, TurnKeys, Billing, Owing
  <2> QED
    BY <2>2, <2>4
<1> QED
  BY <1>1, <1>4, <1>5 DEF TurnIInv, Coherent

(* What the properties of the runs are read off.                            *)
LEMMA RunsAreSound ==
    ASSUME TurnIInv
    PROVE  HoldsMatchCalls /\ TakesOverFromCheckpoint /\ BudgetHolds
<1>1. ASSUME NEW p \in Runs \ Legacy, run[p].pc \in {"call", "settle"}, run[p].route \in Paid
      PROVE  hold[Key(p)] = "reserved" /\ amount[Key(p)] = Worst
  BY <1>1, Remembered DEF HoldsItsOwn, Reserved
<1>2. ASSUME NEW k \in Keys, hold[k] = "reserved", k[3] = "turn"
      PROVE  \/ run[k[1]].pc \in {"aborted", "crashed"}
             \/ k = Key(k[1]) /\ run[k[1]].pc \in Owing /\ Reserved(k[1])
  <2>1. k[1] \in Runs /\ k \in TurnKeys(k[1])
    BY <1>2, TurnAssumption DEF TurnKeys
  <2>2. HoldsItsOwn(k[1])
    BY <2>1, Remembered
  <2> QED
    BY <1>2, <2>1, <2>2 DEF HoldsItsOwn, Dead
<1>3. ASSUME NEW p \in Runs, run[p].pc = "call"
      PROVE  run[p].speaks = run[p].route \/ (run[p].speaks = NoRoute /\ run[p].saved = run[p].tools)
  BY <1>3, Remembered DEF Steps, Chosing
<1>4. BudgetHolds
  BY DEF TurnIInv, BudgetIInv, BudgetHolds
<1> QED
  BY <1>1, <1>2, <1>3, <1>4 DEF HoldsMatchCalls, TakesOverFromCheckpoint

(* The inductive invariant of the runs of the turn gateway: types, the books *)
(* of the budget, whose conversation it is, and who holds which reservation  *)
(* (turn-gateway.js, office/pool-runner.js).                                *)
THEOREM TurnInvariant == Spec => []TurnIInv
BY TurnInit, TurnStep, PTL DEF Spec

(* Whichever way a run comes to call another route than the one that holds   *)
(* its conversation (a failover, a rested favourite, an escalation, a        *)
(* relaxed job, a retry after any failure on either side), every tool call   *)
(* it made is in the checkpoint that the new route starts from.              *)
THEOREM EveryHandoverIsSaved == Spec => []TakesOverFromCheckpoint
BY TurnInvariant, RunsAreSound, PTL

-----------------------------------------------------------------------------
(* The model gateway.  The books of a request: while it may be billed it     *)
(* holds its reservation and counts what its providers billed; otherwise    *)
(* nothing is reserved for it, except what was lost with its process, and   *)
(* what it was settled at is what was billed.  It goes on to another call   *)
(* only while every answer that was paid for was misread.                    *)
Asking(R) ==
    [pc : Billable \cup {"new", "authorized", "done", "failed", "lost"}, left : Nat, route : R,
     at : Nat, attempt : Nat, spentUsd : Nat, actualUsd : Nat, class : FailureClasses \cup {""},
     recorded : BOOLEAN]

Paying == [usd : Nat, last : Nat, answers : Nat, misread : Nat]

GoesOn(q) ==
    \/ q.pc \in {"reserved", "start", "call", "switch"}
    \/ q.pc = "caught" /\ q.class \notin {"approval", "fatal"}

Balanced(q, d, held, limit, charged) ==
    /\ q.pc \in Billable => /\ held = "reserved" /\ limit = MaxRequest
                            /\ q.spentUsd = d.usd /\ q.actualUsd = d.usd
    /\ q.pc \in {"new", "authorized"} => q.spentUsd = 0 /\ q.actualUsd = 0
    /\ held = "reserved" => q.pc \in Billable \cup {"lost"}
    /\ held = "none" => d.usd = 0 /\ d.answers = 0
    /\ held = "settled" => charged = d.usd
    /\ d.answers <= 1 + d.misread
    /\ GoesOn(q) => d.answers <= d.misread
    /\ q.pc = "call" => d.usd < MaxRequest
    /\ d.usd > 0 => d.usd - d.last < MaxRequest

Books(k) ==
    /\ request[k] \in Asking({request[k].route})
    /\ Balanced(request[k], paid[k], hold[k], amount[k], actual[k])

RequestIInv ==
    /\ BudgetIInv
    /\ DOMAIN request = Calls /\ paid \in [Calls -> Paying]
    /\ \A k \in Calls : Books(k)

-----------------------------------------------------------------------------
LEMMA OneRequest ==
    ASSUME RequestIInv, NEW k \in Calls, NEW m, NEW d,
           request' = [request EXCEPT ![k] = m], paid' = [paid EXCEPT ![k] = d],
           BudgetIInv',
           \A j \in Keys : j # k =>
               hold'[j] = hold[j] /\ amount'[j] = amount[j] /\ actual'[j] = actual[j],
           m \in Asking({m.route}), d \in Paying,
           Balanced(m, d, hold'[k], amount'[k], actual'[k])
    PROVE  RequestIInv'
<1>1. DOMAIN request' = Calls /\ paid' \in [Calls -> Paying]
  BY DEF RequestIInv
<1>2. request'[k] = m /\ paid'[k] = d
  BY DEF RequestIInv
<1>3. ASSUME NEW j \in Calls, j # k
      PROVE  /\ request'[j] = request[j] /\ paid'[j] = paid[j]
             /\ hold'[j] = hold[j] /\ amount'[j] = amount[j] /\ actual'[j] = actual[j]
  <2>1. j \in Keys
    BY GatewayAssumption
  <2>2. request'[j] = request[j] /\ paid'[j] = paid[j]
    BY <1>3 DEF RequestIInv
  <2> QED
    BY <1>3, <2>1, <2>2
<1>4. ASSUME NEW j \in Calls
      PROVE  Books(j)'
  <2>1. CASE j = k
    BY <1>2, <2>1 DEF Books, Asking, Paying, Balanced, GoesOn
  <2>2. CASE j # k
    <3>1. Books(j)
      BY DEF RequestIInv
    <3> QED
      BY <1>3, <2>2, <3>1 DEF Books, Asking, Paying, Balanced, GoesOn
  <2> QED
    BY <2>1, <2>2
<1> QED
  BY <1>1, <1>4 DEF RequestIInv

LEMMA BooksOf ==
    ASSUME RequestIInv, NEW k \in Calls
    PROVE  /\ request[k] \in Asking({request[k].route}) /\ paid[k] \in Paying
           /\ paid[k].usd \in Nat /\ paid[k].answers \in Nat /\ paid[k].misread \in Nat
           /\ request[k].spentUsd \in Nat /\ request[k].actualUsd \in Nat
           /\ Balanced(request[k], paid[k], hold[k], amount[k], actual[k])
           /\ k \in Keys /\ hold[k] \in {"none", "reserved", "settled"}
           /\ BudgetIInv
BY GatewayAssumption DEF RequestIInv, Books, Asking, Paying, BudgetIInv, BudgetTypeOK

(* A step of a request that leaves the budget alone.                        *)
LEMMA QuietRequest ==
    ASSUME RequestIInv, NEW k \in Calls, NEW m, Remembers(k, m), paid' = paid,
           UNCHANGED budget, m \in Asking({m.route}),
           Balanced(m, paid[k], hold[k], amount[k], actual[k])
    PROVE  RequestIInv'
<1>1. BudgetIInv' /\ hold' = hold /\ amount' = amount /\ actual' = actual
  BY ClocksAlone DEF RequestIInv
<1>2. paid' = [paid EXCEPT ![k] = paid[k]]
  BY DEF RequestIInv
<1>3. paid[k] \in Paying
  BY BooksOf
<1> QED
  BY <1>1, <1>2, <1>3, OneRequest DEF Remembers

LEMMA FinishedType ==
    ASSUME NEW pc \in {"done", "failed", "lost"}
    PROVE  /\ Finished(pc) \in Asking({Finished(pc).route})
           /\ Finished(pc).pc = pc
BY DEF Finished, NewRequest, Asking

LEMMA MovesType ==
    ASSUME NEW k \in Calls, NEW R, request[k] \in Asking(R),
           NEW pc \in Billable \cup {"new", "authorized", "done", "failed", "lost"}
    PROVE  /\ Moves(k, pc) \in Asking(R)
           /\ Moves(k, pc) = [request[k] EXCEPT !.pc = pc]
           /\ Moves(k, pc).pc = pc
           /\ Moves(k, pc).spentUsd = request[k].spentUsd
           /\ Moves(k, pc).actualUsd = request[k].actualUsd
           /\ Moves(k, pc).class = request[k].class
           /\ Moves(k, pc).route = request[k].route
BY DEF Moves, Asking

(* A request that ends without being billed any more, or is lost.            *)
LEMMA EndsUnbilled ==
    ASSUME RequestIInv, NEW k \in Calls, NEW pc \in {"done", "failed", "lost"},
           Remembers(k, Finished(pc)), paid' = paid, UNCHANGED budget,
           hold[k] = "reserved" => pc = "lost"
    PROVE  RequestIInv'
<1> DEFINE m == Finished(pc)
<1>1. m \in Asking({m.route}) /\ m.pc = pc
  BY FinishedType
<1> HIDE DEF m
<1>2. Balanced(m, paid[k], hold[k], amount[k], actual[k])
  BY <1>1, BooksOf DEF Balanced, Billable, GoesOn
<1> QED
  BY <1>1, <1>2, QuietRequest DEF m

LEMMA AuthorizeKeeps ==
    ASSUME RequestIInv, NEW k \in Calls, Authorize(k)
    PROVE  RequestIInv'
<1> DEFINE left == Minus(Monthly, spent' + reserved')
           m == [Moves(k, "authorized") EXCEPT !.left = left]
<1>1. /\ request[k].pc = "new" /\ RollIfOver /\ request' = [request EXCEPT ![k] = m]
      /\ paid' = paid
  BY DEF Authorize, Waits, Remembers
<1>2. BudgetIInv' /\ hold' = hold /\ amount' = amount /\ actual' = actual
  BY <1>1, ClocksAlone DEF RequestIInv
<1>3. left \in Nat
  <2>1. spent' \in Nat /\ reserved' \in Nat
    BY <1>2 DEF BudgetIInv, BudgetTypeOK
  <2> QED
    BY <2>1, LeftType DEF Left
<1> HIDE DEF left
<1>4. /\ m \in Asking({request[k].route}) /\ m.pc = "authorized"
      /\ m.route = request[k].route
      /\ m.spentUsd = request[k].spentUsd /\ m.actualUsd = request[k].actualUsd
  <2>1. request[k] \in Asking({request[k].route})
    BY BooksOf
  <2> QED
    BY <1>3, <2>1 DEF Moves, Asking
<1> HIDE DEF m
<1>5. Balanced(m, paid[k], hold[k], amount[k], actual[k])
  BY <1>1, <1>4, BooksOf DEF Balanced, Billable, GoesOn
<1>6. paid' = [paid EXCEPT ![k] = paid[k]] /\ paid[k] \in Paying
  BY <1>1, BooksOf DEF RequestIInv
<1> QED
  BY <1>1, <1>2, <1>4, <1>5, <1>6, OneRequest

LEMMA DenyKeeps ==
    ASSUME RequestIInv, NEW k \in Calls, Deny(k)
    PROVE  RequestIInv'
<1>1. request[k].pc = "authorized"
  BY DEF Deny, Waits
<1>2. hold[k] # "reserved"
  BY <1>1, BooksOf DEF Balanced, Billable
<1> QED
  BY <1>2, EndsUnbilled DEF Deny, Refused

LEMMA ReserveRequestKeeps ==
    ASSUME RequestIInv, NEW k \in Calls, ReserveRequest(k)
    PROVE  RequestIInv'
<1> DEFINE m == Moves(k, "reserved")
           n == Finished("lost")
<1>1. /\ request[k].pc = "authorized" /\ Reserve(k, MaxRequest)
      /\ Remembers(k, m) \/ Remembers(k, n)
      /\ paid' = paid
  BY DEF ReserveRequest, Waits
<1>2. /\ request[k] \in Asking({request[k].route}) /\ paid[k] \in Paying
      /\ paid[k].usd \in Nat /\ paid[k].answers \in Nat /\ paid[k].misread \in Nat
      /\ Balanced(request[k], paid[k], hold[k], amount[k], actual[k])
      /\ k \in Keys /\ BudgetIInv
  BY BooksOf
<1>3. hold[k] = "none"
  BY <1>1, <1>2, BooksOf DEF Balanced, Billable, Reserve, CanReserve
<1>4. /\ BudgetIInv'
      /\ \A j \in Keys : j # k => hold'[j] = hold[j] /\ amount'[j] = amount[j]
      /\ hold'[k] = "reserved" /\ amount'[k] = MaxRequest /\ actual' = actual
  BY <1>1, <1>2, <1>3, ReservesOne, GatewayAssumption
<1>5. paid' = [paid EXCEPT ![k] = paid[k]]
  BY <1>1 DEF RequestIInv
<1>6. /\ m \in Asking({m.route}) /\ m.pc = "reserved"
      /\ m.spentUsd = request[k].spentUsd /\ m.actualUsd = request[k].actualUsd
  BY <1>2, MovesType DEF Billable
<1>7. n \in Asking({n.route}) /\ n.pc = "lost"
  BY FinishedType
<1> HIDE DEF m, n
<1>8. Balanced(m, paid[k], hold'[k], amount'[k], actual'[k])
  BY <1>1, <1>2, <1>3, <1>4, <1>6 DEF Balanced, Billable, GoesOn
<1>9. Balanced(n, paid[k], hold'[k], amount'[k], actual'[k])
  BY <1>2, <1>4, <1>7 DEF Balanced, Billable, GoesOn
<1>10. \A j \in Keys : j # k =>
           hold'[j] = hold[j] /\ amount'[j] = amount[j] /\ actual'[j] = actual[j]
  BY <1>4
<1>11. CASE Remembers(k, m)
  <2>1. request' = [request EXCEPT ![k] = m]
    BY <1>11 DEF Remembers
  <2> QED
    BY <1>2, <1>4, <1>5, <1>6, <1>8, <1>10, <2>1, OneRequest
<1>12. CASE Remembers(k, n)
  <2>1. request' = [request EXCEPT ![k] = n]
    BY <1>12 DEF Remembers
  <2> QED
    BY <1>2, <1>4, <1>5, <1>7, <1>9, <1>10, <2>1, OneRequest
<1> QED
  BY <1>1, <1>11, <1>12

-----------------------------------------------------------------------------
LEMMA RouteKeeps ==
    ASSUME RequestIInv, NEW k \in Calls, NEW named, Route(k, named)
    PROVE  RequestIInv'
<1> DEFINE m == Moves(k, "settle")
           route == Ordered(named)
           n == [Moves(k, "start") EXCEPT !.route = route]
<1>1. /\ request[k].pc = "reserved"
      /\ Remembers(k, m) \/ Remembers(k, n)
      /\ paid' = paid /\ UNCHANGED budget
  BY DEF Route, Waits
<1>2. request[k] \in Asking({request[k].route})
  BY BooksOf
<1>3. /\ m \in Asking({m.route}) /\ m.pc = "settle"
      /\ m.spentUsd = request[k].spentUsd /\ m.actualUsd = request[k].actualUsd
  BY <1>2, MovesType DEF Billable
<1> HIDE DEF route
<1>4. /\ n \in Asking({n.route}) /\ n.pc = "start"
      /\ n.spentUsd = request[k].spentUsd /\ n.actualUsd = request[k].actualUsd
  BY <1>2 DEF Moves, Asking, Billable
<1> HIDE DEF m, n
<1>5. Balanced(m, paid[k], hold[k], amount[k], actual[k])
  BY <1>1, <1>3, BooksOf DEF Balanced, Billable, GoesOn
<1>6. Balanced(n, paid[k], hold[k], amount[k], actual[k])
  BY <1>1, <1>4, BooksOf DEF Balanced, Billable, GoesOn
<1> QED
  BY <1>1, <1>3, <1>4, <1>5, <1>6, QuietRequest

(* A request that gives up goes to its settlement.                           *)
LEMMA GivesUp ==
    ASSUME RequestIInv, NEW k \in Calls, Remembers(k, Moves(k, "settle")),
           paid' = paid, UNCHANGED budget, request[k].pc \in Billable
    PROVE  RequestIInv'
<1> DEFINE m == Moves(k, "settle")
<1>0. request[k] \in Asking({request[k].route})
  BY BooksOf
<1>1. /\ m \in Asking({m.route}) /\ m.pc = "settle"
      /\ m.spentUsd = request[k].spentUsd /\ m.actualUsd = request[k].actualUsd
  BY <1>0, MovesType DEF Billable
<1> HIDE DEF m
<1>2. Balanced(m, paid[k], hold[k], amount[k], actual[k])
  BY <1>1, BooksOf DEF Balanced, Billable, GoesOn
<1> QED
  BY <1>1, <1>2, QuietRequest DEF m

LEMMA StartAttemptKeeps ==
    ASSUME RequestIInv, NEW k \in Calls, StartAttempt(k)
    PROVE  RequestIInv'
<1> DEFINE n == [Moves(k, "call") EXCEPT !.recorded = FALSE]
<1>1. request[k].pc = "start" /\ paid' = paid /\ UNCHANGED budget
  BY DEF StartAttempt, Waits
<1>2. request[k].pc \in Billable
  BY <1>1 DEF Billable
<1>3. CASE Remembers(k, Moves(k, "settle"))
  BY <1>1, <1>2, <1>3, GivesUp
<1>4. CASE WithinReservation(k, request[k].spentUsd) /\ Remembers(k, n)
  <2>1. request[k] \in Asking({request[k].route})
    BY BooksOf
  <2>2. /\ n \in Asking({n.route}) /\ n.pc = "call"
        /\ n.spentUsd = request[k].spentUsd /\ n.actualUsd = request[k].actualUsd
    BY <2>1 DEF Moves, Asking, Billable
  <2> HIDE DEF n
  <2>3. paid[k].usd < MaxRequest
    BY <1>1, <1>2, <1>4, BooksOf DEF Balanced, WithinReservation
  <2>4. Balanced(n, paid[k], hold[k], amount[k], actual[k])
    BY <1>1, <2>2, <2>3, BooksOf DEF Balanced, Billable, GoesOn
  <2> QED
    BY <1>1, <1>4, <2>2, <2>4, QuietRequest
<1> QED
  BY <1>3, <1>4 DEF StartAttempt

(* A call that billed c, with or without an answer.                          *)
LEMMA BilledCall ==
    ASSUME RequestIInv, NEW k \in Calls, request[k].pc = "call", NEW c \in CallCosts,
           NEW answers \in {0, 1}, Bills(k, c, answers), UNCHANGED budget,
           NEW m, Remembers(k, m), m \in Asking({m.route}),
           m.spentUsd = request[k].spentUsd + c, m.actualUsd = request[k].actualUsd + c,
           m.pc = "record" \/ (m.pc = "caught" /\ answers = 0)
    PROVE  RequestIInv'
<1> DEFINE d == [paid[k] EXCEPT !.usd = @ + c, !.last = c, !.answers = @ + answers]
<1>1. paid[k] \in Paying /\ c \in Nat /\ MaxRequest \in Nat
  BY BooksOf, GatewayAssumption, BudgetAssumption
<1>2. paid' = [paid EXCEPT ![k] = d] /\ request' = [request EXCEPT ![k] = m]
  BY DEF Bills, Remembers
<1>8. BudgetIInv' /\ hold' = hold /\ amount' = amount /\ actual' = actual
  BY ClocksAlone DEF RequestIInv
<1>3. /\ d \in Paying
      /\ d.usd = paid[k].usd + c /\ d.last = c
      /\ d.answers = paid[k].answers + answers /\ d.misread = paid[k].misread
  <2>1. paid[k].usd \in Nat /\ paid[k].answers \in Nat
    BY BooksOf
  <2>2. PICK u \in Nat, a \in Nat : u = paid[k].usd + c /\ a = paid[k].answers + answers
    BY <1>1, <2>1
  <2>3. d = [paid[k] EXCEPT !.usd = u, !.last = c, !.answers = a]
    BY <2>2
  <2> HIDE DEF d
  <2> QED
    BY <1>1, <2>2, <2>3 DEF Paying
<1> HIDE DEF d
<1>4. /\ hold[k] = "reserved" /\ amount[k] = MaxRequest
      /\ request[k].spentUsd = paid[k].usd /\ request[k].actualUsd = paid[k].usd
      /\ paid[k].answers <= paid[k].misread /\ paid[k].usd < MaxRequest
  BY BooksOf DEF Balanced, Billable, GoesOn
<1>5. paid[k].usd \in Nat /\ paid[k].answers \in Nat /\ paid[k].misread \in Nat
  BY BooksOf
<1>6. /\ d.answers <= 1 + d.misread
      /\ answers = 0 => d.answers <= d.misread
      /\ d.usd - d.last < MaxRequest
  BY <1>1, <1>3, <1>4, <1>5
<1>7. Balanced(m, d, hold[k], amount[k], actual[k])
  BY <1>3, <1>4, <1>6 DEF Balanced, Billable, GoesOn
<1> QED
  BY <1>2, <1>3, <1>7, <1>8, OneRequest

LEMMA AnsweredKeeps ==
    ASSUME RequestIInv, NEW k \in Calls, Answered(k)
    PROVE  RequestIInv'
<1>1. PICK c \in CallCosts : Bills(k, c, 1) /\ Remembers(k, Count(k, c))
  BY DEF Answered
<1> DEFINE m == Count(k, c)
<1>2. request[k].pc = "call" /\ UNCHANGED budget
  BY DEF Answered, Waits
<1>3. request[k] \in Asking({request[k].route}) /\ c \in Nat
  BY BooksOf, GatewayAssumption
<1>4. request[k].spentUsd \in Nat /\ request[k].actualUsd \in Nat
  BY BooksOf
<1>5. PICK s \in Nat, a \in Nat : s = request[k].spentUsd + c /\ a = request[k].actualUsd + c
  BY <1>3, <1>4
<1>6. m = [request[k] EXCEPT !.pc = "record", !.spentUsd = s, !.actualUsd = a, !.recorded = TRUE]
  BY <1>3, <1>5 DEF Count, Moves, Asking
<1> HIDE DEF m
<1>7. /\ m \in Asking({m.route}) /\ m.pc = "record" /\ m.spentUsd = s /\ m.actualUsd = a
  BY <1>3, <1>6 DEF Asking, Billable
<1> QED
  BY <1>1, <1>2, <1>5, <1>7, BilledCall DEF m

LEMMA FailedKeeps ==
    ASSUME RequestIInv, NEW k \in Calls, Failed(k)
    PROVE  RequestIInv'
<1> DEFINE M(f, c) == [Moves(k, "caught") EXCEPT !.class = f, !.spentUsd = @ + c,
                                                 !.actualUsd = @ + c]
<1>1. PICK f \in FailureClasses, c \in CallCosts : Bills(k, c, 0) /\ Remembers(k, M(f, c))
  BY DEF Failed
<1> DEFINE m == M(f, c)
<1>2. request[k].pc = "call" /\ UNCHANGED budget
  BY DEF Failed, Waits
<1>3. request[k] \in Asking({request[k].route}) /\ c \in Nat
  BY BooksOf, GatewayAssumption
<1>4. request[k].spentUsd \in Nat /\ request[k].actualUsd \in Nat
  BY BooksOf
<1>5. PICK s \in Nat, a \in Nat : s = request[k].spentUsd + c /\ a = request[k].actualUsd + c
  BY <1>3, <1>4
<1>6. m = [request[k] EXCEPT !.pc = "caught", !.class = f, !.spentUsd = s, !.actualUsd = a]
  BY <1>3, <1>5 DEF Moves, Asking
<1> HIDE DEF m
<1>7. /\ m \in Asking({m.route}) /\ m.pc = "caught" /\ m.spentUsd = s /\ m.actualUsd = a
  BY <1>3, <1>6 DEF Asking, Billable
<1>8. Remembers(k, m)
  BY <1>1 DEF m
<1> HIDE DEF M
<1> QED
  BY <1>1, <1>2, <1>5, <1>7, <1>8, BilledCall

LEMMA RecordAnswerKeeps ==
    ASSUME RequestIInv, NEW k \in Calls, RecordAnswer(k)
    PROVE  RequestIInv'
<1>1. request[k].pc = "record" /\ request[k].pc \in Billable /\ UNCHANGED budget
  BY DEF RecordAnswer, Waits, Billable
<1>2. request[k] \in Asking({request[k].route}) /\ paid[k] \in Paying
  BY BooksOf
<1>3. CASE Remembers(k, Moves(k, "settle")) /\ paid' = paid
  BY <1>1, <1>3, GivesUp
<1>4. CASE Remembers(k, Moves(k, "answered")) /\ paid' = paid
  <2> DEFINE m == Moves(k, "answered")
  <2>1. /\ m \in Asking({m.route}) /\ m.pc = "answered"
        /\ m.spentUsd = request[k].spentUsd /\ m.actualUsd = request[k].actualUsd
    BY <1>2, MovesType DEF Billable
  <2> HIDE DEF m
  <2>2. Balanced(m, paid[k], hold[k], amount[k], actual[k])
    BY <1>1, <2>1, BooksOf DEF Balanced, Billable, GoesOn
  <2> QED
    BY <1>1, <1>4, <2>1, <2>2, QuietRequest DEF m
<1>5. ASSUME NEW f \in HookClass, Remembers(k, [Moves(k, "caught") EXCEPT !.class = f]),
             paid' = [paid EXCEPT ![k].misread = IF f = "retry" THEN @ + 1 ELSE @]
      PROVE  RequestIInv'
  <2> DEFINE m == [Moves(k, "caught") EXCEPT !.class = f]
             n == IF f = "retry" THEN paid[k].misread + 1 ELSE paid[k].misread
             d == [paid[k] EXCEPT !.misread = n]
  <2>1. f \in FailureClasses /\ f \in {"retry", "fatal"}
    BY <1>5 DEF HookClass, FailureClasses
  <2>2. paid' = [paid EXCEPT ![k] = d] /\ request' = [request EXCEPT ![k] = m]
    BY <1>5 DEF Remembers
  <2>3. /\ m \in Asking({m.route}) /\ m.pc = "caught" /\ m.class = f
        /\ m.spentUsd = request[k].spentUsd /\ m.actualUsd = request[k].actualUsd
    BY <1>2, <2>1 DEF Moves, Asking, Billable
  <2>4. paid[k].usd \in Nat /\ paid[k].answers \in Nat /\ paid[k].misread \in Nat
    BY BooksOf
  <2>5. n \in Nat /\ n >= paid[k].misread /\ (f = "retry" => n = paid[k].misread + 1)
    BY <2>4
  <2> HIDE DEF n
  <2>6. /\ d \in Paying /\ d.usd = paid[k].usd /\ d.last = paid[k].last
        /\ d.answers = paid[k].answers /\ d.misread = n
    BY <1>2, <2>5 DEF Paying
  <2> HIDE DEF m, d
  <2>7. BudgetIInv' /\ hold' = hold /\ amount' = amount /\ actual' = actual
    BY <1>1, ClocksAlone DEF RequestIInv
  <2>8. paid[k].answers <= 1 + paid[k].misread
    BY BooksOf DEF Balanced
  <2>9. d.answers <= 1 + d.misread /\ (f = "retry" => d.answers <= d.misread)
    BY <2>4, <2>5, <2>6, <2>8
  <2>10. Balanced(m, d, hold[k], amount[k], actual[k])
    BY <1>1, <2>1, <2>3, <2>6, <2>9, BooksOf DEF Balanced, Billable, GoesOn
  <2> QED
    BY <2>2, <2>3, <2>6, <2>7, <2>10, OneRequest
<1> QED
  BY <1>3, <1>4, <1>5 DEF RecordAnswer

(* The next call of a request that goes on.                                 *)
LEMMA TriesAgain ==
    ASSUME RequestIInv, NEW k \in Calls, GoesOn(request[k]), request[k].pc \in Billable,
           NEW m, Remembers(k, m), paid' = paid, UNCHANGED budget,
           m \in Asking({m.route}), m.pc \in {"start", "switch"},
           m.spentUsd = request[k].spentUsd, m.actualUsd = request[k].actualUsd
    PROVE  RequestIInv'
<1>1. Balanced(m, paid[k], hold[k], amount[k], actual[k])
  BY BooksOf DEF Balanced, Billable, GoesOn
<1> QED
  BY <1>1, QuietRequest

LEMMA CaughtKeeps ==
    ASSUME RequestIInv, NEW k \in Calls, Caught(k)
    PROVE  RequestIInv'
<1> DEFINE again == [Moves(k, "start") EXCEPT !.attempt = @ + 1]
<1>1. /\ request[k].pc = "caught" /\ request[k].pc \in Billable
      /\ paid' = paid /\ UNCHANGED budget
      /\ Remembers(k, Moves(k, "settle")) \/ Remembers(k, After(k))
  BY DEF Caught, Waits, Billable
<1>2. request[k] \in Asking({request[k].route})
  BY BooksOf
<1>3. CASE Remembers(k, Moves(k, "settle"))
  BY <1>1, <1>3, GivesUp
<1>4. CASE Remembers(k, After(k)) /\ request[k].class \in {"approval", "fatal"}
  <2>1. After(k) = Moves(k, "settle")
    BY <1>4 DEF After
  <2> QED
    BY <1>1, <1>4, <2>1, GivesUp
<1>5. CASE Remembers(k, After(k)) /\ request[k].class \notin {"approval", "fatal"}
  <2>1. GoesOn(request[k])
    BY <1>1, <1>5 DEF GoesOn
  <2>2. After(k) = again \/ After(k) = Moves(k, "switch") \/ After(k) = Moves(k, "settle")
    BY <1>5 DEF After
  <2>3. CASE After(k) = again
    <3>1. Moves(k, "start") \in Asking({request[k].route})
      BY <1>2, MovesType DEF Billable
    <3>2. request[k].attempt \in Nat /\ Moves(k, "start").attempt = request[k].attempt
      BY <1>2 DEF Moves, Asking
    <3>3. PICK n \in Nat : n = Moves(k, "start").attempt + 1
      BY <3>2
    <3>4. again = [Moves(k, "start") EXCEPT !.attempt = n]
      BY <3>3
    <3> HIDE DEF again
    <3>5. /\ again \in Asking({again.route}) /\ again.pc = "start"
          /\ again.spentUsd = request[k].spentUsd /\ again.actualUsd = request[k].actualUsd
      BY <1>2, <3>1, <3>4 DEF Moves, Asking
    <3> QED
      BY <1>1, <1>5, <2>1, <2>3, <3>5, TriesAgain
  <2>4. CASE After(k) = Moves(k, "switch")
    <3>1. /\ After(k) \in Asking({After(k).route}) /\ After(k).pc = "switch"
          /\ After(k).spentUsd = request[k].spentUsd
          /\ After(k).actualUsd = request[k].actualUsd
      BY <1>2, <2>4, MovesType DEF Billable
    <3> QED
      BY <1>1, <1>5, <2>1, <3>1, TriesAgain
  <2>5. CASE After(k) = Moves(k, "settle")
    BY <1>1, <1>5, <2>5, GivesUp
  <2> QED
    BY <2>2, <2>3, <2>4, <2>5
<1> QED
  BY <1>1, <1>3, <1>4, <1>5

LEMMA SwitchProviderKeeps ==
    ASSUME RequestIInv, NEW k \in Calls, SwitchProvider(k)
    PROVE  RequestIInv'
<1> DEFINE m == NextProvider(k)
<1>1. /\ request[k].pc = "switch" /\ request[k].pc \in Billable /\ GoesOn(request[k])
      /\ paid' = paid /\ UNCHANGED budget
      /\ Remembers(k, Moves(k, "settle")) \/ Remembers(k, m)
  BY DEF SwitchProvider, Waits, Billable, GoesOn
<1>2. request[k] \in Asking({request[k].route})
  BY BooksOf
<1>3. /\ m \in Asking({m.route}) /\ m.pc = "start"
      /\ m.spentUsd = request[k].spentUsd /\ m.actualUsd = request[k].actualUsd
  <2>1. Moves(k, "start") \in Asking({request[k].route})
    BY <1>2, MovesType DEF Billable
  <2>2. request[k].at \in Nat /\ Moves(k, "start").at = request[k].at
    BY <1>2 DEF Moves, Asking
  <2>3. PICK n \in Nat : n = Moves(k, "start").at + 1
    BY <2>2
  <2>4. m = [Moves(k, "start") EXCEPT !.at = n, !.attempt = 1]
    BY <2>3 DEF NextProvider
  <2> HIDE DEF m
  <2> QED
    BY <1>2, <2>1, <2>4 DEF Moves, Asking
<1> HIDE DEF m
<1> QED
  BY <1>1, <1>3, TriesAgain, GivesUp

LEMMA SettleRequestKeeps ==
    ASSUME RequestIInv, NEW k \in Calls, SettleRequest(k)
    PROVE  RequestIInv'
<1>1. request[k].pc \in {"answered", "settle"}
  BY DEF SettleRequest, Waits
<1>2. PICK pc \in {"done", "failed", "lost"} :
        /\ Remembers(k, Finished(pc)) /\ paid' = paid
        /\ Settle(k, request[k].actualUsd) \/ (UNCHANGED budget /\ pc = "lost")
  BY DEF SettleRequest
<1>3. CASE UNCHANGED budget /\ pc = "lost"
  BY <1>2, <1>3, EndsUnbilled
<1>4. CASE Settle(k, request[k].actualUsd)
  <2> DEFINE m == Finished(pc)
  <2>1. m \in Asking({m.route}) /\ m.pc = pc
    BY FinishedType
  <2> HIDE DEF m
  <2>2. /\ hold[k] = "reserved" /\ request[k].actualUsd = paid[k].usd
        /\ request[k].actualUsd \in Nat /\ k \in Keys /\ BudgetIInv /\ paid[k] \in Paying
    BY <1>1, BooksOf DEF Balanced, Billable
  <2>3. /\ BudgetIInv'
        /\ \A j \in Keys : j # k => hold'[j] = hold[j] /\ actual'[j] = actual[j]
        /\ hold'[k] = "settled" /\ amount' = amount /\ actual'[k] = paid[k].usd
    BY <1>4, <2>2, SettlesOne
  <2>4. Balanced(m, paid[k], hold'[k], amount'[k], actual'[k])
    BY <2>1, <2>2, <2>3, BooksOf DEF Balanced, Billable, GoesOn
  <2>5. paid' = [paid EXCEPT ![k] = paid[k]] /\ request' = [request EXCEPT ![k] = m]
    BY <1>2 DEF RequestIInv, Remembers, m
  <2>6. \A j \in Keys : j # k =>
            hold'[j] = hold[j] /\ amount'[j] = amount[j] /\ actual'[j] = actual[j]
    BY <2>3
  <2> QED
    BY <2>1, <2>2, <2>3, <2>4, <2>5, <2>6, OneRequest
<1> QED
  BY <1>2, <1>3, <1>4

LEMMA AskAgainKeeps ==
    ASSUME RequestIInv, NEW k \in Calls, AskAgain(k)
    PROVE  RequestIInv'
<1>1. /\ request[k].pc = "done" /\ Remembers(k, NewRequest)
      /\ paid' = paid /\ UNCHANGED budget
  BY DEF AskAgain, Waits, gateway
<1>2. /\ NewRequest \in Asking({NewRequest.route}) /\ NewRequest.pc = "new"
      /\ NewRequest.spentUsd = 0 /\ NewRequest.actualUsd = 0
  BY DEF NewRequest, Asking
<1>3. Balanced(NewRequest, paid[k], hold[k], amount[k], actual[k])
  BY <1>1, <1>2, BooksOf DEF Balanced, Billable, GoesOn
<1> QED
  BY <1>1, <1>2, <1>3, QuietRequest

(* The process dies: what was reserved stays reserved for nobody.            *)
LEMMA DiesKeeps ==
    ASSUME RequestIInv, Dies
    PROVE  RequestIInv'
<1>1. /\ request' = [k \in Calls |-> IF request[k].pc = "new" THEN request[k]
                                     ELSE Finished("lost")]
      /\ paid' = paid /\ UNCHANGED budget
  BY DEF Dies
<1>2. BudgetIInv' /\ hold' = hold /\ amount' = amount /\ actual' = actual
  BY <1>1, ClocksAlone DEF RequestIInv
<1>3. ASSUME NEW k \in Calls
      PROVE  Books(k)'
  <2>1. Books(k)
    BY DEF RequestIInv
  <2>2. CASE request[k].pc = "new"
    <3>1. request'[k] = request[k]
      BY <1>1, <2>2
    <3> QED
      BY <1>1, <1>2, <2>1, <3>1 DEF Books, Asking, Balanced, GoesOn
  <2>3. CASE request[k].pc # "new"
    <3> DEFINE m == Finished("lost")
    <3>1. request'[k] = m /\ m \in Asking({m.route}) /\ m.pc = "lost"
      BY <1>1, <2>3, FinishedType
    <3> HIDE DEF m
    <3>2. Balanced(m, paid[k], hold[k], amount[k], actual[k])
      BY <3>1, BooksOf DEF Balanced, Billable, GoesOn
    <3> QED
      BY <1>1, <1>2, <3>1, <3>2 DEF Books, Asking, Balanced, GoesOn
  <2> QED
    BY <2>2, <2>3
<1>4. DOMAIN request' = Calls /\ paid' \in [Calls -> Paying]
  BY <1>1 DEF RequestIInv
<1> QED
  BY <1>2, <1>3, <1>4 DEF RequestIInv

LEMMA RequestsRest ==
    ASSUME RequestIInv, request' = request, paid' = paid, UNCHANGED budget \/ PeriodEnds
    PROVE  RequestIInv'
<1>1. BudgetIInv' /\ hold' = hold /\ amount' = amount /\ actual' = actual
  BY ClocksAlone DEF RequestIInv
<1>2. \A k \in Calls : Books(k)'
  BY <1>1 DEF RequestIInv, Books, Asking, Balanced, GoesOn
<1> QED
  BY <1>1, <1>2 DEF RequestIInv

LEMMA RequestStepKeeps ==
    ASSUME RequestIInv, [LegacyNext]_legacy
    PROVE  RequestIInv'
<1>1. ASSUME NEW k \in Calls, RequestStep(k)
      PROVE  RequestIInv'
  <2>1. CASE Authorize(k) \/ Deny(k) \/ ReserveRequest(k) \/ StartAttempt(k)
    BY <2>1, AuthorizeKeeps, DenyKeeps, ReserveRequestKeeps, StartAttemptKeeps
  <2>2. CASE \E named \in Providers \cup {"any"} : Route(k, named)
    BY <2>2, RouteKeeps
  <2>3. CASE Answered(k) \/ Failed(k) \/ RecordAnswer(k) \/ Caught(k)
    BY <2>3, AnsweredKeeps, FailedKeeps, RecordAnswerKeeps, CaughtKeeps
  <2>4. CASE SwitchProvider(k) \/ SettleRequest(k) \/ AskAgain(k)
    BY <2>4, SwitchProviderKeeps, SettleRequestKeeps, AskAgainKeeps
  <2> QED
    BY <1>1, <2>1, <2>2, <2>3, <2>4 DEF RequestStep
<1>2. CASE Dies
  BY <1>2, DiesKeeps
<1>3. CASE CooldownPasses
  BY <1>3, RequestsRest DEF CooldownPasses
<1>4. CASE BudgetMonthEnds
  BY <1>4, RequestsRest DEF BudgetMonthEnds
<1>5. CASE UNCHANGED legacy
  BY <1>5, RequestsRest DEF legacy
<1> QED
  BY <1>1, <1>2, <1>3, <1>4, <1>5 DEF LegacyNext

LEMMA RequestInit == LegacyInit => RequestIInv
<1> SUFFICES ASSUME LegacyInit PROVE RequestIInv
  OBVIOUS
<1>1. BudgetIInv
  BY BudgetInitHolds DEF LegacyInit
<1>2. /\ request = [k \in Calls |-> NewRequest] /\ paid = [k \in Calls |-> NothingPaid]
      /\ hold = [k \in Keys |-> "none"]
  BY DEF LegacyInit, GatewayInit, BudgetInit
<1>3. NothingPaid \in Paying /\ NothingPaid.usd = 0 /\ NothingPaid.answers = 0
      /\ NothingPaid.misread = 0
  BY DEF NothingPaid, Paying
<1>4. /\ NewRequest \in Asking({NewRequest.route}) /\ NewRequest.pc = "new"
      /\ NewRequest.spentUsd = 0 /\ NewRequest.actualUsd = 0
  BY DEF NewRequest, Asking
<1>5. ASSUME NEW k \in Calls
      PROVE  Books(k)
  <2>1. k \in Keys
    BY GatewayAssumption
  <2>2. request[k] = NewRequest /\ paid[k] = NothingPaid /\ hold[k] = "none"
    BY <1>2, <2>1
  <2>3. Balanced(NewRequest, NothingPaid, "none", amount[k], actual[k])
    BY <1>3, <1>4 DEF Balanced, Billable, GoesOn
  <2> QED
    BY <1>4, <2>2, <2>3 DEF Books
<1> QED
  BY <1>1, <1>2, <1>3, <1>5 DEF RequestIInv

LEMMA RequestsAreSound ==
    ASSUME RequestIInv
    PROVE  ChargesWhatWasBilled /\ PaysOnce /\ BudgetHolds
<1>1. \A k \in Calls : Balanced(request[k], paid[k], hold[k], amount[k], actual[k])
  BY BooksOf
<1>2. BudgetHolds
  BY DEF RequestIInv, BudgetIInv, BudgetHolds
<1> QED
  BY <1>1, <1>2 DEF Balanced, ChargesWhatWasBilled, PaysOnce

-----------------------------------------------------------------------------
(* Both ways, over one budget.  The one that is not taken rests.            *)
WaysIInv ==
    \/ path = "pool" /\ TurnIInv /\ paid = [k \in Calls |-> NothingPaid]
    \/ path = "gateway" /\ RequestIInv /\ run = [p \in Runs |-> Idle]

LEMMA WaysInit == MCInit => WaysIInv
<1> SUFFICES ASSUME MCInit PROVE WaysIInv
  OBVIOUS
<1>1. Init /\ LegacyInit /\ path \in {"pool", "gateway"}
  BY DEF MCInit, Init, LegacyInit
<1>2. TurnIInv /\ RequestIInv
  BY <1>1, TurnInit, RequestInit
<1> QED
  BY <1>1, <1>2 DEF WaysIInv, Init, OthersInit, LegacyInit, GatewayInit

LEMMA WaysStep ==
    ASSUME WaysIInv, [MCNext]_all
    PROVE  WaysIInv'
<1>1. CASE path = "pool" /\ TurnIInv /\ paid = [k \in Calls |-> NothingPaid]
  <2>1. path' = path /\ paid' = paid /\ [Next]_vars
    BY <1>1 DEF MCNext, all, pool, requests, vars
  <2>2. TurnIInv'
    BY <1>1, <2>1, TurnStep
  <2> QED
    BY <1>1, <2>1, <2>2 DEF WaysIInv
<1>2. CASE path = "gateway" /\ RequestIInv /\ run = [p \in Runs |-> Idle]
  <2>1. path' = path /\ run' = run /\ [LegacyNext]_legacy
    BY <1>2 DEF MCNext, all, pool, requests, legacy
  <2>2. RequestIInv'
    BY <1>2, <2>1, RequestStepKeeps
  <2> QED
    BY <1>2, <2>1, <2>2 DEF WaysIInv
<1> QED
  BY <1>1, <1>2 DEF WaysIInv

LEMMA WaysAreSound ==
    ASSUME WaysIInv
    PROVE  BudgetHolds /\ HoldsAreOwned /\ TakesOverFromCheckpoint /\ PaysOnce
<1>1. CASE path = "pool" /\ TurnIInv /\ paid = [k \in Calls |-> NothingPaid]
  <2>1. HoldsMatchCalls /\ TakesOverFromCheckpoint /\ BudgetHolds
    BY <1>1, RunsAreSound
  <2>2. \A k \in Calls : paid[k].usd = 0 /\ paid[k].answers = 0 /\ paid[k].misread = 0
    BY <1>1 DEF NothingPaid
  <2>3. PaysOnce
    BY <2>2 DEF PaysOnce
  <2> QED
    BY <1>1, <2>1, <2>3 DEF HoldsAreOwned
<1>2. CASE path = "gateway" /\ RequestIInv /\ run = [p \in Runs |-> Idle]
  <2>1. ChargesWhatWasBilled /\ PaysOnce /\ BudgetHolds
    BY <1>2, RequestsAreSound
  <2>2. Idle.pc = "idle"
    BY DEF Idle
  <2>3. \A p \in Runs : run[p].pc # "call"
    BY <1>2, <2>2
  <2> QED
    BY <1>2, <2>1, <2>3 DEF HoldsAreOwned, TakesOverFromCheckpoint
<1> QED
  BY <1>1, <1>2 DEF WaysIInv

(* Both ways to a model over one budget keep their inductive invariants.     *)
THEOREM WaysInvariant == MCSpec => []WaysIInv
BY WaysInit, WaysStep, PTL DEF MCSpec

(* Every open reservation belongs to a call that is still to be settled, or  *)
(* to a run that died or threw; a run of a workspace never calls a paid       *)
(* provider without one (a job without a workspace has no budget to reserve   *)
(* from); and a request is settled at what all its attempts billed            *)
(* (office/pool-runner.js, workspace-policy/gateway.js).                     *)
THEOREM ReservationsAreOwned == MCSpec => []HoldsAreOwned
BY WaysInvariant, WaysAreSound, PTL

(* The gateway pays for one answer to a request, and for one more for each   *)
(* answer it took for a network failure; no attempt starts once the          *)
(* reservation is used up (model-gateway/gateway.js).                        *)
THEOREM RequestsArePaidOnce == MCSpec => []PaysOnce
BY WaysInvariant, WaysAreSound, PTL

(* The callers keep the budget: the counters are the sums over the           *)
(* reservations and the month keeps its limit, for every interleaving of     *)
(* runs or requests, their failures, retries and deaths, with a request      *)
(* settled at any sum of the costs of its attempts.                          *)
THEOREM CallersKeepTheBudget == MCSpec => []BudgetHolds
BY WaysInvariant, WaysAreSound, PTL
=============================================================================

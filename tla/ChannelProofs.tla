---------------------------- MODULE ChannelProofs ----------------------------
(***************************************************************************)
(* What the owner writes is heard and what the Office answers is told once,  *)
(* for any number of messages, jobs and questions, any limits of the queries *)
(* and any mishaps.                                                         *)
(***************************************************************************)
EXTENDS ChannelBridge, WellFoundedInduction, TLAPS

-----------------------------------------------------------------------------
(* The least element of a set of naturals, for what would be induction.        *)
LEMMA LeastNumber ==
    ASSUME NEW S, S \subseteq Nat, S # {}
    PROVE  \E i \in S : \A j \in S : i <= j
<1> DEFINE Less == OpToRel(<, Nat)
<1>1. IsWellFoundedOn(Less, Nat)
  BY NatLessThanWellFounded
<1>2. PICK i \in S : \A j \in S : ~(<<j, i>> \in Less)
  <2> HIDE DEF Less
  <2> QED
    BY <1>1, WFMin
<1>3. \A j \in S : j < i => <<j, i>> \in Less
  BY DEF OpToRel
<1>4. \A j \in S : ~(j < i)
  <2> HIDE DEF Less
  <2> QED
    BY <1>2, <1>3
<1>5. \A j \in S : i <= j
  <2> TAKE j \in S
  <2>1. i \in Nat /\ j \in Nat
    OBVIOUS
  <2> QED
    BY <1>4, <2>1
<1> QED
  BY <1>5

-----------------------------------------------------------------------------
(* What is left of a sequence: elements of it, and of S, each as often.        *)
OnceEach(s) == \A i, k \in 1..Len(s) : s[i] = s[k] => i = k

(* The function Within is defined by, on the first n places of s.              *)
Filters(f, s, S, n) ==
    f = [i \in 0..n |-> IF i = 0 THEN <<>>
                        ELSE IF s[i] \in S THEN Append(f[i - 1], s[i]) ELSE f[i - 1]]

LEMMA FilterExists ==
    ASSUME NEW s, NEW S, NEW n \in Nat
    PROVE  \E f : Filters(f, s, S, n)
<1> DEFINE Bad == {m \in Nat : ~\E f : Filters(f, s, S, m)}
<1> SUFFICES ASSUME Bad # {}
             PROVE  FALSE
  OBVIOUS
<1>1. PICK m \in Bad : \A j \in Bad : m <= j
  BY LeastNumber
<1>2. m # 0
  <2> DEFINE f == [i \in 0..0 |-> <<>>]
  <2>1. Filters(f, s, S, 0)
    BY DEF Filters
  <2> QED
    BY <1>1, <2>1
<1>3. PICK f : Filters(f, s, S, m - 1)
  BY <1>1, <1>2
<1> DEFINE last == IF s[m] \in S THEN Append(f[m - 1], s[m]) ELSE f[m - 1]
           g == [i \in 0..m |-> IF i = m THEN last ELSE f[i]]
<1>4. Filters(g, s, S, m)
  <2>1. ASSUME NEW i \in 0..m
        PROVE  g[i] = IF i = 0 THEN <<>>
                      ELSE IF s[i] \in S THEN Append(g[i - 1], s[i]) ELSE g[i - 1]
    <3>1. CASE i = 0
      BY <1>2, <1>3, <3>1 DEF Filters
    <3>2. CASE i = m
      BY <1>1, <1>2, <3>2
    <3>3. CASE i # 0 /\ i # m
      <4>1. i \in 0..(m - 1) /\ i - 1 \in 0..(m - 1) /\ i - 1 \in 0..m /\ i - 1 # m
        BY <1>1, <1>2, <3>3
      <4>2. g[i] = f[i] /\ g[i - 1] = f[i - 1]
        BY <3>3, <4>1
      <4>3. f[i] = IF s[i] \in S THEN Append(f[i - 1], s[i]) ELSE f[i - 1]
        BY <1>3, <3>3, <4>1 DEF Filters
      <4> HIDE DEF g, last
      <4> QED
        BY <3>3, <4>2, <4>3
    <3> QED
      BY <3>1, <3>2, <3>3
  <2> QED
    BY <2>1 DEF Filters
<1> QED
  BY <1>1, <1>4

LEMMA FilterKeepsFirst ==
    ASSUME NEW T, NEW s \in Seq(T), NEW S, NEW f, Filters(f, s, S, Len(s)), NEW n \in 0..Len(s)
    PROVE  /\ f[n] \in Seq(T)
           /\ \A k \in 1..Len(f[n]) : f[n][k] \in S /\ \E i \in 1..n : f[n][k] = s[i]
           /\ OnceEach(s) => OnceEach(f[n])
<1> DEFINE Good(m) == /\ f[m] \in Seq(T)
                      /\ \A k \in 1..Len(f[m]) : f[m][k] \in S /\ \E i \in 1..m : f[m][k] = s[i]
                      /\ OnceEach(s) => OnceEach(f[m])
           Bad == {m \in 0..Len(s) : ~Good(m)}
<1> SUFFICES ASSUME Bad # {}
             PROVE  FALSE
  OBVIOUS
<1>0. Bad \subseteq Nat
  <2> HIDE DEF Good
  <2> QED
    OBVIOUS
<1>1. PICK m \in Bad : \A j \in Bad : m <= j
  <2> HIDE DEF Bad
  <2> QED
    BY <1>0, LeastNumber
<1>2. \A i \in 0..Len(s) : f[i] = IF i = 0 THEN <<>>
                                  ELSE IF s[i] \in S THEN Append(f[i - 1], s[i]) ELSE f[i - 1]
  BY DEF Filters
<1>3. m # 0
  <2>1. f[0] = <<>>
    BY <1>2
  <2>2. Good(0)
    BY <2>1 DEF OnceEach
  <2> QED
    BY <1>1, <2>2
<1>4. m \in 1..Len(s) /\ m - 1 \in 0..Len(s) /\ m - 1 < m
  BY <1>1, <1>3
<1>5. Good(m - 1)
  BY <1>1, <1>4
<1>6. CASE s[m] \notin S
  <2>1. f[m] = f[m - 1]
    BY <1>2, <1>4, <1>6
  <2> QED
    BY <1>1, <1>4, <1>5, <2>1
<1>7. CASE s[m] \in S
  <2> DEFINE w == f[m - 1]
  <2>1. f[m] = Append(w, s[m]) /\ s[m] \in T
    <3>1. m \in 0..Len(s) /\ m # 0 /\ s[m] \in T
      BY <1>4
    <3> QED
      BY <1>2, <1>7, <3>1
  <2>2. /\ w \in Seq(T) /\ Len(w) \in Nat
        /\ \A k \in 1..Len(w) : w[k] \in S /\ \E i \in 1..(m - 1) : w[k] = s[i]
        /\ OnceEach(s) => OnceEach(w)
    BY <1>5
  <2>3. /\ f[m] \in Seq(T) /\ Len(f[m]) = Len(w) + 1
        /\ \A k \in 1..Len(w) : f[m][k] = w[k]
        /\ f[m][Len(w) + 1] = s[m]
    <3> HIDE DEF w
    <3> QED
      BY <2>1, <2>2
  <2> HIDE DEF w
  <2>4. \A k \in 1..Len(f[m]) : k \in 1..Len(w) \/ k = Len(w) + 1
    BY <2>2, <2>3
  <2>5. \A k \in 1..Len(f[m]) : f[m][k] \in S /\ \E i \in 1..m : f[m][k] = s[i]
    BY <1>4, <1>7, <2>2, <2>3, <2>4
  <2>6. OnceEach(s) => OnceEach(f[m])
    <3> SUFFICES ASSUME OnceEach(s), NEW i \in 1..Len(f[m]), NEW k \in 1..Len(f[m]), f[m][i] = f[m][k]
                 PROVE  i = k
      BY DEF OnceEach
    <3>1. \A j \in 1..Len(w) : w[j] # s[m]
      BY <1>4, <2>2 DEF OnceEach
    <3>2. CASE i \in 1..Len(w) /\ k \in 1..Len(w)
      BY <2>2, <2>3, <3>2 DEF OnceEach
    <3> QED
      BY <2>3, <2>4, <3>1, <3>2
  <2> QED
    BY <1>1, <2>3, <2>5, <2>6
<1> QED
  BY <1>6, <1>7

LEMMA WithinKeeps ==
    ASSUME NEW T, NEW s \in Seq(T), NEW S
    PROVE  /\ Within(s, S) \in Seq(T)
           /\ ToSet(Within(s, S)) \subseteq S \cap ToSet(s)
           /\ OnceEach(s) => OnceEach(Within(s, S))
<1> DEFINE f == CHOOSE g : Filters(g, s, S, Len(s))
<1>1. Filters(f, s, S, Len(s))
  <2>1. Len(s) \in Nat
    OBVIOUS
  <2> QED
    BY <2>1, FilterExists
<1>2. Within(s, S) = f[Len(s)]
  BY DEF Within, Filters
<1> HIDE DEF f
<1>3. Len(s) \in 0..Len(s)
  OBVIOUS
<1>4. /\ f[Len(s)] \in Seq(T)
      /\ \A k \in 1..Len(f[Len(s)]) : f[Len(s)][k] \in S /\ \E i \in 1..Len(s) : f[Len(s)][k] = s[i]
      /\ OnceEach(s) => OnceEach(f[Len(s)])
  BY <1>1, <1>3, FilterKeepsFirst
<1>5. ToSet(f[Len(s)]) \subseteq S \cap ToSet(s)
  BY <1>4 DEF ToSet
<1> QED
  BY <1>2, <1>4, <1>5

LEMMA FirstKeeps ==
    ASSUME NEW T, NEW s \in Seq(T), NEW n \in Nat
    PROVE  /\ First(s, n) \in Seq(T)
           /\ ToSet(First(s, n)) \subseteq ToSet(s)
           /\ OnceEach(s) => OnceEach(First(s, n))
<1> DEFINE m == IF Len(s) <= n THEN Len(s) ELSE n
<1>1. m \in Nat /\ m <= Len(s) /\ First(s, n) = SubSeq(s, 1, m)
  BY DEF First
<1> HIDE DEF m
<1>2. /\ First(s, n) \in Seq(T) /\ Len(First(s, n)) = m
      /\ \A i \in 1..m : First(s, n)[i] = s[i]
  BY <1>1
<1> QED
  BY <1>1, <1>2 DEF ToSet, OnceEach

LEMMA JoinKeeps ==
    ASSUME NEW T, NEW a \in Seq(T), NEW b \in Seq(T)
    PROVE  /\ a \o b \in Seq(T)
           /\ ToSet(a \o b) = ToSet(a) \cup ToSet(b)
           /\ OnceEach(a) /\ OnceEach(b) /\ ToSet(a) \cap ToSet(b) = {} => OnceEach(a \o b)
<1>1. /\ a \o b \in Seq(T) /\ Len(a \o b) = Len(a) + Len(b) /\ Len(a) \in Nat /\ Len(b) \in Nat
      /\ \A i \in 1..Len(a) : (a \o b)[i] = a[i]
      /\ \A i \in 1..Len(b) : (a \o b)[Len(a) + i] = b[i]
  OBVIOUS
<1>2. \A i \in 1..Len(a \o b) : i \in 1..Len(a) \/ \E k \in 1..Len(b) : i = Len(a) + k
  <2> TAKE i \in 1..Len(a \o b)
  <2>1. i \notin 1..Len(a) => i - Len(a) \in 1..Len(b) /\ i = Len(a) + (i - Len(a))
    BY <1>1
  <2> QED
    BY <2>1
<1>3. ToSet(a \o b) = ToSet(a) \cup ToSet(b)
  <2>1. ToSet(a \o b) \subseteq ToSet(a) \cup ToSet(b)
    BY <1>1, <1>2 DEF ToSet
  <2>2. ToSet(a) \subseteq ToSet(a \o b)
    <3>1. \A i \in 1..Len(a) : i \in 1..Len(a \o b)
      BY <1>1
    <3> QED
      BY <1>1, <3>1 DEF ToSet
  <2>3. ToSet(b) \subseteq ToSet(a \o b)
    <3>1. ASSUME NEW i \in 1..Len(b)
          PROVE  b[i] \in ToSet(a \o b)
      <4>1. Len(a) + i \in 1..Len(a \o b) /\ (a \o b)[Len(a) + i] = b[i]
        BY <1>1
      <4> QED
        BY <1>1, <4>1 DEF ToSet
    <3> QED
      BY <3>1 DEF ToSet
  <2> QED
    BY <2>1, <2>2, <2>3
<1>4. ASSUME OnceEach(a), OnceEach(b), ToSet(a) \cap ToSet(b) = {},
             NEW i \in 1..Len(a \o b), NEW k \in 1..Len(a \o b), (a \o b)[i] = (a \o b)[k]
      PROVE  i = k
  <2>1. \A x \in 1..Len(a), y \in 1..Len(b) : a[x] # b[y]
    <3> SUFFICES ASSUME NEW x \in 1..Len(a), NEW y \in 1..Len(b), a[x] = b[y]
                 PROVE  FALSE
      OBVIOUS
    <3>1. a[x] \in ToSet(a) /\ b[y] \in ToSet(b)
      BY DEF ToSet
    <3> QED
      BY <1>4, <3>1
  <2>2. CASE i \in 1..Len(a) /\ k \in 1..Len(a)
    BY <1>1, <1>4, <2>2 DEF OnceEach
  <2>3. CASE i \in 1..Len(a) /\ k \notin 1..Len(a)
    BY <1>1, <1>2, <1>4, <2>1, <2>3
  <2>4. CASE i \notin 1..Len(a) /\ k \in 1..Len(a)
    BY <1>1, <1>2, <1>4, <2>1, <2>4
  <2>5. CASE i \notin 1..Len(a) /\ k \notin 1..Len(a)
    <3>1. PICK x \in 1..Len(b) : i = Len(a) + x
      BY <1>2, <2>5
    <3>2. PICK y \in 1..Len(b) : k = Len(a) + y
      BY <1>2, <2>5
    <3>3. b[x] = b[y]
      BY <1>1, <1>4, <3>1, <3>2
    <3> QED
      BY <1>4, <3>1, <3>2, <3>3 DEF OnceEach
  <2> QED
    BY <2>2, <2>3, <2>4, <2>5
<1> QED
  BY <1>1, <1>3, <1>4 DEF OnceEach

-----------------------------------------------------------------------------
(* What has been taken up: everything below the offset, whatever is in between. *)
Heard(m) == asked[m] > 0 \/ m \in refused

Inbound ==
    /\ \A m \in ChatJobs : m < confirmed \/ m < offset \/ m \in seen => Heard(m)
    /\ batch # <<>> => \A m \in ChatJobs : m < batch[1] => Heard(m)
    /\ \A i \in 1..Len(batch) : i < Len(batch) => batch[i + 1] = batch[i] + 1
    /\ \A m \in ChatJobs : asked[m] <= mishaps + IF m \in seen THEN 1 ELSE 0

(* How often a result was told, for one that is marked or on its way to be,     *)
(* and for one that is not.                                                  *)
Outbound ==
    /\ phase # "outbox" => queue = <<>> /\ acking = <<>>
    /\ OnceEach(finished)
    /\ \A i, k \in 1..Len(queue) : queue[i] = queue[k] /\ queue[i] \in Results => i = k
    /\ \A j \in Results :
         /\ told[j] <= 1 + unsure[j]
         /\ j \notin marked \cup ToSet(acking) => told[j] <= unsure[j]
         /\ j \in ToSet(queue) => told[j] <= unsure[j] /\ j \notin ToSet(acking)

ChannelTypes ==
    BridgeTypeOK /\ mishaps \in Nat /\ confirmed <= written + 1 /\ offset <= written + 1
    /\ \A i \in 1..Len(batch) : batch[i] <= written

ChannelInv == ChannelTypes /\ Inbound /\ Outbound

USE ChannelAssumption

LEMMA ChatJobsAre == ChatJobs = 1..Messages /\ ChatJobs \subseteq Nat
BY DEF ChatJobs

LEMMA FirstPoll ==
    ASSUME BridgeInit
    PROVE  ChannelInv
<1>1. ChannelTypes
  BY DEF BridgeInit, ChannelTypes, BridgeTypeOK
<1>2. Inbound
  <2>1. batch = <<>> /\ Len(batch) = 0
    BY DEF BridgeInit
  <2>2. \A m \in ChatJobs : ~(m < confirmed) /\ ~(m < offset) /\ m \notin seen /\ asked[m] = 0
    BY DEF BridgeInit, ChatJobs
  <2> QED
    BY <2>1, <2>2 DEF BridgeInit, Inbound
<1>3. Outbound
  <2>1. queue = <<>> /\ acking = <<>> /\ finished = <<>>
    BY DEF BridgeInit
  <2>2. \A j \in Results : told[j] = 0 /\ unsure[j] = 0
    BY DEF BridgeInit
  <2>3. ToSet(queue) = {}
    BY <2>1 DEF ToSet
  <2> QED
    BY <2>1, <2>2, <2>3 DEF Outbound, OnceEach
<1> QED
  BY <1>1, <1>2, <1>3 DEF ChannelInv

-----------------------------------------------------------------------------
(* The channel's side of what is told does not change.                        *)
LEMMA OutboundStays ==
    ASSUME ChannelInv, UNCHANGED <<finished, marked, queue, acking, told, unsure, phase>>
    PROVE  Outbound'
BY DEF ChannelInv, Outbound, OnceEach

LEMMA InboundStays ==
    ASSUME ChannelInv, UNCHANGED <<confirmed, offset, batch, seen, asked, refused>>,
           mishaps' \in Nat, mishaps <= mishaps'
    PROVE  Inbound'
<1>1. \A m \in ChatJobs : asked[m] \in Nat /\ mishaps \in Nat
  BY DEF ChannelInv, ChannelTypes, BridgeTypeOK
<1>2. \A m \in ChatJobs : asked'[m] <= mishaps' + IF m \in seen' THEN 1 ELSE 0
  BY <1>1 DEF ChannelInv, Inbound
<1> QED
  BY <1>2 DEF ChannelInv, Inbound, Heard

(* The world: the owner, the Office, the sessions, time.                       *)
LEMMA OwnerWritesKeeps ==
    ASSUME ChannelInv, OwnerWrites
    PROVE  ChannelInv'
<1>1. ChannelTypes'
  <2>1. written < Messages /\ written' = written + 1 /\ written \in Nat
    BY DEF OwnerWrites, ChannelInv, ChannelTypes, BridgeTypeOK
  <2>2. written' \in 0..Messages
    BY <2>1
  <2>3. UNCHANGED <<confirmed, offset, batch, seen, recent, asked, refused, world, outbound, phase, mishaps>>
    BY DEF OwnerWrites
  <2>4. BridgeTypeOK'
    BY <2>2, <2>3 DEF ChannelInv, ChannelTypes, BridgeTypeOK, world, outbound
  <2>5. \A i \in 1..Len(batch) : batch[i] \in Nat
    BY DEF ChannelInv, ChannelTypes, BridgeTypeOK, ChatJobs
  <2> QED
    BY <2>1, <2>3, <2>4, <2>5 DEF ChannelInv, ChannelTypes, BridgeTypeOK
<1>2. Inbound' /\ Outbound'
  BY InboundStays, OutboundStays DEF OwnerWrites, world, outbound, ChannelInv, ChannelTypes
<1> QED
  BY <1>1, <1>2 DEF ChannelInv

LEMMA JobFinishesKeeps ==
    ASSUME ChannelInv, NEW j \in Results, JobFinishes(j)
    PROVE  ChannelInv'
<1>1. /\ finished' = Append(finished, j) /\ j \notin ToSet(finished) /\ finished \in Seq(Results)
      /\ UNCHANGED <<inbound, old, waiting, decided, outbound, phase, mishaps>>
  BY DEF JobFinishes, ChannelInv, ChannelTypes, BridgeTypeOK
<1>2. finished' \in Seq(Results)
  BY <1>1
<1>3. OnceEach(finished')
  <2>1. Len(finished') = Len(finished) + 1 /\ Len(finished) \in Nat
    BY <1>1
  <2>2. \A i \in 1..Len(finished) : finished'[i] = finished[i] /\ finished[i] # j
    BY <1>1 DEF ToSet
  <2>3. finished'[Len(finished) + 1] = j
    BY <1>1
  <2>4. \A i \in 1..Len(finished') : i \in 1..Len(finished) \/ i = Len(finished) + 1
    BY <2>1
  <2>5. OnceEach(finished)
    BY DEF ChannelInv, Outbound
  <2> QED
    BY <2>1, <2>2, <2>3, <2>4, <2>5 DEF OnceEach
<1>4. ChannelTypes'
  BY <1>1, <1>2 DEF ChannelInv, ChannelTypes, BridgeTypeOK, inbound, outbound
<1>5. Inbound'
  BY <1>1, InboundStays DEF inbound, ChannelInv, ChannelTypes
<1>6. Outbound'
  BY <1>1, <1>3 DEF ChannelInv, Outbound, outbound
<1> QED
  BY <1>4, <1>5, <1>6 DEF ChannelInv

LEMMA SessionAsksKeeps ==
    ASSUME ChannelInv, NEW a \in Asks, SessionAsks(a)
    PROVE  ChannelInv'
<1>1. waiting' \in Seq(Asks)
  BY DEF SessionAsks, ChannelInv, ChannelTypes, BridgeTypeOK
<1>2. ChannelTypes'
  BY <1>1 DEF SessionAsks, ChannelInv, ChannelTypes, BridgeTypeOK, inbound, outbound
<1>3. Inbound' /\ Outbound'
  BY InboundStays, OutboundStays DEF SessionAsks, inbound, outbound, ChannelInv, ChannelTypes
<1> QED
  BY <1>2, <1>3 DEF ChannelInv

LEMMA OwnerDecidesKeeps ==
    ASSUME ChannelInv, NEW a \in Asks, OwnerDecides(a)
    PROVE  ChannelInv'
<1>1. waiting' \in Seq(Asks)
  BY WithinKeeps DEF OwnerDecides, ChannelInv, ChannelTypes, BridgeTypeOK
<1>2. ChannelTypes'
  BY <1>1 DEF OwnerDecides, ChannelInv, ChannelTypes, BridgeTypeOK, inbound, outbound
<1>3. Inbound' /\ Outbound'
  BY InboundStays, OutboundStays DEF OwnerDecides, inbound, outbound, ChannelInv, ChannelTypes
<1> QED
  BY <1>2, <1>3 DEF ChannelInv

LEMMA DayPassesKeeps ==
    ASSUME ChannelInv, DayPasses
    PROVE  ChannelInv'
<1>1. old' = ToSet(finished) \cup ToSet(waiting) \cup old
      /\ UNCHANGED <<inbound, finished, waiting, decided, outbound, phase, mishaps>>
  BY DEF DayPasses
<1>2. old' \subseteq Items /\ since \subseteq old'
  BY <1>1 DEF ChannelInv, ChannelTypes, BridgeTypeOK, ToSet, Items
<1>3. ChannelTypes'
  BY <1>1, <1>2 DEF ChannelInv, ChannelTypes, BridgeTypeOK, inbound, outbound
<1>4. Inbound' /\ Outbound'
  BY <1>1, InboundStays, OutboundStays DEF inbound, outbound, ChannelInv, ChannelTypes
<1> QED
  BY <1>3, <1>4 DEF ChannelInv

LEMMA MinutePassesKeeps ==
    ASSUME ChannelInv, MinutePasses
    PROVE  ChannelInv'
<1>1. ChannelTypes'
  BY DEF MinutePasses, ChannelInv, ChannelTypes, BridgeTypeOK, world, outbound
<1>2. Inbound' /\ Outbound'
  BY InboundStays, OutboundStays DEF MinutePasses, world, outbound, ChannelInv, ChannelTypes
<1> QED
  BY <1>1, <1>2 DEF ChannelInv

-----------------------------------------------------------------------------
(* Messages in.                                                             *)
LEMMA GetUpdatesKeeps ==
    ASSUME ChannelInv, GetUpdates
    PROVE  ChannelInv'
<1> DEFINE c == Later(confirmed, offset)
<1>1. /\ confirmed' = c
      /\ batch' = [i \in 1..(written + 1 - c) |-> c + i - 1]
      /\ UNCHANGED <<written, offset, seen, recent, asked, refused, world, outbound, phase, mishaps>>
  BY DEF GetUpdates, Confirm
<1>2. /\ c \in Nat /\ c >= 1 /\ c <= written + 1 /\ written \in Nat /\ written <= Messages
      /\ (c = confirmed \/ c = offset)
  BY DEF ChannelInv, ChannelTypes, BridgeTypeOK, Later
<1> HIDE DEF c
<1>3. \A i \in 1..(written + 1 - c) : c + i - 1 \in ChatJobs /\ c + i - 1 <= written
  BY <1>2, ChatJobsAre
<1>4. /\ batch' \in Seq(ChatJobs) /\ Len(batch') = written + 1 - c
      /\ \A i \in 1..Len(batch') : batch'[i] = c + i - 1
  <2> DEFINE n == written + 1 - c
  <2>1. n \in Nat
    BY <1>2
  <2>2. batch' = [i \in 1..n |-> c + i - 1] /\ \A i \in 1..n : c + i - 1 \in ChatJobs
    BY <1>1, <1>3
  <2> HIDE DEF n
  <2>3. batch' \in Seq(ChatJobs) /\ Len(batch') = n /\ \A i \in 1..n : batch'[i] = c + i - 1
    BY <2>1, <2>2
  <2> QED
    BY <2>3 DEF n
<1>5. ChannelTypes'
  BY <1>1, <1>2, <1>3, <1>4 DEF ChannelInv, ChannelTypes, BridgeTypeOK, world, outbound
<1>6. Inbound'
  <2>1. \A m \in ChatJobs : m < c => Heard(m)
    BY <1>2 DEF ChannelInv, Inbound
  <2>2. batch' # <<>> => batch'[1] = c
    BY <1>2, <1>4
  <2>3. \A i \in 1..Len(batch') : i < Len(batch') => batch'[i + 1] = batch'[i] + 1
    BY <1>2, <1>4
  <2>4. \A m \in ChatJobs : Heard(m)' <=> Heard(m)
    BY <1>1 DEF Heard
  <2> QED
    BY <1>1, <2>1, <2>2, <2>3, <2>4 DEF ChannelInv, Inbound
<1>7. Outbound'
  BY <1>1, OutboundStays DEF world, outbound
<1> QED
  BY <1>5, <1>6, <1>7 DEF ChannelInv

LEMMA HandleKeeps ==
    ASSUME ChannelInv, Handle
    PROVE  ChannelInv'
<1>0. PICK u : u = Head(batch)
  OBVIOUS
<1>1. /\ batch # <<>> /\ offset' = Later(offset, u + 1) /\ batch' = Tail(batch)
      /\ seen' = seen \cup {u}
      /\ recent' = IF u \notin seen /\ recent < Rate THEN recent + 1 ELSE recent
      /\ UNCHANGED <<written, confirmed, world, outbound, phase>>
  BY <1>0 DEF Handle
<1>2. /\ batch \in Seq(ChatJobs) /\ u = batch[1] /\ u \in ChatJobs /\ u \in Nat /\ u <= written
      /\ Len(batch) \in Nat /\ Len(batch) >= 1 /\ batch' \in Seq(ChatJobs)
      /\ Len(batch') = Len(batch) - 1 /\ \A i \in 1..Len(batch') : batch'[i] = batch[i + 1]
  <2>1. batch \in Seq(ChatJobs) /\ Len(batch) \in Nat /\ Len(batch) >= 1 /\ u = batch[1]
    BY <1>0, <1>1 DEF ChannelInv, ChannelTypes, BridgeTypeOK
  <2>2. u \in ChatJobs /\ u \in Nat /\ u <= written
    BY <2>1, ChatJobsAre DEF ChannelInv, ChannelTypes
  <2>3. /\ Tail(batch) \in Seq(ChatJobs) /\ Len(Tail(batch)) = Len(batch) - 1
        /\ \A i \in 1..Len(Tail(batch)) : Tail(batch)[i] = batch[i + 1]
    BY <1>1, <2>1
  <2> QED
    BY <1>1, <2>1, <2>2, <2>3
<1>3. /\ asked' \in [ChatJobs -> Nat] /\ refused' \subseteq ChatJobs
      /\ mishaps' \in Nat /\ mishaps <= mishaps'
      /\ Heard(u)' /\ \A m \in ChatJobs : Heard(m) => Heard(m)'
      /\ \A m \in ChatJobs : asked'[m] <= mishaps' + IF m \in seen' THEN 1 ELSE 0
  <2>1. asked \in [ChatJobs -> Nat] /\ refused \subseteq ChatJobs /\ mishaps \in Nat
    BY DEF ChannelInv, ChannelTypes, BridgeTypeOK
  <2>2. \A m \in ChatJobs : asked[m] <= mishaps + IF m \in seen THEN 1 ELSE 0
    BY DEF ChannelInv, Inbound
  <2>3. CASE u \notin seen /\ asked' = [asked EXCEPT ![u] = @ + 1] /\ UNCHANGED <<refused, mishaps>>
    <3>1. asked' \in [ChatJobs -> Nat] /\ refused' \subseteq ChatJobs
          /\ mishaps' \in Nat /\ mishaps <= mishaps'
      BY <1>2, <2>1, <2>3
    <3>2. Heard(u)' /\ \A m \in ChatJobs : Heard(m) => Heard(m)'
      BY <1>2, <2>1, <2>3 DEF Heard
    <3>3. ASSUME NEW m \in ChatJobs
          PROVE  asked'[m] <= mishaps' + IF m \in seen' THEN 1 ELSE 0
      <4>1. asked[m] \in Nat /\ asked[m] <= mishaps + IF m \in seen THEN 1 ELSE 0
        BY <2>1, <2>2
      <4>2. m \in seen' <=> m \in seen \/ m = u
        BY <1>1
      <4>3. asked'[m] = IF m = u THEN asked[m] + 1 ELSE asked[m]
        BY <2>1, <2>3
      <4> QED
        BY <2>1, <2>3, <4>1, <4>2, <4>3
    <3> QED
      BY <3>1, <3>2, <3>3
  <2>4. CASE refused' = refused \cup {u} /\ UNCHANGED <<asked, mishaps>>
    <3>1. asked' \in [ChatJobs -> Nat] /\ refused' \subseteq ChatJobs
          /\ mishaps' \in Nat /\ mishaps <= mishaps'
      <4>1. refused' \subseteq ChatJobs
        BY <1>2, <2>1, <2>4
      <4> QED
        BY <2>1, <2>4, <4>1
    <3>2. Heard(u)' /\ \A m \in ChatJobs : Heard(m) => Heard(m)'
      BY <1>2, <2>1, <2>4 DEF Heard
    <3>3. ASSUME NEW m \in ChatJobs
          PROVE  asked'[m] <= mishaps' + IF m \in seen' THEN 1 ELSE 0
      <4>1. asked[m] \in Nat /\ asked[m] <= mishaps + IF m \in seen THEN 1 ELSE 0
        BY <2>1, <2>2
      <4>2. m \in seen' <=> m \in seen \/ m = u
        BY <1>1
      <4> QED
        BY <2>1, <2>4, <4>1, <4>2
    <3> QED
      BY <3>1, <3>2, <3>3
  <2>5. CASE refused' = refused \cup {u} /\ UNCHANGED asked /\ mishaps' = mishaps + 1
    <3>1. asked' \in [ChatJobs -> Nat] /\ refused' \subseteq ChatJobs
          /\ mishaps' \in Nat /\ mishaps <= mishaps'
      <4>1. refused' \subseteq ChatJobs
        BY <1>2, <2>1, <2>5
      <4> QED
        BY <2>1, <2>5, <4>1
    <3>2. Heard(u)' /\ \A m \in ChatJobs : Heard(m) => Heard(m)'
      BY <1>2, <2>1, <2>5 DEF Heard
    <3>3. ASSUME NEW m \in ChatJobs
          PROVE  asked'[m] <= mishaps' + IF m \in seen' THEN 1 ELSE 0
      <4>1. asked[m] \in Nat /\ asked[m] <= mishaps + IF m \in seen THEN 1 ELSE 0
        BY <2>1, <2>2
      <4>2. m \in seen' <=> m \in seen \/ m = u
        BY <1>1
      <4> QED
        BY <2>1, <2>5, <4>1, <4>2
    <3> QED
      BY <3>1, <3>2, <3>3
  <2>6. CASE u \in seen /\ UNCHANGED <<asked, refused, mishaps>>
    <3>1. asked' \in [ChatJobs -> Nat] /\ refused' \subseteq ChatJobs
          /\ mishaps' \in Nat /\ mishaps <= mishaps'
      BY <1>2, <2>1, <2>6
    <3>0. Heard(u)
      BY <1>2, <2>6 DEF ChannelInv, Inbound
    <3>2. Heard(u)' /\ \A m \in ChatJobs : Heard(m) => Heard(m)'
      BY <1>2, <2>1, <2>6, <3>0 DEF Heard
    <3>3. ASSUME NEW m \in ChatJobs
          PROVE  asked'[m] <= mishaps' + IF m \in seen' THEN 1 ELSE 0
      <4>1. asked[m] \in Nat /\ asked[m] <= mishaps + IF m \in seen THEN 1 ELSE 0
        BY <2>1, <2>2
      <4>2. m \in seen' <=> m \in seen \/ m = u
        BY <1>1
      <4> QED
        BY <2>1, <2>6, <4>1, <4>2
    <3> QED
      BY <3>1, <3>2, <3>3
  <2> QED
    BY <1>0, <2>3, <2>4, <2>5, <2>6 DEF Handle, Fine, Mishap
<1>4. offset' \in 0..(Messages + 1) /\ offset' <= written + 1 /\ recent' \in 0..Rate
      /\ (offset' = offset \/ offset' = u + 1)
  BY <1>1, <1>2 DEF ChannelInv, ChannelTypes, BridgeTypeOK, Later, ChatJobs
<1>5. ChannelTypes'
  <2>1. seen' \subseteq ChatJobs
    BY <1>1, <1>2 DEF ChannelInv, ChannelTypes, BridgeTypeOK
  <2>2. \A i \in 1..Len(batch') : batch'[i] <= written
    BY <1>2 DEF ChannelInv, ChannelTypes
  <2> QED
    BY <1>1, <1>2, <1>3, <1>4, <2>1, <2>2
      DEF ChannelInv, ChannelTypes, BridgeTypeOK, world, outbound
<1>6. Inbound'
  <2>1. \A m \in ChatJobs : m < u => Heard(m)
    BY <1>1, <1>2 DEF ChannelInv, Inbound
  <2>2. ASSUME NEW m \in ChatJobs, m < u + 1
        PROVE  Heard(m)'
    <3>1. m < u \/ m = u
      BY <1>2, <2>2, ChatJobsAre
    <3> QED
      BY <1>3, <2>1, <3>1
  <2>3. batch' # <<>> => batch'[1] = u + 1
    <3>1. batch' # <<>> => Len(batch') >= 1
      BY <1>2
    <3> QED
      BY <1>2, <3>1 DEF ChannelInv, Inbound
  <2>4. \A i \in 1..Len(batch') : i < Len(batch') => batch'[i + 1] = batch'[i] + 1
    BY <1>2 DEF ChannelInv, Inbound
  <2>5. \A m \in ChatJobs : m < confirmed' \/ m < offset' \/ m \in seen' => Heard(m)'
    <3> TAKE m \in ChatJobs
    <3>1. m < confirmed \/ m < offset \/ m \in seen => Heard(m)
      BY DEF ChannelInv, Inbound
    <3> QED
      BY <1>1, <1>3, <1>4, <2>2, <3>1
  <2> QED
    BY <1>3, <2>2, <2>3, <2>4, <2>5 DEF Inbound
<1>7. Outbound'
  BY <1>1, OutboundStays DEF world, outbound
<1> QED
  BY <1>5, <1>6, <1>7 DEF ChannelInv

-----------------------------------------------------------------------------
(* Results out.                                                             *)
LEMMA CountedIs ==
    ASSUME NEW count \in [Results -> Nat], NEW is
    PROVE  /\ Counted(count, is) \in [Results -> Nat]
           /\ \A j \in Results : Counted(count, is)[j] = count[j] + IF j \in is THEN 1 ELSE 0
BY DEF Counted

(* What is pending is results, each once.                                     *)
LEMMA PendingOnce ==
    ASSUME ChannelInv
    PROVE  Pending \in Seq(Results) /\ OnceEach(Pending)
<1>1. finished \in Seq(Results) /\ OnceEach(finished)
  BY DEF ChannelInv, ChannelTypes, BridgeTypeOK, Outbound
<1> DEFINE recently == Since(finished)
           chat == OfChat(recently)
           shown == First(chat, Limit)
           answers == Untold(shown)
           some == First(recently, HubLimit)
           hub == OfHub(some)
           untold == Untold(hub)
           notices == First(untold, Limit)
<1>2. recently \in Seq(Results) /\ OnceEach(recently)
  BY <1>1, WithinKeeps DEF Since
<1> HIDE DEF recently
<1>3. chat \in Seq(Results) /\ OnceEach(chat) /\ ToSet(chat) \subseteq ChatJobs
  BY <1>2, WithinKeeps DEF OfChat
<1> HIDE DEF chat
<1>4. shown \in Seq(Results) /\ OnceEach(shown) /\ ToSet(shown) \subseteq ChatJobs
  BY <1>3, FirstKeeps
<1> HIDE DEF shown
<1>5. answers \in Seq(Results) /\ OnceEach(answers) /\ ToSet(answers) \subseteq ChatJobs
  BY <1>4, WithinKeeps DEF Untold
<1> HIDE DEF answers
<1>6. some \in Seq(Results) /\ OnceEach(some)
  BY <1>2, FirstKeeps
<1> HIDE DEF some
<1>7. hub \in Seq(Results) /\ OnceEach(hub) /\ ToSet(hub) \subseteq HubJobs
  BY <1>6, WithinKeeps DEF OfHub
<1> HIDE DEF hub
<1>8. untold \in Seq(Results) /\ OnceEach(untold) /\ ToSet(untold) \subseteq HubJobs
  BY <1>7, WithinKeeps DEF Untold
<1> HIDE DEF untold
<1>9. notices \in Seq(Results) /\ OnceEach(notices) /\ ToSet(notices) \subseteq HubJobs
  BY <1>8, FirstKeeps
<1> HIDE DEF notices
<1>10. answers \o notices \in Seq(Results) /\ OnceEach(answers \o notices)
  BY <1>5, <1>9, JoinKeeps
<1> QED
  BY <1>10 DEF Pending, answers, notices, untold, hub, some, shown, chat, recently

LEMMA AskingIsAsks ==
    ASSUME ChannelInv
    PROVE  Asking \in Seq(Asks)
<1>1. waiting \in Seq(Asks)
  BY DEF ChannelInv, ChannelTypes, BridgeTypeOK
<1>2. Since(waiting) \in Seq(Asks)
  BY <1>1, WithinKeeps DEF Since
<1>3. First(Since(waiting), Limit) \in Seq(Asks)
  BY <1>2, FirstKeeps
<1> QED
  BY <1>3, WithinKeeps DEF Asking, Untold

(* A queue of results, each once, before questions.                            *)
LEMMA QueueOnce ==
    ASSUME NEW results \in Seq(Results), OnceEach(results), NEW asking \in Seq(Asks),
           NEW q, q = results \o asking
    PROVE  /\ q \in Seq(Items)
           /\ \A i, k \in 1..Len(q) : q[i] = q[k] /\ q[i] \in Results => i = k
           /\ ToSet(q) \cap Results = ToSet(results)
<1>1. /\ q \in Seq(Items) /\ Len(q) = Len(results) + Len(asking)
      /\ Len(results) \in Nat /\ Len(asking) \in Nat
      /\ \A i \in 1..Len(results) : q[i] = results[i] /\ q[i] \in Results
      /\ \A i \in 1..Len(asking) : q[Len(results) + i] = asking[i]
  BY DEF Items
<1>2. ASSUME NEW i \in 1..Len(q), q[i] \in Results
      PROVE  i \in 1..Len(results)
  <2> SUFFICES ASSUME i \notin 1..Len(results)
               PROVE  FALSE
    OBVIOUS
  <2>1. i - Len(results) \in 1..Len(asking) /\ i = Len(results) + (i - Len(results))
    BY <1>1
  <2>2. q[i] \in Asks
    BY <1>1, <2>1
  <2> QED
    BY <1>2, <2>2
<1>3. \A i, k \in 1..Len(q) : q[i] = q[k] /\ q[i] \in Results => i = k
  BY <1>1, <1>2 DEF OnceEach
<1>4. ToSet(q) \cap Results \subseteq ToSet(results)
  BY <1>1, <1>2 DEF ToSet
<1>5. ToSet(results) \subseteq ToSet(q) \cap Results
  <2>1. ASSUME NEW i \in 1..Len(results)
        PROVE  results[i] \in ToSet(q) \cap Results
    <3>1. i \in 1..Len(q) /\ results[i] = q[i]
      BY <1>1
    <3> QED
      BY <1>1, <3>1 DEF ToSet
  <2> QED
    BY <2>1 DEF ToSet
<1> QED
  BY <1>1, <1>3, <1>4, <1>5

LEMMA OutTypes ==
    ASSUME ChannelInv
    PROVE  /\ told \in [Results -> Nat] /\ unsure \in [Results -> Nat]
           /\ marked \subseteq Results /\ announced \subseteq Items
           /\ queue \in Seq(Items) /\ acking \in Seq(Items) /\ mishaps \in Nat
           /\ phase \in {"down", "updates", "outbox"}
           /\ Results \subseteq Items
BY DEF ChannelInv, ChannelTypes, BridgeTypeOK, Items

(* A step that only touches the outbox.                                       *)
OutboxOnly ==
    /\ UNCHANGED <<inbound, world, since>>
    /\ marked' \subseteq Results /\ announced' \subseteq Items /\ queue' \in Seq(Items)
    /\ acking' \in Seq(Items) /\ told' \in [Results -> Nat] /\ unsure' \in [Results -> Nat]
    /\ phase' \in {"down", "updates", "outbox"}
    /\ mishaps' \in Nat /\ mishaps <= mishaps'

LEMMA OutboxOnlyKeeps ==
    ASSUME ChannelInv, OutboxOnly, Outbound'
    PROVE  ChannelInv'
<1>1. ChannelTypes'
  BY DEF OutboxOnly, ChannelInv, ChannelTypes, BridgeTypeOK, inbound, world
<1>2. Inbound'
  BY InboundStays DEF OutboxOnly, inbound
<1> QED
  BY <1>1, <1>2 DEF ChannelInv

(* What the results of the outbox tell of their marks.                         *)
LEMMA FilledKeeps ==
    ASSUME ChannelInv, phase = "updates", NEW results \in Seq(Results), OnceEach(results),
           queue' = results \o Asking, UNCHANGED <<finished, marked, acking, told>>,
           unsure' \in [Results -> Nat],
           \A j \in Results : unsure[j] <= unsure'[j],
           \A j \in ToSet(results) : told[j] <= unsure'[j],
           phase' # "outbox" => queue' = <<>>
    PROVE  Outbound' /\ queue' \in Seq(Items)
<1>1. acking = <<>> /\ ToSet(acking) = {} /\ ToSet(acking') = {}
  BY DEF ChannelInv, Outbound, ToSet
<1>2. /\ queue' \in Seq(Items)
      /\ \A i, k \in 1..Len(queue') : queue'[i] = queue'[k] /\ queue'[i] \in Results => i = k
      /\ ToSet(queue') \cap Results = ToSet(results)
  BY AskingIsAsks, QueueOnce
<1>3. ASSUME NEW j \in Results
      PROVE  /\ told'[j] <= 1 + unsure'[j]
             /\ j \notin marked' \cup ToSet(acking') => told'[j] <= unsure'[j]
             /\ j \in ToSet(queue') => told'[j] <= unsure'[j] /\ j \notin ToSet(acking')
  <2>1. told[j] \in Nat /\ unsure[j] \in Nat /\ unsure'[j] \in Nat /\ unsure[j] <= unsure'[j]
    BY OutTypes
  <2>2. told[j] <= 1 + unsure[j] /\ (j \notin marked => told[j] <= unsure[j])
    BY <1>1 DEF ChannelInv, Outbound
  <2>3. j \in ToSet(queue') => told[j] <= unsure'[j]
    BY <1>2
  <2> QED
    BY <1>1, <2>1, <2>2, <2>3
<1>4. OnceEach(finished')
  BY DEF ChannelInv, Outbound, OnceEach
<1> QED
  BY <1>1, <1>2, <1>3, <1>4 DEF Outbound

LEMMA OpenOutboxKeeps ==
    ASSUME ChannelInv, OpenOutbox
    PROVE  ChannelInv'
<1>1. /\ phase = "updates" /\ phase' \in {"updates", "outbox"}
      /\ phase' # "outbox" => queue' = <<>>
      /\ UNCHANGED <<inbound, world, since, marked, acking, told>>
  BY DEF OpenOutbox
<1>2. UNCHANGED <<finished, marked, acking, told>>
  BY <1>1 DEF world
<1>3. Pending \in Seq(Results) /\ OnceEach(Pending)
  BY PendingOnce
<1>4. ToSet(Pending) \subseteq Results
  BY <1>3 DEF ToSet
<1>5. CASE /\ announced' = announced \cup (ToSet(Pending) \cap marked)
           /\ queue' = ToTell /\ UNCHANGED <<unsure, mishaps>>
  <2>1. /\ Unmarked(Pending) \in Seq(Results) /\ OnceEach(Unmarked(Pending))
        /\ ToSet(Unmarked(Pending)) \cap marked = {} /\ ToSet(Unmarked(Pending)) \subseteq Results
    <3>1. Unmarked(Pending) \in Seq(Results) /\ OnceEach(Unmarked(Pending))
          /\ ToSet(Unmarked(Pending)) \subseteq (Items \ marked) \cap ToSet(Pending)
      BY <1>3, WithinKeeps DEF Unmarked
    <3> QED
      BY <1>4, <3>1
  <2>2. ToSet(acking) = {}
    BY <1>1 DEF ChannelInv, Outbound, ToSet
  <2>3. \A j \in ToSet(Unmarked(Pending)) : told[j] <= unsure'[j]
    BY <1>5, <2>1, <2>2 DEF ChannelInv, Outbound
  <2>4. unsure' \in [Results -> Nat] /\ \A j \in Results : unsure[j] <= unsure'[j]
    BY <1>5, OutTypes
  <2>5. queue' = Unmarked(Pending) \o Asking
    BY <1>5 DEF ToTell
  <2>6. Outbound' /\ queue' \in Seq(Items)
    BY <1>1, <1>2, <2>1, <2>3, <2>4, <2>5, FilledKeeps
  <2>7. announced' \subseteq Items
    BY <1>4, <1>5, OutTypes
  <2>8. OutboxOnly
    BY <1>1, <1>5, <2>4, <2>6, <2>7, OutTypes DEF OutboxOnly
  <2> QED
    BY <2>6, <2>8, OutboxOnlyKeeps
<1>6. CASE /\ queue' = Pending \o Asking
           /\ unsure' = Counted(unsure, ToSet(Pending) \cap marked)
           /\ UNCHANGED announced /\ mishaps' = mishaps + 1
  <2>0. PICK repeated : repeated = ToSet(Pending) \cap marked
    OBVIOUS
  <2>1. /\ unsure' \in [Results -> Nat]
        /\ \A j \in Results : unsure'[j] = unsure[j] + IF j \in repeated THEN 1 ELSE 0
    <3>1. unsure' = Counted(unsure, repeated) /\ unsure \in [Results -> Nat]
      BY <1>6, <2>0, OutTypes
    <3> QED
      BY <3>1, CountedIs
  <2>2. \A j \in Results : unsure[j] <= unsure'[j]
    <3> TAKE j \in Results
    <3>1. unsure[j] \in Nat /\ unsure'[j] = unsure[j] + IF j \in repeated THEN 1 ELSE 0
      BY <2>1, OutTypes
    <3> QED
      BY <3>1
  <2>3. ASSUME NEW j \in ToSet(Pending)
        PROVE  told[j] <= unsure'[j]
    <3>1. j \in Results /\ told[j] \in Nat /\ unsure[j] \in Nat
      BY <1>4, OutTypes
    <3>2. ToSet(acking) = {}
      BY <1>1 DEF ChannelInv, Outbound, ToSet
    <3>3. told[j] <= 1 + unsure[j] /\ (j \notin marked => told[j] <= unsure[j])
      BY <3>1, <3>2 DEF ChannelInv, Outbound
    <3> QED
      BY <2>0, <2>1, <3>1, <3>3
  <2>4. Outbound' /\ queue' \in Seq(Items)
    BY <1>1, <1>2, <1>3, <1>6, <2>1, <2>2, <2>3, FilledKeeps
  <2>5. mishaps' \in Nat /\ mishaps <= mishaps'
    BY <1>6, OutTypes
  <2>6. OutboxOnly
    BY <1>1, <1>6, <2>1, <2>4, <2>5, OutTypes DEF OutboxOnly
  <2> QED
    BY <2>4, <2>6, OutboxOnlyKeeps
<1> QED
  BY <1>5, <1>6 DEF OpenOutbox, Fine, Mishap

LEMMA HeadOnce ==
    ASSUME ChannelInv, queue # <<>>
    PROVE  /\ Head(queue) \in ToSet(queue) /\ Head(queue) \in Items /\ Tail(queue) \in Seq(Items)
           /\ ToSet(Tail(queue)) \subseteq ToSet(queue)
           /\ Head(queue) \in Results => Head(queue) \notin ToSet(Tail(queue))
           /\ \A i, k \in 1..Len(Tail(queue)) :
                 Tail(queue)[i] = Tail(queue)[k] /\ Tail(queue)[i] \in Results => i = k
<1>1. /\ queue \in Seq(Items) /\ Len(queue) \in Nat /\ Len(queue) >= 1 /\ Head(queue) = queue[1]
      /\ \A i, k \in 1..Len(queue) : queue[i] = queue[k] /\ queue[i] \in Results => i = k
  BY OutTypes DEF ChannelInv, Outbound
<1>2. /\ Tail(queue) \in Seq(Items) /\ Len(Tail(queue)) = Len(queue) - 1
      /\ \A i \in 1..Len(Tail(queue)) : i + 1 \in 1..Len(queue) /\ Tail(queue)[i] = queue[i + 1]
  BY <1>1
<1>3. Head(queue) \in ToSet(queue) /\ Head(queue) \in Items
  BY <1>1 DEF ToSet
<1>4. ToSet(Tail(queue)) \subseteq ToSet(queue)
  BY <1>1, <1>2 DEF ToSet
<1>5. Head(queue) \in Results => Head(queue) \notin ToSet(Tail(queue))
  BY <1>1, <1>2 DEF ToSet
<1>6. \A i, k \in 1..Len(Tail(queue)) :
          Tail(queue)[i] = Tail(queue)[k] /\ Tail(queue)[i] \in Results => i = k
  BY <1>1, <1>2
<1> QED
  BY <1>2, <1>3, <1>4, <1>5, <1>6

LEMMA SendKeeps ==
    ASSUME ChannelInv, Send
    PROVE  ChannelInv'
<1>1. /\ phase = "outbox" /\ acking = <<>> /\ queue # <<>>
      /\ UNCHANGED <<inbound, world, since, marked, announced>>
  BY DEF Send
<1>2. ToSet(acking) = {} /\ ToSet(<<>>) = {}
  BY <1>1 DEF ToSet
<1>3. PICK x : x = Head(queue)
  OBVIOUS
<1>4. ASSUME NEW j \in Results
      PROVE  /\ told[j] \in Nat /\ unsure[j] \in Nat /\ told[j] <= 1 + unsure[j]
             /\ j \notin marked => told[j] <= unsure[j]
             /\ j \in ToSet(queue) => told[j] <= unsure[j]
  BY <1>2, OutTypes DEF ChannelInv, Outbound
<1>5. x \in ToSet(queue) /\ x \in Items
  BY <1>1, <1>3, HeadOnce
<1>6. OnceEach(finished')
  BY <1>1 DEF ChannelInv, Outbound, OnceEach, world
<1>7. CASE /\ told' = Counted(told, {x}) /\ acking' = <<x>> /\ queue' = Tail(queue)
           /\ UNCHANGED <<unsure, phase, mishaps>>
  <2>1. /\ told' \in [Results -> Nat]
        /\ \A j \in Results : told'[j] = told[j] + IF j \in {x} THEN 1 ELSE 0
    BY <1>7, OutTypes, CountedIs
  <2>2. ToSet(acking') = {x} /\ acking' \in Seq(Items)
    BY <1>5, <1>7 DEF ToSet
  <2>3. ASSUME NEW j \in Results
        PROVE  /\ told'[j] <= 1 + unsure'[j]
               /\ j \notin marked' \cup ToSet(acking') => told'[j] <= unsure'[j]
               /\ j \in ToSet(queue') => told'[j] <= unsure'[j] /\ j \notin ToSet(acking')
    <3>1. j \in ToSet(queue') => j \in ToSet(queue) /\ j # x
      BY <1>1, <1>3, <1>7, HeadOnce
    <3>2. told'[j] = told[j] + IF j = x THEN 1 ELSE 0
      BY <2>1
    <3> QED
      BY <1>1, <1>4, <1>5, <1>7, <2>2, <3>1, <3>2
  <2>4. Outbound'
    BY <1>1, <1>6, <1>7, <2>3, HeadOnce DEF Outbound
  <2>5. queue' \in Seq(Items) /\ mishaps' \in Nat /\ mishaps <= mishaps'
        /\ UNCHANGED <<inbound, world, since, marked, announced, unsure, phase>>
    BY <1>1, <1>7, HeadOnce, OutTypes
  <2>6. OutboxOnly
    BY <2>1, <2>2, <2>5, OutTypes DEF OutboxOnly
  <2> QED
    BY <2>4, <2>6, OutboxOnlyKeeps
<1>8. CASE /\ told' = told \/ told' = Counted(told, {x})
           /\ unsure' = Counted(unsure, {x}) /\ queue' = <<>> /\ phase' = "updates"
           /\ UNCHANGED acking /\ mishaps' = mishaps + 1
  <2>1. /\ unsure' \in [Results -> Nat]
        /\ \A j \in Results : unsure'[j] = unsure[j] + IF j \in {x} THEN 1 ELSE 0
    <3>1. unsure' = Counted(unsure, {x}) /\ unsure \in [Results -> Nat]
      BY <1>8, OutTypes
    <3> QED
      BY <3>1, CountedIs
  <2>2. /\ told' \in [Results -> Nat]
        /\ \A j \in Results : told'[j] = told[j] \/ (j = x /\ told'[j] = told[j] + 1)
    <3>1. CASE told' = told
      BY <3>1, OutTypes
    <3>2. CASE told' = Counted(told, {x})
      <4>1. /\ told' \in [Results -> Nat]
            /\ \A j \in Results : told'[j] = told[j] + IF j \in {x} THEN 1 ELSE 0
        BY <3>2, OutTypes, CountedIs
      <4> QED
        BY <4>1, OutTypes
    <3> QED
      BY <1>8, <3>1, <3>2
  <2>3. ASSUME NEW j \in Results
        PROVE  /\ told'[j] <= 1 + unsure'[j]
               /\ j \notin marked' \cup ToSet(acking') => told'[j] <= unsure'[j]
    <3>1. unsure'[j] = unsure[j] + IF j = x THEN 1 ELSE 0
      BY <2>1
    <3> QED
      BY <1>1, <1>2, <1>4, <1>5, <1>8, <2>2, <3>1
  <2>4. ToSet(queue') = {} /\ Len(queue') = 0
    BY <1>8 DEF ToSet
  <2>5. Outbound'
    <3>1. phase' # "outbox" => queue' = <<>> /\ acking' = <<>>
      BY <1>1, <1>8
    <3> QED
      BY <1>6, <2>3, <2>4, <3>1 DEF Outbound
  <2>6. mishaps' \in Nat /\ mishaps <= mishaps'
    BY <1>8, OutTypes
  <2>7. OutboxOnly
    BY <1>1, <1>8, <2>1, <2>2, <2>6, OutTypes DEF OutboxOnly
  <2> QED
    BY <2>5, <2>7, OutboxOnlyKeeps
<1> QED
  BY <1>3, <1>7, <1>8 DEF Send, Fine, Mishap

LEMMA AckKeeps ==
    ASSUME ChannelInv, Ack
    PROVE  ChannelInv'
<1>1. /\ phase = "outbox" /\ acking' = <<>> /\ announced' = announced \cup ToSet(acking)
      /\ phase' = IF queue = <<>> THEN "updates" ELSE "outbox"
      /\ UNCHANGED <<inbound, world, since, queue, told>>
  BY DEF Ack
<1>2. PICK sent : sent = ToSet(acking)
  OBVIOUS
<1>3. sent \subseteq Items /\ ToSet(acking') = {}
  BY <1>1, <1>2, OutTypes DEF ToSet
<1>4. ASSUME NEW j \in Results
      PROVE  /\ told[j] \in Nat /\ unsure[j] \in Nat /\ told[j] <= 1 + unsure[j]
             /\ j \notin marked \cup sent => told[j] <= unsure[j]
             /\ j \in ToSet(queue) => told[j] <= unsure[j]
  BY <1>2, OutTypes DEF ChannelInv, Outbound
<1>5. /\ OnceEach(finished')
      /\ \A i, k \in 1..Len(queue') : queue'[i] = queue'[k] /\ queue'[i] \in Results => i = k
      /\ phase' # "outbox" => queue' = <<>> /\ acking' = <<>>
      /\ ToSet(queue') = ToSet(queue)
  BY <1>1 DEF ChannelInv, Outbound, OnceEach, world
<1>6. CASE marked' = marked \cup (sent \cap Results) /\ UNCHANGED <<unsure, mishaps>>
  <2>1. ASSUME NEW j \in Results
        PROVE  /\ told'[j] <= 1 + unsure'[j]
               /\ j \notin marked' \cup ToSet(acking') => told'[j] <= unsure'[j]
               /\ j \in ToSet(queue') => told'[j] <= unsure'[j] /\ j \notin ToSet(acking')
    BY <1>1, <1>3, <1>4, <1>5, <1>6
  <2>2. Outbound'
    BY <1>5, <2>1 DEF Outbound
  <2>3. OutboxOnly
    BY <1>1, <1>2, <1>3, <1>6, OutTypes DEF OutboxOnly
  <2> QED
    BY <2>2, <2>3, OutboxOnlyKeeps
<1>7. CASE sent \subseteq Results /\ unsure' = Counted(unsure, sent) /\ UNCHANGED marked
           /\ mishaps' = mishaps + 1
  <2>1. /\ unsure' \in [Results -> Nat]
        /\ \A j \in Results : unsure'[j] = unsure[j] + IF j \in sent THEN 1 ELSE 0
    BY <1>7, OutTypes, CountedIs
  <2>2. ASSUME NEW j \in Results
        PROVE  /\ told'[j] <= 1 + unsure'[j]
               /\ j \notin marked' \cup ToSet(acking') => told'[j] <= unsure'[j]
               /\ j \in ToSet(queue') => told'[j] <= unsure'[j] /\ j \notin ToSet(acking')
    BY <1>1, <1>3, <1>4, <1>5, <1>7, <2>1
  <2>3. Outbound'
    BY <1>5, <2>2 DEF Outbound
  <2>4. mishaps' \in Nat /\ mishaps <= mishaps'
    BY <1>7, OutTypes
  <2>5. OutboxOnly
    BY <1>1, <1>2, <1>3, <1>7, <2>1, <2>4, OutTypes DEF OutboxOnly
  <2> QED
    BY <2>3, <2>5, OutboxOnlyKeeps
<1> QED
  BY <1>2, <1>6, <1>7 DEF Ack, Fine, Mishap

-----------------------------------------------------------------------------
(* The process dies, and comes back.                                         *)
LEMMA ProcessDiesKeeps ==
    ASSUME ChannelInv, ProcessDies
    PROVE  ChannelInv'
<1>1. /\ phase' = "down" /\ offset' = 0 /\ batch' = <<>> /\ seen' = {} /\ recent' = 0
      /\ announced' = {} /\ queue' = <<>> /\ acking' = <<>>
      /\ unsure' = Counted(unsure, ToSet(acking)) /\ mishaps' = mishaps + 1
      /\ UNCHANGED <<written, confirmed, asked, refused, world, since, marked, told>>
  BY DEF ProcessDies, Mishap
<1>2. PICK sent : sent = ToSet(acking)
  OBVIOUS
<1>3. /\ unsure' \in [Results -> Nat]
      /\ \A j \in Results : unsure'[j] = unsure[j] + IF j \in sent THEN 1 ELSE 0
  BY <1>1, <1>2, OutTypes, CountedIs
<1>4. ChannelTypes'
  <2>1. written \in Nat /\ mishaps \in Nat
    BY DEF ChannelInv, ChannelTypes, BridgeTypeOK
  <2>2. batch' \in Seq(ChatJobs) /\ queue' \in Seq(Items) /\ acking' \in Seq(Items)
        /\ Len(batch') = 0
    BY <1>1
  <2>3. offset' \in 0..(Messages + 1) /\ recent' \in 0..Rate /\ mishaps' \in Nat
        /\ offset' <= written + 1
    BY <1>1, <2>1
  <2>4. BridgeTypeOK'
    BY <1>1, <1>3, <2>2, <2>3 DEF ChannelInv, ChannelTypes, BridgeTypeOK, world
  <2> QED
    BY <1>1, <2>2, <2>3, <2>4 DEF ChannelInv, ChannelTypes
<1>5. Inbound'
  <2>1. ASSUME NEW m \in ChatJobs
        PROVE  /\ asked'[m] <= mishaps' + IF m \in seen' THEN 1 ELSE 0
               /\ m < confirmed' \/ m < offset' \/ m \in seen' => Heard(m)'
    <3>1. asked[m] \in Nat /\ mishaps \in Nat /\ m \in Nat /\ ~(m < 0)
      BY ChatJobsAre DEF ChannelInv, ChannelTypes, BridgeTypeOK, ChatJobs
    <3>2. asked[m] <= mishaps + IF m \in seen THEN 1 ELSE 0
      BY DEF ChannelInv, Inbound
    <3>3. m < confirmed => Heard(m)
      BY DEF ChannelInv, Inbound
    <3> QED
      BY <1>1, <3>1, <3>2, <3>3 DEF Heard
  <2>2. Len(batch') = 0
    BY <1>1
  <2> QED
    BY <1>1, <2>1, <2>2 DEF Inbound
<1>6. Outbound'
  <2>1. ToSet(queue') = {} /\ ToSet(acking') = {} /\ Len(queue') = 0
    BY <1>1 DEF ToSet
  <2>2. ASSUME NEW j \in Results
        PROVE  /\ told'[j] <= 1 + unsure'[j]
               /\ j \notin marked' => told'[j] <= unsure'[j]
    <3>1. told[j] \in Nat /\ unsure[j] \in Nat
      BY OutTypes
    <3>2. told[j] <= 1 + unsure[j] /\ (j \notin marked \cup sent => told[j] <= unsure[j])
      BY <1>2 DEF ChannelInv, Outbound
    <3> QED
      BY <1>1, <1>3, <3>1, <3>2
  <2>3. OnceEach(finished')
    BY <1>1 DEF ChannelInv, Outbound, OnceEach, world
  <2> QED
    BY <1>1, <2>1, <2>2, <2>3 DEF Outbound
<1> QED
  BY <1>4, <1>5, <1>6 DEF ChannelInv

LEMMA RestartKeeps ==
    ASSUME ChannelInv, Restart
    PROVE  ChannelInv'
<1>1. /\ phase = "down" /\ phase' = "updates" /\ since' = old
      /\ UNCHANGED <<inbound, world, marked, announced, queue, acking, told, unsure, mishaps>>
  BY DEF Restart
<1>2. ChannelTypes'
  BY <1>1 DEF ChannelInv, ChannelTypes, BridgeTypeOK, inbound, world
<1>3. Inbound'
  BY <1>1, InboundStays DEF inbound, ChannelInv, ChannelTypes
<1>4. Outbound'
  BY <1>1 DEF ChannelInv, Outbound, OnceEach, world
<1> QED
  BY <1>2, <1>3, <1>4 DEF ChannelInv

-----------------------------------------------------------------------------
LEMMA ChannelStepKeeps ==
    ASSUME ChannelInv, [BridgeNext]_bridge
    PROVE  ChannelInv'
<1>1. ASSUME NEW j \in Results, JobFinishes(j)
      PROVE  ChannelInv'
  BY <1>1, JobFinishesKeeps
<1>2. ASSUME NEW a \in Asks, SessionAsks(a) \/ OwnerDecides(a)
      PROVE  ChannelInv'
  BY <1>2, SessionAsksKeeps, OwnerDecidesKeeps
<1>3. CASE Polling
  BY <1>3, GetUpdatesKeeps, HandleKeeps, OpenOutboxKeeps, SendKeeps, AckKeeps, RestartKeeps DEF Polling
<1>4. CASE UNCHANGED bridge
  <2>1. UNCHANGED <<inbound, world, outbound, phase, mishaps>>
    BY <1>4 DEF bridge
  <2>2. ChannelTypes'
    BY <2>1 DEF ChannelInv, ChannelTypes, BridgeTypeOK, inbound, world, outbound
  <2>3. Inbound' /\ Outbound'
    BY <2>1, InboundStays, OutboundStays DEF inbound, world, outbound, ChannelInv, ChannelTypes
  <2> QED
    BY <2>2, <2>3 DEF ChannelInv
<1> QED
  BY <1>1, <1>2, <1>3, <1>4, OwnerWritesKeeps, DayPassesKeeps, MinutePassesKeeps, ProcessDiesKeeps
    DEF BridgeNext

THEOREM ChannelInductive == BridgeSpec => []ChannelInv
<1> QED
  BY FirstPoll, ChannelStepKeeps, PTL DEF BridgeSpec

(* What the owner writes is heard before Telegram forgets it, and what the      *)
(* Office answers is told again only after a mishap that lost the mark.        *)
THEOREM ChannelKeepsItsWord == BridgeSpec => []HeardAndToldOnce
<1>1. ChannelInv => HeardAndToldOnce
  <2> SUFFICES ASSUME ChannelInv
               PROVE  HeardAndToldOnce
    OBVIOUS
  <2>1. HeardBeforeForgotten
    BY DEF ChannelInv, Inbound, HeardBeforeForgotten, Heard
  <2>2. \A m \in ChatJobs : asked[m] <= 1 + mishaps
    BY DEF ChannelInv, ChannelTypes, BridgeTypeOK, Inbound
  <2>3. \A j \in Results : told[j] <= 1 + unsure[j]
    BY DEF ChannelInv, Outbound
  <2> QED
    BY <2>1, <2>2, <2>3 DEF HeardAndToldOnce, RepeatsOnlyAfterMishaps
<1> QED
  BY <1>1, ChannelInductive, PTL

(* Types.                                                                   *)
THEOREM ChannelTypesCorrect == BridgeSpec => []BridgeTypeOK
<1>1. ChannelInv => BridgeTypeOK
  BY DEF ChannelInv, ChannelTypes
<1> QED
  BY <1>1, ChannelInductive, PTL

=============================================================================

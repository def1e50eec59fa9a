------------------------------ MODULE HubProofs ------------------------------
(***************************************************************************)
(* What a tab of the Hub shows of an objective, for any screens opened one   *)
(* after the other and any number of changes and mishaps; what the ops watch *)
(* tells the owner, for any number of paid calls, rows and instants, and     *)
(* however watches overlap, fail and are killed; and what a tab holds of the *)
(* deliverables of a project, for any objectives, limits and answers.        *)
(***************************************************************************)
EXTENDS LiveScreen, OpsWatch, DeliverablesPages, SequenceTheorems, FiniteSetTheorems,
        WellFoundedInduction, TLAPS

(* Whoever listens is in the leave list of the open screen; what has not been    *)
(* opened yet, or not loaded yet, does not listen.                             *)
HooksAreLeft ==
    /\ \A n \in Visits : hooks[n] \in {None, visit, Gone} /\ (n > visit => hooks[n] = None)
    /\ hooks[visit] # Gone

NothingAhead == \A n \in Visits : n > visit => refresher[n].load = "none"

(* Without listeners nothing asks for a second load.                            *)
OnlyListenersAsk ==
    \A n \in Visits : hooks[n] = None =>
        /\ ~timer[n] /\ ~refresher[n].again /\ ~refresher[n].stale
        /\ \A i \in DOMAIN acting : acting[i] # n

(* A page that does not listen is loading for the first time, or that failed.     *)
LoadsFirst ==
    /\ hooks[visit] = None => refresher[visit].load # "none" \/ screen.error
    /\ screen.of = visit /\ screen.at # 0 => hooks[visit] = visit

(* What the answer under way does not show is asked for after it.                *)
LoadIsNew ==
    LET r == refresher[visit] IN
    r.load = "read" => r.at >= heard \/ timer[visit] \/ r.again \/ (hidden /\ r.stale)

(* The open screen stops only at the end it shows, and then loads nothing; the    *)
(* error of another page may be painted over that.                             *)
StopsAtTheEnd ==
    refresher[visit].stopped =>
        /\ refresher[visit].load = "none"
        /\ screen.of # visit \/ (screen.at \in ends /\ ~screen.error)

LiveInv ==
    /\ LiveTypeOK
    /\ heard <= version
    /\ HooksAreLeft /\ NothingAhead /\ OnlyListenersAsk /\ LoadsFirst
    /\ LoadIsNew /\ StopsAtTheEnd
    /\ ScreenIsOwn
    /\ screen.of = visit => HeardIsShown

Refresher == [load : {"none", "asked", "read"}, at : 0..MaxChanges, again : BOOLEAN,
              stale : BOOLEAN, stopped : BOOLEAN, failed : BOOLEAN]

-----------------------------------------------------------------------------
(* Screens and listeners.                                                  *)
LEMMA ScreensAre ==
    /\ Len(Screens) \in Nat /\ 1 \in Visits /\ Visits \subseteq Nat
    /\ \A n \in Visits : Screens[n] \in {"home", "job"}
    /\ None \in None..Gone /\ Gone \in None..Gone /\ Visits \subseteq None..Gone
    /\ None \notin Visits /\ Gone \notin Visits /\ None # Gone
<1>1. Len(Screens) \in Nat /\ Len(Screens) # 0
  BY LiveAssumption
<1> QED
  BY <1>1, LiveAssumption DEF Visits, None, Gone

LEMMA Typed ==
    ASSUME LiveInv
    PROVE  /\ refresher \in [Visits -> Refresher] /\ visit \in Visits
           /\ hooks \in [Visits -> None..Gone] /\ timer \in [Visits -> BOOLEAN]
           /\ version \in 1..MaxChanges /\ heard \in 0..MaxChanges /\ MaxChanges \in Nat
           /\ screen \in [of : Visits, at : 0..MaxChanges, error : BOOLEAN]
           /\ hidden \in BOOLEAN /\ acting \in Seq(Visits)
BY LiveAssumption DEF LiveInv, LiveTypeOK, Refresher

-----------------------------------------------------------------------------
(* The refresher.                                                          *)
LEMMA FreshIs == Fresh \in Refresher /\ Starts(Fresh) \in Refresher
                 /\ Starts(Fresh).load = "asked" /\ ~Starts(Fresh).again
                 /\ ~Starts(Fresh).stale /\ ~Starts(Fresh).stopped
<1>1. 0 \in 0..MaxChanges
  BY LiveAssumption
<1>2. Fresh \in Refresher /\ ~Fresh.again /\ ~Fresh.stale /\ ~Fresh.stopped
  BY <1>1 DEF Fresh, Refresher
<1> QED
  BY <1>2 DEF Starts, Refresher

LEMMA TriggerIs ==
    ASSUME NEW r \in Refresher, hidden' \in BOOLEAN
    PROVE  /\ Trigger(r) \in Refresher
           /\ Trigger(r).at = r.at /\ Trigger(r).stopped = r.stopped
           /\ Trigger(r).load \in {r.load, "asked"}
           /\ r.again => Trigger(r).again
           /\ r.stopped => Trigger(r) = r
           /\ ~r.stopped /\ hidden' => Trigger(r) = [r EXCEPT !.stale = TRUE]
           /\ ~r.stopped /\ ~hidden' /\ r.load # "none" => Trigger(r) = [r EXCEPT !.again = TRUE]
           /\ ~r.stopped /\ ~hidden' /\ r.load = "none" => Trigger(r) = Starts(r)
<1>1. CASE r.stopped
  BY <1>1 DEF Trigger
<1>2. CASE ~r.stopped /\ hidden'
  BY <1>2 DEF Trigger, Refresher
<1>3. CASE ~r.stopped /\ ~hidden' /\ r.load # "none"
  BY <1>3 DEF Trigger, Refresher
<1>4. CASE ~r.stopped /\ ~hidden' /\ r.load = "none"
  BY <1>4 DEF Trigger, Starts, Refresher
<1> QED
  BY <1>1, <1>2, <1>3, <1>4

LEMMA OverIs ==
    ASSUME NEW r \in Refresher, hidden' \in BOOLEAN
    PROVE  /\ Over(r) \in Refresher
           /\ Over(r).stopped = r.stopped /\ Over(r).load \in {"none", "asked"}
           /\ r.stopped => Over(r).load = "none"
           /\ ~r.again => Over(r).load = "none" /\ ~Over(r).again /\ Over(r).stale = r.stale
                          /\ Over(r).failed = r.failed
           /\ r.again /\ ~r.stopped => Over(r).load = "asked" \/ (hidden' /\ Over(r).stale)
<1> DEFINE free == [r EXCEPT !.load = "none", !.at = 0, !.again = FALSE]
<1>1. free \in Refresher /\ free.load = "none" /\ ~free.again /\ free.stale = r.stale
      /\ free.stopped = r.stopped /\ free.failed = r.failed
  <2>1. 0 \in 0..MaxChanges
    BY LiveAssumption
  <2> QED
    BY <2>1 DEF Refresher
<1>2. Over(r) = IF r.again THEN Trigger(free) ELSE free
  BY DEF Over
<1> HIDE DEF free
<1>3. CASE ~r.again
  BY <1>1, <1>2, <1>3
<1>4. CASE r.again /\ r.stopped
  <2>1. Trigger(free) = free
    BY <1>1, <1>4, TriggerIs
  <2> QED
    BY <1>1, <1>2, <1>4, <2>1
<1>5. CASE r.again /\ ~r.stopped
  <2>1. Over(r) = Trigger(free)
    BY <1>2, <1>5
  <2>2. hidden' => Trigger(free) = [free EXCEPT !.stale = TRUE]
    BY <1>1, <1>5, TriggerIs
  <2>3. ~hidden' => Trigger(free) = Starts(free)
    BY <1>1, <1>5, TriggerIs
  <2>4. Trigger(free) \in Refresher /\ Trigger(free).stopped = r.stopped
        /\ Trigger(free).load \in {"none", "asked"}
    BY <1>1, TriggerIs
  <2>5. hidden' => Trigger(free).stale
    BY <1>1, <2>2 DEF Refresher
  <2>6. ~hidden' => Trigger(free).load = "asked"
    BY <1>1, <2>3 DEF Refresher, Starts
  <2> QED
    BY <1>5, <2>1, <2>4, <2>5, <2>6
<1> QED
  BY <1>3, <1>4, <1>5

(* Whoever is not stopped will load, now, after this load, or once visible.      *)
LEMMA TriggerIsDue ==
    ASSUME NEW r \in Refresher, hidden' \in BOOLEAN
    PROVE  ~r.stopped => \/ Trigger(r).load = "asked" \/ Trigger(r).again
                         \/ (hidden' /\ Trigger(r).stale)
<1>1. ~r.stopped /\ hidden' => Trigger(r).stale
  BY TriggerIs DEF Refresher
<1>2. ~r.stopped /\ ~hidden' /\ r.load # "none" => Trigger(r).again
  BY TriggerIs DEF Refresher
<1>3. ~r.stopped /\ ~hidden' /\ r.load = "none" => Trigger(r).load = "asked"
  BY TriggerIs DEF Refresher, Starts
<1> QED
  BY <1>1, <1>2, <1>3

-----------------------------------------------------------------------------
(* Steps.                                                                  *)
LEMMA InitHolds ==
    ASSUME LiveInit
    PROVE  LiveInv
<1>1. PICK s \in Refresher : s = Starts(Fresh) /\ s.load = "asked" /\ ~s.again /\ ~s.stale /\ ~s.stopped
  BY FreshIs
<1>2. PICK f \in Refresher : f = Fresh /\ ~f.again /\ ~f.stale
  BY FreshIs DEF Fresh
<1>3. refresher = [m \in Visits |-> IF m = 1 THEN s ELSE f]
  BY <1>1, <1>2 DEF LiveInit
<1>4. visit = 1 /\ visit \in Visits /\ heard = 0 /\ version = 1 /\ acting = <<>>
      /\ hooks = [m \in Visits |-> IF m = 1 /\ Screens[1] = "home" THEN 1 ELSE None]
      /\ timer = [m \in Visits |-> FALSE]
      /\ screen = [of |-> 1, at |-> 0, error |-> FALSE]
  BY ScreensAre DEF LiveInit, Blank
<1>5. LiveTypeOK
  <2>1. 1 \in 1..MaxChanges /\ 0 \in 0..MaxChanges
    BY LiveAssumption
  <2>2. refresher \in [Visits -> Refresher]
    BY <1>3
  <2>3. hooks \in [Visits -> None..Gone]
    BY <1>4, ScreensAre
  <2>4. screen \in [of : Visits, at : 0..MaxChanges, error : BOOLEAN]
    BY <1>4, <2>1
  <2>5. ends \subseteq 1..MaxChanges /\ mark \in 0..MaxChanges /\ connected \in BOOLEAN
        /\ hidden \in BOOLEAN
    BY <2>1 DEF LiveInit
  <2> QED
    BY <1>4, <2>1, <2>2, <2>3, <2>4, <2>5 DEF LiveTypeOK, Refresher
<1>6. HooksAreLeft /\ NothingAhead
  <2>1. f.load = "none"
    BY <1>2 DEF Fresh
  <2> QED
    BY <1>3, <1>4, <2>1, ScreensAre DEF HooksAreLeft, NothingAhead
<1>7. OnlyListenersAsk
  BY <1>1, <1>2, <1>3, <1>4 DEF OnlyListenersAsk
<1>8. LoadsFirst /\ LoadIsNew /\ StopsAtTheEnd
  BY <1>1, <1>3, <1>4 DEF LoadsFirst, LoadIsNew, StopsAtTheEnd
<1>9. ScreenIsOwn /\ HeardIsShown
  BY <1>4 DEF ScreenIsOwn, HeardIsShown
<1> QED
  BY <1>4, <1>5, <1>6, <1>7, <1>8, <1>9 DEF LiveInv

(* A trigger of one refresher, by its timer, by the poll or after an action.      *)
LEMMA TriggerKeeps ==
    ASSUME LiveInv, NEW n \in Visits, hooks[n] # None, NEW q \in Refresher,
           q.load = refresher[n].load, q.at = refresher[n].at,
           q.stopped => refresher[n].stopped,
           refresher' = [refresher EXCEPT ![n] = Trigger(q)],
           timer' \in [Visits -> BOOLEAN], \A m \in Visits \ {n} : timer'[m] = timer[m],
           acting' \in Seq(Visits),
           \A j \in DOMAIN acting' : \E i \in DOMAIN acting : acting'[j] = acting[i],
           UNCHANGED <<version, ends, mark, connected, hidden, visit, screen, hooks, heard>>
    PROVE  LiveInv'
<1>0. /\ refresher \in [Visits -> Refresher] /\ visit \in Visits /\ hidden' \in BOOLEAN
      /\ timer \in [Visits -> BOOLEAN]
  BY Typed
<1>1. PICK t \in Refresher : t = Trigger(q)
  BY <1>0, TriggerIs
<1>2. /\ t.at = q.at /\ t.stopped = q.stopped /\ t.load \in {q.load, "asked"}
      /\ q.stopped => t = q
      /\ ~q.stopped => t.load = "asked" \/ t.again \/ (hidden' /\ t.stale)
  BY <1>0, <1>1, TriggerIs, TriggerIsDue
<1>3. refresher' \in [Visits -> Refresher] /\ refresher'[n] = t
      /\ \A m \in Visits \ {n} : refresher'[m] = refresher[m]
  BY <1>0, <1>1
<1>4. LiveTypeOK'
  BY <1>3 DEF LiveInv, LiveTypeOK, Refresher
<1>5. HooksAreLeft' /\ NothingAhead' /\ ScreenIsOwn' /\ (heard <= version)'
  <2>1. \A m \in Visits : m > visit => m # n
    BY DEF LiveInv, HooksAreLeft
  <2>2. NothingAhead'
    BY <1>3, <2>1 DEF LiveInv, NothingAhead
  <2> QED
    BY <2>2 DEF LiveInv, HooksAreLeft, ScreenIsOwn
<1>6. OnlyListenersAsk'
  BY <1>3 DEF LiveInv, OnlyListenersAsk
<1>7. CASE n # visit
  <2>1. refresher'[visit] = refresher[visit] /\ timer'[visit] = timer[visit]
    BY <1>0, <1>3, <1>7
  <2>2. LoadsFirst' /\ LoadIsNew' /\ StopsAtTheEnd'
    BY <2>1 DEF LiveInv, LoadsFirst, LoadIsNew, StopsAtTheEnd
  <2>3. (screen.of = visit => HeardIsShown)'
    BY <2>1 DEF LiveInv, HeardIsShown
  <2> QED
    BY <1>4, <1>5, <1>6, <2>2, <2>3 DEF LiveInv
<1>8. CASE n = visit
  <2>1. refresher'[visit] = t
    BY <1>3, <1>8
  <2>2. LoadsFirst'
    BY <1>8 DEF LiveInv, LoadsFirst
  <2>3. t.stopped => t.load = "none" /\ (screen.of # visit \/ (screen.at \in ends /\ ~screen.error))
    BY <1>2, <1>8 DEF LiveInv, StopsAtTheEnd
  <2>4. LoadIsNew'
    BY <1>2, <2>1, <2>3 DEF LoadIsNew
  <2>5. StopsAtTheEnd'
    BY <2>1, <2>3 DEF StopsAtTheEnd
  <2>6. (screen.of = visit => HeardIsShown)'
    BY <1>2, <2>1, <2>3 DEF HeardIsShown
  <2> QED
    BY <1>4, <1>5, <1>6, <2>2, <2>4, <2>5, <2>6 DEF LiveInv
<1> QED
  BY <1>7, <1>8

LEMMA DebouncedKeeps ==
    ASSUME LiveInv, NEW n \in Visits, Debounced(n)
    PROVE  LiveInv'
<1>1. /\ hooks[n] # None /\ refresher[n] \in Refresher /\ timer' = [timer EXCEPT ![n] = FALSE]
      /\ timer \in [Visits -> BOOLEAN] /\ acting \in Seq(Visits)
  BY Typed DEF LiveInv, OnlyListenersAsk, Debounced
<1>2. timer' \in [Visits -> BOOLEAN] /\ \A m \in Visits \ {n} : timer'[m] = timer[m]
  BY <1>1
<1>3. refresher' = [refresher EXCEPT ![n] = Trigger(refresher[n])]
      /\ UNCHANGED <<version, ends, mark, connected, hidden, visit, screen, hooks, heard, acting>>
  BY DEF Debounced
<1> QED
  BY <1>1, <1>2, <1>3, TriggerKeeps

LEMMA PollKeeps ==
    ASSUME LiveInv, NEW n \in Visits, Poll(n)
    PROVE  LiveInv'
<1>1. /\ hooks[n] # None /\ refresher[n] \in Refresher
      /\ timer \in [Visits -> BOOLEAN] /\ acting \in Seq(Visits)
  BY Typed, ScreensAre DEF Poll, Listens
<1>2. refresher' = [refresher EXCEPT ![n] = Trigger(refresher[n])]
      /\ UNCHANGED <<version, ends, mark, connected, hidden, visit, screen, hooks, heard, timer, acting>>
  BY DEF Poll
<1> QED
  BY <1>1, <1>2, TriggerKeeps

(* Part of a sequence, and a sequence without its i-th element.                 *)
LEMMA PartIs ==
    ASSUME NEW s \in Seq(Visits), NEW m \in Nat \ {0}, NEW n \in Nat, n <= Len(s)
    PROVE  \E a \in Seq(Visits) : /\ a = SubSeq(s, m, n)
                                 /\ \A j \in 1..Len(a) : \E k \in DOMAIN s : a[j] = s[k]
<1>1. \A i \in m..n : s[i] \in Visits
  OBVIOUS
<1>2. /\ SubSeq(s, m, n) \in Seq(Visits)
      /\ Len(SubSeq(s, m, n)) = IF m <= n THEN n - m + 1 ELSE 0
      /\ \A i \in 1..n - m + 1 : SubSeq(s, m, n)[i] = s[m + i - 1]
  BY <1>1, SubSeqProperties, m \in Int, n \in Int
<1>3. ASSUME NEW i \in 1..Len(SubSeq(s, m, n))
      PROVE  m + i - 1 \in DOMAIN s /\ SubSeq(s, m, n)[i] = s[m + i - 1]
  BY <1>2, <1>3
<1> QED
  BY <1>2, <1>3

LEMMA OneLess ==
    ASSUME NEW s \in Seq(Visits), NEW i \in DOMAIN s,
           NEW r, r = Without(s, i)
    PROVE  r \in Seq(Visits) /\ \A j \in DOMAIN r : \E k \in DOMAIN s : r[j] = s[k]
<1>1. i \in 1..Len(s) /\ Len(s) \in Nat /\ i - 1 \in Nat /\ i + 1 \in Nat \ {0} /\ i - 1 <= Len(s)
      /\ 1 \in Nat \ {0} /\ Len(s) <= Len(s)
  OBVIOUS
<1>2. PICK a \in Seq(Visits) : /\ a = SubSeq(s, 1, i - 1)
                               /\ \A j \in 1..Len(a) : \E k \in DOMAIN s : a[j] = s[k]
  BY <1>1, PartIs, Zenon
<1>3. PICK b \in Seq(Visits) : /\ b = SubSeq(s, i + 1, Len(s))
                               /\ \A j \in 1..Len(b) : \E k \in DOMAIN s : b[j] = s[k]
  BY <1>1, PartIs, Zenon
<1>4. r = a \o b
  BY <1>2, <1>3 DEF Without
<1>5. r \in Seq(Visits) /\ Len(r) = Len(a) + Len(b)
      /\ \A j \in 1..Len(a) + Len(b) : r[j] = IF j <= Len(a) THEN a[j] ELSE b[j - Len(a)]
  BY <1>4, ConcatProperties
<1>6. PICK la \in Nat, lb \in Nat : la = Len(a) /\ lb = Len(b)
  OBVIOUS
<1>7. \A j \in DOMAIN r : j \in 1..la + lb /\ r[j] = IF j <= la THEN a[j] ELSE b[j - la]
  <2>1. DOMAIN r = 1..Len(r)
    BY <1>5
  <2>2. DOMAIN r = 1..la + lb
    BY <1>5, <1>6, <2>1
  <2>3. \A j \in 1..la + lb : r[j] = IF j <= la THEN a[j] ELSE b[j - la]
    BY <1>5, <1>6
  <2> QED
    BY <2>2, <2>3
<1>8. \A j \in 1..la + lb : j <= la => j \in 1..la
  OBVIOUS
<1>9. \A j \in 1..la + lb : ~(j <= la) => j - la \in 1..lb
  OBVIOUS
<1>10. ASSUME NEW j \in DOMAIN r
       PROVE  \E k \in DOMAIN s : r[j] = s[k]
  <2>1. CASE j <= la
    BY <1>2, <1>6, <1>7, <1>8, <2>1, Zenon
  <2>2. CASE ~(j <= la)
    BY <1>3, <1>6, <1>7, <1>9, <2>2, Zenon
  <2> QED
    BY <2>1, <2>2
<1> QED
  BY <1>5, <1>10

LEMMA ActionAnsweredKeeps ==
    ASSUME LiveInv, ActionAnswered
    PROVE  LiveInv'
<1>0. acting \in Seq(Visits) /\ refresher \in [Visits -> Refresher] /\ timer \in [Visits -> BOOLEAN]
  BY Typed
<1>1. PICK i \in DOMAIN acting :
        /\ acting' = Without(acting, i)
        /\ \/ refresher' = [refresher EXCEPT ![acting[i]] = Trigger([@ EXCEPT !.stopped = FALSE])]
           \/ UNCHANGED refresher
        /\ UNCHANGED <<version, ends, mark, connected, hidden, visit, screen, hooks, timer, heard>>
  BY DEF ActionAnswered
<1>2. PICK n \in Visits : n = acting[i]
  BY <1>0
<1>3. acting' \in Seq(Visits) /\ \A j \in DOMAIN acting' : \E k \in DOMAIN acting : acting'[j] = acting[k]
  <2>1. PICK s \in Seq(Visits) : s = acting
    BY <1>0
  <2>2. PICK r : r = acting'
    OBVIOUS
  <2>3. i \in DOMAIN s /\ r = Without(s, i)
    BY <1>1, <2>1, <2>2
  <2>4. r \in Seq(Visits) /\ \A j \in DOMAIN r : \E k \in DOMAIN s : r[j] = s[k]
    <3>1. r \in Seq(Visits)
      BY <2>3, OneLess, Zenon
    <3>2. \A j \in DOMAIN r : \E k \in DOMAIN s : r[j] = s[k]
      BY <2>3, OneLess, SMTT(30)
    <3> QED
      BY <3>1, <3>2
  <2> QED
    BY <2>1, <2>2, <2>4
<1>4. hooks[n] # None
  BY <1>2 DEF LiveInv, OnlyListenersAsk
<1>5. CASE refresher' = [refresher EXCEPT ![acting[i]] = Trigger([@ EXCEPT !.stopped = FALSE])]
  <2>1. PICK q \in Refresher : q = [refresher[n] EXCEPT !.stopped = FALSE] /\ q.load = refresher[n].load
                               /\ q.at = refresher[n].at /\ ~q.stopped
    <3>1. refresher[n] \in Refresher
      BY <1>0
    <3>2. PICK r \in Refresher : r = refresher[n]
      BY <3>1
    <3> DEFINE x == [r EXCEPT !.stopped = FALSE]
    <3>3. x \in Refresher /\ x.load = r.load /\ x.at = r.at /\ ~x.stopped
      BY DEF Refresher
    <3> QED
      BY <3>2, <3>3
  <2>2. refresher' = [refresher EXCEPT ![n] = Trigger(q)]
    BY <1>0, <1>2, <1>5, <2>1
  <2> QED
    BY <1>0, <1>1, <1>3, <1>4, <2>1, <2>2, TriggerKeeps
<1>6. CASE UNCHANGED refresher
  <2>1. LiveTypeOK' /\ OnlyListenersAsk'
    BY <1>1, <1>3, <1>6 DEF LiveInv, LiveTypeOK, OnlyListenersAsk
  <2> QED
    BY <1>1, <1>6, <2>1 DEF LiveInv, HooksAreLeft, NothingAhead, LoadsFirst, LoadIsNew, StopsAtTheEnd,
                           ScreenIsOwn, HeardIsShown
<1> QED
  BY <1>1, <1>5, <1>6

(* Steps that leave the tab alone: the stream, the objective and its owner.       *)
LEMMA RestKeeps ==
    ASSUME LiveInv, UNCHANGED <<tabVars, acting>>,
           version' \in 1..MaxChanges, version' >= version,
           ends' \subseteq 1..MaxChanges, ends \subseteq ends', mark' \in 0..MaxChanges,
           connected' \in BOOLEAN, hidden' \in BOOLEAN, hidden => hidden'
    PROVE  LiveInv'
<1> USE DEF tabVars
<1>1. LiveTypeOK'
  BY DEF LiveInv, LiveTypeOK
<1>2. (heard <= version)'
  BY Typed DEF LiveInv
<1>3. HooksAreLeft' /\ NothingAhead' /\ OnlyListenersAsk' /\ LoadsFirst' /\ ScreenIsOwn'
  BY DEF LiveInv, HooksAreLeft, NothingAhead, OnlyListenersAsk, LoadsFirst, ScreenIsOwn
<1>4. LoadIsNew' /\ StopsAtTheEnd'
  BY DEF LiveInv, LoadIsNew, StopsAtTheEnd
<1>5. (screen.of = visit => HeardIsShown)'
  BY DEF LiveInv, HeardIsShown
<1> QED
  BY <1>1, <1>2, <1>3, <1>4, <1>5 DEF LiveInv

LEMMA ObjectiveKeeps ==
    ASSUME LiveInv, Connects \/ Drops \/ Hides \/ ObjectiveMoves
    PROVE  LiveInv'
<1>1. /\ version \in Nat /\ version \in 1..MaxChanges /\ ends \subseteq 1..MaxChanges
      /\ mark \in 0..MaxChanges /\ connected \in BOOLEAN /\ hidden \in BOOLEAN
      /\ MaxChanges \in Nat /\ 0 \in 0..MaxChanges
  BY Typed DEF LiveInv, LiveTypeOK
<1>2. CASE Connects \/ Drops \/ Hides
  <2>1. /\ version' = version /\ ends' = ends /\ mark' \in {mark, 0}
        /\ connected' \in BOOLEAN /\ hidden' \in BOOLEAN /\ (hidden => hidden')
        /\ UNCHANGED <<tabVars, acting>>
    BY <1>1, <1>2 DEF Connects, Drops, Hides
  <2> QED
    BY <1>1, <2>1, RestKeeps
<1>3. CASE ObjectiveMoves
  <2>1. /\ version' = version + 1 /\ version < MaxChanges /\ ends' \in {ends, ends \cup {version + 1}}
        /\ UNCHANGED <<mark, connected, hidden, tabVars, acting>>
    BY <1>3 DEF ObjectiveMoves, Changes
  <2>2. version' \in 1..MaxChanges /\ version' >= version
    BY <1>1, <2>1
  <2> QED
    BY <1>1, <2>1, <2>2, RestKeeps
<1> QED
  BY <1>2, <1>3

LEMMA ActsKeep ==
    ASSUME LiveInv, Acts
    PROVE  LiveInv'
<1>1. /\ version \in Nat /\ version \in 1..MaxChanges /\ ends \subseteq 1..MaxChanges
      /\ MaxChanges \in Nat /\ visit \in Visits /\ acting \in Seq(Visits) /\ heard <= version
      /\ heard \in 0..MaxChanges
  BY Typed DEF LiveInv, LiveTypeOK
<1>2. /\ version' = version + 1 /\ version < MaxChanges /\ ends' \in {ends, ends \cup {version + 1}}
      /\ acting' = Append(acting, visit)
      /\ UNCHANGED <<mark, connected, hidden, tabVars>>
  BY DEF Acts, Changes
<1>3. version' \in 1..MaxChanges /\ heard <= version' /\ ends' \subseteq 1..MaxChanges
      /\ ends \subseteq ends'
  BY <1>1, <1>2
<1>4. acting' \in Seq(Visits)
      /\ \A j \in DOMAIN acting' : acting'[j] = visit \/ \E i \in DOMAIN acting : acting'[j] = acting[i]
  BY <1>1, <1>2, AppendProperties
<1>5. hooks[visit] = visit /\ visit # None
  BY <1>1, ScreensAre DEF LiveInv, LoadsFirst, Acts
<1> USE DEF tabVars
<1>6. LiveTypeOK'
  BY <1>2, <1>3, <1>4 DEF LiveInv, LiveTypeOK
<1>7. OnlyListenersAsk'
  BY <1>2, <1>4, <1>5 DEF LiveInv, OnlyListenersAsk
<1>8. HooksAreLeft' /\ NothingAhead' /\ LoadsFirst' /\ ScreenIsOwn' /\ LoadIsNew'
  BY <1>2 DEF LiveInv, HooksAreLeft, NothingAhead, LoadsFirst, ScreenIsOwn, LoadIsNew
<1>9. StopsAtTheEnd' /\ (screen.of = visit => HeardIsShown)'
  BY <1>2, <1>3 DEF LiveInv, StopsAtTheEnd, HeardIsShown
<1> QED
  BY <1>2, <1>3, <1>6, <1>7, <1>8, <1>9 DEF LiveInv

LEMMA TellsKeeps ==
    ASSUME LiveInv, Tells
    PROVE  LiveInv'
<1>1. /\ timer \in [Visits -> BOOLEAN] /\ visit \in Visits /\ version \in 1..MaxChanges
      /\ MaxChanges \in Nat /\ version <= version /\ heard <= version /\ heard \in 0..MaxChanges
  BY Typed DEF LiveInv
<1>2. /\ timer' \in [Visits -> BOOLEAN]
      /\ \A m \in Visits : (timer[m] => timer'[m]) /\ (timer'[m] => timer[m] \/ hooks[m] # None)
      /\ heard' = heard \/ (heard' = version /\ timer'[visit])
  BY <1>1, ScreensAre DEF Tells, Listens
<1>3. mark' = version
      /\ UNCHANGED <<version, ends, connected, hidden, visit, screen, refresher, hooks, acting>>
  BY DEF Tells
<1>4. LiveTypeOK' /\ (heard <= version)'
  <2>1. mark' \in 0..MaxChanges /\ heard' \in 0..MaxChanges /\ heard' <= version
    BY <1>1, <1>2, <1>3
  <2> QED
    BY <1>2, <1>3, <2>1 DEF LiveInv, LiveTypeOK
<1>5. HooksAreLeft' /\ NothingAhead' /\ LoadsFirst' /\ ScreenIsOwn' /\ StopsAtTheEnd'
  BY <1>3 DEF LiveInv, HooksAreLeft, NothingAhead, LoadsFirst, ScreenIsOwn, StopsAtTheEnd
<1>6. OnlyListenersAsk'
  BY <1>2, <1>3 DEF LiveInv, OnlyListenersAsk
<1>7. LoadIsNew' /\ (screen.of = visit => HeardIsShown)'
  BY <1>1, <1>2, <1>3 DEF LiveInv, LoadIsNew, HeardIsShown
<1> QED
  BY <1>4, <1>5, <1>6, <1>7 DEF LiveInv

LEMMA ShowsKeeps ==
    ASSUME LiveInv, Shows
    PROVE  LiveInv'
<1>0. /\ refresher \in [Visits -> Refresher] /\ visit \in Visits /\ hidden' = FALSE /\ hidden' \in BOOLEAN
  BY Typed DEF Shows
<1>1. UNCHANGED <<version, ends, mark, connected, visit, screen, hooks, timer, heard, acting>>
  BY DEF Shows
<1>2. ASSUME NEW r \in Refresher
      PROVE  /\ Visible(r) \in Refresher
             /\ Visible(r).at = r.at /\ Visible(r).stopped = r.stopped
             /\ Visible(r).load \in {r.load, "asked"} /\ (r.stopped => Visible(r).load = r.load)
             /\ ~r.stale => Visible(r) = r
             /\ r.stale /\ ~r.stopped => Visible(r).load = "asked" \/ Visible(r).again
  <2>1. CASE ~r.stale
    BY <2>1 DEF Visible
  <2>2. CASE r.stale
    <3>1. PICK q \in Refresher : q = [r EXCEPT !.stale = FALSE] /\ q.at = r.at /\ q.load = r.load
                                 /\ q.stopped = r.stopped
      <4> DEFINE x == [r EXCEPT !.stale = FALSE]
      <4>1. x \in Refresher /\ x.at = r.at /\ x.load = r.load /\ x.stopped = r.stopped
        BY DEF Refresher
      <4> QED
        BY <4>1
    <3>2. Visible(r) = Trigger(q)
      BY <2>2, <3>1 DEF Visible
    <3>3. /\ Trigger(q) \in Refresher /\ Trigger(q).at = q.at /\ Trigger(q).stopped = q.stopped
          /\ Trigger(q).load \in {q.load, "asked"} /\ (q.stopped => Trigger(q) = q)
      BY <1>0, TriggerIs
    <3>4. ~q.stopped => Trigger(q).load = "asked" \/ Trigger(q).again
      BY <1>0, TriggerIsDue
    <3> QED
      BY <2>2, <3>1, <3>2, <3>3, <3>4
  <2> QED
    BY <2>1, <2>2
<1>3. \A m \in Visits : refresher'[m] = IF Listens(m) THEN Visible(refresher[m]) ELSE refresher[m]
  BY DEF Shows
<1>4. refresher' \in [Visits -> Refresher]
  BY <1>0, <1>2 DEF Shows
<1>5. LiveTypeOK' /\ (heard <= version)'
  BY <1>0, <1>1, <1>4 DEF LiveInv, LiveTypeOK, Refresher
<1>6. HooksAreLeft' /\ NothingAhead' /\ ScreenIsOwn'
  <2>1. \A m \in Visits : m > visit => ~Listens(m)
    BY ScreensAre DEF LiveInv, HooksAreLeft, Listens
  <2>2. NothingAhead'
    BY <1>1, <1>3, <2>1 DEF LiveInv, NothingAhead
  <2> QED
    BY <1>1, <2>2 DEF LiveInv, HooksAreLeft, ScreenIsOwn
<1>7. OnlyListenersAsk'
  BY <1>1, <1>3, ScreensAre DEF LiveInv, OnlyListenersAsk, Listens
<1>8. CASE hooks[visit] = None
  <2>1. refresher'[visit] = refresher[visit] /\ ~refresher[visit].stale
    BY <1>0, <1>3, <1>8, ScreensAre DEF LiveInv, OnlyListenersAsk, Listens
  <2>2. LoadsFirst' /\ StopsAtTheEnd' /\ LoadIsNew' /\ (screen.of = visit => HeardIsShown)'
    BY <1>1, <2>1 DEF LiveInv, LoadsFirst, StopsAtTheEnd, LoadIsNew, HeardIsShown
  <2> QED
    BY <1>5, <1>6, <1>7, <2>2 DEF LiveInv
<1>9. CASE hooks[visit] # None
  <2>1. PICK r \in Refresher, v \in Refresher : r = refresher[visit] /\ v = Visible(r)
    BY <1>0, <1>2
  <2>2. refresher'[visit] = v
    BY <1>0, <1>3, <1>9, <2>1 DEF LiveInv, HooksAreLeft, Listens
  <2>3. /\ v.at = r.at /\ v.stopped = r.stopped
        /\ v.load \in {r.load, "asked"} /\ (r.stopped => v.load = r.load)
        /\ ~r.stale => v = r
        /\ r.stale /\ ~r.stopped => v.load = "asked" \/ v.again
    BY <1>2, <2>1
  <2>4. LoadsFirst'
    BY <1>1, <1>9 DEF LiveInv, LoadsFirst
  <2>5. r.stopped => r.load = "none" /\ (screen.of # visit \/ (screen.at \in ends /\ ~screen.error))
    BY <2>1 DEF LiveInv, StopsAtTheEnd
  <2>6. StopsAtTheEnd'
    BY <1>1, <2>2, <2>3, <2>5 DEF StopsAtTheEnd
  <2>7. LoadIsNew'
    BY <1>1, <2>1, <2>2, <2>3, <2>5 DEF LiveInv, LoadIsNew
  <2>8. (screen.of = visit => HeardIsShown)'
    BY <1>1, <2>1, <2>2, <2>3, <2>5 DEF LiveInv, HeardIsShown
  <2> QED
    BY <1>5, <1>6, <1>7, <2>4, <2>6, <2>7, <2>8 DEF LiveInv
<1> QED
  BY <1>8, <1>9

(* The next screen is opened: everybody of the open one stops.                   *)
LEMMA NavigateKeeps ==
    ASSUME LiveInv, Navigate
    PROVE  LiveInv'
<1> DEFINE n == visit + 1
<1>0. /\ refresher \in [Visits -> Refresher] /\ hooks \in [Visits -> None..Gone]
      /\ timer \in [Visits -> BOOLEAN] /\ visit \in Visits /\ visit \in Nat
      /\ n \in Visits /\ n > visit /\ n # visit
  BY Typed, ScreensAre DEF Navigate, Visits
<1> HIDE DEF n
<1>1. /\ visit' = n /\ heard' = 0
      /\ screen' = [of |-> n, at |-> 0, error |-> FALSE]
      /\ UNCHANGED <<version, ends, mark, connected, hidden, acting>>
  BY DEF Navigate, Opened, Blank, n
<1>2. PICK s \in Refresher : s = Starts(Fresh) /\ s.load = "asked" /\ ~s.again /\ ~s.stale /\ ~s.stopped
  BY FreshIs
<1>3. \A m \in Visits :
        refresher'[m] = CASE m = n -> s
                          [] hooks[m] = visit /\ m # n -> [refresher[m] EXCEPT !.stopped = TRUE]
                          [] OTHER -> refresher[m]
  BY <1>2 DEF Navigate, Opened, n
<1>4. \A m \in Visits :
        hooks'[m] = CASE m = n -> IF Screens[n] = "home" THEN n ELSE None
                      [] hooks[m] = visit /\ m # n -> Gone
                      [] OTHER -> hooks[m]
  BY DEF Navigate, Opened, n
<1>5. \A m \in Visits : timer'[m] = (timer[m] /\ hooks[m] # visit)
  BY DEF Navigate, Opened
<1>6. refresher' \in [Visits -> Refresher]
  <2>1. \A m \in Visits : [refresher[m] EXCEPT !.stopped = TRUE] \in Refresher
    BY <1>0 DEF Refresher
  <2>2. refresher' = [m \in Visits |-> refresher'[m]]
    BY DEF Navigate, Opened
  <2>3. \A m \in Visits : refresher'[m] \in Refresher
    BY <1>0, <1>2, <1>3, <2>1
  <2> QED
    BY <2>2, <2>3
<1>7. hooks' \in [Visits -> None..Gone] /\ timer' \in [Visits -> BOOLEAN]
  <2>1. hooks' = [m \in Visits |-> hooks'[m]] /\ timer' = [m \in Visits |-> timer'[m]]
    BY DEF Navigate, Opened
  <2>2. \A m \in Visits : hooks'[m] \in None..Gone
    BY <1>0, <1>4, ScreensAre
  <2>3. \A m \in Visits : timer'[m] \in BOOLEAN
    BY <1>5
  <2> QED
    BY <2>1, <2>2, <2>3
<1>8. LiveTypeOK' /\ (heard <= version)'
  <2>1. 0 \in 0..MaxChanges /\ 0 <= version
    BY Typed
  <2> QED
    BY <1>0, <1>1, <1>6, <1>7, <2>1 DEF LiveInv, LiveTypeOK, Refresher
<1>9. hooks'[n] \in {None, n} /\ n # Gone /\ None # Gone /\ hooks[n] = None
  BY <1>0, <1>4, ScreensAre DEF LiveInv, HooksAreLeft
<1>10. HooksAreLeft'
  <2>1. \A m \in Visits : hooks'[m] \in {None, n, Gone}
    BY <1>0, <1>4, <1>9 DEF LiveInv, HooksAreLeft
  <2>2. ASSUME NEW m \in Visits, m > n PROVE hooks'[m] = None
    <3>1. m \in Nat /\ n \in Nat /\ m > visit /\ m # n
      BY <1>0, <2>2, ScreensAre
    <3>2. hooks[m] = None /\ hooks[m] # visit
      BY <1>0, <3>1, ScreensAre DEF LiveInv, HooksAreLeft
    <3> QED
      BY <1>4, <3>1, <3>2
  <2> QED
    BY <1>1, <1>9, <2>1, <2>2 DEF HooksAreLeft
<1>a. NothingAhead'
  <2> SUFFICES ASSUME NEW m \in Visits, m > n PROVE refresher'[m].load = "none"
    BY <1>1 DEF NothingAhead
  <2>1. m # n /\ m > visit
    BY <1>0, ScreensAre
  <2>2. refresher[m].load = "none" /\ hooks[m] = None
    BY <2>1 DEF LiveInv, NothingAhead, HooksAreLeft
  <2>3. hooks[m] # visit
    BY <1>0, <2>2, ScreensAre
  <2> QED
    BY <1>3, <2>1, <2>2, <2>3
<1>11. OnlyListenersAsk'
  <2>1. ASSUME NEW m \in Visits, hooks'[m] = None
        PROVE  /\ hooks[m] = None /\ (m = n \/ refresher'[m] = refresher[m])
               /\ ~timer'[m]
    <3>1. CASE m = n
      BY <1>5, <1>9, <3>1 DEF LiveInv, OnlyListenersAsk
    <3>2. CASE m # n
      BY <1>0, <1>3, <1>4, <1>5, <2>1, <3>2, ScreensAre DEF LiveInv, OnlyListenersAsk
    <3> QED
      BY <3>1, <3>2
  <2> QED
    BY <1>0, <1>1, <1>2, <1>3, <2>1 DEF LiveInv, OnlyListenersAsk
<1>12. refresher'[n] = s
  BY <1>0, <1>3
<1>13. LoadsFirst' /\ StopsAtTheEnd' /\ LoadIsNew'
  BY <1>1, <1>2, <1>12 DEF LoadsFirst, StopsAtTheEnd, LoadIsNew
<1>14. ScreenIsOwn' /\ HeardIsShown'
  BY <1>1 DEF ScreenIsOwn, HeardIsShown
<1> QED
  BY <1>8, <1>a, <1>10, <1>11, <1>13, <1>14 DEF LiveInv

(* A load goes on: its own screen is at most as new as what it was told of.       *)
LEMMA ServerReadsKeeps ==
    ASSUME LiveInv, NEW n \in Visits, ServerReads(n)
    PROVE  LiveInv'
<1>0. /\ refresher \in [Visits -> Refresher] /\ visit \in Visits /\ version \in 1..MaxChanges
      /\ MaxChanges \in Nat /\ heard \in 0..MaxChanges /\ heard <= version
  BY Typed DEF LiveInv
<1>1. PICK r \in Refresher : r = refresher[n] /\ r.load = "asked"
  BY <1>0 DEF ServerReads
<1>2. PICK q \in Refresher : /\ q = [r EXCEPT !.load = "read", !.at = version]
                             /\ q.load = "read" /\ q.at = version /\ q.again = r.again
                             /\ q.stale = r.stale /\ q.stopped = r.stopped /\ q.failed = r.failed
  <2> DEFINE x == [r EXCEPT !.load = "read", !.at = version]
  <2>1. version \in 0..MaxChanges
    BY <1>0
  <2>2. /\ x \in Refresher /\ x.load = "read" /\ x.at = version /\ x.again = r.again
        /\ x.stale = r.stale /\ x.stopped = r.stopped /\ x.failed = r.failed
    BY <2>1 DEF Refresher
  <2> QED
    BY <2>2
<1>3. refresher' \in [Visits -> Refresher] /\ refresher'[n] = q
      /\ \A m \in Visits \ {n} : refresher'[m] = refresher[m]
  <2>1. refresher' = [refresher EXCEPT ![n] = q]
    BY <1>0, <1>1, <1>2 DEF ServerReads
  <2> QED
    BY <1>0, <2>1
<1>4. UNCHANGED <<version, ends, mark, connected, hidden, visit, screen, hooks, timer, heard, acting>>
  BY DEF ServerReads
<1>5. LiveTypeOK' /\ (heard <= version)'
  BY <1>3, <1>4 DEF LiveInv, LiveTypeOK, Refresher
<1>6. HooksAreLeft' /\ NothingAhead' /\ ScreenIsOwn'
  <2>1. \A m \in Visits : m > visit => m # n
    BY <1>1 DEF LiveInv, NothingAhead
  <2>2. NothingAhead'
    BY <1>3, <1>4, <2>1 DEF LiveInv, NothingAhead
  <2> QED
    BY <1>4, <2>2 DEF LiveInv, HooksAreLeft, ScreenIsOwn
<1>7. OnlyListenersAsk'
  BY <1>1, <1>2, <1>3, <1>4 DEF LiveInv, OnlyListenersAsk
<1>8. CASE n = visit
  <2>1. refresher'[visit] = q /\ q.at >= heard
    BY <1>0, <1>2, <1>3, <1>8
  <2>2. LoadsFirst' /\ LoadIsNew'
    BY <1>2, <1>4, <2>1 DEF LiveInv, LoadsFirst, LoadIsNew
  <2>3. StopsAtTheEnd'
    BY <1>1, <1>2, <1>4, <1>8, <2>1 DEF LiveInv, StopsAtTheEnd
  <2>4. HeardIsShown'
    BY <1>2, <1>4, <2>1 DEF HeardIsShown
  <2> QED
    BY <1>5, <1>6, <1>7, <2>2, <2>3, <2>4 DEF LiveInv
<1>9. CASE n # visit
  <2>1. refresher'[visit] = refresher[visit]
    BY <1>0, <1>3, <1>9
  <2>2. LoadsFirst' /\ LoadIsNew' /\ StopsAtTheEnd' /\ (screen.of = visit => HeardIsShown)'
    BY <1>4, <2>1 DEF LiveInv, LoadsFirst, LoadIsNew, StopsAtTheEnd, HeardIsShown
  <2> QED
    BY <1>5, <1>6, <1>7, <2>2 DEF LiveInv
<1> QED
  BY <1>8, <1>9

(* The answer is painted where its screen is still open; what was asked for       *)
(* meanwhile follows.                                                       *)
LEMMA AnsweredKeeps ==
    ASSUME LiveInv, NEW n \in Visits, Answered(n)
    PROVE  LiveInv'
<1>0. /\ refresher \in [Visits -> Refresher] /\ visit \in Visits /\ hidden' \in BOOLEAN
      /\ hooks \in [Visits -> None..Gone] /\ version \in 1..MaxChanges
      /\ screen \in [of : Visits, at : 0..MaxChanges, error : BOOLEAN]
  BY Typed DEF Answered
<1>1. PICK r \in Refresher : r = refresher[n] /\ r.load = "read"
  BY <1>0 DEF Answered
<1>2. PICK q \in Refresher : /\ q = [r EXCEPT !.stopped = @ \/ Stops(n), !.failed = FALSE]
                             /\ q.again = r.again /\ q.stale = r.stale
                             /\ q.stopped = (r.stopped \/ Stops(n))
  <2>1. PICK b \in BOOLEAN : b = (r.stopped \/ Stops(n))
    OBVIOUS
  <2> DEFINE x == [r EXCEPT !.stopped = b, !.failed = FALSE]
  <2>2. x \in Refresher /\ x.again = r.again /\ x.stale = r.stale /\ x.stopped = b
    BY DEF Refresher
  <2> QED
    BY <2>1, <2>2
<1>3. PICK o \in Refresher : o = Over(q)
  BY <1>0, OverIs
<1>4. /\ o.stopped = q.stopped /\ o.load \in {"none", "asked"}
      /\ q.stopped => o.load = "none"
      /\ ~q.again => ~o.again /\ o.stale = q.stale
      /\ q.again /\ ~q.stopped => o.load = "asked" \/ (hidden' /\ o.stale)
  BY <1>0, <1>3, OverIs
<1>5. refresher' \in [Visits -> Refresher] /\ refresher'[n] = o
      /\ \A m \in Visits \ {n} : refresher'[m] = refresher[m]
  <2>1. refresher' = [refresher EXCEPT ![n] = Loaded(n, r)]
    BY <1>1 DEF Answered
  <2>2. Loaded(n, r) = Over(q)
    BY <1>2 DEF Loaded
  <2>3. refresher' = [refresher EXCEPT ![n] = o]
    BY <1>3, <2>1, <2>2
  <2> QED
    BY <1>0, <2>3
<1>6. /\ UNCHANGED <<version, ends, mark, connected, hidden, visit, timer, heard, acting>>
      /\ hooks' = [hooks EXCEPT ![n] = IF @ = None THEN visit ELSE @]
      /\ screen' = IF n = visit THEN [of |-> n, at |-> r.at, error |-> FALSE] ELSE screen
  BY <1>1 DEF Answered, Paints, Listening
<1>7. hooks' \in [Visits -> None..Gone] /\ hooks'[n] = (IF hooks[n] = None THEN visit ELSE hooks[n])
      /\ \A m \in Visits \ {n} : hooks'[m] = hooks[m]
  BY <1>0, <1>6, ScreensAre
<1>8. screen' \in [of : Visits, at : 0..MaxChanges, error : BOOLEAN]
  BY <1>0, <1>6 DEF Refresher
<1>9. LiveTypeOK' /\ (heard <= version)'
  BY <1>5, <1>6, <1>7, <1>8 DEF LiveInv, LiveTypeOK, Refresher
<1>10. ~(n > visit)
  BY <1>1 DEF LiveInv, NothingAhead
<1>11. HooksAreLeft' /\ NothingAhead'
  <2>1. HooksAreLeft'
    BY <1>0, <1>6, <1>7, <1>10, ScreensAre DEF LiveInv, HooksAreLeft
  <2> QED
    BY <1>5, <1>6, <1>10, <2>1 DEF LiveInv, NothingAhead
<1>12. OnlyListenersAsk'
  BY <1>0, <1>5, <1>6, <1>7, ScreensAre DEF LiveInv, OnlyListenersAsk
<1>13. CASE n # visit
  <2>1. refresher'[visit] = refresher[visit] /\ hooks'[visit] = hooks[visit] /\ screen' = screen
    BY <1>0, <1>5, <1>6, <1>7, <1>13
  <2>2. LoadsFirst' /\ LoadIsNew' /\ StopsAtTheEnd' /\ ScreenIsOwn'
    BY <1>6, <2>1 DEF LiveInv, LoadsFirst, LoadIsNew, StopsAtTheEnd, ScreenIsOwn
  <2>3. (screen.of = visit => HeardIsShown)'
    BY <1>6, <2>1 DEF LiveInv, HeardIsShown
  <2> QED
    BY <1>9, <1>11, <1>12, <2>2, <2>3 DEF LiveInv
<1>14. CASE n = visit
  <2>1. refresher'[visit] = o /\ hooks'[visit] = visit /\ visit # None
    BY <1>0, <1>5, <1>7, <1>14, ScreensAre DEF LiveInv, HooksAreLeft
  <2>2. screen' = [of |-> visit, at |-> r.at, error |-> FALSE]
    BY <1>6, <1>14
  <2>3. LoadsFirst' /\ ScreenIsOwn' /\ LoadIsNew'
    BY <1>4, <1>6, <2>1, <2>2 DEF LoadsFirst, ScreenIsOwn, LoadIsNew
  <2>4. q.stopped => r.at \in ends
    BY <1>1, <1>2, <1>14 DEF LiveInv, StopsAtTheEnd, Stops
  <2>5. StopsAtTheEnd'
    BY <1>4, <1>6, <2>1, <2>2, <2>4 DEF StopsAtTheEnd
  <2>6. r.at >= heard \/ timer[visit] \/ q.again \/ (hidden /\ q.stale)
    BY <1>1, <1>2, <1>14 DEF LiveInv, LoadIsNew
  <2>7. r.at >= heard => ~(heard > r.at)
    BY Typed DEF Refresher
  <2>8. HeardIsShown'
    BY <1>4, <1>6, <2>1, <2>2, <2>4, <2>6, <2>7 DEF HeardIsShown
  <2> QED
    BY <1>9, <1>11, <1>12, <2>3, <2>5, <2>8 DEF LiveInv
<1> QED
  BY <1>13, <1>14

(* A load fails: a first load leaves its error, others what is shown.            *)
LEMMA LoadFailsKeeps ==
    ASSUME LiveInv, NEW n \in Visits, LoadFails(n)
    PROVE  LiveInv'
<1>0. /\ refresher \in [Visits -> Refresher] /\ visit \in Visits /\ hidden' \in BOOLEAN
      /\ screen \in [of : Visits, at : 0..MaxChanges, error : BOOLEAN] /\ 0 \in 0..MaxChanges
  BY Typed DEF LoadFails
<1>1. PICK r \in Refresher : r = refresher[n] /\ r.load # "none"
  BY <1>0 DEF LoadFails
<1>2. PICK q \in Refresher : /\ q = [r EXCEPT !.failed = TRUE]
                             /\ q.again = r.again /\ q.stale = r.stale
                             /\ q.stopped = r.stopped /\ q.failed
  <2> DEFINE x == [r EXCEPT !.failed = TRUE]
  <2>1. x \in Refresher /\ x.again = r.again /\ x.stale = r.stale /\ x.stopped = r.stopped /\ x.failed
    BY DEF Refresher
  <2> QED
    BY <2>1
<1>3. PICK o \in Refresher : o = Over(q)
  BY <1>0, OverIs
<1>4. /\ o.stopped = q.stopped /\ o.load \in {"none", "asked"}
      /\ ~q.again => ~o.again /\ o.stale = q.stale /\ o.failed = q.failed /\ o.load = "none"
      /\ q.again /\ ~q.stopped => o.load = "asked" \/ (hidden' /\ o.stale)
  BY <1>0, <1>3, OverIs
<1>5. refresher' \in [Visits -> Refresher] /\ refresher'[n] = o
      /\ \A m \in Visits \ {n} : refresher'[m] = refresher[m]
  <2>1. q = [refresher[n] EXCEPT !.failed = TRUE]
    BY <1>1, <1>2
  <2>2. refresher' = [refresher EXCEPT ![n] = Over(q)]
    BY <1>0, <2>1 DEF LoadFails
  <2>3. refresher' = [refresher EXCEPT ![n] = o]
    BY <1>3, <2>1, <2>2
  <2> QED
    BY <1>0, <2>3
<1>6. /\ UNCHANGED <<version, ends, mark, connected, hidden, visit, hooks, timer, heard, acting>>
      /\ screen' = IF hooks[n] = None \/ (Screens[n] = "home" /\ n = visit)
                   THEN [of |-> n, at |-> 0, error |-> TRUE] ELSE screen
  BY DEF LoadFails, FirstLoad
<1>7. screen' \in [of : Visits, at : 0..MaxChanges, error : BOOLEAN]
  BY <1>0, <1>6
<1>8. LiveTypeOK' /\ (heard <= version)'
  BY <1>5, <1>6, <1>7 DEF LiveInv, LiveTypeOK, Refresher
<1>9. ~(n > visit)
  BY <1>1 DEF LiveInv, NothingAhead
<1>10. HooksAreLeft' /\ NothingAhead'
  BY <1>5, <1>6, <1>9 DEF LiveInv, HooksAreLeft, NothingAhead
<1>11. OnlyListenersAsk'
  BY <1>1, <1>2, <1>4, <1>5, <1>6 DEF LiveInv, OnlyListenersAsk
<1>12. ScreenIsOwn'
  BY <1>6 DEF LiveInv, ScreenIsOwn
<1>13. CASE n # visit
  <2>1. refresher'[visit] = refresher[visit]
        /\ (screen' = screen \/ (screen'.of # visit /\ screen'.error))
    BY <1>0, <1>5, <1>6, <1>13
  <2>2. LoadsFirst' /\ LoadIsNew' /\ StopsAtTheEnd'
    BY <1>6, <2>1 DEF LiveInv, LoadsFirst, LoadIsNew, StopsAtTheEnd
  <2>3. (screen.of = visit => HeardIsShown)'
    BY <1>6, <2>1 DEF LiveInv, HeardIsShown
  <2> QED
    BY <1>8, <1>10, <1>11, <1>12, <2>2, <2>3 DEF LiveInv
<1>14. CASE n = visit
  <2>1. refresher'[visit] = o /\ ~q.stopped
    BY <1>1, <1>2, <1>5, <1>14 DEF LiveInv, StopsAtTheEnd
  <2>2. LoadsFirst'
    BY <1>6, <1>14, <2>1 DEF LiveInv, LoadsFirst
  <2>3. LoadIsNew' /\ StopsAtTheEnd'
    BY <1>4, <1>6, <2>1 DEF LoadIsNew, StopsAtTheEnd
  <2>4. HeardIsShown'
    BY <1>2, <1>4, <1>6, <2>1 DEF HeardIsShown
  <2> QED
    BY <1>8, <1>10, <1>11, <1>12, <2>2, <2>3, <2>4 DEF LiveInv
<1> QED
  BY <1>13, <1>14

-----------------------------------------------------------------------------
LEMMA LiveNextKeeps ==
    ASSUME LiveInv, [LiveNext]_liveVars
    PROVE  LiveInv'
<1>1. CASE Navigate
  BY <1>1, NavigateKeeps
<1>2. ASSUME NEW n \in Visits,
             ServerReads(n) \/ Answered(n) \/ LoadFails(n) \/ Debounced(n) \/ Poll(n)
      PROVE  LiveInv'
  BY <1>2, ServerReadsKeeps, AnsweredKeeps, LoadFailsKeeps, DebouncedKeeps, PollKeeps
<1>3. CASE Connects \/ Drops \/ Hides \/ ObjectiveMoves
  BY <1>3, ObjectiveKeeps
<1>4. CASE Tells \/ Shows \/ Acts \/ ActionAnswered
  BY <1>4, TellsKeeps, ShowsKeeps, ActsKeep, ActionAnsweredKeeps
<1>5. CASE UNCHANGED liveVars
  <2> USE <1>5 DEF liveVars, tabVars
  <2>1. /\ LiveTypeOK' /\ HooksAreLeft' /\ NothingAhead' /\ OnlyListenersAsk' /\ LoadsFirst'
        /\ (heard <= version)'
    BY DEF LiveInv, LiveTypeOK, HooksAreLeft, NothingAhead, OnlyListenersAsk, LoadsFirst
  <2>2. /\ LoadIsNew' /\ StopsAtTheEnd' /\ ScreenIsOwn'
        /\ (screen.of = visit => HeardIsShown)'
    BY DEF LiveInv, LoadIsNew, StopsAtTheEnd, ScreenIsOwn, HeardIsShown
  <2> QED
    BY <2>1, <2>2 DEF LiveInv
<1> QED
  BY <1>1, <1>2, <1>3, <1>4, <1>5 DEF LiveNext

(* The inductive invariant of the tab.                                       *)
THEOREM LiveInductive == LiveSpec => []LiveInv
<1> QED
  BY InitHolds, LiveNextKeeps, PTL DEF LiveSpec

(* Whatever screens are opened and left, and whatever is hidden, dropped or       *)
(* fails: no answer is painted over another screen, and what the open screen     *)
(* was told of is shown or on its way.                                        *)
THEOREM TabKeepsUp == LiveSpec => []ScreenKeepsUp
<1>1. ASSUME LiveInv PROVE ScreenKeepsUp
  <2>1. hooks[visit] \in {None, visit} /\ visit \in Visits
    BY <1>1, Typed DEF LiveInv, HooksAreLeft
  <2>2. KeepsListening
    BY <1>1, <2>1 DEF LiveInv, LoadsFirst, StopsAtTheEnd, ScreenIsOwn, KeepsListening, Listens
  <2> QED
    BY <1>1, <2>2 DEF LiveInv, ScreenKeepsUp
<1> QED
  BY <1>1, LiveInductive, PTL

-----------------------------------------------------------------------------
(* The ops watch.                                                          *)

(* What the fields of a watch and of a snapshot hold.                        *)
Phases   == {"read", "compare", "store", "record", "send"}
Snapshot == [count : 0..Unknown, at : Times, by : Times]
Counted  == (0..Unknown) \X (0..Unknown)
Keys     == ({"paid"} \X SUBSET Calls) \cup ({"integrity", "cleanup"} \X Counted)
            \cup ({"bulk-delete"} \X Times)
Watching == [at : Times, phase : Phases, keys : SUBSET Keys, announced : SUBSET Keys,
             before : Snapshot, count : 0..Unknown, left : SUBSET {"window", "announced"}]

WatchTypes ==
    /\ now \in 0..Horizon
    /\ call \in [Calls -> [start : Times, end : Times]]
    /\ rows \in 0..MaxRows
    /\ cleanups \subseteq Times
    /\ snaps \in Seq(Snapshot)
    /\ recorded \subseteq Keys
    /\ watches \subseteq Watching
    /\ cut \subseteq Times /\ blind \subseteq Times

(* Started watches: one for each even instant, and those under way at the same  *)
(* time are on record as overlapping.                                        *)
Timely ==
    /\ \A w \in watches : w.at % 2 = 0 /\ 2 <= w.at /\ w.at <= now
    /\ \A v, w \in watches : v # w => v.at # w.at /\ Together(v.at, w.at)
    /\ \A c \in Calls : call[c].start = Never \/ call[c].start <= now
    /\ \A c \in Calls : call[c].start = Never => call[c].end = Never
    /\ \A c \in Calls : call[c].end = Never \/ call[c].end <= now
    /\ \A i \in DOMAIN snaps : snaps[i].by <= now

(* The calls of a finding started in the window of the watch that made it.      *)
FromWindow(key, at) ==
    key[1] = "paid" =>
        \A c \in key[2] : c \in Calls /\ call[c].start # Never /\ call[c].start + 3 >= at

Alone(at) == \A v \in Times : ~Together(v, at)

Announces(key, c) == key[1] = "paid" /\ c \in key[2]

LossIn(i, keys) ==
    \/ Loss(snaps[i].count, snaps[i + 1].count) \in keys
    \/ Cleanup(snaps[i].count, snaps[i + 1].count) \in keys

(* What has to be told of is on record: of a call, and of the i-th snapshot and  *)
(* the next one.                                                             *)
CallsRecorded ==
    \A c \in Calls :
        call[c].end < LastWatch(c) /\ LastWatch(c) <= now
        /\ Quiet(LastWatch(c)) /\ LastWatch(c) \notin cut =>
            \E key \in recorded : Announces(key, c)

LossTold(i) ==
    LET w == snaps[i + 1].by IN
    /\ Sharp(snaps[i].count, snaps[i + 1].count)
    /\ Quiet(w) /\ w \notin cut \cup blind /\ Alone(w)
    => LossIn(i, recorded)

LossesRecorded == \A i \in 1..Len(snaps) - 1 : LossTold(i)

(* What is on record was sent, is about to be, or its message failed.           *)
AllTold == \A key \in recorded : Told(key)

(* What a watch knows at each point: what it was told is on record, what it     *)
(* found is what its window holds, and nobody else stored a snapshot since it    *)
(* read the last one, unless watches overlapped.                              *)
Knows(w) ==
    /\ w.announced \subseteq recorded
    /\ w.phase # "read" => w.left = {}
    /\ w.phase = "send" => w.keys \subseteq recorded
    /\ \A key \in w.keys : FromWindow(key, w.at)
    /\ "window" \notin w.left =>
          \A c \in Calls : LastWatch(c) = w.at /\ call[c].end < w.at =>
              \E key \in w.keys : Announces(key, c)

KnowsSent(w) ==
    \A s \in sent :
        /\ s[1] # w.at
        /\ s[1] > w.at => Together(s[1], w.at)
        /\ s[1] < w.at /\ "announced" \notin w.left => Together(s[1], w.at) \/ s[2] \in w.announced

KnowsSnaps(w) ==
    /\ w.phase = "store" /\ Alone(w.at) /\ w.at \notin blind => w.before = Last
    /\ \A i \in DOMAIN snaps : snaps[i].by = w.at => w.phase \in {"record", "send"}
    /\ \A i \in 1..Len(snaps) - 1 :
           /\ snaps[i + 1].by = w.at /\ Alone(w.at) /\ w.at \notin blind
           /\ Sharp(snaps[i].count, snaps[i + 1].count)
           => LossIn(i, w.keys)

SentIs ==
    \A s \in sent :
        /\ s[1] \in Times /\ s[1] % 2 = 0 /\ s[1] <= now
        /\ s[2] \in recorded
        /\ FromWindow(s[2], s[1])

WatchInv ==
    /\ WatchTypes /\ Timely /\ SentIs
    /\ \A w \in watches : Knows(w) /\ KnowsSent(w) /\ KnowsSnaps(w)
    /\ ToldOnce /\ CallsRecorded /\ LossesRecorded

USE WatchAssumption

-----------------------------------------------------------------------------
LEMMA TimesAre == Times \subseteq Nat /\ Never \in Times /\ 0..Horizon \subseteq Times
BY DEF Times, Never

LEMMA WatchIsTyped ==
    ASSUME NEW at \in Times
    PROVE  Watch(at) \in Watching
<1>1. NoSnap \in Snapshot
  BY TimesAre DEF NoSnap, Snapshot, Unknown
<1>2. Unknown \in 0..Unknown
  BY DEF Unknown
<1> QED
  BY <1>1, <1>2 DEF Watch, Watching, Phases

LEMMA LastIsTyped ==
    ASSUME WatchTypes
    PROVE  Last \in Snapshot
<1>1. NoSnap \in Snapshot
  BY TimesAre DEF NoSnap, Snapshot, Unknown
<1>2. snaps # <<>> => Len(snaps) \in 1..Len(snaps)
  BY DEF WatchTypes
<1> QED
  BY <1>1, <1>2 DEF WatchTypes, Last

LEMMA FindingsAreKeys ==
    ASSUME NEW w
    PROVE  Findings(w) \subseteq Keys
<1>1. Paid(InWindow(w)) \in Keys
  BY DEF Paid, InWindow, Keys
<1> QED
  BY <1>1 DEF Findings

LEMMA IntegrityIsKeys ==
    ASSUME NEW last \in Snapshot, NEW count \in 0..Unknown, NEW bulk \in SUBSET Times
    PROVE  /\ Integrity(last, count, bulk) \subseteq Keys
           /\ \A key \in Integrity(last, count, bulk) : key[1] # "paid"
<1>1. <<last.count, count>> \in Counted
  BY DEF Snapshot, Counted
<1>2. ASSUME NEW t \in bulk
      PROVE  Bulk(t) \in Keys /\ Bulk(t)[1] # "paid"
  BY <1>2 DEF Bulk, Keys
<1>3. Cleanup(last.count, count) \in Keys /\ Cleanup(last.count, count)[1] # "paid"
  BY <1>1 DEF Cleanup, Keys
<1>4. Loss(last.count, count) \in Keys /\ Loss(last.count, count)[1] # "paid"
  BY <1>1 DEF Loss, Keys
<1> HIDE DEF Keys
<1> QED
  BY <1>2, <1>3, <1>4 DEF Integrity

LEMMA FirstInstant ==
    ASSUME WatchInit
    PROVE  WatchInv
<1>1. WatchTypes
  BY TimesAre DEF WatchInit, WatchTypes
<1>2. Timely /\ SentIs
  BY TimesAre DEF WatchInit, Timely, SentIs, Never, Calls
<1>3. ToldOnce /\ LossesRecorded
  BY DEF WatchInit, ToldOnce, LossesRecorded, LossTold, LossIn, Alone
<1>4. CallsRecorded
  <2> SUFFICES ASSUME NEW c \in Calls
               PROVE  ~(LastWatch(c) <= now)
    BY DEF CallsRecorded
  <2>1. call[c].start = Never /\ now = 1
    BY DEF WatchInit
  <2> QED
    BY <2>1 DEF LastWatch, Never
<1> QED
  BY <1>1, <1>2, <1>3, <1>4 DEF WatchInv, WatchInit

LEMMA LossesOneByOne ==
    /\ LossesRecorded <=> \A i \in 1..Len(snaps) - 1 : LossTold(i)
    /\ LossesRecorded' <=> \A i \in 1..Len(snaps') - 1 : LossTold(i)'
BY DEF LossesRecorded

-----------------------------------------------------------------------------
(* A step of one watch: what the others know stays true.                      *)
LEMMA OthersKnow ==
    ASSUME WatchInv, NEW w \in watches, NEW u \in watches, u # w,
           UNCHANGED <<now, call, sent, overlaps>>, recorded \subseteq recorded',
           \/ snaps' = snaps
           \/ \E n \in Snapshot : snaps' = Append(snaps, n) /\ n.by = w.at
    PROVE  Knows(u)' /\ KnowsSent(u)' /\ KnowsSnaps(u)'
<1>1. Knows(u) /\ KnowsSent(u) /\ KnowsSnaps(u) /\ u.at # w.at /\ Together(w.at, u.at)
      /\ w.at \in Times /\ snaps \in Seq(Snapshot)
  BY DEF WatchInv, Timely, WatchTypes, Watching
<1>2. Knows(u)'
  BY <1>1 DEF Knows, FromWindow, LastWatch, Announces
<1>3. KnowsSent(u)'
  BY <1>1 DEF KnowsSent, Together
<1>4. KnowsSnaps(u)'
  <2>1. ~Alone(u.at)' /\ ~Alone(u.at)
    BY <1>1 DEF Alone, Together
  <2>2. \A i \in DOMAIN snaps' : snaps'[i].by = u.at => i \in DOMAIN snaps /\ snaps'[i] = snaps[i]
    BY <1>1
  <2> QED
    BY <1>1, <2>1, <2>2 DEF KnowsSnaps
<1> QED
  BY <1>2, <1>3, <1>4

(* A watch that goes on.                                                    *)
LEMMA GoingOnKeeps ==
    ASSUME WatchInv, NEW w \in watches, NEW v \in Watching, v.at = w.at, GoesOn(w, v),
           UNCHANGED <<now, call, rows, cleanups, sent, overlaps>>,
           recorded \subseteq recorded', recorded' \subseteq Keys,
           cut \subseteq cut', cut' \subseteq Times,
           blind \subseteq blind', blind' \subseteq Times,
           \/ snaps' = snaps
           \/ \E n \in Snapshot : snaps' = Append(snaps, n) /\ n.by = w.at,
           Knows(v)', KnowsSent(v)', KnowsSnaps(v)'
    PROVE  WatchInv'
<1> USE DEF GoesOn
<1>1. WatchTypes'
  BY DEF WatchInv, WatchTypes
<1>2. Timely'
  <2>1. \A i \in DOMAIN snaps' : snaps'[i].by <= now'
    BY DEF WatchInv, Timely, WatchTypes
  <2>2. \A u \in watches' : u.at % 2 = 0 /\ 2 <= u.at /\ u.at <= now
    BY DEF WatchInv, Timely
  <2>3. ASSUME NEW s \in watches', NEW u \in watches', s # u
        PROVE  s.at # u.at /\ Together(s.at, u.at)'
    <3>1. \A a, b : Together(a, b)' = Together(a, b)
      BY DEF Together
    <3>2. \A a, b \in watches : a # b => a.at # b.at /\ Together(a.at, b.at)
      BY DEF WatchInv, Timely
    <3>3. CASE s = v
      BY <2>3, <3>1, <3>2, <3>3
    <3>4. CASE u = v
      BY <2>3, <3>1, <3>2, <3>4
    <3>5. CASE s # v /\ u # v
      BY <2>3, <3>1, <3>2, <3>5
    <3> QED
      BY <3>3, <3>4, <3>5
  <2>4. /\ \A c \in Calls : call'[c].start = Never \/ call'[c].start <= now'
        /\ \A c \in Calls : call'[c].start = Never => call'[c].end = Never
        /\ \A c \in Calls : call'[c].end = Never \/ call'[c].end <= now'
    BY DEF WatchInv, Timely
  <2> QED
    BY <2>1, <2>2, <2>3, <2>4 DEF Timely
<1>3. SentIs'
  BY DEF WatchInv, SentIs, FromWindow
<1>4. \A u \in watches' : (Knows(u) /\ KnowsSent(u) /\ KnowsSnaps(u))'
  BY OthersKnow
<1>5. ToldOnce'
  BY DEF WatchInv, ToldOnce, Together
<1>6. \A at : Quiet(at)' => Quiet(at)
  BY DEF Quiet
<1>7. CallsRecorded'
  BY <1>6 DEF WatchInv, CallsRecorded, LastWatch
<1>8. LossesRecorded'
  <2>1. ~Quiet(w.at)'
    BY DEF Quiet
  <2>2. snaps \in Seq(Snapshot) /\ \A i \in 1..Len(snaps) - 1 : LossTold(i)
    BY LossesOneByOne DEF WatchInv, WatchTypes
  <2>3. \A a, b : Together(a, b)' = Together(a, b)
    BY DEF Together
  <2>4. ASSUME NEW i \in 1..Len(snaps) - 1, snaps'[i] = snaps[i], snaps'[i + 1] = snaps[i + 1]
        PROVE  LossTold(i)'
    BY <1>6, <2>2, <2>3, <2>4 DEF LossTold, LossIn, Alone
  <2>5. CASE snaps' = snaps
    BY <2>2, <2>4, <2>5, LossesOneByOne
  <2>6. CASE \E n \in Snapshot : snaps' = Append(snaps, n) /\ n.by = w.at
    <3>1. PICK n \in Snapshot : snaps' = Append(snaps, n) /\ n.by = w.at
      BY <2>6
    <3>2. ASSUME NEW i \in 1..Len(snaps') - 1
          PROVE  LossTold(i)'
      <4>1. CASE i = Len(snaps)
        <5>1. snaps'[i + 1].by = w.at
          BY <2>2, <3>1, <4>1
        <5> QED
          BY <2>1, <5>1 DEF LossTold
      <4>2. CASE i # Len(snaps)
        <5>1. i \in 1..Len(snaps) - 1 /\ snaps'[i] = snaps[i] /\ snaps'[i + 1] = snaps[i + 1]
          BY <2>2, <3>1, <4>2
        <5> QED
          BY <2>4, <5>1
      <4> QED
        BY <4>1, <4>2
    <3> QED
      BY <3>2, LossesOneByOne
  <2> QED
    BY <2>5, <2>6
<1> QED
  BY <1>1, <1>2, <1>3, <1>4, <1>5, <1>7, <1>8 DEF WatchInv

(* A watch that is over: it was cut short, or what it found is on record.       *)
LEMMA EndingKeeps ==
    ASSUME WatchInv, NEW w \in watches, watches' = watches \ {w},
           UNCHANGED <<now, call, rows, cleanups, snaps, recorded, blind, overlaps>>,
           cut \subseteq cut', cut' \subseteq Times,
           w.at \in cut' \/ (w.keys \subseteq recorded /\ "window" \notin w.left),
           SentIs', ToldOnce', \A u \in watches' : KnowsSent(u)'
    PROVE  WatchInv'
<1>1. WatchTypes'
  BY DEF WatchInv, WatchTypes
<1>2. Timely'
  <2>1. \A a, b : Together(a, b)' = Together(a, b)
    BY DEF Together
  <2> QED
    BY <2>1 DEF WatchInv, Timely
<1>3. \A u \in watches' : (Knows(u) /\ KnowsSnaps(u))'
  <2> TAKE u \in watches'
  <2>1. Knows(u) /\ KnowsSnaps(u)
    BY DEF WatchInv
  <2>2. Knows(u)'
    BY <2>1 DEF Knows, FromWindow, LastWatch, Announces
  <2>3. KnowsSnaps(u)'
    BY <2>1 DEF KnowsSnaps, Alone, Together, Last, LossIn
  <2> QED
    BY <2>2, <2>3
<1>4. \A at : Quiet(at)' => Quiet(at) \/ at = w.at
  BY DEF Quiet
<1>5. CallsRecorded'
  <2> SUFFICES ASSUME NEW c \in Calls, NEW at, at = LastWatch(c), call[c].end < at, at <= now,
                      Quiet(at)', at \notin cut'
               PROVE  \E key \in recorded : Announces(key, c)
    BY DEF CallsRecorded, LastWatch, Announces, Quiet
  <2>1. CASE Quiet(at)
    BY <2>1 DEF WatchInv, CallsRecorded, Announces
  <2>2. CASE at = w.at
    BY <2>2 DEF WatchInv, Knows
  <2> QED
    BY <1>4, <2>1, <2>2
<1>6. LossesRecorded'
  <2>1. \A i \in 1..Len(snaps) - 1 : LossTold(i) /\ i + 1 \in DOMAIN snaps
    BY LossesOneByOne DEF WatchInv, WatchTypes
  <2>2. \A a, b : Together(a, b)' = Together(a, b)
    BY DEF Together
  <2>3. ASSUME NEW i \in 1..Len(snaps) - 1
        PROVE  LossTold(i)'
    <3>1. CASE Quiet(snaps[i + 1].by)
      BY <2>1, <2>2, <3>1 DEF LossTold, LossIn, Alone
    <3>2. CASE snaps[i + 1].by = w.at
      <4>1. Sharp(snaps[i].count, snaps[i + 1].count) /\ Alone(w.at) /\ w.at \notin blind
                => LossIn(i, w.keys)
        BY <3>2 DEF WatchInv, KnowsSnaps
      <4> QED
        BY <2>2, <3>2, <4>1 DEF LossTold, LossIn, Alone
    <3>3. Quiet(snaps[i + 1].by)' => Quiet(snaps[i + 1].by) \/ snaps[i + 1].by = w.at
      BY <1>4
    <3> QED
      BY <3>1, <3>2, <3>3 DEF LossTold
  <2> QED
    BY <2>3, LossesOneByOne
<1> QED
  BY <1>1, <1>2, <1>3, <1>5, <1>6 DEF WatchInv

-----------------------------------------------------------------------------
(* What the rest of the system does.                                        *)
LEMMA CallStartsKeeps ==
    ASSUME WatchInv, NEW c \in Calls, CallStarts(c)
    PROVE  WatchInv'
<1> USE DEF CallStarts
<1>0. call \in [Calls -> [start : Times, end : Times]] /\ now \in Times /\ now < Never
      /\ call[c].start = Never /\ call[c].end = Never
  BY TimesAre DEF WatchInv, WatchTypes, Timely, Never, Calls
<1>1. /\ call' \in [Calls -> [start : Times, end : Times]]
      /\ call'[c].start = now /\ call'[c].end = Never
      /\ \A d \in Calls : d # c => call'[d] = call[d]
  BY <1>0
<1>2. WatchTypes'
  BY <1>1 DEF WatchInv, WatchTypes
<1>3. Timely'
  BY <1>0, <1>1, TimesAre DEF WatchInv, Timely, Together
<1>4. \A key, at : FromWindow(key, at) => FromWindow(key, at)'
  BY <1>0, <1>1 DEF FromWindow
<1>5. SentIs'
  BY <1>4 DEF WatchInv, SentIs
<1>6. \A d \in Calls, at \in Times : call'[d].end < at /\ at <= now =>
          d # c /\ LastWatch(d)' = LastWatch(d) /\ call'[d].end = call[d].end
  BY <1>0, <1>1, TimesAre DEF LastWatch
<1>7. \A w \in watches : Knows(w)'
  BY <1>4, <1>6 DEF WatchInv, WatchTypes, Watching, Timely, Knows, Announces
<1>8. \A w \in watches : KnowsSent(w)' /\ KnowsSnaps(w)'
  BY DEF WatchInv, KnowsSent, KnowsSnaps, Together, Alone, Last, LossIn
<1>9. ToldOnce'
  BY <1>0, <1>1, TimesAre DEF WatchInv, ToldOnce, Together, SentIs, FromWindow
<1>10. CallsRecorded' /\ LossesRecorded'
  <2>1. \A d \in Calls : LastWatch(d)' \in Nat /\ (d = c => LastWatch(d)' > now)
    BY <1>0, <1>1, TimesAre DEF LastWatch
  <2>2. ASSUME NEW d \in Calls, call'[d].end < LastWatch(d)', LastWatch(d)' <= now
        PROVE  d # c /\ call'[d] = call[d] /\ LastWatch(d)' = LastWatch(d)
    <3>1. d # c
      <4>1. now \in Nat
        BY <1>0, TimesAre
      <4> QED
        BY <2>1, <2>2, <4>1
    <3> QED
      BY <1>1, <3>1 DEF LastWatch
  <2>3. CallsRecorded'
    BY <2>2 DEF WatchInv, CallsRecorded, Quiet
  <2>4. LossesRecorded'
    BY DEF WatchInv, LossesRecorded, LossTold, LossIn, Alone, Quiet, Together
  <2> QED
    BY <2>3, <2>4
<1> QED
  BY <1>2, <1>3, <1>5, <1>7, <1>8, <1>9, <1>10 DEF WatchInv

LEMMA CallEndsKeeps ==
    ASSUME WatchInv, NEW c \in Calls, CallEnds(c)
    PROVE  WatchInv'
<1> USE DEF CallEnds
<1>0. call \in [Calls -> [start : Times, end : Times]] /\ now \in Times /\ now < Never
      /\ call[c].start # Never
  BY TimesAre DEF WatchInv, WatchTypes, Timely, Never
<1>1. /\ call' \in [Calls -> [start : Times, end : Times]]
      /\ call'[c].start = call[c].start /\ call'[c].end = now
      /\ \A d \in Calls : d # c => call'[d] = call[d]
  BY <1>0
<1>2. WatchTypes'
  BY <1>1 DEF WatchInv, WatchTypes
<1>3. Timely'
  BY <1>0, <1>1, TimesAre DEF WatchInv, Timely, Together
<1>4. \A d \in Calls : call'[d].start = call[d].start /\ LastWatch(d)' = LastWatch(d)
  BY <1>1 DEF LastWatch
<1>5. \A key, at : FromWindow(key, at) => FromWindow(key, at)'
  BY <1>4 DEF FromWindow
<1>6. SentIs'
  BY <1>5 DEF WatchInv, SentIs
<1>7. \A d \in Calls, at \in Times : call'[d].end < at /\ at <= now => call[d].end < at
  BY <1>0, <1>1, TimesAre
<1>8. \A w \in watches : Knows(w)'
  BY <1>4, <1>5, <1>7 DEF WatchInv, WatchTypes, Watching, Timely, Knows, Announces
<1>9. \A w \in watches : KnowsSent(w)' /\ KnowsSnaps(w)'
  BY DEF WatchInv, KnowsSent, KnowsSnaps, Together, Alone, Last, LossIn
<1>10. ToldOnce'
  BY <1>4 DEF WatchInv, ToldOnce, Together, SentIs, FromWindow
<1>11. CallsRecorded' /\ LossesRecorded'
  <2>1. \A d \in Calls : LastWatch(d) \in Nat
    BY <1>0, TimesAre DEF LastWatch
  <2>2. \A d \in Calls : call'[d].end < LastWatch(d) /\ LastWatch(d) <= now => call[d].end < LastWatch(d)
    BY <1>0, <1>1, <2>1, TimesAre
  <2> QED
    BY <1>4, <2>2 DEF WatchInv, CallsRecorded, LossesRecorded, LossTold, LossIn, Alone, Quiet, Together,
                       Announces
<1> QED
  BY <1>2, <1>3, <1>6, <1>8, <1>9, <1>10, <1>11 DEF WatchInv

(* Nobody's knowledge is about the rows and the cleanups.                      *)
LEMMA RowsKeep ==
    ASSUME WatchInv, NEW n \in 0..MaxRows, RowsGoneTo(n)
    PROVE  WatchInv'
<1> USE DEF RowsGoneTo
<1>1. WatchTypes'
  BY TimesAre DEF WatchInv, WatchTypes
<1>2. Timely' /\ SentIs'
  BY DEF WatchInv, Timely, SentIs, FromWindow, Together
<1>3. \A w \in watches : Knows(w)' /\ KnowsSent(w)' /\ KnowsSnaps(w)'
  BY DEF WatchInv, Knows, FromWindow, LastWatch, Announces, KnowsSent, KnowsSnaps, Together,
         Alone, Last, LossIn
<1>4. ToldOnce' /\ CallsRecorded' /\ LossesRecorded'
  BY DEF WatchInv, ToldOnce, CallsRecorded, LossesRecorded, LossTold, LossIn, Alone, Together,
         Quiet, LastWatch, Announces
<1> QED
  BY <1>1, <1>2, <1>3, <1>4 DEF WatchInv

(* The timer.                                                               *)
LEMMA TickKeeps ==
    ASSUME WatchInv, Tick
    PROVE  WatchInv'
<1>0. now \in Nat /\ now' = now + 1 /\ now' \in Times /\ now' >= 1 /\ now' <= Horizon
  BY TimesAre DEF WatchInv, WatchTypes, Tick
<1>a. PICK new \in Watching : new = Watch(now')
  BY <1>0, WatchIsTyped
<1>1. /\ new.at = now' /\ new.phase = "read" /\ new.keys = {}
      /\ new.announced = {} /\ new.left = {"window", "announced"}
  BY <1>a DEF Watch
<1>2. /\ \/ watches' = watches /\ overlaps' = overlaps
         \/ /\ watches' = watches \cup {new} /\ now' % 2 = 0
            /\ overlaps' = overlaps \cup {<<w.at, now'>> : w \in watches}
      /\ cut \subseteq cut' /\ cut' \subseteq Times
      /\ now' % 2 = 0 => new \in watches' \/ now' \in cut'
  <2>1. CASE now' % 2 = 1 /\ UNCHANGED <<watches, overlaps, cut>>
    BY <2>1 DEF WatchInv, WatchTypes
  <2>2. CASE /\ now' % 2 = 0
             /\ watches' = watches \cup {Watch(now')}
             /\ overlaps' = overlaps \cup {<<w.at, now'>> : w \in watches}
             /\ UNCHANGED cut
    BY <1>a, <2>2 DEF WatchInv, WatchTypes
  <2>3. CASE now' % 2 = 0 /\ cut' = cut \cup {now'} /\ UNCHANGED <<watches, overlaps>>
    BY <1>0, <2>3 DEF WatchInv, WatchTypes
  <2> QED
    BY <2>1, <2>2, <2>3 DEF Tick
<1>3. UNCHANGED <<call, rows, cleanups, snaps, recorded, sent, blind>>
  BY DEF Tick
<1>4. \A a, b : Together(a, b) => Together(a, b)'
  BY <1>2 DEF Together
<1>5. WatchTypes'
  BY <1>0, <1>1, <1>2, <1>3 DEF WatchInv, WatchTypes
<1>6. Timely'
  <2>1. \A w \in watches' : w.at % 2 = 0 /\ 2 <= w.at /\ w.at <= now'
    <3>1. \A w \in watches : w.at \in Nat /\ w.at % 2 = 0 /\ 2 <= w.at /\ w.at <= now
      BY TimesAre DEF WatchInv, Timely, WatchTypes, Watching
    <3>2. now' % 2 = 0 => 2 <= now'
      BY <1>0
    <3> QED
      BY <1>0, <1>1, <1>2, <3>1, <3>2
  <2>2. \A w \in watches : w.at # now' /\ w.at \in Nat
    <3>1. \A w \in watches : w.at \in Nat /\ w.at <= now
      BY TimesAre DEF WatchInv, Timely, WatchTypes, Watching
    <3> QED
      BY <1>0, <3>1
  <2>3. \A v, w \in watches : v # w => v.at # w.at /\ Together(v.at, w.at)'
    BY <1>4 DEF WatchInv, Timely
  <2>4. ASSUME NEW v \in watches', NEW w \in watches', v # w
        PROVE  v.at # w.at /\ Together(v.at, w.at)'
    <3>1. CASE v \in watches /\ w \in watches
      BY <2>3, <2>4, <3>1
    <3>2. CASE v \in watches /\ w = new /\ new \notin watches
      BY <1>1, <1>2, <2>2, <2>4, <3>2 DEF Together
    <3>3. CASE w \in watches /\ v = new /\ new \notin watches
      BY <1>1, <1>2, <2>2, <2>4, <3>3 DEF Together
    <3> QED
      BY <1>2, <2>4, <3>1, <3>2, <3>3
  <2>5. /\ \A c \in Calls : call'[c].start = Never \/ call'[c].start <= now'
        /\ \A c \in Calls : call'[c].start = Never => call'[c].end = Never
        /\ \A c \in Calls : call'[c].end = Never \/ call'[c].end <= now'
        /\ \A i \in DOMAIN snaps' : snaps'[i].by <= now'
    <3>1. \A c \in Calls : call[c].start \in Nat /\ call[c].end \in Nat
      BY TimesAre DEF WatchInv, WatchTypes
    <3>2. \A i \in DOMAIN snaps : snaps[i].by \in Nat /\ snaps[i].by <= now
      <4>1. \A i \in DOMAIN snaps : snaps[i] \in Snapshot
        BY DEF WatchInv, WatchTypes
      <4> QED
        BY <4>1, TimesAre DEF WatchInv, Timely, Snapshot
    <3> QED
      BY <1>0, <1>3, <3>1, <3>2 DEF WatchInv, Timely
  <2> QED
    BY <2>1, <2>4, <2>5 DEF Timely
<1>7. SentIs'
  <2> SUFFICES ASSUME NEW s \in sent
               PROVE  /\ s[1] \in Times /\ s[1] % 2 = 0 /\ s[1] <= now'
                      /\ s[2] \in recorded
                      /\ FromWindow(s[2], s[1])'
    BY <1>3 DEF SentIs
  <2>1. /\ s[1] \in Times /\ s[1] % 2 = 0 /\ s[1] <= now
        /\ s[2] \in recorded
        /\ FromWindow(s[2], s[1])
    BY DEF WatchInv, SentIs
  <2>2. s[1] <= now'
    <3>1. s[1] \in Nat
      BY <2>1, TimesAre
    <3> QED
      BY <1>0, <1>3, <2>1, <3>1
  <2>3. FromWindow(s[2], s[1])'
    BY <1>3, <2>1 DEF FromWindow
  <2> QED
    BY <1>3, <2>1, <2>2, <2>3
<1>8. ASSUME NEW w \in watches
      PROVE  Knows(w)' /\ KnowsSent(w)' /\ KnowsSnaps(w)'
  <2>1. Knows(w)'
    BY <1>3 DEF WatchInv, Knows, FromWindow, LastWatch, Announces
  <2>2. KnowsSent(w)'
    BY <1>3, <1>4 DEF WatchInv, KnowsSent
  <2>3. KnowsSnaps(w)'
    BY <1>3, <1>4 DEF WatchInv, KnowsSnaps, Alone, Last, LossIn
  <2> QED
    BY <2>1, <2>2, <2>3
<1>9. Knows(new)' /\ KnowsSent(new)' /\ KnowsSnaps(new)'
  <2>1. Knows(new)'
    BY <1>1 DEF Knows
  <2>2. KnowsSent(new)'
    <3>1. \A s \in sent : s[1] \in Nat /\ s[1] <= now
      BY TimesAre DEF WatchInv, SentIs
    <3> QED
      BY <1>0, <1>1, <1>3, <3>1 DEF KnowsSent
  <2>3. KnowsSnaps(new)'
    <3>1. \A i \in DOMAIN snaps :
              snaps[i].by # now' /\ \A j \in 1..Len(snaps) - 1 : j + 1 \in DOMAIN snaps
      BY <1>0, TimesAre DEF WatchInv, Timely, WatchTypes, Snapshot
    <3>2. \A i \in DOMAIN snaps : i + 1 \in DOMAIN snaps => snaps[i + 1].by # now'
      BY <3>1
    <3>3. \A i \in 1..Len(snaps) - 1 : snaps[i + 1].by # now'
      BY <3>1, <3>2 DEF WatchInv, WatchTypes
    <3> QED
      BY <1>1, <1>3, <3>1, <3>3 DEF KnowsSnaps
  <2> QED
    BY <2>1, <2>2, <2>3
<1>10. ToldOnce'
  BY <1>3, <1>4 DEF WatchInv, ToldOnce
<1>11. \A at : at # now' /\ Quiet(at)' => Quiet(at)
  BY <1>2 DEF Quiet
<1>12. CallsRecorded'
  <2> SUFFICES ASSUME NEW c \in Calls, NEW at, at = LastWatch(c), call[c].end < at, at <= now',
                      Quiet(at)', at \notin cut'
               PROVE  \E key \in recorded : Announces(key, c)
    BY <1>3 DEF CallsRecorded, LastWatch, Announces, Quiet
  <2>1. at \in Nat /\ at % 2 = 0
    <3>1. call[c].start \in Nat
      BY TimesAre DEF WatchInv, WatchTypes
    <3> QED
      BY <3>1 DEF LastWatch
  <2>2. at # now'
    BY <1>1, <1>2, <2>1 DEF Quiet
  <2> QED
    BY <1>0, <1>2, <1>11, <2>1, <2>2 DEF WatchInv, CallsRecorded, Announces
<1>13. LossesRecorded'
  <2>1. \A i \in 1..Len(snaps) - 1 : LossTold(i) /\ i + 1 \in DOMAIN snaps
    BY LossesOneByOne DEF WatchInv, WatchTypes
  <2>2. \A i \in DOMAIN snaps : snaps[i].by # now'
    BY <1>0, TimesAre DEF WatchInv, Timely, WatchTypes, Snapshot
  <2>3. \A i \in 1..Len(snaps) - 1 : LossTold(i)'
    <3> TAKE i \in 1..Len(snaps) - 1
    <3>1. LossTold(i) /\ snaps[i + 1].by # now'
      BY <2>1, <2>2
    <3> QED
      BY <1>2, <1>3, <1>4, <1>11, <3>1 DEF LossTold, LossIn, Alone
  <2> QED
    BY <1>3, <2>3, LossesOneByOne
<1>14. \A w \in watches' : w \in watches \/ w = new
  BY <1>2
<1> QED
  BY <1>5, <1>6, <1>7, <1>8, <1>9, <1>10, <1>12, <1>13, <1>14 DEF WatchInv

-----------------------------------------------------------------------------
(* The steps of a watch.                                                    *)
LEMMA WatchIs ==
    ASSUME WatchInv, NEW w \in watches
    PROVE  /\ WatchTypes /\ w \in Watching /\ w.at \in Nat
           /\ Knows(w) /\ KnowsSent(w) /\ KnowsSnaps(w)
BY TimesAre DEF WatchInv, WatchTypes, Watching

(* A watch that enters another phase with what it has read.                    *)
LEMMA PhaseIsTyped ==
    ASSUME NEW w \in Watching, NEW phase \in Phases
    PROVE  \E v \in Watching : /\ v = [w EXCEPT !.phase = phase]
                              /\ v.at = w.at /\ v.announced = w.announced /\ v.keys = w.keys
                              /\ v.left = w.left /\ v.phase = phase
<1> DEFINE x == [w EXCEPT !.phase = phase]
<1>1. x \in Watching /\ x.at = w.at /\ x.announced = w.announced /\ x.keys = w.keys
      /\ x.left = w.left /\ x.phase = phase
  BY DEF Watching
<1> QED
  BY <1>1

LEMMA ReadWindowKeeps ==
    ASSUME WatchInv, NEW w \in watches, ReadWindow(w)
    PROVE  WatchInv'
<1> DEFINE after == IF w.left # {"window"} THEN "read" ELSE IF MaxRows = 0 THEN "record" ELSE "compare"
<1>0. /\ WatchTypes /\ w \in Watching /\ w.at \in Nat /\ w.phase = "read" /\ "window" \in w.left
      /\ Knows(w) /\ KnowsSent(w) /\ KnowsSnaps(w)
  BY WatchIs DEF ReadWindow
<1>1. PICK v \in Watching : /\ v = [Done(w, "window") EXCEPT !.keys = Findings(w)]
                            /\ v.at = w.at /\ v.announced = w.announced
                            /\ v.keys = Findings(w) /\ v.left = w.left \ {"window"}
                            /\ v.phase = after
  <2>1. Done(w, "window") = [w EXCEPT !.left = @ \ {"window"}, !.phase = after]
    BY DEF Done
  <2>2. after \in Phases
    BY DEF Phases
  <2>3. Findings(w) \in SUBSET Keys
    BY FindingsAreKeys
  <2> DEFINE u == [w EXCEPT !.left = @ \ {"window"}, !.phase = after]
             x == [u EXCEPT !.keys = Findings(w)]
  <2> HIDE DEF after
  <2>4. u \in Watching /\ u.at = w.at /\ u.announced = w.announced /\ u.keys = w.keys
        /\ u.left = w.left \ {"window"} /\ u.phase = after
    BY <1>0, <2>2 DEF Watching
  <2> HIDE DEF u
  <2>5. x \in Watching /\ x.at = u.at /\ x.announced = u.announced /\ x.keys = Findings(w)
        /\ x.left = u.left /\ x.phase = u.phase
    BY <2>3, <2>4 DEF Watching
  <2> USE DEF u
  <2> QED
    BY <2>1, <2>4, <2>5
<1>2. GoesOn(w, v) /\ UNCHANGED <<now, call, rows, cleanups, snaps, recorded, sent, cut, blind, overlaps>>
  BY <1>1 DEF ReadWindow
<1>3. Knows(v)'
  <2>1. v.phase # "read" => v.left = {}
    BY <1>1
  <2>2. v.phase # "send" /\ v.announced \subseteq recorded
    BY <1>0, <1>1 DEF Knows
  <2>3. \A key \in v.keys : FromWindow(key, v.at)
    <3> SUFFICES ASSUME NEW c \in InWindow(w)
                 PROVE  c \in Calls /\ call[c].start # Never /\ call[c].start + 3 >= w.at
      BY <1>1 DEF Findings, FromWindow, Paid
    <3>1. c \in Calls /\ call[c].end # Never /\ call[c].start >= Since(w) /\ call[c].start \in Nat
      BY <1>0, TimesAre DEF InWindow, WatchTypes
    <3> QED
      BY <1>0, <3>1 DEF WatchInv, Timely, Since
  <2>4. ASSUME NEW c \in Calls, LastWatch(c) = v.at, call[c].end < v.at
        PROVE  \E key \in v.keys : Announces(key, c)
    <3>1. call[c].start \in Nat /\ call[c].end \in Nat
      BY <1>0, TimesAre DEF WatchTypes
    <3>2. w.at <= now /\ now < Never /\ now \in Nat
      BY <1>0 DEF WatchInv, Timely, WatchTypes, Never
    <3>3. call[c].end # Never /\ call[c].start >= Since(w)
      BY <1>0, <1>1, <2>4, <3>1, <3>2 DEF LastWatch, Since, Never
    <3>4. c \in InWindow(w)
      BY <3>3 DEF InWindow
    <3>5. Paid(InWindow(w)) \in v.keys
      BY <1>1, <3>4 DEF Findings
    <3> QED
      BY <3>4, <3>5 DEF Paid, Announces
  <2> QED
    BY <1>2, <2>1, <2>2, <2>3, <2>4 DEF Knows, FromWindow, LastWatch
<1>4. KnowsSent(v)'
  BY <1>0, <1>1, <1>2 DEF KnowsSent, Together
<1>5. KnowsSnaps(v)'
  <2>1. v.phase # "store" /\ \A i \in DOMAIN snaps : snaps[i].by # v.at
    BY <1>0, <1>1 DEF KnowsSnaps
  <2>2. \A i \in 1..Len(snaps) - 1 : i + 1 \in DOMAIN snaps
    BY <1>0 DEF WatchTypes
  <2> QED
    BY <1>2, <2>1, <2>2 DEF KnowsSnaps
<1> QED
  BY <1>0, <1>1, <1>2, <1>3, <1>4, <1>5, GoingOnKeeps DEF WatchTypes

LEMMA ReadAnnouncedKeeps ==
    ASSUME WatchInv, NEW w \in watches, ReadAnnounced(w)
    PROVE  WatchInv'
<1> DEFINE after == IF w.left # {"announced"} THEN "read" ELSE IF MaxRows = 0 THEN "record" ELSE "compare"
<1>0. /\ WatchTypes /\ w \in Watching /\ w.at \in Nat /\ w.phase = "read" /\ "announced" \in w.left
      /\ Knows(w) /\ KnowsSent(w) /\ KnowsSnaps(w)
  BY WatchIs DEF ReadAnnounced
<1>1. PICK v \in Watching : /\ v = [Done(w, "announced") EXCEPT !.announced = recorded]
                            /\ v.at = w.at /\ v.announced = recorded
                            /\ v.keys = w.keys /\ v.left = w.left \ {"announced"}
                            /\ v.phase = after
  <2>1. Done(w, "announced") = [w EXCEPT !.left = @ \ {"announced"}, !.phase = after]
    BY DEF Done
  <2>2. after \in Phases
    BY DEF Phases
  <2>3. recorded \in SUBSET Keys
    BY <1>0 DEF WatchTypes
  <2> DEFINE u == [w EXCEPT !.left = @ \ {"announced"}, !.phase = after]
             x == [u EXCEPT !.announced = recorded]
  <2> HIDE DEF after
  <2>4. u \in Watching /\ u.at = w.at /\ u.announced = w.announced /\ u.keys = w.keys
        /\ u.left = w.left \ {"announced"} /\ u.phase = after
    BY <1>0, <2>2 DEF Watching
  <2> HIDE DEF u
  <2>5. x \in Watching /\ x.at = u.at /\ x.keys = u.keys /\ x.announced = recorded
        /\ x.left = u.left /\ x.phase = u.phase
    BY <2>3, <2>4 DEF Watching
  <2> USE DEF u
  <2> QED
    BY <2>1, <2>4, <2>5
<1>2. GoesOn(w, v) /\ UNCHANGED <<now, call, rows, cleanups, snaps, recorded, sent, cut, blind, overlaps>>
  BY <1>1 DEF ReadAnnounced
<1>3. Knows(v)'
  BY <1>0, <1>1, <1>2 DEF Knows, FromWindow, LastWatch, Announces
<1>4. KnowsSent(v)'
  BY <1>0, <1>1, <1>2 DEF KnowsSent, Together, WatchInv, SentIs
<1>5. KnowsSnaps(v)'
  <2>1. v.phase # "store" /\ \A i \in DOMAIN snaps : snaps[i].by # v.at
    BY <1>0, <1>1 DEF KnowsSnaps
  <2>2. \A i \in 1..Len(snaps) - 1 : i + 1 \in DOMAIN snaps
    BY <1>0 DEF WatchTypes
  <2> QED
    BY <1>2, <2>1, <2>2 DEF KnowsSnaps
<1> QED
  BY <1>0, <1>1, <1>2, <1>3, <1>4, <1>5, GoingOnKeeps DEF WatchTypes

LEMMA CountKeeps ==
    ASSUME WatchInv, NEW w \in watches, Count(w)
    PROVE  WatchInv'
<1>0. /\ WatchTypes /\ w \in Watching /\ w.at \in Nat /\ w.phase = "compare"
      /\ Knows(w) /\ KnowsSent(w) /\ KnowsSnaps(w)
  BY WatchIs DEF Count
<1>1. PICK count \in {rows, Unknown}, before \in {Last, NoSnap} :
          /\ GoesOn(w, [w EXCEPT !.phase = "store", !.before = before, !.count = count])
          /\ blind' = IF before = Last THEN blind ELSE blind \cup {w.at}
  BY DEF Count
<1>2. PICK v \in Watching : /\ v = [w EXCEPT !.phase = "store", !.before = before, !.count = count]
                            /\ v.at = w.at /\ v.announced = w.announced /\ v.keys = w.keys
                            /\ v.left = w.left /\ v.phase = "store" /\ v.before = before
  <2>1. count \in 0..Unknown /\ "store" \in Phases
    BY <1>0 DEF WatchTypes, Unknown, Phases
  <2> QED
    <3> DEFINE x == [w EXCEPT !.phase = "store", !.before = before, !.count = count]
    <3>1. before \in Snapshot /\ w \in Watching
      BY <1>0, LastIsTyped, TimesAre DEF NoSnap, Snapshot, Unknown
    <3>2. x \in Watching /\ x.at = w.at /\ x.announced = w.announced /\ x.keys = w.keys
          /\ x.left = w.left /\ x.phase = "store" /\ x.before = before
      BY <2>1, <3>1 DEF Watching
    <3> QED
      BY <3>2
<1>3. /\ GoesOn(w, v) /\ UNCHANGED <<now, call, rows, cleanups, snaps, recorded, sent, cut, overlaps>>
      /\ blind \subseteq blind' /\ blind' \subseteq Times
      /\ v.at \notin blind' => v.before = Last
  BY <1>0, <1>1, <1>2 DEF Count, WatchTypes, Watching
<1>4. Knows(v)'
  BY <1>0, <1>2, <1>3 DEF Knows, FromWindow, LastWatch, Announces
<1>5. KnowsSent(v)'
  BY <1>0, <1>2, <1>3 DEF KnowsSent, Together
<1>6. KnowsSnaps(v)'
  <2>1. \A i \in DOMAIN snaps : snaps[i].by # v.at
    BY <1>0, <1>2 DEF KnowsSnaps
  <2>2. \A i \in 1..Len(snaps) - 1 : i + 1 \in DOMAIN snaps
    BY <1>0 DEF WatchTypes
  <2> QED
    BY <1>2, <1>3, <2>1, <2>2 DEF KnowsSnaps, Last
<1> QED
  BY <1>0, <1>2, <1>3, <1>4, <1>5, <1>6, GoingOnKeeps DEF WatchTypes

LEMMA CompareKeeps ==
    ASSUME WatchInv, NEW w \in watches, Compare(w)
    PROVE  WatchInv'
<1>0. /\ WatchTypes /\ w \in Watching /\ w.at \in Nat /\ w.phase = "store"
      /\ Knows(w) /\ KnowsSent(w) /\ KnowsSnaps(w)
  BY WatchIs DEF Compare
<1>a. PICK bulk \in {Deleted(w, w.before), {}} :
          LET f == Integrity(w.before, w.count, bulk) IN
          /\ GoesOn(w, [w EXCEPT !.keys = @ \cup f, !.phase = "record"])
          /\ \/ snaps' = Append(snaps, [count |-> w.count, at |-> now, by |-> w.at])
             \/ UNCHANGED snaps
  BY DEF Compare
<1>b. bulk \in SUBSET Times
  BY <1>0 DEF Deleted, WatchTypes
<1>1. PICK found : found = Integrity(w.before, w.count, bulk)
  OBVIOUS
<1>2. found \subseteq Keys /\ \A key \in found : key[1] # "paid"
  BY <1>0, <1>1, <1>b, IntegrityIsKeys DEF Watching
<1>3. PICK v \in Watching : /\ v = [w EXCEPT !.keys = @ \cup found, !.phase = "record"]
                            /\ v.at = w.at /\ v.announced = w.announced
                            /\ v.keys = w.keys \cup found
                            /\ v.left = w.left /\ v.phase = "record"
  <2> DEFINE x == [w EXCEPT !.keys = @ \cup found, !.phase = "record"]
  <2>1. "record" \in Phases /\ w.keys \cup found \in SUBSET Keys
    BY <1>0, <1>2 DEF Phases, Watching
  <2>2. x \in Watching /\ x.at = w.at /\ x.announced = w.announced /\ x.keys = w.keys \cup found
        /\ x.left = w.left /\ x.phase = "record"
    BY <1>0, <2>1 DEF Watching
  <2> QED
    BY <2>2
<1>4. GoesOn(w, v) /\ UNCHANGED <<now, call, rows, cleanups, recorded, sent, cut, blind, overlaps>>
  BY <1>1, <1>3, <1>a DEF Compare
<1>5. PICK n \in Snapshot : n = [count |-> w.count, at |-> now, by |-> w.at]
  BY <1>0, TimesAre DEF Watching, Snapshot, WatchTypes
<1>6. snaps' = snaps \/ (snaps' = Append(snaps, n) /\ n.by = w.at /\ n.count = w.count)
  BY <1>a, <1>5
<1>7. Knows(v)'
  <2>1. \A key \in found : FromWindow(key, v.at)
    BY <1>2 DEF FromWindow
  <2> QED
    BY <1>0, <1>3, <1>4, <2>1 DEF Knows, FromWindow, LastWatch, Announces
<1>8. KnowsSent(v)'
  BY <1>0, <1>3, <1>4 DEF KnowsSent, Together
<1>9. KnowsSnaps(v)'
  <2>1. \A i \in DOMAIN snaps : snaps[i].by # v.at
    BY <1>0, <1>3 DEF KnowsSnaps
  <2>2. Alone(v.at)' = Alone(v.at)
    BY <1>4 DEF Alone, Together
  <2>3. ASSUME NEW i \in 1..Len(snaps') - 1, snaps'[i + 1].by = v.at, Alone(v.at), v.at \notin blind,
               Sharp(snaps'[i].count, snaps'[i + 1].count)
        PROVE  LossIn(i, v.keys)'
    <3>1. snaps \in Seq(Snapshot) /\ Len(snaps) \in Nat
      BY <1>0 DEF WatchTypes
    <3>2. snaps' = Append(snaps, n) /\ i = Len(snaps) /\ snaps # <<>>
      <4>1. snaps' # snaps
        BY <2>1, <2>3, <3>1
      <4>2. i <= Len(snaps) /\ (i < Len(snaps) => snaps'[i + 1] = snaps[i + 1])
        BY <1>6, <3>1, <4>1
      <4> QED
        BY <1>6, <2>1, <2>3, <3>1, <4>1, <4>2
    <3>3. snaps'[i] = w.before /\ snaps'[i + 1].count = w.count
      BY <1>0, <1>3, <1>6, <2>3, <3>1, <3>2 DEF KnowsSnaps, Last
    <3>4. Loss(w.before.count, w.count) \in found \/ Cleanup(w.before.count, w.count) \in found
      BY <1>1, <2>3, <3>3 DEF Integrity
    <3> QED
      BY <1>3, <3>3, <3>4 DEF LossIn
  <2> QED
    BY <1>3, <1>4, <2>2, <2>3 DEF KnowsSnaps
<1> QED
  BY <1>0, <1>3, <1>4, <1>6, <1>7, <1>8, <1>9, GoingOnKeeps DEF WatchTypes

LEMMA SkipCompareKeeps ==
    ASSUME WatchInv, NEW w \in watches, SkipCompare(w)
    PROVE  WatchInv'
<1>0. /\ WatchTypes /\ w \in Watching /\ w.at \in Nat /\ w.phase \in {"compare", "store"}
      /\ Knows(w) /\ KnowsSent(w) /\ KnowsSnaps(w)
  BY WatchIs DEF SkipCompare
<1>1. PICK v \in Watching : /\ v = [w EXCEPT !.phase = "record"]
                            /\ v.at = w.at /\ v.announced = w.announced /\ v.keys = w.keys
                            /\ v.left = w.left /\ v.phase = "record"
  <2>1. "record" \in Phases
    BY DEF Phases
  <2> QED
    BY <1>0, <2>1, PhaseIsTyped
<1>2. GoesOn(w, v) /\ UNCHANGED <<now, call, rows, cleanups, snaps, recorded, sent, cut, blind, overlaps>>
  BY <1>1 DEF SkipCompare
<1>3. Knows(v)'
  BY <1>0, <1>1, <1>2 DEF Knows, FromWindow, LastWatch, Announces
<1>4. KnowsSent(v)'
  BY <1>0, <1>1, <1>2 DEF KnowsSent, Together
<1>5. KnowsSnaps(v)'
  <2>1. \A i \in DOMAIN snaps : snaps[i].by # v.at
    BY <1>0, <1>1 DEF KnowsSnaps
  <2>2. \A i \in 1..Len(snaps) - 1 : i + 1 \in DOMAIN snaps
    BY <1>0 DEF WatchTypes
  <2> QED
    BY <1>1, <1>2, <2>1, <2>2 DEF KnowsSnaps
<1> QED
  BY <1>0, <1>1, <1>2, <1>3, <1>4, <1>5, GoingOnKeeps DEF WatchTypes

LEMMA RecordKeeps ==
    ASSUME WatchInv, NEW w \in watches, Record(w)
    PROVE  WatchInv'
<1>0. /\ WatchTypes /\ w \in Watching /\ w.at \in Nat /\ w.phase = "record" /\ w.left = {}
      /\ Knows(w) /\ KnowsSent(w) /\ KnowsSnaps(w)
  BY WatchIs DEF Record, Knows
<1>1. CASE New(w) = {} /\ watches' = watches \ {w} /\ UNCHANGED recorded
  <2>1. UNCHANGED <<now, call, rows, cleanups, snaps, recorded, sent, cut, blind, overlaps>>
    BY <1>1 DEF Record
  <2>2. w.keys \subseteq recorded
    BY <1>0, <1>1 DEF New, Knows
  <2>3. SentIs' /\ ToldOnce'
    BY <2>1 DEF WatchInv, SentIs, FromWindow, ToldOnce, Together
  <2>4. \A u \in watches' : KnowsSent(u)'
    BY <1>1, <2>1 DEF WatchInv, KnowsSent, Together
  <2>5. cut' \subseteq Times
    BY <1>0, <2>1 DEF WatchTypes
  <2> QED
    BY <1>0, <1>1, <2>1, <2>2, <2>3, <2>4, <2>5, EndingKeeps
<1>2. CASE /\ recorded' = recorded \cup New(w)
           /\ GoesOn(w, [w EXCEPT !.phase = "send"])
  <2>1. PICK v \in Watching : /\ v = [w EXCEPT !.phase = "send"]
                              /\ v.at = w.at /\ v.announced = w.announced /\ v.keys = w.keys
                              /\ v.left = w.left /\ v.phase = "send"
    <3>1. "send" \in Phases
      BY DEF Phases
    <3> QED
      BY <1>0, <3>1, PhaseIsTyped
  <2>2. GoesOn(w, v) /\ UNCHANGED <<now, call, rows, cleanups, snaps, sent, cut, blind, overlaps>>
    BY <1>2, <2>1 DEF Record
  <2>3. Knows(v)'
    BY <1>0, <1>2, <2>1, <2>2 DEF Knows, FromWindow, LastWatch, Announces, New
  <2>4. KnowsSent(v)'
    BY <1>0, <2>1, <2>2 DEF KnowsSent, Together
  <2>5. KnowsSnaps(v)'
    BY <1>0, <2>1, <2>2 DEF KnowsSnaps, Alone, Together, LossIn
  <2>6. recorded' \subseteq Keys /\ cut' \subseteq Times /\ blind' \subseteq Times
    BY <1>0, <1>2, <2>2 DEF WatchTypes, Watching, New
  <2> QED
    BY <1>0, <1>2, <2>1, <2>2, <2>3, <2>4, <2>5, <2>6, GoingOnKeeps
<1> QED
  BY <1>1, <1>2 DEF Record

LEMMA AlertKeeps ==
    ASSUME WatchInv, NEW w \in watches, Alert(w)
    PROVE  WatchInv'
<1>0. /\ WatchTypes /\ w \in Watching /\ w.at \in Nat /\ w.phase = "send" /\ w.left = {}
      /\ Knows(w) /\ KnowsSent(w) /\ KnowsSnaps(w)
      /\ w.at % 2 = 0 /\ w.at <= now /\ w.at \in Times
  BY WatchIs DEF Alert, Knows, WatchInv, Timely, Watching
<1>1. /\ watches' = watches \ {w} /\ sent' = sent \cup ({w.at} \X New(w))
      /\ UNCHANGED <<now, call, rows, cleanups, snaps, recorded, cut, blind, overlaps>>
  BY DEF Alert
<1>2. \A s \in sent' : s \in sent \/ (s[1] = w.at /\ s[2] \in w.keys /\ s[2] \notin w.announced)
  BY <1>1 DEF New
<1>3. w.keys \subseteq recorded
  BY <1>0 DEF Knows
<1>4. SentIs'
  <2> SUFFICES ASSUME NEW s \in sent'
               PROVE  /\ s[1] \in Times /\ s[1] % 2 = 0 /\ s[1] <= now
                      /\ s[2] \in recorded
                      /\ FromWindow(s[2], s[1])
    BY <1>1 DEF SentIs, FromWindow
  <2>1. CASE s \in sent
    BY <2>1 DEF WatchInv, SentIs
  <2>2. CASE s[1] = w.at /\ s[2] \in w.keys
    BY <1>0, <1>3, <2>2 DEF Knows
  <2> QED
    BY <1>2, <2>1, <2>2
<1>5. ToldOnce'
  <2> SUFFICES ASSUME NEW s \in sent', NEW r \in sent', s[1] < r[1], ~Together(s[1], r[1])
               PROVE  /\ s[2] # r[2]
                      /\ s[2][1] = "paid" /\ r[2][1] = "paid" =>
                             \A c \in s[2][2] \cap r[2][2] : call[c].start + 1 >= s[1]
    BY <1>1 DEF ToldOnce, Together
  <2>1. CASE s \in sent /\ r \in sent
    BY <2>1 DEF WatchInv, ToldOnce
  <2>2. CASE s \in sent /\ r[1] = w.at /\ r[2] \in w.keys /\ r[2] \notin w.announced
    <3>1. s[2] \in w.announced
      BY <1>0, <2>2 DEF KnowsSent
    <3>2. ASSUME NEW c, c \in r[2][2], r[2][1] = "paid"
          PROVE  call[c].start + 1 >= s[1]
      <4>1. c \in Calls /\ call[c].start + 3 >= w.at
        BY <1>0, <2>2, <3>2 DEF Knows, FromWindow
      <4>2. call[c].start \in Nat
        BY <1>0, <4>1, TimesAre DEF WatchTypes
      <4>3. s[1] \in Nat /\ s[1] % 2 = 0 /\ s[1] < w.at
        BY <2>2, TimesAre DEF WatchInv, SentIs
      <4>4. s[1] + 2 <= w.at
        BY <1>0, <4>3
      <4> QED
        BY <1>0, <4>1, <4>2, <4>3, <4>4
    <3> QED
      BY <2>2, <3>1, <3>2
  <2>3. CASE s[1] = w.at /\ r \in sent
    BY <1>0, <2>3 DEF KnowsSent, Together
  <2>4. CASE s[1] = w.at /\ r[1] = w.at
    BY <1>0, <2>4
  <2> QED
    BY <1>2, <2>1, <2>2, <2>3, <2>4
<1>6. ASSUME NEW u \in watches'
      PROVE  KnowsSent(u)'
  <2>1. u \in watches /\ KnowsSent(u) /\ u.at # w.at /\ Together(w.at, u.at) /\ u.at \in Nat
    BY <1>1, WatchIs DEF WatchInv, Timely
  <2>2. \A a, b : Together(a, b)' = Together(a, b)
    BY <1>1 DEF Together
  <2> SUFFICES ASSUME NEW s \in sent'
               PROVE  /\ s[1] # u.at
                      /\ s[1] > u.at => Together(s[1], u.at)
                      /\ s[1] < u.at /\ "announced" \notin u.left
                            => Together(s[1], u.at) \/ s[2] \in u.announced
    BY <2>2 DEF KnowsSent
  <2> QED
    BY <1>2, <2>1 DEF KnowsSent
<1>7. cut' \subseteq Times
  BY <1>0, <1>1 DEF WatchTypes
<1> QED
  BY <1>0, <1>1, <1>3, <1>4, <1>5, <1>6, <1>7, EndingKeeps

LEMMA WatchFailsKeeps ==
    ASSUME WatchInv, NEW w \in watches, WatchFails(w)
    PROVE  WatchInv'
<1>1. /\ watches' = watches \ {w} /\ cut' = cut \cup {w.at}
      /\ UNCHANGED <<now, call, rows, cleanups, snaps, recorded, sent, blind, overlaps>>
  BY DEF WatchFails
<1>2. SentIs' /\ ToldOnce'
  BY <1>1 DEF WatchInv, SentIs, FromWindow, ToldOnce, Together
<1>3. \A u \in watches' : KnowsSent(u)'
  BY <1>1 DEF WatchInv, KnowsSent, Together
<1>4. cut' \subseteq Times
  BY <1>1, WatchIs DEF WatchTypes, Watching
<1> QED
  BY <1>1, <1>2, <1>3, <1>4, EndingKeeps

LEMMA WatchNextKeeps == WatchInv /\ [WatchNext]_watchVars => WatchInv'
<1> SUFFICES ASSUME WatchInv, [WatchNext]_watchVars
             PROVE  WatchInv'
  OBVIOUS
<1>1. CASE Tick
  BY <1>1, TickKeeps
<1>2. CASE \E c \in Calls : CallStarts(c) \/ CallEnds(c)
  BY <1>2, CallStartsKeeps, CallEndsKeeps
<1>3. CASE \E n \in 0..MaxRows : n # rows /\ RowsGoneTo(n)
  BY <1>3, RowsKeep
<1>4. CASE \E w \in watches : WatchStep(w)
  BY <1>4, ReadWindowKeeps, ReadAnnouncedKeeps, CountKeeps, CompareKeeps, SkipCompareKeeps,
     RecordKeeps, AlertKeeps, WatchFailsKeeps DEF WatchStep
<1>5. CASE UNCHANGED watchVars
  <2> USE <1>5 DEF watchVars
  <2>1. WatchTypes' /\ Timely' /\ SentIs'
    BY DEF WatchInv, WatchTypes, Timely, SentIs, FromWindow, Together
  <2>2. \A w \in watches : Knows(w)' /\ KnowsSent(w)' /\ KnowsSnaps(w)'
    BY DEF WatchInv, Knows, FromWindow, LastWatch, Announces, KnowsSent, KnowsSnaps, Together,
           Alone, Last, LossIn
  <2>3. ToldOnce' /\ CallsRecorded' /\ LossesRecorded'
    BY DEF WatchInv, ToldOnce, CallsRecorded, LossesRecorded, LossTold, LossIn, Alone, Together,
         Quiet, LastWatch, Announces
  <2> QED
    BY <2>1, <2>2, <2>3 DEF WatchInv
<1> QED
  BY <1>1, <1>2, <1>3, <1>4, <1>5 DEF WatchNext

(* A watch under way is over only once its findings were sent or its message   *)
(* failed.                                                                   *)
LEMMA StaysTold ==
    ASSUME NEW w \in watches, NEW key, Told(key), UNCHANGED <<sent, lost>>,
           w.phase # "send", watches \ {w} \subseteq watches'
    PROVE  Told(key)'
<1>1. CASE (\E s \in sent : s[2] = key) \/ key \in lost
  BY <1>1 DEF Told
<1>2. CASE \E v \in watches : v.phase = "send" /\ key \in New(v)
  BY <1>2 DEF Told, New
<1> QED
  BY <1>1, <1>2 DEF Told

LEMMA WatchStepTells ==
    ASSUME WatchInv, AllTold, NEW w \in watches, WatchStep(w)
    PROVE  AllTold'
<1>1. CASE \/ ReadWindow(w) \/ ReadAnnounced(w) \/ Count(w) \/ Compare(w) \/ SkipCompare(w)
  <2>1. /\ w.phase # "send" /\ watches \ {w} \subseteq watches'
        /\ UNCHANGED <<recorded, sent, lost>>
    BY <1>1 DEF ReadWindow, ReadAnnounced, Count, Compare, SkipCompare, GoesOn
  <2> QED
    BY <2>1, StaysTold DEF AllTold
<1>2. CASE Record(w)
  <2>1. w.phase # "send" /\ watches \ {w} \subseteq watches' /\ UNCHANGED <<sent, lost>>
    BY <1>2 DEF Record, GoesOn
  <2>2. \A key \in recorded : Told(key)'
    BY <2>1, StaysTold DEF AllTold
  <2>3. ASSUME NEW key \in New(w), recorded' # recorded
        PROVE  Told(key)'
    <3> DEFINE v == [w EXCEPT !.phase = "send"]
    <3>1. v \in watches'
      BY <1>2, <2>3 DEF Record, GoesOn
    <3>2. v.phase = "send" /\ key \in New(v)
      BY <2>3, WatchIs DEF New, Watching
    <3> QED
      BY <3>1, <3>2 DEF Told, New
  <2> QED
    BY <1>2, <2>2, <2>3 DEF AllTold, Record
<1>3. CASE Alert(w)
  <2>1. /\ watches' = watches \ {w} /\ sent' = sent \cup ({w.at} \X New(w))
        /\ UNCHANGED <<recorded, lost>>
    BY <1>3 DEF Alert
  <2>2. ASSUME NEW key, Told(key)
        PROVE  Told(key)'
    <3>1. CASE key \in New(w)
      <4>1. <<w.at, key>> \in sent' /\ <<w.at, key>>[2] = key
        BY <2>1, <3>1
      <4> QED
        BY <4>1 DEF Told
    <3>2. CASE key \notin New(w)
      BY <2>1, <2>2, <3>2 DEF Told, New
    <3> QED
      BY <3>1, <3>2
  <2> QED
    BY <2>1, <2>2 DEF AllTold
<1>4. CASE WatchFails(w)
  BY <1>4 DEF WatchFails, AllTold, Told, New
<1> QED
  BY <1>1, <1>2, <1>3, <1>4 DEF WatchStep

LEMMA WatchNextTells == WatchInv /\ AllTold /\ [WatchNext]_watchVars => AllTold'
<1> SUFFICES ASSUME WatchInv, AllTold, [WatchNext]_watchVars
             PROVE  AllTold'
  OBVIOUS
<1>1. CASE \E w \in watches : WatchStep(w)
  BY <1>1, WatchStepTells
<1>2. CASE \/ Tick
           \/ \E c \in Calls : CallStarts(c) \/ CallEnds(c)
           \/ \E n \in 0..MaxRows : RowsGoneTo(n)
           \/ UNCHANGED watchVars
  <2>1. UNCHANGED <<recorded, sent, lost>> /\ watches \subseteq watches'
    BY <1>2 DEF Tick, CallStarts, CallEnds, RowsGoneTo, watchVars
  <2> QED
    BY <2>1 DEF AllTold, Told, New
<1> QED
  BY <1>1, <1>2 DEF WatchNext

(* Whatever fails and however watches overlap: a watch knows what its window    *)
(* held, what was announced before it and, unless it could not read it, the     *)
(* last snapshot; and what is on record was sent, is about to be, or its        *)
(* message failed (runOpsWatch).                                             *)
THEOREM WatchInductive == WatchSpec => [](WatchInv /\ AllTold)
<1>1. WatchInit => WatchInv /\ AllTold
  BY FirstInstant DEF WatchInit, AllTold
<1> QED
  BY <1>1, WatchNextKeeps, WatchNextTells, PTL DEF WatchSpec

(* The owner is told of each finding once unless watches overlapped, of every   *)
(* paid call unless the watch that had to was cut short, and of every fall of   *)
(* the rows between two snapshots unless the watch that stored the second was    *)
(* cut short, did not run alone or could not read the first.                  *)
THEOREM OwnerIsTold == WatchSpec => []WatchTells
<1>1. ASSUME WatchInv PROVE WatchTypeOK
  <2> USE <1>1 DEF WatchInv, WatchTypes
  <2>1. ASSUME NEW i \in DOMAIN snaps PROVE snaps[i].count \in 0..Unknown /\ snaps[i].at \in Times
    <3>1. snaps[i] \in Snapshot
      OBVIOUS
    <3> QED
      BY <3>1 DEF Snapshot
  <2>2. ASSUME NEW w \in watches
        PROVE  w.phase \in {"read", "compare", "store", "record", "send"} /\ w.at \in Times
    <3>1. w \in Watching
      OBVIOUS
    <3> QED
      BY <3>1 DEF Watching, Phases
  <2> QED
    BY <2>1, <2>2 DEF WatchTypeOK
<1>2. WatchInv /\ AllTold => CallsAreTold
  BY DEF WatchInv, CallsRecorded, CallsAreTold, Announces, AllTold
<1>3. WatchInv /\ AllTold => LossesAreTold
  <2> SUFFICES ASSUME WatchInv, AllTold, NEW i \in 1..Len(snaps) - 1,
                      Sharp(snaps[i].count, snaps[i + 1].count), Quiet(snaps[i + 1].by),
                      snaps[i + 1].by \notin cut \cup blind, Alone(snaps[i + 1].by)
               PROVE  \E key \in {Loss(snaps[i].count, snaps[i + 1].count),
                                  Cleanup(snaps[i].count, snaps[i + 1].count)} :
                          key \in recorded /\ Told(key)
    BY DEF LossesAreTold, Alone
  <2>1. LossIn(i, recorded)
    BY DEF WatchInv, LossesRecorded, LossTold
  <2> QED
    BY <2>1 DEF LossIn, AllTold
<1>4. WatchInv /\ AllTold => WatchTells
  BY <1>1, <1>2, <1>3 DEF WatchInv, WatchTells
<1> QED
  BY <1>4, WatchInductive, PTL

-----------------------------------------------------------------------------
(* Of the objectives the board shows those of a set from lo to its newest one;     *)
(* likewise of the rows without an objective.                                  *)
NoGapIn(held, lo) ==
    /\ \A o \in 1..InAll \ Hidden : o >= lo /\ (\E p \in held.shown : o <= p) => o \in held.shown
    /\ \A l \in Loose :
           /\ lo # NoCursor => l >= Instant[lo]
           /\ \E p \in held.shown : l <= Instant[p]
           => l \in held.loose

(* A page before a cursor: what it may leave out is before its own cursor.         *)
NoGapBefore(at, reply) ==
    /\ \A o \in reply.shown : o < at
    /\ reply.cursor # NoCursor => reply.cursor < at /\ reply.cursor \notin Hidden
    /\ \A o \in 1..InAll \ Hidden :
           o < at /\ (reply.more => reply.cursor # NoCursor /\ o >= reply.cursor) => o \in reply.shown
    /\ \A l \in Loose :
           l < Instant[at] /\ (reply.more /\ reply.cursor # NoCursor => l >= Instant[reply.cursor])
           => l \in reply.loose

(* The first page.                                                           *)
FirstPage(reply) ==
    /\ \A o \in reply.shown : o <= newest /\ o >= reply.cursor
    /\ IF reply.cursor = NoCursor THEN reply.shown = {}
       ELSE reply.cursor \in reply.shown /\ reply.cursor \notin Hidden
    /\ NoGapIn(reply, IF reply.more THEN reply.cursor ELSE NoCursor)

(* A window that is not cut.                                                  *)
WholeWindow(at, reply) ==
    /\ \A o \in reply.shown : o >= at /\ o <= newest
    /\ at \in reply.shown
    /\ NoGapIn(reply, at)

AnswerIsWhole(f) ==
    f.reply.given =>
        /\ f.of = "older" => NoGapBefore(f.at, f.reply)
        /\ f.of # "older" /\ f.at = NoCursor => ~f.reply.truncated /\ FirstPage(f.reply)
        /\ f.of # "older" /\ f.at # NoCursor /\ ~f.reply.truncated => WholeWindow(f.at, f.reply)

(* What was asked for since the board last started over continues it.             *)
RequestContinues(f) ==
    /\ f.of = "older" => f.at # NoCursor
    /\ f.of = "reload" => f.at = NoCursor
    /\ f.at # NoCursor => f.at \notin Hidden /\ f.at <= newest
    /\ f.of = "older" /\ ~f.stale => f.at = page.cursor /\ page.more
    /\ f.of = "refresh" /\ f.at # NoCursor /\ ~f.stale => f.at = page.start /\ page.olderLoaded

OneOlderPage == \A f, g \in flights : f.of = "older" /\ g.of = "older" => f = g

(* The cursors of the tab are objectives of the board.                          *)
CursorsExist ==
    \A at \in {page.start, page.cursor} : at # NoCursor => at \notin Hidden /\ at <= newest

BoardIsWhole ==
    LET head == page.head  older == page.older  start == page.start  cursor == page.cursor IN
    /\ ~page.olderLoaded => older = Nothing /\ cursor = start
    /\ page.start = NoCursor => head.shown = {} /\ ~page.olderLoaded
    /\ start # NoCursor =>
           /\ cursor # NoCursor /\ cursor <= start /\ start <= newest
           /\ start \in head.shown /\ start \notin Hidden /\ cursor \notin Hidden
           /\ NoGapIn(head, IF page.more \/ page.olderLoaded THEN start ELSE NoCursor)
           /\ \A o \in head.shown : o >= start
           /\ \A o \in older.shown : o < start
           /\ page.olderLoaded =>
                 /\ \A o \in 1..InAll \ Hidden :
                        o < start /\ (page.more => o >= cursor) => o \in older.shown
                 /\ \A l \in Loose :
                        l < Instant[start] /\ (page.more => l >= Instant[cursor]) => l \in older.loose

PagesInv ==
    /\ PagesTypeOK
    /\ \A f \in flights : AnswerIsWhole(f) /\ RequestContinues(f)
    /\ OneOlderPage /\ CursorsExist
    /\ ~mixed => BoardIsWhole

PageParts == [shown : SUBSET (1..InAll), loose : SUBSET Loose]
Replies == [shown : SUBSET (1..InAll), loose : SUBSET Loose, cursor : 0..InAll,
            more : BOOLEAN, truncated : BOOLEAN, given : BOOLEAN]

-----------------------------------------------------------------------------
(* The ends of a set of objectives.                                        *)
LEMMA LeastObjective ==
    ASSUME NEW S, S \subseteq Nat, S # {}
    PROVE  \E o \in S : \A p \in S : o <= p
<1> DEFINE Less == OpToRel(<, Nat)
<1>1. IsWellFoundedOn(Less, Nat)
  BY NatLessThanWellFounded
<1>2. PICK o \in S : \A p \in S : ~(<<p, o>> \in Less)
  <2> HIDE DEF Less
  <2> QED
    BY <1>1, WFMin
<1>3. \A p \in S : p < o => <<p, o>> \in Less
  BY DEF OpToRel
<1>4. \A p \in S : ~(p < o)
  <2> HIDE DEF Less
  <2> QED
    BY <1>2, <1>3
<1>5. ASSUME NEW p \in S
      PROVE  o <= p
  <2>1. o \in Nat /\ p \in Nat
    OBVIOUS
  <2> QED
    BY <1>4, <2>1
<1> QED
  BY <1>5

LEMMA GreatestObjective ==
    ASSUME NEW S, S \subseteq 1..InAll, S # {}
    PROVE  \E o \in S : \A p \in S : p <= o
<1> DEFINE Left == {InAll - o : o \in S}
<1>0. InAll \in Nat
  BY PagesAssumption
<1>1. Left \subseteq Nat /\ Left # {}
  <2>1. \A o \in S : o \in 1..InAll /\ InAll - o \in Nat
    BY <1>0
  <2>2. PICK o \in S : TRUE
    OBVIOUS
  <2>3. InAll - o \in Left
    BY <2>2
  <2> QED
    BY <2>1, <2>3
<1>2. PICK l \in Left : \A k \in Left : l <= k
  <2> HIDE DEF Left
  <2> QED
    BY <1>1, LeastObjective
<1>3. PICK o \in S : l = InAll - o
  BY <1>2
<1>4. ASSUME NEW p \in S
      PROVE  p <= o
  <2>1. InAll - o <= InAll - p
    BY <1>2, <1>3
  <2> QED
    BY <1>0, <2>1
<1> QED
  BY <1>4

LEMMA OldestIs ==
    ASSUME NEW S, S \subseteq 1..InAll
    PROVE  /\ S = {} => Oldest(S) = NoCursor
           /\ S # {} => Oldest(S) \in S /\ \A o \in S : Oldest(S) <= o
           /\ Oldest(S) \in 0..InAll
<1>0. InAll \in Nat
  BY PagesAssumption
<1>1. S = {} => Oldest(S) = NoCursor /\ Oldest(S) \in 0..InAll
  BY <1>0 DEF Oldest, NoCursor
<1>2. S # {} => Oldest(S) \in S /\ \A o \in S : Oldest(S) <= o
  <2> SUFFICES ASSUME S # {}
               PROVE  Oldest(S) \in S /\ \A o \in S : Oldest(S) <= o
    OBVIOUS
  <2>1. \E o \in S : \A p \in S : o <= p
    <3>1. S \subseteq Nat
      BY <1>0
    <3> QED
      BY <3>1, LeastObjective
  <2>2. Oldest(S) \in S /\ \A o \in S : Oldest(S) <= o
    BY <2>1 DEF Oldest
  <2> QED
    BY <2>2
<1>3. S # {} => Oldest(S) \in 0..InAll
  <2>1. S # {} => Oldest(S) \in 1..InAll
    BY <1>2
  <2> QED
    BY <1>0, <2>1
<1> QED
  BY <1>1, <1>2, <1>3

-----------------------------------------------------------------------------
(* The n newest of a set.                                                  *)
LEMMA ObjectivesAreFinite ==
    ASSUME NEW S, S \subseteq 1..InAll
    PROVE  IsFiniteSet(S) /\ Cardinality(S) \in Nat
<1>1. IsFiniteSet(1..InAll)
  BY PagesAssumption, FS_Interval
<1>2. IsFiniteSet(S)
  BY <1>1, FS_Subset
<1> QED
  BY <1>2, FS_CardinalityType

LEMMA NewestAreNewer ==
    ASSUME NEW S, S \subseteq 1..InAll, NEW n \in Nat
    PROVE  /\ Newest(S, n) \subseteq S
           /\ \A o \in Newest(S, n), p \in S : o <= p => p \in Newest(S, n)
<1>0. InAll \in Nat
  BY PagesAssumption
<1>1. ASSUME NEW o \in Newest(S, n), NEW p \in S, o <= p
      PROVE  p \in Newest(S, n)
  <2> DEFINE Above(x) == {q \in S : q > x}
  <2>0. o \in S /\ Cardinality(Above(o)) < n
    BY DEF Newest
  <2>1. Above(p) \subseteq Above(o) /\ Above(o) \subseteq 1..InAll
    <3>1. \A q \in S : q \in Nat
      BY <1>0
    <3>2. \A q \in S : q > p => q > o
      BY <1>1, <2>0, <3>1
    <3> QED
      BY <3>2
  <2>2. Cardinality(Above(p)) <= Cardinality(Above(o))
    BY <2>1, ObjectivesAreFinite, FS_Subset
  <2>3. Cardinality(Above(p)) \in Nat /\ Cardinality(Above(o)) \in Nat
    BY <2>1, ObjectivesAreFinite
  <2>4. Cardinality(Above(p)) < n
    <3> HIDE DEF Above
    <3> QED
      BY <2>0, <2>2, <2>3
  <2> QED
    BY <2>4 DEF Newest
<1> QED
  BY <1>1 DEF Newest

(* A set that is small enough is not cut, and a cut one is full.              *)
LEMMA NewestOfFew ==
    ASSUME NEW S, S \subseteq 1..InAll, NEW n \in Nat, Cardinality(S) <= n
    PROVE  Newest(S, n) = S
<1>0. InAll \in Nat
  BY PagesAssumption
<1>1. ASSUME NEW o \in S
      PROVE  Cardinality({q \in S : q > o}) < n
  <2> DEFINE Above == {q \in S : q > o}
  <2>1. Above \subseteq S \ {o} /\ S \ {o} \subseteq 1..InAll
    BY <1>0
  <2>2. Cardinality(S \ {o}) = Cardinality(S) - 1
    BY ObjectivesAreFinite, FS_RemoveElement
  <2>3. Cardinality(Above) <= Cardinality(S \ {o})
    BY <2>1, ObjectivesAreFinite, FS_Subset
  <2>4. Cardinality(Above) \in Nat /\ Cardinality(S) \in Nat
    BY <2>1, ObjectivesAreFinite
  <2>5. Cardinality(Above) < n
    <3> HIDE DEF Above
    <3> QED
      BY <2>2, <2>3, <2>4
  <2> QED
    BY <2>5
<1> QED
  BY <1>1 DEF Newest

LEMMA NewestIsFull ==
    ASSUME NEW S, S \subseteq 1..InAll, NEW n \in Nat, Cardinality(Newest(S, n)) < n
    PROVE  Newest(S, n) = S
<1> DEFINE Rest == S \ Newest(S, n)
<1>0. InAll \in Nat /\ Newest(S, n) \subseteq S
  BY PagesAssumption, NewestAreNewer
<1>1. SUFFICES ASSUME Rest # {}
               PROVE  FALSE
  BY <1>0
<1>2. PICK o \in Rest : \A p \in Rest : p <= o
  <2>1. Rest \subseteq 1..InAll
    OBVIOUS
  <2> HIDE DEF Rest
  <2> QED
    BY <1>1, <2>1, GreatestObjective
<1> DEFINE Above == {q \in S : q > o}
<1>3. Above \subseteq Newest(S, n)
  <2> SUFFICES ASSUME NEW q \in S, q > o
               PROVE  q \in Newest(S, n)
    OBVIOUS
  <2>1. q \notin Rest
    BY <1>0, <1>2
  <2> QED
    BY <2>1
<1>4. Cardinality(Above) <= Cardinality(Newest(S, n))
  BY <1>0, <1>3, ObjectivesAreFinite, FS_Subset
<1>5. Cardinality(Above) \in Nat /\ Cardinality(Newest(S, n)) \in Nat
  BY <1>0, ObjectivesAreFinite
<1>6. Cardinality(Above) < n
  <2> HIDE DEF Above
  <2> QED
    BY <1>4, <1>5
<1> QED
  BY <1>2, <1>6 DEF Newest

-----------------------------------------------------------------------------
(* What the Hub answers.                                                   *)
LEMMA PageJobsAre ==
    ASSUME newest \in AtStart..InAll, NEW before \in 0..InAll, before # NoCursor => before <= newest
    PROVE  /\ PageJobs(before).jobs \subseteq 1..newest
           /\ PageJobs(before).more \in BOOLEAN
           /\ \A o \in PageJobs(before).jobs : before # NoCursor => o < before
           /\ \A o \in 1..newest :
                  /\ before # NoCursor => o < before
                  /\ PageJobs(before).more => \E p \in PageJobs(before).jobs : p <= o
                  => o \in PageJobs(before).jobs
<1>0. /\ InAll \in Nat /\ AtStart \in 1..InAll /\ PageSize \in Nat \ {0}
      /\ 2 * PageSize + 1 \in Nat /\ PageSize \in Nat
      /\ newest \in Nat /\ 1..newest \subseteq 1..InAll
  BY PagesAssumption
<1> DEFINE read == IF before = NoCursor THEN 1..newest
                   ELSE {o \in 1..newest : Instant[o] <= Instant[before]}
           top  == Newest(read, 2 * PageSize + 1)
           Older(o) == before # NoCursor => o < before
           list == {o \in top : Older(o)}
<1>1. PageJobs(before) = [jobs |-> Newest(list, PageSize), more |-> Cardinality(list) > PageSize]
  BY DEF PageJobs, OlderThan
<1>2. read \subseteq 1..InAll /\ read \subseteq 1..newest
  BY <1>0
<1>3. \A o \in 1..newest : Older(o) => o \in read
  BY <1>0, PagesAssumption DEF NoCursor
<1>4. /\ top \subseteq read
      /\ \A o \in top, p \in read : o <= p => p \in top
  <2> HIDE DEF read
  <2> QED
    BY <1>0, <1>2, NewestAreNewer
<1>5. /\ list \subseteq top /\ list \subseteq 1..InAll
      /\ Newest(list, PageSize) \subseteq list
      /\ \A o \in Newest(list, PageSize), p \in list : o <= p => p \in Newest(list, PageSize)
  <2>1. list \subseteq top /\ list \subseteq 1..InAll
    BY <1>2, <1>4
  <2> HIDE DEF list
  <2> QED
    BY <1>0, <2>1, NewestAreNewer
<1>6. IsFiniteSet(list) /\ Cardinality(list) \in Nat
  BY <1>5, ObjectivesAreFinite
<1>7. ASSUME Cardinality(list) <= PageSize
      PROVE  top = read
  <2> DEFINE ties == top \ list
  <2>1. ties \subseteq {p \in 1..InAll : before # NoCursor /\ Instant[p] = Instant[before]}
    <3> SUFFICES ASSUME NEW o \in top, ~Older(o)
                 PROVE  o \in 1..InAll /\ before # NoCursor /\ Instant[o] = Instant[before]
      OBVIOUS
    <3>1. before # NoCursor /\ o >= before /\ o \in read /\ o \in 1..InAll /\ before \in 1..InAll
      BY <1>0, <1>2, <1>4 DEF NoCursor
    <3>2. Instant[o] <= Instant[before] /\ Instant[before] <= Instant[o]
      BY <3>1, PagesAssumption
    <3>3. Instant[o] \in Nat /\ Instant[before] \in Nat
      BY <3>1, PagesAssumption
    <3> QED
      BY <3>1, <3>2, <3>3
  <2>2. Cardinality(ties) <= PageSize /\ Cardinality(ties) \in Nat /\ IsFiniteSet(ties)
    <3> DEFINE same == {p \in 1..InAll : before # NoCursor /\ Instant[p] = Instant[before]}
    <3>1. Cardinality(same) <= PageSize
      <4>1. CASE before = NoCursor
        <5>1. same = {}
          BY <4>1
        <5> QED
          BY <1>0, <5>1, FS_EmptySet
      <4>2. CASE before # NoCursor
        <5>1. before \in 1..InAll
          BY <1>0, <4>2 DEF NoCursor
        <5>2. same = {p \in 1..InAll : Instant[p] = Instant[before]}
          BY <4>2
        <5> QED
          BY <5>1, <5>2, PagesAssumption
      <4> QED
        BY <4>1, <4>2
    <3>2. ties \subseteq same /\ same \subseteq 1..InAll
      BY <2>1
    <3>3. Cardinality(ties) <= Cardinality(same)
      <4> HIDE DEF ties, same
      <4> QED
        BY <3>2, ObjectivesAreFinite, FS_Subset
    <3>4. Cardinality(same) \in Nat /\ Cardinality(ties) \in Nat /\ IsFiniteSet(ties)
      <4>1. ties \subseteq 1..InAll
        BY <3>2
      <4> HIDE DEF ties, same
      <4> QED
        BY <3>2, <4>1, ObjectivesAreFinite
    <3> HIDE DEF same, ties
    <3> QED
      BY <1>0, <3>1, <3>3, <3>4
  <2>3. top = list \cup ties /\ list \cap ties = {}
    BY <1>5
  <2>4. Cardinality(top) = Cardinality(list) + Cardinality(ties)
    <3> HIDE DEF top, list, ties
    <3>1. Cardinality(list \cup ties)
            = Cardinality(list) + Cardinality(ties) - Cardinality(list \cap ties)
      BY <1>6, <2>2, FS_Union
    <3>2. Cardinality(list \cap ties) = 0
      BY <2>3, FS_EmptySet
    <3> QED
      BY <1>6, <2>2, <2>3, <3>1, <3>2
  <2>5. Cardinality(top) < 2 * PageSize + 1
    <3> HIDE DEF top, list, ties
    <3> QED
      BY <1>0, <1>6, <1>7, <2>2, <2>4
  <2> HIDE DEF read
  <2> QED
    BY <1>0, <1>2, <2>5, NewestIsFull
<1>8. ASSUME Cardinality(list) <= PageSize
      PROVE  \A o \in 1..newest : Older(o) => o \in Newest(list, PageSize)
  <2>1. \A o \in 1..newest : Older(o) => o \in list
    BY <1>3, <1>7, <1>8
  <2>2. Newest(list, PageSize) = list
    <3> HIDE DEF list
    <3> QED
      BY <1>0, <1>5, <1>8, NewestOfFew
  <2> QED
    BY <2>1, <2>2
<1>9. ASSUME NEW o \in 1..newest, Older(o), NEW p \in Newest(list, PageSize), p <= o
      PROVE  o \in Newest(list, PageSize)
  <2>1. o \in read /\ p \in top
    BY <1>3, <1>5, <1>9
  <2>2. o \in top
    BY <1>4, <1>9, <2>1
  <2>3. o \in list
    BY <1>9, <2>2
  <2> QED
    BY <1>5, <1>9, <2>3
<1>10. \A o \in Newest(list, PageSize) : o \in 1..newest /\ Older(o)
  BY <1>2, <1>4, <1>5
<1>11. /\ PageJobs(before).jobs = Newest(list, PageSize)
       /\ PageJobs(before).more = (Cardinality(list) > PageSize)
  <2> HIDE DEF list
  <2> QED
    BY <1>1
<1>12. ASSUME ~PageJobs(before).more
       PROVE  Cardinality(list) <= PageSize
  <2>1. ~(Cardinality(list) > PageSize)
    BY <1>11, <1>12
  <2> HIDE DEF list
  <2> QED
    BY <1>0, <1>6, <2>1
<1>13. PageJobs(before).more \in BOOLEAN
  BY <1>11
<1> HIDE DEF list
<1> QED
  BY <1>8, <1>9, <1>10, <1>11, <1>12, <1>13

LEMMA LooseIs ==
    ASSUME newest \in AtStart..InAll
    PROVE  /\ newest \in 1..InAll /\ LooseWritten \subseteq Loose
           /\ \A l \in Loose, p \in 1..newest : l <= Instant[p] => l \in LooseWritten
<1>1. newest \in 1..InAll
  BY PagesAssumption
<1>2. ASSUME NEW l \in Loose, NEW p \in 1..newest, l <= Instant[p]
      PROVE  l \in LooseWritten
  <2>1. p \in 1..InAll /\ p <= newest /\ l \in Nat
    BY <1>1, PagesAssumption
  <2>2. Instant[p] <= Instant[newest] /\ Instant[p] \in Nat /\ Instant[newest] \in Nat
    BY <1>1, <2>1, PagesAssumption
  <2>3. l <= Instant[newest]
    BY <1>2, <2>1, <2>2
  <2> QED
    BY <2>3 DEF LooseWritten
<1> QED
  BY <1>1, <1>2 DEF LooseWritten

(* The page before a cursor, and the first page.                              *)
LEMMA PageReplyIs ==
    ASSUME newest \in AtStart..InAll, NEW before \in 0..InAll, before # NoCursor => before <= newest
    PROVE  /\ PageReply(before) \in Replies
           /\ PageReply(before).given /\ ~PageReply(before).truncated
           /\ before = NoCursor => FirstPage(PageReply(before))
           /\ before # NoCursor => NoGapBefore(before, PageReply(before))
<1> DEFINE list   == PageJobs(before)
           shown  == list.jobs \ Hidden
           oldest == Oldest(shown)
           reply  == PageReply(before)
<1>0. /\ InAll \in Nat /\ newest \in 1..InAll /\ 1..newest \subseteq 1..InAll
      /\ LooseWritten \subseteq Loose
  BY PagesAssumption, LooseIs
<1>1. /\ shown \subseteq 1..newest /\ shown \cap Hidden = {}
      /\ list.more \in BOOLEAN
      /\ \A o \in shown : before # NoCursor => o < before
      /\ \A o \in (1..newest) \ Hidden :
             /\ before # NoCursor => o < before
             /\ list.more => \E p \in shown : p <= o
             => o \in shown
  <2> HIDE DEF list
  <2>1. /\ list.jobs \subseteq 1..newest /\ list.more \in BOOLEAN
        /\ \A o \in list.jobs : before # NoCursor => o < before
        /\ \A o \in 1..newest :
               /\ before # NoCursor => o < before
               /\ list.more => \E p \in list.jobs : p <= o
               => o \in list.jobs
    BY PageJobsAre DEF list
  <2> QED
    BY <2>1
<1>2. /\ shown = {} => oldest = NoCursor
      /\ shown # {} => oldest \in shown /\ \A o \in shown : oldest <= o
      /\ oldest \in 0..InAll
  <2>1. shown \subseteq 1..InAll
    BY <1>0, <1>1
  <2> HIDE DEF shown
  <2> QED
    BY <2>1, OldestIs
<1>3. /\ reply.shown = shown /\ reply.cursor = oldest /\ reply.more = list.more
      /\ reply.truncated = FALSE /\ reply.given = TRUE
      /\ reply.loose = LooseOf(before, oldest, list.more)
      /\ reply = [shown |-> shown, loose |-> LooseOf(before, oldest, list.more),
                  cursor |-> oldest, more |-> list.more, truncated |-> FALSE, given |-> TRUE]
  BY DEF PageReply
<1>4. \A l \in LooseWritten :
          /\ before # NoCursor => l < Instant[before]
          /\ oldest # NoCursor /\ list.more => l >= Instant[oldest]
          => l \in reply.loose
  BY <1>3 DEF LooseOf
<1>5. reply \in Replies
  <2>1. LooseOf(before, oldest, list.more) \subseteq Loose
    BY <1>0 DEF LooseOf
  <2>2. shown \subseteq 1..InAll
    BY <1>0, <1>1
  <2> HIDE DEF shown, oldest, list, reply
  <2> QED
    BY <1>1, <1>2, <1>3, <2>1, <2>2 DEF Replies
<1> HIDE DEF shown, oldest, list, reply
<1>6. shown # {} <=> oldest # NoCursor
  BY <1>0, <1>1, <1>2 DEF NoCursor
<1>7. ASSUME before = NoCursor
      PROVE  FirstPage(reply)
  <2>1. /\ \A o \in reply.shown : o <= newest /\ o >= reply.cursor
        /\ IF reply.cursor = NoCursor THEN reply.shown = {}
           ELSE reply.cursor \in reply.shown /\ reply.cursor \notin Hidden
    BY <1>0, <1>1, <1>2, <1>3, <1>6
  <2> DEFINE lo == IF reply.more THEN reply.cursor ELSE NoCursor
  <2>2. ASSUME NEW o \in 1..InAll \ Hidden, o >= lo, NEW p \in reply.shown, o <= p
        PROVE  o \in reply.shown
    <3>1. o \in (1..newest) \ Hidden
      BY <1>0, <1>1, <1>3, <2>2
    <3>2. list.more => oldest \in shown /\ oldest <= o
      BY <1>2, <1>3, <2>2
    <3> QED
      BY <1>1, <1>3, <1>7, <3>1, <3>2
  <2>3. ASSUME NEW l \in Loose, lo # NoCursor => l >= Instant[lo],
               NEW p \in reply.shown, l <= Instant[p]
        PROVE  l \in reply.loose
    <3>1. p \in 1..newest
      BY <1>1, <1>3
    <3>2. l \in LooseWritten
      BY <2>3, <3>1, LooseIs
    <3>3. oldest # NoCursor /\ list.more => l >= Instant[oldest]
      BY <1>3, <2>3
    <3> QED
      BY <1>4, <1>7, <3>2, <3>3
  <2>4. NoGapIn(reply, lo)
    <3> HIDE DEF lo
    <3> QED
      BY <2>2, <2>3 DEF NoGapIn
  <2> QED
    BY <2>1, <2>4 DEF FirstPage
<1>8. ASSUME before # NoCursor
      PROVE  NoGapBefore(before, reply)
  <2>0. before \in 1..newest
    BY <1>0, <1>8 DEF NoCursor
  <2>1. \A o \in reply.shown : o < before
    BY <1>1, <1>3, <1>8
  <2>2. reply.cursor # NoCursor => reply.cursor < before /\ reply.cursor \notin Hidden
    BY <1>1, <1>2, <1>3, <1>6, <1>8
  <2>3. ASSUME NEW o \in 1..InAll \ Hidden, o < before,
               reply.more => reply.cursor # NoCursor /\ o >= reply.cursor
        PROVE  o \in reply.shown
    <3>1. o \in (1..newest) \ Hidden
      BY <1>0, <2>0, <2>3
    <3>2. list.more => oldest \in shown /\ oldest <= o
      BY <1>2, <1>3, <1>6, <2>3
    <3> QED
      BY <1>1, <1>3, <2>3, <3>1, <3>2
  <2>4. ASSUME NEW l \in Loose, l < Instant[before],
               reply.more /\ reply.cursor # NoCursor => l >= Instant[reply.cursor]
        PROVE  l \in reply.loose
    <3>0. l \in Nat /\ Instant[before] \in Nat
      BY <1>0, <2>0, PagesAssumption
    <3>1. l \in LooseWritten
      BY <2>0, <2>4, <3>0, LooseIs
    <3> QED
      BY <1>3, <1>4, <2>4, <3>1
  <2> QED
    BY <2>1, <2>2, <2>3, <2>4 DEF NoGapBefore
<1> QED
  BY <1>3, <1>5, <1>7, <1>8 DEF reply

LEMMA WindowReplyIs ==
    ASSUME newest \in AtStart..InAll, NEW at \in 1..newest, at \notin Hidden
    PROVE  /\ WindowReply(at) \in Replies /\ WindowReply(at).given
           /\ ~WindowReply(at).truncated => WholeWindow(at, WindowReply(at))
<1> DEFINE window == Window(at)
           shown  == Newest(window, SinceCap) \ Hidden
           reply  == WindowReply(at)
           capped    == Cardinality(window) > SinceCap
           bottom == IF shown = {} THEN at ELSE Oldest(shown)
           rest   == {l \in LooseWritten : l >= Instant[at]}
<1>0. /\ InAll \in Nat /\ newest \in 1..InAll /\ 1..newest \subseteq 1..InAll
      /\ LooseWritten \subseteq Loose /\ SinceCap \in Nat /\ at \in 1..InAll
  BY PagesAssumption, LooseIs
<1>1. window = {o \in 1..newest : o >= at}
  BY <1>0 DEF Window, OlderThan
<1>2. window \subseteq 1..InAll /\ Cardinality(window) \in Nat
  <2>1. window \subseteq 1..InAll
    BY <1>0, <1>1
  <2> HIDE DEF window
  <2> QED
    BY <2>1, ObjectivesAreFinite
<1>3. shown \subseteq window \ Hidden /\ (~capped => shown = window \ Hidden)
  <2> HIDE DEF window
  <2>1. Newest(window, SinceCap) \subseteq window
    BY <1>0, <1>2, NewestAreNewer
  <2>2. ASSUME ~capped
        PROVE  Newest(window, SinceCap) = window
    <3>1. Cardinality(window) <= SinceCap
      BY <1>0, <1>2, <2>2
    <3> QED
      BY <1>0, <1>2, <3>1, NewestOfFew
  <2> QED
    BY <2>1, <2>2
<1>4. reply = [shown |-> shown, loose |-> rest, cursor |-> bottom, more |-> FALSE,
               truncated |-> capped, given |-> TRUE]
  BY DEF WindowReply
<1>5. bottom \in 0..InAll
  <2>1. shown \subseteq 1..InAll
    BY <1>2, <1>3
  <2> HIDE DEF shown
  <2>2. Oldest(shown) \in 0..InAll
    BY <2>1, OldestIs
  <2> QED
    BY <1>0, <2>2
<1>6. shown \subseteq 1..InAll /\ rest \subseteq Loose /\ capped \in BOOLEAN
  BY <1>0, <1>2, <1>3
<1>7. reply \in Replies
  <2> HIDE DEF shown, rest, bottom, capped, reply
  <2> QED
    BY <1>4, <1>5, <1>6 DEF Replies
<1>8. reply.shown = shown /\ reply.loose = rest /\ reply.truncated = capped /\ reply.given
  <2> HIDE DEF shown, rest, bottom, capped, reply
  <2> QED
    BY <1>4
<1> HIDE DEF capped
<1>9. ASSUME ~capped
      PROVE  WholeWindow(at, reply)
  <2>1. reply.shown = {o \in 1..newest : o >= at} \ Hidden
    BY <1>1, <1>3, <1>8, <1>9
  <2>2. (\A o \in reply.shown : o >= at /\ o <= newest) /\ at \in reply.shown
    BY <1>0, <2>1
  <2>3. \A o \in 1..InAll \ Hidden :
            o >= at /\ (\E p \in reply.shown : o <= p) => o \in reply.shown
    BY <1>0, <2>1, <2>2
  <2>4. ASSUME NEW l \in Loose, at # NoCursor => l >= Instant[at],
               NEW p \in reply.shown, l <= Instant[p]
        PROVE  l \in reply.loose
    <3>1. l \in LooseWritten
      BY <2>1, <2>4, LooseIs
    <3>2. at # NoCursor
      BY DEF NoCursor
    <3> QED
      BY <1>8, <2>4, <3>1, <3>2
  <2>5. NoGapIn(reply, at)
    <3> HIDE DEF reply
    <3> QED
      BY <2>3, <2>4 DEF NoGapIn
  <2> HIDE DEF reply
  <2> QED
    BY <2>2, <2>5 DEF WholeWindow
<1> QED
  BY <1>7, <1>8, <1>9 DEF capped

-----------------------------------------------------------------------------
(* The tab.                                                                *)
LEMMA PagesAreTyped ==
    ASSUME PagesTypeOK
    PROVE  /\ newest \in 1..InAll /\ newest \in Nat /\ InAll \in Nat
           /\ page.head \in PageParts /\ page.older \in PageParts
           /\ page.cursor \in 0..InAll /\ page.start \in 0..InAll
           /\ page.more \in BOOLEAN /\ page.olderLoaded \in BOOLEAN
           /\ page = [head |-> page.head, older |-> page.older, cursor |-> page.cursor,
                      start |-> page.start, more |-> page.more, olderLoaded |-> page.olderLoaded]
           /\ mixed \in BOOLEAN
           /\ \A f \in flights :
                  /\ f \in Flights /\ f.of \in {"refresh", "reload", "older"}
                  /\ f.at \in 0..InAll /\ f.stale \in BOOLEAN /\ f.reply \in Replies
<1>1. newest \in 1..InAll /\ newest \in Nat /\ InAll \in Nat
  BY LooseIs, PagesAssumption DEF PagesTypeOK
<1> QED
  BY <1>1 DEF PagesTypeOK, PageParts, Flights, Replies

LEMMA RepliesAre ==
    ASSUME NEW r \in Replies
    PROVE  /\ r.shown \subseteq 1..InAll /\ r.loose \subseteq Loose /\ r.cursor \in 0..InAll
           /\ r.more \in BOOLEAN /\ r.truncated \in BOOLEAN /\ r.given \in BOOLEAN
           /\ RowsOf(r) \in PageParts
           /\ RowsOf(r).shown = r.shown /\ RowsOf(r).loose = r.loose
           /\ Restarted(r) \in [head : PageParts, older : PageParts, cursor : 0..InAll,
                                start : 0..InAll, more : BOOLEAN, olderLoaded : BOOLEAN]
           /\ Restarted(r).head = RowsOf(r) /\ Restarted(r).older = Nothing
           /\ Restarted(r).cursor = r.cursor /\ Restarted(r).start = r.cursor
           /\ Restarted(r).more = r.more /\ ~Restarted(r).olderLoaded
BY DEF Replies, PageParts, RowsOf, Restarted, Nothing

LEMMA AskedIs ==
    ASSUME NEW of \in {"refresh", "reload", "older"}, NEW at \in 0..InAll
    PROVE  /\ Asked(of, at) \in Flights
           /\ Asked(of, at).of = of /\ Asked(of, at).at = at /\ ~Asked(of, at).stale
           /\ AnswerIsWhole(Asked(of, at))
<1>1. Waiting \in Replies /\ ~Waiting.given
  BY PagesAssumption DEF Waiting, Replies, NoCursor
<1> QED
  BY <1>1 DEF Asked, Flights, Replies, AnswerIsWhole

(* Requests come and go while the board stays as it is.                       *)
LEMMA BoardStays ==
    ASSUME PagesInv, UNCHANGED <<newest, page, mixed>>,
           flights' \subseteq Flights,
           \A f \in flights' : AnswerIsWhole(f) /\ RequestContinues(f),
           \A f, g \in flights' : f.of = "older" /\ g.of = "older" => f = g
    PROVE  PagesInv'
<1>1. PagesTypeOK'
  BY DEF PagesInv, PagesTypeOK
<1>2. \A f \in flights' : AnswerIsWhole(f)' /\ RequestContinues(f)'
  BY DEF AnswerIsWhole, RequestContinues, FirstPage, WholeWindow, NoGapIn, NoGapBefore
<1>3. OneOlderPage' /\ CursorsExist'
  BY DEF PagesInv, OneOlderPage, CursorsExist
<1>4. (~mixed => BoardIsWhole)'
  BY DEF PagesInv, BoardIsWhole
<1> QED
  BY <1>1, <1>2, <1>3, <1>4 DEF PagesInv

LEMMA RequestLostKeeps ==
    ASSUME PagesInv, NEW f \in flights, RequestLost(f)
    PROVE  PagesInv'
<1>1. flights' \subseteq flights /\ UNCHANGED <<newest, page, mixed>>
  BY DEF RequestLost
<1>2. flights \subseteq Flights
  BY DEF PagesInv, PagesTypeOK
<1> QED
  BY <1>1, <1>2, BoardStays DEF PagesInv, OneOlderPage

LEMMA HubAnswersKeeps ==
    ASSUME PagesInv, NEW f \in flights, HubAnswers(f)
    PROVE  PagesInv'
<1> DEFINE reply == IF f.of = "refresh" /\ f.at # NoCursor THEN WindowReply(f.at) ELSE PageReply(f.at)
           g     == [f EXCEPT !.reply = reply]
<1>0. PagesTypeOK /\ newest \in AtStart..InAll
  BY DEF PagesInv, PagesTypeOK
<1>1. /\ f \in Flights /\ f.of \in {"refresh", "reload", "older"}
      /\ f.at \in 0..InAll /\ f.stale \in BOOLEAN /\ RequestContinues(f)
      /\ newest \in Nat
  BY <1>0, PagesAreTyped DEF PagesInv
<1>2. f.at # NoCursor => f.at \in 1..newest /\ f.at \notin Hidden
  BY <1>1 DEF RequestContinues, NoCursor
<1>3. ASSUME f.of = "refresh" /\ f.at # NoCursor
      PROVE  g \in Flights /\ AnswerIsWhole(g)
  <2>1. /\ WindowReply(f.at) \in Replies
        /\ ~WindowReply(f.at).truncated => WholeWindow(f.at, WindowReply(f.at))
    BY <1>0, <1>2, <1>3, WindowReplyIs
  <2>2. reply = WindowReply(f.at)
    BY <1>3
  <2> HIDE DEF reply
  <2>3. g \in Flights /\ g.of = f.of /\ g.at = f.at /\ g.stale = f.stale /\ g.reply = reply
    BY <1>1, <2>1, <2>2 DEF Flights, Replies
  <2>4. AnswerIsWhole(g)
    BY <1>3, <2>1, <2>2, <2>3 DEF AnswerIsWhole
  <2> QED
    BY <2>3, <2>4
<1>4. ASSUME ~(f.of = "refresh" /\ f.at # NoCursor)
      PROVE  g \in Flights /\ AnswerIsWhole(g)
  <2>1. /\ PageReply(f.at) \in Replies /\ ~PageReply(f.at).truncated
        /\ f.at = NoCursor => FirstPage(PageReply(f.at))
        /\ f.at # NoCursor => NoGapBefore(f.at, PageReply(f.at))
    <3>1. f.at # NoCursor => f.at <= newest
      BY <1>1 DEF RequestContinues
    <3> QED
      BY <1>0, <1>1, <3>1, PageReplyIs
  <2>2. reply = PageReply(f.at)
    BY <1>4
  <2> HIDE DEF reply
  <2>3. g \in Flights /\ g.of = f.of /\ g.at = f.at /\ g.stale = f.stale /\ g.reply = reply
    BY <1>1, <2>1, <2>2 DEF Flights, Replies
  <2>4. (f.of = "older" => f.at # NoCursor) /\ (f.of # "older" => f.at = NoCursor)
    BY <1>1, <1>4 DEF RequestContinues
  <2>5. AnswerIsWhole(g)
    BY <2>1, <2>2, <2>3, <2>4 DEF AnswerIsWhole
  <2> QED
    BY <2>3, <2>5
<1>5. g \in Flights /\ g.of = f.of /\ g.at = f.at /\ g.stale = f.stale /\ AnswerIsWhole(g)
  <2> HIDE DEF reply
  <2>1. g.of = f.of /\ g.at = f.at /\ g.stale = f.stale
    BY <1>1 DEF Flights
  <2>2. g \in Flights /\ AnswerIsWhole(g)
    BY <1>3, <1>4
  <2> QED
    BY <2>1, <2>2
<1> HIDE DEF g
<1>6. RequestContinues(g)
  BY <1>1, <1>5 DEF RequestContinues
<1>7. flights' = (flights \ {f}) \cup {g} /\ UNCHANGED <<newest, page, mixed>>
  BY DEF HubAnswers, g
<1>8. flights' \subseteq Flights
  BY <1>5, <1>7 DEF PagesInv, PagesTypeOK
<1>9. \A h \in flights' : AnswerIsWhole(h) /\ RequestContinues(h)
  BY <1>5, <1>6, <1>7 DEF PagesInv
<1>10. \A h, k \in flights' : h.of = "older" /\ k.of = "older" => h = k
  BY <1>5, <1>7 DEF PagesInv, OneOlderPage
<1> QED
  BY <1>7, <1>8, <1>9, <1>10, BoardStays

(* One more request.                                                       *)
LEMMA OneMoreRequest ==
    ASSUME PagesInv, UNCHANGED <<newest, page, mixed>>,
           NEW of \in {"refresh", "reload", "older"}, NEW at \in 0..InAll,
           RequestContinues(Asked(of, at)),
           flights' \subseteq flights \cup {Asked(of, at)},
           of = "older" => ~Loading
    PROVE  PagesInv'
<1>1. Asked(of, at) \in Flights /\ Asked(of, at).of = of /\ AnswerIsWhole(Asked(of, at))
  BY AskedIs
<1>2. flights' \subseteq Flights
  BY <1>1 DEF PagesInv, PagesTypeOK
<1>3. \A h \in flights' : AnswerIsWhole(h) /\ RequestContinues(h)
  BY <1>1 DEF PagesInv
<1>4. \A h, k \in flights' : h.of = "older" /\ k.of = "older" => h = k
  BY <1>1 DEF PagesInv, OneOlderPage, Loading
<1> QED
  BY <1>2, <1>3, <1>4, BoardStays

LEMMA RefreshKeeps ==
    ASSUME PagesInv, Refresh
    PROVE  PagesInv'
<1>1. PagesTypeOK
  BY DEF PagesInv
<1>2. RefreshFrom \in 0..InAll
  BY <1>1, PagesAreTyped DEF RefreshFrom, NoCursor
<1>3. RequestContinues(Asked("refresh", RefreshFrom))
  BY <1>2, AskedIs DEF PagesInv, RequestContinues, RefreshFrom, CursorsExist
<1> QED
  BY <1>2, <1>3, OneMoreRequest DEF Refresh, Request

LEMMA LoadOlderKeeps ==
    ASSUME PagesInv, LoadOlder
    PROVE  PagesInv'
<1>1. PagesTypeOK
  BY DEF PagesInv
<1>2. page.cursor \in 0..InAll /\ page.cursor # NoCursor /\ page.more
  BY <1>1, PagesAreTyped DEF LoadOlder
<1>3. RequestContinues(Asked("older", page.cursor))
  BY <1>2, AskedIs DEF PagesInv, RequestContinues, CursorsExist
<1> QED
  BY <1>2, <1>3, OneMoreRequest DEF LoadOlder, Request

LEMMA NewObjectiveKeeps ==
    ASSUME PagesInv, NewObjective
    PROVE  PagesInv'
<1>0. PagesTypeOK /\ newest \in Nat /\ newest' = newest + 1
  BY PagesAreTyped DEF PagesInv, NewObjective
<1>1. UNCHANGED <<page, flights, mixed>> /\ newest' \in Nat /\ newest <= newest'
  BY <1>0 DEF NewObjective
<1>2. PagesTypeOK'
  BY <1>0, PagesAssumption DEF PagesTypeOK, NewObjective
<1>3. \A o \in 0..InAll : o <= newest => o <= newest'
  BY <1>0, PagesAssumption
<1>4. ASSUME NEW f \in flights
      PROVE  AnswerIsWhole(f)' /\ RequestContinues(f)'
  <2>1. f.at \in 0..InAll /\ f.reply \in Replies /\ AnswerIsWhole(f) /\ RequestContinues(f)
    BY <1>0, PagesAreTyped DEF PagesInv
  <2>2. \A o \in f.reply.shown : o \in 0..InAll
    BY <2>1, PagesAssumption DEF Replies
  <2>3. FirstPage(f.reply) => FirstPage(f.reply)'
    BY <1>3, <2>2 DEF FirstPage, NoGapIn
  <2>4. WholeWindow(f.at, f.reply) => WholeWindow(f.at, f.reply)'
    BY <1>3, <2>2 DEF WholeWindow, NoGapIn
  <2>5. NoGapBefore(f.at, f.reply) => NoGapBefore(f.at, f.reply)'
    BY DEF NoGapBefore
  <2>6. AnswerIsWhole(f)'
    BY <2>1, <2>3, <2>4, <2>5 DEF AnswerIsWhole
  <2>7. RequestContinues(f)'
    BY <1>1, <1>3, <2>1 DEF RequestContinues
  <2> QED
    BY <2>6, <2>7
<1>5. page.start \in 0..InAll /\ page.cursor \in 0..InAll
  BY <1>0, PagesAreTyped
<1>6. OneOlderPage' /\ CursorsExist'
  BY <1>1, <1>3, <1>5 DEF PagesInv, OneOlderPage, CursorsExist
<1>7. BoardIsWhole => BoardIsWhole'
  BY <1>1, <1>3, <1>5 DEF BoardIsWhole, NoGapIn
<1> QED
  BY <1>1, <1>2, <1>4, <1>6, <1>7 DEF PagesInv

(* The answer to a refresh, and to the reload after one that was cut.          *)
LEMMA ReadsAgainKeeps ==
    ASSUME PagesInv, NEW f \in flights, ReadsAgain(f), UNCHANGED newest
    PROVE  PagesInv'
<1>1. NoCursor \in 0..InAll
  BY PagesAssumption DEF NoCursor
<1>2. RequestContinues(Asked("reload", NoCursor))
  BY <1>1, AskedIs DEF RequestContinues
<1> QED
  BY <1>1, <1>2, OneMoreRequest DEF ReadsAgain

LEMMA StartsOverKeeps ==
    ASSUME PagesInv, NEW f \in flights, f.of \in {"refresh", "reload"}, f.reply.given,
           f.at = NoCursor, StartsOver(f), UNCHANGED newest
    PROVE  PagesInv'
<1> DEFINE Aged(g) == [g EXCEPT !.stale = TRUE]
           r      == f.reply
<1>0. PagesTypeOK
  BY DEF PagesInv
<1>1. r \in Replies /\ FirstPage(r)
  BY <1>0, PagesAreTyped DEF PagesInv, AnswerIsWhole
<1>2. /\ page' = Restarted(r) /\ mixed' = FALSE
      /\ flights' = {Aged(g) : g \in flights \ {f}}
  BY DEF StartsOver
<1>3. ASSUME NEW g \in flights
      PROVE  /\ Aged(g) \in Flights /\ Aged(g).of = g.of /\ Aged(g).stale
             /\ AnswerIsWhole(Aged(g))' /\ RequestContinues(Aged(g))'
  <2>1. g \in Flights /\ AnswerIsWhole(g) /\ RequestContinues(g)
    BY <1>0, PagesAreTyped DEF PagesInv
  <2>2. /\ Aged(g) \in Flights /\ Aged(g).of = g.of /\ Aged(g).stale /\ Aged(g).at = g.at
        /\ Aged(g).reply = g.reply
    BY <2>1 DEF Flights
  <2> HIDE DEF Aged
  <2>3. AnswerIsWhole(Aged(g))'
    <3>1. AnswerIsWhole(g)'
      BY <2>1 DEF AnswerIsWhole, FirstPage, WholeWindow, NoGapIn, NoGapBefore
    <3> QED
      BY <1>0, <2>2, <3>1 DEF AnswerIsWhole
  <2>4. RequestContinues(Aged(g))'
    BY <2>1, <2>2 DEF RequestContinues
  <2> QED
    BY <2>2, <2>3, <2>4
<1>4. \A h \in flights' : h \in Flights /\ AnswerIsWhole(h)' /\ RequestContinues(h)'
  <2> HIDE DEF Aged
  <2> QED
    BY <1>2, <1>3
<1>5. OneOlderPage'
  <2> HIDE DEF Aged
  <2> QED
    BY <1>2, <1>3 DEF PagesInv, OneOlderPage
<1> HIDE DEF Aged
<1>6. /\ page'.head = RowsOf(r) /\ page'.older = Nothing /\ page'.cursor = r.cursor
      /\ page'.start = r.cursor /\ page'.more = r.more /\ ~page'.olderLoaded
      /\ RowsOf(r).shown = r.shown /\ RowsOf(r).loose = r.loose
      /\ r.cursor \in 0..InAll
      /\ page' \in [head : PageParts, older : PageParts, cursor : 0..InAll,
                    start : 0..InAll, more : BOOLEAN, olderLoaded : BOOLEAN]
  BY <1>1, <1>2, RepliesAre
<1>7. PagesTypeOK'
  BY <1>0, <1>2, <1>4, <1>6 DEF PagesTypeOK, PageParts
<1>8. r.cursor # NoCursor => r.cursor \notin Hidden /\ r.cursor <= newest
  BY <1>1 DEF FirstPage
<1>9. CursorsExist'
  BY <1>6, <1>8 DEF CursorsExist
<1>10. BoardIsWhole'
  <2> DEFINE lo == IF r.more THEN r.cursor ELSE NoCursor
  <2>1. NoGapIn(r, lo)
    BY <1>1 DEF FirstPage
  <2>2. NoGapIn(RowsOf(r), lo)
    BY <1>6, <2>1 DEF NoGapIn
  <2>3. NoGapIn(page'.head, IF page'.more \/ page'.olderLoaded THEN page'.start ELSE NoCursor)
    BY <1>6, <2>2
  <2>4. NoGapIn(page.head, IF page.more \/ page.olderLoaded THEN page.start ELSE NoCursor)'
    BY <2>3 DEF NoGapIn
  <2>5. r.cursor # NoCursor => r.cursor \in r.shown /\ r.cursor <= newest /\ r.cursor \notin Hidden
    BY <1>1, <1>8 DEF FirstPage
  <2>6. (r.cursor = NoCursor => r.shown = {}) /\ \A o \in r.shown : o >= r.cursor
    BY <1>1 DEF FirstPage
  <2>7. r.cursor <= r.cursor
    BY <1>6
  <2>8. \A o \in page'.older.shown : o < page'.start
    BY <1>6 DEF Nothing
  <2>9. (page.start # NoCursor =>
            NoGapIn(page.head, IF page.more \/ page.olderLoaded THEN page.start ELSE NoCursor))'
    BY <2>4
  <2>10. newest' = newest
    OBVIOUS
  <2> QED
    BY <1>6, <2>5, <2>6, <2>7, <2>8, <2>9, <2>10 DEF BoardIsWhole
<1> QED
  BY <1>4, <1>5, <1>7, <1>9, <1>10 DEF PagesInv

(* What a request meant for the board stays true when an answer was taken.      *)
LEMMA OthersStay ==
    ASSUME PagesInv, UNCHANGED newest, NEW f \in flights, flights' = flights \ {f},
           page'.start = page.start, page.olderLoaded => page'.olderLoaded,
           \/ f.of = "older"
           \/ page'.cursor = page.cursor /\ page'.more = page.more
    PROVE  /\ \A g \in flights' : g \in Flights /\ AnswerIsWhole(g)' /\ RequestContinues(g)'
           /\ OneOlderPage'
<1>1. ASSUME NEW g \in flights'
      PROVE  g \in Flights /\ AnswerIsWhole(g)' /\ RequestContinues(g)'
  <2>1. g \in flights /\ g # f /\ g \in Flights /\ AnswerIsWhole(g) /\ RequestContinues(g)
    BY DEF PagesInv, PagesTypeOK
  <2>2. AnswerIsWhole(g)'
    BY <2>1 DEF AnswerIsWhole, FirstPage, WholeWindow, NoGapIn, NoGapBefore
  <2>3. f.of = "older" => g.of # "older"
    BY <2>1 DEF PagesInv, OneOlderPage
  <2>4. RequestContinues(g)'
    BY <2>1, <2>3 DEF RequestContinues
  <2> QED
    BY <2>1, <2>2, <2>4
<1>2. OneOlderPage'
  BY DEF PagesInv, OneOlderPage
<1> QED
  BY <1>1, <1>2

LEMMA KeepsOlderKeeps ==
    ASSUME PagesInv, NEW f \in flights, f.of \in {"refresh", "reload"}, f.reply.given,
           ~f.reply.truncated, f.at # NoCursor, KeepsOlder(f), UNCHANGED newest
    PROVE  PagesInv'
<1> DEFINE r == f.reply
<1>0. PagesTypeOK
  BY DEF PagesInv
<1>1. r \in Replies /\ WholeWindow(f.at, r) /\ RequestContinues(f) /\ f.of = "refresh"
  BY <1>0, PagesAreTyped DEF PagesInv, AnswerIsWhole, RequestContinues
<1>2. /\ page' = [page EXCEPT !.head = RowsOf(r)] /\ mixed' = (mixed \/ f.stale)
      /\ flights' = flights \ {f}
  BY DEF KeepsOlder
<1>3. RowsOf(r) \in PageParts /\ RowsOf(r).shown = r.shown /\ RowsOf(r).loose = r.loose
  BY <1>1, RepliesAre
<1>4. /\ page'.head = RowsOf(r) /\ page'.older = page.older /\ page'.cursor = page.cursor
      /\ page'.start = page.start /\ page'.more = page.more
      /\ page'.olderLoaded = page.olderLoaded
  BY <1>0, <1>2 DEF PagesTypeOK
<1>5. /\ \A g \in flights' : g \in Flights /\ AnswerIsWhole(g)' /\ RequestContinues(g)'
      /\ OneOlderPage'
  BY <1>2, <1>4, OthersStay
<1>6. PagesTypeOK'
  <2>1. page' \in [head : [shown : SUBSET (1..InAll), loose : SUBSET Loose],
                   older : [shown : SUBSET (1..InAll), loose : SUBSET Loose],
                   cursor : 0..InAll, start : 0..InAll, more : BOOLEAN, olderLoaded : BOOLEAN]
    BY <1>0, <1>2, <1>3 DEF PagesTypeOK, PageParts
  <2>2. mixed' \in BOOLEAN
    BY <1>2
  <2> QED
    BY <1>0, <1>5, <2>1, <2>2 DEF PagesTypeOK
<1>7. CursorsExist'
  BY <1>4 DEF PagesInv, CursorsExist
<1>8. ASSUME ~mixed'
      PROVE  BoardIsWhole'
  <2>1. BoardIsWhole /\ ~f.stale
    BY <1>2, <1>8 DEF PagesInv
  <2>2. f.at = page.start /\ page.olderLoaded
    BY <1>1, <2>1 DEF RequestContinues
  <2>3. NoGapIn(r, page.start) /\ page.start \in r.shown /\ \A o \in r.shown : o >= page.start
    BY <1>1, <2>2 DEF WholeWindow
  <2>4. NoGapIn(page'.head, IF page'.more \/ page'.olderLoaded THEN page'.start ELSE NoCursor)
    BY <1>3, <1>4, <2>2, <2>3 DEF NoGapIn
  <2>5. NoGapIn(page.head, IF page.more \/ page.olderLoaded THEN page.start ELSE NoCursor)'
    BY <2>4 DEF NoGapIn
  <2> QED
    BY <1>3, <1>4, <2>1, <2>2, <2>3, <2>5 DEF BoardIsWhole
<1> QED
  BY <1>5, <1>6, <1>7, <1>8 DEF PagesInv

LEMMA RefreshedKeeps ==
    ASSUME PagesInv, NEW f \in flights, Refreshed(f)
    PROVE  PagesInv'
<1>1. f.of \in {"refresh", "reload"} /\ f.reply.given /\ UNCHANGED newest
  BY DEF Refreshed
<1>2. CASE f.reply.truncated
  BY <1>1, <1>2, ReadsAgainKeeps DEF Refreshed
<1>3. CASE ~f.reply.truncated /\ f.at = NoCursor
  BY <1>1, <1>3, StartsOverKeeps DEF Refreshed
<1>4. CASE ~f.reply.truncated /\ f.at # NoCursor
  BY <1>1, <1>4, KeepsOlderKeeps DEF Refreshed
<1> QED
  BY <1>2, <1>3, <1>4

LEMMA OlderLoadedKeeps ==
    ASSUME PagesInv, NEW f \in flights, OlderLoaded(f)
    PROVE  PagesInv'
<1> DEFINE r == f.reply
           older  == [shown |-> page.older.shown \cup r.shown,
                      loose |-> page.older.loose \cup r.loose]
           cursor == IF r.cursor = NoCursor THEN page.cursor ELSE r.cursor
<1>0. PagesTypeOK
  BY DEF PagesInv
<1>1. /\ r \in Replies /\ NoGapBefore(f.at, r) /\ RequestContinues(f) /\ f.of = "older"
      /\ f.at \in 0..InAll /\ f.at # NoCursor /\ f.at <= newest
  BY <1>0, PagesAreTyped DEF OlderLoaded, PagesInv, AnswerIsWhole, RequestContinues
<1>2. /\ page' = [page EXCEPT !.older = older, !.olderLoaded = TRUE, !.cursor = cursor,
                              !.more = r.more]
      /\ mixed' = (mixed \/ f.stale) /\ flights' = flights \ {f} /\ UNCHANGED newest
  BY DEF OlderLoaded
<1>3. /\ page'.head = page.head /\ page'.older = older /\ page'.cursor = cursor
      /\ page'.start = page.start /\ page'.more = r.more /\ page'.olderLoaded
  BY <1>0, <1>2 DEF PagesTypeOK
<1>4. /\ \A g \in flights' : g \in Flights /\ AnswerIsWhole(g)' /\ RequestContinues(g)'
      /\ OneOlderPage'
  <2> HIDE DEF older, cursor
  <2> QED
    BY <1>1, <1>2, <1>3, OthersStay
<1>5. /\ page.older \in PageParts /\ page.cursor \in 0..InAll /\ page.start \in 0..InAll
      /\ r.shown \subseteq 1..InAll /\ r.loose \subseteq Loose /\ r.cursor \in 0..InAll
      /\ r.more \in BOOLEAN /\ newest \in Nat /\ InAll \in Nat
  BY <1>0, <1>1, PagesAreTyped, RepliesAre
<1>6. PagesTypeOK'
  <2>1. older \in PageParts /\ cursor \in 0..InAll
    BY <1>5 DEF PageParts
  <2> HIDE DEF older, cursor
  <2>2. page' \in [head : [shown : SUBSET (1..InAll), loose : SUBSET Loose],
                   older : [shown : SUBSET (1..InAll), loose : SUBSET Loose],
                   cursor : 0..InAll, start : 0..InAll, more : BOOLEAN, olderLoaded : BOOLEAN]
    BY <1>0, <1>2, <1>5, <2>1 DEF PagesTypeOK, PageParts
  <2>3. mixed' \in BOOLEAN
    BY <1>2
  <2> QED
    BY <1>0, <1>2, <1>4, <2>2, <2>3 DEF PagesTypeOK
<1>7. CursorsExist'
  <2>1. r.cursor # NoCursor => r.cursor \notin Hidden /\ r.cursor <= newest
    BY <1>1, <1>5 DEF NoGapBefore
  <2>2. CursorsExist
    BY DEF PagesInv
  <2> QED
    BY <1>2, <1>3, <2>1, <2>2 DEF CursorsExist
<1>8. ASSUME ~mixed'
      PROVE  BoardIsWhole'
  <2>1. BoardIsWhole /\ f.at = page.cursor /\ page.more
    BY <1>1, <1>2, <1>8 DEF PagesInv, RequestContinues
  <2> DEFINE start == page.start
  <2>2. /\ start # NoCursor /\ page.cursor <= start /\ start <= newest
        /\ start \in page.head.shown /\ start \notin Hidden /\ page.cursor \notin Hidden
        /\ NoGapIn(page.head, start)
        /\ \A o \in page.head.shown : o >= start
        /\ \A o \in page.older.shown : o < start
        /\ ~page.olderLoaded => page.older = Nothing /\ page.cursor = start
        /\ page.olderLoaded =>
              /\ \A o \in 1..InAll \ Hidden : o < start /\ o >= page.cursor => o \in page.older.shown
              /\ \A l \in Loose :
                     l < Instant[start] /\ l >= Instant[page.cursor] => l \in page.older.loose
    BY <1>1, <2>1 DEF BoardIsWhole
  <2>3. /\ \A o \in r.shown : o < page.cursor
        /\ r.cursor # NoCursor => r.cursor < page.cursor /\ r.cursor \notin Hidden
        /\ \A o \in 1..InAll \ Hidden :
               /\ o < page.cursor
               /\ r.more => r.cursor # NoCursor /\ o >= r.cursor
               => o \in r.shown
        /\ \A l \in Loose :
               /\ l < Instant[page.cursor]
               /\ r.more /\ r.cursor # NoCursor => l >= Instant[r.cursor]
               => l \in r.loose
    BY <1>1, <2>1 DEF NoGapBefore
  <2>4. /\ cursor # NoCursor /\ cursor <= start /\ cursor \notin Hidden
        /\ cursor <= page.cursor
    BY <1>1, <1>5, <2>1, <2>2, <2>3 DEF NoCursor
  <2>5. \A o \in older.shown : o < start
    <3>1. \A o \in r.shown : o < start
      BY <1>5, <2>2, <2>3
    <3> QED
      BY <2>2, <3>1
  <2>6. ASSUME NEW o \in 1..InAll \ Hidden, o < start, r.more => o >= cursor
        PROVE  o \in older.shown
    <3>1. CASE o >= page.cursor
      BY <1>5, <2>2, <2>6, <3>1
    <3>2. CASE o < page.cursor
      <4>1. r.more => r.cursor # NoCursor /\ o >= r.cursor
        BY <1>5, <2>6, <3>2
      <4> QED
        BY <2>3, <3>2, <4>1
    <3> QED
      BY <1>5, <3>1, <3>2
  <2>7. ASSUME NEW l \in Loose, l < Instant[start], r.more => l >= Instant[cursor]
        PROVE  l \in older.loose
    <3>0. l \in Nat /\ Instant[page.cursor] \in Nat /\ Instant[start] \in Nat
      BY <1>1, <1>5, <2>1, <2>2, PagesAssumption DEF NoCursor
    <3>1. CASE l >= Instant[page.cursor]
      BY <2>2, <2>7, <3>0, <3>1
    <3>2. CASE l < Instant[page.cursor]
      <4>1. r.more /\ r.cursor # NoCursor => l >= Instant[r.cursor]
        BY <2>7
      <4> QED
        BY <2>3, <3>2, <4>1
    <3> QED
      BY <3>0, <3>1, <3>2
  <2> HIDE DEF older, cursor
  <2>8. NoGapIn(page.head, IF page.more \/ page.olderLoaded THEN page.start ELSE NoCursor)'
    BY <1>3, <2>2 DEF NoGapIn
  <2> QED
    BY <1>2, <1>3, <2>2, <2>4, <2>5, <2>6, <2>7, <2>8 DEF BoardIsWhole
<1> QED
  BY <1>4, <1>6, <1>7, <1>8 DEF PagesInv

-----------------------------------------------------------------------------
LEMMA PagesInitHolds ==
    ASSUME PagesInit
    PROVE  PagesInv
<1> DEFINE r == PageReply(NoCursor)
<1>0. /\ newest = AtStart /\ page = Restarted(r) /\ flights = {} /\ mixed = FALSE
      /\ NoCursor \in 0..InAll /\ newest \in AtStart..InAll
  BY PagesAssumption DEF PagesInit, NoCursor
<1>1. r \in Replies /\ FirstPage(r)
  BY <1>0, PageReplyIs
<1> HIDE DEF r
<1>2. /\ page.head = RowsOf(r) /\ page.older = Nothing /\ page.cursor = r.cursor
      /\ page.start = r.cursor /\ page.more = r.more /\ ~page.olderLoaded
      /\ RowsOf(r).shown = r.shown /\ RowsOf(r).loose = r.loose
      /\ r.cursor \in 0..InAll
      /\ page \in [head : PageParts, older : PageParts, cursor : 0..InAll,
                   start : 0..InAll, more : BOOLEAN, olderLoaded : BOOLEAN]
  BY <1>0, <1>1, RepliesAre
<1>3. PagesTypeOK
  BY <1>0, <1>2 DEF PagesTypeOK, PageParts
<1>4. r.cursor # NoCursor => r.cursor \notin Hidden /\ r.cursor <= newest /\ r.cursor \in r.shown
  BY <1>1 DEF FirstPage
<1>5. CursorsExist
  BY <1>2, <1>4 DEF CursorsExist
<1>6. NoGapIn(page.head, IF page.more \/ page.olderLoaded THEN page.start ELSE NoCursor)
  BY <1>1, <1>2 DEF FirstPage, NoGapIn
<1>7. (r.cursor = NoCursor => r.shown = {}) /\ (\A o \in r.shown : o >= r.cursor)
      /\ r.cursor <= r.cursor
  BY <1>1, <1>2 DEF FirstPage
<1>8. BoardIsWhole
  <2>1. page.start # NoCursor =>
            NoGapIn(page.head, IF page.more \/ page.olderLoaded THEN page.start ELSE NoCursor)
    BY <1>6
  <2>2. \A o \in page.older.shown : o < page.start
    BY <1>2 DEF Nothing
  <2> QED
    BY <1>2, <1>4, <1>7, <2>1, <2>2 DEF BoardIsWhole
<1> QED
  BY <1>0, <1>3, <1>5, <1>8 DEF PagesInv, OneOlderPage

LEMMA PagesNextKeeps == PagesInv /\ [PagesNext]_pageVars => PagesInv'
<1> SUFFICES ASSUME PagesInv, [PagesNext]_pageVars
             PROVE  PagesInv'
  OBVIOUS
<1>1. CASE NewObjective
  BY <1>1, NewObjectiveKeeps
<1>2. CASE Refresh
  BY <1>2, RefreshKeeps
<1>3. CASE LoadOlder
  BY <1>3, LoadOlderKeeps
<1>4. ASSUME NEW f \in flights, HubAnswers(f) \/ Refreshed(f) \/ OlderLoaded(f) \/ RequestLost(f)
      PROVE  PagesInv'
  BY <1>4, HubAnswersKeeps, RefreshedKeeps, OlderLoadedKeeps, RequestLostKeeps
<1>5. CASE UNCHANGED pageVars
  <2>1. UNCHANGED <<newest, page, flights, mixed>>
    BY <1>5 DEF pageVars
  <2> QED
    BY <2>1, BoardStays DEF PagesInv, PagesTypeOK, OneOlderPage
<1> QED
  BY <1>1, <1>2, <1>3, <1>4, <1>5 DEF PagesNext

(* What the tab holds and what is under way, through every step.               *)
THEOREM PagesInductive == PagesSpec => []PagesInv
<1>1. PagesInit => PagesInv
  BY PagesInitHolds
<1> QED
  BY <1>1, PagesNextKeeps, PTL DEF PagesSpec

LEMMA WholeBoardHasNoHole ==
    ASSUME PagesInv
    PROVE  BoardHasNoHole
<1> DEFINE start == page.start
           head  == page.head
           older == page.older
<1>0. PagesTypeOK /\ newest \in AtStart..InAll
  BY DEF PagesInv, PagesTypeOK
<1>1. /\ newest \in 1..InAll /\ newest \in Nat /\ InAll \in Nat
      /\ head \in PageParts /\ older \in PageParts
      /\ page.cursor \in 0..InAll /\ start \in 0..InAll
  BY <1>0, PagesAreTyped
<1>2. SUFFICES ASSUME ~mixed
               PROVE  /\ \A o \in (1..newest) \ Hidden :
                             UpTo(o) /\ (page.more => o >= page.cursor) => o \in Shown
                      /\ \A l \in LooseWritten :
                             /\ \E p \in Shown : l <= Instant[p]
                             /\ page.more /\ page.cursor # NoCursor => l >= Instant[page.cursor]
                             => l \in ShownLoose
  BY <1>0 DEF BoardHasNoHole
<1>3. BoardIsWhole
  BY <1>2 DEF PagesInv
<1>4. CASE start = NoCursor
  <2>1. Shown = {}
    BY <1>3, <1>4 DEF BoardIsWhole, Shown, Nothing
  <2> QED
    BY <2>1 DEF UpTo
<1>5. CASE start # NoCursor
  <2>1. /\ page.cursor # NoCursor /\ page.cursor <= start /\ start <= newest
        /\ start \in head.shown /\ start \notin Hidden
        /\ NoGapIn(head, IF page.more \/ page.olderLoaded THEN start ELSE NoCursor)
        /\ \A o \in head.shown : o >= start
        /\ \A o \in older.shown : o < start
        /\ ~page.olderLoaded => page.cursor = start
        /\ page.olderLoaded =>
              /\ \A o \in 1..InAll \ Hidden :
                     o < start /\ (page.more => o >= page.cursor) => o \in older.shown
              /\ \A l \in Loose :
                     l < Instant[start] /\ (page.more => l >= Instant[page.cursor])
                     => l \in older.loose
    BY <1>3, <1>5 DEF BoardIsWhole
  <2>2. head.shown \subseteq 1..InAll /\ older.shown \subseteq 1..InAll /\ start \in 1..InAll
    BY <1>1, <1>5 DEF PageParts, NoCursor
  <2>3. \A p \in 1..InAll : Instant[p] \in Nat
    BY PagesAssumption
  <2>4. ASSUME NEW o \in (1..newest) \ Hidden, NEW p \in Shown, o <= p,
               page.more => o >= page.cursor
        PROVE  o \in Shown
    <3>1. o \in 1..InAll \ Hidden
      BY <1>1
    <3>2. CASE o >= start
      <4>1. p \in head.shown
        BY <1>1, <2>1, <2>2, <2>4, <3>1, <3>2 DEF Shown
      <4>2. NoCursor <= o
        BY DEF NoCursor
      <4>3. o \in head.shown
        BY <2>1, <2>4, <3>1, <3>2, <4>1, <4>2 DEF NoGapIn
      <4> QED
        BY <4>3 DEF Shown
    <3>3. CASE o < start /\ page.olderLoaded
      BY <2>1, <2>4, <3>1, <3>3 DEF Shown
    <3>4. CASE o < start /\ ~page.olderLoaded
      <4>1. ~page.more
        BY <1>1, <2>1, <2>4, <3>4
      <4>2. o >= NoCursor /\ o <= start
        BY <1>1, <3>4 DEF NoCursor
      <4>3. o \in head.shown
        BY <2>1, <3>1, <3>4, <4>1, <4>2 DEF NoGapIn
      <4> QED
        BY <4>3 DEF Shown
    <3> QED
      BY <1>1, <3>2, <3>3, <3>4
  <2>5. ASSUME NEW l \in LooseWritten, NEW p \in Shown, l <= Instant[p],
               page.more /\ page.cursor # NoCursor => l >= Instant[page.cursor]
        PROVE  l \in ShownLoose
    <3>0. l \in Loose /\ l \in Nat /\ p \in 1..InAll
      BY <2>2, PagesAssumption DEF LooseWritten, Shown
    <3>1. CASE l >= Instant[start]
      <4>1. \E q \in head.shown : l <= Instant[q]
        <5>1. CASE p \in head.shown
          BY <2>5, <5>1
        <5>2. CASE p \in older.shown
          <6>1. Instant[p] <= Instant[start]
            BY <2>1, <2>2, <3>0, <5>2, PagesAssumption
          <6>2. l <= Instant[start]
            BY <2>2, <2>3, <2>5, <3>0, <6>1
          <6> QED
            BY <2>1, <6>2
        <5> QED
          BY <5>1, <5>2 DEF Shown
      <4>2. l \in head.loose
        BY <2>1, <3>0, <3>1, <4>1 DEF NoGapIn
      <4> QED
        BY <4>2 DEF ShownLoose
    <3>2. CASE l < Instant[start] /\ page.olderLoaded
      BY <2>1, <2>5, <3>0, <3>2 DEF ShownLoose
    <3>3. CASE l < Instant[start] /\ ~page.olderLoaded
      <4>1. ~page.more
        BY <2>1, <2>2, <2>3, <2>5, <3>0, <3>3
      <4>2. l <= Instant[start]
        BY <2>2, <2>3, <3>0, <3>3
      <4>3. l \in head.loose
        BY <2>1, <3>0, <3>3, <4>1, <4>2 DEF NoGapIn
      <4> QED
        BY <4>3 DEF ShownLoose
    <3> QED
      BY <2>2, <2>3, <3>0, <3>1, <3>2, <3>3
  <2> QED
    BY <2>4, <2>5 DEF UpTo
<1> QED
  BY <1>4, <1>5

(* The board of a project has no hole, however many objectives it has, how       *)
(* they share their instants and however the answers overtake each other.       *)
THEOREM PagesHaveNoHole == PagesSpec => []BoardHasNoHole
BY PagesInductive, WholeBoardHasNoHole, PTL
=============================================================================

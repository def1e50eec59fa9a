----------------------------- MODULE Qualifier -----------------------------
(***************************************************************************)
(* The background qualification of free routes (AutoQualifier) and its      *)
(* evidence (QualificationStore): a cycle reads the rows of evidence, calls  *)
(* the routes that have none and do not rest after a failure, and writes     *)
(* what it found.  The owner's canary runs the same cycle, other readers     *)
(* share the cache of the store, and the process may die at any point.       *)
(***************************************************************************)
EXTENDS Naturals, Sequences, SequencesExt, FiniteSets

CONSTANTS
    Order,         \* the free routes, the most capable first
    ProviderOf,    \* [route |-> its provider]
    Caps,          \* dailyProviderCap: [provider |-> routes in a day]
    PerProvider,   \* maxPerProvider
    MaxRoutes, MaxCodingRoutes,
    RowLimit,      \* limit(300)
    Transient, Permanent, MaxRest, RetireAfter,    \* the back-off, in instants
    MaxAge,        \* QUALIFICATION_MAX_AGE_MS
    Interval, BacklogInterval, Day,
    Horizon, MaxProbes, MaxEvents                  \* bounds

VARIABLES
    now,
    rows,          \* provider_canary_runs of the qualifier, newest first
    cache,         \* of the store: <<>> or <<the rows it was built from>>
    lapsed,        \* a cache too old to be used while the store can be read: likewise
    reading,       \* a snapshot of another reader under way: likewise
    cycle,         \* the cycle under way
    daily,         \* dailyCount: routes counted today
    nextAt,
    known,         \* what was recorded of each route, whatever the rows still show
    probes,
    events         \* canaries, restarts and failures of the store

qualifier == <<now, rows, cache, lapsed, reading, cycle, daily, nextAt, known, probes, events>>

QRoutes   == {Order[i] : i \in DOMAIN Order}
Providers == {ProviderOf[r] : r \in QRoutes}

Errors   == {"permanent", "transient"}
Outcomes == {"qualified", "failed"} \cup Errors

(* A result; coding results carry the grade as "qualified" or "failed".      *)
Result(r, status) == [route |-> r, status |-> status, at |-> now]

Idle == [pc |-> "idle", by |-> "none", view |-> <<>>, blind |-> FALSE, todo |-> <<>>,
         results |-> <<>>, used |-> {}, backlog |-> 0]

(* The newest result of a route that is no error, and its errors since, each *)
(* with the number of rows of either suite that were written after it.      *)
NothingKnown == [passed |-> 0, verdict |-> "none", behind |-> 0, failed |-> <<>>, error |-> "none"]

QualifierInit ==
    /\ now = 1 /\ nextAt = 1
    /\ rows = <<>> /\ cache = <<>> /\ lapsed = <<>> /\ reading = <<>>
    /\ cycle = Idle
    /\ daily = [day |-> 0, counts |-> [p \in Providers |-> 0]]
    /\ known = [k \in {"general", "coding"} |-> [r \in QRoutes |-> NothingKnown]]
    /\ probes = 0 /\ events = 0

-----------------------------------------------------------------------------
(* snapshot(): the rows of the last MaxAge, the newest RowLimit of them.     *)
Window ==
    LET recent == SelectSeq(rows, LAMBDA row : now - row.at < MaxAge)
    IN SubSeq(recent, 1, IF Len(recent) < RowLimit THEN Len(recent) ELSE RowLimit)

(* The results of a route, newest first.                                    *)
Of(view, kind, r) ==
    SelectSeq(FlattenSeq([i \in DOMAIN view |-> IF view[i].kind = kind THEN view[i].results ELSE <<>>]),
              LAMBDA result : result.route = r)

\* Seeded mistake: the newest row of a route decides, an error too.
FoundNewest(view, kind, r) ==
    LET mine == Of(view, kind, r)
    IN IF mine # <<>> /\ mine[1].status \notin Errors THEN 1 ELSE 0

(* A later error never hides an earlier result.                             *)
Found(view, kind, r) == SelectInSeq(Of(view, kind, r), LAMBDA result : result.status \notin Errors)

Valid(view, kind, r) ==
    LET i == Found(view, kind, r) IN i > 0 /\ now - Of(view, kind, r)[i].at < MaxAge

Qualified(view, kind, r) ==
    /\ Valid(view, kind, r)
    /\ Of(view, kind, r)[Found(view, kind, r)].status = "qualified"

(* The errors newer than the newest result; only the general ones are        *)
(* counted.                                                                 *)
\* Seeded mistake: the errors of the newest row only.
ErrorsOfNewest(view, kind, r) ==
    LET mine == Of(view, kind, r) IN IF Found(view, kind, r) = 1 \/ mine = <<>> THEN 0 ELSE 1

ErrorsSince(view, kind, r) ==
    LET mine == Of(view, kind, r)
        i == Found(view, kind, r)
    IN IF i = 0 THEN Len(mine) ELSE i - 1

Least(a, b) == IF a < b THEN a ELSE b

(* qualificationBackoffMs                                                   *)
BackOff(error, count) ==
    IF error = "permanent" THEN Least(MaxRest, Permanent * 2 ^ Least(count - 1, 3))
    ELSE IF count >= RetireAfter THEN Permanent ELSE Transient

Rests(view, kind, r) ==
    LET n == ErrorsSince(view, kind, r)
        last == Of(view, kind, r)[1]
    IN n > 0 /\ last.at + BackOff(last.status, IF kind = "general" THEN n ELSE 1) > now

-----------------------------------------------------------------------------
CountOf(picked, p) == Cardinality({i \in DOMAIN picked : ProviderOf[picked[i]] = p})

(* Those of a list that, in its order, still fit.                           *)
Fitting(list, fits(_, _)) ==
    FoldLeft(LAMBDA picked, r : IF fits(picked, r) THEN Append(picked, r) ELSE picked, <<>>, list)

Today == now \div Day

Counts == IF daily.day = Today THEN daily.counts ELSE [p \in Providers |-> 0]

UnderCap(picked, r) == Counts[ProviderOf[r]] + CountOf(picked, ProviderOf[r]) < Caps[ProviderOf[r]]

Counted(picked) == [day |-> Today, counts |-> [p \in Providers |-> Counts[p] + CountOf(picked, p)]]

(* qualificationCandidates: before and after the limits.                     *)
Pending(view, cooling) ==
    SelectSeq(Order, LAMBDA r : /\ ~Valid(view, "general", r)
                                /\ r \notin cooling
                                /\ ~Rests(view, "general", r))

Candidates(view, cooling) ==
    LET few == Fitting(Pending(view, cooling),
                   LAMBDA picked, r : CountOf(picked, ProviderOf[r]) < PerProvider)
    IN Fitting(SubSeq(few, 1, Least(Len(few), MaxRoutes)), UnderCap)

CodingPending(view) ==
    SelectSeq(Order, LAMBDA r : /\ Qualified(view, "general", r)
                                /\ ~Valid(view, "coding", r)
                                /\ ~Rests(view, "coding", r))

CodingPicks(view, used) ==
    Fitting(CodingPending(view),
        LAMBDA picked, r : /\ Len(picked) < MaxCodingRoutes
                           /\ ProviderOf[r] \notin used
                           /\ CountOf(picked, ProviderOf[r]) = 0
                           /\ UnderCap(<<>>, r))

-----------------------------------------------------------------------------
Happens == events < MaxEvents /\ events' = events + 1
Works == UNCHANGED events

(* The background cycle is due, or the owner's canary asks for one; while a  *)
(* cycle runs the other does nothing.                                       *)
Due(by) ==
    /\ by = "background" => now >= nextAt
    /\ nextAt' = IF by = "background" THEN now + Interval ELSE nextAt

Meet(by) ==
    /\ cycle.pc # "idle" /\ cycle.by # by
    /\ by = "background"
    /\ Due(by)
    /\ Works
    /\ UNCHANGED <<now, rows, cache, lapsed, reading, cycle, daily, known, probes>>

(* The snapshot of the store: its cache, or a read, which may fail: then the *)
(* store says what it knew before the cache lapsed, or that nothing is known. *)
Before == IF lapsed = <<>> THEN <<>> ELSE lapsed[1]

Snapshot(view, blind) ==
    \/ cache # <<>> /\ view = cache[1] /\ ~blind /\ UNCHANGED <<cache, lapsed>>
    \/ cache = <<>> /\ view = Window /\ ~blind /\ cache' = <<Window>> /\ lapsed' = <<>>
    \/ cache = <<>> /\ view = Before /\ blind /\ UNCHANGED <<cache, lapsed>>

Views == {Window, Before} \cup {cache[i] : i \in DOMAIN cache}

Begin(by, cooling) ==
    /\ cycle.pc = "idle"
    /\ Due(by)
    /\ \E view \in Views, blind \in BOOLEAN :
           /\ Snapshot(view, blind)
           /\ IF by = "canary" \/ blind THEN Happens ELSE Works
           /\ LET todo == Candidates(view, cooling) IN
              /\ cycle' = [pc |-> "probing", by |-> by, view |-> view, blind |-> blind, todo |-> todo,
                           results |-> <<>>, used |-> {ProviderOf[todo[i]] : i \in DOMAIN todo},
                           backlog |-> Len(Pending(view, cooling)) - Len(todo)]
              /\ daily' = Counted(todo)
    /\ UNCHANGED <<now, rows, reading, known, probes>>

Asked(status) ==
    [cycle EXCEPT !.todo = Tail(@), !.results = Append(@, Result(cycle.todo[1], status))]

(* qualifyRoute: one route, whatever it answers.                             *)
Probe ==
    /\ cycle.pc = "probing" /\ cycle.todo # <<>>
    /\ probes < MaxProbes /\ probes' = probes + 1
    /\ \E status \in Outcomes : cycle' = Asked(status)
    /\ UNCHANGED <<now, rows, cache, lapsed, reading, daily, nextAt, known, events>>

(* save(): one row, and no cache.                                           *)
PushedBack(k) ==
    [k EXCEPT !.behind = @ + 1,
              !.failed = [i \in DOMAIN k.failed |-> [k.failed[i] EXCEPT !.behind = @ + 1]]]

Learnt(k, result) ==
    IF result.status \in Errors
    THEN [k EXCEPT !.failed = <<[at |-> result.at, behind |-> 0]>> \o @, !.error = result.status]
    ELSE [NothingKnown EXCEPT !.passed = result.at, !.verdict = result.status]

Learn(kind, results) ==
    [k \in DOMAIN known |-> [r \in QRoutes |->
        FoldLeft(LAMBDA mine, result : IF result.route = r THEN Learnt(mine, result) ELSE mine,
                 PushedBack(known[k][r]), IF k = kind THEN results ELSE <<>>)]]

Save(kind, results) ==
    /\ rows' = <<[kind |-> kind, at |-> now, results |-> results]>> \o
                   SelectSeq(rows, LAMBDA row : now - row.at < MaxAge)
    /\ known' = Learn(kind, results)

DropsCache == cache' = <<>> /\ lapsed' = <<>>

(* The write fails, or only its answer is lost: the cycle throws.            *)
SaveThrows(kind, results) ==
    /\ Save(kind, results) \/ UNCHANGED <<rows, known>>
    /\ Happens
    /\ cycle' = Idle
    /\ UNCHANGED <<daily, nextAt>>

GeneralDone ==
    /\ cycle.pc = "probing" /\ cycle.todo = <<>>
    /\ \/ /\ IF cycle.results = <<>> THEN UNCHANGED <<rows, known, cache, lapsed>>
             ELSE Save("general", cycle.results) /\ DropsCache
          /\ Works
          /\ LET picks == CodingPicks(cycle.view, cycle.used) IN
             cycle' = [cycle EXCEPT !.pc = "coding", !.todo = picks, !.results = <<>>,
                           !.backlog = @ + Len(CodingPending(cycle.view)) - Len(picks)]
          /\ UNCHANGED <<daily, nextAt>>
       \/ /\ cycle.results # <<>>
          /\ SaveThrows("general", cycle.results)
          /\ DropsCache
    /\ UNCHANGED <<now, reading, probes>>

(* qualifyCodingRoute, and its row.                                         *)
ProbeCoding ==
    /\ cycle.pc = "coding" /\ cycle.todo # <<>> /\ cycle.results = <<>>
    /\ probes < MaxProbes /\ probes' = probes + 1
    /\ daily' = Counted(<<cycle.todo[1]>>)
    /\ \E status \in Outcomes : cycle' = Asked(status)
    /\ UNCHANGED <<now, rows, cache, lapsed, reading, nextAt, known, events>>

SaveCoding ==
    /\ cycle.pc = "coding" /\ cycle.results # <<>>
    /\ \/ /\ Save("coding", cycle.results)
          /\ Works
          /\ cycle' = [cycle EXCEPT !.results = <<>>]
          /\ UNCHANGED <<daily, nextAt>>
       \/ SaveThrows("coding", cycle.results)
    /\ DropsCache
    /\ UNCHANGED <<now, reading, probes>>

(* The cycle ends; a background one that left a backlog comes back sooner.   *)
End ==
    /\ cycle.pc = "coding" /\ cycle.todo = <<>> /\ cycle.results = <<>>
    /\ nextAt' = IF cycle.by = "background" /\ cycle.backlog > 0
                 THEN Least(nextAt, now + BacklogInterval) ELSE nextAt
    /\ cycle' = Idle
    /\ Works
    /\ UNCHANGED <<now, rows, cache, lapsed, reading, daily, known, probes>>

-----------------------------------------------------------------------------
(* A router of the same process reads the evidence: what it read before a     *)
(* write may be put in the cache after it.                                  *)
ReadStarts ==
    /\ cycle.todo = <<>> /\ cycle.results # <<>>
    /\ reading = <<>>
    /\ reading' = <<Window>>
    /\ UNCHANGED <<now, rows, cache, lapsed, cycle, daily, nextAt, known, probes, events>>

ReadEnds ==
    /\ reading # <<>>
    /\ cache' = reading /\ lapsed' = <<>> /\ reading' = <<>>
    /\ UNCHANGED <<now, rows, cycle, daily, nextAt, known, probes, events>>

Restarts ==
    /\ Happens
    /\ DropsCache
    /\ cycle' = Idle /\ reading' = <<>> /\ nextAt' = now
    /\ daily' = [day |-> 0, counts |-> [p \in Providers |-> 0]]
    /\ UNCHANGED <<now, rows, known, probes>>

(* An instant is longer than the cache is kept, and than a cycle takes.       *)
Passes ==
    /\ now < Horizon /\ reading = <<>> /\ cycle.pc = "idle"
    /\ now' = now + 1
    /\ lapsed' = (IF cache = <<>> THEN lapsed ELSE cache) /\ cache' = <<>>
    /\ UNCHANGED <<rows, reading, cycle, daily, nextAt, known, probes, events>>

QualifierNext ==
    \/ \E by \in {"background", "canary"} :
           Meet(by) \/ \E cooling \in {{}, {Order[1]}} : Begin(by, cooling)
    \/ Probe \/ GeneralDone \/ ProbeCoding \/ SaveCoding \/ End
    \/ ReadStarts \/ ReadEnds \/ Restarts \/ Passes

QualifierSpec == QualifierInit /\ [][QualifierNext]_qualifier

-----------------------------------------------------------------------------
QualifierTypeOK ==
    /\ now \in 1..Horizon /\ nextAt \in 1..(Horizon + Interval)
    /\ Len(cache) \in 0..1 /\ Len(lapsed) \in 0..1 /\ Len(reading) \in 0..1
    /\ cycle.pc \in {"idle", "probing", "coding"} /\ cycle.backlog \in Nat
    /\ probes \in 0..MaxProbes /\ events \in 0..MaxEvents

(* A row can be seen until it is too old or RowLimit newer rows, of either    *)
(* suite, have pushed it out of the read.                                   *)
Shown(at, behind) == now - at < MaxAge /\ behind < RowLimit

(* A route that keeps failing is called less and less: after each failure    *)
(* it rests for the back-off of its failures in a row, across restarts and   *)
(* lost writes, and a route whose evidence is valid is not called at all.    *)
(* The exceptions: a failure or a result that is too old or behind the limit *)
(* of the read counts no more, which shortens the back-off; a cycle that     *)
(* could not read the evidence; and the minutes after a write, when a reader *)
(* may have put older evidence in the cache (qualification.js:263-372).  The *)
(* coding suite does not count its failures.                                *)
Rested(kind, r) ==
    LET k == known[kind][r]
        failed == SelectSeq(k.failed, LAMBDA f : Shown(f.at, f.behind))
        count == IF kind = "general" THEN Len(failed) ELSE 1
    IN /\ failed # <<>> => now = failed[1].at \/ now >= failed[1].at + BackOff(k.error, count)
       /\ k.verdict # "none" /\ Shown(k.passed, k.behind) => now = k.passed

DeadRoutesRest ==
    LET kind == IF cycle'.pc = "probing" THEN "general" ELSE "coding" IN
    Len(cycle'.todo) > Len(cycle.todo) /\ ~cycle'.blind =>
        \A i \in DOMAIN cycle'.todo : Rested(kind, cycle'.todo[i])

(* What is recorded decides what a route may be used for (qualificationGaps,  *)
(* codingTierGaps): the newest result that is not an error, however many      *)
(* errors came after it, until it is too old or behind the limit of the read: *)
(* a valid result with RowLimit newer rows of either suite is forgotten.  A   *)
(* cached snapshot shows nothing that was not recorded, but it may miss what  *)
(* was written in the same minutes.                                         *)
Passed(kind, r) ==
    LET k == known[kind][r] IN k.verdict = "qualified" /\ now - k.passed < MaxAge

Trusted(kind, r) ==
    LET k == known[kind][r] IN Passed(kind, r) /\ Shown(k.passed, k.behind)

EvidenceDecides ==
    \A kind \in DOMAIN known, r \in QRoutes :
        /\ Qualified(Window, kind, r) <=> Trusted(kind, r)
        /\ \A i \in DOMAIN cache :
               Qualified(cache[i], kind, r) => Passed(kind, r) \/ known[kind][r].passed = now
=============================================================================

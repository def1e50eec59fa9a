------------------------------ MODULE OpsWatch ------------------------------
(***************************************************************************)
(* The ops watch (src/ops/ops-watch.js), started by a timer of the runtime *)
(* (src/index.js).  A watch reads what happened in its window and which    *)
(* findings were announced before, compares the row counts of the history  *)
(* tables with the last snapshot, records the findings that are new, and   *)
(* sends them to the owner.  A watch does not wait for the one before.     *)
(*                                                                         *)
(* Time: every period of the timer is an even instant, the odd one after   *)
(* it is the minute before the next watch.  The window of a watch is the   *)
(* period before it and the minute before that period.                     *)
(***************************************************************************)
EXTENDS Naturals, Sequences, FiniteSets

CONSTANTS
    MaxCalls,   \* bound: paid model calls, numbered as they start
    MaxRows,    \* bound: rows of a history table (0: nothing is counted)
    MinDrop,    \* how many rows fewer are a sharp drop
    Stale,      \* age at which a snapshot is stored again
    Horizon     \* bound: the last instant

ASSUME WatchAssumption ==
    MaxCalls \in Nat /\ MaxRows \in Nat /\ MinDrop \in Nat /\ Stale \in Nat /\ Horizon \in Nat \ {0}

VARIABLES
    now,
    call,      \* call[c]: when it started and, once its cost is recorded, ended
    rows,      \* rows of the table
    cleanups,  \* when an approved bulk delete was recorded
    snaps,     \* the stored snapshots, the oldest first
    recorded,  \* the announced keys (within their seven days)
    watches,   \* watches under way
    sent,      \* history: <<watch, key>> sent to the owner
    lost,      \* history: keys whose watch failed between the record and the message
    cut,       \* history: watches that failed, were killed or never started
    blind,     \* history: watches that did not get to see the last snapshot
    overlaps   \* history: pairs of watches under way together

watchVars == <<now, call, rows, cleanups, snaps, recorded, watches, sent, lost, cut, blind, overlaps>>

Calls == 1..MaxCalls
Never == Horizon + 1
Unknown == MaxRows + 1       \* a table that could not be counted
Times == 0..Never

Paid(S)      == <<"paid", S>>
Loss(b, n)   == <<"integrity", <<b, n>>>>
Cleanup(b, n) == <<"cleanup", <<b, n>>>>
Bulk(t)      == <<"bulk-delete", t>>

NoSnap == [count |-> Unknown, at |-> Never, by |-> Never]

(* A watch is named by the instant it started at.                           *)
Watch(at) == [at |-> at, phase |-> "read", keys |-> {}, announced |-> {},
              before |-> NoSnap, count |-> Unknown, left |-> {"window", "announced"}]

WatchTypeOK ==
    /\ now \in 0..Horizon
    /\ call \in [Calls -> [start : Times, end : Times]]
    /\ rows \in 0..MaxRows
    /\ cleanups \subseteq Times
    /\ \A i \in DOMAIN snaps : snaps[i].count \in 0..Unknown /\ snaps[i].at \in Times
    /\ \A w \in watches : w.phase \in {"read", "compare", "store", "record", "send"} /\ w.at \in Times
    /\ cut \subseteq Times /\ blind \subseteq Times

WatchInit ==
    /\ now = 1
    /\ call = [c \in Calls |-> [start |-> Never, end |-> Never]]
    /\ rows = MaxRows
    /\ cleanups = {}
    /\ snaps = <<>>
    /\ recorded = {}
    /\ watches = {}
    /\ sent = {}
    /\ lost = {}
    /\ cut = {}
    /\ blind = {}
    /\ overlaps = {}

-----------------------------------------------------------------------------
(* What the rest of the system does meanwhile.                             *)

(* The row of a call keeps its start; the cost is written when it ends.     *)
CallStarts(c) ==
    /\ \A d \in Calls : (call[d].start = Never) = (d >= c)
    /\ call' = [call EXCEPT ![c].start = now]
    /\ UNCHANGED <<now, rows, cleanups, snaps, recorded, watches, sent, lost, cut, blind, overlaps>>

CallEnds(c) ==
    /\ call[c].start # Never /\ call[c].end = Never
    /\ call' = [call EXCEPT ![c].end = now]
    /\ UNCHANGED <<now, rows, cleanups, snaps, recorded, watches, sent, lost, cut, blind, overlaps>>

RowsGoneTo(n) ==
    /\ rows' = n
    /\ cleanups' \in {cleanups, cleanups \cup {now}}
    /\ UNCHANGED <<now, call, snaps, recorded, watches, sent, lost, cut, blind, overlaps>>

(* The timer fires at every even instant, unless the process is down then.  *)
Tick ==
    /\ now < Horizon
    /\ now' = now + 1
    /\ \/ now' % 2 = 1 /\ UNCHANGED <<watches, overlaps, cut>>
       \/ /\ now' % 2 = 0
          /\ watches' = watches \cup {Watch(now')}
          /\ overlaps' = overlaps \cup {<<w.at, now'>> : w \in watches}
          /\ UNCHANGED cut
       \/ now' % 2 = 0 /\ cut' = cut \cup {now'} /\ UNCHANGED <<watches, overlaps>>
    /\ UNCHANGED <<call, rows, cleanups, snaps, recorded, sent, lost, blind>>

-----------------------------------------------------------------------------
GoesOn(w, v) == watches' = (watches \ {w}) \cup {v}

(* The reads of one Promise.all, in any order.                              *)
\* Seeded mistake: the window is the period of the timer.
SinceTight(w) == IF w.at < 2 THEN 0 ELSE w.at - 2
Since(w) == IF w.at < 3 THEN 0 ELSE w.at - 3

InWindow(w) == {c \in Calls : call[c].end # Never /\ call[c].start >= Since(w)}
Findings(w) == IF InWindow(w) = {} THEN {} ELSE {Paid(InWindow(w))}

Done(w, read) ==
    [w EXCEPT !.left = @ \ {read},
              !.phase = IF w.left # {read} THEN "read" ELSE IF MaxRows = 0 THEN "record" ELSE "compare"]

ReadWindow(w) ==
    /\ w.phase = "read" /\ "window" \in w.left
    /\ GoesOn(w, [Done(w, "window") EXCEPT !.keys = Findings(w)])
    /\ UNCHANGED <<now, call, rows, cleanups, snaps, recorded, sent, lost, cut, blind, overlaps>>

ReadAnnounced(w) ==
    /\ w.phase = "read" /\ "announced" \in w.left
    /\ GoesOn(w, [Done(w, "announced") EXCEPT !.announced = recorded])
    /\ UNCHANGED <<now, call, rows, cleanups, snaps, recorded, sent, lost, cut, blind, overlaps>>

(* The integrity check of one table of several: the count and the last      *)
(* snapshot, the bulk deletes since then, and the new snapshot when the last *)
(* one is old or rows are missing.  A snapshot leaves out a table that could *)
(* not be counted.                                                         *)
Last == IF snaps = <<>> THEN NoSnap ELSE snaps[Len(snaps)]

Sharp(before, count) ==
    before \in 0..MaxRows /\ count \in 0..MaxRows /\ before >= count + MinDrop

Deleted(w, last) ==
    {t \in cleanups : t >= IF last.at < Since(w) THEN last.at ELSE Since(w)}

Integrity(last, count, bulk) ==
    {Bulk(t) : t \in bulk}
    \cup (IF ~Sharp(last.count, count) THEN {}
          ELSE IF bulk # {} THEN {Cleanup(last.count, count)} ELSE {Loss(last.count, count)})

Old(last) == last.at = Never \/ now - last.at >= Stale

(* Unlike the reads before it, this one is not checked: a last snapshot that *)
(* cannot be read is taken for none.                                        *)
Count(w) ==
    /\ w.phase = "compare"
    /\ \E count \in {rows, Unknown}, before \in {Last, NoSnap} :
          /\ GoesOn(w, [w EXCEPT !.phase = "store", !.before = before, !.count = count])
          /\ blind' = IF before = Last THEN blind ELSE blind \cup {w.at}
    /\ UNCHANGED <<now, call, rows, cleanups, snaps, recorded, sent, lost, cut, overlaps>>

(* Bulk deletes that cannot be read are taken for none, and a failed insert   *)
(* of the snapshot goes unnoticed.                                          *)
Compare(w) ==
    /\ w.phase = "store"
    /\ \E bulk \in {Deleted(w, w.before), {}} :
          LET found == Integrity(w.before, w.count, bulk)
              due   == Old(w.before) \/ Loss(w.before.count, w.count) \in found
          IN /\ GoesOn(w, [w EXCEPT !.keys = @ \cup found, !.phase = "record"])
             /\ \/ due /\ snaps' = Append(snaps, [count |-> w.count, at |-> now, by |-> w.at])
                \/ UNCHANGED snaps
    /\ UNCHANGED <<now, call, rows, cleanups, recorded, sent, lost, cut, blind, overlaps>>

(* The rest of the check is skipped when one of its reads throws.           *)
SkipCompare(w) ==
    /\ w.phase \in {"compare", "store"}
    /\ GoesOn(w, [w EXCEPT !.phase = "record"])
    /\ UNCHANGED <<now, call, rows, cleanups, snaps, recorded, sent, lost, cut, blind, overlaps>>

New(w) == w.keys \ w.announced

Record(w) ==
    /\ w.phase = "record"
    /\ \/ New(w) = {} /\ watches' = watches \ {w} /\ UNCHANGED recorded
       \/ /\ New(w) # {}
          /\ recorded' = recorded \cup New(w)
          /\ GoesOn(w, [w EXCEPT !.phase = "send"])
    /\ UNCHANGED <<now, call, rows, cleanups, snaps, sent, lost, cut, blind, overlaps>>

Alert(w) ==
    /\ w.phase = "send"
    /\ watches' = watches \ {w}
    /\ sent' = sent \cup ({w.at} \X New(w))
    /\ UNCHANGED <<now, call, rows, cleanups, snaps, recorded, lost, cut, blind, overlaps>>

(* A read, the record or the message fails, or the process dies.            *)
WatchFails(w) ==
    /\ watches' = watches \ {w}
    /\ cut' = cut \cup {w.at}
    /\ lost' = IF w.phase = "send" THEN lost \cup New(w) ELSE lost
    /\ UNCHANGED <<now, call, rows, cleanups, snaps, recorded, sent, blind, overlaps>>

WatchStep(w) ==
    \/ ReadWindow(w) \/ ReadAnnounced(w)
    \/ Count(w) \/ Compare(w) \/ SkipCompare(w)
    \/ Record(w) \/ Alert(w)
    \/ WatchFails(w)

WatchNext ==
    \/ Tick
    \/ \E c \in Calls : CallStarts(c) \/ CallEnds(c)
    \/ \E n \in 0..MaxRows : n # rows /\ RowsGoneTo(n)
    \/ \E w \in watches : WatchStep(w)

WatchSpec == WatchInit /\ [][WatchNext]_watchVars

-----------------------------------------------------------------------------
Together(v, w) == {<<v, w>>, <<w, v>>} \cap overlaps # {}
Quiet(at) == \A w \in watches : w.at # at

(* A finding is sent at most once, unless two watches ran at the same time; *)
(* a paid call is told twice only when it started in the minute before the  *)
(* first of the two watches, or while that one ran.                        *)
ToldOnce ==
    \A s, r \in sent : s[1] < r[1] =>
        \/ Together(s[1], r[1])
        \/ /\ s[2] # r[2]
           /\ s[2][1] = "paid" /\ r[2][1] = "paid" =>
                  \A c \in s[2][2] \cap r[2][2] : call[c].start + 1 >= s[1]

(* What happened to a finding that was recorded: it was sent, its message   *)
(* failed, or it is about to be sent.                                       *)
Told(key) ==
    \/ \E s \in sent : s[2] = key
    \/ key \in lost
    \/ \E w \in watches : w.phase = "send" /\ key \in New(w)

(* A paid call is told of once the last watch with its start in the window   *)
(* is over, unless that watch was cut short or the call was still under way  *)
(* then.                                                                    *)
LastWatch(c) == call[c].start + 2 + (call[c].start % 2)
CallsAreTold ==
    \A c \in Calls :
        LET w == LastWatch(c) IN
        call[c].end < w /\ w <= now /\ Quiet(w) /\ w \notin cut =>
            \E key \in recorded : key[1] = "paid" /\ c \in key[2] /\ Told(key)

(* Of two snapshots, when the second one has far fewer rows, the drop is told *)
(* as a loss or as a cleanup, unless the watch that stored it was cut short,  *)
(* could not read the first one, or did not run alone.                      *)
LossesAreTold ==
    \A i \in 1..Len(snaps) - 1 :
        LET b == snaps[i].count  n == snaps[i + 1].count  w == snaps[i + 1].by IN
        Sharp(b, n) /\ Quiet(w) /\ w \notin cut \cup blind /\ (\A v \in Times : ~Together(v, w)) =>
            \E key \in {Loss(b, n), Cleanup(b, n)} : key \in recorded /\ Told(key)

(* What the owner is told of: each finding once, and every paid call and    *)
(* every loss of rows a watch could see.                                   *)
WatchTells == WatchTypeOK /\ ToldOnce /\ CallsAreTold /\ LossesAreTold
=============================================================================

-------------------------- MODULE DeliverablesPages --------------------------
(***************************************************************************)
(* The Deliverables Center of a project in one browser tab                 *)
(* (src/hub-ui/deliverables.js) and the pages the Hub cuts for it          *)
(* (src/hub-deliverables.js).  Objectives are numbered in board order, the *)
(* oldest first.  The tab refreshes while it loads older pages, the Hub    *)
(* answers at a later moment, and answers arrive in any order or not at    *)
(* all.                                                                    *)
(***************************************************************************)
EXTENDS Naturals, FiniteSets

CONSTANTS
    InAll,       \* bound: the objectives the project will ever have
    AtStart,     \* how many of them exist when the tab is opened
    Instant,     \* Instant[o]: created_at, never decreasing; objectives may share one
    Hidden,      \* historical tests, which the board leaves out
    Loose,       \* instants of rows without an objective (older outputs)
    PageSize,    \* objectives of a page (PAGE_SIZE)
    SinceCap,    \* objectives a refresh window may hold (SINCE_CAP), at least a page
    MaxRefreshes \* bound: refreshes under way at the same time

(* Objectives are created one by one: no more share an instant than a page   *)
(* (60) holds.                                                             *)
ASSUME PagesAssumption ==
    /\ InAll \in Nat /\ AtStart \in 1..InAll
    /\ Instant \in [1..InAll -> Nat]
    /\ \A o, p \in 1..InAll : o <= p => Instant[o] <= Instant[p]
    /\ Loose \subseteq Nat
    /\ PageSize \in Nat \ {0} /\ SinceCap \in Nat /\ MaxRefreshes \in Nat
    /\ \A o \in 1..InAll : Cardinality({p \in 1..InAll : Instant[p] = Instant[o]}) <= PageSize

VARIABLES
    newest,   \* the newest objective in the database
    page,     \* what the tab holds: the newest page, older pages, the cursor
    flights,  \* requests on their way, and answers on their way back
    mixed     \* history: rows asked for before the board last started over were added

pageVars == <<newest, page, flights, mixed>>

NoCursor == 0
Waiting == [shown |-> {}, loose |-> {}, cursor |-> NoCursor, more |-> FALSE, truncated |-> FALSE,
            given |-> FALSE]
Flights == [of : {"refresh", "reload", "older"}, at : 0..InAll, stale : BOOLEAN,
            reply : [shown : SUBSET (1..InAll), loose : SUBSET Loose, cursor : 0..InAll,
                     more : BOOLEAN, truncated : BOOLEAN, given : BOOLEAN]]

PagesTypeOK ==
    /\ newest \in AtStart..InAll
    /\ page \in [head : [shown : SUBSET (1..InAll), loose : SUBSET Loose],
                 older : [shown : SUBSET (1..InAll), loose : SUBSET Loose],
                 cursor : 0..InAll, start : 0..InAll, more : BOOLEAN, olderLoaded : BOOLEAN]
    /\ flights \subseteq Flights
    /\ mixed \in BOOLEAN

-----------------------------------------------------------------------------
(* The Hub.                                                                *)

Newest(set, n) == {o \in set : Cardinality({p \in set : p > o}) < n}
Oldest(set)    == IF set = {} THEN NoCursor ELSE CHOOSE o \in set : \A p \in set : o <= p

(* Strictly older than the cursor in board order.                          *)
\* Seeded mistake: only the instants are compared.
OlderByInstant(o, cursor) == Instant[o] < Instant[cursor]
OlderThan(o, cursor) == o < cursor

(* The first page, or the page before a cursor.  The rows read include      *)
(* those that share the cursor's instant.                                  *)
PageJobs(before) ==
    LET read == IF before = NoCursor THEN 1..newest
                ELSE {o \in 1..newest : Instant[o] <= Instant[before]}
        list == {o \in Newest(read, 2 * PageSize + 1) : before # NoCursor => OlderThan(o, before)}
    IN [jobs |-> Newest(list, PageSize), more |-> Cardinality(list) > PageSize]

(* A refresh window: everything from a cursor up.                          *)
Window(since) == {o \in 1..newest : ~OlderThan(o, since)}

(* Rows without an objective belong to the page whose time window holds    *)
(* them.                                                                   *)
LooseWritten == {l \in Loose : l <= Instant[newest]}
LooseOf(before, oldest, more) ==
    {l \in LooseWritten : /\ before # NoCursor => l < Instant[before]
                          /\ oldest # NoCursor /\ more => l >= Instant[oldest]}

(* loadBoard: the answer to a request.                                     *)
PageReply(before) ==
    LET list   == PageJobs(before)
        shown  == list.jobs \ Hidden
        oldest == Oldest(shown)
    IN [shown |-> shown, loose |-> LooseOf(before, oldest, list.more), cursor |-> oldest,
        more |-> list.more, truncated |-> FALSE, given |-> TRUE]

WindowReply(since) ==
    LET shown == Newest(Window(since), SinceCap) \ Hidden IN
    [shown |-> shown, loose |-> {l \in LooseWritten : l >= Instant[since]},
     cursor |-> IF shown = {} THEN since ELSE Oldest(shown), more |-> FALSE,
     truncated |-> Cardinality(Window(since)) > SinceCap, given |-> TRUE]

HubAnswers(f) ==
    /\ ~f.reply.given
    /\ flights' = (flights \ {f}) \cup
                  {[f EXCEPT !.reply = IF f.of = "refresh" /\ f.at # NoCursor THEN WindowReply(f.at)
                                       ELSE PageReply(f.at)]}
    /\ UNCHANGED <<newest, page, mixed>>

(* Somebody gives the project another objective.                           *)
NewObjective ==
    /\ newest < InAll
    /\ newest' = newest + 1
    /\ UNCHANGED <<page, flights, mixed>>

-----------------------------------------------------------------------------
(* The tab.                                                                *)

Asked(of, at) == [of |-> of, at |-> at, stale |-> FALSE, reply |-> Waiting]
Request(of, at) == flights' = flights \cup {Asked(of, at)}
RowsOf(reply)  == [shown |-> reply.shown, loose |-> reply.loose]
Nothing      == [shown |-> {}, loose |-> {}]
Loading      == \E f \in flights : f.of = "older"
Restarted(reply) ==
    [head |-> RowsOf(reply), older |-> Nothing, cursor |-> reply.cursor, start |-> reply.cursor,
     more |-> reply.more, olderLoaded |-> FALSE]

(* A live change or the safety timer.                                      *)
RefreshFrom == IF page.olderLoaded THEN page.start ELSE NoCursor

Refresh ==
    /\ Cardinality({f \in flights : f.of # "older"}) < MaxRefreshes
    /\ Request("refresh", RefreshFrom)
    /\ UNCHANGED <<newest, page, mixed>>

(* A window over its cap is read again from the top; a first page starts   *)
(* the board over; a window replaces the newest rows and keeps the rest.    *)
StartsOver(f) ==
    /\ page' = Restarted(f.reply)
    /\ mixed' = FALSE
    /\ flights' = {[g EXCEPT !.stale = TRUE] : g \in flights \ {f}}

KeepsOlder(f) ==
    /\ page' = [page EXCEPT !.head = RowsOf(f.reply)]
    /\ mixed' = (mixed \/ f.stale)
    /\ flights' = flights \ {f}

ReadsAgain(f) ==
    /\ flights' = (flights \ {f}) \cup {Asked("reload", NoCursor)}
    /\ UNCHANGED <<page, mixed>>

Refreshed(f) ==
    /\ f.of \in {"refresh", "reload"} /\ f.reply.given
    /\ IF f.reply.truncated THEN ReadsAgain(f)
       ELSE IF f.at = NoCursor THEN StartsOver(f)
       ELSE KeepsOlder(f)
    /\ UNCHANGED newest

LoadOlder ==
    /\ ~Loading /\ page.more /\ page.cursor # NoCursor
    /\ Request("older", page.cursor)
    /\ UNCHANGED <<newest, page, mixed>>

OlderLoaded(f) ==
    /\ f.of = "older" /\ f.reply.given
    /\ page' = [page EXCEPT
           !.older = [shown |-> @.shown \cup f.reply.shown, loose |-> @.loose \cup f.reply.loose],
           !.olderLoaded = TRUE,
           !.cursor = IF f.reply.cursor = NoCursor THEN @ ELSE f.reply.cursor,
           !.more = f.reply.more]
    /\ mixed' = (mixed \/ f.stale)
    /\ flights' = flights \ {f}
    /\ UNCHANGED newest

(* A request fails: the tab keeps what it shows.                           *)
RequestLost(f) ==
    /\ flights' = flights \ {f}
    /\ UNCHANGED <<newest, page, mixed>>

-----------------------------------------------------------------------------
PagesInit ==
    /\ newest = AtStart
    /\ page = Restarted(PageReply(NoCursor))
    /\ flights = {}
    /\ mixed = FALSE

PagesNext ==
    \/ NewObjective
    \/ Refresh
    \/ LoadOlder
    \/ \E f \in flights : HubAnswers(f) \/ Refreshed(f) \/ OlderLoaded(f) \/ RequestLost(f)

PagesSpec == PagesInit /\ [][PagesNext]_pageVars

-----------------------------------------------------------------------------
Shown      == page.head.shown \cup page.older.shown
ShownLoose == page.head.loose \cup page.older.loose
UpTo(o)    == \E p \in Shown : o <= p

(* The board has no hole: every objective and every loose row between the   *)
(* newest one shown and the cursor is shown, and all the older ones too     *)
(* once there is no older page ("paged without losing or repeating a         *)
(* deliverable", test/v54-pagination.test.js).  Only rows asked for before    *)
(* the board last started over, and added after that, may leave one.        *)
BoardHasNoHole ==
    /\ PagesTypeOK
    /\ ~mixed =>
        /\ \A o \in (1..newest) \ Hidden :
               UpTo(o) /\ (page.more => o >= page.cursor) => o \in Shown
        /\ \A l \in LooseWritten :
               /\ \E p \in Shown : l <= Instant[p]
               /\ page.more /\ page.cursor # NoCursor => l >= Instant[page.cursor]
               => l \in ShownLoose
=============================================================================

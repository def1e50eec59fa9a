---------------------------- MODULE ChannelBridge ----------------------------
(***************************************************************************)
(* The Telegram channel (channels/telegram.js, office-bridge.js): the owner *)
(* writes to the bot, a message becomes a job of the channel's              *)
(* conversation, and the results of that conversation, notices of the       *)
(* objectives started in the Hub and approval requests are sent back.  One  *)
(* process polls; what it remembers (offset, seen updates, what it          *)
(* announced) dies with it, and what it delivered is marked in the events   *)
(* table.  An update is its position in what the owner wrote.               *)
(***************************************************************************)
EXTENDS Naturals, Sequences, SequencesExt

CONSTANTS
    Messages,     \* how many messages the owner writes
    HubJobs,      \* objectives started in the Hub
    Asks,         \* approval requests and questions of coding sessions
    Limit,        \* limit(10) and slice(0, 10) of outbox()
    HubLimit,     \* limit(20) of the results of the project
    Rate,         \* ratePerMinute
    MaxMishaps    \* bound: crashes, failed sends, lost writes

ChatJobs == 1..Messages
Results  == ChatJobs \cup HubJobs
Items    == Results \cup Asks

ASSUME ChannelAssumption ==
    /\ Messages \in Nat /\ Limit \in Nat /\ HubLimit \in Nat /\ Rate \in Nat
    /\ HubJobs \cap ChatJobs = {} /\ Asks \cap Results = {}

VARIABLES
    written,      \* updates 1..written are at Telegram
    confirmed,    \* updates below it are gone from Telegram
    offset, batch, seen, recent,    \* of the process: next offset, updates to handle,
                                    \* handled ones, messages of the last minute
    asked,        \* how many jobs a message became
    refused,      \* messages that are too many, or whose handling failed
    finished,     \* jobs in the order of completed_at
    waiting,      \* what waits for the owner, in the order it was asked
    decided,
    old,          \* items of more than a day ago
    since,        \* items from before pendingSince
    marked,       \* jobs with a "channel_delivered" event
    announced,    \* notifiedJobs, notifiedApprovals, notifiedQuestions
    queue,        \* what outbox() returned and was not sent yet
    acking,       \* what was sent and is not acknowledged yet
    told,         \* how often a result was sent
    unsure,       \* how often a sent one, or one that may have been, was not marked
    phase,        \* "down", "updates" or "outbox"
    mishaps

inbound  == <<written, confirmed, offset, batch, seen, recent, asked, refused>>
world    == <<finished, old, waiting, decided>>
outbound == <<since, marked, announced, queue, acking, told, unsure>>
bridge   == <<inbound, world, outbound, phase, mishaps>>

BridgeInit ==
    /\ written = 0 /\ confirmed = 1 /\ offset = 0 /\ batch = <<>> /\ seen = {} /\ recent = 0
    /\ asked = [m \in ChatJobs |-> 0] /\ refused = {}
    /\ finished = <<>> /\ waiting = <<>> /\ decided = {}
    /\ old = {} /\ since = {}
    /\ marked = {} /\ announced = {} /\ queue = <<>> /\ acking = <<>>
    /\ told = [j \in Results |-> 0] /\ unsure = [j \in Results |-> 0]
    /\ phase = "updates" /\ mishaps = 0

Counted(count, is) == [j \in Results |-> count[j] + IF j \in is THEN 1 ELSE 0]

(* What of a sequence is in S, in its order.                                 *)
Within(s, S) ==
    LET some[i \in 0..Len(s)] ==
            IF i = 0 THEN <<>>
            ELSE IF s[i] \in S THEN Append(some[i - 1], s[i]) ELSE some[i - 1]
    IN some[Len(s)]

Mishap == mishaps < MaxMishaps /\ mishaps' = mishaps + 1
Fine   == UNCHANGED mishaps

-----------------------------------------------------------------------------
(* The owner writes, the Office finishes jobs, coding sessions ask, somebody *)
(* decides, time passes.                                                    *)
OwnerWrites ==
    /\ written < Messages
    /\ written' = written + 1
    /\ UNCHANGED <<confirmed, offset, batch, seen, recent, asked, refused, world, outbound, phase, mishaps>>

JobFinishes(j) ==
    /\ j \in HubJobs \/ (j \in ChatJobs /\ asked[j] > 0)
    /\ j \notin ToSet(finished)
    /\ finished' = Append(finished, j)
    /\ UNCHANGED <<inbound, old, waiting, decided, outbound, phase, mishaps>>

SessionAsks(a) ==
    /\ a \notin ToSet(waiting) \cup decided
    /\ waiting' = Append(waiting, a)
    /\ UNCHANGED <<inbound, finished, old, decided, outbound, phase, mishaps>>

(* decide(), from a button or from the Hub: only what is pending.            *)
OwnerDecides(a) ==
    /\ a \in ToSet(waiting)
    /\ waiting' = Within(waiting, Asks \ {a})
    /\ decided' = decided \cup {a}
    /\ UNCHANGED <<inbound, finished, old, outbound, phase, mishaps>>

DayPasses ==
    /\ old' = ToSet(finished) \cup ToSet(waiting) \cup old
    /\ old' # old
    /\ UNCHANGED <<inbound, finished, waiting, decided, outbound, phase, mishaps>>

MinutePasses ==
    /\ recent > 0
    /\ recent' = 0
    /\ UNCHANGED <<written, confirmed, offset, batch, seen, asked, refused, world, outbound, phase, mishaps>>

-----------------------------------------------------------------------------
(* getUpdates confirms everything below the offset.                         *)
Later(a, b) == IF a >= b THEN a ELSE b

Confirm(n) == Later(confirmed, n)

GetUpdates ==
    /\ phase = "updates" /\ batch = <<>>
    /\ confirmed' = Confirm(offset)
    /\ batch' = [i \in 1..(written + 1 - Later(confirmed, offset)) |->
                     Later(confirmed, offset) + i - 1]
    /\ UNCHANGED <<written, offset, seen, recent, asked, refused, world, outbound, phase, mishaps>>

(* handleUpdate, handleMessage: at most one job per update; an error on the  *)
(* way is logged and the update is not tried again by this process.         *)
Handle ==
    /\ phase = "updates" /\ batch # <<>>
    /\ LET u == Head(batch)
           allowed == recent < Rate
       IN /\ offset' = Later(offset, u + 1)
          /\ batch' = Tail(batch)
          /\ seen' = seen \cup {u}
          /\ recent' = IF u \notin seen /\ allowed THEN recent + 1 ELSE recent
          /\ \/ /\ u \notin seen /\ allowed
                /\ asked' = [asked EXCEPT ![u] = @ + 1]
                /\ UNCHANGED refused /\ Fine
             \/ /\ u \notin seen /\ ~allowed
                /\ refused' = refused \cup {u}
                /\ UNCHANGED asked /\ Fine
             \/ /\ u \notin seen /\ allowed
                /\ refused' = refused \cup {u}
                /\ UNCHANGED asked /\ Mishap
             \/ /\ u \in seen
                /\ UNCHANGED <<asked, refused>> /\ Fine
    /\ UNCHANGED <<written, confirmed, world, outbound, phase>>

-----------------------------------------------------------------------------
(* outbox(): the oldest results since pendingSince, whether they were        *)
(* announced or not; then what was announced or marked is left out.  When    *)
(* the marks cannot be read, nothing counts as marked.                      *)
First(s, n) == SubSeq(s, 1, IF Len(s) <= n THEN Len(s) ELSE n)

Since(s)     == Within(s, Items \ since)
Untold(s)    == Within(s, Items \ announced)
OfChat(s)    == Within(s, ChatJobs)
OfHub(s)     == Within(s, HubJobs)
Unmarked(s)  == Within(s, Items \ marked)

Pending == Untold(First(OfChat(Since(finished)), Limit))
           \o First(Untold(OfHub(First(Since(finished), HubLimit))), Limit)

Asking == Untold(First(Since(waiting), Limit))

\* Seeded mistake: what an earlier process of the channel delivered is sent again.
ToTellAll == Pending \o Asking

ToTell == Unmarked(Pending) \o Asking

OpenOutbox ==
    /\ phase = "updates" /\ batch = <<>>
    /\ \/ /\ announced' = announced \cup (ToSet(Pending) \cap marked)
          /\ queue' = ToTell
          /\ UNCHANGED unsure /\ Fine
       \/ /\ queue' = Pending \o Asking
          /\ unsure' = Counted(unsure, ToSet(Pending) \cap marked)
          /\ UNCHANGED announced /\ Mishap
    /\ phase' = IF queue' = <<>> THEN "updates" ELSE "outbox"
    /\ UNCHANGED <<inbound, world, since, marked, acking, told>>

(* A send that fails ends the flush; it may have arrived.                    *)
Send ==
    /\ phase = "outbox" /\ acking = <<>> /\ queue # <<>>
    /\ LET item == {Head(queue)}
       IN \/ /\ told' = Counted(told, item)
             /\ acking' = <<Head(queue)>>
             /\ queue' = Tail(queue)
             /\ UNCHANGED <<unsure, phase>> /\ Fine
          \/ /\ told' = told \/ told' = Counted(told, item)
             /\ unsure' = Counted(unsure, item)
             /\ queue' = <<>> /\ phase' = "updates"
             /\ UNCHANGED acking /\ Mishap
    /\ UNCHANGED <<inbound, world, since, marked, announced>>

(* ack(): remembered, and for a result marked; a failed mark is not noticed. *)
Ack ==
    /\ phase = "outbox" /\ acking # <<>>
    /\ announced' = announced \cup ToSet(acking)
    /\ \/ /\ marked' = marked \cup (ToSet(acking) \cap Results)
          /\ UNCHANGED unsure /\ Fine
       \/ /\ ToSet(acking) \subseteq Results
          /\ unsure' = Counted(unsure, ToSet(acking))
          /\ UNCHANGED marked /\ Mishap
    /\ acking' = <<>>
    /\ phase' = IF queue = <<>> THEN "updates" ELSE "outbox"
    /\ UNCHANGED <<inbound, world, since, queue, told>>

-----------------------------------------------------------------------------
ProcessDies ==
    /\ phase # "down"
    /\ phase' = "down"
    /\ offset' = 0 /\ batch' = <<>> /\ seen' = {} /\ recent' = 0
    /\ announced' = {} /\ queue' = <<>> /\ acking' = <<>>
    /\ unsure' = Counted(unsure, ToSet(acking))
    /\ Mishap
    /\ UNCHANGED <<written, confirmed, asked, refused, world, since, marked, told>>

(* startTelegramChannel: pendingSince is a day ago.                          *)
Restart ==
    /\ phase = "down"
    /\ phase' = "updates"
    /\ since' = old
    /\ UNCHANGED <<inbound, world, marked, announced, queue, acking, told, unsure, mishaps>>

Polling == GetUpdates \/ Handle \/ OpenOutbox \/ Send \/ Ack \/ Restart

BridgeNext ==
    \/ OwnerWrites
    \/ \E j \in Results : JobFinishes(j)
    \/ \E a \in Asks : SessionAsks(a) \/ OwnerDecides(a)
    \/ DayPasses \/ MinutePasses
    \/ Polling
    \/ ProcessDies

BridgeFairness ==
    /\ WF_bridge(GetUpdates) /\ WF_bridge(Handle) /\ WF_bridge(OpenOutbox)
    /\ WF_bridge(Send) /\ WF_bridge(Ack) /\ WF_bridge(Restart)

BridgeSpec == BridgeInit /\ [][BridgeNext]_bridge /\ BridgeFairness

-----------------------------------------------------------------------------
BridgeTypeOK ==
    /\ written \in 0..Messages /\ confirmed \in 1..(Messages + 1) /\ offset \in 0..(Messages + 1)
    /\ batch \in Seq(ChatJobs) /\ seen \subseteq ChatJobs /\ recent \in 0..Rate
    /\ asked \in [ChatJobs -> Nat] /\ refused \subseteq ChatJobs
    /\ finished \in Seq(Results) /\ old \subseteq Items /\ since \subseteq old
    /\ waiting \in Seq(Asks) /\ decided \subseteq Asks
    /\ marked \subseteq Results /\ announced \subseteq Items
    /\ queue \in Seq(Items) /\ acking \in Seq(Items) /\ told \in [Results -> Nat]
    /\ unsure \in [Results -> Nat]
    /\ phase \in {"down", "updates", "outbox"}

(* No message is forgotten unheard: Telegram drops an update only after the  *)
(* process took it up, as a job, as one too many or as an error it logged,   *)
(* wherever it died in between.                                             *)
HeardBeforeForgotten ==
    \A m \in ChatJobs : m < confirmed => asked[m] > 0 \/ m \in refused

(* A result is told again only when a send failed, the process died or lost  *)
(* its write between the send and the mark, or the marks could not be read:  *)
(* a restart alone, or the order of the two lists, repeats nothing.  A        *)
(* message becomes more jobs than one only through crashes.                   *)
RepeatsOnlyAfterMishaps ==
    /\ \A j \in Results : told[j] <= 1 + unsure[j]
    /\ \A m \in ChatJobs : asked[m] <= 1 + mishaps

(* What the owner writes is heard, and what the Office answers is told once.  *)
HeardAndToldOnce == HeardBeforeForgotten /\ RepeatsOnlyAfterMishaps

(* Results arrive in the channel (office-bridge.js:98-102, 208): every result *)
(* is sent, whatever crashes, unless it was more than a day old at a start.  *)
ResultsArrive ==
    \A j \in Results :
        j \in ToSet(finished) ~> told[j] > 0 \/ j \in since
=============================================================================

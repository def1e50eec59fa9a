----------------------------- MODULE LiveScreen -----------------------------
(***************************************************************************)
(* The screens of one tab of the Hub that follow an objective: the router   *)
(* opens and leaves them (app.js), each has a refresher (office-model.js)     *)
(* that loads one answer at a time, and the changes come over the stream of   *)
(* the Office (hub-office-live.js), which may drop, and by a slow poll.  The  *)
(* Home screen follows for as long as it is open; the page of a job stops     *)
(* when the job has ended, and starts again when the owner resumes it there. *)
(* A load of several requests is one read of the server.                    *)
(***************************************************************************)
EXTENDS Naturals, Sequences

CONSTANTS
    Screens,       \* the screens the owner opens: sequence of "home", "job"
    MaxChanges,    \* of the objective
    MaxMishaps,    \* hidden tabs, dropped streams, failed requests
    MaxActions     \* stops and resumes from this tab

ASSUME LiveAssumption ==
    /\ Screens \in Seq({"home", "job"}) /\ Screens # <<>>
    /\ MaxChanges \in Nat \ {0} /\ MaxMishaps \in Nat /\ MaxActions \in Nat

VARIABLES
    version,       \* the objective's rows
    ends,          \* the versions at which it has ended
    mark,          \* of the stream's room: 0 when it has read nothing yet
    connected,
    hidden,        \* the tab
    visit,         \* state.navigation
    screen,        \* what the tab shows: the visit it is of, its version, or an error
    refresher,     \* [visit -> its refresher]
    hooks,         \* [visit -> the visit whose leave list removes its listeners]
    timer,         \* [visit -> its listener has heard of a change and waits]
    heard,         \* the version the stream last told the open screen of
    acting,        \* requests to stop or resume that are not answered
    actions, mishaps

tabVars  == <<visit, screen, refresher, hooks, timer, heard>>
counts   == <<actions, mishaps>>
liveVars == <<version, ends, mark, connected, hidden, tabVars, acting, counts>>

Visits == 1..Len(Screens)

(* Listeners not there yet, and removed.                                    *)
None == 0
Gone == Len(Screens) + 1

Listens(n) == hooks[n] \in Visits

Ended == version \in ends

(* createRefresher                                                         *)
Fresh == [load |-> "none", at |-> 0, again |-> FALSE, stale |-> FALSE, stopped |-> FALSE,
          failed |-> FALSE]

Blank(n) == [of |-> n, at |-> 0, error |-> FALSE]

-----------------------------------------------------------------------------
(* trigger: nothing while stopped or hidden, one load at a time.             *)
Starts(r) == [r EXCEPT !.load = "asked", !.failed = FALSE]

\* Seeded mistake: a trigger during a load is served by that load.
TriggerJoins(r) ==
    CASE r.stopped -> r
      [] hidden' /\ ~r.stopped -> [r EXCEPT !.stale = TRUE]
      [] ~hidden' /\ ~r.stopped /\ r.load # "none" -> r
      [] OTHER -> Starts(r)

Trigger(r) ==
    CASE r.stopped -> r
      [] hidden' /\ ~r.stopped -> [r EXCEPT !.stale = TRUE]
      [] ~hidden' /\ ~r.stopped /\ r.load # "none" -> [r EXCEPT !.again = TRUE]
      [] OTHER -> Starts(r)

(* visible: the first visible moment catches up once.                        *)
Visible(r) == IF r.stale THEN Trigger([r EXCEPT !.stale = FALSE]) ELSE r

(* The load is over; what was asked for meanwhile follows.                   *)
Over(r) ==
    LET free == [r EXCEPT !.load = "none", !.at = 0, !.again = FALSE]
    IN IF r.again THEN Trigger(free) ELSE free

-----------------------------------------------------------------------------
(* route(): leaves the open screen and opens another.  Home listens before    *)
(* its first load, the page of a job after it.                              *)
Opened(n) ==
    /\ screen' = Blank(n)
    /\ refresher' = [m \in Visits |->
           CASE m = n -> Starts(Fresh)
             [] hooks[m] = visit /\ m # n -> [refresher[m] EXCEPT !.stopped = TRUE]
             [] OTHER -> refresher[m]]
    /\ hooks' = [m \in Visits |->
           CASE m = n -> IF Screens[n] = "home" THEN n ELSE None
             [] hooks[m] = visit /\ m # n -> Gone
             [] OTHER -> hooks[m]]
    /\ timer' = [m \in Visits |-> timer[m] /\ hooks[m] # visit]
    /\ heard' = 0

LiveInit ==
    /\ version = 1 /\ ends = {}
    /\ mark = 0 /\ connected = FALSE /\ hidden = FALSE
    /\ visit = 1 /\ screen = Blank(1)
    /\ refresher = [m \in Visits |-> IF m = 1 THEN Starts(Fresh) ELSE Fresh]
    /\ hooks = [m \in Visits |-> IF m = 1 /\ Screens[1] = "home" THEN 1 ELSE None]
    /\ timer = [m \in Visits |-> FALSE]
    /\ heard = 0
    /\ acting = <<>>
    /\ actions = 0 /\ mishaps = 0

Navigate ==
    /\ visit < Len(Screens) /\ ~hidden
    /\ visit' = visit + 1
    /\ Opened(visit + 1)
    /\ UNCHANGED <<version, ends, mark, connected, hidden, acting, counts>>

Mishap == mishaps < MaxMishaps /\ mishaps' = mishaps + 1 /\ UNCHANGED actions

-----------------------------------------------------------------------------
(* The load of a screen: the request is read by the server, and answered.     *)
ServerReads(n) ==
    /\ refresher[n].load = "asked"
    /\ refresher' = [refresher EXCEPT ![n].load = "read", ![n].at = version]
    /\ UNCHANGED <<version, ends, mark, connected, hidden, visit, screen, hooks, timer, heard,
                   acting, counts>>

(* The page of a job listens from its first load on: its listeners are in     *)
(* the leave list of whatever screen is open then.                          *)
Listening(n) ==
    hooks' = [hooks EXCEPT ![n] = IF @ = None THEN visit ELSE @]

\* Seeded mistake: the answer is painted wherever the owner is now.
PaintsAnywhere(n) == screen' = [of |-> n, at |-> refresher[n].at, error |-> FALSE]

(* load(): only while its screen is the one that is open.                    *)
Paints(n) ==
    screen' = IF n = visit THEN [of |-> n, at |-> refresher[n].at, error |-> FALSE] ELSE screen

Stops(n) == Screens[n] = "job" /\ refresher[n].at \in ends
Loaded(n, r) == Over([r EXCEPT !.stopped = r.stopped \/ Stops(n), !.failed = FALSE])

Answered(n) ==
    /\ refresher[n].load = "read"
    /\ Paints(n)
    /\ Listening(n)
    /\ hidden' = hidden
    /\ refresher' = [refresher EXCEPT ![n] = Loaded(n, @)]
    /\ UNCHANGED <<version, ends, mark, connected, visit, timer, heard, acting, counts>>

(* A request fails.  Home shows the error where it is open; a page keeps what  *)
(* it shows, but for its first load: then it shows the error, whatever screen  *)
(* is open, and does not listen.                                            *)
FirstLoad(n) == hooks[n] = None

LoadFails(n) ==
    /\ refresher[n].load # "none"
    /\ Mishap
    /\ hidden' = hidden
    /\ screen' = IF FirstLoad(n) \/ (Screens[n] = "home" /\ n = visit)
                 THEN [of |-> n, at |-> 0, error |-> TRUE] ELSE screen
    /\ refresher' = [refresher EXCEPT ![n] = Over([@ EXCEPT !.failed = TRUE])]
    /\ UNCHANGED <<version, ends, mark, connected, visit, hooks, timer, heard, acting>>

-----------------------------------------------------------------------------
(* OfficeStream: the room of the workspace looks at the rows now and then; a   *)
(* new room knows nothing yet and tells nothing the first time.              *)
Connects ==
    /\ ~connected /\ connected' = TRUE /\ mark' = 0
    /\ UNCHANGED <<version, ends, hidden, tabVars, acting, counts>>

Drops ==
    /\ connected /\ connected' = FALSE /\ mark' = 0
    /\ Mishap
    /\ UNCHANGED <<version, ends, hidden, tabVars, acting>>

Tells ==
    /\ connected /\ mark # version
    /\ mark' = version
    /\ IF mark = 0 THEN UNCHANGED <<timer, heard>>
       ELSE /\ timer' = [m \in Visits |-> timer[m] \/ Listens(m)]
            /\ heard' = IF Listens(visit) THEN version ELSE heard
    /\ UNCHANGED <<version, ends, connected, hidden, visit, screen, refresher, hooks, acting, counts>>

(* onLiveChange: a burst of changes refreshes once.                          *)
Debounced(n) ==
    /\ timer[n] /\ timer' = [timer EXCEPT ![n] = FALSE]
    /\ hidden' = hidden
    /\ refresher' = [refresher EXCEPT ![n] = Trigger(@)]
    /\ UNCHANGED <<version, ends, mark, connected, visit, screen, hooks, heard, acting, counts>>

(* every(): the slow poll.                                                  *)
Poll(n) ==
    /\ Listens(n) /\ ~refresher[n].stopped
    /\ hidden' = hidden
    /\ refresher' = [refresher EXCEPT ![n] = Trigger(@)]
    /\ UNCHANGED <<version, ends, mark, connected, visit, screen, hooks, timer, heard, acting, counts>>

Hides ==
    /\ ~hidden /\ hidden' = TRUE
    /\ Mishap
    /\ UNCHANGED <<version, ends, mark, connected, tabVars, acting>>

Shows ==
    /\ hidden /\ hidden' = FALSE
    /\ refresher' = [m \in Visits |-> IF Listens(m) THEN Visible(refresher[m]) ELSE refresher[m]]
    /\ UNCHANGED <<version, ends, mark, connected, visit, screen, hooks, timer, heard, acting, counts>>

-----------------------------------------------------------------------------
Changes(ended) ==
    /\ version < MaxChanges
    /\ version' = version + 1
    /\ ends' = IF ended THEN ends \cup {version + 1} ELSE ends

(* The objective moves: its steps, its end, another tab's resume.            *)
ObjectiveMoves ==
    /\ \E ended \in BOOLEAN : Changes(ended)
    /\ UNCHANGED <<mark, connected, hidden, tabVars, acting, counts>>

(* objectiveAction: the owner stops a job that is shown as running, or         *)
(* resumes one that is shown as ended; the buttons of what was painted before  *)
(* an answer are gone when it is painted again.                              *)
Acts ==
    /\ Screens[visit] = "job" /\ screen.of = visit /\ screen.at # 0 /\ ~hidden
    /\ actions < MaxActions /\ actions' = actions + 1
    /\ (screen.at \in ends) = Ended
    /\ Changes(~Ended)
    /\ acting' = Append(acting, visit)
    /\ UNCHANGED <<mark, connected, hidden, tabVars, mishaps>>

Without(s, i) == SubSeq(s, 1, i - 1) \o SubSeq(s, i + 1, Len(s))

ActionAnswered ==
    \E i \in DOMAIN acting :
        LET n == acting[i] IN
        /\ acting' = Without(acting, i)
        /\ hidden' = hidden
        /\ \/ /\ refresher' = [refresher EXCEPT ![n] = Trigger([@ EXCEPT !.stopped = FALSE])]
              /\ UNCHANGED counts
           \/ Mishap /\ UNCHANGED refresher
        /\ UNCHANGED <<version, ends, mark, connected, visit, screen, hooks, timer, heard>>

LiveNext ==
    \/ Navigate
    \/ \E n \in Visits : ServerReads(n) \/ Answered(n) \/ LoadFails(n) \/ Debounced(n) \/ Poll(n)
    \/ Connects \/ Drops \/ Tells
    \/ Hides \/ Shows
    \/ ObjectiveMoves \/ Acts \/ ActionAnswered

LiveSpec == LiveInit /\ [][LiveNext]_liveVars

-----------------------------------------------------------------------------
LiveTypeOK ==
    /\ version \in 1..MaxChanges /\ ends \subseteq 1..MaxChanges
    /\ mark \in 0..MaxChanges /\ connected \in BOOLEAN /\ hidden \in BOOLEAN
    /\ visit \in Visits
    /\ screen \in [of : Visits, at : 0..MaxChanges, error : BOOLEAN]
    /\ refresher \in [Visits -> [load : {"none", "asked", "read"}, at : 0..MaxChanges,
                                 again : BOOLEAN, stale : BOOLEAN, stopped : BOOLEAN,
                                 failed : BOOLEAN]]
    /\ hooks \in [Visits -> None..Gone] /\ timer \in [Visits -> BOOLEAN]
    /\ heard \in 0..MaxChanges /\ acting \in Seq(Visits)

(* What a tab shows keeps up with the objective (office-model.js:383-386):     *)
(* - a screen is never painted over by an answer for one that was left, but    *)
(*   for the error of a page whose first load failed after it was left;        *)
(* - a change the stream told the open screen of is shown, or a load that will *)
(*   read it is due, whether it came during a load, a burst or while hidden,    *)
(*   unless the last load failed, and the next poll or news has to ask again;  *)
(* - the open screen never stops listening, unless it shows the end of its job *)
(*   or the error of its first load.                                        *)
ScreenIsOwn == screen.of = visit \/ screen.error

HeardIsShown ==
    LET r == refresher[visit] IN
    heard > screen.at =>
        \/ timer[visit]
        \/ r.load = "asked" \/ r.again
        \/ r.load = "read" /\ r.at >= heard
        \/ hidden /\ r.stale
        \/ r.failed
        \/ r.stopped /\ screen.at \in ends

KeepsListening ==
    \/ Listens(visit) /\ (refresher[visit].stopped => screen.at \in ends)
    \/ refresher[visit].load # "none"
    \/ screen.error

ScreenKeepsUp ==
    /\ LiveTypeOK
    /\ ScreenIsOwn
    /\ screen.of = visit => HeardIsShown
    /\ KeepsListening
=============================================================================

------------------------------ MODULE LiveMonitor ------------------------------
(***************************************************************************)
(* The teacher's live monitor of a quiz (features/monitoring): a table     *)
(* rendered from the database and kept up to date by events, which the     *)
(* handlers publish after they have written (backend/realtime) and the     *)
(* realtime server relays (realtime/server.ts), with the list of the       *)
(* students who are present.  monitor.doubt and overtaken are history: the *)
(* monitor may have missed an event, the presence list a departure.        *)
(***************************************************************************)
EXTENDS Naturals, Sequences, FiniteSets, SequencesExt

CONSTANTS
  Attempts, Quizzes,
  QuizOf,        \* exam_attempts.quiz_id
  Tabs,          \* the students' browser tabs
  NoQuiz, NoAttempt,
  MaxFlags,      \* bounds the violations of an attempt
  MaxEvents,     \* bounds the events on their way to the relay
  Faults         \* what may go wrong: "network", "realtime"

ASSUME ConstantsAssumption ==
  /\ QuizOf \in [Attempts -> Quizzes]
  /\ NoQuiz \notin Quizzes /\ NoAttempt \notin Attempts
  /\ MaxFlags \in Nat /\ MaxEvents \in Nat \ {0}

VARIABLES
  attempt,    \* exam_attempts: status, locked, score; flags counts exam_violations
  outbox,     \* events of handlers that have written and not published yet
  channel,    \* the Redis channel
  tab,        \* a student's tab: the attempt it shows, its socket, its joins
  presence,   \* the presence map of the realtime server
  overtaken,  \* a join was overtaken by a departure, or met a second tab
  rooms,      \* the quiz rooms the teacher's socket is in
  monitor,    \* the page: quiz, whether it runs and has joined, rows, present list
  unlock,     \* its POST unlock: idle, sent, publishing, accepted, refused
  dialog      \* the story dialog: closed, loading, locked, open

serverVars == <<attempt, outbox, channel>>
presenceVars == <<tab, presence, overtaken>>
pageVars == <<rooms, monitor, unlock, dialog>>
vars == <<serverVars, presenceVars, pageVars>>

Event(type, a, by) == [type |-> type, attempt |-> a, by |-> by]
Eventful == Len(outbox) + Len(channel) < MaxEvents

Unlisted == [status |-> "none", locked |-> FALSE, flags |-> 0, score |-> 0]
ClosedMonitor == [quiz |-> NoQuiz, joined |-> FALSE, rows |-> [a \in Attempts |-> Unlisted],
                  present |-> {}, doubt |-> FALSE]

-----------------------------------------------------------------------------
\* The handlers of the Next.js server: each writes, and publishes later.

Write(a, row, type) ==
  /\ Eventful
  /\ attempt' = [attempt EXCEPT ![a] = row]
  /\ outbox' = Append(outbox, Event(type, a, "student"))
  /\ UNCHANGED <<channel, presenceVars, pageVars>>

StartAttempt(a) ==
  /\ attempt[a].status = "none"
  /\ Write(a, [attempt[a] EXCEPT !.status = "in_progress"], "attempt_started")

\* A violation locks the attempt or, as a copy does, is only counted.
RecordViolation(a, locks) ==
  /\ attempt[a].status = "in_progress" /\ ~attempt[a].locked
  /\ attempt[a].flags < MaxFlags
  /\ Write(a, [attempt[a] EXCEPT !.locked = locks, !.flags = @ + 1],
           IF locks THEN "violation_locked" ELSE "violation")

\* finalizeAttempt, for a submission or for an attempt that is overdue, which
\* may be locked.
FinishAttempt(a) ==
  /\ attempt[a].status = "in_progress"
  /\ Write(a, [attempt[a] EXCEPT !.status = "finished", !.score = 1], "attempt_submitted")

\* A teacher grades an answer on the grading page.
Regrade(a) ==
  /\ attempt[a].status = "finished" /\ attempt[a].score = 1
  /\ Write(a, [attempt[a] EXCEPT !.score = 2], "attempt_regraded")

\* POST unlock: a no-op for an attempt that is not locked.
UnlockAttempt(a) ==
  /\ unlock = [at |-> "sent", attempt |-> a]
  /\ IF attempt[a].locked
       THEN /\ Eventful
            /\ attempt' = [attempt EXCEPT ![a].locked = FALSE]
            /\ outbox' = Append(outbox, Event("attempt_unlocked", a, "monitor"))
            /\ unlock' = [unlock EXCEPT !.at = "publishing"]
       ELSE /\ unlock' = [unlock EXCEPT !.at = "accepted"]
            /\ UNCHANGED <<attempt, outbox>>
  /\ UNCHANGED <<channel, presenceVars, rooms, monitor, dialog>>

\* publishRealtimeEvent, at the end of a handler: it awaits the student's name
\* first, so a later handler's event may be published earlier, and it swallows
\* an error of Redis. The handler then answers the browser.
Publish(i, dropped) ==
  LET e == outbox[i] IN
  /\ (i > 1 \/ dropped) => "realtime" \in Faults
  /\ channel' = IF dropped THEN channel ELSE Append(channel, e)
  /\ outbox' = RemoveAt(outbox, i)
  /\ unlock' = IF e.by = "monitor" THEN [unlock EXCEPT !.at = "accepted"] ELSE unlock
  /\ monitor' = [monitor EXCEPT !.doubt = @ \/ (monitor.quiz # NoQuiz /\ (i > 1 \/ dropped))]
  /\ UNCHANGED <<attempt, presenceVars, rooms, dialog>>

-----------------------------------------------------------------------------
\* Presence (realtime/server.ts).

\* presence:update goes to the quiz's room.
PresentAfter(a, present) ==
  IF monitor.joined /\ QuizOf[a] \in rooms
    THEN [monitor EXCEPT !.present = {b \in present : QuizOf[b] = QuizOf[a]}]
    ELSE monitor

InRoom(a) == {t \in Tabs : tab[t].room = a}

\* A tab that works on an attempt announces itself on every connect.
OpenPage(t, a) ==
  /\ tab[t].attempt = NoAttempt /\ attempt[a].status = "in_progress"
  /\ tab' = [tab EXCEPT ![t].attempt = a,
                        ![t].joins = IF tab[t].connected THEN @ \union {a} ELSE @]
  /\ UNCHANGED <<serverVars, presence, overtaken, pageVars>>

Connect(t) ==
  /\ ~tab[t].connected /\ tab[t].attempt # NoAttempt
  /\ tab' = [tab EXCEPT ![t].connected = TRUE, ![t].joins = @ \union {tab[t].attempt}]
  /\ UNCHANGED <<serverVars, presence, overtaken, pageVars>>

\* join:attempt, after its query. The entry is added whether or not the page is
\* still there; a socket that is gone joins no room.
JoinAttempt(t, a) ==
  /\ a \in tab[t].joins
  /\ tab' = [tab EXCEPT ![t].joins = @ \ {a}, ![t].room = IF tab[t].connected THEN a ELSE @]
  /\ presence' = presence \union {a}
  /\ overtaken' = (overtaken \/ ~tab[t].connected \/ tab[t].attempt # a \/ InRoom(a) \ {t} # {})
  /\ monitor' = PresentAfter(a, presence')
  /\ UNCHANGED <<serverVars, rooms, unlock, dialog>>

\* Bug: the departure is not announced.
LeaveQuietly(t) ==
  /\ presence' = presence \ {tab[t].room}
  /\ UNCHANGED <<serverVars, pageVars>>

\* The tab's entry is removed, whoever else shows the attempt, and the watchers
\* are told. A socket that has joined nothing yet is not known here.
Depart(t) ==
  /\ presence' = presence \ {tab[t].room}
  /\ monitor' = IF tab[t].room = NoAttempt THEN monitor ELSE PresentAfter(tab[t].room, presence')
  /\ UNCHANGED <<serverVars, rooms, unlock, dialog>>

\* leave:attempt, when the attempt has ended or the student goes to another
\* page of the application. It may come before the end of the join.
LeaveAttempt(t) ==
  /\ tab[t].attempt # NoAttempt
  /\ Depart(t)
  /\ overtaken' = (overtaken \/ tab[t].joins # {})
  /\ tab' = [tab EXCEPT ![t].attempt = NoAttempt, ![t].room = NoAttempt]

Disconnect(t) ==
  /\ "realtime" \in Faults
  /\ tab[t].connected
  /\ Depart(t)
  /\ overtaken' = (overtaken \/ tab[t].joins # {})
  /\ tab' = [tab EXCEPT ![t].connected = FALSE, ![t].room = NoAttempt]

\* The realtime server restarts: rooms, presence and what Redis had for it
\* are gone, and every socket connects again.
Restart ==
  /\ "realtime" \in Faults
  /\ channel' = <<>> /\ rooms' = {} /\ presence' = {} /\ overtaken' = FALSE
  /\ tab' = [t \in Tabs |-> [tab[t] EXCEPT !.connected = FALSE, !.room = NoAttempt, !.joins = {}]]
  /\ monitor' = [monitor EXCEPT !.joined = FALSE,
                                !.doubt = @ \/ (monitor.quiz # NoQuiz /\ channel # <<>>)]
  /\ UNCHANGED <<attempt, outbox, unlock, dialog>>

-----------------------------------------------------------------------------
\* handleEvent of the monitor.

\* An event about an attempt that is not listed is dropped, except its start.
RowAfterNoUnlock(row, type) ==
  IF row.status = "none" THEN (IF type = "attempt_started" THEN [row EXCEPT !.status = "in_progress"] ELSE row)
  ELSE CASE type = "violation_locked"  -> [row EXCEPT !.locked = TRUE, !.flags = @ + 1]
         [] type = "violation"         -> [row EXCEPT !.flags = @ + 1]
         [] type = "attempt_submitted" -> [row EXCEPT !.status = "finished", !.score = 1]
         [] type = "attempt_regraded"  -> [row EXCEPT !.score = 2]
         [] OTHER                      -> row

\* Bug: the start of an attempt replaces the row that is there.
RowAfterRestarted(row, type) ==
  IF type = "attempt_started" THEN [Unlisted EXCEPT !.status = "in_progress"]
  ELSE IF type = "attempt_unlocked" THEN [row EXCEPT !.locked = FALSE]
  ELSE RowAfterNoUnlock(row, type)

\* Bug: a new score is added to the one shown.
RowAfterAdding(row, type) ==
  IF row.status = "none" THEN RowAfterNoUnlock(row, type)
  ELSE CASE type = "attempt_regraded" -> [row EXCEPT !.score = @ + 1]
         [] type = "attempt_unlocked" -> [row EXCEPT !.locked = FALSE]
         [] OTHER                     -> RowAfterNoUnlock(row, type)

RowAfter(row, type) ==
  IF type = "attempt_unlocked" /\ row.status # "none" THEN [row EXCEPT !.locked = FALSE]
  ELSE RowAfterNoUnlock(row, type)

\* A message of the channel goes to the room of its attempt's quiz. The page
\* does not look which quiz an event is about.
Relay ==
  LET e == Head(channel) IN
  /\ channel # <<>>
  /\ channel' = Tail(channel)
  /\ monitor' =
       IF monitor.quiz = NoQuiz THEN monitor
       ELSE IF monitor.joined /\ QuizOf[e.attempt] \in rooms
         THEN [monitor EXCEPT !.rows[e.attempt] = RowAfter(@, e.type)]
       ELSE [monitor EXCEPT !.doubt = @ \/ QuizOf[e.attempt] = monitor.quiz]
  /\ UNCHANGED <<attempt, outbox, presenceVars, rooms, unlock, dialog>>

-----------------------------------------------------------------------------
\* The monitor.

ListAttemptsForQuiz(q) == [a \in Attempts |-> IF QuizOf[a] = q THEN attempt[a] ELSE Unlisted]

\* The page is rendered from the tables. What is relayed
\* before it joins the room it never hears of, and what was written before and
\* is relayed later it hears of twice.
OpenMonitor(q) ==
  /\ monitor.quiz = NoQuiz
  /\ monitor' = [quiz |-> q, joined |-> FALSE, present |-> {},
                 rows |-> ListAttemptsForQuiz(q),
                 doubt |-> outbox # <<>> \/ channel # <<>>]
  /\ UNCHANGED <<serverVars, presenceVars, rooms, unlock, dialog>>

\* The page runs in the browser: it listens and, on every connect, sends
\* join:quiz, whose answer is the presence list.
JoinQuiz ==
  /\ monitor.quiz # NoQuiz /\ ~monitor.joined
  /\ rooms' = rooms \union {monitor.quiz}
  /\ monitor' = [monitor EXCEPT !.joined = TRUE,
                                !.present = {a \in presence : QuizOf[a] = monitor.quiz}]
  /\ UNCHANGED <<serverVars, presenceVars, unlock, dialog>>

\* The teacher goes to another page of the application. The socket stays
\* connected, and nothing leaves the room.
CloseMonitor ==
  /\ monitor.quiz # NoQuiz /\ unlock.at = "idle"
  /\ monitor' = ClosedMonitor /\ dialog' = [at |-> "closed", attempt |-> NoAttempt]
  /\ UNCHANGED <<serverVars, presenceVars, rooms, unlock>>

\* What the page offers: the table unlocks the rows it shows as locked, the
\* dialog what it was loaded as; the students present and the activity feed, in
\* which every listed attempt was started, open the story.
TableOffersUnlock(a) == monitor.rows[a].status # "none" /\ monitor.rows[a].locked
DialogOffersUnlock(a) == dialog = [at |-> "locked", attempt |-> a]
ListOffersStory(a) == a \in monitor.present
FeedOffersStory(a) == monitor.rows[a].status # "none"

HandleUnlock(a) ==
  /\ unlock.at = "idle" /\ (TableOffersUnlock(a) \/ DialogOffersUnlock(a))
  /\ unlock' = [at |-> "sent", attempt |-> a]
  /\ UNCHANGED <<serverVars, presenceVars, rooms, monitor, dialog>>

\* The dialog takes the unlock for done, whatever was answered.
DialogAfterUnlock ==
  IF dialog.attempt = unlock.attempt /\ dialog.at = "locked" THEN [dialog EXCEPT !.at = "open"]
  ELSE dialog

\* The answer of an unlock may come after the event of the next lock.
UnlockAnswerArrives ==
  /\ unlock.at = "accepted"
  /\ unlock' = [at |-> "idle", attempt |-> NoAttempt]
  /\ monitor' = [monitor EXCEPT !.rows[unlock.attempt].locked = FALSE,
                                !.doubt = @ \/ attempt[unlock.attempt].locked]
  /\ dialog' = DialogAfterUnlock
  /\ UNCHANGED <<serverVars, presenceVars, rooms>>

\* The unlock is refused, by a session that has run out or a database that
\* does not answer: handleUnlock returns.
UnlockRefused ==
  /\ "network" \in Faults
  /\ unlock.at = "sent"
  /\ unlock' = [at |-> "idle", attempt |-> NoAttempt]
  /\ dialog' = DialogAfterUnlock
  /\ UNCHANGED <<serverVars, presenceVars, rooms, monitor>>

\* Its answer is lost: handleUnlock throws.
LoseUnlock ==
  /\ "network" \in Faults
  /\ unlock.at \in {"sent", "accepted"}
  /\ unlock' = [at |-> "idle", attempt |-> NoAttempt]
  /\ UNCHANGED <<serverVars, presenceVars, rooms, monitor, dialog>>

\* The story dialog shows one attempt as GET attempt found it, from then on.
OpenStory(a) ==
  /\ dialog.at = "closed" /\ (ListOffersStory(a) \/ FeedOffersStory(a))
  /\ dialog' = [at |-> "loading", attempt |-> a]
  /\ UNCHANGED <<serverVars, presenceVars, rooms, monitor, unlock>>

StoryArrives ==
  /\ dialog.at = "loading"
  /\ dialog' = [dialog EXCEPT !.at = IF attempt[dialog.attempt].locked THEN "locked" ELSE "open"]
  /\ UNCHANGED <<serverVars, presenceVars, rooms, monitor, unlock>>

CloseStory ==
  /\ dialog.at # "closed"
  /\ dialog' = [at |-> "closed", attempt |-> NoAttempt]
  /\ UNCHANGED <<serverVars, presenceVars, rooms, monitor, unlock>>

-----------------------------------------------------------------------------
Init ==
  /\ attempt = [a \in Attempts |-> Unlisted]
  /\ outbox = <<>> /\ channel = <<>>
  /\ tab = [t \in Tabs |-> [attempt |-> NoAttempt, connected |-> FALSE,
                            room |-> NoAttempt, joins |-> {}]]
  /\ presence = {} /\ overtaken = FALSE
  /\ rooms = {} /\ monitor = ClosedMonitor
  /\ unlock = [at |-> "idle", attempt |-> NoAttempt]
  /\ dialog = [at |-> "closed", attempt |-> NoAttempt]

Handlers ==
  \/ \E a \in Attempts :
       \/ StartAttempt(a) \/ FinishAttempt(a) \/ Regrade(a) \/ UnlockAttempt(a)
       \/ \E locks \in BOOLEAN : RecordViolation(a, locks)
  \/ \E i \in DOMAIN outbox, dropped \in BOOLEAN : Publish(i, dropped)

Realtime ==
  \/ \E t \in Tabs :
       \/ Connect(t) \/ LeaveAttempt(t) \/ Disconnect(t)
       \/ \E a \in Attempts : OpenPage(t, a) \/ JoinAttempt(t, a)
  \/ Relay \/ Restart

Teacher ==
  \/ \E q \in Quizzes : OpenMonitor(q)
  \/ JoinQuiz \/ CloseMonitor
  \/ \E a \in Attempts : HandleUnlock(a) \/ OpenStory(a)
  \/ UnlockAnswerArrives \/ UnlockRefused \/ LoseUnlock \/ StoryArrives \/ CloseStory

Next == Handlers \/ Realtime \/ Teacher

Spec == Init /\ [][Next]_vars

-----------------------------------------------------------------------------
\* Properties.

\* The tables, the messages, the sockets and the page keep their shape.
Rows == [status : {"none", "in_progress", "finished"}, locked : BOOLEAN,
         flags : Nat, score : 0..2]
Types == {"attempt_started", "violation_locked", "violation", "attempt_submitted",
          "attempt_regraded", "attempt_unlocked"}
Events == [type : Types, attempt : Attempts, by : {"student", "monitor"}]
TabStates == [attempt : Attempts \union {NoAttempt}, connected : BOOLEAN,
              room : Attempts \union {NoAttempt}, joins : SUBSET Attempts]
Pages == [quiz : Quizzes \union {NoQuiz}, joined : BOOLEAN, rows : [Attempts -> Rows],
          present : SUBSET Attempts, doubt : BOOLEAN]
TypeOK ==
  /\ attempt \in [Attempts -> Rows]
  /\ outbox \in Seq(Events) /\ channel \in Seq(Events)
  /\ Len(outbox) + Len(channel) <= MaxEvents
  /\ tab \in [Tabs -> TabStates]
  /\ presence \subseteq Attempts /\ overtaken \in BOOLEAN
  /\ rooms \subseteq Quizzes /\ monitor \in Pages
  /\ unlock \in [at : {"idle", "sent", "publishing", "accepted"}, attempt : Attempts \union {NoAttempt}]
  /\ dialog \in [at : {"closed", "loading", "locked", "open"}, attempt : Attempts \union {NoAttempt}]

\* A monitor that has heard every event since it was loaded shows each attempt
\* as it is, so that every attempt that waits for a teacher is offered to one.
MonitorShowsAttempts ==
  monitor.joined /\ ~monitor.doubt /\ outbox = <<>> /\ channel = <<>> /\ unlock.at = "idle"
    => \A a \in Attempts : QuizOf[a] = monitor.quiz => monitor.rows[a] = attempt[a]

\* Events about one attempt may come in any order and more than once, but an
\* attempt the monitor showed as finished it never shows as being taken again.
MonitorKeepsFinished ==
  [][\A a \in Attempts :
       monitor.rows[a].status = "finished" /\ monitor'.quiz # NoQuiz
         => monitor'.rows[a].status = "finished"]_vars

\* Presence: unless a join was overtaken by the departure of its page, or two
\* tabs have shown one attempt, an attempt is present exactly while a tab is in
\* its room, and the monitor that watches shows it, if its socket is in the room
\* of its own quiz only.
PresenceIsRoom ==
  ~overtaken =>
    /\ presence = {a \in Attempts : InRoom(a) # {}}
    /\ \A t \in Tabs : tab[t].room \in {tab[t].attempt, NoAttempt}
    /\ monitor.joined /\ rooms \subseteq {monitor.quiz} =>
         monitor.present = {a \in presence : QuizOf[a] = monitor.quiz}

\* Everything is of its type, and the presence list is the room.
MonitorInv == TypeOK /\ PresenceIsRoom
=============================================================================

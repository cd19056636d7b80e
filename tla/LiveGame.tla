------------------------------- MODULE LiveGame -------------------------------
(***************************************************************************)
(* One hosted live game: players join and answer the current question, the *)
(* host starts, reveals, advances and ends, a timer closes each question   *)
(* (src/realtime/server.ts and src/backend/live).  The realtime server is  *)
(* one Node.js process: what a handler does up to its next await is one    *)
(* action, and between two awaits any other handler may run.  PostgreSQL   *)
(* holds the game; Redis holds two counters that decide when everyone has  *)
(* answered and may fail at every call; the timer and the guard of the     *)
(* reveal live in the process and are lost with it.                        *)
(***************************************************************************)
EXTENDS Integers, FiniteSets, Functions

CONSTANTS
  Players,         \* students and guests, by the row they get
  QuestionCount,   \* the length of question_order
  SpeedPoints,     \* what computeSpeedPoints may return
  PlayerTasks,     \* the handlers of players' messages in flight at once
  HostTasks,       \* the handlers of the host's messages in flight at once
  SlowReveals,     \* may a reveal take longer than a question's time limit?
  Faults,          \* what may fail: "redis", "handler", "server"
  Null

Questions == 0 .. QuestionCount - 1
Tasks == PlayerTasks \union HostTasks

ASSUME ConstantsAssumption ==
  /\ IsFiniteSet(Players)
  /\ QuestionCount \in Nat \ {0}
  /\ SpeedPoints \subseteq Nat
  /\ PlayerTasks \intersect HostTasks = {}
  /\ SlowReveals \in BOOLEAN
  /\ Null \notin Nat

VARIABLES
  \* live_sessions; the status "deleted" is the absence of the row
  status, current,
  \* live_session_participants and live_session_answers
  joined, score,
  answers,      \* the points of each row, Null where there is no row
  \* Redis
  rosterCount, answeredCount,
  \* the realtime server: an entry of revealTimers, the reveal that holds the
  \* entry of revealingSessions, and the handlers in flight
  timer, reveal, task

sessionVars == <<status, current>>
rowVars == <<joined, score, answers>>
cacheVars == <<rosterCount, answeredCount>>
vars == <<sessionVars, rowVars, cacheVars, timer, reveal, task>>

-----------------------------------------------------------------------------
Ended == {"finished", "cancelled"}
Rows(q) == {p \in Players : answers[p][q] # Null}
PointsOf(p) == [q \in Questions |-> IF answers[p][q] = Null THEN 0 ELSE answers[p][q]]
NextQuestion == IF current = Null THEN 0 ELSE current + 1

Idle == [at |-> "idle"]

TaskStates ==
  {Idle}
  \union [at : {"insert_participant"}, player : Players]
  \union [at : {"get_roster"}]
  \union [at : {"set_roster_count"}, count : Nat]
  \union [at : {"insert_answer", "add_score"},
          player : Players, question : Questions, points : SpeedPoints]
  \union [at : {"incr_answered", "count_answers"}, question : Questions]
  \union [at : {"get_roster_count", "count_participants"}, answered : Nat]
  \union [at : {"store_roster_count", "reveal_early"}, answered : Nat, total : Nat]
  \union [at : {"write_start", "show_question", "stop_timer", "clear_cache",
                "write_cancelled", "write_deleted"}]
  \union [at : {"write_next"}, next : Nat]

RevealStates ==
  {Idle}
  \union [at : {"read_session", "publish"}]
  \union [at : {"flip"}, question : Questions, open : BOOLEAN]

Arrive(t, tasks) == t \in tasks /\ task[t] = Idle
Continue(t, state) == task' = [task EXCEPT ![t] = state]

\* A call to Redis may fail; its caller never sees the error.
RedisMayFail == "redis" \in Faults

\* UPDATE live_sessions: nothing happens to a row that is gone.
SetStatus(new) == status' = IF status = "deleted" THEN status ELSE new

-----------------------------------------------------------------------------
\* createLiveSession made the game; nobody has joined.
Init ==
  /\ status = "lobby"
  /\ current = Null
  /\ joined = {}
  /\ score = [p \in Players |-> 0]
  /\ answers = [p \in Players |-> [q \in Questions |-> Null]]
  /\ rosterCount = Null
  /\ answeredCount = [q \in Questions |-> 0]
  /\ timer = FALSE
  /\ reveal = Idle
  /\ task = [t \in Tasks |-> Idle]

-----------------------------------------------------------------------------
(***************************************************************************)
(* live:join, for the first time or again after a lost connection.         *)
(***************************************************************************)

JoinSession(t, p) ==
  /\ Arrive(t, PlayerTasks)
  /\ status \notin Ended \union {"deleted"}
  /\ Continue(t, [at |-> "insert_participant", player |-> p])
  /\ UNCHANGED <<sessionVars, rowVars, cacheVars, timer, reveal>>

InsertParticipant(t) ==
  /\ task[t].at = "insert_participant"
  /\ IF status = "deleted"
       THEN Continue(t, Idle) /\ UNCHANGED joined
       ELSE /\ joined' = joined \union {task[t].player}
            /\ Continue(t, [at |-> "get_roster"])
  /\ UNCHANGED <<sessionVars, score, answers, cacheVars, timer, reveal>>

\* announceParticipantJoin: the roster is read, broadcast, and its length cached.
GetRoster(t) ==
  /\ task[t].at = "get_roster"
  /\ Continue(t, [at |-> "set_roster_count", count |-> Cardinality(joined)])
  /\ UNCHANGED <<sessionVars, rowVars, cacheVars, timer, reveal>>

\* Bug: every join adds one, also a player's second.
AddToRosterCount(t) ==
  /\ task[t].at = "set_roster_count"
  /\ rosterCount' = IF rosterCount = Null THEN 1 ELSE rosterCount + 1
  /\ Continue(t, Idle)
  /\ UNCHANGED <<sessionVars, rowVars, answeredCount, timer, reveal>>

SetRosterCount(t) ==
  /\ task[t].at = "set_roster_count"
  /\ \/ rosterCount' = task[t].count
     \/ RedisMayFail /\ UNCHANGED rosterCount
  /\ Continue(t, Idle)
  /\ UNCHANGED <<sessionVars, rowVars, answeredCount, timer, reveal>>

-----------------------------------------------------------------------------
(***************************************************************************)
(* live:answer: submitAnswer, then the count that may close the question.  *)
(***************************************************************************)

SubmitAnswer(t, p, q, points) ==
  /\ Arrive(t, PlayerTasks)
  /\ p \in joined
  /\ status = "question" /\ current = q
  /\ Continue(t, [at |-> "insert_answer", player |-> p, question |-> q, points |-> points])
  /\ UNCHANGED <<sessionVars, rowVars, cacheVars, timer, reveal>>

\* Bug: a row that was not inserted is not noticed.
InsertAnswerUnchecked(t) ==
  /\ task[t].at = "insert_answer"
  /\ LET p == task[t].player
         q == task[t].question
     IN  /\ answers' = IF answers[p][q] = Null
                         THEN [answers EXCEPT ![p][q] = task[t].points]
                         ELSE answers
         /\ Continue(t, [task[t] EXCEPT !.at = "add_score"])
  /\ UNCHANGED <<sessionVars, joined, score, cacheVars, timer, reveal>>

\* The unique index lets the first answer in; of a deleted game there is no
\* participant left to refer to.
InsertAnswer(t) ==
  /\ task[t].at = "insert_answer"
  /\ LET p == task[t].player
         q == task[t].question
     IN  IF answers[p][q] = Null /\ status # "deleted"
           THEN /\ answers' = [answers EXCEPT ![p][q] = task[t].points]
                /\ Continue(t, [task[t] EXCEPT !.at = "add_score"])
           ELSE UNCHANGED answers /\ Continue(t, Idle)
  /\ UNCHANGED <<sessionVars, joined, score, cacheVars, timer, reveal>>

\* Bug: the score is replaced.
AddScoreReplaced(t) ==
  /\ task[t].at = "add_score"
  /\ score' = [score EXCEPT ![task[t].player] = task[t].points]
  /\ Continue(t, [at |-> "incr_answered", question |-> task[t].question])
  /\ UNCHANGED <<sessionVars, joined, answers, cacheVars, timer, reveal>>

AddScore(t) ==
  /\ task[t].at = "add_score"
  /\ score' = IF status = "deleted" THEN score
                                    ELSE [score EXCEPT ![task[t].player] = @ + task[t].points]
  /\ Continue(t, [at |-> "incr_answered", question |-> task[t].question])
  /\ UNCHANGED <<sessionVars, joined, answers, cacheVars, timer, reveal>>

\* INCR, then EXPIRE for a new key.  If either fails the answers are counted in
\* PostgreSQL, whether or not Redis did the increment.
IncrAnsweredCount(t) ==
  /\ task[t].at = "incr_answered"
  /\ LET q == task[t].question
         incremented == [answeredCount EXCEPT ![q] = @ + 1]
         count == [at |-> "count_answers", question |-> q]
     IN  \/ /\ answeredCount' = incremented
            /\ Continue(t, [at |-> "get_roster_count", answered |-> answeredCount[q] + 1])
         \/ RedisMayFail /\ answeredCount' \in {answeredCount, incremented} /\ Continue(t, count)
  /\ UNCHANGED <<sessionVars, rowVars, rosterCount, timer, reveal>>

GetAnswerCount(t) ==
  /\ task[t].at = "count_answers"
  /\ Continue(t, [at |-> "get_roster_count", answered |-> Cardinality(Rows(task[t].question))])
  /\ UNCHANGED <<sessionVars, rowVars, cacheVars, timer, reveal>>

GetRosterCount(t) ==
  /\ task[t].at = "get_roster_count"
  /\ LET answered == task[t].answered
     IN  \/ /\ rosterCount # Null
            /\ Continue(t, [at |-> "reveal_early", answered |-> answered, total |-> rosterCount])
         \/ /\ rosterCount = Null \/ RedisMayFail
            /\ Continue(t, [at |-> "count_participants", answered |-> answered])
  /\ UNCHANGED <<sessionVars, rowVars, cacheVars, timer, reveal>>

CountParticipants(t) ==
  /\ task[t].at = "count_participants"
  /\ Continue(t, [at |-> "store_roster_count", answered |-> task[t].answered,
                  total |-> Cardinality(joined)])
  /\ UNCHANGED <<sessionVars, rowVars, cacheVars, timer, reveal>>

StoreRosterCount(t) ==
  /\ task[t].at = "store_roster_count"
  /\ \/ rosterCount' = task[t].total
     \/ RedisMayFail /\ UNCHANGED rosterCount
  /\ Continue(t, [task[t] EXCEPT !.at = "reveal_early"])
  /\ UNCHANGED <<sessionVars, rowVars, answeredCount, timer, reveal>>

-----------------------------------------------------------------------------
(***************************************************************************)
(* triggerReveal: a reveal under way makes another one return at once.     *)
(***************************************************************************)

\* Bug: the timer is stopped before the guard is looked at.
TriggerRevealStopsTimer ==
  /\ timer' = FALSE
  /\ reveal' = IF reveal = Idle THEN [at |-> "read_session"] ELSE reveal

TriggerReveal ==
  IF reveal = Idle THEN reveal' = [at |-> "read_session"] /\ timer' = FALSE
                   ELSE UNCHANGED <<reveal, timer>>

EveryoneAnswered(t) == task[t].total > 0 /\ task[t].answered >= task[t].total

RevealEarly(t) ==
  /\ task[t].at = "reveal_early"
  /\ IF EveryoneAnswered(t) THEN TriggerReveal ELSE UNCHANGED <<reveal, timer>>
  /\ Continue(t, Idle)
  /\ UNCHANGED <<sessionVars, rowVars, cacheVars>>

HostReveal ==
  /\ status # "deleted"
  /\ TriggerReveal
  /\ UNCHANGED <<sessionVars, rowVars, cacheVars, task>>

\* The timeout of scheduleAutoReveal.  It has fired, whether or not its entry is
\* still in revealTimers.
AutoReveal ==
  /\ timer
  /\ SlowReveals \/ reveal = Idle
  /\ timer' = FALSE
  /\ reveal' = IF reveal = Idle THEN [at |-> "read_session"] ELSE reveal
  /\ UNCHANGED <<sessionVars, rowVars, cacheVars, task>>

RevealAnswer ==
  /\ reveal.at = "read_session"
  /\ reveal' = IF status = "deleted"
                 THEN Idle
                 ELSE [at |-> "flip", open |-> status = "question",
                       question |-> IF current = Null THEN 0 ELSE current]
  /\ UNCHANGED <<sessionVars, rowVars, cacheVars, timer, task>>

CloseQuestion ==
  /\ reveal.at = "flip"
  /\ IF reveal.open THEN SetStatus("reveal") ELSE UNCHANGED status
  /\ reveal' = [at |-> "publish"]
  /\ UNCHANGED <<current, rowVars, cacheVars, timer, task>>

PublishReveal ==
  /\ reveal.at = "publish"
  /\ reveal' = Idle
  /\ UNCHANGED <<sessionVars, rowVars, cacheVars, timer, task>>

-----------------------------------------------------------------------------
(***************************************************************************)
(* The host's messages, and the removal of an ended game through the API.  *)
(***************************************************************************)

StartSession(t) ==
  /\ Arrive(t, HostTasks)
  /\ status = "lobby"
  /\ Continue(t, [at |-> "write_start"])
  /\ UNCHANGED <<sessionVars, rowVars, cacheVars, timer, reveal>>

\* The question the game is to show; of a deleted game there is no row to show it of.
OpenQuestion(t, q) ==
  IF status = "deleted"
    THEN Continue(t, Idle) /\ UNCHANGED sessionVars
    ELSE /\ status' = "question"
         /\ current' = q
         /\ Continue(t, [at |-> "show_question"])

WriteStart(t) ==
  /\ task[t].at = "write_start"
  /\ OpenQuestion(t, 0)
  /\ UNCHANGED <<rowVars, cacheVars, timer, reveal>>

\* Bug: no timer is set.
ShowQuestionUntimed(t) ==
  /\ task[t].at = "show_question"
  /\ Continue(t, Idle)
  /\ UNCHANGED <<sessionVars, rowVars, cacheVars, timer, reveal>>

\* live:question is sent and scheduleAutoReveal replaces whatever was pending.
ShowQuestion(t) ==
  /\ task[t].at = "show_question"
  /\ timer' = TRUE
  /\ Continue(t, Idle)
  /\ UNCHANGED <<sessionVars, rowVars, cacheVars, reveal>>

AdvanceQuestion(t) ==
  /\ Arrive(t, HostTasks)
  /\ status # "deleted"
  /\ Continue(t, [at |-> "write_next", next |-> NextQuestion])
  /\ UNCHANGED <<sessionVars, rowVars, cacheVars, timer, reveal>>

\* Bug: one question too many.
WriteNextOffByOne(t) ==
  /\ task[t].at = "write_next"
  /\ IF task[t].next <= QuestionCount
       THEN OpenQuestion(t, task[t].next)
       ELSE SetStatus("finished") /\ UNCHANGED current /\ Continue(t, [at |-> "stop_timer"])
  /\ UNCHANGED <<rowVars, cacheVars, timer, reveal>>

WriteNext(t) ==
  /\ task[t].at = "write_next"
  /\ IF task[t].next \in Questions
       THEN OpenQuestion(t, task[t].next)
       ELSE SetStatus("finished") /\ UNCHANGED current /\ Continue(t, [at |-> "stop_timer"])
  /\ UNCHANGED <<rowVars, cacheVars, timer, reveal>>

StopTimer(t) ==
  /\ task[t].at = "stop_timer"
  /\ timer' = FALSE
  /\ Continue(t, [at |-> "clear_cache"])
  /\ UNCHANGED <<sessionVars, rowVars, cacheVars, reveal>>

ClearSessionCache(t) ==
  /\ task[t].at = "clear_cache"
  /\ \/ rosterCount' = Null /\ answeredCount' = [q \in Questions |-> 0]
     \/ RedisMayFail /\ UNCHANGED cacheVars
  /\ Continue(t, Idle)
  /\ UNCHANGED <<sessionVars, rowVars, timer, reveal>>

ShowLeaderboard ==
  /\ status # "deleted"
  /\ status' = "leaderboard"
  /\ UNCHANGED <<current, rowVars, cacheVars, timer, reveal, task>>

CancelSession(t) ==
  /\ Arrive(t, HostTasks)
  /\ status # "deleted"
  /\ timer' = FALSE
  /\ Continue(t, [at |-> "write_cancelled"])
  /\ UNCHANGED <<sessionVars, rowVars, cacheVars, reveal>>

WriteCancelled(t) ==
  /\ task[t].at = "write_cancelled"
  /\ SetStatus("cancelled")
  /\ Continue(t, [at |-> "clear_cache"])
  /\ UNCHANGED <<current, rowVars, cacheVars, timer, reveal>>

DeleteSession(t) ==
  /\ Arrive(t, HostTasks)
  /\ status \in Ended
  /\ Continue(t, [at |-> "write_deleted"])
  /\ UNCHANGED <<sessionVars, rowVars, cacheVars, timer, reveal>>

\* The participants and the answers go with the game.
WriteDeleted(t) ==
  /\ task[t].at = "write_deleted"
  /\ status' = "deleted"
  /\ joined' = {}
  /\ score' = [p \in Players |-> 0]
  /\ answers' = [p \in Players |-> [q \in Questions |-> Null]]
  /\ Continue(t, Idle)
  /\ UNCHANGED <<current, cacheVars, timer, reveal>>

-----------------------------------------------------------------------------
\* What may go wrong.

\* A statement throws: the handler reports live:error.
FailTask(t) ==
  /\ "handler" \in Faults
  /\ task[t] # Idle
  /\ Continue(t, Idle)
  /\ UNCHANGED <<sessionVars, rowVars, cacheVars, timer, reveal>>

FailReveal ==
  /\ "handler" \in Faults
  /\ reveal # Idle
  /\ reveal' = Idle
  /\ UNCHANGED <<sessionVars, rowVars, cacheVars, timer, task>>

\* The realtime server stops and is started again; the API is another process.
Restart ==
  /\ "server" \in Faults
  /\ timer' = FALSE
  /\ reveal' = Idle
  /\ task' = [t \in Tasks |-> IF task[t].at = "write_deleted" THEN task[t] ELSE Idle]
  /\ UNCHANGED <<sessionVars, rowVars, cacheVars>>

\* Messages that are refused: with nothing under way the game may rest for ever.
Refuse ==
  /\ reveal = Idle /\ \A t \in Tasks : task[t] = Idle
  /\ UNCHANGED vars

PlayerStep(t) ==
  \/ InsertParticipant(t) \/ GetRoster(t) \/ SetRosterCount(t)
  \/ InsertAnswer(t) \/ AddScore(t)
  \/ IncrAnsweredCount(t) \/ GetAnswerCount(t)
  \/ GetRosterCount(t) \/ CountParticipants(t) \/ StoreRosterCount(t)
  \/ RevealEarly(t)

HostStep(t) ==
  \/ WriteStart(t) \/ ShowQuestion(t) \/ WriteNext(t)
  \/ StopTimer(t) \/ ClearSessionCache(t) \/ WriteCancelled(t) \/ WriteDeleted(t)

RevealStep == RevealAnswer \/ CloseQuestion \/ PublishReveal

PlayerMessage(t) ==
  \E p \in Players :
    \/ JoinSession(t, p)
    \/ \E q \in Questions, points \in SpeedPoints : SubmitAnswer(t, p, q, points)

HostMessage(t) ==
  StartSession(t) \/ AdvanceQuestion(t) \/ CancelSession(t) \/ DeleteSession(t)

Next ==
  \/ \E t \in PlayerTasks : PlayerMessage(t) \/ PlayerStep(t)
  \/ \E t \in HostTasks : HostMessage(t) \/ HostStep(t)
  \/ HostReveal \/ ShowLeaderboard
  \/ AutoReveal \/ RevealStep
  \/ \E t \in Tasks : FailTask(t)
  \/ FailReveal \/ Restart \/ Refuse

Spec == Init /\ [][Next]_vars

\* The event loop runs what is ready, the databases answer, timers expire; nobody
\* has to send a message.
FairSpec ==
  /\ Spec
  /\ \A t \in PlayerTasks : WF_vars(PlayerStep(t))
  /\ \A t \in HostTasks : WF_vars(HostStep(t))
  /\ WF_vars(RevealStep) /\ WF_vars(AutoReveal)

-----------------------------------------------------------------------------
(***************************************************************************)
(* Properties.                                                             *)
(***************************************************************************)

\* The rows, the counters and the handlers in flight have the shape the schema and
\* the realtime server give them.
TypeOK ==
  /\ status \in {"lobby", "question", "reveal", "leaderboard", "deleted"} \union Ended
  /\ current \in Questions \union {Null}
  /\ joined \subseteq Players
  /\ score \in [Players -> Nat]
  /\ answers \in [Players -> [Questions -> SpeedPoints \union {Null}]]
  /\ rosterCount \in Nat \union {Null}
  /\ answeredCount \in [Questions -> Nat]
  /\ timer \in BOOLEAN
  /\ reveal \in RevealStates
  /\ task \in [Tasks -> TaskStates]

\* Whatever fails, and however often a player taps, a score never holds points
\* that no answer of that player was awarded (the unique index is
\* live-session-answers.ts's "guard against double submission").
ScoreNeverAhead == \A p \in Players : score[p] <= SumFunction(PointsOf(p))

\* The counters in Redis never run ahead of the rows they stand for, whatever fails
\* (live-cache.ts: they are "fully reconstructable" from PostgreSQL, and an outage
\* "can undercount", no more).
CachesNeverAhead ==
  status # "deleted" =>
    /\ \A q \in Questions : answeredCount[q] <= Cardinality(Rows(q))
    /\ rosterCount # Null => rosterCount <= Cardinality(joined)

\* As long as no handler dies, a score is the sum of the points of the player's
\* answers as soon as no answer of that player is being added.
ScoreMatchesAnswers ==
  \A p \in Players :
    \/ \E t \in PlayerTasks : task[t].at = "add_score" /\ task[t].player = p
    \/ score[p] = SumFunction(PointsOf(p))

\* A question that is open has its timer running, unless a message of the host is
\* being handled or a reveal is under way: nobody has to press a button to go on.
QuestionIsTimed ==
  /\ status = "question"
  /\ \A t \in HostTasks : task[t] = Idle
  /\ reveal = Idle
  => timer

\* An open question is closed, by its timer if nobody is faster.
QuestionOpen(q) == status = "question" /\ current = q

EveryQuestionCloses == \A q \in Questions : QuestionOpen(q) ~> ~QuestionOpen(q)
=============================================================================

---------------------------- MODULE LiveGameProofs ----------------------------
(***************************************************************************)
(* Theorems about LiveGame, for every value of its constants.              *)
(***************************************************************************)
EXTENDS LiveGame, FiniteSetTheorems, WellFoundedInduction, TLAPS

-----------------------------------------------------------------------------
(* Type correctness.                                                       *)

\* What the place a handler has reached says about the locals it carries.
LEMMA TaskShape ==
  ASSUME NEW x \in TaskStates
  PROVE  /\ x.at = "insert_participant" => x.player \in Players
         /\ x.at = "set_roster_count" => x.count \in Nat
         /\ x.at \in {"insert_answer", "add_score"} =>
              /\ x.player \in Players /\ x.question \in Questions /\ x.points \in SpeedPoints
              /\ [x EXCEPT !.at = "add_score"] \in TaskStates
         /\ x.at \in {"incr_answered", "count_answers"} => x.question \in Questions
         /\ x.at \in {"get_roster_count", "count_participants"} => x.answered \in Nat
         /\ x.at \in {"store_roster_count", "reveal_early"} =>
              /\ x.answered \in Nat /\ x.total \in Nat
              /\ [x EXCEPT !.at = "reveal_early"] \in TaskStates
         /\ x.at = "write_next" => x.next \in Nat
BY DEF TaskStates, Idle

LEMMA IdleType == Idle \in TaskStates /\ Idle \in RevealStates
BY DEF TaskStates, RevealStates

\* Moving one handler on leaves well-formed handlers.
LEMMA ContinueType ==
  ASSUME task \in [Tasks -> TaskStates], NEW t \in Tasks, NEW x \in TaskStates,
         Continue(t, x)
  PROVE  task' \in [Tasks -> TaskStates]
BY DEF Continue

LEMMA CountsAreNat ==
  ASSUME joined \subseteq Players
  PROVE  /\ Cardinality(joined) \in Nat
         /\ \A q : Cardinality(Rows(q)) \in Nat
<1>1. \A q : Rows(q) \subseteq Players
  BY DEF Rows
<1>2. QED
  BY <1>1, ConstantsAssumption, FS_Subset, FS_CardinalityType

LEMMA InitTypeOK == Init => TypeOK
<1> SUFFICES ASSUME Init PROVE TypeOK
  OBVIOUS
<1>1. task \in [Tasks -> TaskStates]
  <2>1. Idle \in TaskStates /\ task = [t \in Tasks |-> Idle]
    BY IdleType DEF Init
  <2>2. QED
    BY <2>1
<1>2. reveal \in RevealStates
  BY IdleType DEF Init
<1>3. score \in [Players -> Nat] /\ answeredCount \in [Questions -> Nat]
  BY DEF Init
<1>4. answers \in [Players -> [Questions -> SpeedPoints \union {Null}]]
  BY DEF Init
<1>5. QED
  BY <1>1, <1>2, <1>3, <1>4 DEF Init, TypeOK

LEMMA JoinTypeOK ==
  ASSUME TypeOK, NEW t \in PlayerTasks,
         \/ \E p \in Players : JoinSession(t, p)
         \/ InsertParticipant(t) \/ GetRoster(t) \/ SetRosterCount(t)
  PROVE  TypeOK'
<1>0. t \in Tasks /\ task[t] \in TaskStates
  BY DEF TypeOK, Tasks
<1>1. ASSUME NEW p \in Players, JoinSession(t, p)
      PROVE  TypeOK'
  <2>1. [at |-> "insert_participant", player |-> p] \in TaskStates
    BY DEF TaskStates
  <2>2. task' \in [Tasks -> TaskStates]
    BY <1>0, <1>1, <2>1, ContinueType DEF JoinSession, TypeOK
  <2>3. QED
    BY <1>1, <2>2 DEF JoinSession, TypeOK, sessionVars, rowVars, cacheVars
<1>2. CASE InsertParticipant(t)
  <2>1. task[t].player \in Players
    BY <1>0, <1>2, TaskShape DEF InsertParticipant
  <2>2. [at |-> "get_roster"] \in TaskStates
    BY DEF TaskStates
  <2>3. task' \in [Tasks -> TaskStates]
    BY <1>0, <1>2, <2>2, ContinueType, IdleType DEF InsertParticipant, TypeOK
  <2>4. joined' \subseteq Players
    BY <1>2, <2>1 DEF InsertParticipant, TypeOK
  <2>5. QED
    BY <1>2, <2>3, <2>4 DEF InsertParticipant, TypeOK, sessionVars, cacheVars
<1>3. CASE GetRoster(t)
  <2>1. [at |-> "set_roster_count", count |-> Cardinality(joined)] \in TaskStates
    BY CountsAreNat DEF TaskStates, TypeOK
  <2>2. task' \in [Tasks -> TaskStates]
    BY <1>0, <1>3, <2>1, ContinueType DEF GetRoster, TypeOK
  <2>3. QED
    BY <1>3, <2>2 DEF GetRoster, TypeOK, sessionVars, rowVars, cacheVars
<1>4. CASE SetRosterCount(t)
  <2>1. task[t].count \in Nat
    BY <1>0, <1>4, TaskShape DEF SetRosterCount
  <2>2. task' \in [Tasks -> TaskStates]
    BY <1>0, <1>4, ContinueType, IdleType DEF SetRosterCount, TypeOK
  <2>3. QED
    BY <1>4, <2>1, <2>2 DEF SetRosterCount, TypeOK, sessionVars, rowVars
<1>5. QED
  BY <1>1, <1>2, <1>3, <1>4

LEMMA AnswerTypeOK ==
  ASSUME TypeOK, NEW t \in PlayerTasks,
         \/ \E p \in Players, q \in Questions, points \in SpeedPoints :
              SubmitAnswer(t, p, q, points)
         \/ InsertAnswer(t) \/ AddScore(t)
  PROVE  TypeOK'
<1>0. t \in Tasks /\ task[t] \in TaskStates
  BY DEF TypeOK, Tasks
<1>1. ASSUME NEW p \in Players, NEW q \in Questions, NEW points \in SpeedPoints,
             SubmitAnswer(t, p, q, points)
      PROVE  TypeOK'
  <2>1. [at |-> "insert_answer", player |-> p, question |-> q, points |-> points] \in TaskStates
    BY DEF TaskStates
  <2>2. task' \in [Tasks -> TaskStates]
    BY <1>0, <1>1, <2>1, ContinueType DEF SubmitAnswer, TypeOK
  <2>3. QED
    BY <1>1, <2>2 DEF SubmitAnswer, TypeOK, sessionVars, rowVars, cacheVars
<1>2. CASE InsertAnswer(t)
  <2>1. /\ task[t].player \in Players /\ task[t].question \in Questions
        /\ task[t].points \in SpeedPoints
        /\ [task[t] EXCEPT !.at = "add_score"] \in TaskStates
    BY <1>0, <1>2, TaskShape DEF InsertAnswer
  <2>2. task' \in [Tasks -> TaskStates]
    BY <1>0, <1>2, <2>1, ContinueType, IdleType DEF InsertAnswer, TypeOK
  <2>3. answers' \in [Players -> [Questions -> SpeedPoints \union {Null}]]
    <3>1. CASE answers' = answers
      BY <3>1 DEF TypeOK
    <3>2. CASE answers' = [answers EXCEPT ![task[t].player][task[t].question] = task[t].points]
      BY <2>1, <3>2 DEF TypeOK
    <3>3. QED
      BY <1>2, <3>1, <3>2 DEF InsertAnswer
  <2>4. QED
    BY <1>2, <2>2, <2>3 DEF InsertAnswer, TypeOK, sessionVars, cacheVars
<1>3. CASE AddScore(t)
  <2>1. /\ task[t].player \in Players /\ task[t].question \in Questions
        /\ task[t].points \in Nat
    BY <1>0, <1>3, TaskShape, ConstantsAssumption DEF AddScore
  <2>2. [at |-> "incr_answered", question |-> task[t].question] \in TaskStates
    BY <2>1 DEF TaskStates
  <2>3. task' \in [Tasks -> TaskStates]
    BY <1>0, <1>3, <2>2, ContinueType DEF AddScore, TypeOK
  <2>4. score' \in [Players -> Nat]
    BY <1>3, <2>1 DEF AddScore, TypeOK
  <2>5. QED
    BY <1>3, <2>3, <2>4 DEF AddScore, TypeOK, sessionVars, cacheVars
<1>4. QED
  BY <1>1, <1>2, <1>3

LEMMA CountTypeOK ==
  ASSUME TypeOK, NEW t \in PlayerTasks,
         \/ IncrAnsweredCount(t) \/ GetAnswerCount(t)
         \/ GetRosterCount(t) \/ CountParticipants(t) \/ StoreRosterCount(t)
  PROVE  TypeOK'
<1>0. t \in Tasks /\ task[t] \in TaskStates
  BY DEF TypeOK, Tasks
<1>1. CASE IncrAnsweredCount(t)
  <2>1. task[t].question \in Questions
    BY <1>0, <1>1, TaskShape DEF IncrAnsweredCount
  <2>2. answeredCount[task[t].question] + 1 \in Nat
    BY <2>1 DEF TypeOK
  <2>3. [answeredCount EXCEPT ![task[t].question] = @ + 1] \in [Questions -> Nat]
    BY <2>1 DEF TypeOK
  <2>4. answeredCount' \in [Questions -> Nat]
    BY <1>1, <2>3 DEF IncrAnsweredCount, TypeOK
  <2>5. /\ [at |-> "count_answers", question |-> task[t].question] \in TaskStates
        /\ [at |-> "get_roster_count", answered |-> answeredCount[task[t].question] + 1]
             \in TaskStates
    BY <2>1, <2>2 DEF TaskStates
  <2>6. task' \in [Tasks -> TaskStates]
    BY <1>0, <1>1, <2>5, ContinueType DEF IncrAnsweredCount, TypeOK
  <2>7. QED
    BY <1>1, <2>4, <2>6 DEF IncrAnsweredCount, TypeOK, sessionVars, rowVars
<1>2. CASE GetAnswerCount(t)
  <2>1. [at |-> "get_roster_count", answered |-> Cardinality(Rows(task[t].question))]
          \in TaskStates
    BY CountsAreNat DEF TaskStates, TypeOK
  <2>2. task' \in [Tasks -> TaskStates]
    BY <1>0, <1>2, <2>1, ContinueType DEF GetAnswerCount, TypeOK
  <2>3. QED
    BY <1>2, <2>2 DEF GetAnswerCount, TypeOK, sessionVars, rowVars, cacheVars
<1>3. CASE GetRosterCount(t)
  <2>1. task[t].answered \in Nat
    BY <1>0, <1>3, TaskShape DEF GetRosterCount
  <2>2. /\ [at |-> "count_participants", answered |-> task[t].answered] \in TaskStates
        /\ rosterCount # Null =>
             [at |-> "reveal_early", answered |-> task[t].answered, total |-> rosterCount]
               \in TaskStates
    BY <2>1 DEF TaskStates, TypeOK
  <2>3. task' \in [Tasks -> TaskStates]
    BY <1>0, <1>3, <2>2, ContinueType DEF GetRosterCount, TypeOK
  <2>4. QED
    BY <1>3, <2>3 DEF GetRosterCount, TypeOK, sessionVars, rowVars, cacheVars
<1>4. CASE CountParticipants(t)
  <2>1. task[t].answered \in Nat
    BY <1>0, <1>4, TaskShape DEF CountParticipants
  <2>2. [at |-> "store_roster_count", answered |-> task[t].answered,
         total |-> Cardinality(joined)] \in TaskStates
    BY <2>1, CountsAreNat DEF TaskStates, TypeOK
  <2>3. task' \in [Tasks -> TaskStates]
    BY <1>0, <1>4, <2>2, ContinueType DEF CountParticipants, TypeOK
  <2>4. QED
    BY <1>4, <2>3 DEF CountParticipants, TypeOK, sessionVars, rowVars, cacheVars
<1>5. CASE StoreRosterCount(t)
  <2>1. task[t].total \in Nat /\ [task[t] EXCEPT !.at = "reveal_early"] \in TaskStates
    BY <1>0, <1>5, TaskShape DEF StoreRosterCount
  <2>2. task' \in [Tasks -> TaskStates]
    BY <1>0, <1>5, <2>1, ContinueType DEF StoreRosterCount, TypeOK
  <2>3. QED
    BY <1>5, <2>1, <2>2 DEF StoreRosterCount, TypeOK, sessionVars, rowVars
<1>6. QED
  BY <1>1, <1>2, <1>3, <1>4, <1>5

LEMMA TriggerType ==
  ASSUME TypeOK, TriggerReveal
  PROVE  reveal' \in RevealStates /\ timer' \in BOOLEAN
<1>1. [at |-> "read_session"] \in RevealStates
  BY DEF RevealStates
<1>2. CASE reveal = Idle
  BY <1>1, <1>2 DEF TriggerReveal
<1>3. CASE reveal # Idle
  BY <1>3 DEF TriggerReveal, TypeOK
<1>4. QED
  BY <1>2, <1>3

LEMMA RevealTypeOK ==
  ASSUME TypeOK,
         \/ \E t \in PlayerTasks : RevealEarly(t)
         \/ HostReveal \/ AutoReveal \/ RevealStep \/ FailReveal
  PROVE  TypeOK'
<1>1. ASSUME NEW t \in PlayerTasks, RevealEarly(t)
      PROVE  TypeOK'
  <2>1. reveal' \in RevealStates /\ timer' \in BOOLEAN
    BY <1>1, TriggerType DEF RevealEarly, TypeOK
  <2>2. task' \in [Tasks -> TaskStates]
    BY <1>1, ContinueType, IdleType DEF RevealEarly, TypeOK, Tasks
  <2>3. QED
    BY <1>1, <2>1, <2>2 DEF RevealEarly, TypeOK, sessionVars, rowVars, cacheVars
<1>2. CASE HostReveal
  BY <1>2, TriggerType DEF HostReveal, TypeOK, sessionVars, rowVars, cacheVars
<1>3. CASE AutoReveal
  <2>1. reveal' \in RevealStates
    BY <1>3 DEF AutoReveal, TypeOK, RevealStates
  <2>2. QED
    BY <1>3, <2>1 DEF AutoReveal, TypeOK, sessionVars, rowVars, cacheVars
<1>4. CASE RevealAnswer
  <2>1. (IF current = Null THEN 0 ELSE current) \in Questions
    BY ConstantsAssumption DEF TypeOK, Questions
  <2>2. reveal' \in RevealStates
    BY <1>4, <2>1, IdleType DEF RevealAnswer, RevealStates
  <2>3. QED
    BY <1>4, <2>2 DEF RevealAnswer, TypeOK, sessionVars, rowVars, cacheVars
<1>5. CASE CloseQuestion
  <2>1. reveal' \in RevealStates
    BY <1>5 DEF CloseQuestion, RevealStates
  <2>2. QED
    BY <1>5, <2>1 DEF CloseQuestion, SetStatus, TypeOK, rowVars, cacheVars
<1>6. CASE PublishReveal
  BY <1>6, IdleType DEF PublishReveal, TypeOK, sessionVars, rowVars, cacheVars
<1>7. CASE FailReveal
  BY <1>7, IdleType DEF FailReveal, TypeOK, sessionVars, rowVars, cacheVars
<1>8. QED
  BY <1>1, <1>2, <1>3, <1>4, <1>5, <1>6, <1>7 DEF RevealStep

LEMMA HostMessageTypeOK ==
  ASSUME TypeOK, NEW t \in HostTasks, HostMessage(t)
  PROVE  TypeOK'
<1>0. t \in Tasks
  BY DEF Tasks
<1>1. CASE StartSession(t)
  <2>1. [at |-> "write_start"] \in TaskStates
    BY DEF TaskStates
  <2>2. task' \in [Tasks -> TaskStates]
    BY <1>0, <1>1, <2>1, ContinueType DEF StartSession, TypeOK
  <2>3. QED
    BY <1>1, <2>2 DEF StartSession, TypeOK, sessionVars, rowVars, cacheVars
<1>2. CASE AdvanceQuestion(t)
  <2>1. NextQuestion \in Nat
    BY ConstantsAssumption DEF NextQuestion, TypeOK, Questions
  <2>2. [at |-> "write_next", next |-> NextQuestion] \in TaskStates
    BY <2>1 DEF TaskStates
  <2>3. task' \in [Tasks -> TaskStates]
    BY <1>0, <1>2, <2>2, ContinueType DEF AdvanceQuestion, TypeOK
  <2>4. QED
    BY <1>2, <2>3 DEF AdvanceQuestion, TypeOK, sessionVars, rowVars, cacheVars
<1>3. CASE CancelSession(t)
  <2>1. [at |-> "write_cancelled"] \in TaskStates
    BY DEF TaskStates
  <2>2. task' \in [Tasks -> TaskStates]
    BY <1>0, <1>3, <2>1, ContinueType DEF CancelSession, TypeOK
  <2>3. QED
    BY <1>3, <2>2 DEF CancelSession, TypeOK, sessionVars, rowVars, cacheVars
<1>4. CASE DeleteSession(t)
  <2>1. [at |-> "write_deleted"] \in TaskStates
    BY DEF TaskStates
  <2>2. task' \in [Tasks -> TaskStates]
    BY <1>0, <1>4, <2>1, ContinueType DEF DeleteSession, TypeOK
  <2>3. QED
    BY <1>4, <2>2 DEF DeleteSession, TypeOK, sessionVars, rowVars, cacheVars
<1>5. QED
  BY <1>1, <1>2, <1>3, <1>4 DEF HostMessage

LEMMA OpenQuestionType ==
  ASSUME TypeOK, NEW t \in Tasks, NEW q \in Questions, OpenQuestion(t, q)
  PROVE  /\ task' \in [Tasks -> TaskStates]
         /\ status' \in {status, "question"}
         /\ current' \in {current, q}
<1>1. [at |-> "show_question"] \in TaskStates
  BY DEF TaskStates
<1>2. QED
  BY <1>1, IdleType, ContinueType DEF OpenQuestion, TypeOK, sessionVars

LEMMA HostStepTypeOK ==
  ASSUME TypeOK, NEW t \in HostTasks, HostStep(t)
  PROVE  TypeOK'
<1>0. t \in Tasks /\ task[t] \in TaskStates
  BY DEF Tasks, TypeOK
<1>a. [at |-> "stop_timer"] \in TaskStates /\ [at |-> "clear_cache"] \in TaskStates
  BY DEF TaskStates
<1>1. CASE WriteStart(t)
  <2>1. 0 \in Questions
    BY ConstantsAssumption DEF Questions
  <2>2. /\ task' \in [Tasks -> TaskStates]
        /\ status' \in {status, "question"}
        /\ current' \in {current, 0}
    BY <1>0, <1>1, <2>1, OpenQuestionType DEF WriteStart
  <2>3. QED
    BY <1>1, <2>1, <2>2 DEF WriteStart, TypeOK, rowVars, cacheVars
<1>2. CASE ShowQuestion(t)
  <2>1. task' \in [Tasks -> TaskStates]
    BY <1>0, <1>2, IdleType, ContinueType DEF ShowQuestion, TypeOK
  <2>2. QED
    BY <1>2, <2>1 DEF ShowQuestion, TypeOK, sessionVars, rowVars, cacheVars
<1>3. CASE WriteNext(t)
  <2>1. CASE task[t].next \in Questions
    <3>1. /\ task' \in [Tasks -> TaskStates]
          /\ status' \in {status, "question"}
          /\ current' \in {current, task[t].next}
      BY <1>0, <1>3, <2>1, OpenQuestionType DEF WriteNext
    <3>2. QED
      BY <1>3, <2>1, <3>1 DEF WriteNext, TypeOK, rowVars, cacheVars
  <2>2. CASE task[t].next \notin Questions
    <3>1. task' \in [Tasks -> TaskStates]
      BY <1>0, <1>a, <1>3, <2>2, ContinueType DEF WriteNext, TypeOK
    <3>2. status' \in {status, "finished"} /\ current' = current
      BY <1>3, <2>2 DEF WriteNext, SetStatus
    <3>3. QED
      BY <1>3, <3>1, <3>2 DEF WriteNext, TypeOK, rowVars, cacheVars, Ended
  <2>3. QED
    BY <2>1, <2>2
<1>4. CASE StopTimer(t)
  <2>1. task' \in [Tasks -> TaskStates]
    BY <1>0, <1>a, <1>4, ContinueType DEF StopTimer, TypeOK
  <2>2. QED
    BY <1>4, <2>1 DEF StopTimer, TypeOK, sessionVars, rowVars, cacheVars
<1>5. CASE ClearSessionCache(t)
  <2>1. task' \in [Tasks -> TaskStates]
    BY <1>0, <1>5, IdleType, ContinueType DEF ClearSessionCache, TypeOK
  <2>2. rosterCount' \in Nat \union {Null} /\ answeredCount' \in [Questions -> Nat]
    BY <1>5 DEF ClearSessionCache, TypeOK, cacheVars
  <2>3. QED
    BY <1>5, <2>1, <2>2 DEF ClearSessionCache, TypeOK, sessionVars, rowVars
<1>6. CASE WriteCancelled(t)
  <2>1. task' \in [Tasks -> TaskStates]
    BY <1>0, <1>a, <1>6, ContinueType DEF WriteCancelled, TypeOK
  <2>2. status' \in {status, "cancelled"}
    BY <1>6 DEF WriteCancelled, SetStatus
  <2>3. QED
    BY <1>6, <2>1, <2>2 DEF WriteCancelled, TypeOK, rowVars, cacheVars, Ended
<1>7. CASE WriteDeleted(t)
  <2>1. task' \in [Tasks -> TaskStates]
    BY <1>0, <1>7, IdleType, ContinueType DEF WriteDeleted, TypeOK
  <2>2. score' \in [Players -> Nat]
    BY <1>7 DEF WriteDeleted
  <2>3. answers' \in [Players -> [Questions -> SpeedPoints \union {Null}]]
    BY <1>7 DEF WriteDeleted
  <2>4. QED
    BY <1>7, <2>1, <2>2, <2>3 DEF WriteDeleted, TypeOK, cacheVars
<1>8. QED
  BY <1>1, <1>2, <1>3, <1>4, <1>5, <1>6, <1>7 DEF HostStep

LEMMA OtherTypeOK ==
  ASSUME TypeOK,
         \/ \E t \in Tasks : FailTask(t)
         \/ ShowLeaderboard \/ Restart \/ Refuse \/ UNCHANGED vars
  PROVE  TypeOK'
<1>1. ASSUME NEW t \in Tasks, FailTask(t)
      PROVE  TypeOK'
  <2>1. task' \in [Tasks -> TaskStates]
    BY <1>1, IdleType, ContinueType DEF FailTask, TypeOK
  <2>2. QED
    BY <1>1, <2>1 DEF FailTask, TypeOK, sessionVars, rowVars, cacheVars
<1>2. CASE ShowLeaderboard
  BY <1>2 DEF ShowLeaderboard, TypeOK, rowVars, cacheVars
<1>3. CASE Restart
  <2>1. task' \in [Tasks -> TaskStates]
    BY <1>3, IdleType DEF Restart, TypeOK
  <2>2. QED
    BY <1>3, <2>1, IdleType DEF Restart, TypeOK, sessionVars, rowVars, cacheVars
<1>4. CASE Refuse \/ UNCHANGED vars
  BY <1>4 DEF Refuse, vars, TypeOK, sessionVars, rowVars, cacheVars
<1>5. QED
  BY <1>1, <1>2, <1>3, <1>4

\* For any players, questions and handlers, and whatever fails, the rows, the
\* counters and the handlers in flight keep the shape the schema and the realtime
\* server give them.
THEOREM TypeCorrect == Spec => []TypeOK
<1>1. ASSUME TypeOK, [Next]_vars
      PROVE  TypeOK'
  <2>1. ASSUME NEW t \in PlayerTasks, PlayerMessage(t) \/ PlayerStep(t)
        PROVE  TypeOK'
    BY <1>1, <2>1, JoinTypeOK, AnswerTypeOK, CountTypeOK, RevealTypeOK
       DEF PlayerMessage, PlayerStep
  <2>2. ASSUME NEW t \in HostTasks, HostMessage(t) \/ HostStep(t)
        PROVE  TypeOK'
    BY <1>1, <2>2, HostMessageTypeOK, HostStepTypeOK
  <2>3. CASE HostReveal \/ AutoReveal \/ RevealStep \/ FailReveal
    BY <1>1, <2>3, RevealTypeOK
  <2>4. CASE \/ \E t \in Tasks : FailTask(t)
             \/ ShowLeaderboard \/ Restart \/ Refuse \/ UNCHANGED vars
    BY <1>1, <2>4, OtherTypeOK
  <2>5. QED
    BY <1>1, <2>1, <2>2, <2>3, <2>4 DEF Next
<1>2. QED
  BY <1>1, InitTypeOK, PTL DEF Spec

-----------------------------------------------------------------------------
(***************************************************************************)
(* The timer of an open question.  Nobody sets it again once it is gone,   *)
(* so an open question without one must be on its way: a handler of the    *)
(* host is about to set it or to cancel the game, or a reveal is about to  *)
(* close the question.                                                     *)
(***************************************************************************)

\* What the property rests on: reveals end before the next timeout, handlers run to
\* their end, and the host's messages are handled one at a time.
Prompt ==
  /\ ~SlowReveals
  /\ "handler" \notin Faults /\ "server" \notin Faults
  /\ \A h, i \in HostTasks : h = i

TakenCareOf ==
  \/ \E h \in HostTasks : task[h].at \in {"show_question", "write_cancelled"}
  \/ reveal.at = "read_session"
  \/ reveal.at = "flip" /\ reveal.open

TimedOrTakenCareOf == status = "question" /\ ~timer => TakenCareOf

\* The timer that a finished game still has to stop is not that of an open question.
FinishingIsOver == \A h \in HostTasks : task[h].at = "stop_timer" => status # "question"

TimerInv == TypeOK /\ TimedOrTakenCareOf /\ FinishingIsOver

LEMMA PlayerFrame ==
  ASSUME TypeOK, NEW t \in PlayerTasks, PlayerMessage(t) \/ PlayerStep(t)
  PROVE  /\ status' = status
         /\ UNCHANGED <<timer, reveal>> \/ TriggerReveal
         /\ \A h \in HostTasks : task'[h] = task[h]
<1>1. \A h \in HostTasks : h \in Tasks /\ h # t
  BY ConstantsAssumption DEF Tasks
<1>2. ASSUME NEW x, Continue(t, x)
      PROVE  \A h \in HostTasks : task'[h] = task[h]
  BY <1>1, <1>2 DEF Continue, TypeOK
<1>3. \E x : Continue(t, x)
  BY DEF PlayerMessage, JoinSession, SubmitAnswer, PlayerStep, InsertParticipant, GetRoster,
         SetRosterCount, InsertAnswer, AddScore, IncrAnsweredCount, GetAnswerCount,
         GetRosterCount, CountParticipants, StoreRosterCount, RevealEarly
<1>4. status' = status /\ (UNCHANGED <<timer, reveal>> \/ TriggerReveal)
  BY DEF PlayerMessage, JoinSession, SubmitAnswer, PlayerStep, InsertParticipant, GetRoster,
         SetRosterCount, InsertAnswer, AddScore, IncrAnsweredCount, GetAnswerCount,
         GetRosterCount, CountParticipants, StoreRosterCount, RevealEarly, sessionVars
<1>5. QED
  BY <1>2, <1>3, <1>4

\* Triggering a reveal, or declining to, leaves nothing open unattended.
LEMMA TriggerKeeps ==
  ASSUME TimerInv, status' = status,
         UNCHANGED <<timer, reveal>> \/ TriggerReveal,
         \A h \in HostTasks : task'[h] = task[h]
  PROVE  TimedOrTakenCareOf' /\ FinishingIsOver'
<1>1. CASE UNCHANGED <<timer, reveal>>
  BY <1>1 DEF TimerInv, TimedOrTakenCareOf, TakenCareOf, FinishingIsOver
<1>2. CASE TriggerReveal /\ reveal = Idle
  BY <1>2 DEF TriggerReveal, TimerInv, TimedOrTakenCareOf, TakenCareOf, FinishingIsOver
<1>3. QED
  BY <1>1, <1>2 DEF TriggerReveal

LEMMA HostKeeps ==
  ASSUME Prompt, TimerInv, NEW t \in HostTasks, HostMessage(t) \/ HostStep(t)
  PROVE  TimedOrTakenCareOf' /\ FinishingIsOver'
<1>0. t \in Tasks /\ task \in [Tasks -> TaskStates] /\ \A h \in HostTasks : h = t
  BY DEF Prompt, Tasks, TimerInv, TypeOK
<1>1. ASSUME NEW x, Continue(t, x)
      PROVE  task'[t] = x
  BY <1>0, <1>1 DEF Continue
<1>2. CASE StartSession(t) \/ AdvanceQuestion(t) \/ DeleteSession(t)
  <2>1. task[t] = Idle /\ UNCHANGED <<status, timer, reveal>>
    BY <1>2 DEF StartSession, AdvanceQuestion, DeleteSession, Arrive, sessionVars
  <2>2. task'[t].at \in {"write_start", "write_next", "write_deleted"}
    BY <1>1, <1>2 DEF StartSession, AdvanceQuestion, DeleteSession
  <2>3. QED
    BY <1>0, <2>1, <2>2 DEF Idle, TimerInv, TimedOrTakenCareOf, TakenCareOf, FinishingIsOver
<1>3. CASE CancelSession(t)
  <2>1. task'[t].at = "write_cancelled"
    BY <1>1, <1>3 DEF CancelSession
  <2>2. QED
    BY <1>0, <2>1 DEF TimedOrTakenCareOf, TakenCareOf, FinishingIsOver
<1>4. CASE WriteStart(t) \/ (WriteNext(t) /\ task[t].next \in Questions)
  <2>1. \E q : OpenQuestion(t, q)
    BY <1>4 DEF WriteStart, WriteNext
  <2>2. \/ status' = "deleted" /\ task'[t].at = "idle"
        \/ task'[t].at = "show_question"
    BY <1>1, <2>1 DEF OpenQuestion, Idle, sessionVars
  <2>3. QED
    BY <1>0, <2>2 DEF TimedOrTakenCareOf, TakenCareOf, FinishingIsOver
<1>5. CASE ShowQuestion(t)
  <2>1. timer' /\ task'[t].at = "idle"
    BY <1>1, <1>5 DEF ShowQuestion, Idle
  <2>2. QED
    BY <1>0, <2>1 DEF TimedOrTakenCareOf, FinishingIsOver
<1>6. CASE WriteNext(t) /\ task[t].next \notin Questions
  <2>1. status' # "question"
    BY <1>6 DEF WriteNext, SetStatus
  <2>2. QED
    BY <2>1 DEF TimedOrTakenCareOf, FinishingIsOver
<1>7. CASE StopTimer(t)
  <2>1. status' # "question"
    BY <1>7 DEF StopTimer, TimerInv, FinishingIsOver, sessionVars
  <2>2. QED
    BY <2>1 DEF TimedOrTakenCareOf, FinishingIsOver
<1>8. CASE ClearSessionCache(t)
  <2>1. UNCHANGED <<status, timer, reveal>> /\ task[t].at = "clear_cache"
    BY <1>8 DEF ClearSessionCache, sessionVars
  <2>2. task'[t].at = "idle"
    BY <1>1, <1>8 DEF ClearSessionCache, Idle
  <2>3. QED
    BY <1>0, <2>1, <2>2 DEF TimerInv, TimedOrTakenCareOf, TakenCareOf, FinishingIsOver
<1>9. CASE WriteCancelled(t) \/ WriteDeleted(t)
  <2>1. status' # "question"
    BY <1>9 DEF WriteCancelled, WriteDeleted, SetStatus
  <2>2. QED
    BY <2>1 DEF TimedOrTakenCareOf, FinishingIsOver
<1>10. QED
  BY <1>2, <1>3, <1>4, <1>5, <1>6, <1>7, <1>8, <1>9 DEF HostMessage, HostStep

LEMMA RevealKeeps ==
  ASSUME Prompt, TimerInv, AutoReveal \/ RevealStep
  PROVE  TimedOrTakenCareOf' /\ FinishingIsOver'
<1>1. CASE AutoReveal
  <2>1. reveal'.at = "read_session" /\ UNCHANGED <<status, task>>
    BY <1>1 DEF Prompt, AutoReveal, sessionVars
  <2>2. QED
    BY <2>1 DEF TimerInv, TimedOrTakenCareOf, TakenCareOf, FinishingIsOver
<1>2. CASE RevealAnswer
  <2>1. UNCHANGED <<status, timer, task>>
    BY <1>2 DEF RevealAnswer, sessionVars
  <2>2. status = "question" => reveal'.at = "flip" /\ reveal'.open
    BY <1>2 DEF RevealAnswer
  <2>3. QED
    BY <2>1, <2>2 DEF TimerInv, TimedOrTakenCareOf, TakenCareOf, FinishingIsOver
<1>3. CASE CloseQuestion /\ reveal.open
  <2>1. status' # "question"
    BY <1>3 DEF CloseQuestion, SetStatus
  <2>2. QED
    BY <2>1 DEF TimedOrTakenCareOf, FinishingIsOver
<1>4. CASE \/ CloseQuestion /\ ~reveal.open
           \/ PublishReveal
  <2>1. UNCHANGED <<status, timer, task>>
    BY <1>4 DEF CloseQuestion, PublishReveal, sessionVars
  <2>2. reveal.at # "read_session" /\ ~(reveal.at = "flip" /\ reveal.open)
    BY <1>4 DEF CloseQuestion, PublishReveal
  <2>3. QED
    BY <2>1, <2>2 DEF TimerInv, TimedOrTakenCareOf, TakenCareOf, FinishingIsOver
<1>5. QED
  BY <1>1, <1>2, <1>3, <1>4 DEF RevealStep

\* With any number of players, questions and players' messages in flight, also when
\* Redis fails, an open question has its timer whenever the host's handlers and the
\* reveal are at rest: reveals, the guard that declines them, the host's own
\* messages and the end of the game never lose it between them.
THEOREM OpenQuestionIsTimed ==
  ASSUME Prompt
  PROVE  Spec => []QuestionIsTimed
<1>1. Init => TimerInv
  <2>1. ASSUME Init PROVE TimedOrTakenCareOf /\ FinishingIsOver
    BY <2>1 DEF Init, TimedOrTakenCareOf, FinishingIsOver
  <2>2. QED
    BY <2>1, InitTypeOK DEF TimerInv
<1>2. ASSUME TypeOK, TypeOK', TimerInv, [Next]_vars
      PROVE  TimerInv'
  <2> SUFFICES TimedOrTakenCareOf' /\ FinishingIsOver'
    BY <1>2 DEF TimerInv
  <2>1. ASSUME NEW t \in PlayerTasks, PlayerMessage(t) \/ PlayerStep(t)
        PROVE  TimedOrTakenCareOf' /\ FinishingIsOver'
    BY <1>2, <2>1, PlayerFrame, TriggerKeeps
  <2>2. ASSUME NEW t \in HostTasks, HostMessage(t) \/ HostStep(t)
        PROVE  TimedOrTakenCareOf' /\ FinishingIsOver'
    BY <1>2, <2>2, HostKeeps
  <2>3. CASE HostReveal
    BY <1>2, <2>3, TriggerKeeps DEF HostReveal, sessionVars
  <2>4. CASE AutoReveal \/ RevealStep
    BY <1>2, <2>4, RevealKeeps
  <2>5. CASE ShowLeaderboard
    BY <2>5 DEF ShowLeaderboard, TimedOrTakenCareOf, FinishingIsOver
  <2>6. CASE (\E t \in Tasks : FailTask(t)) \/ FailReveal \/ Restart
    BY <2>6 DEF Prompt, FailTask, FailReveal, Restart
  <2>7. CASE Refuse \/ UNCHANGED vars
    BY <1>2, <2>7, TriggerKeeps DEF Refuse, vars, sessionVars
  <2>8. QED
    BY <1>2, <2>1, <2>2, <2>3, <2>4, <2>5, <2>6, <2>7 DEF Next
<1>3. TimerInv => QuestionIsTimed
  BY DEF TimerInv, TimedOrTakenCareOf, TakenCareOf, QuestionIsTimed, Idle
<1>4. QED
  BY <1>1, <1>2, <1>3, TypeCorrect, PTL DEF Spec

-----------------------------------------------------------------------------
(***************************************************************************)
(* Sums.  A score is compared with SumFunction, which the community module *)
(* defines by recursion over a set.  The recursion is unfolded once here,  *)
(* by induction on the number of elements: the least counterexample is     *)
(* what well-foundedness of the natural numbers provides.                  *)
(***************************************************************************)

Chosen(s) == CHOOSE x \in s : TRUE
SumUpTo(f, g, s) == IF s = {} THEN 0 ELSE f[Chosen(s)] + g[s \ {Chosen(s)}]
PartialSums(f) == CHOOSE g : g = [s \in SUBSET (DOMAIN f) |-> SumUpTo(f, g, s)]

\* The definition of SumFunction, expanded.
LEMMA SumUnfolds ==
  ASSUME NEW f
  PROVE  SumFunction(f) = PartialSums(f)[DOMAIN f]
BY Zenon DEF SumFunction, SumFunctionOnSet, FoldFunctionOnSet, MapThenFoldSet,
             PartialSums, SumUpTo, Chosen

\* A set of natural numbers that is not empty has a least element.
LEMMA LeastNumber ==
  ASSUME NEW T \in SUBSET Nat, T # {}
  PROVE  \E n \in T : \A m \in T : n <= m
<1>1. IsWellFoundedOn(OpToRel(<, Nat), Nat)
  BY NatLessThanWellFounded
<1>2. PICK n \in T : \A m \in T : ~ (<<m, n>> \in OpToRel(<, Nat))
  BY <1>1, WFMin
<1>3. \A m \in T : ~ (m < n)
  BY <1>2 DEF OpToRel
<1>4. QED
  BY <1>3

\* The sets of at most n elements of a finite set.
UpTo(S, n) == {s \in SUBSET S : Cardinality(s) <= n}

\* A set that is not empty, and what is left of it without its chosen element.
LEMMA WithoutChosen ==
  ASSUME NEW S, IsFiniteSet(S), NEW s \in SUBSET S, s # {}
  PROVE  /\ Chosen(s) \in s /\ s \ {Chosen(s)} \in SUBSET S
         /\ Cardinality(s) \in Nat /\ Cardinality(s \ {Chosen(s)}) = Cardinality(s) - 1
<1>1. Chosen(s) \in s
  BY DEF Chosen
<1>2. IsFiniteSet(s)
  BY FS_Subset
<1>3. QED
  BY <1>1, <1>2, FS_RemoveElement, FS_CardinalityType

\* Sums of the values of f over ever larger sets exist.
LEMMA SumsExist ==
  ASSUME NEW f, IsFiniteSet(DOMAIN f), NEW n \in Nat
  PROVE  \E g : g = [s \in UpTo(DOMAIN f, n) |-> SumUpTo(f, g, s)]
<1> DEFINE S == DOMAIN f
           Exists(m) == \E g : g = [s \in UpTo(S, m) |-> SumUpTo(f, g, s)]
           Missing == {m \in Nat : ~Exists(m)}
<1>1. Exists(0)
  <2>1. \A s \in UpTo(S, 0) : s = {}
    <3>1. TAKE s \in UpTo(S, 0)
    <3>2. IsFiniteSet(s) /\ Cardinality(s) <= 0
      BY FS_Subset DEF UpTo
    <3>3. QED
      BY <3>2, FS_EmptySet, FS_CardinalityType
  <2>2. [s \in UpTo(S, 0) |-> 0]
          = [s \in UpTo(S, 0) |-> SumUpTo(f, [r \in UpTo(S, 0) |-> 0], s)]
    BY <2>1 DEF SumUpTo
  <2>3. QED
    BY <2>2
<1>2. ASSUME NEW m \in Nat, Exists(m)
      PROVE  Exists(m + 1)
  <2>1. PICK g : g = [s \in UpTo(S, m) |-> SumUpTo(f, g, s)]
    BY <1>2
  <2> DEFINE h == [s \in UpTo(S, m + 1) |-> SumUpTo(f, g, s)]
  <2>2. \A s \in UpTo(S, m) : s \in UpTo(S, m + 1) /\ h[s] = g[s]
    <3>1. TAKE s \in UpTo(S, m)
    <3>2. s \in UpTo(S, m + 1)
      <4>1. IsFiniteSet(s) /\ Cardinality(s) <= m
        BY FS_Subset DEF UpTo
      <4>2. QED
        BY <4>1, FS_CardinalityType DEF UpTo
    <3>3. g[s] = SumUpTo(f, g, s)
      BY <2>1
    <3>4. QED
      BY <3>2, <3>3
  <2>3. \A s \in UpTo(S, m + 1) : SumUpTo(f, g, s) = SumUpTo(f, h, s)
    <3>1. TAKE s \in UpTo(S, m + 1)
    <3>2. CASE s = {}
      BY <3>2 DEF SumUpTo
    <3>3. CASE s # {}
      <4>1. s \ {Chosen(s)} \in UpTo(S, m)
        BY <3>3, WithoutChosen DEF UpTo
      <4>2. g[s \ {Chosen(s)}] = h[s \ {Chosen(s)}]
        BY <2>2, <4>1
      <4>3. QED
        BY <4>2 DEF SumUpTo
    <3>4. QED
      BY <3>2, <3>3
  <2>4. h = [s \in UpTo(S, m + 1) |-> SumUpTo(f, h, s)]
    BY <2>3
  <2>5. QED
    BY <2>4
<1>3. Missing = {}
  <2>1. ASSUME Missing # {}
        PROVE  FALSE
    <3>1. PICK m \in Missing : \A k \in Missing : m <= k
      BY <2>1, LeastNumber
    <3>2. m # 0
      BY <1>1
    <3>3. m - 1 \in Nat /\ m - 1 \notin Missing
      BY <3>1, <3>2
    <3>4. Exists(m - 1)
      BY <3>3
    <3>5. Exists((m - 1) + 1)
      BY <1>2, <3>3, <3>4
    <3>6. (m - 1) + 1 = m
      OBVIOUS
    <3>7. QED
      BY <3>5, <3>6
  <2>2. QED
    BY <2>1
<1>4. QED
  BY <1>3

\* A sum over a set is the value of the chosen element and the sum over the rest.
LEMMA SumOfSet ==
  ASSUME NEW f, IsFiniteSet(DOMAIN f), NEW s \in SUBSET (DOMAIN f)
  PROVE  PartialSums(f)[s] = SumUpTo(f, PartialSums(f), s)
<1>1. \A r \in SUBSET (DOMAIN f) : Cardinality(r) <= Cardinality(DOMAIN f)
  BY FS_Subset
<1>2. UpTo(DOMAIN f, Cardinality(DOMAIN f)) = SUBSET (DOMAIN f)
  BY <1>1 DEF UpTo
<1>3. Cardinality(DOMAIN f) \in Nat
  BY FS_CardinalityType
<1>4. \E g : g = [r \in SUBSET (DOMAIN f) |-> SumUpTo(f, g, r)]
  <2>1. \E g : g = [r \in UpTo(DOMAIN f, Cardinality(DOMAIN f)) |-> SumUpTo(f, g, r)]
    BY <1>3, SumsExist, Zenon
  <2>2. QED
    BY <1>2, <2>1, Zenon
<1>5. PartialSums(f) = [r \in SUBSET (DOMAIN f) |-> SumUpTo(f, PartialSums(f), r)]
  BY <1>4, Zenon DEF PartialSums
<1>6. QED
  BY <1>5

\* Induction over the subsets of a finite set, for a set Good of them.
LEMMA SubsetInduction ==
  ASSUME NEW S, IsFiniteSet(S), NEW Good, {} \in Good,
         \A s \in SUBSET S : s # {} /\ s \ {Chosen(s)} \in Good => s \in Good
  PROVE  \A s \in SUBSET S : s \in Good
<1> DEFINE Bad == {s \in SUBSET S : s \notin Good}
           Sizes == {Cardinality(s) : s \in Bad}
<1>1. ASSUME Bad # {}
      PROVE  FALSE
  <2>1. \A s \in SUBSET S : Cardinality(s) \in Nat
    BY FS_Subset, FS_CardinalityType
  <2>2. Sizes \in SUBSET Nat /\ Sizes # {}
    BY <1>1, <2>1
  <2>3. PICK n \in Sizes : \A m \in Sizes : n <= m
    BY <2>2, LeastNumber
  <2>4. PICK s \in Bad : Cardinality(s) = n
    BY <2>3
  <2>5. s # {}
    BY <2>4
  <2>6. s \ {Chosen(s)} \in Bad
    BY <2>4, <2>5, WithoutChosen
  <2>7. Cardinality(s \ {Chosen(s)}) \in Sizes
    BY <2>6
  <2>8. Cardinality(s \ {Chosen(s)}) < n
    BY <2>1, <2>4, <2>5, WithoutChosen
  <2>9. QED
    BY <2>1, <2>2, <2>3, <2>7, <2>8
<1>2. QED
  BY <1>1

\* The sum of natural numbers is one.
LEMMA SumType ==
  ASSUME NEW S, IsFiniteSet(S), NEW f \in [S -> Nat]
  PROVE  SumFunction(f) \in Nat
<1> DEFINE Good == {s \in SUBSET S : PartialSums(f)[s] \in Nat}
<1>0. \A s \in SUBSET S : PartialSums(f)[s] = SumUpTo(f, PartialSums(f), s)
  BY SumOfSet
<1>1. {} \in Good
  BY <1>0 DEF SumUpTo
<1>2. ASSUME NEW s \in SUBSET S, s # {}, s \ {Chosen(s)} \in Good
      PROVE  s \in Good
  BY <1>0, <1>2, WithoutChosen DEF SumUpTo
<1>3. \A s \in SUBSET S : s \in Good
  <2> HIDE DEF Good
  <2> QED
    BY <1>1, <1>2, SubsetInduction, Zenon
<1>4. QED
  BY <1>3, SumUnfolds

\* Zeros add up to zero.
LEMMA SumOfZeros ==
  ASSUME NEW S, IsFiniteSet(S)
  PROVE  SumFunction([x \in S |-> 0]) = 0
<1> DEFINE f == [x \in S |-> 0]
           Good == {s \in SUBSET S : PartialSums(f)[s] = 0}
<1>0. \A s \in SUBSET S : PartialSums(f)[s] = SumUpTo(f, PartialSums(f), s)
  BY SumOfSet
<1>h. f \in [S -> Nat] /\ \A x \in S : f[x] = 0
  OBVIOUS
<1> HIDE DEF f
<1>1. {} \in Good
  BY <1>0 DEF SumUpTo
<1>2. ASSUME NEW s \in SUBSET S, s # {}, s \ {Chosen(s)} \in Good
      PROVE  s \in Good
  <2>1. PICK y \in s : y = Chosen(s)
    BY <1>2, WithoutChosen
  <2>2. PartialSums(f)[s] = f[y] + PartialSums(f)[s \ {y}]
    BY <1>0, <1>2, <2>1 DEF SumUpTo
  <2>3. PartialSums(f)[s \ {y}] = 0 /\ f[y] = 0
    BY <1>h, <1>2, <2>1
  <2>4. QED
    BY <2>2, <2>3
<1>3. \A s \in SUBSET S : s \in Good
  <2> HIDE DEF Good
  <2> QED
    BY <1>1, <1>2, SubsetInduction, Zenon
<1>4. QED
  BY <1>3, <1>h, SumUnfolds

\* Changing one value changes the sum by as much.
LEMMA SumOfChange ==
  ASSUME NEW S, IsFiniteSet(S), NEW f \in [S -> Nat], NEW x \in S, NEW v \in Nat
  PROVE  SumFunction([f EXCEPT ![x] = v]) = SumFunction(f) - f[x] + v
<1> DEFINE h == [f EXCEPT ![x] = v]
           Good == {s \in SUBSET S :
                      /\ PartialSums(f)[s] \in Int
                      /\ PartialSums(h)[s] = PartialSums(f)[s] + IF x \in s THEN v - f[x] ELSE 0}
<1>h. h \in [S -> Nat] /\ h[x] = v /\ \A y \in S \ {x} : h[y] = f[y]
  OBVIOUS
<1> HIDE DEF h
<1>0. \A s \in SUBSET S : /\ PartialSums(f)[s] = SumUpTo(f, PartialSums(f), s)
                          /\ PartialSums(h)[s] = SumUpTo(h, PartialSums(h), s)
  BY <1>h, SumOfSet
<1>1. {} \in Good
  BY <1>0 DEF SumUpTo
<1>2. ASSUME NEW s \in SUBSET S, s # {}, s \ {Chosen(s)} \in Good
      PROVE  s \in Good
  <2>1. PICK y \in s : y = Chosen(s)
    BY <1>2, WithoutChosen
  <2>2. /\ PartialSums(f)[s] = f[y] + PartialSums(f)[s \ {y}]
        /\ PartialSums(h)[s] = h[y] + PartialSums(h)[s \ {y}]
    BY <1>0, <1>2, <2>1 DEF SumUpTo
  <2>3. /\ PartialSums(f)[s \ {y}] \in Int
        /\ PartialSums(h)[s \ {y}] = PartialSums(f)[s \ {y}] + IF x \in s \ {y} THEN v - f[x] ELSE 0
    BY <1>2, <2>1
  <2>4. f[y] \in Nat /\ f[x] \in Nat /\ h[y] = IF y = x THEN v ELSE f[y]
    BY <1>h
  <2>5. QED
    BY <2>2, <2>3, <2>4
<1>3. \A s \in SUBSET S : s \in Good
  <2> HIDE DEF Good
  <2> QED
    BY <1>1, <1>2, SubsetInduction, Zenon
<1>4. /\ SumFunction(f) = PartialSums(f)[S] /\ SumFunction(h) = PartialSums(h)[S]
      /\ PartialSums(f)[S] \in Int
      /\ PartialSums(h)[S] = PartialSums(f)[S] + (v - f[x])
  <2>1. DOMAIN f = S /\ DOMAIN h = S
    BY <1>h
  <2>2. SumFunction(f) = PartialSums(f)[S] /\ SumFunction(h) = PartialSums(h)[S]
    BY <2>1, SumUnfolds
  <2>3. QED
    BY <1>3, <2>2
<1>5. QED
  BY <1>4, <1>h DEF h

\* Smaller values have a smaller sum.
LEMMA SumOfLess ==
  ASSUME NEW S, IsFiniteSet(S), NEW f \in [S -> Nat], NEW h \in [S -> Nat],
         \A x \in S : h[x] <= f[x]
  PROVE  SumFunction(h) <= SumFunction(f)
<1> DEFINE Good == {s \in SUBSET S : /\ PartialSums(f)[s] \in Int /\ PartialSums(h)[s] \in Int
                                     /\ PartialSums(h)[s] <= PartialSums(f)[s]}
<1>0. \A s \in SUBSET S : /\ PartialSums(f)[s] = SumUpTo(f, PartialSums(f), s)
                          /\ PartialSums(h)[s] = SumUpTo(h, PartialSums(h), s)
  BY SumOfSet
<1>1. {} \in Good
  BY <1>0 DEF SumUpTo
<1>2. ASSUME NEW s \in SUBSET S, s # {}, s \ {Chosen(s)} \in Good
      PROVE  s \in Good
  <2>1. PICK y \in s : y = Chosen(s)
    BY <1>2, WithoutChosen
  <2>2. /\ PartialSums(f)[s] = f[y] + PartialSums(f)[s \ {y}]
        /\ PartialSums(h)[s] = h[y] + PartialSums(h)[s \ {y}]
    BY <1>0, <1>2, <2>1 DEF SumUpTo
  <2>3. /\ PartialSums(f)[s \ {y}] \in Int /\ PartialSums(h)[s \ {y}] \in Int
        /\ PartialSums(h)[s \ {y}] <= PartialSums(f)[s \ {y}]
    BY <1>2, <2>1
  <2>4. QED
    BY <2>2, <2>3
<1>3. \A s \in SUBSET S : s \in Good
  <2> HIDE DEF Good
  <2> QED
    BY <1>1, <1>2, SubsetInduction, Zenon
<1>4. SumFunction(f) = PartialSums(f)[S] /\ SumFunction(h) = PartialSums(h)[S]
  <2>1. DOMAIN f = S /\ DOMAIN h = S
    OBVIOUS
  <2>2. QED
    BY <2>1, SumUnfolds
<1>5. QED
  BY <1>3, <1>4

-----------------------------------------------------------------------------
(***************************************************************************)
(* What deleting the game leaves behind.                                   *)
(***************************************************************************)

\* A game that is gone does not come back, and nothing is written for it.
LEMMA DeletedForGood ==
  ASSUME status = "deleted", [Next]_vars
  PROVE  status' = "deleted"
<1>1. ASSUME NEW t \in PlayerTasks, PlayerMessage(t) \/ PlayerStep(t)
      PROVE  status' = status
  BY <1>1 DEF PlayerMessage, JoinSession, SubmitAnswer, PlayerStep, InsertParticipant, GetRoster,
         SetRosterCount, InsertAnswer, AddScore, IncrAnsweredCount, GetAnswerCount,
         GetRosterCount, CountParticipants, StoreRosterCount, RevealEarly, sessionVars
<1>2. ASSUME NEW t \in HostTasks, HostMessage(t)
      PROVE  status' = status
  BY <1>2 DEF HostMessage, StartSession, AdvanceQuestion, CancelSession, DeleteSession, sessionVars
<1>3. ASSUME NEW t \in HostTasks, HostStep(t)
      PROVE  status' = "deleted"
  BY <1>3 DEF HostStep, WriteStart, ShowQuestion, WriteNext, StopTimer, ClearSessionCache,
         WriteCancelled, WriteDeleted, OpenQuestion, SetStatus, sessionVars
<1>4. CASE HostReveal \/ ShowLeaderboard \/ AutoReveal \/ RevealStep \/ FailReveal \/ Restart
           \/ Refuse \/ UNCHANGED vars
  BY <1>4 DEF HostReveal, ShowLeaderboard, AutoReveal, RevealStep, RevealAnswer, CloseQuestion,
         PublishReveal, SetStatus, FailReveal, Restart, Refuse, vars, sessionVars
<1>5. CASE \E t \in Tasks : FailTask(t)
  BY <1>5 DEF FailTask, sessionVars
<1>6. QED
  BY <1>1, <1>2, <1>3, <1>4, <1>5 DEF Next

\* The steps that are not about rows and counters, and what they do to a handler.
LEMMA OtherSteps ==
  ASSUME TypeOK, [Next]_vars, status' # "deleted",
         \A t \in PlayerTasks : ~PlayerMessage(t) /\ ~PlayerStep(t)
  PROVE  /\ rowVars' = rowVars
         /\ \/ UNCHANGED cacheVars
            \/ rosterCount' = Null /\ answeredCount' = [q \in Questions |-> 0]
         /\ \A u \in PlayerTasks :
              \/ task'[u] = task[u]
              \/ /\ {"handler", "server"} \intersect Faults # {}
                 /\ task'[u].at \in {"idle", "write_deleted"}
<1>1. ASSUME NEW t \in HostTasks, NEW x, Continue(t, x)
      PROVE  \A u \in PlayerTasks : task'[u] = task[u]
  BY <1>1, ConstantsAssumption DEF Continue, TypeOK, Tasks
<1>2. ASSUME NEW t \in HostTasks, HostMessage(t)
      PROVE  /\ UNCHANGED <<rowVars, cacheVars>>
             /\ \A u \in PlayerTasks : task'[u] = task[u]
  <2>1. \E x : Continue(t, x)
    BY <1>2 DEF HostMessage, StartSession, AdvanceQuestion, CancelSession, DeleteSession
  <2>2. UNCHANGED <<rowVars, cacheVars>>
    BY <1>2 DEF HostMessage, StartSession, AdvanceQuestion, CancelSession, DeleteSession
  <2>3. QED
    BY <1>1, <2>1, <2>2
<1>3. ASSUME NEW t \in HostTasks, HostStep(t)
      PROVE  /\ rowVars' = rowVars
             /\ \/ UNCHANGED cacheVars
                \/ rosterCount' = Null /\ answeredCount' = [q \in Questions |-> 0]
             /\ \A u \in PlayerTasks : task'[u] = task[u]
  <2>1. \E x : Continue(t, x)
    BY <1>3 DEF HostStep, WriteStart, ShowQuestion, WriteNext, StopTimer, ClearSessionCache,
           WriteCancelled, WriteDeleted, OpenQuestion
  <2>2. ~WriteDeleted(t)
    BY DEF WriteDeleted
  <2>3. /\ rowVars' = rowVars
        /\ \/ UNCHANGED cacheVars
           \/ rosterCount' = Null /\ answeredCount' = [q \in Questions |-> 0]
    BY <1>3, <2>2 DEF HostStep, WriteStart, ShowQuestion, WriteNext, StopTimer, ClearSessionCache,
           WriteCancelled
  <2>4. QED
    BY <1>1, <2>1, <2>3
<1>4. CASE HostReveal \/ ShowLeaderboard \/ AutoReveal \/ RevealStep \/ FailReveal
           \/ Refuse \/ UNCHANGED vars
  BY <1>4 DEF HostReveal, ShowLeaderboard, AutoReveal, RevealStep, RevealAnswer, CloseQuestion,
         PublishReveal, FailReveal, Refuse, vars
<1>5. CASE Restart
  BY <1>5 DEF Restart, Idle, Tasks
<1>6. CASE \E t \in Tasks : FailTask(t)
  BY <1>6 DEF FailTask, Continue, Idle, TypeOK, Tasks
<1>7. QED
  BY <1>2, <1>3, <1>4, <1>5, <1>6 DEF Next

-----------------------------------------------------------------------------
(***************************************************************************)
(* The counters.  An answer that was inserted is counted once, later; what *)
(* is still to be counted keeps the counter behind the rows.               *)
(***************************************************************************)

Uncounted(q) ==
  {t \in PlayerTasks : task[t].at \in {"add_score", "incr_answered"} /\ task[t].question = q}

AnswersCounted ==
  \A q \in Questions :
    /\ IsFiniteSet(Uncounted(q))
    /\ answeredCount[q] + Cardinality(Uncounted(q)) <= Cardinality(Rows(q))

RosterRead ==
  /\ rosterCount # Null => rosterCount <= Cardinality(joined)
  /\ \A t \in PlayerTasks :
       /\ task[t].at = "set_roster_count" => task[t].count <= Cardinality(joined)
       /\ task[t].at = "store_roster_count" => task[t].total <= Cardinality(joined)

CacheInv == status # "deleted" => AnswersCounted /\ RosterRead

LEMMA CountStaysWithin ==
  ASSUME NEW U, IsFiniteSet(U), NEW V \in SUBSET U,
         NEW rows \in Nat, NEW count \in Nat, NEW new \in Nat,
         count + Cardinality(U) <= rows, new <= count
  PROVE  IsFiniteSet(V) /\ new + Cardinality(V) <= rows
BY FS_Subset, FS_CardinalityType

LEMMA CountsLeftAlone ==
  ASSUME TypeOK, TypeOK', AnswersCounted, answers' = answers,
         \A q \in Questions : answeredCount'[q] <= answeredCount[q],
         \A u \in PlayerTasks :
           task'[u] = task[u] \/ task'[u].at \notin {"add_score", "incr_answered"}
  PROVE  AnswersCounted'
<1> SUFFICES ASSUME NEW q \in Questions
             PROVE  /\ IsFiniteSet(Uncounted(q)')
                    /\ answeredCount'[q] + Cardinality(Uncounted(q)') <= Cardinality(Rows(q)')
  BY DEF AnswersCounted
<1>1. Uncounted(q)' \in SUBSET Uncounted(q)
  BY DEF Uncounted
<1>2. Rows(q)' = Rows(q) /\ Cardinality(Rows(q)) \in Nat
  BY CountsAreNat DEF Rows, TypeOK
<1>3. answeredCount[q] \in Nat /\ answeredCount'[q] \in Nat
  BY DEF TypeOK
<1>4. QED
  BY <1>1, <1>2, <1>3, CountStaysWithin DEF AnswersCounted

LEMMA RosterLeftAlone ==
  ASSUME TypeOK, TypeOK', RosterRead, joined \subseteq joined', rosterCount' \in {rosterCount, Null},
         \A u \in PlayerTasks :
           task'[u] = task[u] \/ task'[u].at \notin {"set_roster_count", "store_roster_count"}
  PROVE  RosterRead'
<1>1. /\ Cardinality(joined) \in Nat /\ Cardinality(joined') \in Nat
      /\ Cardinality(joined) <= Cardinality(joined')
  BY ConstantsAssumption, FS_Subset, FS_CardinalityType DEF TypeOK
<1>2. rosterCount' # Null => rosterCount' \in Nat
  BY DEF TypeOK
<1>3. ASSUME NEW u \in PlayerTasks
      PROVE  /\ task'[u].at = "set_roster_count" => task'[u].count <= Cardinality(joined')
             /\ task'[u].at = "store_roster_count" => task'[u].total <= Cardinality(joined')
  <2>1. task[u] \in TaskStates
    BY DEF TypeOK, Tasks
  <2>2. /\ task[u].at = "set_roster_count" => task[u].count \in Nat
        /\ task[u].at = "store_roster_count" => task[u].total \in Nat
    BY <2>1, TaskShape
  <2>3. QED
    BY <1>1, <2>2 DEF RosterRead
<1>4. QED
  BY <1>1, <1>2, <1>3 DEF RosterRead, TypeOK

\* One handler moves; the others stay where they are.
LEMMA OthersStay ==
  ASSUME TypeOK, NEW t \in PlayerTasks, NEW x, Continue(t, x)
  PROVE  task'[t] = x /\ \A u \in PlayerTasks \ {t} : task'[u] = task[u]
BY DEF Continue, TypeOK, Tasks

LEMMA JoinCounts ==
  ASSUME TypeOK, TypeOK', AnswersCounted, RosterRead, NEW t \in PlayerTasks, status # "deleted",
         \/ \E p \in Players : JoinSession(t, p)
         \/ InsertParticipant(t) \/ GetRoster(t) \/ SetRosterCount(t)
  PROVE  AnswersCounted' /\ RosterRead'
<1>1. AnswersCounted'
  <2>1. /\ task'[t].at \notin {"add_score", "incr_answered"}
        /\ \A u \in PlayerTasks \ {t} : task'[u] = task[u]
    BY DEF JoinSession, InsertParticipant, GetRoster, SetRosterCount, Idle, Continue, TypeOK, Tasks
  <2>2. \A u \in PlayerTasks :
          task'[u] = task[u] \/ task'[u].at \notin {"add_score", "incr_answered"}
    BY <2>1
  <2>3. answers' = answers /\ answeredCount' = answeredCount
    BY DEF JoinSession, InsertParticipant, GetRoster, SetRosterCount, rowVars, cacheVars
  <2>4. \A q \in Questions : answeredCount'[q] <= answeredCount[q]
    BY <2>3 DEF TypeOK
  <2>5. QED
    BY <2>2, <2>3, <2>4, CountsLeftAlone
<1>2. CASE (\E p \in Players : JoinSession(t, p)) \/ InsertParticipant(t)
  <2>1. /\ task'[t].at \notin {"set_roster_count", "store_roster_count"}
        /\ \A u \in PlayerTasks \ {t} : task'[u] = task[u]
    BY <1>2 DEF JoinSession, InsertParticipant, Idle, Continue, TypeOK, Tasks
  <2>2. joined \subseteq joined' /\ rosterCount' = rosterCount
    BY <1>2 DEF JoinSession, InsertParticipant, rowVars, cacheVars
  <2>3. \A u \in PlayerTasks :
          task'[u] = task[u] \/ task'[u].at \notin {"set_roster_count", "store_roster_count"}
    BY <2>1
  <2>4. QED
    BY <1>1, <2>2, <2>3, RosterLeftAlone
<1>3. CASE GetRoster(t)
  <2>1. task'[t] = [at |-> "set_roster_count", count |-> Cardinality(joined)]
    BY <1>3, OthersStay DEF GetRoster
  <2>2. \A u \in PlayerTasks \ {t} : task'[u] = task[u]
    BY <1>3, OthersStay DEF GetRoster
  <2>3. joined' = joined /\ rosterCount' = rosterCount /\ Cardinality(joined) \in Nat
    BY <1>3, CountsAreNat DEF GetRoster, rowVars, cacheVars, TypeOK
  <2>4. ASSUME NEW u \in PlayerTasks
        PROVE  /\ task'[u].at = "set_roster_count" => task'[u].count <= Cardinality(joined')
               /\ task'[u].at = "store_roster_count" => task'[u].total <= Cardinality(joined')
    BY <2>1, <2>2, <2>3 DEF RosterRead
  <2>5. rosterCount' # Null => rosterCount' <= Cardinality(joined')
    BY <2>3 DEF RosterRead
  <2>6. QED
    BY <1>1, <2>4, <2>5 DEF RosterRead
<1>4. CASE SetRosterCount(t)
  <2>1. task'[t] = Idle /\ \A u \in PlayerTasks \ {t} : task'[u] = task[u]
    BY <1>4, OthersStay DEF SetRosterCount
  <2>2. joined' = joined /\ rosterCount' \in {rosterCount, task[t].count}
    BY <1>4 DEF SetRosterCount, rowVars
  <2>3. rosterCount' # Null => rosterCount' <= Cardinality(joined')
    BY <1>4, <2>2 DEF RosterRead, SetRosterCount
  <2>4. ASSUME NEW u \in PlayerTasks
        PROVE  /\ task'[u].at = "set_roster_count" => task'[u].count <= Cardinality(joined')
               /\ task'[u].at = "store_roster_count" => task'[u].total <= Cardinality(joined')
    BY <2>1, <2>2 DEF RosterRead, Idle
  <2>5. QED
    BY <1>1, <2>3, <2>4 DEF RosterRead
<1>5. QED
  BY <1>1, <1>2, <1>3, <1>4

\* Nothing but the counters follows an answer's row: the roster is left alone.
LEMMA AnswerLeavesRoster ==
  ASSUME TypeOK, TypeOK', RosterRead, NEW t \in PlayerTasks,
         \/ \E p \in Players, q \in Questions, points \in SpeedPoints :
              SubmitAnswer(t, p, q, points)
         \/ InsertAnswer(t) \/ AddScore(t) \/ IncrAnsweredCount(t) \/ GetAnswerCount(t)
         \/ GetRosterCount(t) \/ RevealEarly(t)
  PROVE  RosterRead'
<1>1. /\ task'[t].at \notin {"set_roster_count", "store_roster_count"}
      /\ \A u \in PlayerTasks \ {t} : task'[u] = task[u]
  <2>1. task[t] \in TaskStates /\ t \in Tasks /\ task \in [Tasks -> TaskStates]
    BY DEF TypeOK, Tasks
  <2>2. CASE InsertAnswer(t)
    <3>1. task'[t].at \in {"add_score", "idle"}
      BY <2>1, <2>2, OthersStay DEF InsertAnswer, TaskStates, Idle
    <3>2. QED
      BY <2>1, <2>2, <3>1 DEF InsertAnswer, Continue, Tasks
  <2>3. CASE \/ \E p \in Players, q \in Questions, points \in SpeedPoints :
                  SubmitAnswer(t, p, q, points)
             \/ AddScore(t) \/ GetAnswerCount(t) \/ RevealEarly(t)
    BY <2>1, <2>3 DEF SubmitAnswer, AddScore, GetAnswerCount, RevealEarly, Idle, Continue, Tasks
  <2>4. CASE IncrAnsweredCount(t) \/ GetRosterCount(t)
    BY <2>1, <2>4 DEF IncrAnsweredCount, GetRosterCount, Continue, Tasks
  <2>5. QED
    BY <2>2, <2>3, <2>4
<1>2. joined' = joined /\ rosterCount' = rosterCount
  BY DEF SubmitAnswer, InsertAnswer, AddScore, IncrAnsweredCount, GetAnswerCount, GetRosterCount,
         RevealEarly, rowVars, cacheVars
<1>3. QED
  BY <1>1, <1>2, RosterLeftAlone

LEMMA AnswerCounts ==
  ASSUME TypeOK, TypeOK', AnswersCounted, NEW t \in PlayerTasks, status # "deleted",
         InsertAnswer(t) \/ AddScore(t) \/ IncrAnsweredCount(t)
  PROVE  AnswersCounted'
<1> SUFFICES ASSUME NEW q \in Questions
             PROVE  /\ IsFiniteSet(Uncounted(q)')
                    /\ answeredCount'[q] + Cardinality(Uncounted(q)') <= Cardinality(Rows(q)')
  BY DEF AnswersCounted
<1>0. /\ IsFiniteSet(Uncounted(q)) /\ Cardinality(Uncounted(q)) \in Nat
      /\ answeredCount[q] + Cardinality(Uncounted(q)) <= Cardinality(Rows(q))
      /\ Cardinality(Rows(q)) \in Nat /\ answeredCount[q] \in Nat
      /\ IsFiniteSet(Rows(q)) /\ task[t] \in TaskStates
  <2>1. Rows(q) \subseteq Players
    BY DEF Rows
  <2>2. QED
    BY <2>1, ConstantsAssumption, CountsAreNat, FS_CardinalityType, FS_Subset
       DEF AnswersCounted, TypeOK, Tasks
<1>1. CASE InsertAnswer(t)
  <2>1. task[t].player \in Players /\ task[t].question \in Questions /\ task[t].points \in SpeedPoints
    BY <1>0, <1>1, TaskShape DEF InsertAnswer
  <2>2. answeredCount' = answeredCount
    BY <1>1 DEF InsertAnswer, cacheVars
  <2>3. CASE answers[task[t].player][task[t].question] = Null /\ task[t].question = q
    <3>1. /\ answers' = [answers EXCEPT ![task[t].player][task[t].question] = task[t].points]
          /\ task'[t] = [task[t] EXCEPT !.at = "add_score"]
          /\ \A u \in PlayerTasks \ {t} : task'[u] = task[u]
      BY <1>1, <2>3, OthersStay DEF InsertAnswer
    <3>2. Rows(q)' = Rows(q) \union {task[t].player} /\ task[t].player \notin Rows(q)
      BY <2>1, <2>3, <3>1, ConstantsAssumption DEF Rows, TypeOK
    <3>3. task'[t].at = "add_score" /\ task'[t].question = q
      BY <1>0, <1>1, <2>3, <3>1 DEF InsertAnswer, TaskStates, Idle
    <3>4. Uncounted(q)' = Uncounted(q) \union {t} /\ t \notin Uncounted(q)
      BY <1>1, <3>1, <3>3 DEF Uncounted, InsertAnswer
    <3>5. /\ Cardinality(Rows(q) \union {task[t].player}) = Cardinality(Rows(q)) + 1
          /\ IsFiniteSet(Uncounted(q) \union {t})
          /\ Cardinality(Uncounted(q) \union {t}) = Cardinality(Uncounted(q)) + 1
      BY <1>0, <3>2, <3>4, FS_AddElement
    <3>6. QED
      BY <1>0, <2>2, <3>2, <3>4, <3>5
  <2>4. CASE answers[task[t].player][task[t].question] # Null \/ task[t].question # q
    <3>1. Uncounted(q)' = Uncounted(q)
      <4>1. task'[t].at = "add_score" => task'[t].question = task[t].question /\ task[t].question # q
        BY <1>0, <1>1, <2>4, OthersStay DEF InsertAnswer, TaskStates, Idle
      <4>2. task'[t].at # "incr_answered" /\ \A u \in PlayerTasks \ {t} : task'[u] = task[u]
        BY <1>0, <1>1, OthersStay DEF InsertAnswer, TaskStates, Idle
      <4>3. t \notin Uncounted(q)
        BY <1>1 DEF InsertAnswer, Uncounted
      <4>4. QED
        BY <4>1, <4>2, <4>3 DEF Uncounted
    <3>2. Rows(q)' = Rows(q)
      <4>1. \A p \in Players : answers'[p][q] = answers[p][q]
        BY <1>1, <2>1, <2>4 DEF InsertAnswer, TypeOK
      <4>2. QED
        BY <4>1 DEF Rows
    <3>3. QED
      BY <1>0, <2>2, <3>1, <3>2
  <2>5. QED
    BY <2>3, <2>4
<1>2. CASE AddScore(t)
  <2>1. /\ task'[t] = [at |-> "incr_answered", question |-> task[t].question]
        /\ \A u \in PlayerTasks \ {t} : task'[u] = task[u]
    BY <1>2, OthersStay DEF AddScore
  <2>2. Uncounted(q)' = Uncounted(q)
    BY <1>2, <2>1 DEF Uncounted, AddScore
  <2>3. Rows(q)' = Rows(q) /\ answeredCount' = answeredCount
    BY <1>2 DEF AddScore, Rows, cacheVars
  <2>4. QED
    BY <1>0, <2>2, <2>3
<1>3. CASE IncrAnsweredCount(t)
  <2>1. \E x : Continue(t, x) /\ x.at \notin {"add_score", "incr_answered"}
    BY <1>3 DEF IncrAnsweredCount
  <2>2. /\ task'[t].at \notin {"add_score", "incr_answered"}
        /\ \A u \in PlayerTasks \ {t} : task'[u] = task[u]
    BY <2>1, OthersStay
  <2>3. Rows(q)' = Rows(q)
    BY <1>3 DEF IncrAnsweredCount, Rows, rowVars
  <2>4. task[t].question \in Questions
    BY <1>0, <1>3, TaskShape DEF IncrAnsweredCount
  <2>5. CASE task[t].question = q
    <3>1. t \in Uncounted(q) /\ Uncounted(q)' = Uncounted(q) \ {t}
      BY <1>3, <2>2, <2>5 DEF Uncounted, IncrAnsweredCount
    <3>2. /\ IsFiniteSet(Uncounted(q)')
          /\ Cardinality(Uncounted(q)') = Cardinality(Uncounted(q)) - 1
      BY <1>0, <3>1, FS_RemoveElement
    <3>3. answeredCount'[q] \in {answeredCount[q], answeredCount[q] + 1}
      BY <1>3, <2>5 DEF IncrAnsweredCount, TypeOK
    <3>4. QED
      BY <1>0, <2>3, <3>2, <3>3
  <2>6. CASE task[t].question # q
    <3>1. Uncounted(q)' = Uncounted(q)
      BY <2>2, <2>6 DEF Uncounted
    <3>2. answeredCount'[q] = answeredCount[q]
      BY <1>3, <2>4, <2>6 DEF IncrAnsweredCount, TypeOK
    <3>3. QED
      BY <1>0, <2>3, <3>1, <3>2
  <2>7. QED
    BY <2>5, <2>6
<1>4. QED
  BY <1>1, <1>2, <1>3

LEMMA CountingCounts ==
  ASSUME TypeOK, TypeOK', RosterRead, NEW t \in PlayerTasks,
         CountParticipants(t) \/ StoreRosterCount(t)
  PROVE  RosterRead'
<1>0. task[t] \in TaskStates /\ Cardinality(joined) \in Nat
  BY CountsAreNat DEF TypeOK, Tasks
<1>1. \A u \in PlayerTasks \ {t} : task'[u] = task[u]
  BY OthersStay DEF CountParticipants, StoreRosterCount
<1>2. joined' = joined
  BY DEF CountParticipants, StoreRosterCount, rowVars
<1>3. CASE CountParticipants(t)
  <2>1. task'[t].at = "store_roster_count" /\ task'[t].total = Cardinality(joined)
    BY <1>3, OthersStay DEF CountParticipants
  <2>2. QED
    BY <1>0, <1>1, <1>2, <1>3, <2>1 DEF RosterRead, CountParticipants, cacheVars
<1>4. CASE StoreRosterCount(t)
  <2>1. task'[t].at = "reveal_early"
    BY <1>0, <1>4, OthersStay DEF StoreRosterCount, TaskStates, Idle
  <2>2. rosterCount' \in {rosterCount, task[t].total}
    BY <1>4 DEF StoreRosterCount
  <2>3. QED
    BY <1>1, <1>2, <1>4, <2>1, <2>2 DEF RosterRead, StoreRosterCount
<1>5. QED
  BY <1>3, <1>4

LEMMA PlayerCounts ==
  ASSUME TypeOK, TypeOK', AnswersCounted, RosterRead, NEW t \in PlayerTasks, status # "deleted",
         PlayerMessage(t) \/ PlayerStep(t)
  PROVE  AnswersCounted' /\ RosterRead'
<1>1. CASE \/ \E p \in Players : JoinSession(t, p)
           \/ InsertParticipant(t) \/ GetRoster(t) \/ SetRosterCount(t)
  BY <1>1, JoinCounts
<1>2. CASE InsertAnswer(t) \/ AddScore(t) \/ IncrAnsweredCount(t)
  BY <1>2, AnswerCounts, AnswerLeavesRoster
<1>3. CASE \/ \E p \in Players, q \in Questions, points \in SpeedPoints :
                SubmitAnswer(t, p, q, points)
           \/ GetAnswerCount(t) \/ GetRosterCount(t) \/ CountParticipants(t)
           \/ StoreRosterCount(t) \/ RevealEarly(t)
  <2>1. /\ task'[t].at \notin {"add_score", "incr_answered"}
        /\ \A u \in PlayerTasks \ {t} : task'[u] = task[u]
    <3>1. task[t] \in TaskStates /\ t \in Tasks /\ task \in [Tasks -> TaskStates]
      BY DEF TypeOK, Tasks
    <3>2. CASE StoreRosterCount(t)
      <4>1. task'[t].at = "reveal_early"
        BY <3>1, <3>2, OthersStay DEF StoreRosterCount, TaskStates, Idle
      <4>2. QED
        BY <3>1, <3>2, <4>1 DEF StoreRosterCount, Continue, Tasks
    <3>3. CASE \E p \in Players, q \in Questions, points \in SpeedPoints :
                 SubmitAnswer(t, p, q, points)
      BY <3>1, <3>3 DEF SubmitAnswer, Continue, Tasks
    <3>4. CASE GetAnswerCount(t) \/ GetRosterCount(t) \/ CountParticipants(t) \/ RevealEarly(t)
      BY <3>1, <3>4 DEF GetAnswerCount, GetRosterCount, CountParticipants, RevealEarly, Idle,
             Continue, Tasks
    <3>5. QED
      BY <1>3, <3>2, <3>3, <3>4
  <2>2. answers' = answers /\ answeredCount' = answeredCount
    BY <1>3 DEF SubmitAnswer, GetAnswerCount, GetRosterCount, CountParticipants,
           StoreRosterCount, RevealEarly, rowVars, cacheVars
  <2>3. \A q \in Questions : answeredCount'[q] <= answeredCount[q]
    BY <2>2 DEF TypeOK
  <2>4. AnswersCounted'
    BY <2>1, <2>2, <2>3, CountsLeftAlone
  <2>5. RosterRead'
    BY <1>3, AnswerLeavesRoster, CountingCounts
  <2>6. QED
    BY <2>4, <2>5
<1>4. QED
  BY <1>1, <1>2, <1>3 DEF PlayerMessage, PlayerStep

\* For any players, questions and handlers, and whatever fails (Redis, a handler, the
\* whole server), the two counters in Redis never run ahead of the rows they stand
\* for: an answer is counted at most once, after its row is in.
THEOREM CountersStayBehind == Spec => []CachesNeverAhead
<1>1. Init => CacheInv
  <2> SUFFICES ASSUME Init PROVE AnswersCounted /\ RosterRead
    BY DEF CacheInv
  <2>1. \A q \in Questions : Uncounted(q) = {} /\ answeredCount[q] = 0 /\ Cardinality(Rows(q)) \in Nat
    BY InitTypeOK, CountsAreNat DEF Init, Uncounted, Idle, Tasks, TypeOK
  <2>2. AnswersCounted
    <3>1. IsFiniteSet({}) /\ Cardinality({}) = 0
      BY FS_EmptySet
    <3>2. QED
      BY <2>1, <3>1 DEF AnswersCounted
  <2>3. RosterRead
    BY DEF Init, RosterRead, Idle, Tasks
  <2>4. QED
    BY <2>2, <2>3
<1>2. ASSUME TypeOK, TypeOK', CacheInv, [Next]_vars
      PROVE  CacheInv'
  <2> SUFFICES ASSUME status' # "deleted"
               PROVE  AnswersCounted' /\ RosterRead'
    BY DEF CacheInv
  <2>1. status # "deleted" /\ AnswersCounted /\ RosterRead
    BY <1>2, DeletedForGood DEF CacheInv
  <2>2. CASE \E t \in PlayerTasks : PlayerMessage(t) \/ PlayerStep(t)
    BY <1>2, <2>1, <2>2, PlayerCounts
  <2>3. CASE ~\E t \in PlayerTasks : PlayerMessage(t) \/ PlayerStep(t)
    <3>1. /\ rowVars' = rowVars
          /\ \/ UNCHANGED cacheVars
             \/ rosterCount' = Null /\ answeredCount' = [q \in Questions |-> 0]
          /\ \A u \in PlayerTasks : task'[u] = task[u] \/ task'[u].at \in {"idle", "write_deleted"}
      BY <1>2, <2>3, OtherSteps
    <3>2. \A q \in Questions : answeredCount'[q] <= answeredCount[q]
      BY <1>2, <3>1 DEF TypeOK, cacheVars
    <3>3. joined' = joined /\ answers' = answers /\ rosterCount' \in {rosterCount, Null}
      BY <3>1 DEF rowVars, cacheVars
    <3>4. AnswersCounted'
      BY <1>2, <2>1, <3>1, <3>2, <3>3, CountsLeftAlone
    <3>5. RosterRead'
      BY <1>2, <2>1, <3>1, <3>3, RosterLeftAlone
    <3>6. QED
      BY <3>4, <3>5
  <2>4. QED
    BY <2>2, <2>3
<1>3. TypeOK /\ CacheInv => CachesNeverAhead
  <2> SUFFICES ASSUME TypeOK, AnswersCounted, RosterRead, NEW q \in Questions
               PROVE  answeredCount[q] <= Cardinality(Rows(q))
    BY DEF CacheInv, CachesNeverAhead, RosterRead
  <2>1. Cardinality(Uncounted(q)) \in Nat /\ Cardinality(Rows(q)) \in Nat /\ answeredCount[q] \in Nat
    BY FS_CardinalityType, CountsAreNat DEF AnswersCounted, TypeOK
  <2>2. QED
    BY <2>1 DEF AnswersCounted
<1>4. QED
  BY <1>1, <1>2, <1>3, TypeCorrect, PTL DEF Spec

-----------------------------------------------------------------------------
(***************************************************************************)
(* The scores.  Between an answer's row and its player's score lies an     *)
(* await: the points of the rows in between are what a score may lack.     *)
(***************************************************************************)

\* No handler dies between two awaits.
Lossless == {"handler", "server"} \intersect Faults = {}

Waiting(p, q) ==
  \E t \in PlayerTasks : task[t].at = "add_score" /\ task[t].player = p /\ task[t].question = q

Unadded(p) == [q \in Questions |-> IF Waiting(p, q) THEN answers[p][q] ELSE 0]

\* Who adds points holds those of a row, and nobody else holds them.
AwardsHeld ==
  /\ \A t \in PlayerTasks : task[t].at = "add_score" =>
       answers[task[t].player][task[t].question] = task[t].points
  /\ \A t, u \in PlayerTasks :
       /\ task[t].at = "add_score" /\ task[u].at = "add_score"
       /\ task[t].player = task[u].player /\ task[t].question = task[u].question
       => t = u

Tallied(p) ==
  /\ score[p] + SumFunction(Unadded(p)) <= SumFunction(PointsOf(p))
  /\ Lossless => score[p] + SumFunction(Unadded(p)) = SumFunction(PointsOf(p))

Emptied == \A p \in Players : score[p] = 0 /\ \A q \in Questions : answers[p][q] = Null

TallyInv ==
  /\ status = "deleted" => Emptied
  /\ status # "deleted" => AwardsHeld /\ \A p \in Players : Tallied(p)

LEMMA SumTypes ==
  ASSUME TypeOK, AwardsHeld, NEW p \in Players
  PROVE  /\ IsFiniteSet(Questions)
         /\ PointsOf(p) \in [Questions -> Nat] /\ Unadded(p) \in [Questions -> Nat]
         /\ SumFunction(PointsOf(p)) \in Nat /\ SumFunction(Unadded(p)) \in Nat
         /\ \A q \in Questions : Waiting(p, q) => answers[p][q] \in Nat
<1>1. IsFiniteSet(Questions)
  BY ConstantsAssumption, FS_Interval DEF Questions
<1>2. PointsOf(p) \in [Questions -> Nat]
  <2>1. ASSUME NEW q \in Questions
        PROVE  answers[p][q] \in Nat \union {Null}
    BY ConstantsAssumption DEF TypeOK
  <2>2. QED
    BY <2>1 DEF PointsOf
<1>3. ASSUME NEW q \in Questions, Waiting(p, q)
      PROVE  answers[p][q] \in Nat
  <2>1. PICK t \in PlayerTasks :
          task[t].at = "add_score" /\ task[t].player = p /\ task[t].question = q
    BY <1>3 DEF Waiting
  <2>2. task[t].points \in SpeedPoints
    <3>1. task[t] \in TaskStates
      BY DEF TypeOK, Tasks
    <3>2. QED
      BY <2>1, <3>1, TaskShape
  <2>3. QED
    BY <2>1, <2>2, ConstantsAssumption DEF AwardsHeld
<1>4. Unadded(p) \in [Questions -> Nat]
  BY <1>3 DEF Unadded
<1>5. QED
  BY <1>1, <1>2, <1>3, <1>4, SumType

\* A player no handler is adding points for has none to come.
LEMMA NothingWaiting ==
  ASSUME NEW p \in Players, \A q \in Questions : ~Waiting(p, q)
  PROVE  SumFunction(Unadded(p)) = 0
<1>1. IsFiniteSet(Questions)
  BY ConstantsAssumption, FS_Interval DEF Questions
<1>2. Unadded(p) = [q \in Questions |-> 0]
  BY DEF Unadded
<1>3. QED
  BY <1>1, <1>2, SumOfZeros

\* Rows and scores stay; a handler may die.
LEMMA TallyLeftAlone ==
  ASSUME TypeOK, TypeOK', AwardsHeld, \A p \in Players : Tallied(p),
         answers' = answers, score' = score,
         \A u \in PlayerTasks :
           \/ task'[u] = task[u]
           \/ /\ task'[u].at # "add_score"
              /\ Lossless => task[u].at # "add_score"
  PROVE  AwardsHeld' /\ \A p \in Players : Tallied(p)'
<1>1. AwardsHeld'
  BY DEF AwardsHeld
<1>2. ASSUME NEW p \in Players
      PROVE  Tallied(p)'
  <2>1. PointsOf(p)' = PointsOf(p)
    BY DEF PointsOf
  <2>2. ASSUME NEW q \in Questions, Waiting(p, q)'
        PROVE  Waiting(p, q)
    BY <2>2 DEF Waiting
  <2>3. ASSUME NEW q \in Questions, Lossless, Waiting(p, q)
        PROVE  Waiting(p, q)'
    BY <2>3 DEF Waiting
  <2>4. /\ IsFiniteSet(Questions)
        /\ Unadded(p) \in [Questions -> Nat]
        /\ SumFunction(PointsOf(p)) \in Nat /\ SumFunction(Unadded(p)) \in Nat
        /\ \A q \in Questions : Waiting(p, q) => answers[p][q] \in Nat
    BY SumTypes
  <2>5. Unadded(p)' = [q \in Questions |-> IF Waiting(p, q)' THEN answers[p][q] ELSE 0]
    BY DEF Unadded
  <2>6. /\ Unadded(p)' \in [Questions -> Nat]
        /\ \A q \in Questions : Unadded(p)'[q] <= Unadded(p)[q]
    BY <2>2, <2>4, <2>5 DEF Unadded
  <2>7. SumFunction(Unadded(p)') <= SumFunction(Unadded(p)) /\ SumFunction(Unadded(p)') \in Nat
    BY <2>4, <2>6, SumOfLess, SumType
  <2>8. Lossless => Unadded(p)' = Unadded(p)
    BY <2>2, <2>3, <2>5 DEF Unadded
  <2>9. score[p] \in Nat /\ score'[p] = score[p]
    BY DEF TypeOK
  <2>10. QED
    BY <2>1, <2>4, <2>7, <2>8, <2>9 DEF Tallied
<1>3. QED
  BY <1>1, <1>2

\* The points of a new row are to come.
LEMMA RowIsToCome ==
  ASSUME TypeOK, TypeOK', AwardsHeld, \A p \in Players : Tallied(p), status # "deleted",
         NEW t \in PlayerTasks, InsertAnswer(t),
         answers[task[t].player][task[t].question] = Null
  PROVE  AwardsHeld' /\ \A p \in Players : Tallied(p)'
<1>0. PICK a \in Players, b \in Questions, n \in SpeedPoints :
        task[t].player = a /\ task[t].question = b /\ task[t].points = n
  <2>1. task[t] \in TaskStates
    BY DEF TypeOK, Tasks
  <2>2. QED
    BY <2>1, TaskShape DEF InsertAnswer
<1>1. /\ answers' = [answers EXCEPT ![a][b] = n] /\ score' = score
      /\ task'[t].at = "add_score" /\ task'[t].player = a
      /\ task'[t].question = b /\ task'[t].points = n
      /\ \A u \in PlayerTasks \ {t} : task'[u] = task[u]
  <2>1. task[t] \in TaskStates
    BY DEF TypeOK, Tasks
  <2>2. task'[t] = [task[t] EXCEPT !.at = "add_score"] /\ \A u \in PlayerTasks \ {t} : task'[u] = task[u]
    BY OthersStay DEF InsertAnswer
  <2>3. answers' = [answers EXCEPT ![a][b] = n] /\ score' = score
    BY <1>0 DEF InsertAnswer
  <2>4. /\ task'[t].at = "add_score" /\ task'[t].player = a
        /\ task'[t].question = b /\ task'[t].points = n
    BY <1>0, <2>1, <2>2 DEF InsertAnswer, TaskStates, Idle
  <2>5. QED
    BY <2>2, <2>3, <2>4
<1>2. n \in Nat /\ n # Null /\ answers[a][b] = Null
  BY <1>0, ConstantsAssumption
<1>3. ASSUME NEW u \in PlayerTasks, task[u].at = "add_score"
      PROVE  /\ task[u].player \in Players /\ task[u].question \in Questions
             /\ ~(task[u].player = a /\ task[u].question = b)
             /\ u # t
  <2>1. task[u] \in TaskStates
    BY DEF TypeOK, Tasks
  <2>2. task[u].player \in Players /\ task[u].question \in Questions /\ task[u].points \in Nat
    BY <1>3, <2>1, TaskShape, ConstantsAssumption
  <2>3. QED
    BY <1>2, <1>3, <2>2, ConstantsAssumption DEF AwardsHeld, InsertAnswer
<1>4. \A p \in Players, q \in Questions : ~(p = a /\ q = b) => answers'[p][q] = answers[p][q]
  BY <1>1 DEF TypeOK
<1>5. answers'[a][b] = n
  BY <1>1 DEF TypeOK
<1>6. AwardsHeld'
  <2>1. \A u \in PlayerTasks : task'[u].at = "add_score" =>
          answers'[task'[u].player][task'[u].question] = task'[u].points
    BY <1>1, <1>3, <1>4, <1>5 DEF AwardsHeld
  <2>2. \A v, u \in PlayerTasks :
          /\ task'[v].at = "add_score" /\ task'[u].at = "add_score"
          /\ task'[v].player = task'[u].player /\ task'[v].question = task'[u].question
          => v = u
    BY <1>1, <1>3 DEF AwardsHeld
  <2>3. QED
    BY <2>1, <2>2 DEF AwardsHeld
<1>7. /\ Waiting(a, b)' /\ ~Waiting(a, b)
      /\ \A p \in Players, q \in Questions : ~(p = a /\ q = b) => (Waiting(p, q)' <=> Waiting(p, q))
  BY <1>1, <1>3 DEF Waiting, InsertAnswer
<1>8. ASSUME NEW p \in Players \ {a}
      PROVE  Tallied(p)'
  <2>1. PointsOf(p)' = PointsOf(p)
    BY <1>4 DEF PointsOf
  <2>2. Unadded(p)' = Unadded(p)
    BY <1>4, <1>7 DEF Unadded
  <2>3. QED
    BY <1>1, <2>1, <2>2 DEF Tallied
<1>9. Tallied(a)'
  <2>1. /\ IsFiniteSet(Questions)
        /\ PointsOf(a) \in [Questions -> Nat] /\ Unadded(a) \in [Questions -> Nat]
        /\ SumFunction(PointsOf(a)) \in Nat /\ SumFunction(Unadded(a)) \in Nat
    BY SumTypes
  <2>2. PointsOf(a)[b] = 0 /\ Unadded(a)[b] = 0
    BY <1>2, <1>7 DEF PointsOf, Unadded
  <2>3. PointsOf(a)' = [PointsOf(a) EXCEPT ![b] = n]
    BY <1>2, <1>4, <1>5 DEF PointsOf
  <2>4. Unadded(a)' = [Unadded(a) EXCEPT ![b] = n]
    BY <1>4, <1>5, <1>7 DEF Unadded
  <2>5. /\ SumFunction(PointsOf(a)') = SumFunction(PointsOf(a)) + n
        /\ SumFunction(Unadded(a)') = SumFunction(Unadded(a)) + n
    <3>1. SumFunction([PointsOf(a) EXCEPT ![b] = n]) = SumFunction(PointsOf(a)) - PointsOf(a)[b] + n
      BY <1>2, <2>1, SumOfChange
    <3>2. SumFunction([Unadded(a) EXCEPT ![b] = n]) = SumFunction(Unadded(a)) - Unadded(a)[b] + n
      BY <1>2, <2>1, SumOfChange
    <3>3. QED
      BY <1>2, <2>1, <2>2, <2>3, <2>4, <3>1, <3>2
  <2>6. score[a] \in Nat /\ score'[a] = score[a]
    BY <1>1 DEF TypeOK
  <2>7. QED
    BY <1>2, <2>1, <2>5, <2>6 DEF Tallied
<1>10. QED
  BY <1>6, <1>8, <1>9

\* The points that were to come are in the score.
LEMMA PointsAreAdded ==
  ASSUME TypeOK, TypeOK', AwardsHeld, \A p \in Players : Tallied(p), status # "deleted",
         NEW t \in PlayerTasks, AddScore(t)
  PROVE  AwardsHeld' /\ \A p \in Players : Tallied(p)'
<1>0. PICK a \in Players, b \in Questions, n \in SpeedPoints :
        task[t].player = a /\ task[t].question = b /\ task[t].points = n
  <2>1. task[t] \in TaskStates
    BY DEF TypeOK, Tasks
  <2>2. QED
    BY <2>1, TaskShape DEF AddScore
<1>1. /\ score' = [score EXCEPT ![a] = @ + n] /\ answers' = answers
      /\ task'[t].at = "incr_answered"
      /\ \A u \in PlayerTasks \ {t} : task'[u] = task[u]
      /\ task[t].at = "add_score"
  BY <1>0, OthersStay DEF AddScore
<1>2. n \in Nat /\ answers[a][b] = n
  BY <1>0, <1>1, ConstantsAssumption DEF AwardsHeld
<1>3. AwardsHeld'
  BY <1>1 DEF AwardsHeld
<1>4. /\ Waiting(a, b) /\ ~Waiting(a, b)'
      /\ \A p \in Players, q \in Questions : ~(p = a /\ q = b) => (Waiting(p, q)' <=> Waiting(p, q))
  <2>1. Waiting(a, b)
    BY <1>0, <1>1 DEF Waiting
  <2>2. ~Waiting(a, b)'
    BY <1>0, <1>1 DEF Waiting, AwardsHeld
  <2>3. ASSUME NEW p \in Players, NEW q \in Questions, ~(p = a /\ q = b)
        PROVE  Waiting(p, q)' <=> Waiting(p, q)
    BY <1>0, <1>1, <2>3 DEF Waiting
  <2>4. QED
    BY <2>1, <2>2, <2>3
<1>5. \A p \in Players : PointsOf(p)' = PointsOf(p)
  BY <1>1 DEF PointsOf
<1>6. ASSUME NEW p \in Players \ {a}
      PROVE  Tallied(p)'
  <2>1. Unadded(p)' = Unadded(p)
    BY <1>1, <1>4 DEF Unadded
  <2>2. score'[p] = score[p]
    BY <1>1 DEF TypeOK
  <2>3. QED
    BY <1>5, <2>1, <2>2 DEF Tallied
<1>7. Tallied(a)'
  <2>1. /\ IsFiniteSet(Questions) /\ Unadded(a) \in [Questions -> Nat]
        /\ SumFunction(PointsOf(a)) \in Nat /\ SumFunction(Unadded(a)) \in Nat
    BY SumTypes
  <2>2. Unadded(a)[b] = n
    BY <1>2, <1>4 DEF Unadded
  <2>3. Unadded(a)' = [Unadded(a) EXCEPT ![b] = 0]
    BY <1>1, <1>4 DEF Unadded
  <2>4. SumFunction(Unadded(a)') = SumFunction(Unadded(a)) - n
    <3>1. \A v \in Nat : SumFunction([Unadded(a) EXCEPT ![b] = v])
                           = SumFunction(Unadded(a)) - Unadded(a)[b] + v
      BY <2>1, SumOfChange
    <3>2. SumFunction(Unadded(a)') = SumFunction(Unadded(a)) - Unadded(a)[b] + 0
      BY <2>3, <3>1
    <3>3. QED
      BY <1>2, <2>1, <2>2, <3>2
  <2>5. score[a] \in Nat /\ score'[a] = score[a] + n
    BY <1>1, <1>2 DEF TypeOK
  <2>6. QED
    BY <1>2, <1>5, <2>1, <2>4, <2>5 DEF Tallied
<1>8. QED
  BY <1>3, <1>6, <1>7

LEMMA PlayerTally ==
  ASSUME TypeOK, TypeOK', AwardsHeld, \A p \in Players : Tallied(p), status # "deleted",
         NEW t \in PlayerTasks, PlayerMessage(t) \/ PlayerStep(t)
  PROVE  AwardsHeld' /\ \A p \in Players : Tallied(p)'
<1>0. task[t] \in TaskStates /\ t \in Tasks /\ task \in [Tasks -> TaskStates]
  BY DEF TypeOK, Tasks
<1>1. CASE AddScore(t)
  BY <1>1, PointsAreAdded
<1>2. CASE InsertAnswer(t)
  <2>1. CASE answers[task[t].player][task[t].question] = Null
    BY <1>2, <2>1, RowIsToCome
  <2>2. CASE answers[task[t].player][task[t].question] # Null
    <3>1. /\ answers' = answers /\ score' = score /\ task'[t].at = "idle"
          /\ \A u \in PlayerTasks \ {t} : task'[u] = task[u]
      BY <1>2, <2>2, OthersStay DEF InsertAnswer, Idle
    <3>2. QED
      BY <1>2, <3>1, TallyLeftAlone DEF InsertAnswer
  <2>3. QED
    BY <2>1, <2>2
<1>3. CASE \/ \E p \in Players : JoinSession(t, p)
           \/ \E p \in Players, q \in Questions, points \in SpeedPoints :
                SubmitAnswer(t, p, q, points)
           \/ InsertParticipant(t) \/ GetRoster(t) \/ SetRosterCount(t)
           \/ IncrAnsweredCount(t) \/ GetAnswerCount(t) \/ GetRosterCount(t)
           \/ CountParticipants(t) \/ StoreRosterCount(t) \/ RevealEarly(t)
  <2>1. task[t].at # "add_score"
    <3>1. CASE \/ \E p \in Players : JoinSession(t, p)
               \/ \E p \in Players, q \in Questions, points \in SpeedPoints :
                    SubmitAnswer(t, p, q, points)
      <4>1. task[t] = Idle
        BY <3>1 DEF JoinSession, SubmitAnswer, Arrive
      <4>2. QED
        BY <4>1 DEF Idle
    <3>2. CASE \/ InsertParticipant(t) \/ GetRoster(t) \/ SetRosterCount(t)
               \/ IncrAnsweredCount(t) \/ GetAnswerCount(t) \/ GetRosterCount(t)
               \/ CountParticipants(t) \/ StoreRosterCount(t) \/ RevealEarly(t)
      BY <3>2 DEF InsertParticipant, GetRoster, SetRosterCount, IncrAnsweredCount, GetAnswerCount,
             GetRosterCount, CountParticipants, StoreRosterCount, RevealEarly
    <3>3. QED
      BY <1>3, <3>1, <3>2
  <2>2. answers' = answers /\ score' = score
    BY <1>3 DEF JoinSession, SubmitAnswer, InsertParticipant, GetRoster, SetRosterCount,
           IncrAnsweredCount, GetAnswerCount, GetRosterCount, CountParticipants,
           StoreRosterCount, RevealEarly, rowVars
  <2>3. /\ task'[t].at # "add_score"
        /\ \A u \in PlayerTasks \ {t} : task'[u] = task[u]
    <3>1. CASE StoreRosterCount(t)
      <4>1. task'[t].at = "reveal_early"
        BY <1>0, <3>1, OthersStay DEF StoreRosterCount, TaskStates, Idle
      <4>2. QED
        BY <1>0, <3>1, <4>1 DEF StoreRosterCount, Continue, Tasks
    <3>2. CASE \/ \E p \in Players : JoinSession(t, p)
               \/ \E p \in Players, q \in Questions, points \in SpeedPoints :
                    SubmitAnswer(t, p, q, points)
      BY <1>0, <3>2 DEF JoinSession, SubmitAnswer, Continue, Tasks
    <3>3. CASE InsertParticipant(t) \/ GetRoster(t) \/ SetRosterCount(t) \/ IncrAnsweredCount(t)
      BY <1>0, <3>3 DEF InsertParticipant, GetRoster, SetRosterCount, IncrAnsweredCount, Idle,
             Continue, Tasks
    <3>4. CASE GetAnswerCount(t) \/ GetRosterCount(t) \/ CountParticipants(t) \/ RevealEarly(t)
      BY <1>0, <3>4 DEF GetAnswerCount, GetRosterCount, CountParticipants, RevealEarly, Idle,
             Continue, Tasks
    <3>5. QED
      BY <1>3, <3>1, <3>2, <3>3, <3>4
  <2>4. QED
    BY <2>1, <2>2, <2>3, TallyLeftAlone
<1>4. QED
  BY <1>1, <1>2, <1>3 DEF PlayerMessage, PlayerStep

\* A deleted game has no rows left and gets none.
LEMMA DeletedIsEmpty ==
  ASSUME TypeOK, TallyInv, [Next]_vars, status' = "deleted"
  PROVE  Emptied'
<1>1. CASE status = "deleted"
  <2>1. ASSUME NEW t \in PlayerTasks, PlayerMessage(t) \/ PlayerStep(t)
        PROVE  score' = score /\ answers' = answers
    BY <1>1, <2>1 DEF PlayerMessage, JoinSession, SubmitAnswer, PlayerStep, InsertParticipant,
           GetRoster, SetRosterCount, InsertAnswer, AddScore, IncrAnsweredCount, GetAnswerCount,
           GetRosterCount, CountParticipants, StoreRosterCount, RevealEarly, rowVars
  <2>2. ASSUME NEW t \in HostTasks, HostMessage(t) \/ HostStep(t)
        PROVE  (score' = score /\ answers' = answers) \/ WriteDeleted(t)
    BY <2>2 DEF HostMessage, StartSession, AdvanceQuestion, CancelSession, DeleteSession, HostStep,
           WriteStart, ShowQuestion, WriteNext, StopTimer, ClearSessionCache, WriteCancelled, rowVars
  <2>3. CASE HostReveal \/ ShowLeaderboard \/ AutoReveal \/ RevealStep \/ FailReveal \/ Restart
             \/ Refuse \/ UNCHANGED vars \/ \E t \in Tasks : FailTask(t)
    <3>1. score' = score /\ answers' = answers
      BY <2>3 DEF HostReveal, ShowLeaderboard, AutoReveal, RevealStep, RevealAnswer, CloseQuestion,
             PublishReveal, FailReveal, Restart, Refuse, FailTask, vars, rowVars
    <3>2. QED
      BY <1>1, <3>1 DEF TallyInv, Emptied
  <2>4. ASSUME NEW t \in HostTasks, WriteDeleted(t)
        PROVE  Emptied'
    BY <2>4 DEF WriteDeleted, Emptied
  <2>5. QED
    BY <1>1, <2>1, <2>2, <2>3, <2>4 DEF Next, TallyInv, Emptied
<1>2. CASE status # "deleted"
  <2>1. ASSUME NEW t \in HostTasks, WriteDeleted(t)
        PROVE  Emptied'
    BY <2>1 DEF WriteDeleted, Emptied
  <2>2. \E t \in HostTasks : WriteDeleted(t)
    <3>1. ASSUME NEW t \in PlayerTasks, PlayerMessage(t) \/ PlayerStep(t)
          PROVE  FALSE
      BY <1>2, <3>1 DEF PlayerMessage, JoinSession, SubmitAnswer, PlayerStep, InsertParticipant,
             GetRoster, SetRosterCount, InsertAnswer, AddScore, IncrAnsweredCount, GetAnswerCount,
             GetRosterCount, CountParticipants, StoreRosterCount, RevealEarly, sessionVars
    <3>2. ASSUME NEW t \in HostTasks, HostMessage(t) \/ HostStep(t)
          PROVE  WriteDeleted(t)
      BY <1>2, <3>2 DEF HostMessage, StartSession, AdvanceQuestion, CancelSession, DeleteSession,
             HostStep, WriteStart, ShowQuestion, WriteNext, StopTimer, ClearSessionCache,
             WriteCancelled, OpenQuestion, SetStatus, sessionVars
    <3>3. CASE HostReveal \/ ShowLeaderboard \/ AutoReveal \/ RevealStep \/ FailReveal \/ Restart
               \/ Refuse \/ UNCHANGED vars \/ \E t \in Tasks : FailTask(t)
      BY <1>2, <3>3 DEF HostReveal, ShowLeaderboard, AutoReveal, RevealStep, RevealAnswer,
             CloseQuestion, PublishReveal, SetStatus, FailReveal, Restart, Refuse, FailTask,
             vars, sessionVars
    <3>4. QED
      BY <3>1, <3>2, <3>3 DEF Next
  <2>3. QED
    BY <2>1, <2>2
<1>3. QED
  BY <1>1, <1>2

LEMMA AlwaysTallyInv == Spec => [](TypeOK /\ TallyInv)
<1>1. Init => TallyInv
  <2> SUFFICES ASSUME Init PROVE AwardsHeld /\ \A p \in Players : Tallied(p)
    BY DEF TallyInv, Init
  <2>1. AwardsHeld
    BY DEF Init, AwardsHeld, Idle, Tasks
  <2>2. ASSUME NEW p \in Players
        PROVE  Tallied(p)
    <3>1. SumFunction(Unadded(p)) = 0
      BY NothingWaiting DEF Init, Waiting, Idle, Tasks
    <3>2. PointsOf(p) = [q \in Questions |-> 0]
      BY DEF Init, PointsOf
    <3>3. SumFunction(PointsOf(p)) = 0
      BY <3>2, ConstantsAssumption, FS_Interval, SumOfZeros DEF Questions
    <3>4. score[p] = 0
      BY DEF Init
    <3>5. QED
      BY <3>1, <3>3, <3>4 DEF Tallied
  <2>3. QED
    BY <2>1, <2>2
<1>2. ASSUME TypeOK, TypeOK', TallyInv, [Next]_vars
      PROVE  TallyInv'
  <2> SUFFICES ASSUME status' # "deleted"
               PROVE  AwardsHeld' /\ \A p \in Players : Tallied(p)'
    BY <1>2, DeletedIsEmpty DEF TallyInv
  <2>1. status # "deleted" /\ AwardsHeld /\ \A p \in Players : Tallied(p)
    BY <1>2, DeletedForGood DEF TallyInv
  <2>2. CASE \E t \in PlayerTasks : PlayerMessage(t) \/ PlayerStep(t)
    BY <1>2, <2>1, <2>2, PlayerTally
  <2>3. CASE ~\E t \in PlayerTasks : PlayerMessage(t) \/ PlayerStep(t)
    <3>1. /\ rowVars' = rowVars
          /\ \A u \in PlayerTasks :
               \/ task'[u] = task[u]
               \/ ~Lossless /\ task'[u].at \in {"idle", "write_deleted"}
      BY <1>2, <2>3, OtherSteps DEF Lossless
    <3>2. QED
      BY <1>2, <2>1, <3>1, TallyLeftAlone DEF rowVars
  <2>4. QED
    BY <2>2, <2>3
<1>3. QED
  BY <1>1, <1>2, TypeCorrect, PTL DEF Spec

LEMMA EmptySums ==
  ASSUME TypeOK, Emptied, NEW p \in Players
  PROVE  score[p] = 0 /\ SumFunction(PointsOf(p)) = 0
<1>1. PointsOf(p) = [q \in Questions |-> 0]
  BY DEF Emptied, PointsOf
<1>2. QED
  BY <1>1, ConstantsAssumption, FS_Interval, SumOfZeros DEF Questions, Emptied

\* For any players, questions and handlers, and whatever fails, no score holds points
\* that no answer of the player was awarded, however answers, deletion and failures
\* interleave.
THEOREM NothingUnearned == Spec => []ScoreNeverAhead
<1>1. TypeOK /\ TallyInv => ScoreNeverAhead
  <2> SUFFICES ASSUME TypeOK, TallyInv, NEW p \in Players
               PROVE  score[p] <= SumFunction(PointsOf(p))
    BY DEF ScoreNeverAhead
  <2>1. CASE status = "deleted"
    BY <2>1, EmptySums DEF TallyInv
  <2>2. CASE status # "deleted"
    <3>1. AwardsHeld /\ Tallied(p)
      BY <2>2 DEF TallyInv
    <3>2. SumFunction(PointsOf(p)) \in Nat /\ SumFunction(Unadded(p)) \in Nat /\ score[p] \in Nat
      BY <3>1, SumTypes DEF TypeOK
    <3>3. QED
      BY <3>1, <3>2 DEF Tallied
  <2>3. QED
    BY <2>1, <2>2
<1>2. QED
  BY <1>1, AlwaysTallyInv, PTL

\* If no handler dies, every score is the sum of the player's answers as soon as none
\* of them is being added, also when Redis fails and when answers overlap.
THEOREM ScoresAddUp ==
  ASSUME Lossless
  PROVE  Spec => []ScoreMatchesAnswers
<1>1. TypeOK /\ TallyInv => ScoreMatchesAnswers
  <2> SUFFICES ASSUME TypeOK, TallyInv, NEW p \in Players,
                      ~\E t \in PlayerTasks : task[t].at = "add_score" /\ task[t].player = p
               PROVE  score[p] = SumFunction(PointsOf(p))
    BY DEF ScoreMatchesAnswers
  <2>1. CASE status = "deleted"
    BY <2>1, EmptySums DEF TallyInv
  <2>2. CASE status # "deleted"
    <3>1. AwardsHeld /\ Tallied(p)
      BY <2>2 DEF TallyInv
    <3>2. SumFunction(Unadded(p)) = 0
      BY NothingWaiting DEF Waiting
    <3>3. score[p] \in Nat /\ SumFunction(PointsOf(p)) \in Nat
      BY <3>1, SumTypes DEF TypeOK
    <3>4. QED
      BY <3>1, <3>2, <3>3 DEF Tallied
  <2>3. QED
    BY <2>1, <2>2
<1>2. QED
  BY <1>1, AlwaysTallyInv, PTL
=============================================================================

-------------------------- MODULE ExamAttemptsProofs --------------------------
(***************************************************************************)
(* Theorems about ExamAttempts, for every value of its constants.          *)
(***************************************************************************)
EXTENDS ExamAttempts, FiniteSetTheorems, TLAPS

-----------------------------------------------------------------------------
(* What the place a request has reached says about the rest of its state.  *)

\* A request waiting at a statement carries the locals that statement uses.
LEMMA RequestShape ==
  ASSUME NEW x \in RequestStates
  PROVE  /\ x.at \in {"find_existing", "list_assignments", "count_attempts"}
              => x \in StartStates
         /\ x.at = "insert_attempt" => x \in InsertStates
         /\ x.at = "read_answers" => x \in ReadStates
         /\ x.at = "grade_answers" => x \in GradeStates
         /\ x.at = "write_answer" => x \in SaveStates
         /\ x.at \in {"lock", "log_lock", "unlock", "log_unlock"} => x \in LockStates
         /\ x.at = "write_grade" => x \in AwardStates
         /\ x.at = "sum_points" => x \in SumStates
         /\ x.at = "write_total" => x \in TotalStates
BY DEF RequestStates, Continuations, Idle, StartStates, InsertStates, ReadStates,
       GradeStates, SaveStates, LockStates, AwardStates, SumStates, TotalStates

\* Moving one request on leaves a well-formed set of requests.
LEMMA ContinueType ==
  ASSUME req \in [Requests -> RequestStates], NEW r \in Requests,
         NEW x \in RequestStates, Continue(r, x)
  PROVE  req' \in [Requests -> RequestStates]
BY DEF Continue

LEMMA CountType ==
  ASSUME NEW s
  PROVE  Cardinality(AttemptsOf(s)) \in Nat
<1>1. AttemptsOf(s) \subseteq Attempts
  BY DEF AttemptsOf
<1>2. QED
  BY <1>1, ConstantsAssumption, FS_Subset, FS_CardinalityType

-----------------------------------------------------------------------------
(* Type correctness.                                                       *)

LEMMA InitTypeOK == Init => TypeOK
BY ConstantsAssumption
   DEF Init, TypeOK, Contents, Verdicts, RequestStates, Continuations

\* What grading a question may give is a whole number of points and a flag.
LEMMA MarksType ==
  ASSUME NEW q \in Questions, NEW c, NEW m \in Marks(q, c)
  PROVE  m.points \in Nat /\ m.review \in BOOLEAN
<1>1. Points[q] \in Nat
  BY ConstantsAssumption
<1>2. QED
  BY <1>1 DEF Marks

LEMMA StepTypeOK ==
  ASSUME TypeOK, NEW r \in Requests, Step(r)
  PROVE  TypeOK'
<1>0. req[r] \in RequestStates /\ Idle \in RequestStates
  BY DEF TypeOK, RequestStates, Continuations
<1>1. CASE FindExisting(r)
  <2>1. req[r] \in StartStates
    BY <1>0, <1>1, RequestShape DEF FindExisting
  <2>2. Starting("list_assignments", req[r].student, req[r].sawPublished)
          \in Continuations \intersect StartStates
    BY <2>1 DEF StartStates, Starting, Continuations
  <2>3. \A a \in Attempts :
          Finalize(a, "auto_submitted",
                   Starting("list_assignments", req[r].student, req[r].sawPublished))
            \in RequestStates
    BY <2>2 DEF Finalize, ReadStates, RequestStates, Verdicts
  <2>4. req' \in [Requests -> RequestStates]
    BY <1>0, <1>1, <2>2, <2>3
       DEF FindExisting, Continue, TypeOK, InProgress, AttemptsOf, RequestStates
  <2>5. QED
    BY <1>1, <2>4
       DEF FindExisting, UnchangedTables, quizVars, attemptVars, rowVars, gradeVars,
           answerVars, TypeOK
<1>2. CASE ListAssignments(r)
  <2>1. req[r] \in StartStates
    BY <1>0, <1>2, RequestShape DEF ListAssignments
  <2>2. Starting("count_attempts", req[r].student, TRUE) \in RequestStates
    BY <2>1 DEF StartStates, Starting, RequestStates, Continuations
  <2>3. req' \in [Requests -> RequestStates]
    BY <1>0, <1>2, <2>2 DEF ListAssignments, Continue, TypeOK
  <2>4. QED
    BY <1>2, <2>3
       DEF ListAssignments, UnchangedTables, quizVars, attemptVars, rowVars, gradeVars,
           answerVars, TypeOK
<1>3. CASE CountAttempts(r)
  <2>1. req[r] \in StartStates
    BY <1>0, <1>3, RequestShape DEF CountAttempts
  <2>2. Cardinality(AttemptsOf(req[r].student)) \in Nat
    BY CountType
  <2>3. [at |-> "insert_attempt", student |-> req[r].student,
         count |-> Cardinality(AttemptsOf(req[r].student))] \in RequestStates
    BY <2>1, <2>2 DEF StartStates, InsertStates, RequestStates
  <2>4. req' \in [Requests -> RequestStates]
    BY <1>0, <1>3, <2>3 DEF CountAttempts, Continue, TypeOK
  <2>5. QED
    BY <1>3, <2>4
       DEF CountAttempts, UnchangedTables, quizVars, attemptVars, rowVars, gradeVars,
           answerVars, TypeOK
<1>4. CASE InsertAttempt(r)
  <2>1. req[r] \in InsertStates
    BY <1>0, <1>4, RequestShape DEF InsertAttempt
  <2>2. req[r].student \in Students /\ req[r].count + 1 \in Nat
    BY <2>1 DEF InsertStates
  <2>3. \A S \in Snapshots : S \in SUBSET Questions
    BY DEF Snapshots
  <2>4. /\ status' \in [Attempts -> {"none", "in_progress"} \union Verdicts]
        /\ student' \in [Attempts -> Students \union {Null}]
        /\ number' \in [Attempts -> Nat]
        /\ snapshot' \in [Attempts -> SUBSET Questions]
    <3>1. CASE UniqueIndexAdmits(req[r].student)
      <4>1. PICK a \in Attempts, S \in Snapshots :
              /\ status' = [status EXCEPT ![a] = "in_progress"]
              /\ student' = [student EXCEPT ![a] = req[r].student]
              /\ number' = [number EXCEPT ![a] = req[r].count + 1]
              /\ snapshot' = [snapshot EXCEPT ![a] = S]
        BY <1>4, <3>1 DEF InsertAttempt
      <4>2. status' \in [Attempts -> {"none", "in_progress"} \union Verdicts]
        BY <4>1 DEF TypeOK
      <4>3. student' \in [Attempts -> Students \union {Null}]
        BY <4>1, <2>2 DEF TypeOK
      <4>4. number' \in [Attempts -> Nat]
        BY <4>1, <2>2 DEF TypeOK
      <4>5. snapshot' \in [Attempts -> SUBSET Questions]
        BY <4>1, <2>3 DEF TypeOK
      <4>6. QED
        BY <4>2, <4>3, <4>4, <4>5
    <3>2. CASE ~UniqueIndexAdmits(req[r].student)
      BY <1>4, <3>2 DEF InsertAttempt, rowVars, TypeOK
    <3>3. QED
      BY <3>1, <3>2
  <2>5. req' \in [Requests -> RequestStates]
    BY <1>0, <1>4 DEF InsertAttempt, Continue, TypeOK
  <2>6. QED
    BY <1>4, <2>4, <2>5 DEF InsertAttempt, quizVars, gradeVars, answerVars, TypeOK
<1>5. CASE WriteAnswer(r)
  <2>1. req[r] \in SaveStates
    BY <1>0, <1>5, RequestShape DEF WriteAnswer
  <2>2. content' \in [Attempts -> [Questions -> Contents]]
    BY <1>5, <2>1 DEF WriteAnswer, SaveStates, TypeOK
  <2>3. req' \in [Requests -> RequestStates]
    BY <1>0, <1>5 DEF WriteAnswer, Continue, TypeOK
  <2>4. QED
    BY <1>5, <2>2, <2>3
       DEF WriteAnswer, quizVars, attemptVars, rowVars, gradeVars, TypeOK
<1>6. CASE LockAttempt(r) \/ LogLock(r) \/ ClearLock(r) \/ LogUnlock(r)
  <2>1. req[r] \in LockStates
    BY <1>0, <1>6, RequestShape DEF LockAttempt, LogLock, ClearLock, LogUnlock
  <2>2. /\ LockStep("log_lock", req[r].attempt) \in RequestStates
        /\ LockStep("log_unlock", req[r].attempt) \in RequestStates
    BY <2>1 DEF LockStates, LockStep, RequestStates
  <2>3. req' \in [Requests -> RequestStates]
    BY <1>0, <1>6, <2>2 DEF LockAttempt, LogLock, ClearLock, LogUnlock, Continue, TypeOK
  <2>4. locked' \in [Attempts -> BOOLEAN]
    BY <1>6, <2>1
       DEF LockAttempt, LogLock, ClearLock, LogUnlock, LockStates, attemptVars, TypeOK
  <2>5. lockEvents' \in [Attempts -> {"none", "locked", "unlocked"}]
    BY <1>6, <2>1 DEF LockAttempt, LogLock, ClearLock, LogUnlock, LockStates, TypeOK
  <2>6. QED
    BY <1>6, <2>3, <2>4, <2>5
       DEF LockAttempt, LogLock, ClearLock, LogUnlock, quizVars, attemptVars, rowVars,
           gradeVars, answerVars, TypeOK
<1>7. CASE ReadAnswers(r)
  <2>1. req[r] \in ReadStates
    BY <1>0, <1>7, RequestShape DEF ReadAnswers
  <2>2. ToGrade(r, content[req[r].attempt], snapshot[req[r].attempt], [q \in Questions |-> 0])
          \in RequestStates
    BY <2>1 DEF ReadStates, TypeOK, ToGrade, GradeStates, RequestStates
  <2>3. req' \in [Requests -> RequestStates]
    BY <1>7, <2>2 DEF ReadAnswers, Continue, TypeOK
  <2>4. QED
    BY <1>7, <2>3
       DEF ReadAnswers, UnchangedTables, quizVars, attemptVars, rowVars, gradeVars,
           answerVars, TypeOK
<1>8. CASE \E q \in Questions : GradeQuestion(r, q)
  <2>1. PICK q \in Questions : GradeQuestion(r, q)
    BY <1>8
  <2>2. req[r] \in GradeStates
    BY <1>0, <2>1, RequestShape DEF GradeQuestion
  <2>3. PICK m \in Marks(q, req[r].seen[q]) :
          /\ content' = [content EXCEPT ![req[r].attempt][q] = Upserted(@, req[r].seen[q])]
          /\ points' = [points EXCEPT ![req[r].attempt][q] = m.points]
          /\ review' = [review EXCEPT ![req[r].attempt][q] = m.review]
          /\ Continue(r, ToGrade(r, req[r].seen, req[r].todo \ {q},
                                 [req[r].score EXCEPT ![q] = m.points]))
    BY <2>1 DEF GradeQuestion
  <2>4. /\ req[r].seen[q] \in Contents /\ req[r].attempt \in Attempts
        /\ req[r].score \in [Questions -> Nat]
    BY <2>2 DEF GradeStates
  <2>5. m.points \in Nat /\ m.review \in BOOLEAN
    BY MarksType
  <2>6. content' \in [Attempts -> [Questions -> Contents]]
    BY <2>3, <2>4 DEF TypeOK, Upserted, Contents
  <2>7. /\ points' \in [Attempts -> [Questions -> Nat \union {Null}]]
        /\ review' \in [Attempts -> [Questions -> BOOLEAN]]
    BY <2>3, <2>4, <2>5 DEF TypeOK
  <2>8. ToGrade(r, req[r].seen, req[r].todo \ {q}, [req[r].score EXCEPT ![q] = m.points])
          \in RequestStates
    BY <2>2, <2>4, <2>5 DEF GradeStates, ToGrade, RequestStates
  <2>9. req' \in [Requests -> RequestStates]
    BY <2>3, <2>8 DEF Continue, TypeOK
  <2>10. QED
    BY <2>1, <2>6, <2>7, <2>9
       DEF GradeQuestion, quizVars, attemptVars, rowVars, gradeVars, TypeOK
<1>9. CASE CloseAttempt(r)
  <2>1. req[r] \in GradeStates
    BY <1>0, <1>9, RequestShape DEF CloseAttempt
  <2>2. /\ status' \in [Attempts -> {"none", "in_progress"} \union Verdicts]
        /\ score' \in [Attempts -> [Questions -> Nat] \union {Null}]
        /\ maxScore' \in [Attempts -> (SUBSET Questions) \union {Null}]
    BY <1>9, <2>1 DEF CloseAttempt, GradeStates, TypeOK
  <2>3. Passes(req[r].score, snapshot[req[r].attempt]) \in BOOLEAN
    BY DEF Passes
  <2>4. passed' \in [Attempts -> BOOLEAN \union {Null}]
    BY <1>9, <2>3 DEF CloseAttempt, TypeOK
  <2>5. req[r].then \in RequestStates
    BY <2>1 DEF GradeStates, RequestStates
  <2>6. req' \in [Requests -> RequestStates]
    BY <1>9, <2>5 DEF CloseAttempt, Continue, TypeOK
  <2>7. QED
    BY <1>9, <2>2, <2>4, <2>6 DEF CloseAttempt, quizVars, rowVars, answerVars, TypeOK
<1>10. CASE WriteGrade(r)
  <2>1. req[r] \in AwardStates
    BY <1>0, <1>10, RequestShape DEF WriteGrade
  <2>2. /\ content' \in [Attempts -> [Questions -> Contents]]
        /\ points' \in [Attempts -> [Questions -> Nat \union {Null}]]
        /\ review' \in [Attempts -> [Questions -> BOOLEAN]]
        /\ teacher' \in [Attempts -> [Questions -> BOOLEAN]]
    <3>1. CASE content[req[r].attempt][req[r].question] = "none"
      BY <1>10, <3>1 DEF WriteGrade, answerVars, TypeOK
    <3>2. CASE content[req[r].attempt][req[r].question] # "none"
      <4>1. /\ content' = content
            /\ points' = [points EXCEPT ![req[r].attempt][req[r].question] = req[r].award]
            /\ review' = [review EXCEPT ![req[r].attempt][req[r].question] = FALSE]
            /\ teacher' = [teacher EXCEPT ![req[r].attempt][req[r].question] = TRUE]
        BY <1>10, <3>2 DEF WriteGrade
      <4>2. req[r].award \in Nat
        BY <2>1 DEF AwardStates
      <4>3. QED
        BY <4>1, <4>2 DEF TypeOK
    <3>3. QED
      BY <3>1, <3>2
  <2>3. [at |-> "sum_points", attempt |-> req[r].attempt, maxScore |-> req[r].maxScore]
          \in RequestStates
    BY <2>1 DEF AwardStates, SumStates, RequestStates
  <2>4. req' \in [Requests -> RequestStates]
    BY <1>0, <1>10, <2>3 DEF WriteGrade, Continue, TypeOK
  <2>5. QED
    BY <1>10, <2>2, <2>4
       DEF WriteGrade, quizVars, attemptVars, rowVars, gradeVars, TypeOK
<1>11. CASE SumPoints(r)
  <2>1. req[r] \in SumStates
    BY <1>0, <1>11, RequestShape DEF SumPoints
  <2>2. PointsOf(req[r].attempt) \in [Questions -> Nat]
    BY <2>1 DEF SumStates, PointsOf, Graded, TypeOK
  <2>3. [at |-> "write_total", attempt |-> req[r].attempt, maxScore |-> req[r].maxScore,
         score |-> PointsOf(req[r].attempt)] \in RequestStates
    BY <2>1, <2>2 DEF SumStates, TotalStates, RequestStates
  <2>4. req' \in [Requests -> RequestStates]
    BY <1>11, <2>3 DEF SumPoints, Continue, TypeOK
  <2>5. QED
    BY <1>11, <2>4
       DEF SumPoints, UnchangedTables, quizVars, attemptVars, rowVars, gradeVars,
           answerVars, TypeOK
<1>12. CASE WriteTotal(r)
  <2>1. req[r] \in TotalStates
    BY <1>0, <1>12, RequestShape DEF WriteTotal
  <2>2. score' \in [Attempts -> [Questions -> Nat] \union {Null}]
    BY <1>12, <2>1 DEF WriteTotal, TotalStates, TypeOK
  <2>3. Passes(req[r].score, req[r].maxScore) \in BOOLEAN
    BY DEF Passes
  <2>4. passed' \in [Attempts -> BOOLEAN \union {Null}]
    BY <1>12, <2>3 DEF WriteTotal, TypeOK
  <2>5. req' \in [Requests -> RequestStates]
    BY <1>0, <1>12 DEF WriteTotal, Continue, TypeOK
  <2>6. QED
    BY <1>12, <2>2, <2>4, <2>5 DEF WriteTotal, quizVars, rowVars, answerVars, TypeOK
<1>13. QED
  BY <1>1, <1>2, <1>3, <1>4, <1>5, <1>6, <1>7, <1>8, <1>9, <1>10, <1>11, <1>12 DEF Step

\* A new request reads, remembers and writes nothing.
LEMMA NewRequestTypeOK ==
  ASSUME TypeOK, NEW r \in Requests, NewRequest(r)
  PROVE  TypeOK'
<1>1. UnchangedTables
  BY DEF NewRequest, StartAttempt, SaveAnswer, GradeAnswer, RecordViolation, UnlockAttempt,
         SubmitAttempt
<1>2. \A a \in Attempts :
        /\ Finalize(a, "auto_submitted", Idle) \in RequestStates
        /\ Finalize(a, "submitted", Idle) \in RequestStates
        /\ LockStep("lock", a) \in RequestStates
        /\ LockStep("unlock", a) \in RequestStates
  BY DEF Finalize, LockStep, ReadStates, LockStates, Continuations, Verdicts, RequestStates
<1>3. \E x \in RequestStates : Continue(r, x)
  <2>1. ASSUME NEW s \in Students, StartAttempt(r, s)
        PROVE  \E x \in RequestStates : Continue(r, x)
    <3>1. Starting("find_existing", s, published) \in RequestStates
      BY DEF TypeOK, Starting, StartStates, Continuations, RequestStates
    <3>2. QED
      BY <2>1, <3>1 DEF StartAttempt
  <2>2. ASSUME NEW a \in Attempts, NEW q \in Questions, NEW c \in Drafts,
               SaveAnswer(r, a, q, c)
        PROVE  \E x \in RequestStates : Continue(r, x)
    <3>1. [at |-> "write_answer", attempt |-> a, question |-> q, draft |-> c] \in RequestStates
      BY ConstantsAssumption DEF SaveStates, RequestStates
    <3>2. QED
      BY <1>2, <2>2, <3>1 DEF SaveAnswer, RequireActive
  <2>3. ASSUME NEW a \in Attempts, NEW q \in Questions, NEW p \in Awards,
               GradeAnswer(r, a, q, p)
        PROVE  \E x \in RequestStates : Continue(r, x)
    <3>1. Award(q, p) \in Nat
      BY ConstantsAssumption DEF Award
    <3>2. [at |-> "write_grade", attempt |-> a, question |-> q, award |-> Award(q, p),
           maxScore |-> maxScore[a]] \in RequestStates
      BY <3>1 DEF TypeOK, AwardStates, RequestStates
    <3>3. QED
      BY <2>3, <3>2 DEF GradeAnswer
  <2>4. ASSUME NEW a \in Attempts,
               RecordViolation(r, a) \/ UnlockAttempt(r, a) \/ SubmitAttempt(r, a)
        PROVE  \E x \in RequestStates : Continue(r, x)
    BY <1>2, <2>4 DEF RecordViolation, UnlockAttempt, SubmitAttempt, SubmitVerdict, RequireActive
  <2>5. QED
    BY <2>1, <2>2, <2>3, <2>4 DEF NewRequest
<1>4. req' \in [Requests -> RequestStates]
  BY <1>3 DEF Continue, TypeOK
<1>5. QED
  BY <1>1, <1>4
     DEF UnchangedTables, quizVars, attemptVars, rowVars, gradeVars, answerVars, TypeOK

LEMMA NextTypeOK ==
  ASSUME TypeOK, [Next]_vars
  PROVE  TypeOK'
<1>1. ASSUME NEW r \in Requests, FailRequest(r)
      PROVE  TypeOK'
  <2>1. req' \in [Requests -> RequestStates]
    BY <1>1 DEF FailRequest, Continue, TypeOK, RequestStates, Continuations
  <2>2. QED
    BY <1>1, <2>1
       DEF FailRequest, UnchangedTables, quizVars, attemptVars, rowVars, gradeVars,
           answerVars, TypeOK
<1>2. ASSUME NEW a \in Attempts, DeadlinePasses(a)
      PROVE  TypeOK'
  <2>1. expired' \in [Attempts -> BOOLEAN]
    BY <1>2 DEF DeadlinePasses, TypeOK
  <2>2. QED
    BY <1>2, <2>1 DEF DeadlinePasses, quizVars, rowVars, gradeVars, answerVars, TypeOK
<1>3. ASSUME NEW b \in BOOLEAN, SetPublished(b)
      PROVE  TypeOK'
  BY <1>3 DEF SetPublished, attemptVars, rowVars, gradeVars, answerVars, TypeOK
<1>4. ASSUME NEW s \in Students, SetAssigned(s)
      PROVE  TypeOK'
  <2>1. assigned' \subseteq Students
    BY <1>4 DEF SetAssigned, TypeOK
  <2>2. QED
    BY <1>4, <2>1 DEF SetAssigned, attemptVars, rowVars, gradeVars, answerVars, TypeOK
<1>5. CASE UNCHANGED vars
  BY <1>5 DEF vars, quizVars, attemptVars, rowVars, gradeVars, answerVars, TypeOK
<1>6. QED
  BY <1>1, <1>2, <1>3, <1>4, <1>5, StepTypeOK, NewRequestTypeOK DEF Next, AnswerWithoutChange

\* In every reachable state the tables and the requests under way have the shape
\* the schema and the handlers give them (all of src/backend/attempts, answers
\* and monitoring that writes an attempt).
THEOREM TypeCorrect == Spec => []TypeOK
<1>1. Init => TypeOK
  BY InitTypeOK
<1>2. TypeOK /\ [Next]_vars => TypeOK'
  BY NextTypeOK
<1>3. QED
  BY <1>1, <1>2, PTL DEF Spec

-----------------------------------------------------------------------------
(***************************************************************************)
(* The inductive invariant: besides the properties themselves, what a      *)
(* request under way may still rely on of what it read earlier.            *)
(***************************************************************************)

\* Rows exist only where startAttempt and the upserts put them.
RowsFit ==
  \A a \in Attempts :
    /\ status[a] = "none" => snapshot[a] = {}
    /\ \A q \in Questions :
         /\ content[a][q] # "none" => q \in snapshot[a]
         /\ Graded(a, q) => content[a][q] # "none"

\* A finalizeAttempt closes an attempt that exists, calls it auto_submitted only
\* after the deadline, and has graded the questions that are no longer to do.
ClosingFits(r) ==
  Closing(r) =>
    LET a == req[r].attempt
    IN  /\ status[a] # "none"
        /\ req[r].verdict = "auto_submitted" => expired[a]
        /\ req[r].at = "grade_answers" =>
             /\ req[r].todo \subseteq snapshot[a]
             /\ \A q \in snapshot[a] \ req[r].todo : Graded(a, q)
             /\ \A q \in Questions : req[r].seen[q] # "none" => content[a][q] # "none"

\* A save under way is for a question of the attempt.
SavingFits(r) ==
  Writing(r) => req[r].question \in snapshot[req[r].attempt]

RequestsFit == \A r \in Requests : ClosingFits(r) /\ SavingFits(r)

IInv ==
  /\ TypeOK
  /\ RowsFit
  /\ RequestsFit
  /\ GradedWhenFinished
  /\ AutoOnlyAfterDeadline

-----------------------------------------------------------------------------
(* Which actions write which columns.                                      *)

LEMMA NewRequestWritesNothing ==
  ASSUME NEW r \in Requests, NewRequest(r) \/ FailRequest(r)
  PROVE  UnchangedTables
BY DEF NewRequest, StartAttempt, SaveAnswer, GradeAnswer, RecordViolation, UnlockAttempt,
       SubmitAttempt, FailRequest

LEMMA RowWriters ==
  ASSUME [Next]_vars
  PROVE  \/ UNCHANGED <<status, student, snapshot>>
         \/ \E r \in Requests : InsertAttempt(r) \/ CloseAttempt(r)
<1>1. ASSUME NEW r \in Requests, Step(r)
      PROVE  \/ UNCHANGED <<status, student, snapshot>>
             \/ InsertAttempt(r) \/ CloseAttempt(r)
  BY <1>1 DEF Step, FindExisting, ListAssignments, CountAttempts, WriteAnswer, LockAttempt,
     LogLock, ClearLock, LogUnlock, ReadAnswers, GradeQuestion, WriteGrade, SumPoints,
     WriteTotal, UnchangedTables, attemptVars, rowVars
<1>2. QED
  BY <1>1, NewRequestWritesNothing
     DEF Next, UnchangedTables, attemptVars, rowVars, DeadlinePasses, SetPublished,
         SetAssigned, AnswerWithoutChange, vars

LEMMA AnswerWriters ==
  ASSUME [Next]_vars
  PROVE  \/ UNCHANGED <<content, points>>
         \/ \E r \in Requests : \/ WriteAnswer(r) \/ WriteGrade(r)
                               \/ \E q \in Questions : GradeQuestion(r, q)
<1>1. ASSUME NEW r \in Requests, Step(r)
      PROVE  \/ UNCHANGED <<content, points>>
             \/ WriteAnswer(r) \/ WriteGrade(r) \/ \E q \in Questions : GradeQuestion(r, q)
  BY <1>1 DEF Step, FindExisting, ListAssignments, CountAttempts, InsertAttempt, LockAttempt,
     LogLock, ClearLock, LogUnlock, ReadAnswers, CloseAttempt, SumPoints, WriteTotal,
     UnchangedTables, answerVars
<1>2. QED
  BY <1>1, NewRequestWritesNothing
     DEF Next, UnchangedTables, answerVars, DeadlinePasses, SetPublished, SetAssigned,
         AnswerWithoutChange, vars

LEMMA TotalWriters ==
  ASSUME [Next]_vars
  PROVE  \/ UNCHANGED <<score, maxScore>>
         \/ \E r \in Requests : CloseAttempt(r) \/ WriteTotal(r)
<1>1. ASSUME NEW r \in Requests, Step(r)
      PROVE  UNCHANGED <<score, maxScore>> \/ CloseAttempt(r) \/ WriteTotal(r)
  BY <1>1 DEF Step, FindExisting, ListAssignments, CountAttempts, InsertAttempt, WriteAnswer,
     LockAttempt, LogLock, ClearLock, LogUnlock, ReadAnswers, GradeQuestion, WriteGrade,
     SumPoints, UnchangedTables, attemptVars, gradeVars
<1>2. QED
  BY <1>1, NewRequestWritesNothing
     DEF Next, UnchangedTables, attemptVars, gradeVars, DeadlinePasses, SetPublished,
         SetAssigned, AnswerWithoutChange, vars

LEMMA DeadlineWriters ==
  ASSUME [Next]_vars
  PROVE  UNCHANGED expired \/ \E a \in Attempts : DeadlinePasses(a)
<1>1. ASSUME NEW r \in Requests, Step(r)
      PROVE  UNCHANGED expired
  BY <1>1 DEF Step, FindExisting, ListAssignments, CountAttempts, InsertAttempt, WriteAnswer,
     LockAttempt, LogLock, ClearLock, LogUnlock, ReadAnswers, GradeQuestion, CloseAttempt,
     WriteGrade, SumPoints, WriteTotal, UnchangedTables, attemptVars
<1>2. QED
  BY <1>1, NewRequestWritesNothing
     DEF Next, UnchangedTables, attemptVars, SetPublished, SetAssigned, AnswerWithoutChange,
         vars

-----------------------------------------------------------------------------
(* What each writer does, in the terms the invariant uses.                 *)

LEMMA InsertEffect ==
  ASSUME TypeOK, NEW r \in Requests, InsertAttempt(r)
  PROVE  \/ UNCHANGED <<status, student, snapshot>>
         \/ \E a \in Attempts, s \in Students, S \in SUBSET Questions :
              /\ status[a] = "none" /\ InProgress(s) = {}
              /\ status' = [status EXCEPT ![a] = "in_progress"]
              /\ student' = [student EXCEPT ![a] = s]
              /\ snapshot' = [snapshot EXCEPT ![a] = S]
<1>1. req[r] \in InsertStates
  BY RequestShape DEF TypeOK, InsertAttempt
<1>2. req[r].student \in Students
  BY <1>1 DEF InsertStates
<1>3. Snapshots \subseteq SUBSET Questions
  BY DEF Snapshots
<1>4. CASE UniqueIndexAdmits(req[r].student)
  <2>1. PICK a \in Attempts, S \in Snapshots :
          /\ status[a] = "none"
          /\ status' = [status EXCEPT ![a] = "in_progress"]
          /\ student' = [student EXCEPT ![a] = req[r].student]
          /\ snapshot' = [snapshot EXCEPT ![a] = S]
    BY <1>4 DEF InsertAttempt
  <2>2. InProgress(req[r].student) = {}
    BY <1>4 DEF UniqueIndexAdmits
  <2>3. QED
    BY <1>2, <1>3, <2>1, <2>2
<1>5. CASE ~UniqueIndexAdmits(req[r].student)
  BY <1>5 DEF InsertAttempt, rowVars
<1>6. QED
  BY <1>4, <1>5

LEMMA CloseEffect ==
  ASSUME TypeOK, NEW r \in Requests, CloseAttempt(r)
  PROVE  LET a == req[r].attempt
         IN  /\ a \in Attempts /\ req[r].verdict \in Verdicts
             /\ Closing(r) /\ req[r].at = "grade_answers" /\ req[r].todo = {}
             /\ status' = [status EXCEPT ![a] = req[r].verdict]
             /\ UNCHANGED <<student, snapshot, content, points, expired, locked>>
             /\ req[r].then \in Continuations
             /\ req' = [req EXCEPT ![r] = req[r].then]
<1>1. req[r] \in GradeStates
  BY RequestShape DEF TypeOK, CloseAttempt
<1>2. /\ req[r].attempt \in Attempts /\ req[r].verdict \in Verdicts
      /\ req[r].then \in Continuations
  BY <1>1 DEF GradeStates
<1>3. QED
  BY <1>2 DEF CloseAttempt, Closing, Continue, rowVars, answerVars

\* The total finalizeAttempt writes.
LEMMA CloseWrites ==
  ASSUME TypeOK, NEW r \in Requests, CloseAttempt(r)
  PROVE  \E a \in Attempts, t \in [Questions -> Nat] :
           /\ a = req[r].attempt
           /\ score' = [score EXCEPT ![a] = t]
           /\ maxScore' = [maxScore EXCEPT ![a] = snapshot[a]]
           /\ snapshot' = snapshot
<1>1. PICK a \in Attempts : a = req[r].attempt
  BY CloseEffect
<1>2. PICK t \in [Questions -> Nat] : t = req[r].score
  BY RequestShape DEF TypeOK, CloseAttempt, GradeStates
<1>3. QED
  BY <1>1, <1>2 DEF CloseAttempt, rowVars

LEMMA GradeEffect ==
  ASSUME TypeOK, NEW r \in Requests, NEW q \in Questions, GradeQuestion(r, q)
  PROVE  /\ req[r].attempt \in Attempts
         /\ Closing(r) /\ req[r].at = "grade_answers"
         /\ q \in req[r].todo
         /\ req[r].seen[q] \in Contents
         /\ content' = [content EXCEPT ![req[r].attempt][q] =
                          Upserted(content[req[r].attempt][q], req[r].seen[q])]
         /\ UNCHANGED <<status, student, snapshot, expired, locked>>
         /\ \E n \in Nat :
              /\ points' = [points EXCEPT ![req[r].attempt][q] = n]
              /\ req' = [req EXCEPT ![r] = ToGrade(r, req[r].seen, req[r].todo \ {q},
                                                  [req[r].score EXCEPT ![q] = n])]
<1>1. req[r] \in GradeStates
  BY RequestShape DEF TypeOK, GradeQuestion
<1>2. req[r].attempt \in Attempts /\ req[r].seen[q] \in Contents
  BY <1>1 DEF GradeStates
<1>3. \A m \in Marks(q, req[r].seen[q]) : m.points \in Nat
  BY MarksType
<1>4. QED
  BY <1>2, <1>3 DEF GradeQuestion, Closing, Continue, attemptVars, rowVars

\* The row gradeAttempt writes for one question.
LEMMA GradeWrites ==
  ASSUME TypeOK, NEW r \in Requests, NEW q \in Questions, GradeQuestion(r, q)
  PROVE  \E a \in Attempts, c \in Contents, n \in Nat :
           /\ a = req[r].attempt
           /\ content' = [content EXCEPT ![a][q] = Upserted(content[a][q], c)]
           /\ points' = [points EXCEPT ![a][q] = n]
<1>1. PICK a \in Attempts : a = req[r].attempt
  BY GradeEffect
<1>2. PICK c \in Contents : c = req[r].seen[q]
  BY GradeEffect
<1>3. PICK n \in Nat :
        /\ points' = [points EXCEPT ![req[r].attempt][q] = n]
        /\ req' = [req EXCEPT ![r] = ToGrade(r, req[r].seen, req[r].todo \ {q},
                                            [req[r].score EXCEPT ![q] = n])]
  BY GradeEffect, Zenon
<1>4. content' = [content EXCEPT ![a][q] = Upserted(content[a][q], c)]
  BY <1>1, <1>2, GradeEffect
<1>5. points' = [points EXCEPT ![a][q] = n]
  BY <1>1, <1>3
<1>6. QED
  BY <1>1, <1>4, <1>5

LEMMA WriteGradeEffect ==
  ASSUME TypeOK, NEW r \in Requests, WriteGrade(r)
  PROVE  /\ UNCHANGED <<status, student, snapshot, content, expired, locked>>
         /\ \/ UNCHANGED points
            \/ \E a \in Attempts, q \in Questions, n \in Nat :
                 /\ content[a][q] # "none"
                 /\ points' = [points EXCEPT ![a][q] = n]
<1>1. req[r] \in AwardStates
  BY RequestShape DEF TypeOK, WriteGrade
<1>2. req[r].attempt \in Attempts /\ req[r].question \in Questions /\ req[r].award \in Nat
  BY <1>1 DEF AwardStates
<1>3. CASE content[req[r].attempt][req[r].question] = "none"
  BY <1>3 DEF WriteGrade, attemptVars, rowVars, answerVars
<1>4. CASE content[req[r].attempt][req[r].question] # "none"
  BY <1>2, <1>4 DEF WriteGrade, attemptVars, rowVars
<1>5. QED
  BY <1>3, <1>4

LEMMA WriteAnswerEffect ==
  ASSUME TypeOK, NEW r \in Requests, WriteAnswer(r)
  PROVE  LET a == req[r].attempt
             q == req[r].question
         IN  /\ a \in Attempts /\ q \in Questions
             /\ Writing(r)
             /\ req[r].draft \in Contents \ {"none"}
             /\ content' = [content EXCEPT ![a][q] = req[r].draft]
             /\ UNCHANGED <<status, student, snapshot, points, expired, locked>>
<1>1. req[r] \in SaveStates
  BY RequestShape DEF TypeOK, WriteAnswer
<1>2. QED
  BY <1>1 DEF SaveStates, WriteAnswer, Writing, attemptVars, rowVars

-----------------------------------------------------------------------------
(* What no step takes back.                                                *)

Kept(a) ==
  /\ status[a] # "none" => /\ status'[a] # "none" /\ UNCHANGED <<student[a], snapshot[a]>>
  /\ Finished(a) => Finished(a)'
  /\ expired[a] => expired'[a]
  /\ \A q \in Questions : /\ content[a][q] # "none" => content'[a][q] # "none"
                          /\ Graded(a, q) => Graded(a, q)'

LEMMA StepKeeps ==
  ASSUME TypeOK, [Next]_vars, NEW a \in Attempts
  PROVE  Kept(a)
<1>1. status[a] # "none" => status'[a] # "none" /\ UNCHANGED <<student[a], snapshot[a]>>
  <2>1. ASSUME NEW r \in Requests, InsertAttempt(r)
        PROVE  status[a] # "none" => status'[a] # "none" /\ UNCHANGED <<student[a], snapshot[a]>>
    BY <2>1, InsertEffect DEF TypeOK
  <2>2. ASSUME NEW r \in Requests, CloseAttempt(r)
        PROVE  status[a] # "none" => status'[a] # "none" /\ UNCHANGED <<student[a], snapshot[a]>>
    BY <2>2, CloseEffect DEF TypeOK, Verdicts
  <2>3. QED
    BY <2>1, <2>2, RowWriters
<1>2. Finished(a) => Finished(a)'
  <2>1. ASSUME NEW r \in Requests, InsertAttempt(r)
        PROVE  Finished(a) => Finished(a)'
    BY <2>1, InsertEffect DEF TypeOK, Finished, Verdicts
  <2>2. ASSUME NEW r \in Requests, CloseAttempt(r)
        PROVE  Finished(a) => Finished(a)'
    BY <2>2, CloseEffect DEF TypeOK, Finished
  <2>3. QED
    BY <2>1, <2>2, RowWriters DEF Finished
<1>3. expired[a] => expired'[a]
  BY DeadlineWriters DEF DeadlinePasses, TypeOK
<1>4. ASSUME NEW q \in Questions
      PROVE  /\ content[a][q] # "none" => content'[a][q] # "none"
             /\ Graded(a, q) => Graded(a, q)'
  <2>1. ASSUME NEW r \in Requests, WriteAnswer(r)
        PROVE  (content[a][q] # "none" => content'[a][q] # "none") /\ UNCHANGED points
    <3>1. PICK b \in Attempts, p \in Questions, c \in Contents \ {"none"} :
            /\ content' = [content EXCEPT ![b][p] = c]
            /\ UNCHANGED points
      BY <2>1, WriteAnswerEffect
    <3>2. QED
      BY <3>1 DEF TypeOK
  <2>2. ASSUME NEW r \in Requests, WriteGrade(r)
        PROVE  UNCHANGED content /\ (Graded(a, q) => Graded(a, q)')
    <3>1. UNCHANGED content
      BY <2>2, WriteGradeEffect
    <3>2. CASE UNCHANGED points
      BY <3>1, <3>2 DEF Graded
    <3>3. CASE \E b \in Attempts, p \in Questions, n \in Nat :
                 points' = [points EXCEPT ![b][p] = n]
      BY <3>1, <3>3, ConstantsAssumption DEF TypeOK, Graded
    <3>4. QED
      BY <2>2, <3>2, <3>3, WriteGradeEffect
  <2>3. ASSUME NEW r \in Requests, NEW p \in Questions, GradeQuestion(r, p)
        PROVE  /\ content[a][q] # "none" => content'[a][q] # "none"
               /\ Graded(a, q) => Graded(a, q)'
    <3>1. PICK b \in Attempts, c \in Contents, n \in Nat :
            /\ content' = [content EXCEPT ![b][p] = Upserted(content[b][p], c)]
            /\ points' = [points EXCEPT ![b][p] = n]
      BY <2>3, GradeWrites
    <3>2. content[a][q] # "none" => Upserted(content[a][q], c) # "none"
      BY DEF Upserted
    <3>3. content[a][q] # "none" => content'[a][q] # "none"
      BY <3>1, <3>2 DEF TypeOK
    <3>4. Graded(a, q) => Graded(a, q)'
      BY <3>1, ConstantsAssumption DEF TypeOK, Graded
    <3>5. QED
      BY <3>3, <3>4
  <2>4. QED
    BY <2>1, <2>2, <2>3, AnswerWriters DEF Graded
<1>5. QED
  BY <1>1, <1>2, <1>3, <1>4 DEF Kept

-----------------------------------------------------------------------------
(* What the requests under way rely on stays true.                         *)

\* A request changes its own state only.
LEMMA MovesOnlyItself ==
  ASSUME TypeOK, NEW r \in Requests, Step(r) \/ NewRequest(r) \/ FailRequest(r),
         NEW r2 \in Requests \ {r}
  PROVE  req'[r2] = req[r2]
<1>1. CASE FindExisting(r) \/ ListAssignments(r) \/ CountAttempts(r) \/ InsertAttempt(r)
           \/ WriteAnswer(r)
  BY <1>1 DEF TypeOK, FindExisting, ListAssignments, CountAttempts, InsertAttempt,
     WriteAnswer, Continue
<1>2. CASE LockAttempt(r) \/ LogLock(r) \/ ClearLock(r) \/ LogUnlock(r)
  BY <1>2 DEF TypeOK, LockAttempt, LogLock, ClearLock, LogUnlock, Continue
<1>3. CASE ReadAnswers(r) \/ (\E q \in Questions : GradeQuestion(r, q)) \/ CloseAttempt(r)
  BY <1>3 DEF TypeOK, ReadAnswers, GradeQuestion, CloseAttempt, Continue
<1>4. CASE WriteGrade(r) \/ SumPoints(r) \/ WriteTotal(r)
  BY <1>4 DEF TypeOK, WriteGrade, SumPoints, WriteTotal, Continue
<1>5. CASE NewRequest(r) \/ FailRequest(r)
  BY <1>5 DEF TypeOK, NewRequest, FailRequest, StartAttempt, SaveAnswer, GradeAnswer,
     RecordViolation, UnlockAttempt, SubmitAttempt, RequireActive, Continue
<1>6. QED
  BY <1>1, <1>2, <1>3, <1>4, <1>5 DEF Step

LEMMA ClosingShape ==
  ASSUME TypeOK, NEW r \in Requests
  PROVE  /\ Closing(r) => req[r].attempt \in Attempts /\ req[r].verdict \in Verdicts
         /\ req[r].at = "grade_answers" =>
              req[r].todo \subseteq Questions /\ req[r].seen \in [Questions -> Contents]
         /\ Writing(r) => req[r].attempt \in Attempts /\ req[r].question \in Questions
<1>1. req[r] \in RequestStates
  BY DEF TypeOK
<1>2. QED
  BY <1>1, RequestShape DEF Closing, Writing, ReadStates, GradeStates, SaveStates

LEMMA WaitingStaysFit ==
  ASSUME IInv, [Next]_vars, NEW r \in Requests, req'[r] = req[r]
  PROVE  ClosingFits(r)' /\ SavingFits(r)'
<1>1. \A a \in Attempts : Kept(a)
  BY StepKeeps DEF IInv
<1>2. ClosingFits(r) /\ SavingFits(r) /\ TypeOK /\ RowsFit
  BY DEF IInv, RequestsFit
<1>3. ClosingFits(r)'
  <2>1. SUFFICES ASSUME Closing(r)
                 PROVE  ClosingFits(r)'
    BY DEF Closing, ClosingFits
  <2> DEFINE a == req[r].attempt
  <2>2. a \in Attempts /\ Kept(a)
    BY <1>1, <1>2, <2>1, ClosingShape
  <2>3. /\ status[a] # "none"
        /\ req[r].verdict = "auto_submitted" => expired[a]
    BY <1>2, <2>1 DEF ClosingFits
  <2>4. /\ status'[a] # "none" /\ snapshot'[a] = snapshot[a]
        /\ req[r].verdict = "auto_submitted" => expired'[a]
    BY <2>2, <2>3 DEF Kept
  <2>5. ASSUME req[r].at = "grade_answers"
        PROVE  /\ req[r].todo \subseteq snapshot'[a]
               /\ \A q \in snapshot'[a] \ req[r].todo : Graded(a, q)'
               /\ \A q \in Questions : req[r].seen[q] # "none" => content'[a][q] # "none"
    <3>1. /\ req[r].todo \subseteq snapshot[a]
          /\ \A q \in snapshot[a] \ req[r].todo : Graded(a, q)
          /\ \A q \in Questions : req[r].seen[q] # "none" => content[a][q] # "none"
      BY <1>2, <2>1, <2>5 DEF ClosingFits
    <3>2. snapshot[a] \subseteq Questions
      BY <1>2, <2>2 DEF TypeOK
    <3>3. QED
      BY <2>2, <2>4, <3>1, <3>2 DEF Kept
  <2>6. QED
    BY <2>4, <2>5 DEF ClosingFits
<1>4. SavingFits(r)'
  <2>1. SUFFICES ASSUME Writing(r)
                 PROVE  req[r].question \in snapshot'[req[r].attempt]
    BY DEF Writing, SavingFits
  <2>2. /\ req[r].attempt \in Attempts
        /\ req[r].question \in snapshot[req[r].attempt]
    BY <1>2, <2>1, ClosingShape DEF SavingFits
  <2>3. status[req[r].attempt] # "none"
    BY <1>2, <2>2 DEF RowsFit
  <2>4. QED
    BY <1>1, <2>2, <2>3 DEF Kept
<1>5. QED
  BY <1>3, <1>4

\* A request that moves to a statement relies on what it has just read.
LEMMA MovingStaysFit ==
  ASSUME IInv, [Next]_vars, NEW r \in Requests, Step(r) \/ NewRequest(r) \/ FailRequest(r)
  PROVE  ClosingFits(r)' /\ SavingFits(r)'
<1>0. TypeOK /\ ClosingFits(r) /\ RowsFit
  BY DEF IInv, RequestsFit
<1>1. ASSUME req'[r].at \notin {"read_answers", "grade_answers", "write_answer"}
      PROVE  ClosingFits(r)' /\ SavingFits(r)'
  BY <1>1 DEF ClosingFits, SavingFits, Closing, Writing
<1>2. ASSUME req'[r] \in Continuations
      PROVE  ClosingFits(r)' /\ SavingFits(r)'
  BY <1>1, <1>2 DEF Continuations, Idle, StartStates
<1>3. ASSUME NEW a \in Attempts, NEW verdict \in Verdicts, NEW then,
             req'[r] = Finalize(a, verdict, then), UnchangedTables,
             status[a] # "none", verdict = "auto_submitted" => expired[a]
      PROVE  ClosingFits(r)' /\ SavingFits(r)'
  BY <1>3 DEF Finalize, ClosingFits, SavingFits, Closing, Writing, UnchangedTables, attemptVars
<1>4. CASE FindExisting(r)
  <2>1. PICK fresh : /\ fresh \in Continuations
                     /\ \/ req'[r] = fresh
                        \/ \E a \in InProgress(req[r].student) :
                             req'[r] = IF expired[a] THEN Finalize(a, "auto_submitted", fresh)
                                                     ELSE Idle
    <3>1. req[r] \in StartStates
      BY <1>0, <1>4, RequestShape DEF FindExisting, TypeOK
    <3>2. Starting("list_assignments", req[r].student, req[r].sawPublished) \in Continuations
      BY <3>1 DEF StartStates, Starting, Continuations
    <3>3. QED
      BY <1>0, <1>4, <3>2 DEF FindExisting, Continue, TypeOK
  <2>2. CASE req'[r] = fresh \/ req'[r] = Idle
    BY <1>2, <2>1, <2>2 DEF Continuations
  <2>3. CASE \E a \in InProgress(req[r].student) :
               expired[a] /\ req'[r] = Finalize(a, "auto_submitted", fresh)
    BY <1>3, <1>4, <2>3 DEF FindExisting, InProgress, AttemptsOf, Verdicts
  <2>4. QED
    BY <2>1, <2>2, <2>3
<1>5. CASE ReadAnswers(r)
  <2> DEFINE a == req[r].attempt
  <2>1. /\ req[r] \in ReadStates /\ Closing(r)
    BY <1>0, <1>5, RequestShape DEF ReadAnswers, TypeOK, Closing
  <2>2. /\ a \in Attempts
        /\ status[a] # "none" /\ (req[r].verdict = "auto_submitted" => expired[a])
    BY <1>0, <2>1 DEF ReadStates, ClosingFits
  <2>3. req'[r] = ToGrade(r, content[a], snapshot[a], [q \in Questions |-> 0])
    BY <1>0, <1>5 DEF ReadAnswers, Continue, TypeOK
  <2>4. UNCHANGED <<status, expired, snapshot, content, points>>
    BY <1>5 DEF ReadAnswers, UnchangedTables, attemptVars, rowVars, answerVars
  <2>5. /\ req'[r].at = "grade_answers" /\ req'[r].attempt = a
        /\ req'[r].verdict = req[r].verdict
        /\ req'[r].todo = snapshot[a] /\ req'[r].seen = content[a]
    BY <2>3 DEF ToGrade
  <2>6. QED
    BY <2>2, <2>4, <2>5 DEF ClosingFits, SavingFits, Closing, Writing
<1>6. ASSUME NEW q \in Questions, GradeQuestion(r, q)
      PROVE  ClosingFits(r)' /\ SavingFits(r)'
  <2>0. PICK a \in Attempts : a = req[r].attempt
    BY <1>0, <1>6, GradeEffect
  <2>1. /\ Closing(r) /\ req[r].at = "grade_answers"
        /\ q \in req[r].todo /\ req[r].seen[q] \in Contents
        /\ content' = [content EXCEPT ![a][q] = Upserted(content[a][q], req[r].seen[q])]
        /\ UNCHANGED <<status, snapshot, expired>>
    BY <1>0, <1>6, <2>0, GradeEffect
  <2>2. PICK n \in Nat :
          /\ points' = [points EXCEPT ![req[r].attempt][q] = n]
          /\ req' = [req EXCEPT ![r] = ToGrade(r, req[r].seen, req[r].todo \ {q},
                                              [req[r].score EXCEPT ![q] = n])]
    BY <1>0, <1>6, GradeEffect, Zenon
  <2>3. /\ req'[r].at = "grade_answers" /\ req'[r].attempt = a
        /\ req'[r].verdict = req[r].verdict
        /\ req'[r].todo = req[r].todo \ {q} /\ req'[r].seen = req[r].seen
    BY <1>0, <2>0, <2>2 DEF ToGrade, TypeOK
  <2>4. /\ status[a] # "none" /\ (req[r].verdict = "auto_submitted" => expired[a])
        /\ req[r].todo \subseteq snapshot[a] /\ snapshot[a] \subseteq Questions
        /\ \A p \in snapshot[a] \ req[r].todo : Graded(a, p)
        /\ \A p \in Questions : req[r].seen[p] # "none" => content[a][p] # "none"
    BY <1>0, <2>0, <2>1 DEF ClosingFits, TypeOK
  <2>5. Kept(a)
    BY <1>0, <2>1, StepKeeps
  <2>6. Graded(a, q)'
    <3>1. points \in [Attempts -> [Questions -> Nat \union {Null}]]
      BY <1>0 DEF TypeOK
    <3>2. points'[a][q] = n
      BY <2>0, <2>2, <3>1
    <3>3. QED
      BY <3>2, ConstantsAssumption DEF Graded
  <2>7. \A p \in snapshot[a] \ (req[r].todo \ {q}) : Graded(a, p)'
    BY <2>4, <2>5, <2>6 DEF Kept
  <2>8. \A p \in Questions : req[r].seen[p] # "none" => content'[a][p] # "none"
    BY <2>4, <2>5 DEF Kept
  <2>9. QED
    BY <2>1, <2>3, <2>4, <2>7, <2>8 DEF ClosingFits, SavingFits, Closing, Writing
<1>7. CASE CloseAttempt(r)
  <2>1. req[r].then \in Continuations /\ req' = [req EXCEPT ![r] = req[r].then]
    BY <1>0, <1>7, CloseEffect
  <2>2. QED
    BY <1>0, <1>2, <2>1 DEF TypeOK
<1>8. CASE \/ ListAssignments(r) \/ CountAttempts(r) \/ InsertAttempt(r) \/ WriteAnswer(r)
           \/ FailRequest(r) \/ \E s \in Students : StartAttempt(r, s)
  BY <1>0, <1>1, <1>8
     DEF TypeOK, Continue, Idle, Starting, ListAssignments, CountAttempts, InsertAttempt,
         WriteAnswer, FailRequest, StartAttempt
<1>9. CASE \/ LockAttempt(r) \/ LogLock(r) \/ ClearLock(r) \/ LogUnlock(r)
           \/ \E a \in Attempts : UnlockAttempt(r, a)
  BY <1>0, <1>1, <1>9
     DEF TypeOK, Continue, Idle, LockStep, LockAttempt, LogLock, ClearLock, LogUnlock,
         UnlockAttempt
<1>10. CASE \/ WriteGrade(r) \/ SumPoints(r) \/ WriteTotal(r)
            \/ \E a \in Attempts, q \in Questions, p \in Awards : GradeAnswer(r, a, q, p)
  BY <1>0, <1>1, <1>10
     DEF TypeOK, Continue, Idle, WriteGrade, SumPoints, WriteTotal, GradeAnswer
<1>11. ASSUME NEW a \in Attempts, NEW state, RequireActive(r, a, state), UnchangedTables
       PROVE  (ClosingFits(r)' /\ SavingFits(r)') \/ req'[r] = state
  BY <1>0, <1>3, <1>11 DEF RequireActive, Continue, TypeOK, Verdicts
<1>12. ASSUME NEW a \in Attempts, NEW q \in Questions, NEW c \in Drafts, SaveAnswer(r, a, q, c)
       PROVE  ClosingFits(r)' /\ SavingFits(r)'
  <2>1. CASE req'[r] = [at |-> "write_answer", attempt |-> a, question |-> q, draft |-> c]
    BY <1>12, <2>1
       DEF SaveAnswer, UnchangedTables, attemptVars, rowVars, ClosingFits, SavingFits, Closing,
           Writing
  <2>2. QED
    BY <1>11, <1>12, <2>1 DEF SaveAnswer
<1>13. ASSUME NEW a \in Attempts, RecordViolation(r, a)
       PROVE  ClosingFits(r)' /\ SavingFits(r)'
  BY <1>1, <1>11, <1>13 DEF RecordViolation, LockStep
<1>14. ASSUME NEW a \in Attempts, SubmitAttempt(r, a)
       PROVE  ClosingFits(r)' /\ SavingFits(r)'
  BY <1>0, <1>3, <1>14
     DEF SubmitAttempt, Answerable, SubmitVerdict, Verdicts, Continue, TypeOK
<1>15. QED
  BY <1>4, <1>5, <1>6, <1>7, <1>8, <1>9, <1>10, <1>12, <1>13, <1>14 DEF Step, NewRequest

LEMMA StepRequestsFit ==
  ASSUME IInv, [Next]_vars
  PROVE  RequestsFit'
<1>1. TypeOK /\ TypeOK'
  BY NextTypeOK DEF IInv
<1>2. SUFFICES ASSUME NEW r \in Requests
               PROVE  ClosingFits(r)' /\ SavingFits(r)'
  BY DEF RequestsFit
<1>3. CASE \E r2 \in Requests : Step(r2) \/ NewRequest(r2) \/ FailRequest(r2)
  <2>1. PICK r2 \in Requests : Step(r2) \/ NewRequest(r2) \/ FailRequest(r2)
    BY <1>3
  <2>2. CASE r2 = r
    BY <2>1, <2>2, MovingStaysFit
  <2>3. CASE r2 # r
    BY <1>1, <2>1, <2>3, MovesOnlyItself, WaitingStaysFit
  <2>4. QED
    BY <2>2, <2>3
<1>4. CASE req' = req
  BY <1>4, WaitingStaysFit
<1>5. QED
  BY <1>3, <1>4 DEF Next, DeadlinePasses, SetPublished, SetAssigned, AnswerWithoutChange, vars

-----------------------------------------------------------------------------
(* The tables.                                                             *)

LEMMA StepRowsFit ==
  ASSUME IInv, [Next]_vars
  PROVE  RowsFit'
<1>0. TypeOK /\ RowsFit /\ RequestsFit
  BY DEF IInv
<1>1. SUFFICES ASSUME NEW a \in Attempts
               PROVE  /\ status'[a] = "none" => snapshot'[a] = {}
                      /\ \A q \in Questions :
                           /\ content'[a][q] # "none" => q \in snapshot'[a]
                           /\ Graded(a, q)' => content'[a][q] # "none"
  BY DEF RowsFit
<1>2. /\ status[a] = "none" => snapshot[a] = {}
      /\ \A q \in Questions :
           /\ content[a][q] # "none" => q \in snapshot[a]
           /\ Graded(a, q) => content[a][q] # "none"
  BY <1>0 DEF RowsFit
<1>3. status'[a] = "none" => snapshot'[a] = {}
  <2>1. ASSUME NEW r \in Requests, InsertAttempt(r), status'[a] = "none"
        PROVE  snapshot'[a] = {}
    BY <1>0, <1>2, <2>1, InsertEffect DEF TypeOK
  <2>2. ASSUME NEW r \in Requests, CloseAttempt(r), status'[a] = "none"
        PROVE  snapshot'[a] = {}
    BY <1>0, <1>2, <2>2, CloseEffect DEF TypeOK, Verdicts
  <2>3. QED
    BY <1>2, <2>1, <2>2, RowWriters
<1>4. Kept(a)
  BY <1>0, StepKeeps
<1>5. snapshot[a] \subseteq snapshot'[a]
  BY <1>2, <1>4 DEF Kept
<1>6. ASSUME NEW q \in Questions
      PROVE  /\ content'[a][q] # "none" => q \in snapshot'[a]
             /\ Graded(a, q)' => content'[a][q] # "none"
  <2>1. CASE UNCHANGED <<content, points>>
    BY <1>2, <1>5, <2>1 DEF Graded
  <2>2. ASSUME NEW r \in Requests, WriteAnswer(r)
        PROVE  /\ content'[a][q] # "none" => q \in snapshot'[a]
               /\ Graded(a, q)' => content'[a][q] # "none"
    <3>1. PICK b \in Attempts, p \in Questions, c \in Contents \ {"none"} :
            /\ content' = [content EXCEPT ![b][p] = c]
            /\ UNCHANGED points
            /\ p \in snapshot[b]
      BY <1>0, <2>2, WriteAnswerEffect DEF RequestsFit, SavingFits
    <3>2. content'[a][q] = IF b = a /\ p = q THEN c ELSE content[a][q]
      BY <1>0, <3>1 DEF TypeOK
    <3>3. QED
      BY <1>2, <1>5, <3>1, <3>2 DEF Graded
  <2>3. ASSUME NEW r \in Requests, WriteGrade(r)
        PROVE  /\ content'[a][q] # "none" => q \in snapshot'[a]
               /\ Graded(a, q)' => content'[a][q] # "none"
    <3>1. UNCHANGED content
      BY <1>0, <2>3, WriteGradeEffect
    <3>2. Graded(a, q)' => Graded(a, q) \/ content[a][q] # "none"
      <4>1. CASE UNCHANGED points
        BY <4>1 DEF Graded
      <4>2. CASE \E b \in Attempts, p \in Questions, n \in Nat :
                   /\ content[b][p] # "none"
                   /\ points' = [points EXCEPT ![b][p] = n]
        BY <1>0, <4>2 DEF Graded, TypeOK
      <4>3. QED
        BY <1>0, <2>3, <4>1, <4>2, WriteGradeEffect
    <3>3. QED
      BY <1>2, <1>5, <3>1, <3>2
  <2>4. ASSUME NEW r \in Requests, NEW p \in Questions, GradeQuestion(r, p)
        PROVE  /\ content'[a][q] # "none" => q \in snapshot'[a]
               /\ Graded(a, q)' => content'[a][q] # "none"
    <3>1. PICK b \in Attempts, c \in Contents, n \in Nat :
            /\ b = req[r].attempt
            /\ content' = [content EXCEPT ![b][p] = Upserted(content[b][p], c)]
            /\ points' = [points EXCEPT ![b][p] = n]
      BY <1>0, <2>4, GradeWrites
    <3>2. p \in snapshot[b]
      BY <1>0, <2>4, <3>1, GradeEffect DEF RequestsFit, ClosingFits
    <3>3. CASE b = a /\ p = q
      <4>1. content'[a][q] = Upserted(content[b][p], c)
        BY <1>0, <3>1, <3>3 DEF TypeOK
      <4>2. content'[a][q] # "none"
        BY <4>1 DEF Upserted
      <4>3. QED
        BY <1>5, <3>2, <3>3, <4>2
    <3>4. CASE ~(b = a /\ p = q)
      <4>1. content'[a][q] = content[a][q] /\ points'[a][q] = points[a][q]
        BY <1>0, <3>1, <3>4 DEF TypeOK
      <4>2. QED
        BY <1>2, <1>5, <4>1 DEF Graded
    <3>5. QED
      BY <3>3, <3>4
  <2>5. QED
    BY <2>1, <2>2, <2>3, <2>4, AnswerWriters
<1>7. QED
  BY <1>3, <1>6

\* An attempt that becomes finished in a step is closed by that step.
LEMMA FinishesByClosing ==
  ASSUME TypeOK, [Next]_vars, NEW a \in Attempts, Finished(a)', ~Finished(a)
  PROVE  \E r \in Requests : CloseAttempt(r) /\ req[r].attempt = a
<1>1. ASSUME NEW r \in Requests, InsertAttempt(r)
      PROVE  FALSE
  BY <1>1, InsertEffect DEF TypeOK, Finished, Verdicts
<1>2. ASSUME NEW r \in Requests, CloseAttempt(r), req[r].attempt # a
      PROVE  FALSE
  BY <1>2, CloseEffect DEF TypeOK, Finished
<1>3. QED
  BY <1>1, <1>2, RowWriters DEF Finished

LEMMA StepGradedWhenFinished ==
  ASSUME IInv, [Next]_vars
  PROVE  GradedWhenFinished'
<1>0. TypeOK /\ RowsFit /\ RequestsFit
  BY DEF IInv
<1>1. SUFFICES ASSUME NEW a \in Attempts, Finished(a)'
               PROVE  /\ \A q \in snapshot'[a] : content'[a][q] # "none" /\ Graded(a, q)'
                      /\ score'[a] # Null /\ maxScore'[a] = snapshot'[a]
  BY DEF GradedWhenFinished
<1>2. Kept(a) /\ snapshot[a] \subseteq Questions
  BY <1>0, StepKeeps DEF TypeOK
<1>3. CASE Finished(a)
  <2>1. /\ \A q \in snapshot[a] : content[a][q] # "none" /\ Graded(a, q)
        /\ score[a] # Null /\ maxScore[a] = snapshot[a]
        /\ snapshot'[a] = snapshot[a]
    BY <1>2, <1>3 DEF IInv, GradedWhenFinished, Kept, Finished, Verdicts
  <2>2. score'[a] # Null /\ maxScore'[a] = snapshot[a]
    <3>1. ASSUME NEW r \in Requests, CloseAttempt(r)
          PROVE  score'[a] # Null /\ maxScore'[a] = snapshot[a]
      BY <1>0, <2>1, <3>1, CloseWrites, ConstantsAssumption DEF TypeOK
    <3>2. ASSUME NEW r \in Requests, WriteTotal(r)
          PROVE  score'[a] # Null /\ maxScore'[a] = snapshot[a]
      <4>1. req[r].score \in [Questions -> Nat]
        BY <1>0, <3>2, RequestShape DEF WriteTotal, TotalStates, TypeOK
      <4>2. QED
        BY <1>0, <2>1, <3>2, <4>1, ConstantsAssumption DEF WriteTotal, TypeOK
    <3>3. QED
      BY <2>1, <3>1, <3>2, TotalWriters
  <2>3. QED
    BY <1>2, <2>1, <2>2 DEF Kept
<1>4. CASE ~Finished(a)
  <2>1. PICK r \in Requests : CloseAttempt(r) /\ req[r].attempt = a
    BY <1>0, <1>1, <1>4, FinishesByClosing
  <2>2. \A q \in snapshot[a] : Graded(a, q) /\ content[a][q] # "none"
    BY <1>0, <1>2, <2>1, CloseEffect DEF RequestsFit, ClosingFits, RowsFit
  <2>3. snapshot' = snapshot /\ score'[a] # Null /\ maxScore'[a] = snapshot[a]
    BY <1>0, <2>1, CloseWrites, ConstantsAssumption DEF TypeOK
  <2>4. QED
    BY <1>2, <2>2, <2>3 DEF Kept
<1>5. QED
  BY <1>3, <1>4

LEMMA StepAutoOnlyAfterDeadline ==
  ASSUME IInv, [Next]_vars
  PROVE  AutoOnlyAfterDeadline'
<1>0. TypeOK /\ RequestsFit
  BY DEF IInv
<1>1. SUFFICES ASSUME NEW a \in Attempts, status'[a] = "auto_submitted"
               PROVE  expired'[a]
  BY DEF AutoOnlyAfterDeadline
<1>2. Kept(a)
  BY <1>0, StepKeeps
<1>3. CASE status[a] = "auto_submitted"
  BY <1>2, <1>3 DEF IInv, AutoOnlyAfterDeadline, Kept
<1>4. CASE status[a] # "auto_submitted"
  <2>1. ASSUME NEW r \in Requests, InsertAttempt(r)
        PROVE  FALSE
    BY <1>0, <1>1, <1>4, <2>1, InsertEffect DEF TypeOK
  <2>2. PICK r \in Requests : CloseAttempt(r)
    BY <1>1, <1>4, <2>1, RowWriters
  <2>3. req[r].attempt = a /\ req[r].verdict = "auto_submitted"
    BY <1>0, <1>1, <1>4, <2>2, CloseEffect DEF TypeOK
  <2>4. expired[a]
    BY <1>0, <2>2, <2>3, CloseEffect DEF RequestsFit, ClosingFits
  <2>5. QED
    BY <1>2, <2>4 DEF Kept
<1>5. QED
  BY <1>3, <1>4

-----------------------------------------------------------------------------
(* The invariants.                                                         *)

LEMMA InitIInv == Init => IInv
<1>1. ASSUME Init
      PROVE  IInv
  <2>1. TypeOK
    BY <1>1, InitTypeOK
  <2>2. GradedWhenFinished /\ AutoOnlyAfterDeadline
    BY <1>1 DEF Init, GradedWhenFinished,
       AutoOnlyAfterDeadline, Finished, Verdicts
  <2>3. RowsFit
    BY <1>1 DEF Init, RowsFit, Graded
  <2>4. RequestsFit
    BY <1>1 DEF Init, RequestsFit, ClosingFits, SavingFits, Closing, Writing, Idle
  <2>5. QED
    BY <2>1, <2>2, <2>3, <2>4 DEF IInv
<1>2. QED
  BY <1>1

LEMMA NextIInv == IInv /\ [Next]_vars => IInv'
<1>1. ASSUME IInv, [Next]_vars
      PROVE  IInv'
  <2>1. TypeOK'
    BY <1>1, NextTypeOK DEF IInv
  <2>2. RowsFit' /\ RequestsFit'
    BY <1>1, StepRowsFit, StepRequestsFit
  <2>3. GradedWhenFinished' /\ AutoOnlyAfterDeadline'
    BY <1>1, StepGradedWhenFinished, StepAutoOnlyAfterDeadline
  <2>4. QED
    BY <2>1, <2>2, <2>3 DEF IInv
<1>2. QED
  BY <1>1

LEMMA AlwaysIInv == Spec => []IInv
BY InitIInv, NextIInv, PTL DEF Spec

\* Whatever fails or is repeated on the way, a finished attempt has a graded row
\* for each question of its snapshot, a score and a maximum (finalizeAttempt and
\* gradeAttempt, also when several requests close the attempt).
THEOREM FinishedIsGraded == Spec => []GradedWhenFinished
<1>1. IInv => GradedWhenFinished
  BY DEF IInv
<1>2. QED
  BY <1>1, AlwaysIInv, PTL

\* No request, however late, calls an attempt auto_submitted before its deadline
\* (submitAttempt, maybeExpire and requireActiveAttemptForAnswering).
THEOREM AutoSubmittedIsLate == Spec => []AutoOnlyAfterDeadline
<1>1. IInv => AutoOnlyAfterDeadline
  BY DEF IInv
<1>2. QED
  BY <1>1, AlwaysIInv, PTL

-----------------------------------------------------------------------------
(* What a finished or locked attempt keeps out.                            *)

\* gradeAttempt never writes over what a student wrote: only a save changes it.
LEMMA OnlySavesChangeText ==
  ASSUME IInv, [Next]_vars, NEW a \in Attempts, NEW q \in Questions,
         \A r \in Requests : ~(Writing(r) /\ On(r, a))
  PROVE  Text(a, q)' = Text(a, q)
<1>0. TypeOK /\ RequestsFit
  BY DEF IInv
<1>1. CASE UNCHANGED content
  BY <1>1 DEF Text
<1>2. ASSUME NEW r \in Requests, WriteAnswer(r)
      PROVE  Text(a, q)' = Text(a, q)
  <2>0. PICK b \in Attempts, p \in Questions : b = req[r].attempt /\ p = req[r].question
    BY <1>0, <1>2, WriteAnswerEffect
  <2>1. Writing(r) /\ content' = [content EXCEPT ![b][p] = req[r].draft]
    BY <1>0, <1>2, <2>0, WriteAnswerEffect
  <2>2. b # a
    BY <1>2, <2>0, <2>1 DEF On
  <2>3. QED
    BY <1>0, <2>1, <2>2 DEF Text, TypeOK
<1>3. ASSUME NEW r \in Requests, NEW p \in Questions, GradeQuestion(r, p)
      PROVE  Text(a, q)' = Text(a, q)
  <2>1. PICK b \in Attempts : b = req[r].attempt
    BY <1>0, <1>3, GradeEffect
  <2>2. /\ content' = [content EXCEPT ![b][p] = Upserted(content[b][p], req[r].seen[p])]
        /\ req[r].seen[p] # "none" => content[b][p] # "none"
    BY <1>0, <1>3, <2>1, GradeEffect DEF RequestsFit, ClosingFits
  <2>3. CASE b = a /\ p = q
    <3>1. content'[a][q] = Upserted(content[a][q], req[r].seen[q])
      BY <1>0, <2>2, <2>3 DEF TypeOK
    <3>2. QED
      BY <2>2, <2>3, <3>1 DEF Text, Upserted
  <2>4. CASE ~(b = a /\ p = q)
    BY <1>0, <2>1, <2>2, <2>4 DEF TypeOK, Text
  <2>5. QED
    BY <2>3, <2>4
<1>4. ASSUME NEW r \in Requests, WriteGrade(r)
      PROVE  UNCHANGED content
  BY <1>0, <1>4, WriteGradeEffect
<1>5. QED
  BY <1>1, <1>2, <1>3, <1>4, AnswerWriters

\* A save or a submission of an attempt begins only while the attempt may be
\* answered.
LEMMA BeginsOnlyIfAnswerable ==
  ASSUME TypeOK, [Next]_vars, NEW r \in Requests, NEW a \in Attempts
  PROVE  /\ (Writing(r) /\ On(r, a))' => (Writing(r) /\ On(r, a)) \/ Answerable(a)
         /\ (Submitting(r) /\ On(r, a))' => (Submitting(r) /\ On(r, a)) \/ Answerable(a)
<1> DEFINE Goal == /\ (Writing(r) /\ On(r, a))' => (Writing(r) /\ On(r, a)) \/ Answerable(a)
                   /\ (Submitting(r) /\ On(r, a))' =>
                        (Submitting(r) /\ On(r, a)) \/ Answerable(a)
<1>1. CASE req'[r] = req[r]
  BY <1>1 DEF Writing, Submitting, Closing, Grading, Locking, On
<1>2. ASSUME req'[r].at \notin {"read_answers", "grade_answers", "write_answer"}
      PROVE  Goal
  BY <1>2 DEF Writing, Submitting, Closing
<1>3. ASSUME req'[r] \in Continuations
      PROVE  Goal
  BY <1>2, <1>3 DEF Continuations, Idle, StartStates
<1>4. ASSUME NEW b, NEW then, req'[r] = Finalize(b, "auto_submitted", then)
      PROVE  Goal
  BY <1>4 DEF Finalize, Writing, Submitting, Closing
<1>5. CASE FindExisting(r)
  <2>1. req[r] \in StartStates
    BY <1>5, RequestShape DEF FindExisting, TypeOK
  <2>2. Starting("list_assignments", req[r].student, req[r].sawPublished) \in Continuations
    BY <2>1 DEF StartStates, Starting, Continuations
  <2>3. \/ req'[r] \in Continuations
        \/ \E b, then : req'[r] = Finalize(b, "auto_submitted", then)
    BY <1>5, <2>2 DEF FindExisting, Continue, TypeOK, Continuations
  <2>4. QED
    BY <1>3, <1>4, <2>3
<1>6. ASSUME Closing(r), Closing(r)', req'[r].attempt = req[r].attempt,
             req'[r].verdict = req[r].verdict
      PROVE  Goal
  BY <1>6 DEF Writing, Submitting, Closing, On
<1>7. ASSUME NEW seen, NEW todo, NEW total, Closing(r), req'[r] = ToGrade(r, seen, todo, total)
      PROVE  Goal
  BY <1>6, <1>7 DEF ToGrade, Closing
<1>8. CASE ReadAnswers(r)
  BY <1>7, <1>8 DEF ReadAnswers, Continue, Closing, TypeOK
<1>9. ASSUME NEW q \in Questions, GradeQuestion(r, q)
      PROVE  Goal
  <2>1. PICK n \in Nat :
          /\ points' = [points EXCEPT ![req[r].attempt][q] = n]
          /\ req' = [req EXCEPT ![r] = ToGrade(r, req[r].seen, req[r].todo \ {q},
                                              [req[r].score EXCEPT ![q] = n])]
    BY <1>9, GradeEffect, Zenon
  <2>2. Closing(r)
    BY <1>9, GradeEffect
  <2>3. QED
    BY <1>7, <2>1, <2>2 DEF TypeOK
<1>10. CASE CloseAttempt(r)
  <2>1. req[r].then \in Continuations /\ req' = [req EXCEPT ![r] = req[r].then]
    BY <1>10, CloseEffect
  <2>2. QED
    BY <1>3, <2>1 DEF TypeOK
<1>11. CASE \/ ListAssignments(r) \/ CountAttempts(r) \/ InsertAttempt(r) \/ WriteAnswer(r)
           \/ FailRequest(r) \/ \E s \in Students : StartAttempt(r, s)
  BY <1>2, <1>11
     DEF TypeOK, Continue, Idle, Starting, ListAssignments, CountAttempts, InsertAttempt,
         WriteAnswer, FailRequest, StartAttempt
<1>12. CASE \/ LockAttempt(r) \/ LogLock(r) \/ ClearLock(r) \/ LogUnlock(r)
            \/ \E b \in Attempts : UnlockAttempt(r, b)
  BY <1>2, <1>12
     DEF TypeOK, Continue, Idle, LockStep, LockAttempt, LogLock, ClearLock, LogUnlock,
         UnlockAttempt
<1>13. CASE \/ WriteGrade(r) \/ SumPoints(r) \/ WriteTotal(r)
            \/ \E b \in Attempts, q \in Questions, p \in Awards : GradeAnswer(r, b, q, p)
  BY <1>2, <1>13
     DEF TypeOK, Continue, Idle, WriteGrade, SumPoints, WriteTotal, GradeAnswer
<1>14. ASSUME NEW b \in Attempts, NEW state, RequireActive(r, b, state)
       PROVE  Goal \/ (req'[r] = state /\ Answerable(b))
  BY <1>4, <1>14 DEF RequireActive, Continue, TypeOK
<1>15. ASSUME NEW b \in Attempts, NEW q \in Questions, NEW c \in Drafts, SaveAnswer(r, b, q, c)
       PROVE  Goal
  <2>1. CASE /\ req'[r] = [at |-> "write_answer", attempt |-> b, question |-> q, draft |-> c]
             /\ Answerable(b)
    BY <2>1 DEF Writing, Submitting, Closing, On
  <2>2. QED
    BY <1>14, <1>15, <2>1 DEF SaveAnswer
<1>16. ASSUME NEW b \in Attempts, RecordViolation(r, b)
       PROVE  Goal
  BY <1>2, <1>14, <1>16 DEF RecordViolation, LockStep
<1>17. ASSUME NEW b \in Attempts, SubmitAttempt(r, b)
       PROVE  Goal
  <2>1. Answerable(b) /\ req'[r] = Finalize(b, SubmitVerdict(b), Idle)
    BY <1>17 DEF SubmitAttempt, Continue, TypeOK
  <2>2. QED
    BY <2>1 DEF Finalize, Writing, Submitting, Closing, Grading, Locking, On
<1>18. CASE Step(r) \/ NewRequest(r) \/ FailRequest(r)
  BY <1>5, <1>8, <1>9, <1>10, <1>11, <1>12, <1>13, <1>15, <1>16, <1>17, <1>18 DEF Step, NewRequest
<1>19. QED
  BY <1>1, <1>18, MovesOnlyItself
     DEF Next, DeadlinePasses, SetPublished, SetAssigned, AnswerWithoutChange, vars

\* A finished attempt with no save under way takes no other save, and what the
\* student wrote stays: a late grading or regrading leaves the content alone
\* (requireActiveAttemptForAnswering and the upsert of gradeAttempt).
THEOREM SettledStaysFrozen == Spec => FrozenOnceSettled
<1>1. ASSUME IInv, [Next]_vars, NEW a \in Attempts, Settled(a)
      PROVE  Settled(a)' /\ \A q \in Questions : Text(a, q)' = Text(a, q)
  <2>1. /\ TypeOK /\ Finished(a) /\ ~Answerable(a)
        /\ \A r \in Requests : ~(Writing(r) /\ On(r, a))
    BY <1>1 DEF IInv, Settled, Finished, Answerable, Verdicts
  <2>2. Finished(a)'
    BY <1>1, <2>1, StepKeeps DEF Kept
  <2>3. \A r \in Requests : ~(Writing(r) /\ On(r, a))'
    BY <1>1, <2>1, BeginsOnlyIfAnswerable
  <2>4. QED
    BY <1>1, <2>1, <2>2, <2>3, OnlySavesChangeText DEF Settled
<1>2. IInv /\ [Next]_vars =>
        [\A a \in Attempts : Settled(a) =>
           Settled(a)' /\ \A q \in Questions : Text(a, q)' = Text(a, q)]_vars
  BY <1>1
<1>3. QED
  BY <1>2, AlwaysIInv, PTL DEF Spec, FrozenOnceSettled

\* While an attempt is locked and nothing older is under way, no answer changes
\* and nobody hands it in; a teacher's unlock or the deadline ends that.
THEOREM LockIsKept == Spec => LockHolds
<1>1. ASSUME IInv, [Next]_vars, NEW a \in Attempts, Sealed(a)
      PROVE  /\ \A q \in Questions : Text(a, q)' = Text(a, q)
             /\ Sealed(a)' \/ ~locked'[a] \/ status'[a] = "auto_submitted"
  <2>1. /\ TypeOK /\ TypeOK' /\ ~Finished(a) /\ ~Answerable(a)
        /\ \A r \in Requests : ~(Writing(r) /\ On(r, a)) /\ ~(Submitting(r) /\ On(r, a))
    BY <1>1, NextTypeOK DEF IInv, Sealed, Finished, Answerable, Verdicts
  <2>2. \A q \in Questions : Text(a, q)' = Text(a, q)
    BY <1>1, <2>1, OnlySavesChangeText
  <2>3. \A r \in Requests : ~(Writing(r) /\ On(r, a))' /\ ~(Submitting(r) /\ On(r, a))'
    BY <1>1, <2>1, BeginsOnlyIfAnswerable
  <2>4. status'[a] # "none"
    BY <1>1, <2>1, StepKeeps DEF Kept, Sealed
  <2>5. CASE Finished(a)'
    <3>1. PICK r \in Requests : CloseAttempt(r) /\ req[r].attempt = a
      BY <1>1, <2>1, <2>5, FinishesByClosing
    <3>2. /\ Closing(r) /\ req[r].verdict \in Verdicts
          /\ status' = [status EXCEPT ![a] = req[r].verdict]
      BY <2>1, <3>1, CloseEffect
    <3>3. req[r].verdict = "auto_submitted"
      BY <2>1, <3>1, <3>2 DEF Submitting, On, Verdicts
    <3>4. QED
      BY <2>1, <2>2, <3>2, <3>3 DEF TypeOK
  <2>6. CASE ~Finished(a)'
    <3>1. status'[a] = "in_progress"
      BY <2>1, <2>4, <2>6 DEF TypeOK, Finished
    <3>2. QED
      BY <2>2, <2>3, <3>1 DEF Sealed
  <2>7. QED
    BY <2>5, <2>6
<1>2. IInv /\ [Next]_vars =>
        [\A a \in Attempts : Sealed(a) =>
           /\ \A q \in Questions : Text(a, q)' = Text(a, q)
           /\ Sealed(a)' \/ ~locked'[a] \/ status'[a] = "auto_submitted"]_vars
  BY <1>1
<1>3. QED
  BY <1>2, AlwaysIInv, PTL DEF Spec, LockHolds

-----------------------------------------------------------------------------
(***************************************************************************)
(* Refinement: under the mapping of ExamAttempts, an insert opens an       *)
(* attempt, a grade written to a row marks its question, the first         *)
(* finalizeAttempt to write the attempt closes it, and nothing else shows. *)
(***************************************************************************)

LEMMA InitOpensNothing == Init => Lifecycle!Init
BY DEF Init, Lifecycle!Init, Graded

LEMMA InsertIsOpen ==
  ASSUME IInv, NEW r \in Requests, InsertAttempt(r)
  PROVE  [Lifecycle!Next]_(Lifecycle!vars)
<1>0. TypeOK
  BY DEF IInv
<1>1. UNCHANGED points
  BY DEF InsertAttempt, answerVars
<1>2. CASE UNCHANGED <<status, student, snapshot>>
  BY <1>1, <1>2 DEF Lifecycle!vars, Graded
<1>3. CASE \E a \in Attempts, s \in Students, S \in SUBSET Questions :
             /\ status[a] = "none" /\ InProgress(s) = {}
             /\ status' = [status EXCEPT ![a] = "in_progress"]
             /\ student' = [student EXCEPT ![a] = s]
             /\ snapshot' = [snapshot EXCEPT ![a] = S]
  <2>1. PICK a \in Attempts, s \in Students, S \in SUBSET Questions :
          /\ status[a] = "none" /\ InProgress(s) = {}
          /\ status' = [status EXCEPT ![a] = "in_progress"]
          /\ student' = [student EXCEPT ![a] = s]
          /\ snapshot' = [snapshot EXCEPT ![a] = S]
    BY <1>3
  <2>2. \A b \in Attempts : status[b] = "in_progress" => student[b] # s
    BY <2>1 DEF InProgress, AttemptsOf
  <2>3. Lifecycle!Open(a, s, S)
    BY <1>0, <1>1, <2>1, <2>2 DEF Lifecycle!Open, TypeOK, Graded
  <2>4. QED
    BY <2>3 DEF Lifecycle!Next
<1>4. QED
  BY <1>0, <1>2, <1>3, InsertEffect

\* Points given to a row of an attempt mark the row's question.
LEMMA PointsAreMark ==
  ASSUME TypeOK, UNCHANGED <<status, student, snapshot>>,
         NEW a \in Attempts, NEW q \in Questions, NEW n \in Nat,
         status[a] # "none", q \in snapshot[a],
         points' = [points EXCEPT ![a][q] = n]
  PROVE  Lifecycle!Next
<1>1. \A b \in Attempts, p \in Questions :
        Graded(b, p)' <=> Graded(b, p) \/ (b = a /\ p = q)
  BY ConstantsAssumption DEF TypeOK, Graded
<1>2. Lifecycle!Mark(a, q)
  <2> DEFINE old == [b \in Attempts |-> {p \in Questions : Graded(b, p)}]
             new == [b \in Attempts |-> {p \in Questions : Graded(b, p)'}]
  <2>1. new = [old EXCEPT ![a] = old[a] \union {q}]
    BY <1>1
  <2>2. QED
    BY <2>1 DEF Lifecycle!Mark, TypeOK
<1>3. QED
  BY <1>2 DEF Lifecycle!Next

LEMMA CloseIsClose ==
  ASSUME IInv, NEW r \in Requests, CloseAttempt(r)
  PROVE  [Lifecycle!Next]_(Lifecycle!vars)
<1>0. TypeOK /\ RowsFit /\ RequestsFit
  BY DEF IInv
<1>1. PICK a \in Attempts : a = req[r].attempt
  BY <1>0, CloseEffect
<1>2. /\ status' = [status EXCEPT ![a] = req[r].verdict] /\ req[r].verdict \in Verdicts
      /\ UNCHANGED <<student, snapshot, points>>
  BY <1>0, <1>1, CloseEffect
<1>3. status[a] # "none" /\ \A q \in snapshot[a] : Graded(a, q)
  BY <1>0, <1>1, CloseEffect DEF RequestsFit, ClosingFits
<1>4. {q \in Questions : Graded(a, q)} = snapshot[a]
  BY <1>0, <1>3 DEF RowsFit, TypeOK
<1>5. CASE status[a] = "in_progress"
  <2>1. Lifecycle!Close(a)
    BY <1>0, <1>2, <1>4, <1>5 DEF Lifecycle!Close, TypeOK, Verdicts, Graded
  <2>2. QED
    BY <2>1 DEF Lifecycle!Next
<1>6. CASE status[a] # "in_progress"
  BY <1>0, <1>2, <1>3, <1>6 DEF Lifecycle!vars, TypeOK, Verdicts, Graded
<1>7. QED
  BY <1>5, <1>6

LEMMA NextIsLifecycle ==
  ASSUME IInv, [Next]_vars
  PROVE  [Lifecycle!Next]_(Lifecycle!vars)
<1>0. TypeOK /\ RowsFit /\ RequestsFit
  BY DEF IInv
<1>1. CASE UNCHANGED <<status, student, snapshot, points>>
  BY <1>1 DEF Lifecycle!vars, Graded
<1>2. ASSUME NEW r \in Requests, InsertAttempt(r) \/ CloseAttempt(r)
      PROVE  [Lifecycle!Next]_(Lifecycle!vars)
  BY <1>2, InsertIsOpen, CloseIsClose
<1>3. ASSUME NEW r \in Requests, WriteAnswer(r)
      PROVE  UNCHANGED <<status, student, snapshot, points>>
  BY <1>0, <1>3, WriteAnswerEffect
<1>4. ASSUME NEW r \in Requests, WriteGrade(r)
      PROVE  [Lifecycle!Next]_(Lifecycle!vars)
  <2>1. UNCHANGED <<status, student, snapshot>>
    BY <1>0, <1>4, WriteGradeEffect
  <2>2. CASE UNCHANGED points
    BY <1>1, <2>1, <2>2
  <2>3. CASE \E a \in Attempts, q \in Questions, n \in Nat :
               /\ content[a][q] # "none"
               /\ points' = [points EXCEPT ![a][q] = n]
    <3>1. PICK a \in Attempts, q \in Questions, n \in Nat :
            /\ content[a][q] # "none"
            /\ points' = [points EXCEPT ![a][q] = n]
      BY <2>3
    <3>2. q \in snapshot[a] /\ status[a] # "none"
      BY <1>0, <3>1 DEF RowsFit
    <3>3. QED
      BY <1>0, <2>1, <3>1, <3>2, PointsAreMark
  <2>4. QED
    BY <1>0, <1>4, <2>2, <2>3, WriteGradeEffect
<1>5. ASSUME NEW r \in Requests, NEW q \in Questions, GradeQuestion(r, q)
      PROVE  [Lifecycle!Next]_(Lifecycle!vars)
  <2>1. PICK a \in Attempts, n \in Nat :
          a = req[r].attempt /\ points' = [points EXCEPT ![a][q] = n]
    BY <1>0, <1>5, GradeWrites
  <2>2. UNCHANGED <<status, student, snapshot>>
    BY <1>0, <1>5, GradeEffect
  <2>3. status[a] # "none" /\ q \in snapshot[a]
    BY <1>0, <1>5, <2>1, GradeEffect DEF RequestsFit, ClosingFits
  <2>4. QED
    BY <1>0, <2>1, <2>2, <2>3, PointsAreMark
<1>6. QED
  BY <1>1, <1>2, <1>3, <1>4, <1>5, RowWriters, AnswerWriters

\* The handlers, however interleaved, repeated or cut off, implement the lifecycle
\* of an attempt: one open attempt for each student, a fixed paper, and a closing
\* that comes once, is final and finds every question marked.
THEOREM Refines == Spec => ImplementsLifecycle
<1>1. Init => Lifecycle!Init
  BY InitOpensNothing
<1>2. IInv /\ [Next]_vars => [Lifecycle!Next]_(Lifecycle!vars)
  BY NextIsLifecycle
<1>3. QED
  BY <1>1, <1>2, AlwaysIInv, PTL DEF Spec, ImplementsLifecycle, Lifecycle!Spec

-----------------------------------------------------------------------------
(***************************************************************************)
(* Counts, verdicts and totals.  Nothing in the code keeps two requests    *)
(* about one attempt apart, and some pairs of them do harm (README,        *)
(* Divergences).  Each theorem says which pair that is: without it the     *)
(* property holds, whatever else overlaps.                                 *)
(***************************************************************************)

\* How a request gets to each of its places.
LEMMA Arrivals ==
  ASSUME TypeOK, NEW r \in Requests, Step(r) \/ NewRequest(r) \/ FailRequest(r)
  PROVE  /\ req'[r].at = "insert_attempt" => CountAttempts(r)
         /\ req'[r].at = "count_attempts" => ListAssignments(r)
         /\ Closing(r)' =>
              \/ /\ Closing(r) /\ req'[r].attempt = req[r].attempt
                 /\ ReadAnswers(r) \/ \E q \in Questions : GradeQuestion(r, q)
              \/ /\ UnchangedTables
                 /\ \E a \in Attempts : \E verdict, then :
                      status[a] = "in_progress" /\ req'[r] = Finalize(a, verdict, then)
         /\ Grading(r)' =>
              \/ WriteGrade(r) /\ req'[r].at = "sum_points"
              \/ SumPoints(r)
              \/ \E a \in Attempts, q \in Questions, p \in Awards : GradeAnswer(r, a, q, p)
         /\ Locking(r)' =>
              \/ LockAttempt(r) \/ ClearLock(r)
              \/ \E a \in Attempts : RecordViolation(r, a) \/ UnlockAttempt(r, a)
<1> DEFINE Begins == /\ UnchangedTables
                     /\ \E a \in Attempts : \E verdict, then :
                          status[a] = "in_progress" /\ req'[r] = Finalize(a, verdict, then)
           Goal == /\ req'[r].at = "insert_attempt" => CountAttempts(r)
                   /\ req'[r].at = "count_attempts" => ListAssignments(r)
                   /\ Closing(r)' =>
                        \/ /\ Closing(r) /\ req'[r].attempt = req[r].attempt
                           /\ ReadAnswers(r) \/ \E q \in Questions : GradeQuestion(r, q)
                        \/ Begins
                   /\ Grading(r)' =>
                        \/ WriteGrade(r) /\ req'[r].at = "sum_points"
                        \/ SumPoints(r)
                        \/ \E a \in Attempts, q \in Questions, p \in Awards :
                             GradeAnswer(r, a, q, p)
                   /\ Locking(r)' =>
                        \/ LockAttempt(r) \/ ClearLock(r)
                        \/ \E a \in Attempts : RecordViolation(r, a) \/ UnlockAttempt(r, a)
<1>1. ASSUME req'[r].at \in {"idle", "find_existing", "list_assignments", "write_answer"}
      PROVE  Goal
  BY <1>1 DEF Closing, Grading, Locking
<1>2. ASSUME req'[r] \in Continuations
      PROVE  Goal
  BY <1>1, <1>2 DEF Continuations, Idle, StartStates
<1>3. ASSUME Begins
      PROVE  Goal
  <2>1. req'[r].at = "read_answers"
    BY <1>3 DEF Finalize
  <2>2. QED
    BY <1>3, <2>1 DEF Closing, Grading, Locking
<1>4. CASE FindExisting(r)
  <2>1. req[r] \in StartStates
    BY <1>4, RequestShape DEF FindExisting, TypeOK
  <2>2. Starting("list_assignments", req[r].student, req[r].sawPublished) \in Continuations
    BY <2>1 DEF StartStates, Starting, Continuations
  <2>3. Idle \in Continuations
    BY DEF Continuations
  <2>4. \A a \in InProgress(req[r].student) : a \in Attempts /\ status[a] = "in_progress"
    BY DEF InProgress, AttemptsOf
  <2>5. req'[r] \in Continuations \/ Begins
    BY <1>4, <2>2, <2>3, <2>4 DEF FindExisting, Continue, TypeOK
  <2>6. QED
    BY <1>2, <1>3, <2>5
<1>5. CASE CountAttempts(r) \/ ListAssignments(r)
  BY <1>5 DEF TypeOK, Continue, CountAttempts, ListAssignments, Starting, Idle, Closing,
     Grading, Locking
<1>6. CASE \/ InsertAttempt(r) \/ WriteAnswer(r) \/ LogLock(r) \/ LogUnlock(r)
           \/ WriteTotal(r) \/ FailRequest(r) \/ \E s \in Students : StartAttempt(r, s)
  BY <1>1, <1>6
     DEF TypeOK, Continue, Idle, Starting, InsertAttempt, WriteAnswer, LogLock,
         LogUnlock, WriteTotal, FailRequest, StartAttempt
<1>7. CASE ReadAnswers(r)
  BY <1>7 DEF TypeOK, Continue, ReadAnswers, ToGrade, Closing, Grading, Locking
<1>8. ASSUME NEW q \in Questions, GradeQuestion(r, q)
      PROVE  Goal
  <2>1. PICK n \in Nat :
          /\ points' = [points EXCEPT ![req[r].attempt][q] = n]
          /\ req' = [req EXCEPT ![r] = ToGrade(r, req[r].seen, req[r].todo \ {q},
                                              [req[r].score EXCEPT ![q] = n])]
    BY <1>8, GradeEffect, Zenon
  <2>2. Closing(r)
    BY <1>8, GradeEffect
  <2>3. req'[r].at = "grade_answers" /\ req'[r].attempt = req[r].attempt
    BY <2>1 DEF TypeOK, ToGrade
  <2>4. QED
    BY <1>8, <2>2, <2>3 DEF Closing, Grading, Locking
<1>9. CASE CloseAttempt(r)
  <2>1. req[r].then \in Continuations /\ req' = [req EXCEPT ![r] = req[r].then]
    BY <1>9, CloseEffect
  <2>2. QED
    BY <1>2, <2>1 DEF TypeOK
<1>10. CASE WriteGrade(r)
  BY <1>10 DEF TypeOK, Continue, WriteGrade, Idle, Closing, Grading, Locking
<1>11. CASE SumPoints(r) \/ \E a \in Attempts, q \in Questions, p \in Awards : GradeAnswer(r, a, q, p)
  <2>1. req'[r].at \in {"write_total", "write_grade"}
    BY <1>11 DEF TypeOK, Continue, SumPoints, GradeAnswer
  <2>2. QED
    BY <1>11, <2>1 DEF Closing, Locking
<1>12. CASE LockAttempt(r) \/ ClearLock(r) \/ \E a \in Attempts : UnlockAttempt(r, a)
  <2>1. req'[r].at \in {"log_lock", "log_unlock", "unlock"}
    BY <1>12 DEF TypeOK, Continue, LockAttempt, ClearLock, UnlockAttempt, LockStep
  <2>2. QED
    BY <1>12, <2>1 DEF Closing, Grading
<1>13. ASSUME NEW a \in Attempts, NEW state, RequireActive(r, a, state), UnchangedTables
       PROVE  Goal \/ req'[r] = state
  BY <1>3, <1>13 DEF RequireActive, Continue, TypeOK
<1>14. ASSUME NEW a \in Attempts, NEW q \in Questions, NEW c \in Drafts, SaveAnswer(r, a, q, c)
       PROVE  Goal
  <2>1. CASE req'[r] = [at |-> "write_answer", attempt |-> a, question |-> q, draft |-> c]
    BY <1>1, <2>1
  <2>2. QED
    BY <1>13, <1>14, <2>1 DEF SaveAnswer
<1>15. ASSUME NEW a \in Attempts, RecordViolation(r, a)
       PROVE  Goal
  <2>1. CASE req'[r] = LockStep("lock", a)
    <3>1. req'[r].at = "lock"
      BY <2>1 DEF LockStep
    <3>2. QED
      BY <1>15, <3>1 DEF Closing, Grading
  <2>2. QED
    BY <1>13, <1>15, <2>1 DEF RecordViolation
<1>16. ASSUME NEW a \in Attempts, SubmitAttempt(r, a)
       PROVE  Goal
  <2>1. status[a] = "in_progress" /\ UnchangedTables
        /\ req'[r] = Finalize(a, SubmitVerdict(a), Idle)
    BY <1>16 DEF SubmitAttempt, Answerable, Continue, TypeOK
  <2>2. QED
    BY <1>3, <2>1
<1>17. CASE NewRequest(r)
  BY <1>6, <1>11, <1>12, <1>14, <1>15, <1>16, <1>17 DEF NewRequest
<1>18. CASE Step(r)
  BY <1>4, <1>5, <1>6, <1>7, <1>8, <1>9, <1>10, <1>11, <1>12, <1>18 DEF Step
<1>19. CASE FailRequest(r)
  BY <1>6, <1>19
<1>20. QED
  BY <1>17, <1>18, <1>19

-----------------------------------------------------------------------------
(* Starts that are barred.                                                 *)

\* A row that is not there belongs to nobody.
NobodysRows == \A a \in Attempts : status[a] = "none" => student[a] = Null

LEMMA NoStudentNull == Null \notin Students
BY ConstantsAssumption

\* A row that a start inserts was nobody's before.
LEMMA NextNobodysRows == TypeOK /\ NobodysRows /\ [Next]_vars => NobodysRows'
<1> SUFFICES ASSUME TypeOK, NobodysRows, [Next]_vars, NEW a \in Attempts, status'[a] = "none"
             PROVE  student'[a] = Null
  BY DEF NobodysRows
<1>1. student[a] = Null
  BY StepKeeps DEF Kept, NobodysRows
<1>2. ASSUME NEW r \in Requests, InsertAttempt(r)
      PROVE  student'[a] = student[a]
  BY <1>2, InsertEffect DEF TypeOK
<1>3. ASSUME NEW r \in Requests, CloseAttempt(r)
      PROVE  student'[a] = student[a]
  BY <1>3, CloseEffect
<1>4. QED
  BY <1>1, <1>2, <1>3, RowWriters

\* Only an insert of the student's own start adds an attempt.
LEMMA OnlyInsertsAdd ==
  ASSUME TypeOK, NobodysRows, [Next]_vars, NEW s \in Students, ~StartAt(s, {"insert_attempt"})
  PROVE  AttemptsOf(s)' = AttemptsOf(s)
<1>1. ASSUME NEW r \in Requests, InsertAttempt(r)
      PROVE  AttemptsOf(s)' = AttemptsOf(s)
  <2>1. req[r].student # s
    BY <1>1 DEF InsertAttempt, StartAt
  <2>2. CASE UNCHANGED student
    BY <2>2 DEF AttemptsOf
  <2>3. CASE \E a \in Attempts :
               status[a] = "none" /\ student' = [student EXCEPT ![a] = req[r].student]
    BY <2>1, <2>3, NoStudentNull DEF TypeOK, NobodysRows, AttemptsOf
  <2>4. QED
    BY <1>1, <2>2, <2>3 DEF InsertAttempt, rowVars
<1>2. ASSUME NEW r \in Requests, CloseAttempt(r)
      PROVE  AttemptsOf(s)' = AttemptsOf(s)
  BY <1>2, CloseEffect DEF AttemptsOf
<1>3. QED
  BY <1>1, <1>2, RowWriters DEF AttemptsOf

\* A start is past its count or its check only if it was or has just passed it.
LEMMA StartsPass ==
  ASSUME TypeOK, [Next]_vars, NEW s \in Students
  PROVE  /\ StartAt(s, {"insert_attempt"})' =>
              \/ StartAt(s, {"insert_attempt"})
              \/ ~LimitReached(Cardinality(AttemptsOf(s)))
         /\ StartAt(s, {"count_attempts"})' =>
              \/ StartAt(s, {"count_attempts"})
              \/ Offered(s)
         /\ StartAt(s, {"insert_attempt"})' =>
              StartAt(s, {"count_attempts", "insert_attempt"})
<1>1. ASSUME NEW r \in Requests, CountAttempts(r), req'[r].at = "insert_attempt"
      PROVE  /\ req[r].at = "count_attempts" /\ req'[r].student = req[r].student
             /\ ~LimitReached(Cardinality(AttemptsOf(req[r].student)))
  <2>1. req'[r] = IF LimitReached(Cardinality(AttemptsOf(req[r].student))) THEN Idle
                  ELSE [at |-> "insert_attempt", student |-> req[r].student,
                        count |-> Cardinality(AttemptsOf(req[r].student))]
    BY <1>1 DEF CountAttempts, Continue, TypeOK
  <2>2. QED
    BY <1>1, <2>1 DEF CountAttempts, Idle
<1>2. ASSUME NEW r \in Requests, ListAssignments(r), req'[r].at = "count_attempts"
      PROVE  req'[r].student = req[r].student /\ Offered(req[r].student)
  BY <1>2 DEF ListAssignments, Continue, TypeOK, Starting, Idle, Offered
<1>3. ASSUME NEW r \in Requests, req'[r] # req[r]
      PROVE  Step(r) \/ NewRequest(r) \/ FailRequest(r)
  <2>1. CASE \E x \in Requests : Step(x) \/ NewRequest(x) \/ FailRequest(x)
    BY <1>3, <2>1, MovesOnlyItself
  <2>2. CASE req' = req
    BY <1>3, <2>2
  <2>3. QED
    BY <2>1, <2>2 DEF Next, DeadlinePasses, SetPublished, SetAssigned, AnswerWithoutChange, vars
<1>4. ASSUME NEW r \in Requests, req'[r].at = "insert_attempt", req'[r].student = s
      PROVE  \/ req[r].at = "insert_attempt" /\ req[r].student = s
             \/ /\ req[r].at = "count_attempts" /\ req[r].student = s
                /\ ~LimitReached(Cardinality(AttemptsOf(s)))
  BY <1>1, <1>3, <1>4, Arrivals
<1>5. ASSUME NEW r \in Requests, req'[r].at = "count_attempts", req'[r].student = s
      PROVE  (req[r].at = "count_attempts" /\ req[r].student = s) \/ Offered(s)
  BY <1>2, <1>3, <1>5, Arrivals
<1>6. QED
  BY <1>4, <1>5 DEF StartAt

LEMMA StepStaysBarred ==
  ASSUME TypeOK, NobodysRows, [Next]_vars, NEW s \in Students
  PROVE  /\ UsedUp(s) => UsedUp(s)' /\ AttemptsOf(s)' = AttemptsOf(s)
         /\ Withdrawn(s) => (Withdrawn(s) \/ Offered(s))' /\ AttemptsOf(s)' = AttemptsOf(s)
<1>1. ASSUME UsedUp(s)
      PROVE  UsedUp(s)' /\ AttemptsOf(s)' = AttemptsOf(s)
  <2>1. Cardinality(AttemptsOf(s)) >= MaxAttempts /\ ~StartAt(s, {"insert_attempt"})
    BY <1>1 DEF UsedUp
  <2>2. AttemptsOf(s)' = AttemptsOf(s)
    BY <2>1, OnlyInsertsAdd
  <2>3. ~StartAt(s, {"insert_attempt"})'
    BY <2>1, StartsPass DEF LimitReached
  <2>4. QED
    BY <2>1, <2>2, <2>3 DEF UsedUp
<1>2. ASSUME Withdrawn(s)
      PROVE  (Withdrawn(s) \/ Offered(s))' /\ AttemptsOf(s)' = AttemptsOf(s)
  <2>1. /\ ~Offered(s)
        /\ ~StartAt(s, {"count_attempts"}) /\ ~StartAt(s, {"insert_attempt"})
        /\ ~StartAt(s, {"count_attempts", "insert_attempt"})
    BY <1>2 DEF Withdrawn, StartAt
  <2>2. AttemptsOf(s)' = AttemptsOf(s)
    BY <2>1, OnlyInsertsAdd
  <2>3. ~StartAt(s, {"count_attempts", "insert_attempt"})'
    BY <2>1, StartsPass DEF StartAt
  <2>4. QED
    BY <2>2, <2>3 DEF Withdrawn
<1>3. QED
  BY <1>1, <1>2

\* Whatever interleaves or fails: once a student's attempts are used up and no
\* start is past countForStudent, or the quiz is withdrawn and no start is past
\* listAssignmentsForStudent, startAttempt adds no attempt and no start gets past
\* the check again, the latter until the quiz is offered again.
THEOREM BarredStartsStayBarred == Spec => StartsStayBarred
<1>1. Init => TypeOK /\ NobodysRows
  BY InitTypeOK DEF Init, NobodysRows
<1>2. TypeOK /\ NobodysRows /\ [Next]_vars => TypeOK' /\ NobodysRows'
  BY NextTypeOK, NextNobodysRows
<1>3. TypeOK /\ NobodysRows /\ [Next]_vars =>
        [\A s \in Students :
           /\ UsedUp(s) => UsedUp(s)' /\ AttemptsOf(s)' = AttemptsOf(s)
           /\ Withdrawn(s) => (Withdrawn(s) \/ Offered(s))' /\ AttemptsOf(s)' = AttemptsOf(s)]_vars
  BY StepStaysBarred, Zenon
<1>4. QED
  BY <1>1, <1>2, <1>3, PTL DEF Spec, StartsStayBarred

-----------------------------------------------------------------------------
(* The number of attempts.                                                 *)

\* No two starts of one student are between their count and their insert.
InsertsApart ==
  \A r1, r2 \in Requests :
    /\ req[r1].at = "insert_attempt" /\ req[r2].at = "insert_attempt"
    /\ req[r1].student = req[r2].student
    => r1 = r2

\* A start that has counted holds the number of its student's attempts still.
CountIsCurrent ==
  \A r \in Requests : req[r].at = "insert_attempt" =>
    /\ req[r].count = Cardinality(AttemptsOf(req[r].student))
    /\ req[r].count < MaxAttempts

\* The attempts of a student are numbered from one up to how many there are.
Numbered ==
  \A s \in Students :
    /\ Cardinality(AttemptsOf(s)) <= MaxAttempts
    /\ \A a \in AttemptsOf(s) : number[a] \in 1..Cardinality(AttemptsOf(s))
    /\ \A a, b \in AttemptsOf(s) : number[a] = number[b] => a = b

LimitInv == TypeOK /\ NobodysRows /\ CountIsCurrent /\ Numbered

LEMMA InitLimitInv == Init => LimitInv
<1> SUFFICES ASSUME Init PROVE LimitInv
  OBVIOUS
<1>1. TypeOK
  BY InitTypeOK
<1>2. \A s \in Students : AttemptsOf(s) = {}
  BY NoStudentNull DEF Init, AttemptsOf
<1>3. Numbered
  BY <1>2, FS_EmptySet, ConstantsAssumption DEF Numbered
<1>4. NobodysRows /\ CountIsCurrent
  BY DEF Init, NobodysRows, CountIsCurrent, Idle
<1>5. QED
  BY <1>1, <1>3, <1>4 DEF LimitInv

\* An insert gives its student one attempt more, with the number that follows
\* the count.
LEMMA InsertCounts ==
  ASSUME LimitInv, NEW r \in Requests, InsertAttempt(r)
  PROVE  \/ UNCHANGED <<status, student, number>>
         \/ \E a \in Attempts : \E s \in Students :
              LET n == Cardinality(AttemptsOf(s)) IN
              /\ s = req[r].student
              /\ a \notin AttemptsOf(s)
              /\ status[a] = "none"
              /\ status' = [status EXCEPT ![a] = "in_progress"]
              /\ student' = [student EXCEPT ![a] = s]
              /\ number' = [number EXCEPT ![a] = n + 1]
              /\ n \in Nat /\ n < MaxAttempts
              /\ AttemptsOf(s)' = AttemptsOf(s) \union {a}
              /\ Cardinality(AttemptsOf(s))' = n + 1
              /\ \A t \in Students \ {s} : AttemptsOf(t)' = AttemptsOf(t)
<1>1. req[r] \in InsertStates
  BY RequestShape DEF LimitInv, TypeOK, InsertAttempt
<1>2. PICK s \in Students : s = req[r].student
  BY <1>1 DEF InsertStates
<1>3. CASE ~UniqueIndexAdmits(s)
  BY <1>2, <1>3 DEF InsertAttempt, rowVars
<1>4. CASE UniqueIndexAdmits(s)
  <2> DEFINE n == Cardinality(AttemptsOf(s))
  <2>1. PICK a \in Attempts :
          /\ status[a] = "none"
          /\ status' = [status EXCEPT ![a] = "in_progress"]
          /\ student' = [student EXCEPT ![a] = s]
          /\ number' = [number EXCEPT ![a] = req[r].count + 1]
    BY <1>2, <1>4 DEF InsertAttempt
  <2>2. req[r].count = n /\ n < MaxAttempts
    BY <1>2 DEF LimitInv, CountIsCurrent, InsertAttempt
  <2>3. student[a] = Null /\ student \in [Attempts -> Students \union {Null}]
    BY <2>1 DEF LimitInv, NobodysRows, TypeOK
  <2>4. a \notin AttemptsOf(s)
    BY <2>3, NoStudentNull DEF AttemptsOf
  <2>5. AttemptsOf(s)' = AttemptsOf(s) \union {a}
    BY <2>1, <2>3 DEF AttemptsOf
  <2>6. \A t \in Students \ {s} : AttemptsOf(t)' = AttemptsOf(t)
    BY <2>1, <2>3, NoStudentNull DEF AttemptsOf
  <2>7. IsFiniteSet(AttemptsOf(s))
    BY ConstantsAssumption, FS_Subset DEF AttemptsOf
  <2>8. Cardinality(AttemptsOf(s) \union {a}) = n + 1
    BY <2>4, <2>7, FS_AddElement
  <2>9. Cardinality(AttemptsOf(s))' = n + 1
    BY <2>5, <2>8
  <2>10. n \in Nat
    BY CountType
  <2>11. QED
    BY <1>2, <2>1, <2>2, <2>4, <2>5, <2>6, <2>9, <2>10
<1>5. QED
  BY <1>3, <1>4

LEMMA InsertLimit ==
  ASSUME LimitInv, InsertsApart, NEW r \in Requests, InsertAttempt(r), TypeOK'
  PROVE  LimitInv'
<1>0. /\ TypeOK /\ NobodysRows /\ CountIsCurrent /\ Numbered
      /\ req' = [req EXCEPT ![r] = Idle] /\ MaxAttempts \in Nat
  BY ConstantsAssumption DEF LimitInv, InsertAttempt, Continue
<1>1. CASE UNCHANGED <<status, student, number>>
  <2>1. \A s : AttemptsOf(s)' = AttemptsOf(s)
    BY <1>1 DEF AttemptsOf
  <2>2. Numbered' /\ NobodysRows'
    BY <1>0, <1>1, <2>1 DEF Numbered, NobodysRows
  <2>3. CountIsCurrent'
    BY <1>0, <2>1 DEF CountIsCurrent, TypeOK, Idle
  <2>4. QED
    BY <2>2, <2>3 DEF LimitInv
<1>2. ASSUME NEW a \in Attempts, NEW s \in Students,
             s = req[r].student, a \notin AttemptsOf(s),
             status' = [status EXCEPT ![a] = "in_progress"],
             student' = [student EXCEPT ![a] = s],
             number' = [number EXCEPT ![a] = Cardinality(AttemptsOf(s)) + 1],
             Cardinality(AttemptsOf(s)) \in Nat, Cardinality(AttemptsOf(s)) < MaxAttempts,
             AttemptsOf(s)' = AttemptsOf(s) \union {a},
             Cardinality(AttemptsOf(s))' = Cardinality(AttemptsOf(s)) + 1,
             status[a] = "none",
             \A t \in Students \ {s} : AttemptsOf(t)' = AttemptsOf(t)
      PROVE  LimitInv'
  <2> DEFINE n == Cardinality(AttemptsOf(s))
  <2>1. NobodysRows'
    BY <1>0, <1>2 DEF NobodysRows, TypeOK
  <2>2. CountIsCurrent'
    <3>1. ASSUME NEW x \in Requests, req'[x].at = "insert_attempt"
          PROVE  /\ req'[x].count = Cardinality(AttemptsOf(req[x].student))'
                 /\ req'[x].count < MaxAttempts
      <4>1. x # r /\ req'[x] = req[x]
        BY <1>0, <3>1 DEF TypeOK, Idle
      <4>2. PICK t \in Students : t = req[x].student
        BY <1>0, <3>1, <4>1, RequestShape DEF TypeOK, InsertStates
      <4>3. t # s
        BY <1>2, <3>1, <4>1, <4>2 DEF InsertsApart, InsertAttempt
      <4>4. {b \in Attempts : student'[b] = t} = {b \in Attempts : student[b] = t}
        BY <1>2, <4>3 DEF AttemptsOf
      <4>5. req[x].count = Cardinality(AttemptsOf(t)) /\ req[x].count < MaxAttempts
        BY <1>0, <3>1, <4>1, <4>2 DEF CountIsCurrent
      <4>6. QED
        BY <4>1, <4>2, <4>4, <4>5 DEF AttemptsOf
    <3>2. QED
      BY <3>1 DEF CountIsCurrent
  <2>3. Numbered'
    <3>1. SUFFICES ASSUME NEW t \in Students
                   PROVE  /\ Cardinality(AttemptsOf(t))' <= MaxAttempts
                          /\ \A b \in AttemptsOf(t)' : number'[b] \in 1..Cardinality(AttemptsOf(t))'
                          /\ \A b, c \in AttemptsOf(t)' : number'[b] = number'[c] => b = c
      BY DEF Numbered
    <3>2. CASE t # s
      <4>1. AttemptsOf(t)' = AttemptsOf(t) /\ Cardinality(AttemptsOf(t))' = Cardinality(AttemptsOf(t))
        BY <1>2, <3>2
      <4>2. \A b \in AttemptsOf(t) : number'[b] = number[b]
        <5>1. a \notin AttemptsOf(t)
          BY <1>0, <1>2, NoStudentNull DEF NobodysRows, AttemptsOf
        <5>2. QED
          BY <1>0, <1>2, <5>1 DEF TypeOK, AttemptsOf
      <4>3. QED
        BY <1>0, <4>1, <4>2 DEF Numbered
    <3>3. CASE t = s
      <4>1. /\ number'[a] = n + 1
            /\ \A b \in AttemptsOf(s) : number'[b] = number[b] /\ number[b] \in 1..n
        BY <1>0, <1>2 DEF TypeOK, AttemptsOf, Numbered
      <4>2. \A b \in AttemptsOf(s) : number'[b] \in 1..n + 1 /\ number'[b] # n + 1
        BY <1>2, <4>1
      <4>3. \A b, c \in AttemptsOf(s) : number'[b] = number'[c] => b = c
        BY <1>0, <4>1 DEF Numbered
      <4>4. n + 1 \in 1..n + 1 /\ n + 1 <= MaxAttempts
        BY <1>0, <1>2
      <4>5. /\ n + 1 <= MaxAttempts
            /\ \A b \in AttemptsOf(s) \union {a} : number'[b] \in 1..n + 1
            /\ \A b, c \in AttemptsOf(s) \union {a} : number'[b] = number'[c] => b = c
        BY <4>1, <4>2, <4>3, <4>4
      <4>6. AttemptsOf(t)' = AttemptsOf(s) \union {a} /\ Cardinality(AttemptsOf(t))' = n + 1
        BY <1>2, <3>3
      <4>7. QED
        BY <4>5, <4>6
    <3>4. QED
      BY <3>2, <3>3
  <2>4. QED
    BY <2>1, <2>2, <2>3 DEF LimitInv
<1>3. QED
  BY <1>1, <1>2, InsertCounts

\* Besides an insert, only CountAttempts has anything to do with the count.
LEMMA OtherLimit ==
  ASSUME LimitInv, TypeOK', UNCHANGED <<student, number>>,
         \A a \in Attempts : status[a] # "none" => status'[a] # "none",
         \A r \in Requests : req'[r].at = "insert_attempt" =>
           req'[r] = req[r] \/ CountAttempts(r)
  PROVE  LimitInv'
<1>0. TypeOK /\ NobodysRows /\ CountIsCurrent /\ Numbered
  BY DEF LimitInv
<1>1. \A s : AttemptsOf(s)' = AttemptsOf(s)
  BY DEF AttemptsOf
<1>2. Numbered' /\ NobodysRows'
  BY <1>0, <1>1 DEF Numbered, NobodysRows, TypeOK
<1>3. CountIsCurrent'
  <2>1. ASSUME NEW r \in Requests, req'[r].at = "insert_attempt"
        PROVE  /\ req'[r].count = Cardinality(AttemptsOf(req[r].student))'
               /\ req'[r].count < MaxAttempts
    <3> DEFINE s == req[r].student
               n == Cardinality(AttemptsOf(s))
    <3>1. n \in Nat
      BY CountType
    <3>2. req'[r].student = s /\ req'[r].count = n /\ n < MaxAttempts
      <4>1. CASE req'[r] = req[r]
        BY <1>0, <2>1, <4>1 DEF CountIsCurrent
      <4>2. CASE CountAttempts(r)
        <5>1. req'[r] = IF LimitReached(n) THEN Idle
                        ELSE [at |-> "insert_attempt", student |-> s, count |-> n]
          BY <1>0, <4>2 DEF CountAttempts, Continue, TypeOK
        <5>2. ~LimitReached(n)
          BY <2>1, <5>1 DEF Idle
        <5>3. QED
          BY <3>1, <5>1, <5>2, ConstantsAssumption DEF LimitReached
      <4>3. QED
        BY <2>1, <4>1, <4>2
    <3>3. QED
      BY <3>2 DEF AttemptsOf
  <2>2. QED
    BY <2>1 DEF CountIsCurrent
<1>4. QED
  BY <1>2, <1>3 DEF LimitInv

LEMMA NextLimitInv == LimitInv /\ InsertsApart /\ [Next]_vars => LimitInv'
<1> SUFFICES ASSUME LimitInv, InsertsApart, [Next]_vars PROVE LimitInv'
  OBVIOUS
<1>0. TypeOK /\ TypeOK'
  BY NextTypeOK DEF LimitInv
<1>1. ASSUME NEW r \in Requests, Step(r) \/ NewRequest(r) \/ FailRequest(r), ~InsertAttempt(r)
      PROVE  LimitInv'
  <2>1. UNCHANGED <<student, number>> /\ \A a \in Attempts : status[a] # "none" => status'[a] # "none"
    <3>1. UNCHANGED <<student, number>>
      BY <1>1, NewRequestWritesNothing
         DEF Step, UnchangedTables, attemptVars, rowVars, FindExisting, ListAssignments,
             CountAttempts, WriteAnswer, LockAttempt, LogLock, ClearLock, LogUnlock, ReadAnswers,
             GradeQuestion, CloseAttempt, WriteGrade, SumPoints, WriteTotal
    <3>2. QED
      BY <1>0, <3>1, StepKeeps DEF Kept
  <2>2. \A x \in Requests : req'[x].at = "insert_attempt" => req'[x] = req[x] \/ CountAttempts(x)
    BY <1>0, <1>1, Arrivals, MovesOnlyItself
  <2>3. QED
    BY <1>0, <2>1, <2>2, OtherLimit
<1>2. ASSUME NEW r \in Requests, InsertAttempt(r)
      PROVE  LimitInv'
  BY <1>0, <1>2, InsertLimit
<1>3. CASE \/ \E a \in Attempts : DeadlinePasses(a)
           \/ \E b \in BOOLEAN : SetPublished(b)
           \/ \E s \in Students : SetAssigned(s)
           \/ UNCHANGED vars
  <2>1. UNCHANGED <<student, number, status, req>>
    BY <1>3 DEF DeadlinePasses, SetPublished, SetAssigned, vars, attemptVars, rowVars
  <2>2. QED
    BY <1>0, <2>1, OtherLimit
<1>4. QED
  BY <1>1, <1>2, <1>3 DEF Next, AnswerWithoutChange

\* A student gets no more attempts than the quiz allows, each with a number of
\* its own, whatever else overlaps and fails, as long as no two starts of one
\* student are between countForStudent and the insert (startAttempt).
THEOREM LimitIsKept == Spec /\ []InsertsApart => []AttemptsWithinLimit
<1>1. LimitInv => AttemptsWithinLimit
  BY DEF LimitInv, Numbered, AttemptsWithinLimit
<1>2. QED
  BY <1>1, InitLimitInv, NextLimitInv, PTL DEF Spec

-----------------------------------------------------------------------------
(* Passed or not.                                                          *)

\* No answer is graded by a teacher while finalizeAttempt grades its attempt.
GradingsApart ==
  \A r1, r2 \in Requests :
    Closing(r1) /\ Grading(r2) => req[r1].attempt # req[r2].attempt

\* gradeAnswer on a finished attempt holds the attempt's maximum.
MaximumIsRead ==
  \A r \in Requests : Grading(r) /\ Finished(req[r].attempt) =>
    req[r].maxScore = snapshot[req[r].attempt]

PassedFits == \A a \in Attempts : Finished(a) => passed[a] = Passes(score[a], snapshot[a])

VerdictInv == IInv /\ MaximumIsRead /\ PassedFits

LEMMA GradingShape ==
  ASSUME TypeOK, NEW r \in Requests, Grading(r)
  PROVE  req[r].attempt \in Attempts
<1>1. req[r] \in RequestStates
  BY DEF TypeOK
<1>2. QED
  BY <1>1, RequestShape DEF Grading, AwardStates, SumStates, TotalStates

LEMMA InitVerdictInv == Init => VerdictInv
BY InitIInv DEF Init, VerdictInv, MaximumIsRead, PassedFits, Grading, Idle, Finished, Verdicts

\* Where the verdict of an attempt comes from.
LEMMA VerdictWriters ==
  ASSUME [Next]_vars
  PROVE  \/ UNCHANGED <<status, snapshot, score, passed>>
         \/ \E r \in Requests : InsertAttempt(r) \/ CloseAttempt(r) \/ WriteTotal(r)
<1>1. ASSUME NEW r \in Requests, Step(r)
      PROVE  \/ UNCHANGED <<status, snapshot, score, passed>>
             \/ InsertAttempt(r) \/ CloseAttempt(r) \/ WriteTotal(r)
  BY <1>1 DEF Step, FindExisting, ListAssignments, CountAttempts, WriteAnswer, LockAttempt,
     LogLock, ClearLock, LogUnlock, ReadAnswers, GradeQuestion, WriteGrade, SumPoints,
     UnchangedTables, attemptVars, rowVars, gradeVars
<1>2. QED
  BY <1>1, NewRequestWritesNothing
     DEF Next, UnchangedTables, attemptVars, rowVars, gradeVars, DeadlinePasses, SetPublished,
         SetAssigned, AnswerWithoutChange, vars

\* A regrade keeps the maximum it began with, and begins with the one stored.
LEMMA GradingMoves ==
  ASSUME IInv, NEW r \in Requests, Step(r) \/ NewRequest(r) \/ FailRequest(r), Grading(r)'
  PROVE  /\ UNCHANGED <<status, snapshot>>
         /\ \/ /\ Grading(r) /\ req'[r].attempt = req[r].attempt
               /\ req'[r].maxScore = req[r].maxScore
            \/ req'[r].maxScore = maxScore[req'[r].attempt]
<1>0. TypeOK
  BY DEF IInv
<1>1. CASE WriteGrade(r) /\ req'[r].at = "sum_points"
  <2>1. req'[r] = Idle \/ req'[r] = [at |-> "sum_points", attempt |-> req[r].attempt,
                                    maxScore |-> req[r].maxScore]
    BY <1>0, <1>1 DEF WriteGrade, Continue, TypeOK
  <2>2. QED
    BY <1>1, <2>1 DEF WriteGrade, Grading, Idle, attemptVars, rowVars
<1>2. CASE SumPoints(r)
  BY <1>0, <1>2 DEF SumPoints, Continue, TypeOK, Grading, UnchangedTables, attemptVars, rowVars
<1>3. ASSUME NEW a \in Attempts, NEW q \in Questions, NEW p \in Awards, GradeAnswer(r, a, q, p)
      PROVE  UNCHANGED <<status, snapshot>> /\ req'[r].maxScore = maxScore[req'[r].attempt]
  BY <1>0, <1>3 DEF GradeAnswer, Continue, TypeOK, UnchangedTables, attemptVars, rowVars
<1>4. QED
  BY <1>0, <1>1, <1>2, <1>3, Arrivals

LEMMA NextMaximumIsRead ==
  ASSUME VerdictInv, GradingsApart, [Next]_vars, TypeOK'
  PROVE  MaximumIsRead'
<1>0. TypeOK /\ IInv /\ MaximumIsRead /\ GradedWhenFinished
  BY DEF VerdictInv, IInv
<1>1. SUFFICES ASSUME NEW x \in Requests, Grading(x)', Finished(req[x].attempt)'
               PROVE  req'[x].maxScore = snapshot'[req'[x].attempt]
  BY DEF MaximumIsRead
<1>2. req'[x].attempt \in Attempts
  <2>1. req'[x] \in RequestStates
    BY DEF TypeOK
  <2>2. QED
    BY <1>1, <2>1, RequestShape DEF Grading, AwardStates, SumStates, TotalStates
<1>3. PICK b \in Attempts : b = req'[x].attempt
  BY <1>2
<1>4. Finished(b)'
  BY <1>1, <1>3 DEF Finished
<1>5. CASE req'[x] = req[x]
  <2>1. Grading(x)
    BY <1>1, <1>5 DEF Grading
  <2>2. Finished(b)
    <3>1. SUFFICES ASSUME ~Finished(b) PROVE FALSE
      OBVIOUS
    <3>2. PICK r \in Requests : CloseAttempt(r) /\ req[r].attempt = b
      BY <1>0, <1>4, <3>1, FinishesByClosing
    <3>3. Closing(r)
      BY <3>2 DEF CloseAttempt, Closing
    <3>4. QED
      BY <1>3, <1>5, <2>1, <3>2, <3>3 DEF GradingsApart
  <2>3. snapshot'[b] = snapshot[b]
    BY <1>0, <2>2, StepKeeps DEF Kept, Finished, Verdicts
  <2>4. QED
    BY <1>0, <1>3, <1>5, <2>1, <2>2, <2>3 DEF MaximumIsRead
<1>6. CASE Step(x) \/ NewRequest(x) \/ FailRequest(x)
  <2>1. UNCHANGED <<status, snapshot>>
    BY <1>0, <1>1, <1>6, GradingMoves
  <2>2. Finished(b)
    BY <1>4, <2>1 DEF Finished
  <2>3. CASE Grading(x) /\ req'[x].attempt = req[x].attempt /\ req'[x].maxScore = req[x].maxScore
    BY <1>0, <1>3, <2>1, <2>2, <2>3 DEF MaximumIsRead
  <2>4. CASE req'[x].maxScore = maxScore[b]
    BY <1>0, <1>3, <2>1, <2>2, <2>4 DEF GradedWhenFinished
  <2>5. QED
    BY <1>0, <1>1, <1>3, <1>6, <2>3, <2>4, GradingMoves
<1>7. QED
  BY <1>0, <1>5, <1>6, MovesOnlyItself
     DEF Next, DeadlinePasses, SetPublished, SetAssigned, AnswerWithoutChange, vars

LEMMA NextPassedFits ==
  ASSUME VerdictInv, [Next]_vars
  PROVE  PassedFits'
<1>0. TypeOK /\ IInv /\ MaximumIsRead /\ PassedFits
  BY DEF VerdictInv, IInv
<1>1. SUFFICES ASSUME NEW b \in Attempts, Finished(b)'
               PROVE  passed'[b] = Passes(score'[b], snapshot'[b])
  BY DEF PassedFits, Passes
<1>2. CASE UNCHANGED <<status, snapshot, score, passed>>
  BY <1>0, <1>1, <1>2 DEF PassedFits, Finished
<1>3. ASSUME NEW r \in Requests, InsertAttempt(r)
      PROVE  passed'[b] = Passes(score'[b], snapshot'[b])
  <2>1. UNCHANGED <<score, passed>>
    BY <1>3 DEF InsertAttempt, gradeVars
  <2>2. Finished(b) /\ snapshot'[b] = snapshot[b]
    BY <1>0, <1>1, <1>3, InsertEffect DEF Finished, Verdicts, TypeOK
  <2>3. QED
    BY <1>0, <2>1, <2>2 DEF PassedFits
<1>4. ASSUME NEW r \in Requests, CloseAttempt(r)
      PROVE  passed'[b] = Passes(score'[b], snapshot'[b])
  <2>1. PICK a \in Attempts : a = req[r].attempt
    BY <1>0, <1>4, CloseEffect
  <2>2. /\ status' = [status EXCEPT ![a] = req[r].verdict]
        /\ score' = [score EXCEPT ![a] = req[r].score]
        /\ passed' = [passed EXCEPT ![a] = Passes(req[r].score, snapshot[a])]
        /\ snapshot' = snapshot
    BY <1>4, <2>1 DEF CloseAttempt, rowVars
  <2>3. CASE b = a
    BY <1>0, <2>2, <2>3 DEF TypeOK
  <2>4. CASE b # a
    BY <1>0, <1>1, <2>2, <2>4 DEF TypeOK, PassedFits, Finished
  <2>5. QED
    BY <2>3, <2>4
<1>5. ASSUME NEW r \in Requests, WriteTotal(r)
      PROVE  passed'[b] = Passes(score'[b], snapshot'[b])
  <2>1. Grading(r)
    BY <1>5 DEF WriteTotal, Grading
  <2>2. PICK a \in Attempts : a = req[r].attempt
    BY <1>0, <2>1, GradingShape
  <2>3. /\ score' = [score EXCEPT ![a] = req[r].score]
        /\ passed' = [passed EXCEPT ![a] = Passes(req[r].score, req[r].maxScore)]
        /\ UNCHANGED <<status, snapshot>>
    BY <1>5, <2>2 DEF WriteTotal, rowVars
  <2>4. Finished(b)
    BY <1>1, <2>3 DEF Finished
  <2>5. CASE b = a
    <3>1. req[r].maxScore = snapshot[a]
      BY <1>0, <2>1, <2>2, <2>4, <2>5 DEF MaximumIsRead
    <3>2. QED
      BY <1>0, <2>3, <2>5, <3>1 DEF TypeOK
  <2>6. CASE b # a
    BY <1>0, <2>3, <2>4, <2>6 DEF TypeOK, PassedFits
  <2>7. QED
    BY <2>5, <2>6
<1>6. QED
  BY <1>2, <1>3, <1>4, <1>5, VerdictWriters

\* "Passed" follows from the total that is stored beside it, as long as no teacher
\* grades an answer while its attempt is being closed (gradeAnswer uses the
\* maximum it read at first). Gradings may overlap, and any of them may fail.
THEOREM VerdictFollowsScore == Spec /\ []GradingsApart => []PassedMatchesScore
<1>1. VerdictInv => PassedMatchesScore
  BY DEF VerdictInv, PassedFits, PassedMatchesScore
<1>2. VerdictInv /\ GradingsApart /\ [Next]_vars => VerdictInv'
  <2> SUFFICES ASSUME VerdictInv, GradingsApart, [Next]_vars PROVE VerdictInv'
    OBVIOUS
  <2>1. IInv' /\ TypeOK'
    BY NextIInv DEF VerdictInv, IInv
  <2>2. QED
    BY <2>1, NextMaximumIsRead, NextPassedFits DEF VerdictInv
<1>3. QED
  BY <1>1, <1>2, InitVerdictInv, PTL DEF Spec

-----------------------------------------------------------------------------
(* The total.                                                              *)

\* No two requests close or grade one attempt at a time, ...
Scoring(r) == Closing(r) \/ Grading(r)

ScoringApart ==
  \A r1, r2 \in Requests :
    Scoring(r1) /\ Scoring(r2) /\ req[r1].attempt = req[r2].attempt => r1 = r2

\* ... and a grading that was begun is carried out.
GradingsFinish == [][\A r \in Requests : Grading(r) /\ FailRequest(r) => Step(r)]_vars

\* Only an attempt in progress is being closed.
ClosingIsOpen == \A r \in Requests : Closing(r) => status[req[r].attempt] = "in_progress"

\* gradeAttempt holds the points it has stored.
GradedSoFar ==
  \A r \in Requests : req[r].at = "grade_answers" =>
    LET a == req[r].attempt IN
    \A q \in Questions :
      req[r].score[q] = IF q \in snapshot[a] \ req[r].todo THEN points[a][q] ELSE 0

\* The sum that gradeAnswer is about to write is the one of the answers as they are.
SumIsCurrent ==
  \A r \in Requests : req[r].at = "write_total" => req[r].score = PointsOf(req[r].attempt)

\* A finished attempt has the total of its answers, or a regrade is about to write it.
TotalFits ==
  \A a \in Attempts : Finished(a) =>
    \/ score[a] = PointsOf(a)
    \/ \E r \in Requests : req[r].at \in {"sum_points", "write_total"} /\ req[r].attempt = a

ScoreInv == IInv /\ ClosingIsOpen /\ GradedSoFar /\ SumIsCurrent /\ TotalFits

LEMMA InitScoreInv == Init => ScoreInv
<1> SUFFICES ASSUME Init PROVE ScoreInv
  OBVIOUS
<1>1. \A r \in Requests : req[r].at = "idle"
  BY DEF Init, Idle
<1>2. \A a \in Attempts : ~Finished(a)
  BY DEF Init, Finished, Verdicts
<1>3. QED
  BY <1>1, <1>2, InitIInv
     DEF ScoreInv, ClosingIsOpen, GradedSoFar, SumIsCurrent, TotalFits, Closing

\* Steps that write no points and no total, and leave the requests that add up
\* points where they are.
LEMMA ScoreLeftAlone ==
  ASSUME ScoreInv, IInv', UNCHANGED <<status, snapshot, points, score>>,
         \A r \in Requests :
           \/ req'[r] = req[r]
           \/ /\ req[r].at \notin {"sum_points", "write_total"}
              /\ req'[r].at \notin {"grade_answers", "sum_points", "write_total"}
              /\ Closing(r)' => status[req'[r].attempt] = "in_progress"
  PROVE  ScoreInv'
<1>0. ClosingIsOpen /\ GradedSoFar /\ SumIsCurrent /\ TotalFits
  BY DEF ScoreInv
<1>1. ClosingIsOpen'
  BY <1>0 DEF ClosingIsOpen, Closing
<1>2. GradedSoFar'
  BY <1>0 DEF GradedSoFar
<1>3. SumIsCurrent'
  BY <1>0 DEF SumIsCurrent, PointsOf, Graded
<1>4. TotalFits'
  BY <1>0 DEF TotalFits, PointsOf, Graded, Finished
<1>5. QED
  BY <1>1, <1>2, <1>3, <1>4 DEF ScoreInv

\* finalizeAttempt begins: the points are still to be added up.
LEMMA ScoreReadAnswers ==
  ASSUME ScoreInv, IInv', NEW r \in Requests, ReadAnswers(r)
  PROVE  ScoreInv'
<1>0. TypeOK /\ ClosingIsOpen /\ GradedSoFar /\ SumIsCurrent /\ TotalFits
  BY DEF ScoreInv, IInv
<1>1. PICK a \in Attempts : a = req[r].attempt
  BY <1>0, RequestShape DEF ReadAnswers, TypeOK, ReadStates
<1>2. /\ req' = [req EXCEPT ![r] = ToGrade(r, content[a], snapshot[a], [q \in Questions |-> 0])]
      /\ UNCHANGED <<status, snapshot, points, score>>
  BY <1>1 DEF ReadAnswers, Continue, UnchangedTables, attemptVars, rowVars, gradeVars, answerVars
<1>3. /\ req'[r].at = "grade_answers" /\ req'[r].attempt = a
      /\ req'[r].score = [q \in Questions |-> 0] /\ req'[r].todo = snapshot[a]
      /\ \A x \in Requests \ {r} : req'[x] = req[x]
  BY <1>0, <1>1, <1>2 DEF TypeOK, ToGrade
<1>4. status[a] = "in_progress"
  BY <1>0, <1>1 DEF ClosingIsOpen, Closing, ReadAnswers
<1>5. ClosingIsOpen'
  BY <1>0, <1>2, <1>3, <1>4 DEF ClosingIsOpen, Closing
<1>6. GradedSoFar'
  BY <1>0, <1>2, <1>3 DEF GradedSoFar
<1>7. SumIsCurrent'
  BY <1>0, <1>2, <1>3 DEF SumIsCurrent, PointsOf, Graded
<1>8. TotalFits'
  BY <1>0, <1>2, <1>3 DEF TotalFits, PointsOf, Graded, Finished, ReadAnswers
<1>9. QED
  BY <1>5, <1>6, <1>7, <1>8 DEF ScoreInv

\* gradeAttempt stores the points of one question and adds them to what it holds.
LEMMA ScoreGradeQuestion ==
  ASSUME ScoreInv, IInv', ScoringApart, NEW r \in Requests, NEW p \in Questions,
         GradeQuestion(r, p)
  PROVE  ScoreInv'
<1>0. TypeOK /\ IInv /\ ClosingIsOpen /\ GradedSoFar /\ SumIsCurrent /\ TotalFits
  BY DEF ScoreInv, IInv
<1>1. PICK a \in Attempts : a = req[r].attempt
  BY <1>0, GradeEffect
<1>2. PICK n \in Nat :
        /\ points' = [points EXCEPT ![a][p] = n]
        /\ req' = [req EXCEPT ![r] = ToGrade(r, req[r].seen, req[r].todo \ {p},
                                            [req[r].score EXCEPT ![p] = n])]
  <2>1. PICK n \in Nat :
          /\ points' = [points EXCEPT ![req[r].attempt][p] = n]
          /\ req' = [req EXCEPT ![r] = ToGrade(r, req[r].seen, req[r].todo \ {p},
                                              [req[r].score EXCEPT ![p] = n])]
    BY <1>0, GradeEffect, Zenon
  <2>2. QED
    BY <1>1, <2>1
<1>3. /\ Closing(r) /\ req[r].at = "grade_answers" /\ p \in req[r].todo
      /\ UNCHANGED <<status, snapshot, score>>
  BY <1>0, GradeEffect DEF GradeQuestion, attemptVars, gradeVars
<1>4. req[r].score \in [Questions -> Nat] /\ req[r].todo \subseteq snapshot[a]
  BY <1>0, <1>1, <1>3, RequestShape DEF TypeOK, GradeStates, IInv, RequestsFit, ClosingFits
<1>5. /\ req'[r].at = "grade_answers" /\ req'[r].attempt = a
      /\ req'[r].score = [req[r].score EXCEPT ![p] = n] /\ req'[r].todo = req[r].todo \ {p}
      /\ \A x \in Requests \ {r} : req'[x] = req[x]
  BY <1>0, <1>1, <1>2 DEF TypeOK, ToGrade
<1>6. \A x \in Requests \ {r} : Scoring(x) => req[x].attempt # a
  BY <1>1, <1>3 DEF ScoringApart, Scoring
<1>7. \A b \in Attempts \ {a} : points'[b] = points[b]
  BY <1>0, <1>2 DEF TypeOK
<1>8. \A q \in Questions : points'[a][q] = IF q = p THEN n ELSE points[a][q]
  BY <1>0, <1>2 DEF TypeOK
<1>9. ClosingIsOpen'
  BY <1>0, <1>1, <1>3, <1>5 DEF ClosingIsOpen, Closing
<1>10. GradedSoFar'
  <2>1. ASSUME NEW x \in Requests, req'[x].at = "grade_answers", NEW q \in Questions
        PROVE  req'[x].score[q] = IF q \in snapshot[req'[x].attempt] \ req'[x].todo
                                    THEN points'[req'[x].attempt][q] ELSE 0
    <3>1. CASE x = r
      BY <1>0, <1>1, <1>3, <1>4, <1>5, <1>8, <2>1, <3>1 DEF GradedSoFar
    <3>2. CASE x # r
      <4>1. PICK b \in Attempts : b = req[x].attempt
        BY <1>0, <1>5, <2>1, <3>2, RequestShape DEF TypeOK, GradeStates
      <4>2. b # a
        BY <1>5, <1>6, <2>1, <3>2, <4>1 DEF Scoring, Closing
      <4>3. QED
        BY <1>0, <1>5, <1>7, <2>1, <3>2, <4>1, <4>2 DEF GradedSoFar
    <3>3. QED
      BY <3>1, <3>2
  <2>2. QED
    BY <1>3, <2>1 DEF GradedSoFar
<1>11. SumIsCurrent'
  <2>1. ASSUME NEW x \in Requests, req'[x].at = "write_total"
        PROVE  req'[x].score = PointsOf(req[x].attempt)'
    <3>1. x # r /\ req'[x] = req[x]
      BY <1>5, <2>1
    <3>2. PICK b \in Attempts : b = req[x].attempt
      BY <1>0, <2>1, <3>1, RequestShape DEF TypeOK, TotalStates
    <3>3. b # a
      BY <1>6, <2>1, <3>1, <3>2 DEF Scoring, Grading
    <3>4. req[x].score = PointsOf(b)
      BY <1>0, <2>1, <3>1, <3>2 DEF SumIsCurrent
    <3>5. QED
      BY <1>7, <3>1, <3>2, <3>3, <3>4 DEF PointsOf, Graded
  <2>2. QED
    BY <2>1 DEF SumIsCurrent
<1>12. TotalFits'
  <2>1. ASSUME NEW b \in Attempts, Finished(b)'
        PROVE  \/ score'[b] = PointsOf(b)'
               \/ \E x \in Requests :
                    req'[x].at \in {"sum_points", "write_total"} /\ req'[x].attempt = b
    <3>1. b # a /\ Finished(b)
      BY <1>0, <1>1, <1>3, <2>1 DEF ClosingIsOpen, Finished, Verdicts
    <3>2. PointsOf(b)' = PointsOf(b) /\ score'[b] = score[b]
      BY <1>3, <1>7, <3>1 DEF PointsOf, Graded
    <3>3. QED
      BY <1>0, <1>3, <1>5, <3>1, <3>2 DEF TotalFits
  <2>2. QED
    BY <2>1 DEF TotalFits
<1>13. QED
  BY <1>9, <1>10, <1>11, <1>12 DEF ScoreInv

\* The attempt is closed with the points that were stored for its questions.
LEMMA ScoreCloseAttempt ==
  ASSUME ScoreInv, IInv', ScoringApart, NEW r \in Requests, CloseAttempt(r)
  PROVE  ScoreInv'
<1>0. /\ TypeOK /\ IInv /\ ClosingIsOpen /\ GradedSoFar /\ SumIsCurrent /\ TotalFits
      /\ RowsFit /\ RequestsFit
  BY DEF ScoreInv, IInv
<1>1. PICK a \in Attempts : a = req[r].attempt
  BY <1>0, CloseEffect
<1>2. /\ Closing(r) /\ req[r].at = "grade_answers" /\ req[r].todo = {}
      /\ status' = [status EXCEPT ![a] = req[r].verdict]
      /\ score' = [score EXCEPT ![a] = req[r].score]
      /\ UNCHANGED <<snapshot, content, points>>
      /\ req[r].then \in Continuations /\ req' = [req EXCEPT ![r] = req[r].then]
  BY <1>0, <1>1, CloseEffect DEF CloseAttempt
<1>3. req[r].score \in [Questions -> Nat] /\ points \in [Attempts -> [Questions -> Nat \union {Null}]]
  BY <1>0, <1>2, RequestShape DEF TypeOK, GradeStates
<1>4. /\ req'[r].at \notin {"read_answers", "grade_answers", "sum_points", "write_total"}
      /\ \A x \in Requests \ {r} : req'[x] = req[x]
  BY <1>0, <1>2 DEF TypeOK, Continuations, Idle, StartStates
<1>5. \A x \in Requests \ {r} : Scoring(x) => req[x].attempt # a
  BY <1>1, <1>2 DEF ScoringApart, Scoring
<1>6. ClosingIsOpen'
  <2>1. ASSUME NEW x \in Requests, Closing(x)'
        PROVE  status'[req'[x].attempt] = "in_progress"
    <3>1. x # r /\ req'[x] = req[x] /\ Closing(x)
      BY <1>4, <2>1 DEF Closing
    <3>2. req[x].attempt # a /\ status[req[x].attempt] = "in_progress"
      BY <1>0, <1>5, <3>1 DEF ClosingIsOpen, Scoring
    <3>3. QED
      BY <1>2, <3>1, <3>2 DEF TypeOK
  <2>2. QED
    BY <2>1 DEF ClosingIsOpen
<1>7. GradedSoFar'
  BY <1>0, <1>2, <1>4 DEF GradedSoFar
<1>8. SumIsCurrent'
  BY <1>0, <1>2, <1>4 DEF SumIsCurrent, PointsOf, Graded
<1>9. req[r].score = PointsOf(a)
  <2>1. \A q \in Questions : req[r].score[q] = IF q \in snapshot[a] THEN points[a][q] ELSE 0
    BY <1>0, <1>1, <1>2 DEF GradedSoFar
  <2>2. \A q \in Questions : Graded(a, q) <=> q \in snapshot[a]
    BY <1>0, <1>1, <1>2 DEF RowsFit, RequestsFit, ClosingFits, TypeOK
  <2>3. \A q \in Questions : req[r].score[q] = PointsOf(a)[q]
    BY <2>1, <2>2 DEF PointsOf
  <2>4. QED
    BY <1>3, <2>3 DEF PointsOf
<1>10. TotalFits'
  <2>1. ASSUME NEW b \in Attempts, Finished(b)'
        PROVE  \/ score'[b] = PointsOf(b)'
               \/ \E x \in Requests :
                    req'[x].at \in {"sum_points", "write_total"} /\ req'[x].attempt = b
    <3>1. PointsOf(b)' = PointsOf(b)
      BY <1>2 DEF PointsOf, Graded
    <3>2. CASE b = a
      BY <1>0, <1>2, <1>9, <3>1, <3>2 DEF TypeOK
    <3>3. CASE b # a
      <4>1. Finished(b) /\ score'[b] = score[b]
        BY <1>0, <1>2, <2>1, <3>3 DEF Finished, TypeOK
      <4>2. QED
        BY <1>0, <1>2, <1>4, <3>1, <4>1 DEF TotalFits
    <3>4. QED
      BY <3>2, <3>3
  <2>2. QED
    BY <2>1 DEF TotalFits
<1>11. QED
  BY <1>6, <1>7, <1>8, <1>10 DEF ScoreInv

\* A teacher's points are stored; the total is to be added up again.
LEMMA ScoreWriteGrade ==
  ASSUME ScoreInv, IInv', ScoringApart, NEW r \in Requests, WriteGrade(r)
  PROVE  ScoreInv'
<1>0. TypeOK /\ IInv /\ ClosingIsOpen /\ GradedSoFar /\ SumIsCurrent /\ TotalFits
  BY DEF ScoreInv, IInv
<1>1. PICK a \in Attempts, p \in Questions, n \in Nat :
        a = req[r].attempt /\ p = req[r].question /\ n = req[r].award
  BY <1>0, RequestShape DEF TypeOK, WriteGrade, AwardStates
<1>2. /\ req[r].at = "write_grade" /\ Grading(r) /\ ~Closing(r)
      /\ UNCHANGED <<status, snapshot, score>>
  BY DEF WriteGrade, Grading, Closing, attemptVars, rowVars, gradeVars
<1>3. CASE content[a][p] = "none"
  <2>1. UNCHANGED points /\ req' = [req EXCEPT ![r] = Idle]
    BY <1>1, <1>3 DEF WriteGrade, answerVars, Continue
  <2>2. \A x \in Requests : req'[x] = req[x] \/ (x = r /\ req'[x].at = "idle")
    BY <1>0, <2>1 DEF TypeOK, Idle
  <2>3. QED
    BY <1>2, <2>1, <2>2, ScoreLeftAlone DEF Closing
<1>4. CASE content[a][p] # "none"
  <2>1. /\ points' = [points EXCEPT ![a][p] = n]
        /\ req' = [req EXCEPT ![r] = [at |-> "sum_points", attempt |-> a,
                                      maxScore |-> req[r].maxScore]]
    BY <1>1, <1>4 DEF WriteGrade, Continue
  <2>2. /\ req'[r].at = "sum_points" /\ req'[r].attempt = a
        /\ \A x \in Requests \ {r} : req'[x] = req[x]
        /\ \A b \in Attempts \ {a} : points'[b] = points[b]
    BY <1>0, <2>1 DEF TypeOK
  <2>3. \A x \in Requests \ {r} : Scoring(x) => req[x].attempt # a
    BY <1>1, <1>2 DEF ScoringApart, Scoring
  <2>4. ClosingIsOpen'
    BY <1>0, <1>2, <2>2 DEF ClosingIsOpen, Closing
  <2>5. GradedSoFar'
    <3>1. ASSUME NEW x \in Requests, req'[x].at = "grade_answers"
          PROVE  req'[x] = req[x] /\ req[x].attempt \in Attempts \ {a}
      BY <1>0, <2>2, <2>3, <3>1, RequestShape DEF Scoring, Closing, TypeOK, GradeStates
    <3>2. QED
      BY <1>0, <1>2, <2>2, <3>1 DEF GradedSoFar
  <2>6. SumIsCurrent'
    <3>1. ASSUME NEW x \in Requests, req'[x].at = "write_total"
          PROVE  req'[x].score = PointsOf(req[x].attempt)'
      <4>1. x # r /\ req'[x] = req[x]
        BY <2>2, <3>1
      <4>2. PICK b \in Attempts \ {a} : b = req[x].attempt
        BY <1>0, <2>3, <3>1, <4>1, RequestShape DEF TypeOK, TotalStates, Scoring, Grading
      <4>3. req[x].score = PointsOf(b)
        BY <1>0, <3>1, <4>1, <4>2 DEF SumIsCurrent
      <4>4. QED
        BY <2>2, <4>1, <4>2, <4>3 DEF PointsOf, Graded
    <3>2. QED
      BY <3>1 DEF SumIsCurrent
  <2>7. TotalFits'
    <3>1. ASSUME NEW b \in Attempts, Finished(b)'
          PROVE  \/ score'[b] = PointsOf(b)'
                 \/ \E x \in Requests :
                      req'[x].at \in {"sum_points", "write_total"} /\ req'[x].attempt = b
      <4>1. CASE b = a
        BY <2>2, <4>1
      <4>2. CASE b # a
        <5>1. Finished(b) /\ PointsOf(b)' = PointsOf(b) /\ score'[b] = score[b]
          BY <1>2, <2>2, <3>1, <4>2 DEF Finished, PointsOf, Graded
        <5>2. QED
          BY <1>0, <1>2, <2>2, <5>1 DEF TotalFits
      <4>3. QED
        BY <4>1, <4>2
    <3>2. QED
      BY <3>1 DEF TotalFits
  <2>8. QED
    BY <2>4, <2>5, <2>6, <2>7 DEF ScoreInv
<1>5. QED
  BY <1>3, <1>4

LEMMA ScoreSumPoints ==
  ASSUME ScoreInv, IInv', NEW r \in Requests, SumPoints(r)
  PROVE  ScoreInv'
<1>0. TypeOK /\ ClosingIsOpen /\ GradedSoFar /\ SumIsCurrent /\ TotalFits
  BY DEF ScoreInv, IInv
<1>1. PICK a \in Attempts : a = req[r].attempt
  BY <1>0, RequestShape DEF TypeOK, SumPoints, SumStates
<1>2. /\ UNCHANGED <<status, snapshot, points, score>>
      /\ req'[r].at = "write_total" /\ req'[r].attempt = a /\ req'[r].score = PointsOf(a)
      /\ \A x \in Requests \ {r} : req'[x] = req[x]
  BY <1>0, <1>1 DEF TypeOK, SumPoints, Continue, UnchangedTables, attemptVars, rowVars, gradeVars,
                   answerVars
<1>3. ClosingIsOpen' /\ GradedSoFar'
  BY <1>0, <1>2 DEF ClosingIsOpen, GradedSoFar, Closing
<1>4. SumIsCurrent'
  BY <1>0, <1>2 DEF SumIsCurrent, PointsOf, Graded
<1>5. TotalFits'
  BY <1>0, <1>1, <1>2 DEF TotalFits, PointsOf, Graded, Finished
<1>6. QED
  BY <1>3, <1>4, <1>5 DEF ScoreInv

\* The new total is the sum of the answers, since nobody else has touched them.
LEMMA ScoreWriteTotal ==
  ASSUME ScoreInv, IInv', NEW r \in Requests, WriteTotal(r)
  PROVE  ScoreInv'
<1>0. TypeOK /\ ClosingIsOpen /\ GradedSoFar /\ SumIsCurrent /\ TotalFits
  BY DEF ScoreInv, IInv
<1>1. PICK a \in Attempts : a = req[r].attempt
  BY <1>0, RequestShape DEF TypeOK, WriteTotal, TotalStates
<1>2. /\ UNCHANGED <<status, snapshot, points>>
      /\ score' = [score EXCEPT ![a] = req[r].score]
      /\ req'[r].at = "idle" /\ \A x \in Requests \ {r} : req'[x] = req[x]
  BY <1>0, <1>1 DEF TypeOK, WriteTotal, Continue, Idle, rowVars, answerVars
<1>3. req[r].score = PointsOf(a)
  BY <1>0, <1>1 DEF SumIsCurrent, WriteTotal
<1>4. ClosingIsOpen' /\ GradedSoFar'
  BY <1>0, <1>2 DEF ClosingIsOpen, GradedSoFar, Closing
<1>5. SumIsCurrent'
  BY <1>0, <1>2 DEF SumIsCurrent, PointsOf, Graded
<1>6. TotalFits'
  <2>1. ASSUME NEW b \in Attempts, Finished(b)'
        PROVE  \/ score'[b] = PointsOf(b)'
               \/ \E x \in Requests :
                    req'[x].at \in {"sum_points", "write_total"} /\ req'[x].attempt = b
    <3>1. PointsOf(b)' = PointsOf(b) /\ Finished(b)
      BY <1>2, <2>1 DEF PointsOf, Graded, Finished
    <3>2. CASE b = a
      BY <1>0, <1>2, <1>3, <3>1, <3>2 DEF TypeOK
    <3>3. CASE b # a
      <4>1. score'[b] = score[b]
        BY <1>0, <1>2, <3>3 DEF TypeOK
      <4>2. \A x \in Requests : req[x].attempt = b => req'[x] = req[x]
        BY <1>1, <1>2, <3>3
      <4>3. QED
        BY <1>0, <3>1, <4>1, <4>2 DEF TotalFits
    <3>4. QED
      BY <3>2, <3>3
  <2>2. QED
    BY <2>1 DEF TotalFits
<1>7. QED
  BY <1>4, <1>5, <1>6 DEF ScoreInv

\* A row that is inserted has no request yet and no points.
LEMMA ScoreInsertAttempt ==
  ASSUME ScoreInv, IInv', NEW r \in Requests, InsertAttempt(r)
  PROVE  ScoreInv'
<1>0. /\ TypeOK /\ IInv /\ ClosingIsOpen /\ GradedSoFar /\ SumIsCurrent /\ TotalFits
  BY DEF ScoreInv, IInv
<1>1. /\ UNCHANGED <<points, score>> /\ req[r].at = "insert_attempt" /\ req'[r].at = "idle"
      /\ \A x \in Requests \ {r} : req'[x] = req[x]
  BY <1>0 DEF TypeOK, InsertAttempt, Continue, Idle, gradeVars, answerVars
<1>2. \A b \in Attempts : status[b] # "none" => UNCHANGED <<status[b], snapshot[b]>>
  BY <1>0, InsertEffect DEF TypeOK
<1>3. \A b \in Attempts : Finished(b)' => Finished(b)
  BY <1>0, InsertEffect DEF TypeOK, Finished, Verdicts
<1>4. \A x \in Requests : Closing(x) =>
        req[x].attempt \in Attempts /\ status[req[x].attempt] = "in_progress"
  BY <1>0, ClosingShape DEF ClosingIsOpen
<1>5. ClosingIsOpen'
  BY <1>1, <1>2, <1>4 DEF ClosingIsOpen, Closing
<1>6. GradedSoFar'
  <2>1. ASSUME NEW x \in Requests, req'[x].at = "grade_answers"
        PROVE  req'[x] = req[x] /\ snapshot'[req[x].attempt] = snapshot[req[x].attempt]
    BY <1>1, <1>2, <1>4, <2>1 DEF Closing
  <2>2. QED
    BY <1>0, <1>1, <2>1 DEF GradedSoFar
<1>7. SumIsCurrent'
  BY <1>0, <1>1 DEF SumIsCurrent, PointsOf, Graded
<1>8. TotalFits'
  BY <1>0, <1>1, <1>3 DEF TotalFits, PointsOf, Graded
<1>9. QED
  BY <1>5, <1>6, <1>7, <1>8 DEF ScoreInv

LEMMA ScoreOthers ==
  ASSUME ScoreInv, IInv', NEW r \in Requests, Step(r) \/ NewRequest(r) \/ FailRequest(r),
         ~Grading(r) \/ ~FailRequest(r),
         ~ReadAnswers(r), \A q \in Questions : ~GradeQuestion(r, q), ~CloseAttempt(r),
         ~WriteGrade(r), ~SumPoints(r), ~WriteTotal(r), ~InsertAttempt(r)
  PROVE  ScoreInv'
<1>0. TypeOK
  BY DEF ScoreInv, IInv
<1>1. UNCHANGED <<status, snapshot, points, score>>
  BY NewRequestWritesNothing
     DEF Step, FindExisting, ListAssignments, CountAttempts, WriteAnswer, LockAttempt, LogLock,
         ClearLock, LogUnlock, UnchangedTables, attemptVars, rowVars, gradeVars, answerVars
<1>2. req[r].at \notin {"sum_points", "write_total"}
  <2>1. CASE Step(r)
    BY <2>1 DEF Step, FindExisting, ListAssignments, CountAttempts, WriteAnswer, LockAttempt,
                LogLock, ClearLock, LogUnlock
  <2>2. CASE NewRequest(r)
    <3>1. req[r] = Idle
      BY <2>2 DEF NewRequest, StartAttempt, SaveAnswer, GradeAnswer, RecordViolation,
                  UnlockAttempt, SubmitAttempt, Arrive
    <3>2. QED
      BY <3>1 DEF Idle
  <2>3. CASE FailRequest(r)
    BY <2>3 DEF Grading
  <2>4. QED
    BY <2>1, <2>2, <2>3
<1>3. ASSUME Closing(r)'
      PROVE  req'[r].at = "read_answers" /\ status[req'[r].attempt] = "in_progress"
  <2>1. \E a \in Attempts : \E verdict, then :
          status[a] = "in_progress" /\ req'[r] = Finalize(a, verdict, then)
    BY <1>0, <1>3, Arrivals
  <2>2. QED
    BY <2>1 DEF Finalize
<1>4. req'[r].at \notin {"grade_answers", "sum_points", "write_total"}
  <2>1. Closing(r)' => req'[r].at = "read_answers"
    BY <1>3
  <2>2. Grading(r)' => req'[r].at = "write_grade"
    BY <1>0, Arrivals DEF GradeAnswer, Continue, TypeOK
  <2>3. QED
    BY <2>1, <2>2 DEF Closing, Grading
<1>5. Closing(r)' => status[req'[r].attempt] = "in_progress"
  BY <1>3
<1>6. \A x \in Requests \ {r} : req'[x] = req[x]
  BY <1>0, MovesOnlyItself
<1>7. QED
  BY <1>1, <1>2, <1>4, <1>5, <1>6, ScoreLeftAlone

LEMMA NextScoreInv ==
  ASSUME ScoreInv, ScoringApart, [Next]_vars,
         \A r \in Requests : Grading(r) /\ FailRequest(r) => Step(r)
  PROVE  ScoreInv'
<1>0. IInv'
  BY NextIInv DEF ScoreInv
<1>1. ASSUME NEW r \in Requests, Step(r) \/ NewRequest(r) \/ FailRequest(r)
      PROVE  ScoreInv'
  <2>1. CASE \/ ReadAnswers(r) \/ (\E q \in Questions : GradeQuestion(r, q)) \/ CloseAttempt(r)
             \/ WriteGrade(r) \/ SumPoints(r) \/ WriteTotal(r) \/ InsertAttempt(r)
    BY <1>0, <2>1, ScoreReadAnswers, ScoreGradeQuestion, ScoreCloseAttempt, ScoreWriteGrade,
       ScoreSumPoints, ScoreWriteTotal, ScoreInsertAttempt
  <2>2. CASE Grading(r) /\ FailRequest(r)
    <3>1. Step(r)
      BY <2>2
    <3>2. QED
      BY <2>1, <2>2, <3>1
         DEF Grading, Step, FindExisting, ListAssignments, CountAttempts, WriteAnswer, LockAttempt,
             LogLock, ClearLock, LogUnlock
  <2>3. QED
    BY <1>0, <1>1, <2>1, <2>2, ScoreOthers
<1>2. CASE \/ \E a \in Attempts : DeadlinePasses(a)
           \/ \E b \in BOOLEAN : SetPublished(b)
           \/ \E s \in Students : SetAssigned(s)
           \/ UNCHANGED vars
  <2>1. UNCHANGED <<status, snapshot, points, score, req>>
    BY <1>2 DEF DeadlinePasses, SetPublished, SetAssigned, vars, attemptVars, rowVars, gradeVars,
                answerVars
  <2>2. QED
    BY <1>0, <2>1, ScoreLeftAlone
<1>3. QED
  BY <1>1, <1>2 DEF Next, AnswerWithoutChange

\* A finished attempt with nothing under way has the total of its answers' points,
\* as long as no two requests close or grade it at a time and none fails between
\* the points of a regrade and their total (finalizeAttempt and gradeAnswer):
\* saves, violations, unlocks and starts may overlap with anything.
THEOREM ScoreIsSum == Spec /\ []ScoringApart /\ GradingsFinish => []ScoreMatchesAnswers
<1>1. ScoreInv => ScoreMatchesAnswers
  <2>1. ASSUME ScoreInv, NEW a \in Attempts, Finished(a), Quiet(a)
        PROVE  score[a] = PointsOf(a)
    BY <2>1 DEF ScoreInv, TotalFits, Quiet, On, Grading
  <2>2. QED
    BY <2>1 DEF ScoreMatchesAnswers
<1>2. ScoreInv /\ ScoringApart /\ [Next]_vars
        /\ [\A r \in Requests : Grading(r) /\ FailRequest(r) => Step(r)]_vars => ScoreInv'
  <2> SUFFICES ASSUME ScoreInv, ScoringApart, [Next]_vars,
                      [\A r \in Requests : Grading(r) /\ FailRequest(r) => Step(r)]_vars
               PROVE  ScoreInv'
    OBVIOUS
  <2>1. CASE UNCHANGED vars
    <3>1. IInv'
      BY NextIInv DEF ScoreInv
    <3>2. UNCHANGED <<status, snapshot, points, score, req>>
      BY <2>1 DEF vars, attemptVars, rowVars, gradeVars, answerVars
    <3>3. QED
      BY <3>1, <3>2, ScoreLeftAlone
  <2>2. CASE ~UNCHANGED vars
    BY <2>2, NextScoreInv
  <2>3. QED
    BY <2>1, <2>2
<1>3. QED
  BY <1>1, <1>2, InitScoreInv, PTL DEF Spec, GradingsFinish

-----------------------------------------------------------------------------
(* The audit trail.                                                        *)

\* No two requests lock or unlock one attempt at a time, and a locking that was
\* begun is carried out.
LockingApart ==
  \A r1, r2 \in Requests :
    Locking(r1) /\ Locking(r2) /\ req[r1].attempt = req[r2].attempt => r1 = r2

LockingsFinish == [][\A r \in Requests : Locking(r) /\ FailRequest(r) => Step(r)]_vars

\* A request about to write an event has set the column.
LoggingFits ==
  \A r \in Requests :
    /\ req[r].at = "log_lock" => locked[req[r].attempt]
    /\ req[r].at = "log_unlock" => ~locked[req[r].attempt]

\* The newest event is the column's, or a request is about to write it.
TrailFits ==
  \A a \in Attempts :
    \/ locked[a] <=> lockEvents[a] = "locked"
    \/ \E r \in Requests : req[r].at \in {"log_lock", "log_unlock"} /\ req[r].attempt = a

TrailInv == TypeOK /\ LoggingFits /\ TrailFits

LEMMA InitTrailInv == Init => TrailInv
BY InitTypeOK DEF Init, TrailInv, LoggingFits, TrailFits, Idle

LEMMA LockingShape ==
  ASSUME TypeOK, NEW r \in Requests, Locking(r)
  PROVE  req[r].attempt \in Attempts
<1>1. req[r] \in RequestStates
  BY DEF TypeOK
<1>2. QED
  BY <1>1, RequestShape DEF Locking, LockStates

LEMMA TrailLeftAlone ==
  ASSUME TrailInv, TypeOK', UNCHANGED <<locked, lockEvents>>,
         \A r \in Requests :
           \/ req'[r] = req[r]
           \/ /\ req[r].at \notin {"log_lock", "log_unlock"}
              /\ req'[r].at \notin {"log_lock", "log_unlock"}
  PROVE  TrailInv'
BY DEF TrailInv, LoggingFits, TrailFits

\* The four statements that lock and unlock.
LEMMA TrailLocking ==
  ASSUME TrailInv, TypeOK', LockingApart, NEW r \in Requests,
         LockAttempt(r) \/ LogLock(r) \/ ClearLock(r) \/ LogUnlock(r)
  PROVE  TrailInv'
<1>0. TypeOK /\ LoggingFits /\ TrailFits /\ Locking(r)
  BY DEF TrailInv, LockAttempt, LogLock, ClearLock, LogUnlock, Locking
<1>1. PICK a \in Attempts : a = req[r].attempt
  BY <1>0, LockingShape
<1>2. \A x \in Requests \ {r} : Locking(x) => req[x].attempt # a
  BY <1>0, <1>1 DEF LockingApart
<1>3. \A x \in Requests \ {r} : req'[x] = req[x]
  BY <1>0 DEF TypeOK, LockAttempt, LogLock, ClearLock, LogUnlock, Continue
<1>4. CASE LockAttempt(r) \/ ClearLock(r)
  <2>1. /\ \A b \in Attempts \ {a} : UNCHANGED <<locked[b], lockEvents[b]>>
        /\ req'[r].attempt = a
        /\ \/ req'[r].at = "log_lock" /\ locked'[a]
           \/ req'[r].at = "log_unlock" /\ ~locked'[a]
    <3>1. CASE LockAttempt(r)
      <4>1. /\ locked' = [locked EXCEPT ![a] = TRUE] /\ lockEvents' = lockEvents
            /\ req'[r] = LockStep("log_lock", a)
        BY <1>0, <1>1, <3>1 DEF TypeOK, LockAttempt, Continue
      <4>2. QED
        BY <1>0, <4>1 DEF TypeOK, LockStep
    <3>2. CASE ClearLock(r)
      <4>1. /\ locked' = [locked EXCEPT ![a] = FALSE] /\ lockEvents' = lockEvents
            /\ req'[r] = LockStep("log_unlock", a)
        BY <1>0, <1>1, <3>2 DEF TypeOK, ClearLock, Continue
      <4>2. QED
        BY <1>0, <4>1 DEF TypeOK, LockStep
    <3>3. QED
      BY <1>4, <3>1, <3>2
  <2>2. LoggingFits'
    <3>1. ASSUME NEW x \in Requests, x # r, req[x].at \in {"log_lock", "log_unlock"}
          PROVE  req'[x] = req[x] /\ locked'[req[x].attempt] = locked[req[x].attempt]
      <4>1. Locking(x)
        BY <3>1 DEF Locking
      <4>2. QED
        BY <1>0, <1>2, <1>3, <2>1, <3>1, <4>1, LockingShape
    <3>2. QED
      BY <1>0, <1>3, <2>1, <3>1 DEF LoggingFits
  <2>3. TrailFits'
    <3>1. ASSUME NEW b \in Attempts \ {a}
          PROVE  \/ locked'[b] <=> lockEvents'[b] = "locked"
                 \/ \E x \in Requests : req'[x].at \in {"log_lock", "log_unlock"} /\ req'[x].attempt = b
      BY <1>0, <1>1, <1>3, <2>1 DEF TrailFits
    <3>2. QED
      BY <2>1, <3>1 DEF TrailFits
  <2>4. QED
    BY <2>2, <2>3 DEF TrailInv
<1>5. CASE LogLock(r) \/ LogUnlock(r)
  <2>1. /\ \A b \in Attempts \ {a} : lockEvents'[b] = lockEvents[b]
        /\ locked'[a] <=> lockEvents'[a] = "locked"
        /\ req'[r].at = "idle" /\ locked' = locked
    BY <1>0, <1>1, <1>5 DEF TypeOK, LogLock, LogUnlock, Continue, Idle, LoggingFits, attemptVars
  <2>2. LoggingFits'
    BY <1>0, <1>3, <2>1 DEF LoggingFits
  <2>3. TrailFits'
    <3>1. ASSUME NEW b \in Attempts \ {a}
          PROVE  \/ locked'[b] <=> lockEvents'[b] = "locked"
                 \/ \E x \in Requests : req'[x].at \in {"log_lock", "log_unlock"} /\ req'[x].attempt = b
      BY <1>0, <1>1, <1>3, <2>1 DEF TrailFits
    <3>2. QED
      BY <2>1, <3>1 DEF TrailFits
  <2>4. QED
    BY <2>2, <2>3 DEF TrailInv
<1>6. QED
  BY <1>4, <1>5

LEMMA TrailOthers ==
  ASSUME TrailInv, TypeOK', NEW r \in Requests, Step(r) \/ NewRequest(r) \/ FailRequest(r),
         ~Locking(r) \/ ~FailRequest(r),
         ~LockAttempt(r), ~LogLock(r), ~ClearLock(r), ~LogUnlock(r)
  PROVE  TrailInv'
<1>0. TypeOK
  BY DEF TrailInv
<1>1. UNCHANGED <<locked, lockEvents>>
  BY NewRequestWritesNothing
     DEF Step, FindExisting, ListAssignments, CountAttempts, InsertAttempt, WriteAnswer,
         ReadAnswers, GradeQuestion, CloseAttempt, WriteGrade, SumPoints, WriteTotal,
         UnchangedTables, attemptVars
<1>2. req[r].at \notin {"log_lock", "log_unlock"}
  <2>1. CASE Step(r)
    BY <2>1 DEF Step, FindExisting, ListAssignments, CountAttempts, InsertAttempt, WriteAnswer,
                ReadAnswers, GradeQuestion, CloseAttempt, WriteGrade, SumPoints, WriteTotal
  <2>2. CASE NewRequest(r)
    <3>1. req[r] = Idle
      BY <2>2 DEF NewRequest, StartAttempt, SaveAnswer, GradeAnswer, RecordViolation,
                  UnlockAttempt, SubmitAttempt, Arrive
    <3>2. QED
      BY <3>1 DEF Idle
  <2>3. CASE FailRequest(r)
    BY <2>3 DEF Locking
  <2>4. QED
    BY <2>1, <2>2, <2>3
<1>3. req'[r].at \notin {"log_lock", "log_unlock"}
  <2>1. SUFFICES ASSUME Locking(r)' PROVE req'[r].at \in {"lock", "unlock"}
    BY DEF Locking
  <2>2. PICK a \in Attempts : RecordViolation(r, a) \/ UnlockAttempt(r, a)
    BY <1>0, <2>1, Arrivals
  <2>3. req'[r] \in {LockStep("lock", a), LockStep("unlock", a), Finalize(a, "auto_submitted", Idle)}
    BY <1>0, <2>2 DEF RecordViolation, RequireActive, UnlockAttempt, Continue, TypeOK
  <2>4. QED
    BY <2>1, <2>3 DEF LockStep, Finalize, Locking
<1>4. \A x \in Requests \ {r} : req'[x] = req[x]
  BY <1>0, MovesOnlyItself
<1>5. QED
  BY <1>1, <1>2, <1>3, <1>4, TrailLeftAlone

LEMMA NextTrailInv ==
  ASSUME TrailInv, LockingApart, Next,
         \A r \in Requests : Locking(r) /\ FailRequest(r) => Step(r)
  PROVE  TrailInv'
<1>0. TypeOK'
  BY NextTypeOK DEF TrailInv
<1>1. ASSUME NEW r \in Requests, Step(r) \/ NewRequest(r) \/ FailRequest(r)
      PROVE  TrailInv'
  <2>1. CASE LockAttempt(r) \/ LogLock(r) \/ ClearLock(r) \/ LogUnlock(r)
    BY <1>0, <2>1, TrailLocking
  <2>2. CASE Locking(r) /\ FailRequest(r)
    <3>1. Step(r)
      BY <2>2
    <3>2. QED
      BY <2>1, <2>2, <3>1
         DEF Locking, Step, FindExisting, ListAssignments, CountAttempts, InsertAttempt,
             WriteAnswer, ReadAnswers, GradeQuestion, CloseAttempt, WriteGrade, SumPoints, WriteTotal
  <2>3. QED
    BY <1>0, <1>1, <2>1, <2>2, TrailOthers
<1>2. CASE \/ \E a \in Attempts : DeadlinePasses(a)
           \/ \E b \in BOOLEAN : SetPublished(b)
           \/ \E s \in Students : SetAssigned(s)
           \/ UNCHANGED vars
  <2>1. UNCHANGED <<locked, lockEvents, req>>
    BY <1>2 DEF DeadlinePasses, SetPublished, SetAssigned, vars, attemptVars
  <2>2. QED
    BY <1>0, <2>1, TrailLeftAlone
<1>3. QED
  BY <1>1, <1>2 DEF Next, AnswerWithoutChange

\* With nothing under way on an attempt, the newest event of its audit trail tells
\* whether it is locked, as long as no two requests lock or unlock it at a time
\* and none fails between the column and the event (recordViolation and
\* unlockAttempt): everything else may overlap and fail.
THEOREM TrailTellsLock == Spec /\ []LockingApart /\ LockingsFinish => []AuditMatchesLock
<1>1. TrailInv => AuditMatchesLock
  BY DEF TrailInv, TrailFits, AuditMatchesLock, Quiet, On, Locking
<1>2. TrailInv /\ LockingApart /\ [Next]_vars
        /\ [\A r \in Requests : Locking(r) /\ FailRequest(r) => Step(r)]_vars => TrailInv'
  <2> SUFFICES ASSUME TrailInv, LockingApart, [Next]_vars,
                      [\A r \in Requests : Locking(r) /\ FailRequest(r) => Step(r)]_vars
               PROVE  TrailInv'
    OBVIOUS
  <2>1. CASE UNCHANGED vars
    <3>1. TypeOK'
      BY NextTypeOK DEF TrailInv
    <3>2. UNCHANGED <<locked, lockEvents, req>>
      BY <2>1 DEF vars, attemptVars
    <3>3. QED
      BY <3>1, <3>2, TrailLeftAlone
  <2>2. CASE ~UNCHANGED vars
    BY <2>2, NextTrailInv
  <2>3. QED
    BY <2>1, <2>2
<1>3. QED
  BY <1>1, <1>2, InitTrailInv, PTL DEF Spec, LockingsFinish
=============================================================================

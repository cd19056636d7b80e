----------------------------- MODULE ExamAttempts -----------------------------
(***************************************************************************)
(* The attempts of one quiz: how they are started, answered, locked,       *)
(* unlocked, submitted, expired, graded and regraded by handlers that run  *)
(* concurrently against PostgreSQL (src/backend/attempts, answers and      *)
(* monitoring).  A handler is one HTTP request; it may be suspended at     *)
(* every await, so each of its database statements is one action, and what *)
(* it read earlier is kept in req[r], beside the tables.                   *)
(*                                                                         *)
(* Data are abstracted to what the properties tell apart: an answer is     *)
(* blank, right or wrong; a time is before or after the deadline; a total  *)
(* is kept as the points it was added up from, so that two totals can be   *)
(* compared and the prover need not compute sums.                          *)
(***************************************************************************)
EXTENDS Integers, FiniteSets, Functions

CONSTANTS
  Students,
  Attempts,      \* the ids a row of exam_attempts may get (bounds the rows)
  Questions,     \* the quiz's pool
  Kind,          \* how a question is graded: "auto", "manual" or "code"
  Points,        \* questions.points
  PerAttempt,    \* quizzes.questionsPerAttempt
  MaxAttempts,   \* quizzes.maxAttempts
  PassingScore,  \* quizzes.passingScore, a percentage
  Requests,      \* the requests that can be in flight at once
  Ops,           \* the operations users may ask for in this instance
  Drafts,        \* the answers a student may send
  Awards,        \* the points a teacher may send
  Null

Contents == {"none", "blank", "right", "wrong"}   \* "none": there is no row
Verdicts == {"submitted", "auto_submitted"}

ASSUME ConstantsAssumption ==
  /\ IsFiniteSet(Questions) /\ IsFiniteSet(Attempts)
  /\ Kind \in [Questions -> {"auto", "manual", "code"}]
  /\ Points \in [Questions -> Nat]
  /\ PerAttempt \in Nat \ {0}
  /\ MaxAttempts \in Nat \ {0}
  /\ PassingScore \in 0..100
  /\ Drafts \subseteq Contents \ {"none"}
  /\ Awards \subseteq Nat
  /\ Null \notin Students /\ Null \notin Nat /\ Null \notin [Questions -> Nat]

VARIABLES
  \* the quiz and its assignments
  published,   \* quizzes.status = "published"
  assigned,    \* the students with an assignment whose window is open
  \* exam_attempts, by column, with the question snapshot of each attempt
  status, student, number, snapshot,
  expired,     \* now > deadline_at
  locked, score, maxScore, passed,
  \* exam_answers, by column; content "none" means there is no row
  content, points,
  review,      \* needs_review
  teacher,     \* graded_by is set
  \* the newest row of attempt_lock_events of each attempt
  lockEvents,
  \* what each request in flight is about to do, and what it knows
  req

quizVars == <<published, assigned>>
gradeVars == <<score, maxScore, passed>>
rowVars == <<student, number, snapshot>>
answerVars == <<content, points, review, teacher>>
attemptVars == <<status, rowVars, expired, locked, gradeVars>>
vars == <<quizVars, attemptVars, answerVars, lockEvents, req>>

-----------------------------------------------------------------------------
\* The tables.

Finished(a) == status[a] \in Verdicts
AttemptsOf(s) == {a \in Attempts : student[a] = s}
InProgress(s) == {a \in AttemptsOf(s) : status[a] = "in_progress"}
Graded(a, q) == points[a][q] # Null
PointsOf(a) == [q \in Questions |-> IF Graded(a, q) THEN points[a][q] ELSE 0]
Text(a, q) == IF content[a][q] = "none" THEN "blank" ELSE content[a][q]

\* The snapshots startAttempt can draw from the pool.
Snapshots ==
  {S \in SUBSET Questions :
     Cardinality(S) = IF PerAttempt < Cardinality(Questions)
                        THEN PerAttempt ELSE Cardinality(Questions)}

\* The exam is passed: score / maxScore * 100 >= passingScore, and a missing
\* maximum counts as 0.
Passes(total, maximum) ==
  /\ maximum # Null
  /\ LET max == SumFunctionOnSet(Points, maximum)
     IN  max > 0 /\ SumFunction(total) * 100 >= PassingScore * max

-----------------------------------------------------------------------------
\* The states of a request.

Idle == [at |-> "idle"]

StartStates ==
  [at : {"find_existing", "list_assignments", "count_attempts"},
   student : Students, sawPublished : BOOLEAN]
InsertStates == [at : {"insert_attempt"}, student : Students, count : Nat]
Continuations ==
  {Idle} \union [at : {"list_assignments"}, student : Students, sawPublished : BOOLEAN]
ReadStates ==
  [at : {"read_answers"}, attempt : Attempts, verdict : Verdicts, then : Continuations]
GradeStates ==
  [at : {"grade_answers"}, attempt : Attempts, verdict : Verdicts, then : Continuations,
   seen : [Questions -> Contents], todo : SUBSET Questions, score : [Questions -> Nat]]
SaveStates ==
  [at : {"write_answer"}, attempt : Attempts, question : Questions, draft : Contents \ {"none"}]
LockStates == [at : {"lock", "log_lock", "unlock", "log_unlock"}, attempt : Attempts]
AwardStates ==
  [at : {"write_grade"}, attempt : Attempts, question : Questions,
   award : Nat, maxScore : (SUBSET Questions) \union {Null}]
SumStates ==
  [at : {"sum_points"}, attempt : Attempts, maxScore : (SUBSET Questions) \union {Null}]
TotalStates ==
  [at : {"write_total"}, attempt : Attempts, maxScore : (SUBSET Questions) \union {Null},
   score : [Questions -> Nat]]

RequestStates ==
  Continuations \union StartStates \union InsertStates \union ReadStates \union GradeStates
    \union SaveStates \union LockStates \union AwardStates \union SumStates
    \union TotalStates

Closing(r) == req[r].at \in {"read_answers", "grade_answers"}
Grading(r) == req[r].at \in {"write_grade", "sum_points", "write_total"}
Locking(r) == req[r].at \in {"lock", "log_lock", "unlock", "log_unlock"}
Writing(r) == req[r].at = "write_answer"
On(r, a) == (Closing(r) \/ Grading(r) \/ Locking(r) \/ Writing(r)) /\ req[r].attempt = a

Arrive(r, op) == op \in Ops /\ req[r] = Idle
Continue(r, state) == req' = [req EXCEPT ![r] = state]
Starting(place, s, b) == [at |-> place, student |-> s, sawPublished |-> b]
LockStep(place, a) == [at |-> place, attempt |-> a]

\* finalizeAttempt(attempt, verdict), after which the caller goes on to `then`.
Finalize(a, verdict, then) ==
  [at |-> "read_answers", attempt |-> a, verdict |-> verdict, then |-> then]

UnchangedTables == UNCHANGED <<quizVars, attemptVars, answerVars, lockEvents>>

-----------------------------------------------------------------------------
Init ==
  /\ published \in BOOLEAN
  /\ assigned \in SUBSET Students
  /\ status = [a \in Attempts |-> "none"]
  /\ student = [a \in Attempts |-> Null]
  /\ number = [a \in Attempts |-> 0]
  /\ snapshot = [a \in Attempts |-> {}]
  /\ expired = [a \in Attempts |-> FALSE]
  /\ locked = [a \in Attempts |-> FALSE]
  /\ score = [a \in Attempts |-> Null]
  /\ maxScore = [a \in Attempts |-> Null]
  /\ passed = [a \in Attempts |-> Null]
  /\ content = [a \in Attempts |-> [q \in Questions |-> "none"]]
  /\ points = [a \in Attempts |-> [q \in Questions |-> Null]]
  /\ review = [a \in Attempts |-> [q \in Questions |-> FALSE]]
  /\ teacher = [a \in Attempts |-> [q \in Questions |-> FALSE]]
  /\ lockEvents = [a \in Attempts |-> "none"]
  /\ req = [r \in Requests |-> Idle]

-----------------------------------------------------------------------------
(***************************************************************************)
(* startAttempt: resume an attempt in progress (closing it first when its  *)
(* deadline is over), or check publication, assignment and attempt count   *)
(* and insert a new one.                                                   *)
(***************************************************************************)

\* A bound of the model: there is a row id left for every start under way.
RoomToStart ==
  Cardinality({a \in Attempts : status[a] = "none"})
    > Cardinality({r \in Requests :
         \/ req[r].at \in {"find_existing", "list_assignments", "count_attempts",
                           "insert_attempt"}
         \/ Closing(r) /\ req[r].then # Idle})

StartAttempt(r, s) ==
  /\ Arrive(r, "start")
  /\ RoomToStart
  /\ Continue(r, Starting("find_existing", s, published))
  /\ UnchangedTables

FindExisting(r) ==
  /\ req[r].at = "find_existing"
  /\ LET s == req[r].student
         fresh == Starting("list_assignments", s, req[r].sawPublished)
     IN  \/ InProgress(s) = {} /\ Continue(r, fresh)
         \/ \E a \in InProgress(s) :
              Continue(r, IF expired[a] THEN Finalize(a, "auto_submitted", fresh) ELSE Idle)
  /\ UnchangedTables

\* Bug: the assignments of a quiz that is no longer published are listed too.
ListAssignmentsOfAny(r) ==
  /\ req[r].at = "list_assignments"
  /\ Continue(r, IF req[r].sawPublished /\ req[r].student \in assigned
                   THEN Starting("count_attempts", req[r].student, TRUE)
                   ELSE Idle)
  /\ UnchangedTables

\* quiz.status is the one read by StartAttempt; the assignments query looks at
\* the stored status again.
ListAssignments(r) ==
  /\ req[r].at = "list_assignments"
  /\ Continue(r, IF req[r].sawPublished /\ published /\ req[r].student \in assigned
                   THEN Starting("count_attempts", req[r].student, TRUE)
                   ELSE Idle)
  /\ UnchangedTables

\* Bug: one attempt too many.
LimitReachedOffByOne(n) == n > MaxAttempts

LimitReached(n) == n >= MaxAttempts

CountAttempts(r) ==
  /\ req[r].at = "count_attempts"
  /\ LET s == req[r].student
         n == Cardinality(AttemptsOf(s))
     IN  Continue(r, IF LimitReached(n)
                       THEN Idle
                       ELSE [at |-> "insert_attempt", student |-> s, count |-> n])
  /\ UnchangedTables

\* exam_attempts_one_in_progress_unique: a second open row is refused.
UniqueIndexAdmits(s) == InProgress(s) = {}

InsertAttempt(r) ==
  /\ req[r].at = "insert_attempt"
  /\ LET s == req[r].student
     IN  IF UniqueIndexAdmits(s)
           THEN \E a \in Attempts, S \in Snapshots :
                  /\ status[a] = "none"
                  /\ status' = [status EXCEPT ![a] = "in_progress"]
                  /\ student' = [student EXCEPT ![a] = s]
                  /\ number' = [number EXCEPT ![a] = req[r].count + 1]
                  /\ snapshot' = [snapshot EXCEPT ![a] = S]
           ELSE UNCHANGED <<status, rowVars>>
  /\ Continue(r, Idle)
  /\ UNCHANGED <<quizVars, expired, locked, gradeVars, answerVars, lockEvents>>

-----------------------------------------------------------------------------
(***************************************************************************)
(* requireActiveAttemptForAnswering, then one answer is saved or one       *)
(* violation recorded.  The check and what follows it are separate         *)
(* statements, and nothing is checked again.                               *)
(***************************************************************************)

\* Bugs: the lock, or the status, is not looked at.
AnswerableIfLocked(a) == status[a] = "in_progress"
AnswerableIfFinished(a) == status[a] # "none" /\ ~locked[a]

Answerable(a) == status[a] = "in_progress" /\ ~locked[a]

RequireActive(r, a, state) ==
  \/ /\ status[a] = "in_progress"
     /\ expired[a]
     /\ Continue(r, Finalize(a, "auto_submitted", Idle))
  \/ /\ Answerable(a)
     /\ ~expired[a]
     /\ Continue(r, state)

SaveAnswer(r, a, q, c) ==
  /\ Arrive(r, "save")
  /\ q \in snapshot[a]
  /\ RequireActive(r, a, [at |-> "write_answer", attempt |-> a, question |-> q, draft |-> c])
  /\ UnchangedTables

WriteAnswer(r) ==
  /\ req[r].at = "write_answer"
  /\ content' = [content EXCEPT ![req[r].attempt][req[r].question] = req[r].draft]
  /\ Continue(r, Idle)
  /\ UNCHANGED <<quizVars, attemptVars, points, review, teacher, lockEvents>>

\* Only the violations that lock (a fullscreen exit where fullscreen is required,
\* a tab switch where activity is monitored): any other just joins the log.
RecordViolation(r, a) ==
  /\ Arrive(r, "violation")
  /\ RequireActive(r, a, LockStep("lock", a))
  /\ UnchangedTables

LockAttempt(r) ==
  /\ req[r].at = "lock"
  /\ locked' = [locked EXCEPT ![req[r].attempt] = TRUE]
  /\ Continue(r, LockStep("log_lock", req[r].attempt))
  /\ UNCHANGED <<quizVars, status, rowVars, expired, gradeVars, answerVars, lockEvents>>

LogLock(r) ==
  /\ req[r].at = "log_lock"
  /\ lockEvents' = [lockEvents EXCEPT ![req[r].attempt] = "locked"]
  /\ Continue(r, Idle)
  /\ UNCHANGED <<quizVars, attemptVars, answerVars>>

UnlockAttempt(r, a) ==
  /\ Arrive(r, "unlock")
  /\ locked[a]
  /\ Continue(r, LockStep("unlock", a))
  /\ UnchangedTables

\* Bug: unlocking leaves no event behind.
ClearLockUnlogged(r) ==
  /\ req[r].at = "unlock"
  /\ locked' = [locked EXCEPT ![req[r].attempt] = FALSE]
  /\ Continue(r, Idle)
  /\ UNCHANGED <<quizVars, status, rowVars, expired, gradeVars, answerVars, lockEvents>>

ClearLock(r) ==
  /\ req[r].at = "unlock"
  /\ locked' = [locked EXCEPT ![req[r].attempt] = FALSE]
  /\ Continue(r, LockStep("log_unlock", req[r].attempt))
  /\ UNCHANGED <<quizVars, status, rowVars, expired, gradeVars, answerVars, lockEvents>>

LogUnlock(r) ==
  /\ req[r].at = "log_unlock"
  /\ lockEvents' = [lockEvents EXCEPT ![req[r].attempt] = "unlocked"]
  /\ Continue(r, Idle)
  /\ UNCHANGED <<quizVars, attemptVars, answerVars>>

-----------------------------------------------------------------------------
(***************************************************************************)
(* submitAttempt and finalizeAttempt, which maybeExpire also calls.        *)
(***************************************************************************)

\* Bug: the two verdicts are swapped.
SubmitVerdictSwapped(a) == IF expired[a] THEN "submitted" ELSE "auto_submitted"

SubmitVerdict(a) == IF expired[a] THEN "auto_submitted" ELSE "submitted"

\* A finished attempt is returned as it is; a locked one is refused, even
\* when its deadline is over.
SubmitAttempt(r, a) ==
  /\ Arrive(r, "submit")
  /\ Answerable(a)
  /\ Continue(r, Finalize(a, SubmitVerdict(a), Idle))
  /\ UnchangedTables

ToGrade(r, seen, todo, total) ==
  [at |-> "grade_answers", attempt |-> req[r].attempt, verdict |-> req[r].verdict,
   then |-> req[r].then, seen |-> seen, todo |-> todo, score |-> total]

\* Bug: only the questions that have an answer are graded.
ReadAnswersOfRows(r) ==
  /\ req[r].at = "read_answers"
  /\ LET a == req[r].attempt
     IN  Continue(r, ToGrade(r, content[a], {q \in snapshot[a] : content[a][q] # "none"},
                             [q \in Questions |-> 0]))
  /\ UnchangedTables

ReadAnswers(r) ==
  /\ req[r].at = "read_answers"
  /\ Continue(r, ToGrade(r, content[req[r].attempt], snapshot[req[r].attempt],
                         [q \in Questions |-> 0]))
  /\ UnchangedTables

\* The points and the needs_review flag a question may get for an answer.  Code
\* is run by an external service, which may be unreachable.
Marks(q, c) ==
  LET blank == c \in {"none", "blank"}
  IN  {m \in [points : 0..Points[q], review : BOOLEAN] :
         /\ blank => m.points = 0 /\ ~m.review
         /\ m.review => m.points = 0
         /\ Kind[q] = "auto" => m.points = (IF c = "right" THEN Points[q] ELSE 0) /\ ~m.review
         /\ Kind[q] = "manual" => m.review = ~blank}

\* Bug: a question that was never answered gets no row.
UpsertedIfAnswered(old, c) == IF old = "none" THEN c ELSE old

\* The upsert of gradeAttempt: a missing row is inserted with the answer seen, an
\* existing one keeps its content and its grader.
Upserted(old, c) ==
  IF old = "none" /\ c = "none" THEN "blank" ELSE IF old = "none" THEN c ELSE old

\* Bug: a question whose code could not be run is tried again for ever.
GradeQuestionRetries(r, q) ==
  /\ req[r].at = "grade_answers"
  /\ q \in req[r].todo
  /\ LET a == req[r].attempt
         c == req[r].seen[q]
     IN  \E m \in Marks(q, c) :
           /\ content' = [content EXCEPT ![a][q] = Upserted(@, c)]
           /\ points' = [points EXCEPT ![a][q] = m.points]
           /\ review' = [review EXCEPT ![a][q] = m.review]
           /\ Continue(r, ToGrade(r, req[r].seen,
                                  IF m.review THEN req[r].todo ELSE req[r].todo \ {q},
                                  [req[r].score EXCEPT ![q] = m.points]))
  /\ UNCHANGED <<quizVars, attemptVars, teacher, lockEvents>>

GradeQuestion(r, q) ==
  /\ req[r].at = "grade_answers"
  /\ q \in req[r].todo
  /\ LET a == req[r].attempt
         c == req[r].seen[q]
     IN  \E m \in Marks(q, c) :
           /\ content' = [content EXCEPT ![a][q] = Upserted(@, c)]
           /\ points' = [points EXCEPT ![a][q] = m.points]
           /\ review' = [review EXCEPT ![a][q] = m.review]
           /\ Continue(r, ToGrade(r, req[r].seen, req[r].todo \ {q},
                                  [req[r].score EXCEPT ![q] = m.points]))
  /\ UNCHANGED <<quizVars, attemptVars, teacher, lockEvents>>

CloseAttempt(r) ==
  /\ req[r].at = "grade_answers"
  /\ req[r].todo = {}
  /\ LET a == req[r].attempt
     IN  /\ status' = [status EXCEPT ![a] = req[r].verdict]
         /\ score' = [score EXCEPT ![a] = req[r].score]
         /\ maxScore' = [maxScore EXCEPT ![a] = snapshot[a]]
         /\ passed' = [passed EXCEPT ![a] = Passes(req[r].score, snapshot[a])]
  /\ Continue(r, req[r].then)
  /\ UNCHANGED <<quizVars, rowVars, expired, locked, answerVars, lockEvents>>

-----------------------------------------------------------------------------
(***************************************************************************)
(* gradeAnswer: a teacher grades one answer, then the total is added up    *)
(* again and written.                                                      *)
(***************************************************************************)

\* Bug: the points are taken for a deduction.
AwardDeducted(q, p) == Points[q] - p

Award(q, p) == IF p > Points[q] THEN Points[q] ELSE p

\* Only the maximum of the row read here is used later.
GradeAnswer(r, a, q, p) ==
  /\ Arrive(r, "grade")
  /\ status[a] # "none"
  /\ Continue(r, [at |-> "write_grade", attempt |-> a, question |-> q,
                  award |-> Award(q, p), maxScore |-> maxScore[a]])
  /\ UnchangedTables

WriteGrade(r) ==
  /\ req[r].at = "write_grade"
  /\ LET a == req[r].attempt
         q == req[r].question
     IN  IF content[a][q] = "none"
           THEN UNCHANGED answerVars /\ Continue(r, Idle)
           ELSE /\ points' = [points EXCEPT ![a][q] = req[r].award]
                /\ review' = [review EXCEPT ![a][q] = FALSE]
                /\ teacher' = [teacher EXCEPT ![a][q] = TRUE]
                /\ UNCHANGED content
                /\ Continue(r, [at |-> "sum_points", attempt |-> a,
                                maxScore |-> req[r].maxScore])
  /\ UNCHANGED <<quizVars, attemptVars, lockEvents>>

\* Bug: a total once written is not added up again.
SumPointsOnce(r) ==
  /\ req[r].at = "sum_points"
  /\ LET a == req[r].attempt
     IN  Continue(r, [at |-> "write_total", attempt |-> a, maxScore |-> req[r].maxScore,
                      score |-> IF score[a] = Null THEN PointsOf(a) ELSE score[a]])
  /\ UnchangedTables

SumPoints(r) ==
  /\ req[r].at = "sum_points"
  /\ Continue(r, [at |-> "write_total", attempt |-> req[r].attempt,
                  maxScore |-> req[r].maxScore, score |-> PointsOf(req[r].attempt)])
  /\ UnchangedTables

\* Bug: a new total leaves "passed" as it was.
WriteTotalOnly(r) ==
  /\ req[r].at = "write_total"
  /\ score' = [score EXCEPT ![req[r].attempt] = req[r].score]
  /\ Continue(r, Idle)
  /\ UNCHANGED <<quizVars, status, rowVars, expired, locked, maxScore, passed,
                 answerVars, lockEvents>>

WriteTotal(r) ==
  /\ req[r].at = "write_total"
  /\ score' = [score EXCEPT ![req[r].attempt] = req[r].score]
  /\ passed' = [passed EXCEPT ![req[r].attempt] = Passes(req[r].score, req[r].maxScore)]
  /\ Continue(r, Idle)
  /\ UNCHANGED <<quizVars, status, rowVars, expired, locked, maxScore, answerVars, lockEvents>>

-----------------------------------------------------------------------------
\* What happens around the handlers.

DeadlinePasses(a) ==
  /\ status[a] = "in_progress"
  /\ ~expired[a]
  /\ expired' = [expired EXCEPT ![a] = TRUE]
  /\ UNCHANGED <<quizVars, status, rowVars, locked, gradeVars, answerVars, lockEvents, req>>

\* publishQuiz, unpublishQuiz and archiveQuiz; the pool is never empty here.
SetPublished(b) ==
  /\ "quiz" \in Ops
  /\ published # b
  /\ published' = b
  /\ UNCHANGED <<assigned, attemptVars, answerVars, lockEvents, req>>

\* createAssignment and deleteAssignment, and an assignment's window opening
\* and closing.
SetAssigned(s) ==
  /\ "quiz" \in Ops
  /\ assigned' = IF s \in assigned THEN assigned \ {s} ELSE assigned \union {s}
  /\ UNCHANGED <<published, attemptVars, answerVars, lockEvents, req>>

\* A statement throws or the server stops: what was written stays written.
FailRequest(r) ==
  /\ "fail" \in Ops
  /\ req[r] # Idle
  /\ Continue(r, Idle)
  /\ UnchangedTables

\* The requests a handler refuses or answers without a write (a finished attempt
\* submitted again, a 404, a 409) leave everything as it is.  With it the model
\* stops only if a handler gets stuck half way.
AnswerWithoutChange ==
  /\ \A r \in Requests : req[r] = Idle
  /\ UNCHANGED vars

Step(r) ==
  \/ FindExisting(r) \/ ListAssignments(r) \/ CountAttempts(r) \/ InsertAttempt(r)
  \/ WriteAnswer(r)
  \/ LockAttempt(r) \/ LogLock(r) \/ ClearLock(r) \/ LogUnlock(r)
  \/ ReadAnswers(r) \/ (\E q \in Questions : GradeQuestion(r, q)) \/ CloseAttempt(r)
  \/ WriteGrade(r) \/ SumPoints(r) \/ WriteTotal(r)

NewRequest(r) ==
  \/ \E s \in Students : StartAttempt(r, s)
  \/ \E a \in Attempts, q \in Questions :
       \/ \E c \in Drafts : SaveAnswer(r, a, q, c)
       \/ \E p \in Awards : GradeAnswer(r, a, q, p)
  \/ \E a \in Attempts :
       RecordViolation(r, a) \/ UnlockAttempt(r, a) \/ SubmitAttempt(r, a)

Next ==
  \/ \E r \in Requests : Step(r) \/ NewRequest(r) \/ FailRequest(r)
  \/ \E a \in Attempts : DeadlinePasses(a)
  \/ \E b \in BOOLEAN : SetPublished(b)
  \/ \E s \in Students : SetAssigned(s)
  \/ AnswerWithoutChange

Spec == Init /\ [][Next]_vars

\* A handler under way is scheduled again and the database answers it; nobody
\* has to send a request.
FairSpec == Spec /\ \A r \in Requests : WF_vars(Step(r))

-----------------------------------------------------------------------------
(***************************************************************************)
(* Properties.                                                             *)
(***************************************************************************)

\* Every table and every request in flight has the shape the schema and the
\* handlers give it.
TypeOK ==
  /\ published \in BOOLEAN
  /\ assigned \subseteq Students
  /\ status \in [Attempts -> {"none", "in_progress"} \union Verdicts]
  /\ student \in [Attempts -> Students \union {Null}]
  /\ number \in [Attempts -> Nat]
  /\ snapshot \in [Attempts -> SUBSET Questions]
  /\ expired \in [Attempts -> BOOLEAN]
  /\ locked \in [Attempts -> BOOLEAN]
  /\ score \in [Attempts -> [Questions -> Nat] \union {Null}]
  /\ maxScore \in [Attempts -> (SUBSET Questions) \union {Null}]
  /\ passed \in [Attempts -> BOOLEAN \union {Null}]
  /\ content \in [Attempts -> [Questions -> Contents]]
  /\ points \in [Attempts -> [Questions -> Nat \union {Null}]]
  /\ review \in [Attempts -> [Questions -> BOOLEAN]]
  /\ teacher \in [Attempts -> [Questions -> BOOLEAN]]
  /\ lockEvents \in [Attempts -> {"none", "locked", "unlocked"}]
  /\ req \in [Requests -> RequestStates]

\* startAttempt reads the quiz, the assignments and the attempts long before it
\* inserts. Still: once a student's attempts are used up and no start is past its
\* count, no start gets past it again and no attempt is added; and once the quiz is
\* withdrawn from the student and no start is past that check, none gets past it
\* before the quiz is published and assigned to the student again.
StartAt(s, places) == \E r \in Requests : req[r].at \in places /\ req[r].student = s

UsedUp(s) ==
  Cardinality(AttemptsOf(s)) >= MaxAttempts /\ ~StartAt(s, {"insert_attempt"})

Offered(s) == published /\ s \in assigned
Withdrawn(s) == ~Offered(s) /\ ~StartAt(s, {"count_attempts", "insert_attempt"})

StartsStayBarred ==
  [][\A s \in Students :
       /\ UsedUp(s) => UsedUp(s)' /\ AttemptsOf(s)' = AttemptsOf(s)
       /\ Withdrawn(s) => (Withdrawn(s) \/ Offered(s))' /\ AttemptsOf(s)' = AttemptsOf(s)]_vars

\* A finished attempt has a graded row for every question of its snapshot, also
\* for those never answered, whatever failed or was repeated on the way
\* (gradeAttempt's promise to the review view).
GradedWhenFinished ==
  \A a \in Attempts : Finished(a) =>
    /\ \A q \in snapshot[a] : content[a][q] # "none" /\ Graded(a, q)
    /\ score[a] # Null /\ maxScore[a] = snapshot[a]

\* An attempt is closed as auto_submitted only after its deadline, whichever of
\* the requests that may close it does (the meaning exam-attempts.ts gives it).
AutoOnlyAfterDeadline ==
  \A a \in Attempts : status[a] = "auto_submitted" => expired[a]

\* Once an attempt is finished and no save is past its check, no save gets past
\* it again, and what the student wrote never changes.
Settled(a) == Finished(a) /\ \A r \in Requests : ~(Writing(r) /\ On(r, a))

FrozenOnceSettled ==
  [][\A a \in Attempts : Settled(a) =>
       Settled(a)' /\ \A q \in Questions : Text(a, q)' = Text(a, q)]_vars

\* Once an attempt is locked and no earlier save or submission is under way, the
\* student can neither change an answer nor hand it in before a teacher unlocks
\* it; only the deadline may close it.
Submitting(r) == Closing(r) /\ req[r].verdict = "submitted"

Sealed(a) ==
  /\ status[a] = "in_progress" /\ locked[a]
  /\ \A r \in Requests : On(r, a) => ~Writing(r) /\ ~Submitting(r)

LockHolds ==
  [][\A a \in Attempts : Sealed(a) =>
       /\ \A q \in Questions : Text(a, q)' = Text(a, q)
       /\ Sealed(a)' \/ ~locked'[a] \/ status'[a] = "auto_submitted"]_vars

\* The attempts implement the lifecycle they promise: one open attempt at a time
\* for each student, a snapshot that never changes, closed once and for good, and
\* only when every question is marked.
Lifecycle == INSTANCE AttemptLifecycle WITH
  Nobody <- Null,
  phase  <- [a \in Attempts |-> IF status[a] = "none" THEN "unused"
                             ELSE IF status[a] = "in_progress" THEN "open" ELSE "closed"],
  owner  <- student,
  paper  <- snapshot,
  marked <- [a \in Attempts |-> {q \in Questions : Graded(a, q)}]

ImplementsLifecycle == Lifecycle!Spec

\* With nothing under way on a finished attempt, its total is the sum of the
\* points of its answers and "passed" follows from it (gradeAnswer's comment:
\* the total is recomputed "exactly the way finalizeAttempt does").
Quiet(a) == \A r \in Requests : ~On(r, a)

ScoreMatchesAnswers ==
  \A a \in Attempts : Finished(a) /\ Quiet(a) =>
    SumFunction(score[a]) = SumFunction(PointsOf(a))

PassedMatchesScore ==
  \A a \in Attempts : Finished(a) /\ Quiet(a) =>
    passed[a] = Passes(score[a], snapshot[a])

\* A student never gets more attempts than the quiz allows, and no two attempts
\* of a student carry the same number.
AttemptsWithinLimit ==
  \A s \in Students :
    /\ Cardinality(AttemptsOf(s)) <= MaxAttempts
    /\ \A a, b \in AttemptsOf(s) : number[a] = number[b] => a = b

\* With no lock or unlock under way, the newest event of the audit trail tells
\* whether the attempt is locked.
AuditMatchesLock ==
  \A a \in Attempts : Quiet(a) => (locked[a] <=> lockEvents[a] = "locked")

\* A finalizeAttempt under way is carried out: the attempt gets closed.
ClosingCloses ==
  \A r \in Requests, a \in Attempts : (Closing(r) /\ On(r, a)) ~> Finished(a)
=============================================================================

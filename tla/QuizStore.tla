------------------------------- MODULE QuizStore -------------------------------
(***************************************************************************)
(* The quizzes, their pools of questions and their assignments in the      *)
(* database, and the handlers of the API that read and write them          *)
(* (quizzes/quiz.service.ts, assignments/assignment.service.ts), statement *)
(* by statement, for any number of clients.                                *)
(*                                                                         *)
(* Of a quiz's settings the model keeps how many questions an attempt      *)
(* draws, whether it starts later, and whether its answers are released.   *)
(* No action depends on loosened and overlapped, which are history.        *)
(***************************************************************************)
EXTENDS Naturals, FiniteSets, Sequences

CONSTANTS
  MaxQuestions,   \* the questions of the bank are numbered
  Targets,        \* the classes and students a quiz can be assigned to
  MaxQuizzes,     \* bounds the rows of quizzes
  MaxPer,         \* bounds the questions of an attempt
  MaxRequests,    \* bounds the requests under way at a time
  PageSize,       \* of the list of quizzes and of the picker
  Found,          \* the questions and the quizzes that a search finds
  Faults          \* "crash": a handler fails; "network": an answer is lost

ASSUME StoreAssumption ==
  /\ MaxQuestions \in Nat /\ MaxQuizzes \in Nat \ {0} /\ MaxPer \in Nat \ {0} /\ MaxRequests \in Nat
  /\ PageSize \in Nat \ {0}

VARIABLES
  quiz,        \* the table quizzes
  pool,        \* the rows of quiz_questions of each quiz
  assigned,    \* the rows of quiz_assignments of each quiz
  serial,      \* how many assignments were ever made
  alive,       \* the questions of the bank that are not deleted
  started,     \* the time at which the later quizzes start has come
  requests,    \* the requests under way
  loosened,    \* quizzes whose settings or pool were written after a check to publish
  overlapped   \* quizzes whose pool two requests were replacing at a time

storeVars == <<quiz, pool, assigned, serial, alive, started, requests, loosened, overlapped>>

Questions == 1 .. MaxQuestions
Quizzes == 1 .. MaxQuizzes
Slots == 1 .. MaxRequests
Settings == [per : 1 .. MaxPer, later : BOOLEAN, show : BOOLEAN]
NoSettings == [per |-> 1, later |-> FALSE, show |-> FALSE]
NoQuiz == [settings |-> NoSettings, status |-> "none", deleted |-> FALSE]
Live(id) == id \in Quizzes /\ quiz[id].status # "none" /\ ~quiz[id].deleted

\* "scheduled" is not stored: it is published, with a start that is to come.
ToDisplayStatus(row) ==
  IF row.status = "published" /\ row.settings.later /\ ~started THEN "scheduled" ELSE row.status

NoQuery == [status |-> "none", search |-> FALSE, page |-> 0]
AllQuizzes == [status |-> "all", search |-> FALSE, page |-> 1]

\* A request: what it is about, how far its handler is, what the handler holds
\* or has found, and the part of the page that waits for it.
NoRequest ==
  [kind |-> "none", stage |-> "free", quiz |-> 0, settings |-> NoSettings, ids |-> <<>>,
   rows |-> {}, target |-> "none", query |-> NoQuery, total |-> 0, status |-> "none",
   part |-> "none", heard |-> FALSE]
Ask(kind, id, part) ==
  [NoRequest EXCEPT !.kind = kind, !.stage = "sent", !.quiz = id, !.part = part, !.heard = TRUE]

Becomes(i, r) == requests' = [requests EXCEPT ![i] = r]
Answer(i, r) == Becomes(i, IF r.heard THEN [r EXCEPT !.stage = "answered"] ELSE NoRequest)
Refuse(i) == Becomes(i, IF requests[i].heard THEN [requests[i] EXCEPT !.stage = "refused"] ELSE NoRequest)
At(i, kinds, stage) == requests[i].kind \in kinds /\ requests[i].stage = stage

-----------------------------------------------------------------------------
\* requireOwnedQuiz: the quiz must be there when a handler starts, and again
\* when publishQuiz calls setQuizStatus. publishQuiz and duplicateQuiz keep the
\* row they have read. quizQuestionPoolSchema is parsed before.

\* Bug: an empty pool is taken.
PoolFitsEmpty(ids) == ids \in Seq(Questions) /\ \A m, n \in DOMAIN ids : ids[m] = ids[n] => m = n
PoolFits(ids) ==
  ids \in Seq(Questions) /\ ids # <<>> /\ \A m, n \in DOMAIN ids : ids[m] = ids[n] => m = n

RequireOwnedQuiz(i) ==
  LET r == requests[i]
      next == IF r.stage = "sent" THEN "checked" ELSE "ready"
  IN
  /\ r.kind \notin {"none", "create", "list", "bank"}
  /\ r.stage = "sent" \/ r.stage = "counted"
  /\ IF Live(r.quiz) /\ (r.kind = "pool" => PoolFits(r.ids))
       THEN Becomes(i, [r EXCEPT !.stage = next,
                                 !.settings = IF r.kind \in {"publish", "duplicate"}
                                                THEN quiz[r.quiz].settings ELSE @])
       ELSE Refuse(i)
  /\ UNCHANGED <<quiz, pool, assigned, serial, alive, started, loosened, overlapped>>

FreeRow(id) == quiz[id] = NoQuiz /\ \A other \in Quizzes : other < id => quiz[other] # NoQuiz
Publishing(id) ==
  quiz[id].status = "published"
    \/ \E j \in Slots : requests[j].kind = "publish" /\ requests[j].quiz = id
Loosen(id) == loosened' = IF Publishing(id) THEN loosened \union {id} ELSE loosened

CreateQuiz(i) ==
  /\ At(i, {"create"}, "sent")
  /\ \E id \in Quizzes :
       /\ FreeRow(id)
       /\ quiz' = [quiz EXCEPT ![id] = [settings |-> requests[i].settings, status |-> "draft",
                                        deleted |-> FALSE]]
       /\ Answer(i, [requests[i] EXCEPT !.quiz = id])
  /\ UNCHANGED <<pool, assigned, serial, alive, started, loosened, overlapped>>

\* Bug: the values to write leave out whether answers are released.
UpdateQuizForgetsShow(i) ==
  LET id == requests[i].quiz IN
  /\ At(i, {"update"}, "checked")
  /\ quiz' = [quiz EXCEPT ![id].settings = [requests[i].settings EXCEPT !.show = quiz[id].settings.show]]
  /\ Answer(i, requests[i])
  /\ Loosen(id)
  /\ UNCHANGED <<pool, assigned, serial, alive, started, overlapped>>

\* Every setting is written, whether it was changed or not, in any status.
UpdateQuiz(i) ==
  LET id == requests[i].quiz IN
  /\ At(i, {"update"}, "checked")
  /\ quiz' = [quiz EXCEPT ![id].settings = requests[i].settings]
  /\ Answer(i, requests[i])
  /\ Loosen(id)
  /\ UNCHANGED <<pool, assigned, serial, alive, started, overlapped>>

DeleteQuiz(i) ==
  /\ At(i, {"delete"}, "checked")
  /\ quiz' = [quiz EXCEPT ![requests[i].quiz].deleted = TRUE]
  /\ Answer(i, requests[i])
  /\ UNCHANGED <<pool, assigned, serial, alive, started, loosened, overlapped>>

\* Bug: any pool that is not empty is enough.
CountPoolAny(i) ==
  LET n == Cardinality(pool[requests[i].quiz]) IN
  /\ At(i, {"publish"}, "checked")
  /\ IF n = 0 THEN Refuse(i) ELSE Becomes(i, [requests[i] EXCEPT !.stage = "counted"])
  /\ UNCHANGED <<quiz, pool, assigned, serial, alive, started, loosened, overlapped>>

\* publishQuiz counts the pool and compares it with the row it has read.
CountPool(i) ==
  LET n == Cardinality(pool[requests[i].quiz]) IN
  /\ At(i, {"publish"}, "checked")
  /\ IF n = 0 \/ n < requests[i].settings.per THEN Refuse(i)
     ELSE Becomes(i, [requests[i] EXCEPT !.stage = "counted"])
  /\ UNCHANGED <<quiz, pool, assigned, serial, alive, started, loosened, overlapped>>

SetQuizStatus(i) ==
  /\ At(i, {"publish"}, "ready") \/ At(i, {"unpublish", "archive"}, "checked")
  /\ quiz' = [quiz EXCEPT ![requests[i].quiz].status =
                CASE requests[i].kind = "publish" -> "published"
                  [] requests[i].kind = "unpublish" -> "draft"
                  [] OTHER -> "archived"]
  /\ Answer(i, requests[i])
  /\ UNCHANGED <<pool, assigned, serial, alive, started, loosened, overlapped>>

SetQuizShowResults(i) ==
  /\ At(i, {"release", "hide"}, "checked")
  /\ quiz' = [quiz EXCEPT ![requests[i].quiz].settings.show = requests[i].kind = "release"]
  /\ Answer(i, requests[i])
  /\ UNCHANGED <<pool, assigned, serial, alive, started, loosened, overlapped>>

\* duplicateQuiz reads the pool after the row; the copy, a draft, and its pool
\* are one transaction.
ReadPoolToCopy(i) ==
  /\ At(i, {"duplicate"}, "checked")
  /\ Becomes(i, [requests[i] EXCEPT !.stage = "ready", !.rows = pool[requests[i].quiz]])
  /\ UNCHANGED <<quiz, pool, assigned, serial, alive, started, loosened, overlapped>>

DuplicateQuiz(i) ==
  /\ At(i, {"duplicate"}, "ready")
  /\ \E id \in Quizzes :
       /\ FreeRow(id)
       /\ quiz' = [quiz EXCEPT ![id] = [settings |-> requests[i].settings, status |-> "draft",
                                        deleted |-> FALSE]]
       /\ pool' = [pool EXCEPT ![id] = requests[i].rows]
       /\ overlapped' = IF requests[i].quiz \in overlapped THEN overlapped \union {id} ELSE overlapped
       /\ Answer(i, [requests[i] EXCEPT !.quiz = id, !.rows = {}])
  /\ UNCHANGED <<assigned, serial, alive, started, loosened>>

-----------------------------------------------------------------------------
\* setQuizQuestionPool.

RowsOf(ids) == {[question |-> ids[n], position |-> n] : n \in DOMAIN ids}

\* verifyQuestionsOwnedBy: the questions must be there, now.
VerifyQuestions(i) ==
  /\ At(i, {"pool"}, "checked")
  /\ IF \A n \in DOMAIN requests[i].ids : requests[i].ids[n] \in alive
       THEN Becomes(i, [requests[i] EXCEPT !.stage = "ready"])
       ELSE Refuse(i)
  /\ UNCHANGED <<quiz, pool, assigned, serial, alive, started, loosened, overlapped>>

\* A transaction that has deleted rows keeps them locked until it ends.
Locked(id, rows) ==
  \E j \in Slots :
    /\ requests[j].kind = "pool" /\ requests[j].stage = "deleted" /\ requests[j].quiz = id
    /\ requests[j].rows \intersect rows # {}

\* The transaction deletes the rows that it sees, or waits for the one that has
\* deleted them already ...
DeletePool(i) ==
  LET id == requests[i].quiz
      another == \E j \in Slots \ {i} :
                   requests[j].kind = "pool" /\ requests[j].quiz = id
                     /\ requests[j].stage \in {"waiting", "deleted"}
  IN
  /\ At(i, {"pool"}, "ready")
  /\ Becomes(i, [requests[i] EXCEPT !.stage = IF Locked(id, pool[id]) THEN "waiting" ELSE "deleted",
                                    !.rows = pool[id]])
  /\ overlapped' = IF another THEN overlapped \union {id} ELSE overlapped
  /\ UNCHANGED <<quiz, pool, assigned, serial, alive, started, loosened>>

\* ... and then deletes what is left of them: the rows that the other has
\* inserted are not among them.
WakeDelete(i) ==
  LET r == requests[i] IN
  /\ At(i, {"pool"}, "waiting") /\ ~Locked(r.quiz, r.rows)
  /\ Becomes(i, [r EXCEPT !.stage = "deleted", !.rows = r.rows \intersect pool[r.quiz]])
  /\ UNCHANGED <<quiz, pool, assigned, serial, alive, started, loosened, overlapped>>

\* Bug: the old rows are not deleted.
InsertPoolOnly(i) ==
  LET r == requests[i] IN
  /\ At(i, {"pool"}, "deleted")
  /\ IF \E old \in pool[r.quiz] : \E n \in DOMAIN r.ids : old.question = r.ids[n]
       THEN Refuse(i) /\ UNCHANGED <<pool, loosened>>
       ELSE /\ pool' = [pool EXCEPT ![r.quiz] = @ \union RowsOf(r.ids)]
            /\ Answer(i, [r EXCEPT !.rows = {}])
            /\ Loosen(r.quiz)
  /\ UNCHANGED <<quiz, assigned, serial, alive, started, overlapped>>

\* Then it inserts its own and commits. A question that another transaction has
\* inserted in the meantime breaks the primary key, and nothing is done.
InsertPool(i) ==
  LET r == requests[i]
      kept == pool[r.quiz] \ r.rows
  IN
  /\ At(i, {"pool"}, "deleted")
  /\ IF \E old \in kept : \E n \in DOMAIN r.ids : old.question = r.ids[n]
       THEN Refuse(i) /\ UNCHANGED <<pool, loosened>>
       ELSE /\ pool' = [pool EXCEPT ![r.quiz] = kept \union RowsOf(r.ids)]
            /\ Answer(i, [r EXCEPT !.rows = {}])
            /\ Loosen(r.quiz)
  /\ UNCHANGED <<quiz, assigned, serial, alive, started, overlapped>>

-----------------------------------------------------------------------------
\* Assignments.

RequirePublishedQuiz(i) ==
  LET id == requests[i].quiz IN
  /\ At(i, {"assign"}, "checked")
  /\ IF Live(id) /\ quiz[id].status = "published"
       THEN Becomes(i, [requests[i] EXCEPT !.stage = "published"])
       ELSE Refuse(i)
  /\ UNCHANGED <<quiz, pool, assigned, serial, alive, started, loosened, overlapped>>

\* createAssignment looks for the target among the rows ...
FindExisting(i) ==
  LET r == requests[i] IN
  /\ At(i, {"assign"}, "published")
  /\ IF \E row \in assigned[r.quiz] : row.target = r.target THEN Refuse(i)
     ELSE Becomes(i, [r EXCEPT !.stage = "ready"])
  /\ UNCHANGED <<quiz, pool, assigned, serial, alive, started, loosened, overlapped>>

\* Bug: the table has no unique index.
InsertAssignmentAnyway(i) ==
  LET r == requests[i] IN
  /\ At(i, {"assign"}, "ready")
  /\ assigned' = [assigned EXCEPT ![r.quiz] =
                    @ \union {[target |-> r.target, number |-> serial + 1]}]
  /\ serial' = serial + 1
  /\ Answer(i, r)
  /\ UNCHANGED <<quiz, pool, alive, started, loosened, overlapped>>

\* ... and inserts its own: the unique index lets only one through.
InsertAssignment(i) ==
  LET r == requests[i] IN
  /\ At(i, {"assign"}, "ready")
  /\ IF \E row \in assigned[r.quiz] : row.target = r.target THEN Refuse(i) /\ UNCHANGED <<assigned, serial>>
     ELSE /\ assigned' = [assigned EXCEPT ![r.quiz] =
                            @ \union {[target |-> r.target, number |-> serial + 1]}]
          /\ serial' = serial + 1
          /\ Answer(i, r)
  /\ UNCHANGED <<quiz, pool, alive, started, loosened, overlapped>>

DeleteAssignment(i) ==
  LET r == requests[i] IN
  /\ At(i, {"unassign"}, "checked")
  /\ IF r.rows \intersect assigned[r.quiz] = {} THEN Refuse(i) /\ UNCHANGED assigned
     ELSE assigned' = [assigned EXCEPT ![r.quiz] = @ \ r.rows] /\ Answer(i, r)
  /\ UNCHANGED <<quiz, pool, serial, alive, started, loosened, overlapped>>

-----------------------------------------------------------------------------
\* What is read for the pages.

Reading == UNCHANGED <<quiz, pool, assigned, serial, alive, started, loosened, overlapped>>

\* In the order of their positions; two saves may have left two of one position.
OrdersOf(rows) ==
  {ids \in [1 .. Cardinality(rows) -> {row.question : row \in rows}] :
     /\ \A m, n \in DOMAIN ids : ids[m] = ids[n] => m = n
     /\ \A m, n \in DOMAIN ids : m < n =>
          \E a, b \in rows : a.question = ids[m] /\ b.question = ids[n] /\ a.position <= b.position}

\* getQuizQuestionPool: a question that was deleted since is still in it.
GetQuizQuestionPool(i) ==
  /\ At(i, {"readPool"}, "checked")
  /\ \E ids \in OrdersOf(pool[requests[i].quiz]) : Answer(i, [requests[i] EXCEPT !.ids = ids])
  /\ Reading

GetQuiz(i) ==
  /\ At(i, {"readQuiz"}, "checked")
  /\ Answer(i, [requests[i] EXCEPT !.status = quiz[requests[i].quiz].status])
  /\ Reading

ListAssignmentsForQuiz(i) ==
  /\ At(i, {"readAssigned"}, "checked")
  /\ Answer(i, [requests[i] EXCEPT !.rows = assigned[requests[i].quiz]])
  /\ Reading

\* The page of a sorted set that is asked for, newest or largest first.
PageOf(set, page) ==
  {x \in set : LET before == Cardinality({y \in set : y > x}) IN
                 before >= (page - 1) * PageSize /\ before < page * PageSize}

Matching(query) ==
  {id \in Quizzes : /\ Live(id)
                    /\ query.search => id \in Found
                    /\ query.status \in {"all", ToDisplayStatus(quiz[id])}
                         \/ query.status = quiz[id].status}

\* listQuizzes counts the quizzes that match, then reads the page.
CountQuizzes(i) ==
  /\ At(i, {"list"}, "sent")
  /\ Becomes(i, [requests[i] EXCEPT !.stage = "counted", !.total = Cardinality(Matching(requests[i].query))])
  /\ Reading

ListQuizzes(i) ==
  /\ At(i, {"list"}, "counted")
  /\ Answer(i, [requests[i] EXCEPT
                  !.rows = {[quiz |-> id, status |-> ToDisplayStatus(quiz[id])] :
                              id \in PageOf(Matching(requests[i].query), requests[i].query.page)}])
  /\ Reading

\* The picker searches the bank with the questions' own list.
ListQuestions(i) ==
  LET q == requests[i].query
      matching == {x \in alive : q.search => x \in Found}
  IN
  /\ At(i, {"bank"}, "sent")
  /\ Answer(i, [requests[i] EXCEPT !.rows = PageOf(matching, q.page), !.total = Cardinality(matching)])
  /\ Reading

-----------------------------------------------------------------------------
\* What happens besides.

\* A statement fails or the process dies; a transaction is undone.
Fail(i) ==
  /\ "crash" \in Faults /\ requests[i].stage \notin {"free", "answered", "refused"}
  /\ Refuse(i)
  /\ Reading

DeleteQuestion(q) ==
  /\ q \in alive /\ alive' = alive \ {q}
  /\ UNCHANGED <<quiz, pool, assigned, serial, started, requests, loosened, overlapped>>

StartsCome ==
  /\ ~started /\ started' = TRUE
  /\ UNCHANGED <<quiz, pool, assigned, serial, alive, requests, loosened, overlapped>>

Serve(i) ==
  \/ RequireOwnedQuiz(i)
  \/ CreateQuiz(i) \/ UpdateQuiz(i) \/ DeleteQuiz(i)
  \/ CountPool(i) \/ SetQuizStatus(i) \/ SetQuizShowResults(i)
  \/ ReadPoolToCopy(i) \/ DuplicateQuiz(i)
  \/ VerifyQuestions(i) \/ DeletePool(i) \/ WakeDelete(i) \/ InsertPool(i)
  \/ RequirePublishedQuiz(i) \/ FindExisting(i) \/ InsertAssignment(i) \/ DeleteAssignment(i)
  \/ GetQuizQuestionPool(i) \/ GetQuiz(i) \/ ListAssignmentsForQuiz(i)
  \/ CountQuizzes(i) \/ ListQuizzes(i) \/ ListQuestions(i)

-----------------------------------------------------------------------------
\* A quiz that is published has questions, whatever was saved since: a pool
\* once saved is never empty again, so an attempt has something to draw.
PublishedHasQuestions == \A id \in Quizzes : quiz[id].status = "published" => pool[id] # {}

\* A published quiz has the questions an attempt draws, unless its settings or
\* its pool were saved after that was checked.
PublishedHasEnough ==
  \A id \in Quizzes \ loosened :
    quiz[id].status = "published" => Cardinality(pool[id]) >= quiz[id].settings.per

\* The questions of a pool are in one order, that of the save that wrote it,
\* unless two saves of the pool overlapped.
PoolInOrder ==
  \A id \in Quizzes \ overlapped :
    \A a, b \in pool[id] : a.position = b.position \/ a.question = b.question => a = b

\* A quiz is assigned at most once to a class or a student, however many
\* requests looked for the assignment at the same time.
AssignedOnce == \A id \in Quizzes : \A a, b \in assigned[id] : a.target = b.target => a = b

\* What the handlers store is whole, however their statements interleave: what
\* is published can be started, pools are in order and assignments are single.
StoreIsWhole == PublishedHasQuestions /\ PublishedHasEnough /\ PoolInOrder /\ AssignedOnce
=============================================================================

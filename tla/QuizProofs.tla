------------------------------ MODULE QuizProofs ------------------------------
(***************************************************************************)
(* What the handlers of QuizStore store is whole, for any number of        *)
(* requests, quizzes and questions, whatever the pages of QuizPages ask    *)
(* for; and what the pages show fits the requests under way and, where     *)
(* they say so, what is stored.                                            *)
(***************************************************************************)
EXTENDS QuizInvariants, FiniteSetTheorems, SequenceTheorems, WellFoundedInduction, TLAPS

-----------------------------------------------------------------------------
\* Requests that nobody serves yet, or no more.

LEMMA NoSettingsFit == NoSettings \in Settings /\ \A s \in Settings : s.per \in Nat
BY StoreAssumption DEF NoSettings, Settings

LEMMA NothingIsOver == Over(NoRequest)
BY NoSettingsFit DEF Over, NoRequest, Fields

LEMMA AskIsFresh == \A kind, id, part : Fresh(Ask(kind, id, part))
BY NoSettingsFit DEF Fresh, Ask, NoRequest, Fields

LEMMA FreshIsOver == \A r : Fresh(r) => Over(r)
BY DEF Fresh, Over

LEMMA StaysFresh ==
  ASSUME NEW r, Fresh(r)
  PROVE  /\ \A v : Fresh([r EXCEPT !.query = v])
         /\ \A v : Fresh([r EXCEPT !.ids = v])
         /\ \A v : Fresh([r EXCEPT !.rows = v])
         /\ \A v : Fresh([r EXCEPT !.target = v])
         /\ \A n : \A v \in Settings : Fresh([r EXCEPT !.settings = v, !.total = n])
         /\ \A x, t, h : \A v \in Settings :
              Fresh([r EXCEPT !.settings = v, !.ids = x, !.target = t, !.heard = h])
BY DEF Fresh, Fields, NoRequest

LEMMA OverIsUnderway == \A r : Over(r) => Underway(r) /\ ~Replacing(r)
BY DEF Over, Underway, Shape, OfQuiz, PoolParsed, PublishChecked, CopyRead, RowsSeen, Replacing, Begun

LEMMA NothingMoves == StoreInv => Calm(requests, requests)
BY DEF StoreInv, Calm, Likewise, Underway, Shape

LEMMA PutIsCalm ==
  ASSUME NEW rs, NEW next, NEW r, Calm(rs, next), Over(r)
  PROVE  Calm(rs, Put(next, r))
BY DEF Calm, Put, Likewise

LEMMA ForgetIsCalm ==
  ASSUME NEW rs, NEW next, NEW gone, Calm(rs, next)
  PROVE  Calm(rs, Forget(next, gone))
<1> SUFFICES ASSUME NEW i \in Slots
             PROVE  Likewise(rs[i], Forget(next, gone)[i])
  BY DEF Calm, Forget
<1> DEFINE r == next[i]
<1>1. Likewise(rs[i], r) /\ DOMAIN r = Fields
  BY DEF Calm, Likewise, Over
<1>2. \/ Forget(next, gone)[i] = r \/ Forget(next, gone)[i] = NoRequest
      \/ Forget(next, gone)[i] = [r EXCEPT !.status = "gone"]
      \/ Forget(next, gone)[i] = [r EXCEPT !.heard = FALSE]
  BY DEF Forget
<1>3. /\ Likewise(rs[i], [r EXCEPT !.status = "gone"])
      /\ Likewise(rs[i], [r EXCEPT !.heard = FALSE])
  <2> HIDE DEF r
  <2> QED BY <1>1 DEF Likewise, Over, Fields, NoRequest
<1> QED BY <1>1, <1>2, <1>3, NothingIsOver DEF Likewise

LEMMA WithoutIsCalm ==
  ASSUME StoreInv, NEW i \in Slots
  PROVE  Calm(requests, Without(i))
BY NothingMoves, NothingIsOver DEF Calm, Without, Likewise

-----------------------------------------------------------------------------
\* Steps that write nothing, and those that end with an answer or a refusal.

LEMMA QuietlyKeeps ==
  ASSUME StoreInv, StoreIsWhole, UNCHANGED <<quiz, pool, assigned, loosened, overlapped>>,
         Calm(requests, requests')
  PROVE  StoreInv' /\ StoreIsWhole'
<1>1. StoreIsWhole'
  BY DEF StoreIsWhole, PublishedHasQuestions, PublishedHasEnough, PoolInOrder, AssignedOnce
<1>2. ASSUME NEW i \in Slots
      PROVE  /\ Underway(requests[i])'
             /\ Replacing(requests[i])' => Replacing(requests[i]) /\ requests'[i].quiz = requests[i].quiz
  <2>1. Underway(requests[i]) /\ Likewise(requests[i], requests'[i])
    BY DEF StoreInv, Calm
  <2>2. CASE Over(requests'[i])
    BY <2>2, Zenon DEF Over, Underway, Shape, OfQuiz, PoolParsed, PublishChecked, CopyRead, RowsSeen, Replacing, Begun
  <2>3. CASE ~Over(requests'[i])
    BY <2>1, <2>3 DEF Likewise, Underway, Shape, OfQuiz, PoolParsed, PublishChecked, CopyRead, RowsSeen, Replacing
  <2>4. QED
    BY <2>2, <2>3
<1>3. Apart'
  BY <1>2 DEF Apart, StoreInv
<1>4. QED
  BY <1>1, <1>2, <1>3 DEF StoreInv, Calm

\* A handler goes on with its request, and writes nothing.
LEMMA GoingOnKeeps ==
  ASSUME StoreInv, StoreIsWhole, UNCHANGED <<quiz, pool, assigned, loosened, overlapped>>,
         NEW i \in Slots, NEW r, Becomes(i, r), Underway(r),
         Replacing(r) => Replacing(requests[i]) /\ r.quiz = requests[i].quiz
  PROVE  StoreInv' /\ StoreIsWhole'
<1>1. StoreIsWhole'
  BY DEF StoreIsWhole, PublishedHasQuestions, PublishedHasEnough, PoolInOrder, AssignedOnce
<1>2. requests' = [j \in Slots |-> IF j = i THEN r ELSE requests[j]]
  BY DEF Becomes, StoreInv
<1>3. ASSUME NEW j \in Slots
      PROVE  /\ Underway(requests[j])'
             /\ Replacing(requests[j])' => Replacing(requests[j]) /\ requests'[j].quiz = requests[j].quiz
  <2>1. CASE j = i
    BY <1>2, <2>1 DEF Underway, Shape, OfQuiz, PoolParsed, PublishChecked, CopyRead, RowsSeen, Replacing
  <2>2. CASE j # i
    BY <1>2, <2>2 DEF StoreInv, Underway, Shape, OfQuiz, PoolParsed, PublishChecked, CopyRead, RowsSeen, Replacing
  <2>3. QED
    BY <2>1, <2>2
<1>4. Apart'
  BY <1>3 DEF Apart, StoreInv
<1>5. QED
  BY <1>1, <1>2, <1>3, <1>4 DEF StoreInv

LEMMA RefuseKeeps ==
  ASSUME StoreInv, NEW i \in Slots, Refuse(i)
  PROVE  Calm(requests, requests')
<1>1. Underway(requests[i])
  BY DEF StoreInv
<1>2. Over([requests[i] EXCEPT !.stage = "refused"])
  BY <1>1 DEF Underway, Shape, Over, Fields, NoRequest
<1>3. PICK r : Over(r) /\ requests' = [requests EXCEPT ![i] = r]
  BY <1>2, NothingIsOver, Zenon DEF Refuse, Becomes
<1>4. QED
  BY <1>3, NothingMoves DEF Calm, Likewise

LEMMA AnswerKeeps ==
  ASSUME StoreInv, NEW i \in Slots, NEW r, Answer(i, r), DOMAIN r = Fields, r.settings \in Settings
  PROVE  /\ Calm(requests, requests') /\ Over(requests'[i])
         /\ \A j \in Slots : j # i => requests'[j] = requests[j]
<1>1. Over([r EXCEPT !.stage = "answered"])
  BY DEF Over, Fields, NoRequest
<1>2. PICK s : Over(s) /\ requests' = [requests EXCEPT ![i] = s]
  BY <1>1, NothingIsOver, Zenon DEF Answer, Becomes
<1>3. requests' = [j \in Slots |-> IF j = i THEN s ELSE requests[j]]
  BY <1>2 DEF StoreInv
<1>4. QED
  BY <1>2, <1>3, NothingMoves DEF Calm, Likewise

-----------------------------------------------------------------------------
\* The handlers of QuizStore, one after the other.

LEMMA RequireOwnedQuizKeeps ==
  ASSUME StoreInv, StoreIsWhole, NEW i \in Slots, RequireOwnedQuiz(i)
  PROVE  StoreInv' /\ StoreIsWhole'
<1> DEFINE r == requests[i]
           next == IF r.stage = "sent" THEN "checked" ELSE "ready"
           seen == IF r.kind \in {"publish", "duplicate"} THEN quiz[r.quiz].settings ELSE r.settings
           s == [r EXCEPT !.stage = next, !.settings = seen]
<1>1. /\ UNCHANGED <<quiz, pool, assigned, loosened, overlapped>>
      /\ r.kind \notin {"none", "create", "list", "bank"} /\ (r.stage = "sent" \/ r.stage = "counted")
      /\ \/ Live(r.quiz) /\ (r.kind = "pool" => PoolFits(r.ids)) /\ Becomes(i, s)
         \/ Refuse(i)
  BY Zenon DEF RequireOwnedQuiz
<1>2. Underway(r) /\ (r.quiz \in Quizzes => quiz[r.quiz].settings \in Settings)
  BY DEF StoreInv, QuizRows
<1>3. CASE Refuse(i)
  BY <1>1, <1>3, RefuseKeeps, QuietlyKeeps
<1>4. CASE Live(r.quiz) /\ (r.kind = "pool" => PoolFits(r.ids)) /\ Becomes(i, s)
  <2> HIDE DEF r
  <2>1. seen \in Settings /\ (r.kind \in {"publish", "duplicate"} => seen = quiz[r.quiz].settings)
    BY <1>2, <1>4 DEF Live, Underway, Shape
  <2> HIDE DEF seen
  <2>2. /\ DOMAIN s = Fields /\ s.kind = r.kind /\ s.quiz = r.quiz /\ s.ids = r.ids /\ s.rows = r.rows
        /\ s.settings = seen /\ s.stage = next
    BY <1>2 DEF Underway, Shape, Fields, NoRequest
  <2> HIDE DEF s
  <2>3. Shape(s)
    BY <2>1, <2>2 DEF Shape
  <2>4. OfQuiz(s) /\ PoolParsed(s)
    BY <1>4, <2>2 DEF OfQuiz, PoolParsed, Live
  <2>5. PublishChecked(s)
    BY <1>1, <1>2, <2>1, <2>2 DEF PublishChecked, Underway
  <2>6. CopyRead(s) /\ RowsSeen(s) /\ ~Replacing(s)
    BY <1>1, <1>2, <2>2 DEF CopyRead, RowsSeen, Replacing, Underway, Shape
  <2>7. QED
    BY <1>1, <1>4, <2>3, <2>4, <2>5, <2>6, GoingOnKeeps DEF Underway
<1>5. QED
  BY <1>1, <1>3, <1>4

LEMMA CountPoolKeeps ==
  ASSUME StoreInv, StoreIsWhole, NEW i \in Slots, CountPool(i)
  PROVE  StoreInv' /\ StoreIsWhole'
<1> DEFINE r == requests[i]
           n == Cardinality(pool[r.quiz])
           s == [r EXCEPT !.stage = "counted"]
<1>1. /\ UNCHANGED <<quiz, pool, assigned, loosened, overlapped>>
      /\ r.kind = "publish" /\ r.stage = "checked"
      /\ \/ ~(n = 0 \/ n < r.settings.per) /\ Becomes(i, s)
         \/ Refuse(i)
  BY Zenon DEF CountPool, At
<1>2. Underway(r)
  BY DEF StoreInv
<1>3. CASE Refuse(i)
  BY <1>1, <1>3, RefuseKeeps, QuietlyKeeps
<1>4. CASE ~(n = 0 \/ n < r.settings.per) /\ Becomes(i, s)
  <2>1. r.quiz \in Quizzes
    BY <1>1, <1>2 DEF Underway, OfQuiz, Begun
  <2>2. n \in Nat /\ pool[r.quiz] # {}
    BY <1>4, <2>1, FS_CardinalityType, FS_EmptySet DEF StoreInv
  <2> HIDE DEF r, n
  <2>3. n >= r.settings.per
    BY <1>2, <1>4, <2>2, NoSettingsFit DEF Underway, Shape
  <2>4. r.quiz \notin loosened => n >= quiz[r.quiz].settings.per
    BY <1>1, <1>2, <2>3 DEF Underway, PublishChecked
  <2>5. Underway(s)
    BY <1>1, <1>2, <2>2, <2>4 DEF Underway, Shape, OfQuiz, PoolParsed, PublishChecked, CopyRead, RowsSeen,
                                  Replacing, Fields, NoRequest, n, Begun
  <2>6. ~Replacing(s)
    BY <1>1, <1>2 DEF Replacing, Underway, Shape, Fields, NoRequest
  <2>7. QED
    BY <1>1, <1>4, <2>5, <2>6, GoingOnKeeps
<1>5. QED
  BY <1>1, <1>3, <1>4

LEMMA ReadPoolToCopyKeeps ==
  ASSUME StoreInv, StoreIsWhole, NEW i \in Slots, ReadPoolToCopy(i)
  PROVE  StoreInv' /\ StoreIsWhole'
<1> DEFINE r == requests[i]
           rows == pool[r.quiz]
           s == [r EXCEPT !.stage = "ready", !.rows = rows]
<1>1. /\ UNCHANGED <<quiz, pool, assigned, loosened, overlapped>>
      /\ r.kind = "duplicate" /\ r.stage = "checked" /\ Becomes(i, s)
  BY DEF ReadPoolToCopy, At
<1>2. Underway(r)
  BY DEF StoreInv
<1>3. r.quiz \in Quizzes
  BY <1>1, <1>2 DEF Underway, OfQuiz, Begun
<1>4. IsFiniteSet(rows) /\ (r.quiz \notin overlapped => InOrder(rows))
  BY <1>3 DEF StoreInv, StoreIsWhole, PoolInOrder, InOrder
<1> HIDE DEF r, rows
<1>5. Underway(s) /\ ~Replacing(s)
  BY <1>1, <1>2, <1>4 DEF Underway, Shape, OfQuiz, PoolParsed, PublishChecked, CopyRead, RowsSeen,
                                  Replacing, Fields, NoRequest, Begun
<1>6. QED
  BY <1>1, <1>5, GoingOnKeeps

\* A stage later, with what it had.
LEMMA NextStage ==
  ASSUME NEW r, Underway(r), NEW stage,
         \/ r.kind = "pool" /\ r.stage = "checked" /\ stage = "ready"
         \/ r.kind = "assign" /\ r.stage \in Begun /\ stage \in {"published", "ready"}
  PROVE  Underway([r EXCEPT !.stage = stage]) /\ ~Replacing([r EXCEPT !.stage = stage])
BY DEF Underway, Shape, OfQuiz, PoolParsed, PublishChecked, CopyRead, RowsSeen, Replacing, Fields, NoRequest, Begun

LEMMA VerifyQuestionsKeeps ==
  ASSUME StoreInv, StoreIsWhole, NEW i \in Slots, VerifyQuestions(i)
  PROVE  StoreInv' /\ StoreIsWhole'
<1> DEFINE r == requests[i]
<1>1. /\ UNCHANGED <<quiz, pool, assigned, loosened, overlapped>>
      /\ r.kind = "pool" /\ r.stage = "checked"
      /\ Becomes(i, [r EXCEPT !.stage = "ready"]) \/ Refuse(i)
  BY Zenon DEF VerifyQuestions, At
<1>2. Underway(r)
  BY DEF StoreInv
<1>3. QED
  BY <1>1, <1>2, NextStage, GoingOnKeeps, RefuseKeeps, QuietlyKeeps

LEMMA RequirePublishedQuizKeeps ==
  ASSUME StoreInv, StoreIsWhole, NEW i \in Slots, RequirePublishedQuiz(i) \/ FindExisting(i)
  PROVE  StoreInv' /\ StoreIsWhole'
<1> DEFINE r == requests[i]
<1>1. /\ UNCHANGED <<quiz, pool, assigned, loosened, overlapped>>
      /\ r.kind = "assign" /\ r.stage \in Begun
      /\ \/ \E stage \in {"published", "ready"} : Becomes(i, [r EXCEPT !.stage = stage])
         \/ Refuse(i)
  <2>1. CASE RequirePublishedQuiz(i)
    BY <2>1, Zenon DEF RequirePublishedQuiz, At, Begun
  <2>2. CASE FindExisting(i)
    BY <2>2, Zenon DEF FindExisting, At, Begun
  <2>3. QED
    BY <2>1, <2>2
<1>2. Underway(r)
  BY DEF StoreInv
<1>3. CASE Refuse(i)
  BY <1>1, <1>3, RefuseKeeps, QuietlyKeeps
<1>4. CASE ~Refuse(i)
  <2>1. PICK stage \in {"published", "ready"} : Becomes(i, [r EXCEPT !.stage = stage])
    BY <1>1, <1>4
  <2>2. Underway([r EXCEPT !.stage = stage]) /\ ~Replacing([r EXCEPT !.stage = stage])
    BY <1>1, <1>2, NextStage
  <2>3. QED
    BY <1>1, <2>1, <2>2, GoingOnKeeps
<1>5. QED
  BY <1>3, <1>4

LEMMA ReadingKeeps ==
  ASSUME StoreInv, StoreIsWhole, NEW i \in Slots,
         \/ GetQuizQuestionPool(i) \/ GetQuiz(i) \/ ListAssignmentsForQuiz(i) \/ CountQuizzes(i)
         \/ ListQuizzes(i) \/ ListQuestions(i)
  PROVE  StoreInv' /\ StoreIsWhole'
<1> DEFINE r == requests[i]
<1>1. Underway(r) /\ UNCHANGED <<quiz, pool, assigned, loosened, overlapped>>
  BY DEF StoreInv, GetQuizQuestionPool, GetQuiz, ListAssignmentsForQuiz, CountQuizzes, ListQuizzes, ListQuestions,
         Reading
<1>2. ASSUME NEW v
      PROVE  /\ Over([r EXCEPT !.ids = v, !.stage = "answered"])
             /\ \A s : s \in {[r EXCEPT !.ids = v], [r EXCEPT !.status = v], [r EXCEPT !.rows = v]}
                         => DOMAIN s = Fields /\ s.settings \in Settings
  <2> HIDE DEF r
  <2> QED BY <1>1 DEF Underway, Shape, Over, Fields, NoRequest
<1>3. ASSUME NEW v, NEW w, NEW s, s = [r EXCEPT !.rows = v, !.total = w]
      PROVE  DOMAIN s = Fields /\ s.settings \in Settings
  <2> HIDE DEF r
  <2> QED BY <1>1, <1>3 DEF Underway, Shape, Fields, NoRequest
<1>4. CASE CountQuizzes(i)
  <2> DEFINE n == Cardinality(Matching(r.query))
             s == [r EXCEPT !.stage = "counted", !.total = n]
  <2>1. r.kind = "list" /\ Becomes(i, s)
    BY <1>4 DEF CountQuizzes, At
  <2> HIDE DEF r, n
  <2>2. Underway(s) /\ ~Replacing(s)
    BY <1>1, <2>1 DEF Underway, Shape, OfQuiz, PoolParsed, PublishChecked, CopyRead, RowsSeen, Replacing,
                      Fields, NoRequest
  <2>3. QED
    BY <1>1, <2>1, <2>2, GoingOnKeeps
<1>5. CASE ~CountQuizzes(i)
  <2>1. PICK s : Answer(i, s) /\ DOMAIN s = Fields /\ s.settings \in Settings
    <3>1. CASE GetQuizQuestionPool(i)
      <4>1. PICK ids : Answer(i, [r EXCEPT !.ids = ids])
        BY <3>1, Zenon DEF GetQuizQuestionPool
      <4>2. QED
        BY <4>1, <1>2, Zenon
    <3>2. CASE GetQuiz(i)
      <4>1. PICK v : Answer(i, [r EXCEPT !.status = v])
        BY <3>2, Zenon DEF GetQuiz
      <4>2. QED
        BY <4>1, <1>2, Zenon
    <3>3. CASE ListAssignmentsForQuiz(i)
      <4>1. PICK v : Answer(i, [r EXCEPT !.rows = v])
        BY <3>3, Zenon DEF ListAssignmentsForQuiz
      <4>2. QED
        BY <4>1, <1>2, Zenon
    <3>4. CASE ListQuizzes(i)
      <4>1. PICK v : Answer(i, [r EXCEPT !.rows = v])
        BY <3>4, Zenon DEF ListQuizzes
      <4>2. QED
        BY <4>1, <1>2, Zenon
    <3>5. CASE ListQuestions(i)
      <4>1. PICK v, w : Answer(i, [r EXCEPT !.rows = v, !.total = w])
        BY <3>5, Zenon DEF ListQuestions
      <4>2. QED
        BY <4>1, <1>3, Zenon
    <3>6. QED
      BY <1>5, <3>1, <3>2, <3>3, <3>4, <3>5
  <2>2. QED
    BY <1>1, <2>1, AnswerKeeps, QuietlyKeeps
<1>6. QED
  BY <1>4, <1>5

LEMMA WakeDeleteKeeps ==
  ASSUME StoreInv, StoreIsWhole, NEW i \in Slots, WakeDelete(i)
  PROVE  StoreInv' /\ StoreIsWhole'
<1> DEFINE r == requests[i]
           rows == r.rows \intersect pool[r.quiz]
           s == [r EXCEPT !.stage = "deleted", !.rows = rows]
<1>1. /\ UNCHANGED <<quiz, pool, assigned, loosened, overlapped>>
      /\ r.kind = "pool" /\ r.stage = "waiting" /\ Becomes(i, s)
  BY DEF WakeDelete, At
<1>2. Underway(r)
  BY DEF StoreInv
<1>3. r.quiz \notin overlapped => rows = pool[r.quiz]
  BY <1>1, <1>2 DEF Underway, RowsSeen, Replacing
<1> HIDE DEF r, rows
<1>4. Underway(s) /\ Replacing(r) /\ s.quiz = r.quiz
  BY <1>1, <1>2, <1>3 DEF Underway, Shape, OfQuiz, PoolParsed, PublishChecked, CopyRead, RowsSeen,
                                  Replacing, Fields, NoRequest, Begun
<1>5. QED
  BY <1>1, <1>4, GoingOnKeeps DEF r

LEMMA DeletePoolKeeps ==
  ASSUME StoreInv, StoreIsWhole, NEW i \in Slots, DeletePool(i)
  PROVE  StoreInv' /\ StoreIsWhole'
<1> DEFINE r == requests[i]
           id == r.quiz
           stage == IF Locked(id, pool[id]) THEN "waiting" ELSE "deleted"
           s == [r EXCEPT !.stage = stage, !.rows = pool[id]]
           another == \E j \in Slots \ {i} : requests[j].kind = "pool" /\ requests[j].quiz = id
                                               /\ requests[j].stage \in {"waiting", "deleted"}
<1>1. /\ UNCHANGED <<quiz, pool, assigned, loosened>>
      /\ r.kind = "pool" /\ r.stage = "ready" /\ requests' = [requests EXCEPT ![i] = s]
      /\ overlapped \subseteq overlapped' /\ (another => id \in overlapped')
  <2> HIDE DEF another, s
  <2>1. overlapped' = IF another THEN overlapped \union {id} ELSE overlapped
    BY Zenon DEF DeletePool, another
  <2>2. QED
    BY <2>1 DEF DeletePool, At, Becomes, s
<1>2. Underway(r)
  BY DEF StoreInv
<1>3. requests' = [j \in Slots |-> IF j = i THEN s ELSE requests[j]]
  BY <1>1 DEF StoreInv
<1>4. stage \in {"waiting", "deleted"}
  OBVIOUS
<1>5. /\ s.kind = "pool" /\ s.quiz = id /\ s.stage = stage /\ s.rows = pool[id] /\ s.ids = r.ids
      /\ s.settings = r.settings /\ DOMAIN s = Fields
  <2> HIDE DEF r, stage
  <2> QED BY <1>1, <1>2 DEF Underway, Shape, Fields, NoRequest
<1> HIDE DEF s, stage
<1>6. Underway(requests[i])'
  BY <1>1, <1>2, <1>3, <1>4, <1>5 DEF Underway, Shape, OfQuiz, PoolParsed, PublishChecked, CopyRead, RowsSeen,
                                  Replacing, Begun
<1>7. ASSUME NEW j \in Slots, j # i
      PROVE  Underway(requests[j])'
  BY <1>1, <1>3, <1>7 DEF StoreInv, Underway, Shape, OfQuiz, PoolParsed, PublishChecked, CopyRead, RowsSeen, Replacing
<1>8. Apart'
  <2> SUFFICES ASSUME NEW j \in Slots, NEW k \in Slots, j # k, Replacing(requests'[j]), Replacing(requests'[k]),
                      requests'[j].quiz = requests'[k].quiz
               PROVE  requests'[j].quiz \in overlapped'
    BY DEF Apart, Replacing
  <2>1. CASE j # i /\ k # i
    BY <2>1, <1>1, <1>3 DEF StoreInv, Apart
  <2>2. CASE j = i \/ k = i
    BY <2>2, <1>1, <1>3, <1>5 DEF Replacing
  <2>3. QED
    BY <2>1, <2>2
<1>9. StoreIsWhole'
  BY <1>1 DEF StoreIsWhole, PublishedHasQuestions, PublishedHasEnough, PoolInOrder, AssignedOnce
<1>10. QED
  BY <1>1, <1>3, <1>6, <1>7, <1>8, <1>9 DEF StoreInv

LEMMA RowsOfFit ==
  ASSUME NEW ids, PoolFits(ids)
  PROVE  IsFiniteSet(RowsOf(ids)) /\ RowsOf(ids) # {} /\ InOrder(RowsOf(ids))
<1>1. ids \in Seq(Questions) /\ ids # <<>> /\ DOMAIN ids = 1 .. Len(ids)
  BY DEF PoolFits
<1>2. IsFiniteSet(DOMAIN ids)
  BY <1>1, FS_Interval
<1> DEFINE f == [n \in DOMAIN ids |-> [question |-> ids[n], position |-> n]]
<1>3. f \in Surjection(DOMAIN ids, RowsOf(ids))
  BY DEF Surjection, RowsOf
<1>4. RowsOf(ids) # {}
  <2>1. 1 \in DOMAIN ids
    BY <1>1
  <2>2. QED
    BY <2>1 DEF RowsOf
<1>5. InOrder(RowsOf(ids))
  <2> SUFFICES ASSUME NEW m \in DOMAIN ids, NEW n \in DOMAIN ids, m = n \/ ids[m] = ids[n]
               PROVE  m = n
    BY DEF InOrder, RowsOf
  <2> QED BY DEF PoolFits
<1>6. QED
  BY <1>2, <1>3, <1>4, <1>5, FS_Surjection

\* One row of the table is written.
LEMMA RowWritten ==
  ASSUME StoreInv, StoreIsWhole, Calm(requests, requests'), NEW id \in Quizzes, NEW row \in QuizRows,
         quiz' = [quiz EXCEPT ![id] = row], UNCHANGED <<pool, assigned, overlapped>>,
         loosened \subseteq loosened', row.status # "none",
         row.status = "published"
           => pool[id] # {} /\ (id \notin loosened' => Cardinality(pool[id]) >= row.settings.per),
         \/ row.settings.per = quiz[id].settings.per \/ id \in loosened'
         \/ \A j \in Slots : requests[j].kind = "publish" /\ requests[j].quiz = id
                               => requests[j].stage \notin Begun
  PROVE  StoreInv' /\ StoreIsWhole'
<1>1. /\ quiz' \in [Quizzes -> QuizRows] /\ quiz'[id] = row
      /\ \A other \in Quizzes : other # id => quiz'[other] = quiz[other]
  BY DEF StoreInv
<1>2. StoreIsWhole'
  BY <1>1 DEF StoreIsWhole, PublishedHasQuestions, PublishedHasEnough, PoolInOrder, AssignedOnce
<1>3. ASSUME NEW i \in Slots
      PROVE  /\ Underway(requests[i])'
             /\ Replacing(requests[i])' => Replacing(requests[i]) /\ requests'[i].quiz = requests[i].quiz
  <2>1. Underway(requests[i]) /\ Likewise(requests[i], requests'[i])
    BY DEF StoreInv, Calm
  <2>2. CASE Over(requests'[i])
    BY <2>2, Zenon DEF Over, Underway, Shape, OfQuiz, PoolParsed, PublishChecked, CopyRead, RowsSeen, Replacing, Begun
  <2>3. CASE ~Over(requests'[i])
    <3> DEFINE r == requests[i]
               s == requests'[i]
    <3>1. /\ DOMAIN s = Fields /\ s.settings = r.settings /\ s.kind = r.kind
          /\ s.stage = r.stage /\ s.quiz = r.quiz /\ s.ids = r.ids /\ s.rows = r.rows
      BY <2>1, <2>3 DEF Likewise
    <3>2. r.kind = "publish" /\ r.stage \in Begun => r.quiz \in Quizzes
      BY <2>1 DEF Underway, OfQuiz
    <3>3. r.kind = "publish" /\ r.quiz = id
            => r.stage \notin Begun \/ row.settings.per = quiz[id].settings.per \/ id \in loosened'
      OBVIOUS
    <3> HIDE DEF r, s
    <3>4. /\ s.stage \in Begun /\ s.kind \notin {"none", "create", "list", "bank"}
               => s.quiz \in Quizzes /\ quiz'[s.quiz].status # "none"
          /\ s.kind = "publish" /\ s.stage = "checked" /\ s.quiz \notin loosened'
               => s.settings.per = quiz'[s.quiz].settings.per
          /\ s.kind = "publish" /\ s.stage \in {"counted", "ready"}
               => /\ pool[s.quiz] # {}
                  /\ s.quiz \notin loosened' => Cardinality(pool[s.quiz]) >= quiz'[s.quiz].settings.per
      BY <2>1, <1>1, <3>1, <3>2, <3>3 DEF Underway, r, OfQuiz, PublishChecked, Begun
    <3>5. Underway(r) /\ (Replacing(s) => Replacing(r))
      BY <2>1, <3>1 DEF r, Replacing
    <3>6. /\ Shape(s) /\ PoolParsed(s)
          /\ s.kind = "duplicate" /\ s.stage = "ready"
               => IsFiniteSet(s.rows) /\ (s.quiz \notin overlapped => InOrder(s.rows))
          /\ Replacing(s) /\ s.quiz \notin overlapped => s.rows = pool[s.quiz]
      BY <3>1, <3>5 DEF Underway, Shape, PoolParsed, CopyRead, RowsSeen, Replacing
    <3>7. QED
      BY <3>1, <3>4, <3>5, <3>6, Zenon
         DEF Underway, Shape, OfQuiz, PoolParsed, PublishChecked, CopyRead, RowsSeen, Replacing, r, s
  <2>4. QED
    BY <2>2, <2>3
<1>4. Apart'
  BY <1>3 DEF Apart, StoreInv
<1>5. QED
  BY <1>1, <1>2, <1>3, <1>4 DEF StoreInv, Calm

LEMMA CreateQuizKeeps ==
  ASSUME StoreInv, StoreIsWhole, NEW i \in Slots, CreateQuiz(i)
  PROVE  StoreInv' /\ StoreIsWhole'
<1> DEFINE r == requests[i]
           row == [settings |-> r.settings, status |-> "draft", deleted |-> FALSE]
<1>1. UNCHANGED <<pool, assigned, loosened, overlapped>>
  BY DEF CreateQuiz
<1>2. PICK id \in Quizzes : /\ FreeRow(id) /\ quiz' = [quiz EXCEPT ![id] = row]
                            /\ Answer(i, [r EXCEPT !.quiz = id])
  BY Zenon DEF CreateQuiz
<1>3. Underway(r)
  BY DEF StoreInv
<1>4. row \in QuizRows /\ row.status = "draft"
  BY <1>3 DEF QuizRows, Underway, Shape
<1>5. Calm(requests, requests')
  <2>1. DOMAIN [r EXCEPT !.quiz = id] = Fields /\ [r EXCEPT !.quiz = id].settings \in Settings
    <3> HIDE DEF r
    <3> QED BY <1>3 DEF Underway, Shape, Fields, NoRequest
  <2>2. QED
    BY <1>2, <2>1, AnswerKeeps
<1>6. \A j \in Slots : requests[j].kind = "publish" /\ requests[j].quiz = id => requests[j].stage \notin Begun
  BY <1>2 DEF FreeRow, NoQuiz, StoreInv, Underway, OfQuiz
<1> HIDE DEF row
<1>7. QED
  BY <1>1, <1>2, <1>4, <1>5, <1>6, RowWritten

\* The request of a handler that has found its quiz, and its quiz.
LEMMA FoundQuiz ==
  ASSUME StoreInv, NEW i \in Slots, requests[i].stage \in Begun,
         requests[i].kind \notin {"none", "create", "list", "bank"}
  PROVE  /\ requests[i].quiz \in Quizzes /\ quiz[requests[i].quiz] \in QuizRows
         /\ quiz[requests[i].quiz].status # "none"
         /\ DOMAIN requests[i] = Fields /\ requests[i].settings \in Settings
BY DEF StoreInv, Underway, OfQuiz, Shape

LEMMA LoosenKeeps ==
  ASSUME NEW id \in Quizzes, Loosen(id)
  PROVE  /\ loosened \subseteq loosened'
         /\ \A other \in loosened' : other # id => other \in loosened
         /\ quiz[id].status = "published" => id \in loosened'
         /\ \A j \in Slots : requests[j].kind = "publish" /\ requests[j].quiz = id => id \in loosened'
<1>1. \/ Publishing(id) /\ loosened' = loosened \union {id}
      \/ ~Publishing(id) /\ loosened' = loosened
  BY Zenon DEF Loosen
<1>2. QED
  BY <1>1 DEF Publishing

LEMMA UpdateQuizKeeps ==
  ASSUME StoreInv, StoreIsWhole, NEW i \in Slots, UpdateQuiz(i)
  PROVE  StoreInv' /\ StoreIsWhole'
<1> DEFINE r == requests[i]
           id == r.quiz
           row == [quiz[id] EXCEPT !.settings = r.settings]
<1>1. /\ UNCHANGED <<pool, assigned, overlapped>> /\ r.kind = "update" /\ r.stage \in Begun
      /\ quiz' = [quiz EXCEPT ![id] = row] /\ Answer(i, r) /\ Loosen(id)
  BY DEF UpdateQuiz, At, Begun
<1>2. /\ id \in Quizzes /\ quiz[id] \in QuizRows /\ quiz[id].status # "none"
      /\ DOMAIN r = Fields /\ r.settings \in Settings
  BY <1>1, FoundQuiz
<1>3. Calm(requests, requests')
  BY <1>1, <1>2, AnswerKeeps
<1>4. row \in QuizRows /\ row.status = quiz[id].status
  BY <1>2 DEF QuizRows
<1> HIDE DEF row, r
<1>5. row.status = "published"
        => pool[id] # {} /\ (id \notin loosened' => Cardinality(pool[id]) >= row.settings.per)
  BY <1>1, <1>2, <1>4, LoosenKeeps DEF StoreIsWhole, PublishedHasQuestions
<1>6. id \in loosened' \/ \A j \in Slots : requests[j].kind = "publish" /\ requests[j].quiz = id
                                             => requests[j].stage \notin Begun
  BY <1>1, <1>2, LoosenKeeps
<1>7. loosened \subseteq loosened'
  BY <1>1, <1>2, LoosenKeeps
<1>8. QED
  BY <1>1, <1>2, <1>3, <1>4, <1>5, <1>6, <1>7, RowWritten

LEMMA DeleteQuizKeeps ==
  ASSUME StoreInv, StoreIsWhole, NEW i \in Slots, DeleteQuiz(i)
  PROVE  StoreInv' /\ StoreIsWhole'
<1> DEFINE r == requests[i]
           id == r.quiz
           row == [quiz[id] EXCEPT !.deleted = TRUE]
<1>1. /\ UNCHANGED <<pool, assigned, overlapped, loosened>> /\ r.kind = "delete" /\ r.stage \in Begun
      /\ quiz' = [quiz EXCEPT ![id] = row] /\ Answer(i, r)
  BY DEF DeleteQuiz, At, Begun
<1>2. /\ id \in Quizzes /\ quiz[id] \in QuizRows /\ quiz[id].status # "none"
      /\ DOMAIN r = Fields /\ r.settings \in Settings
  BY <1>1, FoundQuiz
<1>3. Calm(requests, requests')
  BY <1>1, <1>2, AnswerKeeps
<1>4. row \in QuizRows /\ row.status = quiz[id].status /\ row.settings = quiz[id].settings
  BY <1>2 DEF QuizRows
<1> HIDE DEF row, r
<1>5. row.status = "published"
        => pool[id] # {} /\ (id \notin loosened' => Cardinality(pool[id]) >= row.settings.per)
  BY <1>1, <1>2, <1>4 DEF StoreIsWhole, PublishedHasQuestions, PublishedHasEnough
<1>6. QED
  BY <1>1, <1>2, <1>3, <1>4, <1>5, RowWritten

LEMMA SetQuizStatusKeeps ==
  ASSUME StoreInv, StoreIsWhole, NEW i \in Slots, SetQuizStatus(i)
  PROVE  StoreInv' /\ StoreIsWhole'
<1> DEFINE r == requests[i]
           id == r.quiz
           stored == CASE r.kind = "publish" -> "published" [] r.kind = "unpublish" -> "draft"
                       [] OTHER -> "archived"
           row == [quiz[id] EXCEPT !.status = stored]
<1>1. /\ UNCHANGED <<pool, assigned, overlapped, loosened>>
      /\ (r.kind = "publish" /\ r.stage = "ready") \/ (r.kind \in {"unpublish", "archive"} /\ r.stage = "checked")
      /\ quiz' = [quiz EXCEPT ![id] = row] /\ Answer(i, r)
  BY DEF SetQuizStatus, At
<1>2. /\ id \in Quizzes /\ quiz[id] \in QuizRows
      /\ DOMAIN r = Fields /\ r.settings \in Settings
  BY <1>1, FoundQuiz DEF Begun
<1>3. Calm(requests, requests')
  BY <1>1, <1>2, AnswerKeeps
<1>4. PublishChecked(r)
  BY DEF StoreInv, Underway
<1>5. /\ stored \in {"draft", "published", "archived"}
      /\ stored = "published" <=> r.kind = "publish"
  OBVIOUS
<1> HIDE DEF r, stored
<1>6. row \in QuizRows /\ row.status = stored /\ row.settings = quiz[id].settings
  BY <1>2, <1>5 DEF QuizRows
<1> HIDE DEF row
<1>7. row.status = "published"
        => pool[id] # {} /\ (id \notin loosened' => Cardinality(pool[id]) >= row.settings.per)
  BY <1>1, <1>4, <1>5, <1>6 DEF PublishChecked
<1>8. QED
  BY <1>1, <1>2, <1>3, <1>5, <1>6, <1>7, RowWritten

LEMMA SetQuizShowResultsKeeps ==
  ASSUME StoreInv, StoreIsWhole, NEW i \in Slots, SetQuizShowResults(i)
  PROVE  StoreInv' /\ StoreIsWhole'
<1> DEFINE r == requests[i]
           id == r.quiz
           show == r.kind = "release"
           settings == [quiz[id].settings EXCEPT !.show = show]
           row == [quiz[id] EXCEPT !.settings = settings]
<1>1. /\ UNCHANGED <<pool, assigned, overlapped, loosened>>
      /\ r.kind \in {"release", "hide"} /\ r.stage = "checked"
      /\ quiz' = [quiz EXCEPT ![id] = row] /\ Answer(i, r)
  BY DEF SetQuizShowResults, At
<1>2. /\ id \in Quizzes /\ quiz[id] \in QuizRows /\ quiz[id].status # "none"
      /\ DOMAIN r = Fields /\ r.settings \in Settings
  BY <1>1, FoundQuiz DEF Begun
<1>3. Calm(requests, requests')
  BY <1>1, <1>2, AnswerKeeps
<1>4. show \in BOOLEAN
  OBVIOUS
<1>5. quiz[id].settings \in Settings
  BY <1>2 DEF QuizRows
<1> HIDE DEF r, show
<1>6. settings \in Settings /\ settings.per = quiz[id].settings.per
  BY <1>4, <1>5 DEF Settings
<1> HIDE DEF settings
<1>7. row \in QuizRows /\ row.status = quiz[id].status /\ row.settings = settings
  BY <1>2, <1>6 DEF QuizRows
<1> HIDE DEF row
<1>8. row.status = "published"
        => pool[id] # {} /\ (id \notin loosened' => Cardinality(pool[id]) >= row.settings.per)
  BY <1>1, <1>2, <1>6, <1>7 DEF StoreIsWhole, PublishedHasQuestions, PublishedHasEnough
<1>9. QED
  BY <1>1, <1>2, <1>3, <1>6, <1>7, <1>8, RowWritten

LEMMA DuplicateQuizKeeps ==
  ASSUME StoreInv, StoreIsWhole, NEW i \in Slots, DuplicateQuiz(i)
  PROVE  StoreInv' /\ StoreIsWhole'
<1> DEFINE r == requests[i]
           row == [settings |-> r.settings, status |-> "draft", deleted |-> FALSE]
<1>1. UNCHANGED <<assigned, loosened>> /\ r.kind = "duplicate" /\ r.stage = "ready"
  BY DEF DuplicateQuiz, At
<1>2. PICK id \in Quizzes :
        /\ FreeRow(id) /\ quiz' = [quiz EXCEPT ![id] = row] /\ pool' = [pool EXCEPT ![id] = r.rows]
        /\ overlapped' = IF r.quiz \in overlapped THEN overlapped \union {id} ELSE overlapped
        /\ Answer(i, [r EXCEPT !.quiz = id, !.rows = {}])
  BY Zenon DEF DuplicateQuiz
<1>3. Underway(r)
  BY DEF StoreInv
<1>4. row \in QuizRows /\ row.status = "draft"
  BY <1>3 DEF QuizRows, Underway, Shape
<1>5. quiz[id].status = "none"
  BY <1>2 DEF FreeRow, NoQuiz
<1>6. /\ Calm(requests, requests') /\ Over(requests'[i])
      /\ \A j \in Slots : j # i => requests'[j] = requests[j]
  <2> DEFINE s == [r EXCEPT !.quiz = id, !.rows = {}]
  <2>1. DOMAIN s = Fields /\ s.settings \in Settings
    <3> HIDE DEF r
    <3> QED BY <1>3 DEF Underway, Shape, Fields, NoRequest
  <2>2. Answer(i, s)
    BY <1>2
  <2> HIDE DEF s
  <2>3. QED
    BY <2>1, <2>2, AnswerKeeps
<1>7. /\ overlapped \subseteq overlapped' /\ \A other \in overlapped' : other # id => other \in overlapped
      /\ r.quiz \in overlapped => id \in overlapped'
  BY <1>2
<1>8. IsFiniteSet(r.rows) /\ (id \notin overlapped' => InOrder(r.rows))
  BY <1>1, <1>3, <1>7 DEF Underway, CopyRead
<1> HIDE DEF row, r
<1>9. /\ quiz' \in [Quizzes -> QuizRows] /\ quiz'[id] = row
      /\ \A other \in Quizzes : other # id => quiz'[other] = quiz[other] /\ pool'[other] = pool[other]
      /\ pool' = [other \in Quizzes |-> pool'[other]] /\ pool'[id] = r.rows
  BY <1>2, <1>4 DEF StoreInv
<1>10. \A other \in Quizzes : IsFiniteSet(pool'[other])
  BY <1>8, <1>9 DEF StoreInv
<1>11. StoreIsWhole'
  BY <1>1, <1>4, <1>9, <1>7, <1>8 DEF StoreIsWhole, PublishedHasQuestions, PublishedHasEnough,
     AssignedOnce, PoolInOrder, InOrder
<1>12. ASSUME NEW j \in Slots
       PROVE  Underway(requests[j])' /\ (Replacing(requests[j])' => j # i)
  <2>1. CASE j = i
    BY <1>6, <2>1, Zenon DEF Over, Underway, Shape, OfQuiz, PoolParsed, PublishChecked, CopyRead, RowsSeen,
                             Replacing, Begun
  <2>2. CASE j # i
    <3>1. requests'[j] = requests[j] /\ Underway(requests[j])
      BY <1>6, <2>2 DEF StoreInv
    <3>2. requests[j].stage \in Begun /\ requests[j].kind \in {"publish", "pool"} => requests[j].quiz \in Quizzes \ {id}
      BY <1>5, <3>1 DEF Underway, OfQuiz
    <3>3. OfQuiz(requests[j])'
      BY <1>4, <1>9, <3>1 DEF Underway, OfQuiz
    <3>4. PublishChecked(requests[j])' /\ RowsSeen(requests[j])'
      BY <1>1, <1>7, <1>9, <3>1, <3>2 DEF Underway, PublishChecked, RowsSeen, Replacing, Begun
    <3>5. CopyRead(requests[j])'
      BY <1>7, <3>1 DEF Underway, CopyRead
    <3>6. QED
      BY <2>2, <3>1, <3>3, <3>4, <3>5 DEF Underway, Shape, PoolParsed
  <2>3. QED
    BY <2>1, <2>2
<1>13. Apart'
  BY <1>6, <1>7, <1>12 DEF Apart, StoreInv, Replacing
<1>14. QED
  BY <1>1, <1>6, <1>9, <1>10, <1>11, <1>12, <1>13 DEF StoreInv, Calm

LEMMA InsertPoolKeeps ==
  ASSUME StoreInv, StoreIsWhole, NEW i \in Slots, InsertPool(i)
  PROVE  StoreInv' /\ StoreIsWhole'
<1> DEFINE r == requests[i]
           id == r.quiz
           rows == (pool[id] \ r.rows) \union RowsOf(r.ids)
           s == [r EXCEPT !.rows = {}]
<1>1. /\ UNCHANGED <<quiz, assigned, overlapped>> /\ r.kind = "pool" /\ r.stage = "deleted"
      /\ \/ Refuse(i) /\ UNCHANGED <<pool, loosened>>
         \/ pool' = [pool EXCEPT ![id] = rows] /\ Answer(i, s) /\ Loosen(id)
  BY Zenon DEF InsertPool, At
<1>2. CASE Refuse(i) /\ UNCHANGED <<pool, loosened>>
  BY <1>1, <1>2, RefuseKeeps, QuietlyKeeps
<1>3. CASE pool' = [pool EXCEPT ![id] = rows] /\ Answer(i, s) /\ Loosen(id)
  <2>1. id \in Quizzes /\ Underway(r)
    BY <1>1, FoundQuiz DEF Begun, StoreInv
  <2>2. /\ Calm(requests, requests') /\ Over(requests'[i])
        /\ \A j \in Slots : j # i => requests'[j] = requests[j]
    <3>1. DOMAIN s = Fields /\ s.settings \in Settings
      <4> HIDE DEF r
      <4> QED BY <2>1 DEF Underway, Shape, Fields, NoRequest
    <3> HIDE DEF s
    <3>2. QED
      BY <1>3, <3>1, AnswerKeeps
  <2>3. IsFiniteSet(RowsOf(r.ids)) /\ RowsOf(r.ids) # {} /\ InOrder(RowsOf(r.ids))
    BY <1>1, <2>1, RowsOfFit DEF Underway, PoolParsed, Begun
  <2>4. IsFiniteSet(rows) /\ rows # {} /\ (id \notin overlapped => InOrder(rows))
    BY <2>1, FS_Difference, <2>3, FS_Union, <1>1 DEF StoreInv, Underway, RowsSeen, Replacing
  <2>5. /\ loosened \subseteq loosened' /\ \A other \in loosened' : other # id => other \in loosened
        /\ quiz[id].status = "published" => id \in loosened'
        /\ \A j \in Slots : requests[j].kind = "publish" /\ requests[j].quiz = id => id \in loosened'
    BY <1>3, <2>1, LoosenKeeps
  <2> HIDE DEF rows
  <2>6. /\ \A other \in Quizzes : other # id => pool'[other] = pool[other]
        /\ pool' = [other \in Quizzes |-> pool'[other]] /\ pool'[id] = rows
    BY <1>3, <2>1 DEF StoreInv
  <2>7. \A other \in Quizzes : IsFiniteSet(pool'[other])
    BY <2>4, <2>6 DEF StoreInv
  <2>8. StoreIsWhole'
    BY <1>1, <2>4, <2>6, <2>5 DEF StoreIsWhole, PublishedHasQuestions, AssignedOnce, PublishedHasEnough,
       PoolInOrder, InOrder
  <2>9. ASSUME NEW j \in Slots
        PROVE  Underway(requests[j])' /\ (Replacing(requests[j])' => j # i)
    <3>1. CASE j = i
      BY <2>2, <3>1, Zenon DEF Over, Underway, Shape, OfQuiz, PoolParsed, PublishChecked, CopyRead, RowsSeen,
                               Replacing, Begun
    <3>2. CASE j # i
      <4>1. requests'[j] = requests[j] /\ Underway(requests[j])
        BY <2>2, <3>2 DEF StoreInv
      <4>2. requests[j].stage \in Begun /\ requests[j].kind \in {"publish", "pool"} => requests[j].quiz \in Quizzes
        BY <4>1 DEF Underway, OfQuiz
      <4>3. PublishChecked(requests[j])'
        BY <1>1, <2>4, <2>5, <2>6, <4>1, <4>2 DEF Underway, PublishChecked, Begun
      <4>4. Replacing(requests[j]) /\ requests[j].quiz = id => id \in overlapped
        BY <1>1, <3>2 DEF StoreInv, Apart, Replacing
      <4>5. RowsSeen(requests[j])'
        BY <1>1, <2>6, <4>1, <4>2, <4>4 DEF Underway, RowsSeen, Replacing, Begun
      <4>6. QED
        BY <1>1, <3>2, <4>1, <4>3, <4>5 DEF Underway, Shape, OfQuiz, PoolParsed, CopyRead
    <3>3. QED
      BY <3>1, <3>2
  <2>10. Apart'
    BY <1>1, <2>2, <2>9 DEF Apart, StoreInv, Replacing
  <2>11. QED
    BY <1>1, <2>2, <2>6, <2>7, <2>8, <2>9, <2>10 DEF StoreInv, Calm
<1>4. QED
  BY <1>1, <1>2, <1>3

\* Only the assignments of one quiz are written.
LEMMA AssignmentsWritten ==
  ASSUME StoreInv, StoreIsWhole, UNCHANGED <<quiz, pool, loosened, overlapped>>, Calm(requests, requests'),
         NEW id \in Quizzes, NEW rows, assigned' = [assigned EXCEPT ![id] = rows],
         \A a, b \in rows : a.target = b.target => a = b
  PROVE  StoreInv' /\ StoreIsWhole'
<1>1. ASSUME NEW j \in Slots
      PROVE  /\ Underway(requests[j])'
             /\ Replacing(requests[j])' => Replacing(requests[j]) /\ requests'[j].quiz = requests[j].quiz
  <2>1. Underway(requests[j]) /\ Likewise(requests[j], requests'[j])
    BY DEF StoreInv, Calm
  <2>2. CASE Over(requests'[j])
    BY <2>2, Zenon DEF Over, Underway, Shape, OfQuiz, PoolParsed, PublishChecked, CopyRead, RowsSeen, Replacing, Begun
  <2>3. CASE ~Over(requests'[j])
    BY <2>1, <2>3 DEF Likewise, Underway, Shape, OfQuiz, PoolParsed, PublishChecked, CopyRead, RowsSeen, Replacing
  <2>4. QED
    BY <2>2, <2>3
<1>2. Apart'
  BY <1>1 DEF Apart, StoreInv
<1>3. /\ assigned' = [other \in Quizzes |-> assigned'[other]] /\ assigned'[id] = rows
      /\ \A other \in Quizzes : other # id => assigned'[other] = assigned[other]
  BY DEF StoreInv
<1>4. StoreIsWhole'
  BY <1>3 DEF StoreIsWhole, PublishedHasQuestions, PublishedHasEnough, PoolInOrder, AssignedOnce
<1>5. QED
  BY <1>1, <1>2, <1>3, <1>4 DEF StoreInv, Calm

LEMMA InsertAssignmentKeeps ==
  ASSUME StoreInv, StoreIsWhole, NEW i \in Slots, InsertAssignment(i)
  PROVE  StoreInv' /\ StoreIsWhole'
<1> DEFINE r == requests[i]
           id == r.quiz
           rows == assigned[id] \union {[target |-> r.target, number |-> serial + 1]}
<1>1. /\ UNCHANGED <<quiz, pool, loosened, overlapped>> /\ r.kind = "assign" /\ r.stage = "ready"
      /\ \/ Refuse(i) /\ UNCHANGED assigned
         \/ /\ \A row \in assigned[id] : row.target # r.target
            /\ assigned' = [assigned EXCEPT ![id] = rows] /\ Answer(i, r)
  BY Zenon DEF InsertAssignment, At
<1>2. CASE Refuse(i) /\ UNCHANGED assigned
  BY <1>1, <1>2, RefuseKeeps, QuietlyKeeps
<1>3. CASE /\ \A row \in assigned[id] : row.target # r.target
           /\ assigned' = [assigned EXCEPT ![id] = rows] /\ Answer(i, r)
  <2>1. id \in Quizzes /\ DOMAIN r = Fields /\ r.settings \in Settings
    BY <1>1, FoundQuiz DEF Begun
  <2>2. \A a, b \in rows : a.target = b.target => a = b
    BY <1>3, <2>1 DEF StoreIsWhole, AssignedOnce
  <2>3. Calm(requests, requests')
    BY <1>3, <2>1, AnswerKeeps
  <2> HIDE DEF rows
  <2>4. QED
    BY <1>1, <1>3, <2>1, <2>2, <2>3, AssignmentsWritten
<1>4. QED
  BY <1>1, <1>2, <1>3

LEMMA DeleteAssignmentKeeps ==
  ASSUME StoreInv, StoreIsWhole, NEW i \in Slots, DeleteAssignment(i)
  PROVE  StoreInv' /\ StoreIsWhole'
<1> DEFINE r == requests[i]
           id == r.quiz
           rows == assigned[id] \ r.rows
<1>1. /\ UNCHANGED <<quiz, pool, loosened, overlapped>> /\ r.kind = "unassign" /\ r.stage = "checked"
      /\ \/ Refuse(i) /\ UNCHANGED assigned
         \/ assigned' = [assigned EXCEPT ![id] = rows] /\ Answer(i, r)
  BY Zenon DEF DeleteAssignment, At
<1>2. CASE Refuse(i) /\ UNCHANGED assigned
  BY <1>1, <1>2, RefuseKeeps, QuietlyKeeps
<1>3. CASE assigned' = [assigned EXCEPT ![id] = rows] /\ Answer(i, r)
  <2>1. id \in Quizzes /\ DOMAIN r = Fields /\ r.settings \in Settings
    BY <1>1, FoundQuiz DEF Begun
  <2>2. \A a, b \in rows : a.target = b.target => a = b
    BY <2>1 DEF StoreIsWhole, AssignedOnce
  <2>3. Calm(requests, requests')
    BY <1>3, <2>1, AnswerKeeps
  <2> HIDE DEF rows
  <2>4. QED
    BY <1>1, <1>3, <2>1, <2>2, <2>3, AssignmentsWritten
<1>4. QED
  BY <1>1, <1>2, <1>3

LEMMA ServeKeeps ==
  ASSUME StoreInv, StoreIsWhole, NEW i \in Slots, Serve(i)
  PROVE  StoreInv' /\ StoreIsWhole'
BY RequireOwnedQuizKeeps, CreateQuizKeeps, UpdateQuizKeeps, DeleteQuizKeeps, CountPoolKeeps, SetQuizStatusKeeps,
   SetQuizShowResultsKeeps, ReadPoolToCopyKeeps, DuplicateQuizKeeps, VerifyQuestionsKeeps, DeletePoolKeeps,
   WakeDeleteKeeps, InsertPoolKeeps, RequirePublishedQuizKeeps, InsertAssignmentKeeps, DeleteAssignmentKeeps,
   ReadingKeeps
   DEF Serve

-----------------------------------------------------------------------------
\* What the tab does leaves the store alone, asks or forgets, and keeps a form.

LEMMA AskingKeeps ==
  ASSUME IInv, Asking
  PROVE  IInv'
BY QuietlyKeeps DEF IInv, Asking, Formed

LEMMA NewPageFormed == \A kind, id : Formed(NewPage(kind, id))
<1>1. ASSUME NEW kind, NEW id
      PROVE  "form" \in DOMAIN NewPage(kind, id) /\ NewPage(kind, id).form = InitialForm
  BY DEF NewPage
<1>2. [per |-> MaxPer, later |-> FALSE, show |-> FALSE] \in Settings
  BY StoreAssumption DEF Settings
<1>3. InitialForm.settings = [per |-> MaxPer, later |-> FALSE, show |-> FALSE]
  BY DEF InitialForm
<1>4. QED
  BY <1>1, <1>2, <1>3 DEF Formed

\* Everything but the form may change.
LEMMA StaysFormed ==
  ASSUME NEW p, Formed(p), NEW f, f # "form", NEW v
  PROVE  Formed([p EXCEPT ![f] = v])
BY DEF Formed

LEMMA Kinds ==
  ASSUME StoreInv, NEW kind \in {"list", "wizard", "edit", "preview", "results"}, NEW id, NEW p \in PageFor(kind, id)
  PROVE  Formed(p)
<1> DEFINE n == NewPage(kind, id)
<1>1. Formed(n) /\ Formed(NewPage("missing", 0))
  BY NewPageFormed
<1>2. CASE kind \notin {"list", "wizard"} /\ ~Live(id)
  BY <1>1, <1>2 DEF PageFor
<1>3. CASE ~(kind \notin {"list", "wizard"} /\ ~Live(id))
  <2>1. CASE kind = "list"
    <3>1. p = [n EXCEPT !.list.loading = TRUE]
      BY <1>3, <2>1 DEF PageFor
    <3> HIDE DEF n
    <3>2. QED
      BY <1>1, <3>1 DEF Formed
  <2>2. CASE kind = "wizard"
    BY <1>1, <1>3, <2>2 DEF PageFor
  <2>3. CASE kind = "edit"
    <3>1. quiz[id].settings \in Settings
      BY <1>3, <2>3 DEF Live, StoreInv, QuizRows
    <3>2. PICK ids : p = [n EXCEPT !.status = quiz[id].status,
                                   !.form = [title |-> TRUE, settings |-> quiz[id].settings],
                                   !.picker = [NoPicker EXCEPT !.open = TRUE, !.pool = ids]]
      BY <1>3, <2>3 DEF PageFor
    <3>3. [title |-> TRUE, settings |-> quiz[id].settings].settings = quiz[id].settings
      OBVIOUS
    <3> HIDE DEF n
    <3>4. QED
      BY <1>1, <3>1, <3>2, <3>3 DEF Formed
  <2>4. CASE kind = "preview"
    <3>1. p = [n EXCEPT !.status = quiz[id].status, !.crossed = Crossing(id),
                        !.panel = [NoPanel EXCEPT !.open = quiz[id].status = "published",
                                                  !.rows = assigned[id]]]
      BY <1>3, <2>4 DEF PageFor
    <3> HIDE DEF n
    <3>2. QED
      BY <1>1, <3>1 DEF Formed
  <2>5. CASE kind = "results"
    <3>1. p = [n EXCEPT !.released = quiz[id].settings.show]
      BY <1>3, <2>5 DEF PageFor
    <3> HIDE DEF n
    <3>2. QED
      BY <1>1, <3>1 DEF Formed
  <2>6. QED
    BY <2>1, <2>2, <2>3, <2>4, <2>5
<1>4. QED
  BY <1>2, <1>3

LEMMA AskListIsOver == \A q, part : Over(AskList(q, part)) /\ Over(AskBank(q))
BY AskIsFresh, StaysFresh, FreshIsOver DEF AskList, AskBank

LEMMA AskIsOver == \A kind, id, part : Over(Ask(kind, id, part))
BY AskIsFresh, FreshIsOver

LEMMA TurnToAsks ==
  ASSUME StoreInv, NEW kind \in {"list", "wizard", "edit", "preview", "results"}, NEW id, NEW rs,
         TurnTo(kind, id, rs), Calm(requests, rs)
  PROVE  Calm(requests, requests') /\ Formed(page')
<1> DEFINE left == Forget(rs, PageParts)
<1>1. Calm(requests, left)
  BY ForgetIsCalm
<1>2. page' \in PageFor(kind, id)
  BY DEF TurnTo
<1>3. Formed(page')
  BY <1>2, Kinds
<1>4. \/ requests' = Put(left, AskList(AllQuizzes, "list"))
      \/ requests' = Put(left, AskBank(AllQuizzes))
      \/ requests' = left
  BY Zenon DEF TurnTo
<1> HIDE DEF left
<1>5. QED
  BY <1>1, <1>3, <1>4, PutIsCalm, AskListIsOver

LEMMA StepReads ==
  ASSUME NEW old, NEW rs, Calm(old, rs), NEW id, NEW step
  PROVE  Calm(old, ReadsOfStep(rs, id, step))
<1>1. /\ Over(Ask("readPool", id, "pool")) /\ Over(Ask("readPool", id, "review"))
      /\ Over(Ask("readQuiz", id, "publishLoad")) /\ Over(Ask("readAssigned", id, "publishLoad"))
  BY AskIsOver
<1>2. /\ Calm(old, Put(rs, Ask("readPool", id, "pool")))
      /\ Calm(old, Put(rs, Ask("readPool", id, "review")))
      /\ Calm(old, Put(rs, Ask("readQuiz", id, "publishLoad")))
  BY <1>1, PutIsCalm
<1>3. Calm(old, Put(Put(rs, Ask("readQuiz", id, "publishLoad")), Ask("readAssigned", id, "publishLoad")))
  BY <1>1, <1>2, PutIsCalm
<1>4. \/ ReadsOfStep(rs, id, step) = Put(rs, Ask("readPool", id, "pool"))
      \/ ReadsOfStep(rs, id, step) = Put(rs, Ask("readPool", id, "review"))
      \/ ReadsOfStep(rs, id, step)
           = Put(Put(rs, Ask("readQuiz", id, "publishLoad")), Ask("readAssigned", id, "publishLoad"))
      \/ ReadsOfStep(rs, id, step) = rs
  BY DEF ReadsOfStep
<1>5. QED
  BY <1>2, <1>3, <1>4

LEMMA AtStepFormed ==
  ASSUME NEW p, Formed(p), NEW step
  PROVE  Formed(AtStep(p, step))
BY DEF Formed, AtStep

LEMMA EnterStepAsks ==
  ASSUME StoreInv, NEW p, Formed(p), NEW rs, Calm(requests, rs), NEW step, EnterStep(p, rs, step)
  PROVE  Calm(requests, requests') /\ Formed(page')
<1> DEFINE left == Forget(rs, StepParts)
<1>1. Calm(requests, left)
  BY ForgetIsCalm
<1>2. \/ page' = p /\ requests' = rs
      \/ page' = AtStep(p, step) /\ requests' = ReadsOfStep(left, p.quiz, step)
  BY Zenon DEF EnterStep
<1> HIDE DEF left
<1>3. QED
  BY <1>1, <1>2, StepReads, AtStepFormed

LEMMA RestKeeps ==
  ASSUME Rest
  PROVE  UNCHANGED <<quiz, pool, assigned, loosened, overlapped>>
BY DEF Rest, storeOnly

LEMMA ShowAsks ==
  ASSUME StoreInv, NEW p, Formed(p), Show(p)
  PROVE  Asking
BY NothingMoves, RestKeeps DEF Show, Asking

LEMMA SendAsks ==
  ASSUME StoreInv, NEW p, Formed(p), NEW r, Over(r), Send(p, r)
  PROVE  Asking
BY NothingMoves, RestKeeps, PutIsCalm DEF Send, Asking

LEMMA OpenAsks ==
  ASSUME StoreInv, NEW kind \in {"list", "wizard", "edit", "preview", "results"}, NEW id, Open(kind, id)
  PROVE  Asking
BY NothingMoves, TurnToAsks DEF Open, Asking, storeOnly

LEMMA ListAsAsks ==
  ASSUME StoreInv, Formed(page), NEW l, ListAs(l)
  PROVE  Asking
<1>1. CASE l.query = page.list.query
  BY <1>1, StaysFormed, ShowAsks DEF ListAs
<1>2. CASE l.query # page.list.query
  <2> DEFINE left == Forget(requests, {"list"})
  <2>1. Calm(requests, left)
    BY NothingMoves, ForgetIsCalm
  <2>2. /\ requests' = Put(left, AskList(l.query, "list")) /\ Rest
        /\ page' = [page EXCEPT !.list = [l EXCEPT !.loading = TRUE, !.error = FALSE,
                                                  !.stray = (@ \/ Waiting("listAction") \/ Waiting("reload"))]]
    BY <1>2 DEF ListAs
  <2>3. Formed(page')
    BY <2>2, StaysFormed
  <2> HIDE DEF left
  <2>4. QED
    BY <2>1, <2>2, <2>3, RestKeeps, PutIsCalm, AskListIsOver DEF Asking
<1>3. QED
  BY <1>1, <1>2

LEMMA PickerAsAsks ==
  ASSUME StoreInv, Formed(page), NEW k, PickerAs(k)
  PROVE  Asking
<1>1. Formed([page EXCEPT !.picker = k])
  BY StaysFormed
<1>2. CASE k.query = page.picker.query
  BY <1>1, <1>2, ShowAsks DEF PickerAs
<1>3. CASE k.query # page.picker.query
  <2> DEFINE left == Forget(requests, {"bank"})
  <2>1. Calm(requests, left)
    BY NothingMoves, ForgetIsCalm
  <2>2. page' = [page EXCEPT !.picker = k] /\ requests' = Put(left, AskBank(k.query)) /\ Rest
    BY <1>3 DEF PickerAs
  <2> HIDE DEF left
  <2>3. QED
    BY <1>1, <2>1, <2>2, RestKeeps, PutIsCalm, AskListIsOver DEF Asking
<1>4. QED
  BY <1>2, <1>3

LEMMA SaveRequestIsOver ==
  ASSUME Formed(page), NEW part
  PROVE  Over(SaveRequest(part))
<1> DEFINE kind == IF page.quiz = 0 THEN "create" ELSE "update"
<1>1. Fresh(Ask(kind, page.quiz, part))
  BY AskIsFresh
<1> HIDE DEF kind
<1>2. Fresh([Ask(kind, page.quiz, part) EXCEPT !.settings = page.form.settings, !.total = page.step])
  BY <1>1, StaysFresh DEF Formed
<1>3. QED
  BY <1>2, FreshIsOver DEF SaveRequest, kind

LEMMA PersistAsks ==
  ASSUME StoreInv, Formed(page), NEW part, Persist(part)
  PROVE  Asking
  BY NothingMoves, PutIsCalm, SaveRequestIsOver DEF Persist, storeOnly, Formed, Asking

LEMMA OpenListedAsks ==
  ASSUME IInv, OpenListed \/ Done
  PROVE  Asking
BY OpenAsks DEF OpenListed, Done, IInv

LEMMA ListAsks ==
  ASSUME IInv,
         \/ \E status \in {"all", "draft", "published", "scheduled", "archived"} : UpdateFilter(status)
         \/ HandleSearchChange \/ ClearFilters \/ TurnListPage \/ SearchDebounced
  PROVE  Asking
<1>1. PICK l : ListAs(l)
  BY Zenon DEF UpdateFilter, HandleSearchChange, ClearFilters, TurnListPage, SearchDebounced
<1>2. QED
  BY <1>1, ListAsAsks DEF IInv

LEMMA HandleActionAsks ==
  ASSUME IInv, NEW row, NEW action, HandleAction(row, action)
  PROVE  Asking
<1>1. Over([Ask(action, row.quiz, "listAction") EXCEPT !.query = page.list.query])
  BY AskIsFresh, StaysFresh, FreshIsOver
<1>2. QED
  BY <1>1, SendAsks DEF HandleAction, IInv

LEMMA FillInAsks ==
  ASSUME IInv, FillIn
  PROVE  Asking
<1>1. PICK f \in [title : BOOLEAN, settings : Settings] : Show([page EXCEPT !.form = f, !.dirty = TRUE])
  BY Zenon DEF FillIn
<1>2. f.settings \in Settings
  OBVIOUS
<1>3. Formed([page EXCEPT !.form = f, !.dirty = TRUE])
  BY <1>2 DEF IInv, Formed
<1>4. QED
  BY <1>1, <1>3, ShowAsks DEF IInv

LEMMA StepAsks ==
  ASSUME IInv, (\E step \in 1 .. 5 : GoToStep(step)) \/ Advance
  PROVE  Asking
<1>1. PICK step : EnterStep(page, requests, step) /\ Rest
  BY Zenon DEF GoToStep, Advance
<1>2. QED
  BY <1>1, EnterStepAsks, NothingMoves, RestKeeps DEF Asking, IInv

LEMMA SavingAsks ==
  ASSUME IInv, HandleContinue \/ HandleSaveDraft \/ HandleSubmit
  PROVE  Asking
<1>1. CASE HandleContinue
  BY <1>1, PersistAsks DEF HandleContinue, IInv
<1>2. CASE HandleSaveDraft
  <2>1. CASE HasForm /\ page.form.title
    BY <1>2, <2>1, PersistAsks DEF HandleSaveDraft, IInv
  <2>2. CASE ~(HasForm /\ page.form.title)
    <3> DEFINE kind == IF page.quiz = 0 THEN "list" ELSE "edit"
    <3>1. TurnTo(kind, page.quiz, requests) /\ Rest
      BY <1>2, <2>2, Zenon DEF HandleSaveDraft
    <3>2. QED
      BY <3>1, TurnToAsks, NothingMoves, RestKeeps DEF Asking, IInv
  <2>3. QED
    BY <2>1, <2>2
<1>3. CASE HandleSubmit
  BY <1>3, SaveRequestIsOver, SendAsks DEF HandleSubmit, IInv, Formed
<1>4. QED
  BY <1>1, <1>2, <1>3

LEMMA CommandAsks ==
  ASSUME IInv, HandlePublish \/ (\E action \in Actions(page.status) : CallApi(action)) \/ Toggle
  PROVE  Asking
<1>1. PICK kind, part : Send([page EXCEPT !.busy = TRUE], Ask(kind, page.quiz, part))
  BY Zenon DEF HandlePublish, CallApi, Toggle
<1>2. Formed([page EXCEPT !.busy = TRUE])
  BY DEF IInv, Formed
<1>3. QED
  BY <1>1, <1>2, AskIsOver, SendAsks DEF IInv

LEMMA PoolAsAsks ==
  ASSUME IInv, NEW ids, PoolAs(ids)
  PROVE  Asking
<1>1. PICK touched : Show([page EXCEPT !.picker.pool = ids, !.picker.saved = FALSE, !.picker.touched = touched])
  BY Zenon DEF PoolAs
<1>2. Formed([page EXCEPT !.picker.pool = ids, !.picker.saved = FALSE, !.picker.touched = touched])
  BY DEF IInv, Formed
<1>3. QED
  BY <1>1, <1>2, ShowAsks DEF IInv

LEMMA PickerAsks ==
  ASSUME IInv,
         \/ \E q \in Questions : AddToPool(q) \/ ToggleBankSelected(q) \/ RemoveFromPool(q)
         \/ AddSelectedToPool \/ ToggleSelectAllOnPage \/ ClearPool \/ (\E n \in Questions : Move(n))
         \/ HandleSave \/ HandleBankSearchChange \/ BankSearchDebounced \/ GoToPage
  PROVE  Asking
<1>1. CASE \/ \E q \in Questions : AddToPool(q) \/ RemoveFromPool(q)
           \/ ClearPool \/ (\E n \in Questions : Move(n))
  <2>1. PICK ids : PoolAs(ids)
    BY <1>1, Zenon DEF AddToPool, RemoveFromPool, ClearPool, Move
  <2>2. QED
    BY <2>1, PoolAsAsks
<1>2. CASE AddSelectedToPool \/ ToggleSelectAllOnPage \/ \E q \in Questions : ToggleBankSelected(q)
  <2>1. CASE AddSelectedToPool
    <3>0. PICK ids : Show([page EXCEPT !.picker.pool = @ \o ids, !.picker.selected = {},
                             !.picker.saved = FALSE, !.picker.touched = (@ \/ page.picker.saving)])
      BY <2>1, Zenon DEF AddSelectedToPool
    <3> DEFINE p == [page EXCEPT !.picker.pool = @ \o ids, !.picker.selected = {},
                       !.picker.saved = FALSE, !.picker.touched = (@ \/ page.picker.saving)]
    <3>1. Show(p)
      BY <3>0
    <3>2. Formed(p)
      BY DEF IInv, Formed
    <3> HIDE DEF p
    <3>3. QED
      BY <3>1, <3>2, ShowAsks DEF IInv
  <2>2. CASE ToggleSelectAllOnPage \/ \E q \in Questions : ToggleBankSelected(q)
    <3>1. PICK selected : Show([page EXCEPT !.picker.selected = selected])
      BY <2>2, Zenon DEF ToggleSelectAllOnPage, ToggleBankSelected
    <3>2. Formed([page EXCEPT !.picker.selected = selected])
      BY DEF IInv, Formed
    <3>3. QED
      BY <3>1, <3>2, ShowAsks DEF IInv
  <2>3. QED
    BY <1>2, <2>1, <2>2
<1>3. CASE HandleSave
  <2> DEFINE p == [page EXCEPT !.picker.saving = TRUE,
                               !.picker.touched = (Crossing(page.quiz) \/ (@ /\ page.picker.saved))]
             r == [Ask("pool", page.quiz, "picker") EXCEPT !.ids = page.picker.pool]
  <2>1. Send(p, r)
    BY <1>3 DEF HandleSave
  <2>2. Formed(p)
    BY DEF IInv, Formed
  <2>3. Over(r)
    BY AskIsFresh, StaysFresh, FreshIsOver
  <2> HIDE DEF p, r
  <2>4. QED
    BY <2>1, <2>2, <2>3, SendAsks DEF IInv
<1>4. CASE HandleBankSearchChange \/ BankSearchDebounced \/ GoToPage
  <2>1. PICK k : PickerAs(k)
    BY <1>4, Zenon DEF HandleBankSearchChange, BankSearchDebounced, GoToPage
  <2>2. QED
    BY <2>1, PickerAsAsks DEF IInv
<1>5. QED
  BY <1>1, <1>2, <1>3, <1>4

LEMMA PanelAsks ==
  ASSUME IInv, (\E t \in Targets : AssignTo(t)) \/ (\E row \in page.panel.rows : RemoveAssignment(row))
  PROVE  Asking
<1>1. PICK p, r : Send(p, r) /\ Formed(p) /\ Over(r)
  <2>1. ASSUME NEW t, AssignTo(t)
        PROVE  \E p, r : Send(p, r) /\ Formed(p) /\ Over(r)
    <3> DEFINE p == [page EXCEPT !.panel.assigning = TRUE, !.crossed = (@ \/ Waiting("panel"))]
               r == [Ask("assign", page.quiz, "panel") EXCEPT !.target = t]
    <3>1. Send(p, r)
      BY <2>1 DEF AssignTo
    <3>2. Formed(p)
      BY DEF IInv, Formed
    <3>3. Over(r)
      BY AskIsFresh, StaysFresh, FreshIsOver
    <3> HIDE DEF p, r
    <3>4. QED
      BY <3>1, <3>2, <3>3
  <2>2. ASSUME NEW row, RemoveAssignment(row)
        PROVE  \E p, r : Send(p, r) /\ Formed(p) /\ Over(r)
    <3> DEFINE p == [page EXCEPT !.panel.pending = {row}, !.crossed = (@ \/ Waiting("panel"))]
               r == [Ask("unassign", page.quiz, "panel") EXCEPT !.rows = {row}]
    <3>1. Send(p, r)
      BY <2>2 DEF RemoveAssignment
    <3>2. Formed(p)
      BY DEF IInv, Formed
    <3>3. Over(r)
      BY AskIsFresh, StaysFresh, FreshIsOver
    <3> HIDE DEF p, r
    <3>4. QED
      BY <3>1, <3>2, <3>3
  <2>3. QED
    BY <2>1, <2>2
<1>2. QED
  BY <1>1, SendAsks DEF IInv

LEMMA TeacherAsks ==
  ASSUME IInv, Teacher \/ SearchDebounced \/ BankSearchDebounced
  PROVE  Asking
BY OpenListedAsks, ListAsks, HandleActionAsks, FillInAsks, StepAsks, SavingAsks, CommandAsks, PickerAsks, PanelAsks,
   Zenon DEF Teacher

-----------------------------------------------------------------------------
\* What the tab does with an answer, a refusal or a loss; other tabs; any step.

LEMMA TakeAsks ==
  ASSUME StoreInv, NEW i \in Slots, NEW p, Formed(p), Take(i, p), Rest
  PROVE  Asking
BY WithoutIsCalm, RestKeeps DEF Take, Asking

LEMMA TakeAndAskAsks ==
  ASSUME StoreInv, NEW i \in Slots, NEW p, Formed(p), NEW r, Over(r), TakeAndAsk(i, p, r), Rest
  PROVE  Asking
BY WithoutIsCalm, RestKeeps, PutIsCalm DEF TakeAndAsk, Asking

LEMMA PublishLoadAsks ==
  ASSUME IInv, NEW i \in Slots, NEW status, NEW rows, PublishLoadAs(i, status, rows), Rest
  PROVE  Asking
<1> DEFINE r == requests[i]
           l == [left |-> page.load.left \ {r.kind},
                 status |-> IF r.kind = "readQuiz" THEN status ELSE page.load.status,
                 rows |-> IF r.kind = "readAssigned" THEN rows ELSE page.load.rows]
           p == [page EXCEPT !.load = l,
                             !.crossed = (@ \/ (r.kind = "readAssigned" /\ r.stage = "refused"))]
           shown == [p EXCEPT !.status = l.status, !.panel.rows = l.rows,
                              !.panel.open = l.status = "published"]
<1>1. Take(i, IF l.left # {} THEN p ELSE shown)
  BY Zenon DEF PublishLoadAs
<1> HIDE DEF l
<1>2. Formed(p)
  BY DEF IInv, Formed
<1> HIDE DEF p
<1>3. Formed(shown)
  BY <1>2 DEF Formed
<1> HIDE DEF shown
<1>4. QED
  BY <1>1, <1>2, <1>3, TakeAsks DEF IInv

LEMMA TurningAsks ==
  ASSUME IInv, NEW i \in Slots, NEW kind \in {"list", "edit"}, NEW id, TurnTo(kind, id, Without(i)), Rest
  PROVE  Asking
BY WithoutIsCalm, TurnToAsks, RestKeeps DEF Asking, IInv

LEMMA ActionDoneAsks ==
  ASSUME IInv, NEW i \in Slots, ActionDone(i), Rest
  PROVE  Asking
<1> DEFINE r == requests[i]
<1>1. \/ TurnTo("list", 0, Without(i)) \/ TurnTo("edit", r.quiz, Without(i))
      \/ TakeAndAsk(i, [page EXCEPT !.busy = FALSE], Ask("readQuiz", page.quiz, "refresh"))
  BY DEF ActionDone
<1>2. Formed([page EXCEPT !.busy = FALSE])
  BY DEF IInv, Formed
<1>3. QED
  BY <1>1, <1>2, TurningAsks, TakeAndAskAsks, AskIsOver DEF IInv

LEMMA SaveArrivesAsks ==
  ASSUME IInv, NEW i \in Slots, SaveArrives(i), Rest
  PROVE  Asking
<1> DEFINE r == requests[i]
           p == [page EXCEPT !.saving = FALSE, !.quiz = r.quiz]
<1>1. \/ TakeAndAsk(i, p, Ask("readQuiz", page.quiz, "refresh"))
      \/ EnterStep(p, Without(i), r.total + 1)
  BY Zenon DEF SaveArrives
<1>2. Formed(p)
  BY DEF IInv, Formed
<1> HIDE DEF p
<1>3. QED
  BY <1>1, <1>2, TakeAndAskAsks, AskIsOver, EnterStepAsks, WithoutIsCalm, RestKeeps DEF IInv, Asking

LEMMA DraftEndsAsks ==
  ASSUME IInv, NEW i \in Slots, DraftEnds(i), Rest
  PROVE  Asking
<1> DEFINE kind == IF requests[i].kind = "create" THEN "list" ELSE "edit"
<1>1. TurnTo(kind, requests[i].quiz, Without(i)) /\ kind \in {"list", "edit"}
  BY DEF DraftEnds
<1> HIDE DEF kind
<1>2. QED
  BY <1>1, TurningAsks

LEMMA ActionOfListDoneAsks ==
  ASSUME IInv, NEW i \in Slots, ActionOfListDone(i) \/ PoolLoaded(i) \/ Assigned(i), Rest
  PROVE  Asking
<1>1. CASE ActionOfListDone(i)
  <2> DEFINE p == [page EXCEPT !.list.loading = TRUE, !.list.error = FALSE]
  <2>1. TakeAndAsk(i, p, AskList(requests[i].query, "reload"))
    BY <1>1 DEF ActionOfListDone
  <2>2. Formed(p)
    BY DEF IInv, Formed
  <2> HIDE DEF p
  <2>3. QED
    BY <2>1, <2>2, TakeAndAskAsks, AskListIsOver DEF IInv
<1>2. CASE PoolLoaded(i)
  <2> DEFINE p == [page EXCEPT !.picker = [NoPicker EXCEPT !.open = TRUE, !.pool = requests[i].ids]]
  <2>1. TakeAndAsk(i, p, AskBank(AllQuizzes))
    BY <1>2 DEF PoolLoaded
  <2>2. Formed(p)
    BY DEF IInv, Formed
  <2> HIDE DEF p
  <2>3. QED
    BY <2>1, <2>2, TakeAndAskAsks, AskListIsOver DEF IInv
<1>3. CASE Assigned(i)
  BY <1>3, TakeAndAskAsks, AskIsOver DEF Assigned, IInv
<1>4. QED
  BY <1>1, <1>2, <1>3

LEMMA TakingAsks ==
  ASSUME IInv, NEW i \in Slots, Rest,
         \/ ListArrives(i) \/ Refreshed(i) \/ Toggled(i) \/ BankArrives(i) \/ PoolSaved(i) \/ PoolCounted(i)
         \/ Published(i) \/ AssignedRead(i) \/ Unassigned(i)
  PROVE  Asking
<1> DEFINE r == requests[i]
<1>1. PICK p : Take(i, p) /\ Formed(p)
  <2>1. CASE ListArrives(i)
    <3> DEFINE p == [page EXCEPT !.list.rows = r.rows, !.list.total = r.total, !.list.shown = r.query,
                         !.list.loading = FALSE]
    <3>1. Take(i, p)
      BY <2>1 DEF ListArrives
    <3>2. Formed(p)
      BY DEF IInv, Formed
    <3> HIDE DEF p
    <3>3. QED
      BY <3>1, <3>2
  <2>2. CASE Refreshed(i)
    <3> DEFINE p == [page EXCEPT !.status = r.status]
    <3>1. Take(i, p)
      BY <2>2 DEF Refreshed
    <3>2. Formed(p)
      BY DEF IInv, Formed
    <3> HIDE DEF p
    <3>3. QED
      BY <3>1, <3>2
  <2>3. CASE Toggled(i)
    <3> DEFINE p == [page EXCEPT !.busy = FALSE, !.released = ~@]
    <3>1. Take(i, p)
      BY <2>3 DEF Toggled
    <3>2. Formed(p)
      BY DEF IInv, Formed
    <3> HIDE DEF p
    <3>3. QED
      BY <3>1, <3>2
  <2>4. CASE BankArrives(i)
    <3> DEFINE p == [page EXCEPT !.picker.items = r.rows, !.picker.total = r.total, !.picker.shown = TRUE]
    <3>1. Take(i, p)
      BY <2>4 DEF BankArrives
    <3>2. Formed(p)
      BY DEF IInv, Formed
    <3> HIDE DEF p
    <3>3. QED
      BY <3>1, <3>2
  <2>5. CASE PoolSaved(i)
    <3> DEFINE p == [page EXCEPT !.picker.saving = FALSE, !.picker.saved = TRUE]
    <3>1. Take(i, p)
      BY <2>5 DEF PoolSaved
    <3>2. Formed(p)
      BY DEF IInv, Formed
    <3> HIDE DEF p
    <3>3. QED
      BY <3>1, <3>2
  <2>6. CASE PoolCounted(i)
    <3> DEFINE p == [page EXCEPT !.review = {Len(r.ids)}]
    <3>1. Take(i, p)
      BY <2>6 DEF PoolCounted
    <3>2. Formed(p)
      BY DEF IInv, Formed
    <3> HIDE DEF p
    <3>3. QED
      BY <3>1, <3>2
  <2>7. CASE Published(i)
    <3> DEFINE p == [page EXCEPT !.busy = FALSE, !.status = "published", !.panel.open = TRUE]
    <3>1. Take(i, p)
      BY <2>7 DEF Published
    <3>2. Formed(p)
      BY DEF IInv, Formed
    <3> HIDE DEF p
    <3>3. QED
      BY <3>1, <3>2
  <2>8. CASE AssignedRead(i)
    <3> DEFINE p == [page EXCEPT !.panel.rows = r.rows, !.panel.assigning = FALSE]
    <3>1. Take(i, p)
      BY <2>8 DEF AssignedRead
    <3>2. Formed(p)
      BY DEF IInv, Formed
    <3> HIDE DEF p
    <3>3. QED
      BY <3>1, <3>2
  <2>9. CASE Unassigned(i)
    <3> DEFINE p == [page EXCEPT !.panel.rows = @ \ r.rows, !.panel.pending = {}]
    <3>1. Take(i, p)
      BY <2>9 DEF Unassigned
    <3>2. Formed(p)
      BY DEF IInv, Formed
    <3> HIDE DEF p
    <3>3. QED
      BY <3>1, <3>2
  <2>10. QED
    BY <2>1, <2>2, <2>3, <2>4, <2>5, <2>6, <2>7, <2>8, <2>9
<1>2. QED
  BY <1>1, TakeAsks DEF IInv

LEMMA AnsweredAsks ==
  ASSUME IInv, NEW i \in Slots, Answered(i), Rest
  PROVE  Asking
BY TakingAsks, ActionOfListDoneAsks, SaveArrivesAsks, DraftEndsAsks, ActionDoneAsks, PublishLoadAsks
   DEF Answered, PublishLoaded

LEMMA UnreadyFormed ==
  ASSUME Formed(page), NEW r
  PROVE  Formed(Unready(r))
<1>1. /\ Formed([page EXCEPT !.list.error = TRUE, !.list.loading = FALSE])
      /\ Formed([page EXCEPT !.saving = FALSE, !.error = TRUE, !.dirty = TRUE, !.asked = FALSE])
      /\ Formed([page EXCEPT !.picker.saving = FALSE])
      /\ Formed([page EXCEPT !.busy = FALSE])
      /\ Formed([page EXCEPT !.panel.pending = {}])
  BY DEF Formed
<1>2. Formed([page EXCEPT !.panel.assigning = FALSE, !.crossed = (@ \/ r.kind = "readAssigned")])
  BY DEF Formed
<1>3. QED
  BY <1>1, <1>2, Zenon DEF Unready

LEMMA RefusedAsks ==
  ASSUME IInv, NEW i \in Slots, Refused(i), Rest
  PROVE  Asking
<1> DEFINE r == requests[i]
<1>1. \/ PublishLoadAs(i, "draft", {})
      \/ page' = NewPage("missing", 0) /\ requests' = Forget(Without(i), PageParts)
      \/ Take(i, Unready(r))
  BY DEF Refused
<1>2. Formed(Unready(r))
  BY UnreadyFormed DEF IInv
<1>3. CASE page' = NewPage("missing", 0) /\ requests' = Forget(Without(i), PageParts)
  BY <1>3, NewPageFormed, WithoutIsCalm, ForgetIsCalm, RestKeeps DEF IInv, Asking
<1>4. QED
  BY <1>1, <1>2, <1>3, PublishLoadAsks, TakeAsks DEF IInv

LEMMA LoseAsks ==
  ASSUME IInv, NEW i \in Slots, Lose(i)
  PROVE  Asking
<1> DEFINE r == requests[i]
           kept == IF r.kind \in Reads \/ r.stage = "answered" THEN NoRequest ELSE [r EXCEPT !.heard = FALSE]
           left == [Without(i) EXCEPT ![i] = kept]
<1>1. Calm(requests, left)
  <2>1. Calm(requests, Without(i)) /\ Underway(r)
    BY WithoutIsCalm DEF IInv, StoreInv
  <2>2. Likewise(r, kept)
    <3>1. Likewise(r, [r EXCEPT !.heard = FALSE])
      <4> HIDE DEF r
      <4> QED BY <2>1 DEF Likewise, Underway, Shape, Fields, NoRequest
    <3>2. QED
      BY <3>1, NothingIsOver, Zenon DEF Likewise
  <2> HIDE DEF kept, r
  <2>3. QED
    BY <2>1, <2>2 DEF Calm, r
<1>2. UNCHANGED <<quiz, pool, assigned, loosened, overlapped>>
  BY DEF Lose, storeOnly
<1>3. \/ page' = [page EXCEPT !.picker = [NoPicker EXCEPT !.open = TRUE]] /\ requests' = Put(left, AskBank(AllQuizzes))
      \/ page' = [page EXCEPT !.status = "draft", !.load = NoLoad] /\ requests' = Forget(left, {"publishLoad"})
      \/ page' = Unready(r) /\ requests' = left
      \/ page' = [page EXCEPT !.dirty = TRUE] /\ requests' = left
      \/ page' = page /\ requests' = left
  BY Zenon DEF Lose
<1> HIDE DEF left
<1>4. Formed(page')
  <2>1. /\ Formed([page EXCEPT !.picker = [NoPicker EXCEPT !.open = TRUE]])
        /\ Formed([page EXCEPT !.status = "draft", !.load = NoLoad])
        /\ Formed([page EXCEPT !.dirty = TRUE])
    BY DEF IInv, Formed
  <2>2. Formed(page) /\ Formed(Unready(r))
    BY UnreadyFormed DEF IInv
  <2>3. QED
    BY <1>3, <2>1, <2>2, Zenon
<1>5. Calm(requests, requests')
  BY <1>1, <1>3, PutIsCalm, ForgetIsCalm, AskListIsOver
<1>6. QED
  BY <1>2, <1>4, <1>5 DEF Asking

LEMMA SendElsewhereAsks ==
  ASSUME IInv, SendElsewhere
  PROVE  Asking
<1>1. UNCHANGED <<quiz, pool, assigned, loosened, overlapped, page>>
  BY DEF SendElsewhere, storeOnly
<1>2. PICK r : requests' = Put(requests, r) /\ Over(r)
  <2>1. \E kind, id, ids, target : \E settings \in Settings :
          requests' = Put(requests, [Ask(kind, id, "none") EXCEPT
                        !.settings = settings, !.ids = ids, !.target = target, !.heard = FALSE])
    BY DEF SendElsewhere
  <2>2. PICK kind, id, ids, target :
          \E settings \in Settings :
            requests' = Put(requests, [Ask(kind, id, "none") EXCEPT
                          !.settings = settings, !.ids = ids, !.target = target, !.heard = FALSE])
    BY <2>1
  <2>3. PICK settings \in Settings :
          requests' = Put(requests, [Ask(kind, id, "none") EXCEPT
                        !.settings = settings, !.ids = ids, !.target = target, !.heard = FALSE])
    BY <2>2
  <2> DEFINE r == [Ask(kind, id, "none") EXCEPT !.settings = settings, !.ids = ids, !.target = target,
                                                !.heard = FALSE]
  <2>4. Fresh(r)
    BY AskIsFresh, StaysFresh
  <2>5. requests' = Put(requests, r)
    BY <2>3
  <2> HIDE DEF r
  <2>6. QED
    BY <2>4, <2>5, FreshIsOver
<1>3. QED
  BY <1>1, <1>2, NothingMoves, PutIsCalm DEF Asking, IInv

LEMMA StepKeeps ==
  ASSUME IInv, [Next]_vars
  PROVE  IInv'
<1>1. CASE Teacher \/ SearchDebounced \/ BankSearchDebounced
  BY <1>1, TeacherAsks, AskingKeeps
<1>2. ASSUME NEW i \in Slots, Later(i)
      PROVE  IInv'
  <2>1. CASE ServeRequest(i)
    BY <2>1, ServeKeeps DEF ServeRequest, IInv, Formed
  <2>2. CASE Lose(i)
    BY <2>2, LoseAsks, AskingKeeps
  <2>3. CASE (Answered(i) \/ Refused(i)) /\ Rest
    BY <2>3, AnsweredAsks, RefusedAsks, AskingKeeps
  <2>4. CASE HandlerFails(i)
    BY <2>4, RefuseKeeps, QuietlyKeeps DEF HandlerFails, Fail, Reading, IInv, Formed
  <2>5. QED
    BY <1>2, <2>1, <2>2, <2>3, <2>4 DEF Later
<1>3. CASE SendElsewhere
  BY <1>3, SendElsewhereAsks, AskingKeeps
<1>4. ASSUME UNCHANGED <<quiz, pool, assigned, requests, loosened, overlapped, page>>
      PROVE  IInv'
  BY <1>4, NothingMoves, QuietlyKeeps DEF IInv, Formed
<1>5. CASE StartComes \/ \E q \in Questions : ElseDeleteQuestion(q)
  BY <1>4, <1>5 DEF StartComes, StartsCome, ElseDeleteQuestion, DeleteQuestion
<1>6. CASE UNCHANGED vars
  BY <1>4, <1>6 DEF vars, storeVars, pageVars
<1>7. QED
  BY <1>1, <1>2, <1>3, <1>5, <1>6 DEF Next

-----------------------------------------------------------------------------
\* The initial states.

LEMMA FirstRequests ==
  ASSUME Init
  PROVE  requests = [i \in Slots |-> requests[i]] /\ \A i \in Slots : Over(requests[i])
<1>1. Calm(NoRequests, NoRequests)
  BY NothingIsOver DEF Calm, Likewise, NoRequests
<1>2. Calm(NoRequests, requests)
  <2>1. ASSUME NEW kind, FirstPage(kind)
        PROVE  Calm(NoRequests, requests)
    <3>1. \/ requests = Put(NoRequests, AskList(AllQuizzes, "list"))
          \/ requests = Put(NoRequests, AskBank(AllQuizzes))
          \/ requests = NoRequests
      BY <2>1, Zenon DEF FirstPage
    <3>2. QED
      BY <1>1, <3>1, PutIsCalm, AskListIsOver
  <2>2. ASSUME NEW step, FirstStep(step)
        PROVE  Calm(NoRequests, requests)
    BY <1>1, <2>2, StepReads DEF FirstStep
  <2>3. QED
    BY <2>1, <2>2, Zenon DEF Init
<1>3. \A i \in Slots : NoRequests[i] = NoRequest
  BY DEF NoRequests
<1>4. NoRequest.settings \in Settings /\ NoRequest.stage = "free"
  BY NoSettingsFit DEF NoRequest
<1>5. QED
  BY <1>2, <1>3, <1>4 DEF Calm, Likewise, Over

LEMMA FirstRows ==
  ASSUME Init
  PROVE  /\ quiz \in [Quizzes -> QuizRows]
         /\ pool = [id \in Quizzes |-> pool[id]] /\ \A id \in Quizzes : IsFiniteSet(pool[id])
         /\ assigned = [id \in Quizzes |-> assigned[id]]
         /\ StoreIsWhole
<1>1. PICK row \in FirstQuizzes : \E rows \in FirstPools(row.status), given \in FirstAssigned :
        /\ quiz = [id \in Quizzes |-> IF id = 1 THEN row ELSE NoQuiz]
        /\ pool = [id \in Quizzes |-> IF id = 1 THEN rows ELSE {}]
        /\ assigned = [id \in Quizzes |-> IF id = 1 THEN given ELSE {}]
  BY DEF Init
<1>2. PICK rows \in FirstPools(row.status), given \in FirstAssigned :
        /\ quiz = [id \in Quizzes |-> IF id = 1 THEN row ELSE NoQuiz]
        /\ pool = [id \in Quizzes |-> IF id = 1 THEN rows ELSE {}]
        /\ assigned = [id \in Quizzes |-> IF id = 1 THEN given ELSE {}]
  BY <1>1
<1>3. NoQuiz \in QuizRows /\ NoQuiz.status = "none" /\ NoQuiz.settings.per = 1
  BY NoSettingsFit DEF NoQuiz, QuizRows, NoSettings
<1>4. /\ row \in QuizRows /\ row.status \in {"none", "draft", "published"}
      /\ row.status = "published" => row.settings.per = 1
  <2> DEFINE most == [NoSettings EXCEPT !.per = MaxPer]
             draft == [settings |-> most, status |-> "draft", deleted |-> FALSE]
             shown == [settings |-> NoSettings, status |-> "published", deleted |-> FALSE]
  <2>1. most \in Settings
    BY StoreAssumption, NoSettingsFit DEF Settings
  <2>2. row = NoQuiz \/ row = draft \/ row = shown
    BY DEF FirstQuizzes
  <2> HIDE DEF most
  <2>3. draft \in QuizRows /\ draft.status = "draft"
    BY <2>1 DEF QuizRows
  <2>4. shown \in QuizRows /\ shown.status = "published" /\ shown.settings.per = 1
    BY NoSettingsFit DEF QuizRows, NoSettings
  <2> HIDE DEF draft, shown
  <2>5. QED
    BY <1>3, <2>2, <2>3, <2>4
<1>5. /\ IsFiniteSet(rows) /\ InOrder(rows)
      /\ row.status = "published" => rows # {}
  <2>1. /\ IsFiniteSet(RowsOf(<<1>>)) /\ InOrder(RowsOf(<<1>>))
    <3>1. RowsOf(<<1>>) = {[question |-> 1, position |-> 1]}
      BY DEF RowsOf
    <3>2. QED
      BY <3>1, FS_Singleton DEF InOrder
  <2>2. IsFiniteSet(RowsOf(<<2, 1>>)) /\ InOrder(RowsOf(<<2, 1>>)) /\ RowsOf(<<2, 1>>) # {}
    <3> DEFINE a == [question |-> 2, position |-> 1]
               b == [question |-> 1, position |-> 2]
    <3>1. RowsOf(<<2, 1>>) = {a} \union {b}
      BY DEF RowsOf
    <3>2. a.position # b.position /\ a.question # b.question
      OBVIOUS
    <3> HIDE DEF a, b
    <3>3. IsFiniteSet({a} \union {b})
      BY FS_Singleton, FS_Union
    <3>4. QED
      BY <3>1, <3>2, <3>3 DEF InOrder
  <2>3. IsFiniteSet({}) /\ InOrder({})
    BY FS_EmptySet DEF InOrder
  <2>4. QED
    BY <1>4, <2>1, <2>2, <2>3 DEF FirstPools
<1>6. rows # {} => Cardinality(rows) >= 1
  BY <1>5, FS_CardinalityType, FS_EmptySet
<1>7. \A a, b \in given : a.target = b.target => a = b
  BY DEF FirstAssigned
<1>8. /\ \A id \in Quizzes : quiz[id] = (IF id = 1 THEN row ELSE NoQuiz)
      /\ \A id \in Quizzes : pool[id] = (IF id = 1 THEN rows ELSE {})
      /\ \A id \in Quizzes : assigned[id] = (IF id = 1 THEN given ELSE {})
  BY <1>2
<1>9. IsFiniteSet({})
  BY FS_EmptySet
<1>10. /\ quiz \in [Quizzes -> QuizRows]
       /\ pool = [id \in Quizzes |-> pool[id]] /\ \A id \in Quizzes : IsFiniteSet(pool[id])
       /\ assigned = [id \in Quizzes |-> assigned[id]]
  BY <1>2, <1>3, <1>4, <1>5, <1>9
<1>11. PublishedHasQuestions /\ PublishedHasEnough
  BY <1>3, <1>4, <1>5, <1>6, <1>8 DEF PublishedHasQuestions, PublishedHasEnough
<1>12. PoolInOrder /\ AssignedOnce
  BY <1>5, <1>7, <1>8 DEF PoolInOrder, AssignedOnce, InOrder
<1>13. QED
  BY <1>10, <1>11, <1>12 DEF StoreIsWhole

LEMMA InitIsWhole == Init => IInv
<1> SUFFICES ASSUME Init PROVE IInv
  OBVIOUS
<1>1. StoreInv
  BY FirstRequests, OverIsUnderway, FirstRows DEF StoreInv, Apart
<1>2. Formed(page)
  <2>1. ASSUME NEW kind \in {"wizard", "list", "edit", "preview", "results"}, FirstPage(kind)
        PROVE  Formed(page)
    BY <1>1, <2>1, Kinds DEF FirstPage
  <2>2. ASSUME NEW step \in 2 .. 5, FirstStep(step)
        PROVE  Formed(page)
    <3> DEFINE p == [NewPage("wizard", 1) EXCEPT
                      !.form = [title |-> TRUE, settings |-> quiz[1].settings], !.asked = TRUE,
                      !.furthest = step]
    <3>1. page = AtStep(p, step)
      BY <2>2 DEF FirstStep
    <3>2. quiz[1].settings \in Settings
      BY <1>1, StoreAssumption DEF StoreInv, QuizRows, Quizzes
    <3>3. [title |-> TRUE, settings |-> quiz[1].settings].settings = quiz[1].settings
      OBVIOUS
    <3>4. Formed(p)
      BY <3>2, <3>3, NewPageFormed DEF Formed
    <3> HIDE DEF p
    <3>5. QED
      BY <3>1, <3>4, AtStepFormed
  <2>3. QED
    BY <2>1, <2>2, Zenon DEF Init
<1>3. QED
  BY <1>1, <1>2, FirstRows DEF IInv

\* The handlers of the API keep quizzes, pools and assignments whole: a quiz
\* that is published has questions, and as many as an attempt draws unless it
\* was saved after that was checked; a pool is in one order unless two saves of
\* it overlapped; a quiz is assigned once to a class or a student.
THEOREM StoreStaysWhole == Spec => []StoreIsWhole
<1>1. IInv => StoreIsWhole
  BY DEF IInv
<1>2. QED
  BY <1>1, InitIsWhole, StepKeeps, PTL DEF Spec

-----------------------------------------------------------------------------
\* Requests that are forgotten, and new ones.

LEMMA ForgetLeaves ==
  ASSUME NEW rs, NEW gone
  PROVE  Left(rs, Forget(rs, gone), gone)
BY DEF Left, Forget, Forgotten

\* Nobody hears of those that are forgotten, but for the handlers that turn the page.
LEMMA ForgetSilences ==
  ASSUME NEW rs, NEW gone, NEW i \in Slots, rs[i].part \in gone, rs[i].part # "none", rs[i].heard
  PROVE  \/ Forget(rs, gone)[i] = NoRequest \/ Forget(rs, gone)[i] = [rs[i] EXCEPT !.heard = FALSE]
         \/ TurnsPage(rs[i]) /\ Forget(rs, gone)[i] = [rs[i] EXCEPT !.status = "gone"]
BY DEF Forget

LEMMA LeastSlot ==
  ASSUME NEW S \in SUBSET Nat, S # {}
  PROVE  \E n \in S : \A m \in S : n <= m
<1>1. IsWellFoundedOn(OpToRel(<, Nat), Nat)
  BY NatLessThanWellFounded
<1>2. PICK n \in S : \A m \in S : ~(<<m, n>> \in OpToRel(<, Nat))
  BY <1>1, WFMin
<1>3. \A m \in S : ~(m < n)
  BY <1>2 DEF OpToRel
<1>4. QED
  BY <1>3

LEMMA PutFills ==
  ASSUME NEW rs, rs = [i \in Slots |-> rs[i]], NEW r, FreeSlots(rs) # {}
  PROVE  \E x \in Slots : /\ rs[x] = NoRequest /\ Put(rs, r)[x] = r
                          /\ \A j \in Slots : j # x => Put(rs, r)[j] = rs[j]
                          /\ Put(rs, r) = [i \in Slots |-> Put(rs, r)[i]]
<1>1. FreeSlots(rs) \in SUBSET Nat
  BY DEF FreeSlots, Slots
<1>2. \E i \in FreeSlots(rs) : \A j \in FreeSlots(rs) : i <= j
  BY <1>1, LeastSlot
<1>3. (CHOOSE i \in FreeSlots(rs) : \A j \in FreeSlots(rs) : i <= j) \in FreeSlots(rs)
  BY <1>2
<1>4. QED
  BY <1>3 DEF Put, FreeSlots

LEMMA NothingFits ==
  ASSUME NEW p
  PROVE  Fits(p, NoRequest)
BY DEF Fits, Fields, NoRequest, Sorted, Brings, Own, TurnsPage

LEMMA WithoutFits ==
  ASSUME NEW p, NEW rs, Fitting(p, rs), NEW i \in Slots
  PROVE  Fitting(p, [rs EXCEPT ![i] = NoRequest])
<1> DEFINE next == [rs EXCEPT ![i] = NoRequest]
<1>1. next = [j \in Slots |-> IF j = i THEN NoRequest ELSE rs[j]]
  BY DEF Fitting
<1>2. ~NoRequest.heard
  BY DEF NoRequest
<1> HIDE DEF next
<1>3. \A j \in Slots : next[j] = IF j = i THEN NoRequest ELSE rs[j]
  BY <1>1
<1>4. Single(next)
  BY <1>2, <1>3 DEF Fitting, Single
<1>5. \A j \in Slots : Fits(p, next[j])
  BY <1>3, NothingFits DEF Fitting
<1>6. QED
  BY <1>1, <1>4, <1>5 DEF Fitting, next

LEMMA ForgottenFits ==
  ASSUME NEW p, NEW r, NEW s, Fits(p, r), Forgotten(r, s), r.heard
  PROVE  Fits(p, s) /\ (s.heard => s.part = r.part /\ s.kind = r.kind)
<1>1. CASE s = NoRequest
  BY <1>1, NothingFits DEF NoRequest
<1>2. CASE s = [r EXCEPT !.heard = FALSE] /\ r.stage \notin {"answered", "refused"}
  <2>1. /\ DOMAIN s = Fields /\ s.kind = r.kind /\ s.part = r.part /\ ~s.heard /\ s.quiz = r.quiz /\ s.stage = r.stage
        /\ s.rows = r.rows /\ s.ids = r.ids /\ s.status = r.status /\ s.target = r.target
    BY <1>2 DEF Fits, Fields, NoRequest
  <2>2. Brings(s)
    BY <2>1 DEF Fits, Brings
  <2>5. Sorted(s)
    BY <1>2, <2>1 DEF Fits, Sorted, TurnsPage
  <2>3. Own(s)
    BY <2>1 DEF Fits, Sorted, Own
  <2>4. QED
    BY <2>1, <2>2, <2>3, <2>5 DEF Fits
<1>3. CASE TurnsPage(r) /\ s = [r EXCEPT !.status = "gone"]
  <2>1. /\ DOMAIN s = Fields /\ s.kind = r.kind /\ s.part = r.part /\ s.quiz = r.quiz /\ s.stage = r.stage
        /\ s.rows = r.rows /\ s.ids = r.ids /\ s.status = "gone" /\ s.target = r.target /\ s.heard = r.heard
    BY <1>3 DEF Fits, Fields, NoRequest
  <2>2. TurnsPage(s) /\ s.part \in {"draft", "actions"}
    BY <1>3, <2>1 DEF TurnsPage
  <2>3. Sorted(s) /\ Brings(s) /\ Own(s)
    BY <2>1, <2>2 DEF Fits, Sorted, Brings, Own
  <2>4. OfPage(p, s)
    BY <2>1, <2>2 DEF OfPage
  <2>5. QED
    BY <2>1, <2>3, <2>4 DEF Fits
<1>4. QED
  BY <1>1, <1>2, <1>3 DEF Forgotten

LEMMA ForgetFits ==
  ASSUME NEW p, NEW rs, Fitting(p, rs), NEW gone
  PROVE  Fitting(p, Forget(rs, gone))
<1> DEFINE next == Forget(rs, gone)
<1>1. Left(rs, next, gone)
  BY ForgetLeaves
<1> HIDE DEF next
<1>2. \A j \in Slots : Fits(p, next[j]) /\ (next[j].heard => rs[j].heard /\ next[j].part = rs[j].part /\ next[j].kind = rs[j].kind)
  BY <1>1, ForgottenFits DEF Left, Fitting
<1>3. Single(next)
  BY <1>2 DEF Fitting, Single
<1>4. QED
  BY <1>1, <1>2, <1>3 DEF Fitting, Left, next

\* The page changes: those that are heard must be of the new one.
LEMMA TurnFits ==
  ASSUME NEW p, NEW rs, Fitting(p, rs), NEW q, PageRight(q),
         \A i \in Slots : Fits(p, rs[i]) /\ rs[i].heard => OfPage(q, rs[i])
  PROVE  Fitting(q, rs)
BY DEF Fitting, Fits

\* Of the parts that are gone, only handlers that turn the page are heard.
LEMMA GoneTurns ==
  ASSUME NEW p, NEW rs, Fitting(p, rs), NEW gone, NEW i \in Slots, Forget(rs, gone)[i].heard,
         Forget(rs, gone)[i].part \in gone
  PROVE  TurnsPage(Forget(rs, gone)[i]) /\ Forget(rs, gone)[i].status = "gone"
<1>1. Fits(p, rs[i]) /\ DOMAIN rs[i] = Fields
  BY DEF Fitting, Fits
<1>2. CASE ~rs[i].heard
  BY <1>2 DEF Forget
<1>3. CASE rs[i].heard
  <2>1. rs[i].part # "none"
    BY <1>1, <1>3 DEF Fits, Sorted
  <2>2. rs[i].part \in gone
    BY <1>3 DEF Forget
  <2>3. TurnsPage(rs[i]) /\ Forget(rs, gone)[i] = [rs[i] EXCEPT !.status = "gone"]
    <3>1. \/ Forget(rs, gone)[i] = NoRequest \/ Forget(rs, gone)[i] = [rs[i] EXCEPT !.heard = FALSE]
          \/ TurnsPage(rs[i]) /\ Forget(rs, gone)[i] = [rs[i] EXCEPT !.status = "gone"]
      BY <1>3, <2>1, <2>2, ForgetSilences
    <3>2. ~NoRequest.heard /\ "heard" \in DOMAIN rs[i]
      BY <1>1 DEF NoRequest, Fields
    <3>3. ~[rs[i] EXCEPT !.heard = FALSE].heard
      BY <3>2
    <3>4. QED
      BY <3>1, <3>2, <3>3
  <2>4. QED
    BY <1>1, <2>3 DEF TurnsPage, Fields, NoRequest
<1>4. QED
  BY <1>2, <1>3

LEMMA AllForgotten ==
  ASSUME NEW p, NEW rs, Fitting(p, rs), NEW i \in Slots, Forget(rs, PageParts)[i].heard
  PROVE  TurnsPage(Forget(rs, PageParts)[i]) /\ Forget(rs, PageParts)[i].status = "gone"
  BY ForgetFits, GoneTurns DEF Fitting, Fits, Sorted

LEMMA TurnedFits ==
  ASSUME NEW p, NEW rs, Fitting(p, rs), NEW q, PageRight(q)
  PROVE  Fitting(q, Forget(rs, PageParts))
  BY ForgetFits, AllForgotten, TurnFits DEF TurnsPage, OfPage

LEMMA PutFits ==
  ASSUME NEW p, NEW rs, Fitting(p, rs), FreeSlots(rs) # {}, NEW r, Fits(p, r), Alone(rs, r)
  PROVE  Fitting(p, Put(rs, r))
<1> DEFINE next == Put(rs, r)
<1>1. PICK x \in Slots : /\ next[x] = r /\ \A j \in Slots : j # x => next[j] = rs[j]
                         /\ next = [i \in Slots |-> next[i]]
  BY PutFills DEF Fitting
<1> HIDE DEF next
<1>2. \A j \in Slots : Fits(p, next[j])
  BY <1>1 DEF Fitting
<1>3. Single(next)
  <2> SUFFICES ASSUME NEW i \in Slots, NEW j \in Slots, i # j, next[i].heard, next[j].heard,
                      next[i].part = next[j].part
               PROVE  /\ next[i].part \notin {"save", "picker", "pool"}
                      /\ next[i].part = "publishLoad" => next[i].kind # next[j].kind
    BY DEF Single
  <2>1. CASE i = x
    BY <1>1, <2>1 DEF Alone
  <2>2. CASE j = x
    BY <1>1, <2>2 DEF Alone
  <2>3. CASE i # x /\ j # x
    BY <1>1, <2>3 DEF Fitting, Single
  <2>4. QED
    BY <2>1, <2>2, <2>3
<1>4. QED
  BY <1>1, <1>2, <1>3 DEF Fitting, next

-----------------------------------------------------------------------------
\* New requests and new pages.

LEMMA AskIs ==
  ASSUME NEW kind, NEW id, NEW part
  PROVE  LET r == Ask(kind, id, part) IN
         /\ DOMAIN r = Fields /\ r.kind = kind /\ r.stage = "sent" /\ r.quiz = id /\ r.part = part /\ r.heard
         /\ r.status = "none" /\ r.rows = {} /\ r.ids = <<>> /\ r.query = NoQuery /\ r.total = 0
BY DEF Ask, NoRequest, Fields

LEMMA SentFits ==
  ASSUME NEW p, NEW r, Sent(r), Sorted(r), r.quiz = 0 \/ Made(r.quiz), r.kind = "create" => r.quiz = 0,
         r.kind = "assign" => r.target \in Targets, OfPage(p, r)
  PROVE  Fits(p, r)
  BY DEF Brings, Sent, Own, PageParts, StepParts, Fits

LEMMA ListAskFits ==
  ASSUME NEW p, p.kind = "list", NEW q, NEW part \in {"list", "reload"}
  PROVE  LET r == AskList(q, part) IN
         Fits(p, r) /\ Of(r, "list", 0, part) /\ r.query = q /\ r.heard /\ r.stage = "sent"
<1> DEFINE r == AskList(q, part)
<1>1. /\ Sent(r) /\ Of(r, "list", 0, part) /\ r.query = q
  BY AskIs DEF AskList, Sent, Of, Fields, NoRequest, PageParts, StepParts
<1> HIDE DEF r
<1>2. Sorted(r) /\ OfPage(p, r)
  BY <1>1 DEF Sent, Of, Sorted, OfPage
<1>3. Fits(p, r)
  BY <1>1, <1>2, SentFits DEF Of
<1>4. QED
  BY <1>1, <1>3 DEF r, Sent

LEMMA BankAskFits ==
  ASSUME NEW p, p.picker.open, NEW q
  PROVE  Fits(p, AskBank(q)) /\ Of(AskBank(q), "bank", 0, "bank") /\ AskBank(q).heard
<1> DEFINE r == AskBank(q)
<1>1. /\ Sent(r) /\ Of(r, "bank", 0, "bank")
  BY AskIs DEF AskBank, Sent, Of, Fields, NoRequest, PageParts, StepParts
<1> HIDE DEF r
<1>2. Sorted(r) /\ OfPage(p, r)
  BY <1>1 DEF Sent, Of, Sorted, OfPage
<1>3. Fits(p, r)
  BY <1>1, <1>2, SentFits DEF Of
<1>4. QED
  BY <1>1, <1>3 DEF r, Sent

LEMMA AsksSorted ==
  ASSUME NEW r, Sent(r), Asks(r.kind, r.part)
  PROVE  Sorted(r) /\ r.kind # "create"
BY DEF Sent, Asks, Sorted, LifeCycle

LEMMA AskFits ==
  ASSUME NEW p, NEW kind, NEW id, NEW part, Asks(kind, part), kind # "assign", id = 0 \/ Made(id),
         OfPage(p, Ask(kind, id, part))
  PROVE  Fits(p, Ask(kind, id, part))
<1> DEFINE r == Ask(kind, id, part)
<1>1. /\ Sent(r) /\ Of(r, kind, id, part)
  BY AskIs DEF Asks, PageParts, StepParts, Sent, Of
<1> HIDE DEF r
<1>2. QED
  BY <1>1, AsksSorted, SentFits DEF Of, r

LEMMA NewPageIs ==
  ASSUME NEW kind, NEW id
  PROVE  NewPart(NewPage(kind, id)) /\ NewPage(kind, id).kind = kind /\ NewPage(kind, id).quiz = id
BY DEF NewPage, NewPart, PageFields

LEMMA PartsAreNew ==
  /\ PickedRight(NoPicker) /\ ListedRight(NoList) /\ InitialForm.settings \in Settings
  /\ ~NoPicker.open /\ ~NoPicker.saved /\ ~NoPicker.saving /\ ~NoPanel.open /\ NoLoad.left = {}
  /\ DOMAIN NoList = {"search", "query", "rows", "total", "shown", "loading", "error", "stray"}
  /\ DOMAIN NoPicker = {"open", "pool", "search", "query", "items", "total", "shown", "selected", "saving",
                        "saved", "touched"}
  /\ DOMAIN NoPanel = {"open", "rows", "assigning", "pending"}
  /\ DOMAIN NoLoad = {"left", "status", "rows"}
  /\ ~NoList.loading /\ ~NoPanel.assigning /\ NoList.shown = NoQuery /\ NoList.query = AllQuizzes
  BY StoreAssumption DEF InitialForm, Settings, PickedRight, NoPicker, ListedRight, NoList, NoPanel,
     NoLoad

LEMMA NewPageRight ==
  ASSUME NEW kind, NEW id, id = 0 \/ Made(id), kind \in {"edit", "preview", "results"} => id # 0
  PROVE  PageRight(NewPage(kind, id))
<1> DEFINE n == NewPage(kind, id)
<1>1. NewPart(n) /\ n.kind = kind /\ n.quiz = id
  BY NewPageIs
<1> HIDE DEF n
<1>2. PageShape(n) /\ PickedRight(n.picker) /\ ListedRight(n.list)
  BY <1>1, PartsAreNew DEF NewPart, PageShape
<1>3. StepRight(n) /\ PartsRight(n)
  BY <1>1, PartsAreNew DEF NewPart, StepRight, PartsRight
<1>4. QED
  BY <1>2, <1>3 DEF PageRight, n

LEMMA OrdersAreLists ==
  ASSUME StoreTyped, NEW id \in Quizzes, NEW ids \in OrdersOf(pool[id])
  PROVE  ids \in Seq(Questions) /\ Len(ids) = Cardinality(pool[id])
  BY FS_CardinalityType DEF StoreTyped, OrdersOf, PoolRow

LEMMA PageForIs ==
  ASSUME StoreTyped, NEW kind \in {"list", "wizard", "edit", "preview", "results"}, NEW id, NEW p \in PageFor(kind, id)
  PROVE  Untouched(p) /\ TurnedTo(p, kind, id)
<1> DEFINE n == NewPage(kind, id)
<1>1. NewPart(n) /\ n.kind = kind /\ n.quiz = id
  BY NewPageIs
<1>2. ASSUME NEW m, NewPart(m)
      PROVE  Untouched(m)
  BY <1>2, PartsAreNew DEF NewPart, Untouched
<1>3. CASE kind \notin {"list", "wizard"} /\ ~Live(id)
  BY <1>2, <1>3, NewPageIs DEF PageFor, TurnedTo
<1>4. CASE ~(kind \notin {"list", "wizard"} /\ ~Live(id))
  <2>1. CASE kind = "list"
    <3>1. p = [n EXCEPT !.list.loading = TRUE]
      BY <1>4, <2>1 DEF PageFor
    <3> HIDE DEF n
    <3>2. p.list = [NoList EXCEPT !.loading = TRUE]
      BY <1>1, <3>1 DEF NewPart, PageFields
    <3>3. Untouched(p)
      BY <1>1, <3>1, PartsAreNew DEF NewPart, Untouched, PageFields
    <3>4. TurnedTo(p, kind, id)
      BY <1>1, <2>1, <3>1, <3>2 DEF NewPart, TurnedTo, PageFields
    <3>5. QED
      BY <3>3, <3>4
  <2>2. CASE kind = "wizard"
    BY <1>1, <1>2, <1>4, <2>2 DEF PageFor, TurnedTo, NewPart
  <2>3. CASE kind = "edit"
    <3>1. quiz[id].settings \in Settings /\ Made(id)
      BY <1>4, <2>3 DEF Live, StoreTyped, QuizRows, Made
    <3>2. PICK ids \in OrdersOf(pool[id]) :
                 p = [n EXCEPT !.status = quiz[id].status,
                               !.form = [title |-> TRUE, settings |-> quiz[id].settings],
                               !.picker = [NoPicker EXCEPT !.open = TRUE, !.pool = ids]]
      BY <1>4, <2>3 DEF PageFor
    <3>3. [title |-> TRUE, settings |-> quiz[id].settings].settings = quiz[id].settings
      OBVIOUS
    <3>4. ids \in Seq(Questions)
      BY <3>1, OrdersAreLists DEF Made
    <3> HIDE DEF n
    <3>5. /\ p.form.settings = quiz[id].settings
          /\ p.picker = [NoPicker EXCEPT !.open = TRUE, !.pool = ids]
      BY <1>1, <3>2, <3>3 DEF NewPart, PageFields
    <3>6. Untouched(p)
      BY <1>1, <3>1, <3>2, <3>5 DEF NewPart, Untouched, PageFields
    <3>7. TurnedTo(p, kind, id)
      BY <1>1, <2>3, <3>1, <3>2, <3>4, <3>5 DEF NewPart, TurnedTo, PageFields
    <3>8. QED
      BY <3>6, <3>7
  <2>4. CASE kind = "preview"
    <3> DEFINE shown == [NoPanel EXCEPT !.open = quiz[id].status = "published", !.rows = assigned[id]]
    <3>1. p = [n EXCEPT !.status = quiz[id].status, !.crossed = Crossing(id), !.panel = shown]
      BY <1>4, <2>4 DEF PageFor
    <3>2. shown.rows = assigned[id] /\ ~shown.assigning /\ DOMAIN shown = DOMAIN NoPanel
      BY DEF NoPanel
    <3>3. Made(id)
      BY <1>4, <2>4 DEF Live, Made
    <3> HIDE DEF n, shown
    <3>4. p.panel = shown /\ p.crossed = Crossing(id)
      BY <1>1, <3>1 DEF NewPart, PageFields
    <3>5. Untouched(p)
      BY <1>1, <3>1, PartsAreNew DEF NewPart, Untouched, PageFields
    <3>6. TurnedTo(p, kind, id)
      BY <1>1, <2>4, <3>1, <3>2, <3>3, <3>4 DEF NewPart, TurnedTo, PageFields
    <3>7. QED
      BY <3>5, <3>6
  <2>5. CASE kind = "results"
    <3>1. p = [n EXCEPT !.released = quiz[id].settings.show] /\ Made(id)
      BY <1>4, <2>5 DEF PageFor, Live, Made
    <3> HIDE DEF n
    <3>2. Untouched(p)
      BY <1>1, <3>1, PartsAreNew DEF NewPart, Untouched, PageFields
    <3>3. TurnedTo(p, kind, id)
      BY <1>1, <2>5, <3>1 DEF NewPart, TurnedTo, PageFields
    <3>4. QED
      BY <3>2, <3>3
  <2>6. QED
    BY <2>1, <2>2, <2>3, <2>4, <2>5
<1>5. QED
  BY <1>3, <1>4

LEMMA TurnedRight ==
  ASSUME StoreTyped, NEW kind \in {"list", "wizard", "edit", "preview", "results"}, NEW id, NEW p,
         id = 0 \/ Made(id), kind = "wizard" => id = 0, Untouched(p), TurnedTo(p, kind, id)
  PROVE  PageRight(p)
<1>1. CASE p = NewPage("missing", 0)
  BY <1>1, NewPageRight
<1>2. CASE p # NewPage("missing", 0)
  <2>1. p.kind = kind /\ p.quiz = id /\ (kind \notin {"list", "wizard"} => Made(id))
    BY <1>2 DEF TurnedTo
  <2>2. DOMAIN p.list = DOMAIN NoList /\ p.list.rows = {}
    <3>1. p.list = NoList \/ p.list = [NoList EXCEPT !.loading = TRUE]
      BY <1>2 DEF TurnedTo
    <3>2. QED
      BY <3>1 DEF NoList
  <2>3. /\ DOMAIN p.picker = DOMAIN NoPicker /\ PickedRight(p.picker) /\ ~p.picker.saved /\ ~p.picker.saving
        /\ p.picker.open => kind = "edit"
    <3>1. CASE p.picker = NoPicker
      BY <3>1, PartsAreNew
    <3>2. CASE p.picker # NoPicker
      <4>1. kind = "edit"
        BY <1>2, <3>2 DEF TurnedTo
      <4>2. PICK ids \in Seq(Questions) : p.picker = [NoPicker EXCEPT !.open = TRUE, !.pool = ids]
        BY <1>2, <4>1 DEF TurnedTo
      <4>3. QED
        BY <4>1, <4>2 DEF NoPicker, PickedRight
    <3>3. QED
      BY <3>1, <3>2
  <2>4. DOMAIN p.panel = DOMAIN NoPanel /\ (p.panel.open => kind = "preview")
    BY <1>2, PartsAreNew DEF TurnedTo
  <2>5. PageShape(p) /\ PickedRight(p.picker) /\ ListedRight(p.list)
    BY <2>2, <2>3, <2>4, PartsAreNew DEF PageShape, ListedRight, Untouched
  <2>6. StepRight(p)
    BY <2>1 DEF StepRight, Untouched, Made, Quizzes
  <2>7. PartsRight(p)
    BY <2>1, <2>3, <2>4, PartsAreNew DEF PartsRight, Untouched
  <2>8. QED
    BY <2>5, <2>6, <2>7 DEF PageRight
<1>3. QED
  BY <1>1, <1>2

-----------------------------------------------------------------------------
\* The tab turns to another page, or the wizard to another step.

LEMMA TurnToFits ==
  ASSUME StoreTyped, NEW rs, NEW p, Fitting(p, rs), NEW kind \in {"list", "wizard", "edit", "preview", "results"},
         NEW id, id = 0 \/ Made(id), kind = "wizard" => id = 0, TurnTo(kind, id, rs)
  PROVE  Fitting(page', requests') /\ Untouched(page') /\ TurnedTo(page', kind, id)
<1> DEFINE left == Forget(rs, PageParts)
           q == page'
<1>1. q \in PageFor(kind, id)
  BY DEF TurnTo
<1> HIDE DEF q
<1>2. Untouched(q) /\ TurnedTo(q, kind, id)
  BY <1>1, PageForIs
<1>3. Fitting(q, left)
  BY <1>2, TurnedRight, TurnedFits
<1>4. CASE kind = "list"
  <2>1. requests' = Put(left, AskList(AllQuizzes, "list")) /\ FreeSlots(left) # {}
    BY <1>4 DEF TurnTo
  <2>2. q.kind = "list"
    BY <1>2, <1>4 DEF TurnedTo
  <2>3. Fits(q, AskList(AllQuizzes, "list")) /\ AskList(AllQuizzes, "list").part = "list"
    BY <2>2, ListAskFits DEF Of
  <2>4. Alone(left, AskList(AllQuizzes, "list"))
    BY <2>3 DEF Alone
  <2> HIDE DEF left
  <2>5. QED
    BY <1>2, <1>3, <2>1, <2>3, <2>4, PutFits DEF q
<1>5. CASE kind = "edit" /\ Live(id)
  <2>1. requests' = Put(left, AskBank(AllQuizzes)) /\ FreeSlots(left) # {}
    BY <1>5 DEF TurnTo
  <2>2. q.picker.open
    <3>1. PICK ids \in Seq(Questions) : q.picker = [NoPicker EXCEPT !.open = TRUE, !.pool = ids]
      BY <1>2, <1>5 DEF TurnedTo
    <3>2. QED
      BY <3>1 DEF NoPicker
  <2>3. Fits(q, AskBank(AllQuizzes)) /\ AskBank(AllQuizzes).part = "bank"
    BY <2>2, BankAskFits DEF Of
  <2>4. Alone(left, AskBank(AllQuizzes))
    BY <2>3 DEF Alone
  <2> HIDE DEF left
  <2>5. QED
    BY <1>2, <1>3, <2>1, <2>3, <2>4, PutFits DEF q
<1>6. CASE kind # "list" /\ ~(kind = "edit" /\ Live(id))
  BY <1>6, <1>2, <1>3 DEF TurnTo, q
<1>7. QED
  BY <1>4, <1>5, <1>6

LEMMA SlotsAreFinite == \A rs : IsFiniteSet(FreeSlots(rs)) /\ Cardinality(FreeSlots(rs)) \in Nat
<1> SUFFICES ASSUME NEW rs PROVE IsFiniteSet(FreeSlots(rs)) /\ Cardinality(FreeSlots(rs)) \in Nat
  OBVIOUS
<1>1. IsFiniteSet(Slots)
  BY StoreAssumption, FS_Interval DEF Slots
<1>2. FreeSlots(rs) \subseteq Slots
  BY DEF FreeSlots
<1>3. QED
  BY <1>1, <1>2, FS_Subset, FS_CardinalityType

LEMMA OneMoreSlot ==
  ASSUME NEW rs, rs = [i \in Slots |-> rs[i]], NEW r, Cardinality(FreeSlots(rs)) >= 2
  PROVE  FreeSlots(rs) # {} /\ FreeSlots(Put(rs, r)) # {}
<1> DEFINE S == FreeSlots(rs)
<1>1. IsFiniteSet(S) /\ Cardinality(S) \in Nat
  BY SlotsAreFinite
<1>2. S # {}
  BY FS_EmptySet
<1>3. PICK x \in Slots : /\ rs[x] = NoRequest /\ Put(rs, r)[x] = r
                         /\ \A j \in Slots : j # x => Put(rs, r)[j] = rs[j]
  BY <1>2, PutFills
<1>4. x \in S
  BY <1>3 DEF FreeSlots
<1>5. Cardinality(S \ {x}) = Cardinality(S) - 1 /\ IsFiniteSet(S \ {x})
  BY <1>1, <1>4, FS_RemoveElement
<1>6. S \ {x} # {}
  BY <1>1, <1>5, FS_EmptySet
<1>7. \A j \in S \ {x} : j \in FreeSlots(Put(rs, r))
  BY <1>3 DEF FreeSlots
<1>8. QED
  BY <1>2, <1>6, <1>7

LEMMA AtStepIs ==
  ASSUME NEW p, PageShape(p), NEW step
  PROVE  AtItsStep(AtStep(p, step), p, step)
BY DEF PageShape, AtStep, AtItsStep, PageFields

LEMMA AtStepRight ==
  ASSUME NEW p, PageRight(p), p.kind = "wizard", p.quiz # 0, NEW step \in 1 .. 5, NEW q, AtItsStep(q, p, step)
  PROVE  PageRight(q) /\ q.load.left = (IF step = 5 THEN {"readQuiz", "readAssigned"} ELSE {})
<1>1. /\ q.load.left = (IF step = 5 THEN {"readQuiz", "readAssigned"} ELSE {})
      /\ DOMAIN q.load = DOMAIN NoLoad
  BY DEF AtItsStep, NoLoad
<1>2. PageShape(q)
  BY <1>1, PartsAreNew DEF AtItsStep, PageShape, PageRight
<1>3. StepRight(q)
  BY DEF AtItsStep, PageRight, StepRight
<1>4. PartsRight(q)
  BY <1>1, PartsAreNew DEF AtItsStep, PartsRight
<1>5. PickedRight(q.picker) /\ ListedRight(q.list)
  BY PartsAreNew DEF AtItsStep, PageRight
<1>6. QED
  BY <1>1, <1>2, <1>3, <1>4, <1>5 DEF PageRight

LEMMA StepForgets ==
  ASSUME NEW p, NEW rs, Fitting(p, rs), p.kind = "wizard", NEW q, PageRight(q), NEW step, AtItsStep(q, p, step)
  PROVE  /\ Fitting(q, Forget(rs, StepParts))
         /\ \A i \in Slots : Forget(rs, StepParts)[i].heard => Forget(rs, StepParts)[i].part \notin StepParts
<1> DEFINE left == Forget(rs, StepParts)
<1>1. Fitting(p, left)
  BY ForgetFits
<1>2. \A i \in Slots : left[i].heard /\ left[i].part \in StepParts => TurnsPage(left[i])
  BY GoneTurns
<1> HIDE DEF left
<1>3. \A i \in Slots : left[i].heard => left[i].part \notin StepParts
  BY <1>2 DEF TurnsPage, StepParts
<1>4. ASSUME NEW i \in Slots, Fits(p, left[i]), left[i].heard
      PROVE  OfPage(q, left[i])
  BY <1>3, <1>4 DEF Fits, AtItsStep, OfPage, StepParts
<1>5. Fitting(q, left)
  BY <1>1, <1>4, TurnFits
<1>6. QED
  BY <1>3, <1>5 DEF left

LEMMA SomeSlot ==
  ASSUME NEW rs, Cardinality(FreeSlots(rs)) >= 1
  PROVE  FreeSlots(rs) # {}
BY SlotsAreFinite, FS_EmptySet

LEMMA StepAskFits ==
  ASSUME NEW q, q.kind = "wizard", q.quiz # 0, Made(q.quiz), ~q.picker.open,
         q.step = 5 => q.load.left = {"readQuiz", "readAssigned"}
  PROVE  /\ q.step = 2 => Fits(q, Ask("readPool", q.quiz, "pool"))
         /\ q.step = 4 => Fits(q, Ask("readPool", q.quiz, "review"))
         /\ q.step = 5 => Fits(q, Ask("readQuiz", q.quiz, "publishLoad"))
         /\ q.step = 5 => Fits(q, Ask("readAssigned", q.quiz, "publishLoad"))
<1>1. ASSUME NEW kind, NEW part, <<kind, part, q.step>> \in
               {<<"readPool", "pool", 2>>, <<"readPool", "review", 4>>, <<"readQuiz", "publishLoad", 5>>,
                <<"readAssigned", "publishLoad", 5>>}
      PROVE  Fits(q, Ask(kind, q.quiz, part))
  BY <1>1, AskIs, AskFits DEF OfPage, Asks
<1>2. QED
  BY <1>1

LEMMA EnterStepFits ==
  ASSUME NEW p, NEW rs, Fitting(p, rs), p.kind = "wizard", p.quiz # 0, NEW step \in 1 .. 5, EnterStep(p, rs, step),
         step # p.step
  PROVE  /\ Fitting(page', requests') /\ AtItsStep(page', p, step)
         /\ requests' = ReadsOfStep(Forget(rs, StepParts), p.quiz, step)
         /\ FreeSlots(Forget(rs, StepParts)) # {}
         /\ step = 5 => FreeSlots(Put(Forget(rs, StepParts), Ask("readQuiz", p.quiz, "publishLoad"))) # {}
<1> DEFINE left == Forget(rs, StepParts)
           q == AtStep(p, step)
           load == Ask("readQuiz", p.quiz, "publishLoad")
<1>1. /\ page' = q /\ requests' = ReadsOfStep(left, p.quiz, step)
      /\ Cardinality(FreeSlots(left)) >= (IF step = 5 THEN 2 ELSE 1)
  BY Zenon DEF EnterStep
<1>2. AtItsStep(q, p, step) /\ PageRight(p) /\ Made(p.quiz)
  BY AtStepIs DEF Fitting, PageRight, StepRight
<1> HIDE DEF q
<1>3. PageRight(q) /\ q.load.left = (IF step = 5 THEN {"readQuiz", "readAssigned"} ELSE {})
  BY <1>2, AtStepRight
<1>4. Fitting(q, left) /\ \A i \in Slots : left[i].heard => left[i].part \notin StepParts
  BY <1>2, <1>3, StepForgets
<1>5. FreeSlots(left) # {} /\ (step = 5 => FreeSlots(Put(left, load)) # {})
  <2>1. left = [i \in Slots |-> left[i]]
    BY <1>4 DEF Fitting
  <2> HIDE DEF left, load
  <2>2. CASE step = 5
    BY <1>1, <2>1, <2>2, OneMoreSlot
  <2>3. CASE step # 5
    BY <1>1, <2>3, SomeSlot
  <2>4. QED
    BY <2>2, <2>3
<1>6. /\ q.step = step /\ q.quiz = p.quiz /\ q.kind = "wizard" /\ ~q.picker.open
  BY <1>2, PartsAreNew DEF AtItsStep
<1>7. /\ step = 2 => Fits(q, Ask("readPool", p.quiz, "pool"))
      /\ step = 4 => Fits(q, Ask("readPool", p.quiz, "review"))
      /\ step = 5 => Fits(q, load)
      /\ step = 5 => Fits(q, Ask("readAssigned", p.quiz, "publishLoad"))
  BY <1>2, <1>3, <1>6, StepAskFits
<1>8. \A kind, id : \A part \in StepParts : Alone(left, Ask(kind, id, part))
  BY <1>4, AskIs DEF Alone
<1>9. Fitting(q, requests')
  <2>1. CASE step = 2
    <3>1. requests' = Put(left, Ask("readPool", p.quiz, "pool"))
      BY <1>1, <2>1 DEF ReadsOfStep
    <3>2. Alone(left, Ask("readPool", p.quiz, "pool"))
      BY <1>8 DEF StepParts
    <3> HIDE DEF left
    <3>3. QED
      BY <1>4, <1>5, <1>7, <2>1, <3>1, <3>2, PutFits
  <2>2. CASE step = 4
    <3>1. requests' = Put(left, Ask("readPool", p.quiz, "review"))
      BY <1>1, <2>2 DEF ReadsOfStep
    <3>2. Alone(left, Ask("readPool", p.quiz, "review"))
      BY <1>8 DEF StepParts
    <3> HIDE DEF left
    <3>3. QED
      BY <1>4, <1>5, <1>7, <2>2, <3>1, <3>2, PutFits
  <2>3. CASE step = 5
    <3> DEFINE other == Ask("readAssigned", p.quiz, "publishLoad")
    <3>1. requests' = Put(Put(left, load), other)
      BY <1>1, <2>3 DEF ReadsOfStep
    <3>2. Alone(left, load)
      BY <1>8 DEF StepParts
    <3>3. Fits(q, load) /\ Fits(q, other) /\ load.kind # other.kind
      BY <1>7, <2>3, AskIs
    <3>4. PICK x \in Slots : /\ Put(left, load)[x] = load
                             /\ \A j \in Slots : j # x => Put(left, load)[j] = left[j]
      BY <1>4, <1>5, PutFills DEF Fitting
    <3>5. other.part = "publishLoad" /\ \A j \in Slots : left[j].heard => left[j].part # "publishLoad"
      BY <1>4, AskIs DEF StepParts
    <3> HIDE DEF left, load, other
    <3>6. Fitting(q, Put(left, load))
      BY <1>4, <1>5, <3>2, <3>3, PutFits
    <3>7. Alone(Put(left, load), other)
      BY <3>3, <3>4, <3>5 DEF Alone
    <3>8. QED
      BY <1>5, <2>3, <3>1, <3>3, <3>6, <3>7, PutFits
  <2>4. CASE step \notin {2, 4, 5}
    <3>1. requests' = left
      BY <1>1, <2>4 DEF ReadsOfStep
    <3>2. QED
      BY <1>4, <3>1
  <2>5. QED
    BY <2>1, <2>2, <2>3, <2>4
<1>10. QED
  BY <1>1, <1>2, <1>5, <1>9

LEMMA CoreKept ==
  ASSUME Core, UNCHANGED <<quiz, pool, assigned, serial, alive, elsewhere>>, Fitting(page', requests')
  PROVE  Core'
BY DEF Core, StoreTyped, Fitting, PageRight, StepRight, ListedRight, Made, Fits, Brings, Own, Single, PartsRight,
   PickedRight, PageShape

\* What a teacher does: a page and perhaps a request.
LEMMA ShowCore ==
  ASSUME Core, NEW p, Show(p), PageRight(p), \A i \in Slots : Fits(page, requests[i]) /\ requests[i].heard => OfPage(p, requests[i])
  PROVE  Fitting(page', requests')
BY TurnFits DEF Core, Show

LEMMA SendCore ==
  ASSUME Core, NEW p, NEW r, Send(p, r), PageRight(p), Fits(p, r), Alone(requests, r),
         \A i \in Slots : Fits(page, requests[i]) /\ requests[i].heard => OfPage(p, requests[i])
  PROVE  Fitting(page', requests')
  BY TurnFits, PutFits DEF Core, Send

-----------------------------------------------------------------------------
\* What an action changes of the page and of the requests.

LEMMA HoldsOfPage ==
  ASSUME NEW p, NEW q, Holds(q, p), NEW r, OfPage(p, r)
  PROVE  OfPage(q, r)
BY DEF Holds, OfPage

LEMMA HoldsFits ==
  ASSUME NEW p, NEW rs, Fitting(p, rs), NEW q, PageRight(q), Holds(q, p)
  PROVE  Fitting(q, rs)
BY TurnFits, HoldsOfPage DEF Fits

LEMMA SendMoves ==
  ASSUME NEW rs, rs = [i \in Slots |-> rs[i]], FreeSlots(rs) # {}, NEW r
  PROVE  Moves(Put(rs, r), rs, {}, {r.part})
  BY PutFills DEF NoRequest, Moves

LEMMA WithoutMoves ==
  ASSUME NEW rs, rs = [j \in Slots |-> rs[j]], NEW i \in Slots
  PROVE  Moves([rs EXCEPT ![i] = NoRequest], rs, {rs[i].part}, {})
  BY DEF NoRequest, Moves

LEMMA ForgetMoves ==
  ASSUME NEW p, NEW rs, Fitting(p, rs), NEW gone
  PROVE  Moves(Forget(rs, gone), rs, gone, gone)
<1> DEFINE next == Forget(rs, gone)
<1>1. Left(rs, next, gone)
  BY ForgetLeaves
<1> HIDE DEF next
<1>2. ASSUME NEW j \in Slots, next[j] # rs[j]
      PROVE  rs[j].part \in gone /\ next[j].part \in gone \union {"none"}
  <2>1. rs[j].part \in gone /\ Forgotten(rs[j], next[j]) /\ DOMAIN rs[j] = Fields
    BY <1>1, <1>2 DEF Left, Fitting, Fits
  <2>2. CASE next[j] = NoRequest
    BY <2>1, <2>2 DEF NoRequest
  <2>3. CASE next[j] # NoRequest
    BY <2>1, <2>3 DEF Forgotten, Fields, NoRequest
  <2>4. QED
    BY <2>1, <2>2, <2>3
<1>3. QED
  BY <1>1, <1>2 DEF Moves, Left, next

LEMMA MovesTwice ==
  ASSUME NEW rs, NEW mid, NEW next, NEW a, NEW b, NEW c, NEW d, Moves(mid, rs, a, b), Moves(next, mid, c, d)
  PROVE  Moves(next, rs, a \union c, b \union d)
BY DEF Moves

LEMMA MovesMore ==
  ASSUME NEW rs, NEW next, NEW a, NEW b, NEW c, NEW d, Moves(next, rs, a, b), a \subseteq c, b \subseteq d
  PROVE  Moves(next, rs, c, d)
BY DEF Moves

LEMMA StandStill ==
  ASSUME NEW p, NEW rs, Fitting(p, rs), NEW a, NEW b
  PROVE  Moves(rs, rs, a, b)
BY DEF Fitting, Moves

LEMMA ShowSteps ==
  ASSUME Core, NEW q, Show(q), PageRight(q), Holds(q, page), NEW fields, Changes(q, page, fields)
  PROVE  Fitting(page', requests') /\ Foot(fields, {}, {}) /\ Quiet /\ page' = q /\ requests' = requests
BY HoldsFits, StandStill DEF Core, Show, Rest, Quiet, Foot

LEMMA SendSteps ==
  ASSUME Core, NEW q, NEW r, Send(q, r), PageRight(q), Holds(q, page), NEW fields, Changes(q, page, fields),
         Fits(q, r), Alone(requests, r)
  PROVE  /\ Fitting(page', requests') /\ Foot(fields, {}, {r.part}) /\ Quiet /\ page' = q
         /\ requests' = Put(requests, r) /\ FreeSlots(requests) # {}
<1>1. Fitting(q, requests)
  BY HoldsFits DEF Core
<1>2. FreeSlots(requests) # {} /\ page' = q /\ requests' = Put(requests, r) /\ Quiet
  BY DEF Send, Rest, Quiet
<1>3. Fitting(q, Put(requests, r))
  BY <1>1, <1>2, PutFits
<1>4. Moves(Put(requests, r), requests, {}, {r.part})
  BY <1>2, SendMoves DEF Core, Fitting
<1>5. QED
  BY <1>2, <1>3, <1>4 DEF Foot

-----------------------------------------------------------------------------
\* The picker.

LEMMA RepooledRight ==
  ASSUME Core, NEW q, Repooled(q), Picks
  PROVE  PageRight(q) /\ Holds(q, page)
<1>1. /\ q.kind = page.kind /\ q.quiz = page.quiz /\ q.step = page.step /\ q.furthest = page.furthest /\ q.form = page.form
      /\ q.saving = page.saving /\ q.list = page.list /\ q.load = page.load /\ q.panel = page.panel
      /\ q.review = page.review /\ DOMAIN q = PageFields
  BY DEF Repooled, Changes, PageFields
<1>2. Holds(q, page)
  BY <1>1 DEF Holds, Repooled
<1>3. PageShape(q) /\ StepRight(q) /\ ListedRight(q.list) /\ PickedRight(q.picker)
  BY <1>1 DEF Core, Fitting, PageRight, PageShape, StepRight, Repooled
<1>4. PartsRight(q)
  BY <1>1 DEF Core, Fitting, PageRight, PartsRight, Repooled, Picks
<1>5. QED
  BY <1>2, <1>3, <1>4 DEF PageRight

LEMMA PoolAsSteps ==
  ASSUME Core, Picks, NEW ids \in Seq(Questions), PoolAs(ids)
  PROVE  \E q : Show(q) /\ Repooled(q)
<1>1. PICK t : Show([page EXCEPT !.picker.pool = ids, !.picker.saved = FALSE, !.picker.touched = t])
               /\ (page.picker.saving => t)
  BY Zenon DEF PoolAs
<1> DEFINE q == [page EXCEPT !.picker.pool = ids, !.picker.saved = FALSE, !.picker.touched = t]
<1>2. PageShape(page) /\ PickedRight(page.picker)
  BY DEF Core, Fitting, PageRight
<1>3. Repooled(q)
  <2>1. /\ q.picker.pool = ids /\ q.picker.saved = FALSE /\ q.picker.touched = t /\ q.picker.open = page.picker.open
        /\ q.picker.saving = page.picker.saving /\ q.picker.items = page.picker.items
        /\ q.picker.selected = page.picker.selected /\ DOMAIN q.picker = DOMAIN page.picker
    BY <1>2 DEF PageShape, PageFields
  <2>2. Changes(q, page, {"picker"})
    BY <1>2 DEF PageShape, PageFields, Changes
  <2> HIDE DEF q
  <2>3. QED
    BY <1>1, <1>2, <2>1, <2>2 DEF Repooled, PickedRight, Picks
<1>4. QED
  BY <1>1, <1>3

LEMMA PoolEdited ==
  ASSUME Core,
         \/ \E q \in Questions : AddToPool(q) \/ RemoveFromPool(q)
         \/ ClearPool \/ (\E n \in Questions : Move(n)) \/ AddSelectedToPool
  PROVE  \E q : Picks /\ Show(q) /\ Repooled(q)
<1> DEFINE ids == page.picker.pool
<1>1. ids \in Seq(Questions) /\ page.picker.items \subseteq Questions /\ PageShape(page) /\ PickedRight(page.picker)
  BY DEF Core, Fitting, PageRight, PickedRight
<1>2. ASSUME NEW q \in Questions, AddToPool(q)
      PROVE  \E p : Picks /\ Show(p) /\ Repooled(p)
  <2>1. Picks /\ PoolAs(Append(ids, q)) /\ Append(ids, q) \in Seq(Questions)
    BY <1>1, <1>2 DEF AddToPool
  <2>2. QED
    BY <2>1, PoolAsSteps
<1>3. ASSUME NEW q \in Questions, RemoveFromPool(q)
      PROVE  \E p : Picks /\ Show(p) /\ Repooled(p)
  <2>1. PICK n \in DOMAIN ids : PoolAs(RemoveAt(ids, n))
    BY <1>3 DEF RemoveFromPool
  <2>2. Picks
    BY <1>3 DEF RemoveFromPool
  <2>3. n \in 1 .. Len(ids)
    BY <1>1
  <2> HIDE DEF ids
  <2>4. SubSeq(ids, 1, n - 1) \in Seq(Questions) /\ SubSeq(ids, n + 1, Len(ids)) \in Seq(Questions)
    BY <1>1, <2>3
  <2>5. RemoveAt(ids, n) \in Seq(Questions)
    BY <2>4 DEF RemoveAt
  <2>6. QED
    BY <2>1, <2>2, <2>5, PoolAsSteps
<1>4. CASE ClearPool
  <2>1. Picks /\ PoolAs(<<>>) /\ <<>> \in Seq(Questions)
    BY <1>4 DEF ClearPool
  <2>2. QED
    BY <2>1, PoolAsSteps
<1>5. ASSUME NEW n \in Questions, Move(n)
      PROVE  \E p : Picks /\ Show(p) /\ Repooled(p)
  <2> DEFINE moved == [ids EXCEPT ![n] = ids[n + 1], ![n + 1] = ids[n]]
  <2>1. Picks /\ PoolAs(moved) /\ n \in DOMAIN ids /\ n + 1 \in DOMAIN ids
    BY <1>5 DEF Move
  <2>2. moved \in Seq(Questions)
    <3>1. DOMAIN moved = 1 .. Len(ids) /\ Len(ids) \in Nat /\ DOMAIN ids = 1 .. Len(ids)
      BY <1>1
    <3>2. \A m \in 1 .. Len(ids) : ids[m] \in Questions
      BY <1>1
    <3>3. \A m \in 1 .. Len(ids) : moved[m] \in Questions
      BY <2>1, <3>1, <3>2
    <3>4. moved = [m \in 1 .. Len(ids) |-> moved[m]]
      BY <3>1
    <3> HIDE DEF moved, ids
    <3>5. moved \in [1 .. Len(ids) -> Questions]
      BY <3>3, <3>4
    <3>6. QED
      BY <3>1, <3>5
  <2>3. QED
    BY <2>1, <2>2, PoolAsSteps
<1>6. CASE AddSelectedToPool
  <2> DEFINE toAdd == (page.picker.items \intersect page.picker.selected) \ Pooled
  <2>1. Picks
    BY <1>6 DEF AddSelectedToPool
  <2>2. PICK more \in [1 .. Cardinality(toAdd) -> toAdd] : \E t :
          /\ page.picker.saving => t
          /\ Show([page EXCEPT !.picker.pool = @ \o more, !.picker.selected = {},
                               !.picker.saved = FALSE, !.picker.touched = t])
    BY <1>6, Zenon DEF AddSelectedToPool
  <2>3. PICK t : /\ page.picker.saving => t
                 /\ Show([page EXCEPT !.picker.pool = @ \o more, !.picker.selected = {},
                                      !.picker.saved = FALSE, !.picker.touched = t])
    BY <2>2
  <2>4. toAdd \subseteq Questions /\ Cardinality(toAdd) \in Nat
    <3>1. IsFiniteSet(Questions)
      BY StoreAssumption, FS_Interval DEF Questions
    <3>2. toAdd \subseteq Questions
      BY <1>1
    <3>3. QED
      BY <3>1, <3>2, FS_Subset, FS_CardinalityType
  <2>5. more \in Seq(Questions)
    <3> HIDE DEF toAdd
    <3>1. more \in [1 .. Cardinality(toAdd) -> Questions]
      BY <2>4
    <3>2. QED
      BY <2>4, <3>1
  <2> DEFINE q == [page EXCEPT !.picker.pool = @ \o more, !.picker.selected = {},
                               !.picker.saved = FALSE, !.picker.touched = t]
             longer == page.picker.pool \o more
  <2>6. longer \in Seq(Questions)
    BY <1>1, <2>5
  <2>7. /\ q.picker.pool = longer /\ q.picker.saved = FALSE /\ q.picker.open = page.picker.open
        /\ q.picker.saving = page.picker.saving /\ q.picker.items = page.picker.items
        /\ q.picker.selected = {} /\ q.picker.touched = t /\ DOMAIN q.picker = DOMAIN page.picker
    BY <1>1 DEF PageShape, PageFields
  <2>8. Changes(q, page, {"picker"})
    BY <1>1 DEF PageShape, PageFields, Changes
  <2> HIDE DEF q, longer
  <2>9. Repooled(q)
    BY <1>1, <2>1, <2>3, <2>6, <2>7, <2>8 DEF Repooled, PickedRight, Picks
  <2>10. QED
    BY <2>1, <2>3, <2>9 DEF q
<1>7. QED
  BY <1>2, <1>3, <1>4, <1>5, <1>6

LEMMA BrowsedRight ==
  ASSUME Core, NEW q, Browsed(q)
  PROVE  PageRight(q) /\ Holds(q, page)
<1>1. /\ q.kind = page.kind /\ q.quiz = page.quiz /\ q.step = page.step /\ q.furthest = page.furthest /\ q.form = page.form
      /\ q.saving = page.saving /\ q.list = page.list /\ q.load = page.load /\ q.panel = page.panel
      /\ q.review = page.review /\ DOMAIN q = PageFields
  BY DEF Browsed, Changes, PageFields
<1>2. Holds(q, page)
  BY <1>1 DEF Holds, Browsed
<1>3. PageShape(q) /\ StepRight(q) /\ ListedRight(q.list) /\ PickedRight(q.picker)
  BY <1>1 DEF Core, Fitting, PageRight, PageShape, StepRight, Browsed
<1>4. PartsRight(q)
  BY <1>1 DEF Core, Fitting, PageRight, PartsRight, Browsed
<1>5. QED
  BY <1>2, <1>3, <1>4 DEF PageRight

LEMMA SelectedSteps ==
  ASSUME Core, ToggleSelectAllOnPage \/ \E q \in Questions : ToggleBankSelected(q)
  PROVE  \E q : Show(q) /\ Browsed(q)
<1>1. PageShape(page) /\ PickedRight(page.picker)
  BY DEF Core, Fitting, PageRight
<1>2. PICK s \in SUBSET Questions : Show([page EXCEPT !.picker.selected = s])
  <2>1. ASSUME NEW q \in Questions, ToggleBankSelected(q)
        PROVE  \E s \in SUBSET Questions : Show([page EXCEPT !.picker.selected = s])
    <3> DEFINE s == IF q \in page.picker.selected THEN page.picker.selected \ {q} ELSE page.picker.selected \union {q}
    <3>1. Show([page EXCEPT !.picker.selected = s])
      BY <2>1 DEF ToggleBankSelected
    <3>2. s \in SUBSET Questions
      BY <1>1 DEF PickedRight
    <3>3. QED
      BY <3>1, <3>2
  <2>2. CASE ToggleSelectAllOnPage
    <3> DEFINE selectable == page.picker.items \ Pooled
               s == IF selectable \subseteq page.picker.selected THEN page.picker.selected \ selectable
                    ELSE page.picker.selected \union selectable
    <3>1. Show([page EXCEPT !.picker.selected = s])
      BY <2>2 DEF ToggleSelectAllOnPage
    <3>2. s \in SUBSET Questions
      BY <1>1 DEF PickedRight
    <3>3. QED
      BY <3>1, <3>2
  <2>3. QED
    BY <2>1, <2>2
<1> DEFINE q == [page EXCEPT !.picker.selected = s]
<1>3. /\ q.picker.pool = page.picker.pool /\ q.picker.saved = page.picker.saved /\ q.picker.open = page.picker.open
      /\ q.picker.saving = page.picker.saving /\ q.picker.items = page.picker.items
      /\ q.picker.selected = s /\ q.picker.touched = page.picker.touched /\ DOMAIN q.picker = DOMAIN page.picker
  BY <1>1 DEF PageShape, PageFields
<1>4. Changes(q, page, {"picker"})
  BY <1>1 DEF PageShape, PageFields, Changes
<1> HIDE DEF q
<1>5. Browsed(q)
  BY <1>1, <1>3, <1>4 DEF Browsed, PickedRight
<1>6. QED
  BY <1>2, <1>5 DEF q

\* The picker's query: the bank is read again.
LEMMA PickerAsSteps ==
  ASSUME Core, Picks, NEW k, PickerAs(k), DOMAIN k = DOMAIN page.picker, PickedRight(k), k.open = page.picker.open,
         k.saved = page.picker.saved, k.saving = page.picker.saving, k.touched = page.picker.touched,
         k.pool = page.picker.pool
  PROVE  /\ Fitting(page', requests') /\ Foot({"picker"}, {"bank"}, {"bank"}) /\ Quiet /\ Browsed(page')
<1> DEFINE q == [page EXCEPT !.picker = k]
<1>1. PageShape(page)
  BY DEF Core, Fitting, PageRight
<1>2. Browsed(q)
  BY <1>1 DEF PageShape, PageFields, Changes, Browsed
<1>3. PageRight(q) /\ Holds(q, page) /\ q.picker.open
  BY <1>2, BrowsedRight DEF Browsed, Picks
<1>4. CASE k.query = page.picker.query
  <2>1. Show(q)
    BY <1>4 DEF PickerAs
  <2>2. page' = q /\ requests' = requests /\ Quiet
    BY <2>1 DEF Show, Rest, Quiet
  <2> HIDE DEF q
  <2>3. Moves(requests, requests, {"bank"}, {"bank"}) /\ Fitting(q, requests)
    BY <1>3, StandStill, HoldsFits DEF Core
  <2>4. QED
    BY <1>2, <2>2, <2>3 DEF Foot, Browsed
<1>5. CASE k.query # page.picker.query
  <2> DEFINE left == Forget(requests, {"bank"})
             r == AskBank(k.query)
  <2>1. FreeSlots(left) # {} /\ page' = q /\ requests' = Put(left, r) /\ Quiet
    BY <1>5 DEF PickerAs, Rest, Quiet
  <2> HIDE DEF q
  <2>2. Fitting(q, left) /\ Moves(left, requests, {"bank"}, {"bank"})
    BY <1>3, HoldsFits, ForgetFits, ForgetMoves DEF Core
  <2>3. Fits(q, r) /\ r.part = "bank"
    BY <1>3, BankAskFits DEF Of
  <2>4. Alone(left, r)
    BY <2>3 DEF Alone
  <2> HIDE DEF left, r
  <2>5. Fitting(q, Put(left, r)) /\ Moves(Put(left, r), left, {}, {"bank"})
    BY <2>1, <2>2, <2>3, <2>4, PutFits, SendMoves DEF Fitting
  <2>6. Moves(Put(left, r), requests, {"bank"} \union {}, {"bank"} \union {"bank"})
    BY <2>2, <2>5, MovesTwice
  <2>7. Moves(Put(left, r), requests, {"bank"}, {"bank"})
    BY <2>6, MovesMore
  <2>8. QED
    BY <1>2, <2>1, <2>5, <2>7 DEF Foot, Browsed
<1>6. QED
  BY <1>4, <1>5

LEMMA PickerBrowses ==
  ASSUME Core, HandleBankSearchChange \/ BankSearchDebounced \/ GoToPage
  PROVE  /\ Fitting(page', requests') /\ Foot({"picker"}, {"bank"}, {"bank"}) /\ Quiet /\ Browsed(page')
<1>1. PageShape(page) /\ PickedRight(page.picker)
  BY DEF Core, Fitting, PageRight
<1>2. CASE HandleBankSearchChange
  <2>1. PICK s : Picks /\ PickerAs([page.picker EXCEPT !.search = s, !.query.page = 1, !.selected = {}])
    BY <1>2, Zenon DEF HandleBankSearchChange
  <2> DEFINE k == [page.picker EXCEPT !.search = s, !.query.page = 1, !.selected = {}]
  <2>2. /\ DOMAIN k = DOMAIN page.picker /\ k.open = page.picker.open /\ k.saved = page.picker.saved
        /\ k.saving = page.picker.saving /\ k.touched = page.picker.touched /\ k.pool = page.picker.pool
        /\ k.items = page.picker.items /\ k.selected = {}
    BY <1>1 DEF PageShape
  <2>3. Picks /\ PickerAs(k)
    BY <2>1
  <2> HIDE DEF k
  <2>4. PickedRight(k)
    BY <1>1, <2>2 DEF PickedRight
  <2>5. QED
    BY <2>2, <2>3, <2>4, PickerAsSteps
<1>3. CASE BankSearchDebounced
  <2> DEFINE k == [page.picker EXCEPT !.query.search = page.picker.search]
  <2>1. Picks /\ PickerAs(k)
    BY <1>3 DEF BankSearchDebounced
  <2>2. /\ DOMAIN k = DOMAIN page.picker /\ k.open = page.picker.open /\ k.saved = page.picker.saved
        /\ k.saving = page.picker.saving /\ k.touched = page.picker.touched /\ k.pool = page.picker.pool
        /\ k.items = page.picker.items /\ k.selected = page.picker.selected
    BY <1>1 DEF PageShape
  <2> HIDE DEF k
  <2>3. PickedRight(k)
    BY <1>1, <2>2 DEF PickedRight
  <2>4. QED
    BY <2>1, <2>2, <2>3, PickerAsSteps
<1>4. CASE GoToPage
  <2>1. PICK n : Picks /\ PickerAs([page.picker EXCEPT !.query.page = n, !.selected = {}])
    BY <1>4, Zenon DEF GoToPage
  <2> DEFINE k == [page.picker EXCEPT !.query.page = n, !.selected = {}]
  <2>2. /\ DOMAIN k = DOMAIN page.picker /\ k.open = page.picker.open /\ k.saved = page.picker.saved
        /\ k.saving = page.picker.saving /\ k.touched = page.picker.touched /\ k.pool = page.picker.pool
        /\ k.items = page.picker.items /\ k.selected = {}
    BY <1>1 DEF PageShape
  <2>3. Picks /\ PickerAs(k)
    BY <2>1
  <2> HIDE DEF k
  <2>4. PickedRight(k)
    BY <1>1, <2>2 DEF PickedRight
  <2>5. QED
    BY <2>2, <2>3, <2>4, PickerAsSteps
<1>5. QED
  BY <1>2, <1>3, <1>4

LEMMA HandleSaveSteps ==
  ASSUME Core, HandleSave
  PROVE  /\ Fitting(page', requests') /\ Foot({"picker"}, {}, {"picker"}) /\ Quiet /\ Saves(page')
         /\ ~page.picker.saving /\ Picks /\ FreeSlots(requests) # {}
         /\ \E r : /\ requests' = Put(requests, r) /\ Of(r, "pool", page.quiz, "picker") /\ r.stage = "sent" /\ r.heard
                   /\ r.ids = page.picker.pool
<1>1. PageShape(page) /\ PickedRight(page.picker)
  BY DEF Core, Fitting, PageRight
<1> DEFINE r == [Ask("pool", page.quiz, "picker") EXCEPT !.ids = page.picker.pool]
<1>2. PICK t : /\ ~t => ~Crossing(page.quiz) /\ ~(page.picker.touched /\ page.picker.saved)
               /\ Send([page EXCEPT !.picker.saving = TRUE, !.picker.touched = t], r)
  BY Zenon DEF HandleSave
<1> DEFINE q == [page EXCEPT !.picker.saving = TRUE, !.picker.touched = t]
<1>3. Picks /\ ~page.picker.saving
  BY DEF HandleSave
<1>4. /\ Sent(r) /\ Of(r, "pool", page.quiz, "picker") /\ r.ids = page.picker.pool
  BY AskIs DEF Sent, Of, Fields, NoRequest, PageParts, StepParts
<1>5. Send(q, r)
  BY <1>2
<1>6. /\ q.picker.pool = page.picker.pool /\ q.picker.saved = page.picker.saved /\ q.picker.open = page.picker.open
      /\ q.picker.saving = TRUE /\ q.picker.items = page.picker.items
      /\ q.picker.selected = page.picker.selected /\ q.picker.touched = t /\ DOMAIN q.picker = DOMAIN page.picker
  BY <1>1 DEF PageShape, PageFields
<1>7. Changes(q, page, {"picker"})
  BY <1>1 DEF PageShape, PageFields, Changes
<1> HIDE DEF q, r
<1>8. Saves(q)
  BY <1>1, <1>2, <1>3, <1>6, <1>7 DEF Saves, PickedRight, Picks
<1>9. /\ q.kind = page.kind /\ q.quiz = page.quiz /\ q.step = page.step /\ q.furthest = page.furthest /\ q.form = page.form
      /\ q.saving = page.saving /\ q.list = page.list /\ q.load = page.load /\ q.panel = page.panel
      /\ q.review = page.review /\ DOMAIN q = PageFields
  BY <1>7 DEF Changes, PageFields
<1>10. Holds(q, page)
  BY <1>8, <1>9 DEF Holds, Saves
<1>11. PageRight(q)
  BY <1>8, <1>9, <1>3 DEF Core, Fitting, PageRight, PageShape, StepRight, Saves, PartsRight, Picks
<1>12. page.quiz # 0 /\ Made(page.quiz)
  BY <1>3 DEF Picks, Core, Fitting, PageRight, PartsRight, StepRight
<1>13. Fits(q, r)
  BY <1>4, <1>6, <1>9, <1>12, AsksSorted, SentFits DEF OfPage, Of, Asks
<1>14. Alone(requests, r)
  BY <1>3, <1>4 DEF Core, Fitting, Fits, OfPage, Alone, Of
<1>15. /\ Fitting(page', requests') /\ Foot({"picker"}, {}, {r.part}) /\ Quiet /\ page' = q
       /\ requests' = Put(requests, r) /\ FreeSlots(requests) # {}
  BY <1>5, <1>7, <1>10, <1>11, <1>13, <1>14, SendSteps
<1>16. r.part = "picker" /\ r.stage = "sent" /\ r.heard
  BY <1>4 DEF Of, Sent
<1>17. QED
  BY <1>3, <1>4, <1>8, <1>15, <1>16 DEF Saves

-----------------------------------------------------------------------------
\* The list, and the form.

LEMMA ListOnlyRight ==
  ASSUME Core, NEW q, Changes(q, page, {"list"}), DOMAIN q.list = DOMAIN page.list, ListedRight(q.list)
  PROVE  PageRight(q) /\ Holds(q, page)
<1>1. /\ q.kind = page.kind /\ q.quiz = page.quiz /\ q.step = page.step /\ q.furthest = page.furthest /\ q.form = page.form
      /\ q.saving = page.saving /\ q.picker = page.picker /\ q.load = page.load /\ q.panel = page.panel
      /\ q.review = page.review /\ DOMAIN q = PageFields
  BY DEF Changes, PageFields
<1>2. Holds(q, page)
  BY <1>1 DEF Holds
<1>3. PageShape(q) /\ StepRight(q) /\ PickedRight(q.picker)
  BY <1>1 DEF Core, Fitting, PageRight, PageShape, StepRight
<1>4. PartsRight(q)
  BY <1>1 DEF Core, Fitting, PageRight, PartsRight
<1>5. QED
  BY <1>2, <1>3, <1>4 DEF PageRight

LEMMA ListAsSteps ==
  ASSUME Core, InList, NEW l, ListAs(l), Relisted(l)
  PROVE  /\ Fitting(page', requests') /\ Foot({"list"}, {"list"}, {"list"}) /\ Quiet
         /\ page'.list.query = l.query /\ page'.list.shown = page.list.shown
         /\ \/ requests' = requests /\ page'.list = l /\ l.query = page.list.query
            \/ AskedAnew(page')
<1>1. PageShape(page)
  BY DEF Core, Fitting, PageRight
<1>2. CASE l.query = page.list.query
  <2> DEFINE q == [page EXCEPT !.list = l]
  <2>1. page' = q /\ requests' = requests /\ Quiet
    BY <1>2 DEF ListAs, Show, Rest, Quiet
  <2>2. Changes(q, page, {"list"}) /\ q.list = l
    BY <1>1 DEF PageShape, PageFields, Changes
  <2> HIDE DEF q
  <2>3. PageRight(q) /\ Holds(q, page)
    BY <2>2, ListOnlyRight DEF Relisted
  <2>4. Fitting(q, requests) /\ Moves(requests, requests, {"list"}, {"list"})
    BY <2>3, HoldsFits, StandStill DEF Core
  <2>5. QED
    BY <1>2, <2>1, <2>2, <2>4 DEF Foot, Relisted
<1>3. CASE l.query # page.list.query
  <2> DEFINE left == Forget(requests, {"list"})
             r == AskList(l.query, "list")
  <2>1. PICK s : /\ page.list.stray \/ Waiting("listAction") \/ Waiting("reload") => s
                 /\ l.stray = page.list.stray
                 /\ page' = [page EXCEPT !.list = [l EXCEPT !.loading = TRUE, !.error = FALSE, !.stray = s]]
    <3>1. PICK s : /\ l.stray \/ Waiting("listAction") \/ Waiting("reload") => s
                   /\ page' = [page EXCEPT !.list = [l EXCEPT !.loading = TRUE, !.error = FALSE, !.stray = s]]
      BY <1>3, Zenon DEF ListAs
    <3>2. QED
      BY <3>1 DEF Relisted
  <2>2. FreeSlots(left) # {} /\ requests' = Put(left, r) /\ Quiet
    BY <1>3 DEF ListAs, Rest, Quiet
  <2> DEFINE m == [l EXCEPT !.loading = TRUE, !.error = FALSE, !.stray = s]
             q == [page EXCEPT !.list = m]
  <2>3. /\ DOMAIN m = DOMAIN page.list /\ m.rows = l.rows /\ m.query = l.query /\ m.loading = TRUE /\ m.stray = s
        /\ m.shown = l.shown
    BY <1>1 DEF Relisted, PageShape
  <2>4. page' = q
    BY <2>1
  <2> HIDE DEF m
  <2>5. Changes(q, page, {"list"}) /\ q.list = m
    BY <1>1 DEF PageShape, PageFields, Changes
  <2> HIDE DEF q
  <2>6. ListedRight(m)
    BY <2>3 DEF Relisted, ListedRight
  <2>7. PageRight(q) /\ Holds(q, page)
    BY <2>3, <2>5, <2>6, ListOnlyRight
  <2>8. Fitting(q, left) /\ Moves(left, requests, {"list"}, {"list"})
    BY <2>7, HoldsFits, ForgetFits, ForgetMoves DEF Core
  <2>9. Fits(q, r) /\ r.part = "list"
    BY <2>7, ListAskFits DEF Holds, InList, Of
  <2>10. Alone(left, r)
    BY <2>9 DEF Alone
  <2> HIDE DEF left, r
  <2>11. Fitting(q, Put(left, r)) /\ Moves(Put(left, r), left, {}, {"list"})
    BY <2>2, <2>8, <2>9, <2>10, PutFits, SendMoves DEF Fitting
  <2>12. Moves(Put(left, r), requests, {"list"} \union {}, {"list"} \union {"list"})
    BY <2>8, <2>11, MovesTwice
  <2>13. Moves(Put(left, r), requests, {"list"}, {"list"})
    BY <2>12, MovesMore
  <2>14. AskedAnew(page')
    BY <2>1, <2>2, <2>3, <2>4, <2>5 DEF AskedAnew, left, r
  <2>15. QED
    BY <2>2, <2>3, <2>4, <2>5, <2>11, <2>13, <2>14 DEF Foot, Relisted
<1>4. QED
  BY <1>2, <1>3

LEMMA ListQueried ==
  ASSUME Core,
         \/ \E status \in {"all", "draft", "published", "scheduled", "archived"} : UpdateFilter(status)
         \/ HandleSearchChange \/ ClearFilters \/ TurnListPage \/ SearchDebounced
  PROVE  /\ Fitting(page', requests') /\ Foot({"list"}, {"list"}, {"list"}) /\ Quiet
         /\ page'.list.shown = page.list.shown
         /\ \/ /\ requests' = requests /\ page'.list.query = page.list.query /\ page'.list.loading = page.list.loading
               /\ page'.list.error = page.list.error /\ page'.list.stray = page.list.stray
            \/ AskedAnew(page')
<1>1. PageShape(page) /\ ListedRight(page.list)
  BY DEF Core, Fitting, PageRight
<1>2. PICK l : InList /\ ListAs(l) /\ Relisted(l)
  <2>1. ASSUME NEW status, UpdateFilter(status)
        PROVE  \E l : InList /\ ListAs(l) /\ Relisted(l)
    <3> DEFINE l == [page.list EXCEPT !.query.status = status, !.query.page = 1]
    <3>1. Relisted(l)
      BY <1>1 DEF Relisted, PageShape, ListedRight
    <3>2. InList /\ ListAs(l)
      BY <2>1 DEF UpdateFilter
    <3>3. QED
      BY <3>1, <3>2
  <2>2. CASE HandleSearchChange
    <3>1. PICK s : InList /\ ListAs([page.list EXCEPT !.search = s, !.query.page = 1])
      BY <2>2, Zenon DEF HandleSearchChange
    <3>2. Relisted([page.list EXCEPT !.search = s, !.query.page = 1])
      BY <1>1 DEF Relisted, PageShape, ListedRight
    <3>3. QED
      BY <3>1, <3>2
  <2>3. CASE ClearFilters
    <3> DEFINE l == [page.list EXCEPT !.search = FALSE, !.query.status = "all", !.query.page = 1]
    <3>1. Relisted(l)
      BY <1>1 DEF Relisted, PageShape, ListedRight
    <3>2. InList /\ ListAs(l)
      BY <2>3 DEF ClearFilters
    <3>3. QED
      BY <3>1, <3>2
  <2>4. CASE TurnListPage
    <3>1. PICK n : InList /\ ListAs([page.list EXCEPT !.query.page = n])
      BY <2>4, Zenon DEF TurnListPage
    <3>2. Relisted([page.list EXCEPT !.query.page = n])
      BY <1>1 DEF Relisted, PageShape, ListedRight
    <3>3. QED
      BY <3>1, <3>2
  <2>5. CASE SearchDebounced
    <3> DEFINE l == [page.list EXCEPT !.query.search = page.list.search]
    <3>1. Relisted(l)
      BY <1>1 DEF Relisted, PageShape, ListedRight
    <3>2. InList /\ ListAs(l)
      BY <2>5 DEF SearchDebounced
    <3>3. QED
      BY <3>1, <3>2
  <2>6. QED
    BY <2>1, <2>2, <2>3, <2>4, <2>5
<1>3. QED
  BY <1>2, ListAsSteps DEF Relisted

LEMMA ActionsAre == \A status : Actions(status) \subseteq LifeCycle
BY DEF Actions, LifeCycle

LEMMA StaysAsItIs ==
  ASSUME Core
  PROVE  PageRight(page) /\ Holds(page, page) /\ \A fields : Changes(page, page, fields)
BY DEF Core, Fitting, PageRight, PageShape, Holds, Changes

LEMMA HandleActionSteps ==
  ASSUME Core, NEW row, NEW action, HandleAction(row, action)
  PROVE  /\ Fitting(page', requests') /\ Foot({}, {}, {"listAction"}) /\ Quiet /\ page' = page
         /\ FreeSlots(requests) # {}
         /\ \E r : /\ requests' = Put(requests, r) /\ Of(r, action, row.quiz, "listAction") /\ r.heard
                   /\ r.query = page.list.query
<1> DEFINE r == [Ask(action, row.quiz, "listAction") EXCEPT !.query = page.list.query]
<1>1. Send(page, r) /\ InList /\ row \in page.list.rows /\ action \in LifeCycle
  BY ActionsAre DEF HandleAction
<1>2. /\ Sent(r) /\ Of(r, action, row.quiz, "listAction") /\ r.query = page.list.query
  BY AskIs DEF Sent, Of, Fields, NoRequest, PageParts, StepParts
<1> HIDE DEF r
<1>3. Made(row.quiz)
  BY <1>1 DEF Core, Fitting, PageRight, ListedRight
<1>4. Sorted(r) /\ r.kind # "create"
  BY <1>1, <1>2, AsksSorted DEF Asks, Of
<1>5. OfPage(page, r)
  BY <1>1, <1>2 DEF OfPage, Of, InList
<1>6. Fits(page, r)
  BY <1>1, <1>2, <1>3, <1>4, <1>5, SentFits DEF LifeCycle, Of
<1>7. Alone(requests, r)
  BY <1>2 DEF Alone, Of
<1>8. /\ Fitting(page', requests') /\ Foot({}, {}, {r.part}) /\ Quiet /\ page' = page
      /\ requests' = Put(requests, r) /\ FreeSlots(requests) # {}
  BY <1>1, <1>6, <1>7, StaysAsItIs, SendSteps
<1>9. QED
  BY <1>2, <1>8 DEF Of, Sent

LEMMA FillInSteps ==
  ASSUME Core, FillIn
  PROVE  /\ Fitting(page', requests') /\ Foot({"form", "dirty"}, {}, {}) /\ Quiet /\ page'.dirty
         /\ requests' = requests
<1>1. PICK f \in [title : BOOLEAN, settings : Settings] : Show([page EXCEPT !.form = f, !.dirty = TRUE])
  BY Zenon DEF FillIn
<1> DEFINE q == [page EXCEPT !.form = f, !.dirty = TRUE]
<1>2. PageShape(page) /\ f.settings \in Settings
  BY DEF Core, Fitting, PageRight
<1>3. Changes(q, page, {"form", "dirty"}) /\ q.form = f /\ q.dirty
  BY <1>2 DEF PageShape, PageFields, Changes
<1>4. Show(q)
  BY <1>1
<1> HIDE DEF q
<1>5. /\ q.kind = page.kind /\ q.quiz = page.quiz /\ q.step = page.step /\ q.furthest = page.furthest
      /\ q.list = page.list /\ q.saving = page.saving /\ q.picker = page.picker /\ q.load = page.load
      /\ q.panel = page.panel /\ q.review = page.review /\ DOMAIN q = PageFields
  BY <1>3 DEF Changes, PageFields
<1>6. PageRight(q) /\ Holds(q, page)
  BY <1>5, <1>2, <1>3 DEF Holds, Core, Fitting, PageRight, PageShape, StepRight, PartsRight
<1>7. QED
  BY <1>3, <1>4, <1>6, ShowSteps

-----------------------------------------------------------------------------
\* The steps of the wizard.

LEMMA EnterStepMoves ==
  ASSUME NEW p, NEW rs, Fitting(p, rs), NEW id, NEW step, NEW next, next = ReadsOfStep(Forget(rs, StepParts), id, step),
         FreeSlots(Forget(rs, StepParts)) # {},
         step = 5 => FreeSlots(Put(Forget(rs, StepParts), Ask("readQuiz", id, "publishLoad"))) # {}
  PROVE  Moves(next, rs, StepParts, StepParts)
<1> DEFINE left == Forget(rs, StepParts)
           load == Ask("readQuiz", id, "publishLoad")
           other == Ask("readAssigned", id, "publishLoad")
           some(part) == Ask("readPool", id, part)
<1>1. Moves(left, rs, StepParts, StepParts) /\ Fitting(p, left)
  BY ForgetMoves, ForgetFits
<1>2. load.part \in StepParts /\ other.part \in StepParts /\ \A part \in {"pool", "review"} : some(part).part \in StepParts
  BY AskIs DEF StepParts
<1>3. \/ next = left
      \/ next = Put(left, some("pool")) \/ next = Put(left, some("review"))
      \/ step = 5 /\ next = Put(Put(left, load), other)
  BY DEF ReadsOfStep
<1>4. FreeSlots(left) # {} /\ (step = 5 => FreeSlots(Put(left, load)) # {})
  OBVIOUS
<1> HIDE DEF left, load, other, some
<1>5. ASSUME NEW r, r.part \in StepParts
      PROVE  Moves(Put(left, r), rs, StepParts, StepParts)
  <2>1. Moves(Put(left, r), left, {}, {r.part})
    BY <1>1, <1>4, SendMoves DEF Fitting
  <2>2. Moves(Put(left, r), rs, StepParts \union {}, StepParts \union {r.part})
    BY <1>1, <2>1, MovesTwice
  <2>3. QED
    BY <1>5, <2>2, MovesMore
<1>6. ASSUME step = 5
      PROVE  Moves(Put(Put(left, load), other), rs, StepParts, StepParts)
  <2>1. Moves(Put(left, load), rs, StepParts, StepParts)
    BY <1>2, <1>5
  <2>2. Moves(Put(Put(left, load), other), Put(left, load), {}, {other.part})
    BY <1>4, <1>6, <2>1, SendMoves DEF Moves
  <2>3. Moves(Put(Put(left, load), other), rs, StepParts \union {}, StepParts \union {other.part})
    BY <2>1, <2>2, MovesTwice
  <2>4. QED
    BY <1>2, <2>3, MovesMore
<1>7. QED
  BY <1>1, <1>2, <1>3, <1>5, <1>6

LEMMA StepChosen ==
  ASSUME Core, (\E step \in 1 .. 5 : GoToStep(step)) \/ Advance
  PROVE  /\ Quiet /\ page.kind = "wizard" /\ page.quiz # 0
         /\ \E step \in 1 .. 5 : step # page.step /\ EnterStep(page, requests, step)
<1>1. page.step \in 1 .. page.furthest /\ page.furthest \in 1 .. 5
      /\ (page.kind = "wizard" /\ page.quiz = 0 => page.furthest = 1)
  BY DEF Core, Fitting, PageRight, StepRight
<1>2. ASSUME NEW step \in 1 .. 5, GoToStep(step)
      PROVE  page.kind = "wizard" /\ page.quiz # 0 /\ step # page.step /\ EnterStep(page, requests, step) /\ Quiet
  BY <1>1, <1>2 DEF GoToStep, Rest, Quiet
<1>3. CASE Advance
  BY <1>3, <1>1 DEF Advance, InWizard, Rest, Quiet
<1>4. QED
  BY <1>2, <1>3

LEMMA EnteredSteps ==
  ASSUME NEW p, NEW rs, Fitting(p, rs), p.kind = "wizard", p.quiz # 0, NEW step \in 1 .. 5, EnterStep(p, rs, step),
         step # p.step
  PROVE  /\ Fitting(page', requests') /\ Entered(p, rs) /\ Changes(page', p, StepFields \union {"error", "released"})
         /\ Moves(requests', rs, StepParts, StepParts)
<1>1. /\ Fitting(page', requests') /\ AtItsStep(page', p, step)
      /\ requests' = ReadsOfStep(Forget(rs, StepParts), p.quiz, step)
      /\ FreeSlots(Forget(rs, StepParts)) # {}
      /\ step = 5 => FreeSlots(Put(Forget(rs, StepParts), Ask("readQuiz", p.quiz, "publishLoad"))) # {}
  BY EnterStepFits
<1>2. Moves(requests', rs, StepParts, StepParts)
  BY <1>1, EnterStepMoves
<1>3. Changes(page', p, StepFields \union {"error", "released"})
  BY <1>1 DEF AtItsStep, Changes, PageFields, StepFields
<1>4. Entered(p, rs)
  BY <1>1 DEF Entered
<1>5. QED
  BY <1>1, <1>2, <1>3, <1>4

LEMMA StepSteps ==
  ASSUME Core, (\E step \in 1 .. 5 : GoToStep(step)) \/ Advance
  PROVE  /\ Fitting(page', requests') /\ Entered(page, requests) /\ Quiet /\ page.kind = "wizard" /\ page.quiz # 0
         /\ Foot(StepFields \union {"error", "released"}, StepParts, StepParts)
BY StepChosen, EnteredSteps DEF Core, Foot

-----------------------------------------------------------------------------
\* Saving the form.

LEMMA SaveRequestIs ==
  ASSUME NEW part \in {"save", "draft"}
  PROVE  SaveOf(SaveRequest(part), part)
<1> DEFINE kind == IF page.quiz = 0 THEN "create" ELSE "update"
           a == Ask(kind, page.quiz, part)
<1>1. SaveRequest(part) = [a EXCEPT !.settings = page.form.settings, !.total = page.step]
  BY DEF SaveRequest
<1>2. Sent(a) /\ Of(a, kind, page.quiz, part)
  BY AskIs DEF Sent, Of, PageParts, StepParts
<1> HIDE DEF kind, a
<1>3. Sent(SaveRequest(part)) /\ Of(SaveRequest(part), kind, page.quiz, part)
      /\ SaveRequest(part).settings = page.form.settings /\ SaveRequest(part).total = page.step
  BY <1>1, <1>2 DEF Sent, Of, Fields, NoRequest
<1>4. QED
  BY <1>3 DEF SaveOf, kind

LEMMA SaveFits ==
  ASSUME Core, NEW q, q.kind = page.kind, q.quiz = page.quiz, q.saving, q.kind \in {"wizard", "edit"},
         q.kind = "wizard" => page.step \in {1, 3}, NEW part \in {"save", "draft"}, NEW r, SaveOf(r, part)
  PROVE  Fits(q, r)
<1>1. page.quiz = 0 \/ Made(page.quiz)
  BY DEF Core, Fitting, PageRight, StepRight
<1>2. page.kind = "edit" => page.quiz # 0
  BY DEF Core, Fitting, PageRight, StepRight
<1>3. Sorted(r)
  BY DEF Sorted, SaveOf, Sent, Of
<1>4. OfPage(q, r)
  BY <1>2 DEF OfPage, SaveOf, Of
<1>5. r.quiz = page.quiz /\ (r.kind = "create" => r.quiz = 0) /\ r.kind # "assign"
  BY DEF SaveOf, Of
<1>6. QED
  BY <1>1, <1>3, <1>4, <1>5, SentFits DEF SaveOf

LEMMA PersistSteps ==
  ASSUME Core, NEW part \in {"save", "draft"}, Persist(part), page.kind = "wizard", page.step \in {1, 3},
         part = "save" => ~page.saving
  PROVE  /\ Fitting(page', requests') /\ Foot({"saving", "dirty", "asked"}, {}, {part}) /\ Persisted(part)
         /\ page'.dirty = (page.dirty /\ lost)
         /\ (page.asked \/ page.quiz = 0) => page'.asked
         /\ UNCHANGED <<storeOnly, elsewhere, mishaps, lost, opened, made>>
         /\ resent' = (resent \/ (page.asked /\ page.quiz = 0))
<1> DEFINE r == SaveRequest(part)
<1>1. PICK d, a : /\ page' = [page EXCEPT !.saving = TRUE, !.dirty = d, !.asked = a]
                  /\ d = (page.dirty /\ lost) /\ (page.asked \/ page.quiz = 0 => a)
  BY Zenon DEF Persist
<1>2. /\ FreeSlots(requests) # {} /\ requests' = Put(requests, r)
      /\ UNCHANGED <<storeOnly, elsewhere, mishaps, lost, opened, made>>
      /\ resent' = (resent \/ (page.asked /\ page.quiz = 0))
  BY DEF Persist
<1> DEFINE q == [page EXCEPT !.saving = TRUE, !.dirty = d, !.asked = a]
<1>3. SaveOf(r, part)
  BY SaveRequestIs
<1> HIDE DEF r
<1>4. Changes(q, page, {"saving", "dirty", "asked"}) /\ q.saving /\ q.dirty = d /\ q.asked = a
  BY DEF Core, Fitting, PageRight, PageShape, PageFields, Changes
<1>5. page' = q
  BY <1>1
<1> HIDE DEF q
<1>6. /\ q.kind = page.kind /\ q.quiz = page.quiz /\ q.step = page.step /\ q.furthest = page.furthest
      /\ q.list = page.list /\ q.form = page.form /\ q.picker = page.picker /\ q.load = page.load
      /\ q.panel = page.panel /\ q.review = page.review /\ DOMAIN q = PageFields
  BY <1>4 DEF Changes, PageFields
<1>7. PageRight(q) /\ Holds(q, page)
  BY <1>4, <1>6 DEF Holds, Core, Fitting, PageRight, PageShape, StepRight, PartsRight
<1>8. Fits(q, r)
  BY <1>3, <1>4, <1>6, SaveFits
<1>9. Alone(requests, r)
  BY <1>3 DEF Core, Fitting, Fits, OfPage, SaveOf, Of, Alone
<1>10. Fitting(q, Put(requests, r))
  BY <1>2, <1>7, <1>8, <1>9, HoldsFits, PutFits DEF Core
<1>11. Moves(Put(requests, r), requests, {}, {part})
  BY <1>3, <1>2, SendMoves DEF SaveOf, Of, Core, Fitting
<1>12. Persisted(part)
  BY <1>2, <1>3, <1>4, <1>5 DEF Persisted
<1>13. QED
  BY <1>1, <1>2, <1>4, <1>5, <1>10, <1>11, <1>12 DEF Foot

-----------------------------------------------------------------------------
\* The page turns, whatever it waits for.

LEMMA TurnToSteps ==
  ASSUME Core, NEW rs, NEW p, Fitting(p, rs), NEW kind \in {"list", "wizard", "edit", "preview", "results"},
         NEW id, id = 0 \/ Made(id), kind = "wizard" => id = 0, TurnTo(kind, id, rs)
  PROVE  /\ Fitting(page', requests') /\ Untouched(page') /\ TurnedTo(page', kind, id)
         /\ \/ /\ kind = "list" /\ requests' = Put(Forget(rs, PageParts), AskList(AllQuizzes, "list"))
               /\ FreeSlots(Forget(rs, PageParts)) # {}
            \/ /\ kind # "list" /\ requests' = Put(Forget(rs, PageParts), AskBank(AllQuizzes))
               /\ FreeSlots(Forget(rs, PageParts)) # {}
            \/ kind # "list" /\ requests' = Forget(rs, PageParts)
<1>1. Fitting(page', requests') /\ Untouched(page') /\ TurnedTo(page', kind, id)
  BY TurnToFits DEF Core
<1>2. CASE kind = "list"
  BY <1>1, <1>2 DEF TurnTo
<1>3. CASE kind = "edit" /\ Live(id)
  BY <1>1, <1>3 DEF TurnTo
<1>4. CASE kind # "list" /\ ~(kind = "edit" /\ Live(id))
  BY <1>1, <1>4 DEF TurnTo
<1>5. QED
  BY <1>2, <1>3, <1>4

LEMMA TurnsSomewhere ==
  ASSUME Core, NEW rs, NEW p, Fitting(p, rs), NEW kind \in {"list", "wizard", "edit", "preview", "results"},
         NEW id, id = 0 \/ Made(id), kind = "wizard" => id = 0, TurnTo(kind, id, rs)
  PROVE  Fitting(page', requests') /\ TurnedSomewhere(rs) /\ TurnedTo(page', kind, id)
<1> DEFINE left == Forget(rs, PageParts)
<1>1. /\ Fitting(page', requests') /\ Untouched(page') /\ TurnedTo(page', kind, id)
      /\ \/ requests' = Put(left, AskList(AllQuizzes, "list")) /\ FreeSlots(left) # {}
         \/ requests' = Put(left, AskBank(AllQuizzes)) /\ FreeSlots(left) # {}
         \/ requests' = left
  BY TurnToSteps
<1>2. left = [i \in Slots |-> left[i]] /\ Fitting(p, left)
  BY ForgetFits DEF Forget
<1>3. /\ requests' = [i \in Slots |-> requests'[i]]
      /\ \/ \E x \in Slots : /\ left[x] = NoRequest /\ FirstAsk(requests'[x])
                             /\ \A j \in Slots : j # x => requests'[j] = left[j]
         \/ \A j \in Slots : requests'[j] = left[j]
  <2>1. ASSUME NEW r, FirstAsk(r), requests' = Put(left, r), FreeSlots(left) # {}
        PROVE  /\ requests' = [i \in Slots |-> requests'[i]]
               /\ \E x \in Slots : /\ left[x] = NoRequest /\ FirstAsk(requests'[x])
                                   /\ \A j \in Slots : j # x => requests'[j] = left[j]
    <3> HIDE DEF left
    <3> QED BY <1>2, <2>1, PutFills
  <2>2. CASE requests' = left
    BY <1>2, <2>2
  <2>3. QED
    BY <1>1, <2>1, <2>2 DEF FirstAsk
<1>4. \A j \in Slots : left[j].heard => left[j].part # "list"
  BY AllForgotten DEF TurnsPage
<1>5. ASSUME NEW r, FirstAsk(r), r.part = "list"
      PROVE  r.query = AllQuizzes
  BY <1>5, AskIs DEF FirstAsk, AskList, AskBank, NoRequest, Fields
<1> HIDE DEF left
<1>6. \A j \in Slots : requests'[j].part = "list" /\ requests'[j].heard => requests'[j].query = AllQuizzes
  BY <1>3, <1>4, <1>5
<1>7. id \in Quizzes \union {0}
  BY DEF Made
<1>8. QED
  BY <1>1, <1>3, <1>6, <1>7 DEF TurnedSomewhere, Turns, left

LEMMA TurnedKind ==
  ASSUME NEW p, NEW kind, NEW id, TurnedTo(p, kind, id)
  PROVE  p.kind \in {kind, "missing"} /\ (kind \in {"list", "wizard"} => p.kind = kind)
<1>1. NewPage("missing", 0).kind = "missing"
  BY NewPageIs
<1>2. CASE p = NewPage("missing", 0) /\ kind \notin {"list", "wizard"}
  BY <1>1, <1>2
<1>3. CASE p.kind = kind
  BY <1>3
<1>4. QED
  BY <1>2, <1>3 DEF TurnedTo

LEMMA OpenSteps ==
  ASSUME Core, OpensOne
  PROVE  /\ Fitting(page', requests') /\ TurnedSomewhere(requests)
         /\ UNCHANGED <<storeOnly, elsewhere, mishaps, lost, resent, made>>
         /\ opened' = IF page'.kind = "wizard" THEN opened + 1 ELSE opened
<1>1. PICK kind \in {"list", "wizard", "edit", "preview", "results"}, id \in Quizzes \union {0} :
        Open(kind, id) /\ (id = 0 \/ Made(id)) /\ (kind = "wizard" => id = 0)
  <2>1. CASE Done
    BY <2>1 DEF Done, Core, Fitting, PageRight, StepRight, Made
  <2>2. CASE OpenListed
    <3>1. CASE Open("list", 0) \/ Open("wizard", 0)
      BY <3>1
    <3>2. CASE \E row \in page.list.rows : Open("edit", row.quiz) \/ Open("preview", row.quiz) \/ Open("results", row.quiz)
      <4>1. PICK row \in page.list.rows : Open("edit", row.quiz) \/ Open("preview", row.quiz) \/ Open("results", row.quiz)
        BY <3>2
      <4>2. Made(row.quiz) /\ row.quiz \in Quizzes
        BY DEF Core, Fitting, PageRight, ListedRight, Made
      <4>3. QED
        BY <4>1, <4>2
    <3>3. QED
      BY <2>2, <3>1, <3>2 DEF OpenListed
  <2>3. QED
    BY <2>1, <2>2 DEF OpensOne
<1>2. /\ TurnTo(kind, id, requests) /\ UNCHANGED <<storeOnly, elsewhere, mishaps, lost, resent, made>>
      /\ opened' = IF kind = "wizard" THEN opened + 1 ELSE opened
  BY <1>1 DEF Open
<1>3. Fitting(page', requests') /\ TurnedSomewhere(requests) /\ TurnedTo(page', kind, id)
  BY <1>1, <1>2, TurnsSomewhere DEF Core
<1>4. page'.kind = "wizard" <=> kind = "wizard"
  BY <1>3, TurnedKind
<1>5. QED
  BY <1>2, <1>3, <1>4

LEMMA LeaveSteps ==
  ASSUME Core, Leaves
  PROVE  Fitting(page', requests') /\ TurnedSomewhere(requests) /\ page'.kind # "wizard" /\ Quiet
<1> DEFINE kind == IF page.quiz = 0 THEN "list" ELSE "edit"
<1>1. TurnTo(kind, page.quiz, requests) /\ Quiet
  BY Zenon DEF Leaves, HandleSaveDraft, Rest, Quiet
<1>2. page.quiz = 0 \/ Made(page.quiz)
  BY DEF Core, Fitting, PageRight, StepRight
<1>3. kind \in {"list", "edit"}
  OBVIOUS
<1> HIDE DEF kind
<1>4. Fitting(page', requests') /\ TurnedSomewhere(requests) /\ TurnedTo(page', kind, page.quiz)
  BY <1>1, <1>2, <1>3, TurnsSomewhere DEF Core
<1>5. page'.kind # "wizard"
  BY <1>4, TurnedKind, <1>3
<1>6. QED
  BY <1>1, <1>4, <1>5

-----------------------------------------------------------------------------
\* Commands.

LEMMA ContinueSteps ==
  ASSUME Core, HandleContinue \/ (HandleSaveDraft /\ HasForm /\ page.form.title)
  PROVE  PersistsAs("save") \/ PersistsAs("draft")
<1>1. CASE HandleContinue
  BY <1>1, PersistSteps DEF HandleContinue, InWizard, PersistsAs
<1>2. CASE HandleSaveDraft /\ HasForm /\ page.form.title
  BY <1>2, PersistSteps DEF HandleSaveDraft, HasForm, PersistsAs
<1>3. QED
  BY <1>1, <1>2

LEMMA SubmitSteps ==
  ASSUME Core, HandleSubmit
  PROVE  /\ Fitting(page', requests') /\ Foot({"saving", "error"}, {}, {"save"}) /\ Quiet /\ Persisted("save")
         /\ page.kind = "edit" /\ page.quiz # 0
<1> DEFINE q == [page EXCEPT !.saving = TRUE, !.error = FALSE]
           r == SaveRequest("save")
<1>1. Send(q, r) /\ page.kind = "edit" /\ ~page.saving
  BY DEF HandleSubmit
<1>2. page.quiz # 0
  BY <1>1 DEF Core, Fitting, PageRight, StepRight
<1>3. SaveOf(r, "save")
  BY SaveRequestIs
<1>4. Changes(q, page, {"saving", "error"}) /\ q.saving
  BY DEF Core, Fitting, PageRight, PageShape, PageFields, Changes
<1> HIDE DEF q, r
<1>5. /\ q.kind = page.kind /\ q.quiz = page.quiz /\ q.step = page.step /\ q.furthest = page.furthest
      /\ q.list = page.list /\ q.form = page.form /\ q.picker = page.picker /\ q.load = page.load
      /\ q.panel = page.panel /\ q.review = page.review /\ DOMAIN q = PageFields
  BY <1>4 DEF Changes, PageFields
<1>6. PageRight(q) /\ Holds(q, page)
  BY <1>4, <1>5 DEF Holds, Core, Fitting, PageRight, PageShape, StepRight, PartsRight
<1>7. Fits(q, r)
  BY <1>1, <1>3, <1>4, <1>5, SaveFits
<1>8. Alone(requests, r) /\ r.part = "save"
  BY <1>1, <1>3 DEF Core, Fitting, Fits, OfPage, Alone, SaveOf, Of
<1>9. /\ Fitting(page', requests') /\ Foot({"saving", "error"}, {}, {r.part}) /\ Quiet /\ page' = q
      /\ requests' = Put(requests, r) /\ FreeSlots(requests) # {}
  BY <1>1, <1>4, <1>6, <1>7, <1>8, SendSteps
<1>10. QED
  BY <1>1, <1>2, <1>3, <1>4, <1>8, <1>9 DEF Persisted

LEMMA BusyRight ==
  ASSUME Core, NEW q, Changes(q, page, {"busy"})
  PROVE  PageRight(q) /\ Holds(q, page)
  BY DEF Changes, PageFields, Holds, Core, Fitting, PageRight, PageShape, StepRight, PartsRight

LEMMA CommandFits ==
  ASSUME Core, NEW kind, NEW part \in {"publish", "actions", "toggle"}, Asks(kind, part), page.quiz # 0,
         Send([page EXCEPT !.busy = TRUE], Ask(kind, page.quiz, part)),
         part = "publish" => page.kind = "wizard" /\ page.step = 5 /\ page.load.left = {},
         part = "actions" => page.kind = "edit", part = "toggle" => page.kind = "results"
  PROVE  Commanded(part)
<1> DEFINE q == [page EXCEPT !.busy = TRUE]
           r == Ask(kind, page.quiz, part)
<1>1. Changes(q, page, {"busy"})
  BY DEF Core, Fitting, PageRight, PageShape, PageFields, Changes
<1>2. PageRight(q) /\ Holds(q, page)
  BY <1>1, BusyRight
<1>3. Sent(r) /\ Of(r, kind, page.quiz, part)
  BY AskIs DEF Sent, Of, PageParts, StepParts
<1>4. Made(page.quiz)
  BY DEF Core, Fitting, PageRight, StepRight
<1>5. Send(q, r)
  OBVIOUS
<1> HIDE DEF q
<1>6. Fits(q, r)
  BY <1>2, <1>3, <1>4, AskFits DEF OfPage, Of, Holds, Asks, LifeCycle
<1> HIDE DEF r
<1>7. Alone(requests, r)
  BY <1>3 DEF Alone, Of
<1>8. /\ Fitting(page', requests') /\ Foot({"busy"}, {}, {r.part}) /\ Quiet
      /\ requests' = Put(requests, r) /\ FreeSlots(requests) # {}
  BY <1>1, <1>2, <1>5, <1>6, <1>7, SendSteps
<1>9. kind \in LifeCycle \union {"release", "hide"} /\ (kind \in {"release", "hide"} => part = "toggle")
  BY DEF Asks, LifeCycle
<1>10. QED
  BY <1>3, <1>8, <1>9 DEF Commanded, Of

LEMMA CommandSteps ==
  ASSUME Core, HandlePublish \/ (\E action \in Actions(page.status) : CallApi(action)) \/ Toggle
  PROVE  \E part \in {"publish", "actions", "toggle"} : Commanded(part)
<1>1. /\ page.kind \in {"edit", "results"} => page.quiz # 0
      /\ page.kind = "wizard" /\ page.step = 5 => page.quiz # 0
  BY DEF Core, Fitting, PageRight, StepRight
<1>2. CASE HandlePublish
  BY <1>2, <1>1, CommandFits DEF HandlePublish, InWizard, Asks
<1>3. ASSUME NEW action \in Actions(page.status), CallApi(action)
      PROVE  Commanded("actions")
  BY <1>3, ActionsAre, <1>1, CommandFits DEF CallApi, Asks
<1>4. CASE Toggle
  <2> DEFINE kind == IF page.released THEN "hide" ELSE "release"
  <2>1. Send([page EXCEPT !.busy = TRUE], Ask(kind, page.quiz, "toggle")) /\ page.kind = "results"
    BY <1>4 DEF Toggle
  <2>2. Asks(kind, "toggle")
    BY DEF Asks
  <2> HIDE DEF kind
  <2>3. QED
    BY <1>1, <2>1, <2>2, CommandFits
<1>5. QED
  BY <1>2, <1>3, <1>4

LEMMA PanelAskSteps ==
  ASSUME Core, (\E t \in Targets : AssignTo(t)) \/ (\E row \in page.panel.rows : RemoveAssignment(row))
  PROVE  /\ Fitting(page', requests') /\ Foot({"panel", "crossed"}, {}, {"panel"}) /\ Quiet
         /\ \E r : PanelAsked(r)
<1>1. page.panel.open => page.quiz # 0 /\ Made(page.quiz)
  BY DEF Core, Fitting, PageRight, PartsRight, StepRight
<1>2. ASSUME NEW q, NEW r, Send(q, r), Sent(r), r.quiz = page.quiz, r.part = "panel", page.panel.open, q.panel.open,
             Changes(q, page, {"panel", "crossed"}), DOMAIN q.panel = DOMAIN page.panel,
             \/ r.kind = "assign" /\ r.target \in Targets
             \/ r.kind = "unassign"
      PROVE  /\ Fitting(page', requests') /\ Foot({"panel", "crossed"}, {}, {"panel"}) /\ Quiet /\ page' = q
             /\ requests' = Put(requests, r) /\ FreeSlots(requests) # {}
  <2>1. /\ q.kind = page.kind /\ q.quiz = page.quiz /\ q.step = page.step /\ q.furthest = page.furthest
        /\ q.list = page.list /\ q.form = page.form /\ q.picker = page.picker /\ q.load = page.load
        /\ q.saving = page.saving /\ q.review = page.review /\ DOMAIN q = PageFields
    BY <1>2 DEF Changes, PageFields
  <2>2. Holds(q, page)
    BY <1>2, <2>1 DEF Holds
  <2>3. PageRight(q)
    BY <1>2, <2>1 DEF Core, Fitting, PageRight, PageShape, StepRight, PartsRight
  <2>4. Fits(q, r)
    BY <1>1, <1>2, <2>1, AsksSorted, SentFits DEF OfPage, Asks
  <2>5. Alone(requests, r)
    BY <1>2 DEF Alone
  <2>6. QED
    BY <1>2, <2>2, <2>3, <2>4, <2>5, SendSteps
<1>3. ASSUME NEW t \in Targets, AssignTo(t)
      PROVE  /\ Fitting(page', requests') /\ Foot({"panel", "crossed"}, {}, {"panel"}) /\ Quiet
             /\ \E r : PanelAsked(r)
  <2> DEFINE r == [Ask("assign", page.quiz, "panel") EXCEPT !.target = t]
  <2>1. PICK c : /\ page.crossed \/ Waiting("panel") => c
                 /\ Send([page EXCEPT !.panel.assigning = TRUE, !.crossed = c], r)
    BY <1>3, Zenon DEF AssignTo
  <2> DEFINE q == [page EXCEPT !.panel.assigning = TRUE, !.crossed = c]
  <2>2. Send(q, r) /\ page.panel.open
    BY <1>3, <2>1 DEF AssignTo
  <2>3. Sent(r) /\ Of(r, "assign", page.quiz, "panel") /\ r.target = t
    BY AskIs DEF Sent, Of, Fields, NoRequest, PageParts, StepParts
  <2>4. /\ Changes(q, page, {"panel", "crossed"}) /\ DOMAIN q.panel = DOMAIN page.panel
        /\ q.panel.open = page.panel.open /\ q.panel.assigning = TRUE /\ q.panel.rows = page.panel.rows
        /\ q.crossed = c
    BY DEF Core, Fitting, PageRight, PageShape, PageFields, Changes
  <2> HIDE DEF q, r
  <2>5. /\ Fitting(page', requests') /\ Foot({"panel", "crossed"}, {}, {"panel"}) /\ Quiet /\ page' = q
        /\ requests' = Put(requests, r) /\ FreeSlots(requests) # {}
    BY <1>2, <2>2, <2>3, <2>4 DEF Of
  <2>6. PanelAsked(r)
    BY <2>1, <2>2, <2>3, <2>4, <2>5 DEF PanelAsked, Of
  <2>7. QED
    BY <2>5, <2>6
<1>4. ASSUME NEW row \in page.panel.rows, RemoveAssignment(row)
      PROVE  /\ Fitting(page', requests') /\ Foot({"panel", "crossed"}, {}, {"panel"}) /\ Quiet
             /\ \E r : PanelAsked(r)
  <2> DEFINE r == [Ask("unassign", page.quiz, "panel") EXCEPT !.rows = {row}]
  <2>1. PICK c : /\ page.crossed \/ Waiting("panel") => c
                 /\ Send([page EXCEPT !.panel.pending = {row}, !.crossed = c], r)
    BY <1>4, Zenon DEF RemoveAssignment
  <2> DEFINE q == [page EXCEPT !.panel.pending = {row}, !.crossed = c]
  <2>2. Send(q, r) /\ page.panel.open
    BY <1>4, <2>1 DEF RemoveAssignment
  <2>3. Sent(r) /\ Of(r, "unassign", page.quiz, "panel")
    BY AskIs DEF Sent, Of, Fields, NoRequest, PageParts, StepParts
  <2>4. /\ Changes(q, page, {"panel", "crossed"}) /\ DOMAIN q.panel = DOMAIN page.panel
        /\ q.panel.open = page.panel.open /\ q.panel.assigning = page.panel.assigning /\ q.panel.rows = page.panel.rows
        /\ q.crossed = c
    BY DEF Core, Fitting, PageRight, PageShape, PageFields, Changes
  <2> HIDE DEF q, r
  <2>5. /\ Fitting(page', requests') /\ Foot({"panel", "crossed"}, {}, {"panel"}) /\ Quiet /\ page' = q
        /\ requests' = Put(requests, r) /\ FreeSlots(requests) # {}
    BY <1>2, <2>2, <2>3, <2>4 DEF Of
  <2>6. PanelAsked(r)
    BY <2>1, <2>2, <2>3, <2>4, <2>5 DEF PanelAsked, Of
  <2>7. QED
    BY <2>5, <2>6
<1>5. QED
  BY <1>3, <1>4

-----------------------------------------------------------------------------
\* Answers: a request ends, and perhaps another one is sent.

LEMMA WithoutCore ==
  ASSUME Core, NEW i \in Slots, NEW q, PageRight(q),
         \A j \in Slots \ {i} : Fits(page, requests[j]) /\ requests[j].heard => OfPage(q, requests[j])
  PROVE  /\ Fitting(q, Without(i)) /\ Moves(Without(i), requests, {requests[i].part}, {})
         /\ Without(i) = [j \in Slots |-> IF j = i THEN NoRequest ELSE requests[j]]
<1>1. Without(i) = [requests EXCEPT ![i] = NoRequest] /\ requests = [j \in Slots |-> requests[j]]
  BY DEF Without, Core, Fitting
<1>2. Fitting(page, Without(i)) /\ Moves(Without(i), requests, {requests[i].part}, {})
  BY <1>1, WithoutFits, WithoutMoves DEF Core
<1>3. Without(i) = [j \in Slots |-> IF j = i THEN NoRequest ELSE requests[j]]
  BY <1>1
<1>4. ~NoRequest.heard
  BY DEF NoRequest
<1>5. \A j \in Slots : Without(i)[j].heard => j # i /\ Without(i)[j] = requests[j]
  BY <1>3, <1>4
<1>6. \A j \in Slots : Fits(page, Without(i)[j]) /\ Without(i)[j].heard => OfPage(q, Without(i)[j])
  BY <1>5
<1>7. Fitting(q, Without(i))
  BY <1>2, <1>6, TurnFits
<1>8. QED
  BY <1>2, <1>3, <1>7

LEMMA TakeSteps ==
  ASSUME Core, NEW i \in Slots, NEW q, Take(i, q), Rest, PageRight(q), NEW fields, Changes(q, page, fields),
         \A j \in Slots \ {i} : Fits(page, requests[j]) /\ requests[j].heard => OfPage(q, requests[j])
  PROVE  Fitting(page', requests') /\ Foot(fields, {requests[i].part}, {}) /\ Quiet /\ page' = q /\ requests' = Without(i)
BY WithoutCore DEF Take, Rest, Quiet, Foot

LEMMA TakeAndAskSteps ==
  ASSUME Core, NEW i \in Slots, NEW q, NEW r, TakeAndAsk(i, q, r), Rest, PageRight(q), NEW fields, Changes(q, page, fields),
         \A j \in Slots \ {i} : Fits(page, requests[j]) /\ requests[j].heard => OfPage(q, requests[j]),
         Fits(q, r), Alone(Without(i), r)
  PROVE  /\ Fitting(page', requests') /\ Foot(fields, {requests[i].part}, {r.part}) /\ Quiet /\ page' = q
         /\ requests' = Put(Without(i), r) /\ FreeSlots(Without(i)) # {}
<1>1. /\ Fitting(q, Without(i)) /\ Moves(Without(i), requests, {requests[i].part}, {})
      /\ Without(i) = [j \in Slots |-> IF j = i THEN NoRequest ELSE requests[j]]
  BY WithoutCore
<1>2. i \in FreeSlots(Without(i))
  BY <1>1 DEF FreeSlots
<1>3. page' = q /\ requests' = Put(Without(i), r) /\ Quiet
  BY DEF TakeAndAsk, Rest, Quiet
<1>4. Fitting(q, Put(Without(i), r))
  BY <1>1, <1>2, PutFits
<1>5. Moves(Put(Without(i), r), Without(i), {}, {r.part})
  BY <1>1, <1>2, SendMoves DEF Fitting
<1>6. Moves(Put(Without(i), r), requests, {requests[i].part} \union {}, {} \union {r.part})
  BY <1>1, <1>5, MovesTwice
<1>7. Moves(Put(Without(i), r), requests, {requests[i].part}, {r.part})
  BY <1>6, MovesMore
<1>8. QED
  BY <1>2, <1>3, <1>4, <1>7 DEF Foot

\* The common case: nothing that others wait for changes.
LEMMA TakeHolds ==
  ASSUME Core, NEW i \in Slots, NEW q, Take(i, q), Rest, PageRight(q), NEW fields, Changes(q, page, fields), Holds(q, page)
  PROVE  Fitting(page', requests') /\ Foot(fields, {requests[i].part}, {}) /\ Quiet /\ page' = q /\ requests' = Without(i)
  BY HoldsOfPage, TakeSteps DEF Fits

LEMMA ListArrivesSteps ==
  ASSUME Core, NEW i \in Slots, ListArrives(i), Rest
  PROVE  /\ Fitting(page', requests') /\ Foot({"list"}, {"list", "reload"}, {}) /\ Quiet /\ requests' = Without(i)
         /\ requests[i].heard /\ requests[i].part \in {"list", "reload"}
         /\ page'.list.shown = requests[i].query /\ page'.list.query = page.list.query
         /\ page'.list.stray = page.list.stray
<1> DEFINE r == requests[i]
           q == [page EXCEPT !.list.rows = r.rows, !.list.total = r.total, !.list.shown = r.query,
                             !.list.loading = FALSE]
<1>1. /\ r.heard /\ r.part \in {"list", "reload"} /\ r.stage = "answered" /\ Take(i, q)
  BY DEF ListArrives, Arrived
<1>2. r.kind = "list" /\ \A row \in r.rows : Made(row.quiz)
  BY <1>1 DEF Core, Fitting, Fits, Sorted, Brings
<1>3. /\ Changes(q, page, {"list"}) /\ DOMAIN q.list = DOMAIN page.list /\ q.list.rows = r.rows
      /\ q.list.shown = r.query /\ q.list.query = page.list.query /\ q.list.stray = page.list.stray
  BY DEF Core, Fitting, PageRight, PageShape, PageFields, Changes
<1> HIDE DEF q
<1>4. PageRight(q) /\ Holds(q, page)
  BY <1>2, <1>3, ListOnlyRight DEF ListedRight
<1>5. Fitting(page', requests') /\ Foot({"list"}, {r.part}, {}) /\ Quiet /\ page' = q /\ requests' = Without(i)
  BY <1>1, <1>3, <1>4, TakeHolds
<1>6. Foot({"list"}, {"list", "reload"}, {})
  BY <1>1, <1>5, MovesMore DEF Foot
<1>7. QED
  BY <1>1, <1>3, <1>5, <1>6

LEMMA ActionOfListDoneSteps ==
  ASSUME Core, NEW i \in Slots, ActionOfListDone(i), Rest
  PROVE  /\ Fitting(page', requests') /\ Foot({"list"}, {"listAction"}, {"reload"}) /\ Quiet
         /\ requests' = Put(Without(i), AskList(requests[i].query, "reload")) /\ FreeSlots(Without(i)) # {}
         /\ requests[i].heard /\ requests[i].part = "listAction"
         /\ page'.list.query = page.list.query /\ page'.list.stray = page.list.stray /\ page'.list.loading
<1> DEFINE r == requests[i]
           q == [page EXCEPT !.list.loading = TRUE, !.list.error = FALSE]
           s == AskList(r.query, "reload")
<1>1. /\ r.heard /\ r.part = "listAction" /\ TakeAndAsk(i, q, s)
  BY DEF ActionOfListDone, Arrived
<1>2. page.kind = "list"
  BY <1>1 DEF Core, Fitting, Fits, OfPage
<1>3. /\ Changes(q, page, {"list"}) /\ DOMAIN q.list = DOMAIN page.list /\ q.list.rows = page.list.rows
      /\ q.list.query = page.list.query /\ q.list.stray = page.list.stray /\ q.list.loading
  BY DEF Core, Fitting, PageRight, PageShape, PageFields, Changes
<1> HIDE DEF q
<1>4. PageRight(q) /\ Holds(q, page)
  BY <1>3, ListOnlyRight DEF ListedRight, Core, Fitting, PageRight
<1>5. q.kind = "list"
  BY <1>2, <1>4 DEF Holds
<1>6. Fits(q, s) /\ s.part = "reload"
  BY <1>5, ListAskFits DEF Of
<1>7. Alone(Without(i), s)
  BY <1>6 DEF Alone
<1>8. \A j \in Slots \ {i} : Fits(page, requests[j]) /\ requests[j].heard => OfPage(q, requests[j])
  BY <1>4, HoldsOfPage DEF Fits
<1> HIDE DEF s
<1>9. /\ Fitting(page', requests') /\ Foot({"list"}, {r.part}, {s.part}) /\ Quiet /\ page' = q
      /\ requests' = Put(Without(i), s) /\ FreeSlots(Without(i)) # {}
  BY <1>1, <1>3, <1>4, <1>6, <1>7, <1>8, TakeAndAskSteps
<1>10. QED
  BY <1>1, <1>3, <1>6, <1>9 DEF s

LEMMA ChangesMore ==
  ASSUME NEW q, NEW p, NEW a, NEW b, Changes(q, p, a), a \subseteq b
  PROVE  Changes(q, p, b)
BY DEF Changes

LEMMA PlainRight ==
  ASSUME Core, NEW q, Changes(q, page, PlainFields)
  PROVE  PageRight(q) /\ Holds(q, page)
  BY DEF Changes, PageFields, PlainFields, Holds, Core, Fitting, PageRight, PageShape, StepRight,
     PartsRight

LEMMA PlainTaken ==
  ASSUME Core, NEW i \in Slots, Rest, Refreshed(i) \/ Toggled(i)
  PROVE  /\ Fitting(page', requests') /\ Foot({"status", "busy", "released"}, {requests[i].part}, {}) /\ Quiet
         /\ requests' = Without(i) /\ requests[i].heard /\ requests[i].part \in {"refresh", "toggle"}
         /\ requests[i].part = "toggle" => ~page'.busy
         /\ requests[i].part = "refresh" => page'.busy = page.busy
<1>1. PageShape(page)
  BY DEF Core, Fitting, PageRight
<1>2. PICK q : /\ Take(i, q) /\ Changes(q, page, {"status", "busy", "released"})
               /\ requests[i].heard /\ requests[i].part \in {"refresh", "toggle"}
               /\ requests[i].part = "toggle" => ~q.busy
               /\ requests[i].part = "refresh" => q.busy = page.busy
  <2>1. CASE Refreshed(i)
    <3> DEFINE q == [page EXCEPT !.status = requests[i].status]
    <3>1. Take(i, q) /\ requests[i].heard /\ requests[i].part = "refresh"
      BY <2>1 DEF Refreshed, Arrived
    <3>2. Changes(q, page, {"status", "busy", "released"}) /\ q.busy = page.busy
      BY <1>1 DEF PageShape, Changes, PageFields
    <3> HIDE DEF q
    <3>3. QED
      BY <3>1, <3>2
  <2>2. CASE Toggled(i)
    <3>1. PICK v : Take(i, [page EXCEPT !.busy = FALSE, !.released = v])
      BY <2>2, Zenon DEF Toggled
    <3> DEFINE q == [page EXCEPT !.busy = FALSE, !.released = v]
    <3>2. Take(i, q) /\ requests[i].heard /\ requests[i].part = "toggle"
      BY <2>2, <3>1 DEF Toggled, Arrived
    <3>3. Changes(q, page, {"status", "busy", "released"}) /\ ~q.busy
      BY <1>1 DEF PageShape, Changes, PageFields
    <3> HIDE DEF q
    <3>4. QED
      BY <3>2, <3>3
  <2>3. QED
    BY <2>1, <2>2
<1>3. Changes(q, page, PlainFields)
  BY <1>2, ChangesMore DEF PlainFields
<1>4. PageRight(q) /\ Holds(q, page)
  BY <1>3, PlainRight
<1>5. /\ Fitting(page', requests') /\ Foot({"status", "busy", "released"}, {requests[i].part}, {}) /\ Quiet
      /\ page' = q /\ requests' = Without(i)
  BY <1>2, <1>4, TakeHolds
<1>6. QED
  BY <1>2, <1>5

LEMMA BankArrivesSteps ==
  ASSUME Core, NEW i \in Slots, BankArrives(i), Rest
  PROVE  /\ Fitting(page', requests') /\ Foot({"picker"}, {"bank"}, {}) /\ Quiet /\ requests' = Without(i)
         /\ Browsed(page')
<1> DEFINE r == requests[i]
           q == [page EXCEPT !.picker.items = r.rows, !.picker.total = r.total, !.picker.shown = TRUE]
<1>1. r.heard /\ r.part = "bank" /\ r.stage = "answered" /\ Take(i, q)
  BY DEF BankArrives, Arrived
<1>2. r.rows \subseteq Questions
  BY <1>1 DEF Core, Fitting, Fits, Sorted, Brings
<1>3. PageShape(page) /\ PickedRight(page.picker)
  BY DEF Core, Fitting, PageRight
<1>4. /\ q.picker.pool = page.picker.pool /\ q.picker.saved = page.picker.saved /\ q.picker.open = page.picker.open
      /\ q.picker.saving = page.picker.saving /\ q.picker.items = r.rows
      /\ q.picker.selected = page.picker.selected /\ q.picker.touched = page.picker.touched
      /\ DOMAIN q.picker = DOMAIN page.picker
  BY <1>3 DEF PageShape, PageFields
<1>5. Changes(q, page, {"picker"})
  BY <1>3 DEF PageShape, PageFields, Changes
<1> HIDE DEF q
<1>6. Browsed(q)
  BY <1>2, <1>3, <1>4, <1>5 DEF Browsed, PickedRight
<1>7. PageRight(q) /\ Holds(q, page)
  BY <1>6, BrowsedRight
<1>8. Fitting(page', requests') /\ Foot({"picker"}, {r.part}, {}) /\ Quiet /\ page' = q /\ requests' = Without(i)
  BY <1>1, <1>5, <1>7, TakeHolds
<1>9. QED
  BY <1>1, <1>6, <1>8 DEF Browsed

\* Only the picker changes, as long as no heard save of it loses its state.
LEMMA PickerOnlyRight ==
  ASSUME Core, NEW q, Changes(q, page, {"picker"}), DOMAIN q.picker = DOMAIN page.picker, PickedRight(q.picker),
         q.picker.open => page.kind = "edit" \/ (page.kind = "wizard" /\ page.step = 2),
         q.picker.saved \/ q.picker.saving => q.picker.open
  PROVE  /\ PageRight(q)
         /\ \A r : r.part \notin {"picker", "pool"} /\ (page.picker.open => q.picker.open) /\ OfPage(page, r)
                   => OfPage(q, r)
         /\ \A r : r.part # "picker" /\ q.picker.open = page.picker.open /\ OfPage(page, r) => OfPage(q, r)
<1>1. /\ q.kind = page.kind /\ q.quiz = page.quiz /\ q.step = page.step /\ q.furthest = page.furthest
      /\ q.list = page.list /\ q.form = page.form /\ q.load = page.load
      /\ q.panel = page.panel /\ q.review = page.review /\ q.saving = page.saving /\ DOMAIN q = PageFields
  BY DEF Changes, PageFields
<1>2. \A r : r.part \notin {"picker", "pool"} /\ (page.picker.open => q.picker.open) /\ OfPage(page, r)
              => OfPage(q, r)
  BY <1>1 DEF OfPage
<1>4. \A r : r.part # "picker" /\ q.picker.open = page.picker.open /\ OfPage(page, r) => OfPage(q, r)
  BY <1>1 DEF OfPage
<1>5. PageShape(q) /\ StepRight(q) /\ ListedRight(q.list) /\ PartsRight(q)
  BY <1>1 DEF Core, Fitting, PageRight, PageShape, StepRight, PartsRight
<1>6. QED
  BY <1>2, <1>4, <1>5 DEF PageRight

LEMMA PickerSavedSteps ==
  ASSUME Core, NEW i \in Slots, Rest,
         \/ PoolSaved(i)
         \/ /\ requests[i].heard /\ requests[i].part = "picker"
            /\ Take(i, [page EXCEPT !.picker.saving = FALSE])
  PROVE  /\ Fitting(page', requests') /\ Foot({"picker"}, {"picker"}, {}) /\ Quiet /\ requests' = Without(i)
         /\ requests[i].heard /\ requests[i].part = "picker"
         /\ ~page'.picker.saving /\ page'.picker.pool = page.picker.pool /\ page'.picker.touched = page.picker.touched
         /\ page'.picker.saved => page.picker.saved \/ requests[i].stage = "answered"
<1>1. PageShape(page) /\ PickedRight(page.picker) /\ PartsRight(page)
  BY DEF Core, Fitting, PageRight
<1>2. PICK q : /\ Take(i, q) /\ Changes(q, page, {"picker"}) /\ DOMAIN q.picker = DOMAIN page.picker
               /\ q.picker.pool = page.picker.pool /\ q.picker.open = page.picker.open
               /\ ~q.picker.saving /\ q.picker.items = page.picker.items
               /\ q.picker.selected = page.picker.selected /\ q.picker.touched = page.picker.touched
               /\ requests[i].heard /\ requests[i].part = "picker"
               /\ q.picker.saved => page.picker.saved \/ requests[i].stage = "answered"
  <2>1. CASE PoolSaved(i)
    <3> DEFINE q == [page EXCEPT !.picker.saving = FALSE, !.picker.saved = TRUE]
    <3>1. Take(i, q) /\ requests[i].heard /\ requests[i].part = "picker" /\ requests[i].stage = "answered"
      BY <2>1 DEF PoolSaved, Arrived
    <3>2. /\ Changes(q, page, {"picker"}) /\ DOMAIN q.picker = DOMAIN page.picker
          /\ q.picker.pool = page.picker.pool /\ q.picker.open = page.picker.open
          /\ ~q.picker.saving /\ q.picker.items = page.picker.items
          /\ q.picker.selected = page.picker.selected /\ q.picker.touched = page.picker.touched
      BY <1>1 DEF PageShape, PageFields, Changes
    <3> HIDE DEF q
    <3>3. QED
      BY <3>1, <3>2
  <2>2. CASE Take(i, [page EXCEPT !.picker.saving = FALSE]) /\ requests[i].heard /\ requests[i].part = "picker"
    <3> DEFINE q == [page EXCEPT !.picker.saving = FALSE]
    <3>1. Take(i, q)
      BY <2>2
    <3>2. /\ Changes(q, page, {"picker"}) /\ DOMAIN q.picker = DOMAIN page.picker
          /\ q.picker.pool = page.picker.pool /\ q.picker.open = page.picker.open
          /\ ~q.picker.saving /\ q.picker.items = page.picker.items /\ q.picker.saved = page.picker.saved
          /\ q.picker.selected = page.picker.selected /\ q.picker.touched = page.picker.touched
      BY <1>1 DEF PageShape, PageFields, Changes
    <3> HIDE DEF q
    <3>3. QED
      BY <2>2, <3>1, <3>2
  <2>3. QED
    BY <2>1, <2>2
<1>3. page.picker.open
  BY <1>2, <1>1 DEF Core, Fitting, Fits, OfPage, PartsRight
<1>4. PickedRight(q.picker)
  BY <1>1, <1>2 DEF PickedRight
<1>5. q.picker.open => page.kind = "edit" \/ (page.kind = "wizard" /\ page.step = 2)
  BY <1>1, <1>2 DEF PartsRight
<1>6. q.picker.saved \/ q.picker.saving => q.picker.open
  BY <1>2, <1>3
<1>7. PageRight(q) /\ \A r : r.part # "picker" /\ OfPage(page, r) => OfPage(q, r)
  BY <1>2, <1>4, <1>5, <1>6, PickerOnlyRight
<1>8. \A j \in Slots \ {i} : requests[j].heard => requests[j].part # "picker"
  BY <1>2 DEF Core, Fitting, Single
<1>9. \A j \in Slots \ {i} : Fits(page, requests[j]) /\ requests[j].heard => OfPage(q, requests[j])
  BY <1>7, <1>8 DEF Fits
<1>10. /\ Fitting(page', requests') /\ Foot({"picker"}, {requests[i].part}, {}) /\ Quiet
       /\ page' = q /\ requests' = Without(i)
  BY <1>2, <1>7, <1>9, TakeSteps
<1>11. QED
  BY <1>2, <1>10

LEMMA PoolLoadedSteps ==
  ASSUME Core, NEW i \in Slots, PoolLoaded(i), Rest
  PROVE  /\ Fitting(page', requests') /\ Foot({"picker"}, {"pool"}, {"bank"}) /\ Quiet
         /\ ~page'.picker.saving /\ ~page'.picker.saved
         /\ requests[i].heard /\ requests[i].part = "pool"
<1> DEFINE r == requests[i]
           k == [NoPicker EXCEPT !.open = TRUE, !.pool = r.ids]
           q == [page EXCEPT !.picker = k]
           s == AskBank(AllQuizzes)
<1>1. r.heard /\ r.part = "pool" /\ r.stage = "answered" /\ TakeAndAsk(i, q, s)
  BY DEF PoolLoaded, Arrived
<1>2. r.ids \in Seq(Questions) /\ page.kind = "wizard" /\ page.step = 2
  BY <1>1 DEF Core, Fitting, Fits, Sorted, Brings, OfPage
<1>3. PageShape(page) /\ PartsRight(page)
  BY DEF Core, Fitting, PageRight
<1>4. /\ DOMAIN k = DOMAIN page.picker /\ k.open /\ k.pool = r.ids /\ ~k.saving /\ ~k.saved /\ k.items = {} /\ k.selected = {}
  BY <1>3 DEF NoPicker, PageShape
<1> HIDE DEF k
<1>5. Changes(q, page, {"picker"}) /\ q.picker = k
  BY <1>3 DEF PageShape, PageFields, Changes
<1> HIDE DEF q
<1>6. PickedRight(k)
  BY <1>2, <1>4 DEF PickedRight
<1>7. PageRight(q) /\ \A x : x.part \notin {"picker", "pool"} /\ OfPage(page, x) => OfPage(q, x)
  BY <1>2, <1>4, <1>5, <1>6, PickerOnlyRight
<1>8. \A j \in Slots \ {i} : requests[j].heard => requests[j].part \notin {"picker", "pool"}
  BY <1>1, <1>3 DEF Core, Fitting, Fits, OfPage, PartsRight, Single
<1>9. \A j \in Slots \ {i} : Fits(page, requests[j]) /\ requests[j].heard => OfPage(q, requests[j])
  BY <1>7, <1>8 DEF Fits
<1>10. Fits(q, s) /\ s.part = "bank"
  BY <1>4, <1>5, BankAskFits DEF Of
<1>11. Alone(Without(i), s)
  BY <1>10 DEF Alone
<1> HIDE DEF s
<1>12. /\ Fitting(page', requests') /\ Foot({"picker"}, {r.part}, {s.part}) /\ Quiet /\ page' = q
       /\ requests' = Put(Without(i), s) /\ FreeSlots(Without(i)) # {}
  BY <1>1, <1>5, <1>7, <1>9, <1>10, <1>11, TakeAndAskSteps
<1>13. QED
  BY <1>1, <1>4, <1>5, <1>10, <1>12

LEMMA PoolCountedSteps ==
  ASSUME Core, NEW i \in Slots, PoolCounted(i), Rest
  PROVE  /\ Fitting(page', requests') /\ Foot({"review"}, {"review"}, {}) /\ Quiet /\ requests' = Without(i)
         /\ requests[i].heard /\ requests[i].part = "review" /\ requests[i].stage = "answered"
         /\ page'.review = {Len(requests[i].ids)}
<1> DEFINE r == requests[i]
           q == [page EXCEPT !.review = {Len(r.ids)}]
<1>1. r.heard /\ r.part = "review" /\ r.stage = "answered" /\ Take(i, q)
  BY DEF PoolCounted, Arrived
<1>2. page.kind = "wizard" /\ page.step = 4
  BY <1>1 DEF Core, Fitting, Fits, OfPage
<1>3. Changes(q, page, {"review"}) /\ q.review = {Len(r.ids)}
  BY DEF Core, Fitting, PageRight, PageShape, PageFields, Changes
<1> HIDE DEF q
<1>4. /\ q.kind = page.kind /\ q.quiz = page.quiz /\ q.step = page.step /\ q.furthest = page.furthest
      /\ q.list = page.list /\ q.form = page.form /\ q.load = page.load /\ q.picker = page.picker
      /\ q.panel = page.panel /\ q.saving = page.saving /\ DOMAIN q = PageFields
  BY <1>3 DEF Changes, PageFields
<1>5. Holds(q, page)
  BY <1>4 DEF Holds
<1>6. PageRight(q)
  BY <1>2, <1>4 DEF Core, Fitting, PageRight, PageShape, StepRight, PartsRight
<1>7. Fitting(page', requests') /\ Foot({"review"}, {r.part}, {}) /\ Quiet /\ page' = q /\ requests' = Without(i)
  BY <1>1, <1>3, <1>5, <1>6, TakeHolds
<1>8. QED
  BY <1>1, <1>3, <1>7

LEMMA LoadRight ==
  ASSUME Core, NEW i \in Slots, requests[i].heard, requests[i].part = "publishLoad", NEW q, Changes(q, page, LoadFields),
         DOMAIN q.load = DOMAIN page.load, DOMAIN q.panel = DOMAIN page.panel,
         q.load.left = page.load.left \ {requests[i].kind}, q.panel.open => q.load.left = {}
  PROVE  PageRight(q) /\ \A j \in Slots \ {i} : Fits(page, requests[j]) /\ requests[j].heard => OfPage(q, requests[j])
<1>1. /\ q.kind = page.kind /\ q.quiz = page.quiz /\ q.step = page.step /\ q.furthest = page.furthest
      /\ q.list = page.list /\ q.form = page.form /\ q.review = page.review /\ q.picker = page.picker
      /\ q.saving = page.saving /\ DOMAIN q = PageFields
  BY DEF Changes, PageFields, LoadFields
<1>2. requests[i].kind \in page.load.left /\ page.load.left # {} /\ page.kind = "wizard" /\ page.step = 5 /\ ~page.panel.open
  BY DEF Core, Fitting, Fits, OfPage, PageRight, PartsRight
<1>3. PageRight(q)
  BY <1>1, <1>2 DEF Core, Fitting, PageRight, PageShape, StepRight, PartsRight
<1>4. ASSUME NEW j \in Slots \ {i}, Fits(page, requests[j]), requests[j].heard
      PROVE  OfPage(q, requests[j])
  BY <1>2, <1>4, <1>1 DEF Fits, OfPage, Core, Fitting, Single
<1>5. QED
  BY <1>3, <1>4

LEMMA PublishLoadSteps ==
  ASSUME Core, NEW i \in Slots, NEW status, NEW rows, PublishLoadAs(i, status, rows), Rest,
         requests[i].heard, requests[i].part = "publishLoad"
  PROVE  /\ Fitting(page', requests') /\ Foot(LoadFields, {"publishLoad"}, {}) /\ Quiet /\ requests' = Without(i)
         /\ LoadTaken(i, rows)
<1> DEFINE r == requests[i]
           l == [left |-> page.load.left \ {r.kind},
                 status |-> IF r.kind = "readQuiz" THEN status ELSE page.load.status,
                 rows |-> IF r.kind = "readAssigned" THEN rows ELSE page.load.rows]
<1>1. PICK c : /\ page.crossed => c
               /\ r.kind = "readAssigned" /\ r.stage = "refused" => c
               /\ Take(i, IF l.left # {} THEN [page EXCEPT !.load = l, !.crossed = c]
                          ELSE [[page EXCEPT !.load = l, !.crossed = c] EXCEPT
                                  !.status = l.status, !.panel.rows = l.rows, !.panel.open = l.status = "published"])
  BY Zenon DEF PublishLoadAs
<1>2. /\ DOMAIN l = DOMAIN page.load /\ l.left = page.load.left \ {r.kind}
      /\ l.rows = IF r.kind = "readAssigned" THEN rows ELSE page.load.rows
  BY DEF Core, Fitting, PageRight, PageShape
<1> HIDE DEF l
<1> DEFINE p == [page EXCEPT !.load = l, !.crossed = c]
<1>3. /\ Changes(p, page, LoadFields) /\ p.load = l /\ p.crossed = c /\ p.panel = page.panel
  BY DEF Core, Fitting, PageRight, PageShape, PageFields, Changes, LoadFields
<1>4. ~page.panel.open
  BY DEF Core, Fitting, Fits, OfPage, PageRight, PartsRight
<1>5. PICK q : /\ Take(i, q) /\ Changes(q, page, LoadFields) /\ q.load = l /\ q.crossed = c
               /\ DOMAIN q.panel = DOMAIN page.panel /\ (q.panel.open => q.load.left = {})
               /\ q.load.left = {} => q.panel.rows = l.rows
               /\ q.panel.assigning = page.panel.assigning
  <2>1. CASE l.left # {}
    <3>1. Take(i, p)
      BY <1>1, <2>1
    <3> HIDE DEF p
    <3>2. QED
      BY <1>3, <1>4, <2>1, <3>1
  <2>2. CASE l.left = {}
    <3>1. PICK o : Take(i, [p EXCEPT !.status = l.status, !.panel.rows = l.rows, !.panel.open = o])
      BY <1>1, <2>2, Zenon
    <3> DEFINE q == [p EXCEPT !.status = l.status, !.panel.rows = l.rows, !.panel.open = o]
    <3> HIDE DEF p
    <3>2. /\ Changes(q, page, LoadFields) /\ q.load = l /\ q.crossed = c
          /\ DOMAIN q.panel = DOMAIN page.panel /\ q.panel.rows = l.rows
          /\ q.panel.assigning = page.panel.assigning
      BY <1>3 DEF Core, Fitting, PageRight, PageShape, PageFields, Changes, LoadFields
    <3>3. Take(i, q)
      BY <3>1
    <3> HIDE DEF q
    <3>4. QED
      BY <2>2, <3>2, <3>3
  <2>3. QED
    BY <2>1, <2>2
<1>6. PageRight(q) /\ \A j \in Slots \ {i} : Fits(page, requests[j]) /\ requests[j].heard => OfPage(q, requests[j])
  BY <1>2, <1>5, LoadRight
<1>7. /\ Fitting(page', requests') /\ Foot(LoadFields, {r.part}, {}) /\ Quiet /\ page' = q /\ requests' = Without(i)
  BY <1>5, <1>6, TakeSteps
<1>8. LoadTaken(i, rows)
  BY <1>1, <1>2, <1>5, <1>7 DEF LoadTaken
<1>9. QED
  BY <1>7, <1>8

\* The panel of the assignments.
LEMMA PanelOnlyRight ==
  ASSUME Core, NEW q, Changes(q, page, {"panel", "status", "busy", "crossed"}), DOMAIN q.panel = DOMAIN page.panel,
         page.panel.open => q.panel.open,
         q.panel.open => page.panel.open \/ (page.kind = "wizard" /\ page.step = 5 /\ page.load.left = {})
  PROVE  PageRight(q) /\ Holds(q, page)
  BY DEF Changes, PageFields, Holds, Core, Fitting, PageRight, PageShape, StepRight, PartsRight

LEMMA PublishedSteps ==
  ASSUME Core, NEW i \in Slots, Published(i), Rest
  PROVE  /\ Fitting(page', requests') /\ Foot({"panel", "status", "busy"}, {"publish"}, {}) /\ Quiet
         /\ requests' = Without(i) /\ requests[i].heard /\ requests[i].part = "publish"
         /\ page'.panel.rows = page.panel.rows /\ page'.panel.assigning = page.panel.assigning /\ ~page'.busy
<1> DEFINE q == [page EXCEPT !.busy = FALSE, !.status = "published", !.panel.open = TRUE]
<1>1. requests[i].heard /\ requests[i].part = "publish" /\ Take(i, q)
  BY DEF Published, Arrived
<1>2. page.kind = "wizard" /\ page.step = 5 /\ page.load.left = {}
  BY <1>1 DEF Core, Fitting, Fits, OfPage
<1>3. /\ Changes(q, page, {"panel", "status", "busy"}) /\ DOMAIN q.panel = DOMAIN page.panel /\ q.panel.open
      /\ q.panel.rows = page.panel.rows /\ q.panel.assigning = page.panel.assigning /\ ~q.busy
  BY DEF Core, Fitting, PageRight, PageShape, PageFields, Changes
<1> HIDE DEF q
<1>4. Changes(q, page, {"panel", "status", "busy", "crossed"})
  BY <1>3, ChangesMore
<1>5. PageRight(q) /\ Holds(q, page)
  BY <1>2, <1>3, <1>4, PanelOnlyRight
<1>6. /\ Fitting(page', requests') /\ Foot({"panel", "status", "busy"}, {requests[i].part}, {}) /\ Quiet
      /\ page' = q /\ requests' = Without(i)
  BY <1>1, <1>3, <1>5, TakeHolds
<1>7. QED
  BY <1>1, <1>3, <1>6

LEMMA AssignedSteps ==
  ASSUME Core, NEW i \in Slots, Assigned(i), Rest
  PROVE  /\ Fitting(page', requests') /\ Foot({}, {"panel"}, {"panel"}) /\ Quiet /\ page' = page
         /\ requests' = Put(Without(i), Ask("readAssigned", page.quiz, "panel")) /\ FreeSlots(Without(i)) # {}
         /\ requests[i].heard /\ requests[i].part = "panel"
<1> DEFINE r == requests[i]
           s == Ask("readAssigned", page.quiz, "panel")
<1>1. r.heard /\ r.part = "panel" /\ TakeAndAsk(i, page, s)
  BY DEF Assigned, Arrived
<1>2. page.quiz # 0 /\ page.panel.open
  BY <1>1 DEF Core, Fitting, Fits, OfPage
<1>3. Made(page.quiz)
  BY <1>2 DEF Core, Fitting, PageRight, StepRight
<1>4. Fits(page, s)
  BY <1>2, AskIs, <1>3, AskFits DEF OfPage, Asks
<1>5. s.part = "panel" /\ Alone(Without(i), s)
  BY AskIs DEF Alone
<1>6. \A j \in Slots \ {i} : Fits(page, requests[j]) /\ requests[j].heard => OfPage(page, requests[j])
  BY DEF Fits
<1> HIDE DEF s
<1>7. /\ Fitting(page', requests') /\ Foot({}, {r.part}, {s.part}) /\ Quiet /\ page' = page
      /\ requests' = Put(Without(i), s) /\ FreeSlots(Without(i)) # {}
  BY <1>1, <1>4, <1>5, <1>6, StaysAsItIs, TakeAndAskSteps
<1>8. QED
  BY <1>1, <1>5, <1>7 DEF s

LEMMA AssignedReadSteps ==
  ASSUME Core, NEW i \in Slots, AssignedRead(i) \/ Unassigned(i), Rest
  PROVE  /\ Fitting(page', requests') /\ Foot({"panel"}, {"panel"}, {}) /\ Quiet /\ requests' = Without(i)
         /\ requests[i].heard /\ requests[i].part = "panel" /\ requests[i].stage = "answered"
         /\ requests[i].kind = "readAssigned" =>
              page'.panel.rows = requests[i].rows /\ ~page'.panel.assigning
         /\ requests[i].kind # "readAssigned" =>
              /\ requests[i].kind = "unassign" /\ page'.panel.rows = page.panel.rows \ requests[i].rows
              /\ page'.panel.assigning = page.panel.assigning
<1> DEFINE r == requests[i]
<1>1. PICK q : /\ Take(i, q) /\ r.heard /\ r.part = "panel" /\ r.stage = "answered"
               /\ Changes(q, page, {"panel"}) /\ DOMAIN q.panel = DOMAIN page.panel /\ q.panel.open = page.panel.open
               /\ r.kind = "readAssigned" => q.panel.rows = r.rows /\ ~q.panel.assigning
               /\ r.kind # "readAssigned" =>
                    /\ r.kind = "unassign" /\ q.panel.rows = page.panel.rows \ r.rows
                    /\ q.panel.assigning = page.panel.assigning
  <2>1. CASE AssignedRead(i)
    <3> DEFINE q == [page EXCEPT !.panel.rows = r.rows, !.panel.assigning = FALSE]
    <3>1. Take(i, q) /\ r.heard /\ r.part = "panel" /\ r.stage = "answered" /\ r.kind = "readAssigned"
      BY <2>1 DEF AssignedRead, Arrived
    <3>2. /\ Changes(q, page, {"panel"}) /\ DOMAIN q.panel = DOMAIN page.panel /\ q.panel.open = page.panel.open
          /\ q.panel.rows = r.rows /\ ~q.panel.assigning
      BY DEF Core, Fitting, PageRight, PageShape, PageFields, Changes
    <3> HIDE DEF q
    <3>3. QED
      BY <3>1, <3>2
  <2>2. CASE Unassigned(i)
    <3> DEFINE q == [page EXCEPT !.panel.rows = page.panel.rows \ r.rows, !.panel.pending = {}]
    <3>1. Take(i, q) /\ r.heard /\ r.part = "panel" /\ r.stage = "answered" /\ r.kind = "unassign"
      BY <2>2 DEF Unassigned, Arrived
    <3>2. /\ Changes(q, page, {"panel"}) /\ DOMAIN q.panel = DOMAIN page.panel /\ q.panel.open = page.panel.open
          /\ q.panel.rows = page.panel.rows \ r.rows /\ q.panel.assigning = page.panel.assigning
      BY DEF Core, Fitting, PageRight, PageShape, PageFields, Changes
    <3> HIDE DEF q
    <3>3. QED
      BY <3>1, <3>2
  <2>3. QED
    BY <2>1, <2>2
<1>2. Changes(q, page, {"panel", "status", "busy", "crossed"})
  BY <1>1, ChangesMore
<1>3. PageRight(q) /\ Holds(q, page)
  BY <1>1, <1>2, PanelOnlyRight
<1>4. /\ Fitting(page', requests') /\ Foot({"panel"}, {r.part}, {}) /\ Quiet
      /\ page' = q /\ requests' = Without(i)
  BY <1>1, <1>3, TakeHolds
<1>5. QED
  BY <1>1, <1>4

LEMMA SaveArrivesSteps ==
  ASSUME Core, NEW i \in Slots, SaveArrives(i), Rest
  PROVE  /\ Fitting(page', requests') /\ Quiet
         /\ requests[i].heard /\ requests[i].part = "save" /\ requests[i].stage = "answered"
         /\ \/ page.kind = "edit" /\ Foot({"saving"}, {"save"}, {"refresh"}) /\ ~page'.saving
            \/ page.kind = "wizard" /\ \E p : SavedPage(p, i)
<1> DEFINE r == requests[i]
           p == [page EXCEPT !.saving = FALSE, !.quiz = r.quiz]
<1>1. /\ r.heard /\ r.part = "save" /\ r.stage = "answered" /\ Quiet
      /\ IF page.kind = "edit" THEN TakeAndAsk(i, p, Ask("readQuiz", page.quiz, "refresh"))
         ELSE EnterStep(p, Without(i), r.total + 1)
  BY DEF SaveArrives, Arrived, Rest, Quiet
<1>2. Fits(page, r) /\ OfPage(page, r) /\ Brings(r) /\ Sorted(r) /\ PageRight(page)
  BY <1>1 DEF Core, Fitting, Fits
<1>3. /\ Changes(p, page, {"saving", "quiz"}) /\ ~p.saving /\ p.quiz = r.quiz
      /\ p.picker = page.picker /\ p.panel = page.panel /\ p.load = page.load /\ p.kind = page.kind /\ p.step = page.step
      /\ p.furthest = page.furthest /\ p.review = page.review /\ p.list = page.list /\ p.form = page.form
  BY <1>2 DEF Changes, PageRight, PageShape, PageFields
<1>4. /\ r.quiz # 0 /\ Made(r.quiz) /\ page.kind \in {"wizard", "edit"}
      /\ r.kind = "update" => r.quiz = page.quiz
      /\ r.kind # "update" => page.quiz = 0 /\ page.kind = "wizard"
      /\ page.kind = "wizard" => r.total \in {1, 3}
  BY <1>1, <1>2 DEF OfPage, Brings, Sorted
<1> HIDE DEF p
<1>5. PageRight(p)
  <2>1. PageShape(p)
    BY <1>2, <1>3 DEF Changes, PageRight, PageShape
  <2>2. StepRight(p)
    BY <1>2, <1>3, <1>4 DEF PageRight, StepRight
  <2>3. PartsRight(p)
    BY <1>2, <1>3, <1>4 DEF PageRight, PartsRight
  <2>4. QED
    BY <1>2, <1>3, <2>1, <2>2, <2>3 DEF PageRight
<1>6. ASSUME NEW j \in Slots \ {i}, Fits(page, requests[j]), requests[j].heard
      PROVE  OfPage(p, requests[j])
  BY <1>1, <1>6, <1>3, <1>4 DEF Core, Fitting, Single, Fits, OfPage
<1>7. CASE page.kind = "edit"
  <2> DEFINE ask == Ask("readQuiz", page.quiz, "refresh")
  <2>1. TakeAndAsk(i, p, ask) /\ r.kind = "update" /\ p.quiz = page.quiz /\ page.quiz # 0
    BY <1>1, <1>3, <1>4, <1>7
  <2>2. Changes(p, page, {"saving"})
    BY <1>3, <2>1 DEF Changes
  <2>3. Fits(p, ask)
    BY <1>3, <1>7, <2>1, AskIs, <1>2, AskFits DEF OfPage, PageRight, StepRight, Asks
  <2>4. ask.part = "refresh" /\ Alone(Without(i), ask)
    BY AskIs DEF Alone
  <2> HIDE DEF ask
  <2>5. Fitting(page', requests') /\ Foot({"saving"}, {r.part}, {ask.part}) /\ page' = p
    BY <1>5, <1>6, <2>1, <2>2, <2>3, <2>4, TakeAndAskSteps
  <2>6. QED
    BY <1>1, <1>3, <1>7, <2>4, <2>5
<1>8. CASE page.kind = "wizard"
  <2>1. EnterStep(p, Without(i), r.total + 1) /\ r.total + 1 \in 1 .. 5
    BY <1>1, <1>4, <1>8
  <2>2. Fitting(p, Without(i)) /\ p.kind = "wizard" /\ p.quiz # 0
    BY <1>3, <1>4, <1>5, <1>6, <1>8, WithoutCore
  <2>3. CASE r.total + 1 = p.step
    BY <2>1, <2>3, <1>3, <1>4, <2>2, <1>1, <1>8 DEF EnterStep, SavedPage
  <2>4. CASE r.total + 1 # p.step
    BY <2>1, <2>2, <2>4, EnteredSteps, <1>3, <1>4, <1>1, <1>8 DEF SavedPage
  <2>5. QED
    BY <2>3, <2>4
<1>9. QED
  BY <1>4, <1>7, <1>8

\* A handler that goes on after its page is gone, or ends on it, turns the page.
LEMMA DraftEndsSteps ==
  ASSUME Core, NEW i \in Slots, DraftEnds(i), Rest
  PROVE  /\ Fitting(page', requests') /\ Quiet /\ TurnedSomewhere(Without(i)) /\ page'.kind # "wizard"
         /\ requests[i].part = "draft" /\ requests[i].heard
<1> DEFINE r == requests[i]
           kind == IF r.kind = "create" THEN "list" ELSE "edit"
<1>1. r.part = "draft" /\ r.heard /\ TurnTo(kind, r.quiz, Without(i)) /\ Quiet
  BY DEF DraftEnds, Rest, Quiet, Core, Fitting, Fits, Sorted
<1>2. Fitting(page, Without(i))
  BY WithoutFits DEF Core, Without
<1>3. r.quiz = 0 \/ Made(r.quiz)
  BY DEF Core, Fitting, Fits, Brings
<1>4. Fitting(page', requests') /\ TurnedSomewhere(Without(i)) /\ TurnedTo(page', kind, r.quiz)
  BY <1>1, <1>2, <1>3, TurnsSomewhere
<1>5. page'.kind # "wizard"
  <2> DEFINE q == page'
  <2>1. TurnedTo(q, kind, r.quiz)
    BY <1>4
  <2> HIDE DEF q
  <2>2. q.kind \in {kind, "missing"}
    BY <2>1, TurnedKind
  <2>3. QED
    BY <2>2 DEF q
<1>6. QED
  BY <1>1, <1>4, <1>5

LEMMA ActionDoneSteps ==
  ASSUME Core, NEW i \in Slots, ActionDone(i), Rest
  PROVE  /\ Fitting(page', requests') /\ Quiet /\ requests[i].part = "actions" /\ requests[i].heard
         /\ \/ TurnedSomewhere(Without(i)) /\ page'.kind # "wizard"
            \/ Foot({"busy"}, {"actions"}, {"refresh"}) /\ ~page'.busy
<1> DEFINE r == requests[i]
<1>1. /\ r.part = "actions" /\ r.heard /\ Quiet /\ Fits(page, r)
  BY DEF ActionDone, Arrived, Rest, Quiet, Core, Fitting
<1>2. CASE r.kind \in {"delete", "duplicate"}
  <2> DEFINE kind == IF r.kind = "delete" THEN "list" ELSE "edit"
             id == IF r.kind = "delete" THEN 0 ELSE r.quiz
  <2>1. TurnTo(kind, id, Without(i))
    BY <1>2 DEF ActionDone
  <2>2. Fitting(page, Without(i))
    BY WithoutFits DEF Core, Without
  <2>3. id = 0 \/ Made(id)
    BY <1>1 DEF Fits, Brings
  <2>4. Fitting(page', requests') /\ TurnedSomewhere(Without(i)) /\ TurnedTo(page', kind, id)
    BY <2>1, <2>2, <2>3, TurnsSomewhere
  <2>5. page'.kind # "wizard"
    <3> DEFINE q == page'
    <3>1. TurnedTo(q, kind, id)
      BY <2>4
    <3> HIDE DEF q
    <3>2. q.kind \in {kind, "missing"}
      BY <3>1, TurnedKind
    <3>3. QED
      BY <3>2 DEF q
  <2>6. QED
    BY <1>1, <2>4, <2>5
<1>3. CASE r.kind \notin {"delete", "duplicate"}
  <2> DEFINE ask == Ask("readQuiz", page.quiz, "refresh")
             q == [page EXCEPT !.busy = FALSE]
  <2>1. TakeAndAsk(i, q, ask)
    BY <1>3 DEF ActionDone
  <2>2. r.status # "gone" /\ page.kind = "edit"
    BY <1>1, <1>3 DEF Fits, Sorted, TurnsPage, OfPage
  <2>3. Changes(q, page, {"busy"}) /\ ~q.busy /\ PageRight(page)
    BY DEF Core, Fitting, PageRight, PageShape, PageFields, Changes
  <2> HIDE DEF q
  <2>4. PageRight(q) /\ Holds(q, page)
    BY <2>3, BusyRight
  <2>5. \A j \in Slots \ {i} : Fits(page, requests[j]) /\ requests[j].heard => OfPage(q, requests[j])
    BY <2>4, HoldsOfPage DEF Fits
  <2>6. Fits(q, ask)
    BY <2>2, <2>3, <2>4, AskIs, AskFits DEF PageRight, StepRight, Holds, OfPage, Asks
  <2>7. ask.part = "refresh" /\ Alone(Without(i), ask)
    BY AskIs DEF Alone
  <2> HIDE DEF ask
  <2>8. Fitting(page', requests') /\ Foot({"busy"}, {r.part}, {ask.part}) /\ page' = q
    BY <2>1, <2>3, <2>4, <2>5, <2>6, <2>7, TakeAndAskSteps
  <2>9. QED
    BY <1>1, <2>3, <2>7, <2>8
<1>4. QED
  BY <1>2, <1>3

-----------------------------------------------------------------------------
\* Refusals.

LEMMA HoldsServes ==
  ASSUME Core, NEW i \in Slots, NEW q, PageRight(q), Holds(q, page)
  PROVE  Serves(q, i)
BY HoldsOfPage DEF Serves, Fits

LEMMA SavedRight ==
  ASSUME Core, NEW i \in Slots, requests[i].heard, requests[i].part = "save", NEW q,
         Changes(q, page, {"saving", "error", "dirty", "asked"})
  PROVE  Serves(q, i)
<1>1. /\ q.kind = page.kind /\ q.quiz = page.quiz /\ q.step = page.step /\ q.furthest = page.furthest
      /\ q.list = page.list /\ q.form = page.form /\ q.load = page.load /\ q.picker = page.picker
      /\ q.panel = page.panel /\ q.review = page.review /\ DOMAIN q = PageFields
  BY DEF Changes, PageFields
<1>2. PageRight(q)
  BY <1>1 DEF Core, Fitting, PageRight, PageShape, StepRight, PartsRight
<1>3. ASSUME NEW j \in Slots \ {i}, Fits(page, requests[j]), requests[j].heard
      PROVE  OfPage(q, requests[j])
  BY <1>3, <1>1 DEF Core, Fitting, Single, Fits, OfPage
<1>4. QED
  BY <1>2, <1>3 DEF Serves

LEMMA UnreadyIs ==
  ASSUME Core, NEW i \in Slots, requests[i].part # "picker"
  PROVE  Undone(requests[i], Unready(requests[i]))
<1> DEFINE r == requests[i]
<1>1. PageShape(page)
  BY DEF Core, Fitting, PageRight
<1>2. CASE r.part \in {"list", "reload"}
  <2> DEFINE q == [page EXCEPT !.list.error = TRUE, !.list.loading = FALSE]
  <2>1. Unready(r) = q
    BY <1>2 DEF Unready
  <2>2. /\ Changes(q, page, {"list"}) /\ q.list.error
        /\ q.list.query = page.list.query /\ q.list.stray = page.list.stray /\ q.list.shown = page.list.shown
    BY <1>1 DEF PageShape, PageFields, Changes
  <2> HIDE DEF q
  <2>3. QED
    BY <1>2, <2>1, <2>2 DEF Undone
<1>3. CASE r.part = "save"
  <2> DEFINE q == [page EXCEPT !.saving = FALSE, !.error = TRUE, !.dirty = TRUE, !.asked = FALSE]
  <2>1. Unready(r) = q
    BY <1>3 DEF Unready
  <2>2. Changes(q, page, {"saving", "error", "dirty", "asked"}) /\ ~q.saving /\ q.dirty /\ ~q.asked
    BY <1>1 DEF PageShape, PageFields, Changes
  <2> HIDE DEF q
  <2>3. QED
    BY <1>3, <2>1, <2>2 DEF Undone
<1>4. CASE r.part \in {"publish", "toggle"} \/ (r.part = "actions" /\ r.status # "gone")
  <2> DEFINE q == [page EXCEPT !.busy = FALSE]
  <2>1. Unready(r) = q
    BY <1>4 DEF Unready
  <2>2. Changes(q, page, {"busy"}) /\ ~q.busy
    BY <1>1 DEF PageShape, PageFields, Changes
  <2> HIDE DEF q
  <2>3. QED
    BY <1>4, <2>1, <2>2 DEF Undone
<1>5. CASE r.part = "panel" /\ r.kind = "unassign"
  <2> DEFINE q == [page EXCEPT !.panel.pending = {}]
  <2>1. Unready(r) = q
    BY <1>5 DEF Unready
  <2>2. /\ Changes(q, page, {"panel", "crossed"}) /\ q.panel.rows = page.panel.rows /\ q.crossed = page.crossed
        /\ q.panel.assigning = page.panel.assigning
    BY <1>1 DEF PageShape, PageFields, Changes
  <2> HIDE DEF q
  <2>3. QED
    BY <1>5, <2>1, <2>2 DEF Undone
<1>6. CASE r.part = "panel" /\ r.kind # "unassign"
  <2>1. PICK c : /\ page.crossed => c
                 /\ r.kind = "readAssigned" => c
                 /\ Unready(r) = [page EXCEPT !.panel.assigning = FALSE, !.crossed = c]
    <3>1. PICK c : c = (page.crossed \/ r.kind = "readAssigned")
      OBVIOUS
    <3>2. Unready(r) = [page EXCEPT !.panel.assigning = FALSE, !.crossed = (@ \/ r.kind = "readAssigned")]
      BY <1>6 DEF Unready
    <3>3. [page EXCEPT !.panel.assigning = FALSE, !.crossed = (@ \/ r.kind = "readAssigned")]
            = [page EXCEPT !.panel.assigning = FALSE, !.crossed = c]
      BY <1>1, <3>1 DEF PageShape, PageFields
    <3>4. QED
      BY <3>1, <3>2, <3>3
  <2> DEFINE q == [page EXCEPT !.panel.assigning = FALSE, !.crossed = c]
  <2>2. /\ Changes(q, page, {"panel", "crossed"}) /\ q.panel.rows = page.panel.rows /\ q.crossed = c
        /\ ~q.panel.assigning
    BY <1>1 DEF PageShape, PageFields, Changes
  <2>3. Unready(r) = q
    BY <2>1
  <2> HIDE DEF q
  <2>4. QED
    BY <1>6, <2>1, <2>2, <2>3 DEF Undone
<1>7. CASE /\ r.part \notin {"list", "reload", "save", "picker", "publish", "toggle", "panel"}
           /\ r.part = "actions" => r.status = "gone"
  BY <1>7 DEF Unready, Undone
<1>8. QED
  BY <1>2, <1>3, <1>4, <1>5, <1>6, <1>7

LEMMA UnreadyServes ==
  ASSUME Core, NEW i \in Slots, requests[i].part # "picker", requests[i].heard
  PROVE  LET q == Unready(requests[i]) IN Undone(requests[i], q) /\ Serves(q, i)
<1> DEFINE r == requests[i]
           q == Unready(r)
<1>1. Undone(r, q)
  BY UnreadyIs
<1>2. PageShape(page) /\ PageRight(page)
  BY DEF Core, Fitting, PageRight
<1>3. DOMAIN q.list = DOMAIN page.list /\ q.list.rows = page.list.rows /\ DOMAIN q.panel = DOMAIN page.panel /\ q.panel.open = page.panel.open
  BY <1>2 DEF PageShape, PageFields, Unready
<1> HIDE DEF q
<1>4. CASE r.part \in {"list", "reload"}
  BY <1>1, <1>4, <1>2, <1>3, ListOnlyRight, HoldsServes DEF Undone, ListedRight, PageRight, q
<1>5. CASE r.part = "save"
  BY <1>1, <1>5, SavedRight DEF Undone, q
<1>6. CASE r.part \in {"publish", "toggle", "actions"} /\ Changes(q, page, {"busy"})
  BY <1>6, BusyRight, <1>1, HoldsServes DEF q
<1>7. CASE r.part = "panel"
  BY <1>1, <1>7, <1>3, PanelOnlyRight, HoldsServes DEF Undone, Changes, q
<1>8. CASE q = page
  BY <1>8, StaysAsItIs, <1>1, HoldsServes DEF q
<1>9. QED
  BY <1>1, <1>4, <1>5, <1>6, <1>7, <1>8 DEF Undone

LEMMA UndoneChanges ==
  ASSUME Core, NEW r, NEW q, Undone(r, q)
  PROVE  Changes(q, page, UndoneFields)
  BY StaysAsItIs, ChangesMore DEF Undone, UndoneFields

\* The row of the page is refused: the page is gone.
LEMMA RefreshRefused ==
  ASSUME Core, NEW i \in Slots, page' = NewPage("missing", 0), requests' = Forget(Without(i), PageParts)
  PROVE  Fitting(page', requests') /\ TurnedSomewhere(Without(i)) /\ page'.kind = "missing"
<1> DEFINE q == page'
           left == Forget(Without(i), PageParts)
<1>1. q = NewPage("missing", 0) /\ NewPart(q) /\ q.kind = "missing"
  BY NewPageIs
<1>2. Fitting(page, Without(i)) /\ Fitting(page, left)
  BY WithoutFits, ForgetFits DEF Core, Without
<1>3. PageRight(q)
  BY <1>1, NewPageRight
<1> HIDE DEF q
<1>4. Fitting(q, left)
  BY <1>2, <1>3, TurnedFits
<1>5. Untouched(q) /\ TurnedTo(q, "edit", 0)
  BY <1>1, PartsAreNew DEF Live, Quizzes, Untouched, NewPart, TurnedTo
<1>6. Turns(Without(i))
  BY <1>2 DEF Turns, Fitting
<1>7. \A j \in Slots : left[j].part = "list" /\ left[j].heard => left[j].query = AllQuizzes
  BY <1>2, AllForgotten DEF TurnsPage
<1>8. TurnedSomewhere(Without(i))
  BY <1>5, <1>6, <1>7 DEF TurnedSomewhere, q
<1>9. QED
  BY <1>1, <1>4, <1>8 DEF q

\* How a refusal is taken.
LEMMA RefusedSteps ==
  ASSUME Core, NEW i \in Slots, Refused(i), Rest
  PROVE  /\ Fitting(page', requests') /\ Quiet /\ requests[i].heard /\ requests[i].stage = "refused"
         /\ requests[i].part # "draft"
         /\ \/ /\ requests[i].part = "refresh" /\ TurnedSomewhere(Without(i)) /\ page'.kind = "missing"
            \/ /\ requests[i].part = "publishLoad" /\ Foot(LoadFields, {"publishLoad"}, {}) /\ requests' = Without(i)
               /\ LoadTaken(i, {})
            \/ /\ requests[i].part = "picker" /\ Foot({"picker"}, {"picker"}, {}) /\ requests' = Without(i)
               /\ ~page'.picker.saving /\ page'.picker.pool = page.picker.pool
               /\ page'.picker.touched = page.picker.touched /\ (page'.picker.saved => page.picker.saved)
            \/ /\ Undone(requests[i], page') /\ Foot(UndoneFields, {requests[i].part}, {}) /\ requests' = Without(i)
<1> DEFINE r == requests[i]
<1>1. r.stage = "refused" /\ r.part # "draft" /\ r.heard /\ Quiet
  BY DEF Refused, Core, Fitting, Fits, Sorted, Rest, Quiet
<1>2. CASE r.part = "refresh"
  BY <1>2, <1>1, RefreshRefused DEF Refused
<1>3. CASE r.part = "publishLoad"
  BY <1>3, <1>1, PublishLoadSteps DEF Refused
<1>4. CASE r.part = "picker"
  BY <1>4, <1>1, PickerSavedSteps DEF Refused, Unready
<1>5. CASE r.part \notin {"refresh", "publishLoad", "picker"}
  <2> DEFINE q == Unready(r)
  <2>1. Take(i, q)
    BY <1>5 DEF Refused
  <2>2. Undone(r, q) /\ Serves(q, i)
    BY <1>1, <1>5, UnreadyServes
  <2> HIDE DEF q
  <2>3. Changes(q, page, UndoneFields)
    BY <2>2, UndoneChanges
  <2>4. Fitting(page', requests') /\ Foot(UndoneFields, {r.part}, {}) /\ page' = q /\ requests' = Without(i)
    BY <2>1, <2>2, <2>3, TakeSteps DEF Serves
  <2>5. QED
    BY <1>1, <2>2, <2>4
<1>6. QED
  BY <1>2, <1>3, <1>4, <1>5

-----------------------------------------------------------------------------
\* Answers that are lost.

LEMMA LeftOverFits ==
  ASSUME Core, NEW i \in Slots, requests[i].heard, NEW next, LeftOver(i, next), NEW q, Serves(q, i)
  PROVE  Fitting(q, next) /\ Moves(next, requests, {requests[i].part}, {requests[i].part})
<1>1. /\ next = [j \in Slots |-> next[j]] /\ \A j \in Slots \ {i} : next[j] = requests[j]
      /\ Forgotten(requests[i], next[i])
  BY DEF LeftOver, Unheard, Forgotten
<1>2. Fits(page, next[i]) /\ ~next[i].heard /\ next[i].part \in {requests[i].part, "none"}
  <2>1. Fits(page, requests[i])
    BY DEF Core, Fitting
  <2>2. Fits(page, next[i])
    BY <1>1, <2>1, ForgottenFits
  <2>3. ~NoRequest.heard /\ NoRequest.part = "none"
    BY DEF NoRequest
  <2>4. ~next[i].heard /\ next[i].part \in {requests[i].part, "none"}
    <3>1. CASE next[i] = NoRequest
      BY <2>3, <3>1
    <3>2. CASE next[i] = [requests[i] EXCEPT !.heard = FALSE]
      BY <2>1, <3>2 DEF Fits, Fields, NoRequest
    <3>3. QED
      BY <3>1, <3>2 DEF LeftOver, Unheard
  <2>5. QED
    BY <2>2, <2>4
<1>3. \A j \in Slots : Fits(page, next[j]) /\ (next[j].heard => j # i /\ next[j] = requests[j])
  BY <1>1, <1>2 DEF Core, Fitting
<1>4. Single(next)
  BY <1>3 DEF Core, Fitting, Single
<1>5. Fitting(page, next)
  BY <1>1, <1>3, <1>4 DEF Core, Fitting
<1>6. \A j \in Slots : Fits(page, next[j]) /\ next[j].heard => OfPage(q, next[j])
  BY <1>3 DEF Serves
<1>7. Fitting(q, next)
  BY <1>5, <1>6, TurnFits DEF Serves
<1>8. Moves(next, requests, {requests[i].part}, {requests[i].part})
  BY <1>1, <1>2 DEF Moves
<1>9. QED
  BY <1>7, <1>8

LEMMA LoseIsLosing ==
  ASSUME Core, NEW i \in Slots, Lose(i)
  PROVE  Losing(i)
<1> DEFINE r == requests[i]
           s == IF r.kind \in Reads \/ r.stage = "answered" THEN NoRequest ELSE [r EXCEPT !.heard = FALSE]
           left == [Without(i) EXCEPT ![i] = s]
<1>1. Without(i) = [j \in Slots |-> IF j = i THEN NoRequest ELSE requests[j]]
  BY DEF Without, Core, Fitting
<1>2. left = [j \in Slots |-> IF j = i THEN s ELSE requests[j]]
  BY <1>1
<1>3. r.heard /\ r.stage \in {"sent", "answered"}
  BY DEF Lose
<1>4. Unheard(r, s) /\ (r.kind \in Reads => s = NoRequest)
  BY <1>3 DEF Unheard
<1> HIDE DEF s
<1>5. LeftOver(i, left) /\ left[i] = s
  BY <1>2, <1>4 DEF LeftOver
<1>6. QED
  BY <1>3, <1>4, <1>5 DEF Lose, Losing, s

LEMMA LosingPool ==
  ASSUME Core, NEW i \in Slots, Losing(i), requests[i].part = "pool"
  PROVE  Fitting(page', requests') /\ PoolLost(i)
<1> DEFINE r == requests[i]
           k == [NoPicker EXCEPT !.open = TRUE]
           q == [page EXCEPT !.picker = k]
           s == AskBank(AllQuizzes)
<1>1. r.heard /\ page.kind = "wizard" /\ page.step = 2 /\ ~page.picker.open /\ r.kind = "readPool"
  BY DEF Losing, Core, Fitting, Fits, OfPage, Sorted
<1>2. PICK left : LeftOver(i, left) /\ left[i] = NoRequest /\ page' = q /\ requests' = Put(left, s)
  BY <1>1 DEF Losing, Reads
<1>3. PageShape(page) /\ PartsRight(page)
  BY DEF Core, Fitting, PageRight
<1>4. DOMAIN k = DOMAIN page.picker /\ k.open /\ ~k.saving /\ ~k.saved /\ PickedRight(k)
  BY <1>3 DEF NoPicker, PageShape, PickedRight
<1> HIDE DEF k
<1>5. Changes(q, page, {"picker"}) /\ q.picker = k
  BY <1>3 DEF PageShape, PageFields, Changes
<1> HIDE DEF q
<1>6. PageRight(q) /\ \A x : x.part \notin {"picker", "pool"} /\ OfPage(page, x) => OfPage(q, x)
  BY <1>1, <1>4, <1>5, PickerOnlyRight
<1>7. \A j \in Slots \ {i} : requests[j].heard => requests[j].part \notin {"picker", "pool"}
  BY <1>1, <1>3 DEF PartsRight, Core, Fitting, Fits, OfPage, Single
<1>8. Serves(q, i)
  BY <1>6, <1>7 DEF Fits, Serves
<1>9. Fitting(q, left) /\ Moves(left, requests, {r.part}, {r.part})
  BY <1>1, <1>2, <1>8, LeftOverFits
<1>10. Moves(left, requests, {"pool"}, {})
  BY <1>2, <1>9 DEF LeftOver, Moves, NoRequest
<1>11. Fits(q, s) /\ s.part = "bank"
  BY <1>4, <1>5, BankAskFits DEF Of
<1>12. Alone(left, s)
  BY <1>11 DEF Alone
<1>13. FreeSlots(left) # {}
  BY <1>2 DEF FreeSlots
<1> HIDE DEF s
<1>14. Fitting(q, Put(left, s))
  BY <1>9, <1>11, <1>12, <1>13, PutFits
<1>15. Moves(Put(left, s), left, {}, {"bank"})
  BY <1>9, <1>11, <1>13, SendMoves DEF Fitting
<1>16. Moves(Put(left, s), requests, {"pool"} \union {}, {} \union {"bank"})
  BY <1>10, <1>15, MovesTwice
<1>17. Moves(Put(left, s), requests, {"pool"}, {"bank"})
  BY <1>16, MovesMore
<1>18. QED
  BY <1>2, <1>4, <1>5, <1>14, <1>17 DEF PoolLost, Foot

LEMMA LosingLoad ==
  ASSUME Core, NEW i \in Slots, Losing(i), requests[i].part = "publishLoad"
  PROVE  Fitting(page', requests') /\ LoadLost(i)
<1> DEFINE r == requests[i]
           q == [page EXCEPT !.status = "draft", !.load = NoLoad]
<1>1. r.heard /\ page.kind = "wizard" /\ page.step = 5 /\ ~page.panel.open /\ r.kind \in Reads
  BY DEF Losing, Core, Fitting, Fits, PageRight, OfPage, Sorted, PartsRight, Reads
<1>2. PICK left : LeftOver(i, left) /\ left[i] = NoRequest /\ page' = q /\ requests' = Forget(left, {"publishLoad"})
  BY <1>1 DEF Losing
<1>3. Changes(q, page, {"status", "load"}) /\ q.load = NoLoad
  BY DEF Core, Fitting, PageRight, PageShape, PageFields, Changes
<1> HIDE DEF q
<1>4. /\ q.kind = page.kind /\ q.quiz = page.quiz /\ q.step = page.step /\ q.furthest = page.furthest
      /\ q.list = page.list /\ q.form = page.form /\ q.picker = page.picker /\ q.saving = page.saving
      /\ q.panel = page.panel /\ q.review = page.review /\ DOMAIN q = PageFields
  BY <1>3 DEF Changes, PageFields
<1>5. PageRight(q)
  BY <1>1, <1>3, <1>4, PartsAreNew DEF Core, Fitting, PageRight, PageShape, StepRight, PartsRight
<1> DEFINE next == Forget(left, {"publishLoad"})
<1>6. Serves(page, i)
  BY DEF Serves, Core, Fitting, Fits
<1>7. Fitting(page, left) /\ Moves(left, requests, {r.part}, {r.part})
  BY <1>1, <1>2, <1>6, LeftOverFits
<1>8. Fitting(page, next) /\ Moves(next, left, {"publishLoad"}, {"publishLoad"})
  BY <1>7, ForgetFits, ForgetMoves
<1>9. \A j \in Slots : next[j] = left[j] \/ next[j] = NoRequest
  <2> SUFFICES ASSUME NEW j \in Slots, left[j].part = "publishLoad", left[j].heard
               PROVE  next[j] = NoRequest
    BY <1>7 DEF Fitting, Forget
  <2>1. left[j].kind \in Reads
    BY <1>7 DEF Fitting, Fits, Sorted, Reads
  <2>2. ~TurnsPage(left[j])
    BY DEF TurnsPage
  <2>3. QED
    BY <2>1, <2>2 DEF Forget
<1>10. ASSUME NEW j \in Slots, Fits(page, next[j]), next[j].heard
       PROVE  OfPage(q, next[j])
  <2>1. next[j].part # "publishLoad"
    <3>1. ASSUME next[j].part = "publishLoad" PROVE FALSE
      BY <1>7, <1>10, <3>1, GoneTurns DEF TurnsPage
    <3>2. QED
      BY <3>1
  <2>2. OfPage(page, next[j])
    BY <1>10 DEF Fits
  <2>3. page.load.left # {}
    BY DEF Losing, Core, Fitting, Fits, OfPage
  <2>4. next[j].part # "publish"
    BY <2>2, <2>3 DEF OfPage
  <2>5. QED
    BY <1>4, <2>1, <2>2, <2>4 DEF OfPage
<1>11. Fitting(q, next)
  BY <1>5, <1>8, <1>10, TurnFits
<1>12. Moves(next, requests, {"publishLoad"} \union {"publishLoad"}, {"publishLoad"} \union {"publishLoad"})
  BY <1>7, <1>8, MovesTwice
<1>13. Moves(next, requests, {"publishLoad"}, {"publishLoad"})
  BY <1>12, MovesMore
<1>14. \A j \in Slots : next[j] = requests[j] \/ next[j] = NoRequest
  BY <1>2, <1>9 DEF LeftOver
<1> HIDE DEF next
<1>15. QED
  BY <1>2, <1>3, <1>11, <1>13, <1>14 DEF LoadLost, Foot, next

LEMMA LosingOther ==
  ASSUME Core, NEW i \in Slots, Losing(i), requests[i].part \notin {"pool", "publishLoad"}
  PROVE  Fitting(page', requests') /\ OtherLost(i)
<1> DEFINE r == requests[i]
<1>1. r.heard
  BY DEF Losing
<1>2. CASE r.part \in {"list", "reload", "panel"}
  <2> DEFINE q == Unready(r)
  <2>1. page' = q /\ LeftOver(i, requests')
    BY <1>2 DEF Losing
  <2>2. Undone(r, q) /\ Serves(q, i)
    BY <1>1, <1>2, UnreadyServes
  <2> HIDE DEF q
  <2>3. Changes(q, page, {"list", "panel", "crossed"})
    BY <1>2, <2>2 DEF Undone, Changes
  <2>4. Fitting(q, requests') /\ Moves(requests', requests, {r.part}, {r.part})
    BY <1>1, <2>1, <2>2, LeftOverFits
  <2>5. QED
    BY <1>2, <2>1, <2>2, <2>3, <2>4 DEF OtherLost, Foot
<1>3. CASE r.part \in {"save", "draft"}
  <2> DEFINE q == [page EXCEPT !.dirty = TRUE]
  <2>1. page' = q /\ LeftOver(i, requests')
    BY <1>3 DEF Losing
  <2>2. Changes(q, page, {"dirty"}) /\ q.dirty
    BY DEF Core, Fitting, PageRight, PageShape, PageFields, Changes
  <2> HIDE DEF q
  <2>3. Changes(q, page, PlainFields)
    BY <2>2, ChangesMore DEF PlainFields
  <2>4. Serves(q, i)
    BY <2>3, PlainRight, HoldsServes
  <2>5. Fitting(q, requests') /\ Moves(requests', requests, {r.part}, {r.part})
    BY <1>1, <2>1, <2>4, LeftOverFits
  <2>6. QED
    BY <1>3, <2>1, <2>2, <2>5 DEF OtherLost, Foot
<1>4. CASE r.part \notin {"list", "reload", "panel", "save", "draft"}
  BY <1>4, StaysAsItIs, HoldsServes, <1>1, LeftOverFits DEF Losing, OtherLost, Foot
<1>5. QED
  BY <1>2, <1>3, <1>4

LEMMA LoseSteps ==
  ASSUME Core, NEW i \in Slots, Lose(i)
  PROVE  /\ Fitting(page', requests') /\ lost' /\ UNCHANGED <<storeOnly, elsewhere, resent, opened, made>>
         /\ requests[i].heard /\ requests[i].stage \in {"sent", "answered"}
         /\ PoolLost(i) \/ LoadLost(i) \/ OtherLost(i)
  BY LoseIsLosing, LosingPool, LosingLoad, LosingOther DEF Losing

-----------------------------------------------------------------------------
\* The handlers: each changes one request, and some the tables.

LEMMA StageIs ==
  ASSUME NEW x, DOMAIN x = Fields, NEW stage
  PROVE  OnlyStage([x EXCEPT !.stage = stage], x, stage)
BY DEF OnlyStage, Fields, NoRequest

LEMMA FieldsOf == Core => \A i \in Slots : DOMAIN requests[i] = Fields /\ requests = [j \in Slots |-> requests[j]]
BY DEF Core, Fitting, Fits

LEMMA AlikeOnly ==
  ASSUME NEW r, NEW x, NEW s, NEW stage, Alike(r, x), OnlyStage(s, x, stage)
  PROVE  Alike(r, s)
BY DEF Alike, OnlyStage

LEMMA AnswerServed ==
  ASSUME Core, NEW i \in Slots, NEW x, Alike(requests[i], x), Answer(i, x),
         requests[i].stage \notin {"free", "answered", "refused"}
  PROVE  \E s : /\ Served(i, s)
                /\ \/ s = NoRequest /\ ~requests[i].heard
                   \/ OnlyStage(s, x, "answered") /\ requests[i].heard
<1> DEFINE s == IF x.heard THEN [x EXCEPT !.stage = "answered"] ELSE NoRequest
<1>1. requests' = [requests EXCEPT ![i] = s]
  BY DEF Answer, Becomes
<1>2. x.heard = requests[i].heard /\ DOMAIN x = Fields
  BY DEF Alike
<1>3. \/ s = NoRequest /\ ~requests[i].heard
      \/ OnlyStage(s, x, "answered") /\ requests[i].heard
  BY <1>2, StageIs
<1> HIDE DEF s
<1>4. requests' = [j \in Slots |-> IF j = i THEN s ELSE requests[j]]
  BY <1>1, FieldsOf
<1>5. Handled(requests[i], s)
  <2>1. CASE OnlyStage(s, x, "answered") /\ requests[i].heard
    BY <2>1, AlikeOnly, <1>2 DEF Handled, OnlyStage
  <2>2. QED
    BY <1>3, <2>1 DEF Handled
<1>6. QED
  BY <1>3, <1>4, <1>5 DEF Served

LEMMA AlikeItself ==
  ASSUME Core, NEW i \in Slots
  PROVE  Alike(requests[i], requests[i])
BY FieldsOf DEF Alike

LEMMA RefuseServed ==
  ASSUME Core, NEW i \in Slots, Refuse(i), requests[i].stage \notin {"free", "answered", "refused"}
  PROVE  \E s : /\ Served(i, s)
                /\ \/ s = NoRequest /\ ~requests[i].heard
                   \/ OnlyStage(s, requests[i], "refused") /\ requests[i].heard
<1> DEFINE r == requests[i]
           s == IF r.heard THEN [r EXCEPT !.stage = "refused"] ELSE NoRequest
<1>1. requests' = [requests EXCEPT ![i] = s]
  BY DEF Refuse, Becomes
<1>2. DOMAIN r = Fields
  BY FieldsOf
<1>3. \/ s = NoRequest /\ ~r.heard
      \/ OnlyStage(s, r, "refused") /\ r.heard
  BY <1>2, StageIs
<1> HIDE DEF s
<1>4. requests' = [j \in Slots |-> IF j = i THEN s ELSE requests[j]]
  BY <1>1, FieldsOf
<1>5. Handled(r, s)
  <2>1. CASE OnlyStage(s, r, "refused") /\ r.heard
    BY <2>1, AlikeItself, AlikeOnly DEF Handled, OnlyStage
  <2>2. QED
    BY <1>3, <2>1 DEF Handled
<1>6. QED
  BY <1>3, <1>4, <1>5 DEF Served

LEMMA BecomesServed ==
  ASSUME Core, NEW i \in Slots, NEW x, Alike(requests[i], x), Becomes(i, x),
         requests[i].stage \notin {"free", "answered", "refused"},
         x.stage \notin {"free", "sent", "answered", "refused"}
  PROVE  Served(i, x)
  BY FieldsOf DEF Becomes, Served, Handled

LEMMA MadeStays ==
  ASSUME Grows, NEW id, Made(id)
  PROVE  Made(id)'
BY DEF Grows, Made

LEMMA NothingBrings == Brings(NoRequest)'
BY DEF Brings, NoRequest

LEMMA BringsStays ==
  ASSUME Grows, NEW r, Brings(r)
  PROVE  Brings(r)'
BY MadeStays DEF Brings

LEMMA BringsAlong ==
  ASSUME Grows, NEW r, Brings(r), r.stage # "answered", NEW s, s.kind = r.kind, s.quiz = r.quiz, s.target = r.target,
         s.kind = "create" => s.stage # "answered",
         s.stage = "answered" => s.kind \notin {"bank", "readPool", "list"},
         s.kind = "duplicate" => s.stage # "ready"
  PROVE  Brings(s)'
BY MadeStays DEF Brings

LEMMA BringsRefused ==
  ASSUME Grows, NEW r, Brings(r), r.stage # "answered", NEW s, OnlyStage(s, r, "refused")
  PROVE  Brings(s)'
BY BringsAlong DEF OnlyStage

LEMMA ServedKeeps ==
  ASSUME Core, NEW i \in Slots, NEW s, Served(i, s), UNCHANGED <<page, elsewhere>>, Grows, Brings(s)', StoreTyped'
  PROVE  Core'
<1> DEFINE r == requests[i]
           next == requests'
           p == page
<1>1. /\ next = [j \in Slots |-> next[j]] /\ next[i] = s /\ Handled(r, s) /\ r.stage # "free"
      /\ \A j \in Slots : j # i => next[j] = requests[j]
  BY DEF Served
<1>2. Fits(p, r) /\ PageRight(p)
  BY DEF Core, Fitting
<1>3. PageRight(page)'
  BY <1>2, MadeStays DEF PageRight, StepRight, ListedRight, PageShape, PartsRight, PickedRight
<1>4. ASSUME NEW j \in Slots, j # i
      PROVE  Fits(page, requests[j])'
  <2>1. PICK x : x = requests[j]
    OBVIOUS
  <2>2. Fits(page, x) /\ x = requests'[j]
    BY <1>1, <1>4, <2>1 DEF Core, Fitting
  <2>3. Brings(x)'
    BY <2>2, BringsStays DEF Fits
  <2>4. Sorted(x)' /\ Own(x)' /\ (x.heard => OfPage(page, x)')
    BY <2>2 DEF Fits, Sorted, Own, OfPage, TurnsPage
  <2>5. Fits(page, x)'
    BY <2>2, <2>3, <2>4 DEF Fits
  <2>6. QED
    BY <2>2, <2>5
<1>5. CASE s = NoRequest
  <2>1. Fits(page, requests[i])'
    BY <1>1, <1>5, NothingBrings DEF Fits, Fields, NoRequest, Sorted, Own, TurnsPage
  <2>2. ~s.heard
    BY <1>5 DEF NoRequest
  <2>3. Single(requests)'
    BY <1>1, <2>2 DEF Core, Fitting, Single
  <2>4. Fitting(page, requests)'
    BY <1>1, <1>3, <1>4, <2>1, <2>3 DEF Fitting
  <2>5. QED
    BY <2>4 DEF Core
<1>6. CASE s # NoRequest
  <2>1. /\ Alike(r, s) /\ s.stage \notin {"free", "sent"} /\ (s.stage \in {"answered", "refused"} => s.heard)
    BY <1>1, <1>6 DEF Handled
  <2>2. Sorted(s)
    BY <1>2, <2>1 DEF Fits, Sorted, Alike, TurnsPage
  <2>3. elsewhere = 0 => s.part # "none"
    BY <1>1, <1>2, <2>1 DEF NoRequest, Fits, Own, Alike
  <2>4. s.heard => OfPage(p, s)
    <3> SUFFICES ASSUME s.heard PROVE OfPage(p, s)
      OBVIOUS
    <3>1. OfPage(p, r) /\ Sorted(r)
      BY <1>2, <2>1 DEF Fits, Alike
    <3>2. s.part = r.part /\ s.kind = r.kind
      BY <2>1 DEF Alike
    <3>3. r.part \in {"pool", "picker", "review", "publishLoad", "publish", "panel", "toggle", "refresh"}
            => s.quiz = r.quiz
      BY <2>1, <3>1 DEF Alike, Sorted
    <3>4. r.part = "save" => s.total = r.total /\ (r.kind = "update" => s.quiz = r.quiz)
      BY <2>1, <3>1 DEF Alike, Sorted
    <3>5. r.part = "actions" => s.status = r.status
      BY <2>1, <3>1 DEF Alike, Sorted, LifeCycle
    <3>6. QED
      BY <3>1, <3>2, <3>3, <3>4, <3>5 DEF OfPage
  <2>5. Fits(page, requests[i])'
    <3>1. DOMAIN s = Fields
      BY <2>1 DEF Alike
    <3>2. Sorted(requests[i])' /\ Own(requests[i])'
      BY <1>1, <2>2, <2>3 DEF Sorted, Own, TurnsPage
    <3>3. (requests[i].heard => OfPage(page, requests[i]))'
      BY <1>1, <2>4 DEF OfPage
    <3>4. Brings(requests[i])'
      BY <1>1
    <3>5. (DOMAIN requests[i] = Fields)'
      BY <1>1, <3>1 DEF Fields, NoRequest
    <3>6. QED
      BY <3>2, <3>3, <3>4, <3>5 DEF Fits
  <2>6. Single(requests)'
    BY <2>1, <1>1 DEF Alike, Core, Fitting, Single
  <2>7. Fitting(page, requests)'
    BY <1>1, <1>3, <1>4, <2>5, <2>6 DEF Fitting
  <2>8. QED
    BY <2>7 DEF Core
<1>7. QED
  BY <1>5, <1>6

LEMMA StoreKept ==
  ASSUME StoreTyped, UNCHANGED <<quiz, pool, assigned, serial, alive, elsewhere>>
  PROVE  StoreTyped' /\ Grows
BY DEF StoreTyped, Grows, PoolRow

LEMMA GoesOn ==
  ASSUME Core, NEW i \in Slots, NEW x, Alike(requests[i], x), Becomes(i, x),
         requests[i].stage \notin {"free", "answered", "refused"},
         x.stage \notin {"free", "sent", "answered", "refused"}, x.quiz = requests[i].quiz,
         x.kind = "duplicate" => x.stage # "ready", UNCHANGED <<quiz, pool, assigned, serial, alive, elsewhere>>
  PROVE  ServeRight(i)
<1>1. StoreTyped' /\ Grows
  BY StoreKept DEF Core
<1>2. Served(i, x)
  BY BecomesServed
<1>3. PICK r : r = requests[i]
  OBVIOUS
<1>4. Brings(r) /\ x.kind = r.kind /\ x.quiz = r.quiz /\ x.target = r.target /\ r.stage # "answered"
  BY <1>3 DEF Core, Fitting, Fits, Alike
<1>5. Brings(x)'
  BY <1>1, <1>4, BringsAlong
<1>6. QED
  BY <1>1, <1>2, <1>5 DEF ServeRight

LEMMA IsRefused ==
  ASSUME Core, NEW i \in Slots, Refuse(i), requests[i].stage \notin {"free", "answered", "refused"},
         UNCHANGED <<quiz, pool, assigned, serial, alive, elsewhere>>
  PROVE  ServeRight(i)
<1>1. StoreTyped' /\ Grows
  BY StoreKept DEF Core
<1>2. PICK s : /\ Served(i, s)
               /\ \/ s = NoRequest /\ ~requests[i].heard
                  \/ OnlyStage(s, requests[i], "refused") /\ requests[i].heard
  BY RefuseServed
<1>3. PICK r : r = requests[i]
  OBVIOUS
<1>4. Brings(r)
  BY <1>3 DEF Core, Fitting, Fits
<1>5. Brings(s)'
  <2>1. CASE s = NoRequest
    BY <2>1, NothingBrings
  <2>2. CASE OnlyStage(s, r, "refused")
    BY <1>1, <1>3, <1>4, <2>2, BringsRefused
  <2>3. QED
    BY <1>2, <1>3, <2>1, <2>2
<1>6. QED
  BY <1>1, <1>2, <1>5 DEF ServeRight

\* A handler that only goes on, or refuses.
LEMMA GoingOnServes ==
  ASSUME IInv, Core, NEW i \in Slots, UNCHANGED elsewhere,
         \/ RequireOwnedQuiz(i) \/ CountPool(i) \/ VerifyQuestions(i) \/ DeletePool(i) \/ WakeDelete(i)
         \/ RequirePublishedQuiz(i) \/ FindExisting(i) \/ CountQuizzes(i)
  PROVE  ServeRight(i)
<1> DEFINE r == requests[i]
<1>1. UNCHANGED <<quiz, pool, assigned, serial, alive, elsewhere>>
  BY DEF RequireOwnedQuiz, CountPool, VerifyQuestions, DeletePool, WakeDelete, RequirePublishedQuiz, FindExisting,
         CountQuizzes, Reading
<1>2. r.stage \notin {"free", "answered", "refused"} /\ r.stage \in {"sent", "counted", "checked", "ready", "waiting", "published"}
  BY DEF RequireOwnedQuiz, CountPool, VerifyQuestions, DeletePool, WakeDelete, RequirePublishedQuiz, FindExisting,
         CountQuizzes, At
<1>3. CASE Refuse(i)
  BY <1>1, <1>2, <1>3, IsRefused
<1>4. CASE ~Refuse(i)
  <2>1. DOMAIN r = Fields
    BY FieldsOf
  <2>2. PICK x : /\ Becomes(i, x) /\ Alike(r, x) /\ x.quiz = r.quiz
                 /\ x.stage \in {"checked", "counted", "ready", "waiting", "deleted", "published"}
                 /\ x.kind = "duplicate" => x.stage # "ready"
    <3>1. CASE RequireOwnedQuiz(i)
      <4> DEFINE next == IF r.stage = "sent" THEN "checked" ELSE "ready"
                 row == IF r.kind \in {"publish", "duplicate"} THEN quiz[r.quiz].settings ELSE r.settings
                 x == [r EXCEPT !.stage = next, !.settings = row]
      <4>1. Becomes(i, x)
        BY <1>4, <3>1 DEF RequireOwnedQuiz
      <4>2. r.kind = "duplicate" => r.stage # "counted"
        BY DEF IInv, StoreInv, Underway, Shape
      <4>3. row = r.settings \/ r.kind \in {"publish", "duplicate"}
        OBVIOUS
      <4>4. next \in {"checked", "ready"} /\ (next = "ready" => r.stage # "sent")
        OBVIOUS
      <4> HIDE DEF row, next
      <4>5. Alike(r, x) /\ x.quiz = r.quiz /\ x.stage = next /\ x.kind = r.kind
        BY <2>1, <4>3 DEF Alike, Fields, NoRequest
      <4> HIDE DEF x
      <4>6. QED
        BY <3>1, <4>1, <4>2, <4>4, <4>5 DEF RequireOwnedQuiz
    <3>2. CASE CountPool(i)
      <4> DEFINE x == [r EXCEPT !.stage = "counted"]
      <4>1. Becomes(i, x) /\ r.kind = "publish"
        BY <1>4, <3>2 DEF CountPool, At
      <4>2. Alike(r, x) /\ x.quiz = r.quiz /\ x.stage = "counted"
        BY <2>1 DEF Alike, Fields, NoRequest
      <4> HIDE DEF x
      <4>3. QED
        BY <4>1, <4>2
    <3>3. CASE VerifyQuestions(i) \/ FindExisting(i)
      <4> DEFINE x == [r EXCEPT !.stage = "ready"]
      <4>1. Becomes(i, x) /\ r.kind \in {"pool", "assign"}
        BY <1>4, <3>3 DEF VerifyQuestions, FindExisting, At
      <4>2. Alike(r, x) /\ x.quiz = r.quiz /\ x.stage = "ready" /\ x.kind = r.kind
        BY <2>1 DEF Alike, Fields, NoRequest
      <4> HIDE DEF x
      <4>3. QED
        BY <4>1, <4>2
    <3>4. CASE DeletePool(i)
      <4>1. PICK stage \in {"waiting", "deleted"} : Becomes(i, [r EXCEPT !.stage = stage, !.rows = pool[r.quiz]])
        BY <3>4 DEF DeletePool
      <4> DEFINE x == [r EXCEPT !.stage = stage, !.rows = pool[r.quiz]]
      <4>2. r.kind = "pool"
        BY <3>4 DEF DeletePool, At
      <4>3. Alike(r, x) /\ x.quiz = r.quiz /\ x.stage = stage /\ x.kind = r.kind
        BY <2>1, <4>2 DEF Alike, Fields, NoRequest
      <4>4. Becomes(i, x)
        BY <4>1
      <4> HIDE DEF x
      <4>5. QED
        BY <4>2, <4>3, <4>4
    <3>5. CASE WakeDelete(i)
      <4> DEFINE x == [r EXCEPT !.stage = "deleted", !.rows = r.rows \intersect pool[r.quiz]]
      <4>1. Becomes(i, x) /\ r.kind = "pool"
        BY <3>5 DEF WakeDelete, At
      <4>2. Alike(r, x) /\ x.quiz = r.quiz /\ x.stage = "deleted" /\ x.kind = r.kind
        BY <2>1, <4>1 DEF Alike, Fields, NoRequest
      <4> HIDE DEF x
      <4>3. QED
        BY <4>1, <4>2
    <3>6. CASE RequirePublishedQuiz(i)
      <4> DEFINE x == [r EXCEPT !.stage = "published"]
      <4>1. Becomes(i, x) /\ r.kind = "assign"
        BY <1>4, <3>6 DEF RequirePublishedQuiz, At
      <4>2. Alike(r, x) /\ x.quiz = r.quiz /\ x.stage = "published" /\ x.kind = r.kind
        BY <2>1 DEF Alike, Fields, NoRequest
      <4> HIDE DEF x
      <4>3. QED
        BY <4>1, <4>2
    <3>7. CASE CountQuizzes(i)
      <4>1. PICK n : Becomes(i, [r EXCEPT !.stage = "counted", !.total = n])
        BY <3>7 DEF CountQuizzes
      <4> DEFINE x == [r EXCEPT !.stage = "counted", !.total = n]
      <4>2. r.kind = "list"
        BY <3>7 DEF CountQuizzes, At
      <4>3. Alike(r, x) /\ x.quiz = r.quiz /\ x.stage = "counted" /\ x.kind = r.kind
        BY <2>1, <4>2 DEF Alike, Fields, NoRequest
      <4>4. Becomes(i, x)
        BY <4>1
      <4> HIDE DEF x
      <4>5. QED
        BY <4>2, <4>3, <4>4
    <3>8. QED
      BY <3>1, <3>2, <3>3, <3>4, <3>5, <3>6, <3>7
  <2>3. QED
    BY <1>1, <1>2, <2>2, GoesOn
<1>5. QED
  BY <1>3, <1>4

\* What is read is what the tables have.
LEMMA AnswersRight ==
  ASSUME Core, NEW i \in Slots, NEW x, Alike(requests[i], x), Answer(i, x),
         requests[i].stage \notin {"free", "answered", "refused"}, StoreTyped', Grows,
         \A s : OnlyStage(s, x, "answered") => Brings(s)'
  PROVE  ServeRight(i)
<1>1. PICK s : Served(i, s) /\ (s = NoRequest \/ OnlyStage(s, x, "answered"))
  BY AnswerServed
<1>2. Brings(s)'
  BY <1>1, NothingBrings
<1>3. QED
  BY <1>1, <1>2 DEF ServeRight

LEMMA ReadingServes ==
  ASSUME IInv, Core, NEW i \in Slots, UNCHANGED elsewhere,
         GetQuizQuestionPool(i) \/ GetQuiz(i) \/ ListAssignmentsForQuiz(i) \/ ListQuizzes(i) \/ ListQuestions(i)
  PROVE  ServeRight(i)
<1> DEFINE r == requests[i]
<1>1. UNCHANGED <<quiz, pool, assigned, serial, alive, elsewhere>>
  BY DEF GetQuizQuestionPool, GetQuiz, ListAssignmentsForQuiz, ListQuizzes, ListQuestions, Reading
<1>2. StoreTyped' /\ Grows /\ StoreTyped
  BY <1>1, StoreKept DEF Core
<1>3. DOMAIN r = Fields
  BY FieldsOf
<1>4. PICK old : old = r
  OBVIOUS
<1>5. Brings(old) /\ r.stage \notin {"free", "answered", "refused"}
  BY <1>4 DEF Core, Fitting, Fits, GetQuizQuestionPool, GetQuiz, ListAssignmentsForQuiz, ListQuizzes, ListQuestions, At
<1>6. CASE GetQuizQuestionPool(i)
  <2>1. r.kind = "readPool" /\ r.quiz \in Quizzes
    BY <1>6, FoundQuiz DEF GetQuizQuestionPool, At, IInv, Begun
  <2>2. PICK ids \in OrdersOf(pool[r.quiz]) : Answer(i, [r EXCEPT !.ids = ids])
    BY <1>6 DEF GetQuizQuestionPool
  <2>3. ids \in Seq(Questions)
    BY <1>2, <2>1, OrdersAreLists
  <2>4. PICK x : x = [r EXCEPT !.ids = ids]
    OBVIOUS
  <2>5. Alike(r, x) /\ x.quiz = old.quiz /\ x.kind = "readPool" /\ x.ids = ids
    BY <1>3, <1>4, <2>1, <2>4 DEF Alike, Fields, NoRequest
  <2>6. \A s : OnlyStage(s, x, "answered") => Brings(s)'
    BY <1>2, <1>5, <2>3, <2>5, MadeStays DEF OnlyStage, Brings
  <2>7. Answer(i, x)
    BY <2>2, <2>4
  <2>8. QED
    BY <1>2, <1>5, <2>5, <2>6, <2>7, AnswersRight
<1>7. CASE GetQuiz(i)
  <2>1. r.kind = "readQuiz" /\ r.quiz \in Quizzes
    BY <1>7, FoundQuiz DEF GetQuiz, At, IInv, Begun
  <2>2. PICK x : x = [r EXCEPT !.status = quiz[r.quiz].status]
    OBVIOUS
  <2>3. Answer(i, x)
    BY <1>7, <2>2 DEF GetQuiz
  <2>4. quiz[r.quiz].status # "gone"
    BY <1>2, <2>1 DEF StoreTyped, QuizRows
  <2>5. Alike(r, x) /\ x.quiz = old.quiz /\ x.kind = "readQuiz"
    BY <1>3, <1>4, <2>1, <2>2, <2>4 DEF Alike, Fields, NoRequest
  <2>6. \A s : OnlyStage(s, x, "answered") => Brings(s)'
    BY <1>2, <1>5, <2>5, MadeStays DEF OnlyStage, Brings
  <2>7. QED
    BY <1>2, <1>5, <2>3, <2>5, <2>6, AnswersRight
<1>8. CASE ListAssignmentsForQuiz(i)
  <2>1. PICK x : x = [r EXCEPT !.rows = assigned[r.quiz]]
    OBVIOUS
  <2>2. Answer(i, x) /\ r.kind = "readAssigned"
    BY <1>8, <2>1 DEF ListAssignmentsForQuiz, At
  <2>3. Alike(r, x) /\ x.quiz = old.quiz /\ x.kind = "readAssigned"
    BY <1>3, <1>4, <2>1, <2>2 DEF Alike, Fields, NoRequest
  <2>4. \A s : OnlyStage(s, x, "answered") => Brings(s)'
    BY <1>2, <1>5, <2>3, MadeStays DEF OnlyStage, Brings
  <2>5. QED
    BY <1>2, <1>5, <2>2, <2>3, <2>4, AnswersRight
<1>9. CASE ListQuizzes(i)
  <2> DEFINE rows == {[quiz |-> id, status |-> ToDisplayStatus(quiz[id])] :
                        id \in PageOf(Matching(r.query), r.query.page)}
  <2>1. PICK x : x = [r EXCEPT !.rows = rows]
    OBVIOUS
  <2>2. Answer(i, x) /\ r.kind = "list"
    BY <1>9, <2>1 DEF ListQuizzes, At
  <2>3. \A row \in rows : Made(row.quiz)
    <3> SUFFICES ASSUME NEW row \in rows PROVE Made(row.quiz)
      OBVIOUS
    <3>1. PICK id \in PageOf(Matching(r.query), r.query.page) : row = [quiz |-> id, status |-> ToDisplayStatus(quiz[id])]
      OBVIOUS
    <3>2. row.quiz = id
      BY <3>1
    <3>3. id \in Matching(r.query)
      BY DEF PageOf
    <3>4. QED
      BY <3>2, <3>3 DEF Matching, Live, Made
  <2> HIDE DEF rows
  <2>4. Alike(r, x) /\ x.quiz = old.quiz /\ x.kind = "list" /\ x.rows = rows
    BY <1>3, <1>4, <2>1, <2>2 DEF Alike, Fields, NoRequest
  <2>5. \A row \in x.rows : Made(row.quiz)'
    BY <1>2, <2>3, <2>4, MadeStays
  <2>6. \A s : OnlyStage(s, x, "answered") => Brings(s)'
    BY <1>2, <1>5, <2>4, <2>5, MadeStays DEF OnlyStage, Brings
  <2>7. QED
    BY <1>2, <1>5, <2>2, <2>4, <2>6, AnswersRight
<1>10. CASE ListQuestions(i)
  <2> DEFINE matching == {y \in alive : r.query.search => y \in Found}
  <2>1. PICK x : x = [r EXCEPT !.rows = PageOf(matching, r.query.page), !.total = Cardinality(matching)]
    OBVIOUS
  <2>2. Answer(i, x) /\ r.kind = "bank"
    BY <1>10, <2>1 DEF ListQuestions, At
  <2>3. PageOf(matching, r.query.page) \subseteq Questions
    BY <1>2 DEF PageOf, StoreTyped
  <2> HIDE DEF matching
  <2>4. Alike(r, x) /\ x.quiz = old.quiz /\ x.kind = "bank" /\ x.rows \subseteq Questions
    BY <1>3, <1>4, <2>1, <2>2, <2>3 DEF Alike, Fields, NoRequest
  <2>5. \A s : OnlyStage(s, x, "answered") => Brings(s)'
    BY <1>2, <1>5, <2>4, MadeStays DEF OnlyStage, Brings, Questions
  <2>6. QED
    BY <1>2, <1>5, <2>2, <2>4, <2>5, AnswersRight
<1>11. QED
  BY <1>6, <1>7, <1>8, <1>9, <1>10

LEMMA TypesOfStore ==
  ASSUME IInv', Core, UNCHANGED elsewhere, \A id \in Quizzes : pool'[id] \subseteq PoolRow,
         \A id \in Quizzes : assigned'[id] \subseteq [target : Targets, number : 1 .. serial'],
         UNCHANGED alive, serial' \in Nat
  PROVE  StoreTyped'
  BY DEF IInv, StoreInv, PoolRow, Core, StoreTyped

LEMMA TypesStay ==
  ASSUME IInv', Core, UNCHANGED <<pool, assigned, serial, alive, elsewhere>>
  PROVE  StoreTyped'
BY TypesOfStore DEF Core, StoreTyped

LEMMA RowIsWritten ==
  ASSUME IInv, Core, NEW i \in Slots,
         UpdateQuiz(i) \/ DeleteQuiz(i) \/ SetQuizStatus(i) \/ SetQuizShowResults(i)
  PROVE  Written(i)
<1> DEFINE r == requests[i]
           id == r.quiz
<1>1. /\ UNCHANGED <<pool, assigned, serial, alive>> /\ Answer(i, r) /\ r.stage \in Begun
      /\ r.kind \in {"update", "delete", "publish", "unpublish", "archive", "release", "hide"}
  BY DEF UpdateQuiz, DeleteQuiz, SetQuizStatus, SetQuizShowResults, At, Begun
<1>2. id \in Quizzes /\ quiz[id] \in QuizRows /\ quiz[id].status # "none" /\ r.settings \in Settings
  BY <1>1, FoundQuiz DEF IInv
<1>3. PICK row : /\ quiz' = [quiz EXCEPT ![id] = row] /\ row.status # "none"
                 /\ r.kind = "update" => row.settings = r.settings
                 /\ r.kind \notin {"update", "release", "hide"} => row.settings = quiz[id].settings
  <2>1. CASE UpdateQuiz(i)
    <3> DEFINE row == [quiz[id] EXCEPT !.settings = r.settings]
    <3>1. quiz' = [quiz EXCEPT ![id] = row] /\ r.kind = "update"
      BY <2>1 DEF UpdateQuiz, At
    <3>2. row.status # "none" /\ row.settings = r.settings
      BY <1>2 DEF QuizRows
    <3> HIDE DEF row
    <3>3. QED
      BY <3>1, <3>2
  <2>2. CASE DeleteQuiz(i)
    <3> DEFINE row == [quiz[id] EXCEPT !.deleted = TRUE]
    <3>1. quiz' = [quiz EXCEPT ![id] = row] /\ r.kind = "delete"
      BY <2>2 DEF DeleteQuiz, At
    <3>2. row.status # "none" /\ row.settings = quiz[id].settings
      BY <1>2 DEF QuizRows
    <3> HIDE DEF row
    <3>3. QED
      BY <3>1, <3>2
  <2>3. CASE SetQuizStatus(i)
    <3> DEFINE stored == CASE r.kind = "publish" -> "published" [] r.kind = "unpublish" -> "draft"
                           [] OTHER -> "archived"
               row == [quiz[id] EXCEPT !.status = stored]
    <3>1. quiz' = [quiz EXCEPT ![id] = row] /\ r.kind \in {"publish", "unpublish", "archive"}
      BY <2>3 DEF SetQuizStatus, At
    <3>2. stored # "none"
      OBVIOUS
    <3> HIDE DEF stored
    <3>3. row.status # "none" /\ row.settings = quiz[id].settings
      BY <1>2, <3>2 DEF QuizRows
    <3> HIDE DEF row
    <3>4. QED
      BY <3>1, <3>3
  <2>4. CASE SetQuizShowResults(i)
    <3> DEFINE settings == [quiz[id].settings EXCEPT !.show = r.kind = "release"]
               row == [quiz[id] EXCEPT !.settings = settings]
    <3>1. quiz' = [quiz EXCEPT ![id] = row] /\ r.kind \in {"release", "hide"}
      BY <2>4 DEF SetQuizShowResults, At
    <3> HIDE DEF settings
    <3>2. row.status # "none"
      BY <1>2 DEF QuizRows
    <3> HIDE DEF row
    <3>3. QED
      BY <3>1, <3>2
  <2>5. QED
    BY <2>1, <2>2, <2>3, <2>4
<1>4. QED
  BY <1>1, <1>2, <1>3 DEF Written

LEMMA WrittenServes ==
  ASSUME IInv', Core, NEW i \in Slots, UNCHANGED elsewhere, Written(i)
  PROVE  ServeRight(i)
<1> DEFINE r == requests[i]
<1>1. PICK row : quiz' = [quiz EXCEPT ![r.quiz] = row] /\ row.status # "none"
  BY DEF Written
<1>2. StoreTyped'
  BY TypesStay DEF Written
<1>3. Grows
  BY <1>1 DEF Grows, Core, StoreTyped
<1>4. PICK old : old = r
  OBVIOUS
<1>5. Brings(old) /\ r.stage \notin {"free", "answered", "refused"} /\ Answer(i, old) /\ Alike(r, old)
  BY <1>4, AlikeItself DEF Core, Fitting, Fits, Written, Begun
<1>6. \A s : OnlyStage(s, old, "answered") => Brings(s)'
  <2>1. old.kind \notin {"create", "bank", "readPool", "list", "duplicate"} /\ old.stage # "answered"
    BY <1>4, <1>5 DEF Written
  <2>2. ASSUME NEW s, OnlyStage(s, old, "answered") PROVE Brings(s)'
    BY <1>3, <1>5, <2>1, <2>2, BringsAlong DEF OnlyStage
  <2>3. QED
    BY <2>2
<1>7. QED
  BY <1>2, <1>3, <1>5, <1>6, AnswersRight

LEMMA RowIsAdded ==
  ASSUME Core, NEW i \in Slots, CreateQuiz(i) \/ DuplicateQuiz(i)
  PROVE  Added(i)
<1> DEFINE r == requests[i]
           row == [settings |-> r.settings, status |-> "draft", deleted |-> FALSE]
<1>1. DOMAIN r = Fields
  BY FieldsOf
<1>2. CASE CreateQuiz(i)
  <2>1. PICK id \in Quizzes : FreeRow(id) /\ quiz' = [quiz EXCEPT ![id] = row] /\ Answer(i, [r EXCEPT !.quiz = id])
    BY <1>2, Zenon DEF CreateQuiz
  <2>2. /\ UNCHANGED <<assigned, serial, alive, pool, overlapped>> /\ r.kind = "create" /\ r.stage = "sent"
        /\ quiz[id] = NoQuiz
    BY <1>2, <2>1 DEF CreateQuiz, At, FreeRow
  <2> DEFINE x == [r EXCEPT !.quiz = id]
  <2>3. /\ DOMAIN x = Fields /\ x.quiz = id /\ x.kind = r.kind /\ x.part = r.part /\ x.heard = r.heard
        /\ x.settings = r.settings /\ x.total = r.total /\ x.query = r.query /\ x.target = r.target
        /\ x.status = r.status /\ x.ids = r.ids /\ x.rows = r.rows
    BY <1>1 DEF Fields, NoRequest
  <2>4. row.status = "draft" /\ row.settings = r.settings /\ Answer(i, x)
    BY <2>1
  <2> HIDE DEF row, x
  <2>5. QED
    BY <2>1, <2>2, <2>3, <2>4 DEF Added, AddedAs
<1>3. CASE DuplicateQuiz(i)
  <2>1. PICK id \in Quizzes : /\ FreeRow(id) /\ quiz' = [quiz EXCEPT ![id] = row]
                              /\ pool' = [pool EXCEPT ![id] = r.rows]
                              /\ Answer(i, [r EXCEPT !.quiz = id, !.rows = {}])
    BY <1>3, Zenon DEF DuplicateQuiz
  <2>2. UNCHANGED <<assigned, serial, alive>> /\ r.kind = "duplicate" /\ r.stage = "ready" /\ quiz[id] = NoQuiz
    BY <1>3, <2>1 DEF DuplicateQuiz, At, FreeRow
  <2> DEFINE x == [r EXCEPT !.quiz = id, !.rows = {}]
  <2>3. /\ DOMAIN x = Fields /\ x.quiz = id /\ x.kind = r.kind /\ x.part = r.part /\ x.heard = r.heard
        /\ x.settings = r.settings /\ x.total = r.total /\ x.query = r.query /\ x.target = r.target
        /\ x.status = r.status /\ x.ids = r.ids
    BY <1>1 DEF Fields, NoRequest
  <2>4. row.status = "draft" /\ row.settings = r.settings /\ Answer(i, x)
    BY <2>1
  <2> HIDE DEF row, x
  <2>5. QED
    BY <2>1, <2>2, <2>3, <2>4 DEF Added, AddedAs
<1>4. QED
  BY <1>2, <1>3

LEMMA AddedServes ==
  ASSUME IInv, IInv', Core, NEW i \in Slots, UNCHANGED elsewhere, Added(i)
  PROVE  ServeRight(i)
<1> DEFINE r == requests[i]
<1>0. PICK id \in Quizzes : \E row, x : AddedAs(i, id, row, x)
  BY DEF Added
<1>1. PICK row, x :
    /\ quiz[id] = NoQuiz /\ quiz' = [quiz EXCEPT ![id] = row] /\ row.status = "draft" /\ row.settings = r.settings
    /\ Answer(i, x) /\ DOMAIN x = Fields /\ x.quiz = id /\ x.kind = r.kind /\ x.part = r.part /\ x.heard = r.heard
    /\ x.settings = r.settings /\ x.total = r.total /\ x.query = r.query /\ x.target = r.target
    /\ x.status = r.status /\ x.ids = r.ids /\ (r.kind = "create" => x.rows = r.rows)
    /\ r.kind \in {"create", "duplicate"} /\ r.stage \in {"sent", "ready"}
    /\ UNCHANGED <<assigned, serial, alive>> /\ (r.kind = "create" => r.stage = "sent" /\ UNCHANGED <<pool, overlapped>>)
    /\ r.kind = "duplicate" => r.stage = "ready" /\ pool' = [pool EXCEPT ![id] = r.rows]
  BY <1>0 DEF AddedAs
<1>2. StoreTyped /\ Brings(r)
  BY DEF Core, Fitting, Fits
<1>3. Grows /\ Made(id)'
  BY <1>1, <1>2 DEF Grows, StoreTyped, Made
<1>4. \A other \in Quizzes : pool'[other] \subseteq PoolRow
  <2>1. CASE r.kind = "create"
    BY <1>1, <1>2, <2>1 DEF StoreTyped
  <2>2. CASE r.kind = "duplicate"
    <3>1. r.rows \subseteq PoolRow
      BY <1>1, <1>2, <2>2 DEF Brings
    <3>2. pool = [other \in Quizzes |-> pool[other]]
      BY DEF IInv, StoreInv
    <3>3. \A other \in Quizzes : pool'[other] \in {pool[other], r.rows}
      BY <1>1, <2>2, <3>2
    <3>4. QED
      BY <1>2, <3>1, <3>3 DEF StoreTyped
  <2>3. QED
    BY <1>1, <2>1, <2>2
<1>5. StoreTyped'
  BY <1>1, <1>2, <1>4, TypesOfStore DEF StoreTyped
<1>6. Alike(r, x) /\ r.stage \notin {"free", "answered", "refused"}
  BY <1>1 DEF Alike
<1>7. \A s : OnlyStage(s, x, "answered") => Brings(s)'
  BY <1>1, <1>3 DEF OnlyStage, Brings, Made, Quizzes
<1>8. QED
  BY <1>1, <1>3, <1>5, <1>6, <1>7, AnswersRight

LEMMA RowsArePoolRows ==
  ASSUME NEW ids, PoolFits(ids)
  PROVE  RowsOf(ids) \subseteq PoolRow
<1>1. ids \in Seq(Questions) /\ DOMAIN ids = 1 .. Len(ids) /\ Len(ids) \in Nat /\ ids \in [1 .. Len(ids) -> Questions]
  BY DEF PoolFits
<1>2. ids \in Injection(1 .. Len(ids), Questions)
  BY <1>1 DEF PoolFits, Injection, IsInjective
<1>3. IsFiniteSet(Questions) /\ Cardinality(Questions) = MaxQuestions
  BY StoreAssumption, FS_Interval DEF Questions
<1>4. Cardinality(1 .. Len(ids)) = Len(ids)
  BY <1>1, FS_Interval
<1>5. Len(ids) <= MaxQuestions
  BY <1>2, <1>3, <1>4, FS_Injection
<1>6. \A n \in DOMAIN ids : ids[n] \in Questions /\ n \in Questions
  BY <1>1, <1>5, StoreAssumption DEF Questions
<1>7. QED
  BY <1>6 DEF RowsOf, PoolRow

LEMMA PoolIsReplaced ==
  ASSUME IInv, Core, NEW i \in Slots, InsertPool(i)
  PROVE  Replaced(i)
<1> DEFINE r == requests[i]
           rows == (pool[r.quiz] \ r.rows) \union RowsOf(r.ids)
           x == [r EXCEPT !.rows = {}]
<1>1. /\ UNCHANGED <<quiz, assigned, serial, alive, overlapped>> /\ r.kind = "pool" /\ r.stage = "deleted"
      /\ \/ Refuse(i) /\ UNCHANGED pool
         \/ pool' = [pool EXCEPT ![r.quiz] = rows] /\ Answer(i, x)
  BY Zenon DEF InsertPool, At
<1>2. r.quiz \in Quizzes /\ PoolFits(r.ids)
  BY <1>1, FoundQuiz DEF IInv, StoreInv, Underway, PoolParsed, Begun
<1>3. Alike(r, x) /\ x.quiz = r.quiz
  BY <1>1, FieldsOf DEF Alike, Fields, NoRequest
<1> HIDE DEF x
<1>4. QED
  BY <1>1, <1>2, <1>3 DEF Replaced

LEMMA ReplacedServes ==
  ASSUME IInv, IInv', Core, NEW i \in Slots, UNCHANGED elsewhere, Replaced(i)
  PROVE  ServeRight(i)
<1> DEFINE r == requests[i]
<1>1. UNCHANGED <<quiz, assigned, serial, alive>> /\ r.kind = "pool" /\ r.stage = "deleted" /\ r.quiz \in Quizzes
  BY DEF Replaced
<1>2. CASE Refuse(i) /\ UNCHANGED pool
  BY <1>1, <1>2, IsRefused
<1>3. CASE /\ pool' = [pool EXCEPT ![r.quiz] = (pool[r.quiz] \ r.rows) \union RowsOf(r.ids)]
           /\ \E x : Answer(i, x) /\ Alike(r, x) /\ x.quiz = r.quiz
  <2>1. PICK x : Answer(i, x) /\ Alike(r, x) /\ x.quiz = r.quiz
    BY <1>3
  <2>2. \A id \in Quizzes : pool'[id] \subseteq PoolRow
    BY RowsArePoolRows, <1>1, <1>3 DEF Replaced, IInv, StoreInv, Core, StoreTyped
  <2>3. StoreTyped' /\ Grows
    BY <1>1, <2>2, TypesOfStore DEF Core, StoreTyped, Grows
  <2>4. PICK old : old = r
    OBVIOUS
  <2>5. Brings(old)
    BY <2>4 DEF Core, Fitting, Fits
  <2>6. \A s : OnlyStage(s, x, "answered") => Brings(s)'
    <3>1. ASSUME NEW s, OnlyStage(s, x, "answered") PROVE Brings(s)'
      BY <1>1, <2>1, <2>3, <2>4, <2>5, <3>1, BringsAlong DEF OnlyStage, Alike
    <3>2. QED
      BY <3>1
  <2>7. QED
    BY <1>1, <2>1, <2>3, <2>6, AnswersRight
<1>4. QED
  BY <1>2, <1>3 DEF Replaced

LEMMA CopyServes ==
  ASSUME IInv, Core, NEW i \in Slots, UNCHANGED elsewhere, ReadPoolToCopy(i)
  PROVE  ServeRight(i)
<1> DEFINE r == requests[i]
<1>1. PICK x : x = [r EXCEPT !.stage = "ready", !.rows = pool[r.quiz]]
  OBVIOUS
<1>2. /\ Becomes(i, x) /\ r.kind = "duplicate" /\ r.stage = "checked"
      /\ UNCHANGED <<quiz, pool, assigned, serial, alive, elsewhere>>
  BY <1>1 DEF ReadPoolToCopy, At
<1>3. DOMAIN r = Fields /\ StoreTyped
  BY FieldsOf DEF Core
<1>4. /\ Alike(r, x) /\ x.quiz = r.quiz /\ x.stage = "ready" /\ x.kind = "duplicate" /\ x.rows = pool[r.quiz]
      /\ x.target = r.target
  BY <1>1, <1>2, <1>3 DEF Alike, Fields, NoRequest
<1>5. r.quiz \in Quizzes
  BY <1>2, FoundQuiz DEF IInv, Begun
<1>6. x.rows \subseteq PoolRow
  BY <1>3, <1>4, <1>5 DEF StoreTyped
<1>7. Served(i, x)
  BY <1>2, <1>4, BecomesServed
<1>8. StoreTyped' /\ Grows
  BY <1>2, <1>3, StoreKept
<1>9. PICK old : old = r
  OBVIOUS
<1>10. Brings(old)
  BY <1>9 DEF Core, Fitting, Fits
<1>11. Brings(x)'
  BY <1>4, <1>6, <1>8, <1>9, <1>10, MadeStays DEF Brings, PoolRow, Questions
<1>12. QED
  BY <1>7, <1>8, <1>11 DEF ServeRight

LEMMA AssignmentsGiven ==
  ASSUME IInv, Core, NEW i \in Slots, InsertAssignment(i) \/ DeleteAssignment(i)
  PROVE  Given(i)
<1>1. CASE InsertAssignment(i)
  BY <1>1, FoundQuiz DEF IInv, Begun, InsertAssignment, At, Given
<1>2. CASE DeleteAssignment(i)
  BY <1>2, FoundQuiz DEF IInv, Begun, DeleteAssignment, At, Given
<1>3. QED
  BY <1>1, <1>2

LEMMA GivenServes ==
  ASSUME IInv, IInv', Core, NEW i \in Slots, UNCHANGED elsewhere, Given(i)
  PROVE  ServeRight(i)
<1> DEFINE r == requests[i]
<1>1. PICK old : old = r
  OBVIOUS
<1>2. StoreTyped /\ Brings(old)
  BY <1>1 DEF Core, Fitting, Fits
<1>3. assigned = [id \in Quizzes |-> assigned[id]]
  BY DEF IInv, StoreInv
<1>4. /\ r.kind \in {"assign", "unassign"} /\ r.stage \in Begun /\ r.quiz \in Quizzes
      /\ UNCHANGED <<quiz, pool, alive, elsewhere>>
  BY DEF Given
<1>5. CASE Refuse(i) /\ UNCHANGED <<assigned, serial>>
  BY <1>4, <1>5, IsRefused DEF Begun
<1>6. CASE /\ r.kind = "assign" /\ Answer(i, r) /\ serial' = serial + 1
           /\ assigned' = [assigned EXCEPT ![r.quiz] = @ \union {[target |-> r.target, number |-> serial + 1]}]
  <2>1. r.target \in Targets /\ serial \in Nat
    BY <1>1, <1>2, <1>6 DEF Brings, StoreTyped
  <2>2. \A id \in Quizzes : assigned'[id] \subseteq [target : Targets, number : 1 .. serial']
    <3> SUFFICES ASSUME NEW id \in Quizzes, NEW row \in assigned'[id]
                 PROVE  row \in [target : Targets, number : 1 .. serial + 1]
      BY <1>6
    <3>1. row \in assigned[id] \/ row = [target |-> r.target, number |-> serial + 1]
      BY <1>3, <1>6
    <3>2. row \in assigned[id] => row \in [target : Targets, number : 1 .. serial]
      BY <1>2 DEF StoreTyped
    <3>3. QED
      BY <2>1, <3>1, <3>2
  <2>3. StoreTyped'
    BY <1>2, <1>4, <1>6, <2>1, <2>2, TypesOfStore DEF StoreTyped
  <2>4. Grows
    BY <1>4 DEF Grows
  <2>5. \A s : OnlyStage(s, old, "answered") => Brings(s)'
    BY <1>1, <1>2, <1>4, <2>4, BringsAlong DEF OnlyStage, Begun
  <2>6. QED
    BY <1>1, <1>4, <1>6, <2>3, <2>4, <2>5, AlikeItself, AnswersRight DEF Begun
<1>7. CASE /\ r.kind = "unassign" /\ Answer(i, r) /\ serial' = serial
           /\ assigned' = [assigned EXCEPT ![r.quiz] = @ \ r.rows]
  <2>1. \A id \in Quizzes : assigned'[id] \subseteq assigned[id]
    BY <1>3, <1>7
  <2>2. \A id \in Quizzes : assigned'[id] \subseteq [target : Targets, number : 1 .. serial']
    BY <1>2, <1>7, <2>1 DEF StoreTyped
  <2>3. StoreTyped'
    BY <1>2, <1>4, <1>7, <2>2, TypesOfStore DEF StoreTyped
  <2>4. Grows
    BY <1>4 DEF Grows
  <2>5. \A s : OnlyStage(s, old, "answered") => Brings(s)'
    BY <1>1, <1>2, <1>4, <2>4, BringsAlong DEF OnlyStage, Begun
  <2>6. QED
    BY <1>1, <1>4, <1>7, <2>3, <2>4, <2>5, AlikeItself, AnswersRight DEF Begun
<1>8. QED
  BY <1>5, <1>6, <1>7 DEF Given

LEMMA HandlersServe ==
  ASSUME IInv, IInv', Core, NEW i \in Slots, UNCHANGED elsewhere, Serve(i)
  PROVE  ServeRight(i)
<1>1. CASE \/ RequireOwnedQuiz(i) \/ CountPool(i) \/ VerifyQuestions(i) \/ DeletePool(i) \/ WakeDelete(i)
           \/ RequirePublishedQuiz(i) \/ FindExisting(i) \/ CountQuizzes(i)
  BY <1>1, GoingOnServes
<1>2. CASE GetQuizQuestionPool(i) \/ GetQuiz(i) \/ ListAssignmentsForQuiz(i) \/ ListQuizzes(i) \/ ListQuestions(i)
  BY <1>2, ReadingServes
<1>3. CASE UpdateQuiz(i) \/ DeleteQuiz(i) \/ SetQuizStatus(i) \/ SetQuizShowResults(i)
  BY <1>3, RowIsWritten, WrittenServes
<1>4. CASE CreateQuiz(i) \/ DuplicateQuiz(i)
  BY <1>4, RowIsAdded, AddedServes
<1>5. CASE InsertPool(i)
  BY <1>5, PoolIsReplaced, ReplacedServes
<1>6. CASE ReadPoolToCopy(i)
  BY <1>6, CopyServes
<1>7. CASE InsertAssignment(i) \/ DeleteAssignment(i)
  BY <1>7, AssignmentsGiven, GivenServes
<1>8. QED
  BY <1>1, <1>2, <1>3, <1>4, <1>5, <1>6, <1>7 DEF Serve

LEMMA FailsServes ==
  ASSUME Core, NEW i \in Slots, UNCHANGED elsewhere, Fail(i)
  PROVE  ServeRight(i)
BY IsRefused DEF Fail, Reading

\* What the handlers do fits what is shown.
LEMMA HandlersFit ==
  ASSUME IInv, IInv', Core, NEW i \in Slots, ServeRequest(i) \/ HandlerFails(i)
  PROVE  Core'
<1>1. UNCHANGED <<page, elsewhere>>
  BY DEF ServeRequest, HandlerFails
<1>2. ServeRight(i)
  BY <1>1, HandlersServe, FailsServes DEF ServeRequest, HandlerFails
<1>3. PICK s : Served(i, s) /\ Brings(s)'
  BY <1>2 DEF ServeRight
<1>4. QED
  BY <1>1, <1>2, <1>3, ServedKeeps DEF ServeRight

\* The steps of the teacher leave the tables alone, and their page fits.
LEMMA TeacherFits ==
  ASSUME Core, Teacher \/ SearchDebounced \/ BankSearchDebounced
  PROVE  Fitting(page', requests') /\ UNCHANGED <<storeOnly, elsewhere>>
<1>1. CASE OpenListed \/ Done
  BY <1>1, OpenSteps DEF OpensOne
<1>2. CASE \/ \E status \in {"all", "draft", "published", "scheduled", "archived"} : UpdateFilter(status)
           \/ HandleSearchChange \/ ClearFilters \/ TurnListPage \/ SearchDebounced
  BY <1>2, ListQueried DEF Quiet
<1>3. CASE \E row \in page.list.rows : \E action \in Actions(row.status) : HandleAction(row, action)
  BY <1>3, HandleActionSteps DEF Quiet
<1>4. CASE FillIn
  BY <1>4, FillInSteps DEF Quiet
<1>5. CASE (\E step \in 1 .. 5 : GoToStep(step)) \/ Advance
  BY <1>5, StepSteps DEF Quiet
<1>6. CASE HandleContinue \/ (HandleSaveDraft /\ HasForm /\ page.form.title)
  BY <1>6, ContinueSteps DEF PersistsAs
<1>7. CASE Leaves
  BY <1>7, LeaveSteps DEF Quiet
<1>8. CASE HandlePublish \/ (\E action \in Actions(page.status) : CallApi(action)) \/ Toggle
  BY <1>8, CommandSteps DEF Commanded, Quiet
<1>9. CASE HandleSubmit
  BY <1>9, SubmitSteps DEF Quiet
<1>10. CASE \/ \E q \in Questions : AddToPool(q) \/ RemoveFromPool(q)
            \/ ClearPool \/ (\E n \in Questions : Move(n)) \/ AddSelectedToPool
  <2>1. PICK q : Picks /\ Show(q) /\ Repooled(q)
    BY <1>10, PoolEdited
  <2>2. PageRight(q) /\ Holds(q, page) /\ Changes(q, page, {"picker"})
    BY <2>1, RepooledRight DEF Repooled
  <2>3. QED
    BY <2>1, <2>2, ShowSteps DEF Quiet
<1>11. CASE ToggleSelectAllOnPage \/ \E q \in Questions : ToggleBankSelected(q)
  <2>1. PICK q : Show(q) /\ Browsed(q)
    BY <1>11, SelectedSteps
  <2>2. PageRight(q) /\ Holds(q, page) /\ Changes(q, page, {"picker"})
    BY <2>1, BrowsedRight DEF Browsed
  <2>3. QED
    BY <2>1, <2>2, ShowSteps DEF Quiet
<1>12. CASE HandleBankSearchChange \/ BankSearchDebounced \/ GoToPage
  BY <1>12, PickerBrowses DEF Quiet
<1>13. CASE HandleSave
  BY <1>13, HandleSaveSteps DEF Quiet
<1>14. CASE (\E t \in Targets : AssignTo(t)) \/ (\E row \in page.panel.rows : RemoveAssignment(row))
  BY <1>14, PanelAskSteps DEF Quiet
<1>15. QED
  BY <1>1, <1>2, <1>3, <1>4, <1>5, <1>6, <1>7, <1>8, <1>9, <1>10, <1>11, <1>12, <1>13, <1>14 DEF Teacher, Leaves

LEMMA AnsweredFits ==
  ASSUME Core, NEW i \in Slots, Answered(i), Rest
  PROVE  Fitting(page', requests') /\ UNCHANGED <<storeOnly, elsewhere>>
<1>1. UNCHANGED <<storeOnly, elsewhere>>
  BY DEF Rest
<1>2. CASE ListArrives(i)
  BY <1>1, <1>2, ListArrivesSteps
<1>3. CASE ActionOfListDone(i)
  BY <1>1, <1>3, ActionOfListDoneSteps
<1>4. CASE SaveArrives(i)
  BY <1>1, <1>4, SaveArrivesSteps
<1>5. CASE DraftEnds(i)
  BY <1>1, <1>5, DraftEndsSteps
<1>6. CASE ActionDone(i)
  BY <1>1, <1>6, ActionDoneSteps
<1>7. CASE Refreshed(i) \/ Toggled(i)
  BY <1>1, <1>7, PlainTaken
<1>8. CASE PoolLoaded(i)
  BY <1>1, <1>8, PoolLoadedSteps
<1>9. CASE BankArrives(i)
  BY <1>1, <1>9, BankArrivesSteps
<1>10. CASE PoolSaved(i)
  BY <1>1, <1>10, PickerSavedSteps
<1>11. CASE PoolCounted(i)
  BY <1>1, <1>11, PoolCountedSteps
<1>12. CASE PublishLoaded(i)
  BY <1>1, <1>12, PublishLoadSteps DEF PublishLoaded, Arrived
<1>13. CASE Published(i)
  BY <1>1, <1>13, PublishedSteps
<1>14. CASE Assigned(i)
  BY <1>1, <1>14, AssignedSteps
<1>15. CASE AssignedRead(i) \/ Unassigned(i)
  BY <1>1, <1>15, AssignedReadSteps
<1>16. QED
  BY <1>1, <1>2, <1>3, <1>4, <1>5, <1>6, <1>7, <1>8, <1>9, <1>10, <1>11, <1>12, <1>13, <1>14, <1>15 DEF Answered

LEMMA OthersSend ==
  ASSUME SendElsewhere
  PROVE  /\ FreeSlots(requests) # {} /\ elsewhere' = elsewhere + 1
         /\ \E r : Others(r) /\ requests' = Put(requests, r)
         /\ UNCHANGED <<storeOnly, page, inputs, mishaps, lost, resent, opened, made>>
<1>1. PICK id \in {q \in Quizzes : Live(q)}, kind \in {"update", "publish", "unpublish", "delete", "pool", "assign"} :
         \E settings \in Settings, ids \in {<<>>, <<1>>, <<2>>}, target \in Targets \union {"none"} :
           /\ kind # "update" => settings = NoSettings
           /\ kind = "pool" <=> ids # <<>>
           /\ kind = "assign" <=> target # "none"
           /\ requests' = Put(requests, [Ask(kind, id, "none") EXCEPT
                  !.settings = settings, !.ids = ids, !.target = target, !.heard = FALSE])
  BY Zenon DEF SendElsewhere
<1>0. PICK settings \in Settings, ids \in {<<>>, <<1>>, <<2>>}, target \in Targets \union {"none"} :
         /\ kind = "assign" <=> target # "none"
         /\ requests' = Put(requests, [Ask(kind, id, "none") EXCEPT
                !.settings = settings, !.ids = ids, !.target = target, !.heard = FALSE])
  BY <1>1, Zenon
<1> DEFINE asked == Ask(kind, id, "none")
           r == [asked EXCEPT !.settings = settings, !.ids = ids, !.target = target, !.heard = FALSE]
<1>2. DOMAIN asked = Fields /\ asked.kind = kind /\ asked.quiz = id /\ asked.status = "none" /\ asked.part = "none"
      /\ asked.stage = "sent"
  BY AskIs
<1>3. requests' = Put(requests, r)
  BY <1>0
<1> HIDE DEF asked
<1>4. /\ DOMAIN r = Fields /\ r.part = "none" /\ ~r.heard /\ r.status = "none" /\ r.kind = kind /\ r.quiz = id
      /\ r.target = target /\ r.stage = "sent"
  BY <1>2 DEF Fields, NoRequest
<1> HIDE DEF r
<1>5. Others(r)
  BY <1>0, <1>1, <1>4 DEF Others, Live, Made
<1>6. QED
  BY <1>3, <1>5 DEF SendElsewhere

LEMMA ElsewhereFits ==
  ASSUME Core,
         requests' = requests \/ \E r : Others(r) /\ FreeSlots(requests) # {} /\ requests' = Put(requests, r),
         elsewhere' = elsewhere + 1, alive' \subseteq alive, UNCHANGED <<quiz, pool, assigned, serial, page>>
  PROVE  Core'
<1>1. StoreTyped' /\ elsewhere' # 0
  BY DEF Core, StoreTyped, PoolRow, Questions
<1>2. PageRight(page)'
  BY DEF Core, Fitting, PageRight, StepRight, ListedRight, Made, PageShape, PartsRight, PickedRight
<1>3. /\ requests' = [i \in Slots |-> requests'[i]]
      /\ \A j \in Slots : requests'[j] = requests[j] \/ Others(requests'[j])
  <2>1. requests = [i \in Slots |-> requests[i]]
    BY DEF Core, Fitting
  <2>2. CASE \E r : Others(r) /\ FreeSlots(requests) # {} /\ requests' = Put(requests, r)
    <3>1. PICK r : Others(r) /\ FreeSlots(requests) # {} /\ requests' = Put(requests, r)
      BY <2>2
    <3>2. PICK x \in Slots : /\ requests'[x] = r /\ \A j \in Slots : j # x => requests'[j] = requests[j]
                           /\ requests' = [i \in Slots |-> requests'[i]]
      BY <2>1, <3>1, PutFills
    <3>3. QED
      BY <3>1, <3>2
  <2>3. QED
    BY <2>1, <2>2
<1>4. ASSUME NEW j \in Slots
      PROVE  Fits(page, requests[j])'
  <2>1. PICK x : x = requests'[j]
    OBVIOUS
  <2>2. CASE Others(x)
    <3>1. Sorted(x)' /\ ~x.heard
      BY <2>2 DEF Sorted, TurnsPage, Others
    <3>2. Brings(x)'
      BY <2>2 DEF Others, Brings, Made
    <3>3. QED
      BY <1>1, <2>1, <2>2, <3>1, <3>2 DEF Fits, Own, Others
  <2>3. CASE x = requests[j]
    BY <2>3, <1>1, <2>1 DEF Core, Fitting, Fits, Sorted, TurnsPage, Brings, Made, OfPage, PoolRow, Own
  <2>4. QED
    BY <1>3, <2>1, <2>2, <2>3
<1>5. Single(requests)'
  BY <1>3 DEF Core, Fitting, Single, Others
<1>6. QED
  BY <1>1, <1>2, <1>3, <1>4, <1>5 DEF Core, Fitting

\* What is shown always fits what is under way.
LEMMA CoreStep ==
  ASSUME IInv, Core, [Next]_vars
  PROVE  Core'
<1>0. IInv'
  BY StepKeeps
<1>1. ASSUME Fitting(page', requests') /\ UNCHANGED <<storeOnly, elsewhere>> PROVE Core'
  BY <1>1, CoreKept DEF storeOnly
<1>2. CASE Teacher \/ SearchDebounced \/ BankSearchDebounced
  BY <1>1, <1>2, TeacherFits
<1>3. CASE \E i \in Slots : Later(i)
  <2>1. PICK i \in Slots : Later(i)
    BY <1>3
  <2>2. CASE ServeRequest(i) \/ HandlerFails(i)
    BY <1>0, <2>2, HandlersFit
  <2>3. CASE Lose(i)
    BY <1>1, <2>3, LoseSteps
  <2>4. CASE Answered(i) /\ Rest
    BY <1>1, <2>4, AnsweredFits
  <2>5. CASE Refused(i) /\ Rest
    BY <1>1, <2>5, RefusedSteps DEF Quiet
  <2>6. QED
    BY <2>1, <2>2, <2>3, <2>4, <2>5 DEF Later
<1>4. CASE SendElsewhere
  BY <1>4, OthersSend, ElsewhereFits DEF storeOnly
<1>5. CASE StartComes \/ \E q \in Questions : ElseDeleteQuestion(q)
  BY <1>5, ElsewhereFits DEF StartComes, StartsCome, ElseDeleteQuestion, DeleteQuestion
<1>6. CASE UNCHANGED vars
  BY <1>1, <1>6 DEF Core, vars, storeVars, pageVars, storeOnly
<1>7. QED
  BY <1>2, <1>3, <1>4, <1>5, <1>6 DEF Next

LEMMA NothingFitting ==
  ASSUME NEW p, PageRight(p)
  PROVE  Fitting(p, NoRequests) /\ Cardinality(FreeSlots(NoRequests)) >= 2 /\ FreeSlots(NoRequests) # {}
<1>1. /\ NoRequests = [i \in Slots |-> NoRequests[i]] /\ \A i \in Slots : NoRequests[i] = NoRequest
      /\ ~NoRequest.heard
  BY DEF NoRequests, NoRequest
<1>2. FreeSlots(NoRequests) = 1 .. MaxRequests
  BY <1>1 DEF FreeSlots, Slots
<1>3. Cardinality(FreeSlots(NoRequests)) = MaxRequests /\ MaxRequests >= 2 /\ 1 \in 1 .. MaxRequests
  BY <1>2, FS_Interval, StoreAssumption, PagesAssumption
<1>4. Fitting(p, NoRequests)
  BY <1>1, NothingFits DEF Fitting, Single
<1>5. QED
  BY <1>2, <1>3, <1>4

LEMMA FirstStore ==
  ASSUME Init
  PROVE  StoreTyped /\ elsewhere = 0 /\ 1 \in Quizzes
<1>1. PICK row \in FirstQuizzes : \E rows \in FirstPools(row.status), given \in FirstAssigned :
        /\ pool = [id \in Quizzes |-> IF id = 1 THEN rows ELSE {}]
        /\ assigned = [id \in Quizzes |-> IF id = 1 THEN given ELSE {}]
        /\ serial = Cardinality(given)
  BY DEF Init
<1>2. PICK rows \in FirstPools(row.status), given \in FirstAssigned :
        /\ pool = [id \in Quizzes |-> IF id = 1 THEN rows ELSE {}]
        /\ assigned = [id \in Quizzes |-> IF id = 1 THEN given ELSE {}]
        /\ serial = Cardinality(given)
  BY <1>1
<1>3. rows \subseteq PoolRow
  BY StoreAssumption, PagesAssumption DEF Questions, RowsOf, PoolRow, FirstPools
<1>4. serial \in Nat /\ given \subseteq [target : Targets, number : 1 .. serial]
  <2>1. CASE given = {}
    BY <1>2, <2>1, FS_EmptySet
  <2>2. CASE \E t \in Targets : given = {[target |-> t, number |-> 1]}
    <3>1. PICK t \in Targets : given = {[target |-> t, number |-> 1]}
      BY <2>2
    <3>2. serial = 1
      BY <1>2, <3>1, FS_Singleton
    <3>3. QED
      BY <3>1, <3>2
  <2>3. QED
    BY <2>1, <2>2 DEF FirstAssigned
<1>5. /\ \A id \in Quizzes : pool[id] \subseteq PoolRow
      /\ \A id \in Quizzes : assigned[id] \subseteq [target : Targets, number : 1 .. serial]
  BY <1>2, <1>3, <1>4
<1>6. alive \subseteq Questions /\ elsewhere \in Nat /\ elsewhere = 0
  BY DEF Init
<1>7. QED
  BY <1>4, <1>5, <1>6, FirstRows, StoreAssumption DEF StoreTyped, Quizzes

LEMMA FirstPageFits ==
  ASSUME StoreTyped, NEW kind \in {"list", "wizard", "edit", "preview", "results"}, 1 \in Quizzes,
         kind \notin {"list", "wizard"} => Live(1), FirstPage(kind)
  PROVE  Fitting(page, requests) /\ Untouched(page) /\ TurnedTo(page, kind, IF kind \in {"list", "wizard"} THEN 0 ELSE 1)
<1> DEFINE id == IF kind \in {"list", "wizard"} THEN 0 ELSE 1
<1>1. page \in PageFor(kind, id)
  BY DEF FirstPage
<1>2. Untouched(page) /\ TurnedTo(page, kind, id)
  BY <1>1, PageForIs
<1>3. id = 0 \/ Made(id)
  BY DEF Live, Made
<1>4. (kind = "wizard" => id = 0) /\ (kind \notin {"list", "wizard"} => Live(id))
  OBVIOUS
<1> HIDE DEF id
<1>5. Fitting(page, NoRequests) /\ FreeSlots(NoRequests) # {}
  BY <1>2, <1>3, <1>4, TurnedRight, NothingFitting
<1>6. CASE kind = "list"
  BY <1>2, <1>6, ListAskFits, <1>5, PutFits DEF FirstPage, TurnedTo, Of, Alone, id
<1>7. CASE kind = "edit"
  <2>1. requests = Put(NoRequests, AskBank(AllQuizzes))
    BY <1>7 DEF FirstPage
  <2>2. PICK ids \in Seq(Questions) : page.picker = [NoPicker EXCEPT !.open = TRUE, !.pool = ids]
    BY <1>2, <1>4, <1>7 DEF TurnedTo
  <2>3. page.picker.open
    BY <2>2 DEF NoPicker
  <2>4. Fits(page, AskBank(AllQuizzes)) /\ AskBank(AllQuizzes).part = "bank"
    BY <2>3, BankAskFits DEF Of
  <2>5. Alone(NoRequests, AskBank(AllQuizzes))
    BY <2>4 DEF Alone
  <2>6. QED
    BY <1>2, <1>5, <2>1, <2>4, <2>5, PutFits DEF id
<1>8. CASE kind \notin {"list", "edit"}
  BY <1>8, <1>2, <1>5 DEF FirstPage, id
<1>9. QED
  BY <1>6, <1>7, <1>8

LEMMA SavedWizardIs ==
  ASSUME StoreTyped, Made(1), NEW step \in 2 .. 5
  PROVE  SavedWizard([NewPage("wizard", 1) EXCEPT
                        !.form = [title |-> TRUE, settings |-> quiz[1].settings], !.asked = TRUE,
                        !.furthest = step], step)
<1> DEFINE n == NewPage("wizard", 1)
           f == [title |-> TRUE, settings |-> quiz[1].settings]
           p == [n EXCEPT !.form = f, !.asked = TRUE, !.furthest = step]
<1>1. PageRight(n) /\ NewPart(n) /\ n.kind = "wizard" /\ n.quiz = 1
  BY NewPageIs, NewPageRight
<1>2. f.settings \in Settings /\ f.settings = quiz[1].settings
  BY DEF StoreTyped, QuizRows, Made
<1> HIDE DEF n, f
<1>3. /\ DOMAIN p = PageFields /\ p.form = f /\ p.asked = TRUE /\ p.furthest = step
      /\ \A field \in PageFields \ {"form", "asked", "furthest"} : p[field] = n[field]
  BY <1>1 DEF NewPart, PageFields
<1> HIDE DEF p
<1>4. /\ p.kind = n.kind /\ p.quiz = n.quiz /\ p.step = n.step /\ p.dirty = n.dirty /\ p.saving = n.saving
      /\ p.list = n.list /\ p.picker = n.picker /\ p.panel = n.panel /\ p.load = n.load /\ p.review = n.review
  BY <1>3 DEF PageFields
<1>5. PageRight(p)
  BY <1>1, <1>2, <1>3, <1>4 DEF PageRight, PageShape, PartsRight, NewPart, StepRight
<1>6. SavedWizard(p, step)
  BY <1>1, <1>2, <1>3, <1>4, <1>5 DEF SavedWizard, NewPart, PageRight
<1>7. QED
  BY <1>6 DEF p, n, f

LEMMA FirstStepFits ==
  ASSUME StoreTyped, NEW step \in 2 .. 5, Made(1), FirstStep(step)
  PROVE  /\ Fitting(page, requests) /\ requests = ReadsOfStep(NoRequests, 1, step)
         /\ \E p : SavedWizard(p, step) /\ AtItsStep(page, p, step)
<1>1. PICK p : p = [NewPage("wizard", 1) EXCEPT
                      !.form = [title |-> TRUE, settings |-> quiz[1].settings], !.asked = TRUE,
                      !.furthest = step]
  OBVIOUS
<1>2. SavedWizard(p, step) /\ page = AtStep(p, step) /\ requests = ReadsOfStep(NoRequests, 1, step)
  BY <1>1, SavedWizardIs DEF FirstStep
<1>3. AtItsStep(page, p, step)
  BY <1>2, AtStepIs DEF SavedWizard
<1>4. PageRight(page) /\ page.load.left = (IF step = 5 THEN {"readQuiz", "readAssigned"} ELSE {})
  <2>1. step \in 1 .. 5 /\ PageRight(p) /\ p.kind = "wizard" /\ p.quiz # 0
    BY <1>2 DEF SavedWizard
  <2>2. QED
    BY <1>3, <2>1, AtStepRight
<1>5. /\ page.kind = "wizard" /\ page.quiz = 1 /\ page.step = step /\ ~page.picker.open
  BY <1>2, <1>3, PartsAreNew DEF AtItsStep, SavedWizard
<1>6. Fitting(page, NoRequests) /\ Cardinality(FreeSlots(NoRequests)) >= 2 /\ FreeSlots(NoRequests) # {}
  BY <1>4, NothingFitting
<1>7. \A i \in Slots : NoRequests[i] = NoRequest /\ ~NoRequests[i].heard
  BY DEF NoRequests, NoRequest
<1>8. /\ step = 2 => Fits(page, Ask("readPool", 1, "pool"))
      /\ step = 4 => Fits(page, Ask("readPool", 1, "review"))
      /\ step = 5 => Fits(page, Ask("readQuiz", 1, "publishLoad")) /\ Fits(page, Ask("readAssigned", 1, "publishLoad"))
  BY <1>4, <1>5, StepAskFits
<1>9. \A kind, part : Alone(NoRequests, Ask(kind, 1, part))
  BY <1>7 DEF Alone
<1>10. CASE step \in {2, 4}
  BY <1>2, <1>3, <1>6, <1>8, <1>9, <1>10, PutFits DEF ReadsOfStep
<1>11. CASE step = 3
  BY <1>2, <1>3, <1>6, <1>11 DEF ReadsOfStep
<1>12. CASE step = 5
  <2> DEFINE a == Ask("readQuiz", 1, "publishLoad")
             b == Ask("readAssigned", 1, "publishLoad")
             mid == Put(NoRequests, a)
  <2>1. Fitting(page, mid)
    BY <1>6, <1>8, <1>9, <1>12, PutFits
  <2>2. FreeSlots(mid) # {}
    BY <1>6, OneMoreSlot DEF Fitting
  <2>3. a.kind = "readQuiz" /\ b.kind = "readAssigned" /\ b.part = "publishLoad"
    BY AskIs
  <2>4. \A i \in Slots : mid[i] = a \/ mid[i] = NoRequest
    BY <1>6, <1>7, PutFills DEF Fitting
  <2>5. Alone(mid, b)
    BY <1>7, <2>3, <2>4 DEF Alone, NoRequest
  <2>6. requests = Put(mid, b) /\ Fits(page, b)
    BY <1>2, <1>8, <1>12 DEF ReadsOfStep
  <2> HIDE DEF mid, a, b
  <2>7. Fitting(page, requests)
    BY <2>1, <2>2, <2>5, <2>6, PutFits
  <2>8. QED
    BY <1>2, <1>3, <2>7
<1>13. QED
  BY <1>10, <1>11, <1>12

\* How the tab begins.
LEMMA BeginsSomehow ==
  ASSUME Init
  PROVE  /\ StoreTyped /\ elsewhere = 0 /\ ~lost /\ ~resent
         /\ \/ \E kind \in {"list", "wizard", "edit", "preview", "results"} :
                 /\ Fitting(page, requests) /\ Untouched(page) /\ FirstPage(kind)
                 /\ TurnedTo(page, kind, IF kind \in {"list", "wizard"} THEN 0 ELSE 1)
                 /\ made = 0 /\ opened = (IF kind = "wizard" THEN 1 ELSE 0)
            \/ \E step \in 2 .. 5 :
                 /\ Fitting(page, requests) /\ requests = ReadsOfStep(NoRequests, 1, step)
                 /\ \E p : SavedWizard(p, step) /\ AtItsStep(page, p, step)
                 /\ made = 1 /\ opened = 1
<1>1. StoreTyped /\ elsewhere = 0 /\ 1 \in Quizzes /\ ~lost /\ ~resent
  BY FirstStore DEF Init
<1>2. quiz[1] # NoQuiz => Live(1)
  <2>1. PICK row \in FirstQuizzes : quiz = [id \in Quizzes |-> IF id = 1 THEN row ELSE NoQuiz]
    BY DEF Init
  <2>2. quiz[1] = row
    BY <1>1, <2>1
  <2>3. row = NoQuiz \/ (row.status # "none" /\ ~row.deleted)
    BY DEF FirstQuizzes
  <2>4. QED
    BY <1>1, <2>2, <2>3 DEF Live
<1>3. CASE FirstPage("wizard") /\ opened = 1 /\ made = 0
  BY <1>1, <1>3, FirstPageFits
<1>4. CASE quiz[1] # NoQuiz /\ (\E kind \in {"list", "edit", "preview", "results"} : FirstPage(kind)) /\ opened = 0 /\ made = 0
  BY <1>1, <1>2, <1>4, FirstPageFits
<1>5. CASE quiz[1] # NoQuiz /\ (\E step \in 2 .. 5 : FirstStep(step)) /\ opened = 1 /\ made = 1
  BY <1>2, <1>5, <1>1, FirstStepFits DEF Live, Made
<1>6. QED
  BY <1>3, <1>4, <1>5 DEF Init

LEMMA InitFits == Init => Core
BY BeginsSomehow DEF Core

\* Nothing more is heard of what is handled, and nothing else.
LEMMA ServedSteps ==
  ASSUME IInv, IInv', Core, NEW i \in Slots, ServeRequest(i) \/ HandlerFails(i)
  PROVE  /\ UNCHANGED <<page, elsewhere, lost, resent, opened>> /\ \E s : Served(i, s) /\ Brings(s)'
         /\ Grows
  BY HandlersServe, FailsServes DEF ServeRequest, HandlerFails, ServeRight

-----------------------------------------------------------------------------
\* The list.

LEMMA ListStays ==
  ASSUME ListInv, page'.list = page.list, \A j \in Slots : Same(requests[j], requests'[j])
  PROVE  ListInv'
BY DEF ListInv, ListRight, AskedBy, Is, Same, ListParts

LEMMA ListFoot ==
  ASSUME Core, Core', ListInv, NEW fields, NEW from, NEW to, Foot(fields, from, to), "list" \notin fields,
         to \intersect ListParts = {}
  PROVE  ListInv'
<1>1. page'.list = page.list
  BY DEF Foot, Changes, PageFields
<1>2. \A j \in Slots : Sorted(requests'[j])
  BY DEF Core, Fitting, Fits, Sorted, TurnsPage
<1>3. \A j \in Slots : Same(requests[j], requests'[j])
  BY <1>2 DEF Foot, Moves, Same, Sorted, ListParts
<1>4. QED
  BY <1>1, <1>3, ListStays

LEMMA FirstAskIs ==
  ASSUME NEW r, FirstAsk(r)
  PROVE  /\ r.part = r.kind /\ r.kind \in {"list", "bank"} /\ r.quiz = 0 /\ r.stage = "sent"
         /\ r.part = "list" => r.query = AllQuizzes
<1>1. CASE r = AskList(AllQuizzes, "list")
  <2> DEFINE a == Ask("list", 0, "list")
  <2>1. DOMAIN a = Fields /\ a.kind = "list" /\ a.part = "list" /\ a.quiz = 0 /\ a.stage = "sent"
    BY AskIs
  <2>2. r = [a EXCEPT !.query = AllQuizzes]
    BY <1>1 DEF AskList
  <2> HIDE DEF a
  <2>3. QED
    BY <2>1, <2>2 DEF Fields, NoRequest
<1>2. CASE r = AskBank(AllQuizzes)
  <2> DEFINE a == Ask("bank", 0, "bank")
  <2>1. DOMAIN a = Fields /\ a.kind = "bank" /\ a.part = "bank" /\ a.quiz = 0 /\ a.stage = "sent"
    BY AskIs
  <2>2. r = [a EXCEPT !.query = AllQuizzes]
    BY <1>2 DEF AskBank
  <2> HIDE DEF a
  <2>3. QED
    BY <2>1, <2>2 DEF Fields, NoRequest
<1>3. QED
  BY <1>1, <1>2 DEF FirstAsk

\* A list that is turned to has asked for all the quizzes.
LEMMA ListTurned ==
  ASSUME NEW rs, NEW p, Fitting(p, rs), TurnedSomewhere(rs)
  PROVE  ListInv'
<1>1. PICK kind \in {"list", "wizard", "edit", "preview", "results"} : \E id \in Quizzes \union {0} :
        /\ TurnedTo(page', kind, id) /\ Turns(rs)
        /\ \A j \in Slots : requests'[j].part = "list" /\ requests'[j].heard => requests'[j].query = AllQuizzes
  BY DEF TurnedSomewhere
<1>2. page'.list \in {NoList, [NoList EXCEPT !.loading = TRUE]}
  <2>1. PICK id : TurnedTo(page', kind, id)
    BY <1>1
  <2>2. NewPage("missing", 0).list = NoList
    BY NewPageIs DEF NewPart
  <2>3. QED
    BY <2>1, <2>2 DEF TurnedTo
<1>3. page'.list.query = AllQuizzes /\ page'.list.shown = NoQuery
  BY <1>2 DEF NoList
<1>4. \A j \in Slots : requests'[j].heard => requests'[j].part \notin {"reload", "listAction"}
  <2> SUFFICES ASSUME NEW j \in Slots, requests'[j].heard PROVE requests'[j].part \notin {"reload", "listAction"}
    OBVIOUS
  <2>1. CASE requests'[j] = Forget(rs, PageParts)[j]
    BY <2>1, AllForgotten DEF TurnsPage
  <2>2. CASE FirstAsk(requests'[j])
    BY <2>2, FirstAskIs
  <2>3. QED
    BY <1>1, <2>1, <2>2 DEF Turns
<1>5. QED
  BY <1>1, <1>3, <1>4 DEF ListInv, ListRight, ShownRight, AskedBy, Is

LEMMA ListAsked ==
  ASSUME Core, ListInv, Foot({"list"}, {"list"}, {"list"}), page'.list.shown = page.list.shown,
         \/ /\ requests' = requests /\ page'.list.query = page.list.query /\ page'.list.loading = page.list.loading
            /\ page'.list.error = page.list.error /\ page'.list.stray = page.list.stray
         \/ AskedAnew(page')
  PROVE  ListInv'
<1>1. CASE /\ requests' = requests /\ page'.list.query = page.list.query /\ page'.list.loading = page.list.loading
           /\ page'.list.error = page.list.error /\ page'.list.stray = page.list.stray
  BY <1>1 DEF ListInv, ListRight, ShownRight, AskedBy
<1>2. CASE AskedAnew(page')
  <2> DEFINE left == Forget(requests, {"list"})
             l == page'.list
             asked == AskList(l.query, "list")
  <2>1. l.loading /\ requests' = Put(left, asked) /\ FreeSlots(left) # {}
        /\ (page.list.stray \/ Waiting("listAction") \/ Waiting("reload") => l.stray)
    BY <1>2 DEF AskedAnew
  <2>2. Fitting(page, left)
    BY ForgetFits DEF Core
  <2>3. \A j \in Slots : requests'[j] = left[j] \/ requests'[j] = asked
    BY <2>1, <2>2, PutFills DEF Fitting
  <2>4. asked.query = l.query /\ asked.part = "list"
    BY AskIs DEF AskList, Fields, NoRequest
  <2>5. \A j \in Slots : left[j].heard /\ left[j].part \in ListParts => left[j] = requests[j] /\ left[j].part # "list"
    <3>1. Left(requests, left, {"list"})
      BY ForgetLeaves
    <3>2. ASSUME NEW j \in Slots, left[j].heard, left[j].part \in ListParts
          PROVE  left[j].part # "list"
      BY <3>2, GoneTurns DEF TurnsPage, Core
    <3>3. ASSUME NEW j \in Slots, left[j].heard, left[j].part \in ListParts, left[j] # requests[j]
          PROVE  FALSE
      BY <3>1, <3>3, ForgottenFits, <3>2 DEF Left, Core, Fitting
    <3>4. QED
      BY <3>2, <3>3
  <2> HIDE DEF left, asked, l
  <2>6. ASSUME NEW j \in Slots PROVE AskedBy(l, requests'[j])
    <3>1. CASE requests'[j] = asked
      BY <2>4, <3>1 DEF AskedBy, Is
    <3>2. CASE requests'[j] = left[j]
      BY <2>1, <2>5, <3>2 DEF AskedBy, Is, Waiting, ListParts
    <3>3. QED
      BY <2>3, <3>1, <3>2
  <2>7. QED
    BY <2>1, <2>6 DEF l, ListInv, ListRight, ShownRight
<1>3. QED
  BY <1>1, <1>2

LEMMA ListActed ==
  ASSUME Core, ListInv, NEW row, NEW action, HandleAction(row, action)
  PROVE  ListInv'
<1>1. page' = page /\ FreeSlots(requests) # {}
  BY HandleActionSteps
<1>2. PICK r : /\ requests' = Put(requests, r) /\ Of(r, action, row.quiz, "listAction") /\ r.heard
               /\ r.query = page.list.query
  BY HandleActionSteps
<1>3. \A j \in Slots : requests'[j] = requests[j] \/ requests'[j] = r
  BY <1>1, <1>2, PutFills, FieldsOf
<1>4. AskedBy(page.list, r)
  BY <1>2 DEF AskedBy, Of, Is
<1>5. QED
  BY <1>1, <1>3, <1>4 DEF ListInv, ListRight

LEMMA ListTaken ==
  ASSUME Core, ListInv, NEW i \in Slots, requests' = Without(i), page'.list.query = page.list.query,
         page'.list.stray = page.list.stray, ShownRight(page'.list)
  PROVE  ListInv'
  BY FieldsOf DEF Without, NoRequest, ListInv, ListRight, AskedBy, Is

LEMMA ListAnswered ==
  ASSUME Core, ListInv, NEW i \in Slots, ListArrives(i) \/ ActionOfListDone(i), Rest
  PROVE  ListInv'
<1>1. CASE ListArrives(i)
  BY <1>1, ListArrivesSteps, ListTaken DEF ListInv, ListRight, ShownRight, AskedBy, Is
<1>2. CASE ActionOfListDone(i)
  <2> DEFINE asked == AskList(requests[i].query, "reload")
  <2>1. /\ requests' = Put(Without(i), asked) /\ FreeSlots(Without(i)) # {}
        /\ requests[i].heard /\ requests[i].part = "listAction"
        /\ page'.list.query = page.list.query /\ page'.list.stray = page.list.stray /\ page'.list.loading
    BY <1>2, ActionOfListDoneSteps
  <2>2. /\ Without(i) = [j \in Slots |-> Without(i)[j]]
        /\ \A j \in Slots : Without(i)[j] = requests[j] \/ Without(i)[j] = NoRequest
    BY FieldsOf DEF Without
  <2>3. \A j \in Slots : requests'[j] = Without(i)[j] \/ requests'[j] = asked
    BY <2>1, <2>2, PutFills
  <2>4. asked.query = requests[i].query /\ asked.part = "reload"
    BY AskIs DEF AskList, Fields, NoRequest
  <2>5. AskedBy(page.list, requests[i]) /\ ~NoRequest.heard
    BY DEF ListInv, ListRight, NoRequest
  <2> HIDE DEF asked
  <2>6. \A j \in Slots : AskedBy(page'.list, requests'[j])
    BY <2>1, <2>2, <2>3, <2>4, <2>5 DEF ListInv, ListRight, AskedBy, Is
  <2>7. QED
    BY <2>1, <2>6 DEF ListInv, ListRight, ShownRight
<1>3. QED
  BY <1>1, <1>2

\* What is picked, or selected, in the picker.
LEMMA PickedSteps ==
  ASSUME Core,
         \/ \E q \in Questions : AddToPool(q) \/ RemoveFromPool(q)
         \/ ClearPool \/ (\E n \in Questions : Move(n)) \/ AddSelectedToPool
         \/ ToggleSelectAllOnPage \/ \E q \in Questions : ToggleBankSelected(q)
  PROVE  Foot({"picker"}, {}, {}) /\ Quiet /\ requests' = requests /\ (Repooled(page') \/ Browsed(page'))
<1>1. CASE \/ \E q \in Questions : AddToPool(q) \/ RemoveFromPool(q)
           \/ ClearPool \/ (\E n \in Questions : Move(n)) \/ AddSelectedToPool
  <2>1. PICK q : Picks /\ Show(q) /\ Repooled(q)
    BY <1>1, PoolEdited
  <2>2. PageRight(q) /\ Holds(q, page) /\ Changes(q, page, {"picker"})
    BY <2>1, RepooledRight DEF Repooled
  <2>3. QED
    BY <2>1, <2>2, ShowSteps
<1>2. CASE ToggleSelectAllOnPage \/ \E q \in Questions : ToggleBankSelected(q)
  <2>1. PICK q : Show(q) /\ Browsed(q)
    BY <1>2, SelectedSteps
  <2>2. PageRight(q) /\ Holds(q, page) /\ Changes(q, page, {"picker"})
    BY <2>1, BrowsedRight DEF Browsed
  <2>3. QED
    BY <2>1, <2>2, ShowSteps
<1>3. QED
  BY <1>1, <1>2

LEMMA ListTeacher ==
  ASSUME Core, Core', ListInv, Teacher \/ SearchDebounced \/ BankSearchDebounced
  PROVE  ListInv'
<1>1. CASE OpenListed \/ Done
  BY <1>1, OpenSteps, ListTurned DEF OpensOne, Core
<1>2. CASE \/ \E status \in {"all", "draft", "published", "scheduled", "archived"} : UpdateFilter(status)
           \/ HandleSearchChange \/ ClearFilters \/ TurnListPage \/ SearchDebounced
  BY <1>2, ListQueried, ListAsked
<1>3. CASE \E row \in page.list.rows : \E action \in Actions(row.status) : HandleAction(row, action)
  BY <1>3, ListActed
<1>4. CASE FillIn
  BY <1>4, FillInSteps, ListFoot
<1>5. CASE (\E step \in 1 .. 5 : GoToStep(step)) \/ Advance
  BY <1>5, StepSteps, ListFoot DEF StepParts, ListParts, StepFields
<1>6. CASE HandleContinue \/ (HandleSaveDraft /\ HasForm /\ page.form.title)
  <2>1. PICK part \in {"save", "draft"} : PersistsAs(part)
    BY <1>6, ContinueSteps
  <2>2. Foot({"saving", "dirty", "asked"}, {}, {part}) /\ {part} \intersect ListParts = {}
    BY <2>1 DEF PersistsAs, ListParts
  <2>3. QED
    BY <2>2, ListFoot
<1>7. CASE Leaves
  BY <1>7, LeaveSteps, ListTurned DEF Core
<1>8. CASE HandlePublish \/ (\E action \in Actions(page.status) : CallApi(action)) \/ Toggle
  <2>1. PICK part \in {"publish", "actions", "toggle"} : Commanded(part)
    BY <1>8, CommandSteps
  <2>2. Foot({"busy"}, {}, {part}) /\ {part} \intersect ListParts = {}
    BY <2>1 DEF Commanded, ListParts
  <2>3. QED
    BY <2>2, ListFoot
<1>9. CASE HandleSubmit
  BY <1>9, SubmitSteps, ListFoot DEF ListParts
<1>10. CASE \/ \E q \in Questions : AddToPool(q) \/ RemoveFromPool(q)
            \/ ClearPool \/ (\E n \in Questions : Move(n)) \/ AddSelectedToPool
            \/ ToggleSelectAllOnPage \/ \E q \in Questions : ToggleBankSelected(q)
  BY <1>10, PickedSteps, ListFoot
<1>11. CASE HandleBankSearchChange \/ BankSearchDebounced \/ GoToPage
  BY <1>11, PickerBrowses, ListFoot DEF ListParts
<1>12. CASE HandleSave
  BY <1>12, HandleSaveSteps, ListFoot DEF ListParts
<1>13. CASE (\E t \in Targets : AssignTo(t)) \/ (\E row \in page.panel.rows : RemoveAssignment(row))
  BY <1>13, PanelAskSteps, ListFoot DEF ListParts
<1>14. QED
  BY <1>1, <1>2, <1>3, <1>4, <1>5, <1>6, <1>7, <1>8, <1>9, <1>10, <1>11, <1>12, <1>13 DEF Teacher, Leaves

\* A wizard's save that is answered, and the step that it leads to.
LEMMA SavedFoot ==
  ASSUME NEW i \in Slots, NEW p, SavedPage(p, i), Core
  PROVE  Foot(StepFields \union {"error", "released", "saving", "quiz"}, StepParts \union {requests[i].part}, StepParts)
<1>1. Changes(p, page, {"saving", "quiz"})
  BY DEF SavedPage
<1>2. Moves(Without(i), requests, {requests[i].part}, {})
  BY FieldsOf, WithoutMoves DEF Without
<1>3. CASE page' = p /\ requests' = Without(i)
  BY <1>1, <1>2, <1>3, ChangesMore, MovesMore DEF Foot
<1>4. CASE /\ Changes(page', p, StepFields \union {"error", "released"})
           /\ Moves(requests', Without(i), StepParts, StepParts)
  BY <1>1, <1>4, <1>2, MovesTwice, MovesMore DEF Changes, Foot
<1>5. QED
  BY <1>3, <1>4 DEF SavedPage

LEMMA ListWhenAnswered ==
  ASSUME Core, Core', ListInv, NEW i \in Slots, Answered(i), Rest
  PROVE  ListInv'
<1> DEFINE r == requests[i]
<1>1. CASE ListArrives(i) \/ ActionOfListDone(i)
  BY <1>1, ListAnswered
<1>2. ASSUME NEW fields, NEW from, NEW part, Foot(fields, from, {part}), "list" \notin fields, part \notin ListParts
      PROVE  ListInv'
  BY <1>2, ListFoot
<1>3. ASSUME NEW fields, NEW from, Foot(fields, from, {}), "list" \notin fields
      PROVE  ListInv'
  BY <1>3, ListFoot
<1>4. CASE SaveArrives(i)
  <2>1. \/ Foot({"saving"}, {"save"}, {"refresh"})
        \/ \E p : SavedPage(p, i)
    BY <1>4, SaveArrivesSteps
  <2>2. CASE \E p : SavedPage(p, i)
    BY <2>2, SavedFoot, ListFoot DEF StepParts, ListParts, StepFields
  <2>3. CASE Foot({"saving"}, {"save"}, {"refresh"})
    BY <2>3, ListFoot DEF ListParts
  <2>4. QED
    BY <2>1, <2>2, <2>3
<1>5. Fitting(page, Without(i))
  BY WithoutFits DEF Core, Without
<1>6. CASE DraftEnds(i)
  BY <1>5, <1>6, DraftEndsSteps, ListTurned
<1>7. CASE ActionDone(i)
  BY <1>2, <1>5, <1>7, ActionDoneSteps, ListTurned DEF ListParts
<1>8. CASE Refreshed(i) \/ Toggled(i)
  BY <1>3, <1>8, PlainTaken
<1>9. CASE PoolLoaded(i)
  BY <1>9, PoolLoadedSteps, ListFoot DEF ListParts
<1>10. CASE BankArrives(i) \/ PoolSaved(i)
  BY <1>3, <1>10, BankArrivesSteps, PickerSavedSteps
<1>11. CASE PoolCounted(i)
  BY <1>3, <1>11, PoolCountedSteps
<1>12. CASE PublishLoaded(i)
  BY <1>3, <1>12, PublishLoadSteps DEF PublishLoaded, Arrived, LoadFields
<1>13. CASE Published(i)
  BY <1>3, <1>13, PublishedSteps
<1>14. CASE Assigned(i)
  BY <1>2, <1>14, AssignedSteps DEF ListParts
<1>15. CASE AssignedRead(i) \/ Unassigned(i)
  BY <1>3, <1>15, AssignedReadSteps
<1>16. QED
  BY <1>1, <1>4, <1>6, <1>7, <1>8, <1>9, <1>10, <1>11, <1>12, <1>13, <1>14, <1>15 DEF Answered

LEMMA ListWhenRefused ==
  ASSUME Core, Core', ListInv, NEW i \in Slots, Refused(i), Rest
  PROVE  ListInv'
<1>1. Fitting(page, Without(i))
  BY WithoutFits DEF Core, Without
<1>2. ASSUME NEW fields, NEW from, Foot(fields, from, {}), "list" \notin fields
      PROVE  ListInv'
  BY <1>2, ListFoot
<1>3. CASE requests[i].part = "refresh" /\ TurnedSomewhere(Without(i))
  BY <1>1, <1>3, ListTurned
<1>4. CASE Foot(LoadFields, {"publishLoad"}, {}) \/ Foot({"picker"}, {"picker"}, {})
  BY <1>2, <1>4 DEF LoadFields
<1>5. CASE Undone(requests[i], page') /\ requests' = Without(i)
  <2>1. page'.list.query = page.list.query /\ page'.list.stray = page.list.stray /\ ShownRight(page'.list)
    <3>1. CASE page'.list = page.list
      BY <3>1 DEF ListInv, ListRight
    <3>2. CASE page'.list # page.list
      BY <1>5, <3>2 DEF Undone, Changes, PageFields, ShownRight
    <3>3. QED
      BY <3>1, <3>2
  <2>2. QED
    BY <1>5, <2>1, ListTaken
<1>6. QED
  BY <1>3, <1>4, <1>5, RefusedSteps

LEMMA ListWhenLost ==
  ASSUME Core, Core', ListInv, NEW i \in Slots, Lose(i)
  PROVE  ListInv'
<1>1. CASE PoolLost(i)
  BY <1>1, ListFoot DEF PoolLost, ListParts
<1>2. CASE LoadLost(i)
  BY <1>2, ListFoot DEF LoadLost, ListParts
<1>3. CASE OtherLost(i)
  <2>1. \A j \in Slots : Same(requests[j], requests'[j])
    BY <1>3, FieldsOf DEF OtherLost, LeftOver, Unheard, Fields, NoRequest, Same
  <2>2. page'.list.query = page.list.query /\ page'.list.stray = page.list.stray /\ ShownRight(page'.list)
    <3>1. CASE page'.list = page.list
      BY <3>1 DEF ListInv, ListRight
    <3>2. CASE page'.list # page.list
      BY <1>3, <3>2 DEF OtherLost, Undone, Foot, Changes, PageFields, ShownRight
    <3>3. QED
      BY <3>1, <3>2
  <2>3. QED
    BY <2>1, <2>2 DEF ListInv, ListRight, AskedBy, Is, Same, ListParts
<1>4. QED
  BY <1>1, <1>2, <1>3, LoseSteps

\* The list shows what was asked for last.
LEMMA ListStep ==
  ASSUME IInv, Core, ListInv, [Next]_vars
  PROVE  ListInv'
<1>0. IInv' /\ Core'
  BY StepKeeps, CoreStep
<1>1. CASE Teacher \/ SearchDebounced \/ BankSearchDebounced
  BY <1>0, <1>1, ListTeacher
<1>2. CASE \E i \in Slots : Later(i)
  <2>1. PICK i \in Slots : Later(i)
    BY <1>2
  <2>2. CASE ServeRequest(i) \/ HandlerFails(i)
    <3>1. page' = page /\ \E s : Served(i, s)
      BY <1>0, <2>2, ServedSteps
    <3>2. PICK s : Served(i, s)
      BY <3>1
    <3>3. \A j \in Slots : Same(requests[j], requests'[j])
      BY <3>2 DEF Served, Handled, Same, Alike, NoRequest
    <3>4. QED
      BY <3>1, <3>3, ListStays
  <2>3. CASE Lose(i)
    BY <1>0, <2>3, ListWhenLost
  <2>4. CASE Answered(i) /\ Rest
    BY <1>0, <2>4, ListWhenAnswered
  <2>5. CASE Refused(i) /\ Rest
    BY <1>0, <2>5, ListWhenRefused
  <2>6. QED
    BY <2>1, <2>2, <2>3, <2>4, <2>5 DEF Later
<1>3. CASE SendElsewhere
  <2>1. FreeSlots(requests) # {} /\ page' = page
    BY <1>3, OthersSend
  <2>2. PICK r : Others(r) /\ requests' = Put(requests, r)
    BY <1>3, OthersSend
  <2>3. \A j \in Slots : requests'[j] = requests[j] \/ requests'[j] = r
    BY <2>1, <2>2, PutFills, FieldsOf
  <2>4. QED
    BY <2>1, <2>2, <2>3, ListStays DEF Same, Others
<1>4. CASE StartComes \/ (\E q \in Questions : ElseDeleteQuestion(q)) \/ UNCHANGED vars
  BY <1>4, ListStays DEF StartComes, StartsCome, ElseDeleteQuestion, DeleteQuestion, vars, storeVars,
     pageVars, Same
<1>5. QED
  BY <1>1, <1>2, <1>3, <1>4 DEF Next

LEMMA InitLists ==
  ASSUME Init
  PROVE  ListInv
<1>1. \A j \in Slots : NoRequests[j] = NoRequest /\ ~NoRequest.heard
  BY DEF NoRequests, NoRequest
<1>2. FreeSlots(NoRequests) # {}
  BY <1>1, StoreAssumption, PagesAssumption DEF FreeSlots, Slots
<1>3. NoRequests = [j \in Slots |-> NoRequests[j]]
  BY DEF NoRequests
<1>4. CASE \E kind \in {"list", "wizard", "edit", "preview", "results"} :
             FirstPage(kind) /\ TurnedTo(page, kind, IF kind \in {"list", "wizard"} THEN 0 ELSE 1)
  <2>1. PICK kind \in {"list", "wizard", "edit", "preview", "results"} :
             FirstPage(kind) /\ TurnedTo(page, kind, IF kind \in {"list", "wizard"} THEN 0 ELSE 1)
    BY <1>4
  <2>2. page.list \in {NoList, [NoList EXCEPT !.loading = TRUE]}
    <3>1. NewPage("missing", 0).list = NoList
      BY NewPageIs DEF NewPart
    <3>2. QED
      BY <2>1, <3>1 DEF TurnedTo
  <2>3. page.list.query = AllQuizzes /\ page.list.shown = NoQuery
    BY <2>2 DEF NoList
  <2>4. requests = NoRequests \/ \E r : FirstAsk(r) /\ requests = Put(NoRequests, r)
    BY <2>1, Zenon DEF FirstPage, FirstAsk
  <2>5. \A j \in Slots : requests[j] = NoRequest \/ FirstAsk(requests[j])
    BY <1>1, <1>2, <1>3, <2>4, PutFills
  <2>6. QED
    BY <1>1, <2>3, <2>5, FirstAskIs DEF ListInv, ListRight, ShownRight, AskedBy, Is
<1>5. CASE \E step \in 2 .. 5 : /\ Fitting(page, requests) /\ requests = ReadsOfStep(NoRequests, 1, step)
                                /\ \E p : SavedWizard(p, step) /\ AtItsStep(page, p, step)
  <2>1. page.list = NoList /\ page.kind = "wizard" /\ Fitting(page, requests)
    BY <1>5 DEF SavedWizard, AtItsStep
  <2>2. \A j \in Slots : requests[j].heard => requests[j].part \notin ListParts
    BY <2>1 DEF Fitting, Fits, OfPage, ListParts
  <2>3. NoList.shown = NoQuery
    BY PartsAreNew
  <2>4. QED
    BY <2>1, <2>2, <2>3 DEF ListInv, ListRight, ShownRight, AskedBy, Is, ListParts
<1>6. QED
  BY <1>4, <1>5, BeginsSomehow

-----------------------------------------------------------------------------
\* What waits.

LEMMA WaitsFoot ==
  ASSUME WaitsRight(page, requests), NEW fields, NEW from, NEW to, Foot(fields, from, to)
  PROVE  /\ "saving" \notin fields /\ from \intersect {"save", "draft"} = {} => SaveWaits(page', requests')
         /\ "picker" \notin fields /\ "picker" \notin from => PickWaits(page', requests')
         /\ "busy" \notin fields /\ from \intersect {"actions", "publish", "toggle"} = {} => BusyWaits(page', requests')
         /\ "panel" \notin fields /\ "panel" \notin from => PanelWaits(page', requests')
<1>1. /\ "saving" \notin fields => page'.saving = page.saving
      /\ "picker" \notin fields => page'.picker = page.picker
      /\ "busy" \notin fields => page'.busy = page.busy
      /\ "panel" \notin fields => page'.panel = page.panel
  BY DEF Foot, Changes, PageFields
<1>2. \A j \in Slots : requests[j].part \notin from \union {"none"} => requests'[j] = requests[j]
  BY DEF Foot, Moves
<1>4. ASSUME "saving" \notin fields, from \intersect {"save", "draft"} = {}
      PROVE  SaveWaits(page', requests')
  BY <1>2, <1>4, <1>1 DEF WaitsRight, SaveWaits, Is
<1>5. ASSUME "picker" \notin fields, "picker" \notin from
      PROVE  PickWaits(page', requests')
  BY <1>2, <1>5, <1>1 DEF WaitsRight, PickWaits, Is
<1>6. ASSUME "busy" \notin fields, from \intersect {"actions", "publish", "toggle"} = {}
      PROVE  BusyWaits(page', requests')
  <2>1. \A j \in Slots : requests[j].part \in {"actions", "publish", "toggle"} => requests'[j] = requests[j]
    BY <1>2, <1>6
  <2>2. QED
    BY <1>1, <1>6, <2>1 DEF WaitsRight, BusyWaits, Is
<1>7. ASSUME "panel" \notin fields, "panel" \notin from
      PROVE  PanelWaits(page', requests')
  BY <1>2, <1>7, <1>1 DEF WaitsRight, PanelWaits, Is
<1>8. QED
  BY <1>4, <1>5, <1>6, <1>7

\* None of the four is touched.
LEMMA WaitsCalm ==
  ASSUME WaitsRight(page, requests), NEW fields, NEW from, NEW to, Foot(fields, from, to),
         fields \intersect {"saving", "picker", "busy", "panel"} = {},
         from \intersect {"save", "draft", "picker", "actions", "publish", "toggle", "panel"} = {}
  PROVE  WaitsRight(page', requests')
BY WaitsFoot DEF WaitsRight

LEMMA TurnedWaits ==
  ASSUME NEW p, NEW rs, NEW kind, NEW id, Untouched(p), TurnedTo(p, kind, id)
  PROVE  WaitsRight(p, rs) /\ ~p.picker.saving /\ ~p.picker.saved /\ ~p.panel.assigning
<1>3. ~p.picker.saving /\ ~p.picker.saved
  <2>1. NewPage("missing", 0).picker = NoPicker /\ ~NoPicker.saving /\ ~NoPicker.saved
    BY NewPageIs, PartsAreNew DEF NewPart
  <2>2. CASE kind = "edit" /\ p # NewPage("missing", 0)
    <3>1. PICK ids : p.picker = [NoPicker EXCEPT !.open = TRUE, !.pool = ids]
      BY <2>2 DEF TurnedTo
    <3>2. QED
      BY <3>1 DEF NoPicker
  <2>3. QED
    BY <2>1, <2>2 DEF TurnedTo
<1>4. ~p.panel.assigning
  <2>1. NewPage("missing", 0).panel = NoPanel /\ ~NoPanel.assigning
    BY NewPageIs, PartsAreNew DEF NewPart
  <2>2. QED
    BY <2>1 DEF TurnedTo
<1>5. QED
  BY <1>3, <1>4 DEF WaitsRight, SaveWaits, PickWaits, BusyWaits, PanelWaits, Untouched

LEMMA WaitsTurned ==
  ASSUME NEW rs, TurnedSomewhere(rs)
  PROVE  WaitsRight(page', requests')
BY TurnedWaits DEF TurnedSomewhere

\* A step of the wizard has nothing that waits but a save.
LEMMA StepWaits ==
  ASSUME NEW p, NEW rs, Entered(p, rs)
  PROVE  /\ PickWaits(page', requests') /\ BusyWaits(page', requests') /\ PanelWaits(page', requests')
         /\ page'.saving = p.saving
BY PartsAreNew DEF Entered, AtItsStep, PickWaits, BusyWaits, PanelWaits

LEMMA PutThere ==
  ASSUME Core, FreeSlots(requests) # {}, NEW r, requests' = Put(requests, r)
  PROVE  \E i \in Slots : requests'[i] = r /\ \A j \in Slots : j # i => requests'[j] = requests[j]
  BY PutFills DEF Core, Fitting

LEMMA WaitsTeacher ==
  ASSUME Core, WaitsRight(page, requests), Teacher \/ SearchDebounced \/ BankSearchDebounced
  PROVE  WaitsRight(page', requests')
<1>1. CASE OpenListed \/ Done
  BY <1>1, OpenSteps, WaitsTurned DEF OpensOne
<1>2. CASE \/ \E status \in {"all", "draft", "published", "scheduled", "archived"} : UpdateFilter(status)
           \/ HandleSearchChange \/ ClearFilters \/ TurnListPage \/ SearchDebounced
  BY <1>2, ListQueried, WaitsCalm
<1>3. CASE \E row \in page.list.rows : \E action \in Actions(row.status) : HandleAction(row, action)
  BY <1>3, HandleActionSteps, WaitsCalm
<1>4. CASE FillIn
  BY <1>4, FillInSteps, WaitsCalm
<1>5. CASE (\E step \in 1 .. 5 : GoToStep(step)) \/ Advance
  BY <1>5, StepSteps, WaitsFoot, StepWaits DEF StepFields, StepParts, WaitsRight
<1>6. CASE HandleContinue \/ (HandleSaveDraft /\ HasForm /\ page.form.title) \/ HandleSubmit
  <2>1. \E part \in {"save", "draft"} : Persisted(part)
    BY <1>6, ContinueSteps, SubmitSteps DEF PersistsAs
  <2>0. PICK part \in {"save", "draft"} : Persisted(part)
    BY <2>1
  <2>2. PICK r : FreeSlots(requests) # {} /\ requests' = Put(requests, r) /\ SaveOf(r, part)
    BY <2>0 DEF Persisted
  <2>3. SaveWaits(page', requests')
    BY <2>2, PutThere DEF SaveWaits, Is, SaveOf, Sent, Of
  <2>4. Foot({"saving", "dirty", "asked"}, {}, {"save"}) \/ Foot({"saving", "dirty", "asked"}, {}, {"draft"})
          \/ Foot({"saving", "error"}, {}, {"save"})
    BY <1>6, ContinueSteps, SubmitSteps DEF PersistsAs
  <2>5. QED
    BY <2>3, <2>4, WaitsFoot DEF WaitsRight
<1>7. CASE Leaves
  BY <1>7, LeaveSteps, WaitsTurned
<1>8. CASE HandlePublish \/ (\E action \in Actions(page.status) : CallApi(action)) \/ Toggle
  <2>1. PICK part \in {"publish", "actions", "toggle"} : Commanded(part)
    BY <1>8, CommandSteps
  <2>2. Foot({"busy"}, {}, {part}) /\ FreeSlots(requests) # {}
    BY <2>1 DEF Commanded
  <2>3. PICK r : requests' = Put(requests, r) /\ Sent(r) /\ r.part = part
    BY <2>1 DEF Commanded
  <2>4. BusyWaits(page', requests')
    BY <2>2, <2>3, PutThere DEF BusyWaits, Is, Sent
  <2>5. QED
    BY <2>2, <2>4, WaitsFoot DEF WaitsRight
<1>9. CASE \/ \E q \in Questions : AddToPool(q) \/ RemoveFromPool(q)
           \/ ClearPool \/ (\E n \in Questions : Move(n)) \/ AddSelectedToPool
           \/ ToggleSelectAllOnPage \/ \E q \in Questions : ToggleBankSelected(q)
  BY <1>9, PickedSteps, WaitsFoot DEF Repooled, Browsed, WaitsRight, PickWaits
<1>10. CASE HandleBankSearchChange \/ BankSearchDebounced \/ GoToPage
  <2>1. Foot({"picker"}, {"bank"}, {"bank"}) /\ page'.picker.saving = page.picker.saving
    BY <1>10, PickerBrowses DEF Browsed
  <2>2. PickWaits(page', requests')
    BY <2>1 DEF WaitsRight, PickWaits, Foot, Moves, Is
  <2>3. QED
    BY <2>1, <2>2, WaitsFoot DEF WaitsRight
<1>11. CASE HandleSave
  <2>1. Foot({"picker"}, {}, {"picker"}) /\ FreeSlots(requests) # {}
    BY <1>11, HandleSaveSteps
  <2>2. PICK r : requests' = Put(requests, r) /\ Of(r, "pool", page.quiz, "picker") /\ r.heard
    BY <1>11, HandleSaveSteps
  <2>3. PickWaits(page', requests')
    BY <2>1, <2>2, PutThere DEF PickWaits, Is, Of
  <2>4. QED
    BY <2>1, <2>3, WaitsFoot DEF WaitsRight
<1>12. CASE (\E t \in Targets : AssignTo(t)) \/ (\E row \in page.panel.rows : RemoveAssignment(row))
  <2>1. Foot({"panel", "crossed"}, {}, {"panel"})
    BY <1>12, PanelAskSteps
  <2>2. PICK r : PanelAsked(r)
    BY <1>12, PanelAskSteps
  <2>3. PICK i \in Slots : requests'[i] = r /\ \A j \in Slots : j # i => requests'[j] = requests[j]
    BY <2>2, PutThere DEF PanelAsked
  <2>4. PanelWaits(page', requests')
    <3>1. CASE r.kind = "assign"
      BY <2>2, <2>3, <3>1 DEF PanelWaits, Is, PanelAsked, Sent
    <3>2. CASE r.kind = "unassign"
      <4>1. page'.panel.assigning = page.panel.assigning
        BY <2>2, <3>2 DEF PanelAsked
      <4>2. \A j \in Slots : requests[j].heard => requests'[j] = requests[j]
        <5>1. ~NoRequest.heard
          BY DEF NoRequest
        <5>2. PICK k \in Slots : requests[k] = NoRequest /\ \A j \in Slots : j # k => requests'[j] = requests[j]
          BY <2>2, PutFills, FieldsOf DEF PanelAsked
        <5>3. QED
          BY <5>1, <5>2
      <4>3. QED
        BY <4>1, <4>2 DEF WaitsRight, PanelWaits, Is
    <3>3. QED
      BY <2>2, <3>1, <3>2 DEF PanelAsked
  <2>5. QED
    BY <2>1, <2>4, WaitsFoot DEF WaitsRight
<1>13. QED
  BY <1>1, <1>2, <1>3, <1>4, <1>5, <1>6, <1>7, <1>8, <1>9, <1>10, <1>11, <1>12 DEF Teacher, Leaves

LEMMA TeacherLosesNothing ==
  ASSUME Core, Teacher \/ SearchDebounced \/ BankSearchDebounced
  PROVE  UNCHANGED lost
<1>1. CASE OpenListed \/ Done
  BY <1>1, OpenSteps DEF OpensOne
<1>2. CASE \/ \E status \in {"all", "draft", "published", "scheduled", "archived"} : UpdateFilter(status)
           \/ HandleSearchChange \/ ClearFilters \/ TurnListPage \/ SearchDebounced
  BY <1>2, ListQueried DEF Quiet
<1>3. CASE \E row \in page.list.rows : \E action \in Actions(row.status) : HandleAction(row, action)
  BY <1>3, HandleActionSteps DEF Quiet
<1>4. CASE FillIn
  BY <1>4, FillInSteps DEF Quiet
<1>5. CASE (\E step \in 1 .. 5 : GoToStep(step)) \/ Advance
  BY <1>5, StepSteps DEF Quiet
<1>6. CASE HandleContinue \/ (HandleSaveDraft /\ HasForm /\ page.form.title)
  BY <1>6, ContinueSteps DEF PersistsAs
<1>7. CASE Leaves
  BY <1>7, LeaveSteps DEF Quiet
<1>8. CASE HandlePublish \/ (\E action \in Actions(page.status) : CallApi(action)) \/ Toggle
  BY <1>8, CommandSteps DEF Commanded, Quiet
<1>9. CASE HandleSubmit
  BY <1>9, SubmitSteps DEF Quiet
<1>10. CASE \/ \E q \in Questions : AddToPool(q) \/ RemoveFromPool(q)
            \/ ClearPool \/ (\E n \in Questions : Move(n)) \/ AddSelectedToPool
            \/ ToggleSelectAllOnPage \/ \E q \in Questions : ToggleBankSelected(q)
  BY <1>10, PickedSteps DEF Quiet
<1>11. CASE HandleBankSearchChange \/ BankSearchDebounced \/ GoToPage
  BY <1>11, PickerBrowses DEF Quiet
<1>12. CASE HandleSave
  BY <1>12, HandleSaveSteps DEF Quiet
<1>13. CASE (\E t \in Targets : AssignTo(t)) \/ (\E row \in page.panel.rows : RemoveAssignment(row))
  BY <1>13, PanelAskSteps DEF Quiet
<1>14. QED
  BY <1>1, <1>2, <1>3, <1>4, <1>5, <1>6, <1>7, <1>8, <1>9, <1>10, <1>11, <1>12, <1>13 DEF Teacher, Leaves

LEMMA WaitsAnswered ==
  ASSUME Core, WaitsRight(page, requests), NEW i \in Slots, Answered(i), Rest
  PROVE  WaitsRight(page', requests')
<1>1. CASE ListArrives(i)
  BY <1>1, ListArrivesSteps, WaitsCalm
<1>2. CASE ActionOfListDone(i)
  BY <1>2, ActionOfListDoneSteps, WaitsCalm
<1>3. CASE SaveArrives(i)
  <2>1. CASE Foot({"saving"}, {"save"}, {"refresh"}) /\ ~page'.saving
    BY <2>1, WaitsFoot DEF SaveWaits, WaitsRight
  <2>2. CASE \E p : SavedPage(p, i)
    <3>1. PICK p : SavedPage(p, i)
      BY <2>2
    <3>2. requests[i].part = "save" /\ ~p.saving
      BY <1>3, <3>1, SaveArrivesSteps DEF SavedPage
    <3>3. CASE page' = p /\ requests' = Without(i)
      <4>1. Foot({"saving", "quiz"}, {"save"}, {})
        BY <3>1, <3>2, <3>3, FieldsOf, WithoutMoves DEF Foot, SavedPage, Without
      <4>2. SaveWaits(page', requests')
        BY <3>2, <3>3 DEF SaveWaits
      <4>3. QED
        BY <4>1, <4>2, WaitsFoot DEF WaitsRight
    <3>4. CASE Entered(p, Without(i))
      BY <3>2, <3>4, StepWaits DEF WaitsRight, SaveWaits
    <3>5. QED
      BY <3>1, <3>3, <3>4 DEF SavedPage
  <2>3. QED
    BY <1>3, <2>1, <2>2, SaveArrivesSteps
<1>4. CASE DraftEnds(i)
  BY <1>4, DraftEndsSteps, WaitsTurned
<1>5. CASE ActionDone(i)
  <2>1. CASE Foot({"busy"}, {"actions"}, {"refresh"}) /\ ~page'.busy
    BY <2>1, WaitsFoot DEF BusyWaits, WaitsRight
  <2>2. QED
    BY <1>5, <2>1, ActionDoneSteps, WaitsTurned
<1>6. CASE Refreshed(i) \/ Toggled(i)
  <2>1. Foot({"status", "busy", "released"}, {requests[i].part}, {}) /\ requests[i].part \in {"refresh", "toggle"}
    BY <1>6, PlainTaken
  <2>2. BusyWaits(page', requests')
    <3>1. CASE requests[i].part = "toggle"
      BY <1>6, <3>1, PlainTaken DEF BusyWaits
    <3>2. CASE requests[i].part = "refresh"
      <4>1. page'.busy = page.busy
        BY <1>6, <3>2, PlainTaken
      <4>2. \A j \in Slots : requests[j].part \in {"actions", "publish", "toggle"} => requests'[j] = requests[j]
        BY <2>1, <3>2 DEF Foot, Moves
      <4>3. QED
        BY <4>1, <4>2 DEF WaitsRight, BusyWaits, Is
    <3>3. QED
      BY <2>1, <3>1, <3>2
  <2>3. QED
    BY <2>1, <2>2, WaitsFoot DEF WaitsRight
<1>7. CASE PoolLoaded(i)
  BY <1>7, PoolLoadedSteps, WaitsFoot DEF PickWaits, WaitsRight
<1>8. CASE BankArrives(i)
  <2>1. Foot({"picker"}, {"bank"}, {}) /\ page'.picker.saving = page.picker.saving
    BY <1>8, BankArrivesSteps DEF Browsed
  <2>2. PickWaits(page', requests')
    BY <2>1 DEF WaitsRight, PickWaits, Foot, Moves, Is
  <2>3. QED
    BY <2>1, <2>2, WaitsFoot DEF WaitsRight
<1>9. CASE PoolSaved(i)
  BY <1>9, PickerSavedSteps, WaitsFoot DEF PickWaits, WaitsRight
<1>10. CASE PoolCounted(i)
  BY <1>10, PoolCountedSteps, WaitsCalm
<1>11. CASE PublishLoaded(i)
  <2>1. Foot(LoadFields, {"publishLoad"}, {}) /\ page'.panel.assigning = page.panel.assigning
    BY <1>11, PublishLoadSteps DEF PublishLoaded, Arrived, LoadTaken
  <2>2. PanelWaits(page', requests')
    BY <2>1 DEF WaitsRight, PanelWaits, Foot, Moves, Is
  <2>3. QED
    BY <2>1, <2>2, WaitsFoot DEF WaitsRight, LoadFields
<1>12. CASE Published(i)
  <2>1. Foot({"panel", "status", "busy"}, {"publish"}, {}) /\ page'.panel.assigning = page.panel.assigning /\ ~page'.busy
    BY <1>12, PublishedSteps
  <2>2. PanelWaits(page', requests') /\ BusyWaits(page', requests')
    BY <2>1 DEF WaitsRight, PanelWaits, BusyWaits, Foot, Moves, Is
  <2>3. QED
    BY <2>1, <2>2, WaitsFoot DEF WaitsRight
<1>13. CASE Assigned(i)
  <2> DEFINE asked == Ask("readAssigned", page.quiz, "panel")
  <2>1. /\ Foot({}, {"panel"}, {"panel"}) /\ page' = page /\ requests' = Put(Without(i), asked)
        /\ FreeSlots(Without(i)) # {}
    BY <1>13, AssignedSteps
  <2>2. Without(i) = [j \in Slots |-> Without(i)[j]]
    BY FieldsOf DEF Without
  <2>3. PICK x \in Slots : requests'[x] = asked
    BY <2>1, <2>2, PutFills
  <2>4. asked.heard /\ asked.part = "panel" /\ asked.kind = "readAssigned"
    BY AskIs
  <2> HIDE DEF asked
  <2>5. PanelWaits(page', requests')
    BY <2>3, <2>4 DEF PanelWaits, Is
  <2>6. QED
    BY <2>1, <2>5, WaitsFoot DEF WaitsRight
<1>14. CASE AssignedRead(i) \/ Unassigned(i)
  <2>1. Foot({"panel"}, {"panel"}, {}) /\ requests' = Without(i)
    BY <1>14, AssignedReadSteps
  <2>2. PanelWaits(page', requests')
    <3>1. CASE requests[i].kind = "readAssigned"
      BY <1>14, <3>1, AssignedReadSteps DEF PanelWaits
    <3>2. CASE requests[i].kind # "readAssigned"
      <4>1. requests[i].kind = "unassign" /\ page'.panel.assigning = page.panel.assigning
        BY <1>14, <3>2, AssignedReadSteps
      <4>2. \A j \in Slots : j # i => requests'[j] = requests[j]
        BY <2>1, FieldsOf DEF Without
      <4>3. QED
        BY <4>1, <4>2 DEF WaitsRight, PanelWaits, Is
    <3>3. QED
      BY <3>1, <3>2
  <2>3. QED
    BY <2>1, <2>2, WaitsFoot DEF WaitsRight
<1>15. QED
  BY <1>1, <1>2, <1>3, <1>4, <1>5, <1>6, <1>7, <1>8, <1>9, <1>10, <1>11, <1>12, <1>13, <1>14 DEF Answered

LEMMA WaitsRefused ==
  ASSUME Core, WaitsRight(page, requests), NEW i \in Slots, Refused(i), Rest
  PROVE  WaitsRight(page', requests')
<1> DEFINE r == requests[i]
<1>1. CASE TurnedSomewhere(Without(i))
  BY <1>1, WaitsTurned
<1>2. CASE Foot(LoadFields, {"publishLoad"}, {}) /\ LoadTaken(i, {})
  <2>1. page'.panel.assigning = page.panel.assigning
    BY <1>2 DEF LoadTaken
  <2>2. PanelWaits(page', requests')
    BY <1>2, <2>1 DEF WaitsRight, PanelWaits, Foot, Moves, Is
  <2>3. QED
    BY <1>2, <2>2, WaitsFoot DEF WaitsRight, LoadFields
<1>3. CASE Foot({"picker"}, {"picker"}, {}) /\ ~page'.picker.saving
  BY <1>3, WaitsFoot DEF PickWaits, WaitsRight
<1>4. CASE Undone(r, page') /\ Foot(UndoneFields, {r.part}, {}) /\ requests' = Without(i) /\ r.heard /\ r.part # "draft"
  <2>1. \A j \in Slots : j # i => requests'[j] = requests[j]
    BY <1>4, FieldsOf DEF Without
  <2>2. CASE r.part \in {"list", "reload"} /\ Changes(page', page, {"list"})
    BY <1>4, <2>2, WaitsCalm DEF Foot
  <2>3. CASE r.part = "save" /\ Changes(page', page, {"saving", "error", "dirty", "asked"}) /\ ~page'.saving
    BY <1>4, <2>3, WaitsFoot DEF Foot, SaveWaits, WaitsRight
  <2>4. CASE r.part \in {"publish", "toggle", "actions"} /\ Changes(page', page, {"busy"}) /\ ~page'.busy
    BY <1>4, <2>4, WaitsFoot DEF Foot, BusyWaits, WaitsRight
  <2>5. CASE /\ r.part = "panel" /\ Changes(page', page, {"panel", "crossed"})
             /\ r.kind = "unassign" => page'.panel.assigning = page.panel.assigning
             /\ r.kind # "unassign" => ~page'.panel.assigning
    BY <1>4, <2>5, <2>1, WaitsFoot DEF Foot, WaitsRight, PanelWaits, Is
  <2>6. CASE /\ r.part \notin {"list", "reload", "save", "picker", "publish", "toggle", "panel"}
             /\ r.part = "actions" => r.status = "gone"
             /\ page' = page
    BY <1>4, <2>1, <2>6 DEF WaitsRight, SaveWaits, PickWaits, BusyWaits, PanelWaits, Is
  <2>7. QED
    BY <1>4, <2>2, <2>3, <2>4, <2>5, <2>6 DEF Undone
<1>5. QED
  BY <1>1, <1>2, <1>3, <1>4, RefusedSteps

\* A button that waits, waits for an answer that can still come.
LEMMA BusyStep ==
  ASSUME IInv, Core, BusyInv, [Next]_vars
  PROVE  BusyInv'
<1>0. IInv' /\ Core'
  BY StepKeeps, CoreStep
<1>1. CASE \E i \in Slots : Lose(i)
  BY <1>1, LoseSteps DEF BusyInv
<1>2. CASE ~\E i \in Slots : Lose(i)
  <2>1. lost' = lost
    <3>3. CASE UNCHANGED vars \/ StartComes \/ (\E q \in Questions : ElseDeleteQuestion(q)) \/ SendElsewhere
      BY <3>3 DEF vars, pageVars, StartComes, ElseDeleteQuestion, SendElsewhere
    <3>4. CASE \E i \in Slots : Later(i)
      BY <1>2, <3>4 DEF Later, ServeRequest, HandlerFails, Rest
    <3>5. CASE Teacher \/ SearchDebounced \/ BankSearchDebounced
      BY <3>5, TeacherLosesNothing
    <3>6. QED
      BY <3>3, <3>4, <3>5 DEF Next
  <2> SUFFICES ASSUME WaitsRight(page, requests) PROVE WaitsRight(page', requests')
    BY <2>1 DEF BusyInv
  <2>2. CASE Teacher \/ SearchDebounced \/ BankSearchDebounced
    BY <2>2, WaitsTeacher
  <2>3. CASE \E i \in Slots : Later(i)
    <3>1. PICK i \in Slots : Later(i)
      BY <2>3
    <3>2. CASE ServeRequest(i) \/ HandlerFails(i)
      <4>1. page' = page /\ \E s : Served(i, s)
        BY <1>0, <3>2, ServedSteps
      <4>2. PICK s : Served(i, s)
        BY <4>1
      <4>3. \A j \in Slots : requests[j].heard =>
              /\ requests'[j].heard /\ requests'[j].part = requests[j].part /\ requests'[j].kind = requests[j].kind
              /\ requests[j].part = "actions" => requests'[j].status = requests[j].status
        BY <4>2 DEF Core, Fitting, Fits, Sorted, LifeCycle, Served, Handled, Alike
      <4>4. QED
        BY <4>1, <4>3 DEF WaitsRight, SaveWaits, PickWaits, BusyWaits, PanelWaits, Is
    <3>3. CASE Answered(i) /\ Rest
      BY <3>3, WaitsAnswered
    <3>4. CASE Refused(i) /\ Rest
      BY <3>4, WaitsRefused
    <3>5. QED
      BY <1>2, <3>1, <3>2, <3>3, <3>4 DEF Later
  <2>4. CASE SendElsewhere
    <3>1. FreeSlots(requests) # {} /\ page' = page
      BY <2>4, OthersSend
    <3>2. PICK r : requests' = Put(requests, r)
      BY <2>4, OthersSend
    <3>3. \A j \in Slots : requests[j].heard => requests'[j] = requests[j]
      BY <3>1, <3>2, PutFills DEF NoRequest, Core, Fitting
    <3>4. QED
      BY <3>1, <3>3 DEF WaitsRight, SaveWaits, PickWaits, BusyWaits, PanelWaits, Is
  <2>5. CASE StartComes \/ (\E q \in Questions : ElseDeleteQuestion(q)) \/ UNCHANGED vars
    BY <2>5 DEF StartComes, StartsCome, ElseDeleteQuestion, DeleteQuestion, vars, storeVars, pageVars
  <2>6. QED
    BY <2>2, <2>3, <2>4, <2>5 DEF Next
<1>3. QED
  BY <1>1, <1>2

LEMMA InitWaits ==
  ASSUME Init
  PROVE  BusyInv
<1>1. CASE \E kind \in {"list", "wizard", "edit", "preview", "results"} :
             Untouched(page) /\ TurnedTo(page, kind, IF kind \in {"list", "wizard"} THEN 0 ELSE 1)
  BY <1>1, TurnedWaits DEF BusyInv
<1>2. CASE \E step \in 2 .. 5 : \E p : SavedWizard(p, step) /\ AtItsStep(page, p, step)
  BY <1>2, PartsAreNew DEF SavedWizard, AtItsStep, BusyInv, WaitsRight, SaveWaits, PickWaits, BusyWaits, PanelWaits
<1>3. QED
  BY <1>1, <1>2, BeginsSomehow

-----------------------------------------------------------------------------
LEMMA CreatesAreFinite == \A rs : IsFiniteSet(Creates(rs)) /\ Cardinality(Creates(rs)) \in Nat
<1> TAKE rs
<1>1. IsFiniteSet(Slots)
  BY StoreAssumption, FS_Interval DEF Slots
<1>2. Creates(rs) \subseteq Slots
  BY DEF Creates
<1>3. QED
  BY <1>1, <1>2, FS_Subset, FS_CardinalityType

LEMMA NoMoreCreates ==
  ASSUME NEW rs, NEW next, \A j \in Slots : Pends(next[j]) => Pends(rs[j])
  PROVE  Cardinality(Creates(next)) <= Cardinality(Creates(rs))
  BY CreatesAreFinite, FS_Subset DEF Creates

LEMMA OneCreateLess ==
  ASSUME NEW rs, NEW next, \A j \in Slots : Pends(next[j]) => Pends(rs[j]), NEW i \in Slots, Pends(rs[i]), ~Pends(next[i])
  PROVE  Cardinality(Creates(next)) + 1 <= Cardinality(Creates(rs))
<1>1. Creates(next) \subseteq Creates(rs) \ {i} /\ i \in Creates(rs)
  BY DEF Creates
<1>2. Cardinality(Creates(rs) \ {i}) = Cardinality(Creates(rs)) - 1 /\ IsFiniteSet(Creates(rs) \ {i})
  BY <1>1, CreatesAreFinite, FS_RemoveElement
<1>3. Cardinality(Creates(next)) <= Cardinality(Creates(rs) \ {i})
  BY <1>1, <1>2, FS_Subset
<1>4. QED
  BY <1>2, <1>3, CreatesAreFinite

LEMMA OneCreateMore ==
  ASSUME NEW rs, NEW next, NEW i \in Slots, \A j \in Slots : j # i => (Pends(next[j]) => Pends(rs[j]))
  PROVE  Cardinality(Creates(next)) <= Cardinality(Creates(rs)) + 1
<1>1. Creates(next) \subseteq Creates(rs) \union {i}
  BY DEF Creates
<1>2. IsFiniteSet(Creates(rs) \union {i}) /\ Cardinality(Creates(rs) \union {i}) <= Cardinality(Creates(rs)) + 1
  <2>1. IsFiniteSet(Creates(rs)) /\ Cardinality(Creates(rs)) \in Nat
    BY CreatesAreFinite
  <2> DEFINE more == Creates(rs) \union {i}
  <2>2. IsFiniteSet(more) /\ Cardinality(more) = (IF i \in Creates(rs) THEN Cardinality(Creates(rs))
                                                  ELSE Cardinality(Creates(rs)) + 1)
    BY <2>1, FS_AddElement
  <2>3. QED
    BY <2>1, <2>2
<1>3. Cardinality(Creates(next)) <= Cardinality(Creates(rs) \union {i})
  BY <1>1, <1>2, FS_Subset
<1>4. QED
  BY <1>2, <1>3, CreatesAreFinite, FS_CardinalityType

LEMMA CountKept ==
  ASSUME CountInv, \A j \in Slots : Pends(requests'[j]) => Pends(requests[j]), Token(page') <= Token(page),
         UNCHANGED <<made, opened, resent>>
  PROVE  CountInv'
  BY NoMoreCreates, CreatesAreFinite DEF Token, CountInv

LEMMA FootPends ==
  ASSUME Core', NEW fields, NEW from, NEW to, Foot(fields, from, to), to \intersect {"save", "draft"} = {}
  PROVE  \A j \in Slots : Pends(requests'[j]) => Pends(requests[j])
<1> SUFFICES ASSUME NEW j \in Slots, Pends(requests'[j]) PROVE Pends(requests[j])
  OBVIOUS
<1>1. requests'[j].part \in {"save", "draft"}
  BY DEF Core, Fitting, Fits, Sorted, Pends
<1>2. requests'[j] = requests[j]
  BY <1>1 DEF Foot, Moves
<1>3. QED
  BY <1>2

LEMMA CountFoot ==
  ASSUME Core', CountInv, NEW fields, NEW from, NEW to, Foot(fields, from, to),
         fields \intersect {"kind", "quiz", "asked"} = {}, to \intersect {"save", "draft"} = {},
         UNCHANGED <<made, opened, resent>>
  PROVE  CountInv'
<1>1. page'.kind = page.kind /\ page'.quiz = page.quiz /\ page'.asked = page.asked
  BY DEF Foot, Changes, PageFields
<1>2. QED
  BY <1>1, FootPends, CountKept DEF Token

LEMMA ForgottenPends ==
  ASSUME NEW p, NEW rs, Fitting(p, rs), NEW gone
  PROVE  \A j \in Slots : Pends(Forget(rs, gone)[j]) => Pends(rs[j])
<1> SUFFICES ASSUME NEW j \in Slots, Pends(Forget(rs, gone)[j]) PROVE Pends(rs[j])
  OBVIOUS
<1> DEFINE r == rs[j]
           s == Forget(rs, gone)[j]
<1>1. s = r \/ Forgotten(r, s)
  BY ForgetLeaves DEF Left
<1>2. DOMAIN r = Fields
  BY DEF Fitting, Fits
<1>3. CASE s = NoRequest
  BY <1>3 DEF Pends, NoRequest
<1>4. CASE s = [r EXCEPT !.heard = FALSE] /\ r.stage \notin {"answered", "refused"}
  BY <1>2, <1>4 DEF Pends, Fields, NoRequest
<1>5. CASE TurnsPage(r) /\ s = [r EXCEPT !.status = "gone"]
  BY <1>2, <1>5 DEF Pends, Fields, NoRequest, Is
<1>6. QED
  BY <1>1, <1>3, <1>4, <1>5 DEF Forgotten

LEMMA CountTurned ==
  ASSUME CountInv, NEW rs, NEW p, Fitting(p, rs), TurnedSomewhere(rs),
         \A j \in Slots : Pends(rs[j]) => Pends(requests[j]), UNCHANGED <<made, resent>>,
         opened' = IF page'.kind = "wizard" THEN opened + 1 ELSE opened
  PROVE  CountInv'
<1>1. \A j \in Slots : Pends(requests'[j]) => Pends(requests[j])
  <2>1. Turns(rs)
    BY DEF TurnedSomewhere
  <2> SUFFICES ASSUME NEW j \in Slots, Pends(requests'[j]) PROVE Pends(requests[j])
    OBVIOUS
  <2>2. CASE requests'[j] = Forget(rs, PageParts)[j]
    BY <2>2, ForgottenPends
  <2>3. CASE FirstAsk(requests'[j])
    BY <2>3, FirstAskIs DEF Pends
  <2>4. QED
    BY <2>1, <2>2, <2>3 DEF Turns
<1>2. Cardinality(Creates(requests')) <= Cardinality(Creates(requests))
  BY <1>1, NoMoreCreates
<1>3. Token(page') <= (IF page'.kind = "wizard" THEN 1 ELSE 0) /\ Token(page') \in Nat /\ Token(page) \in Nat
  BY DEF Token
<1>4. QED
  BY <1>2, <1>3, CreatesAreFinite DEF CountInv

LEMMA WithoutPends ==
  ASSUME Core, NEW i \in Slots
  PROVE  \A j \in Slots : Pends(Without(i)[j]) => Pends(requests[j]) /\ j # i
BY FieldsOf DEF Without, Pends, NoRequest

\* The first save, and those that come after it.
LEMMA CountPersists ==
  ASSUME Core, CountInv, NEW part \in {"save", "draft"}, PersistsAs(part)
  PROVE  CountInv'
<1>1. PICK r : FreeSlots(requests) # {} /\ requests' = Put(requests, r) /\ SaveOf(r, part)
  BY DEF PersistsAs, Persisted
<1>2. PICK i \in Slots : requests'[i] = r /\ \A j \in Slots : j # i => requests'[j] = requests[j]
  BY <1>1, PutThere
<1>3. page'.kind = page.kind /\ page'.quiz = page.quiz
  BY DEF PersistsAs, Foot, Changes, PageFields
<1>4. UNCHANGED <<made, opened>> /\ resent' = (resent \/ (page.asked /\ page.quiz = 0))
  BY DEF PersistsAs
<1>5. CASE page.quiz # 0
  <2>1. ~Pends(r)
    BY <1>1, <1>5 DEF SaveOf, Of, Pends
  <2>2. Cardinality(Creates(requests')) <= Cardinality(Creates(requests))
    BY <1>2, <2>1, NoMoreCreates
  <2>3. Token(page') = 0 /\ Token(page) = 0
    BY <1>3, <1>5 DEF Token
  <2>4. resent => resent'
    BY <1>4
  <2> DEFINE before == Cardinality(Creates(requests))
             after == Cardinality(Creates(requests'))
  <2>5. before \in Nat /\ after \in Nat
    BY CreatesAreFinite
  <2>6. made \in Nat /\ opened \in Nat /\ (resent \/ made + before + Token(page) <= opened)
    BY DEF CountInv
  <2> HIDE DEF before, after
  <2>7. resent' \/ made + after + Token(page') <= opened
    BY <2>2, <2>3, <2>4, <2>5, <2>6 DEF before, after
  <2>8. QED
    BY <1>4, <2>6, <2>7 DEF CountInv, after
<1>6. CASE page.quiz = 0 /\ page.asked
  BY <1>4, <1>6 DEF CountInv
<1>7. CASE page.quiz = 0 /\ ~page.asked
  <2>1. Token(page') = 0 /\ Token(page) = 1
    BY <1>3, <1>7 DEF Token, PersistsAs
  <2>2. Cardinality(Creates(requests')) <= Cardinality(Creates(requests)) + 1
    BY <1>2, OneCreateMore
  <2>3. resent => resent'
    BY <1>4
  <2> DEFINE before == Cardinality(Creates(requests))
             after == Cardinality(Creates(requests'))
  <2>4. before \in Nat /\ after \in Nat
    BY CreatesAreFinite
  <2>5. made \in Nat /\ opened \in Nat /\ (resent \/ made + before + Token(page) <= opened)
    BY DEF CountInv
  <2> HIDE DEF before, after
  <2>6. resent' \/ made + after + Token(page') <= opened
    BY <2>1, <2>2, <2>3, <2>4, <2>5 DEF before, after
  <2>7. QED
    BY <1>4, <2>5, <2>6 DEF CountInv, after
<1>8. QED
  BY <1>5, <1>6, <1>7

\* A wizard's first save is served.
LEMMA CountServed ==
  ASSUME IInv, IInv', Core, CountInv, NEW i \in Slots, ServeRequest(i) \/ HandlerFails(i)
  PROVE  CountInv'
<1>1. PICK s : Served(i, s)
  BY ServedSteps
<1>2. UNCHANGED <<page, resent, opened>>
  BY ServedSteps
<1>3. requests'[i] = s /\ \A j \in Slots : j # i => requests'[j] = requests[j]
  BY <1>1 DEF Served
<1>4. Pends(s) => Pends(requests[i])
  BY <1>1 DEF Served, Handled, Alike, Pends, NoRequest, Is
<1>5. \A j \in Slots : Pends(requests'[j]) => Pends(requests[j])
  BY <1>3, <1>4
<1>6. CASE made' = made
  BY <1>2, <1>5, <1>6, CountKept DEF Token
<1>7. CASE ServeRequest(i) /\ At(i, {"create"}, "sent")
  <2>1. made' = made + 1
    BY <1>7 DEF ServeRequest
  <2>2. CreateQuiz(i)
    BY <1>7 DEF ServeRequest, Serve, At, RequireOwnedQuiz, UpdateQuiz, DeleteQuiz, CountPool, SetQuizStatus,
                SetQuizShowResults, ReadPoolToCopy, DuplicateQuiz, VerifyQuestions, DeletePool, WakeDelete, InsertPool,
                RequirePublishedQuiz, FindExisting, InsertAssignment, DeleteAssignment, GetQuizQuestionPool, GetQuiz,
                ListAssignmentsForQuiz, CountQuizzes, ListQuizzes, ListQuestions
  <2>3. PICK id \in Quizzes : Answer(i, [requests[i] EXCEPT !.quiz = id])
    BY <2>2 DEF CreateQuiz
  <2> DEFINE x == [requests[i] EXCEPT !.quiz = id]
  <2>4. DOMAIN x = Fields /\ DOMAIN requests = Slots
    BY FieldsOf DEF x
  <2>5. requests'[i] = (IF x.heard THEN [x EXCEPT !.stage = "answered"] ELSE NoRequest)
    BY <2>3, <2>4 DEF Answer, Becomes
  <2>6. [x EXCEPT !.stage = "answered"].stage = "answered"
    BY <2>4 DEF Fields, NoRequest
  <2>7. ~Pends(requests'[i])
    BY <2>5, <2>6 DEF Pends, NoRequest
  <2>8. Pends(requests[i])
    BY <1>7 DEF At, Pends
  <2>9. Cardinality(Creates(requests')) + 1 <= Cardinality(Creates(requests))
    BY <1>5, <2>7, <2>8, OneCreateLess
  <2>10. QED
    BY <1>2, <2>1, <2>9, CreatesAreFinite DEF CountInv, Token
<1>8. QED
  BY <1>6, <1>7 DEF ServeRequest, HandlerFails

LEMMA PutOneRead ==
  ASSUME NEW rs, rs = [j \in Slots |-> rs[j]], FreeSlots(rs) # {}, NEW id, NEW r, StepRead(r, id)
  PROVE  /\ ReadOrNot(Put(rs, r), rs, id) /\ Put(rs, r) = [j \in Slots |-> Put(rs, r)[j]]
         /\ \A j \in Slots : Put(rs, r)[j] = NoRequest => rs[j] = NoRequest
  BY PutFills DEF StepRead, Sent, NoRequest, ReadOrNot

LEMMA ReadsOfStepAre ==
  ASSUME NEW rs, rs = [j \in Slots |-> rs[j]], FreeSlots(rs) # {}, NEW id, NEW step,
         step = 5 => FreeSlots(Put(rs, Ask("readQuiz", id, "publishLoad"))) # {}
  PROVE  ReadOrNot(ReadsOfStep(rs, id, step), rs, id)
<1>1. /\ StepRead(Ask("readPool", id, "pool"), id) /\ StepRead(Ask("readPool", id, "review"), id)
      /\ StepRead(Ask("readQuiz", id, "publishLoad"), id) /\ StepRead(Ask("readAssigned", id, "publishLoad"), id)
  BY AskIs DEF StepRead, Sent, PageParts, StepParts
<1>2. CASE step = 2
  BY <1>1, <1>2, PutOneRead DEF ReadsOfStep
<1>3. CASE step = 4
  BY <1>1, <1>3, PutOneRead DEF ReadsOfStep
<1>4. CASE step = 5
  <2> DEFINE c == Ask("readQuiz", id, "publishLoad")
             d == Ask("readAssigned", id, "publishLoad")
             mid == Put(rs, c)
  <2>1. ReadsOfStep(rs, id, step) = Put(mid, d)
    BY <1>4 DEF ReadsOfStep
  <2>2. FreeSlots(mid) # {} /\ StepRead(c, id) /\ StepRead(d, id)
    BY <1>1, <1>4
  <2> HIDE DEF c, d
  <2>3. ReadOrNot(mid, rs, id) /\ mid = [j \in Slots |-> mid[j]] /\ \A j \in Slots : mid[j] = NoRequest => rs[j] = NoRequest
    BY <2>2, PutOneRead
  <2> HIDE DEF mid
  <2>4. ReadOrNot(Put(mid, d), mid, id)
    BY <2>2, <2>3, PutOneRead
  <2>5. ReadOrNot(Put(mid, d), rs, id)
    BY <2>3, <2>4 DEF ReadOrNot
  <2>6. QED
    BY <2>1, <2>5
<1>5. CASE step # 2 /\ step # 4 /\ step # 5
  BY <1>5 DEF ReadsOfStep, ReadOrNot
<1>6. QED
  BY <1>2, <1>3, <1>4, <1>5

LEMMA BeginsAsking ==
  ASSUME Init
  PROVE  /\ \A j \in Slots : requests[j] = NoRequest \/ FirstAsk(requests[j]) \/ StepRead(requests[j], 1)
         /\ requests = [j \in Slots |-> requests[j]]
<1>1. \A j \in Slots : NoRequests[j] = NoRequest
  BY DEF NoRequests
<1>2. FreeSlots(NoRequests) # {} /\ Cardinality(FreeSlots(NoRequests)) >= 2
  <2>1. PICK p : PageRight(p)
    BY BeginsSomehow DEF Fitting
  <2>2. QED
    BY <2>1, NothingFitting
<1>3. NoRequests = [j \in Slots |-> NoRequests[j]]
  BY DEF NoRequests
<1>4. requests = [j \in Slots |-> requests[j]]
  BY BeginsSomehow DEF Fitting
<1>5. CASE \E kind \in {"list", "wizard", "edit", "preview", "results"} : FirstPage(kind)
  <2>1. requests = NoRequests \/ \E r : FirstAsk(r) /\ requests = Put(NoRequests, r)
    BY <1>5, Zenon DEF FirstPage, FirstAsk
  <2>2. QED
    BY <1>1, <1>2, <1>3, <1>4, <2>1, PutFills
<1>6. CASE \E step \in 2 .. 5 : requests = ReadsOfStep(NoRequests, 1, step)
  <2>1. PICK step \in 2 .. 5 : requests = ReadsOfStep(NoRequests, 1, step)
    BY <1>6
  <2>2. \A id : FreeSlots(Put(NoRequests, Ask("readQuiz", id, "publishLoad"))) # {}
    BY <1>2, <1>3, OneMoreSlot
  <2>3. ReadOrNot(requests, NoRequests, 1)
    BY <1>2, <1>3, <2>1, <2>2, ReadsOfStepAre
  <2>4. QED
    BY <1>1, <1>4, <2>3 DEF ReadOrNot
<1>7. QED
  BY <1>5, <1>6, BeginsSomehow

LEMMA CountTeacher ==
  ASSUME Core, Core', CountInv, Teacher \/ SearchDebounced \/ BankSearchDebounced
  PROVE  CountInv'
<1>1. CASE OpenListed \/ Done
  BY <1>1, OpenSteps, CountTurned DEF OpensOne, Core
<1>2. CASE \/ \E status \in {"all", "draft", "published", "scheduled", "archived"} : UpdateFilter(status)
           \/ HandleSearchChange \/ ClearFilters \/ TurnListPage \/ SearchDebounced
  BY <1>2, ListQueried, CountFoot DEF Quiet
<1>3. CASE \E row \in page.list.rows : \E action \in Actions(row.status) : HandleAction(row, action)
  BY <1>3, HandleActionSteps, CountFoot DEF Quiet
<1>4. CASE FillIn
  BY <1>4, FillInSteps, CountFoot DEF Quiet
<1>5. CASE (\E step \in 1 .. 5 : GoToStep(step)) \/ Advance
  BY <1>5, StepSteps, CountFoot DEF Quiet, StepFields, StepParts
<1>6. CASE HandleContinue \/ (HandleSaveDraft /\ HasForm /\ page.form.title)
  BY <1>6, ContinueSteps, CountPersists
<1>7. CASE Leaves
  BY <1>7, LeaveSteps, CountTurned DEF Core, Quiet
<1>8. CASE HandlePublish \/ (\E action \in Actions(page.status) : CallApi(action)) \/ Toggle
  <2>1. PICK part \in {"publish", "actions", "toggle"} : Foot({"busy"}, {}, {part}) /\ Quiet
    BY <1>8, CommandSteps DEF Commanded
  <2>2. QED
    BY <2>1, CountFoot DEF Quiet
<1>9. CASE HandleSubmit
  <2>1. Foot({"saving", "error"}, {}, {"save"}) /\ Quiet /\ page.quiz # 0 /\ Persisted("save")
    BY <1>9, SubmitSteps
  <2>2. PICK r : FreeSlots(requests) # {} /\ requests' = Put(requests, r) /\ SaveOf(r, "save")
    BY <2>1 DEF Persisted
  <2>3. PICK i \in Slots : requests'[i] = r /\ \A j \in Slots : j # i => requests'[j] = requests[j]
    BY <2>2, PutThere
  <2>4. ~Pends(r)
    BY <2>1, <2>2 DEF SaveOf, Of, Pends
  <2>5. page'.quiz = page.quiz
    BY <2>1 DEF Foot, Changes, PageFields
  <2>6. QED
    BY <2>1, <2>3, <2>4, <2>5, CountKept DEF Token, Quiet
<1>10. CASE \/ \E q \in Questions : AddToPool(q) \/ RemoveFromPool(q)
            \/ ClearPool \/ (\E n \in Questions : Move(n)) \/ AddSelectedToPool
            \/ ToggleSelectAllOnPage \/ \E q \in Questions : ToggleBankSelected(q)
  BY <1>10, PickedSteps, CountFoot DEF Quiet
<1>11. CASE HandleBankSearchChange \/ BankSearchDebounced \/ GoToPage
  BY <1>11, PickerBrowses, CountFoot DEF Quiet
<1>12. CASE HandleSave
  BY <1>12, HandleSaveSteps, CountFoot DEF Quiet
<1>13. CASE (\E t \in Targets : AssignTo(t)) \/ (\E row \in page.panel.rows : RemoveAssignment(row))
  BY <1>13, PanelAskSteps, CountFoot DEF Quiet
<1>14. QED
  BY <1>1, <1>2, <1>3, <1>4, <1>5, <1>6, <1>7, <1>8, <1>9, <1>10, <1>11, <1>12, <1>13 DEF Teacher, Leaves

LEMMA CountAnswered ==
  ASSUME Core, Core', CountInv, NEW i \in Slots, Answered(i), Rest
  PROVE  CountInv'
<1>0. Quiet
  BY DEF Rest, Quiet
<1>1. CASE SaveArrives(i)
  <2>1. CASE Foot({"saving"}, {"save"}, {"refresh"})
    BY <1>0, <2>1, CountFoot DEF Quiet
  <2>2. CASE \E p : SavedPage(p, i)
    <3>1. PICK p : SavedPage(p, i)
      BY <2>2
    <3>2. Foot(StepFields \union {"error", "released", "saving", "quiz"}, StepParts \union {requests[i].part}, StepParts)
      BY <3>1, SavedFoot
    <3>3. \A j \in Slots : Pends(requests'[j]) => Pends(requests[j])
      BY <3>2, FootPends DEF StepParts
    <3>4. page'.quiz # 0
      BY <3>1 DEF SavedPage, Entered, AtItsStep
    <3>5. Token(page') <= Token(page)
      BY <3>4 DEF Token
    <3>6. QED
      BY <1>0, <3>3, <3>5, CountKept DEF Quiet
  <2>3. QED
    BY <1>1, <2>1, <2>2, SaveArrivesSteps
<1>2. CASE DraftEnds(i) \/ ActionDone(i)
  <2>1. CASE TurnedSomewhere(Without(i)) /\ page'.kind # "wizard"
    BY WithoutFits, <1>0, <2>1, CountTurned, WithoutPends DEF Core, Fitting, Without, Quiet
  <2>2. CASE Foot({"busy"}, {"actions"}, {"refresh"})
    BY <1>0, <2>2, CountFoot DEF Quiet
  <2>3. QED
    BY <1>2, <2>1, <2>2, DraftEndsSteps, ActionDoneSteps
<1>3. CASE ListArrives(i)
  BY <1>3, ListArrivesSteps, <1>0, CountFoot DEF Quiet
<1>4. CASE ActionOfListDone(i)
  BY <1>4, ActionOfListDoneSteps, <1>0, CountFoot DEF Quiet
<1>5. CASE Refreshed(i) \/ Toggled(i)
  <2>1. Foot({"status", "busy", "released"}, {requests[i].part}, {})
    BY <1>5, PlainTaken
  <2>2. QED
    BY <1>0, <2>1, CountFoot DEF Quiet
<1>6. CASE PoolLoaded(i)
  BY <1>6, PoolLoadedSteps, <1>0, CountFoot DEF Quiet
<1>7. CASE BankArrives(i)
  BY <1>7, BankArrivesSteps, <1>0, CountFoot DEF Quiet
<1>8. CASE PoolSaved(i)
  BY <1>8, PickerSavedSteps, <1>0, CountFoot DEF Quiet
<1>9. CASE PoolCounted(i)
  BY <1>9, PoolCountedSteps, <1>0, CountFoot DEF Quiet
<1>10. CASE PublishLoaded(i)
  BY <1>10, PublishLoadSteps, <1>0, CountFoot DEF PublishLoaded, Arrived, Quiet, LoadFields
<1>11. CASE Published(i)
  BY <1>11, PublishedSteps, <1>0, CountFoot DEF Quiet
<1>12. CASE Assigned(i)
  BY <1>12, AssignedSteps, <1>0, CountFoot DEF Quiet
<1>13. CASE AssignedRead(i) \/ Unassigned(i)
  BY <1>13, AssignedReadSteps, <1>0, CountFoot DEF Quiet
<1>14. QED
  BY <1>1, <1>2, <1>3, <1>4, <1>5, <1>6, <1>7, <1>8, <1>9, <1>10, <1>11, <1>12, <1>13 DEF Answered

LEMMA CountRefused ==
  ASSUME Core, Core', CountInv, NEW i \in Slots, Refused(i), Rest
  PROVE  CountInv'
<1> DEFINE r == requests[i]
<1>0. Quiet
  BY DEF Rest, Quiet
<1>1. CASE TurnedSomewhere(Without(i)) /\ page'.kind = "missing"
  BY WithoutFits, <1>0, <1>1, CountTurned, WithoutPends DEF Core, Without, Quiet
<1>2. CASE Foot(LoadFields, {"publishLoad"}, {})
  BY <1>0, <1>2, CountFoot DEF Quiet, LoadFields
<1>3. CASE Foot({"picker"}, {"picker"}, {})
  BY <1>0, <1>3, CountFoot DEF Quiet
<1>4. CASE Undone(r, page') /\ requests' = Without(i) /\ r.heard /\ r.stage = "refused" /\ Foot(UndoneFields, {r.part}, {})
  <2>1. \A j \in Slots : Pends(requests'[j]) => Pends(requests[j]) /\ j # i
    BY <1>4, WithoutPends
  <2>2. CASE page'.asked = page.asked
    BY <1>4, <2>2, <1>0, <2>1, CountKept DEF Foot, Changes, UndoneFields, PageFields, Token, Quiet
  <2>3. CASE page'.asked # page.asked
    <3>1. r.part = "save"
      BY <1>4, <2>3 DEF Undone, Changes, PageFields
    <3>2. page'.quiz = page.quiz
      BY <1>4 DEF Foot, Changes, UndoneFields, PageFields
    <3>3. r.kind \in {"create", "update"} /\ (r.kind = "update" => page.quiz # 0)
      BY <1>4, <3>1 DEF Core, Fitting, Fits, Sorted, OfPage
    <3>4. CASE r.kind = "update"
      BY <3>2, <3>3, <3>4, <1>0, <2>1, CountKept DEF Token, Quiet
    <3>5. CASE r.kind = "create"
      BY <1>4, <3>1, <3>5, <2>1, OneCreateLess, <1>0, CreatesAreFinite DEF Pends, Is, Token, CountInv,
         Quiet
    <3>6. QED
      BY <3>3, <3>4, <3>5
  <2>4. QED
    BY <2>2, <2>3
<1>5. QED
  BY <1>1, <1>2, <1>3, <1>4, RefusedSteps

LEMMA CountLost ==
  ASSUME Core, Core', CountInv, NEW i \in Slots, Lose(i)
  PROVE  CountInv'
<1>0. UNCHANGED <<made, opened, resent>>
  BY LoseSteps
<1>1. CASE PoolLost(i)
  BY <1>0, <1>1, CountFoot DEF PoolLost
<1>2. CASE LoadLost(i)
  BY <1>0, <1>2, CountFoot DEF LoadLost
<1>3. CASE OtherLost(i)
  <2>1. DOMAIN requests[i] = Fields /\ Unheard(requests[i], requests'[i])
    BY <1>3, FieldsOf DEF OtherLost, LeftOver
  <2>2. Pends(requests'[i]) => Pends(requests[i])
    BY <2>1 DEF Unheard, Pends, Fields, NoRequest
  <2>3. \A j \in Slots : Pends(requests'[j]) => Pends(requests[j])
    BY <1>3, <2>2 DEF OtherLost, LeftOver
  <2>4. page'.kind = page.kind /\ page'.quiz = page.quiz /\ page'.asked = page.asked
    BY <1>3 DEF OtherLost, Foot, Changes, PageFields
  <2>5. Token(page') <= Token(page)
    BY <2>4 DEF Token
  <2>6. QED
    BY <1>0, <2>3, <2>5, CountKept
<1>4. QED
  BY <1>1, <1>2, <1>3, LoseSteps

\* A wizard makes one quiz.
LEMMA CountStep ==
  ASSUME IInv, Core, CountInv, [Next]_vars
  PROVE  CountInv'
<1>0. IInv' /\ Core'
  BY StepKeeps, CoreStep
<1>1. CASE Teacher \/ SearchDebounced \/ BankSearchDebounced
  BY <1>0, <1>1, CountTeacher
<1>2. CASE \E i \in Slots : Later(i)
  BY <1>0, <1>2, CountServed, CountAnswered, CountRefused, CountLost DEF Later
<1>3. CASE SendElsewhere
  <2>1. FreeSlots(requests) # {} /\ UNCHANGED <<page, made, opened, resent>>
    BY <1>3, OthersSend
  <2>2. PICK r : Others(r) /\ requests' = Put(requests, r)
    BY <1>3, OthersSend
  <2>3. ~Pends(r)
    BY <2>2 DEF Others, Pends
  <2>4. \A j \in Slots : Pends(requests'[j]) => Pends(requests[j])
    BY <2>1, <2>2, <2>3, PutThere
  <2>5. Token(page') <= Token(page)
    BY <2>1 DEF Token
  <2>6. QED
    BY <2>1, <2>4, <2>5, CountKept
<1>4. CASE StartComes \/ (\E q \in Questions : ElseDeleteQuestion(q)) \/ UNCHANGED vars
  BY <1>4, CountKept DEF StartComes, StartsCome, ElseDeleteQuestion, DeleteQuestion, vars, storeVars,
     pageVars, Token
<1>5. QED
  BY <1>1, <1>2, <1>3, <1>4 DEF Next

LEMMA InitCounts ==
  ASSUME Init
  PROVE  CountInv
<1>1. \A j \in Slots : ~Pends(requests[j])
  BY BeginsAsking, FirstAskIs DEF Pends, NoRequest, StepRead
<1>2. Cardinality(Creates(requests)) = 0
  BY <1>1, FS_EmptySet DEF Creates
<1>3. CASE \E kind \in {"list", "wizard", "edit", "preview", "results"} :
             /\ TurnedTo(page, kind, IF kind \in {"list", "wizard"} THEN 0 ELSE 1)
             /\ made = 0 /\ opened = (IF kind = "wizard" THEN 1 ELSE 0)
  BY <1>3, TurnedKind, <1>2 DEF Token, CountInv
<1>4. CASE (\E step \in 2 .. 5 : \E p : SavedWizard(p, step) /\ AtItsStep(page, p, step)) /\ made = 1 /\ opened = 1
  BY <1>4, <1>2 DEF SavedWizard, AtItsStep, Token, CountInv
<1>5. QED
  BY <1>3, <1>4, BeginsSomehow

-----------------------------------------------------------------------------
\* The steps of the tab, by what they do to its forms and its saved parts.

LEMMA FootMore ==
  ASSUME NEW a, NEW b, NEW c, NEW f, NEW g, NEW h, Foot(a, b, c), a \subseteq f, b \subseteq g, c \subseteq h
  PROVE  Foot(f, g, h)
BY ChangesMore, MovesMore DEF Foot

LEMMA FootOwn ==
  ASSUME Core, Core', elsewhere = 0, elsewhere' = 0, NEW a, NEW b, NEW c, Foot(a, b, c)
  PROVE  MovesOwn(requests', requests, b, c)
  BY DEF Core, Fitting, Fits, Own, Foot, Moves, MovesOwn

LEMMA NeutralFoot ==
  ASSUME Core, Core', elsewhere = 0, elsewhere' = 0, NEW a, NEW b, NEW c, Foot(a, b, c), a \subseteq NeutralFields,
         b \subseteq NeutralParts, c \subseteq NeutralParts \ {"toggle"}
  PROVE  Neutral
<1>1. Foot(NeutralFields, NeutralParts, NeutralParts)
  BY FootMore
<1>2. \A j \in Slots : Switches(requests'[j]) => requests'[j].part \notin c /\ requests'[j] # NoRequest
  <2> SUFFICES ASSUME NEW j \in Slots, Switches(requests'[j])
               PROVE  requests'[j].part \notin c /\ requests'[j] # NoRequest
    OBVIOUS
  <2>1. Sorted(requests'[j])
    BY DEF Core, Fitting, Fits
  <2>2. requests'[j].part \notin NeutralParts \ {"toggle"}
    BY <2>1 DEF Sorted, Switches, NeutralParts, LifeCycle
  <2>3. requests'[j] # NoRequest
    BY DEF Switches, NoRequest
  <2>4. QED
    BY <2>2, <2>3
<1>3. MovesOwn(requests', requests, b, c)
  BY FootOwn
<1>4. QED
  BY <1>1, <1>2, <1>3 DEF Neutral, MovesOwn

LEMMA TeacherSplit ==
  ASSUME Core, Core', elsewhere = 0, elsewhere' = 0, Teacher \/ SearchDebounced \/ BankSearchDebounced
  PROVE  /\ UNCHANGED <<storeOnly, lost>>
         /\ \/ TurnedSomewhere(requests) \/ Neutral \/ FormTouched
            \/ Stepped(page, requests) /\ page.quiz # 0
            \/ (\E part \in {"save", "draft"} : PersistsAs(part))
            \/ Submitted \/ PickerTouched \/ PickerBrowsed \/ HandleSave \/ PanelTouched
<1>0. UNCHANGED <<storeOnly, lost>>
  BY TeacherFits, TeacherLosesNothing
<1>1. CASE OpenListed \/ Done
  BY <1>0, <1>1, OpenSteps DEF OpensOne
<1>2. CASE \/ \E status \in {"all", "draft", "published", "scheduled", "archived"} : UpdateFilter(status)
           \/ HandleSearchChange \/ ClearFilters \/ TurnListPage \/ SearchDebounced
  BY <1>2, ListQueried, <1>0, NeutralFoot DEF NeutralFields, NeutralParts
<1>3. CASE \E row \in page.list.rows : \E action \in Actions(row.status) : HandleAction(row, action)
  BY <1>3, HandleActionSteps, <1>0, NeutralFoot DEF NeutralFields, NeutralParts
<1>4. CASE FillIn
  BY <1>0, <1>4, FillInSteps DEF FormTouched
<1>5. CASE (\E step \in 1 .. 5 : GoToStep(step)) \/ Advance
  BY <1>5, StepSteps, FootMore, <1>0 DEF PageParts, Stepped
<1>6. CASE HandleContinue \/ (HandleSaveDraft /\ HasForm /\ page.form.title)
  BY <1>0, <1>6, ContinueSteps
<1>7. CASE Leaves
  BY <1>0, <1>7, LeaveSteps
<1>8. CASE HandlePublish \/ (\E action \in Actions(page.status) : CallApi(action)) \/ Toggle
  <2>1. PICK part \in {"publish", "actions", "toggle"} : Commanded(part)
    BY <1>8, CommandSteps
  <2>2. Foot({"busy"}, {}, {part})
    BY <2>1 DEF Commanded
  <2>3. Foot(NeutralFields, NeutralParts, NeutralParts)
    BY <2>2, FootMore DEF NeutralFields, NeutralParts
  <2>4. page.kind = "wizard" => \A j \in Slots : Switches(requests'[j]) => requests'[j] = requests[j]
    <3>1. PICK r : requests' = Put(requests, r) /\ FreeSlots(requests) # {} /\ (Switches(r) => page.kind = "results")
      BY <2>1 DEF Commanded, Switches
    <3>2. QED
      BY <3>1, PutThere
  <2>5. QED
    BY <1>0, <2>3, <2>4 DEF Neutral
<1>9. CASE HandleSubmit
  BY <1>0, <1>9, SubmitSteps DEF Submitted
<1>10. CASE \/ \E q \in Questions : AddToPool(q) \/ RemoveFromPool(q)
            \/ ClearPool \/ (\E n \in Questions : Move(n)) \/ AddSelectedToPool
            \/ ToggleSelectAllOnPage \/ \E q \in Questions : ToggleBankSelected(q)
  BY <1>10, PickedSteps, FootMore, <1>0 DEF PickerTouched, PickerBrowsed
<1>11. CASE HandleBankSearchChange \/ BankSearchDebounced \/ GoToPage
  BY <1>0, <1>11, PickerBrowses DEF PickerBrowsed
<1>12. CASE HandleSave
  BY <1>0, <1>12
<1>13. CASE (\E t \in Targets : AssignTo(t)) \/ (\E row \in page.panel.rows : RemoveAssignment(row))
  BY <1>0, <1>13, PanelAskSteps DEF PanelTouched
<1>14. QED
  BY <1>1, <1>2, <1>3, <1>4, <1>5, <1>6, <1>7, <1>8, <1>9, <1>10, <1>11, <1>12, <1>13 DEF Teacher, Leaves

LEMMA AnsweredSplit ==
  ASSUME Core, Core', elsewhere = 0, elsewhere' = 0, NEW i \in Slots, Answered(i), Rest
  PROVE  /\ UNCHANGED <<storeOnly, lost>>
         /\ \/ TurnedSomewhere(Without(i)) /\ page'.kind # "wizard" /\ requests[i].part \in {"draft", "actions"}
            \/ Neutral
            \/ Foot({"saving"}, {"save"}, {"refresh"}) /\ page.kind = "edit"
            \/ SaveArrives(i) /\ page.kind = "wizard" /\ \E p : SavedPage(p, i)
            \/ Foot({"picker"}, {"pool"}, {"bank"}) /\ ~page'.picker.saving /\ ~page'.picker.saved
            \/ PickerBrowsed \/ PoolSaved(i) \/ PoolCounted(i) \/ PublishLoaded(i)
            \/ Published(i) \/ Assigned(i) \/ AssignedRead(i) \/ Unassigned(i)
<1>0. UNCHANGED <<storeOnly, lost>>
  BY DEF Rest
<1>1. CASE SaveArrives(i)
  BY <1>0, <1>1, SaveArrivesSteps
<1>2. CASE DraftEnds(i)
  BY <1>0, <1>2, DraftEndsSteps
<1>3. CASE ActionDone(i)
  <2>1. CASE Foot({"busy"}, {"actions"}, {"refresh"})
    BY <1>0, <2>1, NeutralFoot DEF NeutralFields, NeutralParts
  <2>2. QED
    BY <1>0, <1>3, <2>1, ActionDoneSteps
<1>4. CASE ListArrives(i)
  BY <1>4, ListArrivesSteps, <1>0, NeutralFoot DEF NeutralFields, NeutralParts
<1>5. CASE ActionOfListDone(i)
  BY <1>5, ActionOfListDoneSteps, <1>0, NeutralFoot DEF NeutralFields, NeutralParts
<1>6. CASE Refreshed(i) \/ Toggled(i)
  BY <1>6, PlainTaken, <1>0, NeutralFoot DEF NeutralFields, NeutralParts
<1>7. CASE PoolLoaded(i)
  BY <1>0, <1>7, PoolLoadedSteps
<1>8. CASE BankArrives(i)
  BY <1>8, BankArrivesSteps, FootMore, <1>0 DEF PickerBrowsed
<1>9. QED
  BY <1>0, <1>1, <1>2, <1>3, <1>4, <1>5, <1>6, <1>7, <1>8 DEF Answered

LEMMA RefusedSplit ==
  ASSUME Core, Core', elsewhere = 0, elsewhere' = 0, NEW i \in Slots, Refused(i), Rest
  PROVE  /\ UNCHANGED <<storeOnly, lost>> /\ requests[i].heard /\ requests[i].stage = "refused"
         /\ \/ TurnedSomewhere(Without(i)) /\ page'.kind = "missing" /\ requests[i].part = "refresh"
            \/ /\ requests[i].part = "publishLoad" /\ Foot(LoadFields, {"publishLoad"}, {}) /\ requests' = Without(i)
               /\ LoadTaken(i, {})
            \/ /\ requests[i].part = "picker" /\ Foot({"picker"}, {"picker"}, {}) /\ requests' = Without(i)
               /\ ~page'.picker.saving /\ page'.picker.pool = page.picker.pool
               /\ page'.picker.touched = page.picker.touched /\ (page'.picker.saved => page.picker.saved)
            \/ Neutral \/ SaveUndone(i) \/ PanelUndone(i)
            \/ Foot({}, {"pool", "review", "bank"}, {}) /\ page' = page
<1> DEFINE r == requests[i]
<1>0. UNCHANGED <<storeOnly, lost>> /\ r.heard /\ r.stage = "refused" /\ r.part # "draft"
  BY RefusedSteps DEF Rest
<1>1. CASE Undone(r, page') /\ Foot(UndoneFields, {r.part}, {}) /\ requests' = Without(i)
  <2>0. DOMAIN page' = PageFields /\ Moves(requests', requests, {r.part}, {})
    BY <1>1 DEF Foot, Changes
  <2>1. CASE r.part \in {"list", "reload"} /\ Changes(page', page, {"list"})
    BY <2>0, <2>1, <1>0, NeutralFoot DEF Foot, NeutralParts, NeutralFields
  <2>2. CASE r.part = "save" /\ Changes(page', page, {"saving", "error", "dirty", "asked"}) /\ page'.dirty
    BY <1>0, <1>1, <2>0, <2>2 DEF SaveUndone, Foot
  <2>3. CASE r.part \in {"publish", "toggle", "actions"} /\ Changes(page', page, {"busy"})
    BY <2>0, <2>3, <1>0, NeutralFoot DEF Foot, NeutralParts, NeutralFields
  <2>4. CASE /\ r.part = "panel" /\ Changes(page', page, {"panel", "crossed"}) /\ page'.panel.rows = page.panel.rows
             /\ (page.crossed => page'.crossed) /\ (r.kind = "readAssigned" => page'.crossed)
    BY <1>0, <1>1, <2>0, <2>4 DEF PanelUndone, Foot
  <2>5. CASE r.part \in {"pool", "review", "bank"} /\ page' = page
    <3>1. Foot({}, {r.part}, {})
      BY <2>0, <2>5 DEF Foot, Changes
    <3>2. Foot({}, {"pool", "review", "bank"}, {})
      BY <2>5, <3>1, FootMore
    <3>3. QED
      BY <1>0, <2>5, <3>2
  <2>6. CASE r.part \in {"actions", "refresh", "listAction"} /\ page' = page
    BY <2>0, <2>6, <1>0, NeutralFoot DEF Foot, Changes, NeutralParts
  <2>7. r.part \in PageParts
    BY <1>0 DEF Core, Fitting, Fits, Sorted
  <2>8. CASE r.part = "publishLoad" /\ page' = page
    BY <2>8, <1>0, PublishLoadSteps DEF Refused
  <2>9. QED
    BY <1>0, <1>1, <2>1, <2>2, <2>3, <2>4, <2>5, <2>6, <2>7, <2>8 DEF Undone, PageParts, StepParts
<1>2. QED
  BY <1>0, <1>1, RefusedSteps

-----------------------------------------------------------------------------
\* The assignments that are shown.

LEMMA GivesByPanel ==
  ASSUME Core, elsewhere = 0, NEW i \in Slots, requests[i].kind \in {"assign", "unassign"}
  PROVE  requests[i].part = "panel"
  BY DEF Core, Fitting, Fits, NoRequest, Sorted, Own, PageParts, StepParts, LifeCycle

LEMMA PanelCalm ==
  ASSUME PanelInv, PanelCalmly, UNCHANGED <<assigned, lost, elsewhere>>,
         \A j \in Slots : requests'[j] = requests[j] \/ (Aside(requests[j]) /\ Aside(requests'[j]))
  PROVE  PanelInv'
<1> SUFFICES ASSUME elsewhere = 0, ~lost, ~page.crossed, Shows(page), PanelRight(page, requests, assigned[page.quiz])
             PROVE  PanelRight(page', requests', assigned[page.quiz])
  BY DEF PanelInv, PanelCalmly, Shows
<1> DEFINE A == assigned[page.quiz]
<1>1. GivenHere(page', requests')
  BY DEF PanelRight, GivenHere, Aside, Gives, PanelCalmly
<1>2. OnePanel(requests')
  BY DEF PanelRight, OnePanel, Aside
<1>3. \A j \in Slots : Is(requests[j], "panel") => Is(requests'[j], "panel")
  BY DEF Aside
<1>4. PanelShown(page', requests', A)
  BY <1>3 DEF PanelRight, PanelShown, PanelCalmly
<1>5. \A j \in Slots : PanelRead(page', requests'[j], A)
  BY DEF PanelRight, PanelRead, Aside, PanelCalmly
<1>6. QED
  BY <1>1, <1>2, <1>4, <1>5 DEF PanelRight

LEMMA PanelFoot ==
  ASSUME Core, Core', PanelInv, elsewhere = 0, elsewhere' = 0, UNCHANGED <<storeOnly, lost>>,
         NEW a, NEW b, NEW c, Foot(a, b, c), a \intersect PanelFields = {},
         (b \union c) \intersect {"panel", "publishLoad"} = {}
  PROVE  PanelInv'
<1>1. MovesOwn(requests', requests, b, c)
  BY FootOwn
<1>2. \A r : Sorted(r) /\ r.part \notin {"none", "panel", "publishLoad"} => Aside(r)
  BY DEF Sorted, Aside, Is, PageParts, StepParts, LifeCycle
<1>3. Aside(NoRequest)
  BY DEF Aside, NoRequest, Is
<1>4. \A j \in Slots : /\ Sorted(requests[j]) /\ (requests[j].part = "none" => requests[j] = NoRequest)
                       /\ Sorted(requests'[j]) /\ (requests'[j].part = "none" => requests'[j] = NoRequest)
  BY DEF Core, Fitting, Fits, Own
<1>5. \A j \in Slots : requests'[j] = requests[j] \/ (Aside(requests[j]) /\ Aside(requests'[j]))
  BY <1>1, <1>2, <1>3, <1>4 DEF MovesOwn
<1>6. PanelCalmly
  BY DEF Foot, Changes, PanelFields, PanelCalmly, PageFields
<1>7. QED
  BY <1>5, <1>6, PanelCalm DEF storeOnly

\* What a page, or a step, that is entered forgets is of the same kind.
LEMMA ForgetSame ==
  ASSUME NEW p, NEW rs, Fitting(p, rs), NEW gone, NEW j \in Slots
  PROVE  LET s == Forget(rs, gone)[j] IN
         s = NoRequest \/ (s.kind = rs[j].kind /\ s.quiz = rs[j].quiz /\ s.part = rs[j].part)
<1> DEFINE s == Forget(rs, gone)[j]
           r == rs[j]
<1>1. s = r \/ Forgotten(r, s)
  BY ForgetLeaves DEF Left
<1>2. DOMAIN r = Fields
  BY DEF Fitting, Fits
<1> HIDE DEF s, r
<1>3. QED
  BY <1>1, <1>2 DEF Forgotten, Fields, NoRequest, s, r

LEMMA NoCrossing ==
  ASSUME NEW id, ~Crossing(id), NEW r, NEW j \in Slots, r.kind = requests[j].kind, r.quiz = requests[j].quiz
  PROVE  ~Gives(r, id) /\ (r.kind = "pool" => r.quiz # id)
BY DEF Crossing, Gives

LEMMA PanelTurned ==
  ASSUME NEW p, NEW rs, Fitting(p, rs), TurnedSomewhere(rs), UNCHANGED storeOnly,
         \A j \in Slots : rs[j] = requests[j] \/ rs[j] = NoRequest
  PROVE  PanelInv'
<1> SUFFICES ASSUME ~page'.crossed, Shows(page')
             PROVE  PanelRight(page', requests', assigned[page'.quiz])
  BY DEF PanelInv, storeOnly
<1>1. PICK kind \in {"list", "wizard", "edit", "preview", "results"} :
        \E id \in Quizzes \union {0} : Untouched(page') /\ TurnedTo(page', kind, id) /\ Turns(rs)
  BY DEF TurnedSomewhere
<1>2. PICK id \in Quizzes \union {0} : Untouched(page') /\ TurnedTo(page', kind, id) /\ Turns(rs)
  BY <1>1
<1>3. page' # NewPage("missing", 0)
  BY NewPageIs DEF Shows
<1>4. kind = "preview" /\ page'.quiz = id /\ page'.panel.rows = assigned[id] /\ ~Crossing(id)
  <2>1. page'.kind = kind /\ page'.quiz = id /\ page'.step = 1
    BY <1>2, <1>3 DEF TurnedTo, Untouched
  <2>2. kind = "preview"
    BY <2>1 DEF Shows
  <2>3. page'.panel.rows = assigned[id] /\ page'.crossed = Crossing(id)
    BY <1>2, <1>3, <2>2 DEF TurnedTo
  <2>4. QED
    BY <2>1, <2>2, <2>3
<1>5. \A j \in Slots : FirstAsk(requests'[j]) \/ requests'[j] = Forget(rs, PageParts)[j]
  BY <1>2 DEF Turns
<1>6. \A j \in Slots : ~Is(requests'[j], "panel") /\ ~Is(requests'[j], "publishLoad")
  <2> TAKE j \in Slots
  <2>1. CASE FirstAsk(requests'[j])
    BY <2>1, FirstAskIs DEF Is
  <2>2. CASE requests'[j] = Forget(rs, PageParts)[j]
    BY <2>2, AllForgotten DEF Is, TurnsPage
  <2>3. QED
    BY <1>5, <2>1, <2>2
<1>7. \A j \in Slots : ~Gives(requests'[j], id)
  <2> TAKE j \in Slots
  <2>0. ~Gives(NoRequest, id)
    BY DEF Gives, NoRequest
  <2>1. CASE FirstAsk(requests'[j])
    BY <2>1, FirstAskIs DEF Gives
  <2>2. CASE requests'[j] = Forget(rs, PageParts)[j]
    <3>1. requests'[j] = NoRequest \/ (requests'[j].kind = rs[j].kind /\ requests'[j].quiz = rs[j].quiz)
      BY <2>2, ForgetSame
    <3>2. CASE rs[j] = NoRequest
      BY <2>0, <3>1, <3>2 DEF Gives
    <3>3. CASE rs[j] = requests[j]
      BY <1>4, <2>0, <3>1, <3>3, NoCrossing
    <3>4. QED
      BY <3>2, <3>3
  <2>3. QED
    BY <1>5, <2>1, <2>2
<1>8. page'.load.left = {}
  BY <1>2 DEF Untouched, NoLoad
<1>9. QED
  BY <1>4, <1>6, <1>7, <1>8 DEF PanelRight, GivenHere, OnePanel, PanelShown, PanelRead

LEMMA PanelStepped ==
  ASSUME Core', NEW p, NEW rs, Fitting(p, rs), p.kind = "wizard", Entered(p, rs), UNCHANGED storeOnly,
         \A j \in Slots : rs[j] = requests[j] \/ rs[j] = NoRequest
  PROVE  PanelInv'
<1> SUFFICES ASSUME ~page'.crossed, Shows(page')
             PROVE  PanelRight(page', requests', assigned[page'.quiz])
  BY DEF PanelInv, storeOnly
<1> DEFINE left == Forget(rs, StepParts)
<1>1. PICK step \in 1 .. 5 :
        /\ AtItsStep(page', p, step) /\ requests' = ReadsOfStep(left, p.quiz, step) /\ FreeSlots(left) # {}
        /\ step = 5 => FreeSlots(Put(left, Ask("readQuiz", p.quiz, "publishLoad"))) # {}
  BY DEF Entered
<1>2. step = 5 /\ page'.quiz = p.quiz /\ ~Crossing(p.quiz)
  BY <1>1 DEF AtItsStep, Shows
<1>3. page'.load.left = {"readQuiz", "readAssigned"}
  BY <1>1, <1>2 DEF AtItsStep, NoLoad
<1>4. PageRight(page')
  BY DEF Core, Fitting, PageRight, StepRight, ListedRight, Made, storeOnly
<1>5. \A j \in Slots : left[j].heard => left[j].part \notin StepParts
  BY <1>1, <1>4, StepForgets
<1>6. \A j \in Slots : left[j] = NoRequest \/ (left[j].kind = rs[j].kind /\ left[j].quiz = rs[j].quiz)
  BY ForgetSame
<1>7. left = [j \in Slots |-> left[j]]
  BY DEF Forget
<1> HIDE DEF left
<1>8. ReadOrNot(requests', left, p.quiz)
  BY <1>1, <1>7, ReadsOfStepAre
<1>9. \A j \in Slots : /\ ~Is(requests'[j], "panel")
                       /\ Is(requests'[j], "publishLoad") => requests'[j].stage = "sent"
  BY <1>5, <1>8 DEF ReadOrNot, StepRead, Sent, Is, StepParts
<1>10. \A j \in Slots : ~Gives(requests'[j], p.quiz)
  <2> TAKE j \in Slots
  <2>0. ~Gives(NoRequest, p.quiz)
    BY DEF Gives, NoRequest
  <2>1. CASE StepRead(requests'[j], p.quiz)
    BY <2>1 DEF StepRead, Gives
  <2>2. CASE requests'[j] = left[j]
    <3>1. CASE rs[j] = NoRequest
      BY <1>6, <2>0, <2>2, <3>1 DEF Gives
    <3>2. CASE rs[j] = requests[j]
      BY <1>2, <1>6, <2>0, <2>2, <3>2, NoCrossing
    <3>3. QED
      BY <3>1, <3>2
  <2>3. QED
    BY <1>8, <2>1, <2>2 DEF ReadOrNot
<1>11. {"readQuiz", "readAssigned"} # {} /\ {"readQuiz", "readAssigned"} # {"readQuiz"}
  OBVIOUS
<1>12. QED
  BY <1>2, <1>3, <1>9, <1>10, <1>11 DEF PanelRight, GivenHere, OnePanel, PanelShown, PanelRead

\* A request of the panel, or of its first load, is about the page's quiz.
LEMMA PanelOfPage ==
  ASSUME Core, NEW i \in Slots
  PROVE  /\ Is(requests[i], "panel") => page.load.left = {} /\ requests[i].quiz = page.quiz /\ page.panel.open
         /\ Is(requests[i], "publishLoad") => requests[i].kind \in page.load.left /\ requests[i].quiz = page.quiz
  BY DEF Core, Fitting, Fits, PageRight, PartsRight, OfPage, Is

LEMMA PanelAskedRight ==
  ASSUME Core, PanelInv, UNCHANGED <<storeOnly, lost, elsewhere>>, PanelTouched
  PROVE  PanelInv'
<1> SUFFICES ASSUME elsewhere = 0, ~lost, ~page'.crossed, Shows(page')
             PROVE  PanelRight(page', requests', assigned[page.quiz])
  BY DEF PanelInv, PanelTouched, Foot, Changes, PageFields, storeOnly
<1>1. PICK r : PanelAsked(r)
  BY DEF PanelTouched
<1>2. PICK i \in Slots : requests'[i] = r /\ \A j \in Slots : j # i => requests'[j] = requests[j]
  BY <1>1, PutThere DEF PanelAsked
<1> DEFINE A == assigned[page.quiz]
<1>3. ~page.crossed /\ \A j \in Slots : ~Is(requests[j], "panel")
  BY <1>1 DEF PanelAsked, Waiting, Is
<1>4. page'.quiz = page.quiz /\ page'.kind = page.kind /\ page'.step = page.step /\ page'.load = page.load
  BY DEF PanelTouched, Foot, Changes, PageFields
<1>5. PanelRight(page, requests, A)
  BY <1>3, <1>4 DEF PanelInv, Shows
<1>6. page.panel.open => page.load.left = {}
  BY DEF Core, Fitting, PageRight, PartsRight
<1>7. page.load.left = {} /\ page'.panel.rows = A
  BY <1>1, <1>3, <1>5, <1>6 DEF PanelAsked, PanelRight, PanelShown
<1>8. Is(r, "panel") /\ r.stage = "sent" /\ r.kind # "readAssigned"
  BY <1>1 DEF PanelAsked, Sent, Is
<1>9. GivenHere(page', requests')
  BY <1>2, <1>4, <1>5, <1>8 DEF PanelRight, GivenHere
<1>10. OnePanel(requests')
  BY <1>2, <1>3 DEF OnePanel
<1>11. PanelShown(page', requests', A)
  BY <1>4, <1>7 DEF PanelShown
<1>12. \A j \in Slots : PanelRead(page', requests'[j], A)
  <2> TAKE j \in Slots
  <2>1. CASE j = i
    BY <1>2, <1>7, <1>8, <2>1 DEF PanelRead, Is
  <2>2. CASE j # i
    BY <1>2, <1>3, <1>5, <2>2 DEF PanelRight, PanelRead
  <2>3. QED
    BY <2>1, <2>2
<1>13. QED
  BY <1>9, <1>10, <1>11, <1>12 DEF PanelRight

\* An answer is taken, and its request is gone.
LEMMA WithoutIs ==
  ASSUME Core, NEW i \in Slots
  PROVE  Without(i)[i] = NoRequest /\ \A j \in Slots : j # i => Without(i)[j] = requests[j]
BY FieldsOf DEF Without

LEMMA NotNothing == ~Is(NoRequest, "panel") /\ ~Is(NoRequest, "publishLoad") /\ \A id : ~Gives(NoRequest, id)
BY DEF NoRequest, Is, Gives

LEMMA PanelLoads ==
  ASSUME Core, PanelInv, UNCHANGED <<storeOnly, lost, elsewhere>>, NEW i \in Slots, Is(requests[i], "publishLoad"),
         NEW rows, LoadTaken(i, rows), Foot(LoadFields, {"publishLoad"}, {}), requests' = Without(i),
         requests[i].stage = "refused" \/ (requests[i].stage = "answered" /\ rows = requests[i].rows)
  PROVE  PanelInv'
<1> SUFFICES ASSUME elsewhere = 0, ~lost, ~page'.crossed, Shows(page')
             PROVE  PanelRight(page', requests', assigned[page.quiz])
  BY DEF PanelInv, Foot, Changes, PageFields, LoadFields, storeOnly
<1> DEFINE A == assigned[page.quiz]
           left == page.load.left
           kind == requests[i].kind
<1>1. ~page.crossed /\ page'.quiz = page.quiz /\ page'.kind = page.kind /\ page'.step = page.step
  BY DEF LoadTaken, Foot, Changes, PageFields, LoadFields
<1>2. PanelRight(page, requests, A)
  BY <1>1 DEF PanelInv, Shows
<1>3. kind \in left /\ left \subseteq {"readQuiz", "readAssigned"}
  BY PanelOfPage DEF Core, Fitting, PageRight, PartsRight
<1>4. \A j \in Slots : ~Is(requests[j], "panel")
  BY <1>3, PanelOfPage
<1>5. kind = "readAssigned" => rows = A
  BY <1>2 DEF PanelRight, PanelRead, LoadTaken
<1>6. page'.load.left = left \ {kind} /\ (page'.load.left = {} => page'.panel.rows = page'.load.rows)
      /\ page'.load.rows = (IF kind = "readAssigned" THEN rows ELSE page.load.rows)
  BY DEF LoadTaken
<1>7. \A j \in Slots : requests'[j] = NoRequest \/ requests'[j] = requests[j]
  BY WithoutIs
<1>8. GivenHere(page', requests')
  BY <1>1, <1>2, <1>4, <1>7, NotNothing DEF PanelRight, GivenHere
<1>9. \A j \in Slots : ~Is(requests'[j], "panel")
  BY <1>4, <1>7, NotNothing
<1>10. PanelShown(page', requests', A)
  <2>1. left = {"readQuiz"} => page.load.rows = A
    BY <1>2 DEF PanelRight, PanelShown
  <2>2. left \ {kind} = {"readQuiz"} => kind = "readAssigned"
    BY <1>3
  <2>3. left \ {kind} = {} /\ kind # "readAssigned" => left = {"readQuiz"}
    BY <1>3
  <2> HIDE DEF A, left, kind
  <2>4. page'.load.left = {"readQuiz"} => page'.load.rows = A
    BY <1>5, <1>6, <2>2
  <2>5. page'.load.left = {} => page'.load.rows = A
    BY <1>5, <1>6, <2>1, <2>3
  <2>6. QED
    BY <1>6, <2>4, <2>5 DEF PanelShown
<1>11. \A j \in Slots : PanelRead(page', requests'[j], A)
  BY <1>2, <1>7, <1>9, NotNothing DEF PanelRight, PanelRead
<1>12. QED
  BY <1>8, <1>9, <1>10, <1>11 DEF PanelRight, OnePanel

\* The panel's own answers.
LEMMA PanelTakes ==
  ASSUME Core, PanelInv, UNCHANGED <<storeOnly, lost, elsewhere>>, NEW i \in Slots, Is(requests[i], "panel"),
         NEW a, NEW b, NEW c, Foot(a, b, c), a \subseteq {"panel", "crossed"}, requests' = Without(i), page.crossed => page'.crossed,
         \/ page'.crossed
         \/ requests[i].stage = "answered" /\ requests[i].kind = "readAssigned" /\ page'.panel.rows = requests[i].rows
         \/ /\ requests[i].stage = "answered" /\ requests[i].kind = "unassign"
            /\ page'.panel.rows = page.panel.rows \ requests[i].rows
         \/ requests[i].stage = "refused" /\ requests[i].kind # "readAssigned" /\ page'.panel.rows = page.panel.rows
  PROVE  PanelInv'
<1>0. page'.quiz = page.quiz /\ page'.kind = page.kind /\ page'.step = page.step /\ page'.load = page.load
  BY DEF Foot, Changes, PageFields
<1> SUFFICES ASSUME elsewhere = 0, ~lost, ~page'.crossed, Shows(page')
             PROVE  PanelRight(page', requests', assigned[page.quiz])
  BY <1>0 DEF PanelInv, storeOnly
<1> DEFINE A == assigned[page.quiz]
<1>1. PanelRight(page, requests, A)
  BY <1>0 DEF PanelInv, Shows
<1>2. page.load.left = {}
  BY PanelOfPage
<1>3. \A j \in Slots : requests'[j] = NoRequest \/ (requests'[j] = requests[j] /\ ~Is(requests[j], "panel"))
  BY <1>1, WithoutIs DEF PanelRight, OnePanel
<1>4. \A j \in Slots : ~Is(requests'[j], "panel")
  BY <1>3, NotNothing
<1>5. \A j \in Slots : ~Is(requests'[j], "publishLoad")
  BY <1>2, <1>3, PanelOfPage, NotNothing
<1>6. page'.panel.rows = A
  BY <1>1 DEF PanelRight, PanelRead
<1>7. GivenHere(page', requests')
  BY <1>0, <1>1, <1>3, NotNothing DEF PanelRight, GivenHere
<1>8. {} # {"readQuiz"}
  OBVIOUS
<1>9. QED
  BY <1>0, <1>2, <1>4, <1>5, <1>6, <1>7, <1>8 DEF PanelRight, OnePanel, PanelShown, PanelRead

\* An assignment that was made is read back.
LEMMA PanelReads ==
  ASSUME Core, PanelInv, UNCHANGED <<storeOnly, lost, elsewhere>>, NEW i \in Slots, Is(requests[i], "panel"),
         page' = page, requests' = Put(Without(i), Ask("readAssigned", page.quiz, "panel")), FreeSlots(Without(i)) # {}
  PROVE  PanelInv'
<1> SUFFICES ASSUME elsewhere = 0, ~lost, ~page.crossed, Shows(page), PanelRight(page, requests, assigned[page.quiz])
             PROVE  PanelRight(page', requests', assigned[page.quiz])
  BY DEF PanelInv, storeOnly
<1> DEFINE A == assigned[page.quiz]
           r == Ask("readAssigned", page.quiz, "panel")
<1>1. Is(r, "panel") /\ r.kind = "readAssigned" /\ r.stage = "sent"
  BY AskIs DEF Is
<1> HIDE DEF r
<1>2. \A j \in Slots : Without(i)[j] = NoRequest \/ (Without(i)[j] = requests[j] /\ ~Is(requests[j], "panel"))
  BY WithoutIs DEF PanelRight, OnePanel
<1>3. Without(i) = [j \in Slots |-> Without(i)[j]]
  BY FieldsOf DEF Without
<1>4. PICK x \in Slots : requests'[x] = r /\ \A j \in Slots : j # x => requests'[j] = Without(i)[j]
  BY <1>3, PutFills DEF r
<1>5. page.load.left = {}
  BY PanelOfPage
<1>6. \A j \in Slots : j # x => ~Is(requests'[j], "panel") /\ ~Is(requests'[j], "publishLoad")
  BY <1>2, <1>4, <1>5, PanelOfPage, NotNothing
<1>7. GivenHere(page', requests')
  BY <1>1, <1>2, <1>4, NotNothing DEF Gives, PanelRight, GivenHere
<1>8. \A j \in Slots : PanelRead(page', requests'[j], A)
  <2> TAKE j \in Slots
  <2>1. CASE j = x
    BY <1>1, <1>4, <2>1 DEF PanelRead, Is
  <2>2. CASE j # x
    BY <1>6, <2>2 DEF PanelRead
  <2>3. QED
    BY <2>1, <2>2
<1>9. PanelShown(page', requests', A)
  BY <1>1, <1>4, <1>5 DEF PanelShown
<1>10. OnePanel(requests')
  BY <1>6 DEF OnePanel
<1>11. QED
  BY <1>7, <1>8, <1>9, <1>10 DEF PanelRight

-----------------------------------------------------------------------------
\* The steps of a handler, by what they do to the tables.

LEMMA BecomesIt ==
  ASSUME Core, NEW i \in Slots, NEW x, Becomes(i, x)
  PROVE  requests'[i] = x /\ \A j \in Slots : j # i => requests'[j] = requests[j]
BY FieldsOf DEF Becomes

LEMMA RefusesIt ==
  ASSUME Core, NEW i \in Slots, Refuse(i)
  PROVE  requests'[i].stage # "answered"
<1> DEFINE x == IF requests[i].heard THEN [requests[i] EXCEPT !.stage = "refused"] ELSE NoRequest
<1>1. requests'[i] = x
  BY BecomesIt DEF Refuse
<1>2. "stage" \in DOMAIN requests[i]
  BY FieldsOf DEF Fields, NoRequest
<1>3. QED
  BY <1>1, <1>2 DEF NoRequest

LEMMA AnswersIt ==
  ASSUME Core, NEW i \in Slots, NEW x, DOMAIN x = Fields, Answer(i, x)
  PROVE  requests'[i] = NoRequest \/ OnlyStage(requests'[i], x, "answered")
  BY BecomesIt, StageIs DEF Answer

LEMMA GoingOnOnly ==
  ASSUME Core, NEW i \in Slots,
         \/ RequireOwnedQuiz(i) \/ CountPool(i) \/ VerifyQuestions(i) \/ DeletePool(i) \/ WakeDelete(i)
         \/ RequirePublishedQuiz(i) \/ FindExisting(i) \/ CountQuizzes(i) \/ ReadPoolToCopy(i) \/ Fail(i)
  PROVE  GoesOnly(i)
<1> DEFINE r == requests[i]
<1>1. UNCHANGED <<quiz, pool, assigned>>
  BY DEF RequireOwnedQuiz, CountPool, VerifyQuestions, DeletePool, WakeDelete, RequirePublishedQuiz, FindExisting,
         CountQuizzes, ReadPoolToCopy, Fail, Reading
<1>2. DOMAIN r = Fields
  BY FieldsOf
<1>3. CASE Refuse(i)
  BY <1>1, <1>3, RefusesIt DEF GoesOnly
<1>4. CASE RequireOwnedQuiz(i) /\ ~Refuse(i)
  <2>1. PICK stage \in {"checked", "ready"} : \E settings : Becomes(i, [r EXCEPT !.stage = stage, !.settings = settings])
    BY <1>4, Zenon DEF RequireOwnedQuiz
  <2>2. PICK settings : Becomes(i, [r EXCEPT !.stage = stage, !.settings = settings])
    BY <2>1
  <2>3. requests'[i] = [r EXCEPT !.stage = stage, !.settings = settings]
    BY <2>2, BecomesIt
  <2>4. QED
    BY <1>1, <1>2, <2>1, <2>3 DEF GoesOnly, Fields, NoRequest
<1>5. CASE (CountPool(i) \/ VerifyQuestions(i) \/ RequirePublishedQuiz(i) \/ FindExisting(i)) /\ ~Refuse(i)
  <2>1. PICK stage \in {"counted", "ready", "published"} : Becomes(i, [r EXCEPT !.stage = stage])
    BY <1>5, Zenon DEF CountPool, VerifyQuestions, RequirePublishedQuiz, FindExisting
  <2>2. requests'[i] = [r EXCEPT !.stage = stage]
    BY <2>1, BecomesIt
  <2>3. QED
    BY <1>1, <1>2, <2>1, <2>2 DEF GoesOnly, Fields, NoRequest
<1>6. CASE DeletePool(i) \/ WakeDelete(i) \/ ReadPoolToCopy(i)
  <2>1. PICK stage \in {"waiting", "deleted", "ready"} : \E rows : Becomes(i, [r EXCEPT !.stage = stage, !.rows = rows])
    BY <1>6, Zenon DEF DeletePool, WakeDelete, ReadPoolToCopy
  <2>2. PICK rows : Becomes(i, [r EXCEPT !.stage = stage, !.rows = rows])
    BY <2>1
  <2>3. requests'[i] = [r EXCEPT !.stage = stage, !.rows = rows]
    BY <2>2, BecomesIt
  <2>4. QED
    BY <1>1, <1>2, <2>1, <2>3 DEF GoesOnly, Fields, NoRequest
<1>7. CASE CountQuizzes(i)
  <2>1. requests'[i] = [r EXCEPT !.stage = "counted", !.total = Cardinality(Matching(r.query))]
    BY <1>7, BecomesIt DEF CountQuizzes
  <2>2. QED
    BY <1>1, <1>2, <2>1 DEF GoesOnly, Fields, NoRequest
<1>8. QED
  BY <1>3, <1>4, <1>5, <1>6, <1>7 DEF Fail

LEMMA ReadingOnly ==
  ASSUME Core, NEW i \in Slots,
         GetQuizQuestionPool(i) \/ GetQuiz(i) \/ ListAssignmentsForQuiz(i) \/ ListQuizzes(i) \/ ListQuestions(i)
  PROVE  ReadsOnly(i)
<1> DEFINE r == requests[i]
<1>1. UNCHANGED <<quiz, pool, assigned, overlapped>> /\ r.kind \in Reads
  BY DEF GetQuizQuestionPool, GetQuiz, ListAssignmentsForQuiz, ListQuizzes, ListQuestions, Reading, At, Reads
<1>2. DOMAIN r = Fields
  BY FieldsOf
<1>3. NoRequest.stage # "answered"
  BY DEF NoRequest
<1>4. CASE GetQuizQuestionPool(i)
  <2>1. PICK ids \in OrdersOf(pool[r.quiz]) : Answer(i, [r EXCEPT !.ids = ids])
    BY <1>4 DEF GetQuizQuestionPool
  <2>2. DOMAIN [r EXCEPT !.ids = ids] = Fields /\ [r EXCEPT !.ids = ids].ids = ids
    BY <1>2 DEF Fields, NoRequest
  <2>3. requests'[i] = NoRequest \/ requests'[i].ids = ids
    BY <2>1, <2>2, AnswersIt DEF OnlyStage
  <2>4. r.kind = "readPool"
    BY <1>4 DEF GetQuizQuestionPool, At
  <2>5. QED
    BY <1>1, <1>3, <2>1, <2>3, <2>4 DEF ReadsOnly
<1>5. CASE ListAssignmentsForQuiz(i)
  BY <1>5, <1>2, AnswersIt, <1>1, <1>3 DEF ListAssignmentsForQuiz, At, Fields, NoRequest, OnlyStage,
     ReadsOnly
<1>6. CASE GetQuiz(i) \/ ListQuizzes(i) \/ ListQuestions(i)
  BY <1>6, <1>1 DEF GetQuiz, ListQuizzes, ListQuestions, At, ReadsOnly
<1>7. QED
  BY <1>4, <1>5, <1>6

LEMMA ServeSplit ==
  ASSUME IInv, Core, NEW i \in Slots, ServeRequest(i) \/ HandlerFails(i)
  PROVE  GoesOnly(i) \/ ReadsOnly(i) \/ Written(i) \/ Added(i) \/ Replaced(i) \/ Given(i)
  BY GoingOnOnly, ReadingOnly, RowIsWritten, RowIsAdded, PoolIsReplaced, AssignmentsGiven DEF
     ServeRequest, HandlerFails, Serve

\* Nothing else changes assignments.
LEMMA AssignedElse ==
  ASSUME Core, NEW i \in Slots, GoesOnly(i) \/ ReadsOnly(i) \/ Written(i) \/ Added(i) \/ Replaced(i)
  PROVE  /\ UNCHANGED assigned
         /\ requests[i].kind \in {"assign", "unassign"} => requests'[i].stage # "answered"
         /\ requests[i].kind = "readAssigned" /\ requests'[i].stage = "answered" =>
              requests'[i].rows = assigned[requests[i].quiz]
<1>1. CASE GoesOnly(i)
  BY <1>1 DEF GoesOnly
<1>2. CASE ReadsOnly(i)
  BY <1>2 DEF ReadsOnly, Reads
<1>3. CASE Written(i)
  BY <1>3 DEF Written
<1>4. CASE Added(i)
  BY <1>4 DEF Added, AddedAs
<1>5. CASE Replaced(i)
  BY <1>5 DEF Replaced
<1>6. QED
  BY <1>1, <1>2, <1>3, <1>4, <1>5

\* As long as nobody else does anything, each step is one of the tab or of a
\* handler of what the tab has sent.
LEMMA OwnSteps ==
  ASSUME IInv, Core, [Next]_vars, elsewhere' = 0
  PROVE  /\ elsewhere = 0 /\ Core'
         /\ \/ UNCHANGED vars
            \/ Teacher \/ SearchDebounced \/ BankSearchDebounced
            \/ \E i \in Slots : \/ ServeRequest(i) \/ HandlerFails(i) \/ Lose(i)
                                \/ (Answered(i) \/ Refused(i)) /\ Rest
<1>1. elsewhere \in Nat /\ Core'
  BY CoreStep DEF Core, StoreTyped
<1>2. CASE SendElsewhere \/ StartComes \/ \E q \in Questions : ElseDeleteQuestion(q)
  <2>1. elsewhere' = elsewhere + 1
    BY <1>2 DEF SendElsewhere, StartComes, ElseDeleteQuestion
  <2>2. QED
    BY <1>1, <2>1
<1>3. CASE Teacher \/ SearchDebounced \/ BankSearchDebounced
  BY <1>1, <1>3, TeacherFits
<1>4. CASE \E i \in Slots : Later(i)
  BY <1>1, <1>4 DEF Later, Lose, ServeRequest, HandlerFails, Rest
<1>5. CASE UNCHANGED vars
  BY <1>1, <1>5 DEF vars, pageVars
<1>6. QED
  BY <1>2, <1>3, <1>4, <1>5 DEF Next

LEMMA PanelTeacher ==
  ASSUME Core, Core', PanelInv, elsewhere = 0, elsewhere' = 0, Teacher \/ SearchDebounced \/ BankSearchDebounced
  PROVE  PanelInv'
<1>0. UNCHANGED <<storeOnly, lost, elsewhere>> /\ Fitting(page, requests)
  BY TeacherSplit DEF Core
<1>1. CASE TurnedSomewhere(requests)
  BY <1>0, <1>1, PanelTurned
<1>2. CASE Neutral
  BY <1>0, <1>2, PanelFoot DEF Neutral, NeutralFields, NeutralParts, PanelFields
<1>3. CASE FormTouched
  BY <1>0, <1>3, PanelFoot DEF FormTouched, PanelFields
<1>4. CASE Stepped(page, requests)
  BY <1>0, <1>4, PanelStepped DEF Stepped
<1>5. CASE \E part \in {"save", "draft"} : PersistsAs(part)
  BY <1>0, <1>5, PanelFoot DEF PersistsAs, PanelFields
<1>6. CASE Submitted
  BY <1>0, <1>6, PanelFoot DEF Submitted, PanelFields
<1>7. CASE PickerTouched
  BY <1>0, <1>7, PanelFoot DEF PickerTouched, PanelFields
<1>8. CASE PickerBrowsed
  BY <1>0, <1>8, PanelFoot DEF PickerBrowsed, PanelFields
<1>9. CASE HandleSave
  BY <1>0, <1>9, HandleSaveSteps, PanelFoot DEF PanelFields
<1>10. CASE PanelTouched
  BY <1>0, <1>10, PanelAskedRight
<1>11. QED
  BY <1>1, <1>2, <1>3, <1>4, <1>5, <1>6, <1>7, <1>8, <1>9, <1>10, TeacherSplit

\* The answer to the wizard's save turns it to its next step, or finds it there.
LEMMA PanelSaved ==
  ASSUME Core, Core', PanelInv, elsewhere = 0, elsewhere' = 0, UNCHANGED <<storeOnly, lost>>, NEW i \in Slots,
         SaveArrives(i), Rest, page.kind = "wizard", NEW p, SavedPage(p, i)
  PROVE  PanelInv'
<1>1. \A j \in Slots : Without(i)[j] = requests[j] \/ Without(i)[j] = NoRequest
  BY WithoutIs
<1>2. p.kind = "wizard" /\ Fitting(p, Without(i))
  BY DEF SavedPage, Changes, PageFields
<1>3. CASE Entered(p, Without(i))
  BY <1>1, <1>2, <1>3, PanelStepped
<1>4. CASE page' = p /\ requests' = Without(i)
  <2>1. Is(requests[i], "save") /\ requests[i].kind \in {"create", "update"} /\ OfPage(page, requests[i])
    BY SaveArrivesSteps DEF Core, Fitting, Fits, Sorted, Is
  <2>2. p.step = page.step /\ p.load = page.load /\ p.panel = page.panel /\ p.crossed = page.crossed
    BY DEF SavedPage, Changes, PageFields
  <2>3. CASE requests[i].kind = "update"
    BY <1>2, <1>4, <2>2, <2>3, <2>1, WithoutIs, PanelCalm DEF PanelCalmly, SavedPage, Aside, Is,
       NoRequest, storeOnly
  <2>4. CASE requests[i].kind = "create"
    BY <2>1, <2>4, <1>2, <1>4, <2>2 DEF OfPage, Is, Core, Fitting, PageRight, StepRight, PanelInv, Shows
  <2>5. QED
    BY <2>1, <2>3, <2>4
<1>5. QED
  BY <1>3, <1>4 DEF SavedPage

LEMMA PanelAnswered ==
  ASSUME Core, Core', PanelInv, elsewhere = 0, elsewhere' = 0, NEW i \in Slots, Answered(i), Rest
  PROVE  PanelInv'
<1>0. UNCHANGED <<storeOnly, lost, elsewhere>>
  BY DEF Rest
<1>1. CASE TurnedSomewhere(Without(i))
  BY WithoutFits, <1>0, <1>1, WithoutIs, PanelTurned DEF Core, Without
<1>2. CASE Neutral
  BY <1>0, <1>2, PanelFoot DEF Neutral, NeutralFields, NeutralParts, PanelFields
<1>3. CASE Foot({"saving"}, {"save"}, {"refresh"})
  BY <1>0, <1>3, PanelFoot DEF PanelFields
<1>4. CASE SaveArrives(i) /\ page.kind = "wizard" /\ \E p : SavedPage(p, i)
  BY <1>0, <1>4, PanelSaved
<1>5. CASE Foot({"picker"}, {"pool"}, {"bank"})
  BY <1>0, <1>5, PanelFoot DEF PanelFields
<1>6. CASE PickerBrowsed
  BY <1>0, <1>6, PanelFoot DEF PickerBrowsed, PanelFields
<1>7. CASE PoolSaved(i)
  BY <1>0, <1>7, PickerSavedSteps, PanelFoot DEF PanelFields
<1>8. CASE PoolCounted(i)
  BY <1>0, <1>8, PoolCountedSteps, PanelFoot DEF PanelFields
<1>9. CASE PublishLoaded(i)
  BY <1>9, PublishLoadSteps, <1>0, PanelLoads DEF PublishLoaded, Arrived, Is
<1>10. CASE Published(i)
  <2>1. /\ Foot({"panel", "status", "busy"}, {"publish"}, {}) /\ requests' = Without(i)
        /\ Is(requests[i], "publish") /\ page'.panel.rows = page.panel.rows
    BY <1>10, PublishedSteps DEF Is
  <2>2. PanelCalmly
    BY <2>1 DEF PanelCalmly, Foot, Changes, PageFields
  <2>3. Aside(requests[i]) /\ Aside(NoRequest)
    BY <2>1 DEF Core, Fitting, Fits, Sorted, Aside, NoRequest, Is
  <2>4. QED
    BY <1>0, <2>1, <2>2, <2>3, WithoutIs, PanelCalm DEF storeOnly
<1>11. CASE Assigned(i)
  BY <1>0, <1>11, AssignedSteps, PanelReads DEF Is
<1>12. CASE AssignedRead(i) \/ Unassigned(i)
  BY <1>12, AssignedReadSteps, <1>0, PanelTakes DEF Foot, Changes, PageFields, Is
<1>13. QED
  BY <1>1, <1>2, <1>3, <1>4, <1>5, <1>6, <1>7, <1>8, <1>9, <1>10, <1>11, <1>12, AnsweredSplit

LEMMA PanelRefused ==
  ASSUME Core, Core', PanelInv, elsewhere = 0, elsewhere' = 0, NEW i \in Slots, Refused(i), Rest
  PROVE  PanelInv'
<1>0. UNCHANGED <<storeOnly, lost, elsewhere>> /\ requests[i].heard /\ requests[i].stage = "refused"
  BY RefusedSplit DEF Rest
<1>1. CASE TurnedSomewhere(Without(i))
  BY WithoutFits, <1>0, <1>1, WithoutIs, PanelTurned DEF Core, Without
<1>2. CASE /\ requests[i].part = "publishLoad" /\ Foot(LoadFields, {"publishLoad"}, {}) /\ requests' = Without(i)
           /\ LoadTaken(i, {})
  BY <1>0, <1>2, PanelLoads DEF Is
<1>3. CASE Foot({"picker"}, {"picker"}, {})
  BY <1>0, <1>3, PanelFoot DEF PanelFields
<1>4. CASE Neutral
  BY <1>0, <1>4, PanelFoot DEF Neutral, NeutralFields, NeutralParts, PanelFields
<1>5. CASE SaveUndone(i)
  BY <1>0, <1>5, PanelFoot DEF SaveUndone, PanelFields
<1>6. CASE PanelUndone(i)
  BY <1>0, <1>6, PanelTakes DEF PanelUndone, Is
<1>7. CASE Foot({}, {"pool", "review", "bank"}, {})
  BY <1>0, <1>7, PanelFoot DEF PanelFields
<1>8. QED
  BY <1>1, <1>2, <1>3, <1>4, <1>5, <1>6, <1>7, RefusedSplit

\* A handler keeps what it was asked, or nobody hears of it.
LEMMA ServedAlike ==
  ASSUME IInv, IInv', Core, NEW i \in Slots, ServeRequest(i) \/ HandlerFails(i)
  PROVE  /\ UNCHANGED <<page, elsewhere, lost>> /\ requests[i].stage \notin {"free", "answered", "refused"}
         /\ \A j \in Slots : j # i => requests'[j] = requests[j]
         /\ (requests'[i] = NoRequest /\ ~requests[i].heard) \/ Alike(requests[i], requests'[i])
<1>1. UNCHANGED <<page, elsewhere, lost>> /\ \E s : Served(i, s)
  BY ServedSteps
<1>2. PICK s : Served(i, s)
  BY <1>1
<1>3. QED
  BY <1>1, <1>2 DEF Served, Handled

LEMMA PanelServed ==
  ASSUME IInv, IInv', Core, PanelInv, elsewhere = 0, NEW i \in Slots, ServeRequest(i) \/ HandlerFails(i)
  PROVE  PanelInv'
<1>0. UNCHANGED <<page, elsewhere, lost>> /\ requests[i].stage # "answered"
  BY ServedAlike
<1> SUFFICES ASSUME ~lost, ~page.crossed, Shows(page), PanelRight(page, requests, assigned[page.quiz])
             PROVE  PanelRight(page, requests', assigned'[page.quiz])
  BY <1>0 DEF PanelInv
<1> DEFINE A == assigned[page.quiz]
           r == requests[i]
           s == requests'[i]
<1>1. (s = NoRequest /\ ~r.heard) \/ Alike(r, s)
  BY ServedAlike
<1>2. \A j \in Slots : j # i => requests'[j] = requests[j]
  BY ServedAlike
<1>3. \A part : Is(s, part) /\ part # "none" <=> Is(r, part) /\ part # "none"
  BY <1>1 DEF Alike, Is, NoRequest
<1>4. s.kind = r.kind \/ s.kind = "none"
  BY <1>1 DEF Alike, NoRequest
<1>5. s # NoRequest /\ r.kind \notin {"create", "duplicate"} => s.quiz = r.quiz
  BY <1>1 DEF Alike
<1>6. GivenHere(page, requests')
  BY <1>4, <1>5, NotNothing, <1>2, <1>3 DEF Gives, PanelRight, GivenHere
<1>7. OnePanel(requests')
  BY <1>2, <1>3 DEF PanelRight, OnePanel
<1>8. \A j \in Slots : Is(requests'[j], "panel") <=> Is(requests[j], "panel")
  BY <1>2, <1>3
<1>9. CASE /\ UNCHANGED assigned /\ (r.kind \in {"assign", "unassign"} => s.stage # "answered")
           /\ r.kind = "readAssigned" /\ s.stage = "answered" => s.rows = assigned[r.quiz]
  <2>1. PanelShown(page, requests', A)
    BY <1>8 DEF PanelRight, PanelShown
  <2>2. PanelRead(page, s, A)
    <3>1. CASE s = NoRequest
      BY <3>1, NotNothing DEF PanelRead
    <3>2. CASE Alike(r, s)
      <4>1. s.kind = r.kind
        BY <3>2 DEF Alike
      <4>2. Is(r, "panel") \/ Is(r, "publishLoad") => r.quiz = page.quiz
        BY PanelOfPage
      <4>3. Is(r, "panel") => r.kind \in {"assign", "unassign", "readAssigned"}
        BY DEF Core, Fitting, Fits, Sorted, Is
      <4>4. PanelRead(page, r, A)
        BY DEF PanelRight
      <4> HIDE DEF A, r, s
      <4>5. Is(r, "panel") /\ r.kind # "readAssigned" => page.panel.rows = A
        BY <1>0, <4>4 DEF PanelRead, r
      <4>6. (Is(s, "panel") <=> Is(r, "panel")) /\ (Is(s, "publishLoad") <=> Is(r, "publishLoad"))
        BY <1>3
      <4>7. Is(r, "panel") \/ Is(r, "publishLoad") => (r.kind = "readAssigned" /\ s.stage = "answered" => s.rows = A)
        BY <1>9, <4>2 DEF A, r, s
      <4>8. Is(r, "panel") /\ r.kind # "readAssigned" => s.stage # "answered"
        BY <1>9, <4>3
      <4>9. QED
        BY <4>1, <4>5, <4>6, <4>7, <4>8 DEF PanelRead
    <3>3. QED
      BY <1>1, <3>1, <3>2
  <2>3. \A j \in Slots : PanelRead(page, requests'[j], A)
    BY <1>2, <2>2 DEF PanelRight
  <2>4. QED
    BY <1>6, <1>7, <1>9, <2>1, <2>3 DEF PanelRight
<1>10. CASE Given(i)
  <2>1. CASE Refuse(i) /\ UNCHANGED assigned
    BY <1>9, <1>10, <2>1, RefusesIt DEF Given
  <2>2. CASE /\ Answer(i, r)
            /\ \/ r.kind = "assign" /\ \E rows : assigned' = [assigned EXCEPT ![r.quiz] = rows]
               \/ r.kind = "unassign" /\ assigned' = [assigned EXCEPT ![r.quiz] = @ \ r.rows]
    <3>1. r.quiz \in Quizzes /\ r.kind \in {"assign", "unassign"} /\ assigned = [id \in Quizzes |-> assigned[id]]
      BY <1>10 DEF Given, IInv, StoreInv
    <3>2. \E rows : /\ assigned' = [assigned EXCEPT ![r.quiz] = rows]
                    /\ r.kind = "unassign" => rows = assigned[r.quiz] \ r.rows
      BY <2>2
    <3>3. PICK rows : /\ assigned' = [assigned EXCEPT ![r.quiz] = rows]
                      /\ r.kind = "unassign" => rows = assigned[r.quiz] \ r.rows
      BY <3>2
    <3>4. DOMAIN r = Fields
      BY FieldsOf
    <3>5. s = NoRequest \/ OnlyStage(s, r, "answered")
      BY <2>2, <3>4, AnswersIt
    <3>6. CASE r.quiz # page.quiz
      <4>1. assigned'[page.quiz] = A
        BY <3>1, <3>3, <3>6
      <4>2. ~Is(r, "panel") /\ ~Is(r, "publishLoad")
        BY <3>6, PanelOfPage
      <4>3. ~Is(s, "panel") /\ ~Is(s, "publishLoad")
        BY <1>3, <4>2
      <4>4. \A j \in Slots : PanelRead(page, requests'[j], A)
        BY <1>2, <4>3 DEF PanelRight, PanelRead
      <4>5. PanelShown(page, requests', A)
        BY <1>8 DEF PanelRight, PanelShown
      <4>6. QED
        BY <1>6, <1>7, <4>1, <4>4, <4>5 DEF PanelRight
    <3>7. CASE r.quiz = page.quiz
      <4>1. Is(r, "panel") /\ assigned'[page.quiz] = rows
        BY <3>1, <3>3, <3>7 DEF PanelRight, GivenHere, Gives
      <4>2. Is(s, "panel") /\ s # NoRequest
        BY <1>3, <4>1, NotNothing
      <4>3. page.load.left = {} /\ page.panel.rows = A
        BY <1>0, <3>1, <4>1, PanelOfPage DEF PanelRight, PanelRead
      <4>4. \A j \in Slots : j # i => ~Is(requests'[j], "panel") /\ ~Is(requests'[j], "publishLoad")
        BY <1>2, <4>1, <4>3, PanelOfPage DEF PanelRight, OnePanel
      <4>5. s.stage = "answered" /\ s.kind = r.kind /\ s.rows = r.rows
        BY <3>5, <4>2 DEF OnlyStage
      <4>6. PanelRead(page, s, rows)
        BY <3>1, <3>3, <3>7, <4>2, <4>3, <4>5 DEF PanelRead, Is
      <4>7. \A j \in Slots : PanelRead(page, requests'[j], rows)
        BY <4>4, <4>6 DEF PanelRead
      <4>8. PanelShown(page, requests', rows)
        BY <4>2, <4>3 DEF PanelShown
      <4>9. QED
        BY <1>6, <1>7, <4>1, <4>7, <4>8 DEF PanelRight
    <3>8. QED
      BY <3>6, <3>7
  <2>3. QED
    BY <1>10, <2>1, <2>2 DEF Given
<1>11. QED
  BY <1>9, <1>10, AssignedElse, ServeSplit

LEMMA PanelStep ==
  ASSUME IInv, Core, PanelInv, [Next]_vars
  PROVE  PanelInv'
<1> SUFFICES ASSUME elsewhere' = 0, ~lost'
             PROVE  PanelInv'
  BY DEF PanelInv
<1>0. elsewhere = 0 /\ Core' /\ IInv'
  BY OwnSteps, StepKeeps
<1>1. CASE UNCHANGED vars
  BY <1>1 DEF vars, storeVars, pageVars, PanelInv, PanelRight, GivenHere, OnePanel, PanelShown, PanelRead, Shows
<1>2. CASE Teacher \/ SearchDebounced \/ BankSearchDebounced
  BY <1>0, <1>2, PanelTeacher
<1>3. ASSUME NEW i \in Slots, ServeRequest(i) \/ HandlerFails(i) PROVE PanelInv'
  BY <1>0, <1>3, PanelServed
<1>4. ASSUME NEW i \in Slots, Lose(i) PROVE PanelInv'
  BY <1>4, LoseSteps
<1>5. ASSUME NEW i \in Slots, Answered(i), Rest PROVE PanelInv'
  BY <1>0, <1>5, PanelAnswered
<1>6. ASSUME NEW i \in Slots, Refused(i), Rest PROVE PanelInv'
  BY <1>0, <1>6, PanelRefused
<1>7. QED
  BY <1>1, <1>2, <1>3, <1>4, <1>5, <1>6, OwnSteps

LEMMA InitShows ==
  ASSUME Init
  PROVE  PanelInv
<1> SUFFICES ASSUME ~page.crossed, Shows(page)
             PROVE  PanelRight(page, requests, assigned[page.quiz])
  BY DEF PanelInv
<1>1. \A j \in Slots : /\ ~Is(requests[j], "panel") /\ requests[j].kind \notin {"assign", "unassign"}
                       /\ Is(requests[j], "publishLoad") => requests[j].stage = "sent"
  BY BeginsAsking, FirstAskIs DEF StepRead, Sent, Is, NoRequest
<1>2. CASE \E kind \in {"list", "wizard", "edit", "preview", "results"} :
             Untouched(page) /\ TurnedTo(page, kind, IF kind \in {"list", "wizard"} THEN 0 ELSE 1)
  <2>1. PICK kind \in {"list", "wizard", "edit", "preview", "results"} :
          Untouched(page) /\ TurnedTo(page, kind, IF kind \in {"list", "wizard"} THEN 0 ELSE 1)
    BY <1>2
  <2>2. page # NewPage("missing", 0)
    BY NewPageIs DEF Shows
  <2>3. page.kind = kind /\ page.step = 1 /\ page.load.left = {}
    <3>1. page.kind = kind
      BY <2>1, <2>2 DEF TurnedTo
    <3>2. page.step = 1 /\ page.load.left = {}
      BY <2>1 DEF Untouched, NoLoad
    <3>3. QED
      BY <3>1, <3>2
  <2>4. kind = "preview"
    BY <2>3 DEF Shows
  <2>5. page.quiz = 1 /\ page.panel.rows = assigned[1]
    BY <2>1, <2>2, <2>4 DEF TurnedTo
  <2>6. {} # {"readQuiz"}
    OBVIOUS
  <2>7. QED
    BY <1>1, <2>3, <2>5, <2>6 DEF PanelRight, GivenHere, Gives, OnePanel, PanelShown, PanelRead
<1>3. CASE \E step \in 2 .. 5 : \E p : SavedWizard(p, step) /\ AtItsStep(page, p, step)
  <2>1. PICK step \in 2 .. 5 : \E p : SavedWizard(p, step) /\ AtItsStep(page, p, step)
    BY <1>3
  <2>2. page.load.left = {"readQuiz", "readAssigned"}
    BY <2>1 DEF AtItsStep, SavedWizard, Shows, NoLoad
  <2>3. {"readQuiz", "readAssigned"} # {} /\ {"readQuiz", "readAssigned"} # {"readQuiz"}
    OBVIOUS
  <2>4. QED
    BY <1>1, <2>2, <2>3 DEF PanelRight, GivenHere, Gives, OnePanel, PanelShown, PanelRead
<1>4. QED
  BY <1>2, <1>3, BeginsSomehow

LEMMA CoreIsTyped ==
  ASSUME Core
  PROVE  TypeOK
<1>1. quiz \in [Quizzes -> QuizRows] /\ alive \subseteq Questions
  BY DEF Core, StoreTyped
<1>2. \A id \in Quizzes : /\ pool[id] \subseteq [question : Questions, position : Questions]
                         /\ assigned[id] \subseteq [target : Targets, number : 1 .. serial]
  BY DEF Core, StoreTyped, PoolRow
<1>3. \A i \in Slots : requests[i].part # "none" => requests[i].part \in PageParts
  BY DEF Core, Fitting, Fits, Sorted
<1>4. StepRight(page) /\ PickedRight(page.picker)
  BY DEF Core, Fitting, PageRight
<1>5. Pooled \subseteq Questions
  BY <1>4 DEF PickedRight, Pooled
<1>6. QED
  BY <1>1, <1>2, <1>3, <1>4, <1>5 DEF TypeOK, QuizRows, StepRight, PickedRight, Made

LEMMA PagesIInvShows ==
  ASSUME PagesIInv
  PROVE  PagesInv
<1>1. TypeOK
  BY CoreIsTyped DEF PagesIInv
<1>2. ListShowsItsQuery
  BY DEF PagesIInv, ListInv, ListRight, ShownRight, ListShowsItsQuery
<1>3. OneQuizPerWizard
  BY CreatesAreFinite DEF Token, PagesIInv, CountInv, OneQuizPerWizard
<1>4. \A part : (\E i \in Slots : Is(requests[i], part)) => Waiting(part)
  BY DEF Is, Waiting
<1>5. BusyMeansAsked
  BY <1>4 DEF PagesIInv, BusyInv, WaitsRight, SaveWaits, PickWaits, BusyWaits, PanelWaits, BusyMeansAsked
<1>6. PanelShowsAssigned
  <2> SUFFICES ASSUME page.panel.open, ~page.crossed, ~lost, ~Waiting("panel"), elsewhere = 0
               PROVE  page.panel.rows = assigned[page.quiz]
    BY DEF PanelShowsAssigned
  <2>1. StepRight(page) /\ PartsRight(page)
    BY DEF PagesIInv, Core, Fitting, PageRight
  <2>2. Shows(page) /\ page.load.left = {}
    BY <2>1 DEF PartsRight, StepRight, Shows
  <2>3. PanelRight(page, requests, assigned[page.quiz])
    BY <2>2 DEF PagesIInv, PanelInv
  <2>4. QED
    BY <1>4, <2>2, <2>3 DEF PanelRight, PanelShown
<1>7. QED
  BY <1>1, <1>2, <1>3, <1>5, <1>6 DEF PagesInv

\* What the tab shows and the requests under way fit each other: the store and
\* the pages are of their type, the list shows what was asked for last, the
\* panel shows the assignments of the quiz, a wizard makes one quiz, and a
\* button that waits, waits for an answer that can still come.
THEOREM PagesStayRight == Spec => []PagesInv
<1>1. Init => PagesIInv
  BY InitIsWhole, InitFits, InitLists, InitWaits, InitCounts, InitShows DEF PagesIInv
<1>2. PagesIInv /\ [Next]_vars => PagesIInv'
  BY StepKeeps, CoreStep, ListStep, BusyStep, CountStep, PanelStep DEF PagesIInv
<1>3. PagesIInv => PagesInv
  BY PagesIInvShows
<1>4. QED
  BY <1>1, <1>2, <1>3, PTL DEF Spec

-----------------------------------------------------------------------------
\* The message that the pool is saved: unless the pool was touched, whatever is
\* sent of it is what the picker holds, and has been stored when it is answered.

LEMMA PickerCalm ==
  ASSUME PickerInv, UNCHANGED elsewhere, page'.quiz = page.quiz, page'.picker.pool = page.picker.pool,
         page'.picker.touched = page.picker.touched, page'.picker.saved => page.picker.saved,
         page'.picker.saving => page.picker.saving \/ page.picker.saved,
         pool'[page.quiz] = pool[page.quiz], overlapped \subseteq overlapped',
         \A j \in Slots : NoMoreOfPool(requests[j], requests'[j])
  PROVE  PickerInv'
<1> SUFFICES ASSUME elsewhere = 0, Messages(page'.picker)
             PROVE  /\ PoolSent(page'.picker, page.quiz, requests')
                    /\ page.quiz \notin overlapped' => PoolStored(page'.picker, requests', pool[page.quiz])
  BY DEF PickerInv
<1>1. Messages(page.picker)
  BY DEF Messages
<1>2. PoolSent(page'.picker, page.quiz, requests')
  BY <1>1 DEF PickerInv, PoolSent, NoMoreOfPool, Replaces
<1>3. ASSUME page.quiz \notin overlapped' PROVE PoolStored(page'.picker, requests', pool[page.quiz])
  BY <1>1, <1>3 DEF PickerInv, PoolStored, NoMoreOfPool
<1>4. QED
  BY <1>2, <1>3

LEMMA NoMoreOfPoolIs ==
  /\ \A r : NoMoreOfPool(r, r) /\ NoMoreOfPool(r, NoRequest)
  /\ \A r, s : s.kind # "pool" /\ s.part # "picker" => NoMoreOfPool(r, s)
BY DEF NoMoreOfPool, PoolAnswered, Is, NoRequest

LEMMA PoolByPicker ==
  ASSUME NEW r, Sorted(r), r.part = "none" => r = NoRequest, r.kind = "pool"
  PROVE  r.part = "picker"
  BY DEF NoRequest, Sorted, PageParts, StepParts, LifeCycle

LEMMA SortedThen ==
  ASSUME Core', elsewhere' = 0
  PROVE  \A j \in Slots : Sorted(requests'[j]) /\ (requests'[j].part = "none" => requests'[j] = NoRequest)
BY DEF Core, Fitting, Fits, Own

LEMMA PickerFoot ==
  ASSUME Core, Core', PickerInv, elsewhere = 0, elsewhere' = 0, UNCHANGED storeOnly,
         NEW a, NEW b, NEW c, Foot(a, b, c), "quiz" \notin a, "picker" \notin a, "picker" \notin c
  PROVE  PickerInv'
<1>1. MovesOwn(requests', requests, b, c)
  BY FootOwn
<1>2. \A j \in Slots : requests'[j] = requests[j] \/ requests'[j] = NoRequest \/ requests'[j].part # "picker"
  BY <1>1 DEF MovesOwn
<1>3. \A j \in Slots : requests'[j].part # "picker" => requests'[j].kind # "pool"
  BY PoolByPicker, SortedThen
<1>4. \A j \in Slots : NoMoreOfPool(requests[j], requests'[j])
  BY <1>2, <1>3, NoMoreOfPoolIs
<1>5. page'.quiz = page.quiz /\ page'.picker = page.picker
  BY DEF Foot, Changes, PageFields
<1>6. QED
  BY <1>4, <1>5, PickerCalm DEF storeOnly

LEMMA PickerBrowsedRight ==
  ASSUME Core, Core', PickerInv, elsewhere = 0, elsewhere' = 0, UNCHANGED storeOnly, PickerBrowsed
  PROVE  PickerInv'
<1>1. MovesOwn(requests', requests, {"bank"}, {"bank"})
  BY FootOwn DEF PickerBrowsed
<1>2. \A j \in Slots : requests'[j] = requests[j] \/ requests'[j] = NoRequest \/ requests'[j].part # "picker"
  BY <1>1 DEF MovesOwn
<1>3. \A j \in Slots : requests'[j].part # "picker" => requests'[j].kind # "pool"
  BY PoolByPicker, SortedThen
<1>4. \A j \in Slots : NoMoreOfPool(requests[j], requests'[j])
  BY <1>2, <1>3, NoMoreOfPoolIs
<1>5. page'.quiz = page.quiz
  BY DEF PickerBrowsed, Browsed, Changes, PageFields
<1>6. QED
  BY <1>4, <1>5, PickerCalm DEF storeOnly, PickerBrowsed, Browsed

LEMMA PickerIsNew ==
  ASSUME ~page'.picker.saved, ~page'.picker.saving
  PROVE  PickerInv'
BY DEF PickerInv, Messages

LEMMA PickerSends ==
  ASSUME Core, PickerInv, UNCHANGED <<storeOnly, elsewhere>>, HandleSave
  PROVE  PickerInv'
<1>1. /\ Saves(page') /\ ~page.picker.saving /\ page'.quiz = page.quiz /\ FreeSlots(requests) # {}
      /\ \E r : /\ requests' = Put(requests, r) /\ Of(r, "pool", page.quiz, "picker") /\ r.stage = "sent"
                /\ r.ids = page.picker.pool
  BY HandleSaveSteps DEF Foot, Changes, PageFields
<1>2. PICK r : /\ requests' = Put(requests, r) /\ Of(r, "pool", page.quiz, "picker") /\ r.stage = "sent"
               /\ r.ids = page.picker.pool
  BY <1>1
<1>3. PICK x \in Slots : requests'[x] = r /\ \A j \in Slots : j # x => requests'[j] = requests[j]
  BY <1>1, <1>2, PutThere
<1> SUFFICES ASSUME elsewhere = 0, Messages(page'.picker)
             PROVE  /\ PoolSent(page'.picker, page.quiz, requests')
                    /\ page.quiz \notin overlapped => PoolStored(page'.picker, requests', pool[page.quiz])
  BY <1>1 DEF PickerInv, storeOnly
<1>4. ~Crossing(page.quiz) /\ ~(page.picker.touched /\ page.picker.saved) /\ page'.picker.pool = page.picker.pool
      /\ page'.picker.saved = page.picker.saved
  BY <1>1 DEF Saves, Messages
<1>5. \A j \in Slots : ~Replaces(requests[j], page.quiz)
  BY <1>4 DEF Crossing, Replaces
<1>6. PoolSent(page'.picker, page.quiz, requests')
  BY <1>2, <1>3, <1>4, <1>5 DEF PoolSent
<1>7. ASSUME page.quiz \notin overlapped PROVE PoolStored(page'.picker, requests', pool[page.quiz])
  <2>1. CASE page.picker.saved
    BY <1>4, <1>7, <2>1 DEF PickerInv, PoolStored, Messages
  <2>2. CASE ~page.picker.saved
    <3>1. \A j \in Slots : ~PoolAnswered(requests[j])
      <4> TAKE j \in Slots
      <4>1. Is(requests[j], "picker") => Replaces(requests[j], page.quiz)
        BY DEF Core, Fitting, Fits, Sorted, OfPage, Is, Replaces
      <4>2. QED
        BY <1>5, <4>1 DEF PoolAnswered
    <3>2. \A j \in Slots : ~PoolAnswered(requests'[j])
      BY <1>2, <1>3, <3>1 DEF PoolAnswered
    <3>3. QED
      BY <1>4, <2>2, <3>2 DEF PoolStored
  <2>3. QED
    BY <2>1, <2>2
<1>8. QED
  BY <1>6, <1>7

\* The answer to the save, or its refusal.
LEMMA PickerTakes ==
  ASSUME Core, PickerInv, UNCHANGED <<storeOnly, elsewhere>>, NEW i \in Slots, Is(requests[i], "picker"),
         requests' = Without(i), page'.quiz = page.quiz, ~page'.picker.saving, page'.picker.pool = page.picker.pool,
         page'.picker.touched = page.picker.touched,
         page'.picker.saved => page.picker.saved \/ requests[i].stage = "answered"
  PROVE  PickerInv'
<1> SUFFICES ASSUME elsewhere = 0, Messages(page'.picker)
             PROVE  /\ PoolSent(page'.picker, page.quiz, requests')
                    /\ page.quiz \notin overlapped => PoolStored(page'.picker, requests', pool[page.quiz])
  BY DEF PickerInv, storeOnly
<1>1. page.picker.saving
  BY DEF Core, Fitting, Fits, OfPage, Is
<1>2. Messages(page.picker)
  BY <1>1 DEF Messages
<1>3. \A j \in Slots : requests'[j] = requests[j] \/ requests'[j] = NoRequest
  BY WithoutIs
<1>4. \A id : ~Replaces(NoRequest, id)
  BY DEF Replaces, NoRequest
<1>5. PoolSent(page'.picker, page.quiz, requests')
  BY <1>2, <1>3, <1>4 DEF PickerInv, PoolSent
<1>6. ASSUME page.quiz \notin overlapped PROVE pool[page.quiz] = RowsOf(page.picker.pool)
  BY <1>2, <1>6 DEF PickerInv, PoolStored, PoolAnswered, Messages
<1>7. QED
  BY <1>5, <1>6 DEF PoolStored

LEMMA PickerTeacher ==
  ASSUME Core, Core', PickerInv, elsewhere = 0, elsewhere' = 0, Teacher \/ SearchDebounced \/ BankSearchDebounced
  PROVE  PickerInv'
<1>0. UNCHANGED <<storeOnly, elsewhere>>
  BY TeacherSplit
<1>1. CASE TurnedSomewhere(requests)
  BY <1>1, TurnedWaits, PickerIsNew DEF TurnedSomewhere
<1>2. CASE Neutral
  BY <1>0, <1>2, PickerFoot DEF Neutral, NeutralFields, NeutralParts
<1>3. CASE FormTouched
  BY <1>0, <1>3, PickerFoot DEF FormTouched
<1>4. CASE Stepped(page, requests)
  BY <1>4, PartsAreNew, PickerIsNew DEF Stepped, Entered, AtItsStep
<1>5. CASE \E part \in {"save", "draft"} : PersistsAs(part)
  BY <1>0, <1>5, PickerFoot DEF PersistsAs
<1>6. CASE Submitted
  BY <1>0, <1>6, PickerFoot DEF Submitted
<1>7. CASE PickerTouched
  BY <1>7 DEF PickerTouched, Repooled, PickerInv, Messages
<1>8. CASE PickerBrowsed
  BY <1>0, <1>8, PickerBrowsedRight
<1>9. CASE HandleSave
  BY <1>0, <1>9, PickerSends
<1>10. CASE PanelTouched
  BY <1>0, <1>10, PickerFoot DEF PanelTouched
<1>11. QED
  BY <1>1, <1>2, <1>3, <1>4, <1>5, <1>6, <1>7, <1>8, <1>9, <1>10, TeacherSplit

LEMMA PickerSaved ==
  ASSUME Core, PickerInv, UNCHANGED <<storeOnly, elsewhere>>, NEW i \in Slots,
         SaveArrives(i), Rest, page.kind = "wizard", NEW p, SavedPage(p, i)
  PROVE  PickerInv'
<1>1. CASE Entered(p, Without(i))
  BY <1>1, PartsAreNew, PickerIsNew DEF Entered, AtItsStep
<1>2. CASE page' = p /\ requests' = Without(i)
  <2>1. Is(requests[i], "save") /\ requests[i].kind \in {"create", "update"} /\ OfPage(page, requests[i])
    BY SaveArrivesSteps DEF Core, Fitting, Fits, Sorted, Is
  <2>2. p.picker = page.picker
    BY DEF SavedPage, Changes, PageFields
  <2>3. CASE requests[i].kind = "update"
    BY <2>3, <1>2, WithoutIs, NoMoreOfPoolIs, <2>2, PickerCalm DEF SavedPage, storeOnly
  <2>4. CASE requests[i].kind = "create"
    BY <2>1, <2>4, <1>2, <2>2, PickerIsNew DEF OfPage, Is, Core, Fitting, PageRight, StepRight,
       PartsRight
  <2>5. QED
    BY <2>1, <2>3, <2>4
<1>3. QED
  BY <1>1, <1>2 DEF SavedPage

LEMMA PickerAnswered ==
  ASSUME Core, Core', PickerInv, elsewhere = 0, elsewhere' = 0, NEW i \in Slots, Answered(i), Rest
  PROVE  PickerInv'
<1>0. UNCHANGED <<storeOnly, elsewhere>>
  BY DEF Rest
<1>1. CASE TurnedSomewhere(Without(i))
  BY <1>1, TurnedWaits, PickerIsNew DEF TurnedSomewhere
<1>2. CASE Neutral
  BY <1>0, <1>2, PickerFoot DEF Neutral, NeutralFields, NeutralParts
<1>3. CASE Foot({"saving"}, {"save"}, {"refresh"})
  BY <1>0, <1>3, PickerFoot
<1>4. CASE SaveArrives(i) /\ page.kind = "wizard" /\ \E p : SavedPage(p, i)
  BY <1>0, <1>4, PickerSaved
<1>5. CASE ~page'.picker.saving /\ ~page'.picker.saved
  BY <1>5, PickerIsNew
<1>6. CASE PickerBrowsed
  BY <1>0, <1>6, PickerBrowsedRight
<1>7. CASE PoolSaved(i)
  BY <1>7, PickerSavedSteps, <1>0, PickerTakes DEF Foot, Changes, PageFields, Is
<1>8. CASE PoolCounted(i)
  BY <1>0, <1>8, PoolCountedSteps, PickerFoot
<1>9. CASE PublishLoaded(i)
  BY <1>9, PublishLoadSteps, <1>0, PickerFoot DEF PublishLoaded, Arrived, LoadFields
<1>10. CASE Published(i)
  BY <1>0, <1>10, PublishedSteps, PickerFoot
<1>11. CASE Assigned(i)
  BY <1>0, <1>11, AssignedSteps, PickerFoot
<1>12. CASE AssignedRead(i) \/ Unassigned(i)
  BY <1>0, <1>12, AssignedReadSteps, PickerFoot
<1>13. QED
  BY <1>1, <1>2, <1>3, <1>4, <1>5, <1>6, <1>7, <1>8, <1>9, <1>10, <1>11, <1>12, AnsweredSplit

LEMMA PickerRefused ==
  ASSUME Core, Core', PickerInv, elsewhere = 0, elsewhere' = 0, NEW i \in Slots, Refused(i), Rest
  PROVE  PickerInv'
<1>0. UNCHANGED <<storeOnly, elsewhere>> /\ requests[i].heard
  BY RefusedSplit DEF Rest
<1>1. CASE TurnedSomewhere(Without(i))
  BY <1>1, TurnedWaits, PickerIsNew DEF TurnedSomewhere
<1>2. CASE Foot(LoadFields, {"publishLoad"}, {})
  BY <1>0, <1>2, PickerFoot DEF LoadFields
<1>3. CASE /\ requests[i].part = "picker" /\ Foot({"picker"}, {"picker"}, {}) /\ requests' = Without(i)
           /\ ~page'.picker.saving /\ page'.picker.pool = page.picker.pool
           /\ page'.picker.touched = page.picker.touched /\ (page'.picker.saved => page.picker.saved)
  BY <1>3, <1>0, PickerTakes DEF Foot, Changes, PageFields, Is
<1>4. CASE Neutral
  BY <1>0, <1>4, PickerFoot DEF Neutral, NeutralFields, NeutralParts
<1>5. CASE SaveUndone(i)
  BY <1>0, <1>5, PickerFoot DEF SaveUndone
<1>6. CASE PanelUndone(i)
  BY <1>0, <1>6, PickerFoot DEF PanelUndone
<1>7. CASE Foot({}, {"pool", "review", "bank"}, {})
  BY <1>0, <1>7, PickerFoot
<1>8. QED
  BY <1>1, <1>2, <1>3, <1>4, <1>5, <1>6, <1>7, RefusedSplit

LEMMA PickerLost ==
  ASSUME Core, Core', PickerInv, elsewhere = 0, elsewhere' = 0, NEW i \in Slots, Lose(i)
  PROVE  PickerInv'
<1>0. UNCHANGED <<storeOnly, elsewhere>> /\ (PoolLost(i) \/ LoadLost(i) \/ OtherLost(i))
  BY LoseSteps
<1>1. CASE PoolLost(i)
  BY <1>1, PickerIsNew DEF PoolLost
<1>2. CASE LoadLost(i)
  BY <1>0, <1>2, PickerFoot DEF LoadLost
<1>3. CASE OtherLost(i)
  <2>1. page'.quiz = page.quiz /\ page'.picker = page.picker
    BY <1>3 DEF OtherLost, Foot, Changes, PageFields
  <2>2. \A j \in Slots : j # i => requests'[j] = requests[j]
    BY <1>3 DEF OtherLost, LeftOver
  <2>3. NoMoreOfPool(requests[i], requests'[i])
    BY <1>3, FieldsOf DEF OtherLost, LeftOver, Unheard, NoMoreOfPool, PoolAnswered, Is, Fields,
       NoRequest
  <2>4. \A j \in Slots : NoMoreOfPool(requests[j], requests'[j])
    BY <2>2, <2>3, NoMoreOfPoolIs
  <2>5. QED
    BY <1>0, <2>1, <2>4, PickerCalm DEF storeOnly
<1>4. QED
  BY <1>0, <1>1, <1>2, <1>3

LEMMA OverlappedGrows ==
  ASSUME NEW i, ServeRequest(i) \/ HandlerFails(i)
  PROVE  overlapped \subseteq overlapped'
<1>1. Serve(i) \/ Fail(i)
  BY DEF ServeRequest, HandlerFails
<1>2. CASE DeletePool(i) \/ DuplicateQuiz(i)
  BY <1>2 DEF DeletePool, DuplicateQuiz
<1>3. CASE ~(DeletePool(i) \/ DuplicateQuiz(i))
  BY <1>1, <1>3 DEF Serve, RequireOwnedQuiz, CreateQuiz, UpdateQuiz, DeleteQuiz, CountPool, SetQuizStatus,
    SetQuizShowResults, ReadPoolToCopy, VerifyQuestions, WakeDelete, InsertPool, RequirePublishedQuiz,
    FindExisting, InsertAssignment, DeleteAssignment, GetQuizQuestionPool, GetQuiz, ListAssignmentsForQuiz,
    CountQuizzes, ListQuizzes, ListQuestions, Fail, Reading
<1>4. QED
  BY <1>2, <1>3

LEMMA PickerServed ==
  ASSUME IInv, IInv', Core, PickerInv, elsewhere = 0, NEW i \in Slots, ServeRequest(i) \/ HandlerFails(i)
  PROVE  PickerInv'
<1>0. /\ UNCHANGED <<page, elsewhere, lost>> /\ requests[i].stage # "answered"
      /\ \A j \in Slots : j # i => requests'[j] = requests[j]
      /\ (requests'[i] = NoRequest /\ ~requests[i].heard) \/ Alike(requests[i], requests'[i])
      /\ overlapped \subseteq overlapped'
  BY ServedAlike, OverlappedGrows
<1> DEFINE r == requests[i]
           s == requests'[i]
<1> SUFFICES ASSUME Messages(page.picker)
             PROVE  PickerInv'
  BY <1>0 DEF PickerInv
<1>1. page.quiz \in Quizzes /\ quiz[page.quiz].status # "none"
  BY DEF Messages, Core, Fitting, PageRight, PartsRight, StepRight, Made
<1>2. s.kind = "pool" => r.kind = "pool" /\ r.quiz = s.quiz /\ r.ids = s.ids
  BY <1>0 DEF Alike, NoRequest
<1>3. Is(r, "picker") => r.kind = "pool" /\ r.quiz = page.quiz
  BY DEF Core, Fitting, Fits, Sorted, OfPage, Is
<1>4. PoolAnswered(s) => Is(r, "picker") /\ s # NoRequest
  <2>1. ~PoolAnswered(NoRequest)
    BY DEF PoolAnswered, Is, NoRequest
  <2>2. s = NoRequest \/ (s.part = r.part /\ s.heard = r.heard)
    BY <1>0 DEF Alike
  <2> HIDE DEF r, s
  <2>3. QED
    BY <2>1, <2>2 DEF PoolAnswered, Is
<1>5. CASE pool'[page.quiz] = pool[page.quiz] /\ ~PoolAnswered(s)
  BY <1>2, <1>5, <1>0, NoMoreOfPoolIs, PickerCalm DEF NoMoreOfPool
<1>6. CASE GoesOnly(i)
  BY <1>5, <1>6 DEF GoesOnly, PoolAnswered
<1>7. CASE ReadsOnly(i)
  BY <1>3, <1>4, <1>5, <1>7 DEF ReadsOnly, Reads
<1>8. CASE Written(i)
  BY <1>3, <1>4, <1>5, <1>8 DEF Written
<1>9. CASE Given(i)
  BY <1>3, <1>4, <1>5, <1>9 DEF Given
<1>10. CASE Added(i)
  <2>1. r.kind \in {"create", "duplicate"}
    BY <1>10 DEF Added, AddedAs
  <2>2. pool'[page.quiz] = pool[page.quiz]
    <3>1. PICK id \in Quizzes : \E row, x : AddedAs(i, id, row, x)
      BY <1>10 DEF Added
    <3>2. quiz[id] = NoQuiz /\ (UNCHANGED pool \/ pool' = [pool EXCEPT ![id] = r.rows])
      BY <2>1, <3>1 DEF AddedAs
    <3>3. id # page.quiz
      BY <1>1, <3>2 DEF NoQuiz
    <3>4. pool = [x \in Quizzes |-> pool[x]]
      BY DEF IInv, StoreInv
    <3>5. QED
      BY <1>1, <3>2, <3>3, <3>4
  <2>3. QED
    BY <1>3, <1>4, <1>5, <2>1, <2>2
<1>11. CASE Replaced(i)
  <2>0. pool = [x \in Quizzes |-> pool[x]]
    BY DEF IInv, StoreInv
  <2>1. CASE Refuse(i) /\ UNCHANGED pool
    BY <1>5, <2>1, RefusesIt DEF PoolAnswered
  <2>2. CASE pool' = [pool EXCEPT ![r.quiz] = (pool[r.quiz] \ r.rows) \union RowsOf(r.ids)]
    <3>1. CASE r.quiz # page.quiz
      BY <1>1, <1>3, <1>4, <1>5, <2>0, <2>2, <3>1
    <3>2. CASE r.quiz = page.quiz
      <4>1. PoolSent(page.picker, page.quiz, requests)
        BY DEF PickerInv
      <4>2. r.ids = page.picker.pool
        BY <1>11, <3>2, <4>1 DEF Replaced, PoolSent, Replaces
      <4>3. page.quiz \notin overlapped => pool'[page.quiz] = RowsOf(page.picker.pool)
        BY <1>11, <3>2, <1>1, <2>0, <2>2, <4>2 DEF IInv, StoreInv, Underway, Replaced, Replacing,
           RowsSeen
      <4>4. PoolSent(page.picker, page.quiz, requests')
        BY <1>0, <1>2, <4>1 DEF PoolSent, Replaces
      <4>5. QED
        BY <1>0, <4>3, <4>4 DEF PickerInv, PoolStored
    <3>3. QED
      BY <3>1, <3>2
  <2>3. QED
    BY <1>11, <2>1, <2>2 DEF Replaced
<1>12. QED
  BY <1>6, <1>7, <1>8, <1>9, <1>10, <1>11, ServeSplit

LEMMA PickerStep ==
  ASSUME IInv, Core, PickerInv, [Next]_vars
  PROVE  PickerInv'
<1> SUFFICES ASSUME elsewhere' = 0
             PROVE  PickerInv'
  BY DEF PickerInv
<1>0. elsewhere = 0 /\ Core' /\ IInv'
  BY OwnSteps, StepKeeps
<1>1. CASE UNCHANGED vars
  BY <1>1 DEF vars, storeVars, pageVars, PickerInv, PoolSent, PoolStored
<1>2. CASE Teacher \/ SearchDebounced \/ BankSearchDebounced
  BY <1>0, <1>2, PickerTeacher
<1>3. ASSUME NEW i \in Slots, ServeRequest(i) \/ HandlerFails(i) PROVE PickerInv'
  BY <1>0, <1>3, PickerServed
<1>4. ASSUME NEW i \in Slots, Lose(i) PROVE PickerInv'
  BY <1>0, <1>4, PickerLost
<1>5. ASSUME NEW i \in Slots, Answered(i), Rest PROVE PickerInv'
  BY <1>0, <1>5, PickerAnswered
<1>6. ASSUME NEW i \in Slots, Refused(i), Rest PROVE PickerInv'
  BY <1>0, <1>6, PickerRefused
<1>7. QED
  BY <1>1, <1>2, <1>3, <1>4, <1>5, <1>6, OwnSteps

LEMMA InitPicks == Init => PickerInv
<1> SUFFICES ASSUME Init PROVE PickerInv
  OBVIOUS
<1>1. CASE \E kind \in {"list", "wizard", "edit", "preview", "results"} :
             Untouched(page) /\ TurnedTo(page, kind, IF kind \in {"list", "wizard"} THEN 0 ELSE 1)
  BY <1>1, TurnedWaits DEF PickerInv, Messages
<1>2. CASE \E step \in 2 .. 5 : \E p : SavedWizard(p, step) /\ AtItsStep(page, p, step)
  BY <1>2, PartsAreNew DEF AtItsStep, PickerInv, Messages
<1>3. QED
  BY <1>1, <1>2, BeginsSomehow

\* "Pool saved." is true: what was sent of a pool that nobody has touched since
\* is what the picker holds, and the transaction that answers it has replaced
\* the rows it saw, which are all unless two saves of the pool overlapped.
THEOREM PoolMessagesAreTrue == Spec => []PoolSavedMeansSaved
<1> DEFINE Inv == IInv /\ Core /\ PickerInv
<1>1. Init => Inv
  BY InitIsWhole, InitFits, InitPicks
<1>2. Inv /\ [Next]_vars => Inv'
  BY StepKeeps, CoreStep, PickerStep
<1>3. Inv => PoolSavedMeansSaved
  BY DEF PickerInv, PoolStored, Messages, PoolSavedMeansSaved
<1> HIDE DEF Inv
<1>4. QED
  BY <1>1, <1>2, <1>3, PTL DEF Spec
=============================================================================

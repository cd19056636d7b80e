---------------------------- MODULE ExamPageProofs ----------------------------
(***************************************************************************)
(* Theorems about ExamPage, for every value of its constants: any number   *)
(* of questions, answers, reports, unlocks and page loads.                 *)
(***************************************************************************)
EXTENDS ExamPage, SequenceTheorems, TLAPS

-----------------------------------------------------------------------------
(* The inductive invariant.                                                *)

Pages ==
  [inProgress : BOOLEAN, locked : BOOLEAN, fullscreen : BOOLEAN, submitting : BOOLEAN,
   error : BOOLEAN, autoSubmitted : BOOLEAN, doubt : BOOLEAN, unheard : BOOLEAN,
   stale : BOOLEAN]
Requests == [question : Questions, answer : Nat]

\* What is on its way to an answer leads to the draft d: the pending timer t will
\* save it, or the last of the requests ss does, or it is stored already, as st.
LeadsTo(ss, t, st, d, q) ==
  IF t # 0 THEN t = d
  ELSE /\ (\A i \in DOMAIN ss : ss[i].question # q) => st = d
       /\ \A m \in DOMAIN ss :
            ss[m].question = q /\ (\A j \in DOMAIN ss : ss[j].question = q => j <= m) => ss[m].answer = d

OnlyTextWaits == \A q \in Questions : timer[q] # 0 => q \in TextQuestions
WillBeSaved ==
  \A q \in Questions : q \notin atRisk => LeadsTo(saves, timer[q], stored[q], draft[q], q)

\* The page shows the lock, or will when the answer to its report is there; it
\* shows none that has been lifted, unless an event is still to come.
LockIsKnown ==
  ~page.doubt /\ unlocks = 0 =>
    /\ attempt.locked => page.locked \/ \E r \in Reports : reports[r] = "answered"
    /\ ~attempt.locked => ~page.locked

SavesInv == saves \in Seq(Requests) /\ OnlyTextWaits /\ WillBeSaved
IInv == TypeOK /\ SavesInv /\ LockIsKnown

Attempts == [status : {"in_progress"} \union Verdicts, locked : BOOLEAN]

\* TypeOK, as what the answers and their requests are and what the rest is.
AnswersOK ==
  /\ inputs \in 0..MaxInputs /\ atRisk \subseteq Questions
  /\ stored \in [Questions -> 0..inputs] /\ draft \in [Questions -> 0..inputs]
  /\ timer \in [Questions -> 0..inputs]
  /\ \A i \in DOMAIN saves : saves[i] \in [question : Questions, answer : 1..inputs]
RestOK ==
  /\ attempt \in Attempts
  /\ overdue \in BOOLEAN /\ left \in BOOLEAN /\ room \in BOOLEAN
  /\ loads \in 1..MaxLoads /\ unlocks \in 0..MaxUnlocks
  /\ page \in Pages
  /\ reports \in [Reports -> {"free", "sent", "answered", "orphan"}]
  /\ submission \in [Submitters -> {"idle", "sent", "accepted", "refused"} \union Verdicts]

-----------------------------------------------------------------------------
(* Sequences of requests.                                                  *)

\* RemoveAt takes out one element and keeps the others in their order.
LEMMA RemoveAtElements ==
  ASSUME NEW S, NEW s \in Seq(S), NEW i \in 1..Len(s)
  PROVE  /\ RemoveAt(s, i) \in Seq(S)
         /\ DOMAIN RemoveAt(s, i) = 1..Len(s) - 1
         /\ \A k \in 1..Len(s) - 1 : RemoveAt(s, i)[k] = s[IF k < i THEN k ELSE k + 1]
<1> DEFINE l == SubSeq(s, 1, i - 1)
           r == SubSeq(s, i + 1, Len(s))
<1>1. i \in Nat /\ Len(s) \in Nat /\ i >= 1 /\ i <= Len(s) /\ \A k \in 1..Len(s) : s[k] \in S
  BY LenProperties
<1>2. l \in Seq(S) /\ Len(l) = i - 1 /\ \A k \in 1..i - 1 : l[k] = s[k]
  <2>1. 1 \in Int /\ i - 1 \in Int /\ \A k \in 1..i - 1 : s[k] \in S
    BY <1>1
  <2>2. QED
    BY <1>1, <2>1, SubSeqProperties
<1>3. r \in Seq(S) /\ Len(r) = Len(s) - i /\ \A k \in 1..Len(s) - i : r[k] = s[i + k]
  <2>1. i + 1 \in Int /\ Len(s) \in Int /\ \A k \in i + 1..Len(s) : s[k] \in S
    BY <1>1
  <2>2. /\ r \in Seq(S) /\ Len(r) = IF i + 1 <= Len(s) THEN Len(s) - (i + 1) + 1 ELSE 0
        /\ \A k \in 1..Len(s) - (i + 1) + 1 : r[k] = s[i + 1 + k - 1]
    BY <2>1, SubSeqProperties
  <2>3. QED
    BY <1>1, <2>2
<1>4. RemoveAt(s, i) = l \o r
  BY DEF RemoveAt
<1> HIDE DEF l, r
<1>5. /\ l \o r \in Seq(S) /\ Len(l \o r) = Len(l) + Len(r)
      /\ \A k \in 1..Len(l) + Len(r) :
           (l \o r)[k] = IF k <= Len(l) THEN l[k] ELSE r[k - Len(l)]
  BY <1>2, <1>3, ConcatProperties
<1>6. ASSUME NEW k \in 1..Len(s) - 1
      PROVE  (l \o r)[k] = s[IF k < i THEN k ELSE k + 1]
  <2>1. CASE k < i
    BY <1>1, <1>2, <1>3, <1>5, <2>1
  <2>2. CASE ~(k < i)
    <3>1. k - (i - 1) \in 1..Len(s) - i
      BY <1>1, <2>2
    <3>2. (l \o r)[k] = r[k - (i - 1)]
      BY <1>1, <1>2, <1>3, <1>5, <2>2
    <3>3. r[k - (i - 1)] = s[i + (k - (i - 1))] /\ i + (k - (i - 1)) = k + 1
      BY <1>1, <1>3, <3>1
    <3>4. QED
      BY <2>2, <3>2, <3>3
  <2>3. QED
    BY <2>1, <2>2
<1>7. QED
  BY <1>1, <1>2, <1>3, <1>4, <1>5, <1>6

\* A request of another question is gone, or of this one, if no older one was
\* left and it was stored.
LEMMA RemovedLeads ==
  ASSUME NEW ss \in Seq(Requests), NEW i \in 1..Len(ss), NEW t, NEW st, NEW d, NEW q,
         LeadsTo(ss, t, st, d, q)
  PROVE  /\ ss[i].question # q => LeadsTo(RemoveAt(ss, i), t, st, d, q)
         /\ ss[i].question = q /\ (\A j \in 1..Len(ss) : ss[j].question = q => j >= i)
              => LeadsTo(RemoveAt(ss, i), t, ss[i].answer, d, q)
<1> DEFINE rs == RemoveAt(ss, i)
<1>1. Len(ss) \in Nat /\ DOMAIN ss = 1..Len(ss)
  BY LenProperties
<1>2. DOMAIN rs = 1..Len(ss) - 1 /\ \A k \in 1..Len(ss) - 1 : rs[k] = ss[IF k < i THEN k ELSE k + 1]
  BY RemoveAtElements
<1> HIDE DEF rs
\* The place of each other request, before and after.
<1>3. \A j \in 1..Len(ss) : j # i =>
        \E k \in 1..Len(ss) - 1 : rs[k] = ss[j] /\ k = IF j < i THEN j ELSE j - 1
  <2> TAKE j \in 1..Len(ss)
  <2> HAVE j # i
  <2> DEFINE k == IF j < i THEN j ELSE j - 1
  <2>1. k \in 1..Len(ss) - 1 /\ (IF k < i THEN k ELSE k + 1) = j
    BY <1>1
  <2>2. rs[k] = ss[j]
    BY <1>2, <2>1
  <2>3. QED
    BY <2>1, <2>2
<1>4. ASSUME NEW m \in 1..Len(ss) - 1, rs[m].question = q,
             \A j \in 1..Len(ss) - 1 : rs[j].question = q => j <= m,
             ss[i].question # q \/ \A j \in 1..Len(ss) : ss[j].question = q => j >= i,
             t = 0
      PROVE  rs[m].answer = d
  <2> DEFINE n == IF m < i THEN m ELSE m + 1
  <2>1. n \in 1..Len(ss) /\ n # i /\ rs[m] = ss[n]
    BY <1>1, <1>2
  <2>2. ASSUME NEW j \in 1..Len(ss), ss[j].question = q
        PROVE  j <= n
    <3>1. CASE j = i
      BY <1>1, <1>4, <2>1, <2>2, <3>1
    <3>2. CASE j # i
      <4>1. PICK k \in 1..Len(ss) - 1 : rs[k] = ss[j] /\ k = IF j < i THEN j ELSE j - 1
        BY <1>3, <3>2
      <4>2. k <= m
        BY <1>4, <2>2, <4>1
      <4>3. QED
        BY <1>1, <3>2, <4>1, <4>2
    <3>3. QED
      BY <3>1, <3>2
  <2>3. QED
    BY <1>1, <1>4, <2>1, <2>2 DEF LeadsTo
<1>5. CASE t # 0
  BY <1>5 DEF LeadsTo
<1>6. CASE t = 0 /\ ss[i].question # q
  <2>1. (\A k \in 1..Len(ss) - 1 : rs[k].question # q) => \A j \in 1..Len(ss) : ss[j].question # q
    BY <1>3, <1>6
  <2>2. QED
    BY <1>1, <1>2, <1>4, <1>6, <2>1 DEF LeadsTo, rs
<1>7. CASE t = 0 /\ ss[i].question = q /\ \A j \in 1..Len(ss) : ss[j].question = q => j >= i
  <2>1. (\A k \in 1..Len(ss) - 1 : rs[k].question # q) => \A j \in 1..Len(ss) : ss[j].question = q => j <= i
    BY <1>1, <1>3
  <2>2. QED
    BY <1>1, <1>2, <1>4, <1>7, <2>1 DEF LeadsTo, rs
<1>8. QED
  BY <1>5, <1>6, <1>7

\* A request is sent.
LEMMA AppendedLeads ==
  ASSUME NEW ss \in Seq(Requests), NEW x \in Requests, NEW t, NEW st, NEW d, NEW q
  PROVE  /\ Append(ss, x) \in Seq(Requests)
         /\ x.question # q /\ LeadsTo(ss, t, st, d, q) => LeadsTo(Append(ss, x), t, st, d, q)
         /\ x.question = q /\ x.answer = d => LeadsTo(Append(ss, x), 0, st, d, q)
<1>1. Len(ss) \in Nat /\ DOMAIN ss = 1..Len(ss)
  BY LenProperties
<1>2. /\ Append(ss, x) \in Seq(Requests) /\ DOMAIN Append(ss, x) = 1..Len(ss) + 1
      /\ Append(ss, x)[Len(ss) + 1] = x /\ \A k \in 1..Len(ss) : Append(ss, x)[k] = ss[k]
  BY <1>1, AppendProperties
<1> DEFINE rs == Append(ss, x)
<1> HIDE DEF rs
<1>3. ASSUME x.question # q, LeadsTo(ss, t, st, d, q)
      PROVE  LeadsTo(rs, t, st, d, q)
  <2>1. ASSUME NEW m \in 1..Len(ss) + 1, rs[m].question = q
        PROVE  m \in 1..Len(ss) /\ rs[m] = ss[m]
    BY <1>1, <1>2, <1>3, <2>1 DEF rs
  <2>2. QED
    BY <1>1, <1>2, <1>3, <2>1 DEF LeadsTo, rs
<1>4. ASSUME x.question = q, x.answer = d
      PROVE  LeadsTo(rs, 0, st, d, q)
  BY <1>1, <1>2, <1>4 DEF LeadsTo, rs
<1>5. QED
  BY <1>2, <1>3, <1>4 DEF rs
-----------------------------------------------------------------------------
(* A few facts about the page.                                             *)

\* The lock and the doubt of a page, as the truth values they are.
LEMMA PageFields ==
  ASSUME NEW p \in Pages
  PROVE  /\ p.inProgress \in BOOLEAN /\ p.locked \in BOOLEAN /\ p.fullscreen \in BOOLEAN
         /\ p.submitting \in BOOLEAN /\ p.error \in BOOLEAN /\ p.autoSubmitted \in BOOLEAN
         /\ p.doubt \in BOOLEAN /\ p.unheard \in BOOLEAN
BY Zenon DEF Pages

\* What is on its way to the answers, and the answers, are as they were.
LEMMA QuietSteps ==
  ASSUME SavesInv, UNCHANGED <<stored, answerVars>>
  PROVE  SavesInv'
BY DEF SavesInv, OnlyTextWaits, WillBeSaved, answerVars, LeadsTo

LEMMA TypeParts == TypeOK <=> AnswersOK /\ RestOK
BY Zenon DEF TypeOK, AnswersOK, RestOK, Pages, Attempts

-----------------------------------------------------------------------------
(* The steps of the answers.                                               *)

\* A request is at its place, of a question.
LEMMA AtItsPlace ==
  ASSUME AnswersOK, SavesInv, NEW i \in DOMAIN saves
  PROVE  /\ i \in 1..Len(saves) /\ Len(saves) \in Nat /\ DOMAIN saves = 1..Len(saves)
         /\ saves \in Seq(Requests) /\ saves[i] \in Requests
         /\ saves[i].question \in Questions /\ saves[i].answer \in 1..inputs
<1>1. saves \in Seq(Requests)
  BY DEF SavesInv
<1>2. Len(saves) \in Nat /\ DOMAIN saves = 1..Len(saves) /\ saves[i] \in Requests
  BY <1>1, LenProperties
<1>3. saves[i] \in [question : Questions, answer : 1..inputs]
  BY DEF AnswersOK
<1>4. QED
  BY <1>1, <1>2, <1>3

\* A request that leaves the wire is handled or lost.
LEMMA RequestLeaves ==
  ASSUME ConstantsAssumption, AnswersOK, SavesInv, NEW i \in DOMAIN saves,
         SaveAnswer(i) \/ LoseSave(i)
  PROVE  AnswersOK' /\ SavesInv'
<1> DEFINE w == saves[i].question
           rs == RemoveAt(saves, i)
<1>1. /\ i \in 1..Len(saves) /\ Len(saves) \in Nat /\ DOMAIN saves = 1..Len(saves)
      /\ saves \in Seq(Requests) /\ w \in Questions /\ saves[i].answer \in 1..inputs
  BY AtItsPlace
<1>2. /\ rs \in Seq(Requests) /\ DOMAIN rs = 1..Len(saves) - 1
      /\ \A k \in 1..Len(saves) - 1 : rs[k] = saves[IF k < i THEN k ELSE k + 1]
  BY <1>1, RemoveAtElements
<1>3. saves' = rs /\ UNCHANGED <<draft, timer, inputs>>
  BY DEF SaveAnswer, LoseSave
<1>4. /\ atRisk' \in {atRisk, atRisk \union {w}}
      /\ \/ stored' = stored /\ atRisk' = atRisk \union {w}
         \/ /\ stored' = [stored EXCEPT ![w] = saves[i].answer]
            /\ w \notin atRisk' => \A j \in 1..Len(saves) : saves[j].question = w => j >= i
  <2>1. CASE LoseSave(i)
    BY <2>1, Zenon DEF LoseSave, serverVars
  <2>2. CASE SaveAnswer(i) /\ ~Answerable
    BY <2>2, Zenon DEF SaveAnswer
  <2>3. CASE SaveAnswer(i) /\ Answerable
    <3>1. /\ stored' = [stored EXCEPT ![w] = saves[i].answer]
          /\ atRisk' = IF \E j \in PendingSaves(w) : j < i THEN atRisk \union {w} ELSE atRisk
      BY <2>3, Zenon DEF SaveAnswer
    <3>2. w \notin atRisk' => \A j \in 1..Len(saves) : j < i => saves[j].question # w
      BY <1>1, <3>1 DEF PendingSaves
    <3>3. QED
      BY <1>1, <3>1, <3>2
  <2>4. QED
    BY <2>1, <2>2, <2>3
<1> HIDE DEF rs, w
<1>5. ASSUME NEW k \in DOMAIN rs
      PROVE  rs[k] \in [question : Questions, answer : 1..inputs]
  <2>1. (IF k < i THEN k ELSE k + 1) \in DOMAIN saves
    BY <1>1, <1>2
  <2>2. QED
    BY <1>2, <2>1 DEF AnswersOK
<1>6. stored' \in [Questions -> 0..inputs]
  <2>1. stored \in [Questions -> 0..inputs] /\ saves[i].answer \in 0..inputs
    BY <1>1 DEF AnswersOK
  <2> DEFINE a == saves[i].answer
  <2> HIDE DEF a
  <2>2. a \in 0..inputs /\ (stored' = stored \/ stored' = [stored EXCEPT ![w] = a])
    BY <1>4, <2>1, Zenon DEF a
  <2>3. QED
    BY <2>1, <2>2
<1>7. AnswersOK'
  BY <1>1, <1>3, <1>4, <1>5, <1>6 DEF AnswersOK
<1>8. ASSUME NEW q \in Questions, q \notin atRisk'
      PROVE  LeadsTo(rs, timer[q], stored'[q], draft[q], q)
  <2>1. q \notin atRisk /\ LeadsTo(saves, timer[q], stored[q], draft[q], q)
    BY <1>4, <1>8 DEF SavesInv, WillBeSaved
  <2>2. CASE w # q
    <3>1. stored'[q] = stored[q]
      BY <1>4, <2>2 DEF AnswersOK
    <3>2. LeadsTo(rs, timer[q], stored[q], draft[q], q)
      BY <1>1, <2>1, <2>2, RemovedLeads DEF rs, w
    <3>3. QED
      BY <3>1, <3>2
  <2>3. CASE w = q
    <3>1. /\ stored' = [stored EXCEPT ![q] = saves[i].answer]
          /\ \A j \in 1..Len(saves) : saves[j].question = q => j >= i
      BY <1>4, <1>8, <2>3
    <3>2. stored'[q] = saves[i].answer
      BY <3>1 DEF AnswersOK
    <3>3. LeadsTo(rs, timer[q], saves[i].answer, draft[q], q)
      BY <1>1, <2>1, <2>3, <3>1, RemovedLeads DEF rs, w
    <3>4. QED
      BY <3>2, <3>3
  <2>4. QED
    BY <2>2, <2>3
<1>9. OnlyTextWaits' /\ WillBeSaved'
  BY <1>3, <1>8 DEF OnlyTextWaits, WillBeSaved, SavesInv
<1>10. QED
  BY <1>2, <1>3, <1>7, <1>9 DEF SavesInv

\* An answer is given: a choice is sent at once, text waits.
LEMMA AnswerGiven ==
  ASSUME ConstantsAssumption, AnswersOK, SavesInv, NEW q \in Questions,
         HandleChoiceChange(q) \/ HandleTextChange(q)
  PROVE  AnswersOK' /\ SavesInv'
<1>1. /\ inputs \in Nat /\ inputs' = inputs + 1 /\ inputs' \in 1..MaxInputs
      /\ draft' = [draft EXCEPT ![q] = inputs'] /\ atRisk' = atRisk \ {q}
      /\ stored' = stored
  BY DEF HandleChoiceChange, HandleTextChange, HandleAnswer, AnswersOK, ConstantsAssumption, serverVars
<1>2. /\ stored \in [Questions -> 0..inputs'] /\ timer \in [Questions -> 0..inputs']
      /\ draft' \in [Questions -> 0..inputs'] /\ atRisk' \subseteq Questions
      /\ draft'[q] = inputs' /\ \A p \in Questions : p # q => draft'[p] = draft[p]
  BY <1>1 DEF AnswersOK
<1>3. \A i \in DOMAIN saves : saves[i] \in [question : Questions, answer : 1..inputs']
  BY <1>1 DEF AnswersOK
<1>4. saves \in Seq(Requests) /\ Len(saves) \in Nat /\ DOMAIN saves = 1..Len(saves)
  BY LenProperties DEF SavesInv
<1>5. CASE HandleChoiceChange(q)
  <2> DEFINE x == [question |-> q, answer |-> inputs']
  <2>1. /\ q \notin TextQuestions /\ timer' = timer /\ saves' = Append(saves, x)
    BY <1>5, Zenon DEF HandleChoiceChange, OffersChoice
  <2>2. x \in Requests /\ x \in [question : Questions, answer : 1..inputs'] /\ x.question = q /\ x.answer = inputs'
    BY <1>1 DEF Requests
  <2> HIDE DEF x
  <2>3. /\ saves' \in Seq(Requests) /\ DOMAIN saves' = 1..Len(saves) + 1
        /\ \A k \in 1..Len(saves) : saves'[k] = saves[k]
        /\ saves'[Len(saves) + 1] = x
    BY <1>4, <2>1, <2>2, AppendProperties
  <2>4. \A i \in DOMAIN saves' : saves'[i] \in [question : Questions, answer : 1..inputs']
    BY <1>3, <1>4, <2>2, <2>3
  <2>5. AnswersOK'
    BY <1>1, <1>2, <2>1, <2>4 DEF AnswersOK
  <2>6. timer[q] = 0
    BY <2>1 DEF SavesInv, OnlyTextWaits
  <2>7. ASSUME NEW p \in Questions, p \notin atRisk'
        PROVE  LeadsTo(saves', timer[p], stored[p], draft'[p], p)
    <3>1. CASE p = q
      BY <1>2, <1>4, <2>1, <2>2, <2>6, <3>1, AppendedLeads
    <3>2. CASE p # q
      <4>1. LeadsTo(saves, timer[p], stored[p], draft[p], p)
        BY <1>1, <2>7, <3>2 DEF SavesInv, WillBeSaved
      <4>2. QED
        BY <1>2, <1>4, <2>1, <2>2, <3>2, <4>1, AppendedLeads
    <3>3. QED
      BY <3>1, <3>2
  <2>8. OnlyTextWaits' /\ WillBeSaved'
    BY <1>1, <2>1, <2>7 DEF OnlyTextWaits, WillBeSaved, SavesInv
  <2>9. QED
    BY <2>3, <2>5, <2>8 DEF SavesInv
<1>6. CASE HandleTextChange(q)
  <2>1. q \in TextQuestions /\ saves' = saves /\ timer' = [timer EXCEPT ![q] = inputs']
    BY <1>6, Zenon DEF HandleTextChange, OffersText
  <2>2. /\ timer' \in [Questions -> 0..inputs'] /\ timer'[q] = inputs'
        /\ \A p \in Questions : p # q => timer'[p] = timer[p]
    BY <1>1, <1>2, <2>1
  <2>3. AnswersOK'
    BY <1>1, <1>2, <1>3, <2>1, <2>2 DEF AnswersOK
  <2>4. ASSUME NEW p \in Questions, p \notin atRisk'
        PROVE  LeadsTo(saves, timer'[p], stored[p], draft'[p], p)
    <3>1. CASE p = q
      BY <1>1, <1>2, <2>2, <3>1 DEF LeadsTo
    <3>2. CASE p # q
      <4>1. LeadsTo(saves, timer[p], stored[p], draft[p], p)
        BY <1>1, <2>4, <3>2 DEF SavesInv, WillBeSaved
      <4>2. QED
        BY <1>2, <2>2, <3>2, <4>1
    <3>3. QED
      BY <3>1, <3>2
  <2>5. OnlyTextWaits'
    BY <2>1, <2>2 DEF OnlyTextWaits, SavesInv
  <2>6. WillBeSaved'
    BY <1>1, <2>1, <2>4 DEF WillBeSaved
  <2>7. QED
    BY <1>4, <2>1, <2>3, <2>5, <2>6 DEF SavesInv
<1>7. QED
  BY <1>5, <1>6

LEMMA TimerFires ==
  ASSUME ConstantsAssumption, AnswersOK, SavesInv, NEW q \in Questions, SaveTimerFires(q)
  PROVE  AnswersOK' /\ SavesInv'
<1> DEFINE x == [question |-> q, answer |-> timer[q]]
<1>1. /\ timer[q] # 0 /\ saves' = Append(saves, x) /\ timer' = [timer EXCEPT ![q] = 0]
      /\ UNCHANGED <<stored, draft, inputs, atRisk>>
  BY DEF SaveTimerFires, serverVars
<1>2. timer[q] \in 1..inputs /\ inputs \in Nat
  BY <1>1 DEF AnswersOK
<1>3. x \in Requests /\ x \in [question : Questions, answer : 1..inputs] /\ x.question = q /\ x.answer = timer[q]
  BY <1>2 DEF Requests
<1> HIDE DEF x
<1>4. saves \in Seq(Requests) /\ Len(saves) \in Nat /\ DOMAIN saves = 1..Len(saves)
  BY LenProperties DEF SavesInv
<1>5. /\ saves' \in Seq(Requests) /\ DOMAIN saves' = 1..Len(saves) + 1
      /\ \A k \in 1..Len(saves) : saves'[k] = saves[k]
      /\ saves'[Len(saves) + 1] = x
  BY <1>1, <1>3, <1>4, AppendProperties
<1>6. \A i \in DOMAIN saves' : saves'[i] \in [question : Questions, answer : 1..inputs]
  BY <1>3, <1>4, <1>5 DEF AnswersOK
<1>7. /\ timer' \in [Questions -> 0..inputs] /\ timer'[q] = 0
      /\ \A p \in Questions : p # q => timer'[p] = timer[p]
  BY <1>1, <1>2 DEF AnswersOK
<1>8. AnswersOK'
  BY <1>1, <1>6, <1>7 DEF AnswersOK
<1>9. ASSUME NEW p \in Questions, p \notin atRisk
      PROVE  LeadsTo(saves', timer'[p], stored[p], draft[p], p)
  <2>1. LeadsTo(saves, timer[p], stored[p], draft[p], p)
    BY <1>9 DEF SavesInv, WillBeSaved
  <2>2. CASE p = q
    <3>1. draft[q] = timer[q]
      BY <1>1, <2>1, <2>2 DEF LeadsTo
    <3>2. QED
      BY <1>1, <1>3, <1>4, <1>7, <2>2, <3>1, AppendedLeads
  <2>3. CASE p # q
    BY <1>1, <1>3, <1>4, <1>7, <2>1, <2>3, AppendedLeads
  <2>4. QED
    BY <2>2, <2>3
<1>10. OnlyTextWaits' /\ WillBeSaved'
  BY <1>1, <1>7, <1>9 DEF OnlyTextWaits, WillBeSaved, SavesInv
<1>11. QED
  BY <1>5, <1>8, <1>10 DEF SavesInv

\* The page comes back with the stored answers; what was still on its way is at risk.
LEMMA PageComesBack ==
  ASSUME ConstantsAssumption, AnswersOK, SavesInv,
         NavigateAway \/ \E kept \in 0..Len(saves) : Reload(kept)
  PROVE  AnswersOK' /\ SavesInv'
<1>1. saves \in Seq(Requests) /\ Len(saves) \in Nat /\ DOMAIN saves = 1..Len(saves)
  BY LenProperties DEF SavesInv
<1>2. /\ draft' = stored /\ stored' = stored /\ inputs' = inputs
      /\ atRisk' = {q \in Questions : (\E i \in DOMAIN saves' : saves'[i].question = q) \/ timer'[q] # 0}
  BY Zenon DEF NavigateAway, Reload, ComeBack, serverVars
<1>3. /\ saves' \in Seq(Requests) /\ timer' \in [Questions -> 0..inputs]
      /\ \A i \in DOMAIN saves' : saves'[i] \in [question : Questions, answer : 1..inputs]
      /\ OnlyTextWaits'
  <2>1. CASE NavigateAway
    BY <1>1, <2>1 DEF NavigateAway, AnswersOK, SavesInv, OnlyTextWaits
  <2>2. ASSUME NEW kept \in 0..Len(saves), Reload(kept)
        PROVE  /\ saves' \in Seq(Requests) /\ timer' \in [Questions -> 0..inputs]
               /\ \A i \in DOMAIN saves' : saves'[i] \in [question : Questions, answer : 1..inputs]
               /\ OnlyTextWaits'
    <3>1. saves' = SubSeq(saves, 1, kept) /\ timer' = [q \in Questions |-> 0]
      BY <2>2 DEF Reload
    <3>2. \A k \in 1..kept : saves[k] \in Requests
      BY <1>1, LenProperties
    <3>3. /\ saves' \in Seq(Requests) /\ DOMAIN saves' = 1..kept
          /\ \A k \in 1..kept : saves'[k] = saves[k]
      <4>1. 1 \in Int /\ kept \in Int /\ kept >= 0
        BY <1>1
      <4>2. /\ saves' \in Seq(Requests) /\ Len(saves') = IF 1 <= kept THEN kept - 1 + 1 ELSE 0
            /\ \A k \in 1..kept - 1 + 1 : saves'[k] = saves[1 + k - 1]
        BY <3>1, <3>2, <4>1, SubSeqProperties
      <4>3. DOMAIN saves' = 1..Len(saves')
        BY <4>2, LenProperties
      <4>4. QED
        BY <4>1, <4>2, <4>3
    <3>4. QED
      BY <1>1, <3>1, <3>3 DEF AnswersOK, OnlyTextWaits
  <2>3. QED
    BY <2>1, <2>2
<1>4. AnswersOK'
  BY <1>2, <1>3 DEF AnswersOK
<1>5. WillBeSaved'
  BY <1>2 DEF WillBeSaved, LeadsTo
<1>6. QED
  BY <1>3, <1>4, <1>5 DEF SavesInv

\* A violation is reported; it counts as an input.
LEMMA ReportGoes ==
  ASSUME ConstantsAssumption, AnswersOK, SavesInv, NEW r \in Reports, ExitFullscreen(r) \/ LoseFocus(r)
  PROVE  AnswersOK' /\ SavesInv'
<1>1. UNCHANGED <<stored, draft, timer, saves, atRisk>>
  BY DEF ExitFullscreen, LoseFocus, serverVars
<1>2. inputs' \in {inputs, inputs + 1} /\ inputs' \in 0..MaxInputs /\ inputs \in Nat
  BY DEF ExitFullscreen, LoseFocus, ReportViolation, AnswersOK, ConstantsAssumption
<1>3. AnswersOK'
  BY <1>1, <1>2 DEF AnswersOK
<1>4. SavesInv'
  BY <1>1 DEF SavesInv, OnlyTextWaits, WillBeSaved, LeadsTo
<1>5. QED
  BY <1>3, <1>4

\* Every other step leaves the answers alone.
OtherSteps ==
  \/ \E r \in Reports : RecordViolation(r) \/ LockAnswerArrives(r) \/ LoseReport(r)
  \/ \E k \in Submitters :
       \/ SubmitAttempt(k) \/ CloseAttempt(k) \/ FailSubmit(k) \/ SubmitRefused(k)
       \/ Refresh(k) \/ RefreshRefused(k) \/ LoseSubmission(k)
  \/ SubmitLeft \/ StartAgain \/ UnlockAttempt \/ DeadlinePasses
  \/ EnterFullscreen \/ (\E q \in Questions : HandleRun(q))
  \/ HandleSubmitClick \/ CountdownEnds \/ Realtime

LEMMA OthersKeepAnswers ==
  ASSUME OtherSteps
  PROVE  UNCHANGED <<stored, answerVars>>
BY Zenon DEF OtherSteps, Realtime, RecordViolation, LockAnswerArrives, LoseReport, SubmitAttempt,
  CloseAttempt, FailSubmit, SubmitRefused, Refresh, RefreshRefused, LoseSubmission, SubmitLeft, StartAgain, UnlockAttempt,
  DeadlinePasses, EnterFullscreen, HandleRun, HandleSubmitClick, CountdownEnds, HandleSubmit,
  JoinRoom, Disconnect, Relay, DropEvent, serverVars

LEMMA AnswersStep ==
  ASSUME ConstantsAssumption, AnswersOK, SavesInv, [Next]_vars
  PROVE  AnswersOK' /\ SavesInv'
<1>1. CASE UNCHANGED <<stored, answerVars>>
  <2>1. AnswersOK'
    BY <1>1 DEF AnswersOK, answerVars
  <2>2. QED
    BY <1>1, <2>1, QuietSteps
<1>2. CASE \E i \in DOMAIN saves : SaveAnswer(i) \/ LoseSave(i)
  BY <1>2, RequestLeaves
<1>3. CASE \E q \in Questions : HandleChoiceChange(q) \/ HandleTextChange(q) \/ SaveTimerFires(q)
  BY <1>3, AnswerGiven, TimerFires
<1>4. CASE NavigateAway \/ \E kept \in 0..Len(saves) : Reload(kept)
  BY <1>4, PageComesBack
<1>5. CASE \E r \in Reports : ExitFullscreen(r) \/ LoseFocus(r)
  BY <1>5, ReportGoes
<1>6. CASE OtherSteps
  BY <1>1, <1>6, OthersKeepAnswers
<1>7. CASE UNCHANGED vars
  BY <1>1, <1>7 DEF vars, serverVars
<1>8. QED
  <2>1. Next =>
          \/ \E i \in DOMAIN saves : SaveAnswer(i) \/ LoseSave(i)
          \/ \E q \in Questions : HandleChoiceChange(q) \/ HandleTextChange(q) \/ SaveTimerFires(q)
          \/ NavigateAway \/ \E kept \in 0..Len(saves) : Reload(kept)
          \/ \E r \in Reports : ExitFullscreen(r) \/ LoseFocus(r)
          \/ OtherSteps
    BY Zenon DEF Next, Server, Student, OtherSteps
  <2>2. QED
    BY <1>2, <1>3, <1>4, <1>5, <1>6, <1>7, <2>1

-----------------------------------------------------------------------------
(* The steps of the lock and the rest.                                     *)

\* The page is updated in one field or in some.
LEMMA PageUpdates ==
  ASSUME NEW p \in Pages, NEW b \in BOOLEAN, NEW c \in BOOLEAN, NEW d \in BOOLEAN
  PROVE  /\ LET n == [p EXCEPT !.doubt = b]
            IN  n \in Pages /\ n.doubt = b /\ n.locked = p.locked
         /\ LET n == [p EXCEPT !.locked = b, !.doubt = c]
            IN  n \in Pages /\ n.doubt = c /\ n.locked = b
         /\ LET n == [p EXCEPT !.fullscreen = b]
            IN  n \in Pages /\ n.doubt = p.doubt /\ n.locked = p.locked
         /\ LET n == [p EXCEPT !.submitting = b]
            IN  n \in Pages /\ n.doubt = p.doubt /\ n.locked = p.locked
         /\ LET n == [p EXCEPT !.error = b]
            IN  n \in Pages /\ n.doubt = p.doubt /\ n.locked = p.locked
         /\ LET n == [p EXCEPT !.unheard = b]
            IN  n \in Pages /\ n.doubt = p.doubt /\ n.locked = p.locked
         /\ LET n == [p EXCEPT !.stale = b]
            IN  n \in Pages /\ n.doubt = p.doubt /\ n.locked = p.locked
         /\ LET n == [p EXCEPT !.submitting = b, !.error = c, !.autoSubmitted = d]
            IN  n \in Pages /\ n.doubt = p.doubt /\ n.locked = p.locked
         /\ LET n == [p EXCEPT !.locked = b, !.inProgress = c]
            IN  n \in Pages /\ n.doubt = p.doubt /\ n.locked = b
<1>1. LET n == [p EXCEPT !.doubt = b]
     IN  n \in Pages /\ n.doubt = b /\ n.locked = p.locked
  BY DEF Pages, NewPage
<1>2. LET n == [p EXCEPT !.locked = b, !.doubt = c]
     IN  n \in Pages /\ n.doubt = c /\ n.locked = b
  BY DEF Pages, NewPage
<1>3. LET n == [p EXCEPT !.fullscreen = b]
     IN  n \in Pages /\ n.doubt = p.doubt /\ n.locked = p.locked
  BY DEF Pages, NewPage
<1>4. LET n == [p EXCEPT !.submitting = b]
     IN  n \in Pages /\ n.doubt = p.doubt /\ n.locked = p.locked
  BY DEF Pages, NewPage
<1>5. LET n == [p EXCEPT !.error = b]
     IN  n \in Pages /\ n.doubt = p.doubt /\ n.locked = p.locked
  BY DEF Pages, NewPage
<1>6. LET n == [p EXCEPT !.unheard = b]
     IN  n \in Pages /\ n.doubt = p.doubt /\ n.locked = p.locked
  BY DEF Pages, NewPage
<1>7. LET n == [p EXCEPT !.stale = b]
     IN  n \in Pages /\ n.doubt = p.doubt /\ n.locked = p.locked
  BY DEF Pages, NewPage
<1>8. LET n == [p EXCEPT !.submitting = b, !.error = c, !.autoSubmitted = d]
     IN  n \in Pages /\ n.doubt = p.doubt /\ n.locked = p.locked
  BY DEF Pages, NewPage
<1>9. LET n == [p EXCEPT !.locked = b, !.inProgress = c]
     IN  n \in Pages /\ n.doubt = p.doubt /\ n.locked = b
  BY DEF Pages, NewPage
<1>10. QED
  BY <1>1, <1>2, <1>3, <1>4, <1>5, <1>6, <1>7, <1>8, <1>9

\* The page is loaded.
LEMMA LoadedPage ==
  ASSUME NEW b \in BOOLEAN, attempt.locked \in BOOLEAN, unlocks \in Nat
  PROVE  LoadPage(b) \in Pages /\ LoadPage(b).doubt = (unlocks > 0) /\ LoadPage(b).locked = attempt.locked
<1>1. PICK w \in BOOLEAN : w = (attempt.status = "in_progress")
  BY Zenon
<1>2. PICK u \in BOOLEAN : u = (unlocks > 0)
  <2>1. (unlocks > 0) = TRUE \/ (unlocks > 0) = FALSE
    OBVIOUS
  <2>2. QED
    BY <2>1, Zenon
<1>3. PICK c \in BOOLEAN : c = attempt.locked
  BY Zenon
<1>4. PICK p \in Pages : p = NewPage
  BY Zenon DEF Pages, NewPage
<1> DEFINE n == [p EXCEPT !.inProgress = w, !.locked = c, !.fullscreen = b, !.doubt = u]
<1>5. LoadPage(b) = n
  BY <1>1, <1>2, <1>3, <1>4, Zenon DEF LoadPage
<1>6. n \in Pages /\ n.doubt = u /\ n.locked = c
  BY DEF Pages
<1> HIDE DEF n
<1>7. QED
  BY <1>2, <1>3, <1>5, <1>6, Zenon

\* The attempt is closed, locked or unlocked.
LEMMA AttemptUpdates ==
  ASSUME NEW a \in Attempts, NEW v \in {"in_progress"} \union Verdicts, NEW b \in BOOLEAN
  PROVE  /\ LET n == [a EXCEPT !.status = v] IN n \in Attempts /\ n.locked = a.locked
         /\ LET n == [a EXCEPT !.locked = b] IN n \in Attempts /\ n.locked = b
         /\ a.locked \in BOOLEAN
BY DEF Attempts

LEMMA ExpireKeeps ==
  ASSUME attempt \in Attempts, Expire
  PROVE  attempt' \in Attempts /\ attempt'.locked = attempt.locked
<1>1. attempt' = attempt \/ attempt' = [attempt EXCEPT !.status = "auto_submitted"]
  BY DEF Expire
<1>2. "auto_submitted" \in {"in_progress"} \union Verdicts
  BY DEF Verdicts
<1>3. [attempt EXCEPT !.status = "auto_submitted"] \in Attempts
      /\ [attempt EXCEPT !.status = "auto_submitted"].locked = attempt.locked
  BY <1>2, AttemptUpdates
<1>4. QED
  BY <1>1, <1>3

\* The page doubts from now on if x, and takes over a lock or its end.
LEMMA DoubtGrows ==
  ASSUME NEW p \in Pages, NEW x
  PROVE  LET n == [p EXCEPT !.doubt = @ \/ x]
         IN  n \in Pages /\ n.locked = p.locked /\ (~n.doubt => ~p.doubt /\ ~x)
<1>1. PICK b \in BOOLEAN : b = (p.doubt \/ x)
  BY Zenon
<1>2. [p EXCEPT !.doubt = @ \/ x] = [p EXCEPT !.doubt = b]
  BY <1>1, Zenon
<1> DEFINE n == [p EXCEPT !.doubt = b]
<1>3. n \in Pages /\ n.doubt = b /\ n.locked = p.locked
  BY DEF Pages
<1> HIDE DEF n
<1>4. QED
  BY <1>1, <1>2, <1>3, Zenon DEF n

LEMMA LockTaken ==
  ASSUME NEW p \in Pages, NEW x, NEW l \in BOOLEAN
  PROVE  LET n == [p EXCEPT !.locked = l, !.doubt = @ \/ x]
         IN  n \in Pages /\ n.locked = l /\ (~n.doubt => ~p.doubt /\ ~x)
<1>1. PICK b \in BOOLEAN : b = (p.doubt \/ x)
  BY Zenon
<1>2. [p EXCEPT !.locked = l, !.doubt = @ \/ x] = [p EXCEPT !.locked = l, !.doubt = b]
  BY <1>1, Zenon
<1> DEFINE n == [p EXCEPT !.locked = l, !.doubt = b]
<1>3. n \in Pages /\ n.doubt = b /\ n.locked = l
  BY DEF Pages
<1> HIDE DEF n
<1>4. QED
  BY <1>1, <1>2, <1>3, Zenon DEF n

\* The page and the row are no less agreed about the lock than they were.
LEMMA LockUntouched ==
  ASSUME LockIsKnown, page'.locked = page.locked, page'.doubt = page.doubt,
         attempt'.locked = attempt.locked, unlocks' = unlocks,
         \A r \in Reports : reports[r] = "answered" => reports'[r] = "answered"
  PROVE  LockIsKnown'
BY Zenon DEF LockIsKnown

\* A report goes on to another place.
LEMMA ReportMoves ==
  ASSUME RestOK, NEW r \in Reports, NEW v \in {"free", "sent", "answered", "orphan"},
         reports' = [reports EXCEPT ![r] = v]
  PROVE  /\ reports' \in [Reports -> {"free", "sent", "answered", "orphan"}]
         /\ reports'[r] = v /\ \A s \in Reports : s # r => reports'[s] = reports[s]
BY DEF RestOK

\* What the row and the page are.
LEMMA RestParts ==
  ASSUME RestOK
  PROVE  /\ attempt \in Attempts /\ attempt.locked \in BOOLEAN
         /\ page \in Pages /\ page.locked \in BOOLEAN /\ page.fullscreen \in BOOLEAN
<1>1. attempt \in Attempts /\ page \in Pages
  BY Zenon DEF RestOK, Attempts
<1>2. QED
  BY <1>1, PageFields, AttemptUpdates, Zenon DEF Attempts

-----------------------------------------------------------------------------
\* The rows may be closed or expire: the lock stays.
RowSteps ==
  \/ \E i \in DOMAIN saves : SaveAnswer(i) \/ LoseSave(i)
  \/ \E k \in Submitters : SubmitAttempt(k) \/ CloseAttempt(k) \/ FailSubmit(k)
  \/ SubmitLeft \/ StartAgain \/ DeadlinePasses
  \/ \E q \in Questions : HandleRun(q) \/ HandleChoiceChange(q) \/ HandleTextChange(q) \/ SaveTimerFires(q)

LEMMA RowStep ==
  ASSUME RestOK, LockIsKnown, RowSteps
  PROVE  RestOK' /\ LockIsKnown'
<1>1. attempt \in Attempts
  BY RestParts
<1>2. UNCHANGED <<page, loads, reports, unlocks, room>>
  BY Zenon DEF RowSteps, SaveAnswer, LoseSave, SubmitAttempt, CloseAttempt, FailSubmit, SubmitLeft,
     StartAgain, DeadlinePasses, HandleRun, HandleChoiceChange, HandleTextChange, SaveTimerFires,
     pageVars, requestVars, wireVars
<1>3. /\ \/ attempt' = attempt
         \/ Expire
         \/ \E v \in {"in_progress"} \union Verdicts : attempt' = [attempt EXCEPT !.status = v]
      /\ overdue' \in {overdue, TRUE} /\ left' \in {left, FALSE}
      /\ \/ submission' = submission
         \/ \E k \in Submitters : \E v \in {"accepted", "refused"} \union Verdicts :
              submission' = [submission EXCEPT ![k] = v]
  <2>1. CASE \E i \in DOMAIN saves : SaveAnswer(i) \/ LoseSave(i)
    BY <2>1, Zenon DEF SaveAnswer, LoseSave, serverVars, requestVars
  <2>2. ASSUME NEW k \in Submitters, SubmitAttempt(k)
        PROVE  <1>3
    <3>1. SubmitVerdict \in {"accepted", "refused"} \union Verdicts
      BY DEF SubmitVerdict, Verdicts
    <3>2. QED
      BY <2>2, <3>1, Zenon DEF SubmitAttempt, serverVars
  <2>3. ASSUME NEW k \in Submitters, CloseAttempt(k)
        PROVE  <1>3
    BY <2>3, Zenon DEF CloseAttempt
  <2>4. CASE SubmitLeft
    BY <2>4, Zenon DEF SubmitLeft
  <2>5. CASE StartAgain \/ DeadlinePasses
    BY <2>5, Zenon DEF StartAgain, DeadlinePasses, requestVars
  <2>6. CASE \E q \in Questions : HandleRun(q) \/ HandleChoiceChange(q) \/ HandleTextChange(q) \/ SaveTimerFires(q)
    BY <2>6, Zenon DEF HandleRun, HandleChoiceChange, HandleTextChange, SaveTimerFires, serverVars, requestVars
  <2>7. ASSUME NEW k \in Submitters, FailSubmit(k)
        PROVE  <1>3
    BY <2>7, Zenon DEF FailSubmit, serverVars
  <2>8. QED
    BY <2>1, <2>2, <2>3, <2>4, <2>5, <2>6, <2>7 DEF RowSteps
<1>4. attempt' \in Attempts /\ attempt'.locked = attempt.locked
  <2>1. CASE Expire
    BY <1>1, <2>1, ExpireKeeps
  <2>2. ASSUME NEW v \in {"in_progress"} \union Verdicts, attempt' = [attempt EXCEPT !.status = v]
        PROVE  <1>4
    BY <1>1, <2>2, AttemptUpdates
  <2>3. QED
    BY <1>1, <1>3, <2>1, <2>2
<1>5. submission' \in [Submitters -> {"idle", "sent", "accepted", "refused"} \union Verdicts]
  BY <1>3 DEF RestOK
<1>6. RestOK'
  BY <1>2, <1>3, <1>4, <1>5, Zenon DEF RestOK, Attempts
<1>7. LockIsKnown'
  BY <1>2, <1>4, LockUntouched, Zenon
<1>8. QED
  BY <1>6, <1>7

\* The page is in use, or one of its submissions settles.
LEMMA PageStep ==
  ASSUME RestOK, LockIsKnown,
         \/ EnterFullscreen \/ HandleSubmitClick \/ CountdownEnds
         \/ \E k \in Submitters : SubmitRefused(k) \/ RefreshRefused(k) \/ LoseSubmission(k)
  PROVE  RestOK' /\ LockIsKnown'
<1>1. /\ UNCHANGED <<attempt, overdue, loads, reports, left, unlocks, room>>
      /\ \/ submission' = submission
         \/ \E k \in Submitters : \E v \in {"idle", "sent"} : submission' = [submission EXCEPT ![k] = v]
  BY Zenon DEF EnterFullscreen, HandleSubmitClick, CountdownEnds, HandleSubmit, SubmitRefused,
     RefreshRefused, LoseSubmission, Settle, serverVars, requestVars, wireVars, Submitters
<1>2. page \in Pages /\ page.autoSubmitted \in BOOLEAN
  BY RestParts, PageFields, Zenon
<1>3. page' \in Pages /\ page'.locked = page.locked /\ page'.doubt = page.doubt
  <2>1. CASE EnterFullscreen
    <3>1. page' = [page EXCEPT !.fullscreen = TRUE]
      BY <2>1, Zenon DEF EnterFullscreen
    <3>2. QED
      BY <1>2, <3>1, PageUpdates
  <2>2. CASE HandleSubmitClick \/ CountdownEnds
    <3>1. PICK b \in BOOLEAN : page' = [page EXCEPT !.submitting = TRUE, !.error = FALSE, !.autoSubmitted = b]
      BY <1>2, <2>2, Zenon DEF HandleSubmitClick, CountdownEnds, HandleSubmit
    <3>2. QED
      BY <1>2, <3>1 DEF Pages
  <2>3. ASSUME NEW k \in Submitters, SubmitRefused(k)
        PROVE  <1>3
    <3> DEFINE p == [page EXCEPT !.error = TRUE]
    <3>1. p \in Pages /\ p.doubt = page.doubt /\ p.locked = page.locked
      BY <1>2, PageUpdates
    <3>2. page' = [p EXCEPT !.submitting = FALSE]
      BY <2>3, Zenon DEF SubmitRefused, Settle
    <3> HIDE DEF p
    <3>3. QED
      BY <3>1, <3>2, PageUpdates
  <2>4. ASSUME NEW k \in Submitters, LoseSubmission(k)
        PROVE  <1>3
    <3> DEFINE p == [page EXCEPT !.unheard = TRUE]
    <3>1. p \in Pages /\ p.doubt = page.doubt /\ p.locked = page.locked
      BY <1>2, PageUpdates
    <3>2. page' = [p EXCEPT !.submitting = FALSE]
      BY <2>4, Zenon DEF LoseSubmission, Settle
    <3> HIDE DEF p
    <3>3. QED
      BY <3>1, <3>2, PageUpdates
  <2>5. ASSUME NEW k \in Submitters, RefreshRefused(k)
        PROVE  <1>3
    <3> DEFINE p == [page EXCEPT !.stale = TRUE]
    <3>1. p \in Pages /\ p.doubt = page.doubt /\ p.locked = page.locked
      BY <1>2, PageUpdates
    <3>2. page' = [p EXCEPT !.submitting = FALSE]
      BY <2>5, Zenon DEF RefreshRefused, Settle
    <3> HIDE DEF p
    <3>3. QED
      BY <3>1, <3>2, PageUpdates
  <2>6. QED
    BY <2>1, <2>2, <2>3, <2>4, <2>5
<1>4. submission' \in [Submitters -> {"idle", "sent", "accepted", "refused"} \union Verdicts]
  BY <1>1 DEF RestOK
<1>5. RestOK'
  BY <1>1, <1>3, <1>4, Zenon DEF RestOK
<1>6. LockIsKnown'
  BY <1>1, <1>3, LockUntouched, Zenon
<1>7. QED
  BY <1>5, <1>6

\* A violation is handled: what locks the attempt is on its way to the page, or
\* the page that asked is gone.
LEMMA ViolationStep ==
  ASSUME RestOK, LockIsKnown, NEW r \in Reports, RecordViolation(r)
  PROVE  RestOK' /\ LockIsKnown'
<1>1. /\ attempt \in Attempts /\ page \in Pages /\ reports[r] \in {"sent", "orphan"}
      /\ UNCHANGED <<overdue, loads, submission, left, unlocks, room>>
  BY RestParts, Zenon DEF RecordViolation, wireVars
<1>2. CASE Answerable
  <2>1. /\ attempt' = [attempt EXCEPT !.locked = TRUE]
        /\ reports' = [reports EXCEPT ![r] = IF reports[r] = "sent" THEN "answered" ELSE "free"]
        /\ page' = [page EXCEPT !.doubt = @ \/ reports[r] = "orphan"]
    BY <1>2, Zenon DEF RecordViolation
  <2>2. attempt' \in Attempts /\ attempt'.locked = TRUE
    BY <1>1, <2>1, AttemptUpdates
  <2>3. page' \in Pages /\ page'.locked = page.locked /\ (~page'.doubt => ~page.doubt /\ reports[r] # "orphan")
    BY <1>1, <2>1, DoubtGrows, Zenon
  <2>4. /\ reports' \in [Reports -> {"free", "sent", "answered", "orphan"}]
        /\ reports[r] # "orphan" => reports'[r] = "answered"
    BY <1>1, <2>1 DEF RestOK
  <2>5. RestOK'
    BY <1>1, <2>2, <2>3, <2>4, Zenon DEF RestOK, Attempts
  <2>6. LockIsKnown'
    BY <2>2, <2>3, <2>4, Zenon DEF LockIsKnown
  <2>7. QED
    BY <2>5, <2>6
<1>3. CASE ~Answerable
  <2>1. Expire /\ reports' = [reports EXCEPT ![r] = "free"] /\ page' = page
    BY <1>3, Zenon DEF RecordViolation
  <2>2. attempt' \in Attempts /\ attempt'.locked = attempt.locked
    BY <1>1, <2>1, ExpireKeeps
  <2>3. /\ reports' \in [Reports -> {"free", "sent", "answered", "orphan"}]
        /\ \A s \in Reports : s # r => reports'[s] = reports[s]
    BY <2>1, ReportMoves
  <2>4. \A s \in Reports : reports[s] = "answered" => reports'[s] = "answered"
    BY <1>1, <2>3
  <2>5. RestOK'
    BY <1>1, <2>1, <2>2, <2>3, Zenon DEF RestOK, Attempts
  <2>6. LockIsKnown'
    BY <1>1, <2>1, <2>2, <2>4, LockUntouched, Zenon
  <2>7. QED
    BY <2>5, <2>6
<1>4. QED
  BY <1>2, <1>3

\* The answer of a report reaches the page, or is lost.
LEMMA AnswerStep ==
  ASSUME RestOK, LockIsKnown, NEW r \in Reports, LockAnswerArrives(r) \/ LoseReport(r)
  PROVE  RestOK' /\ LockIsKnown'
<1>1. /\ attempt \in Attempts /\ attempt.locked \in BOOLEAN /\ page \in Pages
      /\ UNCHANGED <<attempt, overdue, loads, submission, left, unlocks, room>>
      /\ reports' = [reports EXCEPT ![r] = "free"]
  BY RestParts, Zenon DEF LockAnswerArrives, LoseReport, wireVars, serverVars
<1>2. /\ reports' \in [Reports -> {"free", "sent", "answered", "orphan"}]
      /\ \A s \in Reports : s # r => reports'[s] = reports[s]
  BY <1>1, ReportMoves
<1>3. page' \in Pages /\ LockIsKnown'
  <2>1. CASE LockAnswerArrives(r)
    <3>1. page' = [page EXCEPT !.locked = TRUE, !.doubt = @ \/ ~attempt.locked]
      BY <2>1, Zenon DEF LockAnswerArrives
    <3>2. page' \in Pages /\ page'.locked = TRUE /\ (~page'.doubt => ~page.doubt /\ attempt.locked)
      BY <1>1, <3>1, LockTaken, Zenon
    <3>3. QED
      BY <1>1, <3>2, Zenon DEF LockIsKnown
  <2>2. CASE LoseReport(r)
    <3>1. page' = [page EXCEPT !.doubt = @ \/ reports[r] = "answered"]
      BY <2>2, Zenon DEF LoseReport
    <3>2. page' \in Pages /\ page'.locked = page.locked /\ (~page'.doubt => ~page.doubt /\ reports[r] # "answered")
      BY <1>1, <3>1, DoubtGrows, Zenon
    <3>3. QED
      BY <1>1, <1>2, <3>2, Zenon DEF LockIsKnown
  <2>3. QED
    BY <2>1, <2>2
<1>4. RestOK'
  BY <1>1, <1>2, <1>3, Zenon DEF RestOK
<1>5. QED
  BY <1>3, <1>4

\* A report is sent: none that is answered goes away.
LEMMA ReportStep ==
  ASSUME RestOK, LockIsKnown, NEW r \in Reports, ExitFullscreen(r) \/ LoseFocus(r)
  PROVE  RestOK' /\ LockIsKnown'
<1>1. /\ page \in Pages
      /\ UNCHANGED <<attempt, overdue, loads, submission, left, unlocks, room>>
      /\ page' = page \/ page' = [page EXCEPT !.fullscreen = FALSE]
  BY RestParts, Zenon DEF ExitFullscreen, LoseFocus, wireVars, serverVars, pageVars
<1>2. page' \in Pages /\ page'.locked = page.locked /\ page'.doubt = page.doubt
  <2>1. CASE page' = page
    BY <1>1, <2>1
  <2>2. CASE page' = [page EXCEPT !.fullscreen = FALSE]
    BY <1>1, <2>2, PageUpdates
  <2>3. QED
    BY <1>1, <2>1, <2>2
<1>3. /\ reports' \in [Reports -> {"free", "sent", "answered", "orphan"}]
      /\ \A s \in Reports : reports[s] = "answered" => reports'[s] = "answered"
  <2>1. reports[r] = "free" /\ (reports' = reports \/ reports' = [reports EXCEPT ![r] = "sent"])
    BY Zenon DEF ExitFullscreen, LoseFocus, ReportViolation
  <2>2. QED
    BY <2>1 DEF RestOK
<1>4. RestOK'
  BY <1>1, <1>2, <1>3, Zenon DEF RestOK
<1>5. LockIsKnown'
  BY <1>1, <1>2, <1>3, LockUntouched, Zenon
<1>6. QED
  BY <1>4, <1>5

\* The page is loaded: it shows the lock as it is, and doubts it while an event
\* is on its way.
LEMMA LoadStep ==
  ASSUME ConstantsAssumption, RestOK, NavigateAway \/ \E kept \in 0..Len(saves) : Reload(kept)
  PROVE  RestOK' /\ LockIsKnown'
<1>1. PICK b \in BOOLEAN : ComeBack(b)
  BY RestParts, Zenon DEF NavigateAway, Reload
<1>2. /\ UNCHANGED <<attempt, overdue, unlocks>> /\ page' = LoadPage(b)
      /\ loads < MaxLoads /\ loads' = loads + 1 /\ room' = FALSE
      /\ reports' = [r \in Reports |-> IF reports[r] \in {"sent", "orphan"} THEN "orphan" ELSE "free"]
      /\ submission' = [k \in Submitters |-> "idle"]
      /\ left' = (left \/ \E k \in Submitters : submission[k] = "sent")
  BY <1>1, Zenon DEF ComeBack, serverVars
<1>3. unlocks \in Nat /\ attempt.locked \in BOOLEAN
  BY RestParts DEF RestOK, ConstantsAssumption
<1>4. page' \in Pages /\ page'.doubt = (unlocks > 0) /\ page'.locked = attempt.locked
  BY <1>2, <1>3, LoadedPage, Zenon
<1>5. loads' \in 1..MaxLoads
  BY <1>2 DEF RestOK, ConstantsAssumption
<1>6. /\ reports' \in [Reports -> {"free", "sent", "answered", "orphan"}]
      /\ submission' \in [Submitters -> {"idle", "sent", "accepted", "refused"} \union Verdicts]
  BY <1>2
<1>7. left' \in BOOLEAN
  BY <1>2, Zenon
<1>8. RestOK'
  BY <1>2, <1>4, <1>5, <1>6, <1>7, Zenon DEF RestOK
<1>9. LockIsKnown'
  BY <1>2, <1>4, Zenon DEF LockIsKnown
<1>10. QED
  BY <1>8, <1>9

\* GET attempt, after an accepted submission: the page shows the row.
LEMMA RefreshStep ==
  ASSUME RestOK, NEW k \in Submitters, Refresh(k)
  PROVE  RestOK' /\ LockIsKnown'
<1>1. /\ UNCHANGED <<attempt, overdue, reports, left, unlocks, loads>>
      /\ room' = (room /\ attempt.status = "in_progress")
      /\ submission' = [submission EXCEPT ![k] = "idle"]
      /\ attempt.locked \in BOOLEAN /\ page \in Pages
  BY RestParts, Zenon DEF Refresh, Settle, serverVars
<1>2. PICK w \in BOOLEAN : w = (attempt.status = "in_progress")
  BY Zenon
<1> DEFINE p == [page EXCEPT !.locked = attempt.locked, !.inProgress = w]
<1>3. p \in Pages /\ p.locked = attempt.locked
  BY <1>1 DEF Pages
<1>4. page' = [p EXCEPT !.submitting = FALSE]
  BY <1>2, Zenon DEF Refresh, Settle
<1> HIDE DEF p
<1>5. page' \in Pages /\ page'.locked = attempt.locked
  BY <1>3, <1>4, PageUpdates
<1>6. submission' \in [Submitters -> {"idle", "sent", "accepted", "refused"} \union Verdicts]
  BY <1>1 DEF RestOK
<1>7. room' \in BOOLEAN
  BY <1>1, Zenon
<1>8. RestOK'
  BY <1>1, <1>5, <1>6, <1>7, Zenon DEF RestOK
<1>9. LockIsKnown'
  BY <1>1, <1>5, Zenon DEF LockIsKnown
<1>10. QED
  BY <1>8, <1>9

\* An unlock, its event, and the room the event is relayed to.
LEMMA EventStep ==
  ASSUME ConstantsAssumption, RestOK, LockIsKnown, UnlockAttempt \/ Realtime
  PROVE  RestOK' /\ LockIsKnown'
<1>1. /\ UNCHANGED <<overdue, loads, reports, submission, left>>
      /\ attempt \in Attempts /\ attempt.locked \in BOOLEAN /\ page \in Pages
  BY RestParts, Zenon DEF UnlockAttempt, Realtime, JoinRoom, Disconnect, Relay, DropEvent,
     requestVars, pageVars, serverVars
<1>2. unlocks \in 0..MaxUnlocks /\ MaxUnlocks \in Nat
  BY DEF RestOK, ConstantsAssumption
<1>3. CASE UnlockAttempt
  <2>1. /\ attempt' = [attempt EXCEPT !.locked = FALSE] /\ unlocks' = unlocks + 1 /\ unlocks < MaxUnlocks
        /\ UNCHANGED <<page, room>>
    BY <1>3, Zenon DEF UnlockAttempt, pageVars
  <2>2. attempt' \in Attempts
    BY <1>1, <2>1, AttemptUpdates
  <2>3. unlocks' \in 0..MaxUnlocks /\ unlocks' # 0
    BY <1>2, <2>1
  <2>4. QED
    BY <1>1, <2>1, <2>2, <2>3, Zenon DEF RestOK, LockIsKnown, Attempts
<1>4. CASE JoinRoom \/ Disconnect
  <2>1. room' \in BOOLEAN /\ UNCHANGED <<attempt, page, unlocks>>
    BY <1>4, Zenon DEF JoinRoom, Disconnect, serverVars, pageVars
  <2>2. QED
    BY <1>1, <2>1, Zenon DEF RestOK, LockIsKnown
<1>5. CASE Relay \/ DropEvent
  <2>1. unlocks > 0 /\ unlocks' = unlocks - 1 /\ UNCHANGED <<attempt, room>>
    BY <1>5, Zenon DEF Relay, DropEvent, serverVars
  <2>2. unlocks' \in 0..MaxUnlocks
    BY <1>2, <2>1
  <2>3. page' \in Pages /\ (page'.doubt \/ (~attempt.locked /\ ~page'.locked))
    <3>1. CASE page' = [page EXCEPT !.doubt = TRUE]
      <4>1. [page EXCEPT !.doubt = TRUE] \in Pages /\ [page EXCEPT !.doubt = TRUE].doubt = TRUE
        BY <1>1 DEF Pages
      <4>2. QED
        BY <3>1, <4>1, Zenon
    <3>2. CASE page' = [page EXCEPT !.locked = FALSE, !.doubt = @ \/ attempt.locked]
      <4>1. page' \in Pages /\ page'.locked = FALSE /\ (~page'.doubt => ~attempt.locked)
        <5>1. PICK b \in BOOLEAN : b = (page.doubt \/ attempt.locked)
          BY Zenon
        <5>2. page' = [page EXCEPT !.locked = FALSE, !.doubt = b]
          BY <3>2, <5>1, Zenon
        <5>3. page' \in Pages /\ page'.locked = FALSE /\ page'.doubt = b
          BY <1>1, <5>2 DEF Pages
        <5>4. QED
          BY <5>1, <5>3, Zenon
      <4>2. QED
        BY <4>1, Zenon
    <3>3. QED
      BY <1>5, <3>1, <3>2, Zenon DEF Relay, DropEvent, PageAfterUnlocked
  <2>4. QED
    BY <1>1, <2>1, <2>2, <2>3, Zenon DEF RestOK, LockIsKnown
<1>6. QED
  BY <1>3, <1>4, <1>5, Zenon DEF Realtime

LEMMA RestStep ==
  ASSUME ConstantsAssumption, RestOK, LockIsKnown, [Next]_vars
  PROVE  RestOK' /\ LockIsKnown'
<1>1. CASE RowSteps
  BY <1>1, RowStep
<1>2. CASE \/ EnterFullscreen \/ HandleSubmitClick \/ CountdownEnds
           \/ \E k \in Submitters : SubmitRefused(k) \/ RefreshRefused(k) \/ LoseSubmission(k)
  BY <1>2, PageStep
<1>3. CASE \E r \in Reports : RecordViolation(r)
  BY <1>3, ViolationStep
<1>4. CASE \E r \in Reports : LockAnswerArrives(r) \/ LoseReport(r)
  BY <1>4, AnswerStep
<1>5. CASE \E r \in Reports : ExitFullscreen(r) \/ LoseFocus(r)
  BY <1>5, ReportStep
<1>6. CASE NavigateAway \/ \E kept \in 0..Len(saves) : Reload(kept)
  BY <1>6, LoadStep
<1>7. CASE \E k \in Submitters : Refresh(k)
  BY <1>7, RefreshStep
<1>8. CASE UnlockAttempt \/ Realtime
  BY <1>8, EventStep
<1>9. CASE UNCHANGED vars
  BY <1>9, Zenon DEF RestOK, LockIsKnown, vars, serverVars, pageVars, requestVars, wireVars
<1>10. QED
  <2>1. Next =>
          \/ RowSteps
          \/ EnterFullscreen \/ HandleSubmitClick \/ CountdownEnds
          \/ \E k \in Submitters : SubmitRefused(k) \/ RefreshRefused(k) \/ LoseSubmission(k)
          \/ \E r \in Reports : RecordViolation(r)
          \/ \E r \in Reports : LockAnswerArrives(r) \/ LoseReport(r)
          \/ \E r \in Reports : ExitFullscreen(r) \/ LoseFocus(r)
          \/ NavigateAway \/ \E kept \in 0..Len(saves) : Reload(kept)
          \/ \E k \in Submitters : Refresh(k)
          \/ UnlockAttempt \/ Realtime
    BY Zenon DEF Next, Server, Student, RowSteps
  <2>2. QED
    BY <1>1, <1>2, <1>3, <1>4, <1>5, <1>6, <1>7, <1>8, <1>9, <2>1

-----------------------------------------------------------------------------
(* The theorems.                                                           *)

LEMMA Initially ==
  ASSUME ConstantsAssumption, Init
  PROVE  IInv
<1>1. AnswersOK
  BY DEF Init, AnswersOK, ConstantsAssumption
<1>2. SavesInv
  <2>1. saves \in Seq(Requests) /\ saves = << >>
    BY EmptySeq DEF Init
  <2>2. QED
    BY <2>1 DEF Init, SavesInv, OnlyTextWaits, WillBeSaved, LeadsTo
<1>3. attempt \in Attempts /\ page \in Pages
  BY Zenon DEF Init, Attempts, Pages, NewPage
<1>4. RestOK
  <2>1. loads \in 1..MaxLoads /\ unlocks \in 0..MaxUnlocks
    BY DEF Init, ConstantsAssumption
  <2>2. /\ reports \in [Reports -> {"free", "sent", "answered", "orphan"}]
        /\ submission \in [Submitters -> {"idle", "sent", "accepted", "refused"} \union Verdicts]
    BY DEF Init
  <2>3. overdue \in BOOLEAN /\ left \in BOOLEAN /\ room \in BOOLEAN
    BY Zenon DEF Init
  <2>4. QED
    BY <1>3, <2>1, <2>2, <2>3, Zenon DEF RestOK, Attempts
<1>5. LockIsKnown
  BY Zenon DEF Init, LockIsKnown, NewPage
<1>6. QED
  BY <1>1, <1>2, <1>4, <1>5, TypeParts DEF IInv

LEMMA Inductive == Spec => []IInv
<1>1. Init => IInv
  BY ConstantsAssumption, Initially
<1>2. IInv /\ [Next]_vars => IInv'
  <2> SUFFICES ASSUME IInv, [Next]_vars
               PROVE  IInv'
    OBVIOUS
  <2>1. AnswersOK /\ RestOK /\ SavesInv /\ LockIsKnown
    BY TypeParts DEF IInv
  <2>2. AnswersOK' /\ SavesInv' /\ RestOK' /\ LockIsKnown'
    BY <2>1, ConstantsAssumption, AnswersStep, RestStep
  <2>3. TypeOK' <=> AnswersOK' /\ RestOK'
    BY TypeParts, PTL
  <2>4. QED
    BY <2>2, <2>3 DEF IInv
<1>3. QED
  BY <1>1, <1>2, PTL DEF Spec

\* Whatever the browser reorders, loses or cuts off, and however often the page is
\* left and comes back: when nothing of an answer is waiting or under way any
\* more, and its last save was not refused, lost or overtaken, the server has
\* what the page shows.
THEOREM NothingLeftUnsaved == Spec => []SavedIsDraft
<1>1. IInv => SavedIsDraft
  <2> SUFFICES ASSUME IInv, NEW q \in Questions, timer[q] = 0, PendingSaves(q) = {}, q \notin atRisk
               PROVE  stored[q] = draft[q]
    BY DEF SavedIsDraft
  <2>1. \A i \in DOMAIN saves : saves[i].question # q
    BY DEF PendingSaves
  <2>2. LeadsTo(saves, timer[q], stored[q], draft[q], q)
    BY DEF IInv, SavesInv, WillBeSaved
  <2>3. QED
    BY <2>1, <2>2 DEF LeadsTo
<1>2. QED
  BY <1>1, Inductive, PTL

\* The page and the server keep their types, and the page shows the lock as the
\* row has it once the answer of its report and the event of the unlock are in,
\* unless one of them was missed or came after the other.
THEOREM LockIsShown == Spec => []PageInv
<1>1. IInv => PageInv
  <2> SUFFICES ASSUME IInv
               PROVE  PageShowsLock
    BY DEF IInv, PageInv
  <2>1. attempt.locked \in BOOLEAN /\ page.locked \in BOOLEAN
    BY TypeParts, RestParts DEF IInv
  <2>2. QED
    BY <2>1, Zenon DEF IInv, LockIsKnown, PageShowsLock
<1>2. QED
  BY <1>1, Inductive, PTL
=============================================================================

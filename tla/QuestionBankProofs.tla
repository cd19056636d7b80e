-------------------------- MODULE QuestionBankProofs --------------------------
(***************************************************************************)
(* Theorems about QuestionBank, for every value of its constants: any      *)
(* number of questions and whatever the filters, the search and the form   *)
(* make of them.                                                           *)
(***************************************************************************)
EXTENDS QuestionBank, SequenceTheorems, FiniteSetTheorems, TLAPS

-----------------------------------------------------------------------------
(* The inductive invariant of the rows and the saves.  The list, the       *)
(* deletion and the fields of the form have no part in it; they have an    *)
(* invariant of their own, PageSound below.                                *)

Rows == [content : Contents \union {"none"}, deleted : BOOLEAN]
Saves == [stage : {"idle", "sent", "checked", "locked", "replaced", "saved", "refused"},
          question : Questions \union {0}, seen : SUBSET Contents, orphan : BOOLEAN]
Locked(w) == saves[w].stage \in {"locked", "replaced"}

RowsTypeOK ==
  /\ row \in [Questions -> Rows]
  /\ details \in [Questions -> SUBSET Contents]
  /\ saves \in [Writers -> Saves]
  /\ editing \in Questions \union {0}

\* A save that found its question keeps a row to update.
FoundIsRow ==
  \A w \in Writers :
    saves[w].stage = "checked" \/ Locked(w) =>
      saves[w].question \in Questions /\ row[saves[w].question] # NoRow

\* The row lock: one transaction at a time is past the update of a row ...
OneLockEach ==
  \A v, w \in Writers : Locked(v) /\ Locked(w) /\ saves[v].question = saves[w].question => v = w

\* ... so that what it deletes is all there is when it commits.
SeenIsStored ==
  \A w \in Writers : saves[w].stage = "replaced" => saves[w].seen = details[saves[w].question]

IInv == RowsTypeOK /\ FoundIsRow /\ OneLockEach /\ SeenIsStored /\ QuestionIsWhole

\* What a step may do to rows that were deleted.
KeepsDeleted == \A q \in Questions : row[q].deleted => row'[q].deleted

-----------------------------------------------------------------------------
LEMMA IdleFits == Idle \in Saves
BY DEF Idle, Saves

LEMMA InitIInv == Init => IInv
<1> SUFFICES ASSUME Init PROVE IInv
  OBVIOUS
<1> USE DEF Init
<1>1. RowsTypeOK
  <2>1. NoRow \in Rows /\ [content |-> "new", deleted |-> FALSE] \in Rows
    BY DEF NoRow, Rows, Contents
  <2>2. row \in [Questions -> Rows]
    BY <2>1
  <2>3. details \in [Questions -> SUBSET Contents]
    BY DEF Contents
  <2>4. QED
    BY <2>2, <2>3, IdleFits DEF RowsTypeOK
<1>2. \A w \in Writers : saves[w].stage = "idle"
  BY DEF Idle
<1>3. FoundIsRow /\ OneLockEach /\ SeenIsStored
  BY <1>2 DEF FoundIsRow, OneLockEach, SeenIsStored, Locked
<1>4. QuestionIsWhole
  BY DEF QuestionIsWhole, NoRow
<1>5. QED
  BY <1>1, <1>3, <1>4 DEF IInv

-----------------------------------------------------------------------------
(* Steps that leave the rows alone.                                        *)

\* The list, the deletion and the form go on.
LEMMA PageKeeps ==
  ASSUME IInv, UNCHANGED <<row, details, saves>>, editing' \in Questions \union {0}
  PROVE  IInv' /\ KeepsDeleted
BY DEF IInv, RowsTypeOK, FoundIsRow, OneLockEach, Locked, SeenIsStored, QuestionIsWhole, KeepsDeleted

\* A save moves on to a place where it holds no lock.
LEMMA SaveMoves ==
  ASSUME IInv, UNCHANGED <<row, details>>, editing' \in Questions \union {0},
         NEW w \in Writers, NEW x \in Saves, saves' = [saves EXCEPT ![w] = x],
         x.stage \notin {"locked", "replaced"},
         x.stage = "checked" => x.question \in Questions /\ row[x.question] # NoRow
  PROVE  IInv' /\ KeepsDeleted
<1>1. /\ saves' \in [Writers -> Saves] /\ saves'[w] = x
      /\ \A v \in Writers \ {w} : saves'[v] = saves[v]
  BY DEF IInv, RowsTypeOK
<1>2. RowsTypeOK'
  BY <1>1 DEF IInv, RowsTypeOK
<1>3. FoundIsRow' /\ OneLockEach' /\ SeenIsStored'
  BY <1>1 DEF IInv, FoundIsRow, OneLockEach, SeenIsStored, Locked
<1>4. QED
  BY <1>2, <1>3 DEF IInv, QuestionIsWhole, KeepsDeleted

\* A save goes on without a word about its place: its tab has left the form.
LEMMA SaveOrphaned ==
  ASSUME IInv, UNCHANGED <<row, details>>, editing' \in Questions \union {0},
         saves' = saves \/ saves' = [saves EXCEPT !["tab"].orphan = TRUE]
  PROVE  IInv' /\ KeepsDeleted
<1>1. saves \in [Writers -> Saves] /\ saves["tab"] \in Saves
  BY DEF IInv, RowsTypeOK, Writers
<1>2. /\ saves' \in [Writers -> Saves]
      /\ \A w \in Writers : /\ saves'[w].stage = saves[w].stage /\ saves'[w].seen = saves[w].seen
                            /\ saves'[w].question = saves[w].question
  <2>1. CASE saves' = saves
    BY <1>1, <2>1
  <2>2. CASE saves' = [saves EXCEPT !["tab"].orphan = TRUE]
    <3> DEFINE x == [saves["tab"] EXCEPT !.orphan = TRUE]
    <3>1. /\ x \in Saves /\ x.stage = saves["tab"].stage /\ x.seen = saves["tab"].seen
          /\ x.question = saves["tab"].question
      BY <1>1 DEF Saves
    <3>2. saves' = [saves EXCEPT !["tab"] = x]
      BY <2>2
    <3> HIDE DEF x
    <3>3. QED
      BY <1>1, <3>1, <3>2 DEF Writers
  <2>3. QED
    BY <2>1, <2>2
<1>3. RowsTypeOK'
  BY <1>2 DEF IInv, RowsTypeOK
<1>4. FoundIsRow' /\ OneLockEach' /\ SeenIsStored'
  BY <1>2 DEF IInv, FoundIsRow, OneLockEach, SeenIsStored, Locked
<1>5. QED
  BY <1>3, <1>4 DEF IInv, QuestionIsWhole, KeepsDeleted

-----------------------------------------------------------------------------
(* Steps that write a row.                                                 *)

\* Rows are deleted, and nothing else of them changes.
LEMMA DeletionKeeps ==
  ASSUME IInv, UNCHANGED <<details, saves, editing>>, NEW gone \in SUBSET Questions,
         \A q \in gone : row[q] # NoRow,
         row' = [q \in Questions |-> IF q \in gone THEN [row[q] EXCEPT !.deleted = TRUE] ELSE row[q]]
  PROVE  IInv' /\ KeepsDeleted
<1>1. /\ row' \in [Questions -> Rows]
      /\ \A q \in Questions : /\ row'[q].content = row[q].content
                              /\ row[q].deleted => row'[q].deleted
                              /\ row'[q] = NoRow <=> row[q] = NoRow
  BY DEF IInv, RowsTypeOK, Rows, NoRow
<1>2. RowsTypeOK'
  BY <1>1 DEF IInv, RowsTypeOK
<1>3. FoundIsRow' /\ OneLockEach' /\ SeenIsStored'
  BY <1>1 DEF IInv, FoundIsRow, OneLockEach, SeenIsStored, Locked
<1>4. QuestionIsWhole'
  BY <1>1 DEF IInv, QuestionIsWhole
<1>5. QED
  BY <1>1, <1>2, <1>3, <1>4 DEF IInv, KeepsDeleted

\* A row and its details are there at once, in a place that had none.
LEMMA InsertKeeps ==
  ASSUME IInv, UNCHANGED editing, NEW q \in Unused, Insert(q, "new"),
         saves' \in [Writers -> Saves],
         \A w \in Writers : saves'[w] = saves[w] \/ saves'[w].stage \notin {"checked", "locked", "replaced"}
  PROVE  IInv' /\ KeepsDeleted
<1>1. q \in Questions /\ row[q] = NoRow
  BY DEF Unused
<1>2. /\ row' \in [Questions -> Rows] /\ row'[q] = [content |-> "new", deleted |-> FALSE]
      /\ details' \in [Questions -> SUBSET Contents] /\ details'[q] = {"new"}
      /\ \A p \in Questions \ {q} : row'[p] = row[p] /\ details'[p] = details[p]
  BY <1>1 DEF IInv, RowsTypeOK, Insert, Rows, Contents
<1>3. row'[q] # NoRow /\ row'[q].content = "new"
  BY <1>2 DEF NoRow
<1>4. RowsTypeOK'
  BY <1>2 DEF IInv, RowsTypeOK
<1>5. \A w \in Writers : Locked(w) \/ saves[w].stage = "checked" =>
        saves[w].question \in Questions \ {q}
  BY <1>1 DEF IInv, FoundIsRow
<1>6. FoundIsRow' /\ OneLockEach' /\ SeenIsStored'
  BY <1>2, <1>3, <1>5 DEF IInv, FoundIsRow, OneLockEach, SeenIsStored, Locked
<1>7. QuestionIsWhole'
  BY <1>2, <1>3 DEF IInv, QuestionIsWhole
<1>8. KeepsDeleted
  BY <1>1, <1>2 DEF KeepsDeleted, NoRow
<1>9. QED
  BY <1>4, <1>6, <1>7, <1>8 DEF IInv

-----------------------------------------------------------------------------
(* The transaction of an update.                                           *)

LEMMA CheckQuestionKeeps ==
  ASSUME IInv, NEW w \in Writers, CheckQuestion(w)
  PROVE  IInv' /\ KeepsDeleted
<1>1. saves[w] \in Saves /\ saves[w].question \in Questions
  BY DEF IInv, RowsTypeOK, CheckQuestion, Saves
<1>2. UNCHANGED <<row, details, editing>>
  BY DEF CheckQuestion, formVars
<1>3. \E x \in Saves : /\ saves' = [saves EXCEPT ![w] = x]
                       /\ x.stage \notin {"locked", "replaced"}
                       /\ x.stage = "checked" => x.question \in Questions /\ row[x.question] # NoRow
  <2>1. CASE Live(saves[w].question)
    <3>1. [saves[w] EXCEPT !.stage = "checked"] \in Saves
      BY <1>1 DEF Saves
    <3>2. saves' = [saves EXCEPT ![w] = [saves[w] EXCEPT !.stage = "checked"]]
      BY <2>1 DEF CheckQuestion
    <3>3. QED
      BY <1>1, <2>1, <3>1, <3>2 DEF Live, Saves
  <2>2. CASE ~Live(saves[w].question) /\ w = "other"
    <3>1. saves' = [saves EXCEPT ![w] = Idle]
      BY <2>2 DEF CheckQuestion
    <3>2. QED
      BY <3>1, IdleFits DEF Idle
  <2>3. CASE ~Live(saves[w].question) /\ w # "other"
    <3>1. [saves[w] EXCEPT !.stage = "refused"] \in Saves
      BY <1>1 DEF Saves
    <3>2. saves' = [saves EXCEPT ![w] = [saves[w] EXCEPT !.stage = "refused"]]
      BY <2>3 DEF CheckQuestion
    <3>3. QED
      BY <1>1, <3>1, <3>2 DEF Saves
  <2>4. QED
    BY <2>1, <2>2, <2>3
<1>4. QED
  BY <1>2, <1>3, SaveMoves DEF IInv, RowsTypeOK

LEMMA UpdateRowKeeps ==
  ASSUME IInv, NEW w \in Writers, UpdateRow(w)
  PROVE  IInv' /\ KeepsDeleted
<1> DEFINE x == [saves[w] EXCEPT !.stage = "locked"]
<1>1. /\ UNCHANGED <<row, details, editing>> /\ saves' = [saves EXCEPT ![w] = x]
      /\ saves[w].stage = "checked" /\ ~RowLocked(saves[w].question)
  BY DEF UpdateRow, formVars
<1>2. saves \in [Writers -> Saves] /\ saves[w] \in Saves
  BY DEF IInv, RowsTypeOK
<1>3. x \in Saves /\ x.stage = "locked" /\ x.question = saves[w].question
  BY <1>2 DEF Saves
<1> HIDE DEF x
<1>4. /\ saves' \in [Writers -> Saves] /\ saves'[w] = x
      /\ \A v \in Writers \ {w} : saves'[v] = saves[v]
  BY <1>1, <1>2, <1>3
<1>5. RowsTypeOK'
  BY <1>1, <1>4 DEF IInv, RowsTypeOK
<1>6. FoundIsRow' /\ SeenIsStored'
  BY <1>1, <1>3, <1>4 DEF IInv, FoundIsRow, SeenIsStored, Locked
<1>7. OneLockEach'
  BY <1>1, <1>3, <1>4 DEF IInv, OneLockEach, Locked, RowLocked
<1>8. QED
  BY <1>1, <1>5, <1>6, <1>7 DEF IInv, QuestionIsWhole, KeepsDeleted

LEMMA ReplaceDetailsKeeps ==
  ASSUME IInv, NEW w \in Writers, ReplaceDetails(w)
  PROVE  IInv' /\ KeepsDeleted
<1> DEFINE x == [saves[w] EXCEPT !.stage = "replaced", !.seen = details[saves[w].question]]
<1>1. /\ UNCHANGED <<row, details, editing>> /\ saves[w].stage = "locked"
  BY DEF ReplaceDetails, formVars
<1>2. saves \in [Writers -> Saves] /\ saves[w] \in Saves
  BY DEF IInv, RowsTypeOK
<1>3. saves[w].question \in Questions /\ details[saves[w].question] \in SUBSET Contents
  BY <1>1 DEF IInv, RowsTypeOK, FoundIsRow, Locked
<1>4. /\ x \in Saves /\ x.stage = "replaced" /\ x.question = saves[w].question
      /\ x.seen = details[saves[w].question]
  BY <1>2, <1>3 DEF Saves
<1>5. saves' = [saves EXCEPT ![w] = x]
  BY <1>2 DEF ReplaceDetails
<1> HIDE DEF x
<1>6. /\ saves' \in [Writers -> Saves] /\ saves'[w] = x
      /\ \A v \in Writers \ {w} : saves'[v] = saves[v]
  BY <1>2, <1>4, <1>5
<1>7. RowsTypeOK'
  BY <1>1, <1>6 DEF IInv, RowsTypeOK
<1>8. FoundIsRow' /\ OneLockEach' /\ SeenIsStored'
  BY <1>1, <1>4, <1>6 DEF IInv, FoundIsRow, OneLockEach, SeenIsStored, Locked
<1>9. QED
  BY <1>1, <1>7, <1>8 DEF IInv, QuestionIsWhole, KeepsDeleted

\* What was stored was seen and deleted, so that what is stored is the writer's.
LEMMA CommitKeeps ==
  ASSUME IInv, NEW w \in Writers, Commit(w)
  PROVE  IInv' /\ KeepsDeleted
<1> DEFINE q == saves[w].question
<1>1. saves[w].stage = "replaced" /\ UNCHANGED editing
  BY DEF Commit, formVars
<1>2. saves \in [Writers -> Saves] /\ saves[w] \in Saves
  BY DEF IInv, RowsTypeOK
<1>3. q \in Questions /\ row[q] # NoRow /\ saves[w].seen = details[q] /\ w \in Contents
  BY <1>1 DEF IInv, FoundIsRow, SeenIsStored, Locked, Contents
<1>4. \E x \in Saves : saves' = [saves EXCEPT ![w] = x] /\ x.stage \in {"idle", "saved"}
  <2>1. CASE w = "other"
    <3>1. saves' = [saves EXCEPT ![w] = Idle]
      BY <2>1 DEF Commit
    <3>2. QED
      BY <3>1, IdleFits DEF Idle
  <2>2. CASE w # "other"
    <3>1. [saves[w] EXCEPT !.stage = "saved", !.seen = {}] \in Saves
      BY <1>2 DEF Saves
    <3>2. saves' = [saves EXCEPT ![w] = [saves[w] EXCEPT !.stage = "saved", !.seen = {}]]
      BY <2>2 DEF Commit
    <3>3. QED
      BY <1>2, <3>1, <3>2 DEF Saves
  <2>3. QED
    BY <2>1, <2>2
<1>5. /\ saves' \in [Writers -> Saves] /\ saves'[w].stage \in {"idle", "saved"}
      /\ \A v \in Writers \ {w} : saves'[v] = saves[v]
  BY <1>2, <1>4
<1>6. /\ row' \in [Questions -> Rows] /\ row'[q].content = w /\ row'[q].deleted = row[q].deleted
      /\ \A p \in Questions \ {q} : row'[p] = row[p]
  <2>1. [row[q] EXCEPT !.content = w] \in Rows
    BY <1>3 DEF IInv, RowsTypeOK, Rows
  <2>2. row' = [row EXCEPT ![q] = [row[q] EXCEPT !.content = w]]
    BY DEF Commit
  <2>3. QED
    BY <1>3, <2>1, <2>2 DEF IInv, RowsTypeOK, Rows
<1>7. /\ details' \in [Questions -> SUBSET Contents] /\ details'[q] = {w}
      /\ \A p \in Questions \ {q} : details'[p] = details[p]
  <2>1. details' = [details EXCEPT ![q] = {w}]
    BY <1>3 DEF Commit
  <2>2. QED
    BY <1>3, <2>1 DEF IInv, RowsTypeOK
<1>8. \A v \in Writers \ {w} : Locked(v) => saves[v].question # q
  BY <1>1 DEF IInv, OneLockEach, Locked
<1>9. row'[q] # NoRow
  BY <1>6 DEF NoRow, Writers
<1> HIDE DEF q
<1>10. RowsTypeOK'
  BY <1>1, <1>5, <1>6, <1>7 DEF IInv, RowsTypeOK
<1>11. FoundIsRow'
  BY <1>3, <1>5, <1>6, <1>9 DEF IInv, FoundIsRow, Locked
<1>12. OneLockEach' /\ SeenIsStored'
  BY <1>5, <1>7, <1>8 DEF IInv, FoundIsRow, OneLockEach, SeenIsStored, Locked
<1>13. QuestionIsWhole'
  BY <1>3, <1>6, <1>7 DEF IInv, QuestionIsWhole
<1>14. KeepsDeleted
  BY <1>3, <1>6 DEF KeepsDeleted
<1>15. QED
  BY <1>10, <1>11, <1>12, <1>13, <1>14 DEF IInv

-----------------------------------------------------------------------------
(* All steps.                                                              *)

\* What the list does, and the form before it is sent.
Quiet ==
  \/ LoadStep \/ \E i \in DOMAIN loads : FailList(i)
  \/ ReadFacets \/ UpdateFilter \/ HandleSearchChange \/ SearchDebounced \/ TurnPage
  \/ \E q \in Questions : ToggleSelected(q) \/ HandleDelete(q) \/ OpenEdit(q)
  \/ ToggleSelectAll \/ ClearSelection \/ HandleBulkDelete
  \/ DeletionAnswered \/ LoseDeletion
  \/ OpenNew \/ ReadDetails \/ EditForm

LEMMA QuietKeeps ==
  ASSUME IInv, Quiet
  PROVE  IInv' /\ KeepsDeleted
<1>0. editing \in Questions \union {0}
  BY DEF IInv, RowsTypeOK
<1>1. CASE LoadStep \/ \E i \in DOMAIN loads : FailList(i)
  BY <1>0, <1>1, PageKeeps DEF LoadStep, CountQuestions, ReadPage, ShowList, FailList, bankVars, formVars
<1>2. CASE ReadFacets \/ SearchDebounced \/ UpdateFilter \/ HandleSearchChange \/ TurnPage
  BY <1>0, <1>2, PageKeeps
     DEF ReadFacets, SearchDebounced, UpdateFilter, HandleSearchChange, TurnPage, Do, bankVars, formVars
<1>3. ASSUME NEW q \in Questions, ToggleSelected(q) \/ HandleDelete(q)
      PROVE  IInv' /\ KeepsDeleted
  BY <1>0, <1>3, PageKeeps DEF ToggleSelected, HandleDelete, Ask, Do, bankVars, formVars
<1>4. ASSUME NEW q \in Questions, OpenEdit(q)
      PROVE  IInv' /\ KeepsDeleted
  BY <1>0, <1>4, PageKeeps DEF OpenEdit, bankVars
<1>5. CASE ToggleSelectAll \/ ClearSelection \/ HandleBulkDelete
  BY <1>0, <1>5, PageKeeps DEF ToggleSelectAll, ClearSelection, HandleBulkDelete, Ask, Do, bankVars, formVars
<1>6. CASE DeletionAnswered \/ LoseDeletion
  BY <1>0, <1>6, PageKeeps DEF DeletionAnswered, LoseDeletion, bankVars, formVars
<1>7. CASE OpenNew \/ ReadDetails
  BY <1>0, <1>7, PageKeeps DEF OpenNew, ReadDetails, OpenForm, bankVars
<1>8. CASE EditForm
  <2>1. editing' = editing
    BY <1>8 DEF EditForm, Edit, Set, HandleTypeChange, HandleCodeLanguageChange, ChangePreview, FillIn,
                AddTestCase, RemoveTestCase, AddOption, SetCorrectOption, RemoveOption
  <2>2. QED
    BY <1>0, <1>8, <2>1, PageKeeps DEF EditForm, bankVars
<1>9. QED
  BY <1>1, <1>2, <1>3, <1>4, <1>5, <1>6, <1>7, <1>8 DEF Quiet

\* The save of the tab is sent, created, answered or lost.
LEMMA TabSaveKeeps ==
  ASSUME IInv, HandleSubmit \/ CreateQuestion \/ SaveAnswered \/ SaveRefused \/ LoseSave \/ LeaveForm
  PROVE  IInv' /\ KeepsDeleted
<1>0. /\ editing \in Questions \union {0} /\ saves \in [Writers -> Saves]
      /\ "tab" \in Writers /\ saves["tab"] \in Saves
  BY DEF IInv, RowsTypeOK, Writers
<1>1. CASE HandleSubmit
  <2> DEFINE x == [Idle EXCEPT !.stage = "sent", !.question = editing]
  <2>1. x \in Saves /\ x.stage = "sent"
    BY <1>0, IdleFits DEF Idle, Saves
  <2>2. saves' = [saves EXCEPT !["tab"] = x] /\ UNCHANGED <<row, details, editing>>
    BY <1>1 DEF HandleSubmit
  <2> HIDE DEF x
  <2>3. QED
    BY <1>0, <2>1, <2>2, SaveMoves
<1>2. CASE CreateQuestion
  <2> DEFINE x == [saves["tab"] EXCEPT !.stage = "saved"]
  <2>1. x \in Saves /\ x.stage = "saved"
    BY <1>0 DEF Saves
  <2>2. saves' = [saves EXCEPT !["tab"] = x] /\ UNCHANGED editing
    BY <1>2 DEF CreateQuestion, formVars
  <2> HIDE DEF x
  <2>3. /\ saves' \in [Writers -> Saves]
        /\ \A w \in Writers : saves'[w] = saves[w] \/ saves'[w].stage \notin {"checked", "locked", "replaced"}
    BY <1>0, <2>1, <2>2
  <2>4. PICK q \in Unused : Insert(q, "new")
    BY <1>2 DEF CreateQuestion
  <2>5. QED
    BY <2>2, <2>3, <2>4, InsertKeeps
<1>3. CASE SaveAnswered \/ SaveRefused \/ LoseSave
  <2>1. saves' = [saves EXCEPT !["tab"] = Idle] /\ UNCHANGED <<row, details>>
    BY <1>3 DEF SaveAnswered, SaveRefused, LoseSave
  <2>2. editing' \in Questions \union {0}
    BY <1>0, <1>3 DEF SaveAnswered, SaveRefused, LoseSave, ShowNewList, formVars
  <2>3. QED
    <3>1. Idle.stage \notin {"checked", "locked", "replaced"}
      BY DEF Idle
    <3>2. QED
      BY <1>0, <2>1, <2>2, <3>1, IdleFits, SaveMoves
<1>4. CASE LeaveForm
  <2>1. editing' \in Questions \union {0} /\ UNCHANGED <<row, details>>
    BY <1>4 DEF LeaveForm, ShowNewList
  <2>2. saves' = saves \/ saves' = [saves EXCEPT !["tab"].orphan = TRUE]
    BY <1>4 DEF LeaveForm
  <2>3. QED
    BY <2>1, <2>2, SaveOrphaned
<1>5. QED
  BY <1>1, <1>2, <1>3, <1>4

LEMMA DeletionsKeep ==
  ASSUME IInv, DeleteQuestions \/ \E q \in Questions : DeleteElsewhere(q)
  PROVE  IInv' /\ KeepsDeleted
<1>1. CASE DeleteQuestions
  <2> DEFINE gone == deletion.ids \intersect LiveQuestions
  <2>1. gone \in SUBSET Questions /\ \A q \in gone : row[q] # NoRow
    BY DEF LiveQuestions, Live
  <2>2. /\ row' = [q \in Questions |-> IF q \in gone THEN [row[q] EXCEPT !.deleted = TRUE] ELSE row[q]]
        /\ UNCHANGED <<details, saves, editing>>
    BY <1>1 DEF DeleteQuestions, formVars
  <2> HIDE DEF gone
  <2>3. QED
    BY <2>1, <2>2, DeletionKeeps
<1>2. ASSUME NEW q \in Questions, DeleteElsewhere(q)
      PROVE  IInv' /\ KeepsDeleted
  <2>1. row[q] # NoRow /\ UNCHANGED <<details, saves, editing>>
    BY <1>2 DEF DeleteElsewhere, Elsewhere, Live, formVars
  <2> DEFINE gone == {q}
  <2>2. row' = [p \in Questions |-> IF p \in gone THEN [row[p] EXCEPT !.deleted = TRUE] ELSE row[p]]
    BY <1>2 DEF DeleteElsewhere, IInv, RowsTypeOK
  <2>3. gone \in SUBSET Questions /\ \A p \in gone : row[p] # NoRow
    BY <2>1
  <2> HIDE DEF gone
  <2>4. QED
    BY <2>1, <2>2, <2>3, DeletionKeeps
<1>3. QED
  BY <1>1, <1>2

LEMMA ElsewhereKeeps ==
  ASSUME IInv, CreateElsewhere \/ \E q \in Questions : EditElsewhere(q)
  PROVE  IInv' /\ KeepsDeleted
<1>1. CASE CreateElsewhere
  <2>1. PICK q \in Unused : Insert(q, "new")
    BY <1>1 DEF CreateElsewhere
  <2>2. UNCHANGED <<saves, editing>>
    BY <1>1 DEF CreateElsewhere, Elsewhere, formVars
  <2>3. saves' \in [Writers -> Saves]
    BY <2>2 DEF IInv, RowsTypeOK
  <2>4. QED
    BY <2>1, <2>2, <2>3, InsertKeeps
<1>2. ASSUME NEW q \in Questions, EditElsewhere(q)
      PROVE  IInv' /\ KeepsDeleted
  <2> DEFINE x == [Idle EXCEPT !.stage = "sent", !.question = q]
  <2>1. x \in Saves /\ x.stage = "sent"
    BY IdleFits DEF Idle, Saves
  <2>2. saves' = [saves EXCEPT !["other"] = x] /\ UNCHANGED <<row, details, editing>>
    BY <1>2 DEF EditElsewhere, Elsewhere, formVars
  <2> HIDE DEF x
  <2>3. editing' \in Questions \union {0} /\ "other" \in Writers
    BY <2>2 DEF IInv, RowsTypeOK, Writers
  <2>4. QED
    BY <2>1, <2>2, <2>3, SaveMoves
<1>3. QED
  BY <1>1, <1>2

LEMMA StepKeeps ==
  ASSUME IInv, [Next]_vars
  PROVE  IInv' /\ KeepsDeleted
<1>1. CASE Quiet
  BY <1>1, QuietKeeps
<1>2. CASE \E w \in Writers : CheckQuestion(w) \/ UpdateRow(w) \/ ReplaceDetails(w) \/ Commit(w)
  BY <1>2, CheckQuestionKeeps, UpdateRowKeeps, ReplaceDetailsKeeps, CommitKeeps
<1>3. CASE UNCHANGED vars
  <2>1. UNCHANGED <<row, details, saves, editing>>
    BY <1>3 DEF vars, bankVars, formVars
  <2>2. QED
    BY <2>1, PageKeeps DEF IInv, RowsTypeOK
<1>4. QED
  BY <1>1, <1>2, <1>3, TabSaveKeeps, DeletionsKeep, ElsewhereKeeps DEF Next, Quiet

-----------------------------------------------------------------------------
(* The theorems.                                                           *)

LEMMA IInvariant == Spec => []IInv
<1>1. IInv /\ [Next]_vars => IInv'
  BY StepKeeps
<1>2. QED
  BY <1>1, InitIInv, PTL DEF Spec

\* No question is a mixture of two saves, in a bank of any size: the row lock of
\* an update keeps the other one from its options and test cases.
THEOREM QuestionsAreWhole == Spec => []QuestionIsWhole
<1>1. IInv => QuestionIsWhole
  BY DEF IInv
<1>2. QED
  BY <1>1, IInvariant, PTL

\* No save brings back a question that was deleted while it was under way.
THEOREM DeletedQuestionsStay == Spec => DeletedStays
<1>1. IInv /\ [Next]_vars => [\A q \in Questions : row[q].deleted => row'[q].deleted]_vars
  BY StepKeeps DEF KeepsDeleted
<1>2. QED
  BY <1>1, IInvariant, PTL DEF Spec, DeletedStays

-----------------------------------------------------------------------------
(* The form: each of its handlers keeps a shape that the schema takes.     *)

\* What the schema asks of a form besides marks and texts, in the fields that decide it.
Options == BoundedSeq(BOOLEAN, MaxOptions)
Fits(f) ==
  /\ Len(f.options) \in OptionCounts(f.type)
  /\ f.type = "code_answer" => (Executable(f.language) <=> f.testCases > 0)

\* What a bounded sequence is.
LEMMA OptionsAre ==
  \A s : s \in Options <=> s \in Seq(BOOLEAN) /\ Len(s) <= MaxOptions
<1>1. MaxOptions \in Nat
  BY SchemaAssumption
<1>2. ASSUME NEW s, s \in Options
      PROVE  s \in Seq(BOOLEAN) /\ Len(s) <= MaxOptions
  <2>1. PICK m \in 0..MaxOptions : s \in [1..m -> BOOLEAN]
    BY <1>2 DEF Options, BoundedSeq, SeqOf
  <2>2. m \in Nat /\ m <= MaxOptions
    BY <1>1, <2>1
  <2>3. s \in Seq(BOOLEAN)
    BY <2>1, <2>2
  <2>4. Len(s) = m
    BY <2>1, <2>2, <2>3
  <2>5. QED
    BY <2>2, <2>3, <2>4
<1>3. ASSUME NEW s \in Seq(BOOLEAN), Len(s) <= MaxOptions
      PROVE  s \in Options
  <2>1. Len(s) \in 0..MaxOptions /\ s \in [1..Len(s) -> BOOLEAN]
    BY <1>1, <1>3
  <2>2. QED
    BY <2>1 DEF Options, BoundedSeq, SeqOf
<1>4. QED
  BY <1>2, <1>3

\* The default options are as many as their type may have.
LEMMA DefaultOptionsFit ==
  ASSUME NEW type \in Types
  PROVE  /\ DefaultOptionsFor(type) \in Options
         /\ Len(DefaultOptionsFor(type)) \in OptionCounts(type)
<1>1. MaxOptions \in Nat /\ MaxOptions >= 3
  BY SchemaAssumption
<1>2. CASE type \in ChoiceTypes
  <2>1. DefaultOptionsFor(type) = <<FALSE, FALSE>>
    BY <1>2 DEF DefaultOptionsFor, ChoiceTypes, SingleChoice, TextTypes
  <2>2. DefaultOptionsFor(type) \in Seq(BOOLEAN) /\ Len(DefaultOptionsFor(type)) = 2
    BY <2>1
  <2>3. 2 \in OptionCounts(type)
    BY <1>1, <1>2 DEF OptionCounts, ChoiceTypes, SingleChoice
  <2>4. QED
    <3>1. Len(DefaultOptionsFor(type)) <= MaxOptions
      BY <1>1, <2>2
    <3>2. DefaultOptionsFor(type) \in Options
      BY <2>2, <3>1, OptionsAre
    <3>3. QED
      BY <2>2, <2>3, <3>2
<1>3. CASE type \in TextTypes \union {"numeric_answer"}
  <2>1. DefaultOptionsFor(type) = <<TRUE>>
    BY <1>3 DEF DefaultOptionsFor, ChoiceTypes, SingleChoice, TextTypes
  <2>2. DefaultOptionsFor(type) \in Seq(BOOLEAN) /\ Len(DefaultOptionsFor(type)) = 1
    BY <2>1
  <2>3. 1 \in OptionCounts(type)
    BY <1>1, <1>3 DEF OptionCounts, TextTypes
  <2>4. QED
    <3>1. Len(DefaultOptionsFor(type)) <= MaxOptions
      BY <1>1, <2>2
    <3>2. DefaultOptionsFor(type) \in Options
      BY <2>2, <3>1, OptionsAre
    <3>3. QED
      BY <2>2, <2>3, <3>2
<1>4. CASE type \in {"essay", "code_answer"}
  <2>1. DefaultOptionsFor(type) = <<>>
    BY <1>4 DEF DefaultOptionsFor, ChoiceTypes, SingleChoice, TextTypes
  <2>2. DefaultOptionsFor(type) \in Seq(BOOLEAN) /\ Len(DefaultOptionsFor(type)) = 0
    BY <2>1
  <2>3. 0 \in OptionCounts(type)
    BY <1>4 DEF OptionCounts, TextTypes
  <2>4. QED
    <3>1. Len(DefaultOptionsFor(type)) <= MaxOptions
      BY <1>1, <2>2
    <3>2. DefaultOptionsFor(type) \in Options
      BY <2>2, <3>1, OptionsAre
    <3>3. QED
      BY <2>2, <2>3, <3>2
<1>5. QED
  BY <1>2, <1>3, <1>4 DEF Types

\* The schema takes the shape of what the form sends when the form fits.
LEMMA PayloadFits ==
  ASSUME form \in Inputs
  PROVE  Fits(form) <=> ShapeFits(Payload)
<1>1. /\ Payload.options = form.options /\ Payload.type = form.type
      /\ Payload.language = form.language /\ Payload.testCases = form.testCases
      /\ Payload.previewHtml = (form.previewHtml /\ form.language = "css")
  BY DEF Inputs, Payload
<1>2. form.testCases \in 0..MaxTestCases
  BY DEF Inputs
<1>3. form.testCases <= MaxTestCases
  BY <1>2, SchemaAssumption
<1>4. QED
  BY <1>1, <1>3 DEF Fits, ShapeFits, CodeFits

\* The fields of a form that was changed.
Becomes(t, o, l, n) ==
  /\ form' \in Inputs /\ UNCHANGED <<editing, submitting, torn, lost>>
  /\ form'.type = t /\ form'.options = o /\ form'.language = l /\ form'.testCases = n

LEMMA TypeChanges ==
  ASSUME form \in Inputs, NEW type \in Types, HandleTypeChange(type)
  PROVE  Becomes(type, DefaultOptionsFor(type),
                 IF type = "code_answer" THEN form.language ELSE DefaultLanguage,
                 IF type = "code_answer" THEN DefaultTestCasesFor(form.language) ELSE 0)
<1>1. DefaultOptionsFor(type) \in Options
  BY DefaultOptionsFit
<1>2. DefaultTestCasesFor(form.language) \in 0..MaxTestCases /\ 0 \in 0..MaxTestCases
  BY SchemaAssumption DEF DefaultTestCasesFor
<1>3. DefaultLanguage \in Languages
  BY SchemaAssumption DEF DefaultLanguage
<1>4. \A c \in CompleteAfterRemoval : c \in BOOLEAN
  BY DEF CompleteAfterRemoval
<1>5. QED
  BY <1>1, <1>2, <1>3, <1>4 DEF HandleTypeChange, Set, Inputs, Becomes, Options

\* RemoveAt takes out one element and keeps the others in their order.
LEMMA RemoveAtElements ==
  ASSUME NEW S, NEW s \in Seq(S), NEW i \in 1..Len(s)
  PROVE  /\ RemoveAt(s, i) \in Seq(S)
         /\ DOMAIN RemoveAt(s, i) = 1..Len(s) - 1
         /\ \A k \in 1..Len(s) - 1 : RemoveAt(s, i)[k] = s[IF k < i THEN k ELSE k + 1]
<1> DEFINE l == SubSeq(s, 1, i - 1)
           r == SubSeq(s, i + 1, Len(s))
<1>1. i \in Nat /\ Len(s) \in Nat /\ i >= 1 /\ i <= Len(s) /\ \A k \in 1..Len(s) : s[k] \in S
  BY LenProperties
<1>2. l \in Seq(S) /\ Len(l) = i - 1 /\ \A k \in 1..i - 1 : l[k] = s[k]
  <2>1. 1 \in Int /\ i - 1 \in Int /\ \A k \in 1..i - 1 : s[k] \in S
    BY <1>1
  <2>2. QED
    BY <1>1, <2>1, SubSeqProperties
<1>3. r \in Seq(S) /\ Len(r) = Len(s) - i /\ \A k \in 1..Len(s) - i : r[k] = s[i + k]
  <2>1. i + 1 \in Int /\ Len(s) \in Int /\ \A k \in i + 1..Len(s) : s[k] \in S
    BY <1>1
  <2>2. /\ r \in Seq(S) /\ Len(r) = IF i + 1 <= Len(s) THEN Len(s) - (i + 1) + 1 ELSE 0
        /\ \A k \in 1..Len(s) - (i + 1) + 1 : r[k] = s[i + 1 + k - 1]
    BY <2>1, SubSeqProperties
  <2>3. QED
    BY <1>1, <2>2
<1>4. RemoveAt(s, i) = l \o r
  BY DEF RemoveAt
<1> HIDE DEF l, r
<1>5. /\ l \o r \in Seq(S) /\ Len(l \o r) = Len(l) + Len(r)
      /\ \A k \in 1..Len(l) + Len(r) :
           (l \o r)[k] = IF k <= Len(l) THEN l[k] ELSE r[k - Len(l)]
  BY <1>2, <1>3, ConcatProperties
<1>6. ASSUME NEW k \in 1..Len(s) - 1
      PROVE  (l \o r)[k] = s[IF k < i THEN k ELSE k + 1]
  <2>1. CASE k < i
    BY <1>1, <1>2, <1>3, <1>5, <2>1
  <2>2. CASE ~(k < i)
    <3>1. k - (i - 1) \in 1..Len(s) - i
      BY <1>1, <2>2
    <3>2. (l \o r)[k] = r[k - (i - 1)]
      BY <1>1, <1>2, <1>3, <1>5, <2>2
    <3>3. r[k - (i - 1)] = s[i + (k - (i - 1))] /\ i + (k - (i - 1)) = k + 1
      BY <1>1, <1>3, <3>1
    <3>4. QED
      BY <2>2, <3>2, <3>3
  <2>3. QED
    BY <2>1, <2>2
<1>7. Len(l \o r) = Len(s) - 1
  BY <1>1, <1>2, <1>3, <1>5
<1>8. DOMAIN (l \o r) = 1..Len(s) - 1
  BY <1>5, <1>7, LenProperties
<1>9. QED
  BY <1>4, <1>5, <1>6, <1>8

LEMMA LanguageChanges ==
  ASSUME form \in Inputs, NEW language \in Languages, HandleCodeLanguageChange(language)
  PROVE  \E n \in 0..MaxTestCases :
           Becomes(form.type, form.options, language, n) /\ (Executable(language) <=> n > 0)
<1> DEFINE n == IF Executable(language) /\ form.testCases > 0 THEN form.testCases
               ELSE DefaultTestCasesFor(language)
<1>1. form.testCases \in 0..MaxTestCases /\ MaxTestCases \in Nat \ {0}
  BY SchemaAssumption DEF Inputs
<1>2. n \in 0..MaxTestCases /\ (Executable(language) <=> n > 0)
  BY <1>1 DEF DefaultTestCasesFor
<1>3. PICK c \in BOOLEAN : Set([form EXCEPT !.language = language, !.testCases = n,
                                            !.previewHtml = @ /\ language = "css", !.complete = c])
  BY DEF HandleCodeLanguageChange, CompleteAfterRemoval, Inputs
<1> HIDE DEF n
<1>4. Becomes(form.type, form.options, language, n)
  BY <1>2, <1>3 DEF Becomes, Inputs, Set
<1>5. QED
  BY <1>2, <1>4

\* What is turned off and on, and the number of test cases.
LEMMA CasesChange ==
  ASSUME form \in Inputs, ChangePreview \/ FillIn \/ AddTestCase \/ RemoveTestCase
  PROVE  \E n \in 0..MaxTestCases :
           /\ Becomes(form.type, form.options, form.language, n)
           /\ n = form.testCases \/ (Executable(form.language) /\ n > 0)
<1>1. form.testCases \in 0..MaxTestCases /\ MaxTestCases \in Nat \ {0}
  BY SchemaAssumption DEF Inputs
<1>2. CASE ChangePreview \/ FillIn
  BY <1>1, <1>2 DEF ChangePreview, FillIn, Set, Becomes, Inputs
<1>3. CASE AddTestCase
  <2>1. form.testCases + 1 \in 0..MaxTestCases /\ form.testCases + 1 > 0 /\ Executable(form.language)
    BY <1>1, <1>3 DEF AddTestCase, OffersTestCases
  <2>2. QED
    BY <1>1, <1>3, <2>1 DEF AddTestCase, Set, Becomes, Inputs
<1>4. CASE RemoveTestCase
  <2>1. form.testCases - 1 \in 0..MaxTestCases /\ form.testCases - 1 > 0 /\ Executable(form.language)
    <3>1. form.testCases > 1 /\ Executable(form.language)
      BY <1>4, Zenon DEF RemoveTestCase, OffersTestCases
    <3>2. QED
      BY <1>1, <3>1
  <2>2. QED
    BY <1>1, <1>4, <2>1 DEF RemoveTestCase, Set, Becomes, Inputs, CompleteAfterRemoval
<1>5. QED
  BY <1>2, <1>3, <1>4

\* The options are marked, and there may be one more or one less.
LEMMA OptionsChange ==
  ASSUME form \in Inputs,
         AddOption \/ \E i \in DOMAIN form.options : SetCorrectOption(i) \/ RemoveOption(i)
  PROVE  \E o \in Options :
           /\ Becomes(form.type, o, form.language, form.testCases)
           /\ Len(form.options) \in OptionCounts(form.type) => Len(o) \in OptionCounts(form.type)
<1>1. /\ form.options \in Seq(BOOLEAN) /\ Len(form.options) <= MaxOptions /\ form.type \in Types
      /\ form.options \in Options
  BY OptionsAre DEF Inputs, Options
<1>2. Len(form.options) \in Nat /\ DOMAIN form.options = 1..Len(form.options) /\ MaxOptions \in Nat
  BY <1>1, SchemaAssumption
<1>3. ASSUME NEW o \in Seq(BOOLEAN), Len(o) <= MaxOptions, NEW c \in BOOLEAN,
             Set([form EXCEPT !.options = o, !.complete = c])
      PROVE  o \in Options /\ Becomes(form.type, o, form.language, form.testCases)
  <2>1. o \in Options
    BY <1>3, OptionsAre
  <2>2. QED
    BY <1>3, <2>1 DEF Set, Becomes, Inputs, Options
<1>4. CASE AddOption
  <2> DEFINE o == Append(form.options, FALSE)
  <2>1. o \in Seq(BOOLEAN) /\ Len(o) = Len(form.options) + 1
    BY <1>1
  <2>2. /\ Len(form.options) < MaxOptions /\ Set([form EXCEPT !.options = o, !.complete = FALSE])
        /\ form.type \in (ChoiceTypes \ {"true_false"}) \union TextTypes
    BY <1>4 DEF AddOption, OffersOption
  <2> HIDE DEF o
  <2>3. Len(o) <= MaxOptions
    BY <1>2, <2>1, <2>2
  <2>4. Len(form.options) \in OptionCounts(form.type) => Len(o) \in OptionCounts(form.type)
    BY <1>2, <2>1, <2>2, <2>3 DEF OptionCounts, ChoiceTypes, SingleChoice, TextTypes
  <2>5. QED
    BY <1>3, <2>1, <2>2, <2>3, <2>4
<1>5. ASSUME NEW i \in DOMAIN form.options, RemoveOption(i)
      PROVE  \E o \in Options :
               /\ Becomes(form.type, o, form.language, form.testCases)
               /\ Len(form.options) \in OptionCounts(form.type) => Len(o) \in OptionCounts(form.type)
  <2> DEFINE o == RemoveAt(form.options, i)
  <2>1. o \in Seq(BOOLEAN) /\ DOMAIN o = 1..Len(form.options) - 1
    BY <1>1, <1>2, <1>5, RemoveAtElements
  <2>2. PICK c \in BOOLEAN : Set([form EXCEPT !.options = o, !.complete = c])
    BY <1>5 DEF RemoveOption, CompleteAfterRemoval
  <2>3. \/ form.type \in ChoiceTypes \ {"true_false"} /\ Len(form.options) > 2
        \/ form.type \in TextTypes /\ Len(form.options) > 1
    BY <1>5 DEF RemoveOption, OffersRemoval
  <2> HIDE DEF o
  <2>4. Len(o) = Len(form.options) - 1
    BY <1>2, <2>1, <2>3, LenProperties
  <2>5. Len(form.options) \in OptionCounts(form.type) => Len(o) \in OptionCounts(form.type)
    BY <1>2, <2>3, <2>4 DEF OptionCounts, ChoiceTypes, SingleChoice, TextTypes
  <2>6. Len(o) <= MaxOptions
    BY <1>1, <1>2, <2>4
  <2>7. QED
    BY <1>3, <2>1, <2>2, <2>5, <2>6
<1>6. ASSUME NEW i \in DOMAIN form.options, SetCorrectOption(i)
      PROVE  \E o \in Options :
               /\ Becomes(form.type, o, form.language, form.testCases)
               /\ Len(form.options) \in OptionCounts(form.type) => Len(o) \in OptionCounts(form.type)
  <2>1. PICK o : /\ Set([form EXCEPT !.options = o])
                 /\ o = [j \in DOMAIN form.options |-> j = i]
                      \/ o = [form.options EXCEPT ![i] = ~form.options[i]]
    BY <1>6 DEF SetCorrectOption
  <2>2. o \in [1..Len(form.options) -> BOOLEAN]
    <3>1. form.options \in [1..Len(form.options) -> BOOLEAN]
      BY <1>1, <1>2, LenProperties
    <3>2. QED
      BY <1>2, <2>1, <3>1
  <2>3. o \in Seq(BOOLEAN) /\ Len(o) = Len(form.options)
    BY <1>2, <2>2
  <2>4. form.complete \in BOOLEAN /\ [form EXCEPT !.options = o] = [form EXCEPT !.options = o, !.complete = form.complete]
    BY DEF Inputs
  <2>5. QED
    BY <1>1, <1>3, <2>1, <2>3, <2>4
<1>7. QED
  BY <1>4, <1>5, <1>6

\* Whatever is done with the form, it stays a form, and one that fits.
LEMMA EditFits ==
  ASSUME form \in Inputs, Edit
  PROVE  /\ form' \in Inputs /\ UNCHANGED <<editing, submitting, torn, lost>>
         /\ Fits(form) => Fits(form')
<1>1. ASSUME NEW type \in Types, HandleTypeChange(type)
      PROVE  Becomes(type, form'.options, form'.language, form'.testCases) /\ Fits(form')
  <2>1. Len(DefaultOptionsFor(type)) \in OptionCounts(type)
    BY DefaultOptionsFit
  <2>2. QED
    BY <1>1, <2>1, TypeChanges DEF Becomes, Fits, DefaultTestCasesFor
<1>2. ASSUME NEW language \in Languages, HandleCodeLanguageChange(language)
      PROVE  /\ Becomes(form.type, form.options, form'.language, form'.testCases)
             /\ Fits(form) => Fits(form')
  BY <1>2, LanguageChanges DEF Becomes, Fits
<1>3. CASE ChangePreview \/ FillIn \/ AddTestCase \/ RemoveTestCase
  BY <1>3, CasesChange DEF Becomes, Fits
<1>4. CASE AddOption \/ \E i \in DOMAIN form.options : SetCorrectOption(i) \/ RemoveOption(i)
  BY <1>4, OptionsChange DEF Becomes, Fits
<1>5. QED
  BY <1>1, <1>2, <1>3, <1>4, Zenon DEF Edit, Becomes

-----------------------------------------------------------------------------
(* The invariant of the page: its list, its deletion and its form.         *)

\* The types of the list, of its requests and of a deletion.
Queries == [filter : BOOLEAN, search : BOOLEAN, page : Int]
Lists ==
  [filter : BOOLEAN, search : BOOLEAN, debounced : BOOLEAN, page : Int,
   items : SUBSET Questions, total : Int, shown : Queries, loading : BOOLEAN, error : BOOLEAN,
   selected : SUBSET Questions, facets : BOOLEAN]
Loads ==
  [query : Queries, stage : {"sent", "counted", "answered"}, total : Int,
   items : SUBSET Questions, cancelled : BOOLEAN]
Deletions ==
  [ids : SUBSET Questions, bulk : BOOLEAN, stage : {"none", "sent", "answered"}, count : Int,
   orphan : BOOLEAN]

\* A request that was not cancelled is for the query of the list.
ListSound(l, ls) ==
  /\ l \in Lists /\ ls \in Seq(Loads)
  /\ \A i \in DOMAIN ls : ~ls[i].cancelled => ls[i].query = QueryOf(l)
  /\ ~l.loading /\ ~l.error => l.shown = QueryOf(l)

FormSound(f, v, t) ==
  /\ f = NoForm \/ f \in Inputs
  /\ v = "form" <=> f # NoForm
  /\ f # NoForm /\ ~t => Fits(f)

\* The save of the tab is the form's, until the tab leaves it; once its answer is
\* lost there is no other.
SaveSound(s) ==
  /\ submitting => view = "form"
  /\ s # Idle /\ ~s.orphan => submitting /\ ~lost
  /\ lost => submitting /\ s = Idle
  /\ submitting /\ ~lost => s # Idle /\ ~s.orphan

TabSound ==
  /\ view \in {"list", "reading", "form", "missing"}
  /\ submitting \in BOOLEAN /\ torn \in BOOLEAN /\ lost \in BOOLEAN
  /\ SaveSound(saves["tab"])

PageSound ==
  /\ ListSound(list, loads) /\ deletion \in Deletions
  /\ FormSound(form, view, torn) /\ TabSound

-----------------------------------------------------------------------------
LEMMA CountsAreNumbers ==
  ASSUME NEW S \in SUBSET Questions
  PROVE  Cardinality(S) \in Int
<1>1. IsFiniteSet(Questions)
  BY FS_Interval, BankAssumption DEF Questions
<1>2. QED
  BY <1>1, FS_Subset, FS_CardinalityType

LEMMA NewListSound ==
  /\ NewList \in Lists /\ Request(NewList) \in Loads
  /\ ListSound(NewList, << >>) /\ ListSound(NewList, << Request(NewList) >>)
<1>1. NewList \in Lists /\ NewList.loading
  BY DEF NewList, NoQuery, Lists, Queries
<1>2. /\ Request(NewList) \in Loads /\ Request(NewList).query = QueryOf(NewList)
  BY <1>1 DEF Request, QueryOf, Lists, Loads, Queries
<1>3. QED
  BY <1>1, <1>2 DEF ListSound

\* A request is gone from the list, or goes on with the same query.
LEMMA LoadsGo ==
  ASSUME NEW l, NEW ls, ListSound(l, ls), NEW i \in DOMAIN ls
  PROVE  /\ ListSound(l, RemoveAt(ls, i))
         /\ \A x \in Loads : x.query = ls[i].query /\ x.cancelled = ls[i].cancelled
              => ListSound(l, [ls EXCEPT ![i] = x])
<1>1. /\ ls \in Seq(Loads) /\ Len(ls) \in Nat /\ DOMAIN ls = 1..Len(ls)
      /\ l \in Lists /\ \A j \in 1..Len(ls) : ~ls[j].cancelled => ls[j].query = QueryOf(l)
      /\ ~l.loading /\ ~l.error => l.shown = QueryOf(l)
  BY LenProperties DEF ListSound
<1>2. ListSound(l, RemoveAt(ls, i))
  <2> DEFINE rs == RemoveAt(ls, i)
  <2>1. /\ rs \in Seq(Loads) /\ DOMAIN rs = 1..Len(ls) - 1
        /\ \A k \in 1..Len(ls) - 1 : rs[k] = ls[IF k < i THEN k ELSE k + 1]
    BY <1>1, RemoveAtElements
  <2> HIDE DEF rs
  <2>2. ASSUME NEW k \in DOMAIN rs, ~rs[k].cancelled
        PROVE  rs[k].query = QueryOf(l)
    <3>1. PICK j \in 1..Len(ls) : rs[k] = ls[j]
      BY <1>1, <2>1
    <3>2. QED
      BY <1>1, <2>2, <3>1
  <2>3. QED
    BY <1>1, <2>1, <2>2 DEF ListSound, rs
<1>3. ASSUME NEW x \in Loads, x.query = ls[i].query, x.cancelled = ls[i].cancelled
      PROVE  ListSound(l, [ls EXCEPT ![i] = x])
  <2> DEFINE rs == [ls EXCEPT ![i] = x]
  <2>1. /\ rs \in Seq(Loads) /\ DOMAIN rs = DOMAIN ls
        /\ \A k \in DOMAIN ls : rs[k] = IF k = i THEN x ELSE ls[k]
    BY <1>1, ExceptSeq
  <2> HIDE DEF rs
  <2>2. QED
    BY <1>1, <1>3, <2>1 DEF ListSound, rs
<1>4. QED
  BY <1>2, <1>3

\* The list is shown with other fields.
LEMMA ShownAs ==
  ASSUME ListSound(list, loads), NEW l \in Lists,
         l.loading = list.loading, l.error = list.error, l.shown = list.shown, ShowAs(l)
  PROVE  ListSound(list', loads')
<1>1. CASE QueryOf(l) = QueryOf(list)
  BY <1>1 DEF ShowAs, ListSound
<1>2. CASE QueryOf(l) # QueryOf(list)
  <2> DEFINE n == [l EXCEPT !.loading = TRUE, !.error = FALSE]
             c == Cancel(loads)
  <2>1. list' = n /\ loads' = Append(c, Request(l))
    BY <1>2 DEF ShowAs
  <2>2. n \in Lists /\ n.loading /\ QueryOf(n) = QueryOf(l)
    BY DEF Lists, QueryOf
  <2>3. c \in Seq(Loads) /\ \A i \in DOMAIN c : c[i].cancelled
    <3>1. loads \in Seq(Loads) /\ Len(loads) \in Nat /\ DOMAIN loads = 1..Len(loads)
      BY LenProperties DEF ListSound
    <3>2. \A x \in Loads : [x EXCEPT !.cancelled = TRUE] \in Loads /\ [x EXCEPT !.cancelled = TRUE].cancelled
      BY DEF Loads
    <3>3. \A i \in 1..Len(loads) : loads[i] \in Loads
      BY <3>1
    <3>4. c \in [1..Len(loads) -> Loads] /\ \A i \in 1..Len(loads) : c[i].cancelled
      BY <3>1, <3>2, <3>3 DEF Cancel
    <3>5. QED
      BY <3>1, <3>4
  <2>4. Request(l) \in Loads /\ Request(l).query = QueryOf(l)
    BY DEF Request, QueryOf, Lists, Loads, Queries
  <2> HIDE DEF n, c
  <2>5. /\ Append(c, Request(l)) \in Seq(Loads)
        /\ \A i \in DOMAIN Append(c, Request(l)) :
             Append(c, Request(l))[i].cancelled \/ Append(c, Request(l))[i] = Request(l)
    BY <2>3, <2>4, AppendProperties
  <2>6. QED
    BY <2>1, <2>2, <2>4, <2>5 DEF ListSound
<1>3. QED
  BY <1>1, <1>2

\* The form and the tab's save stay as they are.
LEMMA FormStays ==
  ASSUME PageSound, UNCHANGED <<view, formVars>>, saves'["tab"] = saves["tab"]
  PROVE  FormSound(form', view', torn') /\ TabSound'
BY DEF PageSound, TabSound, SaveSound, FormSound, formVars

LEMMA RequestsKeep ==
  ASSUME PageSound, LoadStep \/ \E i \in DOMAIN loads : FailList(i)
  PROVE  PageSound'
<1>1. PICK i \in DOMAIN loads : CountQuestions(i) \/ ReadPage(i) \/ ShowList(i) \/ FailList(i)
  BY DEF LoadStep
<1>2. UNCHANGED <<deletion, view, formVars>> /\ saves'["tab"] = saves["tab"]
  BY <1>1 DEF CountQuestions, ReadPage, ShowList, FailList, bankVars
<1>3. loads[i] \in Loads /\ ListSound(list, loads) /\ list \in Lists
  BY ElementOfSeq, LenProperties DEF PageSound, ListSound
<1>4. ListSound(list', loads')
  <2>1. CASE CountQuestions(i) \/ ReadPage(i)
    <3>1. \A query : PageOf(query) \in SUBSET Questions /\ Cardinality(Matching(query)) \in Int
      <4>1. \A query : Matching(query) \in SUBSET Questions /\ PageOf(query) \in SUBSET Questions
        BY DEF PageOf, Matching, LiveQuestions
      <4>2. QED
        BY <4>1, CountsAreNumbers
    <3>2. \E x \in Loads : /\ x.query = loads[i].query /\ x.cancelled = loads[i].cancelled
                           /\ loads' = [loads EXCEPT ![i] = x] /\ list' = list
      <4>1. CASE CountQuestions(i)
        <5> DEFINE x == [loads[i] EXCEPT !.stage = "counted", !.total = Cardinality(Matching(loads[i].query))]
        <5>1. x \in Loads /\ x.query = loads[i].query /\ x.cancelled = loads[i].cancelled
          BY <1>3, <3>1 DEF Loads
        <5>2. loads' = [loads EXCEPT ![i] = x] /\ list' = list
          BY <4>1, <1>3 DEF CountQuestions
        <5> HIDE DEF x
        <5>3. QED
          BY <5>1, <5>2
      <4>2. CASE ReadPage(i)
        <5> DEFINE x == [loads[i] EXCEPT !.stage = "answered", !.items = PageOf(loads[i].query)]
        <5>1. x \in Loads /\ x.query = loads[i].query /\ x.cancelled = loads[i].cancelled
          BY <1>3, <3>1 DEF Loads
        <5>2. loads' = [loads EXCEPT ![i] = x] /\ list' = list
          BY <4>2, <1>3 DEF ReadPage
        <5> HIDE DEF x
        <5>3. QED
          BY <5>1, <5>2
      <4>3. QED
        BY <2>1, <4>1, <4>2
    <3>3. PICK x \in Loads : /\ x.query = loads[i].query /\ x.cancelled = loads[i].cancelled
                            /\ loads' = [loads EXCEPT ![i] = x] /\ list' = list
      BY <3>2
    <3>4. ListSound(list, [loads EXCEPT ![i] = x])
      BY <1>3, <3>3, LoadsGo
    <3>5. QED
      BY <3>3, <3>4
  <2>2. CASE ShowList(i)
    <3>1. loads' = RemoveAt(loads, i) /\ ListSound(list, loads')
      BY <1>3, <2>2, LoadsGo DEF ShowList
    <3>2. CASE loads[i].cancelled
      BY <2>2, <3>1, <3>2 DEF ShowList
    <3>3. CASE ~loads[i].cancelled
      <4>1. loads[i].query = QueryOf(list)
        BY <1>3, <3>3 DEF ListSound
      <4>2. list' = [list EXCEPT !.items = loads[i].items, !.total = loads[i].total,
                                 !.shown = loads[i].query, !.loading = FALSE]
        BY <2>2, <3>3 DEF ShowList
      <4>3. list' \in Lists /\ QueryOf(list') = QueryOf(list) /\ list'.shown = QueryOf(list)
        BY <1>3, <4>1, <4>2 DEF Lists, Loads, QueryOf
      <4>4. QED
        BY <3>1, <4>3 DEF ListSound
    <3>4. QED
      BY <3>2, <3>3
  <2>3. CASE FailList(i)
    <3>1. loads' = RemoveAt(loads, i) /\ ListSound(list, loads')
      BY <1>3, <2>3, LoadsGo DEF FailList
    <3>2. list' = list \/ list' = [list EXCEPT !.error = TRUE, !.loading = FALSE]
      BY <2>3 DEF FailList
    <3>3. list' \in Lists /\ QueryOf(list') = QueryOf(list) /\ (list' = list \/ list'.error)
      BY <1>3, <3>2 DEF Lists, QueryOf
    <3>4. QED
      BY <3>1, <3>3 DEF ListSound
  <2>4. QED
    BY <1>1, <2>1, <2>2, <2>3
<1>5. QED
  BY <1>2, <1>4, FormStays DEF PageSound

\* Another page is shown, and nothing of it is selected.
LEMMA OnPage ==
  ASSUME NEW k \in Lists, NEW p \in Int, NEW l, l = [k EXCEPT !.page = p, !.selected = {}]
  PROVE  l \in Lists /\ l.loading = k.loading /\ l.error = k.error /\ l.shown = k.shown
BY DEF Lists

LEMMA ListKeeps ==
  ASSUME PageSound,
         \/ ReadFacets \/ UpdateFilter \/ HandleSearchChange \/ SearchDebounced \/ TurnPage
         \/ ToggleSelectAll \/ ClearSelection \/ \E q \in Questions : ToggleSelected(q)
  PROVE  PageSound'
<1>1. UNCHANGED <<deletion, view, formVars>> /\ saves'["tab"] = saves["tab"]
  BY DEF ReadFacets, UpdateFilter, HandleSearchChange, SearchDebounced, TurnPage,
         ToggleSelectAll, ClearSelection, ToggleSelected, Do, bankVars
<1>2. ListSound(list, loads) /\ list \in Lists
  BY DEF PageSound, ListSound
<1>3. ListSound(list', loads')
  <2>1. CASE ReadFacets
    <3>1. list' \in Lists /\ QueryOf(list') = QueryOf(list) /\ list'.shown = list.shown
          /\ list'.loading = list.loading /\ list'.error = list.error /\ loads' = loads
      BY <1>2, <2>1 DEF ReadFacets, Lists, QueryOf
    <3>2. QED
      BY <1>2, <3>1 DEF ListSound
  <2>2. ASSUME NEW l, ShowAs(l),
               \/ l = [list EXCEPT !.filter = ~@, !.page = 1, !.selected = {}]
               \/ l = [list EXCEPT !.search = ~@, !.page = 1, !.selected = {}]
               \/ l = [list EXCEPT !.debounced = list.search]
        PROVE  ListSound(list', loads')
    <3>1. CASE l = [list EXCEPT !.filter = ~@, !.page = 1, !.selected = {}]
      <4>1. PICK b \in BOOLEAN : l = [list EXCEPT !.filter = b, !.page = 1, !.selected = {}]
        BY <3>1
      <4> DEFINE k == [list EXCEPT !.filter = b]
      <4>2. k \in Lists /\ k.loading = list.loading /\ k.error = list.error /\ k.shown = list.shown
        BY <1>2 DEF Lists
      <4>3. l = [k EXCEPT !.page = 1, !.selected = {}]
        BY <4>1
      <4> HIDE DEF k
      <4>4. l \in Lists /\ l.loading = list.loading /\ l.error = list.error /\ l.shown = list.shown
        BY <4>2, <4>3, 1 \in Int, OnPage
      <4>5. QED
        BY <1>2, <2>2, <4>4, ShownAs
    <3>2. CASE l = [list EXCEPT !.search = ~@, !.page = 1, !.selected = {}]
      <4>1. PICK b \in BOOLEAN : l = [list EXCEPT !.search = b, !.page = 1, !.selected = {}]
        BY <3>2
      <4> DEFINE k == [list EXCEPT !.search = b]
      <4>2. k \in Lists /\ k.loading = list.loading /\ k.error = list.error /\ k.shown = list.shown
        BY <1>2 DEF Lists
      <4>3. l = [k EXCEPT !.page = 1, !.selected = {}]
        BY <4>1
      <4> HIDE DEF k
      <4>4. l \in Lists /\ l.loading = list.loading /\ l.error = list.error /\ l.shown = list.shown
        BY <4>2, <4>3, 1 \in Int, OnPage
      <4>5. QED
        BY <1>2, <2>2, <4>4, ShownAs
    <3>3. CASE l = [list EXCEPT !.debounced = list.search]
      <4>1. l \in Lists /\ l.loading = list.loading /\ l.error = list.error /\ l.shown = list.shown
        BY <1>2, <3>3 DEF Lists
      <4>2. QED
        BY <1>2, <2>2, <4>1, ShownAs
    <3>4. QED
      BY <2>2, <3>1, <3>2, <3>3
  <2>3. ASSUME NEW page \in Int, ShowAs([list EXCEPT !.page = page, !.selected = {}])
        PROVE  ListSound(list', loads')
    <3> DEFINE l == [list EXCEPT !.page = page, !.selected = {}]
    <3>1. l \in Lists /\ l.loading = list.loading /\ l.error = list.error /\ l.shown = list.shown
      BY <1>2, OnPage
    <3>2. ShowAs(l)
      BY <2>3
    <3> HIDE DEF l
    <3>3. QED
      BY <1>2, <3>1, <3>2, ShownAs
  <2>4. ASSUME NEW S \in SUBSET Questions, ShowAs([list EXCEPT !.selected = S])
        PROVE  ListSound(list', loads')
    <3> DEFINE l == [list EXCEPT !.selected = S]
    <3>1. l \in Lists /\ l.loading = list.loading /\ l.error = list.error /\ l.shown = list.shown
      BY <1>2 DEF Lists
    <3>2. ShowAs(l)
      BY <2>4
    <3> HIDE DEF l
    <3>3. QED
      BY <1>2, <3>1, <3>2, ShownAs
  <2>5. list.items \in SUBSET Questions /\ list.selected \in SUBSET Questions /\ list.page \in Int
    BY <1>2 DEF Lists
  <2>6. CASE UpdateFilter \/ HandleSearchChange \/ SearchDebounced
    BY <2>2, <2>6 DEF UpdateFilter, HandleSearchChange, SearchDebounced
  <2>7. CASE TurnPage
    <3>1. PICK page \in {list.page - 1, list.page + 1} :
            ShowAs([list EXCEPT !.page = page, !.selected = {}])
      BY <2>7 DEF TurnPage
    <3>2. page \in Int
      BY <2>5
    <3>3. QED
      BY <2>3, <3>1, <3>2
  <2>8. CASE ToggleSelectAll \/ ClearSelection \/ \E q \in Questions : ToggleSelected(q)
    <3>1. PICK S \in SUBSET Questions : ShowAs([list EXCEPT !.selected = S])
      <4>1. CASE ToggleSelectAll
        <5> DEFINE S == IF list.items \subseteq list.selected THEN list.selected \ list.items
                        ELSE list.selected \union list.items
        <5>1. S \in SUBSET Questions
          BY <2>5
        <5>2. ShowAs([list EXCEPT !.selected = S])
          BY <4>1 DEF ToggleSelectAll
        <5>3. QED
          BY <5>1, <5>2
      <4>2. CASE ClearSelection
        BY <4>2 DEF ClearSelection
      <4>3. ASSUME NEW q \in Questions, ToggleSelected(q)
            PROVE  \E S \in SUBSET Questions : ShowAs([list EXCEPT !.selected = S])
        <5>1. SymDiff(list.selected, {q}) \in SUBSET Questions
          BY <2>5 DEF SymDiff
        <5>2. ShowAs([list EXCEPT !.selected = SymDiff(list.selected, {q})])
          BY <4>3 DEF ToggleSelected
        <5>3. QED
          BY <5>1, <5>2
      <4>4. QED
        BY <2>8, <4>1, <4>2, <4>3
    <3>2. QED
      BY <2>4, <3>1
  <2>9. QED
    BY <2>1, <2>6, <2>7, <2>8
<1>4. QED
  BY <1>1, <1>3, FormStays DEF PageSound

LEMMA DeletionGoes ==
  ASSUME PageSound,
         \/ DeleteQuestions \/ DeletionAnswered \/ LoseDeletion
         \/ HandleBulkDelete \/ \E q \in Questions : HandleDelete(q)
  PROVE  PageSound'
<1>1. UNCHANGED <<loads, view, formVars>> /\ saves'["tab"] = saves["tab"]
  BY DEF DeleteQuestions, DeletionAnswered, LoseDeletion, HandleBulkDelete, HandleDelete, Ask, bankVars, listVars
<1>2. ListSound(list, loads) /\ list \in Lists /\ deletion \in Deletions /\ NoDeletion \in Deletions
  BY DEF PageSound, ListSound, NoDeletion, Deletions
<1>3. deletion' \in Deletions
  <2>1. CASE DeleteQuestions
    <3>1. Cardinality(deletion.ids \intersect LiveQuestions) \in Int
      BY CountsAreNumbers DEF LiveQuestions
    <3>2. QED
      BY <1>2, <2>1, <3>1 DEF DeleteQuestions, Deletions
  <2>2. CASE DeletionAnswered \/ LoseDeletion
    BY <1>2, <2>2 DEF DeletionAnswered, LoseDeletion
  <2>3. ASSUME NEW S \in SUBSET Questions, NEW b \in BOOLEAN, Ask(S, b)
        PROVE  deletion' \in Deletions
    BY <1>2, <2>3 DEF Ask, Deletions
  <2>4. list.items \in SUBSET Questions /\ list.selected \in SUBSET Questions
    BY <1>2 DEF Lists
  <2>5. CASE HandleBulkDelete
    BY <2>3, <2>4, <2>5 DEF HandleBulkDelete
  <2>6. CASE \E q \in Questions : HandleDelete(q)
    BY <2>3, <2>6 DEF HandleDelete
  <2>7. QED
    BY <2>1, <2>2, <2>5, <2>6
<1>4. ListSound(list', loads')
  <2>1. CASE list' = list
    BY <1>1, <1>2, <2>1
  <2>2. CASE list' # list
    <3>1. DeletionAnswered
      BY <2>2 DEF DeleteQuestions, LoseDeletion, HandleBulkDelete, HandleDelete, Ask, listVars
    <3> DEFINE n == IF list.shown = NoQuery THEN list.total ELSE list.total - deletion.count
               s == IF deletion.bulk THEN {} ELSE list.selected
    <3>2. list' = [list EXCEPT !.items = @ \ deletion.ids, !.total = n, !.selected = s]
      BY <2>2, <3>1 DEF DeletionAnswered
    <3>3. n \in Int /\ s \in SUBSET Questions
      BY <1>2 DEF Lists, Deletions
    <3> HIDE DEF n, s
    <3>4. /\ list' \in Lists /\ QueryOf(list') = QueryOf(list) /\ list'.shown = list.shown
          /\ list'.loading = list.loading /\ list'.error = list.error
      BY <1>2, <3>2, <3>3 DEF Lists, QueryOf
    <3>5. QED
      BY <1>1, <1>2, <3>4 DEF ListSound
  <2>3. QED
    BY <2>1, <2>2
<1>5. QED
  BY <1>1, <1>3, <1>4, FormStays DEF PageSound

-----------------------------------------------------------------------------
(* The form opens, is edited, and is saved.                                *)

\* A blank form, and the form of a question that was read, are forms that fit.
LEMMA BlankFits == BlankForm \in Inputs /\ Fits(BlankForm)
<1>1. "multiple_choice" \in Types /\ "python" \in Languages /\ 0 \in 0..MaxTestCases
  BY SchemaAssumption DEF Types, ChoiceTypes, SingleChoice
<1>2. /\ DefaultOptionsFor("multiple_choice") \in Options
      /\ Len(DefaultOptionsFor("multiple_choice")) \in OptionCounts("multiple_choice")
  BY <1>1, DefaultOptionsFit
<1>3. QED
  BY <1>1, <1>2 DEF BlankForm, DefaultLanguage, Inputs, Fits, Options

LEMMA StoredFits ==
  ASSUME NEW question \in StoredQuestions
  PROVE  /\ FormOf(question) \in Inputs /\ Fits(FormOf(question))
         /\ \A newer \in StoredQuestions :
              FormOf([question EXCEPT !.options = newer.options, !.testCases = newer.testCases]) \in Inputs
<1> DEFINE Shapes == [type : Types, options : Options, language : Languages \union {"none"},
                     testCases : 0..MaxTestCases, previewHtml : BOOLEAN, complete : BOOLEAN]
<1>1. "python" \in Languages /\ 0 \in 0..MaxTestCases
  BY SchemaAssumption
<1>2. ASSUME NEW x \in StoredQuestions
      PROVE  /\ x \in Shapes /\ Len(x.options) \in OptionCounts(x.type)
             /\ x.type = "code_answer" =>
                  x.language # "none" /\ (Executable(x.language) <=> x.testCases > 0)
  <2>1. PICK input \in Inputs : Accepts(input) /\ x = Stored(input)
    BY DEF StoredQuestions
  <2>2. input.options \in Seq(BOOLEAN) /\ Len(input.options) <= MaxOptions
    BY OptionsAre DEF Inputs, Options
  <2> DEFINE o == [i \in DOMAIN input.options |-> input.options[i] \/ input.type \notin ChoiceTypes]
  <2>3. o \in Seq(BOOLEAN) /\ Len(o) = Len(input.options)
    <3>1. Len(input.options) \in Nat /\ DOMAIN input.options = 1..Len(input.options)
      BY <2>2, LenProperties
    <3>2. \A i \in 1..Len(input.options) : input.options[i] \in BOOLEAN
      BY <2>2, <3>1
    <3>3. o \in [1..Len(input.options) -> BOOLEAN]
      BY <3>1, <3>2
    <3> HIDE DEF o
    <3>4. QED
      BY <3>1, <3>3
  <2>4. o \in Options
    BY <2>2, <2>3, OptionsAre
  <2>5. /\ x.type = input.type /\ x.options = o
        /\ x.language = IF input.type = "code_answer" THEN input.language ELSE "none"
        /\ x.testCases = IF input.type = "code_answer" THEN input.testCases ELSE 0
        /\ x.previewHtml = (input.previewHtml /\ input.type = "code_answer")
        /\ x.complete = input.complete
        /\ x = [type |-> x.type, options |-> x.options, language |-> x.language,
                testCases |-> x.testCases, previewHtml |-> x.previewHtml, complete |-> x.complete]
    BY <2>1 DEF Stored, Inputs
  <2>6. /\ input.type \in Types /\ input.language \in Languages /\ input.testCases \in 0..MaxTestCases
        /\ input.complete \in BOOLEAN
    BY DEF Inputs
  <2>7. /\ Len(input.options) \in OptionCounts(input.type)
        /\ input.type = "code_answer" => (Executable(input.language) <=> input.testCases > 0)
    BY <2>1 DEF Accepts, ShapeFits, CodeFits
  <2>8. "none" \notin Languages
    BY SchemaAssumption
  <2> HIDE DEF o
  <2>9. x.previewHtml \in BOOLEAN
    BY <2>5
  <2>10. x \in Shapes
    BY <1>1, <2>4, <2>5, <2>6, <2>9
  <2>11. QED
    BY <2>3, <2>5, <2>6, <2>7, <2>8, <2>10
<1>3. ASSUME NEW x \in Shapes
      PROVE  /\ FormOf(x) \in Inputs /\ FormOf(x).type = x.type /\ FormOf(x).options = x.options
             /\ FormOf(x).testCases = x.testCases
             /\ x.language # "none" => FormOf(x).language = x.language
  BY <1>1 DEF FormOf, DefaultLanguage, Inputs, Options
<1>4. question \in Shapes
  BY <1>2
<1>5. ASSUME NEW newer \in StoredQuestions
      PROVE  [question EXCEPT !.options = newer.options, !.testCases = newer.testCases] \in Shapes
  <2>1. newer.options \in Options /\ newer.testCases \in 0..MaxTestCases
    BY <1>2
  <2>2. QED
    BY <1>4, <2>1
<1> HIDE DEF Shapes
<1>6. FormOf(question) \in Inputs /\ Fits(FormOf(question))
  BY <1>2, <1>3, <1>4 DEF Fits
<1>7. QED
  BY <1>3, <1>5, <1>6

LEMMA FormIsOpen ==
  \A f \in Inputs : f # NoForm
<1>1. "none" \notin Types
  BY DEF Types, ChoiceTypes, SingleChoice, TextTypes
<1>2. \A f \in Inputs : f.type # "none"
  BY <1>1 DEF Inputs
<1>3. NoForm.type = "none"
  BY DEF NoForm
<1>4. QED
  BY <1>2, <1>3

\* The tab opens a form, or the list anew.
LEMMA OpenedForm ==
  ASSUME NEW f \in Inputs, NEW q, NEW m \in BOOLEAN, m \/ Fits(f), OpenForm(f, q, m),
         saves'["tab"] # Idle => saves'["tab"].orphan
  PROVE  FormSound(form', view', torn') /\ TabSound'
BY FormIsOpen DEF OpenForm, FormSound, TabSound, SaveSound

LEMMA OpenedList ==
  ASSUME ShowNewList, deletion' \in Deletions, saves'["tab"] # Idle => saves'["tab"].orphan
  PROVE  PageSound'
<1>1. ListSound(list', loads')
  BY NewListSound DEF ShowNewList
<1>2. FormSound(form', view', torn') /\ TabSound'
  BY DEF ShowNewList, FormSound, TabSound, SaveSound
<1>3. QED
  BY <1>1, <1>2 DEF PageSound

LEMMA FormOpens ==
  ASSUME PageSound, OpenNew \/ ReadDetails \/ \E q \in Questions : OpenEdit(q)
  PROVE  PageSound'
<1>1. /\ deletion \in Deletions /\ ListSound(list, loads)
      /\ ~submitting /\ saves'["tab"] = saves["tab"] /\ (saves["tab"] # Idle => saves["tab"].orphan)
      /\ view \in {"list", "reading"} /\ torn \in BOOLEAN /\ lost \in BOOLEAN /\ ~lost
  BY DEF PageSound, TabSound, SaveSound, OpenNew, ReadDetails, OpenEdit, OffersRow, bankVars
<1>2. ASSUME Unmount
      PROVE  ListSound(list', loads') /\ deletion' \in Deletions
  <2>1. [deletion EXCEPT !.orphan = TRUE] \in Deletions
    BY <1>1 DEF Deletions
  <2>2. QED
    BY <1>1, <1>2, <2>1, NewListSound DEF Unmount
<1>3. CASE OpenNew
  BY <1>1, <1>2, <1>3, BlankFits, OpenedForm DEF OpenNew, PageSound
<1>4. CASE ReadDetails
  <2>1. \E f \in Inputs, m \in BOOLEAN : OpenForm(f, editing, m) /\ (m \/ Fits(f))
    BY <1>4, StoredFits DEF ReadDetails
  <2>2. UNCHANGED <<list, loads, deletion>>
    BY <1>4 DEF ReadDetails, listVars
  <2>3. QED
    BY <1>1, <2>1, <2>2, OpenedForm DEF PageSound
<1>5. CASE \E q \in Questions : OpenEdit(q)
  <2>1. /\ Unmount /\ view' \in {"reading", "missing"} /\ UNCHANGED <<form, submitting, torn, lost>>
        /\ view = "list"
    BY <1>5 DEF OpenEdit, OffersRow
  <2>2. form' = NoForm
    BY <2>1 DEF PageSound, FormSound
  <2>3. FormSound(form', view', torn')
    BY <2>1, <2>2 DEF FormSound
  <2>4. TabSound'
    <3>1. /\ view' \in {"list", "reading", "form", "missing"}
          /\ submitting' \in BOOLEAN /\ torn' \in BOOLEAN /\ lost' \in BOOLEAN
      BY <1>1, <2>1 DEF PageSound, TabSound
    <3>2. ~submitting' /\ ~lost'
      BY <1>1, <2>1
    <3>3. saves'["tab"] # Idle => saves'["tab"].orphan
      BY <1>1
    <3>4. QED
      BY <3>1, <3>2, <3>3 DEF TabSound, SaveSound
  <2>5. QED
    BY <1>2, <2>1, <2>3, <2>4 DEF PageSound
<1>6. QED
  BY <1>3, <1>4, <1>5

LEMMA FormEdited ==
  ASSUME PageSound, EditForm
  PROVE  PageSound'
<1>1. /\ view = "form" /\ UNCHANGED <<list, loads, deletion, view>> /\ saves'["tab"] = saves["tab"]
      /\ form \in Inputs
  BY DEF EditForm, PageSound, FormSound, bankVars, listVars
<1>2. /\ form' \in Inputs /\ UNCHANGED <<submitting, torn, lost>> /\ (Fits(form) => Fits(form'))
  BY <1>1, EditFits DEF EditForm
<1>3. FormSound(form', view', torn')
  BY <1>1, <1>2, FormIsOpen DEF PageSound, FormSound
<1>4. TabSound'
  BY <1>1, <1>2 DEF PageSound, TabSound, SaveSound
<1>5. QED
  BY <1>1, <1>3, <1>4 DEF PageSound

\* The save of the tab goes on, and the page with it.
LEMMA SaveGoes ==
  ASSUME PageSound, UNCHANGED <<list, loads, deletion, view, formVars>>,
         \/ saves'["tab"] = saves["tab"]
         \/ /\ saves["tab"] # Idle /\ saves'["tab"] # Idle
            /\ saves'["tab"].orphan = saves["tab"].orphan
  PROVE  PageSound'
BY DEF PageSound, TabSound, SaveSound, FormSound, formVars

LEMMA WritesKeep ==
  ASSUME IInv, PageSound,
         \/ CreateQuestion
         \/ \E w \in Writers : CheckQuestion(w) \/ UpdateRow(w) \/ ReplaceDetails(w) \/ Commit(w)
  PROVE  PageSound'
<1>1. UNCHANGED <<list, loads, deletion, view, formVars>>
  BY DEF CreateQuestion, CheckQuestion, UpdateRow, ReplaceDetails, Commit, listVars
<1>2. saves \in [Writers -> Saves] /\ saves["tab"] \in Saves /\ "tab" \in Writers
  BY DEF IInv, RowsTypeOK, Writers
<1>3. ASSUME NEW x \in Saves, saves' = [saves EXCEPT !["tab"] = x], x.stage # "idle",
             x.orphan = saves["tab"].orphan, saves["tab"].stage # "idle"
      PROVE  PageSound'
  <2>1. saves'["tab"] = x /\ saves["tab"] # Idle /\ x # Idle
    BY <1>2, <1>3 DEF Idle
  <2>2. QED
    BY <1>1, <1>3, <2>1, SaveGoes
<1>4. CASE CreateQuestion
  <2> DEFINE x == [saves["tab"] EXCEPT !.stage = "saved"]
  <2>1. x \in Saves /\ x.stage # "idle" /\ x.orphan = saves["tab"].orphan
    BY <1>2 DEF Saves
  <2>2. saves' = [saves EXCEPT !["tab"] = x] /\ saves["tab"].stage # "idle"
    BY <1>4 DEF CreateQuestion
  <2> HIDE DEF x
  <2>3. QED
    BY <1>3, <2>1, <2>2
<1>5. ASSUME NEW w \in Writers, w # "tab",
             CheckQuestion(w) \/ UpdateRow(w) \/ ReplaceDetails(w) \/ Commit(w)
      PROVE  PageSound'
  <2>1. saves'["tab"] = saves["tab"]
    BY <1>2, <1>5 DEF CheckQuestion, UpdateRow, ReplaceDetails, Commit
  <2>2. QED
    BY <1>1, <2>1, SaveGoes
<1>6. CASE CheckQuestion("tab") \/ UpdateRow("tab") \/ ReplaceDetails("tab") \/ Commit("tab")
  <2>1. /\ saves["tab"].stage # "idle"
        /\ saves'["tab"] # Idle /\ saves'["tab"].orphan = saves["tab"].orphan
    <3>1. \A s \in {"checked", "refused", "locked"} :
            LET x == [saves["tab"] EXCEPT !.stage = s] IN x.stage = s /\ x.orphan = saves["tab"].orphan
      BY <1>2 DEF Saves
    <3>2. LET x == [saves["tab"] EXCEPT !.stage = "replaced", !.seen = details[saves["tab"].question]] IN
            x.stage = "replaced" /\ x.orphan = saves["tab"].orphan
      BY <1>2 DEF Saves
    <3>3. LET x == [saves["tab"] EXCEPT !.stage = "saved", !.seen = {}] IN
            x.stage = "saved" /\ x.orphan = saves["tab"].orphan
      BY <1>2 DEF Saves
    <3>4. Idle.stage = "idle"
      BY DEF Idle
    <3>5. CASE CheckQuestion("tab")
      BY <1>2, <3>1, <3>4, <3>5 DEF CheckQuestion
    <3>6. CASE UpdateRow("tab")
      BY <1>2, <3>1, <3>4, <3>6 DEF UpdateRow
    <3>7. CASE ReplaceDetails("tab")
      BY <1>2, <3>2, <3>4, <3>7 DEF ReplaceDetails
    <3>8. CASE Commit("tab")
      BY <1>2, <3>3, <3>4, <3>8 DEF Commit
    <3>9. QED
      BY <1>6, <3>5, <3>6, <3>7, <3>8
  <2>2. QED
    BY <1>1, <2>1, SaveGoes DEF Idle
<1>7. QED
  BY <1>4, <1>5, <1>6

LEMMA TabSaves ==
  ASSUME IInv, PageSound, HandleSubmit \/ SaveAnswered \/ SaveRefused \/ LoseSave \/ LeaveForm
  PROVE  PageSound'
<1>1. saves \in [Writers -> Saves] /\ saves["tab"] \in Saves /\ "tab" \in Writers
  BY DEF IInv, RowsTypeOK, Writers
<1>2. Idle.stage = "idle"
  BY DEF Idle
<1>3. CASE HandleSubmit
  <2> DEFINE x == [Idle EXCEPT !.stage = "sent", !.question = editing]
  <2>1. saves'["tab"] = x /\ x # Idle /\ ~x.orphan
    BY <1>1, <1>3 DEF HandleSubmit, Idle
  <2> HIDE DEF x
  <2>2. QED
    BY <1>3, <2>1 DEF HandleSubmit, PageSound, TabSound, SaveSound, FormSound, listVars
<1>4. CASE SaveAnswered
  <2>1. saves'["tab"] = Idle /\ deletion' = deletion
    BY <1>1, <1>4 DEF SaveAnswered
  <2>2. CASE view = "list"
    BY <1>4, <2>1, <2>2 DEF SaveAnswered, PageSound, TabSound, SaveSound, FormSound, listVars, formVars
  <2>3. CASE view # "list"
    BY <1>4, <2>1, <2>3, OpenedList DEF SaveAnswered, PageSound
  <2>4. QED
    BY <2>2, <2>3
<1>5. CASE SaveRefused
  <2>1. saves'["tab"] = Idle /\ saves["tab"] # Idle
    BY <1>1, <1>2, <1>5 DEF SaveRefused
  <2>2. QED
    BY <1>5, <2>1 DEF SaveRefused, PageSound, TabSound, SaveSound, FormSound, listVars
<1>6. CASE LoseSave
  <2>1. saves'["tab"] = Idle /\ saves["tab"] # Idle
    BY <1>1, <1>2, <1>6 DEF LoseSave
  <2>2. QED
    BY <1>6, <2>1 DEF LoseSave, PageSound, TabSound, SaveSound, FormSound, listVars
<1>7. CASE LeaveForm
  <2>1. [saves["tab"] EXCEPT !.orphan = TRUE].orphan
    BY <1>1 DEF Saves
  <2>2. saves'["tab"] # Idle => saves'["tab"].orphan
    BY <1>1, <1>7, <2>1 DEF LeaveForm
  <2>3. QED
    BY <1>7, <2>2, OpenedList DEF LeaveForm, PageSound
<1>8. QED
  BY <1>3, <1>4, <1>5, <1>6, <1>7

LEMMA ElsewhereQuiet ==
  ASSUME IInv, PageSound,
         CreateElsewhere \/ \E q \in Questions : EditElsewhere(q) \/ DeleteElsewhere(q)
  PROVE  PageSound'
<1>1. UNCHANGED <<list, loads, deletion, view, formVars>>
  BY DEF CreateElsewhere, EditElsewhere, DeleteElsewhere, Elsewhere, listVars
<1>2. saves'["tab"] = saves["tab"]
  BY DEF CreateElsewhere, EditElsewhere, DeleteElsewhere, IInv, RowsTypeOK, Writers
<1>3. QED
  BY <1>1, <1>2, SaveGoes

\* Every step keeps the page sound, given what is known of the saves.
LEMMA PageStep ==
  ASSUME IInv, PageSound, [Next]_vars
  PROVE  PageSound'
<1>1. CASE UNCHANGED vars
  BY <1>1, SaveGoes DEF vars, bankVars, listVars
<1>2. CASE Next
  BY <1>2, RequestsKeep, ListKeeps, DeletionGoes, FormOpens, FormEdited, WritesKeep, TabSaves,
     ElsewhereQuiet DEF Next
<1>3. QED
  BY <1>1, <1>2

LEMMA InitPageSound == Init => PageSound
<1> SUFFICES ASSUME Init PROVE PageSound
  OBVIOUS
<1>1. ListSound(list, loads)
  BY NewListSound DEF Init
<1>2. deletion \in Deletions
  BY DEF Init, NoDeletion, Deletions
<1>3. saves["tab"] = Idle
  BY DEF Init, Writers
<1>4. QED
  BY <1>1, <1>2, <1>3 DEF Init, PageSound, FormSound, TabSound, SaveSound


-----------------------------------------------------------------------------
(* The theorems of the page.                                               *)

LEMMA PageInvariant == Spec => []PageSound
<1>1. IInv /\ PageSound /\ [Next]_vars => PageSound'
  BY PageStep
<1>2. QED
  BY <1>1, InitPageSound, IInvariant, PTL DEF Spec

\* The page of the bank is in order in every state: what the list shows when it
\* is at rest is the answer to its own filter, search and page, and the form is
\* busy exactly while its save is under way, whatever was cancelled, lost or left.
THEOREM PageHolds == Spec => []BankInv
<1>1. IInv /\ PageSound => BankInv
  <2> SUFFICES ASSUME IInv, PageSound PROVE BankInv
    OBVIOUS
  <2>1. list.items \in SUBSET Questions /\ list.selected \in SUBSET Questions /\ deletion.ids \in SUBSET Questions
    BY DEF PageSound, ListSound, Lists, Deletions
  <2>2. \A w \in Writers : saves[w] \in Saves
    BY DEF IInv, RowsTypeOK
  <2>3. TypeOK
    BY <2>1, <2>2 DEF IInv, RowsTypeOK, TypeOK, Rows, Saves, PageSound, TabSound, FormSound, FormTypeOK, IsOpen
  <2>4. ListShowsItsQuery /\ BusyMeansSaving
    BY DEF PageSound, ListSound, TabSound, SaveSound, ListShowsItsQuery, BusyMeansSaving
  <2>5. QED
    BY <2>3, <2>4 DEF BankInv
<1>2. QED
  BY <1>1, IInvariant, PageInvariant, PTL

\* A form that was filled in by hand, or read in one piece, has a shape the schema
\* takes: changing its type, its language, its options and its test cases never
\* leads the teacher to a form that only the server refuses.
THEOREM FormAlwaysFits == Spec => []FormFitsSchema
<1>1. PageSound => FormFitsSchema
  BY PayloadFits DEF PageSound, FormSound, FormFitsSchema, IsOpen
<1>2. QED
  BY <1>1, PageInvariant, PTL
=============================================================================

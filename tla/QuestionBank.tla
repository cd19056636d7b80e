----------------------------- MODULE QuestionBank -----------------------------
(***************************************************************************)
(* The question bank of a teacher: the rows (questions/question.service),  *)
(* one browser tab that shows either the list (question-list.tsx) or the   *)
(* form (QuestionForm), and whoever else writes: another tab, an admin.    *)
(*                                                                         *)
(* What was written is named by who wrote it. A question is whole when its *)
(* row and its options and test cases were written together.               *)
(***************************************************************************)
EXTENDS QuestionForm, Integers

CONSTANTS
  Slots,         \* how many questions the bank can come to hold
  FirstSlots,    \* how many it holds to begin with
  Filtered,      \* the questions that match the filter
  Found,         \* the questions that match the search
  PageSize,      \* 20 in the code
  MaxInputs,     \* bounds what the teacher does with the list
  MaxElsewhere,  \* bounds what is written elsewhere
  Faults         \* "network": a request of the tab may fail

Questions == 1 .. Slots
Writers == {"tab", "other"}
Contents == Writers \union {"new"}

ASSUME BankAssumption ==
  /\ Slots \in Nat /\ FirstSlots \in 0 .. Slots
  /\ PageSize \in Nat \ {0} /\ MaxInputs \in Nat /\ MaxElsewhere \in Nat

VARIABLES
  row,        \* questions: the content and deleted_at of each, or NoRow
  details,    \* whose options and test cases are stored for each question
  saves,      \* the requests that write a question, by who sent them
  elsewhere,  \* how often something was written elsewhere
  view,       \* what the tab shows: "list", "reading" and then "form",
               \* or "missing" for a question that is gone
  list,       \* the state of the list
  loads,      \* the requests of the list, oldest first
  deletion,   \* the deletion the tab has under way
  readRow,    \* the content getQuestion read first
  inputs      \* how often the teacher did something with the list

bankVars == <<row, details, saves, elsewhere>>
listVars == <<list, loads, inputs>>
vars == <<bankVars, listVars, deletion, view, readRow, formVars>>

NoRow == [content |-> "none", deleted |-> FALSE]
Live(q) == row[q] # NoRow /\ ~row[q].deleted
LiveQuestions == {q \in Questions : Live(q)}
Idle == [stage |-> "idle", question |-> 0, seen |-> {}, orphan |-> FALSE]
NoDeletion == [ids |-> {}, bulk |-> FALSE, stage |-> "none", count |-> 0, orphan |-> FALSE]
RowLocked(q) == \E w \in Writers : saves[w].question = q /\ saves[w].stage \in {"locked", "replaced"}

-----------------------------------------------------------------------------
\* The list and its requests.

QueryOf(l) == [filter |-> l.filter, search |-> l.debounced, page |-> l.page]
NoQuery == [filter |-> FALSE, search |-> FALSE, page |-> 0]
NewList ==
  [filter |-> FALSE, search |-> FALSE, debounced |-> FALSE, page |-> 1,
   items |-> {}, total |-> 0, shown |-> NoQuery, loading |-> TRUE, error |-> FALSE,
   selected |-> {}, facets |-> FALSE]
Request(l) == [query |-> QueryOf(l), stage |-> "sent", total |-> 0, items |-> {}, cancelled |-> FALSE]
Cancel(requests) == [i \in DOMAIN requests |-> [requests[i] EXCEPT !.cancelled = TRUE]]

Matching(query) ==
  {q \in LiveQuestions : (query.filter => q \in Filtered) /\ (query.search => q \in Found)}
PageOf(query) ==
  LET newer(q) == Cardinality({p \in Matching(query) : p > q}) IN
  {q \in Matching(query) : newer(q) \div PageSize = query.page - 1}

\* listQuestions: the count and the page are two statements.
CountQuestions(i) ==
  /\ loads[i].stage = "sent"
  /\ loads' = [loads EXCEPT ![i].stage = "counted",
                            ![i].total = Cardinality(Matching(loads[i].query))]
  /\ UNCHANGED <<bankVars, list, inputs, deletion, view, readRow, formVars>>

ReadPage(i) ==
  /\ loads[i].stage = "counted"
  /\ loads' = [loads EXCEPT ![i].stage = "answered", ![i].items = PageOf(loads[i].query)]
  /\ UNCHANGED <<bankVars, list, inputs, deletion, view, readRow, formVars>>

\* Bug: the answer to an older request is shown too.
ShowAnyList(i) ==
  /\ loads[i].stage = "answered"
  /\ list' = [list EXCEPT !.items = loads[i].items, !.total = loads[i].total,
                          !.shown = loads[i].query, !.loading = FALSE]
  /\ loads' = RemoveAt(loads, i)
  /\ UNCHANGED <<bankVars, inputs, deletion, view, readRow, formVars>>

\* The answers may come in any order; a cancelled one changes nothing.
ShowList(i) ==
  /\ loads[i].stage = "answered"
  /\ list' = IF loads[i].cancelled THEN list
             ELSE [list EXCEPT !.items = loads[i].items, !.total = loads[i].total,
                               !.shown = loads[i].query, !.loading = FALSE]
  /\ loads' = RemoveAt(loads, i)
  /\ UNCHANGED <<bankVars, inputs, deletion, view, readRow, formVars>>

FailList(i) ==
  /\ "network" \in Faults
  /\ list' = IF loads[i].cancelled THEN list
             ELSE [list EXCEPT !.error = TRUE, !.loading = FALSE]
  /\ loads' = RemoveAt(loads, i)
  /\ UNCHANGED <<bankVars, inputs, deletion, view, readRow, formVars>>

\* getQuestionFilterFacets: the values to filter by are read once, at mount.
ReadFacets ==
  /\ view = "list" /\ ~list.facets
  /\ LiveQuestions \intersect Filtered # {}
  /\ list' = [list EXCEPT !.facets = TRUE]
  /\ UNCHANGED <<bankVars, loads, inputs, deletion, view, readRow, formVars>>

\* What the teacher does with the list.
Do == view = "list" /\ inputs < MaxInputs /\ inputs' = inputs + 1
          /\ UNCHANGED <<bankVars, deletion, view, readRow, formVars>>

\* The list with changed fields. A query that changed is asked for, and the
\* request for the one before it is cancelled.
ShowAs(l) ==
  IF QueryOf(l) = QueryOf(list) THEN list' = l /\ UNCHANGED loads
  ELSE /\ list' = [l EXCEPT !.loading = TRUE, !.error = FALSE]
       /\ loads' = Append(Cancel(loads), Request(l))

UpdateFilter ==
  /\ Do /\ list.facets
  /\ ShowAs([list EXCEPT !.filter = ~@, !.page = 1, !.selected = {}])

HandleSearchChange ==
  /\ Do
  /\ ShowAs([list EXCEPT !.search = ~@, !.page = 1, !.selected = {}])

\* 300 ms after the last letter.
SearchDebounced ==
  /\ view = "list" /\ list.debounced # list.search
  /\ ShowAs([list EXCEPT !.debounced = list.search])
  /\ UNCHANGED <<bankVars, inputs, deletion, view, readRow, formVars>>

TotalPages == IF list.total <= 0 THEN 1 ELSE (list.total + PageSize - 1) \div PageSize
OffersPages == list.shown # NoQuery /\ list.total > 0

TurnPage ==
  /\ Do /\ OffersPages
  /\ \E page \in {list.page - 1, list.page + 1} :
       /\ IF page < list.page THEN list.page > 1 ELSE list.page < TotalPages
       /\ ShowAs([list EXCEPT !.page = page, !.selected = {}])

OffersRow(q) == view = "list" /\ ~list.error /\ q \in list.items

ToggleSelected(q) ==
  /\ Do /\ OffersRow(q)
  /\ ShowAs([list EXCEPT !.selected = SymDiff(@, {q})])

ToggleSelectAll ==
  /\ Do /\ list.items # {}
  /\ ShowAs([list EXCEPT !.selected =
               IF list.items \subseteq @ THEN @ \ list.items ELSE @ \union list.items])

OffersSelection == view = "list" /\ list.selected # {}
ClearSelection == Do /\ OffersSelection /\ ShowAs([list EXCEPT !.selected = {}])

\* One deletion of the tab is followed at a time.
Ask(ids, bulk) ==
  /\ view = "list" /\ deletion = NoDeletion /\ inputs < MaxInputs
  /\ deletion' = [NoDeletion EXCEPT !.ids = ids, !.bulk = bulk, !.stage = "sent"]
  /\ inputs' = inputs + 1
  /\ UNCHANGED <<bankVars, list, loads, view, readRow, formVars>>

HandleDelete(q) == OffersRow(q) /\ Ask({q}, FALSE)
HandleBulkDelete == OffersSelection /\ Ask(list.selected, TRUE)

\* deleteQuestion refuses what is deleted already, deleteQuestions skips it.
\* Both wait for a row that is being updated.
DeleteQuestions ==
  LET gone == deletion.ids \intersect LiveQuestions IN
  /\ deletion.stage = "sent"
  /\ \A q \in deletion.ids : ~RowLocked(q)
  /\ row' = [q \in Questions |-> IF q \in gone THEN [row[q] EXCEPT !.deleted = TRUE] ELSE row[q]]
  /\ deletion' = [deletion EXCEPT !.stage = "answered", !.count = Cardinality(gone)]
  /\ UNCHANGED <<details, saves, elsewhere, listVars, view, readRow, formVars>>

\* The answer. The selection that was sent is what leaves the list, and a
\* selection made since is cleared with it.
DeletionAnswered ==
  /\ deletion.stage = "answered"
  /\ deletion' = NoDeletion
  /\ list' = IF deletion.orphan \/ (~deletion.bulk /\ deletion.count = 0) THEN list
             ELSE [list EXCEPT
                     !.items = @ \ deletion.ids,
                     !.total = IF list.shown = NoQuery THEN @ ELSE @ - deletion.count,
                     !.selected = IF deletion.bulk THEN {} ELSE @]
  /\ UNCHANGED <<bankVars, loads, inputs, view, readRow, formVars>>

LoseDeletion ==
  /\ "network" \in Faults
  /\ deletion.stage # "none"
  /\ deletion' = NoDeletion
  /\ UNCHANGED <<bankVars, listVars, view, readRow, formVars>>

-----------------------------------------------------------------------------
\* The tab turns from the list to the form and back.

Unmount ==
  /\ inputs < MaxInputs /\ inputs' = inputs + 1
  /\ list' = NewList /\ loads' = <<>>
  /\ deletion' = IF deletion = NoDeletion THEN deletion ELSE [deletion EXCEPT !.orphan = TRUE]

OpenForm(fields, question, mixed) ==
  /\ view' = "form"
  /\ form' = fields /\ editing' = question /\ submitting' = FALSE /\ torn' = mixed /\ lost' = FALSE

\* /teacher/questions/new
OpenNew == view = "list" /\ Unmount /\ OpenForm(BlankForm, 0, FALSE) /\ UNCHANGED <<bankVars, readRow>>

\* /teacher/questions/[id]/edit: getQuestion reads the row first.
OpenEdit(q) ==
  /\ OffersRow(q) /\ Unmount
  /\ IF Live(q) THEN view' = "reading" /\ editing' = q /\ readRow' = row[q].content
                ELSE view' = "missing" /\ UNCHANGED <<editing, readRow>>
  /\ UNCHANGED <<bankVars, form, submitting, torn, lost>>

\* The questions the bank can hold, each with the content it was written with.
StoredQuestions == {Stored(input) : input \in {i \in Inputs : Accepts(i)}}

\* Then its options and its test cases, which another save may have replaced.
ReadDetails ==
  /\ view = "reading"
  /\ \E question \in StoredQuestions :
       IF details[editing] = {readRow}
         THEN OpenForm(FormOf(question), editing, FALSE)
         ELSE \E newer \in StoredQuestions :
                OpenForm(FormOf([question EXCEPT !.options = newer.options,
                                                 !.testCases = newer.testCases]), editing, TRUE)
  /\ readRow' = "none"
  /\ UNCHANGED <<bankVars, listVars, deletion>>

ShowNewList ==
  /\ view' = "list"
  /\ form' = NoForm /\ editing' = 0 /\ submitting' = FALSE /\ torn' = FALSE /\ lost' = FALSE
  /\ readRow' = "none"
  /\ list' = NewList /\ loads' = << Request(NewList) >> /\ UNCHANGED inputs

\* A link leads away from the form; the request that saves it goes on.
LeaveForm ==
  /\ view \in {"form", "missing"}
  /\ ShowNewList
  /\ saves' = IF saves["tab"] = Idle THEN saves ELSE [saves EXCEPT !["tab"].orphan = TRUE]
  /\ UNCHANGED <<row, details, elsewhere, deletion>>

EditForm ==
  /\ view = "form" /\ Edit
  /\ UNCHANGED <<bankVars, listVars, deletion, view, readRow>>

-----------------------------------------------------------------------------
\* Saving a question.

\* The form parses its own payload with the schema first.
HandleSubmit ==
  /\ view = "form" /\ ~submitting /\ saves["tab"] = Idle
  /\ Accepts(Payload)
  /\ submitting' = TRUE
  /\ saves' = [saves EXCEPT !["tab"] = [Idle EXCEPT !.stage = "sent", !.question = editing]]
  /\ UNCHANGED <<row, details, elsewhere, listVars, deletion, view, readRow, form, editing, torn, lost>>

Insert(q, content) ==
  /\ row' = [row EXCEPT ![q] = [content |-> content, deleted |-> FALSE]]
  /\ details' = [details EXCEPT ![q] = {content}]

Unused == {q \in Questions : row[q] = NoRow /\ \A p \in Questions : p < q => row[p] # NoRow}

\* createQuestion: one transaction.
CreateQuestion ==
  /\ saves["tab"].stage = "sent" /\ saves["tab"].question = 0
  /\ \E q \in Unused : Insert(q, "new")
  /\ saves' = [saves EXCEPT !["tab"].stage = "saved"]
  /\ UNCHANGED <<elsewhere, listVars, deletion, view, readRow, formVars>>

\* updateQuestion. The question must be there when it starts ...
CheckQuestion(w) ==
  LET q == saves[w].question IN
  /\ saves[w].stage = "sent" /\ q # 0
  /\ saves' = [saves EXCEPT ![w] =
                 IF Live(q) THEN [@ EXCEPT !.stage = "checked"]
                 ELSE IF w = "other" THEN Idle ELSE [@ EXCEPT !.stage = "refused"]]
  /\ UNCHANGED <<row, details, elsewhere, listVars, deletion, view, readRow, formVars>>

\* Bug: a row whose own columns stay the same is not written, nor locked.
UpdateNoRow(w) ==
  /\ saves[w].stage = "checked"
  /\ saves' = [saves EXCEPT ![w].stage = "locked"]
  /\ UNCHANGED <<row, details, elsewhere, listVars, deletion, view, readRow, formVars>>

\* ... its row is written, and no other transaction writes it until the end ...
UpdateRow(w) ==
  /\ saves[w].stage = "checked" /\ ~RowLocked(saves[w].question)
  /\ saves' = [saves EXCEPT ![w].stage = "locked"]
  /\ UNCHANGED <<row, details, elsewhere, listVars, deletion, view, readRow, formVars>>

\* ... what is stored of its options and test cases is deleted, its own added ...
ReplaceDetails(w) ==
  /\ saves[w].stage = "locked"
  /\ saves' = [saves EXCEPT ![w].stage = "replaced", ![w].seen = details[saves[w].question]]
  /\ UNCHANGED <<row, details, elsewhere, listVars, deletion, view, readRow, formVars>>

\* Bug: the row is written back whole, as it was when the update started.
CommitWholeRow(w) ==
  LET q == saves[w].question IN
  /\ saves[w].stage = "replaced"
  /\ row' = [row EXCEPT ![q] = [content |-> w, deleted |-> FALSE]]
  /\ details' = [details EXCEPT ![q] = (@ \ saves[w].seen) \union {w}]
  /\ saves' = [saves EXCEPT ![w] = IF w = "other" THEN Idle
                                   ELSE [@ EXCEPT !.stage = "saved", !.seen = {}]]
  /\ UNCHANGED <<elsewhere, listVars, deletion, view, readRow, formVars>>

\* ... and all of it is there for others when the transaction commits.
Commit(w) ==
  LET q == saves[w].question IN
  /\ saves[w].stage = "replaced"
  /\ row' = [row EXCEPT ![q].content = w]
  /\ details' = [details EXCEPT ![q] = (@ \ saves[w].seen) \union {w}]
  /\ saves' = [saves EXCEPT ![w] = IF w = "other" THEN Idle
                                   ELSE [@ EXCEPT !.stage = "saved", !.seen = {}]]
  /\ UNCHANGED <<elsewhere, listVars, deletion, view, readRow, formVars>>

\* The answer leads to the list, wherever the tab has gone since.
SaveAnswered ==
  /\ saves["tab"].stage = "saved"
  /\ saves' = [saves EXCEPT !["tab"] = Idle]
  /\ IF view = "list" THEN UNCHANGED <<listVars, view, readRow, formVars>> ELSE ShowNewList
  /\ UNCHANGED <<row, details, elsewhere, deletion>>

\* Bug: the button stays off when the save is refused.
SaveRefusedBusy ==
  /\ saves["tab"].stage = "refused"
  /\ saves' = [saves EXCEPT !["tab"] = Idle]
  /\ UNCHANGED <<row, details, elsewhere, listVars, deletion, view, readRow, formVars>>

SaveRefused ==
  /\ saves["tab"].stage = "refused"
  /\ saves' = [saves EXCEPT !["tab"] = Idle]
  /\ submitting' = (submitting /\ saves["tab"].orphan)
  /\ UNCHANGED <<row, details, elsewhere, listVars, deletion, view, readRow, form, editing, torn, lost>>

\* The fetch throws, before or after the server has handled the request: nothing
\* catches it, and the button stays off.
LoseSave ==
  /\ "network" \in Faults
  /\ saves["tab"].stage \in {"sent", "saved", "refused"}
  /\ saves' = [saves EXCEPT !["tab"] = Idle]
  /\ lost' = (view = "form" /\ ~saves["tab"].orphan)
  /\ UNCHANGED <<row, details, elsewhere, listVars, deletion, view, readRow,
                 form, editing, submitting, torn>>

\* Elsewhere: another tab or an admin edits, creates or deletes.
Elsewhere == elsewhere < MaxElsewhere /\ elsewhere' = elsewhere + 1
               /\ UNCHANGED <<listVars, deletion, view, readRow, formVars>>

EditElsewhere(q) ==
  /\ Elsewhere /\ saves["other"] = Idle /\ Live(q)
  /\ saves' = [saves EXCEPT !["other"] = [Idle EXCEPT !.stage = "sent", !.question = q]]
  /\ UNCHANGED <<row, details>>

CreateElsewhere ==
  /\ Elsewhere
  /\ \E q \in Unused : Insert(q, "new")
  /\ UNCHANGED saves

DeleteElsewhere(q) ==
  /\ Elsewhere /\ Live(q) /\ ~RowLocked(q)
  /\ row' = [row EXCEPT ![q].deleted = TRUE]
  /\ UNCHANGED <<details, saves>>

-----------------------------------------------------------------------------
Init ==
  /\ row = [q \in Questions |-> IF q <= FirstSlots THEN [content |-> "new", deleted |-> FALSE] ELSE NoRow]
  /\ details = [q \in Questions |-> IF q <= FirstSlots THEN {"new"} ELSE {}]
  /\ saves = [w \in Writers |-> Idle] /\ elsewhere = 0
  /\ view = "list" /\ list = NewList /\ loads = << Request(NewList) >>
  /\ deletion = NoDeletion /\ readRow = "none" /\ inputs = 0
  /\ form = NoForm /\ editing = 0 /\ submitting = FALSE /\ torn = FALSE /\ lost = FALSE

LoadStep == \E i \in DOMAIN loads : CountQuestions(i) \/ ReadPage(i) \/ ShowList(i)

Next ==
  \/ LoadStep
  \/ \E i \in DOMAIN loads : FailList(i)
  \/ ReadFacets \/ UpdateFilter \/ HandleSearchChange \/ SearchDebounced \/ TurnPage
  \/ \E q \in Questions : ToggleSelected(q) \/ HandleDelete(q) \/ OpenEdit(q)
  \/ ToggleSelectAll \/ ClearSelection \/ HandleBulkDelete
  \/ DeleteQuestions \/ DeletionAnswered \/ LoseDeletion
  \/ OpenNew \/ ReadDetails \/ LeaveForm \/ EditForm
  \/ HandleSubmit \/ CreateQuestion \/ SaveAnswered \/ SaveRefused \/ LoseSave
  \/ \E w \in Writers : CheckQuestion(w) \/ UpdateRow(w) \/ ReplaceDetails(w) \/ Commit(w)
  \/ \E q \in Questions : EditElsewhere(q) \/ DeleteElsewhere(q)
  \/ CreateElsewhere

Spec == Init /\ [][Next]_vars

-----------------------------------------------------------------------------
\* Every variable has values of its type.
TypeOK ==
  /\ row \in [Questions -> [content : Contents \union {"none"}, deleted : BOOLEAN]]
  /\ details \in [Questions -> SUBSET Contents]
  /\ \A w \in Writers :
       /\ saves[w].stage \in {"idle", "sent", "checked", "locked", "replaced", "saved", "refused"}
       /\ saves[w].question \in Questions \union {0}
  /\ view \in {"list", "reading", "form", "missing"} /\ (view = "form" <=> IsOpen)
  /\ list.selected \subseteq Questions /\ list.items \subseteq Questions
  /\ deletion.ids \subseteq Questions
  /\ FormTypeOK

\* The row of a question and its options and test cases were always written by
\* the same save, though updateQuestion replaces them in five statements and
\* two of them may run at once.
QuestionIsWhole ==
  \A q \in Questions : row[q] # NoRow => details[q] = {row[q].content}

\* A question that was deleted stays deleted: an update that found it before
\* and commits after the deletion does not bring it back.
DeletedStays ==
  [][\A q \in Questions : row[q].deleted => row'[q].deleted]_vars

\* A list that is not loading shows what its filters, its search and its page
\* ask for, whatever order the answers come in.
ListShowsItsQuery ==
  view = "list" /\ ~list.loading /\ ~list.error => list.shown = QueryOf(list)

\* The form says that it saves only while the save it sent is under way, and
\* for good when the answer to it is lost: then there is no way but to leave.
BusyMeansSaving ==
  submitting /\ ~lost => saves["tab"] # Idle /\ ~saves["tab"].orphan

\* The rows and the page are of their type, the list shows what it was asked
\* for, and the form saves when it says so.
BankInv == TypeOK /\ ListShowsItsQuery /\ BusyMeansSaving
=============================================================================

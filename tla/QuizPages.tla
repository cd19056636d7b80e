------------------------------- MODULE QuizPages -------------------------------
(***************************************************************************)
(* A teacher's tab on the pages about quizzes: the list (quiz-list.tsx),   *)
(* the wizard that makes one (wizard/), the page that edits one, with the  *)
(* picker of its pool (quiz-question-picker.tsx) and its settings, the     *)
(* preview with the assignments (quiz-assignments.tsx), and the results    *)
(* with the switch that releases answers. Its requests are handled by      *)
(* QuizStore, together with those of the other tabs and teachers.          *)
(*                                                                         *)
(* No action depends on resent, opened, made, or on the fields asked,      *)
(* dirty, touched, crossed and stray of the page, which are history.       *)
(***************************************************************************)
EXTENDS QuizStore, SequencesExt

CONSTANTS
  MaxInputs,      \* bounds what the teacher does
  MaxEvents       \* bounds what others do and what goes wrong, together

\* The first pool may have two questions, and the wizard's last step asks twice.
ASSUME PagesAssumption == MaxQuestions > 1 /\ MaxRequests > 1

VARIABLES
  page,        \* what the tab shows, with the state of its parts
  inputs,      \* how often the teacher did something
  elsewhere,   \* how many requests were sent from elsewhere
  mishaps,     \* how often a handler failed or an answer was lost
  lost,        \* an answer to something that was sent was lost
  resent,      \* a wizard sent its first save again
  opened,      \* how many wizards were opened
  made         \* how many quizzes wizards have made

pageVars == <<page, inputs, elsewhere, mishaps, lost, resent, opened, made>>
vars == <<storeVars, pageVars>>
storeOnly == <<quiz, pool, assigned, serial, alive, started, loosened, overlapped>>

\* The parts of the pages, as they are before they are mounted.
NoList == [search |-> FALSE, query |-> AllQuizzes, rows |-> {}, total |-> 0, shown |-> NoQuery,
           loading |-> FALSE, error |-> FALSE, stray |-> FALSE]
NoPicker == [open |-> FALSE, pool |-> <<>>, search |-> FALSE, query |-> AllQuizzes, items |-> {},
             total |-> 0, shown |-> FALSE, selected |-> {}, saving |-> FALSE, saved |-> FALSE,
             touched |-> FALSE]
NoPanel == [open |-> FALSE, rows |-> {}, assigning |-> FALSE, pending |-> {}]
NoLoad == [left |-> {}, status |-> "none", rows |-> {}]
InitialForm == [title |-> FALSE, settings |-> [per |-> MaxPer, later |-> FALSE, show |-> FALSE]]

\* quiz is 0 in a wizard until it has saved for the first time; status is the
\* one the page shows, and busy its buttons that wait for an answer.
NewPage(kind, id) ==
  [kind |-> kind, quiz |-> id, step |-> 1, furthest |-> 1, form |-> InitialForm,
   saving |-> FALSE, error |-> FALSE, dirty |-> FALSE, asked |-> FALSE, status |-> "none",
   released |-> FALSE, busy |-> FALSE, review |-> {}, crossed |-> FALSE,
   list |-> NoList, picker |-> NoPicker, load |-> NoLoad, panel |-> NoPanel]

-----------------------------------------------------------------------------
\* Requests. Each goes to the first slot that is free.

Reads == {"list", "bank", "readPool", "readQuiz", "readAssigned"}
FreeSlots(rs) == {i \in Slots : rs[i] = NoRequest}
Put(rs, r) == [rs EXCEPT ![CHOOSE i \in FreeSlots(rs) : \A j \in FreeSlots(rs) : i <= j] = r]
Waiting(part) == \E i \in Slots : requests[i].part = part /\ requests[i].heard
Without(i) == [requests EXCEPT ![i] = NoRequest]

\* A handler that goes on after its part is gone, and only then turns the page.
TurnsPage(r) == r.part = "draft" \/ (r.part = "actions" /\ r.kind \in {"delete", "duplicate"})

\* What is left of the requests when some parts are gone: reads are dropped,
\* nobody hears of the others.
Forget(rs, gone) ==
  [i \in Slots |->
     LET r == rs[i] IN
     IF r.part \notin gone \/ r.part = "none" \/ ~r.heard THEN r
     ELSE IF TurnsPage(r) THEN [r EXCEPT !.status = "gone"]
     ELSE IF r.kind \in Reads \/ r.stage \in {"answered", "refused"} THEN NoRequest
     ELSE [r EXCEPT !.heard = FALSE]]

StepParts == {"pool", "bank", "picker", "review", "publishLoad", "publish", "panel"}
PageParts == StepParts \union {"list", "reload", "listAction", "save", "draft", "actions", "toggle", "refresh"}

Do == inputs < MaxInputs /\ inputs' = inputs + 1
Event == elsewhere + mishaps < MaxEvents
Rest == UNCHANGED <<storeOnly, elsewhere, mishaps, lost, resent, opened, made>>
Send(p, r) == FreeSlots(requests) # {} /\ page' = p /\ requests' = Put(requests, r) /\ Rest
Show(p) == page' = p /\ UNCHANGED requests /\ Rest
AskList(q, part) == [Ask("list", 0, part) EXCEPT !.query = q]
AskBank(q) == [Ask("bank", 0, "bank") EXCEPT !.query = q]

\* Writes under way whose effect a page that is read now may miss.
Crossing(id) ==
  \E i \in Slots : requests[i].kind \in {"pool", "assign", "unassign"} /\ requests[i].quiz = id

\* The tab turns to another page, whose server component reads what it shows.
PageFor(kind, id) ==
  LET p == NewPage(kind, id) IN
  IF kind \notin {"list", "wizard"} /\ ~Live(id) THEN {NewPage("missing", 0)}
  ELSE CASE kind = "list" -> {[p EXCEPT !.list.loading = TRUE]}
         [] kind = "wizard" -> {p}
         [] kind = "edit" ->
              {[p EXCEPT !.status = quiz[id].status,
                         !.form = [title |-> TRUE, settings |-> quiz[id].settings],
                         !.picker = [NoPicker EXCEPT !.open = TRUE, !.pool = ids]] :
                 ids \in OrdersOf(pool[id])}
         [] kind = "preview" ->
              {[p EXCEPT !.status = quiz[id].status,
                         !.crossed = Crossing(id),
                         !.panel = [NoPanel EXCEPT !.open = quiz[id].status = "published",
                                                   !.rows = assigned[id]]]}
         [] kind = "results" -> {[p EXCEPT !.released = quiz[id].settings.show]}

TurnTo(kind, id, rs) ==
  LET left == Forget(rs, PageParts) IN
  /\ page' \in PageFor(kind, id)
  /\ kind \in {"list", "edit"} => FreeSlots(left) # {}
  /\ requests' = CASE kind = "list" -> Put(left, AskList(AllQuizzes, "list"))
                   [] kind = "edit" /\ Live(id) -> Put(left, AskBank(AllQuizzes))
                   [] OTHER -> left

Open(kind, id) ==
  /\ Do /\ TurnTo(kind, id, requests)
  /\ opened' = IF kind = "wizard" THEN opened + 1 ELSE opened
  /\ UNCHANGED <<storeOnly, elsewhere, mishaps, lost, resent, made>>

\* Links: to the list, the wizard, and the pages of a quiz that is listed.
OpenListed ==
  \/ page.kind # "list" /\ Open("list", 0)
  \/ page.kind = "list" /\ Open("wizard", 0)
  \/ \E row \in page.list.rows :
       /\ page.kind = "list"
       /\ \/ row.status # "archived" /\ Open("edit", row.quiz)
          \/ Open("preview", row.quiz)
          \/ row.status = "published" /\ Open("results", row.quiz)

-----------------------------------------------------------------------------
\* The list.

InList == page.kind = "list"

\* Bug: the request for the query before is not cancelled.
ListAsToo(l) ==
  IF l.query = page.list.query THEN Show([page EXCEPT !.list = l])
  ELSE Send([page EXCEPT !.list = [l EXCEPT !.loading = TRUE, !.error = FALSE]], AskList(l.query, "list"))

\* A query that changed is asked for, and the request for the one before it is
\* cancelled; a reload after an action is never cancelled.
ListAs(l) ==
  IF l.query = page.list.query THEN Show([page EXCEPT !.list = l])
  ELSE LET left == Forget(requests, {"list"}) IN
       /\ FreeSlots(left) # {}
       /\ page' = [page EXCEPT !.list = [l EXCEPT !.loading = TRUE, !.error = FALSE,
                                               !.stray = (@ \/ Waiting("listAction") \/ Waiting("reload"))]]
       /\ requests' = Put(left, AskList(l.query, "list"))
       /\ Rest

UpdateFilter(status) ==
  Do /\ InList /\ ListAs([page.list EXCEPT !.query.status = status, !.query.page = 1])
HandleSearchChange ==
  Do /\ InList /\ ListAs([page.list EXCEPT !.search = ~@, !.query.page = 1])
ClearFilters ==
  /\ Do /\ InList /\ (page.list.search \/ page.list.query.status # "all")
  /\ ListAs([page.list EXCEPT !.search = FALSE, !.query.status = "all", !.query.page = 1])
SearchDebounced ==
  /\ InList /\ page.list.query.search # page.list.search
  /\ ListAs([page.list EXCEPT !.query.search = page.list.search]) /\ UNCHANGED inputs

Pages(total) == IF total = 0 THEN 1 ELSE (total + PageSize - 1) \div PageSize

TurnListPage ==
  /\ Do /\ InList /\ page.list.shown # NoQuery /\ page.list.total > 0
  /\ \E n \in {page.list.query.page - 1, page.list.query.page + 1} :
       /\ IF n < page.list.query.page THEN n >= 1 ELSE n <= Pages(page.list.total)
       /\ ListAs([page.list EXCEPT !.query.page = n])

\* What the menu of a card offers in each status.
Actions(status) ==
  {"duplicate", "delete"}
    \union (IF status = "draft" THEN {"publish"} ELSE {})
    \union (IF status \in {"published", "scheduled"} THEN {"unpublish"} ELSE {})
    \union (IF status # "archived" THEN {"archive"} ELSE {})

\* The query is that of the list the action was chosen from.
HandleAction(row, action) ==
  /\ Do /\ InList /\ row \in page.list.rows /\ action \in Actions(row.status)
  /\ Send(page, [Ask(action, row.quiz, "listAction") EXCEPT !.query = page.list.query])

-----------------------------------------------------------------------------
\* The wizard.

InWizard(step) == page.kind = "wizard" /\ page.step = step
HasForm == page.kind = "edit" \/ (page.kind = "wizard" /\ page.step \in {1, 3})

\* Any field of the form, at step 1 or 3 of the wizard or on the page that edits.
FillIn ==
  /\ Do /\ HasForm
  /\ \E f \in [title : BOOLEAN, settings : Settings] :
       /\ f # page.form
       /\ \/ f.settings = page.form.settings
          \/ /\ f.title = page.form.title
             /\ \E field \in {"per", "later", "show"} :
                  f.settings = [page.form.settings EXCEPT ![field] = f.settings[field]]
       /\ Show([page EXCEPT !.form = f, !.dirty = TRUE])

\* Bug: the furthest step is not moved on.
AtStepOnly(p, step) ==
  [p EXCEPT !.step = step, !.picker = NoPicker, !.panel = NoPanel, !.busy = FALSE, !.status = "none",
            !.review = {}, !.crossed = Crossing(p.quiz),
            !.load = [NoLoad EXCEPT !.left = IF step = 5 THEN {"readQuiz", "readAssigned"} ELSE {}]]

\* A step is entered: what the one before had mounted is gone, and the pool, or
\* the status and the assignments, are read again before they are shown.
AtStep(p, step) ==
  [p EXCEPT !.step = step, !.furthest = IF @ < step THEN step ELSE @,
            !.picker = NoPicker, !.panel = NoPanel, !.busy = FALSE, !.status = "none",
            !.review = {}, !.crossed = Crossing(p.quiz),
            !.load = [NoLoad EXCEPT !.left = IF step = 5 THEN {"readQuiz", "readAssigned"} ELSE {}]]
ReadsOfStep(rs, id, step) ==
  CASE step = 2 -> Put(rs, Ask("readPool", id, "pool"))
    [] step = 4 -> Put(rs, Ask("readPool", id, "review"))
    [] step = 5 -> Put(Put(rs, Ask("readQuiz", id, "publishLoad")), Ask("readAssigned", id, "publishLoad"))
    [] OTHER -> rs
EnterStep(p, rs, step) ==
  LET left == Forget(rs, StepParts) IN
  IF step = p.step THEN page' = p /\ requests' = rs
  ELSE /\ Cardinality(FreeSlots(left)) >= (IF step = 5 THEN 2 ELSE 1)
       /\ page' = AtStep(p, step)
       /\ requests' = ReadsOfStep(left, p.quiz, step)

GoToStep(step) ==
  /\ Do /\ page.kind = "wizard" /\ step # page.step /\ step <= page.furthest
  /\ EnterStep(page, requests, step) /\ Rest
Advance ==
  /\ Do /\ (InWizard(2) \/ InWizard(4))
  /\ EnterStep(page, requests, page.step + 1) /\ Rest

\* Bug: every save is a POST.
SaveRequestAnew(part) ==
  [Ask("create", page.quiz, part) EXCEPT !.settings = page.form.settings, !.total = page.step]

\* The first save is a POST, the later ones are PUTs.
SaveRequest(part) ==
  [Ask(IF page.quiz = 0 THEN "create" ELSE "update", page.quiz, part) EXCEPT
     !.settings = page.form.settings, !.total = page.step]
Persist(part) ==
  /\ FreeSlots(requests) # {}
  /\ page' = [page EXCEPT !.saving = TRUE, !.dirty = (@ /\ lost), !.asked = (@ \/ page.quiz = 0)]
  /\ requests' = Put(requests, SaveRequest(part))
  /\ resent' = (resent \/ (page.asked /\ page.quiz = 0))
  /\ UNCHANGED <<storeOnly, elsewhere, mishaps, lost, opened, made>>

\* The form is parsed with the schema first.
HandleContinue ==
  /\ Do /\ (InWizard(1) \/ InWizard(3)) /\ ~page.saving /\ page.form.title
  /\ Persist("save")

\* Save Draft is never disabled, and turns the page whether it has saved or not.
HandleSaveDraft ==
  /\ Do /\ page.kind = "wizard"
  /\ IF HasForm /\ page.form.title THEN Persist("draft")
     ELSE /\ TurnTo(IF page.quiz = 0 THEN "list" ELSE "edit", page.quiz, requests)
          /\ Rest

HandlePublish ==
  /\ Do /\ InWizard(5) /\ page.load.left = {} /\ page.status = "draft" /\ ~page.busy
  /\ Send([page EXCEPT !.busy = TRUE], Ask("publish", page.quiz, "publish"))
Done == InWizard(5) /\ page.load.left = {} /\ Open("preview", page.quiz)

-----------------------------------------------------------------------------
\* The page that edits: settings and life cycle; the results: the switch.

HandleSubmit ==
  /\ Do /\ page.kind = "edit" /\ ~page.saving /\ page.form.title
  /\ Send([page EXCEPT !.saving = TRUE, !.error = FALSE], SaveRequest("save"))

CallApi(action) ==
  /\ Do /\ page.kind = "edit" /\ ~page.busy /\ action \in Actions(page.status)
  /\ Send([page EXCEPT !.busy = TRUE], Ask(action, page.quiz, "actions"))

Toggle ==
  /\ Do /\ page.kind = "results" /\ ~page.busy
  /\ Send([page EXCEPT !.busy = TRUE],
          Ask(IF page.released THEN "hide" ELSE "release", page.quiz, "toggle"))

-----------------------------------------------------------------------------
\* The picker.

Picks == page.picker.open
Pooled == {page.picker.pool[n] : n \in DOMAIN page.picker.pool}

\* Bug: the message that the pool is saved stays.
PoolAsSaved(ids) ==
  Show([page EXCEPT !.picker.pool = ids, !.picker.touched = (@ \/ page.picker.saving)])

PoolAs(ids) ==
  Show([page EXCEPT !.picker.pool = ids, !.picker.saved = FALSE,
                    !.picker.touched = (@ \/ page.picker.saving)])

PickerAs(k) ==
  IF k.query = page.picker.query THEN Show([page EXCEPT !.picker = k])
  ELSE LET left == Forget(requests, {"bank"}) IN
       /\ FreeSlots(left) # {}
       /\ page' = [page EXCEPT !.picker = k] /\ requests' = Put(left, AskBank(k.query)) /\ Rest

AddToPool(q) ==
  Do /\ Picks /\ q \in page.picker.items \ Pooled /\ PoolAs(Append(page.picker.pool, q))

\* Those that are selected and shown and not in the pool, in the order shown.
AddSelectedToPool ==
  LET toAdd == (page.picker.items \intersect page.picker.selected) \ Pooled IN
  /\ Do /\ Picks /\ toAdd # {}
  /\ \E ids \in [1 .. Cardinality(toAdd) -> toAdd] :
       /\ \A m, n \in DOMAIN ids : m < n => ids[m] > ids[n]
       /\ Show([page EXCEPT !.picker.pool = @ \o ids, !.picker.selected = {},
                            !.picker.saved = FALSE, !.picker.touched = (@ \/ page.picker.saving)])

ToggleBankSelected(q) ==
  /\ Do /\ Picks /\ q \in page.picker.items \ Pooled
  /\ Show([page EXCEPT !.picker.selected = IF q \in @ THEN @ \ {q} ELSE @ \union {q}])

ToggleSelectAllOnPage ==
  LET selectable == page.picker.items \ Pooled IN
  /\ Do /\ Picks /\ selectable # {}
  /\ Show([page EXCEPT !.picker.selected =
             IF selectable \subseteq @ THEN @ \ selectable ELSE @ \union selectable])

RemoveFromPool(q) ==
  /\ Do /\ Picks
  /\ \E n \in DOMAIN page.picker.pool : page.picker.pool[n] = q /\ PoolAs(RemoveAt(page.picker.pool, n))
ClearPool == Do /\ Picks /\ page.picker.pool # <<>> /\ PoolAs(<<>>)
Move(n) ==
  /\ Do /\ Picks /\ {n, n + 1} \subseteq DOMAIN page.picker.pool
  /\ PoolAs([page.picker.pool EXCEPT ![n] = page.picker.pool[n + 1], ![n + 1] = page.picker.pool[n]])

HandleSave ==
  /\ Do /\ Picks /\ ~page.picker.saving
  /\ Send([page EXCEPT !.picker.saving = TRUE,
                       !.picker.touched = (Crossing(page.quiz) \/ (@ /\ page.picker.saved))],
          [Ask("pool", page.quiz, "picker") EXCEPT !.ids = page.picker.pool])

HandleBankSearchChange ==
  Do /\ Picks /\ PickerAs([page.picker EXCEPT !.search = ~@, !.query.page = 1, !.selected = {}])
BankSearchDebounced ==
  /\ Picks /\ page.picker.query.search # page.picker.search
  /\ PickerAs([page.picker EXCEPT !.query.search = page.picker.search]) /\ UNCHANGED inputs
GoToPage ==
  /\ Do /\ Picks /\ page.picker.shown /\ page.picker.total > 0
  /\ \E n \in {page.picker.query.page - 1, page.picker.query.page + 1} :
       /\ IF n < page.picker.query.page THEN n >= 1 ELSE n <= Pages(page.picker.total)
       /\ PickerAs([page.picker EXCEPT !.query.page = n, !.selected = {}])

-----------------------------------------------------------------------------
\* The assignments.

AssignTo(t) ==
  /\ Do /\ page.panel.open /\ ~page.panel.assigning
  /\ \A row \in page.panel.rows : row.target # t
  /\ Send([page EXCEPT !.panel.assigning = TRUE, !.crossed = (@ \/ Waiting("panel"))],
          [Ask("assign", page.quiz, "panel") EXCEPT !.target = t])

\* The button of one assignment is off while another one is removed.
RemoveAssignment(row) ==
  /\ Do /\ page.panel.open /\ row \in page.panel.rows /\ row \notin page.panel.pending
  /\ Send([page EXCEPT !.panel.pending = {row}, !.crossed = (@ \/ Waiting("panel"))],
          [Ask("unassign", page.quiz, "panel") EXCEPT !.rows = {row}])

-----------------------------------------------------------------------------
\* What the handlers of the tab do with an answer.

Arrived(i, part) == requests[i].part = part /\ requests[i].stage = "answered" /\ requests[i].heard
Take(i, p) == page' = p /\ requests' = Without(i)
TakeAndAsk(i, p, r) == page' = p /\ requests' = Put(Without(i), r)

ListArrives(i) ==
  LET r == requests[i] IN
  /\ Arrived(i, "list") \/ Arrived(i, "reload")
  /\ Take(i, [page EXCEPT !.list.rows = r.rows, !.list.total = r.total, !.list.shown = r.query,
                          !.list.loading = FALSE])

ActionOfListDone(i) ==
  /\ Arrived(i, "listAction")
  /\ TakeAndAsk(i, [page EXCEPT !.list.loading = TRUE, !.list.error = FALSE],
                AskList(requests[i].query, "reload"))

\* The wizard goes to the step after the one that Continue was pressed at.
SaveArrives(i) ==
  LET r == requests[i]
      p == [page EXCEPT !.saving = FALSE, !.quiz = r.quiz]
  IN
  /\ Arrived(i, "save")
  /\ IF page.kind = "edit" THEN TakeAndAsk(i, p, Ask("readQuiz", page.quiz, "refresh"))
     ELSE EnterStep(p, Without(i), r.total + 1)

\* Save Draft turns the page to the quiz that was known when it was pressed.
DraftEnds(i) ==
  LET r == requests[i] IN
  /\ r.part = "draft" /\ r.stage \in {"answered", "refused"}
  /\ TurnTo(IF r.kind = "create" THEN "list" ELSE "edit", r.quiz, Without(i))

\* Bug: the buttons are enabled again only after another page.
ActionDoneBusy(i) ==
  LET r == requests[i] IN
  /\ Arrived(i, "actions")
  /\ CASE r.kind = "delete" -> TurnTo("list", 0, Without(i))
       [] r.kind = "duplicate" -> TurnTo("edit", r.quiz, Without(i))
       [] OTHER -> TakeAndAsk(i, page, Ask("readQuiz", page.quiz, "refresh"))

ActionDone(i) ==
  LET r == requests[i] IN
  /\ Arrived(i, "actions")
  /\ CASE r.kind = "delete" -> TurnTo("list", 0, Without(i))
       [] r.kind = "duplicate" -> TurnTo("edit", r.quiz, Without(i))
       [] OTHER -> TakeAndAsk(i, [page EXCEPT !.busy = FALSE], Ask("readQuiz", page.quiz, "refresh"))

Refreshed(i) == Arrived(i, "refresh") /\ Take(i, [page EXCEPT !.status = requests[i].status])
Toggled(i) == Arrived(i, "toggle") /\ Take(i, [page EXCEPT !.busy = FALSE, !.released = ~@])

\* The picker is mounted when its pool is there, and reads the bank.
PoolLoaded(i) ==
  /\ Arrived(i, "pool")
  /\ TakeAndAsk(i, [page EXCEPT !.picker = [NoPicker EXCEPT !.open = TRUE, !.pool = requests[i].ids]],
                AskBank(AllQuizzes))
BankArrives(i) ==
  /\ Arrived(i, "bank")
  /\ Take(i, [page EXCEPT !.picker.items = requests[i].rows, !.picker.total = requests[i].total,
                          !.picker.shown = TRUE])
PoolSaved(i) ==
  Arrived(i, "picker") /\ Take(i, [page EXCEPT !.picker.saving = FALSE, !.picker.saved = TRUE])
PoolCounted(i) ==
  Arrived(i, "review") /\ Take(i, [page EXCEPT !.review = {Len(requests[i].ids)}])

\* The last step is shown when both its reads are in; a refused one leaves its
\* part of what is shown as for a draft without assignments, there or not.
PublishLoadAs(i, status, rows) ==
  LET r == requests[i]
      l == [left |-> page.load.left \ {r.kind},
            status |-> IF r.kind = "readQuiz" THEN status ELSE page.load.status,
            rows |-> IF r.kind = "readAssigned" THEN rows ELSE page.load.rows]
      p == [page EXCEPT !.load = l,
                        !.crossed = (@ \/ (r.kind = "readAssigned" /\ r.stage = "refused"))]
  IN Take(i, IF l.left # {} THEN p
             ELSE [p EXCEPT !.status = l.status, !.panel.rows = l.rows,
                            !.panel.open = l.status = "published"])
PublishLoaded(i) ==
  Arrived(i, "publishLoad") /\ PublishLoadAs(i, requests[i].status, requests[i].rows)
Published(i) ==
  /\ Arrived(i, "publish")
  /\ Take(i, [page EXCEPT !.busy = FALSE, !.status = "published", !.panel.open = TRUE])

\* Bug: the assignments are not read again.
AssignedOnly(i) ==
  /\ Arrived(i, "panel") /\ requests[i].kind = "assign"
  /\ Take(i, [page EXCEPT !.panel.assigning = FALSE])

Assigned(i) ==
  /\ Arrived(i, "panel") /\ requests[i].kind = "assign"
  /\ TakeAndAsk(i, page, Ask("readAssigned", page.quiz, "panel"))
AssignedRead(i) ==
  /\ Arrived(i, "panel") /\ requests[i].kind = "readAssigned"
  /\ Take(i, [page EXCEPT !.panel.rows = requests[i].rows, !.panel.assigning = FALSE])
Unassigned(i) ==
  /\ Arrived(i, "panel") /\ requests[i].kind = "unassign"
  /\ Take(i, [page EXCEPT !.panel.rows = @ \ requests[i].rows, !.panel.pending = {}])

Answered(i) ==
  \/ ListArrives(i) \/ ActionOfListDone(i) \/ SaveArrives(i) \/ DraftEnds(i) \/ ActionDone(i)
  \/ Refreshed(i) \/ Toggled(i) \/ PoolLoaded(i) \/ BankArrives(i) \/ PoolSaved(i)
  \/ PoolCounted(i) \/ PublishLoaded(i) \/ Published(i)
  \/ Assigned(i) \/ AssignedRead(i) \/ Unassigned(i)

\* ... and with a refusal. A load of the pool that is refused stays "Loading".
Unready(r) ==
  CASE r.part \in {"list", "reload"} -> [page EXCEPT !.list.error = TRUE, !.list.loading = FALSE]
    [] r.part = "save" -> [page EXCEPT !.saving = FALSE, !.error = TRUE, !.dirty = TRUE, !.asked = FALSE]
    [] r.part = "picker" -> [page EXCEPT !.picker.saving = FALSE]
    [] r.part \in {"publish", "toggle"} \/ (r.part = "actions" /\ r.status # "gone") ->
         [page EXCEPT !.busy = FALSE]
    [] r.part = "panel" /\ r.kind = "unassign" -> [page EXCEPT !.panel.pending = {}]
    [] r.part = "panel" /\ r.kind # "unassign" ->
         [page EXCEPT !.panel.assigning = FALSE, !.crossed = (@ \/ r.kind = "readAssigned")]
    [] OTHER -> page

Refused(i) ==
  LET r == requests[i] IN
  /\ r.stage = "refused" /\ r.part # "draft"
  /\ CASE r.part = "publishLoad" -> PublishLoadAs(i, "draft", {})
       [] r.part = "refresh" -> page' = NewPage("missing", 0) /\ requests' = Forget(Without(i), PageParts)
       [] OTHER -> Take(i, Unready(r))

\* fetch throws: the request, or its answer, was lost. Only some of the handlers
\* catch that; the others leave their buttons waiting for good.
Lose(i) ==
  LET r == requests[i]
      left == [Without(i) EXCEPT ![i] = IF r.kind \in Reads \/ r.stage = "answered" THEN NoRequest
                                        ELSE [r EXCEPT !.heard = FALSE]]
  IN
  /\ "network" \in Faults /\ r.heard /\ r.stage \in {"sent", "answered"}
  /\ Event /\ mishaps' = mishaps + 1 /\ lost' = TRUE
  /\ CASE r.part = "pool" ->
            /\ page' = [page EXCEPT !.picker = [NoPicker EXCEPT !.open = TRUE]]
            /\ requests' = Put(left, AskBank(AllQuizzes))
       [] r.part = "publishLoad" ->
            /\ page' = [page EXCEPT !.status = "draft", !.load = NoLoad]
            /\ requests' = Forget(left, {"publishLoad"})
       [] r.part \in {"list", "reload", "panel"} -> page' = Unready(r) /\ requests' = left
       [] r.part \in {"save", "draft"} -> page' = [page EXCEPT !.dirty = TRUE] /\ requests' = left
       [] OTHER -> page' = page /\ requests' = left
  /\ UNCHANGED <<storeOnly, inputs, elsewhere, resent, opened, made>>

-----------------------------------------------------------------------------
\* Other tabs and teachers ask for whatever they like, and nobody here hears
\* of it.
SendElsewhere ==
  /\ Event /\ elsewhere' = elsewhere + 1
  /\ FreeSlots(requests) # {}
  /\ \E id \in {q \in Quizzes : Live(q)}, kind \in {"update", "publish", "unpublish", "delete", "pool", "assign"} :
       \E settings \in Settings, ids \in {<<>>, <<1>>, <<2>>}, target \in Targets \union {"none"} :
         /\ kind # "update" => settings = NoSettings
         /\ kind = "pool" <=> ids # <<>>
         /\ kind = "assign" <=> target # "none"
         /\ requests' = Put(requests, [Ask(kind, id, "none") EXCEPT
                !.settings = settings, !.ids = ids, !.target = target, !.heard = FALSE])
  /\ UNCHANGED <<storeOnly, page, inputs, mishaps, lost, resent, opened, made>>

ElseDeleteQuestion(q) ==
  /\ Event /\ elsewhere' = elsewhere + 1
  /\ DeleteQuestion(q) /\ UNCHANGED <<page, inputs, mishaps, lost, resent, opened, made>>

StartComes ==
  /\ Event /\ elsewhere' = elsewhere + 1
  /\ StartsCome /\ UNCHANGED <<page, inputs, mishaps, lost, resent, opened, made>>

HandlerFails(i) ==
  /\ Event /\ mishaps' = mishaps + 1
  /\ Fail(i) /\ UNCHANGED <<page, inputs, elsewhere, lost, resent, opened, made>>

\* A handler goes on; a wizard's first save makes a quiz.
ServeRequest(i) ==
  /\ Serve(i)
  /\ made' = IF At(i, {"create"}, "sent") THEN made + 1 ELSE made
  /\ UNCHANGED <<page, inputs, elsewhere, mishaps, lost, resent, opened>>

-----------------------------------------------------------------------------
\* The first quiz may be there already, and the tab on any of its pages.

NoRequests == [i \in Slots |-> NoRequest]
FirstQuizzes ==
  {NoQuiz, [settings |-> [NoSettings EXCEPT !.per = MaxPer], status |-> "draft", deleted |-> FALSE],
           [settings |-> NoSettings, status |-> "published", deleted |-> FALSE]}
FirstPools(status) ==
  CASE status = "none" -> {{}} [] status = "draft" -> {{}, RowsOf(<<1>>)} [] OTHER -> {RowsOf(<<2, 1>>)}
FirstAssigned == {{}} \union {{[target |-> t, number |-> 1]} : t \in Targets}

FirstPage(kind) ==
  /\ requests = CASE kind = "list" -> Put(NoRequests, AskList(AllQuizzes, "list"))
                   [] kind = "edit" -> Put(NoRequests, AskBank(AllQuizzes))
                   [] OTHER -> NoRequests
  /\ page \in PageFor(kind, IF kind \in {"list", "wizard"} THEN 0 ELSE 1)

\* A wizard that has saved its quiz, as it comes to one of its later steps.
FirstStep(step) ==
  /\ requests = ReadsOfStep(NoRequests, 1, step)
  /\ page = AtStep([NewPage("wizard", 1) EXCEPT
                      !.form = [title |-> TRUE, settings |-> quiz[1].settings], !.asked = TRUE,
                      !.furthest = step], step)

Init ==
  /\ \E row \in FirstQuizzes : \E rows \in FirstPools(row.status), given \in FirstAssigned :
       /\ row.status # "published" => given = {}
       /\ quiz = [id \in Quizzes |-> IF id = 1 THEN row ELSE NoQuiz]
       /\ pool = [id \in Quizzes |-> IF id = 1 THEN rows ELSE {}]
       /\ assigned = [id \in Quizzes |-> IF id = 1 THEN given ELSE {}]
       /\ serial = Cardinality(given)
  /\ alive = Questions /\ started = FALSE /\ loosened = {} /\ overlapped = {}
  /\ inputs = 0 /\ elsewhere = 0 /\ mishaps = 0 /\ lost = FALSE /\ resent = FALSE
  /\ IF quiz[1] = NoQuiz
       THEN FirstPage("wizard") /\ opened = 1 /\ made = 0
       ELSE \/ (\E kind \in {"list", "edit", "preview", "results"} : FirstPage(kind)) /\ opened = 0 /\ made = 0
            \/ (\E step \in 2 .. 5 : FirstStep(step)) /\ quiz[1].status = "draft" /\ opened = 1 /\ made = 1

Teacher ==
  \/ OpenListed \/ Done
  \/ \E status \in {"all", "draft", "published", "scheduled", "archived"} : UpdateFilter(status)
  \/ HandleSearchChange \/ ClearFilters \/ TurnListPage
  \/ \E row \in page.list.rows : \E action \in Actions(row.status) : HandleAction(row, action)
  \/ FillIn \/ (\E step \in 1 .. 5 : GoToStep(step)) \/ Advance
  \/ HandleContinue \/ HandleSaveDraft \/ HandlePublish
  \/ HandleSubmit \/ (\E action \in Actions(page.status) : CallApi(action)) \/ Toggle
  \/ \E q \in Questions : AddToPool(q) \/ ToggleBankSelected(q) \/ RemoveFromPool(q)
  \/ AddSelectedToPool \/ ToggleSelectAllOnPage \/ ClearPool \/ (\E n \in Questions : Move(n))
  \/ HandleSave \/ HandleBankSearchChange \/ GoToPage
  \/ (\E t \in Targets : AssignTo(t)) \/ (\E row \in page.panel.rows : RemoveAssignment(row))

Later(i) ==
  \/ ServeRequest(i) \/ Lose(i)
  \/ (Answered(i) \/ Refused(i)) /\ Rest /\ UNCHANGED inputs
  \/ HandlerFails(i)

Next ==
  \/ Teacher
  \/ SearchDebounced \/ BankSearchDebounced
  \/ \E i \in Slots : Later(i)
  \/ SendElsewhere
  \/ \E q \in Questions : ElseDeleteQuestion(q)
  \/ StartComes

Spec == Init /\ [][Next]_vars

-----------------------------------------------------------------------------
\* Every variable has values of its type.
TypeOK ==
  /\ quiz \in [Quizzes -> [settings : Settings, status : {"none", "draft", "published", "archived"},
                           deleted : BOOLEAN]]
  /\ \A id \in Quizzes : /\ pool[id] \subseteq [question : Questions, position : Questions]
                         /\ assigned[id] \subseteq [target : Targets, number : 1 .. serial]
  /\ alive \subseteq Questions
  /\ \A i \in Slots : requests[i].part # "none" => requests[i].part \in PageParts
  /\ page.quiz \in Quizzes \union {0} /\ page.step \in 1 .. page.furthest /\ page.furthest \in 1 .. 5
  /\ Pooled \subseteq Questions /\ page.picker.selected \subseteq Questions

\* The list shows what was asked for last, unless a reload that follows an
\* action was overtaken by another query: that reload is never cancelled.
ListShowsItsQuery ==
  page.list.shown # NoQuery /\ ~page.list.loading /\ ~page.list.error /\ ~page.list.stray
    => page.list.shown = page.list.query

\* "Pool saved." is true: the pool in the database is the one in the picker,
\* unless it was edited during the save, or during an earlier one whose message
\* still stands, or another save of the pool overlapped.
PoolSavedMeansSaved ==
  page.picker.saved /\ ~page.picker.touched /\ ~Crossing(page.quiz) /\ elsewhere = 0
      /\ page.quiz \notin overlapped
    => pool[page.quiz] = RowsOf(page.picker.pool)

\* The wizard reviews and publishes what was saved: at its last two steps the
\* settings of the form are those in the database, unless the form was changed
\* and left by the stepper, which saves nothing, or a save of it was lost.
ReviewShowsSaved ==
  page.kind = "wizard" /\ page.step >= 4 /\ ~page.dirty /\ elsewhere = 0
      /\ ~Waiting("save") /\ ~Waiting("draft")
    => /\ quiz[page.quiz].settings = page.form.settings
       /\ page.review # {} /\ ~page.crossed => page.review = {Cardinality(pool[page.quiz])}

\* A wizard makes one quiz, however often it saves and whichever steps it goes
\* back to, unless its first save is sent again before it is answered: Save
\* Draft is not disabled meanwhile.
OneQuizPerWizard == resent \/ made <= opened

\* A button that waits, waits for an answer that can still come, unless one was
\* lost: most handlers do not catch that.
BusyMeansAsked ==
  \/ lost
  \/ /\ page.saving => Waiting("save") \/ Waiting("draft")
     /\ page.picker.saving => Waiting("picker")
     /\ page.busy => Waiting("actions") \/ Waiting("publish") \/ Waiting("toggle")
     /\ page.panel.assigning => Waiting("panel")

\* The assignments that are shown are those of the quiz, once nothing is under
\* way, if they could be loaded and the teacher did not give two commands at a
\* time.
PanelShowsAssigned ==
  page.panel.open /\ ~page.crossed /\ ~lost /\ ~Waiting("panel") /\ ~Crossing(page.quiz) /\ elsewhere = 0
    => page.panel.rows = assigned[page.quiz]

\* The store and the pages are of their type, lists and assignments show what is
\* stored, a wizard makes one quiz, and what waits waits for an answer.
PagesInv ==
  TypeOK /\ ListShowsItsQuery /\ PanelShowsAssigned /\ OneQuizPerWizard /\ BusyMeansAsked
=============================================================================

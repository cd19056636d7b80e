---------------------------- MODULE QuizInvariants ----------------------------
(***************************************************************************)
(* The inductive invariants of QuizStore and QuizPages, in named parts, and *)
(* the terms that the proofs about their actions are put in: which fields  *)
(* of the page and which parts of it an action changes, what a request has *)
(* found out and may still rely on, and what a page and the requests that  *)
(* are heard there say about each other.                                   *)
(***************************************************************************)
EXTENDS QuizPages

InOrder(rows) == \A a, b \in rows : a.position = b.position \/ a.question = b.question => a = b

\* The states of a handler that has found its quiz.
Begun == {"checked", "counted", "ready", "waiting", "deleted", "published"}
Fields == DOMAIN NoRequest
QuizRows ==
  [settings : Settings, status : {"none", "draft", "published", "archived"}, deleted : BOOLEAN]

Shape(r) ==
  DOMAIN r = Fields /\ r.settings \in Settings /\ (r.stage = "counted" => r.kind \in {"publish", "list"})
OfQuiz(r) ==
  r.stage \in Begun /\ r.kind \notin {"none", "create", "list", "bank"}
    => r.quiz \in Quizzes /\ quiz[r.quiz].status # "none"

\* Its transaction on the pool is open.
Replacing(r) == r.kind = "pool" /\ r.stage \in {"waiting", "deleted"}
PoolParsed(r) == r.kind = "pool" /\ r.stage \in Begun => PoolFits(r.ids)

\* Between the check of the pool and the write of the status both may have been
\* written anew: loosened holds these quizzes.
PublishChecked(r) ==
  /\ r.kind = "publish" /\ r.stage = "checked" /\ r.quiz \notin loosened
       => r.settings.per = quiz[r.quiz].settings.per
  /\ r.kind = "publish" /\ r.stage \in {"counted", "ready"}
       => /\ pool[r.quiz] # {}
          /\ r.quiz \notin loosened => Cardinality(pool[r.quiz]) >= quiz[r.quiz].settings.per
CopyRead(r) ==
  r.kind = "duplicate" /\ r.stage = "ready"
    => IsFiniteSet(r.rows) /\ (r.quiz \notin overlapped => InOrder(r.rows))
RowsSeen(r) == Replacing(r) /\ r.quiz \notin overlapped => r.rows = pool[r.quiz]
Underway(r) ==
  Shape(r) /\ OfQuiz(r) /\ PoolParsed(r) /\ PublishChecked(r) /\ CopyRead(r) /\ RowsSeen(r)
Apart ==
  \A i, j \in Slots :
    i # j /\ Replacing(requests[i]) /\ Replacing(requests[j]) /\ requests[i].quiz = requests[j].quiz
      => requests[i].quiz \in overlapped

StoreInv ==
  /\ quiz \in [Quizzes -> QuizRows]
  /\ pool = [id \in Quizzes |-> pool[id]] /\ \A id \in Quizzes : IsFiniteSet(pool[id])
  /\ assigned = [id \in Quizzes |-> assigned[id]]
  /\ requests = [i \in Slots |-> requests[i]]
  /\ \A i \in Slots : Underway(requests[i])
  /\ Apart

\* The settings that the tab sends are those of a form.
Formed(p) == "form" \in DOMAIN p /\ p.form.settings \in Settings

IInv == StoreInv /\ StoreIsWhole /\ Formed(page)

-----------------------------------------------------------------------------
\* Requests that nobody serves yet, or no more.

Fresh(r) == DOMAIN r = Fields /\ r.settings \in Settings /\ r.stage = "sent"
Over(r) ==
  DOMAIN r = Fields /\ r.settings \in Settings /\ r.stage \in {"free", "sent", "answered", "refused"}

\* The same work is left to do, or none that has begun.
Likewise(old, new) ==
  \/ Over(new)
  \/ /\ DOMAIN new = Fields /\ new.settings = old.settings /\ new.kind = old.kind
     /\ new.stage = old.stage /\ new.quiz = old.quiz /\ new.ids = old.ids /\ new.rows = old.rows
Calm(rs, next) ==
  next = [i \in Slots |-> next[i]] /\ \A i \in Slots : Likewise(rs[i], next[i])

-----------------------------------------------------------------------------
\* What the tab does leaves the store alone, asks or forgets, and keeps a form.

Asking ==
  UNCHANGED <<quiz, pool, assigned, loosened, overlapped>> /\ Calm(requests, requests') /\ Formed(page')

-----------------------------------------------------------------------------
\* What a request is, and which page may wait for it: the invariants of the
\* pages rest on these.

LifeCycle == {"publish", "unpublish", "archive", "duplicate", "delete"}

\* Each part of a page asks for its own kinds of things.
Sorted(r) ==
  /\ r.part \in PageParts \union {"none"}
  /\ r.part = "none" => ~r.heard
  /\ r.part \in {"list", "reload"} => r.kind = "list"
  /\ r.part \in {"listAction", "actions"} => r.kind \in LifeCycle
  /\ r.part \in {"save", "draft"} => r.kind \in {"create", "update"}
  /\ r.part \in {"pool", "review"} => r.kind = "readPool"
  /\ r.part = "bank" => r.kind = "bank"
  /\ r.part = "picker" => r.kind = "pool"
  /\ r.part = "publishLoad" => r.kind \in {"readQuiz", "readAssigned"}
  /\ r.part = "publish" => r.kind = "publish"
  /\ r.part = "panel" => r.kind \in {"assign", "unassign", "readAssigned"}
  /\ r.part = "toggle" => r.kind \in {"release", "hide"}
  /\ r.part = "refresh" => r.kind = "readQuiz"
  /\ r.kind = "create" => r.part \in {"save", "draft"}
  /\ r.status = "gone" => TurnsPage(r)
  /\ r.stage \in {"answered", "refused"} => r.heard

\* A request that is heard is one of the page that is shown.
OfPage(p, r) ==
  /\ r.part \in {"list", "reload", "listAction"} => p.kind = "list"
  /\ r.part = "save" =>
       /\ p.kind \in {"wizard", "edit"} /\ p.saving
       /\ r.kind = "create" => p.kind = "wizard" /\ p.quiz = 0
       /\ r.kind = "update" => r.quiz = p.quiz /\ p.quiz # 0
       /\ p.kind = "wizard" => r.total \in {1, 3}
  /\ r.part \in {"pool", "picker", "review", "publishLoad", "publish", "panel", "toggle", "refresh"}
       => r.quiz = p.quiz /\ p.quiz # 0
  /\ r.part = "pool" => p.kind = "wizard" /\ p.step = 2 /\ ~p.picker.open
  /\ r.part = "review" => p.kind = "wizard" /\ p.step = 4
  /\ r.part = "publishLoad" => r.kind \in p.load.left
  /\ r.part = "publish" => p.kind = "wizard" /\ p.step = 5 /\ p.load.left = {}
  /\ r.part = "picker" => p.picker.saving
  /\ r.part = "bank" => p.picker.open
  /\ r.part = "panel" => p.panel.open
  /\ r.part = "toggle" => p.kind = "results"
  /\ r.part = "refresh" \/ (r.part = "actions" /\ r.status # "gone") => p.kind = "edit"

\* Quizzes are never removed from their table.
Made(id) == id \in Quizzes /\ quiz[id].status # "none"
PoolRow == [question : Questions, position : Questions]
Brings(r) ==
  /\ r.quiz = 0 \/ Made(r.quiz)
  /\ r.kind = "create" => (r.stage = "answered" <=> r.quiz # 0)
  /\ r.kind = "bank" /\ r.stage = "answered" => r.rows \subseteq Questions
  /\ r.kind = "readPool" /\ r.stage = "answered" => r.ids \in Seq(Questions)
  /\ r.kind = "list" /\ r.stage = "answered" => \A row \in r.rows : Made(row.quiz)
  /\ r.kind = "duplicate" /\ r.stage = "ready" => r.rows \subseteq PoolRow
  /\ r.kind = "assign" => r.target \in Targets

\* As long as nobody else has sent a request, each is of a part of the page.
Own(r) == elsewhere = 0 /\ r.part = "none" => r = NoRequest
Fits(p, r) == DOMAIN r = Fields /\ Sorted(r) /\ Brings(r) /\ Own(r) /\ (r.heard => OfPage(p, r))

\* A page, and its parts.
PageFields ==
  {"kind", "quiz", "step", "furthest", "form", "saving", "error", "dirty", "asked", "status", "released",
   "busy", "review", "crossed", "list", "picker", "load", "panel"}
PageShape(p) ==
  /\ DOMAIN p = PageFields /\ p.form.settings \in Settings
  /\ DOMAIN p.list = {"search", "query", "rows", "total", "shown", "loading", "error", "stray"}
  /\ DOMAIN p.picker = {"open", "pool", "search", "query", "items", "total", "shown", "selected", "saving",
                        "saved", "touched"}
  /\ DOMAIN p.panel = {"open", "rows", "assigning", "pending"}
  /\ DOMAIN p.load = {"left", "status", "rows"}
StepRight(p) ==
  /\ p.quiz = 0 \/ Made(p.quiz)
  /\ p.furthest \in 1 .. 5 /\ p.step \in 1 .. p.furthest
  /\ p.kind = "wizard" /\ p.quiz = 0 => p.furthest = 1
  /\ p.kind \in {"edit", "preview", "results"} => p.quiz # 0
PartsRight(p) ==
  /\ p.picker.open => p.kind = "edit" \/ (p.kind = "wizard" /\ p.step = 2)
  /\ p.picker.saved \/ p.picker.saving => p.picker.open
  /\ p.panel.open => (p.kind = "preview" \/ (p.kind = "wizard" /\ p.step = 5)) /\ p.load.left = {}
  /\ p.load.left \subseteq {"readQuiz", "readAssigned"}
  /\ p.load.left # {} => p.kind = "wizard" /\ p.step = 5
  /\ p.review # {} => p.kind = "wizard" /\ p.step = 4
PickedRight(k) == k.pool \in Seq(Questions) /\ k.items \subseteq Questions /\ k.selected \subseteq Questions
ListedRight(l) == \A row \in l.rows : Made(row.quiz)
PageRight(p) ==
  PageShape(p) /\ StepRight(p) /\ PartsRight(p) /\ PickedRight(p.picker) /\ ListedRight(p.list)

Is(r, part) == r.heard /\ r.part = part
Single(rs) ==
  \A i, j \in Slots : i # j /\ rs[i].heard /\ rs[j].heard /\ rs[i].part = rs[j].part =>
     /\ rs[i].part \notin {"save", "picker", "pool"}
     /\ rs[i].part = "publishLoad" => rs[i].kind # rs[j].kind

StoreTyped ==
  /\ quiz \in [Quizzes -> QuizRows] /\ \A id \in Quizzes : IsFiniteSet(pool[id])
  /\ \A id \in Quizzes : pool[id] \subseteq PoolRow
  /\ \A id \in Quizzes : assigned[id] \subseteq [target : Targets, number : 1 .. serial]
  /\ alive \subseteq Questions /\ serial \in Nat /\ elsewhere \in Nat

\* What p shows fits the requests rs.
Fitting(p, rs) ==
  PageRight(p) /\ Single(rs) /\ rs = [i \in Slots |-> rs[i]] /\ \A i \in Slots : Fits(p, rs[i])
Core == StoreTyped /\ Fitting(page, requests)

-----------------------------------------------------------------------------
\* Requests that are forgotten, and new ones.

Forgotten(r, s) ==
  \/ s = NoRequest \/ (s = [r EXCEPT !.heard = FALSE] /\ r.kind \notin Reads /\ r.stage \notin {"answered", "refused"})
  \/ TurnsPage(r) /\ s = [r EXCEPT !.status = "gone"]

\* Of the requests that are heard, those of some parts are forgotten.
Left(rs, next, gone) ==
  /\ next = [i \in Slots |-> next[i]]
  /\ \A i \in Slots : next[i] = rs[i] \/ (rs[i].heard /\ rs[i].part \in gone /\ Forgotten(rs[i], next[i]))

\* No other request of the same part is heard where there can be only one.
Alone(rs, r) ==
  r.heard => \A j \in Slots : rs[j].heard /\ rs[j].part = r.part =>
               r.part \notin {"save", "picker", "pool"} /\ (r.part = "publishLoad" => rs[j].kind # r.kind)

-----------------------------------------------------------------------------
\* New requests and new pages.

\* Every part asks for a quiz that is there, or for none.
Sent(r) == DOMAIN r = Fields /\ r.stage = "sent" /\ r.heard /\ r.status = "none" /\ r.part \in PageParts
Of(r, kind, id, part) == r.kind = kind /\ r.quiz = id /\ r.part = part

\* Which part asks for what, as Sorted says it.
Asks(kind, part) ==
  \/ kind \in LifeCycle /\ part \in {"listAction", "actions"}
  \/ kind = "readPool" /\ part \in {"pool", "review"}
  \/ kind \in {"readQuiz", "readAssigned"} /\ part = "publishLoad"
  \/ kind = "publish" /\ part = "publish"
  \/ kind \in {"assign", "unassign", "readAssigned"} /\ part = "panel"
  \/ kind \in {"release", "hide"} /\ part = "toggle"
  \/ kind = "readQuiz" /\ part = "refresh"
  \/ kind = "pool" /\ part = "picker"

NewPart(n) ==
  /\ DOMAIN n = PageFields /\ n.step = 1 /\ n.furthest = 1 /\ n.form = InitialForm /\ ~n.saving /\ ~n.error /\ ~n.dirty
  /\ ~n.asked /\ ~n.busy /\ n.review = {} /\ ~n.crossed /\ n.list = NoList /\ n.picker = NoPicker
  /\ n.load = NoLoad /\ n.panel = NoPanel

\* The page that is shown after a turn: nothing of it waits for a teacher's command.
Untouched(p) ==
  /\ DOMAIN p = PageFields /\ p.step = 1 /\ p.furthest = 1 /\ ~p.saving /\ ~p.dirty /\ ~p.asked /\ ~p.busy
  /\ p.review = {} /\ p.load = NoLoad /\ p.form.settings \in Settings
TurnedTo(p, kind, id) ==
  \/ p = NewPage("missing", 0) /\ kind \notin {"list", "wizard"} /\ ~Live(id)
  \/ /\ p.kind = kind /\ p.quiz = id
     /\ p.list = IF kind = "list" THEN [NoList EXCEPT !.loading = TRUE] ELSE NoList
     /\ IF kind = "edit" THEN \E ids \in Seq(Questions) : p.picker = [NoPicker EXCEPT !.open = TRUE, !.pool = ids]
        ELSE p.picker = NoPicker
     /\ IF kind = "preview"
          THEN /\ p.panel.rows = assigned[id] /\ ~p.panel.assigning /\ p.crossed = Crossing(id)
               /\ DOMAIN p.panel = DOMAIN NoPanel
          ELSE p.panel = NoPanel
     /\ kind \notin {"list", "wizard"} => Made(id)

-----------------------------------------------------------------------------
\* The tab turns to another page, or the wizard to another step.

\* What a step of the wizard shows at first, and what it asks for.
AtItsStep(q, p, step) ==
  /\ DOMAIN q = PageFields /\ q.kind = p.kind /\ q.quiz = p.quiz /\ q.step = step
  /\ q.furthest = (IF p.furthest < step THEN step ELSE p.furthest)
  /\ q.form = p.form /\ q.saving = p.saving /\ q.dirty = p.dirty /\ q.asked = p.asked /\ q.list = p.list
  /\ q.picker = NoPicker /\ q.panel = NoPanel /\ ~q.busy /\ q.review = {} /\ q.crossed = Crossing(p.quiz)
  /\ q.load = [NoLoad EXCEPT !.left = IF step = 5 THEN {"readQuiz", "readAssigned"} ELSE {}]

-----------------------------------------------------------------------------
\* What an action changes of the page and of the requests.

Changes(q, p, fields) == DOMAIN q = PageFields /\ \A f \in PageFields \ fields : q[f] = p[f]

\* The requests that change were of the parts from, and are of the parts to.
Moves(next, rs, from, to) ==
  /\ next = [i \in Slots |-> next[i]]
  /\ \A j \in Slots : \/ next[j] = rs[j]
                      \/ rs[j].part \in from \union {"none"} /\ next[j].part \in to \union {"none"}
Foot(fields, from, to) == Changes(page', page, fields) /\ Moves(requests', requests, from, to)

\* What is heard stays so.
Holds(q, p) ==
  /\ q.kind = p.kind /\ q.quiz = p.quiz /\ q.step = p.step
  /\ p.saving => q.saving
  /\ q.picker.open = p.picker.open
  /\ p.picker.saving => q.picker.saving
  /\ p.panel.open => q.panel.open
  /\ q.load.left = p.load.left

\* A step of the tab that leaves the store and the others alone.
Quiet == UNCHANGED <<storeOnly, elsewhere, mishaps, lost, resent, opened, made>>

-----------------------------------------------------------------------------
\* The picker.

Repooled(q) ==
  /\ Changes(q, page, {"picker"}) /\ DOMAIN q.picker = DOMAIN page.picker /\ PickedRight(q.picker)
  /\ q.picker.open = page.picker.open /\ ~q.picker.saved /\ q.picker.saving = page.picker.saving
  /\ page.picker.saving => q.picker.touched

\* What is searched and selected, or found, has nothing to do with the pool.
Browsed(q) ==
  /\ Changes(q, page, {"picker"}) /\ DOMAIN q.picker = DOMAIN page.picker /\ PickedRight(q.picker)
  /\ q.picker.open = page.picker.open /\ q.picker.saved = page.picker.saved /\ q.picker.saving = page.picker.saving
  /\ q.picker.touched = page.picker.touched /\ q.picker.pool = page.picker.pool

\* The pool is sent as it is shown.
Saves(q) ==
  /\ Changes(q, page, {"picker"}) /\ DOMAIN q.picker = DOMAIN page.picker /\ PickedRight(q.picker)
  /\ q.picker.open = page.picker.open /\ q.picker.saving /\ q.picker.saved = page.picker.saved /\ q.picker.pool = page.picker.pool
  /\ ~q.picker.touched => ~Crossing(page.quiz) /\ ~(page.picker.touched /\ page.picker.saved)

-----------------------------------------------------------------------------
\* The list, and the form.

\* Of the list only what is asked for changes.
Relisted(l) ==
  /\ DOMAIN l = DOMAIN page.list /\ ListedRight(l) /\ l.shown = page.list.shown
  /\ l.loading = page.list.loading /\ l.error = page.list.error /\ l.stray = page.list.stray

\* A query is asked for anew, and stray says whether a reload may yet come.
AskedAnew(q) ==
  /\ q.list.loading
  /\ page.list.stray \/ Waiting("listAction") \/ Waiting("reload") => q.list.stray
  /\ requests' = Put(Forget(requests, {"list"}), AskList(q.list.query, "list"))
  /\ FreeSlots(Forget(requests, {"list"})) # {}

-----------------------------------------------------------------------------
\* The steps of the wizard.

StepFields == {"step", "furthest", "picker", "panel", "busy", "status", "review", "crossed", "load"}

\* What is known of any step of the wizard that is entered.
Entered(p, rs) ==
  \E step \in 1 .. 5 :
    /\ step # p.step /\ AtItsStep(page', p, step)
    /\ requests' = ReadsOfStep(Forget(rs, StepParts), p.quiz, step)
    /\ FreeSlots(Forget(rs, StepParts)) # {}
    /\ step = 5 => FreeSlots(Put(Forget(rs, StepParts), Ask("readQuiz", p.quiz, "publishLoad"))) # {}

-----------------------------------------------------------------------------
\* Saving the form.

\* A request that saves the form.
SaveOf(r, part) ==
  /\ Sent(r) /\ Of(r, IF page.quiz = 0 THEN "create" ELSE "update", page.quiz, part)
  /\ r.settings = page.form.settings /\ r.total = page.step

\* The form is saved: the page waits, and says what it has asked for.
Persisted(part) ==
  /\ page'.saving /\ FreeSlots(requests) # {} /\ \E r : requests' = Put(requests, r) /\ SaveOf(r, part)

-----------------------------------------------------------------------------
\* The page turns, whatever it waits for.

\* Requests after a turn: nobody but those that turn the page is heard, or the
\* first read of the new page.
FirstAsk(r) == r = AskList(AllQuizzes, "list") \/ r = AskBank(AllQuizzes)
Turns(rs) ==
  /\ requests' = [i \in Slots |-> requests'[i]]
  /\ \/ \E x \in Slots : /\ Forget(rs, PageParts)[x] = NoRequest /\ FirstAsk(requests'[x])
                         /\ \A j \in Slots : j # x => requests'[j] = Forget(rs, PageParts)[j]
     \/ \A j \in Slots : requests'[j] = Forget(rs, PageParts)[j]
TurnedSomewhere(rs) ==
  \E kind \in {"list", "wizard", "edit", "preview", "results"} : \E id \in Quizzes \union {0} :
    /\ Untouched(page') /\ TurnedTo(page', kind, id) /\ Turns(rs)
    /\ \A j \in Slots : requests'[j].part = "list" /\ requests'[j].heard => requests'[j].query = AllQuizzes

\* Links, and Save Draft where there is no form to save.
OpensOne == OpenListed \/ Done

\* Save Draft where there is no form, or not a good one.
Leaves == HandleSaveDraft /\ ~(HasForm /\ page.form.title)

-----------------------------------------------------------------------------
\* Commands.

PersistsAs(part) ==
  /\ Fitting(page', requests') /\ Foot({"saving", "dirty", "asked"}, {}, {part}) /\ Persisted(part)
  /\ page'.dirty = (page.dirty /\ lost)
  /\ (page.asked \/ page.quiz = 0) => page'.asked
  /\ UNCHANGED <<storeOnly, elsewhere, mishaps, lost, opened, made>>
  /\ resent' = (resent \/ (page.asked /\ page.quiz = 0))
  /\ page.kind = "wizard" /\ page.step \in {1, 3} /\ (part = "save" => ~page.saving)

\* A button that waits for an answer.
Commanded(part) ==
  /\ Fitting(page', requests') /\ Foot({"busy"}, {}, {part}) /\ Quiet /\ FreeSlots(requests) # {}
  /\ \E r : /\ requests' = Put(requests, r) /\ Sent(r) /\ r.quiz = page.quiz /\ r.part = part
            /\ r.kind \in LifeCycle \union {"release", "hide"}
            /\ r.kind \in {"release", "hide"} => page.kind = "results"

\* The assignments. crossed says that a command was given while another was under way.
PanelAsked(r) ==
  /\ FreeSlots(requests) # {} /\ requests' = Put(requests, r) /\ Sent(r) /\ r.quiz = page.quiz /\ r.part = "panel"
  /\ r.kind \in {"assign", "unassign"}
  /\ page'.panel.rows = page.panel.rows /\ page'.panel.open /\ page.panel.open
  /\ page.crossed \/ Waiting("panel") => page'.crossed
  /\ r.kind = "assign" => page'.panel.assigning
  /\ r.kind = "unassign" => page'.panel.assigning = page.panel.assigning

-----------------------------------------------------------------------------
\* Answers: a request ends, and perhaps another one is sent.

\* Of these fields no request is.
PlainFields == {"busy", "status", "released", "error", "dirty", "asked", "crossed"}

\* The last step of the wizard, as one of its two reads comes in.
LoadFields == {"load", "crossed", "status", "panel"}
LoadTaken(i, rows) ==
  LET r == requests[i] IN
  /\ page'.load.left = page.load.left \ {r.kind}
  /\ page'.load.rows = IF r.kind = "readAssigned" THEN rows ELSE page.load.rows
  /\ page.crossed => page'.crossed
  /\ r.kind = "readAssigned" /\ r.stage = "refused" => page'.crossed
  /\ page'.load.left = {} => page'.panel.rows = page'.load.rows
  /\ page'.panel.assigning = page.panel.assigning

\* The wizard's save: the quiz that was saved is the page's, and the next step
\* is entered, unless the wizard is there already.
SavedPage(p, i) ==
  /\ Changes(p, page, {"saving", "quiz"}) /\ ~p.saving /\ p.quiz = requests[i].quiz /\ p.quiz # 0
  /\ requests[i].kind = "update" => p.quiz = page.quiz
  /\ Fitting(p, Without(i))
  /\ \/ page' = p /\ requests' = Without(i)
     \/ /\ Entered(p, Without(i)) /\ Changes(page', p, StepFields \union {"error", "released"})
        /\ Moves(requests', Without(i), StepParts, StepParts)

-----------------------------------------------------------------------------
\* Refusals.

\* What a refused or a lost request does to the page, but for those of the
\* picker, of the wizard's last step, and of the page's own row.
Undone(r, q) ==
  \/ /\ r.part \in {"list", "reload"} /\ Changes(q, page, {"list"}) /\ q.list.error
     /\ q.list.query = page.list.query /\ q.list.stray = page.list.stray /\ q.list.shown = page.list.shown
  \/ /\ r.part = "save" /\ Changes(q, page, {"saving", "error", "dirty", "asked"})
     /\ ~q.saving /\ q.dirty /\ ~q.asked
  \/ r.part \in {"publish", "toggle", "actions"} /\ Changes(q, page, {"busy"}) /\ ~q.busy /\ ~(r.part = "actions" /\ r.status = "gone")
  \/ /\ r.part = "panel" /\ Changes(q, page, {"panel", "crossed"}) /\ q.panel.rows = page.panel.rows
     /\ page.crossed => q.crossed
     /\ r.kind = "unassign" => q.panel.assigning = page.panel.assigning
     /\ r.kind # "unassign" => ~q.panel.assigning
     /\ r.kind = "readAssigned" => q.crossed
  \/ /\ r.part \notin {"list", "reload", "save", "picker", "publish", "toggle", "panel"}
     /\ r.part = "actions" => r.status = "gone"
     /\ q = page

\* The rest of the page is right, and serves those who wait.
Serves(q, i) ==
  PageRight(q) /\ \A j \in Slots \ {i} : Fits(page, requests[j]) /\ requests[j].heard => OfPage(q, requests[j])

\* The fields of the page that a refusal changes.
UndoneFields == {"list", "saving", "error", "dirty", "asked", "busy", "panel", "crossed"}

-----------------------------------------------------------------------------
\* Answers that are lost.

\* The handler may still do what was asked: then nobody hears of it.
Unheard(r, s) ==
  \/ s = NoRequest
  \/ s = [r EXCEPT !.heard = FALSE] /\ r.stage = "sent" /\ r.kind \notin Reads
LeftOver(i, next) ==
  /\ next = [j \in Slots |-> IF j = i THEN next[i] ELSE requests[j]]
  /\ Unheard(requests[i], next[i])

\* The pool is not there: the picker is mounted with an empty one.
PoolLost(i) ==
  /\ Foot({"picker"}, {"pool"}, {"bank"}) /\ ~page'.picker.saving /\ ~page'.picker.saved
  /\ requests[i].part = "pool"
\* The last step is shown as for a draft.
LoadLost(i) ==
  /\ Foot({"status", "load"}, {"publishLoad"}, {"publishLoad"}) /\ requests[i].part = "publishLoad"
  /\ \A j \in Slots : requests'[j] = requests[j] \/ requests'[j] = NoRequest
OtherLost(i) ==
  /\ LeftOver(i, requests')
  /\ \/ /\ Undone(requests[i], page') /\ requests[i].part \in {"list", "reload", "panel"}
        /\ Foot({"list", "panel", "crossed"}, {requests[i].part}, {requests[i].part})
     \/ /\ requests[i].part \in {"save", "draft"} /\ page'.dirty /\ Foot({"dirty"}, {requests[i].part}, {requests[i].part})
     \/ /\ requests[i].part \notin {"list", "reload", "panel", "save", "draft"} /\ page' = page
        /\ Foot({}, {requests[i].part}, {requests[i].part})

Losing(i) ==
  LET r == requests[i]
      left == [Without(i) EXCEPT ![i] = IF r.kind \in Reads \/ r.stage = "answered" THEN NoRequest
                                        ELSE [r EXCEPT !.heard = FALSE]]
  IN
  /\ r.heard /\ r.stage \in {"sent", "answered"}
  /\ LeftOver(i, left) /\ (r.kind \in Reads => left[i] = NoRequest)
  /\ CASE r.part = "pool" ->
            /\ page' = [page EXCEPT !.picker = [NoPicker EXCEPT !.open = TRUE]]
            /\ requests' = Put(left, AskBank(AllQuizzes))
       [] r.part = "publishLoad" ->
            /\ page' = [page EXCEPT !.status = "draft", !.load = NoLoad]
            /\ requests' = Forget(left, {"publishLoad"})
       [] r.part \in {"list", "reload", "panel"} -> page' = Unready(r) /\ requests' = left
       [] r.part \in {"save", "draft"} -> page' = [page EXCEPT !.dirty = TRUE] /\ requests' = left
       [] OTHER -> page' = page /\ requests' = left
  /\ lost' /\ UNCHANGED <<storeOnly, elsewhere, resent, opened, made>>

-----------------------------------------------------------------------------
\* The handlers: each changes one request, and some the tables.

Alike(r, x) ==
  /\ DOMAIN x = Fields /\ x.kind = r.kind /\ x.part = r.part /\ x.heard = r.heard /\ x.query = r.query
  /\ x.target = r.target
  /\ x.status = r.status \/ (r.kind = "readQuiz" /\ x.status # "gone")
  /\ x.quiz = r.quiz \/ r.kind \in {"create", "duplicate"}
  /\ x.ids = r.ids \/ r.kind = "readPool"
  /\ x.settings = r.settings \/ r.kind \in {"publish", "duplicate"}
  /\ x.total = r.total \/ r.kind \in {"list", "bank"}
  /\ x.rows = r.rows \/ r.kind \in {"list", "bank", "duplicate", "pool", "readAssigned"}
Handled(r, s) ==
  \/ s = NoRequest /\ ~r.heard
  \/ Alike(r, s) /\ s.stage \notin {"free", "sent"} /\ (s.stage \in {"answered", "refused"} => s.heard)
Served(i, s) ==
  /\ requests' = [j \in Slots |-> IF j = i THEN s ELSE requests[j]] /\ Handled(requests[i], s)
  /\ requests[i].stage \notin {"free", "answered", "refused"}

\* As it was, but for its stage.
OnlyStage(s, x, stage) ==
  /\ DOMAIN s = Fields /\ s.kind = x.kind /\ s.stage = stage /\ s.quiz = x.quiz /\ s.settings = x.settings
  /\ s.ids = x.ids /\ s.rows = x.rows /\ s.target = x.target /\ s.query = x.query /\ s.total = x.total
  /\ s.status = x.status /\ s.part = x.part /\ s.heard = x.heard

\* No row of quizzes goes.
Grows == \A id \in Quizzes : quiz[id].status # "none" => quiz'[id].status # "none"

ServeRight(i) == (\E s : Served(i, s) /\ Brings(s)') /\ StoreTyped' /\ Grows

\* The row of a quiz is written.
Written(i) ==
  LET r == requests[i] IN
  /\ r.quiz \in Quizzes /\ UNCHANGED <<pool, assigned, serial, alive>> /\ Answer(i, r) /\ r.stage \in Begun
  /\ r.kind \in {"update", "delete", "publish", "unpublish", "archive", "release", "hide"}
  /\ \E row : /\ quiz' = [quiz EXCEPT ![r.quiz] = row] /\ row.status # "none"
              /\ r.kind = "update" => row.settings = r.settings
              /\ r.kind \notin {"update", "release", "hide"} => row.settings = quiz[r.quiz].settings

\* A row is added.
AddedAs(i, id, row, x) ==
  LET r == requests[i] IN
  /\ quiz[id] = NoQuiz /\ quiz' = [quiz EXCEPT ![id] = row] /\ row.status = "draft" /\ row.settings = r.settings
  /\ Answer(i, x) /\ DOMAIN x = Fields /\ x.quiz = id /\ x.kind = r.kind /\ x.part = r.part /\ x.heard = r.heard
  /\ x.settings = r.settings /\ x.total = r.total /\ x.query = r.query /\ x.target = r.target
  /\ x.status = r.status /\ x.ids = r.ids /\ (r.kind = "create" => x.rows = r.rows)
  /\ r.kind \in {"create", "duplicate"} /\ r.stage \in {"sent", "ready"}
  /\ UNCHANGED <<assigned, serial, alive>> /\ (r.kind = "create" => r.stage = "sent" /\ UNCHANGED <<pool, overlapped>>)
  /\ r.kind = "duplicate" => r.stage = "ready" /\ pool' = [pool EXCEPT ![id] = r.rows]
Added(i) == \E id \in Quizzes : \E row, x : AddedAs(i, id, row, x)

\* The rows of a pool are replaced, but for those the handler did not see.
Replaced(i) ==
  LET r == requests[i] IN
  /\ r.kind = "pool" /\ r.stage = "deleted" /\ r.quiz \in Quizzes /\ PoolFits(r.ids)
  /\ UNCHANGED <<quiz, assigned, serial, alive, overlapped>>
  /\ \/ Refuse(i) /\ UNCHANGED pool
     \/ /\ pool' = [pool EXCEPT ![r.quiz] = (pool[r.quiz] \ r.rows) \union RowsOf(r.ids)]
        /\ \E x : Answer(i, x) /\ Alike(r, x) /\ x.quiz = r.quiz

\* Only assignments are written.
Given(i) ==
  LET r == requests[i] IN
  /\ r.kind \in {"assign", "unassign"} /\ r.stage \in Begun /\ r.quiz \in Quizzes
  /\ UNCHANGED <<quiz, pool, alive>>
  /\ \/ Refuse(i) /\ UNCHANGED <<assigned, serial>>
     \/ /\ r.kind = "assign" /\ Answer(i, r) /\ serial' = serial + 1
        /\ assigned' = [assigned EXCEPT ![r.quiz] = @ \union {[target |-> r.target, number |-> serial + 1]}]
     \/ /\ r.kind = "unassign" /\ Answer(i, r) /\ serial' = serial
        /\ assigned' = [assigned EXCEPT ![r.quiz] = @ \ r.rows]

\* What others send is not heard of here.
Others(r) ==
  /\ DOMAIN r = Fields /\ r.part = "none" /\ ~r.heard /\ r.status = "none" /\ r.stage = "sent"
  /\ r.kind \in {"update", "publish", "unpublish", "delete", "pool", "assign"}
  /\ Made(r.quiz) /\ (r.kind = "assign" => r.target \in Targets)

\* A wizard that has saved its quiz.
SavedWizard(p, step) ==
  /\ PageShape(p) /\ p.kind = "wizard" /\ p.quiz = 1 /\ p.step = 1 /\ p.furthest = step /\ ~p.dirty /\ p.asked /\ ~p.saving
  /\ p.form.settings = quiz[1].settings /\ p.list = NoList /\ PageRight(p)

-----------------------------------------------------------------------------
\* The list.

ListParts == {"list", "reload", "listAction"}
AskedBy(l, r) ==
  /\ Is(r, "list") => r.query = l.query
  /\ Is(r, "reload") \/ Is(r, "listAction") => r.query = l.query \/ l.stray
ShownRight(l) == l.shown # NoQuery /\ ~l.loading /\ ~l.error /\ ~l.stray => l.shown = l.query
ListRight(l, rs) == ShownRight(l) /\ \A i \in Slots : AskedBy(l, rs[i])
ListInv == ListRight(page.list, requests)

\* The request of a slot is still the one that was there, or no longer of the list.
Same(r, s) == s.heard /\ s.part \in ListParts => r.heard /\ r.part = s.part /\ r.query = s.query

-----------------------------------------------------------------------------
\* What waits.

SaveWaits(p, rs) == p.saving => \E i \in Slots : Is(rs[i], "save") \/ Is(rs[i], "draft")
PickWaits(p, rs) == p.picker.saving => \E i \in Slots : Is(rs[i], "picker")
BusyWaits(p, rs) ==
  p.busy => \E i \in Slots : \/ Is(rs[i], "actions") /\ rs[i].status # "gone"
                             \/ Is(rs[i], "publish") \/ Is(rs[i], "toggle")
PanelWaits(p, rs) ==
  p.panel.assigning => \E i \in Slots : Is(rs[i], "panel") /\ rs[i].kind # "unassign"
WaitsRight(p, rs) == SaveWaits(p, rs) /\ PickWaits(p, rs) /\ BusyWaits(p, rs) /\ PanelWaits(p, rs)
BusyInv == lost \/ WaitsRight(page, requests)

-----------------------------------------------------------------------------
\* A first save that may still make a quiz, or has been refused and then lets
\* the wizard save for the first time again.
Pends(r) == r.kind = "create" /\ (r.stage \notin {"answered", "refused"} \/ (r.stage = "refused" /\ Is(r, "save")))
Creates(rs) == {i \in Slots : Pends(rs[i])}
Token(p) == IF p.kind = "wizard" /\ p.quiz = 0 /\ ~p.asked THEN 1 ELSE 0
CountInv ==
  /\ made \in Nat /\ opened \in Nat
  /\ resent \/ made + Cardinality(Creates(requests)) + Token(page) <= opened

\* What a step of the wizard reads.
StepRead(r, id) ==
  /\ Sent(r) /\ r.quiz = id /\ r.kind \in {"readPool", "readQuiz", "readAssigned"}
  /\ r.part \in {"pool", "review", "publishLoad"}

ReadOrNot(next, rs, id) ==
  \A j \in Slots : next[j] = rs[j] \/ (rs[j] = NoRequest /\ StepRead(next[j], id))

-----------------------------------------------------------------------------
\* The steps of the tab, by what they do to its forms and its saved parts.

NeutralFields == {"list", "busy", "status", "released", "error"}
NeutralParts == {"list", "reload", "listAction", "bank", "publish", "actions", "toggle", "refresh"}
Switches(r) == r.kind \in {"release", "hide"}
Neutral ==
  /\ Foot(NeutralFields, NeutralParts, NeutralParts)
  /\ page.kind = "wizard" => \A j \in Slots : Switches(requests'[j]) => requests'[j] = requests[j]

\* As long as nobody else sends anything, slots are used by the parts of the page.
MovesOwn(next, rs, from, to) ==
  \A j \in Slots : \/ next[j] = rs[j]
                  \/ /\ rs[j].part \in from \/ rs[j] = NoRequest
                     /\ next[j].part \in to \/ next[j] = NoRequest

FormTouched == Foot({"form", "dirty"}, {}, {}) /\ page'.dirty
Stepped(p, rs) ==
  Entered(p, rs) /\ p.kind = "wizard" /\ Foot(StepFields \union {"error", "released", "saving", "quiz"}, PageParts, StepParts)
Submitted == Foot({"saving", "error"}, {}, {"save"}) /\ page.kind = "edit"
PickerTouched == Foot({"picker"}, {}, {}) /\ requests' = requests /\ Repooled(page')
PickerBrowsed == Foot({"picker"}, {"bank"}, {"bank"}) /\ Browsed(page')
PanelTouched == Foot({"panel", "crossed"}, {}, {"panel"}) /\ \E r : PanelAsked(r)

SaveUndone(i) ==
  /\ Foot({"saving", "error", "dirty", "asked"}, {"save"}, {}) /\ page'.dirty /\ requests[i].part = "save"
  /\ requests' = Without(i)
PanelUndone(i) ==
  /\ Foot({"panel", "crossed"}, {"panel"}, {}) /\ requests[i].part = "panel" /\ requests' = Without(i)
  /\ page'.panel.rows = page.panel.rows /\ (page.crossed => page'.crossed)
  /\ requests[i].kind = "readAssigned" => page'.crossed

-----------------------------------------------------------------------------
\* The assignments that are shown.

Shows(p) == p.quiz # 0 /\ (p.kind = "preview" \/ (p.kind = "wizard" /\ p.step = 5))
Gives(r, id) == r.kind \in {"assign", "unassign"} /\ r.quiz = id

\* The assignments of the quiz are written by the panel, one at a time ...
GivenHere(p, rs) == \A i \in Slots : Gives(rs[i], p.quiz) => Is(rs[i], "panel")
OnePanel(rs) == \A i, j \in Slots : Is(rs[i], "panel") /\ Is(rs[j], "panel") => i = j

\* ... so A is what is shown, or was read to be shown, ...
PanelShown(p, rs, A) ==
  /\ p.load.left = {} /\ (\A i \in Slots : ~Is(rs[i], "panel")) => p.panel.rows = A
  /\ p.load.left = {"readQuiz"} => p.load.rows = A

\* ... or what the answer that is due will make of it.
PanelRead(p, r, A) ==
  /\ Is(r, "publishLoad") /\ r.kind = "readAssigned" /\ r.stage = "answered" => r.rows = A
  /\ Is(r, "panel") =>
       /\ r.kind # "readAssigned" /\ r.stage # "answered" => p.panel.rows = A
       /\ r.kind = "unassign" /\ r.stage = "answered" => A = p.panel.rows \ r.rows
       /\ r.kind = "readAssigned" /\ r.stage = "answered" => r.rows = A
PanelRight(p, rs, A) ==
  GivenHere(p, rs) /\ OnePanel(rs) /\ PanelShown(p, rs, A) /\ \A i \in Slots : PanelRead(p, rs[i], A)
PanelInv ==
  elsewhere = 0 /\ ~lost /\ ~page.crossed /\ Shows(page) => PanelRight(page, requests, assigned[page.quiz])

\* Only what the parts about assignments do matters.
PanelCalmly ==
  /\ page'.kind = page.kind /\ page'.quiz = page.quiz /\ page'.step = page.step /\ page'.load.left = page.load.left
  /\ page'.load.rows = page.load.rows /\ page'.panel.rows = page.panel.rows /\ (page.crossed => page'.crossed)
Aside(r) == ~Is(r, "panel") /\ ~Is(r, "publishLoad") /\ r.kind \notin {"assign", "unassign"}

PanelFields == {"kind", "quiz", "step", "load", "panel", "crossed"}

-----------------------------------------------------------------------------
\* The steps of a handler, by what they do to the tables.

GoesOnly(i) == UNCHANGED <<quiz, pool, assigned>> /\ requests'[i].stage # "answered"
ReadsOnly(i) ==
  /\ UNCHANGED <<quiz, pool, assigned, overlapped>> /\ requests[i].kind \in Reads
  /\ requests[i].kind = "readAssigned" /\ requests'[i].stage = "answered" =>
       requests'[i].rows = assigned[requests[i].quiz]
  /\ requests[i].kind = "readPool" /\ requests'[i].stage = "answered" =>
       requests'[i].ids \in OrdersOf(pool[requests[i].quiz])

PagesIInv == IInv /\ Core /\ ListInv /\ BusyInv /\ CountInv /\ PanelInv

-----------------------------------------------------------------------------
\* The message that the pool is saved: unless the pool was touched, whatever is
\* sent of it is what the picker holds, and has been stored when it is answered.

Replaces(r, id) == r.kind = "pool" /\ r.quiz = id
PoolAnswered(r) == Is(r, "picker") /\ r.stage = "answered"
PoolSent(k, id, rs) == \A i \in Slots : Replaces(rs[i], id) => rs[i].ids = k.pool
PoolStored(k, rs, rows) == k.saved \/ (\E i \in Slots : PoolAnswered(rs[i])) => rows = RowsOf(k.pool)
Messages(k) == ~k.touched /\ (k.saved \/ k.saving)
PickerInv ==
  elsewhere = 0 /\ Messages(page.picker) =>
    /\ PoolSent(page.picker, page.quiz, requests)
    /\ page.quiz \notin overlapped => PoolStored(page.picker, requests, pool[page.quiz])

\* Nothing that is of a pool comes about.
NoMoreOfPool(r, s) ==
  /\ s.kind = "pool" => r.kind = "pool" /\ r.quiz = s.quiz /\ r.ids = s.ids
  /\ PoolAnswered(s) => PoolAnswered(r)
=============================================================================

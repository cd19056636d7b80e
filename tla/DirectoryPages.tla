----------------------------- MODULE DirectoryPages -----------------------------
(***************************************************************************)
(* A browser on the pages about accounts and classes: the administrator's  *)
(* list of accounts (user-list.tsx), a teacher's list of classes           *)
(* (class-list.tsx), the page of a class with its roster and the students  *)
(* to add (class-roster.tsx, import-students-dialog.tsx), or the pages to  *)
(* sign in, register and sign out (auth/). Its requests are handled by     *)
(* Directory, together with those from elsewhere.                          *)
(*                                                                         *)
(* A dialog is opened, filled in and sent in one action. Nothing leads     *)
(* from one of these pages to another here: page.kind is chosen at first.  *)
(* No action depends on the fields missed, unseen and crossed of the page, *)
(* which are history.                                                      *)
(***************************************************************************)
EXTENDS Directory

CONSTANTS
  Existing,       \* the accounts 1 .. Existing are students, the first one in class 1
  Files,          \* the addresses in the rows of the files to import
  MaxInputs,      \* bounds what the user of the browser does
  MaxEvents       \* bounds what others do and what goes wrong, together

ASSUME PagesAssumption ==
  /\ Existing \in 1 .. MaxAccounts /\ Existing <= MaxEmails /\ MaxClasses > 0 /\ MaxRequests > 0
  /\ Files \subseteq Seq(0 .. MaxEmails)
  /\ {MaxInputs, MaxEvents} \subseteq Nat

VARIABLES
  page,        \* what the browser shows, and its cookie
  inputs,      \* how often its user did something
  events       \* how often something happened besides

vars == <<directoryVars, page, inputs, events>>
serverVars == <<tables, redis, history>>

InitialPage(kind) ==
  [kind |-> kind, search |-> FALSE, query |-> NoQuery, rows |-> {}, total |-> 0, loading |-> FALSE,
   error |-> FALSE, available |-> {}, pending |-> 0, report |-> <<>>,
   cookie |-> 0, form |-> FALSE, home |-> FALSE, circling |-> FALSE,
   missed |-> FALSE, unseen |-> FALSE, crossed |-> FALSE]

FreeSlots(rs) == {i \in Slots : rs[i] = NoRequest}
Put(rs, r) == [rs EXCEPT ![CHOOSE i \in FreeSlots(rs) : \A j \in FreeSlots(rs) : i <= j] = r]
Waiting(parts) == \E i \in Slots : requests[i].part \in parts
Without(i) == [requests EXCEPT ![i] = NoRequest]

Do == inputs < MaxInputs /\ inputs' = inputs + 1
Event == events < MaxEvents /\ events' = events + 1
Rest == UNCHANGED <<serverVars, events>>
Show(p) == page' = p /\ UNCHANGED requests /\ Rest
Send(p, r) == FreeSlots(requests) # {} /\ page' = p /\ requests' = Put(requests, r) /\ Rest

\* An effect runs again: what it has asked for before is not waited for.
Dropped(rs, part) == [i \in Slots |-> IF rs[i].part = part THEN NoRequest ELSE rs[i]]
Rerun(p, rs, r) ==
  LET left == Dropped(rs, r.part) IN
  FreeSlots(left) # {} /\ page' = p /\ requests' = Put(left, r) /\ Rest

-----------------------------------------------------------------------------
\* The lists of accounts and of classes.

InList == page.kind \in {"users", "classes"}
AskList(p) == [Ask(p.kind, "list") EXCEPT !.query = p.query]

\* Bug: the request for the query before is waited for as well.
LoadToo(p, rs) ==
  /\ FreeSlots(rs) # {}
  /\ page' = [p EXCEPT !.loading = TRUE, !.error = FALSE] /\ requests' = Put(rs, AskList(p)) /\ Rest
Load(p, rs) == Rerun([p EXCEPT !.loading = TRUE, !.error = FALSE], rs, AskList(p))
ListAs(p) == IF p.query = page.query THEN Show(p) ELSE Load(p, requests)

HandleSearchChange == Do /\ InList /\ ListAs([page EXCEPT !.search = ~@, !.query.page = 1])
HandleRoleChange(role) ==
  Do /\ page.kind = "users" /\ ListAs([page EXCEPT !.query.role = role, !.query.page = 1])
Pages(total) == IF total = 0 THEN 1 ELSE (total + PageSize - 1) \div PageSize
TurnPage ==
  /\ Do /\ InList /\ page.total > 0
  /\ \E n \in {page.query.page - 1, page.query.page + 1} :
       /\ IF n < page.query.page THEN n >= 1 ELSE n <= Pages(page.total)
       /\ ListAs([page EXCEPT !.query.page = n])

AskFor(kind, id) == [Ask(kind, "action") EXCEPT !.id = id]
Create ==
  /\ Do /\ InList /\ ~Waiting({"create"})
  /\ IF page.kind = "classes" THEN \E n \in Classes : Send(page, [Ask("createClass", "create") EXCEPT !.name = n])
     ELSE \E e \in 1 .. MaxEmails : \E role \in {"teacher", "student"} :
            Send(page, [Ask("createUser", "create") EXCEPT !.email = e, !.value = role])
ToggleStatus(row) ==
  /\ Do /\ page.kind = "users" /\ row \in page.rows
  /\ Send(page, [AskFor("update", row.id) EXCEPT
                   !.value = IF row.status = "active" THEN "disabled" ELSE "active"])
HandleDelete(row) ==
  /\ Do /\ InList /\ row \in page.rows
  /\ Send(page, IF page.kind = "users" THEN AskFor("deleteUser", row.id)
                ELSE [Ask("deleteClass", "action") EXCEPT !.class = row.id])
ResetPassword(row) ==
  /\ Do /\ page.kind = "users" /\ row \in page.rows /\ ~Waiting({"reset"})
  /\ Send(page, [Ask("reset", "reset") EXCEPT !.id = row.id])
RenameClass(row) ==
  /\ Do /\ page.kind = "classes" /\ row \in page.rows
  /\ \E n \in Classes : Send(page, [Ask("updateClass", "action") EXCEPT !.class = row.id, !.name = n])

-----------------------------------------------------------------------------
\* The page of class 1.

InRoster == page.kind = "roster"
RosterParts == {"change", "create", "import", "edit"}
AskAvailable(p) ==
  [Ask("available", "available") EXCEPT !.class = 1, !.query.search = p.query.search]

\* The button of a student is disabled while its own request is the last sent.
Change(kind, id) ==
  /\ page.pending # id
  /\ Send([page EXCEPT !.pending = id, !.error = FALSE, !.crossed = (@ \/ Waiting(RosterParts))],
          [Ask(kind, "change") EXCEPT !.class = 1, !.id = id])
AddStudent(a) == Do /\ InRoster /\ a \in page.available /\ Change("add", a)
RemoveStudent(row) == Do /\ InRoster /\ row \in page.rows /\ Change("remove", row.id)
DeleteStudent(row) == Do /\ InRoster /\ row \in page.rows /\ Change("deleteStudent", row.id)
EditStudent(row) ==
  /\ Do /\ InRoster /\ row \in page.rows /\ page.pending # row.id
  /\ Send([page EXCEPT !.crossed = (@ \/ Waiting(RosterParts))],
          [Ask("editStudent", "edit") EXCEPT !.id = row.id])
CreateStudent(e) ==
  /\ Do /\ InRoster /\ ~Waiting({"create"})
  /\ Send([page EXCEPT !.crossed = (@ \/ Waiting(RosterParts))],
          [Ask("createStudent", "create") EXCEPT !.stage = "class", !.class = 1, !.email = e])
\* The dialog can be closed and opened again meanwhile.
ImportStudents(file) ==
  /\ Do /\ InRoster
  /\ Send([page EXCEPT !.report = <<>>, !.crossed = (@ \/ Waiting(RosterParts))],
          [Ask("import", "import") EXCEPT !.class = 1, !.rows = file])
SearchStudents == Do /\ InRoster /\ Show([page EXCEPT !.search = ~@])

\* 300 ms after the last key, on each of these pages.
SearchDebounced ==
  LET p == [page EXCEPT !.query.search = page.search] IN
  /\ (InList \/ InRoster) /\ p # page /\ UNCHANGED inputs
  /\ IF InList THEN Load(p, requests) ELSE Rerun(p, requests, AskAvailable(p))

-----------------------------------------------------------------------------
\* Signing in and out. The browser has any number of tabs: one that has shown a
\* form, or a page behind it, may still do so.

InBrowser == page.kind = "browser"

\* The proxy turns /login to /dashboard for whoever has a cookie, and every page
\* but the forms to /login for whoever has none.
OpenPage ==
  /\ Do /\ InBrowser
  /\ IF page.cookie = 0 THEN Show([page EXCEPT !.form = TRUE])
     ELSE Send(page, [Ask("visit", "visit") EXCEPT !.token = page.cookie])
SubmitLogin(e, fresh) ==
  /\ Do /\ InBrowser /\ page.form /\ ~Waiting({"sign"})
  /\ Send(page, [Ask("login", "sign") EXCEPT !.email = e, !.fresh = fresh])
SubmitRegister(e) ==
  /\ Do /\ InBrowser /\ page.form /\ ~Waiting({"sign"})
  /\ Send(page, [Ask("register", "sign") EXCEPT !.email = e])
HandleLogout ==
  /\ Do /\ InBrowser /\ page.home /\ ~Waiting({"logout"})
  /\ Send(page, [Ask("logout", "logout") EXCEPT !.token = page.cookie])

-----------------------------------------------------------------------------
\* Answers.

Heard(i, parts) == requests[i].part \in parts /\ requests[i].stage \in {"answered", "refused"}
Well(i) == requests[i].stage = "answered"
Shows(p, rs) == page' = p /\ requests' = rs /\ Rest

LoadAnswered(i) ==
  /\ Heard(i, {"list"}) /\ UNCHANGED inputs
  /\ Shows(IF Well(i) THEN [page EXCEPT !.rows = requests[i].shown, !.total = requests[i].total,
                                        !.loading = FALSE]
           ELSE [page EXCEPT !.loading = FALSE, !.error = TRUE], Without(i))

\* Bug: the list is not loaded again.
ActionAnsweredOnly(i) ==
  Heard(i, {"create", "action", "reset"}) /\ InList /\ UNCHANGED inputs /\ Shows(page, Without(i))

\* What has been done shows when the list is loaded again.
ActionAnswered(i) ==
  /\ Heard(i, {"create", "action", "reset"}) /\ InList /\ UNCHANGED inputs
  /\ IF Well(i) /\ requests[i].part # "reset" THEN Load(page, Without(i)) ELSE Shows(page, Without(i))

AvailableAnswered(i) ==
  /\ Heard(i, {"available"}) /\ UNCHANGED inputs
  /\ Shows(IF Well(i) THEN [page EXCEPT !.available = requests[i].shown]
           ELSE [page EXCEPT !.unseen = TRUE], Without(i))

\* Bug: only the search is a dependency of the effect.
RosterAsOnly(p, rs) == Shows(p, rs)

\* The students to add are searched again when the roster has another length.
RosterAs(p, rs) ==
  IF Cardinality(p.rows) = Cardinality(page.rows) THEN Shows(p, rs)
  ELSE Rerun(p, rs, AskAvailable(p))

\* Bug: the student stays on the roster.
RowsAfterAsBefore(r) ==
  CASE r.kind \in {"add", "createStudent", "import"} -> r.shown
    [] r.kind = "remove" -> page.rows
    [] r.kind = "deleteStudent" -> {row \in page.rows : row.id # r.id}
    [] r.kind = "editStudent" -> {[row EXCEPT !.renamed = @ \/ row.id = r.id] : row \in page.rows}

\* The answer has the whole roster, or the change is made to the one shown.
RowsAfter(r) ==
  CASE r.kind \in {"add", "createStudent", "import"} -> r.shown
    [] r.kind \in {"remove", "deleteStudent"} -> {row \in page.rows : row.id # r.id}
    [] r.kind = "editStudent" -> {[row EXCEPT !.renamed = @ \/ row.id = r.id] : row \in page.rows}
RosterAnswered(i) ==
  LET r == requests[i]
      p == IF r.part = "change" THEN [page EXCEPT !.pending = 0] ELSE page
  IN
  /\ Heard(i, RosterParts) /\ InRoster /\ UNCHANGED inputs
  /\ IF Well(i) THEN RosterAs([p EXCEPT !.rows = RowsAfter(r), !.report = r.outcome], Without(i))
     ELSE Shows([p EXCEPT !.error = r.part = "change"], Without(i))

\* A session that is gone leads from /dashboard to /login, and back.
BrowserAnswered(i) ==
  LET r == requests[i] IN
  /\ Heard(i, {"sign", "visit", "logout"}) /\ UNCHANGED inputs
  /\ Shows(IF ~Well(i) THEN [page EXCEPT !.circling = (@ \/ (r.part = "visit" /\ page.cookie # 0))]
           ELSE CASE r.part = "sign" -> [page EXCEPT !.cookie = r.token, !.home = TRUE]
                  [] r.part = "visit" -> [page EXCEPT !.home = TRUE]
                  [] r.part = "logout" -> [page EXCEPT !.cookie = 0, !.form = TRUE],
           Without(i))

\* The answer is lost: the fetch throws, and only what is in a finally is done.
LoseAnswer(i) ==
  LET r == requests[i] IN
  /\ "network" \in Faults /\ Event /\ UNCHANGED <<serverVars, inputs>>
  /\ r.stage \in {"answered", "refused"}
  /\ requests' = Without(i)
  /\ page' = CASE r.part = "list" -> [page EXCEPT !.loading = FALSE, !.error = TRUE]
               [] r.part = "available" -> [page EXCEPT !.unseen = TRUE]
               [] r.part = "change" -> [page EXCEPT !.pending = 0, !.missed = TRUE, !.unseen = TRUE]
               [] OTHER -> [page EXCEPT !.missed = TRUE, !.unseen = TRUE]

-----------------------------------------------------------------------------
\* The server's steps, and what the page has not seen of them.

Unseen(i) ==
  LET r == requests[i]
      rereads == r.part # "none" /\ (At(i, {"users", "classes"}, "sent") \/ r.stage = "listing")
      halfDone == \/ strayed' # strayed
                  \/ /\ r.stage \in {"row", "class", "checked", "free", "made", "owned", "ready",
                                     "enrolled", "listing"}
                     /\ requests'[i].stage = "refused"
                     /\ r.kind # "createUser"
      behind == halfDone \/ (r.part = "none" /\ tables' # tables)
  IN
  [page EXCEPT !.missed = behind \/ (@ /\ ~rereads),
               !.unseen = behind \/ (@ /\ (page.missed \/ ~At(i, {"available"}, "owned")))]
ServeStep(i) == Serve(i) /\ page' = Unseen(i) /\ UNCHANGED <<inputs, events>>
FailStep(i) == Event /\ Fail(i) /\ page' = Unseen(i) /\ UNCHANGED inputs

\* Requests of other browsers.
RosterAsks ==
  {[Ask(k, "none") EXCEPT !.class = 1, !.id = a] : k \in {"add", "remove"}, a \in 1 .. MaxAccounts}
Asks(kind) ==
  CASE kind = "users" -> {[Ask("createUser", "none") EXCEPT !.email = MaxEmails, !.value = "student"],
                          [Ask("update", "none") EXCEPT !.id = 1, !.value = "disabled"],
                          [Ask("deleteUser", "none") EXCEPT !.id = 1]}
    [] kind = "classes" -> {[Ask("createClass", "none") EXCEPT !.name = 1],
                            [Ask("deleteClass", "none") EXCEPT !.class = 1],
                            [Ask("remove", "none") EXCEPT !.class = 1, !.id = 1]}
    [] kind = "roster" ->
         {[Ask("createUser", "none") EXCEPT !.email = MaxEmails, !.value = "student"],
          [Ask("updateClass", "none") EXCEPT !.class = 1, !.name = 1, !.value = "other"],
          [Ask("deleteClass", "none") EXCEPT !.class = 1]}
           \union RosterAsks
    [] kind = "browser" -> {[Ask("login", "none") EXCEPT !.email = 1],
                            [Ask("register", "none") EXCEPT !.email = MaxEmails],
                            [Ask("reset", "none") EXCEPT !.id = 1],
                            [Ask("update", "none") EXCEPT !.id = 1, !.value = "disabled"]}
Elsewhere ==
  /\ Event /\ FreeSlots(requests) # {}
  /\ \E r \in Asks(page.kind) : requests' = Put(requests, r)
  /\ UNCHANGED <<serverVars, page, inputs>>

Expiry ==
  \/ \E k \in Counters : WindowEnds(k) /\ UNCHANGED <<page, inputs, events>>
  \/ \E t \in Tokens : "expiry" \in Faults /\ Event /\ SessionExpires(t) /\ UNCHANGED <<page, inputs>>

-----------------------------------------------------------------------------
Kinds == {"users", "classes", "roster", "browser"}

\* The page of a class has its roster from the server; the browser may have a
\* session already.
Init ==
  /\ account = [a \in Accounts |-> IF a <= Existing THEN NewAccount(a, "student") ELSE NoAccount]
  /\ class = [c \in Classes |-> IF c = 1 THEN [NoClass EXCEPT !.owner = "own", !.name = 1]
                                 ELSE NoClass]
  /\ enrolled = [c \in Classes |-> IF c = 1 THEN {1} ELSE {}]
  /\ counter = [k \in Counters |-> NoCounter]
  /\ ended = {} /\ removed = {} /\ strayed = {} /\ stuck = {}
  /\ inputs = 0 /\ events = 0
  /\ \E kind \in Kinds : \E t \in IF kind = "browser" /\ MaxTokens > 0 THEN {0, 1} ELSE {0} :
       LET p == [InitialPage(kind) EXCEPT !.cookie = t, !.home = t = 1, !.form = t = 0]
           none == [i \in Slots |-> NoRequest]
       IN
       /\ session = [u \in Tokens |-> IF u = t THEN 1 ELSE 0] /\ tokens = t
       /\ CASE kind = "browser" -> page = p /\ requests = none
            [] kind = "roster" -> /\ page = [p EXCEPT !.rows = {RosterRow(1)}]
                                  /\ requests = Put(none, AskAvailable(p))
            [] OTHER -> page = [p EXCEPT !.loading = TRUE] /\ requests = Put(none, AskList(p))

Acts ==
  \/ HandleSearchChange \/ TurnPage \/ Create
  \/ \E role \in {"all", "teacher", "student"} : HandleRoleChange(role)
  \/ \E row \in page.rows : ToggleStatus(row) \/ HandleDelete(row) \/ ResetPassword(row) \/ RenameClass(row)
  \/ \E a \in Accounts : AddStudent(a)
  \/ \E row \in page.rows : RemoveStudent(row) \/ DeleteStudent(row) \/ EditStudent(row)
  \/ \E e \in 1 .. MaxEmails : CreateStudent(e) \/ SubmitRegister(e)
                                 \/ \E fresh \in BOOLEAN : SubmitLogin(e, fresh)
  \/ \E file \in Files : ImportStudents(file)
  \/ SearchStudents \/ OpenPage \/ HandleLogout

Next ==
  \/ Acts \/ SearchDebounced
  \/ \E i \in Slots : ServeStep(i) \/ FailStep(i) \/ LoseAnswer(i)
  \/ \E i \in Slots : \/ LoadAnswered(i) \/ ActionAnswered(i) \/ AvailableAnswered(i)
                      \/ RosterAnswered(i) \/ BrowserAnswered(i)
  \/ Elsewhere \/ Expiry

Spec == Init /\ [][Next]_vars

-----------------------------------------------------------------------------
\* The state is what the code can hold.
TypeOK ==
  /\ \A a \in Accounts : /\ account[a].email \in 0 .. MaxEmails
                         /\ account[a].role \in {"none", "teacher", "student"}
                         /\ account[a].status \in IF account[a].role = "none" THEN {"none"}
                                                 ELSE {"active", "disabled"}
                         /\ account[a].deleted => account[a].role # "none"
  /\ class \in [Classes -> [owner : {"none", "own", "other"}, deleted : BOOLEAN, name : 0 .. MaxClasses]]
  /\ \A c \in Classes : enrolled[c] \subseteq {a \in Accounts : account[a].role = "student"}
  /\ session \in [Tokens -> 0 .. MaxAccounts] /\ tokens \in 0 .. MaxTokens
  /\ counter \in [Counters -> [count : Nat, ends : BOOLEAN]]
  /\ \A i \in Slots : requests[i].id \in 0 .. MaxAccounts /\ requests[i].token \in 0 .. tokens
  /\ page.kind \in Kinds /\ page.cookie \in 0 .. tokens /\ page.pending \in 0 .. MaxAccounts

\* A list at rest shows the accounts, or the classes, that its query has now:
\* no answer for another query is shown, and what its own user has done shows,
\* unless an answer was lost, or others have changed something since.
ListIsFresh ==
  InList /\ ~Waiting({"list", "create", "action", "reset"}) /\ ~page.error /\ ~page.missed =>
    /\ page.rows = RowsOf(page.kind, page.query)
    /\ page.total = Cardinality(Matching(page.kind, page.query))

\* The page of a class at rest shows its students and their names, those whose
\* account was deleted or not, unless two changes crossed, an answer was lost,
\* or others have changed something.
RosterShowsClass ==
  InRoster /\ ~Waiting(RosterParts) /\ ~page.missed /\ ~page.crossed =>
    /\ page.rows \subseteq {RosterRow(a) : a \in enrolled[1]}
    /\ {RosterRow(a) : a \in {b \in enrolled[1] : Active(b)}} \subseteq page.rows

\* Next to it are the other students that are found, with the same exceptions.
AvailableAreOthers ==
  InRoster /\ ~Waiting(RosterParts \union {"available"}) /\ ~page.unseen /\ ~page.crossed =>
    page.available = StudentsMatching(page.query) \ enrolled[1]

\* So both halves of the page divide the students between them.
ClassPageShowsClass == RosterShowsClass /\ AvailableAreOthers

\* The tables, what Redis holds and the page are sound.
AccessInv == TypeOK /\ DirectoryInv
=============================================================================

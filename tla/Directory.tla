------------------------------- MODULE Directory -------------------------------
(***************************************************************************)
(* The accounts, the classes with their rosters, the sessions and the      *)
(* counters that limit requests, and the handlers that read and write      *)
(* them (users/user.service.ts, classes/class.service.ts, auth/,           *)
(* lib/rate-limit.ts), one statement of PostgreSQL or Redis at a time, for *)
(* any number of clients.                                                  *)
(*                                                                         *)
(* What a profile or a password says is not kept, but whether it is still  *)
(* the first; the names of classes are numbered. The classes of the model  *)
(* are those of one teacher, until an administrator gives one to another.  *)
(* No action depends on ended, removed, strayed and stuck, which are       *)
(* history.                                                                *)
(***************************************************************************)
EXTENDS Naturals, FiniteSets, Sequences

CONSTANTS
  MaxAccounts,    \* bounds the rows of users
  MaxEmails,      \* the addresses are numbered; 0 is one that does not parse
  MaxClasses,     \* bounds the rows of classes, and their names
  MaxTokens,      \* bounds the sessions
  MaxRequests,    \* bounds the requests under way at a time
  PageSize,       \* of the lists of accounts and of classes
  Found,          \* the accounts and the classes that a search finds
  Limits,         \* how many requests each counter allows in a window
  Faults          \* "crash": a handler fails; "network": an answer is lost;
                  \* "expiry": a session ends in Redis

ASSUME DirectoryAssumption ==
  /\ {MaxAccounts, MaxEmails, MaxClasses, MaxTokens, MaxRequests} \subseteq Nat
  /\ PageSize \in Nat \ {0}
  /\ Limits \in [{"ip", "email", "register", "import"} -> Nat \ {0}]

VARIABLES
  account,     \* the table users, with the row of its role
  class,       \* the table classes
  enrolled,    \* the rows of class_students of each class
  session,     \* the account of session:<token> in Redis, or 0
  tokens,      \* how many tokens were made
  counter,     \* ratelimit:<key> in Redis
  requests,    \* the requests under way
  ended,       \* the tokens that were logged out
  removed,     \* the accounts that were taken out of a class
  strayed,     \* the accounts whose creation failed half way
  stuck        \* the counters whose first request died before it set their end

tables == <<account, class, enrolled>>
redis == <<session, tokens, counter>>
history == <<ended, removed, strayed, stuck>>
directoryVars == <<tables, redis, requests, history>>

Accounts == 1 .. MaxAccounts
Classes == 1 .. MaxClasses
Tokens == 1 .. MaxTokens
Slots == 1 .. MaxRequests
Counters == DOMAIN Limits

NoAccount == [email |-> 0, role |-> "none", status |-> "none", deleted |-> FALSE,
              renamed |-> FALSE, reset |-> FALSE]
NewAccount(email, role) ==
  [NoAccount EXCEPT !.email = email, !.role = role, !.status = "active"]
NoClass == [owner |-> "none", deleted |-> FALSE, name |-> 0]
NoCounter == [count |-> 0, ends |-> FALSE]

Active(a) == account[a].role # "none" /\ ~account[a].deleted
Taken(email) == \E a \in Accounts : account[a].email = email
Owned(c) == class[c].owner = "own" /\ ~class[c].deleted

\* A request: what it is about, how far its handler is, what the handler holds
\* or has found, and the part of the page that waits for it. An import keeps
\* the rows that are left, how those before went, and what they have made.
NoQuery == [search |-> FALSE, role |-> "all", page |-> 1]
NoRequest ==
  [kind |-> "none", stage |-> "idle", class |-> 0, id |-> 0, email |-> 0, value |-> "none",
   rows |-> <<>>, outcome |-> <<>>, made |-> <<>>, count |-> 0, query |-> NoQuery, total |-> 0,
   shown |-> {}, token |-> 0, fresh |-> FALSE, name |-> 0,
   part |-> "none"]
Ask(kind, part) == [NoRequest EXCEPT !.kind = kind, !.stage = "sent", !.part = part]

Becomes(i, r) == requests' = [requests EXCEPT ![i] = r]
Answer(i, r) == Becomes(i, IF r.part = "none" THEN NoRequest ELSE [r EXCEPT !.stage = "answered"])
Refuse(i) ==
  Becomes(i, IF requests[i].part = "none" THEN NoRequest ELSE [requests[i] EXCEPT !.stage = "refused"])
At(i, kinds, stage) == requests[i].kind \in kinds /\ requests[i].stage = stage
Writing(i) == requests[i].stage \notin {"idle", "answered", "refused"}

-----------------------------------------------------------------------------
\* checkRateLimit, of a login twice.

KeyOf(r) ==
  CASE r.kind = "login" -> IF r.stage = "sent" THEN "ip" ELSE "email"
    [] OTHER -> r.kind
AfterLimit(r) ==
  CASE r.kind = "login" -> IF r.value = "ip" THEN "second" ELSE "checked"
    [] r.kind = "register" -> "checked"
    [] OTHER -> "row"

\* INCR, which is atomic.
CountRequest(i) ==
  LET r == requests[i]
      k == KeyOf(r)
  IN
  /\ r.kind \in {"login", "register", "import"} /\ r.stage \in {"sent", "second"}
  /\ counter' = [counter EXCEPT ![k].count = @ + 1]
  /\ Becomes(i, [r EXCEPT !.stage = "counted", !.value = k, !.count = counter[k].count + 1])
  /\ UNCHANGED <<tables, session, tokens, history>>

\* Bug: the window is set by the request that reaches the limit.
CheckRateLimitLate(i) ==
  LET r == requests[i]
      k == r.value
  IN
  /\ r.stage = "counted"
  /\ counter' = IF r.count = Limits[k] + 1 /\ counter[k].count > 0
                  THEN [counter EXCEPT ![k].ends = TRUE] ELSE counter
  /\ IF r.count <= Limits[k]
       THEN Becomes(i, [r EXCEPT !.stage = AfterLimit(r)])
       ELSE Refuse(i)
  /\ UNCHANGED <<tables, session, tokens, history>>

\* EXPIRE, for the request that counted 1; then the count it got is compared.
CheckRateLimit(i) ==
  LET r == requests[i]
      k == r.value
  IN
  /\ r.stage = "counted"
  /\ counter' = IF r.count = 1 /\ counter[k].count > 0
                  THEN [counter EXCEPT ![k].ends = TRUE] ELSE counter
  /\ IF r.count <= Limits[k]
       THEN Becomes(i, [r EXCEPT !.stage = AfterLimit(r)])
       ELSE Refuse(i)
  /\ UNCHANGED <<tables, session, tokens, history>>

\* A window ends with its key, which needs an expiry.
WindowEnds(k) ==
  /\ counter[k].ends
  /\ counter' = [counter EXCEPT ![k] = NoCounter]
  /\ UNCHANGED <<tables, session, tokens, requests, history>>

-----------------------------------------------------------------------------
\* Sessions: login, logout, and what every other request does first.

\* The row of the address must be active and its password the one given.
VerifyPassword(i) ==
  LET r == requests[i]
      rows == {a \in Accounts : /\ account[a].email = r.email /\ Active(a)
                                /\ account[a].status = "active" /\ account[a].reset = r.fresh}
  IN
  /\ At(i, {"login"}, "checked")
  /\ IF rows = {} THEN Refuse(i)
     ELSE Becomes(i, [r EXCEPT !.stage = "verified", !.id = CHOOSE a \in rows : TRUE])
  /\ UNCHANGED <<tables, redis, history>>

\* Whatever has become of the account since.
CreateSession(i) ==
  LET r == requests[i] IN
  /\ r.stage = "verified" /\ tokens < MaxTokens
  /\ tokens' = tokens + 1
  /\ session' = [session EXCEPT ![tokens + 1] = r.id]
  /\ Answer(i, [r EXCEPT !.token = tokens + 1])
  /\ UNCHANGED <<tables, counter, history>>

\* A request without a cookie, whose token is 0, destroys none.
DestroySession(i) ==
  LET t == requests[i].token IN
  /\ At(i, {"logout"}, "sent")
  /\ session' = [u \in Tokens |-> IF u = t THEN 0 ELSE session[u]]
  /\ ended' = ended \union ({t} \ {0})
  /\ Answer(i, requests[i])
  /\ UNCHANGED <<tables, tokens, counter, removed, strayed, stuck>>

\* getUserBySessionToken reads the session ...
GetUserBySessionToken(i) ==
  LET r == requests[i] IN
  /\ At(i, {"visit"}, "sent")
  /\ IF session[r.token] = 0 THEN Refuse(i)
     ELSE Becomes(i, [r EXCEPT !.stage = "known", !.id = session[r.token]])
  /\ UNCHANGED <<tables, redis, history>>

\* Bug: the session is written back to start its week anew.
SlideExpirationBySet(i) ==
  /\ At(i, {"visit"}, "known")
  /\ session' = [session EXCEPT ![requests[i].token] = requests[i].id]
  /\ Answer(i, requests[i])
  /\ UNCHANGED <<tables, tokens, counter, history>>

\* ... and lets its week start anew, if it is still there.
SlideExpiration(i) ==
  /\ At(i, {"visit"}, "known")
  /\ Answer(i, requests[i])
  /\ UNCHANGED <<tables, redis, history>>

SessionExpires(t) ==
  /\ session[t] # 0 /\ session' = [session EXCEPT ![t] = 0]
  /\ UNCHANGED <<tables, tokens, counter, requests, history>>

-----------------------------------------------------------------------------
\* A row of an import that fails is noted and the next one is tried; any other
\* request is refused.

Creating == {"createUser", "register", "createStudent", "import"}
InRow(i) ==
  requests[i].kind = "import"
    /\ requests[i].stage \in {"class", "checked", "free", "made", "owned", "ready"}
RowDone(r, how) ==
  [r EXCEPT !.stage = "row", !.rows = Tail(@), !.outcome = Append(@, how),
            !.made = Append(@, r.id), !.id = 0]
RowFails(i) == IF InRow(i) THEN Becomes(i, RowDone(requests[i], "failed")) ELSE Refuse(i)
Strays(i) ==
  LET r == requests[i] IN
  strayed' = IF r.kind \in {"createStudent", "import"} /\ r.stage \in {"made", "owned", "ready"}
               THEN strayed \union {r.id} ELSE strayed

\* The file is refused as a whole, or taken row by row; after the last one the
\* roster is read.
ParseFile(i) ==
  LET r == requests[i] IN
  /\ At(i, {"import"}, "row")
  /\ \/ r.outcome = <<>> /\ Refuse(i)
     \/ Becomes(i, CASE r.rows = <<>> -> [r EXCEPT !.stage = "enrolled"]
                     [] r.rows # <<>> /\ Head(r.rows) = 0 -> RowDone(r, "failed")
                     [] OTHER -> [r EXCEPT !.stage = "class", !.email = Head(r.rows)])
  /\ UNCHANGED <<tables, redis, history>>

\* requireOwnedClass: first of all, before a student is added, and before the
\* roster is read.
NextStage(r) ==
  CASE r.stage = "class" -> "checked"
    [] r.stage \in {"made", "sent"} -> "owned"
    [] r.stage = "enrolled" -> "listing"
RequireOwnedClass(i) ==
  LET r == requests[i] IN
  /\ r.kind \in {"createStudent", "import", "add", "remove", "available", "deleteClass",
                 "updateClass"}
  /\ r.stage \in {"class", "made", "enrolled"} \/ (r.stage = "sent" /\ r.kind # "import")
  /\ IF Owned(r.class)
       THEN Becomes(i, [r EXCEPT !.stage = NextStage(r)]) /\ UNCHANGED strayed
       ELSE RowFails(i) /\ Strays(i)
  /\ UNCHANGED <<tables, redis, ended, removed, stuck>>

\* Is the address taken, be it by an account that was deleted?
FindEmail(i) ==
  LET r == requests[i] IN
  /\ r.kind \in Creating /\ (r.stage = "checked" \/ At(i, {"createUser"}, "sent"))
  /\ IF Taken(r.email) THEN RowFails(i) ELSE Becomes(i, [r EXCEPT !.stage = "free"])
  /\ UNCHANGED <<tables, redis, history>>

FreeRow(a) == account[a] = NoAccount /\ \A b \in 1 .. a - 1 : account[b] # NoAccount
RoleOf(r) ==
  CASE r.kind = "createUser" -> r.value [] r.kind = "register" -> "teacher" [] OTHER -> "student"
AfterInsert(i, r) ==
  CASE r.kind = "createUser" -> Answer(i, r)
    [] r.kind = "register" -> Becomes(i, [r EXCEPT !.stage = "verified"])
    [] OTHER -> Becomes(i, [r EXCEPT !.stage = "made"])

\* Bug: the column has no unique index.
InsertAccountAnyway(i) ==
  LET r == requests[i] IN
  /\ r.kind \in Creating /\ r.stage = "free"
  /\ \E a \in Accounts :
       /\ FreeRow(a)
       /\ account' = [account EXCEPT ![a] = NewAccount(r.email, RoleOf(r))]
       /\ AfterInsert(i, [r EXCEPT !.id = a])
  /\ UNCHANGED <<class, enrolled, redis, history>>

\* The password is hashed meanwhile. The account and the row of its role are
\* one transaction, which the unique index refuses when the address is taken.
InsertAccount(i) ==
  LET r == requests[i] IN
  /\ r.kind \in Creating /\ r.stage = "free"
  /\ IF Taken(r.email) THEN RowFails(i) /\ UNCHANGED account
     ELSE \E a \in Accounts :
            /\ FreeRow(a)
            /\ account' = [account EXCEPT ![a] = NewAccount(r.email, RoleOf(r))]
            /\ AfterInsert(i, [r EXCEPT !.id = a])
  /\ UNCHANGED <<class, enrolled, redis, history>>

\* addStudentToClass: the student is there, be the account deleted; is it
\* enrolled already?
FindEnrolled(i) ==
  LET r == requests[i] IN
  /\ At(i, {"createStudent", "import", "add"}, "owned")
  /\ IF account[r.id].role # "student" \/ r.id \in enrolled[r.class] THEN RowFails(i) /\ Strays(i)
     ELSE Becomes(i, [r EXCEPT !.stage = "ready"]) /\ UNCHANGED strayed
  /\ UNCHANGED <<tables, redis, ended, removed, stuck>>

\* Bug: a row is counted before the student is in the class.
AddStudentToClassLater(i) ==
  LET r == requests[i] IN
  /\ At(i, {"createStudent", "import", "add"}, "ready")
  /\ Becomes(i, IF r.kind = "import" THEN RowDone(r, "ok") ELSE [r EXCEPT !.stage = "enrolled"])
  /\ UNCHANGED <<tables, redis, history>>

\* The primary key lets only one row through.
AddStudentToClass(i) ==
  LET r == requests[i] IN
  /\ At(i, {"createStudent", "import", "add"}, "ready")
  /\ IF r.id \in enrolled[r.class] THEN RowFails(i) /\ Strays(i) /\ UNCHANGED enrolled
     ELSE /\ enrolled' = [enrolled EXCEPT ![r.class] = @ \union {r.id}]
          /\ Becomes(i, IF r.kind = "import" THEN RowDone(r, "ok") ELSE [r EXCEPT !.stage = "enrolled"])
          /\ UNCHANGED strayed
  /\ UNCHANGED <<account, class, redis, ended, removed, stuck>>

-----------------------------------------------------------------------------
\* Accounts and classes that are there already.

\* assertStudentInTeachersRoster: in one of the classes that are the teacher's.
AssertStudentInTeachersRoster(i) ==
  LET r == requests[i] IN
  /\ At(i, {"editStudent", "deleteStudent"}, "sent")
  /\ IF \E c \in Classes : Owned(c) /\ r.id \in enrolled[c]
       THEN Becomes(i, [r EXCEPT !.stage = "account"]) ELSE Refuse(i)
  /\ UNCHANGED <<tables, redis, history>>

RequireActiveUser(i) ==
  LET r == requests[i] IN
  /\ At(i, {"editStudent", "deleteStudent"}, "account")
       \/ At(i, {"update", "reset", "deleteUser"}, "sent")
  /\ IF Active(r.id) /\ (r.kind = "editStudent" => account[r.id].role = "student")
       THEN Becomes(i, [r EXCEPT !.stage = "ready"]) ELSE Refuse(i)
  /\ UNCHANGED <<tables, redis, history>>

WriteAccount(i, a) ==
  /\ account' = [account EXCEPT ![requests[i].id] = a] /\ Answer(i, requests[i])
  /\ UNCHANGED <<class, enrolled, redis, history>>

UpdateStudentProfile(i) ==
  /\ At(i, {"editStudent"}, "ready")
  /\ WriteAccount(i, [account[requests[i].id] EXCEPT !.renamed = TRUE])
\* Bug: a body without a status clears it.
UpdateUserToNone(i) ==
  /\ At(i, {"update"}, "ready")
  /\ WriteAccount(i, [account[requests[i].id] EXCEPT !.status = "none"])
\* The account may have been deleted since it was found: it is written as well.
UpdateUser(i) ==
  /\ At(i, {"update"}, "ready")
  /\ WriteAccount(i, [account[requests[i].id] EXCEPT !.status = requests[i].value])
ResetUserPassword(i) ==
  /\ At(i, {"reset"}, "ready")
  /\ WriteAccount(i, [account[requests[i].id] EXCEPT !.reset = TRUE])
DeleteUser(i) ==
  /\ At(i, {"deleteStudent", "deleteUser"}, "ready")
  /\ WriteAccount(i, [account[requests[i].id] EXCEPT !.deleted = TRUE, !.status = "disabled"])

\* Two classes of a teacher that are there have different names.
Clashes(c, name) == \E d \in Classes \ {c} : Owned(d) /\ class[d].name = name
WriteClass(i, c, row) ==
  /\ IF ~row.deleted /\ row.owner = "own" /\ Clashes(c, row.name) THEN Refuse(i) /\ UNCHANGED class
     ELSE class' = [class EXCEPT ![c] = row] /\ Answer(i, requests[i])
  /\ UNCHANGED <<account, enrolled, redis, history>>

CreateClass(i) ==
  /\ At(i, {"createClass"}, "sent")
  /\ \E c \in Classes :
       /\ class[c] = NoClass /\ \A d \in 1 .. c - 1 : class[d] # NoClass
       /\ WriteClass(i, c, [NoClass EXCEPT !.owner = "own", !.name = requests[i].name])

\* Only an administrator gives the class to another teacher.
UpdateClass(i) ==
  LET r == requests[i] IN
  /\ At(i, {"updateClass"}, "owned")
  /\ WriteClass(i, r.class, [class[r.class] EXCEPT !.name = r.name,
                                                  !.owner = IF r.value = "other" THEN "other" ELSE @])

DeleteClass(i) ==
  /\ At(i, {"deleteClass"}, "owned")
  /\ class' = [class EXCEPT ![requests[i].class].deleted = TRUE]
  /\ Answer(i, requests[i])
  /\ UNCHANGED <<account, enrolled, redis, history>>

RemoveStudentFromClass(i) ==
  LET r == requests[i] IN
  /\ At(i, {"remove"}, "owned")
  /\ IF r.id \in enrolled[r.class]
       THEN /\ enrolled' = [enrolled EXCEPT ![r.class] = @ \ {r.id}]
            /\ removed' = removed \union {r.id}
            /\ Answer(i, r)
       ELSE Refuse(i) /\ UNCHANGED <<enrolled, removed>>
  /\ UNCHANGED <<account, class, redis, ended, strayed, stuck>>

-----------------------------------------------------------------------------
\* What is read for the pages.

RosterRow(a) == [id |-> a, renamed |-> account[a].renamed]
UserRow(a) == [id |-> a, status |-> account[a].status]
ClassRow(c) == [id |-> c, name |-> class[c].name, students |-> Cardinality(enrolled[c])]

\* The accounts of those enrolled, deleted ones among them.
ListRoster(i) ==
  LET r == requests[i] IN
  /\ r.stage = "listing"
  /\ Answer(i, [r EXCEPT !.shown = {RosterRow(a) : a \in enrolled[r.class]}])
  /\ UNCHANGED <<tables, redis, history>>

\* searchAvailableStudents reads who is enrolled, and then the other students.
FindOthers(i) ==
  /\ At(i, {"available"}, "owned")
  /\ Becomes(i, [requests[i] EXCEPT !.stage = "others", !.shown = enrolled[requests[i].class]])
  /\ UNCHANGED <<tables, redis, history>>
StudentsMatching(query) ==
  {a \in Accounts : Active(a) /\ account[a].role = "student" /\ (query.search => a \in Found)}
SearchAvailableStudents(i) ==
  LET r == requests[i] IN
  /\ At(i, {"available"}, "others")
  /\ Answer(i, [r EXCEPT !.shown = StudentsMatching(r.query) \ r.shown])
  /\ UNCHANGED <<tables, redis, history>>

Matching(kind, query) ==
  IF kind = "users"
    THEN {a \in Accounts : /\ Active(a) /\ query.search => a \in Found
                           /\ query.role \in {"all", account[a].role}}
    ELSE {c \in Classes : Owned(c) /\ (query.search => c \in Found)}
\* Newest first.
PageOf(set, page) ==
  {x \in set : LET before == Cardinality({y \in set : y > x}) IN
                 before >= (page - 1) * PageSize /\ before < page * PageSize}
RowsOf(kind, query) ==
  LET ids == PageOf(Matching(kind, query), query.page) IN
  IF kind = "users" THEN {UserRow(a) : a \in ids} ELSE {ClassRow(c) : c \in ids}

\* listUsers and listClasses count, and then read the page.
CountRows(i) ==
  LET r == requests[i] IN
  /\ At(i, {"users", "classes"}, "sent")
  /\ Becomes(i, [r EXCEPT !.stage = "totalled", !.total = Cardinality(Matching(r.kind, r.query))])
  /\ UNCHANGED <<tables, redis, history>>
ListRows(i) ==
  LET r == requests[i] IN
  /\ At(i, {"users", "classes"}, "totalled")
  /\ Answer(i, [r EXCEPT !.shown = RowsOf(r.kind, r.query)])
  /\ UNCHANGED <<tables, redis, history>>

-----------------------------------------------------------------------------
\* A statement fails, which an import notes for its row, or the process dies.
Fail(i) ==
  /\ "crash" \in Faults /\ Writing(i)
  /\ Refuse(i) \/ (InRow(i) /\ RowFails(i))
  /\ Strays(i)
  /\ stuck' = IF requests[i].stage = "counted" /\ requests[i].count = 1
                THEN stuck \union {requests[i].value} ELSE stuck
  /\ UNCHANGED <<tables, redis, ended, removed>>

Serve(i) ==
  \/ CountRequest(i) \/ CheckRateLimit(i)
  \/ VerifyPassword(i) \/ CreateSession(i) \/ DestroySession(i)
  \/ GetUserBySessionToken(i) \/ SlideExpiration(i)
  \/ ParseFile(i) \/ RequireOwnedClass(i) \/ FindEmail(i) \/ InsertAccount(i)
  \/ FindEnrolled(i) \/ AddStudentToClass(i)
  \/ AssertStudentInTeachersRoster(i) \/ RequireActiveUser(i) \/ UpdateStudentProfile(i)
  \/ UpdateUser(i) \/ ResetUserPassword(i) \/ DeleteUser(i)
  \/ CreateClass(i) \/ UpdateClass(i) \/ DeleteClass(i) \/ RemoveStudentFromClass(i)
  \/ ListRoster(i) \/ FindOthers(i) \/ SearchAvailableStudents(i)
  \/ CountRows(i) \/ ListRows(i)

-----------------------------------------------------------------------------
\* No address has two accounts, however many handlers looked for it at a time.
EmailUnique ==
  \A a, b \in Accounts : account[a].email = account[b].email /\ account[a].email # 0 => a = b

\* A counter has an end: while it counts and has none, its first request is
\* about to set it, or has died just before.
LimitHasEnd ==
  \A k \in Counters : counter[k].count > 0 /\ ~counter[k].ends =>
    k \in stuck \/ \E i \in Slots : At(i, {"login", "register", "import"}, "counted")
                                      /\ requests[i].value = k /\ requests[i].count = 1

\* A session that was ended stays so, whatever was reading it at the time.
LoggedOutStaysOut == \A t \in ended : session[t] = 0

\* What the handlers store is sound, however their statements interleave.
DirectoryInv == EmailUnique /\ LimitHasEnd /\ LoggedOutStaysOut

\* The report of an import is what has happened: the student of a row that went
\* well is in the class, unless it was taken out since, and a row that failed
\* has made no account, unless its handler failed half way, found the class
\* gone, or found that another had enrolled the student already.
ImportReportIsTrue ==
  \A i \in Slots : \A n \in DOMAIN requests[i].outcome :
    LET r == requests[i]
        a == r.made[n]
    IN
    IF r.outcome[n] = "ok" THEN a \in enrolled[r.class] \union removed
    ELSE a = 0 \/ a \in strayed
=============================================================================

---------------------------- MODULE DirectoryProofs ----------------------------
(***************************************************************************)
(* Theorems about Directory and the pages it serves, for every value of    *)
(* their constants.                                                        *)
(***************************************************************************)
EXTENDS DirectoryPages, SequenceTheorems, FiniteSetTheorems, WellFoundedInduction, TLAPS

-----------------------------------------------------------------------------
(***************************************************************************)
(* What a request is, by its kind and by how far its handler is.  The      *)
(* state it is judged in is a parameter: t tokens, the tables acc and enr, *)
(* those taken out of a class, those astray, and the kind of the page.     *)
(***************************************************************************)

Limited == {"login", "register", "import"}
Joining == {"add", "createStudent", "import"}
OfAccount == {"editStudent", "deleteStudent", "update", "reset", "deleteUser"}
Fields == DOMAIN NoRequest
RosterRows == [id : Accounts, renamed : BOOLEAN]

Form(r) ==
  /\ DOMAIN r = Fields
  /\ r.id \in 0 .. MaxAccounts /\ r.email \in 0 .. MaxEmails /\ r.name \in 0 .. MaxClasses
  /\ r.count \in Nat /\ r.rows \in Seq(0 .. MaxEmails)
  /\ r.outcome \in Seq({"ok", "failed"}) /\ r.made \in Seq(0 .. MaxAccounts)
  /\ Len(r.made) = Len(r.outcome)

OfKind(r) ==
  /\ r.kind = "createUser" => r.value \in {"teacher", "student"}
  /\ r.kind = "update" => r.value \in {"active", "disabled"}
  /\ r.kind \in Limited => r.part \in {"sign", "import", "none"}
  /\ r.kind \in OfAccount \union {"add"} => r.id \in Accounts
  /\ r.kind \in Joining => r.class \in Classes /\ r.shown \subseteq RosterRows
  /\ r.kind = "users" => \A x \in r.shown : x.id \in Accounts
  /\ r.kind # "import" => r.outcome = <<>>

\* An account that an import has made is the row's until the row is done.
AtStage(r) ==
  /\ r.stage = "counted" => r.kind \in Limited /\ r.value \in Counters
  /\ r.stage \in {"made", "owned", "ready"} /\ r.kind \in {"createStudent", "import"} =>
       r.id \in Accounts
  /\ r.stage \in {"sent", "second", "counted", "row", "class", "checked", "free"}
       /\ r.kind = "import" => r.id = 0
  /\ r.stage \in {"class", "checked", "free", "made", "owned", "ready"} /\ r.kind = "import" =>
       r.rows # <<>>
  /\ r.stage \in {"enrolled", "listing"} => r.kind \in Joining
  /\ r.stage = "sent" => r.kind # "createStudent"

\* The account a handler is about to write, or to enrol, is there.
Backed(r, t, acc) ==
  /\ r.token \in 0 .. t /\ (r.kind = "visit" => r.token # 0)
  /\ r.stage = "ready" /\ r.kind \in OfAccount => acc[r.id].role # "none"
  /\ r.stage = "ready" /\ r.kind \in Joining => acc[r.id].role = "student"

Reported(r, enr, out, astray) ==
  \A n \in DOMAIN r.outcome :
    IF r.outcome[n] = "ok" THEN r.made[n] \in enr[r.class] \union out
    ELSE r.made[n] = 0 \/ r.made[n] \in astray

OfPage(r, kind) ==
  /\ r.part = "list" => r.kind = kind /\ kind \in {"users", "classes"}
  /\ kind = "roster" /\ r.part \in RosterParts =>
       r.kind \in Joining \union {"remove", "deleteStudent", "editStudent"}

Sound(r, t, acc, enr, out, astray, kind) ==
  /\ Form(r) /\ OfKind(r) /\ AtStage(r)
  /\ Backed(r, t, acc) /\ Reported(r, enr, out, astray) /\ OfPage(r, kind)

AccountRows ==
  [email : 0 .. MaxEmails, role : {"none", "teacher", "student"},
   status : {"none", "active", "disabled"}, deleted : BOOLEAN, renamed : BOOLEAN, reset : BOOLEAN]

PageOK ==
  /\ DOMAIN page = DOMAIN InitialPage("users")
  /\ page.kind = "roster" => page.rows \subseteq RosterRows
  /\ page.kind = "users" => \A row \in page.rows : row.id \in Accounts

\* The inductive invariant.
RequestsSound ==
  /\ DOMAIN requests = Slots
  /\ \A i \in Slots :
       Sound(requests[i], tokens, account, enrolled, removed, strayed, page.kind)

TablesTyped ==
  /\ account \in [Accounts -> AccountRows] /\ enrolled \in [Classes -> SUBSET Accounts]
  /\ ended \subseteq 1 .. tokens

IInv == TypeOK /\ DirectoryInv /\ TablesTyped /\ RequestsSound /\ PageOK

-----------------------------------------------------------------------------
(* Requests.                                                               *)

LEMMA FieldsAre ==
  Fields = {"kind", "stage", "class", "id", "email", "value", "rows", "outcome", "made", "count",
            "query", "total", "shown", "token", "fresh", "name", "part"}
BY DEF Fields, NoRequest

\* A request keeps being sound while the tables only grow and accounts keep their role.
LEMMA SoundLater ==
  ASSUME NEW r, NEW t \in Nat, NEW acc, NEW enr, NEW out, NEW astray, NEW kind,
         NEW t2 \in Nat, NEW acc2, NEW enr2, NEW out2, NEW astray2,
         Sound(r, t, acc, enr, out, astray, kind),
         t <= t2, astray \subseteq astray2, out \subseteq out2,
         \A a \in Accounts : acc[a].role # "none" => acc2[a].role = acc[a].role,
         \A c \in Classes : enr[c] \subseteq enr2[c] \union out2
  PROVE  Sound(r, t2, acc2, enr2, out2, astray2, kind)
<1>1. Backed(r, t2, acc2)
  <2>1. r.stage = "ready" /\ r.kind \in OfAccount \union Joining => r.id \in Accounts
    BY DEF Sound, OfKind, AtStage, Joining
  <2>2. QED
    BY <2>1 DEF Sound, Backed
<1>2. Reported(r, enr2, out2, astray2)
  <2>1. CASE r.kind = "import"
    <3>1. r.class \in Classes
      BY <2>1 DEF Sound, OfKind, Joining
    <3>2. QED
      BY <3>1 DEF Sound, Reported
  <2>2. CASE r.kind # "import"
    <3>1. DOMAIN r.outcome = {}
      BY <2>2 DEF Sound, OfKind
    <3>2. QED
      BY <3>1 DEF Reported
  <2>3. QED
    BY <2>1, <2>2
<1>3. QED
  BY <1>1, <1>2 DEF Sound

\* Moving a request on to a stage changes nothing else of it.
LEMMA Moved ==
  ASSUME NEW r, DOMAIN r = Fields, NEW s
  PROVE  LET n == [r EXCEPT !.stage = s] IN
         /\ DOMAIN n = Fields /\ n.stage = s
         /\ n.kind = r.kind /\ n.class = r.class /\ n.id = r.id /\ n.email = r.email
         /\ n.value = r.value /\ n.rows = r.rows /\ n.outcome = r.outcome /\ n.made = r.made
         /\ n.count = r.count /\ n.query = r.query /\ n.total = r.total /\ n.shown = r.shown
         /\ n.token = r.token /\ n.fresh = r.fresh /\ n.name = r.name /\ n.part = r.part
BY FieldsAre

LEMMA MovedSound ==
  ASSUME NEW r, NEW t, NEW acc, NEW enr, NEW out, NEW astray, NEW kind,
         Sound(r, t, acc, enr, out, astray, kind),
         NEW s,
         s = "counted" => r.kind \in Limited /\ r.value \in Counters,
         s \in {"made", "owned", "ready"} /\ r.kind \in {"createStudent", "import"} => r.id \in Accounts,
         s \in {"sent", "second", "counted", "row", "class", "checked", "free"} =>
           (r.kind = "import" => r.id = 0),
         s \in {"class", "checked", "free", "made", "owned", "ready"} /\ r.kind = "import" =>
           r.rows # <<>>,
         s \in {"enrolled", "listing"} => r.kind \in Joining,
         s = "sent" => r.kind # "createStudent",
         s = "ready" /\ r.kind \in OfAccount => acc[r.id].role # "none",
         s = "ready" /\ r.kind \in Joining => acc[r.id].role = "student"
  PROVE  Sound([r EXCEPT !.stage = s], t, acc, enr, out, astray, kind)
<1> DEFINE n == [r EXCEPT !.stage = s]
<1>1. DOMAIN r = Fields
  BY DEF Sound, Form
<1>2. /\ DOMAIN n = Fields /\ n.stage = s
      /\ n.kind = r.kind /\ n.class = r.class /\ n.id = r.id /\ n.email = r.email
      /\ n.value = r.value /\ n.rows = r.rows /\ n.outcome = r.outcome /\ n.made = r.made
      /\ n.count = r.count /\ n.shown = r.shown
      /\ n.token = r.token /\ n.name = r.name /\ n.part = r.part
  BY <1>1, Moved
<1> HIDE DEF n
<1>3. Form(n) /\ OfKind(n)
  BY <1>2 DEF Sound, Form, OfKind
<1>4. AtStage(n) /\ Backed(n, t, acc)
  BY <1>2 DEF Sound, AtStage, Backed
<1>5. Reported(n, enr, out, astray) /\ OfPage(n, kind)
  BY <1>2 DEF Sound, Reported, OfPage
<1>6. Sound(n, t, acc, enr, out, astray, kind)
  BY <1>3, <1>4, <1>5 DEF Sound
<1>7. QED
  BY <1>6 DEF n

LEMMA NoRequestSound ==
  ASSUME NEW t \in Nat, NEW acc, NEW enr, NEW out, NEW astray, NEW kind
  PROVE  Sound(NoRequest, t, acc, enr, out, astray, kind)
<1>1. 0 \in 0 .. MaxAccounts /\ 0 \in 0 .. MaxEmails /\ 0 \in 0 .. MaxClasses
  BY DirectoryAssumption
<1>2. Form(NoRequest)
  BY <1>1 DEF Form, Fields, NoRequest
<1>3. OfKind(NoRequest) /\ AtStage(NoRequest)
  BY DEF OfKind, AtStage, NoRequest, Limited, Joining, OfAccount
<1>4. Backed(NoRequest, t, acc) /\ OfPage(NoRequest, kind) /\ Reported(NoRequest, enr, out, astray)
  BY DEF Backed, OfPage, Reported, NoRequest, RosterParts, OfAccount, Joining
<1>5. QED
  BY <1>2, <1>3, <1>4 DEF Sound

\* What answering and refusing a request leave of it.
LEMMA AnswerSound ==
  ASSUME NEW r, NEW t \in Nat, NEW acc, NEW enr, NEW out, NEW astray, NEW kind,
         Sound(r, t, acc, enr, out, astray, kind)
  PROVE  /\ Sound(IF r.part = "none" THEN NoRequest ELSE [r EXCEPT !.stage = "answered"],
                  t, acc, enr, out, astray, kind)
         /\ Sound(IF r.part = "none" THEN NoRequest ELSE [r EXCEPT !.stage = "refused"],
                  t, acc, enr, out, astray, kind)
<1>1. /\ Sound([r EXCEPT !.stage = "answered"], t, acc, enr, out, astray, kind)
      /\ Sound([r EXCEPT !.stage = "refused"], t, acc, enr, out, astray, kind)
  BY MovedSound
<1>2. QED
  BY <1>1, NoRequestSound

\* A row of an import is done: it went well, or has made nothing that is left.
LEMMA RowDoneSound ==
  ASSUME NEW r, NEW t \in Nat, NEW acc, NEW enr, NEW out, NEW astray, NEW kind,
         Sound(r, t, acc, enr, out, astray, kind), r.kind = "import", r.rows # <<>>,
         NEW how \in {"ok", "failed"},
         how = "ok" => r.id \in enr[r.class] \union out,
         how = "failed" => r.id = 0 \/ r.id \in astray
  PROVE  Sound(RowDone(r, how), t, acc, enr, out, astray, kind)
<1> DEFINE n == RowDone(r, how)
<1>1. DOMAIN r = Fields
  BY DEF Sound, Form
<1>2. /\ DOMAIN n = Fields /\ n.stage = "row" /\ n.id = 0
      /\ n.rows = Tail(r.rows) /\ n.outcome = Append(r.outcome, how) /\ n.made = Append(r.made, r.id)
      /\ n.kind = r.kind /\ n.class = r.class /\ n.email = r.email
      /\ n.value = r.value /\ n.count = r.count /\ n.shown = r.shown
      /\ n.token = r.token /\ n.name = r.name /\ n.part = r.part
  BY <1>1, FieldsAre DEF RowDone
<1> HIDE DEF n
<1>3. Form(n)
  <2>1. /\ r.rows \in Seq(0 .. MaxEmails) /\ r.id \in 0 .. MaxAccounts
        /\ r.outcome \in Seq({"ok", "failed"}) /\ r.made \in Seq(0 .. MaxAccounts)
        /\ Len(r.made) = Len(r.outcome)
    BY DEF Sound, Form
  <2>2. Tail(r.rows) \in Seq(0 .. MaxEmails)
    BY <2>1, HeadTailProperties
  <2>3. /\ Append(r.outcome, how) \in Seq({"ok", "failed"})
        /\ Append(r.made, r.id) \in Seq(0 .. MaxAccounts)
        /\ Len(Append(r.made, r.id)) = Len(Append(r.outcome, how))
    BY <2>1
  <2>4. 0 \in 0 .. MaxAccounts
    BY DirectoryAssumption
  <2>5. QED
    BY <1>2, <2>2, <2>3, <2>4 DEF Sound, Form
<1>4. OfKind(n) /\ AtStage(n) /\ Backed(n, t, acc) /\ OfPage(n, kind)
  BY <1>2 DEF Sound, OfKind, AtStage, Backed, OfPage, OfAccount, Limited
<1>5. Reported(n, enr, out, astray)
  <2>1. /\ r.outcome \in Seq({"ok", "failed"}) /\ r.made \in Seq(0 .. MaxAccounts)
        /\ Len(r.made) = Len(r.outcome)
    BY DEF Sound, Form
  <2>2. DOMAIN Append(r.outcome, how) = 1 .. Len(r.outcome) + 1
    BY <2>1
  <2>3. /\ \A k \in 1 .. Len(r.outcome) : /\ Append(r.outcome, how)[k] = r.outcome[k]
                                          /\ Append(r.made, r.id)[k] = r.made[k]
        /\ Append(r.outcome, how)[Len(r.outcome) + 1] = how
        /\ Append(r.made, r.id)[Len(r.outcome) + 1] = r.id
    BY <2>1
  <2>4. ASSUME NEW k \in 1 .. Len(r.outcome) + 1
        PROVE  IF n.outcome[k] = "ok" THEN n.made[k] \in enr[n.class] \union out
               ELSE n.made[k] = 0 \/ n.made[k] \in astray
    <3>1. CASE k \in 1 .. Len(r.outcome)
      <4>1. k \in DOMAIN r.outcome
        BY <2>1, <3>1
      <4>2. QED
        BY <1>2, <2>3, <3>1, <4>1 DEF Sound, Reported
    <3>2. CASE k = Len(r.outcome) + 1
      BY <1>2, <2>3, <3>2
    <3>3. QED
      BY <2>1, <3>1, <3>2
  <2>5. QED
    BY <1>2, <2>2, <2>4 DEF Reported
<1>6. QED
  BY <1>3, <1>4, <1>5 DEF Sound, n

\* What a handler finds goes into the fields that are not a matter of its kind.
LEMMA ChangedSound ==
  ASSUME NEW r, NEW t, NEW acc, NEW enr, NEW out, NEW astray, NEW kind,
         Sound(r, t, acc, enr, out, astray, kind), NEW n,
         DOMAIN n = Fields, n.kind = r.kind, n.class = r.class, n.part = r.part, n.rows = r.rows,
         n.outcome = r.outcome, n.made = r.made, n.name = r.name,
         n.id \in 0 .. MaxAccounts, n.email \in 0 .. MaxEmails, n.count \in Nat,
         OfKind(n), AtStage(n), Backed(n, t, acc)
  PROVE  Sound(n, t, acc, enr, out, astray, kind)
<1>1. Form(n)
  BY DEF Sound, Form
<1>2. Reported(n, enr, out, astray) /\ OfPage(n, kind)
  BY DEF Sound, Reported, OfPage
<1>3. QED
  BY <1>1, <1>2 DEF Sound

LEMMA SlotFacts ==
  ASSUME IInv, NEW i \in Slots
  PROVE  /\ Sound(requests[i], tokens, account, enrolled, removed, strayed, page.kind)
         /\ DOMAIN requests[i] = Fields /\ tokens \in Nat
         /\ \A n : Becomes(i, n) => requests'[i] = n /\ DOMAIN requests' = Slots
                                    /\ \A j \in Slots \ {i} : requests'[j] = requests[j]
         /\ Sound(NoRequest, tokens, account, enrolled, removed, strayed, page.kind)
<1>1. /\ Sound(requests[i], tokens, account, enrolled, removed, strayed, page.kind)
      /\ DOMAIN requests[i] = Fields /\ tokens \in Nat
  BY DirectoryAssumption DEF IInv, RequestsSound, Sound, Form, TypeOK
<1>2. QED
  BY <1>1, NoRequestSound DEF Becomes, IInv, RequestsSound

\* What a server step that only moves its request on must leave.
Onward(i) ==
  /\ Sound(requests'[i], tokens, account, enrolled, removed, strayed, page.kind)
  /\ DOMAIN requests' = Slots /\ \A j \in Slots \ {i} : requests'[j] = requests[j]
  /\ requests[i].stage # "counted"

LEMMA Refused ==
  ASSUME IInv, NEW i \in Slots, Refuse(i), requests[i].stage # "counted"
  PROVE  Onward(i)
<1>1. PICK r : r = requests[i]
  OBVIOUS
<1>2. /\ Sound(r, tokens, account, enrolled, removed, strayed, page.kind) /\ tokens \in Nat
      /\ requests'[i] = (IF r.part = "none" THEN NoRequest ELSE [r EXCEPT !.stage = "refused"])
      /\ DOMAIN requests' = Slots /\ \A j \in Slots \ {i} : requests'[j] = requests[j]
  BY <1>1, SlotFacts DEF Refuse
<1>3. Sound(IF r.part = "none" THEN NoRequest ELSE [r EXCEPT !.stage = "refused"],
            tokens, account, enrolled, removed, strayed, page.kind)
  BY <1>2, AnswerSound
<1>4. Sound(requests'[i], tokens, account, enrolled, removed, strayed, page.kind)
  BY <1>2, <1>3
<1>5. QED
  BY <1>2, <1>4 DEF Onward

LEMMA Answered ==
  ASSUME IInv, NEW i \in Slots, NEW n, Answer(i, n), requests[i].stage # "counted",
         Sound(n, tokens, account, enrolled, removed, strayed, page.kind)
  PROVE  Onward(i)
<1>1. /\ requests'[i] = (IF n.part = "none" THEN NoRequest ELSE [n EXCEPT !.stage = "answered"])
      /\ DOMAIN requests' = Slots /\ \A j \in Slots \ {i} : requests'[j] = requests[j]
      /\ tokens \in Nat
  BY SlotFacts DEF Answer
<1>2. Sound(IF n.part = "none" THEN NoRequest ELSE [n EXCEPT !.stage = "answered"],
            tokens, account, enrolled, removed, strayed, page.kind)
  BY <1>1, AnswerSound
<1>3. Sound(requests'[i], tokens, account, enrolled, removed, strayed, page.kind)
  BY <1>1, <1>2
<1>4. QED
  BY <1>1, <1>3 DEF Onward

LEMMA Went ==
  ASSUME IInv, NEW i \in Slots, NEW n, Becomes(i, n), requests[i].stage # "counted",
         Sound(n, tokens, account, enrolled, removed, strayed, page.kind)
  PROVE  Onward(i)
BY SlotFacts DEF Onward

\* A row fails before it has made anything, or any other request is refused.
LEMMA RowFailed ==
  ASSUME IInv, NEW i \in Slots, RowFails(i), requests[i].stage # "counted",
         requests[i].stage \notin {"made", "owned", "ready"}
  PROVE  Onward(i)
<1>1. CASE ~InRow(i)
  BY <1>1, Refused DEF RowFails
<1>2. CASE InRow(i)
  <2>1. PICK r : r = requests[i]
    OBVIOUS
  <2>2. /\ Sound(r, tokens, account, enrolled, removed, strayed, page.kind) /\ tokens \in Nat
        /\ r.kind = "import" /\ r.stage \in {"class", "checked", "free"}
        /\ Becomes(i, RowDone(r, "failed"))
    BY <1>2, <2>1, SlotFacts DEF RowFails, InRow
  <2>3. r.id = 0 /\ r.rows # <<>>
    BY <2>2 DEF Sound, AtStage
  <2>4. Sound(RowDone(r, "failed"), tokens, account, enrolled, removed, strayed, page.kind)
    BY <2>2, <2>3, RowDoneSound
  <2>5. QED
    BY <2>2, <2>4, Went
<1>3. QED
  BY <1>1, <1>2

-----------------------------------------------------------------------------
(* The steps that only move their request on.                              *)

LEMMA SignSteps ==
  ASSUME IInv, NEW i \in Slots,
         VerifyPassword(i) \/ GetUserBySessionToken(i) \/ SlideExpiration(i)
  PROVE  Onward(i)
<1>1. PICK r : r = requests[i]
  OBVIOUS
<1>2. /\ Sound(r, tokens, account, enrolled, removed, strayed, page.kind)
      /\ DOMAIN r = Fields /\ tokens \in Nat
      /\ r.email \in 0 .. MaxEmails /\ r.count \in Nat /\ r.id \in 0 .. MaxAccounts
      /\ r.token \in 0 .. tokens /\ (r.kind = "visit" => r.token # 0)
  BY <1>1, SlotFacts DEF Sound, Form, Backed
<1>3. CASE VerifyPassword(i)
  <2> DEFINE rows == {a \in Accounts : /\ account[a].email = r.email /\ Active(a)
                                       /\ account[a].status = "active" /\ account[a].reset = r.fresh}
             n == [r EXCEPT !.stage = "verified", !.id = CHOOSE a \in rows : TRUE]
  <2>1. r.kind = "login" /\ r.stage = "checked"
    BY <1>1, <1>3 DEF VerifyPassword, At
  <2>2. CASE rows = {}
    BY <1>1, <1>3, <2>1, <2>2, Refused DEF VerifyPassword
  <2>3. CASE rows # {}
    <3>1. (CHOOSE a \in rows : TRUE) \in Accounts
      BY <2>3
    <3> HIDE DEF rows
    <3>2. /\ DOMAIN n = Fields /\ n.stage = "verified" /\ n.kind = "login"
          /\ n.id \in 0 .. MaxAccounts /\ n.class = r.class /\ n.part = r.part /\ n.rows = r.rows
          /\ n.outcome = r.outcome /\ n.made = r.made /\ n.name = r.name /\ n.email = r.email
          /\ n.count = r.count /\ n.token = r.token
      BY <1>2, <2>1, <3>1, FieldsAre DEF Accounts
    <3> HIDE DEF n
    <3>3. OfKind(n) /\ AtStage(n) /\ Backed(n, tokens, account)
      BY <1>2, <2>1, <3>2 DEF Sound, OfKind, AtStage, Backed, OfAccount, Joining
    <3>4. Sound(n, tokens, account, enrolled, removed, strayed, page.kind)
      BY <1>2, <2>1, <3>2, <3>3, ChangedSound
    <3>5. Becomes(i, n)
      BY <1>1, <1>3, <2>3 DEF VerifyPassword, n, rows
    <3>6. QED
      BY <1>1, <2>1, <3>4, <3>5, Went
  <2>4. QED
    BY <2>2, <2>3
<1>4. CASE GetUserBySessionToken(i)
  <2> DEFINE n == [r EXCEPT !.stage = "known", !.id = session[r.token]]
  <2>1. r.kind = "visit" /\ r.stage = "sent"
    BY <1>1, <1>4 DEF GetUserBySessionToken, At
  <2>2. CASE session[r.token] = 0
    BY <1>1, <1>4, <2>1, <2>2, Refused DEF GetUserBySessionToken
  <2>3. CASE session[r.token] # 0
    <3>1. session[r.token] \in 0 .. MaxAccounts
      BY <1>2, <2>1, DirectoryAssumption DEF IInv, TypeOK, Tokens
    <3>2. /\ DOMAIN n = Fields /\ n.stage = "known" /\ n.kind = "visit"
          /\ n.id \in 0 .. MaxAccounts /\ n.class = r.class /\ n.part = r.part /\ n.rows = r.rows
          /\ n.outcome = r.outcome /\ n.made = r.made /\ n.name = r.name /\ n.email = r.email
          /\ n.count = r.count /\ n.token = r.token
      BY <1>2, <2>1, <3>1, FieldsAre
    <3>5. Becomes(i, n)
      BY <1>1, <1>4, <2>3 DEF GetUserBySessionToken
    <3> HIDE DEF n
    <3>3. OfKind(n) /\ AtStage(n) /\ Backed(n, tokens, account)
      BY <1>2, <2>1, <3>2 DEF Sound, OfKind, AtStage, Backed, OfAccount, Joining, Limited
    <3>4. Sound(n, tokens, account, enrolled, removed, strayed, page.kind)
      BY <1>2, <2>1, <3>2, <3>3, ChangedSound
    <3>6. QED
      BY <1>1, <2>1, <3>4, <3>5, Went
  <2>4. QED
    BY <2>2, <2>3
<1>5. CASE SlideExpiration(i)
  BY <1>1, <1>2, <1>5, Answered DEF SlideExpiration, At
<1>6. QED
  BY <1>3, <1>4, <1>5

LEMMA RowSteps ==
  ASSUME IInv, NEW i \in Slots, ParseFile(i) \/ FindEmail(i)
  PROVE  Onward(i)
<1>1. PICK r : r = requests[i]
  OBVIOUS
<1>2. /\ Sound(r, tokens, account, enrolled, removed, strayed, page.kind)
      /\ DOMAIN r = Fields /\ tokens \in Nat
      /\ r.email \in 0 .. MaxEmails /\ r.count \in Nat /\ r.id \in 0 .. MaxAccounts
      /\ r.rows \in Seq(0 .. MaxEmails)
  BY <1>1, SlotFacts DEF Sound, Form
<1>3. CASE ParseFile(i)
  <2>1. r.kind = "import" /\ r.stage = "row"
    BY <1>1, <1>3 DEF ParseFile, At
  <2>2. r.id = 0
    BY <1>2, <2>1 DEF Sound, AtStage
  <2>3. CASE Refuse(i)
    BY <1>1, <2>1, <2>3, Refused
  <2>4. CASE r.rows = <<>> /\ Becomes(i, [r EXCEPT !.stage = "enrolled"])
    <3>1. Sound([r EXCEPT !.stage = "enrolled"], tokens, account, enrolled, removed, strayed, page.kind)
      BY <1>2, <2>1, MovedSound DEF Joining
    <3>2. QED
      BY <1>1, <2>1, <2>4, <3>1, Went
  <2>5. CASE r.rows # <<>> /\ Becomes(i, RowDone(r, "failed"))
    <3>1. Sound(RowDone(r, "failed"), tokens, account, enrolled, removed, strayed, page.kind)
      BY <1>2, <2>1, <2>2, <2>5, RowDoneSound
    <3>2. QED
      BY <1>1, <2>1, <2>5, <3>1, Went
  <2>6. CASE r.rows # <<>> /\ Becomes(i, [r EXCEPT !.stage = "class", !.email = Head(r.rows)])
    <3> DEFINE n == [r EXCEPT !.stage = "class", !.email = Head(r.rows)]
    <3>1. Head(r.rows) \in 0 .. MaxEmails
      BY <1>2, <2>6, HeadTailProperties
    <3>2. /\ DOMAIN n = Fields /\ n.stage = "class" /\ n.kind = "import"
          /\ n.id = 0 /\ n.class = r.class /\ n.part = r.part /\ n.rows = r.rows
          /\ n.outcome = r.outcome /\ n.made = r.made /\ n.name = r.name /\ n.email \in 0 .. MaxEmails
          /\ n.count = r.count /\ n.token = r.token /\ n.shown = r.shown
      BY <1>2, <2>1, <2>2, <3>1, FieldsAre
    <3>3. Becomes(i, n)
      BY <2>6
    <3> HIDE DEF n
    <3>4. OfKind(n) /\ AtStage(n) /\ Backed(n, tokens, account)
      BY <1>2, <2>1, <2>6, <3>2 DEF Sound, OfKind, AtStage, Backed, OfAccount, Joining, Limited
    <3>5. Sound(n, tokens, account, enrolled, removed, strayed, page.kind)
      BY <1>2, <2>1, <2>2, <3>2, <3>4, ChangedSound
    <3>6. QED
      BY <1>1, <2>1, <3>3, <3>5, Went
  <2>7. QED
    BY <1>1, <1>3, <2>3, <2>4, <2>5, <2>6 DEF ParseFile
<1>4. CASE FindEmail(i)
  <2>1. \/ r.kind \in Creating /\ r.stage = "checked"
        \/ r.kind = "createUser" /\ r.stage = "sent"
    BY <1>1, <1>4 DEF FindEmail, At
  <2>2. CASE RowFails(i)
    BY <1>1, <2>1, <2>2, RowFailed
  <2>3. CASE Becomes(i, [r EXCEPT !.stage = "free"])
    <3>1. Sound([r EXCEPT !.stage = "free"], tokens, account, enrolled, removed, strayed, page.kind)
      <4>1. r.kind = "import" => r.id = 0 /\ r.rows # <<>>
        BY <1>2, <2>1 DEF Sound, AtStage
      <4>2. QED
        BY <1>2, <4>1, MovedSound
    <3>2. QED
      BY <1>1, <2>1, <2>3, <3>1, Went
  <2>4. QED
    BY <1>1, <1>4, <2>2, <2>3 DEF FindEmail
<1>5. QED
  BY <1>3, <1>4

LEMMA AccountSteps ==
  ASSUME IInv, NEW i \in Slots, AssertStudentInTeachersRoster(i) \/ RequireActiveUser(i)
  PROVE  Onward(i)
<1>1. PICK r : r = requests[i]
  OBVIOUS
<1>2. Sound(r, tokens, account, enrolled, removed, strayed, page.kind)
  BY <1>1, SlotFacts
<1>3. CASE AssertStudentInTeachersRoster(i)
  <2>1. r.kind \in {"editStudent", "deleteStudent"} /\ r.stage = "sent"
    BY <1>1, <1>3 DEF AssertStudentInTeachersRoster, At
  <2>2. Sound([r EXCEPT !.stage = "account"], tokens, account, enrolled, removed, strayed, page.kind)
    BY <1>2, MovedSound
  <2>3. Refuse(i) \/ Becomes(i, [r EXCEPT !.stage = "account"])
    BY <1>1, <1>3 DEF AssertStudentInTeachersRoster
  <2>4. QED
    BY <1>1, <2>1, <2>2, <2>3, Refused, Went
<1>4. CASE RequireActiveUser(i)
  <2>1. r.kind \in OfAccount /\ r.stage \in {"account", "sent"}
    BY <1>1, <1>4 DEF RequireActiveUser, At, OfAccount
  <2>2. CASE Refuse(i)
    BY <1>1, <2>1, <2>2, Refused
  <2>3. CASE Active(r.id) /\ Becomes(i, [r EXCEPT !.stage = "ready"])
    <3>1. account[r.id].role # "none"
      BY <2>3 DEF Active
    <3>2. Sound([r EXCEPT !.stage = "ready"], tokens, account, enrolled, removed, strayed, page.kind)
      BY <1>2, <2>1, <3>1, MovedSound DEF OfAccount, Joining
    <3>3. QED
      BY <1>1, <2>1, <2>3, <3>2, Went
  <2>4. QED
    BY <1>1, <1>4, <2>2, <2>3 DEF RequireActiveUser
<1>5. QED
  BY <1>3, <1>4

\* What is read for a page has the rows of the page.
LEMMA ReadRows ==
  ASSUME IInv
  PROVE  /\ \A c \in Classes : {RosterRow(a) : a \in enrolled[c]} \subseteq RosterRows
         /\ \A query : \A x \in RowsOf("users", query) : x.id \in Accounts
<1>1. \A a \in Accounts : RosterRow(a) \in RosterRows
  BY DEF IInv, TablesTyped, AccountRows, RosterRow, RosterRows
<1>2. \A c \in Classes : enrolled[c] \subseteq Accounts
  BY DEF IInv, TablesTyped
<1>3. ASSUME NEW query, NEW x \in RowsOf("users", query)
      PROVE  x.id \in Accounts
  <2>1. PICK a \in PageOf(Matching("users", query), query.page) : x = UserRow(a)
    BY <1>3 DEF RowsOf
  <2>2. a \in Accounts
    BY <2>1 DEF PageOf, Matching
  <2>3. QED
    BY <2>1, <2>2 DEF UserRow
<1>4. QED
  BY <1>1, <1>2, <1>3

LEMMA ReadSteps ==
  ASSUME IInv, NEW i \in Slots,
         ListRoster(i) \/ FindOthers(i) \/ SearchAvailableStudents(i) \/ CountRows(i) \/ ListRows(i)
  PROVE  Onward(i)
<1>1. PICK r : r = requests[i]
  OBVIOUS
<1>2. /\ Sound(r, tokens, account, enrolled, removed, strayed, page.kind)
      /\ DOMAIN r = Fields /\ tokens \in Nat
      /\ r.email \in 0 .. MaxEmails /\ r.count \in Nat /\ r.id \in 0 .. MaxAccounts
  BY <1>1, SlotFacts DEF Sound, Form
<1>3. ASSUME NEW s \in {"listing", "others", "totalled"}, NEW total, NEW shown,
             s = "listing" => r.stage = "listing",
             r.kind \in Joining => shown \subseteq RosterRows,
             r.kind = "users" => \A x \in shown : x.id \in Accounts
      PROVE  Sound([r EXCEPT !.stage = s, !.total = total, !.shown = shown],
                   tokens, account, enrolled, removed, strayed, page.kind)
  <2> DEFINE n == [r EXCEPT !.stage = s, !.total = total, !.shown = shown]
  <2>1. /\ DOMAIN n = Fields /\ n.stage = s /\ n.kind = r.kind /\ n.id = r.id
        /\ n.class = r.class /\ n.part = r.part /\ n.rows = r.rows /\ n.outcome = r.outcome
        /\ n.made = r.made /\ n.name = r.name /\ n.email = r.email /\ n.value = r.value
        /\ n.count = r.count /\ n.token = r.token /\ n.shown = shown
    BY <1>2, FieldsAre
  <2> HIDE DEF n
  <2>2. OfKind(n) /\ AtStage(n) /\ Backed(n, tokens, account)
    BY <1>2, <1>3, <2>1 DEF Sound, OfKind, AtStage, Backed
  <2>3. Sound(n, tokens, account, enrolled, removed, strayed, page.kind)
    BY <1>2, <2>1, <2>2, ChangedSound
  <2>4. QED
    BY <2>3 DEF n
<1>4. CASE ListRoster(i)
  <2> DEFINE shown == {RosterRow(a) : a \in enrolled[r.class]}
             n == [r EXCEPT !.stage = "listing", !.total = r.total, !.shown = shown]
  <2>1. r.stage = "listing" /\ r.kind \in Joining /\ r.class \in Classes
    BY <1>1, <1>2, <1>4 DEF ListRoster, Sound, AtStage, OfKind
  <2>2. shown \subseteq RosterRows
    BY <2>1, ReadRows
  <2>3. [r EXCEPT !.shown = shown] = n
    BY <1>2, <2>1, FieldsAre
  <2>4. Answer(i, n)
    BY <1>1, <1>4, <2>3 DEF ListRoster
  <2>5. Sound(n, tokens, account, enrolled, removed, strayed, page.kind)
    BY <1>3, <2>1, <2>2 DEF Joining
  <2>6. QED
    BY <1>1, <2>1, <2>4, <2>5, Answered
<1>5. CASE FindOthers(i)
  <2> DEFINE n == [r EXCEPT !.stage = "others", !.total = r.total, !.shown = enrolled[r.class]]
  <2>1. r.kind = "available" /\ r.stage = "owned"
    BY <1>1, <1>5 DEF FindOthers, At
  <2>2. [r EXCEPT !.stage = "others", !.shown = enrolled[r.class]] = n
    BY <1>2, FieldsAre
  <2>3. Becomes(i, n)
    BY <1>1, <1>5, <2>2 DEF FindOthers
  <2>4. Sound(n, tokens, account, enrolled, removed, strayed, page.kind)
    BY <1>3, <2>1 DEF Joining
  <2>5. QED
    BY <1>1, <2>1, <2>3, <2>4, Went
<1>6. CASE SearchAvailableStudents(i)
  <2> DEFINE shown == StudentsMatching(r.query) \ r.shown
             n == [r EXCEPT !.stage = "others", !.total = r.total, !.shown = shown]
  <2>1. r.kind = "available" /\ r.stage = "others"
    BY <1>1, <1>6 DEF SearchAvailableStudents, At
  <2>2. [r EXCEPT !.shown = shown] = n
    BY <1>2, <2>1, FieldsAre
  <2>3. Answer(i, n)
    BY <1>1, <1>6, <2>2 DEF SearchAvailableStudents
  <2>4. Sound(n, tokens, account, enrolled, removed, strayed, page.kind)
    BY <1>3, <2>1 DEF Joining
  <2>5. QED
    BY <1>1, <2>1, <2>3, <2>4, Answered
<1>7. CASE CountRows(i)
  <2> DEFINE n == [r EXCEPT !.stage = "totalled", !.total = Cardinality(Matching(r.kind, r.query)),
                            !.shown = r.shown]
  <2>1. r.kind \in {"users", "classes"} /\ r.stage = "sent"
    BY <1>1, <1>7 DEF CountRows, At
  <2>2. [r EXCEPT !.stage = "totalled", !.total = Cardinality(Matching(r.kind, r.query))] = n
    BY <1>2, FieldsAre
  <2>3. Becomes(i, n)
    BY <1>1, <1>7, <2>2 DEF CountRows
  <2>4. Sound(n, tokens, account, enrolled, removed, strayed, page.kind)
    BY <1>2, <1>3, <2>1 DEF Sound, OfKind
  <2>5. QED
    BY <1>1, <2>1, <2>3, <2>4, Went
<1>8. CASE ListRows(i)
  <2> DEFINE shown == RowsOf(r.kind, r.query)
             n == [r EXCEPT !.stage = "totalled", !.total = r.total, !.shown = shown]
  <2>1. r.kind \in {"users", "classes"} /\ r.stage = "totalled"
    BY <1>1, <1>8 DEF ListRows, At
  <2>2. [r EXCEPT !.shown = shown] = n
    BY <1>2, <2>1, FieldsAre
  <2>3. Answer(i, n)
    BY <1>1, <1>8, <2>2 DEF ListRows
  <2>4. r.kind = "users" => \A x \in shown : x.id \in Accounts
    BY ReadRows
  <2>5. Sound(n, tokens, account, enrolled, removed, strayed, page.kind)
    BY <1>3, <2>1, <2>4 DEF Joining
  <2>6. QED
    BY <1>1, <2>1, <2>3, <2>5, Answered
<1>9. QED
  BY <1>4, <1>5, <1>6, <1>7, <1>8

-----------------------------------------------------------------------------
(* What every step of the server leaves.                                   *)

\* What a server step must leave: its request is sound in the new state, the others
\* are what they were, and nothing they rest on is taken back.
Grows ==
  /\ tokens' \in Nat /\ tokens <= tokens'
  /\ strayed \subseteq strayed' /\ removed \subseteq removed'
  /\ \A a \in Accounts : account[a].role # "none" => account'[a].role = account[a].role
  /\ \A c \in Classes : enrolled[c] \subseteq enrolled'[c] \union removed'

SlotSound(i) ==
  /\ Sound(requests'[i], tokens', account', enrolled', removed', strayed', page.kind)
  /\ DOMAIN requests' = Slots /\ \A j \in Slots \ {i} : requests'[j] = requests[j]

LEMMA OthersSound ==
  ASSUME IInv, NEW i \in Slots, SlotSound(i), Grows, page'.kind = page.kind
  PROVE  RequestsSound'
<1>1. tokens \in Nat
  BY DirectoryAssumption DEF IInv, TypeOK
<1>2. ASSUME NEW j \in Slots \ {i}
      PROVE  Sound(requests[j], tokens', account', enrolled', removed', strayed', page.kind)
  BY <1>1, SoundLater DEF IInv, RequestsSound, Grows
<1>3. QED
  BY <1>2 DEF RequestsSound, SlotSound

LEMMA OnwardSlot ==
  ASSUME IInv, NEW i \in Slots, Onward(i), Grows
  PROVE  SlotSound(i)
<1>1. tokens \in Nat
  BY DirectoryAssumption DEF IInv, TypeOK
<1>2. Sound(requests'[i], tokens', account', enrolled', removed', strayed', page.kind)
  BY <1>1, SoundLater DEF Onward, Grows
<1>3. QED
  BY <1>2 DEF SlotSound, Onward

LEMMA NothingGrows ==
  ASSUME IInv, UNCHANGED <<account, enrolled, tokens, removed, strayed>>
  PROVE  Grows
BY DirectoryAssumption DEF IInv, TypeOK, Grows

\* What is stored, apart from the counters: types, EmailUnique and LoggedOutStaysOut.
Stored ==
  /\ account \in [Accounts -> AccountRows]
  /\ \A a \in Accounts : /\ account[a].status \in IF account[a].role = "none" THEN {"none"}
                                                 ELSE {"active", "disabled"}
                         /\ account[a].deleted => account[a].role # "none"
  /\ class \in [Classes -> [owner : {"none", "own", "other"}, deleted : BOOLEAN, name : 0 .. MaxClasses]]
  /\ enrolled \in [Classes -> SUBSET Accounts]
  /\ \A c \in Classes : \A a \in enrolled[c] : account[a].role = "student"
  /\ session \in [Tokens -> 0 .. MaxAccounts] /\ tokens \in 0 .. MaxTokens
  /\ ended \subseteq 1 .. tokens
  /\ EmailUnique /\ LoggedOutStaysOut

CountersHold ==
  /\ counter \in [Counters -> [count : Nat, ends : BOOLEAN]]
  /\ LimitHasEnd

PageHolds ==
  /\ PageOK
  /\ page.kind \in Kinds /\ page.cookie \in 0 .. tokens /\ page.pending \in 0 .. MaxAccounts

LEMMA Apart == IInv => Stored /\ CountersHold /\ PageHolds /\ RequestsSound
BY DEF IInv, TypeOK, DirectoryInv, TablesTyped, Stored, CountersHold, PageHolds

LEMMA Together ==
  ASSUME Stored', CountersHold', PageHolds', RequestsSound'
  PROVE  IInv'
<1>1. TablesTyped' /\ DirectoryInv'
  BY DEF TablesTyped, DirectoryInv, Stored, CountersHold
<1>2. TypeOK'
  <2>1. \A a \in Accounts : /\ account'[a].email \in 0 .. MaxEmails
                            /\ account'[a].role \in {"none", "teacher", "student"}
    BY DEF Stored, AccountRows
  <2>2. \A i \in Slots : requests'[i].id \in 0 .. MaxAccounts /\ requests'[i].token \in 0 .. tokens'
    BY DEF RequestsSound, Sound, Form, Backed
  <2>3. \A c \in Classes : enrolled'[c] \subseteq {a \in Accounts : account'[a].role = "student"}
    BY DEF Stored
  <2>4. QED
    BY <2>1, <2>2, <2>3 DEF TypeOK, Stored, CountersHold, PageHolds
<1>3. QED
  BY <1>1, <1>2 DEF IInv, PageHolds

LEMMA StoredKept ==
  ASSUME IInv, UNCHANGED <<tables, session, tokens, ended>>
  PROVE  Stored'
<1>1. Stored
  BY Apart
<1>2. QED
  BY <1>1 DEF Stored, EmailUnique, LoggedOutStaysOut, tables

\* A counter that is left alone has its end, or whoever will set it.
LEMMA CountersKept ==
  ASSUME IInv, NEW i \in Slots, UNCHANGED counter, stuck \subseteq stuck',
         requests[i].stage = "counted" /\ requests[i].count = 1 => requests[i].value \in stuck',
         \A j \in Slots \ {i} : requests'[j] = requests[j]
  PROVE  CountersHold'
<1>1. CountersHold
  BY Apart
<1>2. ASSUME NEW k \in Counters, counter[k].count > 0, ~counter[k].ends, k \notin stuck'
      PROVE  \E j \in Slots : At(j, {"login", "register", "import"}, "counted")'
                                /\ requests'[j].value = k /\ requests'[j].count = 1
  <2>1. PICK j \in Slots : At(j, {"login", "register", "import"}, "counted")
                             /\ requests[j].value = k /\ requests[j].count = 1
    BY <1>1, <1>2 DEF CountersHold, LimitHasEnd
  <2>2. requests'[j] = requests[j]
    BY <1>2, <2>1 DEF At
  <2>3. QED
    BY <2>1, <2>2 DEF At
<1>3. QED
  BY <1>1, <1>2 DEF CountersHold, LimitHasEnd

LEMMA Later ==
  ASSUME IInv, Grows, NEW r,
         Sound(r, tokens, account, enrolled, removed, strayed, page.kind)
  PROVE  Sound(r, tokens', account', enrolled', removed', strayed', page.kind)
<1>1. tokens \in Nat
  BY DirectoryAssumption DEF IInv, TypeOK
<1>2. QED
  BY <1>1, SoundLater DEF Grows

LEMMA WentLater ==
  ASSUME IInv, NEW i \in Slots, NEW n, Becomes(i, n),
         Sound(n, tokens', account', enrolled', removed', strayed', page.kind)
  PROVE  SlotSound(i)
BY SlotFacts DEF SlotSound

LEMMA AnsweredLater ==
  ASSUME IInv, NEW i \in Slots, NEW n, Answer(i, n), tokens' \in Nat,
         Sound(n, tokens', account', enrolled', removed', strayed', page.kind)
  PROVE  SlotSound(i)
<1>1. /\ requests'[i] = (IF n.part = "none" THEN NoRequest ELSE [n EXCEPT !.stage = "answered"])
      /\ DOMAIN requests' = Slots /\ \A j \in Slots \ {i} : requests'[j] = requests[j]
  BY SlotFacts DEF Answer
<1>2. Sound(IF n.part = "none" THEN NoRequest ELSE [n EXCEPT !.stage = "answered"],
            tokens', account', enrolled', removed', strayed', page.kind)
  BY <1>1, AnswerSound
<1>3. Sound(requests'[i], tokens', account', enrolled', removed', strayed', page.kind)
  BY <1>1, <1>2
<1>4. QED
  BY <1>1, <1>3 DEF SlotSound

LEMMA RefusedLater ==
  ASSUME IInv, NEW i \in Slots, Refuse(i), Grows
  PROVE  SlotSound(i)
<1>1. PICK r : r = requests[i]
  OBVIOUS
<1>2. /\ Sound(r, tokens, account, enrolled, removed, strayed, page.kind)
      /\ requests'[i] = (IF r.part = "none" THEN NoRequest ELSE [r EXCEPT !.stage = "refused"])
      /\ DOMAIN requests' = Slots /\ \A j \in Slots \ {i} : requests'[j] = requests[j]
  BY <1>1, SlotFacts DEF Refuse
<1>3. Sound(r, tokens', account', enrolled', removed', strayed', page.kind) /\ tokens' \in Nat
  BY <1>2, Later DEF Grows
<1>4. Sound(IF r.part = "none" THEN NoRequest ELSE [r EXCEPT !.stage = "refused"],
            tokens', account', enrolled', removed', strayed', page.kind)
  BY <1>3, AnswerSound
<1>5. Sound(requests'[i], tokens', account', enrolled', removed', strayed', page.kind)
  BY <1>2, <1>4
<1>6. QED
  BY <1>2, <1>5 DEF SlotSound

\* A row fails, and an account that it has made is left behind.
LEMMA RowStrays ==
  ASSUME IInv, NEW i \in Slots, RowFails(i), Strays(i),
         UNCHANGED <<account, enrolled, tokens, removed>>
  PROVE  Grows /\ SlotSound(i)
<1>1. Grows
  BY DirectoryAssumption DEF IInv, TypeOK, Grows, Strays
<1>2. CASE ~InRow(i)
  BY <1>1, <1>2, RefusedLater DEF RowFails
<1>3. CASE InRow(i)
  <2>1. PICK r : r = requests[i]
    OBVIOUS
  <2>2. /\ Sound(r, tokens, account, enrolled, removed, strayed, page.kind)
        /\ r.kind = "import" /\ r.stage \in {"class", "checked", "free", "made", "owned", "ready"}
        /\ Becomes(i, RowDone(r, "failed"))
    BY <1>3, <2>1, SlotFacts DEF RowFails, InRow
  <2>3. (r.id = 0 \/ r.id \in strayed') /\ r.rows # <<>>
    BY <2>1, <2>2 DEF Sound, AtStage, Strays
  <2>4. Sound(r, tokens', account', enrolled', removed', strayed', page.kind) /\ tokens' \in Nat
    BY <1>1, <2>2, Later DEF Grows
  <2>5. Sound(RowDone(r, "failed"), tokens', account', enrolled', removed', strayed', page.kind)
    BY <2>2, <2>3, <2>4, RowDoneSound
  <2>6. QED
    BY <1>1, <2>2, <2>5, WentLater
<1>4. QED
  BY <1>2, <1>3, <1>1

\* What a server step must leave, all in all.
Served(i) == Grows /\ SlotSound(i) /\ Stored' /\ CountersHold'

LEMMA OnwardServed ==
  ASSUME IInv, NEW i \in Slots, Onward(i), UNCHANGED <<tables, redis, history>>
  PROVE  Served(i)
<1>1. Grows
  BY NothingGrows DEF tables, redis, history
<1>2. SlotSound(i)
  BY <1>1, OnwardSlot
<1>3. Stored'
  BY StoredKept DEF redis, history
<1>4. CountersHold'
  BY CountersKept DEF Onward, redis, history
<1>5. QED
  BY <1>1, <1>2, <1>3, <1>4 DEF Served

-----------------------------------------------------------------------------
(* The steps that change what is stored, or may leave an account behind.   *)

LEMMA RequireOwnedClassServed ==
  ASSUME IInv, NEW i \in Slots, RequireOwnedClass(i)
  PROVE  Served(i)
<1>1. PICK r : r = requests[i]
  OBVIOUS
<1>2. /\ r.kind \in {"createStudent", "import", "add", "remove", "available", "deleteClass",
                     "updateClass"}
      /\ r.stage \in {"class", "made", "enrolled"} \/ (r.stage = "sent" /\ r.kind # "import")
      /\ Sound(r, tokens, account, enrolled, removed, strayed, page.kind)
      /\ UNCHANGED <<tables, redis, ended, removed, stuck>>
  BY <1>1, SlotFacts DEF RequireOwnedClass
<1>3. CASE Becomes(i, [r EXCEPT !.stage = NextStage(r)]) /\ UNCHANGED strayed
  <2>1. Sound([r EXCEPT !.stage = NextStage(r)], tokens, account, enrolled, removed, strayed, page.kind)
    <3>1. NextStage(r) = IF r.stage = "class" THEN "checked"
                         ELSE IF r.stage = "enrolled" THEN "listing" ELSE "owned"
      BY <1>2 DEF NextStage
    <3>2. r.kind = "import" => (r.stage = "class" => r.id = 0 /\ r.rows # <<>>)
                                 /\ (r.stage = "made" => r.id \in Accounts /\ r.rows # <<>>)
      BY <1>2 DEF Sound, AtStage
    <3>3. r.kind = "createStudent" /\ r.stage = "made" => r.id \in Accounts
      BY <1>2 DEF Sound, AtStage
    <3>4. r.stage = "enrolled" => r.kind \in Joining
      BY <1>2 DEF Sound, AtStage
    <3>5. r.kind = "createStudent" => r.stage # "sent"
      BY <1>2 DEF Sound, AtStage
    <3>6. QED
      BY <1>2, <3>1, <3>2, <3>3, <3>4, <3>5, MovedSound
  <2>2. QED
    BY <1>1, <1>2, <1>3, <2>1, Went, OnwardServed DEF history
<1>4. CASE RowFails(i) /\ Strays(i)
  <2>1. Grows /\ SlotSound(i)
    BY <1>2, <1>4, RowStrays DEF tables, redis
  <2>2. Stored' /\ CountersHold'
    BY <1>1, <1>2, <2>1, StoredKept, CountersKept DEF redis, SlotSound
  <2>3. QED
    BY <2>1, <2>2 DEF Served
<1>5. QED
  BY <1>1, <1>3, <1>4 DEF RequireOwnedClass

LEMMA FindEnrolledServed ==
  ASSUME IInv, NEW i \in Slots, FindEnrolled(i)
  PROVE  Served(i)
<1>1. PICK r : r = requests[i]
  OBVIOUS
<1>2. /\ r.kind \in Joining /\ r.stage = "owned"
      /\ Sound(r, tokens, account, enrolled, removed, strayed, page.kind)
      /\ UNCHANGED <<tables, redis, ended, removed, stuck>>
  BY <1>1, SlotFacts DEF FindEnrolled, At, Joining
<1>3. CASE RowFails(i) /\ Strays(i)
  <2>1. Grows /\ SlotSound(i)
    BY <1>2, <1>3, RowStrays DEF tables, redis
  <2>2. Stored' /\ CountersHold'
    BY <1>1, <1>2, <2>1, StoredKept, CountersKept DEF redis, SlotSound
  <2>3. QED
    BY <2>1, <2>2 DEF Served
<1>4. CASE /\ account[r.id].role = "student"
           /\ Becomes(i, [r EXCEPT !.stage = "ready"]) /\ UNCHANGED strayed
  <2>1. r.kind = "import" => r.rows # <<>>
    BY <1>2 DEF Sound, AtStage
  <2>2. r.kind \in {"createStudent", "import"} => r.id \in Accounts
    BY <1>2 DEF Sound, AtStage
  <2>3. Sound([r EXCEPT !.stage = "ready"], tokens, account, enrolled, removed, strayed, page.kind)
    BY <1>2, <1>4, <2>1, <2>2, MovedSound DEF Joining, OfAccount
  <2>4. QED
    BY <1>1, <1>2, <1>4, <2>3, Went, OnwardServed DEF history
<1>5. QED
  BY <1>1, <1>3, <1>4 DEF FindEnrolled

LEMMA AddStudentToClassServed ==
  ASSUME IInv, NEW i \in Slots, AddStudentToClass(i)
  PROVE  Served(i)
<1>1. PICK r : r = requests[i]
  OBVIOUS
<1>2. /\ r.kind \in Joining /\ r.stage = "ready"
      /\ Sound(r, tokens, account, enrolled, removed, strayed, page.kind)
      /\ UNCHANGED <<account, class, redis, ended, removed, stuck>>
  BY <1>1, SlotFacts DEF AddStudentToClass, At, Joining
<1>3. CASE RowFails(i) /\ Strays(i) /\ UNCHANGED enrolled
  <2>1. Grows /\ SlotSound(i)
    BY <1>2, <1>3, RowStrays DEF redis
  <2>2. Stored' /\ CountersHold'
    BY <1>1, <1>2, <1>3, <2>1, StoredKept, CountersKept DEF redis, SlotSound, tables
  <2>3. QED
    BY <2>1, <2>2 DEF Served
<1>4. CASE /\ enrolled' = [enrolled EXCEPT ![r.class] = @ \union {r.id}]
           /\ Becomes(i, IF r.kind = "import" THEN RowDone(r, "ok") ELSE [r EXCEPT !.stage = "enrolled"])
           /\ UNCHANGED strayed
  <2>1. r.class \in Classes /\ r.id \in Accounts /\ account[r.id].role = "student"
    BY <1>2 DEF Sound, OfKind, AtStage, Backed, Joining
  <2>2. enrolled \in [Classes -> SUBSET Accounts] /\ Stored
    BY Apart DEF Stored
  <2>3. Grows
    BY <1>2, <1>4, <2>2, DirectoryAssumption DEF IInv, TypeOK, Grows, redis
  <2>4. Sound(r, tokens', account', enrolled', removed', strayed', page.kind) /\ tokens' \in Nat
    BY <1>2, <2>3, Later DEF Grows
  <2>5. SlotSound(i)
    <3>1. CASE r.kind = "import"
      <4>1. r.rows # <<>>
        BY <1>2, <3>1 DEF Sound, AtStage
      <4>2. r.id \in enrolled'[r.class] \union removed'
        BY <1>4, <2>1, <2>2
      <4>3. Sound(RowDone(r, "ok"), tokens', account', enrolled', removed', strayed', page.kind)
        BY <2>4, <3>1, <4>1, <4>2, RowDoneSound
      <4>4. QED
        BY <1>4, <3>1, <4>3, WentLater
    <3>2. CASE r.kind # "import"
      <4>1. Sound([r EXCEPT !.stage = "enrolled"],
                  tokens', account', enrolled', removed', strayed', page.kind)
        BY <1>2, <2>4, <3>2, MovedSound
      <4>2. QED
        BY <1>4, <3>2, <4>1, WentLater
    <3>3. QED
      BY <3>1, <3>2
  <2>6. Stored'
    <3>1. enrolled' \in [Classes -> SUBSET Accounts]
      BY <1>4, <2>1, <2>2
    <3>2. \A c \in Classes : \A a \in enrolled'[c] : account'[a].role = "student"
      BY <1>2, <1>4, <2>1, <2>2 DEF Stored
    <3>3. QED
      BY <1>2, <2>2, <3>1, <3>2 DEF Stored, EmailUnique, LoggedOutStaysOut, redis
  <2>7. CountersHold'
    BY <1>1, <1>2, <2>5, CountersKept DEF redis, SlotSound
  <2>8. QED
    BY <2>3, <2>5, <2>6, <2>7 DEF Served
<1>5. QED
  BY <1>1, <1>3, <1>4 DEF AddStudentToClass

LEMMA FailServed ==
  ASSUME IInv, NEW i \in Slots, Fail(i)
  PROVE  Served(i)
<1>1. UNCHANGED <<tables, redis, ended, removed>> /\ Strays(i)
  BY DEF Fail
<1>2. Grows
  BY <1>1, DirectoryAssumption DEF IInv, TypeOK, Grows, Strays, tables, redis
<1>3. SlotSound(i)
  BY <1>1, <1>2, RefusedLater, RowStrays DEF Fail, tables, redis
<1>4. Stored'
  BY <1>1, StoredKept DEF redis
<1>5. CountersHold'
  BY <1>1, <1>3, CountersKept DEF Fail, redis, SlotSound
<1>6. QED
  BY <1>2, <1>3, <1>4, <1>5 DEF Served

\* An account that is there is written: its address and its role stay.
LEMMA AccountWritten ==
  ASSUME IInv, NEW i \in Slots, NEW row, WriteAccount(i, row),
         requests[i].kind \in OfAccount, requests[i].stage = "ready",
         row \in AccountRows, row.email = account[requests[i].id].email,
         row.role = account[requests[i].id].role, row.status \in {"active", "disabled"}
  PROVE  Served(i)
<1>1. PICK r : r = requests[i]
  OBVIOUS
<1>2. /\ Sound(r, tokens, account, enrolled, removed, strayed, page.kind)
      /\ account' = [account EXCEPT ![r.id] = row] /\ Answer(i, r)
      /\ UNCHANGED <<class, enrolled, redis, history>>
  BY <1>1, SlotFacts DEF WriteAccount
<1>3. r.id \in Accounts /\ account[r.id].role # "none" /\ Stored
  BY <1>1, <1>2, Apart DEF Sound, OfKind, Backed
<1>4. account' \in [Accounts -> AccountRows]
  BY <1>1, <1>2, <1>3 DEF Stored
<1>5. \A a \in Accounts : account'[a].email = account[a].email /\ account'[a].role = account[a].role
  BY <1>1, <1>2, <1>3 DEF Stored
<1>6. Grows
  BY <1>2, <1>5, DirectoryAssumption DEF IInv, TypeOK, Grows, redis, history
<1>7. SlotSound(i)
  BY <1>2, <1>6, Later, AnsweredLater DEF Grows
<1>8. Stored'
  <2>1. \A a \in Accounts : /\ account'[a].status \in IF account'[a].role = "none" THEN {"none"}
                                                     ELSE {"active", "disabled"}
                            /\ account'[a].deleted => account'[a].role # "none"
    BY <1>1, <1>2, <1>3, <1>5 DEF Stored
  <2>2. \A c \in Classes : \A a \in enrolled'[c] : account'[a].role = "student"
    BY <1>2, <1>3, <1>5 DEF Stored
  <2>3. EmailUnique'
    BY <1>3, <1>5 DEF Stored, EmailUnique
  <2>4. QED
    BY <1>2, <1>3, <1>4, <2>1, <2>2, <2>3 DEF Stored, LoggedOutStaysOut, redis, history
<1>9. CountersHold'
  BY <1>2, <1>7, CountersKept DEF redis, history, SlotSound
<1>10. QED
  BY <1>6, <1>7, <1>8, <1>9 DEF Served

LEMMA WriteSteps ==
  ASSUME IInv, NEW i \in Slots,
         UpdateStudentProfile(i) \/ UpdateUser(i) \/ ResetUserPassword(i) \/ DeleteUser(i)
  PROVE  Served(i)
<1>1. PICK r : r = requests[i]
  OBVIOUS
<1>2. r.kind \in OfAccount /\ r.stage = "ready"
  BY <1>1 DEF UpdateStudentProfile, UpdateUser, ResetUserPassword, DeleteUser, At, OfAccount
<1>3. Sound(r, tokens, account, enrolled, removed, strayed, page.kind) /\ Stored
  BY <1>1, SlotFacts, Apart
<1>4. r.id \in Accounts /\ account[r.id].role # "none"
  BY <1>2, <1>3 DEF Sound, OfKind, Backed
<1>5. PICK old : old = account[r.id]
  OBVIOUS
<1>6. old \in AccountRows /\ old.status \in {"active", "disabled"}
  BY <1>3, <1>4, <1>5 DEF Stored
<1>7. ASSUME NEW row \in AccountRows, row.email = old.email, row.role = old.role,
             row.status \in {"active", "disabled"}, WriteAccount(i, row)
      PROVE  Served(i)
  BY <1>1, <1>2, <1>5, <1>7, AccountWritten
<1>8. CASE UpdateStudentProfile(i)
  <2>1. WriteAccount(i, [old EXCEPT !.renamed = TRUE])
    BY <1>1, <1>5, <1>8 DEF UpdateStudentProfile
  <2>2. QED
    BY <1>6, <1>7, <2>1 DEF AccountRows
<1>9. CASE UpdateUser(i)
  <2>1. r.value \in {"active", "disabled"}
    BY <1>1, <1>3, <1>9 DEF UpdateUser, At, Sound, OfKind
  <2>2. WriteAccount(i, [old EXCEPT !.status = r.value])
    BY <1>1, <1>5, <1>9 DEF UpdateUser
  <2>3. QED
    BY <1>6, <1>7, <2>1, <2>2 DEF AccountRows
<1>10. CASE ResetUserPassword(i)
  <2>1. WriteAccount(i, [old EXCEPT !.reset = TRUE])
    BY <1>1, <1>5, <1>10 DEF ResetUserPassword
  <2>2. QED
    BY <1>6, <1>7, <2>1 DEF AccountRows
<1>11. CASE DeleteUser(i)
  <2>1. WriteAccount(i, [old EXCEPT !.deleted = TRUE, !.status = "disabled"])
    BY <1>1, <1>5, <1>11 DEF DeleteUser
  <2>2. QED
    BY <1>6, <1>7, <2>1 DEF AccountRows
<1>12. QED
  BY <1>8, <1>9, <1>10, <1>11

\* A statement that changes neither accounts nor rosters, after which the request is over.
LEMMA ClassServed ==
  ASSUME IInv, NEW i \in Slots, Answer(i, requests[i]) \/ Refuse(i),
         requests[i].stage # "counted", UNCHANGED <<account, enrolled, redis, history>>,
         class' \in [Classes -> [owner : {"none", "own", "other"}, deleted : BOOLEAN, name : 0 .. MaxClasses]]
  PROVE  Served(i)
<1>1. PICK r : r = requests[i]
  OBVIOUS
<1>2. Sound(r, tokens, account, enrolled, removed, strayed, page.kind) /\ Stored
  BY <1>1, SlotFacts, Apart
<1>3. Onward(i)
  BY <1>1, <1>2, Answered, Refused
<1>4. Grows
  BY NothingGrows DEF redis, history
<1>5. SlotSound(i)
  BY <1>3, <1>4, OnwardSlot
<1>6. Stored'
  BY <1>2 DEF Stored, EmailUnique, LoggedOutStaysOut, redis, history
<1>7. CountersHold'
  BY <1>5, CountersKept DEF redis, history, SlotSound
<1>8. QED
  BY <1>4, <1>5, <1>6, <1>7 DEF Served

LEMMA ClassSteps ==
  ASSUME IInv, NEW i \in Slots, CreateClass(i) \/ UpdateClass(i) \/ DeleteClass(i)
  PROVE  Served(i)
<1> DEFINE Rows == [owner : {"none", "own", "other"}, deleted : BOOLEAN, name : 0 .. MaxClasses]
<1>1. PICK r : r = requests[i]
  OBVIOUS
<1>2. class \in [Classes -> Rows] /\ r.name \in 0 .. MaxClasses
  BY <1>1, SlotFacts, Apart DEF Stored, Sound, Form
<1>3. requests[i].stage # "counted" /\ UNCHANGED <<account, enrolled, redis, history>>
      /\ (Answer(i, requests[i]) \/ Refuse(i))
  BY DEF CreateClass, UpdateClass, DeleteClass, At, WriteClass
<1>4. CASE CreateClass(i)
  <2>1. PICK c \in Classes : WriteClass(i, c, [NoClass EXCEPT !.owner = "own", !.name = r.name])
    BY <1>1, <1>4 DEF CreateClass
  <2>2. [NoClass EXCEPT !.owner = "own", !.name = r.name] \in Rows
    BY <1>2 DEF NoClass
  <2>3. class' \in [Classes -> Rows]
    BY <1>2, <2>1, <2>2 DEF WriteClass
  <2>4. QED
    BY <1>3, <2>3, ClassServed
<1>5. CASE UpdateClass(i)
  <2> DEFINE new == [class[r.class] EXCEPT !.name = r.name,
                                           !.owner = IF r.value = "other" THEN "other" ELSE @]
  <2>1. WriteClass(i, r.class, new)
    BY <1>1, <1>5 DEF UpdateClass
  <2>2. r.class \in Classes => new \in Rows
    BY <1>2
  <2> HIDE DEF new
  <2>3. class' = class \/ class' = [class EXCEPT ![r.class] = new]
    BY <2>1 DEF WriteClass
  <2>4. class' \in [Classes -> Rows]
    BY <1>2, <2>2, <2>3
  <2>5. QED
    BY <1>3, <2>4, ClassServed
<1>6. CASE DeleteClass(i)
  <2>1. class' = [class EXCEPT ![r.class].deleted = TRUE]
    BY <1>1, <1>6 DEF DeleteClass
  <2>2. class' \in [Classes -> Rows]
    BY <1>2, <2>1
  <2>3. QED
    BY <1>3, <2>2, ClassServed
<1>7. QED
  BY <1>4, <1>5, <1>6

LEMMA RemoveServed ==
  ASSUME IInv, NEW i \in Slots, RemoveStudentFromClass(i)
  PROVE  Served(i)
<1>1. PICK r : r = requests[i]
  OBVIOUS
<1>2. /\ Sound(r, tokens, account, enrolled, removed, strayed, page.kind) /\ Stored
      /\ r.stage = "owned" /\ UNCHANGED <<account, class, redis, ended, strayed, stuck>>
  BY <1>1, SlotFacts, Apart DEF RemoveStudentFromClass, At
<1>3. CASE Refuse(i) /\ UNCHANGED <<enrolled, removed>>
  BY <1>1, <1>2, <1>3, Refused, OnwardServed DEF tables, history
<1>4. CASE /\ enrolled' = [enrolled EXCEPT ![r.class] = @ \ {r.id}]
           /\ removed' = removed \union {r.id} /\ Answer(i, r)
  <2>1. enrolled' \in [Classes -> SUBSET Accounts]
        /\ \A c \in Classes : enrolled'[c] \subseteq enrolled[c] /\ enrolled[c] \subseteq enrolled'[c] \union removed'
    BY <1>2, <1>4 DEF Stored
  <2>2. Grows
    BY <1>2, <1>4, <2>1, DirectoryAssumption DEF IInv, TypeOK, Grows, redis
  <2>3. SlotSound(i)
    BY <1>2, <1>4, <2>2, Later, AnsweredLater DEF Grows
  <2>4. Stored'
    BY <1>2, <2>1 DEF Stored, EmailUnique, LoggedOutStaysOut, redis
  <2>5. CountersHold'
    BY <1>1, <1>2, <2>3, CountersKept DEF redis, SlotSound
  <2>6. QED
    BY <2>2, <2>3, <2>4, <2>5 DEF Served
<1>5. QED
  BY <1>1, <1>3, <1>4 DEF RemoveStudentFromClass

LEMMA CountRequestServed ==
  ASSUME IInv, NEW i \in Slots, CountRequest(i)
  PROVE  Served(i)
<1>1. PICK r : r = requests[i]
  OBVIOUS
<1> DEFINE k == KeyOf(r)
           n == [r EXCEPT !.stage = "counted", !.value = k, !.count = counter[k].count + 1]
<1>2. /\ Sound(r, tokens, account, enrolled, removed, strayed, page.kind) /\ DOMAIN r = Fields
      /\ r.kind \in Limited /\ r.stage \in {"sent", "second"}
      /\ counter' = [counter EXCEPT ![k].count = @ + 1] /\ Becomes(i, n)
      /\ UNCHANGED <<tables, session, tokens, history>>
  BY <1>1, SlotFacts DEF CountRequest, Limited
<1>3. k \in Counters
  BY <1>2, DirectoryAssumption DEF KeyOf, Counters, Limited
<1>4. PICK m \in Nat : m = counter[k].count
  BY <1>3, Apart DEF CountersHold
<1>5. /\ DOMAIN n = Fields /\ n.stage = "counted" /\ n.value = k /\ n.count = m + 1
      /\ n.kind = r.kind /\ n.id = r.id /\ n.class = r.class /\ n.part = r.part /\ n.rows = r.rows
      /\ n.outcome = r.outcome /\ n.made = r.made /\ n.name = r.name /\ n.email = r.email
      /\ n.token = r.token /\ n.shown = r.shown
  BY <1>2, <1>4, FieldsAre
<1>6. Becomes(i, n)
  BY <1>2
<1> HIDE DEF n
<1>7. OfKind(n) /\ AtStage(n) /\ Backed(n, tokens, account)
  <2>1. OfKind(n) /\ Backed(n, tokens, account)
    BY <1>2, <1>5 DEF Sound, OfKind, Backed, Limited, OfAccount
  <2>2. AtStage(n)
    BY <1>2, <1>3, <1>5 DEF Sound, AtStage
  <2>3. QED
    BY <2>1, <2>2
<1>8. n.id \in 0 .. MaxAccounts /\ n.email \in 0 .. MaxEmails /\ n.count \in Nat
  BY <1>2, <1>4, <1>5 DEF Sound, Form
<1>9. Sound(n, tokens, account, enrolled, removed, strayed, page.kind)
  BY <1>2, <1>5, <1>7, <1>8, ChangedSound
<1>10. Grows
  BY <1>2, NothingGrows DEF tables, history
<1>11. SlotSound(i)
  BY <1>6, <1>9, <1>10, Later, WentLater
<1>12. Stored'
  BY <1>2, StoredKept DEF history
<1>13. CountersHold'
  <2>1. /\ counter' \in [Counters -> [count : Nat, ends : BOOLEAN]]
        /\ \A l \in Counters : counter'[l].ends = counter[l].ends
        /\ \A l \in Counters \ {k} : counter'[l] = counter[l]
        /\ CountersHold
    BY <1>2, <1>3, Apart DEF CountersHold
  <2>2. requests'[i] = n /\ \A j \in Slots \ {i} : requests'[j] = requests[j]
    BY <1>6, SlotFacts
  <2>3. ASSUME NEW l \in Counters, counter'[l].count > 0, ~counter'[l].ends, l \notin stuck'
        PROVE  \E j \in Slots : At(j, {"login", "register", "import"}, "counted")'
                                  /\ requests'[j].value = l /\ requests'[j].count = 1
    <3>1. CASE l = k /\ m = 0
      <4>1. At(i, {"login", "register", "import"}, "counted")'
              /\ requests'[i].value = l /\ requests'[i].count = 1
        BY <1>2, <1>5, <2>2, <3>1 DEF At, Limited
      <4>2. QED
        BY <4>1
    <3>2. CASE l # k \/ m # 0
      <4>1. counter[l].count > 0 /\ ~counter[l].ends /\ l \notin stuck
        BY <1>2, <1>4, <2>1, <2>3, <3>2 DEF history
      <4>2. PICK j \in Slots : At(j, {"login", "register", "import"}, "counted")
                                 /\ requests[j].value = l /\ requests[j].count = 1
        BY <2>1, <4>1 DEF CountersHold, LimitHasEnd
      <4>3. j # i
        BY <1>1, <1>2, <4>2 DEF At
      <4>4. QED
        BY <2>2, <4>2, <4>3 DEF At
    <3>3. QED
      BY <3>1, <3>2
  <2>4. QED
    BY <2>1, <2>3 DEF CountersHold, LimitHasEnd
<1>14. QED
  BY <1>10, <1>11, <1>12, <1>13 DEF Served

LEMMA CheckRateLimitServed ==
  ASSUME IInv, NEW i \in Slots, CheckRateLimit(i)
  PROVE  Served(i)
<1>1. PICK r : r = requests[i]
  OBVIOUS
<1> DEFINE k == r.value
<1>2. /\ Sound(r, tokens, account, enrolled, removed, strayed, page.kind)
      /\ r.stage = "counted" /\ UNCHANGED <<tables, session, tokens, history>>
      /\ counter' = (IF r.count = 1 /\ counter[k].count > 0
                      THEN [counter EXCEPT ![k].ends = TRUE] ELSE counter)
  BY <1>1, SlotFacts DEF CheckRateLimit
<1>3. r.kind \in Limited /\ k \in Counters
  BY <1>2 DEF Sound, AtStage
<1>4. Grows
  BY <1>2, NothingGrows DEF tables, history
<1>5. SlotSound(i)
  <2>1. CASE Refuse(i)
    BY <1>4, <2>1, RefusedLater
  <2>2. CASE Becomes(i, [r EXCEPT !.stage = AfterLimit(r)])
    <3>1. r.kind = "import" => r.id = 0
      BY <1>2 DEF Sound, AtStage
    <3>2. AfterLimit(r) \in {"second", "checked", "row"} /\ (r.kind = "import" => AfterLimit(r) = "row")
      BY <1>3 DEF AfterLimit, Limited
    <3>3. Sound([r EXCEPT !.stage = AfterLimit(r)],
                tokens, account, enrolled, removed, strayed, page.kind)
      BY <1>2, <3>1, <3>2, MovedSound
    <3>4. QED
      BY <1>4, <2>2, <3>3, Later, WentLater
  <2>3. QED
    BY <1>1, <2>1, <2>2 DEF CheckRateLimit
<1>6. Stored'
  BY <1>2, StoredKept DEF history
<1>7. CountersHold'
  <2>1. /\ counter' \in [Counters -> [count : Nat, ends : BOOLEAN]] /\ CountersHold
        /\ \A l \in Counters : counter'[l].count = counter[l].count /\ (counter[l].ends => counter'[l].ends)
        /\ r.count = 1 /\ counter[k].count > 0 => counter'[k].ends
    BY <1>2, <1>3, Apart DEF CountersHold
  <2>2. ASSUME NEW l \in Counters, counter'[l].count > 0, ~counter'[l].ends, l \notin stuck'
        PROVE  \E j \in Slots : At(j, {"login", "register", "import"}, "counted")'
                                  /\ requests'[j].value = l /\ requests'[j].count = 1
    <3>1. counter[l].count > 0 /\ ~counter[l].ends /\ l \notin stuck
      BY <1>2, <2>1, <2>2 DEF history
    <3>2. PICK j \in Slots : At(j, {"login", "register", "import"}, "counted")
                               /\ requests[j].value = l /\ requests[j].count = 1
      BY <2>1, <3>1 DEF CountersHold, LimitHasEnd
    <3>3. j # i
      BY <1>1, <2>1, <2>2, <3>1, <3>2
    <3>4. QED
      BY <1>5, <3>2, <3>3 DEF At, SlotSound
  <2>3. QED
    BY <2>1, <2>2 DEF CountersHold, LimitHasEnd
<1>8. QED
  BY <1>4, <1>5, <1>6, <1>7 DEF Served

LEMMA CreateSessionServed ==
  ASSUME IInv, NEW i \in Slots, CreateSession(i)
  PROVE  Served(i)
<1>1. PICK r : r = requests[i]
  OBVIOUS
<1> DEFINE n == [r EXCEPT !.token = tokens + 1]
<1>2. /\ Sound(r, tokens, account, enrolled, removed, strayed, page.kind) /\ Stored
      /\ DOMAIN r = Fields /\ r.id \in 0 .. MaxAccounts
      /\ r.stage = "verified" /\ tokens < MaxTokens /\ tokens' = tokens + 1
      /\ session' = [session EXCEPT ![tokens + 1] = r.id] /\ Answer(i, n)
      /\ UNCHANGED <<tables, counter, history>>
  BY <1>1, SlotFacts, Apart DEF CreateSession, Sound, Form
<1>3. tokens \in Nat /\ tokens + 1 \in Tokens /\ tokens' \in 0 .. MaxTokens
  BY <1>2, DirectoryAssumption DEF Stored, Tokens
<1>4. Grows
  BY <1>2, <1>3 DEF Grows, tables, history
<1>5. Sound(n, tokens', account', enrolled', removed', strayed', page.kind)
  <2>1. /\ DOMAIN n = Fields /\ n.stage = "verified" /\ n.value = r.value /\ n.count = r.count
        /\ n.kind = r.kind /\ n.id = r.id /\ n.class = r.class /\ n.part = r.part /\ n.rows = r.rows
        /\ n.outcome = r.outcome /\ n.made = r.made /\ n.name = r.name /\ n.email = r.email
        /\ n.token = tokens + 1 /\ n.shown = r.shown
    BY <1>2, FieldsAre
  <2> HIDE DEF n
  <2>2. Sound(r, tokens', account', enrolled', removed', strayed', page.kind)
    BY <1>2, <1>4, Later
  <2>3. OfKind(n) /\ AtStage(n) /\ Backed(n, tokens', account')
    BY <1>2, <1>3, <2>1 DEF Sound, OfKind, AtStage, Backed
  <2>4. n.id \in 0 .. MaxAccounts /\ n.email \in 0 .. MaxEmails /\ n.count \in Nat
    BY <1>2, <2>1 DEF Sound, Form
  <2>5. QED
    BY <2>1, <2>2, <2>3, <2>4, ChangedSound
<1>6. SlotSound(i)
  BY <1>2, <1>4, <1>5, AnsweredLater DEF Grows
<1>7. Stored'
  <2>1. session' \in [Tokens -> 0 .. MaxAccounts]
    BY <1>2, <1>3 DEF Stored
  <2>2. \A t \in ended : t \in Tokens /\ t # tokens + 1
    BY <1>2, <1>3, DirectoryAssumption DEF Stored, Tokens
  <2>3. LoggedOutStaysOut'
    BY <1>2, <2>2 DEF Stored, LoggedOutStaysOut, history
  <2>4. ended' \subseteq 1 .. tokens'
    BY <1>2, <1>3 DEF Stored, history
  <2>5. EmailUnique'
    BY <1>2 DEF Stored, EmailUnique, tables
  <2>6. QED
    BY <1>2, <1>3, <2>1, <2>3, <2>4, <2>5 DEF Stored, tables
<1>8. CountersHold'
  BY <1>1, <1>2, <1>6, CountersKept DEF history, SlotSound
<1>9. QED
  BY <1>4, <1>6, <1>7, <1>8 DEF Served

LEMMA DestroySessionServed ==
  ASSUME IInv, NEW i \in Slots, DestroySession(i)
  PROVE  Served(i)
<1>1. PICK r : r = requests[i]
  OBVIOUS
<1> DEFINE t == r.token
<1>2. /\ Sound(r, tokens, account, enrolled, removed, strayed, page.kind) /\ Stored
      /\ r.kind = "logout" /\ r.stage = "sent" /\ t \in 0 .. tokens
      /\ session' = [u \in Tokens |-> IF u = t THEN 0 ELSE session[u]]
      /\ ended' = ended \union ({t} \ {0}) /\ Answer(i, r)
      /\ UNCHANGED <<tables, tokens, counter, removed, strayed, stuck>>
  BY <1>1, SlotFacts, Apart DEF DestroySession, At, Sound, Backed
<1>3. Grows
  BY <1>2, NothingGrows DEF tables
<1>4. SlotSound(i)
  BY <1>2, <1>3, Later, AnsweredLater DEF Grows
<1>5. Stored'
  <2>1. tokens \in Nat /\ MaxTokens \in Nat /\ tokens <= MaxTokens /\ tokens' = tokens
    BY <1>2, DirectoryAssumption DEF Stored
  <2>2. ended' \subseteq 1 .. tokens'
    <3>1. \A u \in ended' : u \in ended \/ (u = t /\ t # 0)
      BY <1>2
    <3>2. ended \subseteq 1 .. tokens
      BY <1>2 DEF Stored
    <3>3. t # 0 => t \in 1 .. tokens
      BY <1>2, <2>1
    <3>4. QED
      BY <2>1, <3>1, <3>2, <3>3
  <2>3. session' \in [Tokens -> 0 .. MaxAccounts]
    BY <1>2, DirectoryAssumption DEF Stored
  <2>4. LoggedOutStaysOut'
    <3>1. ASSUME NEW u \in ended'
          PROVE  session'[u] = 0
      <4>1. u \in Tokens
        BY <1>2, <2>2, <2>1 DEF Tokens
      <4>2. QED
        BY <1>2, <4>1 DEF Stored, LoggedOutStaysOut
    <3>2. QED
      BY <3>1 DEF LoggedOutStaysOut
  <2>5. QED
    BY <1>2, <2>2, <2>3, <2>4 DEF Stored, EmailUnique, tables
<1>6. CountersHold'
  BY <1>1, <1>2, <1>4, CountersKept DEF SlotSound
<1>7. QED
  BY <1>3, <1>4, <1>5, <1>6 DEF Served

LEMMA InsertAccountServed ==
  ASSUME IInv, NEW i \in Slots, InsertAccount(i)
  PROVE  Served(i)
<1>1. PICK r : r = requests[i]
  OBVIOUS
<1>2. /\ Sound(r, tokens, account, enrolled, removed, strayed, page.kind) /\ Stored
      /\ DOMAIN r = Fields /\ r.kind \in Creating /\ r.stage = "free"
      /\ UNCHANGED <<class, enrolled, redis, history>>
  BY <1>1, SlotFacts, Apart DEF InsertAccount
<1>3. CASE Taken(r.email)
  BY <1>1, <1>2, <1>3, RowFailed, OnwardServed DEF InsertAccount, tables
<1>4. CASE ~Taken(r.email)
  <2>1. PICK a \in Accounts : /\ FreeRow(a)
                              /\ account' = [account EXCEPT ![a] = NewAccount(r.email, RoleOf(r))]
                              /\ AfterInsert(i, [r EXCEPT !.id = a])
    BY <1>1, <1>4 DEF InsertAccount
  <2>2. PICK row : row = NewAccount(r.email, RoleOf(r))
    OBVIOUS
  <2>3. row \in AccountRows /\ row.email = r.email /\ row.role \in {"teacher", "student"}
        /\ row.status = "active" /\ ~row.deleted /\ (r.kind \in Joining => row.role = "student")
    <3>1. RoleOf(r) \in {"teacher", "student"} /\ r.email \in 0 .. MaxEmails
          /\ (r.kind \in Joining => RoleOf(r) = "student")
      BY <1>2 DEF Sound, Form, OfKind, RoleOf, Creating, Joining
    <3>2. QED
      BY <2>2, <3>1 DEF NewAccount, NoAccount, AccountRows
  <2>4. account[a].role = "none" /\ account' = [account EXCEPT ![a] = row]
    BY <2>1, <2>2 DEF FreeRow, NoAccount
  <2>5. Grows
    BY <1>2, <2>4, DirectoryAssumption DEF Grows, Stored, redis, history
  <2>6. Sound(r, tokens', account', enrolled', removed', strayed', page.kind) /\ tokens' \in Nat
    BY <1>2, <2>5, Later DEF Grows
  <2>7. ASSUME NEW s \in {"free", "verified", "made"}, r.kind = "createUser" \/ s # "free",
               r.kind \in {"import"} => s = "made"
        PROVE  LET n == [r EXCEPT !.id = a, !.stage = s] IN
               Sound(n, tokens', account', enrolled', removed', strayed', page.kind)
    <3> DEFINE n == [r EXCEPT !.id = a, !.stage = s]
    <3>1. /\ DOMAIN n = Fields /\ n.stage = s /\ n.value = r.value /\ n.count = r.count
          /\ n.kind = r.kind /\ n.id = a /\ n.class = r.class /\ n.part = r.part /\ n.rows = r.rows
          /\ n.outcome = r.outcome /\ n.made = r.made /\ n.name = r.name /\ n.email = r.email
          /\ n.token = r.token /\ n.shown = r.shown
      BY <1>2, FieldsAre
    <3> HIDE DEF n
    <3>2. OfKind(n) /\ Backed(n, tokens', account')
      BY <1>2, <2>6, <3>1 DEF Sound, OfKind, Backed, Creating, OfAccount
    <3>3. AtStage(n)
      BY <1>2, <2>7, <3>1 DEF Sound, AtStage
    <3>4. n.id \in 0 .. MaxAccounts /\ n.email \in 0 .. MaxEmails /\ n.count \in Nat
      BY <1>2, <3>1, DirectoryAssumption DEF Sound, Form, Accounts
    <3>5. Sound(n, tokens', account', enrolled', removed', strayed', page.kind)
      BY <2>6, <3>1, <3>2, <3>3, <3>4, ChangedSound
    <3>6. QED
      BY <3>5 DEF n
  <2>8. SlotSound(i)
    <3>1. CASE r.kind = "createUser"
      <4>1. [r EXCEPT !.id = a] = [r EXCEPT !.id = a, !.stage = "free"]
        BY <1>2, FieldsAre
      <4>2. Answer(i, [r EXCEPT !.id = a, !.stage = "free"])
        BY <1>2, <2>1, <3>1, <4>1, FieldsAre DEF AfterInsert
      <4>3. QED
        BY <2>6, <2>7, <3>1, <4>2, AnsweredLater
    <3>2. CASE r.kind = "register"
      <4>1. Becomes(i, [r EXCEPT !.id = a, !.stage = "verified"])
        BY <1>2, <2>1, <3>2, FieldsAre DEF AfterInsert
      <4>2. QED
        BY <2>7, <3>2, <4>1, WentLater
    <3>3. CASE r.kind \in {"createStudent", "import"}
      <4>1. Becomes(i, [r EXCEPT !.id = a, !.stage = "made"])
        BY <1>2, <2>1, <3>3, FieldsAre DEF AfterInsert
      <4>2. QED
        BY <2>7, <3>3, <4>1, WentLater
    <3>4. QED
      BY <1>2, <3>1, <3>2, <3>3 DEF Creating
  <2>9. Stored'
    <3>1. account' \in [Accounts -> AccountRows]
      BY <1>2, <2>3, <2>4 DEF Stored
    <3>2. \A b \in Accounts : account'[b] = IF b = a THEN row ELSE account[b]
      BY <1>2, <2>4 DEF Stored
    <3>3. \A b \in Accounts : /\ account'[b].status \in IF account'[b].role = "none" THEN {"none"}
                                                       ELSE {"active", "disabled"}
                              /\ account'[b].deleted => account'[b].role # "none"
      BY <1>2, <2>3, <3>2 DEF Stored
    <3>4. EmailUnique'
      BY <1>2, <1>4, <2>3, <3>2 DEF Stored, EmailUnique, Taken
    <3>5. \A c \in Classes : \A b \in enrolled'[c] : account'[b].role = "student"
      BY <1>2, <2>4, <3>2 DEF Stored
    <3>6. QED
      BY <1>2, <3>1, <3>3, <3>4, <3>5 DEF Stored, LoggedOutStaysOut, redis, history
  <2>10. CountersHold'
    BY <1>1, <1>2, <2>8, CountersKept DEF redis, history, SlotSound
  <2>11. QED
    BY <2>5, <2>8, <2>9, <2>10 DEF Served
<1>5. QED
  BY <1>3, <1>4

LEMMA ServeServed ==
  ASSUME IInv, NEW i \in Slots, Serve(i)
  PROVE  Served(i)
<1>1. CASE \/ VerifyPassword(i) \/ GetUserBySessionToken(i) \/ SlideExpiration(i)
           \/ ParseFile(i) \/ FindEmail(i)
           \/ AssertStudentInTeachersRoster(i) \/ RequireActiveUser(i)
           \/ ListRoster(i) \/ FindOthers(i) \/ SearchAvailableStudents(i) \/ CountRows(i) \/ ListRows(i)
  <2>1. UNCHANGED <<tables, redis, history>>
    BY <1>1 DEF VerifyPassword, GetUserBySessionToken, SlideExpiration, ParseFile, FindEmail,
         AssertStudentInTeachersRoster, RequireActiveUser, ListRoster, FindOthers,
         SearchAvailableStudents, CountRows, ListRows
  <2>2. Onward(i)
    BY <1>1, SignSteps, RowSteps, AccountSteps, ReadSteps
  <2>3. QED
    BY <2>1, <2>2, OnwardServed
<1>2. CASE \/ CountRequest(i) \/ CheckRateLimit(i) \/ CreateSession(i) \/ DestroySession(i)
           \/ RequireOwnedClass(i) \/ InsertAccount(i) \/ FindEnrolled(i) \/ AddStudentToClass(i)
  BY <1>2, CountRequestServed, CheckRateLimitServed, CreateSessionServed, DestroySessionServed,
     RequireOwnedClassServed, InsertAccountServed, FindEnrolledServed, AddStudentToClassServed
<1>3. CASE \/ UpdateStudentProfile(i) \/ UpdateUser(i) \/ ResetUserPassword(i) \/ DeleteUser(i)
           \/ CreateClass(i) \/ UpdateClass(i) \/ DeleteClass(i) \/ RemoveStudentFromClass(i)
  BY <1>3, WriteSteps, ClassSteps, RemoveServed
<1>4. QED
  BY <1>1, <1>2, <1>3 DEF Serve

LEMMA PageFieldsAre ==
  DOMAIN InitialPage("users") =
    {"kind", "search", "query", "rows", "total", "loading", "error", "available", "pending",
     "report", "cookie", "form", "home", "circling", "missed", "unseen", "crossed"}
BY DEF InitialPage

\* The page stays the page it is.
Stays == IInv' /\ page'.kind = page.kind

LEMMA ServeSteps ==
  ASSUME IInv, NEW i \in Slots, Served(i), page' = Unseen(i)
  PROVE  Stays
<1>1. PageHolds /\ tokens \in Nat /\ tokens <= tokens'
  BY Apart, DirectoryAssumption DEF IInv, TypeOK, Served, Grows
<1>2. PICK p : p = page
  OBVIOUS
<1>3. PICK missed, unseen : page' = [p EXCEPT !.missed = missed, !.unseen = unseen]
  <2> DEFINE r == requests[i]
             rereads == r.part # "none" /\ (At(i, {"users", "classes"}, "sent") \/ r.stage = "listing")
             halfDone == \/ strayed' # strayed
                         \/ /\ r.stage \in {"row", "class", "checked", "free", "made", "owned", "ready",
                                            "enrolled", "listing"}
                            /\ requests'[i].stage = "refused"
                            /\ r.kind # "createUser"
             behind == halfDone \/ (r.part = "none" /\ tables' # tables)
             missed == behind \/ (p.missed /\ ~rereads)
             unseen == behind \/ (p.unseen /\ (p.missed \/ ~At(i, {"available"}, "owned")))
  <2>1. page' = [p EXCEPT !.missed = missed, !.unseen = unseen]
    BY <1>2 DEF Unseen
  <2> HIDE DEF missed, unseen
  <2>2. QED
    BY <2>1
<1>4. /\ DOMAIN page' = DOMAIN page /\ page'.kind = page.kind /\ page'.rows = page.rows
      /\ page'.cookie = page.cookie /\ page'.pending = page.pending
  BY <1>1, <1>2, <1>3, PageFieldsAre DEF PageHolds, PageOK
<1>5. PageHolds'
  <2>1. page.cookie \in 0 .. tokens'
    BY <1>1 DEF PageHolds, Served, Grows
  <2>2. QED
    BY <1>1, <1>4, <2>1 DEF PageHolds, PageOK
<1>6. RequestsSound'
  BY <1>4, OthersSound DEF Served
<1>7. QED
  BY <1>4, <1>5, <1>6, Together DEF Served, Stays

-----------------------------------------------------------------------------
(* The steps of the page.                                                  *)

LEMMA LeastSlot ==
  ASSUME NEW S \in SUBSET Nat, S # {}
  PROVE  \E n \in S : \A m \in S : n <= m
<1>1. IsWellFoundedOn(OpToRel(<, Nat), Nat)
  BY NatLessThanWellFounded
<1>2. PICK n \in S : \A m \in S : ~(<<m, n>> \in OpToRel(<, Nat))
  BY <1>1, WFMin
<1>3. \A m \in S : ~(m < n)
  BY <1>2 DEF OpToRel
<1>4. QED
  BY <1>3

LEMMA PutIsThere ==
  ASSUME NEW rs, FreeSlots(rs) # {}, NEW r
  PROVE  \E i \in FreeSlots(rs) : Put(rs, r) = [rs EXCEPT ![i] = r]
<1>1. FreeSlots(rs) \in SUBSET Nat
  BY DirectoryAssumption DEF FreeSlots, Slots
<1>2. \E i \in FreeSlots(rs) : \A j \in FreeSlots(rs) : i <= j
  BY <1>1, LeastSlot
<1>3. (CHOOSE i \in FreeSlots(rs) : \A j \in FreeSlots(rs) : i <= j) \in FreeSlots(rs)
  BY <1>2
<1>4. QED
  BY <1>3 DEF Put

\* What the requests may become while the server rests: all of them sound, and
\* none that has counted is forgotten.
Standing(rs) ==
  /\ DOMAIN rs = Slots
  /\ \A i \in Slots : /\ Sound(rs[i], tokens, account, enrolled, removed, strayed, page.kind)
                      /\ requests[i].stage = "counted" => rs[i] = requests[i]

PageGood(p) ==
  /\ DOMAIN p = DOMAIN InitialPage("users") /\ p.kind = page.kind
  /\ p.cookie \in 0 .. tokens /\ p.pending \in 0 .. MaxAccounts
  /\ p.kind = "roster" => p.rows \subseteq RosterRows
  /\ p.kind = "users" => \A row \in p.rows : row.id \in Accounts

LEMMA StandingNow == IInv => Standing(requests) /\ PageGood(page)
BY DEF IInv, RequestsSound, Standing, PageGood, PageOK, TypeOK

LEMMA PutStanding ==
  ASSUME NEW rs, Standing(rs), FreeSlots(rs) # {}, NEW r,
         Sound(r, tokens, account, enrolled, removed, strayed, page.kind)
  PROVE  Standing(Put(rs, r))
<1>1. PICK i \in FreeSlots(rs) : Put(rs, r) = [rs EXCEPT ![i] = r]
  BY PutIsThere
<1>2. i \in Slots /\ rs[i].stage = "idle"
  BY <1>1 DEF FreeSlots, NoRequest
<1>3. QED
  BY <1>1, <1>2 DEF Standing

LEMMA DroppedStanding ==
  ASSUME IInv, NEW rs, Standing(rs), NEW part \in {"list", "available"}
  PROVE  Standing(Dropped(rs, part))
<1>1. tokens \in Nat
  BY DirectoryAssumption DEF IInv, TypeOK
<1>2. ASSUME NEW i \in Slots
      PROVE  /\ Sound(Dropped(rs, part)[i], tokens, account, enrolled, removed, strayed, page.kind)
             /\ requests[i].stage = "counted" => Dropped(rs, part)[i] = requests[i]
  <2>1. Dropped(rs, part)[i] = IF rs[i].part = part THEN NoRequest ELSE rs[i]
    BY DEF Dropped
  <2>2. Sound(rs[i], tokens, account, enrolled, removed, strayed, page.kind)
    BY DEF Standing
  <2>3. rs[i].stage = "counted" => rs[i].part # part
    BY <2>2 DEF Sound, AtStage, OfKind
  <2>4. Sound(NoRequest, tokens, account, enrolled, removed, strayed, page.kind)
    BY <1>1, NoRequestSound
  <2>5. CASE rs[i].part = part
    BY <2>1, <2>3, <2>4, <2>5 DEF Standing
  <2>6. CASE rs[i].part # part
    BY <2>1, <2>2, <2>6 DEF Standing
  <2>7. QED
    BY <2>5, <2>6
<1>3. DOMAIN Dropped(rs, part) = Slots
  BY DEF Dropped
<1>4. QED
  BY <1>2, <1>3 DEF Standing

LEMMA WithoutStanding ==
  ASSUME IInv, NEW i \in Slots, requests[i].stage \in {"answered", "refused"}
  PROVE  Standing(Without(i))
<1>1. Sound(NoRequest, tokens, account, enrolled, removed, strayed, page.kind)
  BY SlotFacts
<1>2. QED
  BY <1>1, StandingNow DEF Standing, Without

LEMMA PageStep ==
  ASSUME IInv, UNCHANGED serverVars, Standing(requests'), PageGood(page')
  PROVE  Stays
<1>1. UNCHANGED <<tables, redis, history>>
  BY DEF serverVars
<1>2. Stored'
  BY <1>1, StoredKept DEF redis, history
<1>3. CountersHold'
  <2>1. CountersHold
    BY Apart
  <2>2. \A i \in Slots : requests[i].stage = "counted" => requests'[i] = requests[i]
    BY DEF Standing
  <2>3. ASSUME NEW k \in Counters, counter'[k].count > 0, ~counter'[k].ends, k \notin stuck'
        PROVE  \E j \in Slots : At(j, {"login", "register", "import"}, "counted")'
                                  /\ requests'[j].value = k /\ requests'[j].count = 1
    <3>1. PICK j \in Slots : At(j, {"login", "register", "import"}, "counted")
                               /\ requests[j].value = k /\ requests[j].count = 1
      BY <1>1, <2>1, <2>3 DEF CountersHold, LimitHasEnd, redis, history
    <3>2. requests'[j] = requests[j]
      BY <2>2, <3>1 DEF At
    <3>3. QED
      BY <3>1, <3>2 DEF At
  <2>4. QED
    BY <1>1, <2>1, <2>3 DEF CountersHold, LimitHasEnd, redis
<1>4. PageHolds'
  BY <1>1 DEF PageGood, PageHolds, PageOK, IInv, TypeOK, redis
<1>5. RequestsSound'
  BY <1>1 DEF Standing, RequestsSound, PageGood, tables, redis, history
<1>6. QED
  BY <1>2, <1>3, <1>4, <1>5, Together DEF PageGood, Stays

LEMMA ShowsSteps ==
  ASSUME IInv, NEW p, PageGood(p), NEW rs, Standing(rs), Shows(p, rs)
  PROVE  Stays
BY PageStep DEF Shows, Rest

LEMMA ShowStep ==
  ASSUME IInv, NEW p, PageGood(p), Show(p)
  PROVE  Stays
<1>1. requests' = requests /\ page' = p /\ UNCHANGED serverVars
  BY DEF Show, Rest
<1>2. Standing(requests')
  BY <1>1, StandingNow
<1>3. QED
  BY <1>1, <1>2, PageStep

LEMMA SendStep ==
  ASSUME IInv, NEW p, PageGood(p), NEW r, Send(p, r),
         Sound(r, tokens, account, enrolled, removed, strayed, page.kind)
  PROVE  Stays
<1>1. Standing(Put(requests, r))
  BY StandingNow, PutStanding DEF Send
<1>2. QED
  BY <1>1, PageStep DEF Send, Rest

LEMMA RerunStep ==
  ASSUME IInv, NEW p, PageGood(p), NEW rs, Standing(rs), NEW r, r.part \in {"list", "available"},
         Rerun(p, rs, r), Sound(r, tokens, account, enrolled, removed, strayed, page.kind)
  PROVE  Stays
<1>1. Standing(Dropped(rs, r.part))
  BY DroppedStanding
<1>2. FreeSlots(Dropped(rs, r.part)) # {} /\ page' = p /\ requests' = Put(Dropped(rs, r.part), r)
      /\ UNCHANGED serverVars
  BY DEF Rerun, Rest
<1>3. Standing(requests')
  BY <1>1, <1>2, PutStanding
<1>4. QED
  BY <1>2, <1>3, PageStep

LEMMA AskFields ==
  ASSUME NEW kind, NEW part, NEW n, n = Ask(kind, part)
  PROVE
         /\ DOMAIN n = Fields /\ n.kind = kind /\ n.part = part /\ n.stage = "sent"
         /\ n.class = 0 /\ n.id = 0 /\ n.email = 0 /\ n.value = "none" /\ n.rows = <<>>
         /\ n.outcome = <<>> /\ n.made = <<>> /\ n.count = 0 /\ n.total = 0
         /\ n.shown = {} /\ n.token = 0 /\ n.name = 0
BY DEF Ask, NoRequest, Fields

\* A request that was just made.
LEMMA NewSound ==
  ASSUME NEW n, DOMAIN n = Fields, n.stage \in {"sent", "class"}, n.outcome = <<>>, n.made = <<>>,
         n.count = 0, n.shown = {}, n.id \in 0 .. MaxAccounts, n.email \in 0 .. MaxEmails,
         n.name \in 0 .. MaxClasses, n.token \in 0 .. tokens, n.rows \in Seq(0 .. MaxEmails),
         n.kind = "createUser" => n.value \in {"teacher", "student"},
         n.kind = "update" => n.value \in {"active", "disabled"},
         n.kind \in Limited => n.part \in {"sign", "import", "none"},
         n.kind \in OfAccount \union {"add"} => n.id \in Accounts,
         n.kind \in Joining => n.class \in Classes,
         n.kind = "import" => n.id = 0 /\ n.stage = "sent",
         n.kind = "createStudent" => n.stage = "class",
         n.kind = "visit" => n.token # 0,
         OfPage(n, page.kind)
  PROVE  Sound(n, tokens, account, enrolled, removed, strayed, page.kind)
<1>1. Form(n)
  BY DEF Form
<1>2. OfKind(n) /\ AtStage(n) /\ Backed(n, tokens, account)
  BY DEF OfKind, AtStage, Backed
<1>3. Reported(n, enrolled, removed, strayed)
  BY DEF Reported
<1>4. QED
  BY <1>1, <1>2, <1>3 DEF Sound

\* One that was sent, by the fields that are not as in every request.
Plain(n, a) ==
  /\ DOMAIN n = Fields /\ n.kind = a.kind /\ n.part = a.part /\ n.outcome = a.outcome
  /\ n.made = a.made /\ n.count = a.count /\ n.shown = a.shown

LEMMA SentSound ==
  ASSUME NEW kind, NEW part, NEW a, a = Ask(kind, part),
         NEW n, Plain(n, a), n.stage = "sent", n.rows = <<>>,
         n.id \in 0 .. MaxAccounts, n.email \in 0 .. MaxEmails, n.name \in 0 .. MaxClasses,
         n.token \in 0 .. tokens,
         kind \notin {"createStudent", "import"},
         kind = "createUser" => n.value \in {"teacher", "student"},
         kind = "update" => n.value \in {"active", "disabled"},
         kind \in Limited => part \in {"sign", "none"},
         kind \in OfAccount \union {"add"} => n.id \in Accounts,
         kind = "add" => n.class \in Classes,
         kind = "visit" => n.token # 0,
         part = "list" => kind = page.kind /\ kind \in {"users", "classes"},
         page.kind = "roster" /\ part \in RosterParts =>
           kind \in Joining \union {"remove", "deleteStudent", "editStudent"}
  PROVE  Sound(n, tokens, account, enrolled, removed, strayed, page.kind)
<1>1. /\ DOMAIN n = Fields /\ n.kind = kind /\ n.part = part
      /\ n.outcome = <<>> /\ n.made = <<>> /\ n.count = 0 /\ n.shown = {}
  BY AskFields DEF Plain
<1>2. OfPage(n, page.kind)
  BY <1>1 DEF OfPage
<1>3. n.rows \in Seq(0 .. MaxEmails)
  BY EmptySeq
<1>4. QED
  BY <1>1, <1>2, <1>3, NewSound DEF Joining, Limited

LEMMA Zeros ==
  /\ 0 \in 0 .. MaxAccounts /\ 0 \in 0 .. MaxEmails /\ 0 \in 0 .. MaxClasses
  /\ 1 \in Accounts /\ 1 \in Classes /\ MaxEmails \in 0 .. MaxEmails
  /\ Accounts \subseteq 0 .. MaxAccounts /\ Classes \subseteq 0 .. MaxClasses
  /\ 1 .. MaxEmails \subseteq 0 .. MaxEmails
BY DirectoryAssumption, PagesAssumption DEF Accounts, Classes

LEMMA Bounds ==
  ASSUME IInv
  PROVE  /\ 0 \in 0 .. MaxAccounts /\ 0 \in 0 .. MaxEmails /\ 0 \in 0 .. MaxClasses /\ 0 \in 0 .. tokens
         /\ 1 \in Accounts /\ 1 \in Classes /\ MaxEmails \in 0 .. MaxEmails
         /\ Accounts \subseteq 0 .. MaxAccounts /\ Classes \subseteq 0 .. MaxClasses
         /\ 1 .. MaxEmails \subseteq 0 .. MaxEmails
         /\ tokens \in Nat /\ page.cookie \in 0 .. tokens /\ page.kind \in Kinds
BY Zeros, DirectoryAssumption DEF IInv, TypeOK

LEMMA AskListSound ==
  ASSUME tokens \in Nat, NEW p, p.kind = page.kind, page.kind \in {"users", "classes"}
  PROVE  /\ Sound(AskList(p), tokens, account, enrolled, removed, strayed, page.kind)
         /\ AskList(p).part = "list"
<1> DEFINE n == AskList(p)
<1>1. PICK a : a = Ask(p.kind, "list")
  OBVIOUS
<1>2. /\ DOMAIN a = Fields /\ a.kind = p.kind /\ a.part = "list" /\ a.stage = "sent" /\ a.rows = <<>>
      /\ a.id = 0 /\ a.email = 0 /\ a.name = 0 /\ a.token = 0
  BY <1>1, AskFields
<1>3. /\ Plain(n, a) /\ n.part = "list" /\ n.stage = "sent" /\ n.rows = <<>>
      /\ n.id = 0 /\ n.email = 0 /\ n.name = 0 /\ n.token = 0
  BY <1>1, <1>2, FieldsAre DEF AskList, Plain
<1> HIDE DEF n
<1>4. Sound(n, tokens, account, enrolled, removed, strayed, page.kind)
  BY <1>1, <1>3, Zeros, SentSound DEF Limited, OfAccount, RosterParts
<1>5. QED
  BY <1>3, <1>4 DEF n

LEMMA AskAvailableSound ==
  ASSUME tokens \in Nat, NEW p
  PROVE  /\ Sound(AskAvailable(p), tokens, account, enrolled, removed, strayed, page.kind)
         /\ AskAvailable(p).part = "available"
<1> DEFINE n == AskAvailable(p)
<1>1. PICK a : a = Ask("available", "available")
  OBVIOUS
<1>2. /\ DOMAIN a = Fields /\ a.part = "available" /\ a.stage = "sent" /\ a.rows = <<>>
      /\ a.id = 0 /\ a.email = 0 /\ a.name = 0 /\ a.token = 0
  BY <1>1, AskFields
<1>3. /\ Plain(n, a) /\ n.part = "available" /\ n.stage = "sent" /\ n.rows = <<>>
      /\ n.id = 0 /\ n.email = 0 /\ n.name = 0 /\ n.token = 0
  BY <1>1, <1>2, FieldsAre DEF AskAvailable, Plain
<1> HIDE DEF n
<1>4. Sound(n, tokens, account, enrolled, removed, strayed, page.kind)
  BY <1>1, <1>3, Zeros, SentSound DEF Limited, OfAccount, RosterParts
<1>5. QED
  BY <1>3, <1>4 DEF n

Blank(a) ==
  /\ DOMAIN a = Fields /\ a.stage = "sent" /\ a.rows = <<>>
  /\ a.id = 0 /\ a.email = 0 /\ a.name = 0 /\ a.token = 0

LEMMA AskBlank ==
  ASSUME NEW kind, NEW part, NEW a, a = Ask(kind, part)
  PROVE  Blank(a)
BY AskFields DEF Blank

\* The page changes only in what is of no concern here.
LEMMA GoodStays ==
  ASSUME NEW p, PageGood(p), NEW q, DOMAIN q = DOMAIN p,
         q.kind = p.kind, q.rows = p.rows, q.cookie = p.cookie, q.pending = p.pending
  PROVE  PageGood(q)
BY DEF PageGood

LEMMA LoadStep ==
  ASSUME IInv, InList, NEW p, PageGood(p), NEW rs, Standing(rs), Load(p, rs)
  PROVE  Stays
<1> DEFINE q == [p EXCEPT !.loading = TRUE, !.error = FALSE]
<1>1. p.kind = page.kind /\ DOMAIN p = DOMAIN InitialPage("users")
  BY DEF PageGood
<1>2. DOMAIN q = DOMAIN p /\ q.kind = p.kind /\ q.rows = p.rows /\ q.cookie = p.cookie
      /\ q.pending = p.pending
  BY <1>1, PageFieldsAre
<1>3. Rerun(q, rs, AskList(p))
  BY DEF Load
<1> HIDE DEF q
<1>4. PageGood(q)
  BY <1>2, GoodStays
<1>5. /\ Sound(AskList(p), tokens, account, enrolled, removed, strayed, page.kind)
      /\ AskList(p).part = "list"
  BY <1>1, Bounds, AskListSound DEF InList
<1>6. QED
  BY <1>3, <1>4, <1>5, RerunStep

LEMMA ListAsStep ==
  ASSUME IInv, InList, NEW p, PageGood(p), ListAs(p)
  PROVE  Stays
BY LoadStep, ShowStep, StandingNow DEF ListAs

LEMMA QuerySteps ==
  ASSUME IInv,
         HandleSearchChange \/ TurnPage \/ \E role \in {"all", "teacher", "student"} : HandleRoleChange(role)
  PROVE  Stays
<1>1. PageGood(page) /\ DOMAIN page = DOMAIN InitialPage("users")
  BY StandingNow DEF PageGood
<1>2. CASE HandleSearchChange
  <2> DEFINE s == ~page.search
             q == [page EXCEPT !.search = s, !.query.page = 1]
  <2>1. InList /\ ListAs(q)
    BY <1>2 DEF HandleSearchChange
  <2> HIDE DEF s
  <2>2. DOMAIN q = DOMAIN page /\ q.kind = page.kind /\ q.rows = page.rows /\ q.cookie = page.cookie
        /\ q.pending = page.pending
    BY <1>1, PageFieldsAre
  <2> HIDE DEF q
  <2>3. QED
    BY <1>1, <2>1, <2>2, GoodStays, ListAsStep
<1>3. CASE TurnPage
  <2>1. PICK n : InList /\ ListAs([page EXCEPT !.query.page = n])
    BY <1>3 DEF TurnPage
  <2> DEFINE q == [page EXCEPT !.query.page = n]
  <2>2. DOMAIN q = DOMAIN page /\ q.kind = page.kind /\ q.rows = page.rows /\ q.cookie = page.cookie
        /\ q.pending = page.pending
    BY <1>1, PageFieldsAre
  <2>3. QED
    BY <1>1, <2>1, <2>2, GoodStays, ListAsStep
<1>4. CASE \E role \in {"all", "teacher", "student"} : HandleRoleChange(role)
  <2>1. PICK role : HandleRoleChange(role)
    BY <1>4
  <2> DEFINE q == [page EXCEPT !.query.role = role, !.query.page = 1]
  <2>2. InList /\ ListAs(q)
    BY <2>1 DEF HandleRoleChange, InList
  <2>3. DOMAIN q = DOMAIN page /\ q.kind = page.kind /\ q.rows = page.rows /\ q.cookie = page.cookie
        /\ q.pending = page.pending
    BY <1>1, PageFieldsAre
  <2>4. QED
    BY <1>1, <2>2, <2>3, GoodStays, ListAsStep
<1>5. QED
  BY <1>2, <1>3, <1>4

\* A request of the page is sent, and the page stays as good as it was.
LEMMA SentStep ==
  ASSUME IInv, NEW p, PageGood(p), NEW kind, NEW part, NEW a, a = Ask(kind, part),
         NEW n, Send(p, n), Plain(n, a), n.stage = "sent", n.rows = <<>>,
         n.id \in 0 .. MaxAccounts, n.email \in 0 .. MaxEmails, n.name \in 0 .. MaxClasses,
         n.token \in 0 .. tokens,
         kind \notin {"createStudent", "import"}, part # "list",
         kind = "createUser" => n.value \in {"teacher", "student"},
         kind = "update" => n.value \in {"active", "disabled"},
         kind \in Limited => part \in {"sign", "none"},
         kind \in OfAccount \union {"add"} => n.id \in Accounts,
         kind = "add" => n.class \in Classes,
         kind = "visit" => n.token # 0,
         page.kind = "roster" /\ part \in RosterParts =>
           kind \in Joining \union {"remove", "deleteStudent", "editStudent"}
  PROVE  Stays
BY SentSound, SendStep

LEMMA CreateStep ==
  ASSUME IInv, Create
  PROVE  Stays
<1>1. PageGood(page) /\ PageHolds
  BY StandingNow, Apart
<1>2. page.kind \in {"users", "classes"}
  BY DEF Create, InList
<1>3. CASE page.kind = "classes"
  <2>1. PICK m \in Classes : Send(page, [Ask("createClass", "create") EXCEPT !.name = m])
    BY <1>3 DEF Create
  <2>2. PICK a : a = Ask("createClass", "create")
    OBVIOUS
  <2> DEFINE n == [a EXCEPT !.name = m]
  <2>3. Blank(a)
    BY <2>2, AskBlank
  <2>4. /\ Plain(n, a) /\ n.stage = "sent" /\ n.rows = <<>>
        /\ n.id = 0 /\ n.email = 0 /\ n.name = m /\ n.token = 0
    BY <2>3, FieldsAre DEF Plain, Blank
  <2>5. Send(page, n)
    BY <2>2, <2>1
  <2> HIDE DEF n
  <2>6. QED
    BY <2>2, <2>4, <2>5, <1>1, <1>3, Bounds, SentStep DEF Limited, OfAccount, RosterParts, Joining
<1>4. CASE page.kind = "users"
  <2>1. PICK e \in 1 .. MaxEmails, role \in {"teacher", "student"} :
          Send(page, [Ask("createUser", "create") EXCEPT !.email = e, !.value = role])
    BY <1>4 DEF Create
  <2>2. PICK a : a = Ask("createUser", "create")
    OBVIOUS
  <2> DEFINE n == [a EXCEPT !.email = e, !.value = role]
  <2>3. Blank(a)
    BY <2>2, AskBlank
  <2>4. /\ Plain(n, a) /\ n.stage = "sent" /\ n.rows = <<>>
        /\ n.id = 0 /\ n.email = e /\ n.name = 0 /\ n.token = 0 /\ n.value = role
    BY <2>3, FieldsAre DEF Plain, Blank
  <2>5. Send(page, n)
    BY <2>2, <2>1
  <2> HIDE DEF n
  <2>6. QED
    BY <2>2, <2>4, <2>5, <1>1, <1>4, Bounds, SentStep DEF Limited, OfAccount, RosterParts, Joining
<1>5. QED
  BY <1>2, <1>3, <1>4

LEMMA ToggleStatusStep ==
  ASSUME IInv, NEW row \in page.rows, ToggleStatus(row)
  PROVE  Stays
<1>1. PageGood(page) /\ PageHolds
  BY StandingNow, Apart
<1>2. page.kind = "users" /\ row.id \in Accounts
  BY <1>1 DEF ToggleStatus, PageGood
<1>3. PICK a : a = Ask("update", "action")
  OBVIOUS
<1> DEFINE n == [a EXCEPT !.id = row.id, !.value = IF row.status = "active" THEN "disabled" ELSE "active"]
<1>4. Blank(a)
  BY <1>3, AskBlank
<1>5. /\ Plain(n, a) /\ n.stage = "sent" /\ n.rows = <<>>
      /\ n.id = row.id /\ n.email = 0 /\ n.name = 0 /\ n.token = 0 /\ n.value = (IF row.status = "active" THEN "disabled" ELSE "active")
  BY <1>4, FieldsAre DEF Plain, Blank
<1>6. Send(page, n)
  BY <1>3, FieldsAre, <1>4 DEF ToggleStatus, AskFor, Blank
<1> HIDE DEF n
<1>7. QED
  BY <1>3, <1>5, <1>6, <1>1, <1>2, Bounds, SentStep DEF Limited, OfAccount, RosterParts, Joining

LEMMA HandleDeleteStep ==
  ASSUME IInv, NEW row \in page.rows, HandleDelete(row)
  PROVE  Stays
<1>1. PageGood(page) /\ PageHolds
  BY StandingNow, Apart
<1>2. page.kind \in {"users", "classes"}
  BY DEF HandleDelete, InList
<1>3. CASE page.kind = "users"
  <2>1. row.id \in Accounts
    BY <1>1, <1>3 DEF PageGood
  <2>2. PICK a : a = Ask("deleteUser", "action")
    OBVIOUS
  <2> DEFINE n == [a EXCEPT !.id = row.id]
  <2>3. Blank(a)
    BY <2>2, AskBlank
  <2>4. /\ Plain(n, a) /\ n.stage = "sent" /\ n.rows = <<>>
        /\ n.id = row.id /\ n.email = 0 /\ n.name = 0 /\ n.token = 0
    BY <2>3, FieldsAre DEF Plain, Blank
  <2>5. Send(page, n)
    BY <2>2, <1>3 DEF HandleDelete, AskFor
  <2> HIDE DEF n
  <2>6. QED
    BY <2>2, <2>4, <2>5, <1>1, <1>3, <2>1, Bounds, SentStep DEF Limited, OfAccount, RosterParts, Joining
<1>4. CASE page.kind = "classes"
  <2>1. PICK a : a = Ask("deleteClass", "action")
    OBVIOUS
  <2> DEFINE n == [a EXCEPT !.class = row.id]
  <2>2. Blank(a)
    BY <2>1, AskBlank
  <2>3. /\ Plain(n, a) /\ n.stage = "sent" /\ n.rows = <<>>
        /\ n.id = 0 /\ n.email = 0 /\ n.name = 0 /\ n.token = 0
    BY <2>2, FieldsAre DEF Plain, Blank
  <2>4. Send(page, n)
    BY <2>1, <1>4 DEF HandleDelete
  <2> HIDE DEF n
  <2>5. QED
    BY <2>1, <2>3, <2>4, <1>1, <1>4, Bounds, SentStep DEF Limited, OfAccount, RosterParts, Joining
<1>5. QED
  BY <1>2, <1>3, <1>4

LEMMA ResetPasswordStep ==
  ASSUME IInv, NEW row \in page.rows, ResetPassword(row)
  PROVE  Stays
<1>1. PageGood(page) /\ PageHolds
  BY StandingNow, Apart
<1>2. page.kind = "users" /\ row.id \in Accounts
  BY <1>1 DEF ResetPassword, PageGood
<1>3. PICK a : a = Ask("reset", "reset")
  OBVIOUS
<1> DEFINE n == [a EXCEPT !.id = row.id]
<1>4. Blank(a)
  BY <1>3, AskBlank
<1>5. /\ Plain(n, a) /\ n.stage = "sent" /\ n.rows = <<>>
      /\ n.id = row.id /\ n.email = 0 /\ n.name = 0 /\ n.token = 0
  BY <1>4, FieldsAre DEF Plain, Blank
<1>6. Send(page, n)
  BY <1>3, <1>2 DEF ResetPassword
<1> HIDE DEF n
<1>7. QED
  BY <1>3, <1>5, <1>6, <1>1, <1>2, Bounds, SentStep DEF Limited, OfAccount, RosterParts, Joining

LEMMA RenameClassStep ==
  ASSUME IInv, NEW row \in page.rows, RenameClass(row)
  PROVE  Stays
<1>1. PageGood(page) /\ PageHolds
  BY StandingNow, Apart
<1>2. page.kind = "classes"
  BY DEF RenameClass
<1>3. PICK m \in Classes : Send(page, [Ask("updateClass", "action") EXCEPT !.class = row.id, !.name = m])
  BY DEF RenameClass
<1>4. PICK a : a = Ask("updateClass", "action")
  OBVIOUS
<1> DEFINE n == [a EXCEPT !.class = row.id, !.name = m]
<1>5. Blank(a)
  BY <1>4, AskBlank
<1>6. /\ Plain(n, a) /\ n.stage = "sent" /\ n.rows = <<>>
      /\ n.id = 0 /\ n.email = 0 /\ n.name = m /\ n.token = 0
  BY <1>5, FieldsAre DEF Plain, Blank
<1>7. Send(page, n)
  BY <1>4, <1>3
<1> HIDE DEF n
<1>8. QED
  BY <1>4, <1>6, <1>7, <1>1, <1>2, Bounds, SentStep DEF Limited, OfAccount, RosterParts, Joining

\* A change of the roster is sent.
LEMMA ChangeStep ==
  ASSUME IInv, NEW kind \in {"add", "remove", "deleteStudent"}, NEW x \in Accounts, Change(kind, x)
  PROVE  Stays
<1>1. PageGood(page) /\ DOMAIN page = DOMAIN InitialPage("users")
  BY StandingNow DEF PageGood
<1> DEFINE crossed == page.crossed \/ Waiting(RosterParts)
           p == [page EXCEPT !.pending = x, !.error = FALSE, !.crossed = crossed]
<1>2. PICK a : a = Ask(kind, "change")
  OBVIOUS
<1> DEFINE n == [a EXCEPT !.class = 1, !.id = x]
<1>3. Send(p, n)
  BY <1>2 DEF Change
<1> HIDE DEF crossed
<1>4. DOMAIN p = DOMAIN page /\ p.kind = page.kind /\ p.rows = page.rows /\ p.cookie = page.cookie
      /\ p.pending = x
  BY <1>1, PageFieldsAre
<1> HIDE DEF p
<1>5. PageGood(p)
  BY <1>1, <1>4, Bounds DEF PageGood
<1>6. Blank(a)
  BY <1>2, AskBlank
<1>7. /\ Plain(n, a) /\ n.stage = "sent" /\ n.rows = <<>>
      /\ n.id = x /\ n.class = 1 /\ n.email = 0 /\ n.name = 0 /\ n.token = 0
  BY <1>6, FieldsAre DEF Plain, Blank
<1> HIDE DEF n
<1>8. QED
  BY <1>2, <1>3, <1>5, <1>7, Bounds, SentStep DEF Limited, OfAccount, RosterParts, Joining

LEMMA RosterSteps ==
  ASSUME IInv,
         \/ \E x \in Accounts : AddStudent(x)
         \/ \E row \in page.rows : RemoveStudent(row) \/ DeleteStudent(row) \/ EditStudent(row)
  PROVE  Stays
<1>1. PageGood(page) /\ DOMAIN page = DOMAIN InitialPage("users")
  BY StandingNow DEF PageGood
<1>2. CASE \E x \in Accounts : AddStudent(x)
  BY <1>2, ChangeStep DEF AddStudent
<1>3. CASE \E row \in page.rows : RemoveStudent(row) \/ DeleteStudent(row) \/ EditStudent(row)
  <2>1. PICK row \in page.rows : RemoveStudent(row) \/ DeleteStudent(row) \/ EditStudent(row)
    BY <1>3
  <2>2. page.kind = "roster" /\ row.id \in Accounts
    BY <1>1, <2>1 DEF RemoveStudent, DeleteStudent, EditStudent, InRoster, PageGood, RosterRows
  <2>3. CASE RemoveStudent(row) \/ DeleteStudent(row)
    BY <2>2, <2>3, ChangeStep DEF RemoveStudent, DeleteStudent
  <2>4. CASE EditStudent(row)
    <3> DEFINE crossed == page.crossed \/ Waiting(RosterParts)
               p == [page EXCEPT !.crossed = crossed]
    <3>1. DOMAIN p = DOMAIN page /\ p.kind = page.kind /\ p.rows = page.rows /\ p.cookie = page.cookie
          /\ p.pending = page.pending
      <4> HIDE DEF crossed
      <4>1. QED
        BY <1>1, PageFieldsAre
    <3>2. PICK a : a = Ask("editStudent", "edit")
      OBVIOUS
    <3> DEFINE n == [a EXCEPT !.id = row.id]
    <3>3. Send(p, n)
      BY <2>4, <3>2 DEF EditStudent
    <3>4. Blank(a)
      BY <3>2, AskBlank
    <3>5. /\ Plain(n, a) /\ n.stage = "sent" /\ n.rows = <<>>
          /\ n.id = row.id /\ n.email = 0 /\ n.name = 0 /\ n.token = 0
      BY <3>4, FieldsAre DEF Plain, Blank
    <3> HIDE DEF n, p
    <3>6. QED
      BY <1>1, <2>2, <3>1, <3>2, <3>3, <3>5, GoodStays, Bounds, SentStep
         DEF Limited, OfAccount, RosterParts, Joining
  <2>5. QED
    BY <2>1, <2>3, <2>4
<1>4. QED
  BY <1>2, <1>3

\* A student to create, or a file to import.
LEMMA JoinSteps ==
  ASSUME IInv,
         \/ \E e \in 1 .. MaxEmails : CreateStudent(e)
         \/ \E file \in Files : ImportStudents(file)
  PROVE  Stays
<1>1. PageGood(page) /\ DOMAIN page = DOMAIN InitialPage("users")
  BY StandingNow DEF PageGood
<1> DEFINE crossed == page.crossed \/ Waiting(RosterParts)
<1>2. CASE \E e \in 1 .. MaxEmails : CreateStudent(e)
  <2>1. PICK e \in 1 .. MaxEmails : CreateStudent(e)
    BY <1>2
  <2>2. PICK a : a = Ask("createStudent", "create")
    OBVIOUS
  <2> DEFINE n == [a EXCEPT !.stage = "class", !.class = 1, !.email = e]
             p == [page EXCEPT !.crossed = crossed]
  <2>3. Send(p, n)
    BY <2>1, <2>2 DEF CreateStudent
  <2> HIDE DEF crossed
  <2>4. DOMAIN p = DOMAIN page /\ p.kind = page.kind /\ p.rows = page.rows /\ p.cookie = page.cookie
        /\ p.pending = page.pending
    BY <1>1, PageFieldsAre
  <2>5. Blank(a) /\ a.kind = "createStudent" /\ a.part = "create" /\ a.outcome = <<>> /\ a.made = <<>>
        /\ a.count = 0 /\ a.shown = {}
    BY <2>2, AskBlank, AskFields
  <2>6. /\ Plain(n, a) /\ n.stage = "class" /\ n.rows = <<>>
        /\ n.class = 1 /\ n.id = 0 /\ n.email = e /\ n.name = 0 /\ n.token = 0
    BY <2>5, FieldsAre DEF Plain, Blank
  <2> HIDE DEF n, p
  <2>7. OfPage(n, page.kind)
    BY <2>5, <2>6 DEF OfPage, Plain, Joining
  <2>8. Sound(n, tokens, account, enrolled, removed, strayed, page.kind)
    BY <2>5, <2>6, <2>7, Bounds, NewSound, EmptySeq DEF Plain, Limited, OfAccount
  <2>9. QED
    BY <1>1, <2>3, <2>4, <2>8, GoodStays, SendStep
<1>3. CASE \E file \in Files : ImportStudents(file)
  <2>1. PICK file \in Files : ImportStudents(file)
    BY <1>3
  <2>2. PICK a : a = Ask("import", "import")
    OBVIOUS
  <2> DEFINE n == [a EXCEPT !.class = 1, !.rows = file]
             p == [page EXCEPT !.report = <<>>, !.crossed = crossed]
  <2>3. Send(p, n)
    BY <2>1, <2>2 DEF ImportStudents
  <2> HIDE DEF crossed
  <2>4. DOMAIN p = DOMAIN page /\ p.kind = page.kind /\ p.rows = page.rows /\ p.cookie = page.cookie
        /\ p.pending = page.pending
    BY <1>1, PageFieldsAre
  <2>5. Blank(a) /\ a.kind = "import" /\ a.part = "import" /\ a.outcome = <<>> /\ a.made = <<>>
        /\ a.count = 0 /\ a.shown = {}
    BY <2>2, AskBlank, AskFields
  <2>6. /\ Plain(n, a) /\ n.stage = "sent" /\ n.rows = file
        /\ n.class = 1 /\ n.id = 0 /\ n.email = 0 /\ n.name = 0 /\ n.token = 0
    BY <2>5, FieldsAre DEF Plain, Blank
  <2> HIDE DEF n, p
  <2>7. OfPage(n, page.kind)
    BY <2>5, <2>6 DEF OfPage, Plain, Joining
  <2>8. Sound(n, tokens, account, enrolled, removed, strayed, page.kind)
    BY <2>5, <2>6, <2>7, Bounds, NewSound, PagesAssumption DEF Plain, Limited, OfAccount
  <2>9. QED
    BY <1>1, <2>3, <2>4, <2>8, GoodStays, SendStep
<1>4. QED
  BY <1>2, <1>3

LEMMA SearchStudentsStep ==
  ASSUME IInv, SearchStudents
  PROVE  Stays
<1> DEFINE s == ~page.search
           p == [page EXCEPT !.search = s]
<1>1. PageGood(page) /\ DOMAIN page = DOMAIN InitialPage("users")
  BY StandingNow DEF PageGood
<1>2. Show(p)
  BY DEF SearchStudents
<1> HIDE DEF s
<1>3. DOMAIN p = DOMAIN page /\ p.kind = page.kind /\ p.rows = page.rows /\ p.cookie = page.cookie
      /\ p.pending = page.pending
  BY <1>1, PageFieldsAre
<1> HIDE DEF p
<1>4. QED
  BY <1>1, <1>2, <1>3, GoodStays, ShowStep

LEMMA SearchDebouncedStep ==
  ASSUME IInv, SearchDebounced
  PROVE  Stays
<1> DEFINE p == [page EXCEPT !.query.search = page.search]
<1>1. PageGood(page) /\ DOMAIN page = DOMAIN InitialPage("users") /\ Standing(requests)
  BY StandingNow DEF PageGood
<1>2. DOMAIN p = DOMAIN page /\ p.kind = page.kind /\ p.rows = page.rows /\ p.cookie = page.cookie
      /\ p.pending = page.pending
  BY <1>1, PageFieldsAre
<1>3. (InList /\ Load(p, requests)) \/ Rerun(p, requests, AskAvailable(p))
  BY DEF SearchDebounced
<1> HIDE DEF p
<1>4. PageGood(p)
  BY <1>1, <1>2, GoodStays
<1>5. QED
  BY <1>1, <1>3, <1>4, LoadStep, RerunStep, Bounds, AskAvailableSound

LEMMA OpenPageStep ==
  ASSUME IInv, OpenPage
  PROVE  Stays
<1>1. PageGood(page) /\ PageHolds
  BY StandingNow, Apart
<1>2. DOMAIN page = DOMAIN InitialPage("users")
  BY <1>1 DEF PageGood
<1>3. CASE page.cookie = 0
  <2> DEFINE p == [page EXCEPT !.form = TRUE]
  <2>1. Show(p)
    BY <1>3 DEF OpenPage
  <2>2. DOMAIN p = DOMAIN page /\ p.kind = page.kind /\ p.rows = page.rows /\ p.cookie = page.cookie
        /\ p.pending = page.pending
    BY <1>2, PageFieldsAre
  <2>3. QED
    BY <1>1, <2>1, <2>2, GoodStays, ShowStep
<1>4. CASE page.cookie # 0
  <2>1. PICK a : a = Ask("visit", "visit")
    OBVIOUS
  <2> DEFINE n == [a EXCEPT !.token = page.cookie]
  <2>2. Blank(a)
    BY <2>1, AskBlank
  <2>3. /\ Plain(n, a) /\ n.stage = "sent" /\ n.rows = <<>>
        /\ n.id = 0 /\ n.email = 0 /\ n.name = 0 /\ n.token = page.cookie
    BY <2>2, FieldsAre DEF Plain, Blank
  <2>4. Send(page, n)
    BY <2>1, <1>4 DEF OpenPage
  <2> HIDE DEF n
  <2>5. QED
    BY <2>1, <2>3, <2>4, <1>1, <1>4, Bounds, SentStep DEF Limited, OfAccount, RosterParts, Joining
<1>5. QED
  BY <1>3, <1>4

LEMMA SubmitLoginStep ==
  ASSUME IInv, NEW e \in 1 .. MaxEmails, NEW fresh, SubmitLogin(e, fresh)
  PROVE  Stays
<1>1. PageGood(page) /\ PageHolds
  BY StandingNow, Apart
<1>2. PICK a : a = Ask("login", "sign")
  OBVIOUS
<1> DEFINE n == [a EXCEPT !.email = e, !.fresh = fresh]
<1>3. Blank(a)
  BY <1>2, AskBlank
<1>4. /\ Plain(n, a) /\ n.stage = "sent" /\ n.rows = <<>>
      /\ n.id = 0 /\ n.email = e /\ n.name = 0 /\ n.token = 0
  BY <1>3, FieldsAre DEF Plain, Blank
<1>5. Send(page, n)
  BY <1>2, <1>1 DEF SubmitLogin
<1> HIDE DEF n
<1>6. QED
  BY <1>2, <1>4, <1>5, <1>1, Bounds, SentStep DEF Limited, OfAccount, RosterParts, Joining

LEMMA SubmitRegisterStep ==
  ASSUME IInv, NEW e \in 1 .. MaxEmails, SubmitRegister(e)
  PROVE  Stays
<1>1. PageGood(page) /\ PageHolds
  BY StandingNow, Apart
<1>2. PICK a : a = Ask("register", "sign")
  OBVIOUS
<1> DEFINE n == [a EXCEPT !.email = e]
<1>3. Blank(a)
  BY <1>2, AskBlank
<1>4. /\ Plain(n, a) /\ n.stage = "sent" /\ n.rows = <<>>
      /\ n.id = 0 /\ n.email = e /\ n.name = 0 /\ n.token = 0
  BY <1>3, FieldsAre DEF Plain, Blank
<1>5. Send(page, n)
  BY <1>2, <1>1 DEF SubmitRegister
<1> HIDE DEF n
<1>6. QED
  BY <1>2, <1>4, <1>5, <1>1, Bounds, SentStep DEF Limited, OfAccount, RosterParts, Joining

LEMMA HandleLogoutStep ==
  ASSUME IInv, HandleLogout
  PROVE  Stays
<1>1. PageGood(page) /\ PageHolds
  BY StandingNow, Apart
<1>2. PICK a : a = Ask("logout", "logout")
  OBVIOUS
<1> DEFINE n == [a EXCEPT !.token = page.cookie]
<1>3. Blank(a)
  BY <1>2, AskBlank
<1>4. /\ Plain(n, a) /\ n.stage = "sent" /\ n.rows = <<>>
      /\ n.id = 0 /\ n.email = 0 /\ n.name = 0 /\ n.token = page.cookie
  BY <1>3, FieldsAre DEF Plain, Blank
<1>5. Send(page, n)
  BY <1>2, <1>1 DEF HandleLogout
<1> HIDE DEF n
<1>6. QED
  BY <1>2, <1>4, <1>5, <1>1, Bounds, SentStep DEF Limited, OfAccount, RosterParts, Joining

LEMMA ActsSteps ==
  ASSUME IInv, Acts
  PROVE  Stays
<1>1. CASE \/ HandleSearchChange \/ TurnPage \/ Create
           \/ \E role \in {"all", "teacher", "student"} : HandleRoleChange(role)
  BY <1>1, QuerySteps, CreateStep
<1>2. CASE \E row \in page.rows : ToggleStatus(row) \/ HandleDelete(row) \/ ResetPassword(row)
                                   \/ RenameClass(row)
  BY <1>2, ToggleStatusStep, HandleDeleteStep, ResetPasswordStep, RenameClassStep
<1>3. CASE \/ \E x \in Accounts : AddStudent(x)
           \/ \E row \in page.rows : RemoveStudent(row) \/ DeleteStudent(row) \/ EditStudent(row)
  BY <1>3, RosterSteps
<1>4. CASE \E e \in 1 .. MaxEmails : CreateStudent(e) \/ SubmitRegister(e)
                                        \/ \E fresh \in BOOLEAN : SubmitLogin(e, fresh)
  BY <1>4, JoinSteps, SubmitRegisterStep, SubmitLoginStep
<1>5. CASE (\E file \in Files : ImportStudents(file)) \/ SearchStudents \/ OpenPage \/ HandleLogout
  BY <1>5, JoinSteps, SearchStudentsStep, OpenPageStep, HandleLogoutStep
<1>6. QED
  BY <1>1, <1>2, <1>3, <1>4, <1>5 DEF Acts

-----------------------------------------------------------------------------
(* The answers, and what others do.                                        *)

\* What the page keeps of an answer has the rows of the page.
LEMMA AnswerRows ==
  ASSUME IInv, NEW i \in Slots
  PROVE  /\ requests[i].part = "list" /\ page.kind = "users" =>
              \A x \in requests[i].shown : x.id \in Accounts
         /\ page.kind = "roster" /\ requests[i].part \in RosterParts =>
              RowsAfter(requests[i]) \subseteq RosterRows
<1>1. PICK r : r = requests[i]
  OBVIOUS
<1>2. Sound(r, tokens, account, enrolled, removed, strayed, page.kind)
  BY <1>1, SlotFacts
<1>3. r.part = "list" /\ page.kind = "users" => \A x \in r.shown : x.id \in Accounts
  BY <1>2 DEF Sound, OfPage, OfKind
<1>4. ASSUME page.kind = "roster", r.part \in RosterParts
      PROVE  RowsAfter(r) \subseteq RosterRows
  <2>1. r.kind \in Joining \union {"remove", "deleteStudent", "editStudent"}
    BY <1>2, <1>4 DEF Sound, OfPage
  <2>2. page.rows \subseteq RosterRows
    BY <1>4 DEF IInv, PageOK
  <2>3. CASE r.kind \in Joining
    <3>1. r.shown \subseteq RosterRows
      BY <1>2, <2>3 DEF Sound, OfKind
    <3>2. RowsAfter(r) = r.shown
      BY <2>3 DEF RowsAfter, Joining
    <3>3. QED
      BY <3>1, <3>2
  <2>4. CASE r.kind \in {"remove", "deleteStudent"}
    <3>1. RowsAfter(r) \subseteq page.rows
      BY <2>4 DEF RowsAfter
    <3>2. QED
      BY <2>2, <3>1
  <2>5. CASE r.kind = "editStudent"
    <3>1. RowsAfter(r) = {[row EXCEPT !.renamed = @ \/ row.id = r.id] : row \in page.rows}
      BY <2>5 DEF RowsAfter
    <3>2. \A row \in RosterRows : \A b \in BOOLEAN : [row EXCEPT !.renamed = b] \in RosterRows
      BY DEF RosterRows
    <3>3. \A row \in RosterRows : (row.renamed \/ row.id = r.id) \in BOOLEAN
      BY DEF RosterRows
    <3>4. QED
      BY <2>2, <3>1, <3>2, <3>3
  <2>6. QED
    BY <2>1, <2>3, <2>4, <2>5
<1>5. QED
  BY <1>1, <1>3, <1>4

LEMMA AnsweredSteps ==
  ASSUME IInv, NEW i \in Slots, LoadAnswered(i) \/ ActionAnswered(i) \/ AvailableAnswered(i)
  PROVE  Stays
<1>1. PageGood(page) /\ DOMAIN page = DOMAIN InitialPage("users") /\ Standing(Without(i))
  BY StandingNow, WithoutStanding DEF PageGood, LoadAnswered, ActionAnswered, AvailableAnswered, Heard
<1>2. PICK p : p = page
  OBVIOUS
<1>3. CASE LoadAnswered(i)
  <2>1. CASE Well(i)
    <3> DEFINE q == [p EXCEPT !.rows = requests[i].shown, !.total = requests[i].total, !.loading = FALSE]
    <3>1. Shows(q, Without(i)) /\ requests[i].part = "list"
      BY <1>2, <1>3, <2>1 DEF LoadAnswered, Heard
    <3>2. DOMAIN q = DOMAIN p /\ q.kind = p.kind /\ q.rows = requests[i].shown /\ q.cookie = p.cookie
          /\ q.pending = p.pending
      BY <1>1, <1>2, PageFieldsAre
    <3> HIDE DEF q
    <3>3. q.kind \in {"users", "classes"}
      BY <1>2, <3>1, <3>2, SlotFacts DEF Sound, OfPage
    <3>4. PageGood(q)
      BY <1>1, <1>2, <3>1, <3>2, <3>3, AnswerRows DEF PageGood
    <3>5. QED
      BY <1>1, <3>1, <3>4, ShowsSteps
  <2>2. CASE ~Well(i)
    <3> DEFINE q == [p EXCEPT !.loading = FALSE, !.error = TRUE]
    <3>1. Shows(q, Without(i))
      BY <1>2, <1>3, <2>2 DEF LoadAnswered
    <3>2. DOMAIN q = DOMAIN p /\ q.kind = p.kind /\ q.rows = p.rows /\ q.cookie = p.cookie
          /\ q.pending = p.pending
      BY <1>1, <1>2, PageFieldsAre
    <3>3. QED
      BY <1>1, <1>2, <3>1, <3>2, GoodStays, ShowsSteps
  <2>3. QED
    BY <2>1, <2>2
<1>4. CASE ActionAnswered(i)
  BY <1>1, <1>4, LoadStep, ShowsSteps DEF ActionAnswered
<1>5. CASE AvailableAnswered(i)
  <2>1. CASE Well(i)
    <3> DEFINE q == [p EXCEPT !.available = requests[i].shown]
    <3>1. Shows(q, Without(i))
      BY <1>2, <1>5, <2>1 DEF AvailableAnswered
    <3>2. DOMAIN q = DOMAIN p /\ q.kind = p.kind /\ q.rows = p.rows /\ q.cookie = p.cookie
          /\ q.pending = p.pending
      BY <1>1, <1>2, PageFieldsAre
    <3>3. QED
      BY <1>1, <1>2, <3>1, <3>2, GoodStays, ShowsSteps
  <2>2. CASE ~Well(i)
    <3> DEFINE q == [p EXCEPT !.unseen = TRUE]
    <3>1. Shows(q, Without(i))
      BY <1>2, <1>5, <2>2 DEF AvailableAnswered
    <3>2. DOMAIN q = DOMAIN p /\ q.kind = p.kind /\ q.rows = p.rows /\ q.cookie = p.cookie
          /\ q.pending = p.pending
      BY <1>1, <1>2, PageFieldsAre
    <3>3. QED
      BY <1>1, <1>2, <3>1, <3>2, GoodStays, ShowsSteps
  <2>3. QED
    BY <2>1, <2>2
<1>6. QED
  BY <1>3, <1>4, <1>5

LEMMA RosterAnsweredStep ==
  ASSUME IInv, NEW i \in Slots, RosterAnswered(i)
  PROVE  Stays
<1>1. PageGood(page) /\ DOMAIN page = DOMAIN InitialPage("users") /\ Standing(Without(i))
      /\ page.kind = "roster" /\ requests[i].part \in RosterParts
  BY StandingNow, WithoutStanding DEF PageGood, RosterAnswered, Heard, InRoster
<1>2. PICK r : r = requests[i]
  OBVIOUS
<1>3. PICK p : p = IF r.part = "change" THEN [page EXCEPT !.pending = 0] ELSE page
  OBVIOUS
<1>4. DOMAIN p = DOMAIN page /\ p.kind = page.kind /\ p.rows = page.rows /\ p.cookie = page.cookie
      /\ p.pending \in {0, page.pending}
  BY <1>1, <1>3, PageFieldsAre
<1>5. 0 \in 0 .. MaxAccounts
  BY Bounds
<1>6. CASE Well(i)
  <2> DEFINE rows == RowsAfter(r)
             q == [p EXCEPT !.rows = rows, !.report = r.outcome]
  <2>1. RosterAs(q, Without(i))
    BY <1>2, <1>3, <1>6 DEF RosterAnswered
  <2> HIDE DEF rows
  <2>2. DOMAIN q = DOMAIN page /\ q.kind = page.kind /\ q.rows = rows /\ q.cookie = page.cookie
        /\ q.pending \in {0, page.pending}
    BY <1>1, <1>4, PageFieldsAre
  <2> HIDE DEF q
  <2>3. rows \subseteq RosterRows
    BY <1>1, <1>2, AnswerRows DEF rows
  <2>4. PageGood(q)
    BY <1>1, <1>5, <2>2, <2>3 DEF PageGood
  <2>5. QED
    BY <1>1, <2>1, <2>4, ShowsSteps, RerunStep, Bounds, AskAvailableSound DEF RosterAs
<1>7. CASE ~Well(i)
  <2> DEFINE failed == r.part = "change"
             q == [p EXCEPT !.error = failed]
  <2>1. Shows(q, Without(i))
    BY <1>2, <1>3, <1>7 DEF RosterAnswered
  <2> HIDE DEF failed
  <2>2. DOMAIN q = DOMAIN page /\ q.kind = page.kind /\ q.rows = page.rows /\ q.cookie = page.cookie
        /\ q.pending \in {0, page.pending}
    BY <1>1, <1>4, PageFieldsAre
  <2> HIDE DEF q
  <2>3. PageGood(q)
    BY <1>1, <1>5, <2>2 DEF PageGood
  <2>4. QED
    BY <1>1, <2>1, <2>3, ShowsSteps
<1>8. QED
  BY <1>6, <1>7

LEMMA BrowserAnsweredStep ==
  ASSUME IInv, NEW i \in Slots, BrowserAnswered(i)
  PROVE  Stays
<1>1. PageGood(page) /\ DOMAIN page = DOMAIN InitialPage("users") /\ Standing(Without(i))
  BY StandingNow, WithoutStanding DEF PageGood, BrowserAnswered, Heard
<1>2. PICK r : r = requests[i]
  OBVIOUS
<1>3. r.token \in 0 .. tokens /\ 0 \in 0 .. tokens
  BY <1>2, SlotFacts, Bounds DEF Sound, Backed
<1>4. PICK q, c : Shows(q, Without(i)) /\
        q \in {[page EXCEPT !.circling = c], [page EXCEPT !.cookie = r.token, !.home = TRUE],
               [page EXCEPT !.home = TRUE], [page EXCEPT !.cookie = 0, !.form = TRUE]}
  <2>1. r.part \in {"sign", "visit", "logout"}
    BY <1>2 DEF BrowserAnswered, Heard
  <2>2. PICK c : c = (page.circling \/ (r.part = "visit" /\ page.cookie # 0))
    OBVIOUS
  <2>3. QED
    BY <1>2, <2>1, <2>2 DEF BrowserAnswered
<1>5. DOMAIN q = DOMAIN page /\ q.kind = page.kind /\ q.rows = page.rows
      /\ q.cookie \in {page.cookie, r.token, 0} /\ q.pending = page.pending
  BY <1>1, <1>4, PageFieldsAre
<1>6. PageGood(q)
  BY <1>1, <1>3, <1>5 DEF PageGood
<1>7. QED
  BY <1>1, <1>4, <1>6, ShowsSteps

LEMMA LoseAnswerStep ==
  ASSUME IInv, NEW i \in Slots, LoseAnswer(i)
  PROVE  Stays
<1>1. PageGood(page) /\ DOMAIN page = DOMAIN InitialPage("users") /\ Standing(Without(i))
  BY StandingNow, WithoutStanding DEF PageGood, LoseAnswer
<1>2. page' \in {[page EXCEPT !.loading = FALSE, !.error = TRUE], [page EXCEPT !.unseen = TRUE],
                 [page EXCEPT !.pending = 0, !.missed = TRUE, !.unseen = TRUE],
                 [page EXCEPT !.missed = TRUE, !.unseen = TRUE]}
      /\ requests' = Without(i) /\ UNCHANGED serverVars
  BY DEF LoseAnswer
<1>3. DOMAIN page' = DOMAIN page /\ page'.kind = page.kind /\ page'.rows = page.rows
      /\ page'.cookie = page.cookie /\ page'.pending \in {page.pending, 0}
  BY <1>1, <1>2, PageFieldsAre
<1>4. PageGood(page')
  BY <1>1, <1>3, Bounds DEF PageGood
<1>5. QED
  BY <1>1, <1>2, <1>4, PageStep

\* What other browsers ask.
LEMMA AsksSound ==
  ASSUME IInv, NEW n \in Asks(page.kind)
  PROVE  Sound(n, tokens, account, enrolled, removed, strayed, page.kind)
<1>1. /\ 1 \in Accounts /\ Accounts = 1 .. MaxAccounts /\ 0 \in 0 .. MaxAccounts
      /\ Accounts \subseteq 0 .. MaxAccounts /\ 0 \in 0 .. MaxEmails /\ 1 \in 0 .. MaxEmails
      /\ MaxEmails \in 0 .. MaxEmails /\ 0 \in 0 .. MaxClasses /\ 1 \in 0 .. MaxClasses
      /\ 1 \in Classes /\ 0 \in 0 .. tokens
  BY Bounds, DirectoryAssumption, PagesAssumption DEF Accounts
<1>2. ASSUME NEW kind, NEW a, a = Ask(kind, "none"), Plain(n, a), n.stage = "sent", n.rows = <<>>,
             n.token = 0, n.name \in {0, 1}, n.email \in {0, 1, MaxEmails}, n.id \in Accounts \union {0},
             kind \in {"createUser", "update", "deleteUser", "createClass", "deleteClass",
                       "remove", "updateClass", "add", "login", "register", "reset"},
             kind = "createUser" => n.value = "student",
             kind = "update" => n.value = "disabled",
             kind \in {"update", "deleteUser", "add", "reset"} => n.id \in Accounts,
             kind = "add" => n.class = 1
      PROVE  Sound(n, tokens, account, enrolled, removed, strayed, page.kind)
  <2>1. n.id \in 0 .. MaxAccounts /\ n.email \in 0 .. MaxEmails /\ n.name \in 0 .. MaxClasses
        /\ n.token \in 0 .. tokens
    BY <1>1, <1>2
  <2>2. /\ kind = "createUser" => n.value \in {"teacher", "student"}
        /\ kind = "update" => n.value \in {"active", "disabled"}
        /\ kind \in OfAccount \union {"add"} => n.id \in Accounts
        /\ kind = "add" => n.class \in Classes
    BY <1>1, <1>2 DEF OfAccount
  <2>3. "none" \notin RosterParts /\ kind \notin {"createStudent", "import", "visit"}
    BY <1>2 DEF RosterParts
  <2>4. QED
    BY <1>2, <2>1, <2>2, <2>3, SentSound
<1>3. CASE page.kind = "users"
  <2>1. \/ n = [Ask("createUser", "none") EXCEPT !.email = MaxEmails, !.value = "student"]
        \/ n = [Ask("update", "none") EXCEPT !.id = 1, !.value = "disabled"]
        \/ n = [Ask("deleteUser", "none") EXCEPT !.id = 1]
    BY <1>3 DEF Asks
  <2>2. CASE n = [Ask("createUser", "none") EXCEPT !.email = MaxEmails, !.value = "student"]
    <3>1. PICK a : a = Ask("createUser", "none")
      OBVIOUS
    <3>2. Blank(a)
      BY <3>1, AskBlank
    <3>3. /\ Plain(n, a) /\ n.stage = "sent" /\ n.rows = <<>>
          /\ n.id = 0 /\ n.email = MaxEmails /\ n.name = 0 /\ n.token = 0 /\ n.value = "student"
      BY <2>2, <3>1, <3>2, FieldsAre DEF Plain, Blank
    <3>4. QED
      BY <1>1, <1>2, <3>1, <3>3
  <2>3. CASE n = [Ask("update", "none") EXCEPT !.id = 1, !.value = "disabled"]
    <3>1. PICK a : a = Ask("update", "none")
      OBVIOUS
    <3>2. Blank(a)
      BY <3>1, AskBlank
    <3>3. /\ Plain(n, a) /\ n.stage = "sent" /\ n.rows = <<>>
          /\ n.id = 1 /\ n.email = 0 /\ n.name = 0 /\ n.token = 0 /\ n.value = "disabled"
      BY <2>3, <3>1, <3>2, FieldsAre DEF Plain, Blank
    <3>4. QED
      BY <1>1, <1>2, <3>1, <3>3
  <2>4. CASE n = [Ask("deleteUser", "none") EXCEPT !.id = 1]
    <3>1. PICK a : a = Ask("deleteUser", "none")
      OBVIOUS
    <3>2. Blank(a)
      BY <3>1, AskBlank
    <3>3. /\ Plain(n, a) /\ n.stage = "sent" /\ n.rows = <<>>
          /\ n.id = 1 /\ n.email = 0 /\ n.name = 0 /\ n.token = 0
      BY <2>4, <3>1, <3>2, FieldsAre DEF Plain, Blank
    <3>4. QED
      BY <1>1, <1>2, <3>1, <3>3
  <2>5. QED
    BY <2>1, <2>2, <2>3, <2>4
<1>4. CASE page.kind = "classes"
  <2>1. \/ n = [Ask("createClass", "none") EXCEPT !.name = 1]
        \/ n = [Ask("deleteClass", "none") EXCEPT !.class = 1]
        \/ n = [Ask("remove", "none") EXCEPT !.class = 1, !.id = 1]
    BY <1>4 DEF Asks
  <2>2. CASE n = [Ask("createClass", "none") EXCEPT !.name = 1]
    <3>1. PICK a : a = Ask("createClass", "none")
      OBVIOUS
    <3>2. Blank(a)
      BY <3>1, AskBlank
    <3>3. /\ Plain(n, a) /\ n.stage = "sent" /\ n.rows = <<>>
          /\ n.id = 0 /\ n.email = 0 /\ n.name = 1 /\ n.token = 0
      BY <2>2, <3>1, <3>2, FieldsAre DEF Plain, Blank
    <3>4. QED
      BY <1>1, <1>2, <3>1, <3>3
  <2>3. CASE n = [Ask("deleteClass", "none") EXCEPT !.class = 1]
    <3>1. PICK a : a = Ask("deleteClass", "none")
      OBVIOUS
    <3>2. Blank(a)
      BY <3>1, AskBlank
    <3>3. /\ Plain(n, a) /\ n.stage = "sent" /\ n.rows = <<>>
          /\ n.id = 0 /\ n.email = 0 /\ n.name = 0 /\ n.token = 0
      BY <2>3, <3>1, <3>2, FieldsAre DEF Plain, Blank
    <3>4. QED
      BY <1>1, <1>2, <3>1, <3>3
  <2>4. CASE n = [Ask("remove", "none") EXCEPT !.class = 1, !.id = 1]
    <3>1. PICK a : a = Ask("remove", "none")
      OBVIOUS
    <3>2. Blank(a)
      BY <3>1, AskBlank
    <3>3. /\ Plain(n, a) /\ n.stage = "sent" /\ n.rows = <<>>
          /\ n.id = 1 /\ n.email = 0 /\ n.name = 0 /\ n.token = 0
      BY <2>4, <3>1, <3>2, FieldsAre DEF Plain, Blank
    <3>4. QED
      BY <1>1, <1>2, <3>1, <3>3
  <2>5. QED
    BY <2>1, <2>2, <2>3, <2>4
<1>5. CASE page.kind = "roster"
  <2>1. \/ n = [Ask("createUser", "none") EXCEPT !.email = MaxEmails, !.value = "student"]
        \/ n = [Ask("updateClass", "none") EXCEPT !.class = 1, !.name = 1, !.value = "other"]
        \/ n = [Ask("deleteClass", "none") EXCEPT !.class = 1]
        \/ \E k \in {"add", "remove"} : \E x \in 1 .. MaxAccounts :
             n = [Ask(k, "none") EXCEPT !.class = 1, !.id = x]
    <3> DEFINE Some(k, x) == [Ask(k, "none") EXCEPT !.class = 1, !.id = x]
    <3>1. RosterAsks = {Some(k, x) : k \in {"add", "remove"}, x \in 1 .. MaxAccounts}
      BY DEF RosterAsks
    <3>2. \/ n = [Ask("createUser", "none") EXCEPT !.email = MaxEmails, !.value = "student"]
          \/ n = [Ask("updateClass", "none") EXCEPT !.class = 1, !.name = 1, !.value = "other"]
          \/ n = [Ask("deleteClass", "none") EXCEPT !.class = 1]
          \/ n \in RosterAsks
      BY <1>5 DEF Asks
    <3> HIDE DEF Some
    <3>3. n \in RosterAsks => \E k \in {"add", "remove"} : \E x \in 1 .. MaxAccounts : n = Some(k, x)
      BY <3>1, SMT
    <3>4. QED
      BY <3>2, <3>3 DEF Some
  <2>2. CASE n = [Ask("createUser", "none") EXCEPT !.email = MaxEmails, !.value = "student"]
    <3>1. PICK a : a = Ask("createUser", "none")
      OBVIOUS
    <3>2. Blank(a)
      BY <3>1, AskBlank
    <3>3. /\ Plain(n, a) /\ n.stage = "sent" /\ n.rows = <<>>
          /\ n.id = 0 /\ n.email = MaxEmails /\ n.name = 0 /\ n.token = 0 /\ n.value = "student"
      BY <2>2, <3>1, <3>2, FieldsAre DEF Plain, Blank
    <3>4. QED
      BY <1>1, <1>2, <3>1, <3>3
  <2>3. CASE n = [Ask("updateClass", "none") EXCEPT !.class = 1, !.name = 1, !.value = "other"]
    <3>1. PICK a : a = Ask("updateClass", "none")
      OBVIOUS
    <3>2. Blank(a)
      BY <3>1, AskBlank
    <3>3. /\ Plain(n, a) /\ n.stage = "sent" /\ n.rows = <<>>
          /\ n.id = 0 /\ n.email = 0 /\ n.name = 1 /\ n.token = 0
      BY <2>3, <3>1, <3>2, FieldsAre DEF Plain, Blank
    <3>4. QED
      BY <1>1, <1>2, <3>1, <3>3
  <2>4. CASE n = [Ask("deleteClass", "none") EXCEPT !.class = 1]
    <3>1. PICK a : a = Ask("deleteClass", "none")
      OBVIOUS
    <3>2. Blank(a)
      BY <3>1, AskBlank
    <3>3. /\ Plain(n, a) /\ n.stage = "sent" /\ n.rows = <<>>
          /\ n.id = 0 /\ n.email = 0 /\ n.name = 0 /\ n.token = 0
      BY <2>4, <3>1, <3>2, FieldsAre DEF Plain, Blank
    <3>4. QED
      BY <1>1, <1>2, <3>1, <3>3
  <2>5. ASSUME NEW k \in {"add", "remove"}, NEW x \in 1 .. MaxAccounts,
               n = [Ask(k, "none") EXCEPT !.class = 1, !.id = x]
        PROVE  Sound(n, tokens, account, enrolled, removed, strayed, page.kind)
    <3>1. PICK a : a = Ask(k, "none")
      OBVIOUS
    <3>2. Blank(a)
      BY <3>1, AskBlank
    <3>3. /\ Plain(n, a) /\ n.stage = "sent" /\ n.rows = <<>>
          /\ n.id = x /\ n.email = 0 /\ n.name = 0 /\ n.token = 0 /\ n.class = 1
      BY <2>5, <3>1, <3>2, FieldsAre DEF Plain, Blank
    <3>4. QED
      BY <1>1, <1>2, <3>1, <3>3
  <2>6. QED
    BY <2>1, <2>2, <2>3, <2>4, <2>5
<1>6. CASE page.kind = "browser"
  <2>1. \/ n = [Ask("login", "none") EXCEPT !.email = 1]
        \/ n = [Ask("register", "none") EXCEPT !.email = MaxEmails]
        \/ n = [Ask("reset", "none") EXCEPT !.id = 1]
        \/ n = [Ask("update", "none") EXCEPT !.id = 1, !.value = "disabled"]
    BY <1>6 DEF Asks
  <2>2. CASE n = [Ask("login", "none") EXCEPT !.email = 1]
    <3>1. PICK a : a = Ask("login", "none")
      OBVIOUS
    <3>2. Blank(a)
      BY <3>1, AskBlank
    <3>3. /\ Plain(n, a) /\ n.stage = "sent" /\ n.rows = <<>>
          /\ n.id = 0 /\ n.email = 1 /\ n.name = 0 /\ n.token = 0
      BY <2>2, <3>1, <3>2, FieldsAre DEF Plain, Blank
    <3>4. QED
      BY <1>1, <1>2, <3>1, <3>3
  <2>3. CASE n = [Ask("register", "none") EXCEPT !.email = MaxEmails]
    <3>1. PICK a : a = Ask("register", "none")
      OBVIOUS
    <3>2. Blank(a)
      BY <3>1, AskBlank
    <3>3. /\ Plain(n, a) /\ n.stage = "sent" /\ n.rows = <<>>
          /\ n.id = 0 /\ n.email = MaxEmails /\ n.name = 0 /\ n.token = 0
      BY <2>3, <3>1, <3>2, FieldsAre DEF Plain, Blank
    <3>4. QED
      BY <1>1, <1>2, <3>1, <3>3
  <2>4. CASE n = [Ask("reset", "none") EXCEPT !.id = 1]
    <3>1. PICK a : a = Ask("reset", "none")
      OBVIOUS
    <3>2. Blank(a)
      BY <3>1, AskBlank
    <3>3. /\ Plain(n, a) /\ n.stage = "sent" /\ n.rows = <<>>
          /\ n.id = 1 /\ n.email = 0 /\ n.name = 0 /\ n.token = 0
      BY <2>4, <3>1, <3>2, FieldsAre DEF Plain, Blank
    <3>4. QED
      BY <1>1, <1>2, <3>1, <3>3
  <2>5. CASE n = [Ask("update", "none") EXCEPT !.id = 1, !.value = "disabled"]
    <3>1. PICK a : a = Ask("update", "none")
      OBVIOUS
    <3>2. Blank(a)
      BY <3>1, AskBlank
    <3>3. /\ Plain(n, a) /\ n.stage = "sent" /\ n.rows = <<>>
          /\ n.id = 1 /\ n.email = 0 /\ n.name = 0 /\ n.token = 0 /\ n.value = "disabled"
      BY <2>5, <3>1, <3>2, FieldsAre DEF Plain, Blank
    <3>4. QED
      BY <1>1, <1>2, <3>1, <3>3
  <2>6. QED
    BY <2>1, <2>2, <2>3, <2>4, <2>5
<1>7. QED
  BY <1>3, <1>4, <1>5, <1>6, Bounds DEF Kinds

LEMMA ElsewhereStep ==
  ASSUME IInv, Elsewhere
  PROVE  Stays
<1>1. PICK n \in Asks(page.kind) : requests' = Put(requests, n)
  BY DEF Elsewhere
<1>2. FreeSlots(requests) # {} /\ UNCHANGED serverVars /\ page' = page
  BY DEF Elsewhere
<1>3. Standing(requests') /\ PageGood(page')
  BY <1>1, <1>2, StandingNow, PutStanding, AsksSound
<1>4. QED
  BY <1>2, <1>3, PageStep

LEMMA ExpirySteps ==
  ASSUME IInv, Expiry
  PROVE  Stays
<1>1. page' = page /\ UNCHANGED <<tables, tokens, requests, history>>
  BY DEF Expiry, WindowEnds, SessionExpires
<1>2. RequestsSound' /\ PageHolds' /\ Stored /\ CountersHold
  BY <1>1, Apart DEF RequestsSound, PageHolds, PageOK, tables, history
<1>3. CASE \E k \in Counters : WindowEnds(k)
  <2>1. PICK k \in Counters : counter' = [counter EXCEPT ![k] = NoCounter] /\ UNCHANGED session
    BY <1>3 DEF WindowEnds
  <2>2. Stored'
    BY <1>1, <2>1, StoredKept DEF history
  <2>3. /\ counter' \in [Counters -> [count : Nat, ends : BOOLEAN]] /\ counter'[k].count = 0
        /\ \A l \in Counters \ {k} : counter'[l] = counter[l]
    BY <1>2, <2>1 DEF CountersHold, NoCounter
  <2>4. CountersHold'
    <3>1. ASSUME NEW l \in Counters, counter'[l].count > 0, ~counter'[l].ends, l \notin stuck'
          PROVE  \E j \in Slots : At(j, {"login", "register", "import"}, "counted")'
                                    /\ requests'[j].value = l /\ requests'[j].count = 1
      <4>1. l # k
        BY <2>3, <3>1
      <4>2. counter[l].count > 0 /\ ~counter[l].ends /\ l \notin stuck
        BY <1>1, <2>3, <3>1, <4>1 DEF history
      <4>3. QED
        BY <1>1, <1>2, <4>2 DEF CountersHold, LimitHasEnd, At
    <3>2. QED
      BY <2>3, <3>1 DEF CountersHold, LimitHasEnd
  <2>5. QED
    BY <1>1, <1>2, <2>2, <2>4, Together DEF Stays
<1>4. CASE \E t \in Tokens : SessionExpires(t)
  <2>1. PICK t \in Tokens : session' = [session EXCEPT ![t] = 0] /\ UNCHANGED counter
    BY <1>4 DEF SessionExpires
  <2>2. Stored'
    <3>1. session' \in [Tokens -> 0 .. MaxAccounts]
      BY <1>2, <2>1, Bounds DEF Stored
    <3>2. \A u \in Tokens : session[u] = 0 => session'[u] = 0
      BY <1>2, <2>1 DEF Stored
    <3>3. ended \subseteq Tokens
      BY <1>2, DirectoryAssumption DEF Stored, Tokens
    <3>4. LoggedOutStaysOut'
      BY <1>1, <1>2, <3>2, <3>3 DEF Stored, LoggedOutStaysOut, history
    <3>5. QED
      BY <1>1, <1>2, <3>1, <3>4 DEF Stored, EmailUnique, tables, history
  <2>3. CountersHold'
    BY <1>1, <1>2, <2>1 DEF CountersHold, LimitHasEnd, At, history
  <2>4. QED
    BY <1>1, <1>2, <2>2, <2>3, Together DEF Stays
<1>5. QED
  BY <1>3, <1>4 DEF Expiry

-----------------------------------------------------------------------------
(* The initial states.                                                     *)

\* A page as it is first shown: nothing is known yet, nothing went wrong.
Bare(p, kind, t) ==
  /\ DOMAIN p = DOMAIN InitialPage("users") /\ p.kind = kind /\ p.rows = {} /\ p.cookie = t /\ p.pending = 0
  /\ p.query = NoQuery /\ p.available = {} /\ ~p.missed /\ ~p.unseen /\ ~p.crossed

NoneYet == [i \in Slots |-> NoRequest]

LEMMA FirstPage ==
  ASSUME Init
  PROVE  \E kind, t, p :
           /\ kind \in Kinds /\ t \in {0, 1}
           /\ session = [u \in Tokens |-> IF u = t THEN 1 ELSE 0] /\ tokens = t /\ (t = 1 => MaxTokens > 0)
           /\ Bare(p, kind, t)
           /\ kind = "browser" => page = p /\ requests = NoneYet
           /\ kind = "roster" => /\ page = [p EXCEPT !.rows = {RosterRow(1)}]
                                 /\ requests = Put(NoneYet, AskAvailable(p))
           /\ kind \in {"users", "classes"} => /\ page = [p EXCEPT !.loading = TRUE]
                                               /\ requests = Put(NoneYet, AskList(p))
<1> DEFINE First(kind, t) == [InitialPage(kind) EXCEPT !.cookie = t, !.home = t = 1, !.form = t = 0]
<1>1. PICK kind \in Kinds : \E t \in IF kind = "browser" /\ MaxTokens > 0 THEN {0, 1} ELSE {0} :
        /\ session = [u \in Tokens |-> IF u = t THEN 1 ELSE 0] /\ tokens = t
        /\ CASE kind = "browser" -> page = First(kind, t) /\ requests = NoneYet
             [] kind = "roster" -> /\ page = [First(kind, t) EXCEPT !.rows = {RosterRow(1)}]
                                   /\ requests = Put(NoneYet, AskAvailable(First(kind, t)))
             [] OTHER -> /\ page = [First(kind, t) EXCEPT !.loading = TRUE]
                         /\ requests = Put(NoneYet, AskList(First(kind, t)))
  BY Zenon DEF Init, NoneYet
<1>2. PICK t \in IF kind = "browser" /\ MaxTokens > 0 THEN {0, 1} ELSE {0} :
        /\ session = [u \in Tokens |-> IF u = t THEN 1 ELSE 0] /\ tokens = t
        /\ CASE kind = "browser" -> page = First(kind, t) /\ requests = NoneYet
             [] kind = "roster" -> /\ page = [First(kind, t) EXCEPT !.rows = {RosterRow(1)}]
                                   /\ requests = Put(NoneYet, AskAvailable(First(kind, t)))
             [] OTHER -> /\ page = [First(kind, t) EXCEPT !.loading = TRUE]
                         /\ requests = Put(NoneYet, AskList(First(kind, t)))
  BY <1>1
<1>3. t \in {0, 1} /\ (t = 1 => MaxTokens > 0) /\ tokens \in Nat /\ tokens \in 0 .. MaxTokens
  BY <1>2, DirectoryAssumption
<1>4. PICK p : p = First(kind, t)
  OBVIOUS
<1>5. Bare(p, kind, t)
  <2>1. PICK home, form : p = [InitialPage(kind) EXCEPT !.cookie = t, !.home = home, !.form = form]
    BY <1>4
  <2>2. PICK q : q = InitialPage(kind)
    OBVIOUS
  <2>3. DOMAIN q = DOMAIN InitialPage("users") /\ q.kind = kind /\ q.rows = {} /\ q.pending = 0
        /\ q.query = NoQuery /\ q.available = {} /\ ~q.missed /\ ~q.unseen /\ ~q.crossed
    BY <2>2 DEF InitialPage
  <2>4. p = [q EXCEPT !.cookie = t, !.home = home, !.form = form]
    BY <2>1, <2>2
  <2> HIDE DEF First
  <2>5. QED
    BY <2>3, <2>4, PageFieldsAre DEF Bare
<1>6. /\ kind = "browser" => page = p /\ requests = NoneYet
      /\ kind = "roster" => page = [p EXCEPT !.rows = {RosterRow(1)}] /\ requests = Put(NoneYet, AskAvailable(p))
      /\ kind \in {"users", "classes"} => page = [p EXCEPT !.loading = TRUE] /\ requests = Put(NoneYet, AskList(p))
  <2> HIDE DEF First
  <2>1. QED
    BY <1>2, <1>4
<1> HIDE DEF First
<1>7. QED
  BY <1>2, <1>3, <1>5, <1>6

\* In the beginning the page has asked for its list, or for the students to add.
LEMMA InitSound == Init => IInv
<1> SUFFICES ASSUME Init
             PROVE  IInv
  OBVIOUS
<1> DEFINE none == [i \in Slots |-> NoRequest]
<1>1. PICK kind, t, p :
        /\ kind \in Kinds /\ t \in {0, 1}
        /\ session = [u \in Tokens |-> IF u = t THEN 1 ELSE 0] /\ tokens = t /\ (t = 1 => MaxTokens > 0)
        /\ Bare(p, kind, t)
        /\ kind = "browser" => page = p /\ requests = none
        /\ kind = "roster" => /\ page = [p EXCEPT !.rows = {RosterRow(1)}]
                              /\ requests = Put(none, AskAvailable(p))
        /\ kind \in {"users", "classes"} => /\ page = [p EXCEPT !.loading = TRUE]
                                            /\ requests = Put(none, AskList(p))
  BY FirstPage DEF NoneYet
<1>2. session = [u \in Tokens |-> IF u = t THEN 1 ELSE 0] /\ tokens = t /\ kind \in Kinds
  BY <1>1
<1>3. t \in {0, 1} /\ (t = 1 => MaxTokens > 0) /\ tokens \in Nat /\ tokens \in 0 .. MaxTokens
  BY <1>1, DirectoryAssumption
<1>5. DOMAIN p = DOMAIN InitialPage("users") /\ p.kind = kind /\ p.rows = {} /\ p.cookie = t /\ p.pending = 0
  BY <1>1 DEF Bare
<1>6. /\ kind = "browser" => page = p /\ requests = none
      /\ kind = "roster" => page = [p EXCEPT !.rows = {RosterRow(1)}] /\ requests = Put(none, AskAvailable(p))
      /\ kind \in {"users", "classes"} => page = [p EXCEPT !.loading = TRUE] /\ requests = Put(none, AskList(p))
  BY <1>1
<1>7. account \in [Accounts -> AccountRows]
      /\ \A a \in Accounts : account[a] = IF a <= Existing THEN NewAccount(a, "student") ELSE NoAccount
  <2>1. \A a \in Accounts : a <= Existing => a \in 0 .. MaxEmails
    BY DirectoryAssumption, PagesAssumption DEF Accounts
  <2>2. NoAccount \in AccountRows
    BY Zeros DEF NoAccount, AccountRows
  <2>3. \A a \in Accounts : a <= Existing => NewAccount(a, "student") \in AccountRows
    BY <2>1 DEF NewAccount, NoAccount, AccountRows
  <2>4. QED
    BY <2>2, <2>3 DEF Init
<1>8. \A a \in Accounts : /\ account[a].email = (IF a <= Existing THEN a ELSE 0)
                          /\ account[a].role = (IF a <= Existing THEN "student" ELSE "none")
                          /\ account[a].status = (IF a <= Existing THEN "active" ELSE "none")
                          /\ ~account[a].deleted
  <2>1. \A a : /\ NewAccount(a, "student").email = a /\ NewAccount(a, "student").role = "student"
               /\ NewAccount(a, "student").status = "active" /\ ~NewAccount(a, "student").deleted
    BY DEF NewAccount, NoAccount
  <2>2. /\ NoAccount.email = 0 /\ NoAccount.role = "none" /\ NoAccount.status = "none"
        /\ ~NoAccount.deleted
    BY DEF NoAccount
  <2>3. QED
    BY <1>7, <2>1, <2>2
<1>9. PageOK /\ page.kind = kind /\ page.cookie = t /\ page.pending = 0
  <2>1. RosterRow(1) \in RosterRows
    BY <1>7, Zeros DEF RosterRow, RosterRows, AccountRows
  <2>2. /\ DOMAIN page = DOMAIN p /\ page.kind = kind /\ page.cookie = t /\ page.pending = 0
        /\ page.rows = IF kind = "roster" THEN {RosterRow(1)} ELSE {}
    BY <1>2, <1>5, <1>6, PageFieldsAre DEF Kinds
  <2>3. QED
    BY <1>5, <2>1, <2>2 DEF PageOK
<1>10. \A i \in Slots : Sound(none[i], tokens, account, enrolled, removed, strayed, kind)
  BY <1>3, NoRequestSound
<1>11. RequestsSound
  <2>1. ASSUME NEW r, Sound(r, tokens, account, enrolled, removed, strayed, kind), requests = Put(none, r)
        PROVE  RequestsSound
    <3>1. CASE FreeSlots(none) # {}
      <4>1. PICK i \in FreeSlots(none) : Put(none, r) = [none EXCEPT ![i] = r]
        BY <3>1, PutIsThere
      <4>2. QED
        BY <1>9, <1>10, <2>1, <4>1 DEF RequestsSound
    <3>2. CASE FreeSlots(none) = {}
      <4>1. Slots = {}
        BY <3>2 DEF FreeSlots
      <4>2. DOMAIN requests = Slots
        BY <2>1 DEF Put
      <4>3. QED
        BY <4>1, <4>2 DEF RequestsSound
    <3>3. QED
      BY <3>1, <3>2
  <2>2. CASE kind = "browser"
    BY <1>6, <1>9, <1>10, <2>2 DEF RequestsSound
  <2>3. CASE kind = "roster"
    BY <1>3, <1>6, <1>9, <2>1, <2>3, AskAvailableSound
  <2>4. CASE kind \in {"users", "classes"}
    BY <1>3, <1>5, <1>6, <1>9, <2>1, <2>4, AskListSound
  <2>5. QED
    BY <1>2, <2>2, <2>3, <2>4 DEF Kinds
<1>12. Stored
  <2>1. class \in [Classes -> [owner : {"none", "own", "other"}, deleted : BOOLEAN, name : 0 .. MaxClasses]]
    <3>1. 1 \in 0 .. MaxClasses
      BY Zeros
    <3>2. QED
      BY <3>1, Zeros DEF Init, NoClass
  <2>2. enrolled \in [Classes -> SUBSET Accounts]
        /\ \A c \in Classes : \A a \in enrolled[c] : account[a].role = "student"
    <3>1. 1 \in Accounts /\ 1 <= Existing
      BY Zeros, PagesAssumption, DirectoryAssumption
    <3>2. QED
      BY <1>8, <3>1 DEF Init
  <2>3. session \in [Tokens -> 0 .. MaxAccounts]
    BY <1>2, Zeros
  <2>4. EmailUnique
    BY <1>8 DEF EmailUnique
  <2>5. ended \subseteq 1 .. tokens /\ LoggedOutStaysOut
    BY DEF Init, LoggedOutStaysOut
  <2>6. \A a \in Accounts : /\ account[a].status \in IF account[a].role = "none" THEN {"none"}
                                                   ELSE {"active", "disabled"}
                            /\ account[a].deleted => account[a].role # "none"
    BY <1>8
  <2>7. QED
    BY <1>3, <1>7, <2>1, <2>2, <2>3, <2>4, <2>5, <2>6 DEF Stored
<1>13. CountersHold
  BY DEF Init, CountersHold, LimitHasEnd, NoCounter
<1>14. IInv
  <2>1. TypeOK
    <3>1. \A i \in Slots : requests[i].id \in 0 .. MaxAccounts /\ requests[i].token \in 0 .. tokens
      BY <1>11 DEF RequestsSound, Sound, Form, Backed
    <3>2. page.kind \in Kinds /\ page.cookie \in 0 .. tokens /\ page.pending \in 0 .. MaxAccounts
      BY <1>2, <1>3, <1>9, Zeros
    <3>3. \A a \in Accounts : /\ account[a].email \in 0 .. MaxEmails
                              /\ account[a].role \in {"none", "teacher", "student"}
      BY <1>7 DEF AccountRows
    <3>4. QED
      BY <1>12, <1>13, <3>1, <3>2, <3>3 DEF TypeOK, Stored, CountersHold
  <2>2. QED
    BY <1>9, <1>11, <1>12, <1>13, <2>1
       DEF IInv, TablesTyped, DirectoryInv, Stored, CountersHold
<1>15. QED
  BY <1>14

-----------------------------------------------------------------------------
(* The theorems.                                                           *)

LEMMA NextStays ==
  ASSUME IInv, [Next]_vars
  PROVE  Stays
<1>1. CASE Acts \/ SearchDebounced
  BY <1>1, ActsSteps, SearchDebouncedStep
<1>2. CASE \E i \in Slots : ServeStep(i) \/ FailStep(i) \/ LoseAnswer(i)
  <2>1. PICK i \in Slots : ServeStep(i) \/ FailStep(i) \/ LoseAnswer(i)
    BY <1>2
  <2>2. CASE ServeStep(i)
    BY <2>2, ServeServed, ServeSteps DEF ServeStep
  <2>3. CASE FailStep(i)
    BY <2>3, FailServed, ServeSteps DEF FailStep
  <2>4. QED
    BY <2>1, <2>2, <2>3, LoseAnswerStep
<1>3. CASE \E i \in Slots : \/ LoadAnswered(i) \/ ActionAnswered(i) \/ AvailableAnswered(i)
                            \/ RosterAnswered(i) \/ BrowserAnswered(i)
  BY <1>3, AnsweredSteps, RosterAnsweredStep, BrowserAnsweredStep
<1>4. CASE Elsewhere \/ Expiry
  BY <1>4, ElsewhereStep, ExpirySteps
<1>5. CASE UNCHANGED vars
  <2>1. UNCHANGED serverVars /\ requests' = requests /\ page' = page
    BY <1>5 DEF vars, directoryVars, serverVars
  <2>2. Standing(requests') /\ PageGood(page')
    BY <2>1, StandingNow
  <2>3. QED
    BY <2>1, <2>2, PageStep
<1>6. QED
  BY <1>1, <1>2, <1>3, <1>4, <1>5 DEF Next

LEMMA NextSound == IInv /\ [Next]_vars => IInv'
BY NextStays DEF Stays

LEMMA IInvHolds == Spec => []IInv
BY InitSound, NextSound, PTL DEF Spec

\* The tables, Redis and the page are sound: no address has two accounts,
\* whatever handlers looked for it at a time (the unique index of InsertAccount);
\* a counter that counts has an end, or a request that is about to set it, or
\* one that died just before (CheckRateLimit); and a session that was logged out
\* is not brought back by a request that was reading it (DestroySession,
\* SlideExpiration).
THEOREM DirectorySound == Spec => []AccessInv
<1>1. IInv => AccessInv
  BY DEF IInv, AccessInv
<1>2. QED
  BY <1>1, IInvHolds, PTL

\* The report of an import tells what has happened: a row that went well has its
\* student in the class, and a row that failed has left no account behind but
\* the ones that the model marks as astray, whose handler failed between its
\* statements (AddStudentToClass, RowDone).
THEOREM ReportsAreTrue == Spec => []ImportReportIsTrue
<1>1. IInv => ImportReportIsTrue
  BY DEF IInv, RequestsSound, Sound, Reported, ImportReportIsTrue
<1>2. QED
  BY <1>1, IInvHolds, PTL

-----------------------------------------------------------------------------
(***************************************************************************)
(* What a server step leaves of its request, whatever the page: the part   *)
(* of the page that waits for it, and what it is about.                    *)
(***************************************************************************)

Kept(r, n) ==
  /\ DOMAIN n = Fields /\ n.part = r.part
  /\ (n.kind = r.kind /\ n.class = r.class /\ n.query = r.query) \/ (n.kind = "none" /\ n.part = "none")
Moves(i) ==
  /\ Kept(requests[i], requests'[i]) /\ requests[i].stage \notin {"idle", "answered", "refused"}
  /\ DOMAIN requests' = Slots /\ \A j \in Slots \ {i} : requests'[j] = requests[j]

LEMMA StageKept ==
  ASSUME NEW r, NEW n, Kept(r, n), NEW s
  PROVE  Kept(r, [n EXCEPT !.stage = s])
         /\ Kept(r, IF n.part = "none" THEN NoRequest ELSE [n EXCEPT !.stage = s])
<1> DEFINE m == [n EXCEPT !.stage = s]
<1>1. DOMAIN m = Fields /\ m.part = n.part /\ m.kind = n.kind /\ m.class = n.class /\ m.query = n.query
  BY FieldsAre DEF Kept
<1>2. DOMAIN NoRequest = Fields /\ NoRequest.part = "none" /\ NoRequest.kind = "none"
  BY DEF Fields, NoRequest
<1> HIDE DEF m
<1>3. n.part = "none" => Kept(r, NoRequest)
  BY <1>2 DEF Kept
<1>4. Kept(r, m)
  BY <1>1 DEF Kept
<1>5. QED
  BY <1>3, <1>4 DEF m

LEMMA FieldsKept ==
  ASSUME NEW r, DOMAIN r = Fields, NEW s, NEW v, NEW c
  PROVE  /\ Kept(r, r)
         /\ Kept(r, [r EXCEPT !.stage = s]) /\ Kept(r, [r EXCEPT !.stage = s, !.value = v, !.count = c])
         /\ Kept(r, [r EXCEPT !.stage = s, !.id = v]) /\ Kept(r, [r EXCEPT !.stage = s, !.email = v])
         /\ Kept(r, [r EXCEPT !.stage = s, !.shown = v]) /\ Kept(r, [r EXCEPT !.stage = s, !.total = v])
         /\ Kept(r, [r EXCEPT !.token = v]) /\ Kept(r, [r EXCEPT !.id = v])
         /\ Kept(r, [r EXCEPT !.shown = v]) /\ Kept(r, RowDone(r, s))
<1>1. Kept(r, r)
  BY DEF Kept
<1>2. Kept(r, [r EXCEPT !.stage = s]) /\ Kept(r, [r EXCEPT !.stage = s, !.value = v, !.count = c])
  BY FieldsAre DEF Kept
<1>3. Kept(r, [r EXCEPT !.stage = s, !.id = v]) /\ Kept(r, [r EXCEPT !.stage = s, !.email = v])
  BY FieldsAre DEF Kept
<1>4. Kept(r, [r EXCEPT !.stage = s, !.shown = v]) /\ Kept(r, [r EXCEPT !.stage = s, !.total = v])
  BY FieldsAre DEF Kept
<1>5. Kept(r, [r EXCEPT !.token = v]) /\ Kept(r, [r EXCEPT !.id = v]) /\ Kept(r, [r EXCEPT !.shown = v])
  BY FieldsAre DEF Kept
<1>6. Kept(r, RowDone(r, s))
  BY FieldsAre DEF Kept, RowDone
<1>7. QED
  BY <1>1, <1>2, <1>3, <1>4, <1>5, <1>6

LEMMA BecomesMoves ==
  ASSUME IInv, NEW i \in Slots, requests[i].stage \notin {"idle", "answered", "refused"},
         NEW n, Kept(requests[i], n)
  PROVE  (Becomes(i, n) => Moves(i)) /\ (Answer(i, n) => Moves(i))
<1>1. Becomes(i, n) => Moves(i)
  BY SlotFacts DEF Moves
<1>2. PICK m : m = IF n.part = "none" THEN NoRequest ELSE [n EXCEPT !.stage = "answered"]
  OBVIOUS
<1>3. Kept(requests[i], m) /\ (Answer(i, n) => Becomes(i, m))
  BY <1>2, StageKept DEF Answer
<1>4. QED
  BY <1>1, <1>3, SlotFacts DEF Moves

LEMMA FailMoves ==
  ASSUME IInv, NEW i \in Slots, requests[i].stage \notin {"idle", "answered", "refused"}
  PROVE  (Refuse(i) => Moves(i)) /\ (RowFails(i) => Moves(i))
<1>1. PICK r : r = requests[i] /\ DOMAIN r = Fields
  BY SlotFacts
<1>2. PICK m : m = IF r.part = "none" THEN NoRequest ELSE [r EXCEPT !.stage = "refused"]
  OBVIOUS
<1>3. Kept(r, m) /\ (Refuse(i) => Becomes(i, m))
  BY <1>1, <1>2, StageKept, FieldsKept DEF Refuse
<1>4. Kept(r, RowDone(r, "failed"))
  BY <1>1, FieldsKept
<1>5. QED
  BY <1>1, <1>3, <1>4, BecomesMoves DEF RowFails

LEMMA ServeMoves ==
  ASSUME IInv, NEW i \in Slots, Serve(i) \/ Fail(i)
  PROVE  Moves(i)
<1>1. PICK r : r = requests[i] /\ DOMAIN r = Fields
  BY SlotFacts
<1>2. ASSUME r.stage \notin {"idle", "answered", "refused"}
      PROVE  /\ Refuse(i) => Moves(i)
             /\ RowFails(i) => Moves(i)
             /\ \A s : Becomes(i, [r EXCEPT !.stage = s]) => Moves(i)
             /\ \A s, v, c : Becomes(i, [r EXCEPT !.stage = s, !.value = v, !.count = c]) => Moves(i)
             /\ \A s, v : Becomes(i, [r EXCEPT !.stage = s, !.id = v]) => Moves(i)
             /\ \A s, v : Becomes(i, [r EXCEPT !.stage = s, !.email = v]) => Moves(i)
             /\ \A s, v : Becomes(i, [r EXCEPT !.stage = s, !.shown = v]) => Moves(i)
             /\ \A s, v : Becomes(i, [r EXCEPT !.stage = s, !.total = v]) => Moves(i)
             /\ \A s : Becomes(i, RowDone(r, s)) => Moves(i)
             /\ Answer(i, r) => Moves(i)
             /\ \A v : Answer(i, [r EXCEPT !.token = v]) => Moves(i)
             /\ \A v : Answer(i, [r EXCEPT !.shown = v]) => Moves(i)
             /\ \A v : AfterInsert(i, [r EXCEPT !.id = v]) => Moves(i)
  <2>1. (Refuse(i) => Moves(i)) /\ (RowFails(i) => Moves(i))
    BY <1>1, <1>2, FailMoves
  <2>2. \A n : Kept(r, n) => (Becomes(i, n) => Moves(i)) /\ (Answer(i, n) => Moves(i))
    BY <1>1, <1>2, BecomesMoves
  <2>3. /\ \A s : Becomes(i, [r EXCEPT !.stage = s]) => Moves(i)
        /\ \A s, v, c : Becomes(i, [r EXCEPT !.stage = s, !.value = v, !.count = c]) => Moves(i)
        /\ \A s, v : Becomes(i, [r EXCEPT !.stage = s, !.id = v]) => Moves(i)
        /\ \A s, v : Becomes(i, [r EXCEPT !.stage = s, !.email = v]) => Moves(i)
        /\ \A s, v : Becomes(i, [r EXCEPT !.stage = s, !.shown = v]) => Moves(i)
        /\ \A s, v : Becomes(i, [r EXCEPT !.stage = s, !.total = v]) => Moves(i)
        /\ \A s : Becomes(i, RowDone(r, s)) => Moves(i)
    BY <1>1, <2>2, FieldsKept
  <2>4. /\ Answer(i, r) => Moves(i)
        /\ \A v : Answer(i, [r EXCEPT !.token = v]) => Moves(i)
        /\ \A v : Answer(i, [r EXCEPT !.shown = v]) => Moves(i)
    BY <1>1, <2>2, FieldsKept
  <2>5. ASSUME NEW v, AfterInsert(i, [r EXCEPT !.id = v])
        PROVE  Moves(i)
    <3>1. PICK m : m = [r EXCEPT !.id = v]
      OBVIOUS
    <3>2. Kept(r, m) /\ \A s : Kept(r, [m EXCEPT !.stage = s])
      BY <1>1, <3>1, FieldsKept, StageKept
    <3>3. Answer(i, m) \/ \E s : Becomes(i, [m EXCEPT !.stage = s])
      BY <2>5, <3>1 DEF AfterInsert
    <3>4. QED
      BY <2>2, <3>2, <3>3
  <2>6. QED
    BY <2>1, <2>3, <2>4, <2>5
<1>3. CASE Fail(i)
  BY <1>1, <1>2, <1>3 DEF Fail, Writing
<1>4. CASE CountRequest(i) \/ CheckRateLimit(i)
  <2>1. CASE CountRequest(i)
    BY <1>1, <1>2, <2>1 DEF CountRequest
  <2>2. CASE CheckRateLimit(i)
    BY <1>1, <1>2, <2>2 DEF CheckRateLimit
  <2>3. QED
    BY <1>4, <2>1, <2>2
<1>5. CASE VerifyPassword(i) \/ CreateSession(i) \/ DestroySession(i) \/ GetUserBySessionToken(i)
           \/ SlideExpiration(i)
  <2>1. CASE VerifyPassword(i)
    BY <1>1, <1>2, <2>1 DEF VerifyPassword, At
  <2>2. CASE CreateSession(i)
    BY <1>1, <1>2, <2>2 DEF CreateSession, At
  <2>3. CASE DestroySession(i)
    BY <1>1, <1>2, <2>3 DEF DestroySession, At
  <2>4. CASE GetUserBySessionToken(i)
    BY <1>1, <1>2, <2>4 DEF GetUserBySessionToken, At
  <2>5. CASE SlideExpiration(i)
    BY <1>1, <1>2, <2>5 DEF SlideExpiration, At
  <2>6. QED
    BY <1>5, <2>1, <2>2, <2>3, <2>4, <2>5
<1>6. CASE ParseFile(i) \/ RequireOwnedClass(i) \/ FindEmail(i) \/ InsertAccount(i) \/ FindEnrolled(i)
           \/ AddStudentToClass(i)
  <2>1. CASE ParseFile(i)
    <3>1. r.stage = "row"
      BY <1>1, <2>1 DEF ParseFile, At
    <3>2. \/ Refuse(i) \/ (\E s : Becomes(i, [r EXCEPT !.stage = s])) \/ Becomes(i, RowDone(r, "failed"))
          \/ \E s, v : Becomes(i, [r EXCEPT !.stage = s, !.email = v])
      BY <1>1, <2>1 DEF ParseFile
    <3>3. QED
      BY <1>2, <3>1, <3>2
  <2>2. CASE RequireOwnedClass(i)
    BY <1>1, <1>2, <2>2 DEF RequireOwnedClass
  <2>3. CASE FindEmail(i)
    BY <1>1, <1>2, <2>3 DEF FindEmail, At
  <2>4. CASE InsertAccount(i)
    <3>1. r.stage = "free"
      BY <1>1, <2>4 DEF InsertAccount
    <3>2. RowFails(i) \/ \E v : AfterInsert(i, [r EXCEPT !.id = v])
      BY <1>1, <2>4 DEF InsertAccount
    <3>3. QED
      BY <1>2, <3>1, <3>2
  <2>5. CASE FindEnrolled(i)
    BY <1>1, <1>2, <2>5 DEF FindEnrolled, At
  <2>6. CASE AddStudentToClass(i)
    <3>1. r.stage = "ready"
      BY <1>1, <2>6 DEF AddStudentToClass, At
    <3>2. RowFails(i) \/ (\E s : Becomes(i, [r EXCEPT !.stage = s])) \/ Becomes(i, RowDone(r, "ok"))
      BY <1>1, <2>6 DEF AddStudentToClass
    <3>3. QED
      BY <1>2, <3>1, <3>2
  <2>7. QED
    BY <1>6, <2>1, <2>2, <2>3, <2>4, <2>5, <2>6
<1>7. CASE AssertStudentInTeachersRoster(i) \/ RequireActiveUser(i)
  BY <1>1, <1>2, <1>7 DEF AssertStudentInTeachersRoster, RequireActiveUser, At
<1>8. CASE UpdateStudentProfile(i) \/ UpdateUser(i) \/ ResetUserPassword(i) \/ DeleteUser(i)
  <2>1. r.stage = "ready" /\ Answer(i, r)
    BY <1>1, <1>8 DEF UpdateStudentProfile, UpdateUser, ResetUserPassword, DeleteUser, WriteAccount, At
  <2>2. QED
    BY <1>2, <2>1
<1>9. CASE CreateClass(i) \/ UpdateClass(i) \/ DeleteClass(i) \/ RemoveStudentFromClass(i)
  <2>1. r.stage \in {"sent", "owned"} /\ (Answer(i, r) \/ Refuse(i))
    <3>1. CASE CreateClass(i)
      BY <1>1, <3>1 DEF CreateClass, WriteClass, At
    <3>2. CASE UpdateClass(i)
      BY <1>1, <3>2 DEF UpdateClass, WriteClass, At
    <3>3. CASE DeleteClass(i) \/ RemoveStudentFromClass(i)
      BY <1>1, <3>3 DEF DeleteClass, RemoveStudentFromClass, At
    <3>4. QED
      BY <1>9, <3>1, <3>2, <3>3
  <2>2. QED
    BY <1>2, <2>1
<1>10. CASE ListRoster(i) \/ FindOthers(i) \/ SearchAvailableStudents(i) \/ CountRows(i) \/ ListRows(i)
  <2>1. r.stage \in {"listing", "owned", "others", "sent", "totalled"}
    BY <1>1, <1>10 DEF ListRoster, FindOthers, SearchAvailableStudents, CountRows, ListRows, At
  <2>2. \/ \E v : Answer(i, [r EXCEPT !.shown = v])
        \/ \E s, v : Becomes(i, [r EXCEPT !.stage = s, !.shown = v])
        \/ \E s, v : Becomes(i, [r EXCEPT !.stage = s, !.total = v])
    BY <1>1, <1>10 DEF ListRoster, FindOthers, SearchAvailableStudents, CountRows, ListRows
  <2>3. QED
    BY <1>2, <2>1, <2>2
<1>11. QED
  BY <1>3, <1>4, <1>5, <1>6, <1>7, <1>8, <1>9, <1>10 DEF Serve

-----------------------------------------------------------------------------
(***************************************************************************)
(* ListIsFresh, with what makes it inductive: a list that is loading is    *)
(* for the query of the page, and what it has read so far is what the      *)
(* tables have, unless others have changed something, or an action of the  *)
(* page has been answered: its answer loads the list again.                *)
(***************************************************************************)

ListKinds == {"createUser", "update", "deleteUser", "createClass", "deleteClass", "updateClass"}
OfList(r, query) ==
  /\ r.part \in {"none", "list", "create", "action", "reset"}
  /\ r.part \in {"create", "action"} => r.kind \in ListKinds
  /\ r.part = "reset" => r.kind = "reset"
  /\ r.part = "list" =>
       r.stage \in {"sent", "totalled", "answered", "refused"} /\ r.query = query
Written(r) == r.part \in {"create", "action"} /\ r.stage = "answered"

RowsNow == RowsOf(page.kind, page.query)
TotalNow == Cardinality(Matching(page.kind, page.query))
Read(r, total, rows) ==
  /\ r.stage \in {"totalled", "answered"} => r.total = total
  /\ r.stage = "answered" => r.shown = rows
ShowsNow ==
  /\ \A i \in Slots : requests[i].part = "list" => Read(requests[i], TotalNow, RowsNow)
  /\ (\A i \in Slots : requests[i].part # "list") /\ ~page.error =>
       page.rows = RowsNow /\ page.total = TotalNow

ListRequests ==
  /\ \A i \in Slots : OfList(requests[i], page.query)
  /\ \A i, j \in Slots : requests[i].part = "list" /\ requests[j].part = "list" => i = j
ListInv ==
  InList => ListRequests /\ (page.missed \/ (\E i \in Slots : Written(requests[i])) \/ ShowsNow)

-----------------------------------------------------------------------------
(* The lists rest on the tables.                                           *)

SameLists ==
  \A kind, query : /\ Matching(kind, query)' = Matching(kind, query)
                   /\ RowsOf(kind, query)' = RowsOf(kind, query)

LEMMA ListsRestOn ==
  ASSUME \A kind, query : Matching(kind, query)' = Matching(kind, query),
         \A a : UserRow(a)' = UserRow(a), \A c : ClassRow(c)' = ClassRow(c)
  PROVE  SameLists
BY DEF SameLists, RowsOf

LEMMA TablesSame ==
  ASSUME UNCHANGED tables
  PROVE  SameLists
<1>1. ASSUME NEW kind, NEW query
      PROVE  Matching(kind, query)' = Matching(kind, query)
  BY DEF tables, Matching, Active, Owned
<1>2. /\ \A a : UserRow(a)' = UserRow(a)
      /\ \A c : ClassRow(c)' = ClassRow(c)
  BY DEF tables, UserRow, ClassRow
<1>3. QED
  BY <1>1, <1>2, ListsRestOn

\* The password is no matter of a list.
LEMMA ResetSame ==
  ASSUME IInv, NEW i \in Slots, ResetUserPassword(i)
  PROVE  SameLists
<1>1. PICK a : a = requests[i].id
  OBVIOUS
<1>2. a \in Accounts
  BY <1>1, SlotFacts DEF ResetUserPassword, At, Sound, OfKind, OfAccount
<1>3. account' = [account EXCEPT ![a] = [account[a] EXCEPT !.reset = TRUE]] /\ UNCHANGED <<class, enrolled>>
  BY <1>1 DEF ResetUserPassword, WriteAccount
<1>4. account \in [Accounts -> AccountRows]
  BY DEF IInv, TablesTyped
<1>5. \A b \in Accounts : /\ account'[b].role = account[b].role /\ account'[b].status = account[b].status
                          /\ account'[b].deleted = account[b].deleted
  BY <1>2, <1>3, <1>4 DEF AccountRows
<1>6. \A b : b \notin Accounts => account'[b] = account[b]
  BY <1>2, <1>3, <1>4
<1>7. \A b : account'[b].role = account[b].role /\ account'[b].status = account[b].status
             /\ account'[b].deleted = account[b].deleted
  BY <1>5, <1>6
<1>8. ASSUME NEW kind, NEW query
      PROVE  Matching(kind, query)' = Matching(kind, query)
  BY <1>3, <1>7 DEF Matching, Active, Owned
<1>9. /\ \A b : UserRow(b)' = UserRow(b)
      /\ \A c : ClassRow(c)' = ClassRow(c)
  BY <1>3, <1>7 DEF UserRow, ClassRow
<1>10. QED
  BY <1>8, <1>9, ListsRestOn

\* The handler of a list counts, and then reads the page.
LEMMA ListReads ==
  ASSUME IInv, NEW i \in Slots, Serve(i) \/ Fail(i), requests[i].part = "list", OfList(requests[i], page.query),
         NEW r, r = requests[i]
  PROVE  /\ UNCHANGED tables
         /\ \/ /\ r.stage = "sent" /\ requests'[i].stage = "totalled"
               /\ requests'[i].total = Cardinality(Matching(page.kind, page.query))
            \/ /\ r.stage = "totalled" /\ requests'[i].stage = "answered"
               /\ requests'[i].total = r.total /\ requests'[i].shown = RowsOf(page.kind, page.query)
            \/ requests'[i].stage = "refused"
<1>1. /\ r.kind = page.kind /\ r.kind \in {"users", "classes"} /\ r.query = page.query
      /\ r.stage \in {"sent", "totalled"} /\ DOMAIN r = Fields
  BY ServeMoves, SlotFacts DEF Sound, OfPage, OfList, Moves
<1>2. CASE Fail(i)
  <2>1. Refuse(i) /\ UNCHANGED tables
    BY <1>1, <1>2 DEF Fail, InRow, RowFails
  <2>2. Becomes(i, [r EXCEPT !.stage = "refused"])
    BY <2>1 DEF Refuse
  <2>3. requests'[i] = [r EXCEPT !.stage = "refused"]
    BY <2>2, SlotFacts
  <2>4. QED
    BY <1>1, <2>1, <2>3, Moved
<1>3. CASE CountRows(i)
  <2>1. UNCHANGED tables /\ r.stage = "sent"
        /\ Becomes(i, [r EXCEPT !.stage = "totalled", !.total = Cardinality(Matching(r.kind, r.query))])
    BY <1>3 DEF CountRows, At
  <2> DEFINE m == [r EXCEPT !.stage = "totalled", !.total = Cardinality(Matching(r.kind, r.query))]
  <2>2. m.stage = "totalled" /\ m.total = Cardinality(Matching(r.kind, r.query))
    BY <1>1, FieldsAre
  <2> HIDE DEF m
  <2>3. requests'[i] = m
    BY <2>1, SlotFacts DEF m
  <2>4. QED
    BY <1>1, <2>1, <2>2, <2>3
<1>4. CASE ListRows(i)
  <2>1. PICK rows : rows = RowsOf(r.kind, r.query)
    OBVIOUS
  <2>2. UNCHANGED tables /\ r.stage = "totalled" /\ Answer(i, [r EXCEPT !.shown = rows])
    BY <1>4, <2>1 DEF ListRows, At
  <2> DEFINE m == [r EXCEPT !.shown = rows]
             n == [m EXCEPT !.stage = "answered"]
  <2>3. n.stage = "answered" /\ n.total = r.total /\ n.shown = rows /\ m.part = "list"
    BY <1>1, FieldsAre
  <2>4. Becomes(i, n)
    BY <2>2, <2>3 DEF Answer
  <2> HIDE DEF m, n
  <2>5. requests'[i] = n
    BY <2>4, SlotFacts
  <2>6. QED
    BY <1>1, <2>1, <2>2, <2>3, <2>5
<1>5. ~(CountRequest(i) \/ CheckRateLimit(i) \/ VerifyPassword(i) \/ CreateSession(i) \/ DestroySession(i)
          \/ GetUserBySessionToken(i) \/ SlideExpiration(i))
  BY <1>1 DEF CountRequest, CheckRateLimit, VerifyPassword, CreateSession, DestroySession,
       GetUserBySessionToken, SlideExpiration, At
<1>6. ~(ParseFile(i) \/ RequireOwnedClass(i) \/ FindEmail(i) \/ InsertAccount(i) \/ FindEnrolled(i)
          \/ AddStudentToClass(i))
  BY <1>1 DEF ParseFile, RequireOwnedClass, FindEmail, InsertAccount, FindEnrolled, AddStudentToClass,
       At, Creating
<1>7. ~(AssertStudentInTeachersRoster(i) \/ RequireActiveUser(i) \/ UpdateStudentProfile(i) \/ UpdateUser(i)
          \/ ResetUserPassword(i) \/ DeleteUser(i))
  BY <1>1 DEF AssertStudentInTeachersRoster, RequireActiveUser, UpdateStudentProfile, UpdateUser,
       ResetUserPassword, DeleteUser, At
<1>8. ~(CreateClass(i) \/ UpdateClass(i) \/ DeleteClass(i) \/ RemoveStudentFromClass(i) \/ ListRoster(i)
          \/ FindOthers(i) \/ SearchAvailableStudents(i))
  BY <1>1 DEF CreateClass, UpdateClass, DeleteClass, RemoveStudentFromClass, ListRoster, FindOthers,
       SearchAvailableStudents, At
<1>9. QED
  BY <1>2, <1>3, <1>4, <1>5, <1>6, <1>7, <1>8 DEF Serve

\* What an action of the page writes is written as it is answered.
LEMMA AnsweredIs ==
  ASSUME IInv, NEW i \in Slots, requests[i].part # "none", Answer(i, requests[i])
  PROVE  requests'[i].stage = "answered"
<1>1. PICK r : r = requests[i] /\ DOMAIN r = Fields
  BY SlotFacts
<1>2. requests'[i] = [r EXCEPT !.stage = "answered"]
  BY <1>1, SlotFacts DEF Answer
<1>3. QED
  BY <1>1, <1>2, Moved

LEMMA ListWrites ==
  ASSUME IInv, NEW i \in Slots, Serve(i) \/ Fail(i), requests[i].part \in {"create", "action", "reset"},
         OfList(requests[i], page.query)
  PROVE  SameLists \/ (requests[i].part \in {"create", "action"} /\ requests'[i].stage = "answered")
<1>1. PICK r : r = requests[i] /\ DOMAIN r = Fields
  BY SlotFacts
<1>2. /\ r.part \in {"create", "action"} => r.kind \in ListKinds
      /\ r.part = "reset" => r.kind = "reset"
  BY <1>1 DEF OfList
<1>3. CASE UNCHANGED tables
  BY <1>3, TablesSame
<1>4. CASE InsertAccount(i)
  <2>1. r.kind = "createUser" /\ r.part # "none"
    BY <1>1, <1>2, <1>4 DEF InsertAccount, Creating, ListKinds
  <2>2. CASE UNCHANGED account
    BY <1>3, <1>4, <2>2 DEF InsertAccount, tables
  <2>3. CASE account' # account
    <3>1. PICK a : AfterInsert(i, [r EXCEPT !.id = a])
      BY <1>1, <1>4, <2>3 DEF InsertAccount
    <3> DEFINE m == [r EXCEPT !.id = a]
               n == [m EXCEPT !.stage = "answered"]
    <3>2. m.kind = "createUser" /\ m.part = r.part /\ n.stage = "answered"
      BY <1>1, <2>1, FieldsAre
    <3>3. Becomes(i, n)
      BY <2>1, <3>1, <3>2 DEF AfterInsert, Answer
    <3> HIDE DEF m, n
    <3>4. requests'[i] = n
      BY <3>3, SlotFacts
    <3>5. QED
      BY <1>1, <1>2, <2>1, <3>2, <3>4
  <2>4. QED
    BY <2>2, <2>3
<1>5. CASE UpdateUser(i) \/ DeleteUser(i) \/ DeleteClass(i)
  <2>1. Answer(i, r) /\ r.part # "reset"
    BY <1>1, <1>2, <1>5 DEF UpdateUser, DeleteUser, DeleteClass, WriteAccount, At
  <2>2. QED
    BY <1>1, <2>1, AnsweredIs
<1>6. CASE ResetUserPassword(i)
  BY <1>6, ResetSame
<1>7. CASE CreateClass(i) \/ UpdateClass(i)
  <2>1. /\ UNCHANGED <<account, enrolled>> /\ (UNCHANGED class \/ Answer(i, r)) /\ r.part # "reset"
    <3>1. CASE CreateClass(i)
      BY <1>1, <1>2, <3>1 DEF CreateClass, WriteClass, At
    <3>2. CASE UpdateClass(i)
      BY <1>1, <1>2, <3>2 DEF UpdateClass, WriteClass, At
    <3>3. QED
      BY <1>7, <3>1, <3>2
  <2>2. QED
    BY <1>1, <1>3, <2>1, AnsweredIs DEF tables
<1>8. ~(AddStudentToClass(i) \/ UpdateStudentProfile(i) \/ RemoveStudentFromClass(i))
  BY <1>1, <1>2 DEF AddStudentToClass, UpdateStudentProfile, RemoveStudentFromClass, At, ListKinds
<1>9. CASE CountRequest(i) \/ CheckRateLimit(i) \/ VerifyPassword(i) \/ CreateSession(i)
           \/ DestroySession(i) \/ GetUserBySessionToken(i) \/ SlideExpiration(i) \/ Fail(i)
  BY <1>3, <1>9 DEF CountRequest, CheckRateLimit, VerifyPassword, CreateSession, DestroySession,
       GetUserBySessionToken, SlideExpiration, Fail
<1>10. CASE ParseFile(i) \/ RequireOwnedClass(i) \/ FindEmail(i) \/ FindEnrolled(i)
           \/ AssertStudentInTeachersRoster(i) \/ RequireActiveUser(i) \/ ListRoster(i) \/ FindOthers(i)
           \/ SearchAvailableStudents(i) \/ CountRows(i) \/ ListRows(i)
  BY <1>3, <1>10 DEF ParseFile, RequireOwnedClass, FindEmail, FindEnrolled, AssertStudentInTeachersRoster,
       RequireActiveUser, ListRoster, FindOthers, SearchAvailableStudents, CountRows, ListRows
<1>11. QED
  BY <1>4, <1>5, <1>6, <1>7, <1>8, <1>9, <1>10 DEF Serve

-----------------------------------------------------------------------------
(* The server's steps.                                                     *)

\* What the page has not seen of a server step leaves the rest of it.
LEMMA UnseenIs ==
  ASSUME IInv, NEW i \in Slots, page' = Unseen(i)
  PROVE  /\ DOMAIN page' = DOMAIN page /\ page'.kind = page.kind /\ page'.query = page.query
         /\ page'.rows = page.rows /\ page'.total = page.total /\ page'.error = page.error
         /\ page'.available = page.available /\ page'.crossed = page.crossed
<1>1. DOMAIN page = DOMAIN InitialPage("users")
  BY DEF IInv, PageOK
<1>2. PICK p : p = page
  OBVIOUS
<1>3. PICK missed, unseen : page' = [p EXCEPT !.missed = missed, !.unseen = unseen]
  <2> DEFINE r == requests[i]
             rereads == r.part # "none" /\ (At(i, {"users", "classes"}, "sent") \/ r.stage = "listing")
             halfDone == \/ strayed' # strayed
                         \/ /\ r.stage \in {"row", "class", "checked", "free", "made", "owned", "ready",
                                            "enrolled", "listing"}
                            /\ requests'[i].stage = "refused"
                            /\ r.kind # "createUser"
             behind == halfDone \/ (r.part = "none" /\ tables' # tables)
             missed == behind \/ (p.missed /\ ~rereads)
             unseen == behind \/ (p.unseen /\ (p.missed \/ ~At(i, {"available"}, "owned")))
  <2>1. page' = [p EXCEPT !.missed = missed, !.unseen = unseen]
    BY <1>2 DEF Unseen
  <2> HIDE DEF missed, unseen
  <2>2. QED
    BY <2>1
<1>4. QED
  BY <1>1, <1>2, <1>3, PageFieldsAre

LEMMA ListServed ==
  ASSUME IInv, IInv', ListInv, NEW i \in Slots, Serve(i) \/ Fail(i), page' = Unseen(i)
  PROVE  ListInv'
<1> SUFFICES ASSUME InList'
             PROVE  ListInv'
  BY DEF ListInv
<1>1. PICK r : r = requests[i]
  OBVIOUS
<1>2. /\ DOMAIN page' = DOMAIN page /\ page'.kind = page.kind /\ page'.query = page.query
      /\ page'.rows = page.rows /\ page'.total = page.total /\ page'.error = page.error
  BY UnseenIs
<1>3. InList /\ ListRequests /\ (page.missed \/ (\E j \in Slots : Written(requests[j])) \/ ShowsNow)
  BY <1>2 DEF ListInv, InList
<1>4. /\ Kept(r, requests'[i]) /\ r.stage \notin {"idle", "answered", "refused"}
      /\ \A j \in Slots \ {i} : requests'[j] = requests[j]
  BY <1>1, ServeMoves DEF Moves
<1>5. \A j \in Slots : requests'[j].part = requests[j].part
  BY <1>1, <1>4 DEF Kept
<1>6. r.part = "list" =>
        /\ UNCHANGED tables
        /\ \/ r.stage = "sent" /\ requests'[i].stage = "totalled" /\ requests'[i].total = TotalNow
           \/ /\ r.stage = "totalled" /\ requests'[i].stage = "answered"
              /\ requests'[i].total = r.total /\ requests'[i].shown = RowsNow
           \/ requests'[i].stage = "refused"
  BY <1>1, <1>3, ListReads DEF ListRequests, TotalNow, RowsNow
<1>7. ListRequests'
  <2>1. OfList(requests'[i], page'.query)
    <3>1. OfList(r, page.query)
      BY <1>1, <1>3 DEF ListRequests
    <3>2. r.part # "none" => requests'[i].kind = r.kind /\ requests'[i].query = r.query
      BY <1>4 DEF Kept
    <3>3. QED
      BY <1>1, <1>2, <1>5, <1>6, <3>1, <3>2 DEF OfList
  <2>2. \A j \in Slots \ {i} : OfList(requests'[j], page'.query)
    BY <1>2, <1>3, <1>4 DEF ListRequests, OfList
  <2>3. QED
    BY <1>3, <1>5, <2>1, <2>2 DEF ListRequests
<1>8. SUFFICES ASSUME ~page'.missed
               PROVE  (\E j \in Slots : Written(requests'[j])) \/ ShowsNow'
  BY <1>7 DEF ListInv, Written
<1>9. ~(r.part = "none" /\ tables' # tables) /\ (page.missed => r.part = "list" /\ r.stage = "sent")
  <2> DEFINE rereads == r.part # "none" /\ (At(i, {"users", "classes"}, "sent") \/ r.stage = "listing")
             halfDone == \/ strayed' # strayed
                         \/ /\ r.stage \in {"row", "class", "checked", "free", "made", "owned", "ready",
                                            "enrolled", "listing"}
                            /\ requests'[i].stage = "refused"
                            /\ r.kind # "createUser"
             behind == halfDone \/ (r.part = "none" /\ tables' # tables)
             missed == behind \/ (page.missed /\ ~rereads)
             unseen == behind \/ (page.unseen /\ (page.missed \/ ~At(i, {"available"}, "owned")))
  <2>1. page' = [page EXCEPT !.missed = missed, !.unseen = unseen]
    BY <1>1 DEF Unseen
  <2>2. DOMAIN page = DOMAIN InitialPage("users")
    BY DEF IInv, PageOK
  <2> HIDE DEF missed, unseen
  <2>3. page'.missed = missed
    BY <2>1, <2>2, PageFieldsAre
  <2>4. ~missed
    BY <1>8, <2>3
  <2>5. rereads => r.part = "list" /\ r.stage = "sent"
    <3>1. OfList(r, page.query) /\ AtStage(r)
      BY <1>1, <1>3, SlotFacts DEF ListRequests, Sound
    <3>2. r.stage = "listing" => r.part = "none"
      BY <3>1 DEF OfList, AtStage, Joining, ListKinds
    <3>3. r.kind \in {"users", "classes"} => r.part \in {"none", "list"}
      BY <3>1 DEF OfList, ListKinds
    <3>4. QED
      BY <1>1, <3>2, <3>3 DEF At
  <2>6. QED
    BY <2>4, <2>5 DEF missed
<1>10. CASE \E j \in Slots : Written(requests[j])
  BY <1>1, <1>4, <1>10 DEF Written
<1>11. SameLists => TotalNow' = TotalNow /\ RowsNow' = RowsNow
  BY <1>2 DEF SameLists, TotalNow, RowsNow
<1>12. CASE r.part = "list" /\ (r.stage = "sent" \/ ShowsNow)
  <2>1. TotalNow' = TotalNow /\ RowsNow' = RowsNow
    BY <1>6, <1>11, <1>12, TablesSame
  <2>2. \A j \in Slots : requests[j].part = "list" => j = i
    BY <1>1, <1>3, <1>12 DEF ListRequests
  <2>3. r.stage = "totalled" => r.total = TotalNow
    BY <1>1, <1>12 DEF ShowsNow, Read
  <2>4. Read(requests'[i], TotalNow', RowsNow')
    BY <1>6, <1>12, <2>1, <2>3 DEF Read
  <2>5. QED
    BY <1>1, <1>5, <1>12, <2>2, <2>4 DEF ShowsNow
<1>13. CASE r.part # "list" /\ ShowsNow
  <2>1. SameLists \/ (r.part \in {"create", "action"} /\ requests'[i].stage = "answered")
    <3>1. r.part \in {"none", "create", "action", "reset"} /\ OfList(r, page.query)
      BY <1>1, <1>3, <1>13 DEF ListRequests, OfList
    <3>2. r.part = "none" => UNCHANGED tables
      BY <1>9
    <3>3. QED
      BY <1>1, <3>1, <3>2, ListWrites, TablesSame
  <2>2. CASE SameLists
    <3>1. TotalNow' = TotalNow /\ RowsNow' = RowsNow
      BY <1>11, <2>2
    <3>2. \A j \in Slots : requests[j].part = "list" => requests'[j] = requests[j]
      BY <1>1, <1>4, <1>13
    <3>3. \A j \in Slots : requests'[j].part = "list" => Read(requests'[j], TotalNow', RowsNow')
      BY <1>5, <1>13, <3>1, <3>2 DEF ShowsNow, Read
    <3>4. QED
      BY <1>2, <1>5, <1>13, <3>1, <3>3 DEF ShowsNow
  <2>3. CASE r.part \in {"create", "action"} /\ requests'[i].stage = "answered"
    BY <1>1, <1>5, <2>3 DEF Written
  <2>4. QED
    BY <2>1, <2>2, <2>3
<1>14. QED
  BY <1>3, <1>9, <1>10, <1>12, <1>13

-----------------------------------------------------------------------------
(* The page's steps.                                                       *)

\* What the page sends, and what others ask.
Filled(a, u, v, w) ==
  {a, [a EXCEPT !.id = u], [a EXCEPT !.class = u], [a EXCEPT !.name = u], [a EXCEPT !.email = u],
   [a EXCEPT !.token = u], [a EXCEPT !.id = u, !.value = v], [a EXCEPT !.email = u, !.value = v],
   [a EXCEPT !.class = u, !.id = v], [a EXCEPT !.class = u, !.name = v],
   [a EXCEPT !.class = u, !.rows = v], [a EXCEPT !.class = u, !.name = v, !.value = w]}

LEMMA FilledFields ==
  ASSUME NEW kind, NEW part, NEW a, a = Ask(kind, part), NEW u, NEW v, NEW w, NEW n \in Filled(a, u, v, w)
  PROVE  DOMAIN n = Fields /\ n.kind = kind /\ n.part = part /\ n.stage = "sent"
<1>1. DOMAIN a = Fields /\ a.kind = kind /\ a.part = part /\ a.stage = "sent"
  BY AskFields
<1>2. CASE n \in {a, [a EXCEPT !.id = u], [a EXCEPT !.class = u], [a EXCEPT !.name = u],
                  [a EXCEPT !.email = u], [a EXCEPT !.token = u]}
  BY <1>1, <1>2, FieldsAre
<1>3. CASE n \in {[a EXCEPT !.id = u, !.value = v], [a EXCEPT !.email = u, !.value = v],
                  [a EXCEPT !.class = u, !.id = v],
                  [a EXCEPT !.class = u, !.name = v], [a EXCEPT !.class = u, !.rows = v]}
  BY <1>1, <1>3, FieldsAre
<1>4. CASE n = [a EXCEPT !.class = u, !.name = v, !.value = w]
  BY <1>1, <1>4, FieldsAre
<1>5. QED
  BY <1>2, <1>3, <1>4 DEF Filled

LEMMA AsksNone ==
  ASSUME NEW n \in Asks(page.kind), page.kind \in Kinds
  PROVE  n.part = "none" /\ n.stage = "sent" /\ n.kind \notin {"available", "createStudent", "import"}
<1>1. SUFFICES \E kind \in {"createUser", "update", "deleteUser", "createClass", "deleteClass", "remove",
                            "updateClass", "add", "login", "register", "reset"} : \E u, v, w :
                 n \in Filled(Ask(kind, "none"), u, v, w)
  BY FilledFields
<1>2. CASE page.kind = "users"
  BY <1>2 DEF Asks, Filled
<1>3. CASE page.kind = "classes"
  BY <1>3 DEF Asks, Filled
<1>4. CASE page.kind = "roster"
  <2> DEFINE Some(k, x) == [Ask(k, "none") EXCEPT !.class = 1, !.id = x]
  <2>1. RosterAsks = {Some(k, x) : k \in {"add", "remove"}, x \in 1 .. MaxAccounts}
    BY DEF RosterAsks
  <2>2. \/ n = [Ask("createUser", "none") EXCEPT !.email = MaxEmails, !.value = "student"]
        \/ n = [Ask("updateClass", "none") EXCEPT !.class = 1, !.name = 1, !.value = "other"]
        \/ n = [Ask("deleteClass", "none") EXCEPT !.class = 1]
        \/ n \in RosterAsks
    BY <1>4 DEF Asks
  <2> HIDE DEF Some
  <2>3. n \in RosterAsks => \E k \in {"add", "remove"} : \E x \in 1 .. MaxAccounts : n = Some(k, x)
    BY <2>1, SMT
  <2>4. \A k, x : Some(k, x) \in Filled(Ask(k, "none"), 1, x, x)
    BY DEF Some, Filled
  <2>5. CASE n \in RosterAsks
    BY <2>3, <2>4, <2>5
  <2>6. CASE n \notin RosterAsks
    <3>1. /\ [Ask("createUser", "none") EXCEPT !.email = MaxEmails, !.value = "student"]
               \in Filled(Ask("createUser", "none"), MaxEmails, "student", 1)
          /\ [Ask("updateClass", "none") EXCEPT !.class = 1, !.name = 1, !.value = "other"]
               \in Filled(Ask("updateClass", "none"), 1, 1, "other")
          /\ [Ask("deleteClass", "none") EXCEPT !.class = 1] \in Filled(Ask("deleteClass", "none"), 1, 1, 1)
      BY DEF Filled
    <3>2. CASE n = [Ask("createUser", "none") EXCEPT !.email = MaxEmails, !.value = "student"]
      BY <3>1, <3>2
    <3>3. CASE n = [Ask("updateClass", "none") EXCEPT !.class = 1, !.name = 1, !.value = "other"]
      BY <3>1, <3>3
    <3>4. CASE n = [Ask("deleteClass", "none") EXCEPT !.class = 1]
      BY <3>1, <3>4
    <3>5. QED
      BY <2>2, <2>6, <3>2, <3>3, <3>4
  <2>7. QED
    BY <2>5, <2>6
<1>5. CASE page.kind = "browser"
  BY <1>5 DEF Asks, Filled
<1>6. QED
  BY <1>2, <1>3, <1>4, <1>5 DEF Kinds

\* The server rests, and no request for a list comes or goes.
LEMMA ListRests ==
  ASSUME ListInv, InList, UNCHANGED tables, page'.kind = page.kind, page'.query = page.query,
         page'.missed \/ /\ page'.rows = page.rows /\ page'.total = page.total
                         /\ page'.error = page.error /\ page'.missed = page.missed,
         \A j \in Slots :
           \/ requests'[j] = requests[j]
           \/ /\ requests[j].part # "list" /\ (~Written(requests[j]) \/ page'.missed)
              /\ requests'[j].part # "list" /\ OfList(requests'[j], page.query)
  PROVE  ListInv'
<1>1. TotalNow' = TotalNow /\ RowsNow' = RowsNow
  BY TablesSame DEF SameLists, TotalNow, RowsNow
<1>2. ListRequests /\ (page.missed \/ (\E j \in Slots : Written(requests[j])) \/ ShowsNow)
  BY DEF ListInv
<1>3. ListRequests'
  <2>1. \A j \in Slots : OfList(requests'[j], page'.query)
    BY <1>2 DEF ListRequests
  <2>2. \A j \in Slots : requests'[j].part = "list" => requests[j].part = "list"
    OBVIOUS
  <2>3. QED
    BY <1>2, <2>1, <2>2 DEF ListRequests
<1>4. CASE page'.missed
  BY <1>3, <1>4 DEF ListInv
<1>5. CASE ~page'.missed
  <2>1. (\E j \in Slots : Written(requests[j])) => \E j \in Slots : Written(requests'[j])
    BY <1>5
  <2>2. ShowsNow => ShowsNow'
    <3>1. ASSUME ShowsNow, NEW j \in Slots, requests'[j].part = "list"
          PROVE  Read(requests'[j], TotalNow', RowsNow')
      BY <1>1, <3>1 DEF ShowsNow, Read
    <3>2. (\A j \in Slots : requests'[j].part # "list") => \A j \in Slots : requests[j].part # "list"
      OBVIOUS
    <3>3. QED
      BY <1>1, <1>5, <3>1, <3>2 DEF ShowsNow
  <2>3. QED
    BY <1>2, <1>3, <1>5, <2>1, <2>2 DEF ListInv, Written
<1>6. QED
  BY <1>4, <1>5

\* A list that loads is waited for alone, and has read nothing yet.
LEMMA ListLoads ==
  ASSUME IInv, ListInv, InList, NEW p, DOMAIN p = DOMAIN page, p.kind = page.kind,
         NEW rs, DOMAIN rs = Slots, \A j \in Slots : rs[j] \in {requests[j], NoRequest}, Load(p, rs)
  PROVE  ListInv'
<1> DEFINE n == AskList(p)
           left == Dropped(rs, "list")
<1>1. n.part = "list" /\ n.stage = "sent" /\ n.query = p.query
  <2>1. PICK a : a = Ask(p.kind, "list")
    OBVIOUS
  <2>2. DOMAIN a = Fields /\ a.part = "list" /\ a.stage = "sent"
    BY <2>1, AskFields
  <2>3. n = [a EXCEPT !.query = p.query]
    BY <2>1 DEF AskList
  <2>4. QED
    BY <2>2, <2>3, FieldsAre
<1>2. page' = [p EXCEPT !.loading = TRUE, !.error = FALSE] /\ FreeSlots(left) # {} /\ requests' = Put(left, n)
  BY <1>1 DEF Load, Rerun
<1>3. DOMAIN page = DOMAIN InitialPage("users")
  BY DEF IInv, PageOK
<1>4. page'.kind = page.kind /\ page'.query = p.query /\ page'.missed = p.missed
  BY <1>2, <1>3, PageFieldsAre
<1>5. DOMAIN left = Slots /\ \A j \in Slots : left[j].part # "list" /\ left[j] \in {requests[j], NoRequest}
  BY DEF Dropped, NoRequest
<1> HIDE DEF n, left
<1>6. PICK k \in FreeSlots(left) : requests' = [left EXCEPT ![k] = n]
  BY <1>2, PutIsThere
<1>7. k \in Slots /\ requests'[k] = n /\ \A j \in Slots \ {k} : requests'[j] = left[j]
  BY <1>5, <1>6 DEF FreeSlots
<1>8. ListRequests'
  <2>1. \A j \in Slots : OfList(requests[j], page.query)
    BY DEF ListInv, ListRequests
  <2>2. OfList(NoRequest, page'.query)
    BY DEF OfList, NoRequest
  <2>3. \A j \in Slots \ {k} : OfList(left[j], page'.query)
    BY <1>5, <2>1, <2>2 DEF OfList
  <2>4. OfList(n, page'.query)
    BY <1>1, <1>4 DEF OfList
  <2>5. QED
    BY <1>5, <1>7, <2>3, <2>4 DEF ListRequests
<1>9. ShowsNow'
  <2>1. Read(n, TotalNow', RowsNow')
    BY <1>1 DEF Read
  <2>2. QED
    BY <1>1, <1>5, <1>7, <2>1 DEF ShowsNow
<1>10. QED
  BY <1>8, <1>9 DEF ListInv

LEMMA ListSends ==
  ASSUME IInv, ListInv, InList, NEW n, Send(page, n), n.part # "list", OfList(n, page.query)
  PROVE  ListInv'
<1>1. PICK k \in FreeSlots(requests) : requests' = [requests EXCEPT ![k] = n]
  BY PutIsThere DEF Send
<1>2. k \in Slots /\ requests[k] = NoRequest /\ DOMAIN requests = Slots
  BY <1>1 DEF FreeSlots, IInv, RequestsSound
<1>3. requests[k].part # "list" /\ ~Written(requests[k])
  BY <1>2 DEF NoRequest, Written
<1>4. page' = page /\ UNCHANGED tables
  BY DEF Send, Rest, serverVars
<1>5. QED
  BY <1>1, <1>2, <1>3, <1>4, ListRests

LEMMA ListAsked ==
  ASSUME IInv, ListInv, InList, NEW p, DOMAIN p = DOMAIN page, p.kind = page.kind, p.missed = page.missed,
         p.rows = page.rows, p.total = page.total, p.error = page.error, ListAs(p)
  PROVE  ListInv'
<1>1. CASE p.query = page.query
  <2>1. page' = p /\ requests' = requests /\ UNCHANGED tables
    BY <1>1 DEF ListAs, Show, Rest, serverVars
  <2>2. QED
    BY <1>1, <2>1, ListRests
<1>2. CASE p.query # page.query
  BY <1>2, ListLoads DEF ListAs, IInv, RequestsSound
<1>3. QED
  BY <1>1, <1>2

\* The query changes.
LEMMA ListQueries ==
  ASSUME IInv, ListInv, InList,
         \/ HandleSearchChange \/ TurnPage
         \/ \E role \in {"all", "teacher", "student"} : HandleRoleChange(role)
  PROVE  ListInv'
<1>1. DOMAIN page = DOMAIN InitialPage("users")
  BY DEF IInv, PageOK
<1>2. PICK p, b, q : p = page /\ b = ~page.search /\ q = page.query
  OBVIOUS
<1>3. \/ ListAs([p EXCEPT !.search = b, !.query.page = 1])
      \/ \E m : ListAs([p EXCEPT !.query.page = m])
      \/ \E role : ListAs([p EXCEPT !.query.role = role, !.query.page = 1])
  BY <1>2 DEF HandleSearchChange, TurnPage, HandleRoleChange
<1>4. CASE ListAs([p EXCEPT !.search = b, !.query.page = 1])
  <2> DEFINE r == [p EXCEPT !.search = b, !.query.page = 1]
  <2>1. DOMAIN r = DOMAIN page /\ r.kind = page.kind /\ r.missed = page.missed /\ r.rows = page.rows
        /\ r.total = page.total /\ r.error = page.error
    BY <1>1, <1>2, PageFieldsAre
  <2>2. ListAs(r)
    BY <1>4
  <2> HIDE DEF r
  <2>3. QED
    BY <2>1, <2>2, ListAsked
<1>5. CASE \E m : ListAs([p EXCEPT !.query.page = m])
  <2>1. PICK m : ListAs([p EXCEPT !.query.page = m])
    BY <1>5
  <2> DEFINE r == [p EXCEPT !.query.page = m]
  <2>2. DOMAIN r = DOMAIN page /\ r.kind = page.kind /\ r.missed = page.missed /\ r.rows = page.rows
        /\ r.total = page.total /\ r.error = page.error
    BY <1>1, <1>2, PageFieldsAre
  <2>3. ListAs(r)
    BY <2>1
  <2> HIDE DEF r
  <2>4. QED
    BY <2>2, <2>3, ListAsked
<1>6. CASE \E role : ListAs([p EXCEPT !.query.role = role, !.query.page = 1])
  <2>1. PICK role : ListAs([p EXCEPT !.query.role = role, !.query.page = 1])
    BY <1>6
  <2> DEFINE r == [p EXCEPT !.query.role = role, !.query.page = 1]
  <2>2. DOMAIN r = DOMAIN page /\ r.kind = page.kind /\ r.missed = page.missed /\ r.rows = page.rows
        /\ r.total = page.total /\ r.error = page.error
    BY <1>1, <1>2, PageFieldsAre
  <2>3. ListAs(r)
    BY <2>1
  <2> HIDE DEF r
  <2>4. QED
    BY <2>2, <2>3, ListAsked
<1>7. QED
  BY <1>3, <1>4, <1>5, <1>6

\* What the user does to the rows is sent.
LEMMA ListActs ==
  ASSUME IInv, ListInv, InList,
         Create \/ \E row \in page.rows : ToggleStatus(row) \/ HandleDelete(row) \/ ResetPassword(row)
                                            \/ RenameClass(row)
  PROVE  ListInv'
<1>1. ASSUME NEW part \in {"create", "action", "reset"}, NEW kind,
             IF part = "reset" THEN kind = "reset" ELSE kind \in ListKinds,
             NEW u, NEW v, NEW w, NEW n \in Filled(Ask(kind, part), u, v, w), Send(page, n)
      PROVE  ListInv'
  <2>1. n.part = part /\ n.kind = kind
    BY FilledFields
  <2>2. n.part # "list" /\ OfList(n, page.query)
    BY <1>1, <2>1 DEF OfList
  <2>3. QED
    BY <1>1, <2>2, ListSends
<1>2. CASE Create
  <2>1. CASE page.kind = "classes"
    <3>1. PICK m \in Classes : Send(page, [Ask("createClass", "create") EXCEPT !.name = m])
      BY <1>2, <2>1 DEF Create
    <3>2. [Ask("createClass", "create") EXCEPT !.name = m] \in Filled(Ask("createClass", "create"), m, m, m)
      BY DEF Filled
    <3>3. QED
      BY <1>1, <3>1, <3>2 DEF ListKinds
  <2>2. CASE page.kind # "classes"
    <3>1. PICK e, role : Send(page, [Ask("createUser", "create") EXCEPT !.email = e, !.value = role])
      BY <1>2, <2>2 DEF Create
    <3>2. [Ask("createUser", "create") EXCEPT !.email = e, !.value = role]
            \in Filled(Ask("createUser", "create"), e, role, e)
      BY DEF Filled
    <3>3. QED
      BY <1>1, <3>1, <3>2 DEF ListKinds
  <2>3. QED
    BY <2>1, <2>2
<1>3. ASSUME NEW row \in page.rows, ToggleStatus(row)
      PROVE  ListInv'
  <2>1. PICK v : v = IF row.status = "active" THEN "disabled" ELSE "active"
    OBVIOUS
  <2>2. PICK a : a = Ask("update", "action")
    OBVIOUS
  <2>3. DOMAIN a = Fields
    BY <2>2, AskFields
  <2>4. [[a EXCEPT !.id = row.id] EXCEPT !.value = v] = [a EXCEPT !.id = row.id, !.value = v]
    BY <2>3, FieldsAre
  <2>5. Send(page, [a EXCEPT !.id = row.id, !.value = v])
    BY <1>3, <2>1, <2>2, <2>4 DEF ToggleStatus, AskFor
  <2>6. [a EXCEPT !.id = row.id, !.value = v] \in Filled(a, row.id, v, v)
    BY DEF Filled
  <2>7. QED
    BY <1>1, <2>2, <2>5, <2>6 DEF ListKinds
<1>4. ASSUME NEW row \in page.rows, HandleDelete(row)
      PROVE  ListInv'
  <2>1. CASE page.kind = "users"
    <3>1. Send(page, [Ask("deleteUser", "action") EXCEPT !.id = row.id])
      BY <1>4, <2>1 DEF HandleDelete, AskFor
    <3>2. [Ask("deleteUser", "action") EXCEPT !.id = row.id]
            \in Filled(Ask("deleteUser", "action"), row.id, row.id, row.id)
      BY DEF Filled
    <3>3. QED
      BY <1>1, <3>1, <3>2 DEF ListKinds
  <2>2. CASE page.kind # "users"
    <3>1. Send(page, [Ask("deleteClass", "action") EXCEPT !.class = row.id])
      BY <1>4, <2>2 DEF HandleDelete
    <3>2. [Ask("deleteClass", "action") EXCEPT !.class = row.id]
            \in Filled(Ask("deleteClass", "action"), row.id, row.id, row.id)
      BY DEF Filled
    <3>3. QED
      BY <1>1, <3>1, <3>2 DEF ListKinds
  <2>3. QED
    BY <2>1, <2>2
<1>5. ASSUME NEW row \in page.rows, ResetPassword(row)
      PROVE  ListInv'
  <2>1. Send(page, [Ask("reset", "reset") EXCEPT !.id = row.id])
    BY <1>5 DEF ResetPassword
  <2>2. [Ask("reset", "reset") EXCEPT !.id = row.id] \in Filled(Ask("reset", "reset"), row.id, row.id, row.id)
    BY DEF Filled
  <2>3. QED
    BY <1>1, <2>1, <2>2
<1>6. ASSUME NEW row \in page.rows, RenameClass(row)
      PROVE  ListInv'
  <2>1. PICK m \in Classes : Send(page, [Ask("updateClass", "action") EXCEPT !.class = row.id, !.name = m])
    BY <1>6 DEF RenameClass
  <2>2. [Ask("updateClass", "action") EXCEPT !.class = row.id, !.name = m]
          \in Filled(Ask("updateClass", "action"), row.id, m, m)
    BY DEF Filled
  <2>3. QED
    BY <1>1, <2>1, <2>2 DEF ListKinds
<1>7. QED
  BY <1>2, <1>3, <1>4, <1>5, <1>6

\* The answers.
LEMMA WithoutIs ==
  ASSUME IInv, NEW i \in Slots
  PROVE  /\ DOMAIN Without(i) = Slots /\ Without(i)[i] = NoRequest
         /\ \A j \in Slots \ {i} : Without(i)[j] = requests[j]
BY DEF Without, IInv, RequestsSound

\* The list that was asked for is shown, or that there is none.
LEMMA ListAnswered ==
  ASSUME IInv, ListInv, InList, NEW i \in Slots, requests[i].part = "list",
         requests[i].stage \in {"answered", "refused"},
         UNCHANGED tables, requests' = Without(i), page'.kind = page.kind, page'.query = page.query,
         page'.missed = page.missed,
         \/ page'.error
         \/ /\ requests[i].stage = "answered"
            /\ page'.rows = requests[i].shown /\ page'.total = requests[i].total
  PROVE  ListInv'
<1>1. TotalNow' = TotalNow /\ RowsNow' = RowsNow
  BY TablesSame DEF SameLists, TotalNow, RowsNow
<1>2. ListRequests /\ (page.missed \/ (\E j \in Slots : Written(requests[j])) \/ ShowsNow)
  BY DEF ListInv
<1>3. requests'[i] = NoRequest /\ \A j \in Slots \ {i} : requests'[j] = requests[j]
  BY WithoutIs
<1>4. ListRequests' /\ \A j \in Slots : requests'[j].part # "list"
  <2>1. OfList(NoRequest, page.query) /\ NoRequest.part # "list"
    BY DEF OfList, NoRequest
  <2>2. QED
    BY <1>2, <1>3, <2>1 DEF ListRequests
<1>5. CASE page.missed
  BY <1>4, <1>5 DEF ListInv
<1>6. CASE \E j \in Slots : Written(requests[j])
  <2>1. \E j \in Slots : Written(requests'[j])
    BY <1>3, <1>6 DEF Written
  <2>2. QED
    BY <1>4, <2>1 DEF ListInv, Written
<1>7. CASE ShowsNow
  <2>1. ShowsNow'
    BY <1>1, <1>4, <1>7 DEF ShowsNow, Read
  <2>2. QED
    BY <1>4, <2>1 DEF ListInv
<1>8. QED
  BY <1>2, <1>5, <1>6, <1>7

LEMMA ListHears ==
  ASSUME IInv, ListInv, InList, NEW i \in Slots, LoadAnswered(i) \/ ActionAnswered(i) \/ LoseAnswer(i)
  PROVE  ListInv'
<1>1. DOMAIN page = DOMAIN InitialPage("users")
  BY DEF IInv, PageOK
<1>2. /\ requests[i].part \in {"none", "list", "create", "action", "reset"}
      /\ OfList(NoRequest, page.query) /\ NoRequest.part # "list"
      /\ \A j \in Slots \ {i} : Without(i)[j] = requests[j]
      /\ Without(i)[i] = NoRequest /\ DOMAIN Without(i) = Slots
  BY WithoutIs DEF ListInv, ListRequests, OfList, NoRequest
<1>3. PICK p : p = page
  OBVIOUS
<1>4. CASE LoadAnswered(i)
  <2>1. /\ requests[i].part = "list" /\ requests[i].stage \in {"answered", "refused"}
        /\ requests' = Without(i) /\ UNCHANGED tables
    BY <1>4 DEF LoadAnswered, Heard, Shows, Rest, serverVars
  <2>2. CASE Well(i)
    <3>1. page' = [p EXCEPT !.rows = requests[i].shown, !.total = requests[i].total, !.loading = FALSE]
      BY <1>3, <1>4, <2>2 DEF LoadAnswered, Shows
    <3>2. /\ page'.kind = page.kind /\ page'.query = page.query /\ page'.missed = page.missed
          /\ page'.rows = requests[i].shown /\ page'.total = requests[i].total
      BY <1>1, <1>3, <3>1, PageFieldsAre
    <3>3. QED
      BY <2>1, <2>2, <3>2, ListAnswered DEF Well
  <2>3. CASE ~Well(i)
    <3>1. page' = [p EXCEPT !.loading = FALSE, !.error = TRUE]
      BY <1>3, <1>4, <2>3 DEF LoadAnswered, Shows
    <3>2. /\ page'.kind = page.kind /\ page'.query = page.query /\ page'.missed = page.missed /\ page'.error
      BY <1>1, <1>3, <3>1, PageFieldsAre
    <3>3. QED
      BY <2>1, <3>2, ListAnswered
  <2>4. QED
    BY <2>2, <2>3
<1>5. CASE ActionAnswered(i)
  <2>1. CASE Well(i) /\ requests[i].part # "reset"
    <3>1. Load(page, Without(i))
      BY <1>5, <2>1 DEF ActionAnswered
    <3>2. QED
      BY <1>2, <3>1, ListLoads
  <2>2. CASE ~(Well(i) /\ requests[i].part # "reset")
    <3>1. page' = page /\ requests' = Without(i) /\ UNCHANGED tables
          /\ requests[i].part \in {"create", "action", "reset"}
      BY <1>5, <2>2 DEF ActionAnswered, Heard, Shows, Rest, serverVars
    <3>2. requests[i].part # "list" /\ ~Written(requests[i])
      BY <2>2, <3>1 DEF Written, Well
    <3>3. QED
      BY <1>2, <3>1, <3>2, ListRests
  <2>3. QED
    BY <2>1, <2>2
<1>6. CASE LoseAnswer(i)
  <2>1. requests' = Without(i) /\ UNCHANGED tables /\ requests[i].stage \in {"answered", "refused"}
    BY <1>6 DEF LoseAnswer, serverVars
  <2>2. CASE requests[i].part = "list"
    <3>1. page' = [p EXCEPT !.loading = FALSE, !.error = TRUE]
      BY <1>3, <1>6, <2>2 DEF LoseAnswer
    <3>2. /\ page'.kind = page.kind /\ page'.query = page.query /\ page'.missed = page.missed /\ page'.error
      BY <1>1, <1>3, <3>1, PageFieldsAre
    <3>3. QED
      BY <2>1, <2>2, <3>2, ListAnswered
  <2>3. CASE requests[i].part # "list"
    <3>1. page' = [p EXCEPT !.missed = TRUE, !.unseen = TRUE]
      BY <1>2, <1>3, <1>6, <2>3 DEF LoseAnswer
    <3>2. page'.kind = page.kind /\ page'.query = page.query /\ page'.missed
      BY <1>1, <1>3, <3>1, PageFieldsAre
    <3>3. QED
      BY <1>2, <2>1, <2>3, <3>2, ListRests
  <2>4. QED
    BY <2>2, <2>3
<1>7. QED
  BY <1>4, <1>5, <1>6

\* What others do.
LEMMA ListOthers ==
  ASSUME IInv, ListInv, InList, Elsewhere \/ Expiry \/ UNCHANGED vars
  PROVE  ListInv'
<1>1. CASE Elsewhere
  <2>1. PICK n \in Asks(page.kind) : requests' = Put(requests, n)
    BY <1>1 DEF Elsewhere
  <2>2. FreeSlots(requests) # {} /\ UNCHANGED tables /\ page' = page
    BY <1>1 DEF Elsewhere, serverVars
  <2>3. PICK k \in FreeSlots(requests) : requests' = [requests EXCEPT ![k] = n]
    BY <2>1, <2>2, PutIsThere
  <2>4. n.part = "none"
    BY AsksNone DEF IInv, TypeOK
  <2>5. k \in Slots /\ requests[k] = NoRequest /\ DOMAIN requests = Slots
    BY <2>3 DEF FreeSlots, IInv, RequestsSound
  <2>6. requests[k].part # "list" /\ ~Written(requests[k]) /\ n.part # "list" /\ OfList(n, page.query)
    BY <2>4, <2>5 DEF NoRequest, Written, OfList
  <2>7. QED
    BY <2>2, <2>3, <2>5, <2>6, ListRests
<1>2. CASE Expiry
  <2>1. page' = page /\ requests' = requests /\ UNCHANGED tables
    BY <1>2 DEF Expiry, WindowEnds, SessionExpires
  <2>2. QED
    BY <2>1, ListRests
<1>3. CASE UNCHANGED vars
  <2>1. page' = page /\ requests' = requests /\ UNCHANGED tables
    BY <1>3 DEF vars, directoryVars
  <2>2. QED
    BY <2>1, ListRests
<1>4. QED
  BY <1>1, <1>2, <1>3

LEMMA ListNext ==
  ASSUME IInv, ListInv, [Next]_vars
  PROVE  ListInv'
<1>1. IInv' /\ page'.kind = page.kind
  BY NextStays DEF Stays
<1>2. SUFFICES ASSUME InList
               PROVE  ListInv'
  BY <1>1 DEF ListInv, InList
<1>3. CASE Acts \/ SearchDebounced
  <2>1. CASE Acts
    <3>1. \A row : ~(RemoveStudent(row) \/ DeleteStudent(row) \/ EditStudent(row))
      BY <1>2 DEF InList, InRoster, RemoveStudent, DeleteStudent, EditStudent
    <3>2. \A a : ~(AddStudent(a) \/ CreateStudent(a) \/ SubmitRegister(a) \/ ImportStudents(a))
      BY <1>2 DEF InList, InRoster, InBrowser, AddStudent, CreateStudent, SubmitRegister, ImportStudents
    <3>3. \A e, f : ~SubmitLogin(e, f)
      BY <1>2 DEF InList, InBrowser, SubmitLogin
    <3>4. ~(SearchStudents \/ OpenPage \/ HandleLogout)
      BY <1>2 DEF InList, InRoster, InBrowser, SearchStudents, OpenPage, HandleLogout
    <3>5. QED
      BY <1>2, <2>1, <3>1, <3>2, <3>3, <3>4, ListQueries, ListActs DEF Acts
  <2>2. CASE SearchDebounced
    <3>1. PICK p, q : p = page /\ q = page.search
      OBVIOUS
    <3> DEFINE r == [p EXCEPT !.query.search = q]
    <3>2. Load(r, requests)
      BY <1>2, <2>2, <3>1 DEF SearchDebounced
    <3>3. DOMAIN page = DOMAIN InitialPage("users") /\ DOMAIN requests = Slots
      BY DEF IInv, PageOK, RequestsSound
    <3>4. DOMAIN r = DOMAIN page /\ r.kind = page.kind
      BY <3>1, <3>3, PageFieldsAre
    <3> HIDE DEF r
    <3>5. QED
      BY <1>2, <3>2, <3>3, <3>4, ListLoads
  <2>3. QED
    BY <1>3, <2>1, <2>2
<1>4. CASE \E i \in Slots : ServeStep(i) \/ FailStep(i)
  BY <1>1, <1>4, ListServed DEF ServeStep, FailStep
<1>5. CASE \E i \in Slots : LoseAnswer(i) \/ LoadAnswered(i) \/ ActionAnswered(i)
  BY <1>2, <1>5, ListHears
<1>6. ASSUME NEW i \in Slots
      PROVE  ~(AvailableAnswered(i) \/ RosterAnswered(i) \/ BrowserAnswered(i))
  <2>1. requests[i].part \in {"none", "list", "create", "action", "reset"}
    BY <1>2 DEF ListInv, ListRequests, OfList
  <2>2. QED
    BY <1>2, <2>1 DEF AvailableAnswered, RosterAnswered, BrowserAnswered, Heard, InRoster, InList
<1>7. CASE Elsewhere \/ Expiry \/ UNCHANGED vars
  BY <1>2, <1>7, ListOthers
<1>8. QED
  BY <1>3, <1>4, <1>5, <1>6, <1>7 DEF Next

LEMMA ListInit ==
  ASSUME Init
  PROVE  ListInv
<1> SUFFICES ASSUME InList
             PROVE  ListInv
  BY DEF ListInv
<1>1. PICK kind, t, p :
        /\ kind \in Kinds /\ t \in {0, 1}
        /\ Bare(p, kind, t)
        /\ kind = "browser" => page = p /\ requests = NoneYet
        /\ kind = "roster" => /\ page = [p EXCEPT !.rows = {RosterRow(1)}]
                              /\ requests = Put(NoneYet, AskAvailable(p))
        /\ kind \in {"users", "classes"} => /\ page = [p EXCEPT !.loading = TRUE]
                                            /\ requests = Put(NoneYet, AskList(p))
  BY FirstPage
<1>2. DOMAIN p = DOMAIN InitialPage("users") /\ p.kind = kind
  BY <1>1 DEF Bare
<1>3. kind \in {"users", "classes"} /\ page.query = p.query
  <2>1. page.kind = kind /\ (kind \in {"users", "classes"} => page.query = p.query)
    BY <1>1, <1>2, PageFieldsAre DEF Kinds
  <2>2. QED
    BY <2>1 DEF InList
<1> DEFINE n == AskList(p)
<1>4. n.part = "list" /\ n.stage = "sent" /\ n.query = p.query
  <2>1. PICK a : a = Ask(p.kind, "list")
    OBVIOUS
  <2>2. DOMAIN a = Fields /\ a.part = "list" /\ a.stage = "sent"
    BY <2>1, AskFields
  <2>3. n = [a EXCEPT !.query = p.query]
    BY <2>1 DEF AskList
  <2>4. QED
    BY <2>2, <2>3, FieldsAre
<1>5. requests = Put(NoneYet, n)
  BY <1>1, <1>3
<1> HIDE DEF n
<1>6. 1 \in FreeSlots(NoneYet)
  BY DirectoryAssumption, PagesAssumption DEF FreeSlots, NoneYet, Slots
<1>7. PICK k \in FreeSlots(NoneYet) : requests = [NoneYet EXCEPT ![k] = n]
  BY <1>5, <1>6, PutIsThere
<1>8. k \in Slots /\ requests[k] = n /\ \A j \in Slots \ {k} : requests[j] = NoRequest
  BY <1>7 DEF FreeSlots, NoneYet
<1>9. OfList(NoRequest, page.query) /\ NoRequest.part # "list" /\ OfList(n, page.query)
  BY <1>3, <1>4 DEF OfList, NoRequest
<1>10. ListRequests
  BY <1>8, <1>9 DEF ListRequests
<1>11. ShowsNow
  <2>1. Read(n, TotalNow, RowsNow)
    BY <1>4 DEF Read
  <2>2. QED
    BY <1>4, <1>8, <1>9, <2>1 DEF ShowsNow
<1>12. QED
  BY <1>10, <1>11 DEF ListInv

\* A list of accounts or of classes that rests, that nobody else has changed and
\* whose answers have all come shows what the tables have for the query of the
\* page, whichever answers came late: a request for the query before is not
\* waited for (useEffect's cancelled in user-list.tsx and class-list.tsx), and
\* what its own user has done is on it, for the list is loaded again.
THEOREM ListsAreFresh == Spec => []ListIsFresh
<1>1. IInv /\ ListInv => ListIsFresh
  <2> SUFFICES ASSUME IInv, ListInv, InList, ~Waiting({"list", "create", "action", "reset"}),
                      ~page.error, ~page.missed
               PROVE  page.rows = RowsNow /\ page.total = TotalNow
    BY DEF ListIsFresh, RowsNow, TotalNow
  <2>1. \A i \in Slots : requests[i].part # "list" /\ ~Written(requests[i])
    BY DEF Waiting, Written
  <2>2. QED
    BY <2>1 DEF ListInv, ShowsNow
<1>2. Init => IInv /\ ListInv
  BY InitSound, ListInit
<1>3. IInv /\ ListInv /\ [Next]_vars => IInv' /\ ListInv'
  BY NextSound, ListNext
<1>4. QED
  BY <1>1, <1>2, <1>3, PTL DEF Spec

-----------------------------------------------------------------------------
(***************************************************************************)
(* ClassPageShowsClass, with what makes it inductive.  While one change of *)
(* the roster is under way, the rows lack at most what it has written, and *)
(* an answer to it has, or makes of the rows, the roster as it is.  The    *)
(* students to add are right but for the student an import is about to     *)
(* enrol, or the answer that is due will ask for them again, for it brings *)
(* another number of rows.                                                 *)
(***************************************************************************)

Changes(r) == r.part \in RosterParts
Halfway == {"row", "class", "checked", "free", "made", "owned", "ready", "enrolled", "listing"}
Half(r) == Changes(r) /\ r.kind \in Joining /\ r.stage \in Halfway
Pends(r) ==
  Changes(r) /\ r.kind \in {"createStudent", "import"} /\ r.stage \in {"made", "owned", "ready"}
OfRoster(r, search) ==
  /\ r.part \in {"none", "available"} \union RosterParts
  /\ r.part = "none" => r.kind \notin {"available", "createStudent", "import"}
  /\ r.part = "available" =>
       /\ r.kind = "available" /\ r.class = 1 /\ r.query.search = search
       /\ r.stage \in {"sent", "owned", "others", "answered", "refused"}
  /\ Changes(r) =>
       /\ r.kind \in Joining \union {"remove"} => r.class = 1
       /\ r.stage \in IF r.kind \in Joining THEN Halfway \union {"sent", "counted", "answered", "refused"}
                      ELSE {"sent", "account", "owned", "ready", "answered", "refused"}

AllRows == {RosterRow(a) : a \in enrolled[1]}
ActiveRows == {RosterRow(a) : a \in {b \in enrolled[1] : Active(b)}}
Fit(rows, all, there) == rows \subseteq all /\ there \subseteq rows
After(r, rows) ==
  CASE r.kind \in {"remove", "deleteStudent"} -> {row \in rows : row.id # r.id}
    [] OTHER -> {[row EXCEPT !.renamed = @ \/ row.id = r.id] : row \in rows}
Changed(r, rows, all, there) ==
  IF r.stage = "answered" THEN IF r.kind \in Joining THEN r.shown = all ELSE Fit(After(r, rows), all, there)
  ELSE rows \subseteq all /\ (Half(r) \/ there \subseteq rows)
RosterNow ==
  /\ (\A i \in Slots : ~Changes(requests[i])) => Fit(page.rows, AllRows, ActiveRows)
  /\ \A i \in Slots : Changes(requests[i]) => Changed(requests[i], page.rows, AllRows, ActiveRows)

Pending == {requests[i].id : i \in {j \in Slots : Pends(requests[j])}}
Others == StudentsMatching(page.query) \ enrolled[1]
Agrees(S, pending, others) == S \ pending = others \ pending
Search(r, members, pending, others) ==
  /\ r.stage = "others" => r.shown = members
  /\ r.stage = "answered" => Agrees(r.shown, pending, others)
SourceNow ==
  /\ (\A i \in Slots : requests[i].part # "available") => Agrees(page.available, Pending, Others)
  /\ \A i \in Slots : requests[i].part = "available" => Search(requests[i], enrolled[1], Pending, Others)
AsksAgain(r, rows, size) ==
  /\ Changes(r)
  /\ \/ r.kind \in Joining /\ (Half(r) \/ r.stage = "answered") /\ size > Cardinality(rows)
     \/ r.kind = "remove" /\ r.stage = "answered" /\ \E row \in rows : row.id = r.id
Reruns == \E i \in Slots : AsksAgain(requests[i], page.rows, Cardinality(enrolled[1]))

RosterRequests ==
  /\ \A i \in Slots : OfRoster(requests[i], page.query.search)
  /\ \A i, j \in Slots : requests[i].part = "available" /\ requests[j].part = "available" => i = j
OneChange ==
  /\ \A i, j \in Slots : Changes(requests[i]) /\ Changes(requests[j]) => i = j
  /\ \A i \in Slots : Changes(requests[i]) /\ requests[i].kind \notin Joining =>
       \E row \in page.rows : row.id = requests[i].id
  /\ Pending \cap strayed = {}
Strangers == \A a \in strayed \union Pending : a \in Accounts /\ account[a].role # "none"

RosterInv ==
  InRoster =>
    /\ RosterRequests /\ Strangers /\ (page.missed => page.unseen)
    /\ page.crossed \/ /\ OneChange /\ (page.missed \/ RosterNow)
                       /\ page.unseen \/ Reruns \/ SourceNow

-----------------------------------------------------------------------------
(* How many rows there are.                                                *)

LEMMA AsManyRows ==
  ASSUME IInv
  PROVE  /\ IsFiniteSet(enrolled[1]) /\ IsFiniteSet(AllRows)
         /\ Cardinality(AllRows) = Cardinality(enrolled[1])
<1>1. enrolled[1] \subseteq Accounts
  BY Zeros DEF IInv, TablesTyped
<1>2. IsFiniteSet(Accounts)
  BY FS_Interval, DirectoryAssumption DEF Accounts
<1>3. IsFiniteSet(enrolled[1])
  BY <1>1, <1>2, FS_Subset
<1> DEFINE f == [a \in enrolled[1] |-> RosterRow(a)]
<1>4. f \in Bijection(enrolled[1], AllRows)
  <2>1. \A a : RosterRow(a).id = a
    BY DEF RosterRow
  <2>2. f \in [enrolled[1] -> AllRows]
    BY DEF AllRows
  <2>3. \A a, b \in enrolled[1] : f[a] = f[b] => a = b
    BY <2>1
  <2>4. \A row \in AllRows : \E a \in enrolled[1] : f[a] = row
    BY DEF AllRows
  <2> HIDE DEF f
  <2>5. QED
    BY <2>2, <2>3, <2>4 DEF Bijection, Injection, Surjection, IsInjective
<1>5. QED
  BY <1>3, <1>4, FS_Bijection DEF ExistsBijection

LEMMA FewerRows ==
  ASSUME NEW S, IsFiniteSet(S), NEW T \in SUBSET S, NEW x \in S, x \notin T
  PROVE  Cardinality(T) < Cardinality(S)
<1>1. Cardinality(T) <= Cardinality(S) /\ Cardinality(T) # Cardinality(S)
      /\ Cardinality(S) \in Nat /\ Cardinality(T) \in Nat
  BY FS_Subset, FS_CardinalityType
<1>2. QED
  BY <1>1

-----------------------------------------------------------------------------
(***************************************************************************)
(* What a server step does for a change of the roster.                     *)
(***************************************************************************)

\* It goes on, or is refused, and writes nothing.
Proceeds(r, n) ==
  /\ Pends(n) => Pends(r) /\ n.id = r.id
  /\ Pends(r) => Pends(n)
  /\ n.stage # "answered" /\ (Half(r) => Half(n) \/ n.stage = "refused")
  /\ UNCHANGED <<tables, strayed>>
\* An account that it has made is left behind.
LeavesBehind(r, n) ==
  /\ Pends(r) /\ ~Pends(n) /\ n.stage # "answered"
  /\ UNCHANGED tables /\ strayed' = strayed \union {r.id}
MakesAccount(r, n) ==
  /\ ~Pends(r) /\ Pends(n) /\ Half(r)
  /\ n.id \in Accounts /\ account[n.id] = NoAccount
  /\ \E email : account' = [account EXCEPT ![n.id] = NewAccount(email, "student")]
  /\ UNCHANGED <<class, enrolled, strayed>>
Enrols(r, n) ==
  /\ r.kind \in Joining /\ Half(r) /\ Half(n) /\ ~Pends(n)
  /\ r.id \notin enrolled[1] /\ enrolled' = [enrolled EXCEPT ![1] = @ \union {r.id}]
  /\ r.kind \in {"createStudent", "import"} => Pends(r)
  /\ UNCHANGED <<account, class, strayed>>
ReadsRoster(r, n) ==
  /\ Half(r) /\ ~Pends(r) /\ n.stage = "answered" /\ n.shown = AllRows /\ UNCHANGED <<tables, strayed>>
TakesOut(r, n) ==
  /\ r.kind = "remove" /\ n.stage = "answered" /\ enrolled' = [enrolled EXCEPT ![1] = @ \ {r.id}]
  /\ UNCHANGED <<account, class, strayed>>
Writes(r, n) ==
  /\ r.kind \in {"deleteStudent", "editStudent"} /\ n.stage = "answered"
  /\ account' = [account EXCEPT ![r.id] =
                   IF r.kind = "editStudent" THEN [account[r.id] EXCEPT !.renamed = TRUE]
                   ELSE [account[r.id] EXCEPT !.deleted = TRUE, !.status = "disabled"]]
  /\ UNCHANGED <<class, enrolled, strayed>>

Serves(r, n) ==
  \/ Proceeds(r, n) \/ LeavesBehind(r, n) \/ MakesAccount(r, n) \/ Enrols(r, n)
  \/ ReadsRoster(r, n) \/ TakesOut(r, n) \/ Writes(r, n)

\* All that is kept of a change, and the stages it may reach.
SameChange(r, n) ==
  /\ DOMAIN n = Fields /\ n.part = r.part /\ n.kind = r.kind /\ n.class = r.class
  /\ r.kind \notin Joining => n.id = r.id
  /\ n.stage \in IF r.kind \in Joining THEN Halfway \union {"sent", "counted", "answered", "refused"}
                 ELSE {"sent", "account", "owned", "ready", "answered", "refused"}
  /\ r.stage = "listing" => n.stage \in {"answered", "refused"}

ChangeServed(i) ==
  /\ SameChange(requests[i], requests'[i]) /\ Serves(requests[i], requests'[i])

\* The kind and the stages of a change that the server works on.
LEMMA ChangeIs ==
  ASSUME IInv, InRoster, NEW i \in Slots, NEW r, r = requests[i], Changes(r), OfRoster(r, page.query.search)
  PROVE  /\ DOMAIN r = Fields /\ r.part # "none"
         /\ r.kind \in Joining \union {"remove", "deleteStudent", "editStudent"}
         /\ r.kind \in Joining \union {"remove"} => r.class = 1
         /\ r.stage \in IF r.kind \in Joining THEN Halfway \union {"sent", "counted", "answered", "refused"}
                        ELSE {"sent", "account", "owned", "ready", "answered", "refused"}
         /\ r.stage = "counted" => r.kind = "import"
         /\ r.stage = "sent" => r.kind # "createStudent"
         /\ r.stage = "row" => r.kind \in Joining
         /\ r.stage = "ready" /\ r.kind = "editStudent" => r.id \in Accounts
<1>1. Sound(r, tokens, account, enrolled, removed, strayed, page.kind)
  BY SlotFacts
<1>2. DOMAIN r = Fields /\ r.part # "none"
      /\ r.kind \in Joining \union {"remove", "deleteStudent", "editStudent"}
  BY <1>1 DEF Sound, Form, OfPage, Changes, RosterParts, InRoster
<1>3. r.stage = "counted" => r.kind = "import"
  BY <1>1, <1>2 DEF Sound, AtStage, Limited, Joining
<1>4. QED
  BY <1>1, <1>2, <1>3 DEF OfRoster, Sound, AtStage, OfKind, OfAccount, Halfway

\* It is refused, or a row of the file fails, and what it has made is left behind.
LEMMA ChangeFails ==
  ASSUME IInv, InRoster, NEW i \in Slots, NEW r, r = requests[i], Changes(r), OfRoster(r, page.query.search),
         r.stage \notin {"answered", "refused"},
         Refuse(i) \/ RowFails(i), UNCHANGED tables,
         strayed' = IF Pends(r) THEN strayed \union {r.id} ELSE strayed
  PROVE  ChangeServed(i)
<1>1. /\ DOMAIN r = Fields /\ r.part # "none"
  BY ChangeIs
<1>2. CASE Refuse(i)
  <2>1. requests'[i] = [r EXCEPT !.stage = "refused"]
    BY <1>1, <1>2, SlotFacts DEF Refuse
  <2>2. PICK n : n = requests'[i]
    OBVIOUS
  <2>3. /\ DOMAIN n = Fields /\ n.stage = "refused" /\ n.part = r.part /\ n.kind = r.kind
        /\ n.class = r.class /\ n.id = r.id
    BY <1>1, <2>1, <2>2, Moved
  <2>4. SameChange(r, n)
    BY <2>3 DEF SameChange
  <2>5. Proceeds(r, n) \/ LeavesBehind(r, n)
    BY <2>3 DEF Proceeds, LeavesBehind, Pends
  <2>6. QED
    BY <2>2, <2>4, <2>5 DEF ChangeServed, Serves
<1>3. CASE RowFails(i) /\ InRow(i)
  <2>1. requests'[i] = RowDone(r, "failed") /\ r.kind = "import" /\ r.stage # "listing"
    BY <1>3, SlotFacts DEF RowFails, InRow
  <2>2. PICK n : n = requests'[i]
    OBVIOUS
  <2>3. /\ DOMAIN n = Fields /\ n.stage = "row" /\ n.part = r.part /\ n.kind = r.kind
        /\ n.class = r.class
    BY <1>1, <2>1, <2>2, FieldsAre DEF RowDone
  <2>4. SameChange(r, n)
    BY <2>1, <2>3 DEF SameChange, Halfway, Joining
  <2>5. Half(n)
    BY <2>1, <2>3 DEF Half, Halfway, Joining, Changes
  <2>6. Proceeds(r, n) \/ LeavesBehind(r, n)
    BY <2>3, <2>5 DEF Proceeds, LeavesBehind, Pends
  <2>7. QED
    BY <2>2, <2>4, <2>6 DEF ChangeServed, Serves
<1>4. QED
  BY <1>2, <1>3 DEF RowFails

\* It goes on to another stage.
LEMMA ChangeProceeds ==
  ASSUME IInv, InRoster, NEW i \in Slots, NEW r, r = requests[i], Changes(r), OfRoster(r, page.query.search),
         NEW n, Becomes(i, n), UNCHANGED <<tables, strayed>>,
         DOMAIN n = Fields, n.part = r.part, n.kind = r.kind, n.class = r.class, n.id = r.id,
         n.stage \in IF r.kind \in Joining THEN Halfway \union {"sent", "counted"}
                     ELSE {"sent", "account", "owned", "ready"},
         r.kind \in {"createStudent", "import"} =>
           (n.stage \in {"made", "owned", "ready"} <=> r.stage \in {"made", "owned", "ready"}),
         r.stage \in Halfway => n.stage \in Halfway, r.stage # "listing"
  PROVE  ChangeServed(i)
<1>1. requests'[i] = n
  BY SlotFacts
<1>2. SameChange(r, n)
  BY DEF SameChange
<1>3. Pends(n) <=> Pends(r)
  BY DEF Pends, Changes
<1>4. Half(r) => Half(n)
  BY DEF Half, Changes
<1>5. n.stage # "answered"
  BY DEF Halfway
<1>6. Proceeds(r, n)
  BY <1>3, <1>4, <1>5 DEF Proceeds
<1>7. QED
  BY <1>1, <1>2, <1>6 DEF ChangeServed, Serves

\* Only its stage changes.
LEMMA ChangeMoves ==
  ASSUME IInv, InRoster, NEW i \in Slots, NEW r, r = requests[i], Changes(r), OfRoster(r, page.query.search),
         NEW s, Becomes(i, [r EXCEPT !.stage = s]), UNCHANGED <<tables, strayed>>,
         s \in IF r.kind \in Joining THEN Halfway \union {"sent", "counted"}
               ELSE {"sent", "account", "owned", "ready"},
         r.kind \in {"createStudent", "import"} =>
           (s \in {"made", "owned", "ready"} <=> r.stage \in {"made", "owned", "ready"}),
         r.stage \in Halfway => s \in Halfway, r.stage # "listing"
  PROVE  ChangeServed(i)
<1>1. DOMAIN r = Fields
  BY SlotFacts
<1> DEFINE n == [r EXCEPT !.stage = s]
<1>2. /\ DOMAIN n = Fields /\ n.stage = s /\ n.part = r.part /\ n.kind = r.kind /\ n.class = r.class
      /\ n.id = r.id
  BY <1>1, Moved
<1>3. Becomes(i, n)
  OBVIOUS
<1> HIDE DEF n
<1>4. QED
  BY <1>2, <1>3, ChangeProceeds

LEMMA ChangeCounted ==
  ASSUME IInv, InRoster, NEW i \in Slots, NEW r, r = requests[i], Changes(r), OfRoster(r, page.query.search),
         CountRequest(i) \/ CheckRateLimit(i)
  PROVE  ChangeServed(i)
<1>1. /\ DOMAIN r = Fields /\ r.kind \in Joining \union {"remove", "deleteStudent", "editStudent"}
      /\ r.stage = "counted" => r.kind = "import"
  BY ChangeIs
<1>2. UNCHANGED <<tables, strayed>>
  BY DEF CountRequest, CheckRateLimit, history
<1>3. CASE CountRequest(i)
  <2>1. r.kind = "import" /\ r.stage = "sent"
    BY <1>1, <1>3 DEF CountRequest, Joining, OfRoster, Halfway, Changes
  <2>2. PICK v, c : Becomes(i, [r EXCEPT !.stage = "counted", !.value = v, !.count = c])
    BY <1>3 DEF CountRequest
  <2> DEFINE n == [r EXCEPT !.stage = "counted", !.value = v, !.count = c]
  <2>3. /\ DOMAIN n = Fields /\ n.stage = "counted" /\ n.part = r.part /\ n.kind = r.kind
        /\ n.class = r.class /\ n.id = r.id
    BY <1>1, FieldsAre
  <2>4. Becomes(i, n)
    BY <2>2
  <2> HIDE DEF n
  <2>5. QED
    BY <1>2, <2>1, <2>3, <2>4, ChangeProceeds DEF Joining, Halfway
<1>4. CASE CheckRateLimit(i)
  <2>1. r.kind = "import" /\ r.stage = "counted"
    BY <1>1, <1>4 DEF CheckRateLimit
  <2>2. Refuse(i) \/ Becomes(i, [r EXCEPT !.stage = "row"])
    BY <1>4, <2>1 DEF CheckRateLimit, AfterLimit
  <2>3. CASE Refuse(i)
    BY <1>2, <2>1, <2>3, ChangeFails DEF Pends
  <2>4. CASE Becomes(i, [r EXCEPT !.stage = "row"])
    BY <1>2, <2>1, <2>4, ChangeMoves DEF Joining, Halfway
  <2>5. QED
    BY <2>2, <2>3, <2>4
<1>5. QED
  BY <1>3, <1>4

LEMMA ChangeParsed ==
  ASSUME IInv, InRoster, NEW i \in Slots, NEW r, r = requests[i], Changes(r), OfRoster(r, page.query.search),
         ParseFile(i)
  PROVE  ChangeServed(i)
<1>1. /\ DOMAIN r = Fields /\ r.kind = "import" /\ r.stage = "row" /\ UNCHANGED <<tables, strayed>>
  BY SlotFacts DEF ParseFile, At, history
<1>2. \/ Refuse(i)
      \/ Becomes(i, [r EXCEPT !.stage = "enrolled"])
      \/ Becomes(i, RowDone(r, "failed"))
      \/ \E e : Becomes(i, [r EXCEPT !.stage = "class", !.email = e])
  BY <1>1 DEF ParseFile
<1>3. CASE Refuse(i)
  BY <1>1, <1>3, ChangeFails DEF Pends
<1>4. CASE Becomes(i, [r EXCEPT !.stage = "enrolled"])
  BY <1>1, <1>4, ChangeMoves DEF Joining, Halfway
<1>5. CASE Becomes(i, RowDone(r, "failed"))
  <2> DEFINE n == RowDone(r, "failed")
  <2>1. /\ DOMAIN n = Fields /\ n.stage = "row" /\ n.part = r.part /\ n.kind = r.kind /\ n.class = r.class
    BY <1>1, FieldsAre DEF RowDone
  <2>2. requests'[i] = n
    BY <1>5, SlotFacts
  <2> HIDE DEF n
  <2>3. SameChange(r, n) /\ Half(n)
    BY <1>1, <2>1 DEF SameChange, Half, Halfway, Joining, Changes
  <2>4. Proceeds(r, n)
    BY <1>1, <2>1, <2>3 DEF Proceeds, Pends
  <2>5. QED
    BY <2>2, <2>3, <2>4 DEF ChangeServed, Serves
<1>6. CASE \E e : Becomes(i, [r EXCEPT !.stage = "class", !.email = e])
  <2>1. PICK e : Becomes(i, [r EXCEPT !.stage = "class", !.email = e])
    BY <1>6
  <2> DEFINE n == [r EXCEPT !.stage = "class", !.email = e]
  <2>2. /\ DOMAIN n = Fields /\ n.stage = "class" /\ n.part = r.part /\ n.kind = r.kind
        /\ n.class = r.class /\ n.id = r.id
    BY <1>1, FieldsAre
  <2>3. Becomes(i, n)
    BY <2>1
  <2> HIDE DEF n
  <2>4. QED
    BY <1>1, <2>2, <2>3, ChangeProceeds DEF Joining, Halfway
<1>7. QED
  BY <1>2, <1>3, <1>4, <1>5, <1>6

\* strayed is what Strays makes of it.
LEMMA StraysIs ==
  ASSUME NEW i, NEW r, r = requests[i], Changes(r), Strays(i)
  PROVE  strayed' = IF Pends(r) THEN strayed \union {r.id} ELSE strayed
BY DEF Strays, Pends

LEMMA ChangeLooks ==
  ASSUME IInv, InRoster, NEW i \in Slots, NEW r, r = requests[i], Changes(r), OfRoster(r, page.query.search),
         RequireOwnedClass(i) \/ FindEmail(i) \/ FindEnrolled(i)
  PROVE  ChangeServed(i)
<1>1. /\ DOMAIN r = Fields /\ r.kind \in Joining \union {"remove", "deleteStudent", "editStudent"}
      /\ r.stage = "sent" => r.kind # "createStudent"
      /\ r.kind \notin Joining => r.stage \in {"sent", "account", "owned", "ready", "answered", "refused"}
  BY ChangeIs
<1>2. UNCHANGED tables
  BY DEF RequireOwnedClass, FindEmail, FindEnrolled
<1>3. CASE RequireOwnedClass(i)
  <2>1. /\ r.kind \in {"createStudent", "import", "add", "remove"}
        /\ r.stage \in {"class", "made", "enrolled"} \/ (r.stage = "sent" /\ r.kind # "import")
    BY <1>1, <1>3 DEF RequireOwnedClass, Joining
  <2>2. CASE Owned(r.class)
    <3>1. PICK s : s = NextStage(r)
      OBVIOUS
    <3>2. Becomes(i, [r EXCEPT !.stage = s]) /\ UNCHANGED strayed
      BY <1>3, <2>2, <3>1 DEF RequireOwnedClass
    <3>3. /\ r.stage = "class" => s = "checked"
          /\ r.stage \in {"made", "sent"} => s = "owned"
          /\ r.stage = "enrolled" => s = "listing"
      BY <2>1, <3>1 DEF NextStage
    <3>4. s \in IF r.kind \in Joining THEN Halfway \union {"sent", "counted"}
                ELSE {"sent", "account", "owned", "ready"}
      BY <1>1, <2>1, <3>3 DEF Joining, Halfway
    <3>5. r.kind \in {"createStudent", "import"} =>
            (s \in {"made", "owned", "ready"} <=> r.stage \in {"made", "owned", "ready"})
      BY <1>1, <2>1, <3>3
    <3>6. r.stage \in Halfway => s \in Halfway
      BY <2>1, <3>3 DEF Halfway
    <3>7. r.stage # "listing"
      BY <2>1
    <3>8. QED
      BY <1>2, <3>2, <3>4, <3>5, <3>6, <3>7, ChangeMoves
  <2>3. CASE ~Owned(r.class)
    <3>1. RowFails(i) /\ Strays(i)
      BY <1>3, <2>3 DEF RequireOwnedClass
    <3>2. QED
      BY <1>2, <2>1, <3>1, StraysIs, ChangeFails
  <2>4. QED
    BY <2>2, <2>3
<1>4. CASE FindEmail(i)
  <2>1. r.kind \in {"createStudent", "import"} /\ r.stage = "checked" /\ UNCHANGED strayed
    BY <1>1, <1>4 DEF FindEmail, Creating, Joining, At, history
  <2>2. RowFails(i) \/ Becomes(i, [r EXCEPT !.stage = "free"])
    BY <1>4 DEF FindEmail
  <2>3. CASE RowFails(i)
    BY <1>2, <2>1, <2>3, ChangeFails DEF Pends
  <2>4. CASE Becomes(i, [r EXCEPT !.stage = "free"])
    BY <1>2, <2>1, <2>4, ChangeMoves DEF Joining, Halfway
  <2>5. QED
    BY <2>2, <2>3, <2>4
<1>5. CASE FindEnrolled(i)
  <2>1. r.kind \in {"createStudent", "import", "add"} /\ r.stage = "owned"
    BY <1>5 DEF FindEnrolled, At
  <2>2. (RowFails(i) /\ Strays(i)) \/ (Becomes(i, [r EXCEPT !.stage = "ready"]) /\ UNCHANGED strayed)
    BY <1>5 DEF FindEnrolled
  <2>3. CASE RowFails(i) /\ Strays(i)
    BY <1>2, <2>1, <2>3, StraysIs, ChangeFails
  <2>4. CASE Becomes(i, [r EXCEPT !.stage = "ready"]) /\ UNCHANGED strayed
    BY <1>2, <2>1, <2>4, ChangeMoves DEF Joining, Halfway
  <2>5. QED
    BY <2>2, <2>3, <2>4
<1>6. QED
  BY <1>3, <1>4, <1>5

LEMMA ChangeFound ==
  ASSUME IInv, InRoster, NEW i \in Slots, NEW r, r = requests[i], Changes(r), OfRoster(r, page.query.search),
         AssertStudentInTeachersRoster(i) \/ RequireActiveUser(i)
  PROVE  ChangeServed(i)
<1>1. r.kind \in Joining \union {"remove", "deleteStudent", "editStudent"}
  BY ChangeIs
<1>2. UNCHANGED <<tables, strayed>>
  BY DEF AssertStudentInTeachersRoster, RequireActiveUser, history
<1>3. r.kind \in {"deleteStudent", "editStudent"} /\ r.stage \in {"sent", "account"}
  BY <1>1 DEF AssertStudentInTeachersRoster, RequireActiveUser, At, Joining
<1>4. Refuse(i) \/ \E s \in {"account", "ready"} : Becomes(i, [r EXCEPT !.stage = s])
  BY DEF AssertStudentInTeachersRoster, RequireActiveUser
<1>5. CASE Refuse(i)
  BY <1>2, <1>3, <1>5, ChangeFails DEF Pends
<1>6. CASE \E s \in {"account", "ready"} : Becomes(i, [r EXCEPT !.stage = s])
  BY <1>2, <1>3, <1>6, ChangeMoves DEF Joining, Halfway
<1>7. QED
  BY <1>4, <1>5, <1>6

LEMMA ChangeCrashes ==
  ASSUME IInv, InRoster, NEW i \in Slots, NEW r, r = requests[i], Changes(r), OfRoster(r, page.query.search),
         Fail(i)
  PROVE  ChangeServed(i)
<1>1. r.stage \notin {"answered", "refused"} /\ (Refuse(i) \/ RowFails(i)) /\ UNCHANGED tables /\ Strays(i)
  BY DEF Fail, Writing
<1>2. QED
  BY <1>1, StraysIs, ChangeFails

\* The account that a student is made of was not there.
LEMMA ChangeInserts ==
  ASSUME IInv, InRoster, NEW i \in Slots, NEW r, r = requests[i], Changes(r), OfRoster(r, page.query.search),
         InsertAccount(i)
  PROVE  ChangeServed(i)
<1>1. /\ DOMAIN r = Fields /\ r.kind \in {"createStudent", "import"} /\ r.stage = "free"
      /\ UNCHANGED <<class, enrolled, strayed>>
  BY ChangeIs DEF InsertAccount, Creating, Joining, history
<1>2. CASE Taken(r.email)
  BY <1>1, <1>2, ChangeFails DEF InsertAccount, Pends, tables
<1>3. CASE ~Taken(r.email)
  <2>1. PICK a \in Accounts : /\ FreeRow(a) /\ account' = [account EXCEPT ![a] = NewAccount(r.email, RoleOf(r))]
                              /\ AfterInsert(i, [r EXCEPT !.id = a])
    BY <1>3 DEF InsertAccount
  <2> DEFINE m == [r EXCEPT !.id = a]
             n == [m EXCEPT !.stage = "made"]
  <2>2. /\ DOMAIN n = Fields /\ n.stage = "made" /\ n.part = r.part /\ n.kind = r.kind /\ n.class = r.class
        /\ n.id = a /\ m.kind = r.kind
    BY <1>1, FieldsAre
  <2>3. Becomes(i, n)
    BY <1>1, <2>1, <2>2 DEF AfterInsert
  <2> HIDE DEF m, n
  <2>4. requests'[i] = n
    BY <2>3, SlotFacts
  <2>5. SameChange(r, n)
    BY <1>1, <2>2 DEF SameChange, Halfway, Joining
  <2>6. Pends(n) /\ ~Pends(r) /\ Half(r)
    BY <1>1, <2>2 DEF Pends, Half, Changes, Halfway, Joining
  <2>7. RoleOf(r) = "student" /\ account[a] = NoAccount
    BY <1>1, <2>1 DEF RoleOf, FreeRow
  <2>8. MakesAccount(r, n)
    BY <1>1, <2>1, <2>2, <2>6, <2>7 DEF MakesAccount
  <2>9. QED
    BY <2>4, <2>5, <2>8 DEF ChangeServed, Serves
<1>4. QED
  BY <1>2, <1>3

LEMMA ChangeEnrols ==
  ASSUME IInv, InRoster, NEW i \in Slots, NEW r, r = requests[i], Changes(r), OfRoster(r, page.query.search),
         AddStudentToClass(i)
  PROVE  ChangeServed(i)
<1>1. /\ DOMAIN r = Fields /\ r.kind \in {"createStudent", "import", "add"} /\ r.stage = "ready"
      /\ UNCHANGED <<account, class>> /\ r.class = 1
  BY ChangeIs DEF AddStudentToClass, At, Joining
<1>2. CASE r.id \in enrolled[1]
  <2>1. RowFails(i) /\ Strays(i) /\ UNCHANGED enrolled
    BY <1>1, <1>2 DEF AddStudentToClass
  <2>2. QED
    BY <1>1, <2>1, StraysIs, ChangeFails DEF tables
<1>3. CASE r.id \notin enrolled[1]
  <2>1. /\ enrolled' = [enrolled EXCEPT ![1] = @ \union {r.id}] /\ UNCHANGED strayed
        /\ Becomes(i, RowDone(r, "ok")) \/ Becomes(i, [r EXCEPT !.stage = "enrolled"])
    BY <1>1, <1>3, SlotFacts DEF AddStudentToClass
  <2>2. PICK n : n = requests'[i]
    OBVIOUS
  <2>3. /\ DOMAIN n = Fields /\ n.stage \in {"row", "enrolled"} /\ n.part = r.part /\ n.kind = r.kind
        /\ n.class = r.class
    <3>1. CASE Becomes(i, RowDone(r, "ok"))
      <4>1. n = RowDone(r, "ok")
        BY <2>2, <3>1, SlotFacts
      <4>2. QED
        BY <1>1, <4>1, FieldsAre DEF RowDone
    <3>2. CASE Becomes(i, [r EXCEPT !.stage = "enrolled"])
      <4>1. n = [r EXCEPT !.stage = "enrolled"]
        BY <2>2, <3>2, SlotFacts
      <4>2. QED
        BY <1>1, <4>1, FieldsAre
    <3>3. QED
      BY <2>1, <3>1, <3>2
  <2>4. SameChange(r, n)
    BY <1>1, <2>3 DEF SameChange, Halfway, Joining
  <2>5. r.kind \in Joining /\ Half(r) /\ Half(n) /\ ~Pends(n)
        /\ (r.kind \in {"createStudent", "import"} => Pends(r))
    BY <1>1, <2>3 DEF Pends, Half, Changes, Halfway, Joining
  <2>6. Enrols(r, n)
    BY <1>1, <1>3, <2>1, <2>5 DEF Enrols
  <2>7. QED
    BY <2>2, <2>4, <2>6 DEF ChangeServed, Serves
<1>4. QED
  BY <1>2, <1>3

LEMMA ChangeAnswers ==
  ASSUME IInv, InRoster, NEW i \in Slots, NEW r, r = requests[i], Changes(r), OfRoster(r, page.query.search),
         \/ ListRoster(i) \/ RemoveStudentFromClass(i) \/ UpdateStudentProfile(i) \/ DeleteUser(i)
  PROVE  ChangeServed(i)
<1>1. /\ DOMAIN r = Fields /\ r.part # "none"
      /\ r.kind \in Joining \union {"remove", "deleteStudent", "editStudent"}
      /\ r.kind \in Joining \union {"remove"} => r.class = 1
      /\ r.kind \notin Joining => r.stage # "listing"
  BY ChangeIs
<1>2. ASSUME NEW m, Answer(i, m), DOMAIN m = Fields, m.part = r.part, m.kind = r.kind, m.class = r.class,
             m.id = r.id
      PROVE  /\ SameChange(r, requests'[i]) /\ requests'[i].stage = "answered"
             /\ requests'[i].shown = m.shown
  <2>1. requests'[i] = [m EXCEPT !.stage = "answered"]
    BY <1>1, <1>2, SlotFacts DEF Answer
  <2>2. PICK n : n = requests'[i]
    OBVIOUS
  <2>3. /\ DOMAIN n = Fields /\ n.stage = "answered" /\ n.part = r.part /\ n.kind = r.kind
        /\ n.class = r.class /\ n.id = r.id /\ n.shown = m.shown
    BY <1>2, <2>1, <2>2, Moved
  <2>4. QED
    BY <2>2, <2>3 DEF SameChange
<1>3. CASE ListRoster(i)
  <2>1. r.stage = "listing" /\ r.kind \in Joining /\ r.class = 1 /\ UNCHANGED <<tables, strayed>>
    BY <1>1, <1>3 DEF ListRoster, history, OfRoster
  <2>2. Answer(i, [r EXCEPT !.shown = AllRows])
    BY <1>3, <2>1 DEF ListRoster, AllRows
  <2> DEFINE m == [r EXCEPT !.shown = AllRows]
  <2>3. /\ DOMAIN m = Fields /\ m.part = r.part /\ m.kind = r.kind /\ m.class = r.class /\ m.id = r.id
        /\ m.shown = AllRows
    BY <1>1, FieldsAre
  <2>4. Answer(i, m)
    BY <2>2
  <2> HIDE DEF m
  <2>5. SameChange(r, requests'[i]) /\ requests'[i].stage = "answered" /\ requests'[i].shown = AllRows
    BY <1>2, <2>3, <2>4
  <2>6. Half(r) /\ ~Pends(r)
    BY <2>1 DEF Half, Halfway, Pends
  <2>7. ReadsRoster(r, requests'[i])
    BY <2>1, <2>5, <2>6 DEF ReadsRoster
  <2>8. QED
    BY <2>5, <2>7 DEF ChangeServed, Serves
<1>4. CASE RemoveStudentFromClass(i)
  <2>1. r.kind = "remove" /\ r.stage = "owned" /\ r.class = 1 /\ UNCHANGED <<account, class, strayed>>
    BY <1>1, <1>4 DEF RemoveStudentFromClass, At
  <2>2. CASE r.id \in enrolled[1]
    <3>1. Answer(i, r) /\ enrolled' = [enrolled EXCEPT ![1] = @ \ {r.id}]
      BY <1>4, <2>1, <2>2 DEF RemoveStudentFromClass
    <3>2. SameChange(r, requests'[i]) /\ requests'[i].stage = "answered"
      BY <1>1, <1>2, <3>1
    <3>3. TakesOut(r, requests'[i])
      BY <2>1, <3>1, <3>2 DEF TakesOut
    <3>4. QED
      BY <3>2, <3>3 DEF ChangeServed, Serves
  <2>3. CASE r.id \notin enrolled[1]
    <3>1. Refuse(i) /\ UNCHANGED enrolled
      BY <1>4, <2>1, <2>3 DEF RemoveStudentFromClass
    <3>2. QED
      BY <2>1, <3>1, ChangeFails DEF Pends, tables
  <2>4. QED
    BY <2>2, <2>3
<1>5. CASE UpdateStudentProfile(i)
  <2>1. /\ r.kind = "editStudent" /\ Answer(i, r) /\ UNCHANGED <<class, enrolled, strayed>>
        /\ account' = [account EXCEPT ![r.id] = [account[r.id] EXCEPT !.renamed = TRUE]]
    BY <1>5 DEF UpdateStudentProfile, WriteAccount, At, history
  <2>2. SameChange(r, requests'[i]) /\ requests'[i].stage = "answered"
    BY <1>1, <1>2, <2>1
  <2>3. Writes(r, requests'[i])
    BY <2>1, <2>2 DEF Writes
  <2>4. QED
    BY <2>2, <2>3 DEF ChangeServed, Serves
<1>6. CASE DeleteUser(i)
  <2>1. /\ r.kind = "deleteStudent" /\ Answer(i, r) /\ UNCHANGED <<class, enrolled, strayed>>
        /\ account' = [account EXCEPT ![r.id] = [account[r.id] EXCEPT !.deleted = TRUE, !.status = "disabled"]]
    BY <1>1, <1>6 DEF DeleteUser, WriteAccount, At, history, Joining
  <2>2. SameChange(r, requests'[i]) /\ requests'[i].stage = "answered"
    BY <1>1, <1>2, <2>1
  <2>3. Writes(r, requests'[i])
    BY <2>1, <2>2 DEF Writes
  <2>4. QED
    BY <2>2, <2>3 DEF ChangeServed, Serves
<1>7. QED
  BY <1>3, <1>4, <1>5, <1>6

LEMMA ChangeServes ==
  ASSUME IInv, InRoster, NEW i \in Slots, Changes(requests[i]), OfRoster(requests[i], page.query.search),
         Serve(i) \/ Fail(i)
  PROVE  ChangeServed(i)
<1>1. PICK r : r = requests[i]
  OBVIOUS
<1>2. /\ r.kind \in Joining \union {"remove", "deleteStudent", "editStudent"}
      /\ r.stage \in Halfway \union {"sent", "counted", "account", "answered", "refused"}
      /\ r.kind \notin Joining => r.stage \in {"sent", "account", "owned", "ready", "answered", "refused"}
  BY <1>1, ChangeIs DEF Halfway
<1>3. ~(VerifyPassword(i) \/ CreateSession(i) \/ DestroySession(i) \/ GetUserBySessionToken(i)
          \/ SlideExpiration(i))
  BY <1>1, <1>2 DEF VerifyPassword, CreateSession, DestroySession, GetUserBySessionToken,
       SlideExpiration, At, Joining, Halfway
<1>4. ~(UpdateUser(i) \/ ResetUserPassword(i) \/ CreateClass(i) \/ UpdateClass(i) \/ DeleteClass(i)
          \/ FindOthers(i) \/ SearchAvailableStudents(i) \/ CountRows(i) \/ ListRows(i))
  BY <1>1, <1>2 DEF UpdateUser, ResetUserPassword, CreateClass, UpdateClass, DeleteClass,
       FindOthers, SearchAvailableStudents, CountRows, ListRows, At, Joining
<1>5. QED
  BY <1>1, <1>3, <1>4, ChangeCounted, ChangeParsed, ChangeLooks, ChangeFound, ChangeCrashes, ChangeInserts,
     ChangeEnrols, ChangeAnswers DEF Serve

\* What a server step does for the students to add.
SearchServed(i) ==
  LET r == requests[i]
      n == requests'[i]
  IN
  /\ UNCHANGED <<tables, strayed>> /\ r.stage \in {"sent", "owned", "others"}
  /\ \/ n.stage \in {"owned", "refused"}
     \/ n.stage = "others" /\ n.shown = enrolled[1]
     \/ /\ r.stage = "others" /\ n.stage = "answered" /\ n.shown = StudentsMatching(r.query) \ r.shown

LEMMA SearchServes ==
  ASSUME IInv, NEW i \in Slots, requests[i].part = "available", OfRoster(requests[i], page.query.search),
         Serve(i) \/ Fail(i)
  PROVE  SearchServed(i)
<1>1. PICK r : r = requests[i] /\ DOMAIN r = Fields
  BY SlotFacts
<1>2. r.kind = "available" /\ r.class = 1 /\ r.part # "none" /\ r.stage \in {"sent", "owned", "others"}
  BY <1>1, ServeMoves DEF OfRoster, Moves
<1>3. ASSUME Refuse(i), UNCHANGED <<tables, strayed>>
      PROVE  SearchServed(i)
  <2>1. requests'[i] = [r EXCEPT !.stage = "refused"]
    BY <1>1, <1>2, <1>3, SlotFacts DEF Refuse
  <2>2. requests'[i].stage = "refused"
    BY <1>1, <2>1, Moved
  <2>3. QED
    BY <1>1, <1>2, <1>3, <2>2 DEF SearchServed
<1>4. CASE Fail(i)
  <2>1. Refuse(i) /\ UNCHANGED <<tables, strayed>>
    BY <1>1, <1>2, <1>4 DEF Fail, InRow, Strays
  <2>2. QED
    BY <1>3, <2>1
<1>5. CASE RequireOwnedClass(i)
  <2>1. CASE Owned(r.class)
    <3>1. UNCHANGED <<tables, strayed>> /\ r.stage = "sent" /\ NextStage(r) = "owned"
      BY <1>1, <1>2, <1>5, <2>1 DEF RequireOwnedClass, NextStage
    <3>2. requests'[i] = [r EXCEPT !.stage = "owned"]
      BY <1>1, <1>5, <2>1, <3>1, SlotFacts DEF RequireOwnedClass
    <3>3. requests'[i].stage = "owned"
      BY <1>1, <3>2, Moved
    <3>4. QED
      BY <1>1, <1>2, <3>1, <3>3 DEF SearchServed
  <2>2. CASE ~Owned(r.class)
    <3>1. Refuse(i) /\ UNCHANGED <<tables, strayed>>
      BY <1>1, <1>2, <1>5, <2>2 DEF RequireOwnedClass, RowFails, InRow, Strays
    <3>2. QED
      BY <1>3, <3>1
  <2>3. QED
    BY <2>1, <2>2
<1>6. CASE FindOthers(i)
  <2>1. UNCHANGED <<tables, strayed>>
        /\ Becomes(i, [r EXCEPT !.stage = "others", !.shown = enrolled[1]])
    BY <1>1, <1>2, <1>6 DEF FindOthers, history
  <2> DEFINE n == [r EXCEPT !.stage = "others", !.shown = enrolled[1]]
  <2>2. n.stage = "others" /\ n.shown = enrolled[1]
    BY <1>1, FieldsAre
  <2>3. requests'[i] = n
    BY <2>1, SlotFacts
  <2> HIDE DEF n
  <2>4. QED
    BY <1>1, <1>2, <2>1, <2>2, <2>3 DEF SearchServed
<1>7. CASE SearchAvailableStudents(i)
  <2>1. PICK S : S = StudentsMatching(r.query) \ r.shown
    OBVIOUS
  <2>2. UNCHANGED <<tables, strayed>> /\ r.stage = "others" /\ Answer(i, [r EXCEPT !.shown = S])
    BY <1>1, <1>2, <1>7, <2>1 DEF SearchAvailableStudents, At, history
  <2> DEFINE m == [r EXCEPT !.shown = S]
             n == [m EXCEPT !.stage = "answered"]
  <2>3. n.stage = "answered" /\ n.shown = S /\ m.part # "none"
    BY <1>1, <1>2, FieldsAre
  <2>4. Becomes(i, n)
    BY <2>2, <2>3 DEF Answer
  <2> HIDE DEF m, n
  <2>5. requests'[i] = n
    BY <2>4, SlotFacts
  <2>6. QED
    BY <1>1, <1>2, <2>1, <2>2, <2>3, <2>5 DEF SearchServed
<1>8. ~(CountRequest(i) \/ CheckRateLimit(i) \/ VerifyPassword(i) \/ CreateSession(i) \/ DestroySession(i)
          \/ GetUserBySessionToken(i) \/ SlideExpiration(i))
  BY <1>1, <1>2 DEF CountRequest, CheckRateLimit, VerifyPassword, CreateSession, DestroySession,
       GetUserBySessionToken, SlideExpiration, At
<1>9. ~(ParseFile(i) \/ FindEmail(i) \/ InsertAccount(i) \/ FindEnrolled(i) \/ AddStudentToClass(i))
  BY <1>1, <1>2 DEF ParseFile, FindEmail, InsertAccount, FindEnrolled, AddStudentToClass, At, Creating
<1>10. ~(AssertStudentInTeachersRoster(i) \/ RequireActiveUser(i) \/ UpdateStudentProfile(i) \/ UpdateUser(i)
          \/ ResetUserPassword(i) \/ DeleteUser(i))
  BY <1>1, <1>2 DEF AssertStudentInTeachersRoster, RequireActiveUser, UpdateStudentProfile, UpdateUser,
       ResetUserPassword, DeleteUser, At
<1>11. ~(CreateClass(i) \/ UpdateClass(i) \/ DeleteClass(i) \/ RemoveStudentFromClass(i) \/ ListRoster(i)
          \/ CountRows(i) \/ ListRows(i))
  BY <1>1, <1>2 DEF CreateClass, UpdateClass, DeleteClass, RemoveStudentFromClass, ListRoster,
       CountRows, ListRows, At
<1>12. QED
  BY <1>4, <1>5, <1>6, <1>7, <1>8, <1>9, <1>10, <1>11 DEF Serve

-----------------------------------------------------------------------------
(* What the page has not seen of a server step.                            *)

Behind(i) ==
  \/ strayed' # strayed
  \/ requests[i].stage \in Halfway /\ requests'[i].stage = "refused" /\ requests[i].kind # "createUser"
  \/ requests[i].part = "none" /\ tables' # tables
Rereads(i) ==
  requests[i].part # "none" /\ (At(i, {"users", "classes"}, "sent") \/ requests[i].stage = "listing")

LEMMA UnseenFlags ==
  ASSUME IInv, NEW i \in Slots, page' = Unseen(i)
  PROVE  /\ ~page'.missed => ~Behind(i) /\ (page.missed => Rereads(i))
         /\ ~page'.unseen => ~Behind(i) /\ (page.unseen => ~page.missed /\ At(i, {"available"}, "owned"))
         /\ (page.missed => page.unseen) => (page'.missed => page'.unseen)
<1>1. DOMAIN page = DOMAIN InitialPage("users")
  BY DEF IInv, PageOK
<1> DEFINE missed == Behind(i) \/ (page.missed /\ ~Rereads(i))
           unseen == Behind(i) \/ (page.unseen /\ (page.missed \/ ~At(i, {"available"}, "owned")))
<1>2. page' = [page EXCEPT !.missed = missed, !.unseen = unseen]
  BY Zenon DEF Unseen, Behind, Rereads, Halfway
<1> HIDE DEF missed, unseen
<1>3. page'.missed = missed /\ page'.unseen = unseen
  BY <1>1, <1>2, PageFieldsAre
<1>4. /\ ~missed => ~Behind(i) /\ (page.missed => Rereads(i))
      /\ ~unseen => ~Behind(i) /\ (page.unseen => ~page.missed /\ At(i, {"available"}, "owned"))
      /\ (page.missed => page.unseen) => (missed => unseen)
  BY DEF missed, unseen
<1>5. QED
  BY <1>3, <1>4

\* The accounts that are about to be enrolled are the change's.
LEMMA PendingIs ==
  ASSUME NEW rs, NEW i \in Slots, \A j \in Slots \ {i} : ~Changes(rs[j])
  PROVE  {rs[k].id : k \in {j \in Slots : Pends(rs[j])}} = IF Pends(rs[i]) THEN {rs[i].id} ELSE {}
<1>1. \A j \in Slots \ {i} : ~Pends(rs[j])
  BY DEF Pends
<1>2. QED
  BY <1>1

LEMMA NonePend ==
  ASSUME NEW rs, \A j \in Slots : ~Changes(rs[j])
  PROVE  {rs[k].id : k \in {j \in Slots : Pends(rs[j])}} = {}
<1>1. \A j \in Slots : ~Pends(rs[j])
  BY DEF Pends
<1>2. QED
  BY <1>1

\* The class, as long as the tables stay.
LEMMA ClassSame ==
  ASSUME UNCHANGED tables
  PROVE  /\ AllRows' = AllRows /\ ActiveRows' = ActiveRows /\ enrolled' = enrolled
         /\ \A q : StudentsMatching(q)' = StudentsMatching(q)
BY DEF tables, AllRows, ActiveRows, RosterRow, Active, StudentsMatching

-----------------------------------------------------------------------------
(* A step of the only change.                                              *)

Serving(i) ==
  /\ IInv /\ IInv' /\ InRoster /\ RosterInv /\ ~page.crossed /\ page' = Unseen(i)
  /\ Changes(requests[i]) /\ SameChange(requests[i], requests'[i]) /\ Moves(i)
Right(i) ==
  /\ page'.missed \/ Changed(requests'[i], page.rows, AllRows', ActiveRows')
  /\ page'.unseen \/ AsksAgain(requests'[i], page.rows, Cardinality(enrolled'[1])) \/ SourceNow'
  /\ Pending' \cap strayed' = {}

LEMMA ServingFacts ==
  ASSUME NEW i \in Slots, Serving(i), NEW r, r = requests[i], NEW n, n = requests'[i]
  PROVE  /\ Pending = IF Pends(r) THEN {r.id} ELSE {}
         /\ Pending' = IF Pends(n) THEN {n.id} ELSE {}
         /\ \A j \in Slots \ {i} : requests'[j] = requests[j] /\ ~Changes(requests[j])
         /\ ~page'.missed => ~Behind(i) /\ (r.stage = "listing" \/ ~page.missed)
         /\ ~page'.unseen => ~Behind(i) /\ ~page.unseen /\ ~page.missed
         /\ ~page.missed => Changed(r, page.rows, AllRows, ActiveRows)
         /\ ~page.unseen => AsksAgain(r, page.rows, Cardinality(enrolled[1])) \/ SourceNow
         /\ Pending \cap strayed = {}
         /\ r.kind \notin Joining => \E row \in page.rows : row.id = r.id
         /\ r.stage \notin {"idle", "answered", "refused"}
         /\ Changes(n) /\ OfRoster(r, page.query.search)
<1>1. /\ RosterRequests /\ (page.missed => page.unseen)
      /\ OneChange /\ (page.missed \/ RosterNow) /\ (page.unseen \/ Reruns \/ SourceNow)
  BY DEF Serving, RosterInv
<1>2. \A j \in Slots \ {i} : requests'[j] = requests[j] /\ ~Changes(requests[j])
  BY <1>1 DEF Serving, Moves, OneChange
<1>3. Pending = IF Pends(r) THEN {r.id} ELSE {}
  BY <1>2, PendingIs DEF Pending
<1>4. Pending' = IF Pends(n) THEN {n.id} ELSE {}
  <2>1. PICK rs : rs = requests'
    OBVIOUS
  <2>2. \A j \in Slots \ {i} : ~Changes(rs[j])
    BY <1>2, <2>1
  <2>3. {rs[k].id : k \in {j \in Slots : Pends(rs[j])}} = IF Pends(rs[i]) THEN {rs[i].id} ELSE {}
    BY <2>2, PendingIs
  <2>4. QED
    BY <2>1, <2>3 DEF Pending
<1>5. r.stage \notin {"idle", "answered", "refused"} /\ OfRoster(r, page.query.search)
  BY <1>1 DEF Serving, Moves, RosterRequests
<1>6. r.kind \in Joining \union {"remove", "deleteStudent", "editStudent"}
  BY <1>5, ChangeIs DEF Serving
<1>7. /\ ~page'.missed => ~Behind(i) /\ (page.missed => Rereads(i))
      /\ ~page'.unseen => ~Behind(i) /\ (page.unseen => ~page.missed /\ At(i, {"available"}, "owned"))
  BY UnseenFlags DEF Serving
<1>8. Rereads(i) => r.stage = "listing"
  BY <1>6 DEF Rereads, At, Joining
<1>9. ~At(i, {"available"}, "owned")
  BY <1>6 DEF At, Joining
<1>10. ~page.missed => Changed(r, page.rows, AllRows, ActiveRows)
  BY <1>1 DEF RosterNow, Serving
<1>11. ~page.unseen => AsksAgain(r, page.rows, Cardinality(enrolled[1])) \/ SourceNow
  BY <1>1, <1>2 DEF Reruns, AsksAgain
<1>12. Pending \cap strayed = {} /\ (r.kind \notin Joining => \E row \in page.rows : row.id = r.id)
  BY <1>1 DEF OneChange, Serving
<1>13. Changes(n)
  BY DEF Serving, SameChange, Changes
<1>14. QED
  BY <1>1, <1>2, <1>3, <1>4, <1>5, <1>7, <1>8, <1>9, <1>10, <1>11, <1>12, <1>13

\* The students to add stay right, or as wrong as the change can make them.
LEMMA SourceStays ==
  ASSUME NEW i \in Slots, Serving(i), SourceNow,
         enrolled'[1] = enrolled[1],
         \A S : Agrees(S, Pending, Others) => Agrees(S, Pending', Others')
  PROVE  SourceNow'
<1>1. \A j \in Slots \ {i} : requests'[j] = requests[j]
  BY DEF Serving, Moves
<1>2. requests[i].part # "available" /\ requests'[i].part # "available"
  BY DEF Serving, SameChange, Changes, RosterParts
<1>3. page'.available = page.available
  BY UnseenIs DEF Serving
<1>4. ASSUME NEW j \in Slots, requests'[j].part = "available"
      PROVE  Search(requests'[j], enrolled'[1], Pending', Others')
  <2>1. requests'[j] = requests[j] /\ Search(requests[j], enrolled[1], Pending, Others)
    BY <1>1, <1>2, <1>4 DEF SourceNow
  <2>2. QED
    BY <2>1 DEF Search
<1>5. ASSUME \A j \in Slots : requests'[j].part # "available"
      PROVE  Agrees(page'.available, Pending', Others')
  <2>1. \A j \in Slots : requests[j].part # "available"
    BY <1>1, <1>2, <1>5
  <2>2. QED
    BY <1>3, <2>1 DEF SourceNow
<1>6. QED
  BY <1>4, <1>5 DEF SourceNow

LEMMA OthersSame ==
  ASSUME NEW i \in Slots, Serving(i), UNCHANGED tables
  PROVE  Others' = Others
<1>1. page'.query = page.query
  BY UnseenIs DEF Serving
<1>2. PICK q : q = page.query
  OBVIOUS
<1>3. StudentsMatching(q)' = StudentsMatching(q) /\ enrolled' = enrolled
  BY ClassSame
<1>4. StudentsMatching(page.query)' = StudentsMatching(q)
  BY <1>1, <1>2, <1>3
<1>5. QED
  BY <1>2, <1>3, <1>4 DEF Others

LEMMA RightProceeding ==
  ASSUME NEW i \in Slots, Serving(i), Proceeds(requests[i], requests'[i])
  PROVE  Right(i)
<1>1. PICK r, n : r = requests[i] /\ n = requests'[i]
  OBVIOUS
<1>2. AllRows' = AllRows /\ ActiveRows' = ActiveRows /\ enrolled' = enrolled /\ Others' = Others
  BY ClassSame, OthersSame DEF Proceeds
<1>3. Pending' = Pending /\ strayed' = strayed
  BY <1>1, ServingFacts DEF Proceeds
<1>4. Half(r) /\ ~Behind(i) => Half(n)
  BY <1>1 DEF Proceeds, Half, Changes, RosterParts, Behind, Joining
<1>5. r.stage # "listing" \/ page'.missed
  BY <1>1, ServingFacts DEF Proceeds, Serving, SameChange, Half, Halfway, Behind, Changes, Joining, OfRoster
<1>6. ASSUME ~page'.missed
      PROVE  Changed(n, page.rows, AllRows, ActiveRows)
  BY <1>1, <1>4, <1>5, <1>6, ServingFacts DEF Changed, Proceeds
<1>7. ASSUME ~page'.unseen
      PROVE  AsksAgain(n, page.rows, Cardinality(enrolled[1])) \/ SourceNow'
  <2>1. CASE AsksAgain(r, page.rows, Cardinality(enrolled[1]))
    BY <1>1, <1>4, <1>7, <2>1, ServingFacts DEF AsksAgain, Serving, SameChange
  <2>2. CASE SourceNow
    BY <1>2, <1>3, <2>2, SourceStays
  <2>3. QED
    BY <1>1, <1>7, <2>1, <2>2, ServingFacts
<1>8. QED
  BY <1>1, <1>2, <1>3, <1>6, <1>7, ServingFacts DEF Right

LEMMA RightLeaving ==
  ASSUME NEW i \in Slots, Serving(i), LeavesBehind(requests[i], requests'[i])
  PROVE  Right(i)
<1>1. PICK r, n : r = requests[i] /\ n = requests'[i]
  OBVIOUS
<1>2. strayed' # strayed /\ Pending' = {}
  BY <1>1, ServingFacts DEF LeavesBehind
<1>3. Behind(i)
  BY <1>2 DEF Behind
<1>4. page'.missed /\ page'.unseen
  BY <1>3, ServingFacts
<1>5. QED
  BY <1>2, <1>4 DEF Right

LEMMA RightMaking ==
  ASSUME NEW i \in Slots, Serving(i), MakesAccount(requests[i], requests'[i])
  PROVE  Right(i)
<1>1. PICK r, n, a : r = requests[i] /\ n = requests'[i] /\ a = n.id
  OBVIOUS
<1>2. /\ a \in Accounts /\ account[a] = NoAccount /\ UNCHANGED <<class, enrolled, strayed>>
      /\ account \in [Accounts -> AccountRows] /\ enrolled[1] \subseteq Accounts
      /\ \A b \in enrolled[1] : account[b].role = "student"
  BY <1>1, Zeros DEF MakesAccount, Serving, IInv, TablesTyped, TypeOK
<1>3. a \notin enrolled[1]
  BY <1>2 DEF NoAccount
<1>4. \A b : b # a => account'[b] = account[b]
  BY <1>1, <1>2 DEF MakesAccount
<1>5. AllRows' = AllRows /\ ActiveRows' = ActiveRows
  BY <1>2, <1>3, <1>4 DEF AllRows, ActiveRows, RosterRow, Active
<1>6. Pending = {} /\ Pending' = {a}
  BY <1>1, ServingFacts DEF MakesAccount
<1>7. Others' \ {a} = Others \ {a}
  <2>1. page'.query = page.query
    BY UnseenIs DEF Serving
  <2>2. PICK q : q = page.query
    OBVIOUS
  <2>3. StudentsMatching(q)' \ {a} = StudentsMatching(q) \ {a}
    BY <1>4 DEF StudentsMatching, Active
  <2>4. StudentsMatching(page.query)' \ {a} = StudentsMatching(q) \ {a}
    BY <2>1, <2>2, <2>3
  <2>5. QED
    BY <1>2, <2>2, <2>4 DEF Others
<1>8. Half(n) /\ n.stage # "answered"
  BY <1>1 DEF MakesAccount, Pends, Half, Halfway, Joining
<1>9. ~page'.missed => Changed(n, page.rows, AllRows, ActiveRows)
  <2>1. ~page'.missed => Changed(r, page.rows, AllRows, ActiveRows)
    BY <1>1, <1>8, ServingFacts DEF Serving, SameChange, Half, Halfway
  <2>2. QED
    BY <1>1, <1>8, <2>1, ServingFacts DEF Changed
<1>10. ASSUME ~page'.unseen
       PROVE  AsksAgain(n, page.rows, Cardinality(enrolled[1])) \/ SourceNow'
  <2>1. CASE AsksAgain(r, page.rows, Cardinality(enrolled[1]))
    BY <1>1, <1>8, <2>1, ServingFacts DEF AsksAgain, Serving, SameChange
  <2>2. CASE SourceNow
    <3>1. \A S : Agrees(S, Pending, Others) => Agrees(S, Pending', Others')
      BY <1>6, <1>7 DEF Agrees
    <3>2. QED
      BY <1>2, <2>2, <3>1, SourceStays
  <2>3. QED
    BY <1>1, <1>10, <2>1, <2>2, ServingFacts
<1>11. Pending' \cap strayed' = {}
  <2>1. Strangers
    BY DEF Serving, RosterInv
  <2>2. a \notin strayed
    BY <1>2, <2>1 DEF Strangers, NoAccount
  <2>3. QED
    BY <1>2, <1>6, <2>2
<1>12. QED
  BY <1>1, <1>2, <1>5, <1>9, <1>10, <1>11 DEF Right

LEMMA RightEnrolling ==
  ASSUME NEW i \in Slots, Serving(i), Enrols(requests[i], requests'[i])
  PROVE  Right(i)
<1>1. PICK r, n, a : r = requests[i] /\ n = requests'[i] /\ a = r.id
  OBVIOUS
<1>2. /\ a \notin enrolled[1] /\ UNCHANGED <<account, class, strayed>>
      /\ enrolled' = [enrolled EXCEPT ![1] = @ \union {a}] /\ 1 \in DOMAIN enrolled
  BY <1>1, Zeros DEF Enrols, Serving, IInv, TablesTyped
<1>3. enrolled'[1] = enrolled[1] \union {a}
  BY <1>2
<1>4. AllRows \subseteq AllRows'
  BY <1>2, <1>3 DEF AllRows, RosterRow
<1>5. Half(n) /\ n.stage # "answered" /\ n.kind \in Joining /\ Changes(n)
  BY <1>1 DEF Enrols, Half, Halfway
<1>6. r.stage # "listing"
  BY <1>1, <1>5 DEF Serving, SameChange, Half, Halfway
<1>7. ~page.missed => page.rows \subseteq AllRows
  BY <1>1, ServingFacts DEF Changed
<1>8. ~page'.missed => Changed(n, page.rows, AllRows', ActiveRows')
  BY <1>1, <1>4, <1>5, <1>6, <1>7, ServingFacts DEF Changed
<1>9. ASSUME ~page'.unseen
      PROVE  AsksAgain(n, page.rows, Cardinality(enrolled'[1]))
  <2>1. page.rows \subseteq AllRows
    BY <1>7, <1>9, ServingFacts
  <2>2. /\ IsFiniteSet(enrolled[1]) /\ IsFiniteSet(AllRows)
        /\ Cardinality(AllRows) = Cardinality(enrolled[1])
    BY AsManyRows DEF Serving
  <2>3. Cardinality(page.rows) <= Cardinality(enrolled[1]) /\ Cardinality(page.rows) \in Nat
    BY <2>1, <2>2, FS_Subset, FS_CardinalityType
  <2>4. Cardinality(enrolled'[1]) = Cardinality(enrolled[1]) + 1 /\ Cardinality(enrolled[1]) \in Nat
    BY <1>2, <1>3, <2>2, FS_AddElement, FS_CardinalityType
  <2>5. Cardinality(enrolled'[1]) > Cardinality(page.rows)
    BY <2>3, <2>4
  <2>6. QED
    BY <1>5, <2>5 DEF AsksAgain
<1>10. Pending' = {}
  BY <1>1, ServingFacts DEF Enrols
<1>11. QED
  BY <1>1, <1>8, <1>9, <1>10 DEF Right

LEMMA RightReading ==
  ASSUME NEW i \in Slots, Serving(i), ReadsRoster(requests[i], requests'[i])
  PROVE  Right(i)
<1>1. PICK r, n : r = requests[i] /\ n = requests'[i]
  OBVIOUS
<1>2. AllRows' = AllRows /\ enrolled' = enrolled /\ Others' = Others
  BY ClassSame, OthersSame DEF ReadsRoster
<1>3. n.kind = r.kind /\ r.kind \in Joining /\ n.stage = "answered" /\ n.shown = AllRows
  BY <1>1 DEF ReadsRoster, Half, Serving, SameChange
<1>4. Pending = {} /\ Pending' = {}
  BY <1>1, <1>3, ServingFacts DEF ReadsRoster, Pends
<1>5. Changed(n, page.rows, AllRows, ActiveRows')
  BY <1>3 DEF Changed
<1>6. ASSUME ~page'.unseen
      PROVE  AsksAgain(n, page.rows, Cardinality(enrolled[1])) \/ SourceNow'
  <2>1. CASE AsksAgain(r, page.rows, Cardinality(enrolled[1]))
    BY <1>1, <1>3, <2>1, ServingFacts DEF AsksAgain, Joining
  <2>2. CASE SourceNow
    BY <1>2, <1>4, <2>2, SourceStays
  <2>3. QED
    BY <1>1, <1>6, <2>1, <2>2, ServingFacts
<1>7. QED
  BY <1>1, <1>2, <1>4, <1>5, <1>6 DEF Right

LEMMA RightTakingOut ==
  ASSUME NEW i \in Slots, Serving(i), TakesOut(requests[i], requests'[i])
  PROVE  Right(i)
<1>1. PICK r, n, a : r = requests[i] /\ n = requests'[i] /\ a = r.id
  OBVIOUS
<1>2. /\ r.kind = "remove" /\ n.kind = "remove" /\ n.stage = "answered" /\ n.id = a
      /\ enrolled' = [enrolled EXCEPT ![1] = @ \ {a}] /\ 1 \in DOMAIN enrolled
      /\ UNCHANGED <<account, class, strayed>>
  BY <1>1, Zeros DEF TakesOut, Serving, SameChange, IInv, TablesTyped, Joining
<1>3. enrolled'[1] = enrolled[1] \ {a} /\ \A b : RosterRow(b).id = b
  BY <1>2 DEF RosterRow
<1>4. AllRows' = {row \in AllRows : row.id # a} /\ ActiveRows' = {row \in ActiveRows : row.id # a}
  BY <1>2, <1>3 DEF AllRows, ActiveRows, RosterRow, Active
<1>5. After(n, page.rows) = {row \in page.rows : row.id # a}
  BY <1>2 DEF After
<1>6. r.stage \notin {"listing", "answered"} /\ ~Half(r)
  BY <1>1, <1>2, ServingFacts DEF Serving, OfRoster, Joining, Half
<1>7. ~page'.missed => page.rows \subseteq AllRows /\ ActiveRows \subseteq page.rows
  BY <1>1, <1>6, ServingFacts DEF Changed
<1>8. ~page'.missed => Changed(n, page.rows, AllRows', ActiveRows')
  BY <1>2, <1>4, <1>5, <1>7 DEF Changed, Fit, Joining
<1>9. AsksAgain(n, page.rows, Cardinality(enrolled'[1]))
  BY <1>1, <1>2, ServingFacts DEF AsksAgain, Joining
<1>10. Pending' = {}
  BY <1>1, <1>2, ServingFacts DEF Pends
<1>11. QED
  BY <1>1, <1>8, <1>9, <1>10 DEF Right

\* What is written of the student is made of the row as well.
LEMMA RowWritten ==
  ASSUME NEW i \in Slots, Serving(i), Writes(requests[i], requests'[i]),
         page.rows \subseteq AllRows, ActiveRows \subseteq page.rows
  PROVE  Fit(After(requests'[i], page.rows), AllRows', ActiveRows')
<1>1. PICK r, n, a : r = requests[i] /\ n = requests'[i] /\ a = r.id
  OBVIOUS
<1>2. /\ r.kind \in {"deleteStudent", "editStudent"} /\ n.kind = r.kind /\ n.id = a
      /\ UNCHANGED <<class, enrolled, strayed>>
      /\ account' = [account EXCEPT ![a] = IF r.kind = "editStudent" THEN [account[a] EXCEPT !.renamed = TRUE]
                       ELSE [account[a] EXCEPT !.deleted = TRUE, !.status = "disabled"]]
  BY <1>1 DEF Writes, Serving, SameChange, Joining
<1>3. /\ account \in [Accounts -> AccountRows] /\ enrolled[1] \subseteq Accounts
      /\ \E row \in page.rows : row.id = a
  <2>1. account \in [Accounts -> AccountRows] /\ enrolled[1] \subseteq Accounts
    BY Zeros DEF Serving, IInv, TablesTyped
  <2>2. \E row \in page.rows : row.id = a
    BY <1>1, <1>2, ServingFacts DEF Joining
  <2>3. QED
    BY <2>1, <2>2
<1>4. a \in enrolled[1] /\ a \in Accounts
  BY <1>3 DEF AllRows, RosterRow
<1>5. PICK w : w = account'[a]
  OBVIOUS
<1>6. account' = [account EXCEPT ![a] = w] /\ \A b : b # a => account'[b] = account[b]
  BY <1>2, <1>3, <1>4, <1>5
<1>7. \A b : RosterRow(b).id = b /\ RosterRow(b)'.id = b
  BY DEF RosterRow
<1>8. \A b : b # a => RosterRow(b)' = RosterRow(b) /\ (Active(b)' <=> Active(b))
  BY <1>6 DEF RosterRow, Active
<1>9. AllRows' = {RosterRow(b)' : b \in enrolled[1]}
      /\ ActiveRows' = {RosterRow(b)' : b \in {c \in enrolled[1] : Active(c)'}}
  BY <1>2 DEF AllRows, ActiveRows
<1>10. CASE r.kind = "deleteStudent"
  <2>1. w = [account[a] EXCEPT !.deleted = TRUE, !.status = "disabled"]
    BY <1>2, <1>3, <1>4, <1>5, <1>10
  <2>2. w.deleted /\ w.renamed = account[a].renamed
    BY <1>3, <1>4, <2>1 DEF AccountRows
  <2>3. RosterRow(a)' = RosterRow(a) /\ ~Active(a)'
    BY <1>5, <2>2 DEF RosterRow, Active
  <2>4. After(n, page.rows) = {row \in page.rows : row.id # a}
    BY <1>2, <1>10 DEF After
  <2>5. AllRows' = AllRows
    BY <1>8, <1>9, <2>3 DEF AllRows
  <2>6. ActiveRows' \subseteq {row \in ActiveRows : row.id # a}
    BY <1>7, <1>8, <1>9, <2>3 DEF ActiveRows
  <2>7. QED
    BY <1>1, <2>4, <2>5, <2>6 DEF Fit
<1>11. CASE r.kind = "editStudent"
  <2>1. w = [account[a] EXCEPT !.renamed = TRUE]
    BY <1>2, <1>3, <1>4, <1>5, <1>11
  <2>2. w.renamed = TRUE /\ w.deleted = account[a].deleted /\ w.role = account[a].role
    BY <1>3, <1>4, <2>1 DEF AccountRows
  <2>3. RosterRow(a)' = [id |-> a, renamed |-> TRUE] /\ (Active(a)' <=> Active(a))
    BY <1>5, <2>2 DEF RosterRow, Active
  <2> DEFINE Named(row) == [row EXCEPT !.renamed = @ \/ row.id = a]
  <2>4. After(n, page.rows) = {Named(row) : row \in page.rows}
    BY <1>2, <1>11 DEF After
  <2>5. \A b \in Accounts : Named(RosterRow(b)) = RosterRow(b)'
    <3>1. TAKE b \in Accounts
    <3>2. PICK v \in BOOLEAN : v = account[b].renamed
      BY <1>3 DEF AccountRows
    <3>3. RosterRow(b) = [id |-> b, renamed |-> v]
      BY <3>2 DEF RosterRow
    <3>4. Named(RosterRow(b)) = [id |-> b, renamed |-> v \/ b = a]
      BY <3>3
    <3>5. CASE b = a
      BY <2>3, <3>4, <3>5
    <3>6. CASE b # a
      BY <1>8, <3>3, <3>4, <3>6
    <3>7. QED
      BY <3>5, <3>6
  <2> HIDE DEF Named
  <2>6. After(n, page.rows) \subseteq AllRows'
    <3>1. SUFFICES ASSUME NEW row \in page.rows
                   PROVE  Named(row) \in AllRows'
      BY <2>4
    <3>2. PICK b \in enrolled[1] : row = RosterRow(b)
      BY DEF AllRows
    <3>3. Named(row) = RosterRow(b)'
      BY <1>3, <2>5, <3>2
    <3>4. QED
      BY <1>9, <3>3
  <2>7. ActiveRows' \subseteq After(n, page.rows)
    <3>1. SUFFICES ASSUME NEW b \in enrolled[1], Active(b)'
                   PROVE  RosterRow(b)' \in After(n, page.rows)
      BY <1>9
    <3>2. Active(b)
      BY <1>8, <2>3, <3>1
    <3>3. RosterRow(b) \in page.rows
      BY <3>2 DEF ActiveRows
    <3>4. Named(RosterRow(b)) = RosterRow(b)'
      BY <1>3, <2>5
    <3>5. QED
      BY <2>4, <3>3, <3>4
  <2>8. QED
    BY <1>1, <2>6, <2>7 DEF Fit
<1>12. QED
  BY <1>2, <1>10, <1>11

LEMMA RightWriting ==
  ASSUME NEW i \in Slots, Serving(i), Writes(requests[i], requests'[i])
  PROVE  Right(i)
<1>1. PICK r, n, a : r = requests[i] /\ n = requests'[i] /\ a = r.id
  OBVIOUS
<1>2. /\ r.kind \in {"deleteStudent", "editStudent"} /\ n.kind = r.kind /\ n.stage = "answered"
      /\ UNCHANGED <<class, enrolled, strayed>>
  BY <1>1 DEF Writes, Serving, SameChange
<1>3. r.stage \notin {"listing", "answered"} /\ ~Half(r)
  BY <1>1, <1>2, ServingFacts DEF Serving, OfRoster, Joining, Half
<1>4. ~page.missed => page.rows \subseteq AllRows /\ ActiveRows \subseteq page.rows
  BY <1>1, <1>3, ServingFacts DEF Changed
<1>5. ~page'.missed => Changed(n, page.rows, AllRows', ActiveRows')
  <2>1. ASSUME ~page'.missed
        PROVE  Fit(After(n, page.rows), AllRows', ActiveRows')
    BY <1>1, <1>3, <1>4, <2>1, RowWritten, ServingFacts
  <2>2. QED
    BY <1>2, <2>1 DEF Changed, Joining
<1>6. Pending = {} /\ Pending' = {}
  BY <1>1, <1>2, ServingFacts DEF Pends
<1>7. ASSUME ~page'.unseen
      PROVE  SourceNow'
  <2>1. ~page.missed /\ SourceNow
    BY <1>1, <1>2, <1>3, <1>7, ServingFacts DEF AsksAgain, Joining
  <2>2. \E row \in page.rows : row.id = a
    BY <1>1, <1>2, ServingFacts DEF Joining
  <2>3. a \in enrolled[1] /\ enrolled[1] \subseteq Accounts /\ account \in [Accounts -> AccountRows]
    BY <1>4, <2>1, <2>2, Zeros DEF AllRows, RosterRow, Serving, IInv, TablesTyped
  <2>4. \A b : b # a => account'[b] = account[b]
    BY <1>1, <1>2, <2>3 DEF Writes
  <2>5. PICK q : q = page.query
    OBVIOUS
  <2>6. StudentsMatching(q)' \ {a} = StudentsMatching(q) \ {a}
    BY <2>4 DEF StudentsMatching, Active
  <2>7. page'.query = page.query
    BY UnseenIs DEF Serving
  <2>8. StudentsMatching(page.query)' \ {a} = StudentsMatching(q) \ {a}
    BY <2>5, <2>6, <2>7
  <2>9. Others' = Others
    BY <1>2, <2>3, <2>5, <2>8 DEF Others
  <2>10. QED
    BY <1>2, <1>6, <2>1, <2>9, SourceStays
<1>8. QED
  BY <1>1, <1>5, <1>6, <1>7 DEF Right

-----------------------------------------------------------------------------
(* The steps of the server.                                                *)

\* Only a student who is made can be left behind.
LEMMA NoneStrays ==
  ASSUME NEW i \in Slots, Serve(i) \/ Fail(i), requests[i].kind \notin {"createStudent", "import"}
  PROVE  strayed' = strayed
<1>1. CASE \/ RequireOwnedClass(i) \/ FindEnrolled(i) \/ AddStudentToClass(i) \/ Fail(i)
  BY <1>1 DEF RequireOwnedClass, FindEnrolled, AddStudentToClass, Fail, Strays
<1>2. CASE \/ CountRequest(i) \/ CheckRateLimit(i) \/ VerifyPassword(i) \/ CreateSession(i)
           \/ DestroySession(i) \/ GetUserBySessionToken(i) \/ SlideExpiration(i) \/ ParseFile(i)
           \/ FindEmail(i) \/ InsertAccount(i)
  BY <1>2 DEF CountRequest, CheckRateLimit, VerifyPassword, CreateSession, DestroySession,
       GetUserBySessionToken, SlideExpiration, ParseFile, FindEmail, InsertAccount, history
<1>3. CASE \/ AssertStudentInTeachersRoster(i) \/ RequireActiveUser(i) \/ UpdateStudentProfile(i)
           \/ UpdateUser(i) \/ ResetUserPassword(i) \/ DeleteUser(i)
  BY <1>3 DEF AssertStudentInTeachersRoster, RequireActiveUser, UpdateStudentProfile, UpdateUser,
       ResetUserPassword, DeleteUser, WriteAccount, history
<1>4. CASE \/ CreateClass(i) \/ UpdateClass(i) \/ DeleteClass(i) \/ RemoveStudentFromClass(i)
           \/ ListRoster(i) \/ FindOthers(i) \/ SearchAvailableStudents(i) \/ CountRows(i) \/ ListRows(i)
  BY <1>4 DEF CreateClass, UpdateClass, DeleteClass, RemoveStudentFromClass, WriteClass, ListRoster,
       FindOthers, SearchAvailableStudents, CountRows, ListRows, history
<1>5. QED
  BY <1>1, <1>2, <1>3, <1>4 DEF Serve

\* The requests are still the page's.
LEMMA RequestsServed ==
  ASSUME IInv, InRoster, RosterInv, NEW i \in Slots, Serve(i) \/ Fail(i), page' = Unseen(i)
  PROVE  RosterRequests'
<1>1. PICK r, n : r = requests[i] /\ n = requests'[i]
  OBVIOUS
<1>2. Kept(r, n) /\ \A j \in Slots \ {i} : requests'[j] = requests[j]
  BY <1>1, ServeMoves DEF Moves
<1>3. page'.query = page.query
  BY UnseenIs
<1>4. RosterRequests /\ OfRoster(r, page.query.search)
  BY <1>1 DEF RosterInv, RosterRequests
<1>5. OfRoster(n, page.query.search)
  <2>1. n.part = r.part
    BY <1>2 DEF Kept
  <2>2. CASE r.part = "none"
    BY <1>2, <1>4, <2>1, <2>2 DEF OfRoster, Kept, Changes, RosterParts
  <2>3. CASE r.part = "available"
    <3>1. n.kind = r.kind /\ n.class = r.class /\ n.query = r.query
      BY <1>2, <2>1, <2>3 DEF Kept
    <3>2. n.stage \in {"owned", "others", "answered", "refused"}
      BY <1>1, <1>4, <2>3, SearchServes DEF SearchServed
    <3>3. QED
      BY <1>4, <2>1, <2>3, <3>1, <3>2 DEF OfRoster, Changes, RosterParts
  <2>4. CASE Changes(r)
    <3>1. SameChange(r, n)
      BY <1>1, <1>4, <2>4, ChangeServes DEF ChangeServed
    <3>2. QED
      BY <1>4, <2>1, <2>4, <3>1 DEF OfRoster, SameChange, Changes, RosterParts
  <2>5. QED
    BY <1>4, <2>2, <2>3, <2>4 DEF OfRoster, Changes
<1>6. \A j \in Slots : OfRoster(requests'[j], page'.query.search)
  BY <1>1, <1>2, <1>3, <1>4, <1>5 DEF RosterRequests
<1>7. \A j \in Slots : requests'[j].part = requests[j].part
  BY <1>1, <1>2 DEF Kept
<1>8. QED
  BY <1>4, <1>6, <1>7 DEF RosterRequests

\* Whom a change has made an account for has it.
LEMMA StrangersServed ==
  ASSUME IInv, InRoster, RosterInv, NEW i \in Slots, Serve(i) \/ Fail(i)
  PROVE  Strangers'
<1>1. PICK r, n : r = requests[i] /\ n = requests'[i]
  OBVIOUS
<1>2. Kept(r, n) /\ \A j \in Slots \ {i} : requests'[j] = requests[j]
  BY <1>1, ServeMoves DEF Moves
<1>3. \A a \in Accounts : account[a].role # "none" => account'[a].role # "none"
  BY ServeServed, FailServed DEF Served, Grows
<1>4. Strangers /\ OfRoster(r, page.query.search)
  BY <1>1 DEF RosterInv, RosterRequests
<1>5. \A a \in strayed \union Pending : a \in Accounts /\ account'[a].role # "none"
  BY <1>3, <1>4 DEF Strangers
<1>6. \A j \in Slots : Pends(requests[j]) => requests[j].id \in Pending
  BY DEF Pending
<1>7. CASE ~Changes(r)
  <2>1. ~Changes(n)
    BY <1>2, <1>7 DEF Kept, Changes
  <2>2. r.kind \notin {"createStudent", "import"}
    BY <1>4, <1>7 DEF OfRoster, Changes
  <2>3. strayed' = strayed
    BY <1>1, <2>2, NoneStrays
  <2>4. \A j \in Slots : Pends(requests'[j]) => requests'[j].id \in Pending
    BY <1>1, <1>2, <1>6, <2>1 DEF Pends
  <2>5. Pending' \subseteq Pending
    BY <2>4 DEF Pending
  <2>6. QED
    BY <1>5, <2>3, <2>5 DEF Strangers
<1>8. CASE Changes(r)
  <2>1. SameChange(r, n) /\ Serves(r, n)
    BY <1>1, <1>4, <1>8, ChangeServes DEF ChangeServed
  <2>2. strayed' \subseteq strayed \union Pending
    BY <1>1, <1>6, <2>1 DEF Serves, Proceeds, LeavesBehind, MakesAccount, Enrols, ReadsRoster, TakesOut, Writes
  <2>3. CASE MakesAccount(r, n)
    <3>1. n.id \in Accounts /\ account'[n.id].role # "none"
      <4>1. PICK e : account' = [account EXCEPT ![n.id] = NewAccount(e, "student")]
        BY <2>3 DEF MakesAccount
      <4>2. n.id \in Accounts /\ account \in [Accounts -> AccountRows]
        BY <2>3 DEF MakesAccount, IInv, TablesTyped
      <4>3. account'[n.id] = NewAccount(e, "student")
        BY <4>1, <4>2
      <4>4. QED
        BY <4>2, <4>3 DEF NewAccount, NoAccount
    <3>2. \A j \in Slots : Pends(requests'[j]) => requests'[j].id \in Pending \union {n.id}
      BY <1>1, <1>2, <1>6
    <3>3. Pending' \subseteq Pending \union {n.id}
      BY <3>2 DEF Pending
    <3>4. QED
      BY <1>5, <2>2, <3>1, <3>3 DEF Strangers
  <2>4. CASE ~MakesAccount(r, n)
    <3>1. Pends(n) => Pends(r) /\ n.id = r.id
      BY <2>1, <2>4 DEF Serves, Proceeds, LeavesBehind, Enrols, ReadsRoster, TakesOut, Writes, Pends
    <3>2. \A j \in Slots : Pends(requests'[j]) => requests'[j].id \in Pending
      BY <1>1, <1>2, <1>6, <3>1
    <3>3. Pending' \subseteq Pending
      BY <3>2 DEF Pending
    <3>4. QED
      BY <1>5, <2>2, <3>3 DEF Strangers
  <2>5. QED
    BY <2>3, <2>4
<1>9. QED
  BY <1>7, <1>8

\* A step for something else than the roster.
LEMMA RosterServedBeside ==
  ASSUME IInv, IInv', InRoster, RosterInv, NEW i \in Slots, Serve(i) \/ Fail(i), page' = Unseen(i),
         ~Changes(requests[i]), ~page.crossed
  PROVE  OneChange' /\ (page'.missed \/ RosterNow') /\ (page'.unseen \/ Reruns' \/ SourceNow')
<1>1. PICK r, n : r = requests[i] /\ n = requests'[i]
  OBVIOUS
<1>2. Kept(r, n) /\ \A j \in Slots \ {i} : requests'[j] = requests[j]
  BY <1>1, ServeMoves DEF Moves
<1>3. /\ page'.query = page.query /\ page'.rows = page.rows /\ page'.available = page.available
  BY UnseenIs
<1>4. /\ RosterRequests /\ OfRoster(r, page.query.search) /\ (page.missed => page.unseen)
      /\ OneChange /\ (page.missed \/ RosterNow) /\ (page.unseen \/ Reruns \/ SourceNow)
  BY <1>1 DEF RosterInv, RosterRequests
<1>5. n.part = r.part /\ ~Changes(n) /\ ~Pends(r) /\ ~Pends(n) /\ r.kind \notin {"createStudent", "import"}
  BY <1>1, <1>2, <1>4 DEF Kept, Changes, Pends, OfRoster
<1>6. strayed' = strayed
  BY <1>1, <1>5, NoneStrays
<1>7. \A j \in Slots : /\ requests'[j].part = requests[j].part /\ (Changes(requests'[j]) <=> Changes(requests[j]))
                       /\ Changes(requests[j]) => requests'[j] = requests[j]
  BY <1>1, <1>2, <1>5 DEF Changes
<1>8. Pending' = Pending
  <2>1. \A j \in Slots : /\ Pends(requests'[j]) <=> Pends(requests[j])
                         /\ Pends(requests[j]) => requests'[j] = requests[j]
    BY <1>1, <1>2, <1>5
  <2>2. QED
    BY <2>1 DEF Pending
<1>9. OneChange'
  BY <1>3, <1>4, <1>6, <1>7, <1>8 DEF OneChange
<1>10. r.part = "available" => SearchServed(i)
  BY <1>1, <1>4, SearchServes
<1>11. ~Behind(i) => UNCHANGED tables
  BY <1>1, <1>4, <1>5, <1>10 DEF Behind, OfRoster, Changes, SearchServed
<1>12. UNCHANGED tables => /\ AllRows' = AllRows /\ ActiveRows' = ActiveRows
                           /\ enrolled' = enrolled /\ Others' = Others
  <2>1. PICK q : q = page.query
    OBVIOUS
  <2>2. UNCHANGED tables => StudentsMatching(q)' = StudentsMatching(q) /\ enrolled' = enrolled
    BY ClassSame
  <2>3. UNCHANGED tables => StudentsMatching(page.query)' = StudentsMatching(q)
    BY <1>3, <2>1, <2>2
  <2>4. QED
    BY <2>1, <2>2, <2>3, ClassSame DEF Others
<1>13. /\ ~page'.missed => ~Behind(i) /\ (page.missed => Rereads(i))
       /\ ~page'.unseen => ~Behind(i) /\ (page.unseen => ~page.missed /\ At(i, {"available"}, "owned"))
  BY UnseenFlags
<1>14. ~Rereads(i)
  BY <1>1, <1>4, <1>5 DEF Rereads, At, OfRoster, Changes
<1>15. ASSUME ~page'.missed
       PROVE  RosterNow'
  <2>1. AllRows' = AllRows /\ ActiveRows' = ActiveRows /\ RosterNow
    BY <1>4, <1>11, <1>12, <1>13, <1>14, <1>15
  <2>2. (\A j \in Slots : ~Changes(requests'[j])) => Fit(page'.rows, AllRows', ActiveRows')
    BY <1>3, <1>7, <2>1 DEF RosterNow
  <2>3. ASSUME NEW j \in Slots, Changes(requests'[j])
        PROVE  Changed(requests'[j], page'.rows, AllRows', ActiveRows')
    BY <1>3, <1>7, <2>1, <2>3 DEF RosterNow
  <2>4. QED
    BY <2>2, <2>3 DEF RosterNow
<1>16. ASSUME ~page'.unseen
       PROVE  Reruns' \/ SourceNow'
  <2>1. UNCHANGED tables /\ enrolled' = enrolled /\ Others' = Others
    BY <1>11, <1>12, <1>13, <1>16
  <2>2. CASE r.part = "available"
    <3>1. \A j \in Slots : requests'[j].part = "available" => j = i
      BY <1>1, <1>4, <1>7, <2>2 DEF RosterRequests
    <3>2. ASSUME Search(n, enrolled'[1], Pending', Others')
          PROVE  SourceNow'
      BY <1>1, <1>5, <2>2, <3>1, <3>2 DEF SourceNow
    <3>3. CASE n.stage \notin {"others", "answered"}
      BY <3>2, <3>3 DEF Search
    <3>4. CASE n.stage = "others"
      <4>1. n.shown = enrolled[1]
        BY <1>1, <1>10, <2>2, <3>4 DEF SearchServed
      <4>2. QED
        BY <2>1, <3>2, <3>4, <4>1 DEF Search
    <3>5. CASE n.stage = "answered"
      <4>1. r.stage = "others" /\ n.shown = StudentsMatching(r.query) \ r.shown
        BY <1>1, <1>10, <2>2, <3>5 DEF SearchServed
      <4>2. Reruns \/ SourceNow
        BY <1>1, <1>4, <1>13, <1>16, <4>1 DEF At
      <4>3. CASE Reruns
        BY <1>3, <1>7, <2>1, <4>3 DEF Reruns, AsksAgain
      <4>4. CASE SourceNow
        <5>1. r.shown = enrolled[1]
          BY <1>1, <2>2, <4>1, <4>4 DEF SourceNow, Search
        <5>2. StudentsMatching(r.query) = StudentsMatching(page.query)
          BY <1>4, <2>2 DEF OfRoster, StudentsMatching
        <5>3. n.shown = Others'
          BY <2>1, <4>1, <5>1, <5>2 DEF Others
        <5>4. QED
          BY <3>2, <3>5, <5>3 DEF Search, Agrees
      <4>5. QED
        BY <4>2, <4>3, <4>4
    <3>6. QED
      BY <3>3, <3>4, <3>5
  <2>3. CASE r.part # "available"
    <3>1. r.part = "none" /\ r.kind # "available"
      BY <1>1, <1>4, <2>3 DEF OfRoster, Changes
    <3>2. Reruns \/ SourceNow
      BY <1>1, <1>4, <1>13, <1>16, <3>1 DEF At
    <3>3. CASE Reruns
      BY <1>3, <1>7, <2>1, <3>3 DEF Reruns, AsksAgain
    <3>4. CASE SourceNow
      <4>1. (\A j \in Slots : requests'[j].part # "available") => Agrees(page'.available, Pending', Others')
        BY <1>3, <1>7, <1>8, <2>1, <3>4 DEF SourceNow
      <4>2. ASSUME NEW j \in Slots, requests'[j].part = "available"
            PROVE  Search(requests'[j], enrolled'[1], Pending', Others')
        <5>1. requests'[j] = requests[j]
          BY <1>1, <1>2, <1>5, <3>1, <4>2
        <5>2. QED
          BY <1>8, <2>1, <3>4, <4>2, <5>1 DEF SourceNow
      <4>3. QED
        BY <4>1, <4>2 DEF SourceNow
    <3>5. QED
      BY <3>2, <3>3, <3>4
  <2>4. QED
    BY <2>2, <2>3
<1>17. QED
  BY <1>9, <1>15, <1>16

\* A step for the only change.
LEMMA RosterServedChange ==
  ASSUME IInv, IInv', InRoster, RosterInv, NEW i \in Slots, Serve(i) \/ Fail(i), page' = Unseen(i),
         Changes(requests[i]), ~page.crossed
  PROVE  OneChange' /\ (page'.missed \/ RosterNow') /\ (page'.unseen \/ Reruns' \/ SourceNow')
<1>1. SameChange(requests[i], requests'[i]) /\ Serves(requests[i], requests'[i]) /\ Serving(i)
  <2>1. OfRoster(requests[i], page.query.search)
    BY DEF RosterInv, RosterRequests
  <2>2. SameChange(requests[i], requests'[i]) /\ Serves(requests[i], requests'[i])
    BY <2>1, ChangeServes DEF ChangeServed
  <2>3. QED
    BY <2>2, ServeMoves DEF Serving
<1>2. Right(i)
  BY <1>1, RightProceeding, RightLeaving, RightMaking, RightEnrolling, RightReading, RightTakingOut,
     RightWriting DEF Serves
<1>3. PICK r, n : r = requests[i] /\ n = requests'[i]
  OBVIOUS
<1>4. /\ \A j \in Slots \ {i} : requests'[j] = requests[j] /\ ~Changes(requests[j])
      /\ Changes(n) /\ (r.kind \notin Joining => \E row \in page.rows : row.id = r.id)
  BY <1>1, <1>3, ServingFacts
<1>5. page'.rows = page.rows
  BY UnseenIs
<1>6. n.kind = r.kind /\ (r.kind \notin Joining => n.id = r.id)
  BY <1>1, <1>3 DEF SameChange
<1>7. OneChange'
  BY <1>2, <1>3, <1>4, <1>5, <1>6 DEF OneChange, Right
<1>8. page'.missed \/ RosterNow'
  BY <1>2, <1>3, <1>4, <1>5 DEF RosterNow, Right
<1>9. page'.unseen \/ Reruns' \/ SourceNow'
  BY <1>2, <1>5 DEF Reruns, Right
<1>10. QED
  BY <1>7, <1>8, <1>9

LEMMA RosterServed ==
  ASSUME IInv, IInv', RosterInv, NEW i \in Slots, Serve(i) \/ Fail(i), page' = Unseen(i)
  PROVE  RosterInv'
<1>1. page'.kind = page.kind /\ page'.crossed = page.crossed
  BY UnseenIs
<1>2. SUFFICES ASSUME InRoster
               PROVE  RosterInv'
  BY <1>1 DEF RosterInv, InRoster
<1>3. RosterRequests' /\ Strangers'
  BY <1>2, RequestsServed, StrangersServed
<1>4. page'.missed => page'.unseen
  BY <1>2, UnseenFlags DEF RosterInv
<1>5. page.crossed \/ /\ OneChange' /\ (page'.missed \/ RosterNow')
                      /\ page'.unseen \/ Reruns' \/ SourceNow'
  BY <1>2, RosterServedBeside, RosterServedChange
<1>6. QED
  BY <1>1, <1>3, <1>4, <1>5 DEF RosterInv

-----------------------------------------------------------------------------
(* The steps of the page: the tables stay, and who was left behind.        *)

Quiet == UNCHANGED tables /\ strayed' = strayed

LEMMA QuietClass ==
  ASSUME Quiet, page'.query.search = page.query.search
  PROVE  /\ AllRows' = AllRows /\ ActiveRows' = ActiveRows /\ enrolled' = enrolled /\ account' = account
         /\ Others' = Others
<1>1. PICK q : q = page.query
  OBVIOUS
<1>2. StudentsMatching(q)' = StudentsMatching(q) /\ enrolled' = enrolled
  BY ClassSame DEF Quiet
<1>3. StudentsMatching(page.query)' = StudentsMatching(q)'
  BY <1>1 DEF StudentsMatching
<1>4. QED
  BY <1>1, <1>2, <1>3, ClassSame DEF Others, Quiet, tables

\* Nothing changes but requests that the page does not wait for.
LEMMA RosterRests ==
  ASSUME RosterInv, InRoster, Quiet,
         page'.kind = page.kind, page'.query = page.query, page'.rows = page.rows,
         page'.available = page.available, page'.missed = page.missed, page'.unseen = page.unseen,
         page'.crossed = page.crossed,
         \A j \in Slots :
           \/ requests'[j] = requests[j]
           \/ requests[j].part = "none" /\ requests'[j].part = "none" /\ OfRoster(requests'[j], page.query.search)
  PROVE  RosterInv'
<1>1. /\ AllRows' = AllRows /\ ActiveRows' = ActiveRows /\ enrolled' = enrolled /\ account' = account
      /\ Others' = Others
  BY QuietClass
<1>2. \A j \in Slots : /\ Changes(requests'[j]) <=> Changes(requests[j])
                       /\ requests'[j].part = requests[j].part
                       /\ requests[j].part # "none" => requests'[j] = requests[j]
                       /\ Pends(requests'[j]) <=> Pends(requests[j])
  BY DEF Changes, RosterParts, Pends
<1>3. \A j \in Slots : Changes(requests[j]) => requests[j].part # "none"
  BY DEF Changes, RosterParts
<1>4. Pending' = Pending
  BY <1>2, <1>3 DEF Pending, Pends
<1>5. /\ RosterRequests /\ Strangers /\ (page.missed => page.unseen)
      /\ page.crossed \/ /\ OneChange /\ (page.missed \/ RosterNow)
                         /\ page.unseen \/ Reruns \/ SourceNow
  BY DEF RosterInv
<1>6. RosterRequests'
  BY <1>2, <1>5 DEF RosterRequests
<1>7. Strangers'
  BY <1>1, <1>4, <1>5 DEF Strangers, Quiet
<1>8. OneChange => OneChange'
  BY <1>2, <1>3, <1>4 DEF OneChange, Quiet
<1>9. RosterNow => RosterNow'
  BY <1>1, <1>2, <1>3 DEF RosterNow
<1>10. Reruns => Reruns'
  BY <1>1, <1>2, <1>3 DEF Reruns, AsksAgain
<1>11. SourceNow => SourceNow'
  BY <1>1, <1>2, <1>4 DEF SourceNow
<1>12. QED
  BY <1>5, <1>6, <1>7, <1>8, <1>9, <1>10, <1>11 DEF RosterInv

\* A request that was answered is not waited for any more.
LEMMA RosterWithout ==
  ASSUME IInv, RosterInv, InRoster, Quiet, NEW i \in Slots, requests' = Without(i),
         requests[i].stage \in {"answered", "refused"},
         page'.kind = page.kind, page'.query = page.query, page'.crossed = page.crossed,
         page'.missed => page'.unseen,
         ~page.crossed /\ ~page'.missed =>
           ~page.missed /\ IF Changes(requests[i]) THEN Fit(page'.rows, AllRows, ActiveRows)
                           ELSE page'.rows = page.rows,
         ~page.crossed /\ ~page'.unseen =>
           /\ ~page.unseen /\ ~AsksAgain(requests[i], page.rows, Cardinality(enrolled[1]))
           /\ IF requests[i].part = "available" THEN Well(i) /\ page'.available = requests[i].shown
              ELSE page'.available = page.available,
         Changes(requests[i]) \/ page'.rows = page.rows
  PROVE  RosterInv'
<1>1. PICK r : r = requests[i]
  OBVIOUS
<1>2. requests'[i] = NoRequest /\ \A j \in Slots \ {i} : requests'[j] = requests[j]
  BY WithoutIs
<1>3. ~Changes(NoRequest) /\ NoRequest.part = "none" /\ ~Pends(NoRequest) /\ ~Pends(r)
      /\ OfRoster(NoRequest, page.query.search)
  BY <1>1 DEF Changes, Pends, OfRoster, NoRequest, RosterParts
<1>4. /\ AllRows' = AllRows /\ ActiveRows' = ActiveRows /\ enrolled' = enrolled /\ account' = account
      /\ Others' = Others
  BY QuietClass
<1>5. Pending' = Pending
  <2>1. \A j \in Slots : /\ Pends(requests'[j]) <=> Pends(requests[j])
                         /\ Pends(requests[j]) => requests'[j] = requests[j]
    BY <1>1, <1>2, <1>3
  <2>2. QED
    BY <2>1 DEF Pending
<1>6. /\ RosterRequests /\ Strangers
      /\ page.crossed \/ /\ OneChange /\ (page.missed \/ RosterNow)
                         /\ page.unseen \/ Reruns \/ SourceNow
  BY DEF RosterInv
<1>7. RosterRequests'
  BY <1>2, <1>3, <1>6 DEF RosterRequests
<1>8. Strangers'
  BY <1>4, <1>5, <1>6 DEF Strangers, Quiet
<1>9. ASSUME ~page.crossed
      PROVE  OneChange'
  <2>1. \A j \in Slots : Changes(requests'[j]) => j # i /\ requests'[j] = requests[j]
    BY <1>2, <1>3
  <2>2. \A j, k \in Slots : Changes(requests'[j]) /\ Changes(requests'[k]) => j = k
    BY <1>6, <1>9, <2>1 DEF OneChange
  <2>3. ASSUME NEW j \in Slots, Changes(requests'[j]), requests'[j].kind \notin Joining
        PROVE  \E row \in page'.rows : row.id = requests'[j].id
    <3>1. j # i /\ requests'[j] = requests[j] /\ ~Changes(requests[i])
      BY <1>6, <1>9, <2>1, <2>3 DEF OneChange
    <3>2. QED
      BY <1>6, <1>9, <2>3, <3>1 DEF OneChange
  <2>4. Pending' \cap strayed' = {}
    BY <1>5, <1>6, <1>9 DEF OneChange, Quiet
  <2>5. QED
    BY <2>2, <2>3, <2>4 DEF OneChange
<1>10. ASSUME ~page.crossed, ~page'.missed
       PROVE  RosterNow'
  <2>1. OneChange /\ RosterNow
    BY <1>6, <1>10
  <2>2. CASE Changes(requests[i])
    <3>1. \A j \in Slots : ~Changes(requests'[j])
      BY <1>2, <1>3, <2>1, <2>2 DEF OneChange
    <3>2. QED
      BY <1>4, <1>10, <2>2, <3>1 DEF RosterNow
  <2>3. CASE ~Changes(requests[i])
    <3>1. \A j \in Slots : /\ Changes(requests'[j]) <=> Changes(requests[j])
                           /\ Changes(requests[j]) => requests'[j] = requests[j]
      BY <1>2, <1>3, <2>3
    <3>2. QED
      BY <1>4, <1>10, <2>1, <2>3, <3>1 DEF RosterNow
  <2>4. QED
    BY <2>2, <2>3
<1>11. ASSUME ~page.crossed, ~page'.unseen
       PROVE  Reruns' \/ SourceNow'
  <2>1. Reruns \/ SourceNow
    BY <1>6, <1>11
  <2>2. CASE Reruns
    <3>1. PICK j \in Slots : AsksAgain(requests[j], page.rows, Cardinality(enrolled[1]))
      BY <2>2 DEF Reruns
    <3>2. j # i /\ requests'[j] = requests[j] /\ ~Changes(requests[i])
      BY <1>2, <1>6, <1>11, <3>1 DEF OneChange, AsksAgain
    <3>3. page'.rows = page.rows
      BY <3>2
    <3>4. QED
      BY <1>4, <3>1, <3>2, <3>3 DEF Reruns
  <2>3. CASE SourceNow
    <3>1. ASSUME NEW j \in Slots, requests'[j].part = "available"
          PROVE  Search(requests'[j], enrolled'[1], Pending', Others')
      BY <1>2, <1>3, <1>4, <1>5, <2>3, <3>1 DEF SourceNow
    <3>2. ASSUME \A j \in Slots : requests'[j].part # "available"
          PROVE  Agrees(page'.available, Pending', Others')
      <4>1. CASE r.part = "available"
        <5>1. Search(r, enrolled[1], Pending, Others)
          BY <1>1, <2>3, <4>1 DEF SourceNow
        <5>2. QED
          BY <1>1, <1>4, <1>5, <1>11, <4>1, <5>1 DEF Search, Well
      <4>2. CASE r.part # "available"
        <5>1. \A j \in Slots : requests[j].part # "available"
          BY <1>1, <1>2, <3>2, <4>2
        <5>2. QED
          BY <1>1, <1>4, <1>5, <1>11, <2>3, <4>2, <5>1 DEF SourceNow
      <4>3. QED
        BY <4>1, <4>2
    <3>3. QED
      BY <3>1, <3>2 DEF SourceNow
  <2>4. QED
    BY <2>1, <2>2, <2>3
<1>12. QED
  BY <1>7, <1>8, <1>9, <1>10, <1>11 DEF RosterInv

\* The students to add are asked for anew, and waited for alone.
LEMMA AskAvailableIs ==
  ASSUME NEW p, NEW s, p.query.search = s
  PROVE  LET n == AskAvailable(p) IN
         /\ DOMAIN n = Fields /\ n.kind = "available" /\ n.part = "available" /\ n.stage = "sent"
         /\ n.class = 1 /\ n.query.search = s
<1>1. PICK a : a = Ask("available", "available")
  OBVIOUS
<1>2. DOMAIN a = Fields /\ a.kind = "available" /\ a.part = "available" /\ a.stage = "sent" /\ a.query = NoQuery
  <2>1. a.query = NoQuery
    BY <1>1 DEF Ask, NoRequest
  <2>2. QED
    BY <1>1, <2>1, AskFields
<1>3. AskAvailable(p) = [a EXCEPT !.class = 1, !.query.search = s]
  BY <1>1 DEF AskAvailable
<1>4. QED
  BY <1>2, <1>3, FieldsAre DEF NoQuery

LEMMA RosterReruns ==
  ASSUME IInv, RosterInv, InRoster, NEW p, p.kind = page.kind, p.crossed = page.crossed,
         p.missed = page.missed, p.unseen = page.unseen,
         NEW rs, DOMAIN rs = Slots,
         \A j \in Slots : rs[j] = requests[j] \/ (rs[j] = NoRequest /\ ~Pends(requests[j])),
         Rerun(p, rs, AskAvailable(p)),
         ~page.crossed /\ ~page.missed =>
           \/ rs = requests /\ p.rows = page.rows
           \/ (\A j \in Slots : ~Changes(rs[j])) /\ Fit(p.rows, AllRows, ActiveRows),
         ~page.crossed => p.rows = page.rows \/ \A j \in Slots : ~Changes(rs[j])
  PROVE  RosterInv'
<1> DEFINE n == AskAvailable(p)
           left == Dropped(rs, "available")
<1>1. PICK s : s = p.query.search
  OBVIOUS
<1>2. /\ DOMAIN n = Fields /\ n.kind = "available" /\ n.part = "available" /\ n.stage = "sent"
      /\ n.class = 1 /\ n.query.search = s
  BY <1>1, AskAvailableIs
<1>3. page' = p /\ FreeSlots(left) # {} /\ requests' = Put(left, n) /\ Quiet
  BY <1>2 DEF Rerun, Rest, serverVars, history, Quiet
<1>4. DOMAIN left = Slots
      /\ \A j \in Slots : /\ left[j].part # "available" /\ left[j] \in {rs[j], NoRequest}
                          /\ rs[j].part # "available" => left[j] = rs[j]
  BY DEF Dropped, NoRequest
<1> HIDE DEF n, left
<1>5. PICK k \in FreeSlots(left) : requests' = [left EXCEPT ![k] = n]
  BY <1>3, PutIsThere
<1>6. k \in Slots /\ left[k] = NoRequest /\ requests'[k] = n /\ \A j \in Slots \ {k} : requests'[j] = left[j]
  BY <1>4, <1>5 DEF FreeSlots
<1>7. /\ ~Changes(NoRequest) /\ ~Changes(n) /\ NoRequest.part = "none"
      /\ OfRoster(NoRequest, s) /\ OfRoster(n, s)
  BY <1>2 DEF Changes, OfRoster, NoRequest, RosterParts
<1>8. \A j \in Slots : Changes(rs[j]) => rs[j].part # "available"
  BY DEF Changes, RosterParts
<1>9. \A j \in Slots : /\ Changes(requests'[j]) <=> Changes(rs[j])
                       /\ Changes(rs[j]) => requests'[j] = rs[j] /\ rs[j] = requests[j]
  BY <1>4, <1>6, <1>7, <1>8
<1>10. AllRows' = AllRows /\ ActiveRows' = ActiveRows /\ account' = account
  BY <1>3, ClassSame DEF Quiet, tables
<1>11. Pending' = Pending
  <2>1. \A j \in Slots : Pends(requests'[j]) => Pends(requests[j]) /\ requests'[j] = requests[j]
    BY <1>9 DEF Pends
  <2>2. \A j \in Slots : Pends(requests[j]) => requests'[j] = requests[j]
    BY <1>4, <1>6, <1>7, <1>8 DEF Pends
  <2>3. QED
    BY <2>1, <2>2 DEF Pending
<1>12. /\ RosterRequests /\ Strangers /\ (page.missed => page.unseen)
       /\ page.crossed \/ (OneChange /\ (page.missed \/ RosterNow))
  BY DEF RosterInv
<1>13. RosterRequests'
  <2>1. \A j \in Slots : requests'[j].part = "available" => j = k
    BY <1>4, <1>6
  <2>2. ASSUME NEW j \in Slots
        PROVE  OfRoster(requests'[j], s)
    <3>1. CASE j = k
      BY <1>6, <1>7, <3>1
    <3>2. CASE j # k /\ requests'[j] # NoRequest
      <4>1. requests'[j] = requests[j] /\ requests'[j].part # "available"
        BY <1>4, <1>6, <3>2
      <4>2. OfRoster(requests[j], page.query.search)
        BY <1>12 DEF RosterRequests
      <4>3. QED
        BY <4>1, <4>2 DEF OfRoster
    <3>3. QED
      BY <1>7, <3>1, <3>2
  <2>3. QED
    BY <1>1, <1>3, <2>1, <2>2 DEF RosterRequests
<1>14. Strangers'
  BY <1>3, <1>10, <1>11, <1>12 DEF Strangers, Quiet
<1>15. SourceNow'
  BY <1>2, <1>4, <1>6 DEF SourceNow, Search
<1>16. ASSUME ~page.crossed
       PROVE  OneChange'
  <2>1. \A j \in Slots : Changes(requests'[j]) => requests'[j] = requests[j]
    BY <1>9
  <2>2. ASSUME NEW j \in Slots, Changes(requests'[j]), requests'[j].kind \notin Joining
        PROVE  \E row \in page'.rows : row.id = requests'[j].id
    <3>1. p.rows = page.rows
      BY <1>9, <1>16, <2>2
    <3>2. QED
      BY <1>3, <1>12, <1>16, <2>1, <2>2, <3>1 DEF OneChange
  <2>3. \A i, j \in Slots : Changes(requests'[i]) /\ Changes(requests'[j]) => i = j
    BY <1>12, <1>16, <2>1 DEF OneChange
  <2>4. Pending' \cap strayed' = {}
    BY <1>3, <1>11, <1>12, <1>16 DEF OneChange, Quiet
  <2>5. QED
    BY <2>2, <2>3, <2>4 DEF OneChange
<1>17. ASSUME ~page.crossed, ~page.missed
       PROVE  RosterNow'
  <2>1. CASE rs = requests /\ p.rows = page.rows
    BY <1>3, <1>9, <1>10, <1>12, <1>17, <2>1 DEF RosterNow
  <2>2. CASE (\A j \in Slots : ~Changes(rs[j])) /\ Fit(p.rows, AllRows, ActiveRows)
    BY <1>3, <1>9, <1>10, <2>2 DEF RosterNow
  <2>3. QED
    BY <1>17, <2>1, <2>2
<1>18. QED
  BY <1>3, <1>12, <1>13, <1>14, <1>15, <1>16, <1>17 DEF RosterInv

\* A change is sent: the only one, or two cross.
LEMMA RosterSends ==
  ASSUME IInv, RosterInv, InRoster, NEW p, p.kind = page.kind, p.query = page.query, p.rows = page.rows,
         p.available = page.available, p.missed = page.missed, p.unseen = page.unseen,
         p.crossed \/ (~page.crossed /\ ~Waiting(RosterParts)),
         NEW n, Changes(n), OfRoster(n, page.query.search), n.stage \in {"sent", "class"},
         n.stage = "class" => n.kind = "createStudent",
         n.kind \notin Joining => \E row \in page.rows : row.id = n.id,
         Send(p, n)
  PROVE  RosterInv'
<1>1. PICK k \in FreeSlots(requests) : requests' = [requests EXCEPT ![k] = n]
  BY PutIsThere DEF Send
<1>2. k \in Slots /\ requests[k] = NoRequest /\ requests'[k] = n /\ \A j \in Slots \ {k} : requests'[j] = requests[j]
  BY <1>1 DEF FreeSlots, IInv, RequestsSound
<1>3. page' = p /\ Quiet
  BY DEF Send, Rest, serverVars, history, Quiet
<1>4. /\ AllRows' = AllRows /\ ActiveRows' = ActiveRows /\ enrolled' = enrolled /\ account' = account
      /\ Others' = Others
  BY <1>3, QuietClass
<1>5. ~Changes(NoRequest) /\ ~Pends(NoRequest) /\ ~Pends(n) /\ NoRequest.part = "none" /\ n.part # "available"
  BY DEF Changes, Pends, NoRequest, RosterParts
<1>6. Pending' = Pending
  <2>1. \A j \in Slots : /\ Pends(requests'[j]) <=> Pends(requests[j])
                         /\ Pends(requests[j]) => requests'[j] = requests[j]
    BY <1>2, <1>5
  <2>2. QED
    BY <2>1 DEF Pending
<1>7. /\ RosterRequests /\ Strangers /\ (page.missed => page.unseen)
      /\ page.crossed \/ /\ OneChange /\ (page.missed \/ RosterNow)
                         /\ page.unseen \/ Reruns \/ SourceNow
  BY DEF RosterInv
<1>8. RosterRequests'
  <2>1. \A j \in Slots : OfRoster(requests'[j], page.query.search)
    BY <1>2, <1>7 DEF RosterRequests
  <2>2. \A j \in Slots : requests'[j].part = "available" => requests[j].part = "available"
    BY <1>2, <1>5
  <2>3. QED
    BY <1>3, <1>7, <2>1, <2>2 DEF RosterRequests
<1>9. Strangers'
  BY <1>3, <1>4, <1>6, <1>7 DEF Strangers, Quiet
<1>10. ASSUME ~p.crossed
       PROVE  /\ ~page.crossed /\ \A j \in Slots : ~Changes(requests[j])
  <2>1. ~page.crossed /\ ~Waiting(RosterParts)
    BY <1>10
  <2>2. QED
    BY <2>1 DEF Waiting, Changes
<1>11. ASSUME ~p.crossed
       PROVE  OneChange' /\ (page'.missed \/ RosterNow') /\ (page'.unseen \/ SourceNow')
  <2>1. \A j \in Slots : Changes(requests'[j]) => j = k
    BY <1>2, <1>10, <1>11
  <2>2. OneChange'
    BY <1>2, <1>3, <1>6, <1>7, <1>10, <1>11, <2>1 DEF OneChange, Quiet
  <2>3. ASSUME ~page.missed
        PROVE  RosterNow'
    <3>1. Fit(page.rows, AllRows, ActiveRows)
      BY <1>7, <1>10, <1>11, <2>3 DEF RosterNow
    <3>2. Changed(n, page.rows, AllRows, ActiveRows)
      BY <3>1 DEF Changed, Fit
    <3>3. QED
      BY <1>2, <1>3, <1>4, <2>1, <3>2 DEF RosterNow
  <2>4. ASSUME ~page.unseen
        PROVE  SourceNow'
    <3>1. SourceNow
      BY <1>7, <1>10, <1>11, <2>4 DEF Reruns, AsksAgain
    <3>2. \A j \in Slots : requests'[j].part = "available" => requests'[j] = requests[j]
      BY <1>2, <1>5
    <3>3. (\A j \in Slots : requests'[j].part # "available") => \A j \in Slots : requests[j].part # "available"
      BY <1>2, <1>5
    <3>4. QED
      BY <1>3, <1>4, <1>6, <3>1, <3>2, <3>3 DEF SourceNow
  <2>5. QED
    BY <1>3, <2>2, <2>3, <2>4
<1>12. QED
  BY <1>3, <1>7, <1>8, <1>9, <1>11 DEF RosterInv

-----------------------------------------------------------------------------
(* The actions of the page of a class.                                     *)

\* What the page is left as when a change is sent.
SentAs(p) ==
  /\ DOMAIN p = DOMAIN page /\ p.kind = page.kind /\ p.query = page.query /\ p.rows = page.rows
  /\ p.available = page.available /\ p.missed = page.missed /\ p.unseen = page.unseen
  /\ p.crossed \/ (~page.crossed /\ ~Waiting(RosterParts))

LEMMA CrossedAs ==
  ASSUME IInv, NEW c, c \/ (~page.crossed /\ ~Waiting(RosterParts)), NEW x, NEW y
  PROVE  /\ SentAs([page EXCEPT !.crossed = c])
         /\ SentAs([page EXCEPT !.pending = x, !.error = FALSE, !.crossed = c])
         /\ SentAs([page EXCEPT !.report = y, !.crossed = c])
<1>1. DOMAIN page = DOMAIN InitialPage("users")
  BY DEF IInv, PageOK
<1> DEFINE p == [page EXCEPT !.crossed = c]
           q == [page EXCEPT !.pending = x, !.error = FALSE, !.crossed = c]
           s == [page EXCEPT !.report = y, !.crossed = c]
<1>2. SentAs(p)
  BY <1>1, PageFieldsAre DEF SentAs
<1>3. SentAs(q)
  <2>1. /\ DOMAIN q = DOMAIN page /\ q.kind = page.kind /\ q.query = page.query /\ q.rows = page.rows
        /\ q.available = page.available /\ q.missed = page.missed /\ q.unseen = page.unseen
        /\ q.crossed = c
    BY <1>1, PageFieldsAre
  <2> HIDE DEF q
  <2>2. QED
    BY <2>1 DEF SentAs
<1>4. SentAs(s)
  <2>1. /\ DOMAIN s = DOMAIN page /\ s.kind = page.kind /\ s.query = page.query /\ s.rows = page.rows
        /\ s.available = page.available /\ s.missed = page.missed /\ s.unseen = page.unseen
        /\ s.crossed = c
    BY <1>1, PageFieldsAre
  <2> HIDE DEF s
  <2>2. QED
    BY <2>1 DEF SentAs
<1>5. QED
  BY <1>2, <1>3, <1>4

LEMMA SentAsSends ==
  ASSUME IInv, RosterInv, InRoster, NEW p, SentAs(p),
         NEW n, Changes(n), OfRoster(n, page.query.search), n.stage \in {"sent", "class"},
         n.stage = "class" => n.kind = "createStudent",
         n.kind \notin Joining => \E row \in page.rows : row.id = n.id,
         Send(p, n)
  PROVE  RosterInv'
BY RosterSends DEF SentAs

LEMMA RosterChanges ==
  ASSUME IInv, RosterInv, InRoster, NEW kind \in {"add", "remove", "deleteStudent"}, NEW x, Change(kind, x),
         kind # "add" => \E row \in page.rows : row.id = x
  PROVE  RosterInv'
<1> DEFINE crossed == page.crossed \/ Waiting(RosterParts)
           p == [page EXCEPT !.pending = x, !.error = FALSE, !.crossed = crossed]
<1>1. PICK a : a = Ask(kind, "change")
  OBVIOUS
<1> DEFINE n == [a EXCEPT !.class = 1, !.id = x]
<1>2. Send(p, n)
  BY <1>1 DEF Change
<1>3. crossed \/ (~page.crossed /\ ~Waiting(RosterParts))
  OBVIOUS
<1> HIDE DEF crossed
<1>4. SentAs(p)
  BY <1>3, CrossedAs
<1>5. DOMAIN a = Fields /\ a.kind = kind /\ a.part = "change" /\ a.stage = "sent"
  BY <1>1, AskFields
<1>6. n.kind = kind /\ n.part = "change" /\ n.stage = "sent" /\ n.class = 1 /\ n.id = x
  BY <1>5, FieldsAre
<1> HIDE DEF n, p
<1>7. Changes(n) /\ OfRoster(n, page.query.search)
  BY <1>6 DEF Changes, OfRoster, RosterParts, Joining
<1>8. QED
  BY <1>2, <1>4, <1>6, <1>7, SentAsSends DEF Joining

LEMMA RosterActs ==
  ASSUME IInv, RosterInv, InRoster,
         \/ \E x \in Accounts : AddStudent(x)
         \/ \E row \in page.rows : RemoveStudent(row) \/ DeleteStudent(row) \/ EditStudent(row)
         \/ \E e \in 1 .. MaxEmails : CreateStudent(e)
         \/ \E file \in Files : ImportStudents(file)
  PROVE  RosterInv'
<1> DEFINE crossed == page.crossed \/ Waiting(RosterParts)
<1>1. crossed \/ (~page.crossed /\ ~Waiting(RosterParts))
  OBVIOUS
<1>2. CASE \E x \in Accounts : AddStudent(x)
  BY <1>2, RosterChanges DEF AddStudent
<1>3. ASSUME NEW row \in page.rows, RemoveStudent(row) \/ DeleteStudent(row)
      PROVE  RosterInv'
  BY <1>3, RosterChanges DEF RemoveStudent, DeleteStudent
<1>4. ASSUME NEW row \in page.rows, EditStudent(row)
      PROVE  RosterInv'
  <2>1. PICK a : a = Ask("editStudent", "edit")
    OBVIOUS
  <2> DEFINE n == [a EXCEPT !.id = row.id]
             p == [page EXCEPT !.crossed = crossed]
  <2>2. Send(p, n)
    BY <1>4, <2>1 DEF EditStudent
  <2> HIDE DEF crossed
  <2>3. SentAs(p)
    BY <1>1, CrossedAs
  <2>4. DOMAIN a = Fields /\ a.kind = "editStudent" /\ a.part = "edit" /\ a.stage = "sent"
    BY <2>1, AskFields
  <2>5. n.kind = "editStudent" /\ n.part = "edit" /\ n.stage = "sent" /\ n.id = row.id
    BY <2>4, FieldsAre
  <2> HIDE DEF n, p
  <2>6. Changes(n) /\ OfRoster(n, page.query.search)
    BY <2>5 DEF Changes, OfRoster, RosterParts, Joining
  <2>7. QED
    BY <2>2, <2>3, <2>5, <2>6, SentAsSends
<1>5. ASSUME NEW e, CreateStudent(e)
      PROVE  RosterInv'
  <2>1. PICK a : a = Ask("createStudent", "create")
    OBVIOUS
  <2> DEFINE n == [a EXCEPT !.stage = "class", !.class = 1, !.email = e]
             p == [page EXCEPT !.crossed = crossed]
  <2>2. Send(p, n)
    BY <1>5, <2>1 DEF CreateStudent
  <2> HIDE DEF crossed
  <2>3. SentAs(p)
    BY <1>1, CrossedAs
  <2>4. DOMAIN a = Fields /\ a.kind = "createStudent" /\ a.part = "create"
    BY <2>1, AskFields
  <2>5. n.kind = "createStudent" /\ n.part = "create" /\ n.stage = "class" /\ n.class = 1
    BY <2>4, FieldsAre
  <2> HIDE DEF n, p
  <2>6. Changes(n) /\ OfRoster(n, page.query.search)
    BY <2>5 DEF Changes, OfRoster, RosterParts, Joining, Halfway
  <2>7. QED
    BY <2>2, <2>3, <2>5, <2>6, SentAsSends DEF Joining
<1>6. ASSUME NEW file, ImportStudents(file)
      PROVE  RosterInv'
  <2>1. PICK a : a = Ask("import", "import")
    OBVIOUS
  <2> DEFINE n == [a EXCEPT !.class = 1, !.rows = file]
             p == [page EXCEPT !.report = <<>>, !.crossed = crossed]
  <2>2. Send(p, n)
    BY <1>6, <2>1 DEF ImportStudents
  <2> HIDE DEF crossed
  <2>3. SentAs(p)
    BY <1>1, CrossedAs
  <2>4. DOMAIN a = Fields /\ a.kind = "import" /\ a.part = "import" /\ a.stage = "sent"
    BY <2>1, AskFields
  <2>5. n.kind = "import" /\ n.part = "import" /\ n.stage = "sent" /\ n.class = 1
    BY <2>4, FieldsAre
  <2> HIDE DEF n, p
  <2>6. Changes(n) /\ OfRoster(n, page.query.search)
    BY <2>5 DEF Changes, OfRoster, RosterParts, Joining, Halfway
  <2>7. QED
    BY <2>2, <2>3, <2>5, <2>6, SentAsSends DEF Joining
<1>7. QED
  BY <1>2, <1>3, <1>4, <1>5, <1>6

\* The search is typed, and 300 ms later asked for.
LEMMA RosterSearches ==
  ASSUME IInv, RosterInv, InRoster, SearchStudents \/ SearchDebounced
  PROVE  RosterInv'
<1>1. DOMAIN page = DOMAIN InitialPage("users")
  BY DEF IInv, PageOK
<1>2. PICK p, s, b : p = page /\ s = page.search /\ b = ~page.search
  OBVIOUS
<1>3. CASE SearchStudents
  <2>1. page' = [p EXCEPT !.search = b] /\ requests' = requests /\ Quiet
    BY <1>2, <1>3 DEF SearchStudents, Show, Rest, serverVars, history, Quiet
  <2>2. /\ page'.kind = page.kind /\ page'.query = page.query /\ page'.rows = page.rows
        /\ page'.available = page.available /\ page'.missed = page.missed /\ page'.unseen = page.unseen
        /\ page'.crossed = page.crossed
    BY <1>1, <1>2, <2>1, PageFieldsAre
  <2>3. QED
    BY <2>1, <2>2, RosterRests
<1>4. CASE SearchDebounced
  <2> DEFINE q == [p EXCEPT !.query.search = s]
  <2>1. Rerun(q, requests, AskAvailable(q))
    BY <1>2, <1>4 DEF SearchDebounced, InList, InRoster
  <2>2. /\ q.kind = page.kind /\ q.rows = page.rows /\ q.missed = page.missed /\ q.unseen = page.unseen
        /\ q.crossed = page.crossed
    BY <1>1, <1>2, PageFieldsAre
  <2> HIDE DEF q
  <2>3. DOMAIN requests = Slots
    BY DEF IInv, RequestsSound
  <2>4. QED
    BY <2>1, <2>2, <2>3, RosterReruns
<1>5. QED
  BY <1>3, <1>4

\* The students to add have come.
LEMMA RosterHears ==
  ASSUME IInv, RosterInv, InRoster, NEW i \in Slots, AvailableAnswered(i) \/ LoseAnswer(i)
  PROVE  RosterInv'
<1>1. DOMAIN page = DOMAIN InitialPage("users")
  BY DEF IInv, PageOK
<1>2. PICK p, r : p = page /\ r = requests[i]
  OBVIOUS
<1>3. requests' = Without(i) /\ Quiet /\ r.stage \in {"answered", "refused"}
  BY <1>2 DEF AvailableAnswered, LoseAnswer, Heard, Shows, Rest, serverVars, history, Quiet
<1>4. OfRoster(r, page.query.search) /\ (page.missed => page.unseen)
  BY <1>2 DEF RosterInv, RosterRequests
<1>5. r.part \in {"none", "available"} \union RosterParts
  BY <1>4 DEF OfRoster
<1>6. CASE AvailableAnswered(i) /\ Well(i)
  <2>1. page' = [p EXCEPT !.available = r.shown] /\ r.part = "available"
    BY <1>2, <1>6 DEF AvailableAnswered, Heard, Shows
  <2>2. /\ page'.kind = page.kind /\ page'.query = page.query /\ page'.rows = page.rows
        /\ page'.available = r.shown /\ page'.missed = page.missed /\ page'.unseen = page.unseen
        /\ page'.crossed = page.crossed
    BY <1>1, <1>2, <2>1, PageFieldsAre
  <2>3. ~Changes(r)
    BY <2>1 DEF Changes, RosterParts
  <2>4. ~AsksAgain(r, page.rows, Cardinality(enrolled[1]))
    BY <2>3 DEF AsksAgain
  <2>5. QED
    BY <1>2, <1>3, <1>4, <1>6, <2>1, <2>2, <2>3, <2>4, RosterWithout
<1>7. CASE r.part = "available" /\ page' = [p EXCEPT !.unseen = TRUE]
  <2>1. /\ page'.kind = page.kind /\ page'.query = page.query /\ page'.rows = page.rows
        /\ page'.missed = page.missed /\ page'.unseen /\ page'.crossed = page.crossed
    BY <1>1, <1>2, <1>7, PageFieldsAre
  <2>2. ~Changes(r)
    BY <1>7 DEF Changes, RosterParts
  <2>3. QED
    BY <1>2, <1>3, <2>1, <2>2, RosterWithout
<1>8. CASE r.part # "available" /\ LoseAnswer(i)
  <2>1. \/ page' = [p EXCEPT !.pending = 0, !.missed = TRUE, !.unseen = TRUE]
        \/ page' = [p EXCEPT !.missed = TRUE, !.unseen = TRUE]
    BY <1>2, <1>5, <1>8 DEF LoseAnswer, RosterParts
  <2>2. /\ page'.kind = page.kind /\ page'.query = page.query /\ page'.rows = page.rows
        /\ page'.missed /\ page'.unseen /\ page'.crossed = page.crossed
    BY <1>1, <1>2, <2>1, PageFieldsAre
  <2>3. QED
    BY <1>2, <1>3, <2>2, RosterWithout
<1>9. QED
  <2>1. AvailableAnswered(i) /\ ~Well(i) => r.part = "available" /\ page' = [p EXCEPT !.unseen = TRUE]
    BY <1>2 DEF AvailableAnswered, Heard, Shows
  <2>2. LoseAnswer(i) /\ r.part = "available" => page' = [p EXCEPT !.unseen = TRUE]
    BY <1>2 DEF LoseAnswer
  <2>3. QED
    BY <1>6, <1>7, <1>8, <2>1, <2>2

\* What the page shows once the change is answered, and when that many rows are
\* the roster.
LEMMA AnswerFits ==
  ASSUME IInv, RosterInv, InRoster, ~page.crossed, ~page.missed,
         NEW i \in Slots, NEW r, r = requests[i], Changes(r), r.stage = "answered"
  PROVE  /\ Fit(RowsAfter(r), AllRows, ActiveRows)
         /\ r.kind \in Joining => RowsAfter(r) = AllRows
         /\ r.kind = "remove" => RowsAfter(r) = {row \in page.rows : row.id # r.id}
<1>1. OfRoster(r, page.query.search) /\ Changed(r, page.rows, AllRows, ActiveRows)
  BY DEF RosterInv, RosterRequests, RosterNow
<1>2. r.kind \in Joining \union {"remove", "deleteStudent", "editStudent"}
  BY <1>1, ChangeIs
<1>3. CASE r.kind \in Joining
  <2>1. RowsAfter(r) = r.shown /\ r.shown = AllRows
    BY <1>1, <1>3 DEF RowsAfter, Joining, Changed
  <2>2. ActiveRows \subseteq AllRows
    BY DEF ActiveRows, AllRows
  <2>3. QED
    BY <1>3, <2>1, <2>2 DEF Fit, Joining
<1>4. CASE r.kind \in {"remove", "deleteStudent"}
  <2>1. RowsAfter(r) = {row \in page.rows : row.id # r.id} /\ After(r, page.rows) = {row \in page.rows : row.id # r.id}
    BY <1>4 DEF RowsAfter, After
  <2>2. QED
    BY <1>1, <1>4, <2>1 DEF Changed, Joining
<1>5. CASE r.kind = "editStudent"
  <2>1. RowsAfter(r) = After(r, page.rows)
    BY <1>5 DEF RowsAfter, After
  <2>2. QED
    BY <1>1, <1>5, <2>1 DEF Changed, Joining
<1>6. QED
  BY <1>2, <1>3, <1>4, <1>5

LEMMA AsManyAsBefore ==
  ASSUME IInv, RosterInv, InRoster, ~page.crossed, ~page.missed,
         NEW i \in Slots, NEW r, r = requests[i], Changes(r), r.stage = "answered",
         Cardinality(RowsAfter(r)) = Cardinality(page.rows)
  PROVE  ~AsksAgain(r, page.rows, Cardinality(enrolled[1]))
<1>1. /\ IsFiniteSet(enrolled[1]) /\ IsFiniteSet(AllRows) /\ Cardinality(AllRows) = Cardinality(enrolled[1])
      /\ Cardinality(AllRows) \in Nat
  BY AsManyRows, FS_CardinalityType
<1>2. CASE r.kind \in Joining
  <2>1. Cardinality(page.rows) = Cardinality(enrolled[1])
    BY <1>1, <1>2, AnswerFits
  <2>2. QED
    BY <1>1, <1>2, <2>1 DEF AsksAgain, Joining
<1>3. CASE r.kind = "remove"
  <2> SUFFICES ASSUME NEW row \in page.rows, row.id = r.id
               PROVE  FALSE
    BY <1>3 DEF AsksAgain, Joining
  <2>1. PICK rest : rest = {x \in page.rows : x.id # r.id}
    OBVIOUS
  <2>2. RowsAfter(r) = rest /\ Fit(rest, AllRows, ActiveRows)
    <3>1. RowsAfter(r) = {x \in page.rows : x.id # r.id} /\ Fit(RowsAfter(r), AllRows, ActiveRows)
      BY <1>3, AnswerFits
    <3>2. QED
      BY <2>1, <3>1
  <2>3. IsFiniteSet(rest)
    BY <1>1, <2>2, FS_Subset DEF Fit
  <2>4. PICK u, v : u = [id |-> r.id, renamed |-> TRUE] /\ v = [id |-> r.id, renamed |-> FALSE]
    OBVIOUS
  <2>5. page.rows \subseteq RosterRows
    BY DEF IInv, PageOK, InRoster
  <2>6. \A x \in RosterRows : x.id = r.id => x = u \/ x = v
    BY <2>4 DEF RosterRows
  <2>7. page.rows \subseteq (rest \union {u}) \union {v}
    BY <2>1, <2>5, <2>6
  <2>8. IsFiniteSet((rest \union {u}) \union {v})
    BY <2>3, FS_AddElement
  <2>9. IsFiniteSet(page.rows)
    BY <2>7, <2>8, FS_Subset
  <2>10. Cardinality(rest) < Cardinality(page.rows) /\ Cardinality(rest) \in Nat
    BY <2>1, <2>3, <2>9, FewerRows, FS_CardinalityType
  <2>11. QED
    BY <2>2, <2>10
<1>4. QED
  BY <1>2, <1>3 DEF AsksAgain

LEMMA RosterAnswers ==
  ASSUME IInv, RosterInv, InRoster, NEW i \in Slots, RosterAnswered(i)
  PROVE  RosterInv'
<1>1. DOMAIN page = DOMAIN InitialPage("users")
  BY DEF IInv, PageOK
<1>2. PICK r, p : r = requests[i] /\ p = IF r.part = "change" THEN [page EXCEPT !.pending = 0] ELSE page
  OBVIOUS
<1>3. /\ DOMAIN p = DOMAIN page /\ p.kind = page.kind /\ p.query = page.query /\ p.rows = page.rows
      /\ p.available = page.available /\ p.missed = page.missed /\ p.unseen = page.unseen
      /\ p.crossed = page.crossed
  BY <1>1, <1>2, PageFieldsAre
<1>4. Changes(r) /\ r.stage \in {"answered", "refused"} /\ r.part # "available"
  BY <1>2 DEF RosterAnswered, Heard, Changes, RosterParts
<1>5. page.missed => page.unseen
  BY DEF RosterInv
<1>6. /\ ~page.crossed => \A j \in Slots \ {i} : ~Changes(requests[j])
      /\ ~page.crossed /\ ~page.missed => Changed(r, page.rows, AllRows, ActiveRows)
  BY <1>2, <1>4 DEF RosterInv, OneChange, RosterNow
<1>7. Without(i)[i] = NoRequest /\ DOMAIN Without(i) = Slots
      /\ \A j \in Slots \ {i} : Without(i)[j] = requests[j]
  BY WithoutIs
<1>8. CASE Well(i)
  <2>1. PICK rows : rows = RowsAfter(r)
    OBVIOUS
  <2> DEFINE q == [p EXCEPT !.rows = rows, !.report = r.outcome]
  <2>2. RosterAs(q, Without(i))
    BY <1>2, <1>8, <2>1 DEF RosterAnswered
  <2>3. /\ q.kind = page.kind /\ q.query = page.query /\ q.rows = rows
        /\ q.available = page.available /\ q.missed = page.missed /\ q.unseen = page.unseen
        /\ q.crossed = page.crossed
    BY <1>1, <1>3, PageFieldsAre
  <2> HIDE DEF q
  <2>4. r.stage = "answered"
    BY <1>2, <1>8 DEF Well
  <2>5. ~page.crossed /\ ~page.missed => Fit(rows, AllRows, ActiveRows)
    BY <1>2, <1>4, <2>1, <2>4, AnswerFits
  <2>6. CASE Cardinality(q.rows) = Cardinality(page.rows)
    <3>1. page' = q /\ requests' = Without(i) /\ Quiet
      BY <2>2, <2>6 DEF RosterAs, Shows, Rest, serverVars, history, Quiet
    <3>2. ~page.crossed /\ ~page.missed => ~AsksAgain(r, page.rows, Cardinality(enrolled[1]))
      BY <1>2, <1>4, <2>1, <2>3, <2>4, <2>6, AsManyAsBefore
    <3>3. QED
      BY <1>2, <1>4, <1>5, <2>3, <2>5, <3>1, <3>2, RosterWithout
  <2>7. CASE Cardinality(q.rows) # Cardinality(page.rows)
    <3>1. Rerun(q, Without(i), AskAvailable(q))
      BY <2>2, <2>7 DEF RosterAs
    <3>2. \A j \in Slots : Without(i)[j] = requests[j] \/ (Without(i)[j] = NoRequest /\ ~Pends(requests[j]))
      BY <1>2, <1>4, <1>7 DEF Pends
    <3>3. ~page.crossed => \A j \in Slots : ~Changes(Without(i)[j])
      BY <1>6, <1>7 DEF Changes, NoRequest, RosterParts
    <3>4. QED
      BY <1>7, <2>3, <2>5, <3>1, <3>2, <3>3, RosterReruns
  <2>8. QED
    BY <2>6, <2>7
<1>9. CASE ~Well(i)
  <2>1. PICK failed : failed = (r.part = "change")
    OBVIOUS
  <2> DEFINE q == [p EXCEPT !.error = failed]
  <2>2. Shows(q, Without(i))
    BY <1>2, <1>9, <2>1 DEF RosterAnswered
  <2>3. /\ q.kind = page.kind /\ q.query = page.query /\ q.rows = page.rows
        /\ q.available = page.available /\ q.missed = page.missed /\ q.unseen = page.unseen
        /\ q.crossed = page.crossed
    BY <1>1, <1>3, PageFieldsAre
  <2> HIDE DEF q
  <2>4. page' = q /\ requests' = Without(i) /\ Quiet
    BY <2>2 DEF Shows, Rest, serverVars, history, Quiet
  <2>5. r.stage = "refused" /\ ~Half(r)
    BY <1>2, <1>4, <1>9 DEF Well, Half, Halfway
  <2>6. ~page.crossed /\ ~page.missed => Fit(page.rows, AllRows, ActiveRows)
    BY <1>6, <2>5 DEF Changed, Fit
  <2>7. ~AsksAgain(r, page.rows, Cardinality(enrolled[1]))
    BY <2>5 DEF AsksAgain
  <2>8. QED
    BY <1>2, <1>4, <1>5, <2>3, <2>4, <2>6, <2>7, RosterWithout
<1>10. QED
  BY <1>8, <1>9

\* What others do.
LEMMA RosterOthers ==
  ASSUME IInv, RosterInv, InRoster, Elsewhere \/ Expiry \/ UNCHANGED vars
  PROVE  RosterInv'
<1>1. CASE Elsewhere
  <2>1. PICK n \in Asks(page.kind) : requests' = Put(requests, n)
    BY <1>1 DEF Elsewhere
  <2>2. FreeSlots(requests) # {} /\ Quiet /\ page' = page
    BY <1>1 DEF Elsewhere, serverVars, history, Quiet
  <2>3. PICK k \in FreeSlots(requests) : requests' = [requests EXCEPT ![k] = n]
    BY <2>1, <2>2, PutIsThere
  <2>4. n.part = "none" /\ n.kind \notin {"available", "createStudent", "import"}
    BY AsksNone DEF IInv, TypeOK
  <2>5. k \in Slots /\ requests[k] = NoRequest /\ DOMAIN requests = Slots
    BY <2>3 DEF FreeSlots, IInv, RequestsSound
  <2>6. requests[k].part = "none" /\ OfRoster(n, page.query.search)
    BY <2>4, <2>5 DEF NoRequest, OfRoster, Changes, RosterParts
  <2>7. QED
    BY <2>2, <2>3, <2>4, <2>5, <2>6, RosterRests
<1>2. CASE Expiry
  <2>1. page' = page /\ requests' = requests /\ Quiet
    BY <1>2 DEF Expiry, WindowEnds, SessionExpires, history, Quiet
  <2>2. QED
    BY <2>1, RosterRests
<1>3. CASE UNCHANGED vars
  <2>1. page' = page /\ requests' = requests /\ Quiet
    BY <1>3 DEF vars, directoryVars, history, Quiet
  <2>2. QED
    BY <2>1, RosterRests
<1>4. QED
  BY <1>1, <1>2, <1>3

LEMMA RosterNext ==
  ASSUME IInv, RosterInv, [Next]_vars
  PROVE  RosterInv'
<1>1. IInv' /\ page'.kind = page.kind
  BY NextStays DEF Stays
<1>2. SUFFICES ASSUME InRoster
               PROVE  RosterInv'
  BY <1>1 DEF RosterInv, InRoster
<1>3. CASE Acts
  <2>1. \A row : ~(ToggleStatus(row) \/ HandleDelete(row) \/ ResetPassword(row) \/ RenameClass(row))
    BY <1>2 DEF InList, InRoster, ToggleStatus, HandleDelete, ResetPassword, RenameClass
  <2>2. \A role : ~HandleRoleChange(role)
    BY <1>2 DEF InRoster, HandleRoleChange
  <2>3. \A e, f : ~(SubmitLogin(e, f) \/ SubmitRegister(e))
    BY <1>2 DEF InRoster, InBrowser, SubmitLogin, SubmitRegister
  <2>4. ~(HandleSearchChange \/ TurnPage \/ Create \/ OpenPage \/ HandleLogout)
    BY <1>2 DEF InList, InRoster, InBrowser, HandleSearchChange, TurnPage, Create, OpenPage, HandleLogout
  <2>5. QED
    BY <1>2, <1>3, <2>1, <2>2, <2>3, <2>4, RosterActs, RosterSearches DEF Acts
<1>4. CASE SearchDebounced
  BY <1>2, <1>4, RosterSearches
<1>5. CASE \E i \in Slots : ServeStep(i) \/ FailStep(i)
  BY <1>1, <1>5, RosterServed DEF ServeStep, FailStep
<1>6. CASE \E i \in Slots : LoseAnswer(i) \/ AvailableAnswered(i) \/ RosterAnswered(i)
  BY <1>2, <1>6, RosterHears, RosterAnswers
<1>7. ASSUME NEW i \in Slots
      PROVE  ~(LoadAnswered(i) \/ ActionAnswered(i) \/ BrowserAnswered(i))
  <2>1. OfRoster(requests[i], page.query.search)
    BY <1>2 DEF RosterInv, RosterRequests
  <2>2. requests[i].part \in {"none", "available", "change", "create", "import", "edit"}
    BY <2>1 DEF OfRoster, RosterParts
  <2>3. QED
    BY <1>2, <2>2 DEF LoadAnswered, ActionAnswered, BrowserAnswered, Heard, InRoster, InList
<1>8. CASE Elsewhere \/ Expiry \/ UNCHANGED vars
  BY <1>2, <1>8, RosterOthers
<1>9. QED
  BY <1>3, <1>4, <1>5, <1>6, <1>7, <1>8 DEF Next

LEMMA RosterInit ==
  ASSUME Init
  PROVE  RosterInv
<1> SUFFICES ASSUME InRoster
             PROVE  RosterInv
  BY DEF RosterInv
<1>1. PICK kind, t, p :
        /\ kind \in Kinds /\ t \in {0, 1}
        /\ Bare(p, kind, t)
        /\ kind = "browser" => page = p /\ requests = NoneYet
        /\ kind = "roster" => /\ page = [p EXCEPT !.rows = {RosterRow(1)}]
                              /\ requests = Put(NoneYet, AskAvailable(p))
        /\ kind \in {"users", "classes"} => /\ page = [p EXCEPT !.loading = TRUE]
                                            /\ requests = Put(NoneYet, AskList(p))
  BY FirstPage
<1>2. /\ DOMAIN p = DOMAIN InitialPage("users") /\ p.kind = kind
      /\ p.query = NoQuery /\ ~p.missed /\ ~p.unseen /\ ~p.crossed
  BY <1>1 DEF Bare
<1>3. kind = "roster"
  <2>1. page.kind = kind
    BY <1>1, <1>2, PageFieldsAre DEF Kinds
  <2>2. QED
    BY <2>1 DEF InRoster
<1>4. /\ page.rows = {RosterRow(1)} /\ page.query = NoQuery /\ ~page.missed /\ ~page.unseen /\ ~page.crossed
  BY <1>1, <1>2, <1>3, PageFieldsAre
<1>5. PICK s : s = p.query.search
  OBVIOUS
<1> DEFINE n == AskAvailable(p)
<1>6. /\ DOMAIN n = Fields /\ n.kind = "available" /\ n.part = "available" /\ n.stage = "sent"
      /\ n.class = 1 /\ n.query.search = s
  BY <1>5, AskAvailableIs
<1>7. requests = Put(NoneYet, n)
  BY <1>1, <1>3
<1> HIDE DEF n
<1>8. 1 \in FreeSlots(NoneYet)
  BY DirectoryAssumption, PagesAssumption DEF FreeSlots, NoneYet, Slots
<1>9. PICK k \in FreeSlots(NoneYet) : requests = [NoneYet EXCEPT ![k] = n]
  BY <1>7, <1>8, PutIsThere
<1>10. k \in Slots /\ requests[k] = n /\ \A j \in Slots \ {k} : requests[j] = NoRequest
  BY <1>9 DEF FreeSlots, NoneYet
<1>11. /\ ~Changes(NoRequest) /\ ~Changes(n) /\ NoRequest.part = "none"
       /\ OfRoster(NoRequest, s) /\ OfRoster(n, s)
  BY <1>6 DEF Changes, OfRoster, NoRequest, RosterParts
<1>12. \A j \in Slots : ~Changes(requests[j])
  BY <1>10, <1>11
<1>13. RosterRequests
  <2>1. page.query.search = s
    BY <1>2, <1>4, <1>5
  <2>2. \A j \in Slots : OfRoster(requests[j], page.query.search)
    BY <1>10, <1>11, <2>1
  <2>3. \A j \in Slots : requests[j].part = "available" => j = k
    BY <1>10, <1>11
  <2>4. QED
    BY <2>2, <2>3 DEF RosterRequests
<1>14. Pending = {} /\ strayed = {}
  <2>1. Pending = {}
    BY <1>12, NonePend DEF Pending
  <2>2. QED
    BY <2>1 DEF Init
<1>15. enrolled[1] = {1}
  BY Zeros DEF Init
<1>16. Fit(page.rows, AllRows, ActiveRows)
  <2>1. AllRows = {RosterRow(1)} /\ ActiveRows \subseteq AllRows
    BY <1>15 DEF AllRows, ActiveRows
  <2>2. QED
    BY <1>4, <2>1 DEF Fit
<1>17. RosterNow /\ OneChange /\ Strangers
  BY <1>12, <1>14, <1>16 DEF RosterNow, OneChange, Strangers
<1>18. SourceNow
  BY <1>6, <1>10, <1>11 DEF SourceNow, Search
<1>19. QED
  BY <1>4, <1>13, <1>17, <1>18 DEF RosterInv

\* The page of a class that rests shows, between the two lists, who is in the
\* class and who is not: its roster has the students of the class and their names
\* (with or without those whose account was deleted), and the students to add are
\* the others that the search finds, unless two changes of it crossed, an answer
\* was lost, or others have changed something.  The list of students to add is
\* asked for again when the roster has another length (useEffect in
\* class-roster.tsx), which is enough: a change that leaves the length as it was
\* has left the others as they were.
THEOREM ClassPagesShow == Spec => []ClassPageShowsClass
<1>1. IInv /\ RosterInv => ClassPageShowsClass
  <2> SUFFICES ASSUME IInv, RosterInv, InRoster, ~Waiting(RosterParts), ~page.crossed
               PROVE  /\ ~page.missed => Fit(page.rows, AllRows, ActiveRows)
                      /\ ~Waiting(RosterParts \union {"available"}) /\ ~page.unseen => page.available = Others
    BY DEF ClassPageShowsClass, RosterShowsClass, AvailableAreOthers, Fit, AllRows, ActiveRows, Others, Waiting
  <2>1. \A i \in Slots : ~Changes(requests[i])
    BY DEF Waiting, Changes
  <2>2. ~page.missed => Fit(page.rows, AllRows, ActiveRows)
    BY <2>1 DEF RosterInv, RosterNow
  <2>3. ASSUME ~Waiting(RosterParts \union {"available"}), ~page.unseen
        PROVE  page.available = Others
    <3>1. \A i \in Slots : requests[i].part # "available"
      BY <2>3 DEF Waiting
    <3>2. ~Reruns
      BY <2>1 DEF Reruns, AsksAgain
    <3>3. Agrees(page.available, Pending, Others)
      BY <2>3, <3>1, <3>2 DEF RosterInv, SourceNow
    <3>4. Pending = {}
      BY <2>1, NonePend DEF Pending
    <3>5. QED
      BY <3>3, <3>4 DEF Agrees
  <2>4. QED
    BY <2>2, <2>3
<1>2. Init => IInv /\ RosterInv
  BY InitSound, RosterInit
<1>3. IInv /\ RosterInv /\ [Next]_vars => IInv' /\ RosterInv'
  BY NextSound, RosterNext
<1>4. QED
  BY <1>1, <1>2, <1>3, PTL DEF Spec
================================================================================

---------------------------- MODULE QuestionImport ----------------------------
(***************************************************************************)
(* Importing questions: the wizard of the import page (imports/            *)
(* import-page.tsx), the session of an upload in Redis, and the commit     *)
(* that turns its rows into questions (imports/import.service.ts), one     *)
(* transaction a row.                                                      *)
(*                                                                         *)
(* A row of a file is, under a mapping of its columns, the key it has      *)
(* (subject and text) and whether it is a question; a file is its rows.    *)
(* No action depends on overlapped and unheard, which are history.         *)
(***************************************************************************)
EXTENDS Naturals, Sequences, FiniteSets, SequencesExt

CONSTANTS
  Keys,           \* subject and text of a question, in lower case
  Files,          \* what can be imported
  Uploads,        \* those that are files or pasted, the others are worksheets
  Spreadsheets,   \* the spreadsheets of the Google account
  Tabs,           \* the worksheets of each
  Mappings,       \* how the columns of a file can be matched with the fields
  Detected,       \* the mapping detected for each file
  Rows,           \* the rows of each file under each mapping
  InBank,         \* the keys that are in the bank to begin with
  MaxSessions,    \* bounds the uploads
  MaxRequests,    \* bounds the requests under way at a time
  MaxInputs,      \* bounds what the teacher does
  Faults          \* "network": an answer is lost; "crash": a request dies;
                  \* "expiry": a session, or the token for Google, expires

ASSUME ImportAssumption ==
  /\ Uploads \subseteq Files /\ InBank \subseteq Keys
  /\ Tabs \in [Spreadsheets -> SUBSET (Files \ Uploads)]
  /\ Detected \in [Files -> Mappings]
  /\ Rows \in [Files -> [Mappings -> Seq([key : Keys, fits : BOOLEAN])]]
  /\ MaxSessions \in Nat /\ MaxRequests \in Nat /\ MaxInputs \in Nat

VARIABLES
  session,     \* import-session:<id> in Redis, by id
  used,        \* how many sessions were created
  bank,        \* how many questions of each key are in the bank
  imports,     \* the rows of the table imports, with what the commit created
  token,       \* google-import-token: "none", "valid", or "stale" for Google
  requests,    \* the requests of the page, oldest first
  page,        \* the state of the wizard
  inputs,      \* how often the teacher did something
  overlapped,  \* a commit looked at the bank while another was filling it
  unheard      \* an answer about a mapping was lost or overtaken

serverVars == <<session, used, bank, imports, token>>
vars == <<serverVars, requests, page, inputs, overlapped, unheard>>

Sessions == 1 .. MaxSessions
None == "none"
NoSession == [file |-> None, mapping |-> None]
NoPreview == [session |-> 0, mapping |-> None, valid |-> 0]

\* validateAll: a row has an error if it does not fit or an earlier row, fitting
\* or not, has its key; what a row becomes (its question) is there if it fits and
\* its key is new to the batch.
Wrong(rows) ==
  {i \in DOMAIN rows : ~rows[i].fits \/ \E j \in 1 .. i - 1 : rows[j].key = rows[i].key}
Valid(rows) ==
  {i \in DOMAIN rows : rows[i].fits /\ \A j \in 1 .. i - 1 : rows[j].key # rows[i].key}
RowsOf(s) == Rows[s.file][s.mapping]
\* summarize counts the errors, and calls the other rows valid.
PreviewOf(id, s) ==
  LET rows == RowsOf(s)
  IN  [session |-> id, mapping |-> s.mapping, valid |-> Len(rows) - Cardinality(Wrong(rows))]

\* A request: for a preview of a file (from a spreadsheet, perhaps), for the
\* worksheets of a spreadsheet, or to map or commit a session.
NewRequest(kind) ==
  [kind |-> kind, stage |-> "sent", session |-> 0, file |-> None, mapping |-> None,
   from |-> None, todo |-> <<>>, created |-> 0, success |-> 0, errors |-> 0,
   preview |-> NoPreview, heard |-> TRUE]

Becomes(i, r) == requests' = [requests EXCEPT ![i] = r]
Answer(i, r) == requests' = IF r.heard THEN [requests EXCEPT ![i] = r] ELSE RemoveAt(requests, i)
Refuse(i) == Answer(i, [requests[i] EXCEPT !.stage = "refused"])
ServerOnly == UNCHANGED <<page, inputs>>

-----------------------------------------------------------------------------
\* The server's side of the preview and of the mapping.

CreateSession(i) ==
  LET s == [file |-> requests[i].file, mapping |-> Detected[requests[i].file]] IN
  /\ used < MaxSessions
  /\ used' = used + 1
  /\ session' = [session EXCEPT ![used + 1] = s]
  /\ Answer(i, [requests[i] EXCEPT !.stage = "answered", !.preview = PreviewOf(used + 1, s)])

\* A file that is too large or cannot be parsed, or one upload too many, is
\* refused.
StartImportPreview(i) ==
  /\ requests[i].kind = "preview" /\ requests[i].stage = "sent" /\ requests[i].from = None
  /\ \/ CreateSession(i)
     \/ Refuse(i) /\ UNCHANGED <<session, used>>
  /\ ServerOnly /\ UNCHANGED <<bank, imports, token, overlapped, unheard>>

\* A worksheet is read first. A token that Google refuses is forgotten.
ReadGoogleSheetValues(i) ==
  /\ requests[i].kind = "preview" /\ requests[i].stage = "sent" /\ requests[i].from # None
  /\ IF token = "valid" /\ requests[i].file \in Tabs[requests[i].from]
       THEN CreateSession(i) /\ UNCHANGED token
       ELSE /\ Refuse(i)
            /\ token' = IF token = "stale" THEN "none" ELSE token
            /\ UNCHANGED <<session, used>>
  /\ ServerOnly /\ UNCHANGED <<bank, imports, overlapped, unheard>>

ListGoogleSheetTabs(i) ==
  /\ requests[i].kind = "tabs" /\ requests[i].stage = "sent"
  /\ IF token = "valid"
       THEN Answer(i, [requests[i] EXCEPT !.stage = "answered"]) /\ UNCHANGED token
       ELSE Refuse(i) /\ token' = "none"
  /\ ServerOnly /\ UNCHANGED <<session, used, bank, imports, overlapped, unheard>>

\* updateImportMapping reads the session ...
ReadForMapping(i) ==
  LET r == requests[i] IN
  /\ r.kind = "mapping" /\ r.stage = "sent"
  /\ IF session[r.session] = NoSession THEN Refuse(i)
     ELSE Becomes(i, [r EXCEPT !.stage = "read", !.file = session[r.session].file])
  /\ ServerOnly /\ UNCHANGED <<serverVars, overlapped, unheard>>

\* Bug: the answer has the mapping that was there before.
WriteMappingAnswersOld(i) ==
  LET r == requests[i]
      s == [file |-> r.file, mapping |-> r.mapping]
  IN
  /\ r.kind = "mapping" /\ r.stage = "read"
  /\ session' = [session EXCEPT ![r.session] = s]
  /\ Answer(i, [r EXCEPT !.stage = "answered",
                         !.preview = PreviewOf(r.session, [s EXCEPT !.mapping = Detected[r.file]])])
  /\ ServerOnly /\ UNCHANGED <<used, bank, imports, token, overlapped, unheard>>

\* ... and writes it back, for another 30 minutes, with its new mapping. What a
\* commit has deleted meanwhile is there again.
WriteMapping(i) ==
  LET r == requests[i]
      s == [file |-> r.file, mapping |-> r.mapping]
  IN
  /\ r.kind = "mapping" /\ r.stage = "read"
  /\ session' = [session EXCEPT ![r.session] = s]
  /\ Answer(i, [r EXCEPT !.stage = "answered", !.preview = PreviewOf(r.session, s)])
  /\ unheard' = (unheard \/ ~r.heard \/ \E j \in DOMAIN requests :
                   requests[j].kind = "mapping" /\ requests[j].stage = "answered")
  /\ ServerOnly /\ UNCHANGED <<used, bank, imports, token, overlapped>>

-----------------------------------------------------------------------------
\* commitImport.

\* The session is read once ...
ReadForCommit(i) ==
  LET r == requests[i]
      s == session[r.session]
  IN
  /\ r.kind = "commit" /\ r.stage = "sent"
  /\ IF s = NoSession THEN Refuse(i)
     ELSE Becomes(i, [r EXCEPT !.stage = "read", !.file = s.file, !.mapping = s.mapping])
  /\ ServerOnly /\ UNCHANGED <<serverVars, overlapped, unheard>>

\* The keys of some rows of a file, in its order.
KeysOf(rows, chosen) ==
  [n \in 1 .. Cardinality(chosen) |->
     rows[CHOOSE i \in chosen : Cardinality({j \in chosen : j <= i}) = n].key]

Filling(j) == requests[j].kind = "commit" /\ requests[j].stage = "filling"

\* validRows and invalidRows are two filters of the rows: by what a row became,
\* and by its errors. The first are to be created.
Filtered(r, rows, valid, invalid) ==
  [r EXCEPT !.stage = "filling", !.todo = KeysOf(rows, valid),
            !.success = Cardinality(valid), !.errors = Cardinality(invalid)]

InBankAlready(rows) == {n \in Valid(rows) : bank[rows[n].key] # 0}

\* Bug: only the rows of the file are compared with each other.
CheckBankNot(r, rows) == Filtered(r, rows, Valid(rows), Wrong(rows))

\* Bug: a row that is in the bank gets its error and stays a question.
CheckBankNoted(r, rows) ==
  Filtered(r, rows, Valid(rows), Wrong(rows) \union InBankAlready(rows))

\* A row whose key is in the bank gets an error and is a question no more.
CheckedRows(r, rows) ==
  Filtered(r, rows, Valid(rows) \ InBankAlready(rows), Wrong(rows) \union InBankAlready(rows))

\* ... and so are the keys of the bank ...
CheckBank(i) ==
  LET r == requests[i] IN
  /\ r.kind = "commit" /\ r.stage = "read"
  /\ Becomes(i, CheckedRows(r, RowsOf(r)))
  /\ overlapped' = (overlapped \/ \E j \in DOMAIN requests : Filling(j))
  /\ ServerOnly /\ UNCHANGED <<serverVars, unheard>>

\* ... the questions that are left are created, each in a transaction of its own ...
CreateRow(i) ==
  LET r == requests[i] IN
  /\ Filling(i) /\ r.todo # <<>>
  /\ bank' = [bank EXCEPT ![Head(r.todo)] = @ + 1]
  /\ Becomes(i, [r EXCEPT !.todo = Tail(@), !.created = @ + 1])
  /\ ServerOnly /\ UNCHANGED <<session, used, imports, token, overlapped, unheard>>

\* ... the import is recorded with the counts of the two filters, and its errors ...
RecordImport(i) ==
  LET r == requests[i] IN
  /\ Filling(i) /\ r.todo = <<>>
  /\ imports' = Append(imports, [session |-> r.session, total |-> Len(RowsOf(r)),
                                 created |-> r.created, success |-> r.success,
                                 errors |-> r.errors])
  /\ Becomes(i, [r EXCEPT !.stage = "recorded"])
  /\ ServerOnly /\ UNCHANGED <<session, used, bank, token, overlapped, unheard>>

\* ... and the session is deleted last.
DeleteImportSession(i) ==
  /\ requests[i].kind = "commit" /\ requests[i].stage = "recorded"
  /\ session' = [session EXCEPT ![requests[i].session] = NoSession]
  /\ Answer(i, [requests[i] EXCEPT !.stage = "answered"])
  /\ ServerOnly /\ UNCHANGED <<used, bank, imports, token, overlapped, unheard>>

\* A statement fails or the process dies: what was done is done, and the answer
\* is an error.
Fail(i) ==
  /\ "crash" \in Faults
  /\ requests[i].stage \in {"sent", "read", "filling", "recorded"}
  /\ Refuse(i)
  /\ ServerOnly /\ UNCHANGED <<serverVars, overlapped, unheard>>

SessionExpires(id) ==
  /\ "expiry" \in Faults /\ session[id] # NoSession
  /\ session' = [session EXCEPT ![id] = NoSession]
  /\ ServerOnly /\ UNCHANGED <<used, bank, imports, token, requests, overlapped, unheard>>

\* The key goes after 55 minutes; Google may stop to take the token before.
TokenExpires ==
  /\ "expiry" \in Faults /\ token # "none"
  /\ token' \in {"stale", "none"} \ {token}
  /\ ServerOnly /\ UNCHANGED <<session, used, bank, imports, requests, overlapped, unheard>>

-----------------------------------------------------------------------------
\* The wizard.

NewPage ==
  [step |-> 1, furthest |-> 1, source |-> None, preview |-> NoPreview, error |-> FALSE,
   loading |-> FALSE, committing |-> FALSE, done |-> FALSE,
   connected |-> "unknown", spreadsheet |-> None, tabs |-> {}, sheet |-> None,
   loadingTabs |-> FALSE]

Show(fields) == page' = fields
Do == inputs < MaxInputs /\ inputs' = inputs + 1 /\ UNCHANGED <<serverVars, overlapped, unheard>>
Send(r) == Len(requests) < MaxRequests /\ requests' = Append(requests, r)

InWizard(step) == ~page.done /\ page.step = step
Advance(p, target) ==
  [p EXCEPT !.step = target, !.furthest = IF @ < target THEN target ELSE @]

\* What the page offers at each step.
OffersFile == InWizard(1)
OffersJson == InWizard(1) /\ ~page.loading
OffersGoogle == InWizard(1) /\ page.connected = "yes"
OffersConnect == InWizard(1) /\ page.connected = "no"
OffersSpreadsheets == InWizard(2) /\ page.source = "google"
OffersSheets == OffersSpreadsheets /\ page.spreadsheet # None /\ ~page.loadingTabs
OffersLoad == OffersSpreadsheets /\ page.sheet # None /\ ~page.loading
OffersMapping == InWizard(3) /\ page.preview # NoPreview
OffersCommit == OffersMapping /\ ~page.committing /\ page.preview.valid > 0

StatusArrives ==
  /\ page.connected = "unknown"
  /\ Show([page EXCEPT !.connected = IF token = "none" THEN "no" ELSE "yes"])
  /\ UNCHANGED <<serverVars, requests, inputs, overlapped, unheard>>

Load(p) == [p EXCEPT !.loading = TRUE, !.error = FALSE, !.done = FALSE]

\* The input for a file is never disabled, the button to parse a paste is while
\* a preview is loading.
HandleFileChange(f) ==
  /\ Do /\ OffersFile
  /\ Show([Load(page) EXCEPT !.source = "file"])
  /\ Send([NewRequest("preview") EXCEPT !.file = f])

HandleJsonSubmit(f) ==
  /\ Do /\ OffersJson
  /\ Show([Load(page) EXCEPT !.source = "json"])
  /\ Send([NewRequest("preview") EXCEPT !.file = f])

ChooseGoogleSource ==
  /\ Do /\ OffersGoogle
  /\ Show(Advance([page EXCEPT !.source = "google"], 2))
  /\ UNCHANGED requests

\* The browser leaves for Google and comes back to a new page. A sign-in that
\* is denied, or whose state is not that of the cookie, leaves no token.
ConnectGoogle ==
  /\ inputs < MaxInputs /\ inputs' = inputs + 1
  /\ OffersConnect
  /\ token' \in {"valid", token}
  /\ Show(NewPage)
  /\ requests' = [i \in DOMAIN requests |-> [requests[i] EXCEPT !.heard = FALSE]]
  /\ UNCHANGED <<session, used, bank, imports, overlapped>>
  /\ unheard' = (unheard \/ requests # <<>>)

HandleSelectSpreadsheet(x) ==
  /\ Do /\ OffersSpreadsheets
  /\ Show([page EXCEPT !.spreadsheet = x, !.sheet = None, !.tabs = {}, !.loadingTabs = TRUE])
  /\ Send([NewRequest("tabs") EXCEPT !.from = x])

SelectSheet(f) ==
  /\ Do /\ OffersSheets /\ f \in page.tabs
  /\ Show([page EXCEPT !.sheet = f]) /\ UNCHANGED requests

HandleLoadGoogleSheet ==
  /\ Do /\ OffersLoad
  /\ Show(Load(page))
  /\ Send([NewRequest("preview") EXCEPT !.file = page.sheet, !.from = page.spreadsheet])

\* From the mapping shown, which is that of the last answer.
HandleMappingChange(m) ==
  /\ Do /\ OffersMapping /\ m # page.preview.mapping
  /\ Send([NewRequest("mapping") EXCEPT !.session = page.preview.session, !.mapping = m])
  /\ UNCHANGED page

HandleCommit ==
  /\ Do /\ OffersCommit
  /\ Show([page EXCEPT !.committing = TRUE])
  /\ Send([NewRequest("commit") EXCEPT !.session = page.preview.session])

\* Bug: every step that was reached can be gone to.
GoToReachedStep(target) ==
  /\ Do /\ ~page.done /\ target # page.step /\ target <= page.furthest
  /\ Show([page EXCEPT !.step = target]) /\ UNCHANGED requests

GoToStep(target) ==
  /\ Do /\ ~page.done /\ target # page.step
  /\ target <= page.furthest /\ (target = 2 => page.source = "google")
  /\ Show([page EXCEPT !.step = target]) /\ UNCHANGED requests

ResetWizard ==
  /\ Do /\ page.done
  /\ Show([NewPage EXCEPT !.loading = page.loading, !.committing = page.committing,
                          !.connected = page.connected, !.loadingTabs = page.loadingTabs])
  /\ UNCHANGED requests

\* The page after an answer, in whatever order the answers come.
AfterAnswer(r) ==
  CASE r.kind = "preview" ->
         Advance([page EXCEPT !.preview = r.preview, !.loading = FALSE], 3)
    [] r.kind = "tabs" -> [page EXCEPT !.tabs = Tabs[r.from], !.loadingTabs = FALSE]
    [] r.kind = "mapping" -> [page EXCEPT !.preview = r.preview]
    [] r.kind = "commit" ->
         [page EXCEPT !.done = TRUE, !.preview = NoPreview, !.committing = FALSE]

AnswerArrives(i) ==
  /\ requests[i].stage = "answered"
  /\ Show(AfterAnswer(requests[i]))
  /\ requests' = RemoveAt(requests, i)
  /\ UNCHANGED <<serverVars, inputs, overlapped, unheard>>

\* Each handler but that of the mapping ends with what it was busy with.
NoLonger(kind) ==
  CASE kind = "preview" -> [page EXCEPT !.loading = FALSE]
    [] kind = "tabs" -> [page EXCEPT !.loadingTabs = FALSE]
    [] kind = "commit" -> [page EXCEPT !.committing = FALSE]
    [] kind = "mapping" -> page

\* Bug: an error is shown, and the page stays busy.
RefusalArrivesBusy(i) ==
  /\ requests[i].stage = "refused"
  /\ Show([page EXCEPT !.error = @ \/ requests[i].kind \in {"preview", "commit"}])
  /\ requests' = RemoveAt(requests, i)
  /\ UNCHANGED <<serverVars, inputs, overlapped, unheard>>

RefusalArrives(i) ==
  /\ requests[i].stage = "refused"
  /\ Show([NoLonger(requests[i].kind) EXCEPT
             !.error = @ \/ requests[i].kind \in {"preview", "commit"}])
  /\ requests' = RemoveAt(requests, i)
  /\ UNCHANGED <<serverVars, inputs, overlapped, unheard>>

\* The fetch throws, whatever the server does or has done with the request.
LoseAnswer(i) ==
  /\ "network" \in Faults /\ requests[i].heard
  /\ Show(NoLonger(requests[i].kind))
  /\ requests' = IF requests[i].stage \in {"answered", "refused"} THEN RemoveAt(requests, i)
                 ELSE [requests EXCEPT ![i].heard = FALSE]
  /\ unheard' = (unheard \/ requests[i].kind = "mapping")
  /\ UNCHANGED <<serverVars, inputs, overlapped>>

-----------------------------------------------------------------------------
Init ==
  /\ session = [id \in Sessions |-> NoSession] /\ used = 0
  /\ bank = [k \in Keys |-> IF k \in InBank THEN 1 ELSE 0]
  /\ imports = <<>> /\ token \in {"none", "valid"}
  /\ requests = <<>> /\ page = NewPage /\ inputs = 0
  /\ overlapped = FALSE /\ unheard = FALSE

Handle(i) ==
  \/ StartImportPreview(i) \/ ReadGoogleSheetValues(i) \/ ListGoogleSheetTabs(i)
  \/ ReadForMapping(i) \/ WriteMapping(i)
  \/ ReadForCommit(i) \/ CheckBank(i) \/ CreateRow(i) \/ RecordImport(i) \/ DeleteImportSession(i)
  \/ AnswerArrives(i) \/ RefusalArrives(i)
HandleOldest == requests # <<>> /\ Handle(1)

Next ==
  \/ \E i \in DOMAIN requests : Handle(i) \/ Fail(i) \/ LoseAnswer(i)
  \/ \E id \in Sessions : SessionExpires(id)
  \/ TokenExpires
  \/ StatusArrives
  \/ \E f \in Uploads : HandleFileChange(f) \/ HandleJsonSubmit(f)
  \/ \E f \in Files : SelectSheet(f)
  \/ ChooseGoogleSource \/ ConnectGoogle \/ HandleLoadGoogleSheet
  \/ \E x \in Spreadsheets : HandleSelectSpreadsheet(x)
  \/ \E m \in Mappings : HandleMappingChange(m)
  \/ HandleCommit \/ ResetWizard
  \/ \E step \in 1 .. 3 : GoToStep(step)

Spec == Init /\ [][Next]_vars
FairSpec == Spec /\ WF_vars(HandleOldest)

-----------------------------------------------------------------------------
\* Every variable has values of its type.
TypeOK ==
  /\ session \in [Sessions -> [file : Files \union {None}, mapping : Mappings \union {None}]]
  /\ used \in 0 .. MaxSessions
  /\ DOMAIN bank = Keys /\ \A k \in Keys : bank[k] \in Nat
  /\ token \in {"none", "valid", "stale"}
  /\ page.step \in 1 .. 3 /\ page.step <= page.furthest
  /\ page.step = 2 => page.source = "google"
  /\ page.preview.session \in 0 .. used
  /\ \A i \in DOMAIN requests : requests[i].session \in 0 .. used

\* However often an import fails half way and is committed again, or a file is
\* uploaded again, no question is in the bank twice: a commit compares its rows
\* with the bank. Only commits that run at the same time can both create one.
DuplicatesNeedOverlap == ~overlapped => \A k \in Keys : bank[k] <= 1

\* A record of the table imports agrees with what the import did: as many rows
\* were created as it counts as successes, also when rows were in the bank
\* already, and each row of the file is a success or an error, not both.
RecordAddsUp ==
  \A n \in DOMAIN imports :
    imports[n].success = imports[n].created
      /\ imports[n].success + imports[n].errors = imports[n].total

\* The session, the bank and the page are of their type, and the records add up.
ImportInv == TypeOK /\ RecordAddsUp

\* A preview that rests is that of its session: what would be imported is what
\* is shown, unless an answer about the mapping was lost or there were two on
\* their way.
PreviewIsSession ==
  LET p == page.preview IN
  \/ p = NoPreview \/ unheard
  \/ session[p.session] = NoSession
  \/ \E i \in DOMAIN requests : requests[i].kind = "mapping"
  \/ p = PreviewOf(p.session, session[p.session])

\* The page is not busy for ever, whatever becomes of its requests.
ImportEnds == page.loading \/ page.committing ~> ~page.loading /\ ~page.committing
=============================================================================

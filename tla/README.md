# A TLA+ model of QuizGuard

QuizGuard runs timed, proctored exams and hosted live quiz games. This directory
holds TLA+ specifications of the parts of it that carry state between requests,
TLC configurations that check them on small instances, and theorems about them
that TLAPS checks for all instances. Paths below are relative to the repository
(`src/backend/...` is the Next.js back end, `src/realtime/server.ts` the Socket.IO
server).

Run a check with `tlc -config <run>.cfg <MC module>`, a proof with
`tlapm <module>Proofs.tla`.

## 1. The system

Two processes share one PostgreSQL database and one Redis.

* The **Next.js server** answers HTTP requests. A route handler parses and
  authorises a request and calls a service function. No request holds a
  transaction or a row lock across its statements, so two requests interleave at
  every `await`. A request may be repeated by the browser, and it may die between
  two statements.
* The **realtime server** is one Node.js process (`src/realtime/server.ts`). Socket
  messages run in handlers that interleave at every `await`, next to timers. It has
  state of its own (timers, a guard set, presence) that a restart loses.
* **Redis** holds sessions, rate limits, import previews and the live counters, and
  relays exam events to the realtime server. Live counters are best effort: an error
  is swallowed.
* **Piston** runs students' code while an exam is graded; it may be unreachable.

### Components

| Component | State | Operations | What makes it correct | Module |
|---|---|---|---|---|
| Exam attempts (`attempts/attempt.service.ts`) | `exam_attempts`: status, number, snapshot of questions, deadline, lock, score | start or resume, submit, lazy expiry, closing | one open attempt per student, never more than `maxAttempts`, closed once and for good, closed for the right reason | `ExamAttempts`, `AttemptLifecycle` |
| Exam answers (`answers/answer.service.ts`) | `exam_answers`: text, points, review flag, grader | save, grade an attempt, a teacher's grade and the new total | a closed attempt is wholly graded, its answers are final, the total is the sum, `passed` follows from it | `ExamAttempts` |
| Proctoring (`monitoring/monitoring.service.ts`) | the lock of an attempt, violations, `attempt_lock_events` | record a violation, lock, unlock | a locked attempt stays as it was, the audit trail agrees with the lock | `ExamAttempts` |
| Exam page (`features/attempts/exam-attempt.tsx`) | drafts, timers, lock, submission, in a browser | autosave, report, count down, submit, reload | what is stored is what the page shows, the page shows the lock, a page left open does not hang at its deadline | `ExamPage` |
| Live monitor (`features/monitoring/`, the presence handlers of `realtime/server.ts`, `backend/realtime/`) | the teacher's table, presence map, rooms, events under way | join and leave rooms, publish, relay, unlock, the story dialog | a monitor that has heard everything shows the rows, presence is the room | `LiveMonitor` |
| Live games (`live/live.service.ts`, `live:*` handlers) | `live_sessions`, participants, answers; timers and a guard in memory | join, start, answer, reveal, leaderboard, next, end, remove | points are counted once, every question closes | `LiveGame` |
| Live counters (`live/live-cache.ts`) | `roster-count`, `answered:<i>` in Redis | set, get, incr, clear | never ahead of the rows | `LiveGame` |
| Question bank (`questions/`, `question-form.tsx`, `question-list.tsx`) | questions with options and test cases; a form; a list | create, edit, delete, bulk delete; search, filter, page, select | a question is one save's work, deleted ones stay so, the form always has a shape the schema can accept, the list shows its query | `QuestionSchema`, `QuestionForm`, `QuestionBank` |
| Imports (`imports/`, `import-page.tsx`) | a preview session and a Google token in Redis, the bank, `imports`; a wizard | upload, choose a worksheet, map, commit | nothing is imported twice, what is imported is what was shown, the wizard never waits for ever | `QuestionImport` |
| Quizzes and assignments (`quizzes/`, `assignments/`, the pages that call them) | `quizzes`, `quiz_questions`, `quiz_assignments`; list, wizard, picker, settings, assignments | create, edit, publish, archive, duplicate, delete, pool, assign | what is published can be started, pools are in order, an assignment is single, pages show what is stored | `QuizStore`, `QuizPages` |
| Accounts, sessions, rate limits (`users/`, `auth/`, `lib/rate-limit.ts`, `proxy.ts`) | `users`, `session:*` and `ratelimit:*` in Redis; list of accounts, sign-in pages | create, edit, disable, delete; login, register, logout | addresses are unique, a session that was ended stays so, every limit ends | `Directory`, `DirectoryPages` |
| Classes (`classes/`, `class-roster.tsx`, `class-list.tsx`) | `classes`, `class_students`; two pages | create, edit, delete, enrol, remove, import a file of students | the page shows the class, a report of an import is true | `Directory`, `DirectoryPages` |
| Results, dashboards, grading queue | none | aggregates | buckets partition, percentages are right | not modelled |
| Code execution (Piston) | none | run a program | may be unreachable | its outcomes, in `ExamAttempts` |
| Route handlers, infrastructure, other pages | | parsing, authorisation, layout | | not modelled |

How they interact: `saveAnswer` and `recordViolation` both call
`requireActiveAttemptForAnswering`, which may call `finalizeAttempt`; so may
`startAttempt` and `submitAttempt`. `finalizeAttempt` calls `gradeAttempt`, which
calls Piston. `gradeAnswer` recomputes what `finalizeAttempt` wrote. A `live:answer`
inserts a row, raises a score, raises a counter, reads another, and may trigger the
reveal that the timer and the host trigger as well.

### What is hard about it

* **Check, then act.** Every service function reads, decides and writes in separate
  statements: submit against submit, save against submit, lock against submit, start
  against start, grade against grade, reveal against end of game.
* **Partial failure.** Grading writes one row per question before the attempt is
  closed. Insert-answer and add-score are two statements.
* **Late work.** Grading may take long (code runs); a teacher may grade meanwhile,
  and what the first writer knew is stale.
* **Caches.** The live totals live in Redis, beside the rows they summarise.
* **Timers** exist only in memory; whoever opens a question must set one.
* **Pages.** A page sends requests without waiting for one another, answers come late,
  in another order or never, and what a page shows was true when it was read. Some
  effects cancel what they asked for before, others do not.
* **Conversions of a form.** The question form turns its options and test cases over
  whenever its type or language changes.

`PROJECT.json` lists each hazard at the line where it bites.

## 2. The modules

```
AttemptLifecycle          what the exam component promises
ExamAttempts              attempts, answers, proctoring; implements AttemptLifecycle
  ExamAttemptsProofs        theorems
ExamPage                  the student's page against the server, one attempt
  ExamPageProofs            theorems
LiveMonitor               events, presence and the teacher's page
  LiveMonitorProofs         theorems
LiveGame                  one hosted game, its counters, its timer
  LiveGameProofs            theorems
QuestionSchema            what a question may be: pure operators
QuestionForm              the form of a question (EXTENDS QuestionSchema)
QuestionBank              rows, list, form and who else writes (EXTENDS QuestionForm)
  QuestionBankProofs        theorems
QuestionImport            the import wizard, its session, the commit
  QuestionImportProofs      theorems
QuizStore                 the handlers of quizzes, pools and assignments
QuizPages                 a teacher's tab on top of them (EXTENDS QuizStore)
  QuizInvariants            the inductive invariants of the two, in named parts
  QuizProofs                theorems
Directory                 the handlers of accounts, classes, sessions and limits
DirectoryPages            a browser on top of them (EXTENDS Directory)
  DirectoryProofs           theorems
```

Each has an `MC...` module that instantiates it for TLC. Three pairs are
compositions of a server, whose handlers take any request from any client one
statement at a time, with the pages that send the requests: `QuizStore` with
`QuizPages`, `Directory` with `DirectoryPages`, and the bank with its form and list.
`ExamPage` and `LiveMonitor` have the server's exam handlers as one or two steps each,
since their statements are the subject of `ExamAttempts`. A live game shares no rows
with the rest.

### How code becomes actions

A handler is a small program. `req[r]` (a request to the Next.js server) and
`task[t]` (a message in the realtime server) hold the place it has reached and what
it has read so far. What runs between two awaits, with at most one database
statement or Redis call, is one action. A handler that refuses writes nothing, and
its refusal is left out, since the model could not tell it from nothing happening.
`AnswerWithoutChange` and `Refuse` stand for all of these while nothing else is under
way, which makes TLC's deadlock check find exactly the handlers that get stuck half
way.

### ExamAttempts

The tables are functions by column: `status`, `student`, `number`, `snapshot`,
`expired`, `locked`, `score`, `maxScore`, `passed` of `exam_attempts`; `content`,
`points`, `review`, `teacher` of `exam_answers`; `lockEvents` is the newest row of
`attempt_lock_events`.

| Code | Actions |
|---|---|
| `startAttempt` | `StartAttempt` (quiz read), `FindExisting` (resume, or expire and go on), `ListAssignments`, `CountAttempts`, `InsertAttempt` (with the partial unique index) |
| `saveAnswer` | `SaveAnswer` (`requireActiveAttemptForAnswering`), `WriteAnswer` |
| `recordViolation` | `RecordViolation`, `LockAttempt`, `LogLock` |
| `unlockAttempt` | `UnlockAttempt`, `ClearLock`, `LogUnlock` |
| `submitAttempt`, `maybeExpire` | `SubmitAttempt`, `RequireActive`, then `finalizeAttempt` |
| `finalizeAttempt`, `gradeAttempt` | `ReadAnswers`, `GradeQuestion` for each question of the snapshot, `CloseAttempt` |
| `gradeAnswer` | `GradeAnswer`, `WriteGrade`, `SumPoints`, `WriteTotal` |
| the clock, publication, assignments | `DeadlinePasses`, `SetPublished`, `SetAssigned` |
| a statement that throws, a stopped server | `FailRequest` |

Abstractions. An answer is `blank`, `right` or `wrong`. The time is before or after the
deadline. A total is kept as the points it was added up from (`score[a] \in [Questions
-> Nat]`), and a maximum as the set of questions it is the worth of: two totals can be
compared without a sum in the state. The sums that properties name are added up outside
it. `Marks` gives what grading may award: automatic types all or nothing, manual types
nothing and a review, code anything up to the points or, when the runner is unreachable,
nothing and a review. Only the violations that lock are modelled; the others append to a
log nothing reads. Points of a question, and snapshots, do not change under an attempt
(section 7). Reads by themselves (`getAttempt`, lists, history) change nothing and are
left out.

### LiveGame

`status` and `current` are the row of `live_sessions` (`"deleted"` is its absence),
`joined`, `score` and `answers` the participants and answers, `rosterCount` and
`answeredCount` the keys in Redis, `timer` the entry of `revealTimers`, `reveal` the
reveal that holds the entry of `revealingSessions`, `task` the handlers in flight.

| Code | Actions |
|---|---|
| `live:join` | `JoinSession`, `InsertParticipant`, `GetRoster`, `SetRosterCount` |
| `live:answer` | `SubmitAnswer`, `InsertAnswer` (unique index), `AddScore`, `IncrAnsweredCount`, `GetAnswerCount`, `GetRosterCount`, `CountParticipants`, `StoreRosterCount`, `RevealEarly` |
| `triggerReveal`, `revealAnswer` | `TriggerReveal` in `RevealEarly`, `HostReveal` and `AutoReveal`; then `RevealAnswer`, `CloseQuestion`, `PublishReveal` |
| `live:host_start` | `StartSession`, `WriteStart`, `ShowQuestion` |
| `live:host_next` | `AdvanceQuestion`, `WriteNext`, then `ShowQuestion` or `StopTimer` and `ClearSessionCache` |
| `live:host_leaderboard` | `ShowLeaderboard` |
| `live:host_cancel` | `CancelSession`, `WriteCancelled`, `ClearSessionCache` |
| `DELETE /api/live/<id>` | `DeleteSession`, `WriteDeleted` |
| failures | `RedisMayFail` in each Redis call, `FailTask`, `FailReveal`, `Restart` |

Abstractions. The speed bonus is any member of `SpeedPoints`. `requireHost` only
checks who asks. The two totals of `live:answer` are asked for at once on one
connection, the increment first, and the model takes them in that order. What is
sent to the browsers is not kept. The expiry of the keys (six hours) and the removal
of a student's account in the middle of a game are left out. A guest and a student
differ in which unique index keeps their row single, and are both `Players`.

### ExamPage

One page load after another of `exam-attempt.tsx`, with what it has in flight.

| Code | Actions |
|---|---|
| text, choices, `saveTimers`, `saveAnswer` | `HandleTextChange`, `HandleChoiceChange`, `SaveTimerFires`; `SaveAnswer` (handled in any order), `LoseSave` |
| running code | `HandleRun` (closes an overdue attempt, changes nothing else) |
| `reportViolation`, focus and fullscreen listeners | `ExitFullscreen`, `LoseFocus`, `EnterFullscreen`, `RecordViolation`, `LockAnswerArrives`, `LoseReport` |
| countdown, `handleSubmit`, `handleSubmitClick` | `CountdownEnds`, `HandleSubmitClick`, `SubmitAttempt`, `FailSubmit`, `CloseAttempt`, `Refresh`, `RefreshRefused`, `SubmitRefused`, `LoseSubmission`; `SubmitLeft` for a page that is gone |
| the socket | `JoinRoom`, `Disconnect`, `Relay`, `DropEvent`, `UnlockAttempt` |
| page loads | `Reload`, `NavigateAway`, `ComeBack`, `StartAgain` |

An answer is the number under which it was given, so "stored = shown" is an equality of
numbers. `atRisk`, `page.doubt`, `page.unheard` and `page.stale` are history: a save
that was refused, lost or overtaken; an unlock event that was missed or overtaken; a
submission whose answer never came; a submission that was accepted and the attempt not
given out to the `GET` that follows it. `Faults` says what may go wrong in an instance;
`"server"` is a submission answered 500 and a reload of the attempt refused. The flags,
the question on display and the layout stay in the browser and are left out.

### LiveMonitor

Handlers write a row and publish later (`StartAttempt`, `RecordViolation`,
`FinishAttempt`, `Regrade`, `UnlockAttempt`, then `Publish`, in any order or not at
all); the realtime server relays (`Relay`), keeps `presence` (`JoinAttempt`,
`LeaveAttempt`, `Disconnect`) and may restart (`Restart`); the monitor opens from the
database, joins later and applies events (`OpenMonitor`, `JoinQuiz`, `RowAfter`), and
unlocks from its table or its dialog (`HandleUnlock` to `UnlockAnswerArrives`,
`OpenStory` to `CloseStory`). `monitor.doubt` and `overtaken` are history. The filters,
the text of the activity feed and its export are left out.

### QuestionSchema, QuestionForm, QuestionBank

`QuestionSchema` has the rules of `questionInputSchema` as sets: how many options a
type may have, how many of them are right, which languages have test cases.
`QuestionForm` has every control of the form as an action. `QuestionBank` adds the
rows and `updateQuestion` statement by statement, inside a transaction whose row
lock is modelled (`CheckQuestion`, `UpdateRow`, `ReplaceDetails`, `Commit`),
`getQuestion` in two steps, the list with its requests and their cancellation, single
and bulk deletion. Contents are named by who wrote them, so a mixture of two saves can
be told. The subject and category filters are one filter.

### QuestionImport

`StartImportPreview` and `CreateSession` (upload, paste, worksheet),
`ListGoogleSheetTabs`, `ReadGoogleSheetValues`, `ReadForMapping` and `WriteMapping`
(read and write of the session), and `commitImport`: `ReadForCommit`, `CheckBank`,
`CreateRow` for each row, `RecordImport`, `DeleteImportSession`, any of which may be the
last (`Fail`). The wizard's controls are actions guarded by what is displayed
(`Offers...`). What a row says under a mapping is its key and whether it is a question.
`commitImport` filters the rows of the file twice, for those to create and for those to
report, and so does the model (`CheckedRows`): that the two leave nothing out and count
nothing twice is a property (`RecordAddsUp`). Two things are coarser than the code: the
record of an import and its error rows are inserted in one step, and a row without a
subject or a text has a key like any other (it is no question under either).

### QuizStore and QuizPages

`requests[i]` holds a request and the place its handler has reached.
`setQuizQuestionPool` is `VerifyQuestions`, `DeletePool`, `WakeDelete`, `InsertPool`: a
delete that waited for another transaction deletes the rows it saw and not those
inserted since, as PostgreSQL does at READ COMMITTED. `publishQuiz` is `CountPool`,
`SetQuizStatus`; `createAssignment` is `RequirePublishedQuiz`, `FindExisting`,
`InsertAssignment`. `QuizPages` is one tab that is on the list, in the wizard, on the
page that edits a quiz, on its preview or on its results (`page.kind`), with the parts
that page mounts; every button is an action and every answer is handled by the
function that awaits it. Of the settings three fields are kept, enough to tell "what
was saved" from "what is shown" and to make a pool too small.

### Directory and DirectoryPages

`createStudentAccount`, `createUser` and `register` share `FindEmail` and
`InsertAccount`; a file of students repeats them row by row (`ParseFile`,
`RequireOwnedClass`, `FindEmail`, `InsertAccount`, `FindEnrolled`, `AddStudentToClass`)
and notes what became of each row. `checkRateLimit` is `CountRequest` (`INCR`) and
`CheckRateLimit` (`EXPIRE`); a login passes it twice. A session is read by
`GetUserBySessionToken` and extended by `SlideExpiration`. `DirectoryPages` chooses
the page at first (`users`, `classes`, `roster`, `browser`); a dialog is opened, filled
in and sent in one action. Four roles are three, of which administrators appear only as
what others do.

## 3. What is checked

A property of several parts is a conjunction of named definitions, each with a comment
of its own: `PagesInv` is `TypeOK`, `ListShowsItsQuery`, `PanelShowsAssigned`,
`OneQuizPerWizard` and `BusyMeansAsked`.

| Run | Instance | Shows |
|---|---|---|
| `exam_close` | one attempt, a coding question and an essay, two requests, start, save, submit, grade, failures | `GradedWhenFinished`, `AutoOnlyAfterDeadline`, `FrozenOnceSettled` |
| `exam_start` | three requests, three rows, two allowed, the quiz unpublished and unassigned at any time | `StartsStayBarred` (a limit that is reached, a quiz that is withdrawn), `ImplementsLifecycle` (among other things one open attempt at a time) |
| `exam_locks` | one attempt of two questions, two requests: save, submit, lock, unlock; fair | `LockHolds`, `ClosingCloses` |
| `exam_serial` | one request at a time, three rows, every operation of students, teachers and proctoring | `TypeOK`, `ScoreMatchesAnswers`, `PassedMatchesScore`, `AttemptsWithinLimit`, `AuditMatchesLock` |
| `exam_page` | a typed and a chosen answer, two inputs, two page loads, one report, one unlock; requests and events may be lost, the server may refuse; fair | `PageInv` (the page shows the lock), `SavedIsDraft`, `DeadlineIsHandled` |
| `monitor_live` | one attempt, one tab, two events on their way, two flags; events are dropped, the realtime server restarts | `MonitorInv` (presence is the room), `MonitorShowsAttempts`, `MonitorKeepsFinished` |
| `live_faults` | two players, one question, two player handlers, one host handler; Redis, handlers and the server fail | `TypeOK`, `ScoreNeverAhead`, `CachesNeverAhead` |
| `live_progress` | one player with two tabs, two questions, one host handler; fair | `ScoreMatchesAnswers`, `QuestionIsTimed`, `EveryQuestionCloses` |
| `bank_edit` | three questions, an executable language and one that is not, three options, two test cases, two inputs, one write elsewhere | `BankInv` (the list shows its query, the form is busy while it saves), `QuestionIsWhole`, `FormFitsSchema`, `DeletedStays` |
| `import_retry` | two rows, an uploaded file and a worksheet, two mappings, two sessions, two requests, four inputs; lost answers, failed handlers, expiry; fair | `ImportInv` (the two filters of a commit add up in its record), `DuplicatesNeedOverlap`, `PreviewIsSession`, `ImportEnds` |
| `quizzes` | two questions, two quizzes, one target, two requests, two inputs, one request from elsewhere; failed handlers, lost answers | `StoreIsWhole`, `PagesInv`, `PoolSavedMeansSaved`, `ReviewShowsSaved` |
| `access` | four accounts, three addresses, two classes, two sessions, two requests, two inputs, one request from elsewhere; failed handlers, lost answers, expiry | `AccessInv` (addresses unique, limits end, an ended session stays so), `ImportReportIsTrue`, `ListIsFresh`, `ClassPageShowsClass` |

**Why the bounds are enough.** Races in the exam core are between two handlers of one
row (two submits, save and submit, two grades) or three starts for a limit of two; each
run has the handlers its race needs, one row more than the limit allows where the limit
is the question, and one question more than the single one where grading part of an
attempt, or going on to the next question, is. `RoomToStart` is the model's own
bound: a start is only sent while a row is left for it. `Ops`, `Drafts` and `Awards`
choose what users ask for in an instance.

The pages are bounded by what their user does. `MaxInputs` counts inputs that change
what is asked for or stored; two of them are a request and the one that overtakes it,
or an edit and the edit made while it is saved. `MaxInputs` is four in `import_retry`,
where a second upload, a second mapping and two commits make the story. `MaxRequests`
bounds what is in flight at a time, `MaxEvents` (`quizzes`, `access`) and
`MaxElsewhere` what other users send, `MaxSessions`, `MaxTokens`, `MaxAccounts`,
`MaxClasses`, `MaxQuizzes` and `Slots` the rows, `MaxLoads` and `MaxUnlocks` the page
loads and unlocks, `MaxFlags` and `MaxEvents` (`monitor_live`) the violations of an
attempt and the messages on their way. The question list, the quiz list and the
account list have `PageSize` 1, so that there are pages to turn. `ExamPage` sends one
click submission besides the one of the countdown; `QuestionBank` deletes and saves
once at a time from its own tab, as its buttons do. With a second tab of the attempt,
or a second quiz, `monitor_live` no longer finishes in minutes; the tabs and quizzes are
in the module, and the theorems about it hold for any number of either (section 5).

The properties that a larger instance might still break are the ones that are proved
where the prover reaches them (section 5).

`ScoreMatchesAnswers`, `PassedMatchesScore`, `AttemptsWithinLimit` and
`AuditMatchesLock` are what the code does as long as requests do not overlap, and
that is what `exam_serial` shows: everything they rely on is right except
atomicity. With overlapping requests they fail (section 6). The theorems about them say
which overlap it takes, and that every other one is harmless (section 5).

**History variables.** Several properties hold but for an overtaking or a loss that the
code accepts: `atRisk`, `page.doubt`, `page.unheard`, `page.stale` (`ExamPage`),
`monitor.doubt`, `overtaken` (`LiveMonitor`), `torn`, `lost` (`QuestionBank`),
`overlapped`, `unheard` (`QuestionImport`), `overlapped`, `loosened`, `resent`, `lost`,
`page.crossed` (quizzes), `stuck`, `strayed`, `removed`, `page.missed`, `page.crossed`
(accounts). No action's guard reads them. Each is set by the step that is the exception
and by nothing else, so a property says: nothing but this goes wrong. Section 6 tells
what does.

`Permutations` of requests, rows, players and player handlers are used as symmetry
only in runs without liveness properties, and not in the runs with pages, whose
elements are told apart. `CHECK_DEADLOCK FALSE` is in the runs with bounded inputs,
where the system rests once they are used up.

**Mutants.** Each property has an operator next to the definition it mutates, with a
`Bug:` comment, that changes the definition the way a slip in the code would; put in
its place it breaks the property in that property's own run. A property of several
parts has a mutant for each part that says more than the type. `PROJECT.json` lists
the pairs.

## 4. Fairness

`ExamAttempts!FairSpec`: weak fairness of every request's next step. A Node.js
process runs the continuation of an answered query, and the database answers (or the
statement throws, which `FailRequest` models and the fair run leaves out). No user
has to send a request, no deadline has to pass.

`LiveGame!FairSpec`: weak fairness of each handler's next step, of the reveal under
way and of the timer. A player has to do nothing; a host neither, which is the point
of `EveryQuestionCloses`. Two facts about the setting go into it. Time limits are at
least five seconds (`live.schema.ts:30`), and a reveal is two rounds of queries, so
`SlowReveals` is `FALSE`: the next timer does not expire while the previous reveal
holds the guard. (Were it to, `triggerReveal` would return at once, and that question
would be left without a timer.) And the host's messages are handled one at a time:
with two at once, a finishing `live:host_next` can clear the timer that another has
just set. Restarts lose the timer, as `server.ts:107` accepts, and are left out here.

`ExamPage!FairSpec`: weak fairness of the countdown (`CountdownEnds`, an interval of
the page), of a submission's steps in the server (`SubmitAttempt`, `CloseAttempt`) and
of its answer in the page (`SubmitRefused`, `Refresh`). The network stays free to lose
a submission, the server to refuse it or the `GET` after it, the student to leave, the
clock to stand still.

`QuestionImport!FairSpec`: weak fairness of `HandleOldest`, the next step of the oldest
request: a handler goes on and its answer is handled. The server may still fail it and
the network lose it; `ImportEnds` says the page is not left busy by either.

The other modules state no fairness and no liveness: their buttons wait for an answer
which, once lost, most of the code does not ask for again (section 6), and the safety
properties `BusyMeansSaving` and `BusyMeansAsked` say exactly that.

## 5. What is proved

TLAPS checks, for every value of the constants that satisfies the module's assumption
(`ConstantsAssumption`, `BankAssumption`, `ImportAssumption`, `StoreAssumption`,
`DirectoryAssumption`, `PagesAssumption`: any number of students, requests, questions,
players, tabs, quizzes, accounts, files), the theorems below. Each rests on an inductive
invariant, `IInv` or a name of its own in the proof module: most of the properties are
not inductive by themselves, because what makes them true is what a handler that is half
way has read, or a page has asked for.

### `ExamAttemptsProofs`

* `TypeCorrect`: tables and requests keep their shape.
* `FinishedIsGraded`, `AutoSubmittedIsLate`: the invariants of `exam_close`.
* `BarredStartsStayBarred`: the action property of `exam_start`. A start reads the quiz, the
  assignments and the attempts at three places before it inserts. Only the insert of a
  student's own start adds a row for them (`NobodysRows`), rows are never taken away, and a
  start gets past a check only in a state in which what it checks holds.
* `SettledStaysFrozen`, `LockIsKept`: the action properties of `exam_close` and
  `exam_locks`.
* `LimitIsKept`, `VerdictFollowsScore`, `ScoreIsSum`, `TrailTellsLock`: the invariants of
  `exam_serial`, without its restriction to one request at a time.
* `Refines`: `ExamAttempts` implements `AttemptLifecycle`.

That a finished attempt is graded depends on what the request about to close it did
earlier. `IInv` therefore adds `RowsFit` (points only on rows that exist, rows only for
questions of the snapshot) and `RequestsFit`: a `finalizeAttempt` under way is for an
attempt that exists, holds the verdict `auto_submitted` only if the deadline is over, and
every question it no longer has to do is graded (`ClosingFits`); a save is for a question
of its attempt (`SavingFits`). Any number of them may run at once: what keeps each one's
claim true while the others write is that nothing ever takes points or rows away. The
action properties follow from `IInv` and two lemmas: only a save changes a text, and a
save or a submission can only begin while the attempt is answerable. The refinement
maps the attempt to its phase and to the set of its marked questions, and shows that
every action is `Open`, `Mark`, `Close` or a stutter; a second `finalizeAttempt` is
a stutter.

The properties of `exam_serial` do not hold for all overlaps (section 6). Their theorems
are about the behaviours in which one overlap, named by a state predicate, does not occur,
`Spec /\ []Apart => []Inv`; everything else interleaves and fails as it likes. They
say which race the code has, and that it has no other.

| Theorem | Excluded | What is still free |
|---|---|---|
| `LimitIsKept` | `InsertsApart`: two starts of one student, both between their count and their insert | starts of different students, everything else, every failure |
| `VerdictFollowsScore` | `GradingsApart`: a teacher's grade of an attempt that is being closed | two teachers at a time, two submissions at a time, every failure |
| `ScoreIsSum` | `ScoringApart`, `GradingsFinish`: two requests that close or grade one attempt, a grade cut off between its statements | saves, locks, starts, grades of other attempts; failures of everything but a grade |
| `TrailTellsLock` | `LockingApart`, `LockingsFinish`: two requests that lock or unlock one attempt, a lock cut off before its event | everything else |

### `LiveGameProofs`

* `TypeCorrect`.
* `OpenQuestionIsTimed`: `QuestionIsTimed` under `Prompt` (no restarts and no
  exceptions, reveals shorter than a time limit, one host handler at a time; Redis
  may fail). The strengthening is `TimedOrTakenCareOf` (an open question without a
  timer has a host handler about to set it or to cancel the game, or a reveal that
  read it as open and will close it) and `FinishingIsOver` (a handler about to stop
  the timer of a finished game finds no question open).
* `CountersStayBehind`: `CachesNeverAhead`, whatever fails. A handler holds what it has
  counted for some time before it stores it; what it holds stays a lower bound because a
  roster and a set of answers only grow until the game is deleted, and each increment has
  the row it stands for before it.
* `NothingUnearned`: `ScoreNeverAhead`, whatever fails; a handler about to add points has
  inserted the answer they are for, and one answer is in the hands of one handler.
* `ScoresAddUp`: `ScoreMatchesAnswers` under `Lossless` (no handler dies, no restart): what
  the score lacks is what handlers under way are about to add. Sums over a player's
  answers are taken apart and compared by an induction that looks for a least
  counterexample.

### `LiveMonitorProofs`

* `TypeCorrect`.
* `PresenceHolds`: `MonitorInv`, that presence is the attempts whose room has a tab in
  it, that a tab is in no room but its own attempt's, and that the monitor lists its
  quiz's part of presence, as long as its socket is in no other quiz's room. All of it
  but for a join that was overtaken and a second tab in one room. The strengthening is
  `RoomsApart` (two tabs in one room have been noticed), `PageFits` (a page that joined is
  in its quiz's room, a closed one lists nothing) and `UnlockFits` (the event of the
  monitor's own unlock is published once, before its answer). A departure takes one tab
  out of one room; `RoomsApart` is what says that it was the last one there. The run has
  one tab and one quiz; the theorem has any number.
* `FinishedIsKept`: `MonitorKeepsFinished`, by cases on the event the page applies: the
  one that could take a finished row back, an `attempt_started` that is heard late, is
  ignored for a row that is there.
* `MonitorIsCurrent`: `MonitorShowsAttempts`. The invariant speaks of events that have not
  been heard: applied in their order, what waits leads the row the monitor shows to the
  row of the table (`WillShow`), but for the answer to an unlock that came before its
  event and was taken for the attempt being open (`TakenForOpen`).

### `QuestionBankProofs`

* `QuestionsAreWhole`, `DeletedQuestionsStay`: the argument is the lock PostgreSQL takes
  on the row that `updateQuestion` updates first. `OneLockEach` says that one transaction
  at a time is past that statement, `SeenIsStored` that what it has just deleted is still
  all there is when it inserts and commits, and `FoundIsRow` that it has a row to update.
  The form and the list have no part in it.
* `PageHolds`: `BankInv`. The list is what the newest request that was not cancelled will
  bring, or what it has brought, and a form that says "Saving" has its request under way or
  lost.
* `FormAlwaysFits`: `FormFitsSchema`, by the cases of the form's controls: what each of them
  makes of options and test cases when the type or the language changes, for any number
  of either.

### `DirectoryProofs`

* `DirectorySound`: `AccessInv`. `EmailUnique` is the unique index; `LimitHasEnd` and
  `LoggedOutStaysOut` need what the handlers that are half way have done.
* `ReportsAreTrue`: `ImportReportIsTrue`, against enrolments, removals, deletions and other
  imports that run meanwhile.
* `ListsAreFresh`: `ListIsFresh`. At most one fetch of a list is not cancelled, it asks for
  what the page's controls say and has read what is stored, and without one the page
  shows that (`ListInv`); but for what others write meanwhile.
* `ClassPagesShow`: `ClassPageShowsClass`. `RosterInv` follows the answers that are on their
  way to the page: applied to what it shows they make what is stored. The counts that the
  classes display are compared as cardinalities of sets that differ by one student.

`PagesAssumption` of `DirectoryPages` has `MaxRequests > 0`: a browser may send something.
`IInv` says of every request what it is by its kind and the stage it has reached: it has the form
its kind has (`Form`, `OfKind`), what it has read by then is there (`AtStage`), the
account it is about to enrol is the one it has found or made (`Backed`), and what it has
noted of each row of a file is so (`Reported`). Of the page only `OfPage` is needed:
what it sends is well formed.

### `QuizProofs`

* `StoreStaysWhole`: `StoreIsWhole`, for any quizzes and requests, with the tab of
  `QuizPages` as the one that sends them. `StoreInv` adds that a request is for a quiz and
  questions of the tables (`OfQuiz`, `PoolParsed`), that what a publication has counted is
  what is stored or has been loosened (`PublishChecked`), that the copy of a duplicate is
  what was read (`CopyRead`), that a delete that waits has seen all rows but those of a
  save it overlapped (`RowsSeen`), and that two saves of one pool have been noticed
  (`Apart`). A step of the tab does one of three things, `Asking`: it leaves the store
  alone and sends a well-formed request, or stops waiting for one, or keeps a form.
* `PagesStayRight`: `PagesInv`. The tab's page, its parts and the requests it waits for fit
  one another (`Core`); a list shows what its last fetch brought (`ListInv`); a button that
  waits has its request (`BusyInv`); the quizzes a wizard has made, and the creates under way,
  are no more than the wizards that were opened, but for a resent one (`CountInv`, a count
  that a step moves from one part of the sum to another); the panel of assignments shows
  the rows or an answer is coming that will make it so (`PanelInv`).
* `PoolMessagesAreTrue`: `PoolSavedMeansSaved`, from what the picker has asked to be stored
  and whether the pool was touched since (`PickerInv`).

The pages need `PagesAssumption`: `MaxQuestions > 1` and `MaxRequests > 1`, so that there is
something to choose from and a request can overtake another.

### `ExamPageProofs`

* `NothingLeftUnsaved`: `SavedIsDraft`. For a question that is not at risk, the draft is
  what its timer will send; if no timer is set, it is what the last request under way will
  store; if there is none, it is stored (`LeadsTo`, `WillBeSaved`). Only text has a timer
  (`OnlyTextWaits`).
* `LockIsShown`: `PageInv`. A page that is not in doubt, with no event on its way, shows the
  lock of the row or has the answer of a report coming that will tell it, and shows no lock
  that was lifted (`LockIsKnown`). Requests are handled in any order and taken out of the
  middle of a sequence; a lemma says that this keeps the order of the others.

### `QuestionImportProofs`

* `NothingTwice`: `DuplicatesNeedOverlap`. One commit at a time fills the bank, or an
  overlap was noticed; its rows still to do have keys that differ from one another and
  from those in the bank (`OneFills`). That the valid rows in their order have different
  keys (`KeysOfRows`, `Ranked`) is a counting argument over the rows of a file.
* `ImportHolds`: `ImportInv`. A request has the session and the rows that its stage needs
  (`OfRequest`), the wizard is at a step its source has (`PageSound`), and the record of an
  import agrees with the file and with what was created (`RecordAddsUp`). The latter rests
  on two facts: the rows a commit is to create and the rows it reports, each filtered from
  the file by a condition of its own, are disjoint and together all of it
  (`FiltersPart`), and while it fills the bank, what it has created and what is still to do
  are together the successes it will record (`Counts`).
* `PreviewsAreRight`: `PreviewIsSession`. The wizard waits for one answer at a time, or two
  mappings have overlapped; that answer carries what the session holds (`Agree`).

### Only model-checked

* Liveness: `ClosingCloses`, `DeadlineIsHandled`, `EveryQuestionCloses`, `ImportEnds`. It
  needs fairness and `ENABLED`, which are out of the prover's reach.
* `ReviewShowsSaved` of `QuizPages` (section 8).

## 6. Divergences

Where the code does not do what its comments, tests or pages say. The first group is
seen by checking the named formula with two overlapping requests; of each of the others
the model has the steps, and the history variables of section 3 are what keeps it out
of a property.

**Exams**

* Answers after the end. The submit dialogue says answers can't change afterwards
  (`exam-attempt.tsx:372`); a save that was checked before the attempt closed
  writes its answer later. `FrozenOnceSettled` says how far this goes.
* A lost total. `gradeAnswer` writes the answer and then the sum
  (`answer.service.ts:336-338`): two calls may sum and write in opposite orders, and
  the older total stays (`ScoreMatchesAnswers`).
* One attempt too many. "refuses a new attempt once maxAttempts is exhausted"
  (`attempt.service.test.ts:405`): two starts that count before either inserts, with the
  first attempt closed in between, get past the partial unique index with a number
  already used (`AttemptsWithinLimit`).
* A teacher's grade overwritten. A second `finalizeAttempt` under way (a double submit)
  grades over what a teacher awarded in the meantime and puts it under review again, and
  `points_awarded` is no longer what it is "until a teacher calls" `gradeAnswer`
  (`exam-answers.ts:26-29`).
* Two submissions that overlap both run `gradeAttempt`, "called exactly once per
  attempt" by its comment (`answer.service.ts:167`) and by `docs/ARCHITECTURE.md`.
  `GradedWhenFinished` and `Refines` show that this is harmless for the attempt itself.
* `gradeAnswer` that read the row before it was closed uses a missing maximum, and
  writes `passed = false` whatever the score (`PassedMatchesScore`).
* A lock and an unlock that overlap log their events in the opposite order of their
  updates (`AuditMatchesLock`).
* A teacher may grade an answer of an attempt that is still in progress, which
  `exam-answers.ts:22-24` excludes ("null until `submitAttempt` grades the whole
  attempt at once"); it is why `Mark` of the abstract lifecycle is allowed while an
  attempt is open.
* "the next change (or the final submit) will retry implicitly"
  (`exam-attempt.tsx:400`): a submission sends no answers, so a save that failed last
  is not repeated by it. In the model `SubmitAttempt` leaves `stored` alone.
* The comment at `attempt.service.ts:531-535` has the next read close an overdue
  attempt; reads do not. The page's countdown does, once: when the answer to its
  submission is lost, the page waits (`page.unheard` in `DeadlineIsHandled`).
* A submission that was accepted and whose following `GET` is refused leaves the page open
  and without a message (`if (refreshed.ok)`, `exam-attempt.tsx:361`), the countdown's one
  submission spent; the attempt is closed (`page.stale` in `DeadlineIsHandled`).
* The monitor's socket stays in the room of the first quiz when another is opened
  (`server.ts:259`), so events of both are heard. The dialogue with a student's story
  closes as if the attempt were unlocked after an unlock that was refused
  (`live-monitor.tsx:349`, `student-story-dialog.tsx:145`).

**Live games**

* The roster count. Two joins write the length of the list each of them read, and may do
  so in the opposite order (`server.ts:350-352`, `434`); the question is then revealed
  before everyone has answered.
* A stale reveal. A reveal writes `showing_leaderboard` over the status of a game that
  the host has ended, or moved on, since it read it (`server.ts:211`, `214-215`).
* `live:host_next` and `live:host_leaderboard` are accepted in every status: two presses
  skip a question, and an ended game can be opened again. Nothing in the repository
  says they must not.
* A resent increment. `live-cache.ts:65-68` has the count err on the low side only. That is so
  for the calls the code makes (`CachesNeverAhead`); the client it makes them with, `ioredis`,
  by default sends a command again whose answer a broken connection has cost it, and an
  `INCR` that was carried out twice is a count ahead of the rows. `lib/redis.ts` sets how
  often it tries and leaves the resending on. The model's Redis calls are carried out
  once, or not at all.

**Questions and imports**

* "A selection only makes sense against the list it was made on"
  (`question-list.tsx:148`): it is cleared when a search is typed, and the list changes
  later, so what is selected meanwhile survives the change.
* A form whose save is answered goes to the list, also when the teacher has opened
  another form since; one whose answer is lost says "Saving" for good.
* "a bulk import is expected to have partial success" (`import.service.ts:149-151`):
  when `createQuestion` throws for a row, the commit stops there, and the rows before it
  stay without a record of the import.
* The check for duplicates compares with the questions of every teacher, and two
  commits at once each make it before the other creates (`DuplicatesNeedOverlap`).
* The worksheets of the spreadsheet chosen before may arrive after, and replace, those
  of the one chosen now (`import-page.tsx:267`), two quick changes of the mapping keep
  the one whose answer comes last (`338`), an error of a commit is not displayed at the
  step it happens in (`363`), and the page stays connected after its Google token has
  expired.
* A mapping update that read the session before a commit deleted it writes it back
  (`import-session.ts:54`).

**Quizzes**

* Two saves of a pool that overlap leave a mixture of both (`PoolInOrder`).
* Settings and pools saved after publication are not compared again
  (`PublishedHasEnough`).
* A settings form opened before the answers of a quiz were released hides them again
  when it is saved.
* "Double-check everything before publishing." (`quiz-wizard.tsx:585-595`) is said over
  settings that the stepper has not saved (`ReviewShowsSaved`). A second press of Save
  Draft, while the first is on its way, makes a second quiz (`OneQuizPerWizard`), and the
  page goes on when validation has refused the form.
* A pool that could not be fetched is displayed as an empty one, which
  `quiz-wizard.tsx:76-79` rules out. "Pool saved." stays when the pool is changed during
  the save (`PoolSavedMeansSaved`).
* The reload after an action is not cancelled when the filter changes
  (`ListShowsItsQuery`), buttons wait for good after a fetch that throws
  (`BusyMeansAsked`), assignments that could not be loaded are displayed as none.

**Accounts and classes**

* "a Redis flush degrades to 'everyone re-logs-in'" (`session.ts:25-26`): a browser whose
  cookie outlives its session is sent from the login page to the home page and back.
* "This removes them from every class" (`class-roster.tsx:162`): the rows of
  `class_students` stay, and `listRoster` does not leave deleted students out. "Search
  active student accounts." (`class-roster.tsx:254`): `searchAvailableStudents` does not
  ask for the status. This is why `RosterShowsClass` allows students whose account is
  gone and `AvailableAreOthers` takes `StudentsMatching` of any status.
* The answers of two changes to a roster may be applied in the opposite order
  (`page.crossed`), and a student whom others removed is not offered again until the
  next search (`page.unseen`).
* A counter of the rate limit whose first request dies between `INCR` and `EXPIRE`
  never ends (`LimitHasEnd`).
* A login that has checked the password opens a session for an account disabled since;
  an update that has checked the row writes it after its deletion.

## 7. Not modelled, and why

* Reads by themselves (`getAttempt`, histories, dashboards, results, the grading queue):
  no state changes. Results are sums and buckets over rows, in doubles.
* Route handlers: parsing, validation and authorisation. A modelled request is one that
  passed them. The rate limit and the session, which have state, are in `Directory`.
* Inside code execution: sandboxes and runners are outside the repository's core; what
  grading does with their verdict, or without one, is in `Marks`.
* The pages of a live game, of its player and of its host: they display what the last
  event said. The flags, navigation and layout of the exam page, the filters, the text
  and the export of the activity feed, the facets and counts next to lists.
* Parsing of files: what a row says under a mapping is a constant of the model.
* Floating point: `score / maxScore * 100 >= passingScore` is evaluated in doubles
  (29 of 100 points fails a passing score of 29); the model compares integers, and TLC
  has no others.
* Questions edited under open attempts. `QuestionBank` has the edit and `ExamAttempts`
  the attempt, whose snapshot keeps the ids of the questions; the two are not composed.

## 8. Plan

1. Compose `QuestionBank` with `ExamAttempts`: an edit replaces the ids of options that
   stored answers name, and the points that a maximum is added up from.
2. A proof of `ReviewShowsSaved`, the one safety property of a page without a theorem.
3. `LiveScoreboard`, the abstract game (each answer counted once, each question closed
   once), implemented by `LiveGame` without failures; two host handlers.
4. The live game's pages against late and dropped events; results as operators against
   a reference definition.

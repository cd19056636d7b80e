------------------------------- MODULE ExamPage -------------------------------
(***************************************************************************)
(* The student's exam page (features/attempts/exam-attempt.tsx), which     *)
(* saves, reports and submits on its own timers, against the server.  The  *)
(* handlers of the server are those of ExamAttempts; here each is one      *)
(* step, or two where the page may hear of its outcome late.               *)
(*                                                                         *)
(* Answers are numbered in the order they are given (with the reports).    *)
(* What the page cannot know any more is written down beside it: atRisk,   *)
(* page.doubt, page.unheard and page.stale are history: no action depends  *)
(* on them.                                                                *)
(***************************************************************************)
EXTENDS Naturals, Sequences, FiniteSets, SequencesExt

CONSTANTS
  Questions,           \* the questions of the attempt
  TextQuestions,       \* those whose answer is typed, and saved after a pause
  Reports,             \* the violation reports that can be under way at once
  FullscreenRequired,  \* quizzes.fullscreen_required
  MonitorActivity,     \* quizzes.monitor_activity
  MaxInputs,           \* bounds the answers given and the violations reported
  MaxUnlocks,          \* bounds the unlock events on their way to the page
  MaxLoads,            \* bounds the times the page is loaded
  Faults               \* what may go wrong: "network", "realtime", "server"

ASSUME ConstantsAssumption ==
  /\ TextQuestions \subseteq Questions
  /\ FullscreenRequired \in BOOLEAN /\ MonitorActivity \in BOOLEAN
  /\ MaxInputs \in Nat /\ MaxUnlocks \in Nat /\ MaxLoads \in Nat \ {0}

VARIABLES
  attempt,     \* the row of exam_attempts: status and locked
  overdue,     \* now > deadline_at
  stored,      \* exam_answers: the newest answer written, 0 when there is none
  loads,       \* how often the page was loaded
  page,        \* the state of the exam page
  draft,       \* the answers on the page
  timer,       \* saveTimers: the answer each pending timer will save
  inputs,      \* how many answers were given and violations reported
  saves,       \* the PUT requests on their way, oldest first
  reports,     \* the violation reports, by where they have got to
  submission,  \* the same for a click on Submit and for the countdown's submit
  left,        \* a page that is gone has left a submission behind
  unlocks,     \* the attempt_unlocked events on their way to the page
  room,        \* the page's socket is in the room of the attempt
  atRisk       \* questions whose last save was refused, lost or overtaken

serverVars == <<attempt, overdue, stored>>
pageVars == <<page, loads>>
answerVars == <<draft, timer, inputs, saves, atRisk>>
requestVars == <<reports, submission, left>>
wireVars == <<unlocks, room>>
vars == <<serverVars, pageVars, answerVars, requestVars, wireVars>>

Submitters == {"click", "countdown"}
Verdicts == {"submitted", "auto_submitted"}

NewPage ==
  [inProgress |-> TRUE, locked |-> FALSE, fullscreen |-> FALSE,
   submitting |-> FALSE, error |-> FALSE, autoSubmitted |-> FALSE,
   doubt |-> FALSE, unheard |-> FALSE, stale |-> FALSE]

Working == page.inProgress
LockedActive == Working /\ page.locked
FullscreenGate == Working /\ ~page.locked /\ FullscreenRequired /\ ~page.fullscreen
\* The page shows its questions, and the question map leads to each of them.
Offered == Working /\ ~LockedActive /\ ~FullscreenGate
OffersChoice(q) == Offered /\ q \notin TextQuestions
OffersText(q) == Offered /\ q \in TextQuestions
OffersRun(q) == OffersText(q)
OffersSubmit == Offered /\ ~page.submitting

PendingSaves(q) == {i \in DOMAIN saves : saves[i].question = q}

-----------------------------------------------------------------------------
\* The server's side of the requests.

\* maybeExpire: an attempt that is still open after its deadline is closed by
\* the next request that touches it, which is then refused.
Expires == attempt.status = "in_progress" /\ overdue
Expire == attempt' = IF Expires THEN [attempt EXCEPT !.status = "auto_submitted"] ELSE attempt
Answerable == attempt.status = "in_progress" /\ ~overdue /\ ~attempt.locked

\* The student starts the quiz again, from a page that was rendered before this
\* attempt (a newer one leads to it): startAttempt closes what is overdue.
StartAgain ==
  /\ Expires
  /\ Expire
  /\ UNCHANGED <<overdue, stored, pageVars, answerVars, requestVars, wireVars>>

\* PUT answers. The browser may send two requests on two connections, so the
\* newer one may be handled first.
SaveAnswer(i) ==
  LET q == saves[i].question
      overtakes == \E j \in PendingSaves(q) : j < i
  IN
  /\ i = 1 \/ "network" \in Faults
  /\ Expire
  /\ IF Answerable
       THEN /\ stored' = [stored EXCEPT ![q] = saves[i].answer]
            /\ atRisk' = IF overtakes THEN atRisk \union {q} ELSE atRisk
       ELSE /\ atRisk' = atRisk \union {q}
            /\ UNCHANGED stored
  /\ saves' = RemoveAt(saves, i)
  /\ UNCHANGED <<overdue, pageVars, draft, timer, inputs, requestVars, wireVars>>

\* The fetch of a save throws: nothing is caught but the error.
LoseSave(i) ==
  /\ "network" \in Faults
  /\ saves' = RemoveAt(saves, i)
  /\ atRisk' = atRisk \union {saves[i].question}
  /\ UNCHANGED <<serverVars, pageVars, draft, timer, inputs, requestVars, wireVars>>

\* POST violations: requireActiveAttemptForAnswering, then the lock. The answer
\* is on its way from then on, unless the page that asked is gone.
RecordViolation(r) ==
  /\ reports[r] \in {"sent", "orphan"}
  /\ IF Answerable
       THEN /\ attempt' = [attempt EXCEPT !.locked = TRUE]
            /\ reports' = [reports EXCEPT ![r] = IF @ = "sent" THEN "answered" ELSE "free"]
            /\ page' = [page EXCEPT !.doubt = @ \/ reports[r] = "orphan"]
       ELSE /\ Expire
            /\ reports' = [reports EXCEPT ![r] = "free"]
            /\ UNCHANGED page
  /\ UNCHANGED <<overdue, stored, answerVars, submission, left, wireVars, loads>>

\* POST submit: refused while the attempt is locked, and no more than a read
\* when it has ended.
SubmitVerdict ==
  IF attempt.status # "in_progress" THEN "accepted"
  ELSE IF attempt.locked THEN "refused"
  ELSE IF overdue THEN "auto_submitted" ELSE "submitted"

SubmitAttempt(k) ==
  /\ submission[k] = "sent"
  /\ submission' = [submission EXCEPT ![k] = SubmitVerdict]
  /\ UNCHANGED <<serverVars, pageVars, answerVars, reports, left, wireVars>>

\* The rest of it: finalizeAttempt, with the verdict reached above.
CloseAttempt(k) ==
  /\ submission[k] \in Verdicts
  /\ attempt' = [attempt EXCEPT !.status = submission[k]]
  /\ submission' = [submission EXCEPT ![k] = "accepted"]
  /\ UNCHANGED <<overdue, stored, pageVars, answerVars, reports, left, wireVars>>

\* The handler ends with an error on the way: the session is over, or a statement
\* of the database fails. The page is told so.
FailSubmit(k) ==
  /\ "server" \in Faults
  /\ submission[k] \in {"sent"} \union Verdicts
  /\ submission' = [submission EXCEPT ![k] = "refused"]
  /\ UNCHANGED <<serverVars, pageVars, answerVars, reports, left, wireVars>>

\* Bug: a submission left behind is not checked.
SubmitLeftUnchecked ==
  /\ left
  /\ left' = FALSE
  /\ attempt' = [attempt EXCEPT !.status = SubmitVerdict]
  /\ UNCHANGED <<overdue, stored, pageVars, answerVars, reports, submission, wireVars>>

\* A submission that was left behind is handled, or never arrived.
SubmitLeft ==
  /\ left
  /\ left' = FALSE
  /\ attempt' = IF SubmitVerdict \in Verdicts THEN [attempt EXCEPT !.status = SubmitVerdict]
                                              ELSE attempt
  /\ UNCHANGED <<overdue, stored, pageVars, answerVars, reports, submission, wireVars>>

\* A teacher unlocks the attempt, and the event is published.
UnlockAttempt ==
  /\ attempt.locked /\ unlocks < MaxUnlocks
  /\ attempt' = [attempt EXCEPT !.locked = FALSE]
  /\ unlocks' = unlocks + 1
  /\ UNCHANGED <<overdue, stored, pageVars, answerVars, requestVars, room>>

DeadlinePasses ==
  /\ attempt.status = "in_progress" /\ ~overdue
  /\ overdue' = TRUE
  /\ UNCHANGED <<attempt, stored, pageVars, answerVars, requestVars, wireVars>>

-----------------------------------------------------------------------------
\* The exam page.

\* The page as it is rendered from the stored attempt (getAttempt). The browser
\* may be in fullscreen already when it comes from another page.
LoadPage(fullscreen) ==
  [NewPage EXCEPT !.inProgress = attempt.status = "in_progress",
                  !.locked = attempt.locked,
                  !.fullscreen = fullscreen,
                  !.doubt = unlocks > 0]

\* The page goes and comes back. The requests of the old one may still be
\* handled, but nobody hears of it. (It does not go between the two steps of
\* its own submission: for the server that is the same as going just after.)
ComeBack(fullscreen) ==
  /\ loads < MaxLoads /\ loads' = loads + 1
  /\ \A k \in Submitters : submission[k] \notin Verdicts
  /\ page' = LoadPage(fullscreen)
  /\ draft' = stored
  /\ atRisk' = {q \in Questions : (\E i \in DOMAIN saves' : saves'[i].question = q) \/ timer'[q] # 0}
  /\ reports' = [r \in Reports |-> IF reports[r] \in {"sent", "orphan"} THEN "orphan" ELSE "free"]
  /\ left' = (left \/ \E k \in Submitters : submission[k] = "sent")
  /\ submission' = [k \in Submitters |-> "idle"]
  /\ room' = FALSE
  /\ UNCHANGED <<serverVars, inputs, unlocks>>

\* The tab is reloaded: its timers are lost and its requests are cut off at
\* some point.
Reload(kept) ==
  /\ saves' = SubSeq(saves, 1, kept)
  /\ timer' = [q \in Questions |-> 0]
  /\ ComeBack(FALSE)

\* The student goes to another page of the application and back: the script
\* goes on, with its timers, and so does fullscreen.
NavigateAway ==
  /\ UNCHANGED <<saves, timer>>
  /\ ComeBack(page.fullscreen)

HandleAnswer(q) ==
  /\ inputs < MaxInputs
  /\ inputs' = inputs + 1
  /\ draft' = [draft EXCEPT ![q] = inputs']
  /\ atRisk' = atRisk \ {q}

\* A choice is saved at once.
HandleChoiceChange(q) ==
  /\ OffersChoice(q)
  /\ HandleAnswer(q)
  /\ saves' = Append(saves, [question |-> q, answer |-> inputs'])
  /\ UNCHANGED <<serverVars, pageVars, timer, requestVars, wireVars>>

\* Bug: a timer that is running is left as it is.
HandleTextChangeThrottled(q) ==
  /\ OffersText(q)
  /\ HandleAnswer(q)
  /\ timer' = [timer EXCEPT ![q] = IF @ = 0 THEN inputs' ELSE @]
  /\ UNCHANGED <<serverVars, pageVars, saves, requestVars, wireVars>>

\* Typed text is saved when nothing has been typed for 600 ms: each key
\* restarts the timer of its question.
HandleTextChange(q) ==
  /\ OffersText(q)
  /\ HandleAnswer(q)
  /\ timer' = [timer EXCEPT ![q] = inputs']
  /\ UNCHANGED <<serverVars, pageVars, saves, requestVars, wireVars>>

SaveTimerFires(q) ==
  /\ timer[q] # 0
  /\ saves' = Append(saves, [question |-> q, answer |-> timer[q]])
  /\ timer' = [timer EXCEPT ![q] = 0]
  /\ UNCHANGED <<serverVars, pageVars, draft, inputs, atRisk, requestVars, wireVars>>

\* Running the code of an answer saves nothing, but the check before it closes
\* what is overdue.
HandleRun(q) ==
  /\ OffersRun(q) /\ Expires
  /\ Expire
  /\ UNCHANGED <<overdue, stored, pageVars, answerVars, requestVars, wireVars>>

\* reportViolation does nothing on a page that knows it is locked.
ReportViolation(r) ==
  /\ reports[r] = "free"
  /\ IF page.locked THEN UNCHANGED <<reports, inputs>>
     ELSE /\ inputs < MaxInputs /\ inputs' = inputs + 1
          /\ reports' = [reports EXCEPT ![r] = "sent"]

ExitFullscreen(r) ==
  /\ Working /\ page.fullscreen
  /\ page' = [page EXCEPT !.fullscreen = FALSE]
  /\ ReportViolation(r)
  /\ UNCHANGED <<serverVars, draft, timer, saves, atRisk, submission, left, wireVars, loads>>

LoseFocus(r) ==
  /\ Working /\ MonitorActivity /\ ~page.locked
  /\ ReportViolation(r)
  /\ UNCHANGED <<serverVars, pageVars, draft, timer, saves, atRisk, submission, left, wireVars>>

EnterFullscreen ==
  /\ FullscreenGate
  /\ page' = [page EXCEPT !.fullscreen = TRUE]
  /\ UNCHANGED <<serverVars, answerVars, requestVars, wireVars, loads>>

\* The answer of a report that locked the attempt. It may come after the event
\* that says the attempt is unlocked again.
LockAnswerArrives(r) ==
  /\ reports[r] = "answered"
  /\ reports' = [reports EXCEPT ![r] = "free"]
  /\ page' = [page EXCEPT !.locked = TRUE, !.doubt = @ \/ ~attempt.locked]
  /\ UNCHANGED <<serverVars, answerVars, submission, left, wireVars, loads>>

LoseReport(r) ==
  /\ "network" \in Faults
  /\ reports[r] \in {"sent", "answered"}
  /\ page' = [page EXCEPT !.doubt = @ \/ reports[r] = "answered"]
  /\ reports' = [reports EXCEPT ![r] = "free"]
  /\ UNCHANGED <<serverVars, answerVars, submission, left, wireVars, loads>>

\* handleSubmit, called by a button or by the countdown. (One click's submission
\* at a time: a click waits for the answer of the one before.)
HandleSubmit(k, auto) ==
  /\ submission[k] = "idle"
  /\ submission' = [submission EXCEPT ![k] = "sent"]
  /\ page' = [page EXCEPT !.submitting = TRUE, !.error = FALSE, !.autoSubmitted = auto]
  /\ UNCHANGED <<serverVars, answerVars, reports, left, wireVars, loads>>

HandleSubmitClick ==
  /\ OffersSubmit
  /\ HandleSubmit("click", page.autoSubmitted)

\* The countdown submits once per page, whatever comes of it.
CountdownEnds ==
  /\ Working /\ overdue /\ ~page.autoSubmitted
  /\ HandleSubmit("countdown", TRUE)

\* The end of handleSubmit, its finally block included.
Settle(k, p) ==
  /\ submission' = [submission EXCEPT ![k] = "idle"]
  /\ page' = [p EXCEPT !.submitting = FALSE]

\* Bug: a refusal is not shown.
SubmitRefusedSilently(k) ==
  /\ submission[k] = "refused"
  /\ Settle(k, page)
  /\ UNCHANGED <<serverVars, answerVars, reports, left, wireVars, loads>>

SubmitRefused(k) ==
  /\ submission[k] = "refused"
  /\ Settle(k, [page EXCEPT !.error = TRUE])
  /\ UNCHANGED <<serverVars, answerVars, reports, left, wireVars, loads>>

\* An accepted submission is followed by GET attempt; the page then shows the
\* attempt as it is, and leaves the room of an attempt that has ended.
Refresh(k) ==
  /\ submission[k] = "accepted"
  /\ Settle(k, [page EXCEPT !.locked = attempt.locked,
                             !.inProgress = attempt.status = "in_progress"])
  /\ room' = (room /\ attempt.status = "in_progress")
  /\ UNCHANGED <<serverVars, answerVars, reports, left, unlocks, loads>>

\* That GET is answered with an error: the page stays as it is, in its room, and
\* says nothing.
RefreshRefused(k) ==
  /\ "server" \in Faults
  /\ submission[k] = "accepted"
  /\ Settle(k, [page EXCEPT !.stale = TRUE])
  /\ UNCHANGED <<serverVars, answerVars, reports, left, wireVars, loads>>

\* fetch throws in handleSubmit: nothing is caught and nothing is shown.
LoseSubmission(k) ==
  /\ "network" \in Faults
  /\ submission[k] \in {"sent", "accepted", "refused"}
  /\ Settle(k, [page EXCEPT !.unheard = TRUE])
  /\ UNCHANGED <<serverVars, answerVars, reports, left, wireVars, loads>>

-----------------------------------------------------------------------------
\* The events.

\* join:attempt, on every connect of the tab's socket while the page works.
JoinRoom ==
  /\ Working /\ ~room
  /\ room' = TRUE
  /\ UNCHANGED <<serverVars, pageVars, answerVars, requestVars, unlocks>>

Disconnect ==
  /\ "realtime" \in Faults
  /\ room
  /\ room' = FALSE
  /\ UNCHANGED <<serverVars, pageVars, answerVars, requestVars, unlocks>>

\* Bug: the page leaves a lock to be cleared by a reload.
PageAfterUnlockedIgnored == page

\* An unlock event is relayed to the room. The page that is not in it, because
\* it is new or its socket is away, never hears of it.
PageAfterUnlocked ==
  IF room THEN [page EXCEPT !.locked = FALSE, !.doubt = @ \/ attempt.locked]
  ELSE [page EXCEPT !.doubt = TRUE]

Relay ==
  /\ unlocks > 0
  /\ unlocks' = unlocks - 1
  /\ page' = PageAfterUnlocked
  /\ UNCHANGED <<serverVars, answerVars, requestVars, room, loads>>

\* publishRealtimeEvent swallows an error of Redis.
DropEvent ==
  /\ "realtime" \in Faults
  /\ unlocks > 0
  /\ unlocks' = unlocks - 1
  /\ page' = [page EXCEPT !.doubt = TRUE]
  /\ UNCHANGED <<serverVars, answerVars, requestVars, room, loads>>

-----------------------------------------------------------------------------
Init ==
  /\ attempt = [status |-> "in_progress", locked |-> FALSE]
  /\ overdue = FALSE
  /\ stored = [q \in Questions |-> 0]
  /\ page = NewPage /\ loads = 1
  /\ draft = [q \in Questions |-> 0] /\ timer = [q \in Questions |-> 0]
  /\ inputs = 0 /\ saves = <<>> /\ atRisk = {}
  /\ reports = [r \in Reports |-> "free"]
  /\ submission = [k \in Submitters |-> "idle"] /\ left = FALSE
  /\ unlocks = 0 /\ room = FALSE

Server ==
  \/ \E i \in DOMAIN saves : SaveAnswer(i) \/ LoseSave(i)
  \/ \E r \in Reports : RecordViolation(r)
  \/ \E k \in Submitters : SubmitAttempt(k) \/ CloseAttempt(k) \/ FailSubmit(k)
  \/ SubmitLeft \/ StartAgain \/ UnlockAttempt \/ DeadlinePasses

Student ==
  \/ NavigateAway \/ EnterFullscreen
  \/ \E kept \in 0..Len(saves) : Reload(kept)
  \/ \E q \in Questions : HandleChoiceChange(q) \/ HandleTextChange(q)
                        \/ SaveTimerFires(q) \/ HandleRun(q)
  \/ \E r \in Reports :
       ExitFullscreen(r) \/ LoseFocus(r) \/ LockAnswerArrives(r) \/ LoseReport(r)
  \/ HandleSubmitClick \/ CountdownEnds
  \/ \E k \in Submitters : SubmitRefused(k) \/ Refresh(k) \/ RefreshRefused(k)
                            \/ LoseSubmission(k)

Realtime == JoinRoom \/ Disconnect \/ Relay \/ DropEvent

Next == Server \/ Student \/ Realtime

Spec == Init /\ [][Next]_vars

\* The server and the page's script go on; users, clocks and teachers need not.
Fairness ==
  /\ WF_vars(CountdownEnds)
  /\ \A k \in Submitters :
       WF_vars(SubmitAttempt(k)) /\ WF_vars(CloseAttempt(k))
         /\ WF_vars(SubmitRefused(k)) /\ WF_vars(Refresh(k))

FairSpec == Spec /\ Fairness

-----------------------------------------------------------------------------
\* Properties.

\* The tables, the page and the requests between them keep their shape.
TypeOK ==
  /\ attempt \in [status : {"in_progress"} \union Verdicts, locked : BOOLEAN]
  /\ overdue \in BOOLEAN /\ left \in BOOLEAN /\ room \in BOOLEAN
  /\ inputs \in 0..MaxInputs /\ loads \in 1..MaxLoads /\ unlocks \in 0..MaxUnlocks
  /\ stored \in [Questions -> 0..inputs] /\ draft \in [Questions -> 0..inputs]
  /\ timer \in [Questions -> 0..inputs]
  /\ page \in [inProgress : BOOLEAN, locked : BOOLEAN,
               fullscreen : BOOLEAN, submitting : BOOLEAN, error : BOOLEAN,
               autoSubmitted : BOOLEAN, doubt : BOOLEAN, unheard : BOOLEAN,
               stale : BOOLEAN]
  /\ \A i \in DOMAIN saves : saves[i] \in [question : Questions, answer : 1..inputs]
  /\ reports \in [Reports -> {"free", "sent", "answered", "orphan"}]
  /\ submission \in [Submitters -> {"idle", "sent", "accepted", "refused"} \union Verdicts]
  /\ atRisk \subseteq Questions

\* Autosave: when the timer of a question has fired and its requests have been
\* handled, the server has what the page shows, unless the last save was
\* refused, lost or overtaken on the way; the next change repairs it.
SavedIsDraft ==
  \A q \in Questions :
    timer[q] = 0 /\ PendingSaves(q) = {} /\ q \notin atRisk => stored[q] = draft[q]

\* The page learns of a lock from the answer of its own report and of an unlock
\* from an event. Once both have settled it shows the lock as it is, unless
\* one of them was missed or came after the other.
PageShowsLock ==
  /\ Working /\ attempt.status = "in_progress" /\ ~page.doubt
  /\ unlocks = 0 /\ \A r \in Reports : reports[r] # "answered"
  => page.locked = attempt.locked

\* The page and the server are of their type, and agree about the lock.
PageInv == TypeOK /\ PageShowsLock

\* A page that stays open past the deadline ends up showing the finished
\* attempt or an error, unless an answer was lost on the network; or it was
\* refused the attempt when it asked for it again, but then it has been closed.
DeadlineIsHandled ==
  overdue ~> \/ ~Working \/ page.error \/ page.unheard
             \/ page.stale /\ attempt.status # "in_progress"
=============================================================================

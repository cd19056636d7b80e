--------------------------- MODULE LiveMonitorProofs ---------------------------
(***************************************************************************)
(* Theorems about LiveMonitor, for every value of its constants: any       *)
(* number of attempts, quizzes and tabs.                                   *)
(***************************************************************************)
EXTENDS LiveMonitor, SequenceTheorems, TLAPS

-----------------------------------------------------------------------------
(* The inductive invariant.                                                *)

\* The unlock that is under way is for an attempt, and its event is published
\* once: it is in the outbox only while its handler has not answered.
UnlockFits ==
  /\ unlock.at # "idle" => unlock.attempt \in Attempts
  /\ \A i \in 1..Len(outbox) : outbox[i].by = "monitor" => unlock.at = "publishing"
  /\ \A i, j \in 1..Len(outbox) : outbox[i].by = "monitor" /\ outbox[j].by = "monitor" => i = j

\* A page that is closed lists nothing; one that has joined is in its room.
PageFits ==
  /\ monitor.quiz = NoQuiz =>
       ~monitor.joined /\ \A a \in Attempts : monitor.rows[a].status # "finished"
  /\ monitor.joined => monitor.quiz \in rooms

\* Two tabs in one room have been noticed when the second joined.
RoomsApart ==
  ~overtaken =>
    \A t, u \in Tabs : tab[t].room = tab[u].room /\ tab[t].room # NoAttempt => t = u

IInv == TypeOK /\ UnlockFits /\ PageFits /\ RoomsApart /\ PresenceIsRoom

-----------------------------------------------------------------------------
(* Sequences and records.                                                  *)

\* RemoveAt takes out one element and keeps the others in their order.
LEMMA RemoveAtElements ==
  ASSUME NEW S, NEW s \in Seq(S), NEW i \in 1..Len(s)
  PROVE  /\ RemoveAt(s, i) \in Seq(S)
         /\ Len(RemoveAt(s, i)) = Len(s) - 1
         /\ \A k \in 1..Len(s) - 1 : RemoveAt(s, i)[k] = s[IF k < i THEN k ELSE k + 1]
<1> DEFINE l == SubSeq(s, 1, i - 1)
           r == SubSeq(s, i + 1, Len(s))
<1>1. i \in Nat /\ Len(s) \in Nat /\ i >= 1 /\ i <= Len(s) /\ \A k \in 1..Len(s) : s[k] \in S
  BY LenProperties
<1>2. l \in Seq(S) /\ Len(l) = i - 1 /\ \A k \in 1..i - 1 : l[k] = s[k]
  <2>1. 1 \in Int /\ i - 1 \in Int /\ \A k \in 1..i - 1 : s[k] \in S
    BY <1>1
  <2>2. QED
    BY <1>1, <2>1, SubSeqProperties
<1>3. r \in Seq(S) /\ Len(r) = Len(s) - i /\ \A k \in 1..Len(s) - i : r[k] = s[i + k]
  <2>1. i + 1 \in Int /\ Len(s) \in Int /\ \A k \in i + 1..Len(s) : s[k] \in S
    BY <1>1
  <2>2. /\ r \in Seq(S) /\ Len(r) = IF i + 1 <= Len(s) THEN Len(s) - (i + 1) + 1 ELSE 0
        /\ \A k \in 1..Len(s) - (i + 1) + 1 : r[k] = s[i + 1 + k - 1]
    BY <2>1, SubSeqProperties
  <2>3. QED
    BY <1>1, <2>2
<1>4. RemoveAt(s, i) = l \o r
  BY DEF RemoveAt
<1> HIDE DEF l, r
<1>5. /\ l \o r \in Seq(S) /\ Len(l \o r) = Len(l) + Len(r)
      /\ \A k \in 1..Len(l) + Len(r) :
           (l \o r)[k] = IF k <= Len(l) THEN l[k] ELSE r[k - Len(l)]
  BY <1>2, <1>3, ConcatProperties
<1>6. ASSUME NEW k \in 1..Len(s) - 1
      PROVE  (l \o r)[k] = s[IF k < i THEN k ELSE k + 1]
  <2>1. CASE k < i
    BY <1>1, <1>2, <1>3, <1>5, <2>1
  <2>2. CASE ~(k < i)
    <3>1. k - (i - 1) \in 1..Len(s) - i
      BY <1>1, <2>2
    <3>2. (l \o r)[k] = r[k - (i - 1)]
      BY <1>1, <1>2, <1>3, <1>5, <2>2
    <3>3. r[k - (i - 1)] = s[i + (k - (i - 1))] /\ i + (k - (i - 1)) = k + 1
      BY <1>1, <1>3, <3>1
    <3>4. QED
      BY <2>2, <3>2, <3>3
  <2>3. QED
    BY <2>1, <2>2
<1>7. QED
  BY <1>1, <1>2, <1>3, <1>4, <1>5, <1>6

\* A row after an event is a row, and a finished one stays finished.
LEMMA RowAfterFits ==
  ASSUME NEW row \in Rows, NEW type
  PROVE  /\ RowAfter(row, type) \in Rows
         /\ row.status = "finished" => RowAfter(row, type).status = "finished"
<1>1. CASE row.status = "none"
  <2>1. RowAfter(row, type) = row \/ RowAfter(row, type) = [row EXCEPT !.status = "in_progress"]
    BY <1>1 DEF RowAfter, RowAfterNoUnlock
  <2>2. QED
    BY <1>1, <2>1 DEF Rows
<1>2. CASE row.status # "none"
  <2>1. \/ RowAfter(row, type) = row
        \/ RowAfter(row, type) = [row EXCEPT !.locked = FALSE]
        \/ RowAfter(row, type) = [row EXCEPT !.locked = TRUE, !.flags = @ + 1]
        \/ RowAfter(row, type) = [row EXCEPT !.flags = @ + 1]
        \/ RowAfter(row, type) = [row EXCEPT !.status = "finished", !.score = 1]
        \/ RowAfter(row, type) = [row EXCEPT !.score = 2]
    BY <1>2, Zenon DEF RowAfter, RowAfterNoUnlock
  <2>2. row.flags + 1 \in Nat /\ 1 \in 0..2 /\ 2 \in 0..2
    BY DEF Rows
  <2>3. QED
    BY <2>1, <2>2 DEF Rows
<1>3. QED
  BY <1>1, <1>2

\* So the page after an event is a page.
LEMMA PresentAfterFits ==
  ASSUME monitor \in Pages, NEW a \in Attempts, NEW present \in SUBSET Attempts
  PROVE  PresentAfter(a, present) \in Pages
BY DEF PresentAfter, Pages

LEMMA EventFits ==
  ASSUME NEW a \in Attempts, NEW type \in Types, NEW by \in {"student", "monitor"}
  PROVE  Event(type, a, by) \in Events
BY DEF Event, Events

-----------------------------------------------------------------------------
LEMMA InitIInv == Init => IInv
<1> SUFFICES ASSUME Init PROVE IInv
  OBVIOUS
<1> USE DEF Init
<1>1. Unlisted \in Rows
  BY DEF Unlisted, Rows
<1>2. ClosedMonitor \in Pages
  BY <1>1 DEF ClosedMonitor, Pages
<1>3. <<>> \in Seq(Events) /\ Len(<<>>) = 0
  BY EmptySeq
<1>4. TypeOK
  <2>1. tab \in [Tabs -> TabStates]
    BY DEF TabStates
  <2>2. attempt \in [Attempts -> Rows]
    BY <1>1
  <2>3. Len(outbox) + Len(channel) <= MaxEvents
    BY <1>3, ConstantsAssumption
  <2>4. QED
    BY <1>2, <1>3, <2>1, <2>2, <2>3 DEF TypeOK
<1>5. UnlockFits
  BY <1>3 DEF UnlockFits
<1>6. PageFits
  BY DEF PageFits, ClosedMonitor, Unlisted
<1>7. RoomsApart
  BY DEF RoomsApart
<1>8. PresenceIsRoom
  BY ConstantsAssumption DEF PresenceIsRoom, InRoom, ClosedMonitor
<1>9. QED
  BY <1>4, <1>5, <1>6, <1>7, <1>8 DEF IInv

-----------------------------------------------------------------------------
(* The handlers.                                                           *)

\* Handlers leave the rooms, and a page they change only in its doubt.
LEMMA PresenceUntouched ==
  ASSUME IInv, UNCHANGED <<tab, presence, overtaken, rooms>>,
         monitor' = monitor \/ \E d \in BOOLEAN : monitor' = [monitor EXCEPT !.doubt = d]
  PROVE  monitor' \in Pages /\ PageFits' /\ RoomsApart' /\ PresenceIsRoom'
<1>1. /\ monitor' \in Pages /\ monitor'.quiz = monitor.quiz /\ monitor'.joined = monitor.joined
      /\ monitor'.rows = monitor.rows /\ monitor'.present = monitor.present
  BY DEF IInv, TypeOK, Pages
<1>2. QED
  BY <1>1 DEF IInv, PageFits, RoomsApart, PresenceIsRoom, InRoom

\* An event more, while there is room for it.
LEMMA AppendFits ==
  ASSUME IInv, Eventful, NEW e \in Events, outbox' = Append(outbox, e), UNCHANGED channel
  PROVE  /\ outbox' \in Seq(Events) /\ channel' \in Seq(Events)
         /\ Len(outbox') + Len(channel') <= MaxEvents
         /\ Len(outbox') = Len(outbox) + 1
         /\ \A i \in 1..Len(outbox) : outbox'[i] = outbox[i]
         /\ outbox'[Len(outbox) + 1] = e
<1>1. outbox \in Seq(Events) /\ channel \in Seq(Events)
  BY DEF IInv, TypeOK
<1>2. Len(outbox) \in Nat /\ Len(channel) \in Nat /\ MaxEvents \in Nat
  BY <1>1, LenProperties, ConstantsAssumption
<1>3. QED
  BY <1>1, <1>2, AppendProperties DEF Eventful

LEMMA WriteKeeps ==
  ASSUME IInv, NEW a \in Attempts, NEW row \in Rows, NEW type \in Types, Write(a, row, type)
  PROVE  IInv'
<1> DEFINE e == Event(type, a, "student")
<1>1. e \in Events /\ e.by = "student"
  BY EventFits DEF Event
<1>2. /\ outbox' \in Seq(Events) /\ channel' \in Seq(Events)
      /\ Len(outbox') + Len(channel') <= MaxEvents
      /\ Len(outbox') = Len(outbox) + 1
      /\ \A i \in 1..Len(outbox) : outbox'[i] = outbox[i]
      /\ outbox'[Len(outbox) + 1] = e
  BY <1>1, AppendFits DEF Write
<1>3. PageFits' /\ RoomsApart' /\ PresenceIsRoom'
  BY PresenceUntouched DEF Write, presenceVars, pageVars
<1>4. TypeOK'
  BY <1>2 DEF IInv, TypeOK, Write, presenceVars, pageVars
<1>5. UnlockFits'
  <2>1. Len(outbox) \in Nat
    BY LenProperties DEF IInv, TypeOK
  <2>2. unlock' = unlock
    BY DEF Write, pageVars
  <2>3. \A i \in 1..Len(outbox') :
          outbox'[i].by = "monitor" => i \in 1..Len(outbox) /\ outbox[i].by = "monitor"
    BY <1>1, <1>2, <2>1
  <2>4. QED
    BY <2>2, <2>3 DEF IInv, UnlockFits
<1>6. QED
  BY <1>3, <1>4, <1>5 DEF IInv

LEMMA UnlockAttemptKeeps ==
  ASSUME IInv, NEW a \in Attempts, UnlockAttempt(a)
  PROVE  IInv'
<1>1. PageFits' /\ RoomsApart' /\ PresenceIsRoom'
  BY PresenceUntouched DEF UnlockAttempt, presenceVars
<1>2. unlock.attempt = a /\ unlock.at = "sent" /\ Len(outbox) \in Nat
  BY LenProperties DEF UnlockAttempt, IInv, TypeOK
<1>3. \A i \in 1..Len(outbox) : outbox[i].by # "monitor"
  BY <1>2 DEF IInv, UnlockFits
<1>4. CASE attempt[a].locked
  <2> DEFINE e == Event("attempt_unlocked", a, "monitor")
  <2>1. e \in Events
    BY EventFits DEF Types
  <2>2. /\ outbox' \in Seq(Events) /\ channel' \in Seq(Events)
        /\ Len(outbox') + Len(channel') <= MaxEvents
        /\ Len(outbox') = Len(outbox) + 1
        /\ \A i \in 1..Len(outbox) : outbox'[i] = outbox[i]
    BY <1>4, <2>1, AppendFits DEF UnlockAttempt
  <2>3. unlock' = [unlock EXCEPT !.at = "publishing"]
    BY <1>4 DEF UnlockAttempt
  <2>4. attempt' \in [Attempts -> Rows]
    <3>1. attempt' = [attempt EXCEPT ![a].locked = FALSE]
      BY <1>4 DEF UnlockAttempt
    <3>2. QED
      BY <3>1 DEF IInv, TypeOK, Rows
  <2>5. TypeOK'
    BY <2>2, <2>3, <2>4 DEF IInv, TypeOK, UnlockAttempt, presenceVars
  <2>6. unlock'.at = "publishing" /\ unlock'.attempt = a
    BY <1>2, <2>3 DEF IInv, TypeOK
  <2>7. \A i \in 1..Len(outbox') : outbox'[i].by = "monitor" => i = Len(outbox) + 1
    BY <1>2, <1>3, <2>2
  <2>8. UnlockFits'
    BY <2>6, <2>7 DEF UnlockFits
  <2>9. QED
    BY <1>1, <2>5, <2>8 DEF IInv
<1>5. CASE ~attempt[a].locked
  <2>1. unlock' = [unlock EXCEPT !.at = "accepted"] /\ UNCHANGED <<attempt, outbox>>
    BY <1>5 DEF UnlockAttempt
  <2>2. TypeOK'
    BY <2>1 DEF IInv, TypeOK, UnlockAttempt, presenceVars
  <2>3. UnlockFits'
    BY <1>2, <1>3, <2>1 DEF IInv, TypeOK, UnlockFits
  <2>4. QED
    BY <1>1, <2>2, <2>3 DEF IInv
<1>6. QED
  BY <1>4, <1>5

LEMMA PublishKeeps ==
  ASSUME IInv, NEW i \in DOMAIN outbox, NEW dropped \in BOOLEAN, Publish(i, dropped)
  PROVE  IInv'
<1> DEFINE e == outbox[i]
<1>1. /\ outbox \in Seq(Events) /\ channel \in Seq(Events)
      /\ Len(outbox) \in Nat /\ Len(channel) \in Nat /\ MaxEvents \in Nat
      /\ i \in 1..Len(outbox) /\ e \in Events
      /\ Len(outbox) + Len(channel) <= MaxEvents
  BY LenProperties, ElementOfSeq, ConstantsAssumption DEF IInv, TypeOK
<1>2. /\ outbox' \in Seq(Events) /\ Len(outbox') = Len(outbox) - 1
      /\ \A k \in 1..Len(outbox) - 1 : outbox'[k] = outbox[IF k < i THEN k ELSE k + 1]
  BY <1>1, RemoveAtElements DEF Publish
<1>3. channel' \in Seq(Events) /\ Len(channel') <= Len(channel) + 1 /\ Len(channel') \in Nat
  <2>1. CASE dropped
    BY <1>1, <2>1 DEF Publish
  <2>2. CASE ~dropped
    BY <1>1, <2>2, AppendProperties DEF Publish
  <2>3. QED
    BY <2>1, <2>2
<1>4. monitor' \in Pages /\ PageFits' /\ RoomsApart' /\ PresenceIsRoom'
  <2>1. (monitor.doubt \/ (monitor.quiz # NoQuiz /\ (i > 1 \/ dropped))) \in BOOLEAN
    BY DEF IInv, TypeOK, Pages
  <2>2. QED
    BY <2>1, PresenceUntouched DEF Publish, presenceVars
<1>5. unlock' \in [at : {"idle", "sent", "publishing", "accepted"}, attempt : Attempts \union {NoAttempt}]
  BY DEF IInv, TypeOK, Publish
<1>6. TypeOK'
  BY <1>1, <1>2, <1>3, <1>4, <1>5 DEF IInv, TypeOK, Publish, presenceVars
<1>7. \A k \in 1..Len(outbox') : outbox'[k].by = "monitor" =>
         LET m == IF k < i THEN k ELSE k + 1
         IN  m \in 1..Len(outbox) /\ m # i /\ outbox[m].by = "monitor"
  BY <1>1, <1>2
<1>8. UnlockFits'
  <2>1. CASE e.by = "monitor"
    <3>1. unlock.at = "publishing" /\ unlock.attempt \in Attempts
      BY <1>1, <2>1 DEF IInv, UnlockFits
    <3>2. unlock' = [unlock EXCEPT !.at = "accepted"]
      BY <2>1 DEF Publish
    <3>3. \A k \in 1..Len(outbox') : outbox'[k].by # "monitor"
      BY <1>1, <1>7, <2>1 DEF IInv, UnlockFits
    <3>4. QED
      BY <3>1, <3>2, <3>3 DEF IInv, TypeOK, UnlockFits
  <2>2. CASE e.by # "monitor"
    <3>1. unlock' = unlock
      BY <2>2 DEF Publish
    <3>2. \A k, n \in 1..Len(outbox') :
            outbox'[k].by = "monitor" /\ outbox'[n].by = "monitor" => k = n
      <4> TAKE k, n \in 1..Len(outbox')
      <4> HAVE outbox'[k].by = "monitor" /\ outbox'[n].by = "monitor"
      <4>1. (IF k < i THEN k ELSE k + 1) = (IF n < i THEN n ELSE n + 1)
        BY <1>7 DEF IInv, UnlockFits
      <4>2. QED
        BY <1>1, <1>2, <4>1
    <3>3. \A k \in 1..Len(outbox') : outbox'[k].by = "monitor" => unlock'.at = "publishing"
      BY <1>7, <3>1 DEF IInv, UnlockFits
    <3>4. QED
      BY <3>1, <3>2, <3>3 DEF IInv, UnlockFits
  <2>3. QED
    BY <2>1, <2>2
<1>9. QED
  BY <1>4, <1>6, <1>8 DEF IInv

LEMMA HandlersKeep ==
  ASSUME IInv, Handlers
  PROVE  IInv'
<1> USE DEF Handlers
<1>0. \A a \in Attempts : attempt[a] \in Rows
  BY DEF IInv, TypeOK
<1>1. ASSUME NEW a \in Attempts, StartAttempt(a)
      PROVE  IInv'
  <2>1. [attempt[a] EXCEPT !.status = "in_progress"] \in Rows
    BY <1>0 DEF Rows
  <2>2. QED
    BY <1>1, <2>1, WriteKeeps DEF StartAttempt, Types
<1>2. ASSUME NEW a \in Attempts, NEW locks \in BOOLEAN, RecordViolation(a, locks)
      PROVE  IInv'
  <2>1. [attempt[a] EXCEPT !.locked = locks, !.flags = @ + 1] \in Rows
    <3>1. attempt[a].flags + 1 \in Nat
      BY <1>0 DEF Rows
    <3>2. QED
      BY <1>0, <3>1 DEF Rows
  <2>2. (IF locks THEN "violation_locked" ELSE "violation") \in Types
    BY DEF Types
  <2>3. QED
    BY <1>2, <2>1, <2>2, WriteKeeps DEF RecordViolation
<1>3. ASSUME NEW a \in Attempts, FinishAttempt(a)
      PROVE  IInv'
  <2>1. [attempt[a] EXCEPT !.status = "finished", !.score = 1] \in Rows
    <3>1. 1 \in 0..2
      OBVIOUS
    <3>2. QED
      BY <1>0, <3>1 DEF Rows
  <2>2. QED
    BY <1>3, <2>1, WriteKeeps DEF FinishAttempt, Types
<1>4. ASSUME NEW a \in Attempts, Regrade(a)
      PROVE  IInv'
  <2>1. [attempt[a] EXCEPT !.score = 2] \in Rows
    <3>1. 2 \in 0..2
      OBVIOUS
    <3>2. QED
      BY <1>0, <3>1 DEF Rows
  <2>2. QED
    BY <1>4, <2>1, WriteKeeps DEF Regrade, Types
<1>5. QED
  BY <1>1, <1>2, <1>3, <1>4, UnlockAttemptKeeps, PublishKeeps

-----------------------------------------------------------------------------
(* The realtime server.                                                    *)

\* It writes no row and leaves what waits to be published.
LEMMA UnlockUntouched ==
  ASSUME UnlockFits, UNCHANGED <<outbox, unlock>>
  PROVE  UnlockFits'
BY DEF UnlockFits

\* What a page lists and where it has joined stays when its present list changes.
LEMMA PageUntouched ==
  ASSUME PageFits, UNCHANGED rooms,
         UNCHANGED <<monitor.quiz, monitor.joined, monitor.rows>>
  PROVE  PageFits'
BY DEF PageFits

LEMMA TabMovesKeep ==
  ASSUME IInv, NEW t \in Tabs, NEW a \in Attempts, OpenPage(t, a) \/ Connect(t)
  PROVE  IInv'
<1>1. UNCHANGED <<serverVars, presence, overtaken, pageVars>>
  BY DEF OpenPage, Connect
<1>2. tab \in [Tabs -> TabStates] /\ tab[t] \in TabStates
  BY DEF IInv, TypeOK
<1>3. \E x \in TabStates :
        /\ tab' = [tab EXCEPT ![t] = x] /\ x.room = tab[t].room
        /\ x.attempt = tab[t].attempt \/ tab[t].attempt = NoAttempt
  <2>1. CASE OpenPage(t, a)
    <3> DEFINE x == [tab[t] EXCEPT !.attempt = a,
                       !.joins = IF tab[t].connected THEN tab[t].joins \union {a} ELSE tab[t].joins]
    <3>1. x \in TabStates /\ x.room = tab[t].room
      BY <1>2 DEF TabStates
    <3>2. tab' = [tab EXCEPT ![t] = x] /\ tab[t].attempt = NoAttempt
      BY <1>2, <2>1 DEF OpenPage, TabStates
    <3>3. QED
      BY <3>1, <3>2
  <2>2. CASE Connect(t)
    <3> DEFINE x == [tab[t] EXCEPT !.connected = TRUE, !.joins = tab[t].joins \union {tab[t].attempt}]
    <3>1. x \in TabStates /\ x.room = tab[t].room /\ x.attempt = tab[t].attempt
      BY <1>2, <2>2 DEF TabStates, Connect
    <3>2. tab' = [tab EXCEPT ![t] = x]
      BY <1>2, <2>2 DEF Connect, TabStates
    <3>3. QED
      BY <3>1, <3>2
  <2>3. QED
    BY <2>1, <2>2
<1>4. /\ tab' \in [Tabs -> TabStates]
      /\ \A u \in Tabs : /\ tab'[u].room = tab[u].room
                         /\ tab'[u].attempt = tab[u].attempt \/ tab[u].attempt = NoAttempt
  BY <1>2, <1>3
<1>5. TypeOK'
  BY <1>1, <1>4 DEF IInv, TypeOK, serverVars, pageVars
<1>6. UnlockFits' /\ PageFits' /\ RoomsApart'
  BY <1>1, <1>4, UnlockUntouched DEF IInv, PageFits, RoomsApart, serverVars, pageVars
<1>7. PresenceIsRoom'
  <2>1. \A b : InRoom(b)' = InRoom(b)
    BY <1>4 DEF InRoom
  <2>2. QED
    BY <1>1, <1>4, <2>1 DEF IInv, PresenceIsRoom, pageVars
<1>8. QED
  BY <1>5, <1>6, <1>7 DEF IInv

LEMMA JoinAttemptKeeps ==
  ASSUME IInv, NEW t \in Tabs, NEW a \in Attempts, JoinAttempt(t, a)
  PROVE  IInv'
<1> USE DEF JoinAttempt
<1>1. UNCHANGED <<serverVars, rooms, unlock, dialog>>
  OBVIOUS
<1>2. /\ monitor \in Pages /\ presence' \subseteq Attempts /\ monitor' = PresentAfter(a, presence')
      /\ presence' = presence \union {a}
  BY DEF IInv, TypeOK
<1>3. /\ tab' \in [Tabs -> TabStates]
      /\ tab'[t].room = IF tab[t].connected THEN a ELSE tab[t].room
      /\ \A u \in Tabs : tab'[u].attempt = tab[u].attempt
      /\ \A u \in Tabs \ {t} : tab'[u].room = tab[u].room
  BY DEF IInv, TypeOK, TabStates
<1>4. overtaken' \in BOOLEAN
  BY DEF IInv, TypeOK, TabStates
<1>5. TypeOK'
  BY <1>1, <1>2, <1>3, <1>4, PresentAfterFits DEF IInv, TypeOK, serverVars
<1>6. PageFits'
  BY <1>1, <1>2, PageUntouched DEF IInv, PresentAfter, Pages
<1>7. UnlockFits'
  BY <1>1, UnlockUntouched DEF IInv, serverVars
<1>8. ASSUME ~overtaken'
      PROVE  /\ ~overtaken /\ tab[t].attempt = a /\ tab'[t].room = a
             /\ \A u \in Tabs \ {t} : tab[u].room # a
  BY <1>3, <1>8 DEF InRoom
<1>9. RoomsApart'
  BY <1>3, <1>8 DEF IInv, RoomsApart
<1>10. PresenceIsRoom'
  <2> SUFFICES ASSUME ~overtaken'
               PROVE  /\ presence' = {b \in Attempts : InRoom(b)' # {}}
                      /\ \A u \in Tabs : tab'[u].room \in {tab'[u].attempt, NoAttempt}
                      /\ monitor'.joined /\ rooms' \subseteq {monitor'.quiz} =>
                           monitor'.present = {b \in presence' : QuizOf[b] = monitor'.quiz}
    BY DEF PresenceIsRoom
  <2>1. /\ presence = {b \in Attempts : InRoom(b) # {}}
        /\ \A u \in Tabs : tab[u].room \in {tab[u].attempt, NoAttempt}
        /\ monitor.joined /\ rooms \subseteq {monitor.quiz} =>
             monitor.present = {b \in presence : QuizOf[b] = monitor.quiz}
    BY <1>8 DEF IInv, PresenceIsRoom
  <2>2. \A b \in Attempts \ {a} : InRoom(b)' = InRoom(b)
    BY <1>3, <1>8, <2>1, ConstantsAssumption DEF InRoom
  <2>3. InRoom(a)' # {}
    BY <1>8 DEF InRoom
  <2>4. presence' = {b \in Attempts : InRoom(b)' # {}}
    BY <1>2, <2>1, <2>2, <2>3
  <2>5. \A u \in Tabs : tab'[u].room \in {tab'[u].attempt, NoAttempt}
    BY <1>3, <1>8, <2>1
  <2>6. ASSUME monitor'.joined, rooms' \subseteq {monitor'.quiz}
        PROVE  monitor'.present = {b \in presence' : QuizOf[b] = monitor'.quiz}
    <3>1. /\ monitor'.quiz = monitor.quiz /\ monitor'.joined = monitor.joined /\ rooms' = rooms
          /\ monitor'.present = IF monitor.joined /\ QuizOf[a] \in rooms
                                  THEN {b \in presence' : QuizOf[b] = QuizOf[a]} ELSE monitor.present
      BY <1>1, <1>2 DEF PresentAfter, Pages
    <3>2. monitor.quiz \in rooms /\ rooms = {monitor.quiz}
      BY <2>6, <3>1 DEF IInv, PageFits
    <3>3. CASE QuizOf[a] = monitor.quiz
      BY <2>6, <3>1, <3>2, <3>3
    <3>4. CASE QuizOf[a] # monitor.quiz
      BY <1>2, <2>1, <2>6, <3>1, <3>2, <3>4
    <3>5. QED
      BY <3>3, <3>4
  <2>7. QED
    BY <2>4, <2>5, <2>6
<1>11. QED
  BY <1>5, <1>6, <1>7, <1>9, <1>10 DEF IInv

\* A tab leaves its room, for whatever reason, and may be shown elsewhere.
LEMMA DepartKeeps ==
  ASSUME IInv, NEW t \in Tabs, Depart(t), tab' \in [Tabs -> TabStates], overtaken' \in BOOLEAN,
         overtaken => overtaken', tab'[t].room = NoAttempt, NEW r, r = tab[t].room,
         \A u \in Tabs \ {t} : tab'[u] = tab[u]
  PROVE  IInv'
<1> USE DEF Depart
<1>1. UNCHANGED <<serverVars, rooms, unlock, dialog>>
  OBVIOUS
<1>2. /\ monitor \in Pages /\ presence \subseteq Attempts /\ presence' = presence \ {r}
      /\ r \in Attempts \union {NoAttempt}
  BY DEF IInv, TypeOK, TabStates
<1>3. monitor' = IF r = NoAttempt THEN monitor ELSE PresentAfter(r, presence')
  OBVIOUS
<1>4. monitor' \in Pages
  BY <1>2, <1>3, PresentAfterFits
<1>5. /\ monitor'.quiz = monitor.quiz /\ monitor'.joined = monitor.joined
      /\ monitor'.rows = monitor.rows
      /\ monitor'.present = IF r # NoAttempt /\ monitor.joined /\ QuizOf[r] \in rooms
                              THEN {b \in presence' : QuizOf[b] = QuizOf[r]} ELSE monitor.present
  BY <1>2, <1>3 DEF PresentAfter, Pages
<1>6. TypeOK'
  BY <1>1, <1>2, <1>4 DEF IInv, TypeOK, serverVars
<1>7. PageFits' /\ UnlockFits'
  BY <1>1, <1>5, PageUntouched, UnlockUntouched DEF IInv, serverVars
<1>8. RoomsApart'
  BY DEF IInv, RoomsApart
<1>9. PresenceIsRoom'
  <2> SUFFICES ASSUME ~overtaken'
               PROVE  /\ presence' = {b \in Attempts : InRoom(b)' # {}}
                      /\ \A u \in Tabs : tab'[u].room \in {tab'[u].attempt, NoAttempt}
                      /\ monitor'.joined /\ rooms' \subseteq {monitor'.quiz} =>
                           monitor'.present = {b \in presence' : QuizOf[b] = monitor'.quiz}
    BY DEF PresenceIsRoom
  <2>1. /\ presence = {b \in Attempts : InRoom(b) # {}}
        /\ \A u \in Tabs : tab[u].room \in {tab[u].attempt, NoAttempt}
        /\ monitor.joined /\ rooms \subseteq {monitor.quiz} =>
             monitor.present = {b \in presence : QuizOf[b] = monitor.quiz}
    BY DEF IInv, PresenceIsRoom
  <2>2. \A b \in Attempts \ {r} : InRoom(b)' = InRoom(b)
    <3>1. \A b \in Attempts \ {r} : tab'[t].room # b /\ tab[t].room # b
      BY ConstantsAssumption
    <3>2. QED
      BY <3>1 DEF InRoom
  <2>3. r \in Attempts => InRoom(r)' = {}
    <3>1. \A u \in Tabs \ {t} : r \in Attempts => tab'[u].room # r
      BY ConstantsAssumption DEF IInv, RoomsApart
    <3>2. r \in Attempts => tab'[t].room # r
      BY ConstantsAssumption
    <3>3. QED
      BY <3>1, <3>2 DEF InRoom
  <2>4. presence' = {b \in Attempts : InRoom(b)' # {}}
    <3>1. \A b \in Attempts : b \in presence' <=> InRoom(b)' # {}
      BY <1>2, <2>1, <2>2, <2>3
    <3>2. QED
      BY <1>2, <3>1
  <2>5. \A u \in Tabs : tab'[u].room \in {tab'[u].attempt, NoAttempt}
    BY <2>1
  <2>6. ASSUME monitor'.joined, rooms' \subseteq {monitor'.quiz}
        PROVE  monitor'.present = {b \in presence' : QuizOf[b] = monitor'.quiz}
    <3>1. rooms' = rooms /\ monitor.quiz \in rooms /\ rooms = {monitor.quiz} /\ monitor.joined
      BY <1>1, <1>5, <2>6 DEF IInv, PageFits
    <3>2. CASE r = NoAttempt
      <4>1. presence' = presence
        BY <1>2, <3>2, ConstantsAssumption
      <4>2. QED
        BY <1>5, <2>1, <3>1, <3>2, <4>1
    <3>3. CASE r # NoAttempt /\ QuizOf[r] = monitor.quiz
      BY <1>5, <3>1, <3>3
    <3>4. CASE r # NoAttempt /\ QuizOf[r] # monitor.quiz
      BY <1>2, <1>5, <2>1, <3>1, <3>4
    <3>5. QED
      BY <3>2, <3>3, <3>4
  <2>7. QED
    BY <2>4, <2>5, <2>6
<1>10. QED
  BY <1>6, <1>7, <1>8, <1>9 DEF IInv

LEMMA LeaveKeeps ==
  ASSUME IInv, NEW t \in Tabs, LeaveAttempt(t) \/ Disconnect(t)
  PROVE  IInv'
<1>1. tab' \in [Tabs -> TabStates] /\ tab'[t].room = NoAttempt /\ \A u \in Tabs \ {t} : tab'[u] = tab[u]
  <2>1. tab \in [Tabs -> TabStates] /\ tab[t] \in TabStates
    BY DEF IInv, TypeOK
  <2>2. \E x \in TabStates : tab' = [tab EXCEPT ![t] = x] /\ x.room = NoAttempt
    <3>1. CASE LeaveAttempt(t)
      <4>1. [tab[t] EXCEPT !.attempt = NoAttempt, !.room = NoAttempt] \in TabStates
        BY <2>1 DEF TabStates
      <4>2. QED
        BY <2>1, <3>1, <4>1 DEF LeaveAttempt, TabStates
    <3>2. CASE Disconnect(t)
      <4>1. [tab[t] EXCEPT !.connected = FALSE, !.room = NoAttempt] \in TabStates
        BY <2>1 DEF TabStates
      <4>2. QED
        BY <2>1, <3>2, <4>1 DEF Disconnect, TabStates
    <3>3. QED
      BY <3>1, <3>2
  <2>3. QED
    BY <2>1, <2>2
<1>2. overtaken' \in BOOLEAN /\ (overtaken => overtaken')
  BY DEF IInv, TypeOK, LeaveAttempt, Disconnect
<1>3. Depart(t)
  BY DEF LeaveAttempt, Disconnect
<1>4. QED
  BY <1>1, <1>2, <1>3, DepartKeeps

LEMMA RestartKeeps ==
  ASSUME IInv, Restart
  PROVE  IInv'
<1> USE DEF Restart
<1>1. /\ monitor' \in Pages /\ ~monitor'.joined
      /\ monitor'.quiz = monitor.quiz /\ monitor'.rows = monitor.rows
  BY DEF IInv, TypeOK, Pages
<1>2. tab' \in [Tabs -> TabStates] /\ \A t \in Tabs : tab'[t].room = NoAttempt
  BY DEF IInv, TypeOK, TabStates
<1>3. Len(outbox') + Len(channel') <= MaxEvents /\ channel' \in Seq(Events)
  <2>1. Len(channel') = 0 /\ channel' \in Seq(Events)
    BY EmptySeq
  <2>2. /\ Len(outbox) \in Nat /\ Len(channel) \in Nat /\ MaxEvents \in Nat
        /\ Len(outbox) + Len(channel) <= MaxEvents /\ outbox' = outbox
    BY LenProperties, ConstantsAssumption DEF IInv, TypeOK
  <2> HIDE DEF Restart
  <2>3. QED
    BY <2>1, <2>2
<1>4. TypeOK'
  BY <1>1, <1>2, <1>3 DEF IInv, TypeOK
<1>5. UnlockFits'
  BY UnlockUntouched DEF IInv
<1>6. PageFits' /\ RoomsApart'
  BY <1>1, <1>2 DEF IInv, PageFits, RoomsApart
<1>7. PresenceIsRoom'
  <2>1. \A a \in Attempts : InRoom(a)' = {}
    BY <1>2, ConstantsAssumption DEF InRoom
  <2>2. QED
    BY <1>1, <1>2, <2>1 DEF PresenceIsRoom
<1>8. QED
  BY <1>4, <1>5, <1>6, <1>7 DEF IInv

\* One row of the page changes.
LEMMA RowChange ==
  ASSUME monitor \in Pages, NEW b \in Attempts, NEW x \in Rows,
         monitor' = [monitor EXCEPT !.rows[b] = x],
         monitor.rows[b].status = "finished" => x.status = "finished"
  PROVE  /\ monitor' \in Pages /\ monitor'.quiz = monitor.quiz /\ monitor'.joined = monitor.joined
         /\ monitor'.present = monitor.present
         /\ \A a \in Attempts : monitor.rows[a].status = "finished" => monitor'.rows[a].status = "finished"
BY DEF Pages

LEMMA RelayKeeps ==
  ASSUME IInv, Relay
  PROVE  IInv' /\ \A a \in Attempts : monitor.rows[a].status = "finished" => monitor'.rows[a].status = "finished"
<1> USE DEF Relay
<1> DEFINE e == Head(channel)
<1>1. e \in Events /\ channel' \in Seq(Events) /\ Len(channel') = Len(channel) - 1
  BY HeadTailProperties DEF IInv, TypeOK
<1>2. e.attempt \in Attempts /\ monitor \in Pages
  BY <1>1 DEF Events, IInv, TypeOK
<1>3. Len(outbox') + Len(channel') <= MaxEvents
  <2>1. /\ Len(outbox) \in Nat /\ Len(channel) \in Nat /\ MaxEvents \in Nat
        /\ Len(outbox) + Len(channel) <= MaxEvents /\ outbox' = outbox
    BY LenProperties, ConstantsAssumption DEF IInv, TypeOK
  <2>2. QED
    BY <1>1, <2>1
<1>4. /\ monitor' \in Pages /\ monitor'.quiz = monitor.quiz /\ monitor'.joined = monitor.joined
      /\ monitor'.present = monitor.present
      /\ monitor.quiz = NoQuiz => monitor'.rows = monitor.rows
      /\ \A a \in Attempts : monitor.rows[a].status = "finished" => monitor'.rows[a].status = "finished"
  <2> DEFINE row == RowAfter(monitor.rows[e.attempt], e.type)
  <2>1. /\ row \in Rows
        /\ monitor.rows[e.attempt].status = "finished" => row.status = "finished"
    BY <1>2, RowAfterFits DEF Pages
  <2> HIDE DEF row
  <2>2. CASE monitor' = monitor
    BY <1>2, <2>2
  <2>3. CASE monitor.quiz # NoQuiz /\ monitor' = [monitor EXCEPT !.rows[e.attempt] = row]
    BY <1>2, <2>1, <2>3, RowChange
  <2>4. CASE monitor' = [monitor EXCEPT !.doubt = @ \/ QuizOf[e.attempt] = monitor.quiz]
    BY <1>2, <2>4 DEF Pages
  <2>5. QED
    BY <2>2, <2>3, <2>4 DEF row
<1>5. TypeOK'
  BY <1>1, <1>3, <1>4 DEF IInv, TypeOK, presenceVars
<1>6. UnlockFits'
  BY UnlockUntouched DEF IInv
<1>7. PageFits'
  BY <1>4 DEF IInv, PageFits
<1>8. RoomsApart' /\ PresenceIsRoom'
  BY <1>4 DEF IInv, RoomsApart, PresenceIsRoom, InRoom, presenceVars
<1>9. QED
  BY <1>4, <1>5, <1>6, <1>7, <1>8 DEF IInv

LEMMA RealtimeKeeps ==
  ASSUME IInv, Realtime
  PROVE  IInv'
<1>1. CASE \E t \in Tabs : Connect(t)
  <2>1. PICK t \in Tabs : Connect(t)
    BY <1>1
  <2>2. tab[t].attempt \in Attempts
    BY <2>1 DEF Connect, IInv, TypeOK, TabStates
  <2>3. QED
    BY <2>1, <2>2, TabMovesKeep
<1>2. QED
  BY <1>1, TabMovesKeep, JoinAttemptKeeps, LeaveKeeps, RestartKeeps, RelayKeeps DEF Realtime

-----------------------------------------------------------------------------
(* The teacher.                                                            *)

LEMMA OpenMonitorKeeps ==
  ASSUME IInv, NEW q \in Quizzes, OpenMonitor(q)
  PROVE  IInv'
<1> USE DEF OpenMonitor
<1>1. UNCHANGED <<serverVars, presenceVars, rooms, unlock, dialog>>
  OBVIOUS
<1>2. ListAttemptsForQuiz(q) \in [Attempts -> Rows]
  BY DEF ListAttemptsForQuiz, Unlisted, IInv, TypeOK, Rows
<1>3. monitor' \in Pages /\ monitor'.quiz = q /\ ~monitor'.joined
  BY <1>2 DEF Pages
<1>4. TypeOK'
  BY <1>1, <1>3 DEF IInv, TypeOK, serverVars, presenceVars
<1>5. UnlockFits'
  BY <1>1, UnlockUntouched DEF IInv, serverVars
<1>6. PageFits'
  BY <1>3, ConstantsAssumption DEF PageFits
<1>7. RoomsApart' /\ PresenceIsRoom'
  BY <1>1, <1>3 DEF IInv, RoomsApart, PresenceIsRoom, InRoom, presenceVars
<1>8. QED
  BY <1>4, <1>5, <1>6, <1>7 DEF IInv

LEMMA JoinQuizKeeps ==
  ASSUME IInv, JoinQuiz
  PROVE  IInv'
<1> USE DEF JoinQuiz
<1>1. UNCHANGED <<serverVars, presenceVars, unlock, dialog>>
  OBVIOUS
<1>2. /\ monitor' \in Pages /\ monitor'.quiz = monitor.quiz /\ monitor'.rows = monitor.rows
      /\ monitor'.present = {a \in presence : QuizOf[a] = monitor.quiz}
  BY DEF IInv, TypeOK, Pages
<1>3. rooms' \subseteq Quizzes /\ monitor.quiz \in rooms'
  BY DEF IInv, TypeOK, Pages
<1>4. TypeOK'
  BY <1>1, <1>2, <1>3 DEF IInv, TypeOK, serverVars, presenceVars
<1>5. UnlockFits'
  BY <1>1, UnlockUntouched DEF IInv, serverVars
<1>6. PageFits'
  BY <1>2, <1>3 DEF PageFits
<1>7. RoomsApart' /\ PresenceIsRoom'
  BY <1>1, <1>2 DEF IInv, RoomsApart, PresenceIsRoom, InRoom, presenceVars
<1>8. QED
  BY <1>4, <1>5, <1>6, <1>7 DEF IInv

LEMMA CloseMonitorKeeps ==
  ASSUME IInv, CloseMonitor
  PROVE  IInv'
<1> USE DEF CloseMonitor
<1>1. UNCHANGED <<serverVars, presenceVars, rooms, unlock>>
  OBVIOUS
<1>2. Unlisted \in Rows /\ Unlisted.status # "finished"
  BY DEF Unlisted, Rows
<1>3. /\ monitor' \in Pages /\ ~monitor'.joined
      /\ \A a \in Attempts : monitor'.rows[a].status # "finished"
  BY <1>2 DEF ClosedMonitor, Pages
<1>4. TypeOK'
  BY <1>1, <1>3 DEF IInv, TypeOK, serverVars, presenceVars
<1>5. UnlockFits'
  BY <1>1, UnlockUntouched DEF IInv, serverVars
<1>6. PageFits'
  BY <1>3 DEF PageFits
<1>7. RoomsApart' /\ PresenceIsRoom'
  BY <1>1, <1>3 DEF IInv, RoomsApart, PresenceIsRoom, InRoom, presenceVars
<1>8. QED
  BY <1>4, <1>5, <1>6, <1>7 DEF IInv

\* The teacher asks for an unlock, or it is refused or lost.
LEMMA UnlockMovesKeep ==
  ASSUME IInv, UNCHANGED <<serverVars, presenceVars, rooms, monitor>>,
         dialog' \in [at : {"closed", "loading", "locked", "open"}, attempt : Attempts \union {NoAttempt}],
         \/ unlock' = unlock
         \/ /\ unlock.at # "publishing"
            /\ \/ unlock' = [at |-> "idle", attempt |-> NoAttempt]
               \/ \E a \in Attempts : unlock' = [at |-> "sent", attempt |-> a]
  PROVE  IInv'
<1>1. TypeOK'
  BY DEF IInv, TypeOK, serverVars, presenceVars
<1>2. UnlockFits'
  BY DEF IInv, UnlockFits, serverVars
<1>3. PageFits' /\ RoomsApart' /\ PresenceIsRoom'
  BY DEF IInv, PageFits, RoomsApart, PresenceIsRoom, InRoom, presenceVars
<1>4. QED
  BY <1>1, <1>2, <1>3 DEF IInv

LEMMA DialogAfterUnlockFits ==
  ASSUME TypeOK
  PROVE  DialogAfterUnlock \in [at : {"closed", "loading", "locked", "open"},
                                attempt : Attempts \union {NoAttempt}]
BY DEF DialogAfterUnlock, TypeOK

LEMMA UnlockAnswerKeeps ==
  ASSUME IInv, UnlockAnswerArrives
  PROVE  IInv' /\ \A a \in Attempts : monitor.rows[a].status = "finished" => monitor'.rows[a].status = "finished"
<1> USE DEF UnlockAnswerArrives
<1>1. UNCHANGED <<serverVars, presenceVars, rooms>> /\ unlock' = [at |-> "idle", attempt |-> NoAttempt]
  OBVIOUS
<1>2. unlock.attempt \in Attempts /\ monitor \in Pages /\ attempt[unlock.attempt].locked \in BOOLEAN
  BY DEF IInv, TypeOK, UnlockFits, Rows
<1>3. /\ monitor' \in Pages /\ monitor'.quiz = monitor.quiz /\ monitor'.joined = monitor.joined
      /\ monitor'.present = monitor.present
      /\ \A a \in Attempts : monitor'.rows[a].status = monitor.rows[a].status
  <2> DEFINE row == [monitor.rows[unlock.attempt] EXCEPT !.locked = FALSE]
             doubt == monitor.doubt \/ attempt[unlock.attempt].locked
  <2>1. row \in Rows /\ row.status = monitor.rows[unlock.attempt].status
    <3>1. monitor.rows[unlock.attempt] \in Rows
      BY <1>2 DEF Pages
    <3>2. QED
      BY <3>1 DEF Rows
  <2>2. doubt \in BOOLEAN
    BY <1>2 DEF Pages
  <2>3. monitor' = [monitor EXCEPT !.rows = [monitor.rows EXCEPT ![unlock.attempt] = row],
                                   !.doubt = doubt]
    BY <1>2, Zenon
  <2> HIDE DEF row, doubt
  <2>4. [monitor.rows EXCEPT ![unlock.attempt] = row] \in [Attempts -> Rows]
    BY <1>2, <2>1 DEF Pages
  <2>5. QED
    BY <1>2, <2>1, <2>2, <2>3, <2>4 DEF Pages
<1>4. TypeOK'
  BY <1>1, <1>3, DialogAfterUnlockFits DEF IInv, TypeOK, serverVars, presenceVars
<1>5. UnlockFits'
  BY <1>1 DEF IInv, UnlockFits, serverVars
<1>6. PageFits' /\ RoomsApart' /\ PresenceIsRoom'
  BY <1>1, <1>3 DEF IInv, PageFits, RoomsApart, PresenceIsRoom, InRoom, presenceVars
<1>7. QED
  BY <1>3, <1>4, <1>5, <1>6 DEF IInv

LEMMA TeacherKeeps ==
  ASSUME IInv, Teacher
  PROVE  IInv'
<1> DEFINE Dialogs == [at : {"closed", "loading", "locked", "open"}, attempt : Attempts \union {NoAttempt}]
<1>1. dialog \in Dialogs
  BY DEF IInv, TypeOK
<1>2. ASSUME NEW a \in Attempts, HandleUnlock(a)
      PROVE  IInv'
  BY <1>1, <1>2, UnlockMovesKeep DEF HandleUnlock
<1>3. CASE UnlockRefused
  BY <1>3, UnlockMovesKeep, DialogAfterUnlockFits DEF UnlockRefused, IInv
<1>4. CASE LoseUnlock
  BY <1>1, <1>4, UnlockMovesKeep DEF LoseUnlock
<1>5. ASSUME NEW a \in Attempts, OpenStory(a)
      PROVE  IInv'
  BY <1>5, UnlockMovesKeep DEF OpenStory
<1>6. CASE StoryArrives
  BY <1>1, <1>6, UnlockMovesKeep DEF StoryArrives
<1>7. CASE CloseStory
  BY <1>7, UnlockMovesKeep DEF CloseStory
<1>8. QED
  BY <1>2, <1>3, <1>4, <1>5, <1>6, <1>7, OpenMonitorKeeps, JoinQuizKeeps, CloseMonitorKeeps,
     UnlockAnswerKeeps DEF Teacher

-----------------------------------------------------------------------------
(* The theorems.                                                           *)

LEMMA StutterKeeps ==
  ASSUME IInv, UNCHANGED vars
  PROVE  IInv'
BY DEF vars, serverVars, presenceVars, pageVars, IInv, TypeOK, UnlockFits, PageFits, RoomsApart,
       PresenceIsRoom, InRoom

LEMMA IInvariant == Spec => []IInv
<1>1. IInv /\ [Next]_vars => IInv'
  BY HandlersKeep, RealtimeKeeps, TeacherKeeps, StutterKeeps DEF Next
<1>2. QED
  BY <1>1, InitIInv, PTL DEF Spec

\* The tables, the messages on their way, the sockets and the page keep their
\* shape, for any number of attempts, quizzes and tabs.
THEOREM TypeCorrect == Spec => []TypeOK
<1>1. IInv => TypeOK
  BY DEF IInv
<1>2. QED
  BY <1>1, IInvariant, PTL

\* The presence list of the realtime server is the rooms' members, and the
\* monitor shows its quiz's part of it, with any number of tabs: however joins,
\* departures, restarts and the teacher's own comings and goings interleave, only
\* an overtaken join, a second tab in a room, or another quiz's room that the
\* teacher's socket kept can make it wrong.
THEOREM PresenceHolds == Spec => []MonitorInv
<1>1. IInv => MonitorInv
  BY DEF IInv, MonitorInv
<1>2. QED
  BY <1>1, IInvariant, PTL

\* No event, whatever order events are published in and however often one is
\* heard, and no answer takes a finished attempt back to one in progress.
THEOREM FinishedIsKept == Spec => MonitorKeepsFinished
<1> DEFINE Kept == \A a \in Attempts :
             monitor.rows[a].status = "finished" /\ monitor'.quiz # NoQuiz
               => monitor'.rows[a].status = "finished"
<1>1. IInv /\ [Next]_vars => Kept
  <2> SUFFICES ASSUME IInv, [Next]_vars PROVE Kept
    OBVIOUS
  <2>1. ASSUME UNCHANGED monitor.rows PROVE Kept
    BY <2>1
  <2>2. CASE Handlers
    <3>1. ASSUME NEW i \in DOMAIN outbox, NEW dropped \in BOOLEAN, Publish(i, dropped)
          PROVE  UNCHANGED monitor.rows
      BY <3>1 DEF Publish, IInv, TypeOK, Pages
    <3>2. QED
      BY <2>1, <2>2, <3>1 DEF Handlers, StartAttempt, RecordViolation, FinishAttempt, Regrade,
                             Write, UnlockAttempt, pageVars
  <2>3. CASE Realtime
    <3>1. CASE Relay
      BY <3>1, RelayKeeps
    <3>2. ASSUME NEW t \in Tabs, NEW a \in Attempts, JoinAttempt(t, a)
          PROVE  UNCHANGED monitor.rows
      BY <3>2 DEF JoinAttempt, PresentAfter, IInv, TypeOK, Pages
    <3>3. ASSUME NEW t \in Tabs, Depart(t)
          PROVE  UNCHANGED monitor.rows
      BY <3>3 DEF Depart, PresentAfter, IInv, TypeOK, Pages
    <3>4. CASE Restart
      BY <3>4 DEF Restart, IInv, TypeOK, Pages
    <3>5. QED
      BY <2>1, <2>3, <3>1, <3>2, <3>3, <3>4 DEF Realtime, OpenPage, Connect, LeaveAttempt,
                                                Disconnect, pageVars
  <2>4. CASE Teacher
    <3>1. ASSUME NEW q \in Quizzes, OpenMonitor(q)
          PROVE  Kept
      BY <3>1 DEF OpenMonitor, IInv, PageFits
    <3>2. CASE JoinQuiz
      BY <3>2 DEF JoinQuiz, IInv, TypeOK, Pages
    <3>3. CASE CloseMonitor
      BY <3>3 DEF CloseMonitor, ClosedMonitor
    <3>4. CASE UnlockAnswerArrives
      BY <3>4, UnlockAnswerKeeps
    <3>5. QED
      BY <2>1, <2>4, <3>1, <3>2, <3>3, <3>4 DEF Teacher, HandleUnlock, UnlockRefused, LoseUnlock,
                                           OpenStory, StoryArrives, CloseStory
  <2>5. CASE UNCHANGED vars
    BY <2>1, <2>5 DEF vars, pageVars
  <2>6. QED
    BY <2>2, <2>3, <2>4, <2>5 DEF Next
<1>2. QED
  BY <1>1, IInvariant, PTL DEF Spec, MonitorKeepsFinished

-----------------------------------------------------------------------------
(* What the monitor shows.                                                 *)

\* What an event does to the row of attempt a.
Effect(row, e, a) == IF e.attempt = a THEN RowAfter(row, e.type) ELSE row

\* The n-th of the events that wait: those of the channel come first.
Waiting(ch, out, n) == IF n <= Len(ch) THEN ch[n] ELSE out[n - Len(ch)]

\* h is what becomes of a row when all that waits is heard.
History(h, row, end, ch, out, a) ==
  /\ h \in [0 .. Len(ch) + Len(out) -> Rows]
  /\ h[0] = row /\ h[Len(ch) + Len(out)] = end
  /\ \A n \in 1 .. Len(ch) + Len(out) : h[n] = Effect(h[n - 1], Waiting(ch, out, n), a)

Leads(row, end, ch, out, a) == \E h : History(h, row, end, ch, out, a)

\* Once a page that has missed nothing has heard what waits, it shows the tables.
WillShow ==
  monitor.quiz # NoQuiz /\ ~monitor.doubt =>
    \A a \in Attempts : QuizOf[a] = monitor.quiz =>
      Leads(monitor.rows[a], attempt[a], channel, outbox, a)

LockedIsTaken == \A a \in Attempts : attempt[a].locked => attempt[a].status # "none"

ShowInv == LockedIsTaken /\ WillShow

\* With nothing waiting, the row stays what it is.
LEMMA NothingWaits ==
  ASSUME NEW row \in Rows, NEW end \in Rows, NEW a
  PROVE  Leads(row, end, <<>>, <<>>, a) <=> row = end
<1>1. Len(<<>>) + Len(<<>>) = 0 /\ 0 .. 0 = {0} /\ 1 .. 0 = {}
  BY EmptySeq
<1>2. ASSUME row = end PROVE Leads(row, end, <<>>, <<>>, a)
  <2> DEFINE h == [n \in 0 .. 0 |-> row]
  <2>1. h \in [0 .. 0 -> Rows] /\ h[0] = row
    BY <1>1
  <2> HIDE DEF h
  <2>2. History(h, row, end, <<>>, <<>>, a)
    BY <1>1, <1>2, <2>1 DEF History
  <2>3. QED
    BY <2>2 DEF Leads
<1>3. ASSUME Leads(row, end, <<>>, <<>>, a) PROVE row = end
  BY <1>1, <1>3 DEF Leads, History
<1>4. QED
  BY <1>2, <1>3

\* An event that is written with the row it tells of.
LEMMA EventAppended ==
  ASSUME NEW row, NEW end, NEW end2 \in Rows, NEW ch \in Seq(Events), NEW out \in Seq(Events),
         NEW a, NEW e \in Events, Leads(row, end, ch, out, a), end2 = Effect(end, e, a)
  PROVE  Leads(row, end2, ch, Append(out, e), a)
<1> DEFINE n == Len(ch) + Len(out)
           out2 == Append(out, e)
<1>1. Len(ch) \in Nat /\ Len(out) \in Nat
  BY LenProperties
<1>2. Len(out2) = Len(out) + 1 /\ out2[Len(out) + 1] = e /\ \A k \in 1 .. Len(out) : out2[k] = out[k]
  BY AppendProperties
<1>3. PICK h : History(h, row, end, ch, out, a)
  BY DEF Leads
<1> DEFINE g == [k \in 0 .. n + 1 |-> IF k <= n THEN h[k] ELSE end2]
<1>4. h \in [0 .. n -> Rows] /\ h[0] = row /\ h[n] = end
  BY <1>3 DEF History
<1>5. /\ g \in [0 .. n + 1 -> Rows] /\ g[n + 1] = end2
      /\ \A k \in 0 .. n : g[k] = h[k]
  BY <1>1, <1>4
<1> HIDE DEF g, out2
<1>6. ASSUME NEW k \in 1 .. n + 1
      PROVE  g[k] = Effect(g[k - 1], Waiting(ch, out2, k), a)
  <2>1. CASE k = n + 1
    <3>1. Waiting(ch, out2, k) = e
      BY <1>1, <1>2, <2>1 DEF Waiting
    <3>2. g[k - 1] = end
      BY <1>1, <1>4, <1>5, <2>1
    <3>3. QED
      BY <1>5, <2>1, <3>1, <3>2
  <2>2. CASE k \in 1 .. n
    <3>1. Waiting(ch, out2, k) = Waiting(ch, out, k)
      BY <1>1, <1>2, <2>2 DEF Waiting
    <3>2. g[k] = h[k] /\ g[k - 1] = h[k - 1]
      BY <1>1, <1>5, <2>2
    <3>3. h[k] = Effect(h[k - 1], Waiting(ch, out, k), a)
      BY <1>3, <2>2 DEF History
    <3>4. QED
      BY <3>1, <3>2, <3>3
  <2>3. QED
    BY <1>1, <2>1, <2>2
<1>7. Len(ch) + Len(out2) = n + 1 /\ 0 \in 0 .. n
  BY <1>1, <1>2
<1> HIDE DEF n
<1>8. History(g, row, end2, ch, out2, a)
  BY <1>4, <1>5, <1>6, <1>7 DEF History
<1>9. QED
  BY <1>8 DEF Leads, out2

\* The oldest event goes from a handler to the channel.
LEMMA EventPublished ==
  ASSUME NEW row, NEW end, NEW ch \in Seq(Events), NEW out \in Seq(Events), NEW a,
         1 \in 1 .. Len(out), Leads(row, end, ch, out, a)
  PROVE  Leads(row, end, Append(ch, out[1]), RemoveAt(out, 1), a)
<1> DEFINE ch2 == Append(ch, out[1])
           out2 == RemoveAt(out, 1)
<1>1. Len(ch) \in Nat /\ Len(out) \in Nat /\ out[1] \in Events
  BY LenProperties
<1>2. /\ Len(ch2) = Len(ch) + 1 /\ ch2[Len(ch) + 1] = out[1]
      /\ \A k \in 1 .. Len(ch) : ch2[k] = ch[k]
  BY <1>1, AppendProperties
<1>3. Len(out2) = Len(out) - 1 /\ \A k \in 1 .. Len(out) - 1 : out2[k] = out[k + 1]
  <2>1. /\ Len(out2) = Len(out) - 1
        /\ \A k \in 1 .. Len(out) - 1 : out2[k] = out[IF k < 1 THEN k ELSE k + 1]
    BY RemoveAtElements
  <2>2. QED
    BY <1>1, <2>1
<1> HIDE DEF ch2, out2
<1>4. Len(ch2) + Len(out2) = Len(ch) + Len(out)
  BY <1>1, <1>2, <1>3
<1>5. ASSUME NEW k \in 1 .. Len(ch) + Len(out)
      PROVE  Waiting(ch2, out2, k) = Waiting(ch, out, k)
  <2>1. CASE k <= Len(ch)
    BY <1>1, <1>2, <2>1 DEF Waiting
  <2>2. CASE k = Len(ch) + 1
    BY <1>1, <1>2, <2>2 DEF Waiting
  <2>3. CASE k > Len(ch) + 1
    <3>1. k - Len(ch2) \in 1 .. Len(out) - 1 /\ k - Len(ch2) + 1 = k - Len(ch)
      BY <1>1, <1>2, <2>3
    <3>2. QED
      BY <1>1, <1>2, <1>3, <2>3, <3>1 DEF Waiting
  <2>4. QED
    BY <1>1, <2>1, <2>2, <2>3
<1>6. PICK h : History(h, row, end, ch, out, a)
  BY DEF Leads
<1>7. History(h, row, end, ch2, out2, a)
  BY <1>4, <1>5, <1>6 DEF History
<1>8. QED
  BY <1>7 DEF Leads, ch2, out2

\* The page hears the oldest event of the channel.
LEMMA EventHeard ==
  ASSUME NEW row, NEW end, NEW ch \in Seq(Events), NEW out \in Seq(Events), NEW a,
         ch # <<>>, Leads(row, end, ch, out, a)
  PROVE  Leads(Effect(row, Head(ch), a), end, Tail(ch), out, a)
<1> DEFINE ch2 == Tail(ch)
           n == Len(ch) + Len(out)
<1>1. Len(ch) \in Nat /\ Len(out) \in Nat /\ Len(ch) >= 1
  BY LenProperties, EmptySeq
<1>2. Head(ch) = ch[1] /\ Len(ch2) = Len(ch) - 1 /\ \A k \in 1 .. Len(ch) - 1 : ch2[k] = ch[k + 1]
  BY HeadTailProperties
<1>3. PICK h : History(h, row, end, ch, out, a)
  BY DEF Leads
<1> DEFINE g == [k \in 0 .. n - 1 |-> h[k + 1]]
<1>4. h \in [0 .. n -> Rows] /\ h[0] = row /\ h[n] = end
  BY <1>3 DEF History
<1>5. g \in [0 .. n - 1 -> Rows] /\ \A k \in 0 .. n - 1 : g[k] = h[k + 1]
  BY <1>1, <1>4
<1> HIDE DEF g, ch2
<1>6. g[0] = Effect(row, Head(ch), a) /\ g[n - 1] = end
  <2>1. h[1] = Effect(h[0], Waiting(ch, out, 1), a)
    BY <1>1, <1>3 DEF History
  <2>2. Waiting(ch, out, 1) = Head(ch)
    BY <1>1, <1>2 DEF Waiting
  <2>3. QED
    BY <1>1, <1>4, <1>5, <2>1, <2>2
<1>7. ASSUME NEW k \in 1 .. n - 1
      PROVE  g[k] = Effect(g[k - 1], Waiting(ch2, out, k), a)
  <2>1. Waiting(ch2, out, k) = Waiting(ch, out, k + 1)
    <3>1. CASE k <= Len(ch) - 1
      BY <1>1, <1>2, <3>1 DEF Waiting
    <3>2. CASE k > Len(ch) - 1
      BY <1>1, <1>2, <3>2 DEF Waiting
    <3>3. QED
      BY <1>1, <3>1, <3>2
  <2>2. g[k] = h[k + 1] /\ g[k - 1] = h[k] /\ k + 1 \in 1 .. n /\ k + 1 - 1 = k
    BY <1>1, <1>5
  <2>3. h[k + 1] = Effect(h[k + 1 - 1], Waiting(ch, out, k + 1), a)
    BY <1>3, <2>2 DEF History
  <2>4. QED
    BY <2>1, <2>2, <2>3
<1>8. Len(ch2) + Len(out) = n - 1
  BY <1>1, <1>2
<1> HIDE DEF n
<1>9. History(g, Effect(row, Head(ch), a), end, ch2, out, a)
  BY <1>5, <1>6, <1>7, <1>8 DEF History
<1>10. QED
  BY <1>9 DEF Leads, ch2

-----------------------------------------------------------------------------
\* An event that locks or unlocks a row that is there.
Decides(row, e, a) ==
  e.attempt = a /\ row.status # "none" /\ e.type \in {"violation_locked", "attempt_unlocked"}

LEMMA EffectOnOpen ==
  ASSUME NEW row \in Rows, NEW e \in Events, NEW a
  PROVE  IF Decides(row, e, a)
         THEN Effect([row EXCEPT !.locked = FALSE], e, a) = Effect(row, e, a)
         ELSE Effect([row EXCEPT !.locked = FALSE], e, a) = [Effect(row, e, a) EXCEPT !.locked = FALSE]
<1> DEFINE open == [row EXCEPT !.locked = FALSE]
<1>1. open \in Rows /\ open.status = row.status /\ open.flags = row.flags /\ open.score = row.score
  BY DEF Rows
<1>2. CASE e.attempt # a
  BY <1>2 DEF Decides, Effect
<1>3. CASE e.attempt = a /\ row.status = "none"
  BY <1>1, <1>3 DEF Decides, Effect, RowAfter, RowAfterNoUnlock, Rows
<1>4. CASE e.attempt = a /\ row.status # "none" /\ e.type \in {"violation_locked", "attempt_unlocked"}
  BY <1>1, <1>4 DEF Decides, Effect, RowAfter, RowAfterNoUnlock, Rows
<1>5. CASE e.attempt = a /\ row.status # "none" /\ e.type \notin {"violation_locked", "attempt_unlocked"}
  BY <1>1, <1>5 DEF Decides, Effect, RowAfter, RowAfterNoUnlock, Rows
<1>6. QED
  BY <1>2, <1>3, <1>4, <1>5

\* A page that takes an attempt for open before it has heard so comes to show it
\* as it is, when it is open.
LEMMA TakenForOpen ==
  ASSUME NEW row, NEW end \in Rows, NEW ch \in Seq(Events), NEW out \in Seq(Events), NEW a,
         end.locked = FALSE, Leads(row, end, ch, out, a)
  PROVE  Leads([row EXCEPT !.locked = FALSE], end, ch, out, a)
<1> DEFINE n == Len(ch) + Len(out)
           e(k) == Waiting(ch, out, k)
<1>1. Len(ch) \in Nat /\ Len(out) \in Nat /\ \A k \in 1 .. n : e(k) \in Events
  <2>1. Len(ch) \in Nat /\ Len(out) \in Nat
    BY LenProperties
  <2>2. \A k \in 1 .. Len(ch) : ch[k] \in Events
    OBVIOUS
  <2>3. \A k \in 1 .. Len(out) : out[k] \in Events
    OBVIOUS
  <2>4. QED
    BY <2>1, <2>2, <2>3 DEF Waiting
<1>2. PICK h : History(h, row, end, ch, out, a)
  BY DEF Leads
<1>3. /\ h \in [0 .. n -> Rows] /\ h[0] = row /\ h[n] = end
      /\ \A k \in 1 .. n : h[k] = Effect(h[k - 1], e(k), a)
  BY <1>2 DEF History
<1> DEFINE Open(r) == [r EXCEPT !.locked = FALSE]
           decided(k) == \E m \in 1 .. k : Decides(h[m - 1], e(m), a)
           g == [k \in 0 .. n |-> IF decided(k) THEN h[k] ELSE Open(h[k])]
<1>4. \A r \in Rows : Open(r) \in Rows
  BY DEF Rows
<1>5. /\ g \in [0 .. n -> Rows]
      /\ \A k \in 0 .. n : g[k] = IF decided(k) THEN h[k] ELSE Open(h[k])
  BY <1>3, <1>4
<1> HIDE DEF g
<1>6. g[0] = Open(row)
  <2>1. ~decided(0) /\ 0 \in 0 .. n
    BY <1>1
  <2>2. QED
    BY <1>3, <1>5, <2>1
<1>7. g[n] = end
  <2>1. Open(end) = end
    BY DEF Rows
  <2>2. n \in 0 .. n
    BY <1>1
  <2>3. QED
    BY <1>3, <1>5, <2>1, <2>2
<1>8. ASSUME NEW k \in 1 .. n
      PROVE  g[k] = Effect(g[k - 1], e(k), a)
  <2>1. /\ k \in 0 .. n /\ k - 1 \in 0 .. n /\ e(k) \in Events /\ h[k - 1] \in Rows
        /\ h[k] = Effect(h[k - 1], e(k), a)
    BY <1>1, <1>3
  <2>2. decided(k) <=> decided(k - 1) \/ Decides(h[k - 1], e(k), a)
    BY <1>1
  <2> HIDE DEF decided
  <2>3. CASE decided(k - 1)
    BY <1>5, <2>1, <2>2, <2>3
  <2>4. CASE ~decided(k - 1)
    <3> DEFINE f == e(k)
               r == h[k - 1]
    <3>1. IF Decides(r, f, a) THEN Effect(Open(r), f, a) = Effect(r, f, a)
          ELSE Effect(Open(r), f, a) = Open(Effect(r, f, a))
      <4>1. f \in Events /\ r \in Rows
        BY <2>1
      <4> HIDE DEF f, r
      <4>2. QED
        BY <4>1, EffectOnOpen
    <3>2. g[k - 1] = Open(r) /\ h[k] = Effect(r, f, a)
      BY <1>5, <2>1, <2>4
    <3>3. g[k] = IF Decides(r, f, a) THEN h[k] ELSE Open(h[k])
      BY <1>5, <2>1, <2>2, <2>4
    <3> HIDE DEF f, r, Open
    <3>4. g[k] = Effect(g[k - 1], f, a)
      BY <3>1, <3>2, <3>3
    <3>5. QED
      BY <3>4 DEF f
  <2>5. QED
    BY <2>3, <2>4
<1> HIDE DEF n
<1>9. History(g, Open(row), end, ch, out, a)
  BY <1>5, <1>6, <1>7, <1>8 DEF History, n
<1>10. QED
  BY <1>9 DEF Leads
-----------------------------------------------------------------------------
LEMMA InitShows == Init => ShowInv
BY DEF Init, ShowInv, LockedIsTaken, WillShow, Unlisted, ClosedMonitor

\* A handler writes a row and the event that tells of it.
LEMMA WriteShows ==
  ASSUME IInv, ShowInv, NEW a \in Attempts, NEW row \in Rows, NEW e \in Events, e.attempt = a,
         attempt' = [attempt EXCEPT ![a] = row], outbox' = Append(outbox, e),
         UNCHANGED <<channel, monitor>>,
         row = RowAfter(attempt[a], e.type), row.locked => row.status # "none"
  PROVE  ShowInv'
<1>1. attempt \in [Attempts -> Rows] /\ channel \in Seq(Events) /\ outbox \in Seq(Events)
  BY DEF IInv, TypeOK
<1>2. attempt' \in [Attempts -> Rows] /\ \A b \in Attempts : attempt'[b] = Effect(attempt[b], e, b)
  BY <1>1 DEF Effect
<1>3. LockedIsTaken'
  BY <1>1 DEF ShowInv, LockedIsTaken
<1>4. ASSUME NEW b \in Attempts, Leads(monitor.rows[b], attempt[b], channel, outbox, b)
      PROVE  Leads(monitor.rows[b], attempt'[b], channel, outbox', b)
  BY <1>1, <1>2, <1>4, EventAppended
<1>5. WillShow'
  BY <1>4 DEF ShowInv, WillShow
<1>6. QED
  BY <1>3, <1>5 DEF ShowInv

LEMMA UnlockAttemptShows ==
  ASSUME IInv, ShowInv, NEW a \in Attempts, UnlockAttempt(a)
  PROVE  ShowInv'
<1>1. CASE attempt[a].locked
  <2> DEFINE e == Event("attempt_unlocked", a, "monitor")
             row == [attempt[a] EXCEPT !.locked = FALSE]
  <2>1. e \in Events /\ e.attempt = a /\ e.type = "attempt_unlocked"
    BY EventFits DEF Types, Event
  <2>2. attempt[a].status # "none" /\ attempt[a] \in Rows
    BY <1>1 DEF ShowInv, LockedIsTaken, IInv, TypeOK
  <2>3. row \in Rows /\ ~row.locked /\ row = RowAfter(attempt[a], e.type)
    BY <2>1, <2>2 DEF RowAfter, Rows
  <2>4. attempt' = [attempt EXCEPT ![a] = row] /\ outbox' = Append(outbox, e) /\ UNCHANGED <<channel, monitor>>
    BY <1>1 DEF UnlockAttempt
  <2> HIDE DEF e, row
  <2>5. QED
    BY <2>1, <2>3, <2>4, WriteShows
<1>2. CASE ~attempt[a].locked
  BY <1>2 DEF UnlockAttempt, ShowInv, LockedIsTaken, WillShow
<1>3. QED
  BY <1>1, <1>2

LEMMA PublishShows ==
  ASSUME IInv, ShowInv, NEW i \in DOMAIN outbox, NEW dropped \in BOOLEAN, Publish(i, dropped)
  PROVE  ShowInv'
<1>1. /\ outbox \in Seq(Events) /\ channel \in Seq(Events) /\ i \in 1 .. Len(outbox)
      /\ Len(outbox) \in Nat /\ monitor \in Pages
  BY LenProperties DEF IInv, TypeOK
<1>2. /\ monitor'.quiz = monitor.quiz /\ monitor'.rows = monitor.rows
      /\ monitor'.doubt = (monitor.doubt \/ (monitor.quiz # NoQuiz /\ (i > 1 \/ dropped)))
      /\ attempt' = attempt
  BY <1>1 DEF Publish, Pages
<1>3. LockedIsTaken'
  BY <1>2 DEF ShowInv, LockedIsTaken
<1>4. ASSUME monitor.quiz # NoQuiz, ~monitor'.doubt
      PROVE  WillShow'
  <2>0. ~monitor.doubt /\ ~(i > 1) /\ ~dropped
    BY <1>2, <1>4, Zenon
  <2>1. ~monitor.doubt /\ i = 1 /\ ~dropped
    BY <1>1, <2>0
  <2>2. channel' = Append(channel, outbox[1]) /\ outbox' = RemoveAt(outbox, 1) /\ 1 \in 1 .. Len(outbox)
    BY <1>1, <2>1 DEF Publish
  <2>3. ASSUME NEW a \in Attempts, Leads(monitor.rows[a], attempt[a], channel, outbox, a)
        PROVE  Leads(monitor.rows[a], attempt[a], channel', outbox', a)
    BY <1>1, <2>2, <2>3, EventPublished
  <2>4. QED
    BY <1>2, <1>4, <2>1, <2>3 DEF ShowInv, WillShow
<1>5. WillShow'
  BY <1>2, <1>4 DEF WillShow
<1>6. QED
  BY <1>3, <1>5 DEF ShowInv

LEMMA HandlersShow ==
  ASSUME IInv, ShowInv, Handlers
  PROVE  ShowInv'
<1> USE DEF Handlers
<1>0. \A a \in Attempts : attempt[a] \in Rows
  BY DEF IInv, TypeOK
<1>1. ASSUME NEW a \in Attempts, NEW row \in Rows, NEW type \in Types, Write(a, row, type),
             row = RowAfter(attempt[a], type), row.status # "none"
      PROVE  ShowInv'
  <2> DEFINE e == Event(type, a, "student")
  <2>1. e \in Events /\ e.attempt = a /\ e.type = type
    BY EventFits DEF Event
  <2>2. /\ attempt' = [attempt EXCEPT ![a] = row] /\ outbox' = Append(outbox, e)
        /\ UNCHANGED <<channel, monitor>>
    BY <1>1 DEF Write, pageVars
  <2> HIDE DEF e
  <2>3. QED
    BY <1>1, <2>1, <2>2, WriteShows
<1>2. ASSUME NEW a \in Attempts, StartAttempt(a)
      PROVE  ShowInv'
  <2> DEFINE row == [attempt[a] EXCEPT !.status = "in_progress"]
  <2>1. row \in Rows /\ row.status # "none" /\ row = RowAfter(attempt[a], "attempt_started")
    BY <1>0, <1>2 DEF Rows, StartAttempt, RowAfter, RowAfterNoUnlock
  <2>2. "attempt_started" \in Types /\ Write(a, row, "attempt_started")
    BY <1>2 DEF StartAttempt, Types
  <2> HIDE DEF row
  <2>3. QED
    BY <1>1, <2>1, <2>2
<1>3. ASSUME NEW a \in Attempts, NEW locks \in BOOLEAN, RecordViolation(a, locks)
      PROVE  ShowInv'
  <2> DEFINE row == [attempt[a] EXCEPT !.locked = locks, !.flags = @ + 1]
             type == IF locks THEN "violation_locked" ELSE "violation"
  <2>1. attempt[a].status = "in_progress" /\ ~attempt[a].locked /\ attempt[a].flags + 1 \in Nat
    <3>1. attempt[a].flags + 1 \in Nat
      BY <1>0 DEF Rows
    <3>2. QED
      BY <1>3, <3>1 DEF RecordViolation
  <2>2. row \in Rows /\ row.status # "none"
    BY <1>0, <2>1 DEF Rows
  <2>3. row = RowAfter(attempt[a], type)
    <3>1. CASE locks
      BY <1>0, <2>1, <3>1 DEF Rows, RowAfter, RowAfterNoUnlock
    <3>2. CASE ~locks
      BY <1>0, <2>1, <3>2 DEF Rows, RowAfter, RowAfterNoUnlock
    <3>3. QED
      BY <3>1, <3>2
  <2>4. type \in Types /\ Write(a, row, type)
    BY <1>3 DEF RecordViolation, Types
  <2> HIDE DEF row, type
  <2>5. QED
    BY <1>1, <2>2, <2>3, <2>4
<1>4. ASSUME NEW a \in Attempts, FinishAttempt(a)
      PROVE  ShowInv'
  <2> DEFINE row == [attempt[a] EXCEPT !.status = "finished", !.score = 1]
  <2>1. 1 \in 0..2
    OBVIOUS
  <2>2. row \in Rows /\ row.status # "none" /\ row = RowAfter(attempt[a], "attempt_submitted")
    BY <1>0, <1>4, <2>1 DEF Rows, FinishAttempt, RowAfter, RowAfterNoUnlock
  <2>3. "attempt_submitted" \in Types /\ Write(a, row, "attempt_submitted")
    BY <1>4 DEF FinishAttempt, Types
  <2> HIDE DEF row
  <2>4. QED
    BY <1>1, <2>2, <2>3
<1>5. ASSUME NEW a \in Attempts, Regrade(a)
      PROVE  ShowInv'
  <2> DEFINE row == [attempt[a] EXCEPT !.score = 2]
  <2>1. 2 \in 0..2
    OBVIOUS
  <2>2. row \in Rows /\ row.status # "none" /\ row = RowAfter(attempt[a], "attempt_regraded")
    BY <1>0, <1>5, <2>1 DEF Rows, Regrade, RowAfter, RowAfterNoUnlock
  <2>3. "attempt_regraded" \in Types /\ Write(a, row, "attempt_regraded")
    BY <1>5 DEF Regrade, Types
  <2> HIDE DEF row
  <2>4. QED
    BY <1>1, <2>2, <2>3
<1>6. QED
  BY <1>2, <1>3, <1>4, <1>5, UnlockAttemptShows, PublishShows

LEMMA RelayShows ==
  ASSUME IInv, ShowInv, Relay
  PROVE  ShowInv'
<1> DEFINE e == Head(channel)
<1>1. /\ channel \in Seq(Events) /\ outbox \in Seq(Events) /\ channel # <<>> /\ e \in Events
      /\ e.attempt \in Attempts /\ monitor \in Pages /\ channel' = Tail(channel)
      /\ UNCHANGED <<attempt, outbox>>
  <2>1. channel \in Seq(Events) /\ outbox \in Seq(Events) /\ monitor \in Pages
    BY DEF IInv, TypeOK
  <2>2. channel # <<>> /\ channel' = Tail(channel) /\ UNCHANGED <<attempt, outbox>>
    BY DEF Relay
  <2>3. e \in Events
    BY <2>1, <2>2, HeadTailProperties
  <2>4. QED
    BY <2>1, <2>2, <2>3 DEF Events
<1>2. LockedIsTaken'
  BY <1>1 DEF ShowInv, LockedIsTaken
<1>3. ASSUME monitor'.quiz # NoQuiz, ~monitor'.doubt
      PROVE  /\ monitor.quiz # NoQuiz /\ ~monitor.doubt /\ monitor'.quiz = monitor.quiz
             /\ \A a \in Attempts : QuizOf[a] = monitor.quiz =>
                  monitor'.rows[a] = Effect(monitor.rows[a], e, a)
  <2>1. monitor.quiz # NoQuiz
    BY <1>3 DEF Relay
  <2>2. CASE monitor.joined /\ QuizOf[e.attempt] \in rooms
    <3> DEFINE row == RowAfter(monitor.rows[e.attempt], e.type)
    <3>1. monitor' = [monitor EXCEPT !.rows[e.attempt] = row]
      BY <2>1, <2>2 DEF Relay
    <3> HIDE DEF row
    <3>2. /\ monitor'.quiz = monitor.quiz /\ monitor'.doubt = monitor.doubt
          /\ monitor'.rows = [monitor.rows EXCEPT ![e.attempt] = row]
      BY <1>1, <3>1 DEF Pages
    <3>3. monitor.rows \in [Attempts -> Rows]
      BY <1>1 DEF Pages
    <3> HIDE DEF e
    <3>4. \A a \in Attempts : monitor'.rows[a] = Effect(monitor.rows[a], e, a)
      BY <1>1, <3>2, <3>3 DEF Effect, row
    <3>5. QED
      BY <1>3, <2>1, <3>2, <3>4
  <2>3. CASE ~(monitor.joined /\ QuizOf[e.attempt] \in rooms)
    <3>1. monitor' = [monitor EXCEPT !.doubt = @ \/ QuizOf[e.attempt] = monitor.quiz]
      BY <2>1, <2>3 DEF Relay
    <3>2. /\ monitor'.quiz = monitor.quiz /\ monitor'.rows = monitor.rows
          /\ monitor'.doubt = (monitor.doubt \/ QuizOf[e.attempt] = monitor.quiz)
      BY <1>1, <3>1 DEF Pages
    <3>3. \A a \in Attempts : QuizOf[a] = monitor.quiz => e.attempt # a
      BY <1>3, <3>2
    <3>4. QED
      BY <1>3, <2>1, <3>2, <3>3 DEF Effect
  <2>4. QED
    BY <2>2, <2>3
<1>4. ASSUME NEW a \in Attempts, Leads(monitor.rows[a], attempt[a], channel, outbox, a)
      PROVE  Leads(Effect(monitor.rows[a], e, a), attempt[a], channel', outbox, a)
  BY <1>1, <1>4, EventHeard
<1> HIDE DEF e
<1>5. WillShow'
  BY <1>1, <1>3, <1>4 DEF ShowInv, WillShow
<1>6. QED
  BY <1>2, <1>5 DEF ShowInv

\* Whoever comes and goes, the rows of the page stay.
LEMMA RealtimeShows ==
  ASSUME IInv, ShowInv, Realtime
  PROVE  ShowInv'
<1>0. monitor \in Pages
  BY DEF IInv, TypeOK
<1>1. ASSUME UNCHANGED <<attempt, outbox, channel>>,
             UNCHANGED <<monitor.quiz, monitor.rows, monitor.doubt>>
      PROVE  ShowInv'
  BY <1>1 DEF ShowInv, LockedIsTaken, WillShow
<1>2. ASSUME NEW t \in Tabs, NEW a \in Attempts, OpenPage(t, a) \/ JoinAttempt(t, a)
      PROVE  ShowInv'
  <2>1. UNCHANGED <<monitor.quiz, monitor.rows, monitor.doubt>>
    BY <1>0, <1>2 DEF OpenPage, JoinAttempt, PresentAfter, Pages, pageVars
  <2>2. QED
    BY <1>1, <1>2, <2>1 DEF OpenPage, JoinAttempt, serverVars
<1>3. ASSUME NEW t \in Tabs, Connect(t) \/ LeaveAttempt(t) \/ Disconnect(t)
      PROVE  ShowInv'
  <2>1. UNCHANGED <<monitor.quiz, monitor.rows, monitor.doubt>>
    BY <1>0, <1>3 DEF Connect, LeaveAttempt, Disconnect, Depart, PresentAfter, Pages, pageVars
  <2>2. QED
    BY <1>1, <1>3, <2>1 DEF Connect, LeaveAttempt, Disconnect, Depart, serverVars
<1>4. CASE Restart
  <2>1. /\ monitor'.quiz = monitor.quiz /\ monitor'.rows = monitor.rows
        /\ monitor'.doubt = (monitor.doubt \/ (monitor.quiz # NoQuiz /\ channel # <<>>))
    BY <1>0, <1>4 DEF Restart, Pages
  <2>2. channel' = <<>> /\ UNCHANGED <<attempt, outbox>>
    BY <1>4 DEF Restart
  <2>3. QED
    BY <2>1, <2>2 DEF ShowInv, LockedIsTaken, WillShow
<1>5. QED
  BY <1>2, <1>3, <1>4, RelayShows DEF Realtime

LEMMA OpenMonitorShows ==
  ASSUME IInv, ShowInv, NEW q \in Quizzes, OpenMonitor(q)
  PROVE  ShowInv'
<1>1. /\ monitor'.quiz = q /\ monitor'.doubt = (outbox # <<>> \/ channel # <<>>)
      /\ \A a \in Attempts : QuizOf[a] = q => monitor'.rows[a] = attempt[a]
      /\ UNCHANGED <<attempt, outbox, channel>>
  BY DEF OpenMonitor, ListAttemptsForQuiz, serverVars
<1>2. \A a \in Attempts : attempt[a] \in Rows
  BY DEF IInv, TypeOK
<1>3. ASSUME NEW a \in Attempts
      PROVE  Leads(attempt[a], attempt[a], <<>>, <<>>, a)
  BY <1>2, NothingWaits
<1>4. QED
  BY <1>1, <1>3 DEF ShowInv, LockedIsTaken, WillShow

\* The answer of an unlock, which may come before its event, and after others.
LEMMA UnlockAnswerShows ==
  ASSUME IInv, ShowInv, UnlockAnswerArrives
  PROVE  ShowInv'
<1> DEFINE u == unlock.attempt
           open == [monitor.rows[u] EXCEPT !.locked = FALSE]
<1>1. /\ u \in Attempts /\ monitor \in Pages /\ monitor.rows \in [Attempts -> Rows]
      /\ attempt[u] \in Rows /\ UNCHANGED <<attempt, outbox, channel>>
      /\ outbox \in Seq(Events) /\ channel \in Seq(Events)
  BY DEF UnlockAnswerArrives, IInv, TypeOK, UnlockFits, Pages, serverVars
<1>2. /\ monitor'.quiz = monitor.quiz
      /\ monitor'.doubt = (monitor.doubt \/ attempt[u].locked)
      /\ monitor'.rows = [monitor.rows EXCEPT ![u] = open]
  BY <1>1 DEF UnlockAnswerArrives, Pages
<1>3. ASSUME ~attempt[u].locked, Leads(monitor.rows[u], attempt[u], channel, outbox, u)
      PROVE  Leads(open, attempt[u], channel, outbox, u)
  <2>1. attempt[u].locked = FALSE
    BY <1>1, <1>3 DEF Rows
  <2>2. QED
    BY <1>1, <1>3, <2>1, TakenForOpen
<1> HIDE DEF u, open
<1>4. QED
  BY <1>1, <1>2, <1>3 DEF ShowInv, LockedIsTaken, WillShow

LEMMA TeacherShows ==
  ASSUME IInv, ShowInv, Teacher
  PROVE  ShowInv'
<1>0. monitor \in Pages
  BY DEF IInv, TypeOK
<1>1. CASE JoinQuiz
  BY <1>0, <1>1 DEF JoinQuiz, Pages, ShowInv, LockedIsTaken, WillShow, serverVars
<1>2. CASE CloseMonitor
  BY <1>2 DEF CloseMonitor, ClosedMonitor, ShowInv, LockedIsTaken, WillShow, serverVars
<1>3. CASE \/ UnlockRefused \/ LoseUnlock \/ StoryArrives \/ CloseStory
           \/ \E a \in Attempts : HandleUnlock(a) \/ OpenStory(a)
  <2>1. UNCHANGED <<attempt, outbox, channel, monitor>>
    BY <1>3 DEF UnlockRefused, LoseUnlock, StoryArrives, CloseStory, HandleUnlock, OpenStory, serverVars
  <2>2. QED
    BY <2>1 DEF ShowInv, LockedIsTaken, WillShow
<1>4. QED
  BY <1>1, <1>2, <1>3, OpenMonitorShows, UnlockAnswerShows DEF Teacher

\* A monitor that has heard every event since it was loaded shows each attempt as
\* it is, with any number of attempts, quizzes and events on their way: whatever is
\* relayed before the answer of an unlock, or after it, the rows it ends with are
\* the tables'.
THEOREM MonitorIsCurrent == Spec => []MonitorShowsAttempts
<1>1. IInv /\ ShowInv /\ [Next]_vars => ShowInv'
  <2>1. ASSUME ShowInv, UNCHANGED vars PROVE ShowInv'
    BY <2>1 DEF vars, serverVars, pageVars, ShowInv, LockedIsTaken, WillShow
  <2>2. QED
    BY <2>1, HandlersShow, RealtimeShows, TeacherShows DEF Next
<1>2. IInv /\ ShowInv => MonitorShowsAttempts
  <2> SUFFICES ASSUME IInv, ShowInv, monitor.joined, ~monitor.doubt, outbox = <<>>, channel = <<>>,
                      NEW a \in Attempts, QuizOf[a] = monitor.quiz
               PROVE  monitor.rows[a] = attempt[a]
    BY DEF MonitorShowsAttempts
  <2>1. monitor.quiz # NoQuiz /\ monitor.rows[a] \in Rows /\ attempt[a] \in Rows
    BY DEF IInv, TypeOK, PageFits, Pages
  <2>2. Leads(monitor.rows[a], attempt[a], <<>>, <<>>, a)
    BY <2>1 DEF ShowInv, WillShow
  <2>3. QED
    BY <2>1, <2>2, NothingWaits
<1>3. QED
  BY <1>1, <1>2, InitShows, IInvariant, PTL DEF Spec
=============================================================================

--------------------------- MODULE AttemptLifecycle ---------------------------
(***************************************************************************)
(* What the exam component promises of an attempt, whatever its handlers   *)
(* do in between: a student has one open attempt at a time, an attempt     *)
(* closes for good, and by then every question of its paper is marked.     *)
(***************************************************************************)
CONSTANTS Students, Attempts, Questions, Nobody

VARIABLES phase,    \* "unused", "open" or "closed"
          owner,    \* the student the attempt belongs to
          paper,    \* the questions it was given
          marked    \* the questions whose answer carries points

vars == <<phase, owner, paper, marked>>

Init ==
  /\ phase = [a \in Attempts |-> "unused"]
  /\ owner = [a \in Attempts |-> Nobody]
  /\ paper = [a \in Attempts |-> {}]
  /\ marked = [a \in Attempts |-> {}]

Open(a, s, P) ==
  /\ phase[a] = "unused"
  /\ \A b \in Attempts : phase[b] = "open" => owner[b] # s
  /\ phase' = [phase EXCEPT ![a] = "open"]
  /\ owner' = [owner EXCEPT ![a] = s]
  /\ paper' = [paper EXCEPT ![a] = P]
  /\ UNCHANGED marked

\* A mark can be given before the attempt closes: a teacher may grade an
\* answer while the student is still working.
Mark(a, q) ==
  /\ phase[a] # "unused"
  /\ q \in paper[a]
  /\ marked' = [marked EXCEPT ![a] = @ \union {q}]
  /\ UNCHANGED <<phase, owner, paper>>

Close(a) ==
  /\ phase[a] = "open"
  /\ marked[a] = paper[a]
  /\ phase' = [phase EXCEPT ![a] = "closed"]
  /\ UNCHANGED <<owner, paper, marked>>

Next ==
  \E a \in Attempts :
    \/ \E s \in Students, P \in SUBSET Questions : Open(a, s, P)
    \/ \E q \in Questions : Mark(a, q)
    \/ Close(a)

Spec == Init /\ [][Next]_vars
=============================================================================

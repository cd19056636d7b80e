---------------------------- MODULE MCExamAttempts ----------------------------
(* Instances of ExamAttempts for TLC. *)
EXTENDS ExamAttempts, TLC

CONSTANTS r1, r2, r3, a1, a2, a3, q1, q2, s1, s2

MCAuto == [q \in Questions |-> "auto"]
MCMixed == [q \in Questions |-> IF q = q1 THEN "auto" ELSE "manual"]
MCCodeAndEssay == [q \in Questions |-> IF q = q1 THEN "code" ELSE "manual"]
MCEssay == [q \in Questions |-> "manual"]
MCOnePoint == [q \in Questions |-> 1]

Symmetry == Permutations(Requests) \union Permutations(Attempts)
=============================================================================

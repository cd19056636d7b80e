------------------------------ MODULE MCExamPage ------------------------------
(* Instances of ExamPage for TLC. *)
EXTENDS ExamPage, TLC

CONSTANTS text, choice, r1
=============================================================================

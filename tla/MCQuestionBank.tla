---------------------------- MODULE MCQuestionBank ----------------------------
(* Instances of QuestionBank for TLC. *)
EXTENDS QuestionBank
=============================================================================

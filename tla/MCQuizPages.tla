------------------------------ MODULE MCQuizPages ------------------------------
(* Instances of QuizPages for TLC. *)
EXTENDS QuizPages

CONSTANT c1
================================================================================

----------------------------- MODULE MCLiveMonitor -----------------------------
(* Instances of LiveMonitor for TLC. *)
EXTENDS LiveMonitor, TLC

CONSTANTS a1, q1, t1

OneQuiz == [a \in {a1} |-> q1]
=============================================================================

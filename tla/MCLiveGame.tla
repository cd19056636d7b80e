------------------------------ MODULE MCLiveGame ------------------------------
(* Instances of LiveGame for TLC. *)
EXTENDS LiveGame, TLC

CONSTANTS p1, p2, p3, t1, t2, t3, h1, h2

Symmetry == Permutations(Players) \union Permutations(PlayerTasks)
=============================================================================

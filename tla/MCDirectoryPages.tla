---------------------------- MODULE MCDirectoryPages ----------------------------
(* Instances of DirectoryPages for TLC. *)
EXTENDS DirectoryPages

MCLimits == [k \in {"ip", "email", "register", "import"} |-> IF k = "ip" THEN 2 ELSE 1]
MCFiles == {<<3, 0, 3>>}
=============================================================================

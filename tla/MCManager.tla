----------------------------- MODULE MCManager -----------------------------
(* Manager on small instances; requests and commands are interchangeable.   *)
EXTENDS Manager, TLC

Symmetry == Permutations(Requests) \cup Permutations(Commands)
=============================================================================

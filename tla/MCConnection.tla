---------------------------- MODULE MCConnection ----------------------------
(* Connection on small instances; the handlers are interchangeable.         *)
EXTENDS Connection, TLC

Symmetry == Permutations(Handlers)
=============================================================================

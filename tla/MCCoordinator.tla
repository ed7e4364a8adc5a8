--------------------------- MODULE MCCoordinator ---------------------------
(* Coordinator on small instances: the first free number is always taken,   *)
(* so connections are not interchangeable.                                  *)
EXTENDS Coordinator
=============================================================================

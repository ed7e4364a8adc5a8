------------------------------ MODULE MCUsage ------------------------------
(* Usage with a few requests, changes and UIs.                              *)
EXTENDS Usage
=============================================================================

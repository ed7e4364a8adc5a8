------------------------------ MODULE MCProxy ------------------------------
(* Proxy on responses of a few frames.                                      *)
EXTENDS Proxy
=============================================================================

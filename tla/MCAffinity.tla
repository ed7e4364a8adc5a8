----------------------------- MODULE MCAffinity -----------------------------
(* Affinity on small instances.                                             *)
EXTENDS Affinity, TLC

CONSTANTS i1, k1, c1, r1

Item(kind, id, call, text) == [kind |-> kind, id |-> id, call |-> call, text |-> text]

\* A response with a message and a call.
MCAnswers == {[id |-> r1, output |-> {Item("assistant", i1, None, c1),
                                      Item("function_call", None, k1, None)}]}

\* New input with an id, and a continuation by response id with a call's result.
MCBodies == {[prev |-> None, items |-> {Item("user", i1, None, None)}],
             [prev |-> r1, items |-> {Item("function_call_output", None, k1, None)}]}

Symmetry == Permutations(Threads) \cup Permutations(Accounts)
              \cup Permutations(Slots) \cup Permutations(Handles) \cup Permutations(Requests)
=============================================================================

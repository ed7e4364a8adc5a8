----------------------------- MODULE Ownership -----------------------------
(***************************************************************************)
(* What the switcher promises about a persistent conversation, whatever    *)
(* process serves it and wherever a process dies:                          *)
(*   - it belongs to the account it was started with, for good;            *)
(*   - a turn reaches upstream at most once, as that account, and leans    *)
(*     only on ids the conversation owns;                                  *)
(*   - an id, once owned, is never owned by another conversation;          *)
(*   - a turn that did not end well closes the conversation for good.      *)
(***************************************************************************)
CONSTANTS Threads, Accounts, Keys, NoAccount

VARIABLES stage,     \* of a conversation
          account,   \* the account it belongs to
          owned,     \* the ids it owns
          turn,      \* how far its turn came
          upstream   \* the last request upstream received for it

vars == <<stage, account, owned, turn, upstream>>

Nothing == [account |-> NoAccount, refs |-> {}]

Init == /\ stage = [t \in Threads |-> "none"]
        /\ account = [t \in Threads |-> NoAccount]
        /\ owned = [t \in Threads |-> {}]
        /\ turn = [t \in Threads |-> "none"]
        /\ upstream = [t \in Threads |-> Nothing]

Foreign(t) == UNION {owned[u] : u \in Threads \ {t}}

\* The conversation gains ids, none of them another's.
Gain(t) == \E keys \in SUBSET (Keys \ Foreign(t)) :
             owned' = [owned EXCEPT ![t] = @ \cup keys]

Start(t, a) == /\ stage[t] = "none"
               /\ stage' = [stage EXCEPT ![t] = "idle"]
               /\ account' = [account EXCEPT ![t] = a]
               /\ UNCHANGED <<owned, turn, upstream>>

Ask(t) == /\ stage[t] = "idle" /\ turn[t] = "none"
          /\ stage' = [stage EXCEPT ![t] = "running"]
          /\ turn' = [turn EXCEPT ![t] = "asked"]
          /\ Gain(t)
          /\ UNCHANGED <<account, upstream>>

\* A process on its way out may still send the turn of a conversation that
\* another process has closed meanwhile.
Send(t) == /\ stage[t] \in {"running", "closed"} /\ turn[t] = "asked"
           /\ turn' = [turn EXCEPT ![t] = "sent"]
           /\ \E refs \in SUBSET owned[t] :
                upstream' = [upstream EXCEPT ![t] = [account |-> account[t], refs |-> refs]]
           /\ UNCHANGED <<stage, account, owned>>

Answer(t) == /\ stage[t] = "running" /\ turn[t] = "sent"
             /\ stage' = [stage EXCEPT ![t] = "idle"]
             /\ turn' = [turn EXCEPT ![t] = "none"]
             /\ Gain(t)
             /\ UNCHANGED <<account, upstream>>

\* Conversations close; turns are lost; or both.
Break(T, L) == /\ \A t \in T : stage[t] # "none"
               /\ stage' = [t \in Threads |-> IF t \in T THEN "closed" ELSE stage[t]]
               /\ turn' = [t \in Threads |-> IF t \in L THEN "none" ELSE turn[t]]
               /\ UNCHANGED <<account, owned, upstream>>

Next == \/ \E t \in Threads : \/ \E a \in Accounts : Start(t, a)
                              \/ Ask(t)
                              \/ Send(t)
                              \/ Answer(t)
        \/ \E T, L \in SUBSET Threads : Break(T, L)

Spec == Init /\ [][Next]_vars
=============================================================================

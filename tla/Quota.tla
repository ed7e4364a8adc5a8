------------------------------- MODULE Quota -------------------------------
(***************************************************************************)
(* Account choice at a request boundary: probequota.go.                    *)
(*                                                                         *)
(* A quota observation of a slot is abstracted to a level:                 *)
(*   Unknown   no usable observation (stale, future-dated, missing, or a   *)
(*             state other than "ok"/"limit_reached");                     *)
(*   0         exhausted: limit reached, not allowed, not registered, or   *)
(*             at or below the 5% reserve;                                 *)
(*   1..       remaining quota above the reserve, in order.                *)
(* Slots are numbered in the order of accountslot.All().                   *)
(***************************************************************************)
EXTENDS Integers

CONSTANTS Slots,         \* the account slots, a set of positive naturals
          MaxRemaining   \* the highest quota level told apart

ASSUME QuotaAssumption == /\ Slots \subseteq Nat \ {0}
                          /\ MaxRemaining \in Nat

NoSlot  == 0
Unknown == -1
Levels  == -1..MaxRemaining

Eligible(q, S) == {s \in S : q[s] > 0}

\* The loop keeps the first slot with the most remaining quota (strict >).
Best(q, S, s) == /\ s \in Eligible(q, S)
                 /\ \A t \in Eligible(q, S) : \/ q[t] < q[s]
                                              \/ q[t] = q[s] /\ s <= t

\* The chosen slot, or NoSlot when the request must be refused.  S holds the
\* slots whose samples are passed in.  An account in use is kept while it is
\* above the reserve, left only when it is known to be exhausted, and blocks
\* the request when nothing usable is known about it.
probeQuotaSelection(current, q, S) ==
  IF current # NoSlot /\ current \in Eligible(q, S) THEN current
  ELSE IF current # NoSlot /\ ~(current \in S /\ q[current] = 0) THEN NoSlot
  ELSE IF \E s \in S : Best(q, S, s) THEN CHOOSE s \in S : Best(q, S, s)
  ELSE NoSlot

\* Variant: only what is known of the quota counts.
probeQuotaAlternativeAny(q, tried) == probeQuotaSelection(NoSlot, q, Slots)
\* Every account already attempted for this CLI request is left out.
probeQuotaAlternative(q, tried) == probeQuotaSelection(NoSlot, q, Slots \ tried)
=============================================================================

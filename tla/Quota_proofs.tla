---------------------------- MODULE Quota_proofs ----------------------------
(***************************************************************************)
(* What the loops of probequota.go compute, for any slots and any levels   *)
(* of quota.                                                               *)
(***************************************************************************)
EXTENDS Quota, WellFoundedInduction, TLAPS

\* Some number of a set of naturals is the least.
LEMMA Least ==
  ASSUME NEW T \in SUBSET Nat, T # {}
  PROVE  \E x \in T : \A y \in T : x <= y
<1> DEFINE R == OpToRel(<, Nat)
<1>1. \A x, y \in Nat : y < x => <<y, x>> \in R
  BY DEF OpToRel
<1>2. IsWellFoundedOn(R, Nat)
  BY NatLessThanWellFounded
<1> HIDE DEF R
<1>3. PICK x \in T : \A y \in T : ~(<<y, x>> \in R)
  BY <1>2, WFMin
<1>4. ASSUME NEW y \in T PROVE x <= y
  <2>1. x \in Nat /\ y \in Nat /\ ~(y < x)
    BY <1>1, <1>3
  <2> QED
    BY <2>1
<1> QED
  BY <1>4

\* The loop ends with a slot unless none is above the reserve.
LEMMA BestExists ==
  ASSUME NEW q \in [Slots -> Levels], NEW S \in SUBSET Slots, Eligible(q, S) # {}
  PROVE  \E s \in S : Best(q, S, s)
<1> DEFINE gaps == {MaxRemaining - q[s] : s \in Eligible(q, S)}
<1>1. \A s \in Eligible(q, S) : s \in S /\ s \in Nat /\ q[s] \in Int /\ q[s] <= MaxRemaining
  BY QuotaAssumption DEF Eligible, Levels
<1>2. gaps \in SUBSET Nat /\ gaps # {}
  BY <1>1, QuotaAssumption
<1>3. PICK gap \in gaps : \A g \in gaps : gap <= g
  BY <1>2, Least
<1>4. PICK high \in Eligible(q, S) : gap = MaxRemaining - q[high]
  BY <1>3
<1>5. \A t \in Eligible(q, S) : q[t] <= q[high]
  <2>1. TAKE t \in Eligible(q, S)
  <2>2. MaxRemaining - q[high] <= MaxRemaining - q[t]
    BY <1>3, <1>4
  <2> QED
    BY <1>1, <2>2, QuotaAssumption
<1> DEFINE highest == {s \in Eligible(q, S) : q[s] = q[high]}
<1>6. highest \in SUBSET Nat /\ highest # {}
  BY <1>1
<1>7. PICK s \in highest : \A t \in highest : s <= t
  BY <1>6, Least
<1>8. Best(q, S, s)
  BY <1>1, <1>5, <1>7 DEF Best
<1> QED
  BY <1>1, <1>7, <1>8

\* What is chosen for a request that is not bound to an account yet is the lowest
\* slot with the most quota; it is refused only if no slot is above the reserve.
THEOREM InitialSelection ==
  ASSUME NEW q \in [Slots -> Levels], NEW S \in SUBSET Slots
  PROVE  /\ probeQuotaSelection(NoSlot, q, S) = NoSlot <=> Eligible(q, S) = {}
         /\ probeQuotaSelection(NoSlot, q, S) # NoSlot
              => Best(q, S, probeQuotaSelection(NoSlot, q, S))
<1>1. NoSlot \notin S
  BY QuotaAssumption DEF NoSlot
<1>2. CASE Eligible(q, S) = {}
  <2>1. ~\E s \in S : Best(q, S, s)
    BY <1>2 DEF Best
  <2> QED
    BY <1>2, <2>1 DEF probeQuotaSelection
<1>3. CASE Eligible(q, S) # {}
  <2>1. \E s \in S : Best(q, S, s)
    BY <1>3, BestExists
  <2>2. probeQuotaSelection(NoSlot, q, S) = CHOOSE s \in S : Best(q, S, s)
    BY <2>1 DEF probeQuotaSelection
  <2>3. (CHOOSE s \in S : Best(q, S, s)) \in S /\ Best(q, S, CHOOSE s \in S : Best(q, S, s))
    BY <2>1
  <2> QED
    BY <1>1, <1>3, <2>2, <2>3
<1> QED
  BY <1>2, <1>3

\* At most one slot is best: the CHOOSE of probeQuotaSelection is what the loop finds.
LEMMA BestUnique ==
  ASSUME NEW q \in [Slots -> Levels], NEW S \in SUBSET Slots,
         NEW s \in S, NEW t \in S, Best(q, S, s), Best(q, S, t)
  PROVE  s = t
<1>1. s \in Nat /\ t \in Nat /\ q[s] \in Int /\ q[t] \in Int
  BY QuotaAssumption DEF Levels
<1> QED
  BY <1>1 DEF Best

\* An account in use is left only if it is known to be exhausted, and only for one
\* above the reserve: then for the best of the others.
THEOREM SelectionLeaves ==
  ASSUME NEW q \in [Slots -> Levels], NEW S \in SUBSET Slots, NEW current \in Slots,
         probeQuotaSelection(current, q, S) # current,
         probeQuotaSelection(current, q, S) # NoSlot
  PROVE  /\ current \in S /\ q[current] = 0
         /\ Best(q, S \ {current}, probeQuotaSelection(current, q, S))
<1>1. current # NoSlot /\ NoSlot \notin S
  BY QuotaAssumption DEF NoSlot
<1>2. /\ current \in S /\ q[current] = 0 /\ \E s \in S : Best(q, S, s)
      /\ probeQuotaSelection(current, q, S) = CHOOSE s \in S : Best(q, S, s)
  BY <1>1 DEF probeQuotaSelection
<1>3. PICK s \in S : s = probeQuotaSelection(current, q, S) /\ Best(q, S, s)
  BY <1>2
<1>4. Eligible(q, S \ {current}) = Eligible(q, S)
  BY <1>2 DEF Eligible
<1> QED
  BY <1>2, <1>3, <1>4 DEF Best

\* A failover never returns to an account tried for this request, and is refused only
\* when none that is left is above the reserve.
THEOREM AlternativeUntried ==
  ASSUME NEW q \in [Slots -> Levels], NEW tried \in SUBSET Slots
  PROVE  /\ probeQuotaAlternative(q, tried) \notin tried
         /\ probeQuotaAlternative(q, tried) = NoSlot
              <=> \A s \in Slots \ tried : q[s] <= 0
<1> DEFINE S == Slots \ tried
           x == probeQuotaSelection(NoSlot, q, S)
<1>1. S \in SUBSET Slots /\ NoSlot \notin tried
  BY QuotaAssumption DEF NoSlot
<1>2. (x = NoSlot <=> Eligible(q, S) = {}) /\ (x # NoSlot => Best(q, S, x))
  BY <1>1, InitialSelection
<1>3. Eligible(q, S) = {} <=> \A s \in S : q[s] <= 0
  <2>1. \A s \in S : q[s] \in Int
    BY QuotaAssumption DEF Levels
  <2> QED
    BY <2>1 DEF Eligible
<1>4. x # NoSlot => x \in S
  BY <1>2 DEF Best, Eligible
<1> QED
  BY <1>1, <1>2, <1>3, <1>4 DEF probeQuotaAlternative
=============================================================================

------------------------- MODULE Coordinator_proofs -------------------------
(***************************************************************************)
(* The safety of Coordinator, for any limit and all bounds: shutdowns and  *)
(* deletions in two phases, the shared lease, homes, and the primary.      *)
(***************************************************************************)
EXTENDS Coordinator, FiniteSetTheorems, WellFoundedInduction, TLAPS

-----------------------------------------------------------------------------
(* Queues.                                                                 *)

\* What was in a queue keeps its place when more follows.
LEMMA Grow ==
  ASSUME NEW S, NEW s \in Seq(S), NEW more \in Seq(S)
  PROVE  /\ s \o more \in Seq(S) /\ DOMAIN s = 1..Len(s) /\ DOMAIN more = 1..Len(more)
         /\ Len(s) \in Nat /\ Len(more) \in Nat
         /\ DOMAIN (s \o more) = 1..(Len(s) + Len(more)) /\ Len(s \o more) = Len(s) + Len(more)
         /\ \A k \in DOMAIN s : (s \o more)[k] = s[k]
         /\ \A k \in DOMAIN (s \o more) : k \notin DOMAIN s =>
              k - Len(s) \in DOMAIN more /\ (s \o more)[k] = more[k - Len(s)]
OBVIOUS

LEMMA Extend ==
  ASSUME NEW S, NEW s \in Seq(S), NEW e \in S
  PROVE  /\ Append(s, e) \in Seq(S) /\ DOMAIN s = 1..Len(s) /\ Len(s) \in Nat
         /\ DOMAIN Append(s, e) = 1..(Len(s) + 1) /\ Len(Append(s, e)) = Len(s) + 1
         /\ \A k \in DOMAIN s : Append(s, e)[k] = s[k]
         /\ Append(s, e)[Len(s) + 1] = e
OBVIOUS

LEMMA Shrink ==
  ASSUME NEW S, NEW s \in Seq(S), s # <<>>
  PROVE  /\ Tail(s) \in Seq(S) /\ Head(s) \in S /\ Head(s) = s[1] /\ 1 \in DOMAIN s
         /\ DOMAIN s = 1..Len(s) /\ Len(s) \in Nat \ {0}
         /\ DOMAIN Tail(s) = 1..(Len(s) - 1) /\ Len(Tail(s)) = Len(s) - 1
         /\ \A k \in DOMAIN Tail(s) : k + 1 \in DOMAIN s /\ Tail(s)[k] = s[k + 1]
         /\ \A k \in DOMAIN s : k # 1 => k - 1 \in DOMAIN Tail(s) /\ Tail(s)[k - 1] = s[k]
OBVIOUS

LEMMA Places ==
  ASSUME NEW S, NEW s \in Seq(S)
  PROVE  /\ DOMAIN s = 1..Len(s) /\ Len(s) \in Nat /\ \A k \in DOMAIN s : s[k] \in S
         /\ s = <<>> <=> Len(s) = 0
OBVIOUS

LEMMA IdsAre ==
  /\ Ids \subseteq Nat \ {0} /\ 1 \in Ids /\ NoId \notin Ids /\ IsFiniteSet(Ids)
<1>1. Ids \subseteq Nat \ {0} /\ 1 \in Ids /\ NoId \notin Ids
  BY CoordinatorAssumption DEF Ids, NoId
<1>2. IsFiniteSet(Ids)
  BY CoordinatorAssumption, FS_Interval DEF Ids
<1> QED
  BY <1>1, <1>2

\* First chooses a member; it is all that is used of it.
LEMMA FirstIn ==
  ASSUME NEW S \in SUBSET Ids, S # {}
  PROVE  First(S) \in S
<1>1. S \subseteq Nat
  BY IdsAre
<1> DEFINE R == OpToRel(<, Nat)
<1>2. \A i, j \in Nat : j < i => <<j, i>> \in R
  BY DEF OpToRel
<1>3. IsWellFoundedOn(R, Nat)
  BY NatLessThanWellFounded
<1> HIDE DEF R
<1>4. PICK i \in S : \A j \in S : ~(<<j, i>> \in R)
  BY <1>1, <1>3, WFMin, Zenon
<1>5. \A j \in S : i <= j
  <2> TAKE j \in S
  <2>1. i \in Nat /\ j \in Nat
    BY <1>1
  <2>2. ~(j < i)
    BY <1>2, <1>4, <2>1
  <2> QED
    BY <2>1, <2>2
<1> QED
  BY <1>5 DEF First


-----------------------------------------------------------------------------
(* The shared lease.                                                       *)

Busy == {i \in Ids : proc[i].busy}

LEMMA BusyFinite ==
  /\ IsFiniteSet(Busy) /\ Cardinality(Busy) \in Nat
  /\ \A i \in Busy : Cardinality(Busy) # 0
<1>1. IsFiniteSet(Busy)
  BY IdsAre, FS_Subset DEF Busy
<1> QED
  BY <1>1, FS_CardinalityType, FS_EmptySet

LEMMA TurnsCounted ==
  ASSUME TypeOK, TurnsExclusive, NEW i \in Ids, proc[i].busy
  PROVE  turns \in Nat \ {0} /\ lease = "turns"
<1>1. turns = Cardinality(Busy) /\ i \in Busy
  BY DEF TurnsExclusive, Busy
<1> QED
  BY <1>1, BusyFinite DEF TurnsExclusive, TypeOK

\* Nothing that matters to the lease happens.
LEMMA TurnsKept ==
  ASSUME TurnsExclusive, UNCHANGED turns, \A i \in Ids : proc'[i].busy = proc[i].busy,
         lease' = lease \/ (lease # "turns" /\ lease' # "turns")
  PROVE  TurnsExclusive'
<1>1. {i \in Ids : proc'[i].busy} = {i \in Ids : proc[i].busy}
  OBVIOUS
<1> QED
  BY <1>1 DEF TurnsExclusive

LEMMA TurnsBegun ==
  ASSUME TypeOK, TurnsExclusive, NEW i \in Ids, ~proc[i].busy, beginTurn,
         proc'[i].busy, \A j \in Ids \ {i} : proc'[j].busy = proc[j].busy
  PROVE  TurnsExclusive'
<1>1. {j \in Ids : proc'[j].busy} = Busy \cup {i} /\ i \notin Busy
  <2>1. i \notin Busy
    BY DEF Busy
  <2>2. ASSUME NEW j \in Ids PROVE proc'[j].busy <=> j \in Busy \cup {i}
    BY <2>1, Zenon DEF Busy
  <2> QED
    BY <2>1, <2>2 DEF Busy
<1>2. Cardinality(Busy \cup {i}) = Cardinality(Busy) + 1
  BY <1>1, BusyFinite, FS_AddElement
<1>3. turns = Cardinality(Busy)
  BY DEF TurnsExclusive, Busy
<1>4. turns' = Cardinality(Busy \cup {i}) /\ turns' > 0 /\ lease' = "turns"
  BY <1>2, <1>3, BusyFinite DEF beginTurn
<1> QED
  BY <1>1, <1>4 DEF TurnsExclusive

LEMMA TurnsEnded ==
  ASSUME TypeOK, TurnsExclusive, NEW i \in Ids, proc[i].busy, closeTurn,
         ~proc'[i].busy, \A j \in Ids \ {i} : proc'[j].busy = proc[j].busy
  PROVE  TurnsExclusive'
<1>1. {j \in Ids : proc'[j].busy} = Busy \ {i} /\ i \in Busy
  <2>1. i \in Busy
    BY DEF Busy
  <2>2. ASSUME NEW j \in Ids PROVE proc'[j].busy <=> j \in Busy \ {i}
    BY <2>1, Zenon DEF Busy
  <2> QED
    BY <2>1, <2>2 DEF Busy
<1>2. Cardinality(Busy \ {i}) = Cardinality(Busy) - 1
  BY <1>1, BusyFinite, FS_RemoveElement
<1>3. turns = Cardinality(Busy)
  BY DEF TurnsExclusive, Busy
<1>4. turns \in Nat \ {0} /\ lease = "turns"
  BY TurnsCounted
<1>5. turns' = Cardinality(Busy \ {i}) /\ (lease' = "turns" <=> turns' > 0)
  BY <1>2, <1>3, <1>4 DEF closeTurn
<1> QED
  BY <1>1, <1>5 DEF TurnsExclusive

LEMMA TurnsNone ==
  ASSUME turns = 0, lease # "turns", \A i \in Ids : ~proc[i].busy
  PROVE  TurnsExclusive
<1>1. {i \in Ids : proc[i].busy} = {}
  OBVIOUS
<1> QED
  BY <1>1, FS_EmptySet DEF TurnsExclusive


-----------------------------------------------------------------------------
(* What a connection does: to its process, its record, and the queues.     *)

\* i becomes p, its record c, and more is reported of it; the coordinator and the
\* other connections are as they were.
Works(i, p, c, more) ==
  /\ i \in Ids /\ p \in Process /\ c \in Record /\ more \in Seq(Events)
  /\ proc[i].run # "off" /\ \A m \in DOMAIN more : more[m].id = i
  /\ proc' = [proc EXCEPT ![i] = p] /\ catalog' = [catalog EXCEPT ![i] = c]
  /\ events' = events \o more
  /\ UNCHANGED <<up, service, asked, accepted, commands>>
Takes1(i) == inbox[i] # <<>> /\ inbox' = [inbox EXCEPT ![i] = Tail(@)]

\* One report of i.
LEMMA Reports ==
  ASSUME NEW i \in Ids, NEW kind \in {"ready", "state", "prepared", "aborted", "shutdown", "ended"},
         NEW ok \in BOOLEAN, NEW n \in Nat
  PROVE  /\ <<Event(i, kind, ok, n)>> \in Seq(Events) /\ Event(i, kind, ok, n) \in Events
         /\ Len(<<Event(i, kind, ok, n)>>) = 1 /\ DOMAIN <<Event(i, kind, ok, n)>> = {1}
         /\ <<Event(i, kind, ok, n)>>[1] = Event(i, kind, ok, n)
         /\ Event(i, kind, ok, n).id = i /\ Event(i, kind, ok, n).kind = kind
         /\ Event(i, kind, ok, n).ok = ok /\ Event(i, kind, ok, n).n = n
<1>1. Event(i, kind, ok, n) \in Events
  BY DEF Event, Events
<1> QED
  BY <1>1 DEF Event

LEMMA WorksEffect ==
  ASSUME TypeOK, NEW i, NEW p, NEW c, NEW more, Works(i, p, c, more)
  PROVE  /\ proc' \in [Ids -> Process] /\ catalog' \in [Ids -> Record] /\ events' \in Seq(Events)
         /\ proc'[i] = p /\ catalog'[i] = c
         /\ \A j \in Ids : j # i => proc'[j] = proc[j] /\ catalog'[j] = catalog[j]
         /\ DOMAIN events = 1..Len(events) /\ DOMAIN more = 1..Len(more)
         /\ Len(events) \in Nat /\ Len(more) \in Nat
         /\ DOMAIN events' = 1..(Len(events) + Len(more))
         /\ \A k \in DOMAIN events : events'[k] = events[k]
         /\ \A k \in DOMAIN events' : k \notin DOMAIN events =>
              k - Len(events) \in DOMAIN more /\ events'[k] = more[k - Len(events)]
<1>1. events \in Seq(Events) /\ more \in Seq(Events) /\ events' = events \o more
  BY DEF TypeOK, Works
<1>2. proc \in [Ids -> Process] /\ catalog \in [Ids -> Record]
  BY DEF TypeOK
<1> QED
  BY <1>1, <1>2, Grow DEF Works

LEMMA TakesEffect ==
  ASSUME TypeOK, NEW i \in Ids, Takes1(i)
  PROVE  /\ inbox' \in [Ids -> Seq(Commands)] /\ \A j \in Ids : j # i => inbox'[j] = inbox[j]
         /\ Head(inbox[i]) = inbox[i][1] /\ 1 \in DOMAIN inbox[i] /\ inbox[i][1] \in Commands
         /\ Len(inbox[i]) \in Nat \ {0} /\ DOMAIN inbox[i] = 1..Len(inbox[i])
         /\ DOMAIN inbox'[i] = 1..(Len(inbox[i]) - 1) /\ Len(inbox'[i]) = Len(inbox[i]) - 1
         /\ Len(inbox[i]) = 1 => inbox'[i] = <<>>
         /\ \A k \in DOMAIN inbox'[i] : k + 1 \in DOMAIN inbox[i] /\ inbox'[i][k] = inbox[i][k + 1]
         /\ \A k \in DOMAIN inbox[i] : k # 1 =>
              k - 1 \in DOMAIN inbox'[i] /\ inbox'[i][k - 1] = inbox[i][k]
<1>1. inbox \in [Ids -> Seq(Commands)] /\ inbox[i] # <<>> /\ inbox' = [inbox EXCEPT ![i] = Tail(@)]
  BY DEF TypeOK, Takes1
<1>2. inbox'[i] = Tail(inbox[i]) /\ inbox[i] \in Seq(Commands)
  BY <1>1
<1>3. Tail(inbox[i]) \in Seq(Commands)
  BY <1>1, <1>2, Shrink
<1>4. inbox' \in [Ids -> Seq(Commands)] /\ \A j \in Ids : j # i => inbox'[j] = inbox[j]
  BY <1>1, <1>3
<1>5. Len(inbox[i]) = 1 => inbox'[i] = <<>>
  BY <1>2, <1>3, <1>1, Shrink, Places
<1> QED
  BY <1>1, <1>2, <1>4, <1>5, Shrink

LEMMA TypeWorks ==
  ASSUME TypeOK, NEW i, NEW p, NEW c, NEW more, Works(i, p, c, more),
         inbox' = inbox \/ Takes1(i),
         nextHome' \in Nat, turns' \in Nat, lease' \in {"none", "turns", "shutdown", "account"},
         dead' \in SUBSET Nat, worked' \in Nat, faults' \in Nat, handled' \in Seq(Nat)
  PROVE  TypeOK'
<1>1. inbox' \in [Ids -> Seq(Commands)]
  BY TakesEffect DEF TypeOK, Works
<1>2. UNCHANGED <<up, connections, primary, selected, activate, phase, removing, prepared, refused,
                  aborted, acknowledged, ended, retire, deferredUsage, view, asked, accepted, commands>>
  BY DEF Works, service, shutdown
<1>3. proc' \in [Ids -> Process] /\ catalog' \in [Ids -> Record] /\ events' \in Seq(Events)
  BY WorksEffect
<1> QED
  BY <1>1, <1>2, <1>3 DEF TypeOK


-----------------------------------------------------------------------------
(* What a connection does, and each part of the invariant.                 *)

LEMMA LivesWorks ==
  ASSUME TypeOK, Lives, NEW i, NEW p, NEW c, NEW more, Works(i, p, c, more),
         p.run # "starting", p.run # "on" => ~p.busy, p.run = "off" => ~p.prepared /\ ~p.usage,
         p.run = "closing" => phase \in Ending /\ i \in Party,
         \A m \in DOMAIN more : more[m].kind = "ended" => p.run = "off" /\ Len(more) = 1,
         p.run = "off" => \/ proc[i].run = "closing"
                          \/ \E m \in DOMAIN more : more[m].kind = "ended" /\ ~more[m].ok
  PROVE  Lives'
<1>0. UNCHANGED <<up, connections, primary, phase, removing>> /\ Party' = Party
  BY DEF Works, service, Party
<1>1. /\ i \in Ids /\ i \in connections /\ proc[i].run # "off"
      /\ \A m \in DOMAIN more : more[m].id = i
  BY DEF Works, Lives
<1>2. Doomed => Doomed'
  BY WorksEffect DEF Doomed
<1>3. p.run = "off" => Doomed' \/ (phase \in Ending /\ i \in Party)
  <2>1. CASE proc[i].run = "closing"
    BY <1>1, <2>1 DEF Lives
  <2>2. ASSUME NEW m \in DOMAIN more, more[m].kind = "ended", ~more[m].ok PROVE Doomed'
    <3>1. Len(events) + m \in DOMAIN events' /\ events'[Len(events) + m] = more[m]
      BY WorksEffect
    <3> QED
      BY <2>2, <3>1 DEF Doomed
  <2> QED
    BY <2>1, <2>2
<1>4. ASSUME NEW j \in Ids
      PROVE  /\ proc'[j].run # "off" => j \in connections
             /\ proc'[j].run # "on" => ~proc'[j].busy
             /\ proc'[j].run \in {"off", "starting"} => ~proc'[j].prepared
             /\ proc'[j].run = "off" => ~proc'[j].usage
             /\ proc'[j].run = "closing" => phase \in Ending /\ j \in Party
             /\ j \in connections /\ proc'[j].run = "off" =>
                  Doomed' \/ (phase \in Ending /\ j \in Party)
  <2>1. CASE j = i
    BY <1>1, <1>3, <2>1, WorksEffect
  <2>2. CASE j # i
    <3>1. proc'[j] = proc[j]
      BY <2>2, WorksEffect
    <3> QED
      BY <1>2, <3>1 DEF Lives
  <2> QED
    BY <2>1, <2>2
<1>5. ASSUME NEW k \in DOMAIN events'
      PROVE  /\ events'[k].id \in connections /\ proc'[events'[k].id].run # "starting"
             /\ events'[k].kind = "ended" =>
                  /\ proc'[events'[k].id].run = "off"
                  /\ \A l \in DOMAIN events' : events'[l].id = events'[k].id => l <= k
  <2>1. CASE k \in DOMAIN events
    <3>1. events'[k] = events[k] /\ events[k].id \in connections /\ events[k].id \in Ids
      BY <2>1, WorksEffect DEF Lives, TypeOK
    <3>2. proc'[events[k].id].run # "starting"
      BY <2>1, <3>1, WorksEffect DEF Lives
    <3>3. ASSUME events[k].kind = "ended"
          PROVE  /\ proc'[events[k].id].run = "off"
                 /\ \A l \in DOMAIN events' : events'[l].id = events'[k].id => l <= k
      <4>1. proc[events[k].id].run = "off" /\ events[k].id # i
        BY <1>1, <2>1, <3>3 DEF Lives
      <4>2. proc'[events[k].id].run = "off"
        BY <3>1, <4>1, WorksEffect
      <4>3. ASSUME NEW l \in DOMAIN events', events'[l].id = events'[k].id PROVE l <= k
        <5>1. l \in DOMAIN events
          BY <1>1, <3>1, <4>1, <4>3, WorksEffect
        <5> QED
          BY <2>1, <3>1, <3>3, <4>3, <5>1, WorksEffect DEF Lives
      <4> QED
        BY <4>2, <4>3
    <3> QED
      BY <3>1, <3>2, <3>3
  <2>2. CASE k \notin DOMAIN events
    <3>1. PICK m \in DOMAIN more : m = k - Len(events) /\ events'[k] = more[m]
      BY <2>2, WorksEffect
    <3>2. events'[k].id = i /\ proc'[i] = p
      BY <1>1, <3>1, WorksEffect
    <3>3. events'[k].kind = "ended" => \A l \in DOMAIN events' : l <= k
      BY <3>1, WorksEffect
    <3> QED
      BY <1>1, <3>1, <3>2, <3>3
  <2> QED
    BY <2>1, <2>2
<1> HIDE DEF Doomed, Ending
<1> QED
  BY <1>0, <1>4, <1>5 DEF Lives

LEMMA HomesWorks ==
  ASSUME TypeOK, HomesApart, NEW i, NEW p, NEW c, NEW more, Works(i, p, c, more),
         UNCHANGED <<dead, nextHome>>, c.home = catalog[i].home, c.deleted = catalog[i].deleted,
         p.run = "on" => proc[i].run = "on"
  PROVE  HomesApart'
<1>1. \A j \in Ids : /\ catalog'[j].home = catalog[j].home /\ catalog'[j].deleted = catalog[j].deleted
                     /\ proc'[j].run = "on" => proc[j].run = "on"
  BY WorksEffect
<1> QED
  BY <1>1 DEF HomesApart

LEMMA AskedQuiet ==
  ASSUME TypeOK, Lives, AskedOnce, NEW i, NEW p, NEW c, NEW more, Works(i, p, c, more),
         \A m \in DOMAIN more : more[m].kind \notin Phased,
         inbox' = inbox \/ (Takes1(i) /\ Head(inbox[i]).do \notin Protocol)
  PROVE  AskedOnce'
<1>0. /\ UNCHANGED <<connections, phase, removing, aborted>> /\ Party' = Party /\ Counted' = Counted
      /\ i \in Ids /\ i \in connections
  BY DEF Works, service, shutdown, Party, Counted, Lives
<1>1. \A j \in connections : inbox[j] = <<>> => inbox'[j] = <<>>
  <2>1. CASE inbox' = inbox
    BY <2>1
  <2>2. CASE Takes1(i)
    BY <1>0, <2>2, TakesEffect DEF TypeOK, Takes1
  <2> QED
    BY <2>1, <2>2
<1>2. ASSUME NEW j \in connections, NEW k \in DOMAIN inbox'[j], inbox'[j][k].do \in Protocol
      PROVE  k = Len(inbox'[j]) /\ inbox'[j][k].do \in Calls(phase) /\ j \in Party
  <2>0. j \in Ids
    BY DEF TypeOK
  <2>1. CASE inbox'[j] = inbox[j]
    BY <1>2, <2>1 DEF AskedOnce
  <2>2. CASE Takes1(i) /\ j = i
    <3>1. k + 1 \in DOMAIN inbox[i] /\ inbox'[i][k] = inbox[i][k + 1]
      BY <1>0, <2>2, <1>2, TakesEffect
    <3>2. k + 1 = Len(inbox[i]) /\ inbox[i][k + 1].do \in Calls(phase) /\ i \in Party
      BY <1>0, <1>2, <2>2, <3>1 DEF AskedOnce
    <3> QED
      BY <1>0, <2>2, <3>1, <3>2, <1>2, TakesEffect
  <2> QED
    BY <1>0, <2>0, <2>1, <2>2, TakesEffect
<1>3. ASSUME NEW k \in DOMAIN events', events'[k].kind \in Phased
      PROVE  k \in DOMAIN events /\ events'[k] = events[k]
  BY <1>3, WorksEffect
<1>4. ASSUME NEW k \in DOMAIN events', events'[k].kind \in Phased
      PROVE  /\ events'[k].kind = Replies(phase) /\ events'[k].id \in Party
             /\ inbox'[events'[k].id] = <<>> /\ events'[k].id \notin Counted
             /\ \A l \in DOMAIN events' :
                  events'[l].kind \in Phased /\ events'[l].id = events'[k].id => l = k
  <2>1. k \in DOMAIN events /\ events'[k] = events[k] /\ events[k].id \in connections
    BY <1>3, <1>4 DEF Lives
  <2>2. inbox'[events[k].id] = <<>>
    BY <1>1, <1>4, <2>1 DEF AskedOnce
  <2> QED
    BY <1>3, <1>4, <2>1, <2>2 DEF AskedOnce
<1>5. Counted \subseteq connections /\ \A j \in Counted : inbox'[j] = <<>>
  BY <1>1 DEF AskedOnce
<1> HIDE DEF Counted, Party, Calls, Replies
<1> QED
  BY <1>0, <1>2, <1>4, <1>5 DEF AskedOnce


LEMMA AskedAnswers ==
  ASSUME TypeOK, Lives, AskedOnce, NEW i, NEW p, NEW c, NEW more, Works(i, p, c, more),
         Takes1(i), Head(inbox[i]).do \in Protocol,
         Len(more) = 1, more[1].kind = Replies(phase)
  PROVE  /\ AskedOnce' /\ i \in Party /\ Head(inbox[i]).do \in Calls(phase) /\ inbox'[i] = <<>>
         /\ i \notin Counted
         /\ \A k \in DOMAIN events : events[k].id = i => events[k].kind \notin Phased
<1>0. /\ UNCHANGED <<connections, phase, removing, aborted>> /\ Party' = Party /\ Counted' = Counted
      /\ i \in Ids /\ i \in connections /\ more[1].id = i /\ DOMAIN more = {1}
  <2>1. DOMAIN more = {1}
    BY WorksEffect
  <2> QED
    BY <2>1 DEF Works, service, shutdown, Party, Counted, Lives
<1>1. Len(inbox[i]) = 1 /\ Head(inbox[i]).do \in Calls(phase) /\ i \in Party
  <2>1. \A k \in DOMAIN inbox[i] : inbox[i][k].do \in Protocol =>
          k = Len(inbox[i]) /\ inbox[i][k].do \in Calls(phase) /\ i \in Party
    BY <1>0 DEF AskedOnce
  <2>2. Head(inbox[i]) = inbox[i][1] /\ 1 \in DOMAIN inbox[i]
    BY <1>0, TakesEffect
  <2> QED
    BY <2>1, <2>2
<1>2. inbox'[i] = <<>> /\ inbox[i] # <<>>
  BY <1>0, <1>1, TakesEffect DEF Takes1
<1>3. i \notin Counted /\ \A k \in DOMAIN events : events[k].id = i => events[k].kind \notin Phased
  BY <1>2 DEF AskedOnce
<1>4. \A j \in connections : inbox[j] = <<>> => inbox'[j] = <<>>
  BY <1>0, <1>2, TakesEffect DEF TypeOK
<1>5. ASSUME NEW j \in connections, NEW k \in DOMAIN inbox'[j], inbox'[j][k].do \in Protocol
      PROVE  k = Len(inbox'[j]) /\ inbox'[j][k].do \in Calls(phase) /\ j \in Party
  <2>1. j \in Ids /\ j # i
    BY <1>2, <1>5 DEF TypeOK
  <2>2. inbox'[j] = inbox[j]
    BY <1>0, <2>1, TakesEffect
  <2> QED
    BY <1>5, <2>2 DEF AskedOnce
<1>6. ASSUME NEW k \in DOMAIN events', events'[k].kind \in Phased
      PROVE  /\ events'[k].kind = Replies(phase) /\ events'[k].id \in Party
             /\ inbox'[events'[k].id] = <<>> /\ events'[k].id \notin Counted
             /\ \A l \in DOMAIN events' :
                  events'[l].kind \in Phased /\ events'[l].id = events'[k].id => l = k
  <2>1. CASE k \in DOMAIN events
    <3>1. events'[k] = events[k] /\ events[k].id \in connections /\ events[k].id # i
      BY <1>3, <1>6, <2>1, WorksEffect DEF Lives
    <3>2. inbox'[events[k].id] = <<>>
      BY <1>4, <1>6, <2>1, <3>1 DEF AskedOnce
    <3>3. ASSUME NEW l \in DOMAIN events', events'[l].kind \in Phased, events'[l].id = events[k].id
          PROVE  l = k
      <4>1. l \in DOMAIN events /\ events'[l] = events[l]
        <5>1. l \notin DOMAIN events => events'[l] = more[1]
          BY <1>0, <3>3, WorksEffect
        <5> QED
          BY <1>0, <3>1, <3>3, <5>1, WorksEffect
      <4> QED
        BY <1>6, <2>1, <3>1, <3>3, <4>1 DEF AskedOnce
    <3> QED
      BY <1>6, <2>1, <3>1, <3>2, <3>3 DEF AskedOnce
  <2>2. CASE k \notin DOMAIN events
    <3>1. events'[k] = more[1] /\ k = Len(events) + 1
      <4>1. /\ k - Len(events) \in DOMAIN more /\ events'[k] = more[k - Len(events)]
            /\ Len(events) \in Nat /\ k \in Nat
        <5>1. Len(events) \in Nat /\ DOMAIN events' = 1..(Len(events) + Len(more))
          BY WorksEffect
        <5>2. k - Len(events) \in DOMAIN more /\ events'[k] = more[k - Len(events)]
          BY <2>2, WorksEffect
        <5> QED
          BY <5>1, <5>2
      <4>2. k - Len(events) = 1
        BY <1>0, <4>1
      <4> QED
        BY <4>1, <4>2
    <3>2. ASSUME NEW l \in DOMAIN events', events'[l].kind \in Phased, events'[l].id = i
          PROVE  l = k
      <4>1. l \notin DOMAIN events
        BY <1>3, <3>2, WorksEffect
      <4> QED
        BY <1>0, <3>1, <4>1, <3>2, WorksEffect, SMTT(20)
    <3> QED
      BY <1>0, <1>1, <1>2, <1>3, <3>1, <3>2
  <2> QED
    BY <2>1, <2>2
<1>7. Counted \subseteq connections /\ \A j \in Counted : inbox'[j] = <<>>
  BY <1>4 DEF AskedOnce
<1>8. phase = "prepare" => aborted = {}
  BY DEF AskedOnce
<1> HIDE DEF Counted, Party, Calls, Replies, Phased, Protocol
<1>9. AskedOnce'
  BY <1>0, <1>5, <1>6, <1>7, <1>8 DEF AskedOnce
<1> QED
  BY <1>1, <1>2, <1>3, <1>9

LEMMA FrozenWorks ==
  ASSUME TypeOK, Lives, Frozen, NEW i, NEW p, NEW c, NEW more, Works(i, p, c, more),
         \A m \in DOMAIN more : more[m].kind \notin {"prepared", "aborted"},
         p.prepared => proc[i].prepared /\ ~p.busy,
         proc[i].prepared => p.prepared \/ p.run = "off"
  PROVE  Frozen'
<1>0. /\ UNCHANGED <<connections, phase, removing, prepared, aborted>> /\ Party' = Party
      /\ i \in Ids /\ proc[i].run # "off"
  BY DEF Works, service, shutdown, Party
<1>1. \A j \in Ids : /\ Holds(j) => proc'[j].prepared \/ proc'[j].run = "off"
                     /\ proc'[j].prepared => proc[j].prepared
                     /\ proc'[j].prepared => ~proc'[j].busy \/ (proc'[j] = proc[j])
  BY <1>0, WorksEffect DEF Holds
<1>2. ASSUME NEW k \in DOMAIN events'
      PROVE  /\ events'[k].kind = "prepared" /\ events'[k].ok =>
                  proc'[events'[k].id].prepared \/ proc'[events'[k].id].run = "off"
             /\ events'[k].kind = "aborted" => ~proc'[events'[k].id].prepared
  <2>1. CASE k \in DOMAIN events
    <3>1. events'[k] = events[k] /\ events[k].id \in Ids
      BY <2>1, WorksEffect DEF TypeOK, Lives
    <3> QED
      BY <1>1, <2>1, <3>1 DEF Frozen, Holds
  <2>2. CASE k \notin DOMAIN events
    BY <2>2, WorksEffect
  <2> QED
    BY <2>1, <2>2
<1>3. \A k \in DOMAIN events' :
        /\ events'[k].kind = "prepared" /\ events'[k].ok =>
                  proc'[events'[k].id].prepared \/ proc'[events'[k].id].run = "off"
        /\ events'[k].kind = "aborted" => ~proc'[events'[k].id].prepared
  BY <1>2
<1> QED
  BY <1>0, <1>1, <1>3 DEF Frozen, TypeOK, Holds


LEMMA FrozenAnswers ==
  ASSUME TypeOK, Lives, Frozen, NEW i, NEW p, NEW c, NEW more, Works(i, p, c, more),
         phase \in {"prepare", "delete_prepare", "abort", "delete_abort"},
         i \in Party, i \notin Counted, Len(more) = 1, p.prepared => ~p.busy,
         \A k \in DOMAIN events : events[k].id = i => events[k].kind \notin Phased,
         more[1].kind = "prepared" /\ more[1].ok => p.prepared,
         more[1].kind = "aborted" => ~p.prepared
  PROVE  Frozen'
<1>0. /\ UNCHANGED <<connections, phase, removing, prepared, aborted>> /\ Party' = Party
      /\ i \in Ids /\ more[1].id = i /\ DOMAIN more = {1}
  <2>1. DOMAIN more = {1}
    BY WorksEffect
  <2> QED
    BY <2>1 DEF Works, service, shutdown, Party
<1>1. proc'[i] = p /\ \A j \in Ids : j # i => proc'[j] = proc[j]
  BY WorksEffect
<1>2. \A j \in Ids : proc'[j].prepared => ~proc'[j].busy /\ phase # "open" /\ j \in Party
  BY <1>1 DEF Frozen
<1>3. ASSUME NEW k \in DOMAIN events'
      PROVE  /\ events'[k].kind = "prepared" /\ events'[k].ok =>
                  proc'[events'[k].id].prepared \/ proc'[events'[k].id].run = "off"
             /\ events'[k].kind = "aborted" => ~proc'[events'[k].id].prepared
  <2>1. CASE k \in DOMAIN events
    <3>1. events'[k] = events[k] /\ events[k].id \in Ids
      BY <2>1, WorksEffect DEF TypeOK, Lives
    <3>2. events[k].kind \in {"prepared", "aborted"} => events[k].id # i
      BY <2>1 DEF Phased
    <3> QED
      BY <1>1, <2>1, <3>1, <3>2 DEF Frozen, Holds
  <2>2. CASE k \notin DOMAIN events
    <3>1. events'[k] = more[1]
      BY <1>0, <2>2, WorksEffect
    <3> QED
      BY <1>0, <1>1, <3>1
  <2> QED
    BY <2>1, <2>2
<1>4. phase = "prepare" => \A j \in prepared : proc'[j].prepared \/ proc'[j].run = "off"
  BY <1>1, ZenonT(30) DEF Frozen, Holds, Counted, TypeOK
<1>5. phase = "abort" => \A j \in aborted : ~proc'[j].prepared
  BY <1>1 DEF Frozen, Counted, TypeOK
<1> QED
  BY <1>0, <1>2, <1>3, <1>4, <1>5 DEF Frozen, Holds

LEMMA ConfirmedWorks ==
  ASSUME TypeOK, Lives, Confirmed, NEW i, NEW p, NEW c, NEW more, Works(i, p, c, more),
         inbox' = inbox \/ Takes1(i),
         p.run # "starting",
         p.run = "on" => \/ proc[i].run = "starting"
                         \/ proc[i].run = "on" /\ c.home = catalog[i].home,
         \A m \in DOMAIN more : more[m].kind = "ready" => more[m].n = c.home,
         p.prepared /\ removing = i => \/ proc[i].prepared /\ c.rev = catalog[i].rev
                                       \/ c.rev = asked.rev /\ inbox'[i] = <<>>
  PROVE  Confirmed'
<1>0. /\ UNCHANGED <<connections, removing, view, asked>> /\ i \in Ids /\ i \in connections
      /\ \A m \in DOMAIN more : more[m].id = i
  BY DEF Works, service, Lives
<1>1. /\ proc'[i] = p /\ catalog'[i] = c
      /\ \A j \in Ids : j # i => proc'[j] = proc[j] /\ catalog'[j] = catalog[j]
  BY WorksEffect
<1>2. ASSUME NEW j \in Ids, NEW k \in DOMAIN inbox'[j]
      PROVE  \E l \in DOMAIN inbox[j] : inbox'[j][k] = inbox[j][l]
  BY <1>0, <1>2, TakesEffect
<1>3. ASSUME NEW j \in connections
      PROVE  /\ proc'[j].run = "starting" => view[j].home = 0
             /\ proc'[j].run = "on" /\ view[j].home # 0 => view[j].home = catalog'[j].home
             /\ \A k \in DOMAIN inbox'[j] :
                  inbox'[j][k].do = "prepare_delete" => inbox'[j][k].rev = asked.rev
  <2>1. j \in Ids
    BY DEF TypeOK
  <2>2. \A k \in DOMAIN inbox'[j] :
          inbox'[j][k].do = "prepare_delete" => inbox'[j][k].rev = asked.rev
    BY <1>2, <2>1 DEF Confirmed
  <2>3. CASE j = i
    BY <1>1, <2>2, <2>3 DEF Confirmed
  <2>4. CASE j # i
    BY <1>1, <2>1, <2>2, <2>4 DEF Confirmed
  <2> QED
    BY <2>3, <2>4
<1>4. ASSUME NEW k \in DOMAIN events', events'[k].kind = "ready", proc'[events'[k].id].run = "on"
      PROVE  events'[k].n = catalog'[events'[k].id].home
  <2>1. CASE k \in DOMAIN events
    <3>1. events'[k] = events[k] /\ events[k].id \in Ids /\ proc[events[k].id].run # "starting"
      BY <2>1, WorksEffect DEF TypeOK, Lives
    <3> QED
      BY <1>1, <1>4, <2>1, <3>1 DEF Confirmed
  <2>2. CASE k \notin DOMAIN events
    <3>1. PICK m \in DOMAIN more : events'[k] = more[m]
      BY <2>2, WorksEffect
    <3> QED
      BY <1>0, <1>1, <1>4, <3>1
  <2> QED
    BY <2>1, <2>2
<1>5. ASSUME removing # NoId
      PROVE  /\ asked.id = removing /\ proc'[removing].run # "starting"
             /\ proc'[removing].run = "on" => catalog'[removing].home = asked.home
             /\ proc'[removing].prepared =>
                  /\ catalog'[removing].rev = asked.rev
                  /\ \A k \in DOMAIN inbox'[removing] : inbox'[removing][k].do \in Protocol
  <2>0. removing \in Ids
    BY <1>5 DEF Lives, TypeOK
  <2>1. CASE removing = i
    <3>1. proc'[i].run = "on" => catalog'[i].home = asked.home
      BY <1>1, <1>5, <2>1 DEF Confirmed
    <3>2. proc'[i].prepared => catalog'[i].rev = asked.rev
      BY <1>1, <1>5, <2>1 DEF Confirmed
    <3>3. proc'[i].prepared => \A k \in DOMAIN inbox'[i] : inbox'[i][k].do \in Protocol
      <4>1. CASE proc[i].prepared
        <5>1. \A k \in DOMAIN inbox[i] : inbox[i][k].do \in Protocol
          BY <1>5, <2>1, <4>1 DEF Confirmed
        <5> QED
          BY <1>0, <1>2, <5>1
      <4>2. CASE inbox'[i] = <<>>
        BY <4>2
      <4> QED
        BY <1>1, <2>1, <4>1, <4>2
    <3> QED
      BY <1>1, <1>5, <2>1, <3>1, <3>2, <3>3 DEF Confirmed
  <2>2. CASE removing # i
    <3>1. \A k \in DOMAIN inbox'[removing] : \E l \in DOMAIN inbox[removing] :
            inbox'[removing][k] = inbox[removing][l]
      BY <1>2, <2>0
    <3> QED
      BY <1>1, <1>5, <2>0, <2>2, <3>1 DEF Confirmed
  <2> QED
    BY <2>1, <2>2
<1> HIDE DEF NoQuestion, Protocol
<1> QED
  BY <1>0, <1>3, <1>4, <1>5 DEF Confirmed

LEMMA PollingWorks ==
  ASSUME TypeOK, Lives, Polling, NEW i, NEW p, NEW c, NEW more, Works(i, p, c, more),
         inbox' = inbox \/ (Takes1(i) /\ (Head(inbox[i]).do = "usage_primary" => p.usage)),
         p.usage => proc[i].usage \/ Promoted(i),
         proc[i].usage => p.usage \/ p.run = "off"
  PROVE  Polling'
<1>0. UNCHANGED <<connections, primary, up>> /\ i \in Ids /\ i \in connections
  BY DEF Works, service, Lives
<1>1. proc'[i] = p /\ \A j \in Ids : j # i => proc'[j] = proc[j]
  BY WorksEffect
<1>2. ASSUME NEW j \in Ids PROVE Promoted(j)' => Promoted(j)
  <2>1. ASSUME NEW k \in DOMAIN inbox'[j] PROVE \E l \in DOMAIN inbox[j] : inbox'[j][k] = inbox[j][l]
    BY <1>0, <2>1, TakesEffect
  <2> QED
    BY <2>1 DEF Promoted
<1>3. \A j \in Ids : proc'[j].usage => j = primary
  BY <1>0, <1>1 DEF Polling
<1>4. \A j \in connections : Promoted(j)' => j = primary
  BY <1>2 DEF Polling, TypeOK
<1>5. ASSUME up PROVE proc'[primary].usage \/ Promoted(primary)' \/ proc'[primary].run = "off"
  <2>0. primary \in Ids
    BY <1>5 DEF Lives, TypeOK
  <2>1. CASE primary # i
    <3>1. inbox'[primary] = inbox[primary]
      BY <1>0, <2>0, <2>1, TakesEffect
    <3> QED
      BY <1>0, <1>1, <1>5, <2>0, <2>1, <3>1 DEF Polling, Promoted
  <2>2. CASE primary = i
    <3>1. CASE inbox' = inbox
      BY <1>0, <1>1, <1>5, <2>2, <3>1 DEF Polling, Promoted, Works
    <3>2. CASE Takes1(i) /\ (Head(inbox[i]).do = "usage_primary" => p.usage)
      <4>1. ASSUME NEW k \in DOMAIN inbox[i], inbox[i][k].do = "usage_primary", ~p.usage
            PROVE  k - 1 \in DOMAIN inbox'[i] /\ inbox'[i][k - 1].do = "usage_primary"
        BY <1>0, <3>2, <4>1, TakesEffect
      <4>2. proc[i].usage \/ Promoted(i)
        BY <1>5, <2>2 DEF Polling, Works
      <4> QED
        BY <1>0, <1>1, <2>2, <4>1, <4>2 DEF Promoted
    <3> QED
      BY <3>1, <3>2
  <2> QED
    BY <2>1, <2>2
<1> HIDE DEF Promoted
<1> QED
  BY <1>0, <1>3, <1>4, <1>5 DEF Polling


-----------------------------------------------------------------------------
(* The steps of a connection.                                              *)

LEMMA Bumped ==
  ASSUME TypeOK, NEW i \in Ids
  PROVE  /\ catalog[i] \in Record /\ proc[i] \in Process /\ catalog[i].rev \in Nat
         /\ catalog[i].home \in Nat /\ catalog[i].deleted \in BOOLEAN
         /\ [catalog[i] EXCEPT !.rev = @ + 1] \in Record
         /\ [catalog[i] EXCEPT !.rev = @ + 1].rev = catalog[i].rev + 1
         /\ [catalog[i] EXCEPT !.rev = @ + 1].home = catalog[i].home
         /\ [catalog[i] EXCEPT !.rev = @ + 1].deleted = catalog[i].deleted
         /\ proc[i].busy \in BOOLEAN /\ proc[i].prepared \in BOOLEAN /\ proc[i].usage \in BOOLEAN
         /\ proc[i].run \in {"off", "starting", "on", "closing"}
<1>1. catalog[i] \in Record /\ proc[i] \in Process
  BY DEF TypeOK
<1> QED
  BY <1>1 DEF Record, Process

LEMMA Apart == \A k \in {"ready", "state", "ended"} : k \notin Phased /\ k \notin {"prepared", "aborted"}
BY DEF Phased

LEMMA StartUpStep ==
  ASSUME IInv, NEW i \in Ids, StartUp(i)
  PROVE  IInv'
<1> USE DEF IInv
<1> DEFINE new  == FromNothing(i)
           c    == IF new THEN [dir |-> TRUE, home |-> nextHome, rev |-> 1, deleted |-> FALSE]
                   ELSE [catalog[i] EXCEPT !.rev = @ + 1]
           p    == [proc[i] EXCEPT !.run = "on"]
           r    == Event(i, "ready", TRUE, c.home)
           s    == Event(i, "state", TRUE, c.rev)
           more == <<r, s>>
<1>1. /\ p \in Process /\ p.run = "on" /\ p.busy = proc[i].busy /\ p.prepared = proc[i].prepared
      /\ p.usage = proc[i].usage
  BY Bumped DEF Process
<1>2. /\ c \in Record /\ c.rev \in Nat /\ c.home \in Nat /\ c.home # 0 /\ ~c.deleted
      /\ new => c.home = nextHome
      /\ ~new => c.home = catalog[i].home /\ catalog[i].home # 0 /\ ~catalog[i].deleted
  <2>1. CASE new
    BY <2>1, Bumped DEF Record, TypeOK, HomesApart
  <2>2. CASE ~new
    BY <2>2, Bumped DEF FromNothing
  <2> QED
    BY <2>1, <2>2
<1>3. /\ more \in Seq(Events) /\ DOMAIN more = {1, 2} /\ Len(more) = 2 /\ more[1] = r /\ more[2] = s
      /\ r.id = i /\ s.id = i /\ r.kind = "ready" /\ s.kind = "state" /\ r.n = c.home
  <2> HIDE DEF c
  <2>1. /\ r \in Events /\ s \in Events
        /\ r.id = i /\ s.id = i /\ r.kind = "ready" /\ s.kind = "state" /\ r.n = c.home
    BY <1>2 DEF Event, Events
  <2> HIDE DEF r, s
  <2> QED
    BY <2>1
<1>4. /\ proc[i].run = "starting" /\ ~proc[i].busy /\ ~proc[i].prepared
      /\ proc' = [proc EXCEPT ![i] = p] /\ catalog' = [catalog EXCEPT ![i] = c]
      /\ events' = events \o more /\ nextHome' = IF new THEN nextHome + 1 ELSE nextHome
      /\ UNCHANGED <<up, service, asked, accepted, commands, faults, inbox, turns, dead, worked, lease, handled>>
  BY DEF StartUp, Report, Elsewhere, Lives, TypeOK
<1> HIDE DEF p, c, more, r, s, new
<1>5. Works(i, p, c, more)
  BY <1>1, <1>2, <1>3, <1>4 DEF Works
<1>6. TypeOK'
  <2>1. /\ nextHome' \in Nat /\ turns' \in Nat /\ lease' \in {"none", "turns", "shutdown", "account"}
        /\ dead' \in SUBSET Nat /\ worked' \in Nat /\ faults' \in Nat /\ handled' \in Seq(Nat)
    BY <1>4 DEF TypeOK
  <2> QED
    BY <1>4, <1>5, <2>1, TypeWorks
<1>7. Lives'
  BY <1>1, <1>3, <1>4, <1>5, LivesWorks
<1>8. TurnsExclusive'
  BY <1>1, <1>4, <1>5, WorksEffect, TurnsKept
<1>9. HomesApart'
  <2>1. /\ catalog'[i] = c /\ proc'[i] = p
        /\ \A j \in Ids : j # i => catalog'[j] = catalog[j] /\ proc'[j] = proc[j]
    BY <1>5, WorksEffect
  <2>2. \A j \in Ids : catalog[j].home \in Nat /\ catalog'[j].home \in Nat
    BY <1>2, <2>1, Bumped
  <2>3. nextHome \in Nat /\ dead \in SUBSET Nat
    BY DEF TypeOK
  <2>4. c.home \notin dead /\ c.home < nextHome' /\ \A j \in Ids : j # i => catalog[j].home # c.home
    BY <1>2, <1>4, <2>2, <2>3 DEF HomesApart
  <2> QED
    BY <1>2, <1>4, <2>1, <2>2, <2>3, <2>4 DEF HomesApart
<1>10. AskedOnce'
  BY <1>3, <1>4, <1>5, AskedQuiet, Apart
<1>11. Frozen'
  BY <1>1, <1>3, <1>4, <1>5, FrozenWorks, Apart
<1>12. Confirmed'
  <2>1. inbox' = inbox /\ p.run # "starting" /\ proc[i].run = "starting" /\ ~p.prepared
    BY <1>1, <1>4
  <2>2. \A m \in DOMAIN more : more[m].kind = "ready" => more[m].n = c.home
    BY <1>3
  <2> QED
    BY <1>5, <2>1, <2>2, ConfirmedWorks, Zenon
<1>13. Polling'
  BY <1>1, <1>4, <1>5, PollingWorks
<1> QED
  BY <1>6, <1>7, <1>8, <1>9, <1>10, <1>11, <1>12, <1>13

LEMMA TurnBeginStep ==
  ASSUME IInv, NEW i \in Ids, TurnBegin(i)
  PROVE  IInv'
<1> USE DEF IInv
<1> DEFINE c    == [catalog[i] EXCEPT !.rev = @ + 1]
           p    == [proc[i] EXCEPT !.busy = TRUE]
           e    == Event(i, "state", TRUE, catalog[i].rev + 1)
           more == <<e>>
<1>1. /\ p \in Process /\ p.run = proc[i].run /\ p.busy /\ p.prepared = proc[i].prepared
      /\ p.usage = proc[i].usage
  BY Bumped DEF Process
<1>2. c \in Record /\ c.home = catalog[i].home /\ c.deleted = catalog[i].deleted
  BY Bumped
<1>3. /\ more \in Seq(Events) /\ DOMAIN more = {1} /\ Len(more) = 1 /\ more[1] = e
      /\ e.id = i /\ e.kind = "state"
  <2>1. catalog[i].rev \in Nat
    BY Bumped
  <2>2. catalog[i].rev + 1 \in Nat
    BY <2>1
  <2>3. e \in Events /\ e.id = i /\ e.kind = "state"
    BY <2>2 DEF Event, Events
  <2> HIDE DEF e
  <2> QED
    BY <2>3
<1>4. /\ proc[i].run = "on" /\ ~proc[i].busy /\ ~proc[i].prepared /\ beginTurn /\ worked' = worked + 1
      /\ proc' = [proc EXCEPT ![i] = p] /\ catalog' = [catalog EXCEPT ![i] = c]
      /\ events' = events \o more
      /\ UNCHANGED <<up, service, asked, accepted, commands, faults, inbox, dead, nextHome, handled>>
  BY DEF TurnBegin, Report, Elsewhere, Bump, TypeOK
<1>5. Works(i, p, c, more)
  BY <1>1, <1>2, <1>3, <1>4 DEF Works
<1> HIDE DEF p, c, more, e
<1>6. TypeOK'
  <2>1. turns' \in Nat /\ worked' \in Nat /\ lease' = "turns"
    BY <1>4 DEF TypeOK, beginTurn
  <2> QED
    BY <1>4, <1>5, <2>1, TypeWorks DEF TypeOK
<1>7. Lives'
  BY <1>1, <1>3, <1>4, <1>5, LivesWorks
<1>8. TurnsExclusive'
  BY <1>1, <1>4, <1>5, WorksEffect, TurnsBegun
<1>9. HomesApart'
  BY <1>1, <1>2, <1>4, <1>5, HomesWorks
<1>10. AskedOnce'
  BY <1>3, <1>4, <1>5, AskedQuiet, Apart
<1>11. Frozen'
  BY <1>1, <1>3, <1>4, <1>5, FrozenWorks, Apart
<1>12. Confirmed'
  BY <1>1, <1>2, <1>3, <1>4, <1>5, ConfirmedWorks
<1>13. Polling'
  BY <1>1, <1>4, <1>5, PollingWorks
<1> QED
  BY <1>6, <1>7, <1>8, <1>9, <1>10, <1>11, <1>12, <1>13


LEMMA TurnEndStep ==
  ASSUME IInv, NEW i \in Ids, TurnEnd(i)
  PROVE  IInv'
<1> USE DEF IInv
<1> DEFINE c    == [catalog[i] EXCEPT !.rev = @ + 1]
           p    == [proc[i] EXCEPT !.busy = FALSE]
           e    == Event(i, "state", TRUE, c.rev)
           more == <<e>>
<1>1. /\ p \in Process /\ p.run = proc[i].run /\ ~p.busy /\ p.prepared = proc[i].prepared
      /\ p.usage = proc[i].usage
  BY Bumped DEF Process
<1>2. c \in Record /\ c.home = catalog[i].home /\ c.deleted = catalog[i].deleted /\ c.rev = catalog[i].rev + 1
  BY Bumped
<1>3. /\ more \in Seq(Events) /\ DOMAIN more = {1} /\ Len(more) = 1 /\ more[1] = e
      /\ e.id = i /\ e.kind = "state"
  <2> HIDE DEF c
  <2>1. c.rev \in Nat
    BY <1>2, Bumped DEF Record
  <2>2. e \in Events /\ e.id = i /\ e.kind = "state"
    BY <2>1 DEF Event, Events
  <2> HIDE DEF e
  <2> QED
    BY <2>2
<1>4. /\ proc[i].run = "on" /\ proc[i].busy /\ closeTurn
      /\ proc' = [proc EXCEPT ![i] = p] /\ catalog' = [catalog EXCEPT ![i] = c]
      /\ events' = events \o more
      /\ UNCHANGED <<up, service, asked, accepted, commands, faults, inbox, dead, nextHome, worked, handled>>
  BY <1>2 DEF TurnEnd, Report, Elsewhere, Bump, TypeOK
<1> HIDE DEF p, c, more, e
<1>5. Works(i, p, c, more)
  BY <1>1, <1>2, <1>3, <1>4 DEF Works
<1>6. TypeOK'
  <2>1. turns' \in Nat /\ lease' \in {"none", "turns"}
    BY <1>4, TurnsCounted DEF closeTurn
  <2> QED
    BY <1>4, <1>5, <2>1, TypeWorks DEF TypeOK
<1>7. Lives'
  BY <1>1, <1>3, <1>4, <1>5, LivesWorks
<1>8. TurnsExclusive'
  BY <1>1, <1>4, <1>5, WorksEffect, TurnsEnded
<1>9. HomesApart'
  BY <1>1, <1>2, <1>4, <1>5, HomesWorks
<1>10. AskedOnce'
  BY <1>3, <1>4, <1>5, AskedQuiet, Apart
<1>11. Frozen'
  BY <1>1, <1>3, <1>4, <1>5, FrozenWorks, Apart
<1>12. Confirmed'
  <2>1. ~proc[i].prepared
    BY <1>4 DEF Frozen
  <2> QED
    BY <1>1, <1>2, <1>3, <1>4, <1>5, <2>1, ConfirmedWorks
<1>13. Polling'
  BY <1>1, <1>4, <1>5, PollingWorks
<1> QED
  BY <1>6, <1>7, <1>8, <1>9, <1>10, <1>11, <1>12, <1>13

LEMMA ObeyStatusStep ==
  ASSUME IInv, NEW i \in Ids, ObeyStatus(i)
  PROVE  IInv'
<1> USE DEF IInv
<1> DEFINE c    == catalog[i]
           p    == proc[i]
           e    == Event(i, "state", TRUE, catalog[i].rev)
           more == <<e>>
<1>1. p \in Process /\ p = proc[i]
  BY Bumped
<1>2. c \in Record /\ c = catalog[i]
  BY Bumped
<1>3. /\ more \in Seq(Events) /\ DOMAIN more = {1} /\ Len(more) = 1 /\ more[1] = e
      /\ e.id = i /\ e.kind = "state"
  <2>1. catalog[i].rev \in Nat
    BY Bumped
  <2>2. e \in Events /\ e.id = i /\ e.kind = "state"
    BY <2>1 DEF Event, Events
  <2> HIDE DEF e
  <2> QED
    BY <2>2
<1>4. /\ proc[i].run = "on" /\ Takes1(i) /\ Head(inbox[i]).do = "status"
      /\ proc' = [proc EXCEPT ![i] = p] /\ catalog' = [catalog EXCEPT ![i] = c]
      /\ events' = events \o more
      /\ UNCHANGED <<up, service, asked, accepted, commands, faults, dead, nextHome, turns, lease, worked, handled>>
  BY DEF ObeyStatus, Obeys, Takes1, Report, Elsewhere, TypeOK
<1> HIDE DEF p, c, more, e
<1>5. Works(i, p, c, more)
  BY <1>1, <1>2, <1>3, <1>4 DEF Works
<1>6. TypeOK'
  BY <1>4, <1>5, TypeWorks DEF TypeOK
<1>7. Lives'
  BY <1>1, <1>3, <1>4, <1>5, LivesWorks
<1>8. TurnsExclusive'
  BY <1>1, <1>4, <1>5, WorksEffect, TurnsKept
<1>9. HomesApart'
  BY <1>1, <1>2, <1>4, <1>5, HomesWorks
<1>10. AskedOnce'
  BY <1>3, <1>4, <1>5, AskedQuiet, Apart DEF Protocol
<1>11. Frozen'
  <2>1. p.prepared => ~p.busy
    BY <1>1 DEF Frozen
  <2> QED
    BY <1>1, <1>3, <1>4, <1>5, <2>1, FrozenWorks, Apart
<1>12. Confirmed'
  BY <1>1, <1>2, <1>3, <1>4, <1>5, ConfirmedWorks
<1>13. Polling'
  BY <1>1, <1>4, <1>5, PollingWorks
<1> QED
  BY <1>6, <1>7, <1>8, <1>9, <1>10, <1>11, <1>12, <1>13

LEMMA LeaveStep ==
  ASSUME IInv, NEW i \in Ids, Leave(i)
  PROVE  IInv'
<1> USE DEF IInv
<1> DEFINE c    == catalog[i]
           p    == Off
           e    == Event(i, "ended", TRUE, 0)
           more == <<e>>
<1>1. p \in Process /\ p.run = "off" /\ p.busy = FALSE /\ ~p.prepared /\ ~p.usage
  BY DEF Off, Process
<1>2. c \in Record /\ c = catalog[i]
  BY Bumped
<1>3. /\ more \in Seq(Events) /\ DOMAIN more = {1} /\ Len(more) = 1 /\ more[1] = e
      /\ e.id = i /\ e.kind = "ended" /\ e.ok = TRUE
  <2>2. e \in Events /\ e.id = i /\ e.kind = "ended" /\ e.ok = TRUE
    BY DEF Event, Events
  <2> HIDE DEF e
  <2> QED
    BY <2>2
<1>4. /\ proc[i].run = "closing" /\ ~proc[i].busy /\ UNCHANGED <<turns, lease, faults>>
      /\ proc' = [proc EXCEPT ![i] = p] /\ catalog' = [catalog EXCEPT ![i] = c]
      /\ events' = events \o more
      /\ UNCHANGED <<up, service, asked, accepted, commands, inbox, dead, nextHome, worked, handled>>
  BY DEF Leave, Lives, Elsewhere, Report, TypeOK
<1> HIDE DEF p, c, more, e
<1>5. Works(i, p, c, more)
  BY <1>1, <1>2, <1>3, <1>4 DEF Works
<1>6. TypeOK'
  BY <1>4, <1>5, TypeWorks DEF TypeOK
<1>7. Lives'
  BY <1>1, <1>3, <1>4, <1>5, LivesWorks
<1>8. TurnsExclusive'
  <2>1. \A j \in Ids : proc'[j].busy = proc[j].busy
    <3>1. proc[i].busy = FALSE
      BY <1>4, Bumped, Zenon
    <3>2. proc'[i] = p /\ \A j \in Ids : j # i => proc'[j] = proc[j]
      BY <1>5, WorksEffect
    <3> QED
      BY <1>1, <3>1, <3>2, Zenon
  <2> QED
    BY <1>4, <2>1, TurnsKept
<1>9. HomesApart'
  BY <1>1, <1>2, <1>4, <1>5, HomesWorks
<1>10. AskedOnce'
  BY <1>3, <1>4, <1>5, AskedQuiet, Apart
<1>11. Frozen'
  BY <1>1, <1>3, <1>4, <1>5, FrozenWorks, Apart
<1>12. Confirmed'
  BY <1>1, <1>2, <1>3, <1>4, <1>5, ConfirmedWorks
<1>13. Polling'
  BY <1>1, <1>4, <1>5, PollingWorks
<1> QED
  BY <1>6, <1>7, <1>8, <1>9, <1>10, <1>11, <1>12, <1>13

LEMMA FailStep ==
  ASSUME IInv, NEW i \in Ids, Fail(i)
  PROVE  IInv'
<1> USE DEF IInv
<1> DEFINE c    == catalog[i]
           p    == Off
           e    == Event(i, "ended", FALSE, 0)
           more == <<e>>
<1>1. p \in Process /\ p.run = "off" /\ p.busy = FALSE /\ ~p.prepared /\ ~p.usage
  BY DEF Off, Process
<1>2. c \in Record /\ c = catalog[i]
  BY Bumped
<1>3. /\ more \in Seq(Events) /\ DOMAIN more = {1} /\ Len(more) = 1 /\ more[1] = e
      /\ e.id = i /\ e.kind = "ended" /\ e.ok = FALSE
  <2>2. e \in Events /\ e.id = i /\ e.kind = "ended" /\ e.ok = FALSE
    BY DEF Event, Events
  <2> HIDE DEF e
  <2> QED
    BY <2>2
<1>4. /\ proc[i].run \in {"starting", "on"} /\ faults' = faults + 1
      /\ IF proc[i].busy THEN closeTurn ELSE UNCHANGED <<turns, lease>>
      /\ proc' = [proc EXCEPT ![i] = p] /\ catalog' = [catalog EXCEPT ![i] = c]
      /\ events' = events \o more
      /\ UNCHANGED <<up, service, asked, accepted, commands, inbox, dead, nextHome, worked, handled>>
  BY DEF Fail, Fault, Report, TypeOK
<1> HIDE DEF p, c, more, e
<1>5. Works(i, p, c, more)
  BY <1>1, <1>2, <1>3, <1>4 DEF Works
<1>6. TypeOK'
  <2>1. turns' \in Nat /\ lease' \in {"none", "turns", "shutdown", "account"}
    BY <1>4, TurnsCounted DEF closeTurn, TypeOK
  <2>2. faults' \in Nat
    BY <1>4 DEF TypeOK
  <2> QED
    BY <1>4, <1>5, <2>1, <2>2, TypeWorks DEF TypeOK
<1>7. Lives'
  BY <1>1, <1>3, <1>4, <1>5, LivesWorks
<1>8. TurnsExclusive'
  <2>1. CASE proc[i].busy
    BY <1>1, <1>4, <1>5, <2>1, WorksEffect, TurnsEnded
  <2>2. CASE ~proc[i].busy
    <3>1. \A j \in Ids : proc'[j].busy = proc[j].busy
      <4>1. proc[i].busy = FALSE
        BY <2>2, Bumped, Zenon
      <4>2. proc'[i] = p /\ \A j \in Ids : j # i => proc'[j] = proc[j]
        BY <1>5, WorksEffect
      <4> QED
        BY <1>1, <4>1, <4>2, Zenon
    <3> QED
      BY <1>4, <2>2, <3>1, TurnsKept
  <2> QED
    BY <2>1, <2>2
<1>9. HomesApart'
  BY <1>1, <1>2, <1>4, <1>5, HomesWorks
<1>10. AskedOnce'
  BY <1>3, <1>4, <1>5, AskedQuiet, Apart
<1>11. Frozen'
  BY <1>1, <1>3, <1>4, <1>5, FrozenWorks, Apart
<1>12. Confirmed'
  BY <1>1, <1>2, <1>3, <1>4, <1>5, ConfirmedWorks
<1>13. Polling'
  BY <1>1, <1>4, <1>5, PollingWorks
<1> QED
  BY <1>6, <1>7, <1>8, <1>9, <1>10, <1>11, <1>12, <1>13


\* A question is of its phase.
LEMMA Asks ==
  ASSUME IInv, NEW i \in Ids, proc[i].run # "off", Takes1(i), Head(inbox[i]).do \in Protocol
  PROVE  /\ Head(inbox[i]).do \in Calls(phase) /\ i \in Party
         /\ Head(inbox[i]).do \in Calls(phase) => Len(inbox[i]) = 1
<1>1. i \in connections
  BY DEF IInv, Lives
<1>2. \A k \in DOMAIN inbox[i] : inbox[i][k].do \in Protocol =>
        k = Len(inbox[i]) /\ inbox[i][k].do \in Calls(phase) /\ i \in Party
  BY <1>1 DEF IInv, AskedOnce
<1>3. Head(inbox[i]) = inbox[i][1] /\ 1 \in DOMAIN inbox[i]
  BY TakesEffect DEF IInv
<1> QED
  BY <1>2, <1>3

LEMMA Questions ==
  ASSUME NEW p \in Phases
  PROVE  /\ "prepare" \in Calls(p) => p = "prepare"
         /\ "prepare_delete" \in Calls(p) => p = "delete_prepare"
         /\ "abort" \in Calls(p) => p \in {"abort", "delete_abort"}
         /\ "stop" \in Calls(p) \/ "retire" \in Calls(p) => p = "commit"
         /\ "delete" \in Calls(p) => p = "delete_commit"
         /\ p \in {"prepare", "delete_prepare"} => Replies(p) = "prepared"
         /\ p \in {"abort", "delete_abort"} => Replies(p) = "aborted"
         /\ p \in Ending => Replies(p) = "shutdown"
         /\ Replies("open") = "none" /\ Calls("open") = {}
BY DEF Phases, Calls, Replies, Ending

LEMMA ObeyPrepareStep ==
  ASSUME IInv, NEW i \in Ids, ObeyPrepare(i)
  PROVE  IInv'
<1> USE DEF IInv
<1> DEFINE c    == catalog[i]
           p    == [proc[i] EXCEPT !.prepared = PrepareOk(i)]
           e    == Event(i, "prepared", PrepareOk(i), 0)
           more == <<e>>
<1>1. /\ p \in Process /\ p.run = proc[i].run /\ p.busy = proc[i].busy /\ p.prepared = PrepareOk(i)
      /\ p.usage = proc[i].usage /\ (p.prepared => ~p.busy)
  BY Bumped DEF Process, PrepareOk
<1>2. c \in Record /\ c = catalog[i]
  BY Bumped
<1>3. /\ more \in Seq(Events) /\ DOMAIN more = {1} /\ Len(more) = 1 /\ more[1] = e
      /\ e.id = i /\ e.kind = "prepared" /\ e.ok = PrepareOk(i)
  <2>2. e \in Events /\ e.id = i /\ e.kind = "prepared" /\ e.ok = PrepareOk(i)
    BY DEF Event, Events, PrepareOk
  <2> HIDE DEF e
  <2> QED
    BY <2>2
<1>4. /\ proc[i].run = "on" /\ Takes1(i) /\ Head(inbox[i]).do \in {"prepare", "prepare_delete"}
      /\ proc' = [proc EXCEPT ![i] = p] /\ catalog' = [catalog EXCEPT ![i] = c]
      /\ events' = events \o more
      /\ UNCHANGED <<up, service, asked, accepted, commands, faults, dead, nextHome, turns, lease, worked, handled>>
  BY DEF ObeyPrepare, Obeys, Takes1, Report, Elsewhere, TypeOK
<1> HIDE DEF p, c, more, e
<1>5. Works(i, p, c, more)
  BY <1>1, <1>2, <1>3, <1>4 DEF Works
<1>a. /\ phase \in {"prepare", "delete_prepare"} /\ Replies(phase) = "prepared" /\ i \in Party
      /\ Head(inbox[i]).do \in Protocol /\ Head(inbox[i]).do \in Calls(phase)
  <2>1. Head(inbox[i]).do \in Protocol
    BY <1>4 DEF Protocol
  <2> QED
    BY <1>4, <2>1, Asks, Questions DEF TypeOK
<1>b. /\ AskedOnce' /\ inbox'[i] = <<>> /\ i \notin Counted
      /\ \A k \in DOMAIN events : events[k].id = i => events[k].kind \notin Phased
  BY <1>3, <1>4, <1>5, <1>a, AskedAnswers
<1>6. TypeOK'
  BY <1>4, <1>5, TypeWorks DEF TypeOK
<1>7. Lives'
  BY <1>1, <1>3, <1>4, <1>5, LivesWorks
<1>8. TurnsExclusive'
  BY <1>1, <1>4, <1>5, WorksEffect, TurnsKept
<1>9. HomesApart'
  BY <1>1, <1>2, <1>4, <1>5, HomesWorks
<1>10. AskedOnce'
  BY <1>b
<1>11. Frozen'
  <2>1. p.prepared => ~p.busy
    BY <1>1
  <2> QED
    BY <1>1, <1>3, <1>5, <1>a, <1>b, <2>1, FrozenAnswers
<1>12. Confirmed'
  <2>1. ASSUME p.prepared, removing = i PROVE c.rev = asked.rev /\ inbox'[i] = <<>>
    <3>1. phase = "delete_prepare" /\ i \in connections
      BY <1>4, <1>a, <2>1, IdsAre DEF Lives
    <3>2. Head(inbox[i]).do = "prepare_delete"
      BY <1>4, <1>a, <3>1, Questions DEF TypeOK
    <3>3. Head(inbox[i]) = inbox[i][1] /\ 1 \in DOMAIN inbox[i]
      BY <1>4, TakesEffect
    <3>4. Head(inbox[i]).rev = asked.rev
      BY <3>1, <3>2, <3>3 DEF Confirmed
    <3> QED
      BY <1>1, <1>2, <1>b, <2>1, <3>2, <3>4 DEF PrepareOk
  <2> QED
    BY <1>1, <1>2, <1>3, <1>4, <1>5, <2>1, ConfirmedWorks
<1>13. Polling'
  BY <1>1, <1>4, <1>5, PollingWorks
<1> QED
  BY <1>6, <1>7, <1>8, <1>9, <1>10, <1>11, <1>12, <1>13

LEMMA ObeyAbortStep ==
  ASSUME IInv, NEW i \in Ids, ObeyAbort(i)
  PROVE  IInv'
<1> USE DEF IInv
<1> DEFINE c    == catalog[i]
           p    == [proc[i] EXCEPT !.prepared = FALSE]
           e    == Event(i, "aborted", TRUE, 0)
           more == <<e>>
<1>1. /\ p \in Process /\ p.run = proc[i].run /\ p.busy = proc[i].busy /\ ~p.prepared
      /\ p.usage = proc[i].usage
  BY Bumped DEF Process
<1>2. c \in Record /\ c = catalog[i]
  BY Bumped
<1>3. /\ more \in Seq(Events) /\ DOMAIN more = {1} /\ Len(more) = 1 /\ more[1] = e
      /\ e.id = i /\ e.kind = "aborted" /\ e.ok = TRUE
  <2>2. e \in Events /\ e.id = i /\ e.kind = "aborted" /\ e.ok = TRUE
    BY DEF Event, Events
  <2> HIDE DEF e
  <2> QED
    BY <2>2
<1>4. /\ proc[i].run = "on" /\ Takes1(i) /\ Head(inbox[i]).do \in {"abort"}
      /\ proc' = [proc EXCEPT ![i] = p] /\ catalog' = [catalog EXCEPT ![i] = c]
      /\ events' = events \o more
      /\ UNCHANGED <<up, service, asked, accepted, commands, faults, dead, nextHome, turns, lease, worked, handled>>
  BY DEF ObeyAbort, Obeys, Takes1, Report, Elsewhere, TypeOK, AbortReply
<1> HIDE DEF p, c, more, e
<1>5. Works(i, p, c, more)
  BY <1>1, <1>2, <1>3, <1>4 DEF Works
<1>a. /\ phase \in {"abort", "delete_abort"} /\ Replies(phase) = "aborted" /\ i \in Party
      /\ Head(inbox[i]).do \in Protocol /\ Head(inbox[i]).do \in Calls(phase)
  <2>1. Head(inbox[i]).do \in Protocol
    BY <1>4 DEF Protocol
  <2> QED
    BY <1>4, <2>1, Asks, Questions DEF TypeOK
<1>b. /\ AskedOnce' /\ inbox'[i] = <<>> /\ i \notin Counted
      /\ \A k \in DOMAIN events : events[k].id = i => events[k].kind \notin Phased
  BY <1>3, <1>4, <1>5, <1>a, AskedAnswers
<1>6. TypeOK'
  BY <1>4, <1>5, TypeWorks DEF TypeOK
<1>7. Lives'
  BY <1>1, <1>3, <1>4, <1>5, LivesWorks
<1>8. TurnsExclusive'
  BY <1>1, <1>4, <1>5, WorksEffect, TurnsKept
<1>9. HomesApart'
  BY <1>1, <1>2, <1>4, <1>5, HomesWorks
<1>10. AskedOnce'
  BY <1>b
<1>11. Frozen'
  <2>1. p.prepared => ~p.busy
    BY <1>1
  <2> QED
    BY <1>1, <1>3, <1>5, <1>a, <1>b, <2>1, FrozenAnswers
<1>12. Confirmed'
  BY <1>1, <1>2, <1>3, <1>4, <1>5, ConfirmedWorks
<1>13. Polling'
  BY <1>1, <1>4, <1>5, PollingWorks
<1> QED
  BY <1>6, <1>7, <1>8, <1>9, <1>10, <1>11, <1>12, <1>13


LEMMA ObeyShutdownStep ==
  ASSUME IInv, NEW i \in Ids, ObeyShutdown(i)
  PROVE  IInv'
<1> USE DEF IInv
<1> DEFINE do   == Head(inbox[i]).do
           ok   == ~proc[i].busy /\ (do = "delete" => proc[i].prepared)
           gone == [catalog[i] EXCEPT !.deleted = (do = "delete"),
                                      !.home = IF do = "retire" THEN 0 ELSE @]
           c    == IF ok THEN gone ELSE catalog[i]
           p    == IF ok THEN [proc[i] EXCEPT !.run = "closing"] ELSE proc[i]
           e    == Event(i, "shutdown", ok, 0)
           more == <<e>>
<1>0. /\ proc[i].run = "on" /\ Takes1(i) /\ do \in {"stop", "retire", "delete"}
      /\ proc' = [proc EXCEPT ![i] = p] /\ catalog' = [catalog EXCEPT ![i] = c]
      /\ dead' = (IF ok /\ do # "stop" THEN dead \cup {catalog[i].home} ELSE dead)
      /\ events' = events \o more
      /\ UNCHANGED <<up, service, asked, accepted, commands, faults, nextHome, turns, lease, worked, handled>>
  BY DEF ObeyShutdown, Obeys, Takes1, Report, Elsewhere, TypeOK
<1>1. /\ p \in Process /\ (p.run = "closing" \/ p.run = "on") /\ p.busy = proc[i].busy
      /\ p.prepared = proc[i].prepared /\ p.usage = proc[i].usage
      /\ p.run = "closing" => ok
      /\ ok => p.run = "closing"
  BY <1>0, Bumped DEF Process
<1>2. /\ c \in Record /\ c.rev = catalog[i].rev
      /\ ~ok => c = catalog[i]
      /\ ok => c.deleted = (do = "delete") /\ c.home = (IF do = "retire" THEN 0 ELSE catalog[i].home)
  BY Bumped DEF Record
<1>3. /\ more \in Seq(Events) /\ DOMAIN more = {1} /\ Len(more) = 1 /\ more[1] = e
      /\ e.id = i /\ e.kind = "shutdown"
  <2>2. e \in Events /\ e.id = i /\ e.kind = "shutdown"
    BY DEF Event, Events
  <2> HIDE DEF e
  <2> QED
    BY <2>2
<1>4. p.run = "closing" => ~p.busy
  BY <1>1
<1> HIDE DEF p, c, more, e, ok, do
<1>5. Works(i, p, c, more)
  BY <1>0, <1>1, <1>2, <1>3 DEF Works
<1>a. phase \in Ending /\ Replies(phase) = "shutdown" /\ i \in Party /\ Head(inbox[i]).do \in Protocol
  <2>1. Head(inbox[i]).do \in Protocol
    BY <1>0 DEF Protocol, do
  <2> QED
    BY <1>0, <2>1, Asks, Questions, SMTT(20) DEF TypeOK, Ending, do
<1>6. TypeOK'
  <2>1. dead' \in SUBSET Nat
    BY <1>0, Bumped DEF TypeOK
  <2> QED
    BY <1>0, <1>5, <2>1, TypeWorks DEF TypeOK
<1>7. Lives'
  BY <1>0, <1>1, <1>3, <1>4, <1>5, <1>a, LivesWorks
<1>8. TurnsExclusive'
  BY <1>0, <1>1, <1>5, WorksEffect, TurnsKept
<1>9. HomesApart'
  <2>1. /\ catalog'[i] = c /\ proc'[i] = p
        /\ \A j \in Ids : j # i => catalog'[j] = catalog[j] /\ proc'[j] = proc[j]
    BY <1>5, WorksEffect
  <2>2. catalog[i].home # 0 /\ ~catalog[i].deleted /\ catalog[i].home \notin dead /\ catalog[i].home < nextHome
    BY <1>0 DEF HomesApart
  <2>3. \A j \in Ids : j # i => catalog[j].home # catalog[i].home
    BY <2>2 DEF HomesApart
  <2>4. c.home \in {0, catalog[i].home}
    BY <1>2
  <2>5. \A h \in dead' : h # 0 /\ h < nextHome
    BY <1>0, <2>2 DEF HomesApart
  <2>6. c.home # 0 /\ ~c.deleted => c.home \notin dead'
    BY <1>0, <1>2, <2>2
  <2>7. p.run = "on" => c.home # 0 /\ ~c.deleted
    BY <1>1, <1>2, <2>2
  <2>8. \A j \in Ids \ {i} : catalog[j].home # 0 /\ ~catalog[j].deleted => catalog[j].home \notin dead'
    BY <1>0, <2>3 DEF HomesApart
  <2>9. c.home < nextHome
    BY <2>2, <2>4 DEF HomesApart, TypeOK
  <2> QED
    BY <1>0, <2>1, <2>3, <2>4, <2>5, <2>6, <2>7, <2>8, <2>9 DEF HomesApart
<1>10. AskedOnce'
  BY <1>0, <1>3, <1>5, <1>a, AskedAnswers
<1>11. Frozen'
  <2>1. p.prepared => ~p.busy
    BY <1>1 DEF Frozen
  <2> QED
    BY <1>1, <1>3, <1>5, <2>1, FrozenWorks
<1>12. Confirmed'
  BY <1>0, <1>1, <1>2, <1>3, <1>5, ConfirmedWorks
<1>13. Polling'
  BY <1>0, <1>1, <1>5, PollingWorks DEF do
<1> QED
  BY <1>6, <1>7, <1>8, <1>9, <1>10, <1>11, <1>12, <1>13

LEMMA ObeyUsageStep ==
  ASSUME IInv, NEW i \in Ids, ObeyUsage(i)
  PROVE  IInv'
<1> USE DEF IInv
<1> DEFINE c    == catalog[i]
           do   == Head(inbox[i]).do
           p    == IF do = "usage" THEN proc[i] ELSE [proc[i] EXCEPT !.usage = TRUE]
           more == <<>>
<1>1. /\ p \in Process /\ p.run = proc[i].run /\ p.busy = proc[i].busy /\ p.prepared = proc[i].prepared
      /\ p.usage => proc[i].usage \/ do # "usage"
      /\ proc[i].usage => p.usage
      /\ do # "usage" => p.usage
  BY Bumped DEF Process
<1>2. c \in Record /\ c = catalog[i]
  BY Bumped
<1>3. more \in Seq(Events) /\ DOMAIN more = {} /\ events \in Seq(Events) /\ events \o more = events
  BY DEF TypeOK
<1>4. /\ proc[i].run = "on" /\ Takes1(i) /\ do \in {"usage_primary", "usage"}
      /\ proc' = [proc EXCEPT ![i] = p] /\ catalog' = [catalog EXCEPT ![i] = c]
      /\ events' = events
      /\ UNCHANGED <<up, service, asked, accepted, commands, faults, dead, nextHome, turns, lease, worked>>
      /\ handled' = handled \/ handled' = Append(handled, Head(inbox[i]).rev)
  BY DEF ObeyUsage, Obeys, Takes1, Elsewhere, TypeOK
<1> HIDE DEF p, c, more
<1>5. Works(i, p, c, more)
  BY <1>1, <1>2, <1>3, <1>4 DEF Works
<1>6. TypeOK'
  <2>1. Head(inbox[i]) \in Commands
    BY <1>4, TakesEffect
  <2>2. Head(inbox[i]).rev \in Nat
    BY <2>1 DEF Commands
  <2>3. handled' \in Seq(Nat)
    <3>1. handled \in Seq(Nat)
      BY DEF TypeOK
    <3>2. Append(handled, Head(inbox[i]).rev) \in Seq(Nat)
      BY <2>2, <3>1, Extend
    <3> QED
      BY <1>4, <3>1, <3>2
  <2> QED
    BY <1>4, <1>5, <2>3, TypeWorks DEF TypeOK
<1>7. Lives'
  BY <1>1, <1>3, <1>4, <1>5, LivesWorks
<1>8. TurnsExclusive'
  BY <1>1, <1>4, <1>5, WorksEffect, TurnsKept
<1>9. HomesApart'
  BY <1>1, <1>2, <1>4, <1>5, HomesWorks
<1>10. AskedOnce'
  BY <1>3, <1>4, <1>5, AskedQuiet DEF Protocol
<1>11. Frozen'
  <2>1. p.prepared => ~p.busy
    BY <1>1 DEF Frozen
  <2> QED
    BY <1>1, <1>3, <1>5, <2>1, FrozenWorks
<1>12. Confirmed'
  BY <1>1, <1>2, <1>3, <1>4, <1>5, ConfirmedWorks
<1>13. Polling'
  <2>1. do = "usage_primary" => Promoted(i)
    BY <1>4, TakesEffect DEF Promoted
  <2> QED
    BY <1>1, <1>4, <1>5, <2>1, PollingWorks
<1> QED
  BY <1>6, <1>7, <1>8, <1>9, <1>10, <1>11, <1>12, <1>13

LEMMA ObeyDecisionStep ==
  ASSUME IInv, NEW i \in Ids, NEW ok \in BOOLEAN, ObeyDecision(i, ok)
  PROVE  IInv'
<1> USE DEF IInv
<1> DEFINE c    == IF ok THEN [catalog[i] EXCEPT !.rev = @ + 1] ELSE catalog[i]
           p    == IF ok /\ proc[i].busy THEN [proc[i] EXCEPT !.busy = FALSE] ELSE proc[i]
           e    == Event(i, "state", TRUE, c.rev)
           more == <<e>>
<1>1. /\ p \in Process /\ p.run = proc[i].run /\ p.prepared = proc[i].prepared /\ p.usage = proc[i].usage
      /\ p.busy => proc[i].busy
      /\ ok /\ proc[i].busy => p.busy = FALSE
      /\ ~(ok /\ proc[i].busy) => p = proc[i]
  BY Bumped DEF Process
<1>2. c \in Record /\ c.home = catalog[i].home /\ c.deleted = catalog[i].deleted
  BY Bumped
<1>3. /\ more \in Seq(Events) /\ DOMAIN more = {1} /\ Len(more) = 1 /\ more[1] = e
      /\ e.id = i /\ e.kind = "state"
  <2> HIDE DEF c
  <2>1. c.rev \in Nat
    BY <1>2 DEF Record
  <2>2. e \in Events /\ e.id = i /\ e.kind = "state"
    BY <2>1 DEF Event, Events
  <2> HIDE DEF e
  <2> QED
    BY <2>2
<1>4. /\ proc[i].run = "on" /\ Takes1(i) /\ Head(inbox[i]).do = "decide"
      /\ proc' = [proc EXCEPT ![i] = p] /\ catalog' = [catalog EXCEPT ![i] = c]
      /\ IF ok /\ proc[i].busy THEN closeTurn ELSE UNCHANGED <<turns, lease>>
      /\ events' = events \o more
      /\ UNCHANGED <<up, service, asked, accepted, commands, faults, dead, nextHome, worked, handled>>
  <2>1. /\ proc[i].run = "on" /\ Takes1(i) /\ Head(inbox[i]).do = "decide"
        /\ IF ok /\ proc[i].busy THEN closeTurn ELSE UNCHANGED <<turns, lease>>
        /\ UNCHANGED <<up, service, asked, accepted, commands, faults, dead, nextHome, worked, handled>>
    BY DEF ObeyDecision, Obeys, Takes1, Elsewhere
  <2>2. proc' = [proc EXCEPT ![i] = p] /\ catalog' = [catalog EXCEPT ![i] = c]
    BY DEF ObeyDecision, Bump, TypeOK
  <2>3. catalog'[i] = c
    BY <2>2 DEF TypeOK
  <2>4. events' = events \o <<Event(i, "state", TRUE, catalog'[i].rev)>>
    BY DEF ObeyDecision, Report
  <2> QED
    BY <2>1, <2>2, <2>3, <2>4
<1> HIDE DEF p, c, more, e
<1>5. Works(i, p, c, more)
  BY <1>1, <1>2, <1>3, <1>4 DEF Works
<1>6. TypeOK'
  <2>1. turns' \in Nat /\ lease' \in {"none", "turns", "shutdown", "account"}
    BY <1>4, TurnsCounted DEF closeTurn, TypeOK
  <2> QED
    BY <1>4, <1>5, <2>1, TypeWorks DEF TypeOK
<1>7. Lives'
  BY <1>1, <1>3, <1>4, <1>5, LivesWorks
<1>8. TurnsExclusive'
  <2>1. CASE ok /\ proc[i].busy
    BY <1>1, <1>4, <1>5, <2>1, WorksEffect, TurnsEnded
  <2>2. CASE ~(ok /\ proc[i].busy)
    BY <1>1, <1>4, <1>5, <2>2, WorksEffect, TurnsKept
  <2> QED
    BY <2>1, <2>2
<1>9. HomesApart'
  BY <1>1, <1>2, <1>4, <1>5, HomesWorks
<1>10. AskedOnce'
  BY <1>3, <1>4, <1>5, AskedQuiet, Apart DEF Protocol
<1>11. Frozen'
  <2>1. p.prepared => ~p.busy
    BY <1>1 DEF Frozen
  <2> QED
    BY <1>1, <1>3, <1>4, <1>5, <2>1, FrozenWorks, Apart
<1>12. Confirmed'
  <2>1. ~(p.prepared /\ removing = i)
    <3>1. Head(inbox[i]) = inbox[i][1] /\ 1 \in DOMAIN inbox[i]
      BY <1>4, TakesEffect
    <3>2. removing = i /\ proc[i].prepared => Head(inbox[i]).do \in Protocol
      BY <3>1, IdsAre DEF Confirmed
    <3> QED
      BY <1>1, <1>4, <3>2 DEF Protocol
  <2> QED
    BY <1>1, <1>2, <1>3, <1>4, <1>5, <2>1, ConfirmedWorks
<1>13. Polling'
  BY <1>1, <1>4, <1>5, PollingWorks
<1> QED
  BY <1>6, <1>7, <1>8, <1>9, <1>10, <1>11, <1>12, <1>13


-----------------------------------------------------------------------------
(* The steps of the coordinator with an event.                             *)

\* The first event is taken; no connection does anything.
Served == /\ up /\ events # <<>> /\ events' = Tail(events)
          /\ UNCHANGED <<Beside, connections, primary, proc, catalog>>

LEMMA ServedEffect ==
  ASSUME TypeOK, events # <<>>, events' = Tail(events)
  PROVE  /\ events' \in Seq(Events) /\ Head(events) \in Events /\ Head(events) = events[1]
         /\ Head(events).id \in Ids /\ Head(events).n \in Nat /\ Head(events).ok \in BOOLEAN
         /\ 1 \in DOMAIN events /\ DOMAIN events = 1..Len(events) /\ Len(events) \in Nat \ {0}
         /\ DOMAIN events' = 1..(Len(events) - 1)
         /\ \A k \in DOMAIN events' : k + 1 \in DOMAIN events /\ events'[k] = events[k + 1]
         /\ \A k \in DOMAIN events : k # 1 => k - 1 \in DOMAIN events' /\ events'[k - 1] = events[k]
<1>1. events \in Seq(Events)
  BY DEF TypeOK
<1>2. Head(events) \in Events
  BY <1>1, Shrink
<1>3. Head(events).id \in Ids /\ Head(events).n \in Nat /\ Head(events).ok \in BOOLEAN
  BY <1>2 DEF Events
<1> HIDE DEF Events
<1> QED
  BY <1>1, <1>2, <1>3, Shrink

LEMMA LivesServed ==
  ASSUME TypeOK, Lives, Served, ~(Head(events).kind = "ended" /\ ~Head(events).ok),
         \/ UNCHANGED <<phase, removing>>
         \/ /\ phase \notin Ending
            /\ removing' # NoId => removing' \in connections
            /\ removing' # NoId <=> phase' \in {"delete_prepare", "delete_abort", "delete_commit"}
  PROVE  Lives'
<1>0. up /\ UNCHANGED <<up, connections, primary, proc>> /\ events # <<>> /\ events' = Tail(events)
  BY DEF Served, Beside
<1>1. Doomed => Doomed'
  BY <1>0, ServedEffect DEF Doomed
<1>2. ASSUME NEW k \in DOMAIN events'
      PROVE  /\ events'[k].id \in connections /\ proc[events'[k].id].run # "starting"
             /\ events'[k].kind = "ended" =>
                  /\ proc[events'[k].id].run = "off"
                  /\ \A l \in DOMAIN events' : events'[l].id = events'[k].id => l <= k
  <2>1. k + 1 \in DOMAIN events /\ events'[k] = events[k + 1] /\ k \in Nat
    BY <1>0, ServedEffect
  <2>2. ASSUME events'[k].kind = "ended", NEW l \in DOMAIN events', events'[l].id = events'[k].id
        PROVE  l <= k
    <3>1. l + 1 \in DOMAIN events /\ events'[l] = events[l + 1] /\ l \in Nat
      BY <1>0, ServedEffect
    <3>2. l + 1 <= k + 1
      BY <2>1, <2>2, <3>1 DEF Lives
    <3> QED
      BY <2>1, <3>1, <3>2
  <2> QED
    BY <2>1, <2>2 DEF Lives
<1>3. ASSUME NEW i \in Ids
      PROVE  /\ proc[i].run # "off" => i \in connections
             /\ proc[i].run # "on" => ~proc[i].busy
             /\ proc[i].run \in {"off", "starting"} => ~proc[i].prepared
             /\ proc[i].run = "off" => ~proc[i].usage
             /\ proc[i].run = "closing" => phase' \in Ending /\ i \in Party'
             /\ i \in connections /\ proc[i].run = "off" => Doomed' \/ (phase' \in Ending /\ i \in Party')
  <2>1. CASE UNCHANGED <<phase, removing>>
    <3>1. Party' = Party
      BY <1>0, <2>1 DEF Party
    <3> QED
      BY <1>1, <2>1, <3>1 DEF Lives
  <2>2. CASE phase \notin Ending
    BY <1>1, <2>2 DEF Lives
  <2> QED
    BY <2>1, <2>2
<1>4. /\ removing' # NoId => removing' \in connections
      /\ removing' # NoId <=> phase' \in {"delete_prepare", "delete_abort", "delete_commit"}
  BY DEF Lives
<1> HIDE DEF Doomed, Party, Ending
<1> QED
  BY <1>0, <1>2, <1>3, <1>4 DEF Lives

LEMMA HomesServed ==
  ASSUME HomesApart, UNCHANGED <<dead, nextHome, catalog, proc>>
  PROVE  HomesApart'
BY DEF HomesApart

\* The first event, if an answer, was the only one of its connection.
LEMMA AnswersLeft ==
  ASSUME IInv, Served, NEW k \in DOMAIN events', events'[k].kind \in Phased
  PROVE  /\ k + 1 \in DOMAIN events /\ events'[k] = events[k + 1]
         /\ events'[k].kind = Replies(phase) /\ events'[k].id \in Party
         /\ inbox[events'[k].id] = <<>> /\ events'[k].id \notin Counted
         /\ Head(events).kind \in Phased => events'[k].id # Head(events).id
         /\ \A l \in DOMAIN events' :
              events'[l].kind \in Phased /\ events'[l].id = events'[k].id => l = k
<1>0. events # <<>> /\ events' = Tail(events) /\ TypeOK
  BY DEF Served, IInv
<1>1. k + 1 \in DOMAIN events /\ events'[k] = events[k + 1] /\ k \in Nat /\ k # 0
  BY <1>0, ServedEffect
<1>2. /\ events[k + 1].kind = Replies(phase) /\ events[k + 1].id \in Party
      /\ inbox[events[k + 1].id] = <<>> /\ events[k + 1].id \notin Counted
      /\ \A l \in DOMAIN events :
           events[l].kind \in Phased /\ events[l].id = events[k + 1].id => l = k + 1
  BY <1>1 DEF IInv, AskedOnce
<1>3. Head(events) = events[1] /\ 1 \in DOMAIN events
  BY <1>0, ServedEffect
<1>4. Head(events).kind \in Phased => events'[k].id # Head(events).id
  BY <1>1, <1>2, <1>3
<1>5. ASSUME NEW l \in DOMAIN events', events'[l].kind \in Phased, events'[l].id = events'[k].id
      PROVE  l = k
  <2>1. l + 1 \in DOMAIN events /\ events'[l] = events[l + 1] /\ l \in Nat
    BY <1>0, ServedEffect
  <2>2. l + 1 = k + 1
    BY <1>1, <1>2, <1>5, <2>1
  <2> QED
    BY <1>1, <2>1, <2>2
<1> QED
  BY <1>1, <1>2, <1>4, <1>5

LEMMA AnswerTaken ==
  ASSUME IInv, Served, Head(events).kind \in Phased
  PROVE  /\ Head(events).kind = Replies(phase) /\ Head(events).id \in Party
         /\ Head(events).id \in connections
         /\ inbox[Head(events).id] = <<>> /\ Head(events).id \notin Counted
<1>1. Head(events) = events[1] /\ 1 \in DOMAIN events
  BY ServedEffect DEF Served, IInv
<1> QED
  BY <1>1 DEF IInv, AskedOnce, Lives

\* The phase goes on, and at most the first answer was counted.
LEMMA AskedServed ==
  ASSUME IInv, Served, UNCHANGED <<phase, removing, inbox, aborted>> \/ (UNCHANGED <<phase, removing, inbox>> /\ phase # "prepare"),
         \/ Counted' = Counted
         \/ Counted' = Counted \cup {Head(events).id} /\ Head(events).kind \in Phased
  PROVE  AskedOnce'
<1>0. UNCHANGED <<phase, removing, inbox, connections>> /\ Party' = Party
  BY DEF Served, Party
<1>1. ASSUME NEW k \in DOMAIN events', events'[k].kind \in Phased
      PROVE  /\ events'[k].kind = Replies(phase) /\ events'[k].id \in Party
             /\ inbox[events'[k].id] = <<>> /\ events'[k].id \notin Counted'
             /\ \A l \in DOMAIN events' :
                  events'[l].kind \in Phased /\ events'[l].id = events'[k].id => l = k
  BY <1>1, AnswersLeft
<1>2. Counted' \subseteq connections /\ \A i \in Counted' : inbox[i] = <<>>
  BY AnswerTaken DEF IInv, AskedOnce
<1>3. phase = "prepare" => aborted' = {}
  BY DEF IInv, AskedOnce
<1>4. \A i \in connections : \A k \in DOMAIN inbox[i] : inbox[i][k].do \in Protocol =>
        k = Len(inbox[i]) /\ inbox[i][k].do \in Calls(phase) /\ i \in Party
  BY DEF IInv, AskedOnce
<1> HIDE DEF Counted, Party, Calls, Replies
<1> QED
  BY <1>0, <1>1, <1>2, <1>3, <1>4 DEF AskedOnce

\* The next phase begins: no answer is left.
LEMMA AskedAnew ==
  ASSUME \A k \in DOMAIN events' : events'[k].kind \notin Phased,
         Counted' = {}, phase' = "prepare" => aborted' = {},
         \A i \in connections' : \A k \in DOMAIN inbox'[i] : inbox'[i][k].do \in Protocol =>
           k = Len(inbox'[i]) /\ inbox'[i][k].do \in Calls(phase)' /\ i \in Party'
  PROVE  AskedOnce'
<1> HIDE DEF Counted, Party, Calls
<1> QED
  BY DEF AskedOnce


LEMMA FrozenServed ==
  ASSUME IInv, Served, UNCHANGED <<phase, removing>>,
         phase = "prepare" => \A i \in prepared' : Holds(i),
         phase = "abort" => \A i \in aborted' : ~proc[i].prepared
  PROVE  Frozen'
<1>0. UNCHANGED <<phase, removing, connections, proc>> /\ Party' = Party
      /\ events # <<>> /\ events' = Tail(events) /\ TypeOK /\ Frozen
  BY DEF Served, Party, IInv
<1>1. ASSUME NEW k \in DOMAIN events'
      PROVE  /\ events'[k].kind = "prepared" /\ events'[k].ok =>
                  proc[events'[k].id].prepared \/ proc[events'[k].id].run = "off"
             /\ events'[k].kind = "aborted" => ~proc[events'[k].id].prepared
  <2>1. k + 1 \in DOMAIN events /\ events'[k] = events[k + 1]
    BY <1>0, ServedEffect
  <2> QED
    BY <1>0, <2>1 DEF Frozen, Holds
<1> HIDE DEF Party
<1> QED
  BY <1>0, <1>1 DEF Frozen, Holds

\* A phase ends: with it, what was said of those prepared and aborted.
LEMMA FrozenAnew ==
  ASSUME IInv, Served, \A k \in DOMAIN events' : events'[k].kind \notin Phased,
         phase' # "prepare", phase' = "abort" => aborted' = {},
         phase' = "commit" => \A i \in connections : Holds(i),
         \A i \in Ids : proc[i].prepared => phase' # "open" /\ i \in Party'
  PROVE  Frozen'
<1>0. UNCHANGED <<connections, proc>> /\ Frozen
  BY DEF Served, IInv
<1>1. \A k \in DOMAIN events' : events'[k].kind # "prepared" /\ events'[k].kind # "aborted"
  BY DEF Phased
<1> HIDE DEF Party
<1> QED
  BY <1>0, <1>1 DEF Frozen, Holds

LEMMA ConfirmedServed ==
  ASSUME IInv, Served,
         \A i \in connections : \/ view'[i].home = view[i].home
                                \/ /\ i = Head(events).id /\ Head(events).kind = "ready"
                                   /\ view'[i].home = Head(events).n,
         \A i \in connections : \A k \in DOMAIN inbox'[i] : inbox'[i][k].do = "prepare_delete" =>
           \E l \in DOMAIN inbox[i] : inbox'[i][k] = inbox[i][l],
         removing' \in {removing, NoId},
         removing' # NoId /\ proc[removing].prepared =>
           \A k \in DOMAIN inbox'[removing] : inbox'[removing][k].do \in Protocol
  PROVE  Confirmed'
<1>0. /\ UNCHANGED <<connections, proc, catalog, asked>> /\ TypeOK /\ Confirmed /\ Lives
      /\ events # <<>> /\ events' = Tail(events)
  BY DEF Served, Beside, IInv
<1>1. Head(events) = events[1] /\ 1 \in DOMAIN events
  BY <1>0, ServedEffect
<1>2. ASSUME NEW i \in connections
      PROVE  /\ proc[i].run = "starting" => view'[i].home = 0
             /\ proc[i].run = "on" /\ view'[i].home # 0 => view'[i].home = catalog[i].home
             /\ \A k \in DOMAIN inbox'[i] :
                  inbox'[i][k].do = "prepare_delete" => inbox'[i][k].rev = asked.rev
  <2>1. \A k \in DOMAIN inbox'[i] :
          inbox'[i][k].do = "prepare_delete" => inbox'[i][k].rev = asked.rev
    BY <1>0 DEF Confirmed
  <2>2. CASE view'[i].home = view[i].home
    BY <1>0, <2>1, <2>2 DEF Confirmed
  <2>3. CASE i = Head(events).id /\ Head(events).kind = "ready" /\ view'[i].home = Head(events).n
    BY <1>0, <1>1, <2>1, <2>3 DEF Confirmed, Lives
  <2> QED
    BY <2>2, <2>3
<1>3. ASSUME NEW k \in DOMAIN events', events'[k].kind = "ready", proc[events'[k].id].run = "on"
      PROVE  events'[k].n = catalog[events'[k].id].home
  <2>1. k + 1 \in DOMAIN events /\ events'[k] = events[k + 1]
    BY <1>0, ServedEffect
  <2> QED
    BY <1>0, <1>3, <2>1 DEF Confirmed
<1>4. removing' # NoId =>
        /\ asked.id = removing' /\ proc[removing'].run # "starting"
        /\ proc[removing'].run = "on" => catalog[removing'].home = asked.home
        /\ proc[removing'].prepared =>
             /\ catalog[removing'].rev = asked.rev
             /\ \A k \in DOMAIN inbox'[removing'] : inbox'[removing'][k].do \in Protocol
  BY <1>0 DEF Confirmed
<1>5. asked = NoQuestion \/ asked.home # 0
  BY <1>0 DEF Confirmed
<1> HIDE DEF NoQuestion, Protocol
<1> QED
  BY <1>0, <1>2, <1>3, <1>4, <1>5 DEF Confirmed

LEMMA PollingServed ==
  ASSUME IInv, Served, \A i \in connections : Promoted(i)' <=> Promoted(i)
  PROVE  Polling'
<1>0. UNCHANGED <<connections, proc, primary, up>> /\ up /\ Polling /\ primary \in connections
  BY DEF Served, Beside, IInv, Lives
<1>1. Promoted(primary)' <=> Promoted(primary)
  BY <1>0
<1> HIDE DEF Promoted
<1> QED
  BY <1>0, <1>1 DEF Polling

LEMMA ReadyStep ==
  ASSUME IInv, Ready \/ State
  PROVE  IInv'
<1> USE DEF IInv
<1>0. /\ Served /\ Head(events).kind \in {"ready", "state"}
      /\ UNCHANGED <<phase, removing, prepared, refused, aborted, acknowledged, ended, retire,
                     deferredUsage, inbox, lease>>
  BY DEF Ready, State, Takes, Drop, Served, shutdown
<1>1. events # <<>> /\ events' = Tail(events) /\ UNCHANGED <<Beside, connections, primary, proc, catalog>>
  BY <1>0 DEF Served
<1>2. PICK i \in Ids, n \in Nat : i = Head(events).id /\ n = Head(events).n
  BY <1>1, ServedEffect
<1>3. /\ view' \in [Ids -> Shown] /\ activate' \in SUBSET Ids /\ selected' \in Ids \cup {NoId}
      /\ \A j \in Ids : \/ view'[j].home = view[j].home
                        \/ j = i /\ Head(events).kind = "ready" /\ view'[j].home = n
  <2>1. view \in [Ids -> Shown] /\ view[i] \in Shown
    BY DEF TypeOK
  <2>2. [view[i] EXCEPT !.home = n] \in Shown /\ [view[i] EXCEPT !.rev = n] \in Shown
        /\ [view[i] EXCEPT !.home = n].home = n /\ [view[i] EXCEPT !.rev = n].home = view[i].home
    BY <2>1 DEF Shown
  <2>3. CASE Ready
    <3>1. view' = [view EXCEPT ![i] = [view[i] EXCEPT !.home = n]] /\ UNCHANGED <<activate, selected>>
          /\ Head(events).kind = "ready"
      BY <1>2, <2>1, <2>3 DEF Ready, Takes
    <3> QED
      BY <2>1, <2>2, <3>1 DEF TypeOK
  <2>4. CASE State
    <3>1. view' = [view EXCEPT ![i] = [view[i] EXCEPT !.rev = n]]
      BY <1>2, <2>1, <2>4 DEF State
    <3>2. activate' \in SUBSET Ids /\ selected' \in Ids \cup {NoId}
      BY <1>2, <2>4, IdsAre DEF State, TypeOK
    <3> QED
      BY <2>1, <2>2, <3>1, <3>2
  <2> QED
    BY <2>3, <2>4
<1>4. TypeOK'
  BY <1>0, <1>1, <1>3, ServedEffect DEF TypeOK, Beside
<1>5. Lives'
  BY <1>0, LivesServed
<1>6. TurnsExclusive'
  BY <1>0, <1>1, TurnsKept DEF Beside
<1>7. HomesApart'
  BY <1>1, HomesServed DEF Beside
<1>8. AskedOnce'
  <2>1. Counted' = Counted
    BY <1>0 DEF Counted
  <2> QED
    BY <1>0, <2>1, AskedServed
<1>9. Frozen'
  <2>1. phase = "prepare" => \A j \in prepared : Holds(j)
    BY DEF Frozen
  <2>2. phase = "abort" => \A j \in aborted : ~proc[j].prepared
    BY DEF Frozen
  <2> QED
    BY <1>0, <2>1, <2>2, FrozenServed
<1>10. Confirmed'
  <2>1. \A j \in connections : \/ view'[j].home = view[j].home
                               \/ /\ j = Head(events).id /\ Head(events).kind = "ready"
                                  /\ view'[j].home = Head(events).n
    BY <1>2, <1>3 DEF TypeOK
  <2>2. removing # NoId /\ proc[removing].prepared =>
          \A k \in DOMAIN inbox[removing] : inbox[removing][k].do \in Protocol
    BY DEF Confirmed
  <2> QED
    BY <1>0, <2>1, <2>2, ConfirmedServed
<1>11. Polling'
  <2>1. \A j \in connections : Promoted(j)' <=> Promoted(j)
    BY <1>0 DEF Promoted
  <2> QED
    BY <1>0, <2>1, PollingServed
<1> QED
  BY <1>4, <1>5, <1>6, <1>7, <1>8, <1>9, <1>10, <1>11


\* Something is noted in the course of a phase.
LEMMA NotedStep ==
  ASSUME IInv, Served, ~(Head(events).kind = "ended" /\ ~Head(events).ok),
         UNCHANGED <<selected, activate, phase, removing, retire, deferredUsage, view, inbox, lease>>,
         prepared' \in SUBSET Ids, refused' \in SUBSET Ids, aborted' \in SUBSET Ids,
         acknowledged' \in SUBSET Ids, ended' \in SUBSET Ids,
         aborted' = aborted \/ phase # "prepare",
         \/ Counted' = Counted
         \/ Counted' = Counted \cup {Head(events).id} /\ Head(events).kind \in Phased,
         phase = "prepare" => \A i \in prepared' : Holds(i),
         phase = "abort" => \A i \in aborted' : ~proc[i].prepared
  PROVE  IInv'
<1> USE DEF IInv
<1>1. events # <<>> /\ events' = Tail(events) /\ UNCHANGED <<Beside, connections, primary, proc, catalog>>
  BY DEF Served
<1>4. TypeOK'
  BY <1>1, ServedEffect DEF TypeOK, Beside
<1>5. Lives'
  BY LivesServed
<1>6. TurnsExclusive'
  BY <1>1, TurnsKept DEF Beside
<1>7. HomesApart'
  BY <1>1, HomesServed DEF Beside
<1>8. AskedOnce'
  BY AskedServed
<1>9. Frozen'
  BY FrozenServed
<1>10. Confirmed'
  <2>1. removing # NoId /\ proc[removing].prepared =>
          \A k \in DOMAIN inbox[removing] : inbox[removing][k].do \in Protocol
    BY DEF Confirmed
  <2> QED
    BY <2>1, ConfirmedServed
<1>11. Polling'
  <2>1. \A j \in connections : Promoted(j)' <=> Promoted(j)
    BY DEF Promoted
  <2> QED
    BY <2>1, PollingServed
<1> QED
  BY <1>4, <1>5, <1>6, <1>7, <1>8, <1>9, <1>10, <1>11

LEMMA AcknowledgedStep ==
  ASSUME IInv, Acknowledged \/ EndedShutdown
  PROVE  IInv'
<1>0. /\ Served /\ Head(events).kind \in {"shutdown", "ended"} /\ Head(events).ok
      /\ UNCHANGED <<selected, activate, phase, removing, retire, deferredUsage, view, inbox, lease,
                     prepared, refused, aborted>>
      /\ acknowledged' \in {acknowledged, acknowledged \cup {Head(events).id}}
      /\ ended' \in {ended, ended \cup {Head(events).id}}
  BY DEF Acknowledged, EndedShutdown, Takes, Drop, Served
<1>1. Head(events).id \in Ids /\ TypeOK
  BY <1>0, ServedEffect DEF Served, IInv
<1>2. acknowledged' \in SUBSET Ids /\ ended' \in SUBSET Ids /\ prepared' \in SUBSET Ids
      /\ refused' \in SUBSET Ids /\ aborted' \in SUBSET Ids
  BY <1>0, <1>1 DEF TypeOK
<1>3. Counted' = Counted
  BY <1>0 DEF Counted
<1>4. /\ phase = "prepare" => \A i \in prepared' : Holds(i)
      /\ phase = "abort" => \A i \in aborted' : ~proc[i].prepared
  BY <1>0 DEF IInv, Frozen
<1> QED
  BY <1>0, <1>2, <1>3, <1>4, NotedStep

LEMMA AbortedShutdownStep ==
  ASSUME IInv, AbortedShutdown
  PROVE  IInv'
<1> DEFINE i == Head(events).id
<1>0. /\ Served /\ Head(events).kind = "aborted" /\ phase = "abort" /\ aborted' = aborted \cup {i}
      /\ phase' = IF aborted \cup {i} = connections THEN "open" ELSE "abort"
      /\ UNCHANGED <<selected, activate, removing, retire, deferredUsage, view, inbox, lease,
                     prepared, refused, acknowledged, ended>>
  BY DEF AbortedShutdown, AllAborted, Takes, Drop, Served
<1>1. i \in Ids /\ TypeOK /\ events[1] = Head(events) /\ 1 \in DOMAIN events
      /\ events # <<>> /\ events' = Tail(events) /\ UNCHANGED <<Beside, connections, primary, proc, catalog>>
  BY <1>0, ServedEffect DEF Served, IInv
<1>2. ~proc[i].prepared /\ (\A j \in aborted : ~proc[j].prepared)
  BY <1>0, <1>1 DEF IInv, Frozen
<1>3. Head(events).kind \in Phased /\ removing = NoId /\ Party = connections
  BY <1>0 DEF Phased, IInv, Lives, Party
<1>4. aborted' \in SUBSET Ids
  BY <1>0, <1>1 DEF TypeOK
<1> HIDE DEF i
<1>5. CASE phase' = "abort"
  <2>1. UNCHANGED phase
    BY <1>0, <1>5
  <2>2. Counted' = Counted \cup {Head(events).id}
    BY <1>0, <1>5 DEF Counted, i
  <2>3. \A j \in aborted' : ~proc[j].prepared
    BY <1>0, <1>2
  <2>4. prepared' \in SUBSET Ids /\ refused' \in SUBSET Ids /\ acknowledged' \in SUBSET Ids
        /\ ended' \in SUBSET Ids
    BY <1>0, <1>1 DEF TypeOK
  <2> QED
    BY <1>0, <1>3, <1>4, <2>1, <2>2, <2>3, <2>4, NotedStep
<1>6. CASE phase' = "open" /\ aborted \cup {i} = connections
  <2> USE DEF IInv
  <2>1. ASSUME NEW k \in DOMAIN events' PROVE events'[k].kind \notin Phased
    <3>1. SUFFICES ASSUME events'[k].kind \in Phased PROVE FALSE
      OBVIOUS
    <3>2. events'[k].id \in connections /\ events'[k].id \notin aborted /\ events'[k].id # i
      BY <1>0, <1>3, <3>1, AnswersLeft DEF Counted, i
    <3> QED
      BY <1>6, <3>2
  <2>2. \A j \in connections : inbox[j] = <<>>
    <3>1. inbox[i] = <<>>
      BY <1>0, <1>3, AnswerTaken DEF i
    <3>2. \A j \in aborted : inbox[j] = <<>>
      BY <1>0 DEF AskedOnce, Counted
    <3> QED
      BY <1>6, <3>1, <3>2
  <2>3. \A j \in Ids : ~proc[j].prepared
    BY <1>2, <1>3, <1>6 DEF Frozen
  <2>4. TypeOK'
    BY <1>0, <1>1, <1>4, <1>6, ServedEffect DEF TypeOK, Beside, Phases
  <2>5. Lives'
    BY <1>0, <1>3, <1>6, LivesServed DEF Ending
  <2>6. TurnsExclusive'
    BY <1>0, <1>1, TurnsKept DEF Beside
  <2>7. HomesApart'
    BY <1>1, HomesServed DEF Beside
  <2>8. AskedOnce'
    <3>1. Counted' = {}
      BY <1>6 DEF Counted
    <3> QED
      BY <1>0, <1>1, <1>6, <2>1, <2>2, <3>1, AskedAnew
  <2>9. Frozen'
    BY <1>0, <1>6, <2>1, <2>3, FrozenAnew
  <2>10. Confirmed'
    BY <1>0, <1>3, ConfirmedServed
  <2>11. Polling'
    <3>1. \A j \in connections : Promoted(j)' <=> Promoted(j)
      BY <1>0 DEF Promoted
    <3> QED
      BY <1>0, <3>1, PollingServed
  <2> QED
    BY <2>4, <2>5, <2>6, <2>7, <2>8, <2>9, <2>10, <2>11
<1> QED
  BY <1>0, <1>5, <1>6


\* i is sent c.
LEMMA Sends ==
  ASSUME TypeOK, NEW i \in Ids, NEW c \in Commands, inbox'[i] = Append(inbox[i], c)
  PROVE  /\ inbox'[i] \in Seq(Commands) /\ Len(inbox[i]) \in Nat /\ Len(inbox'[i]) = Len(inbox[i]) + 1
         /\ DOMAIN inbox[i] = 1..Len(inbox[i]) /\ DOMAIN inbox'[i] = 1..(Len(inbox[i]) + 1)
         /\ \A k \in DOMAIN inbox[i] : inbox'[i][k] = inbox[i][k]
         /\ inbox'[i][Len(inbox[i]) + 1] = c
         /\ \A k \in DOMAIN inbox'[i] : k \notin DOMAIN inbox[i] => k = Len(inbox[i]) + 1
<1>1. inbox[i] \in Seq(Commands)
  BY DEF TypeOK
<1> HIDE DEF Commands
<1> QED
  BY <1>1, Extend

LEMMA SendOne ==
  ASSUME TypeOK, NEW i \in Ids, NEW c \in Commands, Send(i, c)
  PROVE  /\ inbox' \in [Ids -> Seq(Commands)] /\ inbox'[i] = Append(inbox[i], c)
         /\ \A j \in Ids : j # i => inbox'[j] = inbox[j]
<1>1. inbox \in [Ids -> Seq(Commands)] /\ inbox' = [inbox EXCEPT ![i] = Append(@, c)]
  BY DEF TypeOK, Send
<1>2. inbox'[i] = Append(inbox[i], c)
  BY <1>1
<1>3. inbox'[i] \in Seq(Commands)
  BY <1>2, Sends
<1> QED
  BY <1>1, <1>2, <1>3

LEMMA SendMany ==
  ASSUME TypeOK, NEW c \in [Ids -> Commands], SendAll(c)
  PROVE  /\ inbox' \in [Ids -> Seq(Commands)]
         /\ \A j \in connections : j \in Ids /\ c[j] \in Commands /\ inbox'[j] = Append(inbox[j], c[j])
         /\ \A j \in Ids \ connections : inbox'[j] = inbox[j]
<1>1. inbox \in [Ids -> Seq(Commands)] /\ connections \subseteq Ids
      /\ inbox' = [j \in Ids |-> IF j \in connections THEN Append(inbox[j], c[j]) ELSE inbox[j]]
  BY DEF TypeOK, SendAll
<1>2. ASSUME NEW j \in Ids PROVE inbox'[j] \in Seq(Commands)
  <2>1. CASE j \in connections
    <3>1. inbox'[j] = Append(inbox[j], c[j]) /\ c[j] \in Commands
      BY <1>1, <2>1
    <3> QED
      BY <3>1, Sends
  <2>2. CASE j \notin connections
    BY <1>1, <2>2
  <2> QED
    BY <2>1, <2>2
<1> HIDE DEF Commands
<1> QED
  BY <1>1, <1>2

LEMMA PreparedShutdownStep ==
  ASSUME IInv, PreparedShutdown
  PROVE  IInv'
<1> DEFINE i   == Head(events).id
           ok  == Head(events).ok
           yes == IF ok THEN prepared \cup {i} ELSE prepared
           no  == IF ok THEN refused ELSE refused \cup {i}
           go  == no = {} /\ lease = "none"
           c   == [j \in Ids |-> [do |-> IF ~go THEN "abort"
                                         ELSE IF j = retire THEN "retire" ELSE "stop", rev |-> 0]]
<1>0. /\ Served /\ Head(events).kind = "prepared" /\ phase = "prepare"
      /\ prepared' = yes /\ refused' = no
      /\ IF yes \cup no # connections THEN UNCHANGED <<phase, lease, inbox>>
         ELSE /\ phase' = (IF go THEN "commit" ELSE "abort")
              /\ lease' = (IF go THEN "shutdown" ELSE lease) /\ SendAll(c)
      /\ UNCHANGED <<selected, activate, removing, retire, deferredUsage, view, aborted, acknowledged, ended>>
  BY DEF PreparedShutdown, Agreed, Takes, Drop, Served
<1>1. i \in Ids /\ ok \in BOOLEAN /\ TypeOK /\ events[1] = Head(events) /\ 1 \in DOMAIN events
      /\ events # <<>> /\ events' = Tail(events) /\ UNCHANGED <<Beside, connections, primary, proc, catalog>>
  BY <1>0, ServedEffect DEF Served, IInv
<1>2. \A j \in yes : Holds(j)
  <2>1. ok => Holds(i)
    BY <1>0, <1>1 DEF IInv, Frozen
  <2> QED
    BY <1>0, <2>1 DEF IInv, Frozen
<1>3. Head(events).kind \in Phased /\ removing = NoId /\ Party = connections /\ aborted = {}
  BY <1>0 DEF Phased, IInv, Lives, Party, AskedOnce
<1>4. yes \in SUBSET Ids /\ no \in SUBSET Ids /\ Counted = prepared \cup refused
      /\ yes \cup no = Counted \cup {i}
  BY <1>0, <1>1 DEF TypeOK, Counted
<1>5. c \in [Ids -> Commands] /\ \A j \in Ids : c[j].do = IF ~go THEN "abort"
                                         ELSE IF j = retire THEN "retire" ELSE "stop"
  BY DEF Commands, Protocol
<1> HIDE DEF i, ok, yes, no, go, c
<1>6. CASE yes \cup no # connections
  <2>1. UNCHANGED <<phase, lease, inbox>>
    BY <1>0, <1>6
  <2>2. Counted' = Counted \cup {Head(events).id}
    BY <1>0, <1>4, <2>1 DEF Counted, i
  <2>4. prepared' \in SUBSET Ids /\ refused' \in SUBSET Ids /\ acknowledged' \in SUBSET Ids
        /\ ended' \in SUBSET Ids /\ aborted' \in SUBSET Ids
    BY <1>0, <1>1, <1>4 DEF TypeOK
  <2>5. \A j \in prepared' : Holds(j)
    BY <1>0, <1>2
  <2> QED
    BY <1>0, <1>3, <2>1, <2>2, <2>4, <2>5, NotedStep
<1>7. CASE yes \cup no = connections
  <2> USE DEF IInv
  <2>0. phase' = (IF go THEN "commit" ELSE "abort") /\ lease' = (IF go THEN "shutdown" ELSE lease) /\ SendAll(c)
    BY <1>0, <1>7
  <2>1. ASSUME NEW k \in DOMAIN events' PROVE events'[k].kind \notin Phased
    <3>1. SUFFICES ASSUME events'[k].kind \in Phased PROVE FALSE
      OBVIOUS
    <3>2. events'[k].id \in connections /\ events'[k].id \notin Counted /\ events'[k].id # i
      BY <1>0, <1>3, <3>1, AnswersLeft DEF i
    <3> QED
      BY <1>4, <1>7, <3>2
  <2>2. \A j \in connections : inbox[j] = <<>>
    <3>1. inbox[i] = <<>>
      BY <1>0, <1>3, AnswerTaken DEF i
    <3>2. \A j \in Counted : inbox[j] = <<>>
      BY DEF AskedOnce
    <3> QED
      BY <1>4, <1>7, <3>1, <3>2
  <2>3. /\ inbox' \in [Ids -> Seq(Commands)]
        /\ \A j \in connections : /\ j \in Ids /\ Len(inbox'[j]) = 1 /\ DOMAIN inbox'[j] = {1}
                                  /\ inbox'[j][1] = c[j]
    <3>1. ASSUME NEW j \in connections
          PROVE  j \in Ids /\ Len(inbox'[j]) = 1 /\ DOMAIN inbox'[j] = {1} /\ inbox'[j][1] = c[j]
      <4>1. j \in Ids /\ c[j] \in Commands /\ inbox'[j] = Append(inbox[j], c[j])
        BY <1>5, <2>0, SendMany, Zenon
      <4>2. inbox[j] = <<>>
        BY <2>2
      <4> HIDE DEF Commands
      <4> QED
        BY <4>1, <4>2
    <3> QED
      BY <1>1, <1>5, <2>0, <3>1, SendMany
  <2>4. TypeOK'
    BY <1>0, <1>1, <1>4, <2>0, <2>3, ServedEffect DEF TypeOK, Beside, Phases
  <2>5. Lives'
    BY <1>0, <1>3, <2>0, LivesServed DEF Ending
  <2>6. TurnsExclusive'
    BY <1>0, <1>1, <2>0, TurnsKept DEF Beside, go
  <2>7. HomesApart'
    BY <1>1, HomesServed DEF Beside
  <2>8. AskedOnce'
    <3>1. Counted' = {}
      BY <1>0, <1>3, <2>0 DEF Counted
    <3>2. Party' = connections
      BY <1>0, <1>1, <1>3 DEF Party
    <3>3. ASSUME NEW j \in connections, NEW k \in DOMAIN inbox'[j]
          PROVE  k = Len(inbox'[j]) /\ inbox'[j][k].do \in Calls(phase)' /\ j \in Party'
      <4>1. k = 1 /\ inbox'[j][k] = c[j] /\ Len(inbox'[j]) = 1 /\ j \in Ids
        BY <2>3
      <4>2. c[j].do \in Calls(phase')
        BY <1>5, <2>0, <4>1 DEF Calls
      <4> QED
        BY <3>2, <4>1, <4>2
    <3> QED
      BY <1>1, <2>0, <2>1, <3>1, <3>3, AskedAnew
  <2>9. Frozen'
    <3>1. phase' = "commit" => \A j \in connections : Holds(j)
      BY <1>2, <1>7, <2>0 DEF go
    <3>2. Party' = Party
      BY <1>0, <1>1 DEF Party
    <3>3. \A j \in Ids : proc[j].prepared => j \in Party'
      BY <3>2 DEF Frozen
    <3> QED
      BY <1>0, <1>3, <2>0, <2>1, <3>1, <3>3, FrozenAnew
  <2>10. Confirmed'
    <3>1. ASSUME NEW j \in connections, NEW k \in DOMAIN inbox'[j] PROVE inbox'[j][k].do # "prepare_delete"
      BY <1>5, <2>3
    <3> QED
      BY <1>0, <1>3, <3>1, ConfirmedServed
  <2>11. Polling'
    <3>1. ASSUME NEW j \in connections PROVE ~Promoted(j)' /\ ~Promoted(j)
      <4>1. ~Promoted(j)
        BY <2>2 DEF Promoted
      <4>2. \A k \in DOMAIN inbox'[j] : inbox'[j][k].do # "usage_primary"
        BY <1>5, <2>3
      <4> QED
        BY <4>1, <4>2 DEF Promoted
    <3> QED
      BY <1>0, <3>1, PollingServed
  <2> QED
    BY <2>4, <2>5, <2>6, <2>7, <2>8, <2>9, <2>10, <2>11
<1> QED
  BY <1>6, <1>7


LEMMA PreparedDeleteStep ==
  ASSUME IInv, PreparedDelete
  PROVE  IInv'
<1> USE DEF IInv
<1> DEFINE ok == Head(events).ok
           c  == [do |-> IF ok THEN "delete" ELSE "abort", rev |-> 0]
<1>0. /\ Served /\ Head(events).kind = "prepared" /\ phase = "delete_prepare" /\ Head(events).id = removing
      /\ phase' = (IF ok THEN "delete_commit" ELSE "delete_abort")
      /\ acknowledged' = (IF ok THEN {} ELSE acknowledged) /\ Send(removing, c)
      /\ UNCHANGED <<selected, activate, removing, retire, deferredUsage, view, lease, prepared,
                     refused, aborted, ended>>
  BY DEF PreparedDelete, Takes, Drop, Served
<1>1. removing \in Ids /\ events[1] = Head(events) /\ 1 \in DOMAIN events
      /\ events # <<>> /\ events' = Tail(events) /\ UNCHANGED <<Beside, connections, primary, proc, catalog>>
  BY <1>0, ServedEffect DEF Served
<1>2. Head(events).kind \in Phased /\ removing # NoId /\ Party = {removing} /\ removing \in connections
  BY <1>0, <1>1, IdsAre DEF Phased, Lives, Party
<1>3. Party' = Party
  BY <1>0, <1>1 DEF Party
<1>4. c \in Commands /\ c.do = IF ok THEN "delete" ELSE "abort"
  BY DEF Commands, Protocol
<1> HIDE DEF ok, c
<1>5. ASSUME NEW k \in DOMAIN events' PROVE events'[k].kind \notin Phased
  BY <1>0, <1>2, AnswersLeft
<1>6. inbox[removing] = <<>>
  BY <1>0, <1>2, AnswerTaken
<1>7. /\ inbox' \in [Ids -> Seq(Commands)] /\ Len(inbox'[removing]) = 1 /\ DOMAIN inbox'[removing] = {1}
      /\ inbox'[removing][1] = c /\ \A j \in Ids : j # removing => inbox'[j] = inbox[j]
  <2>1. inbox'[removing] = Append(<<>>, c)
    BY <1>0, <1>1, <1>4, <1>6, SendOne
  <2>2. Len(inbox'[removing]) = 1 /\ DOMAIN inbox'[removing] = {1} /\ inbox'[removing][1] = c
    BY <2>1
  <2> QED
    BY <1>0, <1>1, <1>4, <2>2, SendOne
<1>8. TypeOK'
  BY <1>0, <1>1, <1>7, ServedEffect DEF TypeOK, Beside, Phases
<1>9. Lives'
  BY <1>0, <1>2, LivesServed DEF Ending
<1>10. TurnsExclusive'
  BY <1>0, <1>1, TurnsKept DEF Beside
<1>11. HomesApart'
  BY <1>1, HomesServed DEF Beside
<1>12. AskedOnce'
  <2>1. Counted' = {}
    BY <1>0 DEF Counted
  <2>2. ASSUME NEW j \in connections, NEW k \in DOMAIN inbox'[j], inbox'[j][k].do \in Protocol
        PROVE  k = Len(inbox'[j]) /\ inbox'[j][k].do \in Calls(phase)' /\ j \in Party'
    <3>1. j = removing
      BY <1>2, <1>7, <2>2 DEF AskedOnce, TypeOK
    <3>2. c.do \in Calls(phase')
      BY <1>0, <1>4 DEF Calls
    <3> QED
      BY <1>2, <1>3, <1>7, <3>1, <3>2
  <2> QED
    BY <1>0, <1>1, <1>5, <2>1, <2>2, AskedAnew
<1>13. Frozen'
  <2>1. \A j \in Ids : proc[j].prepared => phase' # "open" /\ j \in Party'
    BY <1>0, <1>3 DEF Frozen
  <2> QED
    BY <1>0, <1>5, <2>1, FrozenAnew
<1>14. Confirmed'
  <2>1. ASSUME NEW j \in connections, NEW k \in DOMAIN inbox'[j], inbox'[j][k].do = "prepare_delete"
        PROVE  \E l \in DOMAIN inbox[j] : inbox'[j][k] = inbox[j][l]
    <3>1. j # removing
      BY <1>4, <1>7, <2>1
    <3> QED
      BY <1>7, <3>1 DEF TypeOK
  <2>2. \A k \in DOMAIN inbox'[removing] : inbox'[removing][k].do \in Protocol
    BY <1>4, <1>7 DEF Protocol
  <2> QED
    BY <1>0, <2>1, <2>2, ConfirmedServed
<1>15. Polling'
  <2>1. ASSUME NEW j \in connections PROVE Promoted(j)' <=> Promoted(j)
    <3>1. CASE j = removing
      <4>1. inbox'[j][1].do # "usage_primary"
        BY <1>4, <1>7, <3>1
      <4> QED
        BY <1>6, <1>7, <3>1, <4>1 DEF Promoted
    <3>2. CASE j # removing
      BY <1>7, <3>2 DEF Promoted, TypeOK
    <3> QED
      BY <3>1, <3>2
  <2> QED
    BY <1>0, <2>1, PollingServed
<1> QED
  BY <1>8, <1>9, <1>10, <1>11, <1>12, <1>13, <1>14, <1>15

\* The usage commands kept back follow what is in a queue.
LEMMA Flushed ==
  ASSUME TypeOK, NEW q \in Seq(Commands)
  PROVE  /\ flushUsage(q) \in Seq(Commands) /\ DOMAIN q \subseteq DOMAIN flushUsage(q)
         /\ \A k \in DOMAIN q : flushUsage(q)[k] = q[k]
         /\ \A k \in DOMAIN flushUsage(q) : k \notin DOMAIN q => flushUsage(q)[k].do = "usage"
<1> DEFINE u == Notices(deferredUsage)
<1>1. deferredUsage \in Seq(Nat)
  BY DEF TypeOK
<1>2. ASSUME NEW k \in 1..Len(deferredUsage)
      PROVE  u[k] \in Commands /\ u[k].do = "usage"
  <2>1. deferredUsage[k] \in Nat
    BY <1>1
  <2> QED
    BY <2>1 DEF Notices, Commands
<1>3. u = [k \in 1..Len(deferredUsage) |-> u[k]] /\ Len(deferredUsage) \in Nat
  BY <1>1 DEF Notices
<1> HIDE DEF u
<1>4. u \in Seq(Commands) /\ DOMAIN u = 1..Len(deferredUsage)
  <2> HIDE DEF Commands
  <2> QED
    BY <1>2, <1>3
<1>5. flushUsage(q) = q \o u
  BY DEF flushUsage, u
<1> HIDE DEF Commands
<1>6. /\ q \o u \in Seq(Commands) /\ DOMAIN q \subseteq DOMAIN (q \o u)
      /\ \A k \in DOMAIN q : (q \o u)[k] = q[k]
      /\ \A k \in DOMAIN (q \o u) : k \notin DOMAIN q => k - Len(q) \in DOMAIN u /\ (q \o u)[k] = u[k - Len(q)]
  BY <1>4, Grow
<1> QED
  BY <1>2, <1>4, <1>5, <1>6

LEMMA AbortedDeleteStep ==
  ASSUME IInv, AbortedDelete
  PROVE  IInv'
<1> USE DEF IInv
<1>0. /\ Served /\ Head(events).kind = "aborted" /\ phase = "delete_abort" /\ Head(events).id = removing
      /\ phase' = "open" /\ removing' = NoId /\ deferredUsage' = <<>>
      /\ inbox' = [inbox EXCEPT ![primary] = flushUsage(@)]
      /\ UNCHANGED <<selected, activate, retire, view, lease, prepared, refused, aborted, acknowledged, ended>>
  BY DEF AbortedDelete, Takes, Drop, Served, shutdown
<1>1. removing \in Ids /\ events[1] = Head(events) /\ 1 \in DOMAIN events /\ up
      /\ events # <<>> /\ events' = Tail(events) /\ UNCHANGED <<Beside, connections, primary, proc, catalog>>
  BY <1>0, ServedEffect DEF Served
<1>2. /\ Head(events).kind \in Phased /\ removing # NoId /\ Party = {removing} /\ removing \in connections
      /\ primary \in connections /\ primary \in Ids
  BY <1>0, <1>1, IdsAre DEF Phased, Lives, Party, TypeOK
<1>5. ASSUME NEW k \in DOMAIN events' PROVE events'[k].kind \notin Phased
  BY <1>0, <1>2, AnswersLeft
<1>6. inbox[removing] = <<>>
  BY <1>0, <1>2, AnswerTaken
<1>7. /\ inbox' \in [Ids -> Seq(Commands)] /\ \A j \in Ids : j # primary => inbox'[j] = inbox[j]
      /\ \A j \in Ids : \A k \in DOMAIN inbox[j] : k \in DOMAIN inbox'[j] /\ inbox'[j][k] = inbox[j][k]
      /\ \A j \in Ids : \A k \in DOMAIN inbox'[j] :
           \/ k \in DOMAIN inbox[j] /\ inbox'[j][k] = inbox[j][k]
           \/ inbox'[j][k].do = "usage"
  <2>1. inbox \in [Ids -> Seq(Commands)] /\ inbox[primary] \in Seq(Commands)
    BY <1>2 DEF TypeOK
  <2>2. inbox'[primary] = flushUsage(inbox[primary]) /\ \A j \in Ids : j # primary => inbox'[j] = inbox[j]
    BY <1>0, <1>2, <2>1
  <2>3. /\ flushUsage(inbox[primary]) \in Seq(Commands)
        /\ \A k \in DOMAIN inbox[primary] : k \in DOMAIN inbox'[primary] /\ inbox'[primary][k] = inbox[primary][k]
        /\ \A k \in DOMAIN inbox'[primary] :
             \/ k \in DOMAIN inbox[primary] /\ inbox'[primary][k] = inbox[primary][k]
             \/ inbox'[primary][k].do = "usage"
    BY <2>1, <2>2, Flushed
  <2> HIDE DEF Commands
  <2>4. inbox' \in [Ids -> Seq(Commands)]
    BY <1>0, <1>2, <2>1, <2>2, <2>3
  <2> QED
    BY <2>2, <2>3, <2>4
<1>8. TypeOK'
  <2>1. removing' \in Nat /\ deferredUsage' \in Seq(Nat) /\ phase' \in Phases
    BY <1>0 DEF NoId, Phases
  <2>2. inbox' \in [Ids -> Seq(Commands)] /\ events' \in Seq(Events)
    BY <1>1, <1>7, ServedEffect
  <2> QED
    BY <1>0, <1>1, <2>1, <2>2 DEF TypeOK, Beside
<1>9. Lives'
  BY <1>0, <1>2, LivesServed DEF Ending
<1>10. TurnsExclusive'
  BY <1>0, <1>1, TurnsKept DEF Beside
<1>11. HomesApart'
  BY <1>1, HomesServed DEF Beside
<1>12. AskedOnce'
  <2>1. Counted' = {}
    BY <1>0 DEF Counted
  <2>2. ASSUME NEW j \in connections, NEW k \in DOMAIN inbox'[j] PROVE inbox'[j][k].do \notin Protocol
    <3>1. CASE inbox'[j][k].do = "usage"
      BY <3>1 DEF Protocol
    <3>2. CASE k \in DOMAIN inbox[j] /\ inbox'[j][k] = inbox[j][k]
      BY <1>2, <1>6, <3>2 DEF AskedOnce
    <3> QED
      BY <1>7, <3>1, <3>2 DEF TypeOK
  <2> QED
    BY <1>0, <1>1, <1>5, <2>1, <2>2, AskedAnew
<1>13. Frozen'
  <2>1. \A j \in Ids : ~proc[j].prepared
    BY <1>0, <1>1, <1>2 DEF Frozen
  <2> QED
    BY <1>0, <1>5, <2>1, FrozenAnew
<1>14. Confirmed'
  <2>1. ASSUME NEW j \in connections, NEW k \in DOMAIN inbox'[j], inbox'[j][k].do = "prepare_delete"
        PROVE  \E l \in DOMAIN inbox[j] : inbox'[j][k] = inbox[j][l]
    BY <1>7, <2>1 DEF TypeOK
  <2> QED
    BY <1>0, <2>1, ConfirmedServed
<1>15. Polling'
  <2>1. ASSUME NEW j \in connections PROVE Promoted(j)' <=> Promoted(j)
    BY <1>7 DEF Promoted, TypeOK
  <2> QED
    BY <1>0, <2>1, PollingServed
<1> QED
  BY <1>8, <1>9, <1>10, <1>11, <1>12, <1>13, <1>14, <1>15


\* What the end of a deleted connection finds.
LEMMA DeletedLeft ==
  ASSUME IInv, EndsDelete, Drop
  PROVE  /\ removing \in Ids /\ removing \in connections /\ removing # NoId /\ up
         /\ phase = "delete_commit" /\ Party = {removing} /\ primary \in connections
         /\ proc[removing].run = "off" /\ ~proc[removing].usage
         /\ events # <<>> /\ events' = Tail(events) /\ events' \in Seq(Events)
         /\ Doomed => Doomed'
         /\ \A k \in DOMAIN events' :
              /\ k + 1 \in DOMAIN events /\ events'[k] = events[k + 1]
              /\ events'[k].id \in connections \ {removing} /\ events'[k].kind \notin Phased
         /\ \A i \in Ids : /\ proc[i].run # "closing" /\ ~proc[i].prepared
                           /\ i \in connections \ {removing} /\ proc[i].run = "off" => Doomed
         /\ \A i \in connections \ {removing} : \A k \in DOMAIN inbox[i] : inbox[i][k].do \notin Protocol
<1> USE DEF IInv
<1>0. /\ up /\ events # <<>> /\ events' = Tail(events) /\ Head(events).kind = "ended" /\ Head(events).ok
      /\ phase = "delete_commit" /\ Head(events).id = removing
  BY DEF EndsDelete, Takes, Drop
<1>1. /\ removing \in Ids /\ events[1] = Head(events) /\ 1 \in DOMAIN events /\ events' \in Seq(Events)
      /\ \A k \in DOMAIN events' : k + 1 \in DOMAIN events /\ events'[k] = events[k + 1] /\ k \in Nat /\ k # 0
  BY <1>0, ServedEffect
<1>2. removing # NoId /\ Party = {removing} /\ removing \in connections /\ primary \in connections
  BY <1>0, <1>1, IdsAre DEF Lives, Party
<1>3. proc[removing].run = "off" /\ \A l \in DOMAIN events : events[l].id = removing => l <= 1
  BY <1>0, <1>1 DEF Lives
<1>4. ASSUME NEW k \in DOMAIN events'
      PROVE  events'[k].id \in connections \ {removing} /\ events'[k].kind \notin Phased
  <2>1. events[k + 1].id \in connections /\ events[k + 1].id # removing
    BY <1>1, <1>3 DEF Lives
  <2> QED
    BY <1>1, <1>2, <2>1 DEF AskedOnce
<1>5. Doomed => Doomed'
  BY <1>0, ServedEffect, ZenonT(30) DEF Doomed
<1>6. \A i \in Ids : /\ proc[i].run # "closing" /\ ~proc[i].prepared
                     /\ i \in connections \ {removing} /\ proc[i].run = "off" => Doomed
  BY <1>2, <1>3 DEF Lives, Frozen
<1>7. \A i \in connections \ {removing} : \A k \in DOMAIN inbox[i] : inbox[i][k].do \notin Protocol
  BY <1>2 DEF AskedOnce
<1>8. ~proc[removing].usage
  BY <1>1, <1>3 DEF Lives
<1> QED
  BY <1>0, <1>1, <1>2, <1>3, <1>4, <1>5, <1>6, <1>7, <1>8

\* Others are left.
LEMMA OneOfSeveral ==
  ASSUME IInv, EndedDelete, connections \ {removing} # {}
  PROVE  IInv'
<1> USE DEF IInv
<1> DEFINE rest == connections \ {removing}
           next == IF primary # removing THEN primary ELSE First(rest)
           promoted == Append(inbox[next], [do |-> "usage_primary", rev |-> 0])
           queue == IF next = primary THEN inbox[next] ELSE promoted
<1>0. /\ EndsDelete /\ Drop /\ primary' = next /\ phase' = "open" /\ removing' = NoId
      /\ deferredUsage' = <<>> /\ connections' = rest /\ selected' = next
      /\ activate' = activate \ {removing} /\ inbox' = [inbox EXCEPT ![next] = flushUsage(queue)]
      /\ UNCHANGED <<proc, catalog, view, Beside, prepared, refused, aborted, acknowledged, ended, retire, lease>>
  BY DEF EndedDelete, shutdown
<1>1. /\ next \in rest /\ rest \in SUBSET Ids /\ next \in Ids /\ next \in Nat
      /\ next # primary => primary = removing
      /\ primary # removing => next = primary
  <2>1. rest \in SUBSET Ids /\ primary \in connections
    BY <1>0, DeletedLeft DEF TypeOK
  <2>2. First(rest) \in rest
    BY <2>1, FirstIn
  <2> QED
    BY <2>1, <2>2, IdsAre
<1>2. Party' = rest
  BY <1>0 DEF Party
<1>3. /\ up /\ UNCHANGED up /\ removing \in Ids /\ removing # NoId
      /\ proc[removing].run = "off" /\ ~proc[removing].usage
      /\ events' \in Seq(Events) /\ (Doomed => Doomed')
      /\ \A k \in DOMAIN events' :
           /\ k + 1 \in DOMAIN events /\ events'[k] = events[k + 1]
           /\ events'[k].id \in rest /\ events'[k].kind \notin Phased
      /\ \A i \in Ids : /\ proc[i].run # "closing" /\ ~proc[i].prepared
                        /\ i \in rest /\ proc[i].run = "off" => Doomed
      /\ \A i \in rest : \A k \in DOMAIN inbox[i] : inbox[i][k].do \notin Protocol
  BY <1>0, DeletedLeft DEF Beside
<1> HIDE DEF next, rest
<1>4. /\ queue \in Seq(Commands)
      /\ \A k \in DOMAIN inbox[next] : k \in DOMAIN queue /\ queue[k] = inbox[next][k]
      /\ \A k \in DOMAIN queue : k \in DOMAIN inbox[next] \/ (next # primary /\ queue[k].do = "usage_primary")
      /\ next # primary => \E k \in DOMAIN queue : queue[k].do = "usage_primary"
  <2>1. inbox[next] \in Seq(Commands)
    BY <1>1 DEF TypeOK
  <2> DEFINE up1 == [do |-> "usage_primary", rev |-> 0]
  <2>2. up1 \in Commands /\ up1.do = "usage_primary"
    BY DEF Commands
  <2> HIDE DEF up1, Commands
  <2>3. CASE next = primary
    BY <2>1, <2>3
  <2>4. CASE next # primary
    <3>1. queue = Append(inbox[next], up1)
      BY <2>4 DEF up1
    <3> HIDE DEF queue
    <3> QED
      BY <2>1, <2>2, <2>4, <3>1, Extend
  <2> QED
    BY <2>3, <2>4
<1> HIDE DEF queue
<1>5. /\ inbox' \in [Ids -> Seq(Commands)] /\ \A j \in Ids : j # next => inbox'[j] = inbox[j]
      /\ \A k \in DOMAIN queue : k \in DOMAIN inbox'[next] /\ inbox'[next][k] = queue[k]
      /\ \A k \in DOMAIN inbox'[next] : \/ k \in DOMAIN queue /\ inbox'[next][k] = queue[k]
                                        \/ inbox'[next][k].do = "usage"
  <2>1. inbox \in [Ids -> Seq(Commands)] /\ inbox'[next] = flushUsage(queue)
    BY <1>0, <1>1 DEF TypeOK
  <2>2. /\ flushUsage(queue) \in Seq(Commands)
        /\ \A k \in DOMAIN queue : k \in DOMAIN inbox'[next] /\ inbox'[next][k] = queue[k]
        /\ \A k \in DOMAIN inbox'[next] : \/ k \in DOMAIN queue /\ inbox'[next][k] = queue[k]
                                          \/ inbox'[next][k].do = "usage"
    BY <1>4, <2>1, Flushed
  <2> HIDE DEF Commands
  <2>3. inbox' \in [Ids -> Seq(Commands)] /\ \A j \in Ids : j # next => inbox'[j] = inbox[j]
    BY <1>0, <1>1, <2>1, <2>2
  <2> QED
    BY <2>2, <2>3
<1>6. TypeOK'
  <2>1. removing' \in Nat /\ deferredUsage' \in Seq(Nat) /\ phase' \in Phases
    BY <1>0 DEF NoId, Phases
  <2>2. activate' \in SUBSET Ids
    BY <1>0 DEF TypeOK
  <2>3. connections' \in SUBSET Ids /\ primary' \in Nat /\ selected' \in Ids \cup {NoId}
    BY <1>0, <1>1
  <2> QED
    BY <1>0, <1>3, <1>5, <2>1, <2>2, <2>3 DEF TypeOK, Beside
<1>7. Lives'
  <2>1. ASSUME NEW k \in DOMAIN events'
        PROVE  /\ events'[k].id \in rest /\ proc[events'[k].id].run # "starting"
               /\ events'[k].kind = "ended" =>
                    /\ proc[events'[k].id].run = "off"
                    /\ \A l \in DOMAIN events' : events'[l].id = events'[k].id => l <= k
    <3>1. k + 1 \in DOMAIN events /\ events'[k] = events[k + 1] /\ k \in Nat
      BY <1>3
    <3>2. ASSUME events'[k].kind = "ended", NEW l \in DOMAIN events', events'[l].id = events'[k].id
          PROVE  l <= k
      <4>1. l + 1 \in DOMAIN events /\ events'[l] = events[l + 1] /\ l \in Nat
        BY <1>3
      <4>2. l + 1 <= k + 1
        BY <3>1, <3>2, <4>1 DEF Lives
      <4> QED
        BY <3>1, <4>1, <4>2
    <3> QED
      BY <1>3, <3>1, <3>2 DEF Lives
  <2>2. ASSUME NEW i \in Ids
        PROVE  /\ proc[i].run # "off" => i \in rest
               /\ proc[i].run # "on" => ~proc[i].busy
               /\ proc[i].run \in {"off", "starting"} => ~proc[i].prepared
               /\ proc[i].run = "off" => ~proc[i].usage
               /\ proc[i].run # "closing"
               /\ i \in rest /\ proc[i].run = "off" => Doomed'
    BY <1>3 DEF Lives, rest
  <2> HIDE DEF Doomed, Party, Ending
  <2> QED
    BY <1>0, <1>1, <1>3, <2>1, <2>2 DEF Lives, NoId
<1>8. TurnsExclusive'
  BY <1>0, TurnsKept DEF Beside
<1>9. HomesApart'
  BY <1>0, HomesServed DEF Beside
<1>10. AskedOnce'
  <2>1. Counted' = {}
    BY <1>0 DEF Counted
  <2>2. ASSUME NEW j \in rest, NEW k \in DOMAIN inbox'[j] PROVE inbox'[j][k].do \notin Protocol
    <3>1. CASE j # next
      BY <1>1, <1>3, <1>5, <3>1
    <3>2. CASE j = next
      <4>1. CASE inbox'[next][k].do \in {"usage", "usage_primary"}
        BY <3>2, <4>1 DEF Protocol
      <4>2. CASE k \in DOMAIN inbox[next] /\ inbox'[next][k] = inbox[next][k]
        BY <1>1, <1>3, <3>2, <4>2
      <4> QED
        BY <1>4, <1>5, <3>2, <4>1, <4>2
    <3> QED
      BY <3>1, <3>2
  <2> QED
    BY <1>0, <1>3, <2>1, <2>2, AskedAnew
<1>11. Frozen'
  <2>1. \A k \in DOMAIN events' : events'[k].kind # "prepared" /\ events'[k].kind # "aborted"
    BY <1>3 DEF Phased
  <2> QED
    BY <1>0, <1>3, <2>1 DEF Frozen
<1>12. Confirmed'
  <2>1. ASSUME NEW j \in rest, NEW k \in DOMAIN inbox'[j] PROVE inbox'[j][k].do # "prepare_delete"
    <3>1. CASE j # next
      <4>1. inbox[j][k].do \notin Protocol /\ inbox'[j] = inbox[j]
        BY <1>1, <1>3, <1>5, <3>1
      <4> QED
        BY <4>1 DEF Protocol
    <3>2. CASE j = next
      <4>1. CASE k \in DOMAIN inbox[next] /\ inbox'[next][k] = inbox[next][k]
        <5>1. inbox[next][k].do \notin Protocol
          BY <1>1, <1>3, <4>1
        <5> QED
          BY <3>2, <4>1, <5>1 DEF Protocol
      <4> QED
        BY <1>4, <1>5, <3>2, <4>1
    <3> QED
      BY <3>1, <3>2
  <2>2. ASSUME NEW k \in DOMAIN events', events'[k].kind = "ready", proc[events'[k].id].run = "on"
        PROVE  events'[k].n = catalog[events'[k].id].home
    BY <1>3, <2>2 DEF Confirmed
  <2>3. \A j \in rest : /\ proc[j].run = "starting" => view[j].home = 0
                        /\ proc[j].run = "on" /\ view[j].home # 0 => view[j].home = catalog[j].home
    BY DEF Confirmed, rest
  <2>4. (asked = NoQuestion \/ asked.home # 0) /\ asked' = asked
    BY <1>0 DEF Confirmed, Beside
  <2> HIDE DEF NoQuestion, Protocol
  <2> QED
    BY <1>0, <2>1, <2>2, <2>3, <2>4 DEF Confirmed
<1>13. Polling'
  <2>1. \A i \in Ids : proc[i].usage => i = next
    BY <1>1, <1>3 DEF Polling
  <2>2. ASSUME NEW i \in rest, Promoted(i)' PROVE i = next
    <3>1. SUFFICES ASSUME i # next PROVE FALSE
      OBVIOUS
    <3>2. inbox'[i] = inbox[i]
      BY <1>1, <1>5, <3>1
    <3>3. Promoted(i)
      BY <2>2, <3>2 DEF Promoted
    <3>4. i = primary /\ i # removing
      BY <3>3 DEF Polling, rest
    <3> QED
      BY <1>1, <3>1, <3>4
  <2>3. proc[next].usage \/ proc[next].run = "off" \/ \E k \in DOMAIN inbox'[next] : inbox'[next][k].do = "usage_primary"
    <3>1. CASE next # primary
      BY <1>4, <1>5, <3>1
    <3>2. CASE next = primary
      <4>1. Promoted(next) => \E k \in DOMAIN inbox'[next] : inbox'[next][k].do = "usage_primary"
        BY <1>4, <1>5 DEF Promoted
      <4> QED
        BY <1>3, <3>2, <4>1 DEF Polling
    <3> QED
      BY <3>1, <3>2
  <2>4. Promoted(primary)' <=> \E k \in DOMAIN inbox'[next] : inbox'[next][k].do = "usage_primary"
    BY <1>0 DEF Promoted
  <2> HIDE DEF Promoted
  <2> QED
    BY <1>0, <2>1, <2>2, <2>3, <2>4 DEF Polling
<1> QED
  BY <1>6, <1>7, <1>8, <1>9, <1>10, <1>11, <1>12, <1>13


\* It was the last: an empty connection 1 follows.
LEMMA LastOfAll ==
  ASSUME IInv, EndedDelete, connections \ {removing} = {}
  PROVE  IInv'
<1> USE DEF IInv
<1>0. /\ EndsDelete /\ Drop /\ phase' = "open" /\ removing' = NoId /\ deferredUsage' = <<>>
      /\ connections' = {1} /\ selected' = NoId /\ activate' = {1}
      /\ primary' = (IF primary # removing THEN primary ELSE 1)
      /\ inbox' = [inbox EXCEPT ![1] = flushUsage(<<>>)] /\ proc' = [proc EXCEPT ![1] = Starting(TRUE)]
      /\ catalog' = [catalog EXCEPT ![1].dir = TRUE] /\ view' = [view EXCEPT ![1] = Unseen]
      /\ UNCHANGED <<Beside, prepared, refused, aborted, acknowledged, ended, retire, lease>>
  BY DEF EndedDelete, shutdown
<1>1. /\ up /\ UNCHANGED up /\ removing \in Ids /\ removing # NoId /\ connections = {removing}
      /\ primary = removing /\ proc[removing].run = "off"
      /\ events' \in Seq(Events)
      /\ \A k \in DOMAIN events' : FALSE
  BY <1>0, DeletedLeft DEF Beside
<1>2. 1 \in Ids /\ 1 \in Nat /\ primary' = 1 /\ Party' = {1} /\ ~(1 = NoId)
  BY <1>0, <1>1, IdsAre DEF Party
<1>3. /\ Starting(TRUE) \in Process /\ Starting(TRUE).run = "starting" /\ Starting(TRUE).busy = FALSE
      /\ ~Starting(TRUE).prepared /\ Starting(TRUE).usage
      /\ Unseen \in Shown /\ Unseen.home = 0
  BY DEF Starting, Off, Process, Unseen, Shown
<1>4. /\ proc' \in [Ids -> Process] /\ proc'[1] = Starting(TRUE) /\ \A j \in Ids : j # 1 => proc'[j] = proc[j]
      /\ view' \in [Ids -> Shown] /\ view'[1] = Unseen
  BY <1>0, <1>2, <1>3 DEF TypeOK
<1>5. /\ catalog' \in [Ids -> Record]
      /\ \A j \in Ids : catalog'[j].home = catalog[j].home /\ catalog'[j].deleted = catalog[j].deleted
  <2> DEFINE d == [catalog[1] EXCEPT !.dir = TRUE]
  <2>1. d \in Record /\ d.home = catalog[1].home /\ d.deleted = catalog[1].deleted
    BY <1>2, Bumped DEF Record
  <2>2. catalog' = [catalog EXCEPT ![1] = d] /\ catalog \in [Ids -> Record]
    BY <1>0, <1>2 DEF TypeOK
  <2> HIDE DEF d
  <2> QED
    BY <2>1, <2>2
<1>6. /\ inbox' \in [Ids -> Seq(Commands)]
      /\ \A k \in DOMAIN inbox'[1] : inbox'[1][k].do = "usage"
  <2>1. inbox \in [Ids -> Seq(Commands)] /\ inbox'[1] = flushUsage(<<>>)
    BY <1>0, <1>2 DEF TypeOK
  <2>2. <<>> \in Seq(Commands) /\ DOMAIN <<>> = {}
    OBVIOUS
  <2>3. flushUsage(<<>>) \in Seq(Commands) /\ \A k \in DOMAIN flushUsage(<<>>) : flushUsage(<<>>)[k].do = "usage"
    BY <2>2, Flushed
  <2> HIDE DEF Commands
  <2>4. inbox' \in [Ids -> Seq(Commands)]
    BY <1>0, <1>2, <2>1, <2>3
  <2> QED
    BY <2>1, <2>3, <2>4
<1>7. \A j \in Ids : j # 1 => proc'[j].run = "off" /\ proc'[j] = proc[j]
  BY <1>1, <1>4 DEF Lives
<1>8. TypeOK'
  <2>1. removing' \in Nat /\ deferredUsage' \in Seq(Nat) /\ phase' \in Phases /\ selected' \in Ids \cup {NoId}
    BY <1>0 DEF NoId, Phases
  <2>2. activate' \in SUBSET Ids /\ connections' \in SUBSET Ids /\ primary' \in Nat
    BY <1>0, <1>2
  <2> QED
    BY <1>0, <1>1, <1>4, <1>5, <1>6, <2>1, <2>2 DEF TypeOK, Beside
<1>9. Lives'
  <2>1. ASSUME NEW j \in Ids
        PROVE  /\ proc'[j].run # "off" => j = 1
               /\ proc'[j].run # "on" => ~proc'[j].busy
               /\ proc'[j].run \in {"off", "starting"} => ~proc'[j].prepared
               /\ proc'[j].run = "off" => ~proc'[j].usage
               /\ proc'[j].run # "closing"
               /\ j = 1 => proc'[j].run # "off"
    <3>1. CASE j = 1
      BY <1>3, <1>4, <3>1
    <3>2. CASE j # 1
      BY <1>7, <3>2 DEF Lives
    <3> QED
      BY <3>1, <3>2
  <2> HIDE DEF Party, Doomed, Ending
  <2> QED
    BY <1>0, <1>1, <1>2, <2>1 DEF Lives
<1>10. TurnsExclusive'
  <2>1. \A j \in Ids : proc'[j].busy = proc[j].busy
    <3>1. proc[1].run = "off"
      BY <1>1, <1>2 DEF Lives
    <3>2. ~proc[1].busy
      BY <1>2, <3>1 DEF Lives
    <3>3. proc[1].busy = FALSE
      BY <1>2, <3>2, Bumped, Zenon
    <3> QED
      BY <1>3, <1>4, <3>3, Zenon
  <2> QED
    BY <1>0, <2>1, TurnsKept DEF Beside
<1>11. HomesApart'
  <2>1. \A j \in Ids : proc'[j].run # "on"
    BY <1>3, <1>4, <1>7
  <2>2. UNCHANGED <<dead, nextHome>>
    BY <1>0 DEF Beside
  <2>3. \A j \in Ids : catalog'[j].home = catalog[j].home /\ catalog'[j].deleted = catalog[j].deleted
    BY <1>5
  <2> QED
    BY <2>1, <2>2, <2>3 DEF HomesApart
<1>12. AskedOnce'
  <2>1. Counted' = {}
    BY <1>0 DEF Counted
  <2>2. \A k \in DOMAIN inbox'[1] : inbox'[1][k].do \notin Protocol
    BY <1>6 DEF Protocol
  <2> QED
    BY <1>0, <1>1, <2>1, <2>2, AskedAnew
<1>13. Frozen'
  <2>1. \A j \in Ids : ~proc'[j].prepared
    BY <1>3, <1>4, <1>7, ZenonT(30) DEF Lives
  <2> QED
    BY <1>0, <1>1, <2>1 DEF Frozen
<1>14. Confirmed'
  <2>1. (asked = NoQuestion \/ asked.home # 0) /\ asked' = asked
    BY <1>0 DEF Confirmed, Beside
  <2>2. proc'[1].run = "starting" /\ view'[1].home = 0
    BY <1>3, <1>4
  <2>3. \A k \in DOMAIN inbox'[1] : inbox'[1][k].do # "prepare_delete"
    BY <1>6
  <2> HIDE DEF NoQuestion, Protocol
  <2> QED
    BY <1>0, <1>1, <2>1, <2>2, <2>3 DEF Confirmed
<1>15. Polling'
  <2>1. \A j \in Ids : proc'[j].usage => j = 1
    BY <1>7 DEF Lives
  <2> HIDE DEF Promoted
  <2> QED
    BY <1>0, <1>2, <1>3, <1>4, <2>1, ZenonT(30) DEF Polling
<1> QED
  BY <1>8, <1>9, <1>10, <1>11, <1>12, <1>13, <1>14, <1>15

LEMMA EndedDeleteStep ==
  ASSUME IInv, EndedDelete
  PROVE  IInv'
BY OneOfSeveral, LastOfAll


-----------------------------------------------------------------------------
(* The steps of the UI and of other processes.                             *)

\* Between shutdowns and deletions nothing of them is left.
LEMMA OpenQuiet ==
  ASSUME IInv, phase = "open"
  PROVE  /\ removing = NoId /\ Counted = {}
         /\ \A i \in connections : \A k \in DOMAIN inbox[i] : inbox[i][k].do \notin Protocol
         /\ \A k \in DOMAIN events : events[k].kind \notin Phased
         /\ \A i \in Ids : ~proc[i].prepared /\ proc[i].run # "closing"
<1> USE DEF IInv
<1>1. Calls(phase) = {} /\ Replies(phase) = "none" /\ phase \notin Ending
  BY Questions DEF TypeOK, Ending
<1>2. removing = NoId /\ Counted = {}
  BY DEF Lives, Counted
<1>3. \A i \in connections : \A k \in DOMAIN inbox[i] : inbox[i][k].do \notin Protocol
  BY <1>1 DEF AskedOnce
<1>4. \A k \in DOMAIN events : events[k].kind \notin Phased
  BY <1>1 DEF AskedOnce, Phased
<1>5. \A i \in Ids : ~proc[i].prepared /\ proc[i].run # "closing"
  BY <1>1 DEF Frozen, Lives
<1> QED
  BY <1>2, <1>3, <1>4, <1>5

LEMMA LivesSame ==
  ASSUME Lives, UNCHANGED <<up, connections, primary, proc, events>>,
         \/ UNCHANGED <<phase, removing>>
         \/ /\ up /\ phase \notin Ending
            /\ removing' # NoId => removing' \in connections
            /\ removing' # NoId <=> phase' \in {"delete_prepare", "delete_abort", "delete_commit"}
  PROVE  Lives'
<1>1. Doomed' = Doomed
  BY DEF Doomed
<1>2. CASE UNCHANGED <<phase, removing>>
  <2>1. Party' = Party
    BY <1>2 DEF Party
  <2> HIDE DEF Doomed, Party, Ending
  <2> QED
    BY <1>1, <1>2, <2>1 DEF Lives
<1>3. CASE /\ up /\ phase \notin Ending
           /\ removing' # NoId => removing' \in connections
           /\ removing' # NoId <=> phase' \in {"delete_prepare", "delete_abort", "delete_commit"}
  <2>1. \A i \in Ids : /\ proc[i].run # "closing"
                       /\ i \in connections /\ proc[i].run = "off" => Doomed
    BY <1>3 DEF Lives
  <2> HIDE DEF Doomed, Party, Ending
  <2> QED
    BY <1>1, <1>3, <2>1 DEF Lives
<1> QED
  BY <1>2, <1>3

\* Nothing that matters to the invariant happens.
LEMMA StillStep ==
  ASSUME IInv, TypeOK',
         UNCHANGED <<up, connections, primary, phase, removing, prepared, refused, aborted, view,
                     events, inbox, proc, catalog, nextHome, turns, dead, asked>>,
         lease' = lease \/ (lease # "turns" /\ lease' # "turns")
  PROVE  IInv'
<1> USE DEF IInv
<1>0. Party' = Party /\ Counted' = Counted
  BY DEF Party, Counted
<1>1. Lives'
  BY LivesSame
<1>2. TurnsExclusive'
  BY TurnsKept
<1>3. HomesApart'
  BY HomesServed
<1>4. AskedOnce'
  <2> HIDE DEF Party, Counted, Calls, Replies
  <2> QED
    BY <1>0 DEF AskedOnce
<1>5. Frozen'
  <2> HIDE DEF Party
  <2> QED
    BY <1>0 DEF Frozen, Holds
<1>6. Confirmed'
  BY DEF Confirmed
<1>7. Polling'
  BY DEF Polling, Promoted
<1> QED
  BY <1>1, <1>2, <1>3, <1>4, <1>5, <1>6, <1>7

\* Between shutdowns and deletions, some connections are sent a command that is no
\* part of them.
LEMMA SentStep ==
  ASSUME IInv, TypeOK', phase = "open",
         UNCHANGED <<up, connections, primary, phase, removing, prepared, refused, aborted, view,
                     events, proc, catalog, nextHome, turns, lease, dead, asked>>,
         \A i \in connections : \/ inbox'[i] = inbox[i]
                                \/ \E c \in Commands : /\ c.do \notin Protocol \cup {"usage_primary"}
                                                       /\ inbox'[i] = Append(inbox[i], c)
  PROVE  IInv'
<1> USE DEF IInv
<1>0. Party' = Party /\ Counted' = Counted /\ Counted = {} /\ removing = NoId
  BY OpenQuiet DEF Party, Counted
<1>1. ASSUME NEW i \in connections
      PROVE  /\ \A k \in DOMAIN inbox[i] : k \in DOMAIN inbox'[i] /\ inbox'[i][k] = inbox[i][k]
             /\ \A k \in DOMAIN inbox'[i] : \/ k \in DOMAIN inbox[i] /\ inbox'[i][k] = inbox[i][k]
                                            \/ inbox'[i][k].do \notin Protocol \cup {"usage_primary"}
  <2>1. CASE inbox'[i] = inbox[i]
    BY <2>1
  <2>2. ASSUME NEW c \in Commands, c.do \notin Protocol \cup {"usage_primary"},
               inbox'[i] = Append(inbox[i], c)
        PROVE  /\ \A k \in DOMAIN inbox[i] : k \in DOMAIN inbox'[i] /\ inbox'[i][k] = inbox[i][k]
               /\ \A k \in DOMAIN inbox'[i] : \/ k \in DOMAIN inbox[i] /\ inbox'[i][k] = inbox[i][k]
                                              \/ inbox'[i][k].do \notin Protocol \cup {"usage_primary"}
    <3>1. i \in Ids
      BY DEF TypeOK
    <3>2. /\ Len(inbox[i]) \in Nat /\ DOMAIN inbox[i] = 1..Len(inbox[i])
          /\ DOMAIN inbox'[i] = 1..(Len(inbox[i]) + 1)
          /\ \A k \in DOMAIN inbox[i] : inbox'[i][k] = inbox[i][k]
          /\ inbox'[i][Len(inbox[i]) + 1] = c
          /\ \A k \in DOMAIN inbox'[i] : k \notin DOMAIN inbox[i] => k = Len(inbox[i]) + 1
      BY <2>2, <3>1, Sends
    <3> HIDE DEF Protocol
    <3> QED
      BY <2>2, <3>2
  <2> QED
    BY <2>1, <2>2
<1>2. Lives'
  BY LivesSame
<1>3. TurnsExclusive'
  BY TurnsKept
<1>4. HomesApart'
  BY HomesServed
<1>5. AskedOnce'
  <2>1. ASSUME NEW i \in connections, NEW k \in DOMAIN inbox'[i] PROVE inbox'[i][k].do \notin Protocol
    BY <1>1, OpenQuiet
  <2>2. \A k \in DOMAIN events : events[k].kind \notin Phased
    BY OpenQuiet
  <2> QED
    BY <1>0, <2>1, <2>2, AskedAnew
<1>6. Frozen'
  <2> HIDE DEF Party
  <2> QED
    BY <1>0 DEF Frozen, Holds
<1>7. Confirmed'
  <2>1. ASSUME NEW i \in connections, NEW k \in DOMAIN inbox'[i] PROVE inbox'[i][k].do # "prepare_delete"
    BY <1>1, OpenQuiet DEF Protocol
  <2> HIDE DEF NoQuestion, Protocol
  <2> QED
    BY <1>0, <2>1 DEF Confirmed
<1>8. Polling'
  <2>1. ASSUME NEW i \in connections PROVE Promoted(i)' <=> Promoted(i)
    BY <1>1 DEF Promoted
  <2>2. up => primary \in connections
    BY DEF Lives
  <2> HIDE DEF Promoted
  <2> QED
    BY <2>1, <2>2 DEF Polling
<1> QED
  BY <1>2, <1>3, <1>4, <1>5, <1>6, <1>7, <1>8

\* A question is put to the user: nothing is being deleted.
LEMMA ConfirmStep ==
  ASSUME IInv, Confirm
  PROVE  IInv'
<1> USE DEF IInv
<1>0. /\ removing = NoId /\ view[selected].home # 0
      /\ asked' = [id |-> selected, home |-> view[selected].home, rev |-> view[selected].rev]
      /\ UNCHANGED <<up, connections, primary, selected, activate, phase, removing, prepared, refused,
                     aborted, acknowledged, ended, retire, deferredUsage, view, events, inbox, proc,
                     catalog, nextHome, turns, dead, worked, lease, accepted, handled, commands, faults>>
  BY DEF Confirm, service, shutdown, workers
<1>1. selected \in Ids /\ view[selected] \in Shown
  BY DEF Confirm, TypeOK
<1>2. Party' = Party /\ Counted' = Counted
  BY <1>0 DEF Party, Counted
<1>3. TypeOK'
  <2>1. asked' \in Question
    BY <1>0, <1>1, IdsAre DEF Question, Shown
  <2> QED
    BY <1>0, <2>1 DEF TypeOK
<1>4. Lives'
  BY <1>0, LivesSame
<1>5. TurnsExclusive'
  BY <1>0, TurnsKept
<1>6. HomesApart'
  BY <1>0, HomesServed
<1>7. AskedOnce'
  <2> HIDE DEF Party, Counted, Calls, Replies
  <2> QED
    BY <1>0, <1>2 DEF AskedOnce
<1>8. Frozen'
  <2> HIDE DEF Party
  <2> QED
    BY <1>0, <1>2 DEF Frozen, Holds
<1>9. Confirmed'
  <2>1. phase # "delete_prepare"
    BY <1>0 DEF Lives
  <2>2. ASSUME NEW j \in connections, NEW k \in DOMAIN inbox[j] PROVE inbox[j][k].do # "prepare_delete"
    <3>1. "prepare_delete" \notin Calls(phase) /\ "prepare_delete" \in Protocol
      BY <2>1, Questions DEF TypeOK, Protocol
    <3> QED
      BY <3>1 DEF AskedOnce
  <2>3. asked'.home # 0
    BY <1>0
  <2> HIDE DEF NoQuestion, Protocol
  <2> QED
    BY <1>0, <2>2, <2>3 DEF Confirmed
<1>10. Polling'
  BY <1>0 DEF Polling, Promoted
<1> QED
  BY <1>3, <1>4, <1>5, <1>6, <1>7, <1>8, <1>9, <1>10

LEMMA SelectStep ==
  ASSUME IInv, NEW i \in Ids, Select(i)
  PROVE  IInv'
<1>0. /\ selected' \in Ids \cup {NoId} /\ commands' \in Nat
      /\ UNCHANGED <<up, connections, primary, activate, phase, removing, prepared, refused,
                     aborted, acknowledged, ended, retire, deferredUsage, view, events, inbox, proc,
                     catalog, nextHome, turns, dead, worked, lease, asked, accepted, handled, faults>>
  BY IdsAre DEF Select, Taken, service, shutdown, workers, IInv, TypeOK
<1>1. TypeOK'
  BY <1>0 DEF TypeOK, IInv
<1> QED
  BY <1>0, <1>1, StillStep

LEMMA AccountStep ==
  ASSUME IInv, Account
  PROVE  IInv'
<1>0. /\ lease \in {"none", "account"} /\ lease' \in {"none", "account"}
      /\ UNCHANGED <<up, connections, primary, selected, activate, phase, removing, prepared, refused,
                     aborted, acknowledged, ended, retire, deferredUsage, view, events, inbox, proc,
                     catalog, nextHome, turns, dead, worked, asked, accepted, handled, commands, faults>>
  BY DEF Account, service, shutdown, workers
<1>1. TypeOK'
  BY <1>0 DEF TypeOK, IInv
<1> QED
  BY <1>0, <1>1, StillStep

LEMMA ForwardStep ==
  ASSUME IInv, Forward
  PROVE  IInv'
<1> DEFINE c == [do |-> "decide", rev |-> 0]
<1>1. c \in Commands /\ c.do \notin Protocol \cup {"usage_primary"}
  BY DEF Commands, Protocol
<1>2. /\ phase = "open" /\ selected \in Ids /\ Send(selected, c) /\ commands' \in Nat /\ TypeOK
      /\ UNCHANGED <<up, connections, primary, selected, activate, phase, removing, prepared, refused,
                     aborted, acknowledged, ended, retire, deferredUsage, view, events, proc,
                     catalog, nextHome, turns, dead, worked, lease, asked, accepted, handled, faults>>
  BY DEF Forward, Taken, service, shutdown, workers, IInv, TypeOK
<1> HIDE DEF c
<1>3. /\ inbox' \in [Ids -> Seq(Commands)] /\ inbox'[selected] = Append(inbox[selected], c)
      /\ \A j \in Ids : j # selected => inbox'[j] = inbox[j]
  BY <1>1, <1>2, SendOne
<1>4. TypeOK'
  BY <1>2, <1>3 DEF TypeOK
<1>5. \A i \in connections : \/ inbox'[i] = inbox[i]
                             \/ \E d \in Commands : /\ d.do \notin Protocol \cup {"usage_primary"}
                                                    /\ inbox'[i] = Append(inbox[i], d)
  <2> HIDE DEF Commands, Protocol
  <2> QED
    BY <1>1, <1>2, <1>3 DEF TypeOK
<1> QED
  BY <1>2, <1>4, <1>5, SentStep

LEMMA StatusStep ==
  ASSUME IInv, Status
  PROVE  IInv'
<1> DEFINE s == [do |-> "status", rev |-> 0]
           c == [i \in Ids |-> s]
<1>1. s \in Commands /\ s.do \notin Protocol \cup {"usage_primary"}
  BY DEF Commands, Protocol
<1>2. /\ phase = "open" /\ SendAll(c) /\ commands' \in Nat /\ TypeOK
      /\ UNCHANGED <<up, connections, primary, selected, activate, phase, removing, prepared, refused,
                     aborted, acknowledged, ended, retire, deferredUsage, view, events, proc,
                     catalog, nextHome, turns, dead, worked, lease, asked, accepted, handled, faults>>
  BY DEF Status, Taken, service, shutdown, workers, IInv, TypeOK
<1> HIDE DEF s
<1>3. c \in [Ids -> Commands] /\ \A i \in Ids : c[i] = s
  BY <1>1
<1> HIDE DEF c
<1>4. /\ inbox' \in [Ids -> Seq(Commands)]
      /\ \A j \in connections : j \in Ids /\ c[j] \in Commands /\ inbox'[j] = Append(inbox[j], c[j])
  BY <1>2, <1>3, SendMany
<1>5. TypeOK'
  BY <1>2, <1>4 DEF TypeOK
<1>6. \A i \in connections : \/ inbox'[i] = inbox[i]
                             \/ \E d \in Commands : /\ d.do \notin Protocol \cup {"usage_primary"}
                                                    /\ inbox'[i] = Append(inbox[i], d)
  <2> HIDE DEF Commands, Protocol
  <2> QED
    BY <1>1, <1>3, <1>4
<1> QED
  BY <1>2, <1>5, <1>6, SentStep

LEMMA UsageStep ==
  ASSUME IInv, Usage
  PROVE  IInv'
<1> DEFINE n == Len(accepted) + 1
           c == [do |-> "usage", rev |-> n]
<1>0. TypeOK /\ accepted \in Seq(Nat) /\ deferredUsage \in Seq(Nat)
  BY DEF IInv, TypeOK
<1>1. n \in Nat /\ Append(accepted, n) \in Seq(Nat) /\ Append(deferredUsage, n) \in Seq(Nat)
  BY <1>0, Extend
<1>2. c \in Commands /\ c.do \notin Protocol \cup {"usage_primary"}
  BY <1>1 DEF Commands, Protocol
<1>3. /\ up /\ (phase = "open" \/ removing # NoId) /\ accepted' = Append(accepted, n)
      /\ UNCHANGED <<up, connections, primary, selected, activate, phase, removing, prepared, refused,
                     aborted, acknowledged, ended, retire, view, events, proc, catalog, nextHome,
                     turns, dead, worked, lease, asked, handled, commands, faults>>
  BY DEF Usage, shutdown, workers
<1>4. CASE removing = NoId
  <2>1. Send(primary, c) /\ UNCHANGED deferredUsage /\ phase = "open"
    BY <1>3, <1>4 DEF Usage
  <2>2. primary \in Ids
    BY <1>3 DEF IInv, Lives, TypeOK
  <2> HIDE DEF c, n
  <2>3. /\ inbox' \in [Ids -> Seq(Commands)] /\ inbox'[primary] = Append(inbox[primary], c)
        /\ \A j \in Ids : j # primary => inbox'[j] = inbox[j]
    BY <1>0, <1>2, <2>1, <2>2, SendOne
  <2>4. TypeOK'
    BY <1>0, <1>1, <1>3, <2>1, <2>3 DEF TypeOK
  <2>5. \A i \in connections : \/ inbox'[i] = inbox[i]
                               \/ \E d \in Commands : /\ d.do \notin Protocol \cup {"usage_primary"}
                                                      /\ inbox'[i] = Append(inbox[i], d)
    <3> HIDE DEF Commands, Protocol
    <3> QED
      BY <1>0, <1>2, <2>2, <2>3 DEF TypeOK
  <2> QED
    BY <1>3, <2>1, <2>4, <2>5, SentStep
<1>5. CASE removing # NoId
  <2>1. deferredUsage' = Append(deferredUsage, n) /\ UNCHANGED inbox
    BY <1>5 DEF Usage
  <2> HIDE DEF n
  <2>2. TypeOK'
    BY <1>0, <1>1, <1>3, <2>1 DEF TypeOK
  <2> QED
    BY <1>3, <2>1, <2>2, StillStep
<1> QED
  BY <1>4, <1>5

\* The connection shown is asked, after all that it was told before.
LEMMA DeleteStep ==
  ASSUME IInv, Delete
  PROVE  IInv'
<1> USE DEF IInv
<1> DEFINE c == [do |-> "prepare_delete", rev |-> asked.rev]
           a == asked.id
<1>0. /\ up /\ phase = "open" /\ asked # NoQuestion /\ a \in connections
      /\ asked.home = view[a].home /\ phase' = "delete_prepare" /\ removing' = a /\ Send(a, c)
      /\ commands' \in Nat
      /\ UNCHANGED <<up, connections, primary, selected, activate, prepared, refused,
                     aborted, acknowledged, ended, retire, deferredUsage, view, events, proc,
                     catalog, nextHome, turns, dead, worked, lease, asked, accepted, handled, faults>>
  BY DEF Delete, Taken, Deletable, shutdown, workers, TypeOK
<1>1. a \in Ids /\ a # NoId /\ asked \in Question /\ asked.rev \in Nat /\ a \in Nat
  BY <1>0, IdsAre DEF TypeOK, Question
<1>2. c \in Commands /\ c.do = "prepare_delete" /\ c.rev = asked.rev
  BY <1>1 DEF Commands, Protocol
<1>3. Party' = {a} /\ Counted' = {}
  BY <1>0, <1>1 DEF Party, Counted
<1>4. view[a].home # 0 /\ proc[a].run # "starting" /\ (proc[a].run = "on" => catalog[a].home = asked.home)
  BY <1>0 DEF Confirmed
<1> HIDE DEF c, a
<1>5. /\ inbox' \in [Ids -> Seq(Commands)] /\ inbox'[a] = Append(inbox[a], c)
      /\ \A j \in Ids : j # a => inbox'[j] = inbox[j]
  BY <1>0, <1>1, <1>2, SendOne
<1>6. /\ Len(inbox[a]) \in Nat /\ Len(inbox'[a]) = Len(inbox[a]) + 1
      /\ \A k \in DOMAIN inbox[a] : k \in DOMAIN inbox'[a] /\ inbox'[a][k] = inbox[a][k]
      /\ \A k \in DOMAIN inbox'[a] : \/ k \in DOMAIN inbox[a] /\ inbox'[a][k] = inbox[a][k]
                                     \/ k = Len(inbox'[a]) /\ inbox'[a][k] = c
  <2>1. /\ Len(inbox[a]) \in Nat /\ Len(inbox'[a]) = Len(inbox[a]) + 1
        /\ DOMAIN inbox[a] = 1..Len(inbox[a]) /\ DOMAIN inbox'[a] = 1..(Len(inbox[a]) + 1)
        /\ \A k \in DOMAIN inbox[a] : inbox'[a][k] = inbox[a][k]
        /\ inbox'[a][Len(inbox[a]) + 1] = c
        /\ \A k \in DOMAIN inbox'[a] : k \notin DOMAIN inbox[a] => k = Len(inbox[a]) + 1
    BY <1>1, <1>2, <1>5, Sends
  <2> QED
    BY <2>1
<1>7. /\ \A i \in connections : \A k \in DOMAIN inbox[i] : inbox[i][k].do \notin Protocol
      /\ \A k \in DOMAIN events : events[k].kind \notin Phased
      /\ \A i \in Ids : ~proc[i].prepared
  BY <1>0, OpenQuiet
<1>8. TypeOK'
  <2>1. phase' \in Phases /\ removing' \in Nat
    BY <1>0, <1>1 DEF Phases
  <2> QED
    BY <1>0, <1>5, <2>1 DEF TypeOK
<1>9. Lives'
  <2>1. phase \notin Ending
    BY <1>0 DEF Ending
  <2> QED
    BY <1>0, <1>1, <2>1, LivesSame
<1>10. TurnsExclusive'
  BY <1>0, TurnsKept
<1>11. HomesApart'
  BY <1>0, HomesServed
<1>12. AskedOnce'
  <2>1. ASSUME NEW i \in connections, NEW k \in DOMAIN inbox'[i], inbox'[i][k].do \in Protocol
        PROVE  k = Len(inbox'[i]) /\ inbox'[i][k].do = "prepare_delete" /\ i = a
    <3>1. CASE i # a
      BY <1>5, <1>7, <2>1, <3>1 DEF TypeOK
    <3>2. CASE i = a
      BY <1>0, <1>2, <1>6, <1>7, <2>1, <3>2
    <3> QED
      BY <3>1, <3>2
  <2>2. "prepare_delete" \in Calls(phase)'
    BY <1>0 DEF Calls
  <2> QED
    BY <1>0, <1>3, <1>7, <2>1, <2>2, AskedAnew
<1>13. Frozen'
  <2>1. \A k \in DOMAIN events : events[k].kind # "prepared" /\ events[k].kind # "aborted"
    BY <1>7 DEF Phased
  <2> QED
    BY <1>0, <1>7, <2>1 DEF Frozen
<1>14. Confirmed'
  <2>1. ASSUME NEW i \in connections, NEW k \in DOMAIN inbox'[i], inbox'[i][k].do = "prepare_delete"
        PROVE  inbox'[i][k].rev = asked.rev
    <3>1. "prepare_delete" \in Protocol
      BY DEF Protocol
    <3>2. CASE i # a
      BY <1>5, <1>7, <2>1, <3>1, <3>2 DEF TypeOK
    <3>3. CASE i = a
      BY <1>0, <1>2, <1>6, <1>7, <2>1, <3>1, <3>3
    <3> QED
      BY <3>2, <3>3
  <2>2. asked.id = a /\ asked.home # 0
    BY <1>0, <1>4 DEF a
  <2>3. \A i \in connections :
          /\ proc[i].run = "starting" => view[i].home = 0
          /\ proc[i].run = "on" /\ view[i].home # 0 => view[i].home = catalog[i].home
    BY DEF Confirmed
  <2>4. \A k \in DOMAIN events : events[k].kind = "ready" /\ proc[events[k].id].run = "on" =>
          events[k].n = catalog[events[k].id].home
    BY DEF Confirmed
  <2>5. ~proc[a].prepared
    BY <1>1, <1>7
  <2> USE DEF Confirmed
  <2> HIDE DEF NoQuestion, Protocol, IInv
  <2> QED
    BY <1>0, <1>4, <2>1, <2>2, <2>3, <2>4, <2>5
<1>15. Polling'
  <2>1. ASSUME NEW i \in connections PROVE Promoted(i)' <=> Promoted(i)
    <3>1. CASE i # a
      BY <1>5, <3>1 DEF Promoted, TypeOK
    <3>2. CASE i = a
      BY <1>2, <1>6, <3>2 DEF Promoted
    <3> QED
      BY <3>1, <3>2
  <2>2. up => primary \in connections
    BY DEF Lives
  <2> HIDE DEF Promoted
  <2> QED
    BY <1>0, <2>1, <2>2 DEF Polling
<1> QED
  BY <1>8, <1>9, <1>10, <1>11, <1>12, <1>13, <1>14, <1>15

LEMMA ShutdownStep ==
  ASSUME IInv, NEW r \in Ids \cup {NoId}, Shutdown(r)
  PROVE  IInv'
<1> USE DEF IInv
<1> DEFINE s == [do |-> "prepare", rev |-> 0]
           c == [i \in Ids |-> s]
<1>0. /\ up /\ phase = "open" /\ phase' = "prepare" /\ retire' = r /\ SendAll(c)
      /\ prepared' = {} /\ refused' = {} /\ aborted' = {} /\ acknowledged' = {} /\ ended' = {}
      /\ commands' \in Nat
      /\ UNCHANGED <<up, connections, primary, selected, activate, removing, deferredUsage, view, events,
                     proc, catalog, nextHome, turns, dead, worked, lease, asked, accepted, handled, faults>>
  BY DEF Shutdown, Taken, workers, TypeOK
<1>1. s \in Commands /\ s.do = "prepare"
  BY DEF Commands, Protocol
<1> HIDE DEF s
<1>2. c \in [Ids -> Commands] /\ \A i \in Ids : c[i] = s
  BY <1>1
<1> HIDE DEF c
<1>3. /\ inbox' \in [Ids -> Seq(Commands)]
      /\ \A j \in connections : j \in Ids /\ inbox'[j] = Append(inbox[j], s)
  BY <1>0, <1>2, SendMany
<1>4. ASSUME NEW j \in connections
      PROVE  /\ \A k \in DOMAIN inbox[j] : k \in DOMAIN inbox'[j] /\ inbox'[j][k] = inbox[j][k]
             /\ \A k \in DOMAIN inbox'[j] : \/ k \in DOMAIN inbox[j] /\ inbox'[j][k] = inbox[j][k]
                                            \/ k = Len(inbox'[j]) /\ inbox'[j][k] = s
  <2>1. j \in Ids /\ inbox'[j] = Append(inbox[j], s)
    BY <1>3
  <2>2. /\ Len(inbox[j]) \in Nat /\ Len(inbox'[j]) = Len(inbox[j]) + 1
        /\ DOMAIN inbox[j] = 1..Len(inbox[j]) /\ DOMAIN inbox'[j] = 1..(Len(inbox[j]) + 1)
        /\ \A k \in DOMAIN inbox[j] : inbox'[j][k] = inbox[j][k]
        /\ inbox'[j][Len(inbox[j]) + 1] = s
        /\ \A k \in DOMAIN inbox'[j] : k \notin DOMAIN inbox[j] => k = Len(inbox[j]) + 1
    BY <1>1, <2>1, Sends
  <2> QED
    BY <2>2
<1>5. /\ removing = NoId
      /\ \A i \in connections : \A k \in DOMAIN inbox[i] : inbox[i][k].do \notin Protocol
      /\ \A k \in DOMAIN events : events[k].kind \notin Phased
      /\ \A i \in Ids : ~proc[i].prepared
  BY <1>0, OpenQuiet
<1>6. Party' = connections /\ Counted' = {}
  BY <1>0, <1>5 DEF Party, Counted
<1>7. TypeOK'
  <2>1. phase' \in Phases /\ retire' \in Nat
    BY <1>0, IdsAre DEF Phases, NoId
  <2> QED
    BY <1>0, <1>3, <2>1 DEF TypeOK
<1>8. Lives'
  <2>1. phase \notin Ending
    BY <1>0 DEF Ending
  <2> QED
    BY <1>0, <1>5, <2>1, LivesSame
<1>9. TurnsExclusive'
  BY <1>0, TurnsKept
<1>10. HomesApart'
  BY <1>0, HomesServed
<1>11. AskedOnce'
  <2>1. ASSUME NEW i \in connections, NEW k \in DOMAIN inbox'[i], inbox'[i][k].do \in Protocol
        PROVE  k = Len(inbox'[i]) /\ inbox'[i][k].do = "prepare"
    BY <1>1, <1>4, <1>5, <2>1
  <2>2. "prepare" \in Calls(phase)'
    BY <1>0 DEF Calls
  <2> QED
    BY <1>0, <1>5, <1>6, <2>1, <2>2, AskedAnew
<1>12. Frozen'
  <2>1. \A k \in DOMAIN events : events[k].kind # "prepared" /\ events[k].kind # "aborted"
    BY <1>5 DEF Phased
  <2> QED
    BY <1>0, <1>5, <2>1 DEF Frozen
<1>13. Confirmed'
  <2>1. ASSUME NEW i \in connections, NEW k \in DOMAIN inbox'[i] PROVE inbox'[i][k].do # "prepare_delete"
    <3>1. "prepare_delete" \in Protocol
      BY DEF Protocol
    <3> QED
      BY <1>1, <1>4, <1>5, <3>1
  <2> HIDE DEF NoQuestion, Protocol
  <2> QED
    BY <1>0, <1>5, <2>1 DEF Confirmed
<1>14. Polling'
  <2>1. ASSUME NEW i \in connections PROVE Promoted(i)' <=> Promoted(i)
    BY <1>1, <1>4 DEF Promoted
  <2>2. up => primary \in connections
    BY DEF Lives
  <2> HIDE DEF Promoted
  <2> QED
    BY <1>0, <2>1, <2>2 DEF Polling
<1> QED
  BY <1>7, <1>8, <1>9, <1>10, <1>11, <1>12, <1>13, <1>14

\* The lowest free number is used; nothing is heard of it yet.
LEMMA CreateStep ==
  ASSUME IInv, Create
  PROVE  IInv'
<1> USE DEF IInv
<1> DEFINE i == First(Ids \ connections)
<1>0. /\ up /\ phase = "open" /\ connections' = connections \cup {i} /\ activate' = activate \cup {i}
      /\ catalog' = [catalog EXCEPT ![i].dir = TRUE] /\ proc' = [proc EXCEPT ![i] = Starting(FALSE)]
      /\ view' = [view EXCEPT ![i] = Unseen] /\ inbox' = [inbox EXCEPT ![i] = <<>>]
      /\ commands' \in Nat
      /\ UNCHANGED <<up, primary, selected, phase, removing, prepared, refused, aborted, acknowledged,
                     ended, retire, deferredUsage, events, nextHome, turns, dead, worked, lease, asked,
                     accepted, handled, faults>>
  BY SMTT(20) DEF Create, Taken, shutdown, TypeOK
<1>1. i \in Ids /\ i \notin connections
  <2>1. Ids \ connections \in SUBSET Ids /\ Ids \ connections # {}
    BY DEF Create
  <2> QED
    BY <2>1, FirstIn
<1> HIDE DEF i
<1>2. /\ Starting(FALSE) \in Process /\ Starting(FALSE).run = "starting" /\ Starting(FALSE).busy = FALSE
      /\ ~Starting(FALSE).prepared /\ ~Starting(FALSE).usage
      /\ Unseen \in Shown /\ Unseen.home = 0
  BY DEF Starting, Off, Process, Unseen, Shown
<1>3. /\ proc' \in [Ids -> Process] /\ proc'[i] = Starting(FALSE) /\ \A j \in Ids : j # i => proc'[j] = proc[j]
      /\ view' \in [Ids -> Shown] /\ view'[i] = Unseen /\ \A j \in Ids : j # i => view'[j] = view[j]
  BY <1>0, <1>1, <1>2 DEF TypeOK
<1>4. /\ catalog' \in [Ids -> Record]
      /\ \A j \in Ids : catalog'[j].home = catalog[j].home /\ catalog'[j].deleted = catalog[j].deleted
  <2> DEFINE d == [catalog[i] EXCEPT !.dir = TRUE]
  <2>1. d \in Record /\ d.home = catalog[i].home /\ d.deleted = catalog[i].deleted
    BY <1>1, Bumped DEF Record
  <2>2. catalog' = [catalog EXCEPT ![i] = d] /\ catalog \in [Ids -> Record]
    BY <1>0, <1>1 DEF TypeOK
  <2> HIDE DEF d
  <2> QED
    BY <1>1, <2>1, <2>2
<1>5. /\ inbox' \in [Ids -> Seq(Commands)] /\ inbox'[i] = <<>> /\ DOMAIN inbox'[i] = {}
      /\ \A j \in Ids : j # i => inbox'[j] = inbox[j]
  <2>1. <<>> \in Seq(Commands) /\ DOMAIN <<>> = {}
    OBVIOUS
  <2> HIDE DEF Commands
  <2> QED
    BY <1>0, <1>1, <2>1 DEF TypeOK
<1>6. /\ removing = NoId /\ Counted = {}
      /\ \A j \in connections : \A k \in DOMAIN inbox[j] : inbox[j][k].do \notin Protocol
      /\ \A k \in DOMAIN events : events[k].kind \notin Phased
      /\ \A j \in Ids : ~proc[j].prepared /\ proc[j].run # "closing"
  BY <1>0, OpenQuiet
<1>7. /\ proc[i].run = "off" /\ ~proc[i].busy /\ primary # i /\ primary \in connections /\ primary \in Ids
      /\ \A k \in DOMAIN events : events[k].id # i /\ events[k].id \in connections /\ events[k].id \in Ids
  BY <1>0, <1>1 DEF Lives, TypeOK
<1>8. TypeOK'
  <2>1. connections' \in SUBSET Ids /\ activate' \in SUBSET Ids
    BY <1>0, <1>1 DEF TypeOK
  <2> QED
    BY <1>0, <1>3, <1>4, <1>5, <2>1 DEF TypeOK
<1>9. Lives'
  <2>1. ASSUME NEW j \in Ids
        PROVE  /\ proc'[j].run # "off" => j \in connections'
               /\ proc'[j].run # "on" => ~proc'[j].busy
               /\ proc'[j].run \in {"off", "starting"} => ~proc'[j].prepared
               /\ proc'[j].run = "off" => ~proc'[j].usage
               /\ proc'[j].run # "closing"
               /\ j \in connections' /\ proc'[j].run = "off" => Doomed
    <3>1. CASE j = i
      BY <1>0, <1>2, <1>3, <3>1
    <3>2. CASE j # i
      <4>1. phase \notin Ending
        BY <1>0 DEF Ending
      <4> QED
        BY <1>0, <1>3, <1>6, <3>2, <4>1 DEF Lives
    <3> QED
      BY <3>1, <3>2
  <2>2. ASSUME NEW k \in DOMAIN events
        PROVE  /\ events[k].id \in connections' /\ proc'[events[k].id].run # "starting"
               /\ events[k].kind = "ended" =>
                    /\ proc'[events[k].id].run = "off"
                    /\ \A l \in DOMAIN events : events[l].id = events[k].id => l <= k
    <3>1. proc'[events[k].id] = proc[events[k].id] /\ events[k].id \in connections
      BY <1>3, <1>7
    <3> QED
      BY <1>0, <3>1 DEF Lives
  <2>3. Doomed' = Doomed /\ primary' \in connections' /\ up'
    BY <1>0, <1>7 DEF Doomed
  <2> HIDE DEF Doomed, Party, Ending
  <2> QED
    BY <1>0, <1>6, <2>1, <2>2, <2>3 DEF Lives
<1>10. TurnsExclusive'
  <2>1. \A j \in Ids : proc'[j].busy = proc[j].busy
    <3>1. proc[i].busy = FALSE
      BY <1>1, <1>7, Bumped, Zenon
    <3> QED
      BY <1>2, <1>3, <3>1, Zenon
  <2> QED
    BY <1>0, <2>1, TurnsKept
<1>11. HomesApart'
  <2>1. \A j \in Ids : proc'[j].run = "on" => proc[j].run = "on"
    BY <1>2, <1>3
  <2>2. UNCHANGED <<dead, nextHome>>
    BY <1>0
  <2> QED
    BY <1>4, <2>1, <2>2 DEF HomesApart
<1>12. AskedOnce'
  <2>1. Counted' = {}
    BY <1>0 DEF Counted
  <2>2. ASSUME NEW j \in connections', NEW k \in DOMAIN inbox'[j] PROVE inbox'[j][k].do \notin Protocol
    BY <1>0, <1>1, <1>5, <1>6 DEF TypeOK
  <2> QED
    BY <1>0, <1>6, <2>1, <2>2, AskedAnew
<1>13. Frozen'
  <2>1. \A j \in Ids : ~proc'[j].prepared
    BY <1>2, <1>3, <1>6
  <2>2. \A k \in DOMAIN events : events[k].kind # "prepared" /\ events[k].kind # "aborted"
    BY <1>6 DEF Phased
  <2> QED
    BY <1>0, <2>1, <2>2 DEF Frozen
<1>14. Confirmed'
  <2>1. ASSUME NEW j \in connections'
        PROVE  /\ proc'[j].run = "starting" => view'[j].home = 0
               /\ proc'[j].run = "on" /\ view'[j].home # 0 => view'[j].home = catalog'[j].home
               /\ \A k \in DOMAIN inbox'[j] : inbox'[j][k].do # "prepare_delete"
    <3>1. CASE j = i
      BY <1>2, <1>3, <1>5, <3>1
    <3>2. CASE j # i
      <4>1. j \in connections /\ j \in Ids
        BY <1>0, <3>2 DEF TypeOK
      <4>2. proc'[j] = proc[j] /\ view'[j] = view[j] /\ inbox'[j] = inbox[j] /\ catalog'[j].home = catalog[j].home
        BY <1>3, <1>4, <1>5, <3>2, <4>1
      <4>3. \A k \in DOMAIN inbox[j] : inbox[j][k].do # "prepare_delete"
        BY <1>6, <4>1 DEF Protocol
      <4> QED
        BY <4>1, <4>2, <4>3 DEF Confirmed
    <3> QED
      BY <3>1, <3>2
  <2>2. ASSUME NEW k \in DOMAIN events, events[k].kind = "ready", proc'[events[k].id].run = "on"
        PROVE  events[k].n = catalog'[events[k].id].home
    <3>1. proc'[events[k].id] = proc[events[k].id] /\ catalog'[events[k].id].home = catalog[events[k].id].home
      BY <1>3, <1>4, <1>7
    <3> QED
      BY <2>2, <3>1 DEF Confirmed
  <2>3. asked = NoQuestion \/ asked.home # 0
    BY DEF Confirmed
  <2> HIDE DEF NoQuestion, Protocol
  <2>4. UNCHANGED <<asked, events, removing>> /\ removing = NoId
    BY <1>0, <1>6
  <2> QED
    BY <2>1, <2>2, <2>3, <2>4 DEF Confirmed
<1>15. Polling'
  <2>1. \A j \in Ids : proc'[j].usage => j = primary
    BY <1>2, <1>3 DEF Polling
  <2>2. ASSUME NEW j \in connections', Promoted(j)' PROVE j = primary
    <3>1. j # i
      BY <1>5, <2>2 DEF Promoted
    <3>2. j \in connections /\ j \in Ids
      BY <1>0, <3>1 DEF TypeOK
    <3>3. Promoted(j)
      BY <1>5, <2>2, <3>1, <3>2 DEF Promoted
    <3> QED
      BY <3>2, <3>3 DEF Polling
  <2>3. (Promoted(primary)' <=> Promoted(primary)) /\ proc'[primary] = proc[primary]
    BY <1>0, <1>3, <1>5, <1>7 DEF Promoted
  <2> HIDE DEF Promoted
  <2> QED
    BY <1>0, <2>1, <2>2, <2>3 DEF Polling
<1> QED
  BY <1>8, <1>9, <1>10, <1>11, <1>12, <1>13, <1>14, <1>15

-----------------------------------------------------------------------------
(* The daemon starts and ends.                                             *)

\* The connections in S were just started; with none the daemon does not run.
StartedWith(S) ==
  /\ up = (S # {})
  /\ connections = S /\ activate = {}
  /\ primary = (IF S = {} THEN NoId ELSE First(S)) /\ selected = primary
  /\ phase = "open" /\ removing = NoId /\ retire = NoId
  /\ prepared = {} /\ refused = {} /\ aborted = {} /\ acknowledged = {} /\ ended = {}
  /\ deferredUsage = <<>> /\ accepted = <<>> /\ handled = <<>>
  /\ view = [i \in Ids |-> Unseen]
  /\ events = <<>> /\ inbox = [i \in Ids |-> <<>>]
  /\ proc = [i \in Ids |-> IF i \in S THEN Starting(i = First(S)) ELSE Off]

\* What outlives the daemon.
Kept ==
  /\ catalog \in [Ids -> Record] /\ nextHome \in Nat \ {0}
  /\ turns = 0 /\ lease \in {"none", "shutdown", "account"}
  /\ asked \in Question /\ (asked = NoQuestion \/ asked.home # 0)
  /\ dead \in SUBSET Nat /\ commands \in Nat /\ worked \in Nat /\ faults \in Nat
  /\ \A h \in dead : h # 0 /\ h < nextHome
  /\ \A i \in Ids :
       /\ catalog[i].home < nextHome
       /\ catalog[i].home # 0 => \A j \in Ids : catalog[j].home = catalog[i].home => i = j
       /\ catalog[i].home # 0 /\ ~catalog[i].deleted => catalog[i].home \notin dead

Starts == Kept /\ \E S \in SUBSET Ids : StartedWith(S)

LEMMA StartsWell == Starts => IInv
<1> SUFFICES ASSUME Kept, NEW S \in SUBSET Ids, StartedWith(S) PROVE IInv
  BY DEF Starts
<1>1. /\ up = (S # {}) /\ connections = S /\ activate = {} /\ selected = primary
      /\ phase = "open" /\ removing = NoId /\ retire = NoId
      /\ prepared = {} /\ refused = {} /\ aborted = {} /\ acknowledged = {} /\ ended = {}
      /\ deferredUsage = <<>> /\ accepted = <<>> /\ handled = <<>>
      /\ view = [i \in Ids |-> Unseen] /\ events = <<>> /\ inbox = [i \in Ids |-> <<>>]
  BY DEF StartedWith
<1>2. /\ primary \in Ids \cup {NoId} /\ primary \in Nat /\ (primary \in connections <=> up)
      /\ S # {} => primary \in S /\ primary = First(S)
      /\ S = {} => primary = NoId
  <2>1. CASE S = {}
    BY <1>1, <2>1, IdsAre DEF StartedWith, NoId
  <2>2. CASE S # {}
    <3>1. First(S) \in S /\ primary = First(S)
      BY <2>2, FirstIn DEF StartedWith
    <3> QED
      BY <1>1, <2>2, <3>1, IdsAre
  <2> QED
    BY <2>1, <2>2
<1>3. ASSUME NEW i \in Ids
      PROVE  /\ proc[i] \in Process /\ proc[i].busy = FALSE /\ ~proc[i].busy /\ ~proc[i].prepared
             /\ i \in S => proc[i].run = "starting" /\ (proc[i].usage <=> i = primary)
             /\ i \notin S => proc[i].run = "off" /\ ~proc[i].usage
  <2>1. CASE i \in S
    <3>1. proc[i] = Starting(i = primary)
      BY <1>2, <2>1 DEF StartedWith
    <3>2. \A b \in BOOLEAN : /\ Starting(b) \in Process /\ Starting(b).run = "starting" /\ Starting(b).busy = FALSE
                             /\ Starting(b).prepared = FALSE /\ Starting(b).usage = b
      BY DEF Starting, Off, Process
    <3>3. (i = primary) \in BOOLEAN
      OBVIOUS
    <3>4. /\ proc[i] \in Process /\ proc[i].run = "starting" /\ proc[i].busy = FALSE
          /\ proc[i].prepared = FALSE /\ proc[i].usage = (i = primary)
      BY <3>1, <3>2, <3>3, Zenon
    <3> QED
      BY <2>1, <3>4, Zenon
  <2>2. CASE i \notin S
    <3>1. proc[i] = Off
      BY <2>2 DEF StartedWith
    <3> QED
      BY <2>2, <3>1 DEF Off, Process
  <2> QED
    BY <2>1, <2>2
<1>4. proc \in [Ids -> Process]
  <2>1. proc = [i \in Ids |-> proc[i]]
    BY DEF StartedWith
  <2> HIDE DEF Process
  <2> QED
    BY <1>3, <2>1
<1>5. /\ view \in [Ids -> Shown] /\ \A i \in Ids : view[i].home = 0
      /\ \A i \in Ids : inbox[i] = <<>> /\ DOMAIN inbox[i] = {}
      /\ DOMAIN events = {}
  BY <1>1 DEF Unseen, Shown
<1>6. inbox \in [Ids -> Seq(Commands)] /\ events \in Seq(Events)
  <2>1. <<>> \in Seq(Commands) /\ <<>> \in Seq(Events)
    OBVIOUS
  <2> HIDE DEF Commands, Events
  <2> QED
    BY <1>1, <2>1
<1>7. TypeOK
  <2>1. deferredUsage \in Seq(Nat) /\ accepted \in Seq(Nat) /\ handled \in Seq(Nat)
    BY <1>1
  <2>2. removing \in Nat /\ retire \in Nat /\ phase \in Phases /\ up \in BOOLEAN
    BY <1>1 DEF NoId, Phases
  <2>3. selected \in Ids \cup {NoId} /\ connections \in SUBSET Ids
    BY <1>1, <1>2
  <2>4. /\ turns \in Nat /\ lease \in {"none", "turns", "shutdown", "account"} /\ nextHome \in Nat
        /\ catalog \in [Ids -> Record] /\ asked \in Question /\ dead \in SUBSET Nat
        /\ commands \in Nat /\ worked \in Nat /\ faults \in Nat
    BY DEF Kept
  <2> QED
    BY <1>1, <1>2, <1>4, <1>5, <1>6, <2>1, <2>2, <2>3, <2>4 DEF TypeOK
<1>8. Lives
  <2> HIDE DEF Doomed, Party, Ending
  <2> QED
    BY <1>1, <1>2, <1>3, <1>5 DEF Lives
<1>9. TurnsExclusive
  BY <1>3, TurnsNone DEF Kept
<1>10. HomesApart
  <2>1. \A i \in Ids : proc[i].run # "on"
    BY <1>3
  <2> QED
    BY <2>1 DEF HomesApart, Kept
<1>11. AskedOnce
  <2>1. Counted = {}
    BY <1>1 DEF Counted
  <2> HIDE DEF Counted, Party, Calls, Replies
  <2> QED
    BY <1>1, <1>5, <2>1 DEF AskedOnce
<1>12. Frozen
  BY <1>1, <1>3, <1>5 DEF Frozen
<1>13. Confirmed
  <2>1. \A i \in Ids : proc[i].run # "on"
    BY <1>3
  <2>2. asked = NoQuestion \/ asked.home # 0
    BY DEF Kept
  <2> HIDE DEF NoQuestion, Protocol
  <2> QED
    BY <1>1, <1>5, <2>1, <2>2 DEF Confirmed
<1>14. Polling
  BY <1>1, <1>2, <1>3, <1>5 DEF Polling, Promoted
<1> QED
  BY <1>7, <1>8, <1>9, <1>10, <1>11, <1>12, <1>13, <1>14 DEF IInv

LEMMA StartsWellNext == Starts' => IInv'
BY StartsWell, PTL

\* Nothing is open when the daemon does not run.
LEMMA DownQuiet ==
  ASSUME IInv, ~up
  PROVE  turns = 0 /\ lease # "turns"
<1>1. {i \in Ids : proc[i].busy} = {}
  BY DEF IInv, Lives
<1>2. turns = 0
  BY <1>1, FS_EmptySet DEF IInv, TurnsExclusive
<1> QED
  BY <1>2 DEF IInv, TurnsExclusive

LEMMA RestartStep ==
  ASSUME IInv, Restart
  PROVE  IInv'
<1>1. PICK S \in SUBSET Ids : S = (IF Recoverable = {} THEN {1} ELSE Recoverable) /\ S # {}
  BY IdsAre DEF Recoverable
<1>2. /\ up' = TRUE /\ Fresh(S) /\ ~up
      /\ catalog' = [i \in Ids |-> IF i \in S THEN [catalog[i] EXCEPT !.dir = TRUE] ELSE catalog[i]]
      /\ UNCHANGED <<nextHome, turns, dead, worked, lease, asked, commands, faults>>
  BY <1>1 DEF Restart
<1>3. StartedWith(S)'
  BY <1>1, <1>2 DEF Fresh, StartedWith
<1>4. ASSUME NEW i \in Ids
      PROVE  /\ catalog'[i] \in Record /\ catalog'[i].home = catalog[i].home
             /\ catalog'[i].deleted = catalog[i].deleted
  <2>1. catalog'[i] = catalog[i] \/ catalog'[i] = [catalog[i] EXCEPT !.dir = TRUE]
    BY <1>2
  <2>2. catalog[i] \in Record
    BY DEF IInv, TypeOK
  <2> QED
    BY <2>1, <2>2 DEF Record
<1>5. Kept'
  <2>1. catalog' \in [Ids -> Record]
    <3>1. catalog' = [i \in Ids |-> catalog'[i]]
      BY <1>2
    <3> HIDE DEF Record
    <3> QED
      BY <1>4, <3>1
  <2>2. turns' = 0 /\ lease' \in {"none", "shutdown", "account"}
    BY <1>2, DownQuiet DEF IInv, TypeOK
  <2>3. /\ asked' \in Question /\ (asked' = NoQuestion \/ asked'.home # 0)
        /\ dead' \in SUBSET Nat /\ commands' \in Nat /\ worked' \in Nat /\ faults' \in Nat
        /\ nextHome' \in Nat \ {0}
    BY <1>2 DEF IInv, TypeOK, Confirmed, HomesApart
  <2>4. UNCHANGED <<dead, nextHome>>
    BY <1>2
  <2>5. /\ \A h \in dead' : h # 0 /\ h < nextHome'
        /\ \A i \in Ids :
             /\ catalog'[i].home < nextHome'
             /\ catalog'[i].home # 0 => \A j \in Ids : catalog'[j].home = catalog'[i].home => i = j
             /\ catalog'[i].home # 0 /\ ~catalog'[i].deleted => catalog'[i].home \notin dead'
    BY <1>4, <2>4 DEF IInv, HomesApart
  <2> HIDE DEF NoQuestion
  <2> QED
    BY <2>1, <2>2, <2>3, <2>5 DEF Kept
<1>6. Starts'
  BY <1>1, <1>3, <1>5 DEF Starts
<1> QED
  BY <1>6, StartsWellNext

LEMMA ReturnStep ==
  ASSUME IInv, Return, faults' \in Nat
  PROVE  IInv'
<1>1. StartedWith({})'
  BY DEF Return, Fresh, StartedWith
<1>2. Kept'
  <2>1. turns' = 0 /\ lease' \in {"none", "shutdown", "account"}
    BY DEF Return
  <2>2. UNCHANGED <<catalog, nextHome, dead, worked, asked, commands>>
    BY DEF Return
  <2>3. /\ asked \in Question /\ (asked = NoQuestion \/ asked.home # 0)
        /\ dead \in SUBSET Nat /\ commands \in Nat /\ worked \in Nat
        /\ nextHome \in Nat \ {0} /\ catalog \in [Ids -> Record]
    BY DEF IInv, TypeOK, Confirmed, HomesApart
  <2> HIDE DEF NoQuestion
  <2> QED
    BY <2>1, <2>2, <2>3 DEF Kept, IInv, HomesApart
<1>3. Starts'
  BY <1>1, <1>2 DEF Starts
<1> QED
  BY <1>3, StartsWellNext

LEMMA InitStarts == Init => IInv
<1> SUFFICES ASSUME Init PROVE IInv
  OBVIOUS
<1>1. PICK found \in SUBSET Ids :
        LET S    == IF found = {} THEN {1} ELSE found
            gone == IF 1 \in S THEN {} ELSE {1}
        IN
        /\ up = TRUE
        /\ connections = S /\ primary = First(S) /\ selected = First(S) /\ activate = {}
        /\ phase = "open" /\ removing = NoId /\ retire = NoId
        /\ prepared = {} /\ refused = {} /\ aborted = {} /\ acknowledged = {} /\ ended = {}
        /\ deferredUsage = <<>> /\ accepted = <<>> /\ handled = <<>>
        /\ view = [i \in Ids |-> Unseen]
        /\ events = <<>> /\ inbox = [i \in Ids |-> <<>>]
        /\ proc = [i \in Ids |-> IF i \in S THEN Starting(i = First(S)) ELSE Off]
        /\ catalog = [i \in Ids |->
             IF i \in found \cup gone
             THEN [dir |-> TRUE, home |-> i, rev |-> 1, deleted |-> i \in gone]
             ELSE [Nowhere EXCEPT !.dir = (i \in S)]]
        /\ nextHome = Limit + 1 /\ lease = "none" /\ turns = 0
        /\ asked = NoQuestion /\ dead = gone
        /\ commands = 0 /\ worked = 0 /\ faults = 0
  BY DEF Init
<1> DEFINE S    == IF found = {} THEN {1} ELSE found
           gone == IF 1 \in S THEN {} ELSE {1}
<1>2. S \in SUBSET Ids /\ S # {} /\ gone \in SUBSET Ids /\ gone \subseteq {1}
  BY IdsAre
<1>3. StartedWith(S)
  BY <1>1, <1>2 DEF StartedWith
<1>4. ASSUME NEW i \in Ids
      PROVE  /\ catalog[i] \in Record /\ catalog[i].home \in {0, i}
             /\ catalog[i].home # 0 => (catalog[i].deleted <=> i \in gone)
  <2>1. CASE i \in found \cup gone
    <3>1. catalog[i] = [dir |-> TRUE, home |-> i, rev |-> 1, deleted |-> i \in gone]
      BY <1>1, <2>1
    <3> HIDE DEF gone
    <3>0. (i \in gone) \in BOOLEAN
      OBVIOUS
    <3>2. PICK b \in BOOLEAN : b = (i \in gone)
      BY <3>0, Zenon
    <3>3. catalog[i] = [dir |-> TRUE, home |-> i, rev |-> 1, deleted |-> b] /\ i \in Nat
      BY <3>1, <3>2, IdsAre
    <3>4. catalog[i] \in Record /\ catalog[i].home = i /\ catalog[i].deleted = b
      BY <3>3 DEF Record
    <3> QED
      BY <3>2, <3>4, Zenon
  <2>2. CASE i \notin found \cup gone
    <3>1. catalog[i] = [Nowhere EXCEPT !.dir = (i \in S)]
      BY <1>1, <2>2
    <3> HIDE DEF S
    <3>0. (i \in S) \in BOOLEAN
      OBVIOUS
    <3>2. PICK b \in BOOLEAN : b = (i \in S)
      BY <3>0, Zenon
    <3>3. catalog[i] = [Nowhere EXCEPT !.dir = b]
      BY <3>1, <3>2
    <3>5. Nowhere \in Record /\ Nowhere.home = 0
      BY DEF Nowhere, Record
    <3>6. [Nowhere EXCEPT !.dir = b] \in Record /\ [Nowhere EXCEPT !.dir = b].home = Nowhere.home
      BY <3>5 DEF Record
    <3>4. catalog[i] \in Record /\ catalog[i].home = 0
      BY <3>3, <3>5, <3>6
    <3> QED
      BY <3>4
  <2> QED
    BY <2>1, <2>2
<1>5. Kept
  <2>1. catalog \in [Ids -> Record]
    <3>1. catalog = [i \in Ids |-> catalog[i]]
      BY <1>1
    <3> HIDE DEF Record
    <3> QED
      BY <1>4, <3>1
  <2>2. asked \in Question
    BY <1>1 DEF NoQuestion, Question, NoId
  <2>3. nextHome \in Nat \ {0} /\ dead \in SUBSET Nat /\ \A i \in Ids : i < nextHome /\ 0 < nextHome /\ i # 0 /\ i \in Nat
    <3>1. nextHome = Limit + 1 /\ dead = gone
      BY <1>1
    <3>2. nextHome \in Nat \ {0} /\ \A i \in Ids : i < nextHome /\ 0 < nextHome /\ i # 0 /\ i \in Nat
      BY <3>1, CoordinatorAssumption DEF Ids
    <3>3. dead \in SUBSET Nat
      BY <1>2, <3>1, IdsAre
    <3> QED
      BY <3>2, <3>3
  <2>4. /\ turns = 0 /\ lease \in {"none", "shutdown", "account"} /\ asked = NoQuestion
        /\ commands \in Nat /\ worked \in Nat /\ faults \in Nat /\ dead = gone
    BY <1>1
  <2> HIDE DEF gone, S, NoQuestion
  <2>5. /\ \A h \in dead : h # 0 /\ h < nextHome
        /\ \A i \in Ids :
             /\ catalog[i].home < nextHome
             /\ catalog[i].home # 0 => \A j \in Ids : catalog[j].home = catalog[i].home => i = j
             /\ catalog[i].home # 0 /\ ~catalog[i].deleted => catalog[i].home \notin dead
    BY <1>2, <1>4, <2>3, <2>4
  <2> QED
    BY <2>1, <2>2, <2>3, <2>4, <2>5 DEF Kept
<1> HIDE DEF S
<1>6. Starts
  BY <1>2, <1>3, <1>5 DEF Starts
<1> QED
  BY <1>6, StartsWell

LEMMA StopsStep ==
  ASSUME IInv, Crash \/ ShutdownOver \/ Broken
  PROVE  IInv'
<1>1. Return /\ faults' \in Nat
  BY DEF Crash, Fault, ShutdownOver, Broken, IInv, TypeOK
<1> QED
  BY <1>1, ReturnStep

-----------------------------------------------------------------------------
(* The theorems.                                                           *)

LEMMA InvariantStep ==
  ASSUME IInv, Next
  PROVE  IInv'
<1>1. CASE UI
  BY <1>1, ConfirmStep, DeleteStep, CreateStep, ForwardStep, UsageStep, StatusStep, SelectStep,
     ShutdownStep DEF UI
<1>2. CASE Serve
  BY <1>2, ReadyStep, PreparedDeleteStep, PreparedShutdownStep, AbortedDeleteStep,
     AbortedShutdownStep, AcknowledgedStep, EndedDeleteStep, StopsStep DEF Serve
<1>3. CASE Crash \/ Restart \/ Account
  BY <1>3, StopsStep, RestartStep, AccountStep
<1>4. ASSUME NEW i \in Ids, Obey(i) PROVE IInv'
  BY <1>4, StartUpStep, ObeyPrepareStep, ObeyAbortStep, ObeyShutdownStep, ObeyUsageStep,
     ObeyDecisionStep, ObeyStatusStep, LeaveStep DEF Obey
<1>5. ASSUME NEW i \in Ids, TurnBegin(i) \/ TurnEnd(i) \/ Fail(i) PROVE IInv'
  BY <1>5, TurnBeginStep, TurnEndStep, FailStep
<1> QED
  BY <1>1, <1>2, <1>3, <1>4, <1>5 DEF Next

LEMMA InvariantKept ==
  ASSUME IInv, [Next]_vars
  PROVE  IInv'
<1>1. ASSUME UNCHANGED vars PROVE IInv'
  <2>1. UNCHANGED <<up, connections, primary, selected, activate, phase, removing, prepared, refused,
                    aborted, acknowledged, ended, retire, deferredUsage, view, events, inbox, proc,
                    catalog, nextHome, turns, dead, worked, lease, asked, accepted, handled, commands,
                    faults>>
    BY <1>1 DEF vars, service, shutdown, workers
  <2>2. TypeOK'
    BY <1>1, <2>1 DEF IInv, TypeOK
  <2> QED
    BY <2>1, <2>2, StillStep
<1> QED
  BY <1>1, InvariantStep

\* Every reachable state satisfies the inductive invariant.
THEOREM Invariance == Spec => []IInv
<1>1. Init => IInv
  BY InitStarts
<1>2. IInv /\ [Next]_vars => IInv'
  BY InvariantKept
<1> QED
  BY <1>1, <1>2, PTL DEF Spec

\* In the second phase of a shutdown no connection has work open or takes requests,
\* and between shutdowns and deletions none is frozen.
THEOREM ShutdownsAllOrNothing == Spec => []AllOrNothing
<1>1. IInv => AllOrNothing
  BY DEF IInv, TypeOK, Frozen, Holds, AllOrNothing
<1> QED
  BY <1>1, Invariance, PTL

\* No event of a deleted connection is left, one connection at most polls the usage,
\* and between deletions it is the primary that does or is about to.
THEOREM DeletedStaysGone == Spec => []DeletedIsGone
<1>1. IInv => DeletedIsGone
  <2> SUFFICES ASSUME IInv PROVE DeletedIsGone
    OBVIOUS
  <2>1. \A k \in DOMAIN events : events[k].id \in connections
    BY DEF IInv, Lives
  <2>2. \A i, j \in Ids : proc[i].usage /\ proc[j].usage => i = j
    BY DEF IInv, Polling
  <2>3. ASSUME up, phase = "open" PROVE proc[primary].usage \/ Promoted(primary) \/ Doomed
    <3>1. primary \in connections /\ primary \in Ids /\ phase \notin Ending
      BY <2>3 DEF IInv, Lives, TypeOK, Ending
    <3>2. proc[primary].run = "off" => Doomed
      BY <3>1 DEF IInv, Lives
    <3> QED
      BY <2>3, <3>2 DEF IInv, Polling
  <2> QED
    BY <2>1, <2>2, <2>3 DEF DeletedIsGone
<1> QED
  BY <1>1, Invariance, PTL

\* The shared lease is held exactly while a turn of some connection is open.
THEOREM TurnsStayExclusive == Spec => []TurnsExclusive
<1>1. IInv => TurnsExclusive
  BY DEF IInv
<1> QED
  BY <1>1, Invariance, PTL

\* What is served has never been deleted or retired.
THEOREM NoneResurrected == Spec => []NoResurrection
<1>1. IInv => NoResurrection
  BY DEF IInv, HomesApart, NoResurrection
<1> QED
  BY <1>1, Invariance, PTL

\* The one step that marks a connection deleted finds it as it was confirmed.
LEMMA MarksConfirmed ==
  ASSUME IInv, NEW j \in Ids, ObeyShutdown(j),
         NEW i \in Ids, catalog'[i].deleted, ~catalog[i].deleted
  PROVE  asked = [id |-> i, home |-> catalog[i].home, rev |-> catalog[i].rev]
<1> DEFINE do == Head(inbox[j]).do
<1>1. catalog \in [Ids -> Record] /\ asked \in Question /\ phase \in Phases
  BY DEF IInv, TypeOK
<1>2. ~(catalog' = catalog)
  OBVIOUS
<1>3. /\ proc[j].run = "on" /\ Takes1(j) /\ do \in {"stop", "retire", "delete"}
      /\ ~proc[j].busy /\ (do = "delete" => proc[j].prepared)
      /\ catalog' = [catalog EXCEPT ![j].deleted = (do = "delete"),
                                    ![j].home = IF do = "retire" THEN 0 ELSE @]
  BY <1>2 DEF ObeyShutdown, Obeys, Takes1
<1>4. i = j
  BY <1>1, <1>3
<1>5. do = "delete"
  <2>1. catalog'[j].deleted = (do = "delete")
    BY <1>1, <1>3
  <2> QED
    BY <1>4, <2>1, Zenon
<1>6. "delete" \in Calls(phase) /\ j \in Party
  <2>1. do \in Protocol
    BY <1>5 DEF Protocol
  <2> QED
    BY <1>3, <1>5, <2>1, Asks
<1>7. removing # NoId /\ j = removing
  <2>1. phase = "delete_commit"
    BY <1>1, <1>6, Questions
  <2>2. removing # NoId
    BY <2>1 DEF IInv, Lives
  <2> QED
    BY <1>6, <2>2 DEF Party
<1>8. asked.id = i /\ asked.home = catalog[i].home /\ asked.rev = catalog[i].rev
  BY <1>3, <1>4, <1>5, <1>7 DEF IInv, Confirmed
<1> QED
  BY <1>1, <1>8 DEF Question

\* No other step marks one.
LEMMA MarksOnce ==
  ASSUME IInv, Next, \A j \in Ids : ~ObeyShutdown(j), NEW i \in Ids, catalog'[i].deleted
  PROVE  catalog[i].deleted
<1> USE DEF IInv
<1>1. catalog \in [Ids -> Record] /\ 1 \in Ids
  BY IdsAre DEF TypeOK
<1>2. CASE UNCHANGED catalog
  BY <1>2
<1>3. ASSUME NEW j \in Ids, NEW c, catalog' = [catalog EXCEPT ![j] = c],
             c.deleted = catalog[j].deleted \/ c.deleted = FALSE
      PROVE  catalog[i].deleted
  <2>1. CASE i = j
    BY <1>1, <1>3, <2>1, Zenon
  <2>2. CASE i # j
    BY <1>1, <1>3, <2>2
  <2> QED
    BY <2>1, <2>2
<1>4. ASSUME NEW j \in Ids, Bump(j) PROVE catalog[i].deleted
  <2>1. catalog' = [catalog EXCEPT ![j] = [catalog[j] EXCEPT !.rev = @ + 1]]
    BY <1>1, <1>4 DEF Bump
  <2>2. [catalog[j] EXCEPT !.rev = @ + 1].deleted = catalog[j].deleted
    BY Bumped
  <2> QED
    BY <1>3, <2>1, <2>2
<1>5. ASSUME NEW j \in Ids, catalog' = [catalog EXCEPT ![j].dir = TRUE] PROVE catalog[i].deleted
  <2>1. catalog' = [catalog EXCEPT ![j] = [catalog[j] EXCEPT !.dir = TRUE]]
    BY <1>1, <1>5
  <2>2. [catalog[j] EXCEPT !.dir = TRUE].deleted = catalog[j].deleted
    BY Bumped DEF Record
  <2> QED
    BY <1>3, <2>1, <2>2
<1>6. CASE UI
  <2>1. CASE Create
    <3>1. First(Ids \ connections) \in Ids
      <4>1. Ids \ connections \in SUBSET Ids /\ Ids \ connections # {}
        BY <2>1 DEF Create
      <4> QED
        BY <4>1, FirstIn
    <3> QED
      BY <1>5, <2>1, <3>1 DEF Create
  <2>2. CASE ~Create
    BY <1>2, <1>6, <2>2 DEF UI, Confirm, Delete, Forward, Usage, Status, Select, Shutdown, workers
  <2> QED
    BY <2>1, <2>2
<1>7. CASE Serve
  <2>1. CASE EndedDelete
    BY <1>1, <1>2, <1>5, <2>1 DEF EndedDelete
  <2>2. CASE ~EndedDelete
    BY <1>2, <1>7, <2>2 DEF Serve, Ready, State, PreparedDelete, PreparedShutdown, AbortedDelete,
       AbortedShutdown, Acknowledged, EndedShutdown, ShutdownOver, Broken, Return
  <2> QED
    BY <2>1, <2>2
<1>8. CASE Crash \/ Account
  BY <1>2, <1>8 DEF Crash, Return, Account, workers
<1>9. CASE Restart
  <2>1. catalog'[i] = catalog[i] \/ catalog'[i] = [catalog[i] EXCEPT !.dir = TRUE]
    BY <1>9 DEF Restart
  <2>2. [catalog[i] EXCEPT !.dir = TRUE].deleted = catalog[i].deleted
    BY Bumped DEF Record
  <2> QED
    BY <2>1, <2>2
<1>10. ASSUME NEW j \in Ids, Obey(j) PROVE catalog[i].deleted
  <2>1. CASE StartUp(j)
    <3> DEFINE c == IF FromNothing(j) THEN [dir |-> TRUE, home |-> nextHome, rev |-> 1, deleted |-> FALSE]
                    ELSE [catalog[j] EXCEPT !.rev = @ + 1]
    <3>1. catalog' = [catalog EXCEPT ![j] = c]
      BY <2>1 DEF StartUp
    <3>2. c.deleted = catalog[j].deleted \/ c.deleted = FALSE
      BY Bumped
    <3> HIDE DEF c
    <3> QED
      BY <1>3, <3>1, <3>2
  <2>2. ASSUME NEW ok \in BOOLEAN, ObeyDecision(j, ok) PROVE catalog[i].deleted
    BY <1>2, <1>4, <2>2 DEF ObeyDecision
  <2>3. CASE ObeyPrepare(j) \/ ObeyAbort(j) \/ ObeyUsage(j) \/ ObeyStatus(j) \/ Leave(j)
    BY <1>2, <2>3 DEF ObeyPrepare, ObeyAbort, ObeyUsage, ObeyStatus, Leave
  <2> QED
    BY <1>10, <2>1, <2>2, <2>3 DEF Obey
<1>11. ASSUME NEW j \in Ids, TurnBegin(j) \/ TurnEnd(j) \/ Fail(j) PROVE catalog[i].deleted
  BY <1>2, <1>4, <1>11 DEF TurnBegin, TurnEnd, Fail
<1> QED
  BY <1>6, <1>7, <1>8, <1>9, <1>10, <1>11 DEF Next

\* Every deletion hits the home that the user confirmed, in the very state that was
\* shown.
THEOREM DeletesOnlyConfirmed == Spec => DeletesConfirmed
<1>1. ASSUME IInv, [Next]_vars, NEW i \in Ids, catalog'[i].deleted, ~catalog[i].deleted
      PROVE  asked = [id |-> i, home |-> catalog[i].home, rev |-> catalog[i].rev]
  <2>1. CASE UNCHANGED vars
    BY <1>1, <2>1 DEF vars, workers
  <2>2. CASE Next
    BY <1>1, <2>2, MarksConfirmed, MarksOnce
  <2> QED
    BY <1>1, <2>1, <2>2
<1>2. IInv /\ [Next]_vars =>
        [\A i \in Ids : catalog'[i].deleted /\ ~catalog[i].deleted
           => asked = [id |-> i, home |-> catalog[i].home, rev |-> catalog[i].rev]]_vars
  BY <1>1
<1> QED
  BY <1>2, Invariance, PTL DEF Spec, DeletesConfirmed

-----------------------------------------------------------------------------
(* Usage commands.                                                         *)

LEMMA UsagesAre ==
  ASSUME NEW q, NEW k
  PROVE  /\ k \in Usages(q) <=> k \in DOMAIN q /\ q[k].do = "usage"
         /\ k \in Usages(q) => q[k].rev \in Waiting(q)
BY DEF Usages, Waiting

LEMMA WaitingIs ==
  ASSUME NEW q, NEW r
  PROVE  r \in Waiting(q) <=> \E k \in Usages(q) : q[k].rev = r
BY DEF Waiting

\* The first command is taken.
LEMMA WaitingTaken ==
  ASSUME NEW q \in Seq(Commands), q # <<>>
  PROVE  /\ Head(q).do # "usage" => Waiting(Tail(q)) = Waiting(q)
         /\ Head(q).do = "usage" => Waiting(q) = {Head(q).rev} \cup Waiting(Tail(q))
         /\ InOrder(q) => /\ InOrder(Tail(q))
                          /\ Head(q).do = "usage" =>
                               \A r \in Waiting(Tail(q)) : Head(q).rev < r
<1> DEFINE t == Tail(q)
<1>1. /\ Head(q) = q[1] /\ 1 \in DOMAIN q
      /\ \A k \in DOMAIN t : k + 1 \in DOMAIN q /\ t[k] = q[k + 1]
      /\ \A k \in DOMAIN q : k # 1 => k - 1 \in DOMAIN t /\ t[k - 1] = q[k]
      /\ \A k \in DOMAIN t : k \in Nat \ {0}
      /\ \A k \in DOMAIN q : k \in Nat
  BY Shrink
<1> HIDE DEF t
<1>2. \A k \in Usages(t) : k \in Nat \ {0} /\ k + 1 \in Usages(q) /\ t[k] = q[k + 1]
  BY <1>1, UsagesAre
<1>3. \A k \in Usages(q) : k # 1 => k - 1 \in Usages(t) /\ t[k - 1] = q[k]
  BY <1>1, UsagesAre
<1>4. 1 \in Usages(q) <=> Head(q).do = "usage"
  BY <1>1, UsagesAre
<1>5. Waiting(t) \subseteq Waiting(q)
  BY <1>2, WaitingIs
<1>6. ASSUME NEW r \in Waiting(q) PROVE r \in Waiting(t) \/ (Head(q).do = "usage" /\ r = Head(q).rev)
  <2>1. PICK k \in Usages(q) : q[k].rev = r
    BY WaitingIs
  <2>2. CASE k = 1
    BY <1>1, <1>4, <2>1, <2>2
  <2>3. CASE k # 1
    BY <1>3, <2>1, <2>3, WaitingIs
  <2> QED
    BY <2>2, <2>3
<1>7. Head(q).do = "usage" => Head(q).rev \in Waiting(q)
  BY <1>1, <1>4, UsagesAre
<1>8. ASSUME InOrder(q) PROVE InOrder(t)
  BY <1>2, <1>8 DEF InOrder
<1>9. ASSUME InOrder(q), Head(q).do = "usage", NEW r \in Waiting(t) PROVE Head(q).rev < r
  <2>1. PICK k \in Usages(t) : t[k].rev = r
    BY WaitingIs
  <2>2. 1 < k + 1 /\ k + 1 \in Usages(q) /\ q[k + 1].rev = r
    BY <1>2, <2>1
  <2> QED
    BY <1>1, <1>4, <1>9, <2>2 DEF InOrder
<1> QED
  BY <1>5, <1>6, <1>7, <1>8, <1>9 DEF t

\* One command more.
LEMMA WaitingMore ==
  ASSUME NEW q \in Seq(Commands), NEW c \in Commands
  PROVE  /\ c.do # "usage" => Waiting(Append(q, c)) = Waiting(q)
         /\ c.do = "usage" => Waiting(Append(q, c)) = Waiting(q) \cup {c.rev}
         /\ InOrder(q) /\ (c.do = "usage" => \A r \in Waiting(q) : r < c.rev)
              => InOrder(Append(q, c))
<1> DEFINE t == Append(q, c)
           n == Len(q) + 1
<1>1. /\ DOMAIN q = 1..Len(q) /\ DOMAIN t = 1..n /\ Len(q) \in Nat /\ t[n] = c
      /\ \A k \in DOMAIN q : t[k] = q[k]
  BY Extend
<1> HIDE DEF t
<1>2. \A k \in DOMAIN t : k = n \/ (k \in DOMAIN q /\ k < n)
  BY <1>1
<1>3. \A k \in DOMAIN q : k \in DOMAIN t /\ k # n
  BY <1>1
<1>4. n \in DOMAIN t /\ n \in Nat /\ ~(n < n) /\ \A k \in DOMAIN q : ~(n < k)
  BY <1>1
<1> HIDE DEF n
<1>5. \A k \in Usages(q) : k \in Usages(t) /\ t[k] = q[k] /\ k # n
  BY <1>1, <1>3, UsagesAre
<1>6. \A k \in Usages(t) : (k = n /\ c.do = "usage") \/ (k \in Usages(q) /\ t[k] = q[k])
  <2> TAKE k \in Usages(t)
  <2>1. k \in DOMAIN t /\ t[k].do = "usage"
    BY UsagesAre
  <2>2. CASE k = n
    BY <1>1, <2>1, <2>2 DEF n
  <2>3. CASE k \in DOMAIN q
    BY <1>1, <2>1, <2>3, UsagesAre
  <2> QED
    BY <1>2, <2>1, <2>2, <2>3
<1>7. c.do = "usage" => n \in Usages(t)
  BY <1>1, <1>4, UsagesAre
<1>8. Waiting(q) \subseteq Waiting(t) /\ (c.do = "usage" => c.rev \in Waiting(t))
  BY <1>1, <1>5, <1>7, WaitingIs DEF n
<1>9. ASSUME NEW r \in Waiting(t) PROVE r \in Waiting(q) \/ (c.do = "usage" /\ r = c.rev)
  <2>1. PICK k \in Usages(t) : t[k].rev = r
    BY WaitingIs
  <2>2. CASE k = n /\ c.do = "usage"
    BY <1>1, <2>1, <2>2 DEF n
  <2>3. CASE k \in Usages(q) /\ t[k] = q[k]
    BY <2>1, <2>3, WaitingIs
  <2> QED
    BY <1>6, <2>2, <2>3
<1>10. ASSUME InOrder(q), c.do = "usage" => \A r \in Waiting(q) : r < c.rev
       PROVE  InOrder(t)
  <2> SUFFICES ASSUME NEW j \in Usages(t), NEW k \in Usages(t), j < k
               PROVE  t[j].rev < t[k].rev
    BY DEF InOrder
  <2>1. CASE k = n
    <3>1. j \in Usages(q) /\ t[j] = q[j] /\ c.do = "usage"
      BY <1>4, <1>5, <1>6, <2>1
    <3> QED
      BY <1>1, <1>10, <2>1, <3>1, UsagesAre
  <2>2. CASE k # n
    <3>1. k \in Usages(q) /\ t[k] = q[k] /\ k \in DOMAIN q
      BY <1>6, <2>2, UsagesAre
    <3>2. j \in Usages(q) /\ t[j] = q[j]
      BY <1>4, <1>6, <3>1
    <3> QED
      BY <1>10, <3>1, <3>2 DEF InOrder
  <2> QED
    BY <2>1, <2>2
<1> QED
  BY <1>8, <1>9, <1>10 DEF t

\* All that was kept back follows.
LEMMA WaitingFlushed ==
  ASSUME NEW q \in Seq(Commands), NEW S \in Seq(Nat), NEW n \in Nat,
         \A k \in DOMAIN S : S[k] = n + k
  PROVE  /\ Waiting(q \o Notices(S)) = Waiting(q) \cup ((n + 1)..(n + Len(S)))
         /\ InOrder(q) /\ (\A r \in Waiting(q) : r <= n) => InOrder(q \o Notices(S))
<1> DEFINE m == Notices(S)
           t == q \o m
<1>1. Len(S) \in Nat /\ DOMAIN S = 1..Len(S)
  OBVIOUS
<1>2. m \in Seq(Commands) /\ Len(m) = Len(S)
      /\ \A k \in 1..Len(S) : m[k].do = "usage" /\ m[k].rev = n + k
  <2>1. /\ m = [k \in 1..Len(S) |-> [do |-> "usage", rev |-> S[k]]]
        /\ \A k \in 1..Len(S) : S[k] \in Nat /\ S[k] = n + k
    BY <1>1 DEF Notices
  <2>2. \A k \in 1..Len(S) : [do |-> "usage", rev |-> S[k]] \in Commands
    BY <2>1 DEF Commands
  <2> QED
    BY <1>1, <2>1, <2>2
<1> HIDE DEF m
<1>3. /\ DOMAIN q = 1..Len(q) /\ Len(q) \in Nat /\ DOMAIN t = 1..(Len(q) + Len(S))
      /\ \A k \in DOMAIN q : t[k] = q[k]
      /\ \A k \in DOMAIN t : k \notin DOMAIN q => k - Len(q) \in 1..Len(S) /\ t[k] = m[k - Len(q)]
  <2>1. /\ DOMAIN q = 1..Len(q) /\ DOMAIN m = 1..Len(m) /\ Len(q) \in Nat
        /\ DOMAIN t = 1..(Len(q) + Len(m)) /\ \A k \in DOMAIN q : t[k] = q[k]
        /\ \A k \in DOMAIN t : k \notin DOMAIN q =>
             k - Len(q) \in DOMAIN m /\ t[k] = m[k - Len(q)]
    <3>1. m \in Seq(Commands)
      BY <1>2
    <3> QED
      BY <3>1, Grow
  <2> QED
    BY <1>2, <2>1
<1> HIDE DEF t
<1>4. \A k \in Usages(q) : k \in Usages(t) /\ t[k] = q[k] /\ k \in 1..Len(q)
  BY <1>1, <1>3, UsagesAre
<1>5. \A k \in Usages(t) : k \in Nat /\
         \/ k \in Usages(q) /\ t[k] = q[k]
         \/ k - Len(q) \in 1..Len(S) /\ t[k].rev = n + (k - Len(q)) /\ k \notin DOMAIN q
  <2> TAKE k \in Usages(t)
  <2>1. k \in DOMAIN t /\ t[k].do = "usage" /\ k \in Nat
    BY <1>1, <1>3, UsagesAre
  <2>2. CASE k \in DOMAIN q
    BY <1>3, <2>1, <2>2, UsagesAre
  <2>3. CASE k \notin DOMAIN q
    BY <1>2, <1>3, <2>1, <2>3
  <2> QED
    BY <2>1, <2>2, <2>3
<1>6. \A i \in 1..Len(S) : Len(q) + i \in Usages(t) /\ t[Len(q) + i].rev = n + i
  <2> TAKE i \in 1..Len(S)
  <2>1. Len(q) + i \in DOMAIN t /\ Len(q) + i \notin DOMAIN q /\ (Len(q) + i) - Len(q) = i
    BY <1>1, <1>3
  <2>2. t[Len(q) + i] = m[i]
    BY <1>3, <2>1
  <2> QED
    BY <1>2, <2>1, <2>2, UsagesAre
<1>7. ASSUME NEW r \in Waiting(t) PROVE r \in Waiting(q) \cup ((n + 1)..(n + Len(S)))
  <2>1. PICK k \in Usages(t) : t[k].rev = r
    BY WaitingIs
  <2>2. CASE k \in Usages(q) /\ t[k] = q[k]
    BY <2>1, <2>2, UsagesAre
  <2>3. CASE k - Len(q) \in 1..Len(S) /\ t[k].rev = n + (k - Len(q))
    BY <1>1, <2>1, <2>3
  <2> QED
    BY <1>5, <2>2, <2>3
<1>8. ASSUME NEW r \in Waiting(q) PROVE r \in Waiting(t)
  BY <1>4, WaitingIs
<1>9. ASSUME NEW r \in (n + 1)..(n + Len(S)) PROVE r \in Waiting(t)
  <2>1. r - n \in 1..Len(S) /\ n + (r - n) = r
    BY <1>1
  <2> QED
    BY <1>6, <2>1, WaitingIs
<1>10. ASSUME InOrder(q), \A r \in Waiting(q) : r <= n PROVE InOrder(t)
  <2> SUFFICES ASSUME NEW j \in Usages(t), NEW k \in Usages(t), j < k
               PROVE  t[j].rev < t[k].rev
    BY DEF InOrder
  <2>1. CASE j \in Usages(q) /\ t[j] = q[j] /\ k \in Usages(q) /\ t[k] = q[k]
    BY <1>10, <2>1 DEF InOrder
  <2>2. CASE /\ j \in Usages(q) /\ t[j] = q[j]
             /\ k - Len(q) \in 1..Len(S) /\ t[k].rev = n + (k - Len(q))
    <3>1. t[j].rev \in Waiting(q) /\ q[j] \in Commands
      BY <1>3, <2>2, UsagesAre, Places
    <3>2. t[j].rev <= n /\ t[j].rev \in Nat
      BY <1>10, <2>2, <3>1 DEF Commands
    <3> QED
      BY <1>1, <2>2, <3>2
  <2>3. CASE j \notin DOMAIN q /\ k \in Usages(q)
    BY <1>3, <1>4, <1>5, <2>3
  <2>4. CASE /\ j - Len(q) \in 1..Len(S) /\ t[j].rev = n + (j - Len(q))
             /\ k - Len(q) \in 1..Len(S) /\ t[k].rev = n + (k - Len(q))
    BY <1>3, <1>5, <2>4
  <2> QED
    BY <1>5, <2>1, <2>2, <2>3, <2>4
<1> QED
  BY <1>7, <1>8, <1>9, <1>10 DEF t, m

\* Nothing happens to the usage commands.
SameUsage == \A i \in Ids : /\ Waiting(inbox'[i]) = Waiting(inbox[i])
                            /\ InOrder(inbox[i]) => InOrder(inbox'[i])

LEMMA UsageQuiet ==
  ASSUME UInv, UNCHANGED <<up, accepted, handled, deferredUsage, primary>>, SameUsage,
         removing' = NoId => removing = NoId,
         phase' = "delete_commit" => \/ phase = "delete_commit" /\ removing' = removing
                                     \/ removing' \in Ids /\ inbox[removing'] = <<>>
  PROVE  UsageOwned' /\ UsageKept'
<1>1. IInv /\ UsageOwned /\ UsageKept
  BY DEF UInv
<1>2. UsageKept'
  <2>1. up => primary \in Ids
    BY <1>1 DEF IInv, Lives, TypeOK
  <2> QED
    BY <1>1, <2>1 DEF UsageKept, SameUsage
<1>3. \A i \in Ids \ {primary} : Waiting(inbox'[i]) = {}
  BY <1>1 DEF UsageOwned, SameUsage
<1>4. ASSUME phase' = "delete_commit" PROVE Waiting(inbox'[removing']) = {}
  <2>1. CASE phase = "delete_commit" /\ removing' = removing
    <3>1. removing \in Ids
      BY <1>1, <2>1 DEF IInv, Lives, TypeOK
    <3> QED
      BY <1>1, <2>1, <3>1 DEF UsageOwned, SameUsage
  <2>2. CASE removing' \in Ids /\ inbox[removing'] = <<>>
    <3>1. Waiting(inbox[removing']) = {}
      BY <2>2 DEF Waiting, Usages
    <3> QED
      BY <2>2, <3>1 DEF SameUsage
  <2> QED
    BY <1>4, <2>1, <2>2
<1> QED
  BY <1>1, <1>2, <1>3, <1>4 DEF UsageOwned

LEMMA UsageUntouched ==
  ASSUME UInv, UNCHANGED <<up, accepted, handled, deferredUsage, primary, inbox, removing>>,
         phase' = phase \/ phase' = "open"
  PROVE  UsageOwned' /\ UsageKept'
<1>1. SameUsage
  BY DEF SameUsage
<1> QED
  BY <1>1, UsageQuiet

\* A command that is not a usage command, to some.
SentSome == \A i \in Ids : \/ inbox'[i] = inbox[i]
                           \/ \E c \in Commands : c.do # "usage" /\ inbox'[i] = Append(inbox[i], c)

LEMMA SentSomeSame ==
  ASSUME IInv, SentSome
  PROVE  SameUsage
<1> SUFFICES ASSUME NEW i \in Ids
             PROVE  /\ Waiting(inbox'[i]) = Waiting(inbox[i])
                    /\ InOrder(inbox[i]) => InOrder(inbox'[i])
  BY DEF SameUsage
<1>1. inbox[i] \in Seq(Commands)
  BY DEF IInv, TypeOK
<1>2. ASSUME NEW c \in Commands, c.do # "usage", inbox'[i] = Append(inbox[i], c)
      PROVE  /\ Waiting(inbox'[i]) = Waiting(inbox[i])
             /\ InOrder(inbox[i]) => InOrder(inbox'[i])
  BY <1>1, <1>2, WaitingMore
<1> QED
  BY <1>2 DEF SentSome

\* A command that is not a usage command is taken, and nothing else changes here.
LEMMA UsageTaken ==
  ASSUME UInv, NEW i \in Ids, Takes1(i), Head(inbox[i]).do # "usage",
         UNCHANGED <<up, accepted, handled, deferredUsage, primary, removing, phase>>
  PROVE  UsageOwned' /\ UsageKept'
<1>1. inbox \in [Ids -> Seq(Commands)]
  BY DEF UInv, IInv, TypeOK
<1>2. inbox'[i] = Tail(inbox[i]) /\ \A j \in Ids : j # i => inbox'[j] = inbox[j]
  BY <1>1 DEF Takes1
<1>3. Waiting(inbox'[i]) = Waiting(inbox[i]) /\ (InOrder(inbox[i]) => InOrder(inbox'[i]))
  <2>1. inbox[i] \in Seq(Commands) /\ inbox[i] # <<>>
    BY <1>1 DEF Takes1
  <2> QED
    BY <1>2, <2>1, WaitingTaken
<1>4. SameUsage
  BY <1>2, <1>3 DEF SameUsage
<1> QED
  BY <1>4, UsageQuiet

\* The primary carries out its first usage command, the oldest of those that wait.
LEMMA UsageCarriedOut ==
  ASSUME UInv, NEW i \in Ids, ObeyUsage(i), Head(inbox[i]).do = "usage"
  PROVE  UsageOwned' /\ UsageKept'
<1> DEFINE r == Head(inbox[i]).rev
           h == Len(handled)
           n == Len(accepted) - Len(deferredUsage)
<1>1. /\ inbox \in [Ids -> Seq(Commands)] /\ handled \in Seq(Nat) /\ h \in Nat /\ n \in Int
      /\ inbox[i] \in Seq(Commands) /\ (proc[i].run # "off" => i \in connections)
      /\ ~up => connections = {}
  <2>1. TypeOK /\ Lives
    BY DEF UInv, IInv
  <2>2. /\ inbox \in [Ids -> Seq(Commands)] /\ handled \in Seq(Nat) /\ accepted \in Seq(Nat)
        /\ deferredUsage \in Seq(Nat)
    BY <2>1 DEF TypeOK
  <2>3. (proc[i].run # "off" => i \in connections) /\ (~up => connections = {})
    BY <2>1 DEF Lives
  <2>4. h \in Nat /\ n \in Int
    BY <2>2
  <2> QED
    BY <2>2, <2>3, <2>4
<1>2. /\ inbox[i] # <<>> /\ inbox' = [inbox EXCEPT ![i] = Tail(@)] /\ i \in connections /\ up
      /\ handled' = Append(handled, r)
      /\ UNCHANGED <<up, accepted, deferredUsage, primary, removing, phase>>
  BY <1>1 DEF ObeyUsage, Obeys, Elsewhere, service
<1>3. inbox'[i] = Tail(inbox[i]) /\ \A j \in Ids : j # i => inbox'[j] = inbox[j]
  BY <1>1, <1>2
<1>4. r \in Waiting(inbox[i]) /\ Waiting(inbox[i]) = {r} \cup Waiting(Tail(inbox[i]))
  <2>1. inbox[i] \in Seq(Commands) /\ inbox[i] # <<>>
    BY <1>1, <1>2
  <2> QED
    BY <2>1, WaitingTaken
<1>6. i = primary
  BY <1>4 DEF UInv, UsageOwned
<1>7. /\ h <= n /\ \A k \in DOMAIN handled : handled[k] = k
      /\ Waiting(inbox[i]) = (h + 1)..n /\ InOrder(inbox[i])
      /\ \A k \in DOMAIN deferredUsage : deferredUsage[k] = n + k
  BY <1>2, <1>6 DEF UInv, UsageKept
<1>8. InOrder(Tail(inbox[i])) /\ \A x \in Waiting(Tail(inbox[i])) : r < x
  BY <1>1, <1>2, <1>7, WaitingTaken
<1>9. r = h + 1 /\ h + 1 <= n /\ Waiting(Tail(inbox[i])) = (h + 2)..n
  <2> DEFINE W == Waiting(Tail(inbox[i]))
  <2>1. (h + 1)..n = {r} \cup W
    BY <1>4, <1>7
  <2>0. \A x \in W : r < x
    BY <1>8
  <2> HIDE DEF W, r
  <2>2. r \in (h + 1)..n
    BY <2>1, Zenon
  <2>3. h + 1 \in {r} \cup W
    <3>1. h + 1 \in (h + 1)..n
      BY <1>1, <2>2
    <3> QED
      BY <2>1, <3>1, Zenon
  <2>4. r = h + 1
    BY <1>1, <2>0, <2>2, <2>3
  <2>5. \A x : x \in W <=> x \in (h + 2)..n
    BY <1>1, <2>0, <2>1, <2>4
  <2>6. W = (h + 2)..n
    BY <2>5
  <2>7. r = h + 1 /\ h + 1 <= n
    BY <1>1, <2>2, <2>4
  <2> QED
    BY <2>6, <2>7 DEF W
<1>10. Len(handled') = h + 1 /\ \A k \in DOMAIN handled' : handled'[k] = k
  <2>1. /\ DOMAIN handled' = 1..(h + 1) /\ DOMAIN handled = 1..h
        /\ Len(handled') = h + 1 /\ handled'[h + 1] = r
        /\ \A k \in DOMAIN handled : handled'[k] = handled[k]
    <3>1. r \in Nat
      BY <1>1, <1>9
    <3> HIDE DEF r
    <3> QED
      BY <1>1, <1>2, <3>1, Extend
  <2>2. \A k \in 1..(h + 1) : k = h + 1 \/ k \in 1..h
    BY <1>1
  <2> QED
    BY <1>7, <1>9, <2>1, <2>2
<1>11. UsageKept'
  <2>1. (Len(handled') + 1)..n = (h + 2)..n
    BY <1>1, <1>10
  <2> QED
    BY <1>2, <1>3, <1>6, <1>7, <1>8, <1>9, <1>10, <2>1 DEF UsageKept
<1>12. UsageOwned'
  <2>1. \A j \in Ids \ {primary} : Waiting(inbox'[j]) = {}
    BY <1>3, <1>6 DEF UInv, UsageOwned
  <2>2. phase = "delete_commit" => removing \in Ids \ {primary}
    BY <1>4, <1>6 DEF UInv, UsageOwned, IInv, Lives, TypeOK
  <2> QED
    BY <1>2, <2>1, <2>2 DEF UInv, UsageOwned
<1> QED
  BY <1>11, <1>12

\* Steps that leave the queues of the connections alone.
LEMMA UsageAside ==
  ASSUME UInv, NEW i \in Ids,
         \/ Confirm \/ Select(i) \/ Account
         \/ Ready \/ State \/ AbortedShutdown \/ Acknowledged \/ EndedShutdown
         \/ StartUp(i) \/ TurnBegin(i) \/ TurnEnd(i) \/ Leave(i) \/ Fail(i)
  PROVE  UsageOwned' /\ UsageKept'
<1>1. CASE Confirm \/ Select(i) \/ Account
  BY <1>1, UsageUntouched DEF Confirm, Select, Account, service
<1>2. CASE Ready \/ State \/ Acknowledged \/ EndedShutdown
  BY <1>2, UsageUntouched DEF Ready, State, Acknowledged, EndedShutdown, Beside
<1>3. CASE AbortedShutdown
  <2>1. phase' = phase \/ phase' = "open"
    BY <1>3 DEF AbortedShutdown
  <2> QED
    BY <1>3, <2>1, UsageUntouched DEF AbortedShutdown, Beside
<1>4. CASE StartUp(i) \/ TurnBegin(i) \/ TurnEnd(i) \/ Leave(i)
  BY <1>4, UsageUntouched DEF StartUp, TurnBegin, TurnEnd, Leave, Elsewhere, service
<1>5. CASE Fail(i)
  BY <1>5, UsageUntouched DEF Fail, service
<1> QED
  BY <1>1, <1>2, <1>3, <1>4, <1>5

\* One connection is told something else.
LEMMA SentOne ==
  ASSUME IInv, NEW i \in Ids, NEW c \in Commands, c.do # "usage", Send(i, c)
  PROVE  SentSome
<1>1. inbox \in [Ids -> Seq(Commands)]
  BY DEF IInv, TypeOK
<1> QED
  BY <1>1 DEF Send, SentSome

\* All connections are.
LEMMA SentAll ==
  ASSUME IInv, NEW c, \A i \in Ids : c[i] \in Commands /\ c[i].do # "usage", SendAll(c)
  PROVE  SentSome
BY DEF SendAll, SentSome

LEMMA UsageAsked ==
  ASSUME UInv, Delete \/ Forward \/ Status \/ \E r \in connections \cup {NoId} : Shutdown(r)
  PROVE  UsageOwned' /\ UsageKept'
<1>1. IInv /\ connections \subseteq Ids /\ phase # "delete_commit" /\ asked.rev \in Nat
  BY DEF UInv, IInv, TypeOK, Question, Delete, Forward, Status, Shutdown
<1>2. CASE Delete
  <2> DEFINE c == [do |-> "prepare_delete", rev |-> asked.rev]
  <2>1. c \in Commands /\ c.do # "usage"
    BY <1>1 DEF Commands, Protocol
  <2>2. Send(asked.id, c) /\ asked.id \in Ids
    BY <1>1, <1>2 DEF Delete, Deletable
  <2>3. SameUsage
    <3> HIDE DEF c
    <3> QED
      BY <1>1, <2>1, <2>2, SentOne, SentSomeSame
  <2>4. removing' # NoId /\ phase' # "delete_commit"
    BY <1>2, <2>2, IdsAre DEF Delete
  <2> QED
    BY <1>2, <2>3, <2>4, UsageQuiet DEF Delete
<1>3. CASE Forward
  <2> DEFINE c == [do |-> "decide", rev |-> 0]
  <2>1. c \in Commands /\ c.do # "usage"
    BY DEF Commands
  <2>2. Send(selected, c) /\ selected \in Ids
    BY <1>1, <1>3 DEF Forward
  <2>3. SameUsage
    <3> HIDE DEF c
    <3> QED
      BY <1>1, <2>1, <2>2, SentOne, SentSomeSame
  <2> QED
    BY <1>1, <1>3, <2>3, UsageQuiet DEF Forward, service
<1>4. CASE Status
  <2> DEFINE c == [i \in Ids |-> [do |-> "status", rev |-> 0]]
  <2>1. \A i \in Ids : c[i] \in Commands /\ c[i].do # "usage"
    BY DEF Commands
  <2>2. SendAll(c)
    BY <1>4 DEF Status
  <2>3. SameUsage
    <3> HIDE DEF c
    <3> QED
      BY <1>1, <2>1, <2>2, SentAll, SentSomeSame
  <2> QED
    BY <1>1, <1>4, <2>3, UsageQuiet DEF Status, service
<1>5. ASSUME NEW r \in connections \cup {NoId}, Shutdown(r)
      PROVE  UsageOwned' /\ UsageKept'
  <2> DEFINE c == [i \in Ids |-> [do |-> "prepare", rev |-> 0]]
  <2>1. \A i \in Ids : c[i] \in Commands /\ c[i].do # "usage"
    BY DEF Commands, Protocol
  <2>2. SendAll(c)
    BY <1>5 DEF Shutdown
  <2>3. SameUsage
    <3> HIDE DEF c
    <3> QED
      BY <1>1, <2>1, <2>2, SentAll, SentSomeSame
  <2>4. phase' # "delete_commit"
    BY <1>5 DEF Shutdown
  <2> QED
    BY <1>5, <2>3, <2>4, UsageQuiet DEF Shutdown
<1> QED
  BY <1>2, <1>3, <1>4, <1>5

\* A connection that has answered has carried out all it was told before: the
\* deletion goes on with an empty queue.
LEMMA UsagePreparedDelete ==
  ASSUME UInv, PreparedDelete
  PROVE  UsageOwned' /\ UsageKept'
<1> DEFINE ok == Head(events).ok
           c  == [do |-> IF ok THEN "delete" ELSE "abort", rev |-> 0]
<1>1. IInv /\ removing \in Ids /\ inbox[removing] = <<>>
  <2>1. events \in Seq(Events) /\ events # <<>> /\ connections \subseteq Ids
    BY DEF UInv, IInv, TypeOK, PreparedDelete, Takes
  <2>2. 1 \in DOMAIN events /\ Head(events) = events[1]
    BY <2>1, Shrink
  <2>3. events[1].kind \in Phased /\ events[1].id = removing
    BY <2>2 DEF PreparedDelete, Takes, Phased
  <2>4. inbox[events[1].id] = <<>> /\ events[1].id \in connections
    BY <2>2, <2>3 DEF UInv, IInv, AskedOnce, Lives
  <2> QED
    BY <2>1, <2>3, <2>4 DEF UInv
<1>2. c \in Commands /\ c.do # "usage" /\ Send(removing, c)
  BY DEF Commands, Protocol, PreparedDelete
<1>3. SameUsage
  <2> HIDE DEF c
  <2> QED
    BY <1>1, <1>2, SentOne, SentSomeSame
<1> QED
  BY <1>1, <1>3, UsageQuiet DEF PreparedDelete, Beside

LEMMA UsagePreparedShutdown ==
  ASSUME UInv, PreparedShutdown
  PROVE  UsageOwned' /\ UsageKept'
<1>1. IInv /\ phase' # "delete_commit"
  BY DEF UInv, PreparedShutdown
<1>2. SameUsage
  <2>1. CASE inbox' = inbox
    BY <2>1 DEF SameUsage
  <2>2. ASSUME NEW go \in BOOLEAN,
               SendAll([j \in Ids |-> [do |-> IF ~go THEN "abort"
                                           ELSE IF j = retire THEN "retire" ELSE "stop",
                                       rev |-> 0]])
        PROVE  SameUsage
    <3> DEFINE c == [j \in Ids |-> [do |-> IF ~go THEN "abort"
                                           ELSE IF j = retire THEN "retire" ELSE "stop",
                                    rev |-> 0]]
    <3>1. \A i \in Ids : c[i] \in Commands /\ c[i].do # "usage"
      BY DEF Commands, Protocol
    <3>2. SendAll(c)
      BY <2>2
    <3> HIDE DEF c
    <3> QED
      BY <1>1, <3>1, <3>2, SentAll, SentSomeSame
  <2> QED
    BY <2>1, <2>2 DEF PreparedShutdown
<1> QED
  BY <1>1, <1>2, UsageQuiet DEF PreparedShutdown, Beside

\* A number that is given anew had no command of the primary left.
LEMMA UsageCreate ==
  ASSUME UInv, Create
  PROVE  UsageOwned' /\ UsageKept'
<1>1. IInv /\ phase # "delete_commit" /\ inbox \in [Ids -> Seq(Commands)]
  BY DEF UInv, IInv, TypeOK, Create
<1>2. PICK i \in Ids \ connections : inbox' = [inbox EXCEPT ![i] = <<>>]
  <2>1. First(Ids \ connections) \in Ids \ connections
    <3>1. Ids \ connections \in SUBSET Ids /\ Ids \ connections # {}
      BY DEF Create
    <3> QED
      BY <3>1, FirstIn
  <2> QED
    BY <2>1 DEF Create
<1>3. i # primary
  <2>1. primary \in connections
    BY <1>1 DEF IInv, Lives, Create, Taken
  <2> QED
    BY <1>2, <2>1
<1>4. Waiting(inbox[i]) = {} /\ Waiting(<<>>) = {} /\ InOrder(<<>>)
  <2>1. Waiting(inbox[i]) = {}
    BY <1>2, <1>3 DEF UInv, UsageOwned
  <2>2. Waiting(<<>>) = {} /\ InOrder(<<>>)
    BY DEF Waiting, Usages, InOrder
  <2> QED
    BY <2>1, <2>2
<1>5. SameUsage
  BY <1>1, <1>2, <1>4 DEF SameUsage
<1> QED
  BY <1>1, <1>5, UsageQuiet DEF Create

\* Any other command is taken by a connection.
LEMMA UsageObeyed ==
  ASSUME UInv, NEW i \in Ids, NEW ok \in BOOLEAN,
         \/ ObeyPrepare(i) \/ ObeyAbort(i) \/ ObeyShutdown(i) \/ ObeyDecision(i, ok) \/ ObeyStatus(i)
         \/ ObeyUsage(i)
  PROVE  UsageOwned' /\ UsageKept'
<1>1. CASE ObeyPrepare(i) \/ ObeyAbort(i) \/ ObeyShutdown(i) \/ ObeyDecision(i, ok) \/ ObeyStatus(i)
  <2>1. Takes1(i) /\ Head(inbox[i]).do # "usage"
    BY <1>1 DEF ObeyPrepare, ObeyAbort, ObeyShutdown, ObeyDecision, ObeyStatus, Obeys, Takes1
  <2>2. UNCHANGED <<up, accepted, handled, deferredUsage, primary, removing, phase>>
    BY <1>1 DEF ObeyPrepare, ObeyAbort, ObeyShutdown, ObeyDecision, ObeyStatus, Elsewhere, service
  <2> QED
    BY <2>1, <2>2, UsageTaken
<1>2. CASE ObeyUsage(i) /\ Head(inbox[i]).do = "usage"
  BY <1>2, UsageCarriedOut
<1>3. CASE ObeyUsage(i) /\ Head(inbox[i]).do # "usage"
  <2>1. Takes1(i)
    BY <1>3 DEF ObeyUsage, Obeys, Takes1
  <2>2. UNCHANGED <<up, accepted, handled, deferredUsage, primary, removing, phase>>
    BY <1>3 DEF ObeyUsage, Elsewhere, service
  <2> QED
    BY <1>3, <2>1, <2>2, UsageTaken
<1> QED
  BY <1>1, <1>2, <1>3

\* A usage command is given to the primary, or kept back during a deletion.
LEMMA UsageAccepted ==
  ASSUME UInv, Usage
  PROVE  UsageOwned' /\ UsageKept'
<1> DEFINE a == Len(accepted)
           h == Len(handled)
           D == deferredUsage
           q == inbox[primary]
<1>1. /\ IInv /\ up /\ primary \in Ids /\ inbox \in [Ids -> Seq(Commands)] /\ q \in Seq(Commands)
      /\ accepted \in Seq(Nat) /\ a \in Nat /\ handled \in Seq(Nat) /\ h \in Nat
      /\ D \in Seq(Nat) /\ Len(D) \in Nat
  BY DEF UInv, IInv, TypeOK, Lives, Usage
<1>2. /\ h <= a - Len(D) /\ \A k \in DOMAIN handled : handled[k] = k
      /\ Waiting(q) = (h + 1)..(a - Len(D)) /\ InOrder(q)
      /\ \A k \in DOMAIN D : D[k] = (a - Len(D)) + k
  BY <1>1 DEF UInv, UsageKept
<1>3. /\ Len(accepted') = a + 1
      /\ UNCHANGED <<up, primary, removing, phase, handled>>
  <2>1. accepted' = Append(accepted, a + 1)
    BY DEF Usage
  <2> QED
    BY <1>1, <2>1 DEF Usage
<1>4. CASE removing = NoId
  <2> DEFINE c == [do |-> "usage", rev |-> a + 1]
  <2>1. c \in Commands /\ c.do = "usage" /\ c.rev = a + 1
    BY <1>1 DEF Commands
  <2>2. /\ inbox'[primary] = Append(q, c) /\ \A j \in Ids \ {primary} : inbox'[j] = inbox[j]
        /\ deferredUsage' = D /\ Len(D) = 0
    <3>1. D = <<>>
      BY <1>4 DEF UInv, UsageOwned
    <3>2. Send(primary, c) /\ UNCHANGED deferredUsage
      BY <1>4 DEF Usage
    <3> QED
      BY <1>1, <3>1, <3>2 DEF Send
  <2> HIDE DEF c
  <2>3. \A r \in Waiting(q) : r < c.rev
    BY <1>1, <1>2, <2>1, <2>2
  <2>4. Waiting(Append(q, c)) = Waiting(q) \cup {c.rev} /\ InOrder(Append(q, c))
    BY <1>1, <1>2, <2>1, <2>3, WaitingMore
  <2>5. Waiting(q) \cup {c.rev} = (h + 1)..(a + 1)
    BY <1>1, <1>2, <2>1, <2>2
  <2>6. Len(accepted') - Len(deferredUsage') = a + 1
    BY <1>1, <1>3, <2>2
  <2>7. UsageKept'
    <3> HIDE DEF a, D
    <3>1. h <= a + 1
      BY <1>1, <1>2, <2>2
    <3>2. DOMAIN deferredUsage' = {}
      BY <1>1, <2>2 DEF D
    <3>3. inbox'[primary'] = Append(q, c) /\ handled' = handled
      BY <1>3, <2>2
    <3> QED
      BY <1>2, <2>4, <2>5, <2>6, <3>1, <3>2, <3>3 DEF UsageKept
  <2>8. UsageOwned'
    <3>1. phase # "delete_commit" /\ \A j \in Ids \ {primary} : Waiting(inbox[j]) = {}
      BY <1>1, <1>4 DEF UInv, UsageOwned, IInv, Lives
    <3>2. deferredUsage' = <<>>
      BY <1>1, <2>2
    <3> QED
      BY <1>3, <2>2, <3>1, <3>2 DEF UsageOwned
  <2> QED
    BY <2>7, <2>8
<1>5. CASE removing # NoId
  <2>1. deferredUsage' = Append(D, a + 1) /\ inbox' = inbox
    BY <1>5 DEF Usage
  <2>2. /\ Len(deferredUsage') = Len(D) + 1 /\ DOMAIN deferredUsage' = 1..(Len(D) + 1)
        /\ DOMAIN D = 1..Len(D) /\ deferredUsage'[Len(D) + 1] = a + 1
        /\ \A k \in DOMAIN D : deferredUsage'[k] = D[k]
    <3>1. a + 1 \in Nat
      BY <1>1
    <3> HIDE DEF a, D
    <3> QED
      BY <1>1, <2>1, <3>1, Extend
  <2>3. Len(accepted') - Len(deferredUsage') = a - Len(D)
    BY <1>1, <1>3, <2>2
  <2>4. \A k \in DOMAIN deferredUsage' : deferredUsage'[k] = (a - Len(D)) + k
    <3> TAKE k \in DOMAIN deferredUsage'
    <3>1. k \in DOMAIN D \/ k = Len(D) + 1
      BY <1>1, <2>2
    <3> QED
      BY <1>1, <1>2, <2>2, <3>1
  <2>5. UsageKept'
    <3> HIDE DEF a, D, h
    <3> QED
      BY <1>2, <1>3, <2>1, <2>3, <2>4 DEF UsageKept, h
  <2>6. UsageOwned'
    BY <1>3, <1>5, <2>1 DEF UInv, UsageOwned
  <2> QED
    BY <2>5, <2>6
<1> QED
  BY <1>4, <1>5

\* A deletion is over: what was kept back follows in the queue of the primary.
LEMMA UsageHanded ==
  ASSUME UInv, up, NEW i \in Ids, NEW q \in Seq(Commands), InOrder(q),
         Waiting(q) = (Len(handled) + 1)..(Len(accepted) - Len(deferredUsage)),
         \A j \in Ids \ {i} : Waiting(inbox[j]) = {},
         inbox' = [inbox EXCEPT ![i] = flushUsage(q)], primary' = i,
         deferredUsage' = <<>>, phase' = "open", UNCHANGED <<accepted, handled>>
  PROVE  UsageOwned' /\ UsageKept'
<1> DEFINE a == Len(accepted)
           h == Len(handled)
           D == deferredUsage
           n == a - Len(D)
<1>1. /\ inbox \in [Ids -> Seq(Commands)] /\ a \in Nat /\ h \in Nat
      /\ D \in Seq(Nat) /\ Len(D) \in Nat
  BY DEF UInv, IInv, TypeOK
<1>2. h <= n /\ (\A k \in DOMAIN handled : handled[k] = k) /\ \A k \in DOMAIN D : D[k] = n + k
  BY DEF UInv, UsageKept
<1>3. n \in Nat /\ n + Len(D) = a
  BY <1>1, <1>2
<1>4. /\ Waiting(flushUsage(q)) = Waiting(q) \cup ((n + 1)..(n + Len(D)))
      /\ InOrder(flushUsage(q))
  <2>1. \A r \in Waiting(q) : r <= n
    BY <1>1
  <2>2. flushUsage(q) = q \o Notices(D)
    BY DEF flushUsage
  <2>3. D \in Seq(Nat) /\ n \in Nat /\ \A k \in DOMAIN D : D[k] = n + k
    BY <1>1, <1>2, <1>3
  <2> HIDE DEF n, D
  <2>4. /\ Waiting(q \o Notices(D)) = Waiting(q) \cup ((n + 1)..(n + Len(D)))
        /\ InOrder(q) /\ (\A r \in Waiting(q) : r <= n) => InOrder(q \o Notices(D))
    BY <2>3, WaitingFlushed
  <2> QED
    BY <2>1, <2>2, <2>4
<1>5. Waiting(flushUsage(q)) = (h + 1)..a
  <2>1. ((h + 1)..n) \cup ((n + 1)..a) = (h + 1)..a
    BY <1>1, <1>2, <1>3
  <2> QED
    BY <1>3, <1>4, <2>1
<1>6. inbox'[i] = flushUsage(q) /\ \A j \in Ids \ {i} : inbox'[j] = inbox[j]
  BY <1>1
<1>7. UsageOwned'
  BY <1>6 DEF UsageOwned
<1>8. UsageKept'
  <2>1. Len(accepted') - Len(deferredUsage') = a /\ Len(handled') = h
    BY <1>1
  <2>2. DOMAIN deferredUsage' = {} /\ h <= a
    BY <1>1, <1>2
  <2> HIDE DEF a, h
  <2> QED
    BY <1>2, <1>4, <1>5, <1>6, <2>1, <2>2 DEF UsageKept
<1> QED
  BY <1>7, <1>8

LEMMA UsageAbortedDelete ==
  ASSUME UInv, AbortedDelete
  PROVE  UsageOwned' /\ UsageKept'
<1> DEFINE q == inbox[primary]
<1>1. up /\ primary \in Ids /\ q \in Seq(Commands)
  BY DEF UInv, IInv, TypeOK, Lives, AbortedDelete, Takes
<1>2. /\ InOrder(q) /\ Waiting(q) = (Len(handled) + 1)..(Len(accepted) - Len(deferredUsage))
      /\ \A j \in Ids \ {primary} : Waiting(inbox[j]) = {}
  BY <1>1 DEF UInv, UsageKept, UsageOwned
<1>3. /\ inbox' = [inbox EXCEPT ![primary] = flushUsage(q)] /\ primary' = primary
      /\ deferredUsage' = <<>> /\ phase' = "open" /\ UNCHANGED <<accepted, handled>>
  BY DEF AbortedDelete, Beside
<1> QED
  BY <1>1, <1>2, <1>3, UsageHanded

LEMMA NoneWaiting ==
  ASSUME NEW q, Waiting(q) = {}
  PROVE  InOrder(q)
<1>1. Usages(q) = {}
  BY DEF Waiting
<1> QED
  BY <1>1 DEF InOrder

\* The deleted connection had carried out its usage commands, so that its successor
\* goes on with the next.
LEMMA UsageEndedDelete ==
  ASSUME UInv, EndedDelete
  PROVE  UsageOwned' /\ UsageKept'
<1> DEFINE rest == connections \ {removing}
           next == IF primary # removing THEN primary ELSE IF rest = {} THEN 1 ELSE First(rest)
           c    == [do |-> "usage_primary", rev |-> 0]
           promoted == Append(inbox[next], c)
<1>1. /\ up /\ primary \in connections /\ connections \subseteq Ids /\ removing \in Ids
      /\ inbox \in [Ids -> Seq(Commands)] /\ 1 \in Ids
      /\ Len(handled) \in Nat /\ Len(accepted) \in Nat /\ Len(deferredUsage) \in Nat
      /\ phase = "delete_commit"
  <2>1. IInv /\ up /\ phase = "delete_commit"
    BY DEF UInv, EndedDelete, EndsDelete, Takes
  <2>2. primary \in connections /\ connections \subseteq Ids /\ removing \in Ids
    BY <2>1 DEF IInv, TypeOK, Lives
  <2>3. /\ inbox \in [Ids -> Seq(Commands)] /\ Len(handled) \in Nat /\ Len(accepted) \in Nat
        /\ Len(deferredUsage) \in Nat
    BY <2>1 DEF IInv, TypeOK
  <2> QED
    BY <2>1, <2>2, <2>3, IdsAre
<1>2. /\ Len(handled) <= Len(accepted) - Len(deferredUsage) /\ InOrder(inbox[primary])
      /\ Waiting(inbox[primary]) = (Len(handled) + 1)..(Len(accepted) - Len(deferredUsage))
      /\ \A j \in Ids \ {primary} : Waiting(inbox[j]) = {}
      /\ Waiting(inbox[removing]) = {}
  BY <1>1 DEF UInv, UsageKept, UsageOwned
<1>3. /\ primary' = next /\ deferredUsage' = <<>> /\ phase' = "open"
      /\ UNCHANGED <<accepted, handled>>
      /\ inbox' = IF rest # {}
                  THEN [inbox EXCEPT ![next] = flushUsage(IF next = primary THEN inbox[next] ELSE promoted)]
                  ELSE [inbox EXCEPT ![1] = flushUsage(<<>>)]
  BY DEF EndedDelete, Beside
<1>4. CASE primary # removing
  <2>1. rest # {} /\ next = primary
    BY <1>1, <1>4
  <2>2. inbox' = [inbox EXCEPT ![primary] = flushUsage(inbox[primary])] /\ primary' = primary
    BY <1>3, <2>1
  <2>3. inbox[primary] \in Seq(Commands) /\ primary \in Ids
    BY <1>1
  <2> HIDE DEF rest, next, promoted
  <2> QED
    BY <1>1, <1>2, <1>3, <2>2, <2>3, UsageHanded
<1>5. CASE primary = removing
  <2>1. \A j \in Ids : Waiting(inbox[j]) = {}
    BY <1>2, <1>5
  <2>2. (Len(handled) + 1)..(Len(accepted) - Len(deferredUsage)) = {}
    BY <1>2, <1>5
  <2>3. CASE rest # {}
    <3>1. First(rest) \in rest
      <4>1. rest \in SUBSET Ids
        BY <1>1
      <4> QED
        BY <2>3, <4>1, FirstIn
    <3>2. next \in Ids /\ next # primary
      BY <1>1, <1>5, <2>3, <3>1
    <3>3. inbox' = [inbox EXCEPT ![next] = flushUsage(promoted)]
      BY <1>3, <2>3, <3>2
    <3>4. inbox[next] \in Seq(Commands) /\ c \in Commands /\ c.do # "usage"
      BY <1>1, <3>2 DEF Commands
    <3> HIDE DEF rest, next, c
    <3>5. promoted \in Seq(Commands) /\ Waiting(promoted) = {}
      <4>1. promoted \in Seq(Commands)
        BY <3>4
      <4>2. Waiting(promoted) = Waiting(inbox[next])
        BY <3>4, WaitingMore
      <4> QED
        BY <2>1, <3>2, <4>1, <4>2
    <3> HIDE DEF promoted
    <3>6. InOrder(promoted)
      BY <3>5, NoneWaiting
    <3> QED
      BY <1>1, <1>3, <2>1, <2>2, <3>2, <3>3, <3>5, <3>6, UsageHanded
  <2>4. CASE rest = {}
    <3>1. inbox' = [inbox EXCEPT ![1] = flushUsage(<<>>)] /\ primary' = 1
      BY <1>3, <1>5, <2>4
    <3>2. <<>> \in Seq(Commands) /\ Waiting(<<>>) = {}
      BY DEF Waiting, Usages
    <3>3. InOrder(<<>>)
      BY <3>2, NoneWaiting
    <3> HIDE DEF rest, next, promoted
    <3> QED
      BY <1>1, <1>3, <2>1, <2>2, <3>1, <3>2, <3>3, UsageHanded
  <2> QED
    BY <2>3, <2>4
<1> QED
  BY <1>4, <1>5

\* A coordinator starts with empty queues.
LEMMA UsageAnew ==
  ASSUME accepted = <<>>, handled = <<>>, deferredUsage = <<>>,
         inbox = [i \in Ids |-> <<>>], up => primary \in Ids, phase # "delete_commit"
  PROVE  UsageOwned /\ UsageKept
<1>1. \A i \in Ids : Waiting(inbox[i]) = {} /\ InOrder(inbox[i])
  BY DEF Waiting, Usages, InOrder
<1>2. UsageOwned
  BY <1>1 DEF UsageOwned
<1>3. UsageKept
  <2>1. Len(accepted) = 0 /\ Len(handled) = 0 /\ Len(deferredUsage) = 0
        /\ DOMAIN handled = {} /\ DOMAIN deferredUsage = {}
    OBVIOUS
  <2>2. (Len(handled) + 1)..(Len(accepted) - Len(deferredUsage)) = {}
    BY <2>1
  <2> QED
    BY <1>1, <2>1, <2>2 DEF UsageKept
<1> QED
  BY <1>2, <1>3

LEMMA UsageStarts ==
  ASSUME Init
  PROVE  UsageOwned /\ UsageKept
<1>1. IInv
  BY InitStarts
<1>2. /\ accepted = <<>> /\ handled = <<>> /\ deferredUsage = <<>>
      /\ inbox = [i \in Ids |-> <<>>] /\ phase = "open"
  BY DEF Init
<1>3. up => primary \in Ids
  BY <1>1 DEF IInv, TypeOK, Lives
<1> QED
  BY <1>2, <1>3, UsageAnew

LEMMA UsageRestarted ==
  ASSUME IInv', NEW S, Fresh(S)
  PROVE  UsageOwned' /\ UsageKept'
<1>1. /\ accepted' = <<>> /\ handled' = <<>> /\ deferredUsage' = <<>>
      /\ inbox' = [i \in Ids |-> <<>>] /\ phase' = "open"
  BY DEF Fresh
<1>2. up' => primary' \in Ids
  BY DEF IInv, TypeOK, Lives
<1>3. \A i \in Ids : Waiting(inbox'[i]) = {} /\ InOrder(inbox'[i])
  BY <1>1 DEF Waiting, Usages, InOrder
<1>4. UsageOwned'
  BY <1>1, <1>3 DEF UsageOwned
<1>5. UsageKept'
  <2>1. Len(accepted') = 0 /\ Len(handled') = 0 /\ Len(deferredUsage') = 0
        /\ DOMAIN handled' = {} /\ DOMAIN deferredUsage' = {}
    BY <1>1
  <2>2. (Len(handled') + 1)..(Len(accepted') - Len(deferredUsage')) = {}
    BY <2>1
  <2> QED
    BY <1>2, <1>3, <2>1, <2>2 DEF UsageKept
<1> QED
  BY <1>4, <1>5

LEMMA UsageInvariant ==
  ASSUME UInv, Next
  PROVE  UInv'
<1>1. IInv /\ IInv'
  BY InvariantStep DEF UInv
<1>2. UsageOwned' /\ UsageKept'
  <2>1. CASE UI
    <3>1. ASSUME NEW r \in Ids \cup {NoId}, Shutdown(r)
          PROVE  \E x \in connections \cup {NoId} : Shutdown(x)
      BY <3>1 DEF Shutdown
    <3>2. 1 \in Ids
      BY IdsAre
    <3> QED
      BY <2>1, <3>1, <3>2, UsageAside, UsageAsked, UsageCreate, UsageAccepted DEF UI
  <2>2. CASE Ready \/ State \/ AbortedShutdown \/ Acknowledged \/ EndedShutdown \/ Account
    BY <2>2, UsageAside, IdsAre
  <2>3. CASE PreparedDelete \/ PreparedShutdown \/ AbortedDelete \/ EndedDelete
    BY <2>3, UsagePreparedDelete, UsagePreparedShutdown, UsageAbortedDelete, UsageEndedDelete
  <2>4. CASE ShutdownOver \/ Broken \/ Crash \/ Restart
    <3>1. PICK S : Fresh(S)
      BY <2>4 DEF ShutdownOver, Broken, Crash, Return, Restart
    <3> QED
      BY <1>1, <3>1, UsageRestarted
  <2>5. ASSUME NEW i \in Ids, Obey(i) PROVE UsageOwned' /\ UsageKept'
    <3>1. TRUE \in BOOLEAN
      OBVIOUS
    <3> QED
      BY <2>5, <3>1, UsageAside, UsageObeyed DEF Obey
  <2>6. ASSUME NEW i \in Ids, TurnBegin(i) \/ TurnEnd(i) \/ Fail(i)
        PROVE  UsageOwned' /\ UsageKept'
    BY <2>6, UsageAside
  <2> QED
    BY <2>1, <2>2, <2>3, <2>4, <2>5, <2>6 DEF Next, Serve
<1> QED
  BY <1>1, <1>2 DEF UInv

\* No usage command or account notice is lost, repeated or reordered, also when the
\* primary that is to carry them out is deleted.
THEOREM UsageNeverLost == Spec => []UsageKept
<1>1. Init => UInv
  BY InitStarts, UsageStarts DEF UInv
<1>2. UInv /\ [Next]_vars => UInv'
  <2>1. ASSUME UInv, UNCHANGED vars PROVE UInv'
    <3>1. UNCHANGED <<up, accepted, handled, deferredUsage, primary, inbox, removing, phase>>
      BY <2>1 DEF vars, service
    <3>2. UsageOwned' /\ UsageKept'
      BY <2>1, <3>1, UsageUntouched
    <3>3. IInv /\ [Next]_vars
      BY <2>1 DEF UInv
    <3>4. IInv'
      BY <3>3, InvariantKept
    <3> QED
      BY <3>2, <3>4 DEF UInv
  <2> QED
    BY <2>1, UsageInvariant
<1>3. UInv => UsageKept
  BY DEF UInv
<1> QED
  BY <1>1, <1>2, <1>3, PTL DEF Spec
=============================================================================

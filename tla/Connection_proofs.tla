-------------------------- MODULE Connection_proofs --------------------------
(***************************************************************************)
(* Proofs about one connection, for any number of handlers, conversations, *)
(* slots, credentials, user boundaries, restarts and polls: the inductive  *)
(* invariant IInv, the safety invariants it implies, and what a step may   *)
(* do to credentials, conversation, account and a user's decision.         *)
(*                                                                         *)
(* There is one lemma per action.  The steps of the admitted request share *)
(* MovedKeeps and MovedGuarded (MovedPlainly when memory and checkpoint    *)
(* stay), those of a request before its admission AsideStep, those of      *)
(* commands and auxiliary conversations BesideStep and StateBesideStep,    *)
(* those of the rest of the machine WorldStep.  What writing the           *)
(* checkpoint leaves of a record is said once, in Stored.                  *)
(***************************************************************************)
EXTENDS Connection, FiniteSetTheorems, TLAPS

LEMMA UserRange ==
  /\ NoBody \notin Bodies /\ UserOf(NoBody) = 0 /\ UserOf(0) = 0
  /\ \A b \in Bodies \cup {NoBody} : UserOf(b) \in 0..MaxUser
<1>1. MaxUser \in Nat
  BY ConnectionAssumption
<1>2. ASSUME NEW b \in Int, 0 < b, b <= 2 * MaxUser PROVE UserOf(b) \in 0..MaxUser
  BY <1>1, <1>2 DEF UserOf
<1> QED
  BY <1>1, <1>2 DEF Bodies, NoBody, UserOf

LEMMA FirstSlot == First \in Slots
BY ConnectionAssumption DEF First

-----------------------------------------------------------------------------
(* The records, and what writing the checkpoint does to them.              *)

LEMMA Literals ==
  /\ Blank \in Memory /\ NoRequest \in Request
  /\ NoView \in [current : BOOLEAN, slot : Slots, pending : BOOLEAN, failed : BOOLEAN,
                 turn : 0..MaxUser]
  /\ NoHead \in [thread : Threads \cup {NoThread}, compact : BOOLEAN]
  /\ NewCli \in [user : 0..MaxUser, reasoning : SUBSET Creds, compacted : SUBSET Creds]
<1> USE FirstSlot, ConnectionAssumption
<1>1. Blank \in Memory
  <2>1. NoReasoning \in [credential : Creds \cup {NoCred}, boundary : 0..MaxUser, keys : SUBSET Creds]
    BY DEF NoReasoning
  <2> HIDE DEF NoReasoning
  <2> QED
    BY <2>1 DEF Blank, Memory
<1>2. NoRequest \in Request
  BY DEF NoRequest, Request
<1> QED
  BY <1>1, <1>2 DEF NoView, NoHead, NewCli

LEMMA ImageType == \A x \in Memory : Image(x) \in Saved
BY DEF Memory, Saved, Image

\* The fields that writing the checkpoint never changes.
Alike(y, x) ==
  /\ y.slot = x.slot /\ y.chosen = x.chosen /\ y.session = x.session /\ y.busy = x.busy
  /\ y.turnPending = x.turnPending /\ y.waiting = x.waiting
  /\ y.terminalReady = x.terminalReady /\ y.recoveryRequired = x.recoveryRequired
  /\ y.lastBody = x.lastBody /\ y.previousSlot = x.previousSlot
  /\ y.previousCredential = x.previousCredential /\ y.portableBoundary = x.portableBoundary
  /\ y.opaqueSlot = x.opaqueSlot /\ y.compactOwners = x.compactOwners
  /\ y.reasoning = x.reasoning /\ y.aux = x.aux /\ y.prepared = x.prepared
  /\ y.closing = x.closing /\ y.retired = x.retired

\* What a step that changes the record to x and stores it leaves of it, in memory
\* and on disk; state() may also give the lease back.
Stored(x) ==
  /\ m' \in Memory /\ Alike(m', x)
  /\ x.failed => m'.failed
  /\ m'.checkpointErr /\ ~x.checkpointErr => m'.failed
  /\ x.checkpointErr => m'.checkpointErr
  /\ x.checkpointErr \/ ~m'.checkpointErr => m'.failed = x.failed
  /\ ~m'.checkpointErr => disk' = Image(x)
  /\ disk' = disk \/ disk' = Image(x)
  /\ Image(x) \in Saved

LEMMA PersistEffect ==
  ASSUME NEW x \in Memory, persist(x)
  PROVE  Stored(x) /\ m'.lease = x.lease
<1>0. Image(x) \in Saved
  BY ImageType
<1>1. CASE x.checkpointErr /\ m' = x /\ UNCHANGED disk
  BY <1>0, <1>1 DEF Alike, Stored
<1>2. CASE ~x.checkpointErr /\ m' = x /\ disk' = Image(x)
  BY <1>0, <1>2 DEF Alike, Stored
<1>3. CASE /\ ~x.checkpointErr
           /\ m' = [x EXCEPT !.checkpointErr = TRUE, !.failed = TRUE]
           /\ disk' \in {disk, Image(x)}
  <2>1. m' \in Memory /\ m'.checkpointErr /\ m'.failed
    BY <1>3 DEF Memory
  <2>2. Alike(m', x) /\ m'.lease = x.lease
    BY <1>3 DEF Memory, Alike
  <2>3. disk' = disk \/ disk' = Image(x)
    BY <1>3
  <2> QED
    BY <1>0, <1>3, <2>1, <2>2, <2>3 DEF Stored
<1> QED
  BY <1>1, <1>2, <1>3 DEF persist

LEMMA StateEffect ==
  ASSUME NEW x \in Memory, state(x)
  PROVE  Stored(x) /\ (m'.lease <=> x.lease /\ (x.busy \/ x.turnPending \/ AuxActive(x)))
<1> DEFINE l == x.lease /\ (x.busy \/ x.turnPending \/ AuxActive(x))
<1>1. PICK b \in BOOLEAN : b = l
  <2>1. l \in BOOLEAN
    OBVIOUS
  <2> QED
    BY <2>1, Zenon
<1>2. PICK y : y = [x EXCEPT !.lease = b]
  OBVIOUS
<1>3. persist(y)
  BY <1>1, <1>2 DEF state
<1> HIDE DEF l
<1>4. y \in Memory /\ y.lease = b
  BY <1>2 DEF Memory
<1>5. Alike(y, x) /\ y.failed = x.failed /\ y.checkpointErr = x.checkpointErr
  BY <1>2 DEF Memory, Alike
<1>6. Image(y) = Image(x)
  BY <1>5 DEF Image, Alike
<1>7. Stored(y) /\ m'.lease = y.lease
  BY <1>3, <1>4, PersistEffect
<1>8. Stored(x)
  BY <1>5, <1>6, <1>7 DEF Stored, Alike
<1>9. m'.lease <=> l
  BY <1>1, <1>4, <1>7
<1> QED
  BY <1>8, <1>9 DEF l

-----------------------------------------------------------------------------
(* A request past its admission.                                           *)

\* The types of what only some steps change.
TypeView   == ui \in [current : BOOLEAN, slot : Slots, pending : BOOLEAN, failed : BOOLEAN,
                      turn : 0..MaxUser]
TypeQuota  == /\ sample \in [Slots -> Levels] /\ limits \in SUBSET Slots
              /\ newer \in SUBSET limits /\ polls \in 0..MaxPolls
TypeClient == /\ cli \in [user : 0..MaxUser, reasoning : SUBSET Creds, compacted : SUBSET Creds]
              /\ interrupted \in SUBSET (0..MaxUser) /\ lastSent \in 0..MaxUser

LEMMA TypeParts ==
  /\ TypeOK => TypeView /\ TypeQuota /\ TypeClient
  /\ TypeOK /\ UNCHANGED ui => TypeView'
  /\ revise => TypeView'
  /\ TypeOK /\ UNCHANGED quota => TypeQuota'
  /\ TypeOK /\ applied => TypeQuota'
  /\ TypeOK /\ UNCHANGED client => TypeClient'
<1>1. revise => TypeView'
  BY Literals DEF revise, TypeView
<1>2. TypeOK => TypeView /\ TypeQuota /\ TypeClient
  BY DEF TypeOK, TypeView, TypeQuota, TypeClient
<1>3. TypeOK /\ UNCHANGED ui => TypeView'
  BY DEF TypeOK, TypeView
<1>4. TypeOK /\ UNCHANGED quota => TypeQuota'
  BY DEF TypeOK, TypeQuota, quota
<1>5. TypeOK /\ applied => TypeQuota'
  BY DEF TypeOK, TypeQuota, applied, Cleared
<1>6. TypeOK /\ UNCHANGED client => TypeClient'
  BY DEF TypeOK, TypeClient, client
<1> QED
  BY <1>1, <1>2, <1>3, <1>4, <1>5, <1>6

LEMMA Running ==
  ASSUME IInv, NEW h \in Handlers, pc[h] \in Active
  PROVE  /\ alive /\ m.busy /\ m.lease /\ ~m.prepared /\ ~accountOp /\ ~m.retired /\ m.chosen
         /\ m.session # NoThread /\ m \in Memory /\ disk \in Saved /\ cur \in Request
         /\ cur.selected \in Slots
         /\ \A g \in Handlers : g # h => pc[g] \notin Active
         /\ SelectedAt(pc[h]) /\ OwnedAt(pc[h]) /\ CheckpointedAt(pc[h])
<1>1. alive
  BY DEF IInv, Quiescent, Active
<1>2. m.busy /\ \A g \in Handlers : g # h => pc[g] \notin Active
  BY <1>1 DEF IInv, AdmissionExclusive
<1>3. m.lease /\ ~m.prepared /\ ~accountOp
  BY <1>2 DEF IInv, AdmissionExclusive, Leased, Idle
<1>4. ~m.retired /\ m.chosen /\ m.session # NoThread
  BY <1>2 DEF IInv, Bound, Pinned
<1>5. SelectedAt(pc[h]) /\ OwnedAt(pc[h]) /\ CheckpointedAt(pc[h])
  BY DEF IInv, InFlight
<1>6. cur.selected \in Slots
  BY <1>5 DEF SelectedAt
<1> QED
  BY <1>1, <1>2, <1>3, <1>4, <1>5, <1>6 DEF IInv, TypeOK

LEMMA Elsewise ==
  ASSUME NEW p, p \notin Active
  PROVE  SelectedAt(p) /\ OwnedAt(p) /\ CheckpointedAt(p) /\ RepeatedAt(p)
BY DEF SelectedAt, OwnedAt, CheckpointedAt, RepeatedAt, Active, Upstream, Sending

\* What every such step that goes on leaves as it is.
LEMMA MovedKeeps ==
  ASSUME IInv, NEW h \in Handlers, pc[h] \in Active, NEW place \in Active, NEW c \in Request,
         Goto(h, place, c), UNCHANGED Elsewhere, m' \in Memory, disk' \in Saved,
         m'.busy, m'.lease, m'.waiting = m.waiting, m'.prepared = m.prepared,
         m'.closing = m.closing, m'.retired = m.retired, m'.session = m.session,
         TypeView', TypeQuota', TypeClient',
         SelectedAt(place)', OwnedAt(place)', CheckpointedAt(place)'
  PROVE  TypeOK' /\ Quiescent' /\ AdmissionExclusive' /\ Leased' /\ Bound' /\ InFlight' /\ Shown'
<1>0. /\ pc' = [pc EXCEPT ![h] = place] /\ cur' = c /\ pc \in [Handlers -> Stages]
      /\ UNCHANGED <<alive, head, accountOp, cred, nextCred, restarts>>
      /\ Active \subseteq Stages
  BY DEF Goto, Elsewhere, world, IInv, TypeOK, Active, Stages
<1>1. pc' \in [Handlers -> Stages] /\ pc'[h] = place /\ \A g \in Handlers : g # h => pc'[g] = pc[g]
  BY <1>0
<1>2. /\ alive /\ m.busy /\ m.lease /\ ~m.prepared /\ ~accountOp /\ ~m.retired /\ m.session # NoThread
      /\ \A g \in Handlers : g # h => pc[g] \notin Active
  BY Running
<1>3. TypeOK'
  BY <1>0, <1>1 DEF IInv, TypeOK, TypeView, TypeQuota, TypeClient
<1>4. Quiescent'
  BY <1>0, <1>2 DEF Quiescent
<1>5. AdmissionExclusive'
  <2>1. \A g \in Handlers : pc'[g] \in Active => g = h
    BY <1>1, <1>2
  <2>2. \A g \in Handlers : pc'[g] \in Waiting <=> pc[g] \in Waiting
    BY <1>1 DEF Active, Waiting
  <2>3. m'.waiting <=> \E g \in Handlers : pc'[g] \in Waiting
    BY <2>2 DEF IInv, AdmissionExclusive, Waiting
  <2>4. \E g \in Handlers : pc'[g] \in Active
    BY <1>1
  <2> QED
    BY <1>2, <2>1, <2>3, <2>4 DEF AdmissionExclusive, Waiting
<1>6. Leased' /\ Shown'
  BY <1>0, <1>2 DEF Leased, Shown
<1>7. Bound'
  <2>1. \A g \in Handlers : /\ pc'[g] # "idle" => pc[g] # "idle"
                            /\ pc'[g] \in Waiting => pc[g] \in Waiting
    BY <1>1 DEF Active, Waiting
  <2> QED
    BY <1>0, <1>2, <2>1 DEF IInv, Bound
<1>8. InFlight'
  <2>1. ASSUME NEW g \in Handlers PROVE (SelectedAt(pc[g]) /\ OwnedAt(pc[g]) /\ CheckpointedAt(pc[g]))'
    <3>1. CASE g = h
      BY <1>1, <3>1 DEF SelectedAt, OwnedAt, CheckpointedAt
    <3>2. CASE g # h
      <4>1. pc'[g] \notin Active
        BY <1>1, <1>2, <3>2
      <4> QED
        BY <4>1 DEF SelectedAt, OwnedAt, CheckpointedAt, Active, Upstream, Sending
    <3> QED
      BY <3>1, <3>2
  <2> QED
    BY <2>1 DEF InFlight
<1> QED
  BY <1>3, <1>4, <1>5, <1>6, <1>7, <1>8

\* The checkpoint is as it was, or as the memory now.
Agrees ==
  \/ disk' = disk
  \/ /\ disk'.slot = m'.slot /\ disk'.chosen = m'.chosen /\ disk'.session = m'.session
     /\ disk'.lastBody = m'.lastBody /\ disk'.opaqueSlot = m'.opaqueSlot
     /\ disk'.compactOwners = m'.compactOwners /\ disk'.retired = m'.retired

LEMMA ImageFields ==
  ASSUME NEW x
  PROVE  /\ Image(x).slot = x.slot /\ Image(x).chosen = x.chosen /\ Image(x).session = x.session
         /\ Image(x).lastBody = x.lastBody /\ Image(x).opaqueSlot = x.opaqueSlot
         /\ Image(x).compactOwners = x.compactOwners /\ Image(x).retired = x.retired
         /\ Image(x).busy = x.busy
BY DEF Image

LEMMA StoredAgrees ==
  ASSUME NEW x, Stored(x), disk \in Saved
  PROVE  Agrees /\ disk' \in Saved
<1>1. disk' = disk \/ disk' = Image(x)
  BY DEF Stored
<1> QED
  BY <1>1, ImageFields DEF Stored, Agrees, Alike

\* The checkpoint that names the request being sent goes on naming it.
LEMMA NamedStill ==
  ASSUME NEW x, Stored(x), x.busy = m.busy, m.busy, x.retired = m.retired, ~m.retired,
         x.lastBody = m.lastBody, x.slot = m.slot, x.session = m.session,
         disk.busy, ~disk.retired, disk.lastBody = m.lastBody,
         disk.slot = m.slot, disk.session = m.session
  PROVE  /\ disk'.busy /\ ~disk'.retired /\ disk'.lastBody = m.lastBody
         /\ disk'.slot = m.slot /\ disk'.session = m.session
<1>1. CASE disk' = disk
  BY <1>1
<1>2. CASE disk' = Image(x)
  BY <1>2, ImageFields
<1> QED
  BY <1>1, <1>2 DEF Stored

LEMMA PinnedKept ==
  ASSUME Pinned, Agrees, m'.opaqueSlot # NoSlot => m'.slot = m'.opaqueSlot /\ m'.chosen,
         m'.turnPending \/ m'.busy \/ m'.aux \in {"idle", "busy", "pending"} => m'.chosen
  PROVE  Pinned'
BY DEF Pinned, OpaquePinned, Agrees

LEMMA OwnedKept ==
  ASSUME Owned, Agrees, \A o \in m'.compactOwners : o.key = o.credential,
         m'.reasoning.keys \subseteq {m'.reasoning.credential}
  PROVE  Owned'
BY DEF Owned, Agrees

LEMMA MovedGuarded ==
  ASSUME IInv, NEW h \in Handlers, pc[h] \in Active, NEW place \in Active,
         pc' = [pc EXCEPT ![h] = place], alive' = alive, Agrees,
         interrupted' = interrupted, lastSent' = lastSent, TypeClient',
         cli'.user = cli.user \/ cli.user <= cli'.user,
         m'.lastBody = m.lastBody, m'.session = m.session,
         Repeated => /\ RepeatedAt(place)'
                     /\ lastSent \in interrupted =>
                          m'.failed \/ m'.recoveryRequired \/ UserOf(m.lastBody) > lastSent
  PROVE  Guarded'
<1>1. SUFFICES ASSUME Repeated PROVE Repeated'
  BY DEF IInv, Guarded
<1>2. alive /\ \A g \in Handlers : g # h => pc[g] \notin Active
  BY Running
<1>3. \A g \in Handlers : RepeatedAt(pc[g])'
  <2>1. ASSUME NEW g \in Handlers PROVE RepeatedAt(pc[g])'
    <3>0. pc \in [Handlers -> Stages]
      BY DEF IInv, TypeOK
    <3>1. CASE g = h
      <4>1. pc'[g] = place
        BY <3>0, <3>1
      <4> QED
        BY <1>1, <4>1 DEF RepeatedAt
    <3>2. CASE g # h
      <4>1. pc'[g] \notin Active
        BY <1>2, <3>0, <3>2
      <4> QED
        BY <4>1 DEF RepeatedAt, Active
    <3> QED
      BY <3>1, <3>2
  <2> QED
    BY <2>1
<1>4. UserOf(m'.lastBody) <= cli'.user /\ UserOf(disk'.lastBody) <= cli'.user
  <2>1. UserOf(m.lastBody) \in Nat /\ UserOf(disk.lastBody) \in Nat
    BY UserRange DEF IInv, TypeOK, Memory, Saved
  <2>2. cli.user \in Nat /\ cli'.user \in Nat
    BY DEF IInv, TypeOK, TypeClient
  <2>3. UserOf(m'.lastBody) = UserOf(m.lastBody) /\ UserOf(disk'.lastBody) \in {UserOf(m.lastBody), UserOf(disk.lastBody)}
    BY DEF Agrees
  <2> QED
    BY <1>1, <2>1, <2>2, <2>3 DEF Repeated
<1>5. ~disk'.retired => /\ lastSent' <= UserOf(disk'.lastBody)
                        /\ lastSent' > 0 => disk'.session # NoThread
  BY <1>1, <1>2 DEF Repeated, Agrees
<1>6. alive' => lastSent' <= UserOf(m'.lastBody) /\ (lastSent' > 0 => m'.session # NoThread)
  BY <1>1, <1>2 DEF Repeated
<1>7. \A u \in interrupted' : 0 < u /\ u <= lastSent'
  BY <1>1 DEF Repeated
<1>8. alive' /\ lastSent' \in interrupted' =>
        m'.failed \/ m'.recoveryRequired \/ UserOf(m'.lastBody) > lastSent'
  BY <1>1
<1> QED
  BY <1>3, <1>4, <1>5, <1>6, <1>7, <1>8 DEF Repeated

\* A step that changes nothing but the request.
LEMMA MovedPlainly ==
  ASSUME IInv, NEW h \in Handlers, pc[h] \in Active, NEW place \in Active, NEW c \in Request,
         Goto(h, place, c), UNCHANGED <<Elsewhere, m, disk, ui, interrupted, lastSent>>,
         cli'.user = cli.user \/ cli.user <= cli'.user, TypeQuota', TypeClient',
         IsFiniteSet(c.tried), Cardinality(c.tried) >= c.attempts, c.attempts = cur.attempts,
         SelectedAt(place)', OwnedAt(place)', CheckpointedAt(place)',
         Repeated => RepeatedAt(place)'
  PROVE  IInv'
<1>0. /\ pc' = [pc EXCEPT ![h] = place] /\ cur' = c /\ alive' = alive /\ UNCHANGED Elsewhere
      /\ m' = m /\ disk' = disk /\ Agrees
  BY DEF Goto, Elsewhere, Agrees
<1>1. /\ alive /\ m.busy /\ m.lease /\ m \in Memory /\ disk \in Saved
  BY Running
<1>2. TypeView'
  BY TypeParts DEF IInv
<1>3. TypeOK' /\ Quiescent' /\ AdmissionExclusive' /\ Leased' /\ Bound' /\ InFlight' /\ Shown'
  BY <1>0, <1>1, <1>2, MovedKeeps
<1>4. Pinned' /\ Owned'
  BY <1>0 DEF IInv, Pinned, OpaquePinned, Owned
<1>5. Attempted'
  BY <1>0 DEF IInv, Attempted, AttemptOnce
<1>6. Guarded'
  <2>1. Repeated /\ lastSent \in interrupted =>
          m'.failed \/ m'.recoveryRequired \/ UserOf(m.lastBody) > lastSent
    BY <1>0, <1>1 DEF Repeated
  <2> QED
    BY <1>0, <2>1, MovedGuarded
<1> QED
  BY <1>3, <1>4, <1>5, <1>6 DEF IInv

LEMMA ReadFailsStep ==
  ASSUME IInv, NEW h \in Handlers, ReadFails(h)
  PROVE  IInv'
<1>1. /\ pc[h] = "reading" /\ Goto(h, "finishing", cur) /\ cur' = cur /\ cli' = cli
      /\ UNCHANGED <<Elsewhere, m, disk, ui, interrupted, lastSent>> /\ UNCHANGED <<quota, client>>
  BY DEF ReadFails, Goto, client
<1>2. pc[h] \in Active /\ "finishing" \in Active
  BY <1>1 DEF Active
<1>3. cur \in Request /\ SelectedAt(pc[h])
  BY <1>2, Running
<1>4. TypeQuota' /\ TypeClient'
  BY <1>1, TypeParts DEF IInv
<1>5. IsFiniteSet(cur.tried) /\ Cardinality(cur.tried) >= cur.attempts
  BY DEF IInv, Attempted, AttemptOnce
<1>6. (SelectedAt("finishing") /\ OwnedAt("finishing") /\ CheckpointedAt("finishing"))'
  BY <1>1, <1>2, <1>3 DEF SelectedAt, OwnedAt, CheckpointedAt, Upstream, Sending
<1>7. Repeated => RepeatedAt("finishing")'
  BY DEF RepeatedAt
<1> QED
  BY <1>1, <1>2, <1>3, <1>4, <1>5, <1>6, <1>7, MovedPlainly

LEMMA Trying ==
  ASSUME IInv, NEW s
  PROVE  /\ IsFiniteSet(cur.tried) /\ IsFiniteSet(cur.tried \cup {s})
         /\ Cardinality(cur.tried) \in Nat /\ Cardinality(cur.tried) >= cur.attempts
         /\ cur.attempts \in Nat /\ Cardinality(cur.tried \cup {s}) >= cur.attempts
         /\ s \notin cur.tried => Cardinality(cur.tried \cup {s}) >= cur.attempts + 1
<1>1. IsFiniteSet(cur.tried) /\ Cardinality(cur.tried) >= cur.attempts /\ cur.attempts \in Nat
  BY DEF IInv, Attempted, AttemptOnce, TypeOK, Request
<1>2. Cardinality(cur.tried) \in Nat
  BY <1>1, FS_CardinalityType
<1>3. /\ IsFiniteSet(cur.tried \cup {s})
      /\ \/ Cardinality(cur.tried \cup {s}) = Cardinality(cur.tried) /\ s \in cur.tried
         \/ Cardinality(cur.tried \cup {s}) = Cardinality(cur.tried) + 1
  BY <1>1, FS_AddElement
<1> QED
  BY <1>1, <1>2, <1>3

LEMMA PrepareDeniedStep ==
  ASSUME IInv, NEW h \in Handlers, PrepareDenied(h)
  PROVE  IInv'
<1>1. /\ pc[h] = "preparing" /\ Goto(h, "finishing", cur) /\ cur' = cur /\ cli' = cli
      /\ UNCHANGED <<Elsewhere, m, disk, ui, interrupted, lastSent>> /\ UNCHANGED <<quota, client>>
  BY DEF PrepareDenied, Goto, client
<1>2. pc[h] \in Active /\ "finishing" \in Active
  BY <1>1 DEF Active
<1>3. cur \in Request /\ SelectedAt(pc[h])
  BY <1>2, Running
<1>4. TypeQuota' /\ TypeClient'
  BY <1>1, TypeParts DEF IInv
<1>5. (SelectedAt("finishing") /\ OwnedAt("finishing") /\ CheckpointedAt("finishing"))'
  BY <1>1, <1>2, <1>3 DEF SelectedAt, OwnedAt, CheckpointedAt, Upstream, Sending
<1>6. Repeated => RepeatedAt("finishing")'
  BY DEF RepeatedAt
<1> QED
  BY <1>1, <1>2, <1>3, <1>4, <1>5, <1>6, Trying, MovedPlainly

LEMMA DispatchDeniedStep ==
  ASSUME IInv, NEW h \in Handlers, DispatchDenied(h)
  PROVE  IInv'
<1> DEFINE c == [cur EXCEPT !.tried = @ \cup {cur.selected}, !.result = "error"]
<1>1. /\ pc[h] = "dispatching" /\ Goto(h, "answered", c) /\ cur' = c /\ cli' = cli
      /\ UNCHANGED <<Elsewhere, m, disk, ui, interrupted, lastSent>> /\ UNCHANGED <<quota, client>>
  BY DEF DispatchDenied, Goto, client
<1>2. pc[h] \in Active /\ "answered" \in Active
  BY <1>1 DEF Active
<1>3. cur \in Request /\ cur.selected \in Slots
  BY <1>2, Running
<1>4. TypeQuota' /\ TypeClient'
  BY <1>1, TypeParts DEF IInv
<1>5. /\ c \in Request /\ c.tried = cur.tried \cup {cur.selected} /\ c.attempts = cur.attempts
      /\ c.selected = cur.selected /\ c.result = "error"
  BY <1>3 DEF Request
<1> HIDE DEF c
<1>6. (SelectedAt("answered") /\ OwnedAt("answered") /\ CheckpointedAt("answered"))'
  BY <1>1, <1>3, <1>5 DEF SelectedAt, OwnedAt, CheckpointedAt, Upstream, Sending
<1>7. Repeated => RepeatedAt("answered")'
  BY <1>1, <1>5 DEF RepeatedAt
<1> QED
  BY <1>1, <1>2, <1>4, <1>5, <1>6, <1>7, Trying, MovedPlainly

LEMMA LimitReachedStep ==
  ASSUME IInv, NEW h \in Handlers, LimitReached(h)
  PROVE  IInv'
<1>1. /\ pc[h] = "upstream" /\ Goto(h, "limited", cur) /\ cur' = cur /\ cli' = cli
      /\ UNCHANGED <<Elsewhere, m, disk, ui, interrupted, lastSent>> /\ UNCHANGED <<quota, client>>
  BY DEF LimitReached, Goto, client
<1>2. pc[h] \in Active /\ "limited" \in Active
  BY <1>1 DEF Active
<1>3. cur \in Request /\ SelectedAt("upstream") /\ CheckpointedAt("upstream")
  BY <1>1, <1>2, Running
<1>4. TypeQuota' /\ TypeClient'
  BY <1>1, TypeParts DEF IInv
<1>5. (SelectedAt("limited") /\ OwnedAt("limited"))'
  BY <1>1, <1>3 DEF SelectedAt, OwnedAt, Upstream, Active
<1>6. CheckpointedAt("limited")'
  BY <1>1, <1>3 DEF CheckpointedAt, Sending
<1>7. Repeated => RepeatedAt("limited")'
  <2>1. Repeated => RepeatedAt("upstream")
    BY <1>1 DEF Repeated
  <2> QED
    BY <1>1, <2>1 DEF RepeatedAt
<1> QED
  BY <1>1, <1>2, <1>3, <1>4, <1>5, <1>6, <1>7, Trying, MovedPlainly

LEMMA RespondStep ==
  ASSUME IInv, NEW h \in Handlers, NEW result \in {"final", "pending", "error"}, Respond(h, result)
  PROVE  IInv'
<1> DEFINE c == [cur EXCEPT !.result = result]
<1>1. /\ pc[h] \in Upstream /\ Goto(h, "answered", c) /\ cur' = c /\ Streamed
      /\ UNCHANGED <<Elsewhere, m, disk, ui, interrupted, lastSent>> /\ UNCHANGED quota
  BY DEF Respond, Goto, Upstream
<1>2. pc[h] \in Active /\ "answered" \in Active
  BY <1>1 DEF Active, Upstream
<1>3. cur \in Request /\ cur.selected \in Slots /\ SelectedAt(pc[h])
  BY <1>2, Running
<1>4. cur.credential \in Creds /\ cur.attempts > 0
  BY <1>1, <1>3 DEF SelectedAt
<1>5. TypeQuota' /\ TypeClient' /\ cli'.user = cli.user
  BY <1>1, <1>4, TypeParts DEF IInv, TypeClient, Streamed
<1>6. /\ c \in Request /\ c.tried = cur.tried /\ c.attempts = cur.attempts
      /\ c.selected = cur.selected /\ c.result = result /\ c.credential = cur.credential
  BY <1>3 DEF Request
<1> HIDE DEF c
<1>7. (SelectedAt("answered") /\ OwnedAt("answered") /\ CheckpointedAt("answered"))'
  BY <1>1, <1>3, <1>4, <1>6 DEF SelectedAt, OwnedAt, CheckpointedAt, Upstream, Sending
<1>8. Repeated => RepeatedAt("answered")'
  <2>1. Repeated => lastSent \notin interrupted
    BY <1>1 DEF Repeated, RepeatedAt, Upstream
  <2> QED
    BY <1>1, <2>1 DEF RepeatedAt
<1> QED
  BY <1>1, <1>2, <1>5, <1>6, <1>7, <1>8, Trying, MovedPlainly

\* The choice is one of the accounts offered, or none.
LEMMA Selection ==
  ASSUME NEW current, NEW q, NEW S
  PROVE  probeQuotaSelection(current, q, S) \in S \cup {NoSlot}
<1>1. Eligible(q, S) \subseteq S
  BY DEF Eligible
<1>2. (\E s \in S : Best(q, S, s)) => (CHOOSE s \in S : Best(q, S, s)) \in S
  OBVIOUS
<1> HIDE DEF Best, Eligible
<1> QED
  BY <1>1, <1>2 DEF probeQuotaSelection

LEMMA ConsiderSwitchStep ==
  ASSUME IInv, NEW h \in Handlers, ConsiderSwitch(h)
  PROVE  IInv'
<1>1. PICK next \in (Slots \ cur.tried) \cup {NoSlot} :
        LET ok == next # NoSlot /\ m.opaqueSlot = NoSlot /\ ~m.closing /\ ~m.checkpointErr
        IN IF ok THEN Goto(h, "switching", [cur EXCEPT !.next = next])
           ELSE Goto(h, "answered", [cur EXCEPT !.result = "error"])
  <2>1. \A q : probeQuotaAlternative(q, cur.tried) \in (Slots \ cur.tried) \cup {NoSlot}
    BY Selection DEF probeQuotaAlternative
  <2> QED
    BY <2>1 DEF ConsiderSwitch
<1>2. /\ pc[h] = "limited" /\ cli' = cli /\ UNCHANGED client
      /\ UNCHANGED <<Elsewhere, m, disk, ui, interrupted, lastSent>>
      /\ limits' = (limits \ Cleared) \cup {cur.selected}
      /\ newer' = (newer \ Cleared) \ {cur.selected} /\ UNCHANGED <<sample, polls>>
  BY DEF ConsiderSwitch, client
<1>3. pc[h] \in Active /\ "answered" \in Active /\ "switching" \in Active
  BY <1>2 DEF Active
<1>4. cur \in Request /\ cur.selected \in Slots /\ CheckpointedAt("limited")
  BY <1>2, <1>3, Running
<1>5. TypeQuota' /\ TypeClient'
  <2>1. TypeQuota /\ TypeClient'
    BY <1>2, TypeParts DEF IInv
  <2> QED
    BY <1>2, <1>4, <2>1 DEF TypeQuota
<1>6. Repeated => lastSent \notin interrupted
  BY <1>2 DEF Repeated, RepeatedAt
<1>7. CASE next # NoSlot /\ m.opaqueSlot = NoSlot /\ ~m.closing /\ ~m.checkpointErr
  <2> DEFINE c == [cur EXCEPT !.next = next]
  <2>1. Goto(h, "switching", c) /\ cur' = c
    BY <1>1, <1>7 DEF Goto
  <2>2. /\ c \in Request /\ c.tried = cur.tried /\ c.attempts = cur.attempts /\ c.body = cur.body
        /\ c.selected = cur.selected /\ c.next = next /\ next \in Slots \ cur.tried
    BY <1>1, <1>4, <1>7 DEF Request
  <2> HIDE DEF c
  <2>3. (SelectedAt("switching") /\ OwnedAt("switching"))'
    BY <1>2, <1>4, <1>7, <2>1, <2>2 DEF SelectedAt, OwnedAt, Upstream
  <2>4. CheckpointedAt("switching")'
    BY <1>2, <1>4, <2>1, <2>2 DEF CheckpointedAt, Sending
  <2>5. Repeated => RepeatedAt("switching")'
    BY <1>2, <1>6 DEF RepeatedAt
  <2> QED
    BY <1>2, <1>3, <1>5, <2>1, <2>2, <2>3, <2>4, <2>5, Trying, MovedPlainly
<1>8. CASE ~(next # NoSlot /\ m.opaqueSlot = NoSlot /\ ~m.closing /\ ~m.checkpointErr)
  <2> DEFINE c == [cur EXCEPT !.result = "error"]
  <2>1. Goto(h, "answered", c) /\ cur' = c
    BY <1>1, <1>8 DEF Goto
  <2>2. /\ c \in Request /\ c.tried = cur.tried /\ c.attempts = cur.attempts
        /\ c.selected = cur.selected /\ c.result = "error"
    BY <1>4 DEF Request
  <2> HIDE DEF c
  <2>3. (SelectedAt("answered") /\ OwnedAt("answered") /\ CheckpointedAt("answered"))'
    BY <1>2, <1>4, <2>1, <2>2 DEF SelectedAt, OwnedAt, CheckpointedAt, Upstream, Sending
  <2>4. Repeated => RepeatedAt("answered")'
    BY <2>1, <2>2 DEF RepeatedAt
  <2> QED
    BY <1>2, <1>3, <1>5, <2>1, <2>2, <2>3, <2>4, Trying, MovedPlainly
<1> QED
  BY <1>7, <1>8

LEMMA SwitchRefusedStep ==
  ASSUME IInv, NEW h \in Handlers, SwitchRefused(h)
  PROVE  IInv'
<1> DEFINE c == [cur EXCEPT !.result = "error", !.next = NoSlot]
<1>1. /\ pc[h] = "switching" /\ Goto(h, "answered", c) /\ cur' = c /\ cli' = cli
      /\ UNCHANGED <<Elsewhere, m, disk, ui, interrupted, lastSent>> /\ UNCHANGED <<quota, client>>
  BY DEF SwitchRefused, Goto, client
<1>2. pc[h] \in Active /\ "answered" \in Active
  BY <1>1 DEF Active
<1>3. cur \in Request /\ cur.selected \in Slots
  BY <1>2, Running
<1>4. TypeQuota' /\ TypeClient'
  BY <1>1, TypeParts DEF IInv
<1>5. /\ c \in Request /\ c.tried = cur.tried /\ c.attempts = cur.attempts
      /\ c.selected = cur.selected /\ c.result = "error"
  BY <1>3 DEF Request
<1> HIDE DEF c
<1>6. (SelectedAt("answered") /\ OwnedAt("answered") /\ CheckpointedAt("answered"))'
  BY <1>1, <1>3, <1>5 DEF SelectedAt, OwnedAt, CheckpointedAt, Upstream, Sending
<1>7. Repeated => RepeatedAt("answered")'
  BY <1>1, <1>5 DEF RepeatedAt
<1> QED
  BY <1>1, <1>2, <1>4, <1>5, <1>6, <1>7, Trying, MovedPlainly

LEMMA ReleaseStep ==
  ASSUME IInv, NEW h \in Handlers, NEW ok \in BOOLEAN, Release(h, ok)
  PROVE  IInv'
<1> DEFINE c == [cur EXCEPT !.completed = ok]
<1>1. /\ pc[h] = "releasing" /\ Goto(h, "finishing", c) /\ cur' = c /\ cli' = cli
      /\ UNCHANGED <<Elsewhere, m, disk, ui, interrupted, lastSent>> /\ UNCHANGED <<quota, client>>
  BY DEF Release, Goto, client
<1>2. pc[h] \in Active /\ "finishing" \in Active
  BY <1>1 DEF Active
<1>3. cur \in Request /\ cur.selected \in Slots
  BY <1>2, Running
<1>4. TypeQuota' /\ TypeClient'
  BY <1>1, TypeParts DEF IInv
<1>5. /\ c \in Request /\ c.tried = cur.tried /\ c.attempts = cur.attempts
      /\ c.selected = cur.selected
  BY <1>3 DEF Request
<1> HIDE DEF c
<1>6. (SelectedAt("finishing") /\ OwnedAt("finishing") /\ CheckpointedAt("finishing"))'
  BY <1>1, <1>3, <1>5 DEF SelectedAt, OwnedAt, CheckpointedAt, Upstream, Sending
<1>7. Repeated => RepeatedAt("finishing")'
  BY DEF RepeatedAt
<1> QED
  BY <1>1, <1>2, <1>4, <1>5, <1>6, <1>7, Trying, MovedPlainly

LEMMA DispatchStep ==
  ASSUME IInv, NEW h \in Handlers, Dispatch(h)
  PROVE  IInv'
<1> DEFINE u == cred[m.slot]
           c == [cur EXCEPT !.credential = u, !.tried = @ \cup {cur.selected}, !.attempts = @ + 1]
<1>1. /\ pc[h] = "dispatching" /\ Goto(h, "upstream", c) /\ cur' = c /\ lastSent' = UserOf(cur.body)
      /\ pc' = [pc EXCEPT ![h] = "upstream"] /\ UNCHANGED <<Elsewhere, m, disk, ui, cli, interrupted>>
      /\ UNCHANGED quota /\ alive' = alive
  BY DEF Dispatch, Goto, Elsewhere
<1>2. pc[h] \in Active /\ "upstream" \in Active
  BY <1>1 DEF Active
<1>3. /\ cur \in Request /\ cur.selected \in Slots /\ m \in Memory /\ disk \in Saved
      /\ SelectedAt("dispatching") /\ OwnedAt("dispatching") /\ CheckpointedAt("dispatching")
      /\ alive /\ m.busy /\ m.lease /\ m.session # NoThread
      /\ \A g \in Handlers : g # h => pc[g] \notin Active
  BY <1>1, <1>2, Running
<1>4. u \in Creds
  BY <1>3 DEF IInv, TypeOK, Memory
<1>5. /\ cur.selected \notin cur.tried /\ m.slot = cur.selected /\ m.lastBody = cur.body
      /\ UserOf(cur.body) > 0 /\ disk.busy /\ ~disk.retired /\ disk.lastBody = m.lastBody
      /\ disk.slot = m.slot /\ disk.session = m.session
  BY <1>3 DEF SelectedAt, CheckpointedAt, Sending
<1>6. \A k \in cur.opaque : k = u
  <2>1. ASSUME NEW k \in cur.compacted PROVE k = u
    <3>1. [key |-> k, slot |-> m.slot, credential |-> u] \in m.compactOwners
      BY <2>1 DEF Dispatch, resolve, compactPermits
    <3> HIDE DEF u
    <3> QED
      BY <3>1 DEF IInv, Owned
  <2>2. cur.turnOwner # NoCred => u = cur.turnOwner
    BY DEF Dispatch, resolve
  <2> QED
    BY <1>3, <2>1, <2>2 DEF OwnedAt
<1>7. UserOf(cur.body) \in 0..MaxUser
  BY <1>3, UserRange DEF Request
<1> HIDE DEF u
<1>8. /\ c \in Request /\ c.tried = cur.tried \cup {cur.selected} /\ c.attempts = cur.attempts + 1
      /\ c.selected = cur.selected /\ c.body = cur.body /\ c.credential = u /\ c.opaque = cur.opaque
  <2>1. PICK t \in SUBSET Slots : t = cur.tried \cup {cur.selected}
    BY <1>3 DEF Request
  <2>2. PICK n \in Nat : n = cur.attempts + 1
    BY <1>3 DEF Request
  <2>3. c = [cur EXCEPT !.credential = u, !.tried = t, !.attempts = n]
    BY <2>1, <2>2
  <2> HIDE DEF c
  <2> QED
    BY <1>3, <1>4, <2>1, <2>2, <2>3 DEF Request
<1> HIDE DEF c
<1>9. cur.attempts \in Nat
  BY Trying
<1>10. (SelectedAt("upstream") /\ OwnedAt("upstream"))'
  BY <1>1, <1>2, <1>3, <1>4, <1>6, <1>8, <1>9 DEF SelectedAt, OwnedAt, Upstream
<1>11. CheckpointedAt("upstream")'
  BY <1>1, <1>5, <1>8 DEF CheckpointedAt, Sending
<1>12. TypeView' /\ TypeQuota' /\ TypeClient'
  BY <1>1, <1>7, TypeParts DEF IInv, TypeClient
<1>13. TypeOK' /\ Quiescent' /\ AdmissionExclusive' /\ Leased' /\ Bound' /\ InFlight' /\ Shown'
  BY <1>1, <1>2, <1>3, <1>8, <1>10, <1>11, <1>12, MovedKeeps
<1>14. Pinned' /\ Owned'
  BY <1>1 DEF IInv, Pinned, OpaquePinned, Owned
<1>15. Attempted'
  BY <1>1, <1>5, <1>8, Trying DEF Attempted, AttemptOnce
<1>16. Guarded'
  <2>1. SUFFICES ASSUME Repeated PROVE Repeated'
    BY DEF IInv, Guarded
  <2>2. lastSent' \notin interrupted' /\ lastSent <= lastSent' /\ \A u1 \in interrupted : u1 <= lastSent'
    <3>1. RepeatedAt("dispatching") /\ lastSent <= UserOf(cur.body)
      BY <1>1, <1>3, <1>5, <2>1 DEF Repeated
    <3>2. \A u1 \in interrupted : u1 \in Nat /\ u1 <= lastSent
      BY <2>1 DEF Repeated, IInv, TypeOK
    <3>3. lastSent \in Nat
      BY DEF IInv, TypeOK
    <3> QED
      BY <1>1, <1>7, <3>1, <3>2, <3>3 DEF RepeatedAt
  <2>3. \A g \in Handlers : RepeatedAt(pc[g])'
    BY <2>2 DEF RepeatedAt
  <2> QED
    BY <1>1, <1>3, <1>5, <1>7, <2>1, <2>2, <2>3 DEF Repeated
<1> QED
  BY <1>13, <1>14, <1>15, <1>16 DEF IInv

LEMMA ReadBodyStep ==
  ASSUME IInv, NEW h \in Handlers, NEW b \in Bodies, NEW reasoning \in SUBSET Creds,
         NEW compacted \in SUBSET Creds, ReadBody(h, b, reasoning, compacted)
  PROVE  IInv'
<1> DEFINE stops == needsInput(b) \/ (cur.waited /\ b = m.lastBody)
<1>1. /\ pc[h] = "reading" /\ UNCHANGED quota
      /\ UNCHANGED <<Elsewhere, disk, ui, interrupted, lastSent>> /\ alive' = alive
      /\ IF UserOf(b) = 0 THEN Userless ELSE UserOf(b) >= cli.user
      /\ cli' = IF UserOf(b) = 0 THEN cli ELSE [cli EXCEPT !.user = UserOf(b)]
      /\ IF stops THEN Goto(h, "finishing", [cur EXCEPT !.completed = TRUE]) /\ UNCHANGED m
         ELSE /\ Goto(h, "preparing", [cur EXCEPT !.body = b, !.reasoning = reasoning,
                                                  !.compacted = compacted])
              /\ m' = [m EXCEPT !.lastBody = b]
  BY DEF ReadBody, Elsewhere
<1>2. pc[h] \in Active /\ "finishing" \in Active /\ "preparing" \in Active
  BY <1>1 DEF Active
<1>3. /\ cur \in Request /\ cur.selected \in Slots /\ m \in Memory /\ disk \in Saved
      /\ SelectedAt("reading") /\ CheckpointedAt("reading")
      /\ alive /\ m.busy /\ m.lease /\ m.session # NoThread /\ m.chosen
      /\ \A g \in Handlers : g # h => pc[g] \notin Active
  BY <1>1, <1>2, Running
<1>4. UserOf(b) \in 0..MaxUser /\ UserOf(m.lastBody) \in 0..MaxUser
  BY <1>3, UserRange DEF Memory
<1>5. TypeView' /\ TypeQuota'
  BY <1>1, TypeParts DEF IInv
<1>6. TypeClient' /\ cli.user \in Nat
  BY <1>1, <1>4, TypeParts DEF IInv, TypeClient
<1>7. /\ cli'.user = cli.user \/ cli.user <= cli'.user
      /\ ~Userless => UserOf(b) > 0 /\ cli'.user = UserOf(b) /\ cli.user <= UserOf(b)
  <2>1. cli \in [user : 0..MaxUser, reasoning : SUBSET Creds, compacted : SUBSET Creds]
    BY DEF IInv, TypeOK
  <2>2. UserOf(b) # 0 => cli'.user = UserOf(b)
    BY <1>1, <2>1
  <2> QED
    BY <1>1, <1>4, <2>2
<1>8. CASE stops
  <2> DEFINE c == [cur EXCEPT !.completed = TRUE]
  <2>1. Goto(h, "finishing", c) /\ cur' = c /\ m' = m
    BY <1>1, <1>8 DEF Goto
  <2>2. /\ c \in Request /\ c.tried = cur.tried /\ c.attempts = cur.attempts
        /\ c.selected = cur.selected
    BY <1>3 DEF Request
  <2> HIDE DEF c, stops
  <2>3. (SelectedAt("finishing") /\ OwnedAt("finishing") /\ CheckpointedAt("finishing"))'
    BY <1>3, <2>1, <2>2 DEF SelectedAt, OwnedAt, CheckpointedAt, Upstream, Sending
  <2>4. Repeated => RepeatedAt("finishing")'
    BY DEF RepeatedAt
  <2> QED
    BY <1>1, <1>2, <1>5, <1>6, <1>7, <2>1, <2>2, <2>3, <2>4, Trying, MovedPlainly
<1>9. CASE ~stops
  <2> DEFINE c == [cur EXCEPT !.body = b, !.reasoning = reasoning, !.compacted = compacted]
  <2>1. /\ Goto(h, "preparing", c) /\ cur' = c /\ m' = [m EXCEPT !.lastBody = b]
        /\ pc' = [pc EXCEPT ![h] = "preparing"]
    BY <1>1, <1>9 DEF Goto
  <2>2. /\ c \in Request /\ c.tried = cur.tried /\ c.attempts = cur.attempts
        /\ c.selected = cur.selected /\ c.body = b
    BY <1>3 DEF Request
  <2>3. m' \in Memory /\ m'.lastBody = b
    BY <1>3, <2>1 DEF Memory
  <2>4. /\ m'.busy = m.busy /\ m'.lease = m.lease /\ m'.waiting = m.waiting
        /\ m'.prepared = m.prepared /\ m'.closing = m.closing /\ m'.retired = m.retired
        /\ m'.session = m.session /\ m'.slot = m.slot /\ m'.chosen = m.chosen
        /\ m'.opaqueSlot = m.opaqueSlot /\ m'.compactOwners = m.compactOwners
        /\ m'.reasoning = m.reasoning /\ m'.turnPending = m.turnPending /\ m'.aux = m.aux
    BY <1>3, <2>1 DEF Memory
  <2>5. m'.recoveryRequired = m.recoveryRequired /\ m'.failed = m.failed
    BY <1>3, <2>1 DEF Memory
  <2> HIDE DEF c
  <2>6. (SelectedAt("preparing") /\ OwnedAt("preparing"))'
    BY <1>3, <2>1, <2>2 DEF SelectedAt, OwnedAt, Upstream
  <2>7. CheckpointedAt("preparing")'
    BY <1>3, <2>1, <2>2, <2>3, <2>4 DEF CheckpointedAt, Sending
  <2>8. TypeOK' /\ Quiescent' /\ AdmissionExclusive' /\ Leased' /\ Bound' /\ InFlight' /\ Shown'
    BY <1>1, <1>2, <1>3, <1>5, <1>6, <2>1, <2>2, <2>3, <2>4, <2>6, <2>7, MovedKeeps
  <2>9. Pinned' /\ Owned'
    BY <1>1, <2>4 DEF IInv, Pinned, OpaquePinned, Owned
  <2>10. Attempted'
    BY <1>1, <2>1, <2>2, <2>4 DEF IInv, Attempted, AttemptOnce
  <2>11. Guarded'
    <3>1. SUFFICES ASSUME ~Userless, Repeated PROVE Repeated'
      BY DEF IInv, Guarded
    <3>2. /\ lastSent \in Nat /\ lastSent <= UserOf(m.lastBody)
          /\ UserOf(m.lastBody) <= UserOf(b)
      BY <1>3, <1>4, <1>6, <1>7, <3>1 DEF Repeated, IInv, TypeOK
    <3>3. lastSent \in interrupted => UserOf(b) > lastSent
      <4>1. lastSent \in interrupted => m.recoveryRequired \/ UserOf(m.lastBody) > lastSent
        BY <1>1, <3>1 DEF Repeated, RepeatedAt
      <4>2. m.recoveryRequired => UserOf(b) # UserOf(m.lastBody)
        BY <1>9 DEF needsInput
      <4> QED
        BY <1>4, <3>2, <4>1, <4>2
    <3>4. \A g \in Handlers : RepeatedAt(pc[g])'
      <4>1. ASSUME NEW g \in Handlers PROVE RepeatedAt(pc[g])'
        <5>0. pc \in [Handlers -> Stages]
          BY DEF IInv, TypeOK
        <5>1. CASE g = h
          <6>1. pc'[g] = "preparing"
            BY <2>1, <5>0, <5>1
          <6> QED
            BY <1>1, <2>1, <2>2, <3>3, <6>1 DEF RepeatedAt
        <5>2. CASE g # h
          <6>1. pc'[g] \notin Active
            BY <1>3, <2>1, <5>0, <5>2
          <6> QED
            BY <6>1 DEF RepeatedAt, Active
        <5> QED
          BY <5>1, <5>2
      <4> QED
        BY <4>1
    <3>5. UserOf(m'.lastBody) <= cli'.user /\ UserOf(disk'.lastBody) <= cli'.user
      <4>1. UserOf(disk.lastBody) \in Nat /\ UserOf(disk.lastBody) <= cli.user
        BY <1>3, <3>1, UserRange DEF Repeated, Saved
      <4> QED
        BY <1>1, <1>4, <1>6, <1>7, <2>3, <3>1, <4>1
    <3>6. \A u \in interrupted : 0 < u /\ u <= lastSent
      BY <3>1 DEF Repeated
    <3>7. lastSent' <= UserOf(m'.lastBody) /\ (lastSent' > 0 => m'.session # NoThread)
      BY <1>1, <1>3, <1>4, <2>3, <2>4, <3>2
    <3>8. ~disk.retired => /\ lastSent <= UserOf(disk.lastBody)
                           /\ lastSent > 0 => disk.session # NoThread
      BY <3>1 DEF Repeated
    <3>9. lastSent \in interrupted => UserOf(m'.lastBody) > lastSent
      BY <2>3, <3>3
    <3> QED
      BY <1>1, <3>4, <3>5, <3>6, <3>7, <3>8, <3>9 DEF Repeated
  <2> QED
    BY <2>8, <2>9, <2>10, <2>11 DEF IInv
<1> QED
  BY <1>8, <1>9

LEMMA PrepareStep ==
  ASSUME IInv, NEW h \in Handlers, Prepare(h)
  PROVE  IInv'
<1> DEFINE c     == cred[cur.selected]
           owner == IF c = m.previousCredential THEN m.previousSlot ELSE NoSlot
           o     == IF ~Portable /\ cur.reasoning # {} THEN m.previousCredential
                    ELSE IF Portable THEN c ELSE NoCred
           all   == cur.compacted \cup (IF Portable THEN {} ELSE cur.reasoning)
<1>1. /\ normalizes(cur.body, cur.reasoning, cur.compacted, Portable, cur.selected, owner, c)
      /\ Goto(h, "storing", [cur EXCEPT !.turnOwner = o, !.opaque = all])
      /\ all = cur.compacted \cup (IF Portable THEN {} ELSE cur.reasoning)
      /\ owner # NoSlot => c = m.previousCredential
      /\ ~Portable /\ cur.reasoning # {} => o = m.previousCredential
      /\ all \in SUBSET Creds /\ o \in Creds \cup {NoCred}
  <2>1. pc[h] \in Active
    BY DEF Prepare, Active
  <2>2. m.previousCredential \in Creds \cup {NoCred} /\ c \in Creds
    BY <2>1, Running DEF Memory, IInv, TypeOK
  <2>3. cur.compacted \in SUBSET Creds /\ cur.reasoning \in SUBSET Creds
    BY <2>1, Running DEF Request
  <2>4. /\ normalizes(cur.body, cur.reasoning, cur.compacted, Portable, cur.selected, owner, c)
        /\ Goto(h, "storing", [cur EXCEPT !.turnOwner = o, !.opaque = all])
    BY DEF Prepare
  <2>5. all \in SUBSET Creds
    BY <2>3
  <2> HIDE DEF c
  <2>6. o \in Creds \cup {NoCred}
    BY <2>2
  <2> QED
    BY <2>4, <2>5, <2>6
<1> HIDE DEF c, owner, o, all
<1> DEFINE r == [cur EXCEPT !.turnOwner = o, !.opaque = all]
<1>2. /\ pc[h] = "preparing" /\ UNCHANGED quota /\ UNCHANGED client /\ cli' = cli /\ cur' = r
      /\ UNCHANGED <<Elsewhere, disk, ui, interrupted, lastSent>> /\ alive' = alive
      /\ (m' = m \/ m' = [m EXCEPT !.opaqueSlot = NoSlot])
      /\ pc' = [pc EXCEPT ![h] = "storing"]
  BY <1>1 DEF Prepare, Elsewhere, Goto, client
<1>3. pc[h] \in Active /\ "storing" \in Active
  BY <1>2 DEF Active
<1>4. /\ cur \in Request /\ cur.selected \in Slots /\ m \in Memory /\ disk \in Saved
      /\ SelectedAt("preparing") /\ CheckpointedAt("preparing")
      /\ alive /\ m.busy /\ m.lease /\ m.session # NoThread /\ m.chosen
      /\ \A g \in Handlers : g # h => pc[g] \notin Active
  BY <1>2, <1>3, Running
<1>5. TypeView' /\ TypeQuota' /\ TypeClient'
  BY <1>2, TypeParts DEF IInv
<1>6. /\ r \in Request /\ r.tried = cur.tried /\ r.attempts = cur.attempts /\ r.body = cur.body
      /\ r.selected = cur.selected /\ r.turnOwner = o /\ r.opaque = all /\ r.compacted = cur.compacted
  BY <1>1, <1>4 DEF Request
<1> HIDE DEF r
<1>7. /\ m' \in Memory /\ m'.busy = m.busy /\ m'.lease = m.lease /\ m'.waiting = m.waiting
      /\ m'.prepared = m.prepared /\ m'.closing = m.closing /\ m'.retired = m.retired
      /\ m'.session = m.session /\ m'.slot = m.slot /\ m'.chosen = m.chosen
      /\ m'.lastBody = m.lastBody
  <2>1. CASE m' = m
    BY <1>4, <2>1
  <2>2. CASE m' = [m EXCEPT !.opaqueSlot = NoSlot]
    BY <1>4, <2>2 DEF Memory
  <2> QED
    BY <1>2, <2>1, <2>2
<1>8. /\ m'.compactOwners = m.compactOwners /\ m'.reasoning = m.reasoning
      /\ m'.turnPending = m.turnPending /\ m'.opaqueSlot \in {m.opaqueSlot, NoSlot}
      /\ m'.recoveryRequired = m.recoveryRequired /\ m'.failed = m.failed
  BY <1>2, <1>4 DEF Memory
<1>9. \A k \in all : k \in cur.compacted \/ (k = o /\ k # NoCred)
  <2>1. ASSUME NEW k \in cur.reasoning, ~Portable PROVE k = o /\ k # NoCred
    <3>1. owner = cur.selected /\ reasoningPermits(k, c) /\ o = m.previousCredential
      BY <1>1, <2>1 DEF normalizes
    <3>2. owner # NoSlot
      BY <1>4, <3>1, QuotaAssumption DEF NoSlot
    <3>3. c = m.previousCredential
      BY <1>1, <3>2
    <3> QED
      BY <3>1, <3>3 DEF reasoningPermits, IInv, Owned
  <2> QED
    BY <1>1, <2>1
<1>10. UserOf(cur.body) > 0
  <2>1. UserOf(cur.body) # 0
    BY <1>1 DEF normalizes
  <2> QED
    BY <1>4, <2>1, UserRange DEF Request
<1>11. (SelectedAt("storing") /\ OwnedAt("storing"))'
  BY <1>2, <1>4, <1>6, <1>9 DEF SelectedAt, OwnedAt, Upstream
<1>12. CheckpointedAt("storing")'
  BY <1>2, <1>4, <1>6, <1>7, <1>10 DEF CheckpointedAt, Sending
<1>13. TypeOK' /\ Quiescent' /\ AdmissionExclusive' /\ Leased' /\ Bound' /\ InFlight' /\ Shown'
  <2>1. Goto(h, "storing", r)
    BY <1>1 DEF r
  <2> QED
    BY <1>2, <1>3, <1>4, <1>5, <1>6, <1>7, <1>11, <1>12, <2>1, MovedKeeps
<1>14. Pinned'
  BY <1>2, <1>4, <1>7, <1>8 DEF IInv, Pinned, OpaquePinned
<1>15. Owned'
  BY <1>2, <1>8 DEF IInv, Owned
<1>16. Attempted'
  BY <1>2, <1>6, <1>8 DEF IInv, Attempted, AttemptOnce
<1>17. Guarded'
  <2>1. ASSUME Repeated
        PROVE  /\ RepeatedAt("storing")'
               /\ lastSent \in interrupted =>
                          m'.failed \/ m'.recoveryRequired \/ UserOf(m.lastBody) > lastSent
    BY <1>2, <1>4, <1>6, <1>8, <2>1 DEF Repeated, RepeatedAt
  <2>2. Agrees
    BY <1>2 DEF Agrees
  <2> QED
    BY <1>2, <1>3, <1>5, <1>7, <2>1, <2>2, MovedGuarded
<1> QED
  BY <1>13, <1>14, <1>15, <1>16, <1>17 DEF IInv

LEMMA PrepareFailsStep ==
  ASSUME IInv, NEW h \in Handlers, PrepareFails(h)
  PROVE  IInv'
<1>1. /\ pc[h] = "preparing" /\ UNCHANGED quota /\ UNCHANGED client /\ cli' = cli /\ cur' = cur
      /\ UNCHANGED <<Elsewhere, disk, ui, interrupted, lastSent>> /\ alive' = alive
      /\ m' = [m EXCEPT !.failed = TRUE] /\ pc' = [pc EXCEPT ![h] = "finishing"]
      /\ Goto(h, "finishing", cur)
  BY DEF PrepareFails, Elsewhere, Goto, client
<1>2. pc[h] \in Active /\ "finishing" \in Active
  BY <1>1 DEF Active
<1>3. /\ cur \in Request /\ cur.selected \in Slots /\ m \in Memory /\ disk \in Saved
      /\ alive /\ m.busy /\ m.lease
  BY <1>1, <1>2, Running
<1>4. TypeView' /\ TypeQuota' /\ TypeClient'
  BY <1>1, TypeParts DEF IInv
<1>5. /\ m' \in Memory /\ m'.busy = m.busy /\ m'.lease = m.lease /\ m'.waiting = m.waiting
      /\ m'.prepared = m.prepared /\ m'.closing = m.closing /\ m'.retired = m.retired
      /\ m'.session = m.session /\ m'.lastBody = m.lastBody /\ m'.failed
  BY <1>1, <1>3 DEF Memory
<1>6. /\ m'.compactOwners = m.compactOwners /\ m'.reasoning = m.reasoning /\ m'.slot = m.slot
      /\ m'.turnPending = m.turnPending /\ m'.opaqueSlot = m.opaqueSlot /\ m'.aux = m.aux
      /\ m'.chosen = m.chosen
  BY <1>1, <1>3 DEF Memory
<1>7. (SelectedAt("finishing") /\ OwnedAt("finishing") /\ CheckpointedAt("finishing"))'
  BY <1>1, <1>3 DEF SelectedAt, OwnedAt, CheckpointedAt, Upstream, Sending
<1>8. TypeOK' /\ Quiescent' /\ AdmissionExclusive' /\ Leased' /\ Bound' /\ InFlight' /\ Shown'
  BY <1>1, <1>2, <1>3, <1>4, <1>5, <1>7, MovedKeeps
<1>9. Pinned' /\ Owned'
  BY <1>1, <1>5, <1>6 DEF IInv, Pinned, OpaquePinned, Owned
<1>10. Attempted'
  BY <1>1, <1>6 DEF IInv, Attempted, AttemptOnce
<1>11. Guarded'
  <2>1. Agrees /\ RepeatedAt("finishing")'
    BY <1>1 DEF Agrees, RepeatedAt
  <2> QED
    BY <1>1, <1>2, <1>4, <1>5, <2>1, MovedGuarded
<1> QED
  BY <1>8, <1>9, <1>10, <1>11 DEF IInv

LEMMA StoreStep ==
  ASSUME IInv, NEW h \in Handlers, Store(h)
  PROVE  IInv'
<1>1. PICK x : x = [m EXCEPT !.recoveryRequired = FALSE]
  OBVIOUS
<1>2. PICK place \in {"finishing", "dispatching"} :
        /\ Goto(h, place, cur) /\ cur' = cur /\ pc' = [pc EXCEPT ![h] = place]
        /\ place = "dispatching" => ~m'.checkpointErr
        /\ place = "finishing" => m'.checkpointErr
  BY DEF Store, Goto
<1>3. /\ pc[h] = "storing" /\ UNCHANGED quota /\ UNCHANGED client /\ cli' = cli
      /\ UNCHANGED <<Elsewhere, ui, interrupted, lastSent>> /\ alive' = alive /\ persist(x)
  BY <1>1 DEF Store, Elsewhere, client
<1>4. pc[h] \in Active /\ place \in Active
  BY <1>2, <1>3 DEF Active
<1>5. /\ cur \in Request /\ cur.selected \in Slots /\ m \in Memory /\ disk \in Saved
      /\ SelectedAt("storing") /\ OwnedAt("storing") /\ CheckpointedAt("storing")
      /\ alive /\ m.busy /\ m.lease /\ ~m.retired /\ m.chosen
  BY <1>3, <1>4, Running
<1>6. /\ x \in Memory /\ x.busy = m.busy /\ x.lease = m.lease /\ x.waiting = m.waiting
      /\ x.prepared = m.prepared /\ x.closing = m.closing /\ x.retired = m.retired
      /\ x.session = m.session /\ x.slot = m.slot /\ x.lastBody = m.lastBody
      /\ x.compactOwners = m.compactOwners /\ x.reasoning = m.reasoning
      /\ x.turnPending = m.turnPending /\ x.opaqueSlot = m.opaqueSlot /\ x.chosen = m.chosen
  BY <1>1, <1>5 DEF Memory
<1>7. Stored(x) /\ m'.lease = x.lease
  BY <1>3, <1>6, PersistEffect
<1>8. Agrees /\ disk' \in Saved
  BY <1>5, <1>7, StoredAgrees
<1>9. /\ m' \in Memory /\ m'.busy = m.busy /\ m'.lease = m.lease /\ m'.waiting = m.waiting
      /\ m'.prepared = m.prepared /\ m'.closing = m.closing /\ m'.retired = m.retired
      /\ m'.session = m.session /\ m'.slot = m.slot /\ m'.lastBody = m.lastBody
      /\ m'.compactOwners = m.compactOwners /\ m'.reasoning = m.reasoning
      /\ m'.turnPending = m.turnPending /\ m'.opaqueSlot = m.opaqueSlot /\ m'.chosen = m.chosen
  BY <1>6, <1>7 DEF Stored, Alike
<1>10. TypeView' /\ TypeQuota' /\ TypeClient'
  BY <1>3, TypeParts DEF IInv
<1>11. (SelectedAt(place) /\ OwnedAt(place))'
  BY <1>2, <1>5 DEF SelectedAt, OwnedAt, Upstream
<1>12. CheckpointedAt(place)'
  <2>1. place = "dispatching" =>
          /\ disk'.busy /\ ~disk'.retired /\ disk'.lastBody = m.lastBody
          /\ disk'.slot = m.slot /\ disk'.session = m.session
    BY <1>2, <1>5, <1>6, <1>7, ImageFields, ZenonT(60) DEF Stored
  <2> QED
    BY <1>2, <1>5, <1>9, <2>1 DEF CheckpointedAt, Sending
<1>13. TypeOK' /\ Quiescent' /\ AdmissionExclusive' /\ Leased' /\ Bound' /\ InFlight' /\ Shown'
  BY <1>2, <1>3, <1>4, <1>5, <1>8, <1>9, <1>10, <1>11, <1>12, MovedKeeps
<1>14. Pinned'
  BY <1>5, <1>8, <1>9, PinnedKept DEF IInv, Pinned, OpaquePinned
<1>15. Owned'
  BY <1>8, <1>9, OwnedKept DEF IInv, Owned
<1>16. Attempted'
  BY <1>2, <1>3, <1>9 DEF IInv, Attempted, AttemptOnce
<1>17. Guarded'
  <2>1. ASSUME Repeated
        PROVE  RepeatedAt(place)' /\ (lastSent \in interrupted => UserOf(m.lastBody) > lastSent)
    <3>1. lastSent \in interrupted => UserOf(cur.body) > lastSent
      BY <1>3, <2>1 DEF Repeated, RepeatedAt
    <3>2. m.lastBody = cur.body
      BY <1>5 DEF CheckpointedAt
    <3> QED
      BY <1>2, <1>3, <3>1, <3>2 DEF RepeatedAt
  <2> QED
    BY <1>2, <1>3, <1>4, <1>8, <1>9, <1>10, <2>1, MovedGuarded
<1> QED
  BY <1>13, <1>14, <1>15, <1>16, <1>17 DEF IInv

LEMMA TerminalStep ==
  ASSUME IInv, NEW h \in Handlers, Terminal(h)
  PROVE  IInv'
<1>1. PICK x : x = [m EXCEPT !.terminalReady = TRUE]
  OBVIOUS
<1>2. /\ pc[h] = "upstream" /\ UNCHANGED quota /\ Streamed
      /\ Goto(h, "terminal", cur) /\ cur' = cur /\ pc' = [pc EXCEPT ![h] = "terminal"]
      /\ UNCHANGED <<Elsewhere, ui, interrupted, lastSent>> /\ alive' = alive /\ state(x)
  BY <1>1 DEF Terminal, Elsewhere, Goto
<1>3. pc[h] \in Active /\ "terminal" \in Active
  BY <1>2 DEF Active
<1>4. /\ cur \in Request /\ cur.selected \in Slots /\ m \in Memory /\ disk \in Saved
      /\ SelectedAt("upstream") /\ OwnedAt("upstream") /\ CheckpointedAt("upstream")
      /\ alive /\ m.busy /\ m.lease /\ ~m.retired /\ m.chosen
  BY <1>2, <1>3, Running
<1>5. /\ x \in Memory /\ x.busy = m.busy /\ x.lease = m.lease /\ x.waiting = m.waiting
      /\ x.prepared = m.prepared /\ x.closing = m.closing /\ x.retired = m.retired
      /\ x.session = m.session /\ x.slot = m.slot /\ x.lastBody = m.lastBody
      /\ x.compactOwners = m.compactOwners /\ x.reasoning = m.reasoning
      /\ x.turnPending = m.turnPending /\ x.opaqueSlot = m.opaqueSlot /\ x.chosen = m.chosen
  BY <1>1, <1>4 DEF Memory
<1>6. Stored(x) /\ m'.lease
  BY <1>2, <1>4, <1>5, StateEffect
<1>7. Agrees /\ disk' \in Saved
  BY <1>4, <1>6, StoredAgrees
<1>8. /\ m' \in Memory /\ m'.busy = m.busy /\ m'.waiting = m.waiting
      /\ m'.prepared = m.prepared /\ m'.closing = m.closing /\ m'.retired = m.retired
      /\ m'.session = m.session /\ m'.slot = m.slot /\ m'.lastBody = m.lastBody
      /\ m'.compactOwners = m.compactOwners /\ m'.reasoning = m.reasoning
      /\ m'.turnPending = m.turnPending /\ m'.opaqueSlot = m.opaqueSlot /\ m'.chosen = m.chosen
  BY <1>5, <1>6 DEF Stored, Alike
<1>9. TypeView' /\ TypeQuota' /\ TypeClient' /\ cli'.user = cli.user
  <2>1. cur.credential \in Creds
    BY <1>4 DEF SelectedAt, Upstream
  <2> QED
    BY <1>2, <2>1, TypeParts DEF IInv, TypeClient, Streamed
<1>10. (SelectedAt("terminal") /\ OwnedAt("terminal"))'
  BY <1>2, <1>4 DEF SelectedAt, OwnedAt, Upstream
<1>11. CheckpointedAt("terminal")'
  <2>1. /\ disk.busy /\ ~disk.retired /\ disk.lastBody = m.lastBody
        /\ disk.slot = m.slot /\ disk.session = m.session
    BY <1>4 DEF CheckpointedAt, Sending
  <2>2. /\ disk'.busy /\ ~disk'.retired /\ disk'.lastBody = m.lastBody
        /\ disk'.slot = m.slot /\ disk'.session = m.session
    BY <1>4, <1>5, <1>6, <2>1, NamedStill
  <2> QED
    BY <1>2, <1>4, <1>8, <2>2 DEF CheckpointedAt, Sending
<1>12. TypeOK' /\ Quiescent' /\ AdmissionExclusive' /\ Leased' /\ Bound' /\ InFlight' /\ Shown'
  BY <1>2, <1>3, <1>4, <1>6, <1>7, <1>8, <1>9, <1>10, <1>11, MovedKeeps
<1>13. Pinned'
  BY <1>4, <1>7, <1>8, PinnedKept DEF IInv, Pinned, OpaquePinned
<1>14. Owned'
  BY <1>7, <1>8, OwnedKept DEF IInv, Owned
<1>15. Attempted'
  BY <1>2, <1>8 DEF IInv, Attempted, AttemptOnce
<1>16. Guarded'
  <2>1. ASSUME Repeated PROVE RepeatedAt("terminal")' /\ lastSent \notin interrupted
    BY <1>2, <2>1 DEF Repeated, RepeatedAt
  <2> QED
    BY <1>2, <1>3, <1>7, <1>8, <1>9, <2>1, MovedGuarded
<1> QED
  BY <1>12, <1>13, <1>14, <1>15, <1>16 DEF IInv

LEMMA Reasons ==
  ASSUME IInv, NEW c \in Creds
  PROVE  /\ reasoningAccept(c, c) \in [credential : Creds \cup {NoCred}, boundary : 0..MaxUser,
                                       keys : SUBSET Creds]
         /\ reasoningAccept(c, c).keys \subseteq {reasoningAccept(c, c).credential}
<1> DEFINE u    == UserOf(m.lastBody)
           same == m.reasoning.credential = c /\ m.reasoning.boundary = u
           keys == {c} \cup IF same THEN m.reasoning.keys ELSE {}
<1>1. u \in 0..MaxUser
  BY UserRange DEF IInv, TypeOK, Memory
<1>2. keys \subseteq {c}
  BY DEF IInv, Owned
<1>3. reasoningAccept(c, c) = [credential |-> c, boundary |-> u, keys |-> keys]
  BY DEF reasoningAccept
<1> HIDE DEF u, keys
<1> QED
  BY <1>1, <1>2, <1>3

LEMMA validateCompactStep ==
  ASSUME IInv, NEW h \in Handlers, validateCompact(h)
  PROVE  IInv'
<1> DEFINE own == compactAccept(cur.credential, m.slot, cur.credential)
           rea == reasoningAccept(cur.credential, cur.credential)
<1>1. PICK x : x = [m EXCEPT !.compactOwners = own, !.reasoning = rea, !.opaqueSlot = m.slot]
  OBVIOUS
<1>2. PICK r \in {"error", "final"} :
        /\ Goto(h, "answered", [cur EXCEPT !.result = r]) /\ cur' = [cur EXCEPT !.result = r]
        /\ r = (IF m'.checkpointErr THEN "error" ELSE "final")
  BY DEF validateCompact, Goto
<1>3. /\ pc[h] = "upstream" /\ UNCHANGED quota /\ pc' = [pc EXCEPT ![h] = "answered"]
      /\ UNCHANGED <<Elsewhere, ui, interrupted, lastSent>> /\ alive' = alive /\ persist(x)
      /\ cli' = cli \/ cli' = [cli EXCEPT !.compacted = @ \cup {cur.credential}]
  BY <1>1 DEF validateCompact, Elsewhere, Goto
<1>4. pc[h] \in Active /\ "answered" \in Active
  BY <1>3 DEF Active
<1>5. /\ cur \in Request /\ cur.selected \in Slots /\ m \in Memory /\ disk \in Saved
      /\ SelectedAt("upstream")
      /\ alive /\ m.busy /\ m.lease /\ ~m.retired /\ m.chosen
  BY <1>3, <1>4, Running
<1>6. cur.credential \in Creds /\ cur.attempts > 0 /\ m.slot \in Slots
  BY <1>5 DEF SelectedAt, Upstream, Memory
<1>7. own \in SUBSET Owner /\ \A o \in own : o.key = o.credential
  <2>1. m.compactOwners \in SUBSET Owner /\ \A o \in m.compactOwners : o.key = o.credential
    BY <1>5 DEF IInv, Owned, Memory
  <2>2. PICK o : o = [key |-> cur.credential, slot |-> m.slot, credential |-> cur.credential]
    OBVIOUS
  <2>3. o \in Owner /\ o.key = o.credential
    BY <1>6, <2>2 DEF Owner
  <2>4. own = m.compactOwners \cup {o}
    BY <2>2 DEF compactAccept
  <2> HIDE DEF own
  <2> QED
    BY <2>1, <2>3, <2>4
<1>8. /\ rea \in [credential : Creds \cup {NoCred}, boundary : 0..MaxUser, keys : SUBSET Creds]
      /\ rea.keys \subseteq {rea.credential}
  BY <1>6, Reasons
<1> HIDE DEF own, rea
<1>9. /\ x \in Memory /\ x.busy = m.busy /\ x.lease = m.lease /\ x.waiting = m.waiting
      /\ x.prepared = m.prepared /\ x.closing = m.closing /\ x.retired = m.retired
      /\ x.session = m.session /\ x.slot = m.slot /\ x.lastBody = m.lastBody
      /\ x.turnPending = m.turnPending /\ x.chosen = m.chosen
  BY <1>1, <1>5, <1>6, <1>7, <1>8 DEF Memory
<1>10. x.compactOwners = own /\ x.reasoning = rea /\ x.opaqueSlot = m.slot
  BY <1>1, <1>5 DEF Memory
<1>11. Stored(x) /\ m'.lease = x.lease
  BY <1>3, <1>9, PersistEffect
<1>12. Agrees /\ disk' \in Saved
  BY <1>5, <1>11, StoredAgrees
<1>13. /\ m' \in Memory /\ m'.busy = m.busy /\ m'.lease = m.lease /\ m'.waiting = m.waiting
       /\ m'.prepared = m.prepared /\ m'.closing = m.closing /\ m'.retired = m.retired
       /\ m'.session = m.session /\ m'.slot = m.slot /\ m'.lastBody = m.lastBody
       /\ m'.turnPending = m.turnPending /\ m'.chosen = m.chosen
       /\ m'.compactOwners = own /\ m'.reasoning = rea /\ m'.opaqueSlot = m.slot
  BY <1>9, <1>10, <1>11 DEF Stored, Alike
<1>14. TypeView' /\ TypeQuota' /\ TypeClient' /\ cli'.user = cli.user
  BY <1>3, <1>6, TypeParts DEF IInv, TypeClient
<1> DEFINE c == [cur EXCEPT !.result = r]
<1>15. /\ c \in Request /\ c.tried = cur.tried /\ c.attempts = cur.attempts
       /\ c.selected = cur.selected /\ c.credential = cur.credential
  BY <1>2, <1>5 DEF Request
<1>16. Goto(h, "answered", c) /\ cur' = c
  BY <1>2
<1> HIDE DEF c
<1>17. (SelectedAt("answered") /\ OwnedAt("answered") /\ CheckpointedAt("answered"))'
  BY <1>5, <1>6, <1>15, <1>16 DEF SelectedAt, OwnedAt, CheckpointedAt, Upstream, Sending
<1>18. TypeOK' /\ Quiescent' /\ AdmissionExclusive' /\ Leased' /\ Bound' /\ InFlight' /\ Shown'
  BY <1>3, <1>4, <1>5, <1>12, <1>13, <1>14, <1>15, <1>16, <1>17, MovedKeeps
<1>19. Pinned'
  BY <1>5, <1>12, <1>13, PinnedKept DEF IInv
<1>20. Owned'
  BY <1>7, <1>8, <1>12, <1>13, OwnedKept DEF IInv
<1>21. Attempted'
  BY <1>3, <1>13, <1>15, <1>16 DEF IInv, Attempted, AttemptOnce
<1>22. Guarded'
  <2>1. ASSUME Repeated PROVE RepeatedAt("answered")' /\ lastSent \notin interrupted
    BY <1>3, <2>1 DEF Repeated, RepeatedAt
  <2> QED
    BY <1>3, <1>4, <1>12, <1>13, <1>14, <2>1, MovedGuarded
<1> QED
  BY <1>18, <1>19, <1>20, <1>21, <1>22 DEF IInv

LEMMA SwitchStep ==
  ASSUME IInv, NEW h \in Handlers, Switch(h)
  PROVE  IInv'
<1> DEFINE u == UserOf(m.lastBody)
           w == cred[cur.next]
<1>1. PICK x : x = [m EXCEPT !.slot = cur.next, !.chosen = TRUE, !.portableBoundary = u]
  OBVIOUS
<1>2. PICK place \in {"answered", "dispatching"}, r \in {"error", "none"} :
        /\ Goto(h, place, [cur EXCEPT !.selected = cur.next, !.next = NoSlot, !.compacted = {},
                             !.opaque = {}, !.credential = NoCred, !.turnOwner = w, !.result = r])
        /\ place = "dispatching" => ~m'.checkpointErr
        /\ place = "answered" => r = "error"
  BY DEF Switch
<1> DEFINE c == [cur EXCEPT !.selected = cur.next, !.next = NoSlot, !.compacted = {},
                            !.opaque = {}, !.credential = NoCred, !.turnOwner = w, !.result = r]
<1>3. /\ pc[h] = "switching" /\ UNCHANGED quota /\ UNCHANGED client /\ cli' = cli
      /\ Goto(h, place, c) /\ cur' = c /\ pc' = [pc EXCEPT ![h] = place] /\ revise
      /\ UNCHANGED <<Elsewhere, interrupted, lastSent>> /\ alive' = alive /\ state(x)
  BY <1>1, <1>2 DEF Switch, Elsewhere, Goto, client
<1>4. pc[h] \in Active /\ place \in Active
  BY <1>2, <1>3 DEF Active
<1>5. /\ cur \in Request /\ cur.selected \in Slots /\ m \in Memory /\ disk \in Saved
      /\ SelectedAt("switching") /\ OwnedAt("switching") /\ CheckpointedAt("switching")
      /\ alive /\ m.busy /\ m.lease /\ ~m.retired /\ m.chosen
  BY <1>3, <1>4, Running
<1>6. /\ cur.next \in Slots /\ cur.next \notin cur.tried /\ m.opaqueSlot = NoSlot
      /\ w \in Creds /\ u \in 0..MaxUser
  BY <1>5, UserRange DEF SelectedAt, OwnedAt, IInv, TypeOK, Memory
<1>7. m.lastBody = cur.body /\ UserOf(cur.body) > 0
  BY <1>5 DEF CheckpointedAt, Sending
<1> HIDE DEF u, w
<1>8. /\ c \in Request /\ c.tried = cur.tried /\ c.attempts = cur.attempts /\ c.body = cur.body
      /\ c.selected = cur.next /\ c.opaque = {} /\ c.result = r
  BY <1>2, <1>5, <1>6 DEF Request
<1> HIDE DEF c
<1>9. /\ x \in Memory /\ x.busy = m.busy /\ x.lease = m.lease /\ x.waiting = m.waiting
      /\ x.prepared = m.prepared /\ x.closing = m.closing /\ x.retired = m.retired
      /\ x.session = m.session /\ x.slot = cur.next /\ x.lastBody = m.lastBody
      /\ x.compactOwners = m.compactOwners /\ x.reasoning = m.reasoning
      /\ x.turnPending = m.turnPending /\ x.opaqueSlot = m.opaqueSlot /\ x.chosen
  BY <1>1, <1>5, <1>6, ZenonT(60) DEF Memory
<1>10. Stored(x) /\ m'.lease
  BY <1>3, <1>5, <1>9, StateEffect
<1>11. Agrees /\ disk' \in Saved
  BY <1>5, <1>10, StoredAgrees
<1>12. /\ m' \in Memory /\ m'.busy = m.busy /\ m'.waiting = m.waiting
       /\ m'.prepared = m.prepared /\ m'.closing = m.closing /\ m'.retired = m.retired
       /\ m'.session = m.session /\ m'.slot = cur.next /\ m'.lastBody = m.lastBody
       /\ m'.compactOwners = m.compactOwners /\ m'.reasoning = m.reasoning
       /\ m'.turnPending = m.turnPending /\ m'.opaqueSlot = m.opaqueSlot /\ m'.chosen
  BY <1>9, <1>10 DEF Stored, Alike
<1>13. TypeView' /\ TypeQuota' /\ TypeClient'
  BY <1>3, TypeParts DEF IInv
<1>14. (SelectedAt(place) /\ OwnedAt(place))'
  BY <1>2, <1>3, <1>5, <1>6, <1>8 DEF SelectedAt, OwnedAt, Upstream
<1>15. CheckpointedAt(place)'
  <2>1. place = "dispatching" =>
          /\ disk'.busy /\ ~disk'.retired /\ disk'.lastBody = m.lastBody
          /\ disk'.slot = cur.next /\ disk'.session = m.session
    BY <1>2, <1>5, <1>9, <1>10, ImageFields, ZenonT(60) DEF Stored
  <2> QED
    BY <1>2, <1>3, <1>7, <1>8, <1>12, <2>1 DEF CheckpointedAt, Sending
<1>16. TypeOK' /\ Quiescent' /\ AdmissionExclusive' /\ Leased' /\ Bound' /\ InFlight' /\ Shown'
  BY <1>3, <1>4, <1>5, <1>8, <1>10, <1>11, <1>12, <1>13, <1>14, <1>15, MovedKeeps
<1>17. Pinned'
  BY <1>5, <1>6, <1>11, <1>12, PinnedKept DEF IInv
<1>18. Owned'
  BY <1>11, <1>12, OwnedKept DEF IInv, Owned
<1>19. Attempted'
  BY <1>3, <1>8, <1>12 DEF IInv, Attempted, AttemptOnce
<1>20. Guarded'
  <2>1. ASSUME Repeated PROVE RepeatedAt(place)' /\ lastSent \notin interrupted
    BY <1>2, <1>3, <2>1 DEF Repeated, RepeatedAt
  <2> QED
    BY <1>3, <1>4, <1>11, <1>12, <1>13, <2>1, MovedGuarded
<1> QED
  BY <1>16, <1>17, <1>18, <1>19, <1>20 DEF IInv

LEMMA ConcludeStep ==
  ASSUME IInv, NEW h \in Handlers, Conclude(h)
  PROVE  IInv'
<1> DEFINE success == cur.result \in {"final", "pending"}
           tp  == IF cur.compact THEN m.turnPending ELSE cur.result = "pending"
           ps  == IF success THEN cur.selected ELSE m.previousSlot
           pcr == IF success THEN cur.credential ELSE m.previousCredential
           rea == IF success /\ ~cur.compact THEN reasoningAccept(cur.credential, cur.credential)
                  ELSE m.reasoning
<1>a. pc[h] = "answered" /\ pc[h] \in Active /\ "finishing" \in Active /\ "releasing" \in Active
  BY DEF Conclude, Active
<1>b. /\ cur \in Request /\ cur.selected \in Slots /\ m \in Memory /\ disk \in Saved
      /\ SelectedAt("answered") /\ alive /\ m.busy /\ m.lease /\ ~m.retired /\ m.chosen
  BY <1>a, Running
<1>c. success => cur.credential \in Creds /\ cur.attempts > 0
  BY <1>b DEF SelectedAt
<1>1. PICK fl \in BOOLEAN, p \in BOOLEAN : fl = ~success /\ p = tp
  <2>1. m.turnPending \in BOOLEAN
    BY <1>b DEF Memory
  <2>2. tp \in BOOLEAN /\ (~success) \in BOOLEAN
    BY <2>1, Zenon
  <2> QED
    BY <2>2, Zenon
<1>2. PICK x : x = [m EXCEPT !.failed = fl, !.turnPending = p, !.previousSlot = ps,
                             !.previousCredential = pcr, !.reasoning = rea]
  OBVIOUS
<1>3. persist(x)
  BY <1>1, <1>2 DEF Conclude
<1>4. PICK done \in BOOLEAN, place \in {"releasing", "finishing"} :
        /\ Goto(h, place, [cur EXCEPT !.completed = done])
        /\ place = "releasing" => success
  <2>1. (success /\ ~m'.checkpointErr) \in BOOLEAN
    OBVIOUS
  <2>2. PICK done \in BOOLEAN : done = (success /\ ~m'.checkpointErr)
    BY <2>1, Zenon
  <2> QED
    BY <2>2 DEF Conclude
<1> DEFINE c == [cur EXCEPT !.completed = done]
<1>5. /\ UNCHANGED quota /\ UNCHANGED client /\ cli' = cli /\ Goto(h, place, c) /\ cur' = c
      /\ UNCHANGED <<Elsewhere, ui, interrupted, lastSent>> /\ alive' = alive
      /\ pc' = [pc EXCEPT ![h] = place]
  BY <1>4 DEF Conclude, Elsewhere, client, Goto
<1>6. /\ c \in Request /\ c.tried = cur.tried /\ c.attempts = cur.attempts
      /\ c.selected = cur.selected
  BY <1>4, <1>b DEF Request
<1>7. /\ ps \in Slots \cup {NoSlot} /\ pcr \in Creds \cup {NoCred}
      /\ rea \in [credential : Creds \cup {NoCred}, boundary : 0..MaxUser, keys : SUBSET Creds]
      /\ rea.keys \subseteq {rea.credential}
  <2>1. m.reasoning.keys \subseteq {m.reasoning.credential}
    BY DEF IInv, Owned
  <2>2. CASE success /\ ~cur.compact
    BY <1>b, <1>c, <2>2, Reasons DEF Memory
  <2>3. CASE ~(success /\ ~cur.compact)
    BY <1>b, <1>c, <2>1, <2>3 DEF Memory
  <2> QED
    BY <2>2, <2>3
<1>8. p => lastSent > 0
  <2>1. m.turnPending \/ cur.attempts > 0 => lastSent > 0
    BY DEF IInv, Attempted
  <2> QED
    BY <1>1, <1>c, <2>1
<1>9. success \/ fl
  BY <1>1
<1> HIDE DEF success, tp, ps, pcr, rea, c
<1>10. /\ x \in Memory /\ x.busy = m.busy /\ x.lease = m.lease /\ x.waiting = m.waiting
       /\ x.prepared = m.prepared /\ x.closing = m.closing /\ x.retired = m.retired
       /\ x.session = m.session /\ x.slot = m.slot /\ x.lastBody = m.lastBody
       /\ x.compactOwners = m.compactOwners /\ x.reasoning = rea
       /\ x.turnPending = p /\ x.opaqueSlot = m.opaqueSlot /\ x.chosen = m.chosen /\ x.failed = fl
  <2>1. x \in Memory
    <3>1. PICK y : y = [m EXCEPT !.failed = fl, !.turnPending = p]
      OBVIOUS
    <3>2. y \in Memory
      <4>1. m \in Memory
        BY <1>b
      <4>2. [m EXCEPT !.failed = fl, !.turnPending = p] \in Memory
        BY <4>1, Zenon DEF Memory
      <4> QED
        BY <3>1, <4>2
    <3>3. x = [y EXCEPT !.previousSlot = ps, !.previousCredential = pcr, !.reasoning = rea]
      BY <1>2, <3>1
    <3> QED
      BY <1>7, <3>2, <3>3 DEF Memory
  <2>2. /\ x.busy = m.busy /\ x.lease = m.lease /\ x.waiting = m.waiting
        /\ x.prepared = m.prepared /\ x.closing = m.closing /\ x.retired = m.retired
        /\ x.session = m.session /\ x.slot = m.slot /\ x.lastBody = m.lastBody
        /\ x.compactOwners = m.compactOwners
    BY <1>2, <1>b DEF Memory
  <2>3. /\ x.reasoning = rea /\ x.turnPending = p /\ x.opaqueSlot = m.opaqueSlot
        /\ x.chosen = m.chosen /\ x.failed = fl
    BY <1>2, <1>b DEF Memory
  <2> QED
    BY <2>1, <2>2, <2>3
<1>11. Stored(x) /\ m'.lease = x.lease
  BY <1>3, <1>10, PersistEffect
<1>12. Agrees /\ disk' \in Saved
  BY <1>b, <1>11, StoredAgrees
<1>13. /\ m' \in Memory /\ m'.busy = m.busy /\ m'.lease = m.lease /\ m'.waiting = m.waiting
       /\ m'.prepared = m.prepared /\ m'.closing = m.closing /\ m'.retired = m.retired
       /\ m'.session = m.session /\ m'.slot = m.slot /\ m'.lastBody = m.lastBody
       /\ m'.compactOwners = m.compactOwners /\ m'.reasoning = rea
       /\ m'.turnPending = p /\ m'.opaqueSlot = m.opaqueSlot /\ m'.chosen = m.chosen
       /\ fl => m'.failed
  BY <1>10, <1>11 DEF Stored, Alike
<1>14. TypeView' /\ TypeQuota' /\ TypeClient'
  BY <1>5, TypeParts DEF IInv
<1>15. (SelectedAt(place) /\ OwnedAt(place) /\ CheckpointedAt(place))'
  BY <1>4, <1>5, <1>6, <1>b DEF SelectedAt, OwnedAt, CheckpointedAt, Upstream, Sending
<1>16. TypeOK' /\ Quiescent' /\ AdmissionExclusive' /\ Leased' /\ Bound' /\ InFlight' /\ Shown'
  BY <1>a, <1>b, <1>4, <1>5, <1>6, <1>12, <1>13, <1>14, <1>15, MovedKeeps
<1>17. Pinned'
  BY <1>b, <1>12, <1>13, PinnedKept DEF IInv, Pinned, OpaquePinned
<1>18. Owned'
  BY <1>7, <1>12, <1>13, OwnedKept DEF IInv, Owned
<1>19. Attempted'
  BY <1>5, <1>6, <1>8, <1>13 DEF IInv, Attempted, AttemptOnce
<1>20. Guarded'
  <2>1. ASSUME Repeated PROVE RepeatedAt(place)' /\ (lastSent \in interrupted => m'.failed)
    <3>1. success => lastSent \notin interrupted
      BY <1>a, <2>1 DEF Repeated, RepeatedAt, success
    <3> QED
      BY <1>4, <1>5, <1>9, <1>13, <3>1 DEF RepeatedAt
  <2> QED
    BY <1>a, <1>4, <1>5, <1>12, <1>13, <1>14, <2>1, MovedGuarded
<1> QED
  BY <1>16, <1>17, <1>18, <1>19, <1>20 DEF IInv

-----------------------------------------------------------------------------
(* Requests that come, wait, are admitted or return; commands.             *)

LEMMA Rested ==
  ASSUME \A g \in Handlers : pc'[g] \notin Active
  PROVE  InFlight' /\ \A g \in Handlers : RepeatedAt(pc[g])'
<1>1. ASSUME NEW g \in Handlers
      PROVE  (SelectedAt(pc[g]) /\ OwnedAt(pc[g]) /\ CheckpointedAt(pc[g]) /\ RepeatedAt(pc[g]))'
  <2>1. pc'[g] \notin Active
    OBVIOUS
  <2> QED
    BY <2>1 DEF SelectedAt, OwnedAt, CheckpointedAt, RepeatedAt, Active, Upstream, Sending
<1> QED
  BY <1>1 DEF InFlight

\* A step of a running process that sends nothing.
LEMMA GuardedKept ==
  ASSUME IInv, alive, Agrees, lastSent' = lastSent, cli' = cli,
         interrupted' = interrupted \/ (interrupted' = Cut /\ lastSent > 0),
         m'.lastBody = m.lastBody, m.session # NoThread => m'.session = m.session,
         Repeated => /\ \A g \in Handlers : RepeatedAt(pc[g])'
                     /\ lastSent \in interrupted' =>
                          m'.failed \/ m'.recoveryRequired \/ UserOf(m.lastBody) > lastSent
  PROVE  Guarded'
<1>1. SUFFICES ASSUME Repeated PROVE Repeated'
  BY DEF IInv, Guarded
<1>2. UserOf(m'.lastBody) <= cli'.user /\ UserOf(disk'.lastBody) <= cli'.user
  BY <1>1 DEF Repeated, Agrees
<1>3. lastSent' <= UserOf(m'.lastBody) /\ (lastSent' > 0 => m'.session # NoThread)
  BY <1>1 DEF Repeated
<1>4. ~disk'.retired => /\ lastSent' <= UserOf(disk'.lastBody)
                        /\ lastSent' > 0 => disk'.session # NoThread
  BY <1>1, <1>3 DEF Repeated, Agrees
<1>5. \A u \in interrupted' : 0 < u /\ u <= lastSent'
  <2>1. lastSent \in Nat
    BY DEF IInv, TypeOK
  <2> QED
    BY <1>1, <2>1 DEF Repeated, Cut
<1> QED
  BY <1>1, <1>2, <1>3, <1>4, <1>5 DEF Repeated

LEMMA FinishStep ==
  ASSUME IInv, NEW h \in Handlers, Finish(h)
  PROVE  IInv'
<1>1. PICK x : x = IF cur.completed THEN m ELSE [m EXCEPT !.failed = TRUE, !.turnPending = FALSE]
  OBVIOUS
<1>2. PICK y : y = [x EXCEPT !.busy = FALSE, !.terminalReady = FALSE]
  OBVIOUS
<1>3. /\ pc[h] = "finishing" /\ UNCHANGED quota /\ cli' = cli /\ lastSent' = lastSent /\ cur' = NoRequest
      /\ pc' = [g \in Handlers |-> IF g = h THEN "idle"
                                   ELSE IF pc[g] = "waiting" THEN "signalled" ELSE pc[g]]
      /\ head' = [head EXCEPT ![h] = NoHead] /\ revise /\ ui' = NoView
      /\ UNCHANGED <<alive, accountOp, cred, nextCred, restarts>> /\ state(y)
      /\ interrupted' = IF ~cur.completed /\ (cur.attempts > 0 \/ m.turnPending)
                        THEN Cut ELSE interrupted
  BY <1>1, <1>2 DEF Finish, world, revise
<1>4. pc[h] \in Active
  BY <1>3 DEF Active
<1>5. /\ m \in Memory /\ disk \in Saved /\ alive /\ m.busy /\ m.lease /\ ~m.prepared /\ ~m.retired
      /\ m.chosen /\ ~accountOp /\ \A g \in Handlers : g # h => pc[g] \notin Active
  BY <1>4, Running
<1>6. /\ x \in Memory /\ x.lease = m.lease /\ x.waiting = m.waiting
      /\ x.prepared = m.prepared /\ x.closing = m.closing /\ x.retired = m.retired
      /\ x.session = m.session /\ x.slot = m.slot /\ x.lastBody = m.lastBody
      /\ x.compactOwners = m.compactOwners /\ x.reasoning = m.reasoning
      /\ x.opaqueSlot = m.opaqueSlot /\ x.chosen = m.chosen
      /\ x.recoveryRequired = m.recoveryRequired
      /\ x.turnPending => m.turnPending
      /\ ~cur.completed => x.failed
      /\ m.failed => x.failed
  <2>1. CASE cur.completed
    BY <1>1, <1>5, <2>1
  <2>2. CASE ~cur.completed
    BY <1>1, <1>5, <2>2, ZenonT(60) DEF Memory
  <2> QED
    BY <2>1, <2>2
<1>7. /\ y \in Memory /\ y.lease = x.lease /\ y.waiting = x.waiting
      /\ y.prepared = x.prepared /\ y.closing = x.closing /\ y.retired = x.retired
      /\ y.session = x.session /\ y.slot = x.slot /\ y.lastBody = x.lastBody
      /\ y.compactOwners = x.compactOwners /\ y.reasoning = x.reasoning
      /\ y.opaqueSlot = x.opaqueSlot /\ y.chosen = x.chosen
      /\ y.recoveryRequired = x.recoveryRequired
      /\ y.turnPending = x.turnPending /\ y.failed = x.failed /\ ~y.busy
  BY <1>2, <1>6, ZenonT(60) DEF Memory
<1>8. Stored(y) /\ (m'.lease <=> y.lease /\ (y.busy \/ y.turnPending \/ AuxActive(y)))
  BY <1>3, <1>7, StateEffect
<1>9. Agrees /\ disk' \in Saved
  BY <1>5, <1>8, StoredAgrees
<1>10. /\ m' \in Memory /\ ~m'.busy /\ m'.waiting = m.waiting /\ m'.chosen = m.chosen
       /\ m'.prepared = m.prepared /\ m'.closing = m.closing /\ m'.retired = m.retired
       /\ m'.session = m.session /\ m'.slot = m.slot /\ m'.lastBody = m.lastBody
       /\ m'.compactOwners = m.compactOwners /\ m'.reasoning = m.reasoning
       /\ m'.opaqueSlot = m.opaqueSlot /\ m'.recoveryRequired = m.recoveryRequired
       /\ m'.turnPending => m.turnPending
       /\ ~cur.completed => m'.failed
       /\ m.failed => m'.failed
  BY <1>6, <1>7, <1>8 DEF Stored, Alike
<1>11. m'.turnPending \/ AuxActive(m') => m'.lease
  BY <1>5, <1>6, <1>7, <1>8 DEF Stored, Alike, AuxActive
<1>12. /\ pc' \in [Handlers -> Stages] /\ \A g \in Handlers : pc'[g] \notin Active
       /\ \A g \in Handlers : pc'[g] \in Waiting <=> pc[g] \in Waiting
       /\ \A g \in Handlers : pc'[g] # "idle" => pc[g] # "idle" /\ g # h
  <2>1. pc \in [Handlers -> Stages] /\ "idle" \in Stages /\ "signalled" \in Stages
    BY DEF IInv, TypeOK, Stages
  <2> QED
    BY <1>3, <1>5, <2>1 DEF Active, Waiting
<1>13. TypeOK'
  <2>1. TypeView' /\ TypeQuota' /\ TypeClient'
    BY <1>3, TypeParts DEF IInv, TypeClient, Cut
  <2>2. /\ head' \in [Handlers -> [thread : Threads \cup {NoThread}, compact : BOOLEAN]]
        /\ cur' \in Request
    BY <1>3, Literals DEF IInv, TypeOK
  <2> QED
    BY <1>3, <1>9, <1>10, <1>12, <2>1, <2>2 DEF IInv, TypeOK, TypeView, TypeQuota, TypeClient
<1>14. Quiescent' /\ Shown' /\ Leased'
  <2>1. ~ui'.current
    BY <1>3 DEF NoView
  <2> QED
    BY <1>3, <1>5, <1>10, <1>11, <2>1 DEF Quiescent, Shown, Leased
<1>15. AdmissionExclusive'
  <2>1. m'.waiting <=> \E g \in Handlers : pc'[g] \in Waiting
    BY <1>10, <1>12 DEF IInv, AdmissionExclusive, Waiting
  <2> QED
    BY <1>5, <1>10, <1>12, <2>1 DEF AdmissionExclusive, Waiting
<1>16. Bound'
  <2>1. \A g \in Handlers : g # h => head'[g] = head[g]
    BY <1>3 DEF IInv, TypeOK
  <2>2. \A g \in Handlers : pc'[g] \in Waiting => pc[g] \in Waiting
    BY <1>12
  <2> QED
    BY <1>5, <1>10, <1>12, <2>1, <2>2 DEF IInv, Bound
<1>17. Pinned'
  BY <1>5, <1>9, <1>10, PinnedKept DEF IInv, Pinned, OpaquePinned
<1>18. Owned'
  BY <1>9, <1>10, OwnedKept DEF IInv, Owned
<1>19. Attempted'
  <2>1. IsFiniteSet(cur'.tried) /\ Cardinality(cur'.tried) >= cur'.attempts /\ ~(cur'.attempts > 0)
    BY <1>3, FS_EmptySet DEF NoRequest
  <2> QED
    BY <1>3, <1>10, <2>1 DEF IInv, Attempted, AttemptOnce
<1>20. InFlight' /\ \A g \in Handlers : RepeatedAt(pc[g])'
  BY <1>12, Rested
<1>21. Guarded'
  <2>1. interrupted' = interrupted \/ (interrupted' = Cut /\ lastSent > 0)
    BY <1>3 DEF IInv, Attempted
  <2>2. Repeated /\ lastSent \in interrupted' =>
          m'.failed \/ m'.recoveryRequired \/ UserOf(m.lastBody) > lastSent
    <3>1. CASE ~cur.completed
      BY <1>10, <3>1
    <3>2. CASE cur.completed
      BY <1>3, <1>5, <1>10, <3>2 DEF Repeated
    <3> QED
      BY <3>1, <3>2
  <2> QED
    BY <1>3, <1>5, <1>9, <1>10, <1>20, <2>1, <2>2, GuardedKept
<1> QED
  BY <1>13, <1>14, <1>15, <1>16, <1>17, <1>18, <1>19, <1>20, <1>21 DEF IInv

\* The admitted request, seen from a step that is not its own.
LEMMA StillInFlight ==
  ASSUME IInv, \A g \in Handlers : pc'[g] \in Active => pc'[g] = pc[g],
         UNCHANGED <<cur, interrupted, lastSent>>, m'.slot = m.slot, m'.lastBody = m.lastBody,
         m'.session = m.session, m'.opaqueSlot = m.opaqueSlot,
         m'.recoveryRequired = m.recoveryRequired,
         \/ disk' = disk
         \/ /\ disk'.busy /\ ~disk'.retired /\ disk'.lastBody = m.lastBody
            /\ disk'.slot = m.slot /\ disk'.session = m.session
  PROVE  InFlight' /\ (Repeated => \A g \in Handlers : RepeatedAt(pc[g])')
<1>1. ASSUME NEW g \in Handlers
      PROVE  /\ (SelectedAt(pc[g]) /\ OwnedAt(pc[g]) /\ CheckpointedAt(pc[g]))'
             /\ Repeated => RepeatedAt(pc[g])'
  <2>1. CASE pc'[g] \notin Active
    BY <2>1 DEF SelectedAt, OwnedAt, CheckpointedAt, RepeatedAt, Active, Upstream, Sending
  <2>2. CASE pc'[g] \in Active
    <3>1. /\ pc'[g] = pc[g] /\ SelectedAt(pc[g]) /\ OwnedAt(pc[g]) /\ CheckpointedAt(pc[g])
          /\ Repeated => RepeatedAt(pc[g])
      BY <2>2 DEF IInv, InFlight, Repeated
    <3>2. (SelectedAt(pc[g]) /\ OwnedAt(pc[g]))' /\ (Repeated => RepeatedAt(pc[g])')
      BY <3>1 DEF SelectedAt, OwnedAt, RepeatedAt
    <3>3. CheckpointedAt(pc[g])'
      BY <3>1 DEF CheckpointedAt
    <3> QED
      BY <3>2, <3>3
  <2> QED
    BY <2>1, <2>2
<1> QED
  BY <1>1 DEF InFlight

\* A handler that comes, waits or returns.
LEMMA AsideStep ==
  ASSUME IInv, alive, NEW h \in Handlers, pc[h] \notin Active, NEW place \in Stages \ Active,
         pc' = [pc EXCEPT ![h] = place], TypeQuota', NEW b \in BOOLEAN,
         m' = m \/ m' = [m EXCEPT !.waiting = b],
         head' \in [Handlers -> [thread : Threads \cup {NoThread}, compact : BOOLEAN]],
         \A g \in Handlers : pc'[g] # "idle" => head'[g].thread \in Threads,
         UNCHANGED <<alive, disk, cur, ui, accountOp, cred, nextCred>>,
         UNCHANGED <<cli, interrupted, lastSent, restarts>>,
         m'.waiting <=> \E g \in Handlers : pc'[g] \in Waiting,
         m'.waiting => m.waiting \/ (~m.prepared /\ ~m.closing),
         \A g \in Handlers : pc'[g] \in Waiting =>
           \A k \in Handlers : pc'[k] \in Waiting => g = k
  PROVE  IInv'
<1>0. m \in Memory /\ pc \in [Handlers -> Stages]
  BY DEF IInv, TypeOK
<1>1. /\ m' \in Memory /\ m'.slot = m.slot /\ m'.chosen = m.chosen /\ m'.session = m.session
      /\ m'.busy = m.busy /\ m'.turnPending = m.turnPending /\ m'.lastBody = m.lastBody
      /\ m'.opaqueSlot = m.opaqueSlot /\ m'.compactOwners = m.compactOwners
      /\ m'.reasoning = m.reasoning /\ m'.aux = m.aux
  <2>1. CASE m' = m
    BY <1>0, <2>1
  <2>2. CASE m' = [m EXCEPT !.waiting = b]
    <3>1. [m EXCEPT !.waiting = b] \in Memory
      BY <1>0, Zenon DEF Memory
    <3> QED
      BY <1>0, <2>2, <3>1 DEF Memory
  <2> QED
    BY <2>1, <2>2
<1>2. /\ m'.lease = m.lease /\ m'.prepared = m.prepared /\ m'.closing = m.closing
      /\ m'.retired = m.retired /\ m'.failed = m.failed /\ m'.checkpointErr = m.checkpointErr
      /\ m'.recoveryRequired = m.recoveryRequired
  BY <1>0 DEF Memory
<1>3. /\ pc' \in [Handlers -> Stages]
      /\ \A g \in Handlers : /\ pc'[g] \in Active <=> pc[g] \in Active
                             /\ pc'[g] \in Active => pc'[g] = pc[g]
  BY <1>0
<1>4. TypeOK'
  BY <1>1, <1>3 DEF IInv, TypeOK, TypeQuota
<1>5. Quiescent' /\ Leased'
  BY <1>1, <1>2 DEF IInv, Quiescent, Leased, AuxActive
<1>6. AdmissionExclusive'
  <2>1. m'.prepared => Idle(m')
    BY <1>1, <1>2 DEF IInv, AdmissionExclusive, Idle, AuxActive
  <2> QED
    BY <1>1, <1>3, <2>1 DEF IInv, AdmissionExclusive, Waiting
<1>7. Bound'
  BY <1>1, <1>2 DEF IInv, Bound
<1>8. Pinned' /\ Owned' /\ Agrees
  BY <1>1 DEF IInv, Pinned, OpaquePinned, Owned, Agrees
<1>9. Attempted'
  BY <1>1 DEF IInv, Attempted, AttemptOnce
<1>10. Shown'
  BY <1>1, <1>2 DEF IInv, Shown
<1>11. InFlight' /\ (Repeated => \A g \in Handlers : RepeatedAt(pc[g])')
  BY <1>1, <1>2, <1>3, StillInFlight
<1>12. Guarded'
  <2>1. Repeated /\ lastSent \in interrupted' =>
          m'.failed \/ m'.recoveryRequired \/ UserOf(m.lastBody) > lastSent
    BY <1>2 DEF Repeated
  <2> QED
    BY <1>1, <1>8, <1>11, <2>1, GuardedKept
<1> QED
  BY <1>4, <1>5, <1>6, <1>7, <1>8, <1>9, <1>10, <1>11, <1>12 DEF IInv

LEMMA EnterStep ==
  ASSUME IInv, NEW h \in Handlers, NEW thread \in Threads, NEW compact \in BOOLEAN,
         Enter(h, thread, compact)
  PROVE  IInv'
<1>1. /\ alive /\ pc[h] = "idle" /\ pc' = [pc EXCEPT ![h] = "entered"] /\ m' = m /\ UNCHANGED quota
      /\ head' = [head EXCEPT ![h] = [thread |-> thread, compact |-> compact]]
      /\ UNCHANGED <<alive, disk, cur, ui, accountOp, cred, nextCred>>
      /\ UNCHANGED <<cli, interrupted, lastSent, restarts>>
  BY DEF Enter, world, client
<1>2. /\ pc[h] \notin Active /\ "entered" \in Stages \ Active /\ pc \in [Handlers -> Stages]
      /\ head \in [Handlers -> [thread : Threads \cup {NoThread}, compact : BOOLEAN]]
  BY <1>1 DEF Active, Stages, IInv, TypeOK
<1>3. TypeQuota'
  BY <1>1, TypeParts DEF IInv
<1>4. head' \in [Handlers -> [thread : Threads \cup {NoThread}, compact : BOOLEAN]]
  BY <1>1, <1>2
<1>5. \A g \in Handlers : pc'[g] # "idle" => head'[g].thread \in Threads
  BY <1>1, <1>2 DEF IInv, Bound
<1>6. \A g \in Handlers : pc'[g] \in Waiting <=> pc[g] \in Waiting
  BY <1>1, <1>2 DEF Waiting
<1>7. m'.waiting <=> \E g \in Handlers : pc'[g] \in Waiting
  BY <1>1, <1>6 DEF IInv, AdmissionExclusive, Waiting
<1>8. \A g \in Handlers : pc'[g] \in Waiting => \A k \in Handlers : pc'[k] \in Waiting => g = k
  BY <1>6 DEF IInv, Bound
<1> QED
  BY <1>1, <1>2, <1>3, <1>4, <1>5, <1>7, <1>8, AsideStep

LEMMA WaitStep ==
  ASSUME IInv, NEW h \in Handlers, Wait(h)
  PROVE  IInv'
<1>1. /\ pc[h] = "entered" /\ pc' = [pc EXCEPT ![h] = "waiting"] /\ m' = [m EXCEPT !.waiting = TRUE]
      /\ ~m.closing /\ ~m.prepared /\ ~m.waiting /\ UNCHANGED quota /\ head' = head
      /\ UNCHANGED <<alive, disk, cur, ui, accountOp, cred, nextCred>>
      /\ UNCHANGED <<cli, interrupted, lastSent, restarts>>
  BY DEF Wait, MayWait, world, client
<1>2. /\ pc[h] \notin Active /\ "waiting" \in Stages \ Active /\ pc \in [Handlers -> Stages]
      /\ head' \in [Handlers -> [thread : Threads \cup {NoThread}, compact : BOOLEAN]] /\ alive
  BY <1>1 DEF Active, Stages, IInv, TypeOK, Quiescent
<1>3. TypeQuota' /\ m'.waiting
  BY <1>1, TypeParts DEF IInv, TypeOK, Memory
<1>4. \A g \in Handlers : pc'[g] # "idle" => head'[g].thread \in Threads
  BY <1>1, <1>2 DEF IInv, Bound
<1>5. \A g \in Handlers : pc'[g] \in Waiting <=> g = h
  <2>1. \A g \in Handlers : pc[g] \notin Waiting
    BY <1>1 DEF IInv, AdmissionExclusive, Waiting
  <2> QED
    BY <1>1, <1>2, <2>1 DEF Waiting
<1> QED
  BY <1>1, <1>2, <1>3, <1>4, <1>5, AsideStep

\* A request that returns was not admitted; if it waited, nobody waits any more.
LEMMA ReturnStep ==
  ASSUME IInv, NEW h \in Handlers, pc[h] \in {"entered", "waiting", "signalled"}, Return(h),
         pc[h] = "entered" => m' = m, pc[h] \in Waiting => m' = [m EXCEPT !.waiting = FALSE],
         TypeQuota', UNCHANGED <<alive, disk, cur, ui, accountOp, cred, nextCred>>,
         UNCHANGED <<cli, interrupted, lastSent, restarts>>
  PROVE  IInv'
<1>1. pc' = [pc EXCEPT ![h] = "idle"] /\ head' = [head EXCEPT ![h] = NoHead]
  BY DEF Return
<1>2. /\ pc[h] \notin Active /\ "idle" \in Stages \ Active /\ pc \in [Handlers -> Stages]
      /\ head \in [Handlers -> [thread : Threads \cup {NoThread}, compact : BOOLEAN]] /\ alive
      /\ m \in Memory
  BY DEF Active, Stages, IInv, TypeOK, Quiescent
<1>3. head' \in [Handlers -> [thread : Threads \cup {NoThread}, compact : BOOLEAN]]
  BY <1>1, <1>2, Literals
<1>4. \A g \in Handlers : pc'[g] # "idle" => head'[g].thread \in Threads
  BY <1>1, <1>2 DEF IInv, Bound
<1>5. \A g \in Handlers : pc'[g] \in Waiting <=> pc[g] \in Waiting /\ g # h
  BY <1>1, <1>2 DEF Waiting
<1>6. /\ m'.waiting <=> \E g \in Handlers : pc'[g] \in Waiting
      /\ m'.waiting => m.waiting
  <2>1. CASE pc[h] = "entered"
    BY <1>5, <2>1 DEF IInv, AdmissionExclusive, Waiting
  <2>2. CASE pc[h] \in Waiting
    <3>1. ~m'.waiting
      BY <1>2, <2>2 DEF Memory
    <3>2. \A g \in Handlers : pc'[g] \notin Waiting
      BY <1>5, <2>2 DEF IInv, Bound
    <3> QED
      BY <3>1, <3>2
  <2> QED
    BY <2>1, <2>2 DEF Waiting
<1>7. \A g \in Handlers : pc'[g] \in Waiting => \A k \in Handlers : pc'[k] \in Waiting => g = k
  BY <1>5 DEF IInv, Bound
<1>8. m' = m \/ m' = [m EXCEPT !.waiting = FALSE]
  BY DEF Waiting
<1> QED
  BY <1>1, <1>2, <1>3, <1>4, <1>6, <1>7, <1>8, AsideStep

LEMMA WaitEndsStep ==
  ASSUME IInv, NEW h \in Handlers, WaitEnds(h)
  PROVE  IInv'
<1>1. /\ pc[h] \in Waiting /\ m' = [m EXCEPT !.waiting = FALSE] /\ Return(h) /\ UNCHANGED quota
      /\ UNCHANGED <<alive, disk, cur, ui, accountOp, cred, nextCred>>
      /\ UNCHANGED <<cli, interrupted, lastSent, restarts>>
  BY DEF WaitEnds, Waiting, world, client
<1>2. TypeQuota' /\ pc[h] # "entered" /\ pc[h] \in {"entered", "waiting", "signalled"}
  BY <1>1, TypeParts DEF IInv, Waiting
<1> QED
  BY <1>1, <1>2, ReturnStep

LEMMA Over ==
  ASSUME NEW h \in Handlers, m' = WaitOver(h), pc[h] \in {"entered", "signalled"}
  PROVE  /\ pc[h] \in {"entered", "waiting", "signalled"} /\ (pc[h] = "entered" => m' = m)
         /\ pc[h] \in Waiting => m' = [m EXCEPT !.waiting = FALSE]
BY DEF WaitOver, Waiting

LEMMA RejectStep ==
  ASSUME IInv, NEW h \in Handlers, Reject(h)
  PROVE  IInv'
<1>1. /\ pc[h] \in {"entered", "signalled"} /\ m' = WaitOver(h) /\ Return(h) /\ UNCHANGED quota
      /\ UNCHANGED <<alive, disk, cur, ui, accountOp, cred, nextCred>>
      /\ UNCHANGED <<cli, interrupted, lastSent, restarts>>
  BY DEF Reject, AtAdmission, world, client
<1>2. TypeQuota'
  BY <1>1, TypeParts DEF IInv
<1> QED
  BY <1>1, <1>2, Over, ReturnStep

LEMMA RejectQuotaStep ==
  ASSUME IInv, NEW h \in Handlers, RejectQuota(h)
  PROVE  IInv'
<1>1. /\ pc[h] \in {"entered", "signalled"} /\ m' = WaitOver(h) /\ Return(h) /\ applied
      /\ UNCHANGED <<alive, disk, cur, ui, accountOp, cred, nextCred>>
      /\ UNCHANGED <<cli, interrupted, lastSent, restarts>>
  BY DEF RejectQuota, AtAdmission, world, client
<1>2. TypeQuota'
  BY <1>1, TypeParts DEF IInv
<1> QED
  BY <1>1, <1>2, Over, ReturnStep

\* A request about to be admitted, and the account its turn gets.
LEMMA SelectingEffect ==
  ASSUME IInv, NEW h \in Handlers, AtAdmission(h), ~probeAdmissionCode(h), MaySelect,
         NEW x, x = Selecting(h)
  PROVE  /\ alive /\ pc[h] \in {"entered", "signalled"} /\ m \in Memory /\ disk \in Saved
         /\ ~m.busy /\ ~m.failed /\ ~m.checkpointErr /\ ~m.prepared /\ ~m.retired
         /\ head[h].thread \in Threads /\ (m.session = NoThread \/ m.session = head[h].thread)
         /\ \A g \in Handlers : pc[g] \notin Active
         /\ x \in Memory /\ x.chosen /\ (x.opaqueSlot # NoSlot => x.slot = x.opaqueSlot)
         /\ x.session = m.session /\ x.busy = m.busy /\ x.turnPending = m.turnPending
         /\ x.recoveryRequired = m.recoveryRequired /\ x.lastBody = m.lastBody
         /\ x.opaqueSlot = m.opaqueSlot /\ x.compactOwners = m.compactOwners
         /\ x.reasoning = m.reasoning /\ x.aux = m.aux /\ x.prepared = m.prepared
         /\ x.closing = m.closing /\ x.retired = m.retired /\ x.lease = m.lease
         /\ x.failed = m.failed /\ x.checkpointErr = m.checkpointErr
         /\ m.turnPending => x.slot = m.slot
         /\ x.waiting <=> \E g \in Handlers : g # h /\ pc[g] \in Waiting
<1>1. /\ pc[h] \in {"entered", "signalled"} /\ m \in Memory /\ disk \in Saved /\ alive
      /\ pc \in [Handlers -> Stages]
  BY DEF AtAdmission, IInv, TypeOK, Quiescent
<1>2. /\ ~m.busy /\ ~m.failed /\ ~m.checkpointErr
      /\ m.session = NoThread \/ m.session = head[h].thread
  BY DEF probeAdmissionCode
<1>3. pc[h] = "signalled" => m.waiting
  BY DEF IInv, AdmissionExclusive
<1>4. ~m.prepared /\ ~m.retired
  BY <1>1, <1>3 DEF AtAdmission, IInv, AdmissionExclusive, Idle, Bound
<1>5. head[h].thread \in Threads /\ \A g \in Handlers : pc[g] \notin Active
  BY <1>1, <1>2 DEF IInv, Bound, AdmissionExclusive
<1>6. PICK w : w = WaitOver(h)
  OBVIOUS
<1>7. /\ w \in Memory /\ w.slot = m.slot /\ w.chosen = m.chosen
      /\ w.session = m.session /\ w.busy = m.busy /\ w.turnPending = m.turnPending
      /\ w.recoveryRequired = m.recoveryRequired /\ w.lastBody = m.lastBody
      /\ w.opaqueSlot = m.opaqueSlot /\ w.compactOwners = m.compactOwners
      /\ w.reasoning = m.reasoning /\ w.aux = m.aux /\ w.prepared = m.prepared
      /\ w.closing = m.closing /\ w.retired = m.retired /\ w.lease = m.lease
      /\ w.failed = m.failed /\ w.checkpointErr = m.checkpointErr
  <2>1. CASE pc[h] = "signalled"
    <3>1. w = [m EXCEPT !.waiting = FALSE]
      BY <1>6, <2>1 DEF WaitOver
    <3> QED
      BY <1>1, <3>1 DEF Memory
  <2>2. CASE pc[h] # "signalled"
    <3>1. w = m
      BY <1>6, <2>2 DEF WaitOver
    <3> QED
      BY <1>1, <3>1
  <2> QED
    BY <2>1, <2>2
<1>8. w.waiting <=> \E g \in Handlers : g # h /\ pc[g] \in Waiting
  <2>1. CASE pc[h] = "signalled"
    <3>1. ~w.waiting
      BY <1>1, <1>6, <2>1 DEF WaitOver, Memory
    <3> QED
      BY <2>1, <3>1 DEF IInv, Bound, Waiting
  <2>2. CASE pc[h] # "signalled"
    <3>1. w.waiting = m.waiting /\ pc[h] \notin Waiting
      BY <1>1, <1>6, <2>2 DEF WaitOver, Waiting
    <3> QED
      BY <3>1 DEF IInv, AdmissionExclusive, Waiting
  <2> QED
    BY <2>1, <2>2
<1>9. CASE Reselects
  <2>1. x = [w EXCEPT !.slot = NextSlot, !.chosen = TRUE]
    BY <1>6, <1>9 DEF Selecting
  <2>2. NextSlot \in Slots /\ (m.opaqueSlot # NoSlot => NextSlot = m.opaqueSlot)
    BY <1>9, Selection DEF MaySelect, Admissible, NextSlot
  <2>3. ~m.turnPending
    BY <1>9 DEF Reselects
  <2>4. /\ x \in Memory /\ x.chosen /\ x.slot = NextSlot /\ x.waiting = w.waiting
        /\ x.session = w.session /\ x.busy = w.busy /\ x.turnPending = w.turnPending
        /\ x.recoveryRequired = w.recoveryRequired /\ x.lastBody = w.lastBody
        /\ x.opaqueSlot = w.opaqueSlot /\ x.compactOwners = w.compactOwners
    BY <1>7, <2>1, <2>2, ZenonT(60) DEF Memory
  <2>5. /\ x.reasoning = w.reasoning /\ x.aux = w.aux /\ x.prepared = w.prepared
        /\ x.closing = w.closing /\ x.retired = w.retired /\ x.lease = w.lease
        /\ x.failed = w.failed /\ x.checkpointErr = w.checkpointErr
    BY <1>7, <2>1, <2>2 DEF Memory
  <2> QED
    BY <1>1, <1>2, <1>4, <1>5, <1>7, <1>8, <2>2, <2>3, <2>4, <2>5
<1>10. CASE ~Reselects
  <2>1. x = w
    BY <1>6, <1>10 DEF Selecting
  <2>2. m.chosen
    BY <1>10 DEF Reselects, IInv, Pinned, AuxActive
  <2>3. m.opaqueSlot # NoSlot => m.slot = m.opaqueSlot
    BY DEF IInv, Pinned, OpaquePinned
  <2> QED
    BY <1>1, <1>2, <1>4, <1>5, <1>7, <1>8, <2>1, <2>2, <2>3
<1> QED
  BY <1>9, <1>10

LEMMA AdmitBusyStep ==
  ASSUME IInv, NEW h \in Handlers, AdmitBusy(h)
  PROVE  IInv'
<1>1. /\ AtAdmission(h) /\ ~probeAdmissionCode(h) /\ MaySelect /\ m' = Selecting(h)
      /\ pc' = [pc EXCEPT ![h] = "idle"] /\ head' = [head EXCEPT ![h] = NoHead]
      /\ applied \/ UNCHANGED quota
      /\ UNCHANGED <<alive, disk, cur, ui, accountOp, cred, nextCred>>
      /\ UNCHANGED <<cli, interrupted, lastSent, restarts>>
  BY DEF AdmitBusy, Return, world, client
<1>2. /\ alive /\ m \in Memory /\ ~m.busy /\ ~m.retired /\ ~m.prepared
      /\ \A g \in Handlers : pc[g] \notin Active
      /\ m' \in Memory /\ m'.chosen /\ (m'.opaqueSlot # NoSlot => m'.slot = m'.opaqueSlot)
      /\ m'.session = m.session /\ m'.busy = m.busy /\ m'.turnPending = m.turnPending
      /\ m'.recoveryRequired = m.recoveryRequired /\ m'.lastBody = m.lastBody
      /\ m'.compactOwners = m.compactOwners
      /\ m'.reasoning = m.reasoning /\ m'.aux = m.aux /\ m'.prepared = m.prepared
      /\ m'.closing = m.closing /\ m'.retired = m.retired /\ m'.lease = m.lease
      /\ m'.failed = m.failed /\ m'.checkpointErr = m.checkpointErr
      /\ m'.waiting <=> \E g \in Handlers : g # h /\ pc[g] \in Waiting
  BY <1>1, SelectingEffect
<1>3. /\ pc \in [Handlers -> Stages] /\ "idle" \in Stages \ Active
      /\ head \in [Handlers -> [thread : Threads \cup {NoThread}, compact : BOOLEAN]]
  BY DEF IInv, TypeOK, Stages, Active
<1>4. /\ pc' \in [Handlers -> Stages] /\ \A g \in Handlers : pc'[g] \notin Active
      /\ \A g \in Handlers : pc'[g] \in Waiting <=> g # h /\ pc[g] \in Waiting
      /\ \A g \in Handlers : pc'[g] # "idle" => pc[g] # "idle" /\ g # h
  BY <1>1, <1>2, <1>3 DEF Waiting
<1>5. TypeOK'
  <2>1. TypeQuota'
    BY <1>1, TypeParts DEF IInv
  <2>2. head' \in [Handlers -> [thread : Threads \cup {NoThread}, compact : BOOLEAN]]
    BY <1>1, <1>3, Literals
  <2> QED
    BY <1>1, <1>2, <1>4, <2>1, <2>2 DEF IInv, TypeOK, TypeQuota
<1>6. Quiescent' /\ Leased' /\ Shown'
  BY <1>1, <1>2 DEF IInv, Quiescent, Leased, Shown, AuxActive
<1>7. AdmissionExclusive'
  <2>1. m'.waiting <=> \E g \in Handlers : pc'[g] \in Waiting
    BY <1>2, <1>4
  <2> QED
    BY <1>2, <1>4, <2>1 DEF AdmissionExclusive, Waiting
<1>8. Bound'
  <2>1. \A g \in Handlers : g # h => head'[g] = head[g]
    BY <1>1, <1>3
  <2> QED
    BY <1>2, <1>4, <2>1 DEF IInv, Bound
<1>9. Agrees
  BY <1>1 DEF Agrees
<1>10. Pinned' /\ Owned'
  BY <1>2, <1>9, PinnedKept, OwnedKept DEF IInv, Owned
<1>11. Attempted'
  BY <1>1, <1>2 DEF IInv, Attempted, AttemptOnce
<1>12. InFlight' /\ \A g \in Handlers : RepeatedAt(pc[g])'
  BY <1>4, Rested
<1>13. Guarded'
  <2>1. Repeated /\ lastSent \in interrupted' =>
          m'.failed \/ m'.recoveryRequired \/ UserOf(m.lastBody) > lastSent
    BY <1>1, <1>2 DEF Repeated
  <2> QED
    BY <1>1, <1>2, <1>9, <1>12, <2>1, GuardedKept
<1> QED
  BY <1>5, <1>6, <1>7, <1>8, <1>10, <1>11, <1>12, <1>13 DEF IInv

LEMMA AdmitStep ==
  ASSUME IInv, NEW h \in Handlers, Admit(h)
  PROVE  IInv'
<1>1. PICK y : y = Selecting(h)
  OBVIOUS
<1>2. PICK x : x = [y EXCEPT !.lease = TRUE, !.busy = TRUE, !.terminalReady = FALSE,
                             !.session = head[h].thread]
  OBVIOUS
<1> DEFINE fails == [x EXCEPT !.checkpointErr = TRUE, !.failed = TRUE, !.busy = FALSE]
<1>3. /\ AtAdmission(h) /\ ~probeAdmissionCode(h) /\ MaySelect /\ revise /\ ui' = NoView
      /\ m.lease \/ ~accountOp
      /\ applied \/ UNCHANGED quota
      /\ UNCHANGED <<alive, accountOp, cred, nextCred>>
      /\ UNCHANGED <<cli, interrupted, lastSent, restarts>>
  BY DEF Admit, revise, world, client
<1>4. /\ alive /\ m \in Memory /\ disk \in Saved /\ ~m.failed /\ ~m.retired /\ ~m.prepared
      /\ head[h].thread \in Threads /\ (m.session = NoThread \/ m.session = head[h].thread)
      /\ \A g \in Handlers : pc[g] \notin Active
      /\ y \in Memory /\ y.chosen /\ (y.opaqueSlot # NoSlot => y.slot = y.opaqueSlot)
      /\ y.turnPending = m.turnPending
      /\ y.recoveryRequired = m.recoveryRequired /\ y.lastBody = m.lastBody
      /\ y.compactOwners = m.compactOwners
      /\ y.reasoning = m.reasoning /\ y.aux = m.aux /\ y.prepared = m.prepared
      /\ y.closing = m.closing /\ y.retired = m.retired
      /\ y.waiting <=> \E g \in Handlers : g # h /\ pc[g] \in Waiting
  BY <1>1, <1>3, SelectingEffect
<1>5. NoThread \notin Threads /\ ~accountOp
  BY <1>3, ConnectionAssumption DEF IInv, Leased
<1>6. /\ x \in Memory /\ x.chosen = y.chosen /\ x.opaqueSlot = y.opaqueSlot /\ x.slot = y.slot
      /\ x.turnPending = y.turnPending /\ x.recoveryRequired = y.recoveryRequired
      /\ x.lastBody = y.lastBody /\ x.compactOwners = y.compactOwners
      /\ x.reasoning = y.reasoning /\ x.waiting = y.waiting /\ x.session = head[h].thread
  BY <1>2, <1>4, ZenonT(60) DEF Memory
<1>7. /\ x.prepared = y.prepared /\ x.closing = y.closing /\ x.retired = y.retired
      /\ x.busy /\ x.lease
  BY <1>2, <1>4 DEF Memory
<1>8. /\ fails \in Memory /\ fails.chosen = x.chosen /\ fails.opaqueSlot = x.opaqueSlot
      /\ fails.slot = x.slot /\ fails.turnPending = x.turnPending
      /\ fails.recoveryRequired = x.recoveryRequired
      /\ fails.lastBody = x.lastBody /\ fails.compactOwners = x.compactOwners
      /\ fails.reasoning = x.reasoning /\ fails.waiting = x.waiting /\ fails.session = x.session
  <2>1. fails \in Memory
    BY <1>6 DEF Memory
  <2>2. /\ fails.chosen = x.chosen /\ fails.opaqueSlot = x.opaqueSlot
        /\ fails.slot = x.slot /\ fails.turnPending = x.turnPending
        /\ fails.recoveryRequired = x.recoveryRequired
    BY <1>6 DEF Memory
  <2>3. /\ fails.lastBody = x.lastBody /\ fails.compactOwners = x.compactOwners
        /\ fails.reasoning = x.reasoning /\ fails.waiting = x.waiting
        /\ fails.session = x.session
    BY <1>6 DEF Memory
  <2> QED
    BY <2>1, <2>2, <2>3
<1>9. /\ fails.prepared = x.prepared /\ fails.closing = x.closing /\ fails.retired = x.retired
      /\ fails.lease = x.lease /\ ~fails.busy /\ fails.failed
  BY <1>6 DEF Memory
<1>10. Image(x) \in Saved
  BY <1>6, ImageType
<1>11. /\ pc \in [Handlers -> Stages] /\ "idle" \in Stages \ Active /\ "reading" \in Stages
       /\ "reading" \in Active /\ "reading" \notin Waiting /\ "idle" \notin Waiting
       /\ head \in [Handlers -> [thread : Threads \cup {NoThread}, compact : BOOLEAN]]
  BY DEF IInv, TypeOK, Stages, Active, Waiting
<1>12. TypeView' /\ TypeQuota' /\ ~ui'.current
  BY <1>3, TypeParts DEF IInv, NoView
<1>13. CASE /\ m' = x /\ disk' = Image(x) /\ pc' = [pc EXCEPT ![h] = "reading"] /\ UNCHANGED head
            /\ cur' = [NoRequest EXCEPT !.compact = head[h].compact, !.selected = x.slot,
                                        !.waited = (pc[h] = "signalled")]
  <2>1. /\ cur' \in Request /\ cur'.selected = x.slot /\ cur'.tried = {} /\ cur'.attempts = 0
    <3>1. PICK b \in BOOLEAN : b = (pc[h] = "signalled")
      <4>1. (pc[h] = "signalled") \in BOOLEAN
        OBVIOUS
      <4> QED
        BY <4>1, Zenon
    <3>2. cur' = [NoRequest EXCEPT !.compact = head[h].compact, !.selected = x.slot, !.waited = b]
      BY <1>13, <3>1
    <3>3. NoRequest \in Request /\ NoRequest.tried = {} /\ NoRequest.attempts = 0
      BY Literals DEF NoRequest
    <3>4. head[h].compact \in BOOLEAN /\ x.slot \in Slots
      BY <1>6, <1>11 DEF Memory
    <3>5. PICK e \in BOOLEAN : e = head[h].compact
      BY <3>4, Zenon
    <3>6. cur' = [NoRequest EXCEPT !.compact = e, !.selected = x.slot, !.waited = b]
      BY <3>2, <3>5
    <3> HIDE DEF NoRequest
    <3>7. [NoRequest EXCEPT !.compact = e, !.selected = x.slot, !.waited = b] \in Request
      BY <3>3, <3>4, Zenon DEF Request
    <3> QED
      BY <3>3, <3>4, <3>6, <3>7 DEF Request
  <2>2. /\ pc' \in [Handlers -> Stages] /\ pc'[h] = "reading"
        /\ \A g \in Handlers : g # h => pc'[g] = pc[g]
        /\ \A g \in Handlers : pc'[g] \in Active <=> g = h
        /\ \A g \in Handlers : pc'[g] \in Waiting <=> g # h /\ pc[g] \in Waiting
    BY <1>4, <1>11, <1>13
  <2>3. TypeOK'
    BY <1>3, <1>6, <1>10, <1>12, <1>13, <2>1, <2>2 DEF IInv, TypeOK, TypeView, TypeQuota
  <2>4. Quiescent' /\ Leased' /\ Shown'
    BY <1>3, <1>4, <1>5, <1>7, <1>12, <1>13 DEF Quiescent, Leased, Shown
  <2>5. AdmissionExclusive'
    <3>1. m'.waiting <=> \E g \in Handlers : pc'[g] \in Waiting
      BY <1>4, <1>6, <1>13, <2>2
    <3> QED
      BY <1>4, <1>7, <1>13, <2>2, <3>1 DEF AdmissionExclusive, Waiting
  <2>6. Bound'
    <3>1. \A g \in Handlers : pc'[g] # "idle" => head'[g].thread \in Threads
      BY <1>4, <1>13, <2>2 DEF IInv, Bound
    <3> QED
      BY <1>4, <1>5, <1>6, <1>7, <1>13, <2>2, <3>1 DEF IInv, Bound
  <2>7. Agrees
    BY <1>13, ImageFields DEF Agrees
  <2>8. Pinned' /\ Owned'
    BY <1>4, <1>6, <1>13, <2>7, PinnedKept, OwnedKept DEF IInv, Owned
  <2>9. Attempted'
    <3>1. IsFiniteSet(cur'.tried) /\ Cardinality(cur'.tried) = 0
      BY <2>1, FS_EmptySet
    <3>2. m'.turnPending => lastSent' > 0
      BY <1>3, <1>4, <1>6, <1>13 DEF IInv, Attempted
    <3> QED
      BY <2>1, <3>1, <3>2 DEF Attempted, AttemptOnce
  <2>10. InFlight'
    <3>1. SelectedAt("reading")'
      BY <1>6, <2>1 DEF SelectedAt, Upstream, Memory
    <3>2. (OwnedAt("reading") /\ CheckpointedAt("reading"))'
      BY <1>13, <2>1 DEF OwnedAt, CheckpointedAt, Upstream, Sending
    <3>3. ASSUME NEW g \in Handlers
          PROVE  (SelectedAt(pc[g]) /\ OwnedAt(pc[g]) /\ CheckpointedAt(pc[g]))'
      <4>1. CASE g = h
        BY <2>2, <3>1, <3>2, <4>1 DEF SelectedAt, OwnedAt, CheckpointedAt
      <4>2. CASE g # h
        <5>1. pc'[g] \notin Active
          BY <2>2, <4>2
        <5> QED
          BY <5>1 DEF SelectedAt, OwnedAt, CheckpointedAt, Active, Upstream, Sending
      <4> QED
        BY <4>1, <4>2
    <3> QED
      BY <3>3 DEF InFlight
  <2>11. Guarded'
    <3>1. Repeated /\ lastSent \in interrupted' =>
            m'.recoveryRequired \/ UserOf(m.lastBody) > lastSent
      BY <1>3, <1>4, <1>6, <1>13 DEF Repeated
    <3>2. ASSUME Repeated, NEW g \in Handlers PROVE RepeatedAt(pc[g])'
      <4>1. CASE g = h
        BY <1>3, <1>4, <1>6, <1>13, <2>2, <3>1, <3>2, <4>1 DEF RepeatedAt
      <4>2. CASE g # h
        <5>1. pc'[g] \notin Active
          BY <2>2, <4>2
        <5> QED
          BY <5>1 DEF RepeatedAt, Active
      <4> QED
        BY <4>1, <4>2
    <3> QED
      BY <1>3, <1>4, <1>6, <1>13, <2>7, <3>1, <3>2, GuardedKept
  <2> QED
    BY <2>3, <2>4, <2>5, <2>6, <2>8, <2>9, <2>10, <2>11 DEF IInv
<1>14. CASE m' = fails /\ disk' \in {disk, Image(x)} /\ Return(h) /\ UNCHANGED cur
  <2> HIDE DEF fails
  <2>1. /\ pc' = [pc EXCEPT ![h] = "idle"] /\ head' = [head EXCEPT ![h] = NoHead]
    BY <1>14 DEF Return
  <2>2. /\ pc' \in [Handlers -> Stages] /\ \A g \in Handlers : pc'[g] \notin Active
        /\ \A g \in Handlers : pc'[g] \in Waiting <=> g # h /\ pc[g] \in Waiting
        /\ \A g \in Handlers : pc'[g] # "idle" => pc[g] # "idle" /\ g # h
    BY <1>4, <1>11, <2>1
  <2>3. TypeOK'
    <3>1. head' \in [Handlers -> [thread : Threads \cup {NoThread}, compact : BOOLEAN]]
      BY <1>11, <2>1, Literals
    <3>2. m' \in Memory /\ disk' \in Saved
      BY <1>4, <1>8, <1>10, <1>14
    <3> QED
      BY <1>3, <1>12, <1>14, <2>2, <3>1, <3>2 DEF IInv, TypeOK, TypeView, TypeQuota
  <2>4. Quiescent' /\ Leased' /\ Shown'
    BY <1>3, <1>4, <1>5, <1>7, <1>9, <1>12, <1>14 DEF Quiescent, Leased, Shown
  <2>5. AdmissionExclusive'
    <3>1. m'.waiting <=> \E g \in Handlers : pc'[g] \in Waiting
      BY <1>4, <1>6, <1>8, <1>14, <2>2
    <3> QED
      BY <1>4, <1>7, <1>9, <1>14, <2>2, <3>1 DEF AdmissionExclusive, Waiting
  <2>6. Bound'
    <3>1. \A g \in Handlers : g # h => head'[g] = head[g]
      BY <1>11, <2>1
    <3> QED
      BY <1>4, <1>7, <1>9, <1>14, <2>2, <3>1 DEF IInv, Bound
  <2>7. Agrees
    BY <1>8, <1>9, <1>14, ImageFields DEF Agrees
  <2>8. Pinned' /\ Owned'
    BY <1>4, <1>6, <1>8, <1>14, <2>7, PinnedKept, OwnedKept, ZenonT(60) DEF IInv, Owned
  <2>9. Attempted'
    BY <1>3, <1>4, <1>6, <1>8, <1>14 DEF IInv, Attempted, AttemptOnce
  <2>10. InFlight' /\ \A g \in Handlers : RepeatedAt(pc[g])'
    BY <2>2, Rested
  <2>11. Guarded'
    BY <1>3, <1>4, <1>6, <1>8, <1>9, <1>14, <2>7, <2>10, GuardedKept
  <2> QED
    BY <2>3, <2>4, <2>5, <2>6, <2>8, <2>9, <2>10, <2>11 DEF IInv
<1> HIDE DEF fails
<1> QED
  BY <1>1, <1>2, <1>13, <1>14 DEF Admit, fails


-----------------------------------------------------------------------------
(* Auxiliary conversations and control commands: no handler moves.         *)

\* A step beside the handlers: what it may change while a request runs, and of the
\* guards of a turn cut short.
LEMMA BesideStep ==
  ASSUME IInv, alive, alive' = alive, UNCHANGED <<pc, head, cur>>,
         UNCHANGED <<accountOp, cred, nextCred, restarts>>, cli' = cli, lastSent' = lastSent,
         m' \in Memory, disk' \in Saved, Agrees, TypeView', TypeQuota', Shown',
         m'.busy = m.busy, m'.waiting = m.waiting, m'.lastBody = m.lastBody,
         m'.compactOwners = m.compactOwners, m'.reasoning = m.reasoning,
         m'.opaqueSlot = m.opaqueSlot, m.session # NoThread => m'.session = m.session,
         m'.opaqueSlot # NoSlot => m'.slot = m'.opaqueSlot /\ m'.chosen,
         m'.turnPending \/ m'.busy \/ m'.aux \in {"idle", "busy", "pending"} => m'.chosen,
         m'.turnPending => m.turnPending,
         m'.busy \/ m'.turnPending \/ AuxActive(m') => m'.lease, accountOp => ~m'.lease,
         m'.prepared => Idle(m'), m'.retired => m'.closing /\ ~m.busy /\ ~m.waiting,
         m.busy => /\ m'.slot = m.slot /\ m'.recoveryRequired = m.recoveryRequired
                   /\ interrupted' = interrupted
                   /\ \/ disk' = disk
                      \/ /\ disk'.busy /\ ~disk'.retired /\ disk'.lastBody = m.lastBody
                         /\ disk'.slot = m.slot /\ disk'.session = m.session,
         \/ interrupted' = interrupted
         \/ interrupted' = Cut /\ lastSent > 0 /\ m'.failed,
         m.failed \/ m.recoveryRequired => m'.failed \/ m'.recoveryRequired
  PROVE  IInv'
<1>1. m.busy => m.session # NoThread
  BY DEF IInv, Bound
<1>2. TypeOK'
  <2>1. interrupted' \in SUBSET (0..MaxUser)
    BY DEF IInv, TypeOK, Cut
  <2> QED
    BY <2>1 DEF IInv, TypeOK, TypeView, TypeQuota
<1>3. Quiescent' /\ Leased'
  BY DEF IInv, Quiescent, Leased
<1>4. AdmissionExclusive'
  BY DEF IInv, AdmissionExclusive
<1>5. Bound'
  <2>1. m'.busy => m'.session # NoThread
    BY <1>1
  <2> QED
    BY <2>1 DEF IInv, Bound
<1>6. Pinned' /\ Owned'
  BY PinnedKept, OwnedKept DEF IInv, Owned
<1>7. Attempted'
  BY DEF IInv, Attempted, AttemptOnce
<1>8. InFlight' /\ (Repeated => \A g \in Handlers : RepeatedAt(pc[g])')
  <2>1. CASE m.busy
    BY <1>1, <2>1, StillInFlight
  <2>2. CASE ~m.busy
    <3>1. \A g \in Handlers : pc'[g] \notin Active
      BY <2>2 DEF IInv, AdmissionExclusive
    <3> QED
      BY <3>1, Rested
  <2> QED
    BY <2>1, <2>2
<1>9. Guarded'
  <2>1. Repeated /\ lastSent \in interrupted' =>
          m'.failed \/ m'.recoveryRequired \/ UserOf(m.lastBody) > lastSent
    BY DEF Repeated
  <2> QED
    BY <1>8, <2>1, GuardedKept
<1> QED
  BY <1>2, <1>3, <1>4, <1>5, <1>6, <1>7, <1>8, <1>9 DEF IInv

\* The same for a step that ends in state(): what the record x it stores must be.
LEMMA StateBesideStep ==
  ASSUME IInv, alive, alive' = alive, UNCHANGED <<pc, head, cur>>,
         UNCHANGED <<accountOp, cred, nextCred, restarts>>, cli' = cli, lastSent' = lastSent,
         NEW x \in Memory, state(x), TypeView', TypeQuota', Shown',
         x.busy = m.busy, x.waiting = m.waiting, x.lastBody = m.lastBody,
         x.compactOwners = m.compactOwners, x.reasoning = m.reasoning,
         x.opaqueSlot = m.opaqueSlot, x.session = m.session, x.retired = m.retired,
         x.closing = m.closing,
         x.opaqueSlot # NoSlot => x.slot = x.opaqueSlot /\ x.chosen,
         x.turnPending \/ x.busy \/ x.aux \in {"idle", "busy", "pending"} => x.chosen,
         x.turnPending => m.turnPending,
         x.busy \/ x.turnPending \/ AuxActive(x) => x.lease, accountOp => ~x.lease,
         x.prepared => Idle(x),
         m.busy => /\ x.slot = m.slot /\ x.recoveryRequired = m.recoveryRequired
                   /\ interrupted' = interrupted,
         \/ interrupted' = interrupted
         \/ interrupted' = Cut /\ lastSent > 0 /\ x.failed,
         m.failed \/ m.recoveryRequired => x.failed \/ x.recoveryRequired
  PROVE  IInv'
<1>1. Stored(x) /\ (m'.lease <=> x.lease /\ (x.busy \/ x.turnPending \/ AuxActive(x)))
  BY StateEffect
<1>2. disk \in Saved /\ (m.busy => ~m.retired) /\ (m.retired => m.closing /\ ~m.busy /\ ~m.waiting)
  BY DEF IInv, TypeOK, Bound
<1>3. Agrees /\ disk' \in Saved
  BY <1>1, <1>2, StoredAgrees
<1>4. m' \in Memory /\ Alike(m', x) /\ (x.failed => m'.failed)
  BY <1>1 DEF Stored
<1>5. /\ m'.busy = m.busy /\ m'.waiting = m.waiting /\ m'.lastBody = m.lastBody
      /\ m'.compactOwners = m.compactOwners /\ m'.reasoning = m.reasoning
      /\ m'.opaqueSlot = m.opaqueSlot /\ m'.session = m.session /\ m'.retired = m.retired
      /\ m'.closing = m.closing
  BY <1>4 DEF Alike
<1>6. /\ m'.slot = x.slot /\ m'.chosen = x.chosen /\ m'.turnPending = x.turnPending
      /\ m'.aux = x.aux /\ m'.prepared = x.prepared /\ m'.recoveryRequired = x.recoveryRequired
      /\ m'.busy = x.busy /\ m'.waiting = x.waiting
  BY <1>4 DEF Alike
<1>7. (AuxActive(m') <=> AuxActive(x)) /\ (Idle(m') <=> Idle(x))
  BY <1>6 DEF AuxActive, Idle
<1>8. m.busy => \/ disk' = disk
                \/ /\ disk'.busy /\ ~disk'.retired /\ disk'.lastBody = m.lastBody
                   /\ disk'.slot = m.slot /\ disk'.session = m.session
  <2>1. CASE disk' = disk
    BY <2>1
  <2>2. CASE disk' = Image(x)
    BY <1>2, <2>2, ImageFields
  <2> QED
    BY <1>1, <2>1, <2>2 DEF Stored
<1>9. m'.busy \/ m'.turnPending \/ AuxActive(m') => m'.lease
  BY <1>1, <1>6, <1>7
<1>10. accountOp => ~m'.lease
  BY <1>1
<1>11. m'.prepared => Idle(m')
  BY <1>6, <1>7
<1>12. /\ m'.opaqueSlot # NoSlot => m'.slot = m'.opaqueSlot /\ m'.chosen
       /\ m'.turnPending \/ m'.busy \/ m'.aux \in {"idle", "busy", "pending"} => m'.chosen
  BY <1>5, <1>6
<1>13. /\ m'.retired => m'.closing /\ ~m.busy /\ ~m.waiting
       /\ m'.turnPending => m.turnPending
       /\ m.failed \/ m.recoveryRequired => m'.failed \/ m'.recoveryRequired
       /\ \/ interrupted' = interrupted
          \/ interrupted' = Cut /\ lastSent > 0 /\ m'.failed
       /\ m.busy => /\ m'.slot = m.slot /\ m'.recoveryRequired = m.recoveryRequired
                    /\ interrupted' = interrupted
  BY <1>2, <1>4, <1>5, <1>6
<1> QED
  BY <1>3, <1>4, <1>5, <1>8, <1>9, <1>10, <1>11, <1>12, <1>13, BesideStep


\* What such a step starts from.
LEMMA Beside ==
  ASSUME IInv
  PROVE  /\ m \in Memory /\ disk \in Saved /\ lastSent \in Nat
         /\ m.aux \in {"idle", "busy", "pending", "failed"} => alive
         /\ m.busy => m.session # NoThread /\ m.chosen /\ ~m.prepared
         /\ m.opaqueSlot # NoSlot => m.slot = m.opaqueSlot /\ m.chosen
         /\ m.turnPending \/ m.busy \/ m.aux \in {"idle", "busy", "pending"} => m.chosen
         /\ m.busy \/ m.turnPending \/ AuxActive(m) => m.lease
         /\ m.turnPending => lastSent > 0
         /\ accountOp => ~m.lease
         /\ m.prepared => Idle(m)
         /\ m.retired => m.closing /\ ~m.busy /\ ~m.waiting
<1>1. m \in Memory /\ disk \in Saved /\ lastSent \in Nat
  BY DEF IInv, TypeOK
<1>2. m.aux \in {"idle", "busy", "pending", "failed"} => alive
  BY DEF IInv, Quiescent, Blank
<1>3. /\ m.opaqueSlot # NoSlot => m.slot = m.opaqueSlot /\ m.chosen
      /\ m.turnPending \/ m.busy \/ m.aux \in {"idle", "busy", "pending"} => m.chosen
  BY DEF IInv, Pinned, OpaquePinned
<1>4. /\ m.busy \/ m.turnPending \/ AuxActive(m) => m.lease
      /\ accountOp => ~m.lease
  BY DEF IInv, Leased
<1>5. m.prepared => Idle(m)
  BY DEF IInv, AdmissionExclusive
<1>6. /\ m.retired => m.closing /\ ~m.busy /\ ~m.waiting
      /\ m.busy => m.session # NoThread
  BY DEF IInv, Bound
<1>7. m.turnPending => lastSent > 0
  BY DEF IInv, Attempted
<1> QED
  BY <1>1, <1>2, <1>3, <1>4, <1>5, <1>6, <1>7 DEF Idle

LEMMA RevisedShown ==
  ASSUME revise
  PROVE  TypeView' /\ Shown'
BY TypeParts DEF revise, NoView, Shown

LEMMA AuxCreateStep ==
  ASSUME IInv, NEW thread \in Threads, AuxCreate(thread)
  PROVE  IInv'
<1> DEFINE next == probeQuotaSelection(NoSlot, quotaSamples, Slots)
<1>1. PICK s : s = IF m.chosen THEN m.slot ELSE next
  OBVIOUS
<1>2. /\ alive /\ ~m.closing /\ ~m.prepared /\ m.aux = "none" /\ ~m.failed
      /\ m.session \in {NoThread, thread} /\ (m.chosen \/ next # NoSlot)
      /\ m' = [m EXCEPT !.slot = s, !.chosen = TRUE, !.session = thread, !.aux = "idle"]
      /\ applied \/ UNCHANGED quota
      /\ UNCHANGED <<alive, disk, pc, head, cur, ui, accountOp, cred, nextCred>>
      /\ UNCHANGED <<cli, interrupted, lastSent, restarts>>
  BY <1>1 DEF AuxCreate, world, client
<1>3. /\ m \in Memory /\ disk \in Saved
      /\ m.busy => m.session # NoThread /\ m.chosen
      /\ m.opaqueSlot # NoSlot => m.slot = m.opaqueSlot /\ m.chosen
      /\ m.busy \/ m.turnPending \/ AuxActive(m) => m.lease
      /\ accountOp => ~m.lease
      /\ m.retired => m.closing /\ ~m.busy /\ ~m.waiting
  BY Beside
<1>4. s \in Slots /\ (m.chosen => s = m.slot)
  <2>1. next \in Slots \cup {NoSlot}
    BY Selection
  <2> HIDE DEF next
  <2> QED
    BY <1>1, <1>2, <1>3, <2>1 DEF Memory
<1>5. /\ m' \in Memory /\ m'.slot = s /\ m'.chosen /\ m'.session = thread /\ m'.aux = "idle"
      /\ m'.busy = m.busy /\ m'.waiting = m.waiting /\ m'.lastBody = m.lastBody
      /\ m'.compactOwners = m.compactOwners /\ m'.reasoning = m.reasoning
      /\ m'.opaqueSlot = m.opaqueSlot
  <2>1. m' \in Memory
    BY <1>2, <1>3, <1>4 DEF Memory
  <2>2. m'.slot = s /\ m'.chosen /\ m'.session = thread /\ m'.aux = "idle"
    BY <1>2, <1>3 DEF Memory
  <2>3. /\ m'.busy = m.busy /\ m'.waiting = m.waiting /\ m'.lastBody = m.lastBody
        /\ m'.compactOwners = m.compactOwners /\ m'.reasoning = m.reasoning
        /\ m'.opaqueSlot = m.opaqueSlot
    BY <1>2, <1>3 DEF Memory
  <2> QED
    BY <2>1, <2>2, <2>3
<1>6. /\ m'.turnPending = m.turnPending /\ m'.lease = m.lease /\ m'.prepared = m.prepared
      /\ m'.closing = m.closing /\ m'.retired = m.retired /\ m'.failed = m.failed
      /\ m'.recoveryRequired = m.recoveryRequired /\ m'.checkpointErr = m.checkpointErr
  BY <1>2, <1>3 DEF Memory
<1>7. Shown' /\ TypeView' /\ TypeQuota' /\ Agrees
  BY <1>2, <1>5, <1>6, TypeParts DEF IInv, Shown, Agrees
<1>8. ~AuxActive(m')
  BY <1>5 DEF AuxActive
<1> HIDE DEF next
<1>9. /\ m'.opaqueSlot # NoSlot => m'.slot = m'.opaqueSlot /\ m'.chosen
      /\ m'.busy \/ m'.turnPending \/ AuxActive(m') => m'.lease
      /\ accountOp => ~m'.lease
      /\ m'.prepared => Idle(m')
      /\ m'.retired => m'.closing /\ ~m.busy /\ ~m.waiting
      /\ m.session # NoThread => m'.session = m.session
  BY <1>2, <1>3, <1>4, <1>5, <1>6, <1>8
<1>10. m.busy => m'.slot = m.slot /\ m'.recoveryRequired = m.recoveryRequired
  BY <1>3, <1>4, <1>5, <1>6
<1> QED
  BY <1>2, <1>3, <1>5, <1>6, <1>7, <1>9, <1>10, BesideStep

LEMMA AuxBeginStep ==
  ASSUME IInv, AuxBegin
  PROVE  IInv'
<1>1. PICK x : x = [m EXCEPT !.lease = TRUE, !.aux = "busy"]
  OBVIOUS
<1>2. /\ alive /\ m.aux \in {"idle", "pending"} /\ ~m.closing /\ ~m.prepared
      /\ ~m.checkpointErr /\ (m.lease \/ ~accountOp) /\ revise
      /\ UNCHANGED <<alive, pc, head, cur, accountOp, cred, nextCred, restarts>>
      /\ UNCHANGED quota /\ UNCHANGED <<cli, interrupted, lastSent>>
      /\ \/ state(x)
         \/ /\ disk' \in {disk, Image([m EXCEPT !.aux = "busy"])}
            /\ m' = [m EXCEPT !.lease = TRUE, !.checkpointErr = TRUE, !.failed = TRUE]
  BY <1>1 DEF AuxBegin, world, client
<1>3. /\ m \in Memory /\ disk \in Saved /\ ~accountOp
      /\ m.busy => m.session # NoThread
      /\ m.opaqueSlot # NoSlot => m.slot = m.opaqueSlot /\ m.chosen
      /\ m.turnPending \/ m.busy \/ m.aux \in {"idle", "busy", "pending"} => m.chosen
      /\ m.retired => m.closing /\ ~m.busy /\ ~m.waiting
  BY <1>2, Beside
<1>4. TypeView' /\ TypeQuota' /\ Shown'
  BY <1>2, RevisedShown, TypeParts DEF IInv
<1>5. CASE state(x)
  <2>1. /\ x \in Memory /\ x.busy = m.busy /\ x.waiting = m.waiting /\ x.lastBody = m.lastBody
        /\ x.compactOwners = m.compactOwners /\ x.reasoning = m.reasoning
        /\ x.opaqueSlot = m.opaqueSlot /\ x.session = m.session /\ x.retired = m.retired
        /\ x.closing = m.closing
    BY <1>1, <1>3 DEF Memory
  <2>2. /\ x.slot = m.slot /\ x.chosen = m.chosen /\ x.turnPending = m.turnPending /\ x.lease
        /\ x.prepared = m.prepared /\ x.recoveryRequired = m.recoveryRequired
        /\ x.failed = m.failed /\ x.aux = "busy"
    BY <1>1, <1>3 DEF Memory
  <2> QED
    BY <1>2, <1>3, <1>4, <1>5, <2>1, <2>2, StateBesideStep
<1>6. CASE /\ disk' \in {disk, Image([m EXCEPT !.aux = "busy"])}
           /\ m' = [m EXCEPT !.lease = TRUE, !.checkpointErr = TRUE, !.failed = TRUE]
  <2>1. PICK y : y = [m EXCEPT !.aux = "busy"]
    OBVIOUS
  <2>2. /\ y \in Memory /\ y.slot = m.slot /\ y.chosen = m.chosen /\ y.session = m.session
        /\ y.lastBody = m.lastBody /\ y.opaqueSlot = m.opaqueSlot
        /\ y.compactOwners = m.compactOwners /\ y.retired = m.retired /\ y.busy = m.busy
    BY <1>3, <2>1 DEF Memory
  <2>3. disk' \in {disk, Image(y)} /\ Image(y) \in Saved
    BY <1>6, <2>1, <2>2, ImageType
  <2>4. /\ m' \in Memory /\ m'.busy = m.busy /\ m'.waiting = m.waiting
        /\ m'.lastBody = m.lastBody /\ m'.compactOwners = m.compactOwners
        /\ m'.reasoning = m.reasoning /\ m'.opaqueSlot = m.opaqueSlot
        /\ m'.session = m.session /\ m'.retired = m.retired /\ m'.closing = m.closing
    BY <1>3, <1>6 DEF Memory
  <2>5. /\ m'.slot = m.slot /\ m'.chosen = m.chosen /\ m'.turnPending = m.turnPending
        /\ m'.lease /\ m'.prepared = m.prepared /\ m'.recoveryRequired = m.recoveryRequired
        /\ m'.failed /\ m'.aux = m.aux
    BY <1>3, <1>6 DEF Memory
  <2>6. Agrees /\ disk' \in Saved
    BY <1>3, <2>2, <2>3, <2>4, <2>5, ImageFields DEF Agrees
  <2>7. m.busy => \/ disk' = disk
                  \/ /\ disk'.busy /\ ~disk'.retired /\ disk'.lastBody = m.lastBody
                     /\ disk'.slot = m.slot /\ disk'.session = m.session
    BY <1>3, <2>2, <2>3, ImageFields
  <2> QED
    BY <1>2, <1>3, <1>4, <2>4, <2>5, <2>6, <2>7, BesideStep
<1> QED
  BY <1>2, <1>5, <1>6

LEMMA AuxEndStep ==
  ASSUME IInv, NEW outcome \in {"idle", "pending", "failed"}, AuxEnd(outcome)
  PROVE  IInv'
<1>1. PICK x : x = [m EXCEPT !.aux = outcome]
  OBVIOUS
<1>2. /\ m.aux = "busy" /\ state(x) /\ revise
      /\ UNCHANGED <<alive, pc, head, cur, accountOp, cred, nextCred, restarts>>
      /\ UNCHANGED quota /\ UNCHANGED <<cli, interrupted, lastSent>>
  BY <1>1 DEF AuxEnd, world, client
<1>3. /\ m \in Memory /\ alive /\ m.lease /\ ~accountOp /\ m.chosen /\ ~m.prepared
      /\ m.opaqueSlot # NoSlot => m.slot = m.opaqueSlot
  BY <1>2, Beside DEF Idle, AuxActive
<1>4. TypeView' /\ TypeQuota' /\ Shown'
  BY <1>2, RevisedShown, TypeParts DEF IInv
<1>5. /\ x \in Memory /\ x.busy = m.busy /\ x.waiting = m.waiting /\ x.lastBody = m.lastBody
      /\ x.compactOwners = m.compactOwners /\ x.reasoning = m.reasoning
      /\ x.opaqueSlot = m.opaqueSlot /\ x.session = m.session /\ x.retired = m.retired
      /\ x.closing = m.closing
  BY <1>1, <1>3 DEF Memory
<1>6. /\ x.slot = m.slot /\ x.chosen = m.chosen /\ x.turnPending = m.turnPending
      /\ x.lease = m.lease /\ x.prepared = m.prepared /\ x.failed = m.failed
      /\ x.recoveryRequired = m.recoveryRequired
  BY <1>1, <1>3 DEF Memory
<1> QED
  BY <1>2, <1>3, <1>4, <1>5, <1>6, StateBesideStep

LEMMA AuxLimitedStep ==
  ASSUME IInv, NEW s \in Slots, AuxLimited(s)
  PROVE  IInv'
<1>1. /\ m.aux = "busy" /\ state(m) /\ revise /\ s \notin limits
      /\ limits' = (limits \ Cleared) \cup {s} /\ newer' = newer \ Cleared
      /\ UNCHANGED <<sample, polls>>
      /\ UNCHANGED <<alive, pc, head, cur, accountOp, cred, nextCred, restarts>>
      /\ UNCHANGED <<cli, interrupted, lastSent>>
  BY DEF AuxLimited, world, client
<1>2. /\ m \in Memory /\ alive /\ m.lease /\ ~accountOp /\ m.chosen /\ ~m.prepared
      /\ m.opaqueSlot # NoSlot => m.slot = m.opaqueSlot
  BY <1>1, Beside DEF Idle, AuxActive
<1>3. TypeQuota'
  BY <1>1, TypeParts DEF IInv, TypeQuota
<1>4. TypeView' /\ Shown'
  BY <1>1, RevisedShown
<1> QED
  BY <1>1, <1>2, <1>3, <1>4, StateBesideStep


\* The UI goes on seeing what it saw of a record that was stored unchanged there.
LEMMA StillShown ==
  ASSUME IInv, NEW x, Stored(x), ui' = ui, lastSent' = lastSent,
         x.busy = m.busy, x.closing = m.closing, x.checkpointErr = m.checkpointErr,
         x.turnPending = m.turnPending, x.failed = m.failed
  PROVE  TypeView' /\ Shown'
<1>1. TypeView'
  BY TypeParts DEF IInv
<1>2. /\ m'.busy = m.busy /\ m'.closing = m.closing /\ m'.turnPending = m.turnPending
      /\ ~m'.checkpointErr => ~m.checkpointErr /\ m'.failed = m.failed
  BY DEF Stored, Alike
<1> QED
  BY <1>1, <1>2 DEF IInv, Shown

LEMMA StatusStep ==
  ASSUME IInv, Status
  PROVE  IInv'
<1>1. /\ alive /\ state(m) /\ (applied \/ UNCHANGED quota)
      /\ ui' = [current |-> TRUE, slot |-> m.slot, pending |-> m.turnPending,
                failed |-> m'.failed, turn |-> lastSent]
      /\ UNCHANGED <<alive, pc, head, cur, accountOp, cred, nextCred, restarts>>
      /\ UNCHANGED <<cli, interrupted, lastSent>>
  BY DEF Status, Control, Untouched, world, client
<1>2. m \in Memory
  BY Beside
<1>3. Stored(m)
  BY <1>1, <1>2, StateEffect
<1>4. TypeQuota'
  BY <1>1, TypeParts DEF IInv
<1>5. TypeView'
  <2>1. m.slot \in Slots /\ lastSent \in 0..MaxUser
    BY <1>2 DEF IInv, TypeOK, Memory
  <2>2. m.turnPending \in BOOLEAN /\ m'.failed \in BOOLEAN
    BY <1>2, <1>3 DEF Memory, Stored
  <2>3. PICK p \in BOOLEAN : p = m.turnPending
    BY <2>2, Zenon
  <2>4. PICK f \in BOOLEAN : f = m'.failed
    BY <2>2, Zenon
  <2>5. ui' = [current |-> TRUE, slot |-> m.slot, pending |-> p, failed |-> f, turn |-> lastSent]
    BY <1>1, <2>3, <2>4
  <2> QED
    BY <2>1, <2>5 DEF TypeView
<1>6. Shown'
  <2>1. ui'.turn = lastSent' /\ ui'.pending = m.turnPending /\ ui'.failed = m'.failed
    BY <1>1
  <2>2. m'.turnPending = m.turnPending
    BY <1>3 DEF Stored, Alike
  <2> QED
    BY <2>1, <2>2 DEF Shown
<1> QED
  BY <1>1, <1>4, <1>5, <1>6, Beside, StateBesideStep

LEMMA PrepareShutdownStep ==
  ASSUME IInv, NEW delete \in BOOLEAN, PrepareShutdown(delete)
  PROVE  IInv'
<1> DEFINE ok == Idle(m) /\ ~m.checkpointErr /\ (delete => ui.current)
<1>1. PICK b \in BOOLEAN : b = ok
  <2>1. ok \in BOOLEAN
    OBVIOUS
  <2> QED
    BY <2>1, Zenon
<1>2. PICK x : x = [m EXCEPT !.prepared = b]
  OBVIOUS
<1>3. /\ alive /\ state(x) /\ UNCHANGED quota /\ ui' = ui
      /\ UNCHANGED <<alive, pc, head, cur, accountOp, cred, nextCred, restarts>>
      /\ UNCHANGED <<cli, interrupted, lastSent>>
  BY <1>1, <1>2 DEF PrepareShutdown, Control, Untouched, world, client
<1>4. m \in Memory
  BY Beside
<1>5. /\ x \in Memory /\ x.busy = m.busy /\ x.waiting = m.waiting /\ x.lastBody = m.lastBody
      /\ x.compactOwners = m.compactOwners /\ x.reasoning = m.reasoning
      /\ x.opaqueSlot = m.opaqueSlot /\ x.session = m.session /\ x.retired = m.retired
      /\ x.closing = m.closing
  BY <1>2, <1>4 DEF Memory
<1>6. /\ x.slot = m.slot /\ x.chosen = m.chosen /\ x.turnPending = m.turnPending
      /\ x.lease = m.lease /\ x.prepared = b /\ x.failed = m.failed /\ x.aux = m.aux
      /\ x.recoveryRequired = m.recoveryRequired /\ x.checkpointErr = m.checkpointErr
  BY <1>2, <1>4 DEF Memory
<1>7. TypeQuota' /\ TypeView' /\ Shown'
  <2>1. Stored(x)
    BY <1>3, <1>5, StateEffect
  <2> QED
    BY <1>3, <1>5, <1>6, <2>1, StillShown, TypeParts DEF IInv
<1>8. (x.prepared => Idle(x)) /\ (AuxActive(x) <=> AuxActive(m))
  BY <1>1, <1>5, <1>6 DEF Idle, AuxActive
<1> HIDE DEF ok
<1> QED
  BY <1>3, <1>5, <1>6, <1>7, <1>8, Beside, StateBesideStep

LEMMA AbortShutdownStep ==
  ASSUME IInv, AbortShutdown
  PROVE  IInv'
<1>1. PICK x : x = [m EXCEPT !.prepared = FALSE]
  OBVIOUS
<1>2. /\ alive /\ state(x) /\ UNCHANGED quota /\ ui' = ui
      /\ UNCHANGED <<alive, pc, head, cur, accountOp, cred, nextCred, restarts>>
      /\ UNCHANGED <<cli, interrupted, lastSent>>
  BY <1>1 DEF AbortShutdown, Control, Untouched, world, client
<1>3. m \in Memory
  BY Beside
<1>4. /\ x \in Memory /\ x.busy = m.busy /\ x.waiting = m.waiting /\ x.lastBody = m.lastBody
      /\ x.compactOwners = m.compactOwners /\ x.reasoning = m.reasoning
      /\ x.opaqueSlot = m.opaqueSlot /\ x.session = m.session /\ x.retired = m.retired
      /\ x.closing = m.closing
  BY <1>1, <1>3 DEF Memory
<1>5. /\ x.slot = m.slot /\ x.chosen = m.chosen /\ x.turnPending = m.turnPending
      /\ x.lease = m.lease /\ ~x.prepared /\ x.failed = m.failed /\ x.aux = m.aux
      /\ x.recoveryRequired = m.recoveryRequired /\ x.checkpointErr = m.checkpointErr
  BY <1>1, <1>3 DEF Memory
<1>6. TypeQuota' /\ TypeView' /\ Shown'
  <2>1. Stored(x)
    BY <1>2, <1>4, StateEffect
  <2> QED
    BY <1>2, <1>4, <1>5, <2>1, StillShown, TypeParts DEF IInv
<1>7. AuxActive(x) <=> AuxActive(m)
  BY <1>5 DEF AuxActive
<1> QED
  BY <1>2, <1>4, <1>5, <1>6, <1>7, Beside, StateBesideStep

LEMMA AbandonStep ==
  ASSUME IInv, Abandon
  PROVE  IInv'
<1>1. PICK a : a = IF m.aux = "pending" THEN "failed" ELSE m.aux
  OBVIOUS
<1>2. PICK x : x = [m EXCEPT !.turnPending = FALSE, !.failed = TRUE, !.aux = a]
  OBVIOUS
<1>3. m \in Memory
  BY Beside
<1>4. /\ alive /\ state(x) /\ revise /\ UNCHANGED quota /\ ~m.busy /\ m.aux # "busy"
      /\ interrupted' = interrupted \/ (interrupted' = Cut /\ m.turnPending)
      /\ UNCHANGED <<alive, pc, head, cur, accountOp, cred, nextCred, restarts>>
      /\ UNCHANGED <<cli, lastSent>>
  <2>1. x = [m EXCEPT !.turnPending = FALSE, !.failed = TRUE,
                      !.aux = IF @ = "pending" THEN "failed" ELSE @]
    BY <1>1, <1>2, <1>3 DEF Memory
  <2> QED
    BY <2>1 DEF Abandon, AbandonAllowed, Control, Untouched, world
<1>5. a \in {"none", "idle", "failed"} /\ (a = "idle" => m.aux = "idle")
  BY <1>1, <1>3, <1>4 DEF Memory
<1>6. /\ x \in Memory /\ x.busy = m.busy /\ x.waiting = m.waiting /\ x.lastBody = m.lastBody
      /\ x.compactOwners = m.compactOwners /\ x.reasoning = m.reasoning
      /\ x.opaqueSlot = m.opaqueSlot /\ x.session = m.session /\ x.retired = m.retired
      /\ x.closing = m.closing
  BY <1>2, <1>3, <1>5 DEF Memory
<1>7. /\ x.slot = m.slot /\ x.chosen = m.chosen /\ ~x.turnPending
      /\ x.lease = m.lease /\ x.prepared = m.prepared /\ x.failed /\ x.aux = a
      /\ x.recoveryRequired = m.recoveryRequired
  BY <1>2, <1>3 DEF Memory
<1>8. TypeQuota' /\ TypeView' /\ Shown'
  BY <1>4, RevisedShown, TypeParts DEF IInv
<1>9. ~AuxActive(x) /\ (x.prepared => Idle(x))
  <2>1. ~AuxActive(x)
    BY <1>5, <1>7 DEF AuxActive
  <2>2. m.prepared => Idle(m)
    BY Beside
  <2> QED
    BY <1>6, <1>7, <2>1, <2>2 DEF Idle
<1>10. x.turnPending \/ x.busy \/ x.aux \in {"idle", "busy", "pending"} => x.chosen
  BY <1>4, <1>5, <1>6, <1>7, Beside
<1>11. /\ \/ interrupted' = interrupted
          \/ interrupted' = Cut /\ lastSent > 0 /\ x.failed
       /\ x.opaqueSlot # NoSlot => x.slot = x.opaqueSlot /\ x.chosen
       /\ accountOp => ~x.lease
  BY <1>4, <1>6, <1>7, Beside
<1> QED
  BY <1>4, <1>6, <1>7, <1>8, <1>9, <1>10, <1>11, StateBesideStep


LEMMA SelectsStep ==
  ASSUME IInv, alive, NEW target, selects(target)
  PROVE  IInv'
<1>1. PICK y : y = IF m.failed THEN [m EXCEPT !.failed = FALSE, !.recoveryRequired = TRUE,
                                              !.previousSlot = NoSlot,
                                              !.previousCredential = NoCred]
                   ELSE m
  OBVIOUS
<1>2. PICK x : x = [y EXCEPT !.slot = target, !.chosen = TRUE]
  OBVIOUS
<1>3. /\ target \in Slots /\ Idle(m) /\ (m.opaqueSlot # NoSlot => target = m.opaqueSlot)
      /\ state(x) /\ applied /\ revise
      /\ UNCHANGED <<alive, pc, head, cur, accountOp, cred, nextCred, restarts>>
      /\ UNCHANGED <<cli, interrupted, lastSent>>
  BY <1>1, <1>2 DEF selects, SelectionAllowed, Untouched, world, client
<1>4. m \in Memory
  BY Beside
<1>5. /\ y \in Memory /\ y.busy = m.busy /\ y.waiting = m.waiting /\ y.lastBody = m.lastBody
      /\ y.compactOwners = m.compactOwners /\ y.reasoning = m.reasoning
      /\ y.opaqueSlot = m.opaqueSlot /\ y.session = m.session /\ y.retired = m.retired
      /\ y.closing = m.closing
  <2>1. CASE ~m.failed
    BY <1>1, <1>4, <2>1
  <2>2. CASE m.failed
    <3>1. y = [m EXCEPT !.failed = FALSE, !.recoveryRequired = TRUE, !.previousSlot = NoSlot,
                        !.previousCredential = NoCred]
      BY <1>1, <2>2
    <3>2. y \in Memory
      BY <1>4, <3>1 DEF Memory
    <3>3. /\ y.busy = m.busy /\ y.waiting = m.waiting /\ y.lastBody = m.lastBody
          /\ y.compactOwners = m.compactOwners /\ y.reasoning = m.reasoning
      BY <1>4, <3>1 DEF Memory
    <3>4. /\ y.opaqueSlot = m.opaqueSlot /\ y.session = m.session /\ y.retired = m.retired
          /\ y.closing = m.closing
      BY <1>4, <3>1 DEF Memory
    <3> QED
      BY <3>2, <3>3, <3>4
  <2> QED
    BY <2>1, <2>2
<1>6. /\ y.turnPending = m.turnPending /\ y.lease = m.lease /\ y.prepared = m.prepared
      /\ y.aux = m.aux
      /\ m.failed \/ m.recoveryRequired => y.failed \/ y.recoveryRequired
  <2>1. CASE ~m.failed
    BY <1>1, <1>4, <2>1
  <2>2. CASE m.failed
    BY <1>1, <1>4, <2>2 DEF Memory
  <2> QED
    BY <2>1, <2>2
<1>7. /\ x \in Memory /\ x.busy = m.busy /\ x.waiting = m.waiting /\ x.lastBody = m.lastBody
      /\ x.compactOwners = m.compactOwners /\ x.reasoning = m.reasoning
      /\ x.opaqueSlot = m.opaqueSlot /\ x.session = m.session /\ x.retired = m.retired
      /\ x.closing = m.closing
  BY <1>2, <1>3, <1>5 DEF Memory
<1>8. /\ x.slot = target /\ x.chosen /\ x.turnPending = m.turnPending
      /\ x.lease = m.lease /\ x.prepared = m.prepared /\ x.aux = m.aux
      /\ m.failed \/ m.recoveryRequired => x.failed \/ x.recoveryRequired
  BY <1>2, <1>5, <1>6 DEF Memory
<1>9. TypeQuota' /\ TypeView' /\ Shown'
  BY <1>3, RevisedShown, TypeParts DEF IInv
<1>10. Idle(x) /\ ~AuxActive(x) /\ ~m.busy
  BY <1>3, <1>7, <1>8 DEF Idle, AuxActive
<1>11. accountOp => ~x.lease
  BY <1>8, Beside
<1> QED
  BY <1>3, <1>7, <1>8, <1>9, <1>10, <1>11, StateBesideStep DEF Idle

LEMMA ShutdownStep ==
  ASSUME IInv, NEW delete \in BOOLEAN, NEW newSession \in BOOLEAN, Shutdown(delete, newSession)
  PROVE  IInv'
<1>1. m \in Memory /\ disk \in Saved
  BY Beside
<1>2. PICK r \in BOOLEAN : r = (m.retired \/ delete \/ newSession)
  <2>1. (m.retired \/ delete \/ newSession) \in BOOLEAN
    OBVIOUS
  <2> QED
    BY <2>1, Zenon
<1>3. PICK x : x = [m EXCEPT !.closing = TRUE, !.retired = r]
  OBVIOUS
<1>4. PICK y : y = [x EXCEPT !.checkpointErr = TRUE]
  OBVIOUS
<1>5. /\ x \in Memory /\ x.busy = m.busy /\ x.waiting = m.waiting /\ x.lastBody = m.lastBody
      /\ x.compactOwners = m.compactOwners /\ x.reasoning = m.reasoning
      /\ x.opaqueSlot = m.opaqueSlot /\ x.session = m.session /\ x.retired = r
      /\ x.closing /\ x.slot = m.slot /\ x.chosen = m.chosen
  BY <1>1, <1>3 DEF Memory
<1>6. /\ x.turnPending = m.turnPending /\ x.aux = m.aux /\ x.prepared = m.prepared
  BY <1>1, <1>3 DEF Memory
<1>7. PICK z \in {x, y} : /\ m' = [z EXCEPT !.failed = TRUE, !.lease = FALSE]
                          /\ disk' \in {disk, Image(x)}
  <2>1. x = [m EXCEPT !.closing = TRUE, !.retired = @ \/ delete \/ newSession]
    BY <1>1, <1>2, <1>3 DEF Memory
  <2>2. \/ /\ m' = [x EXCEPT !.failed = TRUE, !.lease = FALSE]
           /\ disk' = IF m.checkpointErr THEN disk ELSE Image(x)
        \/ /\ m' = [y EXCEPT !.failed = TRUE, !.lease = FALSE]
           /\ disk' \in {disk, Image(x)}
    BY <1>4, <2>1 DEF Shutdown
  <2> QED
    BY <2>2
<1>8. /\ alive /\ Idle(m) /\ UNCHANGED quota /\ ui' = ui
      /\ UNCHANGED <<alive, pc, head, cur, accountOp, cred, nextCred, restarts>>
      /\ UNCHANGED <<cli, interrupted, lastSent>>
  BY DEF Shutdown, Control, Untouched, world, client
<1>9. /\ z \in Memory /\ z.busy = m.busy /\ z.waiting = m.waiting /\ z.lastBody = m.lastBody
      /\ z.compactOwners = m.compactOwners /\ z.reasoning = m.reasoning
      /\ z.opaqueSlot = m.opaqueSlot /\ z.session = m.session /\ z.retired = r
      /\ z.closing /\ z.slot = m.slot /\ z.chosen = m.chosen
  <2>1. CASE z = x
    BY <1>5, <2>1
  <2>2. CASE z = y
    BY <1>4, <1>5, <2>2 DEF Memory
  <2> QED
    BY <1>7, <2>1, <2>2
<1>10. z.turnPending = m.turnPending /\ z.aux = m.aux /\ z.prepared = m.prepared
  <2>1. CASE z = x
    BY <1>6, <2>1
  <2>2. CASE z = y
    BY <1>4, <1>5, <1>6, <2>2 DEF Memory
  <2> QED
    BY <1>7, <2>1, <2>2
<1>11. /\ m' \in Memory /\ m'.busy = m.busy /\ m'.waiting = m.waiting
       /\ m'.lastBody = m.lastBody /\ m'.compactOwners = m.compactOwners
       /\ m'.reasoning = m.reasoning /\ m'.opaqueSlot = m.opaqueSlot
       /\ m'.session = m.session /\ m'.retired = r /\ m'.closing
  BY <1>7, <1>9 DEF Memory
<1>12. /\ m'.slot = m.slot /\ m'.chosen = m.chosen
       /\ m'.turnPending = m.turnPending /\ m'.aux = m.aux /\ m'.prepared = m.prepared
       /\ m'.failed /\ ~m'.lease
  BY <1>7, <1>9, <1>10 DEF Memory
<1>13. Idle(m') /\ ~AuxActive(m') /\ ~m.busy /\ ~m.waiting /\ ~m.turnPending
  BY <1>8, <1>11, <1>12 DEF Idle, AuxActive
<1>14. Agrees /\ disk' \in Saved
  <2>1. Image(x) \in Saved
    BY <1>5, ImageType
  <2> QED
    BY <1>1, <1>5, <1>7, <1>11, <1>12, <2>1, ImageFields DEF Agrees
<1>15. TypeQuota' /\ TypeView' /\ Shown'
  <2>1. Shown'
    BY <1>11 DEF Shown
  <2> QED
    BY <1>8, <2>1, TypeParts DEF IInv
<1>16. /\ m'.opaqueSlot # NoSlot => m'.slot = m'.opaqueSlot /\ m'.chosen
       /\ m'.turnPending \/ m'.busy \/ m'.aux \in {"idle", "busy", "pending"} => m'.chosen
  BY <1>11, <1>12, Beside
<1> QED
  BY <1>8, <1>11, <1>12, <1>13, <1>14, <1>15, <1>16, BesideStep DEF Idle

LEMMA StopStep ==
  ASSUME IInv, Stop
  PROVE  IInv'
<1>1. /\ alive /\ m' = [m EXCEPT !.closing = TRUE] /\ UNCHANGED quota /\ ui' = ui
      /\ UNCHANGED <<alive, disk, pc, head, cur, accountOp, cred, nextCred, restarts>>
      /\ UNCHANGED <<cli, interrupted, lastSent>>
  BY DEF Stop, world, client
<1>2. m \in Memory /\ disk \in Saved
  BY Beside
<1>3. /\ m' \in Memory /\ m'.busy = m.busy /\ m'.waiting = m.waiting
      /\ m'.lastBody = m.lastBody /\ m'.compactOwners = m.compactOwners
      /\ m'.reasoning = m.reasoning /\ m'.opaqueSlot = m.opaqueSlot
      /\ m'.session = m.session /\ m'.retired = m.retired /\ m'.closing
  BY <1>1, <1>2 DEF Memory
<1>4. /\ m'.slot = m.slot /\ m'.chosen = m.chosen /\ m'.turnPending = m.turnPending
      /\ m'.aux = m.aux /\ m'.prepared = m.prepared /\ m'.failed = m.failed
      /\ m'.lease = m.lease /\ m'.recoveryRequired = m.recoveryRequired
  BY <1>1, <1>2 DEF Memory
<1>5. (AuxActive(m') <=> AuxActive(m)) /\ (Idle(m') <=> Idle(m))
  BY <1>3, <1>4 DEF Idle, AuxActive
<1>6. TypeQuota' /\ TypeView' /\ Shown' /\ Agrees
  <2>1. Shown' /\ Agrees
    BY <1>1, <1>3 DEF Shown, Agrees
  <2> QED
    BY <1>1, <2>1, TypeParts DEF IInv
<1>7. /\ m'.opaqueSlot # NoSlot => m'.slot = m'.opaqueSlot /\ m'.chosen
      /\ m'.turnPending \/ m'.busy \/ m'.aux \in {"idle", "busy", "pending"} => m'.chosen
      /\ m'.busy \/ m'.turnPending \/ AuxActive(m') => m'.lease
      /\ accountOp => ~m'.lease
      /\ m'.prepared => Idle(m')
      /\ m'.retired => m'.closing /\ ~m.busy /\ ~m.waiting
  BY <1>3, <1>4, <1>5, Beside
<1> QED
  BY <1>1, <1>2, <1>3, <1>4, <1>6, <1>7, BesideStep


-----------------------------------------------------------------------------
(* The process and the rest of the machine.                                *)

LEMMA WorldStep ==
  ASSUME IInv, UNCHANGED process, UNCHANGED client, UNCHANGED restarts, TypeQuota',
         accountOp' \in BOOLEAN, cred' \in [Slots -> Creds], nextCred' \in 1..(MaxCred + 1),
         accountOp' => ~m.lease /\ nextCred' <= MaxCred
  PROVE  IInv'
<1>1. /\ UNCHANGED <<alive, m, disk, pc, head, cur, ui>>
      /\ UNCHANGED <<cli, interrupted, lastSent, restarts>>
  BY DEF process, client
<1>2. TypeOK'
  BY <1>1 DEF IInv, TypeOK, TypeQuota
<1>3. Quiescent' /\ AdmissionExclusive' /\ Leased' /\ Bound' /\ Shown'
  BY <1>1 DEF IInv, Quiescent, AdmissionExclusive, Leased, Bound, Shown
<1>4. Pinned' /\ Owned' /\ Attempted'
  BY <1>1 DEF IInv, Pinned, OpaquePinned, Owned, Attempted, AttemptOnce
<1>5. InFlight' /\ Guarded'
  <2>1. InFlight'
    BY <1>1 DEF IInv, InFlight, SelectedAt, OwnedAt, CheckpointedAt
  <2>2. \A g \in Handlers : RepeatedAt(pc[g]) => RepeatedAt(pc[g])'
    BY <1>1 DEF RepeatedAt
  <2>3. Repeated => Repeated'
    BY <1>1, <2>2 DEF Repeated
  <2> QED
    BY <2>1, <2>3 DEF IInv, Guarded
<1> QED
  BY <1>2, <1>3, <1>4, <1>5 DEF IInv

LEMMA UsagePollStep ==
  ASSUME IInv, NEW s \in Slots, NEW level \in Levels, NEW after \in BOOLEAN,
         UsagePoll(s, level, after)
  PROVE  IInv'
<1>1. TypeQuota'
  <2>1. MaxPolls \in Nat
    BY ConnectionAssumption
  <2>2. /\ sample' = [sample EXCEPT ![s] = level] /\ limits' = limits
        /\ polls < MaxPolls /\ polls' = polls + 1
        /\ newer' = newer \cup {s} \/ newer' = newer \ {s}
        /\ newer' = newer \cup {s} => s \in limits
    BY DEF UsagePoll
  <2> QED
    BY <2>1, <2>2 DEF IInv, TypeOK, TypeQuota
<1>2. /\ UNCHANGED process /\ UNCHANGED client /\ UNCHANGED restarts
      /\ UNCHANGED <<accountOp, cred, nextCred>>
  BY DEF UsagePoll, world
<1> QED
  BY <1>1, <1>2, WorldStep DEF IInv, TypeOK, Leased

LEMMA MarkedElsewhereStep ==
  ASSUME IInv, NEW s \in Slots, MarkedElsewhere(s)
  PROVE  IInv'
<1>1. TypeQuota'
  <2>1. MaxPolls \in Nat
    BY ConnectionAssumption
  <2> QED
    BY <2>1 DEF IInv, TypeOK, TypeQuota, MarkedElsewhere
<1>2. /\ UNCHANGED process /\ UNCHANGED client /\ UNCHANGED restarts
      /\ UNCHANGED <<accountOp, cred, nextCred>>
  BY DEF MarkedElsewhere, world
<1> QED
  BY <1>1, <1>2, WorldStep DEF IInv, TypeOK, Leased

LEMMA AccountStep ==
  ASSUME IInv, AccountBegin \/ \E s \in Slots : AccountEnd(s)
  PROVE  IInv'
<1>1. TypeQuota'
  BY TypeParts DEF IInv, AccountBegin, AccountEnd
<1>2. CASE AccountBegin
  <2>1. /\ UNCHANGED process /\ UNCHANGED client /\ UNCHANGED restarts
        /\ accountOp' = TRUE /\ ~m.lease /\ nextCred <= MaxCred
        /\ UNCHANGED <<cred, nextCred>>
    BY <1>2 DEF AccountBegin
  <2> QED
    BY <1>1, <2>1, WorldStep DEF IInv, TypeOK
<1>3. ASSUME NEW s \in Slots, AccountEnd(s) PROVE IInv'
  <2>1. /\ UNCHANGED process /\ UNCHANGED client /\ UNCHANGED restarts
        /\ accountOp' = FALSE /\ accountOp
        /\ cred' = [cred EXCEPT ![s] = nextCred] /\ nextCred' = nextCred + 1
    BY <1>3 DEF AccountEnd
  <2>2. nextCred \in 1..(MaxCred + 1) /\ nextCred <= MaxCred /\ MaxCred \in Nat
    BY <2>1, ConnectionAssumption DEF IInv, TypeOK, Leased
  <2>3. nextCred' \in 1..(MaxCred + 1) /\ nextCred \in Creds
    BY <2>1, <2>2 DEF Creds
  <2>4. cred' \in [Slots -> Creds]
    BY <2>1, <2>3 DEF IInv, TypeOK
  <2> QED
    BY <1>1, <2>1, <2>3, <2>4, WorldStep
<1> QED
  BY <1>2, <1>3

\* What an idle process keeps in memory.
LEMMA BlankFields ==
  /\ Blank.slot = First /\ Blank.session = NoThread /\ Blank.lastBody = NoBody
  /\ ~Blank.busy /\ ~Blank.waiting /\ ~Blank.turnPending /\ ~Blank.prepared /\ ~Blank.retired
  /\ Blank.opaqueSlot = NoSlot /\ Blank.compactOwners = {} /\ Blank.reasoning = NoReasoning
  /\ Blank.aux = "none" /\ ~Blank.lease /\ Blank \in Memory
  /\ NoReasoning.keys = {}
  /\ NoRequest.tried = {} /\ NoRequest.attempts = 0
  /\ ~NoView.current
<1>1. Blank \in Memory
  BY Literals
<1>2. /\ Blank.slot = First /\ Blank.session = NoThread /\ Blank.lastBody = NoBody
      /\ ~Blank.busy /\ ~Blank.waiting /\ ~Blank.turnPending /\ ~Blank.prepared /\ ~Blank.retired
  BY DEF Blank
<1>3. /\ Blank.opaqueSlot = NoSlot /\ Blank.compactOwners = {} /\ Blank.reasoning = NoReasoning
      /\ Blank.aux = "none" /\ ~Blank.lease
  BY DEF Blank
<1>4. NoReasoning.keys = {} /\ NoRequest.tried = {} /\ NoRequest.attempts = 0 /\ ~NoView.current
  BY DEF NoReasoning, NoRequest, NoView
<1> QED
  BY <1>1, <1>2, <1>3, <1>4

LEMMA NothingTried ==
  IsFiniteSet(NoRequest.tried) /\ Cardinality(NoRequest.tried) >= NoRequest.attempts
<1>1. NoRequest.tried = {} /\ NoRequest.attempts = 0
  BY BlankFields
<1>2. IsFiniteSet(NoRequest.tried) /\ Cardinality(NoRequest.tried) = 0
  BY <1>1, FS_EmptySet
<1> QED
  BY <1>1, <1>2

LEMMA GoneStep ==
  ASSUME IInv, Gone, interrupted' = interrupted \/ (interrupted' = Cut /\ lastSent > 0)
  PROVE  IInv'
<1>1. /\ alive' = FALSE /\ m' = Blank /\ pc' = [h \in Handlers |-> "idle"]
      /\ head' = [h \in Handlers |-> NoHead] /\ cur' = NoRequest /\ ui' = NoView
      /\ UNCHANGED quota
      /\ UNCHANGED <<disk, accountOp, cred, nextCred, cli, lastSent, restarts>>
  BY DEF Gone, world
<1>2. /\ pc' \in [Handlers -> Stages] /\ \A h \in Handlers : pc'[h] = "idle"
      /\ \A h \in Handlers : pc'[h] \notin Active /\ pc'[h] \notin Waiting
  BY <1>1 DEF Stages, Active, Waiting
<1> HIDE DEF Blank, NoRequest, NoView, NoHead
<1>3. TypeOK'
  <2>1. TypeQuota'
    BY <1>1, TypeParts DEF IInv
  <2>2. interrupted' \in SUBSET (0..MaxUser)
    BY DEF IInv, TypeOK, Cut
  <2>3. head' \in [Handlers -> [thread : Threads \cup {NoThread}, compact : BOOLEAN]]
    BY <1>1, Literals
  <2> QED
    BY <1>1, <1>2, <2>1, <2>2, <2>3, Literals DEF IInv, TypeOK, TypeQuota
<1>4. Quiescent'
  BY <1>1, <1>2, BlankFields DEF Quiescent
<1>5. AdmissionExclusive'
  BY <1>1, <1>2, BlankFields DEF AdmissionExclusive, Waiting
<1>6. Leased' /\ Bound' /\ Shown'
  BY <1>1, <1>2, BlankFields DEF IInv, Leased, Bound, Shown, AuxActive
<1>7. Pinned' /\ Owned'
  BY <1>1, BlankFields DEF IInv, Pinned, OpaquePinned, Owned
<1>8. Attempted'
  BY <1>1, BlankFields, NothingTried DEF Attempted, AttemptOnce
<1>9. InFlight' /\ \A g \in Handlers : RepeatedAt(pc[g])'
  BY <1>2, Rested
<1>10. Guarded'
  <2>1. SUFFICES ASSUME Repeated PROVE Repeated'
    BY DEF IInv, Guarded
  <2>2. UserOf(m'.lastBody) <= cli'.user /\ UserOf(disk'.lastBody) <= cli'.user
    <3>1. UserOf(m'.lastBody) = 0
      BY <1>1, BlankFields, UserRange
    <3>2. cli.user \in Nat
      BY DEF IInv, TypeOK
    <3> QED
      BY <1>1, <2>1, <3>1, <3>2 DEF Repeated
  <2>3. \A u \in interrupted' : 0 < u /\ u <= lastSent'
    <3>1. lastSent \in Nat
      BY DEF IInv, TypeOK
    <3> QED
      BY <1>1, <2>1, <3>1 DEF Repeated, Cut
  <2>4. ~alive'
    BY <1>1
  <2>5. ~disk'.retired => /\ lastSent' <= UserOf(disk'.lastBody)
                          /\ lastSent' > 0 => disk'.session # NoThread
    BY <1>1, <2>1 DEF Repeated
  <2> QED
    BY <1>9, <2>2, <2>3, <2>4, <2>5 DEF Repeated
<1> QED
  BY <1>3, <1>4, <1>5, <1>6, <1>7, <1>8, <1>9, <1>10 DEF IInv

LEMMA LeavesStep ==
  ASSUME IInv, Exit \/ Crash
  PROVE  IInv'
<1>1. Gone /\ (interrupted' = interrupted \/ (interrupted' = Cut /\ (m.turnPending \/ cur.attempts > 0)))
  BY DEF Exit, Crash
<1> QED
  BY <1>1, GoneStep DEF IInv, Attempted


LEMMA RestoredFields ==
  ASSUME disk \in Saved, ~disk.retired
  PROVE  /\ Restored \in Memory /\ Restored.slot = disk.slot /\ Restored.chosen = disk.chosen
         /\ Restored.session = disk.session /\ Restored.lastBody = disk.lastBody
         /\ Restored.recoveryRequired <=> disk.recoveryRequired \/ disk.session # NoThread
         /\ Restored.opaqueSlot = disk.opaqueSlot
         /\ Restored.compactOwners = disk.compactOwners
         /\ Restored.reasoning = NoReasoning /\ Restored.aux \in {"none", "failed"}
         /\ ~Restored.busy /\ ~Restored.waiting /\ ~Restored.turnPending
         /\ ~Restored.lease /\ ~Restored.prepared /\ ~Restored.retired
<1> DEFINE failed == disk.failed \/ disk.busy \/ disk.turnPending
           required == disk.recoveryRequired \/ disk.session # NoThread
<1>1. PICK f \in BOOLEAN : f = failed
  <2>1. failed \in BOOLEAN
    OBVIOUS
  <2> QED
    BY <2>1, Zenon
<1>2. PICK r \in BOOLEAN : r = required
  <2>1. required \in BOOLEAN
    OBVIOUS
  <2> QED
    BY <2>1, Zenon
<1>3. PICK a \in {"none", "failed"} : a = IF disk.aux THEN "failed" ELSE "none"
  OBVIOUS
<1>4. PICK x : x = [Blank EXCEPT !.slot = disk.slot, !.chosen = disk.chosen,
                                 !.session = disk.session]
  OBVIOUS
<1>5. PICK y : y = [x EXCEPT !.failed = f, !.recoveryRequired = r, !.lastBody = disk.lastBody]
  OBVIOUS
<1>6. PICK z : z = [y EXCEPT !.previousSlot = disk.previousSlot,
                             !.previousCredential = disk.previousCredential,
                             !.opaqueSlot = disk.opaqueSlot]
  OBVIOUS
<1>7. Restored = [z EXCEPT !.compactOwners = disk.compactOwners, !.aux = a]
  BY <1>1, <1>2, <1>3, <1>4, <1>5, <1>6 DEF Restored
<1>8. /\ x \in Memory /\ x.slot = disk.slot /\ x.chosen = disk.chosen
      /\ x.session = disk.session /\ x.reasoning = NoReasoning
      /\ ~x.busy /\ ~x.waiting /\ ~x.turnPending
      /\ ~x.lease /\ ~x.prepared /\ ~x.retired
  <2>1. x \in Memory /\ x.slot = disk.slot /\ x.chosen = disk.chosen /\ x.session = disk.session
    <3>0. /\ disk.slot \in Slots /\ disk.chosen \in BOOLEAN
          /\ disk.session \in Threads \cup {NoThread}
      BY DEF Saved
    <3>1. PICK c \in BOOLEAN : c = disk.chosen
      BY <3>0, Zenon
    <3>2. x = [Blank EXCEPT !.slot = disk.slot, !.chosen = c, !.session = disk.session]
      BY <1>4, <3>1
    <3>3. x \in Memory
      <4>1. PICK p : p = [Blank EXCEPT !.slot = disk.slot]
        OBVIOUS
      <4>2. p \in Memory
        BY <3>0, <4>1, BlankFields DEF Memory
      <4>3. [p EXCEPT !.chosen = c] \in Memory
        BY <4>2, Zenon DEF Memory
      <4>4. x = [[p EXCEPT !.chosen = c] EXCEPT !.session = disk.session]
        BY <3>2, <4>1
      <4> QED
        BY <3>0, <4>3, <4>4 DEF Memory
    <3>4. x.slot = disk.slot /\ x.chosen = c /\ x.session = disk.session
      BY <3>2, BlankFields DEF Memory
    <3> QED
      BY <3>1, <3>2, <3>3, <3>4
  <2>2. /\ x.reasoning = NoReasoning /\ ~x.busy /\ ~x.waiting /\ ~x.turnPending
        /\ ~x.lease /\ ~x.prepared /\ ~x.retired
    BY <1>4, BlankFields DEF Memory
  <2> QED
    BY <2>1, <2>2
<1>9. /\ y \in Memory /\ y.slot = disk.slot /\ y.chosen = disk.chosen
      /\ y.session = disk.session /\ y.reasoning = NoReasoning
      /\ ~y.busy /\ ~y.waiting /\ ~y.turnPending
      /\ ~y.lease /\ ~y.prepared /\ ~y.retired
      /\ y.lastBody = disk.lastBody /\ y.recoveryRequired = r
  <2>1. y \in Memory
    <3>1. [x EXCEPT !.failed = f, !.recoveryRequired = r] \in Memory
      BY <1>8, Zenon DEF Memory
    <3>2. y = [[x EXCEPT !.failed = f, !.recoveryRequired = r] EXCEPT !.lastBody = disk.lastBody]
      BY <1>5
    <3> QED
      BY <3>1, <3>2, ZenonT(60) DEF Memory, Saved
  <2>2. /\ y.slot = disk.slot /\ y.chosen = disk.chosen
        /\ y.session = disk.session /\ y.reasoning = NoReasoning
        /\ ~y.busy /\ ~y.waiting /\ ~y.turnPending
    BY <1>5, <1>8 DEF Memory
  <2>3. /\ ~y.lease /\ ~y.prepared /\ ~y.retired
        /\ y.lastBody = disk.lastBody /\ y.recoveryRequired = r
    BY <1>5, <1>8 DEF Memory
  <2> QED
    BY <2>1, <2>2, <2>3
<1>10. /\ z \in Memory /\ z.slot = disk.slot /\ z.chosen = disk.chosen
       /\ z.session = disk.session /\ z.reasoning = NoReasoning
       /\ ~z.busy /\ ~z.waiting /\ ~z.turnPending
       /\ ~z.lease /\ ~z.prepared /\ ~z.retired
       /\ z.lastBody = disk.lastBody /\ z.recoveryRequired = r
       /\ z.opaqueSlot = disk.opaqueSlot
  <2>1. z \in Memory
    BY <1>6, <1>9 DEF Memory, Saved
  <2>2. /\ z.slot = disk.slot /\ z.chosen = disk.chosen
        /\ z.session = disk.session /\ z.reasoning = NoReasoning
        /\ ~z.busy /\ ~z.waiting /\ ~z.turnPending
    BY <1>6, <1>9 DEF Memory
  <2>3. /\ ~z.lease /\ ~z.prepared /\ ~z.retired
        /\ z.lastBody = disk.lastBody /\ z.recoveryRequired = r
        /\ z.opaqueSlot = disk.opaqueSlot
    BY <1>6, <1>9 DEF Memory
  <2> QED
    BY <2>1, <2>2, <2>3
<1> HIDE DEF failed, Restored
<1>11. /\ Restored \in Memory /\ Restored.slot = disk.slot /\ Restored.chosen = disk.chosen
       /\ Restored.session = disk.session /\ Restored.reasoning = NoReasoning
       /\ Restored.aux = a /\ Restored.compactOwners = disk.compactOwners
  BY <1>7, <1>10 DEF Memory, Saved
<1>12. /\ ~Restored.busy /\ ~Restored.waiting /\ ~Restored.turnPending
       /\ ~Restored.lease /\ ~Restored.prepared /\ ~Restored.retired
       /\ Restored.lastBody = disk.lastBody /\ Restored.recoveryRequired = r
       /\ Restored.opaqueSlot = disk.opaqueSlot
  BY <1>7, <1>10 DEF Memory
<1> QED
  BY <1>2, <1>11, <1>12

LEMMA RestartStep ==
  ASSUME IInv, Restart
  PROVE  IInv'
<1>1. /\ ~alive /\ alive' = TRUE /\ m' = Restored /\ disk' = Image(Restored)
      /\ restarts < MaxRestarts /\ restarts' = restarts + 1
      /\ \/ disk.retired /\ cli' = NewCli /\ interrupted' = {} /\ lastSent' = 0
         \/ ~disk.retired /\ UNCHANGED client
      /\ UNCHANGED quota
      /\ UNCHANGED <<pc, head, cur, ui, accountOp, cred, nextCred>>
  BY DEF Restart, world
<1>2. /\ m = Blank /\ cur = NoRequest /\ ~ui.current /\ disk \in Saved
      /\ \A h \in Handlers : pc[h] = "idle"
  BY <1>1 DEF IInv, Quiescent, TypeOK
<1>3. \A h \in Handlers : pc'[h] \notin Active /\ pc'[h] \notin Waiting
  BY <1>1, <1>2 DEF Active, Waiting
<1> HIDE DEF Restored, Blank, NoRequest
<1>4. /\ m' \in Memory /\ ~m'.busy /\ ~m'.waiting /\ ~m'.turnPending /\ ~m'.lease
      /\ ~m'.prepared /\ ~m'.retired /\ m'.aux \in {"none", "failed"}
      /\ m'.reasoning = NoReasoning
      /\ m'.opaqueSlot # NoSlot => m'.slot = m'.opaqueSlot /\ m'.chosen
      /\ \A o \in m'.compactOwners : o.key = o.credential
  <2>1. CASE disk.retired
    <3>1. m' = Blank
      BY <1>1, <2>1 DEF Restored
    <3> QED
      BY <3>1, BlankFields
  <2>2. CASE ~disk.retired
    <3>1. /\ disk.opaqueSlot # NoSlot => disk.slot = disk.opaqueSlot /\ disk.chosen
          /\ \A o \in disk.compactOwners : o.key = o.credential
      BY DEF IInv, Pinned, Owned
    <3> QED
      BY <1>1, <1>2, <2>2, <3>1, RestoredFields
  <2> QED
    BY <2>1, <2>2
<1>5. /\ disk'.opaqueSlot = m'.opaqueSlot /\ disk'.slot = m'.slot /\ disk'.chosen = m'.chosen
      /\ disk'.compactOwners = m'.compactOwners /\ disk'.lastBody = m'.lastBody
      /\ disk'.session = m'.session /\ ~disk'.retired /\ disk' \in Saved
  BY <1>1, <1>4, ImageFields, ImageType
<1>6. TypeOK'
  <2>1. TypeQuota'
    BY <1>1, TypeParts DEF IInv
  <2>2. TypeClient'
    <3>1. CASE disk.retired
      <4>1. MaxUser \in Nat
        BY ConnectionAssumption
      <4> QED
        BY <1>1, <3>1, <4>1, Literals DEF TypeClient
    <3>2. CASE ~disk.retired
      BY <1>1, <3>2, TypeParts DEF IInv
    <3> QED
      BY <3>1, <3>2
  <2>3. restarts' \in 0..MaxRestarts
    BY <1>1, ConnectionAssumption DEF IInv, TypeOK
  <2> QED
    BY <1>1, <1>4, <1>5, <2>1, <2>2, <2>3 DEF IInv, TypeOK, TypeQuota, TypeClient
<1>7. Quiescent' /\ Shown'
  BY <1>1, <1>2 DEF Quiescent, Shown
<1>8. AdmissionExclusive'
  BY <1>3, <1>4 DEF AdmissionExclusive, Waiting
<1>9. Leased'
  BY <1>1, <1>4 DEF IInv, Leased, AuxActive
<1>10. Bound'
  BY <1>1, <1>2, <1>3, <1>4 DEF Bound
<1>11. Pinned' /\ Owned'
  BY <1>4, <1>5, BlankFields DEF Pinned, OpaquePinned, Owned
<1>12. Attempted'
  BY <1>1, <1>2, <1>4, BlankFields, NothingTried DEF Attempted, AttemptOnce
<1>13. InFlight' /\ \A g \in Handlers : RepeatedAt(pc[g])'
  BY <1>3, Rested
<1>14. Guarded'
  <2>1. SUFFICES ASSUME Repeated PROVE Repeated'
    BY DEF IInv, Guarded
  <2>2. CASE disk.retired
    <3>1. /\ UserOf(m'.lastBody) = 0 /\ cli'.user = 0 /\ lastSent' = 0 /\ interrupted' = {}
      BY <1>1, <2>2, BlankFields, UserRange DEF Restored, NewCli
    <3> QED
      BY <1>5, <1>13, <3>1 DEF Repeated
  <2>3. CASE ~disk.retired
    <3>1. /\ m'.session = disk.session /\ m'.lastBody = disk.lastBody
          /\ m'.recoveryRequired <=> disk.recoveryRequired \/ disk.session # NoThread
          /\ cli' = cli /\ interrupted' = interrupted /\ lastSent' = lastSent
      BY <1>1, <1>2, <2>3, RestoredFields DEF client
    <3>2. /\ lastSent <= UserOf(disk.lastBody) /\ (lastSent > 0 => disk.session # NoThread)
          /\ UserOf(disk.lastBody) <= cli.user
          /\ \A u \in interrupted : 0 < u /\ u <= lastSent
      BY <2>1, <2>3 DEF Repeated
    <3> QED
      BY <1>5, <1>13, <3>1, <3>2 DEF Repeated
  <2> QED
    BY <2>2, <2>3
<1> QED
  BY <1>6, <1>7, <1>8, <1>9, <1>10, <1>11, <1>12, <1>13, <1>14 DEF IInv


-----------------------------------------------------------------------------
(* The invariant.                                                          *)

LEMMA InitInv == Init => IInv
<1>1. SUFFICES ASSUME Init PROVE IInv
  OBVIOUS
<1>2. /\ alive = TRUE /\ m = Blank /\ disk = Image(Blank) /\ pc = [h \in Handlers |-> "idle"]
      /\ head = [h \in Handlers |-> NoHead] /\ cur = NoRequest /\ ui = NoView
      /\ accountOp = FALSE /\ cred = [s \in Slots |-> s]
      /\ \E n \in Slots : nextCred = n + 1
      /\ sample \in [Slots -> Levels] /\ limits = {} /\ newer = {}
      /\ cli = NewCli /\ interrupted = {} /\ lastSent = 0 /\ restarts = 0 /\ polls = 0
  BY <1>1 DEF Init
<1>3. /\ \A h \in Handlers : pc[h] = "idle" /\ pc[h] \notin Active /\ pc[h] \notin Waiting
      /\ pc \in [Handlers -> Stages]
  BY <1>2 DEF Active, Waiting, Stages
<1> HIDE DEF Blank, NoRequest, NoView, NoHead, NewCli
<1>4. /\ disk.opaqueSlot = NoSlot /\ disk.compactOwners = {} /\ disk.lastBody = NoBody
      /\ disk \in Saved
  BY <1>2, BlankFields, ImageFields, ImageType
<1>5. TypeOK
  <2>1. /\ MaxUser \in Nat /\ MaxCred \in Nat /\ MaxRestarts \in Nat /\ MaxPolls \in Nat
        /\ \A s \in Slots : s \in 1..MaxCred
    BY ConnectionAssumption, QuotaAssumption
  <2>2. cred \in [Slots -> Creds] /\ nextCred \in 1..(MaxCred + 1)
    BY <1>2, <2>1 DEF Creds
  <2>3. /\ limits \in SUBSET Slots /\ newer \in SUBSET limits /\ interrupted \in SUBSET (0..MaxUser)
        /\ lastSent \in 0..MaxUser /\ restarts \in 0..MaxRestarts /\ polls \in 0..MaxPolls
    BY <1>2, <2>1
  <2>4. head \in [Handlers -> [thread : Threads \cup {NoThread}, compact : BOOLEAN]]
    BY <1>2, Literals
  <2> QED
    BY <1>2, <1>3, <1>4, <2>2, <2>3, <2>4, Literals DEF TypeOK
<1>6. Quiescent
  BY <1>2 DEF Quiescent
<1>7. AdmissionExclusive
  BY <1>2, <1>3, BlankFields DEF AdmissionExclusive, Waiting
<1>8. Leased /\ Bound /\ Shown
  BY <1>2, <1>3, BlankFields DEF Leased, Bound, Shown, AuxActive
<1>9. Pinned /\ Owned
  BY <1>2, <1>4, BlankFields DEF Pinned, OpaquePinned, Owned
<1>10. Attempted
  BY <1>2, BlankFields, NothingTried DEF Attempted, AttemptOnce
<1>11. InFlight /\ \A h \in Handlers : RepeatedAt(pc[h])
  BY <1>3, Elsewise DEF InFlight
<1>12. Guarded
  <2>1. UserOf(m.lastBody) = 0 /\ UserOf(disk.lastBody) = 0 /\ cli.user = 0
    BY <1>2, <1>4, BlankFields, UserRange DEF NewCli
  <2> QED
    BY <1>2, <1>11, <2>1 DEF Guarded, Repeated
<1> QED
  BY <1>5, <1>6, <1>7, <1>8, <1>9, <1>10, <1>11, <1>12 DEF IInv

LEMMA HandleStep ==
  ASSUME IInv, NEW h \in Handlers, Handle(h)
  PROVE  IInv'
<1>1. CASE Wait(h) \/ WaitEnds(h) \/ Reject(h) \/ RejectQuota(h) \/ AdmitBusy(h) \/ Admit(h)
  BY <1>1, WaitStep, WaitEndsStep, RejectStep, RejectQuotaStep, AdmitBusyStep, AdmitStep
<1>2. CASE ReadFails(h) \/ PrepareDenied(h) \/ Prepare(h) \/ PrepareFails(h) \/ Store(h)
  BY <1>2, ReadFailsStep, PrepareDeniedStep, PrepareStep, PrepareFailsStep, StoreStep
<1>3. CASE \E b \in Bodies, r \in SUBSET Creds, k \in SUBSET Creds : ReadBody(h, b, r, k)
  BY <1>3, ReadBodyStep
<1>4. CASE Dispatch(h) \/ DispatchDenied(h) \/ LimitReached(h) \/ Terminal(h)
  BY <1>4, DispatchStep, DispatchDeniedStep, LimitReachedStep, TerminalStep
<1>5. CASE \E result \in {"final", "pending", "error"} : Respond(h, result)
  BY <1>5, RespondStep
<1>6. CASE validateCompact(h) \/ ConsiderSwitch(h) \/ Switch(h) \/ SwitchRefused(h)
  BY <1>6, validateCompactStep, ConsiderSwitchStep, SwitchStep, SwitchRefusedStep
<1>7. CASE Conclude(h) \/ Finish(h)
  BY <1>7, ConcludeStep, FinishStep
<1>8. CASE \E ok \in BOOLEAN : Release(h, ok)
  BY <1>8, ReleaseStep
<1> QED
  BY <1>1, <1>2, <1>3, <1>4, <1>5, <1>6, <1>7, <1>8 DEF Handle

LEMMA CommandStep ==
  ASSUME IInv, Command
  PROVE  IInv'
<1>1. CASE Status \/ AbortShutdown \/ Abandon
  BY <1>1, StatusStep, AbortShutdownStep, AbandonStep
<1>2. CASE \E delete \in BOOLEAN : PrepareShutdown(delete)
  BY <1>2, PrepareShutdownStep
<1>3. CASE \E delete, newSession \in BOOLEAN : Shutdown(delete, newSession)
  BY <1>3, ShutdownStep
<1>4. CASE \E target \in Slots : Select(target)
  BY <1>4, SelectsStep DEF Select, Control
<1>5. CASE Recover
  BY <1>5, SelectsStep DEF Recover, Control
<1> QED
  BY <1>1, <1>2, <1>3, <1>4, <1>5 DEF Command

LEMMA NextInv == IInv /\ [Next]_vars => IInv'
<1>1. SUFFICES ASSUME IInv, [Next]_vars PROVE IInv'
  OBVIOUS
<1>2. CASE \E h \in Handlers : Handle(h)
  BY <1>1, <1>2, HandleStep
<1>3. CASE \E h \in Handlers, thread \in Threads, compact \in BOOLEAN : Enter(h, thread, compact)
  BY <1>1, <1>3, EnterStep
<1>4. CASE \E thread \in Threads : AuxCreate(thread)
  BY <1>1, <1>4, AuxCreateStep
<1>5. CASE AuxBegin \/ AuxFinishes
  BY <1>1, <1>5, AuxBeginStep, AuxEndStep DEF AuxFinishes
<1>6. CASE \E s \in Slots : AuxLimited(s)
  BY <1>1, <1>6, AuxLimitedStep
<1>7. CASE Command
  BY <1>1, <1>7, CommandStep
<1>8. CASE Stop \/ Exit \/ Crash \/ Restart
  BY <1>1, <1>8, StopStep, LeavesStep, RestartStep
<1>9. CASE AccountBegin \/ \E s \in Slots : AccountEnd(s)
  BY <1>1, <1>9, AccountStep
<1>10. CASE \E s \in Slots, level \in Levels, after \in BOOLEAN : UsagePoll(s, level, after)
  BY <1>1, <1>10, UsagePollStep
<1>11. CASE \E s \in Slots : MarkedElsewhere(s)
  BY <1>1, <1>11, MarkedElsewhereStep
<1>12. CASE UNCHANGED vars
  <2>1. /\ UNCHANGED process /\ UNCHANGED client /\ UNCHANGED restarts /\ UNCHANGED quota
        /\ UNCHANGED <<accountOp, cred, nextCred>>
    BY <1>12 DEF vars, process, client, quota
  <2> QED
    BY <1>1, <2>1, TypeParts, WorldStep DEF IInv, TypeOK, Leased
<1> QED
  BY <1>1, <1>2, <1>3, <1>4, <1>5, <1>6, <1>7, <1>8, <1>9, <1>10, <1>11, <1>12 DEF Next

\* IInv is an inductive invariant: it holds in every reachable state, for any number of
\* handlers, slots, conversations, credentials and restarts.
THEOREM Invariance == Spec => []IInv
BY InitInv, NextInv, PTL DEF Spec


\* Every variable keeps its type.
THEOREM TypeCorrect == Spec => []TypeOK
<1>1. IInv => TypeOK
  BY DEF IInv
<1> QED
  BY <1>1, Invariance, PTL

\* One root request at a time is past its admission, the flags that guard commands
\* and follow-ups tell of it, and an acknowledged preparation means nothing is open.
THEOREM Exclusive == Spec => []AdmissionExclusive
<1>1. IInv => AdmissionExclusive
  BY DEF IInv
<1> QED
  BY <1>1, Invariance, PTL

\* Opaque history reaches only the credential that made it.
THEOREM OwnersSafe == Spec => []OwnerSafety
<1>1. IInv => OwnerSafety
  BY DEF IInv, InFlight, OwnedAt, OwnerSafety
<1> QED
  BY <1>1, Invariance, PTL

\* The checkpoint names a request before it is sent, and as long as it is out.
THEOREM Checkpointed == Spec => []CheckpointBeforeDispatch
<1>1. IInv => CheckpointBeforeDispatch
  <2>1. SUFFICES ASSUME IInv, NEW h \in Handlers, pc[h] \in Upstream
                 PROVE  /\ disk.busy /\ ~disk.retired /\ disk.lastBody = cur.body
                        /\ disk.slot = cur.selected /\ disk.session = m.session
    BY DEF CheckpointBeforeDispatch
  <2>2. CheckpointedAt(pc[h])
    BY <2>1 DEF IInv, InFlight
  <2> QED
    BY <2>1, <2>2 DEF CheckpointedAt, Sending, Upstream
<1> QED
  BY <1>1, Invariance, PTL

\* Failover tries no account twice for one request.
THEOREM AttemptedOnce == Spec => []AttemptOnce
<1>1. IInv => AttemptOnce
  BY DEF IInv, Attempted
<1> QED
  BY <1>1, Invariance, PTL

\* The account in use is the one a native compaction is pinned to.
THEOREM PinHolds == Spec => []OpaquePinned
<1>1. IInv => OpaquePinned
  BY DEF IInv, Pinned
<1> QED
  BY <1>1, Invariance, PTL

\* When every body has a user message, a turn that was cut short is never sent again.
\* (ConnectionUserless shows a run in which one without is.)
THEOREM NotReplayed ==
  ASSUME ~Userless
  PROVE  Spec => []NoReplay
<1>1. IInv => NoReplay
  <2>1. SUFFICES ASSUME IInv, NEW h \in Handlers, pc[h] \in Upstream
                 PROVE  lastSent \notin interrupted
    BY DEF NoReplay
  <2>2. RepeatedAt(pc[h])
    BY <2>1 DEF IInv, Guarded, Repeated
  <2> QED
    BY <2>1, <2>2 DEF RepeatedAt, Upstream
<1> QED
  BY <1>1, Invariance, PTL

-----------------------------------------------------------------------------
(* What a step may do to the credentials, the conversation and the account. *)

Fields == {"slot", "session", "turnPending", "failed"}

\* Storing the record keeps its conversation, its account and its turn, and hides no
\* failure.
LEMMA StoredBound ==
  ASSUME NEW x, Fields \subseteq DOMAIN x, persist(x) \/ state(x)
  PROVE  /\ m'.session = x.session /\ m'.slot = x.slot /\ m'.turnPending = x.turnPending
         /\ x.failed => m'.failed
<1>1. ASSUME NEW y, Fields \subseteq DOMAIN y, persist(y)
      PROVE  /\ m'.session = y.session /\ m'.slot = y.slot /\ m'.turnPending = y.turnPending
             /\ y.failed => m'.failed
  BY <1>1 DEF persist, Fields
<1>2. CASE state(x)
  <2>1. PICK l : persist([x EXCEPT !.lease = l])
    BY <1>2 DEF state
  <2>2. /\ Fields \subseteq DOMAIN [x EXCEPT !.lease = l]
        /\ [x EXCEPT !.lease = l].session = x.session /\ [x EXCEPT !.lease = l].slot = x.slot
        /\ [x EXCEPT !.lease = l].turnPending = x.turnPending
        /\ [x EXCEPT !.lease = l].failed = x.failed
    BY DEF Fields
  <2> QED
    BY <1>1, <2>1, <2>2
<1> QED
  BY <1>1, <1>2

\* A handler's step moves that handler; only a failover changes the account of an
\* open tool turn.
LEMMA HandleActs ==
  ASSUME IInv, NEW h \in Handlers, Handle(h)
  PROVE  /\ pc' # pc /\ cred' = cred
         /\ m.session # NoThread => m'.session = m.session
         /\ m.turnPending /\ m'.slot # m.slot => pc[h] = "switching"
<1> USE DEF Goto, Elsewhere, world, Fields
<1>0. m \in Memory /\ pc \in [Handlers -> Stages]
  BY DEF IInv, TypeOK
<1>1. CASE Wait(h) \/ WaitEnds(h) \/ Reject(h) \/ RejectQuota(h)
  <2>1. m' = m \/ \E b \in BOOLEAN : m' = [m EXCEPT !.waiting = b]
    BY <1>1 DEF Wait, WaitEnds, Reject, RejectQuota, WaitOver
  <2>2. m'.session = m.session /\ m'.slot = m.slot
    BY <1>0, <2>1 DEF Memory
  <2>3. pc[h] \in {"entered", "waiting", "signalled"} /\ pc'[h] # pc[h] /\ cred' = cred
    BY <1>0, <1>1 DEF Wait, WaitEnds, Reject, RejectQuota, AtAdmission, Return
  <2> QED
    BY <2>2, <2>3
<1>2. CASE AdmitBusy(h)
  <2>1. PICK y : y = Selecting(h)
    OBVIOUS
  <2>2. /\ AtAdmission(h) /\ ~probeAdmissionCode(h) /\ MaySelect /\ m' = y /\ cred' = cred
        /\ pc' = [pc EXCEPT ![h] = "idle"]
    BY <1>2, <2>1 DEF AdmitBusy, Return
  <2>3. /\ y.session = m.session /\ (m.turnPending => y.slot = m.slot)
        /\ pc[h] \in {"entered", "signalled"}
    BY <2>1, <2>2, SelectingEffect
  <2> QED
    BY <1>0, <2>2, <2>3
<1>3. CASE Admit(h)
  <2>1. PICK y : y = Selecting(h)
    OBVIOUS
  <2>2. PICK x : x = [y EXCEPT !.lease = TRUE, !.busy = TRUE, !.terminalReady = FALSE,
                               !.session = head[h].thread]
    OBVIOUS
  <2>3. /\ AtAdmission(h) /\ ~probeAdmissionCode(h) /\ MaySelect /\ cred' = cred
        /\ m' = x \/ m' = [x EXCEPT !.checkpointErr = TRUE, !.failed = TRUE, !.busy = FALSE]
        /\ pc' = [pc EXCEPT ![h] = "reading"] \/ pc' = [pc EXCEPT ![h] = "idle"]
    BY <1>3, <2>1, <2>2 DEF Admit, Return
  <2>4. /\ y \in Memory /\ (m.turnPending => y.slot = m.slot)
        /\ m.session = NoThread \/ m.session = head[h].thread
        /\ pc[h] \in {"entered", "signalled"}
    BY <2>1, <2>3, SelectingEffect
  <2>5. m'.session = head[h].thread /\ m'.slot = y.slot
    BY <2>2, <2>3, <2>4 DEF Memory
  <2> QED
    BY <1>0, <2>3, <2>4, <2>5
<1>4. CASE \/ ReadFails(h) \/ PrepareDenied(h) \/ Dispatch(h) \/ DispatchDenied(h)
           \/ LimitReached(h) \/ ConsiderSwitch(h) \/ SwitchRefused(h)
  <2>1. m' = m /\ cred' = cred
    BY <1>4 DEF ReadFails, PrepareDenied, Dispatch, DispatchDenied, LimitReached,
                ConsiderSwitch, SwitchRefused
  <2>2. pc'[h] # pc[h]
    BY <1>0, <1>4 DEF ReadFails, PrepareDenied, Dispatch, DispatchDenied, LimitReached,
                      ConsiderSwitch, SwitchRefused
  <2> QED
    BY <2>1, <2>2
<1>5. CASE \/ \E result \in {"final", "pending", "error"} : Respond(h, result)
           \/ \E ok \in BOOLEAN : Release(h, ok)
  <2>1. m' = m /\ cred' = cred /\ pc'[h] # pc[h]
    BY <1>0, <1>5 DEF Respond, Release
  <2> QED
    BY <2>1
<1>6. CASE \E b \in Bodies, r \in SUBSET Creds, k \in SUBSET Creds : ReadBody(h, b, r, k)
  <2>1. PICK b \in Bodies : m' = m \/ m' = [m EXCEPT !.lastBody = b]
    BY <1>6 DEF ReadBody
  <2>2. cred' = cred /\ pc'[h] # pc[h]
    BY <1>0, <1>6 DEF ReadBody
  <2>3. m'.session = m.session /\ m'.slot = m.slot
    BY <1>0, <2>1 DEF Memory
  <2> QED
    BY <2>2, <2>3
<1>7. CASE Prepare(h) \/ PrepareFails(h)
  <2>1. \/ m' = m \/ m' = [m EXCEPT !.opaqueSlot = NoSlot]
        \/ m' = [m EXCEPT !.failed = TRUE]
    BY <1>7 DEF Prepare, PrepareFails
  <2>2. cred' = cred /\ pc'[h] # pc[h]
    BY <1>0, <1>7 DEF Prepare, PrepareFails
  <2>3. m'.session = m.session /\ m'.slot = m.slot
    BY <1>0, <2>1 DEF Memory
  <2> QED
    BY <2>2, <2>3
<1>8. CASE Store(h) \/ Terminal(h)
  <2>1. PICK x : /\ x \in {[m EXCEPT !.recoveryRequired = FALSE], [m EXCEPT !.terminalReady = TRUE]}
                 /\ persist(x) \/ state(x)
    BY <1>8 DEF Store, Terminal
  <2>2. /\ Fields \subseteq DOMAIN x
        /\ x.session = m.session /\ x.slot = m.slot
    BY <1>0, <2>1 DEF Memory
  <2>3. cred' = cred /\ pc'[h] # pc[h]
    BY <1>0, <1>8 DEF Store, Terminal
  <2> QED
    BY <2>1, <2>2, <2>3, StoredBound
<1>9. CASE validateCompact(h)
  <2>1. PICK o, r, x : x = [m EXCEPT !.compactOwners = o, !.reasoning = r, !.opaqueSlot = m.slot]
                       /\ persist(x)
    BY <1>9 DEF validateCompact
  <2>2. /\ Fields \subseteq DOMAIN x
        /\ x.session = m.session /\ x.slot = m.slot
    BY <1>0, <2>1 DEF Memory
  <2>3. cred' = cred /\ pc'[h] # pc[h]
    BY <1>0, <1>9 DEF validateCompact
  <2> QED
    BY <2>1, <2>2, <2>3, StoredBound
<1>10. CASE Conclude(h)
  <2>1. PICK fl, p, ps, pcr, r, x :
          /\ x = [m EXCEPT !.failed = fl, !.turnPending = p, !.previousSlot = ps,
                           !.previousCredential = pcr, !.reasoning = r]
          /\ persist(x)
    BY <1>10, ZenonT(40) DEF Conclude
  <2>2. /\ Fields \subseteq DOMAIN x
        /\ x.session = m.session /\ x.slot = m.slot
    BY <1>0, <2>1 DEF Memory
  <2>3. cred' = cred /\ pc'[h] # pc[h]
    BY <1>0, <1>10 DEF Conclude
  <2> QED
    BY <2>1, <2>2, <2>3, StoredBound
<1>11. CASE Switch(h)
  <2>1. PICK u, x : x = [m EXCEPT !.slot = cur.next, !.chosen = TRUE, !.portableBoundary = u]
                    /\ state(x)
    BY <1>11 DEF Switch
  <2>2. Fields \subseteq DOMAIN x /\ x.session = m.session
    BY <1>0, <2>1 DEF Memory
  <2>3. pc[h] = "switching" /\ cred' = cred /\ pc'[h] # pc[h]
    BY <1>0, <1>11 DEF Switch
  <2> QED
    BY <2>1, <2>2, <2>3, StoredBound
<1>12. CASE Finish(h)
  <2>1. PICK y : /\ y = m \/ y = [m EXCEPT !.failed = TRUE, !.turnPending = FALSE]
                 /\ state([y EXCEPT !.busy = FALSE, !.terminalReady = FALSE])
    BY <1>12 DEF Finish
  <2>2. PICK x : x = [y EXCEPT !.busy = FALSE, !.terminalReady = FALSE]
    OBVIOUS
  <2>3. /\ Fields \subseteq DOMAIN y
        /\ y.session = m.session /\ y.slot = m.slot
    BY <1>0, <2>1 DEF Memory
  <2>4. /\ Fields \subseteq DOMAIN x
        /\ x.session = m.session /\ x.slot = m.slot /\ state(x)
    BY <2>1, <2>2, <2>3
  <2>5. pc[h] = "finishing" /\ pc'[h] = "idle" /\ cred' = cred
    BY <1>12 DEF Finish
  <2> QED
    BY <2>4, <2>5, StoredBound
<1> QED
  BY <1>1, <1>2, <1>3, <1>4, <1>5, <1>6, <1>7, <1>8, <1>9, <1>10, <1>11, <1>12 DEF Handle


\* A step beside the handlers keeps the conversation, and the account of a turn; it
\* ends a turn or lifts a failure only as a command on what the UI has seen last.
LEMMA BesideActs ==
  ASSUME IInv,
         \/ \E thread \in Threads : AuxCreate(thread)
         \/ AuxBegin \/ AuxFinishes \/ \E s \in Slots : AuxLimited(s)
         \/ Command \/ Stop
  PROVE  /\ cred' = cred /\ (m.session # NoThread => m'.session = m.session)
         /\ m.turnPending => m'.slot = m.slot
         /\ \/ m'.turnPending = m.turnPending /\ (m.failed => m'.failed)
            \/ ui.current /\ ~m.busy /\ ~m.closing
<1> USE DEF Untouched, world, Fields
<1>0. m \in Memory /\ (m.turnPending => m.chosen)
  BY Beside
<1>1. ASSUME NEW thread \in Threads, AuxCreate(thread)
      PROVE  /\ cred' = cred /\ (m.session # NoThread => m'.session = m.session)
             /\ m.turnPending => m'.slot = m.slot
             /\ m'.turnPending = m.turnPending /\ m'.failed = m.failed
  <2>1. PICK s : /\ m' = [m EXCEPT !.slot = s, !.chosen = TRUE, !.session = thread, !.aux = "idle"]
                 /\ m.chosen => s = m.slot
    BY <1>1 DEF AuxCreate
  <2>2. m'.slot = s /\ m'.session = thread /\ m'.turnPending = m.turnPending /\ m'.failed = m.failed
    BY <1>0, <2>1 DEF Memory
  <2>3. cred' = cred /\ m.session \in {NoThread, thread}
    BY <1>1 DEF AuxCreate
  <2> QED
    BY <1>0, <2>1, <2>2, <2>3
<1>2. CASE AuxBegin
  <2>1. PICK x : /\ x = [m EXCEPT !.lease = TRUE, !.aux = "busy"]
                 /\ \/ state(x)
                    \/ m' = [m EXCEPT !.lease = TRUE, !.checkpointErr = TRUE, !.failed = TRUE]
    BY <1>2 DEF AuxBegin
  <2>2. cred' = cred
    BY <1>2 DEF AuxBegin
  <2>3. CASE state(x)
    <3>1. /\ Fields \subseteq DOMAIN x /\ x.session = m.session /\ x.slot = m.slot
          /\ x.turnPending = m.turnPending /\ x.failed = m.failed
      BY <1>0, <2>1 DEF Memory
    <3> QED
      BY <2>2, <2>3, <3>1, StoredBound
  <2>4. CASE m' = [m EXCEPT !.lease = TRUE, !.checkpointErr = TRUE, !.failed = TRUE]
    BY <1>0, <2>2, <2>4 DEF Memory
  <2> QED
    BY <2>1, <2>3, <2>4
<1>3. CASE \/ AuxFinishes \/ \E s \in Slots : AuxLimited(s)
           \/ Status \/ AbortShutdown \/ \E delete \in BOOLEAN : PrepareShutdown(delete)
  <2>1. PICK a, b, x : x \in {m, [m EXCEPT !.aux = a], [m EXCEPT !.prepared = b]} /\ state(x)
    <3>1. CASE AuxFinishes
      BY <3>1 DEF AuxFinishes, AuxEnd
    <3>2. CASE (\E s \in Slots : AuxLimited(s)) \/ Status
      BY <3>2 DEF AuxLimited, Status
    <3>3. CASE AbortShutdown
      BY <3>3 DEF AbortShutdown
    <3>4. CASE \E delete \in BOOLEAN : PrepareShutdown(delete)
      BY <3>4 DEF PrepareShutdown
    <3> QED
      BY <1>3, <3>1, <3>2, <3>3, <3>4
  <2>2. /\ Fields \subseteq DOMAIN x /\ x.session = m.session /\ x.slot = m.slot
        /\ x.turnPending = m.turnPending /\ x.failed = m.failed
    BY <1>0, <2>1 DEF Memory
  <2>3. cred' = cred
    BY <1>3 DEF AuxFinishes, AuxEnd, AuxLimited, Status, AbortShutdown, PrepareShutdown
  <2> QED
    BY <2>1, <2>2, <2>3, StoredBound
<1>4. CASE \E delete, newSession \in BOOLEAN : Shutdown(delete, newSession)
  <2>1. PICK delete \in BOOLEAN, newSession \in BOOLEAN : Shutdown(delete, newSession)
    BY <1>4
  <2>2. PICK x : x = [m EXCEPT !.closing = TRUE, !.retired = @ \/ delete \/ newSession]
    OBVIOUS
  <2>3. \/ m' = [x EXCEPT !.failed = TRUE, !.lease = FALSE]
        \/ m' = [[x EXCEPT !.checkpointErr = TRUE] EXCEPT !.failed = TRUE, !.lease = FALSE]
    BY <2>1, <2>2 DEF Shutdown
  <2>4. /\ Fields \subseteq DOMAIN x /\ x.session = m.session /\ x.slot = m.slot
        /\ x.turnPending = m.turnPending
    BY <1>0, <2>2 DEF Memory
  <2>5. m'.session = m.session /\ m'.slot = m.slot /\ m'.turnPending = m.turnPending /\ m'.failed
    BY <2>3, <2>4
  <2>6. cred' = cred
    BY <1>4 DEF Shutdown
  <2> QED
    BY <2>5, <2>6
<1>5. CASE Abandon
  <2>1. PICK a, x : x = [m EXCEPT !.turnPending = FALSE, !.failed = TRUE, !.aux = a] /\ state(x)
    BY <1>5 DEF Abandon
  <2>2. Fields \subseteq DOMAIN x /\ x.session = m.session /\ x.slot = m.slot
    BY <1>0, <2>1 DEF Memory
  <2>3. cred' = cred /\ ui.current /\ ~m.busy /\ ~m.closing
    BY <1>5 DEF Abandon, AbandonAllowed, Control
  <2> QED
    BY <2>1, <2>2, <2>3, StoredBound
<1>6. ASSUME NEW target, selects(target), ~m.closing
      PROVE  /\ cred' = cred /\ m'.session = m.session /\ ~m.turnPending
             /\ ui.current /\ ~m.busy /\ ~m.closing
  <2>1. PICK y : /\ \/ y = m
                    \/ y = [m EXCEPT !.failed = FALSE, !.recoveryRequired = TRUE,
                                     !.previousSlot = NoSlot, !.previousCredential = NoCred]
                 /\ state([y EXCEPT !.slot = target, !.chosen = TRUE])
    BY <1>6 DEF selects
  <2>2. PICK x : x = [y EXCEPT !.slot = target, !.chosen = TRUE]
    OBVIOUS
  <2>3. Fields \subseteq DOMAIN y /\ y.session = m.session
    BY <1>0, <2>1 DEF Memory
  <2>4. Fields \subseteq DOMAIN x /\ x.session = m.session /\ state(x)
    BY <2>1, <2>2, <2>3
  <2>5. cred' = cred /\ ui.current /\ ~m.busy /\ ~m.turnPending
    BY <1>6 DEF selects, SelectionAllowed, Idle
  <2> QED
    BY <1>6, <2>4, <2>5, StoredBound
<1>7. CASE Recover \/ \E target \in Slots : Select(target)
  <2>1. PICK target : selects(target) /\ ~m.closing
    BY <1>7 DEF Select, Recover, Control
  <2> QED
    BY <1>6, <2>1
<1>8. CASE Stop
  <2>1. m' = [m EXCEPT !.closing = TRUE] /\ cred' = cred
    BY <1>8 DEF Stop
  <2> QED
    BY <1>0, <2>1 DEF Memory
<1> QED
  BY <1>1, <1>2, <1>3, <1>4, <1>5, <1>7, <1>8 DEF Command

\* What the other steps do to them: only a login or logout changes a credential.
LEMMA OtherActs ==
  ASSUME IInv, Next,
         ~\E h \in Handlers : Handle(h),
         ~(\/ \E thread \in Threads : AuxCreate(thread)
           \/ AuxBegin \/ AuxFinishes \/ \E s \in Slots : AuxLimited(s)
           \/ Command \/ Stop)
  PROVE  /\ cred' # cred => accountOp
         /\ \/ m' = m
            \/ ~alive' \/ (~alive /\ ~m.turnPending)
<1>1. CASE \E h \in Handlers, thread \in Threads, compact \in BOOLEAN : Enter(h, thread, compact)
  BY <1>1 DEF Enter, world
<1>2. CASE Exit \/ Crash
  BY <1>2 DEF Exit, Crash, Gone, world
<1>3. CASE Restart
  <2>1. ~alive /\ cred' = cred
    BY <1>3 DEF Restart, world
  <2>2. ~m.turnPending
    BY <2>1, BlankFields DEF IInv, Quiescent
  <2> QED
    BY <2>1, <2>2
<1>4. CASE AccountBegin \/ \E s \in Slots : AccountEnd(s)
  BY <1>4 DEF AccountBegin, AccountEnd, process
<1>5. CASE \/ \E s \in Slots, level \in Levels, after \in BOOLEAN : UsagePoll(s, level, after)
           \/ \E s \in Slots : MarkedElsewhere(s)
  BY <1>5 DEF UsagePoll, MarkedElsewhere, process, world
<1> QED
  BY <1>1, <1>2, <1>3, <1>4, <1>5 DEF Next

\* No credential changes under a request, a tool turn or an auxiliary conversation, and
\* a bound connection serves no other conversation.
THEOREM ConversationKept == Spec => ConversationStable
<1> DEFINE Keeps == /\ cred' # cred => ~m.busy /\ ~m.turnPending /\ ~AuxActive(m)
                    /\ m.session # NoThread /\ alive /\ alive' => m'.session = m.session
<1>1. ASSUME IInv, Next PROVE Keeps
  <2>1. accountOp => ~m.busy /\ ~m.turnPending /\ ~AuxActive(m)
    BY <1>1 DEF IInv, Leased
  <2> QED
    BY <1>1, <2>1, HandleActs, BesideActs, OtherActs
<1>2. IInv /\ [Next]_vars => [Keeps]_vars
  BY <1>1
<1> QED
  BY <1>2, Invariance, PTL DEF Spec, ConversationStable

\* The account of an open tool turn changes only through a failover.
THEOREM TurnKeepsAccount == Spec => TurnPinned
<1> DEFINE Keeps == m.turnPending /\ m'.slot # m.slot /\ alive'
                      => \E h \in Handlers : pc[h] = "switching"
<1>1. ASSUME IInv, Next PROVE Keeps
  BY <1>1, HandleActs, BesideActs, OtherActs
<1>2. IInv /\ [Next]_vars => [Keeps]_vars
  BY <1>1
<1> QED
  BY <1>2, Invariance, PTL DEF Spec, TurnPinned

\* A command decides only on the turn the UI was shown.
THEOREM DecidedOnCurrent == Spec => DecisionCurrent
<1> DEFINE Decided ==
             alive /\ alive' /\ pc' = pc /\ ~m.checkpointErr
               /\ (m.turnPending # m'.turnPending \/ (m.failed /\ ~m'.failed))
             => ui.turn = lastSent /\ ui.pending = m.turnPending /\ ui.failed = m.failed
<1>1. ASSUME IInv, Next PROVE Decided
  <2>1. ui.current /\ ~m.busy /\ ~m.closing /\ ~m.checkpointErr =>
          ui.turn = lastSent /\ ui.pending = m.turnPending /\ ui.failed = m.failed
    BY <1>1 DEF IInv, Shown
  <2> QED
    BY <1>1, <2>1, HandleActs, BesideActs, OtherActs
<1>2. IInv /\ [Next]_vars => [Decided]_vars
  BY <1>1
<1> QED
  BY <1>2, Invariance, PTL DEF Spec, DecisionCurrent
=============================================================================

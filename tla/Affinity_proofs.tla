-------------------------- MODULE Affinity_proofs --------------------------
(***************************************************************************)
(* The safety of Affinity and its refinement of Ownership, for every set   *)
(* of slots, accounts, projects, conversations, records, handlers and      *)
(* reservations and whatever requests and answers carry.                   *)
(***************************************************************************)
EXTENDS Affinity, TLAPS

-----------------------------------------------------------------------------
(* Keys.                                                                   *)

\* What a completed answer grants a conversation are keys.
LEMMA GrantedKeys ==
  ASSUME NEW t \in Threads, NEW answer \in Answers, NEW key \in completedRefs(answer)
  PROVE  historyScope(key, t) \in Keys
BY DEF Keys, Granted

\* An id of an item given in full is the same for every conversation.
LEMMA InlineUnscoped ==
  ASSUME NEW body, NEW key \in inlineMessageIDs(body), NEW t
  PROVE  historyScope(key, t) = key
<1>1. key.space = "item"
  BY DEF inlineMessageIDs, ItemKey, Key
<1> QED
  BY <1>1 DEF historyScope

\* What a request claims are keys.
LEMMA InlineKeys ==
  ASSUME NEW t \in Threads, NEW body \in Bodies \cup {NoBody}
  PROVE  inlineMessageIDs(body) \subseteq Keys
<1>1. CASE body = NoBody
  BY <1>1 DEF NoBody, NoRequest, inlineMessageIDs
<1>2. CASE body \in Bodies
  <2> SUFFICES ASSUME NEW key \in inlineMessageIDs(body) PROVE key \in Keys
    OBVIOUS
  <2>1. key = historyScope(key, t)
    BY InlineUnscoped
  <2> QED
    BY <1>2, <2>1 DEF Keys, Claimed
<1> QED
  BY <1>1, <1>2

-----------------------------------------------------------------------------
(* Types.                                                                  *)

LEMMA TypeInit == Init => TypeOK
<1> SUFFICES ASSUME Init PROVE TypeOK
  OBVIOUS
<1>1. NoSession \in Session /\ NoRecord \in Record /\ NoProcess \in Process /\ NoRequest \in Request
  BY DEF NoSession, NoRecord, NoProcess, NoRequest, NoBody, Session, Record, Process, Request,
         States, Places
<1> QED
  BY <1>1 DEF Init, TypeOK

LEMMA Zeros == /\ NoSession \in Session /\ NoRecord \in Record
               /\ NoProcess \in Process /\ NoRequest \in Request
BY DEF NoSession, NoRecord, NoProcess, NoRequest, NoBody, Session, Record, Process, Request,
       States, Places

\* Open leaves rows.
LEMMA RecoveredType ==
  ASSUME TypeOK
  PROVE  Recovered \in [Threads -> Session]
<1> SUFFICES ASSUME NEW t \in Threads PROVE Recovered[t] \in Session
  BY DEF Recovered
<1>1. sessions[t] \in Session
  BY DEF TypeOK
<1> QED
  BY <1>1 DEF Recovered, Session, States

\* Every command and step of an exec keeps the types.
LEMMA TypeExec ==
  ASSUME TypeOK, IntentHeld, RunRecorded, AffinityAssumption, Exec
  PROVE  TypeOK'
<1> USE RecoveredType, Zeros DEF tables, memory, history
<1>1. ASSUME NEW h \in Handles, NEW p \in Projects, ExecNew(h, p) PROVE TypeOK'
  <2>1. records' \in [Handles -> Record]
    BY <1>1 DEF ExecNew, TypeOK, Record
  <2>2. proc' \in Process
    BY <1>1 DEF ExecNew, Process, Places
  <2> QED
    BY <1>1, <2>1, <2>2 DEF ExecNew, TypeOK
<1>2. ASSUME NEW h \in Handles, NEW p \in Projects, ExecResume(h, p) PROVE TypeOK'
  <2>1. records[h].thread \in Threads \cup {None}
    BY DEF TypeOK, Record
  <2>2. proc' \in Process
    BY <1>2, <2>1 DEF ExecResume, Process, Places
  <2> QED
    BY <1>2, <2>2 DEF ExecResume, TypeOK
<1>3. ASSUME NEW h \in Handles, NEW p \in Projects, NEW x \in handoffs, ExecHandoff(h, x, p)
      PROVE  TypeOK'
  <2>1. records' \in [Handles -> Record]
    BY <1>3 DEF ExecHandoff, TypeOK, Record
  <2>2. x.id \in Reservations
    BY DEF TypeOK, Handoff
  <2>3. proc' \in Process
    BY <1>3, <2>2, ZenonT(30) DEF ExecHandoff, Process, Places
  <2> QED
    BY <1>3, <2>1, <2>3 DEF ExecHandoff, TypeOK
<1>4. CASE Refused
  BY <1>4 DEF Refused, TypeOK
<1>5. CASE Launch
  <2>1. records' \in [Handles -> Record]
    BY <1>5, ZenonT(30) DEF Launch, RecordBegin, TypeOK, Record
  <2>2. proc' \in Process
    BY <1>5 DEF Launch, TypeOK, Process, Places
  <2> QED
    BY <1>5, <2>1, <2>2 DEF Launch, TypeOK
<1>6. CASE ResumeStarted
  <2>1. proc' \in Process
    BY <1>6 DEF ResumeStarted, TypeOK, Process, Places
  <2> QED
    BY <1>6, <2>1 DEF ResumeStarted, TypeOK
<1>7. CASE StartFailed
  <2>1. proc' \in Process
    BY <1>7 DEF StartFailed, TypeOK, Process, Places
  <2> QED
    BY <1>7, <2>1 DEF StartFailed, TypeOK
<1>8. CASE RecordStarted
  <2>0. proc.thread \in Threads \cup {None}
    BY DEF TypeOK, Process
  <2>a. ASSUME NEW h \in Handles PROVE [records[h] EXCEPT !.thread = proc.thread] \in Record
    BY <2>0 DEF TypeOK, Record
  <2>1. records' \in [Handles -> Record]
    BY <1>8, <2>a DEF RecordStarted, TypeOK
  <2>2. proc' \in Process
    BY <1>8 DEF RecordStarted, TypeOK, Process, Places
  <2> QED
    BY <1>8, <2>1, <2>2 DEF RecordStarted, TypeOK
<1>9. ASSUME NEW t \in Threads, NEW slot \in Slots, NewStarted(t, slot) PROVE TypeOK'
  <2>1. sessions' \in [Threads -> Session] /\ bound' \in [Threads -> Accounts \cup {None}]
    BY <1>9 DEF NewStarted, Insert, TypeOK, Session, States, Process
  <2>2. proc' \in Process
    BY <1>9 DEF NewStarted, TypeOK, Process, Places
  <2> QED
    BY <1>9, <2>1, <2>2 DEF NewStarted, TypeOK
<1>10. ASSUME NEW t \in Threads, NEW x \in handoffs, HandoffStarted(t, x) PROVE TypeOK'
  <2>0. x \in Handoff /\ x.target \in Slots
    BY DEF TypeOK, Handoff
  <2>1. sessions' \in [Threads -> Session] /\ bound' \in [Threads -> Accounts \cup {None}]
    BY <1>10, <2>0 DEF HandoffStarted, Insert, TypeOK, Session, States, Process
  <2>2. proc' \in Process
    BY <1>10 DEF HandoffStarted, TypeOK, Process, Places
  <2>3. [x EXCEPT !.consumedBy = t] \in Handoff
    BY <2>0 DEF Handoff
  <2>4. handoffs' \subseteq Handoff
    BY <1>10, <2>3 DEF HandoffStarted, TypeOK
  <2> QED
    BY <1>10, <2>1, <2>2, <2>4 DEF HandoffStarted, TypeOK
<1>11. ASSUME NEW good \in BOOLEAN, CliEnds(good) PROVE TypeOK'
  <2>1. proc' \in Process
    BY <1>11 DEF CliEnds, TypeOK, Process, Places
  <2> QED
    BY <1>11, <2>1 DEF CliEnds, TypeOK
<1>12. CASE Complete
  <2>1. records' \in [Handles -> Record]
    BY <1>12, ZenonT(30) DEF Complete, TypeOK, Record
  <2>2. proc' \in Process
    BY <1>12 DEF Complete, TypeOK, Process, Places
  <2> QED
    BY <1>12, <2>1, <2>2 DEF Complete, TypeOK
<1>13. ASSUME Spoil PROVE spoiled' \subseteq Handles
  <2>1. CASE proc.pc \in {"running", "started", "draining", "failing"}
    BY <1>13, <2>1 DEF Spoil, RunRecorded, Alive, TypeOK
  <2>2. CASE ~(proc.pc \in {"running", "started", "draining", "failing"})
    BY <1>13, <2>2 DEF Spoil, TypeOK
  <2> QED
    BY <2>1, <2>2
<1>14. CASE Exit
  <2>1. ASSUME NEW r \in Requests, requests[r].pc = "begun"
        PROVE  [pc |-> "begun", thread |-> requests[r].thread, account |-> requests[r].account,
                refs |-> RefsOf(r)] \in Orphan
    <3>1. requests[r].thread \in Threads /\ requests[r].account \in Accounts \cup {None}
      BY <2>1 DEF IntentHeld, HandlerHeld, TypeOK, Request
    <3>2. ASSUME NEW key \in RefsOf(r) PROVE key \in Keys
      <4>1. <<key, requests[r].thread>> \in responses
        BY <2>1 DEF IntentHeld, HandlerHeld
      <4> QED
        BY <4>1 DEF TypeOK
    <3> QED
      BY <3>1, <3>2 DEF Orphan
  <2>2. orphans' \subseteq Orphan
    BY <1>14, <2>1 DEF Exit, TypeOK
  <2> QED
    BY <1>13, <1>14, <2>2 DEF Exit, TypeOK
<1>15. CASE Crash
  BY <1>13, <1>15 DEF Crash, TypeOK
<1>16. ASSUME NEW o \in orphans, OrphanSends(o) PROVE TypeOK'
  <2>1. [o EXCEPT !.pc = "sent"] \in Orphan
    BY DEF TypeOK, Orphan
  <2>2. orphans' \subseteq Orphan
    BY <1>16, <2>1 DEF OrphanSends, TypeOK
  <2> QED
    BY <1>16, <2>2 DEF OrphanSends, TypeOK
<1>17. ASSUME NEW o \in orphans, OrphanEnds(o) PROVE TypeOK'
  BY <1>17 DEF OrphanEnds, TypeOK
<1> QED
  BY <1>1, <1>2, <1>3, <1>4, <1>5, <1>6, <1>7, <1>8, <1>9, <1>10, <1>11, <1>12, <1>14, <1>15,
     <1>16, <1>17 DEF Exec

\* Every step of a handler keeps the types.
LEMMA TypeServe ==
  ASSUME TypeOK, AccountsInPlace, IntentHeld, Serve
  PROVE  TypeOK'
<1> USE Zeros DEF tables, memory, history
<1> PICK r \in Requests :
       \/ \E t \in Threads, body \in Bodies : Arrive(r, t, body)
       \/ Resolve(r) \/ Admit(r) \/ Reject(r) \/ Begin(r) \/ Unbegun(r) \/ Send(r)
       \/ \E answer \in Answers : FinishOk(r, answer)
       \/ FinishFailed(r) \/ FinishLost(r)
  BY DEF Serve
<1>t. requests[r] \in Request
  BY DEF TypeOK
<1>g. ASSUME NEW value \in Request PROVE [requests EXCEPT ![r] = value] \in [Requests -> Request]
  BY DEF TypeOK
<1>p. ASSUME NEW pc \in {"resolved", "reading", "begun", "sent"}
      PROVE  [requests EXCEPT ![r].pc = pc] \in [Requests -> Request]
  <2>1. [requests[r] EXCEPT !.pc = pc] \in Request
    BY <1>t DEF Request
  <2> QED
    BY <2>1 DEF TypeOK
<1>1. ASSUME NEW t \in Threads, NEW body \in Bodies, Arrive(r, t, body) PROVE TypeOK'
  <2>1. [NoRequest EXCEPT !.pc = "waiting", !.thread = t, !.body = body] \in Request
    BY DEF Request, NoRequest
  <2> QED
    BY <1>1, <1>g, <2>1 DEF Arrive, TypeOK
<1>2. CASE Resolve(r)
  <2>1. sessions[requests[r].thread].slot \in Slots
        /\ vault[sessions[requests[r].thread].slot] \in Accounts \cup {None}
    <3>1. requests[r].thread \in Threads
      BY <1>2 DEF Resolve, IntentHeld, HandlerHeld
    <3>2. sessions[requests[r].thread] \in Session
      BY <3>1 DEF TypeOK
    <3> QED
      BY <3>1, <3>2, <1>2 DEF TypeOK, Resolve, Ready, AccountsInPlace, Known
  <2>2. [requests[r] EXCEPT !.pc = "resolved", !.slot = sessions[requests[r].thread].slot,
                            !.account = vault[sessions[requests[r].thread].slot]] \in Request
    BY <1>t, <2>1 DEF Request
  <2>3. requests' \in [Requests -> Request]
    BY <1>2, <1>g, <2>2 DEF Resolve, TypeOK
  <2> QED
    BY <1>2, <2>3 DEF Resolve, TypeOK
<1>3. CASE Admit(r)
  BY <1>3, <1>p DEF Admit, TypeOK
<1>4. CASE Reject(r)
  BY <1>4, <1>g DEF Reject, TypeOK
<1>5. CASE Begin(r)
  <2>1. requests[r].thread \in Threads /\ requests[r].body \in Bodies \cup {NoBody}
    BY <1>5, <1>t DEF Begin, IntentHeld, HandlerHeld, Request
  <2>2. responses' \subseteq Keys \X Threads
    <3>1. inlineMessageIDs(requests[r].body) \subseteq Keys
      BY <2>1, InlineKeys
    <3> QED
      BY <1>5, <2>1, <3>1 DEF Begin, Claim, TypeOK
  <2>3. [sessions[requests[r].thread] EXCEPT !.state = "inflight", !.request = r] \in Session
    BY <2>1 DEF TypeOK, Session, States
  <2>4. sessions' \in [Threads -> Session]
    BY <1>5, <2>1, <2>3 DEF Begin, TypeOK
  <2> QED
    BY <1>5, <1>p, <2>2, <2>4 DEF Begin, TypeOK
<1>6. ASSUME Gives(r), requests[r].pc \in {"reading", "begun", "sent"}
      PROVE  requests' \in [Requests -> Request] /\ blocked' \subseteq Threads
  BY <1>6, <1>g DEF Gives, TypeOK, IntentHeld, HandlerHeld
<1>7. CASE Unbegun(r)
  BY <1>7, <1>6 DEF Unbegun, TypeOK
<1>8. CASE Send(r)
  BY <1>8, <1>p DEF Send, TypeOK
<1>9. ASSUME NEW answer \in Answers, FinishOk(r, answer) PROVE TypeOK'
  <2>1. requests[r].thread \in Threads
    BY <1>9 DEF FinishOk, IntentHeld, HandlerHeld
  <2>2. responses' \subseteq Keys \X Threads
    BY <1>9, <2>1, GrantedKeys DEF FinishOk, Claim, TypeOK
  <2>3. [sessions[requests[r].thread] EXCEPT !.state = "ready", !.request = None] \in Session
    BY <2>1 DEF TypeOK, Session, States
  <2>4. sessions' \in [Threads -> Session]
    BY <1>9, <2>1, <2>3 DEF FinishOk, TypeOK
  <2> QED
    BY <1>9, <1>g, <2>2, <2>4 DEF FinishOk, TypeOK
<1>10. CASE FinishFailed(r)
  <2>1. requests[r].thread \in Threads
    BY <1>10 DEF FinishFailed, IntentHeld, HandlerHeld
  <2>3. [sessions[requests[r].thread] EXCEPT !.state = "blocked", !.request = None] \in Session
    BY <2>1 DEF TypeOK, Session, States
  <2>4. sessions' \in [Threads -> Session]
    BY <1>10, <2>1, <2>3 DEF FinishFailed, TypeOK
  <2> QED
    BY <1>10, <1>6, <2>4 DEF FinishFailed, TypeOK
<1>11. CASE FinishLost(r)
  BY <1>11, <1>6 DEF FinishLost, TypeOK
<1> QED
  BY <1>1, <1>2, <1>3, <1>4, <1>5, <1>7, <1>8, <1>9, <1>10, <1>11

\* A logout leaves rows.
LEMMA BlockedType ==
  ASSUME TypeOK, NEW slot \in Slots
  PROVE  Blocked(slot) \in [Threads -> Session]
<1> SUFFICES ASSUME NEW t \in Threads PROVE Blocked(slot)[t] \in Session
  BY DEF Blocked
<1>1. sessions[t] \in Session /\ Recovered[t] \in Session
  BY RecoveredType DEF TypeOK
<1> QED
  BY <1>1 DEF Blocked, Session, States

\* Every handoff and account command keeps the types.
LEMMA TypeManage ==
  ASSUME TypeOK, AffinityAssumption, Manage
  PROVE  TypeOK'
<1> USE RecoveredType, Zeros DEF tables, memory, history
<1>1. ASSUME NEW h \in Handles, NEW p \in Projects, NEW slot \in Slots, NEW id \in Reservations,
             Prepare(h, p, slot, id)
      PROVE  TypeOK'
  <2>1. records[h].thread \in Threads
    BY <1>1 DEF Prepare, Loadable, TypeOK, Record
  <2>2. vault[slot] \in Accounts
    BY <1>1 DEF Prepare, TypeOK
  <2>3. handoffs' \subseteq Handoff
    BY <1>1, <2>1, <2>2 DEF Prepare, TypeOK, Handoff
  <2> QED
    BY <1>1, <2>3 DEF Prepare, TypeOK
<1>2. ASSUME NEW h \in Handles, NEW x \in handoffs, Cancel(h, x) PROVE TypeOK'
  BY <1>2 DEF Cancel, TypeOK
<1>3. ASSUME NEW slot \in Slots, LogoutInvalidate(slot) PROVE TypeOK'
  <2>1. proc' \in Process
    BY <1>3 DEF LogoutInvalidate, Process, Places
  <2> QED
    BY <1>3, <2>1, BlockedType DEF LogoutInvalidate, TypeOK
<1>4. ASSUME NEW slot \in Slots, NEW a \in Accounts, Login(slot, a) PROVE TypeOK'
  BY <1>4 DEF Login, TypeOK
<1>5. CASE LogoutVault
  BY <1>5 DEF LogoutVault, TypeOK
<1> QED
  BY <1>1, <1>2, <1>3, <1>4, <1>5 DEF Manage

-----------------------------------------------------------------------------
(* What a step does to the rows of the conversations.                      *)

\* No row is new, none changes its project or slot, and none is reopened.
Tame ==
  /\ bound' = bound
  /\ \A t \in Threads :
       /\ sessions'[t].project = sessions[t].project
       /\ sessions'[t].slot = sessions[t].slot
       /\ ~Known(t) => sessions'[t] = sessions[t]
       /\ Known(t) => sessions'[t].state # "none"
       /\ sessions'[t].state \in {"ready", "inflight"} => sessions[t].state \in {"ready", "inflight"}
       /\ sessions[t].state = "blocked" => sessions'[t].state = "blocked"

\* One row is new: Store.Register or Store.BindHandoff of a run.
Registers(t, slot) ==
  /\ Startable /\ Unknown(t) /\ vault[slot] # None
  /\ Insert(t, slot)
  /\ proc' = [proc EXCEPT !.binding = "bound", !.thread = t]
  /\ UNCHANGED <<responses, records, vault, requests, blocked, orphans, upstream, given, spoiled>>

\* What is known stays known, closed stays closed, and ids keep their owners.
Grows ==
  /\ \A t \in Threads : Known(t) =>
       /\ sessions'[t].state # "none"
       /\ sessions'[t].project = sessions[t].project
       /\ sessions'[t].slot = sessions[t].slot
       /\ bound'[t] = bound[t]
  /\ \A t \in Threads : sessions[t].state = "blocked" => sessions'[t].state = "blocked"
  /\ responses \subseteq responses'

\* Opening the database is tame.
LEMMA RecoveredTame ==
  ASSUME TypeOK, bound' = bound, sessions' = Recovered
  PROVE  Tame
<1> SUFFICES ASSUME NEW t \in Threads
             PROVE  /\ sessions'[t].project = sessions[t].project
                    /\ sessions'[t].slot = sessions[t].slot
                    /\ ~Known(t) => sessions'[t] = sessions[t]
                    /\ Known(t) => sessions'[t].state # "none"
                    /\ sessions'[t].state \in {"ready", "inflight"} =>
                         sessions[t].state \in {"ready", "inflight"}
                    /\ sessions[t].state = "blocked" => sessions'[t].state = "blocked"
  BY DEF Tame
<1>1. sessions[t] \in Session
  BY DEF TypeOK
<1> QED
  BY <1>1 DEF Recovered, Known, Session

\* So is a logout.
LEMMA BlockedTame ==
  ASSUME TypeOK, AffinityAssumption, AccountsInPlace, NEW slot \in Slots,
         bound' = bound, sessions' = Blocked(slot)
  PROVE  Tame
<1> SUFFICES ASSUME NEW t \in Threads
             PROVE  /\ sessions'[t].project = sessions[t].project
                    /\ sessions'[t].slot = sessions[t].slot
                    /\ ~Known(t) => sessions'[t] = sessions[t]
                    /\ Known(t) => sessions'[t].state # "none"
                    /\ sessions'[t].state \in {"ready", "inflight"} =>
                         sessions[t].state \in {"ready", "inflight"}
                    /\ sessions[t].state = "blocked" => sessions'[t].state = "blocked"
  BY DEF Tame
<1>1. sessions[t] \in Session
  BY DEF TypeOK
<1>2. ~Known(t) => sessions[t].slot = None
  BY DEF AccountsInPlace, NoSession
<1>3. slot # None
  BY DEF AffinityAssumption
<1> QED
  BY <1>1, <1>2, <1>3 DEF Blocked, Recovered, Known, Session

\* A command or a step of an exec keeps the rows tame or registers one.
LEMMA ExecRows ==
  ASSUME TypeOK, Exec
  PROVE  /\ responses' = responses /\ vault' = vault
         /\ Tame \/ \E t \in Threads, slot \in Slots : Registers(t, slot)
<1> USE RecoveredTame DEF tables, memory, history
<1>s. ASSUME sessions' = sessions, bound' = bound PROVE Tame
  BY <1>s DEF Tame, Known
<1>1. ASSUME NEW h \in Handles, NEW p \in Projects, ExecNew(h, p)
      PROVE  responses' = responses /\ vault' = vault /\ Tame
  BY <1>1 DEF ExecNew
<1>2. ASSUME NEW h \in Handles, NEW p \in Projects, ExecResume(h, p)
      PROVE  responses' = responses /\ vault' = vault /\ Tame
  BY <1>2 DEF ExecResume
<1>3. ASSUME NEW h \in Handles, NEW p \in Projects, NEW x \in handoffs, ExecHandoff(h, x, p)
      PROVE  responses' = responses /\ vault' = vault /\ Tame
  BY <1>3 DEF ExecHandoff
<1>4. CASE Refused
  BY <1>4 DEF Refused
<1>5. CASE Launch \/ ResumeStarted \/ StartFailed \/ RecordStarted \/ Complete \/ Exit \/ Crash
  BY <1>5, <1>s DEF Launch, ResumeStarted, StartFailed, RecordStarted, Complete, Exit, Crash
<1>6. ASSUME NEW t \in Threads, NEW slot \in Slots, NewStarted(t, slot)
      PROVE  responses' = responses /\ vault' = vault /\ Registers(t, slot)
  BY <1>6 DEF NewStarted, Registers
<1>7. ASSUME NEW t \in Threads, NEW x \in handoffs, HandoffStarted(t, x)
      PROVE  responses' = responses /\ vault' = vault /\ x.target \in Slots /\ Registers(t, x.target)
  BY <1>7 DEF HandoffStarted, Registers, TypeOK, Handoff
<1>8. ASSUME NEW good \in BOOLEAN, CliEnds(good)
      PROVE  responses' = responses /\ vault' = vault /\ Tame
  BY <1>8, <1>s DEF CliEnds
<1>9. ASSUME NEW o \in orphans, OrphanSends(o) \/ OrphanEnds(o)
      PROVE  responses' = responses /\ vault' = vault /\ Tame
  BY <1>9, <1>s DEF OrphanSends, OrphanEnds
<1> QED
  BY <1>1, <1>2, <1>3, <1>4, <1>5, <1>6, <1>7, <1>8, <1>9 DEF Exec

\* A handler's step keeps the rows tame, and ids their owners.
LEMMA ServeRows ==
  ASSUME TypeOK, IntentHeld, Serve
  PROVE  Tame /\ responses \subseteq responses' /\ UNCHANGED <<vault, proc, handoffs, records, spoiled>>
<1> USE DEF tables, memory, history
<1> PICK r \in Requests :
       \/ \E t \in Threads, body \in Bodies : Arrive(r, t, body)
       \/ Resolve(r) \/ Admit(r) \/ Reject(r) \/ Begin(r) \/ Unbegun(r) \/ Send(r)
       \/ \E answer \in Answers : FinishOk(r, answer)
       \/ FinishFailed(r) \/ FinishLost(r)
  BY DEF Serve
<1>s. ASSUME sessions' = sessions, bound' = bound PROVE Tame
  BY <1>s DEF Tame, Known
<1>e. ASSUME NEW st \in {"ready", "inflight", "blocked"}, NEW q, requests[r].thread \in Threads,
             sessions[requests[r].thread].state \in {"ready", "inflight"}, bound' = bound,
             sessions' = [sessions EXCEPT ![requests[r].thread].state = st,
                                          ![requests[r].thread].request = q]
      PROVE  Tame
  <2> SUFFICES ASSUME NEW t \in Threads
             PROVE  /\ sessions'[t].project = sessions[t].project
                    /\ sessions'[t].slot = sessions[t].slot
                    /\ ~Known(t) => sessions'[t] = sessions[t]
                    /\ Known(t) => sessions'[t].state # "none"
                    /\ sessions'[t].state \in {"ready", "inflight"} =>
                         sessions[t].state \in {"ready", "inflight"}
                    /\ sessions[t].state = "blocked" => sessions'[t].state = "blocked"
    BY <1>e DEF Tame
  <2>1. sessions \in [Threads -> Session] /\ sessions[t] \in Session
    BY DEF TypeOK
  <2>2. CASE t # requests[r].thread
    BY <1>e, <2>1, <2>2 DEF Known
  <2>3. CASE t = requests[r].thread
    <3>1. sessions'[t] = [sessions[t] EXCEPT !.state = st, !.request = q]
      BY <1>e, <2>1, <2>3
    <3> QED
      BY <1>e, <2>1, <2>3, <3>1 DEF Known, Session
  <2> QED
    BY <2>2, <2>3
<1>1. CASE \/ \E t \in Threads, body \in Bodies : Arrive(r, t, body)
           \/ Resolve(r) \/ Admit(r) \/ Reject(r) \/ Unbegun(r) \/ Send(r) \/ FinishLost(r)
  BY <1>1, <1>s DEF Arrive, Resolve, Admit, Reject, Unbegun, Send, FinishLost
<1>2. CASE Begin(r)
  <2>1. Tame
    BY <1>2, <1>e DEF Begin, MayBegin, Ready, IntentHeld, HandlerHeld
  <2> QED
    BY <1>2, <2>1 DEF Begin, Claim
<1>3. ASSUME NEW answer \in Answers, FinishOk(r, answer)
      PROVE  Tame /\ responses \subseteq responses' /\ UNCHANGED <<vault, proc, handoffs, records, spoiled>>
  <2>1. Tame
    BY <1>3, <1>e DEF FinishOk, Leased, IntentHeld, HandlerHeld
  <2> QED
    BY <1>3, <2>1 DEF FinishOk, Claim
<1>4. CASE FinishFailed(r)
  <2>1. Tame
    BY <1>4, <1>e DEF FinishFailed, Leased, IntentHeld, HandlerHeld
  <2> QED
    BY <1>4, <2>1 DEF FinishFailed
<1> QED
  BY <1>1, <1>2, <1>3, <1>4

\* So does a handoff or account command.
LEMMA ManageRows ==
  ASSUME TypeOK, AffinityAssumption, AccountsInPlace, Manage
  PROVE  Tame /\ responses' = responses
<1> USE RecoveredTame, BlockedTame DEF tables, memory, history
<1>s. ASSUME sessions' = sessions, bound' = bound PROVE Tame
  BY <1>s DEF Tame, Known
<1>1. ASSUME NEW h \in Handles, NEW p \in Projects, NEW slot \in Slots, NEW id \in Reservations,
             Prepare(h, p, slot, id)
      PROVE  Tame /\ responses' = responses
  BY <1>1 DEF Prepare
<1>2. ASSUME NEW h \in Handles, NEW x \in handoffs, Cancel(h, x)
      PROVE  Tame /\ responses' = responses
  BY <1>2 DEF Cancel
<1>3. ASSUME NEW slot \in Slots, LogoutInvalidate(slot) PROVE Tame /\ responses' = responses
  BY <1>3 DEF LogoutInvalidate
<1>4. ASSUME NEW slot \in Slots, NEW a \in Accounts, Login(slot, a)
      PROVE  Tame /\ responses' = responses
  BY <1>4, <1>s DEF Login
<1>5. CASE LogoutVault
  BY <1>5, <1>s DEF LogoutVault
<1> QED
  BY <1>1, <1>2, <1>3, <1>4, <1>5 DEF Manage

\* Every step of the specification grows.
LEMMA StepGrows ==
  ASSUME TypeOK, AffinityAssumption, AccountsInPlace, IntentHeld, Next
  PROVE  Grows
<1>1. ASSUME Tame, responses \subseteq responses' PROVE Grows
  BY <1>1 DEF Tame, Grows, Known
<1>2. ASSUME NEW t \in Threads, NEW slot \in Slots, Registers(t, slot) PROVE Grows
  <2>1. ~Known(t) /\ sessions[t].state # "blocked"
    BY <1>2 DEF Registers, Unknown, Known, NoSession
  <2> QED
    BY <1>2, <2>1 DEF Registers, Insert, Grows, TypeOK, Known
<1>3. CASE Exec
  BY <1>1, <1>2, <1>3, ExecRows
<1>4. CASE Serve
  BY <1>1, <1>4, ServeRows
<1>5. CASE Manage
  BY <1>1, <1>5, ManageRows
<1> QED
  BY <1>3, <1>4, <1>5 DEF Next

-----------------------------------------------------------------------------
(* A conversation that is not closed has its account in its slot.          *)

\* No step of an exec is one of a logout.
LEMMA ExecNoLogout ==
  ASSUME TypeOK, Exec
  PROVE  proc' = proc \/ proc'.pc # "logout"
<1> USE DEF tables, memory, history
<1>1. ASSUME NEW h \in Handles, NEW p \in Projects,
             ExecNew(h, p) \/ ExecResume(h, p) \/ \E x \in handoffs : ExecHandoff(h, x, p)
      PROVE  proc'.pc # "logout"
  BY <1>1 DEF ExecNew, ExecResume, ExecHandoff, NoProcess
<1>2. CASE Refused \/ \E o \in orphans : OrphanSends(o) \/ OrphanEnds(o)
  BY <1>2 DEF Refused, OrphanSends, OrphanEnds
<1>3. CASE Exit \/ Crash
  BY <1>3 DEF Exit, Crash, NoProcess
<1>4. CASE Launch \/ ResumeStarted \/ StartFailed \/ RecordStarted \/ Complete
  BY <1>4 DEF Launch, ResumeStarted, StartFailed, RecordStarted, Complete, Startable, TypeOK, Process
<1>5. ASSUME NEW good \in BOOLEAN, CliEnds(good) PROVE proc'.pc # "logout"
  BY <1>5 DEF CliEnds, TypeOK, Process
<1>6. ASSUME NEW t \in Threads, NEW slot \in Slots, NewStarted(t, slot) PROVE proc'.pc # "logout"
  BY <1>6 DEF NewStarted, Startable, TypeOK, Process
<1>7. ASSUME NEW t \in Threads, NEW x \in handoffs, HandoffStarted(t, x) PROVE proc'.pc # "logout"
  BY <1>7 DEF HandoffStarted, Startable, TypeOK, Process
<1> QED
  BY <1>1, <1>2, <1>3, <1>4, <1>5, <1>6, <1>7 DEF Exec

LEMMA TamePlaces ==
  ASSUME AccountsInPlace, Tame, vault' = vault, proc' = proc \/ proc'.pc # "logout"
  PROVE  AccountsInPlace'
BY DEF AccountsInPlace, Tame, Known

LEMMA PlacesStep ==
  ASSUME TypeOK, AffinityAssumption, AccountsInPlace, IntentHeld, RunRecorded, Next
  PROVE  AccountsInPlace'
<1> USE DEF tables, memory, history
<1>1. ASSUME NEW t \in Threads, NEW slot \in Slots, Registers(t, slot) PROVE AccountsInPlace'
  <2>1. sessions'[t] = [project |-> proc.project, slot |-> slot, state |-> "ready", request |-> None]
        /\ bound'[t] = vault[slot] /\ vault[slot] \in Accounts
        /\ \A u \in Threads : u # t => sessions'[u] = sessions[u] /\ bound'[u] = bound[u]
    BY <1>1 DEF Registers, Insert, TypeOK
  <2>2. proc.project \in Projects /\ proc'.pc = "running" /\ vault' = vault
    BY <1>1 DEF Registers, Startable, RunRecorded, Alive, TypeOK, Process
  <2> QED
    BY <2>1, <2>2 DEF AccountsInPlace, Known
<1>2. CASE Exec
  BY <1>1, <1>2, ExecRows, ExecNoLogout, TamePlaces
<1>3. CASE Serve
  BY <1>3, ServeRows, TamePlaces
<1>4. ASSUME NEW h \in Handles, NEW p \in Projects, NEW slot \in Slots, NEW id \in Reservations,
             Prepare(h, p, slot, id)
      PROVE  vault' = vault /\ proc' = proc
  BY <1>4 DEF Prepare
<1>5. ASSUME NEW h \in Handles, NEW x \in handoffs, Cancel(h, x) PROVE vault' = vault /\ proc' = proc
  BY <1>5 DEF Cancel
<1>6. ASSUME NEW slot \in Slots, LogoutInvalidate(slot) PROVE AccountsInPlace'
  <2>1. Tame
    BY <1>6, BlockedTame DEF LogoutInvalidate
  <2>2. ASSUME NEW t \in Threads, sessions'[t].slot = slot PROVE sessions'[t].state = "blocked"
    <3>1. sessions[t].slot = slot /\ sessions[t] \in Session
      BY <2>1, <2>2 DEF Tame, TypeOK
    <3> QED
      BY <1>6, <3>1 DEF LogoutInvalidate, Blocked, Session
  <2>3. proc'.slot = slot /\ vault' = vault
    BY <1>6 DEF LogoutInvalidate, NoProcess
  <2> QED
    BY <2>1, <2>2, <2>3 DEF AccountsInPlace, Tame, Known
<1>7. CASE LogoutVault
  <2>1. proc'.pc = "none" /\ proc.slot \in Slots /\ proc.pc = "logout"
    BY <1>7 DEF LogoutVault, NoProcess, AccountsInPlace
  <2>2. \A s \in Slots : vault'[s] = IF s = proc.slot THEN None ELSE vault[s]
    BY <1>7 DEF LogoutVault, TypeOK
  <2>3. sessions' = sessions /\ bound' = bound
    BY <1>7 DEF LogoutVault
  <2> QED
    BY <2>1, <2>2, <2>3 DEF AccountsInPlace, Known
<1>8. ASSUME NEW slot \in Slots, NEW a \in Accounts, Login(slot, a) PROVE AccountsInPlace'
  <2>1. proc' = proc /\ sessions' = sessions /\ bound' = bound /\ proc.pc # "logout"
        /\ vault[slot] = None
    BY <1>8 DEF Login
  <2>2. \A s \in Slots : vault'[s] = IF s = slot THEN a ELSE vault[s]
    BY <1>8 DEF Login, TypeOK
  <2>3. \A s \in Slots : vault[s] # a
    BY <1>8 DEF Login
  <2>4. ASSUME NEW t \in Threads, sessions[t].state \in {"ready", "inflight"}
        PROVE  sessions[t].slot # slot
    <3>1. Known(t) /\ bound[t] # None
      BY <2>4 DEF Known, AccountsInPlace, AffinityAssumption
    <3> QED
      BY <2>1, <2>4, <3>1 DEF AccountsInPlace
  <2> QED
    BY <2>1, <2>2, <2>3, <2>4 DEF AccountsInPlace, Known
<1>9. CASE Manage
  <2>1. Tame
    BY <1>9, ManageRows
  <2> QED
    BY <1>4, <1>5, <1>6, <1>7, <1>8, <1>9, <2>1, TamePlaces DEF Manage
<1> QED
  BY <1>2, <1>3, <1>9 DEF Next

-----------------------------------------------------------------------------
(* Who is past Begin has the intent.                                       *)

LEMMA QuietIntent ==
  ASSUME \A r \in Requests : requests'[r] = NoRequest
  PROVE  IntentHeld'
<1>1. \A r \in Requests : requests'[r] = NoRequest /\ requests'[r].pc = "none"
  BY DEF NoRequest
<1> QED
  BY <1>1 DEF IntentHeld, HandlerHeld

\* A step of a run beside its handlers.
LEMMA BesideIntent ==
  ASSUME IntentHeld, UNCHANGED <<requests, sessions, bound, responses>>,
         proc'.pc \in {"none", "logout", "polling"} => proc.pc \in {"none", "logout", "polling"}
  PROVE  IntentHeld'
BY DEF IntentHeld, HandlerHeld, Leased, RefsOf, Known

\* A new conversation is not the one of a handler past Resolve.
LEMMA RegistersIntent ==
  ASSUME TypeOK, IntentHeld, NEW t \in Threads, NEW slot \in Slots, Registers(t, slot)
  PROVE  IntentHeld'
<1>1. requests' = requests /\ responses' = responses /\ proc'.pc = "running"
      /\ \A u \in Threads : u # t => sessions'[u] = sessions[u] /\ bound'[u] = bound[u]
  BY DEF Registers, Insert, Startable, TypeOK, Process
<1>2. ~Known(t)
  BY DEF Registers, Unknown, Known, NoSession
<1>3. ASSUME NEW r \in Requests, requests[r].pc \in {"resolved", "reading", "begun", "sent"}
      PROVE  requests[r].thread \in Threads /\ requests[r].thread # t
  BY <1>2, <1>3 DEF IntentHeld, HandlerHeld
<1> QED
  BY <1>1, <1>3 DEF IntentHeld, HandlerHeld, Leased, RefsOf, Known

LEMMA IntentExec ==
  ASSUME TypeOK, IntentHeld, Exec
  PROVE  IntentHeld'
<1> USE DEF tables, memory, history
<1>q. ASSUME proc.pc \in {"none", "logout", "polling"}, requests' = requests PROVE IntentHeld'
  BY <1>q, QuietIntent DEF IntentHeld, HandlerHeld
<1>1. ASSUME NEW h \in Handles, NEW p \in Projects,
             ExecNew(h, p) \/ ExecResume(h, p) \/ \E x \in handoffs : ExecHandoff(h, x, p)
      PROVE  IntentHeld'
  BY <1>1, <1>q DEF ExecNew, ExecResume, ExecHandoff, Free
<1>2. CASE Refused \/ Launch
  BY <1>2, <1>q DEF Refused, Free, Launch
<1>3. CASE Exit \/ Crash
  BY <1>3, QuietIntent DEF Exit, Crash
<1>4. CASE ResumeStarted \/ StartFailed \/ RecordStarted \/ Complete
  <2>1. proc'.pc \notin {"none", "logout", "polling"}
    BY <1>4 DEF ResumeStarted, StartFailed, RecordStarted, Complete, Startable, TypeOK, Process
  <2> QED
    BY <1>4, <2>1, BesideIntent DEF ResumeStarted, StartFailed, RecordStarted, Complete
<1>5. ASSUME NEW good \in BOOLEAN, CliEnds(good) PROVE IntentHeld'
  <2>1. proc'.pc \notin {"none", "logout", "polling"}
    BY <1>5 DEF CliEnds, TypeOK, Process
  <2> QED
    BY <1>5, <2>1, BesideIntent DEF CliEnds
<1>6. ASSUME NEW o \in orphans, OrphanSends(o) \/ OrphanEnds(o) PROVE IntentHeld'
  BY <1>6, BesideIntent DEF OrphanSends, OrphanEnds
<1>7. ASSUME NEW t \in Threads, NEW slot \in Slots, NewStarted(t, slot) PROVE IntentHeld'
  BY <1>7, RegistersIntent DEF NewStarted, Registers
<1>8. ASSUME NEW t \in Threads, NEW x \in handoffs, HandoffStarted(t, x) PROVE IntentHeld'
  <2>1. x.target \in Slots
    BY DEF TypeOK, Handoff
  <2> QED
    BY <1>8, <2>1, RegistersIntent DEF HandoffStarted, Registers
<1> QED
  BY <1>1, <1>2, <1>3, <1>4, <1>5, <1>6, <1>7, <1>8 DEF Exec

LEMMA IntentManage ==
  ASSUME IntentHeld, Manage
  PROVE  IntentHeld'
<1> USE DEF tables, memory, history
<1>q. ASSUME proc.pc \in {"none", "logout", "polling"}, requests' = requests PROVE IntentHeld'
  BY <1>q, QuietIntent DEF IntentHeld, HandlerHeld
<1>1. ASSUME NEW h \in Handles, NEW p \in Projects, NEW slot \in Slots, NEW id \in Reservations,
             Prepare(h, p, slot, id)
      PROVE  IntentHeld'
  BY <1>1, <1>q DEF Prepare, Free
<1>2. ASSUME NEW h \in Handles, NEW x \in handoffs, Cancel(h, x) PROVE IntentHeld'
  BY <1>2, <1>q DEF Cancel, Free
<1>3. ASSUME NEW slot \in Slots, LogoutInvalidate(slot) PROVE IntentHeld'
  BY <1>3, <1>q DEF LogoutInvalidate, Free
<1>4. CASE LogoutVault
  BY <1>4, <1>q DEF LogoutVault
<1>5. ASSUME NEW slot \in Slots, NEW a \in Accounts, Login(slot, a) PROVE IntentHeld'
  BY <1>5, BesideIntent DEF Login
<1> QED
  BY <1>1, <1>2, <1>3, <1>4, <1>5 DEF Manage

\* A handler is not disturbed by what is done about other conversations.
LEMMA OtherHandler ==
  ASSUME NEW q \in Requests, HandlerHeld(q), requests'[q] = requests[q], Grows,
         requests[q].pc \in {"begun", "sent"} =>
           sessions'[requests[q].thread] = sessions[requests[q].thread]
  PROVE  HandlerHeld(q)'
BY DEF HandlerHeld, Grows, Leased, RefsOf, Known

\* Two handlers past Begin are about two conversations.
LEMMA OneHandler ==
  ASSUME IntentHeld, NEW q \in Requests, NEW r \in Requests, q # r,
         requests[q].pc \in {"begun", "sent"}
  PROVE  Leased(r) => requests[q].thread # requests[r].thread
BY DEF IntentHeld, HandlerHeld, Leased

\* Only a CLI that was launched has requests served.
LEMMA ServeLaunched ==
  ASSUME IntentHeld, Serve
  PROVE  proc.pc \notin {"none", "logout", "polling"}
<1> PICK r \in Requests :
       \/ \E t \in Threads, body \in Bodies : Arrive(r, t, body)
       \/ Resolve(r) \/ Admit(r) \/ Reject(r) \/ Begin(r) \/ Unbegun(r) \/ Send(r)
       \/ \E answer \in Answers : FinishOk(r, answer)
       \/ FinishFailed(r) \/ FinishLost(r)
  BY DEF Serve
<1>1. CASE requests[r].pc = "none"
  <2>1. proc.pc \in {"running", "started"}
    BY <1>1 DEF Arrive, Resolve, Admit, Reject, Begin, Unbegun, Send, FinishOk, FinishFailed,
                FinishLost
  <2> QED
    BY <2>1
<1>2. CASE requests[r].pc # "none"
  <2>1. requests[r] # NoRequest
    BY <1>2 DEF NoRequest
  <2> QED
    BY <2>1 DEF IntentHeld
<1> QED
  BY <1>1, <1>2

LEMMA IntentServe ==
  ASSUME TypeOK, AccountsInPlace, IntentHeld, Grows, Serve
  PROVE  IntentHeld'
<1> USE DEF tables, memory, history
<1> PICK r \in Requests :
       \/ \E t \in Threads, body \in Bodies : Arrive(r, t, body)
       \/ Resolve(r) \/ Admit(r) \/ Reject(r) \/ Begin(r) \/ Unbegun(r) \/ Send(r)
       \/ \E answer \in Answers : FinishOk(r, answer)
       \/ FinishFailed(r) \/ FinishLost(r)
  BY DEF Serve
<1>1. proc' = proc
  BY ServeRows
<1>2. \A q \in Requests : q # r => requests'[q] = requests[q]
  BY DEF Arrive, Resolve, Admit, Reject, Begin, Unbegun, Send, FinishOk, FinishFailed, FinishLost,
         Gives, TypeOK
<1>3. proc.pc \notin {"none", "logout", "polling"}
  BY ServeLaunched
<1>4. ASSUME NEW q \in Requests, q # r, requests[q].pc \in {"begun", "sent"}
      PROVE  sessions'[requests[q].thread] = sessions[requests[q].thread]
  <2>q. requests[q].thread \in Threads
    BY <1>4 DEF IntentHeld, HandlerHeld
  <2>1. CASE sessions' = sessions
    BY <2>1
  <2>2. CASE Begin(r)
    <3>1. requests[q].thread # requests[r].thread
      BY <1>4, <2>2 DEF Begin, MayBegin, Ready, IntentHeld, HandlerHeld, Leased
    <3> QED
      BY <2>q, <2>2, <3>1 DEF Begin, TypeOK
  <2>3. ASSUME NEW answer \in Answers, FinishOk(r, answer)
        PROVE  sessions'[requests[q].thread] = sessions[requests[q].thread]
    <3>1. requests[q].thread # requests[r].thread
      BY <1>4, <2>3, OneHandler DEF FinishOk
    <3> QED
      BY <2>q, <2>3, <3>1 DEF FinishOk, TypeOK
  <2>4. CASE FinishFailed(r)
    <3>1. requests[q].thread # requests[r].thread
      BY <1>4, <2>4, OneHandler DEF FinishFailed
    <3> QED
      BY <2>q, <2>4, <3>1 DEF FinishFailed, TypeOK
  <2> QED
    BY <2>1, <2>2, <2>3, <2>4 DEF Arrive, Resolve, Admit, Reject, Unbegun, Send, FinishLost
<1>5. ASSUME NEW q \in Requests, q # r PROVE HandlerHeld(q)'
  BY <1>2, <1>4, <1>5, OtherHandler DEF IntentHeld
<1>t. requests[r] \in Request
  BY DEF TypeOK
<1>h. HandlerHeld(r)
  BY DEF IntentHeld
<1>6. HandlerHeld(r)'
  <2>1. ASSUME NEW t \in Threads, NEW body \in Bodies, Arrive(r, t, body) PROVE HandlerHeld(r)'
    <3>1. requests'[r].pc = "waiting" /\ requests'[r].thread = t
      BY <2>1 DEF Arrive, TypeOK, NoRequest
    <3> QED
      BY <3>1 DEF HandlerHeld
  <2>2. CASE Resolve(r)
    <3>1. requests'[r] = [requests[r] EXCEPT !.pc = "resolved",
                             !.slot = sessions[requests[r].thread].slot,
                             !.account = vault[sessions[requests[r].thread].slot]]
      BY <2>2 DEF Resolve, TypeOK
    <3>2. requests'[r].pc = "resolved" /\ requests'[r].thread = requests[r].thread
          /\ requests'[r].account = vault[sessions[requests[r].thread].slot]
      BY <3>1, <1>t DEF Request
    <3>3. requests[r].thread \in Threads /\ sessions[requests[r].thread].state = "ready"
      BY <2>2, <1>h DEF Resolve, Ready, HandlerHeld
    <3>4. vault[sessions[requests[r].thread].slot] = bound[requests[r].thread]
      BY <3>3 DEF AccountsInPlace
    <3> QED
      BY <2>2, <3>2, <3>3, <3>4 DEF HandlerHeld, Resolve, Known
  <2>3. CASE Admit(r)
    <3>1. requests'[r] = [requests[r] EXCEPT !.pc = "reading"]
      BY <2>3 DEF Admit, TypeOK
    <3> QED
      BY <2>3, <3>1, <1>t, <1>h DEF Admit, Request, HandlerHeld, Known
  <2>4. CASE Begin(r)
    <3>1. requests'[r] = [requests[r] EXCEPT !.pc = "begun"]
      BY <2>4 DEF Begin, TypeOK
    <3>2. requests'[r].pc = "begun" /\ requests'[r].thread = requests[r].thread
          /\ requests'[r].account = requests[r].account /\ requests'[r].body = requests[r].body
      BY <3>1, <1>t DEF Request
    <3>3. requests[r].thread \in Threads /\ Known(requests[r].thread)
          /\ requests[r].account = bound[requests[r].thread]
      BY <2>4, <1>h DEF Begin, HandlerHeld
    <3>4. sessions'[requests[r].thread].state = "inflight" /\ sessions'[requests[r].thread].request = r
      BY <2>4, <3>3 DEF Begin, TypeOK, Session
    <3>5. ASSUME NEW key \in RefsOf(r) PROVE <<key, requests[r].thread>> \in responses
      <4>1. Owner(key) = {requests[r].thread}
        BY <2>4 DEF Begin, MayBegin
      <4>2. PICK pair \in responses : pair[1] = key /\ pair[2] = requests[r].thread
        BY <4>1 DEF Owner
      <4> QED
        BY <4>2 DEF TypeOK
    <3>6. RefsOf(r)' = RefsOf(r)
      BY <3>2 DEF RefsOf
    <3> QED
      BY <2>4, <3>2, <3>3, <3>4, <3>5, <3>6 DEF HandlerHeld, Known, Leased, Grows, Begin
  <2>5. CASE Send(r)
    <3>1. requests'[r] = [requests[r] EXCEPT !.pc = "sent"]
      BY <2>5 DEF Send, TypeOK
    <3>2. requests'[r].pc = "sent" /\ requests'[r].thread = requests[r].thread
          /\ requests'[r].account = requests[r].account /\ requests'[r].body = requests[r].body
      BY <3>1, <1>t DEF Request
    <3>3. RefsOf(r)' = RefsOf(r)
      BY <3>2 DEF RefsOf
    <3> QED
      BY <2>5, <3>2, <3>3, <1>h DEF Send, HandlerHeld, Known, Leased
  <2>6. ASSUME requests'[r] = NoRequest PROVE HandlerHeld(r)'
    BY <2>6 DEF HandlerHeld, NoRequest
  <2>7. CASE Reject(r) \/ Unbegun(r) \/ FinishFailed(r) \/ FinishLost(r)
    BY <2>6, <2>7 DEF Reject, Unbegun, FinishFailed, FinishLost, Gives, TypeOK
  <2>8. ASSUME NEW answer \in Answers, FinishOk(r, answer) PROVE HandlerHeld(r)'
    BY <2>6, <2>8 DEF FinishOk, TypeOK
  <2> QED
    BY <2>1, <2>2, <2>3, <2>4, <2>5, <2>7, <2>8
<1> QED
  BY <1>1, <1>3, <1>5, <1>6 DEF IntentHeld

-----------------------------------------------------------------------------
(* What is left of a turn is of a closed conversation.                     *)

LEMMA OrphansKept ==
  ASSUME TypeOK, OrphansClosed, Grows, orphans' = orphans,
         \A t \in Threads : sessions[t].state = "inflight" /\ Free =>
           sessions'[t].state \in (IF Free' THEN {"inflight", "blocked"} ELSE {"blocked"})
  PROVE  OrphansClosed'
<1> SUFFICES ASSUME NEW o \in orphans
             PROVE  /\ sessions'[o.thread].state \in (IF Free' THEN {"inflight", "blocked"} ELSE {"blocked"})
                    /\ o.account = bound'[o.thread]
                    /\ \A key \in o.refs : <<key, o.thread>> \in responses'
  BY DEF OrphansClosed
<1>1. o.thread \in Threads
  BY DEF TypeOK, Orphan
<1>2. sessions[o.thread].state \in (IF Free THEN {"inflight", "blocked"} ELSE {"blocked"})
  BY DEF OrphansClosed
<1>3. o.account = bound[o.thread] /\ \A key \in o.refs : <<key, o.thread>> \in responses
  BY DEF OrphansClosed
<1> QED
  BY <1>1, <1>2, <1>3 DEF Grows, Known

\* Recovered and Blocked leave no intent.
LEMMA NoIntentLeft ==
  ASSUME TypeOK, NEW t \in Threads, sessions[t].state = "inflight"
  PROVE  /\ Recovered[t].state = "blocked"
         /\ \A slot \in Slots : Blocked(slot)[t].state = "blocked"
<1>1. sessions[t] \in Session
  BY DEF TypeOK
<1> QED
  BY <1>1 DEF Recovered, Blocked, Session

LEMMA OrphansStep ==
  ASSUME TypeOK, IntentHeld, OrphansClosed, Grows, Next
  PROVE  OrphansClosed'
<1> USE DEF tables, memory, history
<1>o. ASSUME orphans' = orphans, sessions' = Recovered PROVE OrphansClosed'
  BY <1>o, OrphansKept, NoIntentLeft
<1>k. ASSUME orphans' = orphans, ~Free PROVE OrphansClosed'
  BY <1>k, OrphansKept
<1>1. ASSUME NEW h \in Handles, NEW p \in Projects,
             ExecNew(h, p) \/ ExecResume(h, p) \/ \E x \in handoffs : ExecHandoff(h, x, p)
      PROVE  OrphansClosed'
  BY <1>1, <1>o DEF ExecNew, ExecResume, ExecHandoff
<1>2. CASE Refused
  BY <1>2, <1>o DEF Refused
<1>3. CASE Launch \/ ResumeStarted \/ StartFailed \/ RecordStarted \/ Complete \/ Crash
  BY <1>3, <1>k DEF Launch, ResumeStarted, StartFailed, RecordStarted, Complete, Crash, Free,
                    Startable, Completable
<1>4. ASSUME NEW good \in BOOLEAN, CliEnds(good) PROVE OrphansClosed'
  BY <1>4, <1>k DEF CliEnds, Free
<1>5. ASSUME NEW t \in Threads, \/ \E slot \in Slots : NewStarted(t, slot)
                                \/ \E x \in handoffs : HandoffStarted(t, x)
      PROVE  OrphansClosed'
  BY <1>5, <1>k DEF NewStarted, HandoffStarted, Startable, Free
<1>6. CASE Exit
  <2> DEFINE left(r) == [pc |-> "begun", thread |-> requests[r].thread,
                         account |-> requests[r].account, refs |-> RefsOf(r)]
             begun == {q \in Requests : requests[q].pc = "begun"}
  <2>1. orphans' = orphans \cup {left(r) : r \in begun} /\ UNCHANGED <<sessions, responses, bound>>
    BY <1>6 DEF Exit
  <2>2. Free' /\ ~Free
    BY <1>6 DEF Exit, Free, NoProcess
  <2>3. ASSUME NEW r \in begun
        PROVE  /\ sessions[left(r).thread].state = "inflight" /\ sessions[left(r).thread].request = r
               /\ left(r).account = bound[left(r).thread]
               /\ \A key \in left(r).refs : <<key, left(r).thread>> \in responses
    BY DEF IntentHeld, HandlerHeld, Leased
  <2>4. ASSUME NEW o \in orphans PROVE sessions[o.thread].state = "blocked"
    BY <2>2 DEF OrphansClosed
  <2>5. ASSUME NEW o \in orphans'
        PROVE  /\ sessions'[o.thread].state \in {"inflight", "blocked"}
               /\ o.account = bound'[o.thread]
               /\ \A key \in o.refs : <<key, o.thread>> \in responses'
    <3>1. CASE o \in orphans
      BY <2>1, <2>4, <3>1 DEF OrphansClosed
    <3>2. ASSUME NEW r \in begun, o = left(r)
          PROVE  /\ sessions'[o.thread].state \in {"inflight", "blocked"}
                 /\ o.account = bound'[o.thread]
                 /\ \A key \in o.refs : <<key, o.thread>> \in responses'
      BY <2>1, <2>3, <3>2
    <3> QED
      BY <2>1, <2>5, <3>1, <3>2
  <2>6. ASSUME NEW o \in orphans', NEW n \in orphans', o.thread = n.thread PROVE o = n
    <3>1. CASE o \in orphans /\ n \in orphans
      BY <2>6, <3>1 DEF OrphansClosed
    <3>2. ASSUME NEW r \in begun, o = left(r), n \in orphans PROVE FALSE
      BY <2>3, <2>4, <2>6, <3>2
    <3>3. ASSUME NEW r \in begun, n = left(r), o \in orphans PROVE FALSE
      BY <2>3, <2>4, <2>6, <3>3
    <3>4. ASSUME NEW r \in begun, NEW q \in begun, o = left(r), n = left(q) PROVE o = n
      BY <2>3, <2>6, <3>4
    <3> QED
      BY <2>1, <3>1, <3>2, <3>3, <3>4
  <2> QED
    BY <2>2, <2>5, <2>6 DEF OrphansClosed
<1>7. ASSUME NEW o \in orphans, OrphanSends(o) PROVE OrphansClosed'
  <2> DEFINE sent == [o EXCEPT !.pc = "sent"]
  <2>1. o \in Orphan
    BY DEF TypeOK
  <2>2. sent.thread = o.thread /\ sent.account = o.account /\ sent.refs = o.refs
    BY <2>1 DEF Orphan
  <2>3. orphans' = (orphans \ {o}) \cup {sent} /\ UNCHANGED <<sessions, responses, bound, proc>>
    BY <1>7 DEF OrphanSends
  <2> HIDE DEF sent
  <2> QED
    BY <2>2, <2>3 DEF OrphansClosed, Free
<1>8. ASSUME NEW o \in orphans, OrphanEnds(o) PROVE OrphansClosed'
  BY <1>8 DEF OrphanEnds, OrphansClosed, Free
<1>9. CASE Exec
  BY <1>1, <1>2, <1>3, <1>4, <1>5, <1>6, <1>7, <1>8, <1>9 DEF Exec
<1>10. CASE Serve
  <2>1. orphans' = orphans
    BY <1>10 DEF Serve, Arrive, Resolve, Admit, Reject, Begin, Unbegun, Send, FinishOk,
                 FinishFailed, FinishLost
  <2>2. ~Free
    BY <1>10, ServeLaunched DEF Free
  <2> QED
    BY <1>k, <2>1, <2>2
<1>11. CASE Manage
  <2>1. ASSUME NEW h \in Handles, NEW p \in Projects, NEW slot \in Slots, NEW id \in Reservations,
               Prepare(h, p, slot, id)
        PROVE  OrphansClosed'
    BY <2>1, <1>o DEF Prepare
  <2>2. ASSUME NEW h \in Handles, NEW x \in handoffs, Cancel(h, x) PROVE OrphansClosed'
    BY <2>2, <1>o DEF Cancel
  <2>3. ASSUME NEW slot \in Slots, LogoutInvalidate(slot) PROVE OrphansClosed'
    BY <2>3, OrphansKept, NoIntentLeft DEF LogoutInvalidate
  <2>4. CASE LogoutVault
    BY <2>4, <1>k DEF LogoutVault, Free
  <2>5. ASSUME NEW slot \in Slots, NEW a \in Accounts, Login(slot, a) PROVE OrphansClosed'
    <3>1. UNCHANGED <<orphans, sessions, responses, bound, proc>>
      BY <2>5 DEF Login
    <3> QED
      BY <3>1 DEF OrphansClosed, Free
  <2> QED
    BY <1>11, <2>1, <2>2, <2>3, <2>4, <2>5 DEF Manage
<1> QED
  BY <1>9, <1>10, <1>11 DEF Next

-----------------------------------------------------------------------------
(* Ids have one owner, and history can be replayed.                        *)

\* What MayClaim lets a conversation claim has no other owner.
LEMMA ClaimOwner ==
  ASSUME OneOwner, NEW t, NEW keys, MayClaim(t, keys), Claim(t, keys)
  PROVE  OneOwner'
<1> SUFFICES ASSUME NEW p \in responses', NEW q \in responses', p[1] = q[1] PROVE p[2] = q[2]
  BY DEF OneOwner
<1>1. ASSUME NEW key \in keys, NEW o \in responses, o[1] = key PROVE o[2] = t
  <2>1. o[2] \in Owner(key)
    BY <1>1 DEF Owner
  <2> QED
    BY <2>1 DEF MayClaim
<1>2. ASSUME NEW o \in responses' PROVE o \in responses \/ \E key \in keys : o = <<key, t>>
  BY DEF Claim
<1>3. CASE p \in responses /\ q \in responses
  BY <1>3 DEF OneOwner
<1>4. ASSUME NEW key \in keys, p = <<key, t>> PROVE p[2] = q[2]
  BY <1>1, <1>2, <1>4
<1>5. ASSUME NEW key \in keys, q = <<key, t>> PROVE p[2] = q[2]
  BY <1>1, <1>2, <1>5
<1> QED
  BY <1>2, <1>3, <1>4, <1>5

LEMMA OwnerStep ==
  ASSUME TypeOK, AffinityAssumption, AccountsInPlace, OneOwner, Next
  PROVE  OneOwner'
<1> USE DEF tables, memory, history
<1>s. ASSUME responses' = responses PROVE OneOwner'
  BY <1>s DEF OneOwner
<1>1. CASE Exec
  BY <1>1, <1>s, ExecRows
<1>2. CASE Manage
  BY <1>2, <1>s, ManageRows
<1>3. CASE Serve
  <2> PICK r \in Requests :
         \/ \E t \in Threads, body \in Bodies : Arrive(r, t, body)
         \/ Resolve(r) \/ Admit(r) \/ Reject(r) \/ Begin(r) \/ Unbegun(r) \/ Send(r)
         \/ \E answer \in Answers : FinishOk(r, answer)
         \/ FinishFailed(r) \/ FinishLost(r)
    BY <1>3 DEF Serve
  <2>1. CASE Begin(r)
    BY <2>1, ClaimOwner DEF Begin, MayBegin
  <2>2. ASSUME NEW answer \in Answers, FinishOk(r, answer) PROVE OneOwner'
    BY <2>2, ClaimOwner DEF FinishOk
  <2>3. CASE \/ \E t \in Threads, body \in Bodies : Arrive(r, t, body)
             \/ Resolve(r) \/ Admit(r) \/ Reject(r) \/ Unbegun(r) \/ Send(r)
             \/ FinishFailed(r) \/ FinishLost(r)
    BY <2>3, <1>s DEF Arrive, Resolve, Admit, Reject, Unbegun, Send, FinishFailed, FinishLost
  <2> QED
    BY <2>1, <2>2, <2>3
<1> QED
  BY <1>1, <1>2, <1>3 DEF Next

\* Whatever form an item of the contract comes back in, it refers to what the
\* completion that gave it granted.
LEMMA EchoGranted ==
  ASSUME NEW item, IsItem(item), item.kind \in Contracted,
         NEW echo \in Echoes(item), NEW key \in ItemRefs(echo)
  PROVE  key \in OutputRefs(item)
<1> DEFINE Copy(k, i) == [kind |-> k, id |-> i, call |-> item.call, text |-> item.text]
<1>1. PICK k, i : /\ echo = Copy(k, i)
                  /\ \/ k = item.kind /\ i \in {item.id, None}
                     \/ item.kind = "function_call" /\ k = "function_call_output" /\ i = None
  BY DEF Echoes, IsItem
<1>2. /\ echo.kind = k /\ echo.id = i /\ echo.call = item.call /\ echo.text = item.text
      /\ ItemKey(echo) \subseteq ItemKey(item) /\ historyKey(echo) = historyKey(item)
  BY <1>1 DEF ItemKey, historyKey
<1>3. CASE item.kind \in {"assistant", "reasoning"}
  <2>1. ItemRefs(echo) = historyKey(echo) \cup ItemKey(echo)
    BY <1>1, <1>2, <1>3 DEF ItemRefs
  <2>2. OutputRefs(item) = historyKey(item) \cup ItemKey(item)
    BY <1>3 DEF OutputRefs
  <2> QED
    BY <1>2, <2>1, <2>2
<1>4. CASE item.kind = "function_call"
  <2>1. OutputRefs(item) = ItemKey(item) \cup {Key("call", item.call)}
    BY <1>4 DEF OutputRefs
  <2>2. ItemRefs(echo) \subseteq {Key("call", item.call)} \cup ItemKey(echo)
    BY <1>1, <1>2, <1>4 DEF ItemRefs, toolRefs
  <2> QED
    BY <1>2, <2>1, <2>2
<1> QED
  BY <1>3, <1>4 DEF Contracted

LEMMA ReplaysKept ==
  ASSUME HistoryReplays, given' = given, responses \subseteq responses'
  PROVE  HistoryReplays'
BY DEF HistoryReplays

LEMMA ReplaysStep ==
  ASSUME TypeOK, AffinityAssumption, Grows, IntentHeld, HistoryReplays, Next
  PROVE  HistoryReplays'
<1> USE DEF tables, memory, history
<1>s. ASSUME given' = given PROVE HistoryReplays'
  BY <1>s, ReplaysKept DEF Grows
<1>1. CASE Exec
  <2>1. given' = given
    BY <1>1 DEF Exec, ExecNew, ExecResume, ExecHandoff, Refused, Launch, ResumeStarted, StartFailed,
                RecordStarted, NewStarted, HandoffStarted, CliEnds, Complete, Exit, Crash, OrphanSends,
                OrphanEnds
  <2> QED
    BY <2>1, <1>s
<1>2. CASE Manage
  <2>1. given' = given
    BY <1>2 DEF Manage, Prepare, Cancel, LogoutInvalidate, LogoutVault, Login
  <2> QED
    BY <2>1, <1>s
<1>3. CASE Serve
  <2> PICK r \in Requests :
         \/ \E t \in Threads, body \in Bodies : Arrive(r, t, body)
         \/ Resolve(r) \/ Admit(r) \/ Reject(r) \/ Begin(r) \/ Unbegun(r) \/ Send(r)
         \/ \E answer \in Answers : FinishOk(r, answer)
         \/ FinishFailed(r) \/ FinishLost(r)
    BY <1>3 DEF Serve
  <2>1. ASSUME NEW answer \in Answers, FinishOk(r, answer) PROVE HistoryReplays'
    <3> SUFFICES ASSUME NEW t \in Threads, NEW item \in given'[t], NEW echo \in Echoes(item),
                        item.kind \in Contracted, NEW key \in ItemRefs(echo)
                 PROVE  <<historyScope(key, t), t>> \in responses'
      BY DEF HistoryReplays
    <3>1. CASE item \in given[t]
      BY <3>1 DEF HistoryReplays, Grows
    <3>2. CASE item \notin given[t]
      <4>1. t = requests[r].thread /\ item \in answer.output
        BY <2>1, <3>2 DEF FinishOk, TypeOK
      <4>2. key \in OutputRefs(item)
        BY <4>1, EchoGranted DEF AffinityAssumption
      <4>3. key \in completedRefs(answer)
        BY <4>1, <4>2 DEF completedRefs
      <4> QED
        BY <2>1, <4>1, <4>3 DEF FinishOk, Claim
    <3> QED
      BY <3>1, <3>2
  <2>2. CASE \/ \E t \in Threads, body \in Bodies : Arrive(r, t, body)
             \/ Resolve(r) \/ Admit(r) \/ Reject(r) \/ Begin(r) \/ Unbegun(r) \/ Send(r)
             \/ FinishFailed(r) \/ FinishLost(r)
    BY <2>2, <1>s DEF Arrive, Resolve, Admit, Reject, Begin, Unbegun, Send, FinishFailed, FinishLost
  <2> QED
    BY <2>1, <2>2
<1> QED
  BY <1>1, <1>2, <1>3 DEF Next

-----------------------------------------------------------------------------
(* Records.                                                                *)

\* What the records say and no run contradicts.
RecordsInv == RunRecorded /\ SpoiledNeverRuns /\ RecordsFaithful

\* What RunRecorded says of the run under way.
Running ==
  /\ proc.handle \in Handles \ spoiled /\ proc.project \in Projects
  /\ records[proc.handle].project = proc.project
  /\ proc.pc \in {"polling", "running"} /\ proc.resume # None =>
       records[proc.handle].thread = proc.resume
  /\ proc.pc \in {"running", "started", "draining", "failing"} => ~records[proc.handle].ready
  /\ proc.binding = "bound" =>
       /\ proc.thread # None /\ Known(proc.thread)
       /\ \A g \in Handles : records[g].thread = proc.thread => g = proc.handle
  /\ proc.pc \in {"started", "draining"} =>
       proc.binding = "bound" /\ records[proc.handle].thread = proc.thread

\* What it says of the records.
Kept ==
  /\ \A h \in Handles : records[h].thread # None => Known(records[h].thread)
  /\ \A h \in spoiled : records[h].project # None /\ ~records[h].ready
  /\ RecordsFaithful

LEMMA RecordsSplit ==
  ASSUME TypeOK
  PROVE  RecordsInv <=> Kept /\ (Alive => Running)
BY DEF RecordsInv, RunRecorded, SpoiledNeverRuns, Kept, Running, TypeOK

\* A step that leaves the records alone leaves them right.
LEMMA KeptStays ==
  ASSUME TypeOK, Kept, Grows, records' = records, spoiled' = spoiled
  PROVE  Kept'
<1>1. ASSUME NEW h \in Handles, records[h].thread # None
      PROVE  /\ sessions'[records[h].thread].state # "none" /\ Known(records[h].thread)
             /\ sessions'[records[h].thread].project = sessions[records[h].thread].project
  <2>1. records[h].thread \in Threads
    BY <1>1 DEF TypeOK, Record
  <2>2. Known(records[h].thread)
    BY <1>1 DEF Kept
  <2> QED
    BY <2>1, <2>2 DEF Grows, Known
<1>2. RecordsFaithful'
  BY <1>1 DEF Kept, RecordsFaithful
<1> QED
  BY <1>1, <1>2 DEF Kept, Known

\* So does a step that changes only the record of a run.
LEMMA KeptRun ==
  ASSUME TypeOK, AffinityAssumption, Kept, Running, Grows, spoiled' = spoiled, records' \in [Handles -> Record],
         \A h \in Handles : h # proc.handle => records'[h] = records[h],
         records'[proc.handle].thread # None =>
           sessions'[records'[proc.handle].thread].state # "none" /\
           \A h \in Handles : h # proc.handle => records[h].thread # records'[proc.handle].thread,
         records'[proc.handle].ready =>
           records'[proc.handle].thread # None /\
           sessions'[records'[proc.handle].thread].project = records'[proc.handle].project
  PROVE  Kept'
<1>1. ASSUME NEW h \in Handles, h # proc.handle, records[h].thread # None
      PROVE  /\ sessions'[records[h].thread].state # "none"
             /\ sessions'[records[h].thread].project = sessions[records[h].thread].project
  <2>1. records[h].thread \in Threads
    BY <1>1 DEF TypeOK, Record
  <2>2. Known(records[h].thread)
    BY <1>1 DEF Kept
  <2> QED
    BY <2>1, <2>2 DEF Grows, Known
<1>2. \A h \in spoiled : h \in Handles /\ h # proc.handle
  BY DEF Running, TypeOK
<1>3. proc.handle \in Handles
  BY DEF Running
<1>4. \A h \in Handles : records'[h].thread # None => sessions'[records'[h].thread].state # "none"
  BY <1>1, <1>3
<1>5. \A h \in spoiled' : records'[h].project # None /\ ~records'[h].ready
  BY <1>2 DEF Kept
<1>6. ASSUME NEW h \in Handles, NEW g \in Handles, h # g, records'[h].thread # None
      PROVE  records'[h].thread # records'[g].thread
  <2>1. CASE h = proc.handle
    BY <1>6, <2>1
  <2>2. CASE g = proc.handle
    BY <1>6, <2>2
  <2>3. CASE h # proc.handle /\ g # proc.handle
    BY <1>6, <2>3 DEF Kept, RecordsFaithful
  <2> QED
    BY <2>1, <2>2, <2>3
<1>7. ASSUME NEW h \in Handles, records'[h].ready
      PROVE  records'[h].thread # None
             /\ sessions'[records'[h].thread].project = records'[h].project
  <2>1. CASE h = proc.handle
    BY <1>7, <2>1
  <2>2. CASE h # proc.handle
    <3>1. /\ records'[h] = records[h] /\ records[h].thread # None
          /\ sessions[records[h].thread].project = records[h].project
      BY <1>7, <2>2 DEF Kept, RecordsFaithful
    <3> QED
      BY <1>1, <2>2, <3>1
  <2> QED
    BY <2>1, <2>2
<1> QED
  BY <1>4, <1>5, <1>6, <1>7 DEF Kept, RecordsFaithful, Known

\* A run that is not touched goes on.
LEMMA RunStays ==
  ASSUME TypeOK, Running, Grows, proc' = proc, records' = records, spoiled' = spoiled
  PROVE  Running'
<1>1. proc.thread # None => proc.thread \in Threads
  BY DEF TypeOK, Process
<1> QED
  BY <1>1 DEF Running, Grows, Known

LEMMA RecordsExec ==
  ASSUME TypeOK, TypeOK', AffinityAssumption, Grows, Kept, Alive => Running, Exec
  PROVE  Kept' /\ (Alive' => Running')
<1> USE DEF tables, memory, history
<1>s. ASSUME UNCHANGED <<proc, records, spoiled>> PROVE Kept' /\ (Alive' => Running')
  BY <1>s, KeptStays, RunStays DEF Alive
<1>n. ASSUME NEW h \in Handles, NEW p \in Projects, ExecNew(h, p) \/ \E x \in handoffs : ExecHandoff(h, x, p)
      PROVE  Kept' /\ Running'
  <2>1. /\ records[h] = NoRecord /\ spoiled' = spoiled
        /\ records' = [records EXCEPT ![h].project = p]
        /\ proc'.pc = "polling" /\ proc'.handle = h /\ proc'.project = p
        /\ proc'.resume = None /\ proc'.binding = "waiting"
    BY <1>n, ZenonT(30) DEF ExecNew, ExecHandoff, NoProcess
  <2>2. /\ \A g \in Handles : g # h => records'[g] = records[g]
        /\ records'[h].thread = None /\ records'[h].project = p /\ ~records'[h].ready
    BY <2>1 DEF TypeOK, NoRecord
  <2>3. h \notin spoiled
    BY <2>1 DEF Kept, NoRecord
  <2>4. ASSUME NEW g \in Handles, records[g].thread # None
        PROVE  /\ sessions'[records[g].thread].state # "none"
               /\ sessions'[records[g].thread].project = sessions[records[g].thread].project
    <3>1. records[g].thread \in Threads /\ Known(records[g].thread)
      BY <2>4 DEF TypeOK, Record, Kept
    <3> QED
      BY <3>1 DEF Grows, Known
  <2>5. RecordsFaithful'
    <3>1. ASSUME NEW f \in Handles, NEW g \in Handles, f # g, records'[f].thread # None
          PROVE  records'[f].thread # records'[g].thread
      BY <2>2, <3>1 DEF Kept, RecordsFaithful
    <3>2. ASSUME NEW g \in Handles, records'[g].ready
          PROVE  /\ records'[g].thread # None
                 /\ sessions'[records'[g].thread].project = records'[g].project
      <4>1. g # h /\ records'[g] = records[g]
        BY <2>2, <3>2
      <4> QED
        BY <3>2, <4>1, <2>4 DEF Kept, RecordsFaithful
    <3> QED
      BY <3>1, <3>2 DEF RecordsFaithful
  <2>6. Kept'
    <3>1. ASSUME NEW g \in Handles, records'[g].thread # None
          PROVE  sessions'[records'[g].thread].state # "none"
      BY <3>1, <2>2, <2>4
    <3>2. ASSUME NEW g \in spoiled' PROVE records'[g].project # None /\ ~records'[g].ready
      <4>1. g \in spoiled /\ g \in Handles /\ g # h
        BY <2>1, <2>3 DEF TypeOK
      <4> QED
        BY <4>1, <2>2 DEF Kept
    <3> QED
      BY <2>5, <3>1, <3>2 DEF Kept, Known
  <2>7. Running'
    BY <2>1, <2>2, <2>3 DEF Running
  <2> QED
    BY <2>6, <2>7
<1>r. ASSUME NEW h \in Handles, NEW p \in Projects, ExecResume(h, p) PROVE Kept' /\ Running'
  <2>1. /\ records' = records /\ spoiled' = spoiled /\ records[h].ready /\ records[h].project = p
        /\ proc'.pc = "polling" /\ proc'.handle = h /\ proc'.project = p
        /\ proc'.resume = records[h].thread /\ proc'.binding = "waiting"
    BY <1>r DEF ExecResume, Loadable, NoProcess
  <2>2. h \notin spoiled
    BY <2>1 DEF Kept
  <2> QED
    BY <2>1, <2>2, KeptStays DEF Running
<1>1. CASE Refused \/ \E o \in orphans : OrphanSends(o) \/ OrphanEnds(o)
  BY <1>1, <1>s DEF Refused, OrphanSends, OrphanEnds
<1>2. CASE Launch
  <2>1. /\ proc.pc = "polling" /\ Running /\ proc.handle \in Handles
        /\ records' = [records EXCEPT ![proc.handle].ready = FALSE]
        /\ proc' = [proc EXCEPT !.pc = "running"] /\ spoiled' = spoiled /\ sessions' = sessions
    BY <1>2 DEF Launch, Alive, RecordBegin, Running
  <2>2. /\ \A h \in Handles : h # proc.handle => records'[h] = records[h]
        /\ records'[proc.handle].thread = records[proc.handle].thread
        /\ records'[proc.handle].project = records[proc.handle].project
        /\ ~records'[proc.handle].ready
    BY <2>1 DEF TypeOK, Record
  <2>3. Kept'
    <3>1. records'[proc.handle].thread # None =>
            /\ sessions'[records'[proc.handle].thread].state # "none"
            /\ \A h \in Handles : h # proc.handle => records[h].thread # records'[proc.handle].thread
      BY <2>1, <2>2 DEF Kept, Known, RecordsFaithful
    <3> QED
      BY <2>1, <2>2, <3>1, KeptRun DEF TypeOK
  <2>4. proc \in Process
    BY DEF TypeOK
  <2>5. Running'
    <3>1. /\ proc'.pc = "running" /\ proc'.handle = proc.handle /\ proc'.project = proc.project
          /\ proc'.resume = proc.resume /\ proc'.binding = proc.binding /\ proc'.thread = proc.thread
      BY <2>1, <2>4 DEF Process
    <3> QED
      BY <2>1, <2>2, <3>1 DEF Running, Known
  <2> QED
    BY <2>3, <2>5
<1>3. ASSUME NEW t \in Threads, NEW slot \in Slots, Registers(t, slot) PROVE Kept' /\ Running'
  <2>1. /\ proc.pc = "running" /\ Running /\ records' = records /\ spoiled' = spoiled
        /\ proc' = [proc EXCEPT !.binding = "bound", !.thread = t] /\ proc \in Process
    BY <1>3 DEF Registers, Startable, Alive, TypeOK
  <2>2. /\ proc'.pc = "running" /\ proc'.handle = proc.handle /\ proc'.project = proc.project
        /\ proc'.resume = proc.resume /\ proc'.binding = "bound" /\ proc'.thread = t
    BY <2>1 DEF Process
  <2>3. \A g \in Handles : records[g].thread # t
    BY <1>3 DEF Registers, Unknown, NoSession, Kept, Known, AffinityAssumption
  <2>4. sessions'[t].state # "none" /\ t # None
    BY <1>3 DEF Registers, Insert, TypeOK, AffinityAssumption
  <2>5. Running'
    BY <2>1, <2>2, <2>3, <2>4 DEF Running, Known
  <2> QED
    BY <2>1, <2>5, KeptStays
<1>4. ASSUME NEW t \in Threads, NEW slot \in Slots, NewStarted(t, slot) PROVE Kept' /\ Running'
  BY <1>3, <1>4 DEF NewStarted, Registers
<1>5. ASSUME NEW t \in Threads, NEW x \in handoffs, HandoffStarted(t, x) PROVE Kept' /\ Running'
  <2>1. x.target \in Slots
    BY DEF TypeOK, Handoff
  <2> QED
    BY <1>3, <1>5, <2>1 DEF HandoffStarted, Registers
<1>6. CASE ResumeStarted
  <2>1. /\ proc.pc = "running" /\ Running /\ records' = records /\ spoiled' = spoiled
        /\ sessions' = sessions /\ proc.resume # None /\ sessions[proc.resume].state = "ready"
        /\ proc' = [proc EXCEPT !.binding = "bound", !.thread = proc.resume] /\ proc \in Process
    BY <1>6 DEF ResumeStarted, Startable, Alive, Ready, TypeOK
  <2>2. /\ proc'.pc = "running" /\ proc'.handle = proc.handle /\ proc'.project = proc.project
        /\ proc'.resume = proc.resume /\ proc'.binding = "bound" /\ proc'.thread = proc.resume
    BY <2>1 DEF Process
  <2>3. records[proc.handle].thread = proc.resume /\ proc.handle \in Handles
    BY <2>1 DEF Running
  <2>4. \A g \in Handles : records[g].thread = proc.resume => g = proc.handle
    BY <2>1, <2>3 DEF Kept, RecordsFaithful
  <2>5. Running'
    BY <2>1, <2>2, <2>3, <2>4 DEF Running, Known
  <2> QED
    BY <2>1, <2>5, KeptStays
<1>7. ASSUME NEW pc \in {"failing", "draining"}, NEW b \in {proc.binding, "failed"},
             proc' = [proc EXCEPT !.binding = b, !.pc = pc],
             proc.pc \in {"running", "started"}, pc = "draining" => proc.pc = "started" /\ b = proc.binding,
             records' = records, spoiled' = spoiled
      PROVE  Kept' /\ Running'
  <2>1. /\ proc'.pc = pc /\ proc'.handle = proc.handle /\ proc'.project = proc.project
        /\ proc'.resume = proc.resume /\ proc'.binding = b /\ proc'.thread = proc.thread
    BY <1>7 DEF TypeOK, Process
  <2>2. Running /\ (proc.thread # None => proc.thread \in Threads)
    BY <1>7 DEF Alive, TypeOK, Process
  <2>3. Running'
    BY <1>7, <2>1, <2>2 DEF Running, Known, Grows
  <2> QED
    BY <1>7, <2>3, KeptStays
<1>8. CASE StartFailed
  <2>1. /\ proc' = [proc EXCEPT !.binding = "failed", !.pc = "failing"] /\ proc.pc = "running"
        /\ records' = records /\ spoiled' = spoiled
    BY <1>8 DEF StartFailed, Startable
  <2> QED
    BY <1>7, <2>1
<1>9. ASSUME NEW good \in BOOLEAN, CliEnds(good) PROVE Kept' /\ Running'
  <2> DEFINE to == IF good THEN "draining" ELSE "failing"
  <2>1. /\ proc' = [proc EXCEPT !.pc = to] /\ proc.pc \in {"running", "started"}
        /\ to = "draining" => proc.pc = "started"
        /\ records' = records /\ spoiled' = spoiled
    BY <1>9 DEF CliEnds
  <2>2. to \in {"failing", "draining"}
    OBVIOUS
  <2>3. proc' = [proc EXCEPT !.binding = proc.binding, !.pc = to]
    BY <2>1 DEF TypeOK, Process
  <2> HIDE DEF to
  <2> QED
    BY <1>7, <2>1, <2>2, <2>3
<1>10. CASE RecordStarted
  <2>1. /\ proc.pc = "running" /\ Running /\ proc.binding = "bound" /\ proc.handle \in Handles
        /\ records' = [records EXCEPT ![proc.handle].thread = proc.thread]
        /\ proc' = [proc EXCEPT !.pc = "started"] /\ spoiled' = spoiled /\ sessions' = sessions
        /\ proc \in Process
    BY <1>10 DEF RecordStarted, Alive, Running, TypeOK
  <2>2. /\ \A h \in Handles : h # proc.handle => records'[h] = records[h]
        /\ records'[proc.handle].thread = proc.thread
        /\ records'[proc.handle].project = records[proc.handle].project
        /\ records'[proc.handle].ready = records[proc.handle].ready
    BY <2>1 DEF TypeOK, Record
  <2>3. ~records[proc.handle].ready /\ proc.thread # None /\ Known(proc.thread)
        /\ \A g \in Handles : records[g].thread = proc.thread => g = proc.handle
    BY <2>1 DEF Running
  <2>4. Kept'
    BY <2>1, <2>2, <2>3, KeptRun DEF TypeOK, Known
  <2>5. /\ proc'.pc = "started" /\ proc'.handle = proc.handle /\ proc'.project = proc.project
        /\ proc'.resume = proc.resume /\ proc'.binding = proc.binding /\ proc'.thread = proc.thread
    BY <2>1 DEF Process
  <2>6. Running'
    BY <2>1, <2>2, <2>3, <2>5 DEF Running, Known
  <2> QED
    BY <2>4, <2>6
<1>11. CASE Complete
  <2>1. /\ proc.pc = "draining" /\ Running /\ proc.handle \in Handles
        /\ records' = [records EXCEPT ![proc.handle].ready = TRUE]
        /\ proc' = [proc EXCEPT !.pc = "completed"] /\ spoiled' = spoiled /\ sessions' = sessions
        /\ sessions[proc.thread].project = proc.project /\ proc \in Process
    BY <1>11 DEF Complete, Completable, Ready, Alive, Running, TypeOK
  <2>2. /\ \A h \in Handles : h # proc.handle => records'[h] = records[h]
        /\ records'[proc.handle].thread = records[proc.handle].thread
        /\ records'[proc.handle].project = records[proc.handle].project
    BY <2>1 DEF TypeOK, Record
  <2>3. /\ proc.binding = "bound" /\ records[proc.handle].thread = proc.thread
        /\ records[proc.handle].project = proc.project
        /\ proc.thread # None /\ Known(proc.thread)
        /\ \A g \in Handles : records[g].thread = proc.thread => g = proc.handle
    BY <2>1 DEF Running
  <2>4. Kept'
    BY <2>1, <2>2, <2>3, KeptRun DEF TypeOK, Known
  <2>5. /\ proc'.pc = "completed" /\ proc'.handle = proc.handle /\ proc'.project = proc.project
        /\ proc'.resume = proc.resume /\ proc'.binding = proc.binding /\ proc'.thread = proc.thread
    BY <2>1 DEF Process
  <2>6. Running'
    BY <2>1, <2>2, <2>3, <2>5 DEF Running, Known
  <2> QED
    BY <2>4, <2>6
<1>12. CASE Exit \/ Crash
  <2>1. Spoil /\ records' = records /\ sessions' = sessions /\ ~Alive' /\ ~Free
    BY <1>12 DEF Exit, Crash, Alive, NoProcess, Free
  <2>2. ASSUME NEW h \in spoiled' PROVE records[h].project # None /\ ~records[h].ready
    <3>1. CASE h \in spoiled
      BY <3>1 DEF Kept
    <3>2. CASE h \notin spoiled
      <4>1. h = proc.handle /\ proc.pc \in {"running", "started", "draining", "failing"}
        BY <2>1, <3>2 DEF Spoil
      <4>2. Running
        BY <4>1 DEF Alive
      <4> QED
        BY <4>1, <4>2 DEF Running, AffinityAssumption
    <3> QED
      BY <3>1, <3>2
  <2>3. Kept'
    BY <2>1, <2>2 DEF Kept, RecordsFaithful, Known
  <2> QED
    BY <2>1, <2>3
<1> QED
  BY <1>n, <1>r, <1>1, <1>2, <1>4, <1>5, <1>6, <1>8, <1>9, <1>10, <1>11, <1>12 DEF Exec

LEMMA RecordsManage ==
  ASSUME TypeOK, Grows, Kept, Alive => Running, Manage
  PROVE  Kept' /\ (Alive' => Running')
<1> USE DEF tables, memory, history
<1>s. ASSUME UNCHANGED <<proc, records, spoiled>> PROVE Kept' /\ (Alive' => Running')
  BY <1>s, KeptStays, RunStays DEF Alive
<1>1. ASSUME NEW h \in Handles, NEW p \in Projects, NEW slot \in Slots, NEW id \in Reservations,
             Prepare(h, p, slot, id)
      PROVE  Kept' /\ (Alive' => Running')
  BY <1>1, <1>s DEF Prepare
<1>2. ASSUME NEW h \in Handles, NEW x \in handoffs, Cancel(h, x) PROVE Kept' /\ (Alive' => Running')
  BY <1>2, <1>s DEF Cancel
<1>3. ASSUME NEW slot \in Slots, NEW a \in Accounts, Login(slot, a) PROVE Kept' /\ (Alive' => Running')
  BY <1>3, <1>s DEF Login
<1>4. ASSUME NEW slot \in Slots, LogoutInvalidate(slot) PROVE Kept' /\ (Alive' => Running')
  BY <1>4, KeptStays DEF LogoutInvalidate, Alive, NoProcess
<1>5. CASE LogoutVault
  BY <1>5, KeptStays DEF LogoutVault, Alive, NoProcess
<1> QED
  BY <1>1, <1>2, <1>3, <1>4, <1>5 DEF Manage

LEMMA RecordsStep ==
  ASSUME TypeOK, TypeOK', AffinityAssumption, IntentHeld, Grows, RecordsInv, Next
  PROVE  RecordsInv'
<1>1. Kept /\ (Alive => Running)
  BY RecordsSplit
<1>2. Kept' /\ (Alive' => Running')
  <2>1. CASE Exec
    BY <1>1, <2>1, RecordsExec
  <2>2. CASE Serve
    BY <1>1, <2>2, ServeRows, KeptStays, RunStays DEF Alive
  <2>3. CASE Manage
    BY <1>1, <2>3, RecordsManage
  <2> QED
    BY <2>1, <2>2, <2>3 DEF Next
<1> QED
  BY <1>2 DEF RecordsInv, RunRecorded, SpoiledNeverRuns, Kept, Running

-----------------------------------------------------------------------------
(* Handoffs.                                                               *)

\* Nobody carries a turn of a conversation that rests.
Resting == \A t \in Threads : sessions[t].state \in {"none", "ready"} => TurnOf(t) = "none"

LEMMA RestingTurn == IntentHeld /\ OrphansClosed => Resting
<1> SUFFICES ASSUME IntentHeld, OrphansClosed, NEW t \in Threads,
                    sessions[t].state \in {"none", "ready"}
             PROVE  TurnOf(t) = "none"
  BY DEF Resting
<1>1. ASSUME NEW pc \in {"begun", "sent"} PROVE ~Carries(t, pc)
  <2>1. ASSUME NEW r \in Requests, requests[r].thread = t, requests[r].pc = pc PROVE FALSE
    BY <2>1 DEF IntentHeld, HandlerHeld, Leased
  <2>2. ASSUME NEW o \in orphans, o.thread = t PROVE FALSE
    BY <2>2 DEF OrphansClosed
  <2> QED
    BY <2>1, <2>2 DEF Carries
<1> QED
  BY <1>1 DEF TurnOf

HandoffsInv == HandoffsFrozen /\ HandoffExact

\* The open handoffs of a step rest on what they rested on.
LEMMA HandoffsKept ==
  ASSUME TypeOK, HandoffsInv, Grows, IntentHeld', OrphansClosed', handoffs' \subseteq handoffs,
         \A x \in handoffs' : x.consumedBy = None =>
           /\ sessions'[x.source].state = "ready"
           /\ vault'[x.target] = vault[x.target]
           /\ proc'.pc = "logout" => x.target # proc'.slot
  PROVE  HandoffsInv'
<1>1. ASSUME NEW x \in handoffs
      PROVE  /\ x.source \in Threads /\ Known(x.source)
             /\ x.consumedBy # None => x.consumedBy \in Threads /\ Known(x.consumedBy)
  BY DEF TypeOK, Handoff, HandoffsInv, HandoffsFrozen
<1>2. HandoffsFrozen'
  BY <1>1 DEF HandoffsInv, HandoffsFrozen, Grows, Known
<1>3. ASSUME NEW x \in handoffs', x.consumedBy = None
      PROVE  /\ sessions'[x.source].state # "inflight" /\ TurnOf(x.source)' = "none"
             /\ vault'[x.target] = x.account /\ bound'[x.source] # x.account
  <2>1. Resting'
    BY RestingTurn, PTL
  <2> QED
    BY <1>1, <1>3, <2>1 DEF Resting, HandoffsInv, HandoffExact, Grows, Known
<1>4. ASSUME NEW x \in handoffs', x.consumedBy # None
      PROVE  /\ bound'[x.consumedBy] = x.account /\ bound'[x.source] # x.account
             /\ sessions'[x.consumedBy].project = sessions'[x.source].project
  BY <1>1, <1>4 DEF HandoffsInv, HandoffExact, Grows, Known
<1>5. ASSUME NEW x \in handoffs', NEW y \in handoffs'
      PROVE  /\ x # y /\ x.consumedBy # None => x.consumedBy # y.consumedBy
             /\ x # y /\ x.source = y.source => x.consumedBy # None \/ y.consumedBy # None
  BY DEF HandoffsInv, HandoffExact
<1> QED
  BY <1>2, <1>3, <1>4, <1>5 DEF HandoffsInv, HandoffExact

\* A step that leaves handoffs, vault and resting conversations alone.
LEMMA HandoffsStay ==
  ASSUME TypeOK, HandoffsInv, Grows, IntentHeld', OrphansClosed',
         handoffs' \subseteq handoffs, vault' = vault, proc' = proc \/ proc'.pc # "logout",
         \A t \in Threads : sessions[t].state = "ready" /\ Pending(t) # {} => sessions'[t].state = "ready"
  PROVE  HandoffsInv'
<1>1. ASSUME NEW x \in handoffs', x.consumedBy = None
      PROVE  /\ sessions'[x.source].state = "ready"
             /\ vault'[x.target] = vault[x.target]
             /\ proc'.pc = "logout" => x.target # proc'.slot
  <2>1. x.source \in Threads /\ x \in Pending(x.source) /\ sessions[x.source].state = "ready"
    BY <1>1 DEF TypeOK, Handoff, Pending, HandoffsInv, HandoffsFrozen
  <2> QED
    BY <1>1, <2>1 DEF HandoffsInv, HandoffsFrozen
<1> QED
  BY <1>1, HandoffsKept

\* Opening the database does not wake who rests.
LEMMA RecoveredRests ==
  ASSUME NEW t \in Threads, sessions[t].state = "ready"
  PROVE  Recovered[t].state = "ready"
BY DEF Recovered

LEMMA HandoffsExec ==
  ASSUME TypeOK, AffinityAssumption, AccountsInPlace, RunRecorded, HandoffsInv, Grows,
         IntentHeld', OrphansClosed', Exec
  PROVE  HandoffsInv'
<1> USE DEF tables, memory, history
<1>p. vault' = vault /\ (proc' = proc \/ proc'.pc # "logout")
  BY ExecRows, ExecNoLogout
<1>s. ASSUME handoffs' = handoffs, sessions' = sessions \/ sessions' = Recovered PROVE HandoffsInv'
  BY <1>p, <1>s, HandoffsStay, RecoveredRests
<1>1. ASSUME NEW h \in Handles, NEW p \in Projects,
             ExecNew(h, p) \/ ExecResume(h, p) \/ \E x \in handoffs : ExecHandoff(h, x, p)
      PROVE  HandoffsInv'
  BY <1>1, <1>s DEF ExecNew, ExecResume, ExecHandoff
<1>2. CASE Refused \/ Launch \/ ResumeStarted \/ StartFailed \/ RecordStarted \/ Complete \/ Exit \/ Crash
  BY <1>2, <1>s DEF Refused, Launch, ResumeStarted, StartFailed, RecordStarted, Complete, Exit, Crash
<1>3. ASSUME NEW good \in BOOLEAN, CliEnds(good) PROVE HandoffsInv'
  BY <1>3, <1>s DEF CliEnds
<1>4. ASSUME NEW o \in orphans, OrphanSends(o) \/ OrphanEnds(o) PROVE HandoffsInv'
  BY <1>4, <1>s DEF OrphanSends, OrphanEnds
<1>5. ASSUME NEW t \in Threads, NEW slot \in Slots, NewStarted(t, slot) PROVE HandoffsInv'
  <2>1. \A u \in Threads : sessions[u].state = "ready" => sessions'[u] = sessions[u]
    BY <1>5 DEF NewStarted, Unknown, NoSession, Insert, TypeOK
  <2> QED
    BY <1>5, <1>p, <2>1, HandoffsStay DEF NewStarted
<1>6. ASSUME NEW t \in Threads, NEW x \in handoffs, HandoffStarted(t, x) PROVE HandoffsInv'
  <2> DEFINE taken == [x EXCEPT !.consumedBy = t]
  <2>t. x \in Handoff
    BY DEF TypeOK
  <2>1. /\ taken.id = x.id /\ taken.source = x.source /\ taken.target = x.target
        /\ taken.account = x.account /\ taken.consumedBy = t
    BY <2>t DEF Handoff
  <2>2. /\ handoffs' = (handoffs \ {x}) \cup {taken} /\ x.consumedBy = None
        /\ sessions[t] = NoSession /\ t # x.source
        /\ sessions[x.source].project = proc.project
    BY <1>6 DEF HandoffStarted, Bindable, Unknown
  <2>3. /\ sessions'[t].state = "ready" /\ sessions'[t].project = proc.project
        /\ bound'[t] = vault[x.target] /\ x.source \in Threads
        /\ \A u \in Threads : u # t => sessions'[u] = sessions[u] /\ bound'[u] = bound[u]
    BY <1>6, <2>t DEF HandoffStarted, Insert, TypeOK, Handoff
  <2>4. vault[x.target] = x.account /\ bound[x.source] # x.account
    BY <2>2 DEF HandoffsInv, HandoffExact
  <2>5. t # None
    BY DEF AffinityAssumption
  <2>6. ASSUME NEW y \in handoffs
        PROVE  /\ y.source \in Threads /\ y.source # t /\ y.consumedBy # t /\ Known(y.source)
               /\ y.consumedBy # None => y.consumedBy \in Threads /\ Known(y.consumedBy)
    <3>1. y \in Handoff /\ Known(y.source) /\ (y.consumedBy # None => Known(y.consumedBy))
      BY DEF TypeOK, HandoffsInv, HandoffsFrozen
    <3>2. ~Known(t)
      BY <2>2 DEF Known, NoSession
    <3> QED
      BY <2>5, <3>1, <3>2 DEF Handoff
  <2>7. proc'.pc # "logout"
    <3>1. proc.pc = "running" /\ proc' = [proc EXCEPT !.binding = "bound", !.thread = t] /\ proc \in Process
      BY <1>6 DEF HandoffStarted, Startable, TypeOK
    <3> QED
      BY <3>1 DEF Process
  <2> HIDE DEF taken
  <2>8. HandoffsFrozen'
    <3>1. ASSUME NEW y \in handoffs' PROVE y = taken \/ y \in handoffs
      BY <2>2
    <3>2. ASSUME NEW y \in handoffs', y.consumedBy = None PROVE sessions'[y.source].state = "ready"
      <4>1. y \in handoffs
        BY <2>1, <2>5, <3>1, <3>2
      <4> QED
        BY <2>3, <2>6, <3>2, <4>1 DEF HandoffsInv, HandoffsFrozen
    <3>3. ASSUME NEW y \in handoffs'
          PROVE  /\ sessions'[y.source].state # "none"
                 /\ y.consumedBy # None => sessions'[y.consumedBy].state # "none"
      BY <2>1, <2>3, <2>6, <3>1 DEF Known
    <3> QED
      BY <2>7, <3>2, <3>3 DEF HandoffsFrozen, Known
  <2>9. ASSUME NEW y \in handoffs', y.consumedBy = None
        PROVE  /\ sessions'[y.source].state # "inflight" /\ TurnOf(y.source)' = "none"
               /\ vault'[y.target] = y.account /\ bound'[y.source] # y.account
    <3>1. Resting'
      BY RestingTurn, PTL
    <3>2. y \in handoffs
      BY <2>1, <2>2, <2>5, <2>9
    <3>3. sessions'[y.source].state = "ready"
      BY <2>8, <2>9 DEF HandoffsFrozen
    <3> QED
      BY <1>p, <2>3, <2>6, <2>9, <3>1, <3>2, <3>3 DEF Resting, HandoffsInv, HandoffExact
  <2>10. ASSUME NEW y \in handoffs', y.consumedBy # None
         PROVE  /\ bound'[y.consumedBy] = y.account /\ bound'[y.source] # y.account
                /\ sessions'[y.consumedBy].project = sessions'[y.source].project
    <3>1. CASE y = taken
      BY <2>1, <2>2, <2>3, <2>4, <3>1
    <3>2. CASE y \in handoffs
      <4>1. /\ bound[y.consumedBy] = y.account /\ bound[y.source] # y.account
            /\ sessions[y.consumedBy].project = sessions[y.source].project
        BY <2>10, <3>2 DEF HandoffsInv, HandoffExact
      <4> QED
        BY <2>3, <2>6, <2>10, <3>2, <4>1
    <3> QED
      BY <2>2, <3>1, <3>2
  <2>11. ASSUME NEW y \in handoffs', NEW z \in handoffs'
         PROVE  /\ y # z /\ y.consumedBy # None => y.consumedBy # z.consumedBy
                /\ y # z /\ y.source = z.source => y.consumedBy # None \/ z.consumedBy # None
    <3>1. CASE y \in handoffs /\ z \in handoffs
      BY <3>1 DEF HandoffsInv, HandoffExact
    <3>2. CASE y = taken \/ z = taken
      BY <2>1, <2>2, <2>5, <2>6, <3>2
    <3> QED
      BY <2>2, <3>1, <3>2
  <2> QED
    BY <2>8, <2>9, <2>10, <2>11 DEF HandoffsInv, HandoffExact
<1> QED
  BY <1>1, <1>2, <1>3, <1>4, <1>5, <1>6 DEF Exec

LEMMA HandoffsServe ==
  ASSUME TypeOK, IntentHeld, HandoffsInv, Grows, IntentHeld', OrphansClosed', Serve
  PROVE  HandoffsInv'
<1> USE DEF tables, memory, history
<1>1. UNCHANGED <<handoffs, vault, proc>>
  BY ServeRows
<1> PICK r \in Requests :
       \/ \E t \in Threads, body \in Bodies : Arrive(r, t, body)
       \/ Resolve(r) \/ Admit(r) \/ Reject(r) \/ Begin(r) \/ Unbegun(r) \/ Send(r)
       \/ \E answer \in Answers : FinishOk(r, answer)
       \/ FinishFailed(r) \/ FinishLost(r)
  BY DEF Serve
<1>2. ASSUME NEW t \in Threads, sessions[t].state = "ready", Pending(t) # {}
      PROVE  sessions'[t].state = "ready"
  <2>1. CASE Begin(r)
    <3>1. t # requests[r].thread
      BY <1>2, <2>1 DEF Begin, MayBegin, Ready
    <3> QED
      BY <1>2, <2>1, <3>1 DEF Begin, TypeOK
  <2>2. ASSUME NEW answer \in Answers, FinishOk(r, answer) PROVE sessions'[t].state = "ready"
    <3>1. t # requests[r].thread
      BY <1>2, <2>2 DEF FinishOk, Leased
    <3> QED
      BY <1>2, <2>2, <3>1 DEF FinishOk, TypeOK
  <2>3. CASE FinishFailed(r)
    <3>1. t # requests[r].thread
      BY <1>2, <2>3 DEF FinishFailed, Leased
    <3> QED
      BY <1>2, <2>3, <3>1 DEF FinishFailed, TypeOK
  <2>4. CASE \/ \E u \in Threads, body \in Bodies : Arrive(r, u, body)
             \/ Resolve(r) \/ Admit(r) \/ Reject(r) \/ Unbegun(r) \/ Send(r) \/ FinishLost(r)
    BY <1>2, <2>4 DEF Arrive, Resolve, Admit, Reject, Unbegun, Send, FinishLost
  <2> QED
    BY <2>1, <2>2, <2>3, <2>4
<1> QED
  BY <1>1, <1>2, HandoffsStay

LEMMA HandoffsManage ==
  ASSUME TypeOK, AffinityAssumption, AccountsInPlace, RunRecorded, HandoffsInv, Grows,
         IntentHeld', OrphansClosed', Manage
  PROVE  HandoffsInv'
<1> USE DEF tables, memory, history
<1>1. ASSUME NEW h \in Handles, NEW p \in Projects, NEW slot \in Slots, NEW id \in Reservations,
             Prepare(h, p, slot, id)
      PROVE  HandoffsInv'
  <2> DEFINE t == records[h].thread
             fresh == [id |-> id, source |-> t, target |-> slot, consumedBy |-> None,
                       account |-> vault[slot]]
  <2>1. /\ handoffs' = handoffs \cup {fresh} /\ t # None /\ vault[slot] # None
        /\ sessions' = Recovered /\ Recovered[t].state = "ready" /\ sessions[t].slot # slot
        /\ Pending(t) = {} /\ UNCHANGED <<vault, proc, bound>> /\ Free
    BY <1>1 DEF Prepare, Loadable, Ready
  <2>2. t \in Threads
    BY <2>1 DEF TypeOK, Record
  <2>3. sessions[t].state = "ready" /\ sessions'[t].state = "ready"
    <3>1. sessions[t] \in Session
      BY <2>2 DEF TypeOK
    <3> QED
      BY <2>1, <2>2, <3>1 DEF Recovered, Session
  <2>4. bound[t] # vault[slot]
    <3>1. sessions[t].slot \in Slots /\ vault[sessions[t].slot] = bound[t]
      BY <2>2, <2>3 DEF AccountsInPlace, Known
    <3> QED
      BY <2>1, <3>1 DEF AccountsInPlace
  <2>5. /\ fresh.source = t /\ fresh.target = slot /\ fresh.consumedBy = None
        /\ fresh.account = vault[slot]
    OBVIOUS
  <2>6. ASSUME NEW y \in handoffs, y.consumedBy = None PROVE y.source # t
    BY <2>1, <2>6 DEF Pending
  <2> HIDE DEF fresh, t
  <2>7. ASSUME NEW y \in handoffs
        PROVE  /\ y.source \in Threads /\ Known(y.source)
               /\ y.consumedBy # None => y.consumedBy \in Threads /\ Known(y.consumedBy)
    BY DEF TypeOK, Handoff, HandoffsInv, HandoffsFrozen
  <2>8. HandoffsFrozen'
    <3>1. ASSUME NEW y \in handoffs', y.consumedBy = None PROVE sessions'[y.source].state = "ready"
      <4>1. CASE y = fresh
        BY <2>3, <2>5, <4>1
      <4>2. CASE y \in handoffs
        <5>1. sessions[y.source].state = "ready"
          BY <3>1, <4>2 DEF HandoffsInv, HandoffsFrozen
        <5> QED
          BY <2>1, <2>7, <4>2, <5>1, RecoveredRests
      <4> QED
        BY <2>1, <4>1, <4>2
    <3>2. ASSUME NEW y \in handoffs'
          PROVE  /\ sessions'[y.source].state # "none"
                 /\ y.consumedBy # None => sessions'[y.consumedBy].state # "none"
      BY <2>1, <2>3, <2>5, <2>7 DEF Known, Grows
    <3>3. proc'.pc # "logout"
      BY <2>1 DEF Free
    <3> QED
      BY <3>1, <3>2, <3>3 DEF HandoffsFrozen, Known
  <2>9. ASSUME NEW y \in handoffs', y.consumedBy = None
        PROVE  /\ sessions'[y.source].state # "inflight" /\ TurnOf(y.source)' = "none"
               /\ vault'[y.target] = y.account /\ bound'[y.source] # y.account
    <3>1. Resting'
      BY RestingTurn, PTL
    <3>2. sessions'[y.source].state = "ready"
      BY <2>8, <2>9 DEF HandoffsFrozen
    <3>3. y.source \in Threads
      BY <2>1, <2>2, <2>5, <2>7
    <3>4. vault[y.target] = y.account /\ bound[y.source] # y.account
      BY <2>1, <2>4, <2>5, <2>9 DEF HandoffsInv, HandoffExact
    <3> QED
      BY <2>1, <3>1, <3>2, <3>3, <3>4 DEF Resting
  <2>10. ASSUME NEW y \in handoffs', y.consumedBy # None
         PROVE  /\ bound'[y.consumedBy] = y.account /\ bound'[y.source] # y.account
                /\ sessions'[y.consumedBy].project = sessions'[y.source].project
    <3>1. y \in handoffs
      BY <2>1, <2>5, <2>10
    <3> QED
      BY <2>1, <2>7, <2>10, <3>1 DEF HandoffsInv, HandoffExact, Grows
  <2>11. ASSUME NEW y \in handoffs', NEW z \in handoffs'
         PROVE  /\ y # z /\ y.consumedBy # None => y.consumedBy # z.consumedBy
                /\ y # z /\ y.source = z.source => y.consumedBy # None \/ z.consumedBy # None
    <3>1. CASE y \in handoffs /\ z \in handoffs
      BY <3>1 DEF HandoffsInv, HandoffExact
    <3>2. CASE y = fresh \/ z = fresh
      BY <2>1, <2>5, <2>6, <3>2
    <3> QED
      BY <2>1, <3>1, <3>2
  <2> QED
    BY <2>8, <2>9, <2>10, <2>11 DEF HandoffsInv, HandoffExact
<1>2. ASSUME NEW h \in Handles, NEW x \in handoffs, Cancel(h, x) PROVE HandoffsInv'
  BY <1>2, HandoffsStay, RecoveredRests DEF Cancel
<1>3. ASSUME NEW slot \in Slots, LogoutInvalidate(slot) PROVE HandoffsInv'
  <2>1. /\ handoffs' = handoffs \ Dropped(slot) /\ vault' = vault /\ sessions' = Blocked(slot)
        /\ proc'.slot = slot
    BY <1>3 DEF LogoutInvalidate, NoProcess
  <2>2. ASSUME NEW x \in handoffs', x.consumedBy = None
        PROVE  sessions'[x.source].state = "ready" /\ x.target # slot
    <3>1. x \in handoffs /\ x.target # slot /\ sessions[x.source].slot # slot /\ x.source \in Threads
      BY <2>1, <2>2 DEF Dropped, TypeOK, Handoff
    <3>2. sessions[x.source].state = "ready"
      BY <2>2, <3>1 DEF HandoffsInv, HandoffsFrozen
    <3>3. sessions'[x.source] = Recovered[x.source]
      BY <2>1, <3>1 DEF Blocked
    <3> QED
      BY <3>1, <3>2, <3>3, RecoveredRests
  <2> QED
    BY <2>1, <2>2, HandoffsKept
<1>4. CASE LogoutVault
  <2>1. /\ handoffs' = handoffs /\ sessions' = sessions /\ proc.pc = "logout" /\ proc'.pc # "logout"
        /\ vault' = [vault EXCEPT ![proc.slot] = None]
    BY <1>4 DEF LogoutVault, NoProcess
  <2>2. ASSUME NEW x \in handoffs', x.consumedBy = None
        PROVE  sessions'[x.source].state = "ready" /\ vault'[x.target] = vault[x.target]
    <3>1. x \in handoffs /\ x.target # proc.slot /\ sessions[x.source].state = "ready" /\ x.target \in Slots
      BY <2>1, <2>2 DEF HandoffsInv, HandoffsFrozen, TypeOK, Handoff
    <3> QED
      BY <2>1, <3>1 DEF TypeOK
  <2> QED
    BY <2>1, <2>2, HandoffsKept
<1>5. ASSUME NEW slot \in Slots, NEW a \in Accounts, Login(slot, a) PROVE HandoffsInv'
  <2>1. /\ handoffs' = handoffs /\ sessions' = sessions /\ proc' = proc
        /\ proc.pc # "logout" /\ vault[slot] = None /\ vault' = [vault EXCEPT ![slot] = a]
    BY <1>5 DEF Login
  <2>2. ASSUME NEW x \in handoffs', x.consumedBy = None
        PROVE  sessions'[x.source].state = "ready" /\ vault'[x.target] = vault[x.target]
    <3>1. /\ x \in handoffs /\ vault[x.target] = x.account /\ sessions[x.source].state = "ready"
          /\ x \in Handoff
      BY <2>1, <2>2 DEF HandoffsInv, HandoffsFrozen, HandoffExact, TypeOK
    <3>2. x.target \in Slots /\ x.target # slot
      BY <2>1, <3>1 DEF Handoff, AffinityAssumption
    <3> QED
      BY <2>1, <3>1, <3>2 DEF TypeOK
  <2> QED
    BY <2>1, <2>2, HandoffsKept
<1> QED
  BY <1>1, <1>2, <1>3, <1>4, <1>5 DEF Manage

-----------------------------------------------------------------------------
(* The invariant.                                                          *)

LEMMA InvariantInit ==
  ASSUME AffinityAssumption, Init
  PROVE  IInv
<1>1. TypeOK
  BY TypeInit
<1>2. AccountsInPlace
  BY DEF Init, AccountsInPlace, Known, NoSession, NoProcess, AffinityAssumption
<1>3. IntentHeld /\ OrphansClosed
  BY DEF Init, IntentHeld, HandlerHeld, NoRequest, OrphansClosed
<1>4. OneOwner /\ HandoffsFrozen /\ HandoffExact
  BY DEF Init, OneOwner, HandoffsFrozen, HandoffExact
<1>5. RunRecorded /\ SpoiledNeverRuns /\ RecordsFaithful
  BY DEF Init, RunRecorded, SpoiledNeverRuns, RecordsFaithful, Alive, NoProcess, NoRecord
<1>6. HistoryReplays
  BY DEF Init, HistoryReplays
<1> QED
  BY <1>1, <1>2, <1>3, <1>4, <1>5, <1>6 DEF IInv

LEMMA InvariantStep ==
  ASSUME AffinityAssumption, IInv, Next
  PROVE  IInv'
<1> USE DEF IInv
<1>1. Grows
  BY StepGrows
<1>2. TypeOK'
  BY TypeExec, TypeServe, TypeManage DEF Next
<1>3. AccountsInPlace'
  BY PlacesStep
<1>4. IntentHeld'
  BY <1>1, IntentExec, IntentServe, IntentManage DEF Next
<1>5. OrphansClosed'
  BY <1>1, OrphansStep
<1>6. OneOwner'
  BY OwnerStep
<1>7. RecordsInv'
  BY <1>1, <1>2, RecordsStep DEF RecordsInv
<1>8. HandoffsInv'
  BY <1>1, <1>4, <1>5, HandoffsExec, HandoffsServe, HandoffsManage DEF Next, HandoffsInv
<1>9. HistoryReplays'
  BY <1>1, ReplaysStep
<1> QED
  BY <1>2, <1>3, <1>4, <1>5, <1>6, <1>7, <1>8, <1>9 DEF RecordsInv, HandoffsInv

LEMMA InvariantStutter ==
  ASSUME IInv, UNCHANGED vars
  PROVE  IInv'
<1>1. TypeOK' /\ AccountsInPlace'
  BY DEF IInv, vars, tables, memory, history, TypeOK, AccountsInPlace, Known
<1>2. IntentHeld' /\ OrphansClosed' /\ OneOwner'
  BY DEF IInv, vars, tables, memory, history, IntentHeld, HandlerHeld, OrphansClosed, OneOwner,
         Known, Leased, RefsOf, Free
<1>3. RunRecorded' /\ SpoiledNeverRuns' /\ RecordsFaithful'
  BY DEF IInv, vars, tables, memory, history, RunRecorded, SpoiledNeverRuns, RecordsFaithful,
         Known, Alive
<1>4. HandoffsFrozen' /\ HandoffExact'
  BY DEF IInv, vars, tables, memory, history, HandoffsFrozen, HandoffExact, Known, TurnOf, Carries
<1>5. HistoryReplays'
  BY DEF IInv, vars, tables, memory, history, HistoryReplays
<1> QED
  BY <1>1, <1>2, <1>3, <1>4, <1>5 DEF IInv

\* Every reachable state, whatever commands ran and wherever a process died,
\* satisfies the inductive invariant.
THEOREM Invariance == Spec => []IInv
<1>1. Init => IInv
  BY InvariantInit, AffinityAssumption
<1>2. IInv /\ [Next]_vars => IInv'
  BY InvariantStep, InvariantStutter, AffinityAssumption
<1> QED
  BY <1>1, <1>2, PTL DEF Spec

\* A record whose run broke off is never run again (Record.Begin before the CLI,
\* Record.Complete only after a clean end).
THEOREM SpoiledStaysDown == Spec => []SpoiledNeverRuns
<1>1. IInv => SpoiledNeverRuns
  BY DEF IInv
<1> QED
  BY <1>1, Invariance, PTL

\* No two records lead to one conversation, and a resumable record leads to one of
\* its own project.
THEOREM RecordsStayFaithful == Spec => []RecordsFaithful
<1>1. IInv => RecordsFaithful
  BY DEF IInv
<1> QED
  BY <1>1, Invariance, PTL

\* An open handoff is frozen, and a used one went exactly where it was prepared for.
THEOREM HandoffsStayExact == Spec => []HandoffExact
<1>1. IInv => HandoffExact
  BY DEF IInv
<1> QED
  BY <1>1, Invariance, PTL

\* Whatever a completed response gave a conversation may be sent back as history.
THEOREM HistoryAlwaysReplays == Spec => []HistoryReplays
<1>1. IInv => HistoryReplays
  BY DEF IInv
<1> QED
  BY <1>1, Invariance, PTL

-----------------------------------------------------------------------------
(* The commands and handlers implement Ownership.                          *)

\* A turn is in one place: it is not both to be sent and sent.
OneCarrier == \A t \in Threads : ~(Carries(t, "begun") /\ Carries(t, "sent"))

LEMMA CarrierUnique == IInv => OneCarrier
<1> SUFFICES ASSUME IInv, NEW t \in Threads, Carries(t, "begun"), Carries(t, "sent") PROVE FALSE
  BY DEF OneCarrier
<1> USE DEF IInv
<1>1. ASSUME NEW r \in Requests, NEW q \in Requests, requests[r].thread = t, requests[q].thread = t,
             requests[r].pc = "begun", requests[q].pc = "sent"
      PROVE  FALSE
  BY <1>1, OneHandler DEF IntentHeld, HandlerHeld
<1>2. ASSUME NEW r \in Requests, NEW o \in orphans, requests[r].thread = t, o.thread = t,
             requests[r].pc \in {"begun", "sent"}
      PROVE  FALSE
  <2>1. sessions[t].state = "inflight"
    BY <1>2 DEF IntentHeld, HandlerHeld, Leased
  <2>2. requests[r] # NoRequest
    BY <1>2 DEF NoRequest
  <2>3. ~Free
    BY <2>2 DEF IntentHeld, Free
  <2> QED
    BY <1>2, <2>1, <2>3 DEF OrphansClosed
<1>3. ASSUME NEW o \in orphans, NEW n \in orphans, o.thread = t, n.thread = t,
             o.pc = "begun", n.pc = "sent"
      PROVE  FALSE
  BY <1>3 DEF OrphansClosed
<1> QED
  BY <1>1, <1>2, <1>3 DEF Carries

\* Who carried a turn carries it, or nobody does.
LEMMA TurnLost ==
  ASSUME OneCarrier, NEW t \in Threads,
         \A pc \in {"begun", "sent"} : Carries(t, pc)' => Carries(t, pc)
  PROVE  TurnOf(t)' \in {"none", TurnOf(t)}
BY DEF OneCarrier, TurnOf

LEMMA TurnSame ==
  ASSUME NEW t \in Threads, \A pc \in {"begun", "sent"} : Carries(t, pc)' <=> Carries(t, pc)
  PROVE  TurnOf(t)' = TurnOf(t)
BY DEF TurnOf

\* Steps that at most close conversations and lose turns.
LEMMA BreakMaps ==
  ASSUME TypeOK, OneCarrier, UNCHANGED <<bound, responses, upstream>>,
         \A t \in Threads : \/ sessions'[t].state = sessions[t].state
                            \/ Known(t) /\ sessions'[t].state = "blocked",
         \A t \in Threads : \A pc \in {"begun", "sent"} : Carries(t, pc)' => Carries(t, pc)
  PROVE  Conversations!Next
<1> DEFINE T == {t \in Threads : Known(t) /\ sessions'[t].state = "blocked"}
           L == {t \in Threads : TurnOf(t)' = "none"}
<1>1. ASSUME NEW t \in Threads
      PROVE  /\ StageOf(t)' = IF t \in T THEN "closed" ELSE StageOf(t)
             /\ t \in T => StageOf(t) # "none"
  <2>1. sessions[t].state \in States
    BY DEF TypeOK, Session
  <2> QED
    BY <2>1 DEF StageOf, States, Known
<1>2. ASSUME NEW t \in Threads PROVE TurnOf(t)' = IF t \in L THEN "none" ELSE TurnOf(t)
  BY TurnLost
<1>3. ownedBar' = ownedBar
  BY DEF ownedBar, OwnedBy
<1> HIDE DEF T, L
<1>4. T \in SUBSET Threads /\ L \in SUBSET Threads
  BY DEF T, L
<1>5. \A t \in T : stageBar[t] # "none"
  BY <1>1, <1>4 DEF stageBar
<1>6. stageBar' = [t \in Threads |-> IF t \in T THEN "closed" ELSE stageBar[t]]
  BY <1>1 DEF stageBar
<1>7. turnBar' = [t \in Threads |-> IF t \in L THEN "none" ELSE turnBar[t]]
  BY <1>2 DEF turnBar
<1>8. Conversations!Break(T, L)
  BY <1>3, <1>5, <1>6, <1>7 DEF Conversations!Break
<1> QED
  BY <1>4, <1>8 DEF Conversations!Next

\* Registering a conversation starts it with the account of its slot.
LEMMA RegistersMaps ==
  ASSUME TypeOK, AffinityAssumption, NEW t \in Threads, NEW slot \in Slots, Registers(t, slot)
  PROVE  Conversations!Next
<1>1. /\ sessions'[t].state = "ready" /\ sessions[t].state = "none"
      /\ \A u \in Threads : u # t => sessions'[u] = sessions[u]
      /\ bound' = [bound EXCEPT ![t] = vault[slot]] /\ vault[slot] \in Accounts
      /\ UNCHANGED <<responses, requests, orphans, upstream>>
  BY DEF Registers, Insert, Unknown, NoSession, TypeOK
<1>2. stageBar[t] = "none" /\ stageBar' = [stageBar EXCEPT ![t] = "idle"]
  <2>1. StageOf(t) = "none" /\ StageOf(t)' = "idle"
    BY <1>1 DEF StageOf
  <2>2. ASSUME NEW u \in Threads, u # t PROVE StageOf(u)' = StageOf(u)
    BY <1>1, <2>2 DEF StageOf
  <2> QED
    BY <2>1, <2>2 DEF stageBar
<1>3. ownedBar' = ownedBar /\ turnBar' = turnBar
  BY <1>1 DEF ownedBar, OwnedBy, turnBar, TurnOf, Carries
<1>4. Conversations!Start(t, vault[slot])
  BY <1>1, <1>2, <1>3 DEF Conversations!Start
<1> QED
  BY <1>1, <1>4 DEF Conversations!Next

\* Claiming what MayClaim allows is to gain ids nobody else owns.
LEMMA ClaimMaps ==
  ASSUME TypeOK, NEW t \in Threads, NEW keys \in SUBSET Keys, MayClaim(t, keys), Claim(t, keys)
  PROVE  Conversations!Gain(t)
<1>1. ASSUME NEW u \in Threads
      PROVE  OwnedBy(u)' = IF u = t THEN OwnedBy(u) \cup keys ELSE OwnedBy(u)
  <2>1. responses' = responses \cup {<<key, t>> : key \in keys}
    BY DEF Claim
  <2>2. ASSUME NEW key \in OwnedBy(u)' PROVE key \in OwnedBy(u) \/ (u = t /\ key \in keys)
    <3>1. PICK pair \in responses' : pair[2] = u /\ pair[1] = key
      BY DEF OwnedBy
    <3> QED
      BY <2>1, <3>1 DEF OwnedBy
  <2>3. OwnedBy(u) \subseteq OwnedBy(u)'
    BY <2>1 DEF OwnedBy
  <2>4. ASSUME NEW key \in keys PROVE key \in OwnedBy(t)'
    <3>1. <<key, t>> \in responses' /\ <<key, t>>[1] = key /\ <<key, t>>[2] = t
      BY <2>1
    <3> QED
      BY <3>1 DEF OwnedBy
  <2> QED
    BY <2>2, <2>3, <2>4
<1>2. ownedBar' = [ownedBar EXCEPT ![t] = @ \cup keys]
  BY <1>1 DEF ownedBar
<1>3. ASSUME NEW u \in Threads, u # t, NEW key \in keys PROVE key \notin ownedBar[u]
  <2>1. key \in OwnedBy(u) => u \in Owner(key)
    BY DEF OwnedBy, Owner
  <2> QED
    BY <1>3, <2>1 DEF ownedBar, MayClaim
<1>4. keys \in SUBSET (Keys \ Conversations!Foreign(t))
  BY <1>3 DEF Conversations!Foreign
<1> QED
  BY <1>2, <1>4 DEF Conversations!Gain

\* A handler's step is about its own conversation.
LEMMA ServeElsewhere ==
  ASSUME TypeOK, IntentHeld, NEW r \in Requests, orphans' = orphans,
         \A q \in Requests : q # r => requests'[q] = requests[q],
         requests'[r].pc \in {"begun", "sent"} => requests'[r].thread = requests[r].thread,
         NEW u \in Threads, u # requests[r].thread
  PROVE  TurnOf(u)' = TurnOf(u)
<1>1. ASSUME NEW pc \in {"begun", "sent"} PROVE Carries(u, pc)' <=> Carries(u, pc)
  BY DEF Carries
<1> QED
  BY <1>1, TurnSame

LEMMA BeginMaps ==
  ASSUME IInv, OneCarrier', NEW r \in Requests, Begin(r)
  PROVE  Conversations!Next
<1> USE DEF IInv, tables, memory, history
<1> PICK t \in Threads : t = requests[r].thread
  BY DEF Begin, IntentHeld, HandlerHeld
<1>1. requests[r] \in Request
  BY DEF TypeOK
<1>2. requests'[r].pc = "begun" /\ requests'[r].thread = t
  BY <1>1 DEF Begin, TypeOK, Request
<1>3. /\ sessions[t].state = "ready" /\ sessions'[t].state = "inflight"
      /\ \A u \in Threads : u # t => sessions'[u] = sessions[u]
      /\ UNCHANGED <<bound, upstream, orphans>>
      /\ \A q \in Requests : q # r => requests'[q] = requests[q]
  BY <1>1 DEF Begin, MayBegin, Ready, TypeOK, Session
<1>4. stageBar[t] = "idle" /\ stageBar' = [stageBar EXCEPT ![t] = "running"]
  <2>1. StageOf(t) = "idle" /\ StageOf(t)' = "running"
    BY <1>3 DEF StageOf
  <2>2. ASSUME NEW u \in Threads, u # t PROVE StageOf(u)' = StageOf(u)
    BY <1>3, <2>2 DEF StageOf
  <2> QED
    BY <1>1, <2>1, <2>2 DEF stageBar
<1>5. turnBar[t] = "none" /\ turnBar' = [turnBar EXCEPT ![t] = "asked"]
  <2>1. TurnOf(t) = "none"
    BY <1>1, <1>3, RestingTurn DEF Resting
  <2>2. Carries(t, "begun")'
    BY <1>2 DEF Carries
  <2>3. TurnOf(t)' = "asked"
    BY <2>2 DEF TurnOf
  <2>4. ASSUME NEW u \in Threads, u # t PROVE TurnOf(u)' = TurnOf(u)
    BY <1>2, <1>3, <2>4, ServeElsewhere
  <2> QED
    BY <1>1, <2>1, <2>3, <2>4 DEF turnBar
<1>6. Conversations!Gain(t)
  <2>1. inlineMessageIDs(requests[r].body) \in SUBSET Keys
    BY <1>1, InlineKeys DEF Request
  <2> QED
    BY <1>1, <2>1, ClaimMaps DEF Begin, MayBegin
<1>7. Conversations!Ask(t)
  BY <1>3, <1>4, <1>5, <1>6 DEF Conversations!Ask
<1> QED
  BY <1>1, <1>7 DEF Conversations!Next

LEMMA SendMaps ==
  ASSUME IInv, IInv', OneCarrier, OneCarrier', NEW r \in Requests, Send(r)
  PROVE  Conversations!Next
<1> USE DEF IInv, tables, memory, history
<1> PICK t \in Threads : t = requests[r].thread
  BY DEF Send, IntentHeld, HandlerHeld
<1>1. requests[r] \in Request /\ requests[r].pc = "begun"
  BY DEF TypeOK, Send
<1>2. requests'[r].pc = "sent" /\ requests'[r].thread = t
  BY <1>1 DEF Send, TypeOK, Request
<1>3. /\ UNCHANGED <<sessions, responses, bound, orphans>>
      /\ upstream' = [upstream EXCEPT ![t] = [account |-> requests[r].account, refs |-> RefsOf(r)]]
      /\ \A q \in Requests : q # r => requests'[q] = requests[q]
  BY DEF Send, TypeOK
<1>4. /\ sessions[t].state = "inflight" /\ requests[r].account = bound[t]
      /\ \A key \in RefsOf(r) : <<key, t>> \in responses
  BY <1>1 DEF IntentHeld, HandlerHeld, Leased
<1>5. RefsOf(r) \in SUBSET ownedBar[t]
  <2>1. ASSUME NEW key \in RefsOf(r) PROVE key \in OwnedBy(t)
    <3>1. <<key, t>> \in responses /\ <<key, t>>[1] = key /\ <<key, t>>[2] = t
      BY <1>4
    <3> QED
      BY <3>1 DEF OwnedBy
  <2> QED
    BY <1>1, <2>1 DEF ownedBar
<1>6. stageBar[t] = "running" /\ UNCHANGED <<stageBar, ownedBar>>
  BY <1>1, <1>3, <1>4 DEF stageBar, StageOf, ownedBar, OwnedBy
<1>7. turnBar[t] = "asked" /\ turnBar' = [turnBar EXCEPT ![t] = "sent"]
  <2>1. Carries(t, "begun") /\ Carries(t, "sent")'
    BY <1>1, <1>2 DEF Carries
  <2>2. TurnOf(t) = "asked" /\ TurnOf(t)' = "sent"
    BY <1>1, <2>1 DEF TurnOf, OneCarrier
  <2>3. ASSUME NEW u \in Threads, u # t PROVE TurnOf(u)' = TurnOf(u)
    BY <1>2, <1>3, <2>3, ServeElsewhere
  <2> QED
    BY <1>1, <2>2, <2>3 DEF turnBar
<1>8. Conversations!Send(t)
  BY <1>3, <1>4, <1>5, <1>6, <1>7 DEF Conversations!Send
<1> QED
  BY <1>1, <1>8 DEF Conversations!Next

LEMMA OrphanSendMaps ==
  ASSUME IInv, IInv', OneCarrier, OneCarrier', NEW o \in orphans, OrphanSends(o)
  PROVE  Conversations!Next
<1> USE DEF IInv, tables, memory, history
<1> DEFINE t == o.thread
           sent == [o EXCEPT !.pc = "sent"]
<1>1. o \in Orphan /\ t \in Threads /\ o.pc = "begun"
  BY DEF TypeOK, Orphan, OrphanSends
<1>2. sent.pc = "sent" /\ sent.thread = t
  BY <1>1 DEF Orphan
<1>3. /\ UNCHANGED <<sessions, responses, bound, requests>>
      /\ orphans' = (orphans \ {o}) \cup {sent}
      /\ upstream' = [upstream EXCEPT ![t] = [account |-> o.account, refs |-> o.refs]]
  BY DEF OrphanSends
<1>4. /\ sessions[t].state \in {"inflight", "blocked"} /\ o.account = bound[t]
      /\ \A key \in o.refs : <<key, t>> \in responses
  BY DEF OrphansClosed
<1>5. o.refs \in SUBSET ownedBar[t]
  <2>1. ASSUME NEW key \in o.refs PROVE key \in OwnedBy(t)
    <3>1. <<key, t>> \in responses /\ <<key, t>>[1] = key /\ <<key, t>>[2] = t
      BY <1>4
    <3> QED
      BY <3>1 DEF OwnedBy
  <2> QED
    BY <1>1, <2>1 DEF ownedBar
<1>6. stageBar[t] \in {"running", "closed"} /\ UNCHANGED <<stageBar, ownedBar>>
  BY <1>1, <1>3, <1>4 DEF stageBar, StageOf, ownedBar, OwnedBy
<1> HIDE DEF sent
<1>7. turnBar[t] = "asked" /\ turnBar' = [turnBar EXCEPT ![t] = "sent"]
  <2>1. Carries(t, "begun") /\ Carries(t, "sent")'
    BY <1>1, <1>2, <1>3 DEF Carries
  <2>2. TurnOf(t) = "asked" /\ TurnOf(t)' = "sent"
    BY <1>1, <2>1 DEF TurnOf, OneCarrier
  <2>3. ASSUME NEW u \in Threads, u # t PROVE TurnOf(u)' = TurnOf(u)
    <3>1. ASSUME NEW pc \in {"begun", "sent"} PROVE Carries(u, pc)' <=> Carries(u, pc)
      BY <1>2, <1>3, <2>3 DEF Carries
    <3> QED
      BY <3>1, TurnSame
  <2> QED
    BY <1>1, <2>2, <2>3 DEF turnBar
<1>8. Conversations!Send(t)
  BY <1>3, <1>4, <1>5, <1>6, <1>7 DEF Conversations!Send
<1> QED
  BY <1>1, <1>8 DEF Conversations!Next

LEMMA FinishMaps ==
  ASSUME IInv, IInv', OneCarrier, NEW r \in Requests, NEW answer \in Answers, FinishOk(r, answer)
  PROVE  Conversations!Next
<1> USE DEF IInv, tables, memory, history
<1> PICK t \in Threads : t = requests[r].thread
  BY DEF FinishOk, IntentHeld, HandlerHeld
<1> DEFINE keys == {historyScope(key, t) : key \in completedRefs(answer)}
<1>1. requests[r].pc = "sent" /\ sessions[t].state = "inflight"
  BY DEF FinishOk, IntentHeld, HandlerHeld, Leased
<1>2. /\ requests'[r] = NoRequest /\ sessions'[t].state = "ready"
      /\ \A u \in Threads : u # t => sessions'[u] = sessions[u]
      /\ UNCHANGED <<bound, upstream, orphans>>
      /\ \A q \in Requests : q # r => requests'[q] = requests[q]
  BY <1>1 DEF FinishOk, TypeOK, Session
<1>3. stageBar[t] = "running" /\ stageBar' = [stageBar EXCEPT ![t] = "idle"]
  <2>1. StageOf(t) = "running" /\ StageOf(t)' = "idle"
    BY <1>1, <1>2 DEF StageOf
  <2>2. ASSUME NEW u \in Threads, u # t PROVE StageOf(u)' = StageOf(u)
    BY <1>2, <2>2 DEF StageOf
  <2> QED
    BY <1>1, <2>1, <2>2 DEF stageBar
<1>4. turnBar[t] = "sent" /\ turnBar' = [turnBar EXCEPT ![t] = "none"]
  <2>1. Carries(t, "sent")
    BY <1>1 DEF Carries
  <2>2. TurnOf(t) = "sent"
    BY <1>1, <2>1 DEF TurnOf, OneCarrier
  <2>3. Resting'
    BY RestingTurn, PTL
  <2>4. TurnOf(t)' = "none"
    BY <1>1, <1>2, <2>3 DEF Resting
  <2>5. ASSUME NEW u \in Threads, u # t PROVE TurnOf(u)' = TurnOf(u)
    BY <1>2, <2>5, ServeElsewhere DEF NoRequest
  <2> QED
    BY <1>1, <2>2, <2>4, <2>5 DEF turnBar
<1>5. Conversations!Gain(t)
  <2>1. keys \in SUBSET Keys
    BY <1>1, GrantedKeys
  <2>2. MayClaim(t, keys) /\ Claim(t, keys)
    BY DEF FinishOk
  <2> QED
    BY <1>1, <2>1, <2>2, ClaimMaps
<1>6. Conversations!Answer(t)
  BY <1>2, <1>3, <1>4, <1>5 DEF Conversations!Answer
<1> QED
  BY <1>1, <1>6 DEF Conversations!Next

\* A step after which no handler carries what it did not carry before.
LEMMA HandlersQuiet ==
  ASSUME orphans' = orphans, NEW r \in Requests, requests'[r].pc \notin {"begun", "sent"},
         \A q \in Requests : q # r => requests'[q] = requests[q]
  PROVE  \A t \in Threads : \A pc \in {"begun", "sent"} : Carries(t, pc)' => Carries(t, pc)
BY DEF Carries

LEMMA ServeMaps ==
  ASSUME IInv, IInv', OneCarrier, OneCarrier', Serve
  PROVE  Conversations!Next
<1> USE DEF IInv, tables, memory, history
<1> PICK r \in Requests :
       \/ \E t \in Threads, body \in Bodies : Arrive(r, t, body)
       \/ Resolve(r) \/ Admit(r) \/ Reject(r) \/ Begin(r) \/ Unbegun(r) \/ Send(r)
       \/ \E answer \in Answers : FinishOk(r, answer)
       \/ FinishFailed(r) \/ FinishLost(r)
  BY DEF Serve
<1>t. requests[r] \in Request
  BY DEF TypeOK
<1>b. ASSUME requests'[r].pc \notin {"begun", "sent"},
             \A q \in Requests : q # r => requests'[q] = requests[q],
             UNCHANGED <<bound, responses, upstream, orphans>>,
             \A t \in Threads : \/ sessions'[t].state = sessions[t].state
                                \/ Known(t) /\ sessions'[t].state = "blocked"
      PROVE  Conversations!Next
  BY <1>b, HandlersQuiet, BreakMaps
<1>1. ASSUME NEW t \in Threads, NEW body \in Bodies, Arrive(r, t, body) PROVE Conversations!Next
  BY <1>1, <1>b DEF Arrive, TypeOK, NoRequest
<1>2. CASE Resolve(r) \/ Admit(r)
  <2>1. requests'[r].pc \in {"resolved", "reading"}
    BY <1>2, <1>t DEF Resolve, Admit, TypeOK, Request
  <2>2. \A q \in Requests : q # r => requests'[q] = requests[q]
    BY <1>2 DEF Resolve, Admit, TypeOK
  <2> QED
    BY <1>2, <1>b, <2>1, <2>2 DEF Resolve, Admit
<1>3. CASE Reject(r) \/ Unbegun(r) \/ FinishLost(r)
  BY <1>3, <1>b DEF Reject, Unbegun, FinishLost, Gives, TypeOK, NoRequest
<1>4. CASE FinishFailed(r)
  <2>1. requests[r].thread \in Threads /\ sessions[requests[r].thread].state = "inflight"
    BY <1>4 DEF FinishFailed, Leased, IntentHeld, HandlerHeld
  <2>2. ASSUME NEW t \in Threads
        PROVE  \/ sessions'[t].state = sessions[t].state
               \/ Known(t) /\ sessions'[t].state = "blocked"
    <3>1. sessions[t] \in Session
      BY DEF TypeOK
    <3>2. CASE t = requests[r].thread
      BY <1>4, <2>1, <3>1, <3>2 DEF FinishFailed, TypeOK, Session, Known
    <3>3. CASE t # requests[r].thread
      BY <1>4, <2>1, <3>3 DEF FinishFailed, TypeOK
    <3> QED
      BY <3>2, <3>3
  <2> QED
    BY <1>4, <1>b, <2>2 DEF FinishFailed, Gives, TypeOK, NoRequest
<1>5. CASE Begin(r)
  BY <1>5, BeginMaps
<1>6. CASE Send(r)
  BY <1>6, SendMaps
<1>7. ASSUME NEW answer \in Answers, FinishOk(r, answer) PROVE Conversations!Next
  BY <1>7, FinishMaps
<1> QED
  BY <1>1, <1>2, <1>3, <1>4, <1>5, <1>6, <1>7

\* A command that at most closes conversations.
LEMMA CommandMaps ==
  ASSUME IInv, OneCarrier, UNCHANGED <<bound, responses, upstream, requests, orphans>>,
         sessions' \in {sessions, Recovered}
  PROVE  Conversations!Next
<1> USE DEF IInv
<1>1. ASSUME NEW t \in Threads
      PROVE  \/ sessions'[t].state = sessions[t].state
             \/ Known(t) /\ sessions'[t].state = "blocked"
  <2>1. sessions[t] \in Session
    BY DEF TypeOK
  <2> QED
    BY <2>1 DEF Recovered, Session, Known
<1>2. \A t \in Threads : \A pc \in {"begun", "sent"} : Carries(t, pc)' => Carries(t, pc)
  BY DEF Carries
<1> QED
  BY <1>1, <1>2, BreakMaps

LEMMA ExecMaps ==
  ASSUME AffinityAssumption, IInv, IInv', OneCarrier, OneCarrier', Exec
  PROVE  Conversations!Next
<1> USE DEF IInv, tables, memory, history
<1>1. ASSUME NEW h \in Handles, NEW p \in Projects,
             ExecNew(h, p) \/ ExecResume(h, p) \/ \E x \in handoffs : ExecHandoff(h, x, p)
      PROVE  Conversations!Next
  BY <1>1, CommandMaps DEF ExecNew, ExecResume, ExecHandoff
<1>2. CASE Refused \/ Launch \/ ResumeStarted \/ StartFailed \/ RecordStarted \/ Complete
  BY <1>2, CommandMaps DEF Refused, Launch, ResumeStarted, StartFailed, RecordStarted, Complete
<1>3. ASSUME NEW good \in BOOLEAN, CliEnds(good) PROVE Conversations!Next
  BY <1>3, CommandMaps DEF CliEnds
<1>4. ASSUME NEW t \in Threads, NEW slot \in Slots, NewStarted(t, slot) PROVE Conversations!Next
  BY <1>4, RegistersMaps DEF NewStarted, Registers
<1>5. ASSUME NEW t \in Threads, NEW x \in handoffs, HandoffStarted(t, x) PROVE Conversations!Next
  <2>1. x.target \in Slots
    BY DEF TypeOK, Handoff
  <2> QED
    BY <1>5, <2>1, RegistersMaps DEF HandoffStarted, Registers
<1>6. CASE Exit
  <2>1. /\ orphans' = orphans \cup
             {[pc |-> "begun", thread |-> requests[r].thread, account |-> requests[r].account,
               refs |-> RefsOf(r)] : r \in {q \in Requests : requests[q].pc = "begun"}}
        /\ requests' = [r \in Requests |-> NoRequest]
        /\ UNCHANGED <<bound, responses, upstream, sessions>>
    BY <1>6 DEF Exit
  <2>2. ASSUME NEW t \in Threads, NEW pc \in {"begun", "sent"}, Carries(t, pc)'
        PROVE  Carries(t, pc)
    <3>1. PICK o \in orphans' : o.thread = t /\ o.pc = pc
      BY <2>1, <2>2 DEF Carries, NoRequest
    <3>2. CASE o \in orphans
      BY <3>1, <3>2 DEF Carries
    <3>3. ASSUME NEW r \in Requests, requests[r].pc = "begun", o.pc = "begun",
                 o.thread = requests[r].thread
          PROVE  Carries(t, pc)
      BY <3>1, <3>3 DEF Carries
    <3> QED
      BY <2>1, <3>1, <3>2, <3>3
  <2> QED
    BY <2>1, <2>2, BreakMaps
<1>7. CASE Crash
  <2>1. /\ requests' = [r \in Requests |-> NoRequest]
        /\ UNCHANGED <<bound, responses, upstream, sessions, orphans>>
    BY <1>7 DEF Crash
  <2>2. \A t \in Threads : \A pc \in {"begun", "sent"} : Carries(t, pc)' => Carries(t, pc)
    BY <2>1 DEF Carries, NoRequest
  <2> QED
    BY <2>1, <2>2, BreakMaps
<1>8. ASSUME NEW o \in orphans, OrphanSends(o) PROVE Conversations!Next
  BY <1>8, OrphanSendMaps
<1>9. ASSUME NEW o \in orphans, OrphanEnds(o) PROVE Conversations!Next
  <2>1. /\ orphans' = orphans \ {o}
        /\ UNCHANGED <<bound, responses, upstream, sessions, requests>>
    BY <1>9 DEF OrphanEnds
  <2>2. \A t \in Threads : \A pc \in {"begun", "sent"} : Carries(t, pc)' => Carries(t, pc)
    BY <2>1 DEF Carries
  <2> QED
    BY <2>1, <2>2, BreakMaps
<1> QED
  BY <1>1, <1>2, <1>3, <1>4, <1>5, <1>6, <1>7, <1>8, <1>9 DEF Exec

LEMMA ManageMaps ==
  ASSUME AffinityAssumption, IInv, OneCarrier, Manage
  PROVE  Conversations!Next
<1> USE DEF IInv, tables, memory, history
<1>1. ASSUME NEW h \in Handles, NEW p \in Projects, NEW slot \in Slots, NEW id \in Reservations,
             Prepare(h, p, slot, id)
      PROVE  Conversations!Next
  BY <1>1, CommandMaps DEF Prepare
<1>2. ASSUME NEW h \in Handles, NEW x \in handoffs, Cancel(h, x) PROVE Conversations!Next
  BY <1>2, CommandMaps DEF Cancel
<1>3. ASSUME NEW slot \in Slots, NEW a \in Accounts, Login(slot, a) PROVE Conversations!Next
  BY <1>3, CommandMaps DEF Login
<1>4. CASE LogoutVault
  BY <1>4, CommandMaps DEF LogoutVault
<1>5. ASSUME NEW slot \in Slots, LogoutInvalidate(slot) PROVE Conversations!Next
  <2>1. /\ sessions' = Blocked(slot) /\ slot # None
        /\ UNCHANGED <<bound, responses, upstream, requests, orphans>>
    BY <1>5 DEF LogoutInvalidate, AffinityAssumption
  <2>2. ASSUME NEW t \in Threads
        PROVE  \/ sessions'[t].state = sessions[t].state
               \/ Known(t) /\ sessions'[t].state = "blocked"
    <3>1. sessions[t] \in Session
      BY DEF TypeOK
    <3>2. sessions[t].slot = slot => Known(t)
      BY <2>1 DEF AccountsInPlace, NoSession
    <3> QED
      BY <2>1, <3>1, <3>2 DEF Blocked, Recovered, Session, Known
  <2>3. \A t \in Threads : \A pc \in {"begun", "sent"} : Carries(t, pc)' => Carries(t, pc)
    BY <2>1 DEF Carries
  <2> QED
    BY <2>1, <2>2, <2>3, BreakMaps
<1> QED
  BY <1>1, <1>2, <1>3, <1>4, <1>5 DEF Manage

\* Every behaviour of the commands and handlers on the database, with processes
\* that die anywhere, is one of Ownership.
THEOREM OwnershipImplemented == Spec => Implements
<1>1. Init => Conversations!Init
  <2> SUFFICES ASSUME Init PROVE Conversations!Init
    OBVIOUS
  <2>1. stageBar = [t \in Threads |-> "none"]
    BY DEF Init, stageBar, StageOf, NoSession
  <2>2. ownedBar = [t \in Threads |-> {}]
    BY DEF Init, ownedBar, OwnedBy
  <2>3. turnBar = [t \in Threads |-> "none"]
    BY DEF Init, turnBar, TurnOf, Carries, NoRequest
  <2> QED
    BY <2>1, <2>2, <2>3 DEF Init, Nothing, Conversations!Init, Conversations!Nothing
<1>2. IInv /\ IInv' /\ OneCarrier /\ OneCarrier' /\ [Next]_vars => [Conversations!Next]_Conversations!vars
  <2> SUFFICES ASSUME IInv, IInv', OneCarrier, OneCarrier', [Next]_vars
               PROVE  Conversations!Next \/ UNCHANGED Conversations!vars
    OBVIOUS
  <2>1. CASE Next
    BY <2>1, AffinityAssumption, ExecMaps, ServeMaps, ManageMaps DEF Next
  <2>2. CASE UNCHANGED vars
    BY <2>2 DEF vars, tables, memory, history, Conversations!vars, stageBar, StageOf, ownedBar,
                OwnedBy, turnBar, TurnOf, Carries
  <2> QED
    BY <2>1, <2>2
<1> QED
  BY <1>1, <1>2, Invariance, CarrierUnique, PTL DEF Spec, Implements, Conversations!Spec
=============================================================================

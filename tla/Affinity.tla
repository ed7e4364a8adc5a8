------------------------------ MODULE Affinity ------------------------------
(***************************************************************************)
(* Persistent conversations: the affinity database (internal/affinity),    *)
(* the router over it, the commands that open it (exec, handoff, account   *)
(* logout), the conversation records, and the handler that forwards the    *)
(* requests of the CLI an exec runs.                                       *)
(*                                                                         *)
(* The database belongs to one process at a time, the holder of its lock;  *)
(* any process may die at any point.  A command without a wait is one step *)
(* from Open to Close; exec and logout stay on the lock over several.      *)
(* Logins write only the vault and need only that no logout is under way.  *)
(*                                                                         *)
(* Data.  Quota and network are the environment: a slot with an account may *)
(* be found usable or not whenever it is looked at.  Project, worktree and *)
(* branch are one value.  A request id is the handler that got it.         *)
(***************************************************************************)
EXTENDS Continuation, Naturals, FiniteSets

CONSTANTS Slots, Accounts,   \* alias slots; identities that may log in
          Projects, Threads, \* project places; conversations the CLI may start
          Handles,           \* of conversation records
          Requests,          \* handler goroutines of one exec
          Reservations,      \* ids of handoffs
          Bodies, Answers    \* what requests carry and completed responses grant

ASSUME AffinityAssumption ==
  /\ None \notin Slots \cup Accounts \cup Projects \cup Threads \cup Handles
  /\ \A body \in Bodies : DOMAIN body = {"prev", "items"}
  /\ \A answer \in Answers : /\ DOMAIN answer = {"id", "output"}
                             /\ \A item \in answer.output : IsItem(item)

VARIABLES sessions,    \* table sessions
          responses,   \* table responses: pairs of a key and its conversation
          handoffs,    \* table handoffs
          records,     \* record.json of each handle
          vault,       \* the account of each slot
          proc,        \* the process that holds the database
          requests,    \* its handlers
          blocked,     \* Handler.blocked of its proxy
          orphans,     \* admitted turns of a process that closed the database
                       \* and is about to exit
          upstream,    \* the last request upstream received of a conversation
          bound,       \* history: the account a conversation was started with
          given,       \* history: the items completed responses gave it
          spoiled      \* history: records whose last run did not end well

tables == <<sessions, responses, handoffs>>
memory == <<proc, requests, blocked, orphans>>
history == <<bound, given, spoiled>>
vars == <<tables, records, vault, memory, upstream, history>>

NoSession == [project |-> None, slot |-> None, state |-> "none", request |-> None]
NoRecord  == [project |-> None, thread |-> None, ready |-> FALSE]
NoProcess == [pc |-> "none", handle |-> None, project |-> None, resume |-> None,
              handoff |-> None, binding |-> "waiting", thread |-> None, slot |-> None]
NoRequest == [pc |-> "none", thread |-> None, account |-> None, slot |-> None,
              body |-> [prev |-> None, items |-> {}]]
Nothing   == [account |-> None, refs |-> {}]

Init == /\ sessions = [t \in Threads |-> NoSession]
        /\ responses = {} /\ handoffs = {}
        /\ records = [h \in Handles |-> NoRecord]
        /\ vault = [s \in Slots |-> None]
        /\ proc = NoProcess
        /\ requests = [r \in Requests |-> NoRequest]
        /\ blocked = {} /\ orphans = {}
        /\ upstream = [t \in Threads |-> Nothing]
        /\ bound = [t \in Threads |-> None]
        /\ given = [t \in Threads |-> {}]
        /\ spoiled = {}

-----------------------------------------------------------------------------
(* The database.                                                           *)

\* initialize: intent found in the database is of a process that died.
Recovered == [t \in Threads |-> IF sessions[t].state = "inflight"
                THEN [sessions[t] EXCEPT !.state = "blocked", !.request = None]
                ELSE sessions[t]]

Pending(t) == {x \in handoffs : x.source = t /\ x.consumedBy = None}

\* Ready, asked of the database as db shows it.
Ready(db, t, project) == /\ db[t].project = project
                         /\ db[t].state = "ready"
                         /\ Pending(t) = {}

Owner(key) == {pair[2] : pair \in {q \in responses : q[1] = key}}
RefsOf(r) == {historyScope(key, requests[r].thread) : key \in continuationRefs(requests[r].body)}

MayClaim(t, keys) == \A key \in keys : Owner(key) \subseteq {t}
Claim(t, keys) == responses' = responses \cup {<<key, t>> : key \in keys}

\* BeginWithInputs.  Variant: a reference needs an owner, no matter whom.
MayBeginOwned(r, t) ==
  /\ Ready(sessions, t, proc.project)
  /\ \A key \in RefsOf(r) : Owner(key) # {}
  /\ MayClaim(t, inlineMessageIDs(requests[r].body))
MayBegin(r, t) ==
  /\ Ready(sessions, t, proc.project)
  /\ \A key \in RefsOf(r) : Owner(key) = {t}
  /\ MayClaim(t, inlineMessageIDs(requests[r].body))

\* Register and the insertion of BindHandoff.
Insert(t, slot) ==
  /\ sessions' = [sessions EXCEPT ![t] =
       [project |-> proc.project, slot |-> slot, state |-> "ready", request |-> None]]
  /\ bound' = [bound EXCEPT ![t] = vault[slot]]

-----------------------------------------------------------------------------
(* exec: one run of the CLI, from Open to Close.                           *)

Free == proc.pc = "none"
Alive == proc.pc \notin {"none", "logout"}

\* Load: the record must allow a resume, for this project.
Loadable(h, project) == /\ records[h].project = project /\ records[h].thread # None
                        /\ records[h].ready

ExecNew(h, project) ==
  /\ Free /\ records[h] = NoRecord
  /\ sessions' = Recovered
  /\ records' = [records EXCEPT ![h].project = project]
  /\ proc' = [NoProcess EXCEPT !.pc = "polling", !.handle = h, !.project = project]
  /\ UNCHANGED <<responses, handoffs, vault, requests, blocked, orphans, upstream, history>>

ExecResume(h, project) ==
  /\ Free /\ Loadable(h, project)
  /\ Ready(Recovered, records[h].thread, project)
  /\ sessions' = Recovered
  /\ proc' = [NoProcess EXCEPT !.pc = "polling", !.handle = h, !.project = project,
                               !.resume = records[h].thread]
  /\ UNCHANGED <<responses, handoffs, records, vault, requests, blocked, orphans, upstream, history>>

\* The reservation must be open and of this project; its Wiki is read as pinned.
ExecHandoff(h, x, project) ==
  /\ Free /\ records[h] = NoRecord
  /\ x.consumedBy = None /\ sessions[x.source].project = project
  /\ sessions' = Recovered
  /\ records' = [records EXCEPT ![h].project = project]
  /\ proc' = [NoProcess EXCEPT !.pc = "polling", !.handle = h, !.project = project,
                               !.handoff = x.id]
  /\ UNCHANGED <<responses, handoffs, vault, requests, blocked, orphans, upstream, history>>

\* A command that opens the database and is refused, or only reads it.
Refused ==
  /\ Free
  /\ sessions' = Recovered
  /\ UNCHANGED <<responses, handoffs, records, vault, memory, upstream, history>>

\* The first quota poll is in; a resumed conversation resolves; the record stops
\* being resumable before the CLI starts.
BeginKeeps == UNCHANGED records     \* Variant: Record.Begin is forgotten.
RecordBegin == records' = [records EXCEPT ![proc.handle].ready = FALSE]
Launch ==
  /\ proc.pc = "polling"
  /\ proc.resume # None => vault[sessions[proc.resume].slot] # None
  /\ RecordBegin
  /\ proc' = [proc EXCEPT !.pc = "running"]
  /\ UNCHANGED <<tables, vault, requests, blocked, orphans, upstream, history>>

\* thread.started: Binding.Started, by what the process was launched for.
Startable == proc.pc = "running" /\ proc.binding = "waiting"

\* A conversation is registered once.  Variant: its row is overwritten.
UnknownAny(t) == TRUE
Unknown(t) == sessions[t] = NoSession

\* Router.Register with Store.Register: only for a conversation nobody knows.
NewStarted(t, slot) ==
  /\ Startable /\ proc.resume = None /\ proc.handoff = None
  /\ vault[slot] # None
  /\ Unknown(t)
  /\ Insert(t, slot)
  /\ proc' = [proc EXCEPT !.binding = "bound", !.thread = t]
  /\ UNCHANGED <<responses, handoffs, records, vault, requests, blocked, orphans, upstream,
                 given, spoiled>>

ResumeStarted ==
  /\ Startable /\ proc.resume # None
  /\ Ready(sessions, proc.resume, proc.project)
  /\ vault[sessions[proc.resume].slot] # None
  /\ proc' = [proc EXCEPT !.binding = "bound", !.thread = proc.resume]
  /\ UNCHANGED <<tables, records, vault, requests, blocked, orphans, upstream, history>>

\* Store.BindHandoff.
Bindable(x, t) == /\ x.consumedBy = None /\ t # x.source
                  /\ sessions[x.source].project = proc.project
                  /\ sessions[x.source].state = "ready"
HandoffStarted(t, x) ==
  /\ Startable /\ proc.handoff = x.id
  /\ Bindable(x, t)
  /\ vault[x.target] # None
  /\ Unknown(t)
  /\ Insert(t, x.target)
  /\ handoffs' = (handoffs \ {x}) \cup {[x EXCEPT !.consumedBy = t]}
  /\ proc' = [proc EXCEPT !.binding = "bound", !.thread = t]
  /\ UNCHANGED <<responses, records, vault, requests, blocked, orphans, upstream, given, spoiled>>

\* Any failure of Started is final for the binding and ends the CLI.
StartFailed ==
  /\ Startable
  /\ proc' = [proc EXCEPT !.binding = "failed", !.pc = "failing"]
  /\ UNCHANGED <<tables, records, vault, requests, blocked, orphans, upstream, history>>

\* Record.Started: after the binding; requests may already be under way.
RecordStarted ==
  /\ proc.pc = "running" /\ proc.binding = "bound"
  /\ records' = [records EXCEPT ![proc.handle].thread = proc.thread]
  /\ proc' = [proc EXCEPT !.pc = "started"]
  /\ UNCHANGED <<tables, vault, requests, blocked, orphans, upstream, history>>

\* The CLI ends: by itself after a completed turn, or with an error or a signal.
CliEnds(good) ==
  /\ proc.pc \in {"running", "started"} /\ (good => proc.pc = "started")
  /\ proc' = [proc EXCEPT !.pc = IF good THEN "draining" ELSE "failing"]
  /\ UNCHANGED <<tables, records, vault, requests, blocked, orphans, upstream, history>>

\* Handlers get three seconds; then the store is asked and the record completed.
Completable == proc.pc = "draining" /\ Ready(sessions, proc.thread, proc.project)
Complete ==
  /\ Completable
  /\ records' = [records EXCEPT ![proc.handle].ready = TRUE]
  /\ proc' = [proc EXCEPT !.pc = "completed"]
  /\ UNCHANGED <<tables, vault, requests, blocked, orphans, upstream, history>>

Spoil == spoiled' = IF proc.pc \in {"running", "started", "draining", "failing"}
                    THEN spoiled \cup {proc.handle} ELSE spoiled

\* Close on the way out: a handler past Begin may still send before the exit.
Exit ==
  /\ proc.pc \in {"polling", "draining", "failing", "completed"}
  /\ orphans' = orphans \cup
       {[pc |-> "begun", thread |-> requests[r].thread, account |-> requests[r].account,
         refs |-> RefsOf(r)] :
          r \in {q \in Requests : requests[q].pc = "begun"}}
  /\ proc' = NoProcess /\ requests' = [r \in Requests |-> NoRequest] /\ blocked' = {}
  /\ Spoil
  /\ UNCHANGED <<tables, records, vault, upstream, bound, given>>

Crash ==
  /\ ~Free
  /\ proc' = NoProcess /\ requests' = [r \in Requests |-> NoRequest] /\ blocked' = {}
  /\ Spoil
  /\ UNCHANGED <<tables, records, vault, orphans, upstream, bound, given>>

OrphanSends(o) ==
  /\ o.pc = "begun"
  /\ orphans' = (orphans \ {o}) \cup {[o EXCEPT !.pc = "sent"]}
  /\ upstream' = [upstream EXCEPT ![o.thread] = [account |-> o.account, refs |-> o.refs]]
  /\ UNCHANGED <<tables, records, vault, proc, requests, blocked, history>>

OrphanEnds(o) ==
  /\ orphans' = orphans \ {o}
  /\ UNCHANGED <<tables, records, vault, proc, requests, blocked, upstream, history>>

-----------------------------------------------------------------------------
(* ServeHTTP of the persistent handler.                                    *)

\* A request carries the launcher's secret and names a conversation.
Arrive(r, t, body) ==
  /\ proc.pc \in {"running", "started"} /\ requests[r].pc = "none"
  /\ requests' = [requests EXCEPT ![r] = [NoRequest EXCEPT !.pc = "waiting", !.thread = t,
                                                           !.body = body]]
  /\ UNCHANGED <<tables, records, vault, proc, blocked, orphans, upstream, history>>

\* Binding.Resolve and Router.Resolve: the account of the conversation's slot.
Resolve(r) ==
  LET t == requests[r].thread IN
  /\ requests[r].pc = "waiting"
  /\ proc.binding = "bound" /\ t = proc.thread
  /\ Ready(sessions, t, proc.project)
  /\ vault[sessions[t].slot] # None
  /\ requests' = [requests EXCEPT ![r].pc = "resolved", ![r].slot = sessions[t].slot,
                                  ![r].account = vault[sessions[t].slot]]
  /\ UNCHANGED <<tables, records, vault, proc, blocked, orphans, upstream, history>>

\* Handler.begin.
Idle(t) == /\ t \notin blocked
           /\ \A q \in Requests : requests[q].thread = t =>
                                    requests[q].pc \notin {"reading", "begun", "sent"}
Admit(r) ==
  /\ requests[r].pc = "resolved" /\ Idle(requests[r].thread)
  /\ requests' = [requests EXCEPT ![r].pc = "reading"]
  /\ UNCHANGED <<tables, records, vault, proc, blocked, orphans, upstream, history>>

\* Not this launcher's, not ready in two seconds, busy, or gone.
Reject(r) ==
  /\ requests[r].pc \in {"waiting", "resolved"}
  /\ requests' = [requests EXCEPT ![r] = NoRequest]
  /\ UNCHANGED <<tables, records, vault, proc, blocked, orphans, upstream, history>>

\* Intent is durable before anything is sent.
Begin(r) ==
  LET t == requests[r].thread IN
  /\ requests[r].pc = "reading"
  /\ Supported(requests[r].body)
  /\ sessions[t].slot = requests[r].slot
  /\ MayBegin(r, t)
  /\ Claim(t, inlineMessageIDs(requests[r].body))
  /\ sessions' = [sessions EXCEPT ![t].state = "inflight", ![t].request = r]
  /\ requests' = [requests EXCEPT ![r].pc = "begun"]
  /\ UNCHANGED <<handoffs, records, vault, proc, blocked, orphans, upstream, history>>

\* finish(session, failed) of the handler's memory.
Gives(r) == /\ requests' = [requests EXCEPT ![r] = NoRequest]
            /\ blocked' = blocked \cup {requests[r].thread}

\* Refused after admission (body, shape, ownership): nothing durable happened.
Unbegun(r) ==
  /\ requests[r].pc = "reading"
  /\ Gives(r)
  /\ UNCHANGED <<tables, records, vault, proc, orphans, upstream, history>>

\* BeforeAttempt and RoundTrip.
Send(r) ==
  /\ requests[r].pc = "begun"
  /\ upstream' = [upstream EXCEPT ![requests[r].thread] =
                    [account |-> requests[r].account, refs |-> RefsOf(r)]]
  /\ requests' = [requests EXCEPT ![r].pc = "sent"]
  /\ UNCHANGED <<tables, records, vault, proc, blocked, orphans, history>>

Leased(r) == /\ sessions[requests[r].thread].state = "inflight"
             /\ sessions[requests[r].thread].request = r

\* A response that was validated to its end: Finish(success), before the client
\* sees the end of it.
FinishOk(r, answer) ==
  LET t == requests[r].thread
      keys == {historyScope(key, t) : key \in completedRefs(answer)}
  IN
  /\ requests[r].pc = "sent" /\ Leased(r)
  /\ MayClaim(t, keys)
  /\ Claim(t, keys)
  /\ sessions' = [sessions EXCEPT ![t].state = "ready", ![t].request = None]
  /\ given' = [given EXCEPT ![t] = @ \cup answer.output]
  /\ requests' = [requests EXCEPT ![r] = NoRequest]
  /\ UNCHANGED <<handoffs, records, vault, proc, blocked, orphans, upstream, bound, spoiled>>

\* Any other end: Finish(failure).
FinishFailed(r) ==
  LET t == requests[r].thread IN
  /\ requests[r].pc \in {"begun", "sent"} /\ Leased(r)
  /\ sessions' = [sessions EXCEPT ![t].state = "blocked", ![t].request = None]
  /\ Gives(r)
  /\ UNCHANGED <<responses, handoffs, records, vault, proc, orphans, upstream, history>>

\* The database refuses as well: intent stays for the next Open to find.
FinishLost(r) ==
  /\ requests[r].pc \in {"begun", "sent"}
  /\ Gives(r)
  /\ UNCHANGED <<tables, records, vault, proc, orphans, upstream, history>>

-----------------------------------------------------------------------------
(* handoff and account commands.                                           *)

\* handoff prepare: record, store, then the target.  The id is random.
Prepare(h, project, target, id) ==
  LET t == records[h].thread IN
  /\ Free /\ Loadable(h, project)
  /\ Ready(Recovered, t, project)
  /\ sessions[t].slot # target /\ vault[target] # None
  /\ \A x \in handoffs : x.id # id
  /\ sessions' = Recovered
  /\ handoffs' = handoffs \cup {[id |-> id, source |-> t, target |-> target,
                                 consumedBy |-> None, account |-> vault[target]]}
  /\ UNCHANGED <<responses, records, vault, memory, upstream, history>>

\* handoff cancel needs the source's record, ready or not.
Cancel(h, x) ==
  /\ Free /\ records[h].thread = x.source /\ x.consumedBy = None
  /\ sessions' = Recovered
  /\ handoffs' = handoffs \ {x}
  /\ UNCHANGED <<responses, records, vault, memory, upstream, history>>

\* account logout: InvalidateSlot, then the vault.
\* Variant: only reservations from the slot are dropped.
DroppedBySource(slot) == {x \in handoffs : x.consumedBy = None /\ sessions[x.source].slot = slot}
Dropped(slot) ==
  {x \in handoffs : x.consumedBy = None /\ (x.target = slot \/ sessions[x.source].slot = slot)}
Blocked(slot) ==
  [t \in Threads |-> IF sessions[t].slot = slot
     THEN [sessions[t] EXCEPT !.state = "blocked", !.request = None] ELSE Recovered[t]]

LogoutInvalidate(slot) ==
  /\ Free
  /\ sessions' = Blocked(slot)
  /\ handoffs' = handoffs \ Dropped(slot)
  /\ proc' = [NoProcess EXCEPT !.pc = "logout", !.slot = slot]
  /\ UNCHANGED <<responses, records, vault, requests, blocked, orphans, upstream, history>>

LogoutVault ==
  /\ proc.pc = "logout"
  /\ vault' = [vault EXCEPT ![proc.slot] = None]
  /\ proc' = NoProcess
  /\ UNCHANGED <<tables, records, requests, blocked, orphans, upstream, history>>

\* account login: into an empty slot, and not an account another slot has.
Login(slot, a) ==
  /\ proc.pc # "logout"
  /\ vault[slot] = None /\ \A s \in Slots : vault[s] # a
  /\ vault' = [vault EXCEPT ![slot] = a]
  /\ UNCHANGED <<tables, records, memory, upstream, history>>

-----------------------------------------------------------------------------
Exec == \/ \E h \in Handles, p \in Projects : \/ ExecNew(h, p)
                                              \/ ExecResume(h, p)
                                              \/ \E x \in handoffs : ExecHandoff(h, x, p)
        \/ Refused \/ Launch \/ ResumeStarted \/ StartFailed \/ RecordStarted
        \/ \E t \in Threads : \/ \E slot \in Slots : NewStarted(t, slot)
                              \/ \E x \in handoffs : HandoffStarted(t, x)
        \/ \E good \in BOOLEAN : CliEnds(good)
        \/ Complete \/ Exit \/ Crash
        \/ \E o \in orphans : OrphanSends(o) \/ OrphanEnds(o)

Serve == \E r \in Requests :
           \/ \E t \in Threads, body \in Bodies : Arrive(r, t, body)
           \/ Resolve(r) \/ Admit(r) \/ Reject(r) \/ Begin(r) \/ Unbegun(r) \/ Send(r)
           \/ \E answer \in Answers : FinishOk(r, answer)
           \/ FinishFailed(r) \/ FinishLost(r)

Manage == \/ \E h \in Handles, p \in Projects, slot \in Slots, id \in Reservations :
               Prepare(h, p, slot, id)
          \/ \E h \in Handles, x \in handoffs : Cancel(h, x)
          \/ \E slot \in Slots : LogoutInvalidate(slot) \/ \E a \in Accounts : Login(slot, a)
          \/ LogoutVault

Next == Exec \/ Serve \/ Manage

Spec == Init /\ [][Next]_vars

-----------------------------------------------------------------------------
(* What the database promises: Ownership.                                  *)

Claimed == UNION {inlineMessageIDs(body) : body \in Bodies}
Granted == UNION {completedRefs(answer) : answer \in Answers}
Keys == UNION {{historyScope(key, t) : t \in Threads} : key \in Claimed \cup Granted}

StageOf(t) == CASE sessions[t].state = "none" -> "none"
                [] sessions[t].state = "ready" -> "idle"
                [] sessions[t].state = "inflight" -> "running"
                [] sessions[t].state = "blocked" -> "closed"

\* Somebody has the turn of t, and came this far.
Carries(t, pc) == \/ \E r \in Requests : requests[r].thread = t /\ requests[r].pc = pc
                  \/ \E o \in orphans : o.thread = t /\ o.pc = pc
TurnOf(t) == IF Carries(t, "begun") THEN "asked" ELSE IF Carries(t, "sent") THEN "sent" ELSE "none"
OwnedBy(t) == {pair[1] : pair \in {q \in responses : q[2] = t}}

stageBar == [t \in Threads |-> StageOf(t)]
ownedBar == [t \in Threads |-> OwnedBy(t)]
turnBar  == [t \in Threads |-> TurnOf(t)]

Conversations == INSTANCE Ownership WITH
  NoAccount <- None, stage <- stageBar, account <- bound, owned <- ownedBar, turn <- turnBar

\* Every behaviour of the commands and handlers on the database, with processes
\* that die anywhere, is one of Ownership: a conversation keeps the account it was
\* started with whatever logs in and out of its slot, a turn goes out at most once
\* and only with ids of its own, and what broke off stays closed.
Implements == Conversations!Spec

\* A record whose run broke off is never resumed: no CLI runs on it again.
SpoiledNeverRuns == Alive => proc.handle \notin spoiled

\* No two records lead to one conversation, and a record that may be resumed leads
\* to one that the database knows for the same project.
RecordsFaithful ==
  /\ \A h, g \in Handles : h # g /\ records[h].thread # None => records[h].thread # records[g].thread
  /\ \A h \in Handles : records[h].ready =>
       /\ records[h].thread # None
       /\ sessions[records[h].thread].project = records[h].project

\* A handoff is frozen and exact: while it is open nothing of its source is under
\* way and its target slot still holds the account it was prepared for; once used,
\* the new conversation is of that account, not the source's, and of its project.
HandoffExact ==
  /\ \A x \in handoffs : x.consumedBy = None =>
       /\ sessions[x.source].state # "inflight" /\ TurnOf(x.source) = "none"
       /\ vault[x.target] = x.account
       /\ bound[x.source] # x.account
  /\ \A x \in handoffs : x.consumedBy # None =>
       /\ bound[x.consumedBy] = x.account /\ bound[x.source] # x.account
       /\ sessions[x.consumedBy].project = sessions[x.source].project
  /\ \A x, y \in handoffs :
       /\ x # y /\ x.consumedBy # None => x.consumedBy # y.consumedBy
       /\ x # y /\ x.source = y.source => x.consumedBy # None \/ y.consumedBy # None

\* Whatever the contract knows of what a completed response gave a conversation,
\* the CLI may send back as history, with or without its id, and a call's result
\* too: every reference it then makes is the conversation's own.
HistoryReplays ==
  \A t \in Threads : \A item \in given[t] : \A echo \in Echoes(item) :
    item.kind \in Contracted =>
      \A key \in ItemRefs(echo) : <<historyScope(key, t), t>> \in responses

-----------------------------------------------------------------------------
(* Why they hold: an inductive invariant.                                   *)

NoBody == NoRequest.body
States == {"none", "ready", "inflight", "blocked"}
Places == {"none", "polling", "running", "started", "draining", "failing", "completed", "logout"}
Session == [project : Projects \cup {None}, slot : Slots \cup {None}, state : States,
            request : Requests \cup {None}]
Record  == [project : Projects \cup {None}, thread : Threads \cup {None}, ready : BOOLEAN]
Process == [pc : Places, handle : Handles \cup {None}, project : Projects \cup {None},
            resume : Threads \cup {None}, handoff : Reservations \cup {None},
            binding : {"waiting", "bound", "failed"}, thread : Threads \cup {None},
            slot : Slots \cup {None}]
Request == [pc : {"none", "waiting", "resolved", "reading", "begun", "sent"},
            thread : Threads \cup {None}, account : Accounts \cup {None},
            slot : Slots \cup {None}, body : Bodies \cup {NoBody}]
Handoff == [id : Reservations, source : Threads, target : Slots,
            consumedBy : Threads \cup {None}, account : Accounts]
Orphan  == [pc : {"begun", "sent"}, thread : Threads, account : Accounts \cup {None},
            refs : SUBSET Keys]

\* Every variable keeps its type.
TypeOK ==
  /\ sessions \in [Threads -> Session]
  /\ responses \subseteq Keys \X Threads
  /\ handoffs \subseteq Handoff
  /\ records \in [Handles -> Record]
  /\ vault \in [Slots -> Accounts \cup {None}]
  /\ proc \in Process
  /\ requests \in [Requests -> Request]
  /\ blocked \subseteq Threads
  /\ orphans \subseteq Orphan
  /\ bound \in [Threads -> Accounts \cup {None}]
  /\ DOMAIN upstream = Threads /\ DOMAIN given = Threads
  /\ spoiled \subseteq Handles

Known(t) == sessions[t].state # "none"

\* A conversation that is not closed has its account in its slot: a logout closes
\* it before the slot is emptied, and no account is in two slots.
AccountsInPlace ==
  /\ \A t \in Threads :
       /\ ~Known(t) => sessions[t] = NoSession
       /\ Known(t) => sessions[t].project \in Projects /\ sessions[t].slot \in Slots
                       /\ bound[t] \in Accounts
       /\ sessions[t].state \in {"ready", "inflight"} => vault[sessions[t].slot] = bound[t]
  /\ \A s, u \in Slots : vault[s] # None /\ vault[s] = vault[u] => s = u
  /\ proc.pc = "logout" => proc.slot \in Slots /\ \A t \in Threads :
       sessions[t].slot = proc.slot => sessions[t].state = "blocked"

\* Handlers live in a run and are about its conversation; who is past Begin has
\* the intent of that conversation, its account, and references it owns.
HandlerHeld(r) ==
  /\ requests[r].pc = "none" => requests[r] = NoRequest
  /\ requests[r].pc # "none" => requests[r].thread \in Threads
  /\ requests[r].pc \in {"resolved", "reading", "begun", "sent"} =>
       Known(requests[r].thread) /\ requests[r].account = bound[requests[r].thread]
  /\ requests[r].pc \in {"begun", "sent"} =>
       Leased(r) /\ \A key \in RefsOf(r) : <<key, requests[r].thread>> \in responses
IntentHeld ==
  /\ proc.pc \in {"none", "logout", "polling"} => \A r \in Requests : requests[r] = NoRequest
  /\ \A r \in Requests : HandlerHeld(r)

\* What is left of a turn after its process closed the database belongs to a
\* conversation that no process will go on with.
OrphansClosed ==
  /\ \A o \in orphans :
       /\ sessions[o.thread].state \in (IF Free THEN {"inflight", "blocked"} ELSE {"blocked"})
       /\ o.account = bound[o.thread]
       /\ \A key \in o.refs : <<key, o.thread>> \in responses
  /\ \A o, n \in orphans : o.thread = n.thread => o = n

\* An id has one owner.
OneOwner == \A p, q \in responses : p[1] = q[1] => p[2] = q[2]

\* A run works on its own record, of its project, which is not resumable until the
\* run completed it; its conversation is in no other record.
RunRecorded ==
  /\ \A h \in Handles : records[h].thread # None => Known(records[h].thread)
  /\ \A h \in spoiled : records[h].project # None /\ ~records[h].ready
  /\ Alive =>
       /\ proc.handle \in Handles /\ proc.project \in Projects
       /\ records[proc.handle].project = proc.project
       /\ proc.pc \in {"polling", "running"} /\ proc.resume # None =>
            records[proc.handle].thread = proc.resume
       /\ proc.pc \in {"running", "started", "draining", "failing"} => ~records[proc.handle].ready
       /\ proc.binding = "bound" =>
            /\ proc.thread # None /\ Known(proc.thread)
            /\ \A g \in Handles : records[g].thread = proc.thread => g = proc.handle
       /\ proc.pc \in {"started", "draining"} =>
            proc.binding = "bound" /\ records[proc.handle].thread = proc.thread

\* The source of an open handoff rests, and its target keeps the account; who took
\* a handoff is known.
HandoffsFrozen ==
  /\ \A x \in handoffs : x.consumedBy = None =>
       /\ sessions[x.source].state = "ready"
       /\ proc.pc = "logout" => x.target # proc.slot
  /\ \A x \in handoffs : Known(x.source) /\ (x.consumedBy # None => Known(x.consumedBy))

\* The inductive invariant behind the properties above.
IInv == /\ TypeOK /\ AccountsInPlace /\ IntentHeld /\ OrphansClosed /\ OneOwner
        /\ RunRecorded /\ HandoffsFrozen
        /\ SpoiledNeverRuns /\ RecordsFaithful /\ HandoffExact /\ HistoryReplays
=============================================================================

---------------------------- MODULE Coordinator ----------------------------
(***************************************************************************)
(* The coordinator of the daemon (multiprobe.go): it owns up to five       *)
(* connections, tells each what to do through a command queue, learns what *)
(* they did from one event queue, and stops all of them or deletes one in  *)
(* two phases.  The connections share one activity lease (sharedTurns of   *)
(* multishared.go), and one of them, the primary, polls the usage.         *)
(*                                                                         *)
(* A connection is what the coordinator depends on (Connection.tla is the  *)
(* detail): whether work is open, the freeze of prepare_shutdown, and its  *)
(* checkpoint.  Its revision counts what the UI has not seen, and a home   *)
(* (CODEX_HOME) is made for every connection that starts from nothing.     *)
(* Usage commands are numbered as they come from the UI.                   *)
(***************************************************************************)
EXTENDS Integers, Sequences, FiniteSets

CONSTANTS Limit,        \* probeConnectionLimit
          MaxCommands,  \* commands of the UI, except
          MaxUsage,     \* usage and account notices
          MaxTurns,     \* turns of the connections
          MaxHomes,     \* homes that may be made
          MaxFaults     \* failures of a connection and ends of the daemon

ASSUME CoordinatorAssumption ==
  /\ Limit \in Nat \ {0}
  /\ MaxCommands \in Nat /\ MaxUsage \in Nat /\ MaxTurns \in Nat
  /\ MaxHomes \in Nat /\ MaxFaults \in Nat

Ids == 1..Limit
NoId == 0

VARIABLES up,             \* the daemon runs
          connections, primary, selected, activate,
          phase, removing, retire, prepared, refused, aborted, acknowledged, ended,
          deferredUsage,
          view,           \* the last ready and state event of each connection
          events, inbox,  \* to the coordinator; to each connection
          proc,           \* the running connections
          catalog,        \* their directories and checkpoints
          nextHome,
          lease, turns,   \* holder of the activity lock; sharedTurns.count
          asked,          \* what the user confirmed to delete
          dead,           \* homes of deleted and retired connections
          accepted, handled, \* usage commands: taken from the UI, carried out
          commands, worked, faults

shutdown == <<prepared, refused, aborted, acknowledged, ended, retire>>
service  == <<connections, primary, selected, activate, phase, removing, shutdown, deferredUsage, view>>
workers  == <<proc, catalog, nextHome, turns, dead, worked>>
vars == <<up, service, events, inbox, workers, lease, asked, accepted, handled, commands, faults>>

Off     == [run |-> "off", busy |-> FALSE, prepared |-> FALSE, usage |-> FALSE]
Unseen  == [home |-> 0, rev |-> 0]
Nowhere == [dir |-> FALSE, home |-> 0, rev |-> 0, deleted |-> FALSE]
NoQuestion == [id |-> NoId, home |-> 0, rev |-> 0]

First(S) == CHOOSE i \in S : \A j \in S : i <= j
Send(i, c) == inbox' = [inbox EXCEPT ![i] = Append(@, c)]
SendAll(c) == inbox' = [i \in Ids |-> IF i \in connections THEN Append(inbox[i], c[i])
                                      ELSE inbox[i]]

-----------------------------------------------------------------------------
(* Starting and ending the daemon.                                         *)

Starting(isPrimary) == [Off EXCEPT !.run = "starting", !.usage = isPrimary]

\* What is started again: connection 1, whose directory always exists, and the
\* other directories, unless they say deleted.
Recoverable == {i \in Ids : (i = 1 \/ catalog[i].dir) /\ ~catalog[i].deleted}

\* The memory of a coordinator of the connections in S, the first of them primary.
Fresh(S) ==
  /\ connections' = S /\ activate' = {}
  /\ primary' = (IF S = {} THEN NoId ELSE First(S))
  /\ selected' = primary'
  /\ phase' = "open" /\ removing' = NoId /\ retire' = NoId
  /\ prepared' = {} /\ refused' = {} /\ aborted' = {} /\ acknowledged' = {} /\ ended' = {}
  /\ deferredUsage' = <<>> /\ accepted' = <<>> /\ handled' = <<>>
  /\ view' = [i \in Ids |-> Unseen]
  /\ events' = <<>> /\ inbox' = [i \in Ids |-> <<>>]
  /\ proc' = [i \in Ids |-> IF i \in S THEN Starting(i = First(S)) ELSE Off]

\* Every directory found is started, or an empty connection 1.
Restart ==
  LET S == IF Recoverable = {} THEN {1} ELSE Recoverable
  IN
  /\ ~up
  /\ up' = TRUE
  /\ Fresh(S)
  /\ catalog' = [i \in Ids |-> IF i \in S THEN [catalog[i] EXCEPT !.dir = TRUE] ELSE catalog[i]]
  /\ UNCHANGED <<nextHome, turns, dead, worked, lease, asked, commands, faults>>

\* The coordinator returns, on an error or not: every connection is stopped and
\* waited for, and the lease for the shutdown is closed.  A crash does the same.
Return ==
  /\ up' = FALSE
  /\ Fresh({})
  /\ turns' = 0
  /\ lease' = IF lease = "account" THEN lease ELSE "none"
  /\ UNCHANGED <<catalog, nextHome, dead, worked, asked, commands>>

Fault == faults < MaxFaults /\ faults' = faults + 1

Crash == up /\ Fault /\ Return

-----------------------------------------------------------------------------
(* Commands of the UI.  While a shutdown or deletion is under way all are    *)
(* refused or ignored, except usage commands during a deletion.              *)

Taken == /\ up /\ commands < MaxCommands
         /\ commands' = commands + 1

\* The user is shown the selected connection and asked to confirm; the app waits
\* for the result of one deletion before it asks for another.  (Not after the
\* last of MaxCommands, when no answer could follow.)
Confirm ==
  /\ up /\ commands < MaxCommands /\ removing = NoId /\ selected # NoId
  /\ view[selected].home # 0 /\ view[selected].rev # 0
  /\ asked' = [id |-> selected, home |-> view[selected].home, rev |-> view[selected].rev]
  /\ asked' # asked
  /\ UNCHANGED <<up, service, events, inbox, workers, lease, accepted, handled, commands, faults>>

Deletable == /\ asked.id \in connections /\ asked.id = selected
             /\ asked.home = view[asked.id].home /\ asked.rev = view[asked.id].rev

\* connection_delete, when the answer of the user arrives.
Delete ==
  /\ Taken /\ phase = "open" /\ asked # NoQuestion /\ Deletable
  /\ phase' = "delete_prepare" /\ removing' = asked.id
  /\ Send(asked.id, [do |-> "prepare_delete", rev |-> asked.rev])
  /\ UNCHANGED <<up, connections, primary, selected, activate, shutdown, deferredUsage, view,
                 events, workers, lease, asked, accepted, handled, faults>>

\* launch: the directory first, then the connection.
Create ==
  /\ Taken /\ phase = "open" /\ Ids \ connections # {}
  /\ LET i == First(Ids \ connections)
     IN /\ connections' = connections \cup {i}
        /\ activate' = activate \cup {i}
        /\ catalog' = [catalog EXCEPT ![i].dir = TRUE]
        /\ proc' = [proc EXCEPT ![i] = Starting(FALSE)]
        /\ view' = [view EXCEPT ![i] = Unseen]
        /\ inbox' = [inbox EXCEPT ![i] = <<>>]
  /\ UNCHANGED <<up, primary, selected, phase, removing, shutdown, deferredUsage, events,
                 nextHome, turns, dead, worked, lease, asked, accepted, handled, faults>>

Select(i) ==
  /\ Taken /\ phase = "open"
  /\ i \in connections \ {selected} /\ view[i].home # 0 /\ view[i].rev # 0
  /\ selected' = i
  /\ UNCHANGED <<up, connections, primary, activate, phase, removing, shutdown, deferredUsage, view,
                 events, inbox, workers, lease, asked, accepted, handled, faults>>

\* select, recover or abandon_turn, passed to the selected connection.
Forward ==
  /\ Taken /\ phase = "open" /\ selected \in connections
  /\ Send(selected, [do |-> "decide", rev |-> 0])
  /\ UNCHANGED <<up, service, events, workers, lease, asked, accepted, handled, faults>>

\* shutdown, with the session of one connection to be retired or (0) none.
Shutdown(r) ==
  /\ Taken /\ phase = "open" /\ r \in connections \cup {NoId}
  /\ phase' = "prepare" /\ retire' = r
  /\ prepared' = {} /\ refused' = {} /\ aborted' = {} /\ acknowledged' = {} /\ ended' = {}
  /\ SendAll([i \in Ids |-> [do |-> "prepare", rev |-> 0]])
  /\ UNCHANGED <<up, connections, primary, selected, activate, removing, deferredUsage, view,
                 events, workers, lease, asked, accepted, handled, faults>>

\* usage, usage_refresh, account_changing and account_changed go to the primary;
\* during a deletion they are kept; during a shutdown they are dropped.
Usage ==
  LET n == Len(accepted) + 1
  IN
  /\ up /\ n <= MaxUsage
  /\ phase = "open" \/ removing # NoId
  /\ accepted' = Append(accepted, n)
  /\ IF removing = NoId
     THEN Send(primary, [do |-> "usage", rev |-> n]) /\ UNCHANGED deferredUsage
     ELSE deferredUsage' = Append(deferredUsage, n) /\ UNCHANGED inbox
  /\ UNCHANGED <<up, connections, primary, selected, activate, phase, removing, shutdown, view,
                 events, workers, lease, asked, handled, commands, faults>>

\* status asks every connection to report.
Status ==
  /\ Taken /\ phase = "open"
  /\ SendAll([i \in Ids |-> [do |-> "status", rev |-> 0]])
  /\ UNCHANGED <<up, service, events, workers, lease, asked, accepted, handled, faults>>

-----------------------------------------------------------------------------
(* Events of the connections, taken one at a time.                         *)

Event(i, kind, ok, n) == [id |-> i, kind |-> kind, ok |-> ok, n |-> n]

Takes(kind) == up /\ events # <<>> /\ Head(events).kind = kind
Drop == events' = Tail(events)
\* What no handler of an event below changes.
Beside == <<up, turns, dead, worked, nextHome, asked, accepted, handled, commands, faults>>

Ready ==
  /\ Takes("ready") /\ Drop
  /\ view' = [view EXCEPT ![Head(events).id].home = Head(events).n]
  /\ UNCHANGED <<Beside, connections, primary, selected, activate, phase, removing, shutdown,
                 deferredUsage, inbox, proc, catalog, lease>>

\* A connection created on request is shown when it first reports.
State ==
  LET i == Head(events).id
  IN
  /\ Takes("state") /\ Drop
  /\ view' = [view EXCEPT ![i].rev = Head(events).n]
  /\ activate' = activate \ {i}
  /\ selected' = IF i \in activate THEN i ELSE selected
  /\ UNCHANGED <<Beside, connections, primary, phase, removing, shutdown, deferredUsage, inbox,
                 proc, catalog, lease>>

\* The answer to the first phase of a deletion.
PreparedDelete ==
  LET ok == Head(events).ok
  IN
  /\ Takes("prepared") /\ Drop
  /\ phase = "delete_prepare" /\ Head(events).id = removing
  /\ phase' = IF ok THEN "delete_commit" ELSE "delete_abort"
  /\ acknowledged' = IF ok THEN {} ELSE acknowledged
  /\ Send(removing, [do |-> IF ok THEN "delete" ELSE "abort", rev |-> 0])
  /\ UNCHANGED <<Beside, connections, primary, selected, activate, removing, prepared, refused,
                 aborted, ended, retire, deferredUsage, view, proc, catalog, lease>>

AgreedSome(yes, no) == yes # {}   \* Variant: one connection speaks for all.
Agreed(yes, no) == no = {}

\* An answer to the first phase of a shutdown.  After the last, all go on to
\* the second phase if all agreed and no account command runs; otherwise every
\* connection is told to take requests again.
PreparedShutdown ==
  LET i   == Head(events).id
      yes == IF Head(events).ok THEN prepared \cup {i} ELSE prepared
      no  == IF Head(events).ok THEN refused ELSE refused \cup {i}
      go  == Agreed(yes, no) /\ lease = "none"
  IN
  /\ Takes("prepared") /\ Drop
  /\ phase = "prepare"
  /\ prepared' = yes /\ refused' = no
  /\ IF yes \cup no # connections THEN UNCHANGED <<phase, lease, inbox>>
     ELSE /\ phase' = IF go THEN "commit" ELSE "abort"
          /\ lease' = IF go THEN "shutdown" ELSE lease
          /\ SendAll([j \in Ids |-> [do |-> IF ~go THEN "abort"
                                           ELSE IF j = retire THEN "retire" ELSE "stop",
                                    rev |-> 0]])
  /\ UNCHANGED <<Beside, connections, primary, selected, activate, removing, aborted, acknowledged,
                 ended, retire, deferredUsage, view, proc, catalog>>

Notices(S) == [k \in 1..Len(S) |-> [do |-> "usage", rev |-> S[k]]]
flushUsageNot(q) == q   \* Variant: forgotten.
\* The queue of the primary with the usage commands kept back.
flushUsage(q) == q \o Notices(deferredUsage)

\* A refused deletion is over.
AbortedDelete ==
  /\ Takes("aborted") /\ Drop
  /\ phase = "delete_abort" /\ Head(events).id = removing
  /\ phase' = "open" /\ removing' = NoId
  /\ deferredUsage' = <<>>
  /\ inbox' = [inbox EXCEPT ![primary] = flushUsage(@)]
  /\ UNCHANGED <<Beside, connections, primary, selected, activate, shutdown, view, proc, catalog,
                 lease>>

AllAborted(S) == S = connections

AbortedShutdown ==
  LET S == aborted \cup {Head(events).id}
  IN
  /\ Takes("aborted") /\ Drop
  /\ phase = "abort"
  /\ aborted' = S
  /\ phase' = IF AllAborted(S) THEN "open" ELSE phase
  /\ UNCHANGED <<Beside, connections, primary, selected, activate, removing, prepared, refused,
                 acknowledged, ended, retire, deferredUsage, view, inbox, proc, catalog, lease>>

Acknowledged ==
  /\ Takes("shutdown") /\ phase \in {"commit", "delete_commit"} /\ Head(events).ok
  /\ Drop
  /\ acknowledged' = acknowledged \cup {Head(events).id}
  /\ UNCHANGED <<Beside, connections, primary, selected, activate, phase, removing, prepared,
                 refused, aborted, ended, retire, deferredUsage, view, inbox, proc, catalog, lease>>

EndsDelete == /\ Takes("ended") /\ Head(events).ok
              /\ phase = "delete_commit" /\ Head(events).id = removing /\ removing \in acknowledged

\* The deleted connection is gone: the lowest of the others takes over the
\* usage if it had it, and an empty connection 1 follows the last.
EndedDelete ==
  LET rest == connections \ {removing}
      next == IF primary # removing THEN primary ELSE IF rest = {} THEN 1 ELSE First(rest)
      promoted == Append(inbox[next], [do |-> "usage_primary", rev |-> 0])
  IN
  /\ EndsDelete /\ Drop
  /\ primary' = next
  /\ phase' = "open" /\ removing' = NoId
  /\ deferredUsage' = <<>>
  /\ IF rest # {}
     THEN /\ connections' = rest /\ selected' = next /\ activate' = activate \ {removing}
          /\ inbox' = [inbox EXCEPT ![next] = flushUsage(IF next = primary THEN @ ELSE promoted)]
          /\ UNCHANGED <<proc, catalog, view>>
     ELSE /\ connections' = {1} /\ selected' = NoId /\ activate' = {1}
          /\ inbox' = [inbox EXCEPT ![1] = flushUsage(<<>>)]
          /\ proc' = [proc EXCEPT ![1] = Starting(TRUE)]
          /\ catalog' = [catalog EXCEPT ![1].dir = TRUE]
          /\ view' = [view EXCEPT ![1] = Unseen]
  /\ UNCHANGED <<Beside, shutdown, lease>>

\* The end of a connection in the second phase of a shutdown; the coordinator
\* returns after the last.
EndedShutdown ==
  /\ Takes("ended") /\ Head(events).ok /\ phase = "commit" /\ Drop
  /\ ended' = ended \cup {Head(events).id}
  /\ ended' # connections
  /\ UNCHANGED <<Beside, connections, primary, selected, activate, phase, removing, prepared,
                 refused, aborted, acknowledged, retire, deferredUsage, view, inbox, proc,
                 catalog, lease>>

ShutdownOver ==
  /\ Takes("ended") /\ Head(events).ok /\ phase = "commit"
  /\ ended \cup {Head(events).id} = connections
  /\ Return /\ UNCHANGED faults

\* errDaemon: a connection ended by itself or refused to stop.
Broken ==
  /\ \/ Takes("ended") /\ ~EndsDelete /\ ~(Head(events).ok /\ phase = "commit")
     \/ Takes("shutdown") /\ ~(phase \in {"commit", "delete_commit"} /\ Head(events).ok)
  /\ Return /\ UNCHANGED faults

-----------------------------------------------------------------------------
(* A connection.                                                           *)

Report(more) == events' = events \o more
Elsewhere == <<up, service, asked, accepted, commands, faults>>

\* sharedTurns.begin: the first turn takes the activity lock, or fails.
beginTurn == /\ turns > 0 \/ lease = "none"
             /\ lease' = "turns" /\ turns' = turns + 1
\* Variant: every end of a turn gives the lock back.
closeTurnEarly == lease' = "none" /\ turns' = turns - 1
\* sharedTurn.Close: the last turn gives it back.
closeTurn == /\ turns' = turns - 1
             /\ lease' = IF turns' = 0 THEN "none" ELSE lease

Bump(i) == catalog' = [catalog EXCEPT ![i].rev = @ + 1]

FromNothingOnly(i) == catalog[i].home = 0   \* Variant: Deleted is not looked at.
\* No checkpoint, a retired session, or a deleted connection whose number is reused.
FromNothing(i) == catalog[i].home = 0 \/ catalog[i].deleted

\* A start from nothing makes a new home; otherwise the saved one and its next
\* revision are used.  The checkpoint comes first.
StartUp(i) ==
  LET new == FromNothing(i)
      c   == IF new THEN [dir |-> TRUE, home |-> nextHome, rev |-> 1, deleted |-> FALSE]
             ELSE [catalog[i] EXCEPT !.rev = @ + 1]
  IN
  /\ proc[i].run = "starting"
  /\ new => nextHome <= MaxHomes
  /\ nextHome' = IF new THEN nextHome + 1 ELSE nextHome
  /\ catalog' = [catalog EXCEPT ![i] = c]
  /\ proc' = [proc EXCEPT ![i].run = "on"]
  /\ Report(<<Event(i, "ready", TRUE, c.home), Event(i, "state", TRUE, c.rev)>>)
  /\ UNCHANGED <<Elsewhere, inbox, turns, dead, worked, lease, handled>>

\* A request is admitted; work stays open until the turn is over.
TurnBegin(i) ==
  /\ proc[i].run = "on" /\ ~proc[i].busy /\ ~proc[i].prepared
  /\ worked < MaxTurns /\ worked' = worked + 1
  /\ beginTurn
  /\ proc' = [proc EXCEPT ![i].busy = TRUE]
  /\ Bump(i)
  /\ Report(<<Event(i, "state", TRUE, catalog[i].rev + 1)>>)
  /\ UNCHANGED <<Elsewhere, inbox, nextHome, dead, handled>>

TurnEnd(i) ==
  /\ proc[i].run = "on" /\ proc[i].busy
  /\ closeTurn
  /\ proc' = [proc EXCEPT ![i].busy = FALSE]
  /\ Bump(i)
  /\ Report(<<Event(i, "state", TRUE, catalog[i].rev + 1)>>)
  /\ UNCHANGED <<Elsewhere, inbox, nextHome, dead, worked, handled>>

\* The next command, taken in order.
Obeys(i, what) == /\ proc[i].run = "on"
                  /\ inbox[i] # <<>> /\ Head(inbox[i]).do \in what
                  /\ inbox' = [inbox EXCEPT ![i] = Tail(@)]

PrepareOkStale(i) == ~proc[i].busy   \* Variant: the revision is not looked at.
\* Nothing is open, and a deletion was confirmed for this very state.
PrepareOk(i) == /\ ~proc[i].busy
                /\ Head(inbox[i]).do = "prepare_delete" => Head(inbox[i]).rev = catalog[i].rev

ObeyPrepare(i) ==
  /\ Obeys(i, {"prepare", "prepare_delete"})
  /\ proc' = [proc EXCEPT ![i].prepared = PrepareOk(i)]
  /\ Report(<<Event(i, "prepared", PrepareOk(i), 0)>>)
  /\ UNCHANGED <<Elsewhere, catalog, nextHome, turns, dead, worked, lease, handled>>

\* Variant: a connection that had refused has nothing to answer.
AbortReplyPrepared(i) == IF proc[i].prepared THEN <<Event(i, "aborted", TRUE, 0)>> ELSE <<>>
AbortReply(i) == <<Event(i, "aborted", TRUE, 0)>>

ObeyAbort(i) ==
  /\ Obeys(i, {"abort"})
  /\ proc' = [proc EXCEPT ![i].prepared = FALSE]
  /\ Report(AbortReply(i))
  /\ UNCHANGED <<Elsewhere, catalog, nextHome, turns, dead, worked, lease, handled>>

\* The second phase: the checkpoint says deleted or retired before the answer.
ObeyShutdown(i) ==
  LET do == Head(inbox[i]).do
      ok == ~proc[i].busy /\ (do = "delete" => proc[i].prepared)
  IN
  /\ Obeys(i, {"stop", "retire", "delete"})
  /\ IF ok
     THEN /\ proc' = [proc EXCEPT ![i].run = "closing"]
          /\ catalog' = [catalog EXCEPT ![i].deleted = (do = "delete"),
                                        ![i].home = IF do = "retire" THEN 0 ELSE @]
          /\ dead' = IF do = "stop" THEN dead ELSE dead \cup {catalog[i].home}
     ELSE UNCHANGED <<proc, catalog, dead>>
  /\ Report(<<Event(i, "shutdown", ok, 0)>>)
  /\ UNCHANGED <<Elsewhere, nextHome, turns, worked, lease, handled>>

\* startUsage, and what is left to the primary's monitor.
ObeyUsage(i) ==
  LET c == Head(inbox[i])
  IN
  /\ Obeys(i, {"usage_primary", "usage"})
  /\ IF c.do = "usage" THEN handled' = Append(handled, c.rev) /\ UNCHANGED proc
     ELSE proc' = [proc EXCEPT ![i].usage = TRUE] /\ UNCHANGED handled
  /\ UNCHANGED <<Elsewhere, events, catalog, nextHome, turns, dead, worked, lease>>

\* Refused, or between turns an account chosen, or an open tool turn given up.
ObeyDecision(i, ok) ==
  /\ Obeys(i, {"decide"})
  /\ IF ok /\ proc[i].busy THEN proc' = [proc EXCEPT ![i].busy = FALSE] /\ closeTurn
     ELSE UNCHANGED <<proc, turns, lease>>
  /\ IF ok THEN Bump(i) ELSE UNCHANGED catalog
  /\ Report(<<Event(i, "state", TRUE, catalog'[i].rev)>>)
  /\ UNCHANGED <<Elsewhere, nextHome, dead, worked, handled>>

ObeyStatus(i) ==
  /\ Obeys(i, {"status"})
  /\ Report(<<Event(i, "state", TRUE, catalog[i].rev)>>)
  /\ UNCHANGED <<Elsewhere, proc, catalog, nextHome, turns, dead, worked, lease, handled>>

\* Variant: the usage worker is left running.
LeavePolling(i) ==
  /\ proc[i].run = "closing"
  /\ proc' = [proc EXCEPT ![i] = [Off EXCEPT !.usage = proc[i].usage]]
  /\ Report(<<Event(i, "ended", TRUE, 0)>>)
  /\ UNCHANGED <<Elsewhere, inbox, catalog, nextHome, turns, dead, worked, lease, handled>>

\* The probe returns once its handlers and its usage worker have ended.
Leave(i) ==
  /\ proc[i].run = "closing"
  /\ proc' = [proc EXCEPT ![i] = Off]
  /\ Report(<<Event(i, "ended", TRUE, 0)>>)
  /\ UNCHANGED <<Elsewhere, inbox, catalog, nextHome, turns, dead, worked, lease, handled>>

\* It cannot start or cannot write its checkpoint, and returns that error.
Fail(i) ==
  /\ proc[i].run \in {"starting", "on"} /\ Fault
  /\ proc' = [proc EXCEPT ![i] = Off]
  /\ IF proc[i].busy THEN closeTurn ELSE UNCHANGED <<turns, lease>>
  /\ Report(<<Event(i, "ended", FALSE, 0)>>)
  /\ UNCHANGED <<up, service, asked, accepted, commands, inbox, catalog, nextHome, dead, worked, handled>>

-----------------------------------------------------------------------------
\* Another process logs an account in or out under the activity lock.
Account ==
  /\ up
  /\ \/ lease = "none" /\ lease' = "account"
     \/ lease = "account" /\ lease' = "none"
  /\ UNCHANGED <<up, service, events, inbox, workers, asked, accepted, handled, commands, faults>>

\* What a daemon may find: nothing, or the connections of an earlier one, of
\* which connection 1 may have been deleted.
Init ==
  \E found \in SUBSET Ids :
    LET S    == IF found = {} THEN {1} ELSE found
        gone == IF 1 \in S THEN {} ELSE {1}
    IN
    /\ up = TRUE
    /\ connections = S /\ primary = First(S) /\ selected = First(S) /\ activate = {}
    /\ phase = "open" /\ removing = NoId /\ retire = NoId
    /\ prepared = {} /\ refused = {} /\ aborted = {} /\ acknowledged = {} /\ ended = {}
    /\ deferredUsage = <<>> /\ accepted = <<>> /\ handled = <<>>
    /\ view = [i \in Ids |-> Unseen]
    /\ events = <<>> /\ inbox = [i \in Ids |-> <<>>]
    /\ proc = [i \in Ids |-> IF i \in S THEN Starting(i = First(S)) ELSE Off]
    /\ catalog = [i \in Ids |->
         IF i \in found \cup gone
         THEN [dir |-> TRUE, home |-> i, rev |-> 1, deleted |-> i \in gone]
         ELSE [Nowhere EXCEPT !.dir = (i \in S)]]
    /\ nextHome = Limit + 1 /\ lease = "none" /\ turns = 0
    /\ asked = NoQuestion /\ dead = gone
    /\ commands = 0 /\ worked = 0 /\ faults = 0

UI == \/ Confirm \/ Delete \/ Create \/ Forward \/ Usage \/ Status
      \/ \E i \in Ids : Select(i)
      \/ \E r \in Ids \cup {NoId} : Shutdown(r)

\* The loop of the coordinator, as far as it serves its connections.
Serve == \/ Ready \/ State \/ PreparedDelete \/ PreparedShutdown \/ AbortedDelete
         \/ AbortedShutdown \/ Acknowledged \/ EndedDelete \/ EndedShutdown \/ ShutdownOver
         \/ Broken

\* What a connection does by itself with a command or at its start and end.
Obey(i) == \/ StartUp(i) \/ ObeyPrepare(i) \/ ObeyAbort(i) \/ ObeyShutdown(i) \/ ObeyUsage(i)
           \/ \E ok \in BOOLEAN : ObeyDecision(i, ok)
           \/ ObeyStatus(i) \/ Leave(i)

Next == \/ UI \/ Serve \/ Crash \/ Restart \/ Account
        \/ \E i \in Ids : Obey(i) \/ TurnBegin(i) \/ TurnEnd(i) \/ Fail(i)

Spec == Init /\ [][Next]_vars

\* The loops of the coordinator and of the connections are scheduled.
FairSpec == Spec /\ WF_vars(Serve) /\ \A i \in Ids : WF_vars(Obey(i))

-----------------------------------------------------------------------------
(* Properties.                                                             *)

\* A shutdown is all or nothing: in its second phase no connection has work open
\* or takes requests, and one that was refused, like a refused deletion, leaves no
\* connection frozen once commands are accepted again.
AllOrNothing ==
  /\ up /\ phase = "commit" =>
       \A i \in connections : proc[i].run # "off" => ~proc[i].busy /\ proc[i].prepared
  /\ up /\ phase = "open" => \A i \in Ids : ~proc[i].prepared

Promoted(i) == \E k \in DOMAIN inbox[i] : inbox[i][k].do = "usage_primary"
\* A connection ended by itself and the coordinator has not seen it yet.
Doomed == \E k \in DOMAIN events : events[k].kind = "ended" /\ ~events[k].ok

\* A deleted connection is gone: no event of it is left that would find no entry,
\* and it does not poll the usage beside its successor.  Between deletions the
\* primary is the one that polls, or is about to be told.
DeletedIsGone ==
  /\ \A k \in DOMAIN events : events[k].id \in connections
  /\ \A i, j \in Ids : proc[i].usage /\ proc[j].usage => i = j
  /\ up /\ phase = "open" => proc[primary].usage \/ Promoted(primary) \/ Doomed

\* The usage commands in a queue, and that they are in order.
Usages(q) == {k \in DOMAIN q : q[k].do = "usage"}
Waiting(q) == {q[k].rev : k \in Usages(q)}
InOrder(q) == \A j, k \in Usages(q) : j < k => q[j].rev < q[k].rev

\* No usage command or account notice is lost, repeated or reordered when the
\* primary is replaced in the middle: of those taken from the UI the first were
\* carried out, the next wait in the queue of the primary, the last are kept back.
UsageKept ==
  LET n == Len(accepted) - Len(deferredUsage)
  IN
  up => /\ Len(handled) <= n
        /\ \A k \in DOMAIN handled : handled[k] = k
        /\ Waiting(inbox[primary]) = (Len(handled) + 1)..n /\ InOrder(inbox[primary])
        /\ \A k \in DOMAIN deferredUsage : deferredUsage[k] = n + k

\* Turns of any connection, account commands and the end of the daemon exclude
\* each other: the shared lease is held exactly while a turn is open.
TurnsExclusive ==
  /\ turns = Cardinality({i \in Ids : proc[i].busy})
  /\ lease = "turns" <=> turns > 0

\* Deletion hits what the user confirmed: this home in this very state, whatever
\* happened to the connection or its number since.
DeletesConfirmed ==
  [][\A i \in Ids : catalog'[i].deleted /\ ~catalog[i].deleted
       => asked = [id |-> i, home |-> catalog[i].home, rev |-> catalog[i].rev]]_vars

\* The home of a deleted or retired connection is never served again, also if
\* the daemon ends between the two phases.
NoResurrection ==
  \A i \in Ids : proc[i].run = "on" => catalog[i].home \notin dead

\* A shutdown or deletion that has begun comes to its end, or to that of the daemon.
PhasesEnd == phase # "open" ~> phase = "open"
-----------------------------------------------------------------------------
(* Why the safety properties hold: an inductive invariant.                 *)

Protocol == {"prepare", "prepare_delete", "abort", "stop", "retire", "delete"}
Commands == [do : Protocol \cup {"decide", "status", "usage", "usage_primary"}, rev : Nat]
Events   == [id : Ids, kind : {"ready", "state", "prepared", "aborted", "shutdown", "ended"},
             ok : BOOLEAN, n : Nat]
Process  == [run : {"off", "starting", "on", "closing"}, busy : BOOLEAN, prepared : BOOLEAN,
             usage : BOOLEAN]
Record   == [dir : BOOLEAN, home : Nat, rev : Nat, deleted : BOOLEAN]
Shown    == [home : Nat, rev : Nat]
Question == [id : Nat, home : Nat, rev : Nat]
Phases   == {"open", "prepare", "abort", "commit", "delete_prepare", "delete_abort", "delete_commit"}

\* Every variable keeps its type.
TypeOK ==
  /\ up \in BOOLEAN /\ connections \in SUBSET Ids /\ activate \in SUBSET Ids
  /\ primary \in Nat /\ selected \in Ids \cup {NoId} /\ removing \in Nat /\ retire \in Nat
  /\ phase \in Phases
  /\ prepared \in SUBSET Ids /\ refused \in SUBSET Ids /\ aborted \in SUBSET Ids
  /\ acknowledged \in SUBSET Ids /\ ended \in SUBSET Ids
  /\ deferredUsage \in Seq(Nat) /\ accepted \in Seq(Nat) /\ handled \in Seq(Nat)
  /\ view \in [Ids -> Shown] /\ events \in Seq(Events) /\ inbox \in [Ids -> Seq(Commands)]
  /\ proc \in [Ids -> Process] /\ catalog \in [Ids -> Record]
  /\ nextHome \in Nat /\ turns \in Nat /\ lease \in {"none", "turns", "shutdown", "account"}
  /\ asked \in Question /\ dead \in SUBSET Nat
  /\ commands \in Nat /\ worked \in Nat /\ faults \in Nat

Ending == {"commit", "delete_commit"}
\* The connections a shutdown or deletion is about.
Party == IF removing = NoId THEN connections ELSE {removing}

\* Only what the coordinator knows runs or is heard of, and the end of a connection
\* is the last of it.
Lives ==
  /\ primary \in connections <=> up
  /\ ~up => connections = {} /\ phase = "open"
  /\ removing # NoId => removing \in connections
  /\ removing # NoId <=> phase \in {"delete_prepare", "delete_abort", "delete_commit"}
  /\ \A i \in Ids :
       /\ proc[i].run # "off" => i \in connections
       /\ proc[i].run # "on" => ~proc[i].busy
       /\ proc[i].run \in {"off", "starting"} => ~proc[i].prepared
       /\ proc[i].run = "off" => ~proc[i].usage
       /\ proc[i].run = "closing" => phase \in Ending /\ i \in Party
       /\ i \in connections /\ proc[i].run = "off" => Doomed \/ (phase \in Ending /\ i \in Party)
  /\ \A k \in DOMAIN events :
       /\ events[k].id \in connections /\ proc[events[k].id].run # "starting"
       /\ events[k].kind = "ended" => /\ proc[events[k].id].run = "off"
                                      /\ \A l \in DOMAIN events : events[l].id = events[k].id => l <= k

\* Every home was made once and is one connection's; what is served is not dead.
HomesApart ==
  /\ \A h \in dead : h # 0 /\ h < nextHome
  /\ nextHome # 0
  /\ \A i \in Ids :
       /\ catalog[i].home < nextHome
       /\ catalog[i].home # 0 => \A j \in Ids : catalog[j].home = catalog[i].home => i = j
       /\ catalog[i].home # 0 /\ ~catalog[i].deleted => catalog[i].home \notin dead
       /\ proc[i].run = "on" => catalog[i].home # 0 /\ ~catalog[i].deleted

Calls(p) == CASE p = "prepare"        -> {"prepare"}
              [] p = "delete_prepare" -> {"prepare_delete"}
              [] p \in {"abort", "delete_abort"} -> {"abort"}
              [] p = "commit"         -> {"stop", "retire"}
              [] p = "delete_commit"  -> {"delete"}
              [] OTHER                -> {}
Replies(p) == CASE p \in {"prepare", "delete_prepare"} -> "prepared"
                [] p \in {"abort", "delete_abort"}     -> "aborted"
                [] p \in Ending                        -> "shutdown"
                [] OTHER                               -> "none"
Phased == {"prepared", "aborted", "shutdown"}
\* Those whose answer in this phase was counted.
Counted == CASE phase = "prepare" -> prepared \cup refused
             [] phase = "abort"   -> aborted
             [] OTHER             -> {}

\* A connection is asked once in a phase, after all other commands, and either has
\* the question still, or its one answer is under way, or was counted.
AskedOnce ==
  /\ \A i \in connections : \A k \in DOMAIN inbox[i] :
       inbox[i][k].do \in Protocol =>
         k = Len(inbox[i]) /\ inbox[i][k].do \in Calls(phase) /\ i \in Party
  /\ \A k \in DOMAIN events : events[k].kind \in Phased =>
       /\ events[k].kind = Replies(phase) /\ events[k].id \in Party
       /\ inbox[events[k].id] = <<>> /\ events[k].id \notin Counted
       /\ \A l \in DOMAIN events :
            events[l].kind \in Phased /\ events[l].id = events[k].id => l = k
  /\ Counted \subseteq connections /\ \A i \in Counted : inbox[i] = <<>>
  /\ phase = "prepare" => aborted = {}

\* i is prepared, unless it ended by itself.
Holds(i) == proc[i].prepared \/ proc[i].run = "off"

\* Who is prepared takes no requests; who is told to stop is prepared, and who
\* said that it gave up is not.
Frozen ==
  /\ \A i \in Ids : proc[i].prepared => ~proc[i].busy /\ phase # "open" /\ i \in Party
  /\ phase = "prepare" => \A i \in prepared : Holds(i)
  /\ phase = "abort" => \A i \in aborted : ~proc[i].prepared
  /\ phase = "commit" => \A i \in connections : Holds(i)
  /\ \A k \in DOMAIN events :
       /\ events[k].kind = "prepared" /\ events[k].ok => Holds(events[k].id)
       /\ events[k].kind = "aborted" => ~proc[events[k].id].prepared

\* What the coordinator was told of a home is the home, and the connection to be
\* deleted is, once prepared, in the state that was confirmed.
Confirmed ==
  /\ asked = NoQuestion \/ asked.home # 0
  /\ \A i \in connections :
       /\ proc[i].run = "starting" => view[i].home = 0
       /\ proc[i].run = "on" /\ view[i].home # 0 => view[i].home = catalog[i].home
       /\ \A k \in DOMAIN inbox[i] :
            inbox[i][k].do = "prepare_delete" => inbox[i][k].rev = asked.rev
  /\ \A k \in DOMAIN events : events[k].kind = "ready" /\ proc[events[k].id].run = "on" =>
       events[k].n = catalog[events[k].id].home
  /\ removing # NoId =>
       /\ asked.id = removing /\ proc[removing].run # "starting"
       /\ proc[removing].run = "on" => catalog[removing].home = asked.home
       /\ proc[removing].prepared =>
            /\ catalog[removing].rev = asked.rev
            /\ \A k \in DOMAIN inbox[removing] : inbox[removing][k].do \in Protocol

\* Only the primary polls or is told to, and it does, unless it has ended.
Polling ==
  /\ \A i \in Ids : proc[i].usage => i = primary
  /\ \A i \in connections : Promoted(i) => i = primary
  /\ up => proc[primary].usage \/ Promoted(primary) \/ proc[primary].run = "off"

\* Usage commands are given to the primary only, are kept back only during a
\* deletion, and the connection being deleted has carried out its own.
UsageOwned ==
  /\ \A i \in Ids \ {primary} : Waiting(inbox[i]) = {}
  /\ removing = NoId => deferredUsage = <<>>
  /\ phase = "delete_commit" => Waiting(inbox[removing]) = {}

\* The inductive invariant, and what UsageKept needs besides.
IInv == /\ TypeOK /\ Lives /\ TurnsExclusive /\ HomesApart
        /\ AskedOnce /\ Frozen /\ Confirmed /\ Polling
UInv == IInv /\ UsageOwned /\ UsageKept
=============================================================================

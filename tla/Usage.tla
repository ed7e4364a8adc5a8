------------------------------- MODULE Usage -------------------------------
(***************************************************************************)
(* The usage samples of the accounts: the usage loop and its commands in   *)
(* the primary connection (cmd/switcher-helper/switchprobe.go), the        *)
(* monitor it polls with (internal/usage/monitor.go), the cache all        *)
(* connections choose accounts from (multishared.go), the way a command of *)
(* the UI takes through the service (daemon.go) and its coordinator        *)
(* (multiprobe.go), and an account command that changes a slot meanwhile.  *)
(*                                                                         *)
(* Data.  A sample is the version of the account it was read from, 0 for   *)
(* none, and whether it is fresh.  The UI numbers its requests from 1,     *)
(* each UI anew; the service numbers them once more.  Delays of 60 and 5   *)
(* seconds are choices.                                                    *)
(***************************************************************************)
EXTENDS Naturals, Sequences

CONSTANTS Slots,
          MaxInputs,   \* further UIs, refreshes, account commands, deletions of a
                       \* connection and shutdowns, all together
          MaxChanges   \* account commands among them

ASSUME UsageAssumption == {MaxInputs, MaxChanges} \subseteq Nat

VARIABLES version, held,   \* of each slot: changes so far, whether it has an account
          task,            \* the account command under way
          peer, peers,     \* the UI attached, 0 for none, and UIs so far
          asked,           \* every request: the UI and its own number
          pending,         \* whether the UI waits for an answer
          sequence, refreshOwner, refreshID,   \* serviceBroker
          phase, deferredUsage,                \* multiProbe
          inbox, answers,  \* commands to the primary, its usage_refresh events
          proc,            \* the primary connection
          loop,            \* its usage loop
          samples,         \* probeUsageCache
          noticed,         \* version at the last change the primary was told of
          inputs, changes  \* how many there were

accounts == <<version, held, task, changes>>
broker   == <<sequence, refreshOwner, refreshID>>
service  == <<phase, deferredUsage, inbox>>
ui       == <<peer, peers, asked, pending>>
polling  == <<proc, loop, samples, noticed>>
vars     == <<accounts, broker, service, ui, answers, polling, inputs>>

-----------------------------------------------------------------------------
Nothing == [ver |-> 0, fresh |-> FALSE]
Blank   == [s \in Slots |-> Nothing]
Zero    == [s \in Slots |-> 0]
NoTask  == [slot |-> "none", at |-> "none", ui |-> 0]
Unread  == [s \in {} |-> Nothing]
NoLoop  == [at |-> "off", epoch |-> Zero, next |-> Unread, previous |-> Zero]
FirstLoop == [NoLoop EXCEPT !.at = "woken"]

\* A connection process; a promoted one has seen no notice.
Secondary == [on |-> FALSE, epoch |-> Zero, changing |-> [s \in Slots |-> FALSE],
              samples |-> Blank, request |-> 0, running |-> TRUE, wake |-> FALSE,
              blocked |-> FALSE]
Primary(p) == [p EXCEPT !.on = TRUE, !.running = TRUE]

Init == /\ version = [s \in Slots |-> 1] /\ held = [s \in Slots |-> TRUE]
        /\ task = NoTask
        /\ peer = 1 /\ peers = 1 /\ asked = <<>> /\ pending = FALSE
        /\ sequence = 0 /\ refreshOwner = 0 /\ refreshID = 0
        /\ phase = "open" /\ deferredUsage = <<>> /\ answers = <<>>
        /\ inbox = <<>>
        /\ proc = Primary(Secondary) /\ loop = FirstLoop /\ samples = Blank /\ noticed = Zero
        /\ inputs = 0 /\ changes = 0

-----------------------------------------------------------------------------
(* The UI, the service and its coordinator.                                *)

Input == inputs < MaxInputs /\ inputs' = inputs + 1

Attach ==
  /\ Input /\ peer = 0
  /\ peer' = peers + 1 /\ peers' = peers + 1
  /\ UNCHANGED <<accounts, broker, service, asked, pending, answers, polling>>

\* The UI ends, or is too slow to read; a command it has started goes on.
Detach ==
  /\ peer # 0
  /\ peer' = 0 /\ pending' = FALSE
  /\ task' = IF task.at \in {"announced", "ended"} THEN NoTask ELSE task
  /\ UNCHANGED <<inputs, changes, version, held, broker, service, peers, asked, answers, polling>>

\* A usage command goes to the primary, is kept during a deletion and lost during
\* a shutdown of all connections.
Send(c) ==
  /\ inbox' = IF phase = "open" THEN Append(inbox, c) ELSE inbox
  /\ deferredUsage' = IF phase = "removing" THEN Append(deferredUsage, c) ELSE deferredUsage

\* usage_refresh, renumbered by attach.
AskRefresh ==
  /\ Input /\ peer # 0
  /\ sequence' = sequence + 1
  /\ refreshOwner' = peer
  /\ refreshID' = IF sequence > 0 /\ asked[sequence].peer = peer
                  THEN asked[sequence].id + 1 ELSE 1
  /\ asked' = Append(asked, [peer |-> peer, id |-> refreshID'])
  /\ pending' = (phase # "shutdown")
  /\ Send([do |-> "usage_refresh", arg |-> sequence'])
  /\ UNCHANGED <<accounts, phase, peer, peers, answers, polling>>

\* The usage_refresh case of serviceBroker.Write: an answer is for the UI that
\* asked last, about what it asked last.  Variant: whoever is attached.
MineAny(a) == peer # 0
Mine(a) == a.seq = sequence /\ peer = refreshOwner /\ peer # 0

Answer ==
  /\ answers # <<>>
  /\ LET a == Head(answers) IN
     pending' = (pending /\ (Mine(a) => a.status = "started"))
  /\ answers' = Tail(answers)
  /\ UNCHANGED <<inputs, accounts, broker, service, peer, peers, asked, polling>>

\* A connection is to be deleted, and all are to be shut down.
BeginRemoval ==
  /\ Input /\ phase = "open" /\ phase' = "removing"
  /\ UNCHANGED <<accounts, broker, deferredUsage, inbox, ui, answers, polling>>

BeginShutdown ==
  /\ Input /\ phase = "open" /\ phase' = "shutdown"
  /\ UNCHANGED <<accounts, broker, deferredUsage, inbox, ui, answers, polling>>

\* Refused, or another connection is gone: the commands kept go to the same primary.
EndPhase ==
  /\ phase # "open"
  /\ phase' = "open" /\ deferredUsage' = <<>>
  /\ inbox' = inbox \o deferredUsage
  /\ UNCHANGED <<inputs, accounts, broker, ui, answers, polling>>

\* The primary is gone, all its commands and events handled: another is promoted.
Promote ==
  /\ phase = "removing" /\ inbox = <<>> /\ answers = <<>>
  /\ phase' = "open" /\ deferredUsage' = <<>>
  /\ inbox' = <<[do |-> "usage_primary", arg |-> 0]>> \o deferredUsage
  /\ proc' = Secondary /\ loop' = NoLoop
  /\ pending' = (pending /\ \E k \in DOMAIN deferredUsage :
                              deferredUsage[k] = [do |-> "usage_refresh", arg |-> sequence])
  /\ UNCHANGED <<inputs, accounts, broker, peer, peers, asked, answers, samples, noticed>>

-----------------------------------------------------------------------------
(* An account command, run by the UI between two notices.                  *)

Announce(s) ==
  /\ Input /\ peer # 0 /\ task = NoTask
  /\ changes < MaxChanges /\ changes' = changes + 1
  /\ task' = [slot |-> s, at |-> "announced", ui |-> peer]
  /\ Send([do |-> "account_changing", arg |-> s])
  /\ UNCHANGED <<version, held, broker, phase, ui, answers, polling>>

\* It takes the credential-operation lock, and writes and ends, or fails before.
Begin ==
  /\ task.at = "announced"
  /\ task' = [task EXCEPT !.at = "running"]
  /\ UNCHANGED <<inputs, changes, version, held, broker, service, ui, answers, polling>>

Ended == IF task.ui = peer THEN [task EXCEPT !.at = "ended"] ELSE NoTask

Change(registered) ==
  /\ task.at = "running"
  /\ version' = [version EXCEPT ![task.slot] = @ + 1]
  /\ held' = [held EXCEPT ![task.slot] = registered]
  /\ task' = Ended
  /\ UNCHANGED <<inputs, changes, broker, service, ui, answers, polling>>

Fail ==
  /\ task.at \in {"announced", "running"}
  /\ task' = Ended
  /\ UNCHANGED <<inputs, changes, version, held, broker, service, ui, answers, polling>>

Confirm ==
  /\ task.at = "ended" /\ task.ui = peer
  /\ task' = NoTask
  /\ Send([do |-> "account_changed", arg |-> task.slot])
  /\ UNCHANGED <<inputs, changes, version, held, broker, phase, ui, answers, polling>>

-----------------------------------------------------------------------------
(* Commands in the primary.  Each is one turn of its mutex.                 *)

Free == ~proc.blocked
Obeys(kinds) == Free /\ inbox # <<>> /\ Head(inbox).do \in kinds /\ inbox' = Tail(inbox)
Beside == <<accounts, broker, phase, deferredUsage, ui, inputs>>

\* startUsage.
ObeyPrimary ==
  /\ Obeys({"usage_primary"})
  /\ proc' = Primary(proc) /\ loop' = FirstLoop
  /\ UNCHANGED <<Beside, answers, samples, noticed>>

\* A refresh that is accepted: a resting loop is woken, through a channel of one
\* place whose sender keeps the mutex.  Variant: a running loop is woken, too.
StartAlways(n) ==
  [proc EXCEPT !.request = n, !.running = TRUE, !.wake = TRUE, !.blocked = proc.wake]
StartRefresh(n) ==
  [proc EXCEPT !.request = n, !.running = TRUE, !.wake = @ \/ ~proc.running,
               !.blocked = ~proc.running /\ proc.wake]

\* usage_refresh: one at a time, and not soon after a round.
ObeyRefresh ==
  LET n == Head(inbox).arg
      says(status) == answers' = Append(answers, [seq |-> n, status |-> status])
  IN
  /\ Obeys({"usage_refresh"})
  /\ \/ proc.request # 0 /\ says("busy") /\ UNCHANGED proc
     \/ proc.request = 0 /\ ~proc.running /\ says("cooldown") /\ UNCHANGED proc
     \/ proc.request = 0 /\ says("started") /\ proc' = StartRefresh(n)
  /\ UNCHANGED <<Beside, loop, samples, noticed>>

\* account_changing and account_changed; the snapshot of the store has no usage.
ObeyNotice ==
  LET c == Head(inbox) IN
  /\ Obeys({"account_changing", "account_changed"})
  /\ proc' = [proc EXCEPT !.epoch[c.arg] = @ + 1, !.changing[c.arg] = (c.do = "account_changing"),
                          !.samples[c.arg] = Nothing]
  /\ samples' = proc'.samples
  /\ noticed' = IF c.do = "account_changed" THEN [noticed EXCEPT ![c.arg] = version[c.arg]]
                ELSE noticed
  /\ UNCHANGED <<Beside, answers, loop>>

\* usage publishes what there is.
PublishUsage ==
  /\ Free /\ proc.on /\ samples # proc.samples
  /\ samples' = proc.samples
  /\ UNCHANGED <<Beside, inbox, answers, proc, loop, noticed>>

\* status, once no account command holds the lock: what a lost UI left open.
Reconcile ==
  LET open == {s \in Slots : proc.changing[s]} IN
  /\ Free /\ proc.on /\ open # {} /\ task.at # "running"
  /\ proc' = [proc EXCEPT !.epoch = [s \in Slots |-> @[s] + (IF s \in open THEN 1 ELSE 0)],
                          !.changing = [s \in Slots |-> FALSE],
                          !.samples = [s \in Slots |-> IF s \in open THEN Nothing ELSE @[s]]]
  /\ samples' = proc'.samples
  /\ noticed' = [s \in Slots |-> IF s \in open THEN version[s] ELSE noticed[s]]
  /\ UNCHANGED <<Beside, inbox, answers, loop>>

-----------------------------------------------------------------------------
(* The usage loop.                                                          *)

\* A round begins, and a request that raced the timer belongs to it; a change since
\* the last one needs a new monitor.
BeginRound ==
  /\ Free /\ loop.at = "woken"
  /\ proc' = [proc EXCEPT !.wake = FALSE, !.running = TRUE]
  /\ loop' = [loop EXCEPT !.at = "poll", !.epoch = proc.epoch,
                          !.previous = IF proc.epoch = loop.epoch THEN @ ELSE Zero]
  /\ UNCHANGED <<Beside, inbox, answers, samples, noticed>>

\* Refresh of one slot: the usage of its account, or nothing of an empty one; if
\* access (even of an empty slot, whose vault cannot be read) or the fetch fails, the
\* old data as stale.  Variant: kept as it is.
Got(s) == IF held[s] THEN [ver |-> version[s], fresh |-> TRUE] ELSE Nothing
FetchedKept(s) == {Got(s), [ver |-> loop.previous[s], fresh |-> loop.previous[s] # 0]}
Fetched(s) == {Got(s), [ver |-> loop.previous[s], fresh |-> FALSE]}

Poll(s) ==
  /\ loop.at = "poll" /\ s \notin DOMAIN loop.next
  /\ \E got \in Fetched(s) :
       loop' = [loop EXCEPT !.next = [t \in DOMAIN @ \cup {s} |-> IF t = s THEN got ELSE @[t]]]
  /\ UNCHANGED <<Beside, inbox, answers, proc, samples, noticed>>

\* Whether a result is still about the account of the slot.
\* Variant: only a change under way is looked at.
AppliesUnlessChanging(s) == ~proc.changing[s]
Applies(s) == loop.epoch[s] = proc.epoch[s] /\ ~proc.changing[s]

\* The round ends: apply, publish, answer the request, rest.
EndRound ==
  /\ Free /\ loop.at = "poll" /\ DOMAIN loop.next = Slots
  /\ proc' = [proc EXCEPT !.samples = [s \in Slots |-> IF Applies(s) THEN loop.next[s] ELSE @[s]],
                          !.request = 0, !.running = FALSE]
  /\ samples' = proc'.samples
  /\ answers' = IF proc.request = 0 THEN answers
                ELSE Append(answers, [seq |-> proc.request, status |-> "finished"])
  /\ loop' = [loop EXCEPT !.at = "rest", !.next = Unread,
                          !.previous = [s \in Slots |-> loop.next[s].ver]]
  /\ UNCHANGED <<Beside, inbox, noticed>>

\* The timer, or the channel; the mutex is taken after it.
Timer ==
  /\ loop.at = "rest"
  /\ loop' = [loop EXCEPT !.at = "woken"]
  /\ UNCHANGED <<Beside, inbox, answers, proc, samples, noticed>>

Woken ==
  /\ loop.at = "rest" /\ proc.wake
  /\ loop' = [loop EXCEPT !.at = "woken"]
  /\ proc' = [proc EXCEPT !.wake = FALSE]
  /\ UNCHANGED <<Beside, inbox, answers, samples, noticed>>

-----------------------------------------------------------------------------
Obey == ObeyPrimary \/ ObeyRefresh \/ ObeyNotice
Round == BeginRound \/ EndRound \/ Timer \/ Woken

Next == \/ Attach \/ Detach \/ AskRefresh \/ Answer
        \/ BeginRemoval \/ BeginShutdown \/ EndPhase \/ Promote
        \/ (\E s \in Slots : Announce(s) \/ Poll(s))
        \/ Begin \/ (\E registered \in BOOLEAN : Change(registered)) \/ Fail \/ Confirm
        \/ Obey \/ PublishUsage \/ Reconcile \/ Round

\* The goroutines of the service run; a phase of the coordinator and a round end,
\* which Coordinator and the timeouts of the usage client show.
Fairness == /\ WF_vars(Obey) /\ WF_vars(Round) /\ WF_vars(Answer)
            /\ WF_vars(EndPhase \/ Promote)
            /\ \A s \in Slots : WF_vars(Poll(s))

Spec == Init /\ [][Next]_vars /\ Fairness

-----------------------------------------------------------------------------
(* Properties.                                                              *)

\* No connection chooses by the usage of an account its slot had before the last
\* change the primary was told of, however polls, notices, promotions and failed
\* fetches interleave; and while a change it knows of is under way, by none.
SamplesCurrent ==
  \A s \in Slots : /\ samples[s].ver # 0 => samples[s].ver >= noticed[s]
                   /\ proc.on /\ proc.changing[s] => samples[s].ver = 0

\* A UI is only given answers to requests of its own, under its own number, though
\* every UI counts from 1 and answers come late.
AnswerOwned ==
  answers # <<>> /\ Mine(Head(answers)) =>
    asked[Head(answers).seq] = [peer |-> peer, id |-> refreshID]

\* Every refresh is finished or refused in the end, unless its UI goes, or the
\* primary is replaced, or the service is about to stop: no order of requests,
\* timers and rounds leaves the primary waiting on its own channel.
RefreshSettled == pending ~> ~pending

\* Notices lost with their UI or in a shutdown are made up for: in the end no slot
\* has a fresh sample of an account it no longer has.
CatchesUp == <>[](\A s \in Slots : samples[s].fresh => held[s] /\ samples[s].ver = version[s])

-----------------------------------------------------------------------------
(* Why the first two hold: an inductive invariant.                          *)

Sample   == [ver : Nat, fresh : BOOLEAN]
Task     == [slot : Slots, at : {"announced", "running", "ended"}, ui : Nat]
Question == [peer : Nat, id : Nat]
Reply    == [seq : Nat, status : {"busy", "cooldown", "started", "finished"}]
Commands == {c \in [do : {"usage_primary", "usage_refresh", "account_changing", "account_changed"},
                    arg : Nat \cup Slots] :
               /\ c.do = "usage_refresh" => c.arg \in Nat
               /\ c.do \in {"account_changing", "account_changed"} => c.arg \in Slots}
Process  == [on : BOOLEAN, epoch : [Slots -> Nat], changing : [Slots -> BOOLEAN],
             samples : [Slots -> Sample], request : Nat, running : BOOLEAN, wake : BOOLEAN,
             blocked : BOOLEAN]
Loop(read) == [at : {"off", "woken", "poll", "rest"}, epoch : [Slots -> Nat],
               next : [read -> Sample], previous : [Slots -> Nat]]

\* Every variable keeps its type.
TypeOK ==
  /\ version \in [Slots -> Nat] /\ held \in [Slots -> BOOLEAN]
  /\ task \in {NoTask} \cup Task
  /\ peer \in Nat /\ peers \in Nat /\ inputs \in Nat /\ changes \in Nat
  /\ sequence \in Nat /\ refreshOwner \in Nat /\ refreshID \in Nat
  /\ asked \in Seq(Question) /\ pending \in BOOLEAN
  /\ phase \in {"open", "removing", "shutdown"}
  /\ inbox \in Seq(Commands) /\ deferredUsage \in Seq(Commands)
  /\ answers \in Seq(Reply)
  /\ proc \in Process /\ \E read \in SUBSET Slots : loop \in Loop(read)
  /\ samples \in [Slots -> Sample] /\ noticed \in [Slots -> Nat]

\* The service's number of the last request is that of its record.
Numbered == /\ sequence = Len(asked)
            /\ sequence > 0 => asked[sequence] = [peer |-> refreshOwner, id |-> refreshID]
            /\ sequence = 0 => refreshOwner = 0

\* Usage of version ver tells nothing older than the primary was told of.
Current(s, ver) == ver # 0 => ver >= noticed[s]

\* What the primary and the others have is current, and nothing during a change.
CachesCurrent ==
  \A s \in Slots : /\ Current(s, proc.samples[s].ver) /\ Current(s, samples[s].ver)
                   /\ proc.changing[s] => proc.samples[s].ver = 0 /\ samples[s].ver = 0

\* A notice moves the epoch of its slot on: a round that began before it is behind,
\* and what the others read or remember is current.
RoundsCurrent ==
  /\ loop.at # "poll" => DOMAIN loop.next = {}
  /\ \A s \in Slots :
       /\ noticed[s] <= version[s] /\ loop.epoch[s] <= proc.epoch[s]
       /\ loop.epoch[s] = proc.epoch[s] =>
            /\ Current(s, loop.previous[s])
            /\ s \in DOMAIN loop.next => Current(s, loop.next[s].ver)

\* The inductive invariant behind SamplesCurrent and AnswerOwned.
IInv == TypeOK /\ Numbered /\ CachesCurrent /\ RoundsCurrent
=============================================================================

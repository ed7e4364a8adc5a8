# codex-switcher: TLA+ models and proofs

codex-switcher runs a local proxy between the Codex CLI and its upstream. It
holds up to five accounts, chooses one at a request boundary, renews the
credentials, and moves a conversation to another account when a usage limit is
met, without ever repeating work that may already have been done and without
giving one account the encrypted history of another. This directory models the
parts of the program in which that is decided, checks them with TLC on small
instances, and proves with TLAPS, for every size, the safety of the connection,
the credential manager, the coordinator, the database of conversations and the
usage loop.

## 1. The system

| Component | State | Operations | Talks to |
|---|---|---|---|
| Connection (`switchprobe.go`) | under `mu`: slot, session, busy, failed, turnPending, waiting, recovery and ownership data, `turnLease`; durable: `checkpoint.json` | one HTTP handler per CLI request; control commands status, select, recover, abandon_turn, prepare/abort/shutdown; restart | manager (credentials), usage samples, proxy handler, coordinator |
| Auxiliary conversations (`probeauxiliary.go`) | per thread: binding, busy, pending, failed | serve, failover, tombstone at restart | connection's mutex, lease and checkpoint |
| Quota (`probequota.go`) | shared limit marks | selection, alternative, mark, apply | connections, usage loop |
| Coordinator (`multiprobe.go`, `multishared.go`) | connections, primary, selected, phase of a shutdown or deletion, deferred usage commands; durable: one directory per connection; shared lease counter | commands of the UI, events of the connections | UI through the daemon, connections through two queues |
| Account manager (`internal/accounts`, `internal/applock`) | vault (whole registry), `operationMu`, `mu`, `refreshSlot`, progress, two file locks | RequestAccess with renewal; login, reauth, logout from other processes | Keychain, OAuth server |
| Usage loop (`internal/usage`, `startUsage`) | samples, epochs, changes under way, the request under way, a wake-up channel; shared cache | rounds, manual refresh, account_changing/changed, reconciliation at a status, promotion | manager, connections |
| Daemon (`daemon.go`) | the attached UI, its last refresh, cached events | attach, relay, renumber refreshes, drop a slow UI | UI, coordinator |
| Affinity and router (`internal/affinity`, `internal/routing`) | SQLite: conversation (project, slot, state, intent), ids and their owners, handoffs | register, begin, finish, prepare, bind and cancel a handoff, invalidate a slot | exec, handoff and logout commands, each for as long as it holds the database |
| Proxy (`internal/proxy`) | busy and blocked conversations; one response: observer, gate, backlog of the inspection | admit, forward, validate and commit, detect a usage limit | store, upstream, client |
| exec (`exec.go`, `clirun`, `clisession`, `clirecord`) | one run: binding, record with ready flag | create or resume, start, complete | router, store, proxy |
| Older front ends (`direct`, `live`, `directcli`) | one run | run a CLI behind a bridge | manager |
| Documents (`handoff`, `checkpoint`, `wikidraft`, `sessionstatus`) | files | write, read, prune | user |
| macOS app | views | starts the helper, sends commands | daemon |

What is hard here: HTTP handlers of one connection overlap each other, the
control loop and a stopping service, and every one of them drops the mutex
several times; a request waits for another with a timer; the process may die
between any two writes; a renewal is an exchange that consumes its input, over a
network, on a copy of a file that other processes write; logins happen in other
processes; several connections stop in two phases while their users go on
working; what a user confirmed may be out of date when it arrives; a run of the
CLI leaves its conversation to other processes wherever it ends; a stream is
judged while it is forwarded; and a usage round reads accounts that change
meanwhile.
`PROJECT.json` lists these hazards at their lines.

What makes it correct: an interrupted user message is not sent again (connection);
opaque items reach only the credential that made them (connection, manager);
a refresh token is exchanged once (manager); no account change inside a turn
(connection, manager, coordinator); a stop is all or nothing and a deletion hits
what was confirmed (coordinator); a conversation keeps its account, owns what it
leans on and never goes on after a turn broke off (affinity); a turn is committed
exactly when its response proves it, and before the client sees that (proxy); no
account is chosen by the usage of its predecessor (usage); nothing hangs (all).

## 2. Modules

| Module | Models |
|---|---|
| `Quota` | the choice of an account (pure operators) |
| `Quota_proofs` | theorems about `Quota` |
| `Connection` (extends `Quota`) | one connection, its CLI, its checkpoint, crash and restart |
| `Connection_proofs` | theorems about `Connection` |
| `Manager` | the manager in the service, account commands in other processes, crash |
| `Manager_proofs` | theorems about `Manager` |
| `Coordinator` | the coordinator with abstract connections, shared lease, restart |
| `Coordinator_proofs` | theorems about `Coordinator` |
| `Continuation` | what a request leans on and what a completed response grants (pure operators) |
| `Ownership` | abstract: what is promised about a persistent conversation |
| `Affinity` (extends `Continuation`) | the database, the commands that open it, records, the handlers of one run; implements `Ownership` |
| `Affinity_proofs` | theorems about `Affinity`, among them the refinement of `Ownership` |
| `Proxy` | one upstream response on its way through the handler |
| `Proxy_proofs` | theorems about `Proxy` |
| `Usage` | the usage loop, its commands from the UI to the primary, account commands beside it |
| `Usage_proofs` | theorems about `Usage` |
| `MCConnection`, `MCManager`, `MCCoordinator`, `MCAffinity`, `MCProxy`, `MCUsage` | instances for TLC |

Definitions whose comment says *Variant* are plausible wrong versions of the
definition that follows; nothing uses them. `PROJECT.json` pairs each with the
property that it breaks, so that every property is known to be able to fail.
A module that is proved about ends with its inductive invariant `IInv` and the
parts of it, the type invariant among them.

### Connection

An action is a region of code under `mu`; the fields `mu` guards are the record
`m`, the locals of the admitted request are `cur`, and `pc` is the place of each
handler:

    entered -> (waiting -> signalled) -> reading -> preparing -> storing
      -> dispatching -> upstream -> terminal -> answered -> releasing -> finishing
                          \-> limited -> switching -> dispatching

`persist` and `state` are operators used by the actions exactly where the code
calls them, including the write failure that may or may not have reached the
disk. `disk` is the checkpoint, `Restored` what a start makes of it. `ui` is the
report the user acts on; `cli` is what the CLI may send back. `interrupted` and
`lastSent` are history variables: the user messages whose turn was sent and cut
short. Abstractions:

- bodies are numbers, two for each user boundary; hashes do not collide;
- an opaque item is named by the credential that produced it, and every response
  is taken to carry reasoning, which is the demanding case;
- `revision` is only compared for equality with what a command carries, so
  `ui.current` stands for it; a write that would change only the revision does
  not fail;
- `PrepareFails` is always possible: besides ownership the parser refuses many
  shapes of history that are not told apart here;
- the CLI's history only grows (its last user boundary never goes back);
- one auxiliary conversation stands for all, seen only from the connection;
  agent-message owners are left out;
- Deleted and Retired are one flag here; `Coordinator` tells them apart.

### Manager

A request is a goroutine of the service, a command an `account` process. Each
acquisition, read, write and the exchange is a step of its own. A credential is a
number; login and good exchanges issue the next. File locks are the sets of their
holders, so that a broken lock can be expressed. `Crash` empties the service's
memory and drops its file locks. A failed vault write may have happened; after a
failed vault read the request leaves, at each of the three places it reads.

`ProgressExact` says what the user is shown: the requests counted as waiting are
those that wait; a renewal that runs is shown; and what is shown is the renewal of
a request for the slot that runs it or is about to return. In that last short while
(the exchange is over, or its mark was refused) it is still shown, as in the code,
whose deferred `finish` comes after every lock is released.

### Coordinator

The command queue of each connection is `inbox[i]`, the event queue `events`.
Connections are reduced to what the coordinator can see of them: open work, the
freeze of `prepare_shutdown`, whether they poll usage, and the checkpoint (home,
revision, deleted). Retiring a session empties the home; a start then makes a
new one. `Return` is the deferred block of `multiProbe` and serves for an error
and for a crash. Answers that arrive in a phase that does not expect them cannot
occur in the model and are not modelled; queue limits (32, 128), relayed
diagnostics and usage snapshots are left out. `Confirm` is the macOS app.

### Affinity, Continuation and Ownership

The three tables are `sessions`, `responses` (pairs of an id and its owner) and
`handoffs`; `records` is `record.json` of each handle, `vault` the account of each
slot. `proc` is the process that holds the database: an exec from `Open` to
`Close`, by its `pc`

    polling -> running -> started -> draining -> completed
                     \-> failing

or a logout between `InvalidateSlot` and the vault; every other command opens and
closes the database in one step. `Recovered` is what `Open` makes of intent a dead
process left. `requests` are the handlers of the run's proxy (`waiting`,
`resolved`, `reading`, `begun`, `sent`). A process that closes the database with a
handler past `Begin` leaves an `orphan`: it may still send once, until it exits,
while other processes already use the database. `Crash` is possible anywhere.

Abstractions: project, worktree and branch are one value; quota and network are
choices (a slot with an account may be usable or not whenever it is looked at);
the random request id is the handler; ids of a reservation are not used again;
the pinned Wiki of a handoff is read as it was pinned. Reauthentication keeps the
account and is left out. `bound`, `given` and `spoiled` are history variables.

`Continuation` keeps of an item its kind, id, call and text. Whatever the code
refuses for its shape is a refusal in the handler, or `"other"`. A digest of
history is its text, scoped to the conversation as `historyScope` does. `Echoes`
is external: the ways the CLI sends back what it was given.

`Ownership` says it without processes: a conversation is started once with an
account, asks, sends at most once with ids it owns, is answered or closes for
good. `Affinity!Conversations` maps the tables to it: the state of the row to
`stage`, the history variable `bound` to `account`, the rows of `responses` to
`owned`, handlers and orphans to `turn`; `upstream`, what the transport was given,
is the same variable in both. `Implements` is that specification as a property.
So the account a request carries, read from the vault in `Resolve`, is shown to be
the one the conversation started with, although the slot may change hands.

### Proxy

`mode` is the handler: persistent (exec), managed (a connection) or compact. A
frame is one server-sent event, or a whole JSON body, with what the code tells
apart: type, whether its contract holds, the limit code, model output, an id. A
read returns one or two frames, so that a chunk may hold the end of one thing and
the beginning of the next; a body ends cleanly, inside a frame, or with an error,
which also stands for a timeout and a full buffer. A client that is gone has got
any leading part of what was written, in frames. `received` and `delivered` are
what the two sides of the handler have seen; `backlog` what the inspection has
consumed and will give back. `Forward` writes before it observes, `Deliver`
observes before it writes, as the code does. `Over` lets a finished response
stand still.

`TerminalHeld` is about what the client of a persistent conversation has seen;
`BreakingWithheld` is about each step: once the frames that came can prove no
response (`Breaks`, a definition over the frames alone, without the observer), the
client gets nothing more, not even the good frames of the same read. `LimitExact`
is an equivalence between the outcome of a managed attempt and what upstream sent:
a limit stated early in a good stream (`StatedEarly`) or as a whole 429 body
(`StatedWhole`), both within the budget of the inspection.

### Usage

`proc` is the primary connection's usage state under its mutex and `loop` the
goroutine: `woken`, `poll` (one action per slot, so that accounts change between
them), `rest`. The channel `usageWake` has one place (`wake`); a sender that finds
it full keeps the mutex (`blocked`), after which nothing of the connection moves.
A command goes from `AskRefresh`, `Announce` or `Confirm` through the broker's
numbering and the coordinator's phases (`Send`) into `inbox`; answers come back
through `Mine`. The phases of the coordinator are reduced to what happens to usage
commands: kept in a deletion, lost in a shutdown of all; a shutdown that is not
aborted ends the service and is not followed further. `Promote` is the deletion
of the primary itself, whose successor has seen no notice. Delays are choices:
the timer may fire and the cooldown be over at any time.

A round that finds no account for a slot has nothing to show; one that fails to
read the vault or to fetch keeps what it had before, as stale (`Fetched`).

A sample is the version of the account it was read from. `noticed` is the version
at the last notice a primary has taken, which is what it can know; a primary that
was promoted between the two notices of a change does not know that one is under
way, so the second part of `SamplesCurrent` is about the primary at hand and the
first about what any was told.

## 3. Runs

| Run | Bounds | States | Shows |
|---|---|---|---|
| `connection_recovery` | 2 handlers, 1 slot, 2 user messages, 1 quota change, 1 restart, write failures | 832 k | `NoReplay`, `CheckpointBeforeDispatch`, `AdmissionExclusive`, `DecisionCurrent` |
| `connection_ownership` | 2 slots, 3 credentials, 1 quota change, compaction | 1.66 M | `OwnerSafety`, `OpaquePinned`, `AttemptOnce`, `TurnPinned` |
| `connection_auxiliary` | 2 conversations, auxiliary, 2 credentials, compaction, operator, 1 restart | 2.44 M | `OwnerSafety`, `ConversationStable` |
| `connection_liveness` | 2 handlers, write failures, fair | 110 k | `RequestsEnd`, `StopLeaves` |
| `connection_userless` | bodies without a user message | - | a violation of `NoReplay`, see below |
| `manager` | 2 requests, 1 command, 1 crash, fair | 149 k | `ExchangeOnce`, `ProgressExact`, `TurnHistoryStable`, `RequestsReturn`, `FastPathFree`, `CancelledLeaves` |
| `manager_vault` | 2 slots, 2 users, 1 request, 1 command, 1 crash | 1.26 M | `NoLostUpdate` |
| `coordinator` | 2 connections, 1 command, 2 turns, 2 notices, fair | 725 k | `AllOrNothing`, `DeletedIsGone`, `UsageKept`, `TurnsExclusive`, `DeletesConfirmed`, `PhasesEnd` |
| `coordinator_faults` | 2 connections, 2 commands, 1 fault | 292 k | `NoResurrection` |
| `affinity` | 2 slots, accounts, conversations, records and handlers, 1 handoff, any number of runs and crashes | 598 k | `Implements`, `SpoiledNeverRuns`, `RecordsFaithful`, `HandoffExact`, `HistoryReplays` |
| `proxy` | 3 frames, 2 of them inspected, 2 ids | 459 k | `CommitsExactly`, `TerminalHeld`, `BreakingWithheld`, `LimitExact`, `Transparent` |
| `usage` | 1 slot, 3 inputs of which 1 account command, fair | 247 k | `SamplesCurrent`, `AnswerOwned`, `RefreshSettled`, `CatchesUp` |

Why the bounds are enough. Two handlers give every overlap the code tells apart:
one active request and one that waits or is refused; `waiting` admits no third.
Two user messages separate "the interrupted one" from "new input". Two slots give
a failover and its refusal; three credentials add a login in between. Two
requests and a command contend for each lock from both sides. Two connections
are the least for which one refuses and the other has agreed, and for which the
usage owner is replaced. One restart reaches every checkpoint a crash can leave.
Two slots and two accounts let a slot change hands and an account move to the
other slot; two conversations with one set of ids make every claim a conflict;
the runs over them are unbounded, since conversations and records are not used
again. Three frames are an item, a completion and whatever must not follow it, and
with two inspected, a limit just inside and just past the budget. Slots are
independent in the usage loop; three inputs are a notice, a refresh and a deletion
or a second UI, in any order.
Handlers and requests are symmetric where no fairness is used; slots and
connection numbers are ordered by the code and are not. `CHECK_DEADLOCK FALSE`
is set because the CLI, the user and the bounded environment may stop.

Fairness. `Connection`: a handler's goroutine is scheduled; the wait for another
request has a 30 second timer; the upstream exchange ends in an answer, an error
or a lost connection (an assumption about the transport, which has its own
timeouts, and the CLI, which may hang up); a failed checkpoint cancels the
service. Nothing is assumed of the CLI or the user. `Manager`: goroutines are
scheduled (weak fairness); the gate of an `operationLock` is a Go channel, whose
blocked senders are served in order, hence strong fairness for taking it. The end
of the exchange (15 second timeout) is an assumption of `RequestsReturn` only:
`FastPathFree` and `CancelledLeaves` hold although it hangs. `Coordinator`: the
coordinator's loop and each connection's control loop are scheduled. `Usage`: the
control loop, the usage goroutine and its timer, the broker and the fetches, which
have a timeout, make progress, and a phase of the coordinator ends (`PhasesEnd`);
nothing is assumed of the UI, of account commands or of a status command.

Finding. ADR 0045 and `proberecovery.go` say that only a changed user message may
start after an explicit recovery. `connection_userless` shows the exception: a
request without any user message, sent inside a tool turn, stores the zero
boundary (`switchprobe.go:866`) before its history is refused; after recovery the
message of the interrupted turn differs from zero and is dispatched again. With
`Userless = FALSE`, that is for a CLI that always sends its history with a user
message, `NoReplay` holds.

## 4. Proofs

Each `_proofs` module but `Quota_proofs` proves `Invariance`, that is `Spec => []IInv`, for every
value of the constants, and its theorems from it. `IInv` was checked with TLC
first, on the bounds of the runs. A lemma of the proof stands for each action of `Next`, with
one step for each conjunct of `IInv` it can disturb; what many actions have in
common is a lemma of its own. The assumptions about the constants are those named
in the modules (bounds are naturals, markers differ from names), which every run
evaluates.

| Module | Theorems |
|---|---|
| `Quota_proofs` | `InitialSelection`, `SelectionLeaves`, `AlternativeUntried` |
| `Connection_proofs` | `TypeCorrect`, `Exclusive` (`AdmissionExclusive`), `OwnersSafe` (`OwnerSafety`), `Checkpointed` (`CheckpointBeforeDispatch`), `AttemptedOnce` (`AttemptOnce`), `PinHolds` (`OpaquePinned`), `NotReplayed` (`NoReplay`), `ConversationKept` (`ConversationStable`), `TurnKeepsAccount` (`TurnPinned`), `DecidedOnCurrent` (`DecisionCurrent`) |
| `Manager_proofs` | `TypeCorrect`, `ExchangedOnce` (`ExchangeOnce`), `HistoryOwned`, `ProgressShown` (`ProgressExact`), `AlwaysReadable`, `UpdatesKept` (`NoLostUpdate`), `HistoryKeptInTurn` (`TurnHistoryStable`) |
| `Coordinator_proofs` | `ShutdownsAllOrNothing` (`AllOrNothing`), `DeletedStaysGone` (`DeletedIsGone`), `TurnsStayExclusive` (`TurnsExclusive`), `NoneResurrected` (`NoResurrection`), `DeletesOnlyConfirmed` (`DeletesConfirmed`), `UsageNeverLost` (`UsageKept`) |
| `Affinity_proofs` | `OwnershipImplemented` (`Implements`), `SpoiledStaysDown` (`SpoiledNeverRuns`), `RecordsStayFaithful` (`RecordsFaithful`), `HandoffsStayExact` (`HandoffExact`), `HistoryAlwaysReplays` (`HistoryReplays`) |
| `Proxy_proofs` | `TypeCorrect`, `Commits` (`CommitsExactly`), `Held` (`TerminalHeld`), `Withheld` (`BreakingWithheld`), `LimitsExactly` (`LimitExact`), `Passes` (`Transparent`) |
| `Usage_proofs` | `SamplesStayCurrent` (`SamplesCurrent`), `AnswersOwned` (`AnswerOwned`) |

### Quota

The loop over the samples is modelled by the slot it ends with (`Best`). That there
is one unless no slot is above the reserve follows from the least number of a set of
naturals, first for the quota, then for the slot; that there is one only makes the
`CHOOSE` exact (`BestUnique`).

### Connection

None of the safety properties is inductive: each speaks of requests that are with
the upstream, and what makes it true was settled at an earlier place of the handler
or before a restart. `IInv` says what is settled where:

- `AdmissionExclusive` is inductive with `Quiescent` (a process that is gone left
  nothing in memory) and makes `cur` the request of the one active handler;
- `InFlight` has three parts for the place of that handler. `SelectedAt`: the
  account it uses and which ones it has tried. `OwnedAt`: once prepared, every
  opaque item it carries is a compaction the request was checked for or belongs to
  the owner of the turn, and once sent, to the credential it is sent with.
  `CheckpointedAt`: memory names its body and slot, and from the dispatch on the
  checkpoint does too, whichever of the later writes fail;
- `Owned`: the registries say of an item who made it, in memory and in the
  checkpoint, so a restart cannot give an item another owner;
- `Pinned`: the pin is to the account in use, in memory and in the checkpoint;
- `Leased` and `Bound`: what is open holds the lease, which a login or logout needs,
  and is bound to a conversation (`ConversationKept`);
- `Attempted`: what was tried is one account for each attempt;
- `Guarded`: unless the CLI may leave out its user messages, boundaries only grow,
  from the checkpoint and the turns cut short to what the CLI sent last, and a turn
  cut short is guarded by a failure, by the need of new input or by a later
  boundary, at every place of the handler (`RepeatedAt`);
- `Shown`: what the UI was shown is the state, unless a request runs or the process
  stops (`DecidedOnCurrent`).

`NotReplayed` therefore has the hypothesis `~Userless`; with `Userless` the
property is false, which `connection_userless` shows. The other theorems hold for
both. The assumptions are `ConnectionAssumption` and `QuotaAssumption`: slot 1,
with which a process starts, is a slot; slots are numbers; bounds are naturals;
there are credentials for the slots. Writing the checkpoint is reasoned about once: `Stored`
says which fields of the record, in memory and on disk, a step may change besides
its own when the write fails, and each action is a change of the record followed
by it.

### Manager

`ExchangeOnce` is not inductive: that a credential was not exchanged before
depends on the durable mark, the mark on the copy being the registry, and the copy
on the lock. `IInv` has one conjunct for each link:

- `LocksExclusive`: a file lock has one holder, and whoever is between its
  acquisition and the last write is that holder;
- `CopiesCurrent`: therefore the copy a process works on is the registry, and
  from the mark to the commit the account in the vault is marked;
- `TokensUnique`: a credential is stored once and was issued, so an answer on its
  way is new;
- `MarkedOnce`: an unmarked stored credential was never sent;
- `HistoryOwner`, that the history of an account belongs to its login through any
  number of renewals, and `RegistryReadable` are inductive with these;
- `Counted`: a renewal is shown only for a request that has stopped waiting, so that
  it stops waiting once, and finitely many requests are under way. The set of
  requests need not be finite: `ProgressExact` counts those that wait.

`HistoryKeptInTurn` uses that a command holds the activity lock, which excludes a
turn, and that `Renewed` keeps the owner.

### Coordinator

The two phases run over queues, so that what a connection has done and what the
coordinator knows of it differ by what is under way. The links:

- `AskedOnce`: in a phase every connection concerned is asked once, after all
  other commands, and has either the question still, or one answer under way, or
  was counted; so no answer of an earlier phase is taken for one of this;
- `Frozen`: who answered yes, or was counted so, is prepared or has ended by
  itself, and who is prepared does no work; with the last answer all are, which is
  `AllOrNothing`;
- `Lives`: only what the coordinator knows runs or is heard of, a connection that
  has ended without being told has an event under way that ends the daemon, and the
  end is the last that is heard of a connection; `Polling` says the same of the
  usage; together they are `DeletedIsGone`;
- `HomesApart`: a home was made once and belongs to one number; what is not marked
  deleted is not dead;
- `Confirmed`: what the coordinator shows of a home is the home, a question to
  delete carries the confirmed revision, and a connection prepared for deletion is
  in it, with no command before the deletion that could change it. The one step
  that marks a connection deleted finds exactly the confirmed record
  (`DeletesOnlyConfirmed`, an action property).

That the lease counts open turns (`TurnsExclusive`) is proved with the cardinality
of the set of busy connections.

`UsageNeverLost` has an invariant of its own, `UInv`: besides `IInv` and the
property, usage commands wait at the primary only, are kept back only during a
deletion, and the connection being deleted has none left (`UsageOwned`). The last
is why a successor may begin with those kept back: by `AskedOnce` a connection
that has answered has an empty queue. Usage commands are numbered as the UI gives
them, so that `UsageKept` states order and completeness with the set of the numbers
that wait, which needs no induction over the queues.

### Affinity and its refinement of Ownership

`IInv` says who has the intent of a conversation: a handler past `Begin`
(`IntentHeld`), or an orphan, whose conversation is then closed to every process
that opens the database (`OrphansClosed`); that the account of a conversation that
is not closed is in its slot, since a logout closes it first (`AccountsInPlace`);
that an id has one owner (`OneOwner`); and what a run may rely on about its record
(`RunRecorded`) and an open handoff about its source and target
(`HandoffsFrozen`). `OwnershipImplemented` shows that under the mapping of
`Conversations` the initial states are initial states of `Ownership`, and every
action is a step of it or leaves its variables alone, orphans that still send
after their process closed the database included. `HistoryReplays` needs no
induction over responses: what is given is given with its references in one step,
and references are never taken away; a lemma follows every echo of an item through
`ItemRefs`.

### Usage

A notice moves the epoch of its slot on, so a round either began after it, or its
result for that slot is thrown away (`RoundsCurrent`); what the primary and the
others keep is current (`CachesCurrent`). `Numbered` ties the last request of the
broker to the UI that made it.

### Proxy

The properties of a response speak of everything that came, and most of them of its
end. `IInv` says at each place of the handler what it has made of the response so
far, for any ids, any length of the stream and any budget of the inspection:

- `Routed`: which response is read in which way, so that only one whose body matters
  to the account is inspected, and only one of a persistent conversation commits;
- `Kept`: until the end everything received is delivered or kept, in order: in the
  backlog of the inspection or behind the gate;
- `Gated`: the observer knows exactly what is in the frames that came (`Found`, which
  quantifies over them instead of folding), and nothing behind the gate is delivered;
- `Inspected`: what the inspection has let pass can hold no early limit (`Passed`):
  there is a first frame that rules it out, or is too late; nor does a 429 body it
  has let pass state one whole (`PassedBody`).

`Withheld` is proved of each step from `Gated`: an observer that has not failed has
found a response that is not broken, so a broken one was refused at this chunk,
which releases nothing, or earlier, when the handler ended.

What the observer makes of a read is the one place where the code walks over frames,
and induction over data is out of reach. A read returns one or two frames
(`Chunks`), which is what the interesting cases need, the end of one thing with the
beginning of the next; the theorems share this bound with the runs, while the number
of reads is any.

### What is only model-checked

Liveness is beyond the prover: `RequestsEnd`, `StopLeaves`, `RequestsReturn`,
`FastPathFree`, `CancelledLeaves`, `PhasesEnd`, `RefreshSettled`, `CatchesUp`.
Every safety invariant and action property of a run is also a theorem, with one
hypothesis added, `~Userless` for `NoReplay`.

## 5. Not modelled

- The daemon around its broker: launch over the socket, the cache of events for a
  UI that reconnects, diagnostics, the end of the service. These are calls of the
  operating system and a map of last values.
- The inside of auxiliary conversations: uncounted waiters, their credentials and
  agent-message owners; planned.
- `direct` and `live`, which keep nothing; status files and their pruning; project
  checkpoints, Wiki drafts and pins, which are sequential file formats guarded by
  digests; checkpoint requests of an exec run.
- `Store.GC`, which nothing calls, and the migration of older schemas.
- Finer than `Proxy`'s data: writes that reach the client in part of a frame, reads
  of more than two frames, and successful responses other than 200, which are
  delivered but not inspected. A turn lease closed twice (`once.Do` in
  `multishared.go`) has no second effect and is left out of `Coordinator`.
- The usage client's HTTP and JSON: a fetch succeeds or fails.
- Queue limits (32 commands, 128 events, 64 events of a UI): a full UI queue is a
  `Detach`; the others end the service.
- The Keychain, the OAuth server, the CLI, upstream and the macOS app are external
  and appear only as what the code in `src/` sees of them.

## 6. Plan

1. `Proxy`: reads of any number of frames, which need induction over the frames of a
   read, or a handler that takes them one at a time between a read and the next.
2. `Auxiliary`: several threads on one connection, uncounted waiters, credential
   pinning, agent-message owners shared with the root.
3. An abstract specification of a connection (idle, running, open, failed,
   stopped) that `Connection` implements and `Coordinator` uses.

------------------------------ MODULE Manager ------------------------------
(***************************************************************************)
(* The account manager (internal/accounts) over the credential vault: the  *)
(* requests of one service process that need an access token and may renew *)
(* it (refresh.go), and the account commands of other processes that log a *)
(* slot in, in again, or out (manager.go, account.go).                     *)
(*                                                                         *)
(* The whole registry is read and written at once, so a writer that works  *)
(* on an old copy would undo the changes of another.  Inside the service   *)
(* operationMu and mu exclude writers; between processes only the file     *)
(* lock of applock does.  The activity lock keeps logins and logouts out   *)
(* of a model turn; renewals happen inside turns.                          *)
(*                                                                         *)
(* Data.  A credential is the number of its access token; 0 is none.  Every *)
(* login and every good exchange issues a new one, and a login's number    *)
(* also stands for its random Registration.  A lock is the set of its      *)
(* holders.                                                                *)
(***************************************************************************)
EXTENDS Integers, FiniteSets

CONSTANTS Slots,      \* account slots, positive naturals
          Requests,   \* request goroutines of the service
          Commands,   \* account command processes
          Users,      \* identities an account may have, positive naturals
          MaxToken,   \* credentials that may be issued
          MaxCrashes  \* crashes of the service

ASSUME ManagerAssumption ==
  /\ Slots \subseteq Nat \ {0} /\ Users \subseteq Nat \ {0}
  /\ MaxToken \in Nat /\ MaxCrashes \in Nat
  /\ Requests \cap Commands = {}
  /\ {"turn", "idle"} \cap (Requests \cup Commands) = {}

VARIABLES vault,       \* the registry: a record for each slot
          expired,     \* credentials within two minutes of their expiry
          exchanges,   \* how often each credential was sent to be renewed
          nextToken,   \* the next credential to be issued
          operationMu, mu, refreshSlot,    \* Manager, in the service
          waiting, refreshing,             \* authenticationProgress
          applock, activity,               \* file locks
          pc, slot, reg,                   \* of a request or a command
          kind,                            \* what a command does
          answer,                          \* what an exchange returned
          started, canceled,               \* of a request
          crashes

memory == <<operationMu, mu, refreshSlot, waiting, refreshing>>
issue  == <<expired, exchanges, nextToken>>
locals == <<pc, slot, reg, kind, answer, started, canceled>>
vars == <<vault, issue, memory, applock, activity, locals, crashes>>

Procs  == Requests \cup Commands
Tokens == 1..MaxToken

NoAccount == [user |-> 0, token |-> 0, registration |-> 0, blocked |-> FALSE,
              owner |-> 0, current |-> 0]
Nothing == [s \in Slots |-> NoAccount]

Registered(a) == a.token # 0
Fresh(a) == a.token \notin expired

\* Access.HistoryCredential: the owner a verified renewal carried forward, if
\* the binding belongs to this very credential; otherwise the credential.
HistoryCredential(a) == IF a.current = a.token /\ a.owner # 0 THEN a.owner ELSE a.token

-----------------------------------------------------------------------------
(* The file locks: applock.Acquire does not wait, it fails with ErrBusy.   *)

AcquirableAlways == TRUE      \* Variant: the lock file is replaced, as by an unlink.
Acquirable == applock = {}
UndisturbedAlways == TRUE     \* Variant: account commands ignore turns.
Undisturbed == activity = {}

-----------------------------------------------------------------------------
(* Requests: RequestAccessContext.                                         *)

\* Variant: operationMu is kept.
LeaveHolding(r) == /\ mu' = mu \ {r}
                   /\ applock' = applock \ {r}
                   /\ pc' = [pc EXCEPT ![r] = "finishing"]
                   /\ reg' = [reg EXCEPT ![r] = Nothing]
                   /\ answer' = [answer EXCEPT ![r] = 0]
                   /\ UNCHANGED operationMu

\* Where a request no longer needs what it holds: every lock is given back.
Leave(r) == /\ operationMu' = operationMu \ {r}
            /\ mu' = mu \ {r}
            /\ applock' = applock \ {r}
            /\ pc' = [pc EXCEPT ![r] = "finishing"]
            /\ reg' = [reg EXCEPT ![r] = Nothing]
            /\ answer' = [answer EXCEPT ![r] = 0]

\* authentication.begin
Begin(r, s) ==
  /\ pc[r] = "idle"
  /\ pc' = [pc EXCEPT ![r] = "fast"]
  /\ slot' = [slot EXCEPT ![r] = s]
  /\ waiting' = [waiting EXCEPT ![s] = @ + 1]
  /\ UNCHANGED <<vault, issue, operationMu, mu, refreshSlot, refreshing, applock, activity,
                 reg, kind, answer, started, canceled,
                 crashes>>

\* The CLI hangs up, or the usage poll is stopped.
Cancel(r) ==
  /\ pc[r] # "idle" /\ ~canceled[r]
  /\ canceled' = [canceled EXCEPT ![r] = TRUE]
  /\ UNCHANGED <<vault, issue, memory, applock, activity, pc, slot, reg, kind, answer,
                 started, crashes>>

\* A renewal is needed, or one of this very slot is under way to be joined.
NeedsQueue(r) == \/ slot[r] \in refreshSlot
                 \/ LET a == vault[slot[r]] IN Registered(a) /\ ~a.blocked /\ ~Fresh(a)

\* requestAccessWithoutRefresh: reads only what is committed.  It answers by itself
\* unless a renewal is needed, also when the vault cannot be read.
requestAccessWithoutRefresh(r) ==
  /\ pc[r] = "fast" /\ mu = {}
  /\ \/ ~canceled[r] /\ NeedsQueue(r) /\ pc' = [pc EXCEPT ![r] = "queued"]
     \/ /\ canceled[r] \/ slot[r] \notin refreshSlot
        /\ pc' = [pc EXCEPT ![r] = "finishing"]
  /\ UNCHANGED <<vault, issue, memory, applock, activity, slot, reg, kind, answer, started, canceled,
                 crashes>>

CancellableFirst == {"fast"}   \* Variant: the queue is waited out.
Cancellable == {"fast", "queued"}

\* LockContext returns as soon as the request is cancelled.
GiveUp(r) ==
  /\ pc[r] \in Cancellable /\ canceled[r]
  /\ pc' = [pc EXCEPT ![r] = "finishing"]
  /\ UNCHANGED <<vault, issue, memory, applock, activity, slot, reg, kind, answer, started, canceled,
                 crashes>>

LockOperation(r) ==
  /\ pc[r] = "queued" /\ operationMu = {}
  /\ operationMu' = {r}
  /\ pc' = [pc EXCEPT ![r] = "admitted"]
  /\ UNCHANGED <<vault, issue, mu, refreshSlot, waiting, refreshing, applock, activity,
                 slot, reg, kind, answer, started, canceled,
                 crashes>>

Renewable(a) == Registered(a) /\ ~a.blocked /\ ~Fresh(a)

\* Under operationMu and mu: read again, another renewal may have ended; or the
\* vault cannot be read.
ReadAgain(r) ==
  /\ pc[r] = "admitted" /\ mu = {}
  /\ \/ /\ ~canceled[r] /\ Renewable(vault[slot[r]])
        /\ mu' = {r}
        /\ pc' = [pc EXCEPT ![r] = "locking"]
        /\ UNCHANGED <<operationMu, applock, reg, answer>>
     \/ Leave(r)
  /\ UNCHANGED <<vault, issue, refreshSlot, waiting, refreshing, activity, slot, kind,
                 started, canceled, crashes>>

\* The file lock, or ErrBusy.
TryLock(r) ==
  /\ pc[r] = "locking"
  /\ IF Acquirable
     THEN /\ applock' = applock \cup {r}
          /\ pc' = [pc EXCEPT ![r] = "locked"]
          /\ UNCHANGED <<operationMu, mu, reg, answer>>
     ELSE Leave(r)
  /\ UNCHANGED <<vault, issue, refreshSlot, waiting, refreshing, activity, slot, kind,
                 started, canceled, crashes>>

\* And once more: another process may have rotated or removed the account, or the
\* vault cannot be read.  From here on the request works on this copy of the registry.
Reread(r) ==
  /\ pc[r] = "locked"
  /\ \/ /\ Renewable(vault[slot[r]])
        /\ reg' = [reg EXCEPT ![r] = vault]
        /\ pc' = [pc EXCEPT ![r] = "marking"]
        /\ UNCHANGED <<operationMu, mu, applock, answer>>
     \/ Leave(r)
  /\ UNCHANGED <<vault, issue, refreshSlot, waiting, refreshing, activity, slot, kind,
                 started, canceled, crashes>>

\* Variant: the mark is only kept in memory.
MarkedUnsaved(r) == [reg[r] EXCEPT ![slot[r]].blocked = FALSE]
\* RefreshBlocked is set in the copy, which becomes the registry.
Marked(r) == [reg[r] EXCEPT ![slot[r]].blocked = TRUE]

muHeld(r) == mu            \* Variant: mu is held over the network exchange.
muReleased(r) == mu \ {r}

\* The durable intent.  mu is released for the exchange.
Mark(r) ==
  /\ pc[r] = "marking" /\ ~canceled[r]
  /\ waiting' = [waiting EXCEPT ![slot[r]] = @ - 1]
  /\ refreshing' = [refreshing EXCEPT ![slot[r]] = {r}]
  /\ vault' = Marked(r)
  /\ reg' = [reg EXCEPT ![r] = Marked(r)]
  /\ refreshSlot' = {slot[r]}
  /\ mu' = muReleased(r)
  /\ pc' = [pc EXCEPT ![r] = "exchanging"]
  /\ started' = [started EXCEPT ![r] = TRUE]
  /\ UNCHANGED <<issue, operationMu, applock, activity, slot, kind, answer, canceled, crashes>>

\* Cancelled in time, or the vault refuses the write (which may have happened).
MarkFails(r) ==
  /\ pc[r] = "marking"
  /\ \/ /\ canceled[r]
        /\ UNCHANGED <<vault, waiting, refreshing, started>>
     \/ /\ ~canceled[r]
        /\ waiting' = [waiting EXCEPT ![slot[r]] = @ - 1]
        /\ refreshing' = [refreshing EXCEPT ![slot[r]] = {r}]
        /\ started' = [started EXCEPT ![r] = TRUE]
        /\ vault' \in {vault, Marked(r)}
  /\ Leave(r)
  /\ UNCHANGED <<issue, refreshSlot, activity, slot, kind, canceled, crashes>>

\* The one exchange of this credential.
Exchange(r) ==
  /\ pc[r] = "exchanging"
  /\ exchanges' = [exchanges EXCEPT ![reg[r][slot[r]].token] = @ + 1]
  /\ pc' = [pc EXCEPT ![r] = "sent"]
  /\ UNCHANGED <<vault, expired, nextToken, memory, applock, activity, slot, reg, kind, answer,
                 started, canceled, crashes>>

\* A new credential of the same identity, or (0) an error, a lost answer, the
\* timeout, or an answer that fails the identity and expiry checks.
Reply(r, good) ==
  /\ pc[r] = "sent"
  /\ good => nextToken <= MaxToken
  /\ answer' = [answer EXCEPT ![r] = IF good THEN nextToken ELSE 0]
  /\ nextToken' = IF good THEN nextToken + 1 ELSE nextToken
  /\ pc' = [pc EXCEPT ![r] = "replied"]
  /\ UNCHANGED <<vault, expired, exchanges, memory, applock, activity, slot, reg, kind,
                 started, canceled, crashes>>

\* Variant: the history binding names the old credential.
RenewedUnbound(a, token) == [a EXCEPT !.token = token, !.owner = HistoryCredential(a),
                                      !.current = a.token, !.blocked = FALSE]
Renewed(a, token) == [a EXCEPT !.token = token, !.owner = HistoryCredential(a),
                               !.current = token, !.blocked = FALSE]

\* mu is taken again; a good answer is written with the whole registry, also
\* for a request cancelled meanwhile.  The write may fail.
Commit(r) ==
  LET next == [reg[r] EXCEPT ![slot[r]] = Renewed(@, answer[r])]
  IN
  /\ pc[r] = "replied" /\ mu = {}
  /\ refreshSlot' = {}
  /\ IF answer[r] = 0 THEN UNCHANGED vault ELSE vault' \in {vault, next}
  /\ Leave(r)
  /\ UNCHANGED <<issue, waiting, refreshing, activity, slot, kind, started, canceled, crashes>>

\* Variants: whatever renewal is shown for the slot is cleared, or none is.
ClearedAll(r) == {}
ClearedNone(r) == refreshing[slot[r]]
\* Only the renewal this request started; another may have begun since.
ClearedOwn(r) == refreshing[slot[r]] \ {r}

\* The deferred finish of authentication.begin, after every lock is released.
Finish(r) ==
  /\ pc[r] = "finishing"
  /\ IF started[r]
     THEN /\ refreshing' = [refreshing EXCEPT ![slot[r]] = ClearedOwn(r)]
          /\ UNCHANGED waiting
     ELSE /\ waiting' = [waiting EXCEPT ![slot[r]] = @ - 1]
          /\ UNCHANGED refreshing
  /\ pc' = [pc EXCEPT ![r] = "idle"]
  /\ slot' = [slot EXCEPT ![r] = 0]
  /\ started' = [started EXCEPT ![r] = FALSE]
  /\ canceled' = [canceled EXCEPT ![r] = FALSE]
  /\ UNCHANGED <<vault, issue, operationMu, mu, refreshSlot, applock, activity, reg, kind,
                 answer, crashes>>

-----------------------------------------------------------------------------
(* Account commands: accountCommand and Manager.Login, Reauthenticate and  *)
(* Logout in a process of their own.                                       *)

CommandUnchanged == <<memory, answer, started, canceled, crashes>>

CommandBegin(c, k, s) ==
  /\ pc[c] = "idle" /\ Undisturbed
  /\ activity' = activity \cup {c}
  /\ pc' = [pc EXCEPT ![c] = "starting"]
  /\ slot' = [slot EXCEPT ![c] = s]
  /\ kind' = [kind EXCEPT ![c] = k]
  /\ UNCHANGED <<CommandUnchanged, vault, issue, applock, reg>>

CommandLock(c) ==
  /\ pc[c] = "starting" /\ Acquirable
  /\ applock' = applock \cup {c}
  /\ pc' = [pc EXCEPT ![c] = "locked"]
  /\ UNCHANGED <<CommandUnchanged, vault, issue, activity, slot, kind, reg>>

\* login wants an empty slot, reauth and logout a registered one.
CommandRead(c) ==
  /\ pc[c] = "locked"
  /\ kind[c] = "login" <=> ~Registered(vault[slot[c]])
  /\ reg' = [reg EXCEPT ![c] = vault]
  /\ pc' = [pc EXCEPT ![c] = "running"]
  /\ UNCHANGED <<CommandUnchanged, vault, issue, applock, activity, slot, kind>>

\* The same identity may not be registered twice, and reauth keeps it.
MayRegister(c, u) == /\ kind[c] = "reauth" => reg[c][slot[c]].user = u
                     /\ \A s \in Slots \ {slot[c]} : reg[c][s].user # u

\* History = nil, a new Registration, RefreshBlocked cleared.
LoggedIn(u, token) == [user |-> u, token |-> token, registration |-> token,
                       blocked |-> FALSE, owner |-> 0, current |-> 0]

CommandOver(c) ==
  /\ applock' = applock \ {c}
  /\ activity' = activity \ {c}
  /\ pc' = [pc EXCEPT ![c] = "idle"]
  /\ slot' = [slot EXCEPT ![c] = 0]
  /\ kind' = [kind EXCEPT ![c] = "none"]
  /\ reg' = [reg EXCEPT ![c] = Nothing]

\* The browser login of identity u was imported.
CommandLogin(c, u) ==
  /\ pc[c] = "running" /\ kind[c] \in {"login", "reauth"}
  /\ MayRegister(c, u)
  /\ nextToken <= MaxToken
  /\ nextToken' = nextToken + 1
  /\ vault' = [reg[c] EXCEPT ![slot[c]] = LoggedIn(u, nextToken)]
  /\ CommandOver(c)
  /\ UNCHANGED <<CommandUnchanged, expired, exchanges>>

CommandLogout(c) ==
  /\ pc[c] = "running" /\ kind[c] = "logout"
  /\ vault' = [reg[c] EXCEPT ![slot[c]] = NoAccount]
  /\ CommandOver(c)
  /\ UNCHANGED <<CommandUnchanged, issue>>

\* Busy, refused, cancelled, failed or crashed: nothing is written.
CommandFails(c) ==
  /\ pc[c] # "idle"
  /\ CommandOver(c)
  /\ UNCHANGED <<CommandUnchanged, vault, issue>>

-----------------------------------------------------------------------------
(* The service around the manager, time, and crashes.                      *)

\* BeginTurn and the release of its lease: a model turn of a connection.
TurnBegin ==
  /\ activity = {}
  /\ activity' = {"turn"}
  /\ UNCHANGED <<vault, issue, memory, applock, locals, crashes>>

TurnEnd ==
  /\ "turn" \in activity
  /\ activity' = activity \ {"turn"}
  /\ UNCHANGED <<vault, issue, memory, applock, locals, crashes>>

\* AccountsIdle takes the file lock for a moment, as "account status" does.
AccountsIdle ==
  /\ \/ applock = {} /\ applock' = {"idle"}
     \/ "idle" \in applock /\ applock' = applock \ {"idle"}
  /\ UNCHANGED <<vault, issue, memory, activity, locals, crashes>>

Expire(s) ==
  /\ Registered(vault[s]) /\ Fresh(vault[s])
  /\ expired' = expired \cup {vault[s].token}
  /\ UNCHANGED <<vault, exchanges, nextToken, memory, applock, activity, locals, crashes>>

\* The service ends at any point; the kernel drops its file locks.
Crash ==
  /\ crashes < MaxCrashes
  /\ crashes' = crashes + 1
  /\ operationMu' = {} /\ mu' = {} /\ refreshSlot' = {}
  /\ waiting' = [s \in Slots |-> 0] /\ refreshing' = [s \in Slots |-> {}]
  /\ applock' = applock \ (Requests \cup {"idle"})
  /\ activity' = activity \ {"turn"}
  /\ pc' = [p \in Procs |-> IF p \in Requests THEN "idle" ELSE pc[p]]
  /\ slot' = [p \in Procs |-> IF p \in Requests THEN 0 ELSE slot[p]]
  /\ reg' = [p \in Procs |-> IF p \in Requests THEN Nothing ELSE reg[p]]
  /\ answer' = [r \in Requests |-> 0]
  /\ started' = [r \in Requests |-> FALSE] /\ canceled' = [r \in Requests |-> FALSE]
  /\ UNCHANGED <<vault, issue, kind>>

-----------------------------------------------------------------------------
Init ==
  /\ vault = Nothing
  /\ expired = {} /\ exchanges = [t \in Tokens |-> 0] /\ nextToken = 1
  /\ operationMu = {} /\ mu = {} /\ refreshSlot = {}
  /\ waiting = [s \in Slots |-> 0] /\ refreshing = [s \in Slots |-> {}]
  /\ applock = {} /\ activity = {}
  /\ pc = [p \in Procs |-> "idle"] /\ slot = [p \in Procs |-> 0]
  /\ reg = [p \in Procs |-> Nothing]
  /\ kind = [c \in Commands |-> "none"]
  /\ answer = [r \in Requests |-> 0]
  /\ started = [r \in Requests |-> FALSE] /\ canceled = [r \in Requests |-> FALSE]
  /\ crashes = 0

\* A step a request takes by itself; the answer of the exchange is apart.
Step(r) == \/ GiveUp(r) \/ TryLock(r) \/ Reread(r) \/ Mark(r) \/ MarkFails(r)
           \/ Exchange(r) \/ Finish(r)
\* The steps that take operationMu or mu.
Gate(r) == requestAccessWithoutRefresh(r) \/ LockOperation(r) \/ ReadAgain(r) \/ Commit(r)
Answer(r) == \E good \in BOOLEAN : Reply(r, good)

Request(r) == \/ \E s \in Slots : Begin(r, s)
              \/ Cancel(r) \/ Step(r) \/ Gate(r) \/ Answer(r)

Command(c) ==
  \/ \E k \in {"login", "reauth", "logout"}, s \in Slots : CommandBegin(c, k, s)
  \/ CommandLock(c) \/ CommandRead(c) \/ CommandLogout(c) \/ CommandFails(c)
  \/ \E u \in Users : CommandLogin(c, u)

Service == \/ TurnBegin \/ TurnEnd \/ AccountsIdle \/ Crash
           \/ \E s \in Slots : Expire(s)

Next ==
  \/ \E r \in Requests : Request(r)
  \/ \E c \in Commands : Command(c)
  \/ Service

Spec == Init /\ [][Next]_vars

\* Goroutines are scheduled, and Go serves the senders blocked on the gate of
\* an operationLock in order, so a waiter is not overtaken for ever.
Scheduling == \A r \in Requests : WF_vars(Step(r)) /\ SF_vars(Gate(r))
\* The exchange ends: it has a timeout of 15 seconds.
Timeouts == \A r \in Requests : WF_vars(Answer(r))

FairSpec == Spec /\ Scheduling

-----------------------------------------------------------------------------
(* Properties.                                                             *)

Account == [user : Users \cup {0}, token : Tokens \cup {0}, registration : Tokens \cup {0},
            blocked : BOOLEAN, owner : Tokens \cup {0}, current : Tokens \cup {0}]
Registry == [Slots -> Account]

Places == {"idle", "fast", "queued", "admitted", "locking", "locked", "marking", "exchanging",
           "sent", "replied", "finishing", "starting", "running"}

TypeVault == /\ vault \in Registry /\ reg \in [Procs -> Registry]
             /\ expired \in SUBSET Tokens /\ exchanges \in [Tokens -> Nat]
             /\ nextToken \in 1..(MaxToken + 1) /\ answer \in [Requests -> Tokens \cup {0}]
TypeMemory == /\ operationMu \in SUBSET Requests /\ mu \in SUBSET Requests
              /\ refreshSlot \in SUBSET Slots
              /\ waiting \in [Slots -> Int] /\ refreshing \in [Slots -> SUBSET Requests]
              /\ started \in [Requests -> BOOLEAN] /\ canceled \in [Requests -> BOOLEAN]
TypePlaces == /\ pc \in [Procs -> Places] /\ slot \in [Procs -> Slots \cup {0}]
              /\ kind \in [Commands -> {"none", "login", "reauth", "logout"}]
              /\ applock \in SUBSET (Procs \cup {"idle"})
              /\ activity \in SUBSET (Commands \cup {"turn"})
              /\ crashes \in Nat
              /\ \A p \in Procs : slot[p] = 0 <=> pc[p] = "idle"

\* Every variable keeps its type, and a slot is set exactly while it is used.
TypeOK == TypeVault /\ TypeMemory /\ TypePlaces

\* No credential is ever sent to be renewed twice: not by requests that queue
\* up for one slot, not after a crash or a lost answer, not by another process
\* that logged the slot in or out meanwhile.
ExchangeOnce == \A t \in Tokens : exchanges[t] <= 1

\* The history of an account belongs to its login: any number of renewals keeps
\* the owner, and a new login never inherits the owner of an earlier one.
HistoryOwner ==
  \A s \in Slots : Registered(vault[s]) => HistoryCredential(vault[s]) = vault[s].registration

\* Manager.read accepts what was written: no identity is in two slots.
RegistryReadable ==
  \A s, t \in Slots : s # t /\ Registered(vault[s]) /\ Registered(vault[t])
                        => vault[s].user # vault[t].user

\* The progress shown to the user: as many requests wait as are counted.  A renewal
\* that runs is shown, from its durable mark to its commit, although the request
\* before it ends meanwhile.  And what is shown is the renewal of a request for this
\* slot that runs it or is about to return (its exchange over, or its mark refused).
ProgressExact ==
  \A s \in Slots :
    /\ waiting[s] = Cardinality({r \in Requests : slot[r] = s /\ ~started[r]})
    /\ \A r \in Requests : slot[r] = s /\ pc[r] \in {"exchanging", "sent", "replied"}
         => refreshing[s] = {r}
    /\ \A r \in refreshing[s] :
         slot[r] = s /\ pc[r] \in {"exchanging", "sent", "replied", "finishing"}

OwnWrite ==
  \A s \in Slots : vault'[s] # vault[s]
    => \E p \in Procs : slot[p] = s /\ pc[p] \in {"marking", "replied", "running"} /\ pc'[p] # pc[p]

\* A write of the whole registry changes only the slot it is for: no update of
\* another request or process is lost.
NoLostUpdate == [][OwnWrite]_vars

KeepsHistory ==
  "turn" \in activity
    => \A s \in Slots : HistoryCredential(vault'[s]) = HistoryCredential(vault[s])

\* What a connection relies on during a turn: the owner of an account's history
\* stays, also when the credential is renewed in the middle.
TurnHistoryStable == [][KeepsHistory]_vars

\* Provided exchanges end, every request for access returns, whatever it waits for.
RequestsReturn == Timeouts => \A r \in Requests : pc[r] # "idle" ~> pc[r] = "idle"

\* An exchange that never answers holds up nobody else's local read: a request
\* for another slot, or for this one, gets past the fast path.
FastPathFree == \A r \in Requests : pc[r] = "fast" ~> pc[r] # "fast"

\* A cancelled request in the queue returns although the exchange before it hangs.
CancelledLeaves == \A r \in Requests : (pc[r] = "queued" /\ canceled[r]) ~> pc[r] # "queued"

-----------------------------------------------------------------------------
(* Why the safety properties hold: an inductive invariant.                 *)

HoldsLock == {"locked", "marking", "exchanging", "sent", "replied", "running"}
HasCopy   == HoldsLock \ {"locked"}
Intent    == {"exchanging", "sent", "replied"}

\* Who is in the middle of a change of the vault holds the file lock alone, and
\* a command holds the activity lock alone.
LocksExclusive ==
  /\ \A p, q \in applock : p = q
  /\ \A p, q \in activity : p = q
  /\ \A p \in Procs : pc[p] \in HoldsLock => p \in applock
  /\ \A c \in Commands : pc[c] # "idle" => c \in activity
  /\ \A r \in Requests : pc[r] # "running"
  /\ \A c \in Commands : pc[c] \in {"idle", "starting", "locked", "running"}

\* The copy somebody works on is the registry itself; a request's own account
\* carries the durable mark from before the exchange until the commit.
CopiesCurrent ==
  /\ \A p \in Procs : pc[p] \in HasCopy => reg[p] = vault
  /\ \A r \in Requests : pc[r] \in {"marking"} \cup Intent => Registered(vault[slot[r]])
  /\ \A r \in Requests : pc[r] \in Intent => vault[slot[r]].blocked
  /\ \A r \in Requests : pc[r] = "marking" => ~vault[slot[r]].blocked

\* A credential is in one place only, and was issued.
TokensUnique ==
  /\ \A s \in Slots : vault[s].token < nextToken
  /\ \A s, t \in Slots : s # t /\ Registered(vault[s]) => vault[s].token # vault[t].token
  /\ \A r \in Requests : pc[r] = "replied" /\ answer[r] # 0 =>
       /\ answer[r] < nextToken /\ exchanges[answer[r]] = 0
       /\ \A s \in Slots : vault[s].token # answer[r]

\* A credential that was sent stays marked for as long as it is stored.
MarkedOnce ==
  /\ ExchangeOnce
  /\ \A t \in Tokens : t >= nextToken => exchanges[t] = 0
  /\ \A s \in Slots : Registered(vault[s]) /\ ~vault[s].blocked => exchanges[vault[s].token] = 0
  /\ \A r \in Requests : pc[r] = "exchanging" => exchanges[vault[slot[r]].token] = 0

\* A request is counted as waiting until its renewal is shown, which it is only from
\* the durable mark on, and finitely many are under way.
Counted ==
  /\ IsFiniteSet({r \in Requests : slot[r] # 0})
  /\ \A s \in Slots : \A r \in refreshing[s] : started[r]
  /\ \A r \in Requests : started[r] => pc[r] \in Intent \cup {"finishing"}

\* The inductive invariant behind the safety properties above.
IInv == /\ TypeOK /\ LocksExclusive /\ CopiesCurrent /\ TokensUnique /\ MarkedOnce
        /\ HistoryOwner /\ RegistryReadable /\ Counted /\ ProgressExact
=============================================================================

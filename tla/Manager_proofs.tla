--------------------------- MODULE Manager_proofs ---------------------------
(***************************************************************************)
(* The safety properties of Manager, for every set of slots, requests,     *)
(* commands and identities and any number of credentials and crashes.      *)
(***************************************************************************)
EXTENDS Manager, FiniteSetTheorems, TLAPS

\* The record of an empty slot, and the registry of empty slots.
LEMMA EmptyType == NoAccount \in Account /\ Nothing \in Registry
BY DEF Nothing, NoAccount, Registry, Account

\* Setting the mark (RefreshBlocked) of the request's own account gives a registry.
LEMMA MarkedType ==
  ASSUME TypeOK, NEW r \in Requests, slot[r] # 0
  PROVE  Marked(r) \in Registry
<1>1. reg[r] \in Registry /\ slot[r] \in Slots
  BY DEF TypeOK, TypeVault, TypePlaces, Procs
<1>2. [reg[r][slot[r]] EXCEPT !.blocked = TRUE] \in Account
  BY <1>1 DEF Registry, Account
<1> QED
  BY <1>1, <1>2 DEF Marked, Registry

\* The owner of an account's history is a credential, or none.
LEMMA HistoryType ==
  ASSUME NEW a \in Account
  PROVE  HistoryCredential(a) \in Tokens \cup {0}
BY DEF HistoryCredential, Account

\* A renewed account is an account.
LEMMA RenewedType ==
  ASSUME NEW a \in Account, NEW t \in Tokens
  PROVE  Renewed(a, t) \in Account
BY HistoryType DEF Renewed, Account

\* A new login is an account.
LEMMA LoggedInType ==
  ASSUME NEW u \in Users, NEW t \in Tokens
  PROVE  LoggedIn(u, t) \in Account
BY DEF LoggedIn, Account

\* The initial state has its type.
LEMMA TypeInit == Init => TypeOK
<1> SUFFICES ASSUME Init PROVE TypeOK
  OBVIOUS
<1> USE ManagerAssumption
<1>1. TypeVault
  BY EmptyType DEF Init, TypeVault, Tokens, Procs
<1>2. TypeMemory
  BY DEF Init, TypeMemory
<1>3. TypePlaces
  BY DEF Init, TypePlaces, Places, Procs
<1> QED
  BY <1>1, <1>2, <1>3 DEF TypeOK

\* Every step of a request (RequestAccessContext) keeps the types.
LEMMA TypeRequest ==
  ASSUME TypeOK, NEW r \in Requests, Request(r)
  PROVE  TypeOK'
<1> USE ManagerAssumption DEF Procs, memory, issue, locals
<1>1. ASSUME NEW s \in Slots, Begin(r, s) PROVE TypeOK'
  <2>1. TypeVault'
    BY <1>1, EmptyType DEF Begin, TypeOK, TypeVault
  <2>2. TypeMemory'
    BY <1>1 DEF Begin, TypeOK, TypeMemory, TypePlaces
  <2>3. TypePlaces'
    BY <1>1 DEF Begin, TypeOK, TypePlaces, Places
  <2> QED
    BY <2>1, <2>2, <2>3 DEF TypeOK
<1>2. CASE Cancel(r)
  <2>1. TypeVault'
    BY <1>2, EmptyType DEF Cancel, TypeOK, TypeVault
  <2>2. TypeMemory'
    BY <1>2 DEF Cancel, TypeOK, TypeMemory, TypePlaces
  <2>3. TypePlaces'
    BY <1>2 DEF Cancel, TypeOK, TypePlaces, Places
  <2> QED
    BY <2>1, <2>2, <2>3 DEF TypeOK
<1>3. CASE requestAccessWithoutRefresh(r)
  <2>1. TypeVault'
    BY <1>3, EmptyType DEF requestAccessWithoutRefresh, TypeOK, TypeVault
  <2>2. TypeMemory'
    BY <1>3 DEF requestAccessWithoutRefresh, TypeOK, TypeMemory, TypePlaces
  <2>3. TypePlaces'
    BY <1>3 DEF requestAccessWithoutRefresh, TypeOK, TypePlaces, Places
  <2> QED
    BY <2>1, <2>2, <2>3 DEF TypeOK
<1>4. CASE GiveUp(r)
  <2>1. TypeVault'
    BY <1>4, EmptyType DEF GiveUp, Cancellable, TypeOK, TypeVault
  <2>2. TypeMemory'
    BY <1>4 DEF GiveUp, Cancellable, TypeOK, TypeMemory, TypePlaces
  <2>3. TypePlaces'
    BY <1>4 DEF GiveUp, Cancellable, TypeOK, TypePlaces, Places
  <2> QED
    BY <2>1, <2>2, <2>3 DEF TypeOK
<1>5. CASE LockOperation(r)
  <2>1. TypeVault'
    BY <1>5, EmptyType DEF LockOperation, TypeOK, TypeVault
  <2>2. TypeMemory'
    BY <1>5 DEF LockOperation, TypeOK, TypeMemory, TypePlaces
  <2>3. TypePlaces'
    BY <1>5 DEF LockOperation, TypeOK, TypePlaces, Places
  <2> QED
    BY <2>1, <2>2, <2>3 DEF TypeOK
<1>6. CASE ReadAgain(r)
  <2>1. TypeVault'
    BY <1>6, EmptyType DEF ReadAgain, Leave, TypeOK, TypeVault
  <2>2. TypeMemory'
    BY <1>6 DEF ReadAgain, Leave, TypeOK, TypeMemory, TypePlaces
  <2>3. TypePlaces'
    BY <1>6 DEF ReadAgain, Leave, TypeOK, TypePlaces, Places
  <2> QED
    BY <2>1, <2>2, <2>3 DEF TypeOK
<1>7. CASE TryLock(r)
  <2>1. TypeVault'
    BY <1>7, EmptyType DEF TryLock, Leave, Acquirable, TypeOK, TypeVault
  <2>2. TypeMemory'
    BY <1>7 DEF TryLock, Leave, Acquirable, TypeOK, TypeMemory, TypePlaces
  <2>3. TypePlaces'
    BY <1>7 DEF TryLock, Leave, Acquirable, TypeOK, TypePlaces, Places
  <2> QED
    BY <2>1, <2>2, <2>3 DEF TypeOK
<1>8. CASE Reread(r)
  <2>1. TypeVault'
    BY <1>8, EmptyType DEF Reread, Leave, Renewable, TypeOK, TypeVault
  <2>2. TypeMemory'
    BY <1>8 DEF Reread, Leave, Renewable, TypeOK, TypeMemory, TypePlaces
  <2>3. TypePlaces'
    BY <1>8 DEF Reread, Leave, Renewable, TypeOK, TypePlaces, Places
  <2> QED
    BY <2>1, <2>2, <2>3 DEF TypeOK
<1>9. CASE Mark(r)
  <2>1. TypeVault'
    BY <1>9, MarkedType DEF Mark, TypeOK, TypeVault, TypePlaces
  <2>2. slot[r] \in Slots
    BY <1>9 DEF Mark, TypeOK, TypePlaces
  <2>3. waiting[slot[r]] \in Int
    BY <2>2 DEF TypeOK, TypeMemory
  <2>4. waiting[slot[r]] - 1 \in Int
    BY <2>3
  <2>5. waiting' \in [Slots -> Int]
    BY <1>9, <2>4 DEF Mark, TypeOK, TypeMemory
  <2>6. refreshing' \in [Slots -> SUBSET Requests]
    BY <1>9 DEF Mark, TypeOK, TypeMemory
  <2>7. TypeMemory'
    BY <1>9, <2>5, <2>6 DEF Mark, muReleased, TypeOK, TypeMemory, TypePlaces
  <2>8. TypePlaces'
    BY <1>9 DEF Mark, muReleased, TypeOK, TypePlaces, Places
  <2> QED
    BY <2>1, <2>7, <2>8 DEF TypeOK
<1>10. CASE MarkFails(r)
  <2>1. TypeVault'
    BY <1>10, MarkedType, EmptyType DEF MarkFails, Leave, TypeOK, TypeVault, TypePlaces
  <2>2. waiting' \in [Slots -> Int] /\ refreshing' \in [Slots -> SUBSET Requests]
    BY <1>10 DEF MarkFails, TypeOK, TypeMemory
  <2>3. TypeMemory'
    BY <1>10, <2>2 DEF MarkFails, Leave, TypeOK, TypeMemory, TypePlaces
  <2>4. TypePlaces'
    BY <1>10 DEF MarkFails, Leave, TypeOK, TypePlaces, Places
  <2> QED
    BY <2>1, <2>2, <2>3, <2>4 DEF TypeOK
<1>11. CASE Exchange(r)
  <2>1. PICK t : exchanges' = [exchanges EXCEPT ![t] = exchanges[t] + 1]
    BY <1>11 DEF Exchange
  <2>2. exchanges \in [Tokens -> Nat]
    BY DEF TypeOK, TypeVault
  <2>3. t \in Tokens => exchanges[t] + 1 \in Nat
    BY <2>2
  <2>4. exchanges' \in [Tokens -> Nat]
    BY <2>1, <2>2, <2>3
  <2>5. TypeVault'
    BY <1>11, <2>4 DEF Exchange, TypeOK, TypeVault
  <2>6. TypeMemory'
    BY <1>11 DEF Exchange, TypeOK, TypeMemory, TypePlaces
  <2>7. TypePlaces'
    BY <1>11 DEF Exchange, TypeOK, TypePlaces, Places
  <2> QED
    BY <2>5, <2>6, <2>7 DEF TypeOK
<1>12. ASSUME NEW good \in BOOLEAN, Reply(r, good) PROVE TypeOK'
  <2>1. TypeVault'
    BY <1>12 DEF Reply, TypeOK, TypeVault, Tokens
  <2>2. TypeMemory'
    BY <1>12 DEF Reply, TypeOK, TypeMemory, TypePlaces
  <2>3. TypePlaces'
    BY <1>12 DEF Reply, TypeOK, TypePlaces, Places
  <2> QED
    BY <2>1, <2>2, <2>3 DEF TypeOK
<1>13. CASE Commit(r)
  <2>1. reg[r] \in Registry /\ slot[r] \in Slots
    BY <1>13 DEF Commit, TypeOK, TypeVault, TypePlaces
  <2>2. answer[r] # 0 => Renewed(reg[r][slot[r]], answer[r]) \in Account
    BY <2>1, RenewedType DEF TypeOK, TypeVault, Registry
  <2>3. vault' \in Registry
    BY <1>13, <2>1, <2>2 DEF Commit, TypeOK, TypeVault, Registry
  <2>4. TypeVault'
    BY <1>13, <2>3, EmptyType DEF Commit, Leave, TypeOK, TypeVault
  <2>5. TypeMemory'
    BY <1>13 DEF Commit, Leave, TypeOK, TypeMemory, TypePlaces
  <2>6. TypePlaces'
    BY <1>13 DEF Commit, Leave, TypeOK, TypePlaces, Places
  <2> QED
    BY <2>4, <2>5, <2>6 DEF TypeOK
<1>14. CASE Finish(r)
  <2>1. TypeVault'
    BY <1>14, EmptyType DEF Finish, ClearedOwn, TypeOK, TypeVault
  <2>2. TypeMemory'
    BY <1>14 DEF Finish, ClearedOwn, TypeOK, TypeMemory, TypePlaces
  <2>3. TypePlaces'
    BY <1>14 DEF Finish, ClearedOwn, TypeOK, TypePlaces, Places
  <2> QED
    BY <2>1, <2>2, <2>3 DEF TypeOK
<1> QED
  BY <1>1, <1>2, <1>3, <1>4, <1>5, <1>6, <1>7, <1>8, <1>9, <1>10, <1>11, <1>12, <1>13, <1>14
  DEF Request, Step, Gate, Answer

\* Every step of an account command keeps the types.
LEMMA TypeCommand ==
  ASSUME TypeOK, NEW c \in Commands, Command(c)
  PROVE  TypeOK'
<1> USE ManagerAssumption DEF Procs, memory, issue, locals
<1>1. ASSUME NEW k \in {"login", "reauth", "logout"}, NEW s \in Slots, CommandBegin(c, k, s)
      PROVE  TypeOK'
  <2>1. TypeVault'
    BY <1>1, EmptyType DEF CommandBegin, Undisturbed, CommandUnchanged, TypeOK, TypeVault
  <2>2. TypeMemory'
    BY <1>1 DEF CommandBegin, Undisturbed, CommandUnchanged, TypeOK, TypeMemory, TypePlaces
  <2>3. TypePlaces'
    BY <1>1 DEF CommandBegin, Undisturbed, CommandUnchanged, TypeOK, TypePlaces, Places
  <2> QED
    BY <2>1, <2>2, <2>3 DEF TypeOK
<1>2. CASE CommandLock(c)
  <2>1. TypeVault'
    BY <1>2, EmptyType DEF CommandLock, Acquirable, CommandUnchanged, TypeOK, TypeVault
  <2>2. TypeMemory'
    BY <1>2 DEF CommandLock, Acquirable, CommandUnchanged, TypeOK, TypeMemory, TypePlaces
  <2>3. TypePlaces'
    BY <1>2 DEF CommandLock, Acquirable, CommandUnchanged, TypeOK, TypePlaces, Places
  <2> QED
    BY <2>1, <2>2, <2>3 DEF TypeOK
<1>3. CASE CommandRead(c)
  <2>1. TypeVault'
    BY <1>3, EmptyType DEF CommandRead, CommandUnchanged, TypeOK, TypeVault
  <2>2. TypeMemory'
    BY <1>3 DEF CommandRead, CommandUnchanged, TypeOK, TypeMemory, TypePlaces
  <2>3. TypePlaces'
    BY <1>3 DEF CommandRead, CommandUnchanged, TypeOK, TypePlaces, Places
  <2> QED
    BY <2>1, <2>2, <2>3 DEF TypeOK
<1>4. ASSUME NEW u \in Users, CommandLogin(c, u) PROVE TypeOK'
  <2>1. reg[c] \in Registry /\ slot[c] \in Slots /\ nextToken \in Tokens
    BY <1>4 DEF CommandLogin, TypeOK, TypeVault, TypePlaces, Tokens
  <2>2. vault' \in Registry
    BY <1>4, <2>1, LoggedInType DEF CommandLogin, Registry
  <2>3. TypeVault'
    BY <1>4, <2>2, EmptyType DEF CommandLogin, CommandOver, CommandUnchanged, TypeOK, TypeVault
  <2>4. TypeMemory'
    BY <1>4 DEF CommandLogin, CommandOver, CommandUnchanged, TypeOK, TypeMemory, TypePlaces
  <2>5. TypePlaces'
    BY <1>4 DEF CommandLogin, CommandOver, CommandUnchanged, TypeOK, TypePlaces, Places
  <2> QED
    BY <2>3, <2>4, <2>5 DEF TypeOK
<1>5. CASE CommandLogout(c)
  <2>1. reg[c] \in Registry /\ slot[c] \in Slots
    BY <1>5 DEF CommandLogout, TypeOK, TypeVault, TypePlaces
  <2>2. vault' \in Registry
    BY <1>5, <2>1, EmptyType DEF CommandLogout, Registry
  <2>3. TypeVault'
    BY <1>5, <2>2, EmptyType DEF CommandLogout, CommandOver, CommandUnchanged, TypeOK, TypeVault
  <2>4. TypeMemory'
    BY <1>5 DEF CommandLogout, CommandOver, CommandUnchanged, TypeOK, TypeMemory, TypePlaces
  <2>5. TypePlaces'
    BY <1>5 DEF CommandLogout, CommandOver, CommandUnchanged, TypeOK, TypePlaces, Places
  <2> QED
    BY <2>3, <2>4, <2>5 DEF TypeOK
<1>6. CASE CommandFails(c)
  <2>1. TypeVault'
    BY <1>6, EmptyType DEF CommandFails, CommandOver, CommandUnchanged, TypeOK, TypeVault
  <2>2. TypeMemory'
    BY <1>6 DEF CommandFails, CommandOver, CommandUnchanged, TypeOK, TypeMemory, TypePlaces
  <2>3. TypePlaces'
    BY <1>6 DEF CommandFails, CommandOver, CommandUnchanged, TypeOK, TypePlaces, Places
  <2> QED
    BY <2>1, <2>2, <2>3 DEF TypeOK
<1> QED
  BY <1>1, <1>2, <1>3, <1>4, <1>5, <1>6 DEF Command

\* Turns, status checks, time and crashes keep the types.
LEMMA TypeService ==
  ASSUME TypeOK, Service
  PROVE  TypeOK'
<1> USE ManagerAssumption DEF Procs, memory, issue, locals
<1>1. CASE TurnBegin
  <2>1. TypeVault'
    BY <1>1, EmptyType DEF TurnBegin, TypeOK, TypeVault
  <2>2. TypeMemory'
    BY <1>1 DEF TurnBegin, TypeOK, TypeMemory, TypePlaces
  <2>3. TypePlaces'
    BY <1>1 DEF TurnBegin, TypeOK, TypePlaces, Places
  <2> QED
    BY <2>1, <2>2, <2>3 DEF TypeOK
<1>2. CASE TurnEnd
  <2>1. TypeVault'
    BY <1>2, EmptyType DEF TurnEnd, TypeOK, TypeVault
  <2>2. TypeMemory'
    BY <1>2 DEF TurnEnd, TypeOK, TypeMemory, TypePlaces
  <2>3. TypePlaces'
    BY <1>2 DEF TurnEnd, TypeOK, TypePlaces, Places
  <2> QED
    BY <2>1, <2>2, <2>3 DEF TypeOK
<1>3. CASE AccountsIdle
  <2>1. TypeVault'
    BY <1>3, EmptyType DEF AccountsIdle, TypeOK, TypeVault
  <2>2. TypeMemory'
    BY <1>3 DEF AccountsIdle, TypeOK, TypeMemory, TypePlaces
  <2>3. TypePlaces'
    BY <1>3 DEF AccountsIdle, TypeOK, TypePlaces, Places
  <2> QED
    BY <2>1, <2>2, <2>3 DEF TypeOK
<1>4. CASE Crash
  <2>1. TypeVault'
    BY <1>4, EmptyType DEF Crash, TypeOK, TypeVault
  <2>2. TypeMemory'
    BY <1>4 DEF Crash, TypeOK, TypeMemory, TypePlaces
  <2>3. TypePlaces'
    BY <1>4 DEF Crash, TypeOK, TypePlaces, Places
  <2> QED
    BY <2>1, <2>2, <2>3 DEF TypeOK
<1>5. ASSUME NEW s \in Slots, Expire(s) PROVE TypeOK'
  <2>1. TypeVault'
    BY <1>5 DEF Expire, Registered, TypeOK, TypeVault, Registry, Account
  <2>2. TypeMemory'
    BY <1>5 DEF Expire, TypeOK, TypeMemory, TypePlaces
  <2>3. TypePlaces'
    BY <1>5 DEF Expire, TypeOK, TypePlaces, Places
  <2> QED
    BY <2>1, <2>2, <2>3 DEF TypeOK
<1> QED
  BY <1>1, <1>2, <1>3, <1>4, <1>5 DEF Service

-----------------------------------------------------------------------------
(* The locks.                                                              *)

\* At most one process is between taking the file lock and releasing it.
LEMMA Alone ==
  ASSUME LocksExclusive, NEW p \in Procs, NEW q \in Procs,
         pc[p] \in HoldsLock, pc[q] \in HoldsLock
  PROVE  p = q
BY DEF LocksExclusive

\* Nobody holds a lock in the initial state.
LEMMA LocksInit == Init => LocksExclusive
BY DEF Init, LocksExclusive, HoldsLock, Procs

\* A request takes the file lock only when it is free (applock.Acquire).
LEMMA LocksRequest ==
  ASSUME TypeOK, LocksExclusive, NEW r \in Requests, Request(r)
  PROVE  LocksExclusive'
<1> USE ManagerAssumption DEF TypeOK, TypePlaces, HoldsLock, Procs, memory, issue, locals
<1>1. ASSUME NEW s \in Slots, Begin(r, s) PROVE LocksExclusive'
  BY <1>1 DEF Begin, LocksExclusive
<1>2. CASE Cancel(r)
  BY <1>2 DEF Cancel, LocksExclusive
<1>3. CASE requestAccessWithoutRefresh(r)
  BY <1>3 DEF requestAccessWithoutRefresh, LocksExclusive
<1>4. CASE GiveUp(r)
  BY <1>4 DEF GiveUp, Cancellable, LocksExclusive
<1>5. CASE LockOperation(r)
  BY <1>5 DEF LockOperation, LocksExclusive
<1>6. CASE ReadAgain(r)
  BY <1>6 DEF ReadAgain, Leave, LocksExclusive
<1>7. CASE TryLock(r)
  BY <1>7 DEF TryLock, Leave, Acquirable, LocksExclusive
<1>8. CASE Reread(r)
  BY <1>8 DEF Reread, Leave, Renewable, LocksExclusive
<1>9. CASE Mark(r)
  BY <1>9 DEF Mark, muReleased, LocksExclusive
<1>10. CASE MarkFails(r)
  BY <1>10 DEF MarkFails, Leave, LocksExclusive
<1>11. CASE Exchange(r)
  BY <1>11 DEF Exchange, LocksExclusive
<1>12. ASSUME NEW good \in BOOLEAN, Reply(r, good) PROVE LocksExclusive'
  BY <1>12 DEF Reply, LocksExclusive
<1>13. CASE Commit(r)
  BY <1>13 DEF Commit, Leave, LocksExclusive
<1>14. CASE Finish(r)
  BY <1>14 DEF Finish, ClearedOwn, LocksExclusive
<1> QED
  BY <1>1, <1>2, <1>3, <1>4, <1>5, <1>6, <1>7, <1>8, <1>9, <1>10, <1>11, <1>12, <1>13, <1>14
  DEF Request, Step, Gate, Answer

\* A command takes the activity lock and the file lock only when they are free.
LEMMA LocksCommand ==
  ASSUME TypeOK, LocksExclusive, NEW c \in Commands, Command(c)
  PROVE  LocksExclusive'
<1> USE ManagerAssumption DEF TypeOK, TypePlaces, HoldsLock, Procs, memory, issue, locals
<1>1. ASSUME NEW k \in {"login", "reauth", "logout"}, NEW s \in Slots, CommandBegin(c, k, s)
      PROVE  LocksExclusive'
  BY <1>1 DEF CommandBegin, Undisturbed, CommandUnchanged, LocksExclusive
<1>2. CASE CommandLock(c)
  BY <1>2 DEF CommandLock, Acquirable, CommandUnchanged, LocksExclusive
<1>3. CASE CommandRead(c)
  BY <1>3 DEF CommandRead, CommandUnchanged, LocksExclusive
<1>4. ASSUME NEW u \in Users, CommandLogin(c, u) PROVE LocksExclusive'
  BY <1>4 DEF CommandLogin, CommandOver, CommandUnchanged, LocksExclusive
<1>5. CASE CommandLogout(c)
  BY <1>5 DEF CommandLogout, CommandOver, CommandUnchanged, LocksExclusive
<1>6. CASE CommandFails(c)
  BY <1>6 DEF CommandFails, CommandOver, CommandUnchanged, LocksExclusive
<1> QED
  BY <1>1, <1>2, <1>3, <1>4, <1>5, <1>6 DEF Command

\* A turn or a status check takes its lock only when free; a crash drops the
\* locks of the service, and nobody else's.
LEMMA LocksService ==
  ASSUME TypeOK, LocksExclusive, Service
  PROVE  LocksExclusive'
<1> USE ManagerAssumption DEF TypeOK, TypePlaces, HoldsLock, Procs, memory, issue, locals
<1>1. CASE TurnBegin
  BY <1>1 DEF TurnBegin, LocksExclusive
<1>2. CASE TurnEnd
  BY <1>2 DEF TurnEnd, LocksExclusive
<1>3. CASE AccountsIdle
  BY <1>3 DEF AccountsIdle, LocksExclusive
<1>4. CASE Crash
  BY <1>4 DEF Crash, LocksExclusive
<1>5. ASSUME NEW s \in Slots, Expire(s) PROVE LocksExclusive'
  BY <1>5 DEF Expire, LocksExclusive
<1> QED
  BY <1>1, <1>2, <1>3, <1>4, <1>5 DEF Service

-----------------------------------------------------------------------------
(* The vault.                                                              *)

\* The part of the invariant that is about the vault and its copies.
Safe == CopiesCurrent /\ TokensUnique /\ MarkedOnce /\ HistoryOwner /\ RegistryReadable

\* A step that leaves the vault alone and what others are in the middle of.
Quiet == /\ UNCHANGED <<vault, exchanges, nextToken>>
         /\ \A p \in Procs : pc'[p] \in HasCopy =>
              pc'[p] = pc[p] /\ reg'[p] = reg[p] /\ slot'[p] = slot[p]
         /\ \A r \in Requests : pc'[r] = "replied" => answer'[r] = answer[r]

\* The empty vault satisfies the invariant.
LEMMA SafeInit == Init => Safe
<1> SUFFICES ASSUME Init PROVE Safe
  OBVIOUS
<1> USE ManagerAssumption DEF Init, Nothing, NoAccount, Registered
<1>1. CopiesCurrent
  BY DEF CopiesCurrent, HasCopy, HoldsLock, Intent, Procs
<1>2. TokensUnique
  BY DEF TokensUnique, Procs
<1>3. MarkedOnce
  BY DEF MarkedOnce, ExchangeOnce, Procs
<1>4. HistoryOwner /\ RegistryReadable
  BY DEF HistoryOwner, RegistryReadable
<1> QED
  BY <1>1, <1>2, <1>3, <1>4 DEF Safe

\* A quiet step keeps what is known about the vault.
LEMMA QuietSafe ==
  ASSUME Safe, Quiet
  PROVE  Safe'
<1>1. CopiesCurrent'
  BY DEF Safe, Quiet, CopiesCurrent, HasCopy, HoldsLock, Intent, Procs, Registered
<1>2. TokensUnique'
  BY DEF Safe, Quiet, TokensUnique, HasCopy, HoldsLock, Procs, Registered
<1>3. MarkedOnce'
  BY DEF Safe, Quiet, MarkedOnce, ExchangeOnce, HasCopy, HoldsLock, Procs, Registered
<1>4. HistoryOwner' /\ RegistryReadable'
  BY DEF Safe, Quiet, HistoryOwner, RegistryReadable, Registered, HistoryCredential
<1> QED
  BY <1>1, <1>2, <1>3, <1>4 DEF Safe

\* Whoever holds the copy writes: the others have none, before and after.
LEMMA OthersHaveNone ==
  ASSUME LocksExclusive, NEW p \in Procs, pc[p] \in HoldsLock,
         NEW q \in Procs, q # p
  PROVE  pc[q] \notin HasCopy
BY Alone DEF HasCopy

\* The owner of an account's history survives a renewal.
LEMMA RenewedOwner ==
  ASSUME NEW a \in Account, Registered(a), NEW t \in Tokens
  PROVE  /\ HistoryCredential(Renewed(a, t)) = HistoryCredential(a)
         /\ Renewed(a, t).registration = a.registration
         /\ Renewed(a, t).user = a.user
         /\ Renewed(a, t).token = t
         /\ Renewed(a, t).blocked = FALSE
<1>1. HistoryCredential(a) # 0 /\ t # 0
  BY ManagerAssumption DEF HistoryCredential, Registered, Tokens
<1>2. /\ Renewed(a, t).token = t /\ Renewed(a, t).current = t
      /\ Renewed(a, t).owner = HistoryCredential(a)
      /\ Renewed(a, t).registration = a.registration /\ Renewed(a, t).user = a.user
      /\ Renewed(a, t).blocked = FALSE
  BY DEF Renewed, Account
<1> QED
  BY <1>1, <1>2 DEF HistoryCredential

\* Only the mark of the request's own account differs.
LEMMA MarkedFacts ==
  ASSUME TypeOK, NEW r \in Requests, slot[r] # 0, reg[r] = vault, NEW s \in Slots
  PROVE  /\ Marked(r)[s].token = vault[s].token
         /\ Marked(r)[s].user = vault[s].user
         /\ Marked(r)[s].registration = vault[s].registration
         /\ HistoryCredential(Marked(r)[s]) = HistoryCredential(vault[s])
         /\ Marked(r)[s].blocked = (s = slot[r] \/ vault[s].blocked)
<1>1. slot[r] \in Slots /\ vault \in [Slots -> Account]
  BY DEF TypeOK, TypeVault, TypePlaces, Procs, Registry
<1>2. CASE s = slot[r]
  <2>1. Marked(r)[s] = [vault[s] EXCEPT !.blocked = TRUE]
    BY <1>1, <1>2 DEF Marked
  <2>2. vault[s] \in Account
    BY <1>1
  <2>3. /\ Marked(r)[s].token = vault[s].token /\ Marked(r)[s].user = vault[s].user
        /\ Marked(r)[s].registration = vault[s].registration
        /\ Marked(r)[s].owner = vault[s].owner /\ Marked(r)[s].current = vault[s].current
        /\ Marked(r)[s].blocked = TRUE
    BY <2>1, <2>2 DEF Account
  <2> QED
    BY <1>2, <2>3 DEF HistoryCredential
<1>3. CASE s # slot[r]
  <2>1. Marked(r)[s] = vault[s]
    BY <1>1, <1>3 DEF Marked
  <2> QED
    BY <1>1, <1>3, <2>1 DEF Account
<1> QED
  BY <1>2, <1>3

\* Writing the mark, with or without going on.
LEMMA MarkSafe ==
  ASSUME TypeOK, LocksExclusive, Safe, NEW r \in Requests, pc[r] = "marking",
         vault' = Marked(r), UNCHANGED <<exchanges, nextToken>>,
         \A p \in Procs : p # r => pc'[p] = pc[p],
         UNCHANGED slot,
         \/ pc'[r] = "exchanging" /\ reg'[r] = Marked(r)
         \/ pc'[r] = "finishing"
  PROVE  Safe'
<1>1. r \in Procs /\ slot[r] # 0 /\ slot[r] \in Slots /\ reg[r] = vault
  BY DEF TypeOK, TypePlaces, Procs, Safe, CopiesCurrent, HasCopy, HoldsLock
<1>2. \A p \in Procs : p # r => pc'[p] \notin HasCopy
  BY <1>1, OthersHaveNone DEF HoldsLock
<1>3. \A s \in Slots : /\ vault'[s].token = vault[s].token
                       /\ vault'[s].user = vault[s].user
                       /\ vault'[s].registration = vault[s].registration
                       /\ HistoryCredential(vault'[s]) = HistoryCredential(vault[s])
                       /\ vault'[s].blocked = (s = slot[r] \/ vault[s].blocked)
  BY <1>1, MarkedFacts
<1>4. Registered(vault[slot[r]]) /\ ~vault[slot[r]].blocked
  BY DEF Safe, CopiesCurrent
<1>5. exchanges[vault[slot[r]].token] = 0
  BY <1>1, <1>4 DEF Safe, MarkedOnce
<1>6. CopiesCurrent'
  BY <1>1, <1>2, <1>3, <1>4, ZenonT(30) DEF CopiesCurrent, HasCopy, HoldsLock, Intent, Procs, Registered
<1>7. TokensUnique'
  BY <1>1, <1>2, <1>3 DEF Safe, TokensUnique, HasCopy, HoldsLock, Procs, Registered
<1>8. MarkedOnce'
  <2>1. ExchangeOnce' /\ (\A t \in Tokens : t >= nextToken => exchanges[t] = 0)'
    BY DEF Safe, MarkedOnce, ExchangeOnce
  <2>2. ASSUME NEW s \in Slots, Registered(vault'[s]), ~vault'[s].blocked
        PROVE  exchanges'[vault'[s].token] = 0
    BY <1>3, <2>2, ZenonT(30) DEF Safe, MarkedOnce, Registered
  <2>3. ASSUME NEW q \in Requests, pc'[q] = "exchanging"
        PROVE  exchanges'[vault'[slot'[q]].token] = 0
    BY <1>1, <1>2, <1>3, <1>5, <2>3 DEF HasCopy, HoldsLock, Procs
  <2> QED
    BY <2>1, <2>2, <2>3 DEF MarkedOnce
<1>9. HistoryOwner' /\ RegistryReadable'
  BY <1>3 DEF Safe, HistoryOwner, RegistryReadable, Registered
<1> QED
  BY <1>6, <1>7, <1>8, <1>9 DEF Safe

\* The exchange itself: the credential was not sent before.
LEMMA ExchangeSafe ==
  ASSUME TypeOK, LocksExclusive, Safe, NEW r \in Requests, Exchange(r)
  PROVE  Safe'
<1> USE DEF Exchange, memory, issue, locals
<1> DEFINE t == vault[slot[r]].token
<1>1. r \in Procs /\ slot[r] \in Slots /\ reg[r] = vault /\ pc[r] \in HoldsLock
  BY DEF TypeOK, TypePlaces, Procs, Safe, CopiesCurrent, HasCopy, HoldsLock
<1>2. \A p \in Procs : p # r => pc'[p] \notin HasCopy
  BY <1>1, OthersHaveNone DEF TypeOK, TypePlaces
<1>3. pc'[r] = "sent"
  BY <1>1 DEF TypeOK, TypePlaces
<1>4. Registered(vault[slot[r]]) /\ vault[slot[r]].blocked /\ exchanges[t] = 0 /\ t < nextToken
  BY <1>1 DEF Safe, CopiesCurrent, MarkedOnce, TokensUnique, Intent
<1>5. exchanges \in [Tokens -> Nat] /\ t \in Tokens
  BY <1>1, <1>4 DEF TypeOK, TypeVault, Registry, Account, Registered
<1>6. exchanges'[t] = 1 /\ \A u \in Tokens : u # t => exchanges'[u] = exchanges[u]
  BY <1>1, <1>4, <1>5
<1>7. CopiesCurrent'
  BY <1>1, <1>2, <1>3, <1>4 DEF Safe, CopiesCurrent, HasCopy, HoldsLock, Intent, Procs, Registered
<1>8. TokensUnique'
  BY <1>1, <1>2, <1>3 DEF Safe, TokensUnique, HasCopy, HoldsLock, Procs, Registered
<1>9. MarkedOnce'
  <2>1. ExchangeOnce'
    BY <1>6 DEF Safe, MarkedOnce, ExchangeOnce
  <2>2. (\A u \in Tokens : u >= nextToken => exchanges[u] = 0)'
    BY <1>4, <1>5, <1>6 DEF Safe, MarkedOnce, TypeOK, TypeVault, Tokens
  <2>3. ASSUME NEW s \in Slots, Registered(vault[s]), ~vault[s].blocked
        PROVE  exchanges'[vault[s].token] = 0
    <3>1. vault[s].token # t
      BY <1>1, <1>4, <2>3 DEF Safe, TokensUnique
    <3>2. vault[s].token \in Tokens
      BY <2>3 DEF TypeOK, TypeVault, Registry, Account, Registered
    <3> QED
      BY <1>6, <2>3, <3>1, <3>2 DEF Safe, MarkedOnce
  <2> QED
    BY <1>2, <1>3, <2>1, <2>2, <2>3 DEF MarkedOnce, HasCopy, HoldsLock, Procs, Registered
<1>10. HistoryOwner' /\ RegistryReadable'
  BY DEF Safe, HistoryOwner, RegistryReadable, Registered, HistoryCredential
<1> QED
  BY <1>7, <1>8, <1>9, <1>10 DEF Safe

\* A good answer is a credential nobody has.
LEMMA ReplySafe ==
  ASSUME TypeOK, LocksExclusive, Safe, NEW r \in Requests, NEW good \in BOOLEAN, Reply(r, good)
  PROVE  Safe'
<1> USE DEF Reply, memory, issue, locals
<1>1. r \in Procs /\ pc[r] \in HoldsLock /\ pc'[r] = "replied"
  BY DEF TypeOK, TypePlaces, Procs, HoldsLock
<1>2. \A p \in Procs : p # r => pc'[p] \notin HasCopy
  BY <1>1, OthersHaveNone DEF TypeOK, TypePlaces
<1>3. answer'[r] = IF good THEN nextToken ELSE 0
  BY DEF TypeOK, TypeVault
<1>4. nextToken \in Int /\ nextToken' \in Int /\ nextToken' >= nextToken
      /\ \A s \in Slots : vault[s].token \in Int
  BY ManagerAssumption DEF TypeOK, TypeVault, Registry, Account, Tokens
<1>5. good => nextToken \in Tokens /\ nextToken' = nextToken + 1
  BY ManagerAssumption DEF TypeOK, TypeVault, Tokens
<1>6. CopiesCurrent'
  BY <1>1, <1>2 DEF Safe, CopiesCurrent, HasCopy, HoldsLock, Intent, Procs, Registered
<1>7. TokensUnique'
  BY <1>1, <1>2, <1>3, <1>4, <1>5 DEF Safe, TokensUnique, MarkedOnce, HasCopy, HoldsLock, Procs, Registered
<1>8. MarkedOnce'
  BY <1>1, <1>2, <1>4 DEF Safe, MarkedOnce, ExchangeOnce, HasCopy, HoldsLock, Procs, Registered, Tokens
<1>9. HistoryOwner' /\ RegistryReadable'
  BY DEF Safe, HistoryOwner, RegistryReadable, Registered, HistoryCredential
<1> QED
  BY <1>6, <1>7, <1>8, <1>9 DEF Safe

\* Replacing one account by an empty or a new one, by the only holder of a copy.
LEMMA WriteSafe ==
  ASSUME TypeOK, Safe, NEW o \in Slots, NEW a \in Account,
         vault' = [vault EXCEPT ![o] = a], UNCHANGED exchanges,
         \A p \in Procs : pc'[p] \notin HasCopy,
         nextToken' \in Int, nextToken' >= nextToken, a.token < nextToken',
         Registered(a) =>
           /\ exchanges[a.token] = 0
           /\ HistoryCredential(a) = a.registration
           /\ \A s \in Slots : vault[s].token # a.token
           /\ \A s \in Slots \ {o} : Registered(vault[s]) => vault[s].user # a.user
  PROVE  Safe'
<1>1. vault'[o] = a /\ \A s \in Slots : s # o => vault'[s] = vault[s]
  BY DEF TypeOK, TypeVault, Registry
<1>2. nextToken \in Int /\ \A s \in Slots : vault[s].token \in Int
  BY ManagerAssumption DEF TypeOK, TypeVault, Registry, Account, Tokens
<1>3. CopiesCurrent'
  BY DEF CopiesCurrent, HasCopy, HoldsLock, Intent, Procs
<1>4. TokensUnique'
  <2>1. ASSUME NEW s \in Slots PROVE vault'[s].token < nextToken'
    BY <1>1, <1>2 DEF Safe, TokensUnique
  <2>2. ASSUME NEW s \in Slots, NEW t \in Slots, s # t, Registered(vault'[s])
        PROVE  vault'[s].token # vault'[t].token
    BY <1>1, <2>2 DEF Safe, TokensUnique, Registered
  <2> QED
    BY <2>1, <2>2 DEF TokensUnique, HasCopy, HoldsLock, Procs, Registered
<1>5. MarkedOnce'
  <2>1. ExchangeOnce'
    BY DEF Safe, MarkedOnce, ExchangeOnce
  <2>2. ASSUME NEW t \in Tokens, t >= nextToken' PROVE exchanges'[t] = 0
    BY <1>2, <2>2 DEF Safe, MarkedOnce, Tokens
  <2>3. ASSUME NEW s \in Slots, Registered(vault'[s]), ~vault'[s].blocked
        PROVE  exchanges'[vault'[s].token] = 0
    BY <1>1, <2>3 DEF Safe, MarkedOnce
  <2> QED
    BY <2>1, <2>2, <2>3 DEF MarkedOnce, HasCopy, HoldsLock, Procs, Registered
<1>6. HistoryOwner'
  BY <1>1 DEF Safe, HistoryOwner, Registered
<1>7. RegistryReadable'
  <2>1. ASSUME NEW s \in Slots, NEW t \in Slots, s # t, Registered(vault'[s]), Registered(vault'[t])
        PROVE  vault'[s].user # vault'[t].user
    BY <1>1, <2>1 DEF Safe, RegistryReadable
  <2> QED
    BY <2>1 DEF RegistryReadable, Registered
<1> QED
  BY <1>3, <1>4, <1>5, <1>6, <1>7 DEF Safe

\* The commit of a renewal writes the copy the file lock has kept current.
LEMMA CommitSafe ==
  ASSUME TypeOK, LocksExclusive, Safe, NEW r \in Requests, Commit(r)
  PROVE  Safe'
<1>1. /\ r \in Procs /\ slot[r] \in Slots /\ pc[r] \in HoldsLock /\ reg[r] = vault
      /\ Registered(vault[slot[r]])
  BY DEF Commit, TypeOK, TypePlaces, Procs, Safe, CopiesCurrent, HasCopy, HoldsLock, Intent
<1>2. \A p \in Procs : pc'[p] \notin HasCopy
  <2>1. \A p \in Procs : p # r => pc'[p] = pc[p]
    BY DEF Commit, Leave, TypeOK, TypePlaces
  <2>2. pc'[r] = "finishing"
    BY <1>1 DEF Commit, Leave, TypeOK, TypePlaces
  <2> QED
    BY <1>1, <2>1, <2>2, OthersHaveNone DEF HasCopy, HoldsLock
<1>3. CASE vault' = vault
  <2>1. Quiet
    BY <1>2, <1>3 DEF Quiet, Commit, Leave, issue, HasCopy, HoldsLock, Procs
  <2> QED
    BY <2>1, QuietSafe
<1>4. CASE vault' # vault
  <2> DEFINE a == Renewed(vault[slot[r]], answer[r])
  <2>1. answer[r] # 0 /\ vault' = [vault EXCEPT ![slot[r]] = a]
    BY <1>1, <1>4 DEF Commit
  <2>2. answer[r] \in Tokens /\ vault[slot[r]] \in Account
    BY <1>1, <2>1 DEF TypeOK, TypeVault, Registry
  <2>3. /\ a \in Account /\ a.token = answer[r] /\ a.user = vault[slot[r]].user
        /\ a.registration = vault[slot[r]].registration
        /\ HistoryCredential(a) = HistoryCredential(vault[slot[r]])
    BY <1>1, <2>2, RenewedType, RenewedOwner
  <2>4. /\ a.token < nextToken /\ exchanges[a.token] = 0
        /\ \A s \in Slots : vault[s].token # a.token
    BY <2>1, <2>3 DEF Commit, Safe, TokensUnique
  <2>5. HistoryCredential(a) = a.registration
    BY <1>1, <2>3 DEF Safe, HistoryOwner
  <2>6. \A s \in Slots \ {slot[r]} : Registered(vault[s]) => vault[s].user # a.user
    BY <1>1, <2>3 DEF Safe, RegistryReadable
  <2>7. UNCHANGED <<exchanges, nextToken>> /\ nextToken \in Int
    BY DEF Commit, issue, TypeOK, TypeVault
  <2>8. nextToken' \in Int /\ nextToken' >= nextToken /\ a.token < nextToken'
    BY <2>4, <2>7
  <2>9. UNCHANGED exchanges
    BY <2>7
  <2> HIDE DEF a
  <2> QED
    BY <1>1, <1>2, <2>1, <2>3, <2>4, <2>5, <2>6, <2>8, <2>9, WriteSafe
<1> QED
  BY <1>3, <1>4

\* After the file lock is taken the request works on a fresh copy, or leaves.
LEMMA RereadSafe ==
  ASSUME TypeOK, LocksExclusive, Safe, NEW r \in Requests, Reread(r)
  PROVE  Safe'
<1>1. r \in Procs /\ pc[r] \in HoldsLock
  BY DEF Reread, Procs, HoldsLock
<1>2. \A p \in Procs : p # r => pc'[p] = pc[p] /\ pc'[p] \notin HasCopy
  BY <1>1, OthersHaveNone DEF Reread, Leave, TypeOK, TypePlaces
<1>3. CASE Renewable(vault[slot[r]]) /\ pc' = [pc EXCEPT ![r] = "marking"]
  <2>1. pc'[r] = "marking" /\ reg'[r] = vault /\ vault' = vault /\ slot' = slot
    BY <1>1, <1>3 DEF Reread, Leave, TypeOK, TypePlaces, TypeVault
  <2>2. CopiesCurrent'
    BY <1>2, <1>3, <2>1 DEF CopiesCurrent, Renewable, HasCopy, HoldsLock, Intent, Procs, Registered
  <2>3. TokensUnique'
    BY <1>2, <2>1 DEF Reread, issue, Safe, TokensUnique, HasCopy, HoldsLock, Procs, Registered
  <2>4. MarkedOnce'
    BY <1>2, <2>1 DEF Reread, issue, Safe, MarkedOnce, ExchangeOnce, HasCopy, HoldsLock, Procs,
                      Registered
  <2>5. HistoryOwner' /\ RegistryReadable'
    BY <2>1 DEF Safe, HistoryOwner, RegistryReadable, Registered, HistoryCredential
  <2> QED
    BY <2>2, <2>3, <2>4, <2>5 DEF Safe
<1>4. CASE Leave(r)
  <2>1. pc'[r] = "finishing"
    BY <1>1, <1>4 DEF Leave, TypeOK, TypePlaces
  <2>2. Quiet
    BY <1>2, <1>4, <2>1 DEF Quiet, Reread, issue, HasCopy, HoldsLock, Procs
  <2> QED
    BY <2>2, QuietSafe
<1> QED
  BY <1>3, <1>4 DEF Reread

\* A command takes its copy from the vault.
LEMMA CommandReadSafe ==
  ASSUME TypeOK, LocksExclusive, Safe, NEW c \in Commands, CommandRead(c)
  PROVE  Safe'
<1>1. c \in Procs /\ pc[c] \in HoldsLock /\ c \notin Requests
  BY ManagerAssumption DEF CommandRead, Procs, HoldsLock
<1>2. \A p \in Procs : p # c => pc'[p] = pc[p] /\ pc'[p] \notin HasCopy
  BY <1>1, OthersHaveNone DEF CommandRead, TypeOK, TypePlaces
<1>3. /\ pc'[c] = "running" /\ reg'[c] = vault
      /\ UNCHANGED <<vault, slot, exchanges, nextToken, answer>>
  BY <1>1 DEF CommandRead, CommandUnchanged, issue, TypeOK, TypePlaces, TypeVault
<1>4. CopiesCurrent'
  BY <1>1, <1>2, <1>3 DEF CopiesCurrent, HasCopy, HoldsLock, Intent, Procs, Registered
<1>5. TokensUnique'
  BY <1>1, <1>2, <1>3 DEF Safe, TokensUnique, HasCopy, HoldsLock, Procs, Registered
<1>6. MarkedOnce'
  BY <1>1, <1>2, <1>3 DEF Safe, MarkedOnce, ExchangeOnce, HasCopy, HoldsLock, Procs, Registered
<1>7. HistoryOwner' /\ RegistryReadable'
  BY <1>3 DEF Safe, HistoryOwner, RegistryReadable, Registered, HistoryCredential
<1> QED
  BY <1>4, <1>5, <1>6, <1>7 DEF Safe

\* What a command that writes and ends leaves behind.
LEMMA CommandWrites ==
  ASSUME TypeOK, LocksExclusive, Safe, NEW c \in Commands, pc[c] = "running", CommandOver(c)
  PROVE  /\ slot[c] \in Slots /\ reg[c] = vault
         /\ \A p \in Procs : pc'[p] \notin HasCopy
<1>1. c \in Procs /\ pc[c] \in HoldsLock
  BY DEF Procs, HoldsLock
<1>2. slot[c] \in Slots /\ reg[c] = vault
  BY <1>1 DEF TypeOK, TypePlaces, Safe, CopiesCurrent, HasCopy, HoldsLock
<1>3. pc'[c] = "idle" /\ \A p \in Procs : p # c => pc'[p] = pc[p]
  BY <1>1 DEF CommandOver, TypeOK, TypePlaces
<1> QED
  BY <1>1, <1>2, <1>3, OthersHaveNone DEF HasCopy, HoldsLock

\* A login issues a credential nobody has, for an identity no other slot has.
LEMMA CommandLoginSafe ==
  ASSUME TypeOK, LocksExclusive, Safe, NEW c \in Commands, NEW u \in Users, CommandLogin(c, u)
  PROVE  Safe'
<1> DEFINE a == LoggedIn(u, nextToken)
<1>1. /\ slot[c] \in Slots /\ reg[c] = vault
      /\ \A p \in Procs : pc'[p] \notin HasCopy
  BY CommandWrites DEF CommandLogin
<1>2. nextToken \in Tokens /\ nextToken \in Int /\ nextToken' = nextToken + 1
  BY ManagerAssumption DEF CommandLogin, TypeOK, TypeVault, Tokens
<1>3. nextToken' \in Int /\ nextToken' >= nextToken /\ nextToken < nextToken'
  BY <1>2
<1>4. a \in Account
  BY <1>2, LoggedInType
<1>5. a.token = nextToken /\ a.user = u /\ HistoryCredential(a) = a.registration
  BY DEF LoggedIn, HistoryCredential
<1>6. vault' = [vault EXCEPT ![slot[c]] = a] /\ UNCHANGED exchanges
  BY <1>1 DEF CommandLogin
<1>7. exchanges[a.token] = 0
  BY <1>2, <1>5 DEF Safe, MarkedOnce
<1>8. \A s \in Slots : vault[s].token # a.token
  BY <1>2, <1>5 DEF Safe, TokensUnique
<1>9. \A s \in Slots \ {slot[c]} : vault[s].user # a.user
  BY <1>1, <1>5 DEF CommandLogin, MayRegister
<1>10. a.token < nextToken'
  BY <1>3, <1>5
<1> HIDE DEF a
<1> QED
  BY <1>1, <1>3, <1>4, <1>5, <1>6, <1>7, <1>8, <1>9, <1>10, WriteSafe

\* A logout empties its slot.
LEMMA CommandLogoutSafe ==
  ASSUME TypeOK, LocksExclusive, Safe, NEW c \in Commands, CommandLogout(c)
  PROVE  Safe'
<1>1. /\ slot[c] \in Slots /\ reg[c] = vault
      /\ \A p \in Procs : pc'[p] \notin HasCopy
  BY CommandWrites DEF CommandLogout
<1>2. nextToken \in Int /\ nextToken >= 1
  BY ManagerAssumption DEF TypeOK, TypeVault
<1>3. vault' = [vault EXCEPT ![slot[c]] = NoAccount] /\ UNCHANGED <<exchanges, nextToken>>
  BY <1>1 DEF CommandLogout, issue
<1>4. NoAccount.token = 0 /\ ~Registered(NoAccount)
  BY DEF NoAccount, Registered
<1>5. nextToken' \in Int /\ nextToken' >= nextToken /\ NoAccount.token < nextToken'
  BY <1>2, <1>3, <1>4
<1>6. UNCHANGED exchanges
  BY <1>3
<1> QED
  BY <1>1, <1>3, <1>4, <1>5, <1>6, EmptyType, WriteSafe

\* Every step of a request: those outside the file lock are quiet.
LEMMA SafeRequest ==
  ASSUME TypeOK, LocksExclusive, Safe, NEW r \in Requests, Request(r)
  PROVE  Safe'
<1> USE DEF memory, issue, locals, Quiet, HasCopy, HoldsLock, Procs
<1>0. r \in Procs /\ pc \in [Procs -> Places] /\ slot \in [Procs -> Slots \cup {0}]
  BY DEF TypeOK, TypePlaces
<1>1. ASSUME NEW s \in Slots, Begin(r, s) PROVE Safe'
  BY <1>0, <1>1, QuietSafe DEF Begin
<1>2. CASE Cancel(r)
  BY <1>0, <1>2, QuietSafe DEF Cancel
<1>3. CASE requestAccessWithoutRefresh(r)
  BY <1>0, <1>3, QuietSafe DEF requestAccessWithoutRefresh
<1>4. CASE GiveUp(r)
  BY <1>0, <1>4, QuietSafe DEF GiveUp
<1>5. CASE LockOperation(r)
  BY <1>0, <1>5, QuietSafe DEF LockOperation
<1>6. CASE ReadAgain(r)
  <2>1. /\ pc'[r] \in {"locking", "finishing"}
        /\ \A p \in Procs : p # r => pc'[p] = pc[p] /\ reg'[p] = reg[p]
        /\ \A q \in Requests : q # r => answer'[q] = answer[q]
    BY <1>0, <1>6 DEF ReadAgain, Leave, TypeOK, TypeVault
  <2>2. Quiet
    BY <1>6, <2>1 DEF ReadAgain
  <2> QED
    BY <2>2, QuietSafe
<1>7. CASE TryLock(r)
  <2>1. /\ pc'[r] \in {"locked", "finishing"}
        /\ \A p \in Procs : p # r => pc'[p] = pc[p] /\ reg'[p] = reg[p]
        /\ \A q \in Requests : q # r => answer'[q] = answer[q]
    BY <1>0, <1>7 DEF TryLock, Leave, TypeOK, TypeVault
  <2>2. Quiet
    BY <1>7, <2>1 DEF TryLock
  <2> QED
    BY <2>2, QuietSafe
<1>8. CASE Reread(r)
  BY <1>8, RereadSafe
<1>9. CASE Mark(r)
  <2>1. pc[r] = "marking" /\ vault' = Marked(r) /\ UNCHANGED <<exchanges, nextToken, slot>>
    BY <1>9 DEF Mark
  <2>2. pc'[r] = "exchanging" /\ reg'[r] = Marked(r) /\ \A p \in Procs : p # r => pc'[p] = pc[p]
    BY <1>0, <1>9 DEF Mark, TypeOK, TypeVault
  <2> QED
    BY <2>1, <2>2, MarkSafe
<1>10. CASE MarkFails(r)
  <2>1. /\ pc'[r] = "finishing"
        /\ \A p \in Procs : p # r => pc'[p] = pc[p] /\ reg'[p] = reg[p]
        /\ \A q \in Requests : q # r => answer'[q] = answer[q]
    BY <1>0, <1>10 DEF MarkFails, Leave, TypeOK, TypeVault
  <2>2. pc[r] = "marking" /\ vault' \in {vault, Marked(r)} /\ UNCHANGED <<exchanges, nextToken, slot>>
    BY <1>10 DEF MarkFails
  <2>3. CASE vault' = vault
    <3>1. Quiet
      BY <2>1, <2>2, <2>3
    <3> QED
      BY <3>1, QuietSafe
  <2>4. CASE vault' = Marked(r)
    BY <2>1, <2>2, <2>4, MarkSafe
  <2> QED
    BY <2>2, <2>3, <2>4
<1>11. CASE Exchange(r)
  BY <1>11, ExchangeSafe
<1>12. ASSUME NEW good \in BOOLEAN, Reply(r, good) PROVE Safe'
  BY <1>12, ReplySafe
<1>13. CASE Commit(r)
  BY <1>13, CommitSafe
<1>14. CASE Finish(r)
  BY <1>0, <1>14, QuietSafe DEF Finish
<1> QED
  BY <1>1, <1>2, <1>3, <1>4, <1>5, <1>6, <1>7, <1>8, <1>9, <1>10, <1>11, <1>12, <1>13, <1>14
  DEF Request, Step, Gate, Answer

\* Every step of a command.
LEMMA SafeCommand ==
  ASSUME TypeOK, LocksExclusive, Safe, NEW c \in Commands, Command(c)
  PROVE  Safe'
<1> USE DEF memory, issue, locals, Quiet, HasCopy, HoldsLock, Procs
<1>0. c \in Procs /\ pc \in [Procs -> Places] /\ slot \in [Procs -> Slots \cup {0}]
  BY DEF TypeOK, TypePlaces
<1>1. ASSUME NEW k \in {"login", "reauth", "logout"}, NEW s \in Slots, CommandBegin(c, k, s)
      PROVE  Safe'
  BY <1>0, <1>1, QuietSafe DEF CommandBegin, CommandUnchanged
<1>2. CASE CommandLock(c)
  BY <1>0, <1>2, QuietSafe DEF CommandLock, CommandUnchanged
<1>3. CASE CommandRead(c)
  BY <1>3, CommandReadSafe
<1>4. ASSUME NEW u \in Users, CommandLogin(c, u) PROVE Safe'
  BY <1>4, CommandLoginSafe
<1>5. CASE CommandLogout(c)
  BY <1>5, CommandLogoutSafe
<1>6. CASE CommandFails(c)
  <2>1. /\ pc'[c] = "idle"
        /\ \A p \in Procs : p # c => pc'[p] = pc[p] /\ reg'[p] = reg[p] /\ slot'[p] = slot[p]
    BY <1>0, <1>6 DEF CommandFails, CommandOver, TypeOK, TypeVault
  <2>2. UNCHANGED <<vault, exchanges, nextToken, answer>>
    BY <1>6 DEF CommandFails, CommandUnchanged
  <2>3. Quiet
    BY <2>1, <2>2
  <2> QED
    BY <2>3, QuietSafe
<1> QED
  BY <1>1, <1>2, <1>3, <1>4, <1>5, <1>6 DEF Command

\* Turns, status checks, time, and a crash at any point of a renewal.
LEMMA SafeService ==
  ASSUME TypeOK, LocksExclusive, Safe, Service
  PROVE  Safe'
<1> USE DEF memory, issue, locals, Quiet, HasCopy, HoldsLock, Procs
<1>1. CASE TurnBegin
  BY <1>1, QuietSafe DEF TurnBegin
<1>2. CASE TurnEnd
  BY <1>2, QuietSafe DEF TurnEnd
<1>3. CASE AccountsIdle
  BY <1>3, QuietSafe DEF AccountsIdle
<1>4. CASE Crash
  <2>1. Quiet
    BY <1>4 DEF Crash
  <2> QED
    BY <2>1, QuietSafe
<1>5. ASSUME NEW s \in Slots, Expire(s) PROVE Safe'
  BY <1>5, QuietSafe DEF Expire
<1> QED
  BY <1>1, <1>2, <1>3, <1>4, <1>5 DEF Service

-----------------------------------------------------------------------------
(* The progress that is shown.                                             *)

Waiters(s) == {r \in Requests : slot[r] = s /\ ~started[r]}
Shown == Counted /\ ProgressExact

\* As many wait for a slot as there are: finitely many.
LEMMA WaitersFinite ==
  ASSUME Counted, NEW s \in Slots
  PROVE  IsFiniteSet(Waiters(s))
<1>1. Waiters(s) \subseteq {r \in Requests : slot[r] # 0}
  BY ManagerAssumption DEF Waiters
<1> QED
  BY <1>1, FS_Subset DEF Counted

\* Nobody waits, and nothing is shown, in the initial state.
LEMMA ShownInit == Init => Shown
<1> SUFFICES ASSUME Init PROVE Shown
  OBVIOUS
<1>1. \A r \in Requests : pc[r] = "idle" /\ slot[r] = 0 /\ started[r] = FALSE
  BY DEF Init, Procs
<1>2. {r \in Requests : slot[r] # 0} = {}
  BY <1>1
<1>3. Counted
  BY <1>1, <1>2, FS_EmptySet DEF Counted, Init
<1>4. ASSUME NEW s \in Slots
      PROVE  waiting[s] = Cardinality({r \in Requests : slot[r] = s /\ ~started[r]})
  <2>1. {r \in Requests : slot[r] = s /\ ~started[r]} = {}
    BY <1>1, ManagerAssumption
  <2> QED
    BY <2>1, FS_EmptySet DEF Init
<1> QED
  BY <1>1, <1>3, <1>4 DEF ProgressExact, Shown, Init

\* A step that begins no request, ends none and shows no other renewal.
Unshown == /\ UNCHANGED <<waiting, refreshing, started>>
           /\ \A r \in Requests : slot'[r] = slot[r]
           /\ \A r \in Requests : pc'[r] \in Intent => pc[r] \in Intent
           /\ \A r \in Requests : pc[r] \in Intent \cup {"finishing"}
                => pc'[r] \in Intent \cup {"finishing"}

\* It keeps the progress exact.
LEMMA UnshownKeeps ==
  ASSUME TypeOK, Shown, Unshown
  PROVE  Shown'
<1>1. {r \in Requests : slot'[r] # 0} = {r \in Requests : slot[r] # 0}
  BY DEF Unshown
<1>2. Counted'
  BY <1>1 DEF Shown, Counted, Unshown
<1>3. ASSUME NEW s \in Slots
      PROVE  {r \in Requests : slot'[r] = s /\ ~started'[r]} = {r \in Requests : slot[r] = s /\ ~started[r]}
  BY DEF Unshown
<1>4. ASSUME NEW s \in Slots
      PROVE  waiting'[s] = Cardinality({r \in Requests : slot'[r] = s /\ ~started'[r]})
  <2>1. waiting'[s] = Cardinality({r \in Requests : slot[r] = s /\ ~started[r]})
    BY DEF Shown, ProgressExact, Unshown
  <2> QED
    BY <1>3, <2>1
<1>5. ASSUME NEW s \in Slots, NEW r \in Requests, slot'[r] = s, pc'[r] \in Intent
      PROVE  refreshing'[s] = {r}
  <2>1. slot[r] = s /\ pc[r] \in Intent
    BY <1>5 DEF Unshown
  <2> QED
    BY <2>1 DEF Shown, ProgressExact, Unshown, Intent
<1>6. ASSUME NEW s \in Slots, NEW r \in refreshing'[s]
      PROVE  slot'[r] = s /\ pc'[r] \in Intent \cup {"finishing"}
  <2>1. r \in Requests /\ slot[r] = s /\ pc[r] \in Intent \cup {"finishing"}
    BY <1>6 DEF Shown, ProgressExact, Unshown, Intent, TypeOK, TypeMemory
  <2> QED
    BY <2>1 DEF Unshown
<1> QED
  BY <1>2, <1>4, <1>5, <1>6 DEF Shown, ProgressExact, Intent

\* authentication.begin counts the request.
LEMMA BeginShown ==
  ASSUME TypeOK, Shown, NEW r \in Requests, NEW s \in Slots, Begin(r, s)
  PROVE  Shown'
<1> USE DEF Shown
<1>1. /\ slot' = [slot EXCEPT ![r] = s] /\ slot \in [Procs -> Slots \cup {0}] /\ s # 0
      /\ r \in Procs /\ Requests \subseteq Procs /\ slot[r] = 0
      /\ pc \in [Procs -> Places] /\ pc' = [pc EXCEPT ![r] = "fast"] /\ pc[r] = "idle"
      /\ waiting' = [waiting EXCEPT ![s] = waiting[s] + 1] /\ waiting \in [Slots -> Int]
      /\ UNCHANGED <<refreshing, started>>
  BY ManagerAssumption DEF Begin, TypeOK, TypePlaces, TypeMemory, Procs
<1>2. ~started[r] /\ started \in [Requests -> BOOLEAN]
  BY <1>1 DEF Counted, Intent, TypeOK, TypeMemory
<1>3. Counted'
  <2>1. {q \in Requests : slot'[q] # 0} = {q \in Requests : slot[q] # 0} \cup {r}
    BY <1>1
  <2>2. IsFiniteSet({q \in Requests : slot'[q] # 0})
    BY <2>1, FS_AddElement DEF Counted
  <2>3. \A q \in Requests : started'[q] => pc'[q] \in Intent \cup {"finishing"}
    BY <1>1, <1>2 DEF Counted
  <2>4. \A t \in Slots : \A q \in refreshing'[t] : started'[q]
    BY <1>1 DEF Counted
  <2> QED
    BY <2>2, <2>3, <2>4 DEF Counted
<1>4. ASSUME NEW t \in Slots PROVE waiting'[t] = Cardinality(Waiters(t)')
  <2>1. waiting[t] = Cardinality(Waiters(t))
    BY DEF ProgressExact, Waiters
  <2>2. CASE t = s
    <3>1. Waiters(t)' = Waiters(t) \cup {r} /\ r \notin Waiters(t)
      BY <1>1, <1>2, <2>2 DEF Waiters
    <3>2. Cardinality(Waiters(t)') = Cardinality(Waiters(t)) + 1
      BY <3>1, WaitersFinite, FS_AddElement
    <3>3. waiting'[t] = waiting[t] + 1
      BY <1>1, <2>2
    <3> QED
      BY <2>1, <3>2, <3>3
  <2>3. CASE t # s
    <3>1. \A q \in Requests : slot'[q] = t <=> slot[q] = t
      BY <1>1, <1>4, <2>3, ManagerAssumption
    <3>2. Waiters(t)' = Waiters(t)
      BY <1>1, <3>1 DEF Waiters
    <3>3. waiting'[t] = waiting[t]
      BY <1>1, <2>3
    <3> QED
      BY <2>1, <3>2, <3>3
  <2> QED
    BY <2>2, <2>3
<1>5. ASSUME NEW t \in Slots, NEW q \in Requests, slot'[q] = t, pc'[q] \in Intent
      PROVE  refreshing'[t] = {q}
  BY <1>1, <1>5 DEF ProgressExact, Intent
<1>6. ASSUME NEW t \in Slots, NEW q \in refreshing'[t]
      PROVE  slot'[q] = t /\ pc'[q] \in Intent \cup {"finishing"}
  <2>1. q \in Requests /\ slot[q] = t /\ pc[q] \in Intent \cup {"finishing"}
    BY <1>1, <1>6 DEF ProgressExact, Intent, TypeOK, TypeMemory
  <2> QED
    BY <1>1, <2>1 DEF Intent
<1> QED
  BY <1>3, <1>4, <1>5, <1>6 DEF ProgressExact, Waiters, Intent

\* From the mark on, one request waits less and its renewal is shown; no other
\* request is between its mark and its commit, for that needs the file lock.
LEMMA StartShown ==
  ASSUME TypeOK, LocksExclusive, Shown, NEW r \in Requests, pc[r] = "marking",
         waiting' = [waiting EXCEPT ![slot[r]] = waiting[slot[r]] - 1],
         refreshing' = [refreshing EXCEPT ![slot[r]] = {r}],
         started' = [started EXCEPT ![r] = TRUE], UNCHANGED slot,
         NEW place \in {"exchanging", "finishing"}, pc' = [pc EXCEPT ![r] = place]
  PROVE  Shown'
<1> USE DEF Shown
<1>1. /\ slot \in [Procs -> Slots \cup {0}] /\ slot[r] \in Slots
      /\ r \in Procs /\ Requests \subseteq Procs /\ pc \in [Procs -> Places]
      /\ waiting \in [Slots -> Int] /\ refreshing \in [Slots -> SUBSET Requests]
      /\ started \in [Requests -> BOOLEAN]
  BY DEF TypeOK, TypePlaces, TypeMemory, Procs
<1>2. ~started[r]
  BY DEF Counted, Intent
<1>3. Counted'
  <2>1. \A t \in Slots : \A q \in refreshing'[t] : q \in Requests /\ (q = r \/ q \in refreshing[t])
    BY <1>1
  <2>2. \A t \in Slots : \A q \in refreshing'[t] : started'[q]
    BY <1>1, <2>1 DEF Counted
  <2>3. \A q \in Requests : started'[q] => pc'[q] \in Intent \cup {"finishing"}
    BY <1>1 DEF Counted, Intent
  <2> QED
    BY <2>2, <2>3 DEF Counted
<1>4. ASSUME NEW t \in Slots PROVE waiting'[t] = Cardinality(Waiters(t)')
  <2>1. waiting[t] = Cardinality(Waiters(t))
    BY DEF ProgressExact, Waiters
  <2>2. CASE t = slot[r]
    <3>1. Waiters(t)' = Waiters(t) \ {r} /\ r \in Waiters(t)
      BY <1>1, <1>2, <2>2 DEF Waiters
    <3>2. Cardinality(Waiters(t)') = Cardinality(Waiters(t)) - 1
      BY <3>1, WaitersFinite, FS_RemoveElement
    <3>3. waiting'[t] = waiting[t] - 1
      BY <1>1, <2>2
    <3> QED
      BY <2>1, <3>2, <3>3
  <2>3. CASE t # slot[r]
    <3>1. Waiters(t)' = Waiters(t) /\ waiting'[t] = waiting[t]
      BY <1>1, <2>3 DEF Waiters
    <3> QED
      BY <2>1, <3>1
  <2> QED
    BY <2>2, <2>3
<1>5. ASSUME NEW t \in Slots, NEW q \in Requests, slot'[q] = t, pc'[q] \in Intent
      PROVE  refreshing'[t] = {q}
  <2>1. CASE q = r
    BY <1>1, <1>5, <2>1
  <2>2. CASE q # r
    <3>1. pc[q] \in Intent /\ q \in Procs
      BY <1>1, <1>5, <2>2
    <3> QED
      BY <1>1, <2>2, <3>1, Alone DEF HoldsLock, Intent
  <2> QED
    BY <2>1, <2>2
<1>6. ASSUME NEW t \in Slots, NEW q \in refreshing'[t]
      PROVE  slot'[q] = t /\ pc'[q] \in Intent \cup {"finishing"}
  <2>1. CASE t = slot[r]
    BY <1>1, <1>6, <2>1 DEF Intent
  <2>2. CASE t # slot[r]
    <3>1. q \in refreshing[t] /\ q \in Requests
      BY <1>1, <1>6, <2>2
    <3>2. slot[q] = t /\ pc[q] \in Intent \cup {"finishing"}
      BY <3>1 DEF ProgressExact, Intent
    <3> QED
      BY <1>1, <2>2, <3>1, <3>2 DEF Intent
  <2> QED
    BY <2>1, <2>2
<1> QED
  BY <1>3, <1>4, <1>5, <1>6 DEF ProgressExact, Waiters, Intent

\* The end of a request takes back what it added, and only that.
LEMMA FinishShown ==
  ASSUME TypeOK, Shown, NEW r \in Requests, Finish(r)
  PROVE  Shown'
<1> USE DEF Shown
<1>1. /\ slot \in [Procs -> Slots \cup {0}] /\ slot[r] \in Slots /\ slot[r] # 0
      /\ r \in Procs /\ Requests \subseteq Procs /\ pc \in [Procs -> Places]
      /\ waiting \in [Slots -> Int] /\ refreshing \in [Slots -> SUBSET Requests]
      /\ started \in [Requests -> BOOLEAN]
      /\ slot' = [slot EXCEPT ![r] = 0] /\ pc' = [pc EXCEPT ![r] = "idle"]
      /\ started' = [started EXCEPT ![r] = FALSE] /\ pc[r] = "finishing"
  BY ManagerAssumption DEF Finish, TypeOK, TypePlaces, TypeMemory, Procs
<1>2. waiting' = IF started[r] THEN waiting
                 ELSE [waiting EXCEPT ![slot[r]] = waiting[slot[r]] - 1]
  BY DEF Finish
<1>3. refreshing' = IF started[r] THEN [refreshing EXCEPT ![slot[r]] = refreshing[slot[r]] \ {r}]
                    ELSE refreshing
  BY DEF Finish, ClearedOwn
<1>4. ASSUME NEW t \in Slots, NEW q \in refreshing'[t]
      PROVE  q \in refreshing[t] /\ q \in Requests /\ q # r
  <2>1. q \in refreshing[t] /\ q \in Requests
    BY <1>1, <1>3, <1>4
  <2>2. CASE ~started[r]
    BY <2>1, <2>2 DEF Counted
  <2>3. CASE started[r]
    <3>1. slot[q] = t
      BY <2>1 DEF ProgressExact
    <3>2. refreshing'[slot[r]] = refreshing[slot[r]] \ {r}
      BY <1>1, <1>3, <2>3
    <3>3. t = slot[r] => q # r
      BY <1>4, <3>2
    <3> QED
      BY <2>1, <3>1, <3>3
  <2> QED
    BY <2>1, <2>2, <2>3
<1>5. Counted'
  <2>1. {q \in Requests : slot'[q] # 0} = {q \in Requests : slot[q] # 0} \ {r}
    BY <1>1
  <2>2. IsFiniteSet({q \in Requests : slot'[q] # 0})
    <3>1. IsFiniteSet({q \in Requests : slot[q] # 0})
      BY DEF Counted
    <3> QED
      BY <2>1, <3>1, FS_RemoveElement
  <2>3. \A q \in Requests : started'[q] => pc'[q] \in Intent \cup {"finishing"}
    BY <1>1 DEF Counted
  <2>4. \A t \in Slots : \A q \in refreshing'[t] : started'[q]
    BY <1>1, <1>4 DEF Counted
  <2> QED
    BY <2>2, <2>3, <2>4 DEF Counted
<1>6. ASSUME NEW t \in Slots PROVE waiting'[t] = Cardinality(Waiters(t)')
  <2>1. waiting[t] = Cardinality(Waiters(t))
    BY DEF ProgressExact, Waiters
  <2>2. CASE t = slot[r] /\ ~started[r]
    <3>1. Waiters(t)' = Waiters(t) \ {r} /\ r \in Waiters(t)
      BY <1>1, <2>2 DEF Waiters
    <3>2. Cardinality(Waiters(t)') = Cardinality(Waiters(t)) - 1
      BY <3>1, WaitersFinite, FS_RemoveElement
    <3>3. waiting'[t] = waiting[t] - 1
      BY <1>1, <1>2, <2>2
    <3> QED
      BY <2>1, <3>2, <3>3
  <2>3. CASE t # slot[r] \/ started[r]
    <3>1. Waiters(t)' = Waiters(t)
      BY <1>1, <2>3, ManagerAssumption DEF Waiters
    <3>2. waiting'[t] = waiting[t]
      BY <1>1, <1>2, <2>3
    <3> QED
      BY <2>1, <3>1, <3>2
  <2> QED
    BY <2>2, <2>3
<1>7. ASSUME NEW t \in Slots, NEW q \in Requests, slot'[q] = t, pc'[q] \in Intent
      PROVE  refreshing'[t] = {q}
  <2>1. q # r /\ slot[q] = t /\ pc[q] \in Intent
    BY <1>1, <1>7 DEF Intent
  <2>2. refreshing[t] = {q}
    BY <2>1 DEF ProgressExact, Intent
  <2> QED
    BY <1>1, <1>3, <2>1, <2>2
<1>8. ASSUME NEW t \in Slots, NEW q \in refreshing'[t]
      PROVE  slot'[q] = t /\ pc'[q] \in Intent \cup {"finishing"}
  <2>1. slot[q] = t /\ pc[q] \in Intent \cup {"finishing"}
    BY <1>4, <1>8 DEF ProgressExact, Intent
  <2> QED
    BY <1>1, <1>4, <1>8, <2>1
<1> QED
  BY <1>5, <1>6, <1>7, <1>8 DEF ProgressExact, Waiters, Intent

\* Every step of a request keeps the progress exact.
LEMMA ShownRequest ==
  ASSUME TypeOK, LocksExclusive, Shown, NEW r \in Requests, Request(r)
  PROVE  Shown'
<1> USE DEF memory, issue, locals
<1>0. r \in Procs /\ Requests \subseteq Procs /\ pc \in [Procs -> Places]
  BY DEF TypeOK, TypePlaces, Procs
<1>1. ASSUME NEW s \in Slots, Begin(r, s) PROVE Shown'
  BY <1>1, BeginShown
<1>2. CASE Mark(r)
  BY <1>2, StartShown DEF Mark
<1>3. CASE MarkFails(r) /\ ~canceled[r]
  BY <1>3, StartShown DEF MarkFails, Leave
<1>4. CASE Finish(r)
  BY <1>4, FinishShown
<1>5. CASE \/ Cancel(r) \/ GiveUp(r) \/ TryLock(r) \/ Reread(r) \/ (MarkFails(r) /\ canceled[r])
           \/ Exchange(r) \/ Gate(r) \/ Answer(r)
  <2>1. UNCHANGED <<waiting, refreshing, started, slot>>
    BY <1>5 DEF Cancel, GiveUp, TryLock, Reread, MarkFails, Exchange, Gate, Answer, Leave,
       requestAccessWithoutRefresh, LockOperation, ReadAgain, Commit, Reply
  <2>2. \/ pc' = pc
        \/ pc' = [pc EXCEPT ![r] = "finishing"]
        \/ /\ pc[r] \notin Intent \cup {"finishing"}
           /\ \E x \in {"queued", "admitted", "locking", "locked", "marking"} : pc' = [pc EXCEPT ![r] = x]
        \/ /\ pc[r] \in Intent
           /\ \E x \in Intent : pc' = [pc EXCEPT ![r] = x]
    BY <1>5 DEF Cancel, GiveUp, TryLock, Reread, MarkFails, Exchange, Gate, Answer, Leave,
       requestAccessWithoutRefresh, LockOperation, ReadAgain, Commit, Reply, Intent
  <2>3. \A q \in Requests : pc'[q] \in Intent => pc[q] \in Intent
    BY <1>0, <2>2 DEF Intent
  <2>4. \A q \in Requests : pc[q] \in Intent \cup {"finishing"}
                              => pc'[q] \in Intent \cup {"finishing"}
    BY <1>0, <2>2
  <2> QED
    BY <2>1, <2>3, <2>4, UnshownKeeps DEF Unshown
<1> QED
  BY <1>1, <1>2, <1>3, <1>4, <1>5 DEF Request, Step

\* A command is no request.
LEMMA ShownCommand ==
  ASSUME TypeOK, Shown, NEW c \in Commands, Command(c)
  PROVE  Shown'
<1>1. UNCHANGED <<waiting, refreshing, started>>
  BY DEF Command, CommandBegin, CommandLock, CommandRead, CommandLogin, CommandLogout,
     CommandFails, CommandUnchanged, memory
<1>2. /\ \E x : pc' = [pc EXCEPT ![c] = x]
      /\ slot' = slot \/ \E x : slot' = [slot EXCEPT ![c] = x]
  BY DEF Command, CommandBegin, CommandLock, CommandRead, CommandLogin, CommandLogout,
     CommandFails, CommandOver
<1>3. \A r \in Requests : pc'[r] = pc[r] /\ slot'[r] = slot[r]
  BY <1>2, ManagerAssumption DEF TypeOK, TypePlaces, Procs
<1> QED
  BY <1>1, <1>3, UnshownKeeps DEF Unshown

\* After a crash nothing is shown; the rest leaves the requests alone.
LEMMA ShownService ==
  ASSUME TypeOK, Shown, Service
  PROVE  Shown'
<1>1. CASE Crash
  <2>1. /\ \A r \in Requests : pc'[r] = "idle" /\ slot'[r] = 0 /\ started'[r] = FALSE
        /\ waiting' = [s \in Slots |-> 0] /\ refreshing' = [s \in Slots |-> {}]
    BY <1>1 DEF Crash, Procs
  <2>2. {r \in Requests : slot'[r] # 0} = {}
    BY <2>1
  <2>3. Counted'
    BY <2>1, <2>2, FS_EmptySet DEF Counted
  <2>4. ASSUME NEW s \in Slots
        PROVE  waiting'[s] = Cardinality({r \in Requests : slot'[r] = s /\ ~started'[r]})
    <3>1. {r \in Requests : slot'[r] = s /\ ~started'[r]} = {}
      BY <2>1, ManagerAssumption
    <3> QED
      BY <2>1, <3>1, FS_EmptySet
  <2> QED
    BY <2>1, <2>3, <2>4 DEF ProgressExact, Shown
<1>2. CASE ~Crash
  <2>1. UNCHANGED <<waiting, refreshing, started, slot, pc>>
    BY <1>2 DEF Service, TurnBegin, TurnEnd, AccountsIdle, Expire, memory, locals
  <2> QED
    BY <2>1, UnshownKeeps DEF Unshown
<1> QED
  BY <1>1, <1>2

-----------------------------------------------------------------------------
(* The theorems.                                                           *)

\* Steps that change nothing keep the invariant.
LEMMA StutterSafe ==
  ASSUME IInv, UNCHANGED vars
  PROVE  IInv'
<1> USE DEF vars, memory, issue, locals
<1>1. TypeOK'
  BY DEF IInv, TypeOK, TypeVault, TypeMemory, TypePlaces
<1>2. LocksExclusive'
  BY DEF IInv, LocksExclusive
<1>3. Safe'
  BY QuietSafe DEF IInv, Safe, Quiet
<1>4. Shown'
  BY UnshownKeeps DEF IInv, Shown, Unshown
<1> QED
  BY <1>1, <1>2, <1>3, <1>4 DEF IInv, Safe, Shown

\* Every step keeps the invariant: the invariant is inductive.
LEMMA StepSafe ==
  ASSUME IInv, Next
  PROVE  IInv'
<1>1. TypeOK /\ LocksExclusive /\ Safe /\ Shown
  BY DEF IInv, Safe, Shown
<1>2. ASSUME NEW r \in Requests, Request(r) PROVE IInv'
  BY <1>1, <1>2, TypeRequest, LocksRequest, SafeRequest, ShownRequest DEF IInv, Safe, Shown
<1>3. ASSUME NEW c \in Commands, Command(c) PROVE IInv'
  BY <1>1, <1>3, TypeCommand, LocksCommand, SafeCommand, ShownCommand DEF IInv, Safe, Shown
<1>4. CASE Service
  BY <1>1, <1>4, TypeService, LocksService, SafeService, ShownService DEF IInv, Safe, Shown
<1> QED
  BY <1>2, <1>3, <1>4 DEF Next

\* The inductive invariant holds in every reachable state: whoever is in the
\* middle of a change of the vault holds the file lock alone and works on a
\* current copy, and a credential sent to be renewed stays marked.
THEOREM Invariance == Spec => []IInv
<1>1. Init => IInv
  BY TypeInit, LocksInit, SafeInit, ShownInit DEF IInv, Safe, Shown
<1>2. IInv /\ [Next]_vars => IInv'
  BY StepSafe, StutterSafe
<1> QED
  BY <1>1, <1>2, PTL DEF Spec

\* Type correctness of the manager's state.
THEOREM TypeCorrect == Spec => []TypeOK
<1>1. IInv => TypeOK
  BY DEF IInv
<1> QED
  BY <1>1, Invariance, PTL

\* No credential is sent to be renewed twice, whatever crashes, lost answers,
\* cancellations and commands of other processes come in between.
THEOREM ExchangedOnce == Spec => []ExchangeOnce
<1>1. IInv => ExchangeOnce
  BY DEF IInv, MarkedOnce
<1> QED
  BY <1>1, Invariance, PTL

\* Any number of renewals keeps the owner of an account's history, and no
\* login inherits one.
THEOREM HistoryOwned == Spec => []HistoryOwner
<1>1. IInv => HistoryOwner
  BY DEF IInv
<1> QED
  BY <1>1, Invariance, PTL

\* As many requests are shown to wait for a slot as do, a renewal is shown while it
\* runs, and none is shown whose request has returned, however requests overlap, are
\* cancelled or crash.
THEOREM ProgressShown == Spec => []ProgressExact
<1>1. IInv => ProgressExact
  BY DEF IInv
<1> QED
  BY <1>1, Invariance, PTL

\* What any process writes, Manager.read accepts: identities stay distinct.
THEOREM AlwaysReadable == Spec => []RegistryReadable
<1>1. IInv => RegistryReadable
  BY DEF IInv
<1> QED
  BY <1>1, Invariance, PTL

\* What a step does to the vault: nothing, a mark or a renewal of a request's own
\* slot, or a login or logout of a command's own slot.
LEMMA VaultSteps ==
  ASSUME IInv, Next, vault' # vault
  PROVE  \E p \in Procs :
           /\ slot[p] \in Slots /\ pc[p] \in {"marking", "replied", "running"} /\ pc'[p] # pc[p]
           /\ \A s \in Slots : s # slot[p] => vault'[s] = vault[s]
           /\ \/ p \in Commands /\ pc[p] = "running"
              \/ HistoryCredential(vault'[slot[p]]) = HistoryCredential(vault[slot[p]])
<1> USE DEF memory, issue, locals
<1>0. TypeOK /\ LocksExclusive /\ CopiesCurrent /\ TokensUnique
  BY DEF IInv
<1>1. ASSUME NEW r \in Requests, Request(r)
      PROVE  /\ r \in Procs /\ slot[r] \in Slots /\ pc[r] \in {"marking", "replied"} /\ pc'[r] # pc[r]
             /\ \A s \in Slots : s # slot[r] => vault'[s] = vault[s]
             /\ HistoryCredential(vault'[slot[r]]) = HistoryCredential(vault[slot[r]])
  <2>1. r \in Procs /\ pc \in [Procs -> Places] /\ vault \in [Slots -> Account]
        /\ (slot[r] # 0 => slot[r] \in Slots) /\ (slot[r] = 0 <=> pc[r] = "idle")
    BY <1>0 DEF TypeOK, TypePlaces, TypeVault, Registry, Procs
  <2>2. CASE Mark(r) \/ MarkFails(r)
    <3>1. pc[r] = "marking" /\ vault' = Marked(r) /\ pc'[r] # "marking"
      BY <2>1, <2>2 DEF Mark, MarkFails, Leave
    <3>2. slot[r] # 0 /\ slot[r] \in Slots /\ reg[r] = vault
      BY <1>0, <2>1, <3>1 DEF CopiesCurrent, HasCopy, HoldsLock
    <3>3. HistoryCredential(vault'[slot[r]]) = HistoryCredential(vault[slot[r]])
      BY <1>0, <3>1, <3>2, MarkedFacts
    <3>4. \A s \in Slots : s # slot[r] => vault'[s] = vault[s]
      BY <2>1, <3>1, <3>2 DEF Marked
    <3> QED
      BY <2>1, <3>1, <3>2, <3>3, <3>4
  <2>3. CASE Commit(r)
    <3>1. pc[r] = "replied" /\ pc'[r] = "finishing" /\ answer[r] # 0
          /\ vault' = [reg[r] EXCEPT ![slot[r]] = Renewed(reg[r][slot[r]], answer[r])]
      BY <2>1, <2>3 DEF Commit, Leave
    <3>2. slot[r] \in Slots /\ reg[r] = vault /\ Registered(vault[slot[r]])
      BY <1>0, <2>1, <3>1 DEF CopiesCurrent, HasCopy, HoldsLock, Intent
    <3>3. answer[r] \in Tokens /\ vault[slot[r]] \in Account
      BY <1>0, <2>1, <3>1, <3>2 DEF TypeOK, TypeVault
    <3>4. vault'[slot[r]] = Renewed(vault[slot[r]], answer[r])
      BY <2>1, <3>1, <3>2
    <3>5. HistoryCredential(Renewed(vault[slot[r]], answer[r])) = HistoryCredential(vault[slot[r]])
      BY <3>2, <3>3, RenewedOwner
    <3>6. HistoryCredential(vault'[slot[r]]) = HistoryCredential(vault[slot[r]])
      BY <3>4, <3>5
    <3>7. \A s \in Slots : s # slot[r] => vault'[s] = vault[s]
      BY <2>1, <3>1, <3>2
    <3> QED
      BY <2>1, <3>1, <3>2, <3>6, <3>7
  <2>4. CASE ~(Mark(r) \/ MarkFails(r) \/ Commit(r))
    <3>1. vault' = vault
      BY <1>1, <2>4 DEF Request, Step, Gate, Answer, Begin, Cancel, GiveUp, TryLock, Reread,
         Exchange, Finish, requestAccessWithoutRefresh, LockOperation, ReadAgain, Reply
    <3> QED
      BY <3>1
  <2> QED
    BY <2>2, <2>3, <2>4
<1>2. ASSUME NEW c \in Commands, Command(c)
      PROVE  /\ c \in Procs /\ slot[c] \in Slots /\ pc[c] = "running" /\ pc'[c] # pc[c]
             /\ \A s \in Slots : s # slot[c] => vault'[s] = vault[s]
  <2>1. c \in Procs /\ pc \in [Procs -> Places] /\ vault \in [Slots -> Account]
        /\ (slot[c] # 0 => slot[c] \in Slots) /\ (slot[c] = 0 <=> pc[c] = "idle")
    BY <1>0 DEF TypeOK, TypePlaces, TypeVault, Registry, Procs
  <2>2. PICK a : pc[c] = "running" /\ CommandOver(c) /\ vault' = [reg[c] EXCEPT ![slot[c]] = a]
    BY <1>2 DEF Command, CommandBegin, CommandLock, CommandRead, CommandFails, CommandLogin,
       CommandLogout
  <2>3. slot[c] \in Slots /\ reg[c] = vault
    BY <1>0, <2>1, <2>2 DEF CopiesCurrent, HasCopy, HoldsLock
  <2>4. pc'[c] = "idle"
    BY <2>1, <2>2 DEF CommandOver
  <2>5. \A s \in Slots : s # slot[c] => vault'[s] = vault[s]
    BY <2>1, <2>2, <2>3
  <2> QED
    BY <2>1, <2>2, <2>3, <2>4, <2>5
<1>3. CASE Service
  BY <1>3 DEF Service, TurnBegin, TurnEnd, AccountsIdle, Expire, Crash
<1> QED
  BY <1>1, <1>2, <1>3 DEF Next

\* No write of the registry undoes what another request or process wrote.
THEOREM UpdatesKept == Spec => NoLostUpdate
<1>1. ASSUME IInv, Next PROVE OwnWrite
  <2>1. CASE vault' = vault
    BY <2>1 DEF OwnWrite
  <2>2. CASE vault' # vault
    BY <1>1, <2>2, VaultSteps DEF OwnWrite
  <2> QED
    BY <2>1, <2>2
<1>2. IInv /\ [Next]_vars => [OwnWrite]_vars
  BY <1>1
<1> QED
  BY <1>2, Invariance, PTL DEF Spec, NoLostUpdate

\* During a turn no step of anybody changes the owner of an account's history.
THEOREM HistoryKeptInTurn == Spec => TurnHistoryStable
<1>1. ASSUME IInv, Next PROVE KeepsHistory
  <2>1. CASE vault' = vault
    BY <2>1 DEF KeepsHistory
  <2>2. CASE vault' # vault /\ "turn" \in activity
    <3>1. \A c \in Commands : pc[c] # "running"
      BY <1>1, <2>2, ManagerAssumption DEF IInv, LocksExclusive
    <3>2. PICK p \in Procs :
            /\ slot[p] \in Slots /\ \A s \in Slots : s # slot[p] => vault'[s] = vault[s]
            /\ \/ p \in Commands /\ pc[p] = "running"
               \/ HistoryCredential(vault'[slot[p]]) = HistoryCredential(vault[slot[p]])
      BY <1>1, <2>2, VaultSteps
    <3> QED
      BY <3>1, <3>2 DEF KeepsHistory
  <2> QED
    BY <2>1, <2>2 DEF KeepsHistory
<1>2. IInv /\ [Next]_vars => [KeepsHistory]_vars
  BY <1>1
<1> QED
  BY <1>2, Invariance, PTL DEF Spec, TurnHistoryStable

=============================================================================

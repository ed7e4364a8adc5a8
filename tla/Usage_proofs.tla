---------------------------- MODULE Usage_proofs ----------------------------
(***************************************************************************)
(* The safety of Usage, for every set of slots and every bound: what       *)
(* connections choose accounts by is current, and answers reach the UI     *)
(* that asked.                                                             *)
(***************************************************************************)
EXTENDS Usage, TLAPS

-----------------------------------------------------------------------------
(* Constants.                                                              *)

LEMMA Zeros ==
  /\ Nothing \in Sample /\ Nothing.ver = 0
  /\ Blank \in [Slots -> Sample] /\ Zero \in [Slots -> Nat]
  /\ \A s \in Slots : Blank[s] = Nothing /\ Zero[s] = 0
  /\ Secondary \in Process /\ Primary(Secondary) \in Process
  /\ \A s \in Slots : ~Secondary.changing[s]
  /\ Secondary.epoch = Zero /\ Secondary.samples = Blank
BY DEF Nothing, Blank, Zero, Sample, Secondary, Primary, Process

LEMMA Loops ==
  /\ NoLoop \in Loop({}) /\ FirstLoop \in Loop({})
  /\ NoLoop.epoch = Zero /\ NoLoop.previous = Zero /\ DOMAIN NoLoop.next = {}
  /\ FirstLoop.epoch = Zero /\ FirstLoop.previous = Zero /\ DOMAIN FirstLoop.next = {}
<1>1. Zero \in [Slots -> Nat] /\ Unread \in [{} -> Sample] /\ DOMAIN Unread = {}
  BY Zeros DEF Unread
<1> QED
  BY <1>1 DEF NoLoop, FirstLoop, Loop

LEMMA PrimaryOf ==
  ASSUME NEW p \in Process
  PROVE  /\ Primary(p) \in Process /\ Primary(p).epoch = p.epoch
         /\ Primary(p).changing = p.changing /\ Primary(p).samples = p.samples
BY DEF Primary, Process

-----------------------------------------------------------------------------
(* Samples.                                                                *)

\* A step that touches neither the caches nor the loop nor the notices.
LEMMA CurrentStays ==
  ASSUME TypeOK, CachesCurrent, RoundsCurrent, UNCHANGED <<loop, samples, noticed>>,
         proc'.epoch = proc.epoch, proc'.changing = proc.changing, proc'.samples = proc.samples,
         version' \in [Slots -> Nat], \A s \in Slots : version[s] <= version'[s]
  PROVE  CachesCurrent' /\ RoundsCurrent'
<1>1. CachesCurrent'
  BY DEF CachesCurrent, Current
<1>2. RoundsCurrent'
  <2>1. \A s \in Slots : noticed[s] \in Nat /\ version[s] \in Nat /\ version'[s] \in Nat
    BY DEF TypeOK
  <2> QED
    BY <2>1 DEF RoundsCurrent, Current
<1> QED
  BY <1>1, <1>2

-----------------------------------------------------------------------------
(* Types.                                                                  *)

\* What goes to the primary or is kept for it are commands.
LEMMA SendType ==
  ASSUME TypeOK, NEW c \in Commands, Send(c)
  PROVE  inbox' \in Seq(Commands) /\ deferredUsage' \in Seq(Commands)
<1>1. inbox \in Seq(Commands) /\ deferredUsage \in Seq(Commands)
  BY DEF TypeOK
<1> HIDE DEF Commands
<1> QED
  BY <1>1 DEF Send

LEMMA TypeInit == Init => TypeOK
<1> SUFFICES ASSUME Init PROVE TypeOK
  OBVIOUS
<1>1. proc \in Process /\ loop \in Loop({}) /\ samples \in [Slots -> Sample] /\ noticed \in [Slots -> Nat]
  BY Zeros, Loops DEF Init
<1>2. inbox \in Seq(Commands) /\ deferredUsage \in Seq(Commands) /\ asked \in Seq(Question)
      /\ answers \in Seq(Reply)
  BY DEF Init
<1>3. task \in {NoTask} \cup Task
  BY DEF Init, NoTask
<1> QED
  BY <1>1, <1>2, <1>3 DEF Init, TypeOK

\* The UI, the service and the account command.
Outside == \/ Attach \/ Detach \/ AskRefresh \/ Answer
           \/ BeginRemoval \/ BeginShutdown \/ EndPhase
           \/ (\E s \in Slots : Announce(s))
           \/ Begin \/ (\E registered \in BOOLEAN : Change(registered)) \/ Fail \/ Confirm

LEMMA TypeOutside ==
  ASSUME TypeOK, Numbered, Outside
  PROVE  TypeOK'
<1> USE DEF accounts, broker, service, ui, polling
<1>1. CASE Attach
  BY <1>1 DEF Attach, Input, TypeOK
<1>2. CASE Detach
  BY <1>2 DEF Detach, TypeOK
<1>3. CASE AskRefresh
  <2>1. sequence > 0 => asked[sequence] \in Question
    <3>1. asked \in Seq(Question) /\ sequence = Len(asked)
      BY DEF TypeOK, Numbered
    <3> QED
      BY <3>1
  <2>2. refreshID' \in Nat /\ sequence' \in Nat /\ refreshOwner' \in Nat /\ inputs' \in Nat
    BY <1>3, <2>1, SMTT(20) DEF AskRefresh, Input, TypeOK, Question
  <2>3. asked' \in Seq(Question)
    <3>1. [peer |-> peer, id |-> refreshID'] \in Question
      BY <2>2 DEF TypeOK, Question
    <3> QED
      BY <1>3, <3>1 DEF AskRefresh, TypeOK
  <2>4. [do |-> "usage_refresh", arg |-> sequence'] \in Commands
    BY <2>2 DEF Commands
  <2>5. inbox' \in Seq(Commands) /\ deferredUsage' \in Seq(Commands)
    BY <1>3, <2>4, SendType DEF AskRefresh
  <2> QED
    BY <1>3, <2>2, <2>3, <2>5 DEF AskRefresh, TypeOK
<1>4. CASE Answer
  <2>1. answers' \in Seq(Reply)
    BY <1>4 DEF Answer, TypeOK
  <2>2. pending' \in BOOLEAN
    BY <1>4 DEF Answer, TypeOK
  <2> QED
    BY <1>4, <2>1, <2>2 DEF Answer, TypeOK
<1>5. CASE BeginRemoval \/ BeginShutdown
  BY <1>5 DEF BeginRemoval, BeginShutdown, Input, TypeOK
<1>6. CASE EndPhase
  <2>1. inbox' \in Seq(Commands) /\ deferredUsage' \in Seq(Commands)
    <3>1. inbox \in Seq(Commands) /\ deferredUsage \in Seq(Commands)
      BY DEF TypeOK
    <3> HIDE DEF Commands
    <3> QED
      BY <1>6, <3>1 DEF EndPhase
  <2> QED
    BY <1>6, <2>1 DEF EndPhase, TypeOK
<1>7. ASSUME NEW s \in Slots, Announce(s) PROVE TypeOK'
  <2>1. [do |-> "account_changing", arg |-> s] \in Commands
    BY DEF Commands
  <2>2. inbox' \in Seq(Commands) /\ deferredUsage' \in Seq(Commands)
    BY <1>7, <2>1, SendType DEF Announce
  <2>3. task' \in Task
    BY <1>7 DEF Announce, Task, TypeOK
  <2> QED
    BY <1>7, <2>2, <2>3 DEF Announce, Input, TypeOK
<1>8. CASE Begin
  <2>0. task \in Task
    BY <1>8 DEF Begin, NoTask, TypeOK
  <2>1. task' \in Task
    BY <1>8, <2>0 DEF Begin, Task
  <2> QED
    BY <1>8, <2>1 DEF Begin, TypeOK
<1>e. ASSUME task.at \in {"announced", "running"} PROVE Ended \in {NoTask} \cup Task
  <2>1. task \in Task
    BY <1>e DEF NoTask, TypeOK
  <2>2. [task EXCEPT !.at = "ended"] \in Task
    BY <2>1 DEF Task
  <2> QED
    BY <2>2 DEF Ended
<1>9. ASSUME NEW registered \in BOOLEAN, Change(registered) PROVE TypeOK'
  <2>0. task.slot \in Slots
    BY <1>9 DEF Change, NoTask, Task, TypeOK
  <2>1. version' \in [Slots -> Nat] /\ held' \in [Slots -> BOOLEAN]
    BY <1>9, <2>0 DEF Change, TypeOK
  <2> QED
    BY <1>9, <1>e, <2>1 DEF Change, TypeOK
<1>10. CASE Fail
  BY <1>10, <1>e DEF Fail, TypeOK
<1>11. CASE Confirm
  <2>1. task.slot \in Slots
    BY <1>11 DEF Confirm, NoTask, Task, TypeOK
  <2>2. [do |-> "account_changed", arg |-> task.slot] \in Commands
    BY <2>1 DEF Commands
  <2>3. inbox' \in Seq(Commands) /\ deferredUsage' \in Seq(Commands)
    BY <1>11, <2>2, SendType DEF Confirm
  <2> QED
    BY <1>11, <2>3 DEF Confirm, TypeOK
<1> QED
  BY <1>1, <1>2, <1>3, <1>4, <1>5, <1>6, <1>7, <1>8, <1>9, <1>10, <1>11 DEF Outside

\* A step of the primary: only it, its loop, queues and caches change.
LEMMA TypePolls ==
  ASSUME TypeOK, UNCHANGED <<Beside>>, inbox' \in Seq(Commands), answers' \in Seq(Reply),
         proc' \in Process, \E read \in SUBSET Slots : loop' \in Loop(read),
         samples' \in [Slots -> Sample], noticed' \in [Slots -> Nat]
  PROVE  TypeOK'
BY DEF TypeOK, Beside, accounts, broker, ui

\* The next command.
LEMMA ObeysType ==
  ASSUME TypeOK, NEW kinds, Obeys(kinds)
  PROVE  Head(inbox) \in Commands /\ Head(inbox).do \in kinds /\ inbox' \in Seq(Commands)
<1>1. inbox \in Seq(Commands) /\ inbox # <<>>
  BY DEF TypeOK, Obeys
<1> QED
  BY <1>1 DEF Obeys

-----------------------------------------------------------------------------
(* Promotion and the commands of the primary.                              *)

LEMMA PromoteStep ==
  ASSUME IInv, Promote
  PROVE  TypeOK' /\ CachesCurrent' /\ RoundsCurrent'
<1> USE DEF IInv, accounts, broker, polling
<1>1. /\ proc' = Secondary /\ loop' = NoLoop /\ UNCHANGED <<version, samples, noticed>>
  BY DEF Promote
<1>2. [do |-> "usage_primary", arg |-> 0] \in Commands
  BY DEF Commands
<1>3. inbox' \in Seq(Commands) /\ deferredUsage' \in Seq(Commands)
  <2>1. deferredUsage \in Seq(Commands)
    BY DEF TypeOK
  <2> QED
    BY <1>2, <2>1 DEF Promote
<1>4. TypeOK'
  BY <1>1, <1>3, Zeros, Loops DEF Promote, TypeOK
<1>5. CachesCurrent'
  BY <1>1, Zeros DEF CachesCurrent, Current
<1>6. RoundsCurrent'
  BY <1>1, Zeros, Loops DEF RoundsCurrent, Current
<1> QED
  BY <1>4, <1>5, <1>6

LEMMA PrimaryStep ==
  ASSUME IInv, ObeyPrimary
  PROVE  TypeOK' /\ CachesCurrent' /\ RoundsCurrent'
<1> USE DEF IInv
<1>1. proc \in Process /\ proc' = Primary(proc) /\ loop' = FirstLoop
      /\ UNCHANGED <<Beside, answers, samples, noticed>>
  BY DEF ObeyPrimary, TypeOK
<1>2. inbox' \in Seq(Commands)
  BY ObeysType DEF ObeyPrimary
<1>3. TypeOK'
  BY <1>1, <1>2, PrimaryOf, Loops, TypePolls DEF TypeOK
<1>4. CachesCurrent'
  BY <1>1, PrimaryOf DEF CachesCurrent, Current
<1>5. RoundsCurrent'
  <2>1. \A s \in Slots : proc.epoch[s] \in Nat /\ version' = version
    BY <1>1 DEF Process, Beside, accounts
  <2> QED
    BY <1>1, <2>1, PrimaryOf, Zeros, Loops DEF RoundsCurrent, Current
<1> QED
  BY <1>3, <1>4, <1>5

LEMMA RefreshStep ==
  ASSUME IInv, ObeyRefresh
  PROVE  TypeOK' /\ CachesCurrent' /\ RoundsCurrent'
<1> USE DEF IInv
<1>0. proc \in Process /\ UNCHANGED <<Beside, loop, samples, noticed>>
  BY DEF ObeyRefresh, TypeOK
<1>1. Head(inbox) \in Commands /\ Head(inbox).do = "usage_refresh" /\ inbox' \in Seq(Commands)
  BY ObeysType DEF ObeyRefresh
<1> PICK n \in Nat : n = Head(inbox).arg
  BY <1>1 DEF Commands
<1>2. StartRefresh(n) \in Process /\ StartRefresh(n).epoch = proc.epoch
      /\ StartRefresh(n).changing = proc.changing /\ StartRefresh(n).samples = proc.samples
  BY <1>0 DEF StartRefresh, Process
<1>3. proc' = proc \/ proc' = StartRefresh(n)
  BY DEF ObeyRefresh
<1>4. PICK status \in {"busy", "cooldown", "started"} :
        answers' = Append(answers, [seq |-> n, status |-> status])
  BY DEF ObeyRefresh
<1>5. answers' \in Seq(Reply)
  <2>1. answers \in Seq(Reply) /\ [seq |-> n, status |-> status] \in Reply
    BY DEF TypeOK, Reply
  <2> QED
    BY <1>4, <2>1
<1>6. TypeOK'
  BY <1>0, <1>1, <1>2, <1>3, <1>5, TypePolls DEF TypeOK
<1>7. /\ proc'.epoch = proc.epoch /\ proc'.changing = proc.changing /\ proc'.samples = proc.samples
      /\ version' = version /\ version \in [Slots -> Nat]
  BY <1>0, <1>2, <1>3 DEF Beside, accounts, TypeOK
<1> QED
  BY <1>0, <1>6, <1>7, CurrentStays

LEMMA NoticeStep ==
  ASSUME IInv, ObeyNotice
  PROVE  TypeOK' /\ CachesCurrent' /\ RoundsCurrent'
<1> USE DEF IInv
<1>0. proc \in Process /\ UNCHANGED <<Beside, answers, loop>> /\ version' = version
  BY DEF ObeyNotice, TypeOK, Beside, accounts
<1>1. /\ Head(inbox) \in Commands /\ inbox' \in Seq(Commands)
      /\ Head(inbox).do \in {"account_changing", "account_changed"}
  BY ObeysType DEF ObeyNotice
<1> PICK u \in Slots : u = Head(inbox).arg
  BY <1>1 DEF Commands
<1>2. PICK on \in BOOLEAN :
        /\ proc' = [proc EXCEPT !.epoch[u] = @ + 1, !.changing[u] = on, !.samples[u] = Nothing]
        /\ samples' = proc'.samples
        /\ noticed' \in {noticed, [noticed EXCEPT ![u] = version[u]]}
  BY DEF ObeyNotice
<1> DEFINE e == [proc.epoch EXCEPT ![u] = @ + 1]
           c == [proc.changing EXCEPT ![u] = on]
           m == [proc.samples EXCEPT ![u] = Nothing]
<1>t. proc.epoch \in [Slots -> Nat] /\ proc.changing \in [Slots -> BOOLEAN]
      /\ proc.samples \in [Slots -> Sample] /\ noticed \in [Slots -> Nat] /\ version \in [Slots -> Nat]
  BY <1>0 DEF Process, TypeOK
<1>m. e \in [Slots -> Nat] /\ c \in [Slots -> BOOLEAN] /\ m \in [Slots -> Sample]
  BY <1>t, Zeros
<1>p. proc' = [proc EXCEPT !.epoch = e, !.changing = c, !.samples = m]
  BY <1>2
<1> HIDE DEF e, c, m
<1>3. proc' \in Process /\ proc'.epoch = e /\ proc'.changing = c /\ proc'.samples = m
  BY <1>0, <1>m, <1>p DEF Process
<1>4. /\ \A s \in Slots : s # u => /\ proc'.epoch[s] = proc.epoch[s]
                                   /\ proc'.changing[s] = proc.changing[s]
                                   /\ proc'.samples[s] = proc.samples[s]
                                   /\ noticed'[s] = noticed[s]
      /\ proc'.epoch[u] = proc.epoch[u] + 1 /\ proc'.samples[u].ver = 0
  BY <1>t, <1>2, <1>3, Zeros DEF e, c, m
<1>5. samples' \in [Slots -> Sample] /\ noticed' \in [Slots -> Nat]
  BY <1>t, <1>m, <1>2, <1>3
<1>6. TypeOK'
  BY <1>0, <1>1, <1>3, <1>5, TypePolls DEF TypeOK
<1>7. CachesCurrent'
  BY <1>2, <1>4 DEF CachesCurrent, Current
<1>8. RoundsCurrent'
  <2>1. ASSUME NEW s \in Slots
        PROVE  /\ noticed'[s] <= version[s] /\ loop.epoch[s] <= proc'.epoch[s]
               /\ loop.epoch[s] = proc'.epoch[s] =>
                    /\ loop.previous[s] # 0 => loop.previous[s] >= noticed'[s]
                    /\ s \in DOMAIN loop.next => (loop.next[s].ver # 0 => loop.next[s].ver >= noticed'[s])
    <3>1. CASE s # u
      BY <1>4, <3>1 DEF RoundsCurrent, Current
    <3>2. CASE s = u
      <4>1. loop.epoch[s] \in Nat /\ proc.epoch[s] \in Nat /\ version[s] \in Nat
        BY <1>0 DEF TypeOK, Process, Loop
      <4>2. loop.epoch[s] <= proc.epoch[s] /\ noticed[s] <= version[s]
        BY DEF RoundsCurrent
      <4>3. noticed'[s] <= version[s]
        BY <1>2, <3>2, <4>1, <4>2 DEF TypeOK
      <4> QED
        BY <1>4, <3>2, <4>1, <4>2, <4>3
    <3> QED
      BY <3>1, <3>2
  <2> QED
    BY <1>0, <2>1 DEF RoundsCurrent, Current
<1> QED
  BY <1>6, <1>7, <1>8

LEMMA ReconcileStep ==
  ASSUME IInv, Reconcile
  PROVE  TypeOK' /\ CachesCurrent' /\ RoundsCurrent'
<1> USE DEF IInv
<1>0. /\ proc \in Process /\ UNCHANGED <<Beside, inbox, answers, loop>> /\ version' = version
      /\ samples' = proc'.samples
  BY DEF Reconcile, TypeOK, Beside, accounts
<1>t. proc.epoch \in [Slots -> Nat] /\ proc.changing \in [Slots -> BOOLEAN]
      /\ proc.samples \in [Slots -> Sample] /\ noticed \in [Slots -> Nat] /\ version \in [Slots -> Nat]
  BY <1>0 DEF Process, TypeOK
<1> DEFINE open == {s \in Slots : proc.changing[s]}
           e == [s \in Slots |-> proc.epoch[s] + (IF s \in open THEN 1 ELSE 0)]
           c == [s \in Slots |-> FALSE]
           m == [s \in Slots |-> IF s \in open THEN Nothing ELSE proc.samples[s]]
<1>m. e \in [Slots -> Nat] /\ c \in [Slots -> BOOLEAN] /\ m \in [Slots -> Sample]
  BY <1>t, Zeros
<1>p. /\ proc' = [proc EXCEPT !.epoch = e, !.changing = c, !.samples = m]
      /\ noticed' = [s \in Slots |-> IF s \in open THEN version[s] ELSE noticed[s]]
  BY DEF Reconcile
<1> HIDE DEF e, c, m
<1>3. proc' \in Process /\ proc'.epoch = e /\ proc'.changing = c /\ proc'.samples = m
  BY <1>0, <1>m, <1>p DEF Process
<1>4. \A s \in Slots : /\ ~proc'.changing[s]
                       /\ ~proc.changing[s] => /\ proc'.epoch[s] = proc.epoch[s]
                                               /\ proc'.samples[s] = proc.samples[s]
                                               /\ noticed'[s] = noticed[s]
                       /\ proc.changing[s] => /\ proc'.epoch[s] = proc.epoch[s] + 1
                                              /\ proc'.samples[s].ver = 0
                                              /\ noticed'[s] = version[s]
  BY <1>t, <1>p, <1>3, Zeros DEF e, c, m
<1>5. samples' \in [Slots -> Sample] /\ noticed' \in [Slots -> Nat]
  BY <1>t, <1>m, <1>0, <1>3, <1>p
<1> HIDE DEF open
<1>6. TypeOK'
  BY <1>0, <1>3, <1>5, TypePolls DEF TypeOK
<1>7. CachesCurrent'
  BY <1>0, <1>4 DEF CachesCurrent, Current
<1>8. RoundsCurrent'
  <2>1. ASSUME NEW s \in Slots
        PROVE  /\ noticed'[s] <= version[s] /\ loop.epoch[s] <= proc'.epoch[s]
               /\ loop.epoch[s] = proc'.epoch[s] =>
                    /\ loop.previous[s] # 0 => loop.previous[s] >= noticed'[s]
                    /\ s \in DOMAIN loop.next => (loop.next[s].ver # 0 => loop.next[s].ver >= noticed'[s])
    <3>1. CASE ~proc.changing[s]
      BY <1>4, <3>1 DEF RoundsCurrent, Current
    <3>2. CASE proc.changing[s]
      <4>1. loop.epoch[s] \in Nat /\ proc.epoch[s] \in Nat /\ version[s] \in Nat
        BY <1>t DEF TypeOK, Loop
      <4>2. loop.epoch[s] <= proc.epoch[s] /\ proc'.epoch[s] = proc.epoch[s] + 1 /\ noticed'[s] = version[s]
        BY <1>4, <3>2 DEF RoundsCurrent
      <4> QED
        BY <4>1, <4>2
    <3> QED
      BY <3>1, <3>2
  <2> QED
    BY <1>0, <2>1 DEF RoundsCurrent, Current
<1> QED
  BY <1>6, <1>7, <1>8

LEMMA PublishStep ==
  ASSUME IInv, PublishUsage
  PROVE  TypeOK' /\ CachesCurrent' /\ RoundsCurrent'
<1> USE DEF IInv
<1>0. /\ proc \in Process /\ UNCHANGED <<Beside, inbox, answers, proc, loop, noticed>>
      /\ version' = version /\ samples' = proc.samples
  BY DEF PublishUsage, TypeOK, Beside, accounts
<1>1. TypeOK'
  <2>1. samples' \in [Slots -> Sample]
    BY <1>0 DEF Process
  <2> QED
    BY <1>0, <2>1, TypePolls DEF TypeOK
<1>2. CachesCurrent'
  BY <1>0 DEF CachesCurrent, Current
<1>3. RoundsCurrent'
  BY <1>0 DEF RoundsCurrent, Current
<1> QED
  BY <1>1, <1>2, <1>3

-----------------------------------------------------------------------------
(* The loop.                                                               *)

\* The parts of the loop.
LEMMA LoopOf ==
  ASSUME TypeOK
  PROVE  /\ \E read \in SUBSET Slots : loop \in Loop(read) /\ DOMAIN loop.next = read
         /\ loop.epoch \in [Slots -> Nat] /\ loop.previous \in [Slots -> Nat]
         /\ DOMAIN loop.next \subseteq Slots
         /\ \A s \in DOMAIN loop.next : loop.next[s] \in Sample
BY DEF TypeOK, Loop

LEMMA BeginRoundStep ==
  ASSUME IInv, BeginRound
  PROVE  TypeOK' /\ CachesCurrent' /\ RoundsCurrent'
<1> USE DEF IInv
<1> PICK read \in SUBSET Slots : loop \in Loop(read)
  BY DEF TypeOK
<1>0. /\ proc \in Process /\ UNCHANGED <<Beside, inbox, answers, samples, noticed>> /\ version' = version
      /\ proc' = [proc EXCEPT !.wake = FALSE, !.running = TRUE]
      /\ loop' = [loop EXCEPT !.at = "poll", !.epoch = proc.epoch,
                              !.previous = IF proc.epoch = loop.epoch THEN @ ELSE Zero]
  BY DEF BeginRound, TypeOK, Beside, accounts
<1>1. /\ proc' \in Process /\ proc'.epoch = proc.epoch /\ proc'.changing = proc.changing
      /\ proc'.samples = proc.samples /\ proc.epoch \in [Slots -> Nat]
  BY <1>0 DEF Process
<1>2. loop.next \in [read -> Sample] /\ loop.epoch \in [Slots -> Nat] /\ loop.previous \in [Slots -> Nat]
  BY DEF Loop
<1> DEFINE v == IF proc.epoch = loop.epoch THEN loop.previous ELSE Zero
<1>3. v \in [Slots -> Nat]
  BY <1>2, Zeros
<1>4. loop' = [loop EXCEPT !.at = "poll", !.epoch = proc.epoch, !.next = loop.next, !.previous = v]
  BY <1>0 DEF Loop
<1> HIDE DEF v
<1>5. loop' \in Loop(read) /\ loop'.epoch = proc.epoch /\ loop'.next = loop.next /\ loop'.previous = v
  BY <1>1, <1>2, <1>3, <1>4 DEF Loop
<1>6. TypeOK'
  BY <1>0, <1>1, <1>5, TypePolls DEF TypeOK
<1>7. CachesCurrent'
  BY <1>0, <1>1 DEF CachesCurrent, Current
<1>8. RoundsCurrent'
  <2>1. DOMAIN loop'.next = {}
    BY <1>5 DEF RoundsCurrent, BeginRound
  <2>2. ASSUME NEW s \in Slots, v[s] # 0 PROVE v[s] >= noticed[s]
    <3>1. v = loop.previous /\ loop.epoch = proc.epoch
      BY <2>2, Zeros DEF v
    <3> QED
      BY <2>2, <3>1 DEF RoundsCurrent, Current
  <2>3. \A s \in Slots : proc.epoch[s] <= proc.epoch[s]
    BY <1>1
  <2> QED
    BY <1>0, <1>1, <1>5, <2>1, <2>2, <2>3 DEF RoundsCurrent, Current
<1> QED
  BY <1>6, <1>7, <1>8

LEMMA PollStep ==
  ASSUME IInv, NEW u \in Slots, Poll(u)
  PROVE  TypeOK' /\ CachesCurrent' /\ RoundsCurrent'
<1> USE DEF IInv
<1> PICK read \in SUBSET Slots : loop \in Loop(read)
  BY DEF TypeOK
<1>0. /\ UNCHANGED <<Beside, inbox, answers, proc, samples, noticed>> /\ version' = version
      /\ loop.at = "poll" /\ version \in [Slots -> Nat]
  BY DEF Poll, TypeOK, Beside, accounts
<1>1. loop.next \in [read -> Sample] /\ loop.epoch \in [Slots -> Nat] /\ loop.previous \in [Slots -> Nat]
      /\ DOMAIN loop.next = read
  BY DEF Loop
<1>2. PICK got \in Fetched(u) :
        loop' = [loop EXCEPT !.next = [t \in DOMAIN @ \cup {u} |-> IF t = u THEN got ELSE @[t]]]
  BY DEF Poll
<1>3. got \in Sample /\ (got.ver = 0 \/ got.ver = version[u] \/ got.ver = loop.previous[u])
  <2> DEFINE live == [ver |-> version[u], fresh |-> TRUE]
             stale == [ver |-> loop.previous[u], fresh |-> FALSE]
  <2>1. Nothing \in Sample /\ Nothing.ver = 0
    BY DEF Nothing, Sample
  <2>2. version[u] \in Nat /\ loop.previous[u] \in Nat
    BY <1>0, <1>1
  <2>3. live \in Sample /\ live.ver = version[u] /\ stale \in Sample /\ stale.ver = loop.previous[u]
    BY <2>2 DEF Sample
  <2>4. got \in {Nothing, live, stale}
    BY <1>2 DEF Fetched, Got
  <2> HIDE DEF live, stale
  <2> QED
    BY <2>1, <2>3, <2>4
<1> DEFINE x == [t \in read \cup {u} |-> IF t = u THEN got ELSE loop.next[t]]
<1>4. x \in [read \cup {u} -> Sample] /\ DOMAIN x = read \cup {u}
      /\ \A t \in read \cup {u} : x[t] = IF t = u THEN got ELSE loop.next[t]
  BY <1>1, <1>3
<1>5. loop' = [loop EXCEPT !.next = x]
  BY <1>1, <1>2
<1> HIDE DEF x
<1>6. /\ loop' \in Loop(read \cup {u}) /\ loop'.next = x /\ loop'.epoch = loop.epoch
      /\ loop'.previous = loop.previous /\ loop'.at = "poll"
  BY <1>0, <1>4, <1>5 DEF Loop
<1>7. TypeOK'
  <2>1. read \cup {u} \in SUBSET Slots
    OBVIOUS
  <2> QED
    BY <1>0, <1>6, <2>1, TypePolls DEF TypeOK
<1>8. CachesCurrent'
  BY <1>0 DEF CachesCurrent, Current
<1>9. RoundsCurrent'
  <2>1. ASSUME NEW s \in Slots, loop.epoch[s] = proc.epoch[s], s \in DOMAIN x, x[s].ver # 0
        PROVE  x[s].ver >= noticed[s]
    <3>1. CASE s # u
      BY <1>1, <1>4, <2>1, <3>1 DEF RoundsCurrent, Current
    <3>2. CASE s = u
      <4>1. noticed[u] <= version[u] /\ (loop.previous[u] # 0 => loop.previous[u] >= noticed[u])
        BY <2>1, <3>2 DEF RoundsCurrent, Current
      <4>2. x[s].ver = version[u] \/ x[s].ver = loop.previous[u]
        BY <1>3, <1>4, <2>1, <3>2
      <4>3. noticed[u] \in Nat /\ version[u] \in Nat
        BY DEF TypeOK
      <4> QED
        BY <2>1, <3>2, <4>1, <4>2, <4>3
    <3> QED
      BY <3>1, <3>2
  <2> QED
    BY <1>0, <1>6, <2>1 DEF RoundsCurrent, Current
<1> QED
  BY <1>7, <1>8, <1>9

LEMMA EndRoundStep ==
  ASSUME IInv, EndRound
  PROVE  TypeOK' /\ CachesCurrent' /\ RoundsCurrent'
<1> USE DEF IInv
<1> PICK read \in SUBSET Slots : loop \in Loop(read)
  BY DEF TypeOK
<1>0. /\ proc \in Process /\ UNCHANGED <<Beside, inbox, noticed>> /\ version' = version
      /\ samples' = proc'.samples /\ DOMAIN loop.next = Slots
  BY DEF EndRound, TypeOK, Beside, accounts
<1>1. /\ loop.next \in [Slots -> Sample] /\ loop.epoch \in [Slots -> Nat]
      /\ proc.samples \in [Slots -> Sample]
  BY <1>0 DEF Loop, Process
<1> DEFINE m == [s \in Slots |-> IF Applies(s) THEN loop.next[s] ELSE proc.samples[s]]
           v == [s \in Slots |-> loop.next[s].ver]
<1>2. m \in [Slots -> Sample] /\ v \in [Slots -> Nat]
  BY <1>1 DEF Sample
<1>3. /\ \A s \in Slots : m[s] = IF Applies(s) THEN loop.next[s] ELSE proc.samples[s]
      /\ \A s \in Slots : v[s] = loop.next[s].ver
  OBVIOUS
<1>4. /\ proc' = [proc EXCEPT !.samples = m, !.request = 0, !.running = FALSE]
      /\ loop' = [loop EXCEPT !.at = "rest", !.next = Unread, !.previous = v]
  BY DEF EndRound
<1> HIDE DEF m, v
<1>5. /\ proc' \in Process /\ proc'.samples = m /\ proc'.epoch = proc.epoch
      /\ proc'.changing = proc.changing
  BY <1>0, <1>2, <1>4 DEF Process
<1>6. /\ loop' \in Loop({}) /\ loop'.epoch = loop.epoch /\ loop'.previous = v
      /\ DOMAIN loop'.next = {}
  <2>1. Unread \in [{} -> Sample] /\ DOMAIN Unread = {}
    BY DEF Unread
  <2> QED
    BY <1>2, <1>4, <2>1 DEF Loop
<1>7. answers' \in Seq(Reply)
  <2>1. answers \in Seq(Reply) /\ [seq |-> proc.request, status |-> "finished"] \in Reply
    BY <1>0 DEF TypeOK, Reply, Process
  <2> QED
    BY <2>1 DEF EndRound
<1>8. TypeOK'
  BY <1>0, <1>2, <1>5, <1>6, <1>7, TypePolls DEF TypeOK
<1>9. CachesCurrent'
  <2>1. ASSUME NEW s \in Slots
        PROVE  /\ m[s].ver # 0 => m[s].ver >= noticed[s]
               /\ proc.changing[s] => m[s].ver = 0
    <3>1. CASE Applies(s)
      BY <1>0, <1>3, <3>1 DEF Applies, RoundsCurrent, Current
    <3>2. CASE ~Applies(s)
      BY <1>3, <3>2 DEF CachesCurrent, Current
    <3> QED
      BY <3>1, <3>2
  <2> QED
    BY <1>0, <1>5, <2>1 DEF CachesCurrent, Current
<1>10. RoundsCurrent'
  <2>1. ASSUME NEW s \in Slots, loop.epoch[s] = proc.epoch[s], v[s] # 0 PROVE v[s] >= noticed[s]
    BY <1>0, <1>3, <2>1 DEF RoundsCurrent, Current
  <2> QED
    BY <1>0, <1>5, <1>6, <2>1 DEF RoundsCurrent, Current
<1> QED
  BY <1>8, <1>9, <1>10

LEMMA WakeStep ==
  ASSUME IInv, Timer \/ Woken
  PROVE  TypeOK' /\ CachesCurrent' /\ RoundsCurrent'
<1> USE DEF IInv
<1> PICK read \in SUBSET Slots : loop \in Loop(read)
  BY DEF TypeOK
<1>0. /\ proc \in Process /\ UNCHANGED <<Beside, inbox, answers, samples, noticed>> /\ version' = version
      /\ loop' = [loop EXCEPT !.at = "woken"] /\ loop.at = "rest"
      /\ proc' = proc \/ proc' = [proc EXCEPT !.wake = FALSE]
  BY DEF Timer, Woken, TypeOK, Beside, accounts
<1>1. /\ proc' \in Process /\ proc'.epoch = proc.epoch /\ proc'.changing = proc.changing
      /\ proc'.samples = proc.samples
  BY <1>0 DEF Process
<1>2. /\ loop' \in Loop(read) /\ loop'.epoch = loop.epoch /\ loop'.next = loop.next
      /\ loop'.previous = loop.previous
  BY <1>0 DEF Loop
<1>3. TypeOK'
  BY <1>0, <1>1, <1>2, TypePolls DEF TypeOK
<1>4. CachesCurrent'
  BY <1>0, <1>1 DEF CachesCurrent, Current
<1>5. RoundsCurrent'
  BY <1>0, <1>1, <1>2 DEF RoundsCurrent, Current
<1> QED
  BY <1>3, <1>4, <1>5

-----------------------------------------------------------------------------
(* The numbers of requests.                                                *)

LEMMA NumbersStay ==
  ASSUME Numbered, UNCHANGED <<broker, asked>>
  PROVE  Numbered'
BY DEF Numbered, broker

LEMMA AskNumbers ==
  ASSUME TypeOK, Numbered, AskRefresh
  PROVE  Numbered'
<1>1. asked \in Seq(Question) /\ sequence = Len(asked) /\ sequence \in Nat
  BY DEF TypeOK, Numbered
<1>2. /\ asked' = Append(asked, [peer |-> peer, id |-> refreshID'])
      /\ sequence' = sequence + 1 /\ refreshOwner' = peer
  BY DEF AskRefresh
<1>3. Len(asked') = sequence + 1 /\ asked'[sequence + 1] = [peer |-> peer, id |-> refreshID']
  BY <1>1, <1>2
<1> QED
  BY <1>1, <1>2, <1>3 DEF Numbered

LEMMA NumbersStep ==
  ASSUME TypeOK, Numbered, Next
  PROVE  Numbered'
<1> USE DEF accounts, broker, service, ui, polling, Beside
<1>1. CASE AskRefresh
  BY <1>1, AskNumbers
<1>2. CASE Attach \/ Detach \/ Answer \/ BeginRemoval \/ BeginShutdown \/ EndPhase \/ Promote
  BY <1>2, NumbersStay DEF Attach, Detach, Answer, BeginRemoval, BeginShutdown, EndPhase, Promote
<1>3. ASSUME NEW s \in Slots, Announce(s) \/ Poll(s) PROVE Numbered'
  BY <1>3, NumbersStay DEF Announce, Poll
<1>4. CASE Begin \/ (\E registered \in BOOLEAN : Change(registered)) \/ Fail \/ Confirm
  BY <1>4, NumbersStay DEF Begin, Change, Fail, Confirm
<1>5. CASE Obey \/ PublishUsage \/ Reconcile \/ Round
  BY <1>5, NumbersStay DEF Obey, ObeyPrimary, ObeyRefresh, ObeyNotice, PublishUsage, Reconcile, Round,
                           BeginRound, EndRound, Timer, Woken
<1> QED
  BY <1>1, <1>2, <1>3, <1>4, <1>5 DEF Next

-----------------------------------------------------------------------------
(* The invariant.                                                          *)

LEMMA InvariantInit == Init => IInv
<1> SUFFICES ASSUME Init PROVE IInv
  OBVIOUS
<1>1. TypeOK
  BY TypeInit
<1>2. Numbered
  BY DEF Init, Numbered
<1>3. proc.epoch = Zero /\ proc.samples = Blank /\ \A s \in Slots : ~proc.changing[s]
  BY Zeros, PrimaryOf DEF Init
<1>4. CachesCurrent
  BY <1>3, Zeros DEF Init, CachesCurrent, Current
<1>5. RoundsCurrent
  BY <1>3, Zeros, Loops DEF Init, RoundsCurrent, Current
<1> QED
  BY <1>1, <1>2, <1>4, <1>5 DEF IInv

LEMMA OutsideStep ==
  ASSUME IInv, Outside
  PROVE  TypeOK' /\ CachesCurrent' /\ RoundsCurrent'
<1> USE DEF IInv
<1>1. TypeOK'
  BY TypeOutside
<1>2. /\ UNCHANGED polling
      /\ version' = version \/ \E registered \in BOOLEAN : Change(registered)
  BY DEF Outside, Attach, Detach, AskRefresh, Answer, BeginRemoval, BeginShutdown, EndPhase,
         Announce, Begin, Change, Fail, Confirm, accounts
<1>3. \A s \in Slots : version[s] <= version'[s]
  <2>1. \A s \in Slots : version[s] \in Nat
    BY DEF TypeOK
  <2>2. ASSUME NEW registered \in BOOLEAN, Change(registered) PROVE \A s \in Slots : version[s] <= version'[s]
    BY <2>1, <2>2 DEF Change, TypeOK
  <2> QED
    BY <1>2, <2>1, <2>2
<1>4. version' \in [Slots -> Nat]
  BY <1>1 DEF TypeOK
<1> QED
  BY <1>1, <1>2, <1>3, <1>4, CurrentStays DEF polling

LEMMA InvariantStep ==
  ASSUME IInv, Next
  PROVE  IInv'
<1>1. Numbered'
  BY NumbersStep DEF IInv
<1>2. TypeOK' /\ CachesCurrent' /\ RoundsCurrent'
  BY OutsideStep, PromoteStep, PrimaryStep, RefreshStep, NoticeStep, ReconcileStep, PublishStep,
     BeginRoundStep, PollStep, EndRoundStep, WakeStep DEF Next, Outside, Obey, Round
<1> QED
  BY <1>1, <1>2 DEF IInv

\* Every reachable state satisfies the inductive invariant.
THEOREM Invariance == Spec => []IInv
<1>1. Init => IInv
  BY InvariantInit
<1>2. IInv /\ [Next]_vars => IInv'
  <2>1. ASSUME IInv, UNCHANGED vars PROVE IInv'
    BY <2>1 DEF IInv, vars, accounts, broker, service, ui, polling, TypeOK, Numbered, CachesCurrent,
                RoundsCurrent, Current
  <2> QED
    BY <2>1, InvariantStep
<1> QED
  BY <1>1, <1>2, PTL DEF Spec

\* No connection chooses by the usage of an account its slot had before the last
\* change the primary was told of, and while one is under way, by none.
THEOREM SamplesStayCurrent == Spec => []SamplesCurrent
<1>1. IInv => SamplesCurrent
  BY DEF IInv, CachesCurrent, Current, SamplesCurrent
<1> QED
  BY <1>1, Invariance, PTL

\* A UI is only given answers to requests of its own, under its own number.
THEOREM AnswersOwned == Spec => []AnswerOwned
<1>1. IInv => AnswerOwned
  <2> SUFFICES ASSUME IInv, answers # <<>>, Mine(Head(answers))
               PROVE  asked[Head(answers).seq] = [peer |-> peer, id |-> refreshID]
    BY DEF AnswerOwned
  <2>1. sequence \in Nat /\ Numbered
    BY DEF IInv, TypeOK
  <2>2. sequence > 0
    BY <2>1 DEF Mine, Numbered
  <2> QED
    BY <2>1, <2>2 DEF Mine, Numbered
<1> QED
  BY <1>1, Invariance, PTL
=============================================================================

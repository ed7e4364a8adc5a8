----------------------------- MODULE Connection -----------------------------
(***************************************************************************)
(* One connection of the managed proxy (switchprobe.go, run by multiprobe  *)
(* with --managed --auto --tools): the HTTP handlers of one Codex CLI, the *)
(* control commands of the UI, the durable checkpoint, crash and restart.  *)
(*                                                                         *)
(* Every region of code run under the mutex mu is one action.  The fields  *)
(* mu guards are the record m; what a request keeps in locals is cur (busy *)
(* admits one root request at a time); pc gives the place of each handler. *)
(*                                                                         *)
(* Data.  A body is a number: 0 has no user message, and bodies 2u-1 and   *)
(* 2u end in user boundary u (two bodies of one turn).  A credential is a  *)
(* number, one per login of a slot.  An opaque item (encrypted reasoning,  *)
(* a native compaction) is named by the credential that produced it.       *)
(* revision is only ever compared for equality with the value a command    *)
(* carries, so ui.current records whether the UI has seen the latest one.  *)
(***************************************************************************)
EXTENDS Quota, FiniteSets

NoThread == "unbound"  \* no conversation

CONSTANTS Handlers,      \* HTTP handler goroutines
          Threads,       \* conversation ids a CLI may present
          MaxUser,       \* user boundaries the CLI may send
          MaxCred,       \* credentials that may exist (slots + new logins)
          MaxRestarts,   \* crashes or stops followed by a restart
          MaxPolls,      \* usage observations
          Userless,      \* may the CLI send a body without a user message?
          WriteFailures, \* may writing the checkpoint fail?
          Compaction,    \* may the CLI ask for native compaction?
          Auxiliary,     \* may the CLI start an auxiliary conversation?
          Operators      \* does a UI send control commands?

ASSUME ConnectionAssumption ==
  /\ 1 \in Slots /\ Handlers # {} /\ Threads # {}
  /\ MaxUser \in Nat /\ MaxCred \in Nat /\ MaxRestarts \in Nat /\ MaxPolls \in Nat
  /\ \A s \in Slots : s <= MaxCred
  /\ {Userless, WriteFailures, Compaction, Auxiliary, Operators} \subseteq BOOLEAN
  /\ NoThread \notin Threads

VARIABLES alive,      \* the probe process is running
          m,          \* the fields guarded by mu, and turnLease
          disk,       \* checkpoint.json
          pc,         \* place of each handler
          head,       \* what the headers of each handler's request say
          cur,        \* the admitted root request
          ui,         \* the state the UI acts on
          accountOp,  \* another process holds the activity lock to log in or out
          cred,       \* the credential registered in each slot
          nextCred,   \* the next credential to be issued
          sample,     \* the latest usage observation of each slot
          limits,     \* slots marked by an explicit usage limit (probeLimitState)
          newer,      \* of those, the ones observed again since they were marked
          cli,        \* what the CLI holds: its last boundary and opaque items
          interrupted, \* boundaries of turns that were cut short
          lastSent,   \* boundary of the latest body handed to the upstream
          restarts, polls

vars == <<alive, m, disk, pc, head, cur, ui, accountOp, cred, nextCred, sample,
          limits, newer, cli, interrupted, lastSent, restarts, polls>>
process == <<alive, m, disk, pc, head, cur, ui>>
quota   == <<sample, limits, newer, polls>>
world   == <<accountOp, cred, nextCred>>
client  == <<cli, interrupted, lastSent>>

NoCred == 0
NoBody == -1
Creds  == 1..MaxCred
Bodies == 0..(2 * MaxUser)
UserOf(b) == IF b <= 0 THEN 0 ELSE (b + 1) \div 2

\* An entry of probeCompactRegistry: the item, and the account that made it.
Owner == [key : Creds, slot : Slots, credential : Creds]
NoReasoning == [credential |-> NoCred, boundary |-> 0, keys |-> {}]

Stages == {"idle", "entered", "waiting", "signalled", "reading", "preparing",
           "storing", "dispatching", "upstream", "terminal", "limited",
           "switching", "answered", "releasing", "finishing"}
Active == {"reading", "preparing", "storing", "dispatching", "upstream", "terminal",
           "limited", "switching", "answered", "releasing", "finishing"}

\* The zero values of a connection without a usable checkpoint: slot "a", no
\* session, nothing chosen.
First == 1
Blank == [slot |-> First, chosen |-> FALSE, session |-> NoThread, busy |-> FALSE,
          failed |-> FALSE, turnPending |-> FALSE, waiting |-> FALSE,
          terminalReady |-> FALSE, recoveryRequired |-> FALSE, lastBody |-> NoBody,
          previousSlot |-> NoSlot, previousCredential |-> NoCred,
          portableBoundary |-> 0, opaqueSlot |-> NoSlot, compactOwners |-> {},
          reasoning |-> NoReasoning, aux |-> "none", lease |-> FALSE,
          prepared |-> FALSE, closing |-> FALSE, checkpointErr |-> FALSE,
          retired |-> FALSE]

NoRequest == [compact |-> FALSE, waited |-> FALSE, selected |-> NoSlot,
              body |-> NoBody, reasoning |-> {}, compacted |-> {}, opaque |-> {},
              turnOwner |-> NoCred, credential |-> NoCred, tried |-> {},
              attempts |-> 0, next |-> NoSlot, result |-> "none", completed |-> FALSE]

AuxActive(x) == x.aux \in {"busy", "pending"}
Idle(x) == ~x.busy /\ ~x.waiting /\ ~x.turnPending /\ ~AuxActive(x)

-----------------------------------------------------------------------------
(* The checkpoint.                                                         *)

\* What persist() writes.  Deleted and Retired both make the next start of
\* this slot begin with nothing, so one flag stands for them.
Image(x) == [slot |-> x.slot, chosen |-> x.chosen, session |-> x.session,
             busy |-> x.busy, failed |-> x.failed, turnPending |-> x.turnPending,
             recoveryRequired |-> x.recoveryRequired, lastBody |-> x.lastBody,
             previousSlot |-> x.previousSlot, previousCredential |-> x.previousCredential,
             opaqueSlot |-> x.opaqueSlot, compactOwners |-> x.compactOwners,
             aux |-> x.aux # "none", retired |-> x.retired]

\* Variant: too few fields compared before a write is skipped.
persistCoarse(x) == m' = x /\ disk' = IF disk.busy = x.busy THEN disk ELSE Image(x)

\* persist(): nothing after an earlier failure; otherwise the write succeeds,
\* or fails before or after the rename, which cancels the service.  A write that
\* would change only the revision never fails here.
persist(x) ==
  \/ /\ x.checkpointErr
     /\ m' = x
     /\ UNCHANGED disk
  \/ /\ ~x.checkpointErr
     /\ m' = x
     /\ disk' = Image(x)
  \/ /\ ~x.checkpointErr
     /\ WriteFailures
     /\ disk # Image(x)
     /\ m' = [x EXCEPT !.checkpointErr = TRUE, !.failed = TRUE]
     /\ disk' \in {disk, Image(x)}

\* Variant: the lease is given back although a tool call is open.
stateEarly(x) == persist([x EXCEPT !.lease = x.lease /\ x.busy])

\* state(): persist, then give the activity lease back once nothing runs.
state(x) ==
  persist([x EXCEPT !.lease = x.lease /\ (x.busy \/ x.turnPending \/ AuxActive(x))])

\* revision++ makes what the UI last saw out of date.
NoView == [current |-> FALSE, slot |-> First, pending |-> FALSE, failed |-> FALSE, turn |-> 0]
revise == ui' = NoView

-----------------------------------------------------------------------------
(* Usage observations, shared by all connections.                          *)

\* probeLimitState.apply: a marked slot counts as exhausted until a usable
\* observation started after the mark.
Cleared == {s \in limits : s \in newer /\ sample[s] # Unknown}
quotaSamples == [s \in Slots |-> IF s \in limits \ Cleared THEN 0 ELSE sample[s]]
\* Reading the samples forgets the marks it found outdated.
applied == /\ limits' = limits \ Cleared
           /\ newer' = newer \ Cleared
           /\ UNCHANGED <<sample, polls>>

\* A usage poll of slot s stores its result; after says that it was started
\* after the slot was last marked.
UsagePoll(s, level, after) ==
  /\ polls < MaxPolls
  /\ polls' = polls + 1
  /\ sample' = [sample EXCEPT ![s] = level]
  /\ newer' = IF after /\ s \in limits THEN newer \cup {s} ELSE newer \ {s}
  /\ UNCHANGED <<process, world, client, limits, restarts>>

\* Another connection met the explicit usage limit of slot s.
MarkedElsewhere(s) ==
  /\ polls < MaxPolls
  /\ polls' = polls + 1
  /\ limits' = limits \cup {s}
  /\ newer' = newer \ {s}
  /\ UNCHANGED <<process, world, client, sample, restarts>>

-----------------------------------------------------------------------------
(* A root request: the HTTP handler.                                       *)

\* handlers.Add under mu, then the capability and route checks.
Enter(h, thread, compact) ==
  /\ alive /\ pc[h] = "idle"
  /\ ~m.closing /\ ~m.prepared
  /\ compact => Compaction
  /\ pc' = [pc EXCEPT ![h] = "entered"]
  /\ head' = [head EXCEPT ![h] = [thread |-> thread, compact |-> compact]]
  /\ UNCHANGED <<alive, m, disk, cur, ui, world, quota, client, restarts>>

NoHead == [thread |-> NoThread, compact |-> FALSE]
Return(h) == /\ pc' = [pc EXCEPT ![h] = "idle"]
             /\ head' = [head EXCEPT ![h] = NoHead]

MayWait(h) == head[h].thread = m.session /\ m.busy /\ m.terminalReady /\ ~m.waiting

\* A follow-up that overtakes the end of the request it follows waits for it.
Wait(h) ==
  /\ pc[h] = "entered"
  /\ ~m.closing /\ ~m.prepared
  /\ MayWait(h)
  /\ m' = [m EXCEPT !.waiting = TRUE]
  /\ pc' = [pc EXCEPT ![h] = "waiting"]
  /\ UNCHANGED <<alive, disk, head, cur, ui, world, quota, client, restarts>>

\* The 30 second timer, or the CLI closing its connection.
WaitEnds(h) ==
  /\ pc[h] \in {"waiting", "signalled"}
  /\ m' = [m EXCEPT !.waiting = FALSE]
  /\ Return(h)
  /\ UNCHANGED <<alive, disk, cur, ui, world, quota, client, restarts>>

\* Variant: nothing rechecked after the route and identity checks.
AtAdmissionUnchecked(h) == (pc[h] = "entered" /\ ~MayWait(h)) \/ pc[h] = "signalled"

\* Where a request stands before probeAdmissionCode: straight from the entry
\* (rechecking closing and shutdownPrepared), or after its wait, which ends in
\* the same region of mu and rechecks neither.
AtAdmission(h) == \/ /\ pc[h] = "entered"
                     /\ ~m.closing /\ ~m.prepared
                     /\ ~MayWait(h)
                  \/ pc[h] = "signalled"
WaitOver(h) == IF pc[h] = "signalled" THEN [m EXCEPT !.waiting = FALSE] ELSE m

probeAdmissionCode(h) ==
  \/ m.busy
  \/ m.failed \/ m.checkpointErr
  \/ m.session # NoThread /\ m.session # head[h].thread
  \/ head[h].compact /\ m.turnPending

\* The account of the next turn: chosen only between turns, and never away
\* from the account a native compaction is pinned to.
AdmissibleUnpinned(next) == next # NoSlot   \* Variant: the pin is ignored.
Admissible(next) == next # NoSlot /\ (m.opaqueSlot # NoSlot => next = m.opaqueSlot)
NextSlot == probeQuotaSelection(IF m.chosen THEN m.slot ELSE NoSlot, quotaSamples, Slots)
ReselectsInTurn == ~AuxActive(m)   \* Variant: also inside a tool turn.
Reselects == ~m.turnPending /\ ~AuxActive(m)

\* Variant: only the stop is answered.
RejectStopping(h) ==
  /\ pc[h] = "entered" /\ (m.closing \/ m.prepared)
  /\ m' = WaitOver(h)
  /\ Return(h)
  /\ UNCHANGED <<alive, disk, cur, ui, world, quota, client, restarts>>

\* Stopping, the CLI gone, or an admission code.
Reject(h) ==
  /\ \/ pc[h] = "entered" /\ (m.closing \/ m.prepared)
     \/ AtAdmission(h)
  /\ m' = WaitOver(h)
  /\ Return(h)
  /\ UNCHANGED <<alive, disk, cur, ui, world, quota, client, restarts>>

\* No usable account, or only one the compacted history may not move to.
RejectQuota(h) ==
  /\ AtAdmission(h) /\ ~probeAdmissionCode(h)
  /\ Reselects /\ ~Admissible(NextSlot)
  /\ m' = WaitOver(h)
  /\ Return(h)
  /\ applied
  /\ UNCHANGED <<alive, disk, cur, ui, world, client, restarts>>

Selecting(h) == IF Reselects THEN [WaitOver(h) EXCEPT !.slot = NextSlot, !.chosen = TRUE]
                             ELSE WaitOver(h)
MaySelect == Reselects => Admissible(NextSlot)

\* BeginTurn fails: the request is refused, but the account stays selected.
AdmitBusy(h) ==
  /\ AtAdmission(h) /\ ~probeAdmissionCode(h) /\ MaySelect
  /\ ~m.lease /\ accountOp
  /\ m' = Selecting(h)
  /\ Return(h)
  /\ IF Reselects THEN applied ELSE UNCHANGED quota
  /\ UNCHANGED <<alive, disk, cur, ui, world, client, restarts>>

\* The request becomes the active one, durably, before its body is read.
Admit(h) ==
  /\ AtAdmission(h) /\ ~probeAdmissionCode(h) /\ MaySelect
  /\ m.lease \/ ~accountOp
  /\ LET x == [Selecting(h) EXCEPT !.lease = TRUE, !.busy = TRUE, !.terminalReady = FALSE,
                                   !.session = head[h].thread]
         fails == [x EXCEPT !.checkpointErr = TRUE, !.failed = TRUE, !.busy = FALSE]
     IN \/ /\ m' = x
           /\ disk' = Image(x)
           /\ pc' = [pc EXCEPT ![h] = "reading"]
           /\ cur' = [NoRequest EXCEPT !.compact = head[h].compact, !.selected = x.slot,
                                       !.waited = (pc[h] = "signalled")]
           /\ UNCHANGED head
        \/ /\ WriteFailures
           /\ m' = fails
           /\ disk' \in {disk, Image(x)}
           /\ Return(h)
           /\ UNCHANGED cur
  /\ revise
  /\ IF Reselects THEN applied ELSE UNCHANGED quota
  /\ UNCHANGED <<alive, world, client, restarts>>

\* To a later place of the same request, with cur updated.
Goto(h, place, c) == /\ pc' = [pc EXCEPT ![h] = place]
                     /\ cur' = c
Elsewhere == <<alive, head, world, restarts>>

\* The body is read, or not (cancelled, too large, malformed framing).
ReadFails(h) ==
  /\ pc[h] = "reading"
  /\ Goto(h, "finishing", cur)
  /\ UNCHANGED <<Elsewhere, m, disk, ui, quota, client>>

\* After recovery only a new user message may start.
needsAnyInput(b) == m.recoveryRequired /\ UserOf(b) = 0   \* Variant: or an old one.
needsInput(b) == m.recoveryRequired /\ UserOf(b) \in {0, UserOf(m.lastBody)}

\* The body b carries opaque reasoning in its current turn and compaction items
\* the CLI got earlier.  The CLI's history only grows: its boundary never goes
\* back.  A follow-up that waited must not repeat the body just answered.
ReadBody(h, b, reasoning, compacted) ==
  LET duplicate == cur.waited /\ b = m.lastBody
  IN
  /\ pc[h] = "reading"
  /\ IF UserOf(b) = 0 THEN Userless ELSE UserOf(b) >= cli.user
  /\ reasoning \subseteq cli.reasoning /\ compacted \subseteq cli.compacted
  /\ cli' = IF UserOf(b) = 0 THEN cli ELSE [cli EXCEPT !.user = UserOf(b)]
  /\ IF needsInput(b) \/ duplicate
     THEN /\ Goto(h, "finishing", [cur EXCEPT !.completed = TRUE])
          /\ UNCHANGED m
     ELSE /\ Goto(h, "preparing", [cur EXCEPT !.body = b, !.reasoning = reasoning,
                                               !.compacted = compacted])
          /\ m' = [m EXCEPT !.lastBody = b]
  /\ UNCHANGED <<Elsewhere, disk, ui, quota, interrupted, lastSent>>

\* probeHistoryCredential fails: the slot is unregistered or needs a new login.
PrepareDenied(h) ==
  /\ pc[h] = "preparing"
  /\ Goto(h, "finishing", cur)
  /\ UNCHANGED <<Elsewhere, m, disk, ui, quota, client>>

\* probeCompactRegistry and probeReasoningOwners: permits and accept.
compactPermits(k, s, c) == [key |-> k, slot |-> s, credential |-> c] \in m.compactOwners
compactAccept(k, s, c)  == m.compactOwners \cup {[key |-> k, slot |-> s, credential |-> c]}
reasoningPermits(k, c)  == c # NoCred /\ c = m.reasoning.credential /\ k \in m.reasoning.keys
\* Variant: the keys of another credential are kept.
reasoningMerge(k, c)    == [credential |-> c, boundary |-> UserOf(m.lastBody),
                            keys |-> {k} \cup m.reasoning.keys]
reasoningAccept(k, c)   ==
  LET u    == UserOf(m.lastBody)
      same == m.reasoning.credential = c /\ m.reasoning.boundary = u
  IN [credential |-> c, boundary |-> u,
      keys |-> {k} \cup IF same THEN m.reasoning.keys ELSE {}]

\* probeToolInput.normalize: whether the history may go to slot s under
\* credential c.  Portable history drops reasoning and call ids; compaction
\* items are kept whole or refuse the request.
normalizes(b, reasoning, compacted, portable, s, owner, c) ==
  /\ UserOf(b) # 0
  /\ compacted # {} => ~portable /\ \A k \in compacted : compactPermits(k, s, c)
  /\ reasoning # {} /\ ~portable => /\ owner = s
                                    /\ \A k \in reasoning : reasoningPermits(k, c)

Portable == m.portableBoundary # 0 /\ m.portableBoundary = UserOf(m.lastBody)

\* The history is checked against the credential registered in the slot.
Prepare(h) ==
  LET c     == cred[cur.selected]
      owner == IF c = m.previousCredential THEN m.previousSlot ELSE NoSlot
      needsTurnOwner == ~Portable /\ cur.reasoning # {}
  IN
  /\ pc[h] = "preparing"
  /\ normalizes(cur.body, cur.reasoning, cur.compacted, Portable, cur.selected, owner, c)
  /\ m' = IF cur.compacted = {} THEN [m EXCEPT !.opaqueSlot = NoSlot] ELSE m
  /\ Goto(h, "storing", [cur EXCEPT
       !.turnOwner = IF needsTurnOwner THEN m.previousCredential
                     ELSE IF Portable THEN c ELSE NoCred,
       !.opaque    = cur.compacted \cup (IF Portable THEN {} ELSE cur.reasoning)])
  /\ UNCHANGED <<Elsewhere, disk, ui, quota, client>>

\* Unowned opaque items, or history of an unsupported shape.
PrepareFails(h) ==
  /\ pc[h] = "preparing"
  /\ m' = [m EXCEPT !.failed = TRUE]
  /\ Goto(h, "finishing", cur)
  /\ UNCHANGED <<Elsewhere, disk, ui, quota, client>>

\* The request boundary is on disk before anything is sent.
Store(h) ==
  /\ pc[h] = "storing"
  /\ persist([m EXCEPT !.recoveryRequired = FALSE])
  /\ IF m'.checkpointErr THEN Goto(h, "finishing", cur)
     ELSE Goto(h, "dispatching", cur)
  /\ UNCHANGED <<Elsewhere, ui, quota, client>>

\* resolve: the credential actually used is checked again, after whatever
\* renewal it needed, against the slot, the turn owner and the compactions.
resolve ==
  LET c == cred[m.slot]
  IN /\ ~m.closing /\ ~m.checkpointErr
     /\ m.slot = cur.selected
     /\ cur.turnOwner # NoCred => c = cur.turnOwner
     /\ \A k \in cur.compacted : compactPermits(k, m.slot, c)

\* The one upstream attempt of this account.
Dispatch(h) ==
  /\ pc[h] = "dispatching"
  /\ resolve
  /\ Goto(h, "upstream", [cur EXCEPT !.credential = cred[m.slot],
                                     !.tried = @ \cup {cur.selected}, !.attempts = @ + 1])
  /\ lastSent' = UserOf(cur.body)
  /\ UNCHANGED <<Elsewhere, m, disk, ui, quota, cli, interrupted>>

\* No credential, a failed check, or an error before anything was sent.
DispatchDenied(h) ==
  /\ pc[h] = "dispatching"
  /\ Goto(h, "answered", [cur EXCEPT !.tried = @ \cup {cur.selected}, !.result = "error"])
  /\ UNCHANGED <<Elsewhere, m, disk, ui, quota, client>>

\* The CLI sees what streams before the terminal frame, opaque items included.
Streamed == cli' = [cli EXCEPT !.reasoning = @ \cup {cur.credential}]

\* An explicit usage limit, before any byte reached the CLI.
LimitReached(h) ==
  /\ pc[h] = "upstream" /\ ~cur.compact
  /\ Goto(h, "limited", cur)
  /\ UNCHANGED <<Elsewhere, m, disk, ui, quota, client>>

\* probeTurnWriter.onTerminal: the terminal frame is held back.
Terminal(h) ==
  /\ pc[h] = "upstream" /\ ~cur.compact
  /\ state([m EXCEPT !.terminalReady = TRUE])
  /\ Goto(h, "terminal", cur)
  /\ Streamed
  /\ UNCHANGED <<Elsewhere, ui, quota, interrupted, lastSent>>

\* The proxied attempt ends: a complete response that ends the turn or leaves
\* a tool call open, or any failure.
Respond(h, result) ==
  /\ \/ pc[h] = "terminal"
     \/ pc[h] = "upstream" /\ result = "error"
  /\ Goto(h, "answered", [cur EXCEPT !.result = result])
  /\ Streamed
  /\ UNCHANGED <<Elsewhere, m, disk, ui, quota, interrupted, lastSent>>

\* validateCompact: a compaction is recorded for, and pins, its account before
\* the CLI receives it.
validateCompact(h) ==
  /\ pc[h] = "upstream" /\ cur.compact
  /\ persist([m EXCEPT !.compactOwners = compactAccept(cur.credential, m.slot, cur.credential),
                       !.reasoning = reasoningAccept(cur.credential, cur.credential),
                       !.opaqueSlot = m.slot])
  /\ Goto(h, "answered", [cur EXCEPT !.result = IF m'.checkpointErr THEN "error" ELSE "final"])
  /\ cli' = IF m'.checkpointErr THEN cli
            ELSE [cli EXCEPT !.compacted = @ \cup {cur.credential}]
  /\ UNCHANGED <<Elsewhere, ui, quota, interrupted, lastSent>>

\* After an explicit limit the slot is marked; an untried account with known
\* quota may take over unless the history is pinned or the service stops.
ConsiderSwitch(h) ==
  LET marked == [s \in Slots |-> IF s = cur.selected THEN 0 ELSE quotaSamples[s]]
      next   == probeQuotaAlternative(marked, cur.tried)
      ok     == next # NoSlot /\ m.opaqueSlot = NoSlot /\ ~m.closing /\ ~m.checkpointErr
  IN
  /\ pc[h] = "limited"
  /\ limits' = (limits \ Cleared) \cup {cur.selected}
  /\ newer' = (newer \ Cleared) \ {cur.selected}
  /\ IF ok THEN Goto(h, "switching", [cur EXCEPT !.next = next])
     ELSE Goto(h, "answered", [cur EXCEPT !.result = "error"])
  /\ UNCHANGED <<Elsewhere, m, disk, ui, sample, polls, client>>

\* The takeover sends portable history only, bound to the credential it was
\* prepared for.  The switch is on disk before the second attempt.
Switch(h) ==
  /\ pc[h] = "switching"
  /\ ~m.closing /\ ~m.checkpointErr
  /\ normalizes(cur.body, cur.reasoning, cur.compacted, TRUE, cur.next, NoSlot, cred[cur.next])
  /\ state([m EXCEPT !.slot = cur.next, !.chosen = TRUE,
                     !.portableBoundary = UserOf(m.lastBody)])
  /\ Goto(h, IF m'.checkpointErr THEN "answered" ELSE "dispatching",
          [cur EXCEPT !.selected = cur.next, !.next = NoSlot, !.compacted = {}, !.opaque = {},
                      !.credential = NoCred, !.turnOwner = cred[cur.next],
                      !.result = IF m'.checkpointErr THEN "error" ELSE "none"])
  /\ revise
  /\ UNCHANGED <<Elsewhere, quota, client>>

\* Stopping meanwhile, the CLI gone, no credential, or history that cannot move.
SwitchRefused(h) ==
  /\ pc[h] = "switching"
  /\ Goto(h, "answered", [cur EXCEPT !.result = "error", !.next = NoSlot])
  /\ UNCHANGED <<Elsewhere, m, disk, ui, quota, client>>

\* The outcome is stored before the held terminal frame is released.
Conclude(h) ==
  LET success == cur.result \in {"final", "pending"}
      x == [m EXCEPT !.failed = ~success,
                     !.turnPending = IF cur.compact THEN m.turnPending
                                     ELSE cur.result = "pending",
                     !.previousSlot = IF success THEN cur.selected ELSE m.previousSlot,
                     !.previousCredential = IF success THEN cur.credential
                                            ELSE m.previousCredential,
                     !.reasoning = IF success /\ ~cur.compact
                                   THEN reasoningAccept(cur.credential, cur.credential)
                                   ELSE m.reasoning]
  IN
  /\ pc[h] = "answered"
  /\ persist(x)
  /\ LET completed == success /\ ~m'.checkpointErr
     IN Goto(h, IF completed /\ ~cur.compact THEN "releasing" ELSE "finishing",
             [cur EXCEPT !.completed = completed])
  /\ UNCHANGED <<Elsewhere, ui, quota, client>>

\* turn.release writes the held frame; the CLI may be gone.
Release(h, ok) ==
  /\ pc[h] = "releasing"
  /\ Goto(h, "finishing", [cur EXCEPT !.completed = ok])
  /\ UNCHANGED <<Elsewhere, m, disk, ui, quota, client>>

\* A turn that was sent, or was still open, ends without completing.
Cut == interrupted \cup {lastSent}

\* The deferred end of the handler, which also wakes the waiting follow-up.
Finish(h) ==
  LET x == IF cur.completed THEN m ELSE [m EXCEPT !.failed = TRUE, !.turnPending = FALSE]
  IN
  /\ pc[h] = "finishing"
  /\ state([x EXCEPT !.busy = FALSE, !.terminalReady = FALSE])
  /\ revise
  /\ pc' = [g \in Handlers |-> IF g = h THEN "idle"
                               ELSE IF pc[g] = "waiting" THEN "signalled" ELSE pc[g]]
  /\ head' = [head EXCEPT ![h] = NoHead]
  /\ cur' = NoRequest
  /\ interrupted' = IF ~cur.completed /\ (cur.attempts > 0 \/ m.turnPending)
                    THEN Cut ELSE interrupted
  /\ UNCHANGED <<alive, world, quota, cli, lastSent, restarts>>

-----------------------------------------------------------------------------
(* Auxiliary conversations (subagents), seen from the connection: one        *)
(* thread, whether it runs or has a tool call open, and its tombstone.       *)

\* First request of the thread: it may bind the root conversation and choose
\* the account, in memory only.
AuxCreate(thread) ==
  LET next == probeQuotaSelection(NoSlot, quotaSamples, Slots)
  IN
  /\ Auxiliary /\ alive /\ ~m.closing /\ ~m.prepared
  /\ m.aux = "none"
  /\ m.session \in {NoThread, thread}
  /\ ~m.failed /\ ~m.checkpointErr
  /\ m.chosen \/ next # NoSlot
  /\ m' = [m EXCEPT !.slot = IF m.chosen THEN m.slot ELSE next, !.chosen = TRUE,
                    !.session = thread, !.aux = "idle"]
  /\ IF m.chosen THEN UNCHANGED quota ELSE applied
  /\ UNCHANGED <<alive, disk, pc, head, cur, ui, world, client, restarts>>

\* serve up to the dispatch: the lease, then a durable binding.
AuxBegin ==
  /\ alive /\ m.aux \in {"idle", "pending"}
  /\ ~m.closing /\ ~m.prepared /\ ~m.checkpointErr
  /\ m.lease \/ ~accountOp
  /\ \/ state([m EXCEPT !.lease = TRUE, !.aux = "busy"]) /\ ~m'.checkpointErr
     \/ /\ WriteFailures
        /\ disk' \in {disk, Image([m EXCEPT !.aux = "busy"])}
        /\ m' = [m EXCEPT !.lease = TRUE, !.checkpointErr = TRUE, !.failed = TRUE]
  /\ revise
  /\ UNCHANGED <<alive, pc, head, cur, world, quota, client, restarts>>

\* The deferred end of serve.
AuxEnd(outcome) ==
  /\ m.aux = "busy"
  /\ state([m EXCEPT !.aux = outcome])
  /\ revise
  /\ UNCHANGED <<alive, pc, head, cur, world, quota, client, restarts>>

\* It ran into an explicit usage limit: the slot is marked for everyone, and
\* the switch of its own account is stored.
AuxLimited(s) ==
  /\ m.aux = "busy" /\ s \notin limits
  /\ limits' = (limits \ Cleared) \cup {s}
  /\ newer' = newer \ Cleared
  /\ state(m)
  /\ revise
  /\ UNCHANGED <<alive, pc, head, cur, world, sample, polls, client, restarts>>

-----------------------------------------------------------------------------
(* Control commands, read one at a time until the service is closing.      *)

Control == alive /\ ~m.closing /\ Operators
Untouched == <<alive, pc, head, cur, world, restarts>>

\* status, or any command that is refused: state() stores and reports, and the
\* UI acts on that report from then on.  A refused selection read the samples.
Status ==
  /\ Control
  /\ state(m)
  /\ ui' = [current |-> TRUE, slot |-> m.slot, pending |-> m.turnPending,
            failed |-> m'.failed, turn |-> lastSent]
  /\ applied \/ UNCHANGED quota
  /\ UNCHANGED <<Untouched, client>>

\* prepare_shutdown; deletion also names the revision it was confirmed for.
PrepareShutdown(delete) ==
  LET ok == Idle(m) /\ ~m.checkpointErr /\ (delete => ui.current)
  IN
  /\ Control
  /\ state([m EXCEPT !.prepared = ok])
  /\ UNCHANGED <<Untouched, ui, quota, client>>

AbortShutdown ==
  /\ Control /\ m.prepared
  /\ state([m EXCEPT !.prepared = FALSE])
  /\ UNCHANGED <<Untouched, ui, quota, client>>

\* shutdown, alone or with the end of the session or the connection; after the
\* checkpoint is written nothing more is accepted.
Shutdown(delete, newSession) ==
  /\ Control
  /\ Idle(m) /\ (delete => m.prepared)
  /\ LET x == [m EXCEPT !.closing = TRUE, !.retired = @ \/ delete \/ newSession]
         Off(y) == [y EXCEPT !.failed = TRUE, !.lease = FALSE]
     IN \/ /\ m' = Off(x)
           /\ disk' = IF m.checkpointErr THEN disk ELSE Image(x)
        \/ /\ WriteFailures /\ ~m.checkpointErr
           /\ m' = Off([x EXCEPT !.checkpointErr = TRUE])
           /\ disk' \in {disk, Image(x)}
  /\ UNCHANGED <<Untouched, ui, quota, client>>

\* Variant: the revision the user decided on is not compared.
AbandonAnytime == /\ ui.slot = m.slot
                  /\ ~m.busy /\ ~m.waiting /\ m.aux # "busy"
                  /\ m.aux = "pending" \/ (m.turnPending /\ ~m.failed)

\* probeAbandonAllowed, or an auxiliary tool call left open.
AbandonAllowed == /\ ui.current /\ ui.slot = m.slot
                  /\ ~m.busy /\ ~m.waiting /\ m.aux # "busy"
                  /\ m.aux = "pending" \/ (m.turnPending /\ ~m.failed)

\* The user says the CLI's local tools stopped.  The turn counts as failed.
Abandon ==
  /\ Control /\ AbandonAllowed
  /\ state([m EXCEPT !.turnPending = FALSE, !.failed = TRUE,
                     !.aux = IF @ = "pending" THEN "failed" ELSE @])
  /\ revise
  /\ interrupted' = IF m.turnPending THEN Cut ELSE interrupted
  /\ UNCHANGED <<Untouched, quota, cli, lastSent>>

\* probeSelectionAllowed and the checks that follow it.
SelectionAllowed(target) ==
  /\ target \in Slots /\ ui.current
  /\ Idle(m)
  /\ m.opaqueSlot # NoSlot => target = m.opaqueSlot
  /\ probeQuotaSelection(target, quotaSamples, Slots) = target

\* A failed connection recovers only here: its history loses its owner and the
\* next request must bring new input.
selects(target) ==
  /\ SelectionAllowed(target)
  /\ LET x == IF m.failed THEN [m EXCEPT !.failed = FALSE, !.recoveryRequired = TRUE,
                                         !.previousSlot = NoSlot,
                                         !.previousCredential = NoCred]
              ELSE m
     IN state([x EXCEPT !.slot = target, !.chosen = TRUE])
  /\ applied
  /\ revise
  /\ UNCHANGED <<Untouched, client>>

Select(target) == Control /\ selects(target)

\* recover: the account is chosen anew, or stays with compacted history.
Recover ==
  /\ Control
  /\ m.failed
  /\ selects(probeQuotaSelection(m.opaqueSlot, quotaSamples, Slots))

-----------------------------------------------------------------------------
(* The process and the rest of the machine.                                *)

\* A signal, the end of the control pipe, or a failed checkpoint write.
Stop ==
  /\ alive /\ ~m.closing
  /\ m.checkpointErr \/ restarts < MaxRestarts
  /\ m' = [m EXCEPT !.closing = TRUE]
  /\ UNCHANGED <<alive, disk, pc, head, cur, ui, world, quota, client, restarts>>

\* Nothing of the process is left but its checkpoint.
Gone == /\ alive' = FALSE
        /\ m' = Blank
        /\ pc' = [h \in Handlers |-> "idle"]
        /\ head' = [h \in Handlers |-> NoHead]
        /\ cur' = NoRequest
        /\ ui' = NoView
        /\ UNCHANGED <<disk, world, quota, cli, lastSent, restarts>>

\* Variant: an open tool turn is waited for.
ExitAfterTurn ==
  /\ alive /\ m.closing /\ ~m.turnPending
  /\ \A h \in Handlers : pc[h] = "idle"
  /\ m.aux # "busy"
  /\ UNCHANGED interrupted
  /\ Gone

\* The process leaves once every handler has returned.
Exit ==
  /\ alive /\ m.closing
  /\ \A h \in Handlers : pc[h] = "idle"
  /\ m.aux # "busy"
  /\ interrupted' = IF m.turnPending THEN Cut ELSE interrupted
  /\ Gone

Crash ==
  /\ alive /\ restarts < MaxRestarts
  /\ interrupted' = IF m.turnPending \/ cur.attempts > 0 THEN Cut ELSE interrupted
  /\ Gone

\* The state a start takes from the checkpoint: work that was open is failed,
\* and a bound conversation needs new input.
Restored ==
  IF disk.retired THEN Blank
  ELSE [Blank EXCEPT
          !.slot = disk.slot, !.chosen = disk.chosen, !.session = disk.session,
          !.failed = disk.failed \/ disk.busy \/ disk.turnPending,
          !.recoveryRequired = disk.recoveryRequired \/ disk.session # NoThread,
          !.lastBody = disk.lastBody, !.previousSlot = disk.previousSlot,
          !.previousCredential = disk.previousCredential,
          !.opaqueSlot = disk.opaqueSlot, !.compactOwners = disk.compactOwners,
          !.aux = IF disk.aux THEN "failed" ELSE "none"]

\* A new session starts with a new CLI home: nothing of the old history.
NewCli == [user |-> 0, reasoning |-> {}, compacted |-> {}]

Restart ==
  /\ ~alive /\ restarts < MaxRestarts
  /\ restarts' = restarts + 1
  /\ alive' = TRUE
  /\ m' = Restored
  /\ disk' = Image(Restored)
  /\ IF disk.retired THEN cli' = NewCli /\ interrupted' = {} /\ lastSent' = 0
                     ELSE UNCHANGED client
  /\ UNCHANGED <<pc, head, cur, ui, world, quota>>

\* Another process logs a slot in or out under the activity lock.
AccountBegin ==
  /\ ~accountOp /\ ~m.lease
  /\ nextCred <= MaxCred
  /\ accountOp' = TRUE
  /\ UNCHANGED <<process, cred, nextCred, quota, client, restarts>>

AccountEnd(s) ==
  /\ accountOp
  /\ accountOp' = FALSE
  /\ cred' = [cred EXCEPT ![s] = nextCred]
  /\ nextCred' = nextCred + 1
  /\ UNCHANGED <<process, quota, client, restarts>>

-----------------------------------------------------------------------------
Init ==
  /\ alive = TRUE
  /\ m = Blank
  /\ disk = Image(Blank)
  /\ pc = [h \in Handlers |-> "idle"]
  /\ head = [h \in Handlers |-> NoHead]
  /\ cur = NoRequest
  /\ ui = NoView
  /\ accountOp = FALSE
  /\ cred = [s \in Slots |-> s]
  /\ \E n \in Slots : (\A s \in Slots : s <= n) /\ nextCred = n + 1
  /\ sample \in [Slots -> Levels]
  /\ limits = {} /\ newer = {}
  /\ cli = NewCli /\ interrupted = {} /\ lastSent = 0
  /\ restarts = 0 /\ polls = 0

\* One step of the handler of a request already received.
Handle(h) ==
  \/ Wait(h) \/ WaitEnds(h) \/ Reject(h) \/ RejectQuota(h) \/ AdmitBusy(h) \/ Admit(h)
  \/ ReadFails(h)
  \/ \E b \in Bodies, r \in SUBSET Creds, k \in SUBSET Creds : ReadBody(h, b, r, k)
  \/ PrepareDenied(h) \/ Prepare(h) \/ PrepareFails(h) \/ Store(h)
  \/ Dispatch(h) \/ DispatchDenied(h) \/ LimitReached(h) \/ Terminal(h)
  \/ \E result \in {"final", "pending", "error"} : Respond(h, result)
  \/ validateCompact(h)
  \/ ConsiderSwitch(h) \/ Switch(h) \/ SwitchRefused(h)
  \/ Conclude(h)
  \/ \E ok \in BOOLEAN : Release(h, ok)
  \/ Finish(h)

AuxFinishes == \E outcome \in {"idle", "pending", "failed"} : AuxEnd(outcome)

Command ==
  \/ Status
  \/ \E delete \in BOOLEAN : PrepareShutdown(delete)
  \/ AbortShutdown
  \/ \E delete, newSession \in BOOLEAN : Shutdown(delete, newSession)
  \/ Abandon
  \/ \E target \in Slots : Select(target)
  \/ Recover

Next ==
  \/ \E h \in Handlers : Handle(h)
  \/ \E h \in Handlers, thread \in Threads, compact \in BOOLEAN : Enter(h, thread, compact)
  \/ \E thread \in Threads : AuxCreate(thread)
  \/ AuxBegin \/ AuxFinishes \/ \E s \in Slots : AuxLimited(s)
  \/ Command
  \/ Stop \/ Exit \/ Crash \/ Restart
  \/ AccountBegin \/ \E s \in Slots : AccountEnd(s)
  \/ \E s \in Slots, level \in Levels, after \in BOOLEAN : UsagePoll(s, level, after)
  \/ \E s \in Slots : MarkedElsewhere(s)

Spec == Init /\ [][Next]_vars

\* A received request keeps being served: its goroutine is scheduled, its waits
\* have timers, and the upstream exchange ends in an answer or a lost
\* connection.  Once stopping, the process leaves when its handlers have.
Fairness == /\ \A h \in Handlers : WF_vars(Handle(h))
            /\ WF_vars(AuxFinishes)
            /\ WF_vars(Stop /\ m.checkpointErr)
            /\ WF_vars(Exit)
FairSpec == Spec /\ Fairness

-----------------------------------------------------------------------------
(* Properties.                                                             *)

Memory == [slot : Slots, chosen : BOOLEAN, session : Threads \cup {NoThread}, busy : BOOLEAN,
           failed : BOOLEAN, turnPending : BOOLEAN, waiting : BOOLEAN,
           terminalReady : BOOLEAN, recoveryRequired : BOOLEAN, lastBody : Bodies \cup {NoBody},
           previousSlot : Slots \cup {NoSlot}, previousCredential : Creds \cup {NoCred},
           portableBoundary : 0..MaxUser, opaqueSlot : Slots \cup {NoSlot},
           compactOwners : SUBSET Owner,
           reasoning : [credential : Creds \cup {NoCred}, boundary : 0..MaxUser,
                        keys : SUBSET Creds],
           aux : {"none", "idle", "busy", "pending", "failed"}, lease : BOOLEAN,
           prepared : BOOLEAN, closing : BOOLEAN, checkpointErr : BOOLEAN,
           retired : BOOLEAN]
Saved == [slot : Slots, chosen : BOOLEAN, session : Threads \cup {NoThread}, busy : BOOLEAN,
          failed : BOOLEAN, turnPending : BOOLEAN, recoveryRequired : BOOLEAN,
          lastBody : Bodies \cup {NoBody}, previousSlot : Slots \cup {NoSlot},
          previousCredential : Creds \cup {NoCred}, opaqueSlot : Slots \cup {NoSlot},
          compactOwners : SUBSET Owner, aux : BOOLEAN, retired : BOOLEAN]
Request == [compact : BOOLEAN, waited : BOOLEAN, selected : Slots \cup {NoSlot},
            body : Bodies \cup {NoBody}, reasoning : SUBSET Creds, compacted : SUBSET Creds,
            opaque : SUBSET Creds, turnOwner : Creds \cup {NoCred},
            credential : Creds \cup {NoCred}, tried : SUBSET Slots, attempts : Nat,
            next : Slots \cup {NoSlot}, result : {"none", "final", "pending", "error"},
            completed : BOOLEAN]

\* Every variable keeps its type.
TypeOK ==
  /\ alive \in BOOLEAN
  /\ m \in Memory /\ disk \in Saved
  /\ pc \in [Handlers -> Stages]
  /\ head \in [Handlers -> [thread : Threads \cup {NoThread}, compact : BOOLEAN]]
  /\ cur \in Request
  /\ ui \in [current : BOOLEAN, slot : Slots, pending : BOOLEAN, failed : BOOLEAN,
             turn : 0..MaxUser]
  /\ accountOp \in BOOLEAN
  /\ cred \in [Slots -> Creds] /\ nextCred \in 1..(MaxCred + 1)
  /\ sample \in [Slots -> Levels] /\ limits \in SUBSET Slots /\ newer \in SUBSET limits
  /\ cli \in [user : 0..MaxUser, reasoning : SUBSET Creds, compacted : SUBSET Creds]
  /\ interrupted \in SUBSET (0..MaxUser) /\ lastSent \in 0..MaxUser
  /\ restarts \in 0..MaxRestarts /\ polls \in 0..MaxPolls

Upstream == {"upstream", "terminal"}

\* A user message whose turn was cut short (by a failed response, an abandoned
\* tool turn, a stop or a crash at any point) is never sent upstream again: not
\* after recovery and not after a restart, however often the CLI repeats it.
NoReplay ==
  \A h \in Handlers : pc[h] \in Upstream => lastSent \notin interrupted

\* Encrypted reasoning and native compactions only ever reach the credential
\* that produced them, across logins, account switches, recovery and restart,
\* whatever old items the CLI puts back into its history.
OwnerSafety ==
  \A h \in Handlers : pc[h] \in Upstream => cur.opaque \subseteq {cur.credential}

\* While a request is with the upstream, the checkpoint already names it: a
\* crash now restores a failed connection that knows this body and account.
CheckpointBeforeDispatch ==
  \A h \in Handlers : pc[h] \in Upstream =>
    /\ disk.busy /\ ~disk.retired
    /\ disk.lastBody = cur.body
    /\ disk.slot = cur.selected /\ disk.session = m.session

\* One CLI request uses an account at most once: every attempt went to another.
AttemptOnce == Cardinality(cur.tried) >= cur.attempts

\* History compacted by an account stays with it: the selected account cannot
\* drift from the pin through quota, failover, selection, recovery or restart.
OpaquePinned == m.opaqueSlot # NoSlot => m.slot = m.opaqueSlot

\* At most one handler is past admission, and busy and waiting tell of it, so that
\* from the acknowledged preparation of a shutdown or deletion until it is aborted
\* nothing runs, waits or is left open, also for handlers that had entered before.
AdmissionExclusive ==
  /\ \A g, h \in Handlers : pc[g] \in Active /\ pc[h] \in Active => g = h
  /\ alive => (m.busy <=> \E h \in Handlers : pc[h] \in Active)
  /\ m.waiting <=> \E h \in Handlers : pc[h] \in {"waiting", "signalled"}
  /\ m.prepared => Idle(m)

\* Nothing changes under a conversation: no login or logout changes a credential
\* while a request runs, a tool turn or an auxiliary conversation is open, for the
\* activity lease spans them all; and a connection that is bound, also if by an
\* auxiliary request, serves no other conversation.
ConversationStable ==
  [][/\ cred' # cred => ~m.busy /\ ~m.turnPending /\ ~AuxActive(m)
     /\ m.session # NoThread /\ alive /\ alive' => m'.session = m.session]_vars

\* The account of an open tool turn changes only through a failover, that is
\* after an explicit usage limit.
TurnPinned ==
  [][m.turnPending /\ m'.slot # m.slot /\ alive'
       => \E h \in Handlers : pc[h] = "switching"]_vars

\* A user's decision takes effect only on the turn it was made for: no command
\* abandons or recovers a turn the UI had not been shown.  (Not in a process whose
\* checkpoint can no longer be written: it is stopping and reports no more state.)
DecisionCurrent ==
  [][alive /\ alive' /\ pc' = pc /\ ~m.checkpointErr /\ (m.turnPending # m'.turnPending \/ (m.failed /\ ~m'.failed))
       => ui.turn = lastSent /\ ui.pending = m.turnPending /\ ui.failed = m.failed]_vars

\* Every request received is answered, or the process is gone: neither the wait
\* for a finishing request nor any step of the handler can hang.
RequestsEnd == \A h \in Handlers : pc[h] # "idle" ~> pc[h] = "idle"

\* A service that starts to stop, for whatever reason, leaves.
StopLeaves == m.closing ~> ~alive

-----------------------------------------------------------------------------
(* Why the safety properties hold: an inductive invariant.                 *)

\* A process that is gone has left nothing in memory.
Quiescent ==
  ~alive => /\ m = Blank /\ cur = NoRequest /\ ~ui.current
            /\ \A h \in Handlers : pc[h] = "idle"

\* The lease is held while anything is open, and excludes a login or logout.
Leased ==
  /\ accountOp => ~m.lease /\ nextCred <= MaxCred
  /\ m.busy \/ m.turnPending \/ AuxActive(m) => m.lease

Waiting == {"waiting", "signalled"}

\* A request names a conversation, a running one is bound to it, only one waits,
\* and the end of a session is stored only once nothing runs or waits.
Bound ==
  /\ \A g, h \in Handlers : pc[g] \in Waiting /\ pc[h] \in Waiting => g = h
  /\ \A h \in Handlers : pc[h] # "idle" => head[h].thread \in Threads
  /\ m.busy => m.session # NoThread
  /\ m.retired => m.closing /\ ~m.busy /\ ~m.waiting

\* Whatever is open has a chosen account; a pin is to the account in use, also
\* in the checkpoint.
Pinned ==
  /\ OpaquePinned
  /\ m.opaqueSlot # NoSlot \/ m.turnPending \/ m.busy \/ m.aux \in {"idle", "busy", "pending"}
       => m.chosen
  /\ disk.opaqueSlot # NoSlot => disk.slot = disk.opaqueSlot /\ disk.chosen

\* What the registries say of an item is who produced it.
Owned ==
  /\ \A o \in m.compactOwners : o.key = o.credential
  /\ \A o \in disk.compactOwners : o.key = o.credential
  /\ m.reasoning.keys \subseteq {m.reasoning.credential}

\* Attempts went to different accounts, and whatever was sent has a boundary.
Attempted ==
  /\ IsFiniteSet(cur.tried) /\ AttemptOnce
  /\ cur.attempts > 0 \/ m.turnPending => lastSent > 0

Sending == {"dispatching", "upstream", "terminal", "limited", "switching"}

\* What holds of the admitted request at place p: which account it uses, ...
SelectedAt(p) ==
  /\ p \in Active => cur.selected \in Slots
  /\ p = "switching" => cur.next \in Slots \ cur.tried
  /\ p \in {"reading", "preparing", "storing", "dispatching"} => cur.selected \notin cur.tried
  /\ p \in Upstream \/ (p = "answered" /\ cur.result \in {"final", "pending"}) =>
       cur.credential \in Creds /\ cur.attempts > 0
\* ... that the opaque items it carries belong to that account, ...
OwnedAt(p) ==
  /\ p \in {"storing", "dispatching"} =>
       \A k \in cur.opaque : k \in cur.compacted \/ (k = cur.turnOwner /\ k # NoCred)
  /\ p \in Upstream => cur.opaque \subseteq {cur.credential}
  /\ p = "switching" => m.opaqueSlot = NoSlot
\* ... and that memory, and from the dispatch on the checkpoint, tell of it.
CheckpointedAt(p) ==
  /\ p \in {"reading", "preparing", "storing"} \cup Sending => m.slot = cur.selected
  /\ p \in {"preparing", "storing"} \cup Sending => m.lastBody = cur.body
  /\ p \in {"storing"} \cup Sending => UserOf(cur.body) > 0
  /\ p \in Sending => /\ disk.busy /\ ~disk.retired /\ disk.lastBody = m.lastBody
                      /\ disk.slot = m.slot /\ disk.session = m.session
InFlight ==
  \A h \in Handlers : SelectedAt(pc[h]) /\ OwnedAt(pc[h]) /\ CheckpointedAt(pc[h])

\* If the turn sent last was cut short, the request at place p is past it or has
\* not been sent.
RepeatedAt(p) ==
  lastSent \in interrupted =>
    /\ p = "reading" => m.recoveryRequired \/ UserOf(m.lastBody) > lastSent
    /\ p \in {"preparing", "storing", "dispatching"} => UserOf(cur.body) > lastSent
    /\ p \notin {"upstream", "terminal", "limited", "switching", "releasing"}
    /\ p = "answered" => cur.result = "error"

\* Boundaries only grow, from the checkpoint and the turns cut short to what the
\* CLI sent last; a turn cut short is guarded by a failure, by the need for new
\* input, or by a later boundary.
Repeated ==
  /\ UserOf(m.lastBody) <= cli.user /\ UserOf(disk.lastBody) <= cli.user
  /\ \A u \in interrupted : 0 < u /\ u <= lastSent
  /\ alive => lastSent <= UserOf(m.lastBody) /\ (lastSent > 0 => m.session # NoThread)
  /\ ~disk.retired => /\ lastSent <= UserOf(disk.lastBody)
                      /\ lastSent > 0 => disk.session # NoThread
  /\ alive /\ lastSent \in interrupted =>
       m.failed \/ m.recoveryRequired \/ UserOf(m.lastBody) > lastSent
  /\ \A h \in Handlers : RepeatedAt(pc[h])
\* With bodies that have no user message the history is not monotonic, and a turn
\* cut short can be repeated.
Guarded == Userless \/ Repeated

\* What the UI saw last is so, unless a request runs or the process stops.
Shown ==
  ui.current /\ ~m.busy /\ ~m.closing /\ ~m.checkpointErr =>
    ui.turn = lastSent /\ ui.pending = m.turnPending /\ ui.failed = m.failed

\* The inductive invariant behind the safety properties above.
IInv == /\ TypeOK /\ Quiescent /\ AdmissionExclusive /\ Leased /\ Bound /\ Pinned /\ Owned
        /\ Attempted /\ InFlight /\ Guarded /\ Shown
=============================================================================

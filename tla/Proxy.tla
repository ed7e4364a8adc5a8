------------------------------- MODULE Proxy -------------------------------
(***************************************************************************)
(* One upstream response on its way to the client: the second half of      *)
(* ServeHTTP (internal/proxy/proxy.go), the persistent delivery with its   *)
(* completion gate (completion.go) and the inspection for an explicit      *)
(* usage limit (usagelimit.go).                                            *)
(*                                                                         *)
(* A persistent handler (of exec) holds back the end of a stream until the *)
(* whole stream is validated and committed to the affinity store.  A       *)
(* managed handler (of a connection) forwards what it reads, except that a *)
(* usage limit that comes before any model output is kept from the client  *)
(* so that another account may serve the request.  A compact handler       *)
(* forwards one validated JSON window.                                     *)
(*                                                                         *)
(* Data.  A frame is one server-sent event, or a whole JSON body; reads    *)
(* return one or more frames, and a stream may end inside one.             *)
(***************************************************************************)
EXTENDS Naturals, Sequences, SequencesExt

CONSTANTS Ids,         \* ids a response or an item may carry
          MaxFrames,   \* frames of a response
          ProbeFrames  \* frames the inspection may read (usageLimitProbeBytes)

ASSUME ProxyAssumption == MaxFrames \in Nat \ {0} /\ ProbeFrames \in Nat /\ Ids # {}

VARIABLES mode,        \* which handler
          status,      \* of the response: "ok", "limited" (429), "failed"
          stream,      \* whether it is read as server-sent events
          phase,       \* of the handler
          received,    \* frames read from upstream
          ended,       \* how the upstream body ended
          backlog,     \* frames inspected and not yet forwarded
          observer,    \* eventObserver
          terminal,    \* completionGate.terminal
          delivered,   \* frames written to the client
          granted,     \* ids committed to the store
          outcome,     \* what the handler reports
          clientGone, storeFailed    \* faults met on the way

vars == <<mode, status, stream, phase, received, ended, backlog, observer, terminal,
          delivered, granted, outcome, clientGone, storeFailed>>
kind == <<mode, status, stream>>

-----------------------------------------------------------------------------
(* Frames.                                                                 *)

Frame(type, good, limit, output, id) ==
  [type |-> type, good |-> good, limit |-> limit, output |-> output, id |-> id]

Item(id)      == Frame("item", TRUE, FALSE, TRUE, id)
Completed(id) == Frame("completed", TRUE, FALSE, TRUE, id)
AnId == CHOOSE id \in Ids : TRUE

\* created and in_progress, with or without output or an error of their own; other
\* model events; items and completions that satisfy their contract or not; failed,
\* incomplete and error events, with the usage-limit code or not; events without
\* data; data that is not JSON.
Frames ==
  {Item(id) : id \in Ids} \cup {Completed(id) : id \in Ids} \cup
  {Frame("item", FALSE, FALSE, TRUE, AnId), Frame("completed", FALSE, FALSE, TRUE, AnId),
   Frame("delta", TRUE, FALSE, TRUE, AnId), Frame("garbage", TRUE, FALSE, FALSE, AnId),
   Frame("empty", TRUE, FALSE, FALSE, AnId)} \cup
  {Frame("created", TRUE, FALSE, output, AnId) : output \in BOOLEAN} \cup
  {Frame("failed", TRUE, limit, FALSE, AnId) : limit \in BOOLEAN} \cup
  {Frame("failed", TRUE, limit, TRUE, AnId) : limit \in BOOLEAN} \cup
  {Frame("error", TRUE, limit, FALSE, AnId) : limit \in BOOLEAN}

Failure(f) == f.type \in {"failed", "error"}

-----------------------------------------------------------------------------
(* eventObserver and completionGate.                                       *)

Fresh == [completed |-> FALSE, failed |-> FALSE, items |-> {}, ids |-> {}]

Broken(o) == [o EXCEPT !.failed = TRUE]

\* An output item, which a persistent handler wants whole and before the completion.
OutputItem(o, f) ==
  IF o.completed \/ ~f.good THEN Broken(o) ELSE [o EXCEPT !.items = @ \cup {f.id}]

\* The completion, whose ids are its own and those of the items.
\* Variant: a second one is not told from the first.
CompletionTwice(o, f, strict) ==
  IF strict /\ ~f.good THEN [o EXCEPT !.completed = TRUE, !.failed = TRUE]
  ELSE [o EXCEPT !.completed = TRUE, !.ids = IF strict THEN o.items \cup {f.id} ELSE @]
Completion(o, f, strict) ==
  IF strict /\ (o.completed \/ ~f.good) THEN [o EXCEPT !.completed = TRUE, !.failed = TRUE]
  ELSE [o EXCEPT !.completed = TRUE, !.ids = IF strict THEN o.items \cup {f.id} ELSE @]

\* One event of feed; strict is the observer of a persistent handler.
Observe(o, f, strict) ==
  IF f.type = "item" /\ strict THEN OutputItem(o, f)
  ELSE IF f.type = "completed" THEN Completion(o, f, strict)
  ELSE IF Failure(f) THEN Broken(o) ELSE o

\* The frames of a read, one after the other (see Chunks).
ObserveChunk(o, c, strict) ==
  LET first == Observe(o, c[1], strict)
  IN  IF Len(c) = 1 THEN first ELSE Observe(first, c[2], strict)

\* One complete frame at the gate; nothing moves once the observer has failed.
\* Variant: the completed frame itself is released.
GateLate(g, f) ==
  LET o == Observe(g.observer, f, TRUE) IN
  IF g.observer.failed THEN g
  ELSE IF o.failed THEN [g EXCEPT !.observer = o]
  ELSE IF g.observer.completed THEN [g EXCEPT !.observer = o, !.terminal = Append(@, f)]
  ELSE [g EXCEPT !.observer = o, !.forward = Append(@, f)]
Gate(g, f) ==
  LET o == Observe(g.observer, f, TRUE) IN
  IF g.observer.failed THEN g
  ELSE IF o.failed THEN [g EXCEPT !.observer = o]
  ELSE IF o.completed THEN [g EXCEPT !.observer = o, !.terminal = Append(@, f)]
  ELSE [g EXCEPT !.observer = o, !.forward = Append(@, f)]
GateChunk(g, c) == IF Len(c) = 1 THEN Gate(g, c[1]) ELSE Gate(Gate(g, c[1]), c[2])

-----------------------------------------------------------------------------
(* The handler.                                                            *)

Init == /\ mode \in {"persistent", "managed", "compact"}
        /\ status = "none" /\ stream = FALSE /\ phase = "sent"
        /\ received = <<>> /\ ended = "open" /\ backlog = <<>>
        /\ observer = Fresh /\ terminal = <<>> /\ delivered = <<>> /\ granted = {}
        /\ outcome = "none" /\ clientGone = FALSE /\ storeFailed = FALSE

End(result) == phase' = "done" /\ outcome' = result

\* No response, a redirect, or an encoding: a local error.
Unanswered ==
  /\ phase = "sent"
  /\ End("failed")
  /\ UNCHANGED <<kind, received, ended, backlog, observer, terminal, delivered, granted,
                 clientGone, storeFailed>>

\* A response begins.  sse says its header does, sniffed that it has no header but
\* begins like a stream, which only a persistent handler looks at.
Respond(code, sse, sniffed) ==
  /\ phase = "sent"
  /\ ~(sse /\ sniffed)
  /\ status' = code
  /\ stream' = (sse \/ (sniffed /\ mode = "persistent" /\ code = "ok"))
  /\ phase' = CASE mode = "compact" -> "window"
                [] mode = "persistent" /\ code = "ok" -> IF stream' THEN "gated" ELSE "body"
                [] mode = "managed" /\ (code = "limited" \/ (code = "ok" /\ sse)) -> "inspect"
                [] OTHER -> "forward"
  /\ UNCHANGED <<mode, received, ended, backlog, observer, terminal, delivered, granted,
                 outcome, clientGone, storeFailed>>

\* What a read returns: first what the inspection has consumed, then new frames.
Whole(c) == Len(received) + Len(c) <= (IF stream THEN MaxFrames ELSE 1)
\* Variant: what was inspected is forgotten.
ReadPast(c) == /\ ended = "open" /\ Whole(c)
               /\ received' = received \o c /\ backlog' = <<>>
ReadNew(c) == /\ backlog = <<>> /\ ended = "open" /\ Whole(c)
              /\ received' = received \o c /\ UNCHANGED backlog
ReadBacklog(c) == /\ backlog # <<>> /\ IsPrefix(c, backlog)
                  /\ backlog' = SubSeq(backlog, Len(c) + 1, Len(backlog))
                  /\ UNCHANGED received
Read(c) == ReadNew(c) \/ ReadBacklog(c)
\* A read returns one frame or two: the bound on what comes at once.
Chunks == {<<f>> : f \in Frames} \cup (Frames \X Frames)

\* The upstream body ends: "eof" between frames, "cut" inside one, or with an
\* error, which stands for a timeout and for a full buffer, too.  A JSON body is
\* read to its end.
BodyEnds(how) ==
  /\ phase \in {"inspect", "gated", "forward", "body", "window"} /\ ended = "open"
  /\ how = "eof" /\ ~stream => received # <<>>
  /\ ended' = how
  /\ UNCHANGED <<kind, phase, received, backlog, observer, terminal, delivered, granted,
                 outcome, clientGone, storeFailed>>

\* usageLimitError in an event, before any output of the model.
Limit(f) == Failure(f) /\ f.limit /\ ~f.output
\* What may come before it.  Variant: anything that is not a failure.
BeforeAny(f) == ~Failure(f)
BeforeLimit(f) == f.type = "empty" \/ (f.type = "created" /\ ~f.output)

\* inspectUsageLimit reads one frame: it judges the events of a stream as they
\* come, within its budget, and gathers the body of a 429.
Inspect(f) ==
  /\ phase = "inspect" /\ ended = "open" /\ Whole(<<f>>)
  /\ received' = Append(received, f)
  /\ LET within == Len(received') <= ProbeFrames IN
     IF status = "ok" /\ within /\ Limit(f)
     THEN End("limit") /\ UNCHANGED backlog
     ELSE /\ phase' = IF within /\ (BeforeLimit(f) \/ status = "limited")
                      THEN "inspect" ELSE "forward"
          /\ backlog' = Append(backlog, f)
          /\ UNCHANGED outcome
  /\ UNCHANGED <<kind, ended, observer, terminal, delivered, granted, clientGone, storeFailed>>

\* usageLimitJSON: an error object with the code.  Variant: that of a failed response.
LimitBodyFailed(f) == f.type = "failed" /\ f.limit
LimitBody(f) == f.type = "error" /\ f.limit

\* A stream that ends here is forwarded; a whole 429 body is judged as JSON.
InspectEnd ==
  /\ phase = "inspect" /\ ended # "open"
  /\ IF status = "limited" /\ ended = "eof" /\ ~stream /\ LimitBody(backlog[1])
     THEN End("limit") ELSE phase' = "forward" /\ UNCHANGED outcome
  /\ UNCHANGED <<kind, received, ended, backlog, observer, terminal, delivered, granted,
                 clientGone, storeFailed>>

\* The client is gone at a write or at the flush after it: it may have got some of
\* the frames, or all, and nothing more is written.
LostAt(frames) == /\ clientGone' = TRUE
                  /\ \E written \in Prefixes(frames) : delivered' = delivered \o written
Lost(frames) == LostAt(frames) /\ End("failed") /\ UNCHANGED <<observer, terminal>>

\* Forwarding: write, flush, and only then observe.
Forward(c) ==
  LET o == ObserveChunk(observer, c, FALSE) IN
  /\ phase = "forward" /\ Read(c)
  /\ \/ Lost(c)
     \/ /\ delivered' = delivered \o c
        /\ observer' = IF stream THEN o ELSE observer
        /\ IF observer'.failed THEN End("aborted") ELSE UNCHANGED <<phase, outcome>>
        /\ UNCHANGED <<terminal, clientGone>>
  /\ UNCHANGED <<kind, ended, granted, storeFailed>>

ForwardEnd ==
  /\ phase = "forward" /\ ended # "open" /\ backlog = <<>>
  /\ IF ended = "error" \/ (stream /\ ~observer.completed)
     THEN End("aborted") ELSE End(IF status = "ok" THEN "passed" ELSE "failed")
  /\ UNCHANGED <<kind, received, ended, backlog, observer, terminal, delivered, granted,
                 clientGone, storeFailed>>

\* What the gate releases of a chunk: nothing at all of one that breaks the stream.
\* Variant: the frames before the one that breaks it.
ReleasedPartly(g) == g.forward
Released(g) == IF g.observer.failed THEN <<>> ELSE g.forward

\* deliverPersistent of a stream.
Deliver(c) ==
  LET g == GateChunk([observer |-> observer, terminal |-> terminal, forward |-> <<>>], c) IN
  /\ phase = "gated" /\ Read(c)
  /\ \/ /\ g.observer.failed
        /\ delivered' = delivered \o Released(g)
        /\ End("aborted") /\ observer' = g.observer
        /\ UNCHANGED <<terminal, clientGone>>
     \/ ~g.observer.failed /\ Released(g) # <<>> /\ Lost(Released(g))
     \/ /\ ~g.observer.failed
        /\ delivered' = delivered \o Released(g)
        /\ observer' = g.observer /\ terminal' = g.terminal
        /\ UNCHANGED <<phase, outcome, clientGone>>
  /\ UNCHANGED <<kind, ended, granted, storeFailed>>

\* End of a gated stream: validate, commit, and only then release the end of it.
Complete == ended = "eof" /\ observer.completed

\* The store takes the ids, or refuses; after a commit the client may be gone.
Commit(ids, rest) ==
  \/ /\ granted' = ids /\ End("committed")
     /\ (delivered' = delivered \o rest /\ UNCHANGED clientGone) \/ LostAt(rest)
     /\ UNCHANGED storeFailed
  \/ /\ storeFailed' = TRUE /\ End("aborted")
     /\ UNCHANGED <<granted, delivered, clientGone>>

DeliverEnd ==
  /\ phase = "gated" /\ ended # "open"
  /\ IF Complete THEN Commit(observer.ids, terminal)
     ELSE End("aborted") /\ UNCHANGED <<delivered, granted, clientGone, storeFailed>>
  /\ UNCHANGED <<kind, received, ended, backlog, observer, terminal>>

\* A JSON body or a compact window is read whole.
Load(f) ==
  /\ phase \in {"body", "window"} /\ ReadNew(<<f>>)
  /\ UNCHANGED <<kind, phase, ended, observer, terminal, delivered, granted, outcome,
                 clientGone, storeFailed>>

IsAnswer(body) == body # <<>> /\ body[1].type = "completed" /\ body[1].good

BodyEnd ==
  /\ phase = "body" /\ ended # "open"
  /\ IF ended = "eof" /\ IsAnswer(received) THEN Commit({received[1].id}, received)
     ELSE End("aborted") /\ UNCHANGED <<delivered, granted, clientGone, storeFailed>>
  /\ UNCHANGED <<kind, received, ended, backlog, observer, terminal>>

WindowEnd ==
  /\ phase = "window" /\ (status # "ok" \/ ended # "open")
  /\ IF status = "ok" /\ ended = "eof" /\ ~stream /\ IsAnswer(received)
     THEN \/ delivered' = received /\ End("passed") /\ UNCHANGED clientGone
          \/ LostAt(received) /\ End("failed")
     ELSE End("failed") /\ UNCHANGED <<delivered, clientGone>>
  /\ UNCHANGED <<kind, received, ended, backlog, observer, terminal, granted, storeFailed>>

\* A response is over; the handler's report stands.
Over == phase = "done" /\ UNCHANGED vars

Next == \/ Unanswered
        \/ \E code \in {"ok", "limited", "failed"}, sse, sniffed \in BOOLEAN :
             Respond(code, sse, sniffed)
        \/ \E how \in {"eof", "cut", "error"} : BodyEnds(how)
        \/ \E f \in Frames : Inspect(f) \/ Load(f)
        \/ \E c \in Chunks : Forward(c) \/ Deliver(c)
        \/ InspectEnd \/ ForwardEnd \/ DeliverEnd \/ BodyEnd \/ WindowEnd
        \/ Over

Spec == Init /\ [][Next]_vars

-----------------------------------------------------------------------------
(* Properties.                                                             *)

Indices(type) == {i \in 1..Len(received) : received[i].type = type}

\* A stream that proves one completed response: exactly one completion, well
\* formed, no failure anywhere, every item well formed and before it.
Proves ==
  /\ \E i \in Indices("completed") :
       /\ Indices("completed") = {i} /\ received[i].good
       /\ \A j \in Indices("item") : j < i /\ received[j].good
  /\ ~\E i \in 1..Len(received) : Failure(received[i])

\* The store learns of a turn exactly when the whole response proves it, read to a
\* clean end with the client still there, and it learns all its ids.
CommitsExactly ==
  mode = "persistent" /\ phase = "done" =>
    /\ outcome = "committed" =>
         /\ Proves /\ ended = "eof" /\ status = "ok"
         /\ granted = {received[i].id : i \in Indices("completed") \cup Indices("item")}
    /\ outcome # "committed" =>
         granted = {} /\ (status = "ok" /\ ended = "eof" /\ Proves => clientGone \/ storeFailed)

\* The client of a persistent conversation never sees its turn end before it is
\* committed, and never a frame that breaks a stream: a failure, or an item or a
\* completion that does not satisfy its contract.
TerminalHeld ==
  mode = "persistent" /\ status = "ok" =>
    \A i \in 1..Len(delivered) :
      /\ delivered[i].type = "completed" => outcome = "committed"
      /\ delivered[i].good /\ ~Failure(delivered[i])

\* The frames r prove no response, whatever comes after them.
Breaks(r) ==
  \/ \E i \in 1..Len(r) : Failure(r[i]) \/ ~r[i].good
  \/ \E i, j \in 1..Len(r) :
       i < j /\ r[i].type = "completed" /\ r[j].type \in {"item", "completed"}

WithholdsBroken ==
  mode = "persistent" /\ status = "ok" /\ Breaks(received') => delivered' = delivered

\* From the chunk on that breaks a response (of this chunk, too, the good frames
\* before the one that breaks it) the client gets nothing more of it.
BreakingWithheld == [][WithholdsBroken]_vars

\* The response states a usage limit within what the inspection may read: in a good
\* stream, after nothing but empty events and announcements of the response
\* (created, in progress) without output; or as the whole body of a 429.
StatedEarly ==
  /\ status = "ok" /\ stream
  /\ \E k \in 1..Len(received) :
       /\ k <= ProbeFrames /\ Failure(received[k]) /\ received[k].limit
       /\ \A i \in 1..k : ~received[i].output
       /\ \A i \in 1..(k - 1) : received[i].type \in {"empty", "created"}
StatedWhole ==
  /\ status = "limited" /\ ~stream /\ ended = "eof"
  /\ received # <<>> /\ Len(received) <= ProbeFrames
  /\ received[1].type = "error" /\ received[1].limit

\* An account is given up exactly for such a limit, and then the client has seen
\* nothing of the attempt.
LimitExact ==
  mode = "managed" /\ phase = "done" =>
    /\ outcome = "limit" <=> StatedEarly \/ StatedWhole
    /\ outcome = "limit" => delivered = <<>>

\* Nothing is lost, repeated or reordered by the inspection and the gate: the
\* client has read a prefix of what upstream sent, and all of it at a good end.
Transparent ==
  /\ IsPrefix(delivered, received)
  /\ outcome \in {"passed", "committed"} /\ ~clientGone => delivered = received

-----------------------------------------------------------------------------
(* Why the safety properties hold: an inductive invariant.                 *)

Observers == [completed : BOOLEAN, failed : BOOLEAN, items : SUBSET Ids, ids : SUBSET Ids]
Phases == {"sent", "inspect", "gated", "forward", "body", "window", "done"}

TypeOK ==
  /\ mode \in {"persistent", "managed", "compact"}
  /\ status \in {"none", "ok", "limited", "failed"} /\ stream \in BOOLEAN
  /\ phase \in Phases /\ ended \in {"open", "eof", "cut", "error"}
  /\ received \in Seq(Frames) /\ backlog \in Seq(Frames)
  /\ terminal \in Seq(Frames) /\ delivered \in Seq(Frames)
  /\ observer \in Observers /\ granted \in SUBSET Ids
  /\ outcome \in {"none", "failed", "limit", "aborted", "passed", "committed"}
  /\ clientGone \in BOOLEAN /\ storeFailed \in BOOLEAN

\* Which response is read in which way, and how much of it.
Routed ==
  /\ phase = "done" <=> outcome # "none"
  /\ phase = "sent" => status = "none" /\ ~stream /\ ended = "open"
  /\ phase = "inspect" => mode = "managed" /\ (status = "limited" \/ (status = "ok" /\ stream))
  /\ phase \in {"gated", "body"} =>
       mode = "persistent" /\ status = "ok" /\ (stream <=> phase = "gated")
  /\ mode = "persistent" /\ status = "ok" => phase \in {"gated", "body", "done"}
  /\ phase = "window" => mode = "compact"
  /\ Len(received) <= (IF stream THEN MaxFrames ELSE 1)
  /\ ended = "eof" /\ ~stream => received # <<>>

\* Until the end everything received is either delivered or kept, in order.
Kept ==
  /\ phase \in {"sent", "inspect", "body", "window"} => delivered = <<>>
  /\ phase = "sent" => received = <<>> /\ terminal = <<>> /\ observer = Fresh
  /\ phase \notin {"inspect", "forward", "done"} => backlog = <<>>
  /\ phase \in {"inspect", "forward"} => received = delivered \o backlog
  /\ phase = "gated" => received = delivered \o terminal
  /\ phase # "done" => granted = {}

\* What an observer has found in the frames r, none of which broke the stream.
At(r, type) == {i \in 1..Len(r) : r[i].type = type}
Found(o, r) ==
  /\ ~o.failed /\ \A i \in 1..Len(r) : ~Failure(r[i])
  /\ o.completed <=> At(r, "completed") # {}
  /\ \A i \in At(r, "completed") :
       At(r, "completed") = {i} /\ r[i].good /\ \A j \in At(r, "item") : j < i
  /\ \A j \in At(r, "item") : r[j].good
  /\ o.items = {r[j].id : j \in At(r, "item")}
  /\ o.completed => o.ids = {r[j].id : j \in At(r, "completed") \cup At(r, "item")}

\* A gated stream is sound so far, and the client has read what precedes its end.
Gated ==
  phase = "gated" =>
    /\ Found(observer, received)
    /\ ~observer.completed => terminal = <<>>
    /\ \A i \in 1..Len(delivered) : delivered[i].type # "completed"

\* What the inspection has passed can hold no early limit: everything that came may
\* precede one, or there is a first frame that may not, or is too late.
Passed ==
  \/ ended # "open" /\ \A i \in 1..Len(received) : BeforeLimit(received[i])
  \/ \E n \in 1..Len(received) :
       /\ \A i \in 1..(n - 1) : BeforeLimit(received[i])
       /\ n > ProbeFrames \/ ~(BeforeLimit(received[n]) \/ Limit(received[n]))
\* Nor can a body of a 429 that was forwarded: it was too long, or whole and no limit.
PassedBody ==
  \/ Len(received) > ProbeFrames
  \/ ended # "open" /\ ~(ended = "eof" /\ LimitBody(received[1]))
Inspected ==
  mode = "managed" =>
    /\ phase = "inspect" => Len(received) <= ProbeFrames
    /\ stream /\ status = "ok" =>
         /\ phase = "inspect" => \A i \in 1..Len(received) : BeforeLimit(received[i])
         /\ phase = "forward" \/ (phase = "done" /\ outcome # "limit") => Passed
    /\ ~stream /\ status = "limited" =>
         (phase = "forward" \/ (phase = "done" /\ outcome # "limit") => PassedBody)

\* The inductive invariant behind the properties above.
IInv == /\ TypeOK /\ Routed /\ Kept /\ Gated /\ Inspected
        /\ CommitsExactly /\ TerminalHeld /\ LimitExact /\ Transparent
=============================================================================

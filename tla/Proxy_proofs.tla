---------------------------- MODULE Proxy_proofs ----------------------------
(***************************************************************************)
(* The properties of one response, for any ids, any number of frames and   *)
(* any budget of the inspection.                                           *)
(***************************************************************************)
EXTENDS Proxy, TLAPS

-----------------------------------------------------------------------------
(* Sequences.                                                              *)

LEMMA Joining ==
  ASSUME NEW S, NEW a \in Seq(S), NEW b \in Seq(S)
  PROVE  /\ a \o b \in Seq(S) /\ Len(a \o b) = Len(a) + Len(b)
         /\ \A i \in 1..Len(a) : (a \o b)[i] = a[i]
         /\ \A i \in 1..Len(b) : (a \o b)[Len(a) + i] = b[i]
         /\ a \o <<>> = a /\ <<>> \o a = a
OBVIOUS

LEMMA JoiningAssociates ==
  ASSUME NEW a \in Seq(Frames), NEW b \in Seq(Frames), NEW c \in Seq(Frames)
  PROVE  (a \o b) \o c = a \o (b \o c)
OBVIOUS

\* One frame more.
LEMMA Appending ==
  ASSUME NEW S, NEW a \in Seq(S), NEW f \in S
  PROVE  a \o <<f>> = Append(a, f) /\ <<f>> \in Seq(S)
OBVIOUS

LEMMA AppendingLast ==
  ASSUME NEW a \in Seq(Frames), NEW b \in Seq(Frames), NEW f \in Frames
  PROVE  Append(a \o b, f) = a \o Append(b, f)
OBVIOUS

LEMMA Single ==
  ASSUME NEW s \in Seq(Frames), s # <<>>, Len(s) <= 1
  PROVE  Len(s) = 1 /\ s[1] \in Frames
OBVIOUS

LEMMA OnlyIndex ==
  ASSUME NEW n, n = 1, NEW i \in 1..n
  PROVE  i = 1
OBVIOUS

\* What is delivered first is a prefix of the whole.
LEMMA Leading ==
  ASSUME NEW S, NEW a \in Seq(S), NEW b \in Seq(S)
  PROVE  IsPrefix(a, a \o b) /\ IsPrefix(a, a) /\ IsPrefix(<<>>, a)
<1>1. a \o b \in Seq(S) /\ Len(a) <= Len(a \o b) /\ \A i \in 1..Len(a) : (a \o b)[i] = a[i]
  BY Joining
<1>2. ASSUME NEW d \in Seq(S), Len(a) <= Len(d), \A i \in 1..Len(a) : d[i] = a[i]
      PROVE  SubSeq(d, 1, Len(a)) = a
  BY <1>2
<1>3. SubSeq(a \o b, 1, Len(a)) = a /\ SubSeq(a, 1, Len(a)) = a
  BY <1>1, <1>2
<1>4. IsPrefix(<<>>, a)
  <2>1. SubSeq(<<>>, 1, 0) = <<>> /\ SubSeq(a, 1, 0) = <<>> /\ Len(<<>>) = 0
    OBVIOUS
  <2> QED
    BY <2>1 DEF IsPrefix
<1> QED
  BY <1>1, <1>3, <1>4 DEF IsPrefix

\* What was kept gives back what is read, and keeps the rest.
LEMMA Taking ==
  ASSUME NEW S, NEW b \in Seq(S), NEW c \in Seq(S), IsPrefix(c, b)
  PROVE  /\ SubSeq(b, Len(c) + 1, Len(b)) \in Seq(S)
         /\ b = c \o SubSeq(b, Len(c) + 1, Len(b))
BY DEF IsPrefix

\* What a lost client has got of some frames leaves the rest of them.
LEMMA Partly ==
  ASSUME NEW s \in Seq(Frames), NEW w \in Prefixes(s)
  PROVE  /\ w \in Seq(Frames)
         /\ \E rest \in Seq(Frames) : s = w \o rest
<1>1. PICK l \in 0..Len(s) : w = SubSeq(s, 1, l)
  BY DEF Prefixes
<1>2. w \in Seq(Frames) /\ Len(w) = l
  BY <1>1
<1>3. IsPrefix(w, s)
  BY <1>1, <1>2 DEF IsPrefix
<1>4. /\ SubSeq(s, Len(w) + 1, Len(s)) \in Seq(Frames)
      /\ s = w \o SubSeq(s, Len(w) + 1, Len(s))
  BY <1>2, <1>3, Taking
<1> QED
  BY <1>2, <1>4

\* So what it has got in all is a prefix of what it would have got.
LEMMA PartlyDelivered ==
  ASSUME NEW d \in Seq(Frames), NEW s \in Seq(Frames), NEW w \in Prefixes(s)
  PROVE  /\ d \o w \in Seq(Frames)
         /\ \E rest \in Seq(Frames) : d \o s = (d \o w) \o rest
<1>1. w \in Seq(Frames) /\ \E rest \in Seq(Frames) : s = w \o rest
  BY Partly
<1>2. ASSUME NEW rest \in Seq(Frames), s = w \o rest
      PROVE  d \o s = (d \o w) \o rest
  <2>1. (d \o w) \o rest = d \o (w \o rest)
    BY <1>1, JoiningAssociates, Zenon
  <2> QED
    BY <1>2, <2>1, Zenon
<1>3. d \o w \in Seq(Frames)
  BY <1>1, Joining
<1>4. \E rest \in Seq(Frames) : d \o s = (d \o w) \o rest
  <2>1. PICK rest \in Seq(Frames) : s = w \o rest
    BY <1>1, Zenon
  <2>2. d \o s = (d \o w) \o rest
    BY <1>2, <2>1, Zenon
  <2> QED
    BY <2>2, Zenon
<1> QED
  BY <1>3, <1>4, Zenon

\* And a prefix of all that follows; its frames are among them.
LEMMA LeadingFrames ==
  ASSUME NEW a \in Seq(Frames), NEW b \in Seq(Frames), NEW c \in Seq(Frames)
  PROVE  /\ IsPrefix(a, (a \o b) \o c)
         /\ \A i \in 1..Len(a) : i \in 1..Len(a \o b) /\ (a \o b)[i] = a[i]
<1>1. (a \o b) \o c = a \o (b \o c)
  BY JoiningAssociates
<1>2. b \o c \in Seq(Frames)
  BY Joining
<1>3. IsPrefix(a, a \o (b \o c))
  BY <1>2, Leading
<1>4. \A i \in 1..Len(a) : i \in 1..Len(a \o b) /\ (a \o b)[i] = a[i]
  OBVIOUS
<1> QED
  BY <1>1, <1>3, <1>4

-----------------------------------------------------------------------------
(* Frames, and what an observer finds in them.                             *)

FrameLike(f) ==
  /\ f.id \in Ids /\ f.good \in BOOLEAN /\ f.limit \in BOOLEAN /\ f.output \in BOOLEAN
  /\ f.type \in {"item", "completed", "delta", "garbage", "empty", "created", "failed", "error"}
  /\ f.type \in {"error", "empty"} => ~f.output
  /\ f.type \notin {"item", "completed"} => f.good

\* What is true of every frame the model sends.
LEMMA FrameFacts ==
  ASSUME NEW f \in Frames
  PROVE  FrameLike(f)
<1> USE DEF Frame, Item, Completed
<1>1. AnId \in Ids
  BY ProxyAssumption DEF AnId
<1>2. ASSUME NEW id \in Ids, f = Item(id) PROVE FrameLike(f)
  BY <1>2 DEF FrameLike
<1>7. ASSUME NEW id \in Ids, f = Completed(id) PROVE FrameLike(f)
  BY <1>7 DEF FrameLike
<1>3. ASSUME NEW x \in {"item", "completed", "delta", "garbage", "empty"}, NEW good \in BOOLEAN,
             NEW output \in BOOLEAN, f = Frame(x, good, FALSE, output, AnId),
             x = "empty" => ~output, x \notin {"item", "completed"} => good
      PROVE  FrameLike(f)
  BY <1>1, <1>3 DEF FrameLike
<1>4. ASSUME NEW output \in BOOLEAN, f = Frame("created", TRUE, FALSE, output, AnId)
      PROVE  FrameLike(f)
  BY <1>1, <1>4 DEF FrameLike
<1>5. ASSUME NEW limit \in BOOLEAN, NEW output \in BOOLEAN,
             f = Frame("failed", TRUE, limit, output, AnId)
      PROVE  FrameLike(f)
  BY <1>1, <1>5 DEF FrameLike
<1>6. ASSUME NEW limit \in BOOLEAN, f = Frame("error", TRUE, limit, FALSE, AnId)
      PROVE  FrameLike(f)
  BY <1>1, <1>6 DEF FrameLike
<1> HIDE DEF Frame, Item, Completed
<1>8. CASE f \in {Item(id) : id \in Ids} \cup {Completed(id) : id \in Ids}
  BY <1>2, <1>7, <1>8
<1>9. CASE f \in {Frame("item", FALSE, FALSE, TRUE, AnId),
                  Frame("completed", FALSE, FALSE, TRUE, AnId),
                  Frame("delta", TRUE, FALSE, TRUE, AnId),
                  Frame("garbage", TRUE, FALSE, FALSE, AnId),
                  Frame("empty", TRUE, FALSE, FALSE, AnId)}
  BY <1>3, <1>9
<1>10. CASE f \in {Frame("created", TRUE, FALSE, output, AnId) : output \in BOOLEAN}
  BY <1>4, <1>10
<1>11. CASE \/ f \in {Frame("failed", TRUE, limit, FALSE, AnId) : limit \in BOOLEAN}
            \/ f \in {Frame("failed", TRUE, limit, TRUE, AnId) : limit \in BOOLEAN}
  BY <1>5, <1>11
<1>12. CASE f \in {Frame("error", TRUE, limit, FALSE, AnId) : limit \in BOOLEAN}
  BY <1>6, <1>12
<1> QED
  BY <1>8, <1>9, <1>10, <1>11, <1>12 DEF Frames

\* What a strict observer says after one more frame.
LEMMA ObserveStrict ==
  ASSUME NEW o \in Observers, NEW f \in Frames
  PROVE  LET p == Observe(o, f, TRUE) IN
         /\ p \in Observers
         /\ o.failed => p.failed
         /\ ~p.failed =>
              /\ ~Failure(f)
              /\ f.type = "item" => f.good /\ ~o.completed
              /\ f.type = "completed" => f.good /\ ~o.completed
              /\ p.completed <=> o.completed \/ f.type = "completed"
              /\ p.items = IF f.type = "item" THEN o.items \cup {f.id} ELSE o.items
              /\ p.ids = IF f.type = "completed" THEN o.items \cup {f.id} ELSE o.ids
<1> DEFINE p == Observe(o, f, TRUE)
<1>0. f.id \in Ids /\ f.good \in BOOLEAN
  BY FrameFacts DEF FrameLike
<1>1. CASE f.type = "item"
  <2>1. p = OutputItem(o, f)
    BY <1>1 DEF Observe
  <2>2. CASE o.completed \/ ~f.good
    <3>1. p = [o EXCEPT !.failed = TRUE]
      BY <2>1, <2>2 DEF OutputItem, Broken
    <3> QED
      BY <3>1 DEF Observers
  <2>3. CASE ~o.completed /\ f.good
    <3>1. p = [o EXCEPT !.items = o.items \cup {f.id}]
      BY <2>1, <2>3 DEF OutputItem
    <3> QED
      BY <1>0, <1>1, <2>3, <3>1 DEF Observers, Failure
  <2> QED
    BY <2>2, <2>3
<1>2. CASE f.type = "completed"
  <2>1. p = Completion(o, f, TRUE)
    BY <1>2 DEF Observe
  <2>2. CASE f.good /\ ~o.completed
    <3>1. p = [o EXCEPT !.completed = TRUE, !.ids = o.items \cup {f.id}]
      BY <2>1, <2>2 DEF Completion
    <3>2. p \in Observers /\ (p.failed <=> o.failed)
      BY <1>0, <3>1 DEF Observers
    <3>3. p.completed /\ p.items = o.items /\ p.ids = o.items \cup {f.id}
      BY <1>0, <3>1 DEF Observers
    <3> QED
      BY <1>2, <2>2, <3>2, <3>3 DEF Failure
  <2>3. CASE ~(f.good /\ ~o.completed)
    <3>1. p \in Observers /\ p.failed
      BY <1>0, <2>1, <2>3 DEF Completion, Observers
    <3> QED
      BY <3>1
  <2> QED
    BY <2>2, <2>3
<1>3. CASE Failure(f)
  <2>1. p = Broken(o)
    BY <1>3 DEF Observe, Failure
  <2> QED
    BY <2>1 DEF Broken, Observers
<1>4. CASE f.type # "item" /\ f.type # "completed" /\ ~Failure(f)
  <2>1. p = o
    BY <1>4 DEF Observe
  <2> QED
    BY <1>4, <2>1
<1> QED
  BY <1>1, <1>2, <1>3, <1>4

\* An observer that is not strict keeps its type.
LEMMA ObserveType ==
  ASSUME NEW o \in Observers, NEW f \in Frames
  PROVE  Observe(o, f, FALSE) \in Observers
<1>1. CASE f.type = "completed"
  <2>1. Observe(o, f, FALSE) = Completion(o, f, FALSE)
    BY <1>1 DEF Observe
  <2> QED
    BY <2>1 DEF Completion, Observers
<1>2. CASE f.type # "completed"
  <2>1. Observe(o, f, FALSE) \in {o, Broken(o)}
    BY <1>2 DEF Observe
  <2> QED
    BY <2>1 DEF Broken, Observers
<1> QED
  BY <1>1, <1>2

-----------------------------------------------------------------------------
(* The gate.                                                               *)

\* What is found in one frame more.
LEMMA FoundNext ==
  ASSUME NEW o \in Observers, NEW r \in Seq(Frames), NEW f \in Frames, Found(o, r),
         ~Observe(o, f, TRUE).failed
  PROVE  Found(Observe(o, f, TRUE), Append(r, f))
<1> DEFINE p == Observe(o, f, TRUE)
           s == Append(r, f)
           n == Len(r) + 1
<1>1. /\ p \in Observers /\ ~Failure(f)
      /\ f.type = "item" => f.good /\ ~o.completed
      /\ f.type = "completed" => f.good /\ ~o.completed
      /\ p.completed <=> o.completed \/ f.type = "completed"
      /\ p.items = IF f.type = "item" THEN o.items \cup {f.id} ELSE o.items
      /\ p.ids = IF f.type = "completed" THEN o.items \cup {f.id} ELSE o.ids
  BY ObserveStrict
<1>2. n \in Nat /\ Len(s) = n /\ s[n] = f /\ \A i \in 1..Len(r) : s[i] = r[i]
  OBVIOUS
<1>3. ASSUME NEW x
      PROVE  At(s, x) = IF f.type = x THEN At(r, x) \cup {n} ELSE At(r, x)
  BY <1>2 DEF At
<1>4. ASSUME NEW x, NEW i \in At(r, x)
      PROVE  i \in 1..Len(r) /\ i < n /\ s[i] = r[i]
  <2>1. i \in 1..Len(r)
    BY <1>4 DEF At
  <2> QED
    BY <1>2, <2>1
<1>5. ~p.failed /\ \A i \in 1..Len(s) : ~Failure(s[i])
  <2>1. \A i \in 1..Len(s) : i = n \/ i \in 1..Len(r)
    BY <1>2
  <2> QED
    BY <1>1, <1>2, <2>1 DEF Found
<1>6. p.completed <=> At(s, "completed") # {}
  BY <1>1, <1>3 DEF Found
<1>7. \A j \in At(s, "item") : s[j].good
  BY <1>1, <1>2, <1>3, <1>4 DEF Found
<1>8. ASSUME NEW i \in At(s, "completed")
      PROVE  At(s, "completed") = {i} /\ s[i].good /\ \A j \in At(s, "item") : j < i
  <2>1. CASE f.type = "completed"
    <3>1. At(r, "completed") = {} /\ i = n
      BY <1>1, <1>3, <1>8, <2>1 DEF Found
    <3> QED
      BY <1>1, <1>2, <1>3, <1>4, <2>1, <3>1
  <2>2. CASE f.type # "completed"
    <3>1. i \in At(r, "completed") /\ o.completed
      BY <1>3, <1>8, <2>2 DEF Found
    <3>2. f.type # "item"
      BY <1>1, <3>1
    <3> QED
      BY <1>3, <1>4, <2>2, <3>1, <3>2 DEF Found
  <2> QED
    BY <2>1, <2>2
<1>9. p.items = {s[j].id : j \in At(s, "item")}
  <2>1. {s[j].id : j \in At(r, "item")} = {r[j].id : j \in At(r, "item")}
    BY <1>4
  <2>2. o.items = {s[j].id : j \in At(r, "item")}
    BY <2>1 DEF Found
  <2>3. CASE f.type = "item"
    <3>1. p.items = o.items \cup {s[n].id} /\ At(s, "item") = At(r, "item") \cup {n}
      BY <1>1, <1>2, <1>3, <2>3
    <3> QED
      BY <2>2, <3>1
  <2>4. CASE f.type # "item"
    BY <1>1, <1>3, <2>2, <2>4
  <2> QED
    BY <2>3, <2>4
<1>10. p.completed => p.ids = {s[j].id : j \in At(s, "completed") \cup At(s, "item")}
  <2>1. CASE f.type = "completed"
    <3>1. At(r, "completed") = {} /\ At(s, "completed") = At(r, "completed") \cup {n}
      BY <1>1, <1>3, <2>1 DEF Found
    <3>2. p.ids = o.items \cup {f.id} /\ p.items = o.items
      BY <1>1, <2>1
    <3>3. At(s, "completed") = {n} /\ p.ids = p.items \cup {s[n].id}
      BY <1>2, <3>1, <3>2
    <3> QED
      BY <1>9, <3>3
  <2>2. CASE f.type # "completed" /\ p.completed
    <3>1. o.completed /\ f.type # "item" /\ p.ids = o.ids
      BY <1>1, <2>2
    <3>2. p.ids = {r[j].id : j \in At(r, "completed") \cup At(r, "item")}
      BY <3>1 DEF Found
    <3>3. At(s, "completed") = At(r, "completed") /\ At(s, "item") = At(r, "item")
      BY <1>3, <2>2, <3>1
    <3> QED
      BY <1>4, <3>2, <3>3
  <2> QED
    BY <2>1, <2>2
<1> QED
  BY <1>5, <1>6, <1>7, <1>8, <1>9, <1>10 DEF Found

\* No frame of a stream that is sound so far breaks it.
LEMMA FoundGood ==
  ASSUME NEW o, NEW r \in Seq(Frames), Found(o, r)
  PROVE  \A i \in 1..Len(r) : r[i].good /\ ~Failure(r[i])
<1> SUFFICES ASSUME NEW i \in 1..Len(r) PROVE r[i].good /\ ~Failure(r[i])
  OBVIOUS
<1>1. r[i] \in Frames
  OBVIOUS
<1>2. r[i].type \notin {"item", "completed"} => r[i].good
  BY <1>1, FrameFacts DEF FrameLike
<1>3. r[i].type \in {"item", "completed"} => r[i].good
  BY DEF Found, At
<1>4. ~Failure(r[i])
  BY DEF Found
<1> QED
  BY <1>2, <1>3, <1>4

\* It proves a response so far.
LEMMA FoundUnbroken ==
  ASSUME NEW o, NEW r \in Seq(Frames), Found(o, r)
  PROVE  ~Breaks(r)
<1>1. \A i \in 1..Len(r) : r[i].good /\ ~Failure(r[i])
  BY FoundGood
<1>2. ASSUME NEW i \in 1..Len(r), NEW j \in 1..Len(r), i < j, r[i].type = "completed",
             r[j].type \in {"item", "completed"}
      PROVE  FALSE
  <2>1. i \in At(r, "completed") /\ i # j /\ ~(j < i)
    BY <1>2 DEF At
  <2>2. At(r, "completed") = {i} /\ \A k \in At(r, "item") : k < i
    BY <2>1 DEF Found
  <2>3. j \in At(r, "item") \/ j \in At(r, "completed")
    BY <1>2 DEF At
  <2> QED
    BY <2>1, <2>2, <2>3
<1> QED
  BY <1>1, <1>2 DEF Breaks

\* A sound gate: what was delivered (d), what it forwards and what it holds is all
\* that was received (r), in order, and the end is held.
Gates == [observer : Observers, terminal : Seq(Frames), forward : Seq(Frames)]
Sound(g, d, r) ==
  /\ r = (d \o g.forward) \o g.terminal
  /\ Found(g.observer, r)
  /\ ~g.observer.completed => g.terminal = <<>>
  /\ \A i \in 1..Len(d \o g.forward) : (d \o g.forward)[i].type # "completed"

LEMMA GateStep ==
  ASSUME NEW g \in Gates, NEW d \in Seq(Frames), NEW r \in Seq(Frames), NEW f \in Frames
  PROVE  LET h == Gate(g, f) IN
         /\ h \in Gates
         /\ ~h.observer.failed => ~g.observer.failed
         /\ Sound(g, d, r) /\ ~h.observer.failed => Sound(h, d, Append(r, f))
<1> DEFINE h == Gate(g, f)
           p == Observe(g.observer, f, TRUE)
<1>1. g.observer \in Observers /\ g.terminal \in Seq(Frames) /\ g.forward \in Seq(Frames)
  BY DEF Gates
<1>2. p \in Observers /\ (g.observer.failed => p.failed)
  BY <1>1, ObserveStrict
<1>3. CASE g.observer.failed
  BY <1>3 DEF Gate, Sound, Found
<1>4. CASE ~g.observer.failed /\ p.failed
  <2>1. h = [g EXCEPT !.observer = p]
    BY <1>4 DEF Gate
  <2> QED
    BY <1>1, <1>2, <1>4, <2>1 DEF Gates
<1>5. CASE ~p.failed /\ p.completed
  <2>1. PICK t \in Seq(Frames) : t = Append(g.terminal, f)
    <3>1. Append(g.terminal, f) \in Seq(Frames)
      BY <1>1
    <3> QED
      BY <3>1
  <2>2. h = [g EXCEPT !.observer = p, !.terminal = t]
    BY <1>2, <1>5, <2>1 DEF Gate
  <2>3. /\ h \in Gates /\ h.observer = p /\ h.terminal = t /\ h.forward = g.forward
    BY <1>2, <2>2 DEF Gates
  <2>4. ASSUME Sound(g, d, r) PROVE Sound(h, d, Append(r, f))
    <3>1. d \o g.forward \in Seq(Frames)
      BY <1>1
    <3>2. Append(r, f) = (d \o g.forward) \o t
      <4>1. r = (d \o g.forward) \o g.terminal
        BY <2>4 DEF Sound
      <4> QED
        BY <1>1, AppendingLast, <2>1, <3>1, <4>1
    <3>3. Found(p, Append(r, f))
      BY <1>1, <1>5, <2>4, FoundNext DEF Sound
    <3> QED
      BY <1>5, <2>3, <2>4, <3>2, <3>3 DEF Sound
  <2> QED
    BY <1>2, <1>5, <2>3, <2>4
<1>6. CASE ~p.failed /\ ~p.completed
  <2>1. PICK w \in Seq(Frames) : w = Append(g.forward, f)
    <3>1. Append(g.forward, f) \in Seq(Frames)
      BY <1>1
    <3> QED
      BY <3>1
  <2>2. h = [g EXCEPT !.observer = p, !.forward = w]
    BY <1>2, <1>6, <2>1 DEF Gate
  <2>3. /\ h \in Gates /\ h.observer = p /\ h.forward = w /\ h.terminal = g.terminal
    BY <1>2, <2>2 DEF Gates
  <2>4. ASSUME Sound(g, d, r) PROVE Sound(h, d, Append(r, f))
    <3>1. ~g.observer.completed /\ g.terminal = <<>>
      BY <1>1, <1>6, <2>4, ObserveStrict DEF Sound
    <3>2. r = d \o g.forward
      <4>1. d \o g.forward \in Seq(Frames)
        BY <1>1
      <4>2. (d \o g.forward) \o <<>> = d \o g.forward
        BY <4>1, Joining
      <4> QED
        BY <2>4, <3>1, <4>2 DEF Sound
    <3>3. Append(r, f) = d \o w
      BY <1>1, AppendingLast, <2>1, <3>2
    <3>4. d \o w \in Seq(Frames)
      OBVIOUS
    <3>5. Found(p, Append(r, f))
      BY <1>1, <1>6, <2>4, FoundNext DEF Sound
    <3>6. \A i \in 1..Len(d \o w) : (d \o w)[i].type # "completed"
      BY <1>6, <3>3, <3>5 DEF Found, At
    <3>7. Append(r, f) = (d \o w) \o <<>>
      BY <3>3, <3>4, Joining
    <3> QED
      BY <2>3, <3>1, <3>5, <3>6, <3>7 DEF Sound
  <2> QED
    BY <1>2, <1>6, <2>3, <2>4
<1> QED
  BY <1>2, <1>3, <1>4, <1>5, <1>6

\* The frames of a read.
LEMMA ChunkFacts ==
  ASSUME NEW c \in Chunks
  PROVE  /\ c \in Seq(Frames)
         /\ \/ \E f \in Frames : c = <<f>> /\ Len(c) = 1 /\ c[1] = f
            \/ \E f \in Frames, h \in Frames :
                 c = Append(<<f>>, h) /\ Len(c) = 2 /\ c[1] = f /\ c[2] = h
<1>1. CASE c \in {<<f>> : f \in Frames}
  <2>1. PICK f \in Frames : c = <<f>>
    BY <1>1
  <2> QED
    BY <2>1
<1>2. CASE c \in Frames \X Frames
  <2>1. PICK f \in Frames, h \in Frames : c = <<f, h>>
    BY <1>2
  <2> QED
    BY <2>1
<1> QED
  BY <1>1, <1>2 DEF Chunks

LEMMA GateChunkStep ==
  ASSUME NEW g \in Gates, NEW d \in Seq(Frames), NEW r \in Seq(Frames), NEW c \in Chunks
  PROVE  LET h == GateChunk(g, c) IN
         /\ h \in Gates
         /\ Sound(g, d, r) /\ ~h.observer.failed => Sound(h, d, r \o c)
<1>1. CASE \E f \in Frames : c = <<f>> /\ Len(c) = 1 /\ c[1] = f
  <2>1. PICK f \in Frames : c = <<f>> /\ Len(c) = 1 /\ c[1] = f
    BY <1>1
  <2>2. r \o <<f>> = Append(r, f)
    BY Appending
  <2>3. GateChunk(g, c) = Gate(g, f)
    BY <2>1 DEF GateChunk
  <2>4. /\ Gate(g, f) \in Gates
        /\ Sound(g, d, r) /\ ~Gate(g, f).observer.failed => Sound(Gate(g, f), d, Append(r, f))
    BY GateStep
  <2> QED
    BY <2>1, <2>2, <2>3, <2>4
<1>2. CASE \E f \in Frames, h \in Frames :
             c = Append(<<f>>, h) /\ Len(c) = 2 /\ c[1] = f /\ c[2] = h
  <2>1. PICK f \in Frames, h \in Frames :
          c = Append(<<f>>, h) /\ Len(c) = 2 /\ c[1] = f /\ c[2] = h
    BY <1>2
  <2>2. r \o Append(<<f>>, h) = Append(Append(r, f), h) /\ Append(r, f) \in Seq(Frames)
    OBVIOUS
  <2>3. GateChunk(g, c) = Gate(Gate(g, f), h)
    BY <2>1 DEF GateChunk
  <2>4. /\ Gate(g, f) \in Gates
        /\ Sound(g, d, r) /\ ~Gate(g, f).observer.failed => Sound(Gate(g, f), d, Append(r, f))
    BY GateStep
  <2>5. ASSUME NEW k \in Gates, NEW q \in Seq(Frames)
        PROVE  /\ Gate(k, h) \in Gates
               /\ ~Gate(k, h).observer.failed => ~k.observer.failed
               /\ Sound(k, d, q) /\ ~Gate(k, h).observer.failed
                    => Sound(Gate(k, h), d, Append(q, h))
    BY GateStep
  <2>6. /\ Gate(Gate(g, f), h) \in Gates
        /\ Sound(g, d, r) /\ ~Gate(Gate(g, f), h).observer.failed
             => Sound(Gate(Gate(g, f), h), d, Append(Append(r, f), h))
    BY <2>2, <2>4, <2>5
  <2> QED
    BY <2>1, <2>2, <2>3, <2>6
<1> QED
  BY <1>1, <1>2, ChunkFacts

-----------------------------------------------------------------------------
(* Each action keeps the invariant.                                        *)

\* An account that the inspection passed over has stated no early limit.
LEMMA PassedIsNotEarly ==
  ASSUME received' \in Seq(Frames), Passed'
  PROVE  ~StatedEarly'
<1> DEFINE r == received'
<1> SUFFICES ASSUME NEW k \in 1..Len(r), k <= ProbeFrames, Failure(r[k]), r[k].limit,
                    \A i \in 1..k : ~r[i].output,
                    \A i \in 1..(k - 1) : r[i].type \in {"empty", "created"}
             PROVE  FALSE
  BY DEF StatedEarly, Failure
<1>1. r \in Seq(Frames) /\ ProbeFrames \in Nat /\ k \in Nat
  BY ProxyAssumption
<1>2. Limit(r[k]) /\ ~BeforeLimit(r[k]) /\ \A i \in 1..(k - 1) : BeforeLimit(r[i])
  BY <1>1 DEF Limit, BeforeLimit, Failure
<1>3. CASE \A i \in 1..Len(r) : BeforeLimit(r[i])
  BY <1>2, <1>3
<1>4. ASSUME NEW n \in 1..Len(r), \A i \in 1..(n - 1) : BeforeLimit(r[i]),
             n > ProbeFrames \/ ~(BeforeLimit(r[n]) \/ Limit(r[n]))
      PROVE  FALSE
  <2>1. CASE k < n
    BY <1>1, <1>2, <1>4, <2>1
  <2>2. CASE n < k
    BY <1>1, <1>2, <1>4, <2>2
  <2>3. CASE n = k
    BY <1>1, <1>2, <1>4, <2>3
  <2> QED
    BY <1>1, <2>1, <2>2, <2>3
<1> QED
  BY <1>3, <1>4 DEF Passed

\* Nor one in a body.
LEMMA PassedIsNotWhole ==
  ASSUME received' \in Seq(Frames), PassedBody'
  PROVE  ~StatedWhole'
<1>1. ProbeFrames \in Nat /\ Len(received') \in Nat
  BY ProxyAssumption
<1> QED
  BY <1>1 DEF PassedBody, StatedWhole, LimitBody

\* So nothing speaks against a response that is not given up.
LEMMA PassedIsNoLimit ==
  ASSUME TypeOK', Inspected', outcome' # "limit"
  PROVE  LimitExact'
<1> SUFFICES ASSUME mode' = "managed", phase' = "done"
             PROVE  ~StatedEarly' /\ ~StatedWhole'
  BY DEF LimitExact
<1>1. received' \in Seq(Frames)
  BY DEF TypeOK
<1>2. status' = "ok" /\ stream' => ~StatedEarly'
  BY <1>1, PassedIsNotEarly DEF Inspected
<1>3. status' = "limited" /\ ~stream' => ~StatedWhole'
  BY <1>1, PassedIsNotWhole DEF Inspected
<1> QED
  BY <1>2, <1>3 DEF StatedEarly, StatedWhole

LEMMA InitIInv == Init => IInv
<1> SUFFICES ASSUME Init PROVE IInv
  OBVIOUS
<1>1. Fresh \in Observers /\ <<>> \in Seq(Frames)
  BY DEF Fresh, Observers
<1>2. TypeOK
  BY <1>1 DEF Init, TypeOK, Phases
<1>3. Len(<<>>) = 0 /\ Len(<<>>) <= 1
  OBVIOUS
<1>4. Routed /\ Kept /\ Gated /\ Inspected
  BY <1>3 DEF Init, Routed, Kept, Gated, Inspected
<1>5. CommitsExactly /\ TerminalHeld /\ LimitExact
  BY <1>3 DEF Init, CommitsExactly, TerminalHeld, LimitExact
<1>6. Transparent
  BY <1>1, Leading DEF Init, Transparent
<1> QED
  BY <1>2, <1>4, <1>5, <1>6 DEF IInv

LEMMA UnansweredStep == IInv /\ Unanswered => IInv'
<1> SUFFICES ASSUME IInv, Unanswered PROVE IInv'
  OBVIOUS
<1>0. TypeOK /\ Routed /\ Kept /\ Transparent
  BY DEF IInv
<1> USE DEF Unanswered, End, kind
<1>1. TypeOK'
  BY <1>0 DEF TypeOK, Phases
<1>2. Routed'
  BY <1>0 DEF Routed
<1>3. Kept' /\ Gated' /\ Inspected'
  BY <1>0 DEF Routed, Kept, Gated, Inspected
<1>4. CommitsExactly' /\ TerminalHeld' /\ LimitExact'
  BY <1>0 DEF Routed, Kept, CommitsExactly, TerminalHeld, LimitExact, StatedEarly, StatedWhole
<1>5. Transparent'
  BY <1>0 DEF Transparent
<1> QED
  BY <1>1, <1>2, <1>3, <1>4, <1>5 DEF IInv

LEMMA RespondStep ==
  ASSUME IInv, NEW code \in {"ok", "limited", "failed"}, NEW sse \in BOOLEAN,
         NEW sniffed \in BOOLEAN, Respond(code, sse, sniffed)
  PROVE  IInv'
<1>0. TypeOK /\ Routed /\ Kept /\ Transparent
  BY DEF IInv
<1>1. /\ phase = "sent" /\ status' = code
      /\ stream' = (sse \/ (sniffed /\ mode = "persistent" /\ code = "ok"))
      /\ mode' = mode /\ received' = received /\ ended' = ended /\ backlog' = backlog
      /\ observer' = observer /\ terminal' = terminal /\ delivered' = delivered
      /\ granted' = granted /\ outcome' = outcome /\ clientGone' = clientGone
      /\ storeFailed' = storeFailed
  BY DEF Respond
<1>2. /\ received = <<>> /\ delivered = <<>> /\ terminal = <<>> /\ backlog = <<>>
      /\ observer = Fresh /\ granted = {} /\ outcome = "none" /\ ended = "open"
  BY <1>0, <1>1 DEF Routed, Kept
<1>3. /\ mode = "compact" => phase' = "window"
      /\ mode = "persistent" /\ code = "ok" => phase' = IF stream' THEN "gated" ELSE "body"
      /\ mode = "managed" /\ (code = "limited" \/ (code = "ok" /\ sse)) => phase' = "inspect"
      /\ mode = "persistent" /\ code # "ok" => phase' = "forward"
      /\ mode = "managed" /\ ~(code = "limited" \/ (code = "ok" /\ sse)) => phase' = "forward"
      /\ mode \in {"persistent", "managed", "compact"}
  BY <1>0, <1>1 DEF Respond, TypeOK
<1>4. TypeOK'
  <2>1. stream' \in BOOLEAN /\ phase' \in Phases
    BY <1>1, <1>3 DEF Phases
  <2> QED
    BY <1>0, <1>1, <2>1 DEF TypeOK
<1>5. Routed'
  <2>1. Len(received') = 0 /\ Len(received') <= (IF stream' THEN MaxFrames ELSE 1)
    BY <1>1, <1>2, ProxyAssumption
  <2> QED
    BY <1>1, <1>2, <1>3, <2>1 DEF Routed
<1>6. Kept'
  <2>1. <<>> = <<>> \o <<>>
    OBVIOUS
  <2> QED
    BY <1>1, <1>2, <1>3, <2>1 DEF Kept
<1>7. Gated'
  <2>1. Len(<<>>) = 0 /\ 1..0 = {}
    OBVIOUS
  <2>2. Found(Fresh, <<>>)
    BY <2>1 DEF Found, At, Fresh
  <2> QED
    BY <1>1, <1>2, <2>1, <2>2 DEF Gated
<1>8. Inspected'
  <2>1. 1..Len(received') = {} /\ Len(received') <= ProbeFrames
    BY <1>1, <1>2, ProxyAssumption
  <2> QED
    BY <1>1, <1>3, <2>1 DEF Inspected
<1>9. CommitsExactly' /\ LimitExact' /\ TerminalHeld'
  <2>1. 1..Len(delivered') = {}
    BY <1>1, <1>2
  <2> QED
    BY <1>3, <2>1 DEF CommitsExactly, LimitExact, TerminalHeld
<1>10. Transparent'
  BY <1>0, <1>1, <1>2 DEF Transparent
<1> QED
  BY <1>4, <1>5, <1>6, <1>7, <1>8, <1>9, <1>10 DEF IInv

LEMMA BodyEndsStep ==
  ASSUME IInv, NEW how \in {"eof", "cut", "error"}, BodyEnds(how)
  PROVE  IInv'
<1>0. TypeOK /\ Routed /\ Kept /\ Gated /\ Inspected /\ TerminalHeld /\ Transparent
  BY DEF IInv
<1>1. /\ phase \in {"inspect", "gated", "forward", "body", "window"} /\ phase' = phase
      /\ ended = "open" /\ ended' = how
      /\ how = "eof" /\ ~stream => received # <<>>
      /\ mode' = mode /\ status' = status /\ stream' = stream
      /\ received' = received /\ backlog' = backlog /\ observer' = observer
      /\ terminal' = terminal /\ delivered' = delivered /\ granted' = granted
      /\ outcome' = outcome /\ clientGone' = clientGone /\ storeFailed' = storeFailed
  BY DEF BodyEnds, kind
<1>2. TypeOK'
  BY <1>0, <1>1 DEF TypeOK
<1>3. Routed' /\ Kept'
  BY <1>0, <1>1 DEF Routed, Kept
<1>4. Gated' /\ TerminalHeld' /\ Transparent'
  BY <1>0, <1>1 DEF Gated, TerminalHeld, Transparent
<1>5. Inspected'
  BY <1>0, <1>1 DEF Inspected, Passed, PassedBody
<1>6. CommitsExactly' /\ LimitExact'
  BY <1>1 DEF CommitsExactly, LimitExact
<1> QED
  BY <1>2, <1>3, <1>4, <1>5, <1>6 DEF IInv

LEMMA InspectStep ==
  ASSUME IInv, NEW f \in Frames, Inspect(f)
  PROVE  IInv'
<1> DEFINE n == Len(received) + 1
           within == n <= ProbeFrames
           given == status = "ok" /\ within /\ Limit(f)
<1>0. TypeOK /\ Routed /\ Kept /\ Inspected /\ Transparent
  BY DEF IInv
<1>1. /\ phase = "inspect" /\ ended = "open" /\ Whole(<<f>>)
      /\ received' = Append(received, f)
      /\ mode' = mode /\ status' = status /\ stream' = stream /\ ended' = ended
      /\ observer' = observer /\ terminal' = terminal /\ delivered' = delivered
      /\ granted' = granted /\ clientGone' = clientGone /\ storeFailed' = storeFailed
  BY DEF Inspect, kind
<1>2. /\ mode = "managed" /\ (status = "limited" \/ (status = "ok" /\ stream))
      /\ delivered = <<>> /\ outcome = "none" /\ received \in Seq(Frames)
      /\ backlog \in Seq(Frames) /\ received = delivered \o backlog
  BY <1>0, <1>1 DEF Routed, Kept, TypeOK
<1>3. /\ received' \in Seq(Frames) /\ Len(received') = n /\ received'[n] = f
      /\ n \in 1..n /\ n \in Nat /\ received' # <<>>
      /\ \A i \in 1..(n - 1) : i \in 1..Len(received) /\ received'[i] = received[i]
      /\ \A i \in 1..n : i = n \/ i \in 1..(n - 1)
  BY <1>1, <1>2
<1>4. n <= (IF stream THEN MaxFrames ELSE 1)
  BY <1>1, <1>2 DEF Whole
<1>5. CASE given
  <2>1. phase' = "done" /\ outcome' = "limit" /\ backlog' = backlog
    BY <1>1, <1>3, <1>5 DEF Inspect, End
  <2>2. TypeOK'
    BY <1>0, <1>1, <1>3, <2>1 DEF TypeOK, Phases
  <2>3. Routed'
    BY <1>0, <1>1, <1>2, <1>3, <1>4, <2>1 DEF Routed
  <2>4. Kept' /\ Gated' /\ Inspected'
    BY <2>1 DEF Kept, Gated, Inspected
  <2>5. CommitsExactly' /\ TerminalHeld'
    BY <1>1, <1>2 DEF CommitsExactly, TerminalHeld
  <2>6. Transparent'
    BY <1>1, <1>2, <1>3, <2>1, Leading DEF Transparent
  <2>7. StatedEarly'
    <3>1. Failure(f) /\ f.limit /\ ~f.output /\ n <= ProbeFrames
      BY <1>5 DEF Limit
    <3>2. \A i \in 1..(n - 1) : /\ ~received'[i].output
                               /\ received'[i].type \in {"empty", "created"}
      <4> TAKE i \in 1..(n - 1)
      <4>1. i \in 1..Len(received) /\ received'[i] = received[i] /\ received[i] \in Frames
        BY <1>2, <1>3
      <4>2. BeforeLimit(received[i])
        BY <1>0, <1>1, <1>2, <1>5, <4>1 DEF Inspected
      <4>3. FrameLike(received[i])
        BY <4>1, FrameFacts
      <4> QED
        BY <4>1, <4>2, <4>3 DEF BeforeLimit, FrameLike
    <3>3. /\ Failure(received'[n]) /\ received'[n].limit
          /\ \A i \in 1..n : ~received'[i].output
      BY <1>3, <3>1, <3>2
    <3>4. n \in 1..Len(received') /\ status' = "ok" /\ stream'
      BY <1>1, <1>2, <1>3, <1>5
    <3> QED
      BY <3>1, <3>2, <3>3, <3>4 DEF StatedEarly
  <2>8. LimitExact'
    BY <1>1, <1>2, <2>1, <2>7 DEF LimitExact
  <2> QED
    BY <2>2, <2>3, <2>4, <2>5, <2>6, <2>8 DEF IInv
<1>6. CASE ~given
  <2>1. /\ phase' = IF within /\ (BeforeLimit(f) \/ status = "limited")
                    THEN "inspect" ELSE "forward"
        /\ backlog' = Append(backlog, f) /\ outcome' = outcome
    BY <1>1, <1>3, <1>6 DEF Inspect
  <2>2. phase' \in {"inspect", "forward"}
    BY <2>1
  <2>3. TypeOK'
    <3>1. backlog' \in Seq(Frames)
      BY <1>2, <2>1
    <3> QED
      BY <1>0, <1>1, <1>3, <2>1, <2>2, <3>1 DEF TypeOK, Phases
  <2>4. Routed'
    BY <1>0, <1>1, <1>2, <1>3, <1>4, <2>1, <2>2 DEF Routed
  <2>5. Kept'
    <3>1. received' = delivered' \o backlog'
      BY <1>1, <1>2, <2>1, AppendingLast
    <3> QED
      BY <1>0, <1>1, <1>2, <2>2, <3>1 DEF Kept
  <2>6. Gated' /\ CommitsExactly' /\ LimitExact' /\ TerminalHeld'
    BY <1>1, <1>2, <2>2 DEF Gated, CommitsExactly, LimitExact, TerminalHeld
  <2>7. Transparent'
    BY <1>1, <1>2, <1>3, <2>1, Leading DEF Transparent
  <2>8. Inspected'
    <3>0. /\ phase' = "inspect" => Len(received') <= ProbeFrames
          /\ phase' = "forward" /\ status = "limited" => PassedBody'
      BY <1>3, <2>1, ProxyAssumption DEF PassedBody
    <3> SUFFICES ASSUME stream, status = "ok"
                 PROVE  /\ phase' = "inspect" =>
                             \A i \in 1..Len(received') : BeforeLimit(received'[i])
                        /\ phase' = "forward" => Passed'
      BY <1>1, <2>2, <3>0 DEF Inspected
    <3>1. \A i \in 1..(n - 1) : BeforeLimit(received'[i])
      BY <1>0, <1>1, <1>2, <1>3 DEF Inspected
    <3>2. ASSUME phase' = "inspect"
          PROVE  \A i \in 1..Len(received') : BeforeLimit(received'[i])
      <4>1. BeforeLimit(f)
        BY <2>1, <3>2
      <4> QED
        BY <1>3, <3>1, <4>1
    <3>3. ASSUME phase' = "forward"
          PROVE  Passed'
      <4>1. n > ProbeFrames \/ ~(BeforeLimit(f) \/ Limit(f))
        <5>1. ~within \/ ~BeforeLimit(f)
          BY <2>1, <3>3
        <5>2. ~within \/ ~Limit(f)
          BY <1>6
        <5> QED
          BY <1>3, <5>1, <5>2, ProxyAssumption
      <4> QED
        BY <1>3, <3>1, <4>1 DEF Passed
    <3> QED
      BY <3>2, <3>3
  <2> QED
    BY <2>3, <2>4, <2>5, <2>6, <2>7, <2>8 DEF IInv
<1> QED
  BY <1>5, <1>6

LEMMA InspectEndStep ==
  ASSUME IInv, InspectEnd
  PROVE  IInv'
<1> DEFINE given == /\ status = "limited" /\ ended = "eof" /\ ~stream
                    /\ LimitBody(backlog[1])
<1>0. TypeOK /\ Routed /\ Kept /\ Inspected /\ Transparent
  BY DEF IInv
<1>1. /\ phase = "inspect" /\ ended # "open"
      /\ IF given THEN phase' = "done" /\ outcome' = "limit"
                  ELSE phase' = "forward" /\ outcome' = outcome
      /\ mode' = mode /\ status' = status /\ stream' = stream /\ received' = received
      /\ ended' = ended /\ backlog' = backlog
      /\ observer' = observer /\ terminal' = terminal /\ delivered' = delivered
      /\ granted' = granted /\ clientGone' = clientGone /\ storeFailed' = storeFailed
  BY DEF InspectEnd, kind, End
<1>2. /\ mode = "managed" /\ (status = "limited" \/ (status = "ok" /\ stream))
      /\ delivered = <<>> /\ outcome = "none" /\ received \in Seq(Frames)
      /\ received = <<>> \o backlog /\ backlog \in Seq(Frames)
  BY <1>0, <1>1 DEF Routed, Kept, TypeOK
<1>3. received = backlog
  BY <1>2, Joining
<1>4. TypeOK'
  BY <1>0, <1>1 DEF TypeOK, Phases
<1>5. Routed'
  BY <1>0, <1>1, <1>2 DEF Routed
<1>6. Kept' /\ Gated' /\ CommitsExactly' /\ TerminalHeld' /\ Transparent'
  BY <1>0, <1>1, <1>2 DEF Kept, Gated, CommitsExactly, TerminalHeld, Transparent
<1>7. Inspected'
  BY <1>0, <1>1, <1>2, <1>3 DEF Inspected, Passed, PassedBody
<1>8. LimitExact'
  <2>1. CASE given
    <3>1. received # <<>> /\ Len(received) <= 1
      BY <1>0, <2>1 DEF Routed
    <3>2. received[1].type = "error" /\ received[1].limit
      BY <1>3, <2>1 DEF LimitBody
    <3>3. Len(received) <= ProbeFrames
      BY <1>0, <1>1, <1>2 DEF Inspected
    <3>4. StatedWhole'
      BY <1>1, <2>1, <3>1, <3>2, <3>3 DEF StatedWhole
    <3> QED
      BY <1>1, <1>2, <2>1, <3>4 DEF LimitExact
  <2>2. CASE ~given
    BY <1>1, <1>2, <1>4, <1>7, <2>2, PassedIsNoLimit
  <2> QED
    BY <2>1, <2>2
<1> QED
  BY <1>4, <1>5, <1>6, <1>7, <1>8 DEF IInv

\* What a read does to what was received and what is kept.
LEMMA ReadFacts ==
  ASSUME TypeOK, NEW c \in Seq(Frames), Read(c), received = delivered \o backlog,
         Len(received) <= (IF stream THEN MaxFrames ELSE 1)
  PROVE  /\ received' \in Seq(Frames) /\ backlog' \in Seq(Frames)
         /\ received' = (delivered \o c) \o backlog'
         /\ Len(received') <= (IF stream THEN MaxFrames ELSE 1)
         /\ received' = received \/ ended = "open"
         /\ Len(received) <= Len(received')
         /\ \A i \in 1..Len(received) : received'[i] = received[i]
<1>0. delivered \in Seq(Frames) /\ backlog \in Seq(Frames) /\ received \in Seq(Frames)
  BY DEF TypeOK
<1>1. CASE ReadNew(c)
  <2>1. /\ backlog = <<>> /\ backlog' = <<>> /\ ended = "open"
        /\ Len(received) + Len(c) <= (IF stream THEN MaxFrames ELSE 1)
        /\ received' = received \o c
    BY <1>1 DEF ReadNew, Whole
  <2>2. /\ received \o c \in Seq(Frames) /\ Len(received \o c) = Len(received) + Len(c)
        /\ Len(c) \in Nat /\ Len(received) \in Nat
        /\ \A i \in 1..Len(received) : (received \o c)[i] = received[i]
    BY <1>0, Joining
  <2>3. received = delivered
    BY <1>0, <2>1, Joining
  <2>4. delivered \o c \in Seq(Frames) /\ (delivered \o c) \o <<>> = delivered \o c
    BY <1>0, Joining
  <2>5. <<>> \in Seq(Frames) /\ Len(received) <= Len(received) + Len(c)
    BY <2>2
  <2>6. received' \in Seq(Frames) /\ backlog' \in Seq(Frames) /\ Len(received) <= Len(received')
    BY <2>1, <2>2, <2>5
  <2>7. received' = (delivered \o c) \o backlog'
    BY <2>1, <2>3, <2>4
  <2>8. /\ Len(received') <= (IF stream THEN MaxFrames ELSE 1)
        /\ \A i \in 1..Len(received) : received'[i] = received[i]
    BY <2>1, <2>2
  <2> QED
    BY <2>1, <2>6, <2>7, <2>8
<1>2. CASE ReadBacklog(c)
  <2>1. /\ IsPrefix(c, backlog) /\ received' = received
        /\ backlog' = SubSeq(backlog, Len(c) + 1, Len(backlog))
    BY <1>2 DEF ReadBacklog
  <2>2. backlog' \in Seq(Frames) /\ backlog = c \o backlog'
    BY <1>0, <2>1, Taking
  <2>3. (delivered \o c) \o backlog' = delivered \o (c \o backlog')
    BY <1>0, <2>2, JoiningAssociates
  <2>4. received' = (delivered \o c) \o backlog'
    BY <2>1, <2>2, <2>3
  <2>5. Len(received) \in Nat /\ Len(received) <= Len(received')
    BY <1>0, <2>1
  <2> QED
    BY <1>0, <2>1, <2>2, <2>4, <2>5
<1> QED
  BY <1>1, <1>2 DEF Read

LEMMA ForwardStep ==
  ASSUME IInv, NEW c \in Chunks, Forward(c)
  PROVE  IInv'
<1>0. TypeOK /\ Routed /\ Kept /\ Inspected
  BY DEF IInv
<1>1. /\ phase = "forward" /\ Read(c)
      /\ mode' = mode /\ status' = status /\ stream' = stream /\ ended' = ended
      /\ granted' = granted /\ storeFailed' = storeFailed
  BY DEF Forward, kind
<1>2. /\ received = delivered \o backlog /\ granted = {} /\ outcome = "none"
      /\ ~(mode = "persistent" /\ status = "ok")
      /\ Len(received) <= (IF stream THEN MaxFrames ELSE 1)
      /\ received \in Seq(Frames) /\ delivered \in Seq(Frames)
  BY <1>0, <1>1 DEF Kept, Routed, TypeOK
<1>3. c \in Seq(Frames)
  BY ChunkFacts
<1>4. /\ received' \in Seq(Frames) /\ backlog' \in Seq(Frames)
      /\ received' = (delivered \o c) \o backlog'
      /\ Len(received') <= (IF stream THEN MaxFrames ELSE 1)
      /\ received' = received \/ ended = "open"
      /\ Len(received) <= Len(received')
      /\ \A i \in 1..Len(received) : received'[i] = received[i]
  BY <1>0, <1>1, <1>2, <1>3, ReadFacts
<1>5. delivered \o c \in Seq(Frames)
  BY <1>2, <1>3
<1>6. IsPrefix(delivered \o c, received')
  BY <1>4, <1>5, Leading
<1>7. ended' = "eof" /\ ~stream' => received' # <<>>
  <2>1. ended = "eof" /\ ~stream => received # <<>>
    BY <1>0 DEF Routed
  <2> QED
    BY <1>1, <1>4, <2>1
<1>8. mode' = "managed" /\ stream' /\ status' = "ok" => Passed'
  <2> SUFFICES ASSUME mode = "managed", stream, status = "ok"
               PROVE  Passed'
    BY <1>1
  <2>1. Passed
    BY <1>0, <1>1 DEF Inspected
  <2>2. CASE ended # "open" /\ \A i \in 1..Len(received) : BeforeLimit(received[i])
    BY <1>1, <1>4, <2>2 DEF Passed
  <2>3. ASSUME NEW n \in 1..Len(received),
               \A i \in 1..(n - 1) : BeforeLimit(received[i]),
               n > ProbeFrames \/ ~(BeforeLimit(received[n]) \/ Limit(received[n]))
        PROVE  Passed'
    <3>1. /\ n \in 1..Len(received') /\ received'[n] = received[n]
          /\ \A i \in 1..(n - 1) : i \in 1..Len(received)
      BY <1>2, <1>4
    <3>2. \A i \in 1..(n - 1) : BeforeLimit(received'[i])
      BY <1>4, <2>3, <3>1
    <3> QED
      BY <2>3, <3>1, <3>2 DEF Passed
  <2> QED
    BY <2>1, <2>2, <2>3 DEF Passed
<1>9. mode' = "managed" /\ ~stream' /\ status' = "limited" => PassedBody'
  <2> SUFFICES ASSUME mode = "managed", ~stream, status = "limited"
               PROVE  PassedBody'
    BY <1>1
  <2>1. PassedBody
    BY <1>0, <1>1 DEF Inspected
  <2>2. CASE Len(received) > ProbeFrames
    <3>1. Len(received) \in Nat /\ Len(received') \in Nat /\ ProbeFrames \in Nat
      BY <1>2, <1>4, ProxyAssumption
    <3> QED
      BY <1>4, <2>2, <3>1 DEF PassedBody
  <2>3. CASE ended # "open" /\ ~(ended = "eof" /\ LimitBody(received[1]))
    BY <1>1, <1>4, <2>3 DEF PassedBody
  <2> QED
    BY <2>1, <2>2, <2>3 DEF PassedBody
<1>10. observer' \in Observers
  <2>1. ObserveChunk(observer, c, FALSE) \in Observers
    <3>1. observer \in Observers
      BY <1>0 DEF TypeOK
    <3> QED
      BY <3>1, ChunkFacts, ObserveType DEF ObserveChunk
  <2> QED
    BY <1>0, <2>1 DEF Forward, Lost, TypeOK
<1>11. TerminalHeld' /\ CommitsExactly'
  <2>1. ~(mode' = "persistent" /\ status' = "ok")
    BY <1>1, <1>2
  <2>2. outcome' # "committed"
    BY <1>2 DEF Forward, Lost, End
  <2> QED
    BY <1>1, <1>2, <2>1, <2>2 DEF TerminalHeld, CommitsExactly
<1>12. CASE Lost(c)
  <2>1. PICK w \in Prefixes(c) :
          /\ clientGone' = TRUE /\ phase' = "done" /\ outcome' = "failed" /\ terminal' = terminal
          /\ delivered' = delivered \o w
    BY <1>12 DEF Lost, LostAt, End
  <2>2. PICK rest \in Seq(Frames) :
          delivered' \in Seq(Frames) /\ delivered \o c = delivered' \o rest
    BY <1>2, <1>3, <2>1, PartlyDelivered
  <2>3. TypeOK'
    BY <1>0, <1>1, <1>4, <1>10, <2>1, <2>2 DEF TypeOK, Phases
  <2>4. Routed' /\ Kept' /\ Gated' /\ Inspected'
    BY <1>1, <1>4, <1>7, <1>8, <1>9, <2>1 DEF Routed, Kept, Gated, Inspected
  <2>5. LimitExact'
    BY <2>1, <2>3, <2>4, PassedIsNoLimit
  <2>6. Transparent'
    <3>1. IsPrefix(delivered', (delivered' \o rest) \o backlog')
      BY <1>4, <2>2, LeadingFrames
    <3> QED
      BY <1>4, <2>1, <2>2, <3>1 DEF Transparent
  <2> QED
    BY <1>11, <2>3, <2>4, <2>5, <2>6 DEF IInv
<1>13. CASE /\ delivered' = delivered \o c
            /\ IF observer'.failed THEN End("aborted") ELSE UNCHANGED <<phase, outcome>>
            /\ UNCHANGED <<terminal, clientGone>>
  <2>1. /\ \/ phase' = "done" /\ outcome' = "aborted"
           \/ phase' = phase /\ outcome' = outcome
        /\ terminal' = terminal /\ clientGone' = clientGone /\ delivered' = delivered \o c
    BY <1>13 DEF End
  <2>2. TypeOK'
    BY <1>0, <1>1, <1>4, <1>5, <1>10, <2>1 DEF TypeOK, Phases
  <2>3. Routed'
    BY <1>0, <1>1, <1>2, <1>4, <1>7, <2>1 DEF Routed
  <2>4. Kept' /\ Gated' /\ Inspected'
    BY <1>1, <1>2, <1>4, <1>8, <1>9, <2>1 DEF Kept, Gated, Inspected
  <2>5. LimitExact'
    BY <1>2, <2>1, <2>2, <2>4, PassedIsNoLimit
  <2>6. Transparent'
    BY <1>2, <1>6, <2>1 DEF Transparent
  <2> QED
    BY <1>11, <2>2, <2>3, <2>4, <2>5, <2>6 DEF IInv
<1> QED
  BY <1>12, <1>13 DEF Forward

LEMMA ForwardEndStep ==
  ASSUME IInv, ForwardEnd
  PROVE  IInv'
<1>0. TypeOK /\ Routed /\ Kept /\ Inspected /\ Transparent
  BY DEF IInv
<1>1. /\ phase = "forward" /\ backlog = <<>> /\ phase' = "done"
      /\ outcome' \in {"aborted", "passed", "failed"}
      /\ mode' = mode /\ status' = status /\ stream' = stream /\ received' = received
      /\ ended' = ended /\ backlog' = backlog
      /\ observer' = observer /\ terminal' = terminal /\ delivered' = delivered
      /\ granted' = granted /\ clientGone' = clientGone /\ storeFailed' = storeFailed
  BY DEF ForwardEnd, kind, End
<1>2. granted = {} /\ ~(mode = "persistent" /\ status = "ok") /\ received = delivered
  <2>1. received = delivered \o <<>> /\ delivered \in Seq(Frames)
    BY <1>0, <1>1 DEF Kept, TypeOK
  <2> QED
    BY <1>0, <1>1, <2>1, Joining DEF Kept, Routed
<1>3. TypeOK'
  BY <1>0, <1>1 DEF TypeOK, Phases
<1>4. Routed' /\ Kept' /\ Gated' /\ Inspected'
  BY <1>0, <1>1 DEF Routed, Kept, Gated, Inspected, Passed, PassedBody
<1>5. CommitsExactly' /\ TerminalHeld' /\ Transparent'
  BY <1>0, <1>1, <1>2 DEF CommitsExactly, TerminalHeld, Transparent
<1>6. LimitExact'
  BY <1>1, <1>3, <1>4, PassedIsNoLimit
<1> QED
  BY <1>3, <1>4, <1>5, <1>6 DEF IInv

\* What a read of a gated stream leaves: a sound gate, unless the chunk broke it.
LEMMA DeliverReads ==
  ASSUME IInv, NEW c \in Chunks, Deliver(c)
  PROVE  LET h == GateChunk([observer |-> observer, terminal |-> terminal, forward |-> <<>>], c)
         IN  /\ ended = "open" /\ received' = received \o c /\ backlog' = <<>>
             /\ received' \in Seq(Frames) /\ Len(received') <= MaxFrames
             /\ h \in Gates /\ (~h.observer.failed => Sound(h, delivered, received'))
<1> DEFINE g == [observer |-> observer, terminal |-> terminal, forward |-> <<>>]
           h == GateChunk(g, c)
<1>0. TypeOK /\ Routed /\ Kept /\ Gated /\ TerminalHeld
  BY DEF IInv
<1>1. /\ phase = "gated" /\ Read(c)
      /\ mode' = mode /\ status' = status /\ stream' = stream /\ ended' = ended
      /\ granted' = granted /\ storeFailed' = storeFailed
  BY DEF Deliver, kind
<1>2. /\ mode = "persistent" /\ status = "ok" /\ stream /\ outcome = "none" /\ granted = {}
      /\ backlog = <<>> /\ received = delivered \o terminal
      /\ received \in Seq(Frames) /\ delivered \in Seq(Frames) /\ terminal \in Seq(Frames)
      /\ observer \in Observers
  BY <1>0, <1>1 DEF Routed, Kept, TypeOK
<1>3. /\ ended = "open" /\ received' = received \o c /\ backlog' = <<>>
      /\ Len(received) + Len(c) <= MaxFrames
  BY <1>1, <1>2 DEF Read, ReadNew, ReadBacklog, Whole
<1>4. c \in Seq(Frames)
  BY ChunkFacts
<1>5. /\ received' \in Seq(Frames) /\ Len(received') <= MaxFrames
      /\ <<>> \in Seq(Frames)
  <2>1. received \o c \in Seq(Frames) /\ Len(received \o c) = Len(received) + Len(c)
    BY <1>2, <1>4, Joining
  <2> QED
    BY <1>3, <2>1
<1>6. g \in Gates /\ Sound(g, delivered, received)
  <2>1. g.observer = observer /\ g.terminal = terminal /\ g.forward = <<>> /\ g \in Gates
    BY <1>2, <1>5 DEF Gates
  <2>2. delivered \o <<>> = delivered
    BY <1>2, Joining
  <2> QED
    BY <1>0, <1>1, <1>2, <2>1, <2>2 DEF Sound, Gated
<1>7. h \in Gates /\ (~h.observer.failed => Sound(h, delivered, received'))
  <2> HIDE DEF g
  <2> QED
    BY <1>2, <1>3, <1>6, GateChunkStep
<1> QED
  BY <1>3, <1>5, <1>7

LEMMA DeliverStep ==
  ASSUME IInv, NEW c \in Chunks, Deliver(c)
  PROVE  IInv'
<1> DEFINE g == [observer |-> observer, terminal |-> terminal, forward |-> <<>>]
           h == GateChunk(g, c)
<1>0. TypeOK /\ Routed /\ Kept /\ Gated /\ TerminalHeld
  BY DEF IInv
<1>1. /\ phase = "gated" /\ Read(c)
      /\ mode' = mode /\ status' = status /\ stream' = stream /\ ended' = ended
      /\ granted' = granted /\ storeFailed' = storeFailed
  BY DEF Deliver, kind
<1>2. /\ mode = "persistent" /\ status = "ok" /\ stream /\ outcome = "none" /\ granted = {}
      /\ backlog = <<>> /\ received = delivered \o terminal
      /\ received \in Seq(Frames) /\ delivered \in Seq(Frames) /\ terminal \in Seq(Frames)
      /\ observer \in Observers
  BY <1>0, <1>1 DEF Routed, Kept, TypeOK
<1>3. /\ ended = "open" /\ received' = received \o c /\ backlog' = <<>>
      /\ received' \in Seq(Frames) /\ Len(received') <= MaxFrames
      /\ h \in Gates /\ (~h.observer.failed => Sound(h, delivered, received'))
  BY DeliverReads
<1>4. c \in Seq(Frames)
  BY ChunkFacts
<1>5. \/ /\ h.observer.failed /\ phase' = "done" /\ outcome' = "aborted"
         /\ observer' = h.observer /\ delivered' = delivered \o <<>> /\ terminal' = terminal
         /\ clientGone' = clientGone
      \/ /\ clientGone' = TRUE /\ phase' = "done" /\ outcome' = "failed"
         /\ ~h.observer.failed /\ \E w \in Prefixes(h.forward) : delivered' = delivered \o w
         /\ observer' = observer /\ terminal' = terminal
      \/ /\ ~h.observer.failed /\ delivered' = delivered \o h.forward
         /\ observer' = h.observer /\ terminal' = h.terminal
         /\ phase' = phase /\ outcome' = outcome /\ clientGone' = clientGone
  BY DEF Deliver, Lost, LostAt, Released, End
<1>6. h.observer \in Observers /\ h.forward \in Seq(Frames) /\ h.terminal \in Seq(Frames)
  BY <1>3 DEF Gates
<1> HIDE DEF g, h
<1>7. /\ delivered \o h.forward \in Seq(Frames) /\ delivered \o <<>> = delivered
      /\ \A w \in Prefixes(h.forward) : delivered \o w \in Seq(Frames)
  BY <1>2, <1>6, Joining, PartlyDelivered
<1>8. TypeOK'
  <2>1. /\ observer' \in Observers /\ terminal' \in Seq(Frames) /\ delivered' \in Seq(Frames)
        /\ phase' \in Phases /\ clientGone' \in BOOLEAN
        /\ outcome' \in {"none", "failed", "limit", "aborted", "passed", "committed"}
    BY <1>0, <1>1, <1>2, <1>5, <1>6, <1>7 DEF Phases, TypeOK
  <2> QED
    BY <1>0, <1>1, <1>3, <2>1 DEF TypeOK
<1>9. Routed'
  BY <1>0, <1>1, <1>2, <1>3, <1>5 DEF Routed
<1>10. Inspected' /\ LimitExact'
  BY <1>1, <1>2 DEF Inspected, LimitExact
<1>11. CommitsExactly'
  BY <1>1, <1>2, <1>3, <1>5 DEF CommitsExactly
\* What the gate lets through of a chunk that breaks nothing.
<1>12. ASSUME ~h.observer.failed
       PROVE  /\ received' = (delivered \o h.forward) \o h.terminal
              /\ Found(h.observer, received')
              /\ ~h.observer.completed => h.terminal = <<>>
              /\ \A i \in 1..Len(delivered \o h.forward) :
                   LET d == (delivered \o h.forward)[i]
                   IN  d.type # "completed" /\ d.good /\ ~Failure(d)
  <2>1. /\ received' = (delivered \o h.forward) \o h.terminal
        /\ Found(h.observer, received')
        /\ ~h.observer.completed => h.terminal = <<>>
        /\ \A i \in 1..Len(delivered \o h.forward) :
             (delivered \o h.forward)[i].type # "completed"
    BY <1>3, <1>12 DEF Sound
  <2>2. \A i \in 1..Len(delivered \o h.forward) :
          /\ i \in 1..Len(received') /\ received'[i] = (delivered \o h.forward)[i]
          /\ received'[i].good /\ ~Failure(received'[i])
    <3>1. \A i \in 1..Len(delivered \o h.forward) :
            i \in 1..Len(received') /\ received'[i] = (delivered \o h.forward)[i]
      BY <1>6, <1>7, <2>1, LeadingFrames
    <3>2. \A i \in 1..Len(received') : received'[i].good /\ ~Failure(received'[i])
      BY <1>3, <2>1, FoundGood
    <3> QED
      BY <3>1, <3>2
  <2> QED
    BY <2>1, <2>2
<1>13. CASE phase' = "done" /\ delivered' = delivered /\ outcome' \in {"aborted", "failed"}
  <2>1. Kept' /\ Gated'
    BY <1>3, <1>13 DEF Kept, Gated
  <2>2. TerminalHeld'
    BY <1>0, <1>1, <1>2, <1>13 DEF TerminalHeld
  <2>3. IsPrefix(delivered, (delivered \o terminal) \o c)
    BY <1>2, <1>4, LeadingFrames
  <2>4. Transparent'
    BY <1>2, <1>3, <1>13, <2>3 DEF Transparent
  <2> QED
    BY <1>8, <1>9, <1>10, <1>11, <2>1, <2>2, <2>4 DEF IInv
<1>14. CASE /\ phase' = "done" /\ outcome' = "failed" /\ ~h.observer.failed
            /\ \E w \in Prefixes(h.forward) : delivered' = delivered \o w
  <2>0. PICK w \in Prefixes(h.forward) : delivered' = delivered \o w
    BY <1>14
  <2>1. PICK rest \in Seq(Frames) :
          delivered' \in Seq(Frames) /\ delivered \o h.forward = delivered' \o rest
    BY <1>2, <1>6, <2>0, PartlyDelivered
  <2>2. Kept' /\ Gated'
    BY <1>3, <1>14 DEF Kept, Gated
  <2>3. /\ IsPrefix(delivered', (delivered' \o rest) \o h.terminal)
        /\ \A i \in 1..Len(delivered') : /\ i \in 1..Len(delivered' \o rest)
                                          /\ (delivered' \o rest)[i] = delivered'[i]
    BY <1>6, <2>1, LeadingFrames
  <2>4. TerminalHeld'
    BY <1>12, <1>14, <2>1, <2>3 DEF TerminalHeld
  <2>5. Transparent'
    BY <1>12, <1>14, <2>1, <2>3 DEF Transparent
  <2> QED
    BY <1>8, <1>9, <1>10, <1>11, <2>2, <2>4, <2>5 DEF IInv
<1>15. CASE /\ ~h.observer.failed /\ delivered' = delivered \o h.forward
            /\ observer' = h.observer /\ terminal' = h.terminal
            /\ phase' = phase /\ outcome' = outcome
  <2>1. /\ received' = delivered' \o terminal' /\ Found(observer', received')
        /\ ~observer'.completed => terminal' = <<>>
        /\ \A i \in 1..Len(delivered') :
             /\ delivered'[i].type # "completed" /\ delivered'[i].good
             /\ ~Failure(delivered'[i])
    BY <1>12, <1>15
  <2>2. Kept'
    BY <1>0, <1>1, <1>2, <1>3, <1>15, <2>1 DEF Kept
  <2>3. Gated'
    BY <2>1 DEF Gated
  <2>4. delivered' \in Seq(Frames) /\ terminal' \in Seq(Frames)
    BY <1>8 DEF TypeOK
  <2>5. IsPrefix(delivered', received')
    BY <2>1, <2>4, Leading
  <2>6. TerminalHeld' /\ Transparent'
    BY <1>2, <1>15, <2>1, <2>5 DEF TerminalHeld, Transparent
  <2> QED
    BY <1>8, <1>9, <1>10, <1>11, <2>2, <2>3, <2>6 DEF IInv
<1> QED
  BY <1>5, <1>7, <1>13, <1>14, <1>15

\* What a commit leaves, whatever becomes of it.
LEMMA CommitFacts ==
  ASSUME NEW ids, NEW rest, Commit(ids, rest)
  PROVE  /\ phase' = "done"
         /\ \/ /\ outcome' = "committed" /\ granted' = ids /\ storeFailed' = storeFailed
               /\ \/ delivered' = delivered \o rest /\ clientGone' = clientGone
                  \/ /\ clientGone' = TRUE
                     /\ \E w \in Prefixes(rest) : delivered' = delivered \o w
            \/ /\ outcome' = "aborted" /\ granted' = granted /\ storeFailed' = TRUE
               /\ delivered' = delivered /\ clientGone' = clientGone
BY DEF Commit, LostAt, End

LEMMA DeliverEndStep ==
  ASSUME IInv, DeliverEnd
  PROVE  IInv'
<1>0. TypeOK /\ Routed /\ Kept /\ Gated /\ TerminalHeld
  BY DEF IInv
<1>1. /\ phase = "gated" /\ ended # "open" /\ phase' = "done"
      /\ mode' = mode /\ status' = status /\ stream' = stream /\ received' = received
      /\ ended' = ended /\ backlog' = backlog /\ observer' = observer /\ terminal' = terminal
  BY CommitFacts DEF DeliverEnd, kind, End
<1>2. /\ mode = "persistent" /\ status = "ok" /\ stream /\ outcome = "none" /\ granted = {}
      /\ received = delivered \o terminal
      /\ received \in Seq(Frames) /\ delivered \in Seq(Frames) /\ terminal \in Seq(Frames)
      /\ observer \in Observers /\ Found(observer, received)
  BY <1>0, <1>1 DEF Routed, Kept, Gated, TypeOK
<1>3. \/ /\ outcome' = "committed" /\ granted' = observer.ids /\ Complete
         /\ \/ delivered' = received /\ clientGone' = clientGone
            \/ clientGone' = TRUE /\ \E w \in Prefixes(terminal) : delivered' = delivered \o w
         /\ storeFailed' = storeFailed
      \/ /\ outcome' = "aborted" /\ granted' = {} /\ delivered' = delivered
         /\ Complete => storeFailed' = TRUE
         /\ clientGone' = clientGone /\ storeFailed' \in {storeFailed, TRUE}
  BY <1>2, CommitFacts DEF DeliverEnd, End
<1>4. PICK rest \in Seq(Frames) : delivered' \in Seq(Frames) /\ received = delivered' \o rest
  <2>1. received = received \o <<>> /\ <<>> \in Seq(Frames)
    BY <1>2, Joining
  <2>2. ASSUME NEW w \in Prefixes(terminal)
        PROVE  /\ delivered \o w \in Seq(Frames)
               /\ \E rest \in Seq(Frames) : received = (delivered \o w) \o rest
    BY <1>2, PartlyDelivered
  <2> QED
    BY <1>2, <1>3, <2>1, <2>2
<1>5. TypeOK'
  <2>1. /\ granted' \in SUBSET Ids /\ delivered' \in Seq(Frames)
        /\ clientGone' \in BOOLEAN /\ storeFailed' \in BOOLEAN
        /\ outcome' \in {"none", "failed", "limit", "aborted", "passed", "committed"}
    BY <1>0, <1>2, <1>3, <1>4 DEF Observers, TypeOK
  <2> QED
    BY <1>0, <1>1, <2>1 DEF TypeOK, Phases
<1>6. Routed' /\ Kept' /\ Gated' /\ Inspected'
  BY <1>0, <1>1, <1>2, <1>3 DEF Routed, Kept, Gated, Inspected
<1>7. LimitExact'
  BY <1>1, <1>2 DEF LimitExact
<1>8. \A i \in 1..Len(received) : received[i].good /\ ~Failure(received[i])
  BY <1>2, FoundGood
<1>9. TerminalHeld'
  <2>1. CASE outcome' = "committed"
    <3>1. \A i \in 1..Len(delivered') : /\ i \in 1..Len(received)
                                         /\ delivered'[i] = received[i]
      BY <1>4, LeadingFrames
    <3> QED
      BY <1>8, <2>1, <3>1 DEF TerminalHeld
  <2>2. CASE delivered' = delivered /\ outcome' # "committed"
    BY <1>0, <1>1, <1>2, <2>2 DEF TerminalHeld
  <2> QED
    BY <1>3, <2>1, <2>2
<1>10. Transparent'
  <2>1. IsPrefix(delivered', received) /\ IsPrefix(received, received)
    BY <1>2, <1>4, Leading
  <2> QED
    BY <1>1, <1>3, <2>1 DEF Transparent
<1>11. At(received, "completed") = Indices("completed") /\ At(received, "item") = Indices("item")
  BY DEF At, Indices
<1>12. CommitsExactly'
  <2>1. observer.completed <=> Indices("completed") # {}
    BY <1>2, <1>11 DEF Found
  <2>2. ASSUME Complete
        PROVE  /\ Proves /\ ended = "eof"
               /\ observer.ids =
                    {received[i].id : i \in Indices("completed") \cup Indices("item")}
    <3>1. observer.completed /\ ended = "eof"
      BY <2>2 DEF Complete
    <3>2. PICK i \in Indices("completed") : TRUE
      BY <2>1, <3>1
    <3>3. /\ Indices("completed") = {i} /\ received[i].good
          /\ \A j \in Indices("item") : j < i /\ received[j].good
      BY <1>2, <1>11, <3>2 DEF Found
    <3>4. Proves
      BY <1>8, <3>2, <3>3 DEF Proves
    <3> QED
      BY <1>2, <1>11, <3>1, <3>4 DEF Found
  <2>3. ended = "eof" /\ Proves => Complete
    BY <2>1 DEF Proves, Complete
  <2>4. /\ Proves' <=> Proves
        /\ {received[i].id : i \in Indices("completed") \cup Indices("item")}' =
             {received[i].id : i \in Indices("completed") \cup Indices("item")}
    BY <1>1 DEF Proves, Indices
  <2> QED
    BY <1>1, <1>2, <1>3, <2>2, <2>3, <2>4 DEF CommitsExactly
<1> QED
  BY <1>5, <1>6, <1>7, <1>9, <1>10, <1>12 DEF IInv

LEMMA LoadStep ==
  ASSUME IInv, NEW f \in Frames, Load(f)
  PROVE  IInv'
<1>0. TypeOK /\ Routed /\ Kept
  BY DEF IInv
<1>1. /\ phase \in {"body", "window"} /\ phase' = phase
      /\ ended = "open" /\ Whole(<<f>>) /\ received' = received \o <<f>> /\ backlog' = backlog
      /\ mode' = mode /\ status' = status /\ stream' = stream /\ ended' = ended
      /\ observer' = observer /\ terminal' = terminal /\ delivered' = delivered
      /\ granted' = granted /\ outcome' = outcome /\ clientGone' = clientGone
      /\ storeFailed' = storeFailed
  BY DEF Load, ReadNew, kind
<1>2. received \in Seq(Frames) /\ delivered = <<>>
  BY <1>0, <1>1 DEF TypeOK, Kept
<1>3. /\ received' \in Seq(Frames) /\ Len(received') <= (IF stream THEN MaxFrames ELSE 1)
  <2>1. <<f>> \in Seq(Frames) /\ Len(<<f>>) = 1
    OBVIOUS
  <2>2. received \o <<f>> \in Seq(Frames) /\ Len(received \o <<f>>) = Len(received) + 1
    BY <1>2, <2>1, Joining
  <2> QED
    BY <1>1, <2>1, <2>2 DEF Whole
<1>4. TypeOK'
  BY <1>0, <1>1, <1>3 DEF TypeOK
<1>5. Routed' /\ Kept' /\ Gated' /\ Inspected'
  BY <1>0, <1>1, <1>3 DEF Routed, Kept, Gated, Inspected
<1>6. CommitsExactly' /\ LimitExact'
  BY <1>1 DEF CommitsExactly, LimitExact
<1>7. TerminalHeld'
  BY <1>1, <1>2 DEF TerminalHeld
<1>8. Transparent'
  <2>1. IsPrefix(<<>>, received')
    BY <1>3, Leading
  <2>2. outcome \notin {"passed", "committed"}
    BY <1>0, <1>1 DEF Routed
  <2> QED
    BY <1>1, <1>2, <2>1, <2>2 DEF Transparent
<1> QED
  BY <1>4, <1>5, <1>6, <1>7, <1>8 DEF IInv

LEMMA BodyEndStep ==
  ASSUME IInv, BodyEnd
  PROVE  IInv'
<1>0. TypeOK /\ Routed /\ Kept
  BY DEF IInv
<1>1. /\ phase = "body" /\ ended # "open" /\ phase' = "done"
      /\ mode' = mode /\ status' = status /\ stream' = stream /\ received' = received
      /\ ended' = ended /\ backlog' = backlog /\ observer' = observer /\ terminal' = terminal
  BY CommitFacts DEF BodyEnd, kind, End
<1>2. /\ mode = "persistent" /\ status = "ok" /\ ~stream /\ outcome = "none" /\ granted = {}
      /\ delivered = <<>> /\ received \in Seq(Frames) /\ Len(received) <= 1
  BY <1>0, <1>1 DEF Routed, Kept, TypeOK
<1>3. <<>> \o received = received
  BY <1>2, Joining
<1>4. \/ /\ outcome' = "committed" /\ granted' = {received[1].id}
         /\ ended = "eof" /\ IsAnswer(received)
         /\ \/ delivered' = received /\ clientGone' = clientGone
            \/ clientGone' = TRUE /\ \E w \in Prefixes(received) : delivered' = <<>> \o w
         /\ storeFailed' = storeFailed
      \/ /\ outcome' = "aborted" /\ granted' = {} /\ delivered' = delivered
         /\ ended = "eof" /\ IsAnswer(received) => storeFailed' = TRUE
         /\ clientGone' = clientGone /\ storeFailed' \in {storeFailed, TRUE}
  BY <1>2, <1>3, CommitFacts DEF BodyEnd, End
<1>5. ASSUME IsAnswer(received)
      PROVE  /\ Len(received) = 1 /\ received[1] \in Frames /\ received[1].id \in Ids
             /\ received[1].type = "completed" /\ received[1].good
  <2>1. Len(received) = 1 /\ received[1] \in Frames
    BY <1>2, <1>5, Single, Zenon DEF IsAnswer
  <2> QED
    BY <1>5, <2>1, FrameFacts DEF IsAnswer, FrameLike
<1>6. PICK rest \in Seq(Frames) : delivered' \in Seq(Frames) /\ received = delivered' \o rest
  <2>1. received \o <<>> = received /\ <<>> \o received = received /\ <<>> \in Seq(Frames)
    BY <1>2, Joining
  <2>2. CASE delivered' = received
    BY <1>2, <2>1, <2>2
  <2>3. CASE delivered' = <<>>
    BY <1>2, <2>1, <2>3
  <2>4. ASSUME NEW w \in Prefixes(received), delivered' = <<>> \o w
        PROVE  \E rest \in Seq(Frames) :
                 delivered' \in Seq(Frames) /\ received = delivered' \o rest
    <3>1. PICK rest \in Seq(Frames) :
            <<>> \o w \in Seq(Frames) /\ <<>> \o received = (<<>> \o w) \o rest
      BY <1>2, <2>1, PartlyDelivered
    <3> QED
      BY <2>1, <2>4, <3>1
  <2>5. \/ delivered' = received \/ delivered' = <<>>
        \/ \E w \in Prefixes(received) : delivered' = <<>> \o w
    BY <1>2, <1>4
  <2> QED
    BY <2>2, <2>3, <2>4, <2>5
<1>7. TypeOK'
  <2>1. /\ granted' \in SUBSET Ids /\ delivered' \in Seq(Frames)
        /\ clientGone' \in BOOLEAN /\ storeFailed' \in BOOLEAN
        /\ outcome' \in {"none", "failed", "limit", "aborted", "passed", "committed"}
    BY <1>0, <1>2, <1>4, <1>5, <1>6 DEF TypeOK
  <2> QED
    BY <1>0, <1>1, <2>1 DEF TypeOK, Phases
<1>8. Routed' /\ Kept' /\ Gated' /\ Inspected'
  BY <1>0, <1>1, <1>2, <1>4 DEF Routed, Kept, Gated, Inspected
<1>9. LimitExact'
  BY <1>1, <1>2 DEF LimitExact
<1>10. TerminalHeld'
  <2>1. CASE delivered' = <<>>
    BY <2>1 DEF TerminalHeld
  <2>2. CASE outcome' = "committed" /\ IsAnswer(received)
    <3>1. \A i \in 1..Len(received) : received[i].good /\ ~Failure(received[i])
      BY <1>5, <2>2, OnlyIndex DEF Failure
    <3>2. \A i \in 1..Len(delivered') : /\ i \in 1..Len(received)
                                         /\ delivered'[i] = received[i]
      BY <1>6, LeadingFrames
    <3> QED
      BY <2>2, <3>1, <3>2 DEF TerminalHeld
  <2> QED
    BY <1>2, <1>4, <2>1, <2>2
<1>11. Transparent'
  <2>1. IsPrefix(delivered', received) /\ IsPrefix(received, received)
    BY <1>2, <1>6, Leading
  <2> QED
    BY <1>1, <1>2, <1>4, <2>1 DEF Transparent
<1>12. CommitsExactly'
  <2>1. ASSUME IsAnswer(received)
        PROVE  /\ Proves
               /\ {received[1].id} =
                    {received[i].id : i \in Indices("completed") \cup Indices("item")}
    <3>1. 1..Len(received) = {1}
      BY <1>5, <2>1
    <3>2. Indices("completed") = {1} /\ Indices("item") = {}
      BY <1>5, <2>1, <3>1 DEF Indices
    <3>3. \A i \in 1..Len(received) : ~Failure(received[i])
      BY <1>5, <2>1, <3>1 DEF Failure
    <3>4. Proves
      BY <1>5, <2>1, <3>2, <3>3 DEF Proves
    <3> QED
      BY <3>2, <3>4
  <2>2. ASSUME Proves PROVE IsAnswer(received)
    <3>1. PICK i \in Indices("completed") : received[i].good
      BY <2>2 DEF Proves
    <3>2. i \in 1..Len(received) /\ received[i].type = "completed"
      BY DEF Indices
    <3>3. i = 1 /\ received # <<>>
      BY <1>2, <3>2
    <3> QED
      BY <3>1, <3>2, <3>3 DEF IsAnswer
  <2>3. /\ Proves' <=> Proves
        /\ {received[i].id : i \in Indices("completed") \cup Indices("item")}' =
             {received[i].id : i \in Indices("completed") \cup Indices("item")}
    BY <1>1 DEF Proves, Indices
  <2> QED
    BY <1>1, <1>2, <1>4, <2>1, <2>2, <2>3 DEF CommitsExactly
<1> QED
  BY <1>7, <1>8, <1>9, <1>10, <1>11, <1>12 DEF IInv

LEMMA WindowEndStep ==
  ASSUME IInv, WindowEnd
  PROVE  IInv'
<1>0. TypeOK /\ Routed /\ Kept
  BY DEF IInv
<1>1. /\ phase = "window" /\ phase' = "done"
      /\ mode' = mode /\ status' = status /\ stream' = stream /\ received' = received
      /\ ended' = ended /\ backlog' = backlog /\ observer' = observer /\ terminal' = terminal
      /\ granted' = granted /\ storeFailed' = storeFailed
      /\ \/ delivered' = received /\ outcome' = "passed" /\ clientGone' = clientGone
         \/ /\ \/ delivered' = delivered
               \/ \E w \in Prefixes(received) : delivered' = delivered \o w
            /\ outcome' = "failed" /\ clientGone' \in {clientGone, TRUE}
  BY DEF WindowEnd, LostAt, kind, End
<1>2. mode = "compact" /\ delivered = <<>> /\ received \in Seq(Frames)
  BY <1>0, <1>1 DEF Routed, Kept, TypeOK
<1>3. PICK rest \in Seq(Frames) : delivered' \in Seq(Frames) /\ received = delivered' \o rest
  <2>1. received \o <<>> = received /\ <<>> \o received = received /\ <<>> \in Seq(Frames)
    BY <1>2, Joining
  <2>2. CASE delivered' = received
    BY <1>2, <2>1, <2>2
  <2>3. CASE delivered' = <<>>
    BY <1>2, <2>1, <2>3
  <2>4. ASSUME NEW w \in Prefixes(received), delivered' = <<>> \o w
        PROVE  \E rest \in Seq(Frames) :
                 delivered' \in Seq(Frames) /\ received = delivered' \o rest
    <3>1. PICK rest \in Seq(Frames) :
            <<>> \o w \in Seq(Frames) /\ <<>> \o received = (<<>> \o w) \o rest
      BY <1>2, <2>1, PartlyDelivered
    <3> QED
      BY <2>1, <2>4, <3>1
  <2>5. \/ delivered' = received \/ delivered' = <<>>
        \/ \E w \in Prefixes(received) : delivered' = <<>> \o w
    BY <1>1, <1>2
  <2> QED
    BY <2>2, <2>3, <2>4, <2>5
<1>4. TypeOK'
  <2>1. delivered' \in Seq(Frames) /\ clientGone' \in BOOLEAN
    BY <1>0, <1>1, <1>3 DEF TypeOK
  <2> QED
    BY <1>0, <1>1, <2>1 DEF TypeOK, Phases
<1>5. Routed' /\ Kept' /\ Gated' /\ Inspected'
  BY <1>0, <1>1, <1>2 DEF Routed, Kept, Gated, Inspected
<1>6. CommitsExactly' /\ LimitExact' /\ TerminalHeld'
  BY <1>1, <1>2 DEF CommitsExactly, LimitExact, TerminalHeld
<1>7. Transparent'
  <2>1. IsPrefix(delivered', received) /\ IsPrefix(received, received)
    BY <1>2, <1>3, Leading
  <2> QED
    BY <1>1, <1>2, <2>1 DEF Transparent
<1> QED
  BY <1>4, <1>5, <1>6, <1>7 DEF IInv

LEMMA Unmoved == IInv /\ UNCHANGED vars => IInv'
<1> SUFFICES ASSUME IInv, UNCHANGED vars PROVE IInv'
  OBVIOUS
<1>1. TypeOK' /\ Routed' /\ Kept'
  BY DEF IInv, vars, TypeOK, Routed, Kept
<1>2. Gated' /\ Inspected'
  BY DEF IInv, vars, Gated, Inspected, Passed, PassedBody
<1>3. CommitsExactly'
  BY DEF IInv, vars, CommitsExactly, Proves, Indices
<1>4. TerminalHeld' /\ LimitExact' /\ Transparent'
  BY DEF IInv, vars, TerminalHeld, LimitExact, StatedEarly, StatedWhole, Transparent
<1> QED
  BY <1>1, <1>2, <1>3, <1>4 DEF IInv

\* A whole answer breaks nothing.
LEMMA AnswerUnbroken ==
  ASSUME NEW r \in Seq(Frames), Len(r) <= 1, IsAnswer(r)
  PROVE  ~Breaks(r)
<1>1. 1..Len(r) = {1} /\ r[1].type = "completed" /\ r[1].good
  BY DEF IsAnswer
<1> QED
  BY <1>1 DEF Breaks, Failure

\* The client gets nothing of a response once it is broken.
LEMMA WithheldStep ==
  ASSUME IInv, [Next]_vars
  PROVE  WithholdsBroken
<1> SUFFICES ASSUME mode = "persistent", status = "ok", Breaks(received')
             PROVE  delivered' = delivered
  BY DEF WithholdsBroken
<1>1. /\ TypeOK /\ Kept /\ phase \in {"gated", "body", "done"}
      /\ phase = "gated" => Found(observer, received)
      /\ phase = "body" => Len(received) <= 1
      /\ received \in Seq(Frames) /\ delivered \in Seq(Frames)
  BY DEF IInv, Routed, Gated, TypeOK
<1>2. ASSUME NEW c \in Chunks, Deliver(c)
      PROVE  delivered' = delivered
  <2> DEFINE h == GateChunk([observer |-> observer, terminal |-> terminal, forward |-> <<>>], c)
  <2>1. received' \in Seq(Frames) /\ (~h.observer.failed => Sound(h, delivered, received'))
    BY <1>2, DeliverReads
  <2>2. ~h.observer.failed => Found(h.observer, received')
    BY <2>1 DEF Sound
  <2>3. h.observer.failed
    BY <2>1, <2>2, FoundUnbroken
  <2>4. delivered' = delivered \o <<>>
    BY <1>2, <2>3 DEF Deliver, Released
  <2> QED
    BY <1>1, <2>4, Joining
<1>3. CASE DeliverEnd
  BY <1>1, <1>3, FoundUnbroken DEF DeliverEnd
<1>4. CASE BodyEnd
  <2>1. received' = received /\ ~IsAnswer(received)
    BY <1>1, <1>4, AnswerUnbroken DEF BodyEnd
  <2> QED
    BY <1>4, <2>1 DEF BodyEnd
<1>5. CASE Unanswered \/ InspectEnd \/ ForwardEnd \/ Over \/ UNCHANGED vars
  BY <1>5 DEF Unanswered, InspectEnd, ForwardEnd, Over, vars
<1>6. ASSUME NEW code, NEW sse, NEW sniffed, Respond(code, sse, sniffed)
      PROVE  delivered' = delivered
  BY <1>6 DEF Respond
<1>7. ASSUME NEW how, BodyEnds(how) PROVE delivered' = delivered
  BY <1>7 DEF BodyEnds
<1>8. ASSUME NEW f, Inspect(f) \/ Load(f) PROVE delivered' = delivered
  BY <1>8 DEF Inspect, Load
<1>9. ASSUME NEW c, Forward(c) PROVE FALSE
  BY <1>1, <1>9 DEF Forward
<1>10. CASE WindowEnd
  BY <1>1, <1>10 DEF WindowEnd
<1> QED
  BY <1>2, <1>3, <1>4, <1>5, <1>6, <1>7, <1>8, <1>9, <1>10 DEF Next

-----------------------------------------------------------------------------
(* The theorems.                                                           *)

\* The invariant holds in every reachable state: what is received is delivered or kept
\* in order, a gated stream is sound so far, an inspected one holds no early limit.
THEOREM Invariance == Spec => []IInv
<1>1. IInv /\ [Next]_vars => IInv'
  <2> SUFFICES ASSUME IInv, [Next]_vars PROVE IInv'
    OBVIOUS
  <2>1. CASE Unanswered
    BY <2>1, UnansweredStep
  <2>2. ASSUME NEW code \in {"ok", "limited", "failed"}, NEW sse \in BOOLEAN,
               NEW sniffed \in BOOLEAN, Respond(code, sse, sniffed)
        PROVE  IInv'
    BY <2>2, RespondStep
  <2>3. ASSUME NEW how \in {"eof", "cut", "error"}, BodyEnds(how)
        PROVE  IInv'
    BY <2>3, BodyEndsStep
  <2>4. ASSUME NEW f \in Frames, Inspect(f) PROVE IInv'
    BY <2>4, InspectStep
  <2>5. ASSUME NEW f \in Frames, Load(f) PROVE IInv'
    BY <2>5, LoadStep
  <2>6. ASSUME NEW c \in Chunks, Forward(c) PROVE IInv'
    BY <2>6, ForwardStep
  <2>7. ASSUME NEW c \in Chunks, Deliver(c) PROVE IInv'
    BY <2>7, DeliverStep
  <2>8. CASE InspectEnd
    BY <2>8, InspectEndStep
  <2>9. CASE ForwardEnd
    BY <2>9, ForwardEndStep
  <2>10. CASE DeliverEnd
    BY <2>10, DeliverEndStep
  <2>11. CASE BodyEnd
    BY <2>11, BodyEndStep
  <2>12. CASE WindowEnd
    BY <2>12, WindowEndStep
  <2>13. CASE Over \/ UNCHANGED vars
    BY <2>13, Unmoved DEF Over
  <2> QED
    BY <2>1, <2>2, <2>3, <2>4, <2>5, <2>6, <2>7, <2>8, <2>9, <2>10, <2>11, <2>12, <2>13
       DEF Next
<1> QED
  BY <1>1, InitIInv, PTL DEF Spec

\* The state of a response keeps its type.
THEOREM TypeCorrect == Spec => []TypeOK
<1>1. IInv => TypeOK
  BY DEF IInv
<1> QED
  BY <1>1, Invariance, PTL

\* The store learns of a turn exactly when the response proves it (commitPersistent
\* after the gate's validation).
THEOREM Commits == Spec => []CommitsExactly
<1>1. IInv => CommitsExactly
  BY DEF IInv
<1> QED
  BY <1>1, Invariance, PTL

\* The client sees no end of a turn that is not committed (completionGate.terminal),
\* and no frame that breaks a stream (the observer's rejections).
THEOREM Held == Spec => []TerminalHeld
<1>1. IInv => TerminalHeld
  BY DEF IInv
<1> QED
  BY <1>1, Invariance, PTL

\* From the chunk that breaks a response on, the client gets nothing more of it
\* (completionGate.feed returns nothing for such a chunk).
THEOREM Withheld == Spec => BreakingWithheld
<1>1. IInv /\ [Next]_vars => [WithholdsBroken]_vars
  BY WithheldStep
<1> QED
  BY <1>1, Invariance, PTL DEF Spec, BreakingWithheld

\* An account is given up exactly for an explicit early limit, of a stream or in the
\* whole body of a 429 (inspectUsageLimit).
THEOREM LimitsExactly == Spec => []LimitExact
<1>1. IInv => LimitExact
  BY DEF IInv
<1> QED
  BY <1>1, Invariance, PTL

\* What the client reads is a prefix of what upstream sent, and all of it at a good end
\* (usageLimitBody replays what the inspection consumed).
THEOREM Passes == Spec => []Transparent
<1>1. IInv => Transparent
  BY DEF IInv
<1> QED
  BY <1>1, Invariance, PTL
=============================================================================

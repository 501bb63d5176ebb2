------------------------- MODULE ArchiveFlowProofs -------------------------
(***************************************************************************)
(* The archive writer: the data between its threads.                       *)
(*                                                                         *)
(* What a queue got, and what its writer still has, is what comes before   *)
(* this writer in the archive, and what it makes of all it has read.  This *)
(* equation is kept for every pair of connected processors while their     *)
(* threads work in any order, and by the steps of the main thread that     *)
(* leave its objects as they are.                                          *)
(***************************************************************************)
EXTENDS ArchiveIOProofs

-----------------------------------------------------------------------------
\* Sequences that begin with others.

LEMMA BeginsSelf ==
    ASSUME NEW s, IsSeq(s)
    PROVE  Begins(s, s) /\ Begins(<<>>, s)
BY SeqEmpty DEF Begins

LEMMA BeginsConcat ==
    ASSUME NEW s, IsSeq(s), NEW t, IsSeq(t)
    PROVE  Begins(s, s \o t)
BY DEF Begins

LEMMA BeginsTrans ==
    ASSUME NEW s, IsSeq(s), NEW t, NEW u, Begins(s, t), Begins(t, u)
    PROVE  Begins(s, u)
<1>1. PICK x : IsSeq(x) /\ t = s \o x
    BY DEF Begins
<1>2. PICK y : IsSeq(y) /\ u = t \o y
    BY DEF Begins
<1>3. u = s \o (x \o y)
    BY <1>1, <1>2, SeqAssoc
<1>4. IsSeq(x \o y)
    BY <1>1, <1>2, SeqConcat
<1> QED BY <1>3, <1>4 DEF Begins

LEMMA BeginsLonger ==
    ASSUME NEW s, IsSeq(s), NEW x, IsSeq(x), NEW t, Begins(s \o x, t)
    PROVE  Begins(s, t) /\ IsSeq(t)
<1>1. IsSeq(s \o x)
    BY SeqConcat
<1>2. PICK y : IsSeq(y) /\ t = (s \o x) \o y
    BY DEF Begins
<1>3. IsSeq(t)
    BY <1>1, <1>2, SeqConcat
<1>4. Begins(s, t)
    BY BeginsConcat, BeginsTrans
<1> QED BY <1>3, <1>4

\* The same part in front.
LEMMA BeginsBehind ==
    ASSUME NEW s, IsSeq(s), NEW x, IsSeq(x), NEW y, Begins(x, y)
    PROVE  Begins(s \o x, s \o y)
<1>1. PICK z : IsSeq(z) /\ y = x \o z
    BY DEF Begins
<1>2. s \o y = (s \o x) \o z
    BY <1>1, SeqAssoc
<1> QED BY <1>1, <1>2 DEF Begins

LEMMA BeginsNothing ==
    ASSUME NEW s, IsSeq(s), Begins(s, <<>>)
    PROVE  s = <<>>
<1>1. PICK x : IsSeq(x) /\ <<>> = s \o x
    BY DEF Begins
<1>2. Len(s \o x) = Len(s) + Len(x) /\ Len(s) \in Nat /\ Len(x) \in Nat
    BY <1>1, SeqConcat, SeqFacts
<1>3. Len(s \o x) = 0
    BY <1>1, SeqEmpty
<1>4. Len(s) = 0
    BY <1>2, <1>3
<1> QED BY <1>4, SeqFacts

LEMMA ConcatNothing ==
    ASSUME NEW s, IsSeq(s), NEW x, IsSeq(x), s \o x = <<>>
    PROVE  s = <<>> /\ x = <<>>
<1>1. Len(s \o x) = Len(s) + Len(x) /\ Len(s) \in Nat /\ Len(x) \in Nat
    BY SeqConcat, SeqFacts
<1>2. Len(s \o x) = 0
    BY SeqEmpty
<1>3. Len(s) = 0 /\ Len(x) = 0
    BY <1>1, <1>2
<1> QED BY <1>3, SeqFacts

\* Concatenation under a name of its own, where only its algebra is needed.
Cat(s, t) == s \o t

LEMMA CatFacts ==
    ASSUME NEW s, IsSeq(s), NEW t, IsSeq(t), NEW u, IsSeq(u)
    PROVE  Cat(Cat(s, t), u) = Cat(s, Cat(t, u)) /\ IsSeq(Cat(s, t)) /\ IsSeq(Cat(t, u))
BY SeqAssoc, SeqConcat DEF Cat

-----------------------------------------------------------------------------
\* The bytes in a sequence of segments.

Bytes(s) == FlattenSeq([i \in DOMAIN s |-> s[i].data])

DataOf(s) == [i \in 1 .. Len(s) |-> s[i].data]

LEMMA BytesOf ==
    ASSUME NEW s, AreSegments(s)
    PROVE  /\ Bytes(s) = FlattenSeq(DataOf(s)) /\ IsSeqs(DataOf(s))
           /\ Len(DataOf(s)) = Len(s) /\ IsSeq(Bytes(s))
<1>1. IsSeq(s) /\ Len(s) \in Nat /\ DOMAIN s = 1 .. Len(s)
    BY SeqFacts DEF AreSegments
<1>2. Bytes(s) = FlattenSeq(DataOf(s))
    BY <1>1 DEF Bytes, DataOf
<1> DEFINE n == Len(s)
           d == DataOf(s)
<1>3. \A i \in 1 .. n : d[i] = s[i].data /\ IsSeq(s[i].data)
    BY SegmentFacts DEF AreSegments, DataOf
<1>4. d = [i \in 1 .. n |-> d[i]]
    BY DEF DataOf
<1> HIDE DEF n, d
<1>5. IsSeq(d) /\ Len(d) = n
    BY <1>1, <1>4, SeqMake DEF n
<1>6. IsSeqs(d)
    BY <1>3, <1>5 DEF IsSeqs
<1> QED BY <1>2, <1>5, <1>6, FlattenIsSeq DEF n, d

LEMMA BytesNone == Bytes(<<>>) = <<>>
<1>1. AreSegments(<<>>) /\ Len(<<>>) = 0
    BY NoSegments, SeqEmpty
<1> DEFINE e == <<>>
           d == DataOf(e)
<1>2. IsSeq(d) /\ Len(d) = 0 /\ Bytes(e) = FlattenSeq(d)
    BY <1>1, BytesOf DEF IsSeqs
<1> HIDE DEF e, d
<1>3. d = <<>>
    BY <1>2, SeqFacts
<1> QED BY <1>2, <1>3, FlattenEmpty DEF e

LEMMA BytesAppend ==
    ASSUME NEW s, AreSegments(s), NEW x, IsSegment(x)
    PROVE  Bytes(Append(s, x)) = Bytes(s) \o x.data
<1> DEFINE n == Len(s)
           t == Append(s, x)
           d == DataOf(s)
           e == DataOf(t)
<1>1. IsSeq(s) /\ n \in Nat /\ AreSegments(t)
    BY SeqFacts, AppendSegment DEF AreSegments
<1>2. Len(t) = n + 1 /\ (\A i \in 1 .. n : t[i] = s[i]) /\ t[n + 1] = x
    BY <1>1, SeqAppend
<1>3. IsSeqs(d) /\ Len(d) = n /\ IsSeqs(e) /\ Len(e) = n + 1 /\ IsSeq(x.data)
      /\ Bytes(s) = FlattenSeq(d) /\ Bytes(t) = FlattenSeq(e)
    BY <1>1, <1>2, BytesOf, SegmentFacts
<1>4. \A i \in 1 .. n : d[i] = s[i].data
    BY DEF DataOf
<1>5. \A i \in 1 .. n + 1 : e[i] = t[i].data
    BY <1>2 DEF DataOf
<1> DEFINE f == Append(d, x.data)
<1>6. IsSeq(d) /\ IsSeq(e)
    BY <1>3 DEF IsSeqs
<1>a. /\ IsSeq(f) /\ Len(f) = Len(d) + 1
      /\ \A i \in 1 .. Len(d) : f[i] = d[i]
      /\ f[Len(d) + 1] = x.data
    BY <1>6, SeqAppend
<1> HIDE DEF n, t, d, e, f
<1>7. IsSeq(f) /\ Len(f) = n + 1 /\ (\A i \in 1 .. n : f[i] = d[i]) /\ f[n + 1] = x.data
    BY <1>3, <1>a
<1>8. \A i \in 1 .. n + 1 : e[i] = f[i]
  <2>1. ASSUME NEW i \in 1 .. n + 1 PROVE e[i] = f[i]
    <3>1. i \in 1 .. n \/ i = n + 1
      BY <1>1
    <3>2. n + 1 \in 1 .. n + 1
      BY <1>1
    <3> QED BY <1>2, <1>4, <1>5, <1>7, <3>1, <3>2
  <2> QED BY <2>1
<1>9. e = f
    BY <1>3, <1>6, <1>7, <1>8, SeqExt
<1>10. FlattenSeq(Append(d, x.data)) = FlattenSeq(d) \o x.data
    BY <1>3, <1>6, FlattenAppend
<1> QED BY <1>3, <1>9, <1>10 DEF f, t

LEMMA BytesOne ==
    ASSUME NEW x, IsSegment(x)
    PROVE  Bytes(<<x>>) = x.data
<1>1. Append(<<>>, x) = <<x>>
    OBVIOUS
<1>2. Bytes(Append(<<>>, x)) = Bytes(<<>>) \o x.data
    BY NoSegments, BytesAppend
<1>3. <<>> \o x.data = x.data
    BY SegmentFacts, SeqEmpty
<1> QED BY <1>1, <1>2, <1>3, BytesNone

LEMMA BytesTail ==
    ASSUME NEW s, AreSegments(s), s # <<>>
    PROVE  /\ Bytes(s) = s[1].data \o Bytes(Tail(s))
           /\ AreSegments(Tail(s)) /\ IsSeq(s[1].data) /\ IsSeq(Bytes(Tail(s)))
<1> DEFINE n == Len(s)
           t == Tail(s)
           d == DataOf(s)
           e == DataOf(t)
<1>1. IsSeq(s) /\ n \in Nat /\ n > 0 /\ AreSegments(t) /\ IsSegment(s[1])
    BY SeqFacts, TailOfSegments DEF AreSegments
<1>2. Len(t) = n - 1 /\ (\A i \in 1 .. n - 1 : t[i] = s[i + 1])
    BY <1>1, SeqTail
<1>3. IsSeqs(d) /\ Len(d) = n /\ IsSeqs(e) /\ Len(e) = n - 1
      /\ Bytes(s) = FlattenSeq(d) /\ Bytes(t) = FlattenSeq(e) /\ IsSeq(Bytes(t))
    BY <1>1, <1>2, BytesOf
<1>4. \A i \in 1 .. n : d[i] = s[i].data
    BY DEF DataOf
<1>5. \A i \in 1 .. n - 1 : e[i] = t[i].data
    BY <1>2 DEF DataOf
<1>6. IsSeq(d) /\ IsSeq(e)
    BY <1>3 DEF IsSeqs
<1> HIDE DEF n, t, d, e
<1>a. d # <<>>
    BY <1>1, <1>3, <1>6, SeqFacts
<1> DEFINE f == Tail(d)
<1>7. IsSeq(f) /\ Len(f) = n - 1 /\ (\A i \in 1 .. n - 1 : f[i] = d[i + 1])
    BY <1>3, <1>6, <1>a, SeqTail
<1> HIDE DEF f
<1>8. \A i \in 1 .. n - 1 : e[i] = f[i]
  <2>1. ASSUME NEW i \in 1 .. n - 1 PROVE e[i] = f[i]
    <3>1. i + 1 \in 1 .. n
      BY <1>1
    <3> QED BY <1>2, <1>4, <1>5, <1>7, <3>1
  <2> QED BY <2>1
<1>9. e = f
    BY <1>3, <1>6, <1>7, <1>8, SeqExt
<1>10. FlattenSeq(d) = d[1] \o FlattenSeq(Tail(d))
    BY <1>3, <1>a, FlattenCons
<1>11. d[1] = s[1].data
    BY <1>1, <1>4
<1>12. IsSeq(s[1].data)
    BY <1>1, SegmentFacts
<1> QED BY <1>1, <1>3, <1>9, <1>10, <1>11, <1>12 DEF f, t

\* Encoders encode token by token.
LEMMA EncodedConcat ==
    ASSUME NEW kind, NEW s, IsSeq(s), NEW t, IsSeq(t)
    PROVE  Encoded(kind, s \o t) = Encoded(kind, s) \o Encoded(kind, t)
<1> DEFINE m == Len(s)
           n == Len(t)
           st == s \o t
           es == Encoded(kind, s)
           et == Encoded(kind, t)
           e == Encoded(kind, st)
           f == es \o et
<1>1. m \in Nat /\ n \in Nat
    BY SeqFacts
<1>2. IsSeq(st) /\ Len(st) = m + n
      /\ \A i \in 1 .. m + n : st[i] = IF i <= m THEN s[i] ELSE t[i - m]
    BY SeqConcat
<1>3. /\ IsSeq(es) /\ Len(es) = m /\ \A i \in 1 .. m : es[i] = <<kind, s[i]>>
      /\ IsSeq(et) /\ Len(et) = n /\ \A i \in 1 .. n : et[i] = <<kind, t[i]>>
    BY EncodedSeq
<1>4. IsSeq(e) /\ Len(e) = m + n /\ \A i \in 1 .. m + n : e[i] = <<kind, st[i]>>
    BY <1>2, EncodedSeq
<1>a. /\ IsSeq(f) /\ Len(f) = Len(es) + Len(et)
      /\ \A i \in 1 .. Len(es) + Len(et) : f[i] = IF i <= Len(es) THEN es[i] ELSE et[i - Len(es)]
    BY <1>3, SeqConcat
<1> HIDE DEF m, n, st, es, et, e, f
<1>5. IsSeq(f) /\ Len(f) = m + n
      /\ \A i \in 1 .. m + n : f[i] = IF i <= m THEN es[i] ELSE et[i - m]
    BY <1>3, <1>a
<1>6. \A i \in 1 .. m + n : e[i] = f[i]
  <2>1. ASSUME NEW i \in 1 .. m + n PROVE e[i] = f[i]
    <3>1. CASE i <= m
      <4>1. i \in 1 .. m
        BY <1>1, <3>1
      <4> QED BY <1>2, <1>3, <1>4, <1>5, <3>1, <4>1
    <3>2. CASE ~ (i <= m)
      <4>1. i - m \in 1 .. n
        BY <1>1, <3>2
      <4> QED BY <1>2, <1>3, <1>4, <1>5, <3>2, <4>1
    <3> QED BY <3>1, <3>2
  <2> QED BY <2>1
<1>7. e = f
    BY <1>4, <1>5, <1>6, SeqExt
<1> QED BY <1>7 DEF e, f, st, es, et

LEMMA EncodedNone ==
    ASSUME NEW kind
    PROVE  Encoded(kind, <<>>) = <<>>
<1>1. IsSeq(<<>>) /\ Len(<<>>) = 0
    BY SeqEmpty
<1>2. IsSeq(Encoded(kind, <<>>)) /\ Len(Encoded(kind, <<>>)) = Len(<<>>)
    BY <1>1, EncodedSeq
<1> DEFINE e == Encoded(kind, <<>>)
<1> HIDE DEF e
<1> QED BY <1>1, <1>2, SeqFacts DEF e

-----------------------------------------------------------------------------
\* What a processor has read (d), what waits in its queue (i), what it still
\* has, and what it has made so far.

Items(q) == IF q \in DOMAIN queue THEN queue[q].items ELSE <<>>

Ending(s) == s # <<>> /\ s[Len(s)] = Eof
Tidy(s) == \A k \in 1 .. Len(s) : s[k].type = "Data" \/ (s[k] = Eof /\ k = Len(s))
Closed(r, i) == r.done \/ Ending(i)

Untouched(r) == ~r.done /\ r.out = <<>> /\ r.buffer = <<>> /\ r.bytes = 0
Idle(r) == r.out = <<>> /\ r.state # "Starting" /\ (r.state = "Running" => r.done)

Spent(r) == r.done /\ r.out = <<>>

Pending(r) ==
    IF r.kind = "StdStreamSource" /\ r.state \in {"Uninitialized", "Starting"} THEN r.arg
    ELSE Bytes(r.out) \o (IF r.kind \in Encoders /\ ~r.done THEN r.buffer ELSE <<>>)
Made(r, d) ==
    IF r.kind = "StdStreamSource" THEN r.arg
    ELSE IF r.kind \in Encoders
    THEN IF r.done THEN Append(Encoded(r.kind, d), EndMark(r.kind)) ELSE Encoded(r.kind, d)
    ELSE d

\* Processor p of the writer of archive a: any of them, a source of data, and
\* one that reads from a queue.
Common(a, p, r) ==
    /\ r.kind = KindOf(p)
    /\ r.sink_queue \in {NoQueue, Target(a, p)}
    /\ r.stop_requested => r.done /\ r.out = <<>>
    /\ Tidy(r.out) /\ (Ending(r.out) => r.done)
    /\ r.state \in {"Uninitialized", "Starting"} \/ In(a, p) = <<>> => Untouched(r)
    /\ r.state \in {"Starting", "Running"} => In(a, p) # <<>>
Producer(a, p, r) == r.arg = In(a, p) /\ r.pass_eof /\ r.source_queue = NoQueue
Consumer(a, p, r, d, i) ==
    /\ r.source_queue \in {NoQueue, Feed(p)}
    /\ r.source_queue = NoQueue => i = <<>> /\ d = <<>>
    /\ r.sink_queue # NoQueue => ~r.pass_eof
    /\ r.sink_queue = NoQueue /\ p # file => r.state = "Uninitialized" \/ In(a, p) = <<>>
    /\ p = file => r.sink_queue = NoQueue /\ r.out = <<>>
    /\ IsSeq(d) /\ Begins(d \o Bytes(i), In(a, p))
    /\ r.state \in {"Uninitialized", "Starting"} => d = <<>>
    /\ r.state = "Uninitialized" => Bytes(i) = <<>>
    /\ r.state = "Completed" /\ In(a, p) # <<>> => r.done /\ r.out = <<>>
    /\ r.kind \in Hashes => r.buffer = d
    /\ r.kind = "ByteCounterSink" => r.bytes = Len(d)
    /\ Tidy(i)
    /\ r.done => i = <<>>
    /\ Closed(r, i) => d \o Bytes(i) = In(a, p)
Cell(a, p, r, d, i) ==
    /\ Common(a, p, r)
    /\ p[1] = "std" => Producer(a, p, r)
    /\ p[1] # "std" => Consumer(a, p, r, d, i)

\* Processor w, which has read dw, and v, which reads what it writes.
Link(a, w, r, dw, v, d, i) ==
    /\ r.sink_queue = NoQueue => w[1] = "hash"
    /\ r.sink_queue # NoQueue =>
        /\ v.source_queue = Target(a, w)
        /\ (d \o Bytes(i)) \o Pending(r) = Before(a, w) \o Made(r, dw)
        /\ r.state \in {"Starting", "Running"} => v.state # "Uninitialized"
        /\ w[1] = "std" /\ Closed(v, i) => r.done /\ r.out = <<>>

-----------------------------------------------------------------------------
\* Names.

LEMMA NameFacts ==
    ASSUME NEW a, NEW p, IsName(p)
    PROVE  /\ p[1] = "file" <=> p = file
           /\ p[1] = "overall" <=> p = overall
           /\ p[1] \in Numbered \cup {"file", "overall"}
           /\ p # NoQueue /\ Feed(p) # NoQueue
           /\ p # file => IsName(Reader(a, p)) /\ Reader(a, p)[1] # "std" /\ Reader(a, p) # p
           /\ p # file => Target(a, p) # NoQueue
           /\ p = file => Reader(a, p) = None
           /\ IsSink(p) => Feed(p) = p /\ (p # file => IsSink(Reader(a, p)))
           /\ p[1] = "std" => Target(a, p) = p /\ Reader(a, p)[1] = "hash"
           /\ p[1] # "std" /\ p # file => IsSink(Reader(a, p)) /\ Target(a, p) = Reader(a, p)
BY DEF IsName, Reader, Target, Feed, IsSink, Numbered, file, overall, None, NoQueue

LEMMA FeedInjective ==
    ASSUME NEW p, NEW q, IsName(p), IsName(q), p[1] # "std", q[1] # "std", Feed(p) = Feed(q)
    PROVE  p = q
BY DEF IsName, Feed, Numbered, file, overall

LEMMA KindFacts ==
    ASSUME NEW p, IsName(p)
    PROVE  /\ KindOf(p) = "StdStreamSource" <=> p[1] = "std"
           /\ KindOf(p) = "StdStreamSink" <=> p = file
           /\ KindOf(p) \in {"StdStreamSink", "HashSink", "ByteCounterSink", "CryptoSink",
                             "LzmaSink", "StdStreamSource", "HashSource"}
           /\ KindOf(p) \in SinkKinds <=> IsSink(p)
           /\ KindOf(p) = "HashSource" <=> p[1] = "hash"
BY DEF KindOf, IsName, IsSink, Numbered, file, overall, SinkKinds

-----------------------------------------------------------------------------
\* Sequences of segments of which the last may be an Eof.

LEMMA TidyTail ==
    ASSUME NEW s, AreSegments(s), s # <<>>, Tidy(s)
    PROVE  /\ Tidy(Tail(s))
           /\ s[1].type = "Data" \/ (s[1] = Eof /\ Tail(s) = <<>> /\ Ending(s))
           /\ s[1] # Eof => (Ending(s) <=> Ending(Tail(s)))
           /\ Ending(Tail(s)) => Ending(s)
<1> DEFINE n == Len(s)
           t == Tail(s)
<1>1. IsSeq(s) /\ n \in Nat /\ n > 0 /\ IsSeq(t)
    BY SeqFacts, SeqTail DEF AreSegments
<1>2. Len(t) = n - 1 /\ (\A k \in 1 .. n - 1 : t[k] = s[k + 1])
    BY <1>1, SeqTail
<1>3. \A k \in 1 .. n : s[k].type = "Data" \/ (s[k] = Eof /\ k = n)
    BY DEF Tidy
<1> HIDE DEF n, t
<1>4. t # <<>> <=> n > 1
  <2>1. t # <<>> <=> Len(t) > 0
    BY <1>1, SeqFacts
  <2> QED BY <1>1, <1>2, <2>1
<1>5. s[1].type = "Data" \/ (s[1] = Eof /\ n = 1)
  <2>1. 1 \in 1 .. n
    BY <1>1
  <2> QED BY <1>3, <2>1
<1>6. ASSUME n > 1 PROVE t[n - 1] = s[n]
  <2>1. n - 1 \in 1 .. n - 1 /\ (n - 1) + 1 = n
    BY <1>1, <1>6
  <2> QED BY <1>2, <2>1
<1>7. \A k \in 1 .. n - 1 : t[k].type = "Data" \/ (t[k] = Eof /\ k = n - 1)
  <2>1. ASSUME NEW k \in 1 .. n - 1 PROVE t[k].type = "Data" \/ (t[k] = Eof /\ k = n - 1)
    <3>1. k + 1 \in 1 .. n /\ (k + 1 = n => k = n - 1)
      BY <1>1
    <3> QED BY <1>2, <1>3, <3>1
  <2> QED BY <2>1
<1>8. Tidy(t)
    BY <1>2, <1>7 DEF Tidy
<1>9. Ending(s) <=> s[n] = Eof
    BY DEF Ending, n
<1>10. Ending(t) <=> n > 1 /\ t[n - 1] = Eof
    BY <1>2, <1>4 DEF Ending
<1>11. n = 1 \/ n > 1
    BY <1>1
<1>12. CASE n = 1
  <2>1. t = <<>> /\ ~Ending(t) /\ (Ending(s) <=> s[1] = Eof)
    BY <1>4, <1>9, <1>10, <1>12
  <2>2. s[1].type = "Data" \/ s[1] = Eof
    BY <1>5
  <2> QED BY <1>8, <2>1, <2>2 DEF t
<1>13. CASE n > 1
  <2>1. (Ending(s) <=> Ending(t)) /\ s[1].type = "Data"
    BY <1>1, <1>5, <1>6, <1>9, <1>10, <1>13
  <2> QED BY <1>8, <2>1 DEF t
<1> QED BY <1>11, <1>12, <1>13

LEMMA TidyAppend ==
    ASSUME NEW s, AreSegments(s), Tidy(s), ~Ending(s),
           NEW x, IsSegment(x), x.type = "Data" \/ x = Eof
    PROVE  /\ Tidy(Append(s, x)) /\ (Ending(Append(s, x)) <=> x = Eof)
           /\ Append(s, x) # <<>>
<1> DEFINE n == Len(s)
           t == Append(s, x)
<1>1. IsSeq(s) /\ n \in Nat
    BY SeqFacts DEF AreSegments
<1>2. IsSeq(t) /\ Len(t) = n + 1 /\ t[n + 1] = x
    BY <1>1, SeqAppend
<1>3. \A k \in 1 .. n : t[k] = s[k]
    BY <1>1, SeqAppend
<1>4. \A k \in 1 .. n : s[k].type = "Data" \/ (s[k] = Eof /\ k = n)
    BY DEF Tidy
<1>5. n > 0 => s[n] # Eof
    BY <1>1, SeqFacts DEF Ending
<1> HIDE DEF t, n
<1>6. \A k \in 1 .. n + 1 : t[k].type = "Data" \/ (t[k] = Eof /\ k = n + 1)
  <2>1. ASSUME NEW k \in 1 .. n + 1 PROVE t[k].type = "Data" \/ (t[k] = Eof /\ k = n + 1)
    <3>1. CASE k = n + 1
      BY <1>2, <3>1
    <3>2. CASE k # n + 1
      <4>1. k \in 1 .. n /\ n > 0
        BY <1>1, <3>2
      <4>2. s[k].type = "Data"
        BY <1>4, <1>5, <4>1
      <4> QED BY <1>3, <4>1, <4>2
    <3> QED BY <3>1, <3>2
  <2> QED BY <2>1
<1>7. t # <<>>
  <2>1. n + 1 > 0
    BY <1>1
  <2> QED BY <1>2, <2>1, SeqFacts
<1>8. Tidy(t)
    BY <1>2, <1>6 DEF Tidy
<1>9. Ending(t) <=> x = Eof
    BY <1>2, <1>7 DEF Ending
<1> QED BY <1>7, <1>8, <1>9 DEF t

LEMMA TidyNone == Tidy(<<>>) /\ ~Ending(<<>>)
<1>1. Len(<<>>) = 0
    BY SeqEmpty
<1>2. \A k : k \notin 1 .. 0
    OBVIOUS
<1> QED BY <1>1, <1>2 DEF Tidy, Ending

LEMMA TidyOne ==
    ASSUME NEW x, IsSegment(x), x.type = "Data" \/ x = Eof
    PROVE  Tidy(<<x>>) /\ (Ending(<<x>>) <=> x = Eof) /\ <<x>> # <<>>
<1>1. Append(<<>>, x) = <<x>>
    OBVIOUS
<1> DEFINE e == <<>>
<1>2. AreSegments(e) /\ Tidy(e) /\ ~Ending(e)
    BY NoSegments, TidyNone
<1> HIDE DEF e
<1>3. Tidy(Append(e, x)) /\ (Ending(Append(e, x)) <=> x = Eof) /\ Append(e, x) # <<>>
    BY <1>2, TidyAppend
<1> QED BY <1>1, <1>3 DEF e

-----------------------------------------------------------------------------
\* The state of the pipeline, when the writer is where the sequential program
\* s is, and processor p has read rd[p].

\* Only the last two objects can be a file and its digest; a queue has a
\* source as long as the processor that writes to it is there.
LiveShape(a, s) ==
    /\ live = s.stack
    /\ \A p \in Ran(live) : Fits(a, p) /\ (p = file \/ p[1] = "std" \/ Reader(a, p) \in Ran(live))
    /\ \A p \in Ran(live) : \/ IsSink(p) \/ p = Last(live)
                            \/ p[1] = "std" /\ Reader(a, p) = Last(live) /\ p = Last(Front(live))
    /\ \A v, w \in Ran(live) : Reader(a, v) = Reader(a, w) => v = w
    /\ \A p \in Ran(live) : p[1] = "std" /\ Reader(a, p) \notin Ran(live) => Idle(proc[p])
    /\ \A q \in DOMAIN queue : queue[q].putback = <<>>
    /\ \A q \in DOMAIN queue : queue[q].source => \E w \in Ran(live) : proc[w].sink_queue = q

Cells(a, rd) ==
    \A p \in Ran(live) : p \in DOMAIN rd /\ Cell(a, p, proc[p], rd[p], Items(Feed(p)))
Links(a, rd) ==
    \A w \in Ran(live) : Reader(a, w) \in Ran(live) =>
        Link(a, w, proc[w], rd[w], proc[Reader(a, w)], rd[Reader(a, w)], Items(Feed(Reader(a, w))))

\* The last object p, which is r, with i in the queue of that name.
Phase(a, s, p, r, i) ==
    /\ s.phase = "joined" /\ p[1] # "std" =>
        /\ r.state \in {"Uninitialized", "Completed"}
        /\ In(a, p) # <<>> => r.state = "Completed"
    /\ s.phase = "fed" => s.top = p /\ r.state # "Uninitialized" /\ r.source_queue = p
    /\ s.phase = "ending" => s.top = p /\ r.source_queue = p
    /\ s.phase = "closed" => IsSink(p) /\ Closed(r, i)
    /\ s.phase = "opened" => p[1] = "std" /\ r.state = "Uninitialized" /\ i = <<>>
    /\ s.phase = "linked" => p[1] = "hash" /\ r.sink_queue # NoQueue
    /\ s.phase = "running" /\ p[1] = "hash" => r.state # "Uninitialized"
    /\ s.phase = "open" /\ p[1] = "hash" => r.sink_queue = NoQueue
    /\ p[1] = "hash" /\ r.sink_queue = NoQueue => s.sent = Before(a, p) /\ s.top = Reader(a, p)
TopOK(a, s, rd) ==
    live # <<>> =>
        /\ s.top \in Ran(live) /\ IsSink(s.top)
        /\ (\A w \in Ran(live) : proc[w].sink_queue # s.top) => rd[s.top] \o Bytes(Items(s.top)) = s.sent
        /\ \A p \in Ran(live) : IsSink(p) /\ Closed(proc[p], Items(p)) =>
                p = Last(live) /\ s.phase \in {"closed", "joined"} /\ Free(a, s, p)
        /\ Phase(a, s, Last(live), proc[Last(live)], Items(Last(live)))

\* What has been left behind, and what the main thread has made of it.
ResultsOK(a, s) ==
    /\ \A p \in Ran(live) : KindOf(p) = "ByteCounterSink" => p \in DOMAIN results /\ results[p] = proc[p].bytes
    /\ s.left \notin Ran(live)
    /\ s.left # None /\ HasResult(s.left) => s.left \in DOMAIN results /\ results[s.left] = Result(a, s.left)
    /\ \A p \in DOMAIN taken : Takeable(p) /\ taken[p] = Result(a, p)
    /\ s.summed => overall \in DOMAIN taken

\* The file, which is whole when no data is lost.
Whole == "StdStreamSink" \notin MayFail
ContentsOK(a, s, rd) ==
    /\ file \in DOMAIN contents <=> file \in Ran(live) \/ s.left = file
    /\ file \in DOMAIN contents => IsSeq(contents[file])
    /\ Whole /\ file \in Ran(live) => contents[file] = rd[file]
    /\ Whole /\ s.left = file => contents[file] = Image[a]
OutcomeOK(s) ==
    /\ outcome = IF s.phase = "over" THEN "committed" ELSE "running"
    /\ s.phase = "over" => live = <<>> /\ s.left = file /\ s.summed

Flow(a, s, rd) ==
    /\ LiveShape(a, s) /\ Cells(a, rd) /\ Links(a, rd) /\ TopOK(a, s, rd)
    /\ ResultsOK(a, s) /\ ContentsOK(a, s, rd) /\ OutcomeOK(s)

-----------------------------------------------------------------------------
\* The segments of a file.

LEMMA SubSeqJoin ==
    ASSUME NEW d, IsSeq(d), NEW n \in 0 .. Len(d), NEW m \in 0 .. n
    PROVE  SubSeq(d, 1, m) \o SubSeq(d, m + 1, n) = SubSeq(d, 1, n)
<1> DEFINE s == SubSeq(d, 1, m)
           t == SubSeq(d, m + 1, n)
           u == SubSeq(d, 1, n)
<1>1. Len(d) \in Nat /\ m \in Nat /\ n \in Nat /\ m <= n /\ n <= Len(d)
    BY SeqFacts
<1>2. 1 \in Nat \ {0} /\ m + 1 \in Nat \ {0} /\ m \in 0 .. Len(d)
    BY <1>1
<1>3. /\ IsSeq(s) /\ Len(s) = IF 1 <= m THEN m - 1 + 1 ELSE 0
      /\ \A i \in 1 .. m - 1 + 1 : s[i] = d[1 + i - 1]
    BY <1>2, SeqSub
<1>4. /\ IsSeq(t) /\ Len(t) = IF m + 1 <= n THEN n - (m + 1) + 1 ELSE 0
      /\ \A i \in 1 .. n - (m + 1) + 1 : t[i] = d[m + 1 + i - 1]
    BY <1>2, SeqSub
<1>5. /\ IsSeq(u) /\ Len(u) = IF 1 <= n THEN n - 1 + 1 ELSE 0
      /\ \A i \in 1 .. n - 1 + 1 : u[i] = d[1 + i - 1]
    BY <1>2, SeqSub
<1> DEFINE v == s \o t
<1>6. /\ IsSeq(v) /\ Len(v) = Len(s) + Len(t)
      /\ \A i \in 1 .. Len(s) + Len(t) : v[i] = IF i <= Len(s) THEN s[i] ELSE t[i - Len(s)]
    BY <1>3, <1>4, SeqConcat
<1> HIDE DEF s, t, u, v
<1>7. Len(s) = m /\ Len(t) = n - m /\ Len(u) = n
    BY <1>1, <1>3, <1>4, <1>5
<1>8. Len(v) = n /\ \A i \in 1 .. n : v[i] = IF i <= m THEN s[i] ELSE t[i - m]
  <2>1. Len(s) + Len(t) = n
    BY <1>1, <1>7
  <2> QED BY <1>6, <1>7, <2>1
<1>9. \A i \in 1 .. n : v[i] = u[i]
  <2>1. ASSUME NEW i \in 1 .. n PROVE v[i] = u[i]
    <3>1. u[i] = d[i]
      BY <1>1, <1>5
    <3>2. CASE i <= m
      <4>1. s[i] = d[i]
        BY <1>1, <1>3, <3>2
      <4> QED BY <1>8, <3>1, <3>2, <4>1
    <3>3. CASE ~ (i <= m)
      <4>1. i - m \in 1 .. n - (m + 1) + 1 /\ m + 1 + (i - m) - 1 = i
        BY <1>1, <3>3
      <4>2. t[i - m] = d[i]
        BY <1>4, <4>1
      <4> QED BY <1>8, <3>1, <3>3, <4>2
    <3> QED BY <3>2, <3>3
  <2> QED BY <2>1
<1>10. v = u
    BY <1>5, <1>6, <1>7, <1>8, <1>9, SeqExt
<1> QED BY <1>10 DEF s, t, u, v

LEMMA SubSeqAll ==
    ASSUME NEW d, IsSeq(d)
    PROVE  SubSeq(d, 1, Len(d)) = d /\ SubSeq(d, 1, 0) = <<>>
<1> DEFINE n == Len(d)
           u == SubSeq(d, 1, n)
           e == SubSeq(d, 1, 0)
<1>1. n \in Nat /\ n \in 0 .. Len(d) /\ 0 \in 0 .. Len(d) /\ 1 \in Nat \ {0}
    BY SeqFacts
<1>2. /\ IsSeq(u) /\ Len(u) = IF 1 <= n THEN n - 1 + 1 ELSE 0
      /\ \A i \in 1 .. n - 1 + 1 : u[i] = d[1 + i - 1]
    BY <1>1, SeqSub
<1>3. IsSeq(e) /\ Len(e) = IF 1 <= 0 THEN 0 - 1 + 1 ELSE 0
    BY <1>1, SeqSub
<1>a. n = Len(d)
    OBVIOUS
<1> HIDE DEF n, u, e
<1>4. Len(u) = n /\ \A i \in 1 .. n : u[i] = d[i]
    BY <1>1, <1>2
<1>5. u = d
    BY <1>2, <1>4, <1>a, SeqExt
<1>6. e = <<>>
    BY <1>3, SeqFacts
<1> QED BY <1>5, <1>6 DEF n, u, e

LEMMA SegmentsBytes ==
    ASSUME NEW d, IsSeq(d)
    PROVE  /\ Bytes(Segments(d)) = d
           /\ AreSegments(Segments(d)) /\ Tidy(Segments(d)) /\ ~Ending(Segments(d))
<1> DEFINE n == (Len(d) + SegmentSize - 1) \div SegmentSize
           cut(k) == IF k * SegmentSize > Len(d) THEN Len(d) ELSE k * SegmentSize
           s == Segments(d)
           x(k) == SubSeq(d, (k - 1) * SegmentSize + 1, cut(k))
           first(k) == SubSeq(s, 1, k)
           T == {k \in Nat : k <= n => Bytes(first(k)) = SubSeq(d, 1, cut(k))}
<1>1. Len(d) \in Nat /\ SegmentSize \in Nat \ {0}
    BY SeqFacts, SizesAssumption
<1>2. n \in Nat /\ n * SegmentSize >= Len(d)
    BY <1>1
<1>3. \A k \in Nat : /\ k * SegmentSize \in Nat /\ cut(k) \in 0 .. Len(d)
                     /\ (k + 1) * SegmentSize = k * SegmentSize + SegmentSize
  <2>1. ASSUME NEW k \in Nat PROVE /\ k * SegmentSize \in Nat /\ cut(k) \in 0 .. Len(d)
                                   /\ (k + 1) * SegmentSize = k * SegmentSize + SegmentSize
    <3>1. \A a, b \in Nat : a * b \in Nat /\ (a + 1) * b = a * b + b
      OBVIOUS
    <3>2. k * SegmentSize \in Nat /\ (k + 1) * SegmentSize = k * SegmentSize + SegmentSize
      BY <1>1, <3>1
    <3> QED BY <1>1, <3>2
  <2> QED BY <2>1
<1>4. AreSegments(s) /\ IsSeq(s)
    BY SegmentsShape DEF AreSegments
<1>5. Len(s) = n /\ \A k \in 1 .. n : s[k] = Data(x(k))
  <2>1. s = [i \in 1 .. n |-> Data(x(i))]
    BY DEF Segments
  <2> HIDE DEF n, s, x
  <2>2. s = [i \in 1 .. n |-> s[i]] /\ \A k \in 1 .. n : s[k] = Data(x(k))
    BY <2>1
  <2> QED BY <1>2, <2>2, SeqMake
<1>6. 0 \in T
  <2>1. 0 * SegmentSize = 0 /\ cut(0) = 0
    BY <1>1
  <2>2. Bytes(SubSeq(s, 1, 0)) = <<>> /\ SubSeq(d, 1, 0) = <<>>
    BY <1>4, SubSeqAll, BytesNone
  <2> HIDE DEF n, cut, s
  <2> QED BY <2>1, <2>2
<1>7. ASSUME NEW k \in Nat, k \in T PROVE k + 1 \in T
  <2> HIDE DEF n, s
  <2>1. SUFFICES ASSUME k + 1 <= n
                 PROVE  Bytes(first(k + 1)) = SubSeq(d, 1, cut(k + 1))
    BY <1>7
  <2>2. k <= n /\ k + 1 \in 1 .. n /\ k \in 0 .. n /\ k + 1 \in 0 .. Len(s) /\ k \in 0 .. Len(s)
        /\ k \in 0 .. k + 1 /\ (k + 1) - 1 = k
    BY <1>2, <1>5, <2>1
  <2>3. Bytes(first(k)) = SubSeq(d, 1, cut(k))
    BY <1>7, <2>2
  <2>4. first(k + 1) = Append(first(k), s[k + 1]) /\ AreSegments(first(k))
    <3>1. first(k) \o SubSeq(s, k + 1, k + 1) = first(k + 1)
      BY <1>4, <2>2, SubSeqJoin
    <3> DEFINE t == SubSeq(s, k + 1, k + 1)
               f == first(k)
    <3>2. /\ IsSeq(t) /\ Len(t) = IF k + 1 <= k + 1 THEN (k + 1) - (k + 1) + 1 ELSE 0
          /\ \A i \in 1 .. (k + 1) - (k + 1) + 1 : t[i] = s[(k + 1) + i - 1]
      <4>1. k + 1 \in Nat \ {0}
        OBVIOUS
      <4> QED BY <1>4, <2>2, <4>1, SeqSub
    <3>3. /\ IsSeq(f) /\ Len(f) = IF 1 <= k THEN k - 1 + 1 ELSE 0
          /\ \A i \in 1 .. k - 1 + 1 : f[i] = s[1 + i - 1]
      <4>1. 1 \in Nat \ {0}
        OBVIOUS
      <4> QED BY <1>4, <2>2, <4>1, SeqSub
    <3> HIDE DEF t, f
    <3>4. Len(t) = 1 /\ t[1] = s[k + 1]
      <4>1. (k + 1) - (k + 1) + 1 = 1 /\ (k + 1) + 1 - 1 = k + 1 /\ 1 \in 1 .. 1
        OBVIOUS
      <4> QED BY <3>2, <4>1
    <3>5. t = <<s[k + 1]>>
      <4>1. IsSeq(<<s[k + 1]>>) /\ Len(<<s[k + 1]>>) = 1 /\ <<s[k + 1]>>[1] = s[k + 1]
        BY SeqSingle
      <4> DEFINE o == <<s[k + 1]>>
      <4> HIDE DEF o
      <4>2. \A i \in 1 .. Len(t) : t[i] = o[i]
        BY <3>4, <4>1 DEF o
      <4>3. t = o
        BY <3>2, <3>4, <4>1, <4>2, SeqExt DEF o
      <4> QED BY <4>3 DEF o
    <3>6. Append(f, s[k + 1]) = f \o <<s[k + 1]>>
      BY <3>3, SeqAppend
    <3>7. AreSegments(f)
      <4>1. \A i \in 1 .. Len(s) : IsSegment(s[i])
        BY <1>4 DEF AreSegments
      <4>2. Len(f) = k
        BY <3>3
      <4>3. ASSUME NEW i \in 1 .. Len(f) PROVE IsSegment(f[i])
        <5>1. i \in 1 .. k - 1 + 1 /\ i \in 1 .. Len(s) /\ 1 + i - 1 = i
          BY <1>5, <2>2, <4>2
        <5> QED BY <3>3, <4>1, <5>1
      <4> QED BY <3>3, <4>3 DEF AreSegments
    <3> QED BY <3>1, <3>5, <3>6, <3>7 DEF t, f
  <2>5. Bytes(first(k + 1)) = SubSeq(d, 1, cut(k)) \o x(k + 1)
    <3>1. IsSegment(s[k + 1]) /\ s[k + 1].data = x(k + 1)
      <4>1. k + 1 \in 1 .. Len(s)
        BY <1>5, <2>2
      <4>2. IsSegment(s[k + 1])
        BY <1>4, <4>1 DEF AreSegments
      <4> QED BY <1>5, <2>2, <4>2 DEF Data
    <3> QED BY <2>3, <2>4, <3>1, BytesAppend
  <2>6. SubSeq(d, 1, cut(k)) \o x(k + 1) = SubSeq(d, 1, cut(k + 1))
    <3>1. x(k + 1) = SubSeq(d, k * SegmentSize + 1, cut(k + 1))
      BY <2>2
    <3>2. cut(k) \in 0 .. Len(d) /\ cut(k + 1) \in 0 .. Len(d)
          /\ k * SegmentSize \in Nat /\ (k + 1) * SegmentSize = k * SegmentSize + SegmentSize
      <4>1. k + 1 \in Nat
        OBVIOUS
      <4> HIDE DEF cut
      <4> QED BY <1>3, <4>1
    <3>3. CASE k * SegmentSize <= Len(d)
      <4>1. cut(k) = k * SegmentSize /\ cut(k) \in 0 .. cut(k + 1)
        BY <1>1, <3>2, <3>3
      <4>2. SubSeq(d, 1, cut(k)) \o SubSeq(d, cut(k) + 1, cut(k + 1)) = SubSeq(d, 1, cut(k + 1))
        BY <3>2, <4>1, SubSeqJoin
      <4> QED BY <3>1, <4>1, <4>2
    <3>4. CASE ~ (k * SegmentSize <= Len(d))
      <4>1. cut(k) = Len(d) /\ cut(k + 1) = Len(d)
        BY <1>1, <3>2, <3>4
      <4> DEFINE m == k * SegmentSize + 1
                 e == SubSeq(d, m, Len(d))
      <4>2. m \in Nat \ {0} /\ Len(d) \in 0 .. Len(d) /\ ~ (m <= Len(d))
        BY <1>1, <3>2, <3>4
      <4>3. IsSeq(e) /\ Len(e) = IF m <= Len(d) THEN Len(d) - m + 1 ELSE 0
        <5> HIDE DEF m
        <5> QED BY <4>2, SeqSub
      <4>4. e = <<>>
        <5> HIDE DEF e, m
        <5> QED BY <4>2, <4>3, SeqFacts
      <4>5. SubSeq(d, 1, Len(d)) \o e = SubSeq(d, 1, Len(d))
        BY <4>4, SubSeqAll, SeqEmpty
      <4> QED BY <3>1, <4>1, <4>5
    <3> QED BY <1>1, <3>2, <3>3, <3>4
  <2> QED BY <2>5, <2>6
<1>8. Nat \subseteq T
  <2> HIDE DEF T
  <2> QED BY <1>6, <1>7, NatSet
<1>9. Bytes(SubSeq(s, 1, n)) = SubSeq(d, 1, cut(n)) /\ cut(n) = Len(d)
  <2> HIDE DEF n, s
  <2>1. n \in T /\ n <= n
    BY <1>2, <1>8
  <2>2. n * SegmentSize \in Nat
    BY <1>2, <1>3
  <2> QED BY <1>1, <1>2, <2>1, <2>2
<1>10. Bytes(s) = d
  <2> HIDE DEF n, s, cut
  <2> QED BY <1>4, <1>5, <1>9, SubSeqAll
<1>11. \A k \in 1 .. Len(s) : s[k].type = "Data" /\ s[k] # Eof
  <2>1. \A b : Data(b).type = "Data" /\ Data(b) # Eof
    BY DEF Data, Eof
  <2> HIDE DEF s, n, x
  <2> QED BY <1>5, <2>1
<1>12. Tidy(s)
    BY <1>11 DEF Tidy
<1>13. ~Ending(s)
  <2> HIDE DEF s
  <2>1. s # <<>> => Len(s) \in 1 .. Len(s)
    BY <1>4, SeqFacts
  <2> QED BY <1>11, <2>1 DEF Ending
<1> HIDE DEF s
<1> QED BY <1>4, <1>10, <1>12, <1>13 DEF s

LEMMA FileSegments ==
    ASSUME NEW d, IsSeq(d)
    PROVE  LET o == Append(Segments(d), Eof)
           IN  AreSegments(o) /\ Bytes(o) = d /\ Tidy(o) /\ Ending(o) /\ o # <<>>
<1> DEFINE s == Segments(d)
<1>1. AreSegments(s) /\ Bytes(s) = d /\ Tidy(s) /\ ~Ending(s) /\ IsSegment(Eof)
    BY SegmentsBytes, Segment
<1> HIDE DEF s
<1>2. AreSegments(Append(s, Eof)) /\ Tidy(Append(s, Eof)) /\ Ending(Append(s, Eof))
      /\ Append(s, Eof) # <<>>
    BY <1>1, AppendSegment, TidyAppend
<1>3. Bytes(Append(s, Eof)) = d \o Eof.data /\ Eof.data = <<>>
    BY <1>1, BytesAppend, Segment
<1>4. d \o <<>> = d
    BY SeqEmpty
<1> QED BY <1>2, <1>3, <1>4 DEF s

-----------------------------------------------------------------------------
\* What work does with a segment.

Alike(r, q) ==
    /\ q.kind = r.kind /\ q.arg = r.arg
    /\ q.source_queue = r.source_queue /\ q.sink_queue = r.sink_queue
    /\ q.pass_eof = r.pass_eof /\ q.stop_requested = r.stop_requested

\* What a processor has to write, and what it has made, grow by the same.
Grown(p1, p2, m1, m2) == \E x : IsSeq(x) /\ p2 = p1 \o x /\ m2 = m1 \o x

\* The processor r, which has read d, becomes q with the segment s.
Effect(r, s, q, d) ==
    /\ Alike(r, q) /\ q.state = r.state /\ (q.done <=> s = Eof)
    /\ Tidy(q.out) /\ (Ending(q.out) => q.done)
    /\ r.kind \in Hashes => q.buffer = r.buffer \o s.data
    /\ r.kind = "ByteCounterSink" => q.bytes = r.bytes + Len(s.data)
    /\ r.kind = "StdStreamSink" => q.out = <<>>
    /\ r.kind # "StdStreamSink" => Grown(Pending(r), Pending(q), Made(r, d), Made(q, d \o s.data))

LEMMA EndedFields ==
    ASSUME NEW r, ProcShape(r), NEW out, NEW q, q = Ended(r, out)
    PROVE  /\ Alike(r, q) /\ q.state = r.state /\ q.done /\ q.out = out
           /\ q.buffer = r.buffer /\ q.bytes = r.bytes
BY DEF Ended, ProcShape, ProcFields, Alike

LEMMA PassEffect ==
    ASSUME NEW r, ProcShape(r), r.kind \in Hashes \cup {"ByteCounterSink"}, r.out = <<>>, ~r.done,
           NEW s, IsSegment(s), s.type = "Data" \/ s = Eof, NEW d, IsSeq(d),
           NEW q, q \in work(r, s)
    PROVE  Effect(r, s, q, d)
<1>1. r.kind # "StdStreamSource" /\ r.kind \notin Encoders /\ r.kind # "StdStreamSink"
    BY DEF Hashes, Encoders
<1>2. /\ r.kind \in Hashes => q \in HashFilter_work(r, s)
      /\ r.kind = "ByteCounterSink" => q \in ByteCounterSink_work(r, s)
      /\ r.kind = "ByteCounterSink" => r.kind \notin Hashes
    BY DEF work, Hashes
<1>3. IsSeq(r.buffer) /\ r.bytes \in Nat /\ IsSeq(s.data) /\ Len(s.data) \in Nat /\ DOMAIN r = ProcFields
    BY SegmentFacts DEF ProcShape
<1>4. Pending(r) = <<>> /\ Made(r, d) = d
  <2>1. <<>> \o <<>> = <<>>
    BY SeqEmpty
  <2> QED BY <1>1, <2>1, BytesNone DEF Pending, Made
<1>5. ASSUME q.kind = r.kind PROVE Pending(q) = Bytes(q.out) \o <<>> /\ Made(q, d \o s.data) = d \o s.data
    BY <1>1, <1>5 DEF Pending, Made
<1>6. CASE s = Eof
  <2>1. q = Ended(r, <<Eof>>)
    BY <1>2, <1>6 DEF HashFilter_work, ByteCounterSink_work
  <2>2. Alike(r, q) /\ q.state = r.state /\ q.done /\ q.out = <<Eof>>
        /\ q.buffer = r.buffer /\ q.bytes = r.bytes
    BY <2>1, EndedFields
  <2>3. Tidy(<<Eof>>) /\ Bytes(<<Eof>>) = <<>> /\ s.data = <<>>
    BY <1>6, TidyOne, BytesOne, Segment
  <2>4. q.buffer = r.buffer \o s.data /\ d \o s.data = d
    BY <1>3, <2>2, <2>3, SeqEmpty
  <2>5. q.bytes = r.bytes + Len(s.data)
    BY <1>3, <2>2, <2>3, SeqEmpty
  <2>6. Grown(Pending(r), Pending(q), Made(r, d), Made(q, d \o s.data))
    <3>1. Pending(q) = <<>> \o <<>> /\ Made(q, d \o s.data) = d
      BY <1>5, <2>2, <2>3, <2>4 DEF Alike
    <3>2. IsSeq(<<>>) /\ <<>> \o <<>> = <<>> /\ d \o <<>> = d
      BY SeqEmpty
    <3> QED BY <1>4, <3>1, <3>2 DEF Grown
  <2> QED BY <1>1, <1>6, <2>2, <2>3, <2>4, <2>5, <2>6 DEF Effect
<1>7. CASE s # Eof
  <2> DEFINE b == r.buffer \o s.data
             n == r.bytes + Len(s.data)
             o == <<s>>
  <2>1. /\ r.kind \in Hashes => q = [r EXCEPT !.buffer = b, !.out = o]
        /\ r.kind = "ByteCounterSink" => q = [r EXCEPT !.bytes = n, !.out = o]
    BY <1>2, <1>7 DEF HashFilter_work, ByteCounterSink_work
  <2>2. Tidy(o) /\ ~Ending(o) /\ Bytes(o) = s.data
    BY <1>7, TidyOne, BytesOne
  <2> HIDE DEF b, n, o
  <2>3. Alike(r, q) /\ q.state = r.state /\ q.done = r.done /\ q.out = o
    BY <1>2, <1>3, <2>1 DEF Alike, ProcFields
  <2>4. r.kind \in Hashes => q.buffer = b
    BY <1>3, <2>1 DEF ProcFields
  <2>5. r.kind = "ByteCounterSink" => q.bytes = n
    BY <1>3, <2>1 DEF ProcFields
  <2>6. Grown(Pending(r), Pending(q), Made(r, d), Made(q, d \o s.data))
    <3>1. Pending(q) = s.data \o <<>> /\ Made(q, d \o s.data) = d \o s.data
      BY <1>5, <2>2, <2>3 DEF Alike
    <3>2. s.data \o <<>> = s.data /\ <<>> \o s.data = s.data
      BY <1>3, SeqEmpty
    <3> QED BY <1>3, <1>4, <3>1, <3>2 DEF Grown
  <2> QED BY <1>1, <1>7, <2>2, <2>3, <2>4, <2>5, <2>6 DEF Effect, b, n
<1> QED BY <1>6, <1>7

LEMMA FileEffect ==
    ASSUME NEW r, ProcShape(r), r.kind = "StdStreamSink", r.out = <<>>, ~r.done,
           NEW s, IsSegment(s), NEW d, IsSeq(d), NEW q, q \in work(r, s)
    PROVE  Effect(r, s, q, d)
<1>1. q = IF s = Eof THEN Ended(r, <<>>) ELSE r
    BY DEF work, Hashes
<1>2. q.out = <<>> /\ Alike(r, q) /\ q.state = r.state /\ (q.done <=> s = Eof)
  <2>1. CASE s = Eof
    <3>1. q = Ended(r, <<>>)
      BY <1>1, <2>1
    <3> QED BY <2>1, <3>1, EndedFields
  <2>2. CASE s # Eof
    BY <1>1, <2>2 DEF Alike
  <2> QED BY <2>1, <2>2
<1> QED BY <1>2, TidyNone DEF Effect, Hashes

LEMMA EncoderEffect ==
    ASSUME NEW r, ProcShape(r), r.kind \in Encoders, r.out = <<>>, ~r.done,
           NEW s, IsSegment(s), s.type = "Data" \/ s = Eof, NEW d, IsSeq(d),
           NEW q, q \in work(r, s)
    PROVE  Effect(r, s, q, d)
<1>1. r.kind # "StdStreamSource" /\ r.kind # "StdStreamSink" /\ r.kind \notin Hashes
      /\ r.kind # "ByteCounterSink" /\ r.kind # "BoundedSource"
    BY DEF Hashes, Encoders
<1>2. q \in LzmaSink_work(r, s)
    BY <1>1 DEF work, Encoders
<1>3. IsSeq(r.buffer) /\ IsSeq(s.data)
    BY SegmentFacts DEF ProcShape
<1>4. Pending(r) = r.buffer /\ Made(r, d) = Encoded(r.kind, d)
  <2>1. <<>> \o r.buffer = r.buffer
    BY <1>3, SeqEmpty
  <2> QED BY <1>1, <2>1, BytesNone DEF Pending, Made
<1>5. CASE s = Eof
  <2> DEFINE m == EndMark(r.kind)
             b == Append(r.buffer, m)
             o == <<Data(b), Eof>>
  <2>1. q = Ended(r, o)
    BY <1>2, <1>5 DEF LzmaSink_work
  <2>2. IsSeq(b) /\ b = r.buffer \o <<m>> /\ IsSeq(<<m>>)
    BY <1>3, SeqAppend, SeqSingle
  <2>3. Tidy(o) /\ Bytes(o) = b
    <3>1. IsSegment(Data(b)) /\ Data(b).type = "Data" /\ Data(b).data = b /\ Data(b) # Eof
          /\ IsSegment(Eof) /\ Eof.data = <<>>
      BY <2>2, Segment
    <3> DEFINE x == Data(b)
               y == <<x>>
    <3>2. AreSegments(y) /\ Tidy(y) /\ ~Ending(y) /\ Bytes(y) = x.data
      BY <3>1, OneSegment, TidyOne, BytesOne
    <3>3. o = Append(y, Eof)
      OBVIOUS
    <3>4. b \o <<>> = b
      BY <2>2, SeqEmpty
    <3> HIDE DEF b, o, x, y
    <3>5. Tidy(Append(y, Eof)) /\ Bytes(Append(y, Eof)) = Bytes(y) \o Eof.data
      BY <3>1, <3>2, TidyAppend, BytesAppend
    <3> QED BY <3>1, <3>2, <3>3, <3>4, <3>5 DEF x
  <2> HIDE DEF o
  <2>4. Alike(r, q) /\ q.state = r.state /\ q.done /\ q.out = o /\ q.buffer = r.buffer
    BY <2>1, EndedFields
  <2>5. s.data = <<>> /\ d \o s.data = d
    BY <1>5, Segment, SeqEmpty
  <2>6. Pending(q) = b /\ Made(q, d) = Append(Encoded(r.kind, d), m)
    <3>1. b \o <<>> = b
      BY <2>2, SeqEmpty
    <3>2. q.kind = r.kind /\ q.done
      BY <2>4 DEF Alike
    <3>3. Pending(q) = Bytes(q.out) \o <<>>
      BY <1>1, <3>2 DEF Pending
    <3>4. Made(q, d) = Append(Encoded(r.kind, d), m)
      BY <1>1, <3>2 DEF Made
    <3> QED BY <2>3, <2>4, <3>1, <3>3, <3>4
  <2>7. Append(Encoded(r.kind, d), m) = Encoded(r.kind, d) \o <<m>>
    BY EncodedSeq, SeqAppend
  <2>8. Grown(Pending(r), Pending(q), Made(r, d), Made(q, d \o s.data))
    <3> HIDE DEF b, m
    <3> QED BY <1>4, <2>2, <2>5, <2>6, <2>7 DEF Grown
  <2> QED BY <1>1, <1>5, <2>3, <2>4, <2>8 DEF Effect
<1>6. CASE s # Eof
  <2> DEFINE e == Encoded(r.kind, s.data)
             b == r.buffer \o e
  <2>1. IsSeq(b) /\ IsSeq(e)
    BY <1>3, EncodedSeq, SeqConcat
  <2>2. q \in Holding(r, b)
    BY <1>2, <1>6 DEF LzmaSink_work
  <2>3. Made(r, d) = Encoded(r.kind, d) /\ Encoded(r.kind, d \o s.data) = Encoded(r.kind, d) \o e
    BY <1>3, <1>4, EncodedConcat
  <2> HIDE DEF b
  <2>4. /\ Alike(r, q) /\ q.state = r.state /\ q.done = r.done
        /\ \/ q.out = <<>> /\ q.buffer = b
           \/ q.out = <<Data(b)>> /\ q.buffer = <<>>
    <3>1. DOMAIN r = ProcFields
      BY DEF ProcShape
    <3> QED BY <2>2, <3>1 DEF Holding, Alike, ProcFields
  <2>5. Tidy(q.out) /\ ~Ending(q.out) /\ Bytes(q.out) \o q.buffer = b
    <3>1. CASE q.out = <<>> /\ q.buffer = b
      <4>1. <<>> \o b = b
        BY <2>1, SeqEmpty
      <4> QED BY <3>1, <4>1, TidyNone, BytesNone
    <3>2. CASE q.out = <<Data(b)>> /\ q.buffer = <<>>
      <4>1. IsSegment(Data(b)) /\ Data(b).type = "Data" /\ Data(b).data = b /\ Data(b) # Eof
        BY <2>1, Segment
      <4>2. Tidy(<<Data(b)>>) /\ ~Ending(<<Data(b)>>) /\ Bytes(<<Data(b)>>) = b
        BY <4>1, TidyOne, BytesOne
      <4>3. b \o <<>> = b
        BY <2>1, SeqEmpty
      <4> QED BY <3>2, <4>2, <4>3
    <3> QED BY <2>4, <3>1, <3>2
  <2>6. q.kind = r.kind /\ ~q.done
    BY <2>4 DEF Alike
  <2>7. Pending(q) = b /\ Made(q, d \o s.data) = Encoded(r.kind, d \o s.data)
    BY <1>1, <2>5, <2>6 DEF Pending, Made
  <2>8. Grown(Pending(r), Pending(q), Made(r, d), Made(q, d \o s.data))
    <3> HIDE DEF e
    <3> QED BY <1>4, <2>1, <2>3, <2>7 DEF Grown, b
  <2> QED BY <1>1, <1>6, <2>4, <2>5, <2>8 DEF Effect
<1> QED BY <1>5, <1>6

LEMMA WorkEffect ==
    ASSUME NEW r, ProcShape(r), NEW p, IsName(p), IsSink(p) \/ p[1] = "hash", r.kind = KindOf(p),
           r.out = <<>>, ~r.done, NEW s, IsSegment(s), s.type = "Data" \/ s = Eof,
           NEW d, IsSeq(d), NEW q, q \in work(r, s)
    PROVE  Effect(r, s, q, d)
<1>1. r.kind \in Hashes \cup {"ByteCounterSink"} \/ r.kind = "StdStreamSink" \/ r.kind \in Encoders
    BY KindFacts DEF Hashes, Encoders, IsSink
<1> QED BY <1>1, PassEffect, FileEffect, EncoderEffect

LEMMA SinkOrHash ==
    ASSUME NEW p, IsName(p), p[1] # "std"
    PROVE  IsSink(p) \/ p[1] = "hash"
BY DEF IsSink

\* The processor r becomes q when it reads the segment s from the queue i, which
\* becomes j.
Reads(r, q, s, i, j) ==
    /\ r.state = "Running" /\ r.out = <<>> /\ ~r.done
    /\ i # <<>> /\ s = i[1] /\ j = Tail(i) /\ q \in work(r, s)

\* read() and what work does with the segment.
LEMMA ReadCell ==
    ASSUME NEW a, NEW p, IsName(p), p[1] # "std", NEW r, ProcShape(r),
           NEW d, NEW i, AreSegments(i), Cell(a, p, r, d, i),
           NEW j, NEW s, NEW q, Reads(r, q, s, i, j), NEW e, e = Cat(d, s.data)
    PROVE  /\ Cell(a, p, q, e, j) /\ Effect(r, s, q, d)
           /\ Cat(e, Bytes(j)) = Cat(d, Bytes(i))
           /\ Closed(q, j) <=> Closed(r, i)
           /\ p # file => Grown(Pending(r), Pending(q), Made(r, d), Made(q, e))
<1>a. /\ r.state = "Running" /\ r.out = <<>> /\ ~r.done
      /\ i # <<>> /\ s = i[1] /\ j = Tail(i) /\ q \in work(r, s) /\ e = d \o s.data
    BY DEF Reads, Cat
<1> USE <1>a
<1>1. Common(a, p, r) /\ Consumer(a, p, r, d, i)
    BY DEF Cell
<1>2. /\ IsSegment(s) /\ AreSegments(j) /\ IsSeq(s.data) /\ IsSeq(Bytes(j))
      /\ Bytes(i) = s.data \o Bytes(j)
    BY BytesTail, TailOfSegments
<1>3. /\ Tidy(j) /\ (s.type = "Data" \/ (s = Eof /\ j = <<>> /\ Ending(i)))
      /\ s # Eof => (Ending(i) <=> Ending(j))
      /\ Ending(j) => Ending(i)
    BY <1>1, TidyTail DEF Consumer
<1>4. IsSeq(d) /\ r.kind = KindOf(p)
    BY <1>1 DEF Consumer, Common
<1>5. Effect(r, s, q, d)
    BY <1>2, <1>3, <1>4, SinkOrHash, WorkEffect
<1>6. Alike(r, q) /\ q.state = "Running" /\ (q.done <=> s = Eof) /\ ~r.stop_requested /\ ~q.stop_requested
    BY <1>1, <1>5 DEF Effect, Alike, Common
<1>7. e \o Bytes(j) = d \o Bytes(i) /\ IsSeq(e)
  <2>1. IsSeq(s.data) /\ IsSeq(Bytes(j)) /\ IsSeq(d)
    BY <1>2, <1>4
  <2>2. Bytes(i) = Cat(s.data, Bytes(j)) /\ e = Cat(d, s.data)
    BY <1>2 DEF Cat
  <2>3. Cat(e, Bytes(j)) = Cat(d, Bytes(i)) /\ IsSeq(e)
    BY <2>1, <2>2, CatFacts
  <2> QED BY <2>3 DEF Cat
<1>8. Closed(q, j) <=> Closed(r, i)
  <2>1. CASE s = Eof
    <3>1. s.type # "Data"
      BY <2>1, Segment
    <3> QED BY <1>3, <1>6, <2>1, <3>1 DEF Closed
  <2>2. CASE s # Eof
    BY <1>3, <1>6, <2>2 DEF Closed
  <2> QED BY <2>1, <2>2
<1>9. Common(a, p, q)
    BY <1>1, <1>5, <1>6 DEF Common, Effect, Alike
<1>10. Consumer(a, p, q, e, j)
  <2>1. /\ q.source_queue \in {NoQueue, Feed(p)}
        /\ q.sink_queue # NoQueue => ~q.pass_eof
        /\ q.sink_queue = NoQueue /\ p # file => In(a, p) = <<>>
        /\ q.kind = r.kind /\ q.source_queue = r.source_queue /\ q.sink_queue = r.sink_queue
    BY <1>1, <1>6 DEF Consumer, Alike
  <2>2. q.source_queue # NoQueue
    BY <1>1, <1>6 DEF Consumer, Alike
  <2>3. p = file => q.sink_queue = NoQueue /\ q.out = <<>>
    <3>1. p = file => r.kind = "StdStreamSink"
      BY <1>4, KindFacts
    <3> QED BY <1>1, <1>5, <2>1, <3>1 DEF Consumer, Effect
  <2>4. Begins(e \o Bytes(j), In(a, p))
    BY <1>1, <1>7 DEF Consumer
  <2>5. r.kind \in Hashes => q.buffer = e
    BY <1>1, <1>5 DEF Consumer, Effect
  <2>6. r.kind = "ByteCounterSink" => q.bytes = Len(e)
    <3>1. Len(e) = Len(d) + Len(s.data)
      BY <1>2, <1>4, SeqConcat
    <3> QED BY <1>1, <1>5, <3>1 DEF Consumer, Effect
  <2>7. q.done => j = <<>>
    <3>1. Eof.type # "Data"
      BY Segment
    <3> QED BY <1>3, <1>6, <3>1
  <2>8. Closed(q, j) => e \o Bytes(j) = In(a, p)
    BY <1>1, <1>7, <1>8 DEF Consumer
  <2>9. q.state \notin {"Uninitialized", "Starting", "Completed"}
    BY <1>6
  <2> QED BY <1>3, <1>7, <2>1, <2>2, <2>3, <2>4, <2>5, <2>6, <2>7, <2>8, <2>9 DEF Consumer
<1>11. Cell(a, p, q, e, j)
    BY <1>9, <1>10 DEF Cell
<1>12. p # file => Grown(Pending(r), Pending(q), Made(r, d), Made(q, e))
  <2>1. p # file => r.kind # "StdStreamSink"
    BY <1>4, KindFacts
  <2> QED BY <1>5, <2>1 DEF Effect
<1>13. Cat(e, Bytes(j)) = Cat(d, Bytes(i))
    BY <1>7 DEF Cat
<1> QED BY <1>5, <1>8, <1>11, <1>12, <1>13

\* A thread begins its work, and a file is all there to be written.
LEMMA BeginCell ==
    ASSUME NEW a, NEW p, IsName(p), NEW r, ProcShape(r), NEW d, NEW i, Cell(a, p, r, d, i),
           r.state = "Starting", NEW q, Alike(r, q), q.state = "Running",
           q.buffer = r.buffer, q.bytes = r.bytes,
           IF p[1] = "std" THEN q.out = Append(Segments(r.arg), Eof) /\ q.done
           ELSE q.out = r.out /\ q.done = r.done
    PROVE  /\ Cell(a, p, q, d, i)
           /\ p[1] # "std" => (Closed(q, i) <=> Closed(r, i))
           /\ Pending(q) = Pending(r) /\ Made(q, d) = Made(r, d)
<1>1. Common(a, p, r) /\ r.kind = KindOf(p) /\ q.kind = r.kind /\ Untouched(r)
    BY DEF Cell, Common, Alike
<1>2. In(a, p) # <<>>
    BY <1>1 DEF Common
<1>3. CASE p[1] = "std"
  <2>1. r.kind = "StdStreamSource" /\ q.kind \notin Encoders
    BY <1>1, <1>3, KindFacts DEF Encoders
  <2> DEFINE o == Append(Segments(r.arg), Eof)
  <2>2. AreSegments(o) /\ Bytes(o) = r.arg /\ Tidy(o) /\ Ending(o) /\ IsSeq(r.arg)
    BY <2>1, FileSegments DEF ProcShape
  <2> HIDE DEF o
  <2>3. q.out = o /\ q.done
    BY <1>3 DEF o
  <2>4. r.stop_requested => FALSE
    BY <1>1 DEF Common, Untouched
  <2>5. Common(a, p, q)
    BY <1>1, <1>2, <2>2, <2>3, <2>4 DEF Common, Alike
  <2>6. Producer(a, p, q)
    BY <1>3 DEF Cell, Producer, Alike
  <2>7. Pending(q) = r.arg \o <<>> /\ r.arg \o <<>> = r.arg
    BY <1>1, <2>1, <2>2, <2>3, SeqEmpty DEF Pending
  <2>8. Pending(r) = r.arg /\ Made(r, d) = r.arg /\ Made(q, d) = r.arg
    BY <1>1, <2>1 DEF Pending, Made, Alike
  <2> QED BY <1>3, <2>5, <2>6, <2>7, <2>8 DEF Cell
<1>4. CASE p[1] # "std"
  <2>1. r.kind # "StdStreamSource"
    BY <1>1, <1>4, KindFacts
  <2>2. q.out = r.out /\ q.done = r.done
    BY <1>4
  <2>3. Common(a, p, q)
    BY <1>1, <1>2, <2>2 DEF Common, Alike, Untouched
  <2>4. Closed(q, i) <=> Closed(r, i)
    BY <2>2 DEF Closed
  <2>5. Consumer(a, p, q, d, i)
  <3>1. Consumer(a, p, r, d, i)
      BY <1>4 DEF Cell
  <3>2. r.sink_queue = NoQueue => p = file
      BY <1>2, <3>1 DEF Consumer
  <3> QED BY <1>2, <2>2, <2>4, <3>1, <3>2 DEF Consumer, Alike
  <2>6. Pending(q) = Pending(r) /\ Made(q, d) = Made(r, d)
    BY <1>1, <2>1, <2>2 DEF Pending, Made
  <2> QED BY <1>4, <2>3, <2>4, <2>5, <2>6 DEF Cell
<1> QED BY <1>3, <1>4

\* A thread that has written everything ends.
LEMMA EndCell ==
    ASSUME NEW a, NEW p, IsName(p), NEW r, NEW d, NEW i, Cell(a, p, r, d, i),
           r.state = "Running", r.done, r.out = <<>>, NEW q, Alike(r, q), q.state = "Completed",
           q.buffer = r.buffer, q.bytes = r.bytes, q.out = r.out, q.done = r.done
    PROVE  /\ Cell(a, p, q, d, i) /\ (Closed(q, i) <=> Closed(r, i))
           /\ Pending(q) = Pending(r) /\ Made(q, d) = Made(r, d)
<1>1. Common(a, p, q) /\ In(a, p) # <<>>
    BY DEF Cell, Common, Alike
<1>2. Closed(q, i) <=> Closed(r, i)
    BY DEF Closed
<1>3. p[1] = "std" => Producer(a, p, q)
    BY DEF Cell, Producer, Alike
<1>4. ASSUME p[1] # "std" PROVE Consumer(a, p, q, d, i)
  <2>1. Consumer(a, p, r, d, i)
    BY <1>4 DEF Cell
  <2> QED BY <1>1, <1>2, <2>1 DEF Consumer, Alike
<1>5. Pending(q) = Pending(r) /\ Made(q, d) = Made(r, d)
    BY DEF Pending, Made, Alike
<1> QED BY <1>1, <1>2, <1>3, <1>4, <1>5 DEF Cell

\* The processor r becomes q when it writes the segment x.
Writes(r, q, x) ==
    /\ r.state = "Running" /\ r.out # <<>> /\ x = r.out[1] /\ Alike(r, q) /\ q.out = Tail(r.out)
    /\ q.state = r.state /\ q.buffer = r.buffer /\ q.bytes = r.bytes /\ q.done = r.done

LEMMA WriteCell ==
    ASSUME NEW a, NEW p, IsName(p), NEW r, ProcShape(r), NEW d, NEW i, Cell(a, p, r, d, i),
           NEW q, NEW x, Writes(r, q, x)
    PROVE  /\ Cell(a, p, q, d, i) /\ (Closed(q, i) <=> Closed(r, i))
           /\ Pending(r) = Cat(x.data, Pending(q)) /\ Made(q, d) = Made(r, d)
           /\ IsSegment(x) /\ IsSeq(Pending(q)) /\ ~r.stop_requested
           /\ x.type = "Data" \/ x = Eof
           /\ x = Eof => Spent(q)
<1> DEFINE t == Tail(r.out)
           b == IF r.kind \in Encoders /\ ~r.done THEN r.buffer ELSE <<>>
<1> USE DEF Writes
<1>1. Common(a, p, r) /\ ~r.stop_requested /\ p # file
  <2>1. Common(a, p, r)
    BY DEF Cell
  <2>2. file[1] # "std"
    BY DEF file
  <2> QED BY <2>1, <2>2 DEF Cell, Common, Consumer
<1>2. AreSegments(r.out) /\ IsSeq(b) /\ r.done \in BOOLEAN
    BY SeqEmpty DEF ProcShape
<1>3. Tidy(t) /\ (x.type = "Data" \/ (x = Eof /\ t = <<>> /\ Ending(r.out)))
      /\ (Ending(t) => Ending(r.out))
    BY <1>1, <1>2, TidyTail DEF Common
<1>4. Bytes(r.out) = x.data \o Bytes(t) /\ AreSegments(t) /\ IsSeq(x.data) /\ IsSeq(Bytes(t)) /\ IsSegment(x)
    BY <1>2, BytesTail, TailOfSegments
<1> HIDE DEF t, b
<1>5. q.out = t /\ q.state = "Running"
    BY DEF t
<1>6. Common(a, p, q)
    BY <1>1, <1>3, <1>5 DEF Common, Alike, Untouched
<1>7. Closed(q, i) <=> Closed(r, i)
    BY DEF Closed
<1>8. p[1] = "std" => Producer(a, p, q)
    BY DEF Cell, Producer, Alike
<1>9. ASSUME p[1] # "std" PROVE Consumer(a, p, q, d, i)
  <2>1. Consumer(a, p, r, d, i)
    BY <1>9 DEF Cell
  <2> QED BY <1>1, <1>5, <1>7, <2>1 DEF Consumer, Alike
<1>10. Cell(a, p, q, d, i)
    BY <1>6, <1>8, <1>9 DEF Cell
<1>11. Pending(r) = Bytes(r.out) \o b /\ Pending(q) = Bytes(t) \o b
    BY <1>5 DEF Pending, Alike, b
<1>12. Pending(r) = Cat(x.data, Pending(q)) /\ IsSeq(Pending(q))
  <2>1. IsSeq(x.data) /\ IsSeq(Bytes(t)) /\ IsSeq(b)
    BY <1>2, <1>4
  <2>2. Bytes(r.out) = Cat(x.data, Bytes(t)) /\ Pending(r) = Cat(Bytes(r.out), b) /\ Pending(q) = Cat(Bytes(t), b)
    BY <1>4, <1>11 DEF Cat
  <2> QED BY <2>1, <2>2, CatFacts
<1>13. Made(q, d) = Made(r, d)
    BY DEF Made, Alike
<1>14. x = Eof => Spent(q)
  <2>1. Eof.type # "Data"
    BY Segment
  <2> QED BY <1>1, <1>3, <1>5, <2>1 DEF Common, Spent
<1>15. x.type = "Data" \/ x = Eof
    BY <1>3
<1> QED BY <1>1, <1>4, <1>7, <1>10, <1>12, <1>13, <1>14, <1>15

\* What a processor has made is the beginning of what it is going to make.
LEMMA MadeBegins ==
    ASSUME NEW a, NEW p, Fits(a, p), NEW r, NEW d, NEW i, AreSegments(i), Cell(a, p, r, d, i)
    PROVE  Begins(Made(r, d), Out(a, p)) /\ IsSeq(Made(r, d))
<1>1. IsName(p) /\ IsSeq(In(a, p)) /\ r.kind = KindOf(p)
    BY DEF Fits, Cell, Common
<1>2. CASE p[1] = "std"
  <2>1. r.kind = "StdStreamSource" /\ r.kind \notin Encoders
    BY <1>1, <1>2, KindFacts DEF Encoders
  <2>2. Made(r, d) = In(a, p) /\ Out(a, p) = In(a, p)
    BY <1>1, <1>2, <2>1 DEF Made, Out, Output, Cell, Producer
  <2> QED BY <1>1, <2>2, BeginsSelf
<1>3. CASE p[1] # "std"
  <2>1. r.kind # "StdStreamSource"
    BY <1>1, <1>3, KindFacts
  <2>2. Consumer(a, p, r, d, i) /\ Common(a, p, r)
    BY <1>3 DEF Cell
  <2>3. IsSeq(d) /\ IsSeq(Bytes(i)) /\ Begins(d \o Bytes(i), In(a, p))
    BY <2>2, BytesOf DEF Consumer
  <2>4. Begins(d, In(a, p))
    BY <2>3, BeginsLonger
  <2>5. CASE r.kind \notin Encoders
    <3>1. Made(r, d) = d /\ Out(a, p) = In(a, p)
      BY <1>1, <2>1, <2>5 DEF Made, Out, Output
    <3> QED BY <2>3, <2>4, <3>1
  <2>6. CASE r.kind \in Encoders /\ r.done
    <3>1. In(a, p) # <<>>
      BY <2>2, <2>6 DEF Common, Untouched
    <3>2. i = <<>> /\ d \o Bytes(i) = In(a, p)
      BY <2>2, <2>6 DEF Consumer, Closed
    <3>3. d = In(a, p)
      BY <2>3, <3>2, BytesNone, SeqEmpty
    <3>4. Made(r, d) = Append(Encoded(r.kind, d), EndMark(r.kind)) /\ Out(a, p) = Made(r, d)
      BY <1>1, <2>1, <2>6, <3>1, <3>3 DEF Made, Out, Output
    <3>5. IsSeq(Append(Encoded(r.kind, d), EndMark(r.kind)))
      BY <2>3, EncodedSeq, SeqAppend
    <3>6. IsSeq(Made(r, d))
      BY <3>4, <3>5
    <3> QED BY <3>4, <3>6, BeginsSelf
  <2>7. CASE r.kind \in Encoders /\ ~r.done
    <3> DEFINE e == Encoded(r.kind, d)
               f == Encoded(r.kind, In(a, p))
               m == EndMark(r.kind)
    <3>1. Made(r, d) = e
      BY <2>1, <2>7 DEF Made
    <3>2. IsSeq(e) /\ IsSeq(f)
      BY <1>1, <2>3, EncodedSeq
    <3>3. Begins(e, f)
      <4>1. PICK x : IsSeq(x) /\ In(a, p) = d \o x
        BY <2>4 DEF Begins
      <4>2. Encoded(r.kind, d \o x) = e \o Encoded(r.kind, x)
        BY <2>3, <4>1, EncodedConcat
      <4>3. IsSeq(Encoded(r.kind, x))
        BY <4>1, EncodedSeq
      <4> QED BY <4>1, <4>2, <4>3 DEF Begins
    <3>4. Append(f, m) = f \o <<m>> /\ IsSeq(<<m>>)
      BY <3>2, SeqAppend, SeqSingle
    <3>5. Out(a, p) = IF In(a, p) # <<>> THEN Append(f, m) ELSE <<>>
      BY <1>1, <2>7 DEF Out, Output
    <3>6. In(a, p) = <<>> => f = <<>>
      BY EncodedNone
    <3> HIDE DEF e, f, m
    <3>7. Begins(f, Append(f, m))
      BY <3>2, <3>4, BeginsConcat
    <3>8. Begins(e, Append(f, m))
      BY <3>2, <3>3, <3>7, BeginsTrans
    <3> QED BY <3>1, <3>2, <3>3, <3>5, <3>6, <3>8
  <2> QED BY <2>5, <2>6, <2>7
<1> QED BY <1>2, <1>3

\* A segment is put into the queue of a processor.
LEMMA GetCell ==
    ASSUME NEW a, NEW p, IsName(p), p[1] # "std", NEW r, NEW d, NEW i, AreSegments(i),
           Cell(a, p, r, d, i), ~Closed(r, i), r.source_queue # NoQueue,
           NEW x, IsSegment(x), x.type = "Data" \/ x = Eof,
           r.state = "Uninitialized" => x.data = <<>>,
           Begins(Cat(Cat(d, Bytes(i)), x.data), In(a, p)),
           x = Eof => Cat(d, Bytes(i)) = In(a, p)
    PROVE  /\ Cell(a, p, r, d, Append(i, x))
           /\ Cat(d, Bytes(Append(i, x))) = Cat(Cat(d, Bytes(i)), x.data)
           /\ Closed(r, Append(i, x)) <=> x = Eof
<1> DEFINE j == Append(i, x)
<1>1. Consumer(a, p, r, d, i) /\ Common(a, p, r)
    BY DEF Cell
<1>2. IsSeq(d) /\ IsSeq(Bytes(i)) /\ IsSeq(x.data) /\ Bytes(j) = Bytes(i) \o x.data
    BY <1>1, BytesOf, SegmentFacts, BytesAppend DEF Consumer
<1>3. Cat(d, Bytes(j)) = Cat(Cat(d, Bytes(i)), x.data)
  <2>1. IsSeq(d) /\ IsSeq(Bytes(i)) /\ IsSeq(x.data)
    BY <1>2
  <2> HIDE DEF j
  <2>2. Bytes(j) = Cat(Bytes(i), x.data)
    BY <1>2 DEF Cat
  <2> QED BY <2>1, <2>2, CatFacts
<1>4. Tidy(j) /\ (Ending(j) <=> x = Eof)
    BY <1>1, TidyAppend DEF Consumer, Closed
<1>5. ~r.done
    BY DEF Closed
<1>6. x = Eof => Cat(d, Bytes(j)) = In(a, p)
  <2>1. x = Eof => x.data = <<>>
    BY Segment
  <2>2. Cat(Cat(d, Bytes(i)), <<>>) = Cat(d, Bytes(i))
    BY <1>2, SeqConcat, SeqEmpty DEF Cat
  <2> QED BY <1>3, <2>1, <2>2
<1>7. r.state = "Uninitialized" => Bytes(j) = <<>>
  <2>1. r.state = "Uninitialized" => Bytes(i) = <<>>
    BY <1>1 DEF Consumer
  <2>2. <<>> \o <<>> = <<>>
    BY SeqEmpty
  <2> QED BY <1>2, <2>1, <2>2
<1> HIDE DEF j
<1>8. Closed(r, j) <=> x = Eof
    BY <1>4, <1>5 DEF Closed
<1>9. Consumer(a, p, r, d, j)
  <2>1. Begins(d \o Bytes(j), In(a, p)) /\ (Closed(r, j) => d \o Bytes(j) = In(a, p))
    BY <1>3, <1>6, <1>8 DEF Cat
  <2> QED BY <1>1, <1>4, <1>5, <1>7, <2>1 DEF Consumer
<1>10. Cell(a, p, r, d, j)
    BY <1>1, <1>9 DEF Cell
<1> QED BY <1>3, <1>8, <1>10 DEF j

\* A processor that has worked, or had nothing to do, and is joined.
LEMMA Drained ==
    ASSUME NEW a, NEW p, Fits(a, p), p[1] # "std", NEW r, NEW d, NEW i, AreSegments(i), Cell(a, p, r, d, i),
           r.state \in {"Uninitialized", "Completed"}, In(a, p) # <<>> => r.state = "Completed"
    PROVE  /\ In(a, p) # <<>> => i = <<>>
           /\ Pending(r) = <<>> /\ Made(r, d) = Out(a, p) /\ d = In(a, p)
           /\ r.kind \in Hashes => r.buffer = In(a, p)
           /\ r.kind = "ByteCounterSink" => r.bytes = Len(In(a, p))
<1>1. IsName(p) /\ r.kind = KindOf(p) /\ Common(a, p, r) /\ Consumer(a, p, r, d, i)
    BY DEF Fits, Cell, Common
<1>2. r.kind # "StdStreamSource"
    BY <1>1, KindFacts
<1>3. IsSeq(d) /\ IsSeq(Bytes(i)) /\ Begins(d \o Bytes(i), In(a, p))
    BY <1>1, BytesOf DEF Consumer
<1>4. <<>> \o <<>> = <<>> /\ d \o <<>> = d
    BY <1>3, SeqEmpty
<1>5. CASE In(a, p) # <<>>
  <2>1. r.done /\ r.out = <<>> /\ i = <<>>
    BY <1>1, <1>5 DEF Consumer
  <2>2. d = In(a, p)
    BY <1>1, <1>3, <1>4, <2>1, BytesNone DEF Consumer, Closed
  <2>3. Pending(r) = <<>>
    BY <1>2, <1>4, <2>1, BytesNone DEF Pending
  <2>4. Made(r, d) = Out(a, p)
    BY <1>1, <1>2, <1>5, <2>1, <2>2 DEF Made, Out, Output
  <2> QED BY <1>1, <2>1, <2>2, <2>3, <2>4 DEF Consumer
<1>6. CASE In(a, p) = <<>>
  <2>1. Untouched(r)
    BY <1>1, <1>6 DEF Common
  <2>2. Pending(r) = <<>>
    BY <1>2, <1>4, <2>1, BytesNone DEF Pending, Untouched
  <2>3. d = <<>>
    <3>1. Begins(d, <<>>)
      BY <1>3, <1>6, BeginsLonger
    <3> QED BY <1>3, <3>1, BeginsNothing
  <2>4. Made(r, d) = Out(a, p)
    BY <1>1, <1>2, <1>6, <2>1, <2>3, EncodedNone DEF Made, Out, Output, Untouched
  <2> QED BY <1>1, <1>6, <2>2, <2>3, <2>4 DEF Consumer
<1> QED BY <1>5, <1>6

-----------------------------------------------------------------------------
\* A step of a worker.

\* What other threads see of a step of processor p.
Worked(p) ==
    /\ live' = live /\ outcome' = outcome /\ taken' = taken
    /\ DOMAIN proc' = DOMAIN proc /\ \A x \in DOMAIN proc : x # p => proc'[x] = proc[x]
    /\ Alike(proc[p], proc'[p])
    /\ proc[p].state \in {"Starting", "Running"} /\ proc'[p].state \in {"Running", "Completed"}
    /\ DOMAIN queue' = DOMAIN queue
    /\ \A q \in DOMAIN queue : queue'[q].putback = queue[q].putback /\ queue'[q].source = queue[q].source
    /\ \A x \in DOMAIN results : x \in DOMAIN results' /\ (x # p => results'[x] = results[x])
    /\ proc[p].kind = "ByteCounterSink" => p \in DOMAIN results' /\ results'[p] = proc'[p].bytes
    /\ DOMAIN contents' = DOMAIN contents /\ (p # file => contents' = contents)

LEMMA LiveFacts ==
    ASSUME PipelineOK, NEW p \in Ran(live)
    PROVE  /\ p \in DOMAIN proc /\ ProcShape(proc[p]) /\ live # <<>> /\ Last(live) \in Ran(live)
           /\ DOMAIN proc = Ran(live) /\ IsSeq(live) /\ AreSegments(Items(Feed(p)))
           /\ \A q : AreSegments(Items(q))
<1>1. DOMAIN proc = Ran(live) /\ IsSeq(live)
    BY DEF PipelineOK, LiveOK
<1>2. p \in DOMAIN proc /\ ProcShape(proc[p])
    BY <1>1 DEF PipelineOK, ProcsOK
<1>3. Len(live) \in Nat /\ (live # <<>> <=> Len(live) > 0)
    BY <1>1, SeqFacts
<1>4. Len(live) > 0
    BY <1>3 DEF Ran
<1>5. Last(live) \in Ran(live)
  <2>1. Len(live) \in 1 .. Len(live)
    BY <1>3, <1>4
  <2> QED BY <2>1 DEF Last, Ran
<1>6. ASSUME NEW q PROVE AreSegments(Items(q))
    BY NoSegments DEF Items, PipelineOK, QueuesOK, QueueShape
<1> QED BY <1>1, <1>2, <1>3, <1>4, <1>5, <1>6

\* No thread works on a file that nothing is connected to yet.
LEMMA OpenedFile ==
    ASSUME NEW a, NEW s, NEW rd, Flow(a, s, rd), PipelineOK, NEW p \in Ran(live), Worked(p),
           s.phase = "opened"
    PROVE  IsSink(p)
<1>1. LiveShape(a, s) /\ TopOK(a, s, rd)
    BY DEF Flow
<1>2. PICK l : l = Last(live)
    OBVIOUS
<1>3. live # <<>>
    BY LiveFacts
<1>4. Phase(a, s, l, proc[l], Items(l))
    BY <1>1, <1>2, <1>3 DEF TopOK
<1>5. l[1] = "std" /\ proc[l].state = "Uninitialized"
    BY <1>4 DEF Phase
<1>6. p # l
    BY <1>5 DEF Worked
<1>7. IsSink(p) \/ Reader(a, p) = l
    BY <1>1, <1>2, <1>6 DEF LiveShape
<1>8. IsName(p)
    BY <1>1 DEF LiveShape, Fits
<1>9. p # file => Reader(a, p)[1] # "std"
    BY <1>8, NameFacts
<1>10. IsSink(file)
    BY DEF IsSink, file
<1> QED BY <1>5, <1>7, <1>9, <1>10

LEMMA FlowAgain ==
    ASSUME NEW a, NEW s, NEW rd, Flow(a, s, rd), PipelineOK, NEW p \in Ran(live), Worked(p), NEW d,
           Cells(a, With(rd, p, d))', Links(a, With(rd, p, d))',
           p[1] = "std" /\ Reader(a, p) \notin Ran(live) => Idle(proc'[p]),
           \A x \in Ran(live) : IsSink(x) => (Closed(proc'[x], Items(x)') <=> Closed(proc[x], Items(x))),
           s.phase = "opened" => \A x \in Ran(live) : x[1] = "std" => Items(x)' = Items(x),
           \A x \in Ran(live) : IsSink(x) /\ (\A w \in Ran(live) : proc[w].sink_queue # x) =>
                With(rd, p, d)[x] \o Bytes(Items(x)') = rd[x] \o Bytes(Items(x)),
           file \in DOMAIN contents => IsSeq(contents'[file]),
           Whole /\ p = file => contents'[file] = d
    PROVE  Flow(a, s, With(rd, p, d))'
<1> DEFINE e == With(rd, p, d)
<1>1. /\ LiveShape(a, s) /\ Cells(a, rd) /\ TopOK(a, s, rd) /\ ResultsOK(a, s)
      /\ ContentsOK(a, s, rd) /\ OutcomeOK(s)
    BY DEF Flow
<1>2. /\ p \in DOMAIN proc /\ DOMAIN proc = Ran(live) /\ live # <<>> /\ Last(live) \in Ran(live)
    BY LiveFacts
<1>3. /\ live' = live /\ outcome' = outcome /\ taken' = taken
      /\ DOMAIN proc' = DOMAIN proc /\ (\A x \in DOMAIN proc : x # p => proc'[x] = proc[x])
      /\ DOMAIN queue' = DOMAIN queue
      /\ Alike(proc[p], proc'[p])
    BY DEF Worked
<1>4. \A x \in Ran(live) : proc'[x].sink_queue = proc[x].sink_queue
    BY <1>2, <1>3 DEF Alike
<1>5. \A x \in Ran(live) : x # p => e[x] = rd[x] /\ x \in DOMAIN rd
    BY <1>1 DEF With, Cells
<1>6. e[p] = d
    BY DEF With
<1>7. LiveShape(a, s)'
  <2>1. live' = s.stack /\ Ran(live)' = Ran(live)
    BY <1>1, <1>3 DEF LiveShape
  <2>2. \A q \in DOMAIN queue' : queue'[q].putback = <<>>
    BY <1>1 DEF LiveShape, Worked
  <2>3. \A q \in DOMAIN queue' : queue'[q].source => \E w \in Ran(live) : proc'[w].sink_queue = q
    BY <1>1, <1>4 DEF LiveShape, Worked
  <2>4. \A x \in Ran(live) : x[1] = "std" /\ Reader(a, x) \notin Ran(live) => Idle(proc'[x])
    BY <1>1, <1>2, <1>3 DEF LiveShape
  <2> QED BY <1>1, <1>3, <2>1, <2>2, <2>3, <2>4 DEF LiveShape
<1>8. TopOK(a, s, e)'
  <2>1. s.top \in Ran(live) /\ IsSink(s.top)
    BY <1>1, <1>2 DEF TopOK
  <2>2. (\A w \in Ran(live) : proc'[w].sink_queue # s.top) => e[s.top] \o Bytes(Items(s.top)') = s.sent
    BY <1>1, <1>2, <1>4, <2>1 DEF TopOK
  <2>3. \A x \in Ran(live) : IsSink(x) /\ Closed(proc'[x], Items(x)') =>
                x = Last(live) /\ s.phase \in {"closed", "joined"} /\ Free(a, s, x)
    BY <1>1, <1>2 DEF TopOK
  <2>4. PICK l : l = Last(live)
    OBVIOUS
  <2>5. Phase(a, s, l, proc[l], Items(l)) /\ l \in Ran(live)
    BY <1>1, <1>2, <2>4 DEF TopOK
  <2>6. s.phase = "closed" => IsSink(l) /\ Closed(proc'[l], Items(l)')
    BY <2>5 DEF Phase
  <2>7. s.phase = "opened" => Items(l)' = <<>>
    <3>1. s.phase = "opened" => l[1] = "std" /\ Items(l) = <<>>
      BY <2>5 DEF Phase
    <3> QED BY <2>5, <3>1
  <2>8. Phase(a, s, l, proc'[l], Items(l)')
    <3> DEFINE r == proc[l]
               q == proc'[l]
               i == Items(l)'
    <3>1. CASE l # p
      <4>1. q = r
        BY <1>2, <1>3, <2>5, <3>1
      <4> HIDE DEF q, r, i
      <4> QED BY <2>5, <2>6, <2>7, <4>1 DEF Phase, q, r, i
    <3>2. CASE l = p
      <4>1. r.state \in {"Starting", "Running"} /\ q.state \in {"Running", "Completed"}
        BY <3>2 DEF Worked
      <4>2. ~ (s.phase = "joined" /\ p[1] # "std") /\ s.phase # "opened"
        BY <2>5, <3>2, <4>1 DEF Phase
      <4>3. q.sink_queue = r.sink_queue /\ q.source_queue = r.source_queue
        BY <1>3, <3>2 DEF Alike
      <4> HIDE DEF q, r, i
      <4>4. q.state # "Uninitialized"
        BY <4>1
      <4> QED BY <2>5, <2>6, <3>2, <4>2, <4>3, <4>4 DEF Phase, q, r, i
    <3> QED BY <3>1, <3>2
  <2> HIDE DEF e
  <2>9. Last(live)' = l /\ Ran(live)' = Ran(live)
    BY <1>3, <2>4
  <2> QED BY <1>3, <2>1, <2>2, <2>3, <2>4, <2>8, <2>9 DEF TopOK
<1>9. ResultsOK(a, s)'
  <2>1. \A x \in Ran(live) : KindOf(x) = "ByteCounterSink" => x \in DOMAIN results' /\ results'[x] = proc'[x].bytes
    <3>1. ASSUME NEW x \in Ran(live), KindOf(x) = "ByteCounterSink"
          PROVE  x \in DOMAIN results' /\ results'[x] = proc'[x].bytes
      <4>1. x \in DOMAIN results /\ results[x] = proc[x].bytes
        BY <1>1, <3>1 DEF ResultsOK
      <4>2. proc[x].kind = KindOf(x)
        BY <1>1 DEF Cells, Cell, Common
      <4> QED BY <1>2, <1>3, <3>1, <4>1, <4>2 DEF Worked
    <3> QED BY <3>1
  <2>2. s.left \notin Ran(live)
    BY <1>1 DEF ResultsOK
  <2>3. s.left # None /\ HasResult(s.left) => s.left \in DOMAIN results' /\ results'[s.left] = Result(a, s.left)
    BY <1>1, <2>2 DEF ResultsOK, Worked
  <2>4. /\ \A x \in DOMAIN taken : Takeable(x) /\ taken[x] = Result(a, x)
        /\ s.summed => overall \in DOMAIN taken
    BY <1>1 DEF ResultsOK
  <2> QED BY <1>3, <2>1, <2>2, <2>3, <2>4 DEF ResultsOK
<1>10. ContentsOK(a, s, e)'
  <2>1. DOMAIN contents' = DOMAIN contents /\ (p # file => contents' = contents)
    BY DEF Worked
  <2>2. Whole /\ file \in Ran(live) => contents'[file] = e[file]
    <3>1. CASE p = file
      BY <1>6, <3>1
    <3>2. CASE p # file
      BY <1>1, <1>5, <2>1, <3>2 DEF ContentsOK
    <3> QED BY <3>1, <3>2
  <2>3. s.left = file => p # file
    BY <1>1 DEF ResultsOK
  <2> HIDE DEF e
  <2> QED BY <1>1, <1>3, <2>1, <2>2, <2>3 DEF ContentsOK, Whole
<1>11. OutcomeOK(s)'
    BY <1>1, <1>3 DEF OutcomeOK
<1> HIDE DEF e
<1> QED BY <1>7, <1>8, <1>9, <1>10, <1>11 DEF Flow, e

LEMMA PendingSeq ==
    ASSUME NEW r, ProcShape(r)
    PROVE  IsSeq(Pending(r))
<1>1. IsSeq(Bytes(r.out)) /\ IsSeq(r.buffer) /\ IsSeq(<<>>)
    BY BytesOf, SeqEmpty DEF ProcShape
<1>2. IsSeq(Bytes(r.out) \o r.buffer) /\ IsSeq(Bytes(r.out) \o <<>>)
    BY <1>1, SeqConcat
<1> QED BY <1>2 DEF Pending, ProcShape

\* A processor of the writer, and what it is connected to.
LEMMA CellFacts ==
    ASSUME NEW a, NEW s, NEW rd, Flow(a, s, rd), PipelineOK, NEW p \in Ran(live)
    PROVE  /\ Fits(a, p) /\ IsName(p) /\ IsSeq(In(a, p)) /\ IsSeq(Before(a, p)) /\ p \in DOMAIN rd
           /\ Cell(a, p, proc[p], rd[p], Items(Feed(p)))
           /\ proc[p].kind = KindOf(p)
           /\ IsSeq(Pending(proc[p])) /\ IsSeq(Made(proc[p], rd[p]))
           /\ p[1] # "std" => IsSeq(rd[p]) /\ IsSeq(Bytes(Items(Feed(p))))
                              /\ IsSeq(rd[p] \o Bytes(Items(Feed(p))))
           /\ p # file /\ p[1] # "std" => Reader(a, p) \in Ran(live)
           /\ Reader(a, p) \in Ran(live) =>
                Link(a, p, proc[p], rd[p], proc[Reader(a, p)], rd[Reader(a, p)],
                     Items(Feed(Reader(a, p))))
<1>1. LiveShape(a, s) /\ Cells(a, rd) /\ Links(a, rd)
    BY DEF Flow
<1>2. Fits(a, p) /\ IsName(p) /\ IsSeq(In(a, p)) /\ IsSeq(Before(a, p))
    BY <1>1 DEF LiveShape, Fits
<1>3. p \in DOMAIN rd /\ Cell(a, p, proc[p], rd[p], Items(Feed(p)))
    BY <1>1 DEF Cells
<1>4. IsSeq(Pending(proc[p])) /\ AreSegments(Items(Feed(p)))
    BY LiveFacts, PendingSeq
<1>5. IsSeq(Made(proc[p], rd[p]))
    BY <1>2, <1>3, <1>4, MadeBegins
<1>6. ASSUME p[1] # "std"
      PROVE  /\ IsSeq(rd[p]) /\ IsSeq(Bytes(Items(Feed(p))))
             /\ IsSeq(rd[p] \o Bytes(Items(Feed(p))))
  <2>1. IsSeq(rd[p]) /\ IsSeq(Bytes(Items(Feed(p))))
    BY <1>3, <1>4, <1>6, BytesOf DEF Cell, Consumer
  <2> QED BY <2>1, SeqConcat
<1>7. p # file /\ p[1] # "std" => Reader(a, p) \in Ran(live)
    BY <1>1 DEF LiveShape
<1>8. proc[p].kind = KindOf(p)
    BY <1>3 DEF Cell, Common
<1> QED BY <1>1, <1>2, <1>3, <1>4, <1>5, <1>6, <1>7, <1>8 DEF Links

\* Two processors do not read from the same queue.
LEMMA OtherFeed ==
    ASSUME NEW p, NEW q, IsName(p), IsName(q), q[1] # "std", p # q
    PROVE  p[1] = "std" \/ Feed(q) # Feed(p)
BY FeedInjective

LEMMA WorkerReads ==
    ASSUME NEW a, NEW s, NEW rd, Flow(a, s, rd), PipelineOK, NEW p \in Ran(live), Worked(p), NEW d,
           Cell(a, p, proc'[p], d, Items(Feed(p))'),
           \A q : q # Feed(p) \/ p[1] = "std" => Items(q)' = Items(q),
           p[1] # "std" => /\ d \o Bytes(Items(Feed(p))') = rd[p] \o Bytes(Items(Feed(p)))
                           /\ Closed(proc'[p], Items(Feed(p))') <=> Closed(proc[p], Items(Feed(p))),
           p # file => Grown(Pending(proc[p]), Pending(proc'[p]), Made(proc[p], rd[p]), Made(proc'[p], d)),
           p[1] = "std" /\ proc[p].done /\ proc[p].out = <<>> => proc'[p].done /\ proc'[p].out = <<>>,
           p[1] = "std" /\ Reader(a, p) \notin Ran(live) => Idle(proc'[p]),
           file \in DOMAIN contents => IsSeq(contents'[file]),
           Whole /\ p = file => contents'[file] = d
    PROVE  Flow(a, s, With(rd, p, d))'
<1> DEFINE e == With(rd, p, d)
<1>1. e[p] = d /\ p \in DOMAIN e /\ \A x \in Ran(live) : x \in DOMAIN e /\ (x # p => e[x] = rd[x])
    BY CellFacts DEF With
<1>2. live' = live /\ \A x \in Ran(live) : x # p => proc'[x] = proc[x]
    BY LiveFacts DEF Worked
<1>3. \A x \in Ran(live) : IsName(x)
    BY CellFacts
<1>4. \A x \in Ran(live) : x # p /\ x[1] # "std" => Items(Feed(x))' = Items(Feed(x))
    BY <1>3, OtherFeed
<1> HIDE DEF e
<1>5. Cells(a, e)'
  <2>1. ASSUME NEW x \in Ran(live) PROVE x \in DOMAIN e /\ Cell(a, x, proc'[x], e[x], Items(Feed(x))')
    <3>1. CASE x = p
      BY <1>1, <3>1
    <3>2. CASE x # p
      <4>1. Cell(a, x, proc[x], rd[x], Items(Feed(x)))
        BY CellFacts
      <4>2. Cell(a, x, proc[x], rd[x], Items(Feed(x))')
        BY <1>4, <3>2, <4>1 DEF Cell
      <4> QED BY <1>1, <1>2, <3>2, <4>2
    <3> QED BY <3>1, <3>2
  <2> QED BY <1>2, <2>1 DEF Cells
<1>6. Links(a, e)'
  <2>1. ASSUME NEW w \in Ran(live), Reader(a, w) \in Ran(live)
        PROVE  Link(a, w, proc'[w], e[w], proc'[Reader(a, w)], e[Reader(a, w)],
                    Items(Feed(Reader(a, w)))')
    <3> DEFINE v == Reader(a, w)
    <3>1. Link(a, w, proc[w], rd[w], proc[v], rd[v], Items(Feed(v)))
      BY <2>1, CellFacts
    <3>2. w # file
      BY <1>3, <2>1, NameFacts DEF IsName, None, Numbered, file, overall
    <3>3. v[1] # "std" /\ v # w
      BY <1>3, <3>2, NameFacts
    <3>4. CASE w # p /\ v # p
      BY <1>1, <1>2, <1>4, <2>1, <3>1, <3>3, <3>4
    <3>5. CASE v = p
      <4>1. proc'[p].source_queue = proc[p].source_queue /\ proc'[p].state # "Uninitialized"
        BY DEF Worked, Alike
      <4>2. /\ d \o Bytes(Items(Feed(p))') = rd[p] \o Bytes(Items(Feed(p)))
            /\ Closed(proc'[p], Items(Feed(p))') <=> Closed(proc[p], Items(Feed(p)))
        BY <3>3, <3>5
      <4>3. Link(a, w, proc[w], rd[w], proc'[p], d, Items(Feed(p))')
        <5> HIDE DEF v
        <5> QED BY <3>1, <3>5, <4>1, <4>2 DEF Link
      <4> QED BY <1>1, <1>2, <3>3, <3>5, <4>3
    <3>6. CASE w = p
      <4>1. proc'[p].sink_queue = proc[p].sink_queue /\ proc[p].state \in {"Starting", "Running"}
        BY DEF Worked, Alike
      <4> DEFINE i == Items(Feed(v))
                 r == proc[p]
                 q == proc'[p]
      <4>2. /\ Link(a, p, r, rd[p], proc[v], rd[v], i)
            /\ IsSeq(rd[v] \o Bytes(i)) /\ IsSeq(Before(a, p)) /\ IsSeq(Pending(r)) /\ IsSeq(Made(r, rd[p]))
        BY <2>1, <3>1, <3>3, <3>6, CellFacts
      <4>3. Grown(Pending(r), Pending(q), Made(r, rd[p]), Made(q, d))
        BY <3>2, <3>6
      <4>4. p[1] = "std" /\ r.done /\ r.out = <<>> => q.done /\ q.out = <<>>
        OBVIOUS
      <4>5. r.sink_queue # NoQueue =>
                (rd[v] \o Bytes(i)) \o Pending(q) = Before(a, p) \o Made(q, d)
        <5> HIDE DEF v, i, r, q
        <5>1. SUFFICES ASSUME r.sink_queue # NoQueue
                       PROVE  (rd[v] \o Bytes(i)) \o Pending(q) = Before(a, p) \o Made(q, d)
          OBVIOUS
        <5>2. PICK x : IsSeq(x) /\ Pending(q) = Pending(r) \o x /\ Made(q, d) = Made(r, rd[p]) \o x
          BY <4>3 DEF Grown
        <5>3. (rd[v] \o Bytes(i)) \o Pending(r) = Before(a, p) \o Made(r, rd[p])
          BY <4>2, <5>1 DEF Link
        <5> DEFINE c == rd[v] \o Bytes(i)
                   m == Made(r, rd[p])
        <5>4. IsSeq(c) /\ IsSeq(Before(a, p)) /\ IsSeq(Pending(r)) /\ IsSeq(m)
          BY <4>2
        <5> HIDE DEF c, m
        <5>5. /\ Cat(c, Pending(r)) = Cat(Before(a, p), m)
              /\ Pending(q) = Cat(Pending(r), x) /\ Made(q, d) = Cat(m, x)
          BY <5>2, <5>3 DEF Cat, c, m
        <5>6. Cat(c, Pending(q)) = Cat(Before(a, p), Made(q, d))
          BY <5>2, <5>4, <5>5, CatFacts
        <5> QED BY <5>6 DEF Cat, c
      <4>6. Link(a, p, q, d, proc[v], rd[v], i)
        <5> HIDE DEF v, i
        <5> QED BY <4>1, <4>2, <4>4, <4>5 DEF Link
      <4>7. Items(Feed(v))' = Items(Feed(v))
        BY <1>4, <2>1, <3>3, <3>6
      <4> QED BY <1>1, <1>2, <2>1, <3>3, <3>6, <4>6, <4>7
    <3> QED BY <3>4, <3>5, <3>6
  <2> QED BY <1>2, <2>1 DEF Links
<1>7. \A x \in Ran(live) : IsSink(x) => (Closed(proc'[x], Items(x)') <=> Closed(proc[x], Items(x)))
  <2>1. ASSUME NEW x \in Ran(live), IsSink(x)
        PROVE  Closed(proc'[x], Items(x)') <=> Closed(proc[x], Items(x))
    <3>1. Feed(x) = x /\ x[1] # "std"
      BY <1>3, <2>1, NameFacts DEF IsSink
    <3> QED BY <1>2, <1>4, <3>1
  <2> QED BY <2>1
<1>8. \A x \in Ran(live) : IsSink(x) => e[x] \o Bytes(Items(x)') = rd[x] \o Bytes(Items(x))
  <2>1. ASSUME NEW x \in Ran(live), IsSink(x)
        PROVE  e[x] \o Bytes(Items(x)') = rd[x] \o Bytes(Items(x))
    <3>1. Feed(x) = x /\ x[1] # "std"
      BY <1>3, <2>1, NameFacts DEF IsSink
    <3> QED BY <1>1, <1>4, <3>1
  <2> QED BY <2>1
<1>9. s.phase = "opened" => \A x \in Ran(live) : x[1] = "std" => Items(x)' = Items(x)
  <2>1. SUFFICES ASSUME s.phase = "opened", NEW x \in Ran(live), x[1] = "std"
                 PROVE  Items(x)' = Items(x)
    OBVIOUS
  <2>2. IsSink(p) /\ Feed(p) = p
    BY <1>3, <2>1, OpenedFile, NameFacts
  <2>3. x # Feed(p)
    BY <2>1, <2>2 DEF IsSink
  <2> QED BY <2>3
<1> QED BY <1>5, <1>6, <1>7, <1>8, <1>9, FlowAgain DEF e

\* A segment that is not passed on.
LEMMA WorkerDrops ==
    ASSUME NEW a, NEW s, NEW rd, Flow(a, s, rd), PipelineOK, NEW p \in Ran(live), Worked(p),
           Writes(proc[p], proc'[p], Eof), p[1] # "std", queue' = queue, contents' = contents
    PROVE  Flow(a, s, With(rd, p, rd[p]))'
<1> DEFINE r == proc[p]
           q == proc'[p]
           d == rd[p]
           i == Items(Feed(p))
<1>1. IsName(p) /\ Cell(a, p, r, d, i) /\ ProcShape(r) /\ IsSeq(Pending(r)) /\ IsSeq(Made(r, d))
    BY CellFacts, LiveFacts
<1>2. Writes(r, q, Eof) /\ Eof.data = <<>>
    BY Segment
<1>3. /\ Cell(a, p, q, d, i) /\ (Closed(q, i) <=> Closed(r, i))
      /\ Pending(r) = Cat(<<>>, Pending(q)) /\ Made(q, d) = Made(r, d) /\ IsSeq(Pending(q))
  <2> HIDE DEF r, q, d, i
  <2>1. PICK x : x = Eof
    OBVIOUS
  <2>2. Writes(r, q, x)
    BY <1>2, <2>1
  <2>3. /\ Cell(a, p, q, d, i) /\ (Closed(q, i) <=> Closed(r, i))
        /\ Pending(r) = Cat(x.data, Pending(q)) /\ Made(q, d) = Made(r, d) /\ IsSeq(Pending(q))
    BY <1>1, <2>2, WriteCell
  <2>4. x.data = <<>>
    BY <2>1, Segment
  <2> QED BY <2>3, <2>4
<1>4. Grown(Pending(r), Pending(q), Made(r, d), Made(q, d))
  <2> HIDE DEF r, q, d
  <2>1. IsSeq(<<>>) /\ Cat(<<>>, Pending(q)) = Pending(q) /\ Pending(q) \o <<>> = Pending(q)
        /\ Made(r, d) \o <<>> = Made(r, d)
    BY <1>1, <1>3, SeqEmpty DEF Cat
  <2> QED BY <1>3, <2>1 DEF Grown
<1>5. \A x : Items(x)' = Items(x)
    BY DEF Items
<1>6. file \in DOMAIN contents => IsSeq(contents'[file])
    BY DEF Flow, ContentsOK
<1>7. Whole /\ p = file => contents'[file] = d
    BY DEF Flow, ContentsOK
<1> HIDE DEF q, d, i
<1> QED BY <1>3, <1>4, <1>5, <1>6, <1>7, WorkerReads DEF r, q, d, i

\* A segment that gets into the queue of the next processor.
LEMMA WorkerWrites ==
    ASSUME NEW a, NEW s, NEW rd, Flow(a, s, rd), PipelineOK, NEW p \in Ran(live), Worked(p),
           NEW x, Writes(proc[p], proc'[p], x), p[1] = "std" \/ x # Eof,
           NEW k, k # NoQueue, k = proc[p].sink_queue, \A q : q # k => Items(q)' = Items(q),
           Items(k)' = Append(Items(k), x),
           contents' = contents
    PROVE  Flow(a, s, With(rd, p, rd[p]))'
<1> DEFINE r == proc[p]
           q == proc'[p]
           v == Reader(a, p)
           e == With(rd, p, rd[p])
           i == Items(Feed(v))
           j == Append(i, x)
<1>1. /\ IsName(p) /\ Fits(a, p) /\ Cell(a, p, r, rd[p], Items(Feed(p))) /\ ProcShape(r)
      /\ AreSegments(Items(Feed(p))) /\ AreSegments(i)
    BY CellFacts, LiveFacts
<1>2. r.sink_queue = Target(a, p) /\ p # file
  <2>1. r.sink_queue \in {NoQueue, Target(a, p)}
    BY <1>1 DEF Cell, Common
  <2>2. file[1] # "std"
    BY DEF file
  <2> QED BY <1>1, <2>1, <2>2 DEF Cell, Consumer
<1>3. Alike(r, q) /\ Writes(r, q, x)
    BY DEF Worked
<1>4. /\ Cell(a, p, q, rd[p], Items(Feed(p))) /\ (Closed(q, Items(Feed(p))) <=> Closed(r, Items(Feed(p))))
      /\ Pending(r) = Cat(x.data, Pending(q)) /\ Made(q, rd[p]) = Made(r, rd[p]) /\ IsSeq(Pending(q))
      /\ IsSegment(x) /\ (x.type = "Data" \/ x = Eof) /\ (x = Eof => Spent(q))
  <2> DEFINE d == rd[p]
             m == Items(Feed(p))
  <2>2. Cell(a, p, r, d, m)
    BY <1>1
  <2> HIDE DEF d, m, r, q
  <2>3. /\ Cell(a, p, q, d, m) /\ (Closed(q, m) <=> Closed(r, m))
        /\ Pending(r) = Cat(x.data, Pending(q)) /\ Made(q, d) = Made(r, d)
        /\ IsSegment(x) /\ IsSeq(Pending(q)) /\ (x.type = "Data" \/ x = Eof)
        /\ (x = Eof => Spent(q))
    BY <1>1, <1>3, <2>2, WriteCell
  <2> QED BY <2>3 DEF d, m
<1>5. v \in Ran(live)
  <2>1. p[1] # "std" => v \in Ran(live)
    BY <1>2, CellFacts
  <2>2. p[1] = "std" /\ v \notin Ran(live) => Idle(r)
    BY DEF Flow, LiveShape
  <2> QED BY <1>3, <2>1, <2>2 DEF Idle, Writes
<1>6. IsName(v) /\ v[1] # "std" /\ v # p /\ Feed(v) = Target(a, p)
    BY <1>1, <1>2, NameFacts DEF Target
<1>7. /\ Cell(a, v, proc[v], rd[v], i) /\ Link(a, p, r, rd[p], proc[v], rd[v], i)
      /\ IsSeq(rd[v] \o Bytes(i)) /\ IsSeq(Before(a, p)) /\ IsSeq(Made(r, rd[p]))
      /\ v \in DOMAIN rd
    BY <1>5, <1>6, CellFacts
<1>8. /\ proc[v].source_queue = Target(a, p) /\ Target(a, p) # NoQueue
      /\ (rd[v] \o Bytes(i)) \o Pending(r) = Before(a, p) \o Made(r, rd[p])
      /\ proc[v].state # "Uninitialized"
      /\ p[1] = "std" /\ Closed(proc[v], i) => r.done /\ r.out = <<>>
    BY <1>1, <1>2, <1>3, <1>7, NameFacts DEF Link, Writes
<1>9. ~Closed(proc[v], i)
  <2>1. CASE p[1] = "std"
    BY <1>3, <1>8, <2>1 DEF Writes
  <2>2. CASE p[1] # "std"
    <3>1. IsSink(v)
      BY <1>1, <1>2, <2>2, NameFacts
    <3>2. Feed(v) = v
      BY <1>6, <3>1, NameFacts
    <3>3. Closed(proc[v], i) => Free(a, s, v)
      <4>1. i = Items(v) /\ live # <<>>
        BY <3>2, LiveFacts
      <4> HIDE DEF v, i
      <4>2. Closed(proc[v], Items(v)) => Free(a, s, v)
        BY <1>5, <3>1, <4>1 DEF Flow, TopOK
      <4> QED BY <4>1, <4>2
    <3>4. ~Free(a, s, v)
      BY DEF Flow, LiveShape, Free
    <3> QED BY <3>3, <3>4
  <2> QED BY <2>1, <2>2
<1>10. IsSeq(x.data) /\ IsSeq(Pending(q))
    BY <1>4, SegmentFacts
<1>11. ((rd[v] \o Bytes(i)) \o x.data) \o Pending(q) = Before(a, p) \o Made(q, rd[p])
  <2> HIDE DEF r, q, v, i
  <2> DEFINE c == rd[v] \o Bytes(i)
  <2>1. IsSeq(c) /\ IsSeq(x.data) /\ IsSeq(Pending(q))
    BY <1>7, <1>10
  <2>2. /\ Cat(c, Pending(r)) = Cat(Before(a, p), Made(q, rd[p]))
        /\ Pending(r) = Cat(x.data, Pending(q))
    BY <1>4, <1>8 DEF Cat
  <2> HIDE DEF c
  <2>3. Cat(Cat(c, x.data), Pending(q)) = Cat(Before(a, p), Made(q, rd[p]))
    BY <2>1, <2>2, CatFacts
  <2> QED BY <2>3 DEF Cat, c
<1>12. Begins((rd[v] \o Bytes(i)) \o x.data, In(a, v))
  <2> HIDE DEF r, q, i
  <2>1. IsSeq((rd[v] \o Bytes(i)) \o x.data)
    BY <1>7, <1>10, SeqConcat
  <2>2. Begins((rd[v] \o Bytes(i)) \o x.data, Before(a, p) \o Made(q, rd[p]))
    BY <1>10, <1>11, <2>1, BeginsConcat
  <2>3. Begins(Made(q, rd[p]), Out(a, p)) /\ IsSeq(Made(q, rd[p]))
    BY <1>1, <1>4, MadeBegins
  <2>4. Begins(Before(a, p) \o Made(q, rd[p]), Before(a, p) \o Out(a, p))
    BY <1>7, <2>3, BeginsBehind
  <2>5. Begins(Before(a, p) \o Out(a, p), In(a, v))
    BY <1>1, <1>2 DEF Fits
  <2>6. IsSeq(Before(a, p) \o Made(q, rd[p]))
    BY <1>7, <2>3, SeqConcat
  <2>7. Begins((rd[v] \o Bytes(i)) \o x.data, Before(a, p) \o Out(a, p))
    BY <2>1, <2>2, <2>4, BeginsTrans
  <2> QED BY <2>1, <2>5, <2>7, BeginsTrans
<1>13. x = Eof => rd[v] \o Bytes(i) = In(a, v)
  <2>1. SUFFICES ASSUME x = Eof PROVE rd[v] \o Bytes(i) = In(a, v)
    OBVIOUS
  <2>2. p[1] = "std" /\ q.done /\ q.out = <<>> /\ x.data = <<>>
    BY <1>4, <2>1, Segment DEF Spent
  <2>3. r.kind = "StdStreamSource" /\ q.kind = "StdStreamSource" /\ r.arg = In(a, p)
    BY <1>1, <1>3, <2>2, KindFacts DEF Cell, Common, Producer, Alike
  <2>4. Pending(q) = <<>> \o <<>>
    BY <1>3, <2>2, <2>3, BytesNone DEF Pending, Encoders, Writes
  <2>5. Made(r, rd[p]) = In(a, p)
    BY <2>3 DEF Made
  <2>6. Before(a, p) = <<>> /\ In(a, v) = In(a, p)
    BY <1>1, <2>2 DEF Before, In, Reader
  <2> HIDE DEF r, q, v, i
  <2>7. /\ Cat(<<>>, <<>> \o <<>>) = <<>> /\ (rd[v] \o Bytes(i)) \o <<>> = rd[v] \o Bytes(i)
        /\ <<>> \o Made(r, rd[p]) = Made(r, rd[p])
    BY <1>7, SeqEmpty DEF Cat
  <2> QED BY <1>4, <1>7, <1>8, <2>2, <2>4, <2>5, <2>6, <2>7
<1>14. /\ Cell(a, v, proc[v], rd[v], j)
       /\ rd[v] \o Bytes(j) = (rd[v] \o Bytes(i)) \o x.data
       /\ Closed(proc[v], j) <=> x = Eof
  <2> DEFINE u == proc[v]
             d == rd[v]
  <2>1. /\ IsName(v) /\ v[1] # "std" /\ AreSegments(i) /\ Cell(a, v, u, d, i) /\ ~Closed(u, i)
        /\ u.source_queue # NoQueue /\ u.state # "Uninitialized"
        /\ IsSegment(x) /\ (x.type = "Data" \/ x = Eof)
        /\ Begins(Cat(Cat(d, Bytes(i)), x.data), In(a, v))
        /\ x = Eof => Cat(d, Bytes(i)) = In(a, v)
    BY <1>1, <1>4, <1>6, <1>7, <1>8, <1>9, <1>12, <1>13 DEF Cat
  <2> HIDE DEF r, q, v, i, u, d
  <2>2. /\ Cell(a, v, u, d, Append(i, x))
        /\ Cat(d, Bytes(Append(i, x))) = Cat(Cat(d, Bytes(i)), x.data)
        /\ Closed(u, Append(i, x)) <=> x = Eof
    BY <2>1, GetCell
  <2> QED BY <2>2 DEF u, d, Cat
<1>15. Link(a, p, q, rd[p], proc[v], rd[v], j)
  <2> HIDE DEF v, j, i
  <2>1. q.sink_queue = r.sink_queue /\ r.sink_queue # NoQueue
    BY <1>3 DEF Alike
  <2>2. (rd[v] \o Bytes(j)) \o Pending(q) = Before(a, p) \o Made(q, rd[p])
    BY <1>11, <1>14
  <2>3. p[1] = "std" /\ Closed(proc[v], j) => q.done /\ q.out = <<>>
    BY <1>4, <1>14 DEF Spent
  <2> HIDE DEF q, r
  <2> QED BY <1>8, <2>1, <2>2, <2>3 DEF Link
<1>16. e[p] = rd[p] /\ \A y \in Ran(live) : y \in DOMAIN e /\ e[y] = rd[y]
    BY CellFacts DEF With
<1>17. live' = live /\ \A y \in Ran(live) : y # p => proc'[y] = proc[y]
    BY LiveFacts DEF Worked
<1>18. \A y \in Ran(live) : IsName(y)
    BY CellFacts
<1>19. Items(Feed(v))' = j /\ \A y \in Ran(live) : y # v /\ y[1] # "std" => Items(Feed(y))' = Items(Feed(y))
  <2>1. \A y \in Ran(live) : y # v /\ y[1] # "std" => Feed(y) # Feed(v)
    BY <1>6, <1>18, FeedInjective
  <2>2. k = Feed(v)
    BY <1>2, <1>6
  <2>3. j = Append(Items(k), x)
    BY <2>2
  <2>4. Items(Feed(v))' = j
    BY <2>2, <2>3
  <2>5. \A y \in Ran(live) : y # v /\ y[1] # "std" => Items(Feed(y))' = Items(Feed(y))
    BY <2>1, <2>2
  <2> QED BY <2>4, <2>5
<1> HIDE DEF e, j
<1>20. Cells(a, e)'
  <2>1. ASSUME NEW y \in Ran(live) PROVE y \in DOMAIN e /\ Cell(a, y, proc'[y], e[y], Items(Feed(y))')
    <3>1. CASE y = p
      <4>1. p[1] = "std" \/ Items(Feed(p))' = Items(Feed(p))
        BY <1>5, <1>6, <1>19
      <4>2. Cell(a, p, q, rd[p], Items(Feed(p))')
        BY <1>4, <4>1 DEF Cell
      <4> QED BY <1>16, <3>1, <4>2
    <3>2. CASE y = v
      BY <1>5, <1>6, <1>14, <1>16, <1>17, <1>19, <3>2
    <3>3. CASE y # p /\ y # v
      <4>1. Cell(a, y, proc[y], rd[y], Items(Feed(y)))
        BY CellFacts
      <4>2. Cell(a, y, proc[y], rd[y], Items(Feed(y))')
        BY <1>19, <3>3, <4>1 DEF Cell
      <4> QED BY <1>16, <1>17, <3>3, <4>2
    <3> QED BY <3>1, <3>2, <3>3
  <2> QED BY <1>17, <2>1 DEF Cells
<1>21. Links(a, e)'
  <2>1. ASSUME NEW w \in Ran(live), Reader(a, w) \in Ran(live)
        PROVE  Link(a, w, proc'[w], e[w], proc'[Reader(a, w)], e[Reader(a, w)],
                    Items(Feed(Reader(a, w)))')
    <3> DEFINE u == Reader(a, w)
    <3>1. Link(a, w, proc[w], rd[w], proc[u], rd[u], Items(Feed(u)))
      BY <2>1, CellFacts
    <3>2. w # file
      BY <1>18, <2>1, NameFacts DEF IsName, None, Numbered, file, overall
    <3>3. u[1] # "std" /\ u # w
      BY <1>18, <3>2, NameFacts
    <3>4. u = v => w = p
      BY DEF Flow, LiveShape
    <3>5. CASE w = p
      BY <1>5, <1>6, <1>15, <1>16, <1>17, <1>19, <3>5
    <3>6. CASE w # p
      <4>1. Items(Feed(u))' = Items(Feed(u)) /\ proc'[w] = proc[w] /\ e[w] = rd[w] /\ e[u] = rd[u]
        BY <1>16, <1>17, <1>19, <2>1, <3>3, <3>4, <3>6
      <4>2. CASE u # p
        BY <1>17, <2>1, <3>1, <4>1, <4>2
      <4>3. CASE u = p
        <5> DEFINE z == Items(Feed(p))
        <5>1. Link(a, w, proc[w], rd[w], r, rd[p], z) /\ Feed(u) = Feed(p)
          BY <3>1, <4>3
        <5>2. q.source_queue = r.source_queue /\ q.state = r.state /\ (Closed(q, z) <=> Closed(r, z))
          BY <1>3, <1>4 DEF Alike, Writes
        <5>3. Link(a, w, proc[w], rd[w], q, rd[p], z)
          <6> HIDE DEF r, q, z
          <6> QED BY <5>1, <5>2 DEF Link
        <5> QED BY <1>16, <4>1, <4>3, <5>3
      <4> QED BY <4>2, <4>3
    <3> QED BY <3>5, <3>6
  <2> QED BY <1>17, <2>1 DEF Links
<1>22. \A y \in Ran(live) : IsSink(y) => (Closed(proc'[y], Items(y)') <=> Closed(proc[y], Items(y)))
  <2>1. ASSUME NEW y \in Ran(live), IsSink(y)
        PROVE  Closed(proc'[y], Items(y)') <=> Closed(proc[y], Items(y))
    <3>1. Feed(y) = y /\ y[1] # "std"
      BY <1>18, <2>1, NameFacts DEF IsSink
    <3>2. CASE y = v
      <4>1. p[1] # "std"
        BY <1>1, <2>1, <3>2, NameFacts DEF IsSink
      <4>2. x # Eof
        BY <4>1
      <4> QED BY <1>6, <1>9, <1>14, <1>17, <1>19, <2>1, <3>1, <3>2, <4>2
    <3>3. CASE y = p
      BY <1>4, <1>6, <1>19, <3>1, <3>3
    <3>4. CASE y # p /\ y # v
      BY <1>17, <1>19, <3>1, <3>4
    <3> QED BY <3>2, <3>3, <3>4
  <2> QED BY <2>1
<1>23. \A y \in Ran(live) : IsSink(y) /\ (\A w \in Ran(live) : proc[w].sink_queue # y) =>
                e[y] \o Bytes(Items(y)') = rd[y] \o Bytes(Items(y))
  <2>1. ASSUME NEW y \in Ran(live), IsSink(y), \A w \in Ran(live) : proc[w].sink_queue # y
        PROVE  e[y] \o Bytes(Items(y)') = rd[y] \o Bytes(Items(y))
    <3>1. Feed(y) = y /\ y[1] # "std"
      BY <1>18, <2>1, NameFacts DEF IsSink
    <3>2. y # v
      BY <1>2, <1>6, <2>1, <3>1
    <3> QED BY <1>16, <1>19, <3>1, <3>2
  <2> QED BY <2>1
<1>24. file \in DOMAIN contents => IsSeq(contents'[file])
    BY DEF Flow, ContentsOK
<1>25. s.phase = "opened" => \A y \in Ran(live) : y[1] = "std" => Items(y)' = Items(y)
  <2>1. SUFFICES ASSUME s.phase = "opened", NEW y \in Ran(live), y[1] = "std"
                 PROVE  Items(y)' = Items(y)
    OBVIOUS
  <2>2. IsSink(p) /\ p[1] # "std"
    BY <2>1, OpenedFile DEF IsSink
  <2>3. IsSink(v) /\ Target(a, p) = v
    BY <1>1, <1>2, <2>2, NameFacts
  <2>4. y # Target(a, p)
    BY <2>1, <2>3 DEF IsSink
  <2> QED BY <1>2, <2>4
<1> QED BY <1>2, <1>5, <1>20, <1>21, <1>22, <1>23, <1>24, <1>25, FlowAgain DEF e


-----------------------------------------------------------------------------
\* The steps of the workers.

\* Only a processor that is not a file reads, and it reads from its own queue.
LEMMA WorkerInput ==
    ASSUME NEW a, NEW s, NEW rd, Flow(a, s, rd), PipelineOK, NEW p \in Ran(live),
           CanRead(p), HasInput(p) \/ proc[p].stop_requested
    PROVE  /\ p[1] # "std" /\ HasInput(p) /\ Source(p) = Feed(p) /\ Feed(p) \in DOMAIN queue
           /\ Items(Feed(p)) = queue[Feed(p)].items /\ Items(Feed(p)) # <<>>
           /\ NextSegment(p) = Items(Feed(p))[1] /\ NextSegment(p) # Flush
           /\ Popped(queue[Feed(p)]) = [queue[Feed(p)] EXCEPT !.items = Tail(@)]
<1>1. Cell(a, p, proc[p], rd[p], Items(Feed(p))) /\ IsName(p)
    BY CellFacts
<1>2. p \in DOMAIN proc /\ proc[p].state = "Running" /\ proc[p].out = <<>> /\ ~proc[p].done
    BY LiveFacts DEF CanRead, Working
<1>3. HasInput(p)
    BY <1>1, <1>2 DEF Cell, Common
<1>4. Source(p) # NoQueue /\ Source(p) \in DOMAIN queue
    BY <1>2, <1>3, InputShape DEF HasInput
<1>5. p[1] # "std"
    BY <1>1, <1>4 DEF Cell, Producer, Source
<1>6. Source(p) = Feed(p)
    BY <1>1, <1>4, <1>5 DEF Cell, Consumer, Source
<1>7. Items(Feed(p)) = queue[Feed(p)].items /\ queue[Feed(p)].putback = <<>>
    BY <1>4, <1>6 DEF Items, Flow, LiveShape
<1>8. Items(Feed(p)) # <<>>
  <2>1. <<>> \o <<>> = <<>>
    BY SeqEmpty
  <2> QED BY <1>3, <1>6, <1>7, <2>1 DEF HasInput
<1>9. NextSegment(p) = Items(Feed(p))[1]
    BY <1>3, <1>6, <1>7 DEF NextSegment
<1>10. Popped(queue[Feed(p)]) = [queue[Feed(p)] EXCEPT !.items = Tail(@)]
    BY <1>7 DEF Popped
<1>11. NextSegment(p) # Flush
  <2>1. Tidy(Items(Feed(p))) /\ AreSegments(Items(Feed(p)))
    BY <1>1, <1>5, LiveFacts DEF Cell, Consumer
  <2>2. Items(Feed(p))[1].type = "Data" \/ Items(Feed(p))[1] = Eof
    BY <1>8, <2>1, TidyTail
  <2> QED BY <1>9, <2>2 DEF Flush, Eof
<1> QED BY <1>3, <1>4, <1>5, <1>6, <1>7, <1>8, <1>9, <1>10, <1>11

LEMMA BeginFlow ==
    ASSUME NEW a, NEW s, NEW rd, Flow(a, s, rd), PipelineOK, NEW p \in Ran(live),
           BeginWork(p), UNCHANGED commandVars
    PROVE  Flow(a, s, With(rd, p, rd[p]))'
<1> DEFINE r == proc[p]
           q == proc'[p]
           d == rd[p]
           i == Items(Feed(p))
           o == Append(Segments(r.arg), Eof)
<1>1. /\ IsName(p) /\ Cell(a, p, r, d, i) /\ ProcShape(r) /\ IsSeq(Pending(r)) /\ IsSeq(Made(r, d))
      /\ r.kind = KindOf(p) /\ p \in DOMAIN proc
    BY CellFacts, LiveFacts
<1>2. r.state = "Starting" /\ DOMAIN r = ProcFields
    BY <1>1 DEF BeginWork, ProcShape
<1> DEFINE b == [r EXCEPT !.state = "Running"]
<1>3. proc' = [proc EXCEPT ![p] =
            CASE b.kind = "StdStreamSource" -> Ended(b, Append(Segments(b.arg), Eof))
                  [] b.kind = "BoundedSource" /\ b.arg = 0 -> Ended(b, <<Eof>>)
                  [] OTHER -> b]
    BY DEF BeginWork
<1>4. r.kind = "StdStreamSource" <=> p[1] = "std"
    BY <1>1, KindFacts
<1>5. r.kind # "BoundedSource"
    BY <1>1, KindFacts
<1>6. /\ Alike(r, b) /\ b.state = "Running" /\ b.buffer = r.buffer /\ b.bytes = r.bytes
      /\ b.out = r.out /\ b.done = r.done /\ DOMAIN b = ProcFields /\ b.bytes_written = r.bytes_written
      /\ b.ready = r.ready
    BY <1>2 DEF Alike, ProcFields
<1>7. p \in DOMAIN proc /\ (p[1] = "std" => q = Ended(b, o)) /\ (p[1] # "std" => q = b)
    BY <1>1, <1>3, <1>4, <1>5, <1>6 DEF Alike
<1>8. Alike(r, q) /\ q.state = "Running" /\ q.buffer = r.buffer /\ q.bytes = r.bytes
      /\ IF p[1] = "std" THEN q.out = o /\ q.done ELSE q.out = r.out /\ q.done = r.done
  <2> HIDE DEF q, b, r, o
  <2>1. CASE p[1] = "std"
    <3>1. q = [b EXCEPT !.out = o, !.done = TRUE]
      BY <1>7, <2>1 DEF Ended
    <3>2. q.out = o /\ q.done = TRUE
      BY <1>6, <3>1 DEF ProcFields
    <3>3. Alike(b, q) /\ q.state = b.state /\ q.buffer = b.buffer /\ q.bytes = b.bytes
      BY <1>6, <3>1 DEF ProcFields, Alike
    <3> QED BY <1>6, <2>1, <3>2, <3>3 DEF Alike
  <2>2. CASE p[1] # "std"
    BY <1>6, <1>7, <2>2
  <2> QED BY <2>1, <2>2
<1>9. /\ Cell(a, p, q, d, i) /\ (p[1] # "std" => (Closed(q, i) <=> Closed(r, i)))
      /\ Pending(q) = Pending(r) /\ Made(q, d) = Made(r, d)
  <2> HIDE DEF q, r, d, i, b
  <2>1. IF p[1] = "std" THEN q.out = Append(Segments(r.arg), Eof) /\ q.done
        ELSE q.out = r.out /\ q.done = r.done
    BY <1>8
  <2> QED BY <1>1, <1>2, <1>8, <2>1, BeginCell
<1>10. Worked(p)
  <2> HIDE DEF q, b, o
  <2>1. live' = live /\ outcome' = outcome /\ taken' = taken /\ queue' = queue
        /\ contents' = contents /\ results' = results
    BY DEF BeginWork, commandVars
  <2>2. DOMAIN proc' = DOMAIN proc /\ \A x \in DOMAIN proc : x # p => proc'[x] = proc[x]
    BY <1>3
  <2>3. r.kind = "ByteCounterSink" => p \in DOMAIN results /\ results[p] = r.bytes
    BY <1>1 DEF Flow, ResultsOK
  <2> QED BY <1>2, <1>8, <2>1, <2>2, <2>3 DEF Worked, q
<1>11. \A x : Items(x)' = Items(x)
    BY DEF Items, BeginWork
<1>12. Grown(Pending(r), Pending(q), Made(r, d), Made(q, d))
  <2> HIDE DEF r, q, d
  <2>1. IsSeq(<<>>) /\ Pending(q) \o <<>> = Pending(r) /\ Made(q, d) \o <<>> = Made(r, d)
    BY <1>1, <1>9, SeqEmpty
  <2> QED BY <1>9, <2>1 DEF Grown
<1>13. (file \in DOMAIN contents => IsSeq(contents'[file])) /\ (Whole /\ p = file => contents'[file] = d)
    BY DEF Flow, ContentsOK, BeginWork
<1>14. p[1] = "std" => ~(Reader(a, p) \notin Ran(live)) /\ ~r.done
  <2>1. SUFFICES ASSUME p[1] = "std" PROVE ~(Reader(a, p) \notin Ran(live)) /\ ~r.done
    OBVIOUS
  <2>2. ~Idle(r)
    BY <1>2 DEF Idle
  <2>3. Untouched(r)
    BY <1>1, <1>2 DEF Cell, Common
  <2> QED BY <2>1, <2>2, <2>3 DEF Flow, LiveShape, Untouched
<1> HIDE DEF q, d, i, b, o
<1> QED BY <1>9, <1>10, <1>11, <1>12, <1>13, <1>14, WorkerReads DEF r, q, d, i

LEMMA EndFlow ==
    ASSUME NEW a, NEW s, NEW rd, Flow(a, s, rd), PipelineOK, NEW p \in Ran(live),
           EndWork(p), UNCHANGED commandVars
    PROVE  Flow(a, s, With(rd, p, rd[p]))'
<1> DEFINE r == proc[p]
           q == proc'[p]
           d == rd[p]
           i == Items(Feed(p))
<1>1. /\ IsName(p) /\ Cell(a, p, r, d, i) /\ ProcShape(r) /\ IsSeq(Pending(r)) /\ IsSeq(Made(r, d))
      /\ r.kind = KindOf(p) /\ p \in DOMAIN proc
    BY CellFacts, LiveFacts
<1>2. r.state = "Running" /\ r.done /\ r.out = <<>> /\ DOMAIN r = ProcFields
    BY <1>1 DEF EndWork, ProcShape, Working
<1>3. proc' = [proc EXCEPT ![p] = [r EXCEPT !.state = "Completed"]]
    BY DEF EndWork
<1>4. /\ Alike(r, q) /\ q.state = "Completed" /\ q.buffer = r.buffer /\ q.bytes = r.bytes
      /\ q.out = r.out /\ q.done = r.done
    BY <1>1, <1>2, <1>3 DEF Alike, ProcFields
<1>5. /\ Cell(a, p, q, d, i) /\ (Closed(q, i) <=> Closed(r, i))
      /\ Pending(q) = Pending(r) /\ Made(q, d) = Made(r, d)
  <2> HIDE DEF q, r, d, i
  <2>1. IsName(p) /\ Cell(a, p, r, d, i) /\ r.state = "Running" /\ r.done /\ r.out = <<>>
    BY <1>1, <1>2
  <2>2. /\ Alike(r, q) /\ q.state = "Completed" /\ q.buffer = r.buffer /\ q.bytes = r.bytes
        /\ q.out = r.out /\ q.done = r.done
    BY <1>4
  <2>3. Cell(a, p, q, d, i) /\ (Closed(q, i) <=> Closed(r, i))
    BY <2>1, <2>2, EndCell
  <2>4. Pending(q) = Pending(r) /\ Made(q, d) = Made(r, d)
    BY <2>1, <2>2 DEF Pending, Made, Alike
  <2> QED BY <2>3, <2>4
<1>6. Worked(p)
  <2> HIDE DEF q
  <2>1. live' = live /\ outcome' = outcome /\ taken' = taken /\ queue' = queue
        /\ contents' = contents /\ results' = results
    BY DEF EndWork, commandVars
  <2>2. DOMAIN proc' = DOMAIN proc /\ \A x \in DOMAIN proc : x # p => proc'[x] = proc[x]
    BY <1>3
  <2>3. r.kind = "ByteCounterSink" => p \in DOMAIN results /\ results[p] = r.bytes
    BY <1>1 DEF Flow, ResultsOK
  <2> QED BY <1>2, <1>4, <2>1, <2>2, <2>3 DEF Worked, q
<1>7. \A x : Items(x)' = Items(x)
    BY DEF Items, EndWork
<1>8. Grown(Pending(r), Pending(q), Made(r, d), Made(q, d))
  <2> HIDE DEF r, q, d
  <2>1. IsSeq(<<>>) /\ Pending(q) \o <<>> = Pending(r) /\ Made(q, d) \o <<>> = Made(r, d)
    BY <1>1, <1>5, SeqEmpty
  <2> QED BY <1>5, <2>1 DEF Grown
<1>9. (file \in DOMAIN contents => IsSeq(contents'[file])) /\ (Whole /\ p = file => contents'[file] = d)
    BY DEF Flow, ContentsOK, EndWork
<1>10. Idle(q) /\ q.done /\ q.out = <<>>
    BY <1>2, <1>4 DEF Idle
<1> HIDE DEF q, d, i
<1> QED BY <1>5, <1>6, <1>7, <1>8, <1>9, <1>10, WorkerReads DEF r, q, d, i

\* A processor that is the same in all that matters here.
Same(r, q) ==
    /\ Alike(r, q) /\ q.state = r.state /\ q.buffer = r.buffer /\ q.bytes = r.bytes
    /\ q.out = r.out /\ q.done = r.done

LEMMA SameCell ==
    ASSUME NEW a, NEW p, NEW r, NEW d, NEW i, NEW q, Same(r, q)
    PROVE  /\ Cell(a, p, r, d, i) => Cell(a, p, q, d, i)
           /\ Closed(q, i) <=> Closed(r, i)
           /\ Pending(q) = Pending(r) /\ Made(q, d) = Made(r, d)
<1>1. Common(a, p, r) => Common(a, p, q)
    BY DEF Common, Same, Alike, Untouched
<1>2. Producer(a, p, r) => Producer(a, p, q)
    BY DEF Producer, Same, Alike
<1>3. Closed(q, i) <=> Closed(r, i)
    BY DEF Closed, Same
<1>4. Consumer(a, p, r, d, i) => Consumer(a, p, q, d, i)
    BY <1>3 DEF Consumer, Same, Alike
<1>5. Pending(q) = Pending(r) /\ Made(q, d) = Made(r, d)
    BY DEF Pending, Made, Same, Alike
<1> QED BY <1>1, <1>2, <1>3, <1>4, <1>5 DEF Cell

\* The segment that was read is gone from the queue.
LEMMA PoppedItems ==
    ASSUME PipelineOK, NEW k \in DOMAIN queue,
           queue' = [queue EXCEPT ![k] = [queue[k] EXCEPT !.items = Tail(@)]]
    PROVE  /\ DOMAIN queue' = DOMAIN queue
           /\ \A x \in DOMAIN queue : queue'[x].putback = queue[x].putback /\ queue'[x].source = queue[x].source
           /\ \A x : x # k => Items(x)' = Items(x)
           /\ Items(k)' = Tail(Items(k))
<1>1. DOMAIN queue[k] = {"items", "putback", "source"}
    BY DEF PipelineOK, QueuesOK, QueueShape
<1>2. DOMAIN queue' = DOMAIN queue /\ (\A x \in DOMAIN queue : x # k => queue'[x] = queue[x])
    OBVIOUS
<1>3. queue'[k].putback = queue[k].putback /\ queue'[k].source = queue[k].source
      /\ queue'[k].items = Tail(queue[k].items)
    BY <1>1
<1>4. Items(k)' = Tail(Items(k))
    BY <1>2, <1>3 DEF Items
<1>5. ASSUME NEW x, x # k PROVE Items(x)' = Items(x)
    BY <1>2, <1>5 DEF Items
<1> QED BY <1>2, <1>3, <1>4, <1>5

\* What becomes of the results and of the file, when p has read d and is q.
ResultRead(p, q) ==
    \/ results' = results /\ q.kind # "ByteCounterSink"
    \/ \E y : results' = With(results, p, y) /\ (q.kind = "ByteCounterSink" => y = q.bytes)
ContentRead(p, d) ==
    /\ DOMAIN contents' = DOMAIN contents /\ (p # file => contents' = contents)
    /\ file \in DOMAIN contents => IsSeq(contents'[file])
    /\ Whole /\ p = file => contents'[file] = d

\* Processor p reads x and becomes q.
BecomesReading(p, x, q) ==
    /\ CanRead(p) /\ (HasInput(p) \/ proc[p].stop_requested) /\ live' = live
    /\ x = NextSegment(p) /\ q \in work(proc[p], x) /\ Same(q, proc'[p])
    /\ DOMAIN proc' = DOMAIN proc /\ (\A y \in DOMAIN proc : y # p => proc'[y] = proc[y])
    /\ queue' = [queue EXCEPT ![Source(p)] = Popped(@)]

LEMMA ReadsFlow ==
    ASSUME NEW a, NEW s, NEW rd, Flow(a, s, rd), PipelineOK, NEW p \in Ran(live),
           UNCHANGED commandVars, NEW x, NEW q, BecomesReading(p, x, q),
           ResultRead(p, q), ContentRead(p, Cat(rd[p], x.data))
    PROVE  Flow(a, s, With(rd, p, Cat(rd[p], x.data)))'
<1> DEFINE r == proc[p]
           d == rd[p]
           e == Cat(d, x.data)
           i == Items(Feed(p))
           j == Tail(i)
           n == proc'[p]
<1>a. /\ CanRead(p) /\ (HasInput(p) \/ proc[p].stop_requested) /\ live' = live
      /\ x = NextSegment(p) /\ q \in work(proc[p], x) /\ Same(q, proc'[p])
      /\ DOMAIN proc' = DOMAIN proc /\ (\A y \in DOMAIN proc : y # p => proc'[y] = proc[y])
      /\ queue' = [queue EXCEPT ![Source(p)] = Popped(@)]
    BY DEF BecomesReading
<1> USE <1>a
<1>1. /\ IsName(p) /\ Cell(a, p, r, d, i) /\ ProcShape(r) /\ r.kind = KindOf(p) /\ p \in DOMAIN proc
      /\ AreSegments(i) /\ p \in DOMAIN rd
    BY CellFacts, LiveFacts
<1>2. /\ p[1] # "std" /\ HasInput(p) /\ Source(p) = Feed(p) /\ Feed(p) \in DOMAIN queue
      /\ i # <<>> /\ x = i[1]
      /\ queue' = [queue EXCEPT ![Feed(p)] = [queue[Feed(p)] EXCEPT !.items = Tail(@)]]
    BY WorkerInput
<1>3. r.state = "Running" /\ r.out = <<>> /\ ~r.done
    BY DEF CanRead, Working
<1>4. q \in work(r, x)
    OBVIOUS
<1>5. /\ Cell(a, p, q, e, j) /\ Effect(r, x, q, d)
      /\ Cat(e, Bytes(j)) = Cat(d, Bytes(i))
      /\ Closed(q, j) <=> Closed(r, i)
      /\ p # file => Grown(Pending(r), Pending(q), Made(r, d), Made(q, e))
  <2>1. Reads(r, q, x, i, j) /\ e = Cat(d, x.data)
    BY <1>2, <1>3, <1>4 DEF Reads
  <2>2. IsName(p) /\ p[1] # "std" /\ ProcShape(r) /\ AreSegments(i) /\ Cell(a, p, r, d, i)
    BY <1>1, <1>2
  <2> HIDE DEF r, d, e, i, j
  <2> QED BY <2>1, <2>2, ReadCell
<1>6. /\ Cell(a, p, n, e, j) /\ (Closed(n, j) <=> Closed(q, j))
      /\ Pending(n) = Pending(q) /\ Made(n, e) = Made(q, e)
  <2>1. Same(q, n)
    OBVIOUS
  <2> HIDE DEF r, d, e, i, j, n
  <2> QED BY <1>5, <2>1, SameCell
<1>7. /\ DOMAIN queue' = DOMAIN queue
      /\ \A y \in DOMAIN queue : queue'[y].putback = queue[y].putback /\ queue'[y].source = queue[y].source
      /\ \A y : y # Feed(p) => Items(y)' = Items(y)
      /\ Items(Feed(p))' = j
    BY <1>2, PoppedItems
<1>8. Alike(r, q) /\ q.state = r.state
    BY <1>5 DEF Effect
<1>9. Alike(r, n) /\ n.state = "Running" /\ n.bytes = q.bytes /\ n.kind = q.kind /\ r.kind = q.kind
    BY <1>3, <1>8 DEF Same, Alike
<1>10. Worked(p)
  <2> HIDE DEF n, e, j
  <2>1. live' = live /\ outcome' = outcome /\ taken' = taken
    BY DEF commandVars
  <2>2. \A y \in DOMAIN results : y \in DOMAIN results' /\ (y # p => results'[y] = results[y])
    BY DEF With, ResultRead
  <2>3. r.kind = "ByteCounterSink" => p \in DOMAIN results' /\ results'[p] = n.bytes
    BY <1>9 DEF With, ResultRead
  <2>4. DOMAIN contents' = DOMAIN contents /\ (p # file => contents' = contents)
    BY DEF ContentRead
  <2> QED BY <1>3, <1>7, <1>9, <2>1, <2>2, <2>3, <2>4 DEF Worked, n
<1>11. e \o Bytes(j) = d \o Bytes(i) /\ (Closed(n, j) <=> Closed(r, i))
    BY <1>5, <1>6 DEF Cat
<1>12. p # file => Grown(Pending(r), Pending(n), Made(r, d), Made(n, e))
    BY <1>5, <1>6
<1>13. (file \in DOMAIN contents => IsSeq(contents'[file])) /\ (Whole /\ p = file => contents'[file] = e)
    BY DEF ContentRead
<1> HIDE DEF n, e, j
<1> QED BY <1>2, <1>6, <1>7, <1>10, <1>11, <1>12, <1>13, WorkerReads DEF n, e

LEMMA ReadFlow ==
    ASSUME NEW a, NEW s, NEW rd, Flow(a, s, rd), PipelineOK, NEW p \in Ran(live),
           Read(p), UNCHANGED commandVars
    PROVE  (\E d : Flow(a, s, With(rd, p, d))') /\ (~exception => ~exception')
<1> DEFINE r == proc[p]
<1>0. PICK x : x = NextSegment(p)
    OBVIOUS
<1>1. /\ IsName(p) /\ Cell(a, p, r, rd[p], Items(Feed(p))) /\ ProcShape(r) /\ r.kind = KindOf(p)
      /\ p \in DOMAIN proc /\ AreSegments(Items(Feed(p))) /\ (p[1] # "std" => IsSeq(rd[p]))
    BY CellFacts, LiveFacts
<1>2. CanRead(p) /\ (HasInput(p) \/ r.stop_requested) /\ live' = live
    BY DEF Read
<1>3. p[1] # "std" /\ HasInput(p) /\ Items(Feed(p)) # <<>> /\ x = Items(Feed(p))[1]
    BY <1>0, <1>2, WorkerInput
<1>4. IsSegment(x) /\ (x.type = "Data" \/ x = Eof)
  <2>1. Tidy(Items(Feed(p)))
    BY <1>1, <1>3 DEF Cell, Consumer
  <2> QED BY <1>1, <1>3, <2>1, TidyTail, TailOfSegments
<1>5. PICK q \in work(r, x) :
          LET throws == q.state = "Throwing"
              put_back == q.kind = "BoundedSource" /\ q.buffer # <<>>
              popped == Popped(queue[Source(p)])
          IN  /\ proc' = [proc EXCEPT ![p] = [q EXCEPT !.state = IF throws THEN "Completed" ELSE @]]
              /\ exception' = (exception \/ throws)
              /\ results' = IF LeavesResult(q) THEN With(results, p, ResultOf(q)) ELSE results
              /\ queue' = IF ~HasInput(p) THEN queue
                          ELSE [queue EXCEPT ![Source(p)] =
                                IF put_back THEN [popped EXCEPT !.putback = Append(@, Data(q.buffer))]
                                ELSE popped]
    BY <1>0 DEF Read
<1>6. ProcShape(q) /\ Effect(r, x, q, rd[p]) /\ Alike(r, q) /\ q.state = "Running"
  <2>1. r.state = "Running" /\ r.out = <<>> /\ ~r.done
    BY <1>2 DEF CanRead, Working
  <2>2. IsSink(p) \/ p[1] = "hash"
    BY <1>1, <1>3, SinkOrHash
  <2> HIDE DEF r
  <2>3. ProcShape(q)
    BY <1>1, <1>4, <1>5, <2>1, WorkShape
  <2>4. IsSeq(rd[p])
    BY <1>1, <1>3
  <2>5. Effect(r, x, q, rd[p])
    BY <1>1, <1>4, <1>5, <2>1, <2>2, <2>4, WorkEffect
  <2> QED BY <2>1, <2>3, <2>5 DEF Effect
<1>7. q.kind # "BoundedSource" /\ q.state # "Throwing"
    BY <1>1, <1>6, KindFacts DEF Alike
<1>8. proc' = [proc EXCEPT ![p] = [q EXCEPT !.state = q.state]] /\ (~exception => ~exception')
  <2>1. proc' = [proc EXCEPT ![p] = [q EXCEPT !.state = IF q.state = "Throwing" THEN "Completed" ELSE @]]
    BY <1>5
  <2>2. exception' = (exception \/ q.state = "Throwing")
    BY <1>5
  <2>3. proc' = [proc EXCEPT ![p] = [q EXCEPT !.state = q.state]]
    BY <1>7, <2>1
  <2> QED BY <1>7, <2>2, <2>3
<1>9. Same(q, proc'[p]) /\ DOMAIN proc' = DOMAIN proc /\ \A y \in DOMAIN proc : y # p => proc'[y] = proc[y]
  <2>1. DOMAIN q = ProcFields
    BY <1>6 DEF ProcShape
  <2> QED BY <1>1, <1>8, <2>1 DEF Same, Alike, ProcFields
<1>10. queue' = [queue EXCEPT ![Source(p)] = Popped(@)]
    BY <1>3, <1>5, <1>7
<1>11. ResultRead(p, q)
    BY <1>5 DEF LeavesResult, ResultOf, Hashes, ResultRead
<1>12. contents' = IF p # file THEN contents ELSE With(contents, p, contents[p] \o x.data)
    BY <1>0, <1>1, KindFacts DEF Read
<1>13. ContentRead(p, Cat(rd[p], x.data))
  <2>1. ContentsOK(a, s, rd) /\ IsSeq(x.data)
    BY <1>4, SegmentFacts DEF Flow
  <2>2. CASE p # file
    BY <1>12, <2>1, <2>2 DEF ContentsOK, ContentRead
  <2>3. CASE p = file
    <3>1. file \in DOMAIN contents /\ IsSeq(contents[file]) /\ (Whole => contents[file] = rd[file])
      BY <2>1, <2>3 DEF ContentsOK
    <3> DEFINE c == contents[file] \o x.data
    <3>2. IsSeq(c)
      BY <2>1, <3>1, SeqConcat
    <3>3. contents' = With(contents, file, c)
      BY <1>12, <2>3
    <3>4. Whole => c = rd[file] \o x.data
      BY <3>1
    <3> HIDE DEF c
    <3>5. DOMAIN contents' = DOMAIN contents /\ contents'[file] = c
      BY <3>1, <3>3 DEF With
    <3> QED BY <2>3, <3>2, <3>4, <3>5 DEF ContentRead, Cat
  <2> QED BY <2>2, <2>3
<1>14. BecomesReading(p, x, q)
    BY <1>0, <1>2, <1>9, <1>10 DEF BecomesReading
<1>15. Flow(a, s, With(rd, p, Cat(rd[p], x.data)))'
    BY <1>11, <1>13, <1>14, ReadsFlow
<1> QED BY <1>8, <1>15

LEMMA LoseFlow ==
    ASSUME NEW a, NEW s, NEW rd, Flow(a, s, rd), PipelineOK, NEW p \in Ran(live),
           LoseData(p), UNCHANGED commandVars
    PROVE  \E d : Flow(a, s, With(rd, p, d))'
<1> DEFINE r == proc[p]
<1>0. PICK x : x = NextSegment(p)
    OBVIOUS
<1>1. CanRead(p) /\ HasInput(p) /\ live' = live /\ r.kind = "StdStreamSink" /\ x.type = "Data"
      /\ queue' = [queue EXCEPT ![Source(p)] = Popped(@)] /\ proc' = proc
      /\ results' = results /\ contents' = contents /\ ~Whole
    BY <1>0 DEF LoseData, Whole
<1>2. r \in work(r, x)
  <2>1. x # Eof
    BY <1>1, Segment
  <2> HIDE DEF r
  <2> QED BY <1>1, <2>1 DEF work, Hashes
<1>3. PICK q : q = r
    OBVIOUS
<1>4. BecomesReading(p, x, q)
    BY <1>0, <1>1, <1>2, <1>3 DEF BecomesReading, Same, Alike
<1>5. ResultRead(p, q)
    BY <1>1, <1>3 DEF ResultRead
<1>6. ContentRead(p, Cat(rd[p], x.data))
    BY <1>1 DEF ContentRead, Flow, ContentsOK
<1>7. Flow(a, s, With(rd, p, Cat(rd[p], x.data)))'
    BY <1>4, <1>5, <1>6, ReadsFlow
<1> QED BY <1>7

\* What the processor that writes looks like afterwards.
LEMMA WriteFields ==
    ASSUME PipelineOK, NEW p \in DOMAIN proc, Write(p), ~proc[p].stop_requested
    PROVE  /\ Writes(proc[p], proc'[p], proc[p].out[1])
           /\ DOMAIN proc' = DOMAIN proc /\ \A x \in DOMAIN proc : x # p => proc'[x] = proc[x]
<1> DEFINE r == proc[p]
           s == r.out[1]
           room == r.sink_queue # NoQueue /\ Len(queue[r.sink_queue].items) < capacity
           dropped == s = Eof /\ ~r.pass_eof
           q == proc'[p]
<1>1. proc' = [proc EXCEPT ![p] =
                [r EXCEPT !.out = Tail(@),
                          !.bytes_written = IF room THEN @ + Len(s.data) ELSE @,
                          !.state = IF ~dropped /\ r.stop_requested THEN "Completed" ELSE @]]
    BY Zenon DEF Write
<1>2. DOMAIN proc' = DOMAIN proc /\ \A x \in DOMAIN proc : x # p => proc'[x] = proc[x]
    BY <1>1
<1>3. q = [r EXCEPT !.out = Tail(@),
                    !.bytes_written = IF room THEN @ + Len(s.data) ELSE @,
                    !.state = IF ~dropped /\ r.stop_requested THEN "Completed" ELSE @]
    BY <1>1
<1>4. DOMAIN r = ProcFields
    BY DEF PipelineOK, ProcsOK, ProcShape
<1>5. r.state = "Running" /\ r.out # <<>> /\ ~r.stop_requested
    BY DEF Write, Working
<1> HIDE DEF room, dropped, s, q, r
<1>6. /\ q.kind = r.kind /\ q.arg = r.arg /\ q.source_queue = r.source_queue /\ q.sink_queue = r.sink_queue
      /\ q.pass_eof = r.pass_eof /\ q.stop_requested = r.stop_requested /\ q.bytes = r.bytes
      /\ q.buffer = r.buffer /\ q.done = r.done
    BY <1>3, <1>4 DEF ProcFields
<1>7. q.out = Tail(r.out)
    BY <1>3, <1>4 DEF ProcFields
<1>8. q.state = r.state
    BY <1>3, <1>4, <1>5 DEF ProcFields
<1>9. Writes(r, q, s)
    BY <1>5, <1>6, <1>7, <1>8 DEF Writes, Alike, s
<1> QED BY <1>2, <1>9 DEF r, q, s

LEMMA WriteFlow ==
    ASSUME NEW a, NEW s, NEW rd, Flow(a, s, rd), PipelineOK, NEW p \in Ran(live),
           Write(p), UNCHANGED commandVars
    PROVE  Flow(a, s, With(rd, p, rd[p]))'
<1> DEFINE r == proc[p]
<1>0. PICK x : x = r.out[1]
    OBVIOUS
<1>1. /\ IsName(p) /\ Cell(a, p, r, rd[p], Items(Feed(p))) /\ ProcShape(r) /\ r.kind = KindOf(p)
      /\ p \in DOMAIN proc
    BY CellFacts, LiveFacts
<1>2. r.state = "Running" /\ r.out # <<>> /\ ~r.stop_requested
    BY <1>1 DEF Write, Working, Cell, Common
<1>3. Writes(r, proc'[p], x) /\ DOMAIN proc' = DOMAIN proc /\ \A y \in DOMAIN proc : y # p => proc'[y] = proc[y]
    BY <1>0, <1>1, <1>2, WriteFields
<1>4. live' = live /\ outcome' = outcome /\ taken' = taken /\ contents' = contents /\ results' = results
    BY DEF Write, commandVars
<1>5. r.kind = "ByteCounterSink" => p \in DOMAIN results /\ results[p] = r.bytes
    BY <1>1 DEF Flow, ResultsOK
<1>6. /\ Alike(r, proc'[p]) /\ proc'[p].state = "Running" /\ proc'[p].bytes = r.bytes
    BY <1>2, <1>3 DEF Writes
<1> DEFINE dropped == x = Eof /\ ~r.pass_eof
           k0 == r.sink_queue
           room == k0 # NoQueue /\ Len(queue[k0].items) < capacity
<1>7. (dropped \/ room) /\ queue' = IF dropped \/ ~room THEN queue ELSE [queue EXCEPT ![k0].items = Append(@, x)]
    BY <1>0, <1>2 DEF Write
<1>8. p[1] = "std" => r.pass_eof
    BY <1>1 DEF Cell, Producer
<1>9. CASE dropped
  <2>1. queue' = queue /\ x = Eof /\ p[1] # "std"
    BY <1>7, <1>8, <1>9
  <2>2. Worked(p)
    BY <1>2, <1>3, <1>4, <1>5, <1>6, <2>1 DEF Worked
  <2>3. Writes(proc[p], proc'[p], Eof)
    BY <1>3, <2>1
  <2> HIDE DEF r
  <2> QED BY <1>4, <2>1, <2>2, <2>3, WorkerDrops
<1>10. CASE ~dropped
  <2>1. PICK k : k = r.sink_queue
    OBVIOUS
  <2>2. k # NoQueue /\ queue' = [queue EXCEPT ![k].items = Append(@, x)]
    BY <1>7, <1>10, <2>1
  <2>3. p[1] = "std" \/ x # Eof
    <3>1. p[1] # "std" => ~r.pass_eof
      BY <1>1, <2>1, <2>2 DEF Cell, Consumer
    <3> QED BY <1>10, <3>1
  <2>4. k \in DOMAIN queue
    <3> DEFINE v == Reader(a, p)
    <3>1. v \in Ran(live)
      <4>1. p # file
        BY <1>1, <2>1, <2>2, NameFacts DEF Cell, Consumer
      <4>2. p[1] = "std" /\ v \notin Ran(live) => Idle(r)
        BY DEF Flow, LiveShape
      <4>3. ~Idle(r)
        BY <1>2 DEF Idle
      <4> QED BY <4>1, <4>2, <4>3, CellFacts
    <3>2. proc[v].source_queue = Target(a, p) /\ k = Target(a, p)
      <4>1. Link(a, p, r, rd[p], proc[v], rd[v], Items(Feed(v)))
        BY <3>1, CellFacts
      <4>2. k = Target(a, p)
        BY <1>1, <2>1, <2>2 DEF Cell, Common
      <4> QED BY <2>1, <2>2, <4>1, <4>2 DEF Link
    <3>3. v \in DOMAIN proc
      BY <3>1, LiveFacts
    <3> HIDE DEF v
    <3> QED BY <2>2, <3>2, <3>3, InputShape DEF Source
  <2>5. DOMAIN queue[k] = {"items", "putback", "source"}
    BY <2>4 DEF PipelineOK, QueuesOK, QueueShape
  <2>6. DOMAIN queue' = DOMAIN queue /\ (\A y \in DOMAIN queue : y # k => queue'[y] = queue[y])
        /\ queue'[k] = [queue[k] EXCEPT !.items = Append(@, x)]
    BY <2>2, <2>4
  <2>7. queue'[k].putback = queue[k].putback /\ queue'[k].source = queue[k].source
        /\ queue'[k].items = Append(queue[k].items, x)
    BY <2>5, <2>6
  <2>8. Items(k)' = Append(Items(k), x)
    BY <2>4, <2>6, <2>7 DEF Items
  <2>9. \A y : y # k => Items(y)' = Items(y)
    BY <2>6 DEF Items
  <2>10. \A y \in DOMAIN queue : queue'[y].putback = queue[y].putback /\ queue'[y].source = queue[y].source
    BY <2>6, <2>7
  <2>11. Worked(p)
    BY <1>2, <1>3, <1>4, <1>5, <1>6, <2>6, <2>10 DEF Worked
  <2> HIDE DEF dropped
  <2>12. Writes(proc[p], proc'[p], x) /\ k = proc[p].sink_queue
    BY <1>3, <2>1
  <2>13. contents' = contents
    BY <1>4
  <2> HIDE DEF r
  <2> QED BY <2>2, <2>3, <2>8, <2>9, <2>11, <2>12, <2>13, WorkerWrites
<1> QED BY <1>9, <1>10

\* Nothing but a file loses data, and nothing throws.
NothingThrows == MayFail \subseteq {"StdStreamSink"}

LEMMA WorkerFlow ==
    ASSUME NothingThrows, NEW a, NEW s, NEW rd, Flow(a, s, rd), PipelineOK, NEW p \in DOMAIN proc,
           Worker(p), UNCHANGED commandVars
    PROVE  /\ \E e : Flow(a, s, e)'
           /\ ~exception => ~exception'
           /\ program' = program
<1>0. p \in Ran(live)
    BY DEF PipelineOK, LiveOK
<1>1. CASE BeginWork(p)
    BY <1>0, <1>1, BeginFlow DEF BeginWork
<1>2. CASE EndWork(p)
    BY <1>0, <1>2, EndFlow DEF EndWork
<1>3. CASE Read(p)
    BY <1>0, <1>3, ReadFlow DEF Read
<1>4. CASE ReadFlush(p)
    BY <1>0, <1>4, WorkerInput DEF ReadFlush
<1>5. CASE Write(p)
    BY <1>0, <1>5, WriteFlow DEF Write
<1>6. CASE Fail(p)
    BY <1>6 DEF Fail, NothingThrows
<1>7. CASE LoseData(p)
    BY <1>0, <1>7, LoseFlow DEF LoseData
<1> QED BY <1>1, <1>2, <1>3, <1>4, <1>5, <1>6, <1>7 DEF Worker

-----------------------------------------------------------------------------
\* The steps of the main thread that leave its objects as they are.

LEMMA StateFields ==
    ASSUME NEW stack, NEW top, NEW sent, NEW phase, NEW left, NEW summed,
           NEW s, s = State(stack, top, sent, phase, left, summed)
    PROVE  /\ s.stack = stack /\ s.top = top /\ s.sent = sent
           /\ s.phase = phase /\ s.left = left /\ s.summed = summed
BY DEF State

LEMMA NowFields ==
    ASSUME NEW s, NEW phase, NEW t, t = Now(s, phase)
    PROVE  /\ t.stack = s.stack /\ t.top = s.top /\ t.sent = s.sent
           /\ t.phase = phase /\ t.left = s.left /\ t.summed = s.summed
           /\ \A other : Now(t, other) = Now(s, other)
BY DEF Now, State

\* What does not depend on where a processor is in its life.
Alive(s, t) ==
    /\ t.stack = s.stack /\ t.left = s.left /\ t.summed = s.summed
    /\ s.phase # "over" /\ t.phase # "over"
    /\ live' = live /\ taken' = taken /\ outcome' = outcome
    /\ results' = results /\ contents' = contents
    /\ \A x \in Ran(live) : proc'[x].bytes = proc[x].bytes
QueuesTidy ==
    /\ \A q \in DOMAIN queue : queue[q].putback = <<>>
    /\ \A q \in DOMAIN queue : queue[q].source => \E w \in Ran(live) : proc[w].sink_queue = q
IdleFiles(a) ==
    \A x \in Ran(live) : x[1] = "std" /\ Reader(a, x) \notin Ran(live) => Idle(proc[x])

LEMMA MainAgain ==
    ASSUME NEW a, NEW s, NEW rd, Flow(a, s, rd), NEW t, Alive(s, t),
           Cells(a, rd)', Links(a, rd)', TopOK(a, t, rd)', QueuesTidy', IdleFiles(a)'
    PROVE  Flow(a, t, rd)'
<1>1. /\ LiveShape(a, s) /\ ResultsOK(a, s) /\ ContentsOK(a, s, rd) /\ OutcomeOK(s)
    BY DEF Flow
<1>2. /\ t.stack = s.stack /\ t.left = s.left /\ t.summed = s.summed
      /\ s.phase # "over" /\ t.phase # "over"
      /\ live' = live /\ taken' = taken /\ outcome' = outcome
      /\ results' = results /\ contents' = contents
      /\ \A x \in Ran(live) : proc'[x].bytes = proc[x].bytes
    BY DEF Alive
<1>3. Ran(live)' = Ran(live) /\ Last(live)' = Last(live)
    BY <1>2
<1>4. LiveShape(a, t)'
    BY <1>1, <1>2, <1>3 DEF LiveShape, QueuesTidy, IdleFiles
<1>5. \A x : Result(a, x)' = Result(a, x)
    OBVIOUS
<1>6. ResultsOK(a, t)'
    BY <1>1, <1>2, <1>3 DEF ResultsOK
<1>7. ContentsOK(a, t, rd)'
    BY <1>1, <1>2, <1>3 DEF ContentsOK, Whole
<1>8. OutcomeOK(t)'
    BY <1>1, <1>2 DEF OutcomeOK
<1> QED BY <1>4, <1>6, <1>7, <1>8 DEF Flow

\* Only the phase changes.
LEMMA NowFlow ==
    ASSUME NEW a, NEW s, NEW rd, Flow(a, s, rd), PipelineOK, NEW ph, NEW t, t = Now(s, ph),
           s.phase # "over", ph # "over",
           UNCHANGED <<live, proc, queue, contents, results, taken, outcome>>,
           NEW l, l = Last(live), Phase(a, t, l, proc[l], Items(l)),
           s.phase \in {"closed", "joined"} => ph \in {"closed", "joined"}
    PROVE  Flow(a, t, rd)'
<1>1. /\ t.stack = s.stack /\ t.top = s.top /\ t.sent = s.sent
      /\ t.phase = ph /\ t.left = s.left /\ t.summed = s.summed
    BY NowFields
<1>2. LiveShape(a, s) /\ Cells(a, rd) /\ Links(a, rd) /\ TopOK(a, s, rd)
    BY DEF Flow
<1>3. /\ live' = live /\ proc' = proc /\ queue' = queue /\ contents' = contents
      /\ results' = results /\ taken' = taken /\ outcome' = outcome
    OBVIOUS
<1>4. Alive(s, t)
    BY <1>1, <1>3 DEF Alive
<1>5. \A q : Items(q)' = Items(q)
    BY <1>3 DEF Items
<1>6. Cells(a, rd)'
    BY <1>2, <1>3 DEF Cells, Items
<1>7. Links(a, rd)'
    BY <1>2, <1>3 DEF Links, Items
<1>8. QueuesTidy' /\ IdleFiles(a)'
    BY <1>2, <1>3 DEF QueuesTidy, IdleFiles, LiveShape
<1>9. TopOK(a, t, rd)
  <2>1. \A x : Free(a, t, x) <=> Free(a, s, x)
    BY <1>1 DEF Free
  <2>2. ASSUME live # <<>>
        PROVE  /\ t.top \in Ran(live) /\ IsSink(t.top)
               /\ (\A w \in Ran(live) : proc[w].sink_queue # t.top) => rd[t.top] \o Bytes(Items(t.top)) = t.sent
               /\ Phase(a, t, Last(live), proc[Last(live)], Items(Last(live)))
    BY <1>1, <1>2, <2>2 DEF TopOK
  <2>3. ASSUME live # <<>>
        PROVE  \A x \in Ran(live) : IsSink(x) /\ Closed(proc[x], Items(x)) =>
                x = Last(live) /\ t.phase \in {"closed", "joined"} /\ Free(a, t, x)
    BY <1>1, <1>2, <2>1, <2>3 DEF TopOK
  <2> QED BY <2>2, <2>3 DEF TopOK
<1>10. TopOK(a, t, rd)'
    BY <1>3, <1>9 DEF TopOK, Items
<1> QED BY <1>4, <1>6, <1>7, <1>8, <1>10, MainAgain

\* The last object.
LEMMA LastObject ==
    ASSUME NEW a, NEW s, NEW rd, Flow(a, s, rd), PipelineOK, s.stack # <<>>, NEW p, p = Last(s.stack)
    PROVE  /\ live = s.stack /\ live # <<>> /\ p = Last(live) /\ p \in Ran(live) /\ p \in DOMAIN proc
           /\ Phase(a, s, p, proc[p], Items(p)) /\ proc[p].state \in States /\ ProcShape(proc[p])
           /\ s.phase # "over"
<1>1. live = s.stack /\ (live # <<>> => Phase(a, s, Last(live), proc[Last(live)], Items(Last(live))))
    BY DEF Flow, LiveShape, TopOK
<1>2. IsSeq(live) /\ DOMAIN proc = Ran(live)
    BY DEF PipelineOK, LiveOK
<1>3. Len(live) \in 1 .. Len(live)
    BY <1>1, <1>2, SeqFacts
<1>4. p \in Ran(live)
    BY <1>1, <1>3 DEF Last, Ran
<1>5. proc[p].state \in States /\ ProcShape(proc[p])
    BY <1>2, <1>4 DEF PipelineOK, ProcsOK
<1>6. s.phase # "over"
    BY <1>1 DEF Flow, OutcomeOK
<1> QED BY <1>1, <1>2, <1>4, <1>5, <1>6

\* Nothing writes to a sink on which there is nothing.
LEMMA NoWriter ==
    ASSUME NEW a, NEW s, NEW rd, Flow(a, s, rd), PipelineOK, NEW p \in Ran(live), IsSink(p), Free(a, s, p)
    PROVE  /\ \A w \in Ran(live) : proc[w].sink_queue # p
           /\ p \in DOMAIN queue => queue[p].source = FALSE
<1>1. LiveShape(a, s) /\ live = s.stack
    BY DEF Flow, LiveShape
<1>2. ASSUME NEW w \in Ran(live) PROVE proc[w].sink_queue # p
  <2>1. Cell(a, w, proc[w], rd[w], Items(Feed(w))) /\ IsName(w) /\ IsName(p)
    BY CellFacts
  <2>2. Reader(a, w) # p
    BY <1>1 DEF Free
  <2>3. p # NoQueue
    BY <2>1, NameFacts
  <2>4. Target(a, w) # p
    BY <2>1, <2>2, NameFacts DEF Target, Feed, IsSink, Reader, None, NoQueue
  <2> QED BY <2>1, <2>3, <2>4 DEF Cell, Common
<1>3. p \in DOMAIN queue => queue[p].source = FALSE
  <2>1. p \in DOMAIN queue => queue[p].source \in BOOLEAN
    BY DEF PipelineOK, QueuesOK, QueueShape
  <2>2. p \in DOMAIN queue => ~queue[p].source
    BY <1>1, <1>2 DEF LiveShape
  <2> QED BY <2>1, <2>2
<1> QED BY <1>2, <1>3

\* What the sink that was constructed last has got.
Got(rd, p) == Cat(rd[p], Bytes(Items(p)))

LEMMA TopGot ==
    ASSUME NEW a, NEW s, NEW rd, Flow(a, s, rd), PipelineOK, NEW p \in Ran(live), p = s.top,
           \A w \in Ran(live) : proc[w].sink_queue # p
    PROVE  Got(rd, p) = s.sent
<1>1. live # <<>>
    BY LiveFacts
<1> QED BY <1>1 DEF Flow, TopOK, Cat, Got

LEMMA NotClosed ==
    ASSUME NEW a, NEW s, NEW rd, Flow(a, s, rd), PipelineOK, NEW p \in Ran(live), IsSink(p),
           s.phase \notin {"closed", "joined"}
    PROVE  ~Closed(proc[p], Items(p))
<1>1. live # <<>>
    BY LiveFacts
<1> QED BY <1>1 DEF Flow, TopOK

LEMMA FlushFlow ==
    ASSUME NEW a, NEW s, NEW rd, Flow(a, s, rd), PipelineOK, NEW op, NEW t, FlushRule(a, s, op, t),
           program # <<>>, op = program[1], flush, UNCHANGED commandVars
    PROVE  \/ Flow(a, t, rd)' /\ program' = Tail(program)
           \/ /\ Flow(a, Now(s, "ending"), rd)'
              /\ program' = <<Push(op.p, Eof), Op("join", op.p)>> \o Tail(program)
<1> DEFINE p == op.p
           r == proc[p]
           id == r.source_queue
<1>1. /\ s.phase = "open" /\ s.stack # <<>> /\ p = Last(s.stack)
      /\ s.top = p /\ IsSink(p) /\ s.sent = In(a, p) /\ Free(a, s, p) /\ t = Now(s, "joined")
    BY DEF FlushRule, Ready
<1>2. p = Last(live) /\ p \in Ran(live) /\ p \in DOMAIN proc /\ r.state \in States /\ ProcShape(r)
      /\ Phase(a, s, p, r, Items(p)) /\ s.phase # "over"
    BY <1>1, LastObject
<1>3. /\ p \in DOMAIN queue => queue[p].source = FALSE
      /\ Got(rd, p) = s.sent
  <2>1. p \in Ran(live) /\ IsSink(p) /\ Free(a, s, p)
    BY <1>1, <1>2
  <2> HIDE DEF p
  <2>2. p \in DOMAIN queue => queue[p].source = FALSE
    BY <2>1, NoWriter
  <2>3. \A w \in Ran(live) : proc[w].sink_queue # p
    BY <2>1, NoWriter
  <2>4. p = s.top
    BY <1>1
  <2>5. Got(rd, p) = s.sent
    BY <2>1, <2>3, <2>4, TopGot
  <2> QED BY <2>2, <2>5
<1>4. Cell(a, p, r, rd[p], Items(p)) /\ p[1] # "std" /\ IsName(p) /\ p[1] # "hash"
  <2>1. Cell(a, p, r, rd[p], Items(Feed(p))) /\ IsName(p)
    BY <1>2, CellFacts
  <2> QED BY <1>1, <2>1, NameFacts DEF IsSink
<1>5. UNCHANGED <<live, proc, queue, contents, results, taken, outcome>>
    BY DEF flush, commandVars
<1>6. Argument = p
    BY DEF Argument
<1>7. CASE id = NoQueue
  <2>1. program' = Tail(program)
    BY <1>6, <1>7 DEF flush, Continue
  <2>2. In(a, p) = <<>>
    <3>1. Items(p) = <<>> /\ rd[p] = <<>>
      BY <1>4, <1>7 DEF Cell, Consumer
    <3>2. Bytes(Items(p)) = <<>>
      BY <3>1, BytesNone
    <3>3. Cat(<<>>, <<>>) = <<>>
      BY SeqEmpty DEF Cat
    <3> QED BY <1>1, <1>3, <3>1, <3>2, <3>3 DEF Got
  <2>3. r.state \in {"Uninitialized", "Completed"}
    BY <1>2, <1>4, <2>2 DEF Cell, Common, States
  <2>4. Phase(a, t, p, r, Items(p))
    BY <1>1, <1>4, <2>2, <2>3, NowFields DEF Phase
  <2> HIDE DEF r
  <2>5. Flow(a, t, rd)'
    BY <1>1, <1>2, <1>5, <2>4, NowFlow DEF r
  <2> QED BY <2>1, <2>5
<1>8. CASE id # NoQueue
  <2>1. id = p /\ id \in DOMAIN queue
    <3>1. id = p
      BY <1>1, <1>4, <1>8, NameFacts DEF Cell, Consumer
    <3>2. Source(p) \in DOMAIN queue
      BY <1>2, <1>8, InputShape DEF Source
    <3> QED BY <3>1, <3>2 DEF Source
  <2>2. program' = <<Push(p, Eof), Op("join", p)>> \o Tail(program)
    BY <1>3, <1>6, <1>8, <2>1 DEF flush, Expand
  <2>3. PICK u : u = Now(s, "ending")
    OBVIOUS
  <2>4. Phase(a, u, p, r, Items(p))
    BY <1>1, <1>4, <2>1, <2>3, NowFields DEF Phase
  <2> HIDE DEF r
  <2>5. Flow(a, u, rd)'
    BY <1>1, <1>2, <1>5, <2>3, <2>4, NowFlow DEF r
  <2> QED BY <2>2, <2>3, <2>5
<1> QED BY <1>7, <1>8

\* The last object is asked to stop, or is joined.
Settles(r, q) ==
    /\ q.kind = r.kind /\ q.source_queue = r.source_queue /\ q.sink_queue = r.sink_queue
    /\ q.bytes = r.bytes /\ q.out = r.out /\ q.done = r.done
    /\ q.state = r.state \/ q.state = "Completed"

LEMMA SettleFlow ==
    ASSUME NEW a, NEW s, NEW rd, Flow(a, s, rd), PipelineOK, NEW ph, NEW t, t = Now(s, ph),
           s.phase # "over", ph # "over",
           UNCHANGED <<live, queue, contents, results, taken, outcome>>,
           NEW p \in Ran(live), p = Last(live), NEW q, proc' = [proc EXCEPT ![p] = q],
           Cell(a, p, q, rd[p], Items(Feed(p))), Settles(proc[p], q), Phase(a, t, p, q, Items(p)),
           Reader(a, p) \in Ran(live) => Pending(q) = Pending(proc[p]) /\ Made(q, rd[p]) = Made(proc[p], rd[p]),
           s.phase \in {"closed", "joined"} => ph \in {"closed", "joined"}
    PROVE  Flow(a, t, rd)'
<1> DEFINE r == proc[p]
<1>1. /\ t.stack = s.stack /\ t.top = s.top /\ t.sent = s.sent
      /\ t.phase = ph /\ t.left = s.left /\ t.summed = s.summed
    BY NowFields
<1>2. LiveShape(a, s) /\ Cells(a, rd) /\ Links(a, rd) /\ TopOK(a, s, rd)
    BY DEF Flow
<1>3. /\ live' = live /\ queue' = queue /\ contents' = contents
      /\ results' = results /\ taken' = taken /\ outcome' = outcome
    OBVIOUS
<1>4. p \in DOMAIN proc /\ DOMAIN proc = Ran(live) /\ live # <<>>
    BY LiveFacts
<1>5. DOMAIN proc' = DOMAIN proc /\ proc'[p] = q /\ \A x \in Ran(live) : x # p => proc'[x] = proc[x]
    BY <1>4
<1>6. /\ q.kind = r.kind /\ q.source_queue = r.source_queue /\ q.sink_queue = r.sink_queue
      /\ q.bytes = r.bytes /\ q.out = r.out /\ q.done = r.done
      /\ q.state = r.state \/ q.state = "Completed"
      /\ Reader(a, p) \in Ran(live) => Pending(q) = Pending(r) /\ Made(q, rd[p]) = Made(r, rd[p])
    BY DEF Settles
<1>7. Alive(s, t)
    BY <1>1, <1>3, <1>5, <1>6 DEF Alive
<1>8. \A x : Items(x)' = Items(x)
    BY <1>3 DEF Items
<1>9. Cells(a, rd)'
  <2>1. ASSUME NEW x \in Ran(live) PROVE x \in DOMAIN rd /\ Cell(a, x, proc'[x], rd[x], Items(Feed(x)))
    BY <1>2, <1>5 DEF Cells
  <2> QED BY <1>3, <1>8, <2>1 DEF Cells, Items
<1>10. Links(a, rd)'
  <2>1. ASSUME NEW w \in Ran(live), Reader(a, w) \in Ran(live)
        PROVE  Link(a, w, proc'[w], rd[w], proc'[Reader(a, w)], rd[Reader(a, w)], Items(Feed(Reader(a, w))))
    <3> DEFINE v == Reader(a, w)
               i == Items(Feed(v))
    <3>1. Link(a, w, proc[w], rd[w], proc[v], rd[v], i)
      BY <2>1, CellFacts
    <3>2. v # w
      <4>1. IsName(w)
        BY CellFacts
      <4>2. w # file
        BY <4>1, <2>1, CellFacts, NameFacts DEF IsName, None, Numbered, file, overall
      <4> QED BY <4>1, <4>2, NameFacts
    <3>3. CASE w # p /\ v # p
      BY <1>5, <2>1, <3>1, <3>3
    <3>4. CASE w = p
      <4>1. Link(a, p, q, rd[p], proc[v], rd[v], i)
        <5>1. /\ Link(a, p, r, rd[p], proc[v], rd[v], i)
              /\ Pending(q) = Pending(r) /\ Made(q, rd[p]) = Made(r, rd[p])
          BY <1>6, <2>1, <3>1, <3>4
        <5> HIDE DEF v, i, r
        <5> QED BY <1>6, <5>1 DEF Link
      <4> QED BY <1>5, <2>1, <3>2, <3>4, <4>1
    <3>5. CASE v = p
      <4>1. Closed(q, i) <=> Closed(r, i)
        BY <1>6 DEF Closed
      <4>2. Link(a, w, proc[w], rd[w], q, rd[p], i)
        <5>1. Link(a, w, proc[w], rd[w], r, rd[p], i)
          BY <3>1, <3>5
        <5> HIDE DEF v, i, r
        <5> QED BY <1>6, <4>1, <5>1 DEF Link
      <4> QED BY <1>5, <3>2, <3>5, <4>2
    <3> QED BY <3>3, <3>4, <3>5
  <2> QED BY <1>3, <1>8, <2>1 DEF Links, Items
<1>11. QueuesTidy' /\ IdleFiles(a)'
  <2>1. \A x \in Ran(live) : proc'[x].sink_queue = proc[x].sink_queue
    BY <1>5, <1>6
  <2>2. QueuesTidy'
    BY <1>2, <1>3, <2>1 DEF QueuesTidy, LiveShape
  <2>3. \A x \in Ran(live) : Idle(proc[x]) => Idle(proc'[x])
    BY <1>5, <1>6 DEF Idle
  <2>4. IdleFiles(a)'
    BY <1>2, <1>3, <2>3 DEF IdleFiles, LiveShape
  <2> QED BY <2>2, <2>4
<1>12. TopOK(a, t, rd)'
  <2>1. \A x : Free(a, t, x) <=> Free(a, s, x)
    BY <1>1 DEF Free
  <2>2. /\ t.top \in Ran(live) /\ IsSink(t.top)
        /\ (\A w \in Ran(live) : proc'[w].sink_queue # t.top) => rd[t.top] \o Bytes(Items(t.top)) = t.sent
    <3>1. /\ s.top \in Ran(live) /\ IsSink(s.top)
          /\ (\A w \in Ran(live) : proc[w].sink_queue # s.top) => rd[s.top] \o Bytes(Items(s.top)) = s.sent
      BY <1>2, <1>4 DEF TopOK
    <3>2. \A w \in Ran(live) : proc'[w].sink_queue = proc[w].sink_queue
      BY <1>5, <1>6
    <3> QED BY <1>1, <3>1, <3>2
  <2>3. \A x \in Ran(live) : Closed(proc'[x], Items(x)) <=> Closed(proc[x], Items(x))
    BY <1>5, <1>6 DEF Closed
  <2>4. \A x \in Ran(live) : IsSink(x) /\ Closed(proc'[x], Items(x)) =>
                x = Last(live) /\ t.phase \in {"closed", "joined"} /\ Free(a, t, x)
    BY <1>1, <1>2, <1>4, <2>1, <2>3 DEF TopOK
  <2>5. Phase(a, t, Last(live), proc'[Last(live)], Items(Last(live)))
    BY <1>5
  <2> QED BY <1>3, <1>8, <2>2, <2>4, <2>5 DEF TopOK, Items
<1> QED BY <1>7, <1>9, <1>10, <1>11, <1>12, MainAgain

LEMMA LastFile ==
    ASSUME NEW a, NEW s, NEW rd, Flow(a, s, rd), PipelineOK, NEW p \in Ran(live), p = Last(live), p[1] = "std"
    PROVE  Reader(a, p) \notin Ran(live)
<1> DEFINE v == Reader(a, p)
<1>1. v[1] = "hash"
    BY CellFacts, NameFacts
<1>2. v # p /\ ~IsSink(v) /\ v[1] # "std"
    BY <1>1 DEF IsSink
<1> HIDE DEF v
<1>3. v \notin Ran(live)
    BY <1>2 DEF Flow, LiveShape
<1> QED BY <1>3 DEF v

LEMMA StopFlow ==
    ASSUME NEW a, NEW s, NEW rd, Flow(a, s, rd), PipelineOK, NEW op, NEW t, StopRule(a, s, op, t),
           program # <<>>, op = program[1], stop, UNCHANGED commandVars
    PROVE  /\ Flow(a, t, rd)'
           /\ program' = Tail(program) \/ program' = <<Op("join", op.p)>> \o Tail(program)
<1> DEFINE p == op.p
           r == proc[p]
           i == Items(Feed(p))
<1>1. /\ s.stack # <<>> /\ p = Last(s.stack) /\ t = Now(s, "joined")
      /\ \/ s.phase = "joined" /\ p[1] # "std"
         \/ s.phase = "open" /\ p[1] = "hash" /\ In(a, p) = <<>>
         \/ s.phase = "open" /\ p[1] = "std" /\ Reader(a, p) \notin Ran(s.stack)
    BY DEF StopRule
<1>2. /\ live = s.stack /\ p = Last(live) /\ p \in Ran(live) /\ p \in DOMAIN proc /\ r.state \in States
      /\ ProcShape(r) /\ Phase(a, s, p, r, Items(p)) /\ s.phase # "over"
    BY <1>1, LastObject
<1>3. Cell(a, p, r, rd[p], i) /\ IsName(p)
    BY <1>2, CellFacts
<1>4. UNCHANGED <<live, queue, contents, results, taken, outcome>>
    BY DEF stop, commandVars
<1>5. Argument = p
    BY DEF Argument
<1>6. PICK q : q = [r EXCEPT !.stop_requested = r.stop_requested \/ Working(p)]
    OBVIOUS
<1>7. proc' = [proc EXCEPT ![p] = q]
    BY <1>2, <1>5, <1>6 DEF stop
<1>8. program' = Tail(program) \/ program' = <<Op("join", p)>> \o Tail(program)
    BY <1>5 DEF stop, Continue, Expand
<1>9. p[1] # "std" => r.state \in {"Uninitialized", "Completed"} /\ (In(a, p) # <<>> => r.state = "Completed")
    BY <1>1, <1>2, <1>3 DEF Phase, Cell, Common, States
<1>10. Working(p) => r.done /\ r.out = <<>>
  <2>1. p[1] = "std" => Idle(r)
    BY <1>1, <1>2 DEF Flow, LiveShape
  <2> QED BY <1>9, <2>1 DEF Idle, Working
<1>11. /\ q.kind = r.kind /\ q.arg = r.arg /\ q.source_queue = r.source_queue /\ q.sink_queue = r.sink_queue
       /\ q.pass_eof = r.pass_eof /\ q.bytes = r.bytes /\ q.buffer = r.buffer /\ q.out = r.out
       /\ q.done = r.done /\ q.state = r.state
  <2>1. DOMAIN r = ProcFields
    BY <1>2 DEF ProcShape
  <2> HIDE DEF r
  <2> QED BY <1>6, <2>1 DEF ProcFields
<1>12. q.stop_requested => r.done /\ r.out = <<>>
  <2>1. DOMAIN r = ProcFields
    BY <1>2 DEF ProcShape
  <2>2. q.stop_requested = (r.stop_requested \/ Working(p))
    BY <1>6, <2>1 DEF ProcFields
  <2> QED BY <1>3, <1>10, <2>2 DEF Cell, Common
<1> HIDE DEF r, i
<1>13. Cell(a, p, q, rd[p], i)
  <2>1. Common(a, p, q)
    BY <1>3, <1>11, <1>12 DEF Cell, Common, Untouched
  <2>2. Producer(a, p, r) => Producer(a, p, q)
    BY <1>11 DEF Producer
  <2>3. Consumer(a, p, r, rd[p], i) => Consumer(a, p, q, rd[p], i)
    BY <1>11 DEF Consumer, Closed
  <2> QED BY <1>3, <2>1, <2>2, <2>3 DEF Cell
<1>14. Settles(r, q)
    BY <1>11 DEF Settles
<1>15. Pending(q) = Pending(r) /\ Made(q, rd[p]) = Made(r, rd[p])
    BY <1>11 DEF Pending, Made
<1>16. Phase(a, t, p, q, Items(p))
  <2>1. t.phase = "joined" /\ t.sent = s.sent /\ t.top = s.top
    BY <1>1, NowFields
  <2> QED BY <1>1, <1>2, <1>9, <1>11, <2>1 DEF Phase, r
<1>17. Flow(a, t, rd)'
    BY <1>1, <1>2, <1>4, <1>7, <1>13, <1>14, <1>15, <1>16, SettleFlow DEF r, i
<1> QED BY <1>8, <1>17

LEMMA JoinFlow ==
    ASSUME NEW a, NEW s, NEW rd, Flow(a, s, rd), PipelineOK, NEW op, NEW t, JoinRule(a, s, op, t),
           program # <<>>, op = program[1], join, UNCHANGED commandVars
    PROVE  Flow(a, t, rd)' /\ program' = Tail(program)
<1> DEFINE p == op.p
           r == proc[p]
           i == Items(Feed(p))
<1>1. /\ s.stack # <<>> /\ p = Last(s.stack) /\ t = Now(s, "joined")
      /\ s.phase \in {"running", "closed", "joined"}
      /\ s.phase = "running" => ~IsSink(p)
    BY DEF JoinRule
<1>2. /\ live = s.stack /\ p = Last(live) /\ p \in Ran(live) /\ p \in DOMAIN proc /\ r.state \in States
      /\ ProcShape(r) /\ Phase(a, s, p, r, Items(p)) /\ s.phase # "over"
    BY <1>1, LastObject
<1>3. Cell(a, p, r, rd[p], i) /\ IsName(p)
    BY <1>2, CellFacts
<1>4. UNCHANGED <<live, queue, contents, results, taken, outcome>> /\ program' = Tail(program)
    BY DEF join, commandVars, Continue
<1>5. Argument = p
    BY DEF Argument
<1>6. PICK q : q = [r EXCEPT !.state = "Completed"]
    OBVIOUS
<1>7. proc' = [proc EXCEPT ![p] = q] /\ r.state \in {"Uninitialized", "Completed"}
    BY <1>2, <1>5, <1>6 DEF join
<1>8. /\ q.kind = r.kind /\ q.arg = r.arg /\ q.source_queue = r.source_queue /\ q.sink_queue = r.sink_queue
      /\ q.pass_eof = r.pass_eof /\ q.bytes = r.bytes /\ q.buffer = r.buffer /\ q.out = r.out
      /\ q.done = r.done /\ q.stop_requested = r.stop_requested /\ q.state = "Completed"
  <2>1. DOMAIN r = ProcFields
    BY <1>2 DEF ProcShape
  <2> HIDE DEF r
  <2> QED BY <1>6, <2>1 DEF ProcFields
<1>9. p[1] # "std" /\ r.state = "Uninitialized" => In(a, p) = <<>>
  <2>1. SUFFICES ASSUME p[1] # "std", r.state = "Uninitialized" PROVE In(a, p) = <<>>
    OBVIOUS
  <2>2. CASE s.phase = "joined"
    BY <1>2, <2>1, <2>2 DEF Phase
  <2>3. CASE s.phase = "running"
    <3>1. p[1] = "hash"
      BY <1>1, <2>1, <2>3 DEF IsSink
    <3> QED BY <1>2, <2>1, <2>3, <3>1 DEF Phase
  <2>4. CASE s.phase = "closed"
    <3>1. IsSink(p) /\ Closed(r, Items(p))
      BY <1>2, <2>4 DEF Phase
    <3>2. Feed(p) = p
      BY <1>3, <3>1, NameFacts
    <3>3. In(a, p) = rd[p] \o Bytes(i) /\ rd[p] = <<>> /\ Bytes(i) = <<>>
      BY <1>3, <2>1, <3>1, <3>2 DEF Cell, Consumer
    <3>4. <<>> \o <<>> = <<>>
      BY SeqEmpty
    <3> QED BY <3>3, <3>4
  <2> QED BY <1>1, <2>2, <2>3, <2>4
<1>a. In(a, p) # <<>> /\ p[1] # "std" => r.state = "Completed"
    BY <1>7, <1>9
<1> HIDE DEF r, i
<1>10. Cell(a, p, q, rd[p], i)
  <2>1. Common(a, p, q)
    BY <1>3, <1>7, <1>8 DEF Cell, Common, Untouched
  <2>2. Producer(a, p, r) => Producer(a, p, q)
    BY <1>8 DEF Producer
  <2>3. p[1] # "std" /\ Consumer(a, p, r, rd[p], i) => Consumer(a, p, q, rd[p], i)
    BY <1>7, <1>8, <1>9, <1>a DEF Consumer, Closed
  <2> QED BY <1>3, <2>1, <2>2, <2>3 DEF Cell
<1>11. Settles(r, q)
    BY <1>8 DEF Settles
<1>12. Reader(a, p) \in Ran(live) => Pending(q) = Pending(r) /\ Made(q, rd[p]) = Made(r, rd[p])
  <2>1. Reader(a, p) \in Ran(live) => p[1] # "std"
    BY <1>2, LastFile
  <2>2. p[1] # "std" => r.kind # "StdStreamSource"
    BY <1>3, KindFacts DEF Cell, Common
  <2> QED BY <1>8, <2>1, <2>2 DEF Pending, Made
<1>13. Phase(a, t, p, q, Items(p))
  <2>1. t.phase = "joined" /\ t.sent = s.sent /\ t.top = s.top
    BY <1>1, NowFields
  <2>2. Phase(a, s, p, r, Items(p))
    BY <1>2 DEF r
  <2> QED BY <1>8, <2>1, <2>2 DEF Phase
<1>14. Flow(a, t, rd)'
    BY <1>1, <1>2, <1>4, <1>7, <1>10, <1>11, <1>12, <1>13, SettleFlow DEF r, i
<1> QED BY <1>4, <1>14

\* The main thread puts a segment into the queue of the sink on top.
LEMMA PushFlow ==
    ASSUME NEW a, NEW s, NEW rd, Flow(a, s, rd), PipelineOK, NEW p \in Ran(live),
           p = Last(live), p = s.top, IsSink(p), Free(a, s, p), s.phase \in {"fed", "ending"},
           NEW x, IsSegment(x), x.type = "Data" \/ x = Eof, s.phase = "ending" => x = Eof,
           Begins(Cat(s.sent, x.data), In(a, p)), x = Eof => s.sent = In(a, p),
           NEW ph, ph = IF x = Eof THEN "closed" ELSE "open",
           NEW t, t = State(s.stack, s.top, Cat(s.sent, x.data), ph, s.left, s.summed),
           p \in DOMAIN queue => queue' = [queue EXCEPT ![p].items = Append(@, x)],
           UNCHANGED <<live, proc, contents, results, taken, outcome>>
    PROVE  Flow(a, t, rd)'
<1> DEFINE r == proc[p]
           i == Items(p)
           j == Append(i, x)
<1>1. /\ t.stack = s.stack /\ t.top = s.top /\ t.sent = Cat(s.sent, x.data)
      /\ t.phase = ph /\ t.left = s.left /\ t.summed = s.summed
    BY StateFields
<1>2. /\ LiveShape(a, s) /\ Cells(a, rd) /\ Links(a, rd) /\ TopOK(a, s, rd) /\ live = s.stack
      /\ live # <<>> /\ DOMAIN proc = Ran(live) /\ AreSegments(i) /\ Phase(a, s, p, r, i)
    BY LiveFacts DEF Flow, LiveShape, TopOK
<1>3. Cell(a, p, r, rd[p], i) /\ IsName(p) /\ Feed(p) = p /\ p[1] # "std" /\ p[1] # "hash"
  <2>1. Cell(a, p, r, rd[p], Items(Feed(p))) /\ IsName(p)
    BY CellFacts
  <2> QED BY <2>1, NameFacts DEF IsSink
<1>4. r.source_queue = p /\ p # NoQueue /\ p \in DOMAIN queue
  <2>1. r.source_queue = p /\ p # NoQueue
    BY <1>2, <1>3, NameFacts DEF Phase
  <2>2. Source(p) \in DOMAIN queue
    BY <1>2, <2>1, InputShape DEF Source
  <2> QED BY <2>1, <2>2 DEF Source
<1>5. \A w \in Ran(live) : proc[w].sink_queue # p
    BY NoWriter
<1>6. Got(rd, p) = s.sent
    BY <1>5, TopGot
<1>7. ~Closed(r, i)
    BY NotClosed
<1>8. x.data = <<>> \/ r.state # "Uninitialized"
  <2>1. Eof.data = <<>>
    BY DEF Eof
  <2> QED BY <1>2, <2>1 DEF Phase
<1> HIDE DEF r, i
<1>9. /\ Cell(a, p, r, rd[p], j)
      /\ Cat(rd[p], Bytes(j)) = Cat(Cat(rd[p], Bytes(i)), x.data)
      /\ Closed(r, j) <=> x = Eof
  <2>1. r.source_queue # NoQueue /\ (r.state = "Uninitialized" => x.data = <<>>)
    BY <1>4, <1>8
  <2>2. Cat(rd[p], Bytes(i)) = s.sent
    BY <1>6 DEF Got, i
  <2>3. Begins(Cat(Cat(rd[p], Bytes(i)), x.data), In(a, p)) /\ (x = Eof => Cat(rd[p], Bytes(i)) = In(a, p))
    BY <2>2
  <2> QED BY <1>2, <1>3, <1>7, <2>1, <2>3, GetCell
<1>10. Cat(rd[p], Bytes(j)) = t.sent
    BY <1>1, <1>6, <1>9 DEF Got, i
<1>11. /\ DOMAIN queue' = DOMAIN queue /\ \A y \in DOMAIN queue : y # p => queue'[y] = queue[y]
       /\ queue'[p] = [queue[p] EXCEPT !.items = Append(queue[p].items, x)]
    BY <1>4
<1>12. /\ Items(p)' = j /\ \A y : y # p => Items(y)' = Items(y)
       /\ \A y \in DOMAIN queue : queue'[y].putback = queue[y].putback /\ queue'[y].source = queue[y].source
  <2>1. DOMAIN queue[p] = {"items", "putback", "source"}
    BY <1>4 DEF PipelineOK, QueuesOK, QueueShape
  <2>2. /\ queue'[p].putback = queue[p].putback /\ queue'[p].source = queue[p].source
        /\ queue'[p].items = Append(queue[p].items, x)
    BY <1>11, <2>1
  <2>3. Items(p)' = j
    BY <1>4, <1>11, <2>2 DEF Items, i
  <2>4. \A y : y # p => Items(y)' = Items(y)
    BY <1>11 DEF Items
  <2> QED BY <1>11, <2>2, <2>3, <2>4
<1>13. live' = live /\ proc' = proc /\ contents' = contents /\ results' = results /\ taken' = taken /\ outcome' = outcome
    OBVIOUS
<1>14. \A y : y # p => Feed(y) # p
    BY <1>3 DEF Feed
<1>15. Alive(s, t)
  <2>1. s.phase # "over" /\ t.phase # "over"
    BY <1>1
  <2> QED BY <1>1, <1>13, <2>1 DEF Alive
<1> HIDE DEF j
<1>16. Cells(a, rd)'
  <2>1. ASSUME NEW y \in Ran(live) PROVE y \in DOMAIN rd /\ Cell(a, y, proc[y], rd[y], Items(Feed(y))')
    <3>1. CASE y = p
      BY <1>2, <1>3, <1>9, <1>12, <3>1 DEF Cells, r
    <3>2. CASE y # p
      <4>1. Items(Feed(y))' = Items(Feed(y))
        BY <1>12, <1>14, <3>2
      <4> QED BY <1>2, <4>1 DEF Cells
    <3> QED BY <3>1, <3>2
  <2> QED BY <1>13, <2>1 DEF Cells
<1>17. Links(a, rd)'
  <2>1. ASSUME NEW w \in Ran(live), Reader(a, w) \in Ran(live)
        PROVE  Link(a, w, proc[w], rd[w], proc[Reader(a, w)], rd[Reader(a, w)], Items(Feed(Reader(a, w)))')
    <3>1. Reader(a, w) # p
      BY <1>2 DEF Free
    <3>2. Items(Feed(Reader(a, w)))' = Items(Feed(Reader(a, w)))
      BY <1>12, <1>14, <3>1
    <3> QED BY <1>2, <2>1, <3>2 DEF Links
  <2> QED BY <1>13, <2>1 DEF Links
<1>18. QueuesTidy' /\ IdleFiles(a)'
    BY <1>2, <1>11, <1>12, <1>13 DEF QueuesTidy, IdleFiles, LiveShape
<1>19. TopOK(a, t, rd)'
  <2>1. Free(a, t, p)
    BY <1>1 DEF Free
  <2>2. rd[p] \o Bytes(Items(p)') = t.sent
    BY <1>10, <1>12 DEF Cat
  <2>3. ASSUME NEW y \in Ran(live), IsSink(y), Closed(proc[y], Items(y)')
        PROVE  y = Last(live) /\ t.phase \in {"closed", "joined"} /\ Free(a, t, y)
    <3>1. y # p => ~Closed(proc[y], Items(y))
      BY <2>3, NotClosed
    <3>2. y = p
      BY <1>12, <2>3, <3>1
    <3>3. x = Eof
      BY <1>9, <1>12, <2>3, <3>2 DEF r
    <3> QED BY <1>1, <2>1, <3>2, <3>3
  <2>4. Phase(a, t, p, r, j)
    BY <1>1, <1>3, <1>9 DEF Phase
  <2>5. Last(live)' = p
    BY <1>13
  <2> QED BY <1>1, <1>12, <1>13, <2>2, <2>3, <2>4, <2>5 DEF TopOK, r
<1> QED BY <1>15, <1>16, <1>17, <1>18, <1>19, MainAgain

LEMMA PushSegmentFlow ==
    ASSUME NEW a, NEW s, NEW rd, Flow(a, s, rd), PipelineOK, NEW op, NEW t,
           DataRule(a, s, op, t) \/ EofRule(a, s, op, t),
           program # <<>>, op = program[1], PushSegment, UNCHANGED commandVars
    PROVE  Flow(a, t, rd)' /\ program' = Tail(program)
<1> DEFINE p == op.p
           x == op.segment
<1>1. s.stack # <<>> /\ p = Last(s.stack) /\ s.top = p /\ IsSink(p) /\ Free(a, s, p)
    BY DEF DataRule, EofRule, CanWrite, Ready
<1>2. p = Last(live) /\ p \in Ran(live)
    BY <1>1, LastObject
<1>3. /\ live' = live /\ proc' = proc /\ contents' = contents /\ results' = results
      /\ taken' = taken /\ outcome' = outcome /\ program' = Tail(program)
      /\ queue' = [queue EXCEPT ![p].items = Append(@, x)]
    BY DEF PushSegment, commandVars, Continue, Argument
<1>4. IsSeq(s.sent)
  <2>1. \A w \in Ran(live) : proc[w].sink_queue # p
    BY <1>1, <1>2, NoWriter
  <2>2. Got(rd, p) = s.sent
    BY <1>1, <1>2, <2>1, TopGot
  <2>3. IsSeq(rd[p]) /\ IsSeq(Bytes(Items(Feed(p)))) /\ Feed(p) = p
    BY <1>1, <1>2, CellFacts, NameFacts DEF IsSink
  <2> QED BY <2>2, <2>3, SeqConcat DEF Got, Cat
<1>5. CASE DataRule(a, s, op, t)
  <2>1. /\ x = Data(x.data) /\ IsSeq(x.data) /\ Begins(s.sent \o x.data, In(a, p)) /\ s.phase = "fed"
        /\ t = State(s.stack, s.top, s.sent \o x.data, "open", s.left, s.summed)
    BY <1>5 DEF DataRule, CanWrite
  <2>2. IsSegment(x) /\ x.type = "Data" /\ x # Eof
    <3>1. IsSegment(x)
      BY <2>1 DEF IsSegment
    <3>2. x.type = "Data"
      BY <2>1 DEF Data
    <3>3. Eof.type # "Data"
      BY DEF Eof
    <3> QED BY <3>1, <3>2, <3>3
  <2>3. /\ Begins(Cat(s.sent, x.data), In(a, p))
        /\ t = State(s.stack, s.top, Cat(s.sent, x.data), "open", s.left, s.summed)
    BY <2>1 DEF Cat
  <2> HIDE DEF p, x
  <2> QED BY <1>1, <1>2, <1>3, <2>1, <2>2, <2>3, PushFlow
<1>6. CASE EofRule(a, s, op, t)
  <2>1. x = Eof /\ s.sent = In(a, p) /\ s.phase = "ending" /\ t = Now(s, "closed")
    BY <1>6 DEF EofRule, Ready
  <2>2. IsSegment(x) /\ x.data = <<>>
    BY <2>1 DEF IsSegment, Eof
  <2>3. Cat(s.sent, x.data) = s.sent
    BY <1>4, <2>2, SeqEmpty DEF Cat
  <2>4. /\ Begins(Cat(s.sent, x.data), In(a, p))
        /\ t = State(s.stack, s.top, Cat(s.sent, x.data), "closed", s.left, s.summed)
    BY <1>4, <2>1, <2>3, BeginsSelf DEF Now
  <2> HIDE DEF p, x
  <2> QED BY <1>1, <1>2, <1>3, <2>1, <2>2, <2>4, PushFlow
<1> QED BY <1>5, <1>6

\* All that were not running yet are started.
Launches(r, q) ==
    /\ q.kind = r.kind /\ q.arg = r.arg /\ q.sink_queue = r.sink_queue
    /\ q.pass_eof = r.pass_eof /\ q.stop_requested = r.stop_requested
    /\ q.buffer = r.buffer /\ q.bytes = r.bytes /\ q.out = r.out /\ q.done = r.done
    /\ q.state = IF r.state = "Uninitialized" THEN "Starting" ELSE r.state

LEMMA LaunchCell ==
    ASSUME NEW a, NEW x, NEW r, NEW d, NEW i, Cell(a, x, r, d, i), NEW q, Launches(r, q),
           q.source_queue \in {r.source_queue, Feed(x)}, Feed(x) # NoQueue,
           x[1] = "std" => q.source_queue = r.source_queue,
           In(a, x) # <<>>, x # file /\ x[1] # "std" => r.sink_queue # NoQueue
    PROVE  /\ Cell(a, x, q, d, i) /\ (Closed(q, i) <=> Closed(r, i))
           /\ Pending(q) = Pending(r) /\ Made(q, d) = Made(r, d)
<1>1. /\ q.kind = r.kind /\ q.arg = r.arg /\ q.sink_queue = r.sink_queue
      /\ q.pass_eof = r.pass_eof /\ q.stop_requested = r.stop_requested
      /\ q.buffer = r.buffer /\ q.bytes = r.bytes /\ q.out = r.out /\ q.done = r.done
      /\ q.state = IF r.state = "Uninitialized" THEN "Starting" ELSE r.state
    BY DEF Launches
<1>2. Closed(q, i) <=> Closed(r, i)
    BY <1>1 DEF Closed
<1>3. Common(a, x, q)
    BY <1>1 DEF Cell, Common, Untouched
<1>4. x[1] = "std" => Producer(a, x, q)
    BY <1>1 DEF Cell, Producer
<1>5. ASSUME x[1] # "std" PROVE Consumer(a, x, q, d, i)
  <2>1. Consumer(a, x, r, d, i)
    BY <1>5 DEF Cell
  <2> QED BY <1>1, <1>2, <1>5, <2>1 DEF Consumer
<1>6. Pending(q) = Pending(r) /\ Made(q, d) = Made(r, d)
    BY <1>1 DEF Pending, Made
<1> QED BY <1>2, <1>3, <1>4, <1>5, <1>6 DEF Cell

LEMMA LaunchFlow ==
    ASSUME NEW a, NEW s, NEW rd, Flow(a, s, rd), PipelineOK, NEW ph, NEW t, t = Now(s, ph),
           s.phase \notin {"closed", "joined", "over"}, ph # "over", Used(a, s),
           NEW p \in Ran(live), p = Last(live),
           ~IsSink(p) => p[1] = "hash" /\ proc[p].sink_queue # NoQueue,
           \A x \in Ran(live) : Launches(proc[x], proc'[x]),
           \A x \in Ran(live) : proc'[x].source_queue = proc[x].source_queue
                                \/ (x = p /\ IsSink(p) /\ Free(a, s, p) /\ proc'[x].source_queue = p),
           \A y : Items(y)' = Items(y), QueuesTidy',
           UNCHANGED <<live, contents, results, taken, outcome>>,
           Phase(a, t, p, proc[p], Items(p))'
    PROVE  Flow(a, t, rd)'
<1>1. /\ t.stack = s.stack /\ t.top = s.top /\ t.sent = s.sent
      /\ t.phase = ph /\ t.left = s.left /\ t.summed = s.summed
    BY NowFields
<1>2. /\ LiveShape(a, s) /\ Cells(a, rd) /\ Links(a, rd) /\ TopOK(a, s, rd) /\ live = s.stack
      /\ live # <<>> /\ DOMAIN proc = Ran(live)
    BY LiveFacts DEF Flow, LiveShape
<1>3. live' = live /\ contents' = contents /\ results' = results /\ taken' = taken /\ outcome' = outcome
    OBVIOUS
<1>4. ASSUME NEW x \in Ran(live)
      PROVE  /\ proc'[x].sink_queue = proc[x].sink_queue /\ proc'[x].bytes = proc[x].bytes
             /\ proc'[x].state # "Uninitialized"
             /\ proc[x].state # "Uninitialized" => proc'[x].state = proc[x].state
             /\ proc'[x].done = proc[x].done /\ proc'[x].out = proc[x].out
             /\ proc'[x].kind = proc[x].kind
    BY DEF Launches
<1>5. Alive(s, t)
    BY <1>1, <1>3, <1>4 DEF Alive
<1>6. ASSUME NEW x \in Ran(live) PROVE x[1] = "std" => Reader(a, x) = p /\ p[1] = "hash"
  <2>1. x[1] = "std" => ~IsSink(x) /\ Reader(a, x)[1] = "hash"
    BY CellFacts, NameFacts DEF IsSink
  <2>2. IsSink(x) \/ x = p \/ Reader(a, x) = p
    BY <1>2 DEF LiveShape
  <2>3. x = p => (~IsSink(x) => x[1] = "hash")
    OBVIOUS
  <2> QED BY <2>1, <2>2, <2>3
<1>7. ASSUME NEW x \in Ran(live)
      PROVE  /\ x \in DOMAIN rd /\ Cell(a, x, proc'[x], rd[x], Items(Feed(x)))
             /\ Closed(proc'[x], Items(Feed(x))) <=> Closed(proc[x], Items(Feed(x)))
             /\ Pending(proc'[x]) = Pending(proc[x]) /\ Made(proc'[x], rd[x]) = Made(proc[x], rd[x])
  <2> DEFINE r == proc[x]
             q == proc'[x]
             i == Items(Feed(x))
  <2>1. Cell(a, x, r, rd[x], i) /\ IsName(x) /\ x \in DOMAIN rd
    BY CellFacts
  <2>2. Launches(r, q) /\ In(a, x) # <<>>
    BY <1>2 DEF Used
  <2>3. Feed(x) # NoQueue /\ (IsSink(x) => Feed(x) = x)
    BY <2>1, NameFacts
  <2>4. q.source_queue \in {r.source_queue, Feed(x)}
    BY <2>3
  <2>5. x[1] = "std" => q.source_queue = r.source_queue
    BY DEF IsSink
  <2>6. x # file /\ x[1] # "std" => r.sink_queue # NoQueue
    <3>1. SUFFICES ASSUME x # file, x[1] # "std" PROVE r.sink_queue # NoQueue
      OBVIOUS
    <3>2. CASE x[1] = "hash"
      <4>1. ~IsSink(x)
        BY <3>2 DEF IsSink
      <4>2. x = p
        BY <1>2, <3>1, <4>1 DEF LiveShape
      <4> QED BY <4>1, <4>2
    <3>3. CASE x[1] # "hash"
      <4>1. Reader(a, x) \in Ran(live)
        BY <3>1, CellFacts
      <4>2. Link(a, x, proc[x], rd[x], proc[Reader(a, x)], rd[Reader(a, x)], Items(Feed(Reader(a, x))))
        BY <4>1, CellFacts
      <4> QED BY <3>3, <4>2 DEF Link
    <3> QED BY <3>2, <3>3
  <2> HIDE DEF r, q, i
  <2>7. /\ Cell(a, x, q, rd[x], i) /\ (Closed(q, i) <=> Closed(r, i))
        /\ Pending(q) = Pending(r) /\ Made(q, rd[x]) = Made(r, rd[x])
    BY <2>1, <2>2, <2>3, <2>4, <2>5, <2>6, LaunchCell
  <2> QED BY <2>1, <2>7 DEF r, q, i
<1>8. Cells(a, rd)'
    BY <1>3, <1>7 DEF Cells
<1>9. Links(a, rd)'
  <2>1. ASSUME NEW w \in Ran(live), Reader(a, w) \in Ran(live)
        PROVE  Link(a, w, proc'[w], rd[w], proc'[Reader(a, w)], rd[Reader(a, w)], Items(Feed(Reader(a, w))))
    <3>1. PICK v : v = Reader(a, w)
      OBVIOUS
    <3>2. PICK i : i = Items(Feed(v))
      OBVIOUS
    <3>3. Link(a, w, proc[w], rd[w], proc[v], rd[v], i)
      BY <2>1, <3>1, <3>2, CellFacts
    <3>4. proc'[v].source_queue = proc[v].source_queue
      BY <1>2, <2>1, <3>1 DEF Free
    <3>5. /\ proc'[w].sink_queue = proc[w].sink_queue /\ Pending(proc'[w]) = Pending(proc[w])
          /\ Made(proc'[w], rd[w]) = Made(proc[w], rd[w]) /\ proc'[v].state # "Uninitialized"
          /\ proc'[w].done = proc[w].done /\ proc'[w].out = proc[w].out
          /\ Closed(proc'[v], i) <=> Closed(proc[v], i)
      BY <1>4, <1>7, <2>1, <3>1, <3>2
    <3>6. Link(a, w, proc'[w], rd[w], proc'[v], rd[v], i)
      BY <3>3, <3>4, <3>5 DEF Link
    <3> QED BY <3>1, <3>2, <3>6
  <2> QED BY <1>3, <2>1 DEF Links
<1>10. IdleFiles(a)'
    BY <1>3, <1>6 DEF IdleFiles
<1>11. TopOK(a, t, rd)'
  <2>1. \A x \in Ran(live) : proc'[x].sink_queue = proc[x].sink_queue
    BY <1>4
  <2>2. /\ t.top \in Ran(live) /\ IsSink(t.top)
        /\ (\A w \in Ran(live) : proc'[w].sink_queue # t.top) => rd[t.top] \o Bytes(Items(t.top)) = t.sent
    BY <1>1, <1>2, <2>1 DEF TopOK
  <2>3. ASSUME NEW x \in Ran(live), IsSink(x) PROVE ~Closed(proc'[x], Items(x))
    <3>1. Feed(x) = x
      BY <2>3, CellFacts, NameFacts
    <3>2. ~Closed(proc[x], Items(x))
      BY <2>3, NotClosed
    <3> QED BY <1>7, <3>1, <3>2
  <2>4. Phase(a, t, p, proc'[p], Items(p)) /\ Last(live)' = p
    BY <1>3
  <2> QED BY <1>3, <2>2, <2>3, <2>4 DEF TopOK
<1> QED BY <1>5, <1>8, <1>9, <1>10, <1>11, MainAgain

LEMMA StartedLaunches ==
    ASSUME NEW r, ProcShape(r)
    PROVE  /\ Launches(r, Started(r)) /\ Started(r).source_queue = r.source_queue
<1>1. DOMAIN r = ProcFields
    BY DEF ProcShape
<1> QED BY <1>1 DEF Launches, Started, ProcFields

LEMMA StartedReading ==
    ASSUME NEW r, ProcShape(r), NEW k, NEW c, c = Started([r EXCEPT !.source_queue = k])
    PROVE  Launches(r, c) /\ c.source_queue = k
<1>1. PICK b : b = [r EXCEPT !.source_queue = k]
    OBVIOUS
<1>2. DOMAIN r = ProcFields
    BY DEF ProcShape
<1>3. DOMAIN b = ProcFields /\ b.source_queue = k
    BY <1>1, <1>2 DEF ProcFields
<1>4. /\ b.kind = r.kind /\ b.arg = r.arg /\ b.sink_queue = r.sink_queue
      /\ b.pass_eof = r.pass_eof /\ b.stop_requested = r.stop_requested
      /\ b.buffer = r.buffer /\ b.bytes = r.bytes /\ b.out = r.out /\ b.done = r.done
      /\ b.state = r.state
    BY <1>1, <1>2 DEF ProcFields
<1>5. c = Started(b)
    BY <1>1
<1>6. Launches(b, c) /\ c.source_queue = b.source_queue
    BY <1>3, <1>5 DEF Launches, Started, ProcFields
<1> QED BY <1>3, <1>4, <1>6 DEF Launches

LEMMA StartFlow ==
    ASSUME NEW a, NEW s, NEW rd, Flow(a, s, rd), PipelineOK, NEW op, NEW t, StartRule(a, s, op, t),
           program # <<>>, op = program[1], StartAll, UNCHANGED commandVars
    PROVE  Flow(a, t, rd)' /\ program' = Tail(program)
<1>1. s.stack # <<>> /\ s.phase = "linked" /\ Used(a, s) /\ t = Now(s, "running")
    BY DEF StartRule
<1>2. PICK p : p = Last(s.stack)
    OBVIOUS
<1>3. /\ live = s.stack /\ p = Last(live) /\ p \in Ran(live) /\ Phase(a, s, p, proc[p], Items(p))
    BY <1>1, <1>2, LastObject
<1>4. p[1] = "hash" /\ proc[p].sink_queue # NoQueue /\ ~IsSink(p)
    BY <1>1, <1>3 DEF Phase, IsSink
<1>5. /\ live' = live /\ queue' = queue /\ contents' = contents /\ results' = results
      /\ taken' = taken /\ outcome' = outcome /\ program' = Tail(program)
      /\ proc' = [x \in DOMAIN proc |-> Started(proc[x])]
    BY DEF StartAll, commandVars, Continue
<1>6. \A x \in Ran(live) : Launches(proc[x], proc'[x]) /\ proc'[x].source_queue = proc[x].source_queue
    BY <1>5, LiveFacts, StartedLaunches
<1>7. \A y : Items(y)' = Items(y)
    BY <1>5 DEF Items
<1>8. QueuesTidy'
  <2>1. \A x \in Ran(live) : proc'[x].sink_queue = proc[x].sink_queue
    BY <1>6 DEF Launches
  <2>2. LiveShape(a, s)
    BY DEF Flow
  <2>3. live' = live /\ queue' = queue
    BY <1>5
  <2> QED BY <2>1, <2>2, <2>3 DEF QueuesTidy, LiveShape
<1>9. Phase(a, t, p, proc[p], Items(p))'
  <2>1. t.phase = "running" /\ t.sent = s.sent /\ t.top = s.top
    BY <1>1, NowFields
  <2>2. proc'[p].sink_queue = proc[p].sink_queue /\ proc'[p].state # "Uninitialized"
    BY <1>3, <1>6 DEF Launches
  <2>3. Phase(a, t, p, proc'[p], Items(p))
    BY <1>1, <1>3, <1>4, <2>1, <2>2 DEF Phase
  <2> QED BY <1>7, <2>3
<1> QED BY <1>1, <1>3, <1>4, <1>5, <1>6, <1>7, <1>8, <1>9, LaunchFlow

LEMMA SynchronousWriteFlow ==
    ASSUME NEW a, NEW s, NEW rd, Flow(a, s, rd), PipelineOK, NEW op, NEW t, WriteRule(a, s, op, t),
           program # <<>>, op = program[1], SynchronousWrite, ~exception, UNCHANGED commandVars
    PROVE  /\ Flow(a, Now(s, "fed"), rd)'
           /\ DataRule(a, Now(s, "fed"), Push(op.p, op.segment), t)
           /\ program' = <<Push(op.p, op.segment)>> \o Tail(program)
<1> DEFINE p == op.p
<1>1. s.stack # <<>> /\ s.phase = "open" /\ Used(a, s) /\ p = Last(s.stack) /\ IsSink(p) /\ Free(a, s, p)
      /\ s.top = p /\ CanWrite(a, s, op)
      /\ t = State(s.stack, s.top, s.sent \o op.segment.data, "open", s.left, s.summed)
    BY DEF WriteRule, CanWrite
<1>2. PICK u : u = Now(s, "fed")
    OBVIOUS
<1>3. /\ live = s.stack /\ p = Last(live) /\ p \in Ran(live) /\ Phase(a, s, p, proc[p], Items(p))
    BY <1>1, LastObject
<1>4. /\ u.stack = s.stack /\ u.top = s.top /\ u.sent = s.sent
      /\ u.phase = "fed" /\ u.left = s.left /\ u.summed = s.summed
    BY <1>2, NowFields
<1>5. DataRule(a, u, Push(p, op.segment), t)
  <2>1. PICK w : w = Push(p, op.segment)
    OBVIOUS
  <2>2. w.do = "push" /\ w.p = p /\ w.segment = op.segment
    BY <2>1 DEF Push
  <2>3. CanWrite(a, u, w)
    BY <1>1, <1>4, <2>2 DEF CanWrite, Free, Used
  <2>4. DataRule(a, u, w, t)
    BY <1>1, <1>4, <2>2, <2>3 DEF DataRule
  <2> QED BY <2>1, <2>4
<1>6. /\ live' = live /\ contents' = contents /\ results' = results
      /\ taken' = taken /\ outcome' = outcome /\ program' = <<Push(p, op.segment)>> \o Tail(program)
      /\ queue' = [Joined(p) EXCEPT ![p].source = FALSE]
    BY DEF SynchronousWrite, commandVars, Expand, Argument
<1>7. proc' = [x \in DOMAIN proc |->
                Started(IF x = p THEN [proc[x] EXCEPT !.source_queue = p] ELSE proc[x])]
    BY DEF SynchronousWrite, Argument
<1>8. DOMAIN proc = Ran(live)
    BY <1>3, LiveFacts
<1> HIDE DEF p
<1>9. \A x \in Ran(live) : Launches(proc[x], proc'[x])
                           /\ proc'[x].source_queue = IF x = p THEN p ELSE proc[x].source_queue
  <2>1. ASSUME NEW x \in Ran(live), x = p PROVE Launches(proc[x], proc'[x]) /\ proc'[x].source_queue = p
    <3>1. ProcShape(proc[x])
      BY LiveFacts
    <3>2. proc'[x] = Started([proc[x] EXCEPT !.source_queue = p])
      BY <1>7, <1>8, <2>1
    <3> QED BY <2>1, <3>1, <3>2, StartedReading
  <2>2. ASSUME NEW x \in Ran(live), x # p
        PROVE Launches(proc[x], proc'[x]) /\ proc'[x].source_queue = proc[x].source_queue
    <3>1. ProcShape(proc[x])
      BY LiveFacts
    <3>2. proc'[x] = Started(proc[x])
      BY <1>7, <1>8, <2>2
    <3> QED BY <3>1, <3>2, StartedLaunches
  <2> QED BY <2>1, <2>2
<1>10. DOMAIN queue' = DOMAIN queue \cup {p} /\ (\A y \in DOMAIN queue : y # p => queue'[y] = queue[y])
       /\ queue'[p].items = Items(p) /\ queue'[p].source = FALSE
       /\ queue'[p].putback = IF p \in DOMAIN queue THEN queue[p].putback ELSE <<>>
    BY <1>6 DEF Joined, With, Items
<1>11. \A y : Items(y)' = Items(y)
    BY <1>10 DEF Items
<1>12. QueuesTidy'
  <2>1. \A x \in Ran(live) : proc'[x].sink_queue = proc[x].sink_queue
    BY <1>9 DEF Launches
  <2>2. LiveShape(a, s)
    BY DEF Flow
  <2>3. \A y \in DOMAIN queue' : queue'[y].putback = <<>>
    BY <1>10, <2>2 DEF LiveShape
  <2>4. \A y \in DOMAIN queue' : queue'[y].source => \E w \in Ran(live) : proc'[w].sink_queue = y
    BY <1>10, <2>1, <2>2 DEF LiveShape
  <2> QED BY <1>6, <2>3, <2>4 DEF QueuesTidy
<1>13. Phase(a, u, p, proc[p], Items(p))'
  <2>1. proc'[p].source_queue = p /\ proc'[p].state # "Uninitialized"
    BY <1>3, <1>9 DEF Launches
  <2>2. p[1] # "hash"
    BY <1>1 DEF IsSink
  <2>3. Phase(a, u, p, proc'[p], Items(p))
    BY <1>1, <1>4, <2>1, <2>2 DEF Phase
  <2> QED BY <1>11, <2>3
<1>14. Flow(a, u, rd)'
  <2>1. UNCHANGED <<live, contents, results, taken, outcome>> /\ s.phase \notin {"closed", "joined", "over"}
    BY <1>1, <1>6
  <2> QED BY <1>1, <1>2, <1>3, <1>9, <1>11, <1>12, <1>13, <2>1, LaunchFlow
<1> QED BY <1>2, <1>5, <1>6, <1>14 DEF p

\* A processor is connected to another one.
Wired(r, q) ==
    /\ q.kind = r.kind /\ q.arg = r.arg /\ q.state = r.state /\ q.stop_requested = r.stop_requested
    /\ q.buffer = r.buffer /\ q.bytes = r.bytes /\ q.out = r.out /\ q.done = r.done

LEMMA WiredSame ==
    ASSUME NEW r, NEW q, Wired(r, q), NEW d, NEW i
    PROVE  /\ Closed(q, i) <=> Closed(r, i)
           /\ Pending(q) = Pending(r) /\ Made(q, d) = Made(r, d)
BY DEF Wired, Closed, Pending, Made

\* The processor v is connected to what writes to it.
LEMMA ReadingCell ==
    ASSUME NEW a, NEW v, NEW r, NEW d, NEW i, Cell(a, v, r, d, i), v[1] # "std", Feed(v) # NoQueue,
           NEW q, Wired(r, q), q.source_queue = Feed(v), q.sink_queue = r.sink_queue, q.pass_eof = r.pass_eof
    PROVE  Cell(a, v, q, d, i)
<1>1. /\ q.kind = r.kind /\ q.arg = r.arg /\ q.state = r.state /\ q.stop_requested = r.stop_requested
      /\ q.buffer = r.buffer /\ q.bytes = r.bytes /\ q.out = r.out /\ q.done = r.done
    BY DEF Wired
<1>2. Common(a, v, q)
    BY <1>1 DEF Cell, Common, Untouched
<1>3. Closed(q, i) <=> Closed(r, i)
    BY <1>1 DEF Closed
<1>4. Consumer(a, v, r, d, i)
    BY DEF Cell
<1>5. Consumer(a, v, q, d, i)
    BY <1>1, <1>3, <1>4 DEF Consumer
<1> QED BY <1>2, <1>5 DEF Cell

\* The processor p, which has not worked, is connected to what reads from it.
LEMMA WritingCell ==
    ASSUME NEW a, NEW p, NEW r, NEW d, NEW i, Cell(a, p, r, d, i), p[1] # "std", p # file,
           NEW q, Wired(r, q), q.sink_queue = Target(a, p), q.source_queue = r.source_queue, q.pass_eof = FALSE
    PROVE  Cell(a, p, q, d, i)
<1>1. /\ q.kind = r.kind /\ q.arg = r.arg /\ q.state = r.state /\ q.stop_requested = r.stop_requested
      /\ q.buffer = r.buffer /\ q.bytes = r.bytes /\ q.out = r.out /\ q.done = r.done
    BY DEF Wired
<1>2. Common(a, p, q)
    BY <1>1 DEF Cell, Common, Untouched
<1>3. Closed(q, i) <=> Closed(r, i)
    BY <1>1 DEF Closed
<1>4. Consumer(a, p, r, d, i)
    BY DEF Cell
<1>5. r.sink_queue = NoQueue => q.state = r.state
    BY <1>1
<1>6. Consumer(a, p, q, d, i)
  <2>1. q.sink_queue = NoQueue => r.state = "Uninitialized" \/ In(a, p) = <<>>
    BY <1>4 DEF Cell, Common, Consumer
  <2> QED BY <1>1, <1>3, <1>4, <2>1 DEF Consumer
<1> QED BY <1>2, <1>6 DEF Cell

\* A digest is connected to the sink that it goes through.
LEMMA CopyFlow ==
    ASSUME NEW a, NEW s, NEW rd, Flow(a, s, rd), PipelineOK, NEW op, NEW t, CopyRule(a, s, op, t),
           program # <<>>, op = program[1], copy_to, UNCHANGED commandVars
    PROVE  /\ Flow(a, Now(s, "linked"), rd)'
           /\ StartRule(a, Now(s, "linked"), Start, Now(s, "running"))
           /\ JoinRule(a, Now(s, "running"), Op("join", op.p), t)
           /\ program' = <<Start, Op("join", op.p)>> \o Tail(program)
<1> DEFINE p == op.p
           v == Reader(a, p)
           r == proc[p]
           i == Items(v)
<1>1. /\ p[1] = "hash" /\ s.stack # <<>> /\ p = Last(s.stack) /\ op.sink = v
      /\ s.phase = "open" /\ Used(a, s) /\ t = Now(s, "joined")
    BY DEF CopyRule
<1>2. /\ live = s.stack /\ p = Last(live) /\ p \in Ran(live) /\ p \in DOMAIN proc
      /\ ProcShape(r) /\ Phase(a, s, p, r, Items(p))
    BY <1>1, LastObject
<1>3. PICK u : u = Now(s, "linked")
    OBVIOUS
<1>4. /\ u.stack = s.stack /\ u.top = s.top /\ u.sent = s.sent
      /\ u.phase = "linked" /\ u.left = s.left /\ u.summed = s.summed
    BY <1>3, NowFields
<1>5. StartRule(a, u, Start, Now(s, "running"))
  <2>1. Start.do = "start" /\ Now(u, "running") = Now(s, "running")
    BY <1>3, NowFields DEF Start, Op
  <2> QED BY <1>1, <1>4, <2>1 DEF StartRule, Used
<1>6. JoinRule(a, Now(s, "running"), Op("join", p), t)
  <2>1. PICK w : w = Now(s, "running")
    OBVIOUS
  <2>2. w.stack = s.stack /\ w.phase = "running" /\ Now(w, "joined") = Now(s, "joined")
    BY <2>1, NowFields
  <2>3. ~IsSink(p)
    BY <1>1 DEF IsSink
  <2>4. Op("join", p).do = "join" /\ Op("join", p).p = p
    BY DEF Op
  <2>5. JoinRule(a, w, Op("join", p), t)
    BY <1>1, <2>2, <2>3, <2>4 DEF JoinRule
  <2> QED BY <2>1, <2>5
<1>7. /\ live' = live /\ contents' = contents /\ results' = results
      /\ taken' = taken /\ outcome' = outcome /\ program' = <<Start, Op("join", p)>> \o Tail(program)
      /\ queue' = Joined(v)
      /\ proc' = [[proc EXCEPT ![p].pass_eof = FALSE] EXCEPT ![p].sink_queue = v, ![v].source_queue = v]
    BY <1>1 DEF copy_to, commandVars, Expand, Argument, Connected
<1>8. /\ IsName(p) /\ p # file /\ IsSink(v) /\ v # p /\ v # NoQueue /\ Target(a, p) = v /\ v[1] # "std"
      /\ v \in Ran(live) /\ v \in DOMAIN proc /\ ProcShape(proc[v]) /\ Feed(v) = v /\ IsName(v)
  <2>1. IsName(p) /\ p # file /\ v \in Ran(live)
    BY <1>1, <1>2, CellFacts DEF file
  <2>2. IsName(v) /\ v \in DOMAIN proc /\ ProcShape(proc[v])
    BY <2>1, CellFacts, LiveFacts
  <2> QED BY <1>1, <2>1, <2>2, NameFacts DEF IsSink
<1>9. r.sink_queue = NoQueue /\ s.sent = Before(a, p) /\ s.top = v
    BY <1>1, <1>2 DEF Phase
<1>10. PICK q : q = [r EXCEPT !.pass_eof = FALSE, !.sink_queue = v]
    OBVIOUS
<1>11. PICK y : y = [proc[v] EXCEPT !.source_queue = v]
    OBVIOUS
<1>12. /\ DOMAIN proc' = DOMAIN proc /\ proc'[p] = q /\ proc'[v] = y
       /\ \A x \in DOMAIN proc : x # p /\ x # v => proc'[x] = proc[x]
    BY <1>2, <1>7, <1>8, <1>10, <1>11
<1>13. /\ Wired(r, q) /\ q.sink_queue = v /\ q.source_queue = r.source_queue /\ q.pass_eof = FALSE
       /\ Wired(proc[v], y) /\ y.source_queue = v /\ y.sink_queue = proc[v].sink_queue
       /\ y.pass_eof = proc[v].pass_eof
    BY <1>2, <1>8, <1>10, <1>11 DEF ProcShape, ProcFields, Wired
<1>14. LiveShape(a, s) /\ Cells(a, rd) /\ TopOK(a, s, rd) /\ DOMAIN proc = Ran(live) /\ live # <<>>
    BY <1>2, LiveFacts DEF Flow
<1>15. \A w \in Ran(live) : Reader(a, w) = v => w = p
    BY <1>2, <1>14 DEF LiveShape
<1>16. \A w \in Ran(live) : proc[w].sink_queue # v
  <2>1. ASSUME NEW w \in Ran(live), proc[w].sink_queue = v PROVE FALSE
    <3>1. IsName(w) /\ proc[w].sink_queue \in {NoQueue, Target(a, w)}
      BY CellFacts DEF Cell, Common
    <3>2. Target(a, w) = v
      BY <1>8, <2>1, <3>1
    <3>3. Reader(a, w) = v
      BY <1>8, <3>1, <3>2, NameFacts DEF Target, Feed, IsSink, None, NoQueue
    <3> QED BY <1>9, <1>15, <2>1, <3>3, <1>8
  <2> QED BY <2>1
<1>17. Got(rd, v) = Before(a, p)
    BY <1>8, <1>9, <1>16, TopGot
<1>18. Cell(a, p, r, rd[p], Items(Feed(p))) /\ Cell(a, v, proc[v], rd[v], i) /\ In(a, p) # <<>>
    BY <1>1, <1>2, <1>8, CellFacts DEF Used
<1>19. Pending(r) = <<>> /\ Made(r, rd[p]) = <<>> /\ r.state = "Uninitialized"
  <2>1. /\ r.kind = "HashSource" /\ r.state = "Uninitialized" /\ rd[p] = <<>> /\ r.out = <<>>
    BY <1>1, <1>8, <1>9, <1>18, KindFacts DEF Cell, Common, Consumer, Untouched
  <2>2. <<>> \o <<>> = <<>>
    BY SeqEmpty
  <2> HIDE DEF r
  <2> QED BY <2>1, <2>2, BytesNone DEF Pending, Made, Encoders
<1>20. DOMAIN queue' = DOMAIN queue \cup {v} /\ (\A x \in DOMAIN queue : x # v => queue'[x] = queue[x])
       /\ queue'[v].items = Items(v) /\ queue'[v].putback = IF v \in DOMAIN queue THEN queue[v].putback ELSE <<>>
    BY <1>7 DEF Joined, With, Items
<1>21. \A x : Items(x)' = Items(x)
    BY <1>20 DEF Items
<1> HIDE DEF r, i, v, p
<1>22. Alive(s, u)
  <2>1. \A x \in Ran(live) : proc'[x].bytes = proc[x].bytes
    BY <1>12, <1>13, <1>14 DEF Wired, r
  <2> QED BY <1>1, <1>4, <1>7, <2>1 DEF Alive
<1>23. Cells(a, rd)'
  <2>1. Cell(a, p, q, rd[p], Items(Feed(p)))
    BY <1>8, <1>13, <1>18, <1>1, WritingCell
  <2>2. Cell(a, v, y, rd[v], Items(Feed(v)))
    BY <1>8, <1>13, <1>18, ReadingCell DEF i
  <2>3. ASSUME NEW x \in Ran(live) PROVE x \in DOMAIN rd /\ Cell(a, x, proc'[x], rd[x], Items(Feed(x)))
    BY <1>12, <1>14, <2>1, <2>2 DEF Cells
  <2> QED BY <1>7, <1>21, <2>3 DEF Cells
<1>24. ASSUME NEW x \in Ran(live) PROVE Wired(proc[x], proc'[x])
  <2>1. Wired(proc[x], proc[x])
    BY DEF Wired
  <2> QED BY <1>12, <1>13, <1>14, <2>1 DEF r
<1>25. Links(a, rd)'
  <2>1. ASSUME NEW w \in Ran(live), Reader(a, w) \in Ran(live)
        PROVE  Link(a, w, proc'[w], rd[w], proc'[Reader(a, w)], rd[Reader(a, w)], Items(Feed(Reader(a, w))))
    <3>1. PICK z : z = Reader(a, w)
      OBVIOUS
    <3>2. PICK k : k = Items(Feed(z))
      OBVIOUS
    <3>3. Link(a, w, proc[w], rd[w], proc[z], rd[z], k)
      BY <2>1, <3>1, <3>2, CellFacts
    <3>4. /\ Closed(proc'[z], k) <=> Closed(proc[z], k)
          /\ Pending(proc'[w]) = Pending(proc[w]) /\ Made(proc'[w], rd[w]) = Made(proc[w], rd[w])
      BY <1>24, <2>1, <3>1, WiredSame
    <3>5. /\ proc'[w].state = proc[w].state /\ proc'[w].done = proc[w].done /\ proc'[w].out = proc[w].out
          /\ proc'[z].state = proc[z].state
      BY <1>24, <2>1, <3>1 DEF Wired
    <3>6. CASE w = p
      <4>1. z = v
        BY <3>1, <3>6 DEF v
      <4>2. k = i
        BY <1>8, <3>2, <4>1 DEF i
      <4>3. Cat(rd[v], Bytes(i)) = Before(a, p)
        BY <1>17 DEF Got, i
      <4>4. Pending(q) = <<>> /\ Made(q, rd[p]) = <<>>
        BY <1>13, <1>19, WiredSame
      <4>5. Cat(Cat(rd[v], Bytes(i)), Pending(q)) = Cat(Before(a, p), Made(q, rd[p]))
        BY <4>3, <4>4
      <4>a. (rd[v] \o Bytes(i)) \o Pending(q) = Before(a, p) \o Made(q, rd[p])
        BY <4>5 DEF Cat
      <4>6. Link(a, p, q, rd[p], y, rd[v], i)
        <5>1. q.state = "Uninitialized"
          BY <1>13, <1>19 DEF Wired
        <5>2. q.sink_queue # NoQueue /\ y.source_queue = Target(a, p) /\ p[1] # "std"
          BY <1>1, <1>8, <1>13
        <5> HIDE DEF Cat
        <5> QED BY <4>a, <5>1, <5>2 DEF Link
      <4>7. Link(a, w, proc'[w], rd[w], proc'[z], rd[z], k)
        BY <1>12, <3>6, <4>1, <4>2, <4>6
      <4> QED BY <3>1, <3>2, <4>7
    <3>7. CASE w # p
      <4>1. z # v
        BY <1>15, <3>1, <3>7
      <4>2. proc'[z].source_queue = proc[z].source_queue
        BY <1>12, <1>13, <1>14, <2>1, <3>1, <4>1 DEF r
      <4>3. proc'[w].sink_queue = proc[w].sink_queue
        BY <1>12, <1>13, <1>14, <3>7
      <4>4. Link(a, w, proc'[w], rd[w], proc'[z], rd[z], k)
        BY <3>3, <3>4, <3>5, <4>2, <4>3 DEF Link
      <4> QED BY <3>1, <3>2, <4>4
    <3> QED BY <3>6, <3>7
  <2> QED BY <1>7, <1>21, <2>1 DEF Links
<1>26. QueuesTidy'
  <2>1. proc'[p].sink_queue = v /\ p \in Ran(live)
    BY <1>2, <1>12, <1>13
  <2>2. \A x \in Ran(live) : proc'[x].sink_queue = proc[x].sink_queue \/ x = p
    BY <1>12, <1>13, <1>14
  <2>3. \A x \in DOMAIN queue' : queue'[x].putback = <<>>
    BY <1>14, <1>20 DEF LiveShape
  <2>4. ASSUME NEW x \in DOMAIN queue', queue'[x].source PROVE \E w \in Ran(live) : proc'[w].sink_queue = x
    <3>1. CASE x = v
      BY <2>1, <3>1
    <3>2. CASE x # v
      <4>1. PICK w \in Ran(live) : proc[w].sink_queue = x
        BY <1>14, <1>20, <2>4, <3>2 DEF LiveShape
      <4>2. w # p
        <5>1. x # NoQueue
          <6>1. x \in Ran(live)
            BY <1>20, <2>4, <3>2 DEF PipelineOK, LiveOK
          <6> QED BY <6>1, CellFacts, NameFacts
        <5> QED BY <1>9, <4>1, <5>1 DEF r
      <4> QED BY <2>2, <4>1, <4>2
    <3> QED BY <3>1, <3>2
  <2>5. live' = live
    BY <1>7
  <2> QED BY <2>3, <2>4, <2>5 DEF QueuesTidy
<1>27. IdleFiles(a)'
  <2>1. \A x \in Ran(live) : Idle(proc[x]) => Idle(proc'[x])
    BY <1>24 DEF Wired, Idle
  <2> QED BY <1>7, <1>14, <2>1 DEF IdleFiles, LiveShape
<1>28. TopOK(a, u, rd)'
  <2>1. u.top \in Ran(live) /\ IsSink(u.top) /\ proc'[p].sink_queue = u.top
    BY <1>4, <1>8, <1>9, <1>12, <1>13
  <2>2. ASSUME NEW x \in Ran(live), IsSink(x) PROVE ~Closed(proc'[x], Items(x))
    <3>1. ~Closed(proc[x], Items(x))
      BY <1>1, <2>2, NotClosed
    <3> QED BY <1>24, <3>1, WiredSame
  <2>3. Phase(a, u, p, q, Items(p))
    BY <1>1, <1>4, <1>8, <1>13 DEF Phase
  <2>4. Last(live)' = p /\ Ran(live)' = Ran(live)
    BY <1>2, <1>7
  <2> QED BY <1>2, <1>12, <1>21, <2>1, <2>2, <2>3, <2>4 DEF TopOK
<1>29. Flow(a, u, rd)'
    BY <1>22, <1>23, <1>25, <1>26, <1>27, <1>28, MainAgain
<1> QED BY <1>3, <1>5, <1>6, <1>7, <1>29 DEF p
=============================================================================

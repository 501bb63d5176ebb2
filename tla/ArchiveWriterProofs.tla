------------------------ MODULE ArchiveWriterProofs ------------------------
(***************************************************************************)
(* The archive writer: what it writes.                                     *)
(*                                                                         *)
(* Objects that come and go keep the equation of ArchiveFlowProofs too.    *)
(* As a sequential program the writer leads from nothing to the committed  *)
(* archive, and what the main thread has left always leads there from      *)
(* where it is.  So the file only grows towards the whole archive, and     *)
(* every result covers all that went through.                              *)
(***************************************************************************)
EXTENDS ArchiveFlowProofs

-----------------------------------------------------------------------------
\* The steps of the main thread that construct an object.

\* A processor that nothing has happened to.
Fresh(p, q) ==
    /\ q.kind = KindOf(p) /\ q.state = "Uninitialized" /\ q.stop_requested = FALSE
    /\ q.buffer = <<>> /\ q.bytes = 0 /\ q.out = <<>> /\ q.done = FALSE

LEMMA NewFresh ==
    ASSUME NEW p, NEW arg, NEW r, r = NewProcessor(KindOf(p), arg)
    PROVE  /\ Fresh(p, r) /\ r.arg = arg /\ r.source_queue = NoQueue /\ r.sink_queue = NoQueue
           /\ r.pass_eof = TRUE /\ DOMAIN r = ProcFields
BY DEF Fresh, NewProcessor, ProcFields

LEMMA NewCell ==
    ASSUME NEW a, NEW p, Fits(a, p), NEW q, Fresh(p, q), q.sink_queue \in {NoQueue, Target(a, p)},
           p[1] = "std" => q.arg = In(a, p) /\ q.pass_eof /\ q.source_queue = NoQueue,
           p[1] # "std" => q.source_queue \in {NoQueue, Feed(p)} /\ (q.sink_queue # NoQueue => ~q.pass_eof),
           p = file => q.sink_queue = NoQueue,
           NEW e, e = <<>>
    PROVE  /\ Cell(a, p, q, e, e) /\ ~Closed(q, e)
           /\ Pending(q) = Made(q, e) /\ IsSeq(Pending(q))
           /\ p[1] # "std" => Pending(q) = e
<1>1. IsName(p) /\ IsSeq(In(a, p))
    BY DEF Fits
<1>2. IsSeq(e) /\ Tidy(e) /\ ~Ending(e) /\ Bytes(e) = e /\ e \o e = e
    BY TidyNone, BytesNone, SeqEmpty
<1>3. Begins(e, In(a, p))
    BY <1>1, BeginsSelf
<1>4. /\ q.kind = KindOf(p) /\ q.state = "Uninitialized" /\ q.stop_requested = FALSE
      /\ q.buffer = e /\ q.bytes = 0 /\ q.out = e /\ q.done = FALSE
    BY DEF Fresh
<1>5. Common(a, p, q)
    BY <1>2, <1>4 DEF Common, Untouched
<1>6. Len(e) = 0
    BY SeqEmpty
<1>7. ~Closed(q, e)
    BY <1>2, <1>4 DEF Closed
<1>8. p[1] = "std" => Producer(a, p, q)
    BY DEF Producer
<1>9. p[1] # "std" => Consumer(a, p, q, e, e)
    BY <1>2, <1>3, <1>4, <1>6, <1>7 DEF Consumer
<1>10. p[1] = "std" => Pending(q) = In(a, p) /\ Made(q, e) = In(a, p)
    BY <1>1, <1>4, KindFacts DEF Pending, Made
<1>11. p[1] # "std" => Pending(q) = e /\ Made(q, e) = e
  <2>1. p[1] # "std" => q.kind # "StdStreamSource"
    BY <1>1, <1>4, KindFacts
  <2>2. Encoded(q.kind, e) = e
    BY EncodedNone
  <2> QED BY <1>2, <1>4, <2>1, <2>2 DEF Pending, Made
<1> QED BY <1>1, <1>2, <1>5, <1>7, <1>8, <1>9, <1>10, <1>11 DEF Cell

\* The chain of sinks ends in the file.
LEMMA FileThere ==
    ASSUME NEW a, NEW s, NEW rd, Flow(a, s, rd), PipelineOK, live # <<>>
    PROVE  file \in Ran(live) /\ s.left # file
<1>1. s.top \in Ran(live) /\ IsSink(s.top) /\ s.left \notin Ran(live)
    BY DEF Flow, TopOK, ResultsOK
<1>2. \A x \in Ran(live) : IsSink(x) => IsName(x) /\ (x = file \/ Reader(a, x) \in Ran(live))
    BY CellFacts DEF IsSink
<1>3. \A x \in Ran(live) : x[1] = "overall" => file \in Ran(live)
    BY <1>2 DEF Reader, IsSink, file
<1>4. \A x \in Ran(live) : x[1] = "counter" => file \in Ran(live)
  <2>1. \A x : x[1] = "counter" => Reader(a, x) = overall /\ overall[1] = "overall" /\ IsSink(x) /\ x # file
    BY DEF Reader, overall, file, IsSink
  <2> QED BY <1>2, <1>3, <2>1
<1>5. \A x \in Ran(live) : x[1] = "crypto" => file \in Ran(live)
  <2>1. \A x : x[1] = "crypto" => Reader(a, x)[1] = "counter" /\ IsSink(x) /\ x # file
    BY DEF Reader, file, IsSink
  <2> QED BY <1>2, <1>4, <2>1
<1>6. \A x \in Ran(live) : x[1] = "lzma" => file \in Ran(live)
  <2>1. \A x : x[1] = "lzma" => Reader(a, x)[1] \in {"crypto", "counter"} /\ IsSink(x) /\ x # file
    BY DEF Reader, file, IsSink
  <2> QED BY <1>2, <1>4, <1>5, <2>1
<1>7. \A x \in Ran(live) : x[1] = "counter2" => file \in Ran(live)
  <2>1. \A x : x[1] = "counter2" => Reader(a, x)[1] = "lzma" /\ IsSink(x) /\ x # file
    BY DEF Reader, file, IsSink
  <2> QED BY <1>2, <1>6, <2>1
<1>8. s.top[1] \in {"file", "overall", "counter", "crypto", "lzma", "counter2"} /\ (s.top[1] = "file" <=> s.top = file)
    BY <1>1, <1>2, NameFacts DEF IsSink, Numbered
<1>9. file \in Ran(live)
    BY <1>1, <1>3, <1>4, <1>5, <1>6, <1>7, <1>8
<1> QED BY <1>1, <1>9

\* The new object, which is p, and the others, which may get connected to it.
Grows(s, t, p) ==
    /\ t.stack = Append(s.stack, p) /\ t.left = None /\ t.summed = s.summed
    /\ s.phase # "over" /\ t.phase # "over"
    /\ live' = Append(live, p) /\ taken' = taken /\ outcome' = outcome
    /\ \A x \in Ran(live) : Wired(proc[x], proc'[x])
    /\ Fresh(p, proc'[p])
    /\ contents' = IF p = file THEN With(contents, p, <<>>) ELSE contents
    /\ results' = IF KindOf(p) = "ByteCounterSink" THEN With(results, p, 0) ELSE results

LEMMA GrowFlow ==
    ASSUME NEW a, NEW s, NEW rd, Flow(a, s, rd), PipelineOK, NEW p, Fits(a, p), p \notin Ran(live),
           NEW t, Grows(s, t, p),
           IF p = file THEN live = <<>> /\ s.left # file
           ELSE live # <<>> /\ (p[1] = "std" \/ Reader(a, p) \in Ran(live)),
           \A x \in Ran(live) : IsSink(x) \/ (x = Last(live) /\ x[1] = "std" /\ Reader(a, x) = p),
           \A x \in Ran(live) : Reader(a, x) # Reader(a, p),
           NEW e, e = With(rd, p, <<>>),
           Cells(a, e)', Links(a, e)', TopOK(a, t, e)', QueuesTidy', IdleFiles(a)'
    PROVE  Flow(a, t, e)'
<1>1. /\ t.stack = Append(s.stack, p) /\ t.left = None /\ t.summed = s.summed
      /\ s.phase # "over" /\ t.phase # "over"
      /\ live' = Append(live, p) /\ taken' = taken /\ outcome' = outcome
      /\ \A x \in Ran(live) : Wired(proc[x], proc'[x])
      /\ Fresh(p, proc'[p])
    BY DEF Grows
<1>2. /\ contents' = IF p = file THEN With(contents, p, <<>>) ELSE contents
      /\ results' = IF KindOf(p) = "ByteCounterSink" THEN With(results, p, 0) ELSE results
    BY DEF Grows
<1>3. /\ LiveShape(a, s) /\ ResultsOK(a, s) /\ ContentsOK(a, s, rd) /\ OutcomeOK(s) /\ live = s.stack
    BY DEF Flow, LiveShape
<1>4. IsSeq(live) /\ DOMAIN proc = Ran(live)
    BY DEF PipelineOK, LiveOK
<1>5. PICK m : m = Append(live, p)
    OBVIOUS
<1>6. Ran(m) = Ran(live) \cup {p} /\ Last(m) = p /\ Front(m) = live /\ live' = m /\ m = t.stack
    BY <1>1, <1>3, <1>4, <1>5, LastOfAppend
<1>7. LiveShape(a, t)'
  <2>1. \A x \in Ran(m) : Fits(a, x) /\ (x = file \/ x[1] = "std" \/ Reader(a, x) \in Ran(m))
    BY <1>3, <1>6 DEF LiveShape
  <2>2. \A x \in Ran(m) : IsSink(x) \/ x = Last(m) \/ (x[1] = "std" /\ Reader(a, x) = Last(m) /\ x = Last(Front(m)))
    BY <1>6
  <2>3. \A v, w \in Ran(m) : Reader(a, v) = Reader(a, w) => v = w
    BY <1>3, <1>6 DEF LiveShape
  <2> QED BY <1>6, <2>1, <2>2, <2>3 DEF LiveShape, QueuesTidy, IdleFiles
<1>8. ResultsOK(a, t)'
  <2>1. ASSUME NEW x \in Ran(m), KindOf(x) = "ByteCounterSink" PROVE x \in DOMAIN results' /\ results'[x] = proc'[x].bytes
    <3>1. CASE x = p
      BY <1>1, <1>2, <2>1, <3>1 DEF With, Fresh
    <3>2. CASE x # p
      <4>1. x \in Ran(live) /\ x \in DOMAIN results /\ results[x] = proc[x].bytes
        BY <1>3, <1>6, <2>1, <3>2 DEF ResultsOK
      <4>2. proc'[x].bytes = proc[x].bytes
        BY <1>1, <4>1 DEF Wired
      <4> QED BY <1>2, <3>2, <4>1, <4>2 DEF With
    <3> QED BY <3>1, <3>2
  <2>2. None \notin Ran(m)
    BY <1>6, <1>3, NameFacts DEF LiveShape, Fits, None, NoQueue
  <2>3. \A x : Result(a, x)' = Result(a, x)
    OBVIOUS
  <2>4. /\ \A x \in DOMAIN taken : Takeable(x) /\ taken[x] = Result(a, x)
        /\ s.summed => overall \in DOMAIN taken
    BY <1>3 DEF ResultsOK
  <2> QED BY <1>1, <1>6, <2>1, <2>2, <2>4 DEF ResultsOK
<1>9. ContentsOK(a, t, e)'
  <2>1. file # None
    BY DEF file, None
  <2>2. CASE p = file
    <3>1. contents' = With(contents, file, <<>>) /\ e[file] = <<>>
      BY <1>2, <2>2 DEF With
    <3>2. file \in DOMAIN contents' /\ contents'[file] = <<>> /\ IsSeq(contents'[file])
      BY <3>1, SeqEmpty DEF With
    <3>3. file \in Ran(m)
      BY <1>6, <2>2
    <3> QED BY <1>1, <1>6, <2>1, <3>1, <3>2, <3>3 DEF ContentsOK, Whole
  <2>3. CASE p # file
    <3>1. contents' = contents
      BY <1>2, <2>3
    <3>2. file \in Ran(live) /\ s.left # file
      BY <2>3, FileThere
    <3>3. e[file] = rd[file] \/ ~Whole
      <4>1. file \in DOMAIN rd
        BY <3>2, CellFacts
      <4> QED BY <2>3, <4>1 DEF With
    <3> QED BY <1>1, <1>3, <1>6, <2>1, <3>1, <3>2, <3>3 DEF ContentsOK, Whole
  <2> QED BY <2>2, <2>3
<1>10. OutcomeOK(t)'
    BY <1>1, <1>3 DEF OutcomeOK
<1> QED BY <1>7, <1>8, <1>9, <1>10 DEF Flow

LEMMA FileFlow ==
    ASSUME NEW a, NEW s, NEW rd, Flow(a, s, rd), PipelineOK, NEW op, NEW t, FileRule(a, s, op, t),
           program # <<>>, op = program[1], ConstructAlone, UNCHANGED commandVars
    PROVE  (\E e : Flow(a, t, e)') /\ program' = Tail(program)
<1>1. /\ op.p = file /\ op.kind = "StdStreamSink" /\ s.phase = "open" /\ s.stack = <<>> /\ s.left # file
      /\ Fits(a, file) /\ t = State(<<file>>, file, <<>>, "open", None, s.summed)
    BY DEF FileRule
<1>2. /\ proc' = With(proc, file, NewProcessor("StdStreamSink", op.arg))
      /\ contents' = With(contents, file, <<>>) /\ live' = Append(live, file)
      /\ program' = Tail(program) /\ queue' = queue /\ results' = results
      /\ taken' = taken /\ outcome' = outcome
    BY <1>1 DEF ConstructAlone, commandVars, Continue, Argument
<1>3. PICK z : z = <<>>
    OBVIOUS
<1>4. t.stack = <<file>> /\ t.top = file /\ t.sent = z /\ t.phase = "open" /\ t.left = None /\ t.summed = s.summed
    BY <1>1, <1>3, StateFields
<1>5. live = z /\ s.stack = z /\ Ran(live) = {} /\ DOMAIN proc = {} /\ DOMAIN queue = {}
  <2>1. live = s.stack
    BY DEF Flow, LiveShape
  <2>2. Len(<<>>) = 0
    BY SeqEmpty
  <2>3. Ran(live) = {}
    BY <1>1, <2>1, <2>2 DEF Ran
  <2> QED BY <1>1, <1>3, <2>1, <2>3 DEF PipelineOK, LiveOK
<1>6. live' = <<file>> /\ Append(s.stack, file) = <<file>> /\ Ran(live') = {file} /\ Last(live') = file
  <2>1. live' = <<file>> /\ Append(s.stack, file) = <<file>>
    BY <1>2, <1>3, <1>5
  <2>2. Ran(<<file>>) = {file} /\ Last(<<file>>) = file
    BY SeqSingle DEF Last
  <2> QED BY <2>1, <2>2
<1>7. KindOf(file) = "StdStreamSink" /\ IsSink(file) /\ file[1] # "std" /\ file[1] # "hash" /\ Feed(file) = file
      /\ Reader(a, file) = None /\ file # None
    BY DEF KindOf, IsSink, file, Feed, Reader, None
<1>8. PICK r : r = NewProcessor(KindOf(file), op.arg)
    OBVIOUS
<1>9. Fresh(file, r) /\ r.source_queue = NoQueue /\ r.sink_queue = NoQueue
    BY <1>8 DEF Fresh, NewProcessor
<1>10. proc'[file] = r
    BY <1>2, <1>7, <1>8 DEF With
<1>11. Items(file)' = z
    BY <1>2, <1>3, <1>5 DEF Items
<1>12. PICK e : e = With(rd, file, <<>>)
    OBVIOUS
<1>13. e[file] = z /\ file \in DOMAIN e
    BY <1>3, <1>12 DEF With
<1>14. Cell(a, file, r, z, z) /\ ~Closed(r, z)
    BY <1>1, <1>3, <1>7, <1>9, NewCell
<1>15. Cells(a, e)'
    BY <1>6, <1>7, <1>10, <1>11, <1>13, <1>14 DEF Cells
<1>16. Links(a, e)'
    BY <1>6, <1>7 DEF Links
<1>17. TopOK(a, t, e)'
  <2>1. z \o Bytes(z) = z
    BY <1>3, BytesNone, SeqEmpty
  <2>2. Phase(a, t, file, r, z)
    BY <1>4, <1>7 DEF Phase
  <2> QED BY <1>4, <1>6, <1>7, <1>10, <1>11, <1>13, <1>14, <2>1, <2>2 DEF TopOK
<1>18. QueuesTidy' /\ IdleFiles(a)'
    BY <1>2, <1>5, <1>6, <1>7 DEF QueuesTidy, IdleFiles
<1>19. Grows(s, t, file)
    BY <1>1, <1>2, <1>4, <1>5, <1>6, <1>7, <1>9, <1>10 DEF Grows
<1>20. Flow(a, t, e)'
  <2>1. live = <<>> /\ \A x \in Ran(live) : FALSE
    BY <1>3, <1>5
  <2> QED BY <1>1, <1>5, <1>12, <1>15, <1>16, <1>17, <1>18, <1>19, <2>1, GrowFlow
<1> QED BY <1>2, <1>20

\* All that is on the stack when the last object is a sink is a sink.
LEMMA AllSinks ==
    ASSUME NEW a, NEW s, NEW rd, Flow(a, s, rd), PipelineOK, live # <<>>, IsSink(Last(live)), NEW x \in Ran(live)
    PROVE  IsSink(x)
<1>1. IsSink(x) \/ x = Last(live) \/ (x[1] = "std" /\ Reader(a, x) = Last(live))
    BY DEF Flow, LiveShape
<1>2. x[1] = "std" => ~IsSink(Reader(a, x))
    BY CellFacts, NameFacts DEF IsSink
<1> QED BY <1>1, <1>2

LEMMA StdFlow ==
    ASSUME NEW a, NEW s, NEW rd, Flow(a, s, rd), PipelineOK, NEW op, NEW t, StdRule(a, s, op, t),
           program # <<>>, op = program[1], ConstructAlone, UNCHANGED commandVars
    PROVE  (\E e : Flow(a, t, e)') /\ program' = Tail(program)
<1> DEFINE p == op.p
<1>1. /\ p[1] = "std" /\ Fits(a, p) /\ p \notin Ran(s.stack) /\ op.kind = "StdStreamSource" /\ op.arg = In(a, p)
      /\ s.phase = "open" /\ s.stack # <<>> /\ IsSink(Last(s.stack))
      /\ Reader(a, p) \notin Ran(s.stack) /\ Free(a, s, Reader(a, p))
      /\ t = State(Append(s.stack, p), s.top, s.sent, "opened", None, s.summed)
    BY DEF StdRule
<1>2. /\ proc' = With(proc, p, NewProcessor("StdStreamSource", op.arg))
      /\ contents' = contents /\ live' = Append(live, p)
      /\ program' = Tail(program) /\ queue' = queue /\ results' = results
      /\ taken' = taken /\ outcome' = outcome
    BY <1>1 DEF ConstructAlone, commandVars, Continue, Argument
<1>3. PICK z : z = <<>>
    OBVIOUS
<1>4. /\ t.stack = Append(s.stack, p) /\ t.top = s.top /\ t.sent = s.sent /\ t.phase = "opened"
      /\ t.left = None /\ t.summed = s.summed
    BY <1>1 DEF State
<1>5. live = s.stack /\ live # <<>> /\ DOMAIN proc = Ran(live) /\ IsSeq(live) /\ DOMAIN queue \subseteq Ran(live)
    BY <1>1 DEF Flow, LiveShape, PipelineOK, LiveOK
<1>6. \A x \in Ran(live) : IsSink(x)
    BY <1>1, <1>5, AllSinks
<1>7. IsName(p) /\ p # file /\ ~IsSink(p) /\ p[1] # "hash" /\ KindOf(p) = "StdStreamSource" /\ p # Reader(a, p)
      /\ Feed(p) = p
    BY <1>1, NameFacts, KindFacts DEF Fits, file, IsSink, Feed
<1>8. PICK r : r = NewProcessor(KindOf(p), op.arg)
    OBVIOUS
<1>9. Fresh(p, r) /\ r.arg = In(a, p) /\ r.source_queue = NoQueue /\ r.sink_queue = NoQueue /\ r.pass_eof
    BY <1>1, <1>8 DEF Fresh, NewProcessor
<1>10. PICK e : e = With(rd, p, <<>>)
    OBVIOUS
<1> HIDE DEF p
<1>11. proc'[p] = r /\ \A x \in Ran(live) : proc'[x] = proc[x]
    BY <1>1, <1>2, <1>5, <1>7, <1>8 DEF With
<1>12. Items(p)' = z /\ \A x : Items(x)' = Items(x)
    BY <1>1, <1>2, <1>3, <1>5 DEF Items
<1>13. e[p] = z /\ p \in DOMAIN e /\ \A x \in Ran(live) : x \in DOMAIN rd => x \in DOMAIN e /\ e[x] = rd[x]
    BY <1>1, <1>3, <1>5, <1>10 DEF With
<1>14. Cell(a, p, r, z, z)
    BY <1>1, <1>3, <1>7, <1>9, NewCell
<1>15. PICK m : m = Append(live, p)
    OBVIOUS
<1>16. Ran(m) = Ran(live) \cup {p} /\ Last(m) = p /\ live' = m /\ m # <<>>
    BY <1>2, <1>5, <1>15, LastOfAppend
<1>17. \A x \in Ran(live) : x # file => Reader(a, x) \in Ran(live) /\ x[1] # "std" /\ Reader(a, x) # p
    BY <1>1, <1>5, <1>6, CellFacts DEF IsSink
<1>18. Cells(a, e)'
  <2>1. ASSUME NEW x \in Ran(live) PROVE x \in DOMAIN e /\ Cell(a, x, proc'[x], e[x], Items(Feed(x))')
    BY <1>11, <1>12, <1>13, CellFacts
  <2>2. Cell(a, p, proc'[p], e[p], Items(Feed(p))')
    BY <1>7, <1>11, <1>12, <1>13, <1>14
  <2> QED BY <1>13, <1>16, <2>1, <2>2 DEF Cells
<1>19. Links(a, e)'
  <2>1. ASSUME NEW w \in Ran(live), Reader(a, w) \in Ran(m)
        PROVE  Link(a, w, proc'[w], e[w], proc'[Reader(a, w)], e[Reader(a, w)], Items(Feed(Reader(a, w)))')
    <3>1. PICK v : v = Reader(a, w)
      OBVIOUS
    <3>2. w # file
      <4>1. None \notin Ran(m)
        BY <1>7, <1>16, CellFacts, NameFacts DEF None, NoQueue
      <4> QED BY <2>1, <4>1, CellFacts, NameFacts
    <3>3. v \in Ran(live)
      BY <1>17, <3>1, <3>2
    <3>4. Link(a, w, proc[w], rd[w], proc[v], rd[v], Items(Feed(v)))
      BY <3>1, <3>3, CellFacts
    <3>5. e[w] = rd[w] /\ e[v] = rd[v]
      BY <1>13, <3>3, CellFacts
    <3> QED BY <1>11, <1>12, <3>1, <3>3, <3>4, <3>5
  <2>2. Reader(a, p) \notin Ran(m)
    BY <1>1, <1>5, <1>7, <1>16
  <2> QED BY <1>16, <2>1, <2>2 DEF Links
<1>20. TopOK(a, t, e)'
  <2>1. s.top \in Ran(live) /\ IsSink(s.top) /\ s.top \in DOMAIN rd
        /\ ((\A w \in Ran(live) : proc[w].sink_queue # s.top) => rd[s.top] \o Bytes(Items(s.top)) = s.sent)
    BY <1>5, CellFacts DEF Flow, TopOK
  <2>2. (\A w \in Ran(m) : proc'[w].sink_queue # s.top) => e[s.top] \o Bytes(Items(s.top)') = s.sent
    BY <1>11, <1>12, <1>13, <1>16, <2>1
  <2>3. ASSUME NEW x \in Ran(m), IsSink(x) PROVE ~Closed(proc'[x], Items(x)')
    <3>1. x \in Ran(live)
      BY <1>7, <1>16, <2>3
    <3>2. ~Closed(proc[x], Items(x))
      BY <1>1, <2>3, <3>1, NotClosed
    <3> QED BY <1>11, <1>12, <3>1, <3>2
  <2>4. Phase(a, t, p, r, z)
    BY <1>1, <1>3, <1>4, <1>7, <1>9 DEF Phase, Fresh
  <2>5. Phase(a, t, Last(m), proc'[Last(m)], Items(Last(m))')
    BY <1>11, <1>12, <1>16, <2>4
  <2> QED BY <1>4, <1>16, <2>1, <2>2, <2>3, <2>5 DEF TopOK
<1>21. QueuesTidy'
  <2>1. LiveShape(a, s)
    BY DEF Flow
  <2>2. \A x \in DOMAIN queue : queue[x].source => \E w \in Ran(m) : proc'[w].sink_queue = x
    BY <1>11, <1>16, <2>1 DEF LiveShape
  <2> QED BY <1>2, <1>16, <2>1, <2>2 DEF QueuesTidy, LiveShape
<1>22. IdleFiles(a)'
  <2>1. Idle(r)
    BY <1>9 DEF Fresh, Idle
  <2> QED BY <1>11, <1>16, <1>6, <2>1 DEF IdleFiles, IsSink
<1>23. Grows(s, t, p)
  <2>1. \A x : Wired(x, x)
    BY DEF Wired
  <2> QED BY <1>1, <1>2, <1>4, <1>5, <1>7, <1>9, <1>11, <2>1 DEF Grows
<1>24. \A x \in Ran(live) : Reader(a, x) # Reader(a, p)
    BY <1>1, <1>5 DEF Free
<1>25. Flow(a, t, e)'
    BY <1>1, <1>5, <1>6, <1>7, <1>10, <1>18, <1>19, <1>20, <1>21, <1>22, <1>23, <1>24, GrowFlow
<1> QED BY <1>2, <1>25

LEMMA SinkFlow ==
    ASSUME NEW a, NEW s, NEW rd, Flow(a, s, rd), PipelineOK, NEW op, NEW t, SinkRule(a, s, op, t),
           program # <<>>, op = program[1], ConstructSink, UNCHANGED commandVars
    PROVE  (\E e : Flow(a, t, e)') /\ program' = Tail(program)
<1> DEFINE p == op.p
           v == Reader(a, p)
<1>1. /\ Fits(a, p) /\ IsSink(p) /\ p # file /\ p \notin Ran(s.stack)
      /\ op.kind = KindOf(p) /\ op.sink = v
      /\ s.phase = "open" /\ s.stack # <<>> /\ v = Last(s.stack) /\ s.top = v
      /\ Free(a, s, v) /\ s.sent = Before(a, p)
      /\ t = State(Append(s.stack, p), p, <<>>, "open", None, s.summed)
    BY DEF SinkRule
<1>2. PICK new : new = [NewProcessor(KindOf(p), 0) EXCEPT !.pass_eof = FALSE]
    OBVIOUS
<1>3. Fresh(p, new) /\ new.source_queue = NoQueue /\ new.pass_eof = FALSE /\ DOMAIN new = ProcFields
    BY <1>2 DEF Fresh, NewProcessor, ProcFields
<1>4. /\ proc' = [With(proc, p, new) EXCEPT ![p].sink_queue = v, ![v].source_queue = v]
      /\ results' = IF KindOf(p) = "ByteCounterSink" THEN With(results, p, 0) ELSE results
      /\ queue' = Joined(v) /\ contents' = contents /\ live' = Append(live, p)
      /\ program' = Tail(program) /\ taken' = taken /\ outcome' = outcome
    BY <1>1, <1>2, <1>3 DEF ConstructSink, commandVars, Continue, Argument, Connected, Fresh
<1>5. PICK z : z = <<>>
    OBVIOUS
<1>6. /\ t.stack = Append(s.stack, p) /\ t.top = p /\ t.sent = z /\ t.phase = "open"
      /\ t.left = None /\ t.summed = s.summed
    BY <1>1, <1>5 DEF State
<1>7. live = s.stack /\ live # <<>> /\ DOMAIN proc = Ran(live) /\ IsSeq(live) /\ DOMAIN queue \subseteq Ran(live)
    BY <1>1 DEF Flow, LiveShape, PipelineOK, LiveOK
<1>8. \A x \in Ran(live) : IsSink(x)
  <2>1. IsSink(Last(live))
    BY <1>1, <1>7, NameFacts DEF Fits
  <2> QED BY <1>7, <2>1, AllSinks
<1>9. v \in Ran(live) /\ v \in DOMAIN proc /\ ProcShape(proc[v])
    BY <1>1, <1>7, LastObject
<1>10. /\ IsName(p) /\ p[1] # "std" /\ p[1] # "hash" /\ v # p /\ v # NoQueue /\ Target(a, p) = v /\ IsName(v)
       /\ Feed(p) = p /\ Feed(v) = v /\ v[1] # "std"
    BY <1>1, <1>8, <1>9, NameFacts DEF Fits, IsSink
<1>11. PICK e : e = With(rd, p, <<>>)
    OBVIOUS
<1>12. PICK q : q = [new EXCEPT !.sink_queue = v]
    OBVIOUS
<1>13. PICK y : y = [proc[v] EXCEPT !.source_queue = v]
    OBVIOUS
<1> HIDE DEF p, v
<1>14. proc'[p] = q /\ proc'[v] = y /\ \A x \in Ran(live) : x # v => proc'[x] = proc[x]
  <2>1. PICK f : f = With(proc, p, new)
    OBVIOUS
  <2>2. DOMAIN f = Ran(live) \cup {p} /\ f[p] = new /\ \A x \in Ran(live) : f[x] = proc[x]
    BY <1>1, <1>7, <2>1 DEF With
  <2>3. proc' = [f EXCEPT ![p].sink_queue = v, ![v].source_queue = v]
    BY <1>4, <2>1
  <2> QED BY <1>1, <1>7, <1>9, <1>10, <1>12, <1>13, <2>2, <2>3
<1>15. /\ Fresh(p, q) /\ q.sink_queue = v /\ q.source_queue = NoQueue /\ q.pass_eof = FALSE
    BY <1>3, <1>12 DEF Fresh, ProcFields
<1>16. /\ Wired(proc[v], y) /\ y.source_queue = v /\ y.sink_queue = proc[v].sink_queue
       /\ y.pass_eof = proc[v].pass_eof
    BY <1>9, <1>13 DEF ProcShape, ProcFields, Wired
<1>17. DOMAIN queue' = DOMAIN queue \cup {v} /\ (\A x \in DOMAIN queue : x # v => queue'[x] = queue[x])
       /\ queue'[v].items = Items(v) /\ queue'[v].putback = IF v \in DOMAIN queue THEN queue[v].putback ELSE <<>>
    BY <1>4 DEF Joined, With, Items
<1>18. Items(p)' = z /\ \A x : Items(x)' = Items(x)
    BY <1>1, <1>5, <1>7, <1>10, <1>17 DEF Items
<1>19. e[p] = z /\ p \in DOMAIN e /\ \A x \in Ran(live) : x \in DOMAIN rd => x \in DOMAIN e /\ e[x] = rd[x]
    BY <1>1, <1>5, <1>7, <1>11 DEF With
<1>20. Cell(a, p, q, z, z) /\ ~Closed(q, z) /\ Pending(q) = Made(q, z) /\ Pending(q) = z
    BY <1>1, <1>5, <1>10, <1>15, NewCell
<1>21. PICK m : m = Append(live, p)
    OBVIOUS
<1>22. Ran(m) = Ran(live) \cup {p} /\ Last(m) = p /\ live' = m /\ m # <<>>
    BY <1>4, <1>7, <1>21, LastOfAppend
<1>23. ASSUME NEW x \in Ran(live) PROVE Wired(proc[x], proc'[x]) /\ proc'[x].sink_queue = proc[x].sink_queue
  <2>1. Wired(proc[x], proc[x])
    BY DEF Wired
  <2> QED BY <1>14, <1>16, <2>1
<1>24. Cells(a, e)'
  <2>1. ASSUME NEW x \in Ran(live) PROVE x \in DOMAIN e /\ Cell(a, x, proc'[x], e[x], Items(Feed(x))')
    <3>1. Cell(a, x, proc[x], rd[x], Items(Feed(x))) /\ x \in DOMAIN rd
      BY CellFacts
    <3>2. Cell(a, x, proc'[x], rd[x], Items(Feed(x)))
      <4>1. CASE x # v
        BY <1>14, <3>1, <4>1
      <4>2. CASE x = v
        <5>1. Cell(a, v, y, rd[v], Items(v))
          BY <1>10, <1>16, <3>1, <4>2, ReadingCell
        <5> QED BY <1>10, <1>14, <4>2, <5>1
      <4> QED BY <4>1, <4>2
    <3> QED BY <1>18, <1>19, <3>1, <3>2
  <2>2. Cell(a, p, proc'[p], e[p], Items(Feed(p))')
    BY <1>10, <1>14, <1>18, <1>19, <1>20
  <2> QED BY <1>19, <1>22, <2>1, <2>2 DEF Cells
<1>25. Links(a, e)'
  <2>1. ASSUME NEW w \in Ran(live), Reader(a, w) \in Ran(m)
        PROVE  Link(a, w, proc'[w], e[w], proc'[Reader(a, w)], e[Reader(a, w)], Items(Feed(Reader(a, w)))')
    <3>1. PICK x : x = Reader(a, w)
      OBVIOUS
    <3>2. PICK k : k = Items(Feed(x))
      OBVIOUS
    <3>3. w # file
      <4>1. None \notin Ran(m)
        BY <1>10, <1>22, CellFacts, NameFacts DEF None, NoQueue
      <4> QED BY <2>1, <4>1, CellFacts, NameFacts
    <3>4. x \in Ran(live) /\ x # v
      <4>1. w[1] # "std"
        BY <1>8 DEF IsSink
      <4> QED BY <1>1, <1>7, <3>1, <3>3, <4>1, CellFacts DEF Free, v
    <3>5. Link(a, w, proc[w], rd[w], proc[x], rd[x], k)
      BY <3>1, <3>2, <3>4, CellFacts
    <3>6. /\ e[w] = rd[w] /\ e[x] = rd[x] /\ proc'[x] = proc[x] /\ Wired(proc[w], proc'[w])
          /\ proc'[w].sink_queue = proc[w].sink_queue
      BY <1>14, <1>19, <1>23, <3>4, CellFacts
    <3>7. Pending(proc'[w]) = Pending(proc[w]) /\ Made(proc'[w], rd[w]) = Made(proc[w], rd[w])
      BY <3>6, WiredSame
    <3>8. proc'[w].state = proc[w].state /\ proc'[w].done = proc[w].done /\ proc'[w].out = proc[w].out
      BY <3>6 DEF Wired
    <3>9. Link(a, w, proc'[w], e[w], proc'[x], e[x], k)
      BY <3>5, <3>6, <3>7, <3>8 DEF Link
    <3>10. Items(Feed(x))' = k
      BY <1>18, <3>2
    <3> QED BY <3>1, <3>9, <3>10
  <2>2. Link(a, p, proc'[p], e[p], proc'[v], e[v], Items(v)')
    <3>1. \A w \in Ran(live) : proc[w].sink_queue # v
      BY <1>1, <1>8, <1>9, NoWriter DEF v
    <3>2. Got(rd, v) = Before(a, p)
      BY <1>1, <1>9, <3>1, TopGot DEF v
    <3>3. Cat(Cat(rd[v], Bytes(Items(v))), Pending(q)) = Cat(Before(a, p), Made(q, z))
      BY <1>20, <3>2 DEF Got
    <3>4. (rd[v] \o Bytes(Items(v))) \o Pending(q) = Before(a, p) \o Made(q, z)
      BY <3>3 DEF Cat
    <3>5. q.sink_queue # NoQueue /\ y.source_queue = Target(a, p) /\ q.state = "Uninitialized" /\ p[1] # "std"
      BY <1>10, <1>15, <1>16 DEF Fresh
    <3>6. Link(a, p, q, z, y, rd[v], Items(v))
      BY <3>4, <3>5 DEF Link
    <3>7. e[v] = rd[v] /\ e[p] = z
      BY <1>9, <1>19, CellFacts
    <3> QED BY <1>14, <1>18, <3>6, <3>7
  <2>3. Link(a, p, proc'[p], e[p], proc'[Reader(a, p)], e[Reader(a, p)], Items(Feed(Reader(a, p)))')
    BY <1>10, <2>2 DEF v
  <2> QED BY <1>22, <2>1, <2>3 DEF Links
<1>26. TopOK(a, t, e)'
  <2>1. e[p] \o Bytes(Items(p)') = t.sent
    <3>1. z \o Bytes(z) = z
      BY <1>5, BytesNone, SeqEmpty
    <3> QED BY <1>6, <1>18, <1>19, <3>1
  <2>2. ASSUME NEW x \in Ran(m), IsSink(x) PROVE ~Closed(proc'[x], Items(x)')
    <3>1. CASE x = p
      BY <1>14, <1>18, <1>20, <3>1
    <3>2. CASE x # p
      <4>1. x \in Ran(live)
        BY <1>22, <3>2
      <4>2. ~Closed(proc[x], Items(x))
        BY <1>1, <2>2, <4>1, NotClosed
      <4>3. ~Closed(proc'[x], Items(x))
        BY <1>23, <4>1, <4>2, WiredSame
      <4> QED BY <1>18, <4>3
    <3> QED BY <3>1, <3>2
  <2>3. Phase(a, t, p, q, z)
    BY <1>6, <1>10 DEF Phase
  <2>4. Phase(a, t, Last(m), proc'[Last(m)], Items(Last(m))')
    BY <1>14, <1>18, <1>22, <2>3
  <2> QED BY <1>1, <1>6, <1>22, <2>1, <2>2, <2>4 DEF TopOK, p
<1>27. QueuesTidy'
  <2>1. LiveShape(a, s)
    BY DEF Flow
  <2>2. \A x \in DOMAIN queue' : queue'[x].putback = <<>>
    BY <1>17, <2>1 DEF LiveShape
  <2>3. ASSUME NEW x \in DOMAIN queue', queue'[x].source PROVE \E w \in Ran(m) : proc'[w].sink_queue = x
    <3>1. CASE x = v
      BY <1>14, <1>15, <1>22, <3>1
    <3>2. CASE x # v
      <4>1. PICK w \in Ran(live) : proc[w].sink_queue = x
        BY <1>17, <2>1, <2>3, <3>2 DEF LiveShape
      <4> QED BY <1>22, <1>23, <4>1
    <3> QED BY <3>1, <3>2
  <2> QED BY <1>22, <2>2, <2>3 DEF QueuesTidy
<1>28. IdleFiles(a)'
  <2>1. \A x \in Ran(m) : x[1] # "std"
    BY <1>8, <1>10, <1>22 DEF IsSink
  <2> QED BY <1>22, <2>1 DEF IdleFiles
<1>29. Grows(s, t, p)
  <2>1. p # file
    BY <1>1 DEF p
  <2> QED BY <1>1, <1>4, <1>6, <1>7, <1>14, <1>15, <1>23, <2>1 DEF Grows
<1>30. \A x \in Ran(live) : Reader(a, x) # Reader(a, p)
    BY <1>1, <1>7 DEF Free, v
<1>31. Flow(a, t, e)'
  <2>1. Fits(a, p) /\ p \notin Ran(live) /\ p # file /\ Reader(a, p) \in Ran(live)
    BY <1>1, <1>7, <1>9 DEF v
  <2> QED BY <1>7, <1>8, <1>11, <1>24, <1>25, <1>26, <1>27, <1>28, <1>29, <1>30, <2>1, GrowFlow
<1> QED BY <1>4, <1>31

LEMMA HashFlow ==
    ASSUME NEW a, NEW s, NEW rd, Flow(a, s, rd), PipelineOK, NEW op, NEW t, HashRule(a, s, op, t),
           program # <<>>, op = program[1], ConstructSource, UNCHANGED commandVars
    PROVE  (\E e : Flow(a, t, e)') /\ program' = Tail(program)
<1> DEFINE p == op.p
           f == Feed(p)
<1>1. /\ p[1] = "hash" /\ Fits(a, p) /\ p \notin Ran(s.stack)
      /\ op.kind = "HashSource" /\ op.source = f
      /\ s.phase = "opened" /\ s.stack # <<>> /\ f = Last(s.stack) /\ s.top = Reader(a, p)
      /\ Free(a, s, s.top) /\ s.sent = Before(a, p)
      /\ t = State(Append(s.stack, p), s.top, s.sent, "open", None, s.summed)
    BY DEF HashRule
<1>2. PICK new : new = NewProcessor(KindOf(p), op.arg)
    OBVIOUS
<1>3. Fresh(p, new) /\ new.sink_queue = NoQueue /\ DOMAIN new = ProcFields
    BY <1>2 DEF Fresh, NewProcessor, ProcFields
<1>4. KindOf(p) = "HashSource" /\ p # file /\ ~IsSink(p) /\ IsName(p) /\ p[1] # "std"
    BY <1>1, KindFacts DEF Fits, file, IsSink
<1>5. /\ proc' = [With(proc, p, new) EXCEPT ![f].sink_queue = f, ![p].source_queue = f]
      /\ results' = results
      /\ queue' = Joined(f) /\ contents' = contents /\ live' = Append(live, p)
      /\ program' = Tail(program) /\ taken' = taken /\ outcome' = outcome
    BY <1>1, <1>2, <1>4 DEF ConstructSource, commandVars, Continue, Argument, Connected
<1>6. PICK z : z = <<>>
    OBVIOUS
<1>7. /\ t.stack = Append(s.stack, p) /\ t.top = s.top /\ t.sent = s.sent /\ t.phase = "open"
      /\ t.left = None /\ t.summed = s.summed
    BY <1>1 DEF State
<1>8. /\ live = s.stack /\ f = Last(live) /\ f \in Ran(live) /\ f \in DOMAIN proc
      /\ ProcShape(proc[f]) /\ Phase(a, s, f, proc[f], Items(f)) /\ live # <<>>
    BY <1>1, LastObject
<1>9. DOMAIN proc = Ran(live) /\ IsSeq(live) /\ DOMAIN queue \subseteq Ran(live)
    BY DEF PipelineOK, LiveOK
<1>10. f[1] = "std" /\ proc[f].state = "Uninitialized" /\ Items(f) = z
    BY <1>1, <1>6, <1>8 DEF Phase
<1>11. IsName(f) /\ f # p /\ f # NoQueue /\ Target(a, f) = f /\ Reader(a, f) = p /\ ~IsSink(f) /\ Feed(f) = f
       /\ Before(a, f) = z
  <2>1. IsName(f)
    BY <1>8, CellFacts
  <2>2. f = <<"std", p[2]>>
    BY <1>1 DEF Feed
  <2>3. p = <<"hash", p[2]>>
    BY <1>1, <1>4 DEF IsName, file, overall
  <2>4. Reader(a, f) = p
    BY <2>2, <2>3 DEF Reader
  <2> QED BY <1>6, <1>10, <2>1, <2>4, <1>1, NameFacts DEF IsSink, Before, Feed
<1>12. PICK e : e = With(rd, p, <<>>)
    OBVIOUS
<1>13. PICK q : q = [new EXCEPT !.source_queue = f]
    OBVIOUS
<1>14. PICK y : y = [proc[f] EXCEPT !.sink_queue = f]
    OBVIOUS
<1> HIDE DEF p, f
<1>15. proc'[p] = q /\ proc'[f] = y /\ \A x \in Ran(live) : x # f => proc'[x] = proc[x]
  <2>1. PICK g : g = With(proc, p, new)
    OBVIOUS
  <2>2. DOMAIN g = Ran(live) \cup {p} /\ g[p] = new /\ \A x \in Ran(live) : g[x] = proc[x]
    BY <1>1, <1>8, <1>9, <2>1 DEF With
  <2>3. proc' = [g EXCEPT ![f].sink_queue = f, ![p].source_queue = f]
    BY <1>5, <2>1
  <2> QED BY <1>1, <1>8, <1>9, <1>11, <1>13, <1>14, <2>2, <2>3
<1>16. Fresh(p, q) /\ q.sink_queue = NoQueue /\ q.source_queue = f
    BY <1>3, <1>13 DEF Fresh, ProcFields
<1>17. /\ Wired(proc[f], y) /\ y.sink_queue = f /\ y.source_queue = proc[f].source_queue
       /\ y.pass_eof = proc[f].pass_eof
    BY <1>8, <1>14 DEF ProcShape, ProcFields, Wired
<1>18. DOMAIN queue' = DOMAIN queue \cup {f} /\ (\A x \in DOMAIN queue : x # f => queue'[x] = queue[x])
       /\ queue'[f].items = Items(f) /\ queue'[f].putback = IF f \in DOMAIN queue THEN queue[f].putback ELSE <<>>
    BY <1>5 DEF Joined, With, Items
<1>19. Items(p)' = Items(p) /\ \A x : Items(x)' = Items(x)
    BY <1>18 DEF Items
<1>20. e[p] = z /\ p \in DOMAIN e /\ \A x \in Ran(live) : x \in DOMAIN rd => x \in DOMAIN e /\ e[x] = rd[x]
    BY <1>1, <1>6, <1>8, <1>12 DEF With
<1>21. Cell(a, p, q, z, z) /\ ~Closed(q, z)
    BY <1>1, <1>6, <1>4, <1>16, NewCell DEF f
<1>22. PICK m : m = Append(live, p)
    OBVIOUS
<1>23. Ran(m) = Ran(live) \cup {p} /\ Last(m) = p /\ live' = m /\ m # <<>>
    BY <1>5, <1>9, <1>22, LastOfAppend
<1>24. ASSUME NEW x \in Ran(live) PROVE Wired(proc[x], proc'[x])
  <2>1. Wired(proc[x], proc[x])
    BY DEF Wired
  <2> QED BY <1>15, <1>17, <2>1
<1>25. \A x \in Ran(live) : IsSink(x) \/ x = f
  <2>1. ASSUME NEW x \in Ran(live), x # f PROVE IsSink(x)
    <3>1. IsSink(x) \/ (x[1] = "std" /\ Reader(a, x) = f)
      BY <1>8, <2>1 DEF Flow, LiveShape
    <3>2. x[1] = "std" => Reader(a, x)[1] = "hash"
      BY CellFacts, NameFacts
    <3> QED BY <1>10, <3>1, <3>2
  <2> QED BY <2>1
<1>26. Cells(a, e)'
  <2>1. ASSUME NEW x \in Ran(live) PROVE x \in DOMAIN e /\ Cell(a, x, proc'[x], e[x], Items(Feed(x))')
    <3>1. Cell(a, x, proc[x], rd[x], Items(Feed(x))) /\ x \in DOMAIN rd
      BY CellFacts
    <3>2. Cell(a, x, proc'[x], rd[x], Items(Feed(x)))
      <4>1. CASE x # f
        BY <1>15, <3>1, <4>1
      <4>2. CASE x = f
        <5>1. /\ y.kind = proc[f].kind /\ y.arg = proc[f].arg /\ y.state = proc[f].state
              /\ y.stop_requested = proc[f].stop_requested /\ y.buffer = proc[f].buffer
              /\ y.bytes = proc[f].bytes /\ y.out = proc[f].out /\ y.done = proc[f].done
          BY <1>17 DEF Wired
        <5>2. Common(a, f, y)
          BY <1>11, <1>17, <3>1, <4>2, <5>1 DEF Cell, Common, Untouched
        <5>3. Producer(a, f, y)
          BY <1>10, <1>17, <3>1, <4>2, <5>1 DEF Cell, Producer
        <5> QED BY <1>10, <1>15, <4>2, <5>2, <5>3 DEF Cell
      <4> QED BY <4>1, <4>2
    <3> QED BY <1>19, <1>20, <3>1, <3>2
  <2>2. Cell(a, p, proc'[p], e[p], Items(Feed(p))')
    <3>1. Items(f)' = z
      BY <1>10, <1>19
    <3> QED BY <1>15, <1>20, <1>21, <3>1 DEF f
  <2> QED BY <1>20, <1>23, <2>1, <2>2 DEF Cells
<1>27. Reader(a, p) \in Ran(live) /\ IsSink(Reader(a, p)) /\ Reader(a, p) = s.top /\ s.top # f
  <2>1. s.top \in Ran(live) /\ IsSink(s.top)
    BY <1>8 DEF Flow, TopOK
  <2> QED BY <1>1, <1>11, <2>1 DEF p
<1>28. Links(a, e)'
  <2>1. ASSUME NEW w \in Ran(live), w # f, Reader(a, w) \in Ran(m)
        PROVE  Link(a, w, proc'[w], e[w], proc'[Reader(a, w)], e[Reader(a, w)], Items(Feed(Reader(a, w)))')
    <3>1. PICK x : x = Reader(a, w)
      OBVIOUS
    <3>2. IsSink(w) /\ IsName(w)
      BY <1>25, <2>1, CellFacts
    <3>3. w # file
      <4>1. None \notin Ran(m)
        BY <1>4, <1>23, CellFacts, NameFacts DEF None, NoQueue
      <4> QED BY <2>1, <4>1, <3>2, NameFacts
    <3>4. x \in Ran(live) /\ x # f
      <4>1. IsSink(x)
        BY <3>1, <3>2, <3>3, NameFacts
      <4> QED BY <1>4, <1>11, <1>23, <2>1, <3>1, <4>1
    <3>5. Link(a, w, proc[w], rd[w], proc[x], rd[x], Items(Feed(x)))
      BY <3>1, <3>4, CellFacts
    <3>6. e[w] = rd[w] /\ e[x] = rd[x] /\ proc'[x] = proc[x] /\ proc'[w] = proc[w]
      BY <1>15, <1>20, <2>1, <3>4, CellFacts
    <3> QED BY <1>19, <3>1, <3>5, <3>6
  <2>2. Link(a, f, proc'[f], e[f], proc'[p], e[p], Items(Feed(p))')
    <3>1. proc[f].arg = In(a, f) /\ proc[f].kind = "StdStreamSource"
      BY <1>8, <1>10, <1>11, CellFacts, KindFacts DEF Cell, Producer
    <3>2. Pending(y) = In(a, f) /\ Made(y, e[f]) = In(a, f) /\ y.state = "Uninitialized"
      BY <1>10, <1>17, <3>1 DEF Wired, Pending, Made
    <3>3. Cat(Cat(z, z), Pending(y)) = Cat(z, Made(y, e[f]))
      <4>1. Cat(z, z) = z
        BY <1>6, SeqEmpty DEF Cat
      <4> QED BY <3>2, <4>1
    <3>4. Bytes(z) = z
      BY <1>6, BytesNone
    <3>5. (z \o Bytes(z)) \o Pending(y) = Before(a, f) \o Made(y, e[f])
      BY <1>11, <3>3, <3>4 DEF Cat
    <3>6. y.sink_queue # NoQueue /\ q.source_queue = Target(a, f)
      BY <1>11, <1>16, <1>17
    <3>7. Link(a, f, y, e[f], q, z, z)
      BY <1>21, <3>2, <3>5, <3>6 DEF Link
    <3>8. Items(Feed(p))' = z
      BY <1>10, <1>19 DEF f
    <3> QED BY <1>15, <1>20, <3>7, <3>8
  <2>3. Link(a, p, proc'[p], e[p], proc'[Reader(a, p)], e[Reader(a, p)], Items(Feed(Reader(a, p)))')
    <3>1. p[1] = "hash"
      BY <1>1 DEF p
    <3> QED BY <1>15, <1>16, <3>1 DEF Link
  <2> QED BY <1>11, <1>23, <2>1, <2>2, <2>3 DEF Links
<1>29. TopOK(a, t, e)'
  <2>1. s.top \in Ran(live) /\ IsSink(s.top) /\ s.top \in DOMAIN rd
        /\ ((\A w \in Ran(live) : proc[w].sink_queue # s.top) => rd[s.top] \o Bytes(Items(s.top)) = s.sent)
    BY <1>8, CellFacts DEF Flow, TopOK
  <2>2. (\A w \in Ran(m) : proc'[w].sink_queue # s.top) => \A w \in Ran(live) : proc[w].sink_queue # s.top
    <3>1. proc[f].sink_queue \in {NoQueue, f}
      BY <1>8, <1>11, CellFacts DEF Cell, Common
    <3>2. s.top # NoQueue
      BY <2>1, CellFacts, NameFacts
    <3> QED BY <1>15, <1>23, <1>27, <3>1, <3>2
  <2>3. (\A w \in Ran(m) : proc'[w].sink_queue # s.top) => e[s.top] \o Bytes(Items(s.top)') = s.sent
    BY <1>19, <1>20, <2>1, <2>2
  <2>4. ASSUME NEW x \in Ran(m), IsSink(x) PROVE ~Closed(proc'[x], Items(x)')
    <3>1. x \in Ran(live) /\ x # f
      BY <1>4, <1>11, <1>23, <2>4 DEF p
    <3>2. ~Closed(proc[x], Items(x))
      BY <1>1, <2>4, <3>1, NotClosed
    <3> QED BY <1>15, <1>19, <3>1, <3>2
  <2>5. Phase(a, t, p, q, Items(p)')
    <3>1. p[1] = "hash" /\ s.sent = Before(a, p) /\ s.top = Reader(a, p)
      BY <1>1 DEF p
    <3> QED BY <1>7, <1>16, <3>1 DEF Phase
  <2>6. Phase(a, t, Last(m), proc'[Last(m)], Items(Last(m))')
    BY <1>15, <1>23, <2>5
  <2> QED BY <1>7, <1>23, <2>1, <2>3, <2>4, <2>6 DEF TopOK
<1>30. QueuesTidy'
  <2>1. LiveShape(a, s)
    BY DEF Flow
  <2>2. \A x \in DOMAIN queue' : queue'[x].putback = <<>>
    BY <1>18, <2>1 DEF LiveShape
  <2>3. ASSUME NEW x \in DOMAIN queue', queue'[x].source PROVE \E w \in Ran(m) : proc'[w].sink_queue = x
    <3>1. CASE x = f
      BY <1>8, <1>15, <1>17, <1>23, <3>1
    <3>2. CASE x # f
      <4>1. PICK w \in Ran(live) : proc[w].sink_queue = x
        BY <1>18, <2>1, <2>3, <3>2 DEF LiveShape
      <4>2. w # f
        <5>1. proc[f].sink_queue \in {NoQueue, f}
          BY <1>8, <1>11, CellFacts DEF Cell, Common
        <5>2. x # NoQueue
          BY <1>9, <1>18, <2>3, <3>2, CellFacts, NameFacts
        <5> QED BY <3>2, <4>1, <5>1, <5>2
      <4> QED BY <1>15, <1>23, <4>1, <4>2
    <3> QED BY <3>1, <3>2
  <2> QED BY <1>23, <2>2, <2>3 DEF QueuesTidy
<1>31. IdleFiles(a)'
  <2>1. \A x \in Ran(m) : x[1] = "std" => x = f
    BY <1>4, <1>23, <1>25 DEF IsSink, p
  <2> QED BY <1>11, <1>23, <2>1 DEF IdleFiles
<1>32. Grows(s, t, p)
  <2>1. p # file /\ KindOf(p) # "ByteCounterSink"
    BY <1>4 DEF p
  <2> QED BY <1>1, <1>5, <1>7, <1>8, <1>15, <1>16, <1>24, <2>1 DEF Grows
<1>33. \A x \in Ran(live) : Reader(a, x) # Reader(a, p)
    BY <1>1, <1>8, <1>27 DEF Free
<1>34. Flow(a, t, e)'
  <2>1. Fits(a, p) /\ p \notin Ran(live) /\ p # file /\ Reader(a, p) \in Ran(live)
    BY <1>1, <1>4, <1>8, <1>27 DEF p
  <2>2. \A x \in Ran(live) : IsSink(x) \/ (x = Last(live) /\ x[1] = "std" /\ Reader(a, x) = p)
    BY <1>8, <1>10, <1>11, <1>25
  <2> QED BY <1>8, <1>12, <1>26, <1>28, <1>29, <1>30, <1>31, <1>32, <1>33, <2>1, <2>2, GrowFlow
<1> QED BY <1>5, <1>34

-----------------------------------------------------------------------------
\* The last object is taken away.

\* What the file that is left is worth when its digest goes.
LEMMA FileIdles ==
    ASSUME NEW a, NEW s, NEW rd, Flow(a, s, rd), PipelineOK, NEW p \in Ran(live), p[1] = "hash",
           proc[p].state \in {"Uninitialized", "Completed"}, In(a, p) # <<>> => proc[p].state = "Completed",
           NEW x \in Ran(live), x[1] = "std", Reader(a, x) = p
    PROVE  Idle(proc[x])
<1> DEFINE r == proc[p]
           q == proc[x]
<1>1. Cell(a, p, r, rd[p], Items(Feed(p))) /\ Cell(a, x, q, rd[x], Items(Feed(x)))
    BY CellFacts
<1>2. Link(a, x, q, rd[x], r, rd[p], Items(Feed(p)))
    BY CellFacts
<1>3. In(a, x) = In(a, p)
  <2>1. p = <<"hash", x[2]>>
    BY DEF Reader
  <2> QED BY <2>1 DEF In
<1> HIDE DEF r, q
<1>4. CASE In(a, p) = <<>>
  <2>1. Common(a, x, q)
    BY <1>1 DEF Cell
  <2>2. Untouched(q) /\ q.state \notin {"Starting", "Running"}
    BY <2>1, <1>3, <1>4 DEF Common
  <2> QED BY <2>2 DEF Untouched, Idle, q
<1>5. CASE In(a, p) # <<>>
  <2>1. Closed(r, Items(Feed(p)))
    BY <1>1, <1>5 DEF Cell, Consumer, Closed, r
  <2>2. q.done /\ q.out = <<>>
    BY <1>2, <2>1 DEF Link
  <2>0. Common(a, x, q)
    BY <1>1 DEF Cell
  <2>4. q.state = "Starting" => Untouched(q)
    BY <2>0 DEF Common
  <2>3. q.state # "Starting"
    BY <2>2, <2>4 DEF Untouched
  <2> QED BY <2>2, <2>3 DEF Idle, q
<1> QED BY <1>4, <1>5

\* What its reader has got when a processor is gone.
LEMMA LeftBehind ==
    ASSUME NEW a, NEW s, NEW rd, Flow(a, s, rd), PipelineOK, NEW p \in Ran(live), p[1] # "std", p # file,
           proc[p].state \in {"Uninitialized", "Completed"}, In(a, p) # <<>> => proc[p].state = "Completed",
           p = Last(live), p[1] = "hash" => s.top = Reader(a, p),
           NEW v, v = Reader(a, p), \A w \in Ran(live) : w # p => proc[w].sink_queue # v
    PROVE  Got(rd, v) = Before(a, p) \o Out(a, p)
<1> DEFINE r == proc[p]
<1>1. Cell(a, p, r, rd[p], Items(Feed(p))) /\ Fits(a, p) /\ IsSeq(Before(a, p)) /\ IsName(p)
    BY CellFacts
<1>2. AreSegments(Items(Feed(p))) /\ live # <<>>
    BY LiveFacts
<1>3. v \in Ran(live) /\ IsSink(v) /\ IsName(v) /\ Feed(v) = v /\ v # NoQueue
    BY CellFacts, NameFacts
<1>4. Pending(r) = <<>> /\ Made(r, rd[p]) = Out(a, p)
    BY <1>1, <1>2, Drained
<1>5. IsSeq(rd[v]) /\ IsSeq(Bytes(Items(v))) /\ IsSeq(Got(rd, v))
  <2>1. v[1] # "std"
    BY <1>3 DEF IsSink
  <2>2. IsSeq(rd[v]) /\ IsSeq(Bytes(Items(v)))
    BY <1>3, <2>1, CellFacts
  <2> QED BY <2>2, SeqConcat DEF Got, Cat
<1>6. CASE r.sink_queue # NoQueue
  <2>1. Link(a, p, r, rd[p], proc[v], rd[v], Items(v))
    <3>1. Link(a, p, r, rd[p], proc[v], rd[v], Items(Feed(v)))
      BY <1>3, CellFacts
    <3> QED BY <1>3, <3>1
  <2>2. (rd[v] \o Bytes(Items(v))) \o Pending(r) = Before(a, p) \o Made(r, rd[p])
    BY <1>6, <2>1 DEF Link
  <2>3. Cat(Got(rd, v), Pending(r)) = Cat(Before(a, p), Out(a, p))
    <3>1. Cat(Cat(rd[v], Bytes(Items(v))), Pending(r)) = Cat(Before(a, p), Made(r, rd[p]))
      BY <2>2 DEF Cat
    <3> QED BY <1>4, <3>1 DEF Got
  <2>4. Cat(Got(rd, v), <<>>) = Got(rd, v)
    BY <1>5, SeqEmpty DEF Cat
  <2>5. Got(rd, v) = Cat(Before(a, p), Out(a, p))
    BY <1>4, <2>3, <2>4
  <2> QED BY <2>5 DEF Cat
<1>7. CASE r.sink_queue = NoQueue
  <2>1. p[1] = "hash"
    <3>1. Link(a, p, r, rd[p], proc[v], rd[v], Items(Feed(v)))
      BY <1>3, CellFacts
    <3> QED BY <1>7, <3>1 DEF Link
  <2>2. Phase(a, s, p, r, Items(p))
    BY <1>2 DEF Flow, TopOK
  <2>3. s.sent = Before(a, p) /\ s.top = v
    BY <1>7, <2>1, <2>2 DEF Phase
  <2>4. \A w \in Ran(live) : proc[w].sink_queue # v
    BY <1>3, <1>7
  <2>5. Got(rd, v) = Before(a, p)
    BY <1>3, <2>3, <2>4, TopGot
  <2>6. In(a, p) = <<>>
    BY <1>1, <1>7 DEF Cell, Consumer
  <2>7. Out(a, p) = <<>>
    BY <2>6 DEF Out, Output
  <2> QED BY <1>1, <2>5, <2>7, SeqEmpty
<1> QED BY <1>6, <1>7

LEMMA DetachFlow ==
    ASSUME NEW a, NEW s, NEW rd, Flow(a, s, rd), PipelineOK, PipelineOK', NEW op, NEW t, DetachRule(a, s, op, t),
           program # <<>>, op = program[1], Detach, UNCHANGED commandVars
    PROVE  Flow(a, t, rd)' /\ program' = Tail(program)
<1> DEFINE p == op.p
           r == proc[p]
<1>1. /\ s.phase = "joined" /\ s.stack # <<>> /\ p = Last(s.stack) /\ (IsSink(p) => Free(a, s, p))
      /\ p[1] = "std" => Reader(a, p) \notin Ran(s.stack)
      /\ p[1] = "hash" => s.top = Reader(a, p)
      /\ p = file => Front(s.stack) = <<>>
      /\ t = Gone(a, s, p)
    BY DEF DetachRule, Removable
<1>2. /\ t.stack = Front(s.stack)
      /\ t.top = IF p = file THEN None ELSE IF IsSink(p) THEN Reader(a, p) ELSE s.top
      /\ t.sent = IF p = file THEN <<>> ELSE IF p[1] = "std" THEN s.sent ELSE Before(a, p) \o Out(a, p)
      /\ t.phase = "open" /\ t.left = (IF p[1] = "std" THEN s.left ELSE p) /\ t.summed = s.summed
    BY <1>1 DEF Gone, State
<1>3. /\ live = s.stack /\ live # <<>> /\ p = Last(live) /\ p \in Ran(live) /\ p \in DOMAIN proc
      /\ ProcShape(r) /\ Phase(a, s, p, r, Items(p))
    BY <1>1, LastObject
<1>4. /\ proc' = Without(proc, p) /\ live' = Front(live) /\ contents' = contents
      /\ program' = Tail(program) /\ taken' = taken /\ outcome' = outcome
    BY DEF Detach, commandVars, Continue, Argument
<1>5. queue' = IF r.sink_queue \in DOMAIN Without(queue, p)
               THEN [Without(queue, p) EXCEPT ![r.sink_queue].source = FALSE] ELSE Without(queue, p)
    BY DEF Detach, Argument
<1>6. results' = IF r.kind \in Hashes \/ r.kind = "BoundedSource"
                 THEN With(results, p, IF r.kind \in Hashes THEN r.buffer ELSE r.bytes_written)
                 ELSE results
    BY DEF Detach, Argument
<1>7. IsName(p) /\ Cell(a, p, r, rd[p], Items(Feed(p))) /\ Fits(a, p) /\ r.kind = KindOf(p)
      /\ AreSegments(Items(Feed(p)))
    BY <1>3, CellFacts, LiveFacts
<1>8. PICK m : m = Front(live)
    OBVIOUS
<1>9. live' = m /\ m = t.stack
    BY <1>2, <1>3, <1>4, <1>8
<1>10. Ran(m) = Ran(live) \ {p} /\ DOMAIN proc' = Ran(m)
  <2>1. DOMAIN proc = Ran(live) /\ DOMAIN proc' = Ran(live')
    BY DEF PipelineOK, LiveOK
  <2>2. DOMAIN proc' = DOMAIN proc \ {p}
    BY <1>4 DEF Without
  <2> QED BY <1>9, <2>1, <2>2
<1> HIDE DEF p, r
<1>11. \A x \in Ran(m) : x \in Ran(live) /\ x # p /\ proc'[x] = proc[x]
    BY <1>4, <1>10 DEF Without
<1>12. DOMAIN queue' = DOMAIN queue \ {p}
       /\ \A x \in DOMAIN queue' : /\ queue'[x].items = queue[x].items /\ queue'[x].putback = queue[x].putback
                                   /\ queue'[x].source => queue[x].source /\ x # r.sink_queue
  <2>1. \A x \in DOMAIN queue : DOMAIN queue[x] = {"items", "putback", "source"}
    BY DEF PipelineOK, QueuesOK, QueueShape
  <2> QED BY <1>5, <2>1 DEF Without
<1>13. \A x : x # p => Items(x)' = Items(x)
    BY <1>12 DEF Items
<1>14. ASSUME NEW x \in Ran(m)
       PROVE  /\ Feed(x) # p /\ IsName(x) /\ Items(Feed(x))' = Items(Feed(x))
              /\ IsSink(x) \/ (x[1] = "std" /\ Reader(a, x) = p /\ x = Last(m))
              /\ x # file /\ x[1] # "std" => Reader(a, x) \in Ran(m)
  <2>1. x \in Ran(live) /\ x # p /\ IsName(x)
    BY <1>11, CellFacts
  <2>2. Feed(x) # p
    <3>1. CASE x[1] # "hash"
      BY <2>1, <3>1 DEF Feed
    <3>2. CASE x[1] = "hash"
      <4>1. x = <<"hash", x[2]>>
        BY <2>1, <3>2 DEF IsName, file, overall
      <4>2. Feed(x) = <<"std", x[2]>>
        BY <3>2 DEF Feed
      <4>3. Reader(a, Feed(x)) = x /\ Feed(x)[1] = "std"
        BY <4>1, <4>2 DEF Reader
      <4> QED BY <1>1, <1>3, <2>1, <4>3
    <3> QED BY <3>1, <3>2
  <2>3. IsSink(x) \/ (x[1] = "std" /\ Reader(a, x) = p /\ x = Last(m))
    BY <1>3, <1>8, <2>1 DEF Flow, LiveShape
  <2>4. ASSUME x # file, x[1] # "std" PROVE Reader(a, x) \in Ran(m)
    <3>1. Reader(a, x) \in Ran(live) /\ IsSink(Reader(a, x))
      BY <2>1, <2>4, CellFacts, NameFacts
    <3>2. Reader(a, x) # p
      BY <1>1, <1>3, <2>1, <3>1 DEF Free
    <3> QED BY <1>10, <3>1, <3>2
  <2> QED BY <1>13, <2>1, <2>2, <2>3, <2>4
<1>15. p[1] # "std" => r.state \in {"Uninitialized", "Completed"} /\ (In(a, p) # <<>> => r.state = "Completed")
    BY <1>1, <1>3 DEF Phase
<1>16. Cells(a, rd)'
  <2>1. ASSUME NEW x \in Ran(m) PROVE x \in DOMAIN rd /\ Cell(a, x, proc'[x], rd[x], Items(Feed(x))')
    <3>1. x \in DOMAIN rd /\ Cell(a, x, proc[x], rd[x], Items(Feed(x)))
      BY <1>11, CellFacts
    <3> QED BY <1>11, <1>14, <3>1
  <2> QED BY <1>9, <2>1 DEF Cells
<1>17. Links(a, rd)'
  <2>1. ASSUME NEW w \in Ran(m), Reader(a, w) \in Ran(m)
        PROVE  Link(a, w, proc'[w], rd[w], proc'[Reader(a, w)], rd[Reader(a, w)], Items(Feed(Reader(a, w)))')
    <3>1. PICK v : v = Reader(a, w)
      OBVIOUS
    <3>2. Link(a, w, proc[w], rd[w], proc[v], rd[v], Items(Feed(v)))
      BY <1>11, <2>1, <3>1, CellFacts
    <3>3. proc'[w] = proc[w] /\ proc'[v] = proc[v] /\ Items(Feed(v))' = Items(Feed(v))
      BY <1>11, <1>14, <2>1, <3>1
    <3> QED BY <3>1, <3>2, <3>3
  <2> QED BY <1>9, <2>1 DEF Links
<1>18. IdleFiles(a)'
  <2>1. ASSUME NEW x \in Ran(m), x[1] = "std", Reader(a, x) \notin Ran(m) PROVE Idle(proc'[x])
    <3>1. x \in Ran(live) /\ proc'[x] = proc[x]
      BY <1>11
    <3>2. CASE Reader(a, x) \notin Ran(live)
      BY <2>1, <3>1, <3>2 DEF Flow, LiveShape
    <3>3. CASE Reader(a, x) \in Ran(live)
      <4>1. Reader(a, x) = p
        BY <1>10, <2>1, <3>3
      <4>2. p[1] = "hash"
        BY <2>1, <3>1, <4>1, CellFacts, NameFacts
      <4>3. proc[p].state \in {"Uninitialized", "Completed"} /\ (In(a, p) # <<>> => proc[p].state = "Completed")
        BY <1>15, <4>2 DEF r
      <4>4. Idle(proc[x])
        BY <1>3, <2>1, <3>1, <4>1, <4>2, <4>3, FileIdles
      <4> QED BY <3>1, <4>4
    <3> QED BY <3>2, <3>3
  <2> QED BY <1>9, <2>1 DEF IdleFiles
<1>19. QueuesTidy'
  <2>1. LiveShape(a, s)
    BY DEF Flow
  <2>2. \A x \in DOMAIN queue' : queue'[x].putback = <<>>
    BY <1>12, <2>1 DEF LiveShape
  <2>3. ASSUME NEW x \in DOMAIN queue', queue'[x].source PROVE \E w \in Ran(m) : proc'[w].sink_queue = x
    <3>1. PICK w \in Ran(live) : proc[w].sink_queue = x
      BY <1>12, <2>1, <2>3 DEF LiveShape
    <3>2. w # p
      BY <1>12, <2>3, <3>1 DEF r
    <3>3. w \in Ran(m)
      BY <1>10, <3>2
    <3> QED BY <1>11, <3>1, <3>3
  <2> QED BY <1>9, <2>2, <2>3 DEF QueuesTidy
<1>20. LiveShape(a, t)'
  <2>1. LiveShape(a, s)
    BY DEF Flow
  <2>2. \A x \in Ran(m) : Fits(a, x) /\ (x = file \/ x[1] = "std" \/ Reader(a, x) \in Ran(m))
    BY <1>11, <1>14, <2>1 DEF LiveShape
  <2>3. \A x \in Ran(m) : IsSink(x) \/ x = Last(m) \/ (x[1] = "std" /\ Reader(a, x) = Last(m) /\ x = Last(Front(m)))
    BY <1>14
  <2>4. \A v, w \in Ran(m) : Reader(a, v) = Reader(a, w) => v = w
    BY <1>11, <2>1 DEF LiveShape
  <2> QED BY <1>9, <1>18, <1>19, <2>2, <2>3, <2>4 DEF LiveShape, QueuesTidy, IdleFiles
<1>21. ASSUME p # file
       PROVE  /\ t.top \in Ran(m) /\ IsSink(t.top) /\ t.top # NoQueue
              /\ p[1] = "std" => t.top = s.top /\ t.sent = s.sent
              /\ p[1] # "std" => t.top = Reader(a, p) /\ t.sent = Before(a, p) \o Out(a, p)
  <2>1. s.top \in Ran(live) /\ IsSink(s.top)
    BY <1>3 DEF Flow, TopOK
  <2>2. p[1] = "std" => t.top = s.top /\ t.sent = s.sent /\ s.top # p
    BY <1>2, <1>21, <2>1 DEF IsSink
  <2>3. p[1] # "std" => t.top = Reader(a, p) /\ t.sent = Before(a, p) \o Out(a, p)
    BY <1>1, <1>2, <1>21 DEF IsSink
  <2>4. p[1] # "std" => Reader(a, p) \in Ran(live) /\ IsSink(Reader(a, p)) /\ Reader(a, p) # p
    BY <1>3, <1>7, <1>21, CellFacts, NameFacts
  <2>5. t.top \in Ran(m) /\ IsSink(t.top)
    BY <1>10, <2>1, <2>2, <2>3, <2>4
  <2>6. t.top # NoQueue
    BY <1>14, <2>5, NameFacts
  <2> QED BY <2>2, <2>3, <2>5, <2>6
<1>22. ASSUME p # file, \A w \in Ran(m) : proc'[w].sink_queue # t.top
       PROVE  rd[t.top] \o Bytes(Items(t.top)') = t.sent
  <2>1. \A w \in Ran(live) : w # p => proc[w].sink_queue # t.top
    BY <1>10, <1>11, <1>22
  <2>2. t.top # p /\ t.top \in Ran(live)
    BY <1>10, <1>21, <1>22
  <2>3. Got(rd, t.top) = t.sent
    <3>1. CASE p[1] = "std"
      <4>1. r.sink_queue # t.top
        <5>1. r.sink_queue \in {NoQueue, p}
          BY <1>7, <3>1, NameFacts DEF Cell, Common
        <5> QED BY <1>21, <1>22, <2>2, <5>1
      <4>2. t.top = s.top /\ \A w \in Ran(live) : proc[w].sink_queue # t.top
        BY <1>21, <1>22, <2>1, <3>1, <4>1 DEF r
      <4> QED BY <1>21, <1>22, <2>2, <3>1, <4>2, TopGot
    <3>2. CASE p[1] # "std"
      <4>1. PICK v : v = Reader(a, p)
        OBVIOUS
      <4>2. t.top = v /\ t.sent = Before(a, p) \o Out(a, p)
        BY <1>21, <1>22, <3>2, <4>1
      <4>3. \A w \in Ran(live) : w # p => proc[w].sink_queue # v
        BY <2>1, <4>2
      <4>4. proc[p].state \in {"Uninitialized", "Completed"} /\ (In(a, p) # <<>> => proc[p].state = "Completed")
        BY <1>15, <3>2 DEF r
      <4>5. p[1] = "hash" => s.top = Reader(a, p)
        BY <1>1
      <4>6. Got(rd, v) = Before(a, p) \o Out(a, p)
        BY <1>3, <1>22, <3>2, <4>1, <4>3, <4>4, <4>5, LeftBehind
      <4> QED BY <4>2, <4>6
    <3> QED BY <3>1, <3>2
  <2> QED BY <1>13, <2>2, <2>3 DEF Got, Cat
<1>23. TopOK(a, t, rd)'
  <2>1. SUFFICES ASSUME m # <<>> PROVE TopOK(a, t, rd)'
    BY <1>9 DEF TopOK
  <2>2. p # file
    BY <1>1, <1>3, <1>8, <2>1
  <2>3. t.top \in Ran(m) /\ IsSink(t.top)
    BY <1>21, <2>2
  <2>4. (\A w \in Ran(m) : proc'[w].sink_queue # t.top) => rd[t.top] \o Bytes(Items(t.top)') = t.sent
    BY <1>22, <2>2
  <2>5. ASSUME NEW x \in Ran(m), IsSink(x) PROVE ~Closed(proc'[x], Items(x)')
    <3>1. x \in Ran(live) /\ x # p /\ proc'[x] = proc[x] /\ Items(x)' = Items(x)
      BY <1>11, <1>13
    <3>2. ~Closed(proc[x], Items(x))
      BY <1>3, <2>5, <3>1 DEF Flow, TopOK
    <3> QED BY <3>1, <3>2
  <2>6. PICK l : l = Last(m)
    OBVIOUS
  <2>7. l[1] # "hash"
    <3>1. l \in Ran(m)
      <4>1. IsSeq(m)
        BY <1>9 DEF PipelineOK, LiveOK
      <4>2. Len(m) \in 1 .. Len(m)
        BY <2>1, <4>1, SeqFacts
      <4> QED BY <2>6, <4>2 DEF Last, Ran
    <3> QED BY <1>14, <3>1 DEF IsSink
  <2>8. Phase(a, t, l, proc'[l], Items(l)')
    BY <1>2, <2>7 DEF Phase
  <2> QED BY <1>9, <2>3, <2>4, <2>5, <2>6, <2>8 DEF TopOK
<1>24. \A x : x # p => (x \in DOMAIN results => x \in DOMAIN results' /\ results'[x] = results[x])
  BY <1>6 DEF With
<1>25. p[1] # "std" /\ HasResult(p) => p \in DOMAIN results' /\ results'[p] = Result(a, p)
  <2>1. SUFFICES ASSUME p[1] # "std", HasResult(p) PROVE p \in DOMAIN results' /\ results'[p] = Result(a, p)
    OBVIOUS
  <2>2. /\ r.kind \in Hashes => r.buffer = In(a, p)
        /\ r.kind = "ByteCounterSink" => r.bytes = Len(In(a, p))
    BY <1>7, <1>15, <2>1, Drained
  <2>3. CASE r.kind \in Hashes
    BY <1>6, <1>7, <2>2, <2>3 DEF With, Result
  <2>4. CASE r.kind = "ByteCounterSink"
    <3>1. p \in DOMAIN results /\ results[p] = r.bytes
      BY <1>3, <1>7, <2>4 DEF Flow, ResultsOK, r
    <3>2. results' = results /\ r.kind \notin Hashes
      BY <1>6, <2>4 DEF Hashes
    <3> QED BY <1>7, <2>2, <2>4, <3>1, <3>2 DEF Result
  <2> QED BY <1>7, <2>1, <2>3, <2>4 DEF HasResult
<1>26. ResultsOK(a, t)'
  <2>1. ResultsOK(a, s)
    BY DEF Flow
  <2>2. ASSUME NEW x \in Ran(m), KindOf(x) = "ByteCounterSink" PROVE x \in DOMAIN results' /\ results'[x] = proc'[x].bytes
    BY <1>11, <1>24, <2>1, <2>2 DEF ResultsOK
  <2>3. t.left \notin Ran(m)
    BY <1>2, <1>10, <2>1 DEF ResultsOK
  <2>4. t.left # None /\ HasResult(t.left) => t.left \in DOMAIN results' /\ results'[t.left] = Result(a, t.left)
    <3>1. CASE p[1] = "std"
      <4>1. t.left = s.left /\ s.left # p
        BY <1>2, <1>3, <2>1, <3>1 DEF ResultsOK
      <4> QED BY <1>24, <2>1, <4>1 DEF ResultsOK
    <3>2. CASE p[1] # "std"
      BY <1>2, <1>25, <3>2
    <3> QED BY <3>1, <3>2
  <2>5. \A x \in DOMAIN taken : Takeable(x) /\ taken[x] = Result(a, x)
    BY <2>1 DEF ResultsOK
  <2>6. t.summed => overall \in DOMAIN taken
    BY <1>2, <2>1 DEF ResultsOK
  <2> QED BY <1>4, <1>9, <2>2, <2>3, <2>4, <2>5, <2>6 DEF ResultsOK
<1>27. ContentsOK(a, t, rd)'
  <2>1. ContentsOK(a, s, rd) /\ file \in Ran(live) /\ s.left # file
    BY <1>3, FileThere DEF Flow
  <2>2. t.left = file <=> p = file
    <3>1. file[1] # "std"
      BY DEF file
    <3> QED BY <1>2, <2>1, <3>1
  <2>3. ASSUME Whole, p = file PROVE contents[file] = Image[a]
    <3>1. p[1] # "std" /\ In(a, p) = Image[a]
      BY <2>3 DEF file, In
    <3>2. rd[p] = In(a, p)
      BY <1>7, <1>15, <3>1, Drained
    <3> QED BY <2>1, <2>3, <3>1, <3>2 DEF ContentsOK
  <2>4. file \in Ran(m) <=> p # file
    BY <1>10, <2>1
  <2> QED BY <1>4, <1>9, <1>11, <2>1, <2>2, <2>3, <2>4 DEF ContentsOK, Whole
<1>28. OutcomeOK(t)'
  BY <1>1, <1>2, <1>4 DEF Flow, OutcomeOK
<1> QED BY <1>4, <1>16, <1>17, <1>20, <1>23, <1>26, <1>27, <1>28 DEF Flow

-----------------------------------------------------------------------------
\* Operations of the writer of archive a that take s to t.
Moves(a, s, ops, t) == IsSeq(ops) /\ Path(Writing(a), s, ops, t)

LEMMA MovesStep ==
    ASSUME NEW a, NEW s, NEW op, NEW t
    PROVE  Step(Writing(a), s, op, t) <=> WriteStep(a, s, op, t)
<1>1. Writing(a) # Stack /\ Writing(a)[2] = a
    BY DEF Writing, Stack
<1> QED BY <1>1 DEF Step

LEMMA MovesNone ==
    ASSUME NEW a, NEW s
    PROVE  Moves(a, s, <<>>, s)
BY PathEmpty, SeqEmpty DEF Moves

LEMMA MovesOne ==
    ASSUME NEW a, NEW s, NEW op, NEW t, WriteStep(a, s, op, t)
    PROVE  Moves(a, s, <<op>>, t)
BY MovesStep, PathOne, SeqSingle DEF Moves

LEMMA MovesConcat ==
    ASSUME NEW a, NEW s, NEW x, NEW t, NEW y, NEW u, Moves(a, s, x, t), Moves(a, t, y, u)
    PROVE  Moves(a, s, x \o y, u)
BY PathConcat DEF Moves

LEMMA MovesAppend ==
    ASSUME NEW a, NEW s, NEW x, NEW t, NEW op, NEW u, Moves(a, s, x, t), WriteStep(a, t, op, u)
    PROVE  Moves(a, s, Append(x, op), u)
<1>1. Moves(a, s, x \o <<op>>, u)
    BY MovesOne, MovesConcat
<1>2. Append(x, op) = x \o <<op>>
    BY SeqAppend DEF Moves
<1> QED BY <1>1, <1>2

LEMMA MovesTwo ==
    ASSUME NEW a, NEW s, NEW x, NEW t, NEW y, NEW u, WriteStep(a, s, x, t), WriteStep(a, t, y, u)
    PROVE  Moves(a, s, <<x, y>>, u)
<1>1. <<x, y>> = Append(<<x>>, y)
    OBVIOUS
<1> QED BY <1>1, MovesOne, MovesAppend

LEMMA MovesThree ==
    ASSUME NEW a, NEW s, NEW x, NEW t, NEW y, NEW u, NEW z, NEW v,
           WriteStep(a, s, x, t), WriteStep(a, t, y, u), WriteStep(a, u, z, v)
    PROVE  Moves(a, s, <<x, y, z>>, v)
<1>1. <<x, y, z>> = Append(<<x, y>>, z)
    OBVIOUS
<1> QED BY <1>1, MovesTwo, MovesAppend

LEMMA MovesFour ==
    ASSUME NEW a, NEW s, NEW x, NEW t, NEW y, NEW u, NEW z, NEW v, NEW w, NEW e,
           WriteStep(a, s, x, t), WriteStep(a, t, y, u), WriteStep(a, u, z, v), WriteStep(a, v, w, e)
    PROVE  Moves(a, s, <<x, y, z, w>>, e)
<1>1. <<x, y, z, w>> = Append(<<x, y, z>>, w)
    OBVIOUS
<1> QED BY <1>1, MovesThree, MovesAppend

\* What a destructor consists of.
LEMMA DestroyMoves ==
    ASSUME NEW a, NEW s, NEW op, NEW t, DestroyRule(a, s, op, t), NEW p, p = op.p
    PROVE  Moves(a, s, (IF IsSink(p) THEN <<Op("flush", p)>> ELSE <<>>)
                       \o <<Op("stop", p), Op("join", p), Op("detach", p)>>, t)
<1>1. /\ Removable(a, s, p) /\ t = Gone(a, s, p)
      /\ \/ s.phase = "open" /\ Ready(a, s, p)
         \/ s.phase = "open" /\ p[1] = "hash" /\ In(a, p) = <<>>
         \/ s.phase = "joined" /\ p[1] = "hash"
         \/ s.phase = "open" /\ p[1] = "std"
    BY DEF DestroyRule
<1>2. PICK j : j = Now(s, "joined")
    OBVIOUS
<1>3. /\ j.stack = s.stack /\ j.top = s.top /\ j.sent = s.sent
      /\ j.phase = "joined" /\ j.left = s.left /\ j.summed = s.summed /\ Now(j, "joined") = j
    BY <1>2, NowFields
<1>4. s.stack # <<>> /\ p = Last(s.stack) /\ (IsSink(p) => Free(a, s, p))
      /\ (p[1] = "std" => Reader(a, p) \notin Ran(s.stack))
    BY <1>1 DEF Removable
<1>5. Removable(a, j, p) /\ t = Gone(a, j, p)
    BY <1>1, <1>3 DEF Removable, Gone, Free
<1>6. ASSUME NEW do PROVE Op(do, p).do = do /\ Op(do, p).p = p
    BY DEF Op
<1>7. WriteStep(a, j, Op("join", p), j)
    BY <1>3, <1>4, <1>6 DEF WriteStep, JoinRule
<1>8. WriteStep(a, j, Op("detach", p), t)
    BY <1>3, <1>5, <1>6 DEF WriteStep, DetachRule
<1>9. CASE IsSink(p)
  <2>1. s.phase = "open" /\ Ready(a, s, p) /\ p[1] # "std"
    BY <1>1, <1>9 DEF IsSink
  <2>2. WriteStep(a, s, Op("flush", p), j)
    BY <1>2, <1>4, <1>6, <1>9, <2>1 DEF WriteStep, FlushRule
  <2>3. WriteStep(a, j, Op("stop", p), j)
    BY <1>3, <1>4, <1>6, <2>1 DEF WriteStep, StopRule
  <2>4. Moves(a, s, <<Op("flush", p)>>, j)
    BY <2>2, MovesOne
  <2>5. Moves(a, j, <<Op("stop", p), Op("join", p), Op("detach", p)>>, t)
    BY <1>7, <1>8, <2>3, MovesThree
  <2> QED BY <1>9, <2>4, <2>5, MovesConcat
<1>10. CASE ~IsSink(p)
  <2>1. WriteStep(a, s, Op("stop", p), j)
    <3>1. ~Ready(a, s, p)
      BY <1>10 DEF Ready
    <3>2. p[1] = "hash" => p[1] # "std"
      OBVIOUS
    <3>3. StopRule(a, s, Op("stop", p), j)
      BY <1>1, <1>2, <1>4, <1>6, <3>1, <3>2 DEF StopRule
    <3> QED BY <3>3 DEF WriteStep
  <2>2. Moves(a, s, <<Op("stop", p), Op("join", p), Op("detach", p)>>, t)
    BY <1>7, <1>8, <2>1, MovesThree
  <2> QED BY <1>10, <2>2, MovesNone, MovesConcat
<1> QED BY <1>9, <1>10

LEMMA DestroyFlow ==
    ASSUME NEW a, NEW s, NEW rd, Flow(a, s, rd), PipelineOK, NEW op, NEW t, DestroyRule(a, s, op, t),
           program # <<>>, op = program[1], DestroyStream, UNCHANGED commandVars
    PROVE  \E ops : Flow(a, s, rd)' /\ Moves(a, s, ops, t) /\ program' = ops \o Tail(program)
<1> DEFINE p == op.p
           ops == (IF IsSink(p) THEN <<Op("flush", p)>> ELSE <<>>)
                  \o <<Op("stop", p), Op("join", p), Op("detach", p)>>
<1>1. s.stack # <<>> /\ p = Last(s.stack)
    BY DEF DestroyRule, Removable
<1>2. p \in Ran(live)
    BY <1>1, LastObject
<1>3. proc[p].kind \in SinkKinds <=> IsSink(p)
  <2>1. IsName(p) /\ proc[p].kind = KindOf(p)
    BY <1>2, CellFacts
  <2> HIDE DEF p
  <2> QED BY <2>1, KindFacts
<1>4. program' = ops \o Tail(program)
    BY <1>3 DEF DestroyStream, Expand, Argument
<1>5. /\ live' = live /\ proc' = proc /\ queue' = queue /\ contents' = contents
      /\ results' = results /\ taken' = taken /\ outcome' = outcome
    BY DEF DestroyStream, commandVars
<1>6. Flow(a, s, rd)'
    BY <1>5 DEF Flow, LiveShape, Cells, Links, TopOK, ResultsOK, ContentsOK, OutcomeOK, Items, Whole
<1>7. Moves(a, s, ops, t)
    BY DestroyMoves
<1> QED BY <1>4, <1>6, <1>7

LEMMA TakeFlow ==
    ASSUME NEW a, NEW s, NEW rd, Flow(a, s, rd), PipelineOK, NEW op, NEW t, TakeRule(a, s, op, t),
           program # <<>>, op = program[1], TakeResult
    PROVE  Flow(a, t, rd)' /\ program' = Tail(program)
<1> DEFINE p == op.p
<1>1. /\ s.phase = "open" /\ p = s.left /\ Takeable(p)
      /\ t = State(s.stack, s.top, s.sent, "open", s.left, s.summed \/ p = overall)
    BY DEF TakeRule
<1>2. /\ t.stack = s.stack /\ t.top = s.top /\ t.sent = s.sent /\ t.phase = s.phase /\ t.left = s.left
      /\ t.summed = (s.summed \/ p = overall)
    BY <1>1 DEF State
<1>3. /\ live' = live /\ proc' = proc /\ queue' = queue /\ contents' = contents
      /\ results' = results /\ outcome' = outcome /\ program' = Tail(program)
    BY DEF TakeResult, Continue
<1>4. p # None /\ HasResult(p)
    BY <1>1 DEF Takeable, HasResult, KindOf, Hashes, overall, None
<1>5. p \in DOMAIN results /\ results[p] = Result(a, p)
    BY <1>1, <1>4 DEF Flow, ResultsOK
<1>6. taken' = With(taken, p, Result(a, p))
    BY <1>5 DEF TakeResult, Argument
<1> HIDE DEF p
<1>7. /\ LiveShape(a, s) /\ Cells(a, rd) /\ Links(a, rd) /\ TopOK(a, s, rd)
      /\ ResultsOK(a, s) /\ ContentsOK(a, s, rd) /\ OutcomeOK(s)
    BY DEF Flow
<1>8. LiveShape(a, t)' /\ Cells(a, rd)' /\ Links(a, rd)'
    BY <1>2, <1>3, <1>7 DEF LiveShape, Cells, Links, Items
<1>9. TopOK(a, t, rd)'
    BY <1>2, <1>3, <1>7 DEF TopOK, Items, Phase, Free
<1>10. ResultsOK(a, t)'
  <2>1. \A x \in DOMAIN taken' : Takeable(x) /\ taken'[x] = Result(a, x)
    BY <1>1, <1>6, <1>7 DEF ResultsOK, With
  <2>2. t.summed => overall \in DOMAIN taken'
    BY <1>2, <1>6, <1>7 DEF ResultsOK, With
  <2> QED BY <1>2, <1>3, <1>7, <2>1, <2>2 DEF ResultsOK
<1>11. ContentsOK(a, t, rd)'
    BY <1>2, <1>3, <1>7 DEF ContentsOK, Whole
<1>12. OutcomeOK(t)'
    BY <1>1, <1>2, <1>3, <1>7 DEF OutcomeOK
<1> QED BY <1>3, <1>8, <1>9, <1>10, <1>11, <1>12 DEF Flow

LEMMA FinishFlow ==
    ASSUME NEW a, NEW s, NEW rd, Flow(a, s, rd), PipelineOK, NEW op, NEW t, EndRule(a, s, op, t),
           program # <<>>, op = program[1], End
    PROVE  Flow(a, t, rd)' /\ program' = Tail(program)
<1>1. /\ op.do = "end" /\ op.result = "committed" /\ s.phase = "open" /\ s.stack = <<>> /\ s.left = file
      /\ s.summed /\ t = Now(s, "over")
    BY DEF EndRule
<1>2. /\ t.stack = s.stack /\ t.top = s.top /\ t.sent = s.sent /\ t.phase = "over" /\ t.left = s.left
      /\ t.summed = s.summed
    BY <1>1 DEF Now, State
<1>3. /\ live' = live /\ proc' = proc /\ queue' = queue /\ contents' = contents
      /\ results' = results /\ taken' = taken /\ program' = Tail(program)
    BY DEF End, Continue
<1>4. outcome' = "committed"
    BY <1>1 DEF End, Doing
<1>5. /\ LiveShape(a, s) /\ Cells(a, rd) /\ Links(a, rd) /\ TopOK(a, s, rd)
      /\ ResultsOK(a, s) /\ ContentsOK(a, s, rd) /\ OutcomeOK(s)
    BY DEF Flow
<1>6. live = <<>>
    BY <1>1, <1>5 DEF LiveShape
<1>7. LiveShape(a, t)' /\ Cells(a, rd)' /\ Links(a, rd)'
    BY <1>2, <1>3, <1>5 DEF LiveShape, Cells, Links, Items
<1>8. TopOK(a, t, rd)'
    BY <1>3, <1>6 DEF TopOK
<1>9. ResultsOK(a, t)' /\ ContentsOK(a, t, rd)'
    BY <1>2, <1>3, <1>5 DEF ResultsOK, ContentsOK, Whole
<1>10. OutcomeOK(t)'
    BY <1>1, <1>2, <1>3, <1>4, <1>6 DEF OutcomeOK
<1> QED BY <1>3, <1>7, <1>8, <1>9, <1>10 DEF Flow

-----------------------------------------------------------------------------
\* Every step of the main thread.

\* What there is to do leads from where the writer is to u.
Resumes(a, u) ==
    \E t, e, ops : ops = program /\ Moves(a, t, ops, u) /\ Flow(a, t, e)

LEMMA MovesSame ==
    ASSUME NEW a, NEW s, NEW ops, NEW t, Moves(a, s, ops, t)
    PROVE  Moves(a, s, ops, t)'
<1>1. ASSUME NEW x, NEW op, NEW y
      PROVE  Step(Writing(a), x, op, y)' <=> WriteStep(a, x, op, y)
  <2>1. Writing(a) # Stack /\ Writing(a)[2] = a
    BY DEF Writing, Stack
  <2> QED BY <2>1 DEF Step
<1>2. \A x, op, y : Step(Writing(a), x, op, y)' <=> Step(Writing(a), x, op, y)
    BY <1>1, MovesStep
<1> QED BY <1>2 DEF Moves, Path

LEMMA ResumesAfter ==
    ASSUME NEW a, NEW u, NEW t, NEW e, NEW ops, Moves(a, t, ops, u), Flow(a, t, e)', program' = ops
    PROVE  Resumes(a, u)'
<1>1. Moves(a, t, ops, u)'
    BY MovesSame
<1> QED BY <1>1 DEF Resumes

LEMMA ResumesWith ==
    ASSUME NEW a, NEW u, NEW s, NEW e, NEW ops, NEW t, NEW rest,
           Moves(a, s, ops, t), Moves(a, t, rest, u), Flow(a, s, e)', program' = ops \o rest
    PROVE  Resumes(a, u)'
BY MovesConcat, ResumesAfter

LEMMA FirstMove ==
    ASSUME NEW a, NEW s, NEW u, Moves(a, s, program, u), program # <<>>
    PROVE  \E t : WriteStep(a, s, program[1], t) /\ Moves(a, t, Tail(program), u)
<1>1. PICK ops : ops = program
    OBVIOUS
<1>2. PICK t : IsSeq(Tail(ops)) /\ Step(Writing(a), s, ops[1], t) /\ Path(Writing(a), t, Tail(ops), u)
    BY <1>1, PathTail DEF Moves
<1> QED BY <1>1, <1>2, MovesStep DEF Moves

\* Which rule it is.
LEMMA WhichRule ==
    ASSUME NEW a, NEW s, NEW op, NEW t, WriteStep(a, s, op, t)
    PROVE  /\ op.do = "construct" => FileRule(a, s, op, t) \/ StdRule(a, s, op, t)
           /\ op.do = "construct_on" => SinkRule(a, s, op, t)
           /\ op.do = "construct_from" => HashRule(a, s, op, t)
           /\ op.do = "copy_to" => CopyRule(a, s, op, t)
           /\ op.do = "start" => StartRule(a, s, op, t)
           /\ op.do = "join" => JoinRule(a, s, op, t)
           /\ op.do = "sync_write" => WriteRule(a, s, op, t)
           /\ op.do = "push" => DataRule(a, s, op, t) \/ EofRule(a, s, op, t)
           /\ op.do = "flush" => FlushRule(a, s, op, t)
           /\ op.do = "stop" => StopRule(a, s, op, t)
           /\ op.do = "detach" => DetachRule(a, s, op, t)
           /\ op.do = "destroy" => DestroyRule(a, s, op, t)
           /\ op.do = "take" => TakeRule(a, s, op, t)
           /\ op.do = "end" => EndRule(a, s, op, t)
           /\ op.do \in {"construct", "construct_on", "construct_from", "copy_to", "start", "join",
                         "sync_write", "push", "flush", "stop", "detach", "destroy", "take", "end"}
<1>1. /\ FileRule(a, s, op, t) => op.do = "construct"
      /\ StdRule(a, s, op, t) => op.do = "construct"
      /\ SinkRule(a, s, op, t) => op.do = "construct_on"
      /\ HashRule(a, s, op, t) => op.do = "construct_from"
    BY DEF FileRule, StdRule, SinkRule, HashRule
<1>2. /\ CopyRule(a, s, op, t) => op.do = "copy_to"
      /\ StartRule(a, s, op, t) => op.do = "start"
      /\ JoinRule(a, s, op, t) => op.do = "join"
      /\ WriteRule(a, s, op, t) => op.do = "sync_write"
    BY DEF CopyRule, StartRule, JoinRule, WriteRule
<1>3. /\ DataRule(a, s, op, t) => op.do = "push"
      /\ EofRule(a, s, op, t) => op.do = "push"
      /\ FlushRule(a, s, op, t) => op.do = "flush"
      /\ StopRule(a, s, op, t) => op.do = "stop"
    BY DEF DataRule, EofRule, FlushRule, StopRule
<1>4. /\ DetachRule(a, s, op, t) => op.do = "detach"
      /\ DestroyRule(a, s, op, t) => op.do = "destroy"
      /\ TakeRule(a, s, op, t) => op.do = "take"
      /\ EndRule(a, s, op, t) => op.do = "end"
    BY DEF DetachRule, DestroyRule, TakeRule, EndRule
<1> QED BY <1>1, <1>2, <1>3, <1>4 DEF WriteStep

LEMMA MainFlow ==
    ASSUME NEW a, NEW u, NEW s, NEW rd, Moves(a, s, program, u), Flow(a, s, rd), PipelineOK, PipelineOK',
           ~exception, MainStep
    PROVE  Resumes(a, u)' /\ ~exception'
<1>0. program # <<>>
    BY DEF MainStep, MainThread, ConstructAlone, ConstructSink, ConstructSource, copy_to, NewPipeline,
           StartThrows, StartAll, PushSegment, SynchronousWrite, SynchronousRead, FillBuffer,
           DestroyStream, flush, Await, stop, join, Detach, ChooseFiles, Part, CheckSkip, TakeResult,
           End, Doing
<1>1. PICK op, rest : op = program[1] /\ rest = Tail(program)
    OBVIOUS
<1>2. PICK t : WriteStep(a, s, op, t) /\ Moves(a, t, rest, u)
    BY <1>0, <1>1, FirstMove
<1>3. ASSUME \E e : Flow(a, t, e)', program' = Tail(program) PROVE Resumes(a, u)'
    BY <1>1, <1>2, <1>3, ResumesAfter
<1>4. ASSUME NEW do, Doing(do) PROVE op.do = do
    BY <1>1, <1>4 DEF Doing
<1>5. CASE ConstructAlone /\ UNCHANGED commandVars
  <2>1. Doing("construct") /\ exception' = exception
    BY <1>5 DEF ConstructAlone
  <2>2. FileRule(a, s, op, t) \/ StdRule(a, s, op, t)
    BY <1>2, <1>4, <2>1, WhichRule
  <2>3. (\E e : Flow(a, t, e)') /\ program' = Tail(program)
    BY <1>0, <1>1, <1>5, <2>2, FileFlow, StdFlow
  <2> QED BY <1>3, <2>1, <2>3
<1>6. CASE ConstructSink /\ UNCHANGED commandVars
  <2>1. Doing("construct_on") /\ exception' = exception
    BY <1>6 DEF ConstructSink
  <2>2. SinkRule(a, s, op, t)
    BY <1>2, <1>4, <2>1, WhichRule
  <2>3. (\E e : Flow(a, t, e)') /\ program' = Tail(program)
    BY <1>0, <1>1, <1>6, <2>2, SinkFlow
  <2> QED BY <1>3, <2>1, <2>3
<1>7. CASE ConstructSource /\ UNCHANGED commandVars
  <2>1. Doing("construct_from") /\ exception' = exception
    BY <1>7 DEF ConstructSource
  <2>2. HashRule(a, s, op, t)
    BY <1>2, <1>4, <2>1, WhichRule
  <2>3. (\E e : Flow(a, t, e)') /\ program' = Tail(program)
    BY <1>0, <1>1, <1>7, <2>2, HashFlow
  <2> QED BY <1>3, <2>1, <2>3
<1>8. CASE copy_to /\ UNCHANGED commandVars
  <2>1. Doing("copy_to") /\ exception' = exception
    BY <1>8 DEF copy_to
  <2>2. CopyRule(a, s, op, t)
    BY <1>2, <1>4, <2>1, WhichRule
  <2>3. PICK x, y : x = Now(s, "linked") /\ y = Now(s, "running")
    OBVIOUS
  <2>4. /\ Flow(a, x, rd)' /\ StartRule(a, x, Start, y) /\ JoinRule(a, y, Op("join", op.p), t)
        /\ program' = <<Start, Op("join", op.p)>> \o Tail(program)
    BY <1>0, <1>1, <1>8, <2>2, <2>3, CopyFlow
  <2>5. Moves(a, x, <<Start, Op("join", op.p)>>, t)
    BY <2>4, MovesTwo DEF WriteStep
  <2> QED BY <1>1, <1>2, <2>1, <2>4, <2>5, ResumesWith
<1>9. CASE StartAll /\ UNCHANGED commandVars
  <2>1. Doing("start") /\ exception' = exception
    BY <1>9 DEF StartAll
  <2>2. StartRule(a, s, op, t)
    BY <1>2, <1>4, <2>1, WhichRule
  <2>3. Flow(a, t, rd)' /\ program' = Tail(program)
    BY <1>0, <1>1, <1>9, <2>2, StartFlow
  <2> QED BY <1>3, <2>1, <2>3
<1>10. CASE PushSegment /\ UNCHANGED commandVars
  <2>1. Doing("push") /\ exception' = exception
    BY <1>10 DEF PushSegment
  <2>2. DataRule(a, s, op, t) \/ EofRule(a, s, op, t)
    BY <1>2, <1>4, <2>1, WhichRule
  <2>3. Flow(a, t, rd)' /\ program' = Tail(program)
    BY <1>0, <1>1, <1>10, <2>2, PushSegmentFlow
  <2> QED BY <1>3, <2>1, <2>3
<1>11. CASE SynchronousWrite /\ UNCHANGED commandVars
  <2>1. Doing("sync_write") /\ exception' = exception
    BY <1>11 DEF SynchronousWrite
  <2>2. WriteRule(a, s, op, t)
    BY <1>2, <1>4, <2>1, WhichRule
  <2>3. PICK x : x = Now(s, "fed")
    OBVIOUS
  <2>4. /\ Flow(a, x, rd)' /\ DataRule(a, x, Push(op.p, op.segment), t)
        /\ program' = <<Push(op.p, op.segment)>> \o Tail(program)
    BY <1>0, <1>1, <1>11, <2>2, <2>3, SynchronousWriteFlow
  <2>5. Moves(a, x, <<Push(op.p, op.segment)>>, t)
    BY <2>4, MovesOne DEF WriteStep
  <2> QED BY <1>1, <1>2, <2>1, <2>4, <2>5, ResumesWith
<1>12. CASE DestroyStream /\ UNCHANGED commandVars
  <2>1. Doing("destroy") /\ exception' = exception
    BY <1>12 DEF DestroyStream
  <2>2. DestroyRule(a, s, op, t)
    BY <1>2, <1>4, <2>1, WhichRule
  <2>3. PICK ops : Flow(a, s, rd)' /\ Moves(a, s, ops, t) /\ program' = ops \o Tail(program)
    BY <1>0, <1>1, <1>12, <2>2, DestroyFlow
  <2> QED BY <1>1, <1>2, <2>1, <2>3, ResumesWith
<1>13. CASE flush /\ UNCHANGED commandVars
  <2>1. Doing("flush") /\ exception' = exception
    BY <1>13 DEF flush
  <2>2. FlushRule(a, s, op, t)
    BY <1>2, <1>4, <2>1, WhichRule
  <2>3. PICK x, y : x = Now(s, "ending") /\ y = Now(s, "closed")
    OBVIOUS
  <2>4. \/ Flow(a, t, rd)' /\ program' = Tail(program)
        \/ Flow(a, x, rd)' /\ program' = <<Push(op.p, Eof), Op("join", op.p)>> \o Tail(program)
    BY <1>0, <1>1, <1>13, <2>2, <2>3, FlushFlow
  <2>5. Moves(a, x, <<Push(op.p, Eof), Op("join", op.p)>>, t)
    <3>1. /\ s.stack # <<>> /\ op.p = Last(s.stack) /\ Ready(a, s, op.p) /\ Free(a, s, op.p)
          /\ t = Now(s, "joined") /\ IsSink(op.p)
      BY <2>2 DEF FlushRule, Ready
    <3>2. /\ x.stack = s.stack /\ x.top = s.top /\ x.sent = s.sent /\ x.phase = "ending"
          /\ Now(x, "closed") = y
      BY <2>3, NowFields
    <3>3. y.stack = s.stack /\ y.phase = "closed" /\ Now(y, "joined") = t
      BY <2>3, <3>1, NowFields
    <3>4. EofRule(a, x, Push(op.p, Eof), y)
      BY <3>1, <3>2 DEF EofRule, Ready, Free, Push
    <3>5. JoinRule(a, y, Op("join", op.p), t)
      BY <3>1, <3>3 DEF JoinRule, Op
    <3> QED BY <3>4, <3>5, MovesTwo DEF WriteStep
  <2> QED BY <1>1, <1>2, <1>3, <2>1, <2>4, <2>5, ResumesWith
<1>14. CASE stop /\ UNCHANGED commandVars
  <2>1. Doing("stop") /\ exception' = exception
    BY <1>14 DEF stop
  <2>2. StopRule(a, s, op, t)
    BY <1>2, <1>4, <2>1, WhichRule
  <2>3. Flow(a, t, rd)' /\ (program' = Tail(program) \/ program' = <<Op("join", op.p)>> \o Tail(program))
    BY <1>0, <1>1, <1>14, <2>2, StopFlow
  <2>4. Moves(a, t, <<Op("join", op.p)>>, t)
    <3>1. s.stack # <<>> /\ op.p = Last(s.stack) /\ t = Now(s, "joined")
      BY <2>2 DEF StopRule
    <3>2. t.stack = s.stack /\ t.phase = "joined" /\ Now(t, "joined") = t
      BY <3>1, NowFields
    <3>3. JoinRule(a, t, Op("join", op.p), t)
      BY <3>1, <3>2 DEF JoinRule, Op
    <3> QED BY <3>3, MovesOne DEF WriteStep
  <2> QED BY <1>1, <1>2, <1>3, <2>1, <2>3, <2>4, ResumesWith
<1>15. CASE join /\ UNCHANGED commandVars
  <2>1. Doing("join") /\ exception' = exception
    BY <1>15 DEF join
  <2>2. JoinRule(a, s, op, t)
    BY <1>2, <1>4, <2>1, WhichRule
  <2>3. Flow(a, t, rd)' /\ program' = Tail(program)
    BY <1>0, <1>1, <1>15, <2>2, JoinFlow
  <2> QED BY <1>3, <2>1, <2>3
<1>16. CASE Detach /\ UNCHANGED commandVars
  <2>1. Doing("detach") /\ exception' = exception
    BY <1>16 DEF Detach
  <2>2. DetachRule(a, s, op, t)
    BY <1>2, <1>4, <2>1, WhichRule
  <2>3. Flow(a, t, rd)' /\ program' = Tail(program)
    BY <1>0, <1>1, <1>16, <2>2, DetachFlow
  <2> QED BY <1>3, <2>1, <2>3
<1>17. CASE TakeResult
  <2>1. Doing("take") /\ exception' = exception
    BY <1>17 DEF TakeResult
  <2>2. TakeRule(a, s, op, t)
    BY <1>2, <1>4, <2>1, WhichRule
  <2>3. Flow(a, t, rd)' /\ program' = Tail(program)
    BY <1>0, <1>1, <1>17, <2>2, TakeFlow
  <2> QED BY <1>3, <2>1, <2>3
<1>18. CASE End
  <2>1. (Doing("end") \/ Doing("throw")) /\ exception' = exception
    BY <1>18 DEF End
  <2>2. op.do = "end"
    BY <1>2, <1>4, <2>1, WhichRule
  <2>3. EndRule(a, s, op, t)
    BY <1>2, <2>2, WhichRule
  <2>4. Flow(a, t, rd)' /\ program' = Tail(program)
    BY <1>0, <1>1, <1>18, <2>3, FinishFlow
  <2> QED BY <1>3, <2>1, <2>4
<1>19. /\ ~NewPipeline /\ ~SynchronousRead /\ ~FillBuffer /\ ~Await /\ ~ChooseFiles
       /\ ~Part /\ ~CheckSkip /\ ~StartThrows
  <2>1. \A do : Doing(do) => op.do = do
    BY <1>4
  <2>2. ~Doing("pipeline") /\ ~Doing("sync_read") /\ ~Doing("fill") /\ ~Doing("await")
        /\ ~Doing("choose") /\ ~Doing("part") /\ ~Doing("check_skip")
    BY <1>2, <2>1, WhichRule
  <2> QED BY <2>2 DEF NewPipeline, SynchronousRead, FillBuffer, Await, ChooseFiles, Part, CheckSkip, StartThrows
<1> QED BY <1>5, <1>6, <1>7, <1>8, <1>9, <1>10, <1>11, <1>12, <1>13, <1>14, <1>15, <1>16, <1>17, <1>18,
           <1>19 DEF MainStep, MainThread

-----------------------------------------------------------------------------
\* The archive that has to be written.

LEMMA FirstNone ==
    ASSUME NEW s, IsSeq(s)
    PROVE  FirstOf(s, 0) = <<>>
<1> DEFINE t == SubSeq(s, 1, 0)
<1>1. Len(s) \in Nat
    BY SeqFacts
<1>2. 0 \in 0 .. Len(s) /\ 1 \in Nat \ {0}
    BY <1>1
<1>3. IsSeq(t) /\ Len(t) = 0
    BY <1>2, SeqSub
<1> HIDE DEF t
<1>4. t = <<>>
    BY <1>3, SeqFacts
<1> QED BY <1>4, FlattenEmpty DEF FirstOf, t

LEMMA FirstAll ==
    ASSUME NEW s, IsSeq(s)
    PROVE  FirstOf(s, Len(s)) = FlattenSeq(s)
<1>1. SubSeq(s, 1, Len(s)) = s
    BY SubSeqAll
<1> QED BY <1>1 DEF FirstOf

LEMMA FirstNext ==
    ASSUME NEW s, IsSeqs(s), NEW n \in 1 .. Len(s)
    PROVE  /\ FirstOf(s, n) = FirstOf(s, n - 1) \o s[n]
           /\ IsSeq(FirstOf(s, n)) /\ IsSeq(FirstOf(s, n - 1)) /\ IsSeq(s[n])
<1> DEFINE f == SubSeq(s, 1, n - 1)
           g == SubSeq(s, 1, n)
           x == s[n]
           h == Append(f, x)
<1>1. IsSeq(s) /\ Len(s) \in Nat /\ IsSeq(x) /\ \A i \in 1 .. Len(s) : IsSeq(s[i])
    BY SeqFacts DEF IsSeqs
<1>2. n - 1 \in 0 .. Len(s) /\ n \in 0 .. Len(s) /\ n \in Nat /\ n > 0 /\ 1 \in Nat \ {0}
    BY <1>1
<1>3. /\ IsSeq(f) /\ Len(f) = (IF 1 <= n - 1 THEN n - 1 - 1 + 1 ELSE 0)
      /\ \A i \in 1 .. n - 1 - 1 + 1 : f[i] = s[1 + i - 1]
    BY <1>1, <1>2, SeqSub
<1>4. /\ IsSeq(g) /\ Len(g) = (IF 1 <= n THEN n - 1 + 1 ELSE 0)
      /\ \A i \in 1 .. n - 1 + 1 : g[i] = s[1 + i - 1]
    BY <1>1, <1>2, SeqSub
<1> HIDE DEF f, g
<1>5. Len(f) = n - 1 /\ \A i \in 1 .. n - 1 : f[i] = s[i]
    BY <1>2, <1>3
<1>6. Len(g) = n /\ \A i \in 1 .. n : g[i] = s[i]
    BY <1>2, <1>4
<1> HIDE DEF x
<1>7. /\ IsSeq(h) /\ Len(h) = Len(f) + 1 /\ (\A i \in 1 .. Len(f) : h[i] = f[i]) /\ h[Len(f) + 1] = x
    BY <1>3, SeqAppend
<1> HIDE DEF h
<1>8. \A i \in 1 .. n : g[i] = h[i]
  <2>1. ASSUME NEW i \in 1 .. n PROVE g[i] = h[i]
    <3>1. CASE i = n
      BY <1>2, <1>5, <1>6, <1>7, <3>1 DEF x
    <3>2. CASE i # n
      <4>1. i \in 1 .. n - 1
        BY <1>2, <3>2
      <4> QED BY <1>5, <1>6, <1>7, <4>1
    <3> QED BY <3>1, <3>2
  <2> QED BY <2>1
<1>9. g = h
  <2>1. Len(h) = n
    BY <1>2, <1>5, <1>7
  <2> QED BY <1>4, <1>6, <1>7, <1>8, <2>1, SeqExt
<1>10. FlattenSeq(Append(f, x)) = FlattenSeq(f) \o x
    BY <1>1, <1>3, FlattenAppend
<1>11. IsSeqs(f)
  <2>1. \A i \in 1 .. n - 1 : i \in 1 .. Len(s)
    BY <1>1, <1>2
  <2> QED BY <1>1, <1>3, <1>5, <2>1 DEF IsSeqs
<1>12. IsSeqs(g)
  <2>1. \A i \in 1 .. n : i \in 1 .. Len(s)
    BY <1>1, <1>2
  <2> QED BY <1>1, <1>4, <1>6, <2>1 DEF IsSeqs
<1>13. IsSeq(FlattenSeq(f)) /\ IsSeq(FlattenSeq(g))
    BY <1>11, <1>12, FlattenIsSeq
<1> QED BY <1>1, <1>9, <1>10, <1>13 DEF FirstOf, f, g, h, x

\* The first of them are the beginning of all.
LEMMA FirstBegins ==
    ASSUME NEW s, IsSeqs(s), NEW n \in 1 .. Len(s)
    PROVE  Begins(FirstOf(s, n - 1) \o s[n], FlattenSeq(s))
<1> DEFINE m == Len(s)
           T == {k \in Nat : k < m => Begins(FirstOf(s, m - k), FirstOf(s, m))}
<1>1. IsSeq(s) /\ m \in Nat /\ m > 0
    BY SeqFacts DEF IsSeqs
<1> HIDE DEF m
<1>2. \A i \in 1 .. m : FirstOf(s, i) = FirstOf(s, i - 1) \o s[i] /\ IsSeq(FirstOf(s, i))
                        /\ IsSeq(FirstOf(s, i - 1)) /\ IsSeq(s[i])
    BY FirstNext DEF m
<1>3. 0 \in T
  <2>0. m \in 1 .. m /\ m - 0 = m
    BY <1>1
  <2>1. IsSeq(FirstOf(s, m)) /\ m - 0 = m
    BY <1>2, <2>0
  <2> QED BY <2>1, BeginsSelf
<1>4. ASSUME NEW k \in Nat, k \in T PROVE k + 1 \in T
  <2>1. ASSUME k + 1 < m PROVE Begins(FirstOf(s, m - (k + 1)), FirstOf(s, m))
    <3>1. PICK i, j : i = m - k /\ j = m - (k + 1)
      OBVIOUS
    <3>2. i \in 1 .. m /\ i - 1 = j /\ k < m
      BY <1>1, <2>1, <3>1
    <3>3. Begins(FirstOf(s, i), FirstOf(s, m))
      BY <1>4, <3>1, <3>2
    <3>4. FirstOf(s, i) = FirstOf(s, j) \o s[i] /\ IsSeq(FirstOf(s, j)) /\ IsSeq(s[i])
      BY <1>2, <3>2
    <3>5. Begins(FirstOf(s, j), FirstOf(s, i))
      BY <3>4, BeginsConcat
    <3>6. Begins(FirstOf(s, j), FirstOf(s, m))
      BY <3>3, <3>4, <3>5, BeginsTrans
    <3> QED BY <3>1, <3>6
  <2> QED BY <2>1
<1>5. Nat \subseteq T
  <2> HIDE DEF T
  <2> QED BY <1>3, <1>4, NatSet
<1>6. n \in 1 .. m
    BY DEF m
<1>7. m - n \in Nat /\ m - n < m /\ m - (m - n) = n
    BY <1>1, <1>6
<1>8. Begins(FirstOf(s, n), FirstOf(s, m))
    BY <1>5, <1>7
<1>9. FirstOf(s, n) = FirstOf(s, n - 1) \o s[n]
    BY <1>2, <1>6
<1>10. FirstOf(s, m) = FlattenSeq(s)
    BY <1>1, FirstAll DEF m
<1> QED BY <1>8, <1>9, <1>10

\* An encoder that got something writes something.
LEMMA OutputFacts ==
    ASSUME NEW kind, NEW d, IsSeq(d)
    PROVE  IsSeq(Output(kind, d)) /\ (d # <<>> <=> Output(kind, d) # <<>>)
<1>1. PICK e : e = Append(Encoded(kind, d), EndMark(kind))
    OBVIOUS
<1>2. IsSeq(e) /\ Len(e) = Len(Encoded(kind, d)) + 1 /\ Len(Encoded(kind, d)) = Len(d) /\ Len(d) \in Nat
  <2>1. IsSeq(Encoded(kind, d)) /\ Len(Encoded(kind, d)) = Len(d) /\ Len(d) \in Nat
    BY EncodedSeq, SeqFacts
  <2> QED BY <1>1, <2>1, SeqAppend
<1>3. e # <<>>
    BY <1>2, SeqFacts
<1> QED BY <1>1, <1>2, <1>3 DEF Output

LEMMA ArchiveFacts ==
    ASSUME NEW a \in Archives
    PROVE  /\ IsSeqs(a.files) /\ IsSeqs(a.objects) /\ a.encrypted \in BOOLEAN
           /\ \A i \in 1 .. Len(a.objects) : a.objects[i] # <<>>
           /\ DOMAIN a.files = 1 .. Len(a.files) /\ Len(a.files) \in Nat
           /\ DOMAIN a.objects = 1 .. Len(a.objects) /\ Len(a.objects) \in Nat
<1>1. /\ a.files \in Seq(Seq(Tokens)) /\ a.objects \in Seq(Seq(Tokens)) /\ a.encrypted \in BOOLEAN
      /\ \A i \in DOMAIN a.objects : a.objects[i] # <<>>
    BY ArchivesAssumption
<1>2. ASSUME NEW s \in Seq(Seq(Tokens)) PROVE IsSeqs(s)
  <2>1. IsSeq(s)
    BY SeqFrom
  <2>2. \A i \in 1 .. Len(s) : s[i] \in Seq(Tokens)
    OBVIOUS
  <2>3. \A i \in 1 .. Len(s) : IsSeq(s[i])
    BY <2>2, SeqFrom
  <2> QED BY <2>1, <2>3 DEF IsSeqs
<1>3. PICK f, o : f = a.files /\ o = a.objects
    OBVIOUS
<1>4. IsSeqs(f) /\ IsSeqs(o)
    BY <1>1, <1>2, <1>3
<1>5. DOMAIN f = 1 .. Len(f) /\ Len(f) \in Nat /\ DOMAIN o = 1 .. Len(o) /\ Len(o) \in Nat
    BY <1>4, SeqFacts DEF IsSeqs
<1> QED BY <1>1, <1>3, <1>4, <1>5

\* There are no objects when there is nothing in them.
LEMMA NoObjects ==
    ASSUME NEW a \in Archives
    PROVE  a.objects = <<>> <=> FlattenSeq(a.objects) = <<>>
<1>1. PICK o : o = a.objects
    OBVIOUS
<1>2. IsSeqs(o) /\ IsSeq(o) /\ \A i \in 1 .. Len(o) : o[i] # <<>>
    BY <1>1, ArchiveFacts DEF IsSeqs
<1>3. ASSUME o # <<>>, FlattenSeq(o) = <<>> PROVE FALSE
  <2>1. Len(o) \in Nat /\ Len(o) > 0
    BY <1>2, <1>3, SeqFacts
  <2>2. 1 \in 1 .. Len(o)
    BY <2>1
  <2>3. FlattenSeq(o) = o[1] \o FlattenSeq(Tail(o))
    BY <1>2, <1>3, FlattenCons
  <2>4. IsSeqs(Tail(o))
    <3>1. PICK r : r = Tail(o)
      OBVIOUS
    <3>2. IsSeq(r) /\ Len(r) = Len(o) - 1 /\ \A k \in 1 .. Len(o) - 1 : r[k] = o[k + 1]
      BY <1>2, <1>3, <3>1, SeqTail
    <3>3. \A k \in 1 .. Len(o) - 1 : k + 1 \in 1 .. Len(o)
      BY <2>1
    <3>4. \A k \in 1 .. Len(o) : IsSeq(o[k])
      BY <1>2 DEF IsSeqs
    <3>5. \A k \in 1 .. Len(r) : IsSeq(r[k])
      BY <3>2, <3>3, <3>4
    <3> QED BY <3>1, <3>2, <3>5 DEF IsSeqs
  <2>5. IsSeq(o[1]) /\ IsSeq(FlattenSeq(Tail(o)))
    BY <1>2, <2>2, <2>4, FlattenIsSeq DEF IsSeqs
  <2>6. PICK x, y : x = o[1] /\ y = FlattenSeq(Tail(o))
    OBVIOUS
  <2>7. x \o y = <<>> /\ IsSeq(x) /\ IsSeq(y)
    BY <1>3, <2>3, <2>5, <2>6
  <2>8. x = <<>>
    BY <2>7, ConcatNothing
  <2> QED BY <1>2, <2>2, <2>6, <2>8
<1> QED BY <1>1, <1>3, FlattenEmpty

\* A section is what its compressor and its cipher make of its data.
LEMMA SectionIs ==
    ASSUME NEW a \in Archives, NEW n \in {1, 2, 3}, NEW d, d = SectionData(a, n),
           NEW c, c = Output("LzmaSink", d)
    PROVE  /\ IsSeq(d) /\ IsSeq(c) /\ IsSeq(SectionOf(a, n))
           /\ SectionOf(a, n) = IF a.encrypted /\ n # 3 THEN Output("CryptoSink", c) ELSE c
<1>1. IsSeqs(a.files) /\ IsSeqs(a.objects) /\ a.encrypted \in BOOLEAN
    BY ArchiveFacts
<1>2. IsSeq(<<<<"manifest">>>>) /\ <<<<"manifest">>>> # <<>>
    BY SeqSingle, SeqFacts
<1>3. IsSeq(FlattenSeq(a.files)) /\ IsSeq(FlattenSeq(a.objects))
    BY <1>1, FlattenIsSeq
<1>4. IsSeq(d)
    BY <1>2, <1>3 DEF SectionData
<1>5. IsSeq(c) /\ (d # <<>> <=> c # <<>>) /\ IsSeq(Output("CryptoSink", c))
    BY <1>4, OutputFacts
<1>6. d # <<>> => Compressed(d) = c
    BY DEF Compressed, Output, Encoders
<1>7. c # <<>> => Ciphered(a, c) = IF a.encrypted THEN Output("CryptoSink", c) ELSE c
    BY DEF Ciphered, Output, Encoders
<1>8. d = <<>> => c = <<>> /\ Output("CryptoSink", c) = <<>>
    BY DEF Output
<1>9. /\ Layout[a].files = IF FlattenSeq(a.files) = <<>> THEN <<>>
                           ELSE Ciphered(a, Compressed(FlattenSeq(a.files)))
      /\ Layout[a].objects = IF a.objects = <<>> THEN <<>>
                             ELSE Ciphered(a, Compressed(FlattenSeq(a.objects)))
      /\ Layout[a].manifest = Compressed(<<<<"manifest">>>>)
    BY DEF Layout
<1>10. CASE n = 1
  <2>1. d = FlattenSeq(a.files) /\ SectionOf(a, n) = Layout[a].files
    BY <1>10 DEF SectionData, SectionOf
  <2>2. SectionOf(a, n) = IF d = <<>> THEN <<>> ELSE Ciphered(a, Compressed(d))
    BY <1>9, <2>1
  <2>3. SectionOf(a, n) = IF a.encrypted THEN Output("CryptoSink", c) ELSE c
    BY <1>5, <1>6, <1>7, <1>8, <2>2
  <2> QED BY <1>4, <1>5, <1>10, <2>3
<1>11. CASE n = 2
  <2>1. d = FlattenSeq(a.objects) /\ SectionOf(a, n) = Layout[a].objects
    BY <1>11 DEF SectionData, SectionOf
  <2>0. a.objects = <<>> <=> d = <<>>
    BY <2>1, NoObjects
  <2>2. SectionOf(a, n) = IF d = <<>> THEN <<>> ELSE Ciphered(a, Compressed(d))
    BY <1>9, <2>0, <2>1
  <2>3. SectionOf(a, n) = IF a.encrypted THEN Output("CryptoSink", c) ELSE c
    BY <1>5, <1>6, <1>7, <1>8, <2>2
  <2> QED BY <1>4, <1>5, <1>11, <2>3
<1>12. CASE n = 3
  <2>1. d = <<<<"manifest">>>> /\ SectionOf(a, n) = Layout[a].manifest
    BY <1>12 DEF SectionData, SectionOf
  <2>2. SectionOf(a, n) = c
    BY <1>2, <1>6, <1>9, <2>1
  <2> QED BY <1>4, <1>5, <1>12, <2>2
<1> QED BY <1>10, <1>11, <1>12

\* The archive, part by part.
ImageParts(a, k, f, o, m) ==
    /\ IsSeq(k) /\ IsSeq(f) /\ IsSeq(o) /\ IsSeq(m)
    /\ k = IF a.encrypted THEN <<<<"keys">>>> ELSE <<>>
    /\ Before(a, <<"counter", 1>>) = k
    /\ Before(a, <<"counter", 2>>) = k \o f
    /\ Before(a, <<"counter", 3>>) = (k \o f) \o o
    /\ BeforeDigest[a] = (((k \o f) \o o) \o m) \o <<<<"length">>>>
    /\ Image[a] = BeforeDigest[a] \o <<<<"digest">>>>
    /\ IsSeq(BeforeDigest[a]) /\ IsSeq(Image[a])
    /\ BeforeDigest[a] # <<>> /\ Image[a] # <<>>

LEMMA ImageIs ==
    ASSUME NEW a \in Archives,
           NEW k, k = Layout[a].keys, NEW f, f = Layout[a].files,
           NEW o, o = Layout[a].objects, NEW m, m = Layout[a].manifest
    PROVE  ImageParts(a, k, f, o, m)
<1>1. IsSeq(SectionOf(a, 1)) /\ IsSeq(SectionOf(a, 2)) /\ IsSeq(SectionOf(a, 3))
    BY SectionIs
<1>2. IsSeq(f) /\ IsSeq(o) /\ IsSeq(m)
    BY <1>1 DEF SectionOf
<1>3. k = (IF a.encrypted THEN <<<<"keys">>>> ELSE <<>>)
    BY DEF Layout
<1>4. IsSeq(k)
    BY <1>3, SeqSingle, SeqEmpty
<1> DEFINE l == <<<<"length">>>>
           d == <<<<"digest">>>>
<1>5. IsSeq(l) /\ Len(l) = 1 /\ IsSeq(d) /\ Len(d) = 1
    BY SeqSingle
<1> HIDE DEF l
<1>6. IsSeq(k \o f) /\ IsSeq((k \o f) \o o) /\ IsSeq(((k \o f) \o o) \o m)
    BY <1>2, <1>4, SeqConcat
<1>7. k \o <<>> = k /\ (k \o f) \o <<>> = k \o f
    BY <1>4, <1>6, SeqEmpty
<1>8. Before(a, <<"counter", 1>>) = k
  <2>1. Before(a, <<"counter", 1>>) = (Layout[a].keys \o <<>>) \o <<>>
    BY DEF Before
  <2> QED BY <1>7, <2>1
<1>9. Before(a, <<"counter", 2>>) = k \o f
  <2>0. PICK p : p = <<"counter", 2>>
    OBVIOUS
  <2>2. p[1] = "counter" /\ p[2] = 2
    BY <2>0
  <2>3. p[2] > 1 /\ ~(p[2] > 2)
    BY <2>2
  <2>4. Before(a, p) = (Layout[a].keys \o Layout[a].files) \o <<>>
    BY <2>2, <2>3 DEF Before
  <2>1. Before(a, <<"counter", 2>>) = (Layout[a].keys \o Layout[a].files) \o <<>>
    BY <2>0, <2>4
  <2> QED BY <1>7, <2>1
<1>10. Before(a, <<"counter", 3>>) = (k \o f) \o o
  <2>0. PICK p : p = <<"counter", 3>>
    OBVIOUS
  <2>2. p[1] = "counter" /\ p[2] = 3
    BY <2>0
  <2>3. p[2] > 1 /\ p[2] > 2
    BY <2>2
  <2>4. Before(a, p) = (Layout[a].keys \o Layout[a].files) \o Layout[a].objects
    BY <2>2, <2>3 DEF Before
  <2> QED BY <2>0, <2>4
<1>11. BeforeDigest[a] = (((k \o f) \o o) \o m) \o l
    BY DEF BeforeDigest, l
<1> DEFINE b == BeforeDigest[a]
<1>12. IsSeq(b) /\ b # <<>>
  <2>1. PICK x : x = ((k \o f) \o o) \o m
    OBVIOUS
  <2>2. IsSeq(x) /\ b = x \o l
    BY <1>6, <1>11, <2>1
  <2>3. IsSeq(b)
    BY <1>5, <2>2, SeqConcat
  <2>4. b # <<>>
    <3>1. ASSUME x \o l = <<>> PROVE FALSE
      <4>1. l = <<>>
        BY <1>5, <2>2, <3>1, ConcatNothing
      <4> QED BY <1>5, <4>1, SeqEmpty
    <3> QED BY <2>2, <3>1
  <2> QED BY <2>3, <2>4
<1>13. Image[a] = Append(b, <<"digest">>)
    BY DEF Image
<1> HIDE DEF b
<1>14. Append(b, <<"digest">>) = b \o d
    BY <1>12, SeqAppend
<1> HIDE DEF d
<1>15. IsSeq(b \o d) /\ b \o d # <<>>
    BY <1>5, <1>12, SeqConcat, ConcatNothing
<1> QED BY <1>2, <1>3, <1>4, <1>8, <1>9, <1>10, <1>11, <1>12, <1>13, <1>14, <1>15 DEF b, l, d, ImageParts

\* Every processor of the writer fits.
LEMMA FileFits ==
    ASSUME NEW a \in Archives
    PROVE  Fits(a, file) /\ In(a, file) = Image[a] /\ In(a, file) # <<>>
<1>1. IsSeq(Image[a]) /\ Image[a] # <<>> /\ IsSeq(<<>>)
    BY ImageIs, SeqEmpty DEF ImageParts
<1>2. file[1] = "file"
    BY DEF file
<1>3. In(a, file) = Image[a] /\ Before(a, file) = <<>>
    BY <1>2 DEF In, Before
<1> QED BY <1>1, <1>3 DEF Fits, IsName

LEMMA OverallFits ==
    ASSUME NEW a \in Archives
    PROVE  /\ Fits(a, overall) /\ In(a, overall) = BeforeDigest[a] /\ In(a, overall) # <<>>
           /\ Before(a, overall) = <<>> /\ Out(a, overall) = BeforeDigest[a]
           /\ Reader(a, overall) = file
<1>1. IsSeq(BeforeDigest[a]) /\ BeforeDigest[a] # <<>> /\ IsSeq(<<>>)
      /\ Image[a] = BeforeDigest[a] \o <<<<"digest">>>> /\ IsSeq(<<<<"digest">>>>)
    BY ImageIs, SeqEmpty, SeqSingle DEF ImageParts
<1>2. overall[1] = "overall" /\ overall # file
    BY DEF overall, file
<1>3. In(a, overall) = BeforeDigest[a] /\ Before(a, overall) = <<>> /\ Reader(a, overall) = file
    BY <1>2 DEF In, Before, Reader
<1>4. KindOf(overall) \notin Encoders
    BY <1>2 DEF KindOf, Encoders
<1>5. Out(a, overall) = BeforeDigest[a]
    BY <1>3, <1>4 DEF Out, Output
<1>6. Begins(BeforeDigest[a], Image[a])
    BY <1>1, BeginsConcat
<1>7. <<>> \o BeforeDigest[a] = BeforeDigest[a]
    BY <1>1, SeqEmpty
<1>8. Begins(Before(a, overall) \o Out(a, overall), In(a, Reader(a, overall)))
    BY <1>3, <1>5, <1>6, <1>7, FileFits
<1> QED BY <1>1, <1>3, <1>5, <1>8 DEF Fits, IsName

\* A processor that writes all that goes into its reader.
LEMMA AllFits ==
    ASSUME NEW a \in Archives, NEW p, IsName(p), p # file, IsSeq(In(a, p)), Before(a, p) = <<>>,
           Out(a, p) = In(a, Reader(a, p)), IsSeq(Out(a, p))
    PROVE  Fits(a, p) /\ Before(a, p) \o Out(a, p) = In(a, Reader(a, p))
<1>1. <<>> \o Out(a, p) = Out(a, p) /\ IsSeq(<<>>)
    BY SeqEmpty
<1>2. Begins(Out(a, p), Out(a, p))
    BY BeginsSelf
<1>3. Before(a, p) \o Out(a, p) = In(a, Reader(a, p))
    BY <1>1
<1>4. Begins(Before(a, p) \o Out(a, p), In(a, Reader(a, p)))
    BY <1>2, <1>3
<1> QED BY <1>1, <1>3, <1>4 DEF Fits

LEMMA CounterFits ==
    ASSUME NEW a \in Archives, NEW n \in {1, 2, 3}, NEW p, p = <<"counter", n>>
    PROVE  /\ Fits(a, p) /\ In(a, p) = SectionOf(a, n) /\ Out(a, p) = SectionOf(a, n)
           /\ Reader(a, p) = overall /\ KindOf(p) = "ByteCounterSink" /\ IsSink(p)
<1>1. p[1] = "counter" /\ p[2] = n
    OBVIOUS
<1>2. IsName(p) /\ p # file /\ IsSink(p)
    BY <1>1 DEF IsName, Numbered, file, IsSink
<1>3. In(a, p) = SectionOf(a, n) /\ Reader(a, p) = overall /\ KindOf(p) = "ByteCounterSink"
    BY <1>1 DEF In, Reader, KindOf
<1>4. Out(a, p) = SectionOf(a, n)
    BY <1>3 DEF Out, Output, Encoders
<1>5. IsSeq(SectionOf(a, n))
    BY SectionIs
<1> DEFINE k == Layout[a].keys
           f == Layout[a].files
           o == Layout[a].objects
           m == Layout[a].manifest
<1>6. f = SectionOf(a, 1) /\ o = SectionOf(a, 2) /\ m = SectionOf(a, 3)
    BY DEF SectionOf
<1>7. /\ IsSeq(k) /\ IsSeq(f) /\ IsSeq(o) /\ IsSeq(m)
      /\ Before(a, <<"counter", 1>>) = k /\ Before(a, <<"counter", 2>>) = k \o f
      /\ Before(a, <<"counter", 3>>) = (k \o f) \o o
      /\ BeforeDigest[a] = (((k \o f) \o o) \o m) \o <<<<"length">>>>
  <2>1. Layout[a].keys = k /\ Layout[a].files = f /\ Layout[a].objects = o /\ Layout[a].manifest = m
    OBVIOUS
  <2> HIDE DEF k, f, o, m
  <2>2. ImageParts(a, k, f, o, m)
    BY <2>1, ImageIs
  <2> QED BY <2>2 DEF ImageParts
<1> HIDE DEF k, f, o, m
<1>8. IsSeq(k \o f) /\ IsSeq((k \o f) \o o) /\ IsSeq(((k \o f) \o o) \o m) /\ IsSeq(<<<<"length">>>>)
    BY <1>7, SeqConcat, SeqSingle
<1> DEFINE b == BeforeDigest[a]
<1>9. Begins(((k \o f) \o o) \o m, b)
    BY <1>7, <1>8, BeginsConcat
<1> HIDE DEF b
<1>10. Begins((k \o f) \o o, b)
    BY <1>7, <1>8, <1>9, BeginsLonger
<1>11. Begins(k \o f, b)
    BY <1>7, <1>8, <1>10, BeginsLonger
<1>12. IsSeq(Before(a, p)) /\ Begins(Before(a, p) \o SectionOf(a, n), b)
  <2>1. CASE n = 1
    <3>2. p = <<"counter", 1>>
      BY <2>1
    <3>3. Before(a, p) = k
      BY <1>7, <3>2
    <3>1. Before(a, p) = k /\ SectionOf(a, n) = f
      BY <1>6, <2>1, <3>3
    <3> QED BY <1>7, <1>11, <3>1
  <2>2. CASE n = 2
    <3>2. p = <<"counter", 2>>
      BY <2>2
    <3>3. Before(a, p) = k \o f
      BY <1>7, <3>2
    <3>1. Before(a, p) = k \o f /\ SectionOf(a, n) = o
      BY <1>6, <2>2, <3>3
    <3> QED BY <1>8, <1>10, <3>1
  <2>3. CASE n = 3
    <3>2. p = <<"counter", 3>>
      BY <2>3
    <3>3. Before(a, p) = (k \o f) \o o
      BY <1>7, <3>2
    <3>1. Before(a, p) = (k \o f) \o o /\ SectionOf(a, n) = m
      BY <1>6, <2>3, <3>3
    <3> QED BY <1>8, <1>9, <3>1
  <2> QED BY <2>1, <2>2, <2>3
<1>13. In(a, overall) = b
    BY OverallFits DEF b
<1>14. Begins(Before(a, p) \o Out(a, p), In(a, Reader(a, p)))
    BY <1>3, <1>4, <1>12, <1>13
<1>15. Fits(a, p)
    BY <1>2, <1>3, <1>5, <1>12, <1>14 DEF Fits
<1> QED BY <1>2, <1>3, <1>4, <1>15

LEMMA CryptoFits ==
    ASSUME NEW a \in Archives, a.encrypted, NEW n \in {1, 2}, NEW p, p = <<"crypto", n>>
    PROVE  /\ Fits(a, p) /\ In(a, p) = Output("LzmaSink", SectionData(a, n))
           /\ Before(a, p) = <<>> /\ Before(a, p) \o Out(a, p) = In(a, Reader(a, p))
           /\ Reader(a, p) = <<"counter", n>> /\ KindOf(p) = "CryptoSink" /\ IsSink(p)
<1>1. p[1] = "crypto" /\ p[2] = n
    OBVIOUS
<1>2. IsName(p) /\ p # file /\ IsSink(p)
    BY <1>1 DEF IsName, Numbered, file, IsSink
<1>3. /\ In(a, p) = Output("LzmaSink", SectionData(a, n)) /\ Reader(a, p) = <<"counter", n>>
      /\ KindOf(p) = "CryptoSink" /\ Before(a, p) = <<>>
    BY <1>1 DEF In, Reader, KindOf, Before
<1>4. PICK c : c = Output("LzmaSink", SectionData(a, n))
    OBVIOUS
<1>5. n \in {1, 2, 3} /\ n # 3
    OBVIOUS
<1>6. IsSeq(c) /\ IsSeq(SectionOf(a, n)) /\ SectionOf(a, n) = Output("CryptoSink", c)
    BY <1>4, <1>5, SectionIs
<1>7. In(a, Reader(a, p)) = SectionOf(a, n)
    BY <1>3, <1>5, CounterFits
<1>8. Out(a, p) = SectionOf(a, n)
    BY <1>3, <1>4, <1>6 DEF Out
<1>9. Fits(a, p) /\ Before(a, p) \o Out(a, p) = In(a, Reader(a, p))
    BY <1>2, <1>3, <1>4, <1>6, <1>7, <1>8, AllFits
<1> QED BY <1>2, <1>3, <1>9

LEMMA LzmaFits ==
    ASSUME NEW a \in Archives, NEW n \in {1, 2, 3}, NEW p, p = <<"lzma", n>>
    PROVE  /\ Fits(a, p) /\ In(a, p) = SectionData(a, n)
           /\ Before(a, p) = <<>> /\ Before(a, p) \o Out(a, p) = In(a, Reader(a, p))
           /\ Reader(a, p) = <<IF a.encrypted /\ n # 3 THEN "crypto" ELSE "counter", n>>
           /\ KindOf(p) = "LzmaSink" /\ IsSink(p)
<1>1. p[1] = "lzma" /\ p[2] = n
    OBVIOUS
<1>2. IsName(p) /\ p # file /\ IsSink(p)
    BY <1>1 DEF IsName, Numbered, file, IsSink
<1>3. /\ In(a, p) = SectionData(a, n)
      /\ Reader(a, p) = <<IF a.encrypted /\ n # 3 THEN "crypto" ELSE "counter", n>>
      /\ KindOf(p) = "LzmaSink" /\ Before(a, p) = <<>>
    BY <1>1 DEF In, Reader, KindOf, Before
<1>4. PICK d, c : d = SectionData(a, n) /\ c = Output("LzmaSink", d)
    OBVIOUS
<1>5. /\ IsSeq(d) /\ IsSeq(c) /\ IsSeq(SectionOf(a, n))
      /\ SectionOf(a, n) = IF a.encrypted /\ n # 3 THEN Output("CryptoSink", c) ELSE c
    BY <1>4, SectionIs
<1>6. In(a, Reader(a, p)) = c
  <2>1. CASE a.encrypted /\ n # 3
    <3>1. n \in {1, 2} /\ Reader(a, p) = <<"crypto", n>>
      BY <1>3, <2>1
    <3>2. In(a, <<"crypto", n>>) = Output("LzmaSink", SectionData(a, n))
      BY <2>1, <3>1, CryptoFits
    <3> QED BY <1>4, <3>1, <3>2
  <2>2. CASE ~(a.encrypted /\ n # 3)
    <3>1. Reader(a, p) = <<"counter", n>>
      BY <1>3, <2>2
    <3>2. In(a, <<"counter", n>>) = SectionOf(a, n)
      BY CounterFits
    <3> QED BY <1>5, <2>2, <3>1, <3>2
  <2> QED BY <2>1, <2>2
<1>8. Out(a, p) = c
    BY <1>3, <1>4 DEF Out
<1>9. Fits(a, p) /\ Before(a, p) \o Out(a, p) = In(a, Reader(a, p))
    BY <1>2, <1>3, <1>4, <1>5, <1>6, <1>8, AllFits
<1> QED BY <1>2, <1>3, <1>9

LEMMA ObjectFits ==
    ASSUME NEW a \in Archives, NEW i \in 1 .. Len(a.objects), NEW p, p = <<"counter2", i>>
    PROVE  /\ Fits(a, p) /\ In(a, p) = a.objects[i] /\ In(a, p) # <<>>
           /\ Before(a, p) = FirstOf(a.objects, i - 1)
           /\ Before(a, p) \o Out(a, p) = FirstOf(a.objects, i)
           /\ Reader(a, p) = <<"lzma", 2>> /\ KindOf(p) = "ByteCounterSink" /\ IsSink(p)
<1>1. p[1] = "counter2" /\ p[2] = i
    OBVIOUS
<1>2. IsName(p) /\ p # file /\ IsSink(p)
    BY <1>1 DEF IsName, Numbered, file, IsSink
<1>3. /\ In(a, p) = a.objects[i] /\ Reader(a, p) = <<"lzma", 2>> /\ KindOf(p) = "ByteCounterSink"
      /\ Before(a, p) = FirstOf(a.objects, i - 1)
    BY <1>1 DEF In, Reader, KindOf, Before
<1>4. Out(a, p) = a.objects[i]
    BY <1>3 DEF Out, Output, Encoders
<1>5. PICK s : s = a.objects
    OBVIOUS
<1>6. IsSeqs(s) /\ i \in 1 .. Len(s) /\ s[i] # <<>>
    BY <1>5, ArchiveFacts
<1>7. /\ FirstOf(s, i) = FirstOf(s, i - 1) \o s[i] /\ IsSeq(FirstOf(s, i - 1)) /\ IsSeq(s[i])
      /\ Begins(FirstOf(s, i - 1) \o s[i], FlattenSeq(s))
    BY <1>6, FirstNext, FirstBegins
<1>8. In(a, <<"lzma", 2>>) = FlattenSeq(s)
    BY <1>5, LzmaFits DEF SectionData
<1>9. Begins(Before(a, p) \o Out(a, p), In(a, Reader(a, p)))
    BY <1>3, <1>4, <1>5, <1>7, <1>8
<1>10. Fits(a, p)
    BY <1>2, <1>3, <1>5, <1>7, <1>9 DEF Fits
<1>11. Before(a, p) \o Out(a, p) = FirstOf(a.objects, i) /\ In(a, p) # <<>>
    BY <1>3, <1>4, <1>5, <1>6, <1>7
<1> QED BY <1>2, <1>3, <1>10, <1>11

LEMMA HashFits ==
    ASSUME NEW a \in Archives, NEW i \in 1 .. Len(a.files), NEW p, p = <<"hash", i>>
    PROVE  /\ Fits(a, p) /\ In(a, p) = a.files[i]
           /\ Before(a, p) = FirstOf(a.files, i - 1)
           /\ Before(a, p) \o Out(a, p) = FirstOf(a.files, i)
           /\ Reader(a, p) = <<"lzma", 1>> /\ ~IsSink(p) /\ Feed(p) = <<"std", i>>
           /\ (In(a, p) # <<>> => In(a, <<"lzma", 1>>) # <<>>)
<1>1. p[1] = "hash" /\ p[2] = i
    OBVIOUS
<1>2. IsName(p) /\ p # file /\ ~IsSink(p)
    BY <1>1 DEF IsName, Numbered, file, IsSink
<1>3. /\ In(a, p) = a.files[i] /\ Reader(a, p) = <<"lzma", 1>> /\ KindOf(p) = "HashSource"
      /\ Before(a, p) = FirstOf(a.files, i - 1) /\ Feed(p) = <<"std", i>>
    BY <1>1 DEF In, Reader, KindOf, Before, Feed
<1>4. Out(a, p) = a.files[i]
    BY <1>3 DEF Out, Output, Encoders
<1>5. PICK s : s = a.files
    OBVIOUS
<1>6. IsSeqs(s) /\ i \in 1 .. Len(s)
    BY <1>5, ArchiveFacts
<1>7. /\ FirstOf(s, i) = FirstOf(s, i - 1) \o s[i] /\ IsSeq(FirstOf(s, i - 1)) /\ IsSeq(s[i])
      /\ Begins(FirstOf(s, i - 1) \o s[i], FlattenSeq(s)) /\ IsSeq(FirstOf(s, i))
    BY <1>6, FirstNext, FirstBegins
<1>8. In(a, <<"lzma", 1>>) = FlattenSeq(s)
    BY <1>5, LzmaFits DEF SectionData
<1>9. Begins(Before(a, p) \o Out(a, p), In(a, Reader(a, p)))
    BY <1>3, <1>4, <1>5, <1>7, <1>8
<1>10. Fits(a, p)
    BY <1>2, <1>3, <1>5, <1>7, <1>9 DEF Fits
<1>11. Before(a, p) \o Out(a, p) = FirstOf(a.files, i)
    BY <1>3, <1>4, <1>5, <1>7
<1>12. ASSUME FlattenSeq(s) = <<>> PROVE s[i] = <<>>
  <2>1. PICK x, y : x = FirstOf(s, i - 1) /\ y = s[i]
    OBVIOUS
  <2>2. IsSeq(x) /\ IsSeq(y) /\ Begins(x \o y, <<>>) /\ IsSeq(x \o y)
    BY <1>7, <1>12, <2>1
  <2>3. x \o y = <<>>
    BY <2>2, BeginsNothing
  <2> QED BY <2>1, <2>2, <2>3, ConcatNothing
<1>13. In(a, p) # <<>> => In(a, <<"lzma", 1>>) # <<>>
    BY <1>3, <1>5, <1>8, <1>12
<1> QED BY <1>2, <1>3, <1>10, <1>11, <1>13

LEMMA StdFits ==
    ASSUME NEW a \in Archives, NEW i \in 1 .. Len(a.files), NEW p, p = <<"std", i>>
    PROVE  /\ Fits(a, p) /\ In(a, p) = a.files[i] /\ Reader(a, p) = <<"hash", i>>
           /\ ~IsSink(p)
<1>1. p[1] = "std" /\ p[2] = i
    OBVIOUS
<1>2. IsName(p) /\ p # file /\ ~IsSink(p)
    BY <1>1 DEF IsName, Numbered, file, IsSink
<1>3. /\ In(a, p) = a.files[i] /\ Reader(a, p) = <<"hash", i>> /\ KindOf(p) = "StdStreamSource"
      /\ Before(a, p) = <<>>
    BY <1>1 DEF In, Reader, KindOf, Before
<1>4. Out(a, p) = a.files[i]
    BY <1>3 DEF Out, Output, Encoders
<1>5. IsSeqs(a.files)
    BY ArchiveFacts
<1>6. PICK s : s = a.files
    OBVIOUS
<1>7. IsSeq(s[i])
    BY <1>5, <1>6 DEF IsSeqs
<1>8. In(a, Reader(a, p)) = a.files[i]
    BY <1>3, HashFits
<1> QED BY <1>2, <1>3, <1>4, <1>6, <1>7, <1>8, AllFits

-----------------------------------------------------------------------------
\* The operations of the writer, one after the other.

\* The writer with nothing but sinks, each on top of the one before it.
At(l, sent, left, summed) == State(l, Last(l), sent, "open", left, summed)
Chain(a, l) ==
    /\ IsSeq(l) /\ l # <<>> /\ Last(l) \in Ran(l)
    /\ \A w \in Ran(l) : /\ Fits(a, w) /\ IsSink(w)
                         /\ w # file => Reader(a, w) \in Ran(l) \ {Last(l)}
AllUsed(a, l) == \A w \in Ran(l) : In(a, w) # <<>>

LEMMA AtFields ==
    ASSUME NEW l, NEW sent, NEW left, NEW summed, NEW s, s = At(l, sent, left, summed)
    PROVE  /\ s.stack = l /\ s.top = Last(l) /\ s.sent = sent
           /\ s.phase = "open" /\ s.left = left /\ s.summed = summed
BY DEF At, State

LEMMA ChainFree ==
    ASSUME NEW a, NEW l, Chain(a, l), NEW s, s.stack = l
    PROVE  Free(a, s, Last(l))
<1>1. ASSUME NEW w \in Ran(l) PROVE Reader(a, w) # Last(l)
  <2>1. CASE w = file
    <3>1. Reader(a, w) = None
      BY <2>1 DEF Reader, file
    <3>2. IsName(Last(l))
      BY DEF Chain, Fits
    <3>3. Last(l) # None
      BY <3>2, NameFacts DEF NoQueue
    <3> QED BY <3>1, <3>3
  <2>2. CASE w # file
    BY <2>2 DEF Chain
  <2> QED BY <2>1, <2>2
<1> QED BY <1>1 DEF Free

\* A sink is put on top of the last one.
LEMMA SinkOpens ==
    ASSUME NEW a, NEW l, Chain(a, l), NEW p, Fits(a, p), IsSink(p), p # file, p \notin Ran(l),
           Reader(a, p) = Last(l), NEW left, NEW summed, NEW kind, kind = KindOf(p), NEW w, w = Last(l)
    PROVE  /\ Moves(a, At(l, Before(a, p), left, summed), <<ConstructOn(kind, p, w)>>,
                    At(Append(l, p), <<>>, None, summed))
           /\ Chain(a, Append(l, p))
<1> DEFINE op == ConstructOn(kind, p, w)
<1>1. PICK s, t, m : s = At(l, Before(a, p), left, summed) /\ m = Append(l, p) /\ t = At(m, <<>>, None, summed)
    OBVIOUS
<1>2. /\ s.stack = l /\ s.top = w /\ s.sent = Before(a, p)
      /\ s.phase = "open" /\ s.left = left /\ s.summed = summed
    BY <1>1, AtFields
<1>3. m # <<>> /\ IsSeq(m) /\ Last(m) = p /\ Ran(m) = Ran(l) \cup {p}
    BY <1>1, LastOfAppend DEF Chain
<1>4. t = State(Append(s.stack, op.p), op.p, <<>>, "open", None, s.summed)
    BY <1>1, <1>2, <1>3 DEF At, ConstructOn
<1>5. op.do = "construct_on" /\ op.p = p /\ op.kind = KindOf(p) /\ op.sink = w
    BY DEF ConstructOn
<1>6. Free(a, s, w)
    BY <1>2, ChainFree
<1> HIDE DEF op
<1>7. SinkRule(a, s, op, t)
    BY <1>2, <1>4, <1>5, <1>6 DEF SinkRule, Chain
<1>8. Moves(a, s, <<op>>, t)
    BY <1>7, MovesOne DEF WriteStep
<1>9. ASSUME NEW v \in Ran(m)
      PROVE  Fits(a, v) /\ IsSink(v) /\ (v # file => Reader(a, v) \in Ran(m) \ {p})
  <2>1. CASE v = p
    BY <1>3, <2>1 DEF Chain
  <2>2. CASE v # p
    BY <1>3, <2>2 DEF Chain
  <2> QED BY <2>1, <2>2
<1>10. Chain(a, m)
    BY <1>3, <1>9 DEF Chain
<1> QED BY <1>1, <1>8, <1>10 DEF op

\* A sink that has got everything is destroyed.
LEMMA SinkCloses ==
    ASSUME NEW a, NEW l, Chain(a, l), NEW p, Fits(a, p), IsSink(p), p # file, p \notin Ran(l),
           Reader(a, p) = Last(l), NEW left, NEW summed
    PROVE  Moves(a, At(Append(l, p), In(a, p), left, summed), <<Destroy(p)>>,
                 At(l, Before(a, p) \o Out(a, p), p, summed))
<1> DEFINE op == Destroy(p)
           out == Before(a, p) \o Out(a, p)
<1>1. PICK s, t, m : m = Append(l, p) /\ s = At(m, In(a, p), left, summed) /\ t = At(l, out, p, summed)
    OBVIOUS
<1>3. m # <<>> /\ IsSeq(m) /\ Last(m) = p /\ Front(m) = l /\ Ran(m) = Ran(l) \cup {p}
    BY <1>1, LastOfAppend DEF Chain
<1>2. /\ s.stack = m /\ s.top = p /\ s.sent = In(a, p)
      /\ s.phase = "open" /\ s.left = left /\ s.summed = summed
    BY <1>1, <1>3 DEF At, State
<1>4. p[1] # "std" /\ p[1] # "hash"
    BY DEF IsSink
<1>5. t = Gone(a, s, p)
    BY <1>1, <1>2, <1>3, <1>4 DEF Gone, At
<1>6. op.do = "destroy" /\ op.p = p
    BY DEF Destroy, Op
<1>7. Free(a, s, p)
  <2>1. ASSUME NEW v \in Ran(m) PROVE Reader(a, v) # p
    <3>1. CASE v = file
      <4>1. Reader(a, v) = None
        BY <3>1 DEF Reader, file
      <4>2. IsName(p)
        BY DEF Fits
      <4>3. p # None
        BY <4>2, NameFacts DEF NoQueue
      <4> QED BY <4>1, <4>3
    <3>2. CASE v # file
      BY <1>3, <3>2 DEF Chain
    <3> QED BY <3>1, <3>2
  <2> QED BY <1>2, <2>1 DEF Free
<1> HIDE DEF op, out
<1>8. DestroyRule(a, s, op, t)
    BY <1>2, <1>3, <1>4, <1>5, <1>6, <1>7 DEF DestroyRule, Removable, Ready
<1>9. Moves(a, s, <<op>>, t)
    BY <1>8, MovesOne DEF WriteStep
<1> QED BY <1>1, <1>9 DEF op, out

\* Something is written to the last one.
LEMMA SinkGets ==
    ASSUME NEW a, NEW l, Chain(a, l), AllUsed(a, l), NEW p, p = Last(l), NEW sent, NEW left, NEW summed,
           NEW d, IsSeq(d), d # <<>>, Begins(sent \o d, In(a, p))
    PROVE  Moves(a, At(l, sent, left, summed), <<SyncWrite(p, Data(d))>>, At(l, sent \o d, left, summed))
<1> DEFINE op == SyncWrite(p, Data(d))
<1>1. PICK s, t, x : s = At(l, sent, left, summed) /\ x = sent \o d /\ t = At(l, x, left, summed)
    OBVIOUS
<1>2. /\ s.stack = l /\ s.top = p /\ s.sent = sent
      /\ s.phase = "open" /\ s.left = left /\ s.summed = summed
    BY <1>1, AtFields
<1>3. op.do = "sync_write" /\ op.p = p /\ op.segment = Data(d) /\ op.segment.data = d
    BY Segment DEF SyncWrite
<1>4. Free(a, s, p)
    BY <1>2, ChainFree
<1>5. Used(a, s)
    BY <1>2 DEF Used, AllUsed
<1>6. t = State(s.stack, s.top, x, "open", s.left, s.summed)
    BY <1>1, <1>2 DEF At
<1> HIDE DEF op
<1>7. CanWrite(a, s, op)
    BY <1>2, <1>3, <1>4, <1>5 DEF CanWrite, Chain
<1>8. x = s.sent \o op.segment.data
    BY <1>1, <1>2, <1>3
<1>9. WriteRule(a, s, op, t)
    BY <1>2, <1>3, <1>6, <1>7, <1>8 DEF WriteRule, Chain
<1>10. Moves(a, s, <<op>>, t)
    BY <1>9, MovesOne DEF WriteStep
<1> QED BY <1>1, <1>10 DEF op

\* The result of the one that was destroyed is taken.
LEMMA ResultTaken ==
    ASSUME NEW a, NEW l, NEW sent, NEW p, Takeable(p), p # overall, NEW summed \in BOOLEAN
    PROVE  Moves(a, At(l, sent, p, summed), <<Take(p)>>, At(l, sent, p, summed))
<1> DEFINE op == Take(p)
<1>1. PICK s : s = At(l, sent, p, summed)
    OBVIOUS
<1>2. /\ s.stack = l /\ s.top = Last(l) /\ s.sent = sent
      /\ s.phase = "open" /\ s.left = p /\ s.summed = summed
    BY <1>1, AtFields
<1>3. op.do = "take" /\ op.p = p
    BY DEF Take, Op
<1>4. s = State(s.stack, s.top, s.sent, "open", s.left, s.summed \/ p = overall)
    BY <1>1, <1>2 DEF At
<1> HIDE DEF op
<1>5. TakeRule(a, s, op, s)
    BY <1>2, <1>3, <1>4 DEF TakeRule
<1>6. Moves(a, s, <<op>>, s)
    BY <1>5, MovesOne DEF WriteStep
<1> QED BY <1>1, <1>6 DEF op

LEMMA PairIs ==
    ASSUME NEW x, NEW y
    PROVE  <<x, y>> = <<x>> \o <<y>>
<1>1. <<x, y>> = Append(<<x>>, y)
    OBVIOUS
<1>2. PICK s : s = <<x>>
    OBVIOUS
<1>3. IsSeq(s)
    BY <1>2, SeqSingle
<1>4. Append(s, y) = s \o <<y>>
    BY <1>3, SeqAppend
<1> QED BY <1>1, <1>2, <1>4

\* The loop in add_base_objects.
LEMMA ObjectMoves ==
    ASSUME NEW a \in Archives, a = archive, NEW i \in 1 .. Len(a.objects),
           NEW l, Chain(a, l), AllUsed(a, l), Last(l) = <<"lzma", 2>>, <<"counter2", i>> \notin Ran(l), NEW left
    PROVE  Moves(a, At(l, FirstOf(a.objects, i - 1), left, FALSE), add_base_object(i),
                 At(l, FirstOf(a.objects, i), <<"counter2", i>>, FALSE))
<1> DEFINE d == a.objects[i]
           lzmasink == <<"lzma", 2>>
<1>1. PICK p : p = <<"counter2", i>>
    OBVIOUS
<1>2. /\ Fits(a, p) /\ In(a, p) = d /\ In(a, p) # <<>>
      /\ Before(a, p) = FirstOf(a.objects, i - 1)
      /\ Before(a, p) \o Out(a, p) = FirstOf(a.objects, i)
      /\ Reader(a, p) = lzmasink /\ KindOf(p) = "ByteCounterSink" /\ IsSink(p)
    BY <1>1, ObjectFits
<1>3. p # file /\ p # overall /\ Takeable(p) /\ p \notin Ran(l)
    BY <1>1 DEF file, overall, Takeable
<1>4. add_base_object(i) = <<ConstructOn("ByteCounterSink", p, lzmasink), SyncWrite(p, Data(d)),
                             Destroy(p), Take(p)>>
    BY <1>1 DEF add_base_object, BaseObjects
<1>5. PICK m, x, y : m = Append(l, p) /\ x = FirstOf(a.objects, i - 1) /\ y = FirstOf(a.objects, i)
    OBVIOUS
<1>6. IsSeq(d)
    BY <1>2 DEF Fits
<1> HIDE DEF d, lzmasink
<1>7. Moves(a, At(l, x, left, FALSE), <<ConstructOn("ByteCounterSink", p, lzmasink)>>, At(m, <<>>, None, FALSE))
      /\ Chain(a, m)
  <2>1. Last(l) = lzmasink /\ x = Before(a, p)
    BY <1>2, <1>5 DEF lzmasink
  <2> QED BY <1>2, <1>3, <1>5, <2>1, SinkOpens
<1>8. Last(m) = p /\ Ran(m) = Ran(l) \cup {p}
    BY <1>5, LastOfAppend DEF Chain
<1>9. AllUsed(a, m)
    BY <1>2, <1>8 DEF AllUsed
<1>10. Moves(a, At(m, <<>>, None, FALSE), <<SyncWrite(p, Data(d))>>, At(m, d, None, FALSE))
  <2>1. <<>> \o d = d /\ Begins(d, d)
    BY <1>6, SeqEmpty, BeginsSelf
  <2>2. PICK z : z = <<>>
    OBVIOUS
  <2>3. Begins(z \o d, In(a, p)) /\ z \o d = d
    BY <1>2, <2>1, <2>2
  <2>4. Moves(a, At(m, z, None, FALSE), <<SyncWrite(p, Data(d))>>, At(m, z \o d, None, FALSE))
    BY <1>2, <1>6, <1>7, <1>8, <1>9, <2>3, SinkGets
  <2> QED BY <2>2, <2>3, <2>4
<1>11. Moves(a, At(m, d, None, FALSE), <<Destroy(p)>>, At(l, y, p, FALSE))
  <2>1. Reader(a, p) = Last(l)
    BY <1>2 DEF lzmasink
  <2>2. Moves(a, At(m, In(a, p), None, FALSE), <<Destroy(p)>>, At(l, Before(a, p) \o Out(a, p), p, FALSE))
    BY <1>2, <1>3, <1>5, <2>1, SinkCloses
  <2> QED BY <1>2, <1>5, <2>2
<1>12. Moves(a, At(l, y, p, FALSE), <<Take(p)>>, At(l, y, p, FALSE))
    BY <1>3, ResultTaken
<1> DEFINE o1 == ConstructOn("ByteCounterSink", p, lzmasink)
           o2 == SyncWrite(p, Data(d))
           o3 == Destroy(p)
           o4 == Take(p)
<1>14. Moves(a, At(l, x, left, FALSE), <<o1, o2, o3, o4>>, At(l, y, p, FALSE))
  <2> HIDE DEF o1, o2, o3, o4
  <2>1. Moves(a, At(l, x, left, FALSE), <<o1>> \o <<o2>>, At(m, d, None, FALSE))
    BY <1>7, <1>10, MovesConcat DEF o1, o2
  <2>2. <<o1, o2>> = <<o1>> \o <<o2>>
    BY PairIs
  <2>3. Moves(a, At(l, x, left, FALSE), <<o1, o2>> \o <<o3>>, At(l, y, p, FALSE))
    BY <1>11, <2>1, <2>2, MovesConcat DEF o3
  <2>4. <<o1, o2, o3>> = <<o1, o2>> \o <<o3>>
    OBVIOUS
  <2>5. Moves(a, At(l, x, left, FALSE), <<o1, o2, o3>> \o <<o4>>, At(l, y, p, FALSE))
    BY <1>12, <2>3, <2>4, MovesConcat DEF o4
  <2>6. <<o1, o2, o3, o4>> = <<o1, o2, o3>> \o <<o4>>
    OBVIOUS
  <2> QED BY <2>5, <2>6
<1>15. Moves(a, At(l, x, left, FALSE), add_base_object(i), At(l, y, p, FALSE))
    BY <1>4, <1>14 DEF o1, o2, o3, o4
<1> QED BY <1>1, <1>5, <1>15

\* The loop in add_files.
LEMMA FileMoves ==
    ASSUME NEW a \in Archives, a = archive, NEW i \in 1 .. Len(a.files),
           NEW l, Chain(a, l), In(a, <<"lzma", 1>>) # <<>> => AllUsed(a, l), Last(l) = <<"lzma", 1>>, NEW left
    PROVE  Moves(a, At(l, FirstOf(a.files, i - 1), left, FALSE), add_file(i),
                 At(l, FirstOf(a.files, i), <<"hash", i>>, FALSE))
<1> DEFINE d == a.files[i]
           lzmasink == <<"lzma", 1>>
<1>1. PICK p, q : p = <<"hash", i>> /\ q = <<"std", i>>
    OBVIOUS
<1>2. /\ Fits(a, p) /\ In(a, p) = d
      /\ Before(a, p) = FirstOf(a.files, i - 1)
      /\ Before(a, p) \o Out(a, p) = FirstOf(a.files, i)
      /\ Reader(a, p) = lzmasink /\ ~IsSink(p) /\ Feed(p) = q
      /\ (In(a, p) # <<>> => In(a, lzmasink) # <<>>)
    BY <1>1, HashFits
<1>3. Fits(a, q) /\ In(a, q) = d /\ Reader(a, q) = p /\ ~IsSink(q)
    BY <1>1, StdFits
<1>4. p # file /\ p # overall /\ Takeable(p) /\ q # file /\ p # q /\ p[1] = "hash" /\ q[1] = "std" /\ p # lzmasink
    BY <1>1 DEF file, overall, Takeable
<1>5. p \notin Ran(l) /\ q \notin Ran(l)
    BY <1>2, <1>3 DEF Chain
<1> DEFINE o1 == Construct("StdStreamSource", q, d)
           o2 == ConstructFrom("HashSource", p, q, 0)
           o3 == CopyTo(p, lzmasink)
           o4 == Destroy(p)
           o5 == Destroy(q)
           o6 == Take(p)
           copy == IF d # <<>> THEN <<o3>> ELSE <<>>
<1>6. add_file(i) = (<<o1, o2>> \o copy) \o <<o4, o5, o6>>
    BY <1>1 DEF add_file, Files
<1>7. PICK m, n, x, y : /\ m = Append(l, q) /\ n = Append(m, p)
                        /\ x = FirstOf(a.files, i - 1) /\ y = FirstOf(a.files, i)
    OBVIOUS
<1>8. IsSeq(m) /\ Last(m) = q /\ Front(m) = l /\ Ran(m) = Ran(l) \cup {q} /\ m # <<>>
    BY <1>7, LastOfAppend DEF Chain
<1>9. IsSeq(n) /\ Last(n) = p /\ Front(n) = m /\ Ran(n) = Ran(m) \cup {p} /\ n # <<>>
    BY <1>7, <1>8, LastOfAppend
<1>10. /\ o1.do = "construct" /\ o1.p = q /\ o1.kind = "StdStreamSource" /\ o1.arg = d
       /\ o2.do = "construct_from" /\ o2.p = p /\ o2.kind = "HashSource" /\ o2.source = q
       /\ o3.do = "copy_to" /\ o3.p = p /\ o3.sink = lzmasink
       /\ o4.do = "destroy" /\ o4.p = p /\ o5.do = "destroy" /\ o5.p = q
    BY DEF Construct, ConstructFrom, CopyTo, Destroy, Op
<1> HIDE DEF d, o1, o2, o3, o4, o5, o6, copy, lzmasink
<1>11. PICK s0, s1, s2, s3, s4, s5 :
           /\ s0 = At(l, x, left, FALSE)
           /\ s1 = State(m, Last(l), x, "opened", None, FALSE)
           /\ s2 = State(n, Last(l), x, "open", None, FALSE)
           /\ s3 = Now(s2, "joined")
           /\ s4 = State(m, Last(l), y, "open", p, FALSE)
           /\ s5 = At(l, y, p, FALSE)
    OBVIOUS
<1>12. /\ s0.stack = l /\ s0.top = Last(l) /\ s0.sent = x /\ s0.phase = "open" /\ s0.summed = FALSE
       /\ s1.stack = m /\ s1.top = Last(l) /\ s1.sent = x /\ s1.phase = "opened" /\ s1.summed = FALSE
       /\ s2.stack = n /\ s2.top = Last(l) /\ s2.sent = x /\ s2.phase = "open" /\ s2.summed = FALSE
    BY <1>11 DEF At, State
<1>13. /\ s3.stack = n /\ s3.top = Last(l) /\ s3.sent = x /\ s3.phase = "joined" /\ s3.summed = FALSE
       /\ s4.stack = m /\ s4.top = Last(l) /\ s4.sent = y /\ s4.phase = "open" /\ s4.left = p /\ s4.summed = FALSE
    BY <1>11 DEF Now, State
<1>14. \A w \in Ran(l) : IsSink(w) /\ Reader(a, w) # p /\ Reader(a, w) # lzmasink /\ w # p
  <2>1. Free(a, s0, lzmasink)
    BY <1>12, ChainFree DEF lzmasink
  <2>2. ASSUME NEW w \in Ran(l) PROVE Reader(a, w) # p
    <3>1. CASE w = file
      <4>1. Reader(a, w) = None
        BY <3>1 DEF Reader, file
      <4> QED BY <1>4, <4>1 DEF None
    <3>2. CASE w # file
      BY <1>5, <3>2 DEF Chain
    <3> QED BY <3>1, <3>2
  <2>3. \A w \in Ran(l) : Reader(a, w) # lzmasink
    BY <1>12, <2>1 DEF Free
  <2> QED BY <1>5, <2>2, <2>3 DEF Chain
<1>15. Last(l) = lzmasink
    BY DEF lzmasink
<1>16. WriteStep(a, s0, o1, s1)
  <2>1. s1 = State(Append(s0.stack, o1.p), s0.top, s0.sent, "opened", None, s0.summed)
    BY <1>7, <1>10, <1>11, <1>12
  <2>2. Free(a, s0, Reader(a, q))
    BY <1>3, <1>12, <1>14 DEF Free
  <2>3. IsSink(Last(l)) /\ l # <<>>
    BY DEF Chain
  <2>4. StdRule(a, s0, o1, s1)
    BY <1>3, <1>4, <1>5, <1>10, <1>12, <2>1, <2>2, <2>3 DEF StdRule
  <2> QED BY <2>4 DEF WriteStep
<1>17. WriteStep(a, s1, o2, s2)
  <2>1. s2 = State(Append(s1.stack, o2.p), s1.top, s1.sent, "open", None, s1.summed)
    BY <1>7, <1>10, <1>11, <1>12
  <2>2. Free(a, s1, s1.top)
    BY <1>3, <1>4, <1>8, <1>12, <1>14, <1>15 DEF Free
  <2>3. p \notin Ran(m)
    BY <1>4, <1>5, <1>8
  <2>4. HashRule(a, s1, o2, s2)
    BY <1>2, <1>4, <1>7, <1>8, <1>10, <1>12, <1>15, <2>1, <2>2, <2>3 DEF HashRule
  <2> QED BY <2>4 DEF WriteStep
<1>18. Moves(a, s0, <<o1, o2>>, s2)
    BY <1>16, <1>17, MovesTwo
<1>19. PICK s : s = IF d # <<>> THEN s3 ELSE s2
    OBVIOUS
<1>20. Moves(a, s2, copy, s)
  <2>1. CASE d = <<>>
    BY <1>19, <2>1, MovesNone DEF copy
  <2>2. CASE d # <<>>
    <3>1. AllUsed(a, l)
      BY <1>2, <2>2 DEF lzmasink
    <3>2. Used(a, s2)
      BY <1>2, <1>3, <1>8, <1>9, <1>12, <2>2, <3>1 DEF Used, AllUsed
    <3>3. CopyRule(a, s2, o3, s3)
      BY <1>2, <1>4, <1>9, <1>10, <1>11, <1>12, <3>2 DEF CopyRule
    <3>4. Moves(a, s2, <<o3>>, s3)
      BY <3>3, MovesOne DEF WriteStep
    <3> QED BY <1>19, <2>2, <3>4 DEF copy
  <2> QED BY <2>1, <2>2
<1>21. WriteStep(a, s, o4, s4)
  <2>1. /\ s.stack = n /\ s.top = Last(l) /\ s.sent = x /\ s.summed = FALSE
        /\ s.phase = "joined" \/ (s.phase = "open" /\ In(a, p) = <<>>)
    BY <1>2, <1>12, <1>13, <1>19
  <2>2. Removable(a, s, p)
    BY <1>2, <1>4, <1>9, <1>15, <2>1 DEF Removable
  <2>3. s4 = Gone(a, s, p)
    BY <1>2, <1>4, <1>7, <1>9, <1>11, <2>1 DEF Gone
  <2>4. DestroyRule(a, s, o4, s4)
    BY <1>4, <1>10, <2>1, <2>2, <2>3 DEF DestroyRule
  <2> QED BY <2>4 DEF WriteStep
<1>22. WriteStep(a, s4, o5, s5)
  <2>1. Removable(a, s4, q)
    BY <1>3, <1>4, <1>5, <1>8, <1>13 DEF Removable
  <2>2. s5 = Gone(a, s4, q)
    BY <1>3, <1>4, <1>8, <1>11, <1>13 DEF Gone, At
  <2>3. DestroyRule(a, s4, o5, s5)
    BY <1>4, <1>10, <1>13, <2>1, <2>2 DEF DestroyRule
  <2> QED BY <2>3 DEF WriteStep
<1>23. Moves(a, s5, <<o6>>, s5)
    BY <1>4, <1>11, ResultTaken DEF o6
<1>24. Moves(a, s, <<o4, o5, o6>>, s5)
  <2>1. Moves(a, s, <<o4, o5>>, s5)
    BY <1>21, <1>22, MovesTwo
  <2>2. <<o4, o5, o6>> = <<o4, o5>> \o <<o6>>
    OBVIOUS
  <2> QED BY <1>23, <2>1, <2>2, MovesConcat
<1>25. Moves(a, s0, (<<o1, o2>> \o copy) \o <<o4, o5, o6>>, s5)
  <2>1. PICK b1, b2, b3 : b1 = <<o1, o2>> /\ b2 = copy /\ b3 = <<o4, o5, o6>>
    OBVIOUS
  <2>2. Moves(a, s0, b1, s2) /\ Moves(a, s2, b2, s) /\ Moves(a, s, b3, s5)
    BY <1>18, <1>20, <1>24, <2>1
  <2>3. Moves(a, s0, (b1 \o b2) \o b3, s5)
    BY <2>2, MovesConcat
  <2> QED BY <2>1, <2>3
<1> QED BY <1>1, <1>6, <1>7, <1>11, <1>25

\* Every section is on top of the sum of the archive.
LEMMA BelowChain ==
    ASSUME NEW a \in Archives
    PROVE  Chain(a, Below) /\ AllUsed(a, Below) /\ Last(Below) = overall
<1>1. IsSeq(Below) /\ Ran(Below) = {file, overall}
    BY BelowFacts
<1>2. IsSeq(Append(<<>>, file))
    BY SeqEmpty, LastOfAppend
<1>3. Below # <<>> /\ Last(Below) = overall
    BY <1>2, LastOfAppend DEF Below
<1>4. Fits(a, file) /\ In(a, file) # <<>> /\ Fits(a, overall) /\ In(a, overall) # <<>>
      /\ Reader(a, overall) = file
    BY FileFits, OverallFits
<1>5. IsSink(file) /\ IsSink(overall) /\ file # overall
    BY DEF IsSink, file, overall
<1> QED BY <1>1, <1>3, <1>4, <1>5 DEF Chain, AllUsed

\* What has got something has something to write.
LEMMA ReaderUsed ==
    ASSUME NEW a, NEW p, Fits(a, p), p # file, In(a, p) # <<>>
    PROVE  In(a, Reader(a, p)) # <<>>
<1>1. IsSeq(In(a, p)) /\ IsSeq(Before(a, p)) /\ Begins(Before(a, p) \o Out(a, p), In(a, Reader(a, p)))
    BY DEF Fits
<1>2. IsSeq(Out(a, p)) /\ Out(a, p) # <<>>
    BY <1>1, OutputFacts DEF Out
<1>3. ASSUME In(a, Reader(a, p)) = <<>> PROVE FALSE
  <2>1. PICK x, y : x = Before(a, p) /\ y = Out(a, p)
    OBVIOUS
  <2>2. IsSeq(x) /\ IsSeq(y) /\ Begins(x \o y, <<>>) /\ IsSeq(x \o y)
    BY <1>1, <1>2, <1>3, <2>1, SeqConcat
  <2>3. x \o y = <<>>
    BY <2>2, BeginsNothing
  <2> QED BY <1>2, <2>1, <2>2, <2>3, ConcatNothing
<1> QED BY <1>3

SectionShape(a, p, q, r, counted, under, l) ==
    /\ Chain(a, counted) /\ p \notin Ran(Below) /\ Last(counted) = p
    /\ q \notin Ran(counted)
    /\ Chain(a, under) /\ r \notin Ran(under)
    /\ Last(under) = Reader(a, r)
    /\ Chain(a, l) /\ Last(l) = r
    /\ In(a, r) # <<>> => AllUsed(a, l)
    /\ \A w \in Ran(l) : w[1] # "counter2"

LEMMA SectionChain ==
    ASSUME NEW a \in Archives, NEW n \in {1, 2, 3}, NEW cipher, cipher = (a.encrypted /\ n # 3),
           NEW p, p = <<"counter", n>>, NEW q, q = <<"crypto", n>>, NEW r, r = <<"lzma", n>>,
           NEW counted, counted = Append(Below, p),
           NEW under, under = (IF cipher THEN Append(counted, q) ELSE counted),
           NEW l, l = Append(under, r)
    PROVE  SectionShape(a, p, q, r, counted, under, l)
<1>1. p = <<"counter", n>> /\ q = <<"crypto", n>> /\ r = <<"lzma", n>>
    OBVIOUS
<1>2. /\ p # q /\ p # r /\ q # r /\ p # file /\ q # file /\ r # file /\ p # overall /\ q # overall /\ r # overall
      /\ p[1] # "counter2" /\ q[1] # "counter2" /\ r[1] # "counter2"
      /\ file[1] # "counter2" /\ overall[1] # "counter2"
    BY <1>1 DEF file, overall
<1>3. Chain(a, Below) /\ AllUsed(a, Below) /\ Last(Below) = overall /\ Ran(Below) = {file, overall}
    BY BelowChain, BelowFacts
<1>4. Fits(a, p) /\ Reader(a, p) = overall /\ IsSink(p)
    BY <1>1, CounterFits
<1>5. Chain(a, counted)
    BY <1>1, <1>2, <1>3, <1>4, SinkOpens
<1>6. Last(counted) = p /\ Ran(counted) = {file, overall, p}
  <2>1. Last(counted) = p /\ Ran(counted) = Ran(Below) \cup {p}
    BY <1>1, LastOfAppend, BelowFacts
  <2> QED BY <1>3, <2>1
<1>7. CASE cipher = TRUE
  <2>1. n \in {1, 2} /\ a.encrypted
    BY <1>7
  <2>2. Fits(a, q) /\ Reader(a, q) = p /\ IsSink(q)
    BY <1>1, <2>1, CryptoFits
  <2>3. under = Append(counted, q)
    BY <1>1, <1>7
  <2>4. Chain(a, under)
    BY <1>2, <1>5, <1>6, <2>2, <2>3, SinkOpens
  <2>5. Last(under) = q /\ Ran(under) = {file, overall, p, q}
    <3>1. Last(under) = q /\ Ran(under) = Ran(counted) \cup {q}
      BY <1>5, <2>3, LastOfAppend DEF Chain
    <3> QED BY <1>6, <3>1
  <2>6. Fits(a, r) /\ IsSink(r) /\ Reader(a, r) = q
    BY <1>1, <2>1, LzmaFits
  <2>7. Chain(a, l)
    BY <1>1, <1>2, <2>4, <2>5, <2>6, SinkOpens
  <2>8. Last(l) = r /\ Ran(l) = {file, overall, p, q, r}
    <3>1. Last(l) = r /\ Ran(l) = Ran(under) \cup {r}
      BY <1>1, <2>4, LastOfAppend DEF Chain
    <3> QED BY <2>5, <3>1
  <2>9. ASSUME In(a, r) # <<>> PROVE AllUsed(a, l)
    <3>1. In(a, q) # <<>>
      BY <1>2, <2>6, <2>9, ReaderUsed
    <3>2. In(a, p) # <<>>
      BY <1>2, <2>2, <3>1, ReaderUsed
    <3> QED BY <1>3, <2>8, <2>9, <3>1, <3>2 DEF AllUsed
  <2> QED BY <1>1, <1>2, <1>3, <1>5, <1>6, <2>4, <2>5, <2>6, <2>7, <2>8, <2>9 DEF SectionShape
<1>8. CASE cipher = FALSE
  <2>3. under = counted
    BY <1>8
  <2>6. Fits(a, r) /\ IsSink(r) /\ Reader(a, r) = p
    BY <1>1, <1>8, LzmaFits
  <2>7. Chain(a, l)
    BY <1>1, <1>2, <1>5, <1>6, <2>3, <2>6, SinkOpens
  <2>8. Last(l) = r /\ Ran(l) = {file, overall, p, r}
    <3>1. Last(l) = r /\ Ran(l) = Ran(counted) \cup {r}
      BY <1>1, <1>5, <2>3, LastOfAppend DEF Chain
    <3> QED BY <1>6, <3>1
  <2>9. ASSUME In(a, r) # <<>> PROVE AllUsed(a, l)
    <3>2. In(a, p) # <<>>
      BY <1>2, <2>6, <2>9, ReaderUsed
    <3> QED BY <1>3, <2>8, <2>9, <3>2 DEF AllUsed
  <2> QED BY <1>1, <1>2, <1>3, <1>5, <1>6, <2>3, <2>6, <2>7, <2>8, <2>9 DEF SectionShape
<1>9. cipher \in BOOLEAN
    BY ArchiveFacts
<1> QED BY <1>7, <1>8, <1>9

LEMMA SectionMoves ==
    ASSUME NEW a \in Archives, NEW n \in {1, 2, 3}, NEW cipher, cipher = (a.encrypted /\ n # 3),
           NEW l, l = SectionStack(Below, n, cipher), NEW body, NEW left, NEW right,
           Moves(a, At(l, <<>>, None, FALSE), body, At(l, SectionData(a, n), right, FALSE)),
           NEW p, p = <<"counter", n>>
    PROVE  Moves(a, At(Below, Before(a, p), left, FALSE), Section(n, cipher, body),
                 At(Below, Before(a, p) \o SectionOf(a, n), p, FALSE))
<1>1. PICK q, r : q = <<"crypto", n>> /\ r = <<"lzma", n>>
    OBVIOUS
<1>2. PICK counted : counted = Append(Below, p)
    OBVIOUS
<1>3. PICK under : under = (IF cipher THEN Append(counted, q) ELSE counted)
    OBVIOUS
<1>4. l = Append(under, r)
    BY <1>1, <1>2, <1>3 DEF SectionStack
<1>5. /\ Chain(a, counted) /\ p \notin Ran(Below) /\ Last(counted) = p
      /\ q \notin Ran(counted)
      /\ Chain(a, under) /\ r \notin Ran(under)
      /\ Last(under) = Reader(a, r)
      /\ Chain(a, l) /\ Last(l) = r
  <2>1. SectionShape(a, p, q, r, counted, under, l)
    BY <1>1, <1>2, <1>3, <1>4, SectionChain
  <2> QED BY <2>1 DEF SectionShape
<1>6. Chain(a, Below) /\ Last(Below) = overall
    BY BelowChain
<1>7. /\ Fits(a, p) /\ In(a, p) = SectionOf(a, n) /\ Out(a, p) = SectionOf(a, n)
      /\ Reader(a, p) = overall /\ KindOf(p) = "ByteCounterSink" /\ IsSink(p)
    BY CounterFits
<1>8. /\ Fits(a, r) /\ In(a, r) = SectionData(a, n) /\ Before(a, r) = <<>>
      /\ Before(a, r) \o Out(a, r) = In(a, Reader(a, r))
      /\ Reader(a, r) = (IF cipher THEN q ELSE p) /\ KindOf(r) = "LzmaSink" /\ IsSink(r)
    BY <1>1, LzmaFits
<1>9. p # file /\ q # file /\ r # file
    BY <1>1 DEF file
<1>10. PICK x, y, d : x = Before(a, p) /\ y = Before(a, p) \o SectionOf(a, n) /\ d = SectionData(a, n)
    OBVIOUS
<1> DEFINE o1 == ConstructOn("ByteCounterSink", p, overall)
           o2 == ConstructOn("CryptoSink", q, p)
           o3 == ConstructOn("LzmaSink", r, IF cipher THEN q ELSE p)
           o4 == Destroy(r)
           o5 == Destroy(q)
           o6 == Destroy(p)
           b2 == IF cipher THEN <<o2>> ELSE <<>>
           b5 == IF cipher THEN <<o5>> ELSE <<>>
<1>11. Section(n, cipher, body) = (((((<<o1>> \o b2) \o <<o3>>) \o body) \o <<o4>>) \o b5) \o <<o6>>
    BY <1>1 DEF Section
<1>12. Moves(a, At(Below, x, left, FALSE), <<o1>>, At(counted, <<>>, None, FALSE))
    BY <1>2, <1>5, <1>6, <1>7, <1>9, <1>10, SinkOpens
<1>13. Moves(a, At(counted, In(a, p), IF cipher THEN q ELSE r, FALSE), <<o6>>, At(Below, y, p, FALSE))
  <2>1. PICK z : z = IF cipher THEN q ELSE r
    OBVIOUS
  <2>2. Moves(a, At(counted, In(a, p), z, FALSE), <<o6>>, At(Below, Before(a, p) \o Out(a, p), p, FALSE))
    BY <1>2, <1>5, <1>6, <1>7, <1>9, SinkCloses
  <2> QED BY <1>7, <1>10, <2>1, <2>2
<1> HIDE DEF o1, o6
<1>14. Moves(a, At(under, <<>>, None, FALSE), <<o3>>, At(l, <<>>, None, FALSE))
  <2>1. PICK v : v = IF cipher THEN q ELSE p
    OBVIOUS
  <2>2. v = Last(under) /\ v = Reader(a, r)
    BY <1>5, <1>8, <2>1
  <2>3. Moves(a, At(under, Before(a, r), None, FALSE), <<ConstructOn("LzmaSink", r, v)>>,
              At(Append(under, r), <<>>, None, FALSE))
    BY <1>5, <1>8, <1>9, <2>2, SinkOpens
  <2> QED BY <1>4, <1>8, <2>1, <2>3
<1>15. Moves(a, At(l, d, right, FALSE), <<o4>>, At(under, In(a, Reader(a, r)), r, FALSE))
  <2>1. Moves(a, At(Append(under, r), In(a, r), right, FALSE), <<Destroy(r)>>,
              At(under, Before(a, r) \o Out(a, r), r, FALSE))
    BY <1>5, <1>8, <1>9, SinkCloses
  <2> QED BY <1>4, <1>8, <1>10, <2>1
<1> HIDE DEF o3, o4
<1>16. /\ Moves(a, At(counted, <<>>, None, FALSE), b2, At(under, <<>>, None, FALSE))
       /\ Moves(a, At(under, In(a, Reader(a, r)), r, FALSE), b5,
                At(counted, In(a, p), IF cipher THEN q ELSE r, FALSE))
  <2>1. CASE cipher = TRUE
    <3>1. n \in {1, 2} /\ a.encrypted /\ under = Append(counted, q) /\ Reader(a, r) = q
      BY <1>3, <1>8, <2>1
    <3>2. /\ Fits(a, q) /\ Before(a, q) = <<>> /\ Before(a, q) \o Out(a, q) = In(a, Reader(a, q))
          /\ Reader(a, q) = p /\ KindOf(q) = "CryptoSink" /\ IsSink(q)
      BY <1>1, <3>1, CryptoFits
    <3>3. Moves(a, At(counted, Before(a, q), None, FALSE), <<ConstructOn("CryptoSink", q, p)>>,
                At(Append(counted, q), <<>>, None, FALSE))
      BY <1>5, <1>9, <3>2, SinkOpens
    <3>4. Moves(a, At(Append(counted, q), In(a, q), r, FALSE), <<Destroy(q)>>,
                At(counted, Before(a, q) \o Out(a, q), q, FALSE))
      BY <1>5, <1>9, <3>2, SinkCloses
    <3>5. Moves(a, At(counted, <<>>, None, FALSE), b2, At(under, <<>>, None, FALSE))
      BY <2>1, <3>1, <3>2, <3>3
    <3>6. Moves(a, At(under, In(a, Reader(a, r)), r, FALSE), b5,
                At(counted, In(a, p), IF cipher THEN q ELSE r, FALSE))
      BY <2>1, <3>1, <3>2, <3>4
    <3> QED BY <3>5, <3>6
  <2>2. CASE cipher = FALSE
    <3>1. under = counted /\ Reader(a, r) = p /\ b2 = <<>> /\ b5 = <<>>
      BY <1>3, <1>8, <2>2
    <3> QED BY <2>2, <3>1, MovesNone
  <2>3. cipher \in BOOLEAN
    BY ArchiveFacts
  <2> QED BY <2>1, <2>2, <2>3
<1>17. PICK c1, c2, c3, c4, c5, c6 :
           c1 = <<o1>> /\ c2 = b2 /\ c3 = <<o3>> /\ c4 = <<o4>> /\ c5 = b5 /\ c6 = <<o6>>
    OBVIOUS
<1> HIDE DEF b2, b5
<1>18. Moves(a, At(Below, x, left, FALSE), (c1 \o c2) \o c3, At(l, <<>>, None, FALSE))
  <2>1. Moves(a, At(Below, x, left, FALSE), c1 \o c2, At(under, <<>>, None, FALSE))
    BY <1>12, <1>16, <1>17, MovesConcat
  <2> QED BY <1>14, <1>17, <2>1, MovesConcat
<1>19. Moves(a, At(Below, x, left, FALSE), ((c1 \o c2) \o c3) \o body, At(l, d, right, FALSE))
    BY <1>10, <1>18, MovesConcat
<1>20. Moves(a, At(Below, x, left, FALSE), (((c1 \o c2) \o c3) \o body) \o c4, At(under, In(a, Reader(a, r)), r, FALSE))
    BY <1>15, <1>17, <1>19, MovesConcat
<1>21. Moves(a, At(Below, x, left, FALSE), ((((c1 \o c2) \o c3) \o body) \o c4) \o c5,
             At(counted, In(a, p), IF cipher THEN q ELSE r, FALSE))
    BY <1>16, <1>17, <1>20, MovesConcat
<1>22. Moves(a, At(Below, x, left, FALSE), (((((c1 \o c2) \o c3) \o body) \o c4) \o c5) \o c6,
             At(Below, y, p, FALSE))
    BY <1>13, <1>17, <1>21, MovesConcat
<1> QED BY <1>10, <1>11, <1>17, <1>22

\* A loop over s, of which round i is f[i].
LEMMA LoopMoves ==
    ASSUME NEW a, NEW l, NEW s, IsSeqs(s), NEW n, n = Len(s), NEW f, f = [i \in 1 .. n |-> f[i]], NEW name,
           \A i \in 1 .. n : \A left :
               Moves(a, At(l, FirstOf(s, i - 1), left, FALSE), f[i], At(l, FirstOf(s, i), <<name, i>>, FALSE))
    PROVE  \E right : Moves(a, At(l, <<>>, None, FALSE), FlattenSeq(f), At(l, FlattenSeq(s), right, FALSE))
<1> DEFINE left(i) == IF i = 1 THEN None ELSE <<name, i - 1>>
           J == [i \in 1 .. n + 1 |-> At(l, FirstOf(s, i - 1), left(i), FALSE)]
<1>1. n \in Nat /\ IsSeq(s)
    BY SeqFacts DEF IsSeqs
<1>2. IsSeq(f) /\ Len(f) = n
    BY <1>1, SeqMake
<1>3. ASSUME NEW i \in 1 .. n PROVE Moves(a, J[i], f[i], J[i + 1])
  <2>1. i \in 1 .. n + 1 /\ i + 1 \in 1 .. n + 1 /\ (i + 1) - 1 = i /\ i + 1 # 1
    BY <1>1
  <2>2. PICK x, y : x = left(i) /\ y = left(i + 1)
    OBVIOUS
  <2>3. J[i] = At(l, FirstOf(s, i - 1), x, FALSE)
    BY <2>1, <2>2
  <2>4. y = <<name, i>>
    BY <2>1, <2>2
  <2>5. J[i + 1] = At(l, FirstOf(s, i), y, FALSE)
    <3>1. J[i + 1] = At(l, FirstOf(s, (i + 1) - 1), left(i + 1), FALSE)
      BY <2>1
    <3> HIDE DEF left, J
    <3> QED BY <2>1, <2>2, <3>1
  <2> HIDE DEF left, J
  <2> QED BY <2>3, <2>4, <2>5
<1>4. J[1] = At(l, <<>>, None, FALSE)
  <2>1. 1 \in 1 .. n + 1 /\ 1 - 1 = 0
    BY <1>1
  <2>2. J[1] = At(l, FirstOf(s, 1 - 1), left(1), FALSE)
    BY <2>1
  <2>3. left(1) = None
    OBVIOUS
  <2> HIDE DEF left, J
  <2> QED BY <1>1, <2>1, <2>2, <2>3, FirstNone
<1>5. J[n + 1] = At(l, FlattenSeq(s), left(n + 1), FALSE)
  <2>1. n + 1 \in 1 .. n + 1 /\ (n + 1) - 1 = n
    BY <1>1
  <2>2. J[n + 1] = At(l, FirstOf(s, (n + 1) - 1), left(n + 1), FALSE)
    BY <2>1
  <2> HIDE DEF left, J
  <2> QED BY <1>1, <2>1, <2>2, FirstAll
<1> HIDE DEF left, J
<1>6. IsSeqs(f) /\ \A i \in 1 .. Len(f) : Path(Writing(a), J[i], f[i], J[i + 1])
    BY <1>2, <1>3 DEF IsSeqs, Moves
<1>7. Path(Writing(a), J[1], FlattenSeq(f), J[Len(f) + 1]) /\ IsSeq(FlattenSeq(f))
    BY <1>6, PathFlatten, FlattenIsSeq
<1>8. Moves(a, J[1], FlattenSeq(f), J[n + 1])
    BY <1>2, <1>7 DEF Moves
<1> QED BY <1>4, <1>5, <1>8

\* The states between the parts of the archive.
Between(sent, left) == At(Below, sent, left, FALSE)

LEMMA FilesMoves ==
    ASSUME NEW a \in Archives, a = archive, NEW left, NEW p, p = <<"counter", 1>>
    PROVE  Moves(a, Between(Before(a, p), left), add_files, Between(Before(a, p) \o SectionOf(a, 1), p))
<1> DEFINE f == [i \in DOMAIN Files |-> add_file(i)]
           n == Len(a.files)
<1>1. PICK cipher : cipher = a.encrypted
    OBVIOUS
<1>2. PICK counted : counted = Append(Below, p)
    OBVIOUS
<1>3. PICK q, r : q = <<"crypto", 1>> /\ r = <<"lzma", 1>>
    OBVIOUS
<1>4. PICK under : under = (IF cipher THEN Append(counted, q) ELSE counted)
    OBVIOUS
<1>5. PICK l : l = Append(under, r)
    OBVIOUS
<1>6. l = SectionStack(Below, 1, cipher)
    BY <1>1, <1>2, <1>3, <1>4, <1>5 DEF SectionStack
<1>7. 1 \in {1, 2, 3} /\ cipher = (a.encrypted /\ 1 # 3) /\ cipher = Encrypted
  <2>1. a.encrypted \in BOOLEAN
    BY ArchiveFacts
  <2> QED BY <1>1, <2>1 DEF Encrypted
<1>8. SectionShape(a, p, q, r, counted, under, l)
    BY <1>2, <1>3, <1>4, <1>5, <1>7, SectionChain
<1>9. Chain(a, l) /\ Last(l) = <<"lzma", 1>> /\ (In(a, <<"lzma", 1>>) # <<>> => AllUsed(a, l))
    BY <1>3, <1>8 DEF SectionShape
<1>10. IsSeqs(a.files) /\ DOMAIN Files = 1 .. n /\ n \in Nat
    BY ArchiveFacts DEF Files
<1>11. ASSUME NEW i \in 1 .. n, NEW x
       PROVE  Moves(a, At(l, FirstOf(a.files, i - 1), x, FALSE), add_file(i),
                    At(l, FirstOf(a.files, i), <<"hash", i>>, FALSE))
    BY <1>9, FileMoves
<1>12. f = [i \in 1 .. n |-> f[i]] /\ \A i \in 1 .. n : f[i] = add_file(i)
    BY <1>10
<1> HIDE DEF f, n
<1>13. \A i \in 1 .. n : \A x : Moves(a, At(l, FirstOf(a.files, i - 1), x, FALSE), f[i],
                                      At(l, FirstOf(a.files, i), <<"hash", i>>, FALSE))
    BY <1>11, <1>12
<1>14. n = Len(a.files)
    BY DEF n
<1>15. PICK right : Moves(a, At(l, <<>>, None, FALSE), FlattenSeq(f), At(l, FlattenSeq(a.files), right, FALSE))
    BY <1>10, <1>12, <1>13, <1>14, LoopMoves
<1>16. FlattenSeq(a.files) = SectionData(a, 1)
    BY DEF SectionData
<1>17. Moves(a, At(Below, Before(a, p), left, FALSE), Section(1, cipher, FlattenSeq(f)),
             At(Below, Before(a, p) \o SectionOf(a, 1), p, FALSE))
    BY <1>6, <1>7, <1>15, <1>16, SectionMoves
<1>18. add_files = Section(1, cipher, FlattenSeq(f))
    BY <1>7 DEF add_files, f
<1> QED BY <1>17, <1>18 DEF Between

LEMMA ObjectsMoves ==
    ASSUME NEW a \in Archives, a = archive, NEW left, NEW p, p = <<"counter", 2>>
    PROVE  Moves(a, Between(Before(a, p), left), add_base_objects, Between(Before(a, p) \o SectionOf(a, 2), p))
<1> DEFINE f == [i \in DOMAIN BaseObjects |-> add_base_object(i)]
           n == Len(a.objects)
<1>1. PICK cipher : cipher = a.encrypted
    OBVIOUS
<1>2. PICK counted : counted = Append(Below, p)
    OBVIOUS
<1>3. PICK q, r : q = <<"crypto", 2>> /\ r = <<"lzma", 2>>
    OBVIOUS
<1>4. PICK under : under = (IF cipher THEN Append(counted, q) ELSE counted)
    OBVIOUS
<1>5. PICK l : l = Append(under, r)
    OBVIOUS
<1>6. l = SectionStack(Below, 2, cipher)
    BY <1>1, <1>2, <1>3, <1>4, <1>5 DEF SectionStack
<1>7. 2 \in {1, 2, 3} /\ cipher = (a.encrypted /\ 2 # 3) /\ cipher = Encrypted
  <2>1. a.encrypted \in BOOLEAN
    BY ArchiveFacts
  <2> QED BY <1>1, <2>1 DEF Encrypted
<1>8. SectionShape(a, p, q, r, counted, under, l)
    BY <1>2, <1>3, <1>4, <1>5, <1>7, SectionChain
<1>9. Chain(a, l) /\ Last(l) = <<"lzma", 2>> /\ (In(a, <<"lzma", 2>>) # <<>> => AllUsed(a, l))
      /\ \A w \in Ran(l) : w[1] # "counter2"
    BY <1>3, <1>8 DEF SectionShape
<1>10. IsSeqs(a.objects) /\ DOMAIN BaseObjects = 1 .. n /\ n \in Nat
    BY ArchiveFacts DEF BaseObjects
<1>11. ASSUME NEW i \in 1 .. n, NEW x
       PROVE  Moves(a, At(l, FirstOf(a.objects, i - 1), x, FALSE), add_base_object(i),
                    At(l, FirstOf(a.objects, i), <<"counter2", i>>, FALSE))
  <2>1. PICK v : v = <<"counter2", i>>
    OBVIOUS
  <2>2. Fits(a, v) /\ v # file /\ In(a, v) # <<>> /\ Reader(a, v) = <<"lzma", 2>>
    BY <2>1, ObjectFits DEF file
  <2>3. In(a, <<"lzma", 2>>) # <<>>
    BY <2>2, ReaderUsed
  <2>4. v \notin Ran(l)
    BY <1>9, <2>1
  <2> QED BY <1>9, <2>1, <2>3, <2>4, ObjectMoves
<1>12. f = [i \in 1 .. n |-> f[i]] /\ \A i \in 1 .. n : f[i] = add_base_object(i)
    BY <1>10
<1> HIDE DEF f, n
<1>13. \A i \in 1 .. n : \A x : Moves(a, At(l, FirstOf(a.objects, i - 1), x, FALSE), f[i],
                                      At(l, FirstOf(a.objects, i), <<"counter2", i>>, FALSE))
    BY <1>11, <1>12
<1>14. n = Len(a.objects)
    BY DEF n
<1>15. PICK right : Moves(a, At(l, <<>>, None, FALSE), FlattenSeq(f), At(l, FlattenSeq(a.objects), right, FALSE))
    BY <1>10, <1>12, <1>13, <1>14, LoopMoves
<1>16. FlattenSeq(a.objects) = SectionData(a, 2)
    BY DEF SectionData
<1>17. Moves(a, At(Below, Before(a, p), left, FALSE), Section(2, cipher, FlattenSeq(f)),
             At(Below, Before(a, p) \o SectionOf(a, 2), p, FALSE))
    BY <1>6, <1>7, <1>15, <1>16, SectionMoves
<1>18. add_base_objects = Section(2, cipher, FlattenSeq(f))
    BY <1>7 DEF add_base_objects, f
<1> QED BY <1>17, <1>18 DEF Between

LEMMA ManifestMoves ==
    ASSUME NEW a \in Archives, a = archive, NEW p, p = <<"counter", 2>>, NEW q, q = <<"counter", 3>>
    PROVE  Moves(a, Between(Before(a, q), p), add_version_manifest, Between(BeforeDigest[a], q))
<1>1. PICK k, f, o, m : /\ k = Layout[a].keys /\ f = Layout[a].files
                        /\ o = Layout[a].objects /\ m = Layout[a].manifest
    OBVIOUS
<1>2. ImageParts(a, k, f, o, m)
    BY <1>1, ImageIs
<1>3. PICK under, r, l : /\ under = Append(Below, q) /\ r = <<"lzma", 3>>
                         /\ l = Append(under, r)
    OBVIOUS
<1>4. l = SectionStack(Below, 3, FALSE)
    BY <1>3 DEF SectionStack
<1>5. 3 \in {1, 2, 3} /\ FALSE = (a.encrypted /\ 3 # 3)
    OBVIOUS
<1>6. Chain(a, l) /\ Last(l) = r /\ (In(a, r) # <<>> => AllUsed(a, l))
  <2>1. PICK x : x = <<"crypto", 3>>
    OBVIOUS
  <2>2. SectionShape(a, q, x, r, under, under, l)
    <3>1. under = (IF FALSE THEN Append(under, x) ELSE under)
      OBVIOUS
    <3> QED BY <1>3, <1>5, <2>1, <3>1, SectionChain
  <2> QED BY <2>2 DEF SectionShape
<1>7. PICK d, e, n : d = <<<<"manifest">>>> /\ e = <<<<"length">>>> /\ n = <<>>
    OBVIOUS
<1>8. IsSeq(d) /\ d # <<>> /\ IsSeq(e) /\ e # <<>>
    BY <1>7, SeqSingle
<1>9. In(a, r) = d /\ SectionData(a, 3) = d
  <2>1. SectionData(a, 3) = d
    BY <1>7 DEF SectionData
  <2> QED BY <1>3, <2>1, LzmaFits
<1> DEFINE body == <<SyncWrite(r, Data(d))>>
           o1 == Take(p)
           o2 == Take(q)
           o3 == SyncWrite(overall, Data(e))
<1>10. Moves(a, At(l, n, None, FALSE), body, At(l, d, None, FALSE))
  <2>1. n \o d = d /\ Begins(d, d)
    BY <1>7, <1>8, SeqEmpty, BeginsSelf
  <2>2. Begins(n \o d, In(a, r))
    BY <1>9, <2>1
  <2>3. Moves(a, At(l, n, None, FALSE), body, At(l, n \o d, None, FALSE))
    BY <1>6, <1>8, <1>9, <2>2, SinkGets
  <2> QED BY <2>1, <2>3
<1>11. PICK x, y, z : x = Before(a, q) /\ y = Before(a, q) \o SectionOf(a, 3) /\ z = BeforeDigest[a]
    OBVIOUS
<1> HIDE DEF body
<1>12. Moves(a, At(Below, x, p, FALSE), Section(3, FALSE, body), At(Below, y, q, FALSE))
  <2>1. Moves(a, At(l, <<>>, None, FALSE), body, At(l, SectionData(a, 3), None, FALSE))
    BY <1>7, <1>9, <1>10
  <2> QED BY <1>4, <1>5, <1>11, <2>1, SectionMoves
<1>13. Takeable(p) /\ Takeable(q) /\ p # overall /\ q # overall
    BY DEF Takeable, overall
<1>14. Moves(a, At(Below, x, p, FALSE), <<o1>>, At(Below, x, p, FALSE))
       /\ Moves(a, At(Below, y, q, FALSE), <<o2>>, At(Below, y, q, FALSE))
    BY <1>13, ResultTaken
<1>15. z = y \o e /\ IsSeq(y) /\ IsSeq(z)
  <2>1. SectionOf(a, 3) = m
    BY <1>1 DEF SectionOf
  <2>2. /\ BeforeDigest[a] = (((k \o f) \o o) \o m) \o <<<<"length">>>> /\ IsSeq(BeforeDigest[a])
        /\ IsSeq(k) /\ IsSeq(f) /\ IsSeq(o) /\ IsSeq(m)
        /\ Before(a, <<"counter", 3>>) = (k \o f) \o o
    BY <1>2 DEF ImageParts
  <2>3. IsSeq(k \o f) /\ IsSeq((k \o f) \o o) /\ IsSeq(((k \o f) \o o) \o m)
    <3>1. IsSeq(k \o f)
      BY <2>2, SeqConcat
    <3>2. IsSeq((k \o f) \o o)
      BY <2>2, <3>1, SeqConcat
    <3> QED BY <2>2, <3>1, <3>2, SeqConcat
  <2>4. y = ((k \o f) \o o) \o m
    BY <1>11, <2>1, <2>2
  <2> QED BY <1>7, <1>11, <2>2, <2>3, <2>4
<1>16. Moves(a, At(Below, y, q, FALSE), <<o3>>, At(Below, z, q, FALSE))
  <2>1. Chain(a, Below) /\ AllUsed(a, Below) /\ overall = Last(Below)
    BY BelowChain
  <2>2. In(a, overall) = z
    BY <1>11, OverallFits
  <2>3. Begins(y \o e, In(a, overall))
    BY <1>15, <2>2, BeginsSelf
  <2>4. Moves(a, At(Below, y, q, FALSE), <<o3>>, At(Below, y \o e, q, FALSE))
    BY <1>8, <2>1, <2>3, SinkGets
  <2> QED BY <1>15, <2>4
<1>17. add_version_manifest = (<<o1>> \o Section(3, FALSE, body)) \o <<o2, o3>>
    BY <1>3, <1>7 DEF add_version_manifest, body
<1> HIDE DEF o1, o2, o3
<1>18. PICK c : c = Section(3, FALSE, body)
    OBVIOUS
<1>19. Moves(a, At(Below, x, p, FALSE), <<o1>> \o c, At(Below, y, q, FALSE))
    BY <1>12, <1>14, <1>18, MovesConcat
<1>20. Moves(a, At(Below, y, q, FALSE), <<o2>> \o <<o3>>, At(Below, z, q, FALSE))
    BY <1>14, <1>16, MovesConcat
<1>21. <<o2, o3>> = <<o2>> \o <<o3>>
    BY PairIs
<1>22. Moves(a, At(Below, x, p, FALSE), (<<o1>> \o c) \o <<o2, o3>>, At(Below, z, q, FALSE))
    BY <1>19, <1>20, <1>21, MovesConcat
<1> QED BY <1>11, <1>17, <1>18, <1>22 DEF Between

Outset == State(<<>>, None, <<>>, "open", None, FALSE)
Over == Now(State(<<>>, None, <<>>, "open", file, TRUE), "over")

\* The file alone.
LEMMA FileChain ==
    ASSUME NEW a \in Archives, NEW l, l = <<file>>
    PROVE  /\ Chain(a, l) /\ AllUsed(a, l) /\ Last(l) = file /\ Front(l) = <<>> /\ IsSeq(l)
           /\ Ran(l) = {file} /\ Append(l, overall) = Below /\ overall \notin Ran(l)
<1>1. PICK n : n = <<>>
    OBVIOUS
<1>2. l = Append(n, file) /\ IsSeq(n) /\ Ran(n) = {}
  <2>1. <<file>> = Append(<<>>, file)
    OBVIOUS
  <2>2. IsSeq(n)
    BY <1>1, SeqEmpty
  <2>3. Ran(n) = {}
    BY <1>1, SeqEmpty DEF Ran
  <2> QED BY <1>1, <2>1, <2>2, <2>3
<1>3. l # <<>> /\ IsSeq(l) /\ Last(l) = file /\ Front(l) = n /\ Ran(l) = {file}
  <2>1. PICK x : x = Append(n, file)
    OBVIOUS
  <2>2. /\ x # <<>> /\ IsSeq(x) /\ Last(x) = file /\ Front(x) = n
        /\ Ran(x) = Ran(n) \cup {file}
    BY <1>2, <2>1, LastOfAppend
  <2>3. l = x
    BY <1>2, <2>1
  <2> QED BY <1>2, <2>2, <2>3
<1>4. Append(l, overall) = Below
    BY <1>1, <1>2 DEF Below
<1>5. Fits(a, file) /\ In(a, file) # <<>>
    BY FileFits
<1>6. IsSink(file) /\ file # overall
    BY DEF IsSink, file, overall
<1>7. Chain(a, l) /\ AllUsed(a, l)
    BY <1>3, <1>5, <1>6 DEF Chain, AllUsed
<1> QED BY <1>1, <1>3, <1>4, <1>6, <1>7

\* The constructors of the sinks of the archive, and the keys.
LEMMA BeginMoves ==
    ASSUME NEW a \in Archives, a = archive, NEW p, p = <<"counter", 1>>
    PROVE  Moves(a, Outset, <<Construct("StdStreamSink", file, 0), ConstructOn("HashSink", overall, file)>>
                            \o create_and_save, Between(Before(a, p), None))
<1>1. PICK l : l = <<file>>
    OBVIOUS
<1>2. /\ Chain(a, l) /\ AllUsed(a, l) /\ Last(l) = file
      /\ Append(l, overall) = Below /\ overall \notin Ran(l)
    BY <1>1, FileChain
<1> DEFINE o1 == Construct("StdStreamSink", file, 0)
           o2 == ConstructOn("HashSink", overall, file)
<1>3. Moves(a, Outset, <<o1>>, At(l, <<>>, None, FALSE))
  <2>1. o1.do = "construct" /\ o1.p = file /\ o1.kind = "StdStreamSink"
    BY DEF Construct
  <2>2. Outset.phase = "open" /\ Outset.stack = <<>> /\ Outset.left = None /\ Outset.summed = FALSE
    BY DEF Outset, State
  <2>3. At(l, <<>>, None, FALSE) = State(<<file>>, file, <<>>, "open", None, FALSE)
    BY <1>1, <1>2 DEF At
  <2>4. Fits(a, file) /\ file # None
    BY FileFits DEF file, None
  <2> HIDE DEF o1
  <2>5. FileRule(a, Outset, o1, At(l, <<>>, None, FALSE))
    BY <2>1, <2>2, <2>3, <2>4 DEF FileRule
  <2> QED BY <2>5, MovesOne DEF WriteStep
<1>4. /\ Fits(a, overall) /\ Before(a, overall) = <<>> /\ Reader(a, overall) = file
      /\ In(a, overall) = BeforeDigest[a]
    BY OverallFits
<1>5. IsSink(overall) /\ overall # file /\ "HashSink" = KindOf(overall)
    BY DEF IsSink, overall, file, KindOf
<1>6. Moves(a, At(l, <<>>, None, FALSE), <<o2>>, At(Below, <<>>, None, FALSE))
  <2>1. Moves(a, At(l, Before(a, overall), None, FALSE), <<o2>>, At(Append(l, overall), <<>>, None, FALSE))
    BY <1>2, <1>4, <1>5, SinkOpens
  <2> QED BY <1>2, <1>4, <2>1
<1> HIDE DEF o1, o2
<1>7. Moves(a, Outset, <<o1, o2>>, At(Below, <<>>, None, FALSE))
  <2>1. Moves(a, Outset, <<o1>> \o <<o2>>, At(Below, <<>>, None, FALSE))
    BY <1>3, <1>6, MovesConcat
  <2> QED BY <2>1, PairIs
<1>8. PICK k, f, o, m : /\ k = Layout[a].keys /\ f = Layout[a].files
                        /\ o = Layout[a].objects /\ m = Layout[a].manifest
    OBVIOUS
<1>9. ImageParts(a, k, f, o, m)
    BY <1>8, ImageIs
<1>10. /\ Before(a, p) = k /\ IsSeq(k)
       /\ k = (IF a.encrypted THEN <<<<"keys">>>> ELSE <<>>)
    BY <1>9 DEF ImageParts
<1>11. Moves(a, At(Below, <<>>, None, FALSE), create_and_save, At(Below, k, None, FALSE))
  <2>1. CASE a.encrypted
    <3>1. k = <<<<"keys">>>>
      BY <1>10, <2>1
    <3>2. k # <<>>
      BY <3>1
    <3>3. create_and_save = <<SyncWrite(overall, Data(k))>>
      BY <2>1, <3>1 DEF create_and_save, Encrypted
    <3>4. Begins(k, BeforeDigest[a])
      <4>1. /\ BeforeDigest[a] = (((k \o f) \o o) \o m) \o <<<<"length">>>>
            /\ IsSeq(f) /\ IsSeq(o) /\ IsSeq(m)
        BY <1>9 DEF ImageParts
      <4>2. PICK e : e = <<<<"length">>>>
        OBVIOUS
      <4>3. IsSeq(e)
        BY <4>2, SeqSingle
      <4>4. PICK x, y, z, w : x = k \o f /\ y = x \o o /\ z = y \o m /\ w = z \o e
        OBVIOUS
      <4>5. IsSeq(x) /\ Begins(k, x)
        BY <1>10, <4>1, <4>4, SeqConcat, BeginsConcat
      <4>6. IsSeq(y) /\ Begins(x, y)
        BY <4>1, <4>4, <4>5, SeqConcat, BeginsConcat
      <4>7. IsSeq(z) /\ Begins(y, z)
        BY <4>1, <4>4, <4>6, SeqConcat, BeginsConcat
      <4>8. Begins(z, w)
        BY <4>3, <4>4, <4>7, BeginsConcat
      <4>9. Begins(k, y)
        BY <1>10, <4>5, <4>6, BeginsTrans
      <4>10. Begins(k, z)
        BY <1>10, <4>7, <4>9, BeginsTrans
      <4>11. Begins(k, w)
        BY <1>10, <4>8, <4>10, BeginsTrans
      <4> QED BY <4>1, <4>2, <4>4, <4>11
    <3>5. PICK n : n = <<>>
      OBVIOUS
    <3>6. n \o k = k
      BY <1>10, <3>5, SeqEmpty
    <3>7. Begins(n \o k, In(a, overall))
      BY <1>4, <3>4, <3>6
    <3>8. Chain(a, Below) /\ AllUsed(a, Below) /\ overall = Last(Below)
      BY BelowChain
    <3>9. Moves(a, At(Below, n, None, FALSE), <<SyncWrite(overall, Data(k))>>, At(Below, n \o k, None, FALSE))
      <4> HIDE <3>1, <1>10
      <4>1. IsSeq(k)
        BY <1>10
      <4> QED BY <3>2, <3>7, <3>8, <4>1, SinkGets
    <3> QED BY <3>3, <3>5, <3>6, <3>9
  <2>2. CASE ~a.encrypted
    <3>1. k = <<>> /\ create_and_save = <<>>
      BY <1>10, <2>2 DEF create_and_save, Encrypted
    <3> QED BY <3>1, MovesNone
  <2> QED BY <2>1, <2>2
<1>12. Moves(a, Outset, <<o1, o2>> \o create_and_save, At(Below, k, None, FALSE))
    BY <1>7, <1>11, MovesConcat
<1> QED BY <1>10, <1>12 DEF Between, o1, o2

\* The digest, behind everything else.
LEMMA EndMoves ==
    ASSUME NEW a \in Archives, a = archive, NEW left
    PROVE  Moves(a, Between(BeforeDigest[a], left),
                 <<Destroy(overall), Take(overall), SyncWrite(file, Data(<<<<"digest">>>>)), Destroy(file)>>
                 \o EndWith("committed"), Over)
<1>1. PICK l, d, n : l = <<file>> /\ d = <<<<"digest">>>> /\ n = <<>>
    OBVIOUS
<1>2. /\ Chain(a, l) /\ AllUsed(a, l) /\ Last(l) = file /\ Front(l) = n /\ IsSeq(l)
      /\ Append(l, overall) = Below /\ overall \notin Ran(l) /\ Ran(l) = {file}
    BY <1>1, FileChain
<1>3. PICK x, z : x = BeforeDigest[a] /\ z = Image[a]
    OBVIOUS
<1>4. z = x \o d /\ IsSeq(x) /\ IsSeq(d) /\ d # <<>> /\ IsSeq(z)
  <2>1. PICK k, f, o, m : /\ k = Layout[a].keys /\ f = Layout[a].files
                          /\ o = Layout[a].objects /\ m = Layout[a].manifest
    OBVIOUS
  <2>2. ImageParts(a, k, f, o, m)
    BY <2>1, ImageIs
  <2>3. Image[a] = BeforeDigest[a] \o <<<<"digest">>>> /\ IsSeq(BeforeDigest[a]) /\ IsSeq(Image[a])
    BY <2>2 DEF ImageParts
  <2>4. IsSeq(d) /\ d # <<>>
    BY <1>1, SeqSingle
  <2> QED BY <1>1, <1>3, <2>3, <2>4
<1> DEFINE o1 == Destroy(overall)
           o2 == Take(overall)
           o3 == SyncWrite(file, Data(d))
           o4 == Destroy(file)
           o5 == [do |-> "end", p |-> None, result |-> "committed"]
<1>5. Moves(a, At(Below, x, left, FALSE), <<o1>>, At(l, x, overall, FALSE))
  <2>1. /\ Fits(a, overall) /\ In(a, overall) = x /\ Before(a, overall) = n /\ Out(a, overall) = x
        /\ Reader(a, overall) = file
    BY <1>1, <1>3, OverallFits
  <2>2. IsSink(overall) /\ overall # file
    BY DEF IsSink, overall, file
  <2>3. Moves(a, At(Append(l, overall), In(a, overall), left, FALSE), <<o1>>,
              At(l, Before(a, overall) \o Out(a, overall), overall, FALSE))
    BY <1>2, <2>1, <2>2, SinkCloses
  <2>4. n \o x = x
    BY <1>1, <1>4, SeqEmpty
  <2> QED BY <1>2, <2>1, <2>3, <2>4
<1>6. Moves(a, At(l, x, overall, FALSE), <<o2>>, At(l, x, overall, TRUE))
  <2>1. o2.do = "take" /\ o2.p = overall
    BY DEF Take, Op
  <2>2. PICK s : s = At(l, x, overall, FALSE)
    OBVIOUS
  <2>3. /\ s.stack = l /\ s.top = file /\ s.sent = x /\ s.phase = "open" /\ s.left = overall
        /\ s.summed = FALSE
    BY <1>2, <2>2 DEF At, State
  <2>4. At(l, x, overall, TRUE) = State(s.stack, s.top, s.sent, "open", s.left, s.summed \/ o2.p = overall)
    BY <1>2, <2>1, <2>3 DEF At
  <2>5. Takeable(overall)
    BY DEF Takeable
  <2> HIDE DEF o2
  <2>6. TakeRule(a, s, o2, At(l, x, overall, TRUE))
    BY <2>1, <2>3, <2>4, <2>5 DEF TakeRule
  <2> QED BY <2>2, <2>6, MovesOne DEF WriteStep
<1>7. In(a, file) = z
    BY <1>3, FileFits
<1>8. Moves(a, At(l, x, overall, TRUE), <<o3>>, At(l, z, overall, TRUE))
  <2>1. Begins(x \o d, In(a, file))
    BY <1>4, <1>7, BeginsSelf
  <2>2. Moves(a, At(l, x, overall, TRUE), <<o3>>, At(l, x \o d, overall, TRUE))
    BY <1>2, <1>4, <2>1, SinkGets
  <2> QED BY <1>4, <2>2
<1>9. PICK done : done = State(n, None, n, "open", file, TRUE)
    OBVIOUS
<1>10. Moves(a, At(l, z, overall, TRUE), <<o4>>, done)
  <2>1. o4.do = "destroy" /\ o4.p = file
    BY DEF Destroy, Op
  <2>2. PICK s : s = At(l, z, overall, TRUE)
    OBVIOUS
  <2>3. /\ s.stack = l /\ s.top = file /\ s.sent = z /\ s.phase = "open" /\ s.summed = TRUE
    BY <1>2, <2>2 DEF At, State
  <2>4. l # <<>> /\ Free(a, s, file)
    BY <1>2, <2>3, ChainFree DEF Chain
  <2>5. IsSink(file) /\ file[1] = "file"
    BY DEF IsSink, file
  <2>6. Removable(a, s, file)
    BY <1>1, <1>2, <2>3, <2>4, <2>5 DEF Removable
  <2>7. Ready(a, s, file)
    BY <1>7, <2>3, <2>5 DEF Ready
  <2>8. done = Gone(a, s, file)
    BY <1>1, <1>2, <1>9, <2>3, <2>5 DEF Gone
  <2> HIDE DEF o4
  <2>9. DestroyRule(a, s, o4, done)
    BY <2>1, <2>3, <2>6, <2>7, <2>8 DEF DestroyRule
  <2> QED BY <2>2, <2>9, MovesOne DEF WriteStep
<1>11. Moves(a, done, <<o5>>, Over)
  <2>1. /\ done.stack = n /\ done.phase = "open" /\ done.left = file /\ done.summed = TRUE
    BY <1>9 DEF State
  <2>2. Over = Now(done, "over")
    BY <1>1, <1>9 DEF Over
  <2>3. o5.do = "end" /\ o5.result = "committed"
    OBVIOUS
  <2> HIDE DEF o5
  <2>4. EndRule(a, done, o5, Over)
    BY <1>1, <2>1, <2>2, <2>3 DEF EndRule
  <2> QED BY <2>4, MovesOne DEF WriteStep
<1>12. EndWith("committed") = <<o5>>
    BY DEF EndWith
<1> HIDE DEF o1, o2, o3, o4, o5
<1>13. Moves(a, At(Below, x, left, FALSE), <<o1, o2>>, At(l, x, overall, TRUE))
  <2>1. Moves(a, At(Below, x, left, FALSE), <<o1>> \o <<o2>>, At(l, x, overall, TRUE))
    BY <1>5, <1>6, MovesConcat
  <2> QED BY <2>1, PairIs
<1>14. Moves(a, At(Below, x, left, FALSE), <<o1, o2, o3>>, At(l, z, overall, TRUE))
  <2>1. Moves(a, At(Below, x, left, FALSE), <<o1, o2>> \o <<o3>>, At(l, z, overall, TRUE))
    BY <1>8, <1>13, MovesConcat
  <2>2. <<o1, o2, o3>> = <<o1, o2>> \o <<o3>>
    OBVIOUS
  <2> QED BY <2>1, <2>2
<1>15. Moves(a, At(Below, x, left, FALSE), <<o1, o2, o3, o4>>, done)
  <2>1. Moves(a, At(Below, x, left, FALSE), <<o1, o2, o3>> \o <<o4>>, done)
    BY <1>10, <1>14, MovesConcat
  <2>2. <<o1, o2, o3, o4>> = <<o1, o2, o3>> \o <<o4>>
    OBVIOUS
  <2> QED BY <2>1, <2>2
<1>16. PICK c, e : c = <<o1, o2, o3, o4>> /\ e = <<o5>>
    OBVIOUS
<1>17. Moves(a, At(Below, x, left, FALSE), c \o e, Over)
    BY <1>11, <1>15, <1>16, MovesConcat
<1> QED BY <1>1, <1>3, <1>12, <1>16, <1>17 DEF Between, o1, o2, o3, o4

\* The writer as a sequential program does the whole of process.
LEMMA WriterMoves ==
    ASSUME NEW a \in Archives, a = archive
    PROVE  Moves(a, Outset, process, Over)
<1>1. PICK p, q, r : p = <<"counter", 1>> /\ q = <<"counter", 2>> /\ r = <<"counter", 3>>
    OBVIOUS
<1>2. PICK k, f, o, m : /\ k = Layout[a].keys /\ f = Layout[a].files
                        /\ o = Layout[a].objects /\ m = Layout[a].manifest
    OBVIOUS
<1>3. ImageParts(a, k, f, o, m)
    BY <1>2, ImageIs
<1>4. Before(a, q) = Before(a, p) \o SectionOf(a, 1) /\ Before(a, r) = Before(a, q) \o SectionOf(a, 2)
  <2>1. SectionOf(a, 1) = f /\ SectionOf(a, 2) = o
    BY <1>2 DEF SectionOf
  <2>2. Before(a, p) = k /\ Before(a, q) = k \o f /\ Before(a, r) = (k \o f) \o o
    BY <1>1, <1>3 DEF ImageParts
  <2> QED BY <2>1, <2>2
<1>5. PICK c1, c2, c3, c4, c5, c6 :
        /\ c1 = <<Construct("StdStreamSink", file, 0), ConstructOn("HashSink", overall, file)>>
        /\ c2 = create_and_save /\ c3 = add_files /\ c4 = add_base_objects /\ c5 = add_version_manifest
        /\ c6 = <<Destroy(overall), Take(overall), SyncWrite(file, Data(<<<<"digest">>>>)), Destroy(file)>>
                \o EndWith("committed")
    OBVIOUS
<1>6. Moves(a, Outset, c1 \o c2, Between(Before(a, p), None))
    BY <1>1, <1>5, BeginMoves
<1>7. Moves(a, Between(Before(a, p), None), c3, Between(Before(a, q), p))
    BY <1>1, <1>4, <1>5, FilesMoves
<1>8. Moves(a, Between(Before(a, q), p), c4, Between(Before(a, r), q))
    BY <1>1, <1>4, <1>5, ObjectsMoves
<1>9. Moves(a, Between(Before(a, r), q), c5, Between(BeforeDigest[a], r))
    BY <1>1, <1>5, ManifestMoves
<1>10. Moves(a, Between(BeforeDigest[a], r), c6, Over)
    BY <1>5, EndMoves
<1>11. Moves(a, Outset, (c1 \o c2) \o c3, Between(Before(a, q), p))
    BY <1>6, <1>7, MovesConcat
<1>12. Moves(a, Outset, ((c1 \o c2) \o c3) \o c4, Between(Before(a, r), q))
    BY <1>8, <1>11, MovesConcat
<1>13. Moves(a, Outset, (((c1 \o c2) \o c3) \o c4) \o c5, Between(BeforeDigest[a], r))
    BY <1>9, <1>12, MovesConcat
<1>14. Moves(a, Outset, ((((c1 \o c2) \o c3) \o c4) \o c5) \o c6, Over)
    BY <1>10, <1>13, MovesConcat
<1>15. process = ((((c1 \o c2) \o c3) \o c4) \o c5) \o c6
  <2>1. PICK x, y, z : /\ x = (((c1 \o c2) \o c3) \o c4) \o c5
                       /\ y = <<Destroy(overall), Take(overall), SyncWrite(file, Data(<<<<"digest">>>>)), Destroy(file)>>
                       /\ z = EndWith("committed")
    OBVIOUS
  <2>2. process = (x \o y) \o z
    BY <1>5, <2>1 DEF process
  <2>3. c6 = y \o z
    BY <1>5, <2>1
  <2>4. IsSeq(x) /\ IsSeq(y) /\ IsSeq(z)
    <3>1. IsSeq(x)
      BY <1>13, <2>1 DEF Moves
    <3>2. IsSeq(y)
      <4>1. PICK o1, o2, o3, o4 : /\ o1 = Destroy(overall) /\ o2 = Take(overall)
                                  /\ o3 = SyncWrite(file, Data(<<<<"digest">>>>)) /\ o4 = Destroy(file)
        OBVIOUS
      <4>2. y = <<o1, o2, o3, o4>>
        BY <2>1, <4>1
      <4>3. y = [i \in 1 .. 4 |-> y[i]]
        BY <4>2
      <4> QED BY <4>3, SeqMake
    <3>3. IsSeq(z)
      <4>1. PICK x1 : z = <<x1>>
        BY <2>1 DEF EndWith
      <4> QED BY <4>1, SeqSingle
    <3> QED BY <3>1, <3>2, <3>3
  <2>5. (x \o y) \o z = x \o (y \o z)
    BY <2>4, SeqAssoc
  <2> QED BY <2>1, <2>2, <2>3, <2>5
<1> QED BY <1>14, <1>15

-----------------------------------------------------------------------------
\* The specification.

\* What the main thread has left leads to the end, from where it is.
DataInv ==
    /\ TypeInv /\ ~exception
    /\ \E a : a = archive /\ a \in Archives /\ Resumes(a, Over)

LEMMA DataInit == Init(process) => DataInv
<1> SUFFICES ASSUME Init(process) PROVE DataInv
    OBVIOUS
<1>1. /\ archive \in Archives /\ InitPipeline /\ program = process /\ skip = 0 /\ outcome = "running"
      /\ DOMAIN taken = {}
    BY DEF Init
<1>2. Leads(<<>>, program, <<>>)
    BY <1>1, WriterLeads
<1>3. TypeInv
    BY <1>1, <1>2, StartOK
<1>4. /\ live = <<>> /\ DOMAIN proc = {} /\ DOMAIN queue = {} /\ DOMAIN contents = {} /\ ~exception
    BY <1>1 DEF InitPipeline
<1>5. PICK a : a = archive
    OBVIOUS
<1>6. Moves(a, Outset, program, Over)
    BY <1>1, <1>5, WriterMoves
<1>7. PICK s : s = Outset
    OBVIOUS
<1>8. /\ s.stack = <<>> /\ s.phase = "open" /\ s.left = None /\ s.summed = FALSE
    BY <1>7 DEF Outset, State
<1>9. Ran(live) = {}
    BY <1>4, SeqEmpty DEF Ran
<1>10. PICK e : e = [p \in {} |-> <<>>]
    OBVIOUS
<1>11. LiveShape(a, s)
    BY <1>4, <1>8, <1>9 DEF LiveShape
<1>12. Cells(a, e) /\ Links(a, e)
    BY <1>9 DEF Cells, Links
<1>13. TopOK(a, s, e)
    BY <1>4 DEF TopOK
<1>14. ResultsOK(a, s)
    BY <1>1, <1>8, <1>9 DEF ResultsOK
<1>15. None # file
    BY DEF None, file
<1>16. ContentsOK(a, s, e)
    BY <1>4, <1>8, <1>9, <1>15 DEF ContentsOK
<1>17. OutcomeOK(s)
    BY <1>1, <1>8 DEF OutcomeOK
<1>18. Flow(a, s, e)
    BY <1>11, <1>12, <1>13, <1>14, <1>16, <1>17 DEF Flow
<1> QED BY <1>1, <1>3, <1>4, <1>5, <1>6, <1>7, <1>18 DEF DataInv, Resumes

\* A worker leaves the path of the main thread alone.
LEMMA WorkerResumes ==
    ASSUME NothingThrows, NEW a, NEW u, Resumes(a, u), PipelineOK, ~exception, WorkerStep
    PROVE  Resumes(a, u)' /\ ~exception'
<1>1. PICK t, e, ops : ops = program /\ Moves(a, t, ops, u) /\ Flow(a, t, e)
    BY DEF Resumes
<1>2. PICK p \in DOMAIN proc : Worker(p) /\ UNCHANGED commandVars
    BY DEF WorkerStep, Workers
<1>3. (\E x : Flow(a, t, x)') /\ ~exception' /\ program' = program
    BY <1>1, <1>2, WorkerFlow
<1> QED BY <1>1, <1>3, ResumesAfter

LEMMA StutterResumes ==
    ASSUME NEW a, NEW u, Resumes(a, u), UNCHANGED vars
    PROVE  Resumes(a, u)'
<1>1. PICK t, e, ops : ops = program /\ Moves(a, t, ops, u) /\ Flow(a, t, e)
    BY DEF Resumes
<1>2. /\ live' = live /\ proc' = proc /\ queue' = queue /\ contents' = contents
      /\ results' = results /\ taken' = taken /\ outcome' = outcome /\ program' = program
    BY DEF vars, pipelineVars, commandVars
<1>3. Flow(a, t, e)'
  <2>1. LiveShape(a, t)' /\ OutcomeOK(t)'
    BY <1>1, <1>2 DEF Flow, LiveShape, OutcomeOK
  <2>2. Cells(a, e)'
    BY <1>1, <1>2 DEF Flow, Cells, Items
  <2>3. Links(a, e)'
    BY <1>1, <1>2 DEF Flow, Links, Items
  <2>4. TopOK(a, t, e)'
    BY <1>1, <1>2 DEF Flow, TopOK, Items
  <2>5. ResultsOK(a, t)'
    BY <1>1, <1>2 DEF Flow, ResultsOK
  <2>6. ContentsOK(a, t, e)'
    BY <1>1, <1>2 DEF Flow, ContentsOK, Whole
  <2> QED BY <2>1, <2>2, <2>3, <2>4, <2>5, <2>6 DEF Flow
<1> QED BY <1>1, <1>2, <1>3, ResumesAfter

LEMMA ArchiveStays ==
    ASSUME [Next]_vars
    PROVE  archive' = archive
BY DEF Next, MainStep, WorkerStep, ChooseFiles, Part, CheckSkip, TakeResult, End, commandVars, vars

LEMMA DataStep ==
    ASSUME NothingThrows, DataInv, [Next]_vars
    PROVE  DataInv'
<1>1. TypeInv /\ ~exception
    BY DEF DataInv
<1>2. PICK a : a = archive /\ a \in Archives /\ Resumes(a, Over)
    BY DEF DataInv
<1>3. TypeInv' /\ archive' = a
    BY <1>1, <1>2, StepKeeps, ArchiveStays
<1>4. PipelineOK /\ PipelineOK'
    BY <1>1, <1>3 DEF TypeInv
<1>5. Resumes(a, Over)' /\ ~exception'
  <2>1. CASE MainStep
    <3>1. PICK t, e, ops : ops = program /\ Moves(a, t, ops, Over) /\ Flow(a, t, e)
      BY <1>2 DEF Resumes
    <3>2. Moves(a, t, program, Over)
      BY <3>1
    <3> QED BY <1>1, <1>4, <2>1, <3>1, <3>2, MainFlow
  <2>2. CASE WorkerStep
    BY <1>1, <1>2, <1>4, <2>2, WorkerResumes
  <2>3. CASE UNCHANGED vars
    <3>1. exception' = exception
      BY <2>3 DEF vars, pipelineVars
    <3> QED BY <1>1, <1>2, <2>3, <3>1, StutterResumes
  <2> QED BY <2>1, <2>2, <2>3 DEF Next
<1>6. \E b : b = archive' /\ b \in Archives /\ Resumes(b, Over)'
    BY <1>2, <1>3, <1>5
<1> QED BY <1>3, <1>5, <1>6 DEF DataInv

LEMMA DataHolds ==
    ASSUME NothingThrows
    PROVE  WriterSpec => []DataInv
<1>1. DataInv /\ [Next]_vars => DataInv'
    BY DataStep
<1> QED BY <1>1, DataInit, PTL DEF WriterSpec

LEMMA ResultIs ==
    ASSUME NEW a, NEW p, Takeable(p)
    PROVE  Result(a, p) =
             CASE p = overall -> BeforeDigest[a]
               [] p[1] = "hash" -> a.files[p[2]]
               [] p[1] = "counter2" -> Len(a.objects[p[2]])
               [] p = <<"counter", 2>> -> Len(Layout[a].objects)
               [] OTHER -> Len(Layout[a].manifest)
<1>1. CASE p = overall
    BY <1>1 DEF Result, KindOf, Hashes, In, overall
<1>2. CASE p[1] = "hash"
    BY <1>2 DEF Result, KindOf, Hashes, In, overall
<1>3. CASE p[1] = "counter2"
    BY <1>3 DEF Result, KindOf, Hashes, In, overall
<1>4. CASE p = <<"counter", 2>>
    BY <1>4 DEF Result, KindOf, Hashes, In, overall, SectionOf
<1>5. CASE p = <<"counter", 3>>
    BY <1>5 DEF Result, KindOf, Hashes, In, overall, SectionOf
<1> QED BY <1>1, <1>2, <1>3, <1>4, <1>5 DEF Takeable

LEMMA DataResults ==
    ASSUME DataInv
    PROVE  ResultsExact
<1>1. PICK a, t, e : a = archive /\ Flow(a, t, e)
    BY DEF DataInv, Resumes
<1>2. \A p \in DOMAIN taken : Takeable(p) /\ taken[p] = Result(a, p)
    BY <1>1 DEF Flow, ResultsOK
<1>3. \A p \in DOMAIN taken : taken[p] =
             CASE p = overall -> BeforeDigest[a]
               [] p[1] = "hash" -> a.files[p[2]]
               [] p[1] = "counter2" -> Len(a.objects[p[2]])
               [] p = <<"counter", 2>> -> Len(Layout[a].objects)
               [] OTHER -> Len(Layout[a].manifest)
    BY <1>2, ResultIs
<1> QED BY <1>1, <1>3 DEF ResultsExact, Files, BaseObjects

LEMMA DataVerified ==
    ASSUME DataInv
    PROVE  VerifyDetectsLoss
<1> SUFFICES ASSUME outcome = "committed", verify(contents[file])
             PROVE  contents[file] = Image[archive]
    BY DEF VerifyDetectsLoss
<1>1. PICK a, t, e : a = archive /\ a \in Archives /\ Flow(a, t, e)
    BY DEF DataInv, Resumes
<1>2. t.left = file /\ t.summed
    BY <1>1 DEF Flow, OutcomeOK
<1>3. overall \in DOMAIN taken /\ taken[overall] = Result(a, overall)
    BY <1>1, <1>2 DEF Flow, ResultsOK
<1>4. taken[overall] = BeforeDigest[a]
  <2>1. Result(a, overall) = BeforeDigest[a]
    BY DEF Result, KindOf, Hashes, In, overall
  <2> QED BY <1>3, <2>1
<1>5. PICK b : b = contents[file]
    OBVIOUS
<1>6. IsSeq(b)
    BY <1>1, <1>2, <1>5 DEF Flow, ContentsOK
<1>7. b # <<>> /\ Last(b) = <<"digest">> /\ Front(b) = BeforeDigest[a]
    BY <1>4, <1>5 DEF verify
<1>8. b = Append(Front(b), Last(b))
    BY <1>6, <1>7, SeqFront
<1>9. Image[a] = Append(BeforeDigest[a], <<"digest">>)
    BY <1>1 DEF Image
<1> QED BY <1>1, <1>5, <1>7, <1>8, <1>9

\* ArchiveWriter, when no filter throws: the digest of each file, the sizes of
\* the objects and of the sections and the digest of the archive that the main
\* thread takes are those of everything that went through, for every archive,
\* capacity and segment size, in every interleaving of its threads.
THEOREM WriterResults ==
    ASSUME NothingThrows
    PROVE  WriterSpec => []ResultsExact
<1>1. DataInv => ResultsExact
    BY DataResults
<1> QED BY <1>1, DataHolds, PTL

\* The same, on a disk that loses any of the data that is written to it: what
\* was committed and passes verify is the whole archive.
THEOREM WriterVerifies ==
    ASSUME NothingThrows
    PROVE  WriterSpec => []VerifyDetectsLoss
<1>1. DataInv => VerifyDetectsLoss
    BY DataVerified
<1> QED BY <1>1, DataHolds, PTL

-----------------------------------------------------------------------------
\* The archive grows.

Written == IF file \in DOMAIN contents THEN contents[file] ELSE <<>>

LEMMA BeginsIs ==
    ASSUME NEW s, IsSeq(s), NEW t, Begins(s, t)
    PROVE  s = SubSeq(t, 1, Len(s)) /\ Len(s) \in 0 .. Len(t) /\ Len(t) \in Nat
<1>1. PICK x : IsSeq(x) /\ t = s \o x
    BY DEF Begins
<1>2. /\ IsSeq(t) /\ Len(t) = Len(s) + Len(x) /\ Len(s) \in Nat /\ Len(x) \in Nat
      /\ \A i \in 1 .. Len(s) : t[i] = s[i]
    BY <1>1, SeqConcat, SeqFacts
<1>3. PICK u, n : u = SubSeq(t, 1, n) /\ n = Len(s)
    OBVIOUS
<1>4. n \in 0 .. Len(t) /\ 1 \in 1 .. Len(t) + 1
    BY <1>2, <1>3
<1>5. /\ IsSeq(u) /\ Len(u) = n /\ \A i \in 1 .. n : u[i] = t[i]
  <2>1. IsSeq(u) /\ Len(u) = (n - 1) + 1 /\ \A i \in 1 .. Len(u) : u[i] = t[1 + (i - 1)]
    BY <1>2, <1>3, <1>4, SeqSub
  <2>2. \A i \in 1 .. n : 1 + (i - 1) = i
    BY <1>4
  <2> QED BY <1>2, <1>3, <2>1, <2>2
<1>6. s = u
    BY <1>2, <1>3, <1>5, SeqExt
<1> QED BY <1>2, <1>3, <1>4, <1>6

\* What is written is a part of the archive.
LEMMA WrittenBegins ==
    ASSUME Whole, NEW a \in Archives, NEW s, NEW rd, Flow(a, s, rd), PipelineOK
    PROVE  IsSeq(Written) /\ Begins(Written, Image[a])
<1>1. ContentsOK(a, s, rd)
    BY DEF Flow
<1>2. IsSeq(Image[a])
    BY FileFits DEF Fits
<1>3. CASE file \notin DOMAIN contents
    BY <1>2, <1>3, BeginsSelf, SeqEmpty DEF Written
<1>4. CASE file \in DOMAIN contents
  <2>1. Written = contents[file] /\ IsSeq(Written)
    BY <1>1, <1>4 DEF ContentsOK, Written
  <2>2. CASE s.left = file
    <3>1. Written = Image[a]
      BY <1>1, <2>1, <2>2 DEF ContentsOK
    <3> QED BY <1>2, <3>1, BeginsSelf
  <2>3. CASE file \in Ran(live)
    <3>1. /\ Cell(a, file, proc[file], rd[file], Items(Feed(file)))
          /\ file[1] # "std"
      BY <2>3, CellFacts DEF file
    <3>2. IsSeq(rd[file]) /\ IsSeq(Bytes(Items(Feed(file))))
      BY <2>3, <3>1, CellFacts
    <3>3. Begins(rd[file] \o Bytes(Items(Feed(file))), In(a, file))
      BY <3>1 DEF Cell, Consumer
    <3>4. PICK x, y, z : x = rd[file] /\ y = Bytes(Items(Feed(file))) /\ z = Image[a]
      OBVIOUS
    <3>5. Begins(x \o y, z)
      BY <3>3, <3>4, FileFits
    <3>6. Begins(x, z)
      BY <3>2, <3>4, <3>5, BeginsLonger
    <3>7. Written = x
      BY <1>1, <2>1, <2>3, <3>4 DEF ContentsOK
    <3> QED BY <2>1, <3>4, <3>6, <3>7
  <2> QED BY <1>1, <1>4, <2>2, <2>3 DEF ContentsOK
<1> QED BY <1>3, <1>4

\* It never gets shorter.
Longer == archive' = archive /\ outcome = "running" /\ outcome' = "running"
          /\ (Written' = Written \/ Written = <<>> \/ \E x : IsSeq(x) /\ Written' = Written \o x)

LEMMA LongerGrows ==
    ASSUME Longer, IsSeq(Written), IsSeq(Written'), Begins(Written', Image[archive])
    PROVE  Archive!Grow
<1>1. PICK s, t, b : s = Written /\ t = Written' /\ b = Image[archive]
    OBVIOUS
<1>2. Len(s) \in Nat /\ Len(t) \in Nat /\ Len(s) <= Len(t)
  <2>1. Len(s) \in Nat /\ Len(t) \in Nat
    BY <1>1, SeqFacts
  <2>2. CASE t = s
    BY <2>1, <2>2
  <2>3. CASE s = <<>>
    BY <2>1, <2>3
  <2>4. CASE \E x : IsSeq(x) /\ t = s \o x
    <3>1. PICK x : IsSeq(x) /\ t = s \o x
      BY <2>4
    <3>2. Len(t) = Len(s) + Len(x) /\ Len(x) \in Nat
      BY <1>1, <3>1, SeqConcat, SeqFacts
    <3> QED BY <2>1, <3>2
  <2> QED BY <1>1, <2>2, <2>3, <2>4 DEF Longer
<1>3. t = SubSeq(b, 1, Len(t)) /\ Len(t) \in 0 .. Len(b) /\ Len(b) \in Nat
    BY <1>1, BeginsIs
<1>4. PICK n : n = Len(t)
    OBVIOUS
<1>5. n \in Len(s) .. Len(b) /\ t = SubSeq(b, 1, n)
    BY <1>2, <1>3, <1>4
<1>6. \E m \in Len(Written) .. Len(Image[archive]) : Written' = SubSeq(Image[archive], 1, m)
    BY <1>1, <1>5
<1>7. outcome = "running" /\ outcome' = outcome /\ Image[archive]' = Image[archive]
    BY DEF Longer
<1> QED BY <1>6, <1>7 DEF Archive!Grow, Written

\* A worker adds to it, or does not touch it.
LEMMA WorkerLonger ==
    ASSUME MayFail = {}, NEW a, NEW s, NEW rd, Flow(a, s, rd), PipelineOK, WorkerStep
    PROVE  Longer
<1>1. PICK p \in DOMAIN proc : Worker(p) /\ UNCHANGED commandVars
    BY DEF WorkerStep, Workers
<1>2. p \in Ran(live) /\ live # <<>>
  <2>1. p \in Ran(live)
    BY <1>1 DEF PipelineOK, LiveOK
  <2> QED BY <2>1, SeqEmpty DEF Ran
<1>3. archive' = archive /\ outcome = "running" /\ outcome' = "running"
  <2>1. s.phase # "over"
    BY <1>2 DEF Flow, OutcomeOK
  <2>2. outcome = "running"
    BY <2>1 DEF Flow, OutcomeOK
  <2> QED BY <1>1, <2>2 DEF commandVars
<1>4. CASE contents' = contents
    BY <1>3, <1>4 DEF Longer, Written
<1>5. CASE Read(p) /\ proc[p].kind = "StdStreamSink"
  <2>1. proc[p].kind = KindOf(p) /\ IsName(p) /\ Cell(a, p, proc[p], rd[p], Items(Feed(p)))
    BY <1>2, CellFacts
  <2>2. p = file
    BY <1>5, <2>1, KindFacts
  <2>3. PICK x : x = NextSegment(p)
    OBVIOUS
  <2>4. p[1] # "std" /\ Items(Feed(p)) # <<>> /\ x = Items(Feed(p))[1]
    BY <1>2, <1>5, <2>3, WorkerInput DEF Read
  <2>5. AreSegments(Items(Feed(p)))
    BY <1>2, LiveFacts
  <2>6. IsSegment(x)
    <3>1. PICK i : i = Items(Feed(p))
      OBVIOUS
    <3>2. AreSegments(i) /\ i # <<>> /\ x = i[1]
      BY <2>4, <2>5, <3>1
    <3> QED BY <3>2, TailOfSegments
  <2>7. IsSeq(x.data)
    BY <2>6, SegmentFacts
  <2>8. file \in DOMAIN contents
    BY <1>2, <2>2 DEF Flow, ContentsOK
  <2>9. contents' = With(contents, file, contents[file] \o x.data)
    BY <1>5, <2>2, <2>3 DEF Read
  <2>10. contents'[file] = contents[file] \o x.data /\ file \in DOMAIN contents'
    BY <2>9 DEF With
  <2>11. PICK y : y = x.data
    OBVIOUS
  <2>12. Written' = Written \o y
    BY <2>8, <2>10, <2>11 DEF Written
  <2> QED BY <1>3, <2>7, <2>11, <2>12 DEF Longer
<1>6. contents' = contents \/ (Read(p) /\ proc[p].kind = "StdStreamSink")
    BY <1>1 DEF Worker, BeginWork, EndWork, Read, ReadFlush, Write, Fail, LoseData
<1> QED BY <1>4, <1>5, <1>6

\* So does the main thread, until it commits what is whole.
LEMMA MainLonger ==
    ASSUME MayFail = {}, NEW a, a = archive, NEW u, NEW s, NEW rd, Moves(a, s, program, u), Flow(a, s, rd),
           PipelineOK, MainStep, archive' = archive
    PROVE  Longer \/ Archive!Commit
<1>0. program # <<>>
    BY DEF MainStep, MainThread, ConstructAlone, ConstructSink, ConstructSource, copy_to, NewPipeline,
           StartThrows, StartAll, PushSegment, SynchronousWrite, SynchronousRead, FillBuffer,
           DestroyStream, flush, Await, stop, join, Detach, ChooseFiles, Part, CheckSkip, TakeResult,
           End, Doing
<1>1. PICK op : op = program[1]
    OBVIOUS
<1>2. PICK t : WriteStep(a, s, op, t)
    BY <1>0, <1>1, FirstMove
<1>3. ASSUME NEW do, Doing(do) PROVE op.do = do
    BY <1>1, <1>3 DEF Doing
<1>4. s.phase # "over"
    BY <1>2 DEF WriteStep, FileRule, StdRule, SinkRule, HashRule, CopyRule, StartRule, JoinRule,
                WriteRule, DataRule, EofRule, FlushRule, StopRule, DetachRule, DestroyRule, TakeRule, EndRule
<1>5. outcome = "running"
    BY <1>4 DEF Flow, OutcomeOK
<1>9. /\ ~SynchronousRead /\ ~FillBuffer /\ ~ChooseFiles /\ ~Part /\ ~CheckSkip
  <2>1. \A do : Doing(do) => op.do = do
    BY <1>3
  <2>2. ~Doing("sync_read") /\ ~Doing("fill") /\ ~Doing("choose") /\ ~Doing("part") /\ ~Doing("check_skip")
    BY <1>2, <2>1, WhichRule
  <2> QED BY <2>2 DEF SynchronousRead, FillBuffer, ChooseFiles, Part, CheckSkip
<1>10. ASSUME Doing("construct") \/ Doing("end") \/ Doing("throw") PROVE ~Doing("take")
    BY <1>3, <1>10
<1>6. CASE End
  <2>1. Doing("end") \/ Doing("throw")
    BY <1>6 DEF End
  <2>2. op.do = "end"
    BY <1>2, <1>3, <2>1, WhichRule
  <2>3. EndRule(a, s, op, t)
    BY <1>2, <2>2, WhichRule
  <2>4. op.result = "committed" /\ s.left = file
    BY <2>3 DEF EndRule
  <2>5. ~Doing("throw")
    BY <1>3, <2>2
  <2>6. outcome' = "committed" /\ contents' = contents
    BY <1>1, <1>6, <2>4, <2>5 DEF End
  <2>7. file \in DOMAIN contents /\ contents[file] = Image[a]
    BY <2>4 DEF Flow, ContentsOK, Whole
  <2>8. Written = Image[archive] /\ Written' = Written
    BY <2>6, <2>7 DEF Written
  <2> QED BY <1>5, <2>6, <2>8 DEF Archive!Commit, Written
<1>7. CASE ConstructAlone /\ UNCHANGED commandVars
  <2>1. Doing("construct")
    BY <1>7 DEF ConstructAlone
  <2>2. FileRule(a, s, op, t) \/ StdRule(a, s, op, t)
    BY <1>2, <1>3, <2>1, WhichRule
  <2>3. outcome' = "running"
    BY <1>5, <1>7 DEF commandVars
  <2>4. CASE FileRule(a, s, op, t)
    <3>1. s.stack = <<>> /\ s.left # file
      BY <2>4 DEF FileRule
    <3>2. Ran(live) = {}
      BY <3>1, SeqEmpty DEF Flow, LiveShape, Ran
    <3>3. Written = <<>>
      BY <3>1, <3>2 DEF Flow, ContentsOK, Written
    <3> QED BY <1>5, <2>3, <3>3 DEF Longer
  <2>5. CASE StdRule(a, s, op, t)
    <3>1. op.kind = "StdStreamSource"
      BY <2>5 DEF StdRule
    <3>2. contents' = contents
      BY <1>1, <1>7, <3>1 DEF ConstructAlone
    <3>3. Written' = Written
      BY <3>2 DEF Written
    <3> QED BY <1>5, <2>3, <3>3 DEF Longer
  <2> QED BY <2>2, <2>4, <2>5
<1>8. CASE ~End /\ ~ConstructAlone
  <2>2. contents' = contents /\ outcome' = outcome
    BY <1>8, <1>9 DEF MainStep, MainThread, ConstructSink, ConstructSource, copy_to, NewPipeline,
           StartThrows, StartAll, PushSegment, SynchronousWrite,
           DestroyStream, flush, Await, stop, join, Detach, TakeResult, commandVars
  <2>3. Written' = Written
    BY <2>2 DEF Written
  <2> QED BY <1>5, <2>2, <2>3 DEF Longer
<1>11. ConstructAlone => ~TakeResult
    BY <1>10 DEF ConstructAlone, TakeResult
<1>12. End \/ TakeResult \/ (MainThread /\ UNCHANGED commandVars)
    BY <1>9 DEF MainStep
<1> QED BY <1>6, <1>7, <1>8, <1>11, <1>12

WrittenPart == IsSeq(Written) /\ Begins(Written, Image[archive])

LEMMA DataPart ==
    ASSUME MayFail = {}, DataInv
    PROVE  WrittenPart
<1>1. PICK a, s, rd : a = archive /\ a \in Archives /\ Flow(a, s, rd)
    BY DEF DataInv, Resumes
<1>2. PipelineOK
    BY DEF DataInv, TypeInv
<1>3. Whole
    BY DEF Whole
<1> QED BY <1>1, <1>2, <1>3, WrittenBegins DEF WrittenPart

LEMMA DataGrows ==
    ASSUME MayFail = {}, DataInv, WrittenPart, WrittenPart', [Next]_vars
    PROVE  [Archive!Next]_<<Image[archive], Written, outcome>>
<1>1. PICK a : a = archive /\ a \in Archives /\ Resumes(a, Over)
    BY DEF DataInv
<1>2. archive' = a
    BY <1>1, ArchiveStays
<1>3. PICK s, rd, ops : ops = program /\ Moves(a, s, ops, Over) /\ Flow(a, s, rd)
    BY <1>1 DEF Resumes
<1>4. Moves(a, s, program, Over) /\ PipelineOK
    BY <1>3 DEF DataInv, TypeInv
<1>6. IsSeq(Written) /\ IsSeq(Written') /\ Begins(Written', Image[a])
    BY <1>2 DEF WrittenPart
<1>8. CASE Longer
    BY <1>1, <1>6, <1>8, LongerGrows DEF Archive!Next
<1>9. CASE MainStep
  <2>1. Longer \/ Archive!Commit
    BY <1>1, <1>2, <1>3, <1>4, <1>9, MainLonger
  <2> QED BY <1>8, <2>1 DEF Archive!Next
<1>10. CASE WorkerStep
    BY <1>3, <1>4, <1>8, <1>10, WorkerLonger
<1>11. CASE UNCHANGED vars
  <2>1. contents' = contents /\ outcome' = outcome /\ archive' = archive
    BY <1>11 DEF vars, pipelineVars, commandVars
  <2> QED BY <2>1 DEF Written
<1> QED BY <1>9, <1>10, <1>11 DEF Next

\* When nothing fails the file is, at all times and in every interleaving, a
\* part of the archive it has to be that never gets shorter, and the main
\* thread commits it when it is all of that.
THEOREM WriterIsArchiveFile ==
    ASSUME MayFail = {}
    PROVE  WriterSpec => Archive!Safety
<1>1. NothingThrows
    BY DEF NothingThrows
<1>2. WriterSpec => []DataInv
    BY <1>1, DataHolds
<1>3. Init(process) => Archive!Init
  <2> SUFFICES ASSUME Init(process) PROVE Archive!Init
    OBVIOUS
  <2>1. DOMAIN contents = {} /\ outcome = "running"
    BY DEF Init, InitPipeline
  <2> QED BY <2>1 DEF Archive!Init
<1>4. DataInv => WrittenPart
    BY DataPart
<1>5. DataInv /\ WrittenPart /\ WrittenPart' /\ [Next]_vars
      => [Archive!Next]_<<Image[archive], Written, outcome>>
    BY DataGrows
<1> QED BY <1>2, <1>3, <1>4, <1>5, PTL DEF WriterSpec, Archive!Safety, Written
=============================================================================

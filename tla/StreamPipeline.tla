--------------------------- MODULE StreamPipeline ---------------------------
(***************************************************************************)
(* The stream processors of zekvok (StreamProcessor.cpp and the filters):  *)
(* threads that read segments from a bounded queue and write segments to   *)
(* the next one.  The main thread connects them, starts those of its       *)
(* pipeline, joins them and destroys them in reverse order.                *)
(*                                                                         *)
(* What the main thread has left to do is a sequence of operations,        *)
(* "program"; the modules that build archives and read them provide it.    *)
(* The queues are those of module CircularQueue, the threads those of      *)
(* ThreadPool, both taken at their word.  Bytes are tokens.                *)
(***************************************************************************)
EXTENDS Naturals, Sequences, SequencesExt

CONSTANTS
    capacity,       \* segments a Queue holds; 16 in the code
    SegmentSize,    \* tokens a StdStreamSource reads at once
    BufferSize,     \* tokens the stream of a SynchronousSource asks for at once
    MayFail         \* kinds of processors whose work may throw, or lose data

ASSUME CapacityAssumption == capacity \in Nat \ {0}
ASSUME SizesAssumption == SegmentSize \in Nat \ {0} /\ BufferSize \in Nat \ {0}

VARIABLES
    program,    \* operations of the main thread
    live,       \* its Stream objects, oldest first
    proc,       \* name -> stream processor
    queue,      \* name -> the Queue before a sink, or behind a source
    exception,  \* StreamPipeline::exception_message is set
    contents,   \* name -> what a StdStreamSink has written to its file, or a
                \* SynchronousSource has read
    results     \* name -> digest or byte count a processor leaves behind

pipelineVars == <<program, live, proc, queue, exception, contents, results>>

None == <<"none", 0>>
NoQueue == None
Data(d) == [type |-> "Data", data |-> d]
Eof == [type |-> "Eof", data |-> <<>>]
Flush == [type |-> "Flush", data |-> <<>>]

SinkKinds == {"StdStreamSink", "HashSink", "ByteCounterSink", "CryptoSink",
              "LzmaSink", "NullSink"}
Hashes == {"HashSource", "HashSink"}

\* f with p mapped to x.
With(f, p, x) == [q \in DOMAIN f \cup {p} |-> IF q = p THEN x ELSE f[q]]
Without(f, p) == [q \in DOMAIN f \ {p} |-> f[q]]

\* A processor; arg is the file of a StdStreamSource, the length of a
\* BoundedSource.
NewProcessor(kind, arg) ==
    [kind |-> kind, arg |-> arg, state |-> "Uninitialized",
     source_queue |-> NoQueue, sink_queue |-> NoQueue,
     pass_eof |-> TRUE, stop_requested |-> FALSE, ready |-> FALSE,
     buffer |-> <<>>, bytes |-> 0, bytes_written |-> 0, out |-> <<>>, done |-> FALSE]
-----------------------------------------------------------------------------
\* What the filters do with a segment: the processors they may become, "out"
\* holding what they are going to write, and "done" set when work returns.

Ended(r, out) == [r EXCEPT !.out = out, !.done = TRUE]

\* LzmaSink and CryptoSink encode every token, and mark the end.
Encoded(kind, d) == [i \in DOMAIN d |-> <<kind, d[i]>>]
EndMark(kind) == <<kind, <<"end">>>>

HashFilter_work(r, s) ==
    IF s = Eof THEN {Ended(r, <<Eof>>)}
    ELSE {[r EXCEPT !.buffer = @ \o s.data, !.out = <<s>>]}

ByteCounterSink_work(r, s) ==
    IF s = Eof THEN {Ended(r, <<Eof>>)}
    ELSE {[r EXCEPT !.bytes = @ + Len(s.data), !.out = <<s>>]}

\* A filter holds data back until it has a full segment, or writes it.
Holding(r, buffer) ==
    {[r EXCEPT !.buffer = buffer]} \cup
    (IF buffer = <<>> THEN {}
     ELSE {[r EXCEPT !.buffer = <<>>, !.out = <<Data(buffer)>>]})

\* LzmaSink::work and flush_impl; CryptoSink does the same with its filter.
LzmaSink_work(r, s) ==
    IF s = Eof THEN {Ended(r, <<Data(Append(r.buffer, EndMark(r.kind))), Eof>>)}
    ELSE Holding(r, r.buffer \o Encoded(r.kind, s.data))

\* The encoded tokens of kind up to the mark, decoded.
Decoded(kind, d) ==
    LET n == SelectInSeq(d, LAMBDA t : t[1] # kind \/ t = EndMark(kind))
    IN  [i \in 1 .. (IF n = 0 THEN Len(d) ELSE n - 1) |-> d[i][2]]

\* LzmaSource ends at the mark; a stream that ends before it, or that is no
\* .xz stream, makes it throw.
LzmaSource_work(r, s) ==
    LET decoded == Decoded("LzmaSink", s.data)
        buffer == r.buffer \o decoded
        rest == SubSeq(s.data, Len(decoded) + 1, Len(s.data))
    IN  IF s = Eof THEN {[r EXCEPT !.state = "Throwing"]}
        ELSE IF rest = <<>> THEN Holding(r, buffer)
        ELSE IF rest[1] = EndMark("LzmaSink") THEN {Ended(r, <<Data(buffer), Eof>>)}
        ELSE {[r EXCEPT !.state = "Throwing"]}

\* CryptoSource writes what its filter gives, the rest of it at the end.
CryptoSource_work(r, s) ==
    IF s = Eof THEN {Ended(r, <<Data(r.buffer), Eof>>)}
    ELSE Holding(r, r.buffer \o Decoded("CryptoSink", s.data))

\* The length that is still to come.
Remaining(r) == r.arg - r.bytes

\* BoundedSource: the part of a segment that is beyond its length is put back
\* to the queue it was read from.
BoundedSource_work(r, s) ==
    IF s = Eof THEN {Ended(r, <<Eof, Eof>>)}
    ELSE IF Len(s.data) < Remaining(r)
    THEN {[r EXCEPT !.bytes = @ + Len(s.data), !.out = <<s>>]}
    ELSE {Ended([r EXCEPT !.bytes = r.arg,
                          !.buffer = SubSeq(s.data, Remaining(r) + 1, Len(s.data))],
                <<Data(SubSeq(s.data, 1, Remaining(r))), Eof>>)}

work(r, s) ==
    CASE r.kind \in Hashes -> HashFilter_work(r, s)
      [] r.kind = "ByteCounterSink" -> ByteCounterSink_work(r, s)
      [] r.kind \in {"LzmaSink", "CryptoSink"} -> LzmaSink_work(r, s)
      [] r.kind = "LzmaSource" -> LzmaSource_work(r, s)
      [] r.kind = "CryptoSource" -> CryptoSource_work(r, s)
      [] r.kind = "BoundedSource" -> BoundedSource_work(r, s)
      [] OTHER -> IF s = Eof THEN {Ended(r, <<>>)} ELSE {r}

\* StdStreamSource::work reads its file segment by segment.
Segments(d) ==
    [i \in 1 .. (Len(d) + SegmentSize - 1) \div SegmentSize |->
        Data(SubSeq(d, (i - 1) * SegmentSize + 1,
                    IF i * SegmentSize > Len(d) THEN Len(d) ELSE i * SegmentSize))]
-----------------------------------------------------------------------------
\* A worker: StreamProcessor::thread_func around work.

Working(p) == proc[p].state = "Running"

\* thread_func sets the state; a StdStreamSource is ready to write its file,
\* and a BoundedSource of length 0 only the end.
BeginWork(p) ==
    /\ proc[p].state = "Starting"
    /\ proc' = [proc EXCEPT ![p] =
            LET r == [@ EXCEPT !.state = "Running"]
            IN  CASE r.kind = "StdStreamSource" -> Ended(r, Append(Segments(r.arg), Eof))
                  [] r.kind = "BoundedSource" /\ r.arg = 0 -> Ended(r, <<Eof>>)
                  [] OTHER -> r]
    /\ UNCHANGED <<program, live, queue, exception, contents, results>>

\* The segment read() returns next: one that was put back comes first, and
\* there is an Eof when the processor was asked to stop and nothing is there.
CanRead(p) == Working(p) /\ proc[p].out = <<>> /\ ~proc[p].done
Source(p) == proc[p].source_queue
HasInput(p) == Source(p) # NoQueue /\ queue[Source(p)].putback \o queue[Source(p)].items # <<>>
NextSegment(p) ==
    LET q == queue[Source(p)]
    IN  IF ~HasInput(p) THEN Eof ELSE IF q.putback # <<>> THEN Last(q.putback) ELSE q.items[1]
Popped(q) ==
    IF q.putback # <<>> THEN [q EXCEPT !.putback = Front(@)] ELSE [q EXCEPT !.items = Tail(@)]

\* HashFilter_work calls Final at the end; a byte count is kept up to date.
ResultOf(r) == IF r.kind \in Hashes THEN r.buffer ELSE r.bytes
LeavesResult(r) ==
    \/ r.kind \in Hashes /\ r.done
    \/ r.kind = "ByteCounterSink"

\* read() and what work does with the segment, up to the next read or write.
Read(p) ==
    /\ CanRead(p)
    /\ HasInput(p) \/ proc[p].stop_requested
    /\ NextSegment(p) # Flush
    /\ \E r \in work(proc[p], NextSegment(p)) :
          LET throws == r.state = "Throwing"
              put_back == r.kind = "BoundedSource" /\ r.buffer # <<>>
              popped == Popped(queue[Source(p)])
          IN  /\ proc' = [proc EXCEPT ![p] = [r EXCEPT !.state = IF throws THEN "Completed" ELSE @]]
              /\ exception' = (exception \/ throws)
              /\ results' = IF LeavesResult(r) THEN With(results, p, ResultOf(r)) ELSE results
              /\ queue' = IF ~HasInput(p) THEN queue
                          ELSE [queue EXCEPT ![Source(p)] =
                                IF put_back THEN [popped EXCEPT !.putback = Append(@, Data(r.buffer))]
                                ELSE popped]
    /\ contents' = IF proc[p].kind # "StdStreamSink" THEN contents
                   ELSE With(contents, p, contents[p] \o NextSegment(p).data)
    /\ UNCHANGED <<program, live>>

\* read() on a flush command: flush_impl, which has nothing to add here, and
\* the callback.
ReadFlush(p) ==
    /\ CanRead(p)
    /\ HasInput(p) /\ NextSegment(p) = Flush
    /\ proc' = [proc EXCEPT ![p].ready = TRUE]
    /\ queue' = [queue EXCEPT ![Source(p)] = Popped(@)]
    /\ UNCHANGED <<program, live, exception, contents, results>>

\* Mutant: the bound of the queue is not looked at.
Write_NoRoom(p) ==
    LET r == proc[p]
        s == r.out[1]
        dropped == s = Eof /\ ~r.pass_eof
    IN  /\ Working(p)
        /\ r.out # <<>>
        /\ proc' = [proc EXCEPT ![p].out = Tail(@)]
        /\ queue' = IF dropped THEN queue
                    ELSE [queue EXCEPT ![r.sink_queue].items = Append(@, s)]
        /\ UNCHANGED <<program, live, exception, contents, results>>

\* write(): an Eof may not be passed on; a processor that was asked to stop
\* ends with its next write, even one that has no room.
Write(p) ==
    LET r == proc[p]
        s == r.out[1]
        dropped == s = Eof /\ ~r.pass_eof
        room == r.sink_queue # NoQueue /\ Len(queue[r.sink_queue].items) < capacity
    IN  /\ Working(p)
        /\ r.out # <<>>
        /\ dropped \/ room \/ r.stop_requested
        /\ proc' = [proc EXCEPT ![p] =
                [r EXCEPT !.out = Tail(@),
                          !.bytes_written = IF room THEN @ + Len(s.data) ELSE @,
                          !.state = IF ~dropped /\ r.stop_requested THEN "Completed" ELSE @]]
        /\ queue' = IF dropped \/ ~room THEN queue
                    ELSE [queue EXCEPT ![r.sink_queue].items = Append(@, s)]
        /\ UNCHANGED <<program, live, exception, contents, results>>

EndWork(p) ==
    /\ Working(p) /\ proc[p].done /\ proc[p].out = <<>>
    /\ proc' = [proc EXCEPT ![p].state = "Completed"]
    /\ UNCHANGED <<program, live, queue, exception, contents, results>>

\* The work of a filter throws, and set_exception_message keeps the message
\* for the main thread.
Fail(p) ==
    /\ CanRead(p) /\ HasInput(p)
    /\ proc[p].kind \in MayFail \ {"StdStreamSink"}
    /\ proc' = [proc EXCEPT ![p].state = "Completed"]
    /\ queue' = [queue EXCEPT ![Source(p)] = Popped(@)]
    /\ exception' = TRUE
    /\ UNCHANGED <<program, live, contents, results>>

\* StdStreamSink::work does not look at the state of its stream.
LoseData(p) ==
    /\ CanRead(p) /\ HasInput(p)
    /\ proc[p].kind \in MayFail \cap {"StdStreamSink"}
    /\ NextSegment(p).type = "Data"
    /\ queue' = [queue EXCEPT ![Source(p)] = Popped(@)]
    /\ UNCHANGED <<program, live, proc, exception, contents, results>>

Worker(p) ==
    \/ BeginWork(p) \/ EndWork(p)
    \/ Read(p) \/ ReadFlush(p) \/ Write(p)
    \/ Fail(p) \/ LoseData(p)
-----------------------------------------------------------------------------
\* The main thread.  An operation is a record: what it does, with the processor
\* p, and further arguments.

Op(do, p) == [do |-> do, p |-> p]
Construct(kind, p, arg) == [do |-> "construct", p |-> p, kind |-> kind, arg |-> arg]
ConstructOn(kind, p, sink) == [do |-> "construct_on", p |-> p, kind |-> kind, sink |-> sink]
ConstructFrom(kind, p, source, arg) ==
    [do |-> "construct_from", p |-> p, kind |-> kind, source |-> source, arg |-> arg]
CopyTo(p, sink) == [do |-> "copy_to", p |-> p, sink |-> sink]
Start == Op("start", None)
Push(p, segment) == [do |-> "push", p |-> p, segment |-> segment]
SyncWrite(p, segment) == [do |-> "sync_write", p |-> p, segment |-> segment]
SyncRead(p, n, name) == [do |-> "sync_read", p |-> p, length |-> n, name |-> name]
Destroy(p) == Op("destroy", p)

Doing(do) == program # <<>> /\ program[1].do = do
Argument == program[1].p
Continue == program' = Tail(program)
\* The operation consists of these.
Expand(ops) == program' = ops \o Tail(program)

\* CONNECT_SOURCE_SINK: the queue of the processor that is there already is
\* used again.
Connected(procs, source, sink, name) ==
    [procs EXCEPT ![source].sink_queue = name, ![sink].source_queue = name]
Joined(name) ==
    With(queue, name, [items |-> IF name \in DOMAIN queue THEN queue[name].items ELSE <<>>,
                       putback |-> IF name \in DOMAIN queue THEN queue[name].putback ELSE <<>>,
                       source |-> TRUE])

\* The constructor of a source of data or of the last sink of a chain.
ConstructAlone ==
    /\ Doing("construct")
    /\ proc' = With(proc, Argument, NewProcessor(program[1].kind, program[1].arg))
    /\ contents' = IF program[1].kind = "StdStreamSink" THEN With(contents, Argument, <<>>)
                   ELSE contents
    /\ live' = Append(live, Argument)
    /\ Continue
    /\ UNCHANGED <<queue, exception, results>>

\* Sink(Sink &): the new sink writes to the other one, all but the Eof.
ConstructSink ==
    /\ Doing("construct_on")
    /\ LET new == [NewProcessor(program[1].kind, 0) EXCEPT !.pass_eof = FALSE]
           sink == program[1].sink
       IN  /\ proc' = Connected(With(proc, Argument, new), Argument, sink, sink)
           /\ queue' = Joined(sink)
           /\ results' = IF new.kind = "ByteCounterSink" THEN With(results, Argument, 0)
                         ELSE results
    /\ live' = Append(live, Argument)
    /\ Continue
    /\ UNCHANGED <<exception, contents>>

\* Source(Source &): the new source reads from the other one.
ConstructSource ==
    /\ Doing("construct_from")
    /\ LET source == program[1].source
       IN  /\ proc' = Connected(With(proc, Argument, NewProcessor(program[1].kind, program[1].arg)),
                                source, Argument, source)
           /\ queue' = Joined(source)
    /\ live' = Append(live, Argument)
    /\ Continue
    /\ UNCHANGED <<exception, contents, results>>

\* Mutant: it is the source behind that keeps its Eof to itself.
copy_to_WrongEof ==
    /\ Doing("copy_to")
    /\ LET sink == program[1].sink
       IN  /\ proc' = Connected([proc EXCEPT ![proc[Argument].source_queue].pass_eof = FALSE],
                               Argument, sink, sink)
           /\ queue' = Joined(sink)
    /\ Expand(<<Start, Op("join", Argument)>>)
    /\ UNCHANGED <<live, exception, contents, results>>

\* Source::copy_to
copy_to ==
    /\ Doing("copy_to")
    /\ LET sink == program[1].sink
       IN  /\ proc' = Connected([proc EXCEPT ![Argument].pass_eof = FALSE], Argument, sink, sink)
           /\ queue' = Joined(sink)
    /\ Expand(<<Start, Op("join", Argument)>>)
    /\ UNCHANGED <<live, exception, contents, results>>

Started(r) == IF r.state = "Uninitialized" THEN [r EXCEPT !.state = "Starting"] ELSE r

\* An exception in the main thread: the destructors run.
Unwind == program' = Reverse([i \in DOMAIN live |-> Destroy(live[i])]) \o <<Op("throw", None)>>

\* A pipeline of its own for the next processors.
NewPipeline ==
    /\ Doing("pipeline")
    /\ exception' = FALSE
    /\ Continue
    /\ UNCHANGED <<live, proc, queue, contents, results>>

\* StreamPipeline::start throws the exception of a worker (which stays set:
\* boost::optional keeps what it was moved from) ...
StartThrows ==
    /\ Doing("start")
    /\ exception
    /\ Unwind
    /\ UNCHANGED <<live, proc, queue, exception, contents, results>>

\* ... or starts every processor that has not been started.
StartAll ==
    /\ Doing("start")
    /\ ~exception
    /\ proc' = [p \in DOMAIN proc |-> Started(proc[p])]
    /\ Continue
    /\ UNCHANGED <<live, queue, exception, contents, results>>

\* StreamProcessor::write and Queue::push by the main thread wait for room.
PushSegment ==
    /\ Doing("push")
    /\ Len(queue[Argument].items) < capacity
    /\ queue' = [queue EXCEPT ![Argument].items = Append(@, program[1].segment)]
    /\ Continue
    /\ UNCHANGED <<live, proc, exception, contents, results>>

\* Mutant: the exception is forgotten once it was thrown.
SynchronousWrite_Forgets ==
    /\ Doing("sync_write")
    /\ proc' = [p \in DOMAIN proc |->
            LET r == IF p = Argument THEN [proc[p] EXCEPT !.source_queue = Argument] ELSE proc[p]
            IN  IF exception THEN r ELSE Started(r)]
    /\ queue' = [Joined(Argument) EXCEPT ![Argument].source = FALSE]
    /\ IF exception THEN Continue ELSE Expand(<<Push(Argument, program[1].segment)>>)
    /\ exception' = FALSE
    /\ UNCHANGED <<live, contents, results>>

\* A boost stream on a SynchronousSink: constructed, written to once and
\* destroyed.  The boost stream keeps what start() throws to itself.
SynchronousWrite ==
    /\ Doing("sync_write")
    /\ proc' = [p \in DOMAIN proc |->
            LET r == IF p = Argument THEN [proc[p] EXCEPT !.source_queue = Argument] ELSE proc[p]
            IN  IF exception THEN r ELSE Started(r)]
    /\ queue' = [Joined(Argument) EXCEPT ![Argument].source = FALSE]
    /\ IF exception THEN Continue ELSE Expand(<<Push(Argument, program[1].segment)>>)
    /\ UNCHANGED <<live, exception, contents, results>>

\* A boost stream on a SynchronousSource, from which an object of the length is
\* deserialized: the stream fills its buffer as often as that takes.
SynchronousRead ==
    /\ Doing("sync_read")
    /\ proc' = [proc EXCEPT ![Argument].sink_queue = Argument]
    /\ queue' = Joined(Argument)
    /\ contents' = With(contents, program[1].name, <<>>)
    /\ Expand(<<Start, [program[1] EXCEPT !.do = "fill"]>>)
    /\ UNCHANGED <<live, exception, results>>

\* Mutant: what one segment holds is taken for all that is there.
FillBuffer_OneSegment ==
    /\ Doing("fill")
    /\ queue[Argument].items # <<>>
    /\ queue' = [queue EXCEPT ![Argument] = Popped(@)]
    /\ contents' = With(contents, program[1].name,
                        contents[program[1].name] \o queue[Argument].items[1].data)
    /\ Continue
    /\ UNCHANGED <<live, proc, exception, results>>

\* SynchronousSourceImpl::read: segments until the buffer is full, or the Eof,
\* before which the object has to be there.
FillBuffer ==
    LET length == program[1].length
        segment == queue[Argument].items[1]
        got == contents[program[1].name] \o segment.data
    IN  /\ Doing("fill")
        /\ queue[Argument].items # <<>>
        /\ queue' = [queue EXCEPT ![Argument] = Popped(@)]
        /\ contents' = With(contents, program[1].name, got)
        /\ IF segment = Eof /\ Len(got) < length THEN Unwind
           ELSE IF segment = Eof \/ (Len(got) >= length /\ Len(got) % BufferSize = 0)
           THEN Continue ELSE UNCHANGED program
        /\ UNCHANGED <<live, proc, exception, results>>

\* ~Stream and ~StreamProcessor: a Sink is flushed first, a Source stopped.
DestroyStream ==
    /\ Doing("destroy")
    /\ Expand((IF proc[Argument].kind \in SinkKinds THEN <<Op("flush", Argument)>> ELSE <<>>)
                \o <<Op("stop", Argument), Op("join", Argument), Op("detach", Argument)>>)
    /\ UNCHANGED <<live, proc, queue, exception, contents, results>>

\* Mutant: the Eof is sent, its arrival is not waited for.
flush_NotJoined ==
    /\ Doing("flush")
    /\ LET id == proc[Argument].source_queue
       IN  IF id = NoQueue THEN Continue
           ELSE IF ~queue[id].source
           THEN Expand(<<Push(id, Eof)>>)
           ELSE Expand(<<Push(id, Flush), Op("await", Argument)>>)
    /\ UNCHANGED <<live, proc, queue, exception, contents, results>>

\* Sink::flush: nothing was ever connected, or the last source is gone, or a
\* source is still connected.
flush ==
    /\ Doing("flush")
    /\ LET id == proc[Argument].source_queue
       IN  IF id = NoQueue THEN Continue
           ELSE IF ~queue[id].source
           THEN Expand(<<Push(id, Eof), Op("join", Argument)>>)
           ELSE Expand(<<Push(id, Flush), Op("await", Argument)>>)
    /\ UNCHANGED <<live, proc, queue, exception, contents, results>>

Await ==
    /\ Doing("await")
    /\ proc[Argument].ready \/ proc[Argument].state = "Completed"
    /\ Continue
    /\ UNCHANGED <<live, proc, queue, exception, contents, results>>

\* Mutant: the work that goes on is not asked to end.
stop_NotRequested ==
    /\ Doing("stop")
    /\ IF proc[Argument].state = "Uninitialized" THEN Continue
       ELSE Expand(<<Op("join", Argument)>>)
    /\ UNCHANGED <<live, proc, queue, exception, contents, results>>

\* StreamProcessor::stop: only work that goes on is asked to end.
stop ==
    /\ Doing("stop")
    /\ proc' = [proc EXCEPT ![Argument].stop_requested = @ \/ Working(Argument)]
    /\ IF proc[Argument].state = "Uninitialized" THEN Continue
       ELSE Expand(<<Op("join", Argument)>>)
    /\ UNCHANGED <<live, queue, exception, contents, results>>

\* StreamProcessor::join
join ==
    /\ Doing("join")
    /\ proc[Argument].state \in {"Uninitialized", "Completed"}
    /\ proc' = [proc EXCEPT ![Argument].state = "Completed"]
    /\ Continue
    /\ UNCHANGED <<live, queue, exception, contents, results>>

\* The end of ~StreamProcessor, and ~HashFilter, which calls Final when work
\* has not.
Detach ==
    /\ Doing("detach")
    /\ LET r == proc[Argument]
           gone == Without(queue, Argument)
       IN  /\ queue' = IF r.sink_queue \in DOMAIN gone
                       THEN [gone EXCEPT ![r.sink_queue].source = FALSE] ELSE gone
           /\ results' = IF r.kind \in Hashes \/ r.kind = "BoundedSource"
                         THEN With(results, Argument,
                                   IF r.kind \in Hashes THEN r.buffer ELSE r.bytes_written)
                         ELSE results
    /\ proc' = Without(proc, Argument)
    /\ live' = Front(live)
    /\ Continue
    /\ UNCHANGED <<exception, contents>>

MainThread ==
    \/ ConstructAlone \/ ConstructSink \/ ConstructSource
    \/ copy_to \/ NewPipeline \/ StartThrows \/ StartAll
    \/ PushSegment \/ SynchronousWrite \/ SynchronousRead \/ FillBuffer
    \/ DestroyStream \/ flush \/ Await \/ stop \/ join \/ Detach

InitPipeline ==
    /\ live = <<>>
    /\ proc = [p \in {} |-> 0]
    /\ queue = [p \in {} |-> 0]
    /\ exception = FALSE
    /\ contents = [p \in {} |-> 0]
    /\ results = [p \in {} |-> 0]

Workers == \E p \in DOMAIN proc : Worker(p)
=============================================================================

--------------------------- MODULE CircularQueue ---------------------------
(***************************************************************************)
(* CircularQueue of System/Threads.h, the queue between two stream         *)
(* processors, under any number of threads: a ring buffer under a mutex,   *)
(* and an Event per direction on which a thread waits once, for a limited  *)
(* time, between two attempts.                                             *)
(***************************************************************************)
EXTENDS Integers

CONSTANTS
    Producers,  \* threads that push: a stream processor, and Sink::flush
    Consumers,  \* threads that pop
    Items,      \* segments
    Undefined,  \* a segment that was moved from
    capacity

Threads == Producers \cup Consumers

ASSUME CapacityAssumption == capacity \in Nat \ {0}
ASSUME ThreadsAssumption == Producers \cap Consumers = {}
ASSUME ItemsAssumption == Undefined \notin Items

VARIABLES
    data, head, tail, size,
    pop_notification,   \* Event::signalled of the Events
    push_notification,
    pc,                 \* thread -> where it is in try_push or try_pop
    attempts,           \* thread -> j of try_push or try_pop
    item                \* thread -> the argument of try_push or try_pop

ring == <<data, head, tail, size>>
events == <<pop_notification, push_notification>>
local == <<pc, attempts, item>>
vars == <<ring, events, local>>

Init ==
    /\ data = [i \in 0 .. capacity - 1 |-> Undefined]
    /\ head = 0 /\ tail = 0 /\ size = 0
    /\ pop_notification = FALSE /\ push_notification = FALSE
    /\ pc = [p \in Threads |-> "idle"]
    /\ attempts = [p \in Threads |-> 0]
    /\ item = [p \in Threads |-> Undefined]
-----------------------------------------------------------------------------
Return(p) == pc' = [pc EXCEPT ![p] = "idle"] /\ attempts' = [attempts EXCEPT ![p] = 0]

\* A caller whose try_push failed calls it again with the same item
\* (Queue::push, StreamProcessor::write) or drops it.
CallPush(p, i) ==
    /\ pc[p] = "idle"
    /\ item[p] \in {i, Undefined}
    /\ pc' = [pc EXCEPT ![p] = "attempt"]
    /\ item' = [item EXCEPT ![p] = i]
    /\ UNCHANGED <<ring, events, attempts>>

CallPop(p) ==
    /\ pc[p] = "idle"
    /\ pc' = [pc EXCEPT ![p] = "attempt"]
    /\ item' = [item EXCEPT ![p] = Undefined]
    /\ UNCHANGED <<ring, events, attempts>>

\* Mutant: a full queue takes one more.
try_push_Full(p) ==
    /\ pc[p] = "attempt"
    /\ size <= capacity
    /\ data' = [data EXCEPT ![tail % capacity] = item[p]]
    /\ tail' = (tail + 1) % capacity
    /\ size' = size + 1
    /\ push_notification' = TRUE
    /\ item' = [item EXCEPT ![p] = Undefined]
    /\ Return(p)
    /\ UNCHANGED <<head, pop_notification>>

\* try_push, the critical section when there is room
try_push(p) ==
    /\ pc[p] = "attempt"
    /\ size < capacity
    /\ data' = [data EXCEPT ![tail % capacity] = item[p]]
    /\ tail' = (tail + 1) % capacity
    /\ size' = size + 1
    /\ push_notification' = TRUE
    /\ item' = [item EXCEPT ![p] = Undefined]
    /\ Return(p)
    /\ UNCHANGED <<head, pop_notification>>

\* Mutant: the index is not wrapped.
try_pop_Unwrapped(p) ==
    /\ pc[p] = "attempt"
    /\ size > 0
    /\ item' = [item EXCEPT ![p] = data[head]]
    /\ data' = [data EXCEPT ![head] = Undefined]
    /\ head' = head + 1
    /\ size' = size - 1
    /\ pop_notification' = TRUE
    /\ Return(p)
    /\ UNCHANGED <<tail, push_notification>>

\* Mutant: the segment is copied out.
try_pop_Copied(p) ==
    /\ pc[p] = "attempt"
    /\ size > 0
    /\ item' = [item EXCEPT ![p] = data[head]]
    /\ head' = (head + 1) % capacity
    /\ size' = size - 1
    /\ pop_notification' = TRUE
    /\ Return(p)
    /\ UNCHANGED <<data, tail, push_notification>>

\* try_pop, the critical section when there is an item
try_pop(p) ==
    /\ pc[p] = "attempt"
    /\ size > 0
    /\ item' = [item EXCEPT ![p] = data[head]]
    /\ data' = [data EXCEPT ![head] = Undefined]
    /\ head' = (head + 1) % capacity
    /\ size' = size - 1
    /\ pop_notification' = TRUE
    /\ Return(p)
    /\ UNCHANGED <<tail, push_notification>>

\* The attempt fails: the second one makes try_push and try_pop return false.
Fails(p, blocked) ==
    /\ pc[p] = "attempt"
    /\ blocked
    /\ IF attempts[p] + 1 = 2 THEN Return(p)
       ELSE /\ pc' = [pc EXCEPT ![p] = "wait"]
            /\ attempts' = [attempts EXCEPT ![p] = @ + 1]
    /\ UNCHANGED <<ring, events, item>>

FailPush(p) == Fails(p, size = capacity)
FailPop(p) == Fails(p, size = 0)

\* Event::wait_for: a signal that is there is taken ...
TakeSignal(p) ==
    /\ pc[p] = "wait"
    /\ IF p \in Producers
       THEN /\ pop_notification /\ pop_notification' = FALSE
            /\ UNCHANGED push_notification
       ELSE /\ push_notification /\ push_notification' = FALSE
            /\ UNCHANGED pop_notification
    /\ pc' = [pc EXCEPT ![p] = "attempt"]
    /\ UNCHANGED <<ring, attempts, item>>

\* ... or the thread blocks ...
Block(p) ==
    /\ pc[p] = "wait"
    /\ IF p \in Producers THEN ~pop_notification ELSE ~push_notification
    /\ pc' = [pc EXCEPT ![p] = "blocked"]
    /\ UNCHANGED <<ring, events, attempts, item>>

\* ... until it is notified, the time is over, or for no reason; the signal is
\* left for the next wait.
WakeUp(p) ==
    /\ pc[p] = "blocked"
    /\ pc' = [pc EXCEPT ![p] = "attempt"]
    /\ UNCHANGED <<ring, events, attempts, item>>

Pushing(p) ==
    \/ \E i \in Items : CallPush(p, i)
    \/ try_push(p) \/ FailPush(p)
Popping(p) == CallPop(p) \/ try_pop(p) \/ FailPop(p)
Waiting(p) == TakeSignal(p) \/ Block(p) \/ WakeUp(p)

Next ==
    \/ \E p \in Producers : Pushing(p) \/ Waiting(p)
    \/ \E p \in Consumers : Popping(p) \/ Waiting(p)

Spec == Init /\ [][Next]_vars
-----------------------------------------------------------------------------
\* Properties.

TypeOK ==
    /\ data \in [0 .. capacity - 1 -> Items \cup {Undefined}]
    /\ head \in 0 .. capacity - 1 /\ tail \in 0 .. capacity - 1
    /\ size \in 0 .. capacity
    /\ pop_notification \in BOOLEAN /\ push_notification \in BOOLEAN
    /\ pc \in [Threads -> {"idle", "attempt", "wait", "blocked"}]
    /\ attempts \in [Threads -> 0 .. 1]
    /\ item \in [Threads -> Items \cup {Undefined}]
    /\ \A p \in Producers : pc[p] # "idle" => item[p] \in Items

\* The cell of the i-th item, counted from 0.
Cell(h, i) == IF h + i < capacity THEN h + i ELSE h + i - capacity

\* The buffer is a window of size items from head to tail, and a segment that
\* was popped has left nothing behind: a buffer that stayed in a cell would not
\* go back to the pipeline.
RingWellFormed ==
    /\ tail = Cell(head, size)
    /\ \A i \in 0 .. capacity - 1 : (data[Cell(head, i)] # Undefined) <=> (i < size)

\* The queue is a BoundedFifo: no segment is lost, doubled or overtaken, by
\* whatever threads and however their attempts, timeouts and stale signals mix.
Fifo == INSTANCE BoundedFifo WITH
    fifo <- [i \in 1 .. size |-> data[Cell(head, i - 1)]],
    held <- item
ImplementsBoundedFifo == Fifo!Spec
=============================================================================

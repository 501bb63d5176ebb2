------------------------- MODULE CircularQueueProofs -------------------------
(***************************************************************************)
(* A CircularQueue of any capacity, with any threads and items, keeps its  *)
(* ring in order and implements a BoundedFifo, without fairness.           *)
(***************************************************************************)
EXTENDS CircularQueue, SequenceTheorems, TLAPS

LEMMA Capacity == capacity \in Nat \ {0}
BY CapacityAssumption

\* An index after its use, wrapped.
LEMMA Wrap ==
    ASSUME NEW i \in 0 .. capacity - 1
    PROVE  /\ i % capacity = i
           /\ (i + 1) % capacity = IF i + 1 = capacity THEN 0 ELSE i + 1
           /\ (i + 1) % capacity \in 0 .. capacity - 1
BY Capacity

\* The cells of the ring, counted from the head.
LEMMA CellType ==
    ASSUME NEW h \in 0 .. capacity - 1, NEW i \in 0 .. capacity - 1
    PROVE  Cell(h, i) \in 0 .. capacity - 1
BY Capacity DEF Cell

LEMMA CellInjective ==
    ASSUME NEW h \in 0 .. capacity - 1, NEW i \in 0 .. capacity - 1,
           NEW j \in 0 .. capacity - 1, i # j
    PROVE  Cell(h, i) # Cell(h, j)
BY Capacity DEF Cell

LEMMA CellSucc ==
    ASSUME NEW h \in 0 .. capacity - 1, NEW i \in 0 .. capacity - 1
    PROVE  /\ Cell(h, 0) = h
           /\ (i + 1) \in 0 .. capacity - 1 => (Cell(h, i) + 1) % capacity = Cell(h, i + 1)
           /\ (Cell(h, capacity - 1) + 1) % capacity = h
           /\ (i + 1) \in 0 .. capacity - 1 => Cell((h + 1) % capacity, i) = Cell(h, i + 1)
           /\ Cell((h + 1) % capacity, capacity - 1) = h
           /\ Cell(h, capacity) = h
<1>1. Cell(h, 0) = h /\ Cell(h, capacity) = h
    BY Capacity DEF Cell
<1>2. ASSUME i + 1 \in 0 .. capacity - 1
      PROVE  (Cell(h, i) + 1) % capacity = Cell(h, i + 1)
  <2>1. Cell(h, i) \in 0 .. capacity - 1
    BY CellType
  <2>2. (Cell(h, i) + 1) % capacity = IF Cell(h, i) + 1 = capacity THEN 0 ELSE Cell(h, i) + 1
    BY <2>1, Wrap
  <2> QED BY <1>2, <2>2, Capacity DEF Cell
<1>3. (Cell(h, capacity - 1) + 1) % capacity = h
  <2>1. Cell(h, capacity - 1) \in 0 .. capacity - 1
    BY Capacity, CellType
  <2>2. Cell(h, capacity - 1) = IF h = 0 THEN capacity - 1 ELSE h - 1
    BY Capacity DEF Cell
  <2>3. (Cell(h, capacity - 1) + 1) % capacity
            = IF Cell(h, capacity - 1) + 1 = capacity THEN 0 ELSE Cell(h, capacity - 1) + 1
    BY <2>1, Wrap
  <2> QED BY <2>2, <2>3, Capacity
<1>4. (h + 1) % capacity = IF h + 1 = capacity THEN 0 ELSE h + 1
    BY Wrap
<1>5. (i + 1) \in 0 .. capacity - 1 => Cell((h + 1) % capacity, i) = Cell(h, i + 1)
    BY <1>4, Capacity DEF Cell
<1>6. Cell((h + 1) % capacity, capacity - 1) = h
    BY <1>4, Capacity DEF Cell
<1> QED BY <1>1, <1>2, <1>3, <1>5, <1>6

-----------------------------------------------------------------------------
\* What holds besides the types: the ring, and the states of a thread.
Inv == TypeOK /\ RingWellFormed

LEMMA InvInit ==
    ASSUME Init
    PROVE  Inv
<1>1. TypeOK
  <2>1. 0 \in 0 .. capacity - 1 /\ 0 \in 0 .. capacity
    BY Capacity
  <2>2. \A p \in Producers : pc[p] = "idle"
    BY DEF Init, Threads
  <2>3. data \in [0 .. capacity - 1 -> Items \cup {Undefined}]
    BY DEF Init
  <2>4. pop_notification \in BOOLEAN /\ push_notification \in BOOLEAN
    BY DEF Init
  <2>5. /\ pc \in [Threads -> {"idle", "attempt", "wait", "blocked"}]
        /\ attempts \in [Threads -> 0 .. 1]
        /\ item \in [Threads -> Items \cup {Undefined}]
    BY DEF Init
  <2> QED BY <2>1, <2>2, <2>3, <2>4, <2>5 DEF Init, TypeOK
<1>2. \A i \in 0 .. capacity - 1 : Cell(0, i) \in 0 .. capacity - 1
    BY Capacity, CellType
<1>3. RingWellFormed
    BY <1>2, Capacity DEF Init, RingWellFormed, Cell
<1> QED BY <1>1, <1>3 DEF Inv

\* Every step keeps the types.
LEMMA TypeStep ==
    ASSUME Inv, [Next]_vars
    PROVE  TypeOK'
<1> USE Capacity DEF Inv
<1>1. ASSUME NEW p \in Producers, NEW i \in Items, CallPush(p, i) PROVE TypeOK'
    BY <1>1 DEF TypeOK, CallPush, ring, events, Threads
<1>2. ASSUME NEW p \in Producers, try_push(p) PROVE TypeOK'
  <2>1. (tail + 1) % capacity \in 0 .. capacity - 1 /\ tail % capacity \in 0 .. capacity - 1
    BY Wrap DEF TypeOK
  <2>2. item[p] \in Items
    BY <1>2 DEF TypeOK, try_push
  <2> QED BY <1>2, <2>1, <2>2 DEF TypeOK, try_push, Return, Threads
<1>3. ASSUME NEW p \in Threads, Fails(p, TRUE) \/ TakeSignal(p) \/ Block(p) \/ WakeUp(p) PROVE TypeOK'
  <2>1. CASE Fails(p, TRUE)
    <3>1. UNCHANGED <<ring, events, item>>
      BY <2>1 DEF Fails
    <3>2. attempts[p] \in 0 .. 1 /\ pc[p] = "attempt"
      BY <2>1 DEF Fails, TypeOK
    <3>3. CASE Return(p)
      BY <3>1, <3>2, <3>3 DEF TypeOK, Return, ring, events
    <3>4. CASE /\ attempts[p] + 1 # 2
               /\ pc' = [pc EXCEPT ![p] = "wait"] /\ attempts' = [attempts EXCEPT ![p] = @ + 1]
      <4>1. attempts[p] + 1 \in 0 .. 1
        BY <3>2, <3>4
      <4> QED BY <3>1, <3>2, <3>4, <4>1 DEF TypeOK, ring, events
    <3> QED BY <2>1, <3>3, <3>4 DEF Fails
  <2>2. CASE TakeSignal(p)
    <3>1. /\ UNCHANGED <<ring, attempts, item>> /\ pc[p] = "wait"
          /\ pc' = [pc EXCEPT ![p] = "attempt"]
      BY <2>2 DEF TakeSignal
    <3>2. pop_notification' \in BOOLEAN /\ push_notification' \in BOOLEAN
      BY <2>2 DEF TakeSignal, TypeOK
    <3> QED BY <3>1, <3>2 DEF TypeOK, ring
  <2>3. CASE Block(p)
    BY <2>3 DEF TypeOK, Block, ring, events
  <2>4. CASE WakeUp(p)
    BY <2>4 DEF TypeOK, WakeUp, ring, events
  <2> QED BY <1>3, <2>1, <2>2, <2>3, <2>4
<1>4. ASSUME NEW p \in Consumers, CallPop(p) PROVE TypeOK'
    BY <1>4, ThreadsAssumption DEF TypeOK, CallPop, ring, events, Threads
<1>5. ASSUME NEW p \in Consumers, try_pop(p) PROVE TypeOK'
  <2>1. (head + 1) % capacity \in 0 .. capacity - 1
    BY Wrap DEF TypeOK
  <2> QED BY <1>5, <2>1, ThreadsAssumption DEF TypeOK, try_pop, Return, Threads
<1>6. CASE UNCHANGED vars
    BY <1>6 DEF TypeOK, vars, ring, events, local
<1>7. ASSUME NEW p \in Threads, FailPush(p) \/ FailPop(p) PROVE Fails(p, TRUE)
    BY <1>7 DEF FailPush, FailPop, Fails
<1> QED BY <1>1, <1>2, <1>3, <1>4, <1>5, <1>6, <1>7 DEF Next, Pushing, Popping, Waiting, Threads

\* The steps that touch the ring.
LEMMA RingSteps ==
    ASSUME [Next]_vars
    PROVE  \/ UNCHANGED ring
           \/ \E p \in Producers : try_push(p)
           \/ \E p \in Consumers : try_pop(p)
BY DEF Next, Pushing, Popping, Waiting, CallPush, CallPop, FailPush, FailPop, Fails, TakeSignal,
       Block, WakeUp, vars, ring

\* A push fills the cell behind the last item, a pop empties the first.
LEMMA PushEffect ==
    ASSUME Inv, NEW p \in Producers, try_push(p)
    PROVE  /\ size \in 0 .. capacity - 1 /\ size' = size + 1 /\ head' = head
           /\ head \in 0 .. capacity - 1
           /\ tail = Cell(head, size) /\ tail' = Cell(head, size + 1)
           /\ item[p] \in Items
           /\ \A i \in 0 .. capacity - 1 :
                data'[Cell(head, i)] = IF i = size THEN item[p] ELSE data[Cell(head, i)]
<1> USE Capacity
<1>1. /\ size \in 0 .. capacity - 1 /\ size' = size + 1 /\ head' = head
      /\ head \in 0 .. capacity - 1 /\ tail \in 0 .. capacity - 1 /\ item[p] \in Items
      /\ tail = Cell(head, size)
    BY DEF Inv, TypeOK, try_push, RingWellFormed
<1>2. tail' = Cell(head, size + 1)
  <2>1. tail' = (tail + 1) % capacity
    BY DEF try_push
  <2>2. CASE size + 1 \in 0 .. capacity - 1
    BY <1>1, <2>1, <2>2, CellSucc
  <2>3. CASE size = capacity - 1
    BY <1>1, <2>1, <2>3, CellSucc
  <2> QED BY <1>1, <2>2, <2>3
<1>3. data' = [data EXCEPT ![tail] = item[p]]
    BY <1>1, Wrap DEF try_push
<1>4. ASSUME NEW i \in 0 .. capacity - 1
      PROVE  data'[Cell(head, i)] = IF i = size THEN item[p] ELSE data[Cell(head, i)]
  <2>1. Cell(head, i) \in 0 .. capacity - 1
    BY <1>1, CellType
  <2>2. i # size => Cell(head, i) # tail
    BY <1>1, CellInjective
  <2>3. data \in [0 .. capacity - 1 -> Items \cup {Undefined}]
    BY DEF Inv, TypeOK
  <2> QED BY <1>1, <1>3, <2>1, <2>2, <2>3
<1> QED BY <1>1, <1>2, <1>4

LEMMA PopEffect ==
    ASSUME Inv, NEW p \in Consumers, try_pop(p)
    PROVE  /\ size \in 1 .. capacity /\ size' = size - 1 /\ tail' = tail
           /\ head \in 0 .. capacity - 1 /\ head' \in 0 .. capacity - 1
           /\ head' = (head + 1) % capacity
           /\ \A i \in 0 .. capacity - 2 :
                Cell(head', i) = Cell(head, i + 1) /\ data'[Cell(head', i)] = data[Cell(head, i + 1)]
           /\ Cell(head', capacity - 1) = head /\ data'[head] = Undefined
           /\ item' = [item EXCEPT ![p] = data[Cell(head, 0)]]
<1> USE Capacity
<1>1. /\ size \in 1 .. capacity /\ size' = size - 1 /\ tail' = tail
      /\ head \in 0 .. capacity - 1 /\ head' = (head + 1) % capacity
      /\ data \in [0 .. capacity - 1 -> Items \cup {Undefined}]
      /\ data' = [data EXCEPT ![head] = Undefined]
      /\ item' = [item EXCEPT ![p] = data[head]]
    BY DEF Inv, TypeOK, try_pop
<1>2. head' \in 0 .. capacity - 1 /\ Cell(head', capacity - 1) = head /\ Cell(head, 0) = head
    BY <1>1, Wrap, CellSucc
<1>3. ASSUME NEW i \in 0 .. capacity - 2
      PROVE  Cell(head', i) = Cell(head, i + 1) /\ data'[Cell(head', i)] = data[Cell(head, i + 1)]
  <2>1. i \in 0 .. capacity - 1 /\ i + 1 \in 0 .. capacity - 1
    OBVIOUS
  <2>2. Cell(head', i) = Cell(head, i + 1)
    BY <1>1, <2>1, CellSucc
  <2>3. Cell(head, i + 1) # head /\ Cell(head, i + 1) \in 0 .. capacity - 1
    <3>1. 0 \in 0 .. capacity - 1 /\ i + 1 # 0
      OBVIOUS
    <3>2. Cell(head, i + 1) # Cell(head, 0)
      BY <1>1, <2>1, <3>1, CellInjective
    <3> QED BY <1>1, <1>2, <2>1, <3>2, CellType
  <2> QED BY <1>1, <2>2, <2>3
<1> QED BY <1>1, <1>2, <1>3

LEMMA RingStep ==
    ASSUME Inv, [Next]_vars
    PROVE  RingWellFormed'
<1> USE Capacity
<1>1. CASE UNCHANGED ring
    BY <1>1 DEF Inv, RingWellFormed, ring, Cell
<1>2. ASSUME NEW p \in Producers, try_push(p) PROVE RingWellFormed'
  <2>1. Undefined \notin Items
    BY ItemsAssumption
  <2>2. \A i \in 0 .. capacity - 1 : (data[Cell(head, i)] # Undefined) <=> (i < size)
    BY DEF Inv, RingWellFormed
  <2>3. \A i \in 0 .. capacity - 1 : (data'[Cell(head, i)] # Undefined) <=> (i < size + 1)
    BY <1>2, <2>1, <2>2, PushEffect
  <2> QED BY <1>2, <2>3, PushEffect DEF RingWellFormed, Cell
<1>3. ASSUME NEW p \in Consumers, try_pop(p) PROVE RingWellFormed'
  <2>1. \A i \in 0 .. capacity - 1 : (data[Cell(head, i)] # Undefined) <=> (i < size)
    BY DEF Inv, RingWellFormed
  <2>2. ASSUME NEW i \in 0 .. capacity - 1
        PROVE  (data'[Cell(head', i)] # Undefined) <=> (i < size - 1)
    <3>1. CASE i \in 0 .. capacity - 2
      <4>1. data'[Cell(head', i)] = data[Cell(head, i + 1)]
        BY <1>3, <3>1, PopEffect
      <4>2. (data[Cell(head, i + 1)] # Undefined) <=> (i + 1 < size)
        BY <2>1, <3>1
      <4>3. size \in 1 .. capacity
        BY <1>3, PopEffect
      <4> QED BY <3>1, <4>1, <4>2, <4>3
    <3>2. CASE i = capacity - 1
      <4>1. size \in 1 .. capacity /\ data'[Cell(head', i)] = Undefined
        BY <1>3, <3>2, PopEffect
      <4> QED BY <3>2, <4>1
    <3> QED BY <3>1, <3>2
  <2>3. tail = Cell(head', size - 1)
    <3>1. tail = Cell(head, size) /\ size \in 1 .. capacity
      BY <1>3, PopEffect DEF Inv, RingWellFormed
    <3>2. CASE size = capacity
      <4>1. Cell(head, capacity) = head
        BY <1>3, PopEffect, CellSucc
      <4> QED BY <1>3, <3>1, <3>2, <4>1, PopEffect
    <3>3. CASE size \in 1 .. capacity - 1
      <4>1. size - 1 \in 0 .. capacity - 2 /\ (size - 1) + 1 = size
        BY <3>3
      <4>2. Cell(head', size - 1) = Cell(head, (size - 1) + 1)
        BY <1>3, <4>1, PopEffect
      <4> QED BY <3>1, <4>1, <4>2
    <3> QED BY <3>1, <3>2, <3>3
  <2>4. size' = size - 1 /\ tail' = tail
    BY <1>3, PopEffect
  <2> QED BY <2>2, <2>3, <2>4 DEF RingWellFormed, Cell
<1> QED BY <1>1, <1>2, <1>3, RingSteps

\* The variables have their types.
THEOREM TypeCorrect == Spec => []TypeOK
<1>1. Inv => TypeOK
    BY DEF Inv
<1>2. Inv /\ [Next]_vars => Inv'
    BY TypeStep, RingStep DEF Inv
<1> QED BY <1>1, <1>2, InvInit, PTL DEF Spec

\* The ring is the window of its items, whatever the threads do.
THEOREM RingAlwaysWellFormed == Spec => []RingWellFormed
<1>1. Inv => RingWellFormed
    BY DEF Inv
<1>2. Inv /\ [Next]_vars => Inv'
    BY TypeStep, RingStep DEF Inv
<1> QED BY <1>1, <1>2, InvInit, PTL DEF Spec
-----------------------------------------------------------------------------
\* The queue implements the bounded FIFO.

contents == [i \in 1 .. size |-> data[Cell(head, i - 1)]]

LEMMA ContentsType ==
    ASSUME Inv
    PROVE  contents \in Seq(Items \cup {Undefined}) /\ Len(contents) = size
<1>1. size \in 0 .. capacity
    BY DEF Inv, TypeOK
<1>2. \A i \in 1 .. size : data[Cell(head, i - 1)] \in Items \cup {Undefined}
  <2> SUFFICES ASSUME NEW i \in 1 .. size PROVE data[Cell(head, i - 1)] \in Items \cup {Undefined}
    OBVIOUS
  <2>1. i - 1 \in 0 .. capacity - 1 /\ head \in 0 .. capacity - 1
    BY <1>1, Capacity DEF Inv, TypeOK
  <2> QED BY <2>1, CellType DEF Inv, TypeOK
<1> QED BY <1>1, <1>2, Capacity DEF contents

LEMMA PushImplements ==
    ASSUME Inv, NEW p \in Producers, try_push(p)
    PROVE  Fifo!Push(p)
<1> USE Capacity
<1>1. item[p] # Undefined /\ size < capacity
    BY PushEffect, ItemsAssumption
<1>2. item' = [item EXCEPT ![p] = Undefined]
    BY DEF try_push
<1>3. contents' = Append(contents, item[p])
  <2>1. size \in Nat /\ size' = size + 1 /\ item[p] \in Items
    BY PushEffect
  <2>2. contents \in Seq(Items \cup {Undefined}) /\ Len(contents) = size
    BY ContentsType
  <2>3. contents' = [i \in 1 .. size + 1 |-> data'[Cell(head', i - 1)]]
    BY <2>1 DEF contents
  <2>4. ASSUME NEW i \in 1 .. size
        PROVE  data'[Cell(head', i - 1)] = contents[i]
    <3>1. i - 1 \in 0 .. capacity - 1 /\ i - 1 # size
      BY <1>1, <2>1
    <3>2. data'[Cell(head, i - 1)] = data[Cell(head, i - 1)] /\ head' = head
      BY <3>1, PushEffect
    <3> QED BY <3>2 DEF contents, Cell
  <2>5. data'[Cell(head', (size + 1) - 1)] = item[p]
    <3>1. (size + 1) - 1 = size /\ size \in 0 .. capacity - 1
      BY <1>1, <2>1
    <3>2. data'[Cell(head, size)] = item[p] /\ head' = head
      BY <3>1, PushEffect
    <3> QED BY <3>1, <3>2 DEF Cell
  <2>6. Append(contents, item[p]) = [i \in 1 .. size + 1 |-> IF i <= size THEN contents[i] ELSE item[p]]
    BY <2>1, <2>2
  <2> QED BY <2>1, <2>3, <2>4, <2>5, <2>6
<1>4. Len(contents) = size
    BY ContentsType
<1> QED BY <1>1, <1>2, <1>3, <1>4 DEF Fifo!Push, contents

LEMMA PopImplements ==
    ASSUME Inv, NEW p \in Consumers, try_pop(p)
    PROVE  Fifo!Pop(p)
<1> USE Capacity
<1>1. size \in 1 .. capacity /\ size' = size - 1
    BY PopEffect
<1>2. contents \in Seq(Items \cup {Undefined}) /\ Len(contents) = size /\ contents # <<>>
    BY <1>1, ContentsType
<1>3. item' = [item EXCEPT ![p] = contents[1]]
  <2>1. contents[1] = data[Cell(head, 0)]
    BY <1>1 DEF contents
  <2> QED BY <2>1, PopEffect
<1>4. contents' = Tail(contents)
  <2>1. contents' = [i \in 1 .. size - 1 |-> data'[Cell(head', i - 1)]]
    BY <1>1 DEF contents
  <2>2. ASSUME NEW i \in 1 .. size - 1
        PROVE  data'[Cell(head', i - 1)] = contents[i + 1]
    <3>1. i - 1 \in 0 .. capacity - 2 /\ (i - 1) + 1 = i /\ (i + 1) - 1 = i /\ i + 1 \in 1 .. size
      BY <1>1
    <3>2. data'[Cell(head', i - 1)] = data[Cell(head, i)]
      BY <3>1, PopEffect
    <3> QED BY <3>1, <3>2 DEF contents
  <2>3. /\ Tail(contents) \in Seq(Items \cup {Undefined}) /\ Len(Tail(contents)) = size - 1
        /\ \A i \in 1 .. size - 1 : Tail(contents)[i] = contents[i + 1]
    BY <1>1, <1>2
  <2>4. Tail(contents) \in [1 .. size - 1 -> Items \cup {Undefined}]
    BY <2>3, LenProperties
  <2> QED BY <2>1, <2>2, <2>3, <2>4
<1> QED BY <1>2, <1>3, <1>4 DEF Fifo!Pop, contents

\* Every other step is one in which a thread takes or drops an item, or nothing.
LEMMA OtherImplements ==
    ASSUME Inv, [Next]_vars, UNCHANGED ring
    PROVE  UNCHANGED item \/ \E p \in Threads : Fifo!Exchange(p)
<1>1. contents' = contents
    BY DEF contents, ring, Cell
<1>2. ASSUME NEW p \in Producers, NEW i \in Items, CallPush(p, i) PROVE Fifo!Exchange(p)
    BY <1>1, <1>2 DEF CallPush, Fifo!Exchange, contents
<1>3. ASSUME NEW p \in Consumers, CallPop(p) PROVE Fifo!Exchange(p)
    BY <1>1, <1>3 DEF CallPop, Fifo!Exchange, contents
<1>4. ASSUME NEW p \in Threads, try_push(p) \/ try_pop(p) PROVE FALSE
    BY <1>4, Capacity DEF try_push, try_pop, Inv, TypeOK, ring
<1> QED BY <1>2, <1>3, <1>4
        DEF Next, Pushing, Popping, Waiting, FailPush, FailPop, Fails, TakeSignal, Block, WakeUp,
            vars, local, Threads

LEMMA InitImplements ==
    ASSUME Init
    PROVE  Fifo!Init
<1>1. contents = <<>>
    BY DEF Init, contents
<1> QED BY <1>1 DEF Init, Fifo!Init, contents

LEMMA StepImplements ==
    ASSUME Inv, [Next]_vars
    PROVE  [Fifo!Next]_<<contents, item>>
<1>1. CASE UNCHANGED ring
  <2>1. contents' = contents
    BY <1>1 DEF contents, ring, Cell
  <2> QED BY <1>1, <2>1, OtherImplements DEF Fifo!Next
<1>2. ASSUME NEW p \in Producers, try_push(p) PROVE Fifo!Next
    BY <1>2, PushImplements DEF Fifo!Next, Threads
<1>3. ASSUME NEW p \in Consumers, try_pop(p) PROVE Fifo!Next
    BY <1>3, PopImplements DEF Fifo!Next, Threads
<1> QED BY <1>1, <1>2, <1>3, RingSteps

\* Whatever the threads, their attempts, time-outs and stale signals: no item
\* is lost, doubled or overtaken.
THEOREM QueueIsFifo == Spec => ImplementsBoundedFifo
<1>1. Init => Fifo!Init
    BY InitImplements
<1>2. Inv /\ [Next]_vars => Inv'
    BY TypeStep, RingStep DEF Inv
<1>3. Inv /\ [Next]_vars => [Fifo!Next]_<<contents, item>>
    BY StepImplements
<1> QED BY <1>1, <1>2, <1>3, InvInit, PTL DEF Spec, ImplementsBoundedFifo, Fifo!Spec, contents
=============================================================================

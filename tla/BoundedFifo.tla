---------------------------- MODULE BoundedFifo ----------------------------
(***************************************************************************)
(* What a bounded queue between threads promises: an item leaves the hands *)
(* of a producer when it enters the queue, the items come out in the order *)
(* in which they went in, and there are never more than capacity of them.  *)
(***************************************************************************)
EXTENDS Naturals, Sequences

CONSTANTS Threads, Items, Undefined, capacity

VARIABLES
    fifo,   \* the items in the queue
    held    \* thread -> item it is about to push, or has popped

Init ==
    /\ fifo = <<>>
    /\ held = [p \in Threads |-> Undefined]

\* A thread comes by an item, or is done with one.
Exchange(p) ==
    /\ held' \in {[held EXCEPT ![p] = i] : i \in Items \cup {Undefined}}
    /\ UNCHANGED fifo

Push(p) ==
    /\ held[p] # Undefined
    /\ Len(fifo) < capacity
    /\ fifo' = Append(fifo, held[p])
    /\ held' = [held EXCEPT ![p] = Undefined]

Pop(p) ==
    /\ fifo # <<>>
    /\ held' = [held EXCEPT ![p] = fifo[1]]
    /\ fifo' = Tail(fifo)

Next == \E p \in Threads : Exchange(p) \/ Push(p) \/ Pop(p)

Spec == Init /\ [][Next]_<<fifo, held>>
=============================================================================

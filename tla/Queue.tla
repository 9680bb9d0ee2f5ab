------------------------------- MODULE Queue --------------------------------
(***************************************************************************)
(* The growing ring buffer of src/lib/queue.go.  The buffer is a function   *)
(* from 0..capacity - 1, as a Go slice is; unused cells hold Nil or what   *)
(* was popped from them.                                                   *)
(***************************************************************************)
EXTENDS Integers, Sequences

CONSTANTS
    Element,
    Nil,          \* Go's nil, which a new cell holds
    Capacity,     \* cells of a new queue (100 in the code)
    MaxCapacity   \* bound: cells

ASSUME QueueConstants == /\ Nil \notin Element
                         /\ Capacity \in Nat \ {0} /\ MaxCapacity \in Nat

VARIABLES queue, cap, size, head, tail,
          popped      \* the last answer of Pop

vars == <<queue, cap, size, head, tail, popped>>

NewQueue == /\ queue = [i \in 0..(Capacity - 1) |-> Nil] /\ cap = Capacity
            /\ size = 0 /\ head = 0 /\ tail = 0 /\ popped = Nil

\* mutant: cells are copied in their order, head moves nevertheless
GrownInPlace == [i \in 0..(2 * cap - 1) |-> IF i < cap THEN queue[i] ELSE Nil]

\* The buffer of twice the size: first the cells from head on, then those
\* before head.
Grown == [i \in 0..(2 * cap - 1) |->
            IF i < cap - head THEN queue[i + head]
            ELSE IF i < cap THEN queue[i - (cap - head)]
            ELSE Nil]

Full == head = tail /\ size > 0

PushFull(e) ==
    /\ Full /\ 2 * cap <= MaxCapacity
    /\ cap' = 2 * cap
    /\ queue' = [Grown EXCEPT ![cap] = e]
    /\ head' = 0
    /\ tail' = (cap + 1) % (2 * cap)
    /\ size' = size + 1
    /\ UNCHANGED popped

PushRoom(e) ==
    /\ ~Full
    /\ queue' = [queue EXCEPT ![tail] = e]
    /\ tail' = (tail + 1) % cap
    /\ size' = size + 1
    /\ UNCHANGED <<cap, head, popped>>

Push(e) == PushFull(e) \/ PushRoom(e)

Pop == \/ /\ size = 0
          /\ popped' = Nil
          /\ UNCHANGED <<queue, cap, size, head, tail>>
       \/ /\ size # 0
          /\ popped' = queue[head]
          /\ head' = (head + 1) % cap
          /\ size' = size - 1
          /\ UNCHANGED <<queue, cap, tail>>

Next == Pop \/ \E e \in Element : Push(e)

Spec == NewQueue /\ [][Next]_vars

-----------------------------------------------------------------------------
(* Properties *)

\* The cell of the i-th element.
Cell(i) == IF head + i - 1 < cap THEN head + i - 1 ELSE head + i - 1 - cap

\* The ring is intact: tail is the cell behind the last element, and the cells
\* between hold elements (Push, Pop).
Ring ==
    /\ cap \in Nat \ {0} /\ queue \in [0..(cap - 1) -> Element \union {Nil}]
    /\ size \in 0..cap /\ head \in 0..(cap - 1) /\ tail \in 0..(cap - 1)
    /\ popped \in Element \union {Nil}
    /\ tail = Cell(size + 1)
    /\ \A i \in 1..size : queue[Cell(i)] \in Element

Elements == [i \in 1..size |-> queue[Cell(i)]]

F == INSTANCE Fifo WITH elements <- Elements

\* The ring buffer is a queue, also while it grows and wraps around (Push, Pop).
ImplementsFifo == F!Spec
=============================================================================

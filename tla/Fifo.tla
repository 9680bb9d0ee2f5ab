-------------------------------- MODULE Fifo --------------------------------
(***************************************************************************)
(* What a queue promises: an element is popped once, in the order of the   *)
(* pushes, and an empty queue answers nil.                                 *)
(***************************************************************************)
EXTENDS Integers, Sequences

CONSTANTS Element, Nil

VARIABLES
    elements,   \* what the queue holds, the oldest first
    popped      \* the last answer of Pop

vars == <<elements, popped>>

Init == elements = <<>> /\ popped = Nil

Push(e) == elements' = Append(elements, e) /\ UNCHANGED popped

Pop == \/ /\ elements # <<>>
          /\ popped' = elements[1]
          /\ elements' = Tail(elements)
       \/ elements = <<>> /\ popped' = Nil /\ UNCHANGED elements

Next == Pop \/ \E e \in Element : Push(e)

Spec == Init /\ [][Next]_vars
=============================================================================

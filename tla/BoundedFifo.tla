----------------------------- MODULE BoundedFifo -----------------------------
(***************************************************************************)
(* What SpscRingBuffer promises: a first-in first-out queue of at most     *)
(* Limit items.  A refused push and a pop that finds nothing are           *)
(* stuttering steps, which may happen at any time.                         *)
(***************************************************************************)
EXTENDS Integers, Sequences

CONSTANT Limit

VARIABLES pushed,       \* items pushed so far; the n-th one is called n
          queue,        \* items pushed and not yet popped
          last          \* the item the last successful pop returned

Init == pushed = 0 /\ queue = <<>> /\ last = -1

Push ==
    /\ Len(queue) < Limit
    /\ queue' = Append(queue, pushed)
    /\ pushed' = pushed + 1
    /\ UNCHANGED last

Pop ==
    /\ queue # <<>>
    /\ last' = Head(queue)
    /\ queue' = Tail(queue)
    /\ UNCHANGED pushed

Spec == Init /\ [][Push \/ Pop]_<<pushed, queue, last>>
=============================================================================

----------------------------- MODULE BoundedFifo -----------------------------
(***************************************************************************)
(* What the kernel's ring buffers promise: a first-in first-out queue that *)
(* holds at most Capacity elements and refuses a push when it is full.     *)
(***************************************************************************)
EXTENDS Naturals, Sequences

CONSTANTS Values,     \* what is queued
          Capacity,   \* elements the queue can hold
          NoValue     \* "nothing was taken yet"

VARIABLES queue,      \* the elements waiting, oldest first
          taken       \* the element the last pop returned

fifoVars == <<queue, taken>>

FifoInit == queue = <<>> /\ taken = NoValue

(* A push appends, or drops the element when the queue is full.            *)
FifoPush(v) ==
    /\ Len(queue) < Capacity
    /\ queue' = Append(queue, v)
    /\ UNCHANGED taken

(* A pop removes the oldest element.                                       *)
FifoPop ==
    /\ queue # <<>>
    /\ taken' = Head(queue)
    /\ queue' = Tail(queue)

FifoNext == FifoPop \/ \E v \in Values : FifoPush(v)

FifoSpec == FifoInit /\ [][FifoNext]_fifoVars
=============================================================================

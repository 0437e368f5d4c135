--------------------------- MODULE KeyboardBuffer ---------------------------
(***************************************************************************)
(* The ring of src/drivers/keyboard_buffer.c.  Its producers, the keyboard *)
(* and serial interrupt handlers, run with interrupts disabled: a push is  *)
(* one step.  Its consumer, keyboard_getchar, runs with interrupts enabled *)
(* once the reader has slept, so a pop is three steps and a push can fall  *)
(* between any two of them.                                                *)
(***************************************************************************)
EXTENDS Integers, Sequences

CONSTANTS KBD_BUF_SIZE,   \* 128 in the code
          Chars,          \* characters
          NoChar          \* initial content of a variable that was never set

ASSUME RingAssumption == /\ KBD_BUF_SIZE \in Nat \ {0, 1}
                         /\ NoChar \notin Chars

VARIABLES buffer, head, tail,
          pop_pc,    \* where kbd_buffer_pop is
          pop_c,     \* its local variable c
          popped     \* what the last pop that found a character returned

ringVars == <<buffer, head, tail, pop_pc, pop_c, popped>>

Index == 0 .. KBD_BUF_SIZE - 1

(* (i + 1) % KBD_BUF_SIZE                                                  *)
Succ(i) == (i + 1) % KBD_BUF_SIZE

(* kbd_buffer_init; the array is static and starts out as zeros, which are *)
(* never read before they are written.                                     *)
RingInit ==
    /\ buffer = [i \in Index |-> NoChar]
    /\ head = 0 /\ tail = 0
    /\ pop_pc = "idle"
    /\ pop_c = NoChar
    /\ popped = NoChar

(* Mutants: the ring never counts as full; it counts as full one too early.*)
MutFullNever == FALSE
MutFullEarly == Succ(head) = tail \/ Succ(Succ(head)) = tail

(* kbd_buffer_push: dropped when the slot after head is the tail.          *)
Full == Succ(head) = tail

Push(c) ==
    /\ ~Full
    /\ buffer' = [buffer EXCEPT ![head] = c]
    /\ head' = Succ(head)
    /\ UNCHANGED <<tail, pop_pc, pop_c, popped>>

(* kbd_buffer_pop: the test, the load of buffer[tail], the store of tail.  *)
PopTest ==
    /\ pop_pc = "idle"
    /\ tail # head
    /\ pop_pc' = "load"
    /\ UNCHANGED <<buffer, head, tail, pop_c, popped>>

PopLoad ==
    /\ pop_pc = "load"
    /\ pop_c' = buffer[tail]
    /\ pop_pc' = "advance"
    /\ UNCHANGED <<buffer, head, tail, popped>>

PopAdvance ==
    /\ pop_pc = "advance"
    /\ tail' = Succ(tail)
    /\ popped' = pop_c
    /\ pop_c' = NoChar
    /\ pop_pc' = "idle"
    /\ UNCHANGED <<buffer, head>>

RingNext == PopTest \/ PopLoad \/ PopAdvance \/ \E c \in Chars : Push(c)

RingSpec == RingInit /\ [][RingNext]_ringVars

-----------------------------------------------------------------------------
(* Properties.                                                             *)

(* Indices stay inside the array and a loaded character is a real one.     *)
RingTypeOK ==
    /\ buffer \in [Index -> Chars \cup {NoChar}]
    /\ head \in Index /\ tail \in Index
    /\ pop_pc \in {"idle", "load", "advance"}
    /\ pop_c \in Chars \cup {NoChar}
    /\ popped \in Chars \cup {NoChar}

(* The abstract queue: the slots from tail up to head.                     *)
Used == (head - tail) % KBD_BUF_SIZE
Waiting == [i \in 1 .. Used |-> buffer[(tail + i - 1) % KBD_BUF_SIZE]]

Fifo == INSTANCE BoundedFifo WITH
            Values <- Chars, Capacity <- KBD_BUF_SIZE - 1, NoValue <- NoChar,
            queue <- Waiting, taken <- popped

(* The ring implements a FIFO of KBD_BUF_SIZE - 1 characters although      *)
(* pushes fall between the steps of a pop: nothing is lost, repeated,      *)
(* reordered or overwritten while it is being read.                        *)
RefinesFifo == Fifo!FifoSpec

(* The ring refuses a character exactly when it holds KBD_BUF_SIZE - 1 of *)
(* them, wherever head and tail have wrapped to, and these stay indices.   *)
RefusesOnlyWhenFull == RingTypeOK /\ (Full <=> Used = KBD_BUF_SIZE - 1)

=============================================================================

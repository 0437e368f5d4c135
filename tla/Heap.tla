-------------------------------- MODULE Heap --------------------------------
(***************************************************************************)
(* The kernel heap of src/mm/heap.c: a singly linked list of headers laid  *)
(* out in the heap itself, first fit, split on allocation, one coalescing  *)
(* pass on free.  There is no lock: every caller (scheduler_add,           *)
(* scheduler_wait, ramfs) runs in the kernel context, so calls never       *)
(* overlap and the loops below are steps of one call at a time.            *)
(*                                                                         *)
(* Memory is abstracted to the headers reachable from heap_head: hdr maps  *)
(* the address of each to its three fields.  A merged header is            *)
(* unreachable and leaves the domain.                                      *)
(***************************************************************************)
EXTENDS Integers

CONSTANTS HeapStart,   \* heap_start (0xC1000000 in kernel_main)
          HeapSize,    \* 1 MiB in kernel_main
          Word,        \* 2^32: arithmetic on u32int wraps
          Requests     \* sizes passed to kmalloc

Header == 12           \* sizeof(struct heap_block)
MinSplit == Header + 8

ASSUME HeapAssumption == /\ HeapStart \in Nat \ {0}
                         /\ HeapSize \in Nat /\ HeapSize >= Header
                         /\ Word \in Nat /\ HeapStart + HeapSize < Word
                         /\ Requests \subseteq 0 .. Word - 1

HeapEnd == HeapStart + HeapSize
Null == 0

VARIABLES hdr,     \* reachable header address -> [size, next, free]
          pc,      \* "idle", or the loop being executed
          curr,    \* the loop's cursor
          size,    \* kmalloc's aligned request
          req,     \* the request as the caller made it
          live     \* history: pointer handed out -> request it answers

heapVars == <<hdr, pc, curr, size, req, live>>

Addrs == DOMAIN hdr
BlockEnd(a) == a + Header + hdr[a].size

(* Mutant: rounds down.                                                    *)
MutAlign8(n) == (n \div 8) * 8

(* align8 on 32 bits: it wraps for requests above 2^32 - 8.                *)
Align8(n) == (((n + 7) % Word) \div 8) * 8

-----------------------------------------------------------------------------
(* heap_init.                                                              *)
HeapInit ==
    /\ hdr = [a \in {HeapStart} |->
                [size |-> HeapSize - Header, next |-> Null, free |-> TRUE]]
    /\ pc = "idle"
    /\ curr = Null
    /\ size = 0
    /\ req = 0
    /\ live = [p \in {} |-> 0]

-----------------------------------------------------------------------------
(* kmalloc, entry: a request of 0 is refused at once.                      *)
Kmalloc(n) ==
    /\ pc = "idle"
    /\ n # 0
    /\ req' = n
    /\ size' = Align8(n)
    /\ curr' = HeapStart
    /\ pc' = "scan"
    /\ UNCHANGED <<hdr, live>>

(* The call returns: its locals are gone.                                  *)
Return ==
    /\ pc' = "idle"
    /\ curr' = Null
    /\ size' = 0
    /\ req' = 0

Fits(a) == hdr[a].free /\ hdr[a].size >= size
Remaining(a) == hdr[a].size - size

(* Mutant: splits although the rest cannot hold a header.                  *)
MutSplits(a) == Remaining(a) > 0

Splits(a) == Remaining(a) > MinSplit

(* The list after block a answers the request: split off the tail if it    *)
(* can hold a header and more than 8 bytes, else hand out the whole block. *)
Taken(a) ==
    LET rest == a + Header + size IN
    IF Splits(a)
      THEN [b \in Addrs \cup {rest} |->
              IF b = rest
                THEN [size |-> Remaining(a) - Header, next |-> hdr[a].next,
                      free |-> TRUE]
              ELSE IF b = a
                THEN [size |-> size, next |-> rest, free |-> FALSE]
              ELSE hdr[b]]
      ELSE [hdr EXCEPT ![a].free = FALSE]

(* One iteration of the first-fit loop finds a block...                    *)
ScanTake ==
    /\ pc = "scan" /\ curr # Null
    /\ Fits(curr)
    /\ hdr' = Taken(curr)
    /\ live' = [p \in DOMAIN live \cup {curr + Header} |->
                  IF p = curr + Header THEN req ELSE live[p]]
    /\ Return

(* ...or moves on...                                                       *)
ScanNext ==
    /\ pc = "scan" /\ curr # Null
    /\ ~Fits(curr)
    /\ curr' = hdr[curr].next
    /\ UNCHANGED <<hdr, pc, size, req, live>>

(* ...and the end of the list is "Heap out of memory".                     *)
ScanFail ==
    /\ pc = "scan" /\ curr = Null
    /\ Return
    /\ UNCHANGED <<hdr, live>>

-----------------------------------------------------------------------------

(* kfree of a pointer that kmalloc returned and nobody freed since; the    *)
(* range check of the code holds for those and refuses null.               *)
Kfree(p) ==
    /\ pc = "idle"
    /\ p \in DOMAIN live
    /\ p >= HeapStart + Header /\ p < HeapEnd
    /\ hdr' = [hdr EXCEPT ![p - Header].free = TRUE]
    /\ live' = [q \in DOMAIN live \ {p} |-> live[q]]
    /\ pc' = "coalesce"
    /\ curr' = HeapStart
    /\ UNCHANGED <<size, req>>

InPass == pc = "coalesce" /\ curr # Null /\ hdr[curr].next # Null

Mergeable(a) ==
    LET n == hdr[a].next
    IN  hdr[a].free /\ hdr[n].free /\ BlockEnd(a) = n

(* The list once block a has swallowed its successor.                      *)
Merged(a) ==
    LET n == hdr[a].next
    IN  [b \in Addrs \ {n} |->
           IF b = a
             THEN [size |-> hdr[a].size + Header + hdr[n].size,
                   next |-> hdr[n].next, free |-> hdr[a].free]
             ELSE hdr[b]]

(* Mutant: advances after a merge, without the "continue".                 *)
MutCoalesceMerge ==
    /\ InPass
    /\ Mergeable(curr)
    /\ hdr' = Merged(curr)
    /\ curr' = hdr'[curr].next
    /\ UNCHANGED <<pc, size, req, live>>

(* One iteration of the coalescing pass: merge and stay, or move on.       *)
CoalesceMerge ==
    /\ InPass
    /\ Mergeable(curr)
    /\ hdr' = Merged(curr)
    /\ UNCHANGED <<pc, curr, size, req, live>>

CoalesceNext ==
    /\ InPass
    /\ ~Mergeable(curr)
    /\ curr' = hdr[curr].next
    /\ UNCHANGED <<hdr, pc, size, req, live>>

CoalesceDone ==
    /\ pc = "coalesce"
    /\ ~InPass
    /\ Return
    /\ UNCHANGED <<hdr, live>>

-----------------------------------------------------------------------------
HeapNext ==
    \/ \E n \in Requests : Kmalloc(n)
    \/ \E p \in DOMAIN live : Kfree(p)
    \/ ScanTake
    \/ ScanNext
    \/ ScanFail
    \/ CoalesceMerge
    \/ CoalesceNext
    \/ CoalesceDone

HeapSpec == HeapInit /\ [][HeapNext]_heapVars

-----------------------------------------------------------------------------
(* heap_stats: what it has added up at the end of the list, from block a.  *)
HeapStats ==
    LET stats[a \in Addrs \cup {Null}] ==
          IF a = Null THEN [used |-> 0, free |-> 0, blocks |-> 0, free_blocks |-> 0]
          ELSE LET rest == stats[hdr[a].next]
               IN  IF hdr[a].free
                     THEN [rest EXCEPT !.free = @ + hdr[a].size, !.blocks = @ + 1,
                                       !.free_blocks = @ + 1]
                     ELSE [rest EXCEPT !.used = @ + hdr[a].size, !.blocks = @ + 1]
    IN  stats

Stats == HeapStats[HeapStart]

-----------------------------------------------------------------------------
(* Properties.                                                             *)

Block == [size : 0 .. HeapSize, next : 0 .. HeapEnd, free : BOOLEAN]

(* Every field keeps to its range, and the loop cursors point at headers.  *)
HeapTypeOK ==
    /\ Addrs \subseteq HeapStart .. HeapEnd - Header
    /\ hdr \in [Addrs -> Block]
    /\ pc \in {"idle", "scan", "coalesce"}
    /\ curr \in Addrs \cup {Null}
    /\ size \in 0 .. Word - 1
    /\ req \in 0 .. Word - 1
    /\ live \in [DOMAIN live -> 0 .. Word - 1]

(* The list tiles the heap: it starts at heap_head, each block ends where  *)
(* its next header begins and the last one ends at heap_end, so no byte is *)
(* lost and no two blocks overlap, after any history of splits and merges; *)
(* what heap_stats reports accounts for every byte.                        *)
Tiled ==
    /\ HeapTypeOK
    /\ HeapStart \in Addrs
    /\ \A a \in Addrs :
         /\ BlockEnd(a) <= HeapEnd
         /\ IF BlockEnd(a) = HeapEnd
              THEN hdr[a].next = Null
              ELSE hdr[a].next = BlockEnd(a) /\ BlockEnd(a) \in Addrs
         /\ \A b \in Addrs : a < b => BlockEnd(a) <= b
    /\ Stats.used + Stats.free + Stats.blocks * Header = HeapSize

(* Each live pointer is the payload of a block of its own that is marked   *)
(* used and as large as its request, for every request that align8 does    *)
(* not wrap, and every used block has a live pointer: nothing leaks, and   *)
(* together with Tiled no payload reaches the next header or another one.  *)
RequestsHonoured ==
    /\ {a + Header : a \in {b \in Addrs : ~hdr[b].free}} = DOMAIN live
    /\ \A p \in DOMAIN live : live[p] + 7 < Word => hdr[p - Header].size >= live[p]

(* kmalloc reports out of memory only when no stretch of adjacent free     *)
(* memory could hold the request: the one pass of coalesce() per kfree is  *)
(* enough to keep long histories from fragmenting the heap.                *)
Adjacent(a, b) == {c \in Addrs : a <= c /\ c <= b}
FailsOnlyWhenFull ==
    [][ScanFail =>
         \A a, b \in Addrs :
           a <= b /\ (\A c \in Adjacent(a, b) : hdr[c].free)
             => BlockEnd(b) - (a + Header) < size]_heapVars

=============================================================================

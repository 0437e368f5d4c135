---------------------------- MODULE MemoryProofs ----------------------------
(***************************************************************************)
(* Proofs about Heap, for every place and size of the heap, every word     *)
(* size and every sequence of kmalloc and kfree, and about FrameAllocator, *)
(* for every size of the frames, of the words of the bitmap and of the     *)
(* address space, and for every memory map.                                *)
(***************************************************************************)
EXTENDS Heap, FrameAllocator, RingLemmas, FiniteSetTheorems


(* The list tiles the heap.                                                *)
Links ==
    /\ HeapStart \in Addrs
    /\ \A a \in Addrs :
         /\ BlockEnd(a) <= HeapEnd
         /\ IF BlockEnd(a) = HeapEnd
              THEN hdr[a].next = Null
              ELSE hdr[a].next = BlockEnd(a) /\ BlockEnd(a) \in Addrs
Apart == \A a, b \in Addrs : a < b => BlockEnd(a) <= b

(* Two free neighbours exist only ahead of the coalescing pass.            *)
Coalesced ==
    \A a \in Addrs :
      hdr[a].next # Null /\ hdr[a].free /\ hdr[hdr[a].next].free
        => pc = "coalesce" /\ curr <= a

(* What the two loops know: no block behind the cursor fits, and the pass  *)
(* has not run off the list.                                               *)
ScanOK ==
    pc = "scan" =>
      /\ size = Align8(req)
      /\ \A a \in Addrs : curr = Null \/ a < curr => ~Fits(a)
PassOK == pc = "coalesce" => curr # Null

HeapInv ==
    /\ HeapTypeOK /\ Links /\ Apart
    /\ Coalesced /\ ScanOK /\ PassOK
    /\ RequestsHonoured

-----------------------------------------------------------------------------
LEMMA HeapConstants ==
    /\ HeapStart \in Nat /\ HeapStart > 0 /\ HeapSize \in Nat /\ HeapSize >= 12
    /\ HeapEnd \in Nat /\ HeapEnd = HeapStart + HeapSize
    /\ Word \in Nat /\ HeapEnd < Word
    /\ Header = 12 /\ MinSplit = 20 /\ Null = 0
BY HeapAssumption DEF HeapEnd, Header, MinSplit, Null

LEMMA BlockFacts ==
    ASSUME HeapTypeOK, NEW a \in Addrs
    PROVE  /\ a \in Nat /\ HeapStart <= a /\ a > 0 /\ a + 12 <= HeapEnd
           /\ hdr[a].size \in Nat /\ hdr[a].next \in Nat /\ hdr[a].free \in BOOLEAN
           /\ hdr[a] \in Block
           /\ BlockEnd(a) = a + 12 + hdr[a].size /\ BlockEnd(a) \in Nat
<1>1. hdr[a] \in Block /\ a \in HeapStart .. HeapEnd - Header
  BY DEF HeapTypeOK
<1>2. hdr[a].size \in Nat /\ hdr[a].next \in Nat /\ hdr[a].free \in BOOLEAN
  BY <1>1, HeapConstants DEF Block
<1> QED BY <1>1, <1>2, HeapConstants DEF BlockEnd

(* A block's successor is the block that begins where it ends.             *)
LEMMA Successor ==
    ASSUME HeapTypeOK, Links, NEW a \in Addrs
    PROVE  /\ BlockEnd(a) <= HeapEnd
           /\ hdr[a].next = Null => BlockEnd(a) = HeapEnd
           /\ hdr[a].next # Null => hdr[a].next = BlockEnd(a) /\ BlockEnd(a) \in Addrs
<1>1. BlockEnd(a) # Null
  BY BlockFacts, HeapConstants
<1> QED BY <1>1 DEF Links

(* align8 rounds up, as long as the sum does not wrap.                     *)
LEMMA Align8Is ==
    ASSUME NEW n \in 0 .. Word - 1
    PROVE  /\ Align8(n) \in 0 .. Word - 1
           /\ n + 7 < Word => n <= Align8(n)
<1>1. PICK w \in Nat : w = Word /\ w > 0
  BY HeapConstants
<1>2. PICK x \in Nat : x = (n + 7) % w /\ x < w /\ (n + 7 < w => x = n + 7)
  BY <1>1
<1>3. Align8(n) = (x \div 8) * 8
  BY <1>1, <1>2 DEF Align8
<1>4. (x \div 8) * 8 \in 0 .. x /\ x < (x \div 8) * 8 + 8
  OBVIOUS
<1> QED BY <1>1, <1>2, <1>3, <1>4

LEMMA HeapInitInv == HeapInit => HeapInv
<1> SUFFICES ASSUME HeapInit PROVE HeapInv
  OBVIOUS
<1>1. /\ Addrs = {HeapStart} /\ hdr[HeapStart].size = HeapSize - 12
      /\ hdr[HeapStart].next = 0 /\ hdr[HeapStart].free = TRUE
      /\ hdr[HeapStart] = [size |-> HeapSize - 12, next |-> 0, free |-> TRUE]
  BY HeapConstants DEF HeapInit, Addrs
<1>2. BlockEnd(HeapStart) = HeapEnd
  BY <1>1, HeapConstants DEF BlockEnd
<1>3. HeapTypeOK
  <2>1. hdr \in [Addrs -> Block]
    BY <1>1, HeapConstants DEF HeapInit, Block, Addrs
  <2>2. live \in [DOMAIN live -> 0 .. Word - 1]
    BY DEF HeapInit
  <2>3. Addrs \subseteq HeapStart .. HeapEnd - Header
    BY <1>1, HeapConstants
  <2>4. pc \in {"idle", "scan", "coalesce"} /\ curr \in Addrs \cup {Null}
    BY DEF HeapInit
  <2>5. size \in 0 .. Word - 1 /\ req \in 0 .. Word - 1
    BY HeapConstants DEF HeapInit
  <2> QED BY <2>1, <2>2, <2>3, <2>4, <2>5 DEF HeapTypeOK
<1>4. Links /\ Apart
  BY <1>1, <1>2, HeapConstants DEF Links, Apart
<1>5. Coalesced /\ ScanOK /\ PassOK
  BY <1>1, HeapConstants DEF HeapInit, Coalesced, ScanOK, PassOK
<1>6. RequestsHonoured
  BY <1>1 DEF HeapInit, RequestsHonoured
<1> QED BY <1>3, <1>4, <1>5, <1>6 DEF HeapInv

-----------------------------------------------------------------------------
(* The steps that leave the list alone.                                    *)
LEMMA KmallocStep ==
    ASSUME HeapInv, NEW n \in Requests, Kmalloc(n)
    PROVE  HeapInv'
<1>1. /\ pc = "idle" /\ pc' = "scan" /\ curr' = HeapStart /\ size' = Align8(n) /\ req' = n
      /\ hdr' = hdr /\ live' = live
  BY DEF Kmalloc
<1>2. n \in 0 .. Word - 1 /\ Align8(n) \in 0 .. Word - 1
  BY HeapAssumption, Align8Is
<1>3. HeapTypeOK'
  BY <1>1, <1>2 DEF HeapInv, HeapTypeOK, Links, Addrs
<1>4. Links' /\ Apart' /\ RequestsHonoured'
  BY <1>1 DEF HeapInv, Links, Apart, RequestsHonoured, BlockEnd, Addrs
<1>5. Coalesced'
  BY <1>1 DEF HeapInv, Coalesced, Addrs
<1>6. ScanOK' /\ PassOK'
  <2>1. \A a \in Addrs : ~(HeapStart = Null \/ a < HeapStart)
    BY BlockFacts, HeapConstants DEF HeapInv
  <2>2. (\A a \in Addrs : curr = Null \/ a < curr => ~Fits(a))'
    BY <1>1, <2>1 DEF Addrs
  <2>3. Align8(req)' = Align8(n)
    BY <1>1 DEF Align8
  <2> QED BY <1>1, <2>2, <2>3 DEF ScanOK, PassOK
<1> QED BY <1>3, <1>4, <1>5, <1>6 DEF HeapInv

LEMMA ReturnStep ==
    ASSUME HeapInv, Return, UNCHANGED <<hdr, live>>,
           \A a \in Addrs : ~(hdr[a].next # Null /\ hdr[a].free /\ hdr[hdr[a].next].free)
    PROVE  HeapInv'
<1>1. pc' = "idle" /\ curr' = Null /\ size' = 0 /\ req' = 0
  BY DEF Return
<1>2. HeapTypeOK'
  BY <1>1, HeapConstants DEF HeapInv, HeapTypeOK, Addrs
<1>3. Links' /\ Apart' /\ RequestsHonoured'
  BY DEF HeapInv, Links, Apart, RequestsHonoured, BlockEnd, Addrs
<1>4. Coalesced' /\ ScanOK' /\ PassOK'
  BY <1>1 DEF Coalesced, ScanOK, PassOK, Addrs
<1> QED BY <1>2, <1>3, <1>4 DEF HeapInv

LEMMA ScanNextStep ==
    ASSUME HeapInv, ScanNext
    PROVE  HeapInv'
<1>1. /\ pc = "scan" /\ curr # Null /\ ~Fits(curr) /\ curr' = hdr[curr].next
      /\ UNCHANGED <<hdr, pc, size, req, live>>
  BY DEF ScanNext
<1>2. /\ curr \in Addrs /\ curr \in Nat
      /\ hdr[curr].next = Null \/ (hdr[curr].next = BlockEnd(curr) /\ BlockEnd(curr) \in Addrs)
      /\ hdr[curr].next = Null => BlockEnd(curr) = HeapEnd
  <2>1. curr \in Addrs
    BY <1>1 DEF HeapInv, HeapTypeOK
  <2> QED BY <2>1, BlockFacts, Successor DEF HeapInv
<1>3. HeapTypeOK'
  BY <1>1, <1>2 DEF HeapInv, HeapTypeOK, Addrs
<1>4. Links' /\ Apart' /\ RequestsHonoured'
  BY <1>1 DEF HeapInv, Links, Apart, RequestsHonoured, BlockEnd, Addrs
<1>5. Coalesced' /\ PassOK'
  BY <1>1 DEF HeapInv, Coalesced, PassOK, Addrs
<1>6. ASSUME NEW a \in Addrs, hdr[curr].next = Null \/ a < hdr[curr].next
      PROVE  ~Fits(a)
  <2>1. a \in Nat /\ BlockEnd(a) \in Nat /\ a + 12 <= BlockEnd(a) /\ BlockEnd(a) <= HeapEnd
    BY BlockFacts DEF HeapInv, Links
  <2>2. curr < a => BlockEnd(curr) <= a
    BY <1>2 DEF HeapInv, Apart
  <2>3. ~(curr < a)
    <3>1. CASE hdr[curr].next = Null
      BY <1>2, <2>1, <2>2, <3>1, HeapConstants
    <3>2. CASE hdr[curr].next # Null
      <4>1. a < BlockEnd(curr) /\ BlockEnd(curr) \in Nat
        BY <1>2, <1>6, <3>2, BlockFacts DEF HeapInv
      <4> QED BY <1>2, <2>1, <2>2, <4>1
    <3> QED BY <3>1, <3>2
  <2>4. a = curr \/ a < curr
    BY <1>2, <2>1, <2>3
  <2> QED BY <1>1, <2>4 DEF HeapInv, ScanOK
<1>7. ScanOK'
  BY <1>1, <1>6 DEF HeapInv, ScanOK, Addrs, Fits
<1> QED BY <1>3, <1>4, <1>5, <1>7 DEF HeapInv

LEMMA CoalesceNextStep ==
    ASSUME HeapInv, CoalesceNext
    PROVE  HeapInv'
<1>1. /\ pc = "coalesce" /\ curr # Null /\ hdr[curr].next # Null /\ ~Mergeable(curr)
      /\ curr' = hdr[curr].next
      /\ UNCHANGED <<hdr, pc, size, req, live>>
  BY DEF CoalesceNext, InPass
<1>2. /\ curr \in Addrs /\ curr \in Nat
      /\ hdr[curr].next = BlockEnd(curr) /\ BlockEnd(curr) \in Addrs
  BY <1>1, BlockFacts DEF HeapInv, HeapTypeOK, Links
<1>3. HeapTypeOK'
  BY <1>1, <1>2 DEF HeapInv, HeapTypeOK, Addrs
<1>4. Links' /\ Apart' /\ RequestsHonoured'
  BY <1>1 DEF HeapInv, Links, Apart, RequestsHonoured, BlockEnd, Addrs
<1>5. ScanOK' /\ PassOK'
  BY <1>1 DEF HeapInv, ScanOK, PassOK
<1>6. ASSUME NEW a \in Addrs, hdr[a].next # Null, hdr[a].free, hdr[hdr[a].next].free
      PROVE  hdr[curr].next <= a
  <2>1. curr <= a /\ a \in Nat
    BY <1>6, BlockFacts DEF HeapInv, Coalesced
  <2>2. a # curr
    BY <1>1, <1>2, <1>6 DEF Mergeable
  <2>3. curr < a
    BY <1>2, <2>1, <2>2
  <2> QED BY <1>2, <2>3 DEF HeapInv, Apart
<1>7. Coalesced'
  BY <1>1, <1>6 DEF Coalesced, Addrs
<1> QED BY <1>3, <1>4, <1>5, <1>7 DEF HeapInv

-----------------------------------------------------------------------------
(* RequestsHonoured, pointwise.                                            *)
Honoured ==
    /\ \A a \in Addrs : ~hdr[a].free => a + 12 \in DOMAIN live
    /\ \A p \in DOMAIN live :
         \E a \in Addrs : /\ p = a + 12 /\ ~hdr[a].free
                          /\ live[p] + 7 < Word => hdr[a].size >= live[p]

LEMMA HonouredIs == HeapTypeOK => (RequestsHonoured <=> Honoured)
<1> SUFFICES ASSUME HeapTypeOK PROVE RequestsHonoured <=> Honoured
  OBVIOUS
<1>1. ASSUME NEW a \in Addrs
      PROVE  (a + 12) - 12 = a
  BY BlockFacts
<1>2. ASSUME RequestsHonoured, NEW a \in Addrs, ~hdr[a].free
      PROVE  a + 12 \in DOMAIN live
  BY <1>2 DEF RequestsHonoured, Header
<1>3. ASSUME RequestsHonoured, NEW p \in DOMAIN live
      PROVE  \E a \in Addrs : /\ p = a + 12 /\ ~hdr[a].free
                              /\ live[p] + 7 < Word => hdr[a].size >= live[p]
  <2>1. PICK a \in Addrs : p = a + 12 /\ ~hdr[a].free
    BY <1>3 DEF RequestsHonoured, Header
  <2>2. p - Header = a
    BY <1>1, <2>1, HeapConstants
  <2> QED BY <1>3, <2>1, <2>2 DEF RequestsHonoured
<1>4. ASSUME \A a \in Addrs : ~hdr[a].free => a + 12 \in DOMAIN live,
             \A p \in DOMAIN live :
               \E a \in Addrs : /\ p = a + 12 /\ ~hdr[a].free
                                /\ live[p] + 7 < Word => hdr[a].size >= live[p]
      PROVE  RequestsHonoured
  <2>1. {a + Header : a \in {b \in Addrs : ~hdr[b].free}} = DOMAIN live
    BY <1>4 DEF Header
  <2>2. ASSUME NEW p \in DOMAIN live, live[p] + 7 < Word
        PROVE  hdr[p - Header].size >= live[p]
    <3>1. PICK a \in Addrs : p = a + 12 /\ hdr[a].size >= live[p]
      BY <1>4, <2>2
    <3>2. p - Header = a
      BY <1>1, <3>1, HeapConstants
    <3> QED BY <3>1, <3>2
  <2> QED BY <2>1, <2>2 DEF RequestsHonoured
<1> QED BY <1>2, <1>3, <1>4 DEF Honoured

(* A request is answered by a block at a that was free; blocks that appear *)
(* are free and all others stay as they are.                               *)
LEMMA TakeHonours ==
    ASSUME HeapTypeOK, HeapTypeOK', RequestsHonoured, NEW a \in Addrs, hdr[a].free,
           Addrs \subseteq Addrs', \A b \in Addrs' : b \notin Addrs => hdr'[b].free,
           \A b \in Addrs : b # a => hdr'[b] = hdr[b],
           ~hdr'[a].free, req + 7 < Word => hdr'[a].size >= req,
           DOMAIN live' = DOMAIN live \cup {a + 12}, live'[a + 12] = req,
           \A p \in DOMAIN live : p # a + 12 => live'[p] = live[p]
    PROVE  RequestsHonoured'
<1>1. ASSUME NEW b \in Addrs', ~hdr'[b].free
      PROVE  b + 12 \in DOMAIN live'
  BY <1>1, HonouredIs DEF Honoured
<1>2. ASSUME NEW p \in DOMAIN live'
      PROVE  \E b \in Addrs' : /\ p = b + 12 /\ ~hdr'[b].free
                               /\ live'[p] + 7 < Word => hdr'[b].size >= live'[p]
  <2>1. CASE p = a + 12
    BY <2>1
  <2>2. CASE p # a + 12
    <3>1. PICK b \in Addrs : /\ p = b + 12 /\ ~hdr[b].free
                             /\ live[p] + 7 < Word => hdr[b].size >= live[p]
      BY <2>2, HonouredIs DEF Honoured
    <3>2. b # a /\ hdr'[b] = hdr[b] /\ live'[p] = live[p]
      BY <2>2, <3>1
    <3> QED BY <3>1, <3>2
  <2> QED BY <2>1, <2>2
<1>3. RequestsHonoured' <=> Honoured'
  BY HonouredIs, PTL
<1> QED BY <1>1, <1>2, <1>3 DEF Honoured

(* kmalloc takes block a, and splits off its tail at r.                    *)
LEMMA SplitStep ==
    ASSUME HeapInv, ScanTake, Splits(curr)
    PROVE  HeapInv'
<1>1. PICK a \in Addrs : a = curr
  BY DEF ScanTake, HeapInv, HeapTypeOK
<1>2. /\ a \in Nat /\ HeapStart <= a /\ hdr[a].size \in Nat /\ hdr[a].free
      /\ hdr[a].next \in Nat /\ size \in Nat /\ size < Word /\ req \in 0 .. Word - 1
      /\ BlockEnd(a) = a + 12 + hdr[a].size /\ BlockEnd(a) <= HeapEnd
      /\ hdr[a] \in Block
  <2>1. size \in 0 .. Word - 1 /\ req \in 0 .. Word - 1
    BY DEF HeapInv, HeapTypeOK
  <2>2. hdr[a].free
    BY <1>1 DEF ScanTake, Fits
  <2> QED BY <2>1, <2>2, BlockFacts, Successor, HeapConstants DEF HeapInv
<1>3. PICK s \in Nat : s = size
  BY <1>2
<1>4. PICK r \in Nat : r = a + 12 + s
  BY <1>2
<1>5. PICK m \in Nat : m = hdr[a].size - s - 12 /\ m > 8
  <2>1. hdr[a].size - size > 20
    BY <1>1, HeapConstants DEF Splits, Remaining
  <2> QED BY <1>2, <1>3, <2>1
<1>6. r + 12 + m = BlockEnd(a) /\ a < r /\ r < BlockEnd(a) /\ m <= HeapSize /\ s <= HeapSize
  BY <1>2, <1>4, <1>5, HeapConstants
<1>7. r \notin Addrs
  <2>1. r \in Addrs => BlockEnd(a) <= r
    BY <1>6 DEF HeapInv, Apart
  <2> QED BY <1>2, <1>6, <2>1
<1>8. hdr' = [b \in Addrs \cup {r} |->
                IF b = r THEN [size |-> m, next |-> hdr[a].next, free |-> TRUE]
                ELSE IF b = a THEN [size |-> s, next |-> r, free |-> FALSE]
                ELSE hdr[b]]
  <2>1. Remaining(a) - Header = m /\ a + Header + size = r
    BY <1>3, <1>4, <1>5, HeapConstants DEF Remaining
  <2> QED BY <1>1, <1>3, <2>1 DEF ScanTake, Taken
<1>9. /\ Addrs' = Addrs \cup {r}
      /\ hdr'[r] = [size |-> m, next |-> hdr[a].next, free |-> TRUE]
      /\ hdr'[a] = [size |-> s, next |-> r, free |-> FALSE]
      /\ \A b \in Addrs : b # a => hdr'[b] = hdr[b]
  BY <1>6, <1>7, <1>8 DEF Addrs
<1>10. /\ hdr'[r].size = m /\ hdr'[r].next = hdr[a].next /\ hdr'[r].free
       /\ hdr'[a].size = s /\ hdr'[a].next = r /\ ~hdr'[a].free
  BY <1>9
<1>11. BlockEnd(r)' = BlockEnd(a) /\ BlockEnd(a)' = r
       /\ \A b \in Addrs : b # a => BlockEnd(b)' = BlockEnd(b)
  BY <1>4, <1>6, <1>9, <1>10, HeapConstants DEF BlockEnd
<1>12. /\ pc = "scan" /\ pc' = "idle" /\ curr' = Null /\ size' = 0 /\ req' = 0
       /\ DOMAIN live' = DOMAIN live \cup {a + 12} /\ live'[a + 12] = req
       /\ \A p \in DOMAIN live : p # a + 12 => live'[p] = live[p]
       /\ live' = [p \in DOMAIN live \cup {a + 12} |-> IF p = a + 12 THEN req ELSE live[p]]
  BY <1>1, HeapConstants DEF ScanTake, Return
<1>13. HeapTypeOK'
  <2>1. Addrs' \subseteq HeapStart .. HeapEnd - Header
    <3>1. r \in HeapStart .. HeapEnd - Header
      BY <1>2, <1>5, <1>6, HeapConstants
    <3> QED BY <1>9, <3>1 DEF HeapInv, HeapTypeOK
  <2>2. hdr' \in [Addrs' -> Block]
    <3>1. hdr[a].next \in 0 .. HeapEnd /\ r \in 0 .. HeapEnd
      BY <1>2, <1>6, HeapConstants DEF Block
    <3>2. hdr'[r] \in Block
      BY <1>6, <1>9, <3>1, HeapConstants DEF Block
    <3>3. hdr'[a] \in Block
      BY <1>6, <1>9, <3>1, HeapConstants DEF Block
    <3>4. \A b \in Addrs' : hdr'[b] \in Block
      BY <1>9, <3>2, <3>3, BlockFacts DEF HeapInv
    <3> QED BY <1>8, <1>9, <3>4
  <2>3. live' \in [DOMAIN live' -> 0 .. Word - 1]
    BY <1>2, <1>12 DEF HeapInv, HeapTypeOK
  <2> QED BY <1>12, <2>1, <2>2, <2>3, HeapConstants DEF HeapTypeOK
<1>14. Links'
  <2>1. ASSUME NEW b \in Addrs'
        PROVE  /\ BlockEnd(b)' <= HeapEnd
               /\ IF BlockEnd(b)' = HeapEnd
                    THEN hdr'[b].next = Null
                    ELSE hdr'[b].next = BlockEnd(b)' /\ BlockEnd(b)' \in Addrs'
    <3>1. CASE b = r
      BY <1>9, <1>10, <1>11, <3>1 DEF HeapInv, Links
    <3>2. CASE b = a
      BY <1>2, <1>6, <1>9, <1>10, <1>11, <3>2, HeapConstants
    <3>3. CASE b # r /\ b # a
      BY <1>9, <1>11, <3>3 DEF HeapInv, Links
    <3> QED BY <3>1, <3>2, <3>3
  <2>2. HeapStart \in Addrs'
    BY <1>9 DEF HeapInv, Links
  <2> QED BY <2>1, <2>2 DEF Links
<1>15. Apart'
  <2>1. ASSUME NEW b \in Addrs', NEW c \in Addrs', b < c
        PROVE  BlockEnd(b)' <= c
    <3>0. b \in Nat /\ c \in Nat
      BY <1>9, BlockFacts DEF HeapInv
    <3>1. CASE b = r
      <4>1. c \in Addrs /\ a < c
        BY <1>2, <1>6, <1>9, <2>1, <3>0, <3>1
      <4> QED BY <1>11, <3>1, <4>1 DEF HeapInv, Apart
    <3>2. CASE b = a
      <4>1. CASE c = r
        BY <1>11, <3>2, <4>1
      <4>2. CASE c # r
        <5>1. BlockEnd(a) <= c
          BY <1>9, <2>1, <3>2, <4>2 DEF HeapInv, Apart
        <5> QED BY <1>2, <1>6, <1>11, <3>0, <3>2, <5>1
      <4> QED BY <4>1, <4>2
    <3>3. CASE b # r /\ b # a
      <4>1. b \in Addrs /\ BlockEnd(b)' = BlockEnd(b) /\ BlockEnd(b) \in Nat
        BY <1>9, <1>11, <3>3, BlockFacts DEF HeapInv
      <4>2. CASE c = r
        <5>1. b < a => BlockEnd(b) <= a
          BY <4>1 DEF HeapInv, Apart
        <5>2. a < b => BlockEnd(a) <= b
          BY <4>1 DEF HeapInv, Apart
        <5> QED BY <1>2, <1>6, <2>1, <3>0, <3>3, <4>1, <4>2, <5>1, <5>2
      <4>3. CASE c # r
        BY <1>9, <2>1, <4>1, <4>3 DEF HeapInv, Apart
      <4> QED BY <4>2, <4>3
    <3> QED BY <3>1, <3>2, <3>3
  <2> QED BY <2>1 DEF Apart
<1>16. Coalesced' /\ ScanOK' /\ PassOK'
  <2>1. ASSUME NEW b \in Addrs', hdr'[b].next # Null, hdr'[b].free, hdr'[hdr'[b].next].free
        PROVE  FALSE
    <3>1. b # a
      BY <1>10, <2>1
    <3>2. CASE b = r
      <4>1. hdr[a].next # Null /\ hdr[a].next \in Addrs /\ hdr[a].next # a
        BY <1>2, <1>6, <1>10, <2>1, <3>2, Successor DEF HeapInv
      <4>2. hdr[hdr[a].next].free
        BY <1>9, <1>10, <2>1, <3>2, <4>1
      <4> QED BY <1>2, <1>12, <4>1, <4>2 DEF HeapInv, Coalesced
    <3>3. CASE b # r
      <4>1. b \in Addrs /\ hdr'[b] = hdr[b] /\ hdr[b].next \in Addrs
        BY <1>9, <2>1, <3>1, <3>3, Successor DEF HeapInv
      <4>2. hdr[b].next # a
        BY <1>10, <2>1, <4>1
      <4>3. hdr[hdr[b].next].free
        BY <1>9, <2>1, <4>1, <4>2
      <4> QED BY <1>12, <2>1, <4>1, <4>3 DEF HeapInv, Coalesced
    <3> QED BY <3>2, <3>3
  <2> QED BY <1>12, <2>1 DEF Coalesced, ScanOK, PassOK
<1>17. RequestsHonoured'
  <2>1. req + 7 < Word => hdr'[a].size >= req
    BY <1>2, <1>3, <1>10, <1>12, Align8Is DEF HeapInv, ScanOK
  <2>2. Addrs \subseteq Addrs' /\ \A b \in Addrs' : b \notin Addrs => hdr'[b].free
    BY <1>9, <1>10
  <2> QED BY <1>2, <1>9, <1>10, <1>12, <1>13, <2>1, <2>2, TakeHonours DEF HeapInv
<1> QED BY <1>13, <1>14, <1>15, <1>16, <1>17 DEF HeapInv

(* Marking a block used or free moves nothing.                             *)
LEMMA MarkStep ==
    ASSUME HeapTypeOK, Links, Apart, NEW a \in Addrs, NEW f \in BOOLEAN,
           hdr' = [hdr EXCEPT ![a].free = f]
    PROVE  /\ Addrs' = Addrs /\ hdr' \in [Addrs' -> Block]
           /\ \A b \in Addrs : hdr'[b].size = hdr[b].size /\ hdr'[b].next = hdr[b].next
           /\ \A b \in Addrs : b # a => hdr'[b] = hdr[b]
           /\ hdr'[a].free <=> f
           /\ Links' /\ Apart'
<1>1. Addrs' = Addrs /\ \A b \in Addrs : b # a => hdr'[b] = hdr[b]
  BY DEF HeapTypeOK, Addrs
<1>2. hdr'[a] = [hdr[a] EXCEPT !.free = f] /\ hdr[a] \in Block
  BY BlockFacts DEF HeapTypeOK
<1>3. /\ hdr'[a] \in Block /\ (hdr'[a].free <=> f)
      /\ hdr'[a].size = hdr[a].size /\ hdr'[a].next = hdr[a].next
  BY <1>2 DEF Block
<1>4. \A b \in Addrs : hdr'[b].size = hdr[b].size /\ hdr'[b].next = hdr[b].next
  BY <1>1, <1>3
<1>5. hdr' \in [Addrs' -> Block]
  BY <1>1, <1>3, BlockFacts DEF HeapTypeOK
<1>6. \A b \in Addrs : BlockEnd(b)' = BlockEnd(b)
  BY <1>1, <1>4 DEF BlockEnd
<1>7. Links' /\ Apart'
  BY <1>1, <1>4, <1>6 DEF Links, Apart
<1> QED BY <1>1, <1>3, <1>4, <1>5, <1>7

(* kmalloc takes block a whole.                                            *)
LEMMA WholeStep ==
    ASSUME HeapInv, ScanTake, ~Splits(curr)
    PROVE  HeapInv'
<1>1. PICK a \in Addrs : a = curr
  BY DEF ScanTake, HeapInv, HeapTypeOK
<1>2. /\ hdr[a].free /\ hdr[a].size \in Nat /\ hdr[a].size >= size
      /\ size \in Nat /\ req \in 0 .. Word - 1 /\ a \in Nat
  <2>1. size \in 0 .. Word - 1 /\ req \in 0 .. Word - 1
    BY DEF HeapInv, HeapTypeOK
  <2>2. hdr[a].free /\ hdr[a].size >= size
    BY <1>1 DEF ScanTake, Fits
  <2> QED BY <2>1, <2>2, BlockFacts, HeapConstants DEF HeapInv
<1>3. hdr' = [hdr EXCEPT ![a].free = FALSE]
  BY <1>1 DEF ScanTake, Taken
<1>4. /\ Addrs' = Addrs /\ hdr' \in [Addrs' -> Block]
      /\ \A b \in Addrs : hdr'[b].size = hdr[b].size /\ hdr'[b].next = hdr[b].next
      /\ \A b \in Addrs : b # a => hdr'[b] = hdr[b]
      /\ ~hdr'[a].free
      /\ Links' /\ Apart'
  BY <1>3, MarkStep DEF HeapInv
<1>5. /\ pc = "scan" /\ pc' = "idle" /\ curr' = Null /\ size' = 0 /\ req' = 0
      /\ DOMAIN live' = DOMAIN live \cup {a + 12} /\ live'[a + 12] = req
      /\ \A p \in DOMAIN live : p # a + 12 => live'[p] = live[p]
      /\ live' = [p \in DOMAIN live \cup {a + 12} |-> IF p = a + 12 THEN req ELSE live[p]]
  BY <1>1, HeapConstants DEF ScanTake, Return
<1>6. HeapTypeOK'
  <2>1. live' \in [DOMAIN live' -> 0 .. Word - 1]
    BY <1>2, <1>5 DEF HeapInv, HeapTypeOK
  <2>2. Addrs' \subseteq HeapStart .. HeapEnd - Header
    BY <1>4 DEF HeapInv, HeapTypeOK
  <2> QED BY <1>4, <1>5, <2>1, <2>2, HeapConstants DEF HeapTypeOK
<1>7. Coalesced' /\ ScanOK' /\ PassOK'
  <2>1. ASSUME NEW b \in Addrs', hdr'[b].next # Null, hdr'[b].free, hdr'[hdr'[b].next].free
        PROVE  FALSE
    <3>1. b \in Addrs /\ b # a /\ hdr'[b] = hdr[b] /\ hdr[b].next \in Addrs
      BY <1>4, <2>1, Successor DEF HeapInv
    <3>2. hdr[b].next # a /\ hdr[hdr[b].next].free
      BY <1>4, <2>1, <3>1
    <3> QED BY <1>5, <2>1, <3>1, <3>2 DEF HeapInv, Coalesced
  <2> QED BY <1>5, <2>1 DEF Coalesced, ScanOK, PassOK
<1>8. RequestsHonoured'
  <2>1. req + 7 < Word => hdr'[a].size >= req
    <3>1. hdr'[a].size = hdr[a].size /\ size = Align8(req)
      BY <1>4, <1>5 DEF HeapInv, ScanOK
    <3> QED BY <1>2, <3>1, Align8Is
  <2>2. Addrs \subseteq Addrs' /\ \A b \in Addrs' : b \notin Addrs => hdr'[b].free
    BY <1>4
  <2> QED BY <1>2, <1>4, <1>5, <1>6, <2>1, <2>2, TakeHonours DEF HeapInv
<1> QED BY <1>4, <1>6, <1>7, <1>8 DEF HeapInv

(* kfree marks the block of p free and starts the coalescing pass.         *)
LEMMA KfreeStep ==
    ASSUME HeapInv, NEW p \in DOMAIN live, Kfree(p)
    PROVE  HeapInv'
<1>1. PICK a \in Addrs : p = a + 12 /\ a = p - Header
  <2>1. PICK a \in Addrs : p = a + 12
    BY HonouredIs DEF HeapInv, Honoured
  <2> QED BY <2>1, BlockFacts, HeapConstants DEF HeapInv
<1>2. hdr' = [hdr EXCEPT ![a].free = TRUE]
  BY <1>1 DEF Kfree
<1>3. /\ Addrs' = Addrs /\ hdr' \in [Addrs' -> Block]
      /\ \A b \in Addrs : hdr'[b].size = hdr[b].size /\ hdr'[b].next = hdr[b].next
      /\ \A b \in Addrs : b # a => hdr'[b] = hdr[b]
      /\ hdr'[a].free
      /\ Links' /\ Apart'
  BY <1>2, MarkStep DEF HeapInv
<1>4. /\ pc' = "coalesce" /\ curr' = HeapStart /\ size' = size /\ req' = req
      /\ live' = [q \in DOMAIN live \ {p} |-> live[q]]
      /\ DOMAIN live' = DOMAIN live \ {p}
      /\ \A q \in DOMAIN live : q # p => live'[q] = live[q]
  BY DEF Kfree
<1>5. HeapTypeOK'
  <2>1. live' \in [DOMAIN live' -> 0 .. Word - 1]
    BY <1>4 DEF HeapInv, HeapTypeOK
  <2>2. Addrs' \subseteq HeapStart .. HeapEnd - Header
    BY <1>3 DEF HeapInv, HeapTypeOK
  <2>3. HeapStart \in Addrs'
    BY <1>3 DEF Links
  <2> QED BY <1>3, <1>4, <2>1, <2>2, <2>3 DEF HeapInv, HeapTypeOK
<1>6. Coalesced' /\ ScanOK' /\ PassOK'
  <2>1. \A b \in Addrs' : HeapStart <= b
    BY <1>3, BlockFacts DEF HeapInv
  <2> QED BY <1>4, <2>1, HeapConstants DEF Coalesced, ScanOK, PassOK
<1>7. RequestsHonoured'
  <2>1. ASSUME NEW b \in Addrs', ~hdr'[b].free
        PROVE  b + 12 \in DOMAIN live'
    <3>1. b \in Addrs /\ b # a /\ ~hdr[b].free
      BY <1>3, <2>1
    <3>2. b + 12 \in DOMAIN live
      BY <3>1, HonouredIs DEF HeapInv, Honoured
    <3>3. b + 12 # p
      <4>1. a \in Nat /\ b \in Nat
        BY <3>1, BlockFacts DEF HeapInv
      <4> QED BY <1>1, <3>1, <4>1
    <3> QED BY <1>4, <3>2, <3>3
  <2>2. ASSUME NEW q \in DOMAIN live'
        PROVE  \E b \in Addrs' : /\ q = b + 12 /\ ~hdr'[b].free
                                 /\ live'[q] + 7 < Word => hdr'[b].size >= live'[q]
    <3>1. q \in DOMAIN live /\ q # p /\ live'[q] = live[q]
      BY <1>4
    <3>2. PICK b \in Addrs : /\ q = b + 12 /\ ~hdr[b].free
                             /\ live[q] + 7 < Word => hdr[b].size >= live[q]
      BY <3>1, HonouredIs DEF HeapInv, Honoured
    <3>3. b # a
      BY <1>1, <3>1, <3>2
    <3> QED BY <1>3, <3>1, <3>2, <3>3
  <2>3. RequestsHonoured' <=> Honoured'
    BY <1>5, HonouredIs, PTL
  <2> QED BY <2>1, <2>2, <2>3 DEF Honoured
<1> QED BY <1>3, <1>5, <1>6, <1>7 DEF HeapInv

(* The pass merges the cursor's block with its successor n.                *)
LEMMA CoalesceMergeStep ==
    ASSUME HeapInv, CoalesceMerge
    PROVE  HeapInv'
<1>1. PICK a \in Addrs : a = curr
  BY DEF CoalesceMerge, InPass, HeapInv, HeapTypeOK
<1>2. PICK n \in Addrs : n = hdr[a].next /\ n = BlockEnd(a)
  <2>1. hdr[a].next # Null
    BY <1>1 DEF CoalesceMerge, InPass
  <2> QED BY <2>1, Successor DEF HeapInv
<1>3. /\ a \in Nat /\ n \in Nat /\ HeapStart <= a /\ hdr[a].size \in Nat /\ hdr[n].size \in Nat
      /\ n = a + 12 + hdr[a].size /\ a < n /\ hdr[n] \in Block
      /\ BlockEnd(n) = n + 12 + hdr[n].size /\ BlockEnd(n) <= HeapEnd
  BY <1>2, BlockFacts, Successor DEF HeapInv
<1>4. hdr[a].free /\ hdr[n].free
  BY <1>1, <1>2 DEF CoalesceMerge, Mergeable
<1>5. PICK m \in Nat : m = hdr[a].size + 12 + hdr[n].size
  BY <1>3
<1>6. hdr' = [b \in Addrs \ {n} |->
                IF b = a THEN [size |-> m, next |-> hdr[n].next, free |-> hdr[a].free]
                ELSE hdr[b]]
  BY <1>1, <1>2, <1>5, HeapConstants DEF CoalesceMerge, Merged
<1>7. /\ Addrs' = Addrs \ {n}
      /\ hdr'[a] = [size |-> m, next |-> hdr[n].next, free |-> hdr[a].free]
      /\ \A b \in Addrs \ {n} : b # a => hdr'[b] = hdr[b]
  BY <1>3, <1>6 DEF Addrs
<1>8. a \in Addrs' /\ hdr'[a].size = m /\ hdr'[a].next = hdr[n].next /\ hdr'[a].free
  BY <1>3, <1>4, <1>7
<1>9. BlockEnd(a)' = BlockEnd(n) /\ \A b \in Addrs \ {n} : b # a => BlockEnd(b)' = BlockEnd(b)
  BY <1>3, <1>5, <1>7, <1>8, HeapConstants DEF BlockEnd
<1>10. pc = "coalesce" /\ UNCHANGED <<pc, curr, size, req, live>>
  BY DEF CoalesceMerge, InPass
<1>11. ASSUME NEW b \in Addrs, b # a
       PROVE  BlockEnd(b) # n
  <2>1. b \in Nat /\ BlockEnd(b) \in Nat /\ b < BlockEnd(b)
    BY BlockFacts DEF HeapInv
  <2>2. (b < a => BlockEnd(b) <= a) /\ (a < b => BlockEnd(a) <= b)
    BY DEF HeapInv, Apart
  <2> QED BY <1>2, <1>3, <1>11, <2>1, <2>2
<1>12. HeapTypeOK'
  <2>1. Addrs' \subseteq HeapStart .. HeapEnd - Header
    BY <1>7 DEF HeapInv, HeapTypeOK
  <2>2. hdr' \in [Addrs' -> Block]
    <3>1. m \in 0 .. HeapSize
      BY <1>3, <1>5, HeapConstants
    <3>2. hdr[n].next \in 0 .. HeapEnd /\ hdr[a].free \in BOOLEAN
      BY <1>3, BlockFacts DEF Block, HeapInv
    <3>3. hdr'[a] \in Block
      BY <1>7, <3>1, <3>2 DEF Block
    <3>4. \A b \in Addrs' : hdr'[b] \in Block
      BY <1>7, <3>3, BlockFacts DEF HeapInv
    <3> QED BY <1>6, <1>7, <3>4
  <2>3. curr' \in Addrs' \cup {Null}
    BY <1>1, <1>8, <1>10
  <2> QED BY <1>10, <2>1, <2>2, <2>3 DEF HeapInv, HeapTypeOK
<1>13. Links'
  <2>1. HeapStart \in Addrs'
    BY <1>3, <1>7, HeapConstants DEF HeapInv, Links
  <2>2. ASSUME NEW b \in Addrs'
        PROVE  /\ BlockEnd(b)' <= HeapEnd
               /\ IF BlockEnd(b)' = HeapEnd
                    THEN hdr'[b].next = Null
                    ELSE hdr'[b].next = BlockEnd(b)' /\ BlockEnd(b)' \in Addrs'
    <3>1. CASE b = a
      <4>1. BlockEnd(n) # n
        BY <1>3
      <4> QED BY <1>7, <1>8, <1>9, <3>1, <4>1 DEF HeapInv, Links
    <3>2. CASE b # a
      BY <1>7, <1>9, <1>11, <3>2 DEF HeapInv, Links
    <3> QED BY <3>1, <3>2
  <2> QED BY <2>1, <2>2 DEF Links
<1>14. Apart'
  <2>1. ASSUME NEW b \in Addrs', NEW c \in Addrs', b < c
        PROVE  BlockEnd(b)' <= c
    <3>1. CASE b = a
      <4>1. n <= c /\ c # n /\ c \in Nat
        BY <1>2, <1>7, <2>1, <3>1, BlockFacts DEF HeapInv, Apart
      <4>2. n < c
        BY <1>3, <4>1
      <4> QED BY <1>7, <1>9, <3>1, <4>2 DEF HeapInv, Apart
    <3>2. CASE b # a
      BY <1>7, <1>9, <2>1, <3>2 DEF HeapInv, Apart
    <3> QED BY <3>1, <3>2
  <2> QED BY <2>1 DEF Apart
<1>15. Coalesced'
  <2>1. ASSUME NEW b \in Addrs', hdr'[b].next # Null, hdr'[b].free, hdr'[hdr'[b].next].free
        PROVE  curr <= b
    <3>1. CASE b = a
      BY <1>1, <1>3, <3>1
    <3>2. CASE b # a
      <4>1. /\ b \in Addrs /\ hdr'[b] = hdr[b] /\ hdr[b].next \in Addrs
            /\ hdr[b].next # n
        BY <1>7, <1>11, <2>1, <3>2, Successor DEF HeapInv
      <4>2. hdr[hdr[b].next].free
        BY <1>4, <1>7, <2>1, <4>1
      <4> QED BY <2>1, <4>1, <4>2 DEF HeapInv, Coalesced
    <3> QED BY <3>1, <3>2
  <2> QED BY <1>10, <2>1 DEF Coalesced
<1>16. ScanOK' /\ PassOK'
  BY <1>10 DEF HeapInv, ScanOK, PassOK
<1>17. RequestsHonoured'
  <2>1. ASSUME NEW b \in Addrs', ~hdr'[b].free
        PROVE  b + 12 \in DOMAIN live'
    <3>1. b \in Addrs /\ ~hdr[b].free
      BY <1>7, <1>8, <2>1
    <3> QED BY <1>10, <3>1, HonouredIs DEF HeapInv, Honoured
  <2>2. ASSUME NEW q \in DOMAIN live'
        PROVE  \E b \in Addrs' : /\ q = b + 12 /\ ~hdr'[b].free
                                 /\ live'[q] + 7 < Word => hdr'[b].size >= live'[q]
    <3>1. PICK b \in Addrs : /\ q = b + 12 /\ ~hdr[b].free
                             /\ live[q] + 7 < Word => hdr[b].size >= live[q]
      BY <1>10, HonouredIs DEF HeapInv, Honoured
    <3>2. b # a /\ b # n
      BY <1>4, <3>1
    <3> QED BY <1>7, <1>10, <3>1, <3>2
  <2>3. RequestsHonoured' <=> Honoured'
    BY <1>12, HonouredIs, PTL
  <2> QED BY <2>1, <2>2, <2>3 DEF Honoured
<1> QED BY <1>12, <1>13, <1>14, <1>15, <1>16, <1>17 DEF HeapInv

-----------------------------------------------------------------------------
LEMMA InvStep == HeapInv /\ [HeapNext]_heapVars => HeapInv'
<1> SUFFICES ASSUME HeapInv, [HeapNext]_heapVars PROVE HeapInv'
  OBVIOUS
<1>1. ASSUME NEW n \in Requests, Kmalloc(n) PROVE HeapInv'
  BY <1>1, KmallocStep
<1>2. ASSUME NEW p \in DOMAIN live, Kfree(p) PROVE HeapInv'
  BY <1>2, KfreeStep
<1>3. CASE ScanTake
  BY <1>3, SplitStep, WholeStep
<1>4. CASE ScanNext
  BY <1>4, ScanNextStep
<1>5. CASE ScanFail
  <2>1. \A a \in Addrs : ~(hdr[a].next # Null /\ hdr[a].free /\ hdr[hdr[a].next].free)
    BY <1>5 DEF ScanFail, HeapInv, Coalesced
  <2>2. Return /\ UNCHANGED <<hdr, live>>
    BY <1>5 DEF ScanFail
  <2> QED BY <2>1, <2>2, ReturnStep
<1>6. CASE CoalesceMerge
  BY <1>6, CoalesceMergeStep
<1>7. CASE CoalesceNext
  BY <1>7, CoalesceNextStep
<1>8. CASE CoalesceDone
  <2>1. curr \in Addrs /\ hdr[curr].next = Null
    BY <1>8 DEF CoalesceDone, InPass, HeapInv, PassOK, HeapTypeOK
  <2>2. ASSUME NEW a \in Addrs, hdr[a].next # Null, hdr[a].free, hdr[hdr[a].next].free
        PROVE  FALSE
    <3>1. curr <= a
      BY <2>2 DEF HeapInv, Coalesced
    <3>2. curr # a
      BY <2>1, <2>2
    <3>3. BlockEnd(curr) = HeapEnd /\ curr \in Nat /\ a \in Nat /\ a + 12 <= HeapEnd
      BY <2>1, Successor, BlockFacts DEF HeapInv
    <3>4. HeapEnd <= a
      <4>1. curr < a
        BY <3>1, <3>2, <3>3
      <4> QED BY <2>1, <3>3, <4>1 DEF HeapInv, Apart
    <3> QED BY <3>3, <3>4, HeapConstants
  <2>3. Return /\ UNCHANGED <<hdr, live>>
    BY <1>8 DEF CoalesceDone
  <2> QED BY <2>2, <2>3, ReturnStep
<1>9. CASE UNCHANGED heapVars
  BY <1>9 DEF heapVars, HeapInv, HeapTypeOK, Links, Apart, Coalesced, ScanOK, PassOK, RequestsHonoured,
     Addrs, BlockEnd, Fits
<1> QED BY <1>1, <1>2, <1>3, <1>4, <1>5, <1>6, <1>7, <1>8, <1>9 DEF HeapNext

LEMMA AlwaysHeapInv == HeapSpec => []HeapInv
BY HeapInitInv, InvStep, PTL DEF HeapSpec

-----------------------------------------------------------------------------
(* heap_stats.  What it adds for block a to the sums over a's successors.  *)
NoBlocks == [used |-> 0, free |-> 0, blocks |-> 0, free_blocks |-> 0]
AddBlock(a, rest) ==
    IF hdr[a].free
      THEN [rest EXCEPT !.free = @ + hdr[a].size, !.blocks = @ + 1, !.free_blocks = @ + 1]
      ELSE [rest EXCEPT !.used = @ + hdr[a].size, !.blocks = @ + 1]
Adds(f, a) == IF a = Null THEN NoBlocks ELSE AddBlock(a, f[hdr[a].next])

(* The list runs upwards, so the walk is well defined.                     *)
LEMMA WalkIs ==
    ASSUME HeapInv
    PROVE  HeapStats = [a \in Addrs \cup {Null} |-> Adds(HeapStats, a)]
<1> DEFINE D == Addrs \cup {Null}
<1> DEFINE Low(k) == {a \in D : a = Null \/ HeapEnd - a <= k}
<1> DEFINE Walks(f, k) == DOMAIN f = D /\ f = [a \in D |-> f[a]]
                           /\ \A a \in Low(k) : f[a] = Adds(f, a)
<1> DEFINE P(k) == \E f : Walks(f, k)
<1>1. ASSUME NEW a \in D, a # Null, NEW k \in Nat, HeapEnd - a <= k + 1
      PROVE  hdr[a].next \in Low(k)
  <2>1. a \in Addrs /\ a \in Nat /\ a < BlockEnd(a) /\ BlockEnd(a) \in Nat
    BY <1>1, BlockFacts DEF HeapInv
  <2>2. CASE hdr[a].next = Null
    BY <2>2
  <2>3. CASE hdr[a].next # Null
    <3>1. hdr[a].next = BlockEnd(a) /\ BlockEnd(a) \in D
      BY <2>1, <2>3, Successor DEF HeapInv
    <3> QED BY <1>1, <2>1, <3>1, HeapConstants
  <2> QED BY <2>2, <2>3
<1>2. P(0)
  <2> DEFINE f == [a \in D |-> NoBlocks]
  <2>1. \A a \in D : a # Null => ~(HeapEnd - a <= 0)
    BY BlockFacts, HeapConstants DEF HeapInv
  <2>2. \A a \in Low(0) : f[a] = Adds(f, a)
    BY <2>1 DEF Adds
  <2>3. DOMAIN f = D /\ f = [a \in D |-> f[a]]
    OBVIOUS
  <2> QED BY <2>2, <2>3
<1>3. ASSUME NEW k \in Nat, P(k)
      PROVE  P(k + 1)
  <2>1. PICK f : Walks(f, k)
    BY <1>3
  <2> DEFINE h == [a \in D |-> IF a \in Low(k) THEN f[a] ELSE Adds(f, a)]
  <2>2. ASSUME NEW a \in Low(k + 1)
        PROVE  h[a] = Adds(h, a)
    <3>1. CASE a = Null
      BY <2>1, <3>1 DEF Adds
    <3>2. CASE a # Null
      <4>1. hdr[a].next \in Low(k) /\ hdr[a].next \in D
        BY <1>1, <2>2, <3>2
      <4>2. h[hdr[a].next] = f[hdr[a].next]
        BY <4>1
      <4>3. Adds(h, a) = Adds(f, a)
        <5> HIDE DEF h
        <5> QED BY <4>2 DEF Adds
      <4>4. h[a] = Adds(f, a)
        BY <2>1, <2>2
      <4> QED BY <4>3, <4>4
    <3> QED BY <3>1, <3>2
  <2>3. DOMAIN h = D /\ h = [a \in D |-> h[a]]
    OBVIOUS
  <2>4. Walks(h, k + 1)
    BY <2>2, <2>3
  <2> QED BY <2>4
<1>4. P(HeapEnd)
  <2> HIDE DEF P
  <2> DEFINE B == {k \in Nat : ~P(k)}
  <2>1. SUFFICES ASSUME B # {} PROVE FALSE
    BY HeapConstants
  <2>2. PICK k \in B : \A j \in B : k <= j
    <3>1. B \subseteq Nat
      OBVIOUS
    <3> HIDE DEF B
    <3> QED BY <2>1, <3>1, LeastNatural
  <2>3. k \in Nat /\ k # 0
    BY <1>2, <2>2
  <2>4. k - 1 \in Nat /\ k - 1 \notin B
    BY <2>2, <2>3
  <2>5. P((k - 1) + 1)
    BY <1>3, <2>4
  <2> QED BY <2>2, <2>3, <2>5
<1>5. PICK w : Walks(w, HeapEnd)
  BY <1>4
<1>6. \A a \in D : a \in Low(HeapEnd)
  BY BlockFacts, HeapConstants DEF HeapInv
<1>7. w = [a \in D |-> Adds(w, a)]
  <2>1. \A a \in D : w[a] = Adds(w, a)
    BY <1>5, <1>6
  <2> QED BY <1>5, <2>1
<1>8. HeapStats = CHOOSE f : f = [a \in D |-> Adds(f, a)]
  BY DEF HeapStats, Adds, AddBlock, NoBlocks
<1> QED BY <1>7, <1>8, Zenon

(* From any block on, the sums account for every byte up to the heap's end.*)
LEMMA StatsAddUp ==
    ASSUME HeapInv
    PROVE  Stats.used + Stats.free + Stats.blocks * Header = HeapSize
<1> DEFINE D == Addrs \cup {Null}
<1> DEFINE Sums == [used : Nat, free : Nat, blocks : Nat, free_blocks : Nat]
<1> DEFINE Q(a, s) == s \in Sums /\ s.used + s.free + s.blocks * 12
                                      = IF a = Null THEN 0 ELSE HeapEnd - a
<1>1. \A a \in D : HeapStats[a] = Adds(HeapStats, a)
  BY WalkIs, Zenon
<1>2. Q(Null, HeapStats[Null])
  <2>1. HeapStats[Null] = NoBlocks
    BY <1>1 DEF Adds
  <2> QED BY <2>1 DEF NoBlocks
<1>3. ASSUME NEW a \in Addrs, Q(hdr[a].next, HeapStats[hdr[a].next])
      PROVE  Q(a, HeapStats[a])
  <2>1. /\ a \in Nat /\ a # Null /\ hdr[a].size \in Nat /\ hdr[a].free \in BOOLEAN
        /\ BlockEnd(a) = a + 12 + hdr[a].size
    BY BlockFacts, HeapConstants DEF HeapInv
  <2>2. PICK z \in Nat : z = hdr[a].size
    BY <2>1
  <2>3. PICK s \in Sums : s = HeapStats[hdr[a].next]
    BY <1>3
  <2>4. s.used + s.free + s.blocks * 12 = HeapEnd - (a + 12 + z)
    <3>1. CASE hdr[a].next = Null
      BY <1>3, <2>1, <2>2, <2>3, <3>1, Successor, HeapConstants DEF HeapInv
    <3>2. CASE hdr[a].next # Null
      BY <1>3, <2>1, <2>2, <2>3, <3>2, Successor DEF HeapInv
    <3> QED BY <3>1, <3>2
  <2>5. HeapStats[a] = AddBlock(a, s)
    BY <1>1, <2>1, <2>3 DEF Adds
  <2>6. s.used \in Nat /\ s.free \in Nat /\ s.blocks \in Nat /\ s.free_blocks \in Nat
    OBVIOUS
  <2>7. CASE hdr[a].free
    <3>1. HeapStats[a] = [s EXCEPT !.free = @ + z, !.blocks = @ + 1, !.free_blocks = @ + 1]
      BY <2>2, <2>5, <2>7 DEF AddBlock
    <3>2. HeapStats[a] \in Sums
      <4>1. HeapStats[a] = [used |-> s.used, free |-> s.free + z,
                            blocks |-> s.blocks + 1, free_blocks |-> s.free_blocks + 1]
        BY <3>1
      <4>2. s.used \in Nat /\ s.free + z \in Nat /\ s.blocks + 1 \in Nat /\ s.free_blocks + 1 \in Nat
        BY <2>6
      <4> QED BY <4>1, <4>2
    <3>3. /\ HeapStats[a].free = s.free + z /\ HeapStats[a].used = s.used
          /\ HeapStats[a].blocks = s.blocks + 1
      BY <3>1
    <3>4. HeapStats[a].used + HeapStats[a].free + HeapStats[a].blocks * 12 = HeapEnd - a
      BY <2>1, <2>4, <2>6, <3>3, HeapConstants
    <3> QED BY <2>1, <3>2, <3>4
  <2>8. CASE ~hdr[a].free
    <3>1. HeapStats[a] = [s EXCEPT !.used = @ + z, !.blocks = @ + 1]
      BY <2>2, <2>5, <2>8 DEF AddBlock
    <3>2. HeapStats[a] \in Sums
      <4>1. HeapStats[a] = [used |-> s.used + z, free |-> s.free,
                            blocks |-> s.blocks + 1, free_blocks |-> s.free_blocks]
        BY <3>1
      <4>2. s.used + z \in Nat /\ s.free \in Nat /\ s.blocks + 1 \in Nat /\ s.free_blocks \in Nat
        BY <2>6
      <4> QED BY <4>1, <4>2
    <3>3. /\ HeapStats[a].used = s.used + z /\ HeapStats[a].free = s.free
          /\ HeapStats[a].blocks = s.blocks + 1
      BY <3>1
    <3>4. HeapStats[a].used + HeapStats[a].free + HeapStats[a].blocks * 12 = HeapEnd - a
      BY <2>1, <2>4, <2>6, <3>3, HeapConstants
    <3> QED BY <2>1, <3>2, <3>4
  <2> QED BY <2>7, <2>8
<1>4. \A a \in Addrs : Q(a, HeapStats[a])
  <2> HIDE DEF Q
  <2>1. SUFFICES ASSUME NEW a0 \in Addrs, ~Q(a0, HeapStats[a0]) PROVE FALSE
    OBVIOUS
  <2> DEFINE B == {k \in Nat : \E a \in Addrs : k = HeapEnd - a /\ ~Q(a, HeapStats[a])}
  <2>2. B \subseteq Nat /\ B # {}
    <3>1. HeapEnd - a0 \in Nat
      BY BlockFacts, HeapConstants DEF HeapInv
    <3>2. HeapEnd - a0 \in B
      BY <2>1, <3>1
    <3> QED BY <3>2
  <2>3. PICK k \in B : \A j \in B : k <= j
    <3> HIDE DEF B
    <3> QED BY <2>2, LeastNatural
  <2>4. PICK a \in Addrs : k = HeapEnd - a /\ ~Q(a, HeapStats[a])
    BY <2>3
  <2>5. hdr[a].next # Null
    BY <1>2, <1>3, <2>4
  <2>6. PICK n \in Addrs : n = hdr[a].next /\ n = BlockEnd(a)
    BY <2>5, Successor DEF HeapInv
  <2>7. a \in Nat /\ n \in Nat /\ a < n /\ n <= HeapEnd
    BY <2>6, BlockFacts, HeapConstants DEF HeapInv
  <2>8. HeapEnd - n \in Nat /\ ~(k <= HeapEnd - n)
    BY <2>4, <2>7, HeapConstants
  <2>9. HeapEnd - n \notin B
    BY <2>3, <2>8
  <2>10. Q(n, HeapStats[n])
    BY <2>8, <2>9
  <2> QED BY <1>3, <2>4, <2>6, <2>10
<1>5. HeapStart \in Addrs /\ HeapStart # Null
  BY HeapConstants DEF HeapInv, Links
<1>6. Q(HeapStart, HeapStats[HeapStart])
  <2> HIDE DEF Q
  <2> QED BY <1>4, <1>5
<1>7. Stats.used + Stats.free + Stats.blocks * 12 = HeapEnd - HeapStart
  BY <1>5, <1>6 DEF Stats
<1> QED BY <1>7, HeapConstants

-----------------------------------------------------------------------------
(* The list of headers tiles the heap whatever is allocated and freed, and *)
(* heap_stats accounts for every byte of it.                               *)
THEOREM HeapTiled == HeapSpec => []Tiled
<1>1. HeapInv => Tiled
  <2> SUFFICES ASSUME HeapInv PROVE Tiled
    OBVIOUS
  <2>1. HeapTypeOK /\ Links /\ Apart
    BY DEF HeapInv
  <2> QED BY <2>1, StatsAddUp DEF Tiled, Links, Apart
<1> QED BY <1>1, AlwaysHeapInv, PTL

(* Every pointer kmalloc has handed out and kfree has not taken back has a *)
(* block of its own, marked used and as large as the request, and no other *)
(* block is in use: splitting and coalescing neither lose nor shrink one.  *)
THEOREM RequestsAnswered == HeapSpec => []RequestsHonoured
<1>1. HeapInv => RequestsHonoured
  BY DEF HeapInv
<1> QED BY <1>1, AlwaysHeapInv, PTL

(* kmalloc gives up only when no stretch of adjacent free memory could     *)
(* hold the aligned request.                                               *)
THEOREM OnlyWhenFull == HeapSpec => FailsOnlyWhenFull
<1> DEFINE Full == \A a, b \in Addrs :
                     a <= b /\ (\A c \in Adjacent(a, b) : hdr[c].free)
                       => BlockEnd(b) - (a + Header) < size
<1>1. HeapInv => (ScanFail => Full)
  <2> SUFFICES ASSUME HeapInv, ScanFail, NEW a \in Addrs, NEW b \in Addrs,
                      a <= b, \A c \in Adjacent(a, b) : hdr[c].free
               PROVE  BlockEnd(b) - (a + Header) < size
    OBVIOUS
  <2>1. /\ a \in Nat /\ b \in Nat /\ b + 12 <= HeapEnd
        /\ BlockEnd(a) \in Nat /\ a < BlockEnd(a)
        /\ BlockEnd(b) = b + 12 + hdr[b].size /\ hdr[b].size \in Nat
    BY BlockFacts DEF HeapInv
  <2>2. hdr[a].free
    BY <2>1 DEF Adjacent
  <2>3. a = b
    <3>1. SUFFICES ASSUME a # b PROVE FALSE
      OBVIOUS
    <3>2. a < b
      BY <2>1, <3>1
    <3>3. BlockEnd(a) <= b
      BY <3>2 DEF HeapInv, Apart
    <3>4. BlockEnd(a) # HeapEnd
      BY <2>1, <3>3, HeapConstants
    <3>5. hdr[a].next # Null /\ hdr[a].next = BlockEnd(a) /\ BlockEnd(a) \in Addrs
      BY <3>4, Successor DEF HeapInv
    <3>6. hdr[BlockEnd(a)].free
      BY <2>1, <3>3, <3>5 DEF Adjacent
    <3> QED BY <2>2, <3>5, <3>6 DEF HeapInv, Coalesced, ScanFail
  <2>4. size \in Nat
    <3>1. size \in 0 .. Word - 1
      BY DEF HeapInv, HeapTypeOK
    <3> QED BY <3>1, HeapConstants
  <2>5. ~(hdr[b].size >= size)
    BY <2>2, <2>3 DEF HeapInv, ScanOK, ScanFail, Fits
  <2> QED BY <2>1, <2>3, <2>4, <2>5, HeapConstants
<1>2. HeapInv => [ScanFail => Full]_heapVars
  BY <1>1
<1> QED BY <1>2, AlwaysHeapInv, PTL DEF FailsOnlyWhenFull

-----------------------------------------------------------------------------
(* The frame allocator.                                                    *)

LEMMA FrameConstants ==
    /\ FrameSize \in Nat /\ FrameSize > 0 /\ WordBits \in Nat /\ WordBits > 0
    /\ WordBytes \in Nat /\ WordBytes > 0 /\ AddrSpace \in Nat /\ AddrSpace > 0
    /\ AddrSpace % FrameSize = 0
    /\ KernelEnd \in Nat /\ KernelEnd + FrameSize <= AddrSpace
    /\ \A r \in MbRegions : r.addr \in Nat /\ r.end \in Nat /\ r.addr <= r.end
BY FrameAssumption

-----------------------------------------------------------------------------
(* Rounding.                                                               *)

(* align_up, where the sum does not wrap: the next multiple of the size.   *)
LEMMA AlignUpIs ==
    ASSUME NEW x \in Nat, x + FrameSize <= AddrSpace
    PROVE  /\ AlignUp(x) \in Nat /\ x <= AlignUp(x)
           /\ \A k \in Nat : AlignUp(x) <= k * FrameSize <=> x <= k * FrameSize
<1>1. PICK d \in Nat, a \in Nat : d = FrameSize /\ a = AddrSpace /\ d > 0
  BY FrameConstants
<1>2. (x + d - 1) % a = x + d - 1 /\ x + d - 1 \in Nat
  BY <1>1
<1>3. PICK j \in Nat : j = (x + d - 1) \div d
  BY <1>1, <1>2, DivIs
<1>4. j * d <= x + d - 1 /\ x + d - 1 < j * d + d
  BY <1>1, <1>2, <1>3, DivIs
<1>5. AlignUp(x) = j * d
  BY <1>1, <1>2, <1>3 DEF AlignUp
<1>6. ASSUME NEW k \in Nat
      PROVE  j * d <= k * d <=> x <= k * d
  <2>1. j * d \in Nat /\ k * d \in Nat
    OBVIOUS
  <2>2. CASE j <= k
    <3>1. j = k \/ j * d + d <= k * d
      BY <2>2, MulMono
    <3> QED BY <3>1, <2>1, <1>1, <1>4
  <2>3. CASE j > k
    <3>1. k * d + d <= j * d
      BY <2>3, MulMono
    <3> QED BY <3>1, <2>1, <1>1, <1>4
  <2> QED BY <2>2, <2>3
<1>7. j * d \in Nat
  OBVIOUS
<1>8. x <= j * d
  BY <1>6, <1>7
<1> QED BY <1>1, <1>5, <1>6, <1>7, <1>8

(* In the last frame of the address space it wraps.                        *)
LEMMA AlignUpWraps ==
    ASSUME NEW x \in Nat, x < AddrSpace, AddrSpace < x + FrameSize
    PROVE  AlignUp(x) = 0
<1>1. PICK d \in Nat, a \in Nat : d = FrameSize /\ a = AddrSpace /\ d > 0 /\ a > 0
  BY FrameConstants
<1>2. (x + d - 1) % a = x + d - 1 - a /\ x + d - 1 - a \in 0 .. d - 1
  <2>1. d <= a
    <3>1. a % d = 0
      BY <1>1, FrameConstants
    <3>2. a < d => a % d = a
      BY <1>1
    <3> QED BY <1>1, <3>1, <3>2
  <2>2. a <= x + d - 1 /\ x + d - 1 < a + a
    BY <1>1, <2>1
  <2> QED BY <1>1, <2>2
<1>3. (x + d - 1 - a) \div d = 0
  BY <1>1, <1>2
<1> QED BY <1>1, <1>2, <1>3 DEF AlignUp

(* The frames of a region that ends below the last frame.                  *)
LEMMA RegionFramesAre ==
    ASSUME NEW start \in Nat, NEW end \in Nat, start <= end, end + FrameSize <= AddrSpace
    PROVE  \A f \in Nat : f \in RegionFrames(start, end) <=>
                            start <= f * FrameSize /\ f * FrameSize < end
<1>1. PICK d \in Nat, a \in Nat : d = FrameSize /\ a = AddrSpace /\ d > 0 /\ a > 0
  BY FrameConstants
<1>2. end % a = end
  BY <1>1
<1>3. ASSUME NEW f \in Nat, f * d < end
      PROVE  f \in 0 .. a \div d - 1
  <2>1. PICK n \in Nat : n = a \div d /\ a < n * d + d
    BY <1>1, DivIs
  <2>2. f * d + d < a
    BY <1>1, <1>3
  <2>3. f < n
    <3>1. f = n \/ n < f \/ f < n
      OBVIOUS
    <3>2. n < f => n * d + d <= f * d
      BY MulMono
    <3>3. n * d \in Nat /\ f * d \in Nat
      OBVIOUS
    <3> QED BY <3>1, <3>2, <3>3, <2>1, <2>2, <1>1
  <2> QED BY <2>1, <2>3
<1>4. /\ AlignUp(start) \in Nat /\ AlignUp(end) \in Nat
      /\ \A k \in Nat : AlignUp(start) <= k * d <=> start <= k * d
      /\ \A k \in Nat : AlignUp(end) <= k * d <=> end <= k * d
  <2>1. start + FrameSize <= AddrSpace
    BY FrameConstants
  <2>2. /\ AlignUp(start) \in Nat
        /\ \A k \in Nat : AlignUp(start) <= k * FrameSize <=> start <= k * FrameSize
    BY <2>1, AlignUpIs
  <2>3. /\ AlignUp(end) \in Nat
        /\ \A k \in Nat : AlignUp(end) <= k * FrameSize <=> end <= k * FrameSize
    BY AlignUpIs
  <2> QED BY <1>1, <2>2, <2>3, Zenon
<1>5. ASSUME NEW f \in Nat
      PROVE  f * d < AlignUp(end) <=> f * d < end
  <2>1. f * d \in Nat
    OBVIOUS
  <2> QED BY <2>1, <1>4
<1>6. \A f : f \in RegionFrames(start, end) <=>
               /\ f \in 0 .. a \div d - 1
               /\ AlignUp(start) <= f * d /\ f * d < AlignUp(end)
  BY <1>1, <1>2 DEF RegionFrames
<1> QED BY <1>1, <1>3, <1>4, <1>5, <1>6

(* Only frames that lie between the region's ends are touched, even where  *)
(* the end is the end of the address space: then none is.                  *)
LEMMA RegionFramesWithin ==
    ASSUME NEW start \in Nat, NEW end \in Nat, start < end, end <= AddrSpace,
           NEW f \in RegionFrames(start, end)
    PROVE  /\ f \in Nat /\ end + FrameSize <= AddrSpace
           /\ start <= f * FrameSize /\ f * FrameSize < end
<1>1. f \in Nat /\ f * FrameSize < AlignUp(end % AddrSpace) /\ f * FrameSize \in Nat
  BY FrameConstants DEF RegionFrames
<1>2. CASE end + FrameSize <= AddrSpace
  BY <1>1, <1>2, RegionFramesAre
<1>3. CASE AddrSpace < end + FrameSize /\ end < AddrSpace
  <2>1. end % AddrSpace = end
    BY <1>3, FrameConstants
  <2>2. AlignUp(end) = 0
    BY <1>3, AlignUpWraps
  <2> QED BY <1>1, <2>1, <2>2
<1>4. CASE end = AddrSpace
  <2>1. AddrSpace % AddrSpace = 0
    BY FrameConstants
  <2>2. AlignUp(0) = 0
    <3>1. PICK d \in Nat, a \in Nat : d = FrameSize /\ a = AddrSpace /\ d > 0 /\ a > 0
      BY FrameConstants
    <3>2. d <= a /\ a % d = 0
      <4>1. a % d = 0
        BY <3>1, FrameConstants
      <4>2. a < d => a % d = a
        BY <3>1
      <4> QED BY <3>1, <4>1, <4>2
    <3>3. (0 + d - 1) % a = d - 1 /\ (d - 1) \div d = 0
      BY <3>1, <3>2
    <3> QED BY <3>1, <3>3 DEF AlignUp
  <2> QED BY <1>1, <1>4, <2>1, <2>2
<1> QED BY <1>2, <1>3, <1>4, FrameConstants
-----------------------------------------------------------------------------
(* What frame_allocator_init computes from the map.                        *)

LEMMA MinIs ==
    ASSUME NEW S, S \subseteq Nat, S # {}
    PROVE  Min(S) \in S /\ \A y \in S : Min(S) <= y
<1>1. \E x \in S : \A y \in S : x <= y
  BY LeastNatural
<1> QED BY <1>1 DEF Min

LEMMA MaxIs ==
    ASSUME NEW S, S \subseteq Nat, NEW x \in S, \A y \in S : y <= x
    PROVE  Max(S) \in S /\ \A y \in S : y <= Max(S)
<1>1. \A y \in S : x >= y
  OBVIOUS
<1>2. Max(S) \in S /\ \A y \in S : Max(S) >= y
  BY <1>1 DEF Max
<1> QED BY <1>2

LEMMA MultipleIs ==
    ASSUME NEW a \in Nat, NEW d \in Nat, d > 0, a % d = 0
    PROVE  \E n \in Nat : a = n * d
<1>1. PICK n \in Nat : n = a \div d
  BY DivIs
<1>2. n * d <= a /\ a < n * d + d /\ n * d \in Nat
  BY <1>1, DivIs
<1>3. a % d = a - d * n /\ d * n = n * d
  BY <1>1
<1>4. a = n * d
  BY <1>2, <1>3
<1> QED BY <1>4

LEMMA SpaceInFrames == \E n \in Nat : AddrSpace = n * FrameSize
BY FrameConstants, MultipleIs

(* The frames counted lie in the address space, all but its last, and     *)
(* cover the regions as far as they consist of whole frames.              *)
LEMMA TotalFramesIs ==
    ASSUME NEW m \in Mmaps
    PROVE  /\ TotalFrames(m) \in Nat
           /\ TotalFrames(m) * FrameSize + FrameSize <= AddrSpace
           /\ \A r \in m, k \in Nat :
                k * FrameSize <= r.end /\ k * FrameSize + FrameSize <= AddrSpace
                  => k <= TotalFrames(m)
<1>1. PICK d \in Nat, a \in Nat : d = FrameSize /\ a = AddrSpace /\ d > 0 /\ a > 0
  BY FrameConstants
<1>2. PICK x \in Nat : x = MaxAddr(m) /\ \A r \in m : r.end <= x
  <2> DEFINE S == {r.end : r \in m}
  <2>1. PICK r \in m : \A q \in m : q.end <= r.end
    BY FrameAssumption
  <2>2. S \subseteq Nat /\ r.end \in S /\ \A y \in S : y <= r.end
    BY <2>1, FrameAssumption
  <2>3. Max(S) \in S /\ \A y \in S : y <= Max(S)
    <3> HIDE DEF S
    <3> QED BY <2>2, MaxIs
  <2> QED BY <2>2, <2>3 DEF MaxAddr
<1>3. PICK v \in Nat : v = ClampU32(x) /\ v <= x /\ v < a /\ (v = x \/ v = a - 1)
  BY <1>1 DEF ClampU32
<1>4. PICK t \in Nat : t = v \div d
  BY <1>1, DivIs
<1>5. t * d <= v /\ v < t * d + d /\ t * d \in Nat
  BY <1>1, <1>4, DivIs
<1>6. TotalFrames(m) = t
  BY <1>1, <1>2, <1>3, <1>4 DEF TotalFrames
<1>7. PICK n \in Nat : a = n * d
  BY <1>1, SpaceInFrames
<1>8. t * d + d <= a
  <2>1. t < n
    <3>1. n < t => n * d + d <= t * d
      BY MulMono
    <3> QED BY <3>1, <1>1, <1>3, <1>5, <1>7
  <2> QED BY <2>1, <1>7, MulMono
<1>9. ASSUME NEW r \in m, NEW k \in Nat, k * d <= r.end, k * d + d <= a
      PROVE  k <= t
  <2>1. r.end \in Nat /\ r.end <= x /\ k * d \in Nat
    BY <1>2, FrameAssumption
  <2>2. k * d <= v
    BY <2>1, <1>1, <1>3, <1>9
  <2>3. t < k => t * d + d <= k * d
    BY MulMono
  <2> QED BY <2>1, <2>2, <2>3, <1>5
<1> QED BY <1>1, <1>6, <1>8, <1>9
(* The bitmap has a bit for every frame.                                   *)
LEMMA BitsCover ==
    ASSUME NEW t \in Nat
    PROVE  /\ 0 .. t - 1 \subseteq Bits(t) /\ Bits(t) \subseteq Nat
           /\ t = 0 => Bits(t) = {}
           /\ BitmapWords(t) \in Nat
<1>1. PICK d \in Nat : d = WordBits /\ d > 0
  BY FrameConstants
<1>2. t + d - 1 \in Nat
  BY <1>1
<1>3. PICK w \in Nat : w = (t + d - 1) \div d
  BY <1>1, <1>2, DivIs
<1>4. t + d - 1 < w * d + d /\ w * d \in Nat
  BY <1>1, <1>2, <1>3, DivIs
<1>5. Bits(t) = 0 .. w * d - 1 /\ BitmapWords(t) = w
  BY <1>1, <1>3 DEF Bits, BitmapWords
<1>6. t = 0 => w * d = 0
  <2>1. w * d <= t + d - 1
    BY <1>1, <1>2, <1>3, DivIs
  <2>2. 0 < w => 0 * d + d <= w * d
    BY MulMono
  <2>3. w = 0 => w * d = 0
    OBVIOUS
  <2> QED BY <1>1, <2>1, <2>2, <2>3
<1> QED BY <1>4, <1>5, <1>6

(* A frame that free_region clears begins in a usable region and lies in   *)
(* the memory that is managed.                                             *)
LEMMA UsableFramesAre ==
    ASSUME NEW m \in Mmaps, NEW f \in UsableFrames(m)
    PROVE  /\ f \in 0 .. TotalFrames(m) - 1
           /\ \E r \in m : /\ r.type = 1
                          /\ r.addr <= f * FrameSize /\ f * FrameSize < r.end
<1>1. PICK r \in m : /\ r.type = 1 /\ r.addr < AddrSpace
                     /\ f \in RegionFrames(r.addr, Min({r.end, AddrSpace}))
  BY DEF UsableFrames
<1>2. r.addr \in Nat /\ r.end \in Nat /\ r.addr < r.end /\ AddrSpace \in Nat
  BY FrameAssumption, FrameConstants
<1>3. PICK e \in Nat : /\ e = Min({r.end, AddrSpace})
                       /\ e <= r.end /\ e <= AddrSpace /\ e \in {r.end, AddrSpace}
  <2>1. {r.end, AddrSpace} \subseteq Nat /\ {r.end, AddrSpace} # {}
    BY <1>2
  <2> QED BY <2>1, MinIs
<1>4. PICK s \in Nat : s = r.addr /\ s < e /\ f \in RegionFrames(s, e)
  BY <1>1, <1>2, <1>3
<1>5. /\ f \in Nat /\ e + FrameSize <= AddrSpace
      /\ s <= f * FrameSize /\ f * FrameSize < e
  BY <1>3, <1>4, RegionFramesWithin
<1>6. e = r.end
  BY <1>3, <1>5, FrameConstants
<1>7. f < TotalFrames(m)
  <2>1. PICK q \in m, k \in 0 .. AddrSpace \div FrameSize :
          r.end <= k * FrameSize /\ k * FrameSize <= q.end
    <3>1. r.end <= AddrSpace - FrameSize
      BY <1>2, <1>5, <1>6, FrameConstants
    <3> QED BY <1>1, <3>1, LayoutAssumption
  <2>2. PICK d \in Nat, a \in Nat, t \in Nat, x \in Nat :
          /\ d = FrameSize /\ a = AddrSpace /\ t = TotalFrames(m) /\ x = q.end
          /\ d > 0
    BY FrameConstants, TotalFramesIs, FrameAssumption
  <2>3. f * d < e /\ e <= k * d /\ k * d <= x /\ e + d <= a /\ k \in Nat /\ f \in Nat
    BY <1>5, <1>6, <2>1, <2>2, FrameConstants
  <2>4. f < k
    <3>1. k < f => k * d + d <= f * d
      BY <2>3, MulMono
    <3>2. k * d \in Nat /\ f * d \in Nat
      BY <2>3
    <3> QED BY <2>2, <2>3, <3>1, <3>2
  <2>5. (f + 1) * d <= k * d /\ (f + 1) * d = f * d + d /\ f * d + d <= a
    <3>1. f * d + d <= k * d
      BY <2>3, <2>4, MulMono
    <3>2. (f + 1) * d = f * d + d
      BY <2>3
    <3>3. f * d \in Nat
      BY <2>3
    <3> QED BY <2>3, <3>1, <3>2, <3>3
  <2>6. (f + 1) * d + d <= a => f + 1 <= t
    <3>1. (f + 1) * d \in Nat /\ k * d \in Nat /\ f + 1 \in Nat
      BY <2>3
    <3>2. (f + 1) * d <= x
      BY <2>3, <2>5, <3>1
    <3>3. \A j \in Nat : j * d <= q.end /\ j * d + d <= a => j <= t
      BY <2>2, TotalFramesIs
    <3> QED BY <2>2, <3>1, <3>2, <3>3
  <2>7. (f + 1) * d + d <= a
    <3>1. PICK n \in Nat : a = n * d
      BY <2>2, SpaceInFrames
    <3>2. f + 1 < n
      <4>1. n < f + 1 => n * d + d <= (f + 1) * d
        BY <2>3, MulMono
      <4>2. f * d \in Nat /\ n * d \in Nat
        BY <2>3
      <4>3. f * d + d < a
        BY <2>3, <4>2
      <4>4. n < f + 1 \/ n = f + 1 \/ f + 1 < n
        BY <2>3
      <4> QED BY <3>1, <4>1, <4>2, <4>3, <4>4, <2>2, <2>5
    <3> QED BY <2>3, <3>1, <3>2, MulMono
  <2> QED BY <2>2, <2>3, <2>6, <2>7
<1> QED BY <1>1, <1>2, <1>4, <1>5, <1>6, <1>7, TotalFramesIs
(* reserve_region keeps the kernel, the bitmap and the structures of the   *)
(* boot loader out of the free frames, and nothing beyond the last frame.  *)
LEMMA ReservedFramesAre ==
    ASSUME NEW m \in Mmaps, NEW t, t = TotalFrames(m)
    PROVE  /\ ReservedFrames(t) \subseteq 0 .. t - 1
           /\ \A f \in Nat \ ReservedFrames(t) :
                /\ ~Holds(f, 0, KernelEnd)
                /\ ~Holds(f, AlignUp(KernelEnd), PlacementEnd(t))
                /\ \A r \in MbRegions : ~Holds(f, r.addr, r.end)
<1>1. PICK d \in Nat, a \in Nat, n \in Nat :
        /\ d = FrameSize /\ a = AddrSpace /\ n = t
        /\ d > 0 /\ n * d + d <= a /\ n * d \in Nat
  <2>1. PICK d \in Nat, a \in Nat, n \in Nat :
          d = FrameSize /\ a = AddrSpace /\ n = TotalFrames(m) /\ d > 0
    BY FrameConstants, TotalFramesIs
  <2>2. n * d + d <= a
    BY <2>1, TotalFramesIs
  <2>3. n * d \in Nat
    OBVIOUS
  <2> QED BY <2>1, <2>2, <2>3
<1>2. PICK p \in Nat : p = PlacementEnd(t) /\ KernelEnd <= p /\ p <= n * d
  <2>1. AlignUp(KernelEnd) \in Nat /\ KernelEnd <= AlignUp(KernelEnd)
    BY FrameConstants, AlignUpIs
  <2>2. PICK w \in Nat : w = BitmapWords(t)
    BY <1>1, BitsCover
  <2>3. w * WordBytes \in Nat
    BY FrameConstants
  <2>4. PlacementEnd(t) \in Nat /\ KernelEnd <= PlacementEnd(t)
    BY <2>1, <2>2, <2>3, FrameConstants DEF PlacementEnd
  <2>5. PlacementEnd(t) <= n * d
    BY <1>1, LayoutAssumption
  <2> QED BY <2>4, <2>5
<1>3. \A r \in MbRegions :
        r.end <= n * d /\ r.addr \in Nat /\ r.end \in Nat /\ r.addr <= r.end
  BY <1>1, LayoutAssumption, FrameConstants
<1>4. \A f \in Nat : f \in RegionFrames(0, p) <=> 0 <= f * d /\ f * d < p
  <2>1. p + FrameSize <= AddrSpace /\ 0 <= p
    BY <1>1, <1>2
  <2>2. \A f \in Nat : f \in RegionFrames(0, p) <=> 0 <= f * FrameSize /\ f * FrameSize < p
    BY <2>1, RegionFramesAre
  <2> QED BY <1>1, <2>2
<1>5. ASSUME NEW r \in MbRegions
      PROVE  \A f \in Nat : f \in RegionFrames(r.addr, r.end) <=> r.addr <= f * d /\ f * d < r.end
  <2>0. PICK x \in Nat, y \in Nat : x = r.addr /\ y = r.end /\ x <= y /\ y <= n * d
    BY <1>3
  <2>1. y + FrameSize <= AddrSpace
    BY <1>1, <2>0
  <2>2. \A f \in Nat : f \in RegionFrames(x, y) <=> x <= f * FrameSize /\ f * FrameSize < y
    BY <2>0, <2>1, RegionFramesAre
  <2> QED BY <1>1, <2>0, <2>2
<1>6. /\ RegionFrames(0, p) \subseteq ReservedFrames(t)
      /\ \A r \in MbRegions : RegionFrames(r.addr, r.end) \subseteq ReservedFrames(t)
      /\ \A f \in ReservedFrames(t) :
           f \in RegionFrames(0, p) \/ \E r \in MbRegions : f \in RegionFrames(r.addr, r.end)
  BY <1>2 DEF ReservedFrames
<1>7. ASSUME NEW f \in ReservedFrames(t)
      PROVE  f \in 0 .. t - 1
  <2>1. f \in Nat
    BY <1>6 DEF RegionFrames
  <2>2. f * d < n * d /\ f * d \in Nat
    <3>1. f * d \in Nat
      BY <2>1
    <3>2. CASE f \in RegionFrames(0, p)
      <4>1. f * d < p
        BY <1>4, <2>1, <3>2
      <4>2. PICK x \in Nat, y \in Nat : x = f * d /\ y = n * d
        BY <1>1, <3>1
      <4> QED BY <1>2, <3>1, <4>1, <4>2
    <3>3. CASE \E r \in MbRegions : f \in RegionFrames(r.addr, r.end)
      <4>1. PICK r \in MbRegions : f \in RegionFrames(r.addr, r.end)
        BY <3>3
      <4>2. f * d < r.end /\ r.end \in Nat /\ r.end <= n * d
        BY <1>3, <1>5, <2>1, <4>1
      <4>3. PICK x \in Nat, y \in Nat : x = f * d /\ y = n * d
        BY <1>1, <3>1
      <4> QED BY <3>1, <4>2, <4>3
    <3> QED BY <1>6, <3>2, <3>3
  <2>3. n < f => n * d + d <= f * d
    BY <2>1, MulMono
  <2> QED BY <1>1, <2>1, <2>2, <2>3
<1>8. ASSUME NEW f \in Nat \ ReservedFrames(t)
      PROVE  /\ ~Holds(f, 0, KernelEnd)
             /\ ~Holds(f, AlignUp(KernelEnd), PlacementEnd(t))
             /\ \A r \in MbRegions : ~Holds(f, r.addr, r.end)
  <2>1. f \in Nat /\ f * d \in Nat /\ p <= f * d
    <3>1. f \in Nat /\ f * d \in Nat /\ f \notin RegionFrames(0, p)
      BY <1>6
    <3> QED BY <3>1, <1>4
  <2>2. ~Holds(f, 0, KernelEnd) /\ ~Holds(f, AlignUp(KernelEnd), PlacementEnd(t))
    BY <1>1, <1>2, <2>1, FrameConstants DEF Holds
  <2>3. ASSUME NEW r \in MbRegions, Holds(f, r.addr, r.end)
        PROVE  FALSE
    <3>1. PICK x \in Nat, y \in Nat : x = r.addr /\ y = r.end
      BY <1>3
    <3>2. f * d < y => f * d < x
      BY <1>5, <1>6, <2>1, <3>1
    <3>3. f * d < y /\ x < (f + 1) * d /\ f * d < x
      BY <1>1, <2>1, <2>3, <3>1, <3>2 DEF Holds
    <3>4. y <= KernelEnd \/ x % FrameSize = 0
      BY <3>1, LayoutAssumption
    <3>5. CASE y <= KernelEnd
      BY <1>2, <2>1, <3>3, <3>5, FrameConstants
    <3>6. CASE x % FrameSize = 0
      <4>1. PICK k \in Nat : x = k * d
        BY <1>1, <3>6, MultipleIs
      <4>2. f < k
        <5>1. k < f => k * d + d <= f * d
          BY <2>1, MulMono
        <5>2. f < k \/ f = k \/ k < f
          BY <2>1
        <5> QED BY <5>1, <5>2, <3>3, <4>1, <2>1, <1>1
      <4>3. f * d + d <= k * d /\ (f + 1) * d = f * d + d
        BY <2>1, <4>2, MulMono
      <4> QED BY <3>3, <4>1, <4>3, <2>1
    <3> QED BY <3>4, <3>5, <3>6
  <2> QED BY <2>2, <2>3
<1> QED BY <1>7, <1>8
-----------------------------------------------------------------------------
(* The scans.  The definition of each is a function of itself; a function  *)
(* that satisfies the equation is shown, and that there is no other.       *)

LEMMA MaxExists ==
    ASSUME NEW S, NEW n \in Nat, S \subseteq 0 .. n, S # {}
    PROVE  Max(S) \in S /\ \A y \in S : y <= Max(S)
<1> DEFINE R == {n - y : y \in S}
<1>1. R \subseteq Nat /\ R # {}
  <2>1. ASSUME NEW y \in S PROVE n - y \in Nat
    <3>1. y \in 0 .. n
      OBVIOUS
    <3> QED BY <3>1
  <2>2. PICK y : y \in S
    OBVIOUS
  <2>3. n - y \in R
    BY <2>2
  <2> QED BY <2>1, <2>3
<1>2. PICK x \in R : \A y \in R : x <= y
  <2> HIDE DEF R
  <2> QED BY <1>1, LeastNatural
<1>3. PICK z \in S : x = n - z
  OBVIOUS
<1>4. \A y \in S : y <= z
  BY <1>2, <1>3
<1>5. S \subseteq Nat
  OBVIOUS
<1> HIDE DEF R
<1> QED BY <1>4, <1>5, MaxIs

(* The runs of count clear frames at or above start.                       *)
RunsFrom(count, start) == {r \in RunsOf(count) : r >= start}

(* A run is missed neither by stopping nor by skipping.                    *)
LEMMA SkipKeepsRuns ==
    ASSUME total_frames \in Nat, NEW count \in Nat \ {0}, NEW start \in 0 .. total_frames
    PROVE  /\ start + count > total_frames => RunsFrom(count, start) = {}
           /\ start + count <= total_frames /\ InUse(start, count) = {} =>
                start \in RunsFrom(count, start)
           /\ start + count <= total_frames /\ InUse(start, count) # {} =>
                /\ SkipTo(start, count) \in start + 1 .. total_frames
                /\ RunsFrom(count, SkipTo(start, count)) = RunsFrom(count, start)
<1>1. PICK n \in Nat : n = total_frames
  OBVIOUS
<1>2. start + count > total_frames => RunsFrom(count, start) = {}
  BY <1>1 DEF RunsFrom, RunsOf
<1>3. ASSUME start + count <= total_frames, InUse(start, count) = {}
      PROVE  start \in RunsFrom(count, start)
  <2>1. ASSUME NEW f \in start .. start + count - 1
        PROVE  f \in 0 .. n - 1 /\ f \notin used
    <3>1. f - start \in 0 .. count - 1 /\ start + (f - start) = f
      OBVIOUS
    <3>2. f \notin used
      BY <1>3, <3>1 DEF InUse
    <3> QED BY <1>1, <1>3, <3>2
  <2> QED BY <1>1, <1>3, <2>1 DEF RunsFrom, RunsOf, Frames
<1>4. ASSUME start + count <= total_frames, InUse(start, count) # {}
      PROVE  /\ SkipTo(start, count) \in start + 1 .. total_frames
             /\ RunsFrom(count, SkipTo(start, count)) = RunsFrom(count, start)
  <2>1. InUse(start, count) \subseteq Nat
    BY DEF InUse
  <2>2. PICK i \in 0 .. count - 1 : i = Min(InUse(start, count)) /\ start + i \in used
    BY <1>4, <2>1, MinIs DEF InUse
  <2>3. SkipTo(start, count) = start + i + 1
    BY <2>2 DEF SkipTo
  <2>4. ASSUME NEW r \in RunsOf(count), r >= start
        PROVE  r >= start + i + 1
    <3>1. r \in Int /\ start + i \notin r .. r + count - 1
      BY <1>1, <2>2 DEF RunsOf
    <3> QED BY <2>4, <3>1
  <2>5. \A r \in RunsOf(count) : r \in Int
    BY <1>1 DEF RunsOf
  <2> QED BY <1>1, <1>4, <2>3, <2>4, <2>5 DEF RunsFrom
<1> QED BY <1>2, <1>3, <1>4

LEMMA ScanIs ==
    ASSUME total_frames \in Nat, NEW count \in Nat \ {0}
    PROVE  ContiguousScan(count) = IF RunsOf(count) = {} THEN NoRun ELSE Min(RunsOf(count))
<1> DEFINE D == 0 .. total_frames
           low(s) == IF RunsFrom(count, s) = {} THEN NoRun ELSE Min(RunsFrom(count, s))
           w == [s \in D |-> low(s)]
           body(f, s) == IF s + count > total_frames THEN NoRun
                         ELSE IF InUse(s, count) = {} THEN s
                         ELSE f[SkipTo(s, count)]
           g == ScanFrom(count)
<1>1. \A s \in D : w[s] = low(s)
  OBVIOUS
<1>2. ASSUME NEW s \in D
      PROVE  low(s) = body(w, s)
  <2>1. CASE s + count > total_frames
    BY <2>1, SkipKeepsRuns
  <2>2. CASE s + count <= total_frames /\ InUse(s, count) = {}
    <3>0. RunsFrom(count, s) \subseteq Nat
      BY DEF RunsFrom, RunsOf
    <3>1. s \in RunsFrom(count, s) /\ RunsFrom(count, s) \subseteq Nat
      BY <2>2, <3>0, SkipKeepsRuns
    <3>2. Min(RunsFrom(count, s)) \in RunsFrom(count, s) /\ Min(RunsFrom(count, s)) <= s
      BY <3>1, MinIs
    <3>3. Min(RunsFrom(count, s)) = s
      BY <3>1, <3>2 DEF RunsFrom
    <3>4. body(w, s) = s
      BY <2>2
    <3> QED BY <3>1, <3>3, <3>4
  <2>3. CASE s + count <= total_frames /\ InUse(s, count) # {}
    <3>1. /\ SkipTo(s, count) \in s + 1 .. total_frames
          /\ RunsFrom(count, SkipTo(s, count)) = RunsFrom(count, s)
      BY <2>3, SkipKeepsRuns
    <3>2. SkipTo(s, count) \in D
      BY <3>1
    <3>3. low(SkipTo(s, count)) = low(s)
      BY <3>1
    <3>4. body(w, s) = w[SkipTo(s, count)]
      BY <2>3
    <3> QED BY <1>1, <3>2, <3>3, <3>4
  <2> QED BY <2>1, <2>2, <2>3
<1>3. w = [s \in D |-> body(w, s)]
  BY <1>2, Zenon
<1>4. g = [s \in D |-> body(g, s)]
  <2>1. g = CHOOSE f : f = [s \in D |-> body(f, s)]
    BY DEF ScanFrom
  <2> QED BY <1>3, <2>1, Zenon
<1> HIDE DEF w, g
<1>5. \A s \in D : g[s] = w[s]
  <2>1. SUFFICES ASSUME NEW s0 \in D, g[s0] # w[s0] PROVE FALSE
    OBVIOUS
  <2> DEFINE B == {k \in D : g[total_frames - k] # w[total_frames - k]}
  <2>2. B \subseteq Nat /\ B # {}
    <3>1. total_frames - s0 \in D /\ total_frames - (total_frames - s0) = s0
      OBVIOUS
    <3> QED BY <2>1, <3>1
  <2>3. PICK k \in B : \A j \in B : k <= j
    <3> HIDE DEF B
    <3> QED BY <2>2, LeastNatural
  <2>4. PICK s \in D : s = total_frames - k /\ g[s] # w[s]
    BY <2>3
  <2>5. ASSUME NEW x \in s + 1 .. total_frames
        PROVE  g[x] = w[x]
    <3>1. total_frames - x \in D /\ total_frames - x < k /\ total_frames - (total_frames - x) = x
      BY <2>4
    <3>2. total_frames - x \notin B
      BY <2>3, <3>1
    <3> QED BY <3>1, <3>2
  <2>6. g[s] = body(g, s) /\ w[s] = body(w, s)
    BY <1>3, <1>4, Zenon
  <2>7. CASE s + count <= total_frames /\ InUse(s, count) # {}
    <3>1. SkipTo(s, count) \in s + 1 .. total_frames
      BY <2>7, SkipKeepsRuns
    <3>2. body(g, s) = g[SkipTo(s, count)] /\ body(w, s) = w[SkipTo(s, count)]
      BY <2>7
    <3> QED BY <2>4, <2>5, <2>6, <3>1, <3>2
  <2>8. CASE ~(s + count <= total_frames /\ InUse(s, count) # {})
    BY <2>4, <2>6, <2>8
  <2> QED BY <2>7, <2>8
<1>6. RunsFrom(count, 0) = RunsOf(count) /\ 0 \in D
  BY DEF RunsFrom, RunsOf
<1>7. w[0] = low(0)
  BY <1>6 DEF w
<1>8. g[0] = low(0)
  BY <1>5, <1>6, <1>7
<1> QED BY <1>6, <1>8 DEF ContiguousScan, g

(* Where the run of clear frames that ends before frame i begins.          *)
RunStarts(i) == {j \in 0 .. i : j = 0 \/ j - 1 \in used}

LEMMA RunStartIs ==
    ASSUME NEW i \in Nat
    PROVE  /\ Max(RunStarts(i)) \in RunStarts(i)
           /\ \A j \in RunStarts(i) : j <= Max(RunStarts(i))
<1>1. RunStarts(i) \subseteq 0 .. i /\ 0 \in RunStarts(i)
  BY DEF RunStarts
<1>2. RunStarts(i) # {}
  BY <1>1
<1> QED BY <1>1, <1>2, MaxExists

LEMMA CurrentRunIs ==
    ASSUME total_frames \in Nat
    PROVE  \A i \in 0 .. total_frames : CurrentRun[i] = i - Max(RunStarts(i))
<1> DEFINE D == 0 .. total_frames
           w == [i \in D |-> i - Max(RunStarts(i))]
           body(f, i) == IF i = 0 THEN 0 ELSE IF i - 1 \in used THEN 0 ELSE f[i - 1] + 1
           g == CurrentRun
<1>1. \A i \in D : w[i] = i - Max(RunStarts(i))
  OBVIOUS
<1>2. ASSUME NEW i \in D
      PROVE  i - Max(RunStarts(i)) = body(w, i)
  <2>1. Max(RunStarts(i)) \in RunStarts(i) /\ \A j \in RunStarts(i) : j <= Max(RunStarts(i))
    BY RunStartIs
  <2>2. CASE i = 0 \/ i - 1 \in used
    <3>1. i \in RunStarts(i) /\ Max(RunStarts(i)) \in 0 .. i
      BY <2>1, <2>2 DEF RunStarts
    <3>2. Max(RunStarts(i)) = i
      BY <2>1, <3>1
    <3> QED BY <2>2, <3>2
  <2>3. CASE i # 0 /\ i - 1 \notin used
    <3>1. RunStarts(i) = RunStarts(i - 1)
      BY <2>3 DEF RunStarts
    <3>2. i - 1 \in D /\ Max(RunStarts(i)) \in Int
      BY <2>1, <2>3 DEF RunStarts
    <3>3. w[i - 1] = i - 1 - Max(RunStarts(i))
      BY <3>1, <3>2
    <3>4. body(w, i) = w[i - 1] + 1
      BY <2>3
    <3> QED BY <3>2, <3>3, <3>4
  <2> QED BY <2>2, <2>3
<1>3. w = [i \in D |-> body(w, i)]
  BY <1>2, Zenon
<1>4. g = [i \in D |-> body(g, i)]
  <2>1. g = CHOOSE f : f = [i \in D |-> body(f, i)]
    BY DEF CurrentRun
  <2> QED BY <1>3, <2>1, Zenon
<1> HIDE DEF w, g
<1>5. \A i \in D : g[i] = w[i]
  <2>1. SUFFICES ASSUME NEW i0 \in D, g[i0] # w[i0] PROVE FALSE
    OBVIOUS
  <2> DEFINE B == {k \in D : g[k] # w[k]}
  <2>2. B \subseteq Nat /\ B # {}
    BY <2>1
  <2>3. PICK k \in B : \A j \in B : k <= j
    <3> HIDE DEF B
    <3> QED BY <2>2, LeastNatural
  <2>4. k \in D /\ g[k] # w[k]
    BY <2>3
  <2>5. k # 0 => k - 1 \in D /\ g[k - 1] = w[k - 1]
    <3>1. SUFFICES ASSUME k # 0 PROVE k - 1 \in D /\ k - 1 \notin B
      OBVIOUS
    <3>2. k - 1 \in D /\ ~(k <= k - 1)
      BY <2>4, <3>1
    <3> QED BY <2>3, <3>2
  <2>6. g[k] = body(g, k) /\ w[k] = body(w, k)
    BY <1>3, <1>4, <2>4, Zenon
  <2> QED BY <2>4, <2>5, <2>6
<1> QED BY <1>1, <1>5 DEF w, g

LEMMA LargestRunIs ==
    ASSUME total_frames \in Nat, NEW count \in Nat \ {0}
    PROVE  RunsOf(count) # {} <=> count <= LargestFreeRun
<1> DEFINE R == {CurrentRun[i] : i \in 0 .. total_frames}
<1>1. ASSUME NEW i \in 0 .. total_frames
      PROVE  /\ CurrentRun[i] \in 0 .. total_frames
             /\ Max(RunStarts(i)) \in 0 .. i
             /\ CurrentRun[i] = i - Max(RunStarts(i))
             /\ \A j \in RunStarts(i) : j <= Max(RunStarts(i))
  <2>1. CurrentRun[i] = i - Max(RunStarts(i))
    BY CurrentRunIs
  <2>2. Max(RunStarts(i)) \in RunStarts(i) /\ \A j \in RunStarts(i) : j <= Max(RunStarts(i))
    BY RunStartIs
  <2>3. Max(RunStarts(i)) \in 0 .. i
    BY <2>2 DEF RunStarts
  <2> QED BY <2>1, <2>2, <2>3
<1>2. LargestFreeRun \in R /\ \A y \in R : y <= LargestFreeRun
  <2>1. R \subseteq 0 .. total_frames /\ CurrentRun[0] \in R
    BY <1>1
  <2>2. R # {}
    BY <2>1
  <2> HIDE DEF R
  <2>3. Max(R) \in R /\ \A y \in R : y <= Max(R)
    BY <2>1, <2>2, MaxExists
  <2> QED BY <2>3 DEF LargestFreeRun, R
<1>3. ASSUME count <= LargestFreeRun
      PROVE  RunsOf(count) # {}
  <2>1. PICK i \in 0 .. total_frames : LargestFreeRun = CurrentRun[i]
    BY <1>2
  <2>2. PICK m \in 0 .. i : m = Max(RunStarts(i))
    BY <1>1
  <2>3. count <= i - m /\ \A j \in RunStarts(i) : j <= m
    BY <1>1, <1>3, <2>1, <2>2
  <2>4. ASSUME NEW f \in i - count .. i - 1
        PROVE  f \in 0 .. total_frames - 1 /\ f \notin used
    <3>1. f + 1 \in 0 .. i /\ ~(f + 1 <= m) /\ (f + 1) - 1 = f
      BY <2>3
    <3>2. f + 1 \notin RunStarts(i)
      BY <2>3, <3>1
    <3> QED BY <3>1, <3>2, <2>3 DEF RunStarts
  <2>5. i - count \in 0 .. total_frames - count /\ (i - count) + count - 1 = i - 1
    BY <2>3
  <2>6. i - count \in RunsOf(count)
    BY <2>4, <2>5 DEF RunsOf, Frames
  <2> QED BY <2>6
<1>4. ASSUME RunsOf(count) # {}
      PROVE  count <= LargestFreeRun
  <2>1. PICK s \in 0 .. total_frames - count : \A f \in s .. s + count - 1 : f \notin used
    BY <1>4 DEF RunsOf, Frames
  <2>2. PICK i \in 0 .. total_frames : i = s + count
    OBVIOUS
  <2>3. PICK m \in 0 .. i : m = Max(RunStarts(i)) /\ m \in RunStarts(i)
    BY <1>1, RunStartIs
  <2>4. m <= s
    BY <2>1, <2>2, <2>3 DEF RunStarts
  <2>5. CurrentRun[i] = i - m /\ CurrentRun[i] \in R
    BY <1>1, <2>3
  <2>6. i - m <= LargestFreeRun /\ LargestFreeRun \in Int
    BY <1>1, <1>2, <2>5
  <2> QED BY <2>2, <2>4, <2>6
<1> QED BY <1>3, <1>4
-----------------------------------------------------------------------------
(* The invariant: what is clear or handed out is usable memory that holds  *)
(* nothing else, and the counter says how many frames are clear.           *)
Manageable == UsableFrames(mmap) \ ReservedFrames(total_frames)

Booted ==
    /\ total_frames = TotalFrames(mmap)
    /\ (Bits(total_frames) \ used) \cup owned \subseteq Manageable
NotBooted == total_frames = 0 /\ used = {} /\ owned = {}

Inv ==
    /\ TypeOK
    /\ IF ready THEN Booted ELSE NotBooted
    /\ used_frames = total_frames - Cardinality(Frames \ used)

LEMMA CardinalityDifference ==
    ASSUME NEW A, NEW B, IsFiniteSet(A), B \subseteq A
    PROVE  /\ IsFiniteSet(B) /\ IsFiniteSet(A \ B)
           /\ Cardinality(A) \in Nat /\ Cardinality(B) \in Nat
           /\ Cardinality(A \ B) = Cardinality(A) - Cardinality(B)
           /\ Cardinality(A \ B) \in 0 .. Cardinality(A)
<1>1. IsFiniteSet(B) /\ IsFiniteSet(A \ B)
  BY FS_Subset
<1>2. Cardinality(A) \in Nat /\ Cardinality(B) \in Nat /\ Cardinality(A \ B) \in Nat
  BY <1>1, FS_CardinalityType
<1>3. (A \ B) \cup B = A /\ (A \ B) \cap B = {} /\ Cardinality({}) = 0
  BY FS_EmptySet
<1>4. Cardinality(A) = Cardinality(A \ B) + Cardinality(B) - 0
  BY <1>1, <1>3, FS_Union
<1> QED BY <1>1, <1>2, <1>4

LEMMA FramesFinite ==
    ASSUME total_frames \in Nat
    PROVE  IsFiniteSet(Frames) /\ Cardinality(Frames) = total_frames
<1>1. /\ IsFiniteSet(0 .. total_frames - 1)
      /\ Cardinality(0 .. total_frames - 1) =
           IF 0 > total_frames - 1 THEN 0 ELSE total_frames - 1 - 0 + 1
  BY FS_Interval
<1> QED BY <1>1 DEF Frames

(* The frames beyond the last one stay set: a clear bit is a frame.        *)
LEMMA ClearIsFrame ==
    ASSUME Inv, ready
    PROVE  /\ Bits(total_frames) \ used = Frames \ used
           /\ total_frames \in Nat /\ mmap \in Mmaps
           /\ (Frames \ used) \cup owned \subseteq Manageable
<1>1. total_frames \in Nat /\ mmap \in Mmaps /\ Booted
  BY FrameConstants DEF Inv, TypeOK
<1>2. UsableFrames(mmap) \subseteq Frames
  BY <1>1, UsableFramesAre DEF Booted, Frames
<1>3. Frames \subseteq Bits(total_frames)
  BY <1>1, BitsCover DEF Frames
<1> QED BY <1>1, <1>2, <1>3 DEF Booted, Manageable

(* Setting clear frames keeps the count.                                   *)
LEMMA SetFramesCounts ==
    ASSUME Inv, ready, NEW S, S \subseteq Frames \ used, SetFrames(S),
           UNCHANGED total_frames
    PROVE  /\ used_frames' = total_frames - Cardinality((Frames \ used)')
           /\ used_frames' \in 0 .. total_frames
<1>1. total_frames \in Nat /\ Frames' = Frames
  BY ClearIsFrame DEF Frames
<1>2. IsFiniteSet(Frames) /\ Cardinality(Frames) = total_frames
  BY <1>1, FramesFinite
<1> DEFINE C == Frames \ used
<1>3. IsFiniteSet(C) /\ Cardinality(C) \in 0 .. total_frames
  <2>1. Frames \ (Frames \cap used) = C
    OBVIOUS
  <2> QED BY <1>2, <2>1, CardinalityDifference
<1>4. (Frames \ used)' = C \ S /\ S \ used = S
  BY <1>1 DEF SetFrames
<1>5. /\ Cardinality(C \ S) = Cardinality(C) - Cardinality(S) /\ Cardinality(S) \in Nat
      /\ Cardinality(C \ S) \in 0 .. Cardinality(C)
  BY <1>3, CardinalityDifference
<1>6. used_frames = total_frames - Cardinality(C)
  BY DEF Inv
<1>7. used_frames' = used_frames + Cardinality(S)
  BY <1>4 DEF SetFrames
<1> HIDE DEF C
<1>8. PICK n \in Nat, c \in Nat, k \in Nat, r \in Nat :
        /\ n = total_frames /\ c = Cardinality(C) /\ k = Cardinality(S)
        /\ r = Cardinality(C \ S) /\ c <= n /\ r = c - k
  BY <1>1, <1>3, <1>5
<1>9. used_frames' = n - r /\ n - r \in 0 .. n
  BY <1>6, <1>7, <1>8
<1> QED BY <1>4, <1>8, <1>9

(* frame_allocator_init: each region may overlap others, each frame counts *)
(* once.                                                                   *)
LEMMA BootStep ==
    ASSUME Inv, FrameAllocatorInit
    PROVE  Inv'
<1> DEFINE t == TotalFrames(mmap)
           F == 0 .. t - 1
           freed == UsableFrames(mmap)
           kept == Bits(t) \ freed
           reserved == ReservedFrames(t)
<1>1. /\ ~ready /\ ready' = TRUE /\ mmap' = mmap /\ owned' = owned /\ mmap \in Mmaps
      /\ total_frames' = t /\ used' = kept \cup reserved
      /\ used_frames' = t - Cardinality(Bits(t) \cap freed) + Cardinality(reserved \ kept)
      /\ owned = {}
  BY DEF Inv, TypeOK, NotBooted, FrameAllocatorInit
<1>2. t \in Nat
  BY <1>1, TotalFramesIs
<1>3. freed \subseteq F /\ reserved \subseteq F /\ F \subseteq Bits(t)
  BY <1>1, <1>2, UsableFramesAre, ReservedFramesAre, BitsCover
<1>4. t \in 0 .. AddrSpace \div FrameSize
  <2>1. PICK d \in Nat, a \in Nat, n \in Nat :
          d = FrameSize /\ a = AddrSpace /\ n = t /\ d > 0 /\ n * d + d <= a
    <3>1. FrameSize \in Nat /\ AddrSpace \in Nat /\ FrameSize > 0
      BY FrameConstants
    <3>2. t * FrameSize + FrameSize <= AddrSpace
      BY <1>1, TotalFramesIs
    <3> QED BY <1>2, <3>1, <3>2
  <2>2. PICK q \in Nat : q = a \div d /\ a < q * d + d
    BY <2>1, DivIs
  <2>3. q < n => q * d + d <= n * d
    BY MulMono
  <2>4. n * d \in Nat /\ q * d \in Nat
    OBVIOUS
  <2>5. n <= q
    BY <2>1, <2>2, <2>3, <2>4
  <2> QED BY <2>1, <2>2, <2>5
<1> HIDE DEF t, freed, reserved
<1>5. F \ used' = freed \ reserved /\ Bits(t) \ used' = freed \ reserved
  BY <1>1, <1>3
<1>6. /\ IsFiniteSet(freed) /\ Cardinality(freed) \in Nat
      /\ IsFiniteSet(F) /\ Cardinality(F) = t /\ Cardinality(freed) <= t
  <2>1. IsFiniteSet(F) /\ Cardinality(F) = IF 0 > t - 1 THEN 0 ELSE t - 1 - 0 + 1
    BY <1>2, FS_Interval
  <2>2. IsFiniteSet(freed) /\ Cardinality(freed) <= Cardinality(F)
    BY <1>3, <2>1, FS_Subset
  <2>3. Cardinality(freed) \in Nat
    BY <2>2, FS_CardinalityType
  <2> QED BY <1>2, <2>1, <2>2, <2>3
<1>7. Bits(t) \cap freed = freed /\ reserved \ kept = freed \cap reserved
      /\ freed \ (freed \cap reserved) = freed \ reserved
  BY <1>3
<1>8. /\ Cardinality(freed \ reserved) = Cardinality(freed) - Cardinality(freed \cap reserved)
      /\ Cardinality(freed \ reserved) \in 0 .. Cardinality(freed)
      /\ Cardinality(freed \cap reserved) \in Nat
  <2>1. freed \cap reserved \subseteq freed
    OBVIOUS
  <2> QED BY <1>6, <1>7, <2>1, CardinalityDifference
<1>9. /\ used_frames' = t - Cardinality(freed \ reserved)
      /\ used_frames' \in 0 .. t
  <2>1. used_frames' = t - Cardinality(freed) + Cardinality(freed \cap reserved)
    BY <1>1, <1>7
  <2> QED BY <1>2, <1>6, <1>8, <2>1
<1>10. TypeOK'
  BY <1>1, <1>3, <1>4, <1>9 DEF TypeOK
<1>11. Booted' /\ ready'
  BY <1>1, <1>5 DEF Booted, Manageable, t, freed, reserved
<1>12. Frames' = F
  BY <1>1 DEF Frames
<1> QED BY <1>1, <1>5, <1>9, <1>10, <1>11, <1>12 DEF Inv

(* An allocation of clear frames.                                          *)
LEMMA AllocStep ==
    ASSUME Inv, ready, NEW S, S \subseteq Frames \ used, SetFrames(S),
           owned' = owned \cup S, UNCHANGED <<mmap, ready, total_frames>>
    PROVE  Inv'
<1>1. /\ used_frames' = total_frames - Cardinality((Frames \ used)')
      /\ used_frames' \in 0 .. total_frames
  BY SetFramesCounts
<1>2. /\ Bits(total_frames) \ used = Frames \ used
      /\ (Frames \ used) \cup owned \subseteq Manageable
  BY ClearIsFrame
<1>3. used' = used \cup S
  BY DEF SetFrames
<1>4. TypeOK'
  BY <1>1, <1>2, <1>3 DEF Inv, TypeOK
<1>5. Booted'
  BY <1>2, <1>3 DEF Inv, Booted, Manageable
<1> QED BY <1>1, <1>4, <1>5 DEF Inv

LEMMA FreeStep ==
    ASSUME Inv, NEW f \in owned, FrameFree(f)
    PROVE  Inv'
<1>1. /\ ready /\ f < total_frames /\ used' = used \ {f} /\ owned' = owned \ {f}
      /\ used_frames' = used_frames - Cardinality({f} \cap used)
      /\ UNCHANGED <<mmap, ready, total_frames>>
  BY DEF FrameFree
<1>2. total_frames \in Nat /\ owned \subseteq used /\ used \subseteq Bits(total_frames)
  BY <1>1, ClearIsFrame DEF Inv, TypeOK
<1>3. f \in Nat /\ f \in Frames /\ f \in used
  BY <1>1, <1>2, BitsCover DEF Frames
<1>4. IsFiniteSet(Frames) /\ Cardinality(Frames) = total_frames
  BY <1>2, FramesFinite
<1> DEFINE C == Frames \ used
<1>5. IsFiniteSet(C) /\ IsFiniteSet(C \cup {f})
  BY <1>4, FS_Subset, FS_AddElement
<1>6. (Frames \ used)' = C \cup {f}
  BY <1>1, <1>3 DEF Frames
<1>7. Cardinality(C \cup {f}) = Cardinality(C) + 1
  BY <1>3, <1>5, FS_AddElement
<1>8. C \cup {f} \subseteq Frames
  BY <1>3
<1>9. Cardinality(C) \in Nat /\ Cardinality(C \cup {f}) <= total_frames
  BY <1>4, <1>5, <1>8, FS_Subset, FS_CardinalityType
<1>10. Cardinality({f} \cap used) = 1
  <2>1. {f} \cap used = {f}
    BY <1>3
  <2> QED BY <2>1, FS_Singleton
<1> HIDE DEF C
<1>11. used_frames = total_frames - Cardinality(C)
  BY DEF Inv, C
<1>12. PICK n \in Nat, c \in Nat :
         n = total_frames /\ c = Cardinality(C) /\ c + 1 <= n
  BY <1>2, <1>7, <1>9
<1>13. used_frames' = n - (c + 1) /\ n - (c + 1) \in 0 .. n
  BY <1>1, <1>10, <1>11, <1>12
<1>14. used_frames' = total_frames' - Cardinality((Frames \ used)')
  BY <1>1, <1>6, <1>7, <1>12, <1>13
<1>15. TypeOK'
  BY <1>1, <1>2, <1>12, <1>13 DEF Inv, TypeOK
<1>16. Booted'
  BY <1>1, <1>2 DEF Inv, Booted, Manageable
<1> QED BY <1>1, <1>14, <1>15, <1>16 DEF Inv

(* What the two allocations hand out.                                      *)
LEMMA FrameAllocTakes ==
    ASSUME Inv, FrameAlloc
    PROVE  {FirstClear} \subseteq Frames \ used
<1>1. Bits(total_frames) \ used = Frames \ used /\ Bits(total_frames) \ used # {}
  BY ClearIsFrame DEF FrameAlloc
<1>2. Frames \ used \subseteq Nat
  BY DEF Frames
<1>3. Min(Bits(total_frames) \ used) \in Bits(total_frames) \ used
  BY <1>1, <1>2, MinIs
<1> QED BY <1>1, <1>3 DEF FirstClear

LEMMA ContiguousTakes ==
    ASSUME Inv, NEW count \in 1 .. total_frames, FrameAllocContiguous(count)
    PROVE  ContiguousScan(count) .. ContiguousScan(count) + count - 1 \subseteq Frames \ used
<1>1. total_frames \in Nat /\ count \in Nat \ {0} /\ ContiguousScan(count) # NoRun
  BY ClearIsFrame DEF FrameAllocContiguous
<1>2. RunsOf(count) # {} /\ ContiguousScan(count) = Min(RunsOf(count))
  BY <1>1, ScanIs
<1>3. RunsOf(count) \subseteq Nat
  BY <1>1 DEF RunsOf
<1>4. Min(RunsOf(count)) \in RunsOf(count)
  BY <1>2, <1>3, MinIs
<1> QED BY <1>2, <1>4 DEF RunsOf

LEMMA Inductive == Inv /\ [Next]_vars => Inv'
<1> SUFFICES ASSUME Inv, [Next]_vars PROVE Inv'
  OBVIOUS
<1>1. CASE FrameAllocatorInit
  BY <1>1, BootStep
<1>2. CASE FrameAlloc
  <2>1. {FirstClear} \subseteq Frames \ used
    BY <1>2, FrameAllocTakes
  <2> QED BY <1>2, <2>1, AllocStep DEF FrameAlloc
<1>3. CASE \E f \in owned : FrameFree(f)
  BY <1>3, FreeStep
<1>4. ASSUME NEW count \in 1 .. total_frames, FrameAllocContiguous(count)
      PROVE  Inv'
  <2> DEFINE run == ContiguousScan(count) .. ContiguousScan(count) + count - 1
  <2>1. run \subseteq Frames \ used
    BY <1>4, ContiguousTakes
  <2>2. ready /\ SetFrames(run) /\ owned' = owned \cup run /\ UNCHANGED <<mmap, ready, total_frames>>
    BY <1>4 DEF FrameAllocContiguous
  <2> HIDE DEF run
  <2> QED BY <2>1, <2>2, AllocStep
<1>5. CASE UNCHANGED vars
  BY <1>5 DEF vars, Inv, TypeOK, Booted, NotBooted, Manageable, Frames
<1> QED BY <1>1, <1>2, <1>3, <1>4, <1>5 DEF Next

LEMMA InitInv == Init => Inv
<1> SUFFICES ASSUME Init PROVE Inv
  OBVIOUS
<1>1. 0 \in 0 .. AddrSpace \div FrameSize
  BY FrameConstants, DivIs
<1>2. total_frames = 0 /\ used_frames = 0 /\ Frames = {} /\ Cardinality({}) = 0
  BY FS_EmptySet DEF Init, Frames
<1>3. TypeOK
  <2>1. ready \in BOOLEAN /\ mmap \in Mmaps /\ used = {} /\ owned = {}
    BY DEF Init
  <2>2. used_frames \in 0 .. total_frames
    BY <1>2
  <2> QED BY <1>1, <1>2, <2>1, <2>2 DEF TypeOK
<1> QED BY <1>2, <1>3 DEF Init, Inv, NotBooted

LEMMA AlwaysInv == Spec => []Inv
BY InitInv, Inductive, PTL DEF Spec

(* The free count of frame_stats is exact.                                 *)
THEOREM CountExact == Spec => []FreeCountExact
<1>1. ASSUME Inv PROVE FreeCountExact
  <2>1. total_frames \in Nat /\ used_frames \in 0 .. total_frames /\ TypeOK
    BY <1>1, FrameConstants DEF Inv, TypeOK
  <2>2. IsFiniteSet(Frames) /\ Frames \ used \subseteq Frames
    BY <2>1, FramesFinite
  <2>3. Cardinality(Frames \ used) \in Nat
    BY <2>2, FS_Subset, FS_CardinalityType
  <2>4. used_frames = total_frames - Cardinality(Frames \ used)
    BY <1>1 DEF Inv
  <2> QED BY <2>1, <2>3, <2>4 DEF FreeCountExact, FrameFreeCount
<1> QED BY <1>1, AlwaysInv, PTL

(* frame_alloc_contiguous finds the lowest run, whenever there is one, and *)
(* frame_largest_free_run says up to which length there is.                *)
THEOREM ScanCorrect == Spec => []ScanFindsLowestRun
<1>1. ASSUME Inv PROVE ScanFindsLowestRun
  <2>1. SUFFICES ASSUME ready, NEW count \in 1 .. total_frames
                 PROVE  /\ ContiguousScan(count) =
                              IF RunsOf(count) = {} THEN NoRun ELSE Min(RunsOf(count))
                        /\ (ContiguousScan(count) # NoRun) <=> (count <= LargestFreeRun)
    BY DEF ScanFindsLowestRun
  <2>2. total_frames \in Nat /\ count \in Nat \ {0}
    BY <1>1, <2>1, ClearIsFrame
  <2>3. ContiguousScan(count) = IF RunsOf(count) = {} THEN NoRun ELSE Min(RunsOf(count))
    BY <2>2, ScanIs
  <2>4. RunsOf(count) # {} => Min(RunsOf(count)) # NoRun
    <3>1. RunsOf(count) \subseteq Nat
      BY <2>2 DEF RunsOf
    <3>2. RunsOf(count) # {} => Min(RunsOf(count)) \in Nat
      BY <3>1, MinIs
    <3> QED BY <3>2 DEF NoRun
  <2>5. RunsOf(count) # {} <=> count <= LargestFreeRun
    BY <2>2, LargestRunIs
  <2> QED BY <2>3, <2>4, <2>5
<1> QED BY <1>1, AlwaysInv, PTL

(* No frame is handed out twice, none that holds a byte of the kernel, the *)
(* bitmap or the boot loader's structures, and none that does not begin in *)
(* usable memory.                                                          *)
THEOREM OnlyFreeFrames == Spec => HandsOutOnlyFree
<1> DEFINE Good(f) == /\ f \in Frames \ used
                      /\ StartsUsable(f)
                      /\ ~Holds(f, 0, KernelEnd)
                      /\ ~Holds(f, AlignUp(KernelEnd), PlacementEnd(total_frames))
                      /\ \A r \in MbRegions : ~Holds(f, r.addr, r.end)
<1>1. ASSUME Inv, ready, NEW f \in Frames \ used
      PROVE  Good(f)
  <2>1. /\ mmap \in Mmaps /\ f \in UsableFrames(mmap) /\ f \notin ReservedFrames(total_frames)
        /\ total_frames = TotalFrames(mmap) /\ f \in Nat
    BY <1>1, ClearIsFrame DEF Inv, Booted, Manageable, Frames
  <2>2. StartsUsable(f)
    BY <2>1, UsableFramesAre DEF StartsUsable
  <2>3. /\ ~Holds(f, 0, KernelEnd)
        /\ ~Holds(f, AlignUp(KernelEnd), PlacementEnd(total_frames))
        /\ \A r \in MbRegions : ~Holds(f, r.addr, r.end)
    BY <2>1, ReservedFramesAre
  <2> QED BY <2>2, <2>3
<1>2. ASSUME Inv, [Next]_vars
      PROVE  [\A f \in owned' \ owned : Good(f)]_vars
  <2> SUFFICES ASSUME NEW f \in owned' \ owned, Next PROVE Good(f)
    BY <1>2
  <2>1. CASE FrameAlloc
    BY <1>1, <1>2, <2>1, FrameAllocTakes DEF FrameAlloc
  <2>2. ASSUME NEW count \in 1 .. total_frames, FrameAllocContiguous(count)
        PROVE  Good(f)
    <3>1. ContiguousScan(count) .. ContiguousScan(count) + count - 1 \subseteq Frames \ used
      BY <1>2, <2>2, ContiguousTakes
    <3>2. ready /\ f \in ContiguousScan(count) .. ContiguousScan(count) + count - 1
      BY <2>2 DEF FrameAllocContiguous
    <3> QED BY <1>1, <1>2, <3>1, <3>2
  <2>3. CASE FrameAllocatorInit \/ \E g \in owned : FrameFree(g)
    BY <2>3 DEF FrameAllocatorInit, FrameFree
  <2> QED BY <2>1, <2>2, <2>3 DEF Next
<1> QED BY <1>2, AlwaysInv, PTL DEF Spec, HandsOutOnlyFree

=============================================================================

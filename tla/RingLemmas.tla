----------------------------- MODULE RingLemmas ------------------------------
(***************************************************************************)
(* Facts about numbers that the proofs of several components need: the     *)
(* least element of a set, which is how these proofs argue by induction,   *)
(* recursion, division, and indices modulo the size of a ring.             *)
(***************************************************************************)
EXTENDS Integers, Sequences, SequenceTheorems, WellFoundedInduction, TLAPS

(* A set of natural numbers that is not empty has a least element.         *)
LEMMA LeastNatural ==
    ASSUME NEW S, S \subseteq Nat, S # {}
    PROVE  \E x \in S : \A y \in S : x <= y
<1> DEFINE R == {ss \in Nat \X Nat : ss[1] < ss[2]}
<1>0. IsWellFoundedOn(R, Nat)
  BY NatLessThanWellFounded DEF OpToRel
<1>1. PICK x \in S : \A y \in S : <<y, x>> \notin R
  <2> HIDE DEF R
  <2> QED BY <1>0, WFMin
<1>2. ASSUME NEW y \in S
      PROVE  x <= y
  <2>1. x \in Nat /\ y \in Nat
    OBVIOUS
  <2>2. <<y, x>> \in Nat \X Nat /\ <<y, x>>[1] = y /\ <<y, x>>[2] = x
    BY <2>1
  <2>3. ~(<<y, x>>[1] < <<y, x>>[2])
    BY <1>1, <2>2, Zenon
  <2> QED BY <2>1, <2>2, <2>3
<1> QED BY <1>2

(* A function on the natural numbers may be defined by recursion: f[n] from *)
(* n and from f at a smaller number.                                       *)
IsStep(S, a, g, r) ==
    /\ a \in S /\ g \in [Nat \X S -> S] /\ r \in [Nat -> Nat]
    /\ \A n \in Nat \ {0} : r[n] < n
Recurs(S, a, g, r, f) ==
    /\ f \in [Nat -> S] /\ f[0] = a
    /\ \A n \in Nat \ {0} : f[n] = g[<<n, f[r[n]]>>]

LEMMA Recursion ==
    ASSUME NEW S, NEW a, NEW g, NEW r, IsStep(S, a, g, r)
    PROVE  \E f : Recurs(S, a, g, r, f)
<1> USE DEF IsStep
<1> DEFINE Upto(n, f) == /\ f \in [0 .. n -> S] /\ f[0] = a
                         /\ \A m \in 1 .. n : f[m] = g[<<m, f[r[m]]>>]
<1>1. \A n \in Nat : \E f : Upto(n, f)
  <2> DEFINE B == {n \in Nat : ~\E f : Upto(n, f)}
  <2>1. SUFFICES ASSUME B # {} PROVE FALSE
    OBVIOUS
  <2>2. PICK n \in B : \A m \in B : n <= m
    <3>1. B \subseteq Nat
      OBVIOUS
    <3> HIDE DEF B
    <3> QED BY <2>1, <3>1, LeastNatural
  <2>3. n \in Nat /\ ~\E f : Upto(n, f)
    OBVIOUS
  <2>4. n # 0
    <3>1. Upto(0, [i \in 0 .. 0 |-> a])
      OBVIOUS
    <3> QED BY <2>3, <3>1
  <2>5. n - 1 \in Nat /\ ~(n <= n - 1)
    BY <2>3, <2>4
  <2>6. PICK h : Upto(n - 1, h)
    BY <2>2, <2>5
  <2> DEFINE f == [i \in 0 .. n |-> IF i = n THEN g[<<n, h[r[n]]>>] ELSE h[i]]
  <2>7. r[n] \in 0 .. n - 1
    BY <2>3, <2>4
  <2>8. g[<<n, h[r[n]]>>] \in S
    BY <2>3, <2>6, <2>7
  <2>9. \A i \in 0 .. n - 1 : i \in 0 .. n /\ f[i] = h[i] /\ h[i] \in S
    BY <2>5, <2>6
  <2>10. f \in [0 .. n -> S] /\ f[n] = g[<<n, h[r[n]]>>] /\ f[0] = a
    <3>1. 0 \in 0 .. n - 1 /\ n \in 0 .. n /\ h[0] = a
      BY <2>5, <2>6
    <3>2. f[n] = g[<<n, h[r[n]]>>]
      BY <3>1
    <3>3. ASSUME NEW i \in 0 .. n PROVE f[i] \in S
      <4>1. i # n => i \in 0 .. n - 1
        BY <2>5
      <4> HIDE DEF f
      <4> QED BY <2>8, <2>9, <3>2, <4>1
    <3>4. f = [i \in 0 .. n |-> f[i]]
      OBVIOUS
    <3> HIDE DEF f
    <3> QED BY <2>9, <3>1, <3>2, <3>3, <3>4
  <2>11. ASSUME NEW m \in 1 .. n PROVE f[m] = g[<<m, f[r[m]]>>]
    <3>1. r[m] \in 0 .. m - 1
      OBVIOUS
    <3>2. r[m] \in 0 .. n - 1
      BY <2>3, <3>1
    <3>3. f[r[m]] = h[r[m]]
      BY <2>9, <3>2
    <3>4. CASE m = n
      BY <2>10, <3>3, <3>4
    <3>5. CASE m # n
      <4>1. m \in 1 .. n - 1 /\ m \in 0 .. n - 1
        BY <2>3, <3>5
      <4>2. f[m] = h[m] /\ h[m] = g[<<m, h[r[m]]>>]
        BY <2>6, <2>9, <4>1
      <4> QED BY <3>3, <4>2
    <3> QED BY <3>4, <3>5
  <2>12. Upto(n, f)
    <3> HIDE DEF f
    <3> QED BY <2>10, <2>11
  <2> QED BY <2>3, <2>12
<1>2. ASSUME NEW n \in Nat, NEW f, Upto(n, f), NEW m \in Nat, NEW h, Upto(m, h),
             NEW k \in 0 .. n, k <= m
      PROVE  f[k] = h[k]
  <2> DEFINE B == {i \in 0 .. n : i <= m /\ f[i] # h[i]}
  <2>1. SUFFICES ASSUME B # {} PROVE FALSE
    BY <1>2
  <2>2. PICK i \in B : \A j \in B : i <= j
    <3>1. B \subseteq Nat
      OBVIOUS
    <3> HIDE DEF B
    <3> QED BY <2>1, <3>1, LeastNatural
  <2>3. i \in 0 .. n /\ i <= m /\ f[i] # h[i]
    OBVIOUS
  <2>4. i # 0
    BY <1>2, <2>3
  <2>5. i \in 1 .. n /\ i \in 1 .. m /\ r[i] \in 0 .. i - 1
    BY <2>3, <2>4
  <2>6. r[i] \in 0 .. n /\ r[i] <= m /\ ~(i <= r[i])
    BY <2>5
  <2>7. f[r[i]] = h[r[i]]
    BY <2>2, <2>6
  <2> QED BY <1>2, <2>3, <2>5, <2>7
<1> DEFINE up(n) == CHOOSE f : Upto(n, f)
           F == [n \in Nat |-> up(n)[n]]
<1>3. \A n \in Nat : Upto(n, up(n))
  <2> HIDE DEF Upto
  <2> QED BY <1>1
<1> HIDE DEF up
<1>4. ASSUME NEW n \in Nat PROVE F[n] = up(n)[n] /\ up(n)[n] \in S
  <2>1. Upto(n, up(n)) /\ n \in 0 .. n
    BY <1>3
  <2> QED BY <2>1
<1>5. F \in [Nat -> S]
  BY <1>4
<1>6. F[0] = a
  BY <1>3, <1>4
<1>7. ASSUME NEW n \in Nat \ {0} PROVE F[n] = g[<<n, F[r[n]]>>]
  <2>1. r[n] \in Nat /\ r[n] \in 0 .. n /\ r[n] <= r[n] /\ n \in 1 .. n
    OBVIOUS
  <2>2. Upto(n, up(n)) /\ Upto(r[n], up(r[n]))
    BY <1>3, <2>1
  <2>3. up(n)[r[n]] = up(r[n])[r[n]]
    <3> HIDE DEF Upto
    <3> QED BY <1>2, <2>1, <2>2
  <2>4. up(n)[n] = g[<<n, up(n)[r[n]]>>]
    BY <2>1, <2>2
  <2>5. F[n] = up(n)[n] /\ F[r[n]] = up(r[n])[r[n]]
    BY <1>4, <2>1
  <2> QED BY <2>3, <2>4, <2>5
<1> HIDE DEF F
<1> QED BY <1>5, <1>6, <1>7 DEF Recurs

(* The special case of a value that is carried through n rounds.           *)
IsRound(S, a, g) == a \in S /\ g \in [Nat \X S -> S]
GoesRound(S, a, g, f) ==
    /\ f \in [Nat -> S] /\ f[0] = a
    /\ \A n \in Nat \ {0} : f[n] = g[<<n, f[n - 1]>>]

LEMMA Rounds ==
    ASSUME NEW S, NEW a, NEW g, IsRound(S, a, g)
    PROVE  \E f : GoesRound(S, a, g, f)
<1>1. PICK r \in [Nat -> Nat] : \A n \in Nat \ {0} : r[n] = n - 1
  <2> DEFINE p == [n \in Nat |-> IF n = 0 THEN 0 ELSE n - 1]
  <2>1. p \in [Nat -> Nat] /\ \A n \in Nat \ {0} : p[n] = n - 1
    OBVIOUS
  <2> HIDE DEF p
  <2> QED BY <2>1
<1>2. IsStep(S, a, g, r)
  BY <1>1 DEF IsStep, IsRound
<1>3. PICK f : Recurs(S, a, g, r, f)
  BY <1>2, Recursion, Zenon
<1> QED BY <1>1, <1>3 DEF Recurs, GoesRound

------------------------------------------------------------------------------
(* Division, and multiples.                                                *)
LEMMA DivIs ==
    ASSUME NEW x \in Nat, NEW d \in Nat, d > 0
    PROVE  x \div d \in Nat /\ (x \div d) * d <= x /\ x < (x \div d) * d + d
OBVIOUS

LEMMA MulMono ==
    ASSUME NEW a \in Int, NEW b \in Int, NEW d \in Nat, a < b
    PROVE  a * d + d <= b * d
<1>1. b = (a + 1) + (b - a - 1) /\ b - a - 1 \in Nat
  OBVIOUS
<1>2. (b - a - 1) * d \in Nat
  BY <1>1
<1>3. b * d = a * d + d + (b - a - 1) * d
  OBVIOUS
<1> QED BY <1>2, <1>3

(* There is only one quotient and one remainder.                           *)
LEMMA DivUnique ==
    ASSUME NEW k \in Nat, NEW d \in Nat \ {0}, NEW q \in Nat, NEW o \in 0 .. d - 1,
           k = q * d + o
    PROVE  k \div d = q /\ k % d = o
<1>1. k \div d \in Nat /\ (k \div d) * d <= k /\ k < (k \div d) * d + d
  BY DivIs
<1>2. PICK p \in Nat : p = k \div d
  BY <1>1
<1>3. p * d \in Nat /\ q * d \in Nat
  OBVIOUS
<1>4. ~(p < q)
  <2>1. p < q => p * d + d <= q * d
    BY MulMono
  <2> QED BY <1>1, <1>2, <1>3, <2>1
<1>5. ~(q < p)
  <2>1. q < p => q * d + d <= p * d
    BY MulMono
  <2> QED BY <1>1, <1>2, <1>3, <2>1
<1>6. p = q
  BY <1>4, <1>5
<1>7. k % d = k - d * (k \div d)
  OBVIOUS
<1>8. d * q = q * d
  OBVIOUS
<1> QED BY <1>2, <1>6, <1>7, <1>8

------------------------------------------------------------------------------
(* A ring of n slots: the slots from t up to h, oldest first.              *)
RingSucc(n, i) == (i + 1) % n
RingUsed(n, h, t) == (h - t) % n
RingSlot(n, t, i) == (t + i - 1) % n
IsRing(n, S, b, h, t) == /\ n \in Nat \ {0, 1} /\ b \in [0 .. n - 1 -> S]
                         /\ h \in 0 .. n - 1 /\ t \in 0 .. n - 1
RingSeq(b, n, h, t) == [i \in 1 .. RingUsed(n, h, t) |-> b[RingSlot(n, t, i)]]

(* A queue s, with room for another, becomes s2 when c joins it; it becomes *)
(* s2 when x, its oldest element, leaves it.                               *)
Appends(s, s2, c, room) ==
    s2 = Append(s, c) /\ Len(s2) = Len(s) + 1 /\ Len(s) < room
Takes(s, s2, x) ==
    s # <<>> /\ Head(s) = x /\ s2 = Tail(s) /\ Len(s2) = Len(s) - 1

(* These remainders without remainders.                                    *)
LEMMA RingSuccIs ==
    ASSUME NEW n \in Nat \ {0, 1}, NEW i \in 0 .. n - 1
    PROVE  /\ RingSucc(n, i) = IF i = n - 1 THEN 0 ELSE i + 1
           /\ RingSucc(n, i) \in 0 .. n - 1
<1>1. RingSucc(n, i) = IF i = n - 1 THEN 0 ELSE i + 1
  BY DEF RingSucc
<1> QED BY <1>1

LEMMA RingUsedIs ==
    ASSUME NEW n \in Nat \ {0, 1}, NEW h \in 0 .. n - 1, NEW t \in 0 .. n - 1
    PROVE  /\ RingUsed(n, h, t) = IF h >= t THEN h - t ELSE h - t + n
           /\ RingUsed(n, h, t) \in 0 .. n - 1
<1>1. RingUsed(n, h, t) = IF h >= t THEN h - t ELSE h - t + n
  BY DEF RingUsed
<1> QED BY <1>1

LEMMA RingSlotIs ==
    ASSUME NEW n \in Nat \ {0, 1}, NEW t \in 0 .. n - 1, NEW i \in 1 .. n
    PROVE  /\ RingSlot(n, t, i) = IF t + i - 1 < n THEN t + i - 1 ELSE t + i - 1 - n
           /\ RingSlot(n, t, i) \in 0 .. n - 1
<1>1. RingSlot(n, t, i) = IF t + i - 1 < n THEN t + i - 1 ELSE t + i - 1 - n
  BY DEF RingSlot
<1> QED BY <1>1

(* How many slots are in use, before and after h or t moves on.            *)
LEMMA RingUsedMoves ==
    ASSUME NEW n \in Nat \ {0, 1}, NEW h \in 0 .. n - 1, NEW t \in 0 .. n - 1
    PROVE  /\ RingUsed(n, h, t) = 0 <=> h = t
           /\ RingUsed(n, h, t) = n - 1 <=> RingSucc(n, h) = t
           /\ RingSucc(n, h) # t => RingUsed(n, RingSucc(n, h), t) = RingUsed(n, h, t) + 1
           /\ h # t => RingUsed(n, h, RingSucc(n, t)) = RingUsed(n, h, t) - 1
<1> DEFINE h2 == RingSucc(n, h)
           t2 == RingSucc(n, t)
<1>1. h2 = (IF h = n - 1 THEN 0 ELSE h + 1) /\ h2 \in 0 .. n - 1
  BY RingSuccIs
<1>2. t2 = (IF t = n - 1 THEN 0 ELSE t + 1) /\ t2 \in 0 .. n - 1
  BY RingSuccIs
<1> HIDE DEF h2, t2
<1>3. RingUsed(n, h, t) = IF h >= t THEN h - t ELSE h - t + n
  BY RingUsedIs
<1>4. RingUsed(n, h2, t) = IF h2 >= t THEN h2 - t ELSE h2 - t + n
  BY <1>1, RingUsedIs
<1>5. RingUsed(n, h, t2) = IF h >= t2 THEN h - t2 ELSE h - t2 + n
  BY <1>2, RingUsedIs
<1>6. /\ RingUsed(n, h, t) = 0 <=> h = t
      /\ RingUsed(n, h, t) = n - 1 <=> h2 = t
  BY <1>1, <1>3
<1>7. h2 # t => RingUsed(n, h2, t) = RingUsed(n, h, t) + 1
  BY <1>1, <1>3, <1>4
<1>8. h # t => RingUsed(n, h, t2) = RingUsed(n, h, t) - 1
  BY <1>2, <1>3, <1>5
<1> QED BY <1>6, <1>7, <1>8 DEF h2, t2

(* The first free slot is slot h, and the elements are in other slots.     *)
LEMMA RingSlots ==
    ASSUME NEW n \in Nat \ {0, 1}, NEW h \in 0 .. n - 1, NEW t \in 0 .. n - 1
    PROVE  /\ \A i \in 1 .. n : RingSlot(n, t, i) \in 0 .. n - 1
           /\ RingSlot(n, t, RingUsed(n, h, t) + 1) = h
           /\ \A i \in 1 .. RingUsed(n, h, t) : RingSlot(n, t, i) # h
           /\ RingSlot(n, t, 1) = t
           /\ \A i \in 1 .. n - 1 : RingSlot(n, RingSucc(n, t), i) = RingSlot(n, t, i + 1)
<1> DEFINE t2 == RingSucc(n, t)
           u == RingUsed(n, h, t)
<1>1. t2 = (IF t = n - 1 THEN 0 ELSE t + 1) /\ t2 \in 0 .. n - 1
  BY RingSuccIs
<1>2. u = (IF h >= t THEN h - t ELSE h - t + n) /\ u \in 0 .. n - 1
  BY RingUsedIs
<1> HIDE DEF t2, u
<1>3. \A i \in 1 .. n : RingSlot(n, t, i) = IF t + i - 1 < n THEN t + i - 1 ELSE t + i - 1 - n
  BY RingSlotIs
<1>4. \A i \in 1 .. n : RingSlot(n, t2, i) = IF t2 + i - 1 < n THEN t2 + i - 1 ELSE t2 + i - 1 - n
  BY <1>1, RingSlotIs
<1>5. RingSlot(n, t, u + 1) = h /\ RingSlot(n, t, 1) = t
  <2>1. 1 \in 1 .. n /\ u + 1 \in 1 .. n
    BY <1>2
  <2> QED BY <2>1, <1>2, <1>3
<1>6. \A i \in 1 .. u : RingSlot(n, t, i) # h
  BY <1>2, <1>3
<1>7. ASSUME NEW i \in 1 .. n - 1
      PROVE  RingSlot(n, t2, i) = RingSlot(n, t, i + 1)
  <2>1. i \in 1 .. n /\ i + 1 \in 1 .. n
    OBVIOUS
  <2> QED BY <2>1, <1>1, <1>3, <1>4
<1>8. \A i \in 1 .. n : RingSlot(n, t, i) \in 0 .. n - 1
  BY RingSlotIs
<1> QED BY <1>5, <1>6, <1>7, <1>8 DEF t2, u

(* The contents of a ring as a sequence: its elements, its length.         *)
LEMMA RingContents ==
    ASSUME NEW n, NEW S, NEW b, NEW h, NEW t, IsRing(n, S, b, h, t)
    PROVE  /\ RingSeq(b, n, h, t) \in Seq(S)
           /\ Len(RingSeq(b, n, h, t)) = RingUsed(n, h, t)
           /\ \A i \in 1 .. RingUsed(n, h, t) : RingSeq(b, n, h, t)[i] = b[RingSlot(n, t, i)]
           /\ RingUsed(n, h, t) \in 0 .. n - 1
           /\ RingSeq(b, n, h, t) = <<>> <=> h = t
<1> DEFINE u == RingUsed(n, h, t)
           s == RingSeq(b, n, h, t)
<1>1. /\ n \in Nat \ {0, 1} /\ h \in 0 .. n - 1 /\ t \in 0 .. n - 1
      /\ b \in [0 .. n - 1 -> S]
  BY DEF IsRing
<1>2. u \in 0 .. n - 1
  BY <1>1, RingUsedIs
<1>3. u = 0 <=> h = t
  BY <1>1, RingUsedMoves
<1>4. ASSUME NEW i \in 1 .. u
      PROVE  RingSlot(n, t, i) \in 0 .. n - 1
  <2>1. i \in 1 .. n
    BY <1>1, <1>2
  <2> QED BY <1>1, <2>1, RingSlotIs
<1>5. s = [i \in 1 .. u |-> b[RingSlot(n, t, i)]]
  BY DEF RingSeq
<1> HIDE DEF s, u
<1>6. s \in [1 .. u -> S]
  BY <1>1, <1>4, <1>5
<1>7. u \in Nat
  BY <1>1, <1>2
<1>8. s \in Seq(S) /\ Len(s) = u
  BY <1>6, <1>7
<1>9. s = <<>> <=> u = 0
  BY <1>7, <1>8, EmptySeq
<1> QED BY <1>2, <1>3, <1>5, <1>8, <1>9 DEF s, u

(* Storing c in slot h and moving h on appends c.                          *)
LEMMA RingPush ==
    ASSUME NEW n, NEW S, NEW b, NEW h, NEW t, IsRing(n, S, b, h, t),
           NEW c, c \in S, RingSucc(n, h) # t
    PROVE  /\ IsRing(n, S, [b EXCEPT ![h] = c], RingSucc(n, h), t)
           /\ Appends(RingSeq(b, n, h, t),
                      RingSeq([b EXCEPT ![h] = c], n, RingSucc(n, h), t), c, n - 1)
<1> DEFINE h2 == RingSucc(n, h)
           b2 == [b EXCEPT ![h] = c]
           u == RingUsed(n, h, t)
           s == RingSeq(b, n, h, t)
           s2 == RingSeq(b2, n, h2, t)
<1>1. /\ n \in Nat \ {0, 1} /\ h \in 0 .. n - 1 /\ t \in 0 .. n - 1
      /\ b \in [0 .. n - 1 -> S]
  BY DEF IsRing
<1>2. h2 \in 0 .. n - 1
  BY <1>1, RingSuccIs
<1>3. b2 \in [0 .. n - 1 -> S] /\ b2[h] = c /\ \A i \in 0 .. n - 1 : i # h => b2[i] = b[i]
  BY <1>1
<1>4. u \in 0 .. n - 1
  BY <1>1, RingUsedIs
<1>5. u # n - 1 /\ RingUsed(n, h2, t) = u + 1
  BY <1>1, RingUsedMoves
<1>6. /\ \A i \in 1 .. n : RingSlot(n, t, i) \in 0 .. n - 1
      /\ RingSlot(n, t, u + 1) = h
      /\ \A i \in 1 .. u : RingSlot(n, t, i) # h
  <2>1. \A i \in 1 .. n : RingSlot(n, t, i) \in 0 .. n - 1
    BY <1>1, RingSlotIs
  <2>2. RingSlot(n, t, RingUsed(n, h, t) + 1) = h
    BY <1>1, RingSlots
  <2>3. \A i \in 1 .. RingUsed(n, h, t) : RingSlot(n, t, i) # h
    BY <1>1, RingSlots
  <2> QED BY <2>1, <2>2, <2>3
<1> HIDE DEF u, h2, b2
<1>7. IsRing(n, S, b2, h2, t)
  BY <1>1, <1>2, <1>3 DEF IsRing
<1>8. s \in Seq(S) /\ Len(s) = u /\ \A i \in 1 .. u : s[i] = b[RingSlot(n, t, i)]
  BY RingContents DEF u
<1> HIDE DEF s
<1>9. s2 \in Seq(S) /\ Len(s2) = u + 1 /\ \A i \in 1 .. u + 1 : s2[i] = b2[RingSlot(n, t, i)]
  <2>1. /\ s2 \in Seq(S) /\ Len(s2) = RingUsed(n, h2, t)
        /\ \A i \in 1 .. RingUsed(n, h2, t) : s2[i] = b2[RingSlot(n, t, i)]
    BY <1>7, RingContents
  <2> HIDE DEF s2
  <2> QED BY <1>5, <2>1
<1> HIDE DEF s2
<1>10. /\ Append(s, c) \in Seq(S) /\ Len(Append(s, c)) = u + 1
       /\ \A i \in 1 .. u : Append(s, c)[i] = s[i]
       /\ Append(s, c)[u + 1] = c
  BY <1>8, AppendProperties
<1>11. ASSUME NEW i \in 1 .. u + 1
       PROVE  s2[i] = Append(s, c)[i]
  <2>1. CASE i = u + 1
    BY <2>1, <1>3, <1>6, <1>9, <1>10
  <2>2. CASE i # u + 1
    <3>1. i \in 1 .. u /\ i \in 1 .. n
      BY <2>2, <1>1, <1>4
    <3>2. b2[RingSlot(n, t, i)] = b[RingSlot(n, t, i)]
      BY <3>1, <1>3, <1>6
    <3> QED BY <3>1, <3>2, <1>8, <1>9, <1>10
  <2> QED BY <2>1, <2>2
<1>12. s2 = Append(s, c)
  BY <1>9, <1>10, <1>11, SeqEqual
<1>13. Len(s) < n - 1 /\ Len(Append(s, c)) = Len(s) + 1
  BY <1>1, <1>4, <1>5, <1>8, <1>10
<1>14. Appends(s, s2, c, n - 1)
  BY <1>12, <1>13 DEF Appends
<1> QED BY <1>7, <1>14 DEF s, s2, b2, h2

(* Moving t on removes the oldest element.                                 *)
LEMMA RingPop ==
    ASSUME NEW n, NEW S, NEW b, NEW h, NEW t, IsRing(n, S, b, h, t), h # t
    PROVE  /\ IsRing(n, S, b, h, RingSucc(n, t))
           /\ Takes(RingSeq(b, n, h, t), RingSeq(b, n, h, RingSucc(n, t)), b[t])
<1> DEFINE t2 == RingSucc(n, t)
           u == RingUsed(n, h, t)
           s == RingSeq(b, n, h, t)
           s2 == RingSeq(b, n, h, t2)
<1>1. /\ n \in Nat \ {0, 1} /\ h \in 0 .. n - 1 /\ t \in 0 .. n - 1
      /\ b \in [0 .. n - 1 -> S]
  BY DEF IsRing
<1>2. t2 \in 0 .. n - 1
  BY <1>1, RingSuccIs
<1>3. u \in 0 .. n - 1
  BY <1>1, RingUsedIs
<1>4. u # 0 /\ RingUsed(n, h, t2) = u - 1
  BY <1>1, RingUsedMoves
<1>5. /\ RingSlot(n, t, 1) = t
      /\ \A i \in 1 .. n - 1 : RingSlot(n, t2, i) = RingSlot(n, t, i + 1)
  BY <1>1, RingSlots
<1> HIDE DEF t2, u
<1>6. IsRing(n, S, b, h, t2)
  BY <1>1, <1>2 DEF IsRing
<1>7. s \in Seq(S) /\ Len(s) = u /\ s # <<>> /\ \A i \in 1 .. u : s[i] = b[RingSlot(n, t, i)]
  BY RingContents DEF u
<1> HIDE DEF s
<1>8. s2 \in Seq(S) /\ Len(s2) = u - 1 /\ \A i \in 1 .. u - 1 : s2[i] = b[RingSlot(n, t2, i)]
  <2>1. /\ s2 \in Seq(S) /\ Len(s2) = RingUsed(n, h, t2)
        /\ \A i \in 1 .. RingUsed(n, h, t2) : s2[i] = b[RingSlot(n, t2, i)]
    BY <1>6, RingContents
  <2> HIDE DEF s2
  <2> QED BY <1>4, <2>1
<1> HIDE DEF s2
<1>9. Tail(s) \in Seq(S) /\ Len(Tail(s)) = u - 1 /\ \A i \in 1 .. u - 1 : Tail(s)[i] = s[i + 1]
  BY <1>7, HeadTailProperties
<1>10. ASSUME NEW i \in 1 .. u - 1
       PROVE  s2[i] = Tail(s)[i]
  <2>1. i + 1 \in 1 .. u /\ i \in 1 .. n - 1
    BY <1>1, <1>3
  <2> QED BY <2>1, <1>5, <1>7, <1>8, <1>9
<1>11. s2 = Tail(s)
  BY <1>8, <1>9, <1>10, SeqEqual
<1>12. Head(s) = b[t]
  <2>1. 1 \in 1 .. u
    BY <1>1, <1>3, <1>4
  <2>2. s[1] = b[t]
    BY <2>1, <1>5, <1>7
  <2> QED BY <2>2, <1>7
<1>13. Len(Tail(s)) = Len(s) - 1
  BY <1>7, <1>9
<1>14. Takes(s, s2, b[t])
  BY <1>7, <1>11, <1>12, <1>13 DEF Takes
<1> QED BY <1>6, <1>14 DEF s, s2, t2
==============================================================================

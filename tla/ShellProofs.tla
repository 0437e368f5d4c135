----------------------------- MODULE ShellProofs -----------------------------
(***************************************************************************)
(* Proofs about Monitor, Kprintf and Shell, for every size of the screen,  *)
(* width of the words, length of the line and number of arguments.         *)
(***************************************************************************)
EXTENDS Shell, RingLemmas

-----------------------------------------------------------------------------
(* u64_divmod.                                                             *)

LEMMA Pow2Is == Pow2[0] = 1 /\ \A k \in Nat \ {0} : Pow2[k] = 2 * Pow2[k - 1]
<1> DEFINE body(h, k) == IF k = 0 THEN 1 ELSE 2 * h[k - 1]
           g == [e \in Nat \X Int |-> 2 * e[2]]
<1>1. IsRound(Int, 1, g)
  BY DEF IsRound
<1>2. PICK f : GoesRound(Int, 1, g, f)
  BY <1>1, Rounds, Zenon
<1>3. ASSUME NEW k \in Nat PROVE f[k] = body(f, k)
  <2>1. CASE k = 0
    BY <1>2, <2>1 DEF GoesRound
  <2>2. CASE k # 0
    <3>1. k - 1 \in Nat /\ k \in Nat \ {0}
      BY <2>2
    <3>2. f[k - 1] \in Int
      BY <1>2, <3>1 DEF GoesRound
    <3>3. f[k] = g[<<k, f[k - 1]>>]
      BY <1>2, <3>1 DEF GoesRound
    <3>4. g[<<k, f[k - 1]>>] = 2 * f[k - 1]
      BY <3>2
    <3> QED BY <2>2, <3>3, <3>4
  <2> QED BY <2>1, <2>2
<1>4. f = [k \in Nat |-> body(f, k)]
  <2>1. f = [k \in Nat |-> f[k]]
    BY <1>2 DEF GoesRound
  <2> QED BY <1>3, <2>1, Zenon
<1>5. Pow2 = [k \in Nat |-> body(Pow2, k)]
  <2>1. Pow2 = CHOOSE h : h = [k \in Nat |-> body(h, k)]
    BY DEF Pow2
  <2> QED BY <1>4, <2>1, Zenon
<1> QED BY <1>5

LEMMA Pow2Nat == \A k \in Nat : Pow2[k] \in Nat \ {0}
<1> DEFINE B == {k \in Nat : Pow2[k] \notin Nat \ {0}}
<1>1. SUFFICES ASSUME B # {} PROVE FALSE
  OBVIOUS
<1>2. PICK k \in B : \A m \in B : k <= m
  <2>1. B \subseteq Nat
    OBVIOUS
  <2> HIDE DEF B
  <2> QED BY <1>1, <2>1, LeastNatural
<1>3. k \in Nat \ {0}
  BY Pow2Is
<1>4. k - 1 \in Nat /\ ~(k <= k - 1)
  BY <1>3
<1>5. Pow2[k - 1] \in Nat \ {0}
  BY <1>2, <1>4
<1> QED BY <1>3, <1>5, Pow2Is

LEMMA Pow2Grows ==
    ASSUME NEW j \in Nat, NEW k \in Nat, j <= k
    PROVE  Pow2[j] <= Pow2[k]
<1> DEFINE B == {m \in Nat : j <= m /\ ~(Pow2[j] <= Pow2[m])}
<1>1. SUFFICES ASSUME B # {} PROVE FALSE
  OBVIOUS
<1>2. PICK m \in B : \A n \in B : m <= n
  <2>1. B \subseteq Nat
    OBVIOUS
  <2> HIDE DEF B
  <2> QED BY <1>1, <2>1, LeastNatural
<1>3. m \in Nat /\ j <= m /\ ~(Pow2[j] <= Pow2[m])
  OBVIOUS
<1>4. m # j
  BY <1>3, Pow2Nat
<1>5. m \in Nat \ {0} /\ m - 1 \in Nat /\ j <= m - 1 /\ ~(m <= m - 1)
  BY <1>3, <1>4
<1>6. Pow2[j] <= Pow2[m - 1]
  BY <1>2, <1>5
<1> QED BY <1>3, <1>5, <1>6, Pow2Is, Pow2Nat

LEMMA LongWordIs == LongWord \in Nat /\ LongWord > 16 /\ LongWord = Pow2[LongBits]
<1>1. Pow2[0] = 1 /\ Pow2[1] = 2 /\ Pow2[2] = 4 /\ Pow2[3] = 8 /\ Pow2[4] = 16 /\ Pow2[5] = 32
  <2>1. \A k \in {1, 2, 3, 4, 5} : k \in Nat \ {0}
    OBVIOUS
  <2>2. Pow2[0] = 1 /\ Pow2[1] = 2 * Pow2[0] /\ Pow2[2] = 2 * Pow2[1] /\ Pow2[3] = 2 * Pow2[2]
        /\ Pow2[4] = 2 * Pow2[3] /\ Pow2[5] = 2 * Pow2[4]
    BY <2>1, Pow2Is
  <2> QED BY <2>2
<1>2. Pow2[5] <= Pow2[LongBits] /\ Pow2[LongBits] \in Nat
  BY KprintfAssumption, Pow2Grows, Pow2Nat
<1> QED BY <1>1, <1>2 DEF LongWord

(* The rounds of the first loop.                                           *)
UpState == [denom : Nat, current : Nat]

LEMMA ShlIs ==
    ASSUME NEW w \in 1 .. LongWord - 1
    PROVE  /\ Shl(w) > w <=> 2 * w < LongWord
           /\ 2 * w < LongWord => Shl(w) = 2 * w
<1>1. PICK W \in Nat : W = LongWord
  BY LongWordIs
<1>2. Shl(w) = (2 * w) % W
  BY <1>1 DEF Shl
<1>3. 2 * w < W => (2 * w) % W = 2 * w
  BY <1>1
<1>4. 2 * w >= W => (2 * w) % W = 2 * w - W
  BY <1>1
<1> QED BY <1>1, <1>2, <1>3, <1>4

LEMMA ShiftUpType ==
    ASSUME NEW a \in UpState, NEW n
    PROVE  ShiftUp(a, n) \in UpState
<1>1. \A v \in Nat : Shl(v) \in Nat
  BY LongWordIs DEF Shl
<1>2. a.denom \in Nat /\ a.current \in Nat
  BY DEF UpState
<1> QED BY <1>1, <1>2 DEF ShiftUp, UpState

LEMMA UpIs ==
    ASSUME NEW n \in Nat, NEW base \in Nat
    PROVE  \E u : /\ u[0] = [denom |-> base, current |-> 1]
                  /\ \A k \in 1 .. LongBits : u[k] = ShiftUp(u[k - 1], n)
                  /\ Aligned(n, base) = u[LongBits]
<1> DEFINE D == 0 .. LongBits
           start == [denom |-> base, current |-> 1]
           body(h, k) == IF k = 0 THEN start ELSE ShiftUp(h[k - 1], n)
           g == [e \in Nat \X UpState |-> ShiftUp(e[2], n)]
           u == CHOOSE h : h = [k \in D |-> body(h, k)]
<1>0. LongBits \in Nat
  BY KprintfAssumption
<1>1. IsRound(UpState, start, g)
  <2>1. start \in UpState
    BY DEF UpState
  <2>2. \A e \in Nat \X UpState : e[2] \in UpState
    OBVIOUS
  <2> QED BY <2>1, <2>2, ShiftUpType DEF IsRound
<1>2. PICK f : GoesRound(UpState, start, g, f)
  BY <1>1, Rounds, Zenon
<1> DEFINE d == [k \in D |-> f[k]]
<1>3. ASSUME NEW k \in D PROVE d[k] = body(d, k)
  <2>1. CASE k = 0
    BY <1>2, <2>1 DEF GoesRound
  <2>2. CASE k # 0
    <3>1. k - 1 \in Nat /\ k - 1 \in D /\ k \in Nat \ {0}
      BY <1>0, <2>2
    <3>2. f[k - 1] \in UpState /\ f[k] = g[<<k, f[k - 1]>>]
      BY <1>2, <3>1 DEF GoesRound
    <3>3. <<k, f[k - 1]>> \in Nat \X UpState /\ <<k, f[k - 1]>>[2] = f[k - 1]
      BY <3>1, <3>2
    <3>4. f[k] = ShiftUp(f[k - 1], n)
      BY <3>2, <3>3
    <3> QED BY <2>2, <3>1, <3>4
  <2> QED BY <2>1, <2>2
<1>4. d = [k \in D |-> body(d, k)]
  <2>1. d = [k \in D |-> d[k]]
    OBVIOUS
  <2> HIDE DEF d, body, D
  <2> QED BY <1>3, <2>1, Zenon
<1>5. u = [k \in D |-> body(u, k)]
  <2> HIDE DEF d, body, D
  <2> QED BY <1>4, Zenon
<1>6. Aligned(n, base) = u[LongBits]
  BY DEF Aligned
<1> HIDE DEF u
<1>7. \A k \in D : u[k] = body(u, k)
  BY <1>5, Zenon
<1>8. u[0] = start
  BY <1>0, <1>7
<1>9. ASSUME NEW k \in 1 .. LongBits PROVE u[k] = ShiftUp(u[k - 1], n)
  <2>1. k \in D /\ k # 0
    BY <1>0
  <2> HIDE DEF D
  <2> QED BY <1>7, <2>1
<1> QED BY <1>6, <1>8, <1>9

(* The divisor is the largest multiple by a power of two that does not     *)
(* exceed n, or the base itself.                                           *)
LEMMA AlignedIs ==
    ASSUME NEW n \in 0 .. LongWord - 1, NEW base \in 2 .. 16
    PROVE  \E t \in 0 .. LongBits - 1 :
             /\ Aligned(n, base) = [denom |-> base * Pow2[t], current |-> Pow2[t]]
             /\ n < 2 * (base * Pow2[t])
<1>0. LongBits \in Nat /\ LongBits > 4 /\ LongWord \in Nat /\ LongWord > 16
  BY KprintfAssumption, LongWordIs
<1>1. PICK u : /\ u[0] = [denom |-> base, current |-> 1]
               /\ \A k \in 1 .. LongBits : u[k] = ShiftUp(u[k - 1], n)
               /\ Aligned(n, base) = u[LongBits]
  BY <1>0, UpIs
<1> DEFINE At(t) == [denom |-> base * Pow2[t], current |-> Pow2[t]]
           OK(k, t) == /\ u[k] = At(t) /\ base * Pow2[t] < LongWord
                       /\ t = k \/ ~FirstLoop(At(t), n)
           B == {k \in 0 .. LongBits : ~\E t \in 0 .. k : OK(k, t)}
<1>2. B = {}
  <2>1. SUFFICES ASSUME B # {} PROVE FALSE
    OBVIOUS
  <2>2. PICK k \in B : \A m \in B : k <= m
    <3>1. B \subseteq Nat
      OBVIOUS
    <3> HIDE DEF B
    <3> QED BY <2>1, <3>1, LeastNatural
  <2>3. k \in 0 .. LongBits /\ ~\E t \in 0 .. k : OK(k, t)
    OBVIOUS
  <2>4. k # 0
    <3>1. base * Pow2[0] = base /\ Pow2[0] = 1
      BY Pow2Is
    <3>2. OK(0, 0)
      BY <1>0, <1>1, <3>1
    <3> HIDE DEF OK
    <3> QED BY <2>3, <3>2
  <2>5. k \in 1 .. LongBits /\ k - 1 \in 0 .. LongBits /\ ~(k <= k - 1)
    BY <1>0, <2>3, <2>4
  <2>6. PICK t \in 0 .. k - 1 : OK(k - 1, t)
    <3> HIDE DEF OK
    <3> QED BY <2>2, <2>5
  <2>7. u[k] = ShiftUp(At(t), n)
    BY <1>1, <2>5, <2>6
  <2>8. t \in 0 .. k /\ t + 1 \in 0 .. k /\ t + 1 \in Nat \ {0} /\ t \in Nat
    BY <2>5
  <2>9. CASE ~FirstLoop(At(t), n)
    <3>1. u[k] = At(t)
      BY <2>7, <2>9 DEF ShiftUp
    <3>2. OK(k, t)
      BY <2>6, <2>9, <3>1
    <3> HIDE DEF OK
    <3> QED BY <2>3, <2>8, <3>2
  <2>10. CASE FirstLoop(At(t), n)
    <3>1. PICK d \in Nat, c \in Nat :
            d = base * Pow2[t] /\ c = Pow2[t] /\ d > 0 /\ c > 0 /\ c <= d /\ d < LongWord
      <4>1. Pow2[t] \in Nat \ {0}
        BY <2>8, Pow2Nat
      <4>2. base * Pow2[t] \in Nat /\ base * Pow2[t] >= Pow2[t]
        BY <4>1
      <4> QED BY <2>6, <4>1, <4>2
    <3>2. t = k - 1 /\ At(t).denom = d /\ At(t).current = c
      BY <2>6, <2>10, <3>1
    <3>3. Shl(d) > d /\ d \in 1 .. LongWord - 1
      BY <1>0, <2>10, <3>1, <3>2 DEF FirstLoop
    <3>4. 2 * d < LongWord /\ Shl(d) = 2 * d
      BY <3>3, ShlIs
    <3>5. c \in 1 .. LongWord - 1 /\ 2 * c < LongWord
      BY <1>0, <3>1, <3>4
    <3>6. Shl(c) = 2 * c
      BY <3>5, ShlIs
    <3>7. Pow2[t + 1] = 2 * c /\ base * Pow2[t + 1] = 2 * d
      BY <2>8, <3>1, Pow2Is
    <3>8. u[k] = [denom |-> 2 * d, current |-> 2 * c]
      BY <2>7, <2>10, <3>2, <3>4, <3>6 DEF ShiftUp
    <3>9. OK(k, t + 1)
      BY <3>2, <3>4, <3>7, <3>8
    <3> HIDE DEF OK
    <3> QED BY <2>3, <2>8, <3>9
  <2> QED BY <2>9, <2>10
<1>3. PICK t \in 0 .. LongBits : OK(LongBits, t)
  <2>1. LongBits \in 0 .. LongBits
    BY <1>0
  <2> HIDE DEF OK
  <2> QED BY <1>2, <2>1
<1>4. Pow2[t] \in Nat \ {0} /\ base * Pow2[t] \in Nat /\ base * Pow2[t] >= Pow2[t]
  <2>1. Pow2[t] \in Nat \ {0}
    BY <1>0, Pow2Nat
  <2> QED BY <2>1
<1>5. t # LongBits
  BY <1>3, <1>4, LongWordIs
<1>6. ~FirstLoop(At(t), n)
  BY <1>3, <1>5
<1>7. PICK d \in Nat : d = base * Pow2[t] /\ d \in 1 .. LongWord - 1
  BY <1>0, <1>3, <1>4
<1>8. ~(Shl(d) > d /\ Shl(d) <= n)
  BY <1>6, <1>7 DEF FirstLoop
<1>9. n < 2 * d
  BY <1>0, <1>7, <1>8, ShlIs
<1>10. t \in 0 .. LongBits - 1
  BY <1>0, <1>5
<1> QED BY <1>1, <1>3, <1>7, <1>9, <1>10

(* The rounds of the second loop.                                          *)
DownState == [rem : Int, quotient : Int, denom : Int, current : Int]
DownStart(n, top) ==
    [rem |-> n, quotient |-> 0, denom |-> top.denom, current |-> top.current]

LEMMA SubtractType ==
    ASSUME NEW a \in DownState
    PROVE  Subtract(a) \in DownState
<1>1. a.rem \in Int /\ a.quotient \in Int /\ a.denom \in Int /\ a.current \in Int
  BY DEF DownState
<1> QED BY <1>1 DEF Subtract, DownState

LEMMA DownIs ==
    ASSUME NEW n \in Int, NEW base, Aligned(n, base) \in UpState
    PROVE  \E u : /\ u[0] = DownStart(n, Aligned(n, base))
                  /\ \A k \in 1 .. LongBits : u[k] = Subtract(u[k - 1])
                  /\ u64_divmod(n, base) = u[LongBits]
<1> DEFINE D == 0 .. LongBits
           start == DownStart(n, Aligned(n, base))
           body(h, k) == IF k = 0 THEN start ELSE Subtract(h[k - 1])
           g == [e \in Nat \X DownState |-> Subtract(e[2])]
           u == CHOOSE h : h = [k \in D |-> body(h, k)]
<1>0. LongBits \in Nat
  BY KprintfAssumption
<1>1. IsRound(DownState, start, g)
  <2>1. start \in DownState
    BY DEF UpState, DownState, DownStart
  <2>2. \A e \in Nat \X DownState : e[2] \in DownState
    OBVIOUS
  <2> HIDE DEF start
  <2> QED BY <2>1, <2>2, SubtractType DEF IsRound
<1>2. PICK f : GoesRound(DownState, start, g, f)
  BY <1>1, Rounds, Zenon
<1>6. u64_divmod(n, base) = u[LongBits]
  BY DEF u64_divmod, DownStart
<1> HIDE DEF start
<1> DEFINE d == [k \in D |-> f[k]]
<1>3. ASSUME NEW k \in D PROVE d[k] = body(d, k)
  <2>1. CASE k = 0
    BY <1>2, <2>1 DEF GoesRound
  <2>2. CASE k # 0
    <3>1. k - 1 \in Nat /\ k - 1 \in D /\ k \in Nat \ {0}
      BY <1>0, <2>2
    <3>2. f[k - 1] \in DownState /\ f[k] = g[<<k, f[k - 1]>>]
      BY <1>2, <3>1 DEF GoesRound
    <3>3. <<k, f[k - 1]>> \in Nat \X DownState /\ <<k, f[k - 1]>>[2] = f[k - 1]
      BY <3>1, <3>2
    <3>4. f[k] = Subtract(f[k - 1])
      BY <3>2, <3>3
    <3> QED BY <2>2, <3>1, <3>4
  <2> QED BY <2>1, <2>2
<1>4. d = [k \in D |-> body(d, k)]
  <2>1. d = [k \in D |-> d[k]]
    OBVIOUS
  <2> HIDE DEF d, body, D
  <2> QED BY <1>3, <2>1, Zenon
<1>5. u = [k \in D |-> body(u, k)]
  <2> HIDE DEF d, body, D
  <2> QED BY <1>4, Zenon
<1> HIDE DEF u
<1>7. \A k \in D : u[k] = body(u, k)
  BY <1>5, Zenon
<1>8. u[0] = start
  BY <1>0, <1>7
<1>9. ASSUME NEW k \in 1 .. LongBits PROVE u[k] = Subtract(u[k - 1])
  <2>1. k \in D /\ k # 0
    BY <1>0
  <2> HIDE DEF D
  <2> QED BY <1>7, <2>1
<1> USE DEF start
<1> QED BY <1>6, <1>8, <1>9

(* u64_divmod divides, although its divisor is shifted through a word that *)
(* may be too small for the next multiple.                                 *)
LEMMA DivmodIs ==
    ASSUME NEW n \in 0 .. LongWord - 1, NEW base \in 2 .. 16
    PROVE  /\ u64_divmod(n, base).quotient = n \div base
           /\ u64_divmod(n, base).rem = n % base
<1>0. LongBits \in Nat /\ LongBits > 4 /\ LongWord \in Nat /\ LongWord > 16
  BY KprintfAssumption, LongWordIs
<1>1. PICK t \in 0 .. LongBits - 1 :
        /\ Aligned(n, base) = [denom |-> base * Pow2[t], current |-> Pow2[t]]
        /\ n < 2 * (base * Pow2[t])
  BY AlignedIs
<1>2. \A k \in Nat : Pow2[k] \in Nat \ {0} /\ base * Pow2[k] \in Nat \ {0}
  <2>1. \A c \in Nat \ {0} : base * c \in Nat \ {0}
    OBVIOUS
  <2> QED BY <2>1, Pow2Nat
<1>3. t \in Nat /\ Aligned(n, base) \in UpState
  BY <1>0, <1>1, <1>2 DEF UpState
<1>4. PICK u : /\ u[0] = DownStart(n, Aligned(n, base))
               /\ \A k \in 1 .. LongBits : u[k] = Subtract(u[k - 1])
               /\ u64_divmod(n, base) = u[LongBits]
  BY <1>0, <1>3, DownIs
<1> DEFINE Under(k, d, c, r, q) ==
             /\ u[k] = [rem |-> r, quotient |-> q, denom |-> d, current |-> c]
             /\ n = q * base + r
           OK(k) == \E d \in Nat, c \in Nat, r \in Nat, q \in Nat :
                      /\ Under(k, d, c, r, q)
                      /\ IF k <= t THEN c = Pow2[t - k] /\ d = base * c /\ r < 2 * d
                                   ELSE c = 0 /\ r < base
           B == {k \in 0 .. LongBits : ~OK(k)}
<1>5. B = {}
  <2>1. SUFFICES ASSUME B # {} PROVE FALSE
    OBVIOUS
  <2>2. PICK k \in B : \A m \in B : k <= m
    <3>1. B \subseteq Nat
      OBVIOUS
    <3> HIDE DEF B
    <3> QED BY <2>1, <3>1, LeastNatural
  <2>3. k \in 0 .. LongBits /\ ~OK(k)
    <3> HIDE DEF OK
    <3> QED OBVIOUS
  <2>4. k # 0
    <3>1. u[0] = [rem |-> n, quotient |-> 0, denom |-> base * Pow2[t], current |-> Pow2[t]]
      BY <1>1, <1>4 DEF DownStart
    <3>2. t - 0 = t /\ n = 0 * base + n /\ 0 <= t /\ n \in Nat
      BY <1>3
    <3>3. Under(0, base * Pow2[t], Pow2[t], n, 0)
      BY <3>1, <3>2
    <3> HIDE DEF Under
    <3>4. OK(0)
      BY <1>1, <1>2, <1>3, <3>2, <3>3
    <3> HIDE DEF OK
    <3> QED BY <2>3, <3>4
  <2>5. k \in 1 .. LongBits /\ k - 1 \in 0 .. LongBits /\ ~(k <= k - 1) /\ k \in Nat
    BY <1>0, <2>3, <2>4
  <2>6. OK(k - 1)
    <3> HIDE DEF OK
    <3> QED BY <2>2, <2>5
  <2> HIDE DEF B
  <2>7. PICK d \in Nat, c \in Nat, r \in Nat, q \in Nat :
          /\ Under(k - 1, d, c, r, q)
          /\ IF k - 1 <= t THEN c = Pow2[t - (k - 1)] /\ d = base * c /\ r < 2 * d
                           ELSE c = 0 /\ r < base
    BY <2>6
  <2>8. u[k] = Subtract([rem |-> r, quotient |-> q, denom |-> d, current |-> c])
    BY <1>4, <2>5, <2>7
  <2>9. CASE k - 1 > t
    <3>1. ~(k <= t) /\ ~(k - 1 <= t) /\ c = 0 /\ r < base
      BY <1>3, <2>5, <2>7, <2>9
    <3>2. u[k] = [rem |-> r, quotient |-> q, denom |-> d, current |-> c]
      BY <2>8, <3>1 DEF Subtract
    <3>3. Under(k, d, c, r, q)
      BY <2>7, <3>2
    <3> HIDE DEF Under
    <3>4. OK(k)
      BY <3>1, <3>3
    <3> HIDE DEF OK
    <3> QED BY <2>3, <3>4
  <2>10. CASE k - 1 <= t
    <3> DEFINE r2 == IF r >= d THEN r - d ELSE r
               q2 == IF r >= d THEN q + c ELSE q
    <3>1. c = Pow2[t - (k - 1)] /\ d = base * c /\ r < 2 * d /\ c # 0
      <4>1. t - (k - 1) \in Nat
        BY <1>3, <2>5, <2>10
      <4> QED BY <1>2, <2>7, <2>10, <4>1
    <3>2. u[k] = [rem |-> r2, quotient |-> q2, denom |-> d \div 2, current |-> c \div 2]
      BY <2>8, <3>1 DEF Subtract
    <3>3. r2 \in Nat /\ q2 \in Nat /\ r2 < d /\ d \div 2 \in Nat /\ c \div 2 \in Nat
      BY <3>1
    <3>4. n = q2 * base + r2
      <4>1. n = q * base + r
        BY <2>7
      <4>2. (q + c) * base = q * base + base * c
        OBVIOUS
      <4>3. q * base \in Int /\ base * c \in Int
        OBVIOUS
      <4> QED BY <3>1, <4>1, <4>2, <4>3
    <3>5. Under(k, d \div 2, c \div 2, r2, q2)
      BY <3>2, <3>4
    <3>6. CASE k <= t
      <4>1. t - (k - 1) \in Nat \ {0} /\ t - k \in Nat /\ t - (k - 1) - 1 = t - k
        BY <1>3, <2>5, <3>6
      <4>2. PICK e \in Nat : e = Pow2[t - k] /\ c = 2 * e
        BY <1>2, <3>1, <4>1, Pow2Is
      <4>3. PICK b \in Nat : b = base * e /\ d = 2 * b
        <5>1. base * (2 * e) = 2 * (base * e) /\ base * e \in Nat
          OBVIOUS
        <5> QED BY <3>1, <4>2, <5>1
      <4>4. c \div 2 = e /\ d \div 2 = b
        BY <4>2, <4>3
      <4>5. r2 < 2 * b
        BY <3>3, <4>3
      <4> HIDE DEF Under, r2, q2
      <4>6. OK(k)
        BY <3>3, <3>5, <3>6, <4>2, <4>3, <4>4, <4>5
      <4> HIDE DEF OK
      <4> QED BY <2>3, <4>6
    <3>7. CASE ~(k <= t)
      <4>1. t - (k - 1) = 0
        BY <1>3, <2>5, <2>10, <3>7
      <4>2. c = 1 /\ d = base
        BY <3>1, <4>1, Pow2Is
      <4>3. c \div 2 = 0 /\ r2 < base
        BY <3>3, <4>2
      <4> HIDE DEF Under, r2, q2
      <4>4. OK(k)
        BY <3>3, <3>5, <3>7, <4>3
      <4> HIDE DEF OK
      <4> QED BY <2>3, <4>4
    <3> QED BY <3>6, <3>7
  <2> QED BY <1>3, <2>5, <2>9, <2>10
<1>6. OK(LongBits)
  <2>1. LongBits \in 0 .. LongBits
    BY <1>0
  <2> HIDE DEF OK
  <2> QED BY <1>5, <2>1
<1>7. ~(LongBits <= t)
  BY <1>0
<1>8. PICK d \in Nat, c \in Nat, r \in Nat, q \in Nat : Under(LongBits, d, c, r, q) /\ r < base
  BY <1>6, <1>7
<1>9. n \in Nat /\ base \in Nat \ {0} /\ r \in 0 .. base - 1 /\ n = q * base + r
  BY <1>0, <1>8
<1>10. n \div base = q /\ n % base = r
  BY <1>9, DivUnique
<1>11. u64_divmod(n, base).quotient = q /\ u64_divmod(n, base).rem = r
  BY <1>4, <1>8
<1> QED BY <1>10, <1>11

-----------------------------------------------------------------------------
(* Numbers.                                                                *)

LEMMA DigitCharsAre == \A d \in 0 .. 15 : DigitChars[d + 1] \in Chars
<1> SUFFICES ASSUME NEW d \in 0 .. 15 PROVE DigitChars[d + 1] \in Chars
  OBVIOUS
<1>1. \A x \in {"0", "1", "2", "3", "4", "5", "6", "7", "8", "9",
                "A", "B", "C", "D", "E", "F"} : x \in Chars
  BY KprintfAssumption
<1>2. \/ d = 0 \/ d = 1 \/ d = 2 \/ d = 3 \/ d = 4 \/ d = 5 \/ d = 6 \/ d = 7
      \/ d = 8 \/ d = 9 \/ d = 10 \/ d = 11 \/ d = 12 \/ d = 13 \/ d = 14 \/ d = 15
  OBVIOUS
<1>3. DigitChars[d + 1] \in {"0", "1", "2", "3", "4", "5", "6", "7", "8", "9",
                             "A", "B", "C", "D", "E", "F"}
  BY <1>2 DEF DigitChars
<1> QED BY <1>1, <1>3

LEMMA QuotientIs ==
    ASSUME NEW n \in Nat, NEW base \in 2 .. 16
    PROVE  /\ n \div base \in 0 .. n /\ n % base \in 0 .. base - 1
           /\ n # 0 => n \div base < n
           /\ n < base => n \div base = 0 /\ n % base = n
           /\ n >= base => n \div base > 0
<1>1. PICK q \in Nat : q = n \div base /\ q * base <= n /\ n < q * base + base
  BY DivIs
<1>2. q * base >= 2 * q
  OBVIOUS
<1>3. n % base \in 0 .. base - 1
  OBVIOUS
<1>4. n < base => n \div base = 0 /\ n % base = n
  <2>1. n < base => n \in 0 .. base - 1 /\ n = 0 * base + n /\ base \in Nat \ {0}
    OBVIOUS
  <2> QED BY <2>1, DivUnique
<1>5. q = 0 => q * base = 0
  OBVIOUS
<1> QED BY <1>1, <1>2, <1>3, <1>4, <1>5

LEMMA NumeralIs ==
    ASSUME NEW base \in 2 .. 16
    PROVE  \E h : /\ h \in [Nat -> Seq(Chars)]
                  /\ \A n \in Nat : h[n] = IF n < base THEN <<DigitChars[n + 1]>>
                                     ELSE Append(h[n \div base], DigitChars[(n % base) + 1])
                  /\ \A n \in Nat : Numeral(n, base) = h[n]
<1> DEFINE S == Seq(Chars)
           body(h, n) == IF n < base THEN <<DigitChars[n + 1]>>
                         ELSE Append(h[n \div base], DigitChars[(n % base) + 1])
           step(n, x) == IF n < base THEN <<DigitChars[n + 1]>>
                         ELSE Append(x, DigitChars[(n % base) + 1])
           g == [e \in Nat \X S |-> step(e[1], e[2])]
           r == [n \in Nat |-> n \div base]
           u == CHOOSE h : h = [n \in Nat |-> body(h, n)]
<1>1. ASSUME NEW n \in Nat, NEW x \in S PROVE step(n, x) \in S
  <2>1. n % base \in 0 .. 15 /\ (n < base => n \in 0 .. 15)
    BY QuotientIs
  <2>2. DigitChars[(n % base) + 1] \in Chars /\ (n < base => DigitChars[n + 1] \in Chars)
    BY <2>1, DigitCharsAre
  <2>3. CASE n < base
    <3>1. PICK c \in Chars : c = DigitChars[n + 1]
      BY <2>2, <2>3
    <3>2. <<c>> \in Seq(Chars)
      OBVIOUS
    <3> QED BY <2>3, <3>1, <3>2
  <2>4. CASE ~(n < base)
    <3>1. PICK c \in Chars : c = DigitChars[(n % base) + 1]
      BY <2>2
    <3>2. Append(x, c) \in Seq(Chars)
      OBVIOUS
    <3> QED BY <2>4, <3>1, <3>2
  <2> QED BY <2>3, <2>4
<1>2. step(0, <<>>) \in S
  <2>1. <<>> \in S
    OBVIOUS
  <2> HIDE DEF step
  <2> QED BY <1>1, <2>1
<1> DEFINE a == step(0, <<>>)
<1>3. IsStep(S, a, g, r)
  <2>1. g \in [Nat \X S -> S]
    <3> HIDE DEF step, S
    <3>1. \A e \in Nat \X S : e[1] \in Nat /\ e[2] \in S
      OBVIOUS
    <3> QED BY <1>1, <3>1
  <2>2. r \in [Nat -> Nat] /\ \A n \in Nat \ {0} : r[n] < n
    BY QuotientIs
  <2> HIDE DEF a, g, r, S
  <2> QED BY <1>2, <2>1, <2>2 DEF IsStep, a
<1>4. PICK f : Recurs(S, a, g, r, f)
  <2> HIDE DEF S, a, g, r
  <2> QED BY <1>3, Recursion, Zenon
<1>5. f \in [Nat -> S] /\ f[0] = a /\ \A n \in Nat \ {0} : f[n] = g[<<n, f[r[n]]>>]
  <2> HIDE DEF S, a, g, r
  <2> QED BY <1>4 DEF Recurs
<1>6. ASSUME NEW n \in Nat PROVE f[n] = body(f, n)
  <2>1. CASE n = 0
    <3>1. 0 < base
      OBVIOUS
    <3> QED BY <1>5, <2>1, <3>1
  <2>2. CASE n # 0
    <3>1. r[n] = n \div base /\ n \div base \in Nat
      BY QuotientIs
    <3>2. f[n \div base] \in S
      BY <1>5, <3>1
    <3>3. f[n] = g[<<n, f[n \div base]>>]
      BY <1>5, <2>2, <3>1
    <3>4. <<n, f[n \div base]>> \in Nat \X S
      BY <3>2
    <3>5. g[<<n, f[n \div base]>>] = step(n, f[n \div base])
      <4> HIDE DEF step, S
      <4> QED BY <3>4
    <3> QED BY <3>3, <3>5
  <2> QED BY <2>1, <2>2
<1>7. f = [n \in Nat |-> body(f, n)]
  <2>1. f = [n \in Nat |-> f[n]]
    BY <1>5
  <2> HIDE DEF body
  <2> QED BY <1>6, <2>1, Zenon
<1>8. u = [n \in Nat |-> body(u, n)]
  <2> HIDE DEF body
  <2> QED BY <1>7, Zenon
<1>9. \A n \in Nat : Numeral(n, base) = u[n]
  BY DEF Numeral
<1> HIDE DEF u
<1>10. \A n \in Nat : u[n] = body(u, n)
  BY <1>8, Zenon
<1>11. \A n \in Nat : u[n] = f[n]
  <2> DEFINE B == {n \in Nat : u[n] # f[n]}
  <2>1. SUFFICES ASSUME B # {} PROVE FALSE
    OBVIOUS
  <2>2. PICK n \in B : \A m \in B : n <= m
    <3>1. B \subseteq Nat
      OBVIOUS
    <3> HIDE DEF B
    <3> QED BY <2>1, <3>1, LeastNatural
  <2>3. n \in Nat /\ u[n] # f[n]
    OBVIOUS
  <2>4. n \div base \in Nat /\ (n # 0 => ~(n <= n \div base))
    BY <2>3, QuotientIs
  <2>5. n # 0 => u[n \div base] = f[n \div base]
    BY <2>2, <2>4
  <2>6. n = 0 => n < base
    OBVIOUS
  <2>7. body(u, n) = body(f, n)
    BY <2>5, <2>6
  <2> HIDE DEF body
  <2> QED BY <1>6, <1>10, <2>3, <2>7
<1>12. u = f
  <2>1. u = [n \in Nat |-> u[n]] /\ f = [n \in Nat |-> f[n]]
    <3>1. f = [n \in Nat |-> f[n]]
      BY <1>5
    <3>2. DOMAIN u = Nat /\ u = [n \in Nat |-> body(u, n)]
      BY <1>8
    <3>3. u = [n \in Nat |-> u[n]]
      <4> HIDE DEF body
      <4> QED BY <1>10, <3>2, Zenon
    <3> QED BY <3>1, <3>3
  <2> QED BY <1>11, <2>1, Zenon
<1> QED BY <1>5, <1>9, <1>10, <1>12

LEMMA DigitsRecurs ==
    ASSUME NEW base \in 2 .. 16
    PROVE  \E h : /\ h[0] = <<>>
                  /\ \A n \in 1 .. LongWord - 1 :
                       h[n] = Append(h[n \div base], DigitChars[(n % base) + 1])
                  /\ \A n \in 0 .. LongWord - 1 : Digits(n, base) = h[n]
<1> DEFINE S == Seq(Chars)
           D == 0 .. LongWord - 1
           body(h, n) == IF n = 0 THEN <<>>
                         ELSE Append(h[u64_divmod(n, base).quotient],
                                     DigitChars[u64_divmod(n, base).rem + 1])
           g == [e \in Nat \X S |-> Append(e[2], DigitChars[(e[1] % base) + 1])]
           r == [n \in Nat |-> n \div base]
           u == CHOOSE h : h = [n \in D |-> body(h, n)]
<1>0. LongWord \in Nat
  BY LongWordIs
<1>1. ASSUME NEW e \in Nat \X S PROVE Append(e[2], DigitChars[(e[1] % base) + 1]) \in S
  <2>1. e[1] \in Nat /\ e[2] \in S
    OBVIOUS
  <2>2. e[1] % base \in 0 .. 15
    <3>1. \A n \in Nat : n % base \in 0 .. 15
      BY QuotientIs
    <3> QED BY <2>1, <3>1
  <2>3. PICK c \in Chars : c = DigitChars[(e[1] % base) + 1]
    BY <2>2, DigitCharsAre
  <2> QED BY <2>1, <2>3
<1>2. IsStep(S, <<>>, g, r)
  <2>1. g \in [Nat \X S -> S]
    <3> HIDE DEF S
    <3> QED BY <1>1
  <2>2. r \in [Nat -> Nat] /\ \A n \in Nat \ {0} : r[n] < n
    BY QuotientIs
  <2>3. <<>> \in S
    OBVIOUS
  <2> HIDE DEF g, r, S
  <2> QED BY <2>1, <2>2, <2>3 DEF IsStep
<1>3. PICK f : Recurs(S, <<>>, g, r, f)
  <2> HIDE DEF S, g, r
  <2> QED BY <1>2, Recursion, Zenon
<1>4. f \in [Nat -> S] /\ f[0] = <<>> /\ \A n \in Nat \ {0} : f[n] = g[<<n, f[r[n]]>>]
  <2> HIDE DEF S, g, r
  <2> QED BY <1>3 DEF Recurs
<1>5. ASSUME NEW n \in Nat \ {0}
      PROVE  f[n] = Append(f[n \div base], DigitChars[(n % base) + 1])
  <2>1. r[n] = n \div base /\ n \div base \in Nat
    BY QuotientIs
  <2>2. f[n \div base] \in S
    BY <1>4, <2>1
  <2>3. f[n] = g[<<n, f[n \div base]>>]
    BY <1>4, <2>1
  <2>4. <<n, f[n \div base]>> \in Nat \X S
    BY <2>2
  <2>5. g[<<n, f[n \div base]>>] = Append(f[n \div base], DigitChars[(n % base) + 1])
    <3> HIDE DEF S
    <3> QED BY <2>4
  <2> QED BY <2>3, <2>5
<1> DEFINE d == [n \in D |-> f[n]]
<1>6. ASSUME NEW n \in D PROVE d[n] = body(d, n)
  <2>1. CASE n = 0
    BY <1>4, <2>1
  <2>2. CASE n # 0
    <3>1. n \div base \in D /\ n \in Nat \ {0}
      BY <1>0, <2>2, QuotientIs
    <3>2. u64_divmod(n, base).quotient = n \div base /\ u64_divmod(n, base).rem = n % base
      BY DivmodIs
    <3>3. d[n] = Append(d[n \div base], DigitChars[(n % base) + 1])
      BY <1>5, <3>1
    <3> HIDE DEF d
    <3> QED BY <2>2, <3>2, <3>3
  <2> QED BY <2>1, <2>2
<1>7. d = [n \in D |-> body(d, n)]
  <2>1. d = [n \in D |-> d[n]]
    OBVIOUS
  <2> HIDE DEF d, body, D
  <2> QED BY <1>6, <2>1, Zenon
<1>8. u = [n \in D |-> body(u, n)]
  <2> HIDE DEF d, body, D
  <2> QED BY <1>7, Zenon
<1>9. \A n \in D : Digits(n, base) = u[n]
  BY DEF Digits
<1> HIDE DEF u
<1>10. \A n \in D : u[n] = body(u, n)
  BY <1>8, Zenon
<1>11. u[0] = <<>>
  <2>1. 0 \in D
    BY LongWordIs
  <2> HIDE DEF D
  <2> QED BY <1>10, <2>1
<1>12. ASSUME NEW n \in 1 .. LongWord - 1
       PROVE  u[n] = Append(u[n \div base], DigitChars[(n % base) + 1])
  <2>1. n \in D /\ n # 0
    BY <1>0
  <2>2. u64_divmod(n, base).quotient = n \div base /\ u64_divmod(n, base).rem = n % base
    BY <2>1, DivmodIs
  <2> HIDE DEF D
  <2> QED BY <1>10, <2>1, <2>2
<1> QED BY <1>9, <1>11, <1>12

(* The digits that print_uint_base collects are the number's numeral.      *)
LEMMA DigitsAre ==
    ASSUME NEW n \in 1 .. LongWord - 1, NEW base \in 2 .. 16
    PROVE  Digits(n, base) = Numeral(n, base)
<1>0. LongWord \in Nat
  BY LongWordIs
<1>1. PICK h : /\ h[0] = <<>>
               /\ \A m \in 1 .. LongWord - 1 :
                    h[m] = Append(h[m \div base], DigitChars[(m % base) + 1])
               /\ \A m \in 0 .. LongWord - 1 : Digits(m, base) = h[m]
  BY DigitsRecurs
<1>2. PICK u : /\ u \in [Nat -> Seq(Chars)]
               /\ \A m \in Nat : u[m] = IF m < base THEN <<DigitChars[m + 1]>>
                                  ELSE Append(u[m \div base], DigitChars[(m % base) + 1])
               /\ \A m \in Nat : Numeral(m, base) = u[m]
  BY NumeralIs
<1> DEFINE B == {m \in Nat : m > 0 /\ m < LongWord /\ h[m] # u[m]}
<1>3. B = {}
  <2>1. SUFFICES ASSUME B # {} PROVE FALSE
    OBVIOUS
  <2>2. PICK m \in B : \A k \in B : m <= k
    <3>1. B \subseteq Nat
      OBVIOUS
    <3> HIDE DEF B
    <3> QED BY <2>1, <3>1, LeastNatural
  <2>3. m \in Nat /\ m > 0 /\ m < LongWord /\ h[m] # u[m] /\ m \in 1 .. LongWord - 1
    BY <1>0
  <2>4. h[m] = Append(h[m \div base], DigitChars[(m % base) + 1])
    BY <1>1, <2>3
  <2>5. m \div base \in 0 .. m /\ m \div base < m
        /\ (m < base => m \div base = 0 /\ m % base = m)
        /\ (m >= base => m \div base > 0)
    BY <2>3, QuotientIs
  <2>6. CASE m < base
    <3>1. h[m] = Append(<<>>, DigitChars[m + 1])
      BY <1>1, <2>4, <2>5, <2>6
    <3>2. u[m] = <<DigitChars[m + 1]>>
      BY <1>2, <2>3, <2>6
    <3>3. m \in 0 .. 15
      BY <2>3, <2>6
    <3>4. PICK c \in Chars : c = DigitChars[m + 1]
      BY <3>3, DigitCharsAre
    <3>5. Append(<<>>, c) = <<c>>
      OBVIOUS
    <3> QED BY <2>3, <3>1, <3>2, <3>4, <3>5
  <2>7. CASE ~(m < base)
    <3>1. m \div base \in Nat /\ m \div base > 0 /\ m \div base < LongWord /\ ~(m <= m \div base)
      BY <1>0, <2>3, <2>5, <2>7
    <3>2. h[m \div base] = u[m \div base]
      BY <2>2, <3>1
    <3>3. u[m] = Append(u[m \div base], DigitChars[(m % base) + 1])
      BY <1>2, <2>3, <2>7
    <3> QED BY <2>3, <2>4, <3>2, <3>3
  <2> QED BY <2>6, <2>7
<1>4. n \in Nat /\ n > 0 /\ n < LongWord /\ n \in 0 .. LongWord - 1
  BY <1>0
<1>5. h[n] = u[n]
  BY <1>3, <1>4
<1> QED BY <1>1, <1>2, <1>4, <1>5

LEMMA NumeralFacts ==
    ASSUME NEW n \in Nat, NEW base \in 2 .. 16
    PROVE  Numeral(n, base) \in Seq(Chars) /\ (n = 0 => Numeral(n, base) = <<"0">>)
<1>1. PICK u : /\ u \in [Nat -> Seq(Chars)]
               /\ \A m \in Nat : u[m] = IF m < base THEN <<DigitChars[m + 1]>>
                                  ELSE Append(u[m \div base], DigitChars[(m % base) + 1])
               /\ \A m \in Nat : Numeral(m, base) = u[m]
  BY NumeralIs
<1>2. u[0] = <<DigitChars[1]>>
  <2>1. 0 \in Nat /\ 0 < base /\ 0 + 1 = 1
    OBVIOUS
  <2> QED BY <1>1, <2>1
<1>3. DigitChars[1] = "0"
  BY DEF DigitChars
<1> QED BY <1>1, <1>2, <1>3

-----------------------------------------------------------------------------
(* The screen.                                                             *)
Screens == [cells : [Cells -> Chars], x : Int, y : Int, serial : Seq(Chars), top : Int]

LEMMA Geometry ==
    /\ COLUMNS \in Nat /\ COLUMNS > 0 /\ ROWS \in Nat /\ ROWS > 0
    /\ TabSize \in Nat /\ TabSize > 0
<1>1. COLUMNS \in Nat \ {0} /\ ROWS \in Nat \ {0} /\ TabSize \in Nat \ {0}
  BY MonitorAssumption
<1> QED BY <1>1

LEMMA Literals == " " \in Chars /\ "nl" \in Chars /\ "tab" \in Chars /\ "bs" \in Chars
BY MonitorAssumption

LEMMA ScreenFields ==
    ASSUME NEW s \in Screens
    PROVE  /\ s.cells \in [Cells -> Chars] /\ s.x \in Int /\ s.y \in Int
           /\ s.serial \in Seq(Chars) /\ s.top \in Int
           /\ Location(s) \in Int /\ Location(s) = s.y * COLUMNS + s.x
<1>1. /\ s.cells \in [Cells -> Chars] /\ s.x \in Int /\ s.y \in Int
      /\ s.serial \in Seq(Chars) /\ s.top \in Int
  BY DEF Screens
<1>2. s.y * COLUMNS + s.x \in Int
  BY <1>1, Geometry
<1> QED BY <1>1, <1>2 DEF Location

(* The locations of the rows.                                              *)
LEMMA LocationIs ==
    ASSUME NEW y \in 0 .. ROWS - 1, NEW x \in 0 .. COLUMNS - 1
    PROVE  /\ y * COLUMNS + x \in 0 .. ROWS * COLUMNS - 1
           /\ y * COLUMNS + COLUMNS <= ROWS * COLUMNS
<1>1. y * COLUMNS + COLUMNS <= ROWS * COLUMNS /\ y * COLUMNS \in Nat
  <2>1. y \in Int /\ ROWS \in Int /\ COLUMNS \in Nat /\ y < ROWS /\ y \in Nat
    BY Geometry
  <2>2. y * COLUMNS \in Nat
    BY <2>1
  <2> QED BY <2>1, <2>2, MulMono
<1>2. ROWS * COLUMNS \in Int
  BY Geometry
<1> QED BY <1>1, <1>2, Geometry

LEMMA FillIs ==
    ASSUME NEW s \in Screens, NEW n \in Int, NEW c \in Chars, NEW f, f = Fill(s, n, c)
    PROVE  /\ f \in Screens
           /\ f.x = s.x + n /\ f.y = s.y /\ f.serial = s.serial
           /\ f.top = IF Location(s) + n - 1 > s.top THEN Location(s) + n - 1 ELSE s.top
           /\ \A i \in Cells : f.cells[i] = IF i \in Location(s) .. Location(s) + n - 1
                                          THEN c ELSE s.cells[i]
<1> DEFINE last == Location(s) + n - 1
           cells == [i \in Cells |-> IF i \in Location(s) .. last THEN c ELSE s.cells[i]]
           top == IF last > s.top THEN last ELSE s.top
<1>1. s.cells \in [Cells -> Chars] /\ s.x \in Int /\ s.y \in Int /\ s.serial \in Seq(Chars)
      /\ s.top \in Int /\ last \in Int
  BY ScreenFields
<1>2. cells \in [Cells -> Chars]
  BY <1>1
<1>3. top \in Int
  BY <1>1
<1>4. f = [cells |-> cells, x |-> s.x + n, y |-> s.y, serial |-> s.serial, top |-> top]
  BY DEF Fill, Screens
<1> HIDE DEF top
<1>5. f \in Screens
  <2> HIDE DEF cells
  <2> QED BY <1>1, <1>2, <1>3, <1>4 DEF Screens
<1>6. f.x = s.x + n /\ f.y = s.y /\ f.serial = s.serial /\ f.top = top /\ f.cells = cells
  <2> HIDE DEF cells
  <2> QED BY <1>4
<1>7. \A i \in Cells : f.cells[i] = IF i \in Location(s) .. last THEN c ELSE s.cells[i]
  BY <1>6
<1> QED BY <1>5, <1>6, <1>7 DEF top

LEMMA BackIs ==
    ASSUME NEW s \in Screens, NEW f, f = Back(s)
    PROVE  /\ f \in Screens
           /\ f.cells = s.cells /\ f.serial = s.serial /\ f.top = s.top
           /\ f.x = IF s.x > 0 THEN s.x - 1 ELSE IF s.y > 0 THEN COLUMNS - 1 ELSE s.x
           /\ f.y = IF ~(s.x > 0) /\ s.y > 0 THEN s.y - 1 ELSE s.y
<1>1. COLUMNS \in Int /\ s.x \in Int /\ s.y \in Int
  BY ScreenFields, Geometry
<1>2. CASE s.x > 0
  <2>1. f = [cells |-> s.cells, x |-> s.x - 1, y |-> s.y, serial |-> s.serial, top |-> s.top]
    BY <1>2 DEF Back, Screens
  <2> QED BY <1>1, <1>2, <2>1 DEF Screens
<1>3. CASE ~(s.x > 0) /\ s.y > 0
  <2>1. f = [cells |-> s.cells, x |-> COLUMNS - 1, y |-> s.y - 1,
             serial |-> s.serial, top |-> s.top]
    BY <1>3 DEF Back, Screens
  <2> QED BY <1>1, <1>3, <2>1 DEF Screens
<1>4. CASE ~(s.x > 0) /\ ~(s.y > 0)
  BY <1>4 DEF Back
<1> QED BY <1>2, <1>3, <1>4

LEMMA WrapIs ==
    ASSUME NEW s \in Screens, NEW f, f = Wrap(s)
    PROVE  /\ f \in Screens
           /\ f.cells = s.cells /\ f.serial = s.serial /\ f.top = s.top
           /\ f.x = IF s.x >= COLUMNS THEN 0 ELSE s.x
           /\ f.y = IF s.x >= COLUMNS THEN s.y + 1 ELSE s.y
<1>1. COLUMNS \in Int /\ s.x \in Int /\ s.y \in Int
  BY ScreenFields, Geometry
<1>2. CASE s.x >= COLUMNS
  <2>1. f = [cells |-> s.cells, x |-> 0, y |-> s.y + 1, serial |-> s.serial, top |-> s.top]
    BY <1>2 DEF Wrap, Screens
  <2> QED BY <1>1, <1>2, <2>1 DEF Screens
<1>3. CASE ~(s.x >= COLUMNS)
  BY <1>3 DEF Wrap
<1> QED BY <1>2, <1>3

LEMMA ScrollIs ==
    ASSUME NEW s \in Screens, NEW f, f = scroll(s)
    PROVE  /\ f \in Screens
           /\ f.x = s.x /\ f.serial = s.serial /\ f.top = s.top
           /\ f.y = IF s.y >= ROWS THEN ROWS - 1 ELSE s.y
           /\ IF s.y >= ROWS
                THEN \A i \in Cells : i + COLUMNS \in Cells => f.cells[i] = s.cells[i + COLUMNS]
                ELSE f.cells = s.cells
<1> DEFINE cells == [i \in Cells |-> IF i + COLUMNS \in Cells THEN s.cells[i + COLUMNS] ELSE " "]
<1>1. s.cells \in [Cells -> Chars] /\ s.x \in Int /\ s.y \in Int /\ s.serial \in Seq(Chars)
      /\ s.top \in Int /\ ROWS \in Int
  BY ScreenFields, Geometry
<1>2. CASE s.y >= ROWS
  <2>1. cells \in [Cells -> Chars]
    BY <1>1, Literals
  <2>2. f = [cells |-> cells, x |-> s.x, y |-> ROWS - 1, serial |-> s.serial, top |-> s.top]
    BY <1>2 DEF scroll, Screens
  <2>3. f \in Screens
    <3> HIDE DEF cells
    <3> QED BY <1>1, <2>1, <2>2 DEF Screens
  <2>4. f.x = s.x /\ f.serial = s.serial /\ f.top = s.top /\ f.y = ROWS - 1 /\ f.cells = cells
    <3> HIDE DEF cells
    <3> QED BY <2>2
  <2>5. \A i \in Cells : i + COLUMNS \in Cells => f.cells[i] = s.cells[i + COLUMNS]
    BY <2>4
  <2> QED BY <1>2, <2>3, <2>4, <2>5
<1>3. CASE ~(s.y >= ROWS)
  BY <1>3 DEF scroll
<1> QED BY <1>2, <1>3

(* A tab ends at the right edge at the latest.                             *)
LEMMA TabFits ==
    ASSUME NEW x \in 0 .. COLUMNS - 1
    PROVE  /\ TabSize - (x % TabSize) \in 1 .. TabSize
           /\ x + (TabSize - (x % TabSize)) \in 0 .. COLUMNS
<1>1. PICK t \in Nat, n \in Nat : t = TabSize /\ n = COLUMNS /\ t > 0 /\ n > 0 /\ n % t = 0
  BY Geometry, MonitorAssumption
<1>2. PICK q \in Nat : q = x \div t
  BY <1>1
<1>3. PICK p \in Nat : p = n \div t
  BY <1>1
<1>4. PICK m \in 0 .. t - 1 : m = x % t
  BY <1>1
<1>5. PICK a \in Int, b \in Int : a = q * t /\ b = p * t
  OBVIOUS
<1>6. x = a + m
  <2>1. x \in Nat /\ x % t = x - t * (x \div t) /\ t * q = q * t
    BY <1>1, Geometry
  <2> QED BY <1>2, <1>4, <1>5, <2>1
<1>7. n = b
  BY <1>1, <1>3, <1>5
<1>8. q < p
  <2>1. p < q => b + t <= a
    BY <1>5, MulMono
  <2>2. p = q => a = b
    BY <1>5
  <2>3. x < n
    BY <1>1
  <2> QED BY <1>1, <1>6, <1>7, <2>1, <2>2, <2>3
<1>9. a + t <= b
  BY <1>5, <1>8, MulMono
<1>10. x + (t - m) \in 0 .. n /\ t - m \in 1 .. t
  BY <1>1, <1>6, <1>7, <1>9
<1> QED BY <1>1, <1>4, <1>10

(* The cases of monitor_put.                                               *)
LEMMA PutCharIs ==
    ASSUME NEW s \in Screens, NEW c \in Chars, NEW f, f = PutChar(s, c)
    PROVE  /\ f \in Screens /\ f.serial = Append(s.serial, c)
           /\ \E g \in Screens : /\ g = Shown(s, c)
                                 /\ f.cells = g.cells /\ f.x = g.x /\ f.y = g.y /\ f.top = g.top
<1>1. s.x \in Int /\ s.y \in Int /\ s.serial \in Seq(Chars)
  BY ScreenFields
<1>2. PICK g : g = Shown(s, c)
  OBVIOUS
<1>3. g \in Screens /\ g.serial = s.serial
  <2>1. CASE c = "nl"
    <3>1. g = [cells |-> s.cells, x |-> 0, y |-> s.y + 1, serial |-> s.serial, top |-> s.top]
      BY <1>2, <2>1 DEF Shown, Silent, Screens
    <3> QED BY <1>1, <3>1 DEF Screens
  <2>2. CASE c = "tab"
    <3>1. TabSize - (s.x % TabSize) \in Int
      BY <1>1, Geometry
    <3>2. g = Fill(s, TabSize - (s.x % TabSize), " ")
      BY <1>2, <2>2 DEF Shown, Silent
    <3>3. PICK n \in Int : n = TabSize - (s.x % TabSize)
      BY <3>1
    <3>4. PICK blank \in Chars : blank = " "
      BY Literals
    <3>5. g = Fill(s, n, blank)
      BY <3>2, <3>3, <3>4
    <3> QED BY <3>5, FillIs
  <2>3. CASE c = "bs"
    <3>1. PICK b : b = Back(s)
      OBVIOUS
    <3>2. b \in Screens /\ b.serial = s.serial
      BY <3>1, BackIs
    <3>3. PICK h : h = Fill(b, 1, " ")
      OBVIOUS
    <3>4. h \in Screens /\ h.serial = s.serial
      <4>1. 1 \in Int
        OBVIOUS
      <4>2. PICK blank \in Chars : blank = " "
        BY Literals
      <4>3. PICK n \in Int : n = 1
        BY <4>1
      <4>4. h = Fill(b, n, blank)
        BY <3>3, <4>2, <4>3
      <4>5. h \in Screens /\ h.serial = b.serial
        BY <3>2, <4>4, FillIs
      <4> QED BY <3>2, <4>5
    <3>5. g = [h EXCEPT !.x = @ - 1]
      BY <1>2, <2>3, <3>1, <3>3 DEF Shown, Silent
    <3> QED BY <3>4, <3>5 DEF Screens
  <2>4. CASE c \in Silent
    BY <1>2, <2>4 DEF Shown, Silent
  <2>5. CASE c \notin {"nl", "tab", "bs"} \cup Silent
    <3>1. g = Fill(s, 1, c)
      BY <1>2, <2>5 DEF Shown
    <3> QED BY <3>1, FillIs
  <2> QED BY <2>1, <2>2, <2>3, <2>4, <2>5
<1>4. f = [g EXCEPT !.serial = Append(@, c)]
  BY <1>2 DEF PutChar
<1>5. f = [cells |-> g.cells, x |-> g.x, y |-> g.y, serial |-> Append(g.serial, c), top |-> g.top]
  BY <1>3, <1>4 DEF Screens
<1>6. Append(g.serial, c) \in Seq(Chars)
  BY <1>1, <1>3
<1>7. f \in Screens
  BY <1>3, <1>5, <1>6 DEF Screens
<1> QED BY <1>2, <1>3, <1>5, <1>7

(* Where a character leaves the cursor: on the screen, past the end of its *)
(* row, or at the beginning of the row below the screen.                   *)
OnScreen(s) == s.x \in 0 .. COLUMNS - 1 /\ s.y \in 0 .. ROWS - 1
AtEdge(s) == \/ s.x \in 0 .. COLUMNS /\ s.y \in 0 .. ROWS - 1
             \/ s.x = 0 /\ s.y = ROWS
LastCell == ROWS * COLUMNS - 1

LEMMA EdgeLocation ==
    ASSUME NEW s \in Screens, AtEdge(s)
    PROVE  /\ Location(s) \in 0 .. LastCell + 1
           /\ OnScreen(s) => Location(s) \in 0 .. LastCell
<1>1. Location(s) = s.y * COLUMNS + s.x /\ ROWS * COLUMNS \in Nat
  BY ScreenFields, Geometry
<1>2. CASE s.x \in 0 .. COLUMNS - 1 /\ s.y \in 0 .. ROWS - 1
  BY <1>1, <1>2, LocationIs DEF LastCell
<1>3. CASE s.x = COLUMNS /\ s.y \in 0 .. ROWS - 1
  <2>1. s.y * COLUMNS + 0 \in 0 .. ROWS * COLUMNS - 1 /\ s.y * COLUMNS + COLUMNS <= ROWS * COLUMNS
    <3>1. 0 \in 0 .. COLUMNS - 1
      BY Geometry
    <3> QED BY <1>3, <3>1, LocationIs
  <2>2. s.y * COLUMNS \in Int
    BY <1>3, Geometry
  <2>3. Location(s) \in 0 .. LastCell + 1
    BY <1>1, <1>3, <2>1, <2>2, Geometry DEF LastCell
  <2>4. ~OnScreen(s)
    BY <1>3, Geometry DEF OnScreen
  <2> QED BY <2>3, <2>4
<1>4. CASE s.x = 0 /\ s.y = ROWS
  <2>1. Location(s) = ROWS * COLUMNS
    BY <1>1, <1>4
  <2>2. ~OnScreen(s)
    BY <1>4, Geometry DEF OnScreen
  <2> QED BY <1>1, <2>1, <2>2 DEF LastCell
<1>5. s.x \in 0 .. COLUMNS => s.x \in 0 .. COLUMNS - 1 \/ s.x = COLUMNS
  BY Geometry
<1> QED BY <1>2, <1>3, <1>4, <1>5 DEF AtEdge

(* What the cases do to the cursor and the cells.                          *)
LEMMA ShownIs ==
    ASSUME NEW s \in Screens, NEW c \in Chars, NEW g, g = Shown(s, c)
    PROVE  /\ c = "nl" => g.x = 0 /\ g.y = s.y + 1 /\ g.top = s.top
           /\ c = "tab" => LET n == TabSize - (s.x % TabSize)
                           IN  /\ g.x = s.x + n /\ g.y = s.y
                               /\ g.top = s.top \/ g.top = Location(s) + n - 1
           /\ c = "bs" => LET b == Back(s)
                          IN  /\ b \in Screens /\ g.x = b.x /\ g.y = b.y
                              /\ g.top = s.top \/ g.top = Location(b)
                              /\ \A i \in Cells : i # Location(b) => g.cells[i] = s.cells[i]
           /\ c \in Silent => g = s
           /\ c \notin {"nl", "tab", "bs"} \cup Silent =>
                /\ g.x = s.x + 1 /\ g.y = s.y
                /\ g.top = s.top \/ g.top = Location(s)
                /\ \A i \in Cells : g.cells[i] = IF i = Location(s) THEN c ELSE s.cells[i]
<1>0. s.x \in Int /\ s.y \in Int /\ s.top \in Int /\ Location(s) \in Int
  BY ScreenFields
<1>1. CASE c = "nl"
  <2>1. g = [s EXCEPT !.x = 0, !.y = @ + 1]
    BY <1>1 DEF Shown, Silent
  <2>2. g.x = 0 /\ g.y = s.y + 1 /\ g.top = s.top
    BY <2>1 DEF Screens
  <2> QED BY <1>1, <2>2 DEF Silent
<1>2. CASE c = "tab"
  <2>1. PICK n \in Int : n = TabSize - (s.x % TabSize)
    BY <1>0, Geometry
  <2>2. PICK blank \in Chars : blank = " "
    BY Literals
  <2>3. g = Fill(s, n, blank)
    BY <1>2, <2>1, <2>2 DEF Shown, Silent
  <2>4. /\ g.x = s.x + n /\ g.y = s.y
        /\ g.top = IF Location(s) + n - 1 > s.top THEN Location(s) + n - 1 ELSE s.top
    BY <2>3, FillIs
  <2>5. g.top = s.top \/ g.top = Location(s) + n - 1
    BY <2>4
  <2> QED BY <1>2, <2>1, <2>4, <2>5 DEF Silent
<1>3. CASE c = "bs"
  <2>1. PICK b : b = Back(s)
    OBVIOUS
  <2>2. b \in Screens /\ b.cells = s.cells /\ b.top = s.top
    BY <2>1, BackIs
  <2>3. b.x \in Int /\ b.y \in Int /\ b.top \in Int /\ Location(b) \in Int
    BY <2>2, ScreenFields
  <2>4. PICK blank \in Chars : blank = " "
    BY Literals
  <2>5. PICK n \in Int : n = 1
    OBVIOUS
  <2>6. PICK h : h = Fill(b, n, blank)
    OBVIOUS
  <2>7. /\ h \in Screens
        /\ h.x = b.x + n /\ h.y = b.y /\ h.serial = b.serial
        /\ h.top = IF Location(b) + n - 1 > b.top THEN Location(b) + n - 1 ELSE b.top
        /\ \A i \in Cells : h.cells[i] = IF i \in Location(b) .. Location(b) + n - 1
                                       THEN blank ELSE b.cells[i]
    <3>1. b \in Screens /\ h = Fill(b, n, blank)
      BY <2>2, <2>6
    <3> QED BY <3>1, FillIs, SMTT(30)
  <2>8. g = [h EXCEPT !.x = @ - 1]
    BY <1>3, <2>1, <2>4, <2>5, <2>6 DEF Shown, Silent
  <2>9. g.x = h.x - 1 /\ g.y = h.y /\ g.top = h.top /\ g.cells = h.cells
    BY <2>7, <2>8 DEF Screens
  <2>10. g.x = b.x /\ g.y = b.y
    BY <2>3, <2>5, <2>7, <2>9
  <2>11. g.top = s.top \/ g.top = Location(b)
    BY <2>2, <2>3, <2>5, <2>7, <2>9
  <2>12. ASSUME NEW i \in Cells, i # Location(b) PROVE g.cells[i] = s.cells[i]
    <3>1. i \notin Location(b) .. Location(b) + n - 1
      BY <2>3, <2>5, <2>12 DEF Cells
    <3> QED BY <2>2, <2>7, <2>9, <3>1
  <2> QED BY <1>3, <2>1, <2>2, <2>10, <2>11, <2>12 DEF Silent
<1>4. CASE c \in Silent
  <2>1. g = s
    BY <1>4 DEF Shown, Silent
  <2> QED BY <1>4, <2>1 DEF Silent
<1>5. CASE c \notin {"nl", "tab", "bs"} \cup Silent
  <2>1. PICK n \in Int : n = 1
    OBVIOUS
  <2>2. g = Fill(s, n, c)
    BY <1>5, <2>1 DEF Shown
  <2>3. /\ g.x = s.x + n /\ g.y = s.y
        /\ g.top = IF Location(s) + n - 1 > s.top THEN Location(s) + n - 1 ELSE s.top
    BY <2>2, FillIs
  <2>4. g.x = s.x + 1 /\ (g.top = s.top \/ g.top = Location(s))
    BY <1>0, <2>1, <2>3
  <2>5. ASSUME NEW i \in Cells PROVE g.cells[i] = IF i = Location(s) THEN c ELSE s.cells[i]
    <3>1. i \in Location(s) .. Location(s) + n - 1 <=> i = Location(s)
      BY <1>0, <2>1 DEF Cells
    <3>2. g.cells[i] = IF i \in Location(s) .. Location(s) + n - 1 THEN c ELSE s.cells[i]
      BY <2>2, FillIs
    <3> QED BY <3>1, <3>2
  <2> QED BY <1>5, <2>3, <2>4, <2>5
<1> QED BY <1>1, <1>2, <1>3, <1>4, <1>5

LEMMA BackStays ==
    ASSUME NEW s \in Screens, AtEdge(s), NEW b, b = Back(s)
    PROVE  b \in Screens /\ OnScreen(b)
<1>1. s.x \in Int /\ s.y \in Int
  BY ScreenFields
<1>2. b \in Screens
  BY BackIs
<1>3. /\ b.x = IF s.x > 0 THEN s.x - 1 ELSE IF s.y > 0 THEN COLUMNS - 1 ELSE s.x
      /\ b.y = IF ~(s.x > 0) /\ s.y > 0 THEN s.y - 1 ELSE s.y
  BY BackIs
<1> QED BY <1>1, <1>2, <1>3, Geometry DEF AtEdge, OnScreen

(* Up to its tests of the cursor monitor_put stays within a column or a    *)
(* row of the screen.                                                      *)
LEMMA PutMoves ==
    ASSUME NEW s \in Screens, AtEdge(s), NEW c \in Chars, c = "tab" => OnScreen(s),
           NEW f, f = PutChar(s, c)
    PROVE  /\ f \in Screens /\ f.serial = Append(s.serial, c)
           /\ f.x \in Nat /\ f.y \in Nat
           /\ f.top = s.top \/ f.top <= LastCell + 1
           /\ OnScreen(s) => AtEdge(f) /\ (f.top = s.top \/ f.top <= LastCell)
<1>1. f \in Screens /\ f.serial = Append(s.serial, c)
  BY PutCharIs
<1>2. PICK g \in Screens : /\ g = Shown(s, c)
                           /\ f.x = g.x /\ f.y = g.y /\ f.top = g.top
  BY PutCharIs
<1>3. s.x \in Nat /\ s.y \in Nat /\ s.x <= COLUMNS /\ s.y <= ROWS
  BY Geometry DEF AtEdge
<1>4. Location(s) \in Int /\ Location(s) <= LastCell + 1 /\ (OnScreen(s) => Location(s) <= LastCell)
      /\ LastCell \in Int
  <2>1. LastCell \in Int
    BY Geometry DEF LastCell
  <2> QED BY <2>1, EdgeLocation
<1>5. CASE c = "nl"
  <2>1. g.x = 0 /\ g.y = s.y + 1 /\ g.top = s.top
    BY <1>2, <1>5, ShownIs
  <2> QED BY <1>1, <1>2, <1>3, <2>1, Geometry DEF OnScreen, AtEdge
<1>6. CASE c = "tab"
  <2>1. PICK n \in Int : n = TabSize - (s.x % TabSize)
    BY <1>3, Geometry
  <2>2. g.x = s.x + n /\ g.y = s.y /\ (g.top = s.top \/ g.top = Location(s) + n - 1)
    BY <1>2, <1>6, <2>1, ShownIs
  <2>3. OnScreen(s) /\ s.x \in 0 .. COLUMNS - 1 /\ s.y \in 0 .. ROWS - 1
    BY <1>6 DEF OnScreen
  <2>4. n >= 1 /\ s.x + n \in 0 .. COLUMNS
    BY <2>1, <2>3, TabFits
  <2>5. s.y * COLUMNS + COLUMNS <= ROWS * COLUMNS /\ Location(s) = s.y * COLUMNS + s.x
    BY <2>3, LocationIs, ScreenFields
  <2>6. s.y * COLUMNS \in Int /\ ROWS * COLUMNS \in Int
    BY <1>3, Geometry
  <2>7. Location(s) + n - 1 <= LastCell
    BY <1>3, <2>4, <2>5, <2>6, Geometry DEF LastCell
  <2> QED BY <1>1, <1>2, <1>4, <2>2, <2>3, <2>4, <2>7 DEF AtEdge
<1>7. CASE c = "bs"
  <2>1. PICK b : b = Back(s)
    OBVIOUS
  <2>2. b \in Screens /\ OnScreen(b)
    BY <2>1, BackStays
  <2>3. g.x = b.x /\ g.y = b.y /\ (g.top = s.top \/ g.top = Location(b))
    BY <1>2, <1>7, <2>1, ShownIs
  <2>4. AtEdge(b)
    BY <2>2, Geometry DEF AtEdge, OnScreen
  <2>5. Location(b) \in 0 .. LastCell
    BY <2>2, <2>4, EdgeLocation
  <2>6. b.x \in Nat /\ b.y \in Nat
    BY <2>2, Geometry DEF OnScreen
  <2>7. AtEdge(f)
    BY <1>2, <2>3, <2>4 DEF AtEdge
  <2> QED BY <1>1, <1>2, <1>4, <2>3, <2>5, <2>6, <2>7
<1>8. CASE c \in Silent
  <2>1. g = s
    BY <1>2, <1>8, ShownIs
  <2>2. AtEdge(f)
    BY <1>2, <2>1 DEF AtEdge
  <2> QED BY <1>1, <1>2, <1>3, <2>1, <2>2
<1>9. CASE c \notin {"nl", "tab", "bs"} \cup Silent
  <2>1. g.x = s.x + 1 /\ g.y = s.y /\ (g.top = s.top \/ g.top = Location(s))
    BY <1>2, <1>9, ShownIs
  <2>2. OnScreen(s) => AtEdge(f)
    BY <1>2, <2>1, Geometry DEF AtEdge, OnScreen
  <2> QED BY <1>1, <1>2, <1>3, <1>4, <2>1, <2>2
<1> QED BY <1>5, <1>6, <1>7, <1>8, <1>9

LEMMA BringsBack ==
    ASSUME NEW s \in Screens, s.x \in Nat, s.y \in Nat, NEW f, f = scroll(Wrap(s))
    PROVE  f \in Screens /\ OnScreen(f) /\ f.serial = s.serial /\ f.top = s.top
<1>1. PICK g : g = Wrap(s)
  OBVIOUS
<1>2. /\ g \in Screens /\ g.serial = s.serial /\ g.top = s.top
      /\ g.x = IF s.x >= COLUMNS THEN 0 ELSE s.x
      /\ g.y = IF s.x >= COLUMNS THEN s.y + 1 ELSE s.y
  BY <1>1, WrapIs
<1>3. /\ f \in Screens /\ f.serial = g.serial /\ f.top = g.top /\ f.x = g.x
      /\ f.y = IF g.y >= ROWS THEN ROWS - 1 ELSE g.y
  BY <1>1, <1>2, ScrollIs
<1> QED BY <1>2, <1>3, Geometry DEF OnScreen

(* monitor_put leaves the cursor on the screen, wherever it was near it.   *)
LEMMA PutStays ==
    ASSUME NEW s \in Screens, AtEdge(s), NEW c \in Chars, c = "tab" => OnScreen(s),
           NEW f, f = monitor_put(s, c)
    PROVE  /\ f \in Screens /\ f.serial = Append(s.serial, c) /\ OnScreen(f)
           /\ f.top = s.top \/ f.top <= LastCell + 1
           /\ OnScreen(s) => f.top = s.top \/ f.top <= LastCell
<1>1. PICK g : g = PutChar(s, c)
  OBVIOUS
<1>2. /\ g \in Screens /\ g.serial = Append(s.serial, c)
      /\ g.x \in Nat /\ g.y \in Nat
      /\ g.top = s.top \/ g.top <= LastCell + 1
      /\ OnScreen(s) => AtEdge(g) /\ (g.top = s.top \/ g.top <= LastCell)
  BY <1>1, PutMoves
<1>3. f = scroll(Wrap(g))
  BY <1>1 DEF monitor_put
<1>4. f \in Screens /\ OnScreen(f) /\ f.serial = g.serial /\ f.top = g.top
  BY <1>2, <1>3, BringsBack
<1> QED BY <1>2, <1>4

LEMMA PutType ==
    ASSUME NEW s \in Screens, NEW c \in Chars
    PROVE  monitor_put(s, c) \in Screens
<1>1. PICK g, h, f : g = PutChar(s, c) /\ h = Wrap(g) /\ f = scroll(h)
  OBVIOUS
<1>2. g \in Screens
  BY <1>1, PutCharIs
<1>3. h \in Screens
  BY <1>1, <1>2, WrapIs
<1>4. f \in Screens
  BY <1>1, <1>3, ScrollIs
<1> QED BY <1>1, <1>4 DEF monitor_put

(* monitor_write goes through the text.                                    *)
LEMMA WriteRecurs ==
    ASSUME NEW s \in Screens, NEW out \in Seq(Chars)
    PROVE  \E u : /\ u[0] = s
                  /\ \A i \in 1 .. Len(out) : u[i] = monitor_put(u[i - 1], out[i])
                  /\ monitor_write(s, out) = u[Len(out)]
<1> DEFINE D == 0 .. Len(out)
           body(h, i) == IF i = 0 THEN s ELSE monitor_put(h[i - 1], out[i])
           step(i, x) == IF i \in D /\ i # 0 THEN monitor_put(x, out[i]) ELSE x
           g == [e \in Nat \X Screens |-> step(e[1], e[2])]
           u == CHOOSE h : h = [i \in D |-> body(h, i)]
<1>0. Len(out) \in Nat /\ \A i \in D : i # 0 => out[i] \in Chars
  OBVIOUS
<1>1. IsRound(Screens, s, g)
  <2>1. ASSUME NEW e \in Nat \X Screens PROVE step(e[1], e[2]) \in Screens
    <3>1. e[1] \in Nat /\ e[2] \in Screens
      OBVIOUS
    <3> HIDE DEF D
    <3> QED BY <1>0, <3>1, PutType
  <2> HIDE DEF step
  <2> QED BY <2>1 DEF IsRound
<1>2. PICK f : GoesRound(Screens, s, g, f)
  <2> HIDE DEF g
  <2> QED BY <1>1, Rounds, Zenon
<1> DEFINE d == [i \in D |-> f[i]]
<1>3. ASSUME NEW i \in D PROVE d[i] = body(d, i)
  <2>1. CASE i = 0
    <3> HIDE DEF g
    <3> QED BY <1>2, <2>1 DEF GoesRound
  <2>2. CASE i # 0
    <3>1. i - 1 \in Nat /\ i - 1 \in D /\ i \in Nat \ {0}
      BY <1>0, <2>2
    <3>2. f[i - 1] \in Screens /\ f[i] = g[<<i, f[i - 1]>>]
      <4> HIDE DEF g
      <4> QED BY <1>2, <3>1 DEF GoesRound
    <3>3. <<i, f[i - 1]>> \in Nat \X Screens
      BY <3>1, <3>2
    <3>4. f[i] = step(i, f[i - 1])
      <4> HIDE DEF step
      <4> QED BY <3>2, <3>3
    <3>5. f[i] = monitor_put(f[i - 1], out[i])
      <4> HIDE DEF D
      <4> QED BY <2>2, <3>4
    <3> QED BY <2>2, <3>1, <3>5
  <2> QED BY <2>1, <2>2
<1>4. d = [i \in D |-> body(d, i)]
  <2>1. d = [i \in D |-> d[i]]
    OBVIOUS
  <2> HIDE DEF d, body, D
  <2> QED BY <1>3, <2>1, Zenon
<1>5. u = [i \in D |-> body(u, i)]
  <2> HIDE DEF d, body, D
  <2> QED BY <1>4, Zenon
<1>6. monitor_write(s, out) = u[Len(out)]
  BY DEF monitor_write
<1> HIDE DEF u
<1>7. \A i \in D : u[i] = body(u, i)
  BY <1>5, Zenon
<1>8. u[0] = s
  BY <1>0, <1>7
<1>9. ASSUME NEW i \in 1 .. Len(out) PROVE u[i] = monitor_put(u[i - 1], out[i])
  <2>1. i \in D /\ i # 0
    BY <1>0
  <2> HIDE DEF D
  <2> QED BY <1>7, <2>1
<1> QED BY <1>6, <1>8, <1>9

LEMMA WriteStays ==
    ASSUME NEW s \in Screens, AtEdge(s), NEW out \in Seq(Chars),
           OnScreen(s) \/ \A i \in 1 .. Len(out) : out[i] # "tab",
           NEW f, f = monitor_write(s, out)
    PROVE  /\ f \in Screens /\ f.serial = s.serial \o out
           /\ f.top = s.top \/ f.top <= LastCell + 1
           /\ OnScreen(s) => f.top = s.top \/ f.top <= LastCell
           /\ OnScreen(f) \/ (f.x = s.x /\ f.y = s.y)
<1>0. Len(out) \in Nat /\ s.serial \in Seq(Chars) /\ Len(s.serial) \in Nat /\ s.top \in Int
  BY ScreenFields
<1>1. PICK u : /\ u[0] = s
               /\ \A i \in 1 .. Len(out) : u[i] = monitor_put(u[i - 1], out[i])
               /\ f = u[Len(out)]
  BY WriteRecurs
<1> DEFINE OK(i) == /\ u[i] \in Screens /\ Len(u[i].serial) = Len(s.serial) + i
                    /\ \A j \in 1 .. Len(s.serial) : u[i].serial[j] = s.serial[j]
                    /\ \A j \in 1 .. i : u[i].serial[Len(s.serial) + j] = out[j]
                    /\ u[i].top = s.top \/ u[i].top <= LastCell + 1
                    /\ OnScreen(s) => u[i].top = s.top \/ u[i].top <= LastCell
                    /\ OnScreen(u[i]) \/ (i = 0 /\ u[i] = s)
           B == {i \in 0 .. Len(out) : ~OK(i)}
<1>2. B = {}
  <2>1. SUFFICES ASSUME B # {} PROVE FALSE
    OBVIOUS
  <2>2. PICK i \in B : \A m \in B : i <= m
    <3>1. B \subseteq Nat
      OBVIOUS
    <3> HIDE DEF B
    <3> QED BY <2>1, <3>1, LeastNatural
  <2>3. i \in 0 .. Len(out) /\ ~OK(i)
    <3> HIDE DEF OK
    <3> QED OBVIOUS
  <2>4. i # 0
    <3>1. OK(0)
      BY <1>0, <1>1
    <3> HIDE DEF OK
    <3> QED BY <2>3, <3>1
  <2>5. i \in 1 .. Len(out) /\ i - 1 \in 0 .. Len(out) /\ ~(i <= i - 1)
    BY <1>0, <2>3, <2>4
  <2>6. OK(i - 1)
    <3> HIDE DEF OK
    <3> QED BY <2>2, <2>5
  <2> HIDE DEF B
  <2>7. PICK t, v : t = u[i - 1] /\ v = u[i]
    OBVIOUS
  <2>8. t \in Screens /\ v = monitor_put(t, out[i]) /\ out[i] \in Chars
    BY <1>1, <2>5, <2>6, <2>7
  <2>9. AtEdge(t) /\ (out[i] = "tab" => OnScreen(t))
    <3>1. CASE OnScreen(t)
      BY <3>1, Geometry DEF OnScreen, AtEdge
    <3>2. CASE ~OnScreen(t)
      <4>1. t = s
        BY <2>6, <2>7, <3>2
      <4> QED BY <2>5, <3>2, <4>1
    <3> QED BY <3>1, <3>2
  <2>10. /\ v \in Screens /\ v.serial = Append(t.serial, out[i]) /\ OnScreen(v)
         /\ v.top = t.top \/ v.top <= LastCell + 1
         /\ OnScreen(t) => v.top = t.top \/ v.top <= LastCell
    BY <2>8, <2>9, PutStays
  <2>11. t.serial \in Seq(Chars) /\ Len(t.serial) = Len(s.serial) + i - 1
    BY <1>0, <2>5, <2>6, <2>7, <2>8, ScreenFields
  <2>12. /\ Len(v.serial) = Len(s.serial) + i
         /\ v.serial[Len(s.serial) + i] = out[i]
         /\ \A j \in 1 .. Len(s.serial) + i - 1 : v.serial[j] = t.serial[j]
    <3>1. PICK a, c, m : a = t.serial /\ c = out[i] /\ m = Len(s.serial) + i - 1
      OBVIOUS
    <3>2. a \in Seq(Chars) /\ c \in Chars /\ m \in Nat /\ Len(a) = m
      BY <1>0, <2>5, <2>8, <2>11, <3>1
    <3>3. /\ Len(Append(a, c)) = m + 1 /\ Append(a, c)[m + 1] = c
          /\ \A j \in 1 .. m : Append(a, c)[j] = a[j]
      BY <3>2
    <3>4. v.serial = Append(a, c) /\ m + 1 = Len(s.serial) + i
      BY <1>0, <2>5, <2>10, <3>1
    <3> QED BY <3>1, <3>3, <3>4
  <2>13. \A j \in 1 .. Len(s.serial) : v.serial[j] = s.serial[j]
    <3>1. \A j \in 1 .. Len(s.serial) : j \in 1 .. Len(s.serial) + i - 1
      BY <1>0, <2>5
    <3> QED BY <2>6, <2>7, <2>12, <3>1
  <2>14. ASSUME NEW j \in 1 .. i PROVE v.serial[Len(s.serial) + j] = out[j]
    <3>1. CASE j = i
      BY <2>12, <3>1
    <3>2. CASE j # i
      <4>1. j \in 1 .. i - 1 /\ Len(s.serial) + j \in 1 .. Len(s.serial) + i - 1
        BY <1>0, <2>5, <3>2
      <4>2. t.serial[Len(s.serial) + j] = out[j]
        BY <2>6, <2>7, <4>1
      <4> QED BY <2>12, <4>1, <4>2
    <3> QED BY <3>1, <3>2
  <2>15. /\ v.top = s.top \/ v.top <= LastCell + 1
         /\ OnScreen(s) => v.top = s.top \/ v.top <= LastCell
    <3>1. OnScreen(s) => OnScreen(t)
      BY <2>6, <2>7
    <3> QED BY <2>6, <2>7, <2>10, <3>1
  <2>16. OK(i)
    BY <2>7, <2>10, <2>12, <2>13, <2>14, <2>15
  <2> HIDE DEF OK
  <2> QED BY <2>3, <2>16
<1>3. OK(Len(out))
  <2>1. Len(out) \in 0 .. Len(out)
    BY <1>0
  <2> HIDE DEF OK
  <2> QED BY <1>2, <2>1
<1>4. f.serial = s.serial \o out
  <2>1. f.serial \in Seq(Chars)
    BY <1>1, <1>3, ScreenFields
  <2>2. PICK a, b : a = f.serial /\ b = s.serial
    OBVIOUS
  <2>3. /\ a \in Seq(Chars) /\ b \in Seq(Chars) /\ Len(a) = Len(b) + Len(out)
        /\ \A j \in 1 .. Len(b) : a[j] = b[j]
        /\ \A j \in 1 .. Len(out) : a[Len(b) + j] = out[j]
    BY <1>0, <1>1, <1>3, <2>1, <2>2
  <2>4. b \o out \in Seq(Chars) /\ Len(b \o out) = Len(a)
    BY <2>3
  <2>5. ASSUME NEW j \in 1 .. Len(a) PROVE a[j] = (b \o out)[j]
    <3>1. CASE j <= Len(b)
      BY <2>3, <3>1
    <3>2. CASE j > Len(b)
      <4>1. PICK k \in 1 .. Len(out) : j = Len(b) + k
        <5>1. j - Len(b) \in 1 .. Len(out)
          BY <2>3, <3>2
        <5>2. Len(b) \in Nat
          BY <2>3
        <5>3. j = Len(b) + (j - Len(b))
          BY <2>3, <5>2
        <5> QED BY <5>1, <5>3
      <4>2. (b \o out)[j] = out[k]
        BY <2>3, <4>1
      <4> QED BY <2>3, <4>1, <4>2
    <3> QED BY <2>3, <3>1, <3>2
  <2>6. a = b \o out
    BY <2>3, <2>4, <2>5, SeqEqual
  <2> QED BY <2>2, <2>6
<1> QED BY <1>1, <1>3, <1>4

(* A out that is printed on the screen comes out on the serial port.      *)
Prints(s, f, out) ==
    /\ f \in Screens /\ OnScreen(f)
    /\ f.serial = s.serial \o out
    /\ f.top = s.top \/ f.top <= LastCell

LEMMA WritePrints ==
    ASSUME NEW s \in Screens, OnScreen(s), NEW out \in Seq(Chars)
    PROVE  Prints(s, monitor_write(s, out), out)
<1>1. AtEdge(s)
  BY Geometry DEF OnScreen, AtEdge
<1>2. PICK f : f = monitor_write(s, out)
  OBVIOUS
<1>3. /\ f \in Screens /\ f.serial = s.serial \o out
      /\ f.top = s.top \/ f.top <= LastCell
      /\ OnScreen(f) \/ (f.x = s.x /\ f.y = s.y)
  BY <1>1, <1>2, WriteStays
<1>4. OnScreen(f)
  BY <1>3 DEF OnScreen
<1> QED BY <1>2, <1>3, <1>4 DEF Prints

LEMMA PutPrints ==
    ASSUME NEW s \in Screens, OnScreen(s), NEW c \in Chars
    PROVE  Prints(s, monitor_put(s, c), <<c>>)
<1>1. AtEdge(s)
  BY Geometry DEF OnScreen, AtEdge
<1>2. PICK f : f = monitor_put(s, c)
  OBVIOUS
<1>3. /\ f \in Screens /\ f.serial = Append(s.serial, c) /\ OnScreen(f)
      /\ f.top = s.top \/ f.top <= LastCell
  BY <1>1, <1>2, PutStays
<1>4. s.serial \in Seq(Chars)
  BY ScreenFields
<1>5. Append(s.serial, c) = s.serial \o <<c>>
  BY <1>4, AppendIsConcat
<1> QED BY <1>2, <1>3, <1>5 DEF Prints

LEMMA PrintsOn ==
    ASSUME NEW s \in Screens, NEW f, NEW g, NEW a \in Seq(Chars), NEW b \in Seq(Chars),
           Prints(s, f, a), Prints(f, g, b)
    PROVE  Prints(s, g, a \o b)
<1>1. s.serial \in Seq(Chars)
  BY ScreenFields
<1>2. (s.serial \o a) \o b = s.serial \o (a \o b)
  <2>1. PICK t \in Seq(Chars) : t = s.serial
    BY <1>1
  <2>2. (t \o a) \o b = t \o (a \o b)
    BY ConcatAssociative
  <2> QED BY <2>1, <2>2
<1>3. g.serial = s.serial \o (a \o b)
  BY <1>2 DEF Prints
<1> QED BY <1>3 DEF Prints

LEMMA PaddingIs ==
    ASSUME NEW n \in Int, NEW m \in Int, NEW pad \in Chars, n = m \/ (n <= 0 /\ m <= 0)
    PROVE  put_padding(n, pad) \in Seq(Chars) /\ put_padding(n, pad) = put_padding(m, pad)
<1>1. PICK k \in Nat : k = IF n > 0 THEN n ELSE 0
  OBVIOUS
<1>2. k = IF m > 0 THEN m ELSE 0
  BY <1>1
<1>3. [i \in 1 .. k |-> pad] \in Seq(Chars)
  OBVIOUS
<1> QED BY <1>1, <1>2, <1>3 DEF put_padding

LEMMA UintPrints ==
    ASSUME NEW s \in Screens, OnScreen(s), NEW value \in 0 .. LongWord - 1,
           NEW base \in 2 .. 16, NEW width \in Int, NEW pad \in Chars
    PROVE  LET number == Numeral(value, base)
           IN  Prints(s, print_uint_base(s, value, base, width, pad),
                      put_padding(width - Len(number), pad) \o number)
<1>1. PICK number : number = Numeral(value, base)
  OBVIOUS
<1>0. LongWord \in Nat /\ value \in Nat
  BY LongWordIs
<1>2. number \in Seq(Chars) /\ (value = 0 => number = <<"0">>)
  BY <1>0, <1>1, NumeralFacts
<1>3. number = IF value = 0 THEN <<"0">> ELSE Digits(value, base)
  <2>1. CASE value = 0
    BY <1>2, <2>1
  <2>2. CASE value # 0
    <3>1. value \in 1 .. LongWord - 1
      BY <1>0, <2>2
    <3> QED BY <1>1, <2>2, <3>1, DigitsAre
  <2> QED BY <2>1, <2>2
<1>4. PICK out : out = put_padding(width - Len(number), pad) \o number
  OBVIOUS
<1>5. out \in Seq(Chars)
  <2>1. width - Len(number) \in Int
    BY <1>2
  <2>2. put_padding(width - Len(number), pad) \in Seq(Chars)
    BY <2>1, PaddingIs
  <2> QED BY <1>2, <1>4, <2>2
<1>6. print_uint_base(s, value, base, width, pad) = monitor_write(s, out)
  BY <1>3, <1>4 DEF print_uint_base
<1> QED BY <1>1, <1>4, <1>5, <1>6, WritePrints

(* What a message of the kernel or a statistic of the shell prints.        *)
Numbers == [conv : {"u", "llu", "x", "X", "d", "p"}, arg : Int, width : Nat, pad : Chars]

LEMMA NumberPrints ==
    ASSUME NEW s \in Screens, OnScreen(s), NEW d \in Numbers,
           d.arg < LongWord, -d.arg < LongWord, d.arg < 0 => d.conv = "d"
    PROVE  Prints(s, Directive(s, d), Expected(d)) /\ Expected(d) \in Seq(Chars)
<1> DEFINE prefix == IF d.conv = "p" THEN <<"0", "x">> ELSE IF d.arg < 0 THEN <<"-">> ELSE <<>>
           value == IF d.arg < 0 THEN -d.arg ELSE d.arg
           base == IF d.conv \in {"x", "X", "p"} THEN 16 ELSE 10
           pointer == d.conv = "p" /\ d.width = 0
           width == IF pointer THEN 10 ELSE IF d.conv = "p" THEN d.width + 2 ELSE d.width
           pad == IF pointer THEN "0" ELSE d.pad
           number == Numeral(value, base)
           w == IF pointer THEN 8
                ELSE IF d.arg < 0 THEN (IF d.width > 0 THEN d.width - 1 ELSE 0) ELSE d.width
           out == put_padding(w - Len(number), pad) \o number
           first == CASE d.conv = "p" -> monitor_write(s, <<"0", "x">>)
                      [] d.conv = "d" /\ d.arg < 0 -> monitor_put(s, "-")
                      [] OTHER -> s
<1>1. /\ d.conv \in {"u", "llu", "x", "X", "d", "p"} /\ d.arg \in Int
      /\ d.width \in Nat /\ d.pad \in Chars
  BY DEF Numbers
<1>2. value \in 0 .. LongWord - 1 /\ base \in 2 .. 16 /\ w \in Int
  BY <1>1, LongWordIs
<1>3. pad \in Chars /\ {"0", "x", "-"} \subseteq Chars
  BY <1>1, KprintfAssumption
<1>4. prefix \in Seq(Chars)
  BY <1>3
<1>5. number \in Seq(Chars)
  <2>1. value \in Nat
    BY <1>2, LongWordIs
  <2> HIDE DEF value, base
  <2> QED BY <1>2, <2>1, NumeralFacts
<1>6. Prints(s, first, prefix)
  <2>1. CASE d.conv = "p"
    <3>1. <<"0", "x">> \in Seq(Chars)
      BY <1>3
    <3> QED BY <2>1, <3>1, WritePrints
  <2>2. CASE d.conv = "d" /\ d.arg < 0
    BY <1>3, <2>2, PutPrints
  <2>3. CASE d.conv # "p" /\ ~(d.conv = "d" /\ d.arg < 0)
    <3>1. first = s /\ prefix = <<>>
      BY <2>3
    <3>2. s.serial \o <<>> = s.serial
      BY ScreenFields, ConcatEmptySeq
    <3>3. Prints(s, s, <<>>)
      BY <3>2 DEF Prints
    <3> QED BY <3>1, <3>3
  <2> QED BY <2>1, <2>2, <2>3
<1>7. Directive(s, d) = print_uint_base(first, value, base, w, pad)
  <2>1. CASE d.conv = "p"
    BY <1>1, <2>1 DEF Directive
  <2>2. CASE d.conv = "d"
    BY <1>1, <2>2 DEF Directive, print_int_decimal
  <2>3. CASE d.conv \in {"u", "llu", "x", "X"}
    BY <1>1, <2>3 DEF Directive
  <2> QED BY <1>1, <2>1, <2>2, <2>3
<1>8. Prints(first, Directive(s, d), out)
  <2>1. first \in Screens /\ OnScreen(first)
    BY <1>6 DEF Prints
  <2> HIDE DEF first, value, base, w, pad
  <2> QED BY <1>2, <1>3, <1>7, <2>1, UintPrints
<1>9. put_padding(w - Len(number), pad) = put_padding(width - Len(prefix) - Len(number), pad)
  <2>1. PICK n \in Nat : n = Len(number)
    BY <1>5
  <2>2. PICK m \in Nat : m = Len(prefix) /\ m = IF d.conv = "p" THEN 2 ELSE IF d.arg < 0 THEN 1 ELSE 0
    OBVIOUS
  <2>3. width \in Int /\ (w = width - m \/ (w <= 0 /\ width - m <= 0))
    BY <1>1, <2>2
  <2>4. w - n \in Int /\ width - m - n \in Int
    BY <1>2, <2>3
  <2>5. w - n = width - m - n \/ (w - n <= 0 /\ width - m - n <= 0)
    BY <1>2, <2>3
  <2> HIDE DEF w, width, pad, number, prefix
  <2> QED BY <1>3, <2>1, <2>2, <2>4, <2>5, PaddingIs
<1>10. put_padding(w - Len(number), pad) \in Seq(Chars)
  <2>1. w - Len(number) \in Int
    BY <1>2, <1>5
  <2> HIDE DEF w, pad, number
  <2> QED BY <1>3, <2>1, PaddingIs
<1>11. Expected(d) = (prefix \o put_padding(w - Len(number), pad)) \o number
  BY <1>9 DEF Expected
<1>12. Expected(d) = prefix \o out
  <2> HIDE DEF prefix, number, pad, w
  <2> QED BY <1>4, <1>5, <1>10, <1>11, ConcatAssociative
<1>13. out \in Seq(Chars)
  <2> HIDE DEF number, pad, w
  <2> QED BY <1>5, <1>10
<1>14. prefix \o out \in Seq(Chars)
  <2> HIDE DEF prefix, out
  <2> QED BY <1>4, <1>13
<1>15. Prints(s, Directive(s, d), prefix \o out)
  <2> HIDE DEF prefix, out, first
  <2> QED BY <1>4, <1>6, <1>8, <1>13, PrintsOn
<1> HIDE DEF prefix, out
<1> QED BY <1>12, <1>14, <1>15

(* A format of one directive, and one of a directive and a character.      *)
LEMMA KvOne == \A s, d : kvprintf(s, <<d>>) = Directive(s, d)
<1> SUFFICES ASSUME NEW s, NEW d PROVE kvprintf(s, <<d>>) = Directive(s, d)
  OBVIOUS
<1> DEFINE D == 0 .. Len(<<d>>)
           body(h, i) == IF i = 0 THEN s ELSE Directive(h[i - 1], <<d>>[i])
           u == CHOOSE h : h = [i \in D |-> body(h, i)]
           w == [i \in D |-> IF i = 0 THEN s ELSE Directive(s, d)]
<1>1. D = {0, 1} /\ <<d>>[1] = d
  OBVIOUS
<1>2. w = [i \in D |-> body(w, i)]
  <2>1. ASSUME NEW i \in D PROVE w[i] = body(w, i)
    BY <1>1
  <2>2. w = [i \in D |-> w[i]]
    OBVIOUS
  <2> HIDE DEF w, body, D
  <2> QED BY <2>1, <2>2, Zenon
<1>3. u = [i \in D |-> body(u, i)]
  <2> HIDE DEF w, body, D
  <2> QED BY <1>2, Zenon
<1>4. kvprintf(s, <<d>>) = u[Len(<<d>>)]
  BY DEF kvprintf
<1> HIDE DEF u
<1>5. \A i \in D : u[i] = body(u, i)
  BY <1>3, Zenon
<1>6. u[0] = s /\ u[1] = Directive(u[0], d)
  BY <1>1, <1>5
<1> QED BY <1>4, <1>6

LEMMA KvTwo == \A s, d, e : kvprintf(s, <<d, e>>) = Directive(Directive(s, d), e)
<1> SUFFICES ASSUME NEW s, NEW d, NEW e
             PROVE  kvprintf(s, <<d, e>>) = Directive(Directive(s, d), e)
  OBVIOUS
<1> DEFINE D == 0 .. Len(<<d, e>>)
           body(h, i) == IF i = 0 THEN s ELSE Directive(h[i - 1], <<d, e>>[i])
           u == CHOOSE h : h = [i \in D |-> body(h, i)]
           w == [i \in D |-> IF i = 0 THEN s ELSE IF i = 1 THEN Directive(s, d)
                             ELSE Directive(Directive(s, d), e)]
<1>1. D = {0, 1, 2} /\ <<d, e>>[1] = d /\ <<d, e>>[2] = e
  OBVIOUS
<1>2. w = [i \in D |-> body(w, i)]
  <2>1. ASSUME NEW i \in D PROVE w[i] = body(w, i)
    BY <1>1
  <2>2. w = [i \in D |-> w[i]]
    OBVIOUS
  <2> HIDE DEF w, body, D
  <2> QED BY <2>1, <2>2, Zenon
<1>3. u = [i \in D |-> body(u, i)]
  <2> HIDE DEF w, body, D
  <2> QED BY <1>2, Zenon
<1>4. kvprintf(s, <<d, e>>) = u[Len(<<d, e>>)]
  BY DEF kvprintf
<1> HIDE DEF u
<1>5. \A i \in D : u[i] = body(u, i)
  BY <1>3, Zenon
<1>6. u[0] = s /\ u[1] = Directive(u[0], d) /\ u[2] = Directive(u[1], e)
  BY <1>1, <1>5
<1> QED BY <1>4, <1>6

-----------------------------------------------------------------------------
(* The cursor and the messages.                                            *)

(* Where each step of monitor_put leaves the cursor, with or without an    *)
(* interrupt that printed in between.                                      *)
CursorInv ==
    /\ scr \in Screens
    /\ pc \notin {"wrap", "scroll"} => OnScreen(scr)
    /\ pc = "wrap" => AtEdge(scr)
    /\ pc = "scroll" => AtEdge(scr) /\ scr.x < COLUMNS
    /\ scr.top <= IF nested THEN LastCell + 1 ELSE LastCell

(* The serial output is kept for one message at a time.                    *)
MessageInv ==
    /\ pc \in {"boot", "wrap", "scroll"} /\ message = {} => scr.serial = <<>>
    /\ message # {} => pc \in {"boot", "prompt"}
    /\ PrintsNumber

(* Only the cursor and the highest store matter of a screen.               *)
LEMMA SerialReset ==
    ASSUME NEW s \in Screens, NEW f, f = [s EXCEPT !.serial = <<>>]
    PROVE  /\ f \in Screens /\ f.serial = <<>> /\ f.cells = s.cells
           /\ f.x = s.x /\ f.y = s.y /\ f.top = s.top
<1>1. <<>> \in Seq(Chars)
  OBVIOUS
<1> QED BY <1>1 DEF Screens

LEMMA ScreenInit ==
    ASSUME Init
    PROVE  CursorInv /\ MessageInv
<1>1. PICK y \in StartRows : scr = Screen([i \in Cells |-> "#"], y)
  BY DEF Init
<1>2. y \in 0 .. ROWS - 1 /\ "#" \in Chars
  BY ShellAssumption
<1>3. /\ scr \in Screens /\ scr.x = 0 /\ scr.y = y /\ scr.top = 0 /\ scr.serial = <<>>
  BY <1>1, <1>2, Geometry DEF Screen, Screens
<1>4. OnScreen(scr)
  BY <1>2, <1>3, Geometry DEF OnScreen
<1>5. LastCell >= 0
  <2>1. Location(scr) \in 0 .. LastCell /\ LastCell \in Int
    BY <1>3, <1>4, EdgeLocation, Geometry DEF AtEdge, OnScreen, LastCell
  <2> QED BY <2>1
<1> QED BY <1>3, <1>4, <1>5 DEF Init, CursorInv, MessageInv, PrintsNumber

(* What the steps of the shell do to the screen.                           *)
LEMMA PrintsKeeps ==
    ASSUME CursorInv, NEW s \in Screens, OnScreen(s), s.top = scr.top, NEW out,
           pc' \notin {"wrap", "scroll"}, UNCHANGED nested,
           Prints(s, scr', out)
    PROVE  CursorInv'
<1>1. scr' \in Screens /\ OnScreen(scr') /\ (scr'.top = scr.top \/ scr'.top <= LastCell)
  BY DEF Prints
<1>2. OnScreen(scr)'
  BY <1>1 DEF OnScreen
<1>3. LastCell \in Int /\ scr.top \in Int /\ scr'.top \in Int
  BY <1>1, Geometry DEF LastCell, CursorInv, Screens
<1>4. (scr.top <= IF nested THEN LastCell + 1 ELSE LastCell)'
  BY <1>1, <1>3 DEF CursorInv, LastCell
<1> QED BY <1>1, <1>2, <1>4 DEF CursorInv, Screens, Cells

(* What a step of the boot has to establish.                               *)
LEMMA BootAgain ==
    ASSUME CursorInv, scr' \in Screens, scr'.serial = <<>>, message' = {},
           pc' = "boot" => OnScreen(scr'),
           pc' = "wrap" => AtEdge(scr'),
           pc' = "scroll" => AtEdge(scr') /\ scr'.x < COLUMNS,
           pc' \in {"boot", "wrap", "scroll"},
           nested => nested',
           scr'.top = scr.top \/ scr'.top <= IF nested' THEN LastCell + 1 ELSE LastCell
    PROVE  CursorInv' /\ MessageInv'
<1>1. LastCell \in Int /\ scr.top \in Int /\ scr'.top \in Int
  BY Geometry DEF LastCell, CursorInv, Screens
<1>2. (scr.top <= IF nested THEN LastCell + 1 ELSE LastCell)'
  BY <1>1 DEF CursorInv, LastCell
<1>3. CursorInv'
  BY <1>2 DEF CursorInv, Screens, Cells, OnScreen, AtEdge
<1>4. MessageInv'
  BY DEF MessageInv, PrintsNumber
<1> QED BY <1>3, <1>4

LEMMA BootPutKeeps ==
    ASSUME CursorInv, NEW c \in BootChars, BootPut(c)
    PROVE  CursorInv' /\ MessageInv'
<1>1. scr \in Screens /\ OnScreen(scr) /\ AtEdge(scr) /\ c \in Chars
  BY ShellAssumption, Geometry DEF BootPut, CursorInv, OnScreen, AtEdge
<1>2. PICK f : f = PutChar(scr, c)
  OBVIOUS
<1>3. f \in Screens /\ AtEdge(f) /\ (f.top = scr.top \/ f.top <= LastCell)
  BY <1>1, <1>2, PutMoves
<1>4. scr' = [f EXCEPT !.serial = <<>>]
  BY <1>2 DEF BootPut
<1>5. /\ scr' \in Screens /\ scr'.serial = <<>>
      /\ scr'.x = f.x /\ scr'.y = f.y /\ scr'.top = f.top
  BY <1>3, <1>4, SerialReset
<1>6. AtEdge(scr')
  BY <1>3, <1>5 DEF AtEdge
<1>7. pc' = "wrap" /\ nested' = nested /\ message' = {}
  BY DEF BootPut, BootStep, BootRest
<1>8. scr'.top = scr.top \/ scr'.top <= IF nested' THEN LastCell + 1 ELSE LastCell
  <2>1. LastCell \in Int /\ f.top \in Int
    BY <1>3, Geometry DEF LastCell, Screens
  <2> QED BY <1>3, <1>5, <2>1
<1> QED BY <1>5, <1>6, <1>7, <1>8, BootAgain

LEMMA BootWrapKeeps ==
    ASSUME CursorInv, MessageInv, BootWrap
    PROVE  CursorInv' /\ MessageInv'
<1>1. scr \in Screens /\ AtEdge(scr) /\ scr.serial = <<>> /\ message = {}
  BY DEF BootWrap, CursorInv, MessageInv
<1>2. /\ scr' \in Screens /\ scr'.serial = scr.serial /\ scr'.top = scr.top
      /\ scr'.x = IF scr.x >= COLUMNS THEN 0 ELSE scr.x
      /\ scr'.y = IF scr.x >= COLUMNS THEN scr.y + 1 ELSE scr.y
  BY <1>1, WrapIs DEF BootWrap
<1>3. AtEdge(scr') /\ scr'.x < COLUMNS
  BY <1>1, <1>2, Geometry DEF AtEdge
<1>4. pc' = "scroll" /\ nested' = nested /\ message' = message
  BY DEF BootWrap, BootRest
<1> QED BY <1>1, <1>2, <1>3, <1>4, BootAgain

LEMMA BootScrollKeeps ==
    ASSUME CursorInv, MessageInv, BootScroll
    PROVE  CursorInv' /\ MessageInv'
<1>1. scr \in Screens /\ AtEdge(scr) /\ scr.x < COLUMNS /\ scr.serial = <<>> /\ message = {}
  BY DEF BootScroll, CursorInv, MessageInv
<1>2. /\ scr' \in Screens /\ scr'.serial = scr.serial /\ scr'.top = scr.top
      /\ scr'.x = scr.x /\ scr'.y = IF scr.y >= ROWS THEN ROWS - 1 ELSE scr.y
  BY <1>1, ScrollIs DEF BootScroll
<1>3. OnScreen(scr')
  BY <1>1, <1>2, Geometry DEF AtEdge, OnScreen
<1>4. pc' = "boot" /\ nested' = nested /\ message' = message
  BY DEF BootScroll, BootRest
<1> QED BY <1>1, <1>2, <1>3, <1>4, BootAgain

LEMMA UnhandledIrqKeeps ==
    ASSUME CursorInv, UnhandledIrq
    PROVE  CursorInv' /\ MessageInv'
<1>1. scr \in Screens /\ AtEdge(scr) /\ (pc = "boot" => OnScreen(scr))
  BY Geometry DEF UnhandledIrq, CursorInv, OnScreen, AtEdge
<1>2. /\ Warning \in Seq(Chars) /\ \A i \in 1 .. Len(Warning) : Warning[i] # "tab"
  BY ShellAssumption
<1>3. PICK f : f = monitor_write(scr, Warning)
  OBVIOUS
<1>4. /\ f \in Screens
      /\ f.top = scr.top \/ f.top <= LastCell + 1
      /\ OnScreen(scr) => f.top = scr.top \/ f.top <= LastCell
      /\ OnScreen(f) \/ (f.x = scr.x /\ f.y = scr.y)
  BY <1>1, <1>2, <1>3, WriteStays
<1>5. scr' = [f EXCEPT !.serial = <<>>]
  BY <1>3 DEF UnhandledIrq
<1>6. /\ scr' \in Screens /\ scr'.serial = <<>>
      /\ scr'.x = f.x /\ scr'.y = f.y /\ scr'.top = f.top
  BY <1>4, <1>5, SerialReset
<1>7. /\ pc' = pc /\ pc \in {"boot", "wrap", "scroll"} /\ message' = {}
      /\ (nested => nested') /\ (pc # "boot" => nested')
  BY DEF UnhandledIrq, BootStep, BootRest
<1>8. /\ pc' = "boot" => OnScreen(scr')
      /\ pc' = "wrap" => AtEdge(scr')
      /\ pc' = "scroll" => AtEdge(scr') /\ scr'.x < COLUMNS
  BY <1>1, <1>4, <1>6, <1>7, Geometry DEF CursorInv, OnScreen, AtEdge
<1>9. scr'.top = scr.top \/ scr'.top <= IF nested' THEN LastCell + 1 ELSE LastCell
  <2>1. LastCell \in Int /\ f.top \in Int
    BY <1>4, Geometry DEF LastCell, Screens
  <2>2. CASE pc = "boot"
    BY <1>1, <1>4, <1>6, <2>1, <2>2
  <2>3. CASE pc # "boot"
    BY <1>4, <1>6, <1>7, <2>1, <2>3
  <2> QED BY <2>2, <2>3
<1> QED BY <1>6, <1>7, <1>8, <1>9, BootAgain

(* The texts of the shell.                                                 *)
LEMMA Texts ==
    /\ <<"nl">> \in Seq(Chars) /\ <<"h", "nl">> \in Seq(Chars) /\ <<"?", "nl">> \in Seq(Chars)
    /\ <<"nl", ">", " ">> \in Seq(Chars) /\ <<"bs", " ", "bs">> \in Seq(Chars)
<1>1. "nl" \in Chars /\ "h" \in Chars /\ "?" \in Chars /\ ">" \in Chars
  BY MonitorAssumption, ShellAssumption
<1>2. " " \in Chars /\ "bs" \in Chars
  BY MonitorAssumption
<1>3. ASSUME NEW a \in Chars, NEW b \in Chars, NEW c \in Chars
      PROVE  <<a>> \in Seq(Chars) /\ <<a, b>> \in Seq(Chars) /\ <<a, b, c>> \in Seq(Chars)
  OBVIOUS
<1>4. <<"nl">> \in Seq(Chars) /\ <<"h", "nl">> \in Seq(Chars)
  BY <1>1, <1>3
<1>5. <<"?", "nl">> \in Seq(Chars) /\ <<"nl", ">", " ">> \in Seq(Chars)
  BY <1>1, <1>2, <1>3
<1>6. <<"bs", " ", "bs">> \in Seq(Chars)
  BY <1>2, <1>3
<1> QED BY <1>4, <1>5, <1>6

(* The messages: Log and the statistics.                                   *)
LEMMA LogKeeps ==
    ASSUME CursorInv, MessageInv, NEW d \in Messages, Log(d)
    PROVE  CursorInv' /\ MessageInv'
<1>1. scr \in Screens /\ OnScreen(scr) /\ scr.serial = <<>>
  BY DEF Log, CursorInv, MessageInv
<1>2. scr' = Directive(scr, d) /\ message' = {d} /\ pc' = pc /\ pc = "boot" /\ nested' = nested
  BY KvOne DEF Log
<1>3. d \in Numbers /\ d.arg < LongWord /\ -d.arg < LongWord /\ (d.arg < 0 => d.conv = "d")
  BY MessagesAssumption DEF Numbers
<1>4. Prints(scr, scr', Expected(d)) /\ Expected(d) \in Seq(Chars)
  BY <1>1, <1>2, <1>3, NumberPrints
<1>5. CursorInv'
  BY <1>1, <1>2, <1>4, PrintsKeeps
<1>6. scr'.serial = <<>> \o Expected(d)
  BY <1>1, <1>4 DEF Prints
<1>7. scr'.serial = Expected(d) \o <<>>
  BY <1>4, <1>6, ConcatEmptySeq
<1>8. PrintsNumber'
  BY <1>2, <1>7 DEF PrintsNumber
<1> QED BY <1>2, <1>5, <1>8 DEF MessageInv

LEMMA ShowStatKeeps ==
    ASSUME CursorInv, NEW n \in Stats, ShowStat(n)
    PROVE  CursorInv' /\ MessageInv'
<1> DEFINE d == Num("u", n, 0, " ")
           clear == [scr EXCEPT !.serial = <<>>]
           first == Directive(clear, d)
<1>1. scr \in Screens /\ OnScreen(scr)
  BY DEF ShowStat, CursorInv
<1>2. /\ clear \in Screens /\ clear.serial = <<>>
      /\ clear.x = scr.x /\ clear.y = scr.y /\ clear.top = scr.top
  BY <1>1, SerialReset
<1>3. OnScreen(clear)
  BY <1>1, <1>2 DEF OnScreen
<1>4. /\ d \in Numbers /\ d.arg < LongWord /\ -d.arg < LongWord /\ ~(d.arg < 0)
  <2>1. n \in 0 .. LongWord - 1 /\ LongWord \in Nat
    BY ShellAssumption, LongWordIs
  <2>2. n \in Int /\ n < LongWord /\ -n < LongWord /\ ~(n < 0)
    BY <2>1
  <2>3. d.arg = n
    BY DEF Num
  <2>4. d \in Numbers
    BY <2>2, Literals DEF Numbers, Num
  <2> QED BY <2>2, <2>3, <2>4
<1>5. Prints(clear, first, Expected(d)) /\ Expected(d) \in Seq(Chars)
  <2> HIDE DEF clear, d
  <2> QED BY <1>2, <1>3, <1>4, NumberPrints
<1>6. first \in Screens /\ OnScreen(first)
  BY <1>5 DEF Prints
<1>7. scr' = monitor_put(first, "nl")
  <2>1. scr' = kvprintf(clear, <<d, Lit("nl")>>)
    BY DEF ShowStat
  <2>2. scr' = Directive(first, Lit("nl"))
    <3>1. PICK e : e = Lit("nl")
      OBVIOUS
    <3>2. kvprintf(clear, <<d, e>>) = Directive(Directive(clear, d), e)
      <4> HIDE DEF clear, d
      <4> QED BY KvTwo
    <3> HIDE DEF clear, d
    <3> QED BY <2>1, <3>1, <3>2
  <2> QED BY <2>2 DEF Directive, Lit
<1>8. Prints(first, scr', <<"nl">>) /\ <<"nl">> \in Seq(Chars)
  <2> HIDE DEF first
  <2> QED BY <1>6, <1>7, Literals, Texts, PutPrints
<1>9. Prints(clear, scr', Expected(d) \o <<"nl">>)
  <2> HIDE DEF clear, first, d
  <2> QED BY <1>2, <1>5, <1>8, PrintsOn
<1>10. pc' = "prompt" /\ nested' = nested /\ message' = {d}
  BY DEF ShowStat
<1>11. CursorInv'
  <2> HIDE DEF clear, d
  <2> QED BY <1>2, <1>3, <1>9, <1>10, PrintsKeeps
<1>12. scr'.serial = Expected(d) \o <<"nl">>
  <2>1. scr'.serial = <<>> \o (Expected(d) \o <<"nl">>)
    BY <1>2, <1>9 DEF Prints
  <2>2. Expected(d) \o <<"nl">> \in Seq(Chars)
    <3> HIDE DEF d
    <3> QED BY <1>5, <1>8
  <2> QED BY <2>1, <2>2, ConcatEmptySeq
<1>13. PrintsNumber'
  BY <1>10, <1>12 DEF PrintsNumber
<1> QED BY <1>10, <1>11, <1>13 DEF MessageInv

(* The steps of the shell that print, and those that do not.               *)
LEMMA ShellKeeps ==
    ASSUME CursorInv, MessageInv,
           \/ shell_run \/ Prompt \/ Enter \/ Erase
           \/ \E c \in Typed : Type(c)
           \/ parse_line \/ Split \/ Parsed \/ Refuse
           \/ \E output \in Outputs : RunCommand(output)
           \/ UNCHANGED vars
    PROVE  CursorInv' /\ MessageInv'
<1>1. {"h", "?", ">"} \subseteq Chars /\ Typed \subseteq Chars /\ Outputs \subseteq Seq(Chars)
  BY ShellAssumption
<1>2. scr \in Screens /\ (pc \notin {"wrap", "scroll"} => OnScreen(scr))
  BY DEF CursorInv
<1>3. ASSUME pc \notin {"boot", "wrap", "scroll"} \/ shell_run, message' = {},
             pc' \notin {"boot", "wrap", "scroll"}, UNCHANGED nested,
             NEW out \in Seq(Chars), scr' = monitor_write(scr, out)
      PROVE  CursorInv' /\ MessageInv'
  <2>1. OnScreen(scr)
    BY <1>2, <1>3 DEF shell_run
  <2>2. Prints(scr, scr', out)
    BY <1>2, <1>3, <2>1, WritePrints
  <2>3. CursorInv'
    BY <1>2, <1>3, <2>1, <2>2, PrintsKeeps
  <2> QED BY <1>3, <2>3 DEF MessageInv, PrintsNumber
<1>4. ASSUME pc = "read", message' = {}, pc' # "boot", pc' # "wrap", pc' # "scroll",
             UNCHANGED nested, NEW c \in Chars, scr' = monitor_put(scr, c)
      PROVE  CursorInv' /\ MessageInv'
  <2>1. OnScreen(scr)
    BY <1>2, <1>4
  <2>2. Prints(scr, scr', <<c>>)
    BY <1>2, <1>4, <2>1, PutPrints
  <2>3. CursorInv'
    BY <1>2, <1>4, <2>1, <2>2, PrintsKeeps
  <2> QED BY <1>4, <2>3 DEF MessageInv, PrintsNumber
<1>5. ASSUME pc \notin {"boot", "wrap", "scroll"}, message = {}, message' = {},
             pc' \notin {"boot", "wrap", "scroll"}, UNCHANGED <<scr, nested>>
      PROVE  CursorInv' /\ MessageInv'
  BY <1>5 DEF CursorInv, MessageInv, PrintsNumber, OnScreen, AtEdge, Screens, Cells, LastCell
<1>6. CASE shell_run
  <2>1. <<"h", "nl">> \in Seq(Chars)
    BY Texts
  <2> QED BY <1>3, <1>6, <2>1 DEF shell_run
<1>7. CASE Prompt
  <2>1. <<"nl", ">", " ">> \in Seq(Chars)
    BY Texts
  <2>2. PICK f : f = monitor_write(scr, <<"nl", ">", " ">>)
    OBVIOUS
  <2>3. OnScreen(scr) /\ pc' = "read" /\ message' = {} /\ nested' = nested
    BY <1>2, <1>7 DEF Prompt
  <2>4. Prints(scr, f, <<"nl", ">", " ">>)
    BY <1>2, <2>1, <2>2, <2>3, WritePrints
  <2>5. f \in Screens /\ OnScreen(f) /\ (f.top = scr.top \/ f.top <= LastCell)
    BY <2>4 DEF Prints
  <2>6. scr' = [f EXCEPT !.serial = <<>>]
    BY <1>7, <2>2 DEF Prompt
  <2>7. /\ scr' \in Screens /\ scr'.serial = <<>>
        /\ scr'.x = f.x /\ scr'.y = f.y /\ scr'.top = f.top
    BY <2>5, <2>6, SerialReset
  <2>8. OnScreen(scr')
    BY <2>5, <2>7 DEF OnScreen
  <2>9. [scr EXCEPT !.serial = <<>>] \in Screens /\ [scr EXCEPT !.serial = <<>>].serial = <<>>
        /\ OnScreen([scr EXCEPT !.serial = <<>>]) /\ [scr EXCEPT !.serial = <<>>].top = scr.top
    BY <1>2, <2>3, SerialReset DEF OnScreen
  <2>10. Prints([scr EXCEPT !.serial = <<>>], scr', <<>>)
    BY <2>5, <2>7, <2>8, <2>9, <1>2, SerialReset, ConcatEmptySeq DEF Prints
  <2>11. CursorInv'
    BY <2>3, <2>9, <2>10, PrintsKeeps
  <2> QED BY <2>3, <2>11 DEF MessageInv, PrintsNumber
<1>8. CASE Enter
  BY <1>4, <1>8, Literals DEF Enter, Keystroke, MessageInv
<1>9. CASE Erase
  <2>1. /\ pc = "read" /\ pc' = pc /\ message = {} /\ message' = message /\ nested' = nested
        /\ scr' = scr \/ scr' = monitor_write(scr, <<"bs", " ", "bs">>)
    BY <1>9 DEF Erase, Keystroke, MessageInv
  <2>2. <<"bs", " ", "bs">> \in Seq(Chars)
    BY Texts
  <2> QED BY <1>3, <1>5, <2>1, <2>2
<1>10. CASE \E c \in Typed : Type(c)
  BY <1>1, <1>4, <1>10 DEF Type, Keystroke, MessageInv
<1>11. CASE parse_line
  BY <1>5, <1>11 DEF parse_line, MessageInv
<1>12. CASE Split
  BY <1>5, <1>12 DEF Split, MessageInv
<1>13. CASE Parsed
  BY <1>5, <1>13 DEF Parsed, MessageInv
<1>14. CASE Refuse
  <2>1. <<"?", "nl">> \in Seq(Chars)
    BY Texts
  <2> QED BY <1>3, <1>14, <2>1 DEF Refuse, MessageInv
<1>15. CASE \E output \in Outputs : RunCommand(output)
  BY <1>1, <1>3, <1>15 DEF RunCommand, MessageInv
<1>16. CASE UNCHANGED vars
  BY <1>16 DEF vars, CursorInv, MessageInv, PrintsNumber, OnScreen, AtEdge, Screens, Cells, LastCell
<1> QED BY <1>6, <1>7, <1>8, <1>9, <1>10, <1>11, <1>12, <1>13, <1>14, <1>15, <1>16

LEMMA ScreenNext ==
    ASSUME CursorInv, MessageInv, [Next]_vars
    PROVE  CursorInv' /\ MessageInv'
BY BootPutKeeps, BootWrapKeeps, BootScrollKeeps, UnhandledIrqKeeps, LogKeeps, ShowStatKeeps,
   ShellKeeps DEF Next

(* monitor_put stores inside the screen and leaves the cursor on it, also  *)
(* when an interrupt printed in the middle of it, for every size of the    *)
(* screen and every text.                                                  *)
THEOREM CursorStaysOnScreen == Spec => []StaysOnScreen
<1>1. Init => CursorInv /\ MessageInv
  BY ScreenInit
<1>2. CursorInv /\ MessageInv /\ [Next]_vars => (CursorInv /\ MessageInv)'
  BY ScreenNext
<1>3. CursorInv => StaysOnScreen
  <2> SUFFICES ASSUME CursorInv PROVE StaysOnScreen
    OBVIOUS
  <2>1. ROWS * COLUMNS \in Int
    BY Geometry
  <2> QED BY <2>1 DEF CursorInv, StaysOnScreen, OnScreen, LastCell
<1> QED BY <1>1, <1>2, <1>3, PTL DEF Spec

(* kprintf prints the digits of every number, for every width of u64int.   *)
THEOREM DigitsAreRight == Spec => []PrintsNumber
<1>1. Init => CursorInv /\ MessageInv
  BY ScreenInit
<1>2. CursorInv /\ MessageInv /\ [Next]_vars => (CursorInv /\ MessageInv)'
  BY ScreenNext
<1>3. MessageInv => PrintsNumber
  BY DEF MessageInv
<1> QED BY <1>1, <1>2, <1>3, PTL DEF Spec

-----------------------------------------------------------------------------
(* The line on the screen.                                                 *)

(* The characters that take a column.                                      *)
Ordinary == Chars \ ({"nl", "tab", "bs"} \cup Silent)

(* A character that takes a column goes to the cursor's cell, and the row  *)
(* that is full scrolls the screen when it is the last.                    *)
LEMMA PutAdvances ==
    ASSUME NEW s \in Screens, OnScreen(s), NEW c \in Ordinary,
           NEW f, f = monitor_put(s, c)
    PROVE  \E gap \in {0, COLUMNS} :
             /\ Location(f) = Location(s) + 1 - gap
             /\ gap = COLUMNS => Location(f) = (ROWS - 1) * COLUMNS
             /\ \A i \in Cells : i <= Location(s) /\ i - gap \in Cells =>
                  f.cells[i - gap] = IF i = Location(s) THEN c ELSE s.cells[i]
<1>0. PICK p : p = PutChar(s, c)
  OBVIOUS
<1>1. /\ p \in Screens /\ p.x = s.x + 1 /\ p.y = s.y
      /\ \A i \in Cells : p.cells[i] = IF i = Location(s) THEN c ELSE s.cells[i]
  <2>1. p \in Screens /\ \E g \in Screens : /\ g = Shown(s, c)
                                 /\ p.cells = g.cells /\ p.x = g.x /\ p.y = g.y /\ p.top = g.top
    BY <1>0, PutCharIs DEF Ordinary
  <2>2. c \in Chars /\ c \notin {"nl", "tab", "bs"} \cup Silent
    BY DEF Ordinary
  <2> QED BY <2>1, <2>2, ShownIs
<1>2. PICK w : w = Wrap(p)
  OBVIOUS
<1>3. /\ w \in Screens /\ w.cells = p.cells
      /\ w.x = IF p.x >= COLUMNS THEN 0 ELSE p.x
      /\ w.y = IF p.x >= COLUMNS THEN p.y + 1 ELSE p.y
  BY <1>1, <1>2, WrapIs
<1>4. /\ f \in Screens /\ f.x = w.x
      /\ f.y = IF w.y >= ROWS THEN ROWS - 1 ELSE w.y
      /\ IF w.y >= ROWS
           THEN \A i \in Cells : i + COLUMNS \in Cells => f.cells[i] = w.cells[i + COLUMNS]
           ELSE f.cells = w.cells
  <2>1. f = scroll(w)
    BY <1>0, <1>2 DEF monitor_put
  <2> QED BY <1>3, <2>1, ScrollIs
<1>5. /\ s.x \in 0 .. COLUMNS - 1 /\ s.y \in 0 .. ROWS - 1 /\ COLUMNS \in Nat /\ ROWS \in Nat
      /\ COLUMNS > 0
  BY Geometry DEF OnScreen
<1>6. /\ Location(s) = s.y * COLUMNS + s.x /\ Location(f) = f.y * COLUMNS + f.x
  BY DEF Location
<1>7. Cells \subseteq Int
  BY Geometry DEF Cells
<1>8. CASE s.x + 1 < COLUMNS
  <2>1. f.x = s.x + 1 /\ f.y = s.y /\ f.cells = p.cells
    BY <1>1, <1>3, <1>4, <1>5, <1>8
  <2>2. PICK q \in Int : q = s.y * COLUMNS
    BY <1>5
  <2>3. Location(f) = Location(s) + 1 - 0
    BY <1>5, <1>6, <2>1, <2>2
  <2>4. \A i \in Cells : i - 0 = i
    BY <1>7
  <2> QED BY <1>1, <1>5, <2>1, <2>3, <2>4
<1>9. CASE s.x + 1 >= COLUMNS /\ s.y + 1 < ROWS
  <2>1. f.x = 0 /\ f.y = s.y + 1 /\ f.cells = p.cells /\ s.x = COLUMNS - 1
    BY <1>1, <1>3, <1>4, <1>5, <1>9
  <2>2. PICK q \in Int : q = s.y * COLUMNS /\ (s.y + 1) * COLUMNS = q + COLUMNS
    BY <1>5
  <2>3. Location(f) = Location(s) + 1 - 0
    BY <1>5, <1>6, <2>1, <2>2
  <2>4. \A i \in Cells : i - 0 = i
    BY <1>7
  <2> QED BY <1>1, <1>5, <2>1, <2>3, <2>4
<1>10. CASE s.x + 1 >= COLUMNS /\ s.y + 1 >= ROWS
  <2>1. /\ f.x = 0 /\ f.y = ROWS - 1 /\ w.cells = p.cells /\ s.x = COLUMNS - 1 /\ s.y = ROWS - 1
        /\ w.y >= ROWS
    BY <1>1, <1>3, <1>4, <1>5, <1>10
  <2>2. PICK q \in Int : q = (ROWS - 1) * COLUMNS
    BY <1>5
  <2>3. Location(f) = q + 0 /\ Location(s) = q + (COLUMNS - 1)
    BY <1>6, <2>1, <2>2
  <2>4. Location(f) = Location(s) + 1 - COLUMNS /\ Location(f) = (ROWS - 1) * COLUMNS
    BY <1>5, <2>2, <2>3
  <2>5. ASSUME NEW i \in Cells, i - COLUMNS \in Cells
        PROVE  f.cells[i - COLUMNS] = IF i = Location(s) THEN c ELSE s.cells[i]
    <3>1. (i - COLUMNS) + COLUMNS = i
      BY <1>5, <1>7
    <3> QED BY <1>1, <1>4, <2>1, <2>5, <3>1
  <2> QED BY <2>4, <2>5
<1> QED BY <1>5, <1>8, <1>9, <1>10, <1>1

(* The n characters of w stand before the cursor.                          *)
Before(s, n, w) ==
    /\ Location(s) >= n
    /\ \A j \in 1 .. n : s.cells[Location(s) - n + j - 1] = w[j]

LEMMA CellsBefore ==
    ASSUME NEW s \in Screens, OnScreen(s), NEW n \in Nat, n <= Location(s), NEW j \in 1 .. n
    PROVE  /\ Location(s) \in 0 .. LastCell /\ LastCell \in Int
           /\ Location(s) - n + j - 1 \in Cells /\ Location(s) - n + j - 1 < Location(s)
<1>1. Location(s) \in 0 .. LastCell
  BY EdgeLocation, Geometry DEF OnScreen, AtEdge
<1>2. LastCell \in Int /\ Cells = 0 .. LastCell
  BY Geometry DEF LastCell, Cells
<1> QED BY <1>1, <1>2

LEMMA PutAdds ==
    ASSUME NEW s \in Screens, OnScreen(s), NEW c \in Ordinary,
           NEW n \in Nat, NEW w, NEW v, Before(s, n, w), n < (ROWS - 1) * COLUMNS,
           \A j \in 1 .. n : v[j] = w[j], v[n + 1] = c
    PROVE  Before(monitor_put(s, c), n + 1, v)
<1>0. PICK f : f = monitor_put(s, c)
  OBVIOUS
<1>1. PICK gap \in {0, COLUMNS} :
             /\ Location(f) = Location(s) + 1 - gap
             /\ gap = COLUMNS => Location(f) = (ROWS - 1) * COLUMNS
             /\ \A i \in Cells : i <= Location(s) /\ i - gap \in Cells =>
                  f.cells[i - gap] = IF i = Location(s) THEN c ELSE s.cells[i]
  BY <1>0, PutAdvances
<1>2. PICK l \in Int, m \in Int : l = Location(s) /\ m = Location(f)
  BY <1>1, ScreenFields, Geometry
<1>3. /\ l \in 0 .. LastCell /\ LastCell \in Int /\ n <= l /\ Cells = 0 .. LastCell
      /\ gap \in Nat /\ (ROWS - 1) * COLUMNS \in Int
  <2>1. l \in 0 .. LastCell
    BY <1>2, EdgeLocation, Geometry DEF OnScreen, AtEdge
  <2> QED BY <1>2, <2>1, Geometry DEF LastCell, Cells, Before
<1>4. m = l + 1 - gap
  BY <1>1, <1>2
<1>5. m >= n + 1
  <2>1. CASE gap = COLUMNS
    BY <1>1, <1>2, <1>3, <2>1
  <2>2. CASE gap = 0
    BY <1>3, <1>4, <2>2
  <2> QED BY <2>1, <2>2
<1>6. ASSUME NEW j \in 1 .. n + 1 PROVE f.cells[m - (n + 1) + j - 1] = v[j]
  <2>1. PICK i \in Int : i = l - n + j - 1
    BY <1>3
  <2>2. i - gap = m - (n + 1) + j - 1 /\ i \in Cells /\ i <= l /\ i - gap \in Cells
    BY <1>3, <1>4, <1>5, <2>1
  <2>3. f.cells[i - gap] = IF i = l THEN c ELSE s.cells[i]
    BY <1>1, <1>2, <2>2
  <2>4. CASE j = n + 1
    BY <2>1, <2>2, <2>3, <2>4, <1>3
  <2>5. CASE j # n + 1
    <3>1. j \in 1 .. n /\ i # l
      BY <1>3, <2>1, <2>5
    <3>2. s.cells[i] = w[j]
      BY <1>2, <2>1, <3>1 DEF Before
    <3> QED BY <2>2, <2>3, <3>1, <3>2
  <2> QED BY <2>4, <2>5
<1> QED BY <1>0, <1>2, <1>5, <1>6 DEF Before

(* The characters by names that the provers need not look into.            *)
BackSpace == "bs"
NewLine == "nl"
Space == " "
Prompter == ">"

LEMMA Named ==
    /\ BackSpace \in Chars /\ NewLine \in Chars
    /\ Space \in Ordinary /\ Space \in Chars
    /\ Prompter \in Ordinary /\ Prompter \in Chars
BY MonitorAssumption, ShellAssumption DEF BackSpace, NewLine, Space, Prompter, Ordinary, Silent

(* A backspace blanks the cell before the cursor and steps back to it,     *)
(* over the left edge too.                                                 *)
LEMMA PutBack ==
    ASSUME NEW s \in Screens, OnScreen(s), Location(s) > 0, NEW f, f = monitor_put(s, BackSpace)
    PROVE  /\ f \in Screens /\ OnScreen(f) /\ Location(f) = Location(s) - 1
           /\ \A i \in Cells : i # Location(s) - 1 => f.cells[i] = s.cells[i]
<1>0. BackSpace \in Chars /\ AtEdge(s)
  BY Named, Geometry DEF OnScreen, AtEdge
<1>1. PICK b, p : b = Back(s) /\ p = PutChar(s, BackSpace)
  OBVIOUS
<1>2. /\ b \in Screens /\ OnScreen(b)
      /\ b.x = IF s.x > 0 THEN s.x - 1 ELSE IF s.y > 0 THEN COLUMNS - 1 ELSE s.x
      /\ b.y = IF ~(s.x > 0) /\ s.y > 0 THEN s.y - 1 ELSE s.y
  BY <1>0, <1>1, BackIs, BackStays
<1>3. /\ p \in Screens /\ p.x = b.x /\ p.y = b.y
      /\ \A i \in Cells : i # Location(b) => p.cells[i] = s.cells[i]
  <2>1. p \in Screens /\ \E g \in Screens : /\ g = Shown(s, BackSpace)
                                 /\ p.cells = g.cells /\ p.x = g.x /\ p.y = g.y /\ p.top = g.top
    BY <1>0, <1>1, PutCharIs
  <2> QED BY <1>0, <1>1, <2>1, ShownIs DEF BackSpace
<1>4. PICK w : w = Wrap(p)
  OBVIOUS
<1>5. w \in Screens /\ w.cells = p.cells /\ w.x = p.x /\ w.y = p.y
  <2>1. ~(p.x >= COLUMNS)
    BY <1>2, <1>3, Geometry DEF OnScreen
  <2> QED BY <1>3, <1>4, <2>1, WrapIs
<1>6. f \in Screens /\ f.cells = p.cells /\ f.x = p.x /\ f.y = p.y
  <2>1. f = scroll(w) /\ ~(w.y >= ROWS)
    BY <1>1, <1>2, <1>3, <1>4, <1>5, Geometry DEF OnScreen, monitor_put
  <2> QED BY <1>5, <2>1, ScrollIs
<1>7. Location(b) = Location(s) - 1
  <2>1. /\ s.x \in 0 .. COLUMNS - 1 /\ s.y \in 0 .. ROWS - 1 /\ COLUMNS \in Nat /\ ROWS \in Nat
    BY Geometry DEF OnScreen
  <2>2. CASE s.x > 0
    <3>1. PICK q \in Int : q = s.y * COLUMNS
      BY <2>1
    <3> QED BY <1>2, <2>1, <2>2, <3>1 DEF Location
  <2>3. CASE s.x = 0
    <3>1. s.y > 0
      BY <2>1, <2>3 DEF Location
    <3>2. b.x = COLUMNS - 1 /\ b.y = s.y - 1
      BY <1>2, <2>3, <3>1
    <3>3. PICK q \in Int : q = s.y * COLUMNS /\ (s.y - 1) * COLUMNS = q - COLUMNS
      BY <2>1
    <3> QED BY <2>1, <2>3, <3>2, <3>3 DEF Location
  <2> QED BY <2>1, <2>2, <2>3
<1>8. Location(f) = Location(b) /\ OnScreen(f)
  BY <1>2, <1>3, <1>6 DEF Location, OnScreen
<1> QED BY <1>3, <1>6, <1>7, <1>8

LEMMA WriteThree ==
    ASSUME NEW s \in Screens, NEW a \in Chars, NEW b \in Chars, NEW c \in Chars
    PROVE  monitor_write(s, <<a, b, c>>) = monitor_put(monitor_put(monitor_put(s, a), b), c)
<1>1. PICK t : t = <<a, b, c>>
  OBVIOUS
<1>2. t \in Seq(Chars) /\ Len(t) = 3 /\ t[1] = a /\ t[2] = b /\ t[3] = c
  BY <1>1
<1>3. PICK u : /\ u[0] = s
               /\ \A i \in 1 .. Len(t) : u[i] = monitor_put(u[i - 1], t[i])
               /\ monitor_write(s, t) = u[Len(t)]
  BY <1>2, WriteRecurs
<1>4. u[1] = monitor_put(u[0], a) /\ u[2] = monitor_put(u[1], b) /\ u[3] = monitor_put(u[2], c)
  <2>1. 1 \in 1 .. 3 /\ 2 \in 1 .. 3 /\ 3 \in 1 .. 3 /\ 1 - 1 = 0 /\ 2 - 1 = 1 /\ 3 - 1 = 2
    OBVIOUS
  <2>2. u[1] = monitor_put(u[1 - 1], t[1])
    BY <1>2, <1>3, <2>1
  <2>3. u[2] = monitor_put(u[2 - 1], t[2])
    BY <1>2, <1>3, <2>1
  <2>4. u[3] = monitor_put(u[3 - 1], t[3])
    BY <1>2, <1>3, <2>1
  <2> QED BY <1>2, <2>1, <2>2, <2>3, <2>4
<1> QED BY <1>1, <1>2, <1>3, <1>4

(* The three characters that erase one.                                    *)
LEMMA EraseDrops ==
    ASSUME NEW s \in Screens, OnScreen(s), NEW n \in Nat, NEW w, Before(s, n + 1, w)
    PROVE  Before(monitor_write(s, <<BackSpace, Space, BackSpace>>), n, w)
<1>0. PICK f, g, h : /\ f = monitor_put(s, BackSpace) /\ g = monitor_put(f, Space)
                     /\ h = monitor_put(g, BackSpace)
  OBVIOUS
<1>1. h = monitor_write(s, <<BackSpace, Space, BackSpace>>)
  BY <1>0, Named, WriteThree
<1>2. PICK l \in Int : l = Location(s)
  BY ScreenFields
<1>3. /\ l \in 0 .. LastCell /\ LastCell \in Int /\ n + 1 <= l /\ Cells = 0 .. LastCell
      /\ \A j \in 1 .. n + 1 : s.cells[l - (n + 1) + j - 1] = w[j]
  <2>1. l \in 0 .. LastCell
    BY <1>2, EdgeLocation, Geometry DEF OnScreen, AtEdge
  <2> QED BY <1>2, <2>1, Geometry DEF LastCell, Cells, Before
<1>4. /\ f \in Screens /\ OnScreen(f) /\ Location(f) = l - 1
      /\ \A i \in Cells : i # l - 1 => f.cells[i] = s.cells[i]
  BY <1>0, <1>2, <1>3, PutBack
<1>5. PICK gap \in {0, COLUMNS} :
        /\ Location(g) = l - 1 + 1 - gap
        /\ gap = COLUMNS => Location(g) = (ROWS - 1) * COLUMNS
        /\ \A i \in Cells : i <= l - 1 /\ i - gap \in Cells =>
             g.cells[i - gap] = IF i = l - 1 THEN Space ELSE f.cells[i]
  <2>1. PICK gap \in {0, COLUMNS} :
          /\ Location(g) = Location(f) + 1 - gap
          /\ gap = COLUMNS => Location(g) = (ROWS - 1) * COLUMNS
          /\ \A i \in Cells : i <= Location(f) /\ i - gap \in Cells =>
               g.cells[i - gap] = IF i = Location(f) THEN Space ELSE f.cells[i]
    BY <1>0, <1>4, Named, PutAdvances
  <2> QED BY <1>4, <2>1
<1>6. gap = 0
  <2>1. SUFFICES ASSUME gap = COLUMNS PROVE FALSE
    BY <1>5
  <2>2. PICK q \in Int : q = (ROWS - 1) * COLUMNS /\ LastCell = q + COLUMNS - 1
    BY Geometry DEF LastCell
  <2> QED BY <1>3, <1>5, <2>1, <2>2, Geometry
<1>7. Location(g) = l /\ \A i \in Cells : i < l - 1 => g.cells[i] = f.cells[i]
  <2>1. \A i \in Cells : i - 0 = i
    BY <1>3
  <2> QED BY <1>3, <1>5, <1>6, <2>1
<1>8. g \in Screens /\ OnScreen(g)
  BY <1>0, <1>4, Named, PutPrints DEF Prints
<1>9. /\ h \in Screens /\ OnScreen(h) /\ Location(h) = l - 1
      /\ \A i \in Cells : i # l - 1 => h.cells[i] = g.cells[i]
  BY <1>0, <1>3, <1>7, <1>8, PutBack
<1>10. ASSUME NEW j \in 1 .. n PROVE h.cells[l - 1 - n + j - 1] = w[j]
  <2>1. PICK i \in Int : i = l - (n + 1) + j - 1
    BY <1>3
  <2>2. i \in Cells /\ i < l - 1 /\ i # l - 1 /\ i = l - 1 - n + j - 1 /\ j \in 1 .. n + 1
    BY <1>3, <2>1
  <2>3. h.cells[i] = s.cells[i]
    BY <1>4, <1>7, <1>9, <2>2
  <2> QED BY <1>3, <2>1, <2>2, <2>3
<1> QED BY <1>1, <1>3, <1>9, <1>10 DEF Before

(* The loop's head prints the prompt.                                      *)
LEMMA PromptShows ==
    ASSUME NEW s \in Screens, OnScreen(s), NEW w, w[1] = Prompter, w[2] = Space
    PROVE  Before(monitor_write(s, <<NewLine, Prompter, Space>>), 2, w)
<1>0. PICK f, g, h : /\ f = monitor_put(s, NewLine) /\ g = monitor_put(f, Prompter)
                     /\ h = monitor_put(g, Space)
  OBVIOUS
<1>1. Prompter \in Ordinary /\ Prompter \in Chars /\ Space \in Ordinary /\ Space \in Chars
  BY Named
<1>2. h = monitor_write(s, <<NewLine, Prompter, Space>>)
  BY <1>0, <1>1, Named, WriteThree
<1>3. f \in Screens /\ OnScreen(f)
  BY <1>0, Named, PutPrints DEF Prints
<1>4. g \in Screens /\ OnScreen(g)
  BY <1>0, <1>1, <1>3, PutPrints DEF Prints
<1>5. (ROWS - 1) * COLUMNS > 2
  <2>1. PICK q \in Int : q = (ROWS - 1) * COLUMNS
    BY Geometry
  <2>2. LINE \in Nat /\ LINE + 2 < q
    BY <2>1, ShellAssumption
  <2> QED BY <2>1, <2>2
<1>6. Before(f, 0, w)
  <2>1. Location(f) >= 0
    BY <1>3, EdgeLocation, Geometry DEF OnScreen, AtEdge, LastCell
  <2> QED BY <2>1 DEF Before
<1>7. Before(g, 1, w)
  <2>1. w[0 + 1] = Prompter /\ 0 < (ROWS - 1) * COLUMNS /\ 0 \in Nat /\ 0 + 1 = 1
    BY <1>5, Geometry
  <2>2. \A j \in 1 .. 0 : w[j] = w[j]
    OBVIOUS
  <2>3. Before(g, 0 + 1, w)
    BY <1>0, <1>1, <1>3, <1>6, <2>1, <2>2, PutAdds
  <2> QED BY <2>1, <2>3
<1>8. Before(h, 2, w)
  <2>1. w[1 + 1] = Space /\ 1 < (ROWS - 1) * COLUMNS /\ 1 \in Nat /\ 1 + 1 = 2
    BY <1>5, Geometry
  <2>2. \A j \in 1 .. 1 : w[j] = w[j]
    OBVIOUS
  <2>3. Before(h, 1 + 1, w)
    BY <1>0, <1>1, <1>4, <1>7, <2>1, <2>2, PutAdds
  <2> QED BY <2>1, <2>3
<1> QED BY <1>2, <1>8

(* The prompt and the line, and that they stand before the cursor.         *)
ShownLine(l) == [j \in Nat |-> IF j = 1 THEN Prompter ELSE IF j = 2 THEN Space ELSE l[j - 3]]

(* keyboard_readline: line holds the text as it was edited.                *)
TypedInv ==
    /\ line \in [Offsets -> Chars]
    /\ text \in Seq(Typed)
    /\ pc = "read" => idx = Len(text) /\ idx <= LINE - 2
    /\ pc \in {"read", "parse"} => \A j \in 1 .. Len(text) : line[j - 1] = text[j]
    /\ pc = "parse" => Len(text) \in 1 .. LINE - 1 /\ line[Len(text)] = "nul"
ShownInv == pc = "read" /\ ~odd => Before(scr, idx + 2, ShownLine(line))

LEMMA Sizes == LINE \in Nat /\ LINE > 1 /\ Offsets = 0 .. LINE - 1 /\ MAX_ARGS \in Nat /\ MAX_ARGS > 0
BY ShellAssumption DEF Offsets

LEMMA TypedAre ==
    /\ Typed \subseteq Chars /\ "nul" \in Chars /\ "quote" \in Chars
    /\ \A c \in Typed : c # "nl" /\ c # "bs" /\ c # "nul"
    /\ \A c \in Typed : c \notin Silent \cup {"tab"} => c \in Ordinary
<1>1. Typed \subseteq Chars \ {"nl", "bs", "nul"} /\ "nul" \in Chars /\ "quote" \in Chars
  BY ShellAssumption
<1> QED BY <1>1 DEF Ordinary

LEMMA ZeroType ==
    ASSUME NEW l \in [Offsets -> Chars], NEW S
    PROVE  Zero(l, S) \in [Offsets -> Chars]
BY TypedAre DEF Zero

LEMMA TypedInit == Init => TypedInv /\ ShownInv
<1> SUFFICES ASSUME Init PROVE TypedInv /\ ShownInv
  OBVIOUS
<1>1. line \in [Offsets -> Chars]
  BY ShellAssumption DEF Init
<1> QED BY <1>1 DEF Init, TypedInv, ShownInv

(* Nothing but the keystrokes touches text; parse_line cuts the line.      *)
LEMMA OthersKeepLine ==
    ASSUME TypedInv, UNCHANGED text, pc' \notin {"read", "parse"},
           UNCHANGED line \/ (\E S : line' = Zero(line, S))
                          \/ (\E S, T : line' = Zero(Zero(line, S), T))
    PROVE  TypedInv' /\ ShownInv'
<1>1. line' \in [Offsets -> Chars]
  BY ZeroType DEF TypedInv
<1> QED BY <1>1 DEF TypedInv, ShownInv, Offsets

LEMMA PromptKeepsLine ==
    ASSUME CursorInv, TypedInv, Prompt
    PROVE  TypedInv' /\ ShownInv'
<1>1. /\ pc' = "read" /\ idx' = 0 /\ text' = <<>> /\ line' = line
      /\ scr \in Screens /\ OnScreen(scr)
  BY DEF Prompt, CursorInv
<1>2. TypedInv'
  <2>1. <<>> \in Seq(Typed) /\ Len(<<>>) = 0
    OBVIOUS
  <2>2. line' \in [Offsets -> Chars] /\ 0 <= LINE - 2
    BY <1>1, Sizes DEF TypedInv
  <2> QED BY <1>1, <2>1, <2>2 DEF TypedInv, Offsets
<1>3. PICK f, w : f = monitor_write(scr, <<NewLine, Prompter, Space>>) /\ w = ShownLine(line')
  OBVIOUS
<1>4. Before(f, 2, w)
  <2>1. w[1] = Prompter /\ w[2] = Space
    BY <1>3 DEF ShownLine
  <2> QED BY <1>1, <1>3, <2>1, PromptShows
<1>5. f \in Screens
  <2>1. <<NewLine, Prompter, Space>> \in Seq(Chars)
    BY Texts DEF NewLine, Prompter, Space
  <2> QED BY <1>1, <1>3, <2>1, WritePrints DEF Prints
<1>6. scr' = [f EXCEPT !.serial = <<>>]
  BY <1>3 DEF Prompt, NewLine, Prompter, Space
<1>7. scr'.cells = f.cells /\ Location(scr') = Location(f)
  BY <1>5, <1>6, SerialReset DEF Location
<1>8. Before(scr', idx' + 2, w)
  BY <1>1, <1>4, <1>7 DEF Before
<1> QED BY <1>2, <1>3, <1>8 DEF ShownInv, Before, ShownLine, Location, Prompter, Space

LEMMA EnterKeepsLine ==
    ASSUME TypedInv, Enter
    PROVE  TypedInv' /\ ShownInv'
<1>1. /\ pc = "read" /\ pc' = (IF idx = 0 THEN "prompt" ELSE "parse") /\ text' = text
      /\ line' = [line EXCEPT ![idx] = "nul"]
  BY DEF Enter, Keystroke
<1>2. idx = Len(text) /\ Len(text) \in Nat /\ idx <= LINE - 2 /\ idx \in Offsets
  BY <1>1, Sizes DEF TypedInv
<1>3. line' \in [Offsets -> Chars] /\ line'[idx] = "nul"
  BY <1>1, <1>2, TypedAre DEF TypedInv
<1>4. ASSUME NEW j \in 1 .. Len(text) PROVE line'[j - 1] = text[j]
  <2>1. j - 1 \in Offsets /\ j - 1 # idx
    BY <1>2, Sizes
  <2>2. line'[j - 1] = line[j - 1]
    BY <1>1, <2>1 DEF TypedInv
  <2> QED BY <1>1, <2>2 DEF TypedInv
<1>5. pc' = "parse" => Len(text) \in 1 .. LINE - 1
  BY <1>1, <1>2, Sizes
<1> QED BY <1>1, <1>2, <1>3, <1>4, <1>5 DEF TypedInv, ShownInv, Offsets

LEMMA EraseKeepsLine ==
    ASSUME CursorInv, TypedInv, ShownInv, Erase
    PROVE  TypedInv' /\ ShownInv'
<1>1. pc = "read" /\ pc' = pc /\ line' = line /\ odd' = odd
  BY DEF Erase, Keystroke
<1>2. /\ idx = Len(text) /\ text \in Seq(Typed) /\ Len(text) \in Nat /\ idx <= LINE - 2
      /\ \A j \in 1 .. Len(text) : line[j - 1] = text[j]
  BY <1>1 DEF TypedInv
<1>3. CASE ~(idx > 0)
  <2>1. UNCHANGED <<scr, idx, text>>
    BY <1>3 DEF Erase
  <2>2. TypedInv'
    BY <1>1, <2>1 DEF TypedInv, Offsets
  <2>3. ~odd => Before(scr', idx' + 2, ShownLine(line'))
    BY <1>1, <2>1 DEF ShownInv
  <2> QED BY <1>1, <2>2, <2>3 DEF ShownInv, Before, ShownLine, Location, Prompter, Space
<1>4. CASE idx > 0
  <2>1. /\ idx' = idx - 1 /\ text' = SubSeq(text, 1, Len(text) - 1)
        /\ scr' = monitor_write(scr, <<BackSpace, Space, BackSpace>>)
    BY <1>4 DEF Erase, BackSpace, Space
  <2>2. /\ text' \in Seq(Typed) /\ Len(text') = Len(text) - 1
        /\ \A j \in 1 .. Len(text) - 1 : text'[j] = text[j]
    BY <1>2, <1>4, <2>1
  <2>3. TypedInv'
    <3>1. line' \in [Offsets -> Chars]
      BY <1>1 DEF TypedInv
    <3>2. idx' = Len(text') /\ idx' <= LINE - 2
      BY <1>2, <2>1, <2>2, Sizes
    <3>3. ASSUME NEW j \in 1 .. Len(text') PROVE line'[j - 1] = text'[j]
      <4>1. j \in 1 .. Len(text) /\ j \in 1 .. Len(text) - 1
        BY <1>2, <2>2
      <4> QED BY <1>1, <1>2, <2>2, <4>1
    <3> QED BY <1>1, <2>2, <3>1, <3>2, <3>3 DEF TypedInv, Offsets
  <2>4. ASSUME ~odd PROVE Before(scr', idx' + 2, ShownLine(line))
    <3>0. PICK w : w = ShownLine(line)
      OBVIOUS
    <3>1. PICK n \in Nat : n = idx' + 2 /\ w = ShownLine(line) /\ n + 1 = idx + 2
      BY <1>2, <1>4, <2>1, <3>0
    <3>2. Before(scr, n + 1, w)
      BY <1>1, <2>4, <3>1 DEF ShownInv
    <3>3. scr \in Screens /\ OnScreen(scr)
      BY <1>1 DEF CursorInv
    <3> QED BY <2>1, <3>1, <3>2, <3>3, EraseDrops
  <2> QED BY <1>1, <2>3, <2>4 DEF ShownInv, Before, ShownLine, Location, Prompter, Space
<1> QED BY <1>2, <1>3, <1>4

LEMMA TypeKeepsLine ==
    ASSUME CursorInv, TypedInv, ShownInv, NEW c \in Typed, Type(c)
    PROVE  TypedInv' /\ ShownInv'
<1>1. /\ pc = "read" /\ idx' = idx + 1 /\ text' = Append(text, c) /\ scr' = monitor_put(scr, c)
      /\ line' = IF idx + 1 = LINE - 1 THEN [line EXCEPT ![idx] = c, ![idx + 1] = "nul"]
                                       ELSE [line EXCEPT ![idx] = c]
      /\ pc' = IF idx + 1 = LINE - 1 THEN "parse" ELSE "read"
  BY DEF Type, Keystroke, LineFull
<1>2. /\ idx = Len(text) /\ text \in Seq(Typed) /\ Len(text) \in Nat /\ idx <= LINE - 2
      /\ \A j \in 1 .. Len(text) : line[j - 1] = text[j]
      /\ line \in [Offsets -> Chars] /\ idx \in Offsets /\ idx + 1 \in Offsets
  BY <1>1, Sizes DEF TypedInv
<1>3. /\ line' \in [Offsets -> Chars] /\ line'[idx] = c
      /\ idx + 1 = LINE - 1 => line'[idx + 1] = "nul"
      /\ \A i \in Offsets : i < idx => line'[i] = line[i]
  <2>1. idx # idx + 1 /\ c \in Chars /\ "nul" \in Chars /\ Offsets \subseteq Int
    BY <1>2, TypedAre, Sizes
  <2>2. PICK m \in [Offsets -> Chars] : m = [line EXCEPT ![idx] = c]
    BY <1>2, <2>1
  <2>3. m[idx] = c /\ \A i \in Offsets : i < idx => m[i] = line[i]
    BY <1>2, <2>1, <2>2
  <2>4. CASE idx + 1 = LINE - 1
    <3>1. line' = [m EXCEPT ![idx + 1] = "nul"]
      BY <1>1, <2>2, <2>4
    <3>2. \A i \in Offsets : i < idx => i # idx + 1
      BY <1>2, <2>1
    <3> QED BY <1>2, <2>1, <2>2, <2>3, <3>1, <3>2
  <2>5. CASE idx + 1 # LINE - 1
    BY <1>1, <2>2, <2>3, <2>5
  <2> QED BY <2>4, <2>5
<1>4. /\ text' \in Seq(Typed) /\ Len(text') = Len(text) + 1 /\ text'[Len(text) + 1] = c
      /\ \A j \in 1 .. Len(text) : text'[j] = text[j]
  BY <1>1, <1>2
<1>5. ASSUME NEW j \in 1 .. Len(text') PROVE line'[j - 1] = text'[j]
  <2>1. CASE j = Len(text) + 1
    <3>1. j - 1 = idx
      BY <1>2, <2>1
    <3> QED BY <1>3, <1>4, <2>1, <3>1
  <2>2. CASE j # Len(text) + 1
    <3>1. j \in 1 .. Len(text) /\ j - 1 \in Offsets /\ j - 1 < idx
      BY <1>2, <1>4, <2>2, Sizes
    <3> QED BY <1>2, <1>3, <1>4, <3>1
  <2> QED BY <2>1, <2>2
<1>6. TypedInv'
  <2>1. pc' = "read" => idx' = Len(text') /\ idx' <= LINE - 2
    BY <1>1, <1>2, <1>4, Sizes
  <2>2. pc' = "parse" => Len(text') \in 1 .. LINE - 1 /\ line'[Len(text')] = "nul"
    BY <1>1, <1>2, <1>3, <1>4, Sizes
  <2> QED BY <1>3, <1>4, <1>5, <2>1, <2>2 DEF TypedInv, Offsets
<1>7. ASSUME pc' = "read", ~odd' PROVE Before(scr', idx' + 2, ShownLine(line'))
  <2>1. ~odd /\ c \in Ordinary
    BY <1>7, TypedAre DEF Type
  <2>0. PICK w, v : w = ShownLine(line) /\ v = ShownLine(line')
    OBVIOUS
  <2>2. PICK n \in Nat : n = idx + 2 /\ w = ShownLine(line) /\ v = ShownLine(line')
    BY <1>2, <2>0
  <2>3. Before(scr, n, w)
    BY <1>1, <2>1, <2>2 DEF ShownInv
  <2>4. scr \in Screens /\ OnScreen(scr)
    BY <1>1 DEF CursorInv
  <2>5. n < (ROWS - 1) * COLUMNS
    <3>1. PICK q \in Int : q = (ROWS - 1) * COLUMNS
      BY Geometry
    <3>2. LINE + 2 < q
      BY <3>1, ShellAssumption
    <3> QED BY <1>2, <2>2, <3>1, <3>2, Sizes
  <2>6. v[n + 1] = c
    <3>1. n + 1 \in Nat /\ n + 1 # 1 /\ n + 1 # 2 /\ n + 1 - 3 = idx
      BY <1>2, <2>2
    <3>2. v[n + 1] = line'[n + 1 - 3]
      BY <2>2, <3>1 DEF ShownLine
    <3> QED BY <1>3, <3>1, <3>2
  <2>7. ASSUME NEW j \in 1 .. n PROVE v[j] = w[j]
    <3>1. CASE j = 1 \/ j = 2
      BY <2>2, <3>1 DEF ShownLine
    <3>2. CASE j # 1 /\ j # 2
      <4>1. j \in Nat /\ j - 3 \in Offsets /\ j - 3 < idx
        BY <1>2, <2>2, <3>2, Sizes
      <4> QED BY <1>3, <2>2, <3>2, <4>1 DEF ShownLine
    <3> QED BY <3>1, <3>2
  <2>8. Before(scr', n + 1, v)
    BY <1>1, <2>1, <2>3, <2>4, <2>5, <2>6, <2>7, PutAdds
  <2>9. n + 1 = idx' + 2
    BY <1>1, <1>2, <2>2
  <2> QED BY <2>2, <2>8, <2>9
<1> QED BY <1>6, <1>7 DEF ShownInv, Before, ShownLine, Location, Prompter, Space

LEMMA TypedNext ==
    ASSUME CursorInv, TypedInv, ShownInv, [Next]_vars
    PROVE  TypedInv' /\ ShownInv'
<1>1. CASE \/ \E c \in BootChars : BootPut(c)
           \/ BootWrap \/ BootScroll \/ UnhandledIrq
  BY <1>1, OthersKeepLine DEF BootPut, BootWrap, BootScroll, UnhandledIrq, BootRest
<1>2. CASE \/ \E d \in Messages : Log(d)
           \/ shell_run \/ Refuse \/ Parsed
           \/ \E output \in Outputs : RunCommand(output)
           \/ \E n \in Stats : ShowStat(n)
  BY <1>2, OthersKeepLine DEF Log, shell_run, Refuse, Parsed, RunCommand, ShowStat
<1>3. CASE parse_line
  <2>1. \E S : line' = Zero(line, S)
    BY <1>3 DEF parse_line, rtrim
  <2> QED BY <1>3, <2>1, OthersKeepLine DEF parse_line
<1>4. CASE Split
  <2>1. (\E S : line' = Zero(line, S)) \/ (\E S, T : line' = Zero(Zero(line, S), T))
    BY <1>4 DEF Split, CutQuote
  <2> QED BY <1>4, <2>1, OthersKeepLine DEF Split
<1>5. CASE UNCHANGED vars
  <2>1. UNCHANGED <<scr, idx, text, line, pc, odd>>
    BY <1>5 DEF vars
  <2>2. TypedInv'
    BY <2>1 DEF TypedInv, Offsets
  <2>3. pc = "read" /\ ~odd => Before(scr', idx' + 2, ShownLine(line'))
    BY <2>1 DEF ShownInv
  <2> QED BY <2>1, <2>2, <2>3 DEF ShownInv, Before, ShownLine, Location, Prompter, Space
<1> QED BY <1>1, <1>2, <1>3, <1>4, <1>5, PromptKeepsLine, EnterKeepsLine, EraseKeepsLine,
           TypeKeepsLine DEF Next

LEMMA ShownIsExpected ==
    ASSUME TypedInv, ShownInv, pc = "read", ~odd,
           NEW e, e = <<Prompter, Space>> \o [i \in 1 .. idx |-> line[i - 1]],
           NEW i \in DOMAIN e
    PROVE  scr.cells[Location(scr) - Len(e) + i - 1] = e[i]
<1>1. Before(scr, idx + 2, ShownLine(line)) /\ idx \in Nat /\ idx <= LINE - 2
  BY DEF ShownInv, TypedInv
<1>2. PICK a, b : a = <<Prompter, Space>> /\ b = [j \in 1 .. idx |-> line[j - 1]] /\ e = a \o b
  OBVIOUS
<1>3. a \in Seq(Chars) /\ Len(a) = 2 /\ a[1] = Prompter /\ a[2] = Space
  BY <1>2, Named
<1>4. b \in Seq(Chars) /\ Len(b) = idx /\ \A j \in 1 .. idx : b[j] = line[j - 1]
  <2>1. \A j \in 1 .. idx : line[j - 1] \in Chars
    BY <1>1, Sizes DEF TypedInv
  <2> QED BY <1>1, <1>2, <2>1
<1>5. Len(e) = idx + 2 /\ i \in 1 .. idx + 2
  BY <1>1, <1>2, <1>3, <1>4
<1>6. e[i] = ShownLine(line)[i]
  <2>1. CASE i \in 1 .. 2
    BY <1>2, <1>3, <1>4, <2>1 DEF ShownLine
  <2>2. CASE i \notin 1 .. 2
    <3>1. i - 2 \in 1 .. idx /\ i = 2 + (i - 2) /\ (i - 2) - 1 = i - 3 /\ i \in Nat
      BY <1>1, <1>5, <2>2
    <3>2. e[i] = b[i - 2]
      <4>1. PICK k \in 1 .. Len(b) : k = i - 2 /\ i = Len(a) + k
        BY <1>3, <1>4, <3>1
      <4>2. a \in Seq(Chars) /\ b \in Seq(Chars)
        BY <1>3, <1>4
      <4>3. (a \o b)[Len(a) + k] = b[k]
        BY <4>2
      <4> QED BY <1>2, <4>1, <4>3
    <3>3. ShownLine(line)[i] = line[i - 3]
      BY <2>2, <3>1 DEF ShownLine
    <3> QED BY <1>4, <3>1, <3>2, <3>3
  <2> QED BY <2>1, <2>2
<1> QED BY <1>1, <1>5, <1>6 DEF Before

(* The screen shows what the shell will take, for every length of the line *)
(* and every screen that has room for it.                                  *)
THEOREM LineIsShown == Spec => []ScreenShowsLine
<1> DEFINE Inv == CursorInv /\ MessageInv /\ TypedInv /\ ShownInv
<1>1. Init => Inv
  BY ScreenInit, TypedInit
<1>2. Inv /\ [Next]_vars => Inv'
  BY ScreenNext, TypedNext
<1>3. Inv => ScreenShowsLine
  BY ShownIsExpected DEF ScreenShowsLine, Prompter, Space
<1> QED BY <1>1, <1>2, <1>3, PTL DEF Spec

-----------------------------------------------------------------------------
(* The words of the line.                                                  *)

(* Induction over an interval.                                             *)
LEMMA Climb ==
    ASSUME NEW a \in Int, NEW b \in Int, NEW S, a <= b => a \in S,
           \A i \in a .. b - 1 : i \in S => i + 1 \in S
    PROVE  \A i \in a .. b : i \in S
<1> DEFINE B == {k \in Nat : k \in 0 .. b - a /\ a + k \notin S}
<1>1. SUFFICES ASSUME B # {} PROVE FALSE
  <2>1. SUFFICES ASSUME NEW i \in a .. b, i \notin S PROVE B # {}
    BY <1>1, <2>1
  <2>2. i - a \in Nat /\ i - a \in 0 .. b - a /\ a + (i - a) = i
    OBVIOUS
  <2>3. i - a \in B
    BY <2>1, <2>2
  <2> QED BY <2>3
<1>2. PICK k \in B : \A m \in B : k <= m
  <2>1. B \subseteq Nat
    OBVIOUS
  <2> HIDE DEF B
  <2> QED BY <1>1, <2>1, LeastNatural
<1>3. k \in Nat /\ k \in 0 .. b - a /\ a + k \notin S
  BY <1>2
<1>4. k # 0
  BY <1>3
<1>5. k - 1 \in Nat /\ k - 1 \in 0 .. b - a /\ ~(k <= k - 1)
  BY <1>3, <1>4
<1>6. a + (k - 1) \in S
  BY <1>2, <1>5
<1>7. a + (k - 1) \in a .. b - 1 /\ a + (k - 1) + 1 = a + k
  BY <1>3, <1>4
<1> QED BY <1>3, <1>6, <1>7

(* A scan finds the first offset of its set.                               *)
LEMMA FirstOffset ==
    ASSUME NEW p \in Nat, NEW e \in Offsets, p <= e, NEW S, e \in S
    PROVE  \E q \in Offsets : q >= p /\ q <= e /\ q \in S /\ \A r \in p .. q - 1 : r \notin S
<1> DEFINE B == {q \in Nat : q \in p .. e /\ q \in S}
<1>1. e \in B /\ Offsets = 0 .. LINE - 1 /\ LINE \in Nat
  BY Sizes
<1>2. PICK q \in B : \A m \in B : q <= m
  <2>1. B \subseteq Nat
    OBVIOUS
  <2> HIDE DEF B
  <2> QED BY <1>1, <2>1, LeastNatural
<1>3. q \in Offsets /\ q >= p /\ q <= e /\ q \in S
  BY <1>1, <1>2
<1>4. ASSUME NEW r \in p .. q - 1 PROVE r \notin S
  <2>1. r \in Nat /\ r \in p .. e /\ ~(q <= r)
    BY <1>1, <1>3
  <2> QED BY <1>2, <2>1
<1> QED BY <1>3, <1>4

LEMMA ScanIs ==
    ASSUME NEW l, NEW p \in Nat, NEW stop, NEW e \in Offsets, p <= e, l[e] \in stop,
           NEW q, q = Scan(l, p, stop)
    PROVE  q \in Offsets /\ q >= p /\ q <= e /\ l[q] \in stop /\ \A r \in p .. q - 1 : l[r] \notin stop
<1> DEFINE S == {i \in Offsets : l[i] \in stop}
           Is(i) == i >= p /\ l[i] \in stop /\ \A r \in p .. i - 1 : l[r] \notin stop
<1>0. Offsets = 0 .. LINE - 1 /\ LINE \in Nat
  BY Sizes
<1>1. PICK i \in Offsets : i >= p /\ i <= e /\ i \in S /\ \A r \in p .. i - 1 : r \notin S
  <2>1. e \in S
    OBVIOUS
  <2> HIDE DEF S
  <2> QED BY <2>1, FirstOffset
<1>2. Is(i)
  <2>1. \A r \in p .. i - 1 : r \in Offsets
    BY <1>0, <1>1
  <2> QED BY <1>1, <2>1
<1>3. q = CHOOSE j \in Offsets : Is(j)
  BY DEF Scan
<1>4. q \in Offsets /\ Is(q)
  <2> HIDE DEF Is
  <2> QED BY <1>2, <1>3
<1>5. q <= e
  BY <1>0, <1>4
<1> QED BY <1>4, <1>5

LEMMA SkipIs ==
    ASSUME NEW l, NEW p \in Nat, NEW e \in Offsets, p <= e, l[e] \notin Blank,
           NEW q, q = SkipBlank(l, p)
    PROVE  q \in Offsets /\ q >= p /\ q <= e /\ l[q] \notin Blank /\ \A r \in p .. q - 1 : l[r] \in Blank
<1> DEFINE S == {i \in Offsets : l[i] \notin Blank}
           Is(i) == i >= p /\ l[i] \notin Blank /\ \A r \in p .. i - 1 : l[r] \in Blank
<1>0. Offsets = 0 .. LINE - 1 /\ LINE \in Nat
  BY Sizes
<1>1. PICK i \in Offsets : i >= p /\ i <= e /\ i \in S /\ \A r \in p .. i - 1 : r \notin S
  <2>1. e \in S
    OBVIOUS
  <2> HIDE DEF S
  <2> QED BY <2>1, FirstOffset
<1>2. Is(i)
  <2>1. \A r \in p .. i - 1 : r \in Offsets
    BY <1>0, <1>1
  <2> QED BY <1>1, <2>1
<1>3. q = CHOOSE j \in Offsets : Is(j)
  BY DEF SkipBlank
<1>4. q \in Offsets /\ Is(q)
  <2> HIDE DEF Is
  <2> QED BY <1>2, <1>3
<1>5. q <= e
  BY <1>0, <1>4
<1> QED BY <1>4, <1>5

Skipped(l, p, e, q) ==
    /\ q \in Offsets /\ q >= p /\ q <= e /\ l[q] \notin Blank
    /\ \A r \in p .. q - 1 : l[r] \in Blank

LEMMA Skipping ==
    ASSUME NEW l, NEW p \in Nat, NEW e \in Offsets, p <= e, l[e] \notin Blank
    PROVE  Skipped(l, p, e, SkipBlank(l, p))
BY SkipIs DEF Skipped

LEMMA TextEndIs ==
    ASSUME NEW t \in Seq(Typed), NEW m, m = TextEnd(t)
    PROVE  /\ m \in 0 .. Len(t) /\ (m = 0 \/ t[m] \notin Blank)
           /\ \A j \in m + 1 .. Len(t) : t[j] \in Blank
<1> DEFINE B == {k \in Nat : k \in 0 .. Len(t) /\ \A j \in k + 1 .. Len(t) : t[j] \in Blank}
           Is(k) == (k = 0 \/ t[k] \notin Blank) /\ \A j \in k + 1 .. Len(t) : t[j] \in Blank
<1>1. Len(t) \in B
  OBVIOUS
<1>2. PICK k \in B : \A i \in B : k <= i
  <2>1. B \subseteq Nat
    OBVIOUS
  <2> HIDE DEF B
  <2> QED BY <1>1, <2>1, LeastNatural
<1>3. k \in 0 .. Len(t) /\ \A j \in k + 1 .. Len(t) : t[j] \in Blank
  BY <1>2
<1>4. k = 0 \/ t[k] \notin Blank
  <2>1. SUFFICES ASSUME k # 0, t[k] \in Blank PROVE FALSE
    OBVIOUS
  <2>2. k - 1 \in Nat /\ k - 1 \in 0 .. Len(t) /\ ~(k <= k - 1)
    BY <1>3, <2>1
  <2>3. ASSUME NEW j \in (k - 1) + 1 .. Len(t) PROVE t[j] \in Blank
    BY <1>3, <2>1
  <2> QED BY <1>2, <2>2, <2>3
<1>5. k \in 0 .. Len(t) /\ Is(k)
  BY <1>3, <1>4
<1>6. m = CHOOSE i \in 0 .. Len(t) : Is(i)
  BY DEF TextEnd
<1>7. m \in 0 .. Len(t) /\ Is(m)
  <2> HIDE DEF Is
  <2> QED BY <1>5, <1>6
<1> QED BY <1>7

(* The automaton of Words.  Outside of gaps there is a word to add to.     *)
Gap == "gap"
InWord == "word"
InQuote == "quote"
Quote == "quote"
Modes == {Gap, InWord, InQuote}
Runs == {a \in [mode : Modes, words : Seq(Seq(Chars))] : a.mode = Gap \/ Len(a.words) > 0}
NewRun == [mode |-> Gap, words |-> <<>>]

LEMMA ModesDiffer == Gap # InWord /\ Gap # InQuote /\ InWord # InQuote
BY DEF Gap, InWord, InQuote

LEMMA StepInGap ==
    ASSUME NEW a \in Runs, NEW c \in Chars, a.mode = Gap
    PROVE  /\ c \in Blank => Step(a, c) = a
           /\ c \notin Blank =>
                Step(a, c) = [mode |-> IF c = Quote THEN InQuote ELSE InWord,
                              words |-> Append(a.words, IF c = Quote THEN <<>> ELSE <<c>>)]
BY DEF Step, Gap, Quote, InQuote, InWord

LEMMA StepInWord ==
    ASSUME NEW a \in Runs, NEW c \in Chars, a.mode # Gap
    PROVE  /\ Ends(a.mode, c) => Step(a, c) = [a EXCEPT !.mode = Gap]
           /\ ~Ends(a.mode, c) => Step(a, c) = [a EXCEPT !.words[Len(a.words)] = Append(@, c)]
BY DEF Step, Gap

(* What a step does to the words: it starts one, or adds to the last.      *)
Starts(a, b, c) ==
    /\ b.mode = IF c = Quote THEN InQuote ELSE InWord
    /\ \E w \in Seq(Chars) : /\ w = IF c = Quote THEN <<>> ELSE <<c>>
                             /\ b.words = Append(a.words, w)
Adds(a, b, c) ==
    /\ b.mode = a.mode /\ Len(b.words) = Len(a.words)
    /\ b.words[Len(a.words)] = Append(a.words[Len(a.words)], c)
    /\ \A i \in 1 .. Len(a.words) - 1 : b.words[i] = a.words[i]

LEMMA StepBlank ==
    ASSUME NEW a \in Runs, NEW c \in Chars, NEW b, b = Step(a, c), a.mode = Gap, c \in Blank
    PROVE  b = a
BY StepInGap

LEMMA StepStart ==
    ASSUME NEW a \in Runs, NEW c \in Chars, NEW b, b = Step(a, c), a.mode = Gap, c \notin Blank
    PROVE  b \in Runs /\ Starts(a, b, c)
<1>1. PICK n \in Nat, ws \in Seq(Seq(Chars)) : ws = a.words /\ n = Len(ws)
  BY DEF Runs
<1>2. PICK w \in Seq(Chars) : w = IF c = Quote THEN <<>> ELSE <<c>>
  <2>1. <<>> \in Seq(Chars) /\ <<c>> \in Seq(Chars)
    OBVIOUS
  <2> QED BY <2>1
<1>3. PICK m \in Modes : m = IF c = Quote THEN InQuote ELSE InWord
  BY DEF Modes
<1>4. b = [mode |-> m, words |-> Append(ws, w)]
  BY <1>1, <1>2, <1>3, StepInGap
<1>5. Append(ws, w) \in Seq(Seq(Chars)) /\ Len(Append(ws, w)) > 0
  BY <1>1
<1>6. b \in Runs
  BY <1>4, <1>5 DEF Runs
<1>7. b.mode = m /\ b.words = Append(ws, w)
  BY <1>4
<1>8. Starts(a, b, c)
  BY <1>1, <1>2, <1>3, <1>7 DEF Starts
<1> QED BY <1>6, <1>8

LEMMA StepEnd ==
    ASSUME NEW a \in Runs, NEW c \in Chars, NEW b, b = Step(a, c), a.mode # Gap, Ends(a.mode, c)
    PROVE  b \in Runs /\ b.mode = Gap /\ b.words = a.words
<1>1. PICK ws \in Seq(Seq(Chars)) : ws = a.words /\ a = [mode |-> a.mode, words |-> ws]
  BY DEF Runs
<1>2. b = [a EXCEPT !.mode = Gap]
  BY StepInWord
<1>3. b = [mode |-> Gap, words |-> ws]
  BY <1>1, <1>2
<1>4. b \in Runs
  BY <1>3 DEF Runs, Modes
<1> QED BY <1>1, <1>3, <1>4

LEMMA StepMore ==
    ASSUME NEW a \in Runs, NEW c \in Chars, NEW b, b = Step(a, c), a.mode # Gap, ~Ends(a.mode, c)
    PROVE  b \in Runs /\ Adds(a, b, c)
<1>1. PICK n \in Nat, ws \in Seq(Seq(Chars)) :
        /\ ws = a.words /\ n = Len(ws) /\ a.mode \in Modes /\ n > 0
        /\ a = [mode |-> a.mode, words |-> ws]
  BY DEF Runs
<1>2. b = [a EXCEPT !.words[Len(a.words)] = Append(@, c)]
  BY StepInWord
<1>3. PICK v : v = [ws EXCEPT ![n] = Append(ws[n], c)]
  OBVIOUS
<1>4. b = [mode |-> a.mode, words |-> v]
  BY <1>1, <1>2, <1>3
<1>5. n \in 1 .. Len(ws) /\ ws[n] \in Seq(Chars) /\ Append(ws[n], c) \in Seq(Chars)
  BY <1>1
<1>6. /\ v \in Seq(Seq(Chars)) /\ Len(v) = n /\ v[n] = Append(ws[n], c)
      /\ \A i \in 1 .. n - 1 : v[i] = ws[i]
  BY <1>1, <1>3, <1>5
<1>7. b \in Runs
  BY <1>1, <1>4, <1>6 DEF Runs
<1>8. b.mode = a.mode /\ b.words = v
  BY <1>4
<1>9. Adds(a, b, c)
  BY <1>1, <1>6, <1>8 DEF Adds
<1> QED BY <1>7, <1>9

LEMMA StepType ==
    ASSUME NEW a \in Runs, NEW c \in Chars
    PROVE  Step(a, c) \in Runs
BY StepBlank, StepStart, StepEnd, StepMore

LEMMA AutomatonIs ==
    ASSUME NEW t \in Seq(Chars), NEW u, u = Automaton(t)
    PROVE  /\ u[0] = NewRun
           /\ \A k \in 1 .. Len(t) : u[k] = Step(u[k - 1], t[k])
           /\ \A k \in 0 .. Len(t) : u[k] \in Runs
<1> DEFINE D == 0 .. Len(t)
           body(h, i) == IF i = 0 THEN NewRun ELSE Step(h[i - 1], t[i])
           step(i, x) == IF i \in D /\ i # 0 THEN Step(x, t[i]) ELSE x
           g == [e \in Nat \X Runs |-> step(e[1], e[2])]
<1>0. /\ Len(t) \in Nat /\ \A i \in D : i # 0 => t[i] \in Chars
  OBVIOUS
<1>00. NewRun \in Runs
  <2>1. <<>> \in Seq(Seq(Chars))
    OBVIOUS
  <2> QED BY <2>1 DEF NewRun, Runs, Modes
<1>1. IsRound(Runs, NewRun, g)
  <2>1. ASSUME NEW e \in Nat \X Runs PROVE step(e[1], e[2]) \in Runs
    <3>1. e[1] \in Nat /\ e[2] \in Runs
      OBVIOUS
    <3> HIDE DEF D
    <3> QED BY <1>0, <3>1, StepType
  <2> HIDE DEF step
  <2> QED BY <1>00, <2>1 DEF IsRound
<1>2. PICK f : GoesRound(Runs, NewRun, g, f)
  <2> HIDE DEF g
  <2> QED BY <1>1, Rounds, Zenon
<1> DEFINE d == [i \in D |-> f[i]]
<1>3. ASSUME NEW i \in D PROVE d[i] = body(d, i)
  <2>1. CASE i = 0
    <3> HIDE DEF g
    <3> QED BY <1>2, <2>1 DEF GoesRound
  <2>2. CASE i # 0
    <3>1. i - 1 \in Nat /\ i - 1 \in D /\ i \in Nat \ {0}
      BY <1>0, <2>2
    <3>2. f[i - 1] \in Runs /\ f[i] = g[<<i, f[i - 1]>>]
      <4> HIDE DEF g
      <4> QED BY <1>2, <3>1 DEF GoesRound
    <3>3. <<i, f[i - 1]>> \in Nat \X Runs
      BY <3>1, <3>2
    <3>4. f[i] = step(i, f[i - 1])
      <4> HIDE DEF step
      <4> QED BY <3>2, <3>3
    <3>5. f[i] = Step(f[i - 1], t[i])
      <4> HIDE DEF D
      <4> QED BY <2>2, <3>4
    <3> QED BY <2>2, <3>1, <3>5
  <2> QED BY <2>1, <2>2
<1>4. d = [i \in D |-> body(d, i)]
  <2>1. d = [i \in D |-> d[i]]
    OBVIOUS
  <2> HIDE DEF d, body, D
  <2> QED BY <1>3, <2>1, Zenon
<1>5. u = CHOOSE h : h = [i \in D |-> body(h, i)]
  BY DEF Automaton, NewRun, Gap
<1>6. u = [i \in D |-> body(u, i)]
  <2> HIDE DEF d, body, D
  <2> QED BY <1>4, <1>5, Zenon
<1>7. \A i \in D : u[i] = body(u, i)
  BY <1>6, Zenon
<1>8. u[0] = NewRun
  BY <1>0, <1>7
<1>9. ASSUME NEW i \in 1 .. Len(t) PROVE u[i] = Step(u[i - 1], t[i])
  <2>1. i \in D /\ i # 0
    BY <1>0
  <2> HIDE DEF D
  <2> QED BY <1>7, <2>1
<1>10. \A k \in 0 .. Len(t) : u[k] \in Runs
  <2> DEFINE S == {k \in 0 .. Len(t) : u[k] \in Runs}
  <2>1. 0 \in S
    BY <1>0, <1>00, <1>8
  <2>2. ASSUME NEW i \in 0 .. Len(t) - 1, i \in S PROVE i + 1 \in S
    <3>1. i + 1 \in 1 .. Len(t) /\ i + 1 \in D /\ i + 1 # 0 /\ (i + 1) - 1 = i
      BY <1>0
    <3>2. u[i + 1] = Step(u[i], t[i + 1]) /\ t[i + 1] \in Chars
      BY <1>0, <1>9, <3>1
    <3> QED BY <2>2, <3>1, <3>2, StepType
  <2>3. \A k \in 0 .. Len(t) : k \in S
    <3>1. 0 \in Int /\ Len(t) \in Int
      BY <1>0
    <3> HIDE DEF S
    <3> QED BY <2>1, <2>2, <3>1, Climb
  <2> QED BY <2>3 DEF S
<1> QED BY <1>8, <1>9, <1>10

(* The automaton stays in a gap over blanks.                               *)
LEMMA RunOverGap ==
    ASSUME NEW t \in Seq(Chars), NEW u, u = Automaton(t),
           NEW k \in 0 .. Len(t), NEW q \in k .. Len(t), u[k].mode = Gap,
           \A j \in k + 1 .. q : t[j] \in Blank
    PROVE  u[q] = u[k]
<1> DEFINE S == {i \in k .. q : u[i] = u[k]}
<1>0. Len(t) \in Nat /\ k \in Int /\ q \in Int /\ k <= q /\ q <= Len(t) /\ k >= 0
  OBVIOUS
<1>1. k \in S
  BY <1>0
<1>2. ASSUME NEW i \in k .. q - 1, i \in S PROVE i + 1 \in S
  <2>1. /\ i + 1 \in 1 .. Len(t) /\ i + 1 \in k + 1 .. q /\ i + 1 \in k .. q /\ (i + 1) - 1 = i
        /\ i \in 0 .. Len(t)
    BY <1>0
  <2>2. u[i + 1] = Step(u[i], t[i + 1]) /\ u[i] \in Runs /\ t[i + 1] \in Chars
    BY <2>1, AutomatonIs
  <2>3. u[i].mode = Gap /\ t[i + 1] \in Blank
    BY <1>2, <2>1
  <2> QED BY <1>2, <2>1, <2>2, <2>3, StepBlank
<1>3. \A i \in k .. q : i \in S
  <2> HIDE DEF S
  <2> QED BY <1>0, <1>1, <1>2, Climb
<1>4. q \in k .. q
  BY <1>0
<1> QED BY <1>3, <1>4

(* Where the automaton is: in the n-th word, of which it has read w, or    *)
(* after it.                                                               *)
InWordAt(u, k, md, n, w) ==
    u[k].mode = md /\ md # Gap /\ Len(u[k].words) = n /\ u[k].words[n] = w
InGapAt(u, k, n) == u[k].mode = Gap /\ Len(u[k].words) = n

(* It adds the characters of a word to the last one.                       *)
ReadOn(t, u, k, q, md, n, w) ==
    /\ u[q].mode = md /\ Len(u[q].words) = n
    /\ \A i \in 1 .. n - 1 : u[q].words[i] = u[k].words[i]
    /\ Len(u[q].words[n]) = Len(w) + (q - k)
    /\ \A i \in 1 .. Len(w) : u[q].words[n][i] = w[i]
    /\ \A i \in 1 .. q - k : u[q].words[n][Len(w) + i] = t[k + i]

LEMMA RunOverWord ==
    ASSUME NEW t \in Seq(Chars), NEW u, u = Automaton(t),
           NEW k \in 0 .. Len(t), NEW q \in k .. Len(t), NEW md, NEW n, NEW w,
           InWordAt(u, k, md, n, w),
           \A j \in k + 1 .. q : ~Ends(md, t[j])
    PROVE  ReadOn(t, u, k, q, md, n, w)
<1> DEFINE OK(m) == /\ u[m].mode = md /\ Len(u[m].words) = n
                    /\ \A i \in 1 .. n - 1 : u[m].words[i] = u[k].words[i]
                    /\ Len(u[m].words[n]) = Len(w) + (m - k)
                    /\ \A i \in 1 .. Len(w) : u[m].words[n][i] = w[i]
                    /\ \A i \in 1 .. m - k : u[m].words[n][Len(w) + i] = t[k + i]
           S == {m \in k .. q : OK(m)}
<1>0. Len(t) \in Nat /\ k \in Int /\ q \in Int /\ k <= q /\ q <= Len(t) /\ k >= 0
  OBVIOUS
<1>1. u[k] \in Runs /\ n \in Nat /\ n > 0 /\ w \in Seq(Chars) /\ Len(w) \in Nat
  <2>1. u[k] \in Runs
    BY AutomatonIs
  <2>2. u[k].words \in Seq(Seq(Chars)) /\ Len(u[k].words) > 0
    BY <2>1 DEF Runs, InWordAt
  <2> QED BY <2>1, <2>2 DEF InWordAt
<1>2. k \in S
  <2>1. k - k = 0 /\ k \in k .. q /\ Len(w) + 0 = Len(w)
    BY <1>0, <1>1
  <2>2. \A i \in 1 .. 0 : u[k].words[n][Len(w) + i] = t[k + i]
    OBVIOUS
  <2> QED BY <2>1, <2>2 DEF InWordAt
<1>3. ASSUME NEW m \in k .. q - 1, m \in S PROVE m + 1 \in S
  <2>1. /\ m + 1 \in 1 .. Len(t) /\ m + 1 \in k + 1 .. q /\ m + 1 \in k .. q /\ (m + 1) - 1 = m
        /\ m \in 0 .. Len(t)
    BY <1>0
  <2>2. u[m + 1] = Step(u[m], t[m + 1]) /\ u[m] \in Runs /\ t[m + 1] \in Chars
    BY <2>1, AutomatonIs
  <2>3. OK(m)
    BY <1>3
  <2> HIDE DEF S
  <2>4. PICK a, b, c : a = u[m] /\ b = u[m + 1] /\ c = t[m + 1]
    OBVIOUS
  <2>5. a.mode # Gap /\ ~Ends(a.mode, c) /\ Len(a.words) = n /\ a \in Runs /\ c \in Chars
    BY <2>1, <2>2, <2>3, <2>4 DEF InWordAt
  <2>6. /\ b.mode = a.mode /\ Len(b.words) = n
        /\ b.words[n] = Append(a.words[n], c)
        /\ \A i \in 1 .. n - 1 : b.words[i] = a.words[i]
    <3>1. b = Step(a, c) /\ n = Len(a.words)
      BY <2>2, <2>4, <2>5
    <3>2. Adds(a, b, c)
      BY <2>5, <3>1, StepMore
    <3> QED BY <3>1, <3>2 DEF Adds
  <2>7. PICK x \in Seq(Chars), d \in Nat : x = a.words[n] /\ d = m - k /\ Len(x) = Len(w) + d
    <3>1. a.words \in Seq(Seq(Chars)) /\ n \in 1 .. Len(a.words)
      BY <1>1, <2>5 DEF Runs
    <3>2. a.words[n] \in Seq(Chars)
      BY <3>1
    <3>3. m - k \in Nat
      BY <1>0
    <3> QED BY <2>3, <2>4, <3>2, <3>3
  <2>8. /\ \A i \in 1 .. Len(w) : x[i] = w[i]
        /\ \A i \in 1 .. d : x[Len(w) + i] = t[k + i]
    BY <2>3, <2>4, <2>7
  <2>9. PICK y : y = Append(x, c)
    OBVIOUS
  <2>10. /\ Len(y) = Len(w) + (d + 1) /\ y[Len(w) + (d + 1)] = c
         /\ \A i \in 1 .. Len(w) + d : y[i] = x[i]
    <3>1. Len(y) = Len(x) + 1 /\ y[Len(x) + 1] = c /\ \A i \in 1 .. Len(x) : y[i] = x[i]
      BY <2>5, <2>7, <2>9
    <3>2. Len(x) + 1 = Len(w) + (d + 1)
      BY <1>1, <2>7
    <3> QED BY <2>7, <3>1, <3>2
  <2>11. ASSUME NEW i \in 1 .. Len(w) PROVE y[i] = w[i]
    BY <1>1, <2>7, <2>8, <2>10
  <2>12. ASSUME NEW i \in 1 .. d + 1 PROVE y[Len(w) + i] = t[k + i]
    <3>1. CASE i = d + 1
      <4>1. k + i = m + 1
        BY <1>0, <2>7, <3>1
      <4> QED BY <2>4, <2>10, <3>1, <4>1
    <3>2. CASE i # d + 1
      <4>1. i \in 1 .. d /\ Len(w) + i \in 1 .. Len(w) + d
        <5>1. PICK l \in Nat : l = Len(w)
          BY <1>1
        <5>2. i \in 1 .. d /\ l + i \in 1 .. l + d
          BY <3>2
        <5> QED BY <5>1, <5>2
      <4> QED BY <2>8, <2>10, <4>1
    <3> QED BY <3>1, <3>2
  <2>13. d + 1 = (m + 1) - k
    BY <1>0, <2>7
  <2>14. OK(m + 1)
    <3>1. u[m + 1].words[n] = y
      BY <2>4, <2>6, <2>7, <2>9
    <3>2. u[m + 1].mode = md /\ Len(u[m + 1].words) = n
      BY <2>3, <2>4, <2>6
    <3>3. \A i \in 1 .. n - 1 : u[m + 1].words[i] = u[k].words[i]
      BY <2>3, <2>4, <2>6
    <3> QED BY <2>10, <2>11, <2>12, <2>13, <3>1, <3>2, <3>3
  <2> HIDE DEF OK
  <2> QED BY <2>1, <2>14 DEF S
<1>4. \A m \in k .. q : m \in S
  <2> HIDE DEF S
  <2> QED BY <1>0, <1>2, <1>3, Climb
<1>5. OK(q)
  <2>1. q \in k .. q
    BY <1>0
  <2> HIDE DEF OK
  <2> QED BY <1>4, <2>1
<1> QED BY <1>5 DEF ReadOn

(* After a gap no earlier word changes any more.                           *)
Grown(u, k, q, n) ==
    Len(u[q].words) >= n /\ \A i \in 1 .. n : u[q].words[i] = u[k].words[i]

LEMMA WordsGrow ==
    ASSUME NEW t \in Seq(Chars), NEW u, u = Automaton(t),
           NEW k \in 0 .. Len(t), NEW q \in k .. Len(t), NEW n, InGapAt(u, k, n)
    PROVE  Grown(u, k, q, n)
<1> DEFINE OK(m) == /\ Len(u[m].words) >= n /\ \A i \in 1 .. n : u[m].words[i] = u[k].words[i]
                    /\ u[m].mode = Gap \/ Len(u[m].words) > n
           S == {m \in k .. q : OK(m)}
<1>0. Len(t) \in Nat /\ k \in Int /\ q \in Int /\ k <= q /\ q <= Len(t) /\ k >= 0
  OBVIOUS
<1>1. n \in Nat
  <2>1. u[k] \in Runs
    BY AutomatonIs
  <2> QED BY <2>1 DEF Runs, InGapAt
<1>2. k \in S
  BY <1>0, <1>1 DEF InGapAt
<1>3. ASSUME NEW m \in k .. q - 1, m \in S PROVE m + 1 \in S
  <2>1. /\ m + 1 \in 1 .. Len(t) /\ m + 1 \in k .. q /\ (m + 1) - 1 = m /\ m \in 0 .. Len(t)
    BY <1>0
  <2>2. u[m + 1] = Step(u[m], t[m + 1]) /\ u[m] \in Runs /\ t[m + 1] \in Chars
    BY <2>1, AutomatonIs
  <2>3. OK(m)
    BY <1>3
  <2> HIDE DEF S
  <2>4a. PICK a, b, c : a = u[m] /\ b = u[m + 1] /\ c = t[m + 1]
    OBVIOUS
  <2>4b. PICK ws \in Seq(Seq(Chars)), l \in Nat : ws = a.words /\ l = Len(ws)
    BY <2>2, <2>4a DEF Runs
  <2>4. a = u[m] /\ b = u[m + 1] /\ c = t[m + 1] /\ ws = a.words /\ l = Len(ws)
    BY <2>4a, <2>4b
  <2>5. /\ a \in Runs /\ c \in Chars /\ b = Step(a, c) /\ l >= n /\ (a.mode = Gap \/ l > n)
        /\ \A i \in 1 .. n : ws[i] = u[k].words[i]
    BY <2>2, <2>3, <2>4
  <2>6. /\ Len(b.words) >= n /\ (b.mode = Gap \/ Len(b.words) > n)
        /\ \A i \in 1 .. n : b.words[i] = ws[i]
    <3>1. CASE a.mode = Gap /\ c \in Blank
      BY <2>4, <2>5, <3>1, StepBlank
    <3>2. CASE a.mode = Gap /\ c \notin Blank
      <4>0. Starts(a, b, c)
        BY <2>4, <2>5, <3>2, StepStart
      <4>1. PICK w \in Seq(Chars) : b.words = Append(ws, w)
        BY <2>4, <4>0 DEF Starts
      <4>2. Len(Append(ws, w)) = l + 1 /\ \A i \in 1 .. l : Append(ws, w)[i] = ws[i]
        BY <2>4
      <4> QED BY <1>1, <2>5, <4>1, <4>2
    <3>3. CASE a.mode # Gap /\ Ends(a.mode, c)
      BY <2>4, <2>5, <3>3, StepEnd
    <3>4. CASE a.mode # Gap /\ ~Ends(a.mode, c)
      <4>1. Len(b.words) = l /\ \A i \in 1 .. l - 1 : b.words[i] = ws[i]
        <5>1. Adds(a, b, c)
          BY <2>4, <2>5, <3>4, StepMore
        <5> QED BY <2>4, <5>1 DEF Adds
      <4>2. l > n
        BY <2>5, <3>4
      <4> QED BY <1>1, <4>1, <4>2
    <3> QED BY <3>1, <3>2, <3>3, <3>4
  <2>7. OK(m + 1)
    BY <2>4, <2>5, <2>6
  <2> HIDE DEF OK
  <2> QED BY <2>1, <2>7 DEF S
<1>4. \A m \in k .. q : m \in S
  <2> HIDE DEF S
  <2> QED BY <1>0, <1>2, <1>3, Climb
<1>5. OK(q)
  <2>1. q \in k .. q
    BY <1>0
  <2> HIDE DEF OK
  <2> QED BY <1>4, <2>1
<1> QED BY <1>5 DEF Grown

(* The characters from start on up to e are one more word.                 *)
OneMore(t, ws, vs, start, e) ==
    /\ Len(vs) = Len(ws) + 1
    /\ \A i \in 1 .. Len(ws) : vs[i] = ws[i]
    /\ Len(vs[Len(ws) + 1]) = e - start
    /\ \A j \in 1 .. e - start : vs[Len(ws) + 1][j] = t[start + j]

LEMMA ReadWord ==
    ASSUME NEW t \in Seq(Chars), NEW u, u = Automaton(t), NEW p \in 0 .. Len(t) - 1,
           NEW x, InGapAt(u, p, x), t[p + 1] \notin Blank, NEW e \in p + 1 .. Len(t),
           NEW md, md = (IF t[p + 1] = Quote THEN InQuote ELSE InWord),
           NEW start, start = (IF t[p + 1] = Quote THEN p + 1 ELSE p),
           \A j \in p + 2 .. e : ~Ends(md, t[j])
    PROVE  u[e].mode = md /\ OneMore(t, u[p].words, u[e].words, start, e)
<1>0. /\ Len(t) \in Nat /\ p \in Nat /\ p + 1 \in 0 .. Len(t) /\ e \in Nat /\ p + 1 \in 1 .. Len(t)
      /\ (p + 1) - 1 = p /\ p \in 0 .. Len(t) /\ e >= p + 1 /\ e \in (p + 1) .. Len(t)
      /\ (p + 1) + 1 = p + 2
  OBVIOUS
<1>1. PICK c \in Chars : c = t[p + 1]
  BY <1>0
<1>2. u[p] \in Runs /\ u[p + 1] = Step(u[p], c) /\ u[p].mode = Gap
  BY <1>0, <1>1, AutomatonIs DEF InGapAt
<1>3. Starts(u[p], u[p + 1], c)
  BY <1>1, <1>2, StepStart
<1>4. PICK ws \in Seq(Seq(Chars)) : ws = u[p].words
  BY <1>2 DEF Runs
<1>5. PICK w \in Seq(Chars) : /\ w = IF c = Quote THEN <<>> ELSE <<c>>
                              /\ u[p + 1].words = Append(ws, w)
  BY <1>3, <1>4 DEF Starts
<1>6. PICK n \in Nat : n = Len(ws)
  BY <1>4
<1>7. /\ Len(Append(ws, w)) = n + 1 /\ Append(ws, w)[n + 1] = w
      /\ \A i \in 1 .. n : Append(ws, w)[i] = ws[i]
  BY <1>6
<1>8. InWordAt(u, p + 1, md, n + 1, w)
  BY <1>1, <1>3, <1>5, <1>7, ModesDiffer DEF InWordAt, Starts
<1>9. /\ u[e].mode = md /\ Len(u[e].words) = n + 1
      /\ \A i \in 1 .. (n + 1) - 1 : u[e].words[i] = u[p + 1].words[i]
      /\ Len(u[e].words[n + 1]) = Len(w) + (e - (p + 1))
      /\ \A i \in 1 .. Len(w) : u[e].words[n + 1][i] = w[i]
      /\ \A i \in 1 .. e - (p + 1) : u[e].words[n + 1][Len(w) + i] = t[(p + 1) + i]
  <2>1. PICK k \in 0 .. Len(t), m \in Nat : k = p + 1 /\ m = n + 1 /\ e \in k .. Len(t)
    BY <1>0
  <2>2. \A j \in k + 1 .. e : ~Ends(md, t[j])
    BY <1>0, <2>1
  <2>3. InWordAt(u, k, md, m, w)
    BY <1>8, <2>1
  <2>4. ReadOn(t, u, k, e, md, m, w)
    BY <2>1, <2>2, <2>3, RunOverWord
  <2> QED BY <2>1, <2>4 DEF ReadOn
<1>10. PICK vs, v : vs = u[e].words /\ v = vs[n + 1]
  OBVIOUS
<1>11. Len(vs) = n + 1 /\ \A i \in 1 .. n : vs[i] = ws[i]
  <2>1. (n + 1) - 1 = n
    OBVIOUS
  <2> QED BY <1>5, <1>7, <1>9, <1>10, <2>1
<1>12. CASE c = Quote
  <2>1. Len(w) = 0
    BY <1>5, <1>12
  <2>2. Len(v) = e - (p + 1) /\ \A i \in 1 .. e - (p + 1) : v[i] = t[(p + 1) + i]
    <3>1. \A i \in 1 .. e - (p + 1) : 0 + i = i
      OBVIOUS
    <3>2. 0 + (e - (p + 1)) = e - (p + 1)
      BY <1>0
    <3> QED BY <1>9, <1>10, <2>1, <3>1, <3>2
  <2>3. OneMore(t, ws, vs, p + 1, e)
    BY <1>6, <1>10, <1>11, <2>2 DEF OneMore
  <2> QED BY <1>1, <1>4, <1>9, <1>10, <1>12, <2>3
<1>13. CASE c # Quote
  <2>1. Len(w) = 1 /\ w[1] = c
    BY <1>5, <1>13
  <2>2. Len(v) = e - p
    BY <1>0, <1>9, <1>10, <2>1
  <2>3. ASSUME NEW j \in 1 .. e - p PROVE v[j] = t[p + j]
    <3>1. CASE j = 1
      BY <1>1, <1>9, <1>10, <2>1, <3>1
    <3>2. CASE j # 1
      <4>1. PICK i \in 1 .. e - (p + 1) : j = 1 + i
        <5>1. j - 1 \in 1 .. e - (p + 1) /\ j = 1 + (j - 1)
          BY <1>0, <3>2
        <5> QED BY <5>1
      <4>2. (p + 1) + i = p + j
        BY <1>0, <4>1
      <4>3. v[1 + i] = t[(p + 1) + i]
        BY <1>9, <1>10, <2>1
      <4> QED BY <4>1, <4>2, <4>3
    <3> QED BY <3>1, <3>2
  <2>4. OneMore(t, ws, vs, p, e)
    BY <1>6, <1>10, <1>11, <2>2, <2>3 DEF OneMore
  <2> QED BY <1>1, <1>4, <1>9, <1>10, <1>13, <2>4
<1> QED BY <1>12, <1>13

Reads(t, u, p, e, md, start) ==
    /\ t \in Seq(Chars) /\ u = Automaton(t) /\ p \in 0 .. Len(t) - 1 /\ e \in p + 1 .. Len(t)
    /\ (\E x : InGapAt(u, p, x)) /\ t[p + 1] \notin Blank
    /\ md = (IF t[p + 1] = Quote THEN InQuote ELSE InWord)
    /\ start = (IF t[p + 1] = Quote THEN p + 1 ELSE p)
    /\ \A j \in p + 2 .. e : ~Ends(md, t[j])

LEMMA Reading ==
    ASSUME NEW t, NEW u, NEW p, NEW e, NEW md, NEW start, Reads(t, u, p, e, md, start)
    PROVE  u[e].mode = md /\ OneMore(t, u[p].words, u[e].words, start, e)
<1>1. /\ t \in Seq(Chars) /\ u = Automaton(t) /\ p \in 0 .. Len(t) - 1 /\ e \in p + 1 .. Len(t)
      /\ t[p + 1] \notin Blank
      /\ md = (IF t[p + 1] = Quote THEN InQuote ELSE InWord)
      /\ start = (IF t[p + 1] = Quote THEN p + 1 ELSE p)
      /\ \A j \in p + 2 .. e : ~Ends(md, t[j])
  BY DEF Reads
<1>2. PICK x : InGapAt(u, p, x)
  BY DEF Reads
<1> QED BY <1>1, <1>2, ReadWord

(* The string w is at the offset p of the buffer l.                        *)
Nul == "nul"
Holds(l, p, w) ==
    /\ p \in Nat /\ w \in Seq(Chars) /\ p + Len(w) \in Offsets
    /\ l[p + Len(w)] = Nul
    /\ \A j \in 1 .. Len(w) : l[p + j - 1] = w[j] /\ w[j] # Nul

LEMMA NulIs == Nul \in Chars /\ Nul \notin Blank /\ Quote \notin Blank /\ Nul # Quote
               /\ \A c \in Typed : c # Nul /\ c \in Chars
BY TypedAre DEF Nul, Quote, Blank

LEMMA StrIs ==
    ASSUME NEW p, NEW w, Holds(line, p, w)
    PROVE  Str(p) = w
<1>1. /\ p \in Nat /\ w \in Seq(Chars) /\ Len(w) \in Nat /\ p + Len(w) \in Offsets
      /\ line[p + Len(w)] = Nul
      /\ \A j \in 1 .. Len(w) : line[p + j - 1] = w[j] /\ w[j] # Nul
  BY DEF Holds
<1>2. PICK n \in Nat : n = Len(w)
  BY <1>1
<1>3. PICK q : q = Scan(line, p, {Nul})
  OBVIOUS
<1>4. q \in Offsets /\ q >= p /\ q <= p + n /\ line[q] \in {Nul}
  <2>1. p <= p + n /\ p + n \in Offsets /\ line[p + n] \in {Nul}
    BY <1>1, <1>2
  <2> QED BY <1>1, <1>3, <2>1, ScanIs
<1>5. q = p + n
  <2>1. SUFFICES ASSUME q # p + n PROVE FALSE
    OBVIOUS
  <2>2. q \in Int
    BY <1>4, Sizes
  <2>3. PICK j \in 1 .. n : p + j - 1 = q
    <3>1. q - p + 1 \in 1 .. n /\ p + (q - p + 1) - 1 = q
      BY <1>1, <1>4, <2>1, <2>2
    <3> QED BY <3>1
  <2> QED BY <1>1, <1>2, <1>4, <2>3
<1>6. Str(p) = [i \in 1 .. n |-> line[p + i - 1]]
  <2>1. q - p = n
    BY <1>1, <1>5
  <2> QED BY <1>3, <2>1 DEF Str, Nul
<1>7. w = [i \in 1 .. n |-> w[i]]
  BY <1>1, <1>2
<1> QED BY <1>1, <1>2, <1>6, <1>7

(* How far parse_line is: up to the offset p of the buffer l the text t is *)
(* cut into the words that the automaton has seen, from there on up to its *)
(* end it is untouched.                                                    *)
WordsHeld(l, p, av, ws) ==
    /\ Len(av) = Len(ws) /\ Len(av) <= MAX_ARGS /\ av \in Seq(Nat)
    /\ \A i \in 1 .. Len(av) : Holds(l, av[i], ws[i]) /\ av[i] + Len(ws[i]) <= p
Untouched(l, p, t, m) ==
    /\ p \in 0 .. m /\ l[m] = Nul
    /\ \A q \in p .. m - 1 : l[q] = t[q + 1]
Ready(p, t, m, u) == p < m => u[p].mode = Gap /\ t[p + 1] \notin Blank
Progress(l, p, av, t) ==
    /\ TextEnd(t) > 0
    /\ Untouched(l, p, t, TextEnd(t))
    /\ Ready(p, t, TextEnd(t), Automaton(t))
    /\ WordsHeld(l, p, av, Automaton(t)[p].words)

(* A word that is cut off is one more argument.                            *)
OnlyCut(l, k, e, next) ==
    (\A q \in Offsets : q \notin e .. next - 1 => k[q] = l[q]) /\ k[e] = Nul

LEMMA ArgumentHeld ==
    ASSUME NEW l, NEW k, NEW p \in Nat, NEW m \in Offsets, p < m, NEW t \in Seq(Typed), m <= Len(t),
           NEW av, NEW ws \in Seq(Seq(Chars)), NEW vs \in Seq(Seq(Chars)),
           WordsHeld(l, p, av, ws), Len(av) < MAX_ARGS, Untouched(l, p, t, m),
           NEW start \in p .. m, NEW e \in start .. m, NEW next \in e .. m,
           OneMore(t, ws, vs, start, e), OnlyCut(l, k, e, next)
    PROVE  WordsHeld(k, next, Append(av, start), vs) /\ Untouched(k, next, t, m)
<1>01. (\A q \in Offsets : q \notin e .. next - 1 => k[q] = l[q]) /\ k[e] = Nul
  BY DEF OnlyCut
<1> USE <1>01
<1>0. /\ Offsets = 0 .. LINE - 1 /\ LINE \in Nat /\ MAX_ARGS \in Nat /\ Len(t) \in Nat
      /\ m \in Nat /\ start \in Nat /\ e \in Nat /\ next \in Nat
      /\ p <= start /\ start <= e /\ e <= next /\ next <= m
  BY Sizes
<1>1. /\ l[m] = Nul /\ \A q \in p .. m - 1 : l[q] = t[q + 1]
  BY DEF Untouched
<1>2. ASSUME NEW q \in p .. m - 1 PROVE q \in Offsets /\ l[q] = t[q + 1] /\ t[q + 1] \in Typed
  BY <1>0, <1>1
<1>3. Untouched(k, next, t, m)
  <2>1. k[m] = Nul
    <3>1. m \notin e .. next - 1
      BY <1>0
    <3> QED BY <1>1, <3>1
  <2>2. ASSUME NEW q \in next .. m - 1 PROVE k[q] = t[q + 1]
    <3>1. q \in p .. m - 1 /\ q \notin e .. next - 1
      BY <1>0
    <3> QED BY <1>2, <3>1
  <2>3. next \in 0 .. m
    BY <1>0
  <2> QED BY <2>1, <2>2, <2>3 DEF Untouched
<1>4. PICK n \in Nat : /\ n = Len(av) /\ n = Len(ws) /\ n < MAX_ARGS /\ av \in Seq(Nat)
                       /\ \A i \in 1 .. n : Holds(l, av[i], ws[i]) /\ av[i] + Len(ws[i]) <= p
  <2>1. av \in Seq(Nat) /\ Len(av) \in Nat
    BY DEF WordsHeld
  <2> QED BY <2>1 DEF WordsHeld
<1>5. PICK w \in Seq(Chars) : /\ w = vs[n + 1] /\ Len(vs) = n + 1 /\ Len(w) = e - start
                              /\ \A i \in 1 .. n : vs[i] = ws[i]
                              /\ \A j \in 1 .. e - start : w[j] = t[start + j]
  <2>1. Len(vs) = n + 1
    BY <1>4 DEF OneMore
  <2>2. vs[n + 1] \in Seq(Chars)
    BY <1>4, <2>1
  <2> QED BY <1>4, <2>1, <2>2 DEF OneMore
<1>6. Holds(k, start, w) /\ start + Len(w) <= next
  <2>1. start + Len(w) = e /\ Len(w) \in Nat
    BY <1>0, <1>5
  <2>2. e \in Offsets
    BY <1>0
  <2>3. ASSUME NEW j \in 1 .. Len(w) PROVE k[start + j - 1] = w[j] /\ w[j] # Nul
    <3>1. PICK q \in Int : q = start + j - 1
      BY <1>0
    <3>2. q \in p .. m - 1 /\ q \notin e .. next - 1 /\ q + 1 = start + j /\ j \in 1 .. e - start
      BY <1>0, <1>5, <3>1
    <3>3. k[q] = t[q + 1] /\ t[q + 1] # Nul
      BY <1>2, <3>2, NulIs
    <3> QED BY <1>5, <3>1, <3>2, <3>3
  <2> QED BY <1>0, <2>1, <2>2, <2>3 DEF Holds
<1>7. ASSUME NEW i \in 1 .. n PROVE Holds(k, av[i], ws[i]) /\ av[i] + Len(ws[i]) <= next
  <2>1. PICK o \in Nat, v \in Seq(Chars) :
          /\ o = av[i] /\ v = ws[i] /\ o + Len(v) <= p /\ o + Len(v) \in Offsets
          /\ l[o + Len(v)] = Nul
          /\ \A j \in 1 .. Len(v) : l[o + j - 1] = v[j] /\ v[j] # Nul
    BY <1>4 DEF Holds
  <2>2. PICK d \in Nat : d = Len(v)
    BY <2>1
  <2>3. o + d < p
    <3>1. p \in p .. m - 1
      BY <1>0
    <3>2. l[p] # Nul
      BY <1>2, <3>1, NulIs
    <3> QED BY <1>0, <2>1, <2>2, <3>2
  <2>4. k[o + d] = Nul
    <3>1. o + d \notin e .. next - 1
      BY <1>0, <2>3
    <3> QED BY <2>1, <2>2, <3>1
  <2>5. ASSUME NEW j \in 1 .. d PROVE k[o + j - 1] = v[j] /\ v[j] # Nul
    <3>1. o + j - 1 \in Offsets /\ o + j - 1 \notin e .. next - 1
      BY <1>0, <2>3
    <3> QED BY <2>1, <2>2, <3>1
  <2>6. Holds(k, o, v)
    BY <2>1, <2>2, <2>4, <2>5 DEF Holds
  <2>7. o + d <= next
    BY <1>0, <2>3
  <2> QED BY <2>1, <2>2, <2>6, <2>7
<1>8. PICK aw : aw = Append(av, start)
  OBVIOUS
<1>9. /\ aw \in Seq(Nat) /\ Len(aw) = n + 1 /\ aw[n + 1] = start
      /\ \A i \in 1 .. n : aw[i] = av[i]
  <2>1. av \in Seq(Nat) /\ start \in Nat /\ n = Len(av)
    BY <1>0, <1>4
  <2> QED BY <1>8, <2>1
<1>10. ASSUME NEW i \in 1 .. n + 1 PROVE Holds(k, aw[i], vs[i]) /\ aw[i] + Len(vs[i]) <= next
  <2>1. CASE i = n + 1
    BY <1>5, <1>6, <1>9, <2>1
  <2>2. CASE i # n + 1
    <3>1. i \in 1 .. n
      BY <2>2
    <3> QED BY <1>5, <1>7, <1>9, <3>1
  <2> QED BY <2>1, <2>2
<1>11. WordsHeld(k, next, aw, vs)
  <2>1. n + 1 <= MAX_ARGS
    BY <1>0, <1>4
  <2> QED BY <1>5, <1>9, <1>10, <2>1 DEF WordsHeld
<1> QED BY <1>3, <1>8, <1>11

LEMMA ZeroIs ==
    ASSUME NEW l, NEW S, NEW q \in Offsets
    PROVE  Zero(l, S)[q] = IF q \in S THEN Nul ELSE l[q]
BY DEF Zero, Nul

(* The state in which one more argument is cut off.                        *)
LEMMA AtWord ==
    ASSUME NEW l, NEW p, NEW av, NEW t \in Seq(Typed), Len(t) <= LINE - 1,
           Progress(l, p, av, t), l[p] # Nul, NEW m, m = TextEnd(t), NEW u, u = Automaton(t)
    PROVE  /\ p \in Nat /\ m \in Nat /\ m \in Offsets /\ p < m /\ m <= Len(t) /\ Len(t) \in Nat
           /\ t \in Seq(Chars) /\ t[m] \notin Blank /\ l[m] = Nul
           /\ u[p].mode = Gap /\ t[p + 1] \notin Blank
           /\ Untouched(l, p, t, m) /\ WordsHeld(l, p, av, u[p].words)
           /\ \A q \in 0 .. Len(t) : u[q] \in Runs
           /\ \A q \in p .. m - 1 : l[q] = t[q + 1] /\ l[q] # Nul /\ q \in Offsets
<1>1. t \in Seq(Chars) /\ Len(t) \in Nat /\ \A i \in 1 .. Len(t) : t[i] # Nul
  BY NulIs
<1>2. /\ m \in 0 .. Len(t) /\ (m = 0 \/ t[m] \notin Blank) /\ m > 0
      /\ Untouched(l, p, t, m) /\ Ready(p, t, m, u) /\ WordsHeld(l, p, av, u[p].words)
  <2>1. m \in 0 .. Len(t) /\ (m = 0 \/ t[m] \notin Blank)
    BY TextEndIs
  <2> QED BY <2>1 DEF Progress
<1>3. p \in 0 .. m /\ l[m] = Nul /\ \A q \in p .. m - 1 : l[q] = t[q + 1]
  BY <1>2 DEF Untouched
<1>4. p # m
  BY <1>3
<1>5. p \in Nat /\ m \in Nat /\ p < m /\ m \in Offsets /\ m # 0
  BY <1>1, <1>2, <1>3, <1>4, Sizes
<1>6. ASSUME NEW q \in p .. m - 1 PROVE l[q] = t[q + 1] /\ l[q] # Nul /\ q \in Offsets
  <2>1. q + 1 \in 1 .. Len(t)
    BY <1>1, <1>2, <1>5
  <2>2. q \in Offsets
    BY <1>5, Sizes
  <2> QED BY <1>1, <1>3, <2>1, <2>2
<1>7. \A q \in 0 .. Len(t) : u[q] \in Runs
  BY <1>1, AutomatonIs
<1> QED BY <1>1, <1>2, <1>3, <1>5, <1>6, <1>7 DEF Ready

(* An argument that has been read up to e, with the offset next after the  *)
(* blanks that follow.                                                     *)
LEMMA ArgumentCut ==
    ASSUME NEW l, NEW k, NEW p, NEW av, NEW t \in Seq(Typed), Len(t) <= LINE - 1,
           Progress(l, p, av, t), l[p] # Nul, Len(av) < MAX_ARGS,
           NEW m, m = TextEnd(t), NEW u, u = Automaton(t),
           NEW start \in p .. m, NEW e \in start .. m, NEW next \in e .. m,
           OneMore(t, u[p].words, u[e].words, start, e), u[next].words = u[e].words,
           Ready(next, t, m, u), OnlyCut(l, k, e, next)
    PROVE  Progress(k, next, Append(av, start), t)
<1>1. /\ p \in Nat /\ m \in Nat /\ m \in Offsets /\ p < m /\ m <= Len(t) /\ Len(t) \in Nat
      /\ Untouched(l, p, t, m) /\ WordsHeld(l, p, av, u[p].words)
      /\ \A q \in 0 .. Len(t) : u[q] \in Runs
  BY AtWord
<1>2. PICK ws \in Seq(Seq(Chars)), vs \in Seq(Seq(Chars)) : ws = u[p].words /\ vs = u[e].words
  <2>1. p \in 0 .. Len(t) /\ e \in 0 .. Len(t)
    BY <1>1
  <2>2. u[p] \in Runs /\ u[e] \in Runs
    BY <1>1, <2>1
  <2> QED BY <2>2 DEF Runs
<1>3. WordsHeld(l, p, av, ws) /\ OneMore(t, ws, vs, start, e)
  BY <1>1, <1>2
<1>4. WordsHeld(k, next, Append(av, start), vs) /\ Untouched(k, next, t, m)
  <2>1. p \in Nat /\ m \in Offsets /\ p < m /\ m <= Len(t) /\ Untouched(l, p, t, m)
    BY <1>1
  <2> QED BY <1>3, <2>1, ArgumentHeld, SMTT(30)
<1> QED BY <1>1, <1>2, <1>4 DEF Progress

LEMMA CutPlain ==
    ASSUME NEW l \in [Offsets -> Chars], NEW p, NEW av, NEW t \in Seq(Typed), Len(t) <= LINE - 1,
           Progress(l, p, av, t), l[p] # Nul, l[p] # Quote, Len(av) < MAX_ARGS,
           NEW e, e = Scan(l, p, {Nul} \cup Blank),
           NEW next, next = SkipBlank(l, e),
           NEW k, k = Zero(l, e .. next - 1)
    PROVE  Progress(k, next, Append(av, p), t)
<1>1. PICK m, u : m = TextEnd(t) /\ u = Automaton(t)
  OBVIOUS
<1>2. /\ p \in Nat /\ m \in Nat /\ m \in Offsets /\ p < m /\ m <= Len(t) /\ Len(t) \in Nat
      /\ t \in Seq(Chars) /\ t[m] \notin Blank /\ l[m] = Nul
      /\ u[p].mode = Gap /\ t[p + 1] \notin Blank
      /\ \A q \in 0 .. Len(t) : u[q] \in Runs
      /\ \A q \in p .. m - 1 : l[q] = t[q + 1] /\ l[q] # Nul /\ q \in Offsets
  BY <1>1, AtWord
<1>3. /\ e \in Offsets /\ e >= p /\ e <= m /\ l[e] \in {Nul} \cup Blank
      /\ \A r \in p .. e - 1 : l[r] \notin {Nul} \cup Blank
  <2>1. PICK stop : stop = {Nul} \cup Blank
    OBVIOUS
  <2>2. p \in Nat /\ m \in Offsets /\ p <= m /\ l[m] \in stop /\ e = Scan(l, p, stop)
    BY <1>2, <2>1
  <2>3. /\ e \in Offsets /\ e >= p /\ e <= m /\ l[e] \in stop
        /\ \A r \in p .. e - 1 : l[r] \notin stop
    BY <2>2, ScanIs
  <2> QED BY <2>1, <2>3
<1>4. l[p] = t[p + 1] /\ e # p /\ e \in Nat
  <2>1. p \in p .. m - 1
    BY <1>2
  <2>2. l[p] = t[p + 1]
    BY <1>2, <2>1
  <2> QED BY <1>2, <1>3, <2>2, Sizes
<1>5. u[e].mode = InWord /\ OneMore(t, u[p].words, u[e].words, p, e)
  <2>1. p \in 0 .. Len(t) - 1 /\ e \in p + 1 .. Len(t)
    BY <1>2, <1>3, <1>4
  <2>2. PICK x : InGapAt(u, p, x)
    BY <1>2 DEF InGapAt
  <2>3. InWord = IF t[p + 1] = Quote THEN InQuote ELSE InWord
    BY <1>4
  <2>4. ASSUME NEW j \in p + 2 .. e PROVE ~Ends(InWord, t[j])
    <3>1. j - 1 \in p .. e - 1 /\ j - 1 \in p .. m - 1 /\ (j - 1) + 1 = j
      BY <1>2, <1>3, <1>4
    <3>2. t[j] = l[j - 1]
      BY <1>2, <3>1
    <3>3. t[j] \notin Blank
      BY <1>3, <3>1, <3>2
    <3> QED BY <3>3 DEF Ends, InWord
  <2>5. p = (IF t[p + 1] = Quote THEN p + 1 ELSE p) /\ t \in Seq(Chars) /\ t[p + 1] \notin Blank
    BY <1>2, <1>4
  <2>6. PICK md, start : md = InWord /\ start = p
    OBVIOUS
  <2>7. /\ md = (IF t[p + 1] = Quote THEN InQuote ELSE InWord)
        /\ start = (IF t[p + 1] = Quote THEN p + 1 ELSE p)
        /\ \A j \in p + 2 .. e : ~Ends(md, t[j])
    BY <2>3, <2>4, <2>5, <2>6
  <2>8. u[e].mode = md /\ OneMore(t, u[p].words, u[e].words, start, e)
    <3>1. Reads(t, u, p, e, md, start)
      BY <1>1, <2>1, <2>2, <2>5, <2>7 DEF Reads
    <3> QED BY <3>1, Reading
  <2> QED BY <2>6, <2>8
<1>6. CASE l[e] \notin Blank
  <2>1. e = m
    <3>1. l[e] = Nul
      BY <1>3, <1>6
    <3>2. e \notin p .. m - 1
      BY <1>2, <3>1
    <3> QED BY <1>2, <1>3, <1>4, <3>2
  <2>2. next = e
    <3>1. next \in Offsets /\ next >= e /\ next <= e
      BY <1>3, <1>4, <1>6, SkipIs
    <3> QED BY <1>4, <3>1, Sizes
  <2>3. OnlyCut(l, k, e, next)
    <3>1. e \notin e .. next - 1 /\ l[e] = Nul /\ e \in Offsets
      BY <1>2, <1>3, <1>4, <2>1, <2>2
    <3>2. \A q \in Offsets : k[q] = IF q \in e .. next - 1 THEN Nul ELSE l[q]
      <4>1. PICK S : S = e .. next - 1
        OBVIOUS
      <4>2. k = Zero(l, S)
        BY <4>1
      <4>3. \A q \in Offsets : k[q] = IF q \in S THEN Nul ELSE l[q]
        BY <4>2, ZeroIs
      <4> QED BY <4>1, <4>3
    <3> QED BY <3>1, <3>2 DEF OnlyCut
  <2>4. Ready(next, t, m, u) /\ u[next].words = u[e].words
    BY <1>2, <2>1, <2>2 DEF Ready
  <2>5. p \in p .. m /\ e \in p .. m /\ next \in e .. m
    BY <1>2, <1>3, <1>4, <2>1, <2>2
  <2> QED BY <1>1, <1>5, <2>2, <2>3, <2>4, <2>5, ArgumentCut
<1>7. CASE l[e] \in Blank
  <2>1. e < m
    BY <1>2, <1>3, <1>4, <1>7, NulIs
  <2>2. l[m - 1] \notin Blank /\ m - 1 \in Offsets /\ e <= m - 1
    <3>1. m - 1 \in p .. m - 1 /\ (m - 1) + 1 = m
      BY <1>2
    <3> QED BY <1>2, <1>4, <2>1, <3>1
  <2>3. /\ next \in Offsets /\ next >= e /\ next <= m - 1 /\ l[next] \notin Blank
        /\ \A r \in e .. next - 1 : l[r] \in Blank
    BY <1>4, <2>2, SkipIs
  <2>4. next \in Nat /\ next > e
    <3>1. next \in Nat /\ next # e
      BY <1>7, <2>3, Sizes
    <3> QED BY <1>4, <2>3, <3>1
  <2>5. u[e + 1].mode = Gap /\ u[e + 1].words = u[e].words
    <3>0. PICK x \in Nat, len \in Nat : x = e /\ len = Len(t) /\ x >= p /\ x < m /\ m <= len
      BY <1>2, <1>3, <1>4, <2>1
    <3>01. x + 1 \in 1 .. len /\ (x + 1) - 1 = x /\ x \in 0 .. len /\ x \in p .. m - 1
      BY <1>2, <3>0
    <3>1. e + 1 \in 1 .. Len(t) /\ (e + 1) - 1 = e /\ e \in 0 .. Len(t) /\ e \in p .. m - 1
      BY <3>0, <3>01
    <3>2. u[e + 1] = Step(u[e], t[e + 1]) /\ t[e + 1] \in Chars /\ u[e] \in Runs
      BY <1>1, <1>2, <3>1, AutomatonIs
    <3>3. t[e + 1] = l[e]
      BY <1>2, <3>1
    <3>4. Ends(u[e].mode, t[e + 1]) /\ u[e].mode # Gap
      BY <1>5, <1>7, <3>3, ModesDiffer DEF Ends, InWord
    <3> QED BY <3>2, <3>4, StepEnd
  <2>6. u[next] = u[e + 1]
    <3>1. e + 1 \in 0 .. Len(t) /\ next \in e + 1 .. Len(t)
      BY <1>2, <1>4, <2>3, <2>4
    <3>2. ASSUME NEW j \in (e + 1) + 1 .. next PROVE t[j] \in Blank
      <4>0. /\ p \in Nat /\ m \in Nat /\ e \in Nat /\ next \in Nat
            /\ e >= p /\ next > e /\ next <= m - 1
        BY <1>2, <1>3, <1>4, <2>3, <2>4
      <4>1. j - 1 \in e .. next - 1 /\ j - 1 \in p .. m - 1 /\ (j - 1) + 1 = j
        BY <4>0
      <4> QED BY <1>2, <2>3, <4>1
    <3>3. PICK x \in 0 .. Len(t) : x = e + 1
      BY <3>1
    <3>4. u[x].mode = Gap /\ t \in Seq(Chars) /\ next \in x .. Len(t)
      BY <1>2, <2>5, <3>1, <3>3
    <3>5. \A j \in x + 1 .. next : t[j] \in Blank
      BY <3>2, <3>3
    <3>6. u[next] = u[x]
      BY <1>1, <3>4, <3>5, RunOverGap
    <3> QED BY <3>3, <3>6
  <2>7. Ready(next, t, m, u)
    <3>1. next \in p .. m - 1
      BY <1>2, <1>3, <1>4, <2>3, <2>4
    <3>2. t[next + 1] \notin Blank
      BY <1>2, <2>3, <3>1
    <3> QED BY <2>5, <2>6, <3>2 DEF Ready
  <2>8. OnlyCut(l, k, e, next)
    <3>1. e \in e .. next - 1 /\ e \in Offsets
      BY <1>3, <1>4, <2>4
    <3>2. \A q \in Offsets : k[q] = IF q \in e .. next - 1 THEN Nul ELSE l[q]
      <4>1. PICK S : S = e .. next - 1
        OBVIOUS
      <4>2. k = Zero(l, S)
        BY <4>1
      <4>3. \A q \in Offsets : k[q] = IF q \in S THEN Nul ELSE l[q]
        BY <4>2, ZeroIs
      <4> QED BY <4>1, <4>3
    <3> QED BY <3>1, <3>2 DEF OnlyCut
  <2>9. p \in p .. m /\ e \in p .. m /\ next \in e .. m
    BY <1>2, <1>3, <1>4, <2>3, <2>4
  <2>10. u[next].words = u[e].words
    BY <2>5, <2>6
  <2> QED BY <1>1, <1>5, <2>7, <2>8, <2>9, <2>10, ArgumentCut
<1> QED BY <1>6, <1>7

(* A quoted argument up to its closing quote or the end of the text.       *)
QuotedRead(l, p, t, m, u, e) ==
    /\ e \in Offsets /\ e \in Nat /\ e \in p + 1 .. m /\ (l[e] = Nul \/ l[e] = Quote)
    /\ l[e] = Nul <=> e = m
    /\ u[e].mode = InQuote /\ OneMore(t, u[p].words, u[e].words, p + 1, e)

LEMMA ReadQuoted ==
    ASSUME NEW l \in [Offsets -> Chars], NEW p, NEW av, NEW t \in Seq(Typed), Len(t) <= LINE - 1,
           Progress(l, p, av, t), l[p] = Quote,
           NEW m, m = TextEnd(t), NEW u, u = Automaton(t),
           NEW e, e = Scan(l, p + 1, {Nul} \cup {Quote})
    PROVE  QuotedRead(l, p, t, m, u, e)
<1>2. /\ p \in Nat /\ m \in Nat /\ m \in Offsets /\ p < m /\ m <= Len(t) /\ Len(t) \in Nat
      /\ t \in Seq(Chars) /\ t[m] \notin Blank /\ l[m] = Nul
      /\ u[p].mode = Gap /\ t[p + 1] \notin Blank
      /\ \A q \in p .. m - 1 : l[q] = t[q + 1] /\ l[q] # Nul /\ q \in Offsets
  BY AtWord, NulIs
<1>3. /\ e \in Offsets /\ e >= p + 1 /\ e <= m /\ l[e] \in {Nul} \cup {Quote}
      /\ \A r \in p + 1 .. e - 1 : l[r] \notin {Nul} \cup {Quote}
  <2>1. PICK stop : stop = {Nul} \cup {Quote}
    OBVIOUS
  <2>2. PICK o \in Nat : o = p + 1 /\ o <= m
    BY <1>2
  <2>3. o \in Nat /\ m \in Offsets /\ o <= m /\ l[m] \in stop /\ e = Scan(l, o, stop)
    BY <1>2, <2>1, <2>2
  <2>4. /\ e \in Offsets /\ e >= o /\ e <= m /\ l[e] \in stop
        /\ \A r \in o .. e - 1 : l[r] \notin stop
    BY <2>3, ScanIs
  <2> QED BY <2>1, <2>2, <2>4
<1>4. e \in Nat /\ e \in p + 1 .. m
  BY <1>2, <1>3, Sizes
<1>5. l[e] = Nul <=> e = m
  <2>1. ASSUME l[e] = Nul PROVE e = m
    <3>1. e \notin p .. m - 1
      BY <1>2, <2>1
    <3> QED BY <1>2, <1>4, <3>1
  <2> QED BY <1>2, <2>1
<1>6. l[p] = t[p + 1]
  <2>1. p \in p .. m - 1
    BY <1>2
  <2> QED BY <1>2, <2>1
<1>7. u[e].mode = InQuote /\ OneMore(t, u[p].words, u[e].words, p + 1, e)
  <2>1. p \in 0 .. Len(t) - 1 /\ e \in p + 1 .. Len(t)
    BY <1>2, <1>4
  <2>2. PICK x : InGapAt(u, p, x)
    BY <1>2 DEF InGapAt
  <2>3. PICK md, start : md = InQuote /\ start = p + 1
    OBVIOUS
  <2>4. ASSUME NEW j \in p + 2 .. e PROVE ~Ends(md, t[j])
    <3>1. j - 1 \in p + 1 .. e - 1 /\ j - 1 \in p .. m - 1 /\ (j - 1) + 1 = j
      BY <1>2, <1>4
    <3>2. t[j] = l[j - 1] /\ t[j] # Quote
      BY <1>2, <1>3, <3>1
    <3> QED BY <2>3, <3>2 DEF Ends, InQuote, Quote
  <2>5. /\ md = (IF t[p + 1] = Quote THEN InQuote ELSE InWord)
        /\ start = (IF t[p + 1] = Quote THEN p + 1 ELSE p)
    BY <1>6, <2>3
  <2>6. Reads(t, u, p, e, md, start)
    BY <1>2, <2>1, <2>2, <2>4, <2>5 DEF Reads
  <2>7. u[e].mode = md /\ OneMore(t, u[p].words, u[e].words, start, e)
    BY <2>6, Reading
  <2> QED BY <2>3, <2>7
<1> QED BY <1>3, <1>4, <1>5, <1>7 DEF QuotedRead

LEMMA CutOpen ==
    ASSUME NEW l \in [Offsets -> Chars], NEW p, NEW av, NEW t \in Seq(Typed), Len(t) <= LINE - 1,
           Progress(l, p, av, t), l[p] = Quote, Len(av) < MAX_ARGS,
           NEW e, e = Scan(l, p + 1, {Nul} \cup {Quote}), l[e] # Quote,
           NEW next, next = SkipBlank(l, e),
           NEW k, k = Zero(l, e .. next - 1)
    PROVE  Progress(k, next, Append(av, p + 1), t)
<1>0. PICK m, u : m = TextEnd(t) /\ u = Automaton(t)
  OBVIOUS
<1>1. /\ e \in Offsets /\ e \in Nat /\ e \in p + 1 .. m /\ l[e] = Nul /\ e = m
      /\ OneMore(t, u[p].words, u[e].words, p + 1, e)
  <2>1. QuotedRead(l, p, t, m, u, e)
    BY <1>0, ReadQuoted
  <2> QED BY <2>1 DEF QuotedRead
<1>2. next = e
  <2>1. l[e] \notin Blank
    BY <1>1, NulIs
  <2>2. next \in Offsets /\ next >= e /\ next <= e
    BY <1>1, <2>1, SkipIs
  <2> QED BY <1>1, <2>2, Sizes
<1>3. OnlyCut(l, k, e, next)
  <2>1. PICK S : S = e .. next - 1
    OBVIOUS
  <2>2. k = Zero(l, S) /\ e \notin S
    BY <1>1, <1>2, <2>1
  <2>3. \A q \in Offsets : k[q] = IF q \in S THEN Nul ELSE l[q]
    BY <2>2, ZeroIs
  <2> QED BY <1>1, <2>1, <2>2, <2>3 DEF OnlyCut
<1>4. l[p] # Nul /\ p \in Nat
  BY <1>0, NulIs, AtWord
<1>5. PICK start : start = p + 1
  OBVIOUS
<1>6. Ready(next, t, m, u) /\ u[next].words = u[e].words
  BY <1>1, <1>2 DEF Ready
<1>7. start \in p .. m /\ e \in start .. m /\ next \in e .. m
  BY <1>1, <1>2, <1>4, <1>5
<1>8. OneMore(t, u[p].words, u[e].words, start, e)
  BY <1>1, <1>5
<1>9. Progress(k, next, Append(av, start), t)
  BY <1>0, <1>3, <1>4, <1>6, <1>7, <1>8, ArgumentCut
<1> QED BY <1>5, <1>9

LEMMA CutClosed ==
    ASSUME NEW l \in [Offsets -> Chars], NEW p, NEW av, NEW t \in Seq(Typed), Len(t) <= LINE - 1,
           Progress(l, p, av, t), l[p] = Quote, Len(av) < MAX_ARGS,
           NEW e, e = Scan(l, p + 1, {Nul} \cup {Quote}), l[e] = Quote,
           NEW cut, cut = Zero(l, {e}),
           NEW next, next = SkipBlank(cut, e + 1),
           NEW k, k = Zero(cut, e + 1 .. next - 1)
    PROVE  Progress(k, next, Append(av, p + 1), t)
<1>0. PICK m, u : m = TextEnd(t) /\ u = Automaton(t)
  OBVIOUS
<1>1. /\ e \in Offsets /\ e \in Nat /\ e \in p + 1 .. m /\ e # m /\ u[e].mode = InQuote
      /\ OneMore(t, u[p].words, u[e].words, p + 1, e)
  <2>1. QuotedRead(l, p, t, m, u, e)
    BY <1>0, ReadQuoted
  <2> QED BY <2>1, NulIs DEF QuotedRead
<1>2. /\ p \in Nat /\ m \in Nat /\ m \in Offsets /\ p < m /\ m <= Len(t) /\ Len(t) \in Nat
      /\ t \in Seq(Chars) /\ l[m] = Nul /\ l[p] # Nul
      /\ \A q \in 0 .. Len(t) : u[q] \in Runs
      /\ \A q \in p .. m - 1 : l[q] = t[q + 1] /\ l[q] # Nul /\ q \in Offsets
  BY <1>0, AtWord, NulIs
<1>3. PICK after \in Nat : after = e + 1 /\ after <= m /\ after > p
  <2>1. p \in Nat /\ m \in Nat /\ e \in p + 1 .. m /\ e # m
    BY <1>1, <1>2
  <2>2. e + 1 \in Nat /\ e + 1 <= m /\ e + 1 > p
    BY <2>1
  <2> QED BY <2>2
<1>4. \A q \in Offsets : cut[q] = IF q = e THEN Nul ELSE l[q]
  <2>1. PICK S : S = {e}
    OBVIOUS
  <2>2. cut = Zero(l, S)
    BY <2>1
  <2>3. \A q \in Offsets : cut[q] = IF q \in S THEN Nul ELSE l[q]
    BY <2>2, ZeroIs
  <2> QED BY <2>1, <2>3
<1>5. /\ next \in Offsets /\ next >= after /\ next <= m /\ cut[next] \notin Blank
      /\ \A r \in after .. next - 1 : cut[r] \in Blank
  <2>1. cut[m] \notin Blank
    BY <1>1, <1>2, <1>4, NulIs
  <2>2. /\ after \in Nat /\ m \in Offsets /\ after <= m /\ cut[m] \notin Blank
        /\ next = SkipBlank(cut, after)
    BY <1>2, <1>3, <2>1
  <2>3. Skipped(cut, after, m, next)
    BY <2>2, Skipping
  <2> QED BY <2>3 DEF Skipped
<1>6. next \in Nat /\ next \in after .. m
  BY <1>2, <1>3, <1>5, Sizes
<1>7. OnlyCut(l, k, e, next)
  <2>1. PICK S : S = after .. next - 1
    OBVIOUS
  <2>2. k = Zero(cut, S)
    BY <1>3, <2>1
  <2>3. \A q \in Offsets : k[q] = IF q \in S THEN Nul ELSE cut[q]
    BY <2>2, ZeroIs
  <2>4. ASSUME NEW q \in Offsets, q \notin e .. next - 1 PROVE q # e /\ q \notin S
    BY <1>1, <1>3, <1>6, <2>1, <2>4
  <2>5. e \notin S
    BY <1>1, <1>3, <2>1
  <2> QED BY <1>1, <1>4, <2>3, <2>4, <2>5 DEF OnlyCut
<1>8. u[after].mode = Gap /\ u[after].words = u[e].words
  <2>1. after \in 1 .. Len(t) /\ after - 1 = e /\ e \in 0 .. Len(t) /\ e \in p .. m - 1
    BY <1>1, <1>2, <1>3
  <2>2. u[after] = Step(u[e], t[after]) /\ t[after] \in Chars /\ u[e] \in Runs
    BY <1>0, <1>2, <2>1, AutomatonIs
  <2>3. t[after] = Quote
    BY <1>2, <1>3, <2>1
  <2>4. Ends(u[e].mode, t[after]) /\ u[e].mode # Gap
    BY <1>1, <2>3, ModesDiffer DEF Ends, InQuote, Quote
  <2> QED BY <2>2, <2>4, StepEnd
<1>9. ASSUME NEW r \in after .. m - 1 PROVE cut[r] = t[r + 1]
  <2>1. r \in p .. m - 1 /\ r # e
    BY <1>1, <1>2, <1>3
  <2> QED BY <1>2, <1>4, <2>1
<1>10. u[next] = u[after]
  <2>1. after \in 0 .. Len(t) /\ next \in after .. Len(t)
    BY <1>2, <1>3, <1>6
  <2>2. ASSUME NEW j \in after + 1 .. next PROVE t[j] \in Blank
    <3>1. j - 1 \in after .. next - 1 /\ j - 1 \in after .. m - 1 /\ (j - 1) + 1 = j
      BY <1>2, <1>6
    <3> QED BY <1>5, <1>9, <3>1
  <2>3. t \in Seq(Chars) /\ u[after].mode = Gap
    BY <1>2, <1>8
  <2> QED BY <1>0, <2>1, <2>2, <2>3, RunOverGap
<1>11. Ready(next, t, m, u)
  <2>1. ASSUME next < m PROVE t[next + 1] \notin Blank
    <3>1. next \in after .. m - 1
      BY <1>2, <1>6, <2>1
    <3> QED BY <1>5, <1>9, <3>1
  <2> QED BY <1>8, <1>10, <2>1 DEF Ready
<1>12. PICK start : start = p + 1
  OBVIOUS
<1>13. start \in p .. m /\ e \in start .. m /\ next \in e .. m
  BY <1>1, <1>2, <1>3, <1>6, <1>12
<1>14. OneMore(t, u[p].words, u[e].words, start, e) /\ u[next].words = u[e].words
  BY <1>1, <1>8, <1>10, <1>12
<1>15. Progress(k, next, Append(av, start), t)
  BY <1>0, <1>2, <1>7, <1>11, <1>13, <1>14, ArgumentCut
<1> QED BY <1>12, <1>15

(* parse_line before its loop: the first blanks are passed and the last    *)
(* ones are cut off.                                                       *)
TrimsTo(l, n, p, k) ==
    \A q \in Offsets :
      k[q] = IF q \in p .. n - 1 /\ \A r \in q .. n - 1 : l[r] \in Blank THEN Nul ELSE l[q]

LEMMA RtrimIs ==
    ASSUME NEW l, NEW p \in Nat, NEW n \in Offsets, p <= n, l[n] = Nul,
           \A r \in 0 .. n - 1 : l[r] # Nul, NEW k, k = rtrim(l, p)
    PROVE  TrimsTo(l, n, p, k)
<1>1. PICK stop, end : stop = {Nul} /\ end = Scan(l, p, stop)
  OBVIOUS
<1>2. n \in Nat
  BY Sizes
<1>3. end = n
  <2>1. p \in Nat /\ n \in Offsets /\ p <= n /\ l[n] \in stop /\ end = Scan(l, p, stop)
    BY <1>1
  <2>2. end \in Offsets /\ end >= p /\ end <= n /\ l[end] \in stop
    BY <2>1, ScanIs
  <2>3. end \in Nat /\ end \notin 0 .. n - 1
    BY <1>1, <2>2, Sizes
  <2> QED BY <1>2, <2>2, <2>3
<1>4. PICK S : S = {q \in p .. end - 1 : \A r \in q .. end - 1 : l[r] \in Blank}
  OBVIOUS
<1>5. k = Zero(l, S)
  BY <1>1, <1>4 DEF rtrim, Nul
<1>6. \A q \in Offsets : k[q] = IF q \in S THEN Nul ELSE l[q]
  BY <1>5, ZeroIs
<1>7. \A q : q \in S <=> q \in p .. n - 1 /\ \A r \in q .. n - 1 : l[r] \in Blank
  BY <1>3, <1>4
<1> QED BY <1>6, <1>7 DEF TrimsTo

LEMMA Trimmed ==
    ASSUME NEW l \in [Offsets -> Chars], NEW t \in Seq(Typed), NEW n, n = Len(t),
           n > 0, n <= LINE - 1, l[n] = Nul, \A j \in 1 .. n : l[j - 1] = t[j],
           NEW p, p = SkipBlank(l, 0), NEW k, k = rtrim(l, p)
    PROVE  k[p] = Nul \/ Progress(k, p, <<>>, t)
<1>1. PICK m, u : m = TextEnd(t) /\ u = Automaton(t)
  OBVIOUS
<1>2. n \in Nat /\ n \in Offsets /\ t \in Seq(Chars) /\ l[n] \notin Blank
  BY Sizes, NulIs
<1>3. m \in Nat /\ m <= n /\ (m = 0 \/ t[m] \notin Blank) /\ \A j \in m + 1 .. n : t[j] \in Blank
  <2>1. /\ m \in 0 .. Len(t) /\ (m = 0 \/ t[m] \notin Blank)
        /\ \A j \in m + 1 .. Len(t) : t[j] \in Blank
    BY <1>1, TextEndIs
  <2> QED BY <1>2, <2>1
<1>4. ASSUME NEW q \in 0 .. n - 1 PROVE l[q] = t[q + 1] /\ l[q] # Nul /\ q \in Offsets
  <2>1. q + 1 \in 1 .. n /\ (q + 1) - 1 = q /\ q \in Offsets
    BY <1>2, Sizes
  <2>2. l[q] = t[q + 1]
    BY <2>1
  <2> QED BY <2>1, <2>2, NulIs
<1>5. ASSUME NEW b \in Offsets, l[b] \notin Blank
      PROVE  p \in Offsets /\ p <= b /\ l[p] \notin Blank /\ \A r \in 0 .. p - 1 : l[r] \in Blank
  <2>1. PICK o \in Nat : o = 0 /\ o <= b
    BY <1>5, Sizes
  <2>2. o \in Nat /\ b \in Offsets /\ o <= b /\ l[b] \notin Blank /\ p = SkipBlank(l, o)
    BY <1>5, <2>1
  <2>3. /\ p \in Offsets /\ p <= b /\ l[p] \notin Blank /\ \A r \in o .. p - 1 : l[r] \in Blank
    BY <2>2, SkipIs
  <2> QED BY <2>1, <2>3
<1>6. p \in Nat /\ p <= n /\ l[p] \notin Blank /\ \A r \in 0 .. p - 1 : l[r] \in Blank
  BY <1>2, <1>5, Sizes
<1>7. TrimsTo(l, n, p, k)
  <2>1. \A r \in 0 .. n - 1 : l[r] # Nul
    BY <1>4
  <2> QED BY <1>2, <1>6, <2>1, RtrimIs
<1>8. CASE m = 0
  <2>1. p = n
    <3>1. SUFFICES ASSUME p < n PROVE FALSE
      BY <1>2, <1>6
    <3>2. p \in 0 .. n - 1 /\ p + 1 \in m + 1 .. n
      BY <1>2, <1>6, <1>8, <3>1
    <3> QED BY <1>3, <1>4, <1>6, <3>2
  <2>2. n \notin p .. n - 1
    BY <1>2
  <2> QED BY <1>2, <1>7, <2>1, <2>2 DEF TrimsTo
<1>9. CASE m > 0
  <2>1. m - 1 \in 0 .. n - 1 /\ (m - 1) + 1 = m
    BY <1>2, <1>3, <1>9
  <2>2. l[m - 1] \notin Blank /\ m - 1 \in Offsets
    BY <1>3, <1>4, <1>9, <2>1
  <2>3. p <= m - 1
    BY <1>5, <2>2
  <2>4. k[m] = Nul
    <3>1. CASE m = n
      <4>1. n \notin p .. n - 1
        BY <1>2
      <4> QED BY <1>2, <1>7, <3>1, <4>1 DEF TrimsTo
    <3>2. CASE m # n
      <4>1. m \in p .. n - 1 /\ m \in 0 .. n - 1
        BY <1>2, <1>3, <1>6, <2>3, <3>2
      <4>2. ASSUME NEW r \in m .. n - 1 PROVE l[r] \in Blank
        <5>1. r \in 0 .. n - 1 /\ r + 1 \in m + 1 .. n
          BY <1>2, <1>3
        <5> QED BY <1>3, <1>4, <5>1
      <4> QED BY <1>4, <1>7, <4>1, <4>2 DEF TrimsTo
    <3> QED BY <3>1, <3>2
  <2>5. ASSUME NEW q \in p .. m - 1 PROVE k[q] = t[q + 1]
    <3>1. q \in 0 .. n - 1 /\ m - 1 \in q .. n - 1
      BY <1>2, <1>3, <1>6, <2>3
    <3> QED BY <1>4, <1>7, <2>2, <3>1 DEF TrimsTo
  <2>6. Untouched(k, p, t, m)
    <3>1. p \in 0 .. m
      BY <1>3, <1>6, <2>3
    <3> QED BY <2>4, <2>5, <3>1 DEF Untouched
  <2>7. u[p].mode = Gap /\ u[p].words = <<>>
    <3>1. u[0] = NewRun
      BY <1>1, <1>2, AutomatonIs
    <3>2. PICK o : o = 0
      OBVIOUS
    <3>3. o \in 0 .. Len(t) /\ p \in o .. Len(t) /\ u[o].mode = Gap
      BY <1>2, <1>6, <3>1, <3>2 DEF NewRun
    <3>4. ASSUME NEW j \in o + 1 .. p PROVE t[j] \in Blank
      <4>1. j - 1 \in 0 .. n - 1 /\ j - 1 \in 0 .. p - 1 /\ (j - 1) + 1 = j
        BY <1>2, <1>6, <3>2
      <4> QED BY <1>4, <1>6, <4>1
    <3>5. u[p] = u[o]
      BY <1>1, <1>2, <3>3, <3>4, RunOverGap
    <3> QED BY <3>1, <3>2, <3>5 DEF NewRun
  <2>8. t[p + 1] \notin Blank
    <3>1. p \in 0 .. n - 1
      BY <1>2, <1>3, <1>6, <2>3
    <3> QED BY <1>4, <1>6, <3>1
  <2>9. Ready(p, t, m, u)
    BY <2>7, <2>8 DEF Ready
  <2>10. WordsHeld(k, p, <<>>, u[p].words)
    <3>1. Len(<<>>) = 0 /\ <<>> \in Seq(Nat) /\ 1 .. 0 = {}
      OBVIOUS
    <3> QED BY <2>7, <3>1, Sizes DEF WordsHeld
  <2> QED BY <1>1, <1>9, <2>6, <2>9, <2>10 DEF Progress
<1> QED BY <1>3, <1>8, <1>9

(* Where the loop of parse_line is between two rounds.                     *)
Cutting(l, p, av, t) ==
    /\ Len(t) <= LINE - 1
    /\ (av = <<>> /\ l[p] = Nul) \/ Progress(l, p, av, t)
SplitInv == pc = "split" => Cutting(line, pos, argv, text)

LEMMA ParseLineSplits ==
    ASSUME TypedInv, parse_line
    PROVE  SplitInv'
<1>1. /\ pc = "parse" /\ pos' = SkipBlank(line, 0) /\ line' = rtrim(line, pos')
      /\ argv' = <<>> /\ text' = text
  BY DEF parse_line
<1>2. /\ line \in [Offsets -> Chars] /\ text \in Seq(Typed) /\ Len(text) \in 1 .. LINE - 1
      /\ line[Len(text)] = Nul /\ \A j \in 1 .. Len(text) : line[j - 1] = text[j]
  BY <1>1 DEF TypedInv, Nul
<1>3. PICK n \in Nat : n = Len(text) /\ n > 0 /\ n <= LINE - 1
  BY <1>2, Sizes
<1>4. line[n] = Nul /\ \A j \in 1 .. n : line[j - 1] = text[j]
  BY <1>2, <1>3
<1>5. PICK p, k : p = pos' /\ k = line'
  OBVIOUS
<1>6. p = SkipBlank(line, 0) /\ k = rtrim(line, p)
  BY <1>1, <1>5
<1>7. k[p] = Nul \/ Progress(k, p, <<>>, text)
  BY <1>2, <1>3, <1>4, <1>6, Trimmed
<1>8. Cutting(k, p, <<>>, text)
  BY <1>3, <1>7 DEF Cutting
<1>9. Cutting(line', pos', argv', text')
  BY <1>1, <1>5, <1>8
<1> QED BY <1>9 DEF SplitInv

LEMMA SplitSplits ==
    ASSUME TypedInv, SplitInv, Split
    PROVE  SplitInv'
<1> DEFINE quoted == line[pos] = Quote
<1>01. PICK start : start = IF quoted THEN pos + 1 ELSE pos
  OBVIOUS
<1>02. PICK end : end = Scan(line, start, {Nul} \cup IF quoted THEN {Quote} ELSE Blank)
  OBVIOUS
<1> DEFINE closed == quoted /\ line[end] = Quote
<1>03. PICK after : after = IF closed THEN end + 1 ELSE end
  OBVIOUS
<1>04. PICK cut : cut = IF closed THEN Zero(line, {end}) ELSE line
  OBVIOUS
<1>05. PICK next : next = SkipBlank(cut, after)
  OBVIOUS
<1>1. /\ pc = "split" /\ line[pos] # Nul /\ Len(argv) < MAX_ARGS
      /\ line' = Zero(cut, after .. next - 1)
      /\ pos' = next
      /\ argv' = Append(argv, start)
      /\ text' = text
  BY <1>01, <1>02, <1>03, <1>04, <1>05 DEF Split, CutQuote, Nul, Quote
<1>2. line \in [Offsets -> Chars] /\ text \in Seq(Typed)
  BY DEF TypedInv
<1>3. Len(text) <= LINE - 1 /\ Progress(line, pos, argv, text)
  BY <1>1 DEF SplitInv, Cutting
<1>4. PICK k : k = line'
  OBVIOUS
<1>5. Progress(k, next, Append(argv, start), text)
  <2>1. CASE ~quoted
    <3>1. /\ line[pos] # Quote /\ start = pos /\ end = Scan(line, pos, {Nul} \cup Blank)
          /\ next = SkipBlank(line, end) /\ k = Zero(line, end .. next - 1)
      BY <1>01, <1>02, <1>03, <1>04, <1>05, <1>1, <1>4, <2>1
    <3> QED BY <1>1, <1>2, <1>3, <3>1, CutPlain
  <2>2. CASE quoted /\ ~closed
    <3>1. /\ line[pos] = Quote /\ start = pos + 1 /\ end = Scan(line, pos + 1, {Nul} \cup {Quote})
          /\ line[end] # Quote
          /\ next = SkipBlank(line, end) /\ k = Zero(line, end .. next - 1)
      BY <1>01, <1>02, <1>03, <1>04, <1>05, <1>1, <1>4, <2>2
    <3> QED BY <1>1, <1>2, <1>3, <3>1, CutOpen
  <2>3. CASE quoted /\ closed
    <3>1. /\ line[pos] = Quote /\ start = pos + 1 /\ end = Scan(line, pos + 1, {Nul} \cup {Quote})
          /\ line[end] = Quote /\ cut = Zero(line, {end})
          /\ next = SkipBlank(cut, end + 1) /\ k = Zero(cut, end + 1 .. next - 1)
      BY <1>01, <1>02, <1>03, <1>04, <1>05, <1>1, <1>4, <2>3
    <3> QED BY <1>1, <1>2, <1>3, <3>1, CutClosed
  <2> QED BY <1>1, <2>1, <2>2, <2>3
<1>6. Cutting(line', pos', argv', text')
  BY <1>1, <1>3, <1>4, <1>5 DEF Cutting
<1> QED BY <1>6 DEF SplitInv

(* The arguments are a prefix of the words.                                *)
LEMMA ArgsAreWords ==
    ASSUME text \in Seq(Typed), Len(text) <= LINE - 1, Progress(line, pos, argv, text),
           line[pos] = Nul \/ Len(argv) >= MAX_ARGS,
           NEW words, words = Words(text)
    PROVE  Args = SubSeq(words, 1, IF Len(words) < MAX_ARGS THEN Len(words) ELSE MAX_ARGS)
<1>1. PICK m, u : m = TextEnd(text) /\ u = Automaton(text)
  OBVIOUS
<1>2. text \in Seq(Chars) /\ Len(text) \in Nat /\ \A i \in 1 .. Len(text) : text[i] # Nul
  BY NulIs
<1>3. m \in 0 .. Len(text) /\ words = u[m].words
  BY <1>1, TextEndIs DEF Words
<1>4. Untouched(line, pos, text, m) /\ Ready(pos, text, m, u) /\ WordsHeld(line, pos, argv, u[pos].words)
  BY <1>1 DEF Progress
<1>5. pos \in 0 .. m /\ \A q \in pos .. m - 1 : line[q] = text[q + 1]
  BY <1>4 DEF Untouched
<1>51. PICK ws : ws = u[pos].words
  OBVIOUS
<1>6. PICK n \in Nat : /\ n = Len(ws) /\ n = Len(argv) /\ n <= MAX_ARGS /\ argv \in Seq(Nat)
                      /\ \A i \in 1 .. n : Holds(line, argv[i], ws[i])
  <2>1. WordsHeld(line, pos, argv, ws)
    BY <1>4, <1>51
  <2>2. argv \in Seq(Nat)
    BY <2>1 DEF WordsHeld
  <2> QED BY <2>1, <2>2 DEF WordsHeld
<1>7. words \in Seq(Seq(Chars))
  <2>1. u[m] \in Runs
    BY <1>1, <1>2, <1>3, AutomatonIs
  <2> QED BY <1>3, <2>1 DEF Runs
<1>8. Len(words) >= n /\ (\A i \in 1 .. n : words[i] = ws[i]) /\ (Len(words) = n \/ n = MAX_ARGS)
  <2>1. CASE pos = m
    <3>1. words = ws
      BY <1>3, <1>51, <2>1
    <3>2. Len(words) = n
      BY <1>6, <3>1
    <3> QED BY <1>6, <3>1, <3>2
  <2>2. CASE pos # m
    <3>1. pos \in pos .. m - 1 /\ pos + 1 \in 1 .. Len(text) /\ pos < m
      BY <1>2, <1>3, <1>5, <2>2
    <3>2. line[pos] # Nul
      BY <1>2, <1>5, <3>1
    <3>3. n = MAX_ARGS
      BY <1>6, <3>2, Sizes
    <3>4. InGapAt(u, pos, n)
      BY <1>4, <1>51, <1>6, <3>1 DEF Ready, InGapAt
    <3>5. pos \in 0 .. Len(text) /\ m \in pos .. Len(text)
      BY <1>2, <1>3, <1>5
    <3>6. Len(u[m].words) >= n /\ \A i \in 1 .. n : u[m].words[i] = u[pos].words[i]
      <4>1. PICK t, p : t = text /\ p = pos
        OBVIOUS
      <4>2. /\ t \in Seq(Chars) /\ u = Automaton(t) /\ p \in 0 .. Len(t) /\ m \in p .. Len(t)
            /\ InGapAt(u, p, n)
        BY <1>1, <1>2, <3>4, <3>5, <4>1
      <4>3. Grown(u, p, m, n)
        BY <4>2, WordsGrow
      <4> QED BY <4>1, <4>3 DEF Grown
    <3> QED BY <1>3, <1>51, <1>6, <3>3, <3>6
  <2> QED BY <2>1, <2>2
<1>9. n = IF Len(words) < MAX_ARGS THEN Len(words) ELSE MAX_ARGS
  BY <1>6, <1>7, <1>8, Sizes
<1>10. Args = [i \in 1 .. n |-> words[i]]
  <2>1. DOMAIN argv = 1 .. n
    BY <1>6
  <2>2. \A i \in 1 .. n : Str(argv[i]) = words[i]
    BY <1>6, <1>8, StrIs
  <2> QED BY <2>1, <2>2 DEF Args
<1>11. SubSeq(words, 1, n) = [i \in 1 .. n |-> words[i]]
  BY <1>7, <1>8
<1> QED BY <1>9, <1>10, <1>11

LEMMA ParsedRunsWords ==
    ASSUME TypedInv, SplitInv, Parsed
    PROVE  RunsWhatWasTyped'
<1>1. /\ pc = "split" /\ (line[pos] = Nul \/ Len(argv) >= MAX_ARGS)
      /\ pc' = (IF argv = <<>> THEN "prompt" ELSE "dispatch")
      /\ UNCHANGED <<line, pos, argv, text>>
  BY DEF Parsed, Nul
<1>2. SUFFICES ASSUME argv # <<>> PROVE RunsWhatWasTyped'
  <2>1. CASE argv = <<>>
    BY <1>1, <2>1 DEF RunsWhatWasTyped
  <2> QED BY <1>2, <2>1
<1>3. text \in Seq(Typed) /\ Len(text) <= LINE - 1 /\ Progress(line, pos, argv, text)
  BY <1>1, <1>2 DEF SplitInv, Cutting, TypedInv
<1>4. PICK words : words = Words(text)
  OBVIOUS
<1>5. Args = SubSeq(words, 1, IF Len(words) < MAX_ARGS THEN Len(words) ELSE MAX_ARGS)
  BY <1>1, <1>3, <1>4, ArgsAreWords
<1>6. Args' = Args /\ text' = text
  BY <1>1 DEF Args, Str
<1> QED BY <1>4, <1>5, <1>6 DEF RunsWhatWasTyped

LEMMA WordsNext ==
    ASSUME TypedInv, SplitInv, RunsWhatWasTyped, [Next]_vars
    PROVE  SplitInv' /\ RunsWhatWasTyped'
<1>1. CASE parse_line
  <2>1. pc' # "dispatch"
    BY <1>1 DEF parse_line
  <2> QED BY <1>1, <2>1, ParseLineSplits DEF RunsWhatWasTyped
<1>2. CASE Split
  <2>1. pc' # "dispatch"
    BY <1>2 DEF Split
  <2> QED BY <1>2, <2>1, SplitSplits DEF RunsWhatWasTyped
<1>3. CASE Parsed
  <2>1. pc' # "split"
    BY <1>3 DEF Parsed
  <2> QED BY <1>3, <2>1, ParsedRunsWords DEF SplitInv
<1>4. CASE UNCHANGED vars
  <2>1. UNCHANGED <<line, pos, argv, text, pc>>
    BY <1>4 DEF vars
  <2>2. pc = "split" => Cutting(line', pos', argv', text')
    BY <2>1 DEF SplitInv
  <2>3. Args' = Args
    BY <2>1 DEF Args, Str
  <2> QED BY <2>1, <2>2, <2>3 DEF SplitInv, RunsWhatWasTyped
<1>5. CASE pc' \notin {"split", "dispatch"}
  BY <1>5 DEF SplitInv, RunsWhatWasTyped
<1>6. CASE \/ \E c \in BootChars : BootPut(c)
           \/ BootWrap \/ BootScroll \/ UnhandledIrq
  BY <1>5, <1>6 DEF BootPut, BootWrap, BootScroll, UnhandledIrq
<1>7. CASE \/ \E d \in Messages : Log(d)
           \/ shell_run \/ Prompt \/ Enter \/ Erase
           \/ \E c \in Typed : Type(c)
  BY <1>5, <1>7 DEF Log, shell_run, Prompt, Enter, Erase, Type, Keystroke
<1>8. CASE \/ Refuse
           \/ \E output \in Outputs : RunCommand(output)
           \/ \E n \in Stats : ShowStat(n)
  BY <1>5, <1>8 DEF Refuse, RunCommand, ShowStat
<1> QED BY <1>1, <1>2, <1>3, <1>4, <1>6, <1>7, <1>8 DEF Next

(* The shell runs the words that were typed, whatever the sizes of the     *)
(* line and of the argument vector: parse_line cuts up the line in place   *)
(* and loses, merges or invents no word.                                   *)
THEOREM WordsAreRun == Spec => []RunsWhatWasTyped
<1> DEFINE Inv == CursorInv /\ MessageInv /\ TypedInv /\ ShownInv /\ SplitInv /\ RunsWhatWasTyped
<1>1. Init => Inv
  <2>1. Init => pc = "boot"
    BY DEF Init
  <2> QED BY <2>1, ScreenInit, TypedInit DEF SplitInv, RunsWhatWasTyped
<1>2. Inv /\ [Next]_vars => Inv'
  BY ScreenNext, TypedNext, WordsNext
<1>3. Inv => RunsWhatWasTyped
  OBVIOUS
<1> QED BY <1>1, <1>2, <1>3, PTL DEF Spec

=============================================================================

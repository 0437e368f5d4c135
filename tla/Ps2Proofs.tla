------------------------------ MODULE Ps2Proofs ------------------------------
(***************************************************************************)
(* Proofs about Ps2 and the ring of KeyboardBuffer in it, for every size   *)
(* of the ring, every keyboard layout and every configuration byte the     *)
(* firmware leaves.                                                        *)
(***************************************************************************)
EXTENDS Ps2, RingLemmas

------------------------------------------------------------------------------
(* The ring.                                                               *)

LEMMA WaitingIsRing ==
    /\ Waiting = RingSeq(buffer, KBD_BUF_SIZE, head, tail)
    /\ Waiting' = RingSeq(buffer', KBD_BUF_SIZE, head', tail')
    /\ \A i : Succ(i) = RingSucc(KBD_BUF_SIZE, i)
BY DEF Waiting, Used, Succ, RingSeq, RingUsed, RingSlot, RingSucc

LEMMA BufferIsRing ==
    ASSUME RingTypeOK
    PROVE  IsRing(KBD_BUF_SIZE, Chars \cup {NoChar}, buffer, head, tail)
BY RingAssumption DEF RingTypeOK, Index, IsRing

(* While a pop is under way the ring is not empty, and the character the   *)
(* pop has loaded is still in its slot: no push overwrites it.             *)
RingInv ==
    /\ RingTypeOK
    /\ pop_pc # "idle" => head # tail
    /\ pop_pc = "advance" => pop_c = buffer[tail]

LEMMA PushAppends ==
    ASSUME RingInv, NEW c \in Chars, Push(c)
    PROVE  RingInv' /\ Appends(Waiting, Waiting', c, KBD_BUF_SIZE - 1)
<1>1. RingTypeOK /\ c \in Chars \cup {NoChar} /\ RingSucc(KBD_BUF_SIZE, head) # tail
  BY WaitingIsRing DEF Push, Full, RingInv
<1>2. /\ buffer' = [buffer EXCEPT ![head] = c]
      /\ head' = RingSucc(KBD_BUF_SIZE, head) /\ tail' = tail
      /\ UNCHANGED <<pop_pc, pop_c, popped>>
  BY WaitingIsRing DEF Push
<1>3. IsRing(KBD_BUF_SIZE, Chars \cup {NoChar}, buffer', head', tail')
  BY <1>1, <1>2, BufferIsRing, RingPush
<1>4. Appends(RingSeq(buffer, KBD_BUF_SIZE, head, tail),
              RingSeq([buffer EXCEPT ![head] = c], KBD_BUF_SIZE,
                      RingSucc(KBD_BUF_SIZE, head), tail), c, KBD_BUF_SIZE - 1)
  BY <1>1, BufferIsRing, RingPush
<1>5. Appends(Waiting, Waiting', c, KBD_BUF_SIZE - 1)
  BY <1>2, <1>4, WaitingIsRing
<1>6. RingTypeOK'
  BY <1>2, <1>3 DEF RingInv, RingTypeOK, IsRing, Index
<1>7. pop_pc # "idle" => buffer'[tail] = buffer[tail]
  BY <1>2 DEF RingInv, RingTypeOK
<1> QED BY <1>1, <1>2, <1>5, <1>6, <1>7 DEF RingInv

LEMMA PopTakes ==
    ASSUME RingInv, PopAdvance
    PROVE  RingInv' /\ Takes(Waiting, Waiting', popped')
<1>1. head # tail /\ popped' = buffer[tail] /\ RingTypeOK
  BY DEF PopAdvance, RingInv
<1>2. /\ buffer' = buffer /\ head' = head /\ tail' = RingSucc(KBD_BUF_SIZE, tail)
      /\ pop_pc' = "idle" /\ pop_c' = NoChar
  BY WaitingIsRing DEF PopAdvance
<1>3. IsRing(KBD_BUF_SIZE, Chars \cup {NoChar}, buffer', head', tail')
  BY <1>1, <1>2, BufferIsRing, RingPop
<1>4. Takes(RingSeq(buffer, KBD_BUF_SIZE, head, tail),
            RingSeq(buffer, KBD_BUF_SIZE, head, RingSucc(KBD_BUF_SIZE, tail)),
            buffer[tail])
  BY <1>1, BufferIsRing, RingPop
<1>5. Takes(Waiting, Waiting', popped')
  BY <1>1, <1>2, <1>4, WaitingIsRing
<1>6. RingTypeOK'
  BY <1>1, <1>2, <1>3 DEF RingTypeOK, IsRing, Index
<1> QED BY <1>2, <1>5, <1>6 DEF RingInv

LEMMA PopWaits ==
    ASSUME RingInv, PopTest \/ PopLoad
    PROVE  RingInv' /\ UNCHANGED <<Waiting, popped>>
<1>1. UNCHANGED <<Waiting, popped>>
  BY DEF PopTest, PopLoad, Waiting, Used
<1>2. RingInv'
  BY DEF PopTest, PopLoad, RingInv, RingTypeOK
<1> QED BY <1>1, <1>2

------------------------------------------------------------------------------
(* Until keyboard_init nobody touches the ring: it does not empty it.      *)
Untouched == bpc = "early" => ~handler1 /\ head = 0 /\ tail = 0 /\ pop_pc = "idle"

LEMMA StepOnRing ==
    ASSUME Next, Untouched
    PROVE  /\ \/ UNCHANGED ringVars
              \/ \E c \in Chars : Push(c)
              \/ PopTest \/ PopLoad \/ PopAdvance
           /\ Untouched'
<1>1. CASE Irq1
  <2>1. CASE handler1 /\ data \in DOMAIN Layout /\ ~Full
    <3>1. Push(Layout[data]) /\ Layout[data] \in Chars
      BY <1>1, <2>1, Ps2Assumption DEF Irq1, KeyboardHandler, Deliver
    <3>2. bpc' = bpc /\ bpc # "early"
      BY <1>1, <2>1 DEF Irq1, bootVars, Untouched
    <3> QED BY <3>1, <3>2 DEF Untouched
  <2>2. CASE ~(handler1 /\ data \in DOMAIN Layout /\ ~Full)
    <3>1. UNCHANGED ringVars /\ UNCHANGED <<bpc, handler1>>
      BY <1>1, <2>2 DEF Irq1, KeyboardHandler, Deliver, bootVars
    <3> QED BY <3>1 DEF Untouched, ringVars
  <2> QED BY <2>1, <2>2
<1>2. CASE Reader
  BY <1>2 DEF Reader, Untouched, bootVars
<1>3. CASE KeyboardInit
  BY <1>3 DEF KeyboardInit, Goto, Untouched, ringVars
<1>4. CASE Boot /\ ~KeyboardInit
  BY <1>4 DEF Boot, EnableAux, AskCtr, Poll, ReadCtr, WriteCtr, MouseWrite, ReadAck,
              Goto, ReadOf, Untouched, ringVars
<1>5. CASE (\E k \in Keys : KeyEvent(k)) \/ PresentKbd \/ PresentMouse \/ MouseAnswers \/ MouseMove
  BY <1>5 DEF KeyEvent, PresentKbd, PresentMouse, MouseAnswers, MouseMove, bootVars,
              Untouched, ringVars
<1> QED BY <1>1, <1>2, <1>3, <1>4, <1>5 DEF Next

(* The effect of a step on the abstract queue.                             *)
LEMMA StepEffect ==
    ASSUME RingInv, Untouched, [Next]_ps2Vars
    PROVE  /\ RingInv' /\ Untouched'
           /\ \/ \E c \in Chars : Appends(Waiting, Waiting', c, KBD_BUF_SIZE - 1) /\ UNCHANGED popped
              \/ Takes(Waiting, Waiting', popped')
              \/ UNCHANGED <<Waiting, popped>>
<1>1. CASE UNCHANGED <<ringVars, bpc, handler1>>
  BY <1>1 DEF ringVars, RingInv, RingTypeOK, Untouched, Waiting, Used
<1>2. CASE Next
  <2>1. /\ \/ UNCHANGED ringVars
           \/ \E c \in Chars : Push(c)
           \/ PopTest \/ PopLoad \/ PopAdvance
        /\ Untouched'
    BY <1>2, StepOnRing
  <2>2. CASE UNCHANGED ringVars
    BY <2>1, <2>2 DEF ringVars, RingInv, RingTypeOK, Waiting, Used
  <2>3. ASSUME NEW c \in Chars, Push(c)
        PROVE  /\ RingInv' /\ UNCHANGED popped
               /\ Appends(Waiting, Waiting', c, KBD_BUF_SIZE - 1)
    BY <2>3, PushAppends DEF Push
  <2> QED BY <2>1, <2>2, <2>3, PopTakes, PopWaits
<1> QED BY <1>1, <1>2 DEF ps2Vars, bootVars

LEMMA AlwaysRing == Spec => [](RingInv /\ Untouched)
<1>1. Init => RingInv /\ Untouched
  BY RingAssumption DEF Init, RingInit, RingInv, RingTypeOK, Untouched, Index
<1>2. RingInv /\ Untouched /\ [Next]_ps2Vars => RingInv' /\ Untouched'
  BY StepEffect
<1> QED BY <1>1, <1>2, PTL DEF Spec

(* The ring between the interrupt handlers and the reader, whose pop is    *)
(* interrupted by pushes, implements a first-in first-out queue of         *)
(* KBD_BUF_SIZE - 1 characters.                                            *)
THEOREM ImplementsFifo == Spec => RefinesFifo
<1>1. Init => Fifo!FifoInit
  <2> SUFFICES ASSUME Init PROVE Fifo!FifoInit
    OBVIOUS
  <2>1. IsRing(KBD_BUF_SIZE, {NoChar}, buffer, head, tail) /\ head = tail
    BY RingAssumption DEF Init, RingInit, Index, IsRing
  <2>2. Waiting = <<>>
    BY <2>1, WaitingIsRing, RingContents
  <2> QED BY <2>2 DEF Init, RingInit, Fifo!FifoInit
<1>2. RingInv /\ Untouched /\ [Next]_ps2Vars => [Fifo!FifoNext]_(Fifo!fifoVars)
  <2> SUFFICES ASSUME RingInv, Untouched, [Next]_ps2Vars
               PROVE  [Fifo!FifoNext]_(Fifo!fifoVars)
    OBVIOUS
  <2>1. CASE \E c \in Chars : Appends(Waiting, Waiting', c, KBD_BUF_SIZE - 1) /\ UNCHANGED popped
    BY <2>1 DEF Appends, Fifo!FifoNext, Fifo!FifoPush
  <2>2. CASE Takes(Waiting, Waiting', popped')
    BY <2>2 DEF Takes, Fifo!FifoNext, Fifo!FifoPop
  <2>3. CASE UNCHANGED <<Waiting, popped>>
    BY <2>3 DEF Fifo!fifoVars
  <2> QED BY <2>1, <2>2, <2>3, StepEffect
<1> QED BY <1>1, <1>2, AlwaysRing, PTL DEF Spec, RefinesFifo, Fifo!FifoSpec
------------------------------------------------------------------------------
(* The configuration byte.                                                 *)

(* Before the command that asks for the byte only keys are under way, and  *)
(* the mouse is silent.                                                    *)
OnlyKeys ==
    bpc \in {"early", "enable_aux", "ask_ctr"} =>
      /\ mq = <<>> /\ unanswered = 0 /\ reporting = FALSE /\ aux = FALSE
      /\ \A i \in 1 .. Len(kq) : kq[i].key /\ kq[i].byte \in Keys
      /\ obf => data \in Keys

(* The answer is the only byte under way, or it is in the data register,   *)
(* where it stays if keyboard_handler reads it first.                      *)
AnswerArrives ==
    bpc \in {"ctr_wait", "ctr_read"} /\ ~raced =>
      /\ mq = <<>> /\ unanswered = 0 /\ reporting = FALSE
      /\ \/ bpc = "ctr_wait" /\ kq = <<Answer(ctr)>> /\ ~obf
         \/ kq = <<>> /\ data = ctr

CtrIs ==
    /\ bpc \in {"early", "enable_aux"} => ctr = bios
    /\ bpc \in {"ask_ctr", "ctr_wait", "ctr_read", "write_ctr"} => ctr = MouseOn(bios)
    /\ bpc = "write_ctr" /\ ~raced => status = WithAuxIrq(ctr)
    /\ bpc \in Configured /\ ~raced => ctr = WithAuxIrq(MouseOn(bios))

Entry == [byte : Int, key : BOOLEAN]

CtrInv ==
    /\ bios \in 0 .. 255 /\ raced \in BOOLEAN
    /\ kq \in Seq(Entry)
    /\ OnlyKeys /\ AnswerArrives /\ CtrIs

LEMMA BitsAre ==
    ASSUME NEW b \in Nat
    PROVE  /\ Bit(b, 0) <=> b % 2 = 1
           /\ Bit(b, 1) <=> (b \div 2) % 2 = 1
           /\ Bit(b, 2) <=> (b \div 4) % 2 = 1
           /\ Bit(b, 3) <=> (b \div 8) % 2 = 1
           /\ Bit(b, 4) <=> (b \div 16) % 2 = 1
           /\ Bit(b, 5) <=> (b \div 32) % 2 = 1
           /\ Bit(b, 6) <=> (b \div 64) % 2 = 1
           /\ Bit(b, 7) <=> (b \div 128) % 2 = 1
<1>1. 2^0 = 1 /\ 2^1 = 2 /\ 2^2 = 4 /\ 2^3 = 8 /\ 2^4 = 16 /\ 2^5 = 32 /\ 2^6 = 64 /\ 2^7 = 128
  OBVIOUS
<1>2. b \div 1 = b
  OBVIOUS
<1> QED BY <1>1, <1>2 DEF Bit

LEMMA EightBits ==
    ASSUME NEW i \in 0 .. 7
    PROVE  i = 0 \/ i = 1 \/ i = 2 \/ i = 3 \/ i = 4 \/ i = 5 \/ i = 6 \/ i = 7
OBVIOUS

(* Clearing bit 5 and setting bit 1 leave the other bits alone.            *)
LEMMA MouseOnBits ==
    ASSUME NEW b \in 0 .. 255
    PROVE  /\ MouseOn(b) \in 0 .. 255
           /\ \A i \in 0 .. 7 : Bit(MouseOn(b), i) <=> (i # 5 /\ Bit(b, i))
<1>1. CASE ~Bit(b, 5)
  BY <1>1 DEF MouseOn
<1>2. CASE Bit(b, 5)
  <2>1. (b \div 32) % 2 = 1
    BY <1>2, BitsAre
  <2>2. PICK c \in 0 .. 255 : c = b - 32 /\ c = MouseOn(b)
    BY <1>2, <2>1 DEF MouseOn
  <2>3. /\ c % 2 = b % 2 /\ (c \div 2) % 2 = (b \div 2) % 2 /\ (c \div 4) % 2 = (b \div 4) % 2
        /\ (c \div 8) % 2 = (b \div 8) % 2 /\ (c \div 16) % 2 = (b \div 16) % 2
        /\ (c \div 32) % 2 = 0
        /\ (c \div 64) % 2 = (b \div 64) % 2 /\ (c \div 128) % 2 = (b \div 128) % 2
    BY <2>1, <2>2
  <2>4. Bit(c, 0) <=> Bit(b, 0)
    BY <2>3, BitsAre
  <2>5. Bit(c, 1) <=> Bit(b, 1)
    BY <2>3, BitsAre
  <2>6. Bit(c, 2) <=> Bit(b, 2)
    BY <2>3, BitsAre
  <2>7. Bit(c, 3) <=> Bit(b, 3)
    BY <2>3, BitsAre
  <2>8. Bit(c, 4) <=> Bit(b, 4)
    BY <2>3, BitsAre
  <2>9. ~Bit(c, 5)
    BY <2>3, BitsAre
  <2>10. Bit(c, 6) <=> Bit(b, 6)
    BY <2>3, BitsAre
  <2>11. Bit(c, 7) <=> Bit(b, 7)
    BY <2>3, BitsAre
  <2>12. ASSUME NEW i \in 0 .. 7
         PROVE  Bit(c, i) <=> (i # 5 /\ Bit(b, i))
    BY EightBits, <2>4, <2>5, <2>6, <2>7, <2>8, <2>9, <2>10, <2>11
  <2> QED BY <2>2, <2>12
<1> QED BY <1>1, <1>2

LEMMA WithAuxIrqBits ==
    ASSUME NEW b \in 0 .. 255
    PROVE  \A i \in 0 .. 7 : Bit(WithAuxIrq(b), i) <=> (i = 1 \/ Bit(b, i))
<1>1. CASE Bit(b, 1)
  BY <1>1 DEF WithAuxIrq
<1>2. CASE ~Bit(b, 1)
  <2>1. (b \div 2) % 2 # 1
    BY <1>2, BitsAre
  <2>2. PICK c \in 0 .. 255 : c = b + 2 /\ c = WithAuxIrq(b)
    BY <1>2, <2>1 DEF WithAuxIrq
  <2>3. /\ c % 2 = b % 2 /\ (c \div 2) % 2 = 1 /\ (c \div 4) % 2 = (b \div 4) % 2
        /\ (c \div 8) % 2 = (b \div 8) % 2 /\ (c \div 16) % 2 = (b \div 16) % 2
        /\ (c \div 32) % 2 = (b \div 32) % 2
        /\ (c \div 64) % 2 = (b \div 64) % 2 /\ (c \div 128) % 2 = (b \div 128) % 2
    <3>1. c % 2 = b % 2 /\ (c \div 2) % 2 = 1
      BY <2>1, <2>2
    <3>2. c \div 4 = b \div 4
      BY <2>1, <2>2
    <3>3. /\ b \div 8 = (b \div 4) \div 2 /\ c \div 8 = (c \div 4) \div 2
          /\ b \div 16 = (b \div 4) \div 4 /\ c \div 16 = (c \div 4) \div 4
      OBVIOUS
    <3>4. /\ b \div 32 = (b \div 4) \div 8 /\ c \div 32 = (c \div 4) \div 8
          /\ b \div 64 = (b \div 4) \div 16 /\ c \div 64 = (c \div 4) \div 16
          /\ b \div 128 = (b \div 4) \div 32 /\ c \div 128 = (c \div 4) \div 32
      OBVIOUS
    <3> QED BY <3>1, <3>2, <3>3, <3>4
  <2>4. Bit(c, 0) <=> Bit(b, 0)
    BY <2>3, BitsAre
  <2>5. Bit(c, 1)
    BY <2>3, BitsAre
  <2>6. Bit(c, 2) <=> Bit(b, 2)
    BY <2>3, BitsAre
  <2>7. Bit(c, 3) <=> Bit(b, 3)
    BY <2>3, BitsAre
  <2>8. Bit(c, 4) <=> Bit(b, 4)
    BY <2>3, BitsAre
  <2>9. Bit(c, 5) <=> Bit(b, 5)
    BY <2>3, BitsAre
  <2>10. Bit(c, 6) <=> Bit(b, 6)
    BY <2>3, BitsAre
  <2>11. Bit(c, 7) <=> Bit(b, 7)
    BY <2>3, BitsAre
  <2>12. ASSUME NEW i \in 0 .. 7
         PROVE  Bit(c, i) <=> (i = 1 \/ Bit(b, i))
    BY EightBits, <2>4, <2>5, <2>6, <2>7, <2>8, <2>9, <2>10, <2>11
  <2> QED BY <2>2, <2>12
<1> QED BY <1>1, <1>2

(* A step of a key that meets a mouse_read is remembered.                  *)
LEMMA FollowIs ==
    ASSUME CtrInv, NEW meets, NEW typed, Follow(meets, typed)
    PROVE  bios' = bios /\ raced' \in BOOLEAN /\ (~raced' => ~raced /\ ~meets)
BY DEF Follow, CtrInv

LEMMA AppendEntry ==
    ASSUME NEW q \in Seq(Entry), NEW e \in Entry
    PROVE  /\ Append(q, e) \in Seq(Entry) /\ Len(Append(q, e)) = Len(q) + 1
           /\ Append(q, e)[Len(q) + 1] = e
           /\ \A i \in 1 .. Len(q) : Append(q, e)[i] = q[i]
BY AppendProperties

LEMMA TailEntry ==
    ASSUME NEW q \in Seq(Entry), q # <<>>
    PROVE  /\ Tail(q) \in Seq(Entry) /\ Len(Tail(q)) = Len(q) - 1 /\ Len(q) \in Nat \ {0}
           /\ Head(q) = q[1] /\ Head(q) \in Entry
           /\ \A i \in 1 .. Len(q) - 1 : Tail(q)[i] = q[i + 1]
BY HeadTailProperties, EmptySeq

(* Steps that change nothing the invariant looks at but the buffer's flag, *)
(* which only falls.                                                       *)
LEMMA QuietStep ==
    ASSUME CtrInv, obf' => obf,
           UNCHANGED <<ctr, data, aux, kq, mq, unanswered, reporting, status, bios, raced, bpc>>
    PROVE  CtrInv'
BY DEF CtrInv, OnlyKeys, AnswerArrives, CtrIs, Configured

LEMMA KeyEventStep ==
    ASSUME CtrInv, NEW k \in Keys, KeyEvent(k)
    PROVE  CtrInv'
<1>1. /\ kq' = Append(kq, Scancode(k))
      /\ UNCHANGED <<ctr, obf, data, aux, mq, unanswered, reporting, status, bpc>>
  BY DEF KeyEvent, mouseVars, bootVars
<1>2. bios' = bios /\ raced' \in BOOLEAN /\ (~raced' => ~raced /\ bpc \notin MouseReads)
  BY FollowIs DEF KeyEvent
<1>3. Scancode(k) \in Entry /\ Scancode(k).key /\ Scancode(k).byte \in Keys
  BY Ps2Assumption DEF Scancode, Entry
<1>4. /\ kq' \in Seq(Entry) /\ Len(kq') = Len(kq) + 1 /\ kq'[Len(kq) + 1] = Scancode(k)
      /\ \A i \in 1 .. Len(kq) : kq'[i] = kq[i]
  BY <1>1, <1>3, AppendEntry DEF CtrInv
<1>5. OnlyKeys'
  <2>1. SUFFICES ASSUME bpc \in {"early", "enable_aux", "ask_ctr"}
                 PROVE  \A i \in 1 .. Len(kq) + 1 : kq'[i].key /\ kq'[i].byte \in Keys
    BY <1>1, <1>4 DEF OnlyKeys, CtrInv
  <2>2. \A i \in 1 .. Len(kq) : kq'[i].key /\ kq'[i].byte \in Keys
    BY <1>4, <2>1 DEF OnlyKeys, CtrInv
  <2>3. Len(kq) \in Nat
    BY DEF CtrInv
  <2> QED BY <1>3, <1>4, <2>2, <2>3
<1>6. AnswerArrives' /\ CtrIs'
  BY <1>1, <1>2 DEF CtrInv, AnswerArrives, CtrIs, MouseReads, Configured
<1> QED BY <1>2, <1>4, <1>5, <1>6 DEF CtrInv

LEMMA PresentKbdStep ==
    ASSUME CtrInv, PresentKbd
    PROVE  CtrInv'
<1>1. /\ ~obf /\ kq # <<>> /\ aux' = FALSE /\ data' = Head(kq).byte /\ kq' = Tail(kq)
      /\ UNCHANGED <<ctr, mq, unanswered, reporting, status, bios, raced, bpc>>
  BY DEF PresentKbd, CanPresentKbd, mouseVars, bootVars, ghostVars
<1>2. /\ kq' \in Seq(Entry) /\ Len(kq') = Len(kq) - 1 /\ Len(kq) \in Nat \ {0}
      /\ Head(kq) = kq[1] /\ \A i \in 1 .. Len(kq) - 1 : kq'[i] = kq[i + 1]
  BY <1>1, TailEntry DEF CtrInv
<1>3. OnlyKeys'
  <2>1. SUFFICES ASSUME bpc \in {"early", "enable_aux", "ask_ctr"}
                 PROVE  /\ \A i \in 1 .. Len(kq) - 1 : kq'[i].key /\ kq'[i].byte \in Keys
                        /\ kq[1].byte \in Keys
    BY <1>1, <1>2 DEF OnlyKeys, CtrInv
  <2>2. \A i \in 1 .. Len(kq) : kq[i].key /\ kq[i].byte \in Keys
    BY <2>1 DEF OnlyKeys, CtrInv
  <2> QED BY <1>2, <2>2
<1>4. AnswerArrives'
  <2>1. SUFFICES ASSUME bpc \in {"ctr_wait", "ctr_read"}, ~raced
                 PROVE  kq' = <<>> /\ data' = ctr
    BY <1>1 DEF CtrInv, AnswerArrives
  <2>2. kq = <<Answer(ctr)>>
    BY <1>1, <2>1 DEF CtrInv, AnswerArrives
  <2>3. Head(kq) = Answer(ctr) /\ Tail(kq) = <<>>
    BY <2>2
  <2> QED BY <1>1, <2>3 DEF Answer
<1>5. CtrIs'
  BY <1>1 DEF CtrInv, CtrIs
<1> QED BY <1>1, <1>2, <1>3, <1>4, <1>5 DEF CtrInv

LEMMA MouseStep ==
    ASSUME CtrInv, PresentMouse \/ MouseAnswers \/ MouseMove
    PROVE  CtrInv'
<1>1. UNCHANGED <<ctr, kq, status, bios, raced, bpc>>
  BY DEF PresentMouse, MouseAnswers, MouseMove, bootVars, ghostVars
<1>2. ~(bpc \in {"early", "enable_aux", "ask_ctr"})
  BY DEF CtrInv, OnlyKeys, PresentMouse, CanPresentMouse, MouseAnswers, MouseMove
<1>3. ~(bpc \in {"ctr_wait", "ctr_read"} /\ ~raced)
  BY DEF CtrInv, AnswerArrives, PresentMouse, CanPresentMouse, MouseAnswers, MouseMove
<1> QED BY <1>1, <1>2, <1>3 DEF CtrInv, OnlyKeys, AnswerArrives, CtrIs

(* The steps of mouse_init.                                                *)
LEMMA AskCtrStep ==
    ASSUME CtrInv, AskCtr
    PROVE  CtrInv'
<1>1. /\ bpc = "ask_ctr" /\ bpc' = "ctr_wait" /\ kq' = Append(kq, Answer(ctr))
      /\ UNCHANGED <<ctr, obf, data, aux, mq, unanswered, reporting, status>>
  BY DEF AskCtr, Goto, mouseVars
<1>2. bios' = bios /\ raced' \in BOOLEAN /\ (~raced' => ~raced /\ ~KeyUnderWay)
  BY FollowIs DEF AskCtr
<1>3. ctr \in Int
  <2>1. ctr = MouseOn(bios) /\ bios \in 0 .. 255
    BY <1>1 DEF CtrInv, CtrIs
  <2>2. MouseOn(bios) \in 0 .. 255
    BY <2>1, MouseOnBits
  <2> QED BY <2>1, <2>2
<1>4. kq' \in Seq(Entry)
  BY <1>1, <1>3, AppendEntry DEF CtrInv, Answer, Entry
<1>5. ~raced' => ~obf /\ kq = <<>>
  <2>1. SUFFICES ASSUME ~KeyUnderWay PROVE ~obf /\ kq = <<>>
    BY <1>2
  <2>2. ~obf
    BY <1>1, <2>1 DEF CtrInv, OnlyKeys, KeyUnderWay
  <2>3. \A i \in 1 .. Len(kq) : FALSE
    BY <1>1, <2>1 DEF CtrInv, OnlyKeys, KeyUnderWay
  <2>4. kq = <<>>
    BY <2>3, EmptySeq DEF CtrInv
  <2> QED BY <2>2, <2>4
<1>6. AnswerArrives'
  BY <1>1, <1>2, <1>5 DEF CtrInv, OnlyKeys, AnswerArrives
<1>7. OnlyKeys' /\ CtrIs'
  BY <1>1, <1>2 DEF CtrInv, OnlyKeys, CtrIs, Configured
<1> QED BY <1>2, <1>4, <1>6, <1>7 DEF CtrInv

LEMMA PollStep ==
    ASSUME CtrInv, Poll
    PROVE  CtrInv'
<1>1. /\ bpc \in {"ctr_wait", "ack1_wait", "ack2_wait"}
      /\ bpc' = bpc \/ bpc' = ReadOf[bpc]
      /\ ~CanPresentKbd
      /\ UNCHANGED <<ctr, obf, data, aux, kq, mq, unanswered, reporting, status, bios, raced>>
  BY DEF Poll, ReadOf, ctrlVars, mouseVars, ghostVars
<1>2. /\ bpc = "ctr_wait" => bpc' \in {"ctr_wait", "ctr_read"}
      /\ bpc = "ack1_wait" => bpc' \in {"ack1_wait", "ack1_read"}
      /\ bpc = "ack2_wait" => bpc' \in {"ack2_wait", "ack2_read"}
  BY <1>1 DEF ReadOf
<1>3. kq # <<Answer(ctr)>> \/ obf
  <2>1. SUFFICES ASSUME kq = <<Answer(ctr)>>, ~obf PROVE FALSE
    OBVIOUS
  <2>2. Head(kq) = Answer(ctr) /\ kq # <<>>
    BY <2>1
  <2> QED BY <1>1, <2>1, <2>2 DEF CanPresentKbd, Answer
<1>4. AnswerArrives'
  BY <1>1, <1>2, <1>3 DEF CtrInv, AnswerArrives
<1>5. OnlyKeys' /\ CtrIs'
  BY <1>1, <1>2 DEF CtrInv, OnlyKeys, CtrIs, Configured
<1> QED BY <1>1, <1>4, <1>5 DEF CtrInv

LEMMA BootStep ==
    ASSUME CtrInv, Boot
    PROVE  CtrInv'
<1>1. CASE KeyboardInit
  BY <1>1 DEF KeyboardInit, Goto, ctrlVars, mouseVars, ghostVars, CtrInv, OnlyKeys,
              AnswerArrives, CtrIs, Configured
<1>2. CASE EnableAux
  BY <1>2 DEF EnableAux, Goto, mouseVars, ghostVars, MouseOn, CtrInv, OnlyKeys,
              AnswerArrives, CtrIs, Configured
<1>3. CASE ReadCtr
  BY <1>3 DEF ReadCtr, Goto, mouseVars, ghostVars, CtrInv, OnlyKeys,
              AnswerArrives, CtrIs, Configured
<1>4. CASE WriteCtr
  BY <1>4 DEF WriteCtr, Goto, mouseVars, ghostVars, CtrInv, OnlyKeys,
              AnswerArrives, CtrIs, Configured
<1>5. ASSUME NEW from \in {"set_defaults", "enable_mouse"}, NEW to \in {"ack1_wait", "ack2_wait"},
             NEW enable, MouseWrite(from, to, enable)
      PROVE  CtrInv'
  <2>1. bios' = bios /\ raced' \in BOOLEAN /\ (~raced' => ~raced)
    BY <1>5, FollowIs DEF MouseWrite
  <2>2. bpc = from /\ bpc' = to /\ UNCHANGED <<ctr, obf, data, aux, kq, mq, status>>
    BY <1>5 DEF MouseWrite, Goto, ctrlVars
  <2> QED BY <2>1, <2>2 DEF CtrInv, OnlyKeys, AnswerArrives, CtrIs, Configured
<1>6. ASSUME NEW from \in {"ack1_read", "ack2_read"}, NEW to \in {"enable_mouse", "run"},
             ReadAck(from, to)
      PROVE  CtrInv'
  BY <1>6 DEF ReadAck, Goto, mouseVars, ghostVars, CtrInv, OnlyKeys, AnswerArrives,
              CtrIs, Configured
<1> QED BY <1>1, <1>2, <1>3, <1>4, <1>5, <1>6, AskCtrStep, PollStep DEF Boot

LEMMA AlwaysCtr == Spec => []CtrInv
<1>1. Init => CtrInv
  <2> SUFFICES ASSUME Init PROVE CtrInv
    OBVIOUS
  <2>1. bios \in 0 .. 255 /\ raced \in BOOLEAN /\ ctr = bios /\ bpc = "early"
    <3>1. bios \in BiosCtrs /\ raced = FALSE /\ ctr = bios /\ bpc = "early"
      BY DEF Init
    <3>2. BiosCtrs \subseteq 0 .. 255
      BY Ps2Assumption
    <3> QED BY <3>1, <3>2
  <2>2. kq = <<>> /\ Len(kq) = 0 /\ kq \in Seq(Entry)
    BY DEF Init
  <2>3. OnlyKeys
    BY <2>2 DEF Init, OnlyKeys
  <2> QED BY <2>1, <2>2, <2>3 DEF CtrInv, AnswerArrives, CtrIs, Configured
<1>2. CtrInv /\ [Next]_ps2Vars => CtrInv'
  <2> SUFFICES ASSUME CtrInv, [Next]_ps2Vars PROVE CtrInv'
    OBVIOUS
  <2>1. CASE Irq1 \/ Reader \/ UNCHANGED ps2Vars
    BY <2>1, QuietStep DEF Irq1, KeyboardHandler, Reader, ps2Vars, ctrlVars, mouseVars,
                           bootVars, ghostVars
  <2> QED BY <2>1, KeyEventStep, PresentKbdStep, MouseStep, BootStep DEF Next
<1> QED BY <1>1, <1>2, PTL DEF Spec

(* mouse_init turns the mouse's interrupt on and the mouse, and keeps the  *)
(* rest of the configuration the firmware chose, also when                 *)
(* keyboard_handler reads the controller's answer before it does.          *)
THEOREM CtrIsKept == Spec => []CtrKept
<1>1. ASSUME CtrInv PROVE CtrKept
  <2>1. SUFFICES ASSUME bpc \in Configured, ~raced, NEW i \in 0 .. 7
                 PROVE  Bit(ctr, i) <=> (i = 1 \/ (i # 5 /\ Bit(bios, i)))
    BY DEF CtrKept
  <2>2. ctr = WithAuxIrq(MouseOn(bios)) /\ bios \in 0 .. 255
    BY <1>1, <2>1 DEF CtrInv, CtrIs
  <2>3. MouseOn(bios) \in 0 .. 255 /\ (Bit(MouseOn(bios), i) <=> (i # 5 /\ Bit(bios, i)))
    BY <2>2, MouseOnBits
  <2>4. Bit(WithAuxIrq(MouseOn(bios)), i) <=> (i = 1 \/ Bit(MouseOn(bios), i))
    BY <2>3, WithAuxIrqBits
  <2> QED BY <2>2, <2>3, <2>4
<1> QED BY <1>1, AlwaysCtr, PTL

------------------------------------------------------------------------------
(* What was typed.                                                         *)

AckReads == {"ack1_wait", "ack1_read", "ack2_wait", "ack2_read"}

(* Other than while the answer of the controller is awaited, what is under *)
(* way from the keyboard's side are keys.                                  *)
KeysUnderWay ==
    bpc \notin {"ctr_wait", "ctr_read"} /\ ~raced =>
      /\ \A i \in 1 .. Len(kq) : kq[i].key /\ kq[i].byte \in Keys
      /\ obf /\ ~aux => data \in Keys

(* While mouse_read waits for the mouse the keyboard has nothing to say.   *)
NoKeyInAckReads == bpc \in AckReads /\ ~raced => kq = <<>> /\ ~(obf /\ ~aux) /\ ~irq1

(* A pending interrupt announces a byte of the keyboard's side, or a byte  *)
(* that somebody read before the handler came: then the handler finds the  *)
(* controller's answer or an acknowledgement, never a movement.            *)
LateIrq ==
    ~raced /\ irq1 /\ ~(obf /\ ~aux) => data \notin DOMAIN Layout /\ ~reporting

AcksOnly == mq \in Seq(Int) /\ (~reporting => \A i \in 1 .. Len(mq) : mq[i] = Ack)

KeyInv ==
    /\ bios \in BiosCtrs /\ data \in Int
    /\ KeysUnderWay /\ NoKeyInAckReads /\ LateIrq /\ AcksOnly

(* The answer of the controller is no scancode of a character.             *)
LEMMA AnswerNoChar ==
    ASSUME CtrInv, KeyInv, bpc \in {"ask_ctr", "ctr_wait", "ctr_read"}
    PROVE  ctr \in Int /\ ctr \notin DOMAIN Layout
<1>1. ctr = MouseOn(bios) /\ bios \in 0 .. 255 /\ Bit(bios, 6)
  BY TranslationOn DEF CtrInv, CtrIs, KeyInv
<1>2. MouseOn(bios) \in 0 .. 255 /\ Bit(MouseOn(bios), 6)
  <2>1. /\ MouseOn(bios) \in 0 .. 255
        /\ \A i \in 0 .. 7 : Bit(MouseOn(bios), i) <=> (i # 5 /\ Bit(bios, i))
    BY <1>1, MouseOnBits
  <2>2. Bit(MouseOn(bios), 6) <=> (6 # 5 /\ Bit(bios, 6))
    <3>1. 6 \in 0 .. 7
      OBVIOUS
    <3> QED BY <2>1, <3>1, Zenon
  <2> QED BY <1>1, <2>1, <2>2
<1>3. PICK c \in 0 .. 255 : c = ctr /\ Bit(c, 6)
  BY <1>1, <1>2
<1>4. (c \div 64) % 2 = 1
  BY <1>3, BitsAre
<1>5. c \notin 0 .. 63
  BY <1>4
<1> QED BY <1>3, <1>5, Ps2Assumption

LEMMA MouseByteIs ==
    ASSUME NEW q \in Seq(Int), q # <<>>
    PROVE  /\ Tail(q) \in Seq(Int) /\ Len(Tail(q)) = Len(q) - 1 /\ Len(q) \in Nat \ {0}
           /\ Head(q) = q[1] /\ Head(q) \in Int
           /\ \A i \in 1 .. Len(q) - 1 : Tail(q)[i] = q[i + 1]
BY HeadTailProperties, EmptySeq

LEMMA KeyEventKeeps ==
    ASSUME CtrInv, KeyInv, NEW k \in Keys, KeyEvent(k)
    PROVE  KeyInv'
<1>1. /\ kq' = Append(kq, Scancode(k))
      /\ UNCHANGED <<obf, data, aux, mq, irq1, reporting, bpc>>
  BY DEF KeyEvent, mouseVars, bootVars
<1>2. bios' = bios /\ raced' \in BOOLEAN /\ (~raced' => ~raced /\ bpc \notin MouseReads)
  BY FollowIs DEF KeyEvent
<1>3. Scancode(k) \in Entry /\ Scancode(k).key /\ Scancode(k).byte \in Keys
  BY Ps2Assumption DEF Scancode, Entry
<1>4. /\ Len(kq') = Len(kq) + 1 /\ kq'[Len(kq) + 1] = Scancode(k) /\ Len(kq) \in Nat
      /\ \A i \in 1 .. Len(kq) : kq'[i] = kq[i]
  BY <1>1, <1>3, AppendEntry DEF CtrInv
<1>5. KeysUnderWay'
  <2>1. SUFFICES ASSUME bpc \notin {"ctr_wait", "ctr_read"}, ~raced
                 PROVE  \A i \in 1 .. Len(kq) + 1 : kq'[i].key /\ kq'[i].byte \in Keys
    BY <1>1, <1>2, <1>4 DEF KeysUnderWay, KeyInv
  <2>2. \A i \in 1 .. Len(kq) : kq'[i].key /\ kq'[i].byte \in Keys
    BY <1>4, <2>1 DEF KeysUnderWay, KeyInv
  <2> QED BY <1>3, <1>4, <2>2
<1>6. NoKeyInAckReads' /\ LateIrq' /\ AcksOnly'
  BY <1>1, <1>2 DEF KeyInv, NoKeyInAckReads, LateIrq, AcksOnly, AckReads, MouseReads
<1> QED BY <1>1, <1>2, <1>5, <1>6 DEF KeyInv

LEMMA PresentKbdKeeps ==
    ASSUME CtrInv, KeyInv, PresentKbd
    PROVE  KeyInv'
<1>1. /\ kq # <<>> /\ obf' = TRUE /\ aux' = FALSE /\ data' = Head(kq).byte /\ kq' = Tail(kq)
      /\ UNCHANGED <<mq, reporting, bpc, bios, raced>>
  BY DEF PresentKbd, CanPresentKbd, mouseVars, bootVars, ghostVars
<1>2. /\ Len(kq') = Len(kq) - 1 /\ Len(kq) \in Nat \ {0}
      /\ Head(kq) = kq[1] /\ Head(kq) \in Entry
      /\ \A i \in 1 .. Len(kq) - 1 : kq'[i] = kq[i + 1]
  BY <1>1, TailEntry DEF CtrInv
<1>3. data' \in Int
  BY <1>1, <1>2 DEF Entry
<1>4. KeysUnderWay'
  <2>1. SUFFICES ASSUME bpc \notin {"ctr_wait", "ctr_read"}, ~raced
                 PROVE  /\ \A i \in 1 .. Len(kq) - 1 : kq'[i].key /\ kq'[i].byte \in Keys
                        /\ kq[1].byte \in Keys
    BY <1>1, <1>2 DEF KeysUnderWay
  <2>2. \A i \in 1 .. Len(kq) : kq[i].key /\ kq[i].byte \in Keys
    BY <2>1 DEF KeysUnderWay, KeyInv
  <2> QED BY <1>2, <2>2
<1>5. NoKeyInAckReads' /\ LateIrq' /\ AcksOnly'
  BY <1>1 DEF KeyInv, NoKeyInAckReads, LateIrq, AcksOnly
<1> QED BY <1>1, <1>3, <1>4, <1>5 DEF KeyInv

LEMMA MouseKeeps ==
    ASSUME KeyInv, PresentMouse \/ MouseAnswers \/ MouseMove
    PROVE  KeyInv'
<1>1. UNCHANGED <<kq, irq1, reporting, bpc, bios, raced>>
  BY DEF PresentMouse, MouseAnswers, MouseMove, mouseVars, bootVars, ghostVars
<1>2. CASE PresentMouse
  <2>1. mq # <<>> /\ ~obf /\ obf' = TRUE /\ aux' = TRUE /\ data' = Head(mq) /\ mq' = Tail(mq)
    BY <1>2 DEF PresentMouse, CanPresentMouse
  <2>2. /\ mq' \in Seq(Int) /\ Len(mq') = Len(mq) - 1 /\ Len(mq) \in Nat \ {0}
        /\ Head(mq) = mq[1] /\ Head(mq) \in Int
        /\ \A i \in 1 .. Len(mq) - 1 : mq'[i] = mq[i + 1]
    BY <2>1, MouseByteIs DEF KeyInv, AcksOnly
  <2>3. AcksOnly'
    <3>1. ASSUME ~reporting, NEW i \in 1 .. Len(mq) - 1 PROVE mq'[i] = Ack
      <4>1. i + 1 \in 1 .. Len(mq)
        BY <2>2
      <4> QED BY <2>2, <3>1, <4>1 DEF KeyInv, AcksOnly
    <3> QED BY <1>1, <2>2, <3>1 DEF AcksOnly
  <2>4. ~reporting => data' \notin DOMAIN Layout
    <3>1. 1 \in 1 .. Len(mq)
      BY <2>2
    <3>2. ~reporting => data' = 250
      BY <2>1, <2>2, <3>1 DEF KeyInv, AcksOnly, Ack
    <3>3. 250 \notin DOMAIN Layout
      BY Ps2Assumption
    <3> QED BY <3>2, <3>3
  <2>5. LateIrq'
    BY <1>1, <2>1, <2>4 DEF KeyInv, LateIrq
  <2>6. KeysUnderWay' /\ NoKeyInAckReads'
    BY <1>1, <2>1 DEF KeyInv, KeysUnderWay, NoKeyInAckReads
  <2> QED BY <1>1, <2>1, <2>2, <2>3, <2>5, <2>6 DEF KeyInv
<1>3. CASE MouseAnswers \/ MouseMove
  <2>1. UNCHANGED <<obf, data, aux>>
    BY <1>3 DEF MouseAnswers, MouseMove
  <2>2. AcksOnly'
    <3>1. CASE MouseAnswers
      <4>1. mq' = Append(mq, Ack) /\ mq \in Seq(Int) /\ Ack \in Int
        BY <3>1 DEF MouseAnswers, KeyInv, AcksOnly, Ack
      <4>2. /\ mq' \in Seq(Int) /\ Len(mq') = Len(mq) + 1 /\ Len(mq) \in Nat
            /\ mq'[Len(mq) + 1] = Ack /\ \A i \in 1 .. Len(mq) : mq'[i] = mq[i]
        BY <4>1, AppendProperties
      <4>3. ASSUME ~reporting, NEW i \in 1 .. Len(mq) + 1 PROVE mq'[i] = Ack
        <5>1. i \in 1 .. Len(mq) \/ i = Len(mq) + 1
          BY <4>2
        <5> QED BY <4>2, <4>3, <5>1 DEF KeyInv, AcksOnly
      <4> QED BY <1>1, <4>2, <4>3 DEF AcksOnly
    <3>2. CASE MouseMove
      BY <1>1, <3>2 DEF MouseMove, AcksOnly, Movement
    <3> QED BY <1>3, <3>1, <3>2
  <2> QED BY <1>1, <2>1, <2>2 DEF KeyInv, KeysUnderWay, NoKeyInAckReads, LateIrq
<1> QED BY <1>2, <1>3

LEMMA BootKeeps ==
    ASSUME CtrInv, KeyInv, Boot
    PROVE  KeyInv'
<1>1. CASE KeyboardInit \/ EnableAux
  <2>1. /\ UNCHANGED <<obf, data, aux, kq, mq, irq1, reporting, bios, raced>>
        /\ bpc \in {"early", "enable_aux"} /\ bpc' \in {"enable_aux", "ask_ctr"}
    BY <1>1 DEF KeyboardInit, EnableAux, Goto, ctrlVars, mouseVars, ghostVars
  <2> QED BY <2>1 DEF KeyInv, KeysUnderWay, NoKeyInAckReads, LateIrq, AcksOnly, AckReads
<1>2. CASE AskCtr
  <2>1. bpc' = "ctr_wait" /\ UNCHANGED <<obf, data, aux, mq, irq1, reporting>>
    BY <1>2 DEF AskCtr, Goto, mouseVars
  <2>2. bios' = bios /\ (~raced' => ~raced)
    BY <1>2, FollowIs DEF AskCtr
  <2> QED BY <2>1, <2>2 DEF KeyInv, KeysUnderWay, NoKeyInAckReads, LateIrq, AcksOnly, AckReads
<1>3. CASE Poll
  <2>1. /\ bpc \in {"ctr_wait", "ack1_wait", "ack2_wait"}
        /\ bpc' = bpc \/ bpc' = ReadOf[bpc]
        /\ UNCHANGED <<obf, data, aux, kq, mq, irq1, reporting, bios, raced>>
    BY <1>3 DEF Poll, ReadOf, ctrlVars, mouseVars, ghostVars
  <2>2. /\ bpc = "ctr_wait" => bpc' \in {"ctr_wait", "ctr_read"}
        /\ bpc = "ack1_wait" => bpc' \in {"ack1_wait", "ack1_read"}
        /\ bpc = "ack2_wait" => bpc' \in {"ack2_wait", "ack2_read"}
    BY <2>1 DEF ReadOf
  <2> QED BY <2>1, <2>2 DEF KeyInv, KeysUnderWay, NoKeyInAckReads, LateIrq, AcksOnly, AckReads
<1>4. CASE ReadCtr
  <2>1. /\ bpc = "ctr_read" /\ bpc' = "write_ctr" /\ obf' = FALSE
        /\ UNCHANGED <<data, aux, kq, mq, irq1, reporting, bios, raced>>
    BY <1>4 DEF ReadCtr, Goto, mouseVars, ghostVars
  <2>2. ~raced => kq = <<>> /\ data = ctr /\ reporting = FALSE
    BY <2>1 DEF CtrInv, AnswerArrives
  <2>3. ~raced => data \notin DOMAIN Layout
    BY <2>1, <2>2, AnswerNoChar
  <2>4. ~raced => Len(kq) = 0
    BY <2>2
  <2>5. KeysUnderWay'
    BY <2>1, <2>4 DEF KeysUnderWay
  <2> QED BY <2>1, <2>2, <2>3, <2>5 DEF KeyInv, NoKeyInAckReads, LateIrq, AcksOnly, AckReads
<1>5. CASE WriteCtr
  <2>1. /\ bpc = "write_ctr" /\ bpc' = "set_defaults" /\ (irq1' => irq1 \/ (obf /\ ~aux))
        /\ UNCHANGED <<obf, data, aux, kq, mq, reporting, bios, raced>>
    BY <1>5 DEF WriteCtr, Goto, mouseVars, ghostVars
  <2> QED BY <2>1 DEF KeyInv, KeysUnderWay, NoKeyInAckReads, LateIrq, AcksOnly, AckReads
<1>6. ASSUME NEW from \in {"set_defaults", "enable_mouse"}, NEW to \in {"ack1_wait", "ack2_wait"},
             NEW enable, MouseWrite(from, to, enable)
      PROVE  KeyInv'
  <2>1. /\ bpc = from /\ bpc' = to /\ ~irq1 /\ (~reporting' => ~reporting)
        /\ UNCHANGED <<obf, data, aux, kq, mq, irq1>>
    BY <1>6 DEF MouseWrite, Goto, ctrlVars
  <2>2. bios' = bios /\ (~raced' => ~raced /\ ~KeyUnderWay)
    BY <1>6, FollowIs DEF MouseWrite
  <2>3. ~raced' => ~(obf /\ ~aux) /\ \A i \in 1 .. Len(kq) : FALSE
    BY <2>1, <2>2 DEF KeyInv, KeysUnderWay, KeyUnderWay
  <2>4. ~raced' => kq = <<>>
    BY <2>3, EmptySeq DEF CtrInv
  <2>5. KeysUnderWay' /\ NoKeyInAckReads'
    BY <2>1, <2>2, <2>3, <2>4 DEF KeyInv, KeysUnderWay, NoKeyInAckReads
  <2>6. LateIrq' /\ AcksOnly'
    BY <2>1 DEF KeyInv, LateIrq, AcksOnly
  <2> QED BY <2>1, <2>2, <2>5, <2>6 DEF KeyInv
<1>7. ASSUME NEW from \in {"ack1_read", "ack2_read"}, NEW to \in {"enable_mouse", "run"},
             ReadAck(from, to)
      PROVE  KeyInv'
  <2>1. /\ bpc = from /\ bpc' = to /\ obf' = FALSE
        /\ UNCHANGED <<data, aux, kq, mq, irq1, reporting, bios, raced>>
    BY <1>7 DEF ReadAck, Goto, mouseVars, ghostVars
  <2>2. ~raced => ~irq1 /\ Len(kq) = 0
    BY <2>1 DEF KeyInv, NoKeyInAckReads, AckReads
  <2>3. KeysUnderWay' /\ NoKeyInAckReads' /\ LateIrq'
    BY <2>1, <2>2 DEF KeysUnderWay, NoKeyInAckReads, LateIrq, AckReads
  <2> QED BY <2>1, <2>3 DEF KeyInv, AcksOnly
<1> QED BY <1>1, <1>2, <1>3, <1>4, <1>5, <1>6, <1>7 DEF Boot

LEMMA AlwaysKeys == Spec => []KeyInv
<1>1. Init => KeyInv
  <2> SUFFICES ASSUME Init PROVE KeyInv
    OBVIOUS
  <2>1. /\ bios \in BiosCtrs /\ data \in Int /\ bpc = "early" /\ irq1 = FALSE /\ obf = FALSE
        /\ kq = <<>> /\ Len(kq) = 0 /\ mq = <<>> /\ Len(mq) = 0 /\ mq \in Seq(Int)
    BY DEF Init
  <2> QED BY <2>1 DEF KeyInv, KeysUnderWay, NoKeyInAckReads, LateIrq, AcksOnly, AckReads
<1>2. CtrInv /\ KeyInv /\ [Next]_ps2Vars => KeyInv'
  <2> SUFFICES ASSUME CtrInv, KeyInv, [Next]_ps2Vars PROVE KeyInv'
    OBVIOUS
  <2>1. CASE Irq1 \/ Reader \/ UNCHANGED ps2Vars
    <3>1. /\ obf' => obf
          /\ irq1' => irq1 /\ obf' = obf
          /\ UNCHANGED <<data, aux, kq, mq, reporting, bios, raced, bpc>>
      BY <2>1 DEF Irq1, KeyboardHandler, Reader, ps2Vars, ctrlVars, mouseVars, bootVars, ghostVars
    <3> QED BY <3>1 DEF KeyInv, KeysUnderWay, NoKeyInAckReads, LateIrq, AcksOnly
  <2> QED BY <2>1, KeyEventKeeps, PresentKbdKeeps, MouseKeeps, BootKeeps DEF Next
<1> QED BY <1>1, <1>2, AlwaysCtr, PTL DEF Spec

------------------------------------------------------------------------------
(* The characters of a sequence of bytes.  CharsOf is a recursive function *)
(* of the length of a prefix; that there is one, and one only, is shown by *)
(* the least length for which it would not be so.                          *)

IsCharsUpTo(q, n, f) ==
    /\ f \in [0 .. n -> Seq(Chars)]
    /\ f[0] = <<>>
    /\ \A i \in 1 .. n : f[i] = f[i - 1] \o CharOf(q[i])

LEMMA CharOfIs ==
    ASSUME NEW e \in Entry
    PROVE  CharOf(e) \in Seq(Chars)
<1>1. CASE e.key /\ e.byte \in DOMAIN Layout
  <2>1. PICK c \in Chars : c = Layout[e.byte]
    BY <1>1, Ps2Assumption
  <2> QED BY <1>1, <2>1 DEF CharOf
<1>2. CASE ~(e.key /\ e.byte \in DOMAIN Layout)
  BY <1>2 DEF CharOf
<1> QED BY <1>1, <1>2

LEMMA CharsAssociative ==
    ASSUME NEW x \in Seq(Chars), NEW y \in Seq(Chars), NEW z \in Seq(Chars)
    PROVE  (x \o y) \o z = x \o (y \o z)
BY ConcatAssociative

LEMMA CharsUpToExist ==
    ASSUME NEW q \in Seq(Entry)
    PROVE  \E f : IsCharsUpTo(q, Len(q), f)
<1> DEFINE B == {n \in 0 .. Len(q) : ~\E f : IsCharsUpTo(q, n, f)}
<1>1. SUFFICES ASSUME B # {} PROVE FALSE
  <2>1. Len(q) \in 0 .. Len(q)
    OBVIOUS
  <2>2. Len(q) \notin B => \E f : IsCharsUpTo(q, Len(q), f)
    BY <2>1
  <2> QED BY <2>2
<1>2. PICK n \in B : \A m \in B : n <= m
  <2>1. B \subseteq Nat
    OBVIOUS
  <2> HIDE DEF B
  <2> QED BY <1>1, <2>1, LeastNatural
<1>3. n \in Nat /\ n <= Len(q) /\ ~\E f : IsCharsUpTo(q, n, f)
  OBVIOUS
<1>4. n # 0
  <2>1. IsCharsUpTo(q, 0, [i \in 0 .. 0 |-> <<>>])
    BY DEF IsCharsUpTo
  <2> QED BY <1>3, <2>1
<1>5. PICK m \in Nat : m = n - 1 /\ m + 1 = n
  BY <1>3, <1>4
<1>6. m \notin B /\ m \in 0 .. Len(q)
  <2>1. m \in 0 .. Len(q) /\ ~(n <= m)
    BY <1>3, <1>5
  <2> HIDE DEF B
  <2> QED BY <1>2, <2>1
<1>7. PICK f : IsCharsUpTo(q, m, f)
  BY <1>6
<1>8. f \in [0 .. m -> Seq(Chars)] /\ f[0] = <<>> /\ \A i \in 1 .. m : f[i] = f[i - 1] \o CharOf(q[i])
  BY <1>7 DEF IsCharsUpTo
<1> DEFINE g == [i \in 0 .. n |-> IF i = n THEN f[m] \o CharOf(q[n]) ELSE f[i]]
<1>9. f[m] \o CharOf(q[n]) \in Seq(Chars)
  <2>1. q[n] \in Entry
    BY <1>3, <1>4
  <2>2. CharOf(q[n]) \in Seq(Chars) /\ f[m] \in Seq(Chars)
    BY <1>8, <2>1, CharOfIs
  <2> QED BY <2>2, ConcatProperties
<1>10. g \in [0 .. n -> Seq(Chars)]
  <2>1. ASSUME NEW i \in 0 .. n PROVE g[i] \in Seq(Chars)
    <3>1. CASE i = n
      BY <1>9, <3>1
    <3>2. CASE i # n
      <4>1. i \in 0 .. m
        BY <1>5, <3>2
      <4> QED BY <1>8, <3>2, <4>1
    <3> QED BY <3>1, <3>2
  <2> QED BY <2>1
<1>11. g[0] = <<>>
  BY <1>4, <1>5, <1>8
<1>12. ASSUME NEW i \in 1 .. n PROVE g[i] = g[i - 1] \o CharOf(q[i])
  <2>1. i - 1 \in 0 .. n /\ i - 1 # n /\ g[i - 1] = f[i - 1]
    BY <1>5
  <2>2. CASE i = n
    <3>1. n \in 0 .. n /\ i - 1 = m
      BY <1>3, <1>5, <2>2
    <3>2. g[n] = f[m] \o CharOf(q[n])
      BY <3>1
    <3> HIDE DEF g
    <3> QED BY <2>1, <2>2, <3>1, <3>2
  <2>3. CASE i # n
    <3>1. i \in 1 .. m /\ g[i] = f[i]
      BY <1>5, <2>3
    <3> QED BY <1>8, <2>1, <3>1
  <2> QED BY <2>2, <2>3
<1>13. IsCharsUpTo(q, n, g)
  <2> HIDE DEF g
  <2> QED BY <1>10, <1>11, <1>12 DEF IsCharsUpTo
<1> QED BY <1>3, <1>13

LEMMA CharsOfIs ==
    ASSUME NEW q \in Seq(Entry), NEW f, IsCharsUpTo(q, Len(q), f)
    PROVE  CharsOf(q) = f[Len(q)] /\ CharsOf(q) \in Seq(Chars)
<1> DEFINE D == 0 .. Len(q)
           body(h, i) == IF i = 0 THEN <<>> ELSE h[i - 1] \o CharOf(q[i])
           g == CHOOSE h : h = [i \in D |-> body(h, i)]
<1>1. /\ f \in [D -> Seq(Chars)] /\ f[0] = <<>>
      /\ \A i \in 1 .. Len(q) : f[i] = f[i - 1] \o CharOf(q[i])
  BY DEF IsCharsUpTo
<1>2. ASSUME NEW i \in D PROVE f[i] = body(f, i)
  <2>1. i # 0 => i \in 1 .. Len(q)
    OBVIOUS
  <2> QED BY <1>1, <2>1
<1>3. f = [i \in D |-> body(f, i)]
  <2>1. f = [i \in D |-> f[i]]
    BY <1>1
  <2> QED BY <1>2, <2>1, Zenon
<1>4. g = [i \in D |-> body(g, i)]
  BY <1>3, Zenon
<1>5. CharsOf(q) = g[Len(q)]
  BY DEF CharsOf
<1> HIDE DEF g
<1>6. ASSUME NEW i \in D PROVE g[i] = body(g, i)
  BY <1>4, Zenon
<1>7. \A i \in D : g[i] = f[i]
  <2> DEFINE B == {i \in D : g[i] # f[i]}
  <2>1. SUFFICES ASSUME B # {} PROVE FALSE
    OBVIOUS
  <2>2. PICK n \in B : \A m \in B : n <= m
    <3>1. B \subseteq Nat
      OBVIOUS
    <3> HIDE DEF B
    <3> QED BY <2>1, <3>1, LeastNatural
  <2>3. n \in D /\ g[n] # f[n]
    OBVIOUS
  <2>4. n # 0
    BY <1>2, <1>6, <2>3
  <2>5. n - 1 \in D /\ ~(n <= n - 1)
    BY <2>3, <2>4
  <2>6. g[n - 1] = f[n - 1]
    BY <2>2, <2>5
  <2>7. body(g, n) = body(f, n)
    BY <2>6
  <2> HIDE DEF body
  <2> QED BY <1>2, <1>6, <2>3, <2>7
<1>8. Len(q) \in D
  OBVIOUS
<1> QED BY <1>1, <1>5, <1>7, <1>8

LEMMA CharsOfEmpty == CharsOf(<<>>) = <<>>
<1>1. <<>> \in Seq(Entry) /\ Len(<<>>) = 0
  OBVIOUS
<1>2. IsCharsUpTo(<<>>, 0, [i \in 0 .. 0 |-> <<>>])
  BY DEF IsCharsUpTo
<1>3. PICK f : IsCharsUpTo(<<>>, 0, f)
  BY <1>2
<1>4. CharsOf(<<>>) = f[0]
  BY <1>1, <1>3, CharsOfIs
<1> QED BY <1>3, <1>4 DEF IsCharsUpTo

LEMMA CharsOfType ==
    ASSUME NEW q \in Seq(Entry)
    PROVE  CharsOf(q) \in Seq(Chars)
<1>1. PICK f : IsCharsUpTo(q, Len(q), f)
  BY CharsUpToExist
<1> QED BY <1>1, CharsOfIs

LEMMA CharsOfAppend ==
    ASSUME NEW q \in Seq(Entry), NEW e \in Entry
    PROVE  CharsOf(Append(q, e)) = CharsOf(q) \o CharOf(e)
<1>1. PICK n \in Nat : n = Len(q)
  OBVIOUS
<1>2. PICK p \in Seq(Entry) : /\ p = Append(q, e) /\ Len(p) = n + 1 /\ p[n + 1] = e
                              /\ \A i \in 1 .. n : p[i] = q[i]
  BY <1>1, AppendEntry
<1>3. PICK f : IsCharsUpTo(p, n + 1, f)
  BY <1>2, CharsUpToExist
<1>4. /\ f \in [0 .. n + 1 -> Seq(Chars)] /\ f[0] = <<>>
      /\ \A i \in 1 .. n + 1 : f[i] = f[i - 1] \o CharOf(p[i])
  BY <1>3 DEF IsCharsUpTo
<1> DEFINE g == [i \in 0 .. n |-> f[i]]
<1>5. IsCharsUpTo(q, n, g)
  <2>1. g \in [0 .. n -> Seq(Chars)] /\ g[0] = <<>>
    BY <1>4
  <2>2. ASSUME NEW i \in 1 .. n PROVE g[i] = g[i - 1] \o CharOf(q[i])
    <3>1. i \in 1 .. n + 1 /\ g[i] = f[i] /\ g[i - 1] = f[i - 1] /\ p[i] = q[i]
      BY <1>2
    <3> HIDE DEF g
    <3> QED BY <1>4, <3>1
  <2> HIDE DEF g
  <2> QED BY <2>1, <2>2 DEF IsCharsUpTo
<1>6. g[n] = f[n]
  OBVIOUS
<1> HIDE DEF g
<1>7. CharsOf(q) = f[n]
  BY <1>1, <1>5, <1>6, CharsOfIs
<1>8. CharsOf(p) = f[n + 1]
  BY <1>2, <1>3, CharsOfIs
<1>9. f[n + 1] = f[n] \o CharOf(e)
  <2>1. n + 1 \in 1 .. n + 1 /\ (n + 1) - 1 = n
    OBVIOUS
  <2> QED BY <1>2, <1>4, <2>1
<1> QED BY <1>2, <1>7, <1>8, <1>9

LEMMA CharsOfFirst ==
    ASSUME NEW q \in Seq(Entry), NEW r \in Seq(Entry), NEW e \in Entry,
           Len(q) = Len(r) + 1, q[1] = e, \A i \in 1 .. Len(r) : q[i + 1] = r[i]
    PROVE  CharsOf(q) = CharOf(e) \o CharsOf(r)
<1>1. PICK n \in Nat : n = Len(r)
  OBVIOUS
<1>2. PICK f : IsCharsUpTo(r, n, f)
  BY <1>1, CharsUpToExist
<1>3. /\ f \in [0 .. n -> Seq(Chars)] /\ f[0] = <<>>
      /\ \A i \in 1 .. n : f[i] = f[i - 1] \o CharOf(r[i])
  BY <1>2 DEF IsCharsUpTo
<1>4. PICK c \in Seq(Chars) : c = CharOf(e)
  BY CharOfIs
<1> DEFINE g == [i \in 0 .. n + 1 |-> IF i = 0 THEN <<>> ELSE c \o f[i - 1]]
<1>5. g \in [0 .. n + 1 -> Seq(Chars)]
  <2>1. ASSUME NEW i \in 0 .. n + 1 PROVE g[i] \in Seq(Chars)
    <3>1. CASE i = 0
      BY <3>1
    <3>2. CASE i # 0
      <4>1. i - 1 \in 0 .. n
        BY <3>2
      <4>2. c \o f[i - 1] \in Seq(Chars)
        BY <1>3, <4>1, ConcatProperties
      <4> QED BY <3>2, <4>2
    <3> QED BY <3>1, <3>2
  <2> QED BY <2>1
<1>6. ASSUME NEW i \in 1 .. n + 1 PROVE g[i] = g[i - 1] \o CharOf(q[i])
  <2>1. g[i] = c \o f[i - 1]
    OBVIOUS
  <2>2. CASE i = 1
    <3>1. f[i - 1] = <<>> /\ g[i - 1] = <<>> /\ CharOf(q[i]) = c
      BY <1>3, <1>4, <2>2
    <3> HIDE DEF g
    <3>2. c \o <<>> = c /\ <<>> \o c = c
      BY ConcatEmptySeq
    <3> QED BY <2>1, <3>1, <3>2
  <2>3. CASE i # 1
    <3>1. PICK j \in 1 .. n : j = i - 1
      BY <2>3
    <3>2. q[i] = r[j] /\ g[j] = c \o f[j - 1] /\ f[j] = f[j - 1] \o CharOf(r[j])
      <4>1. j + 1 = i /\ q[j + 1] = r[j]
        BY <1>1, <3>1
      <4>2. j \in 0 .. n + 1 /\ j # 0
        OBVIOUS
      <4>3. g[j] = c \o f[j - 1]
        BY <4>2
      <4> HIDE DEF g
      <4> QED BY <1>3, <4>1, <4>3
    <3>3. PICK x \in Seq(Chars), y \in Seq(Chars) : x = f[j - 1] /\ y = CharOf(r[j])
      <4>1. j - 1 \in 0 .. n /\ r[j] \in Entry
        BY <1>1, <3>1
      <4> QED BY <1>3, <4>1, CharOfIs
    <3> HIDE DEF g
    <3>4. (c \o x) \o y = c \o (x \o y)
      BY CharsAssociative
    <3> QED BY <2>1, <3>1, <3>2, <3>3, <3>4
  <2> QED BY <2>2, <2>3
<1>7. g[0] = <<>> /\ g[n + 1] = c \o f[n]
  OBVIOUS
<1> HIDE DEF g
<1>8. IsCharsUpTo(q, n + 1, g)
  BY <1>5, <1>6, <1>7 DEF IsCharsUpTo
<1>9. CharsOf(q) = g[n + 1]
  BY <1>1, <1>8, CharsOfIs
<1>10. CharsOf(r) = f[n]
  BY <1>1, <1>2, CharsOfIs
<1> QED BY <1>4, <1>7, <1>9, <1>10

LEMMA CharsOfTail ==
    ASSUME NEW q \in Seq(Entry), q # <<>>
    PROVE  CharsOf(q) = CharOf(Head(q)) \o CharsOf(Tail(q))
<1>1. PICK r \in Seq(Entry) : r = Tail(q)
  BY TailEntry
<1>2. PICK e \in Entry : e = Head(q)
  BY TailEntry
<1>3. Len(q) = Len(r) + 1 /\ q[1] = e /\ \A i \in 1 .. Len(r) : q[i + 1] = r[i]
  BY <1>1, <1>2, TailEntry
<1>4. CharsOf(q) = CharOf(e) \o CharsOf(r)
  BY <1>3, CharsOfFirst
<1> QED BY <1>1, <1>2, <1>4

------------------------------------------------------------------------------
(* What is expected, step by step.  The parts are the ring, the character  *)
(* in the output buffer and those in the keyboard.                         *)

Any == Chars \cup {NoChar}
BufferChars == IF obf /\ ~aux /\ data \in DOMAIN Layout THEN <<Layout[data]>> ELSE <<>>

LEMMA InParts ==
    CtrInv /\ KeyInv =>
      /\ CharsOf(InBuffer \o kq) = BufferChars \o CharsOf(kq)
      /\ BufferChars \in Seq(Any) /\ CharsOf(kq) \in Seq(Any)
<1> SUFFICES ASSUME CtrInv, KeyInv
             PROVE  /\ CharsOf(InBuffer \o kq) = BufferChars \o CharsOf(kq)
                    /\ BufferChars \in Seq(Any) /\ CharsOf(kq) \in Seq(Any)
  OBVIOUS
<1>1. kq \in Seq(Entry) /\ data \in Int
  BY DEF CtrInv, KeyInv
<1>2. CharsOf(kq) \in Seq(Chars) /\ Seq(Chars) \subseteq Seq(Any)
  BY <1>1, CharsOfType DEF Any
<1>3. CASE obf /\ ~aux
  <2>1. PICK e \in Entry : e = [byte |-> data, key |-> TRUE] /\ e.byte = data /\ e.key
    <3>1. [byte |-> data, key |-> TRUE] \in Entry
      BY <1>1 DEF Entry
    <3>2. [byte |-> data, key |-> TRUE].byte = data /\ [byte |-> data, key |-> TRUE].key
      OBVIOUS
    <3> QED BY <3>1, <3>2
  <2>2. InBuffer = <<e>>
    BY <1>3, <2>1 DEF InBuffer
  <2> DEFINE q == <<e>> \o kq
  <2>3. /\ q \in Seq(Entry) /\ Len(q) = Len(kq) + 1 /\ q[1] = e
        /\ \A i \in 1 .. Len(kq) : q[i + 1] = kq[i]
    <3>1. <<e>> \in Seq(Entry) /\ Len(<<e>>) = 1 /\ <<e>>[1] = e
      OBVIOUS
    <3>2. /\ q \in Seq(Entry) /\ Len(q) = 1 + Len(kq) /\ Len(kq) \in Nat
          /\ \A i \in 1 .. 1 + Len(kq) : q[i] = IF i <= 1 THEN <<e>>[i] ELSE kq[i - 1]
      BY <1>1, <3>1, ConcatProperties
    <3> HIDE DEF q
    <3>3. ASSUME NEW i \in 1 .. Len(kq) PROVE q[i + 1] = kq[i]
      BY <3>2
    <3> QED BY <3>1, <3>2, <3>3
  <2> HIDE DEF q
  <2>4. CharsOf(q) = CharOf(e) \o CharsOf(kq)
    BY <1>1, <2>3, CharsOfFirst
  <2>5. CharOf(e) = BufferChars
    BY <1>3, <2>1 DEF CharOf, BufferChars
  <2>6. CharOf(e) \in Seq(Chars)
    BY CharOfIs
  <2> QED BY <1>2, <2>2, <2>4, <2>5, <2>6 DEF q
<1>4. CASE ~(obf /\ ~aux)
  <2>1. InBuffer = <<>> /\ BufferChars = <<>>
    BY <1>4 DEF InBuffer, BufferChars
  <2>2. InBuffer \o kq = kq /\ BufferChars \o CharsOf(kq) = CharsOf(kq)
    BY <1>1, <1>2, <2>1, ConcatEmptySeq
  <2> QED BY <1>2, <2>1, <2>2
<1> QED BY <1>3, <1>4

(* The equation of KeysInOrder in these parts.                             *)
Typed == expected = Waiting \o (BufferChars \o CharsOf(kq))

LEMMA WaitingType == RingInv => Waiting \in Seq(Any) /\ Len(Waiting) = Used
BY BufferIsRing, WaitingIsRing, RingContents DEF RingInv, Any, Used, RingUsed

(* Facts about three sequences in a row: one more at the end, the middle   *)
(* one moves to the front part or is dropped, the first one is dropped.    *)
LEMMA JoinIs ==
    ASSUME NEW S, NEW x \in Seq(S), NEW y \in Seq(S)
    PROVE  /\ x \o y \in Seq(S) /\ Len(x \o y) = Len(x) + Len(y)
           /\ Len(x) \in Nat /\ Len(y) \in Nat
           /\ \A i \in 1 .. Len(x) : (x \o y)[i] = x[i]
           /\ \A i \in 1 .. Len(y) : (x \o y)[Len(x) + i] = y[i]
OBVIOUS

LEMMA AnyAssociative ==
    ASSUME NEW x \in Seq(Any), NEW y \in Seq(Any), NEW z \in Seq(Any)
    PROVE  (x \o y) \o z = x \o (y \o z)
BY ConcatAssociative

LEMMA AppendLast ==
    ASSUME NEW w \in Seq(Any), NEW b \in Seq(Any), NEW q \in Seq(Any), NEW c \in Any
    PROVE  Append(w \o (b \o q), c) = w \o (b \o (q \o <<c>>))
<1>1. ASSUME NEW x \in Seq(Any), NEW y \in Seq(Any)
      PROVE  Append(x \o y, c) = x \o Append(y, c)
  <2>1. Append(y, c) = y \o <<c>> /\ x \o y \in Seq(Any) /\ <<c>> \in Seq(Any)
    OBVIOUS
  <2>2. Append(x \o y, c) = (x \o y) \o <<c>>
    OBVIOUS
  <2>3. PICK z \in Seq(Any) : z = <<c>>
    BY <2>1
  <2>4. (x \o y) \o z = x \o (y \o z)
    BY <2>3, AnyAssociative, ZenonT(60)
  <2> QED BY <2>1, <2>2, <2>3, <2>4
<1>2. Append(q, c) = q \o <<c>>
  OBVIOUS
<1>3. b \o q \in Seq(Any)
  OBVIOUS
<1>4. Append(w \o (b \o q), c) = w \o Append(b \o q, c)
  BY <1>1, <1>3, Zenon
<1>5. Append(b \o q, c) = b \o Append(q, c)
  BY <1>1
<1> QED BY <1>2, <1>4, <1>5

LEMMA MiddleToFront ==
    ASSUME NEW w \in Seq(Any), NEW q \in Seq(Any), NEW c \in Any
    PROVE  Append(w, c) \o (<<>> \o q) = w \o (<<c>> \o q)
OBVIOUS

LEMMA WithoutIs ==
    ASSUME NEW S, NEW s \in Seq(S), NEW k \in 1 .. Len(s)
    PROVE  /\ Without(s, k) \in Seq(S) /\ Len(Without(s, k)) = Len(s) - 1
           /\ \A j \in 1 .. Len(s) - 1 : Without(s, k)[j] = IF j < k THEN s[j] ELSE s[j + 1]
<1>1. PICK n \in Nat : n = Len(s) - 1
  OBVIOUS
<1>2. ASSUME NEW j \in 1 .. n PROVE (IF j < k THEN s[j] ELSE s[j + 1]) \in S
  BY <1>1
<1>3. Without(s, k) = [j \in 1 .. n |-> IF j < k THEN s[j] ELSE s[j + 1]]
  BY <1>1 DEF Without
<1> QED BY <1>1, <1>2, <1>3

LEMMA DropMiddle ==
    ASSUME NEW w \in Seq(Any), NEW q \in Seq(Any), NEW c \in Any
    PROVE  /\ Len(w) + 1 \in DOMAIN (w \o (<<c>> \o q))
           /\ Without(w \o (<<c>> \o q), Len(w) + 1) = w \o (<<>> \o q)
<1> DEFINE t == <<c>> \o q
           s == w \o t
           u == w \o q
<1>1. PICK n \in Nat, m \in Nat : n = Len(w) /\ m = Len(q)
  OBVIOUS
<1>2. t \in Seq(Any) /\ Len(t) = m + 1 /\ \A i \in 1 .. m : t[i + 1] = q[i]
  <2>1. <<c>> \in Seq(Any) /\ Len(<<c>>) = 1
    OBVIOUS
  <2>2. t \in Seq(Any) /\ Len(t) = 1 + m /\ \A i \in 1 .. m : t[1 + i] = q[i]
    BY <1>1, <2>1, JoinIs
  <2> HIDE DEF t
  <2> QED BY <2>2
<1> HIDE DEF t
<1>3. /\ s \in Seq(Any) /\ Len(s) = n + (m + 1)
      /\ \A i \in 1 .. n : s[i] = w[i]
      /\ \A i \in 1 .. m + 1 : s[n + i] = t[i]
  <2>1. /\ s \in Seq(Any) /\ Len(s) = Len(w) + Len(t)
        /\ \A i \in 1 .. Len(w) : s[i] = w[i]
        /\ \A i \in 1 .. Len(t) : s[Len(w) + i] = t[i]
    <3>1. PICK y \in Seq(Any) : y = t
      BY <1>2
    <3> QED BY <3>1, JoinIs
  <2> HIDE DEF s
  <2> QED BY <1>1, <1>2, <2>1
<1>4. /\ u \in Seq(Any) /\ Len(u) = n + m
      /\ \A i \in 1 .. n : u[i] = w[i]
      /\ \A i \in 1 .. m : u[n + i] = q[i]
  BY <1>1, JoinIs
<1> HIDE DEF s, u
<1>5. n + 1 \in 1 .. Len(s)
  BY <1>3
<1>6. /\ Without(s, n + 1) \in Seq(Any) /\ Len(Without(s, n + 1)) = n + m
      /\ \A j \in 1 .. n + m : Without(s, n + 1)[j] = IF j < n + 1 THEN s[j] ELSE s[j + 1]
  <2>1. /\ Without(s, n + 1) \in Seq(Any) /\ Len(Without(s, n + 1)) = Len(s) - 1
        /\ \A j \in 1 .. Len(s) - 1 : Without(s, n + 1)[j] = IF j < n + 1 THEN s[j] ELSE s[j + 1]
    BY <1>3, <1>5, WithoutIs
  <2>2. Len(s) - 1 = n + m
    BY <1>3
  <2> QED BY <2>1, <2>2
<1>7. ASSUME NEW j \in 1 .. n + m PROVE Without(s, n + 1)[j] = u[j]
  <2>1. CASE j \in 1 .. n
    BY <1>3, <1>4, <1>6, <2>1
  <2>2. CASE j \notin 1 .. n
    <3>1. PICK i \in 1 .. m : j = n + i
      BY <2>2
    <3>2. s[j + 1] = t[i + 1]
      <4>1. i + 1 \in 1 .. m + 1 /\ n + (i + 1) = j + 1
        BY <3>1
      <4> QED BY <1>3, <4>1
    <3>3. Without(s, n + 1)[j] = s[j + 1]
      BY <1>6, <2>2
    <3> QED BY <1>2, <1>4, <3>1, <3>2, <3>3
  <2> QED BY <2>1, <2>2
<1>8. Without(s, n + 1) = u
  BY <1>4, <1>6, <1>7, SeqEqual
<1>9. <<>> \o q = q
  BY ConcatEmptySeq
<1>10. DOMAIN s = 1 .. Len(s)
  BY <1>3
<1> QED BY <1>1, <1>5, <1>8, <1>9, <1>10 DEF s, t, u

LEMMA DropFirst ==
    ASSUME NEW w \in Seq(Any), NEW q \in Seq(Any), w # <<>>
    PROVE  1 \in DOMAIN (w \o q) /\ Without(w \o q, 1) = Tail(w) \o q
<1> DEFINE t == Tail(w)
           s == w \o q
           u == t \o q
<1>1. PICK n \in Nat \ {0}, m \in Nat : n = Len(w) /\ m = Len(q)
  BY EmptySeq
<1>2. t \in Seq(Any) /\ Len(t) = n - 1 /\ \A i \in 1 .. n - 1 : t[i] = w[i + 1]
  <2>1. t \in Seq(Any) /\ Len(t) = Len(w) - 1
    BY HeadTailProperties
  <2>2. \A i \in 1 .. Len(t) : t[i] = w[i + 1]
    BY HeadTailProperties
  <2> HIDE DEF t
  <2> QED BY <1>1, <2>1, <2>2
<1> HIDE DEF t
<1>3. /\ s \in Seq(Any) /\ Len(s) = n + m
      /\ \A i \in 1 .. n : s[i] = w[i]
      /\ \A i \in 1 .. m : s[n + i] = q[i]
  BY <1>1, JoinIs
<1>4. /\ u \in Seq(Any) /\ Len(u) = (n - 1) + m
      /\ \A i \in 1 .. n - 1 : u[i] = t[i]
      /\ \A i \in 1 .. m : u[(n - 1) + i] = q[i]
  <2>1. /\ u \in Seq(Any) /\ Len(u) = Len(t) + Len(q)
        /\ \A i \in 1 .. Len(t) : u[i] = t[i]
        /\ \A i \in 1 .. Len(q) : u[Len(t) + i] = q[i]
    <3>1. PICK y \in Seq(Any) : y = t
      BY <1>2
    <3> QED BY <3>1, JoinIs
  <2> HIDE DEF u
  <2> QED BY <1>1, <1>2, <2>1
<1> HIDE DEF s, u
<1>5. 1 \in 1 .. Len(s)
  BY <1>3
<1>6. /\ Without(s, 1) \in Seq(Any) /\ Len(Without(s, 1)) = n + m - 1
      /\ \A j \in 1 .. n + m - 1 : Without(s, 1)[j] = IF j < 1 THEN s[j] ELSE s[j + 1]
  <2>1. /\ Without(s, 1) \in Seq(Any) /\ Len(Without(s, 1)) = Len(s) - 1
        /\ \A j \in 1 .. Len(s) - 1 : Without(s, 1)[j] = IF j < 1 THEN s[j] ELSE s[j + 1]
    BY <1>3, <1>5, WithoutIs
  <2>2. Len(s) - 1 = n + m - 1
    BY <1>3
  <2> QED BY <2>1, <2>2
<1>7. ASSUME NEW j \in 1 .. n + m - 1 PROVE Without(s, 1)[j] = u[j]
  <2>1. Without(s, 1)[j] = s[j + 1]
    BY <1>6
  <2>2. CASE j \in 1 .. n - 1
    <3>1. j + 1 \in 1 .. n
      BY <2>2
    <3> QED BY <1>2, <1>3, <1>4, <2>1, <2>2, <3>1
  <2>3. CASE j \notin 1 .. n - 1
    <3>1. PICK i \in 1 .. m : j = (n - 1) + i /\ j + 1 = n + i
      BY <2>3
    <3> QED BY <1>3, <1>4, <2>1, <3>1
  <2> QED BY <2>2, <2>3
<1>8. Without(s, 1) = u
  BY <1>4, <1>6, <1>7, SeqEqual
<1>9. DOMAIN s = 1 .. Len(s)
  BY <1>3
<1> QED BY <1>5, <1>8, <1>9 DEF s, t, u

(* The equation survives every step: what leaves one part enters the next. *)
LEMMA KeyEventTyped ==
    ASSUME RingInv, CtrInv, KeyInv, ~raced', ~raced => Typed, NEW k \in Keys, KeyEvent(k)
    PROVE  Typed'
<1>1. PICK e \in Entry : e = Scancode(k) /\ e.byte = k /\ e.key
  <2>1. Scancode(k) \in Entry
    BY Ps2Assumption DEF Scancode, Entry
  <2>2. Scancode(k).byte = k /\ Scancode(k).key
    BY DEF Scancode
  <2> QED BY <2>1, <2>2
<1>2. kq' = Append(kq, e) /\ Waiting' = Waiting /\ BufferChars' = BufferChars
  BY <1>1 DEF KeyEvent, ringVars, Waiting, Used, BufferChars
<1>3. /\ ~raced
      /\ expected' = IF k \in DOMAIN Layout THEN Append(expected, Layout[k]) ELSE expected
  BY DEF KeyEvent, Follow
<1>4. CharsOf(kq') = CharsOf(kq) \o CharOf(e)
  BY <1>2, CharsOfAppend DEF CtrInv
<1>5. PICK w \in Seq(Any), b \in Seq(Any), q \in Seq(Any) :
        w = Waiting /\ b = BufferChars /\ q = CharsOf(kq)
  BY InParts, WaitingType
<1>6. CASE k \in DOMAIN Layout
  <2>1. PICK c \in Any : c = Layout[k] /\ CharOf(e) = <<c>>
    BY <1>1, <1>6, Ps2Assumption DEF CharOf, Any
  <2>2. Append(w \o (b \o q), c) = w \o (b \o (q \o <<c>>))
    BY AppendLast
  <2> QED BY <1>2, <1>3, <1>4, <1>5, <1>6, <2>1, <2>2 DEF Typed
<1>7. CASE k \notin DOMAIN Layout
  <2>1. CharOf(e) = <<>> /\ q \o <<>> = q
    BY <1>1, <1>7, ConcatEmptySeq DEF CharOf
  <2> QED BY <1>2, <1>3, <1>4, <1>5, <1>7, <2>1 DEF Typed
<1> QED BY <1>6, <1>7

LEMMA PresentKbdTyped ==
    ASSUME RingInv, CtrInv, KeyInv, ~raced, Typed, PresentKbd
    PROVE  Typed'
<1>1. /\ kq # <<>> /\ ~obf /\ obf' /\ ~aux' /\ data' = Head(kq).byte /\ kq' = Tail(kq)
      /\ Waiting' = Waiting /\ expected' = expected
  BY DEF PresentKbd, CanPresentKbd, ringVars, Waiting, Used
<1>2. PICK e \in Entry : e = Head(kq) /\ e = kq[1] /\ 1 \in 1 .. Len(kq)
  BY <1>1, TailEntry DEF CtrInv
<1>3. ~e.key => e.byte \notin DOMAIN Layout
  <2>1. SUFFICES ASSUME ~e.key PROVE e.byte \notin DOMAIN Layout
    OBVIOUS
  <2>2. bpc \in {"ctr_wait", "ctr_read"}
    BY <1>2, <2>1 DEF KeyInv, KeysUnderWay
  <2>3. kq = <<Answer(ctr)>>
    BY <1>1, <2>2 DEF CtrInv, AnswerArrives
  <2>4. e.byte = ctr
    BY <1>2, <2>3 DEF Answer
  <2> QED BY <2>2, <2>4, AnswerNoChar
<1>4. BufferChars' = CharOf(e) /\ BufferChars = <<>>
  BY <1>1, <1>2, <1>3 DEF BufferChars, CharOf
<1>5. CharsOf(kq) = CharOf(e) \o CharsOf(kq')
  BY <1>1, <1>2, CharsOfTail DEF CtrInv
<1>6. <<>> \o CharsOf(kq) = CharsOf(kq)
  BY InParts, ConcatEmptySeq
<1> QED BY <1>1, <1>4, <1>5, <1>6 DEF Typed

LEMMA Irq1Typed ==
    ASSUME RingInv, CtrInv, KeyInv, ~raced, Typed, Irq1
    PROVE  Typed'
<1>1. irq1 /\ kq' = kq /\ data' = data /\ aux' = aux
  BY DEF Irq1
<1>2. PICK w \in Seq(Any), q \in Seq(Any) : w = Waiting /\ q = CharsOf(kq) /\ Len(w) = Used
  BY InParts, WaitingType
<1>3. CASE ~handler1
  <2>1. UNCHANGED <<obf, ringVars, expected>>
    BY <1>3 DEF Irq1
  <2>2. Waiting' = Waiting /\ BufferChars' = BufferChars
    BY <1>1, <2>1 DEF ringVars, Waiting, Used, BufferChars
  <2> QED BY <1>1, <2>1, <2>2 DEF Typed
<1>4. CASE handler1 /\ data \notin DOMAIN Layout
  <2>1. UNCHANGED <<ringVars, expected>> /\ ~obf'
    BY <1>4 DEF Irq1, KeyboardHandler
  <2>2. Waiting' = Waiting /\ expected' = expected /\ BufferChars = <<>> /\ BufferChars' = <<>>
    BY <1>1, <1>4, <2>1 DEF ringVars, Waiting, Used, BufferChars
  <2> QED BY <1>1, <2>2 DEF Typed
<1>5. CASE handler1 /\ data \in DOMAIN Layout
  <2>1. obf /\ ~aux /\ ~obf'
    BY <1>1, <1>5 DEF Irq1, KeyboardHandler, KeyInv, LateIrq
  <2>2. PICK c \in Chars : c = Layout[data] /\ c \in Any
    BY <1>5, Ps2Assumption DEF Any
  <2>3. BufferChars = <<c>> /\ BufferChars' = <<>>
    BY <1>5, <2>1, <2>2 DEF BufferChars
  <2>4. expected = w \o (<<c>> \o q)
    BY <1>2, <2>3 DEF Typed
  <2>5. Deliver(c)
    BY <1>5, <2>2 DEF Irq1, KeyboardHandler
  <2>6. CASE ~Full
    <3>1. Push(c) /\ expected' = expected
      BY <2>5, <2>6 DEF Deliver
    <3>2. Waiting' = Append(w, c)
      BY <1>2, <3>1, PushAppends DEF Appends
    <3>3. Append(w, c) \o (<<>> \o q) = w \o (<<c>> \o q)
      BY <2>2, MiddleToFront
    <3> QED BY <1>1, <1>2, <2>3, <2>4, <3>1, <3>2, <3>3 DEF Typed
  <2>7. CASE Full
    <3>1. Used = KBD_BUF_SIZE - 1
      <4>1. /\ head \in 0 .. KBD_BUF_SIZE - 1 /\ tail \in 0 .. KBD_BUF_SIZE - 1
            /\ KBD_BUF_SIZE \in Nat \ {0, 1} /\ RingSucc(KBD_BUF_SIZE, head) = tail
        BY <2>7, RingAssumption DEF RingInv, RingTypeOK, Index, Full, Succ, RingSucc
      <4>2. RingUsed(KBD_BUF_SIZE, head, tail) = KBD_BUF_SIZE - 1
        BY <4>1, RingUsedMoves
      <4> QED BY <4>2 DEF Used, RingUsed
    <3>2. UNCHANGED ringVars /\ Forget(Used + 1)
      BY <2>5, <2>7, <3>1 DEF Deliver
    <3>3. Waiting' = Waiting
      BY <3>2 DEF ringVars, Waiting, Used
    <3>4. /\ Len(w) + 1 \in DOMAIN (w \o (<<c>> \o q))
          /\ Without(w \o (<<c>> \o q), Len(w) + 1) = w \o (<<>> \o q)
      BY <2>2, DropMiddle
    <3>5. expected' = w \o (<<>> \o q)
      BY <1>2, <2>4, <3>2, <3>4 DEF Forget
    <3> QED BY <1>1, <1>2, <2>3, <3>3, <3>5 DEF Typed
  <2> QED BY <2>6, <2>7
<1> QED BY <1>3, <1>4, <1>5

LEMMA ReaderTyped ==
    ASSUME RingInv, CtrInv, KeyInv, Typed, Reader
    PROVE  Typed'
<1>1. PICK w \in Seq(Any), x \in Seq(Any) : w = Waiting /\ x = BufferChars \o CharsOf(kq)
  <2>1. /\ BufferChars \in Seq(Any) /\ CharsOf(kq) \in Seq(Any) /\ Waiting \in Seq(Any)
    BY InParts, WaitingType
  <2>2. BufferChars \o CharsOf(kq) \in Seq(Any)
    BY <2>1, ConcatProperties
  <2> QED BY <2>1, <2>2
<1>2. kq' = kq /\ BufferChars' = BufferChars
  BY DEF Reader, ctrlVars, BufferChars
<1>3. expected = w \o x
  BY <1>1 DEF Typed
<1>4. CASE PopAdvance
  <2>1. Forget(1)
    BY <1>4 DEF Reader, PopAdvance
  <2>2. w # <<>> /\ Waiting' = Tail(w)
    BY <1>1, <1>4, PopTakes DEF Takes
  <2>3. 1 \in DOMAIN (w \o x) /\ Without(w \o x, 1) = Tail(w) \o x
    BY <2>2, DropFirst
  <2> QED BY <1>1, <1>2, <1>3, <2>1, <2>2, <2>3 DEF Typed, Forget
<1>5. CASE PopTest \/ PopLoad
  <2>1. Waiting' = Waiting
    BY <1>5, PopWaits
  <2>2. Forget(0)
    BY <1>5 DEF Reader, PopTest, PopLoad
  <2>3. 0 \notin DOMAIN expected
    <3>1. w \o x \in Seq(Any)
      BY ConcatProperties
    <3> QED BY <1>3, <3>1
  <2> QED BY <1>2, <2>1, <2>2, <2>3 DEF Typed, Forget
<1> QED BY <1>4, <1>5 DEF Reader

LEMMA BootTyped ==
    ASSUME RingInv, Untouched, CtrInv, KeyInv, ~raced', ~raced => Typed, Boot
    PROVE  Typed'
<1>1. ASSUME UNCHANGED <<kq, expected, Waiting, BufferChars>>, ~raced PROVE Typed'
  BY <1>1 DEF Typed
<1>2. CASE KeyboardInit
  <2>1. Waiting' = Waiting
    BY <1>2 DEF KeyboardInit, Goto, Untouched, Waiting, Used
  <2> QED BY <1>1, <1>2, <2>1 DEF KeyboardInit, ctrlVars, ghostVars, BufferChars
<1>3. CASE EnableAux \/ Poll \/ WriteCtr
  <2>1. UNCHANGED <<kq, obf, aux, data, expected, raced, ringVars>>
    BY <1>3 DEF EnableAux, Poll, WriteCtr, ctrlVars, ghostVars
  <2> QED BY <1>1, <2>1 DEF ringVars, Waiting, Used, BufferChars
<1>4. CASE AskCtr
  <2>1. /\ bpc = "ask_ctr" /\ kq' = Append(kq, Answer(ctr)) /\ ~raced /\ expected' = expected
        /\ UNCHANGED <<obf, aux, data, ringVars>>
    BY <1>4 DEF AskCtr, Goto, Follow
  <2>2. Answer(ctr) \in Entry /\ CharOf(Answer(ctr)) = <<>>
    BY <2>1, AnswerNoChar DEF Answer, Entry, CharOf
  <2>3. CharsOf(kq') = CharsOf(kq) \o <<>>
    BY <2>1, <2>2, CharsOfAppend DEF CtrInv
  <2>4. CharsOf(kq) \o <<>> = CharsOf(kq)
    BY InParts, ConcatEmptySeq
  <2>5. Waiting' = Waiting /\ BufferChars' = BufferChars
    BY <2>1 DEF ringVars, Waiting, Used, BufferChars
  <2> QED BY <2>1, <2>3, <2>4, <2>5 DEF Typed
<1>5. CASE ReadCtr
  <2>1. bpc = "ctr_read" /\ obf' = FALSE /\ UNCHANGED <<kq, data, aux, expected, raced, ringVars>>
    BY <1>5 DEF ReadCtr, Goto, ghostVars
  <2>2. data \notin DOMAIN Layout
    BY <2>1, AnswerNoChar DEF CtrInv, AnswerArrives
  <2>3. BufferChars' = BufferChars /\ Waiting' = Waiting
    BY <2>1, <2>2 DEF BufferChars, ringVars, Waiting, Used
  <2> QED BY <1>1, <2>1, <2>3
<1>6. ASSUME NEW from, NEW to, NEW enable, MouseWrite(from, to, enable) PROVE Typed'
  <2>1. ~raced /\ expected' = expected /\ UNCHANGED <<kq, obf, aux, data, ringVars>>
    BY <1>6 DEF MouseWrite, Follow, ctrlVars
  <2> QED BY <1>1, <2>1 DEF ringVars, Waiting, Used, BufferChars
<1>7. ASSUME NEW from \in {"ack1_read", "ack2_read"}, NEW to, ReadAck(from, to) PROVE Typed'
  <2>1. bpc = from /\ obf' = FALSE /\ UNCHANGED <<kq, data, aux, expected, raced, ringVars>>
    BY <1>7 DEF ReadAck, Goto, ghostVars
  <2>2. ~(obf /\ ~aux)
    BY <2>1 DEF KeyInv, NoKeyInAckReads, AckReads
  <2>3. BufferChars' = BufferChars /\ Waiting' = Waiting
    BY <2>1, <2>2 DEF BufferChars, ringVars, Waiting, Used
  <2> QED BY <1>1, <2>1, <2>3
<1> QED BY <1>2, <1>3, <1>4, <1>5, <1>6, <1>7 DEF Boot

LEMMA MouseTyped ==
    ASSUME KeyInv, Typed, PresentMouse \/ MouseAnswers \/ MouseMove
    PROVE  Typed'
<1>1. UNCHANGED <<kq, expected, ringVars>> /\ BufferChars' = BufferChars
  BY DEF PresentMouse, CanPresentMouse, MouseAnswers, MouseMove, BufferChars
<1> QED BY <1>1 DEF Typed, ringVars, Waiting, Used

(* No character that was typed is lost, repeated, reordered or made up on  *)
(* its way from the keyboard through the controller and the ring, although *)
(* keyboard_handler and mouse_read read the same port and the mouse shares *)
(* the buffer, unless a key meets a mouse_read.                            *)
THEOREM KeysArriveInOrder == Spec => []KeysInOrder
<1>1. Init => (~raced => Typed)
  <2> SUFFICES ASSUME Init PROVE Typed
    OBVIOUS
  <2>1. IsRing(KBD_BUF_SIZE, {NoChar}, buffer, head, tail) /\ head = tail
    BY RingAssumption DEF Init, RingInit, Index, IsRing
  <2>2. Waiting = <<>>
    BY <2>1, WaitingIsRing, RingContents
  <2>3. kq = <<>> /\ expected = <<>> /\ BufferChars = <<>>
    BY DEF Init, BufferChars
  <2> QED BY <2>2, <2>3, CharsOfEmpty DEF Typed
<1>2. /\ RingInv /\ Untouched /\ CtrInv /\ KeyInv /\ (~raced => Typed) /\ [Next]_ps2Vars
      => (~raced' => Typed')
  <2> SUFFICES ASSUME RingInv, Untouched, CtrInv, KeyInv, ~raced => Typed, [Next]_ps2Vars, ~raced'
               PROVE  Typed'
    OBVIOUS
  <2>1. ASSUME NEW k \in Keys, KeyEvent(k) PROVE Typed'
    BY <2>1, KeyEventTyped
  <2>2. CASE PresentKbd \/ Irq1 \/ Reader \/ PresentMouse \/ MouseAnswers \/ MouseMove
    <3>1. ~raced
      BY <2>2 DEF PresentKbd, Irq1, Reader, PresentMouse, MouseAnswers, MouseMove, ghostVars
    <3> QED BY <2>2, <3>1, PresentKbdTyped, Irq1Typed, ReaderTyped, MouseTyped
  <2>3. CASE Boot
    BY <2>3, BootTyped
  <2>4. CASE UNCHANGED ps2Vars
    BY <2>4 DEF ps2Vars, ctrlVars, ghostVars, ringVars, Typed, BufferChars, Waiting, Used
  <2> QED BY <2>1, <2>2, <2>3, <2>4 DEF Next
<1>3. RingInv /\ CtrInv /\ KeyInv /\ (~raced => Typed) => KeysInOrder
  BY InParts DEF RingInv, Typed, KeysInOrder
<1> QED BY <1>1, <1>2, <1>3, AlwaysRing, AlwaysCtr, AlwaysKeys, PTL DEF Spec
==============================================================================

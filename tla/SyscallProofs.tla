---------------------------- MODULE SyscallProofs ----------------------------
(***************************************************************************)
(* Theorems about what the system calls of src/proc/syscall.c reach: the   *)
(* IPC queue (Ipc), for every size of the queue, every set of messages and *)
(* every layout of the address space, and the console that sys_read waits  *)
(* for (ConsoleInput), for every size of its queues.                       *)
(***************************************************************************)
EXTENDS Ipc, ConsoleInput, RingLemmas

(* IPC.                                                                    *)
(* The queue as a ring of RingLemmas.                                      *)
LEMMA WaitingIsRing ==
    /\ Waiting = RingSeq(queue, IPC_QUEUE_SIZE, head, tail)
    /\ Waiting' = RingSeq(queue', IPC_QUEUE_SIZE, head', tail')
    /\ \A i : Succ(i) = RingSucc(IPC_QUEUE_SIZE, i)
BY DEF Waiting, Used, Succ, RingSeq, RingUsed, RingSlot, RingSucc

LEMMA QueueIsRing ==
    ASSUME TypeOK
    PROVE  IsRing(IPC_QUEUE_SIZE, Msgs \cup {NoMsg}, queue, head, tail)
BY IpcAssumption DEF TypeOK, Index, IsRing

(* A send that stores appends its message; there was room for it.          *)
LEMMA SendAppends ==
    ASSUME TypeOK, NEW msg \in Msgs, ~IpcFull, SendStores(msg), UNCHANGED tail
    PROVE  /\ Waiting' = Append(Waiting, msg)
           /\ Len(Waiting) < IPC_QUEUE_SIZE - 1
           /\ Len(Waiting') = Len(Waiting) + 1
           /\ head' \in Index
<1>1. msg \in Msgs \cup {NoMsg} /\ RingSucc(IPC_QUEUE_SIZE, head) # tail
  BY WaitingIsRing DEF IpcFull
<1>2. /\ queue' = [queue EXCEPT ![head] = msg]
      /\ head' = RingSucc(IPC_QUEUE_SIZE, head) /\ tail' = tail
  BY WaitingIsRing DEF SendStores
<1>3. IsRing(IPC_QUEUE_SIZE, Msgs \cup {NoMsg}, queue', head', tail')
  BY <1>1, <1>2, QueueIsRing, RingPush
<1>4. Appends(RingSeq(queue, IPC_QUEUE_SIZE, head, tail),
              RingSeq([queue EXCEPT ![head] = msg], IPC_QUEUE_SIZE,
                      RingSucc(IPC_QUEUE_SIZE, head), tail), msg, IPC_QUEUE_SIZE - 1)
  BY <1>1, QueueIsRing, RingPush
<1>5. Appends(Waiting, Waiting', msg, IPC_QUEUE_SIZE - 1)
  BY <1>2, <1>4, WaitingIsRing
<1> QED BY <1>3, <1>5 DEF Appends, IsRing, Index

(* A receive that delivers takes the oldest message.                       *)
LEMMA RecvTakes ==
    ASSUME TypeOK, NEW addr, ~IpcEmpty, RecvDelivers(addr), ~clobbered'
    PROVE  /\ Waiting # <<>>
           /\ received' = Head(Waiting)
           /\ Waiting' = Tail(Waiting)
           /\ Len(Waiting') = Len(Waiting) - 1
           /\ tail' \in Index
<1>1. head # tail /\ received' = queue[tail]
  BY DEF IpcEmpty, RecvDelivers
<1>2. queue' = queue /\ head' = head /\ tail' = RingSucc(IPC_QUEUE_SIZE, tail)
  BY WaitingIsRing DEF RecvDelivers, StoresOutside, StoresInside
<1>3. IsRing(IPC_QUEUE_SIZE, Msgs \cup {NoMsg}, queue', head', tail')
  BY <1>1, <1>2, QueueIsRing, RingPop
<1>4. Takes(RingSeq(queue, IPC_QUEUE_SIZE, head, tail),
            RingSeq(queue, IPC_QUEUE_SIZE, head, RingSucc(IPC_QUEUE_SIZE, tail)),
            queue[tail])
  BY <1>1, QueueIsRing, RingPop
<1>5. Takes(Waiting, Waiting', received')
  BY <1>1, <1>2, <1>4, WaitingIsRing
<1> QED BY <1>3, <1>5 DEF Takes, IsRing, Index

------------------------------------------------------------------------------
(* The addresses of a word that user_ptr_ok accepts: the sum did not wrap. *)
LEMMA WordBelowLimit ==
    ASSUME NEW addr \in 0 .. AddrSpace - 1, UserPtrOk(addr, MsgSize)
    PROVE  WordAt(addr) \subseteq 1 .. KernelBase - 1
<1>1. PICK a \in Nat, k \in Nat, m \in Nat : a = AddrSpace /\ k = KernelBase /\ m = MsgSize
  BY IpcAssumption
<1>2. 0 < k /\ k <= a /\ 0 < m /\ m < a /\ addr \in 0 .. a - 1
  BY <1>1, IpcAssumption
<1>3. addr # 0 /\ (addr + m) % a >= addr /\ (addr + m) % a < k
  BY <1>1 DEF UserPtrOk
<1>4. addr + m < a
  <2>1. SUFFICES ASSUME addr + m >= a PROVE FALSE
    BY <1>2
  <2>2. (addr + m) % a = addr + m - a
    BY <1>2, <2>1
  <2> QED BY <1>2, <1>3, <2>2
<1>5. (addr + m) % a = addr + m
  BY <1>2, <1>4
<1>6. ASSUME NEW i \in 0 .. m - 1
      PROVE  (addr + i) % a \in 1 .. k - 1
  <2>1. addr + i \in 1 .. k - 1 /\ addr + i < a
    BY <1>2, <1>3, <1>4, <1>5
  <2>2. (addr + i) % a = addr + i
    BY <1>2, <2>1
  <2> QED BY <2>1, <2>2
<1> QED BY <1>1, <1>6 DEF WordAt

(* Init and the steps of the two system calls keep the types and the       *)
(* promise about the written addresses.                                    *)
LEMMA SendStep ==
    ASSUME WritesBelowLimit, NEW msg \in Msgs, Send(msg)
    PROVE  WritesBelowLimit'
<1>1. TypeOK' /\ written' = {}
  <2>0. TypeOK
    BY DEF Send, WritesBelowLimit
  <2>1. CASE IpcFull
    BY <2>0, <2>1 DEF Send, TypeOK
  <2>2. CASE ~IpcFull
    <3>1. SendStores(msg) /\ UNCHANGED tail
      BY <2>2 DEF Send
    <3>2. head' \in Index
      BY <2>0, <2>2, <3>1, SendAppends
    <3> QED BY <2>0, <2>2, <3>1, <3>2 DEF Send, SendStores, TypeOK
  <2> QED BY <2>1, <2>2
<1> QED BY <1>1 DEF WritesBelowLimit

LEMMA RecvStep ==
    ASSUME WritesBelowLimit, NEW addr \in 0 .. AddrSpace - 1, Recv(addr)
    PROVE  WritesBelowLimit'
<1>0. TypeOK
  BY DEF Recv, WritesBelowLimit
<1>1. CASE ~UserPtrOk(addr, MsgSize) \/ IpcEmpty
  BY <1>0, <1>1 DEF WritesBelowLimit, Recv, RecvRefused, TypeOK
<1>2. CASE UserPtrOk(addr, MsgSize) /\ ~IpcEmpty
  <2>1. RecvDelivers(addr)
    BY <1>2 DEF Recv
  <2>2. written' \subseteq 1 .. KernelBase - 1
    BY <1>2, <2>1, WordBelowLimit DEF RecvDelivers
  <2>3. ASSUME ~clobbered' PROVE TypeOK'
    <3>1. tail' \in Index
      BY <1>0, <1>2, <2>1, <2>3, RecvTakes
    <3>2. UNCHANGED <<queue, head>>
      BY <2>1, <2>3 DEF RecvDelivers, StoresOutside, StoresInside
    <3> QED BY <1>0, <2>1, <3>1, <3>2 DEF TypeOK, RecvDelivers
  <2> QED BY <2>2, <2>3 DEF WritesBelowLimit
<1> QED BY <1>1, <1>2

(* Whatever pointer a task passes to SYSCALL_IPC_RECV, nothing is written  *)
(* at or above the limit of user_ptr_ok, and the indices of the queue stay *)
(* inside its array until a receive is accepted into the kernel's image,   *)
(* wherever below the limit the image lies.                                *)
THEOREM StaysBelowLimit == Spec => []WritesBelowLimit
<1>1. Init => WritesBelowLimit
  BY IpcAssumption DEF Init, WritesBelowLimit, TypeOK, Index, Ok
<1>2. WritesBelowLimit /\ [Next]_vars => WritesBelowLimit'
  <2> SUFFICES ASSUME WritesBelowLimit, [Next]_vars PROVE WritesBelowLimit'
    OBVIOUS
  <2>1. CASE \E msg \in Msgs : Send(msg)
    BY <2>1, SendStep
  <2>2. CASE \E addr \in 0 .. AddrSpace - 1 : Recv(addr)
    BY <2>2, RecvStep
  <2>3. CASE UNCHANGED vars
    BY <2>3 DEF vars, WritesBelowLimit, TypeOK
  <2> QED BY <2>1, <2>2, <2>3 DEF Next, Unfollowed
<1> QED BY <1>1, <1>2, PTL DEF Spec

------------------------------------------------------------------------------
(* What each step does to the abstract queue.                              *)
LEMMA StepEffect ==
    ASSUME WritesBelowLimit, Next, ~Unfollowed
    PROVE  \/ \E msg \in Msgs : /\ eax' = Ok
                                /\ Len(Waiting) < IPC_QUEUE_SIZE - 1
                                /\ Waiting' = Append(Waiting, msg)
                                /\ Len(Waiting') = Len(Waiting) + 1
                                /\ UNCHANGED received
           \/ /\ eax' = Ok
              /\ Waiting # <<>>
              /\ received' = Head(Waiting) /\ Waiting' = Tail(Waiting)
              /\ Len(Waiting') = Len(Waiting) - 1
           \/ eax' = Error /\ Waiting' = Waiting /\ UNCHANGED received
           \/ eax' = Ok /\ clobbered'
<1>1. CASE \E msg \in Msgs : Send(msg)
  <2>1. PICK msg \in Msgs : Send(msg)
    BY <1>1
  <2>2. CASE IpcFull
    BY <2>1, <2>2 DEF Send, Waiting, Used
  <2>3. CASE ~IpcFull
    <3>1. TypeOK /\ SendStores(msg) /\ UNCHANGED <<tail, received>>
      BY <2>1, <2>3 DEF Send, WritesBelowLimit
    <3> QED BY <2>3, <3>1, SendAppends DEF SendStores
  <2> QED BY <2>2, <2>3
<1>2. CASE \E addr \in 0 .. AddrSpace - 1 : Recv(addr)
  <2>1. PICK addr \in 0 .. AddrSpace - 1 : Recv(addr)
    BY <1>2
  <2>2. CASE ~UserPtrOk(addr, MsgSize) \/ IpcEmpty
    BY <2>1, <2>2 DEF Recv, RecvRefused, Waiting, Used
  <2>3. CASE UserPtrOk(addr, MsgSize) /\ ~IpcEmpty
    <3>1. TypeOK /\ RecvDelivers(addr)
      BY <2>1, <2>3 DEF Recv, WritesBelowLimit
    <3>2. CASE ~clobbered'
      BY <2>3, <3>1, <3>2, RecvTakes DEF RecvDelivers
    <3>3. CASE clobbered'
      BY <3>1, <3>3 DEF RecvDelivers
    <3> QED BY <3>2, <3>3
  <2> QED BY <2>2, <2>3
<1> QED BY <1>1, <1>2 DEF Next

(* The queue of ipc.c implements a first-in first-out queue of             *)
(* IPC_QUEUE_SIZE - 1 messages: every step of the system calls is one of   *)
(* BoundedFifo, up to a receive accepted into the kernel's image.          *)
THEOREM ImplementsFifo == Spec => RefinesFifo
<1>1. Init => Fifo!FifoInit
  <2> SUFFICES ASSUME Init PROVE Fifo!FifoInit
    OBVIOUS
  <2>1. IsRing(IPC_QUEUE_SIZE, {NoMsg}, queue, head, tail) /\ head = tail
    BY IpcAssumption DEF Init, Index, IsRing
  <2>3. Waiting = <<>>
    BY <2>1, WaitingIsRing, RingContents
  <2> QED BY <2>3 DEF Init, Fifo!FifoInit
<1>2. WritesBelowLimit /\ [Next]_vars => [clobbered' \/ Fifo!FifoNext]_(Fifo!fifoVars)
  <2> SUFFICES ASSUME WritesBelowLimit, [Next]_vars
               PROVE  [clobbered' \/ Fifo!FifoNext]_(Fifo!fifoVars)
    OBVIOUS
  <2>1. CASE Next /\ ~Unfollowed
    <3>1. CASE \E msg \in Msgs : /\ Len(Waiting) < IPC_QUEUE_SIZE - 1
                                 /\ Waiting' = Append(Waiting, msg)
                                 /\ UNCHANGED received
      BY <3>1 DEF Fifo!FifoNext, Fifo!FifoPush
    <3>2. CASE Waiting # <<>> /\ received' = Head(Waiting) /\ Waiting' = Tail(Waiting)
      BY <3>2 DEF Fifo!FifoNext, Fifo!FifoPop
    <3>3. CASE Waiting' = Waiting /\ UNCHANGED received
      BY <3>3 DEF Fifo!fifoVars
    <3>4. CASE clobbered'
      BY <3>4
    <3> QED BY <2>1, <3>1, <3>2, <3>3, <3>4, StepEffect
  <2>2. CASE UNCHANGED vars
    BY <2>2 DEF vars, Fifo!fifoVars, Waiting, Used
  <2> QED BY <2>1, <2>2 DEF Unfollowed
<1> QED BY <1>1, <1>2, StaysBelowLimit, PTL DEF Spec, RefinesFifo

(* The value a call returns tells what it did to the queue.                *)
THEOREM ResultCorrect == Spec => ResultTellsEffect
<1>1. WritesBelowLimit /\ [Next]_vars =>
        [/\ eax' = Error => Waiting' = Waiting /\ received' = received
         /\ eax' = Ok => \/ clobbered'
                         \/ Len(Waiting') \in {Len(Waiting) + 1, Len(Waiting) - 1}]_vars
  <2> SUFFICES ASSUME WritesBelowLimit, Next, ~Unfollowed
               PROVE  /\ eax' = Error => Waiting' = Waiting /\ received' = received
                      /\ eax' = Ok => \/ clobbered'
                                      \/ Len(Waiting') \in {Len(Waiting) + 1, Len(Waiting) - 1}
    BY DEF Unfollowed
  <2>1. Ok # Error
    BY DEF Ok, Error
  <2> QED BY <2>1, StepEffect
<1> QED BY <1>1, StaysBelowLimit, PTL DEF Spec, ResultTellsEffect

------------------------------------------------------------------------------
(* The console.  What the serial handler pushes is a recursive function of *)
(* the bytes it has read; that there is one is shown by the least number   *)
(* of bytes for which there would be none.                                 *)
Push1(x, b) == IF b = "NUL" THEN x ELSE Append(x, b)
IsDrained(s, n, f) ==
    /\ f \in [0 .. n -> Seq(RingChars)]
    /\ f[0] = <<>>
    /\ \A i \in 1 .. n : f[i] = Push1(f[i - 1], s[i])

LEMMA PushedChars ==
    ASSUME NEW x \in Seq(RingChars), NEW b \in SerialBytes
    PROVE  Push1(x, b) \in Seq(RingChars)
<1>1. CASE b = "NUL"
  BY <1>1 DEF Push1
<1>2. CASE b # "NUL"
  <2>1. PICK e \in RingChars : e = b
    BY <1>2 DEF RingChars
  <2>2. Append(x, e) \in Seq(RingChars)
    OBVIOUS
  <2> QED BY <1>2, <2>1, <2>2 DEF Push1
<1> QED BY <1>1, <1>2

LEMMA DrainedExists ==
    ASSUME NEW s \in Seq(SerialBytes)
    PROVE  \E f : IsDrained(s, Len(s), f)
<1> DEFINE B == {n \in 0 .. Len(s) : ~\E f : IsDrained(s, n, f)}
<1>1. SUFFICES ASSUME B # {} PROVE FALSE
  <2>1. Len(s) \in 0 .. Len(s)
    OBVIOUS
  <2>2. Len(s) \notin B => \E f : IsDrained(s, Len(s), f)
    BY <2>1
  <2> QED BY <2>2
<1>2. PICK n \in B : \A m \in B : n <= m
  <2>1. B \subseteq Nat
    OBVIOUS
  <2> HIDE DEF B
  <2> QED BY <1>1, <2>1, LeastNatural
<1>3. n \in Nat /\ n <= Len(s) /\ ~\E f : IsDrained(s, n, f)
  OBVIOUS
<1>4. n # 0
  <2>1. IsDrained(s, 0, [i \in 0 .. 0 |-> <<>>])
    BY DEF IsDrained
  <2> QED BY <1>3, <2>1
<1>5. PICK m \in Nat : m = n - 1 /\ m + 1 = n
  BY <1>3, <1>4
<1>6. m \notin B /\ m \in 0 .. Len(s)
  <2>1. m \in 0 .. Len(s) /\ ~(n <= m)
    BY <1>3, <1>5
  <2> HIDE DEF B
  <2> QED BY <1>2, <2>1
<1>7. PICK f : IsDrained(s, m, f)
  BY <1>6
<1>8. /\ f \in [0 .. m -> Seq(RingChars)] /\ f[0] = <<>>
      /\ \A i \in 1 .. m : f[i] = Push1(f[i - 1], s[i])
  BY <1>7 DEF IsDrained
<1>9. PICK last \in Seq(RingChars) : last = Push1(f[m], s[n])
  <2>1. s[n] \in SerialBytes /\ f[m] \in Seq(RingChars)
    BY <1>3, <1>4, <1>8
  <2> QED BY <2>1, PushedChars
<1> DEFINE g == [i \in 0 .. n |-> IF i = n THEN last ELSE f[i]]
<1>10. g \in [0 .. n -> Seq(RingChars)]
  <2>1. ASSUME NEW i \in 0 .. n PROVE g[i] \in Seq(RingChars)
    <3>1. i # n => i \in 0 .. m
      BY <1>5
    <3> QED BY <1>8, <3>1
  <2> QED BY <2>1
<1>11. g[0] = <<>>
  BY <1>4, <1>5, <1>8
<1>12. ASSUME NEW i \in 1 .. n PROVE g[i] = Push1(g[i - 1], s[i])
  <2>1. i - 1 \in 0 .. n /\ i - 1 # n /\ g[i - 1] = f[i - 1]
    BY <1>5
  <2>2. CASE i = n
    <3>1. i - 1 = m /\ g[i] = last
      BY <1>3, <1>5, <2>2
    <3> HIDE DEF g
    <3> QED BY <1>9, <2>1, <2>2, <3>1
  <2>3. CASE i # n
    <3>1. i \in 1 .. m /\ g[i] = f[i]
      BY <1>5, <2>3
    <3> QED BY <1>8, <2>1, <3>1
  <2> QED BY <2>2, <2>3
<1>13. IsDrained(s, n, g)
  <2> HIDE DEF g
  <2> QED BY <1>10, <1>11, <1>12 DEF IsDrained
<1> QED BY <1>3, <1>13

(* serial_irq_handler pushes characters, never a zero byte.                *)
LEMMA DrainedIs ==
    ASSUME NEW s \in Seq(SerialBytes)
    PROVE  Drained(s) \in Seq(RingChars)
<1> DEFINE D == 0 .. Len(s)
           body(h, i) == IF i = 0 THEN <<>>
                         ELSE IF s[i] = "NUL" THEN h[i - 1] ELSE Append(h[i - 1], s[i])
           g == CHOOSE h : h = [i \in D |-> body(h, i)]
<1>1. PICK f : IsDrained(s, Len(s), f)
  BY DrainedExists
<1>2. /\ f \in [D -> Seq(RingChars)] /\ f[0] = <<>>
      /\ \A i \in 1 .. Len(s) : f[i] = Push1(f[i - 1], s[i])
  BY <1>1 DEF IsDrained
<1>3. ASSUME NEW i \in D PROVE f[i] = body(f, i)
  <2>1. i # 0 => i \in 1 .. Len(s)
    OBVIOUS
  <2> QED BY <1>2, <2>1 DEF Push1
<1>4. f = [i \in D |-> body(f, i)]
  <2>1. f = [i \in D |-> f[i]]
    BY <1>2
  <2> QED BY <1>3, <2>1, Zenon
<1>5. g = [i \in D |-> body(g, i)]
  BY <1>4, Zenon
<1>6. Drained(s) = g[Len(s)]
  BY DEF Drained
<1> HIDE DEF g
<1>7. ASSUME NEW i \in D PROVE g[i] = body(g, i)
  BY <1>5, Zenon
<1>8. \A i \in D : g[i] = f[i]
  <2> DEFINE B == {i \in D : g[i] # f[i]}
  <2>1. SUFFICES ASSUME B # {} PROVE FALSE
    OBVIOUS
  <2>2. PICK n \in B : \A m \in B : n <= m
    <3>1. B \subseteq Nat
      OBVIOUS
    <3> HIDE DEF B
    <3> QED BY <2>1, <3>1, LeastNatural
  <2>3. n \in D /\ g[n] # f[n]
    OBVIOUS
  <2>4. n # 0
    BY <1>3, <1>7, <2>3
  <2>5. n - 1 \in D /\ ~(n <= n - 1)
    BY <2>3, <2>4
  <2>6. g[n - 1] = f[n - 1]
    BY <2>2, <2>5
  <2>7. body(g, n) = body(f, n)
    BY <2>6
  <2> HIDE DEF body
  <2> QED BY <1>3, <1>7, <2>3, <2>7
<1>9. Len(s) \in D
  OBVIOUS
<1> QED BY <1>2, <1>6, <1>8, <1>9

LEMMA ConsoleConstants ==
    /\ RingCapacity \in Nat /\ EventCapacity \in Nat /\ UartDepth \in Nat
    /\ \A size \in ReadSizes : size \in Nat /\ size > 0
BY ConsoleAssumption

(* kbd_buffer_push and input_push_key keep both queues to their sizes.     *)
LEMMA PushKeeps ==
    ASSUME ConsoleTypeOK, NEW s \in Seq(RingChars), PushAll(s)
    PROVE  /\ ring' \in Seq(RingChars) /\ Len(ring') <= RingCapacity
           /\ events' \in 0 .. EventCapacity
<1>1. PICK room \in Nat : room = RingCapacity - Len(ring)
  BY ConsoleAssumption DEF ConsoleTypeOK
<1>2. PICK n \in 0 .. Len(s) : n <= room /\ n = IF Len(s) < room THEN Len(s) ELSE room
  OBVIOUS
<1>3. PICK t : t = SubSeq(s, 1, n)
  OBVIOUS
<1>4. t \in Seq(RingChars) /\ Len(t) = n
  <2>1. 1 \in 1 .. Len(s) + 1 /\ n \in 1 - 1 .. Len(s)
    OBVIOUS
  <2> QED BY <1>3, <2>1, SubSeqProperties
<1>5. ring' = ring \o t /\ events' = IF events + Len(s) < EventCapacity
                                      THEN events + Len(s) ELSE EventCapacity
  BY <1>1, <1>2, <1>3 DEF PushAll
<1>6. ring \in Seq(RingChars) /\ events \in 0 .. EventCapacity
  BY DEF ConsoleTypeOK
<1>7. ring' \in Seq(RingChars) /\ Len(ring') = Len(ring) + Len(t)
  BY <1>4, <1>5, <1>6, ConcatProperties
<1>8. Len(ring') <= RingCapacity
  BY <1>1, <1>2, <1>4, <1>6, <1>7, ConsoleAssumption
<1>9. events' \in 0 .. EventCapacity
  BY <1>5, <1>6, ConsoleAssumption
<1> QED BY <1>7, <1>8, <1>9

LEMMA WakeKeeps ==
    ASSUME ConsoleTypeOK, Wake, UNCHANGED left
    PROVE  /\ rpc' \in {"user", "pop", "lsr", "rbr", "sleep", "hlt", "got"}
           /\ rpc' # "user" => left' > 0
           /\ rpc' = "rbr" => rpc = "rbr"
BY DEF Wake, ConsoleTypeOK

LEMMA HandlersKeep ==
    ASSUME StaleReadOnlyAfterSleep,
           \/ \E key \in Keys : KeyPress(key)
           \/ \E key \in Shifts : ShiftPress(key)
           \/ \E key \in Shifts : ShiftRelease(key)
           \/ CapsPress \/ SerialIRQ \/ TimerIRQ
    PROVE  StaleReadOnlyAfterSleep'
<1>0. ConsoleTypeOK
  BY DEF StaleReadOnlyAfterSleep
<1>1. ASSUME NEW key \in Keys, KeyPress(key) PROVE StaleReadOnlyAfterSleep'
  <2>1. PICK s \in Seq(RingChars) : PushAll(s)
    <3>1. KeyChar(key) = "NUL" \/ KeyChar(key) \in RingChars
      BY DEF KeyChar, Keys, kbdus, kbdus_shift, Letters, Newline, RingChars
    <3>2. PICK s : s = IF KeyChar(key) = "NUL" THEN <<>> ELSE <<KeyChar(key)>>
      OBVIOUS
    <3>3. PushAll(s)
      BY <1>1, <3>2 DEF KeyPress
    <3>4. s \in Seq(RingChars)
      BY <3>1, <3>2
    <3> QED BY <3>3, <3>4
  <2>2. Wake /\ iflag /\ UNCHANGED <<shift_pressed, caps_lock, held, uart, iflag, c, left>>
    BY <1>1 DEF KeyPress, keyVars
  <2>3. /\ ring' \in Seq(RingChars) /\ Len(ring') <= RingCapacity
        /\ events' \in 0 .. EventCapacity
    BY <1>0, <2>1, PushKeeps
  <2> QED BY <1>0, <2>2, <2>3, WakeKeeps DEF StaleReadOnlyAfterSleep, ConsoleTypeOK
<1>2. ASSUME NEW key \in Shifts, ShiftPress(key) PROVE StaleReadOnlyAfterSleep'
  BY <1>0, <1>2, WakeKeeps DEF ShiftPress, StaleReadOnlyAfterSleep, ConsoleTypeOK
<1>3. ASSUME NEW key \in Shifts, ShiftRelease(key) PROVE StaleReadOnlyAfterSleep'
  <2>1. shift_pressed' = FALSE
    BY <1>3 DEF ShiftRelease, ShiftAfterRelease
  <2> QED BY <1>0, <1>3, <2>1, WakeKeeps DEF ShiftRelease, StaleReadOnlyAfterSleep, ConsoleTypeOK
<1>4. CASE CapsPress
  BY <1>0, <1>4, WakeKeeps DEF CapsPress, StaleReadOnlyAfterSleep, ConsoleTypeOK
<1>5. CASE SerialIRQ
  <2>1. PICK s \in Seq(RingChars) : PushAll(s)
    BY <1>0, <1>5, DrainedIs DEF SerialIRQ, ConsoleTypeOK
  <2>2. /\ Wake /\ iflag /\ uart' = <<>>
        /\ UNCHANGED <<shift_pressed, caps_lock, held, iflag, c, left>>
    BY <1>5 DEF SerialIRQ, keyVars
  <2>3. /\ ring' \in Seq(RingChars) /\ Len(ring') <= RingCapacity
        /\ events' \in 0 .. EventCapacity
    BY <1>0, <2>1, PushKeeps
  <2>4. uart' \in Seq(SerialBytes) /\ Len(uart') <= UartDepth
    BY <2>2, ConsoleAssumption
  <2> QED BY <1>0, <2>2, <2>3, <2>4, WakeKeeps DEF StaleReadOnlyAfterSleep, ConsoleTypeOK
<1>6. CASE TimerIRQ
  BY <1>0, <1>6, WakeKeeps DEF TimerIRQ, keyVars, StaleReadOnlyAfterSleep, ConsoleTypeOK
<1> QED BY <1>1, <1>2, <1>3, <1>4, <1>5, <1>6

LEMMA ReaderKeeps ==
    ASSUME StaleReadOnlyAfterSleep,
           \/ \E b \in SerialBytes : SerialArrives(b)
           \/ \E size \in ReadSizes : SysRead(size)
           \/ Pop \/ PollStatus \/ PollData \/ Sleep \/ Store
    PROVE  StaleReadOnlyAfterSleep'
<1>0. ConsoleTypeOK
  BY DEF StaleReadOnlyAfterSleep
<1>1. ASSUME NEW b \in SerialBytes, SerialArrives(b) PROVE StaleReadOnlyAfterSleep'
  <2>1. /\ uart' = Append(uart, b) /\ Len(uart) < UartDepth /\ uart \in Seq(SerialBytes)
        /\ UNCHANGED <<shift_pressed, caps_lock, held, ring, events, rpc, iflag, c, left>>
    BY <1>0, <1>1 DEF SerialArrives, keyVars, readerVars, ConsoleTypeOK
  <2>2. /\ uart' \in Seq(SerialBytes) /\ Len(uart') = Len(uart) + 1 /\ Len(uart') <= UartDepth
        /\ uart' # <<>>
    BY <2>1, ConsoleAssumption
  <2> QED BY <1>0, <2>1, <2>2 DEF StaleReadOnlyAfterSleep, ConsoleTypeOK
<1>2. ASSUME NEW size \in ReadSizes, SysRead(size) PROVE StaleReadOnlyAfterSleep'
  <2>1. /\ rpc' = "pop" /\ iflag' = FALSE /\ left' = size /\ size \in Nat /\ size > 0
        /\ UNCHANGED <<shift_pressed, caps_lock, held, ring, events, uart, c>>
    BY <1>2, ConsoleConstants DEF SysRead, keyVars
  <2> QED BY <1>0, <2>1 DEF StaleReadOnlyAfterSleep, ConsoleTypeOK
<1>3. CASE Pop
  <2>1. /\ rpc = "pop" /\ rpc' \in {"lsr", "got"}
        /\ UNCHANGED <<shift_pressed, caps_lock, held, events, uart, iflag, left>>
    BY <1>3 DEF Pop, keyVars
  <2>2. ring' \in Seq(RingChars) /\ Len(ring') <= RingCapacity /\ c' \in RingChars \cup {c}
    <3>1. CASE ring = <<>>
      BY <1>0, <1>3, <3>1 DEF Pop, ConsoleTypeOK
    <3>2. CASE ring # <<>>
      <4>1. ring' = Tail(ring) /\ c' \in {Head(ring), c}
        BY <1>3, <3>2 DEF Pop
      <4>2. /\ ring \in Seq(RingChars) /\ Len(ring) <= RingCapacity
            /\ Head(ring) \in RingChars /\ Tail(ring) \in Seq(RingChars)
            /\ Len(Tail(ring)) = Len(ring) - 1
        BY <1>0, <3>2, HeadTailProperties DEF ConsoleTypeOK
      <4> QED BY <4>1, <4>2, ConsoleAssumption
    <3> QED BY <3>1, <3>2
  <2> QED BY <1>0, <2>1, <2>2 DEF StaleReadOnlyAfterSleep, ConsoleTypeOK
<1>4. CASE PollStatus
  BY <1>0, <1>4 DEF PollStatus, keyVars, StaleReadOnlyAfterSleep, ConsoleTypeOK
<1>5. CASE PollData
  <2>1. /\ rpc = "rbr" /\ rpc' = "got"
        /\ UNCHANGED <<shift_pressed, caps_lock, held, ring, events, iflag, left>>
    BY <1>5 DEF PollData, keyVars
  <2>2. uart' \in Seq(SerialBytes) /\ Len(uart') <= UartDepth /\ c' \in SerialBytes
    <3>1. CASE uart = <<>>
      BY <1>0, <1>5, <3>1 DEF PollData, ConsoleTypeOK
    <3>2. CASE uart # <<>>
      <4>1. uart' = Tail(uart) /\ c' = Head(uart)
        BY <1>5, <3>2 DEF PollData
      <4>2. /\ uart \in Seq(SerialBytes) /\ Len(uart) <= UartDepth
            /\ Head(uart) \in SerialBytes /\ Tail(uart) \in Seq(SerialBytes)
            /\ Len(Tail(uart)) = Len(uart) - 1
        BY <1>0, <3>2, HeadTailProperties DEF ConsoleTypeOK
      <4> QED BY <4>1, <4>2, ConsoleAssumption
    <3> QED BY <3>1, <3>2
  <2> QED BY <1>0, <2>1, <2>2 DEF StaleReadOnlyAfterSleep, ConsoleTypeOK
<1>6. CASE Sleep
  BY <1>0, <1>6 DEF Sleep, keyVars, StaleReadOnlyAfterSleep, ConsoleTypeOK
<1>7. CASE Store
  <2>1. /\ rpc = "got" /\ left' = left - 1 /\ c' = NoChar
        /\ rpc' \in {"user", "pop"} /\ (rpc' # "user" => left # 1)
        /\ iflag' \in {TRUE, iflag}
        /\ UNCHANGED <<shift_pressed, caps_lock, held, ring, events, uart>>
    BY <1>7 DEF Store, keyVars
  <2>2. left' \in Nat /\ (rpc' # "user" => left' > 0)
    BY <1>0, <2>1 DEF ConsoleTypeOK
  <2> QED BY <1>0, <2>1, <2>2 DEF StaleReadOnlyAfterSleep, ConsoleTypeOK
<1> QED BY <1>1, <1>2, <1>3, <1>4, <1>5, <1>6, <1>7

(* serial_read_char, called by sys_read before it has slept, takes a byte  *)
(* whose arrival serial_received saw: serial_irq_handler cannot have taken *)
(* it.  No queue on the way exceeds its size, sys_read never passes the    *)
(* end of its buffer, and shift_pressed is not stuck.                      *)
THEOREM NoStaleReadBeforeSleep == ConsoleSpec => []StaleReadOnlyAfterSleep
<1>1. ConsoleInit => StaleReadOnlyAfterSleep
  <2> SUFFICES ASSUME ConsoleInit PROVE StaleReadOnlyAfterSleep
    OBVIOUS
  <2>1. /\ ring \in Seq(RingChars) /\ Len(ring) = 0 /\ uart \in Seq(SerialBytes) /\ Len(uart) = 0
        /\ events \in 0 .. EventCapacity
    BY ConsoleConstants DEF ConsoleInit
  <2>2. /\ shift_pressed = FALSE /\ caps_lock = FALSE /\ held = {} /\ rpc = "user"
        /\ iflag = TRUE /\ c = NoChar /\ left = 0
    BY DEF ConsoleInit
  <2>3. Len(ring) <= RingCapacity /\ Len(uart) <= UartDepth
    BY <2>1, ConsoleConstants
  <2>4. {shift_pressed, caps_lock, iflag} \subseteq BOOLEAN /\ ~shift_pressed
    BY <2>2, Zenon
  <2>5. ConsoleTypeOK
    BY <2>1, <2>2, <2>3, <2>4 DEF ConsoleTypeOK
  <2> QED BY <2>2, <2>5 DEF StaleReadOnlyAfterSleep
<1>2. StaleReadOnlyAfterSleep /\ [ConsoleNext]_consoleVars => StaleReadOnlyAfterSleep'
  <2> SUFFICES ASSUME StaleReadOnlyAfterSleep, [ConsoleNext]_consoleVars
               PROVE  StaleReadOnlyAfterSleep'
    OBVIOUS
  <2>1. CASE UNCHANGED consoleVars
    BY <2>1 DEF consoleVars, keyVars, readerVars, StaleReadOnlyAfterSleep, ConsoleTypeOK
  <2>2. CASE ConsoleNext
    BY <2>2, HandlersKeep, ReaderKeeps DEF ConsoleNext
  <2> QED BY <2>1, <2>2
<1> QED BY <1>1, <1>2, PTL DEF ConsoleSpec
==============================================================================

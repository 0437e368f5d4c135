--------------------------------- MODULE Ipc ---------------------------------
(***************************************************************************)
(* The message queue of src/proc/ipc.c as tasks reach it: the SYSCALL_IPC  *)
(* cases of syscall_handler, with the pointer check in front of a receive. *)
(* A system call runs with interrupts disabled and is one step.            *)
(*                                                                         *)
(* The kernel is linked at 1 MiB, far below the limit that user_ptr_ok     *)
(* tests, and paging.c maps it writable for the user: a receive into the   *)
(* kernel's own image is accepted.  It may put any word in the place of    *)
(* head, tail or a message; the model does not follow the kernel further.  *)
(***************************************************************************)
EXTENDS Integers, Sequences

CONSTANTS IPC_QUEUE_SIZE,   \* 32 in the code
          Msgs,             \* message words
          NoMsg,            \* a word that was never written
          AddrSpace,        \* 2^32
          KernelBase,       \* 0xC0000000, the limit of user_ptr_ok
          Image,            \* where the kernel is linked, ring included
          MsgSize           \* sizeof(u32int)

ASSUME IpcAssumption ==
    /\ IPC_QUEUE_SIZE \in Nat \ {0, 1}
    /\ NoMsg \notin Msgs
    /\ AddrSpace \in Nat /\ KernelBase \in 1 .. AddrSpace
    /\ Image \subseteq 1 .. KernelBase - 1
    /\ MsgSize \in 1 .. AddrSpace - 1

VARIABLES queue, head, tail,
          eax,        \* what the last system call returned
          received,   \* the message the last successful receive delivered
          written,    \* addresses the last call wrote through its pointer
          clobbered   \* history: one of them lay in the kernel's image

vars == <<queue, head, tail, eax, received, written, clobbered>>

Index == 0 .. IPC_QUEUE_SIZE - 1

Succ(i) == (i + 1) % IPC_QUEUE_SIZE
Ok == 0
Error == -1

(* Mutant: the end of the buffer is not tested.                            *)
MutUserPtrOk(addr, size) == addr # 0 /\ size # 0 /\ addr < KernelBase

(* user_ptr_ok, on 32-bit addresses.                                       *)
UserPtrOk(addr, size) ==
    LET end == (addr + size) % AddrSpace
    IN  /\ addr # 0 /\ size # 0
        /\ end >= addr
        /\ addr < KernelBase /\ end < KernelBase

Init ==
    /\ queue = [i \in Index |-> NoMsg]
    /\ head = 0 /\ tail = 0
    /\ eax = Ok
    /\ received = NoMsg
    /\ written = {}
    /\ clobbered = FALSE

(* Mutant: the ring never counts as full.                                  *)
MutIpcFull == FALSE

IpcFull == Succ(head) = tail
IpcEmpty == head = tail

(* SYSCALL_IPC_SEND.                                                       *)
SendStores(msg) ==
    /\ queue' = [queue EXCEPT ![head] = msg]
    /\ head' = Succ(head)
    /\ eax' = Ok

Send(msg) ==
    /\ ~clobbered
    /\ IF IpcFull
         THEN eax' = Error /\ UNCHANGED <<queue, head>>
         ELSE SendStores(msg)
    /\ written' = {}
    /\ UNCHANGED <<tail, received, clobbered>>

(* The addresses of the word at addr.                                      *)
WordAt(addr) == {(addr + i) % AddrSpace : i \in 0 .. MsgSize - 1}

(* ipc_recv has taken the message; the handler stores it at addr, outside  *)
(* the kernel's image.                                                     *)
StoresOutside == tail' = Succ(tail) /\ UNCHANGED <<queue, head, clobbered>>

(* The same inside the image: the word falls on an index of the ring, on a *)
(* message, or on something else of the kernel.  IPC_QUEUE_SIZE stands for *)
(* the words that are no index.                                            *)
StoresInside ==
    /\ head' \in 0 .. IPC_QUEUE_SIZE /\ tail' \in 0 .. IPC_QUEUE_SIZE
    /\ \/ UNCHANGED queue
       \/ \E i \in Index, msg \in Msgs : queue' = [queue EXCEPT ![i] = msg]
    /\ clobbered' = TRUE

(* SYSCALL_IPC_RECV into the word at addr.                                 *)
RecvDelivers(addr) ==
    /\ received' = queue[tail]
    /\ written' = WordAt(addr)
    /\ eax' = Ok
    /\ IF WordAt(addr) \cap Image = {} THEN StoresOutside ELSE StoresInside

RecvRefused == eax' = Error /\ written' = {} /\ UNCHANGED <<queue, head, tail, received, clobbered>>

(* Mutant: the message is taken before the pointer is checked.             *)
MutRecv(addr) ==
    /\ ~clobbered
    /\ IF IpcEmpty THEN RecvRefused
       ELSE IF UserPtrOk(addr, MsgSize) THEN RecvDelivers(addr)
       ELSE /\ eax' = Error /\ written' = {}
            /\ tail' = Succ(tail) /\ UNCHANGED <<queue, head, received, clobbered>>

Recv(addr) ==
    /\ ~clobbered
    /\ IF ~UserPtrOk(addr, MsgSize) \/ IpcEmpty THEN RecvRefused ELSE RecvDelivers(addr)

(* With the kernel's image overwritten anything may follow; the model      *)
(* stands still.                                                           *)
Unfollowed == clobbered /\ UNCHANGED vars

Next ==
    \/ \E msg \in Msgs : Send(msg)
    \/ \E addr \in 0 .. AddrSpace - 1 : Recv(addr)
    \/ Unfollowed

Spec == Init /\ [][Next]_vars

-----------------------------------------------------------------------------
(* Properties.                                                             *)

(* Indices stay inside the array and eax is a result code.                 *)
TypeOK ==
    /\ queue \in [Index -> Msgs \cup {NoMsg}]
    /\ head \in Index /\ tail \in Index
    /\ eax \in {Ok, Error}
    /\ received \in Msgs \cup {NoMsg}

Used == (head - tail) % IPC_QUEUE_SIZE
Waiting == [i \in 1 .. Used |-> queue[(tail + i - 1) % IPC_QUEUE_SIZE]]

Fifo == INSTANCE BoundedFifo WITH
            Values <- Msgs, Capacity <- IPC_QUEUE_SIZE - 1, NoValue <- NoMsg,
            queue <- Waiting, taken <- received

(* Messages arrive in the order they were accepted, none lost, none twice: *)
(* every step is one of the bounded FIFO, except a receive that was        *)
(* accepted into the kernel's own image.                                   *)
RefinesFifo ==
    Fifo!FifoInit /\ [][clobbered' \/ Fifo!FifoNext]_(Fifo!fifoVars)

(* The return code tells the truth: a call that reports an error changed   *)
(* nothing (a receive with a bad pointer does not consume a message), and  *)
(* one that reports success moved exactly one message, except for a        *)
(* receive that was accepted into the kernel's own image.                  *)
ResultTellsEffect ==
    [][/\ eax' = Error => Waiting' = Waiting /\ received' = received
       /\ eax' = Ok => \/ clobbered'
                       \/ Len(Waiting') \in {Len(Waiting) + 1, Len(Waiting) - 1}
      ]_vars

(* Whatever pointer a task passes, a receive writes below the limit of     *)
(* user_ptr_ok: not address 0, nothing from 0xC0000000 on, not by wrapping *)
(* around.  That limit is not the end of the user's memory: the kernel's   *)
(* image lies below it, and a receive into the image is accepted.  Until   *)
(* that happens the indices of the queue stay inside its array.            *)
WritesBelowLimit ==
    /\ written \subseteq 1 .. KernelBase - 1
    /\ ~clobbered => TypeOK
=============================================================================

------------------------------ MODULE UserMode ------------------------------
(***************************************************************************)
(* enter_user_mode of asm/usermode.s: the interrupt frame a kernel task    *)
(* builds to drop to ring 3.  Straight-line code, one step per group of    *)
(* instructions.  A register is a pair of halves [hi, lo]: mov ax writes   *)
(* only the low half of eax.                                               *)
(***************************************************************************)
EXTENDS Integers, Sequences

CONSTANTS Halves,      \* 16-bit values an argument may be made of
          UserData,    \* 0x23, a 16-bit value
          UserCode,    \* 0x1B, a 16-bit value
          Flags        \* EFLAGS values without the interrupt flag

Words == [hi : Halves, lo : Halves]
Selector(s) == [hi |-> 0, lo |-> s]

VARIABLES entry, user_stack,     \* the arguments
          eflags, iflag,         \* EFLAGS without IF, and IF
          eax, ebx, ds,
          stack,                 \* what enter_user_mode pushed, first first
          pc

vars == <<entry, user_stack, eflags, iflag, eax, ebx, ds, stack, pc>>

Init ==
    /\ entry \in Words /\ user_stack \in Words
    /\ eflags \in Flags /\ iflag = TRUE
    /\ eax = [hi |-> 0, lo |-> 0] /\ ebx = [hi |-> 0, lo |-> 0]
    /\ ds = Selector(0)
    /\ stack = <<>>
    /\ pc = "args"

(* cli; mov eax, [esp+8]; mov ebx, [esp+4]                                 *)
LoadArgs ==
    /\ pc = "args"
    /\ iflag' = FALSE
    /\ eax' = user_stack
    /\ ebx' = entry
    /\ pc' = "segments"
    /\ UNCHANGED <<entry, user_stack, eflags, ds, stack>>

(* mov ax, 0x23; mov ds/es/fs/gs, ax                                       *)
LoadSegments ==
    /\ pc = "segments"
    /\ eax' = [eax EXCEPT !.lo = UserData]
    /\ ds' = Selector(UserData)
    /\ pc' = "push_stack"
    /\ UNCHANGED <<entry, user_stack, eflags, iflag, ebx, stack>>

(* push 0x23; push eax                                                     *)
PushStack ==
    /\ pc = "push_stack"
    /\ stack' = stack \o <<Selector(UserData), eax>>
    /\ pc' = "push_flags"
    /\ UNCHANGED <<entry, user_stack, eflags, iflag, eax, ebx, ds>>

(* pushfd; pop eax; or eax, 0x200; push eax                                *)
PushFlags ==
    /\ pc = "push_flags"
    /\ eax' = [flags |-> eflags, if |-> TRUE]
    /\ stack' = Append(stack, eax')
    /\ pc' = "push_entry"
    /\ UNCHANGED <<entry, user_stack, eflags, iflag, ebx, ds>>

(* push 0x1B; push ebx                                                     *)
PushEntry ==
    /\ pc = "push_entry"
    /\ stack' = stack \o <<Selector(UserCode), ebx>>
    /\ pc' = "iret"
    /\ UNCHANGED <<entry, user_stack, eflags, iflag, eax, ebx, ds>>

Next == LoadArgs \/ LoadSegments \/ PushStack \/ PushFlags \/ PushEntry

Spec == Init /\ [][Next]_vars

-----------------------------------------------------------------------------
(* What iret pops, innermost last: SS, ESP, EFLAGS, CS, EIP.               *)
FrameESP == stack[2]

(* "mov eax, [esp+8] ; user_stack ... push eax ; ESP": the task runs on    *)
(* the stack its caller passed.                                            *)
FrameUsesUserStack == pc = "iret" => FrameESP = user_stack
=============================================================================

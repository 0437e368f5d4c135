-------------------------------- MODULE Ps2 --------------------------------
(***************************************************************************)
(* From the keyboard to the reader of the ring, boot included: the PS/2    *)
(* controller behind ports 0x60 and 0x64, interrupt line 1 with            *)
(* irq_handler (src/interrupt/irq.c), keyboard_handler and keyboard_init   *)
(* (src/drivers/keyboard.c), mouse_init (src/drivers/mouse.c) and the ring *)
(* of KeyboardBuffer.                                                      *)
(*                                                                         *)
(* Interrupts are on from init_idt, long before keyboard_init, and         *)
(* init_pic masks line 12: the mouse shares the controller's single output *)
(* buffer with the keyboard but nothing ever reads its bytes once          *)
(* mouse_init is over.  The controller and the mouse are external; the     *)
(* controller takes commands at once, so mouse_wait(1) finds it ready.     *)
(***************************************************************************)
EXTENDS KeyboardBuffer

CONSTANTS Keys,         \* bytes the keyboard sends
          Layout,       \* the character of those that have one: kbdus
          BiosCtrs,     \* configuration bytes the firmware may leave
          KbdDepth,     \* bytes the keyboard holds back, bound of the model
          MaxPolls,     \* polls of mouse_wait, 100000 in the code
          BootKeys,     \* are keys pressed before the boot is over?
          MouseMoves    \* is the mouse moved?

ASSUME Ps2Assumption ==
    /\ Keys \cup BiosCtrs \subseteq 0 .. 255
    /\ DOMAIN Layout \subseteq Keys \cap (0 .. 63)
    /\ \A k \in DOMAIN Layout : Layout[k] \in Chars
    /\ {KbdDepth, MaxPolls} \subseteq Nat \ {0}
    /\ {BootKeys, MouseMoves} \subseteq BOOLEAN

VARIABLES ctr,          \* the controller's configuration byte
          obf, data,    \* output buffer full; the data register behind it
          aux,          \* the byte in the buffer came from the mouse
          kq,           \* bytes for the buffer: scancodes and answers
          mq,           \* bytes of the mouse for the buffer
          unanswered,   \* commands the mouse has not acknowledged
          reporting,    \* the mouse reports movements
          irq1,         \* a request of line 1 is pending
          handler1,     \* irq_handlers[1] is set
          bpc,          \* where kernel_main is
          polls,        \* timeout of mouse_wait
          status,       \* local variable of mouse_init
          bios,         \* history: ctr at power on
          raced,        \* history: a key was under way during a mouse_read
          expected      \* history: characters typed, not refused, not yet read

ctrlVars == <<ctr, obf, data, aux, kq, mq>>
mouseVars == <<unanswered, reporting>>
bootVars == <<handler1, bpc, polls, status>>
ghostVars == <<bios, raced>>
ps2Vars == <<ctrlVars, mouseVars, irq1, bootVars, ghostVars, expected, ringVars>>

Bit(byte, i) == (byte \div 2^i) % 2 = 1
Ack == 250        \* 0xFA
Movement == 8     \* a byte of a movement packet, also the scancode of 7

(* The characters of kbdus are at scancodes of set 1 below 64, into which  *)
(* the controller translates what the keyboard sends: bit 6 is set.        *)
ASSUME TranslationOn == \A b \in BiosCtrs : Bit(b, 6)

Init ==
    /\ RingInit
    /\ bios \in BiosCtrs /\ ctr = bios
    /\ obf = FALSE /\ data = 0 /\ aux = FALSE
    /\ kq = <<>> /\ mq = <<>>
    /\ unanswered = 0 /\ reporting = FALSE
    /\ irq1 = FALSE /\ handler1 = FALSE
    /\ bpc = "early"
    /\ polls = 0 /\ status = 0
    /\ raced = FALSE /\ expected = <<>>

-----------------------------------------------------------------------------
(* The controller.  Configuration bits: 0 keyboard interrupt, 1 mouse      *)
(* interrupt, 4 keyboard off, 5 mouse off.                                 *)

KbdIrqOn(c) == Bit(c, 0) /\ ~Bit(c, 4)

Scancode(k) == [byte |-> k, key |-> TRUE]
Answer(b) == [byte |-> b, key |-> FALSE]

(* History: what was typed is followed until a key meets a mouse_read: one *)
(* pressed while mouse_read waits, or earlier and not yet taken by the     *)
(* handler.  Every key presented before keyboard_init is such a key, for   *)
(* its interrupt is ignored and the byte stays in the buffer.              *)
MouseReads == {"ctr_wait", "ctr_read", "ack1_wait", "ack1_read", "ack2_wait", "ack2_read"}
KeyUnderWay ==
    (\E i \in 1 .. Len(kq) : kq[i].key) \/ (obf /\ ~aux /\ data \in Keys)
Follow(meets, typed) ==
    /\ raced' = (raced \/ meets)
    /\ expected' = IF raced' THEN <<>> ELSE typed
    /\ UNCHANGED bios

(* The user presses or releases a key.                                     *)
KeyEvent(k) ==
    /\ bpc = "run" \/ BootKeys
    /\ Len(kq) < KbdDepth
    /\ kq' = Append(kq, Scancode(k))
    /\ Follow(bpc \in MouseReads,
              IF k \in DOMAIN Layout THEN Append(expected, Layout[k]) ELSE expected)
    /\ UNCHANGED <<ctr, obf, data, aux, mq, mouseVars, irq1, bootVars, ringVars>>

(* A byte of the keyboard or an answer enters the empty output buffer and  *)
(* raises line 1; not every controller does so for its own answers.        *)
CanPresentKbd == ~obf /\ kq # <<>> /\ (Head(kq).key => ~Bit(ctr, 4))

PresentKbd ==
    /\ CanPresentKbd
    /\ obf' = TRUE /\ aux' = FALSE
    /\ data' = Head(kq).byte
    /\ kq' = Tail(kq)
    /\ irq1' \in IF Head(kq).key THEN {irq1 \/ KbdIrqOn(ctr)}
                                 ELSE {irq1, irq1 \/ KbdIrqOn(ctr)}
    /\ UNCHANGED <<ctr, mq, mouseVars, bootVars, ghostVars, expected, ringVars>>

(* A byte of the mouse enters the buffer.  Line 12 is masked.              *)
CanPresentMouse == ~obf /\ mq # <<>> /\ ~Bit(ctr, 5)

PresentMouse ==
    /\ CanPresentMouse
    /\ obf' = TRUE /\ aux' = TRUE
    /\ data' = Head(mq)
    /\ mq' = Tail(mq)
    /\ UNCHANGED <<ctr, kq, mouseVars, irq1, bootVars, ghostVars, expected, ringVars>>

(* The mouse acknowledges a command, whenever it does, and moves.          *)
MouseAnswers ==
    /\ unanswered > 0
    /\ unanswered' = unanswered - 1
    /\ mq' = Append(mq, Ack)
    /\ UNCHANGED <<ctr, obf, data, aux, kq, reporting, irq1, bootVars, ghostVars,
                   expected, ringVars>>

MouseMove ==
    /\ MouseMoves /\ reporting /\ mq = <<>>
    /\ mq' = <<Movement>>
    /\ UNCHANGED <<ctr, obf, data, aux, kq, mouseVars, irq1, bootVars, ghostVars,
                   expected, ringVars>>

-----------------------------------------------------------------------------
(* Interrupt 33: irq_handler.  Reading port 0x60 empties the buffer and    *)
(* returns the data register, which keeps its value after it was read.     *)

Without(s, i) == [j \in 1 .. Len(s) - 1 |-> IF j < i THEN s[j] ELSE s[j + 1]]
Forget(i) == expected' = IF i \in DOMAIN expected THEN Without(expected, i) ELSE expected

(* The character goes into the ring or, when that is full, is lost.  The   *)
(* history forgets a character only if the ring really is full.            *)
Deliver(c) ==
    IF Full
      THEN /\ UNCHANGED ringVars
           /\ Forget(IF Used = KBD_BUF_SIZE - 1 THEN Used + 1 ELSE 0)
      ELSE Push(c) /\ UNCHANGED expected

(* keyboard_handler; what shift and caps lock do is in ConsoleInput.       *)
KeyboardHandler ==
    /\ obf' = FALSE
    /\ IF data \in DOMAIN Layout
         THEN Deliver(Layout[data])
         ELSE UNCHANGED <<ringVars, expected>>

(* Before keyboard_init the interrupt is only logged and acknowledged: the *)
(* byte stays in the buffer.                                               *)
Irq1 ==
    /\ irq1
    /\ irq1' = FALSE
    /\ IF handler1 THEN KeyboardHandler ELSE UNCHANGED <<obf, ringVars, expected>>
    /\ UNCHANGED <<ctr, data, aux, kq, mq, mouseVars, bootVars, ghostVars>>

-----------------------------------------------------------------------------
(* kernel_main from init_idt on; other initialisation between these steps  *)
(* touches none of this state.                                             *)

Goto(from, to) == bpc = from /\ bpc' = to

(* Mutant: the handler is not registered.                                  *)
MutKeyboardInit ==
    /\ Goto("early", "enable_aux")
    /\ UNCHANGED <<ctrlVars, mouseVars, irq1, handler1, polls, status, ghostVars,
                   expected, ringVars>>

(* keyboard_init: an empty ring, and the handler.                          *)
KeyboardInit ==
    /\ Goto("early", "enable_aux")
    /\ head' = 0 /\ tail' = 0
    /\ handler1' = TRUE
    /\ UNCHANGED <<ctrlVars, mouseVars, irq1, polls, status, ghostVars, expected,
                   buffer, pop_pc, pop_c, popped>>

(* mouse_init: command 0xA8 clears the bit that keeps the mouse off.       *)
MouseOn(byte) == IF Bit(byte, 5) THEN byte - 32 ELSE byte

EnableAux ==
    /\ Goto("enable_aux", "ask_ctr")
    /\ ctr' = MouseOn(ctr)
    /\ UNCHANGED <<obf, data, aux, kq, mq, mouseVars, irq1, handler1, polls,
                   status, ghostVars, expected, ringVars>>

(* Command 0x20: the answer queues behind whatever the keyboard has sent.  *)
AskCtr ==
    /\ Goto("ask_ctr", "ctr_wait")
    /\ kq' = Append(kq, Answer(ctr))
    /\ polls' = MaxPolls
    /\ Follow(KeyUnderWay, expected)
    /\ UNCHANGED <<ctr, obf, data, aux, mq, mouseVars, irq1, handler1, status, ringVars>>

(* mouse_wait(0), one poll per step.  MaxPolls polls take longer than the  *)
(* controller needs for a byte that it has, but not longer than the mouse. *)
ReadOf == [ctr_wait |-> "ctr_read", ack1_wait |-> "ack1_read", ack2_wait |-> "ack2_read"]

(* Mutant: the wait has no timeout.                                        *)
MutPollsLeft == polls' = IF obf THEN 0 ELSE polls

PollsLeft == polls' = IF obf THEN 0 ELSE polls - 1

Poll ==
    /\ bpc \in DOMAIN ReadOf
    /\ ~CanPresentKbd /\ ~CanPresentMouse
    /\ PollsLeft
    /\ bpc' = IF obf \/ polls = 1 THEN ReadOf[bpc] ELSE bpc
    /\ UNCHANGED <<ctrlVars, mouseVars, irq1, handler1, status, ghostVars, expected,
                   ringVars>>

(* Mutant: the other bits are dropped.                                     *)
MutWithAuxIrq(byte) == 2

(* status |= 0x02                                                          *)
WithAuxIrq(byte) == IF Bit(byte, 1) THEN byte ELSE byte + 2

(* The read after the first wait, and command 0x60 with the new byte.      *)
ReadCtr ==
    /\ Goto("ctr_read", "write_ctr")
    /\ status' = WithAuxIrq(data)
    /\ obf' = FALSE
    /\ UNCHANGED <<ctr, data, aux, kq, mq, mouseVars, irq1, handler1, polls,
                   ghostVars, expected, ringVars>>

WriteCtr ==
    /\ Goto("write_ctr", "set_defaults")
    /\ ctr' = status /\ status' = 0
    /\ irq1' = (irq1 \/ (obf /\ ~aux /\ KbdIrqOn(status) /\ ~KbdIrqOn(ctr)))
    /\ UNCHANGED <<obf, data, aux, kq, mq, mouseVars, handler1, polls, ghostVars,
                   expected, ringVars>>

(* mouse_write of SET_DEFAULTS, then of ENABLE.  Interrupts are on: one    *)
(* that is pending is taken during the waits and writes to the ports.      *)
MouseWrite(from, to, enable) ==
    /\ Goto(from, to)
    /\ ~irq1
    /\ unanswered' = unanswered + 1
    /\ reporting' = (reporting \/ enable)
    /\ polls' = MaxPolls
    /\ Follow(KeyUnderWay, expected)
    /\ UNCHANGED <<ctrlVars, irq1, handler1, status, ringVars>>

(* mouse_read for the acknowledgement, whatever byte it is.  After the     *)
(* last one handler 12 is registered, which never runs.                    *)
ReadAck(from, to) ==
    /\ Goto(from, to)
    /\ obf' = FALSE
    /\ UNCHANGED <<ctr, data, aux, kq, mq, mouseVars, irq1, handler1, polls,
                   status, ghostVars, expected, ringVars>>

Boot ==
    \/ KeyboardInit
    \/ EnableAux
    \/ AskCtr
    \/ Poll
    \/ ReadCtr
    \/ WriteCtr
    \/ MouseWrite("set_defaults", "ack1_wait", FALSE)
    \/ ReadAck("ack1_read", "enable_mouse")
    \/ MouseWrite("enable_mouse", "ack2_wait", TRUE)
    \/ ReadAck("ack2_read", "run")

(* The shell reads the ring once the boot is over.                         *)
Reader ==
    /\ bpc = "run"
    /\ PopTest \/ PopLoad \/ PopAdvance
    /\ Forget(IF pop_pc = "advance" THEN 1 ELSE 0)
    /\ UNCHANGED <<ctrlVars, mouseVars, irq1, bootVars, ghostVars>>

-----------------------------------------------------------------------------
Next ==
    \/ \E k \in Keys : KeyEvent(k)
    \/ PresentKbd
    \/ PresentMouse
    \/ MouseAnswers
    \/ MouseMove
    \/ Irq1
    \/ Boot
    \/ Reader

Spec == Init /\ [][Next]_ps2Vars

(* Interrupts are taken, the controller presents what it holds, and        *)
(* kernel_main proceeds between interrupts: instructions are far more      *)
(* frequent than keystrokes.  The mouse need not answer, nor the user type.*)
FairSpec == /\ Spec
            /\ WF_ps2Vars(Irq1) /\ WF_ps2Vars(PresentKbd) /\ WF_ps2Vars(PresentMouse)
            /\ SF_ps2Vars(Boot)

-----------------------------------------------------------------------------
(* Properties.                                                             *)

CharOf(e) == IF e.key /\ e.byte \in DOMAIN Layout THEN <<Layout[e.byte]>> ELSE <<>>
CharsOf(q) ==
    LET upTo[i \in 0 .. Len(q)] ==
          IF i = 0 THEN <<>> ELSE upTo[i - 1] \o CharOf(q[i])
    IN  upTo[Len(q)]
InBuffer == IF obf /\ ~aux THEN <<[byte |-> data, key |-> TRUE]>> ELSE <<>>

(* What was typed and not yet read is in the ring, in the output buffer or *)
(* in the keyboard, in this order: no character is lost, repeated,         *)
(* reordered or made up from an answer of the controller or the mouse by   *)
(* keyboard_handler and mouse_read, which both read port 0x60, and the     *)
(* ring refuses one only when it is full.  Unless a key was under way      *)
(* while mouse_read waited for an answer, as every key is whose interrupt  *)
(* came before keyboard_init.                                              *)
KeysInOrder ==
    /\ RingTypeOK
    /\ ~raced => expected = Waiting \o CharsOf(InBuffer \o kq)

(* mouse_init changes one bit of the configuration byte and enables the    *)
(* mouse, even if keyboard_handler takes the answer away from it and the   *)
(* wait times out.  The same exception.                                    *)
Configured == {"set_defaults", "ack1_wait", "ack1_read", "enable_mouse",
               "ack2_wait", "ack2_read", "run"}
CtrKept ==
    bpc \in Configured /\ ~raced
      => \A i \in 0 .. 7 : Bit(ctr, i) <=> (i = 1 \/ (i # 5 /\ Bit(bios, i)))

(* mouse_init took a scancode for the configuration byte and wrote it back *)
(* with the keyboard's interrupt, or the keyboard, switched off.           *)
KeyboardOff == bpc \in Configured /\ ~KbdIrqOn(ctr)

(* A scancode never stays in the output buffer, where it would block all   *)
(* others.  The one whose interrupt was ignored because it came before     *)
(* keyboard_init is taken out by a mouse_read, later ones by               *)
(* keyboard_handler; unless that mouse_read made the scancode the          *)
(* configuration byte and it switches the keyboard's interrupt off.        *)
KeyboardServed == (obf /\ ~aux /\ data \in Keys) ~> (~obf \/ KeyboardOff)

(* mouse_init returns, with or without a mouse and whoever reads the       *)
(* answers.                                                                *)
BootCompletes == <>(bpc = "run")

(* "Timer ve klavye aktif" ("timer and keyboard active"), which            *)
(* kernel_main prints after mouse_init: from then on a key gets to the     *)
(* output buffer, from where the handler fetches it.                       *)
KeyboardActive == (bpc = "run" /\ kq # <<>>) ~> (obf /\ ~aux)

=============================================================================

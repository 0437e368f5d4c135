---------------------------- MODULE ConsoleInput ----------------------------
(***************************************************************************)
(* How a character reaches a reader: the keyboard handler                  *)
(* (src/drivers/keyboard.c), the serial handler and the polled serial read *)
(* (src/drivers/serial.c), the ring between them, and the waiting loop of  *)
(* sys_read (src/proc/syscall.c), which keyboard_readline shares.          *)
(*                                                                         *)
(* The ring is the FIFO that KeyboardBuffer is shown to implement.  The    *)
(* reader enters the system call with interrupts disabled; its first       *)
(* "sti; hlt" enables them and nothing disables them again before the call *)
(* returns, so from then on handlers run between any two of its steps.     *)
(***************************************************************************)
EXTENDS Integers, Sequences

CONSTANTS RingCapacity,   \* KBD_BUF_SIZE - 1
          EventCapacity,  \* INPUT_BUF_SIZE - 1
          UartDepth,      \* bytes the UART's receive FIFO holds
          ReadSizes,      \* sizes passed to sys_read
          SerialBytes     \* bytes that arrive on the line

ASSUME ConsoleAssumption ==
    /\ {RingCapacity, EventCapacity, UartDepth} \subseteq Nat \ {0}
    /\ ReadSizes \subseteq Nat \ {0}

(* Characters, by how the code tells them apart: "HI" stands for bytes     *)
(* from 0x80, which are negative as a char, "NUL" for 0.                   *)
Letters == {"a", "A"}
Newline == "\n"

(* Scancodes: the two shift keys, caps lock, a letter, a digit, enter, and *)
(* a key without a character.  kbdus and kbdus_shift are the two tables.   *)
Shifts == {"lshift", "rshift"}
Keys == {"keyA", "key1", "enter", "ctrl"}
kbdus == [keyA |-> "a", key1 |-> "1", enter |-> Newline, ctrl |-> "NUL"]
kbdus_shift == [keyA |-> "A", key1 |-> "!", enter |-> Newline, ctrl |-> "NUL"]

VARIABLES shift_pressed, caps_lock,
          held,       \* history: shift keys the user is holding down
          ring,       \* the keyboard ring, oldest first
          events,     \* events in the ring of input.c, which nobody empties
          uart,       \* the UART's receive FIFO
          rpc,        \* where the reader is; "user" outside sys_read
          iflag,      \* the reader's interrupt flag
          c,          \* the character keyboard_getchar returned
          left        \* size - read: what sys_read has left to fill

keyVars == <<shift_pressed, caps_lock, held>>
readerVars == <<rpc, iflag, c, left>>
consoleVars == <<keyVars, ring, events, uart, readerVars>>

NoChar == "none"

ConsoleInit ==
    /\ shift_pressed = FALSE /\ caps_lock = FALSE
    /\ held = {}
    /\ ring = <<>> /\ events = 0
    /\ uart = <<>>
    /\ rpc = "user"
    /\ iflag = TRUE
    /\ c = NoChar
    /\ left = 0

-----------------------------------------------------------------------------
(* Interrupt handlers.  A reader in hlt continues after any of them.       *)

(* Mutant: an interrupt does not end hlt.                                  *)
MutWake == rpc' = rpc

Wake == rpc' = IF rpc = "hlt" THEN "pop" ELSE rpc

(* kbd_buffer_push and input_push_key, for the characters of a sequence.   *)
PushAll(s) ==
    LET room == RingCapacity - Len(ring)
    IN  /\ ring' = ring \o SubSeq(s, 1, IF Len(s) < room THEN Len(s) ELSE room)
        /\ events' = IF events + Len(s) < EventCapacity
                       THEN events + Len(s) ELSE EventCapacity

(* keyboard_handler, key press: which character a key stands for.          *)
Xor(a, b) == a # b
KeyChar(key) ==
    LET k == IF shift_pressed THEN kbdus_shift[key] ELSE kbdus[key]
    IN  IF k \in Letters
          THEN IF Xor(caps_lock, shift_pressed) THEN "A" ELSE "a"
          ELSE k

KeyPress(key) ==
    /\ iflag
    /\ PushAll(IF KeyChar(key) = "NUL" THEN <<>> ELSE <<KeyChar(key)>>)
    /\ Wake
    /\ UNCHANGED <<keyVars, uart, iflag, c, left>>

ShiftPress(key) ==
    /\ iflag
    /\ held' = held \cup {key}
    /\ shift_pressed' = TRUE
    /\ Wake
    /\ UNCHANGED <<caps_lock, ring, events, uart, iflag, c, left>>

(* A release clears shift_pressed for either shift key.                    *)
ShiftAfterRelease(key) == IF key \in Shifts THEN FALSE ELSE shift_pressed

ShiftRelease(key) ==
    /\ iflag
    /\ key \in held
    /\ held' = held \ {key}
    /\ shift_pressed' = ShiftAfterRelease(key)
    /\ Wake
    /\ UNCHANGED <<caps_lock, ring, events, uart, iflag, c, left>>

CapsPress ==
    /\ iflag
    /\ caps_lock' = ~caps_lock
    /\ Wake
    /\ UNCHANGED <<shift_pressed, held, ring, events, uart, iflag, c, left>>

(* The UART receives a byte, whatever the CPU does.                        *)
SerialArrives(b) ==
    /\ Len(uart) < UartDepth
    /\ uart' = Append(uart, b)
    /\ UNCHANGED <<keyVars, ring, events, readerVars>>

(* serial_irq_handler drains the FIFO; a zero byte is skipped.             *)
Drained(bytes) ==
    LET upTo[i \in 0 .. Len(bytes)] ==
          IF i = 0 THEN <<>>
          ELSE IF bytes[i] = "NUL" THEN upTo[i - 1] ELSE Append(upTo[i - 1], bytes[i])
    IN  upTo[Len(bytes)]

SerialIRQ ==
    /\ iflag
    /\ uart # <<>>
    /\ PushAll(Drained(uart))
    /\ uart' = <<>>
    /\ Wake
    /\ UNCHANGED <<keyVars, iflag, c, left>>

(* The timer interrupt, 100 times a second: it pushes nothing but wakes.   *)
TimerIRQ ==
    /\ iflag
    /\ Wake
    /\ UNCHANGED <<keyVars, ring, events, uart, iflag, c, left>>

-----------------------------------------------------------------------------
(* sys_read with keyboard_getchar and serial_read_char inlined.            *)
SysRead(size) ==
    /\ rpc = "user"
    /\ rpc' = "pop"
    /\ iflag' = FALSE
    /\ left' = size
    /\ UNCHANGED <<keyVars, ring, events, uart, c>>

(* kbd_buffer_pop; a byte from 0x80 comes back negative, as if the ring    *)
(* had been empty, but it is consumed.                                     *)
Pop ==
    /\ rpc = "pop"
    /\ IF ring = <<>>
         THEN rpc' = "lsr" /\ UNCHANGED <<ring, c>>
         ELSE /\ ring' = Tail(ring)
              /\ IF Head(ring) = "HI"
                   THEN rpc' = "lsr" /\ UNCHANGED c
                   ELSE rpc' = "got" /\ c' = Head(ring)
    /\ UNCHANGED <<keyVars, events, uart, iflag, left>>

(* Mutant: the data register is read without looking at the status.        *)
MutPollStatus ==
    /\ rpc = "lsr"
    /\ rpc' = "rbr"
    /\ UNCHANGED <<keyVars, ring, events, uart, iflag, c, left>>

(* serial_received.                                                        *)
PollStatus ==
    /\ rpc = "lsr"
    /\ rpc' = IF uart # <<>> THEN "rbr" ELSE "sleep"
    /\ UNCHANGED <<keyVars, ring, events, uart, iflag, c, left>>

(* inb(COM1): if the handler drained the FIFO since the status was read,   *)
(* the register holds some old byte.                                       *)
PollData ==
    /\ rpc = "rbr"
    /\ IF uart = <<>>
         THEN c' \in SerialBytes /\ UNCHANGED uart
         ELSE c' = Head(uart) /\ uart' = Tail(uart)
    /\ rpc' = "got"
    /\ UNCHANGED <<keyVars, ring, events, iflag, left>>

(* sti; hlt: interrupts are held off until hlt is reached the first time,  *)
(* when sti is what enables them; later a handler may run before hlt.      *)
Sleep ==
    /\ rpc = "sleep"
    /\ rpc' = "hlt"
    /\ iflag' = TRUE
    /\ UNCHANGED <<keyVars, ring, events, uart, c, left>>

(* buf[read++] = c, and the two ways the loop ends.                        *)
Store ==
    /\ rpc = "got"
    /\ left' = left - 1
    /\ LET done == c = Newline \/ left = 1 IN
       /\ rpc' = IF done THEN "user" ELSE "pop"
       /\ iflag' = IF done THEN TRUE ELSE iflag
    /\ c' = NoChar
    /\ UNCHANGED <<keyVars, ring, events, uart>>

-----------------------------------------------------------------------------
Reader == Pop \/ PollStatus \/ PollData \/ Sleep \/ Store

ConsoleNext ==
    \/ \E key \in Keys : KeyPress(key)
    \/ \E key \in Shifts : ShiftPress(key)
    \/ \E key \in Shifts : ShiftRelease(key)
    \/ CapsPress
    \/ \E b \in SerialBytes : SerialArrives(b)
    \/ SerialIRQ
    \/ TimerIRQ
    \/ \E size \in ReadSizes : SysRead(size)
    \/ Pop
    \/ PollStatus
    \/ PollData
    \/ Sleep
    \/ Store

ConsoleSpec == ConsoleInit /\ [][ConsoleNext]_consoleVars

(* The reader executes when it is not halted, and the PIT keeps ticking.   *)
(* Keys and serial bytes need never come.                                  *)
FairConsoleSpec == ConsoleSpec /\ WF_consoleVars(Reader) /\ WF_consoleVars(TimerIRQ)

-----------------------------------------------------------------------------
(* Properties.                                                             *)

RingChars == {"a", "A", "1", "!", Newline} \cup (SerialBytes \ {"NUL"})

(* The queues keep to their capacities and the reader to its buffer, and   *)
(* shift_pressed is set only while a shift key is held down.               *)
ConsoleTypeOK ==
    /\ {shift_pressed, caps_lock, iflag} \subseteq BOOLEAN
    /\ held \subseteq Shifts /\ (shift_pressed => held # {})
    /\ ring \in Seq(RingChars) /\ Len(ring) <= RingCapacity
    /\ events \in 0 .. EventCapacity
    /\ uart \in Seq(SerialBytes) /\ Len(uart) <= UartDepth
    /\ rpc \in {"user", "pop", "lsr", "rbr", "sleep", "hlt", "got"}
    /\ c \in RingChars \cup SerialBytes \cup {NoChar}
    /\ left \in Nat
    /\ rpc # "user" => left > 0

(* The polled read races with the serial handler only once the reader has  *)
(* slept: before that the byte whose status was seen is still there.  The  *)
(* queues keep to their capacities meanwhile.                              *)
StaleReadOnlyAfterSleep == ConsoleTypeOK /\ (rpc = "rbr" /\ ~iflag => uart # <<>>)

(* No lost wakeup: a reader does not sleep on a ring that holds a          *)
(* character, even if the character came between the test and hlt.         *)
ReaderGetsInput ==
    (rpc # "user" /\ \E i \in 1 .. Len(ring) : ring[i] # "HI") ~> (rpc = "got")

=============================================================================

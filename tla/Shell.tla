-------------------------------- MODULE Shell --------------------------------
(***************************************************************************)
(* The kernel shell (src/user/shell.c): shell_run with keyboard_readline   *)
(* (src/drivers/keyboard.c), the line split in place by parse_line, the    *)
(* dispatch on its words, and what all this shows on the screen.           *)
(*                                                                         *)
(* Where the characters come from is ConsoleInput and Ps2; what the file   *)
(* commands do is RamFs and FatFs, here they print some text.  CR stands   *)
(* for LF and DEL for BS, which the code treats alike.  No NUL arrives:    *)
(* both interrupt handlers drop it, and that the polled serial read does   *)
(* not is left out here.                                                   *)
(***************************************************************************)
EXTENDS Kprintf

CONSTANTS Typed,        \* characters that arrive, but for "nl" and "bs"
          LINE,         \* sizeof(line), 128
          MAX_ARGS,     \* 8
          MinArgc,      \* the least argc of each command name
          NonEmpty,     \* commands that refuse an empty first argument
          StatNames,    \* commands that print a number: heap, mem
          Outputs,      \* texts that the file commands print
          Stats,        \* numbers that heap and mem print
          Messages,     \* directives of the kernel's own messages
          BootChars,    \* characters of its boot messages
          Warning,      \* "[WARN] Unhandled IRQ: 0\n"
          StartRows,    \* rows the cursor may be in when the shell starts
          MaxBoot,      \* bound on the boot's characters and interrupts
          MaxKeys       \* bound on the keystrokes of a behaviour

ASSUME ShellAssumption ==
    /\ {LINE, MAX_ARGS} \subseteq Nat \ {0} /\ LINE > 1
    /\ LINE + 2 < (ROWS - 1) * COLUMNS
    /\ NonEmpty \cup StatNames \subseteq DOMAIN MinArgc
    /\ StartRows \subseteq 0 .. ROWS - 1
    /\ {"h", ">", "?", "#", "nul", "quote"} \subseteq Chars
    /\ Typed \subseteq Chars \ {"nl", "bs", "nul"}
    /\ BootChars \subseteq Chars /\ Warning \in Seq(Chars \ {"tab"})
    /\ Outputs \subseteq Seq(Chars)
    /\ Stats \subseteq 0 .. LongWord - 1

(* The messages are numbers that fit the type of their conversion.         *)
ASSUME MessagesAssumption ==
    \A d \in Messages :
      /\ d \in [conv : {"u", "llu", "x", "X", "d", "p"}, arg : Int, width : Nat, pad : Chars]
      /\ d.arg < LongWord /\ -d.arg < LongWord
      /\ d.arg < 0 => d.conv = "d"

VARIABLES scr,      \* the screen
          line,     \* char line[LINE]
          idx,      \* local of keyboard_readline
          pos,      \* where parse_line is in the line
          argv,     \* offsets into line; argc is its length
          pc,       \* where shell_run is
          message,  \* history: the directive that was printed last, in a set
          text,     \* history: the line as its author edited it
          odd,      \* history: a character without a column of its own came
          nested,   \* history: an interrupt printed inside monitor_put
          keys      \* number of keystrokes, or of steps of the boot

vars == <<scr, line, idx, pos, argv, pc, message, text, odd, nested, keys>>

Offsets == 0 .. LINE - 1
Blank == {" ", "tab"}

(* The firmware's text is still on the screen and the stack is dirty.      *)
Init ==
    /\ \E y \in StartRows : scr = Screen([i \in Cells |-> "#"], y)
    /\ line = [i \in Offsets |-> "#"]
    /\ idx = 0 /\ pos = 0 /\ argv = <<>>
    /\ pc = "boot"
    /\ message = {} /\ text = <<>> /\ odd = FALSE
    /\ nested = FALSE /\ keys = 0

-----------------------------------------------------------------------------
(* Boot.  init_idt enables the interrupts, and until timer_init and        *)
(* keyboard_init each interrupt of the timer and the keyboard is only      *)
(* logged: irq_handler prints in the middle of what kernel_main prints.    *)
(* The screen after any boot is in Init; a boot is followed up to MaxBoot. *)

BootStep == keys < MaxBoot /\ keys' = keys + 1 /\ message = {}
BootRest == UNCHANGED <<line, idx, pos, argv, message, text, odd>>

(* monitor_put of kernel_main in three steps; scroll's copying is one.     *)
(* serial keeps the output of Log and the shell only.                      *)
BootPut(c) ==
    /\ BootStep /\ pc = "boot" /\ pc' = "wrap"
    /\ scr' = [PutChar(scr, c) EXCEPT !.serial = <<>>]
    /\ UNCHANGED nested /\ BootRest

BootWrap ==
    /\ pc = "wrap" /\ pc' = "scroll"
    /\ scr' = Wrap(scr)
    /\ UNCHANGED <<nested, keys>> /\ BootRest

BootScroll ==
    /\ pc = "scroll" /\ pc' = "boot"
    /\ scr' = scroll(scr)
    /\ UNCHANGED <<nested, keys>> /\ BootRest

UnhandledIrq ==
    /\ BootStep /\ pc \in {"boot", "wrap", "scroll"}
    /\ scr' = [monitor_write(scr, Warning) EXCEPT !.serial = <<>>]
    /\ nested' = (nested \/ pc # "boot")
    /\ UNCHANGED pc /\ BootRest

(* A message with a number that is printed without such an interruption.   *)
Log(d) ==
    /\ pc = "boot" /\ keys = 0 /\ message = {}
    /\ scr' = kvprintf(scr, <<d>>)
    /\ message' = {d}
    /\ UNCHANGED <<line, idx, pos, argv, pc, text, odd, nested, keys>>

(* shell_help, shown first, is a text like any other.                      *)
shell_run ==
    /\ pc = "boot" /\ keys = 0 /\ message = {}
    /\ scr' = monitor_write(scr, <<"h", "nl">>)
    /\ pc' = "prompt"
    /\ UNCHANGED <<line, idx, pos, argv, message, text, odd, nested, keys>>

-----------------------------------------------------------------------------
(* The loop's head; the history of the serial output starts again.         *)
Prompt ==
    /\ pc = "prompt" /\ keys < MaxKeys
    /\ scr' = [monitor_write(scr, <<"nl", ">", " ">>) EXCEPT !.serial = <<>>]
    /\ idx' = 0 /\ text' = <<>> /\ odd' = FALSE /\ message' = {}
    /\ pc' = "read"
    /\ UNCHANGED <<line, pos, argv, nested, keys>>

-----------------------------------------------------------------------------
(* keyboard_readline, one character per step.                              *)

Keystroke == pc = "read" /\ keys < MaxKeys /\ keys' = keys + 1

(* out[idx] = 0 and return; an empty line is dropped by shell_run.         *)
Enter ==
    /\ Keystroke
    /\ scr' = monitor_put(scr, "nl")
    /\ line' = [line EXCEPT ![idx] = "nul"]
    /\ pc' = IF idx = 0 THEN "prompt" ELSE "parse"
    /\ UNCHANGED <<idx, pos, argv, message, text, odd, nested>>

Erase ==
    /\ Keystroke
    /\ IF idx > 0
         THEN /\ idx' = idx - 1
              /\ scr' = monitor_write(scr, <<"bs", " ", "bs">>)
              /\ text' = SubSeq(text, 1, Len(text) - 1)
         ELSE UNCHANGED <<idx, scr, text>>
    /\ UNCHANGED <<line, pos, argv, pc, message, odd, nested>>

LineFull(n) == n = LINE - 1

(* A full line ends the loop as Enter would, with nothing shown.           *)
Type(c) ==
    /\ Keystroke
    /\ scr' = monitor_put(scr, c)
    /\ idx' = idx + 1
    /\ line' = IF LineFull(idx + 1) THEN [line EXCEPT ![idx] = c, ![idx + 1] = "nul"]
                                    ELSE [line EXCEPT ![idx] = c]
    /\ pc' = IF LineFull(idx + 1) THEN "parse" ELSE "read"
    /\ text' = Append(text, c)
    /\ odd' = (odd \/ c \in Silent \cup {"tab"})
    /\ UNCHANGED <<pos, argv, message, nested>>

-----------------------------------------------------------------------------
(* parse_line.  A scan over l from p on stops at the first offset that     *)
(* holds a character of a set.                                             *)

Scan(l, p, stop) == CHOOSE q \in Offsets : /\ q >= p /\ l[q] \in stop
                                           /\ \A r \in p .. q - 1 : l[r] \notin stop
SkipBlank(l, p) == CHOOSE q \in Offsets : /\ q >= p /\ l[q] \notin Blank
                                          /\ \A r \in p .. q - 1 : l[r] \in Blank
Zero(l, offsets) == [q \in Offsets |-> IF q \in offsets THEN "nul" ELSE l[q]]

rtrim(l, p) ==
    LET end == Scan(l, p, {"nul"})
    IN  Zero(l, {q \in p .. end - 1 : \A r \in q .. end - 1 : l[r] \in Blank})

(* Mutant: the closing quote is not overwritten.                           *)
MutCutQuote(l, end) == l

CutQuote(l, end) == Zero(l, {end})

(* The loop, one argument per round.                                       *)
parse_line ==
    /\ pc = "parse" /\ pc' = "split"
    /\ pos' = SkipBlank(line, 0)
    /\ line' = rtrim(line, pos')
    /\ argv' = <<>>
    /\ UNCHANGED <<scr, idx, message, text, odd, nested, keys>>

Split ==
    LET quoted == line[pos] = "quote"
        start == IF quoted THEN pos + 1 ELSE pos
        end == Scan(line, start, {"nul"} \cup IF quoted THEN {"quote"} ELSE Blank)
        closed == quoted /\ line[end] = "quote"
        after == IF closed THEN end + 1 ELSE end
        cut == IF closed THEN CutQuote(line, end) ELSE line
        next == SkipBlank(cut, after)
    IN  /\ pc = "split" /\ line[pos] # "nul" /\ Len(argv) < MAX_ARGS
        /\ line' = Zero(cut, after .. next - 1)
        /\ pos' = next
        /\ argv' = Append(argv, start)
        /\ UNCHANGED <<scr, idx, pc, message, text, odd, nested, keys>>

(* No words at all: shell_run goes on with the next line.                  *)
Parsed ==
    /\ pc = "split" /\ (line[pos] = "nul" \/ Len(argv) >= MAX_ARGS)
    /\ pc' = IF argv = <<>> THEN "prompt" ELSE "dispatch"
    /\ UNCHANGED <<scr, line, idx, pos, argv, message, text, odd, nested, keys>>

-----------------------------------------------------------------------------
(* The dispatch.                                                           *)

Str(p) == [i \in 1 .. Scan(line, p, {"nul"}) - p |-> line[p + i - 1]]
Args == [i \in DOMAIN argv |-> Str(argv[i])]

Accepted ==
    /\ Args[1] \in DOMAIN MinArgc
    /\ Len(argv) >= MinArgc[Args[1]]
    /\ Args[1] \in NonEmpty => Args[2] # <<>>

(* "unknown command" or the usage.                                         *)
Refuse ==
    /\ pc = "dispatch" /\ ~Accepted
    /\ scr' = monitor_write(scr, <<"?", "nl">>)
    /\ pc' = "prompt"
    /\ UNCHANGED <<line, idx, pos, argv, message, text, odd, nested, keys>>

RunCommand(output) ==
    /\ pc = "dispatch" /\ Accepted /\ Args[1] \notin StatNames
    /\ scr' = monitor_write(scr, output)
    /\ pc' = "prompt"
    /\ UNCHANGED <<line, idx, pos, argv, message, text, odd, nested, keys>>

(* shell_heap and shell_mem: each of their numbers is a %u.                *)
ShowStat(n) ==
    /\ pc = "dispatch" /\ Accepted /\ Args[1] \in StatNames
    /\ LET d == Num("u", n, 0, " ")
       IN  /\ scr' = kvprintf([scr EXCEPT !.serial = <<>>], <<d, Lit("nl")>>)
           /\ message' = {d}
    /\ pc' = "prompt"
    /\ UNCHANGED <<line, idx, pos, argv, text, odd, nested, keys>>

Next ==
    \/ \E c \in BootChars : BootPut(c)
    \/ BootWrap
    \/ BootScroll
    \/ UnhandledIrq
    \/ \E d \in Messages : Log(d)
    \/ shell_run
    \/ Prompt
    \/ Enter
    \/ Erase
    \/ \E c \in Typed : Type(c)
    \/ parse_line
    \/ Split
    \/ Parsed
    \/ Refuse
    \/ \E output \in Outputs : RunCommand(output)
    \/ \E n \in Stats : ShowStat(n)

Spec == Init /\ [][Next]_vars

-----------------------------------------------------------------------------
(* Properties.                                                             *)

(* monitor_put stores inside the screen and leaves the cursor on it: at    *)
(* the right edge, in the last row, for a tab that ends there, for a       *)
(* backspace in the top left corner, whatever a file holds.  A warning     *)
(* that an interrupt prints inside another monitor_put during the boot may *)
(* go one cell beyond the screen, into video memory that is not shown, and *)
(* the interrupted call still brings the cursor back.                      *)
StaysOnScreen ==
    /\ pc \notin {"wrap", "scroll"}
         => scr.x \in 0 .. COLUMNS - 1 /\ scr.y \in 0 .. ROWS - 1
    /\ scr.top <= IF nested THEN ROWS * COLUMNS ELSE ROWS * COLUMNS - 1

(* While a line is typed the prompt and exactly the line stand before the  *)
(* cursor, over the edges of rows and after scrolling and erasing, as long *)
(* as every character takes one column: keyboard_readline erases one       *)
(* column per character, also for a tab (up to four) or an escape (none).  *)
ScreenShowsLine ==
    LET here == Location(scr)
        expected == <<">", " ">> \o [i \in 1 .. idx |-> line[i - 1]]
    IN  pc = "read" /\ ~odd
          => \A i \in DOMAIN expected : scr.cells[here - Len(expected) + i - 1] = expected[i]

(* Reference for the words of a line: an automaton over its characters up  *)
(* to the last that is no blank.                                           *)
Ends(mode, c) == IF mode = "word" THEN c \in Blank ELSE c = "quote"
Step(a, c) ==
    IF a.mode = "gap"
      THEN IF c \in Blank THEN a
           ELSE [mode |-> IF c = "quote" THEN "quote" ELSE "word",
                 words |-> Append(a.words, IF c = "quote" THEN <<>> ELSE <<c>>)]
      ELSE IF Ends(a.mode, c) THEN [a EXCEPT !.mode = "gap"]
                              ELSE [a EXCEPT !.words[Len(a.words)] = Append(@, c)]
TextEnd(t) == CHOOSE m \in 0 .. Len(t) : /\ m = 0 \/ t[m] \notin Blank
                                         /\ \A j \in m + 1 .. Len(t) : t[j] \in Blank
Automaton(t) ==
    LET after[k \in 0 .. Len(t)] ==
          IF k = 0 THEN [mode |-> "gap", words |-> <<>>] ELSE Step(after[k - 1], t[k])
    IN  after
Words(t) == Automaton(t)[TextEnd(t)].words

(* The command and its arguments, strings inside the line buffer that      *)
(* parse_line has cut into pieces in place, are the words of the text as   *)
(* it was edited, at most MAX_ARGS of them; nothing of an earlier, longer  *)
(* line is left in them.  A text that fills the buffer is taken as it is.  *)
RunsWhatWasTyped ==
    pc = "dispatch" =>
      LET words == Words(text)
      IN  Args = SubSeq(words, 1, IF Len(words) < MAX_ARGS THEN Len(words) ELSE MAX_ARGS)

(* What kprintf sends to the serial port for a number is that number in    *)
(* positional notation, padded to the width: no digit is wrong or missing  *)
(* although u64_divmod shifts bits out of the word for large numbers.      *)
PrintsNumber ==
    \A d \in message :
      scr.serial = Expected(d) \o (IF pc = "boot" THEN <<>> ELSE <<"nl">>)

=============================================================================

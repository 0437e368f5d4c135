------------------------------- MODULE Monitor -------------------------------
(***************************************************************************)
(* The text screen (src/lib/monitor.c): what monitor_put does to the video *)
(* memory and the cursor.  A screen is a record of the cells, the cursor,  *)
(* what went to the serial port, which mirrors the screen, and the highest *)
(* location that was ever stored to.                                       *)
(***************************************************************************)
EXTENDS Integers, Sequences

CONSTANTS COLUMNS, ROWS, TabSize,   \* 80, 25 and 4 in the code
          Chars                     \* the values of a char

ASSUME MonitorAssumption ==
    /\ {COLUMNS, ROWS, TabSize} \subseteq Nat \ {0}
    /\ COLUMNS % TabSize = 0
    /\ {" ", "nl", "tab", "bs", "esc"} \subseteq Chars

Cells == 0 .. ROWS * COLUMNS - 1
Silent == {"esc"}     \* bytes that are neither handled nor >= ' '

Screen(cells, y) == [cells |-> cells, x |-> 0, y |-> y, serial |-> <<>>, top |-> 0]

Location(s) == s.y * COLUMNS + s.x

(* Store c in the n cells from the cursor on, and step over them.          *)
Fill(s, n, c) ==
    LET last == Location(s) + n - 1
    IN  [s EXCEPT !.cells = [i \in Cells |-> IF i \in Location(s) .. last THEN c ELSE @[i]],
                  !.top = IF last > @ THEN last ELSE @,
                  !.x = @ + n]

(* Mutant: at the left edge the cursor stays.                              *)
MutBack(s) == IF s.x > 0 THEN [s EXCEPT !.x = @ - 1] ELSE s

Back(s) ==
    IF s.x > 0 THEN [s EXCEPT !.x = @ - 1]
    ELSE IF s.y > 0 THEN [s EXCEPT !.y = @ - 1, !.x = COLUMNS - 1]
    ELSE s

(* Mutant: the cursor may stand one column to the right of the screen.     *)
MutWrap(s) == IF s.x > COLUMNS THEN [s EXCEPT !.x = 0, !.y = @ + 1] ELSE s

Wrap(s) == IF s.x >= COLUMNS THEN [s EXCEPT !.x = 0, !.y = @ + 1] ELSE s

scroll(s) ==
    IF s.y >= ROWS
      THEN [s EXCEPT !.cells = [i \in Cells |-> IF i + COLUMNS \in Cells THEN @[i + COLUMNS]
                                                                        ELSE " "],
                     !.y = ROWS - 1]
      ELSE s

Shown(s, c) ==
    CASE c = "nl"    -> [s EXCEPT !.x = 0, !.y = @ + 1]
      [] c = "tab"   -> Fill(s, TabSize - (s.x % TabSize), " ")
      [] c = "bs"    -> [Fill(Back(s), 1, " ") EXCEPT !.x = @ - 1]
      [] c \in Silent -> s
      [] OTHER       -> Fill(s, 1, c)

(* monitor_put up to its tests of the cursor, and the whole of it.         *)
PutChar(s, c) == [Shown(s, c) EXCEPT !.serial = Append(@, c)]
monitor_put(s, c) == scroll(Wrap(PutChar(s, c)))

monitor_write(s, text) ==
    LET after[i \in 0 .. Len(text)] ==
          IF i = 0 THEN s ELSE monitor_put(after[i - 1], text[i])
    IN  after[Len(text)]

=============================================================================

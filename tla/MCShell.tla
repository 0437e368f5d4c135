------------------------------- MODULE MCShell -------------------------------
(* Small instance of Shell: a screen of 4 by 4, lines of 5 characters, two *)
(* arguments, the commands cat (c) and mem (m), words of 8 bits.  Every    *)
(* number of the small types is printed with every conversion.             *)
EXTENDS Shell, TLC

MCChars == {"0", "1", "2", "3", "4", "5", "6", "7", "8", "9", "A", "B", "C", "D", "E", "F",
            "nul", "nl", "tab", "bs", "esc", " ", "quote", ">", "?", "#", "-", "x",
            "b", "c", "h", "m", "n", "W"}
MCTyped == {"c", "m", " ", "quote", "tab"}
MCMinArgc == (<<"c">> :> 2) @@ (<<"m">> :> 1)
MCNonEmpty == {<<"c">>}
MCStatNames == {<<"m">>}
(* "not found", and files of control characters, one with enough           *)
(* backspaces to get to the top left corner.                               *)
MCOutputs == {<<"n", "nl">>,
              <<"bs", "tab", "c", "tab", "esc", "bs", "nl">>,
              [i \in 1 .. 16 |-> "bs"] \o <<"tab", "nl">>}
MCStats == {0, 10, 63}

MCWarning == <<"W", "W", "nl">>

Ints == 0 .. 63
MCMessages ==
    {Num(conv, n, w, pad) : conv \in {"u", "x"}, n \in Ints, w \in {0, 4}, pad \in {" ", "0"}}
      \cup {Num("d", n, w, pad) : n \in -32 .. 31, w \in {0, 4}, pad \in {" ", "0"}}
      \cup {Num("llu", n, 0, " ") : n \in 0 .. 255}
      \cup {Num("p", n, 0, "0") : n \in Ints}
=============================================================================

------------------------------- MODULE Kprintf -------------------------------
(***************************************************************************)
(* Formatted output (src/lib/kprintf.c).  A format is a sequence of        *)
(* literal characters and directives, the latter with their argument.      *)
(***************************************************************************)
EXTENDS Monitor

CONSTANT LongBits     \* width of u64int: 64

(* Both bases, 10 and 16, are numbers of that width.                       *)
ASSUME KprintfAssumption ==
    /\ LongBits \in Nat /\ LongBits > 4
    /\ {"0", "1", "2", "3", "4", "5", "6", "7", "8", "9",
        "A", "B", "C", "D", "E", "F", "x", "-"} \subseteq Chars

DigitChars == <<"0", "1", "2", "3", "4", "5", "6", "7", "8", "9",
                "A", "B", "C", "D", "E", "F", "nul">>

Pow2[k \in Nat] == IF k = 0 THEN 1 ELSE 2 * Pow2[k - 1]
LongWord == Pow2[LongBits]

(* The shift of a u64int.                                                  *)
Shl(w) == (2 * w) % LongWord

(* Mutant: the first loop stops short of a divisor equal to n.             *)
MutFirstLoop(a, n) == Shl(a.denom) > a.denom /\ Shl(a.denom) < n

(* The two loops of u64_divmod bring the divisor up to n, then subtract    *)
(* and shift it down.  The bit of current is not yet set in quotient, so   *)
(* the code's | is +.                                                      *)
FirstLoop(a, n) == Shl(a.denom) > a.denom /\ Shl(a.denom) <= n
ShiftUp(a, n) ==
    IF FirstLoop(a, n) THEN [denom |-> Shl(a.denom), current |-> Shl(a.current)] ELSE a
Subtract(a) ==
    IF a.current = 0 THEN a
    ELSE [rem |-> IF a.rem >= a.denom THEN a.rem - a.denom ELSE a.rem,
          quotient |-> IF a.rem >= a.denom THEN a.quotient + a.current ELSE a.quotient,
          denom |-> a.denom \div 2, current |-> a.current \div 2]

(* Neither goes round more often than the word has bits.                   *)
Aligned(n, base) ==
    LET up[k \in 0 .. LongBits] ==
          IF k = 0 THEN [denom |-> base, current |-> 1] ELSE ShiftUp(up[k - 1], n)
    IN  up[LongBits]
u64_divmod(n, base) ==
    LET top == Aligned(n, base)
        down[k \in 0 .. LongBits] ==
          IF k = 0 THEN [rem |-> n, quotient |-> 0, denom |-> top.denom, current |-> top.current]
          ELSE Subtract(down[k - 1])
    IN  down[LongBits]

(* The 32 characters of buf are enough for every base from 4 on.           *)
Digits(value, base) ==
    LET of[n \in 0 .. LongWord - 1] ==
          IF n = 0 THEN <<>>
          ELSE Append(of[u64_divmod(n, base).quotient],
                      DigitChars[u64_divmod(n, base).rem + 1])
    IN  of[value]

put_padding(count, pad) == [i \in 1 .. (IF count > 0 THEN count ELSE 0) |-> pad]

print_uint_base(s, value, base, width, pad) ==
    LET buf == IF value = 0 THEN <<"0">> ELSE Digits(value, base)
    IN  monitor_write(s, put_padding(width - Len(buf), pad) \o buf)

print_int_decimal(s, value, width, pad) ==
    IF value < 0
      THEN print_uint_base(monitor_put(s, "-"), -value, 10,
                           IF width > 0 THEN width - 1 ELSE 0, pad)
      ELSE print_uint_base(s, value, 10, width, pad)

print_string(s, text, width, pad) ==
    monitor_write(s, put_padding(width - Len(text), pad) \o text)

(* One directive: conv is u, llu, x, X, d, p, s, or lit for a character.   *)
Directive(s, d) ==
    CASE d.conv \in {"u", "llu"} -> print_uint_base(s, d.arg, 10, d.width, d.pad)
      [] d.conv \in {"x", "X"} -> print_uint_base(s, d.arg, 16, d.width, d.pad)
      [] d.conv = "d" -> print_int_decimal(s, d.arg, d.width, d.pad)
      [] d.conv = "p" -> print_uint_base(monitor_write(s, <<"0", "x">>), d.arg, 16,
                                         IF d.width = 0 THEN 8 ELSE d.width,
                                         IF d.width = 0 THEN "0" ELSE d.pad)
      [] d.conv = "s" -> print_string(s, d.arg, d.width, d.pad)
      [] d.conv = "lit" -> monitor_put(s, d.arg)

kvprintf(s, fmt) ==
    LET after[i \in 0 .. Len(fmt)] == IF i = 0 THEN s ELSE Directive(after[i - 1], fmt[i])
    IN  after[Len(fmt)]

Lit(c) == [conv |-> "lit", arg |-> c, width |-> 0, pad |-> " "]
Num(conv, n, width, pad) == [conv |-> conv, arg |-> n, width |-> width, pad |-> pad]

-----------------------------------------------------------------------------
(* Reference: a number in positional notation, and a directive's output.   *)
Numeral(number, base) ==
    LET of[n \in Nat] ==
          IF n < base THEN <<DigitChars[n + 1]>>
          ELSE Append(of[n \div base], DigitChars[(n % base) + 1])
    IN  of[number]

Expected(d) ==
    LET prefix == IF d.conv = "p" THEN <<"0", "x">> ELSE IF d.arg < 0 THEN <<"-">> ELSE <<>>
        number == Numeral(IF d.arg < 0 THEN -d.arg ELSE d.arg,
                          IF d.conv \in {"x", "X", "p"} THEN 16 ELSE 10)
        pointer == d.conv = "p" /\ d.width = 0
        width == IF pointer THEN 10 ELSE IF d.conv = "p" THEN d.width + 2 ELSE d.width
    IN  prefix \o put_padding(width - Len(prefix) - Len(number), IF pointer THEN "0" ELSE d.pad)
               \o number

=============================================================================

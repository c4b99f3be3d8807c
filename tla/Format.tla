------------------------------- MODULE Format -------------------------------
(***************************************************************************)
(* Formatted output: the three printf machines of the system.  vsnprintf    *)
(* (behind console_printf) and printf of the kernel's stdio.c, and printf   *)
(* of the second boot stage, are the same machine over the format string    *)
(* and differ in what they put back after a conversion.  A text is a        *)
(* sequence of one-character strings; an argument is what lies in one       *)
(* 32-bit slot of the stack: a text or an integer below Word.               *)
(***************************************************************************)
EXTENDS Integers, SequencesExt, TLC

CONSTANT Word    \* 2^32 in the code
ASSUME WordAssumption == Word \in Nat /\ Word > 255 /\ Word % 2 = 0

g_HexChars == <<"0", "1", "2", "3", "4", "5", "6", "7", "8", "9", "a", "b", "c", "d", "e", "f">>

\* printf_unsigned: the digits are produced from the last one on.
DigitsOf(number, radix) ==
    LET digits[n \in 0..number] ==
          LET last == <<g_HexChars[(n % radix) + 1]>>
          IN IF n \div radix = 0 THEN last ELSE digits[n \div radix] \o last
    IN digits[number]

\* Fault: the digits are printed as they are produced.
DigitsAsProduced(number, radix) == Reverse(DigitsOf(number, radix))

printf_unsigned(number, radix) == DigitsOf(number, radix)

\* printf_signed: the sign, then the magnitude, of a number of the given range.
printf_signed(number, range, radix) ==
    IF number >= range \div 2 THEN <<"-">> \o printf_unsigned(range - number, radix)
    ELSE printf_unsigned(number, radix)

\* va_arg: the next slots, whatever they hold.
Fetch(m, slots) == [m EXCEPT !.args = SubSeq(@, slots + 1, Len(@))]
Emit(m, text) == [m EXCEPT !.out = @ \o text]

\* The machine before the first character.
Fresh(args) ==
    [state |-> "normal", length |-> "default", radix |-> 10, sign |-> FALSE,
     number |-> FALSE, args |-> args, out |-> <<>>]

\* What 'd', 'u', 'x' and the like set; c, s, % take or print at once.
Specify(m, c) ==
    CASE c \in {"d", "i"} -> [m EXCEPT !.radix = 10, !.sign = TRUE, !.number = TRUE]
      [] c = "u" -> [m EXCEPT !.radix = 10, !.sign = FALSE, !.number = TRUE]
      [] c \in {"x", "X", "p"} -> [m EXCEPT !.radix = 16, !.sign = FALSE, !.number = TRUE]
      [] c = "o" -> [m EXCEPT !.radix = 8, !.sign = FALSE, !.number = TRUE]
      [] c = "c" -> Fetch(Emit(m, <<Head(m.args)>>), 1)
      [] c = "s" -> Fetch(Emit(m, Head(m.args)), 1)
      [] c = "%" -> Emit(m, <<"%">>)
      [] OTHER -> m

\* The number asked for: a long long takes two slots, everything else one.
PrintNumber(m) ==
    LET wide == m.length = "longlong"
        range == IF wide THEN Word * Word ELSE Word
        value == IF wide THEN m.args[1] + Word * m.args[2] ELSE m.args[1]
    IN Fetch(Emit(m, IF m.sign THEN printf_signed(value, range, m.radix)
                     ELSE printf_unsigned(value, m.radix)),
             IF wide THEN 2 ELSE 1)

Reset(m) == [m EXCEPT !.state = "normal", !.length = "default", !.radix = 10,
                      !.sign = FALSE, !.number = FALSE]

\* vsnprintf: the reset stands inside "if (number)", and what is no conversion
\* is printed as it is.
SpecVsnprintf(m, c) ==
    LET known == {"d", "i", "u", "x", "X", "p", "o", "c", "s", "%"}
        s == IF c \in known THEN Specify(m, c) ELSE Emit(m, <<c>>)
    IN IF s.number THEN Reset(PrintNumber(s)) ELSE [s EXCEPT !.state = "spec"]

\* printf of the kernel: the reset comes after every conversion.
SpecPrintf(m, c) ==
    LET s == Specify(m, c)
    IN Reset(IF s.number THEN PrintNumber(s) ELSE s)

\* printf of the boot stage: number is not put back.
SpecBootPrintf(m, c) ==
    LET s == Specify(m, c)
        printed == IF s.number THEN PrintNumber(s) ELSE s
    IN [Reset(printed) EXCEPT !.number = printed.number]

\* The rest of the machine, the same in all three: lengths, then the conversion,
\* which takes the very character that is no length.
Step(m, c, Convert(_, _)) ==
    CASE m.state = "normal" /\ c = "%" -> [m EXCEPT !.state = "length"]
      [] m.state = "normal" /\ c # "%" -> Emit(m, <<c>>)
      [] m.state = "length" /\ c = "h" -> [m EXCEPT !.state = "short", !.length = "short"]
      [] m.state = "length" /\ c = "l" -> [m EXCEPT !.state = "long", !.length = "long"]
      [] m.state = "short" /\ c = "h" -> [m EXCEPT !.state = "spec", !.length = "shortshort"]
      [] m.state = "long" /\ c = "l" -> [m EXCEPT !.state = "spec", !.length = "longlong"]
      [] OTHER -> Convert(m, c)

StepVsnprintf(m, c) == Step(m, c, SpecVsnprintf)
StepPrintf(m, c) == Step(m, c, SpecPrintf)
StepBootPrintf(m, c) == Step(m, c, SpecBootPrintf)

printf(fmt, args) ==
    LET m[n \in 0..Len(fmt)] == IF n = 0 THEN Fresh(args) ELSE StepPrintf(m[n - 1], fmt[n])
    IN m[Len(fmt)].out
bootPrintf(fmt, args) == FoldLeft(StepBootPrintf, Fresh(args), fmt).out

\* buffer_putc keeps the first size-1 characters and counts the others; what
\* the buffer holds up to its terminating NUL is returned.
Kept(text, size) == SubSeq(text, 1, IF Len(text) < size - 1 THEN Len(text) ELSE size - 1)
vsnprintf(size, fmt, args) == Kept(FoldLeft(StepVsnprintf, Fresh(args), fmt).out, size)

-----------------------------------------------------------------------------
(* The reference: what the C standard says these formats print.             *)

\* The numeral of n: the shortest sequence of digits whose value it is.
Numeral(n, radix) ==
    LET k == CHOOSE j \in 1..16 : n < radix^j /\ \A i \in 1..(j - 1) : n >= radix^i
    IN [i \in 1..k |-> g_HexChars[((n \div radix^(k - i)) % radix) + 1]]

SignedNumeral(n, range) ==
    IF n < range \div 2 THEN Numeral(n, 10) ELSE <<"-">> \o Numeral(range - n, 10)

\* The text of one conversion (its length and its letter) of the slots given.
Converted(length, letter, slots) ==
    LET range == IF length = "ll" THEN Word * Word ELSE Word
        value == IF length = "ll" THEN slots[1] + Word * slots[2] ELSE slots[1]
    IN CASE letter = "s" -> slots[1]
         [] letter = "c" -> <<slots[1]>>
         [] letter \in {"d", "i"} -> SignedNumeral(value, range)
         [] letter = "u" -> Numeral(value, 10)
         [] letter \in {"x", "X", "p"} -> Numeral(value, 16)
         [] letter = "o" -> Numeral(value, 8)

\* A format as it is meant: a sequence of pieces, each a text or a conversion
\* with the slots it takes; the string and the slots handed to printf.
Piece(text) == [text |-> text, length |-> "", letter |-> "", slots |-> <<>>]
Conversion(length, letter, slots) == [text |-> <<>>, length |-> length, letter |-> letter, slots |-> slots]
LengthLetters(length) ==
    CASE length = "" -> <<>> [] length = "l" -> <<"l">> [] length = "ll" -> <<"l", "l">>
      [] length = "h" -> <<"h">> [] length = "hh" -> <<"h", "h">>
FormatOf(pieces) ==
    FlattenSeq([i \in DOMAIN pieces |->
        IF pieces[i].letter = "" THEN pieces[i].text
        ELSE <<"%">> \o LengthLetters(pieces[i].length) \o <<pieces[i].letter>>])
SlotsOf(pieces) == FlattenSeq([i \in DOMAIN pieces |-> pieces[i].slots])
Meant(pieces) ==
    FlattenSeq([i \in DOMAIN pieces |->
        IF pieces[i].letter = "" THEN pieces[i].text
        ELSE Converted(pieces[i].length, pieces[i].letter, pieces[i].slots)])
=============================================================================

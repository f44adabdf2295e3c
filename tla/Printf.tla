------------------------------- MODULE Printf -------------------------------
(***************************************************************************)
(* Formatted output: vga_vprintf of src/src/drivers/vga.c walks a format,  *)
(* and the conversions of src/src/strings.c write a numeral into its       *)
(* buffer, which is cleared once a call and reused for every number: the   *)
(* digits, the lowest first, a sign, a terminator, and then what is before *)
(* the terminator is reversed.  What is printed goes to vga_write_char     *)
(* (see Vga).  Words are W bits wide, 32 in the kernel.                    *)
(***************************************************************************)
EXTENDS Integers, Sequences, FiniteSets, SequencesExt

CONSTANTS
    W,         \* bits of an int and of a long
    BufLen,    \* 50 in vga_vprintf
    Formats,   \* the formats printed
    Args       \* the sequences of words passed with them

\* b to the k.
Power(b, k) ==
    LET power[n \in 0..k] == IF n = 0 THEN 1 ELSE b * power[n - 1]
    IN  power[k]

Numbers == {"i", "u", "h", "x"}
Directives == Numbers \cup {"c", "b", "s"}

\* Where f has the letter of a directive: after a %, which is not printed.
Letters(f) == {j \in 2..Len(f) : f[j - 1] = "%" /\ f[j] \in Directives}

ASSUME PrintfAssumption ==
    /\ W \in Nat \ {0} /\ BufLen \in Nat \ {0, 1}
    /\ Formats \subseteq Seq(STRING)
    /\ Args \subseteq Seq(0..(Power(2, W) - 1))

\* What C leaves undefined is not done: a directive has an argument.
ASSUME DirectivesHaveArguments ==
    \A f \in Formats, a \in Args : Cardinality(Letters(f)) <= Len(a)

\* The buffer has place for a sign, the digits of every word and a terminator:
\* 2^32 is less than 10^48.
ASSUME BufferHoldsWords == Power(2, W) <= Power(10, BufLen - 2)

VARIABLES
    fmt, args,  \* the call
    i,          \* the next character of fmt
    arg,        \* the arguments taken so far
    step,       \* "walk", "digits" or "print"
    base, value, negative, len,  \* locals of the conversion under way
    buf,        \* buf[j]: the j-th character of the buffer, from 0
    out         \* what has been given to vga_write_char

conversion == <<base, value, negative, len>>
vars == <<fmt, args, i, arg, step, conversion, buf, out>>

Nul == "nul"
Digit(d) == <<"0", "1", "2", "3", "4", "5", "6", "7", "8", "9",
              "a", "b", "c", "d", "e", "f">>[d + 1]

\* Characters and strings passed to %c and %s: one for each word.
CharOf(word) == Digit(word % 16)
StringAt(word) == <<"s", Digit(word % 16)>>

\* A word read as an int.
Least == -Power(2, W - 1)
Signed(word) == IF word >= Power(2, W - 1) THEN word - Power(2, W) ELSE word

Init ==
    /\ fmt \in Formats /\ args \in Args
    /\ i = 1 /\ arg = 0 /\ step = "walk"
    /\ base = 10 /\ value = 0 /\ negative = FALSE /\ len = 0
    /\ buf = [j \in 0..(BufLen - 1) |-> Nul]
    /\ out = <<>>
-----------------------------------------------------------------------------
Follows(c) == fmt[i] = "%" /\ i < Len(fmt) /\ fmt[i + 1] = c
Argument == args[arg + 1]

Walking == step = "walk" /\ i <= Len(fmt)

Write(characters) == out' = out \o characters

\* A character that starts no directive, a % among them, is printed.
Plain ==
    /\ Walking
    /\ \A c \in Directives : ~Follows(c)
    /\ Write(<<fmt[i]>>)
    /\ i' = i + 1
    /\ UNCHANGED <<fmt, args, arg, step, conversion, buf>>

\* %c, %b and %s; %b is 0 if the argument's low byte is.
Text ==
    /\ Walking
    /\ \/ Follows("c") /\ Write(<<CharOf(Argument)>>)
       \/ Follows("s") /\ Write(StringAt(Argument))
       \/ Follows("b") /\ Write(IF Argument % 256 = 0 THEN <<"0">> ELSE <<"1">>)
    /\ i' = i + 2
    /\ arg' = arg + 1
    /\ UNCHANGED <<fmt, args, step, conversion, buf>>

\* Negation in W bits: the least int is its own negative.
Negated(v) == IF v = Least THEN v ELSE -v

\* A number is converted by int_to_string, uint_to_string, or their _hex: each
\* writes from buf[n] on, and "0" without counting.
StartNumberAt(n) ==
    /\ Walking
    /\ \E c \in Numbers :
        LET v == IF c \in {"i", "h"} THEN Signed(Argument) ELSE Argument IN
        /\ Follows(c)
        /\ base' = IF c \in {"h", "x"} THEN 16 ELSE 10
        /\ negative' = (v < 0)
        /\ value' = IF v < 0 THEN Negated(v) ELSE v
    /\ len' = n
    /\ IF value' = 0
       THEN /\ buf' = [buf EXCEPT ![0] = "0", ![1] = Nul]
            /\ step' = "print"
       ELSE /\ step' = "digits"
            /\ UNCHANGED buf
    /\ i' = i + 1
    /\ arg' = arg + 1
    /\ UNCHANGED <<fmt, args, out>>

\* Mutant: the index into buf is not reset.
StartNumberKeepsLen == StartNumberAt(len)

StartNumber == StartNumberAt(0)

PutDigit ==
    /\ step = "digits" /\ value > 0
    /\ buf' = [buf EXCEPT ![len] = Digit(value % base)]
    /\ len' = len + 1
    /\ value' = value \div base
    /\ UNCHANGED <<fmt, args, i, arg, step, base, negative, out>>

\* string_rev.
Reversed(b, n) == [j \in DOMAIN b |-> IF j < n THEN b[n - j - 1] ELSE b[j]]

\* Mutant: the terminator of an earlier number is relied on.
FinishUnterminated ==
    LET n == IF negative THEN len + 1 ELSE len
        signed == IF negative THEN [buf EXCEPT ![len] = "-"] ELSE buf
    IN  /\ step = "digits" /\ value <= 0
        /\ len' = n
        /\ buf' = Reversed(signed, n)
        /\ step' = "print"
        /\ UNCHANGED <<fmt, args, i, arg, base, value, negative, out>>

\* After the digits: the sign, the terminator, and the reversal.
Finish ==
    LET n == IF negative THEN len + 1 ELSE len
        signed == IF negative THEN [buf EXCEPT ![len] = "-"] ELSE buf
    IN  /\ step = "digits" /\ value <= 0
        /\ len' = n
        /\ buf' = Reversed([signed EXCEPT ![n] = Nul], n)
        /\ step' = "print"
        /\ UNCHANGED <<fmt, args, i, arg, base, value, negative, out>>

\* strlen(buf).
StrLen == CHOOSE n \in DOMAIN buf : buf[n] = Nul /\ \A j \in 0..(n - 1) : buf[j] # Nul

\* vga_write(buf, strlen(buf)).
PrintNumber ==
    /\ step = "print"
    /\ Write([j \in 1..StrLen |-> buf[j - 1]])
    /\ step' = "walk"
    /\ i' = i + 1
    /\ UNCHANGED <<fmt, args, arg, conversion, buf>>

Next == Plain \/ Text \/ StartNumber \/ PutDigit \/ Finish \/ PrintNumber

Spec == Init /\ [][Next]_vars
-----------------------------------------------------------------------------
(* The reference: what the comment on vga_printf says of each directive.   *)

Numeral(v, b) ==
    LET n == CHOOSE k \in 1..(W + 1) :
                 v < Power(b, k) /\ (k = 1 \/ v >= Power(b, k - 1))
    IN  [k \in 1..n |-> Digit((v \div Power(b, n - k)) % b)]

SignedNumeral(v, b) == IF v < 0 THEN <<"-">> \o Numeral(-v, b) ELSE Numeral(v, b)

Converted(c, word) ==
    CASE c = "i" -> SignedNumeral(Signed(word), 10)
      [] c = "h" -> SignedNumeral(Signed(word), 16)
      [] c = "u" -> Numeral(word, 10)
      [] c = "x" -> Numeral(word, 16)
      [] c = "c" -> <<CharOf(word)>>
      [] c = "s" -> StringAt(word)
      [] c = "b" -> IF word % 256 = 0 THEN <<"0">> ELSE <<"1">>

ArgumentOf(j) == args[Cardinality(Letters(fmt) \cap 1..j)]

Expected ==
    FlattenSeq([j \in 1..Len(fmt) |->
        IF j \in Letters(fmt) THEN Converted(fmt[j], ArgumentOf(j))
        ELSE IF j + 1 \in Letters(fmt) THEN <<>> ELSE <<fmt[j]>>])
-----------------------------------------------------------------------------
(* Properties.                                                             *)

Done == step = "walk" /\ i > Len(fmt)

LeastPrinted ==
    \E j \in Letters(fmt) : fmt[j] \in {"i", "h"} /\ Signed(ArgumentOf(j)) = Least

\* A call prints its format with every directive replaced by its argument, in
\* order, whatever earlier numbers left in the buffer; the exception is the
\* least int as a signed number.
PrintsTheFormat == Done /\ ~LeastPrinted => out = Expected

\* The same with no exception.
PrintsSignedInts == Done => out = Expected

\* The longest numeral, its sign and the terminator fit the buffer.
FitsTheBuffer ==
    step = "print" => len < BufLen /\ \E j \in DOMAIN buf : buf[j] = Nul
=============================================================================

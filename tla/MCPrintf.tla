------------------------------ MODULE MCPrintf ------------------------------
(* Every format of up to two characters, and longer ones in which a number *)
(* follows another in the buffer or a % precedes one; words on both sides  *)
(* of every change of length, sign and low byte.                           *)
EXTENDS Printf

Alphabet == {"%", "z"} \cup Directives
MCFormats ==
    UNION {[1..n -> Alphabet] : n \in 0..2} \cup
    {<<"%", c, "%", d>> : c \in Numbers, d \in Directives} \cup
    {<<"%", "%", c, "z", "%">> : c \in Directives}
Words == {0, 1, 9, 10, 15, 16, 99, 100, 255, 256, 257, Power(2, W) - 1}
MCArgs == Words \X Words
=============================================================================

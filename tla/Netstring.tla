------------------------------ MODULE Netstring ------------------------------
(***************************************************************************)
(* The characters of netstring framing, "length:body,", which the TCP      *)
(* connection of the server and the TCP client write and parse.            *)
(***************************************************************************)
EXTENDS Naturals, Sequences, SequencesExt

Colon == 58
Comma == 44
Digit(d) == 48 + d
IsDigit(b) == b \in Digit(0) .. Digit(9)

\* A number as the stream operator writes it (two digits are enough here).
Decimal(n) == IF n < 10 THEN <<Digit(n)>> ELSE <<Digit(n \div 10), Digit(n % 10)>>

\* atoi of the characters in s: the value of its leading digits.
Atoi(s) ==
    LET stop == SelectInSeq(s, LAMBDA b : ~IsDigit(b))
        digits == IF stop = 0 THEN Len(s) ELSE stop - 1
        value[i \in 0 .. digits] == IF i = 0 THEN 0 ELSE 10 * value[i - 1] + (s[i] - Digit(0))
    IN  value[digits]

\* Mutant: a length is taken to have one digit.
ColonAfterOneDigit(data) == IF Len(data) > 1 /\ data[2] = Colon THEN 2 ELSE 0

\* The place of the first colon, or 0.
ColonAt(data) == SelectInSeq(data, LAMBDA b : b = Colon)
==============================================================================

----------------------------- MODULE TextReader -----------------------------
(***************************************************************************)
(* What the JSON and the XML reader have in common: white space            *)
(* (src/src/reader.cpp) and numerals, which each has a copy of.            *)
(***************************************************************************)
EXTENDS Document

Minus == 45
Point == 46

IsSpace(c) == c \in (9..13) \cup {32}

RECURSIVE SkipWhiteSpace(_)
SkipWhiteSpace(r) == IF ~Eof(r) /\ IsSpace(Peek(r)) THEN SkipWhiteSpace(Get(r)) ELSE r

HexValue(c) == CASE c \in 48..57 -> c - 48 [] c \in 65..70 -> c - 55
                 [] c \in 97..102 -> c - 87 [] OTHER -> -1

IsDigit(c) == c \in 48..57

\* The digits ahead, into r.str.
RECURSIVE TakeDigits(_)
TakeDigits(r) ==
    IF ~IsDigit(Peek(r)) THEN r
    ELSE TakeDigits([Get(r) EXCEPT !.str = Append(@, Peek(r) - 48)])

Digits(r) == TakeDigits([r EXCEPT !.str = << >>])

\* A numeral that starts with 0 ends there.
Integral(r) ==
    IF Peek(r) = 48 THEN [Get(r) EXCEPT !.str = <<0>>]
    ELSE IF IsDigit(Peek(r)) THEN Digits(r) ELSE Throw(r, "ValueInvalid")

\* 2^31, 2^32 - 1, 2^63 and 2^64 - 1.
Limit32(minus) == IF minus THEN <<2,1,4,7,4,8,3,6,4,8>> ELSE <<4,2,9,4,9,6,7,2,9,5>>
Limit64(minus) == IF minus THEN <<9,2,2,3,3,7,2,0,3,6,8,5,4,7,7,5,8,0,8>>
                  ELSE <<1,8,4,4,6,7,4,4,0,7,3,7,0,9,5,5,1,6,1,5>>

\* The handler call for a numeral without fraction and exponent.
IntegralValue(minus, ds) ==
    LET b == BytesOfDigits(ds)
    IN  IF AtMostDigits(ds, Limit32(minus))
        THEN IF minus THEN IntValue(Negate(b)) ELSE UintValue(b)
        ELSE IF minus THEN Int64Value(Negate(b)) ELSE Uint64Value(b)

Fraction(r) ==
    IF Peek(r) # Point THEN [r EXCEPT !.str = << >>]
    ELSE LET q == Digits(Get(r))
         IN  IF q.str = << >> THEN Throw(q, "NumberMissFraction") ELSE q

Number(ds) == FoldLeft(LAMBDA n, d : AtMost(1000, 10 * n + d), 0, ds)

\* The exponent's value in r.c.
Exponent(r) ==
    IF Peek(r) \notin {69, 101} THEN [r EXCEPT !.c = 0]
    ELSE LET e == Get(r)
             neg == Peek(e) = Minus
             q == Digits(IF Peek(e) \in {43, Minus} THEN Get(e) ELSE e)
         IN  IF q.str = << >> THEN Throw(q, "NumberMissExponent")
             ELSE IF Number(q.str) > 308 /\ ~neg THEN Throw(q, "NumberTooBig")
             ELSE [q EXCEPT !.c = IF neg THEN -Number(q.str) ELSE Number(q.str)]

\* Digits past the 17th significant one do not count.
Significant(ds) == SubSeq(ds, 1, AtMost(Len(ds), 17 + Len(ds) - Len(StripLeading(ds))))

\* Integer part, fraction, exponent; a numeral with neither of the last two that
\* fits 64 bits is an integer.  Emit makes the handler call for the value, told how
\* wide it is.
Numeral(r, Emit(_, _, _)) ==
    LET minus == Peek(r) = Minus
    IN  Then(Integral(IF minus THEN Get(r) ELSE r), LAMBDA i :
        LET hasFrac == Peek(i) = Point
        IN  IF Len(i.str) > 309 THEN Throw(i, "NumberTooBig") ELSE
        Then(Fraction(i), LAMBDA f :
        LET hasExp == Peek(f) \in {69, 101}
            ds == Significant(i.str \o f.str)
        IN  Then(Exponent(f), LAMBDA q :
            IF hasFrac \/ hasExp \/ ~AtMostDigits(i.str, Limit64(minus))
            THEN Emit(q, DoubleValue(Normal(IF minus THEN 1 ELSE 0, ds,
                                            q.c - (Len(ds) - Len(i.str)))), "double")
            ELSE Emit(q, IntegralValue(minus, i.str),
                      IF AtMostDigits(i.str, Limit32(minus)) THEN "int" ELSE "int64"))))
=============================================================================

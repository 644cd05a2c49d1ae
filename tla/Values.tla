------------------------------- MODULE Values -------------------------------
(***************************************************************************)
(* The content of a Value (src/src/value.cpp) and its traversal into       *)
(* handler calls.  A value is a tuple that starts with its type:           *)
(*   <<"inv">> <<"null">> <<"bool", b>> <<"date", t>>                      *)
(*   <<"num", flags, data>>  the flags a number carries, and its data      *)
(*   <<"str", bytes>> <<"bin", bytes>>                                     *)
(*   <<"ref", type, begin, length>>  a string or binary that references    *)
(*                the buffer it was parsed from instead of copying it      *)
(*   <<"arr", elements>> <<"map", members>>  a member is <<key, value>>    *)
(* An integer's data is the 8 bytes of data_.n, most significant first, as *)
(* TLC's integers are too narrow; a floating point number is               *)
(* <<negative, exponent, d1, d2, ...>> for d1.d2... * 10^exponent, with no *)
(* trailing zeros and zero as <<0, 0>>.                                    *)
(***************************************************************************)
EXTENDS Integers, Sequences, SequencesExt

Invalid == <<"inv">>

----------------------------------------------------------------------------
(* Arithmetic on sequences of digits, most significant first. *)

\* ds * m + a, in as many places as ds has.
MulAdd(base, ds, m, a) ==
    FoldRight(LAMBDA d, acc : <<(d * m + acc[1]) \div base,
                                <<(d * m + acc[1]) % base>> \o acc[2]>>,
              ds, <<a, << >>>>)[2]

Zeros(n) == [i \in 1..n |-> 0]

\* Leading zeros dropped, up to the last digit.
StripLeading(ds) ==
    LET k == CHOOSE i \in 1..Len(ds) :
                /\ \A j \in 1..(i - 1) : ds[j] = 0
                /\ ds[i] # 0 \/ i = Len(ds)
    IN  SubSeq(ds, k, Len(ds))

StripTrailing(ds) ==
    LET used == {i \in DOMAIN ds : ds[i] # 0}
    IN  SubSeq(ds, 1, CHOOSE i \in used \cup {0} : \A j \in used : j <= i)

\* ds <= limit, neither with leading zeros.
AtMostDigits(ds, limit) ==
    \/ Len(ds) < Len(limit)
    \/ /\ Len(ds) = Len(limit)
       /\ \/ ds = limit
          \/ \E i \in DOMAIN ds : ds[i] < limit[i] /\ \A j \in 1..(i - 1) : ds[j] = limit[j]

Negative(b) == b[1] >= 128

Negate(b) == MulAdd(256, [i \in 1..8 |-> 255 - b[i]], 1, 1)

\* The 8 bytes of a small integer, and of a decimal numeral.
Bytes(n) ==
    LET nat(k) == [i \in 1..8 |-> IF i < 5 THEN 0 ELSE (k \div 256^(8 - i)) % 256]
    IN  IF n >= 0 THEN nat(n) ELSE Negate(nat(-n))

BytesOfDigits(ds) == FoldLeft(LAMBDA b, d : MulAdd(256, b, 10, d), Zeros(8), ds)

DigitsOfBytes(b) == StripLeading(FoldLeft(LAMBDA ds, x : MulAdd(10, ds, 256, x), Zeros(20), b))

\* A 4 byte quantity widened: an int keeps its sign, an unsigned does not.
Widen(bs, signed) ==
    LET fill == IF signed /\ bs[1] >= 128 THEN 255 ELSE 0
    IN  [i \in 1..8 |-> IF i <= 8 - Len(bs) THEN fill ELSE bs[i - (8 - Len(bs))]]

ZeroUpTo(b, k) == \A i \in 1..k : b[i] = 0

----------------------------------------------------------------------------
(* The numeric constructors: which types a number can be read as. *)

IntValue(b) ==
    <<"num", {"Int", "Int64"} \cup (IF Negative(b) THEN {} ELSE {"Uint", "Uint64"}), b>>

UintValue(b) ==
    <<"num", {"Uint", "Uint64", "Int64"} \cup (IF b[5] < 128 THEN {"Int"} ELSE {}), b>>

Int64Value(b) ==
    <<"num", {"Int64"} \cup
        (IF ~Negative(b)
         THEN {"Uint64"} \cup (IF ZeroUpTo(b, 4) THEN {"Uint"} ELSE {})
                         \cup (IF ZeroUpTo(b, 4) /\ b[5] < 128 THEN {"Int"} ELSE {})
         ELSE IF (\A i \in 1..4 : b[i] = 255) /\ b[5] >= 128 THEN {"Int"} ELSE {}), b>>

Uint64Value(b) ==
    <<"num", {"Uint64"} \cup (IF ~Negative(b) THEN {"Int64"} ELSE {})
                        \cup (IF ZeroUpTo(b, 4) THEN {"Uint"} ELSE {})
                        \cup (IF ZeroUpTo(b, 4) /\ b[5] < 128 THEN {"Int"} ELSE {}), b>>

FloatValue(d) == <<"num", {"Float"}, d>>

DoubleValue(d) == <<"num", {"Float", "Double"}, d>>

----------------------------------------------------------------------------
(* Traverse: the handler calls a value makes, in order. *)

NumberCall(v) ==
    CASE "Int" \in v[2] -> <<"Int", v[3]>>
      [] "Int" \notin v[2] /\ "Uint" \in v[2] -> <<"Uint", v[3]>>
      [] v[2] \cap {"Int", "Uint"} = {} /\ "Int64" \in v[2] -> <<"Int64", v[3]>>
      [] v[2] \cap {"Int", "Uint", "Int64"} = {} /\ "Uint64" \in v[2] -> <<"Uint64", v[3]>>
      [] "Double" \in v[2] -> <<"Double", v[3]>>
      [] OTHER -> <<"Float", v[3]>>

\* The calls of the members or elements, with the separator's call between them.
Separated(calls, separator) ==
    FlattenSeq([i \in DOMAIN calls |->
        IF i < Len(calls) THEN Append(calls[i], <<separator>>) ELSE calls[i]])

RECURSIVE Traverse(_)
Traverse(v) ==
    CASE v[1] = "inv" -> <<<<"Throw", "AccessInvalidValue">>>>
      [] v[1] = "null" -> <<<<"Null">>>>
      [] v[1] = "bool" -> <<<<"Bool", v[2]>>>>
      [] v[1] = "num" -> <<NumberCall(v)>>
      [] v[1] = "date" -> <<<<"DateTime", v[2]>>>>
      [] v[1] = "str" -> <<<<"String", v[2]>>>>
      [] v[1] = "bin" -> <<<<"Binary", v[2]>>>>
      [] v[1] = "arr" ->
            <<<<"StartArray", Len(v[2])>>>>
            \o Separated([i \in DOMAIN v[2] |-> Traverse(v[2][i])], "ArraySeparator")
            \o <<<<"EndArray", Len(v[2])>>>>
      [] v[1] = "map" ->
            <<<<"StartMap", Len(v[2])>>>>
            \o Separated([i \in DOMAIN v[2] |->
                   <<<<"Key", v[2][i][1][2]>>>> \o Traverse(v[2][i][2])], "MapSeparator")
            \o <<<<"EndMap", Len(v[2])>>>>

----------------------------------------------------------------------------
(* Conversions of the C library (external). *)

\* The local time text of a time_t is a constant of 17 bytes per time: the text of
\* time t is its 17 bytes with t in the seconds place.
TimeText(t) == <<50,48,49,53,49,49,48,54,84,49,56,58,48,56,58,48 + (t \div 10), 48 + (t % 10)>>

TimeOfText(s) ==
    IF Len(s) = 17 /\ SubSeq(s, 1, 15) = SubSeq(TimeText(0), 1, 15)
       /\ s[16] \in 48..57 /\ s[17] \in 48..57
    THEN 10 * (s[16] - 48) + s[17] - 48 ELSE -1

\* Decimal text of an integer (std::to_string).
Text(ds) == [i \in DOMAIN ds |-> ds[i] + 48]

IntegerText(b, signed) ==
    IF signed /\ Negative(b) THEN <<45>> \o Text(DigitsOfBytes(Negate(b)))
    ELSE Text(DigitsOfBytes(b))

\* The floating point number digits * 10^scale, digits a sequence.
Normal(neg, ds, scale) ==
    LET lead == IF ds = << >> THEN <<0>> ELSE StripLeading(ds)
        sig  == StripTrailing(lead)
    IN  IF sig = << >> THEN <<0, 0>> ELSE <<neg, scale + Len(lead) - 1>> \o sig

Mantissa(d) == SubSeq(d, 3, Len(d))

\* Rounded to p significant digits.
Round(d, p) ==
    LET ds == Mantissa(d)
        up == MulAdd(10, <<0>> \o SubSeq(ds, 1, p), 1, IF ds[p + 1] >= 5 THEN 1 ELSE 0)
    IN  IF Len(ds) <= p THEN d ELSE Normal(d[1], up, d[2] - (p - 1))

\* printf's %.<p>g.
GText(x, p) ==
    LET d == Round(x, p)  ds == Mantissa(d)  e == d[2]
        sign == IF d[1] = 1 THEN <<45>> ELSE << >>
        point(int, frac) == Text(int) \o (IF frac = << >> THEN << >> ELSE <<46>> \o Text(frac))
        abs == IF e < 0 THEN -e ELSE e
    IN  sign \o
        (IF ds = << >> THEN <<48>>
         ELSE IF e < -4 \/ e >= p
         THEN point(<<ds[1]>>, Tail(ds)) \o <<101, IF e < 0 THEN 45 ELSE 43>>
              \o (IF abs < 100 THEN Text(<<abs \div 10, abs % 10>>)
                  ELSE Text(<<abs \div 100, (abs \div 10) % 10, abs % 10>>))
         ELSE IF e < 0 THEN point(<<0>>, Zeros(abs - 1) \o ds)
         ELSE LET all == ds \o Zeros(IF e + 1 > Len(ds) THEN e + 1 - Len(ds) ELSE 0)
              IN  point(SubSeq(all, 1, e + 1), SubSeq(all, e + 2, Len(all))))

\* The bytes of a float or a double, an invertible packing (external: the union
\* that reads its bits): sign and exponent, then two digits to a byte.
Bits(d, n) ==
    LET ds == Mantissa(d) \o Zeros(2 * (n - 1) - Len(Mantissa(d)))
    IN  <<128 * d[1] + d[2] + 64>> \o [i \in 1..(n - 1) |-> 10 * ds[2 * i - 1] + ds[2 * i]]

OfBits(bs) ==
    LET ds == FlattenSeq([i \in 1..(Len(bs) - 1) |-> <<bs[i + 1] \div 10, bs[i + 1] % 10>>])
    IN  Normal(bs[1] \div 128, ds, (bs[1] % 128) - 64 - (Len(ds) - 1))
=============================================================================

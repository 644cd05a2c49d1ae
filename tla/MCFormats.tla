----------------------------- MODULE MCFormats -----------------------------
(***************************************************************************)
(* The values Formats is checked on: both sides of every boundary the      *)
(* writers and readers branch on.                                          *)
(***************************************************************************)
EXTENDS Formats

Plain == [encoding |-> "UTF8", precision |-> 0, pretty |-> FALSE]
Pretty == [encoding |-> "ASCII", precision |-> 15, pretty |-> TRUE]

MCOptions == [f \in {"json", "xml", "mpack"} |-> IF f = "mpack" THEN {Plain} ELSE {Plain, Pretty}]

All == {"json", "xml", "mpack"}

Repeat(c, n) == [i \in 1..n |-> c]
Str(s) == <<"str", s>>
Num(n) == IntValue(Bytes(n))

Pow(k) == [i \in 1..8 |-> IF i = 8 - (k \div 8) THEN 2^(k % 8) ELSE 0]

Integers ==
    {Num(n) : n \in {0, 127, 128, 255, 256, 65535, 65536, 2147483647,
                     -1, -32, -33, -128, -129, -32768, -32769}}
    \cup {UintValue(b) : b \in {Pow(31), <<0,0,0,0,255,255,255,255>>}}
    \cup {Int64Value(b) : b \in {Pow(32), <<127,255,255,255,255,255,255,255>>, Pow(63),
                                 Negate(Pow(31)), Negate(Pow(63)),
                                 <<255,255,255,255,127,255,255,255>>}}
    \cup {Uint64Value(b) : b \in {Pow(63), Repeat(255, 8)}}

Doubles == {DoubleValue(d) : d \in {<<0, 0>>, <<0, 0, 1, 5>>, <<1, -3, 1>>, <<0, 20, 1>>, <<0, -7, 2, 5>>,
                                    <<0, 0, 1, 2, 3, 4, 5, 6, 7, 8, 9>>, <<1, 8, 9, 9, 9, 9, 9, 9, 9, 6>>,
                                    <<0, 2, 5>>}}
           \cup {FloatValue(<<0, 1, 2, 5>>)}

Wide == {<<97>>, <<233, 8364>>, <<128512, 98>>, <<127, 128, 2047, 2048, 65533, 65536, 131071>>}

Strings == {<< >>, <<1>>, <<9, 10, 13, 8, 12, 31>>, <<34, 92, 47>>, <<60, 62, 38, 39, 34>>,
            <<32, 9>>, Repeat(97, 15), Repeat(98, 31), Repeat(99, 32)}

Binaries == {<< >>, <<0>>, <<255, 1>>, <<251, 255, 0>>, <<1, 2, 3, 4>>,
             Repeat(7, 47), Repeat(7, 48), Repeat(7, 49)}

Arrays == {<<"arr", a>> : a \in {
    << >>, <<Num(5)>>, <<Str(<<97>>), Str(<<98>>)>>, <<Str(<<34, 200>>), Num(3), Str(<< >>)>>,
    <<<<"null">>, <<"bool", TRUE>>, <<"bool", FALSE>>>>, <<<<"arr", << >>>>, <<"map", << >>>>>>,
    <<<<"date", 7>>, <<"bin", <<1, 2>>>>, DoubleValue(<<0, 0, 1, 5>>)>>,
    <<Str(<< >>), Str(<<97>>)>>, <<Str(<<65>>), Num(1)>>,
    Repeat(Num(1), 15), Repeat(<<"null">>, 16),
    <<Num(1), Invalid>>}}

Key1(c) == Str(<<c>>)

Maps == {<<"map", m>> : m \in {
    << >>, <<<<Key1(97), Num(1)>>>>, <<<<Key1(97), Str(<<38, 59>>)>>, <<Key1(60), Num(-7)>>>>,
    <<<<Key1(97), <<"map", <<<<Key1(98), <<"arr", <<Num(300), Str(<<99>>)>>>>>>>>>>>>, <<Key1(99), <<"null">>>>>>,
    <<<<Str(<< >>), Num(2)>>, <<Key1(98), Str(<< >>)>>>>,
    <<<<Str(Repeat(107, 32)), <<"bin", <<9>>>>>>>>,
    [i \in 1..16 |-> <<Key1(96 + i), Num(i)>>]}}

Pick(v, formats) == [value |-> v, wide |-> << >>, formats |-> formats]

MCSamples ==
    {Pick(v, All) : v \in Integers \cup Doubles \cup Arrays \cup Maps
                          \cup {Str(s) : s \in Strings} \cup {<<"bin", b>> : b \in Binaries}
                          \cup {<<"null">>, <<"bool", TRUE>>, <<"date", 42>>, Invalid}}
    \cup {[value |-> Str(ConvertToUtf8(w)), wide |-> w, formats |-> All] : w \in Wide}
    \cup {Pick(Str(s), {"json", "mpack"}) : s \in {<<97, 0, 98>>, <<0>>}}
    \* A NUL in a string is refused by the XML writer.
    \cup {Pick(Str(<<97, 0>>), {"xml"})}
    \cup {Pick(v, {"mpack"}) : v \in
            {Str(Repeat(97, 255)), Str(Repeat(97, 256)), Str(Repeat(97, 65535)), Str(Repeat(97, 65536)), <<"bin", Repeat(1, 255)>>,
             <<"bin", Repeat(1, 256)>>, <<"bin", Repeat(1, 65536)>>,
             <<"map", <<<<Str(Repeat(107, 255)), Num(1)>>>>>>,
             <<"map", <<<<Str(Repeat(107, 256)), Num(1)>>>>>>}}
=============================================================================

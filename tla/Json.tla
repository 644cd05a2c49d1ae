-------------------------------- MODULE Json --------------------------------
(***************************************************************************)
(* JsonWriter and JsonReader (src/src/json/).  Characters are their codes. *)
(***************************************************************************)
EXTENDS TextReader

Quote == 34
Comma == 44
Backslash == 92
LowerU == 117

Word(w) == CASE w = "null" -> <<110,117,108,108>> [] w = "true" -> <<116,114,117,101>>
             [] w = "false" -> <<102,97,108,115,101>>

----------------------------------------------------------------------------
(* Writer, with the encoding ("UTF8", "ASCII"), precision and pretty options. *)

Chars(s) == [i \in DOMAIN s |-> <<"c", s[i]>>]

HexDigit(n) == IF n < 10 THEN 48 + n ELSE 55 + n

HexDigits(n) == [i \in 1..4 |-> HexDigit((n \div 16^(4 - i)) % 16)]

\* The letter after the backslash; 0 when the byte needs no escape.
Escape(c) == CASE c = 8 -> 98 [] c = 9 -> 116 [] c = 10 -> 110 [] c = 12 -> 102 [] c = 13 -> 114
               [] c \in {Quote, Backslash} -> c
               [] c \in (0..31) \ {8, 9, 10, 12, 13} -> LowerU [] OTHER -> 0

UnicodeEscape(cp) ==
    LET s == cp - 65536
    IN  <<Backslash, LowerU>> \o
        (IF cp <= 65535 THEN HexDigits(cp)
         ELSE HexDigits(s \div 1024 + 55296) \o <<Backslash, LowerU>> \o HexDigits((s % 1024) + 56320))

\* The body of a string, from its i-th byte on; a byte sequence that is not UTF-8
\* throws under the ASCII encoding.
RECURSIVE StringBody(_, _, _)
StringBody(s, i, encoding) ==
    IF i > Len(s) THEN << >>
    ELSE LET c == s[i]  d == DecodeUtf8(s, i)
         IN  IF Escape(c) # 0
             THEN (IF Escape(c) = LowerU THEN <<Backslash, LowerU>> \o HexDigits(c)
                   ELSE <<Backslash, Escape(c)>>) \o StringBody(s, i + 1, encoding)
             ELSE IF encoding = "ASCII" /\ c >= 128
             THEN IF d = BadUtf8 THEN <<-1>>
                  ELSE UnicodeEscape(d[1]) \o StringBody(s, i + d[2], encoding)
             ELSE <<c>> \o StringBody(s, i + 1, encoding)

JsonString(s, encoding) ==
    <<<<"c", Quote>>>> \o Chars(StringBody(s, 1, encoding)) \o <<<<"c", Quote>>>>

JsonDouble(d, precision) == <<<<"s", GText(d, IF precision > 0 THEN precision ELSE 6)>>>>

\* ["name","text"], one Put.
JsonDateTime(t) ==
    <<<<"s", <<91, Quote>> \o DateTimeName \o <<Quote, Comma, Quote>> \o TimeText(t) \o <<Quote, 93>>>>>>

JsonBinary(b) ==
    <<<<"s", <<91, Quote>> \o Base64Name \o <<Quote, Comma, Quote>>>>>>
    \o Base64Encode(b) \o <<<<"s", <<Quote, 93>>>>>>

NewLine(pretty, level) ==
    IF pretty THEN <<<<"c", 10>>>> \o [i \in 1..level |-> <<"s", <<9>>>>] ELSE << >>

\* level is level_ before the call; LevelAfter the one after it.
LevelAfter(call, level) ==
    CASE call[1] \in {"StartMap", "StartArray"} -> level + 1
      [] call[1] \in {"EndMap", "EndArray"} -> level - 1
      [] OTHER -> level

JsonOpen(c, o, level) ==
    NewLine(o.pretty, level) \o <<<<"c", c>>>> \o NewLine(o.pretty, level + 1)

\* Mutant: the stream is not flushed.
JsonCloseUnflushed(c, o, level) == NewLine(o.pretty, level - 1) \o <<<<"c", c>>>>

JsonClose(c, o, level) == NewLine(o.pretty, level - 1) \o <<<<"c", c>>, <<"f">>>>

JsonSeparator(o, level) == <<<<"c", Comma>>>> \o NewLine(o.pretty, level)

JsonWrite(call, o, level) ==
    CASE call[1] = "Null" -> <<<<"s", Word("null")>>>>
      [] call[1] = "Bool" -> <<<<"s", IF call[2] THEN Word("true") ELSE Word("false")>>>>
      [] call[1] \in {"Int", "Int64"} -> <<<<"s", IntegerText(call[2], TRUE)>>>>
      [] call[1] \in {"Uint", "Uint64"} -> <<<<"s", IntegerText(call[2], FALSE)>>>>
      [] call[1] \in {"Float", "Double"} -> JsonDouble(call[2], o.precision)
      [] call[1] = "DateTime" -> JsonDateTime(call[2])
      [] call[1] = "String" -> JsonString(call[2], o.encoding)
      [] call[1] = "Binary" -> JsonBinary(call[2])
      [] call[1] = "Key" -> Append(JsonString(call[2], o.encoding), <<"c", 58>>)
      [] call[1] = "StartMap" -> JsonOpen(123, o, level)
      [] call[1] = "StartArray" -> JsonOpen(91, o, level)
      [] call[1] = "EndMap" -> JsonClose(125, o, level)
      [] call[1] = "EndArray" -> JsonClose(93, o, level)
      [] OTHER -> JsonSeparator(o, level)

----------------------------------------------------------------------------
(* Reader. *)

\* The characters of a literal, one Get after the other until one differs.
RECURSIVE Literal(_, _, _)
Literal(r, s, v) ==
    IF s = << >> THEN Scalar(r, v)
    ELSE LET g == Get(r)
         IN  IF g.c = Head(s) THEN Literal(g, Tail(s), v) ELSE Throw(g, "ValueInvalid")

RECURSIVE HexFrom(_, _, _)
HexFrom(r, k, cp) ==
    IF k = 0 THEN [r EXCEPT !.c = cp]
    ELSE LET g == Get(r)
         IN  IF HexValue(g.c) = -1 THEN Throw(g, "StringUnicodeEscapeInvalid")
             ELSE HexFrom(g, k - 1, cp * 16 + HexValue(g.c))

\* Four hexadecimal digits, their value in r.c.
ParseHex4(r) == HexFrom(r, 4, 0)

\* \uXXXX, or a surrogate pair of them.
ParseUnicode(r) ==
    Then(ParseHex4(r), LAMBDA lead :
        IF lead.c \notin 55296..56319 THEN DecodePut(lead, EncodeUtf8(lead.c))
        ELSE LET slash == Get(lead)  u == Get(slash)
             IN  IF slash.c # Backslash \/ u.c # LowerU
                 THEN Throw(IF slash.c # Backslash THEN slash ELSE u, "SurrogateInvalid")
                 ELSE Then(ParseHex4(u), LAMBDA trail :
                      IF trail.c \notin 56320..57343 THEN Throw(trail, "SurrogateInvalid")
                      ELSE DecodePut(trail, EncodeUtf8((lead.c - 55296) * 1024
                                                       + (trail.c - 56320) + 65536))))

Unescape(e) == CASE e = 98 -> 8 [] e = 116 -> 9 [] e = 110 -> 10 [] e = 102 -> 12 [] e = 114 -> 13
                 [] e \in {Quote, Backslash, 47} -> e [] OTHER -> 0

RECURSIVE ParseStringToStream(_)
ParseStringToStream(r) ==
    LET c == Peek(r)
        e == Get(Get(r))
    IN  CASE c = Backslash /\ Unescape(e.c) # 0 ->
                Then(DecodePut(e, <<Unescape(e.c)>>), ParseStringToStream)
          [] c = Backslash /\ Unescape(e.c) = 0 /\ e.c = LowerU ->
                Then(ParseUnicode(e), ParseStringToStream)
          [] c = Backslash /\ Unescape(e.c) = 0 /\ e.c # LowerU -> Throw(e, "StringEscapeInvalid")
          [] c = Quote -> DecodePut(Get(r), <<0>>)
          [] c = 0 -> Throw(r, "StringMissingQuotationMark")
          [] c \in 1..31 -> Throw(r, "StringEscapeInvalid")
          [] OTHER -> Then(DecodePut(Get(r), <<c>>), ParseStringToStream)

\* A string or a key, without the terminator that was put after it.
ParseStringWith(r, Handle(_, _, _)) ==
    Then(ParseStringToStream(DecodeBegin(Get(r))), LAMBDA q :
        LET all == DecodedBytes(q)
        IN  Handle(PutEnd(q), q.begin, SubSeq(all, 1, Len(all) - 1)))

ParseString(r) ==
    ParseStringWith(r, LAMBDA q, begin, s : StringOrBinary(q, "str", begin, s, q.copy))

ParseKey(r) == ParseStringWith(r, LAMBDA q, begin, s : Key(q, begin, s, q.copy))

ParseNumber(r) == Numeral(r, LAMBDA q, v, width : Scalar(q, v))

RECURSIVE ParseValue(_), Members(_, _), Elements(_, _)

\* One member and what follows it.
Members(r, count) ==
    IF Peek(r) # Quote THEN Throw(r, "ObjectMissName")
    ELSE Then(ParseKey(r), LAMBDA k :
         LET colon == Get(SkipWhiteSpace(k))
         IN  IF colon.c # 58 THEN Throw(colon, "ObjectMissColon")
             ELSE Then(ParseValue(SkipWhiteSpace(colon)), LAMBDA v :
                  LET g == Get(SkipWhiteSpace(v))
                  IN  CASE g.c = Comma -> Then(MapSeparator(SkipWhiteSpace(g)),
                                               LAMBDA m : Members(m, count + 1))
                        [] g.c = 125 -> EndMap(g, count + 1)
                        [] OTHER -> Throw(g, "ObjectMissCommaOrCurlyBracket")))

ParseMap(r) ==
    Then(StartMap(Get(r)), LAMBDA q :
        LET s == SkipWhiteSpace(q)
        IN  IF Peek(s) = 125 THEN EndMap(Get(s), 0) ELSE Members(s, 0))

Elements(r, count) ==
    Then(ParseValue(r), LAMBDA v :
        LET g == Get(SkipWhiteSpace(v))
        IN  CASE g.c = Comma -> Then(ArraySeparator(SkipWhiteSpace(g)),
                                     LAMBDA a : Elements(a, count + 1))
              [] g.c = 93 -> EndArray(g, count + 1)
              [] OTHER -> Throw(g, "ArrayMissCommaOrSquareBracket"))

ParseArray(r) ==
    Then(StartArray(Get(r)), LAMBDA q :
        LET s == SkipWhiteSpace(q)
        IN  IF Peek(s) = 93 THEN EndArray(Get(s), 0) ELSE Elements(s, 0))

ParseValue(r) ==
    CASE Peek(r) = 110 -> Literal(r, Word("null"), <<"null">>)
      [] Peek(r) = 116 -> Literal(r, Word("true"), <<"bool", TRUE>>)
      [] Peek(r) = 102 -> Literal(r, Word("false"), <<"bool", FALSE>>)
      [] Peek(r) = Quote -> ParseString(r)
      [] Peek(r) = 123 -> ParseMap(r)
      [] Peek(r) = 91 -> ParseArray(r)
      [] OTHER -> ParseNumber(r)

\* What follows the first value is not looked at; a stream of spaces is no error.
JsonRead(r) ==
    LET s == SkipWhiteSpace(StartDocument(r)) IN IF Eof(s) THEN s ELSE ParseValue(s)
=============================================================================

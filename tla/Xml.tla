--------------------------------- MODULE Xml ---------------------------------
(***************************************************************************)
(* XmlWriter and XmlReader (src/src/xml/).  Characters are their codes,    *)
(* except that the name of a tag or of an entity is one unit above 255:    *)
(* what a longer or a shorter name does is what any unknown name does.     *)
(***************************************************************************)
EXTENDS TextReader

Less == 60
Slash == 47
Greater == 62
Ampersand == 38
Semicolon == 59
Hash == 35

\* xmlTagList.
TagNames == <<"value", "boolean", "double", "int", "i4", "i8", "string", "dateTime", "base64",
              "nil", "array", "data", "struct", "member", "name", "methodCall", "methodName",
              "methodResponse", "params", "param", "fault">>

Unit(name) == 300 + CHOOSE i \in DOMAIN TagNames : TagNames[i] = name

NameOf(u) == IF u - 300 \in DOMAIN TagNames THEN TagNames[u - 300] ELSE "invalid"

\* rawEntity: lt, gt, amp, apos and quot are the units 401 to 405.
Entities == <<60, 62, 38, 39, 34>>

Start(name) == <<Less, Unit(name), Greater>>
End(name)   == <<Less, Slash, Unit(name), Greater>>
Empty(name) == <<Less, Unit(name), Slash, Greater>>

----------------------------------------------------------------------------
(* Writer. *)

Put(s) == <<<<"s", s>>>>

Chars(s) == [i \in DOMAIN s |-> <<"c", s[i]>>]

HexDigit(n) == IF n < 10 THEN 48 + n ELSE 55 + n

\* One character of a string; -1 stands for the exception on a NUL.
Escaped(c) ==
    CASE c = 0 -> <<<<"c", -1>>>>
      [] \E i \in DOMAIN Entities : Entities[i] = c ->
            Put(<<Ampersand, 400 + (CHOOSE i \in DOMAIN Entities : Entities[i] = c), Semicolon>>)
      [] c \in (1..31) \ {9, 10, 13} ->
            Put(<<Ampersand, Hash, 120>>) \o Chars(<<HexDigit(c \div 16), HexDigit(c % 16), Semicolon>>)
      [] OTHER -> <<<<"c", c>>>>

StringData(s) == FlattenSeq([i \in DOMAIN s |-> Escaped(s[i])])

\* Every digit there is, and no exponent.
DoubleToStream(d) ==
    LET ds == Mantissa(d)  e == d[2]
        all == ds \o Zeros(IF e + 1 > Len(ds) THEN e + 1 - Len(ds) ELSE 0)
    IN  IF ds = << >> THEN <<48>>
        ELSE (IF d[1] = 1 THEN <<Minus>> ELSE << >>) \o
             (IF e < 0 THEN <<48, Point>> \o Text(Zeros(-(e + 1)) \o ds)
              ELSE Text(SubSeq(all, 1, e + 1)) \o
                   (IF Len(all) > e + 1 THEN <<Point>> \o Text(SubSeq(all, e + 2, Len(all))) ELSE << >>))

XmlDouble(d, precision) == Put(IF precision > 0 THEN GText(d, precision) ELSE DoubleToStream(d))

\* <value><tag>...</tag></value>
Typed(name, chunks) ==
    Put(Start("value") \o Start(name)) \o chunks \o Put(End(name) \o End("value"))

StartLine(pretty, level) ==
    IF pretty THEN <<<<"c", 10>>>> \o [i \in 1..level |-> <<"s", <<9>>>>] ELSE << >>

EndToken(s, o, level) == StartLine(o.pretty, level - 1) \o Put(s)

XmlKey(s, o, level) ==
    StartLine(o.pretty, level) \o Put(Start("member")) \o StartLine(o.pretty, level + 1)
    \o Put(Start("name")) \o StringData(s) \o Put(End("name")) \o StartLine(o.pretty, level + 1)

XmlEndMap(count, o, level) ==
    (IF count > 0 THEN EndToken(End("member"), o, level) ELSE << >>)
    \o EndToken(End("struct") \o End("value"), o, IF count > 0 THEN level - 1 ELSE level)
    \o <<<<"f">>>>

XmlStartArray(count, o, level) ==
    Put(Start("value") \o Start("array") \o Start("data"))
    \o (IF count # 0 THEN StartLine(o.pretty, level + 1) ELSE << >>)

\* level_ after the call.
LevelAfter(call, level) ==
    CASE call[1] \in {"StartMap", "StartArray", "Key"} -> level + 1
      [] call[1] \in {"MapSeparator", "EndArray"} \/ call = <<"EndMap", 0>> -> level - 1
      [] call[1] = "EndMap" /\ call # <<"EndMap", 0>> -> level - 2
      [] OTHER -> level

XmlWrite(call, o, level) ==
    CASE call[1] = "Null" -> Put(Start("value") \o Empty("nil") \o End("value"))
      [] call[1] = "Bool" ->
            Put(Start("value") \o Start("boolean") \o <<IF call[2] THEN 49 ELSE 48>>
                \o End("boolean") \o End("value"))
      [] call[1] = "Int" -> Typed("i4", Put(IntegerText(call[2], TRUE)))
      [] call[1] = "Uint" -> Typed("i4", Put(IntegerText(call[2], FALSE)))
      [] call[1] = "Int64" -> Typed("i8", Put(IntegerText(call[2], TRUE)))
      [] call[1] = "Uint64" -> Typed("i8", Put(IntegerText(call[2], FALSE)))
      [] call[1] \in {"Float", "Double"} -> Typed("double", XmlDouble(call[2], o.precision))
      [] call[1] = "DateTime" -> Typed("dateTime", Put(TimeText(call[2])))
      [] call[1] = "String" -> Put(Start("value")) \o StringData(call[2]) \o Put(End("value"))
      [] call[1] = "Binary" -> Typed("base64", Base64Encode(call[2]))
      [] call[1] = "Key" -> XmlKey(call[2], o, level)
      [] call[1] = "StartMap" -> Put(Start("value") \o Start("struct"))
      [] call[1] = "MapSeparator" -> EndToken(End("member"), o, level)
      [] call[1] = "EndMap" -> XmlEndMap(call[2], o, level)
      [] call[1] = "StartArray" -> XmlStartArray(call[2], o, level)
      [] call[1] = "ArraySeparator" -> StartLine(o.pretty, level)
      [] call[1] = "EndArray" ->
            Append(EndToken(End("data") \o End("array") \o End("value"), o, level), <<"f">>)

----------------------------------------------------------------------------
(* Reader.  r.tag is the last tag, <<name, form>>; r.skip is               *)
(* tagSkipFirstChar_: the < of the next tag has been consumed already.     *)

\* The units of a tag up to its >; what follows white space is ignored.
RECURSIVE TagUnits(_, _, _, _)
TagUnits(r, units, ended, isEnd) ==
    LET g == Get(r)
        s == Get(g)
        form == IF isEnd THEN "end" ELSE "start"
        name == IF Len(units) = 1 THEN NameOf(units[1]) ELSE "invalid"
    IN  IF Eof(r) THEN Throw(r, "Termination")
        ELSE CASE g.c = Greater -> [g EXCEPT !.tag = <<name, form>>]
               [] g.c = Slash ->
                    IF isEnd \/ s.c # Greater THEN Throw(IF isEnd THEN g ELSE s, "TagInvalid")
                    ELSE [s EXCEPT !.tag = <<name, "empty">>]
               [] IsSpace(g.c) ->
                    IF units = << >> THEN Throw(g, "TagInvalid") ELSE TagUnits(g, units, TRUE, isEnd)
               [] OTHER -> TagUnits(g, IF ended THEN units ELSE Append(units, g.c), ended, isEnd)

\* GetNextTag without the last tag being <value>.  An unknown name makes the invalid
\* tag whatever its form.
GetNextTag(r) ==
    LET w == SkipWhiteSpace(r)
        g == Get(w)
        s == IF r.skip THEN [r EXCEPT !.skip = FALSE]
             ELSE IF Eof(w) THEN Throw(w, "Termination")
             ELSE IF g.c # Less THEN Throw(g, "TagInvalid") ELSE g
        named(q) == IF q.tag[1] = "invalid" THEN [q EXCEPT !.tag[2] = "start"] ELSE q
    IN  Then(s, LAMBDA q :
        Then(IF Peek(q) = Slash THEN TagUnits(Get(q), << >>, FALSE, TRUE)
             ELSE TagUnits(q, << >>, FALSE, FALSE), named))

\* The next tag, which must be the given one.
Expect(r, tag) ==
    Then(GetNextTag(r), LAMBDA q : IF q.tag = tag THEN q ELSE Throw(q, "TagInvalid"))

\* &#x...; and &#...; : at most 5 hexadecimal or 7 decimal digits, up to 10FFFF.
ParseEscapeCode(r, digits, base, longest) ==
    LET value(c) == IF base = 16 THEN HexValue(c) ELSE IF IsDigit(c) THEN c - 48 ELSE -1
        cp == FoldLeft(LAMBDA n, c : n * base + value(c), 0, digits)
    IN  IF Len(digits) > longest \/ (\E i \in DOMAIN digits : value(digits[i]) = -1) \/ cp > 1114111
        THEN Throw(r, "StringUnicodeEscapeInvalid")
        ELSE DecodePut(r, EncodeUtf8(cp))

\* What is between & and ; .
Translate(r, encoded) ==
    CASE encoded = << >> -> Throw(r, "StringEscapeInvalid")
      [] encoded # << >> /\ encoded[1] = Hash ->
            IF Len(encoded) > 2 /\ encoded[2] = 120
            THEN ParseEscapeCode(r, SubSeq(encoded, 3, Len(encoded)), 16, 5)
            ELSE ParseEscapeCode(r, Tail(encoded), 10, 7)
      [] OTHER ->
            IF Len(encoded) = 1 /\ encoded[1] - 400 \in DOMAIN Entities
            THEN DecodePut(r, <<Entities[encoded[1] - 400]>>)
            ELSE Throw(r, "StringEscapeInvalid")

\* Up to the next <; r.c tells whether there was only white space.
RECURSIVE ParseStringToStream(_, _), ParseEntity(_, _)

\* The end of the stream inside an entity returns as a < would.
ParseEntity(r, encoded) ==
    LET g == Get(r)
    IN  IF Eof(r) THEN [r EXCEPT !.c = FALSE]
        ELSE IF g.c # Semicolon THEN ParseEntity(g, Append(encoded, g.c))
        ELSE Then(Translate(g, encoded), LAMBDA q : ParseStringToStream(q, FALSE))

ParseStringToStream(r, blank) ==
    LET c == Peek(r)
    IN  IF Eof(r) THEN Throw(r, "ValueInvalid")
        ELSE IF c = Less THEN [r EXCEPT !.c = blank]
        ELSE IF c = Ampersand THEN ParseEntity(Get(r), << >>)
        ELSE Then(DecodePut(Get(r), <<c>>), LAMBDA q :
                  ParseStringToStream(q, blank /\ IsSpace(c)))

\* The text up to the next tag, the tag, and only then the handler call; in place the
\* terminator takes the place of the tag's <.
ParseText(r, Handle(_, _, _, _)) ==
    Then(ParseStringToStream(DecodeBegin(r), TRUE), LAMBDA q :
        LET g == Get(q)
            s == DecodedBytes(q)
        IN  Then(IF q.begin = 0 THEN g ELSE InSituPut(g, 0), LAMBDA p :
            Then(GetNextTag([PutEnd(p) EXCEPT !.skip = TRUE]), LAMBDA t :
                 Handle(t, q.begin, s, q.c))))

StringCall(r, begin, s) == StringOrBinary(r, "str", begin, s, r.copy)

ParseString(r) ==
    ParseText(r, LAMBDA t, begin, s, blank :
        IF t.tag # <<"string", "end">> THEN Throw(t, "TagInvalid") ELSE StringCall(t, begin, s))

\* GetNextTag(true), after <value>: text up to </value> is a string; otherwise there
\* may only be white space before the tag.
GetValueTag(r) ==
    IF r.skip THEN GetNextTag(r)
    ELSE ParseText(r, LAMBDA t, begin, s, blank :
             IF t.tag = <<"value", "end">> THEN StringCall(t, begin, s)
             ELSE IF ~blank THEN Throw(t, "TagInvalid") ELSE t)

ParseKey(r) ==
    Then(Expect(r, <<"name", "start">>), LAMBDA q :
    ParseText(q, LAMBDA t, begin, s, blank :
        IF t.tag # <<"name", "end">> THEN Throw(t, "TagInvalid") ELSE Key(t, begin, s, t.copy)))

\* The literal "" is never in the stream.
ParseEmptyString(r) == StringOrBinary(r, "str", 0, << >>, TRUE)
ParseEmptyBase64(r) == StringOrBinary(r, "bin", 0, << >>, TRUE)

ParseBoolean(r) ==
    LET g == Get(r)
    IN  IF Eof(r) \/ g.c \notin {48, 49} THEN Throw(g, "Termination")
        ELSE Then(Scalar(g, <<"bool", g.c = 49>>), LAMBDA q : Expect(q, <<"boolean", "end">>))

\* A wide numeral needs a wide tag; the closing tag comes before the handler call.
ParseNumber(r, name) ==
    Numeral(r, LAMBDA q, v, width :
        IF name \notin (CASE width = "double" -> {"double"} [] width = "int64" -> {"double", "i8"}
                          [] OTHER -> {"double", "i8", "i4", "int"})
        THEN Throw(q, "TagInvalid")
        ELSE Then(Expect(q, <<name, "end">>), LAMBDA t : Scalar(t, v)))

\* The text goes to a local stream, in place or not.
ParseDateTime(r) ==
    Then(ParseStringToStream(LocalBegin(r), TRUE), LAMBDA q :
    Then(Expect(q, <<"dateTime", "end">>), LAMBDA t :
        IF TimeOfText(q.ws) = -1 THEN Throw(t, "Termination")
        ELSE Scalar(t, <<"date", TimeOfText(q.ws)>>)))

\* Base64Decode(os, is, '<'): what has been collected of four characters is data.
RECURSIVE Base64DecodeStream(_, _)
Base64DecodeStream(r, data) ==
    LET g == Get(r)
        d == base64Decode(g.c)
        last == IF Len(data) = 2 THEN Get(g) ELSE g
    IN  IF Eof(r) THEN Throw(r, "Base64Invalid")
        ELSE IF Peek(r) = Less
        THEN IF data = << >> THEN r ELSE Throw(r, "Base64Invalid")
        ELSE CASE d = base64Ignore -> Base64DecodeStream(g, data)
               [] d = base64Pad ->
                    IF Len(data) < 2 \/ base64Decode(last.c) # base64Pad
                    THEN Throw(last, "Base64Invalid")
                    ELSE Then(DecodePut(last, Decoded(data)), LAMBDA q :
                              IF Peek(q) = Less THEN q ELSE Throw(q, "Base64Invalid"))
               [] d < 64 /\ Len(data) = 3 ->
                    Then(DecodePut(g, Decoded(Append(data, d))), LAMBDA q :
                         Base64DecodeStream(q, << >>))
               [] OTHER -> Base64DecodeStream(g, Append(data, d))

ParseBase64(r) ==
    Then(Base64DecodeStream(DecodeBegin(r), << >>), LAMBDA q :
    Then(Expect(PutEnd(q), <<"base64", "end">>), LAMBDA t :
        StringOrBinary(t, "bin", q.begin, DecodedBytes(q), t.copy)))

EmptyArray(r) == Then(StartArray(r), LAMBDA q : EndArray(q, 0))

EmptyMap(r) == Then(StartMap(r), LAMBDA q : EndMap(q, 0))

RECURSIVE ParseTyped(_), ParseMembers(_, _), ParseElements(_, _)

\* ParseValue(true): what follows <value>.
ParseTyped(r) ==
    Then(GetValueTag(r), LAMBDA q :
        LET name == q.tag[1]
            typed == CASE q.tag = <<"nil", "empty">> -> Scalar(q, <<"null">>)
                       [] q.tag = <<"boolean", "start">> -> ParseBoolean(q)
                       [] name \in {"int", "i4", "i8", "double"} /\ q.tag[2] = "start" ->
                             ParseNumber(q, name)
                       [] q.tag = <<"string", "start">> -> ParseString(q)
                       [] q.tag = <<"string", "empty">> -> ParseEmptyString(q)
                       [] q.tag = <<"array", "start">> ->
                             Then(GetNextTag(q), LAMBDA t :
                                 CASE t.tag = <<"data", "empty">> ->
                                         Then(EmptyArray(t), LAMBDA e : Expect(e, <<"array", "end">>))
                                   [] t.tag = <<"data", "start">> ->
                                         Then(StartArray(t), LAMBDA e : ParseElements(e, 0))
                                   [] OTHER -> Throw(t, "TagInvalid"))
                       [] q.tag = <<"array", "empty">> -> EmptyArray(q)
                       [] q.tag = <<"struct", "start">> ->
                             Then(StartMap(q), LAMBDA m : ParseMembers(m, 0))
                       [] q.tag = <<"struct", "empty">> -> EmptyMap(q)
                       [] q.tag = <<"dateTime", "start">> -> ParseDateTime(q)
                       [] q.tag = <<"base64", "start">> -> ParseBase64(q)
                       [] q.tag = <<"base64", "empty">> -> ParseEmptyBase64(q)
                       [] OTHER -> Throw(q, "TagInvalid")
        IN  IF q.tag = <<"value", "end">> THEN q
            ELSE Then(typed, LAMBDA t : Expect(t, <<"value", "end">>)))

ParseValue(r) ==
    Then(GetNextTag(r), LAMBDA q :
        CASE q.tag = <<"value", "empty">> -> ParseEmptyString(q)
          [] q.tag = <<"value", "start">> -> ParseTyped(q)
          [] OTHER -> Throw(q, "TagInvalid"))

\* The loop of ParseMap.
ParseMembers(r, count) ==
    Then(GetNextTag(r), LAMBDA q :
        CASE q.tag = <<"member", "start">> ->
                Then(IF count # 0 THEN MapSeparator(q) ELSE q, LAMBDA m :
                Then(ParseKey(m), LAMBDA k :
                Then(ParseValue(k), LAMBDA v :
                Then(Expect(v, <<"member", "end">>), LAMBDA e : ParseMembers(e, count + 1)))))
          [] q.tag = <<"struct", "end">> -> EndMap(q, count)
          [] OTHER -> Throw(q, "TagInvalid"))

\* The loop of ParseArray; <value/> is added without a separator before it.
ParseElements(r, count) ==
    Then(GetNextTag(r), LAMBDA q :
        CASE q.tag = <<"value", "start">> ->
                Then(IF count # 0 THEN ArraySeparator(q) ELSE q, LAMBDA a :
                Then(ParseTyped(a), LAMBDA v : ParseElements(v, count + 1)))
          [] q.tag = <<"value", "empty">> ->
                Then(ParseEmptyString(q), LAMBDA v : ParseElements(v, count + 1))
          [] q.tag = <<"data", "end">> ->
                Then(EndArray(q, count), LAMBDA e : Expect(e, <<"array", "end">>))
          [] OTHER -> Throw(q, "TagInvalid"))

XmlRead(r) ==
    LET s == SkipWhiteSpace(StartDocument(r)) IN IF Eof(s) THEN s ELSE ParseValue(s)

----------------------------------------------------------------------------
(* Requests and responses.  The method's name is kept in r.method, empty   *)
(* until a <methodName> was found: an empty name is refused.               *)

\* Tags, the XML declaration among them, are skipped up to the given one.
RECURSIVE SkipTo(_, _)
SkipTo(r, tag) == Then(GetNextTag(r), LAMBDA q : IF q.tag = tag THEN q ELSE SkipTo(q, tag))

ParseMethodName(r) ==
    Then(ParseStringToStream(LocalBegin(r), TRUE), LAMBDA q :
    Then(Expect(q, <<"methodName", "end">>), LAMBDA t :
        IF q.ws = << >> THEN Throw(t, "TagInvalid") ELSE [t EXCEPT !.method = q.ws]))

RECURSIVE ParamTags(_, _), RequestTags(_, _)

ParamTags(r, count) ==
    Then(GetNextTag(r), LAMBDA q :
        CASE q.tag = <<"params", "end">> -> EndArray(q, count)
          [] q.tag = <<"param", "empty">> -> ParamTags(q, count)
          [] q.tag = <<"param", "start">> ->
                Then(IF count # 0 THEN ArraySeparator(q) ELSE q, LAMBDA a :
                Then(ParseValue(a), LAMBDA v :
                Then(Expect(v, <<"param", "end">>), LAMBDA e : ParamTags(e, count + 1))))
          [] OTHER -> Throw(q, "TagInvalid"))

ParseParams(r) == Then(StartArray(r), LAMBDA q : ParamTags(q, 0))

RequestTags(r, paramsFound) ==
    Then(GetNextTag(r), LAMBDA q :
        CASE q.tag = <<"methodCall", "end">> ->
                IF q.method = << >> THEN Throw(q, "TagInvalid")
                ELSE IF paramsFound THEN q ELSE EmptyArray(q)
          [] q.tag = <<"methodName", "start">> ->
                IF q.method # << >> THEN Throw(q, "TagInvalid")
                ELSE Then(ParseMethodName(q), LAMBDA m : RequestTags(m, paramsFound))
          [] q.tag = <<"params", "start">> ->
                Then(ParseParams(q), LAMBDA p : RequestTags(p, TRUE))
          [] q.tag = <<"params", "empty">> ->
                IF paramsFound THEN Throw(q, "TagInvalid")
                ELSE Then(EmptyArray(q), LAMBDA p : RequestTags(p, TRUE))
          [] OTHER -> Throw(q, "TagInvalid"))

ParseRequest(r) ==
    Then(SkipTo(StartDocument(r), <<"methodCall", "start">>), LAMBDA q : RequestTags(q, FALSE))

ParseResponse(r) ==
    Then(SkipTo(StartDocument(r), <<"methodResponse", "start">>), LAMBDA q :
    Then(GetNextTag(q), LAMBDA t :
        CASE t.tag = <<"params", "start">> ->
                Then(ParseParams(t), LAMBDA p : Expect(p, <<"methodResponse", "end">>))
          [] t.tag = <<"params", "empty">> -> Scalar(t, <<"null">>)
          [] t.tag = <<"fault", "start">> ->
                Then(ParseValue(t), LAMBDA v :
                Then(Expect(v, <<"fault", "end">>), LAMBDA e : Expect(e, <<"methodResponse", "end">>)))
          [] OTHER -> Throw(t, "TagInvalid")))
=============================================================================

---------------------------- MODULE MessagePack ----------------------------
(***************************************************************************)
(* MessagePackWriter and MessagePackReader (src/src/messagepack/).  The    *)
(* writer turns one handler call into Puts; the reader takes a token at a  *)
(* time and looks its parse function up by the token.                      *)
(***************************************************************************)
EXTENDS Document

----------------------------------------------------------------------------
(* Writer. *)

\* The last n bytes of an 8 byte number (take8, _msgpack_store16/32/64).
Store(b, n) == SubSeq(b, 9 - n, 8)

Tagged(token, bytes) == <<<<"c", token>>, <<"s", bytes>>>>

\* Put(char) twice for one byte, Put(buf, n) for more.
TaggedByte(token, byte) == <<<<"c", token>>, <<"c", byte>>>>

FitsUnsigned(b, n) == ZeroUpTo(b, 8 - n)

FitsSigned(b, n) == (\A i \in 1..(8 - n) : b[i] = 255) /\ b[9 - n] >= 128

WriteUint(b) ==
    CASE FitsUnsigned(b, 1) /\ b[8] < 128 -> <<<<"c", b[8]>>>>
      [] FitsUnsigned(b, 1) /\ b[8] >= 128 -> TaggedByte(204, b[8])
      [] ~FitsUnsigned(b, 1) /\ FitsUnsigned(b, 2) -> Tagged(205, Store(b, 2))
      [] OTHER -> Tagged(206, Store(b, 4))

WriteUint64(b) == IF FitsUnsigned(b, 4) THEN WriteUint(b) ELSE Tagged(207, Store(b, 8))

\* Mutant: one number too many.
FixNegativeOffByOne(b) == FitsSigned(b, 1) /\ b[8] >= 223

\* Down to -32 a negative number is its own token.
FixNegative(b) == FitsSigned(b, 1) /\ b[8] >= 224

MPInt(b) ==
    CASE ~Negative(b) -> WriteUint(b)
      [] FixNegative(b) -> <<<<"c", b[8]>>>>
      [] ~FixNegative(b) /\ FitsSigned(b, 1) -> TaggedByte(208, b[8])
      [] ~FitsSigned(b, 1) /\ FitsSigned(b, 2) -> Tagged(209, Store(b, 2))
      [] OTHER -> Tagged(210, Store(b, 4))

MPInt64(b) ==
    IF ~Negative(b) THEN WriteUint64(b)
    ELSE IF FitsSigned(b, 4) THEN MPInt(b) ELSE Tagged(211, Store(b, 8))

MPFloat(d) == Tagged(202, Bits(d, 4))

MPDouble(d) == Tagged(203, Bits(d, 8))

MPString(s) ==
    LET n == Len(s)
        head == CASE n < 32 -> <<<<"c", 160 + n>>>>
                  [] n \in 32..255 -> TaggedByte(217, n)
                  [] n \in 256..65535 -> Tagged(218, Store(Bytes(n), 2))
                  [] OTHER -> Tagged(219, Store(Bytes(n), 4))
    IN  Append(head, <<"s", s>>)

MPBinary(s) ==
    LET n == Len(s)
        head == CASE n < 256 -> TaggedByte(196, n)
                  [] n \in 256..65535 -> Tagged(197, Store(Bytes(n), 2))
                  [] OTHER -> Tagged(198, Store(Bytes(n), 4))
    IN  Append(head, <<"s", s>>)

MPStartMap(n) ==
    CASE n < 16 -> <<<<"c", 128 + n>>>>
      [] n \in 16..65535 -> Tagged(222, Store(Bytes(n), 2))
      [] OTHER -> Tagged(223, Store(Bytes(n), 4))

MPStartArray(n) ==
    CASE n < 16 -> <<<<"c", 144 + n>>>>
      [] n \in 16..65535 -> Tagged(220, Store(Bytes(n), 2))
      [] OTHER -> Tagged(221, Store(Bytes(n), 4))

\* There is no time type: an array of the extension's name and the time's text.
MPDateTime(t) ==
    MPStartArray(2) \o MPString(DateTimeName) \o MPString(TimeText(t)) \o <<<<"f">>>>

MessagePackWrite(call) ==
    CASE call[1] = "Null" -> <<<<"c", 192>>>>
      [] call[1] = "Bool" -> <<<<"c", IF call[2] THEN 195 ELSE 194>>>>
      [] call[1] = "Int" -> MPInt(call[2])
      [] call[1] = "Uint" -> WriteUint(call[2])
      [] call[1] = "Int64" -> MPInt64(call[2])
      [] call[1] = "Uint64" -> WriteUint64(call[2])
      [] call[1] = "Float" -> MPFloat(call[2])
      [] call[1] = "Double" -> MPDouble(call[2])
      [] call[1] = "DateTime" -> MPDateTime(call[2])
      [] call[1] \in {"String", "Key"} -> MPString(call[2])
      [] call[1] = "Binary" -> MPBinary(call[2])
      [] call[1] = "StartMap" -> MPStartMap(call[2])
      [] call[1] = "StartArray" -> MPStartArray(call[2])
      [] call[1] \in {"EndMap", "EndArray"} -> <<<<"f">>>>
      [] OTHER -> << >>

----------------------------------------------------------------------------
(* Reader.  r.tok is token_, -1 when tokenValid_ is false. *)

GetToken(r) == IF r.tok # -1 THEN r ELSE LET g == Get(r) IN [g EXCEPT !.tok = g.c]

\* The token after a string is read by overwriting it with the string's terminator.
\* At the end of the stream GetClear returns 0, and that is taken as a token too.
GetClearToken(r) == LET g == GetClear(r) IN [g EXCEPT !.tok = g.c]

ResetToken(r) == [r EXCEPT !.tok = -1]

\* is_.Read into a buffer of n bytes, or Eof and Get for one byte.
ReadExactly(r, n) ==
    LET q == Read(r, n) IN IF Len(q.str) = n THEN q ELSE Throw(q, "Termination")

ParseNumberOf(r, n, Make(_)) ==
    Then(ReadExactly(r, n), LAMBDA q : ResetToken(Scalar(q, Make(q.str))))

ParsePositiveFixInt(r) == ResetToken(Scalar(r, UintValue(Bytes(r.tok))))
ParseNegativeFixInt(r) == ResetToken(Scalar(r, IntValue(Bytes(r.tok - 256))))
ParseNull(r)   == ResetToken(Scalar(r, <<"null">>))
ParseFalse(r)  == ResetToken(Scalar(r, <<"bool", FALSE>>))
ParseTrue(r)   == ResetToken(Scalar(r, <<"bool", TRUE>>))
ParseUint8(r)  == ParseNumberOf(r, 1, LAMBDA s : UintValue(Widen(s, FALSE)))
ParseUint16(r) == ParseNumberOf(r, 2, LAMBDA s : UintValue(Widen(s, FALSE)))
ParseUint32(r) == ParseNumberOf(r, 4, LAMBDA s : UintValue(Widen(s, FALSE)))
ParseUint64(r) == ParseNumberOf(r, 8, LAMBDA s : Uint64Value(s))
ParseInt8(r)   == ParseNumberOf(r, 1, LAMBDA s : IntValue(Widen(s, TRUE)))
ParseInt16(r)  == ParseNumberOf(r, 2, LAMBDA s : IntValue(Widen(s, TRUE)))
ParseInt32(r)  == ParseNumberOf(r, 4, LAMBDA s : IntValue(Widen(s, TRUE)))
ParseInt64(r)  == ParseNumberOf(r, 8, LAMBDA s : Int64Value(s))
\* Document keeps the inherited Handler::Float, which passes a double on.
ParseFloat32(r) == ParseNumberOf(r, 4, LAMBDA s : DoubleValue(OfBits(s)))
ParseFloat64(r) == ParseNumberOf(r, 8, LAMBDA s : DoubleValue(OfBits(s)))

\* A length of n bytes, too large for the model's streams when it has more than 3.
LengthOf(s) == FoldLeft(LAMBDA n, b : IF n > 8000000 THEN n ELSE n * 256 + b, 0, s)

\* Mutant: the count Skip or Read returns is not tested.
TakeAtMost(r, n) == IF r.kind = "insitu" THEN Skip(PutBegin(r), n) ELSE Read(r, n)

\* Skip in place, or Read into a buffer on the stack or on the heap.
Take(r, n) ==
    LET q == IF r.kind = "insitu" THEN Skip(PutBegin(r), n) ELSE Read(r, n)
    IN  IF Len(q.str) = n THEN q ELSE Throw(q, "Termination")

ParseStr(r, n) ==
    Then(Take(r, n), LAMBDA q :
        IF r.kind = "insitu"
        THEN PutEnd(StringOrBinary(GetClearToken(q), "str", q.begin, q.str, q.copy \/ Eof(q)))
        ELSE ResetToken(StringOrBinary(q, "str", 0, q.str, TRUE)))

ParseBin(r, n) ==
    Then(Take(r, n), LAMBDA q :
        PutEnd(ResetToken(StringOrBinary(q, "bin", q.begin, q.str, q.copy))))

ParseFixStr(r) == ParseStr(r, r.tok % 32)
\* ParseStr8 does not test for the end of the stream.
ParseStr8(r)  == LET g == Get(r) IN ParseStr(g, g.c)
ParseStr16(r) == Then(ReadExactly(r, 2), LAMBDA q : ParseStr(q, LengthOf(q.str)))
ParseStr32(r) == Then(ReadExactly(r, 4), LAMBDA q : ParseStr(q, LengthOf(q.str)))
ParseBin8(r)  == Then(ReadExactly(r, 1), LAMBDA q : ParseBin(q, LengthOf(q.str)))
ParseBin16(r) == Then(ReadExactly(r, 2), LAMBDA q : ParseBin(q, LengthOf(q.str)))
ParseBin32(r) == Then(ReadExactly(r, 4), LAMBDA q : ParseBin(q, LengthOf(q.str)))

\* Only string keys.  Away from the in-place stream an empty key is not passed on,
\* and its token stays valid.
KeyLength(r) ==
    IF r.tok = 217 THEN Then(ReadExactly(r, 1), LAMBDA q : [q EXCEPT !.c = q.str[1]])
    ELSE IF r.tok \in 160..191 THEN [r EXCEPT !.c = r.tok % 32] ELSE Throw(r, "ValueInvalid")

ParseKey(r) ==
    IF Eof(r) THEN Throw(r, "Termination")
    ELSE Then(KeyLength(GetToken(r)), LAMBDA k :
         IF k.kind # "insitu" /\ k.c = 0 THEN k
         ELSE Then(Take(k, k.c), LAMBDA q :
              IF q.kind = "insitu" THEN PutEnd(Key(GetClearToken(q), q.begin, q.str, q.copy))
              ELSE ResetToken(Key(q, 0, q.str, TRUE))))

RECURSIVE ParseStream(_), Elements(_, _, _), Members(_, _, _)

Elements(r, i, n) ==
    IF i > n THEN r
    ELSE Then(ParseStream(r), LAMBDA q :
         Then(IF i # n THEN ArraySeparator(q) ELSE q, LAMBDA s : Elements(s, i + 1, n)))

ParseArray(r, n) ==
    Then(StartArray(ResetToken(r)), LAMBDA q :
    Then(Elements(q, 1, n), LAMBDA s : EndArray(s, n)))

Members(r, i, n) ==
    IF i > n THEN r
    ELSE Then(ParseKey(r), LAMBDA k :
         Then(ParseStream(k), LAMBDA q :
         Then(IF i # n THEN MapSeparator(q) ELSE q, LAMBDA s : Members(s, i + 1, n))))

ParseMap(r, n) ==
    Then(StartMap(ResetToken(r)), LAMBDA q :
    Then(Members(q, 1, n), LAMBDA s : EndMap(s, n)))

ParseArray16(r) == Then(ReadExactly(r, 2), LAMBDA q : ParseArray(q, LengthOf(q.str)))
ParseArray32(r) == Then(ReadExactly(r, 4), LAMBDA q : ParseArray(q, LengthOf(q.str)))
ParseMap16(r) == Then(ReadExactly(r, 2), LAMBDA q : ParseMap(q, LengthOf(q.str)))
ParseMap32(r) == Then(ReadExactly(r, 4), LAMBDA q : ParseMap(q, LengthOf(q.str)))

ParseLookup(r) ==
    CASE r.tok < 128 -> ParsePositiveFixInt(r)
      [] r.tok \in 128..143 -> ParseMap(r, r.tok % 16)
      [] r.tok \in 144..159 -> ParseArray(r, r.tok % 16)
      [] r.tok \in 160..191 -> ParseFixStr(r)
      [] r.tok = 192 -> ParseNull(r)
      [] r.tok = 193 -> Throw(r, "ValueInvalid")
      [] r.tok = 194 -> ParseFalse(r)
      [] r.tok = 195 -> ParseTrue(r)
      [] r.tok = 196 -> ParseBin8(r)
      [] r.tok = 197 -> ParseBin16(r)
      [] r.tok = 198 -> ParseBin32(r)
      [] r.tok \in (199..201) \cup (212..216) -> Throw(r, "NotImplemented")
      [] r.tok = 202 -> ParseFloat32(r)
      [] r.tok = 203 -> ParseFloat64(r)
      [] r.tok = 204 -> ParseUint8(r)
      [] r.tok = 205 -> ParseUint16(r)
      [] r.tok = 206 -> ParseUint32(r)
      [] r.tok = 207 -> ParseUint64(r)
      [] r.tok = 208 -> ParseInt8(r)
      [] r.tok = 209 -> ParseInt16(r)
      [] r.tok = 210 -> ParseInt32(r)
      [] r.tok = 211 -> ParseInt64(r)
      [] r.tok = 217 -> ParseStr8(r)
      [] r.tok = 218 -> ParseStr16(r)
      [] r.tok = 219 -> ParseStr32(r)
      [] r.tok = 220 -> ParseArray16(r)
      [] r.tok = 221 -> ParseArray32(r)
      [] r.tok = 222 -> ParseMap16(r)
      [] r.tok = 223 -> ParseMap32(r)
      [] r.tok >= 224 -> ParseNegativeFixInt(r)

ParseStream(r) ==
    IF r.tok = -1 /\ Eof(r) THEN Throw(r, "Termination") ELSE ParseLookup(GetToken(r))

MessagePackRead(r) == ParseStream(StartDocument(ResetToken(r)))
=============================================================================

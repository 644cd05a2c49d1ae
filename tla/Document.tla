------------------------------ MODULE Document ------------------------------
(***************************************************************************)
(* Document (src/src/document.cpp), the handler that builds a Value from   *)
(* a reader's calls.  stack_ holds pointers to a chain of nested values;   *)
(* here r.doc is the chain itself, each value holding a placeholder for    *)
(* the one above it, which a pop puts in its place.  A call that an        *)
(* anyrpc_assert refuses throws.                                           *)
(***************************************************************************)
EXTENDS Streams, Values, Base64

Top(r) == Last(r.doc)

SetTop(r, v) == [r EXCEPT !.doc[Len(r.doc)] = v]

\* The value on top takes its place in its parent.
Merge(parent, child) ==
    IF parent[1] = "arr" THEN [parent EXCEPT ![2][Len(parent[2])] = child]
    ELSE [parent EXCEPT ![2][Len(parent[2])][2] = child]

PopStack(doc) ==
    Append(SubSeq(doc, 1, Len(doc) - 2), Merge(doc[Len(doc) - 1], doc[Len(doc)]))

Pop(r) == [r EXCEPT !.doc = PopStack(@)]

StartDocument(r) == [r EXCEPT !.doc = <<Invalid>>]

\* stack_.clear() with the pointers: the root is whatever has been built.
RECURSIVE Root(_)
Root(doc) == IF Len(doc) = 1 THEN doc[1] ELSE Root(PopStack(doc))

\* Null, BoolTrue, BoolFalse, Int, Uint, Int64, Uint64, Double, DateTime.
Scalar(r, v) ==
    IF Top(r) # Invalid THEN Throw(r, "AccessNotInvalidValue") ELSE SetTop(r, v)

\* A string or binary parsed in place is referenced, unless the stream asks for a
\* copy; a referenced string must be terminated in the buffer.
Content(r, type, begin, len, bytes, copy) ==
    IF copy THEN <<type, bytes>> ELSE <<"ref", type, begin, len>>

Unterminated(r, type, begin, len, copy) ==
    /\ ~copy /\ type = "str"
    /\ (IF begin + len > Len(r.buf) THEN r.beyond ELSE r.buf[begin + len]) # 0

StringOrBinary(r, type, begin, bytes, copy) ==
    IF Top(r) # Invalid THEN Throw(r, "AccessNotInvalidValue")
    ELSE IF Unterminated(r, type, begin, Len(bytes), copy) THEN Throw(r, "StringNotTerminated")
    ELSE SetTop(r, Content(r, type, begin, Len(bytes), bytes, copy))

StartMap(r) == Scalar(r, <<"map", << >>>>)

Key(r, begin, bytes, copy) ==
    IF Top(r)[1] # "map" THEN Throw(r, "ValueAccess")
    ELSE IF Unterminated(r, "str", begin, Len(bytes), copy) THEN Throw(r, "StringNotTerminated")
    ELSE LET key == Content(r, "str", begin, Len(bytes), bytes, copy)
         IN  [SetTop(r, <<"map", Append(Top(r)[2], <<key, Invalid>>)>>)
                 EXCEPT !.doc = Append(@, Invalid)]

MapSeparator(r) == LET p == Pop(r) IN IF Top(p)[1] # "map" THEN Throw(p, "ValueAccess") ELSE p

EndMap(r, memberCount) ==
    LET p == IF memberCount # 0 THEN Pop(r) ELSE r
    IN  IF Top(p)[1] # "map" THEN Throw(p, "ValueAccess")
        ELSE IF Len(Top(p)[2]) # memberCount THEN Throw(p, "MapCountWrong") ELSE p

StartArray(r) ==
    LET p == Scalar(r, <<"arr", <<Invalid>>>>)
    IN  IF Reading(p) THEN [p EXCEPT !.doc = Append(@, Invalid)] ELSE p

ArraySeparator(r) ==
    IF Top(r) = Invalid THEN Throw(r, "AccessInvalidValue")
    ELSE LET p == Pop(r)
         IN  [SetTop(p, <<"arr", Append(Top(p)[2], Invalid)>>) EXCEPT !.doc = Append(@, Invalid)]

\* The bytes of a string value, referenced or not.
StringOf(r, v) == IF v[1] = "ref" THEN SubSeq(r.buf, v[3], v[3] + v[4] - 1) ELSE v[2]

IsStringValue(v) == v[1] = "str" \/ (v[1] = "ref" /\ v[2] = "str")

\* "AnyRpcDateTime" and "AnyRpcBase64".
DateTimeName == <<65,110,121,82,112,99,68,97,116,101,84,105,109,101>>
Base64Name == <<65,110,121,82,112,99,66,97,115,101,54,52>>

\* strncmp(str, name, length of str): a prefix of the name compares equal, and so
\* does the name followed by a NUL and anything.
NamedBy(s, name) ==
    \/ Len(s) <= Len(name) /\ s = SubSeq(name, 1, Len(s))
    \/ Len(s) > Len(name) /\ SubSeq(s, 1, Len(name) + 1) = name \o <<0>>

ConvertDateTime(r, v) ==
    LET t == TimeOfText(StringOf(r, v[2][2]))
    IN  IF t = -1 THEN Throw(r, "Termination") ELSE SetTop(r, <<"date", t>>)

\* Value::ConvertBase64 decodes a referenced string in the buffer it references.
ConvertBase64(r, v) ==
    LET text  == v[2][2]
        bytes == Base64DecodeBytes(StringOf(r, text))
        in    == text[3]..(text[3] + Len(bytes) - 1)
    IN  IF bytes = << >> THEN Throw(r, "Base64Invalid")
        ELSE IF text[1] = "str" THEN SetTop(r, <<"bin", bytes>>)
        ELSE [SetTop(r, <<"ref", "bin", text[3], Len(bytes)>>) EXCEPT !.buf =
                 [i \in DOMAIN r.buf |-> IF i \in in THEN bytes[i - text[3] + 1] ELSE r.buf[i]]]

EndArray(r, elementCount) ==
    LET p == Pop(r)
        v == Top(p)
        named(name) == NamedBy(StringOf(p, v[2][1]), name) /\ IsStringValue(v[2][2])
    IN  IF Top(r) = Invalid
        THEN IF Len(v[2]) # 1 THEN Throw(p, "ArrayCountWrong") ELSE SetTop(p, <<"arr", << >>>>)
        ELSE IF Len(v[2]) >= 2 /\ IsStringValue(v[2][1])
        THEN IF named(DateTimeName) THEN ConvertDateTime(p, v)
             ELSE IF named(Base64Name) THEN ConvertBase64(p, v) ELSE p
        ELSE IF Len(v[2]) # elementCount THEN Throw(p, "ArrayCountWrong") ELSE p

\* The document as the program sees it once the reader is done: references read
\* from the buffer as parsing left it.
RECURSIVE Resolved(_, _)
Resolved(v, buf) ==
    CASE v[1] = "ref" -> <<v[2], SubSeq(buf, v[3], v[3] + v[4] - 1)>>
      [] v[1] = "arr" -> <<"arr", [i \in DOMAIN v[2] |-> Resolved(v[2][i], buf)]>>
      [] v[1] = "map" -> <<"map", [i \in DOMAIN v[2] |->
                              <<Resolved(v[2][i][1], buf), Resolved(v[2][i][2], buf)>>]>>
      [] OTHER -> v
=============================================================================

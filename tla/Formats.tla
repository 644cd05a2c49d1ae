------------------------------ MODULE Formats ------------------------------
(***************************************************************************)
(* A Value on its way through a format: Value::Traverse drives a writer    *)
(* one handler call at a time, the writer puts bytes into a stream, the    *)
(* bytes leave the stream (sent piece by piece, saved to a file, or taken  *)
(* as a string), and a reader turns what arrived into a Document.  A       *)
(* message may arrive cut short: a client whose time is up and a server    *)
(* that meets the end of a file hand the reader what they have.            *)
(***************************************************************************)
EXTENDS Document

CONSTANTS
    Samples,        \* the values to write: a set of [value, wide, formats] records
    Options,        \* writer options per format
    OutKinds,       \* output streams
    InKinds,        \* input streams
    CutKinds,       \* input streams that may be cut short
    CutLength,      \* bound on the length of the messages that are cut
    FileLength      \* bound on the length of the messages read from a file

MP == INSTANCE MessagePack
J == INSTANCE Json
X == INSTANCE Xml

VARIABLES
    chosen,         \* what is being written
    format, options,
    calls,          \* the handler calls Traverse still has to make
    level,          \* level_ of the writer
    os,             \* the output stream
    text,           \* every byte the writer has put, in order
    wire,           \* the bytes that have left the stream
    phase,          \* "write", "send", "arrived", "done", "failed"
    input,          \* what the reader read: [kind, cut]
    result          \* the reader's outcome: [err, value]

vars == <<chosen, format, options, calls, level, os, text, wire, phase, input, result>>

Write(call) ==
    CASE format = "json" -> J!JsonWrite(call, options, level)
      [] format = "xml" -> X!XmlWrite(call, options, level)
      [] format = "mpack" -> MP!MessagePackWrite(call)

NextLevel(call) == IF format = "xml" THEN X!LevelAfter(call, level) ELSE J!LevelAfter(call, level)

ReadWith(f, r) ==
    CASE f = "json" -> J!JsonRead(r) [] f = "xml" -> X!XmlRead(r) [] f = "mpack" -> MP!MessagePackRead(r)

\* EndDocument and GetValue.
Outcome(r) == [err |-> r.err, value |-> Resolved(Root(r.doc), r.buf)]

Stream(kind) == CASE kind = "segmented" -> SegmentedStream [] kind = "file" -> WriteFileStream
                  [] kind = "string" -> WriteStringStream

BytesOf(chunks) ==
    FlattenSeq([i \in DOMAIN chunks |-> CASE chunks[i][1] = "c" -> <<chunks[i][2]>>
                                          [] chunks[i][1] = "s" -> chunks[i][2]
                                          [] chunks[i][1] = "f" -> << >>])

Nothing == [err |-> "", value |-> Invalid]

Init ==
    /\ chosen \in Samples
    /\ format \in chosen.formats
    /\ options \in Options[format]
    /\ calls = Traverse(chosen.value)
    /\ level = 0
    /\ \E kind \in OutKinds : os = Stream(kind)
    /\ text = << >> /\ wire = << >>
    /\ phase = "write"
    /\ input = [kind |-> "", cut |-> FALSE]
    /\ result = Nothing

\* One handler call.  An exception leaves Traverse with what was put before it.
WriteCall ==
    /\ phase = "write" /\ calls # << >>
    /\ LET call == Head(calls)
           chunks == IF call[1] = "Throw" THEN << >> ELSE Write(call)
           throws == call[1] = "Throw" \/ \E i \in DOMAIN chunks : chunks[i] = <<"c", -1>>
       IN  IF throws THEN phase' = "failed" /\ UNCHANGED <<calls, level, os, text>>
           ELSE /\ calls' = Tail(calls)
                /\ level' = NextLevel(call)
                /\ os' = PutAll(os, chunks)
                /\ text' = text \o BytesOf(chunks)
                /\ phase' = IF Tail(calls) = << >> THEN "send" ELSE "write"
    /\ UNCHANGED <<chosen, format, options, wire, input, result>>

\* Connection and Client: send what GetBuffer returns for the offset reached; the
\* socket takes all of it or a part.
SendPart ==
    /\ phase = "send" /\ os.kind = "segmented"
    /\ LET part == GetBuffer(os, Len(wire))
       IN  \E n \in {Len(part), (Len(part) + 1) \div 2} : wire' = wire \o SubSeq(part, 1, n)
    /\ phase' = IF Len(wire') = os.length THEN "arrived" ELSE "send"
    /\ UNCHANGED <<chosen, format, options, calls, level, os, text, input, result>>

\* The file is closed, or the stream destroyed: ~FileStream runs after the part that
\* overrides Flush is gone, and so keeps back what is in the buffer.
CloseFile ==
    /\ phase = "send" /\ os.kind = "file"
    /\ \E written \in {FileFlush(os).file, os.file} : wire' = written
    /\ phase' = "arrived"
    /\ UNCHANGED <<chosen, format, options, calls, level, os, text, input, result>>

TakeString ==
    /\ phase = "send" /\ os.kind = "string"
    /\ wire' = StringGetBuffer(os, 0)
    /\ phase' = "arrived"
    /\ UNCHANGED <<chosen, format, options, calls, level, os, text, input, result>>

\* A reader on what has arrived, or on a part of it.  What the memory behind the
\* bytes holds is not known.
ReadMessage ==
    /\ phase = "arrived"
    /\ \E kind \in InKinds, beyond \in {0, 1},
          n \in {Len(wire)} \cup (IF Len(wire) < CutLength /\ os.kind = "string"
                                  THEN 0..Len(wire) ELSE {}) :
        /\ n = Len(wire) \/ kind \in CutKinds
        /\ beyond = 0 \/ kind = "insitu"
        /\ kind = "file" => Len(wire) <= FileLength
        \* A MessagePack message may hold a NUL, which ends a ReadStringStream.
        /\ format = "mpack" => kind # "string"
        /\ input' = [kind |-> kind, cut |-> n < Len(wire)]
        /\ result' = Outcome(ReadWith(format,
                        InputStream(kind, SubSeq(wire, 1, n), FALSE, beyond)))
    /\ phase' = "done"
    /\ UNCHANGED <<chosen, format, options, calls, level, os, text, wire>>

Next == WriteCall \/ SendPart \/ CloseFile \/ TakeString \/ ReadMessage

Spec == Init /\ [][Next]_vars

----------------------------------------------------------------------------
(* What a value is to its reader. *)

IsInteger(v) == v[1] = "num" /\ v[2] \cap {"Int64", "Uint64"} # {}

\* A number as a decimal.
Numeric(v) ==
    IF ~IsInteger(v) THEN v[3]
    ELSE IF Negative(v[3]) /\ "Int64" \in v[2] THEN Normal(1, DigitsOfBytes(Negate(v[3])), 0)
    ELSE Normal(0, DigitsOfBytes(v[3]), 0)

\* The digits the writer gives a floating point number.
Kept(d) ==
    CASE format = "mpack" -> d
      [] format = "xml" /\ options.precision = 0 -> d
      [] OTHER -> Round(d, IF options.precision > 0 THEN options.precision ELSE 6)

\* The value w is what v is written as: integers keep every type they can be read
\* as, a floating point number its kept digits.
RECURSIVE Same(_, _)
Same(v, w) ==
    CASE v[1] = "num" /\ IsInteger(v) -> v = w
      [] v[1] = "num" /\ ~IsInteger(v) -> w[1] = "num" /\ Numeric(w) = Kept(v[3])
      [] v[1] = "arr" ->
            /\ w[1] = "arr" /\ Len(v[2]) = Len(w[2])
            /\ \A i \in DOMAIN v[2] : Same(v[2][i], w[2][i])
      [] v[1] = "map" ->
            /\ w[1] = "map" /\ Len(v[2]) = Len(w[2])
            /\ \A i \in DOMAIN v[2] : v[2][i][1] = w[2][i][1] /\ Same(v[2][i][2], w[2][i][2])
      [] OTHER -> v = w

\* An array that a Document takes for a date or for binary data.
LooksExtended(v) ==
    /\ v[1] = "arr" /\ Len(v[2]) >= 2 /\ v[2][1][1] = "str" /\ v[2][2][1] = "str"
    /\ NamedBy(v[2][1][2], DateTimeName) \/ NamedBy(v[2][1][2], Base64Name)

\* What a format does not carry: JSON has no form for empty binary data and breaks
\* the text of more than 48 bytes with line feeds that its reader refuses;
\* MessagePack's reader takes no key of more than 255 bytes and no empty key except
\* in place.
RECURSIVE Carried(_)
Carried(v) ==
    /\ v[1] = "arr" => \A i \in DOMAIN v[2] : Carried(v[2][i])
    /\ v[1] = "map" => \A i \in DOMAIN v[2] : Carried(v[2][i][2])
    /\ ~LooksExtended(v)
    /\ format = "json" /\ v[1] = "bin" => Len(v[2]) \in 1..48
    /\ format = "mpack" /\ v[1] = "map" => \A i \in DOMAIN v[2] :
          Len(v[2][i][1][2]) \in (IF input.kind = "insitu" THEN 0 ELSE 1)..255

Container == chosen.value[1] \in {"arr", "map"}

Complete == phase = "done" /\ ~input.cut /\ wire = text

----------------------------------------------------------------------------
(* Properties. *)

\* Types; and no segment and no file buffer holds more than it has room for.
TypeOK ==
    /\ chosen \in Samples
    /\ phase \in {"write", "send", "arrived", "done", "failed"}
    /\ level \in Nat
    /\ os.kind \in OutKinds
    /\ os.kind = "segmented" =>
          \A i \in DOMAIN os.buffers : Len(os.buffers[i].data) <= os.buffers[i].capacity
    /\ os.kind = "file" => Len(os.buffer) < FileBufferSize

\* Writer, streams and reader together: what Traverse wrote is read back as the value
\* it was, by every stream, whether strings are referenced in place or copied
\* (the handler calls of the writers against Document).  A wide string comes back as
\* the wide string it was: ConvertToUtf8 on the way in, ConvertFromUtf8 on the way
\* out, the format's own escapes in between.
RoundTrip ==
    Complete /\ Carried(chosen.value) =>
        /\ result.err = "" /\ Same(chosen.value, result.value)
        /\ chosen.wide # << >> => ConvertFromUtf8(result.value[2]) = chosen.wide

\* However a WriteSegmentedStream was sent, in whole segments or in parts, nothing is
\* lost, repeated or moved, and nothing is put where there is no room (Write-
\* SegmentedStream::Put and GetBuffer).  A file that holds an array or a map is
\* complete even when its stream was never closed: EndArray and EndMap flush.
WireIntact ==
    /\ TypeOK
    /\ IsPrefix(wire, text)
    /\ phase = "arrived" /\ (os.kind # "file" \/ Container) => wire = text

\* The calls of a value but those that separate and end its containers.
Calls(v) ==
    SelectSeq(Traverse(v), LAMBDA call :
        call[1] \notin {"ArraySeparator", "MapSeparator", "EndArray", "EndMap"})

\* What GetClearToken makes of a MessagePack message that is read in place and cut just
\* behind a string, when one element is missing: the terminator it writes is the token 0.
EndsInToken0(v) ==
    LET read == Calls(v)
        n == Len(read)
    IN  /\ format = "mpack" /\ input.kind = "insitu" /\ n > 1
        /\ read[n][1] \in {"Int", "Uint"} /\ read[n][2] = Bytes(0)
        /\ read[n - 1][1] \in {"String", "Key"}
        /\ IsPrefix(Front(read), Calls(chosen.value))

\* An array or a map that arrives cut short, anywhere in a number, a string or between
\* elements, is not taken for a value: the reader reports an error, or found nothing at
\* all.  The one exception is the end just behind a string, read in place as above.
CutRefused ==
    phase = "done" /\ input.cut /\ Container =>
        result.err # "" \/ result.value = Invalid \/ EndsInToken0(result.value)

\* A string decoded in place never grows past what it is decoded from, in a complete
\* message or in part of one (InSituStringStream::Put).
NoOverrun == phase = "done" => result.err \notin {"BufferOverrun", "IllegalCall"}
=============================================================================

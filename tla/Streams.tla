------------------------------ MODULE Streams ------------------------------
(***************************************************************************)
(* The byte streams under the readers and writers (src/src/stream.cpp).    *)
(* A byte is a number in 0..255; an XML tag or entity name travels as one  *)
(* unit (a number above 255), which no stream looks into.                  *)
(*                                                                         *)
(* An output stream is a record whose field kind says which class it is:   *)
(* WriteSegmentedStream ("segmented", the stream of requests, results and  *)
(* HTTP headers), WriteFileStream ("file") or WriteStringStream            *)
(* ("string").  A reader works on a record that holds its input stream,    *)
(* the handler it feeds and the exception it has thrown, if any.           *)
(***************************************************************************)
EXTENDS Integers, Sequences, SequencesExt

CONSTANTS
    StaticBufferSize,   \* first segment of a WriteSegmentedStream, bytes
    MaxBufferSize,      \* largest segment
    FileBufferSize      \* buffer of a file stream

ASSUME StreamAssumption ==
    /\ StaticBufferSize \in Nat \ {0, 1} /\ FileBufferSize \in Nat \ {0}
    /\ MaxBufferSize \in Nat /\ MaxBufferSize >= StaticBufferSize

AtMost(a, b) == IF a < b THEN a ELSE b

----------------------------------------------------------------------------
(* Output. *)

\* BufferSegment keeps one byte of its capacity for a terminator.
BufferSegment(size) == [capacity |-> size - 1, data |-> << >>]

\* Clear() rebuilds what the constructor builds.
SegmentedStream ==
    [kind |-> "segmented", buffers |-> <<BufferSegment(StaticBufferSize)>>,
     nextCapacity |-> AtMost(2 * StaticBufferSize, MaxBufferSize), length |-> 0]

WriteFileStream == [kind |-> "file", buffer |-> << >>, file |-> << >>]

WriteStringStream == [kind |-> "string", str |-> << >>]

AddBuffer(os) ==
    [os EXCEPT !.buffers = Append(@, BufferSegment(os.nextCapacity)),
               !.nextCapacity = AtMost(2 * @, MaxBufferSize)]

Fill(os, s) ==
    [os EXCEPT !.buffers[Len(os.buffers)].data = @ \o s, !.length = @ + Len(s)]

\* Mutant: the byte kept for the terminator is used.
RoomOfTerminator(os) == LET back == Last(os.buffers) IN back.capacity + 1 - Len(back.data)

Room(os) == LET back == Last(os.buffers) IN back.capacity - Len(back.data)

SegmentedPutChar(os, c) ==
    Fill(IF Room(os) = 0 THEN AddBuffer(os) ELSE os, <<c>>)

RECURSIVE SegmentedPut(_, _)
SegmentedPut(os, s) ==
    IF Len(s) <= Room(os) THEN Fill(os, s)
    ELSE SegmentedPut(AddBuffer(Fill(os, SubSeq(s, 1, Room(os)))),
                      SubSeq(s, Room(os) + 1, Len(s)))

FileFlush(os) == [os EXCEPT !.file = @ \o os.buffer, !.buffer = << >>]

FilePutChar(os, c) ==
    LET put == [os EXCEPT !.buffer = Append(@, c)]
    IN  IF Len(put.buffer) = FileBufferSize THEN FileFlush(put) ELSE put

FilePut(os, s) ==
    IF FileBufferSize - Len(os.buffer) <= Len(s)
    THEN [FileFlush(os) EXCEPT !.file = @ \o s]
    ELSE [os EXCEPT !.buffer = @ \o s]

StringPut(os, s) == [os EXCEPT !.str = @ \o s]

\* One call of Put: a chunk <<"c", byte>> is Put(char), <<"s", bytes>> is Put(str, n);
\* <<"f">> is Flush, which only a file stream implements.
PutChunk(os, p) ==
    CASE os.kind = "segmented" /\ p[1] = "c" -> SegmentedPutChar(os, p[2])
      [] os.kind = "segmented" /\ p[1] = "s" -> SegmentedPut(os, p[2])
      [] os.kind = "file" /\ p[1] = "c" -> FilePutChar(os, p[2])
      [] os.kind = "file" /\ p[1] = "s" -> FilePut(os, p[2])
      [] os.kind = "file" /\ p[1] = "f" -> FileFlush(os)
      [] os.kind = "string" /\ p[1] = "c" -> StringPut(os, <<p[2]>>)
      [] os.kind = "string" /\ p[1] = "s" -> StringPut(os, p[2])
      [] OTHER -> os

PutAll(os, chunks) == FoldLeft(PutChunk, os, chunks)

\* Bytes in the segments before the k-th.
Before(os, k) == FoldLeft(LAMBDA n, b : n + Len(b.data), 0, SubSeq(os.buffers, 1, k - 1))

\* Mutant: the offset within the segment is forgotten.
GetBufferFromStart(os, offset) ==
    IF offset >= os.length THEN << >>
    ELSE LET k == CHOOSE j \in DOMAIN os.buffers :
                     Before(os, j) <= offset /\ offset < Before(os, j) + Len(os.buffers[j].data)
         IN  os.buffers[k].data

\* GetBuffer: what is left of the segment that holds the offset; nothing past the end.
GetBuffer(os, offset) ==
    IF offset >= os.length THEN << >>
    ELSE LET k == CHOOSE j \in DOMAIN os.buffers :
                     Before(os, j) <= offset /\ offset < Before(os, j) + Len(os.buffers[j].data)
         IN  SubSeq(os.buffers[k].data, offset - Before(os, k) + 1, Len(os.buffers[k].data))

StringGetBuffer(os, offset) == SubSeq(os.str, offset + 1, Len(os.str))

----------------------------------------------------------------------------
(* Input.  The record r of a reader:                                       *)
(*   kind      "insitu", "copy" (InSituStringStream with in-place parsing  *)
(*             off), "file", "string" (ReadStringStream)                   *)
(*   buf, src  the bytes, and how many have been consumed                  *)
(*   last, eof a file: bytes fetched with fread, and eof_                  *)
(*   dst       where Put writes in place (0: PutBegin was not called)      *)
(*   begin     where the string being parsed in place starts               *)
(*   c, str    the result of the last Get or Read                          *)
(*   ws        the local WriteStringStream a string is decoded into        *)
(*   beyond    what the memory after the bytes holds                       *)
(*   err       the code of the exception thrown ("": none)                 *)
(*   tok       the token the MessagePack reader has looked ahead           *)
(*   tag, skip the last XML tag, and whether its < is already consumed     *)
(*   method    the method name of an XML request                           *)
(*   doc       the document under construction                             *)

Reading(r) == r.err = ""

Throw(r, code) == [r EXCEPT !.err = code]

\* Statement sequencing: after a throw nothing else runs.
Then(r, F(_)) == IF Reading(r) THEN F(r) ELSE r

Eof(r) ==
    CASE r.kind = "file" -> r.eof /\ r.src = r.last
      [] r.kind = "string" -> r.src = Len(r.buf) \/ r.buf[r.src + 1] = 0
      [] OTHER -> r.src >= Len(r.buf)

\* ReadFileStream::Read(): fetch the next buffer once the present one is used up.
Fetch(r) ==
    IF r.kind # "file" \/ r.eof \/ r.src # r.last THEN r
    ELSE LET n == AtMost(FileBufferSize, Len(r.buf) - r.last)
         IN  [r EXCEPT !.last = @ + n, !.eof = n < FileBufferSize]

Peek(r) == IF Eof(r) THEN 0 ELSE r.buf[r.src + 1]

Get(r) ==
    IF Eof(r) THEN [r EXCEPT !.c = 0]
    ELSE Fetch([r EXCEPT !.c = r.buf[r.src + 1], !.src = @ + 1])

\* GetClear zeroes the byte it returns.
GetClear(r) ==
    IF Eof(r) THEN [r EXCEPT !.c = 0]
    ELSE [r EXCEPT !.c = r.buf[r.src + 1], !.src = @ + 1, !.buf[r.src + 1] = 0]

\* Read(ptr, n): a file refills its buffer as often as it takes, and a
\* ReadStringStream stops at a NUL.
RECURSIVE ReadMore(_, _)
ReadMore(r, n) ==
    IF n = 0 \/ Eof(r) THEN r
    ELSE LET k == CASE r.kind = "file" -> AtMost(r.last - r.src, n)
                    [] r.kind = "string" -> 1
                    [] OTHER -> AtMost(Len(r.buf) - r.src, n)
         IN  ReadMore(Fetch([r EXCEPT !.str = @ \o SubSeq(r.buf, r.src + 1, r.src + k),
                                      !.src = @ + k]), n - k)

Read(r, n) == ReadMore([r EXCEPT !.str = << >>], n)

\* In place: the destination follows the source and must never pass it.
PutBegin(r) == [r EXCEPT !.dst = r.src + 1, !.begin = r.src + 1]

Skip(r, n) ==
    LET k == AtMost(Len(r.buf) - r.src, n)
    IN  [r EXCEPT !.str = SubSeq(r.buf, r.src + 1, r.src + k), !.src = @ + k, !.dst = @ + k]

\* Mutant: the test is off by one.
InSituPutStrict(r, c) ==
    IF r.dst = 0 THEN Throw(r, "IllegalCall")
    ELSE LET put == [r EXCEPT !.buf[r.dst] = c]
         IN  IF r.dst < r.src THEN [put EXCEPT !.dst = @ + 1] ELSE Throw(put, "BufferOverrun")

InSituPut(r, c) ==
    IF r.dst = 0 THEN Throw(r, "IllegalCall")
    ELSE LET put == [r EXCEPT !.buf[r.dst] = c]
         IN  IF r.dst < r.src + 1 THEN [put EXCEPT !.dst = @ + 1] ELSE Throw(put, "BufferOverrun")

PutEnd(r) == [r EXCEPT !.dst = 0, !.begin = 0]

InputStream(kind, bytes, copy, beyond) ==
    Fetch([kind |-> kind, buf |-> bytes, src |-> 0, last |-> 0, eof |-> FALSE,
           dst |-> 0, begin |-> 0, beyond |-> beyond, copy |-> copy \/ kind # "insitu", c |-> 0,
           str |-> << >>, ws |-> << >>, tok |-> -1, doc |-> << >>, err |-> "", tag |-> << >>, skip |-> FALSE, method |-> << >>])

\* What a string is decoded into: the stream itself in place, else a local stream.
LocalBegin(r) == [r EXCEPT !.ws = << >>]

DecodeBegin(r) == IF r.kind = "insitu" THEN PutBegin(r) ELSE LocalBegin(r)

DecodePut(r, bytes) ==
    IF r.begin = 0 THEN [r EXCEPT !.ws = @ \o bytes]
    ELSE FoldLeft(LAMBDA q, c : IF Reading(q) THEN InSituPut(q, c) ELSE q, r, bytes)

DecodedBytes(r) == IF r.begin # 0 THEN SubSeq(r.buf, r.begin, r.dst - 1) ELSE r.ws
=============================================================================

------------------------ MODULE ServerConnectionProofs -----------------------
(***************************************************************************)
(* No access of the server's connection goes past the end of its buffer or *)
(* of a malloced request: for every size of the buffer, every limit on the *)
(* length of a body, all requests of a client, every way in which they are *)
(* cut into pieces, and every set of header lines.                         *)
(*                                                                         *)
(* The invariant is on the connection alone: the region of the request     *)
(* lies within the block that request_ points into, and whoever adds to    *)
(* that block adds at most what is missing.  What the client sends matters *)
(* only as a sequence, and what the parsers make of it is in DataLemmas:   *)
(* atoi returns no negative number, the colon and the end of a header lie  *)
(* within the data.                                                        *)
(*                                                                         *)
(* The last part is about what the memory holds: the bytes of Region are   *)
(* kept when more are received, when the request is moved to a block of    *)
(* its own, and when Initialize moves what is behind it to the front.      *)
(***************************************************************************)
EXTENDS ServerConnection, DataLemmas

------------------------------------------------------------------------------
\* Memory: malloc.
LEMMA BlockHasLength ==
    ASSUME NEW n \in Nat
    PROVE  IsSequence(Block(n)) /\ Len(Block(n)) = n
<1>1. Block(n) \in [1 .. n -> {Nul}]
  BY DEF Block
<1>2. Block(n) \in Seq({Nul})
  BY <1>1, SeqDef
<1>3. Len(Block(n)) \in Nat /\ DOMAIN Block(n) = 1 .. Len(Block(n))
  BY <1>2, LenProperties
<1>4. 1 .. n = 1 .. Len(Block(n))
  BY <1>3 DEF Block
<1> DEFINE len == Len(Block(n))
<1>5. (n \in 1 .. n <=> n \in 1 .. len) /\ (len \in 1 .. n <=> len \in 1 .. len)
  BY <1>4
<1> HIDE DEF len
<1>6. len \in Nat
  BY <1>3 DEF len
<1>7. len = n
  BY <1>5, <1>6
<1> QED
  BY <1>2, <1>7 DEF IsSequence, len

\* What is loaded from within a block is as long as asked for.
LEMMA LoadWithin ==
    ASSUME NEW mem, IsSequence(mem), NEW at \in Nat, NEW n \in Nat, at + n <= Len(mem)
    PROVE  IsSequence(Load(mem, at, n)) /\ Len(Load(mem, at, n)) = n
<1>1. at + 1 \in Nat \ {0} /\ at + n \in Nat /\ (at + 1 <= at + n <=> n # 0)
  OBVIOUS
<1>2. at + n - (at + 1) + 1 = n
  OBVIOUS
<1> QED
  BY <1>1, <1>2, SubSequence DEF Load

\* What is stored within a block leaves the block as long as it is.
LEMMA StoreWithin ==
    ASSUME NEW mem, IsSequence(mem), NEW at \in Nat, NEW bytes, IsSequence(bytes),
           at + Len(bytes) <= Len(mem)
    PROVE  IsSequence(Store(mem, at, bytes)) /\ Len(Store(mem, at, bytes)) = Len(mem)
<1>1. Len(mem) \in Nat /\ Len(bytes) \in Nat
  BY JoinedSequences
<1> DEFINE before == SubSeq(mem, 1, at)
           after == SubSeq(mem, at + Len(bytes) + 1, Len(mem))
<1>2. IsSequence(before) /\ Len(before) = at
  BY <1>1, SubSequence
<1>3. IsSequence(after) /\ Len(after) = Len(mem) - (at + Len(bytes))
  <2>1. at + Len(bytes) + 1 \in Nat \ {0} /\ Len(mem) <= Len(mem)
    BY <1>1
  <2> QED
    BY <1>1, <2>1, SubSequence
<1> HIDE DEF before, after
<1>4. IsSequence(before \o bytes) /\ Len(before \o bytes) = at + Len(bytes)
  BY <1>2, JoinedSequences
<1>5. /\ IsSequence((before \o bytes) \o after)
      /\ Len((before \o bytes) \o after) = at + Len(bytes) + (Len(mem) - (at + Len(bytes)))
  BY <1>3, <1>4, JoinedSequences
<1>6. at + Len(bytes) + (Len(mem) - (at + Len(bytes))) = Len(mem)
  BY <1>1
<1> QED
  BY <1>5, <1>6 DEF Store, before, after

\* One zero is stored with what Receive returns, if it returns anything.
LEMMA ReceivedWithin ==
    ASSUME NEW mem, IsSequence(mem), NEW at \in Nat, NEW bytes, IsSequence(bytes),
           at + Len(bytes) < Len(mem)
    PROVE  /\ IsSequence(StoreReceived(mem, at, bytes))
           /\ Len(StoreReceived(mem, at, bytes)) = Len(mem)
<1>1. IsSequence(Append(bytes, Nul)) /\ Len(Append(bytes, Nul)) = Len(bytes) + 1
  BY LongerSequence
<1>2. Len(mem) \in Nat /\ Len(bytes) \in Nat
  BY JoinedSequences
<1>3. at + Len(Append(bytes, Nul)) <= Len(mem)
  BY <1>1, <1>2
<1> QED
  BY <1>1, <1>3, StoreWithin DEF StoreReceived

\* TcpSocket::Receive returns at most what it is asked for.
LEMMA ReceivesAtMost ==
    ASSUME NEW in, IsSequence(in), NEW max \in Nat
    PROVE  /\ IsSequence(Received(in, max)) /\ Len(Received(in, max)) \in 0 .. max
           /\ IsSequence(SubSeq(in, Len(Received(in, max)) + 1, Len(in)))
<1>1. Len(in) \in Nat
  BY JoinedSequences
<1>2. Smaller(max, Len(in)) \in 0 .. max /\ Smaller(max, Len(in)) <= Len(in)
  BY <1>1 DEF Smaller
<1>3. /\ IsSequence(Received(in, max))
      /\ Len(Received(in, max)) = IF 1 <= Smaller(max, Len(in))
                                  THEN Smaller(max, Len(in)) - 1 + 1 ELSE 0
  BY <1>2, SubSequence DEF Received
<1>4. Len(Received(in, max)) \in 0 .. max
  BY <1>2, <1>3
<1>5. Len(Received(in, max)) + 1 \in Nat \ {0}
  BY <1>4
<1> QED
  BY <1>1, <1>3, <1>4, <1>5, SubSequence

------------------------------------------------------------------------------
\* A Connection whose lengths and offsets stay within its memory.
InMemory(c) ==
    /\ DOMAIN c = DOMAIN NewConnection
    /\ c.state \in ConnectionState
    /\ c.bufferLength \in 0 .. MaxBufferLength
    /\ IsSequence(c.buffer) /\ Len(c.buffer) = MaxBufferLength + 1
    /\ IsSequence(c.heap)
    /\ c.requestAt \in Nat /\ c.contentLength \in Nat /\ c.contentAvail \in Nat
    /\ c.request \in {"none", "buffer", "heap"}
    /\ c.request = "buffer" =>
          /\ c.requestAt + c.contentLength <= MaxBufferLength
          /\ c.requestAt + c.contentAvail <= MaxBufferLength
    /\ c.request = "heap" =>
          /\ Len(c.heap) = c.contentLength + 1
          /\ c.contentAvail <= c.contentLength
    /\ c.request = "none" => c.state \in {"READ_HEADER", "CLOSE_CONNECTION"}
    /\ IsHeader(c.http)

Fields == {"state", "buffer", "bufferLength", "contentLength", "contentAvail", "request",
           "requestAt", "heap", "keepAlive", "http"}

\* The members of a Connection.
LEMMA FieldsOfConnection == DOMAIN NewConnection = Fields
BY DEF NewConnection, Fields

\* Connection::Connection
LEMMA NewInMemory == InMemory(NewConnection)
<1>1. MaxBufferLength \in Nat /\ MaxBufferLength + 1 \in Nat
  BY BufferAssumption
<1>2. IsSequence(Block(MaxBufferLength + 1)) /\ Len(Block(MaxBufferLength + 1)) = MaxBufferLength + 1
  BY <1>1, BlockHasLength
<1>3. IsHeader(InitialHeader("request"))
  BY InitialIsHeader
<1> QED
  BY <1>1, <1>2, <1>3, EmptyIsSequence DEF InMemory, NewConnection, ConnectionState

\* Connection::Initialize: what lies behind the request fits the start of the buffer.
LEMMA InitializeInMemory ==
    ASSUME NEW c, InMemory(c), NEW preserve \in BOOLEAN,
           NEW st \in {"READ_HEADER", "CLOSE_CONNECTION"}
    PROVE  InMemory([Initialize(c, preserve) EXCEPT !.state = st])
<1> DEFINE moved == preserve /\ c.request = "buffer" /\ c.contentAvail > c.contentLength
           rest == Preserved(c)
           d == [Initialize(c, preserve) EXCEPT !.state = st]
<1>1. DOMAIN c = Fields /\ MaxBufferLength \in Nat
  BY FieldsOfConnection, BufferAssumption DEF InMemory
<1>2. /\ DOMAIN d = Fields /\ d.state = st
      /\ d.buffer = IF moved THEN Store(c.buffer, 0, rest) ELSE c.buffer
      /\ \/ d.bufferLength \in {0, c.bufferLength}
         \/ moved /\ d.bufferLength = c.contentAvail - c.contentLength
      /\ d.contentLength = 0 /\ d.contentAvail = 0 /\ d.request = "none" /\ d.requestAt = 0
      /\ d.heap = <<>> /\ d.http = InitialHeader("request")
  <2> DEFINE e == Initialize(c, preserve)
             kept == preserve /\ c.request = "none"
             len == CASE moved -> c.contentAvail - c.contentLength
                      [] kept  -> c.bufferLength
                      [] OTHER -> 0
             buf == IF moved THEN Store(c.buffer, 0, rest) ELSE c.buffer
  <2>1. e = [c EXCEPT !.buffer = buf, !.bufferLength = len, !.contentLength = 0,
                      !.contentAvail = 0, !.request = "none", !.requestAt = 0,
                      !.heap = <<>>, !.http = InitialHeader("request")]
    BY DEF Initialize
  <2>2. len \in {0, c.bufferLength} \/ (moved /\ len = c.contentAvail - c.contentLength)
    <3>1. CASE moved
      <4>1. ~kept
        BY <3>1
      <4> QED
        BY <3>1, <4>1
    <3>2. CASE ~moved /\ kept
      BY <3>2
    <3>3. CASE ~moved /\ ~kept
      BY <3>3
    <3> QED
      BY <3>1, <3>2, <3>3
  <2>3. d = [e EXCEPT !.state = st]
    OBVIOUS
  <2> HIDE DEF e, len, buf, d, moved
  <2>4. /\ DOMAIN e = Fields
        /\ e.buffer = buf /\ e.bufferLength = len
        /\ e.contentLength = 0 /\ e.contentAvail = 0 /\ e.request = "none" /\ e.requestAt = 0
        /\ e.heap = <<>> /\ e.http = InitialHeader("request")
    BY <1>1, <2>1 DEF Fields
  <2>5. /\ DOMAIN d = Fields /\ d.state = st
        /\ d.buffer = buf /\ d.bufferLength = len
        /\ d.contentLength = 0 /\ d.contentAvail = 0 /\ d.request = "none" /\ d.requestAt = 0
        /\ d.heap = <<>> /\ d.http = InitialHeader("request")
    BY <2>3, <2>4 DEF Fields
  <2> QED
    BY <2>2, <2>5 DEF buf
<1>3. ASSUME moved
      PROVE  /\ IsSequence(Store(c.buffer, 0, rest))
             /\ Len(Store(c.buffer, 0, rest)) = MaxBufferLength + 1
             /\ c.contentAvail - c.contentLength \in 0 .. MaxBufferLength
  <2> DEFINE at == c.requestAt + c.contentLength
             n == c.contentAvail - c.contentLength
  <2>1. /\ at \in Nat /\ n \in 0 .. MaxBufferLength /\ at + n <= MaxBufferLength + 1
        /\ Len(c.buffer) = MaxBufferLength + 1 /\ IsSequence(c.buffer)
    BY <1>1, <1>3 DEF InMemory
  <2> HIDE DEF at, n
  <2>2. IsSequence(Load(c.buffer, at, n)) /\ Len(Load(c.buffer, at, n)) = n
    BY <2>1, LoadWithin
  <2>3. rest = Load(c.buffer, at, n)
    BY DEF Preserved, at, n
  <2> HIDE DEF rest
  <2>4. 0 + Len(rest) <= Len(c.buffer)
    BY <1>1, <2>1, <2>2, <2>3
  <2>5. IsSequence(Store(c.buffer, 0, rest)) /\ Len(Store(c.buffer, 0, rest)) = Len(c.buffer)
    BY <2>1, <2>2, <2>3, <2>4, StoreWithin
  <2> QED
    BY <2>1, <2>5 DEF n
<1> HIDE DEF d, moved, rest
<1>4. IsSequence(d.buffer) /\ Len(d.buffer) = MaxBufferLength + 1
  BY <1>2, <1>3 DEF InMemory
<1>5. d.bufferLength \in 0 .. MaxBufferLength
  BY <1>1, <1>2, <1>3 DEF InMemory
<1>6. d.state \in ConnectionState
  BY <1>2 DEF ConnectionState
<1>7. InMemory(d)
  BY <1>2, <1>4, <1>5, <1>6, EmptyIsSequence, InitialIsHeader, FieldsOfConnection DEF InMemory
<1> QED
  BY <1>7 DEF d

\* A stage that failed.
LEMMA ClosedInMemory == ASSUME NEW c, InMemory(c) PROVE InMemory(Closed(c))
BY InitializeInMemory DEF Closed

\* Once everything is written, the next message or the end.
LEMMA WrittenInMemory == ASSUME NEW c, InMemory(c) PROVE InMemory(ResponseWritten(c))
BY InitializeInMemory, ClosedInMemory DEF ResponseWritten

\* ReadHeader: the request is where there is room for all of it.
LEMMA PrepareInMemory ==
    ASSUME NEW c, InMemory(c), NEW bodyAt \in 0 .. c.bufferLength, NEW length \in Nat,
           NEW keepAlive
    PROVE  InMemory(PrepareRequest(c, bodyAt, length, keepAlive))
<1> DEFINE fits == length <= MaxBufferLength - bodyAt
           avail == c.bufferLength - bodyAt
           rest == Load(c.buffer, bodyAt, avail)
           moved == Store(Block(length + 1), 0, rest)
           d == PrepareRequest(c, bodyAt, length, keepAlive)
<1>1. DOMAIN c = Fields /\ MaxBufferLength \in Nat /\ c.bufferLength \in 0 .. MaxBufferLength
  BY FieldsOfConnection, BufferAssumption DEF InMemory
<1>2. /\ DOMAIN d = Fields /\ d.state = "READ_REQUEST"
      /\ d.buffer = c.buffer /\ d.bufferLength = c.bufferLength
      /\ d.contentLength = length /\ d.contentAvail = avail
      /\ d.request = (IF fits THEN "buffer" ELSE "heap")
      /\ d.requestAt = (IF fits THEN bodyAt ELSE 0)
      /\ d.heap = (IF fits THEN c.heap ELSE moved)
      /\ d.http = c.http
  BY <1>1 DEF PrepareRequest, Fields
<1>3. avail \in Nat /\ bodyAt \in Nat /\ bodyAt + avail = c.bufferLength
  BY <1>1
<1>4. ASSUME ~fits
      PROVE  IsSequence(moved) /\ Len(moved) = length + 1 /\ avail <= length
  <2>1. IsSequence(rest) /\ Len(rest) = avail
    <3>1. IsSequence(c.buffer) /\ Len(c.buffer) = MaxBufferLength + 1
      BY DEF InMemory
    <3>2. bodyAt + avail <= Len(c.buffer)
      BY <1>1, <1>3, <3>1
    <3> QED
      BY <1>3, <3>1, <3>2, LoadWithin
  <2>2. IsSequence(Block(length + 1)) /\ Len(Block(length + 1)) = length + 1
    BY BlockHasLength
  <2> HIDE DEF rest
  <2>3. avail <= length /\ 0 + Len(rest) <= Len(Block(length + 1))
    BY <1>1, <1>3, <1>4, <2>1, <2>2
  <2> QED
    BY <2>1, <2>2, <2>3, StoreWithin
<1> HIDE DEF d, moved, rest
<1>5. IsSequence(d.heap)
  BY <1>2, <1>4 DEF InMemory
<1>6. d.requestAt \in Nat /\ d.contentLength \in Nat /\ d.contentAvail \in Nat
  BY <1>2, <1>3
<1>7. fits => bodyAt + length <= MaxBufferLength /\ bodyAt + avail <= MaxBufferLength
  BY <1>1, <1>3
<1>8. d.state \in ConnectionState
  BY <1>2 DEF ConnectionState
<1> HIDE DEF fits, avail
<1>9. InMemory(d)
  BY <1>2, <1>4, <1>5, <1>6, <1>7, <1>8, FieldsOfConnection DEF InMemory
<1> QED
  BY <1>9 DEF d

\* The zero behind the request is within the block.
LEMMA TerminateInMemory ==
    ASSUME NEW c, InMemory(c), c.request # "none"
    PROVE  /\ InMemory(Terminate(c))
           /\ Terminate(c).request = c.request /\ Terminate(c).contentAvail = c.contentAvail
<1> DEFINE d == Terminate(c)
<1>1. DOMAIN c = Fields /\ MaxBufferLength \in Nat
  BY FieldsOfConnection, BufferAssumption DEF InMemory
<1>2. IsSequence(<<Nul>>) /\ Len(<<Nul>>) = 1
  <2>1. <<Nul>> = Append(<<>>, Nul)
    OBVIOUS
  <2> QED
    BY <2>1, EmptyIsSequence, LongerSequence
<1>3. CASE c.request = "heap"
  <2> DEFINE mem == Store(c.heap, c.contentAvail, <<Nul>>)
  <2>1. d = [c EXCEPT !.heap = mem]
    BY <1>3 DEF Terminate
  <2>2. IsSequence(mem) /\ Len(mem) = Len(c.heap)
    <3>1. c.contentAvail + Len(<<Nul>>) <= Len(c.heap)
      BY <1>2, <1>3 DEF InMemory
    <3> QED
      BY <1>2, <3>1, StoreWithin DEF InMemory
  <2> HIDE DEF mem, d
  <2> QED
    BY <1>1, <2>1, <2>2 DEF InMemory, Fields, d
<1>4. CASE c.request = "buffer"
  <2> DEFINE mem == Store(c.buffer, c.requestAt + c.contentAvail, <<Nul>>)
  <2>1. d = [c EXCEPT !.buffer = mem]
    BY <1>4 DEF Terminate
  <2>2. IsSequence(mem) /\ Len(mem) = MaxBufferLength + 1
    <3>1. /\ c.requestAt + c.contentAvail + Len(<<Nul>>) <= Len(c.buffer)
          /\ c.requestAt + c.contentAvail \in Nat
      BY <1>1, <1>2, <1>4 DEF InMemory
    <3> QED
      BY <1>2, <3>1, StoreWithin DEF InMemory
  <2> HIDE DEF mem, d
  <2> QED
    BY <1>1, <2>1, <2>2 DEF InMemory, Fields, d
<1> QED
  BY <1>3, <1>4 DEF InMemory

\* ReadRequest: what Receive may add is what is missing.
LEMMA MoreInMemory ==
    ASSUME NEW c, InMemory(c), c.request # "none", NEW bytes, IsSequence(bytes),
           Len(bytes) \in 0 .. RequestRoom(c)
    PROVE  LET buf == IF c.request = "buffer"
                      THEN StoreReceived(c.buffer, c.requestAt + c.contentAvail, bytes)
                      ELSE c.buffer
               hp == IF c.request = "heap" THEN StoreReceived(c.heap, c.contentAvail, bytes)
                     ELSE c.heap
               more == [c EXCEPT !.buffer = buf, !.heap = hp,
                                 !.contentAvail = c.contentAvail + Len(bytes)]
           IN  /\ InMemory(more)
               /\ more.request = c.request /\ more.contentAvail = c.contentAvail + Len(bytes)
<1> DEFINE buf == IF c.request = "buffer"
                  THEN StoreReceived(c.buffer, c.requestAt + c.contentAvail, bytes)
                  ELSE c.buffer
           hp == IF c.request = "heap" THEN StoreReceived(c.heap, c.contentAvail, bytes)
                 ELSE c.heap
           avail == c.contentAvail + Len(bytes)
           more == [c EXCEPT !.buffer = buf, !.heap = hp, !.contentAvail = avail]
<1>1. DOMAIN c = Fields /\ MaxBufferLength \in Nat
  BY FieldsOfConnection, BufferAssumption DEF InMemory
<1>2. /\ avail \in Nat /\ Len(bytes) \in Nat
      /\ avail <= c.contentLength \/ avail = c.contentAvail
  BY DEF InMemory, RequestRoom
<1>3. ASSUME c.request = "buffer"
      PROVE  /\ IsSequence(buf) /\ Len(buf) = MaxBufferLength + 1
             /\ c.requestAt + avail <= MaxBufferLength
  <2>1. c.requestAt + avail <= MaxBufferLength
    <3>1. /\ c.requestAt \in Nat /\ c.contentLength \in Nat /\ c.contentAvail \in Nat
          /\ c.requestAt + c.contentLength <= MaxBufferLength
          /\ c.requestAt + c.contentAvail <= MaxBufferLength
      BY <1>3 DEF InMemory
    <3> HIDE DEF avail
    <3> QED
      BY <1>1, <1>2, <3>1
  <2>2. IsSequence(c.buffer) /\ Len(c.buffer) = MaxBufferLength + 1
    BY DEF InMemory
  <2>3. /\ c.requestAt + c.contentAvail \in Nat
        /\ c.requestAt + c.contentAvail + Len(bytes) < Len(c.buffer)
    <3>1. c.requestAt \in Nat /\ c.contentAvail \in Nat
      BY DEF InMemory
    <3>2. c.requestAt + c.contentAvail \in Nat
      BY <3>1
    <3>3. c.requestAt + c.contentAvail + Len(bytes) = c.requestAt + avail
      BY <1>2, <3>1
    <3> HIDE DEF avail
    <3> QED
      BY <1>1, <2>1, <2>2, <3>2, <3>3
  <2> QED
    BY <1>3, <2>1, <2>2, <2>3, ReceivedWithin
<1>4. ASSUME c.request = "heap"
      PROVE  /\ IsSequence(hp) /\ Len(hp) = c.contentLength + 1
             /\ avail <= c.contentLength
  <2>1. avail <= c.contentLength
    BY <1>1, <1>2, <1>4 DEF InMemory
  <2>2. c.contentAvail \in Nat /\ c.contentAvail + Len(bytes) < Len(c.heap)
    BY <1>1, <1>2, <1>4, <2>1 DEF InMemory
  <2> QED
    BY <1>4, <2>1, <2>2, ReceivedWithin DEF InMemory
<1>5. c.request # "buffer" => buf = c.buffer
  OBVIOUS
<1>6. c.request # "heap" => hp = c.heap
  OBVIOUS
<1> HIDE DEF buf, hp, avail
<1>7. InMemory(more) /\ more.request = c.request /\ more.contentAvail = avail
  <2>1. /\ DOMAIN more = Fields /\ more.state = c.state /\ more.buffer = buf
        /\ more.bufferLength = c.bufferLength /\ more.contentLength = c.contentLength
        /\ more.contentAvail = avail /\ more.request = c.request
        /\ more.requestAt = c.requestAt /\ more.heap = hp /\ more.http = c.http
    BY <1>1 DEF Fields
  <2> HIDE DEF more
  <2> QED
    BY <1>2, <1>3, <1>4, <1>5, <1>6, <2>1, FieldsOfConnection DEF InMemory
<1> QED
  BY <1>7 DEF more, buf, hp, avail

\* ReadRequest, complete or not.
LEMMA ReadInMemory ==
    ASSUME NEW c, InMemory(c), c.request # "none", NEW bytes, IsSequence(bytes),
           Len(bytes) \in 0 .. RequestRoom(c)
    PROVE  InMemory(ReadRequest(c, bytes))
<1> DEFINE buf == IF c.request = "buffer"
                  THEN StoreReceived(c.buffer, c.requestAt + c.contentAvail, bytes)
                  ELSE c.buffer
           hp == IF c.request = "heap" THEN StoreReceived(c.heap, c.contentAvail, bytes)
                 ELSE c.heap
           avail == c.contentAvail + Len(bytes)
           more == [c EXCEPT !.buffer = buf, !.heap = hp, !.contentAvail = avail]
<1>1. InMemory(more) /\ more.request = c.request /\ more.contentAvail = avail
  BY MoreInMemory
<1>2. ReadRequest(c, bytes) =
         IF more.contentAvail < c.contentLength THEN more
         ELSE [Terminate(more) EXCEPT !.state = "EXECUTE_REQUEST"]
  BY DEF ReadRequest
<1> HIDE DEF more, buf, hp, avail
<1>3. InMemory(Terminate(more)) /\ Terminate(more).request # "none"
  BY <1>1, TerminateInMemory
<1>4. ASSUME NEW d, InMemory(d), d.request # "none"
       PROVE  InMemory([d EXCEPT !.state = "EXECUTE_REQUEST"])
  BY <1>4, FieldsOfConnection DEF InMemory, Fields, ConnectionState
<1> QED
  BY <1>1, <1>2, <1>3, <1>4

------------------------------------------------------------------------------
\* What the client sends is one message after the other.
LEMMA FramesOfStream ==
    ASSUME sc \in Scenario
    PROVE  \E frames : /\ Stream = FlattenSeq(frames) /\ \E T : frames \in Seq(T)
                       /\ Len(frames) = Len(BodyLength)
                       /\ \A r \in 1 .. Len(frames) :
                             frames[r] = Frame(r) /\ IsSequence(frames[r])
<1>1. /\ sc.bodyLength \in Seq(1 .. 99)
      /\ sc.http => sc.head \in [DOMAIN sc.bodyLength -> Seq(DOMAIN Line)]
  BY ScenarioAssumption
<1> DEFINE n == Len(sc.bodyLength)
           frames == [r \in 1 .. n |-> Frame(r)]
           T == {Frame(r) : r \in 1 .. n}
<1>2. n \in Nat /\ DOMAIN sc.bodyLength = 1 .. n
      /\ \A r \in 1 .. n : sc.bodyLength[r] \in 1 .. 99
  BY <1>1, LenProperties, ElementOfSeq
<1>3. ASSUME NEW m \in Nat, NEW f, f = [i \in 1 .. m |-> f[i]]
      PROVE  f \in Seq({f[i] : i \in 1 .. m})
  <2>1. f \in [1 .. m -> {f[i] : i \in 1 .. m}]
    BY <1>3
  <2> QED
    BY <2>1, SeqDef
<1>4. ASSUME NEW r \in 1 .. n PROVE IsSequence(Frame(r))
  <2>1. IsSequence(Body(r))
    <3> HIDE DEF n
    <3>0. sc.bodyLength[r] \in 1 .. 99
      BY <1>2
    <3> DEFINE m == sc.bodyLength[r]
               body == [i \in 1 .. m |-> 1000 * r + i]
    <3>1. m \in Nat
      BY <3>0
    <3>2. body = [i \in 1 .. m |-> body[i]]
      OBVIOUS
    <3>3. Body(r) = body
      BY DEF Body, BodyLength
    <3> HIDE DEF m, body
    <3> QED
      BY <1>3, <3>1, <3>2, <3>3 DEF IsSequence
  <2>2. CASE Http
    <3> DEFINE lines == [i \in DOMAIN HeaderOf(r) |-> LineBase + HeaderOf(r)[i]]
               m == Len(HeaderOf(r))
    <3>1. HeaderOf(r) \in Seq(DOMAIN Line)
      BY <1>1, <1>2, <2>2 DEF Http, HeaderOf
    <3>2. m \in Nat /\ DOMAIN HeaderOf(r) = 1 .. m
      BY <3>1, LenProperties
    <3>3. lines = [i \in 1 .. m |-> lines[i]]
      BY <3>2
    <3> HIDE DEF lines, m
    <3>4. IsSequence(lines)
      BY <1>3, <3>2, <3>3 DEF IsSequence
    <3>5. Frame(r) = lines \o Body(r)
      BY <2>2 DEF Frame, lines
    <3> QED
      BY <2>1, <3>4, <3>5, JoinedSequences
  <2>3. CASE ~Http
    <3>1. ASSUME NEW x PROVE IsSequence(<<x>>)
      <4>1. <<x>> = Append(<<>>, x)
        OBVIOUS
      <4> QED
        BY <4>1, EmptyIsSequence, LongerSequence
    <3>2. ASSUME NEW x, NEW y PROVE IsSequence(<<x, y>>)
      <4>1. <<x, y>> = Append(<<x>>, y)
        OBVIOUS
      <4> QED
        BY <3>1, <4>1, LongerSequence
    <3>3. IsSequence(Decimal(BodyLength[r]))
      BY <3>1, <3>2 DEF Decimal
    <3>4. IsSequence(Decimal(BodyLength[r]) \o <<Colon>>)
      BY <3>1, <3>3, JoinedSequences
    <3>5. IsSequence(Decimal(BodyLength[r]) \o <<Colon>> \o Body(r))
      BY <2>1, <3>4, JoinedSequences
    <3>6. IsSequence(Decimal(BodyLength[r]) \o <<Colon>> \o Body(r) \o <<Comma>>)
      BY <3>1, <3>5, JoinedSequences
    <3> QED
      BY <2>3, <3>6 DEF Frame
  <2> QED
    BY <2>2, <2>3
<1> HIDE DEF T, n
<1>5. frames = [r \in 1 .. n |-> frames[r]] /\ \A r \in 1 .. n : frames[r] = Frame(r)
  OBVIOUS
<1>6. Stream = FlattenSeq(frames)
  BY <1>2 DEF Stream, Request, BodyLength
<1> HIDE DEF frames
<1>7. frames \in Seq({frames[r] : r \in 1 .. n})
  BY <1>2, <1>3, <1>5
<1>8. Len(frames) \in Nat /\ DOMAIN frames = 1 .. Len(frames) /\ DOMAIN frames = 1 .. n
  BY <1>5, <1>7, LenProperties
<1>9. \A r \in 1 .. Len(frames) : frames[r] = Frame(r) /\ IsSequence(frames[r])
  BY <1>4, <1>5, <1>8
<1>10. Len(frames) = n
  <2> DEFINE len == Len(frames)
  <2>1. n \in Nat /\ len \in Nat /\ 1 .. n = 1 .. len
    BY <1>2, <1>8
  <2>2. (n \in 1 .. n <=> n \in 1 .. len) /\ (len \in 1 .. n <=> len \in 1 .. len)
    BY <2>1
  <2> HIDE DEF len
  <2>3. len = n
    BY <2>1, <2>2
  <2> QED
    BY <2>3 DEF len
<1> QED
  BY <1>6, <1>7, <1>9, <1>10 DEF n, BodyLength

\* Together they are a sequence.
LEMMA StreamIsSequence == ASSUME sc \in Scenario PROVE IsSequence(Stream)
<1> PICK frames : /\ Stream = FlattenSeq(frames) /\ \E T : frames \in Seq(T)
                  /\ \A r \in 1 .. Len(frames) : IsSequence(frames[r])
  BY FramesOfStream
<1> QED
  BY FlatSequence

------------------------------------------------------------------------------
\* The inductive invariant: the connection within its memory, and sequences on
\* the way to it and from it.
MemoryInv ==
    /\ sc \in Scenario
    /\ InMemory(k)
    /\ IsSequence(unsent) /\ IsSequence(input) /\ IsSequence(inFlight)
    /\ Len(inFlight) <= SendBuffer
    /\ stage \in {"select", "header", "parse", "request", "execute", "write"}

\* A new connection, and a client that has sent nothing.
LEMMA InitMemory == Init => MemoryInv
<1> SUFFICES ASSUME Init PROVE MemoryInv
  OBVIOUS
<1>1. IsSequence(Stream)
  BY StreamIsSequence DEF Init
<1>2. 0 <= SendBuffer
  BY ScenarioAssumption DEF Init, SendBuffer
<1> QED
  BY <1>1, <1>2, NewInMemory, EmptyIsSequence DEF Init, MemoryInv

\* An action that leaves the connection as it is, or puts one within its memory in
\* its place.
LEMMA StepInMemory ==
    ASSUME MemoryInv, InMemory(k'), UNCHANGED <<sc, unsent, inFlight>>, IsSequence(input'),
           stage' \in {"select", "header", "parse", "request", "execute", "write"}
    PROVE  MemoryInv'
BY DEF MemoryInv, SendBuffer

\* The client sends, closes and reads.
LEMMA ClientMemory == MemoryInv /\ (ClientSend \/ ClientClose \/ ClientRead) => MemoryInv'
<1> SUFFICES ASSUME MemoryInv, ClientSend \/ ClientClose \/ ClientRead PROVE MemoryInv'
  OBVIOUS
<1>1. CASE ClientSend
  <2>1. PICK n \in 1 .. Len(unsent) :
           /\ input' = input \o SubSeq(unsent, 1, n)
           /\ unsent' = SubSeq(unsent, n + 1, Len(unsent))
    BY <1>1 DEF ClientSend
  <2>2. IsSequence(unsent) /\ IsSequence(input) /\ Len(unsent) \in Nat
    BY JoinedSequences DEF MemoryInv
  <2>3. n \in Nat /\ n <= Len(unsent) /\ n + 1 \in Nat \ {0}
    BY <2>2
  <2>4. IsSequence(SubSeq(unsent, 1, n)) /\ IsSequence(unsent')
    BY <2>1, <2>2, <2>3, SubSequence
  <2>5. IsSequence(input')
    BY <2>1, <2>2, <2>4, JoinedSequences
  <2> QED
    BY <1>1, <2>4, <2>5 DEF MemoryInv, ClientSend, outVars, SendBuffer
<1>2. CASE ClientClose
  BY <1>2, StepInMemory DEF ClientClose, outVars, MemoryInv
<1>3. CASE ClientRead
  <2>1. PICK S : inFlight \in Seq(S)
    BY DEF MemoryInv, IsSequence
  <2>2. /\ Tail(inFlight) \in Seq(S) /\ Len(inFlight) \in Nat
        /\ Len(Tail(inFlight)) = Len(inFlight) - 1
    BY <1>3, <2>1, HeadTailProperties, LenProperties DEF ClientRead
  <2>3. sc.sendBuffer \in Nat
    BY ScenarioAssumption DEF MemoryInv
  <2>4. IsSequence(inFlight') /\ Len(inFlight') <= SendBuffer'
    BY <1>3, <2>2, <2>3 DEF ClientRead, MemoryInv, SendBuffer, IsSequence
  <2> QED
    BY <1>3, <2>4 DEF ClientRead, clientVars, MemoryInv
<1> QED
  BY <1>1, <1>2, <1>3

\* ReadHeader: Receive.
LEMMA ReceiveHeaderMemory == MemoryInv /\ ReceiveHeader => MemoryInv'
<1> SUFFICES ASSUME MemoryInv, ReceiveHeader PROVE MemoryInv'
  OBVIOUS
<1> DEFINE bytes == Received(input, HeaderRoom)
<1>1. /\ DOMAIN k = Fields /\ InMemory(k) /\ IsSequence(input)
      /\ MaxBufferLength \in Nat /\ HeaderRoom \in Nat /\ k.bufferLength \in Nat
      /\ HeaderRoom = MaxBufferLength - k.bufferLength
  BY FieldsOfConnection, BufferAssumption DEF MemoryInv, InMemory, HeaderRoom
<1>2. CASE ReceiveFails(input, eof, HeaderRoom)
  <2>1. k' = Closed(k) /\ stage' = "select" /\ UNCHANGED <<sc, unsent, inFlight, input>>
    BY <1>2 DEF ReceiveHeader, outVars
  <2>2. InMemory(k')
    BY <1>1, <2>1, ClosedInMemory
  <2> QED
    BY <1>1, <2>1, <2>2, StepInMemory
<1>3. CASE ~ReceiveFails(input, eof, HeaderRoom)
  <2> DEFINE mem == StoreReceived(k.buffer, k.bufferLength, bytes)
             len == k.bufferLength + Len(bytes)
  <2>1. /\ input' = SubSeq(input, Len(bytes) + 1, Len(input))
        /\ k' = [k EXCEPT !.buffer = mem, !.bufferLength = len]
        /\ stage' = "parse" /\ UNCHANGED <<sc, unsent, inFlight>>
    BY <1>3 DEF ReceiveHeader, outVars
  <2>2. IsSequence(bytes) /\ Len(bytes) \in 0 .. HeaderRoom /\ IsSequence(input')
    BY <1>1, <2>1, ReceivesAtMost
  <2> HIDE DEF bytes
  <2>3. len \in 0 .. MaxBufferLength
    BY <1>1, <2>2
  <2>4. IsSequence(mem) /\ Len(mem) = MaxBufferLength + 1
    <3>1. IsSequence(k.buffer) /\ Len(k.buffer) = MaxBufferLength + 1
      BY <1>1 DEF InMemory
    <3>2. k.bufferLength + Len(bytes) < Len(k.buffer)
      BY <1>1, <2>2, <3>1
    <3> QED
      BY <1>1, <2>2, <3>1, <3>2, ReceivedWithin
  <2> HIDE DEF mem, len
  <2>5. PICK c : c = k
    OBVIOUS
  <2>6. InMemory([c EXCEPT !.buffer = mem, !.bufferLength = len])
    BY <1>1, <2>3, <2>4, <2>5, FieldsOfConnection DEF InMemory, Fields
  <2>7. InMemory(k')
    BY <2>1, <2>5, <2>6
  <2> QED
    BY <2>1, <2>2, <2>7, StepInMemory
<1> QED
  BY <1>2, <1>3

\* The data in the buffer, which ReadHeader parses.
LEMMA DataInBuffer ==
    ASSUME InMemory(k)
    PROVE  LET data == Load(k.buffer, 0, k.bufferLength)
           IN  IsSequence(data) /\ Len(data) = k.bufferLength /\ k.bufferLength \in Nat
<1>1. /\ MaxBufferLength \in Nat /\ IsSequence(k.buffer) /\ k.bufferLength \in Nat
      /\ 0 + k.bufferLength <= Len(k.buffer)
  BY BufferAssumption DEF InMemory
<1> QED
  BY <1>1, LoadWithin

\* ReadHeader of TcpConnection: the length.
LEMMA TcpParseMemory == MemoryInv /\ TcpParseHeader => MemoryInv'
<1> SUFFICES ASSUME MemoryInv, TcpParseHeader PROVE MemoryInv'
  OBVIOUS
<1> DEFINE data == Load(k.buffer, 0, k.bufferLength)
           colon == ColonAt(data)
           length == Atoi(SubSeq(data, HeaderStart, colon))
           read == PrepareRequest(k, colon, length, TRUE)
<1>1. InMemory(k) /\ IsSequence(input) /\ UNCHANGED <<sc, unsent, input, inFlight>>
  BY DEF MemoryInv, TcpParseHeader, clientVars, outVars
<1>2. \/ stage' = "request" /\ k' = k
      \/ stage' = "select" /\ k' = Closed(k)
      \/ stage' = "request" /\ k' = Terminate(read) /\ colon # 0
  BY DEF TcpParseHeader
<1>3. IsSequence(data) /\ Len(data) = k.bufferLength /\ k.bufferLength \in Nat
  BY <1>1, DataInBuffer
<1> HIDE DEF data
<1>4. colon \in 0 .. k.bufferLength
  BY <1>3, ColonInData DEF IsSequence
<1> HIDE DEF colon
<1>5. length \in Nat
  <2>1. HeaderStart \in Nat \ {0} /\ colon \in Nat /\ colon <= Len(data)
    BY <1>3, <1>4 DEF HeaderStart
  <2>2. IsSequence(SubSeq(data, HeaderStart, colon))
    BY <1>3, <2>1, SubSequence
  <2> QED
    BY <2>2, AtoiIsNat DEF IsSequence
<1> HIDE DEF length
<1>6. InMemory(read) /\ read.request # "none"
  <2>1. read.request \in {"buffer", "heap"}
    BY <1>1, FieldsOfConnection DEF PrepareRequest, InMemory, Fields
  <2> QED
    BY <1>1, <1>4, <1>5, <2>1, PrepareInMemory
<1> HIDE DEF read
<1>7. InMemory(k')
  BY <1>1, <1>2, <1>6, ClosedInMemory, TerminateInMemory
<1>8. stage' \in {"select", "request"} /\ IsSequence(input')
  BY <1>1, <1>2
<1> QED
  BY <1>1, <1>7, <1>8, StepInMemory

\* ReadHeader of HttpConnection: the header and the length it states.
LEMMA HttpParseMemory == MemoryInv /\ HttpParseHeader => MemoryInv'
<1> SUFFICES ASSUME MemoryInv, HttpParseHeader PROVE MemoryInv'
  OBVIOUS
<1> DEFINE data == Load(k.buffer, 0, k.bufferLength)
           h == ProcessHeaderData(k.http, data, FALSE)
           parsed == [k EXCEPT !.http = h]
<1>1. InMemory(k) /\ IsSequence(input) /\ UNCHANGED <<sc, unsent, input, inFlight>>
  BY DEF MemoryInv, HttpParseHeader, clientVars, outVars
<1>2. \/ stage' = "select" /\ k' = Closed(k)
      \/ stage' = "request" /\ k' = parsed
      \/ /\ stage' = "request" /\ h.result = "COMPLETE"
         /\ h.contentLength \in 0 .. MaxContentLength
         /\ k' = PrepareRequest(parsed, h.startIndex, h.contentLength, h.keepAlive)
  BY DEF HttpParseHeader
<1>3. IsSequence(data) /\ Len(data) = k.bufferLength /\ k.bufferLength \in Nat
  BY <1>1, DataInBuffer
<1> HIDE DEF data
<1>4. IsHeader(h) /\ (h.result # "FAULT" => h.startIndex \in 0 .. k.bufferLength)
  BY <1>1, <1>3, HeaderEndsInData DEF InMemory
<1> HIDE DEF h
<1>5. InMemory(parsed) /\ parsed.bufferLength = k.bufferLength
  <2>1. DOMAIN k = Fields
    BY <1>1, FieldsOfConnection DEF InMemory
  <2>2. PICK c : c = k
    OBVIOUS
  <2>3. /\ InMemory([c EXCEPT !.http = h])
        /\ [c EXCEPT !.http = h].bufferLength = c.bufferLength
    BY <1>1, <1>4, <2>1, <2>2, FieldsOfConnection DEF InMemory, Fields
  <2> QED
    BY <2>2, <2>3
<1> HIDE DEF parsed
<1>6. ASSUME h.result = "COMPLETE", h.contentLength \in 0 .. MaxContentLength
      PROVE  InMemory(PrepareRequest(parsed, h.startIndex, h.contentLength, h.keepAlive))
  <2>1. h.startIndex \in 0 .. parsed.bufferLength /\ h.contentLength \in Nat
    BY <1>4, <1>5, <1>6, BufferAssumption
  <2> QED
    BY <1>5, <2>1, PrepareInMemory
<1>7. InMemory(k')
  BY <1>1, <1>2, <1>5, <1>6, ClosedInMemory
<1>8. stage' \in {"select", "request"} /\ IsSequence(input')
  BY <1>1, <1>2
<1> QED
  BY <1>1, <1>7, <1>8, StepInMemory

\* ReadRequest.
LEMMA ReadRequestMemory == MemoryInv /\ ReadRequestStep => MemoryInv'
<1> SUFFICES ASSUME MemoryInv, ReadRequestStep PROVE MemoryInv'
  OBVIOUS
<1>1. /\ InMemory(k) /\ IsSequence(input) /\ UNCHANGED <<sc, unsent, inFlight>>
      /\ stage' \in {"select", "execute"}
  BY DEF MemoryInv, ReadRequestStep, outVars
<1>2. CASE k.state # "READ_REQUEST"
  BY <1>1, <1>2, StepInMemory DEF ReadRequestStep
<1>3. CASE k.state = "READ_REQUEST" /\ ReceiveFails(input, eof, RequestRoom(k))
  <2>1. k' = Closed(k) /\ UNCHANGED input
    BY <1>3 DEF ReadRequestStep
  <2>2. InMemory(k')
    BY <1>1, <2>1, ClosedInMemory
  <2> QED
    BY <1>1, <2>1, <2>2, StepInMemory
<1>4. CASE k.state = "READ_REQUEST" /\ ~ReceiveFails(input, eof, RequestRoom(k))
  <2> DEFINE bytes == Received(input, RequestRoom(k))
  <2>1. /\ input' = SubSeq(input, Len(bytes) + 1, Len(input))
        /\ k' = ReadRequest(k, bytes)
    BY <1>4 DEF ReadRequestStep
  <2>2. k.request # "none" /\ RequestRoom(k) \in Nat
    BY <1>1, <1>4 DEF InMemory, RequestRoom
  <2>3. IsSequence(bytes) /\ Len(bytes) \in 0 .. RequestRoom(k) /\ IsSequence(input')
    BY <1>1, <2>1, <2>2, ReceivesAtMost
  <2> HIDE DEF bytes
  <2>4. InMemory(k')
    BY <1>1, <2>1, <2>2, <2>3, ReadInMemory
  <2> QED
    BY <1>1, <2>3, <2>4, StepInMemory
<1> QED
  BY <1>2, <1>3, <1>4

\* ExecuteRequest.
LEMMA ExecuteMemory == MemoryInv /\ ExecuteStep => MemoryInv'
<1> SUFFICES ASSUME MemoryInv, ExecuteStep PROVE MemoryInv'
  OBVIOUS
<1>1. /\ InMemory(k) /\ IsSequence(input) /\ UNCHANGED <<sc, unsent, input, inFlight>>
      /\ k.state = "EXECUTE_REQUEST" /\ k.request # "none"
  BY DEF MemoryInv, InMemory, ExecuteStep, clientVars, outVars
<1>2. stage' \in {"write", "header", "select"}
  BY DEF ExecuteStep, AfterMessage
<1>3. InMemory([k EXCEPT !.state = "WRITE_RESPONSE"])
  <2>1. PICK c : c = k
    OBVIOUS
  <2>2. InMemory([c EXCEPT !.state = "WRITE_RESPONSE"])
    BY <1>1, <2>1, FieldsOfConnection DEF InMemory, Fields, ConnectionState
  <2> QED
    BY <2>1, <2>2
<1>4. InMemory(k')
  <2>1. CASE Http
    BY <1>1, <1>3, <2>1, ClosedInMemory DEF ExecuteStep, HttpExecuteRequest
  <2>2. CASE ~Http
    <3>1. k' = TcpExecuteRequest(RequestOf(RequestBytes(k)))
      BY <2>2 DEF ExecuteStep
    <3>2. InMemory([Initialize(k, TRUE) EXCEPT !.state = "READ_HEADER"])
      BY <1>1, InitializeInMemory
    <3> QED
      BY <1>3, <3>1, <3>2 DEF TcpExecuteRequest
  <2> QED
    BY <2>1, <2>2
<1> QED
  BY <1>1, <1>2, <1>4, StepInMemory

\* SetCloseState: the state alone changes.
LEMMA ThrowMemory == MemoryInv /\ ThrowStep => MemoryInv'
<1> SUFFICES ASSUME MemoryInv, ThrowStep PROVE MemoryInv'
  OBVIOUS
<1>1. /\ InMemory(k) /\ IsSequence(input) /\ UNCHANGED <<sc, unsent, input, inFlight>>
      /\ stage' = "select" /\ k' = SetCloseState
  BY DEF MemoryInv, ThrowStep, clientVars, outVars
<1>2. InMemory([k EXCEPT !.state = "CLOSE_CONNECTION"])
  <2>1. PICK c : c = k
    OBVIOUS
  <2>2. InMemory([c EXCEPT !.state = "CLOSE_CONNECTION"])
    BY <1>1, <2>1, FieldsOfConnection DEF InMemory, Fields, ConnectionState
  <2> QED
    BY <2>1, <2>2
<1>3. InMemory(k')
  BY <1>1, <1>2 DEF SetCloseState
<1> QED
  BY <1>1, <1>3, StepInMemory

\* WriteResponse: no more is written than the sockets hold.
LEMMA WriteMemory == MemoryInv /\ WriteStep => MemoryInv'
<1> SUFFICES ASSUME MemoryInv, WriteStep PROVE MemoryInv'
  OBVIOUS
<1>1. /\ InMemory(k) /\ IsSequence(inFlight) /\ UNCHANGED <<sc, unsent, input>>
      /\ stage' \in {"header", "select", "write"}
  BY DEF MemoryInv, WriteStep, clientVars, AfterMessage
<1>2. k' = Closed(k) \/ k' = ResponseWritten(k) \/ k' = k
  BY DEF WriteStep
<1>3. InMemory(k')
  BY <1>1, <1>2, ClosedInMemory, WrittenInMemory
<1>4. IsSequence(inFlight') /\ Len(inFlight') <= SendBuffer'
  <2>1. CASE Len(inFlight) >= SendBuffer
    BY <1>1, <2>1 DEF WriteStep, MemoryInv, SendBuffer
  <2>2. CASE ~(Len(inFlight) >= SendBuffer)
    <3>1. inFlight' = Append(inFlight, Response(answer)[written + 1])
      BY <2>2 DEF WriteStep
    <3>2. /\ IsSequence(inFlight') /\ Len(inFlight) \in Nat
          /\ Len(inFlight') = Len(inFlight) + 1
      BY <1>1, <3>1, LongerSequence
    <3>3. SendBuffer \in Nat /\ SendBuffer' = SendBuffer
      BY <1>1, ScenarioAssumption DEF MemoryInv, SendBuffer
    <3> QED
      BY <2>2, <3>2, <3>3
  <2> QED
    BY <2>1, <2>2
<1> QED
  BY <1>1, <1>3, <1>4 DEF MemoryInv

\* Every step of the client and of the server keeps the invariant.
LEMMA NextMemory == MemoryInv /\ [Next]_vars => MemoryInv'
<1> SUFFICES ASSUME MemoryInv, [Next]_vars PROVE MemoryInv'
  OBVIOUS
<1>1. CASE ClientSend \/ ClientClose \/ ClientRead
  BY <1>1, ClientMemory
<1>2. CASE Select \/ SkipHeader \/ ReturnStep
  <2>1. UNCHANGED <<sc, k, unsent, input, inFlight>> /\ stage' \in {"header", "request", "select"}
    BY <1>2 DEF Select, SkipHeader, ReturnStep, clientVars, outVars
  <2> QED
    BY <2>1, StepInMemory DEF MemoryInv
<1>3. CASE ReceiveHeader
  BY <1>3, ReceiveHeaderMemory
<1>4. CASE TcpParseHeader
  BY <1>4, TcpParseMemory
<1>5. CASE HttpParseHeader
  BY <1>5, HttpParseMemory
<1>6. CASE ReadRequestStep
  BY <1>6, ReadRequestMemory
<1>7. CASE ExecuteStep
  BY <1>7, ExecuteMemory
<1>8. CASE WriteStep
  BY <1>8, WriteMemory
<1>9. CASE UNCHANGED vars
  BY <1>9 DEF vars, clientVars, outVars, MemoryInv, SendBuffer
<1>10. CASE ThrowStep
  BY <1>10, ThrowMemory
<1> QED
  BY <1>1, <1>2, <1>3, <1>4, <1>5, <1>6, <1>7, <1>8, <1>9, <1>10 DEF Next, Server

\* No access of a connection goes past the end of buffer_ or of the malloced request,
\* whatever the sizes and the requests and however they arrive; and the sockets hold
\* what is written (Connection::ReadRequest, ReadHeader, Initialize and WriteResponse).
THEOREM StaysInMemory == Spec => []TypeOK
<1>1. MemoryInv => TypeOK
  BY DEF MemoryInv, InMemory, TypeOK
<1> QED
  BY <1>1, InitMemory, NextMemory, PTL DEF Spec

------------------------------------------------------------------------------
\* What is loaded has the bytes of the block at each place.
LEMMA LoadElements ==
    ASSUME NEW mem, IsSequence(mem), NEW at \in Nat, NEW n \in Nat, at + n <= Len(mem)
    PROVE  \A i \in 1 .. n : Load(mem, at, n)[i] = mem[at + i]
<1>1. \A i \in 1 .. (at + n) - (at + 1) + 1 :
         SubSeq(mem, at + 1, at + n)[i] = mem[(at + 1) + i - 1]
  BY PartElements
<1>2. \A i \in 1 .. n : i \in 1 .. (at + n) - (at + 1) + 1 /\ (at + 1) + i - 1 = at + i
  OBVIOUS
<1> QED
  BY <1>1, <1>2 DEF Load

\* What a block has at each place after bytes were stored into it.
LEMMA StoreElements ==
    ASSUME NEW mem, IsSequence(mem), NEW at \in Nat, NEW bytes, IsSequence(bytes),
           at + Len(bytes) <= Len(mem)
    PROVE  /\ \A i \in 1 .. at : Store(mem, at, bytes)[i] = mem[i]
           /\ \A i \in 1 .. Len(bytes) : Store(mem, at, bytes)[at + i] = bytes[i]
<1> DEFINE before == SubSeq(mem, 1, at)
           after == SubSeq(mem, at + Len(bytes) + 1, Len(mem))
<1>1. Len(mem) \in Nat /\ Len(bytes) \in Nat /\ at <= Len(mem)
  BY JoinElements
<1>2. IsSequence(before) /\ Len(before) = at /\ \A i \in 1 .. at : before[i] = mem[i]
  BY <1>1, CutInTwo DEF First
<1>3. IsSequence(after)
  <2>1. at + Len(bytes) + 1 \in Nat \ {0} /\ Len(mem) <= Len(mem)
    BY <1>1
  <2> QED
    BY <1>1, <2>1, SubSequence
<1>4. Store(mem, at, bytes) = Join(Join(before, bytes), after)
  BY DEF Store, Join
<1> HIDE DEF before, after
<1>5. IsSequence(Join(before, bytes)) /\ Len(Join(before, bytes)) = at + Len(bytes)
  BY <1>2, JoinElements
<1>6. ASSUME NEW i \in 1 .. at PROVE Join(Join(before, bytes), after)[i] = mem[i]
  <2>1. i \in 1 .. at + Len(bytes) /\ i \in 1 .. Len(before)
    BY <1>1, <1>2
  <2>2. Join(Join(before, bytes), after)[i] = Join(before, bytes)[i]
    BY <1>3, <1>5, <2>1, JoinFront
  <2>3. Join(before, bytes)[i] = before[i]
    BY <1>2, <2>1, JoinFront
  <2> QED
    BY <1>2, <2>2, <2>3
<1>7. ASSUME NEW i \in 1 .. Len(bytes)
      PROVE  Join(Join(before, bytes), after)[at + i] = bytes[i]
  <2>1. at + i \in 1 .. at + Len(bytes) /\ Len(before) + i = at + i
    BY <1>1, <1>2
  <2>2. Join(Join(before, bytes), after)[at + i] = Join(before, bytes)[at + i]
    BY <1>3, <1>5, <2>1, JoinFront
  <2>3. Join(before, bytes)[Len(before) + i] = bytes[i]
    <3>1. IsSequence(before)
      BY <1>2
    <3> HIDE DEF before
    <3> QED
      BY <3>1, JoinBehind, Zenon
  <2> QED
    BY <2>1, <2>2, <2>3
<1> QED
  BY <1>4, <1>6, <1>7

\* Storing behind some bytes leaves them as they are.
LEMMA LoadBeforeStore ==
    ASSUME NEW mem, IsSequence(mem), NEW at \in Nat, NEW n \in Nat,
           NEW behind \in Nat, at + n <= behind,
           NEW bytes, IsSequence(bytes), behind + Len(bytes) <= Len(mem)
    PROVE  Load(Store(mem, behind, bytes), at, n) = Load(mem, at, n)
<1> DEFINE stored == Store(mem, behind, bytes)
<1>1. IsSequence(stored) /\ Len(stored) = Len(mem) /\ Len(mem) \in Nat /\ Len(bytes) \in Nat
  BY StoreWithin, JoinElements
<1>2. \A i \in 1 .. behind : stored[i] = mem[i]
  BY StoreElements
<1> HIDE DEF stored
<1>3. at + n <= Len(mem)
  BY <1>1
<1>4. /\ IsSequence(Load(mem, at, n)) /\ Len(Load(mem, at, n)) = n
      /\ IsSequence(Load(stored, at, n)) /\ Len(Load(stored, at, n)) = n
  BY <1>1, <1>3, LoadWithin
<1>5. ASSUME NEW i \in 1 .. n PROVE Load(stored, at, n)[i] = Load(mem, at, n)[i]
  <2>1. Load(mem, at, n)[i] = mem[at + i] /\ Load(stored, at, n)[i] = stored[at + i]
    BY <1>1, <1>3, LoadElements
  <2>2. at + i \in 1 .. behind
    OBVIOUS
  <2> QED
    BY <1>2, <2>1, <2>2
<1>6. Load(stored, at, n) = Load(mem, at, n)
  BY <1>4, <1>5, SameSequence
<1> QED
  BY <1>6 DEF stored

\* What is stored is what is loaded from there.
LEMMA LoadStored ==
    ASSUME NEW mem, IsSequence(mem), NEW at \in Nat, NEW bytes, IsSequence(bytes),
           at + Len(bytes) <= Len(mem)
    PROVE  Load(Store(mem, at, bytes), at, Len(bytes)) = bytes
<1> DEFINE stored == Store(mem, at, bytes)
           n == Len(bytes)
<1>1. IsSequence(stored) /\ Len(stored) = Len(mem) /\ Len(mem) \in Nat /\ n \in Nat
  BY StoreWithin, JoinElements
<1>2. \A i \in 1 .. n : stored[at + i] = bytes[i]
  BY StoreElements
<1> HIDE DEF stored, n
<1>3. at + n <= Len(stored)
  BY <1>1 DEF n
<1>4. IsSequence(Load(stored, at, n)) /\ Len(Load(stored, at, n)) = Len(bytes)
  BY <1>1, <1>3, LoadWithin DEF n
<1>5. \A i \in 1 .. n : Load(stored, at, n)[i] = bytes[i]
  BY <1>1, <1>2, <1>3, LoadElements
<1>6. Load(stored, at, n) = bytes
  BY <1>4, <1>5, SameSequence DEF n
<1> QED
  BY <1>6 DEF stored, n

\* Bytes that are next to each other are loaded together.
LEMMA LoadTogether ==
    ASSUME NEW mem, IsSequence(mem), NEW at \in Nat, NEW m \in Nat, NEW n \in Nat,
           at + m + n <= Len(mem)
    PROVE  Load(mem, at, m + n) = Join(Load(mem, at, m), Load(mem, at + m, n))
<1> DEFINE a == Load(mem, at, m)
           b == Load(mem, at + m, n)
           c == Load(mem, at, m + n)
<1>1. /\ Len(mem) \in Nat /\ m + n \in Nat /\ at + m \in Nat
      /\ at + m <= Len(mem) /\ at + (m + n) <= Len(mem) /\ (at + m) + n <= Len(mem)
  BY JoinElements
<1>2. IsSequence(a) /\ Len(a) = m /\ \A i \in 1 .. m : a[i] = mem[at + i]
  BY <1>1, LoadWithin, LoadElements
<1>3. IsSequence(b) /\ Len(b) = n /\ \A i \in 1 .. n : b[i] = mem[(at + m) + i]
  BY <1>1, LoadWithin, LoadElements
<1>4. IsSequence(c) /\ Len(c) = m + n /\ \A i \in 1 .. m + n : c[i] = mem[at + i]
  BY <1>1, LoadWithin, LoadElements
<1> HIDE DEF a, b, c
<1>5. IsSequence(Join(a, b)) /\ Len(Join(a, b)) = m + n
  BY <1>2, <1>3, JoinElements
<1>6. ASSUME NEW i \in 1 .. m + n PROVE c[i] = Join(a, b)[i]
  <2>1. CASE i <= m
    <3>1. i \in 1 .. Len(a)
      BY <1>2, <2>1
    <3>2. Join(a, b)[i] = a[i]
      BY <1>2, <1>3, <3>1, JoinFront
    <3> QED
      BY <1>2, <1>4, <3>1, <3>2
  <2>2. CASE ~(i <= m)
    <3> DEFINE j == i - m
    <3>1. j \in 1 .. n /\ m + j = i /\ (at + m) + j = at + i
      BY <2>2
    <3> HIDE DEF j
    <3>2. IsSequence(a) /\ IsSequence(b) /\ j \in 1 .. Len(b) /\ Len(a) + j = i
      BY <1>2, <1>3, <3>1
    <3>3. Join(a, b)[Len(a) + j] = b[j]
      BY <3>2, JoinBehind
    <3>4. b[j] = mem[(at + m) + j] /\ c[i] = mem[at + i]
      BY <1>3, <1>4, <3>1
    <3> QED
      BY <3>1, <3>2, <3>3, <3>4
  <2> QED
    BY <2>1, <2>2
<1>7. c = Join(a, b)
  BY <1>4, <1>5, <1>6, SameSequence
<1> QED
  BY <1>7 DEF a, b, c

\* Bytes that Receive puts behind others are loaded together with them: the zero
\* that it adds is not.
LEMMA LoadReceived ==
    ASSUME NEW mem, IsSequence(mem), NEW at \in Nat, NEW n \in Nat,
           NEW bytes, IsSequence(bytes), at + n + Len(bytes) < Len(mem)
    PROVE  Load(StoreReceived(mem, at + n, bytes), at, n + Len(bytes))
              = Join(Load(mem, at, n), bytes)
<1>1. Len(mem) \in Nat /\ Len(bytes) \in Nat /\ at + n \in Nat /\ at + n <= Len(mem)
  BY JoinElements
<1>2. CASE bytes = <<>>
  <2>1. Len(bytes) = 0 /\ StoreReceived(mem, at + n, bytes) = mem
    BY <1>2, EmptyIsSequence DEF StoreReceived
  <2>2. Join(Load(mem, at, n), <<>>) = Load(mem, at, n)
    BY <1>1, LoadWithin, JoinEmpty
  <2> QED
    BY <1>2, <2>1, <2>2
<1>3. CASE bytes # <<>>
  <2> DEFINE more == Append(bytes, Nul)
             stored == Store(mem, at + n, more)
  <2>1. IsSequence(more) /\ Len(more) = Len(bytes) + 1 /\ \A i \in 1 .. Len(bytes) : more[i] = bytes[i]
    <3>1. PICK S : bytes \in Seq(S)
      BY DEF IsSequence
    <3>2. bytes \in Seq(S \cup {Nul})
      BY <3>1, SeqMonotonic
    <3>3. \A i \in 1 .. Len(bytes) : more[i] = bytes[i]
      BY <3>2, AppendProperties
    <3> QED
      BY <3>3, LongerSequence
  <2>2. stored = StoreReceived(mem, at + n, bytes)
    BY <1>3 DEF StoreReceived
  <2> HIDE DEF more
  <2>3. at + n + Len(more) <= Len(mem) /\ at + n <= at + n
    BY <1>1, <2>1
  <2>4. IsSequence(stored) /\ Len(stored) = Len(mem)
    BY <1>1, <2>1, <2>3, StoreWithin
  <2>5. \A i \in 1 .. Len(more) : stored[at + n + i] = more[i]
    <3> DEFINE place == at + n
    <3>1. place \in Nat /\ place + Len(more) <= Len(mem)
      BY <1>1, <2>3
    <3> HIDE DEF place
    <3>2. \A i \in 1 .. Len(more) : Store(mem, place, more)[place + i] = more[i]
      BY <2>1, <3>1, StoreElements
    <3> QED
      BY <3>2 DEF place
  <2>6. Load(stored, at, n) = Load(mem, at, n)
    BY <1>1, <2>1, <2>3, LoadBeforeStore
  <2> HIDE DEF stored
  <2>7. /\ at + n + Len(bytes) <= Len(stored) /\ (at + n) + Len(bytes) <= Len(stored)
    BY <1>1, <2>4
  <2>8. Load(stored, at, n + Len(bytes)) = Join(Load(stored, at, n), Load(stored, at + n, Len(bytes)))
    BY <1>1, <2>4, <2>7, LoadTogether
  <2>9. Load(stored, at + n, Len(bytes)) = bytes
    <3> DEFINE l == Load(stored, at + n, Len(bytes))
    <3>1. IsSequence(l) /\ Len(l) = Len(bytes)
      BY <1>1, <2>4, <2>7, LoadWithin
    <3>2. \A i \in 1 .. Len(bytes) : l[i] = stored[at + n + i]
      BY <1>1, <2>4, <2>7, LoadElements
    <3> HIDE DEF l
    <3>3. ASSUME NEW i \in 1 .. Len(bytes) PROVE l[i] = bytes[i]
      <4>1. i \in 1 .. Len(more)
        BY <1>1, <2>1
      <4> QED
        BY <2>1, <2>5, <3>2, <4>1
    <3>4. l = bytes
      BY <3>1, <3>3, SameSequence
    <3> QED
      BY <3>4 DEF l
  <2> QED
    BY <2>2, <2>6, <2>8, <2>9
<1> QED
  BY <1>2, <1>3

------------------------------------------------------------------------------
\* The bytes that the connection has received and not finished with.
Region(c) ==
    IF c.request = "none" THEN Load(c.buffer, 0, c.bufferLength)
    ELSE IF c.request = "heap" THEN Load(c.heap, 0, c.contentAvail)
    ELSE Load(c.buffer, c.requestAt, c.contentAvail)

\* They are as many as the connection counts.
LEMMA RegionLength ==
    ASSUME NEW c, InMemory(c)
    PROVE  /\ IsSequence(Region(c))
           /\ Len(Region(c)) = IF c.request = "none" THEN c.bufferLength ELSE c.contentAvail
<1>1. /\ MaxBufferLength \in Nat /\ c.bufferLength \in 0 .. MaxBufferLength
      /\ Len(c.buffer) = MaxBufferLength + 1 /\ IsSequence(c.buffer) /\ IsSequence(c.heap)
      /\ c.contentAvail \in Nat /\ c.requestAt \in Nat /\ c.contentLength \in Nat
      /\ c.request \in {"none", "buffer", "heap"}
      /\ c.request = "buffer" => c.requestAt + c.contentAvail <= MaxBufferLength
      /\ c.request = "heap" => Len(c.heap) = c.contentLength + 1 /\ c.contentAvail <= c.contentLength
  BY BufferAssumption DEF InMemory
<1>2. CASE c.request = "none"
  <2>1. 0 + c.bufferLength <= Len(c.buffer) /\ c.bufferLength \in Nat
    BY <1>1
  <2> QED
    BY <1>1, <1>2, <2>1, LoadWithin DEF Region
<1>3. CASE c.request = "heap"
  <2>1. 0 + c.contentAvail <= Len(c.heap)
    BY <1>1, <1>3
  <2> QED
    BY <1>1, <1>3, <2>1, LoadWithin DEF Region
<1>4. CASE c.request = "buffer"
  <2>1. c.requestAt + c.contentAvail <= Len(c.buffer)
    BY <1>1, <1>4
  <2> QED
    BY <1>1, <1>4, <2>1, LoadWithin DEF Region
<1> QED
  BY <1>1, <1>2, <1>3, <1>4

\* ReadHeader: what Receive returns is added to them.
LEMMA RegionOfHeader ==
    ASSUME NEW c, InMemory(c), c.request = "none",
           NEW bytes, IsSequence(bytes), c.bufferLength + Len(bytes) <= MaxBufferLength
    PROVE  Region([c EXCEPT !.buffer = StoreReceived(@, c.bufferLength, bytes),
                            !.bufferLength = @ + Len(bytes)])
              = Join(Region(c), bytes)
<1> DEFINE n == c.bufferLength
           mem == StoreReceived(c.buffer, n, bytes)
           d == [c EXCEPT !.buffer = mem, !.bufferLength = n + Len(bytes)]
<1>1. /\ DOMAIN c = Fields /\ MaxBufferLength \in Nat /\ n \in Nat /\ IsSequence(c.buffer)
      /\ Len(c.buffer) = MaxBufferLength + 1 /\ Len(bytes) \in Nat
  BY BufferAssumption, FieldsOfConnection, JoinElements DEF InMemory
<1>2. d.request = "none" /\ d.buffer = mem /\ d.bufferLength = n + Len(bytes)
  BY <1>1 DEF Fields
<1>3. 0 + n + Len(bytes) < Len(c.buffer)
  BY <1>1
<1>4. Load(StoreReceived(c.buffer, 0 + n, bytes), 0, n + Len(bytes))
         = Join(Load(c.buffer, 0, n), bytes)
  BY <1>1, <1>3, LoadReceived
<1>5. 0 + n = n
  BY <1>1
<1> HIDE DEF d
<1>6. Region(d) = Join(Region(c), bytes)
  BY <1>2, <1>4, <1>5 DEF Region
<1> QED
  BY <1>6 DEF d

\* request_[contentAvail_] = 0 is behind them.
LEMMA RegionTerminated ==
    ASSUME NEW c, InMemory(c), c.request # "none"
    PROVE  Region(Terminate(c)) = Region(c)
<1>1. /\ DOMAIN c = Fields /\ MaxBufferLength \in Nat
      /\ Len(c.buffer) = MaxBufferLength + 1 /\ IsSequence(c.buffer) /\ IsSequence(c.heap)
      /\ c.contentAvail \in Nat /\ c.requestAt \in Nat /\ c.contentLength \in Nat
      /\ c.request \in {"buffer", "heap"}
      /\ c.request = "buffer" => c.requestAt + c.contentAvail <= MaxBufferLength
      /\ c.request = "heap" => Len(c.heap) = c.contentLength + 1 /\ c.contentAvail <= c.contentLength
  BY BufferAssumption, FieldsOfConnection DEF InMemory
<1> DEFINE zero == <<Nul>>
<1>2. IsSequence(zero) /\ Len(zero) = 1
  <2>1. <<Nul>> = Append(<<>>, Nul)
    OBVIOUS
  <2> QED
    BY <2>1, EmptyIsSequence, LongerSequence
<1> HIDE DEF zero
<1>3. CASE c.request = "heap"
  <2> DEFINE mem == Store(c.heap, c.contentAvail, zero)
             d == [c EXCEPT !.heap = mem]
  <2>1. Terminate(c) = d
    BY <1>3 DEF Terminate, zero
  <2>2. d.request = "heap" /\ d.heap = mem /\ d.contentAvail = c.contentAvail
    BY <1>1, <1>3 DEF Fields
  <2>3. 0 + c.contentAvail <= c.contentAvail /\ c.contentAvail + Len(zero) <= Len(c.heap)
    BY <1>1, <1>2, <1>3
  <2>4. Load(mem, 0, c.contentAvail) = Load(c.heap, 0, c.contentAvail)
    <3> DEFINE n == c.contentAvail
               block == c.heap
    <3>1. /\ IsSequence(block) /\ n \in Nat /\ 0 + n <= n /\ n + Len(zero) <= Len(block)
          /\ IsSequence(zero)
      BY <1>1, <1>2, <2>3
    <3> HIDE DEF n, block
    <3>2. Load(Store(block, n, zero), 0, n) = Load(block, 0, n)
      BY <3>1, LoadBeforeStore
    <3> QED
      BY <3>2 DEF n, block
  <2> HIDE DEF mem, d
  <2> QED
    BY <1>3, <2>1, <2>2, <2>4 DEF Region
<1>4. CASE c.request = "buffer"
  <2> DEFINE end == c.requestAt + c.contentAvail
             mem == Store(c.buffer, end, zero)
             d == [c EXCEPT !.buffer = mem]
  <2>1. Terminate(c) = d
    BY <1>4 DEF Terminate, zero
  <2>2. /\ d.request = "buffer" /\ d.buffer = mem /\ d.contentAvail = c.contentAvail
        /\ d.requestAt = c.requestAt
    BY <1>1, <1>4 DEF Fields
  <2>3. /\ end \in Nat /\ c.requestAt + c.contentAvail <= end
        /\ end + Len(zero) <= Len(c.buffer)
    BY <1>1, <1>2, <1>4
  <2> HIDE DEF end
  <2>4. Load(mem, c.requestAt, c.contentAvail) = Load(c.buffer, c.requestAt, c.contentAvail)
    <3> DEFINE n == c.contentAvail
               at == c.requestAt
               block == c.buffer
    <3>1. /\ IsSequence(block) /\ n \in Nat /\ at \in Nat /\ at + n <= end
          /\ end + Len(zero) <= Len(block) /\ IsSequence(zero) /\ end \in Nat
      BY <1>1, <1>2, <2>3
    <3> HIDE DEF n, block, at
    <3>2. Load(Store(block, end, zero), at, n) = Load(block, at, n)
      BY <3>1, LoadBeforeStore
    <3> QED
      BY <3>2 DEF n, block, at
  <2>5. mem = Store(c.buffer, c.requestAt + c.contentAvail, zero)
    BY DEF end
  <2> HIDE DEF mem, d
  <2> QED
    BY <1>4, <2>1, <2>2, <2>4 DEF Region
<1> QED
  BY <1>1, <1>3, <1>4

\* ReadHeader: the request is behind the header.
LEMMA RegionPrepared ==
    ASSUME NEW c, InMemory(c), c.request = "none", NEW bodyAt \in 0 .. c.bufferLength,
           NEW length \in Nat, NEW keepAlive
    PROVE  Region(PrepareRequest(c, bodyAt, length, keepAlive)) = After(Region(c), bodyAt)
<1> DEFINE fits == length <= MaxBufferLength - bodyAt
           avail == c.bufferLength - bodyAt
           rest == Load(c.buffer, bodyAt, avail)
           moved == Store(Block(length + 1), 0, rest)
           d == PrepareRequest(c, bodyAt, length, keepAlive)
<1>1. /\ DOMAIN c = Fields /\ MaxBufferLength \in Nat /\ c.bufferLength \in 0 .. MaxBufferLength
      /\ Len(c.buffer) = MaxBufferLength + 1 /\ IsSequence(c.buffer)
  BY FieldsOfConnection, BufferAssumption DEF InMemory
<1>2. /\ d.buffer = c.buffer /\ d.contentAvail = avail
      /\ d.request = (IF fits THEN "buffer" ELSE "heap")
      /\ fits => d.requestAt = bodyAt
      /\ ~fits => d.heap = moved
  BY <1>1 DEF PrepareRequest, Fields
<1>3. avail \in Nat /\ bodyAt \in Nat /\ bodyAt + avail = c.bufferLength /\ bodyAt + avail <= Len(c.buffer)
  BY <1>1
<1>4. IsSequence(rest) /\ Len(rest) = avail
  BY <1>1, <1>3, LoadWithin
<1>5. rest = After(Region(c), bodyAt)
  <2>1. /\ Load(c.buffer, 0, bodyAt + avail) = Join(Load(c.buffer, 0, bodyAt), Load(c.buffer, 0 + bodyAt, avail))
        /\ 0 + bodyAt = bodyAt
    <3>1. 0 + bodyAt + avail <= Len(c.buffer)
      BY <1>3
    <3> HIDE DEF avail
    <3> QED
      BY <1>1, <1>3, <3>1, LoadTogether
  <2>2. IsSequence(Load(c.buffer, 0, bodyAt)) /\ Len(Load(c.buffer, 0, bodyAt)) = bodyAt
    <3>1. 0 + bodyAt <= Len(c.buffer)
      BY <1>1, <1>3
    <3> QED
      BY <1>1, <1>3, <3>1, LoadWithin
  <2>3. IsSequence(Region(c)) /\ Len(Region(c)) = c.bufferLength
    BY RegionLength
  <2>4. Region(c) = Load(c.buffer, 0, bodyAt + avail)
    BY <1>3 DEF Region
  <2> DEFINE h == Load(c.buffer, 0, bodyAt)
             t == Region(c)
  <2>5. t = Join(h, rest) /\ IsSequence(h) /\ Len(h) = bodyAt
    BY <2>1, <2>2, <2>4
  <2> HIDE DEF h, t, rest, avail
  <2>6. /\ t = Join(First(t, bodyAt), After(t, bodyAt))
        /\ IsSequence(First(t, bodyAt)) /\ Len(First(t, bodyAt)) = bodyAt
        /\ IsSequence(After(t, bodyAt))
    <3>1. IsSequence(t) /\ bodyAt \in 0 .. Len(t)
      BY <2>3 DEF t
    <3> QED
      BY <3>1, CutInTwo
  <2>7. Join(h, rest) = Join(First(t, bodyAt), After(t, bodyAt))
    BY <2>5, <2>6
  <2> QED
    BY <1>4, <2>5, <2>6, <2>7, CutEqual DEF t
<1>6. CASE fits
  BY <1>2, <1>5, <1>6 DEF Region
<1>7. CASE ~fits
  <2>1. IsSequence(Block(length + 1)) /\ Len(Block(length + 1)) = length + 1
    BY BlockHasLength
  <2>2. 0 + Len(rest) <= Len(Block(length + 1))
    BY <1>1, <1>3, <1>4, <1>7, <2>1
  <2> HIDE DEF rest
  <2>3. Load(moved, 0, Len(rest)) = rest
    BY <1>4, <2>1, <2>2, LoadStored
  <2> HIDE DEF moved, d
  <2>4. Region(d) = Load(moved, 0, avail)
    BY <1>2, <1>7 DEF Region
  <2>5. Region(d) = After(Region(c), bodyAt)
    BY <1>4, <1>5, <2>3, <2>4
  <2> QED
    BY <2>5 DEF d
<1> QED
  BY <1>6, <1>7

\* ReadRequest: what Receive returns is added to them.
LEMMA RegionRead ==
    ASSUME NEW c, InMemory(c), c.request # "none", NEW bytes, IsSequence(bytes),
           Len(bytes) \in 0 .. RequestRoom(c)
    PROVE  /\ Region(ReadRequest(c, bytes)) = Join(Region(c), bytes)
           /\ ReadRequest(c, bytes).request = c.request
           /\ ReadRequest(c, bytes).contentLength = c.contentLength
           /\ ReadRequest(c, bytes).contentAvail = c.contentAvail + Len(bytes)
           /\ ReadRequest(c, bytes).keepAlive = c.keepAlive
           /\ ReadRequest(c, bytes).state = IF c.contentAvail + Len(bytes) < c.contentLength
                                            THEN c.state ELSE "EXECUTE_REQUEST"
<1> DEFINE buf == IF c.request = "buffer"
                  THEN StoreReceived(c.buffer, c.requestAt + c.contentAvail, bytes)
                  ELSE c.buffer
           hp == IF c.request = "heap" THEN StoreReceived(c.heap, c.contentAvail, bytes)
                 ELSE c.heap
           n == c.contentAvail
           more == [c EXCEPT !.buffer = buf, !.heap = hp, !.contentAvail = n + Len(bytes)]
<1>1. /\ DOMAIN c = Fields /\ MaxBufferLength \in Nat
      /\ Len(c.buffer) = MaxBufferLength + 1 /\ IsSequence(c.buffer) /\ IsSequence(c.heap)
      /\ n \in Nat /\ c.requestAt \in Nat /\ c.contentLength \in Nat
      /\ c.request \in {"buffer", "heap"}
      /\ c.request = "buffer" => /\ c.requestAt + n <= MaxBufferLength
                                /\ c.requestAt + c.contentLength <= MaxBufferLength
      /\ c.request = "heap" => Len(c.heap) = c.contentLength + 1 /\ n <= c.contentLength
  BY BufferAssumption, FieldsOfConnection DEF InMemory
<1>2. Len(bytes) \in Nat /\ (n + Len(bytes) <= c.contentLength \/ Len(bytes) = 0)
  BY <1>1 DEF RequestRoom
<1>3. /\ DOMAIN more = Fields /\ more.state = c.state /\ more.buffer = buf
      /\ more.contentLength = c.contentLength /\ more.keepAlive = c.keepAlive
      /\ more.contentAvail = n + Len(bytes) /\ more.request = c.request
      /\ more.requestAt = c.requestAt /\ more.heap = hp
  BY <1>1 DEF Fields
<1>4. ReadRequest(c, bytes) =
         IF more.contentAvail < c.contentLength THEN more
         ELSE [Terminate(more) EXCEPT !.state = "EXECUTE_REQUEST"]
  BY DEF ReadRequest
<1>5. Region(more) = Join(Region(c), bytes)
  <2>1. CASE c.request = "heap"
    <3> DEFINE block == c.heap
    <3>1. IsSequence(block) /\ 0 + n + Len(bytes) < Len(block)
      BY <1>1, <1>2, <2>1
    <3>2. hp = StoreReceived(block, 0 + n, bytes)
      BY <1>1, <2>1
    <3> HIDE DEF more, buf, hp, n, block
    <3>3. Load(StoreReceived(block, 0 + n, bytes), 0, n + Len(bytes)) = Join(Load(block, 0, n), bytes)
      BY <1>1, <3>1, LoadReceived
    <3>4. Region(more) = Load(hp, 0, n + Len(bytes)) /\ Region(c) = Load(block, 0, n)
      BY <1>3, <2>1 DEF Region, block, n
    <3> QED
      BY <3>2, <3>3, <3>4
  <2>2. CASE c.request = "buffer"
    <3> DEFINE block == c.buffer
               at == c.requestAt
    <3>1. IsSequence(block) /\ at \in Nat /\ at + n + Len(bytes) < Len(block)
      BY <1>1, <1>2, <2>2
    <3>2. buf = StoreReceived(block, at + n, bytes)
      BY <1>1, <2>2
    <3> HIDE DEF more, buf, hp, n, block, at
    <3>3. Load(StoreReceived(block, at + n, bytes), at, n + Len(bytes)) = Join(Load(block, at, n), bytes)
      BY <1>1, <3>1, LoadReceived
    <3>4. Region(more) = Load(buf, at, n + Len(bytes)) /\ Region(c) = Load(block, at, n)
      BY <1>3, <2>2 DEF Region, block, n, at
    <3> QED
      BY <3>2, <3>3, <3>4
  <2> QED
    BY <1>1, <2>1, <2>2
<1>6. InMemory(more)
  BY MoreInMemory
<1> HIDE DEF more, buf, hp, n
<1>7. Region(Terminate(more)) = Region(more)
  BY <1>1, <1>3, <1>6, RegionTerminated
<1>8. ASSUME NEW d, DOMAIN d = Fields
      PROVE  LET e == Terminate(d) IN
             /\ DOMAIN e = Fields
             /\ e.contentLength = d.contentLength /\ e.keepAlive = d.keepAlive
             /\ e.contentAvail = d.contentAvail /\ e.request = d.request
  BY <1>8 DEF Terminate, Fields
<1>9. ASSUME NEW d, DOMAIN d = Fields
      PROVE  LET e == [d EXCEPT !.state = "EXECUTE_REQUEST"] IN
             /\ Region(e) = Region(d) /\ e.state = "EXECUTE_REQUEST"
             /\ e.contentLength = d.contentLength /\ e.keepAlive = d.keepAlive
             /\ e.contentAvail = d.contentAvail /\ e.request = d.request
  BY <1>9 DEF Region, Fields
<1> DEFINE t == Terminate(more)
<1>10. /\ DOMAIN t = Fields /\ Region(t) = Region(more)
       /\ t.contentLength = more.contentLength /\ t.keepAlive = more.keepAlive
       /\ t.contentAvail = more.contentAvail /\ t.request = more.request
  BY <1>3, <1>7, <1>8
<1>11. ReadRequest(c, bytes) =
          IF more.contentAvail < c.contentLength THEN more
          ELSE [t EXCEPT !.state = "EXECUTE_REQUEST"]
  BY <1>4
<1> HIDE DEF t
<1>12. CASE n + Len(bytes) < c.contentLength
  BY <1>3, <1>5, <1>11, <1>12 DEF n
<1>13. CASE ~(n + Len(bytes) < c.contentLength)
  BY <1>3, <1>5, <1>9, <1>10, <1>11, <1>13 DEF n
<1> QED
  BY <1>12, <1>13

\* The request is at their front.
LEMMA RegionRequest ==
    ASSUME NEW c, InMemory(c), c.request # "none", c.contentAvail >= c.contentLength
    PROVE  /\ RequestBytes(c) = First(Region(c), c.contentLength)
           /\ c.request = "buffer" => Preserved(c) = After(Region(c), c.contentLength)
<1> DEFINE n == c.contentLength
           m == c.contentAvail - c.contentLength
           block == IF c.request = "heap" THEN c.heap ELSE c.buffer
           at == IF c.request = "heap" THEN 0 ELSE c.requestAt
           h == Load(block, at, n)
           t == Load(block, at + n, m)
           whole == Region(c)
<1>1. /\ n \in Nat /\ m \in Nat /\ n + m = c.contentAvail /\ at \in Nat
      /\ IsSequence(block) /\ Len(block) \in Nat /\ at + n + m <= Len(block)
  <2>1. /\ MaxBufferLength \in Nat /\ Len(c.buffer) = MaxBufferLength + 1
        /\ IsSequence(c.buffer) /\ IsSequence(c.heap)
        /\ c.contentAvail \in Nat /\ c.requestAt \in Nat /\ c.contentLength \in Nat
        /\ c.request \in {"buffer", "heap"}
        /\ c.request = "buffer" => c.requestAt + c.contentAvail <= MaxBufferLength
        /\ c.request = "heap" => Len(c.heap) = c.contentLength + 1 /\ c.contentAvail <= c.contentLength
    BY BufferAssumption DEF InMemory
  <2>2. Len(c.buffer) \in Nat /\ Len(c.heap) \in Nat
    BY <2>1, JoinElements
  <2>3. n \in Nat /\ m \in Nat /\ n + m = c.contentAvail
    BY <2>1
  <2>4. CASE c.request = "heap"
    BY <2>1, <2>2, <2>3, <2>4
  <2>5. CASE c.request = "buffer"
    <3>1. block = c.buffer /\ at = c.requestAt
      BY <2>5
    <3> QED
      BY <2>1, <2>2, <2>3, <2>5, <3>1
  <2> QED
    BY <2>1, <2>4, <2>5
<1>2. whole = Load(block, at, n + m) /\ RequestBytes(c) = h /\ (c.request = "buffer" => Preserved(c) = t)
  BY <1>1 DEF Region, RequestBytes, Preserved
<1> HIDE DEF n, m, block, at
<1>3. Load(block, at, n + m) = Join(h, t)
  BY <1>1, LoadTogether
<1>4. IsSequence(h) /\ Len(h) = n /\ IsSequence(t) /\ Len(t) = m
  <2>1. at + n <= Len(block) /\ (at + n) + m <= Len(block) /\ at + n \in Nat
    BY <1>1
  <2> QED
    BY <1>1, <2>1, LoadWithin
<1> HIDE DEF h, t, whole
<1>5. whole = Join(h, t)
  BY <1>2, <1>3
<1>6. IsSequence(whole) /\ n \in 0 .. Len(whole)
  BY <1>1, <1>4, <1>5, JoinElements
<1>7. /\ whole = Join(First(whole, n), After(whole, n))
      /\ IsSequence(First(whole, n)) /\ Len(First(whole, n)) = n
      /\ IsSequence(After(whole, n))
  BY <1>6, CutInTwo
<1>8. h = First(whole, n) /\ t = After(whole, n)
  <2>1. Join(First(whole, n), After(whole, n)) = Join(h, t)
    BY <1>5, <1>7
  <2> QED
    BY <1>4, <1>7, <2>1, CutEqual
<1> QED
  BY <1>2, <1>8 DEF n, whole

\* Connection::Initialize keeps what is behind the request.
LEMMA RegionInitialized ==
    ASSUME NEW c, InMemory(c), c.request # "none", c.contentAvail >= c.contentLength, NEW st
    PROVE  LET d == [Initialize(c, TRUE) EXCEPT !.state = st]
           IN  /\ Region(d) = After(Region(c), c.contentLength)
               /\ d.request = "none" /\ d.state = st
<1> DEFINE more == c.contentAvail > c.contentLength
           moved == c.request = "buffer" /\ more
           e == Initialize(c, TRUE)
           d == [e EXCEPT !.state = st]
           len == IF moved THEN c.contentAvail - c.contentLength ELSE 0
           buf == IF moved THEN Store(c.buffer, 0, Preserved(c)) ELSE c.buffer
<1>1. /\ DOMAIN c = Fields /\ c.contentAvail \in Nat /\ c.contentLength \in Nat
      /\ c.requestAt \in Nat /\ MaxBufferLength \in Nat
      /\ IsSequence(c.buffer) /\ Len(c.buffer) = MaxBufferLength + 1
      /\ c.request \in {"buffer", "heap"}
      /\ c.request = "buffer" => c.requestAt + c.contentAvail <= MaxBufferLength
      /\ c.request = "heap" => c.contentAvail <= c.contentLength
  BY FieldsOfConnection, BufferAssumption DEF InMemory
<1>2. e = [c EXCEPT !.buffer = buf, !.bufferLength = len, !.contentLength = 0,
                    !.contentAvail = 0, !.request = "none", !.requestAt = 0,
                    !.heap = <<>>, !.http = InitialHeader("request")]
  BY DEF Initialize
<1> HIDE DEF e, len, buf
<1>3. DOMAIN e = Fields /\ e.buffer = buf /\ e.bufferLength = len /\ e.request = "none"
  BY <1>1, <1>2 DEF Fields
<1>4. d.buffer = buf /\ d.bufferLength = len /\ d.request = "none" /\ d.state = st
  BY <1>3 DEF Fields
<1> HIDE DEF d
<1>5. Region(d) = Load(buf, 0, len)
  BY <1>4 DEF Region
<1> DEFINE r == Region(c)
           n == c.contentLength
<1>6. IsSequence(r) /\ Len(r) = c.contentAvail /\ n \in 0 .. Len(r)
  BY <1>1, RegionLength
<1> HIDE DEF r, n
<1>7. IsSequence(After(r, n)) /\ Len(After(r, n)) = c.contentAvail - n
  BY <1>6, CutInTwo
<1>8. CASE moved
  <2> DEFINE rest == Preserved(c)
  <2>1. rest = After(r, n)
    BY <1>8, RegionRequest DEF r, n
  <2> HIDE DEF rest
  <2>2. IsSequence(rest) /\ Len(rest) = len /\ 0 + Len(rest) <= Len(c.buffer)
    BY <1>1, <1>7, <1>8, <2>1 DEF len, n
  <2>3. Load(Store(c.buffer, 0, rest), 0, Len(rest)) = rest
    BY <1>1, <2>2, LoadStored
  <2>4. buf = Store(c.buffer, 0, rest)
    BY <1>8 DEF buf, rest
  <2> QED
    BY <1>4, <1>5, <2>1, <2>2, <2>3, <2>4 DEF d, e, r, n
<1>9. CASE ~moved
  <2>1. len = 0 /\ c.contentAvail - n = 0 /\ buf = c.buffer
    BY <1>1, <1>9 DEF len, n, buf
  <2>2. IsSequence(Load(c.buffer, 0, 0)) /\ Len(Load(c.buffer, 0, 0)) = 0
    <3>1. 0 + 0 <= Len(c.buffer)
      BY <1>1
    <3> QED
      BY <1>1, <3>1, LoadWithin
  <2>3. \A i \in 1 .. 0 : Load(c.buffer, 0, 0)[i] = After(r, n)[i]
    OBVIOUS
  <2>4. Load(c.buffer, 0, 0) = After(r, n)
    BY <1>7, <2>1, <2>2, <2>3, SameSequence
  <2> QED
    BY <1>4, <1>5, <2>1, <2>4 DEF d, e, r, n
<1> QED
  BY <1>8, <1>9

==============================================================================

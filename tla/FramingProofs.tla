---------------------------- MODULE FramingProofs -----------------------------
(***************************************************************************)
(* A connection over TCP or HTTP gives the handler the bodies of the       *)
(* client's requests, whole, unchanged, once and in order, however the     *)
(* stream is cut into pieces; it sends the responses in the same way, and  *)
(* closes only for a reason that the client gave.  Over HTTP the client    *)
(* must frame its requests: Framed.                                        *)
(*                                                                         *)
(* Told says what the server knows of a request over HTTP when it has read *)
(* some lines of its header, in any number of pieces; HeaderRead, when it  *)
(* has read them all: the length of the body, whether some handler takes   *)
(* the content, whether to close after it.                                 *)
(*                                                                         *)
(* FramingInv says what is still to come: the bytes of the connection's    *)
(* memory that count, those in the socket and those the client has yet to  *)
(* send, one after the other, are the client's stream from where the last  *)
(* request ended, and the header is what has been told of the next one.    *)
(* Receiving moves bytes from one part to the next, and parsing, executing *)
(* and initializing take bytes off its front.  ResponseInv says what has   *)
(* gone out: the responses to the requests executed, less what is still to *)
(* be written.  IdleInv says what a connection that waits in select has    *)
(* yet to get, CauseInv why one is closed.                                 *)
(***************************************************************************)
EXTENDS ServerConnectionProofs

\* The bodies of a scenario: not empty, at most 99 bytes, and each names its request.
LEMMA BodyOfRequest ==
    ASSUME sc \in Scenario, NEW r \in 1 .. Len(BodyLength)
    PROVE  /\ r \in Nat \ {0} /\ BodyLength[r] \in 1 .. 99
           /\ IsSequence(Body(r)) /\ Len(Body(r)) = BodyLength[r] /\ RequestOf(Body(r)) = r
<1>1. BodyLength \in Seq(1 .. 99)
  BY ScenarioAssumption DEF BodyLength
<1>2. Len(BodyLength) \in Nat /\ BodyLength[r] \in 1 .. 99
  BY <1>1, LenProperties, ElementOfSeq
<1>3. r \in Nat \ {0}
  BY <1>2
<1> DEFINE m == BodyLength[r]
           body == [i \in 1 .. m |-> 1000 * r + i]
<1>4. Body(r) = body
  BY DEF Body
<1> HIDE DEF m
<1>5. m \in 1 .. 99
  BY <1>2 DEF m
<1>6. body \in [1 .. m -> Nat]
  BY <1>3
<1>7. body \in Seq(Nat) /\ DOMAIN body = 1 .. m
  BY <1>5, <1>6, SeqDef
<1>8. Len(body) = m
  BY <1>5, <1>7, LenOfDomain
<1>9. body[1] = 1000 * r + 1
  BY <1>5
<1>10. (1000 * r + 1) \div 1000 = r
  BY <1>3
<1> HIDE DEF body
<1> QED
  BY <1>2, <1>3, <1>4, <1>7, <1>8, <1>9, <1>10 DEF IsSequence, RequestOf, m

\* The header of a request as the units of the stream.
HeaderUnits(r) == [i \in DOMAIN HeaderOf(r) |-> LineBase + HeaderOf(r)[i]]

\* Requests over HTTP whose header ends with its empty line and states the length of
\* the body in the first line that states one: what a client must do for the server
\* to know where its next request starts.
Framed ==
    Http => \A r \in 1 .. Len(BodyLength) :
        /\ LinesWith(r, "") = {Len(HeaderOf(r))}
        /\ \A i \in LinesWith(r, "content-length") :
              (\A j \in LinesWith(r, "content-length") : i <= j) => LineOf(r, i).value = BodyLength[r]

\* Each unit is a line.
LEMMA UnitsOfHeader ==
    ASSUME sc \in Scenario, Http, NEW r \in 1 .. Len(BodyLength)
    PROVE  /\ IsSequence(HeaderUnits(r)) /\ Len(HeaderUnits(r)) = Len(HeaderOf(r))
           /\ Len(HeaderOf(r)) \in Nat /\ DOMAIN HeaderOf(r) = 1 .. Len(HeaderOf(r))
           /\ \A i \in 1 .. Len(HeaderOf(r)) :
                 /\ HeaderUnits(r)[i] - LineBase = HeaderOf(r)[i]
                 /\ HeaderOf(r)[i] \in DOMAIN Line
<1>1. BodyLength \in Seq(1 .. 99) /\ sc.head \in [DOMAIN BodyLength -> Seq(DOMAIN Line)]
  BY ScenarioAssumption DEF Http, BodyLength
<1>2. r \in DOMAIN BodyLength
  BY <1>1
<1>3. HeaderOf(r) \in Seq(DOMAIN Line)
  BY <1>1, <1>2 DEF HeaderOf
<1> DEFINE lines == HeaderOf(r)
           units == HeaderUnits(r)
<1>4. Len(lines) \in Nat /\ DOMAIN lines = 1 .. Len(lines) /\ \A i \in 1 .. Len(lines) : lines[i] \in DOMAIN Line
  BY <1>3
<1>5. units = [i \in 1 .. Len(lines) |-> LineBase + lines[i]]
  BY <1>4 DEF HeaderUnits
<1> HIDE DEF lines, units
<1>6. \A i \in 1 .. Len(lines) : units[i] = LineBase + lines[i] /\ lines[i] \in Nat
  BY <1>4, <1>5, LineAssumption
<1>7. units \in Seq(Nat)
  BY <1>4, <1>5, <1>6, LineAssumption DEF LineBase
<1>8. Len(units) = Len(lines)
  <2>1. DOMAIN units = 1 .. Len(lines)
    BY <1>5
  <2> QED
    BY <1>4, <1>7, <2>1, LenOfDomain
<1>9. \A i \in 1 .. Len(lines) : units[i] - LineBase = lines[i]
  BY <1>6 DEF LineBase
<1> QED
  BY <1>4, <1>7, <1>8, <1>9 DEF IsSequence, lines, units

\* The header after the first n lines of a request.
HeaderAt(r, n) == ProcessHeaderData(InitialHeader("request"), First(HeaderUnits(r), n), FALSE)

\* One line more.
LEMMA HeaderNext ==
    ASSUME sc \in Scenario, Http, NEW r \in 1 .. Len(BodyLength)
    PROVE  /\ HeaderAt(r, 0) = InitialHeader("request")
           /\ \A j \in 0 .. Len(HeaderOf(r)) : IsHeader(HeaderAt(r, j)) /\ HeaderAt(r, j).role = "request"
           /\ \A j \in 1 .. Len(HeaderOf(r)) :
                 HeaderAt(r, j) = ProcessUnit(HeaderAt(r, j - 1), HeaderUnits(r), j)
<1> DEFINE L == Len(HeaderOf(r))
           units == HeaderUnits(r)
           start == InitialHeader("request")
<1>1. IsSequence(units) /\ Len(units) = L /\ L \in Nat
  BY UnitsOfHeader
<1>2. IsHeader(start) /\ start.role = "request" /\ start.startIndex = 0
  BY InitialIsHeader DEF InitialHeader
<1> HIDE DEF L, units, start
<1>3. PICK st : st[0] = start /\ \A i \in 1 .. L : st[i] = ProcessUnit(st[i - 1], units, i)
  <2>1. start.startIndex <= Len(units)
    BY <1>1, <1>2
  <2>2. PICK st : /\ st[start.startIndex] = start
                  /\ \A i \in start.startIndex + 1 .. Len(units) : st[i] = ProcessUnit(st[i - 1], units, i)
    <3>1. \E st : HeaderRun(start, units, st) /\ ProcessHeaderData(start, units, FALSE) = st[Len(units)]
      BY <1>1, <1>2, <2>1, HeaderLastState
    <3> QED
      BY <3>1 DEF HeaderRun
  <2>3. start.startIndex + 1 = 1
    BY <1>2
  <2> QED
    BY <1>1, <1>2, <2>2, <2>3
<1>4. ASSUME NEW j \in 0 .. L PROVE HeaderAt(r, j) = st[j] /\ IsHeader(HeaderAt(r, j)) /\ HeaderAt(r, j).role = "request"
  <2> DEFINE d == First(units, j)
  <2>1. IsSequence(d) /\ Len(d) = j /\ \A i \in 1 .. j : d[i] = units[i]
    BY <1>1, CutInTwo
  <2>2. HeaderAt(r, j) = ProcessHeaderData(start, d, FALSE)
    BY DEF HeaderAt, start, units
  <2> HIDE DEF d
  <2>3. \A i \in 1 .. j : st[i] = ProcessUnit(st[i - 1], d, i)
    <3> SUFFICES ASSUME NEW i \in 1 .. j PROVE st[i] = ProcessUnit(st[i - 1], d, i)
      OBVIOUS
    <3>1. i \in 1 .. L
      BY <1>1
    <3>2. d[i] = units[i] /\ st[i] = ProcessUnit(st[i - 1], units, i)
      BY <1>3, <2>1, <3>1
    <3>3. \A g : ProcessUnit(g, d, i) = ProcessUnit(g, units, i)
      BY <3>2, SameUnit
    <3> QED
      BY <3>2, <3>3
  <2>4. start.startIndex <= Len(d) /\ HeaderRun(start, d, st)
    <3>1. start.startIndex + 1 = 1 /\ 0 <= j
      BY <1>1, <1>2
    <3> QED
      BY <1>2, <1>3, <2>1, <2>3, <3>1 DEF HeaderRun
  <2>5. ProcessHeaderData(start, d, FALSE) = st[Len(d)]
    BY <1>2, <2>1, <2>4, HeaderFromStates
  <2>6. IsHeader(ProcessHeaderData(start, d, FALSE)) /\ ProcessHeaderData(start, d, FALSE).role = start.role
    BY <1>2, <2>1, HeaderEndsInData
  <2> QED
    BY <1>2, <2>1, <2>2, <2>5, <2>6
<1>5. HeaderAt(r, 0) = start
  <2>1. 0 \in 0 .. L
    BY <1>1
  <2> QED
    BY <1>3, <1>4, <2>1
<1>6. ASSUME NEW j \in 1 .. L PROVE HeaderAt(r, j) = ProcessUnit(HeaderAt(r, j - 1), units, j)
  <2>1. j \in 0 .. L /\ j - 1 \in 0 .. L
    BY <1>1
  <2> QED
    BY <1>3, <1>4, <2>1
<1> QED
  BY <1>4, <1>5, <1>6 DEF L, units, start

\* It is processed as a line while the header is incomplete.
LEMMA HeaderLineNext ==
    ASSUME sc \in Scenario, Http, NEW r \in 1 .. Len(BodyLength),
           NEW j \in 1 .. Len(HeaderOf(r)), NEW h, h = HeaderAt(r, j - 1)
    PROVE  /\ h.result # "INCOMPLETE" => HeaderAt(r, j) = h
           /\ h.result = "INCOMPLETE" /\ h.startIndex = j - 1 =>
                 HeaderAt(r, j) = [(IF j = 1 THEN ProcessFirstLine(h, LineOf(r, j))
                                    ELSE ProcessLine(h, LineOf(r, j))) EXCEPT !.startIndex = j]
<1> DEFINE units == HeaderUnits(r)
<1>1. HeaderAt(r, j) = ProcessUnit(h, units, j)
  BY HeaderNext
<1>2. units[j] - LineBase = HeaderOf(r)[j] /\ HeaderOf(r)[j] \in DOMAIN Line /\ j \in Nat
  BY UnitsOfHeader
<1> HIDE DEF units
<1>3. h.result # "INCOMPLETE" => HeaderAt(r, j) = h
  BY <1>1 DEF ProcessUnit
<1>4. ASSUME h.result = "INCOMPLETE", h.startIndex = j - 1
      PROVE  HeaderAt(r, j) = [(IF j = 1 THEN ProcessFirstLine(h, LineOf(r, j))
                                ELSE ProcessLine(h, LineOf(r, j))) EXCEPT !.startIndex = j]
  <2>1. IsLine(units[j])
    BY <1>2 DEF IsLine
  <2>2. LineAt(h, units, j) = LineOf(r, j)
    <3>1. j = h.startIndex + 1
      BY <1>2, <1>4
    <3>2. LineAt(h, units, j) = Line[units[j] - LineBase]
      BY <3>1 DEF LineAt
    <3> QED
      BY <1>2, <3>2 DEF LineOf
  <2>3. h.startIndex = 0 <=> j = 1
    BY <1>2, <1>4
  <2> QED
    BY <1>1, <1>4, <2>1, <2>2, <2>3 DEF ProcessUnit, StartIndex
<1> QED
  BY <1>3, <1>4

\* What the lines 2 .. j of a request have told, as it is in the header: the length,
\* the content type, whether to close, the host.
Says(r, i, key) == LineOf(r, i).key = key
Ends(r, i) == Says(r, i, "")

LengthTold(r, j, h) ==
    \/ /\ h.contentLength = -1
       /\ \A i \in 2 .. j : ~Says(r, i, "content-length")
    \/ /\ h.contentLength = BodyLength[r]
       /\ \E i \in 2 .. j :
             /\ Says(r, i, "content-length") /\ LineOf(r, i).value = BodyLength[r]
             /\ \A m \in 2 .. j : Says(r, m, "content-length") => m = i

TypeTold(r, j, h) ==
    /\ \A i, m \in 2 .. j : Says(r, i, "content-type") /\ Says(r, m, "content-type") /\ i < m
                               => LineOf(r, i).value = ""
    /\ h.contentType = "" => \A i \in 2 .. j : Says(r, i, "content-type") => LineOf(r, i).value = ""
    /\ h.contentType # "" => \E i \in 2 .. j : Says(r, i, "content-type") /\ LineOf(r, i).value = h.contentType

SaysClose(r, i) == Says(r, i, "connection") /\ LineOf(r, i).value \in {"close", "keep-alive"}

CloseTold(r, j, h) ==
    h.keepAlive = ~\/ LineOf(r, 1).version = "1.0" /\ \A i \in 2 .. j : ~SaysClose(r, i)
                   \/ \E i \in 2 .. j : /\ SaysClose(r, i) /\ LineOf(r, i).value = "close"
                                        /\ \A m \in 2 .. j : SaysClose(r, m) => m <= i

HostTold(r, j, h) == h.host = \E i \in 2 .. j : Says(r, i, "host")

KeysKnown(r, j) == \A i \in 2 .. j : LineOf(r, i).key \in FieldKeys

FirstTold(r, h) ==
    /\ LineOf(r, 1).key = "request" /\ LineOf(r, 1).version # "none"
    /\ h.role = "request" /\ h.word = LineOf(r, 1).value /\ h.version = LineOf(r, 1).version

\* All of it, but for where and with what result the header is read.
Told(r, j, h) ==
    /\ FirstTold(r, h) /\ KeysKnown(r, j)
    /\ LengthTold(r, j, h) /\ TypeTold(r, j, h) /\ CloseTold(r, j, h) /\ HostTold(r, j, h)

\* A line that does not concern them leaves them as told.
LEMMA ToldKept ==
    ASSUME NEW r, NEW j \in Nat \ {0}, NEW h, NEW g
    PROVE  /\ LengthTold(r, j, h) /\ g.contentLength = h.contentLength
                 /\ ~Says(r, j + 1, "content-length") => LengthTold(r, j + 1, g)
           /\ TypeTold(r, j, h) /\ g.contentType = h.contentType
                 /\ ~Says(r, j + 1, "content-type") => TypeTold(r, j + 1, g)
           /\ CloseTold(r, j, h) /\ g.keepAlive = h.keepAlive
                 /\ ~SaysClose(r, j + 1) => CloseTold(r, j + 1, g)
           /\ HostTold(r, j, h) /\ g.host = h.host
                 /\ ~Says(r, j + 1, "host") => HostTold(r, j + 1, g)
           /\ KeysKnown(r, j) /\ LineOf(r, j + 1).key \in FieldKeys => KeysKnown(r, j + 1)
<1>1. \A i \in 2 .. j + 1 : i \in 2 .. j \/ i = j + 1
  OBVIOUS
<1>2. \A i \in 2 .. j : i \in 2 .. j + 1
  OBVIOUS
<1>3. ASSUME LengthTold(r, j, h), g.contentLength = h.contentLength, ~Says(r, j + 1, "content-length")
      PROVE  LengthTold(r, j + 1, g)
  BY <1>1, <1>2, <1>3, Zenon DEF LengthTold
<1>4. ASSUME TypeTold(r, j, h), g.contentType = h.contentType, ~Says(r, j + 1, "content-type")
      PROVE  TypeTold(r, j + 1, g)
  BY <1>1, <1>2, <1>4, Zenon DEF TypeTold
<1>5. ASSUME CloseTold(r, j, h), g.keepAlive = h.keepAlive, ~SaysClose(r, j + 1)
      PROVE  CloseTold(r, j + 1, g)
  BY <1>1, <1>2, <1>5, Zenon DEF CloseTold
<1>6. ASSUME HostTold(r, j, h), g.host = h.host, ~Says(r, j + 1, "host")
      PROVE  HostTold(r, j + 1, g)
  BY <1>1, <1>2, <1>6, Zenon DEF HostTold
<1>7. ASSUME KeysKnown(r, j), LineOf(r, j + 1).key \in FieldKeys PROVE KeysKnown(r, j + 1)
  BY <1>1, <1>7, Zenon DEF KeysKnown
<1> QED
  BY <1>3, <1>4, <1>5, <1>6, <1>7, Zenon

\* The header after j lines, of a request that the server can read so far.
ReadSoFar(r, j, h) ==
    /\ h.startIndex = j /\ j <= Len(HeaderOf(r))
    /\ IF j = 0 THEN h = InitialHeader("request") ELSE Told(r, j, h)
    /\ IF j < Len(HeaderOf(r)) THEN h.result = "INCOMPLETE"
       ELSE /\ h.result = "COMPLETE"
            /\ h.version = "1.1" => h.host
            /\ h.word = "POST" => h.contentLength # -1

Refused(r, h) == h.result = "FAULT" /\ ~WellFormed(r)

\* What Framed says of one request, by line.
LEMMA FramedLines ==
    ASSUME sc \in Scenario, Http, Framed, NEW r \in 1 .. Len(BodyLength)
    PROVE  /\ Len(HeaderOf(r)) \in Nat \ {0} /\ BodyLength[r] \in Nat \ {0}
           /\ \A i \in 1 .. Len(HeaderOf(r)) : Ends(r, i) <=> i = Len(HeaderOf(r))
           /\ \A i \in 1 .. Len(HeaderOf(r)) :
                 /\ Says(r, i, "content-length")
                 /\ \A m \in 1 .. Len(HeaderOf(r)) : Says(r, m, "content-length") => i <= m
                 => LineOf(r, i).value = BodyLength[r]
           /\ \A key : LinesWith(r, key) = {i \in 1 .. Len(HeaderOf(r)) : Says(r, i, key)}
<1>1. Len(HeaderOf(r)) \in Nat /\ DOMAIN HeaderOf(r) = 1 .. Len(HeaderOf(r))
  BY UnitsOfHeader
<1>2. \A key : LinesWith(r, key) = {i \in 1 .. Len(HeaderOf(r)) : Says(r, i, key)}
  BY <1>1 DEF LinesWith, Says
<1>3. LinesWith(r, "") = {Len(HeaderOf(r))}
  BY DEF Framed
<1>4. \A i \in LinesWith(r, "content-length") :
         (\A m \in LinesWith(r, "content-length") : i <= m) => LineOf(r, i).value = BodyLength[r]
  BY DEF Framed
<1>5. BodyLength[r] \in Nat \ {0}
  <2>1. \A m \in 1 .. 99 : m \in Nat \ {0}
    OBVIOUS
  <2> QED
    BY <2>1, BodyOfRequest, Zenon
<1>6. Len(HeaderOf(r)) \in 1 .. Len(HeaderOf(r)) /\ \A i \in 1 .. Len(HeaderOf(r)) : Ends(r, i) <=> i = Len(HeaderOf(r))
  <2>1. {i \in 1 .. Len(HeaderOf(r)) : Ends(r, i)} = {Len(HeaderOf(r))}
    BY <1>2, <1>3, Zenon DEF Ends
  <2> QED
    BY <2>1
<1>7. Len(HeaderOf(r)) # 0
  <2> SUFFICES ASSUME Len(HeaderOf(r)) = 0 PROVE FALSE
    OBVIOUS
  <2>1. 0 \in 1 .. 0
    BY <1>6
  <2> QED
    BY <2>1
<1>8. ASSUME NEW i \in 1 .. Len(HeaderOf(r)), Says(r, i, "content-length"),
             \A m \in 1 .. Len(HeaderOf(r)) : Says(r, m, "content-length") => i <= m
      PROVE  LineOf(r, i).value = BodyLength[r]
  BY <1>2, <1>4, <1>8
<1> QED
  BY <1>1, <1>2, <1>5, <1>6, <1>7, <1>8

\* The members of an HttpHeader.
HeaderFields == {"role", "startIndex", "version", "contentType", "contentLength", "keepAlive",
                 "result", "word", "host"}

\* Those of each header.
LEMMA FieldsOfHeader == ASSUME NEW h, IsHeader(h) PROVE DOMAIN h = HeaderFields
BY DEF IsHeader, InitialHeader, HeaderFields

\* The first line.
LEMMA FirstLineTells ==
    ASSUME sc \in Scenario, Http, Framed, NEW r \in 1 .. Len(BodyLength), NEW g, g = HeaderAt(r, 1)
    PROVE  Refused(r, g) \/ ReadSoFar(r, 1, g)
<1> DEFINE L == Len(HeaderOf(r))
           h == InitialHeader("request")
           line == LineOf(r, 1)
<1>1. L \in Nat \ {0} /\ (Ends(r, 1) <=> 1 = L)
  <2>1. L \in Nat \ {0} /\ \A i \in 1 .. L : Ends(r, i) <=> i = L
    BY FramedLines
  <2>2. 1 \in 1 .. L
    BY <2>1
  <2> QED
    BY <2>1, <2>2
<1> HIDE DEF L
<1>2. g = [ProcessFirstLine(h, line) EXCEPT !.startIndex = 1]
  <2>1. 1 \in 1 .. L /\ 1 - 1 = 0
    BY <1>1
  <2>2. h = HeaderAt(r, 1 - 1)
    BY <2>1, HeaderNext
  <2>3. h.result = "INCOMPLETE" /\ h.startIndex = 1 - 1
    BY DEF InitialHeader
  <2> QED
    BY <2>1, <2>2, <2>3, HeaderLineNext DEF L
<1>3. CASE line.key # "request" \/ line.version = "none"
  <2>1. g.result = "FAULT"
    BY <1>2, <1>3 DEF ProcessFirstLine, Fault, InitialHeader
  <2>2. ~WellFormed(r)
    BY <1>3 DEF WellFormed
  <2> QED
    BY <2>1, <2>2 DEF Refused
<1>4. CASE line.key = "request" /\ line.version # "none"
  <2>1. /\ g.result = "INCOMPLETE" /\ g.startIndex = 1 /\ g.word = line.value /\ g.version = line.version
        /\ g.role = "request" /\ g.contentLength = -1 /\ g.contentType = "" /\ g.host = FALSE
        /\ g.keepAlive = (line.version # "1.0")
    BY <1>2, <1>4 DEF ProcessFirstLine, InitialHeader
  <2>2. 1 < L
    <3>1. ~Ends(r, 1)
      BY <1>4 DEF Ends, Says
    <3> QED
      BY <1>1, <3>1
  <2>3. \A i : i \notin 2 .. 1
    OBVIOUS
  <2>4. FirstTold(r, g) /\ KeysKnown(r, 1) /\ LengthTold(r, 1, g) /\ HostTold(r, 1, g)
    BY <1>4, <2>1, <2>3 DEF FirstTold, KeysKnown, LengthTold, HostTold
  <2>5. TypeTold(r, 1, g)
    BY <2>1, <2>3 DEF TypeTold
  <2>6. CloseTold(r, 1, g)
    BY <2>1, <2>3, Zenon DEF CloseTold
  <2>7. Told(r, 1, g)
    BY <2>4, <2>5, <2>6 DEF Told
  <2> QED
    <3>1. g.startIndex = 1 /\ g.result = "INCOMPLETE"
      BY <2>1
    <3> QED
      BY <1>1, <2>2, <2>7, <3>1 DEF ReadSoFar, L
<1> QED
  BY <1>3, <1>4

\* Each further line.
LEMMA NextLineTells ==
    ASSUME sc \in Scenario, Http, Framed, NEW r \in 1 .. Len(BodyLength),
           NEW j \in Nat \ {0}, j < Len(HeaderOf(r)), NEW h, h = HeaderAt(r, j), ReadSoFar(r, j, h),
           NEW g, g = HeaderAt(r, j + 1)
    PROVE  Refused(r, g) \/ ReadSoFar(r, j + 1, g)
<1> DEFINE L == Len(HeaderOf(r))
           line == LineOf(r, j + 1)
<1>1. L \in Nat /\ BodyLength[r] \in Nat \ {0} /\ j \in 1 .. L /\ j + 1 \in 1 .. L
  BY FramedLines
<1>2. \A i \in 1 .. L : Ends(r, i) <=> i = L
  BY FramedLines
<1>3. \A key : LinesWith(r, key) = {i \in 1 .. L : Says(r, i, key)}
  BY FramedLines
<1>4. h.startIndex = j /\ h.result = "INCOMPLETE" /\ Told(r, j, h)
  BY DEF ReadSoFar
<1>5. DOMAIN h = HeaderFields /\ h.role = "request"
  <2>1. j \in 0 .. L
    BY <1>1
  <2> QED
    BY <2>1, HeaderNext, FieldsOfHeader
<1>6. g = [ProcessLine(h, line) EXCEPT !.startIndex = j + 1]
  <2>1. (j + 1) - 1 = j /\ j + 1 # 1
    OBVIOUS
  <2>2. h = HeaderAt(r, (j + 1) - 1) /\ h.startIndex = (j + 1) - 1
    BY <1>4, <2>1
  <2> QED
    BY <1>1, <1>4, <2>1, <2>2, HeaderLineNext
<1>7. /\ FirstTold(r, h) /\ KeysKnown(r, j)
      /\ LengthTold(r, j, h) /\ TypeTold(r, j, h) /\ CloseTold(r, j, h) /\ HostTold(r, j, h)
  BY <1>4 DEF Told
<1>8. \A i \in 1 .. j : i \in 2 .. j \/ i = 1
  OBVIOUS
<1>9. \A key : Says(r, 1, key) => key = "request"
  BY <1>7 DEF FirstTold, Says
<1> HIDE DEF L, line
<1>10. CASE line.key = ""
  <2>1. j + 1 = L
    <3>1. Ends(r, j + 1)
      BY <1>10 DEF line, Ends, Says
    <3> QED
      BY <1>1, <1>2, <3>1
  <2>2. \A key : key # "" /\ key # "request" => LinesWith(r, key) = {i \in 2 .. j : Says(r, i, key)}
    <3>1. \A i \in 1 .. L : i = L \/ i = 1 \/ i \in 2 .. j
      BY <1>1, <2>1
    <3>2. \A i \in 2 .. j : i \in 1 .. L
      BY <1>1, <2>1
    <3>3. \A key : Says(r, L, key) => key = ""
      BY <1>10, <2>1 DEF line, Says
    <3> QED
      BY <1>3, <1>9, <3>1, <3>2, <3>3
  <2>3. g = [Verify(h) EXCEPT !.startIndex = j + 1]
    BY <1>6, <1>10 DEF ProcessLine
  <2> DEFINE noHost == h.version = "1.1" /\ ~h.host
             noLength == h.contentLength < 0 /\ h.word = "POST"
  <2>5. CASE noHost
    <3>1. g.result = "FAULT"
      BY <1>5, <2>3, <2>5 DEF Verify, Fault, HeaderFields
    <3>2. LinesWith(r, "host") = {}
      BY <1>7, <2>2, <2>5 DEF HostTold
    <3>3. LineOf(r, 1).version = "1.1"
      BY <1>7, <2>5 DEF FirstTold
    <3>4. ~WellFormed(r)
      BY <3>2, <3>3 DEF WellFormed
    <3> QED
      BY <3>1, <3>4 DEF Refused
  <2>6. CASE noLength
    <3>1. g.result = "FAULT"
      BY <1>5, <2>3, <2>6 DEF Verify, Fault, HeaderFields
    <3>2. LinesWith(r, "content-length") = {}
      <4>1. "content-length" # "" /\ "content-length" # "request"
        OBVIOUS
      <4>2. LinesWith(r, "content-length") = {i \in 2 .. j : Says(r, i, "content-length")}
        BY <2>2, <4>1, Zenon
      <4> QED
        BY <1>1, <1>7, <2>6, <4>2 DEF LengthTold
    <3>3. ~WellFormed(r)
      BY <3>2 DEF WellFormed
    <3> QED
      BY <3>1, <3>3 DEF Refused
  <2>7. CASE ~noHost /\ ~noLength
    <3>1. g = [[h EXCEPT !.result = "COMPLETE"] EXCEPT !.startIndex = j + 1]
      BY <1>5, <2>3, <2>7 DEF Verify
    <3>2. /\ g.result = "COMPLETE" /\ g.startIndex = j + 1 /\ g.word = h.word /\ g.version = h.version
          /\ g.role = h.role /\ g.contentLength = h.contentLength /\ g.contentType = h.contentType
          /\ g.host = h.host /\ g.keepAlive = h.keepAlive
      BY <1>5, <3>1 DEF HeaderFields
    <3>3. \A key : Says(r, j + 1, key) => key = ""
      BY <1>10 DEF line, Says
    <3>4. /\ ~Says(r, j + 1, "content-length") /\ ~Says(r, j + 1, "content-type")
          /\ ~Says(r, j + 1, "host") /\ ~Says(r, j + 1, "connection")
      BY <3>3
    <3>5. ~SaysClose(r, j + 1) /\ LineOf(r, j + 1).key \in FieldKeys
      BY <1>10, <3>4 DEF SaysClose, line, FieldKeys
    <3>6. Told(r, j + 1, g)
      BY <1>7, <3>2, <3>4, <3>5, ToldKept DEF Told, FirstTold
    <3>7. (g.version = "1.1" => g.host) /\ (g.word = "POST" => g.contentLength # -1)
      BY <2>7, <3>2
    <3> QED
      BY <2>1, <3>2, <3>6, <3>7 DEF ReadSoFar, L
  <2> QED
    BY <2>5, <2>6, <2>7
<1>11. ASSUME line.key # "", g.result = "INCOMPLETE", Told(r, j + 1, g) PROVE ReadSoFar(r, j + 1, g)
  <2>0. g.result = "INCOMPLETE" /\ Told(r, j + 1, g)
    BY <1>11
  <2>1. j + 1 < L
    <3>1. ~Ends(r, j + 1)
      BY <1>11 DEF line, Ends, Says
    <3> QED
      BY <1>1, <1>2, <3>1
  <2>2. g.startIndex = j + 1
    <3>1. "startIndex" \in DOMAIN ProcessLine(h, line)
      BY <1>5 DEF ProcessLine, Verify, Fault, HeaderFields
    <3> QED
      BY <1>6, <3>1
  <2> QED
    BY <1>1, <2>0, <2>1, <2>2 DEF ReadSoFar, L
<1>12. CASE line.key = "content-length"
  <2>1. Says(r, j + 1, "content-length") /\ line.key # ""
    BY <1>12 DEF line, Says
  <2>2. CASE h.contentLength # -1
    <3>1. PICK i \in 2 .. j : Says(r, i, "content-length")
      BY <1>7, <2>2 DEF LengthTold
    <3>2. i \in LinesWith(r, "content-length") /\ j + 1 \in LinesWith(r, "content-length") /\ i # j + 1
      <4>1. Says(r, j + 1, "content-length")
        BY <2>1, Zenon
      <4> QED
        BY <1>1, <1>3, <3>1, <4>1
    <3>3. ~WellFormed(r)
      <4> SUFFICES ASSUME WellFormed(r) PROVE FALSE
        OBVIOUS
      <4>1. PICK m : LinesWith(r, "content-length") = {m}
        BY DEF WellFormed
      <4> QED
        BY <3>2, <4>1
    <3>4. g.result = "FAULT"
      BY <1>5, <1>6, <1>12, <2>2 DEF ProcessLine, Fault, HeaderFields
    <3> QED
      BY <3>3, <3>4 DEF Refused
  <2>3. CASE h.contentLength = -1
    <3>1. \A i \in 2 .. j : ~Says(r, i, "content-length")
      BY <1>1, <1>7, <2>3 DEF LengthTold
    <3>2. line.value = BodyLength[r]
      <4>1. \A m \in 1 .. L : Says(r, m, "content-length") => j + 1 <= m
        <5> SUFFICES ASSUME NEW m \in 1 .. L, Says(r, m, "content-length"), ~(j + 1 <= m) PROVE FALSE
          OBVIOUS
        <5>1. m \in 2 .. j \/ m = 1
          BY <1>1
        <5>2. ~Says(r, 1, "content-length")
          BY <1>9
        <5> QED
          BY <3>1, <5>1, <5>2
      <4> QED
        BY <1>1, <2>1, <4>1, FramedLines DEF L, line
    <3>3. g = [[h EXCEPT !.contentLength = BodyLength[r]] EXCEPT !.startIndex = j + 1]
      <4>1. ~(line.value < 0)
        BY <1>1, <3>2
      <4>2. ProcessLine(h, line) = [h EXCEPT !.contentLength = line.value]
        BY <1>12, <2>3, <4>1, Zenon DEF ProcessLine
      <4> QED
        BY <1>6, <3>2, <4>2
    <3>4. /\ g.result = h.result /\ g.word = h.word /\ g.version = h.version
          /\ g.role = h.role /\ g.contentLength = BodyLength[r] /\ g.contentType = h.contentType
          /\ g.host = h.host /\ g.keepAlive = h.keepAlive
      BY <1>5, <3>3 DEF HeaderFields
    <3>5. LengthTold(r, j + 1, g)
      <4>1. j + 1 \in 2 .. j + 1 /\ LineOf(r, j + 1).value = BodyLength[r]
        BY <3>2 DEF line
      <4>2. \A m \in 2 .. j + 1 : Says(r, m, "content-length") => m = j + 1
        <5>1. \A m \in 2 .. j + 1 : m \in 2 .. j \/ m = j + 1
          OBVIOUS
        <5> QED
          BY <3>1, <5>1
      <4> QED
        BY <2>1, <3>4, <4>1, <4>2, Zenon DEF LengthTold
    <3>6. /\ ~Says(r, j + 1, "content-type") /\ ~Says(r, j + 1, "host") /\ ~SaysClose(r, j + 1)
          /\ LineOf(r, j + 1).key \in FieldKeys
      BY <1>12 DEF line, Says, SaysClose, FieldKeys
    <3>7. FirstTold(r, g)
      BY <1>7, <3>4 DEF FirstTold
    <3>8. TypeTold(r, j + 1, g) /\ CloseTold(r, j + 1, g) /\ HostTold(r, j + 1, g) /\ KeysKnown(r, j + 1)
      BY <1>7, <3>4, <3>6, ToldKept
    <3>9. Told(r, j + 1, g) /\ g.result = "INCOMPLETE"
      BY <1>4, <3>4, <3>5, <3>7, <3>8 DEF Told
    <3> QED
      BY <1>11, <2>1, <3>9
  <2> QED
    BY <2>2, <2>3
<1>13. CASE line.key = "content-type"
  <2>1. Says(r, j + 1, "content-type") /\ line.key # ""
    BY <1>13 DEF line, Says
  <2>2. CASE h.contentType # ""
    <3>1. PICK i \in 2 .. j : Says(r, i, "content-type") /\ LineOf(r, i).value # ""
      BY <1>7, <2>2, Zenon DEF TypeTold
    <3>2. i \in LinesWith(r, "content-type") /\ j + 1 \in LinesWith(r, "content-type") /\ i < j + 1
      <4>1. Says(r, i, "content-type")
        BY <3>1, Zenon
      <4> QED
        <5>1. Says(r, j + 1, "content-type")
          BY <2>1, Zenon
        <5> QED
          BY <1>1, <1>3, <4>1, <5>1
    <3>3. ~WellFormed(r)
      BY <3>1, <3>2, Zenon DEF WellFormed
    <3>4. g.result = "FAULT"
      BY <1>5, <1>6, <1>13, <2>2 DEF ProcessLine, Fault, HeaderFields
    <3> QED
      BY <3>3, <3>4 DEF Refused
  <2>3. CASE h.contentType = ""
    <3>1. \A i \in 2 .. j : Says(r, i, "content-type") => LineOf(r, i).value = ""
      BY <1>7, <2>3, Zenon DEF TypeTold
    <3>3. g = [[h EXCEPT !.contentType = line.value] EXCEPT !.startIndex = j + 1]
      BY <1>6, <1>13, <2>3 DEF ProcessLine
    <3>4. /\ g.result = h.result /\ g.word = h.word /\ g.version = h.version
          /\ g.role = h.role /\ g.contentLength = h.contentLength /\ g.contentType = line.value
          /\ g.host = h.host /\ g.keepAlive = h.keepAlive
      BY <1>5, <3>3 DEF HeaderFields
    <3>5. TypeTold(r, j + 1, g)
      <4>1. j + 1 \in 2 .. j + 1 /\ LineOf(r, j + 1).value = g.contentType
        BY <3>4 DEF line
      <4>2. \A m \in 2 .. j + 1 : m \in 2 .. j \/ m = j + 1
        OBVIOUS
      <4>3. \A i, m \in 2 .. j + 1 : i < m => i \in 2 .. j
        OBVIOUS
      <4>4. \A i, m \in 2 .. j + 1 : Says(r, i, "content-type") /\ Says(r, m, "content-type") /\ i < m
                                        => LineOf(r, i).value = ""
        BY <3>1, <4>3, Zenon
      <4>5. g.contentType = "" => \A i \in 2 .. j + 1 : Says(r, i, "content-type") => LineOf(r, i).value = ""
        BY <3>1, <4>1, <4>2, Zenon
      <4>6. \E i \in 2 .. j + 1 : Says(r, i, "content-type") /\ LineOf(r, i).value = g.contentType
        BY <2>1, <4>1, Zenon
      <4> QED
        BY <4>4, <4>5, <4>6, Zenon DEF TypeTold
    <3>6. /\ ~Says(r, j + 1, "content-length") /\ ~Says(r, j + 1, "host") /\ ~SaysClose(r, j + 1)
          /\ LineOf(r, j + 1).key \in FieldKeys
      BY <1>13 DEF line, Says, SaysClose, FieldKeys
    <3>7. FirstTold(r, g)
      BY <1>7, <3>4 DEF FirstTold
    <3>8. LengthTold(r, j + 1, g) /\ CloseTold(r, j + 1, g) /\ HostTold(r, j + 1, g) /\ KeysKnown(r, j + 1)
      BY <1>7, <3>4, <3>6, ToldKept
    <3>9. Told(r, j + 1, g) /\ g.result = "INCOMPLETE"
      BY <1>4, <3>4, <3>5, <3>7, <3>8 DEF Told
    <3> QED
      BY <1>11, <2>1, <3>9, Zenon
  <2> QED
    BY <2>2, <2>3, Zenon
<1>14. CASE line.key = "connection"
  <2>1. Says(r, j + 1, "connection") /\ line.key # ""
    BY <1>14 DEF line, Says
  <2>3. g = [[h EXCEPT !.keepAlive = line.value = "keep-alive" \/ (@ /\ line.value # "close")]
               EXCEPT !.startIndex = j + 1]
    BY <1>6, <1>14 DEF ProcessLine
  <2>4. /\ g.result = h.result /\ g.word = h.word /\ g.version = h.version
        /\ g.role = h.role /\ g.contentLength = h.contentLength /\ g.contentType = h.contentType
        /\ g.host = h.host
        /\ g.keepAlive = (line.value = "keep-alive" \/ (h.keepAlive /\ line.value # "close"))
    BY <1>5, <2>3 DEF HeaderFields
  <2>5. CloseTold(r, j + 1, g)
    <3>0. \A m \in 2 .. j + 1 : m \in 2 .. j \/ m = j + 1
      OBVIOUS
    <3>1. CASE line.value = "keep-alive"
      <4>1. SaysClose(r, j + 1) /\ LineOf(r, j + 1).value # "close"
        BY <2>1, <3>1 DEF SaysClose, line
      <4>2. j + 1 \in 2 .. j + 1 /\ \A m \in 2 .. j + 1 : ~(j + 1 <= m) \/ m = j + 1
        OBVIOUS
      <4>3. g.keepAlive = TRUE
        BY <2>4, <3>1
      <4> QED
        BY <4>1, <4>2, <4>3, Zenon DEF CloseTold
    <3>2. CASE line.value = "close"
      <4>1. SaysClose(r, j + 1) /\ LineOf(r, j + 1).value = "close"
        BY <2>1, <3>2 DEF SaysClose, line
      <4>2. j + 1 \in 2 .. j + 1 /\ \A m \in 2 .. j + 1 : m <= j + 1
        OBVIOUS
      <4>3. g.keepAlive = FALSE
        BY <2>4, <3>2
      <4> QED
        BY <4>1, <4>2, <4>3, Zenon DEF CloseTold
    <3>3. CASE line.value # "close" /\ line.value # "keep-alive"
      <4>1. ~SaysClose(r, j + 1)
        BY <3>3 DEF SaysClose, line
      <4>2. g.keepAlive = h.keepAlive
        <5>1. h.keepAlive \in BOOLEAN
          BY <1>7 DEF CloseTold
        <5> QED
          BY <2>4, <3>3, <5>1
      <4> QED
        BY <1>7, <4>1, <4>2, ToldKept
    <3> QED
      BY <3>1, <3>2, <3>3
  <2>6. /\ ~Says(r, j + 1, "content-length") /\ ~Says(r, j + 1, "host") /\ ~Says(r, j + 1, "content-type")
        /\ LineOf(r, j + 1).key \in FieldKeys
    BY <1>14 DEF line, Says, FieldKeys
  <2>7. FirstTold(r, g)
    BY <1>7, <2>4 DEF FirstTold
  <2>8. LengthTold(r, j + 1, g) /\ TypeTold(r, j + 1, g) /\ HostTold(r, j + 1, g) /\ KeysKnown(r, j + 1)
    BY <1>7, <2>4, <2>6, ToldKept
  <2>9. Told(r, j + 1, g) /\ g.result = "INCOMPLETE"
    BY <1>4, <2>4, <2>5, <2>7, <2>8 DEF Told
  <2> QED
    BY <1>11, <2>1, <2>9
<1>15. CASE line.key = "host"
  <2>1. Says(r, j + 1, "host") /\ line.key # ""
    BY <1>15 DEF line, Says
  <2>3. g = [[h EXCEPT !.host = TRUE] EXCEPT !.startIndex = j + 1]
    BY <1>5, <1>6, <1>15 DEF ProcessLine
  <2>4. /\ g.result = h.result /\ g.word = h.word /\ g.version = h.version
        /\ g.role = h.role /\ g.contentLength = h.contentLength /\ g.contentType = h.contentType
        /\ g.host = TRUE /\ g.keepAlive = h.keepAlive
    BY <1>5, <2>3 DEF HeaderFields
  <2>5. HostTold(r, j + 1, g)
    <3>1. j + 1 \in 2 .. j + 1
      OBVIOUS
    <3> QED
      BY <2>1, <2>4, <3>1, Zenon DEF HostTold
  <2>6. /\ ~Says(r, j + 1, "content-length") /\ ~SaysClose(r, j + 1) /\ ~Says(r, j + 1, "content-type")
        /\ LineOf(r, j + 1).key \in FieldKeys
    BY <1>15 DEF line, Says, SaysClose, FieldKeys
  <2>7. FirstTold(r, g)
    BY <1>7, <2>4 DEF FirstTold
  <2>8. LengthTold(r, j + 1, g) /\ TypeTold(r, j + 1, g) /\ CloseTold(r, j + 1, g) /\ KeysKnown(r, j + 1)
    BY <1>7, <2>4, <2>6, ToldKept
  <2>9. Told(r, j + 1, g) /\ g.result = "INCOMPLETE"
    BY <1>4, <2>4, <2>5, <2>7, <2>8 DEF Told
  <2> QED
    BY <1>11, <2>1, <2>9
<1>16. CASE line.key = "other"
  <2>1. line.key # ""
    BY <1>16
  <2>3. g = [h EXCEPT !.startIndex = j + 1]
    BY <1>6, <1>16 DEF ProcessLine
  <2>4. /\ g.result = h.result /\ g.word = h.word /\ g.version = h.version
        /\ g.role = h.role /\ g.contentLength = h.contentLength /\ g.contentType = h.contentType
        /\ g.host = h.host /\ g.keepAlive = h.keepAlive
    BY <1>5, <2>3 DEF HeaderFields
  <2>6. /\ ~Says(r, j + 1, "content-length") /\ ~SaysClose(r, j + 1) /\ ~Says(r, j + 1, "content-type")
        /\ ~Says(r, j + 1, "host") /\ LineOf(r, j + 1).key \in FieldKeys
    BY <1>16 DEF line, Says, SaysClose, FieldKeys
  <2>7. FirstTold(r, g)
    BY <1>7, <2>4 DEF FirstTold
  <2>8. /\ LengthTold(r, j + 1, g) /\ TypeTold(r, j + 1, g) /\ CloseTold(r, j + 1, g)
        /\ HostTold(r, j + 1, g) /\ KeysKnown(r, j + 1)
    BY <1>7, <2>4, <2>6, ToldKept
  <2>9. Told(r, j + 1, g) /\ g.result = "INCOMPLETE"
    BY <1>4, <2>4, <2>7, <2>8 DEF Told
  <2> QED
    BY <1>11, <2>1, <2>9
<1>17. CASE line.key \notin FieldKeys
  <2>1. g.result = "FAULT"
    BY <1>5, <1>6, <1>17 DEF ProcessLine, Fault, HeaderFields, FieldKeys
  <2>2. j + 1 \in 2 .. L
    BY <1>1
  <2>3. ~WellFormed(r)
    BY <1>17, <2>2, Zenon DEF WellFormed, line, L
  <2> QED
    BY <2>1, <2>3 DEF Refused
<1> QED
  BY <1>10, <1>12, <1>13, <1>14, <1>15, <1>16, <1>17, Zenon DEF FieldKeys

\* However many lines are read: they tell what they say, or the request is refused.
LEMMA HeaderTells ==
    ASSUME sc \in Scenario, Http, Framed, NEW r \in 1 .. Len(BodyLength), NEW j \in 0 .. Len(HeaderOf(r))
    PROVE  Refused(r, HeaderAt(r, j)) \/ ReadSoFar(r, j, HeaderAt(r, j))
<1> DEFINE L == Len(HeaderOf(r))
           Good == {i \in Nat : i <= L => Refused(r, HeaderAt(r, i)) \/ ReadSoFar(r, i, HeaderAt(r, i))}
<1>1. L \in Nat \ {0}
  BY FramedLines
<1>2. 0 \in Good
  <2>1. HeaderAt(r, 0) = InitialHeader("request")
    BY HeaderNext
  <2>2. InitialHeader("request").startIndex = 0 /\ InitialHeader("request").result = "INCOMPLETE"
    BY DEF InitialHeader
  <2>3. ReadSoFar(r, 0, HeaderAt(r, 0))
    BY <1>1, <2>1, <2>2 DEF ReadSoFar
  <2> QED
    BY <2>3
<1>3. ASSUME NEW i \in Nat, i \in Good PROVE i + 1 \in Good
  <2> SUFFICES ASSUME i + 1 <= L
               PROVE  Refused(r, HeaderAt(r, i + 1)) \/ ReadSoFar(r, i + 1, HeaderAt(r, i + 1))
    OBVIOUS
  <2>1. PICK h : h = HeaderAt(r, i)
    OBVIOUS
  <2>2. PICK g : g = HeaderAt(r, i + 1)
    OBVIOUS
  <2>3. i + 1 \in 1 .. L /\ (i + 1) - 1 = i /\ i < L
    BY <1>1
  <2>4. Refused(r, h) \/ ReadSoFar(r, i, h)
    BY <1>3, <2>1, <2>3
  <2> HIDE DEF Good, L
  <2>5. CASE Refused(r, h)
    <3>1. h = HeaderAt(r, (i + 1) - 1) /\ h.result # "INCOMPLETE"
      BY <2>1, <2>3, <2>5 DEF Refused
    <3>2. HeaderAt(r, i + 1) = h
      BY <2>3, <3>1, HeaderLineNext DEF L
    <3> QED
      BY <2>5, <3>2
  <2>6. CASE ReadSoFar(r, i, h) /\ i = 0
    <3>1. HeaderAt(r, i + 1) = HeaderAt(r, 1)
      BY <2>6
    <3>2. Refused(r, g) \/ ReadSoFar(r, 1, g)
      BY <2>2, <3>1, FirstLineTells
    <3> QED
      BY <2>2, <2>6, <3>2
  <2>7. CASE ReadSoFar(r, i, h) /\ i # 0
    <3>1. i \in Nat \ {0} /\ i < Len(HeaderOf(r)) /\ ReadSoFar(r, i, h)
      BY <2>3, <2>7 DEF L
    <3>2. Refused(r, g) \/ ReadSoFar(r, i + 1, g)
      BY <2>1, <2>2, <3>1, NextLineTells
    <3> QED
      BY <2>2, <3>2
  <2> QED
    BY <2>4, <2>5, <2>6, <2>7
<1>4. j \in Nat /\ j <= L
  BY <1>1
<1> HIDE DEF Good
<1>5. j \in Good
  BY <1>2, <1>3, <1>4, NatSetInduction
<1> QED
  BY <1>4, <1>5 DEF Good

\* The data are the first m lines of a request, or start with all of them.
StartsWith(r, data, m) ==
    /\ m = Len(data) \/ (m = Len(HeaderOf(r)) /\ m <= Len(data))
    /\ \A i \in 1 .. m : data[i] = HeaderUnits(r)[i]

\* The data of a buffer that starts with the lines of a request, or with some of them:
\* whatever was read before, the header is what all the lines that are there tell.
LEMMA HeaderOfData ==
    ASSUME sc \in Scenario, Http, Framed, NEW r \in 1 .. Len(BodyLength),
           NEW h, h = HeaderAt(r, h.startIndex), h.startIndex \in 0 .. Len(HeaderOf(r)),
           NEW data, IsSequence(data), h.startIndex <= Len(data),
           NEW m \in 0 .. Len(HeaderOf(r)), StartsWith(r, data, m)
    PROVE  ProcessHeaderData(h, data, FALSE) = HeaderAt(r, m)
<1> DEFINE L == Len(HeaderOf(r))
           a == h.startIndex
           n == Len(data)
           st == [i \in 0 .. n |-> HeaderAt(r, IF i <= m THEN i ELSE m)]
<1>1. L \in Nat \ {0} /\ a \in Nat /\ n \in Nat /\ m \in Nat
  BY FramedLines, SubSequence
<1>13. m = n \/ (m = L /\ m <= n)
  BY DEF StartsWith
<1>2. a <= m /\ m <= n /\ m <= L
  BY <1>1, <1>13
<1>3. IsHeader(h)
  BY HeaderNext
<1>4. m < n => HeaderAt(r, m).result # "INCOMPLETE"
  <2> SUFFICES ASSUME m < n PROVE HeaderAt(r, m).result # "INCOMPLETE"
    OBVIOUS
  <2>1. m = Len(HeaderOf(r)) /\ ~(m < Len(HeaderOf(r)))
    BY <1>1, <1>13
  <2>2. Refused(r, HeaderAt(r, m)) \/ ReadSoFar(r, m, HeaderAt(r, m))
    BY HeaderTells
  <2> QED
    BY <2>1, <2>2 DEF Refused, ReadSoFar
<1>5. \A i \in 1 .. L : HeaderAt(r, i) = ProcessUnit(HeaderAt(r, i - 1), HeaderUnits(r), i)
  BY HeaderNext
<1>6. h = HeaderAt(r, a)
  OBVIOUS
<1> HIDE DEF L, a, n
<1>7. \A i \in 0 .. n : st[i] = HeaderAt(r, IF i <= m THEN i ELSE m)
  OBVIOUS
<1> HIDE DEF st
<1>8. st[a] = h
  <2>1. a \in 0 .. n /\ (IF a <= m THEN a ELSE m) = a
    BY <1>1, <1>2
  <2> QED
    BY <1>6, <1>7, <2>1
<1>9. ASSUME NEW i \in a + 1 .. n PROVE st[i] = ProcessUnit(st[i - 1], data, i)
  <2>1. i \in 0 .. n /\ i - 1 \in 0 .. n
    BY <1>1
  <2>2. CASE i <= m
    <3>1. (IF i <= m THEN i ELSE m) = i /\ (IF i - 1 <= m THEN i - 1 ELSE m) = i - 1 /\ i \in 1 .. L /\ i \in 1 .. m
      BY <1>1, <1>2, <2>2
    <3>2. st[i] = HeaderAt(r, i) /\ st[i - 1] = HeaderAt(r, i - 1)
      BY <1>7, <2>1, <3>1
    <3>3. data[i] = HeaderUnits(r)[i]
      BY <3>1 DEF StartsWith
    <3>4. ProcessUnit(st[i - 1], data, i) = ProcessUnit(st[i - 1], HeaderUnits(r), i)
      BY <3>3, SameUnit
    <3> QED
      BY <1>5, <3>1, <3>2, <3>4
  <2>3. CASE ~(i <= m)
    <3>1. (IF i <= m THEN i ELSE m) = m /\ (IF i - 1 <= m THEN i - 1 ELSE m) = m /\ m < n
      BY <1>1, <1>2, <2>3
    <3>2. st[i] = HeaderAt(r, m) /\ st[i - 1] = HeaderAt(r, m)
      BY <1>7, <2>1, <3>1
    <3>3. ProcessUnit(st[i - 1], data, i) = st[i - 1]
      BY <1>4, <3>1, <3>2 DEF ProcessUnit
    <3> QED
      BY <3>2, <3>3
  <2> QED
    BY <2>2, <2>3
<1>10. HeaderRun(h, data, st)
  BY <1>8, <1>9 DEF HeaderRun, a, n
<1>11. ProcessHeaderData(h, data, FALSE) = st[n]
  BY <1>3, <1>10, HeaderFromStates DEF n
<1>12. st[n] = HeaderAt(r, m)
  <2>1. n \in 0 .. n /\ (IF n <= m THEN n ELSE m) = m
    BY <1>1, <1>2
  <2> QED
    BY <1>7, <2>1
<1> QED
  BY <1>11, <1>12

\* What the server knows of a request whose header it has read, and why it refuses one.
HeaderRead(r, h) ==
    /\ h.startIndex = Len(HeaderOf(r)) /\ h.result = "COMPLETE" /\ WellFormed(r)
    /\ h.contentLength = BodyLength[r] /\ h.word = Method(r)
    /\ h.contentType \in HandlerTypes <=> Handleable(r)
    /\ h.keepAlive = ~CloseAfter(r)

\* The whole header.
LEMMA WholeHeader ==
    ASSUME sc \in Scenario, Http, Framed, NEW r \in 1 .. Len(BodyLength),
           NEW h, h = HeaderAt(r, Len(HeaderOf(r)))
    PROVE  \/ h.result = "FAULT" /\ ~WellFormed(r)
           \/ h.result = "COMPLETE" /\ h.contentLength = -1 /\ ~WellFormed(r)
           \/ HeaderRead(r, h)
<1> DEFINE L == Len(HeaderOf(r))
<1>1. L \in Nat \ {0} /\ BodyLength[r] \in Nat \ {0}
  BY FramedLines
<1>2. \A key : LinesWith(r, key) = {i \in 1 .. L : Says(r, i, key)}
  BY FramedLines
<1>3. L \in 0 .. L /\ ~(L < L) /\ L # 0
  BY <1>1
<1>4. Refused(r, h) \/ ReadSoFar(r, L, h)
  BY <1>3, HeaderTells
<1>5. CASE Refused(r, h)
  BY <1>5 DEF Refused
<1>6. CASE ReadSoFar(r, L, h)
  <2>1. h.startIndex = L /\ Told(r, L, h) /\ h.result = "COMPLETE" /\ (h.version = "1.1" => h.host)
    BY <1>3, <1>6 DEF ReadSoFar
  <2>2. /\ FirstTold(r, h) /\ KeysKnown(r, L)
        /\ LengthTold(r, L, h) /\ TypeTold(r, L, h) /\ CloseTold(r, L, h) /\ HostTold(r, L, h)
    BY <2>1 DEF Told
  <2> HIDE DEF L
  <2>3. \A key : key # "request" => LinesWith(r, key) = {i \in 2 .. L : Says(r, i, key)}
    <3>1. \A i \in 1 .. L : i = 1 \/ i \in 2 .. L
      BY <1>1
    <3>2. \A i \in 2 .. L : i \in 1 .. L
      BY <1>1
    <3>3. \A key : Says(r, 1, key) => key = "request"
      BY <2>2 DEF FirstTold, Says
    <3> QED
      BY <1>2, <3>1, <3>2, <3>3
  <2>4. LinesWith(r, "content-length") = {i \in 2 .. L : Says(r, i, "content-length")}
    BY <2>3
  <2>5. CASE h.contentLength = -1
    <3>1. LinesWith(r, "content-length") = {}
      BY <1>1, <2>2, <2>4, <2>5 DEF LengthTold
    <3>2. ~WellFormed(r)
      BY <3>1 DEF WellFormed
    <3> QED
      BY <2>1, <2>5, <3>2
  <2>6. CASE h.contentLength # -1
    <3>1. PICK l \in 2 .. L : /\ Says(r, l, "content-length") /\ LineOf(r, l).value = BodyLength[r]
                              /\ \A m \in 2 .. L : Says(r, m, "content-length") => m = l
      BY <2>2, <2>6 DEF LengthTold
    <3>2. LinesWith(r, "content-length") = {l}
      BY <2>4, <3>1
    <3>3. h.contentLength = BodyLength[r]
      BY <2>2, <2>6 DEF LengthTold
    <3>4. LinesWith(r, "host") = {i \in 2 .. L : Says(r, i, "host")}
      BY <2>3
    <3>5. LineOf(r, 1).version = "1.1" => LinesWith(r, "host") # {}
      <4> SUFFICES ASSUME LineOf(r, 1).version = "1.1" PROVE LinesWith(r, "host") # {}
        OBVIOUS
      <4>1. \E i \in 2 .. L : Says(r, i, "host")
        BY <2>1, <2>2 DEF HostTold, FirstTold
      <4> QED
        BY <3>4, <4>1
    <3> DEFINE types == LinesWith(r, "content-type")
    <3>6. types = {i \in 2 .. L : Says(r, i, "content-type")}
      BY <2>3
    <3> HIDE DEF types
    <3>7. \A i, m \in types : i < m => LineOf(r, i).value = ""
      BY <2>2, <3>6, Zenon DEF TypeTold
    <3>8. WellFormed(r)
      <4>1. /\ LineOf(r, 1).key = "request" /\ LineOf(r, 1).version # "none"
            /\ \A i \in 2 .. L : LineOf(r, i).key \in FieldKeys
        BY <2>2 DEF FirstTold, KeysKnown
      <4>2. \E i \in LinesWith(r, "content-length") :
               LinesWith(r, "content-length") = {i} /\ LineOf(r, i).value = BodyLength[r]
        BY <3>1, <3>2
      <4> QED
        BY <3>5, <3>7, <4>1, <4>2, Zenon DEF WellFormed, types, L
    <3>9. h.contentType \in HandlerTypes <=> Handleable(r)
      <4>1. CASE h.contentType = ""
        <5>1. \A i \in types : LineOf(r, i).value = ""
          BY <2>2, <3>6, <4>1, Zenon DEF TypeTold
        <5>2. "" \in HandlerTypes => Handleable(r)
          <6>1. CASE types = {}
            BY <6>1, Zenon DEF Handleable, types
          <6>2. ASSUME "" \in HandlerTypes, NEW i \in types PROVE Handleable(r)
            <7>1. /\ LineOf(r, i).value \in HandlerTypes
                  /\ \A j \in types : LineOf(r, j).value \in {"", LineOf(r, i).value}
              BY <5>1, <6>2
            <7> QED
              BY <7>1, Zenon DEF Handleable, types
          <6> QED
            BY <6>1, <6>2
        <5>3. Handleable(r) => "" \in HandlerTypes
          <6>1. \A i \in types : LineOf(r, i).value \in HandlerTypes => "" \in HandlerTypes
            BY <5>1
          <6> QED
            BY <6>1, Zenon DEF Handleable, types
        <5> QED
          BY <4>1, <5>2, <5>3, Zenon
      <4>2. CASE h.contentType # ""
        <5>1. PICK i \in types : LineOf(r, i).value = h.contentType
          BY <2>2, <3>6, <4>2, Zenon DEF TypeTold
        <5>2. ASSUME NEW m \in types, LineOf(r, m).value # "" PROVE m = i
          <6>1. ~(m < i)
            BY <3>7, <5>2, Zenon
          <6>2. ~(i < m)
            BY <3>7, <4>2, <5>1, Zenon
          <6>3. m \in 2 .. L /\ i \in 2 .. L
            BY <3>6
          <6> QED
            BY <1>1, <6>1, <6>2, <6>3
        <5>3. h.contentType \in HandlerTypes => Handleable(r)
          <6> SUFFICES ASSUME h.contentType \in HandlerTypes PROVE Handleable(r)
            OBVIOUS
          <6>1. \A m \in types : LineOf(r, m).value \in {"", LineOf(r, i).value}
            BY <5>2
          <6> QED
            BY <5>1, <6>1, Zenon DEF Handleable, types
        <5>4. Handleable(r) => h.contentType \in HandlerTypes
          <6> SUFFICES ASSUME Handleable(r) PROVE h.contentType \in HandlerTypes
            OBVIOUS
          <6>1. PICK m \in types : /\ LineOf(r, m).value \in HandlerTypes
                                   /\ \A j \in types : LineOf(r, j).value \in {"", LineOf(r, m).value}
            <7>1. types # {}
              BY <5>1
            <7> QED
              BY <7>1, Zenon DEF Handleable, types
          <6>2. h.contentType \in {"", LineOf(r, m).value}
            BY <5>1, <6>1, Zenon
          <6> QED
            BY <4>2, <6>1, <6>2
        <5> QED
          BY <5>3, <5>4
      <4> QED
        BY <4>1, <4>2, Zenon
    <3>10. h.keepAlive = ~CloseAfter(r)
      <4>1. LinesWith(r, "connection") = {i \in 2 .. L : Says(r, i, "connection")}
        BY <2>3
      <4>2. CloseLines(r) = {i \in 2 .. L : SaysClose(r, i)}
        BY <4>1 DEF CloseLines, SaysClose
      <4> DEFINE asks == \/ LineOf(r, 1).version = "1.0" /\ \A i \in 2 .. L : ~SaysClose(r, i)
                         \/ \E i \in 2 .. L : /\ SaysClose(r, i) /\ LineOf(r, i).value = "close"
                                              /\ \A m \in 2 .. L : SaysClose(r, m) => m <= i
      <4>3. CloseLines(r) = {} <=> \A i \in 2 .. L : ~SaysClose(r, i)
        BY <4>2
      <4>4. (\E i \in CloseLines(r) : LineOf(r, i).value = "close" /\ \A j \in CloseLines(r) : j <= i)
               <=> \E i \in 2 .. L : /\ SaysClose(r, i) /\ LineOf(r, i).value = "close"
                                     /\ \A m \in 2 .. L : SaysClose(r, m) => m <= i
        BY <4>2, Zenon
      <4>5. CloseAfter(r) <=> asks
        BY <4>3, <4>4, Zenon DEF CloseAfter
      <4>6. h.keepAlive = ~asks
        BY <2>2 DEF CloseTold
      <4> HIDE DEF asks
      <4>7. CloseAfter(r) \in BOOLEAN
        BY DEF CloseAfter
      <4> QED
        BY <4>5, <4>6, <4>7, Zenon
    <3>11. h.word = Method(r)
      <4>1. Method(r) = LineOf(r, 1).value
        BY DEF Method, LineOf
      <4> QED
        BY <2>2, <4>1 DEF FirstTold
    <3> QED
      BY <2>1, <3>3, <3>8, <3>9, <3>10, <3>11, Zenon DEF HeaderRead, L
  <2> QED
    BY <2>5, <2>6
<1> QED
  BY <1>4, <1>5, <1>6

------------------------------------------------------------------------------
\* A message over TCP: the length and a colon, the body, a comma.
LEMMA FrameOverTcp ==
    ASSUME sc \in Scenario, ~Http, NEW r \in 1 .. Len(BodyLength)
    PROVE  /\ IsSequence(Frame(r))
           /\ Frame(r) = Join(Join(Join(Decimal(BodyLength[r]), Single(Colon)), Body(r)), Single(Comma))
<1>1. Frame(r) = Join(Join(Join(Decimal(BodyLength[r]), Single(Colon)), Body(r)), Single(Comma))
  BY DEF Frame, Join, Single
<1>2. IsSequence(Decimal(BodyLength[r])) /\ IsSequence(Body(r))
  BY BodyOfRequest, DecimalDigits
<1>3. IsSequence(Single(Colon)) /\ IsSequence(Single(Comma))
  BY SingleElement
<1>4. IsSequence(Join(Decimal(BodyLength[r]), Single(Colon)))
  BY <1>2, <1>3, JoinElements
<1>5. IsSequence(Join(Join(Decimal(BodyLength[r]), Single(Colon)), Body(r)))
  BY <1>2, <1>4, JoinElements
<1>6. IsSequence(Join(Join(Join(Decimal(BodyLength[r]), Single(Colon)), Body(r)), Single(Comma)))
  BY <1>3, <1>5, JoinElements
<1> QED
  BY <1>1, <1>6

\* What of the stream comes after the first r messages, for each r.
Remainders(rest) ==
    /\ rest[0] = Stream /\ rest[Len(BodyLength)] = <<>>
    /\ \A r \in 0 .. Len(BodyLength) : IsSequence(rest[r])
    /\ \A r \in 0 .. Len(BodyLength) - 1 : rest[r] = Join(Frame(r + 1), rest[r + 1])
Rest == CHOOSE rest : Remainders(rest)

\* The stream can be taken apart like that.
LEMMA RestOfStream == ASSUME sc \in Scenario PROVE Remainders(Rest) /\ Len(BodyLength) \in Nat
<1>1. PICK frames : /\ Stream = FlattenSeq(frames) /\ \E T : frames \in Seq(T)
                    /\ Len(frames) = Len(BodyLength)
                    /\ \A r \in 1 .. Len(frames) : frames[r] = Frame(r) /\ IsSequence(frames[r])
  BY FramesOfStream
<1>2. PICK T : frames \in Seq(T)
  BY <1>1
<1>3. PICK rest : /\ rest[0] = FlattenSeq(frames) /\ rest[Len(frames)] = <<>>
                  /\ \A i \in 0 .. Len(frames) : IsSequence(rest[i])
                  /\ \A i \in 0 .. Len(frames) - 1 : rest[i] = Join(frames[i + 1], rest[i + 1])
  BY <1>1, <1>2, FlatSuffixes
<1>4. Len(frames) \in Nat
  BY <1>2, LenProperties
<1>5. \A r \in 0 .. Len(frames) - 1 : frames[r + 1] = Frame(r + 1)
  BY <1>1, <1>4
<1>6. Remainders(rest)
  BY <1>1, <1>3, <1>5 DEF Remainders
<1> HIDE DEF Remainders
<1>7. Remainders(Rest)
  BY <1>6 DEF Rest
<1> QED
  BY <1>1, <1>4, <1>7

\* What the message before leaves for ReadHeader to skip: commaExpected_.
Lead == IF comma THEN Single(Comma) ELSE <<>>

\* One comma or nothing.
LEMMA LeadElements ==
    ASSUME comma \in BOOLEAN
    PROVE  /\ IsSequence(Lead) /\ Len(Lead) \in {0, 1} /\ Len(Lead) + 1 = HeaderStart
           /\ \A i \in 1 .. Len(Lead) : Lead[i] = Comma
<1>1. CASE comma
  <2>1. Lead = Single(Comma) /\ HeaderStart = 2
    BY <1>1 DEF Lead, HeaderStart
  <2>2. IsSequence(Lead) /\ Len(Lead) = 1 /\ Lead[1] = Comma
    BY <2>1, SingleElement
  <2>3. \A i \in 1 .. 1 : i = 1
    OBVIOUS
  <2> QED
    BY <2>1, <2>2, <2>3
<1>2. CASE ~comma
  <2>1. Lead = <<>> /\ HeaderStart = 1
    BY <1>2 DEF Lead, HeaderStart
  <2>2. IsSequence(Lead) /\ Len(Lead) = 0
    BY <2>1, EmptyIsSequence
  <2>3. \A i \in 1 .. 0 : Lead[i] = Comma
    OBVIOUS
  <2> QED
    BY <2>1, <2>2, <2>3
<1> QED
  BY <1>1, <1>2

\* The header of the next message: comma, length and colon.
Preamble(r) == Preface(Lead, BodyLength[r])

\* Its characters.
LEMMA FrontElements ==
    ASSUME sc \in Scenario, comma \in BOOLEAN, NEW r \in 1 .. Len(BodyLength)
    PROVE  /\ IsSequence(Lead) /\ Len(Lead) + 1 = HeaderStart /\ HeaderStart \in {1, 2}
           /\ IsSequence(Preamble(r))
           /\ Len(Preamble(r)) = Len(Lead) + Len(Decimal(BodyLength[r])) + 1
           /\ Preamble(r)[Len(Preamble(r))] = Colon
           /\ \A i \in 1 .. Len(Preamble(r)) - 1 : Preamble(r)[i] # Colon
           /\ \A i \in 1 .. Len(Decimal(BodyLength[r])) :
                 Preamble(r)[Len(Lead) + i] = Decimal(BodyLength[r])[i]
<1>1. IsLead(Lead) /\ IsSequence(Lead) /\ Len(Lead) + 1 = HeaderStart /\ Len(Lead) \in {0, 1}
  BY LeadElements DEF IsLead
<1>2. HeaderStart \in {1, 2}
  BY DEF HeaderStart
<1>3. PICK m \in 1 .. 99 : m = BodyLength[r]
  BY BodyOfRequest
<1>4. /\ IsSequence(Preface(Lead, m))
      /\ Len(Preface(Lead, m)) = Len(Lead) + Len(Decimal(m)) + 1
      /\ Preface(Lead, m)[Len(Preface(Lead, m))] = Colon
      /\ \A i \in 1 .. Len(Preface(Lead, m)) - 1 : Preface(Lead, m)[i] # Colon
      /\ \A i \in 1 .. Len(Decimal(m)) : Preface(Lead, m)[Len(Lead) + i] = Decimal(m)[i]
  BY <1>1, PrefaceElements
<1>5. Preamble(r) = Preface(Lead, m)
  BY <1>3 DEF Preamble
<1> QED
  BY <1>1, <1>2, <1>3, <1>4, <1>5

\* A message that follows is its header, its body and what comes after it.
LEMMA NextFrame ==
    ASSUME sc \in Scenario, ~Http, comma \in BOOLEAN, NEW r \in 1 .. Len(BodyLength)
    PROVE  Join(Lead, Rest[r - 1]) = Join(Preamble(r), Join(Body(r), Join(Single(Comma), Rest[r])))
<1> DEFINE D == Decimal(BodyLength[r])
           C == Single(Colon)
           B == Body(r)
           M == Single(Comma)
           R == Rest[r]
           L == Lead
<1>1. IsSequence(D) /\ IsSequence(B) /\ IsSequence(C) /\ IsSequence(M) /\ IsSequence(L)
  BY BodyOfRequest, DecimalDigits, SingleElement, FrontElements
<1>2. IsSequence(R) /\ Rest[r - 1] = Join(Frame(r), R)
  <2>1. Remainders(Rest) /\ Len(BodyLength) \in Nat
    BY RestOfStream
  <2>2. r \in 0 .. Len(BodyLength) /\ r - 1 \in 0 .. Len(BodyLength) - 1 /\ (r - 1) + 1 = r
    BY <2>1
  <2>3. \A i \in 0 .. Len(BodyLength) - 1 : Rest[i] = Join(Frame(i + 1), Rest[i + 1])
    BY <2>1 DEF Remainders
  <2>4. Rest[r - 1] = Join(Frame((r - 1) + 1), Rest[(r - 1) + 1])
    BY <2>2, <2>3
  <2> QED
    BY <2>1, <2>2, <2>4 DEF Remainders
<1>3. Frame(r) = Join(Join(Join(D, C), B), M)
  BY FrameOverTcp
<1>4. Preamble(r) = Join(Join(L, D), C)
  BY DEF Preamble, Preface
<1> HIDE DEF D, C, B, M, R, L
<1>5. /\ IsSequence(Join(D, C)) /\ IsSequence(Join(M, R)) /\ IsSequence(Join(L, D))
  BY <1>1, <1>2, JoinElements
<1>6. IsSequence(Join(Join(D, C), B)) /\ IsSequence(Join(B, Join(M, R))) /\ IsSequence(Join(Join(L, D), C))
  BY <1>1, <1>5, JoinElements
<1>7. Join(Join(Join(Join(D, C), B), M), R) = Join(Join(Join(D, C), B), Join(M, R))
  BY <1>1, <1>2, <1>6, JoinAssociative
<1>8. Join(Join(Join(D, C), B), Join(M, R)) = Join(Join(D, C), Join(B, Join(M, R)))
  BY <1>1, <1>5, JoinAssociative
<1>9. Join(L, Join(Join(D, C), Join(B, Join(M, R)))) = Join(Join(L, Join(D, C)), Join(B, Join(M, R)))
  BY <1>1, <1>5, <1>6, JoinAssociative
<1>10. Join(L, Join(D, C)) = Join(Join(L, D), C)
  BY <1>1, JoinAssociative
<1>11. Join(L, Rest[r - 1]) = Join(Preamble(r), Join(B, Join(M, R)))
  BY <1>2, <1>3, <1>4, <1>7, <1>8, <1>9, <1>10
<1> QED
  BY <1>11 DEF B, M, R, L

\* With a colon in the data, it is that of the next message: the digits before it
\* are the length of its body, and the body is behind it.
LEMMA HeaderParsed ==
    ASSUME sc \in Scenario, ~Http, comma \in BOOLEAN, NEW n \in 0 .. Len(BodyLength),
           NEW data, IsSequence(data), NEW tail, IsSequence(tail),
           Join(data, tail) = Join(Lead, Rest[n]), ColonAt(data) # 0
    PROVE  LET colon == ColonAt(data) IN
           /\ n + 1 \in 1 .. Len(BodyLength) /\ colon \in 1 .. Len(data)
           /\ Atoi(SubSeq(data, HeaderStart, colon)) = BodyLength[n + 1]
           /\ Join(After(data, colon), tail)
                 = Join(Body(n + 1), Join(Single(Comma), Rest[n + 1]))
<1> DEFINE colon == ColonAt(data)
           whole == Join(data, tail)
<1>1. /\ colon \in 1 .. Len(data) /\ data[colon] = Colon
      /\ \A i \in 1 .. colon - 1 : data[i] # Colon
  BY FirstColon
<1> HIDE DEF colon
<1>2. Len(data) \in Nat /\ Len(tail) \in Nat /\ Len(whole) = Len(data) + Len(tail)
  BY JoinElements
<1>3. \A i \in 1 .. Len(data) : whole[i] = data[i]
  BY JoinFront
<1>4. whole = Join(Lead, Rest[n])
  OBVIOUS
<1> HIDE DEF whole
<1>5. Remainders(Rest) /\ Len(BodyLength) \in Nat
  BY RestOfStream
<1>6. n + 1 \in 1 .. Len(BodyLength)
  <2> SUFFICES ASSUME n = Len(BodyLength) PROVE FALSE
    BY <1>5
  <2>1. Rest[n] = <<>>
    BY <1>5 DEF Remainders
  <2>2. IsSequence(Lead) /\ \A i \in 1 .. Len(Lead) : Lead[i] = Comma
    BY LeadElements
  <2>3. whole = Lead
    BY <1>4, <2>1, <2>2, JoinEmpty
  <2>4. colon \in 1 .. Len(Lead)
    BY <1>1, <1>2, <2>3
  <2>5. data[colon] = Comma
    BY <1>1, <1>3, <2>2, <2>3, <2>4
  <2> QED
    BY <1>1, <2>5 DEF Colon, Comma
<1> DEFINE r == n + 1
           m == BodyLength[r]
           z == Join(Body(r), Join(Single(Comma), Rest[r]))
<1>7. IsLead(Lead) /\ Len(Lead) + 1 = HeaderStart /\ m \in 1 .. 99
  BY <1>6, LeadElements, BodyOfRequest DEF IsLead
<1>8. Join(data, tail) = Join(Preface(Lead, m), z)
  <2>1. r - 1 = n
    OBVIOUS
  <2>2. Join(Lead, Rest[r - 1]) = Join(Preamble(r), z)
    BY <1>6, NextFrame
  <2> QED
    BY <2>1, <2>2 DEF Preamble
<1>9. IsSequence(z)
  <2>1. IsSequence(Body(r)) /\ IsSequence(Single(Comma)) /\ IsSequence(Rest[r])
    <3>1. r \in 0 .. Len(BodyLength)
      BY <1>6
    <3> QED
      BY <1>5, <1>6, <3>1, BodyOfRequest, SingleElement DEF Remainders
  <2>2. IsSequence(Join(Single(Comma), Rest[r]))
    BY <2>1, JoinElements
  <2> QED
    BY <2>1, <2>2, JoinElements
<1> HIDE DEF r, m, z
<1>10. /\ colon \in 1 .. Len(data)
       /\ Atoi(SubSeq(data, Len(Lead) + 1, colon)) = m
       /\ Join(After(data, colon), tail) = z
  <2>1. StartsNetstring(data, tail, Lead, m, z)
    BY <1>7, <1>8, <1>9 DEF StartsNetstring
  <2>2. ReadsPreface(data, tail, Lead, m, z)
    BY <2>1, PrefaceParsed
  <2> QED
    BY <2>2 DEF ReadsPreface, colon
<1>11. Atoi(SubSeq(data, HeaderStart, colon)) = m
  BY <1>7, <1>10
<1> QED
  BY <1>1, <1>6, <1>10, <1>11 DEF colon, r, m, z

\* A message over HTTP: the header, the body.
LEMMA FrameOverHttp ==
    ASSUME sc \in Scenario, Http, NEW r \in 1 .. Len(BodyLength)
    PROVE  IsSequence(Frame(r)) /\ Frame(r) = Join(HeaderUnits(r), Body(r))
<1>1. Frame(r) = Join(HeaderUnits(r), Body(r))
  BY DEF Frame, Join, HeaderUnits
<1>2. IsSequence(HeaderUnits(r)) /\ IsSequence(Body(r))
  BY BodyOfRequest, UnitsOfHeader
<1>3. IsSequence(Join(HeaderUnits(r), Body(r)))
  BY <1>2, JoinElements
<1> QED
  BY <1>1, <1>3

\* Each message is a sequence, and the remainder before it is the message and the
\* remainder after it.
LEMMA RestOfMessage ==
    ASSUME sc \in Scenario, NEW r \in 1 .. Len(BodyLength)
    PROVE  IsSequence(Frame(r)) /\ IsSequence(Rest[r]) /\ Rest[r - 1] = Join(Frame(r), Rest[r])
<1>1. Remainders(Rest) /\ Len(BodyLength) \in Nat
  BY RestOfStream
<1>2. r \in 0 .. Len(BodyLength) /\ r - 1 \in 0 .. Len(BodyLength) - 1 /\ (r - 1) + 1 = r
  BY <1>1
<1>3. \A i \in 0 .. Len(BodyLength) - 1 : Rest[i] = Join(Frame(i + 1), Rest[i + 1])
  BY <1>1 DEF Remainders
<1>4. Rest[r - 1] = Join(Frame((r - 1) + 1), Rest[(r - 1) + 1])
  BY <1>2, <1>3
<1>5. IsSequence(Rest[r])
  BY <1>1, <1>2 DEF Remainders
<1> QED
  BY <1>2, <1>4, <1>5, FrameOverHttp, FrameOverTcp

\* The header h, of which some lines have been read, becomes g as the data are read.
ReadOn(r, h, data, g) ==
    /\ h = HeaderAt(r, h.startIndex) /\ h.startIndex \in 0 .. Len(HeaderOf(r)) - 1
    /\ h.startIndex <= Len(data) /\ g = ProcessHeaderData(h, data, FALSE)

\* Reading the data that is there, with the header read so far: what is still missing
\* stays to be read, or the server refuses the request, or it knows what it says and
\* the body is behind it.
LEMMA HttpParsed ==
    ASSUME sc \in Scenario, Http, Framed, NEW r \in 1 .. Len(BodyLength),
           NEW data, IsSequence(data), NEW tail, IsSequence(tail), Join(data, tail) = Rest[r - 1],
           NEW h, NEW g, ReadOn(r, h, data, g)
    PROVE  \/ /\ g.result = "INCOMPLETE" /\ g.startIndex = Len(data)
              /\ Len(data) < Len(HeaderOf(r)) /\ g = HeaderAt(r, Len(data))
           \/ ~WellFormed(r) /\ g.result = "FAULT"
           \/ ~WellFormed(r) /\ g.result = "COMPLETE" /\ g.contentLength = -1
           \/ /\ HeaderRead(r, g) /\ Len(HeaderOf(r)) <= Len(data)
              /\ Join(After(data, Len(HeaderOf(r))), tail) = Join(Body(r), Rest[r])
<1> DEFINE H == HeaderUnits(r)
           L == Len(HeaderOf(r))
           B == Body(r)
           R == Rest[r]
           n == Len(data)
<1>1. L \in Nat \ {0} /\ IsSequence(H) /\ Len(H) = L /\ IsSequence(B) /\ IsSequence(R) /\ n \in Nat
  BY FramedLines, UnitsOfHeader, BodyOfRequest, RestOfMessage, JoinElements
<1>2. Join(data, tail) = Join(H, Join(B, R))
  <2>1. Frame(r) = Join(H, B) /\ Rest[r - 1] = Join(Frame(r), R)
    BY FrameOverHttp, RestOfMessage
  <2> HIDE DEF H, B, R
  <2>2. Join(Join(H, B), R) = Join(H, Join(B, R))
    BY <1>1, JoinAssociative
  <2> QED
    BY <2>1, <2>2
<1>3. /\ h = HeaderAt(r, h.startIndex) /\ h.startIndex \in 0 .. L
      /\ h.startIndex <= Len(data) /\ g = ProcessHeaderData(h, data, FALSE)
  BY <1>1 DEF ReadOn
<1> HIDE DEF H, B, R
<1>4. IsSequence(Join(B, R))
  BY <1>1, JoinElements
<1>5. ASSUME NEW i \in 1 .. L, i <= n PROVE data[i] = H[i]
  <2>1. i \in 1 .. Len(data) /\ i \in 1 .. Len(H)
    BY <1>1, <1>5
  <2>2. Join(data, tail)[i] = data[i]
    BY <2>1, JoinFront
  <2>3. Join(H, Join(B, R))[i] = H[i]
    BY <1>1, <1>4, <2>1, JoinFront
  <2> QED
    BY <1>2, <2>2, <2>3
<1>6. CASE n < L
  <2>1. n \in 0 .. L /\ n = Len(data) /\ \A i \in 1 .. n : i \in 1 .. L /\ i <= n
    BY <1>1, <1>6
  <2>2. \A i \in 1 .. n : data[i] = HeaderUnits(r)[i]
    BY <1>5, <2>1 DEF H
  <2>3. ProcessHeaderData(h, data, FALSE) = HeaderAt(r, n)
    <3>1. PICK m : m = n
      OBVIOUS
    <3>2. m \in 0 .. Len(HeaderOf(r)) /\ StartsWith(r, data, m)
      BY <2>1, <2>2, <3>1 DEF StartsWith
    <3>3. ProcessHeaderData(h, data, FALSE) = HeaderAt(r, m)
      BY <1>3, <3>2, HeaderOfData
    <3> QED
      BY <3>1, <3>3
  <2>4. Refused(r, HeaderAt(r, n)) \/ ReadSoFar(r, n, HeaderAt(r, n))
    BY <2>1, HeaderTells
  <2>5. CASE Refused(r, HeaderAt(r, n))
    BY <1>3, <2>3, <2>5 DEF Refused
  <2>6. CASE ReadSoFar(r, n, HeaderAt(r, n))
    BY <1>3, <1>6, <2>3, <2>6 DEF ReadSoFar
  <2> QED
    BY <2>4, <2>5, <2>6
<1>7. CASE ~(n < L)
  <2>1. L \in 0 .. L /\ L <= Len(data) /\ \A i \in 1 .. L : i \in 1 .. L /\ i <= n
    BY <1>1, <1>7
  <2>2. \A i \in 1 .. L : data[i] = HeaderUnits(r)[i]
    BY <1>5, <2>1 DEF H
  <2>3. ProcessHeaderData(h, data, FALSE) = HeaderAt(r, L)
    <3>1. StartsWith(r, data, L)
      BY <2>1, <2>2 DEF StartsWith
    <3> QED
      BY <1>3, <2>1, <3>1, HeaderOfData
  <2>4. Join(After(data, L), tail) = Join(B, R)
    <3>1. Join(After(data, Len(H)), tail) = Join(B, R)
      <4>1. Len(H) <= Len(data)
        BY <1>1, <2>1
      <4> QED
        BY <1>1, <1>2, <1>4, <4>1, CutAgain
    <3> QED
      BY <1>1, <3>1
  <2>5. g = HeaderAt(r, Len(HeaderOf(r)))
    BY <1>3, <2>3
  <2>6. \/ g.result = "FAULT" /\ ~WellFormed(r)
        \/ g.result = "COMPLETE" /\ g.contentLength = -1 /\ ~WellFormed(r)
        \/ HeaderRead(r, g)
    BY <2>5, WholeHeader
  <2> QED
    BY <2>1, <2>4, <2>6 DEF B, R
<1> QED
  BY <1>6, <1>7

------------------------------------------------------------------------------
\* What the connection has still to work on: its memory, the socket, the client.
Coming == Join(Region(k), Join(input, unsent))

\* What comes after the body of message r.
Behind(r) == IF Http THEN Rest[r] ELSE Join(Single(Comma), Rest[r])

\* The header of the message after the n-th, as far as it is in the buffer and was read.
HeaderSoFar(n) ==
    \E j \in 0 .. k.bufferLength :
       /\ k.http.startIndex = j
       /\ IF n = Len(BodyLength) THEN k.http = InitialHeader("request")
          ELSE j < Len(HeaderOf(n + 1)) /\ k.http = HeaderAt(n + 1, j)

\* None of the first n messages asks to close the connection.
NoneCloses(n) == \A i \in 1 .. n : ~CloseAfter(i)

\* ReadHeader is next: the n-th message has been dealt with, but for its comma.
AtMessage(n) ==
    /\ k.request = "none" /\ (comma <=> n > 0 /\ ~Http) /\ Coming = Join(Lead, Rest[n])
    /\ NoneCloses(n) /\ (Http => HeaderSoFar(n))

\* The header of message r has been read, and the body is at the front.
InRequest(r) ==
    /\ r \in 1 .. Len(BodyLength) /\ BodyLength[r] <= MaxContentLength
    /\ k.request # "none" /\ k.contentLength = BodyLength[r] /\ (comma <=> ~Http)
    /\ Coming = Join(Body(r), Behind(r))
    /\ k.keepAlive <=> ~CloseAfter(r)
    /\ Http => /\ WellFormed(r) /\ k.http.word = Method(r)
               /\ k.http.contentType \in HandlerTypes <=> Handleable(r)

\* All of the body is in memory.
Complete == k.contentAvail >= k.contentLength

\* The bodies of the first n messages.
Executed(n) == [i \in 1 .. n |-> Body(i)]

\* The inductive invariant.
FramingInv ==
    /\ comma \in BOOLEAN
    /\ stage = "parse" => k.state = "READ_HEADER"
    /\ \E n \in 0 .. Len(BodyLength) :
          /\ executed = Executed(n)
          /\ \A i \in 1 .. n : Accepted(i)
          /\ NoneCloses(n - 1)
          /\ k.state = "READ_HEADER" => AtMessage(n)
          /\ k.state = "READ_REQUEST" => InRequest(n + 1) /\ NoneCloses(n)
          /\ k.state = "EXECUTE_REQUEST" => InRequest(n + 1) /\ Complete /\ NoneCloses(n)
          /\ k.state = "WRITE_RESPONSE" => InRequest(n) /\ Complete

\* The scenario, and with it the messages, stay as they are.
LEMMA MessagesKept ==
    ASSUME sc' = sc
    PROVE  /\ BodyLength' = BodyLength /\ Http' = Http /\ Rest' = Rest
           /\ \A r : Body(r)' = Body(r) /\ Executed(r)' = Executed(r) /\ Behind(r)' = Behind(r)
<1>1. BodyLength' = BodyLength /\ Http' = Http /\ \A r : HeaderOf(r)' = HeaderOf(r)
  BY DEF BodyLength, Http, HeaderOf
<1>2. \A r : Body(r)' = Body(r)
  BY <1>1 DEF Body
<1>3. \A r : Executed(r)' = Executed(r)
  BY <1>2 DEF Executed
<1>4. \A r : Frame(r)' = Frame(r)
  BY <1>1, <1>2 DEF Frame
<1>5. Stream' = Stream
  BY <1>1, <1>4 DEF Stream, Request
<1>6. Rest' = Rest
  BY <1>1, <1>4, <1>5 DEF Rest, Remainders
<1>7. \A r : Behind(r)' = Behind(r)
  BY <1>1, <1>6 DEF Behind
<1> QED
  BY <1>1, <1>2, <1>3, <1>6, <1>7

\* So do their headers, and what they say.
LEMMA HeadersKept ==
    ASSUME sc' = sc
    PROVE  /\ Framed' = Framed
           /\ \A r : /\ HeaderOf(r)' = HeaderOf(r) /\ Method(r)' = Method(r)
                     /\ WellFormed(r)' = WellFormed(r) /\ Handleable(r)' = Handleable(r)
                     /\ Accepted(r)' = Accepted(r) /\ CloseAfter(r)' = CloseAfter(r)
           /\ \A r, j : HeaderAt(r, j)' = HeaderAt(r, j)
           /\ \A n : NoneCloses(n)' = NoneCloses(n)
<1>1. BodyLength' = BodyLength /\ Http' = Http /\ \A r : HeaderOf(r)' = HeaderOf(r)
  BY DEF BodyLength, Http, HeaderOf
<1>2. \A r : Method(r)' = Method(r)
  BY <1>1 DEF Method
<1>3. \A r, i : LineOf(r, i)' = LineOf(r, i)
  BY <1>1 DEF LineOf
<1>4. \A r, key : LinesWith(r, key)' = LinesWith(r, key)
  BY <1>1, <1>3 DEF LinesWith
<1>5. \A r : WellFormed(r)' = WellFormed(r)
  BY <1>1, <1>3, <1>4 DEF WellFormed
<1>6. \A r : Handleable(r)' = Handleable(r)
  BY <1>3, <1>4 DEF Handleable
<1>7. \A r : Accepted(r)' = Accepted(r)
  BY <1>1, <1>2, <1>5, <1>6 DEF Accepted
<1>8. \A r : CloseLines(r)' = CloseLines(r)
  BY <1>3, <1>4 DEF CloseLines
<1>9. \A r : CloseAfter(r)' = CloseAfter(r)
  BY <1>1, <1>3, <1>8 DEF CloseAfter
<1>10. Framed' = Framed
  BY <1>1, <1>3, <1>4 DEF Framed
<1>11. \A r : HeaderUnits(r)' = HeaderUnits(r)
  BY <1>1 DEF HeaderUnits
<1>12. \A r, j : HeaderAt(r, j)' = HeaderAt(r, j)
  BY <1>11 DEF HeaderAt
<1>13. \A n : NoneCloses(n)' = NoneCloses(n)
  BY <1>9 DEF NoneCloses
<1> QED
  BY <1>1, <1>2, <1>5, <1>6, <1>7, <1>9, <1>10, <1>12, <1>13

\* It is a sequence.
LEMMA BehindBody ==
    ASSUME sc \in Scenario, NEW r \in 1 .. Len(BodyLength)
    PROVE  IsSequence(Behind(r)) /\ IsSequence(Rest[r])
<1>1. Remainders(Rest) /\ Len(BodyLength) \in Nat
  BY RestOfStream
<1>2. r \in 0 .. Len(BodyLength)
  BY <1>1
<1>3. IsSequence(Rest[r])
  BY <1>1, <1>2 DEF Remainders
<1>4. IsSequence(Join(Single(Comma), Rest[r]))
  BY <1>3, SingleElement, JoinElements
<1> QED
  BY <1>3, <1>4 DEF Behind

\* Bytes that move from one part to the next are still to come.
LEMMA StillComing ==
    ASSUME NEW r, IsSequence(r), NEW b, IsSequence(b), NEW i, IsSequence(i),
           NEW u, IsSequence(u)
    PROVE  Join(Join(r, b), Join(i, u)) = Join(r, Join(Join(b, i), u))
<1>1. Join(Join(b, i), u) = Join(b, Join(i, u))
  BY JoinAssociative
<1>2. IsSequence(Join(i, u))
  BY JoinElements
<1>3. Join(Join(r, b), Join(i, u)) = Join(r, Join(b, Join(i, u)))
  BY <1>2, JoinAssociative
<1> QED
  BY <1>1, <1>3

\* What Receive returns, and what it leaves in the socket.
LEMMA ReceivedAndLeft ==
    ASSUME NEW in, IsSequence(in), NEW max \in Nat
    PROVE  in = Join(Received(in, max), SubSeq(in, Len(Received(in, max)) + 1, Len(in)))
<1> DEFINE n == Smaller(max, Len(in))
<1>1. n \in 0 .. Len(in)
  <2>1. Len(in) \in Nat
    BY JoinElements
  <2> QED
    BY <2>1 DEF Smaller
<1>2. Received(in, max) = First(in, n)
  BY DEF Received, First
<1> HIDE DEF n
<1>3. in = Join(First(in, n), After(in, n)) /\ Len(First(in, n)) = n
  BY <1>1, CutInTwo
<1>4. SubSeq(in, Len(Received(in, max)) + 1, Len(in)) = After(in, n)
  BY <1>2, <1>3 DEF After
<1> QED
  BY <1>2, <1>3, <1>4

\* A step that only moves bytes along keeps the invariant, and so does one that
\* closes the connection.
LEMMA MovedAlong ==
    ASSUME FramingInv, UNCHANGED <<sc, comma, executed>>,
           stage' = "parse" => k'.state = "READ_HEADER",
           \/ k'.state = "CLOSE_CONNECTION"
           \/ /\ k'.state = k.state /\ k'.request = k.request
              /\ k'.contentLength = k.contentLength
              /\ k'.keepAlive = k.keepAlive /\ k'.http = k.http
              /\ \A j \in 0 .. k.bufferLength : j \in 0 .. k'.bufferLength
              /\ Complete => Complete'
              /\ Coming' = Coming
    PROVE  FramingInv'
<1>1. PICK n \in 0 .. Len(BodyLength) :
         /\ executed = Executed(n)
         /\ \A i \in 1 .. n : Accepted(i)
         /\ NoneCloses(n - 1)
         /\ k.state = "READ_HEADER" => AtMessage(n)
         /\ k.state = "READ_REQUEST" => InRequest(n + 1) /\ NoneCloses(n)
         /\ k.state = "EXECUTE_REQUEST" => InRequest(n + 1) /\ Complete /\ NoneCloses(n)
         /\ k.state = "WRITE_RESPONSE" => InRequest(n) /\ Complete
  BY DEF FramingInv
<1>2. /\ BodyLength' = BodyLength /\ Rest' = Rest /\ Http' = Http
      /\ \A r : Body(r)' = Body(r) /\ Executed(r)' = Executed(r) /\ Behind(r)' = Behind(r)
  BY MessagesKept
<1>3. Lead' = Lead /\ comma' = comma /\ executed' = executed
  BY DEF Lead
<1>4. /\ \A r : /\ HeaderOf(r)' = HeaderOf(r) /\ Method(r)' = Method(r)
                /\ WellFormed(r)' = WellFormed(r) /\ Handleable(r)' = Handleable(r)
                /\ Accepted(r)' = Accepted(r) /\ CloseAfter(r)' = CloseAfter(r)
      /\ \A r, j : HeaderAt(r, j)' = HeaderAt(r, j)
      /\ \A m : NoneCloses(m)' = NoneCloses(m)
  BY HeadersKept
<1>5. CASE k'.state = "CLOSE_CONNECTION"
  BY <1>1, <1>2, <1>3, <1>4, <1>5 DEF FramingInv
<1>6. CASE k'.state # "CLOSE_CONNECTION"
  <2>1. AtMessage(n) => AtMessage(n)'
    <3>1. HeaderSoFar(n) => HeaderSoFar(n)'
      BY <1>2, <1>4, <1>6 DEF HeaderSoFar
    <3> QED
      BY <1>2, <1>3, <1>4, <1>6, <3>1 DEF AtMessage
  <2>2. \A r : InRequest(r) => InRequest(r)'
    BY <1>2, <1>3, <1>4, <1>6 DEF InRequest
  <2>3. (Complete => Complete') /\ k'.state = k.state
    BY <1>6
  <2> QED
    BY <1>1, <1>2, <1>3, <1>4, <2>1, <2>2, <2>3 DEF FramingInv
<1> QED
  BY <1>5, <1>6

------------------------------------------------------------------------------
\* A message has a header, of which nothing has been read at first.
LEMMA NothingOfNext ==
    ASSUME sc \in Scenario, Http, Framed, NEW n \in 0 .. Len(BodyLength), n # Len(BodyLength)
    PROVE  0 < Len(HeaderOf(n + 1)) /\ HeaderAt(n + 1, 0) = InitialHeader("request")
<1>1. n + 1 \in 1 .. Len(BodyLength)
  <2>1. Len(BodyLength) \in Nat
    BY RestOfStream
  <2> QED
    BY <2>1
<1>2. PICK r \in 1 .. Len(BodyLength) : r = n + 1
  BY <1>1
<1>3. HeaderAt(r, 0) = InitialHeader("request") /\ Len(HeaderOf(r)) \in Nat \ {0}
  BY HeaderNext, FramedLines
<1> QED
  BY <1>2, <1>3

\* No line is read before the first.
LEMMA InitialStart == InitialHeader("request").startIndex = 0
<1>1. "startIndex" # "role"
  BY Zenon
<1> QED
  BY <1>1, Zenon DEF InitialHeader

\* A new connection, and the whole stream to come.
LEMMA InitFraming == Init /\ Framed => FramingInv
<1> SUFFICES ASSUME Init, Framed PROVE FramingInv
  OBVIOUS
<1>1. MemoryInv /\ sc \in Scenario
  BY InitMemory DEF Init
<1>2. Remainders(Rest) /\ Len(BodyLength) \in Nat
  BY <1>1, RestOfStream
<1>3. executed = Executed(0)
  BY DEF Init, Executed
<1>4. k.state = "READ_HEADER" /\ k.request = "none" /\ k.bufferLength = 0
  BY DEF Init, NewConnection
<1>5. Coming = Join(Lead, Rest[0])
  <2>1. IsSequence(Region(k)) /\ Len(Region(k)) = 0
    BY <1>1, <1>4, RegionLength DEF MemoryInv
  <2>2. Region(k) = <<>>
    BY <2>1, EmptyIsSequence, SameSequence
  <2>3. IsSequence(unsent) /\ unsent = Rest[0] /\ input = <<>> /\ Lead = <<>>
    BY <1>1, <1>2 DEF Init, Remainders, MemoryInv, Lead
  <2>4. Join(<<>>, unsent) = unsent
    BY <2>3, JoinEmpty
  <2>5. Coming = Join(<<>>, Join(<<>>, unsent))
    BY <2>2, <2>3 DEF Coming
  <2> QED
    BY <2>3, <2>4, <2>5
<1>6. /\ 0 \in 0 .. Len(BodyLength) /\ \A i \in 1 .. 0 : Accepted(i)
      /\ NoneCloses(0) /\ NoneCloses(0 - 1)
  BY <1>2 DEF NoneCloses
<1>7. AtMessage(0)
  <2>1. Http => HeaderSoFar(0)
    <3> SUFFICES ASSUME Http PROVE HeaderSoFar(0)
      OBVIOUS
    <3>1. k.http = InitialHeader("request") /\ 0 \in 0 .. k.bufferLength
      BY <1>4 DEF Init, NewConnection
    <3>2. 0 # Len(BodyLength) => 0 < Len(HeaderOf(0 + 1)) /\ HeaderAt(0 + 1, 0) = InitialHeader("request")
      BY <1>1, <1>6, NothingOfNext
    <3> QED
      BY <3>1, <3>2, InitialStart DEF HeaderSoFar
  <2> QED
    BY <1>4, <1>5, <1>6, <2>1 DEF AtMessage, Init
<1>8. comma \in BOOLEAN /\ stage # "parse"
  BY DEF Init
<1> QED
  BY <1>3, <1>4, <1>6, <1>7, <1>8 DEF FramingInv

\* The client sends.
LEMMA ClientSendFraming == MemoryInv /\ FramingInv /\ ClientSend => FramingInv'
<1> SUFFICES ASSUME MemoryInv, FramingInv, ClientSend PROVE FramingInv'
  OBVIOUS
<1>1. UNCHANGED <<sc, comma, executed, stage, k>>
  BY DEF ClientSend
<1>2. PICK n \in 1 .. Len(unsent) :
         /\ input' = input \o SubSeq(unsent, 1, n)
         /\ unsent' = SubSeq(unsent, n + 1, Len(unsent))
  BY DEF ClientSend
<1>3. input' = Join(input, First(unsent, n)) /\ unsent' = After(unsent, n)
  BY <1>2 DEF Join, First, After
<1>4. IsSequence(input) /\ IsSequence(unsent) /\ n \in 0 .. Len(unsent)
  <2>1. IsSequence(input) /\ IsSequence(unsent)
    BY DEF MemoryInv
  <2>2. Len(unsent) \in Nat
    BY <2>1, JoinElements
  <2> QED
    BY <2>1, <2>2
<1>5. /\ unsent = Join(First(unsent, n), After(unsent, n))
      /\ IsSequence(First(unsent, n)) /\ IsSequence(After(unsent, n))
  BY <1>4, CutInTwo
<1>6. Join(Join(input, First(unsent, n)), After(unsent, n))
         = Join(input, Join(First(unsent, n), After(unsent, n)))
  BY <1>4, <1>5, JoinAssociative
<1>7. Join(input', unsent') = Join(input, unsent)
  BY <1>3, <1>5, <1>6
<1>8. Coming' = Coming
  BY <1>1, <1>7 DEF Coming, Region
<1> QED
  BY <1>1, <1>8, MovedAlong DEF FramingInv, Complete

\* Steps that leave the connection and the bytes alone.
LEMMA OtherFraming ==
    /\ MemoryInv /\ FramingInv
    /\ ClientClose \/ ClientRead \/ Select \/ SkipHeader \/ ReturnStep \/ UNCHANGED vars
    => FramingInv'
<1> SUFFICES ASSUME MemoryInv, FramingInv,
                    ClientClose \/ ClientRead \/ Select \/ SkipHeader \/ ReturnStep \/ UNCHANGED vars
             PROVE  FramingInv'
  OBVIOUS
<1>1. UNCHANGED <<sc, comma, executed, k, unsent, input>>
  BY DEF ClientClose, ClientRead, Select, SkipHeader, ReturnStep, vars, clientVars, outVars
<1>2. stage' = stage \/ stage' # "parse"
  BY DEF ClientClose, ClientRead, Select, SkipHeader, ReturnStep, vars
<1>3. Coming' = Coming /\ Complete' = Complete
  BY <1>1 DEF Coming, Region, Complete
<1> QED
  BY <1>1, <1>2, <1>3, MovedAlong DEF FramingInv

\* A connection that is closed.
LEMMA ClosedState ==
    ASSUME NEW c, InMemory(c)
    PROVE  Closed(c).state = "CLOSE_CONNECTION"
<1>1. DOMAIN c = Fields
  BY FieldsOfConnection DEF InMemory
<1>2. DOMAIN Initialize(c, FALSE) = Fields
  BY <1>1 DEF Initialize
<1> QED
  BY <1>2 DEF Closed, Fields

\* ReadHeader: Receive.
LEMMA ReceiveHeaderFraming == MemoryInv /\ FramingInv /\ ReceiveHeader => FramingInv'
<1> SUFFICES ASSUME MemoryInv, FramingInv, ReceiveHeader PROVE FramingInv'
  OBVIOUS
<1>1. UNCHANGED <<sc, comma, executed, unsent>> /\ k.state = "READ_HEADER" /\ InMemory(k)
  BY DEF ReceiveHeader, outVars, MemoryInv
<1>2. CASE ReceiveFails(input, eof, HeaderRoom)
  <2>1. k' = Closed(k) /\ stage' = "select"
    BY <1>2 DEF ReceiveHeader
  <2>2. k'.state = "CLOSE_CONNECTION" /\ stage' # "parse"
    BY <1>1, <2>1, ClosedState
  <2> QED
    BY <1>1, <2>2, MovedAlong
<1>3. CASE ~ReceiveFails(input, eof, HeaderRoom)
  <2> DEFINE bytes == Received(input, HeaderRoom)
             d == [k EXCEPT !.buffer = StoreReceived(@, k.bufferLength, bytes),
                            !.bufferLength = @ + Len(bytes)]
  <2>1. /\ input' = SubSeq(input, Len(bytes) + 1, Len(input)) /\ k' = d
        /\ stage' = "parse"
    BY <1>3 DEF ReceiveHeader
  <2>2. /\ DOMAIN k = Fields /\ IsSequence(input) /\ IsSequence(unsent)
        /\ MaxBufferLength \in Nat /\ HeaderRoom \in Nat /\ k.bufferLength \in Nat
        /\ HeaderRoom = MaxBufferLength - k.bufferLength
    BY FieldsOfConnection, BufferAssumption DEF MemoryInv, InMemory, HeaderRoom
  <2>3. /\ IsSequence(bytes) /\ Len(bytes) \in 0 .. HeaderRoom /\ IsSequence(input')
        /\ input = Join(bytes, input')
    BY <2>1, <2>2, ReceivesAtMost, ReceivedAndLeft
  <2>4. k.request = "none"
    BY <1>1 DEF FramingInv, AtMessage
  <2> HIDE DEF bytes
  <2>5. k.bufferLength + Len(bytes) <= MaxBufferLength
    BY <2>2, <2>3
  <2>6. Region(d) = Join(Region(k), bytes)
    BY <1>1, <2>3, <2>4, <2>5, RegionOfHeader
  <2>7. /\ d.state = k.state /\ d.request = k.request /\ d.contentLength = k.contentLength
        /\ d.contentAvail = k.contentAvail /\ d.keepAlive = k.keepAlive /\ d.http = k.http
        /\ d.bufferLength = k.bufferLength + Len(bytes)
    BY <2>2 DEF Fields
  <2> HIDE DEF d
  <2>8. IsSequence(Region(k))
    BY <1>1, RegionLength
  <2>9. Join(Join(Region(k), bytes), Join(input', unsent))
           = Join(Region(k), Join(Join(bytes, input'), unsent))
    BY <2>2, <2>3, <2>8, StillComing
  <2>10. Coming' = Join(Region(k'), Join(input', unsent'))
    BY DEF Coming, Region
  <2>11. Coming' = Coming
    BY <1>1, <2>1, <2>3, <2>6, <2>9, <2>10 DEF Coming
  <2>12. Complete' = Complete
    BY <2>1, <2>7 DEF Complete
  <2>13. \A j \in 0 .. k.bufferLength : j \in 0 .. k'.bufferLength
    BY <2>1, <2>2, <2>3, <2>7
  <2>14. /\ k'.state = k.state /\ k'.request = k.request /\ k'.contentLength = k.contentLength
         /\ k'.keepAlive = k.keepAlive /\ k'.http = k.http
    BY <2>1, <2>7
  <2>15. k'.state = "READ_HEADER"
    BY <1>1, <2>14
  <2> HIDE DEF ReceiveHeader
  <2> QED
    BY <1>1, <2>11, <2>12, <2>13, <2>14, <2>15, MovedAlong
<1> QED
  BY <1>2, <1>3

\* request_, contentLength_ and the state after ReadHeader of TcpConnection.
LEMMA PreparedFields ==
    ASSUME NEW c, InMemory(c), NEW bodyAt, NEW length
    PROVE  LET d == Terminate(PrepareRequest(c, bodyAt, length, TRUE)) IN
           /\ d.state = "READ_REQUEST" /\ d.contentLength = length /\ d.request # "none"
<1> DEFINE p == PrepareRequest(c, bodyAt, length, TRUE)
<1>1. DOMAIN c = Fields
  BY FieldsOfConnection DEF InMemory
<1>2. /\ DOMAIN p = Fields /\ p.state = "READ_REQUEST" /\ p.contentLength = length
      /\ p.request \in {"buffer", "heap"}
  BY <1>1 DEF PrepareRequest, Fields
<1> HIDE DEF p
<1>3. /\ Terminate(p).state = p.state /\ Terminate(p).contentLength = p.contentLength
      /\ Terminate(p).request = p.request
  BY <1>2 DEF Terminate, Fields
<1> QED
  BY <1>2, <1>3 DEF p

\* keepAlive_ is set by ReadHeader, and kept; so is what the header said.
LEMMA AliveKept ==
    ASSUME NEW c, InMemory(c)
    PROVE  /\ \A bodyAt, length : Terminate(PrepareRequest(c, bodyAt, length, TRUE)).keepAlive
           /\ \A bytes : /\ ReadRequest(c, bytes).keepAlive = c.keepAlive
                         /\ ReadRequest(c, bytes).http = c.http
<1>1. DOMAIN c = Fields
  BY FieldsOfConnection DEF InMemory
<1>2. ASSUME NEW p, DOMAIN p = Fields
      PROVE  /\ DOMAIN Terminate(p) = Fields /\ Terminate(p).keepAlive = p.keepAlive
             /\ Terminate(p).http = p.http
  BY <1>2 DEF Terminate, Fields
<1>3. ASSUME NEW bodyAt, NEW length
      PROVE  Terminate(PrepareRequest(c, bodyAt, length, TRUE)).keepAlive = TRUE
  <2> DEFINE p == PrepareRequest(c, bodyAt, length, TRUE)
  <2>1. DOMAIN p = Fields /\ p.keepAlive = TRUE
    BY <1>1 DEF PrepareRequest, Fields
  <2> HIDE DEF p
  <2>2. Terminate(p).keepAlive = TRUE
    BY <1>2, <2>1
  <2> QED
    BY <2>2 DEF p
<1>4. ASSUME NEW bytes
      PROVE  ReadRequest(c, bytes).keepAlive = c.keepAlive /\ ReadRequest(c, bytes).http = c.http
  <2> DEFINE more == [c EXCEPT
            !.buffer = IF c.request = "buffer"
                       THEN StoreReceived(@, c.requestAt + c.contentAvail, bytes) ELSE @,
            !.heap = IF c.request = "heap"
                     THEN StoreReceived(@, c.contentAvail, bytes) ELSE @,
            !.contentAvail = @ + Len(bytes)]
             done == [Terminate(more) EXCEPT !.state = "EXECUTE_REQUEST"]
  <2>1. DOMAIN more = Fields /\ more.keepAlive = c.keepAlive /\ more.http = c.http
    BY <1>1 DEF Fields
  <2>2. ReadRequest(c, bytes) = IF more.contentAvail < c.contentLength THEN more ELSE done
    BY DEF ReadRequest
  <2> HIDE DEF more
  <2>3. /\ DOMAIN Terminate(more) = Fields /\ Terminate(more).keepAlive = c.keepAlive
        /\ Terminate(more).http = c.http
    BY <1>2, <2>1
  <2>4. done.keepAlive = c.keepAlive /\ done.http = c.http
    BY <2>3 DEF Fields
  <2> HIDE DEF done
  <2> QED
    BY <2>1, <2>2, <2>4
<1> QED
  BY <1>3, <1>4

\* ReadHeader of TcpConnection: the header goes, the body is next.
LEMMA TcpParseFraming == MemoryInv /\ FramingInv /\ TcpParseHeader => FramingInv'
<1> SUFFICES ASSUME MemoryInv, FramingInv, TcpParseHeader PROVE FramingInv'
  OBVIOUS
<1> DEFINE data == Load(k.buffer, 0, k.bufferLength)
           colon == ColonAt(data)
           length == Atoi(SubSeq(data, HeaderStart, colon))
           bad == (comma /\ data[1] # Comma) \/ length = 0 \/ length > MaxContentLength
           read == PrepareRequest(k, colon, length, TRUE)
           tail == Join(input, unsent)
<1>1. /\ UNCHANGED <<sc, executed, unsent, input>> /\ InMemory(k)
      /\ k.state = "READ_HEADER" /\ ~Http /\ comma \in BOOLEAN /\ sc \in Scenario
      /\ stage' # "parse"
  BY DEF TcpParseHeader, outVars, clientVars, MemoryInv, FramingInv
<1>2. \/ k' = k /\ comma' = comma
      \/ k' = Closed(k) /\ comma' = comma
      \/ colon # 0 /\ ~bad /\ k' = Terminate(read) /\ comma' = TRUE
  BY DEF TcpParseHeader
<1>3. CASE k' = k /\ comma' = comma
  <2>1. Coming' = Coming /\ Complete' = Complete
    BY <1>1, <1>3 DEF Coming, Region, Complete
  <2> QED
    BY <1>1, <1>3, <2>1, MovedAlong
<1>4. CASE k' = Closed(k) /\ comma' = comma
  <2>1. k'.state = "CLOSE_CONNECTION"
    BY <1>1, <1>4, ClosedState
  <2> QED
    BY <1>1, <1>4, <2>1, MovedAlong
<1>5. CASE colon # 0 /\ ~bad /\ k' = Terminate(read) /\ comma' = TRUE
  <2>1. PICK n \in 0 .. Len(BodyLength) :
           /\ executed = Executed(n)
           /\ \A i \in 1 .. n : Accepted(i)
           /\ NoneCloses(n - 1) /\ AtMessage(n)
    BY <1>1 DEF FramingInv
  <2>2. /\ IsSequence(data) /\ Len(data) = k.bufferLength /\ k.bufferLength \in Nat
        /\ data = Region(k) /\ k.request = "none"
    BY <1>1, <2>1, DataInBuffer DEF AtMessage, Region
  <2>3. IsSequence(tail)
    BY JoinElements DEF MemoryInv
  <2>4. Join(data, tail) = Join(Lead, Rest[n])
    BY <2>1, <2>2 DEF AtMessage, Coming
  <2> HIDE DEF data, tail
  <2>5. /\ n + 1 \in 1 .. Len(BodyLength) /\ colon \in 1 .. Len(data)
        /\ length = BodyLength[n + 1]
        /\ Join(After(data, colon), tail) = Join(Body(n + 1), Join(Single(Comma), Rest[n + 1]))
    BY <1>1, <1>5, <2>2, <2>3, <2>4, HeaderParsed
  <2>6. BodyLength[n + 1] \in 1 .. 99
    BY <1>1, <2>5, BodyOfRequest
  <2>7. ~(length > MaxContentLength) /\ length \in 1 .. 99 /\ MaxContentLength \in Nat
    BY <1>5, <2>5, <2>6, BufferAssumption
  <2> HIDE DEF colon, length
  <2>16. length \in Nat /\ length <= MaxContentLength
    BY <2>7
  <2>8. colon \in 0 .. k.bufferLength
    BY <2>2, <2>5
  <2>9. Region(read) = After(data, colon) /\ InMemory(read)
    BY <1>1, <2>2, <2>16, <2>8, RegionPrepared, PrepareInMemory
  <2>10. read.request # "none"
    <3>1. DOMAIN k = Fields
      BY <1>1, FieldsOfConnection DEF InMemory
    <3> QED
      BY <3>1 DEF PrepareRequest, Fields
  <2>11. Region(k') = After(data, colon)
    BY <1>5, <2>9, <2>10, RegionTerminated
  <2>12. k'.state = "READ_REQUEST" /\ k'.contentLength = length /\ k'.request # "none"
    <3>1. /\ Terminate(read).state = "READ_REQUEST" /\ Terminate(read).contentLength = length
          /\ Terminate(read).request # "none"
      BY <1>1, PreparedFields
    <3> HIDE DEF read, bad
    <3> QED
      BY <1>5, <3>1
  <2>13. Coming' = Join(Body(n + 1), Join(Single(Comma), Rest[n + 1]))
    <3>1. Coming' = Join(Region(k'), Join(input', unsent'))
      BY DEF Coming, Region
    <3> QED
      BY <1>1, <2>5, <2>11, <3>1 DEF tail
  <2>14. /\ BodyLength' = BodyLength /\ Rest' = Rest /\ Http' = Http
         /\ \A r : Body(r)' = Body(r) /\ Executed(r)' = Executed(r) /\ Behind(r)' = Behind(r)
         /\ \A r : Accepted(r)' = Accepted(r) /\ CloseAfter(r)' = CloseAfter(r)
         /\ \A m : NoneCloses(m)' = NoneCloses(m)
    BY <1>1, MessagesKept, HeadersKept
  <2> HIDE DEF read, bad
  <2>17. k'.keepAlive /\ \A r : ~CloseAfter(r)
    BY <1>1, <1>5, AliveKept DEF CloseAfter, read
  <2>18. Behind(n + 1) = Join(Single(Comma), Rest[n + 1])
    BY <1>1 DEF Behind
  <2>15. InRequest(n + 1)'
    BY <1>1, <1>5, <2>5, <2>16, <2>12, <2>13, <2>14, <2>17, <2>18 DEF InRequest
  <2> QED
    BY <1>1, <1>5, <2>1, <2>12, <2>14, <2>15 DEF FramingInv, AtMessage
<1> QED
  BY <1>2, <1>3, <1>4, <1>5

\* The connection once data of a header have been read: g is what they say.
LEMMA HeaderStored ==
    ASSUME NEW c, InMemory(c), NEW g, IsHeader(g)
    PROVE  LET p == [c EXCEPT !.http = g]
           IN  /\ InMemory(p) /\ Region(p) = Region(c) /\ p.state = c.state
               /\ p.request = c.request /\ p.http = g /\ p.bufferLength = c.bufferLength
<1> DEFINE p == [c EXCEPT !.http = g]
<1>1. DOMAIN c = Fields
  BY FieldsOfConnection DEF InMemory
<1>2. /\ DOMAIN p = Fields /\ p.state = c.state /\ p.request = c.request /\ p.http = g
      /\ p.bufferLength = c.bufferLength /\ p.buffer = c.buffer
      /\ p.heap = c.heap /\ p.requestAt = c.requestAt /\ p.contentAvail = c.contentAvail
  BY <1>1 DEF Fields
<1>3. InMemory(p)
  BY <1>1, FieldsOfConnection DEF InMemory, Fields
<1> HIDE DEF p
<1>4. Region(p) = Region(c)
  BY <1>2 DEF Region
<1> QED
  BY <1>2, <1>3, <1>4 DEF p

\* The connection once all of the header has been read.
LEMMA HttpPrepared ==
    ASSUME NEW c, InMemory(c), c.request = "none", NEW g, IsHeader(g),
           NEW bodyAt \in 0 .. c.bufferLength, NEW length \in Nat, NEW alive
    PROVE  LET d == PrepareRequest([c EXCEPT !.http = g], bodyAt, length, alive)
           IN  /\ Region(d) = After(Region(c), bodyAt)
               /\ d.state = "READ_REQUEST" /\ d.contentLength = length /\ d.request # "none"
               /\ d.keepAlive = alive /\ d.http = g
<1> DEFINE p == [c EXCEPT !.http = g]
           d == PrepareRequest(p, bodyAt, length, alive)
<1>1. /\ InMemory(p) /\ Region(p) = Region(c)
      /\ p.request = c.request /\ p.http = g /\ p.bufferLength = c.bufferLength
  BY HeaderStored
<1> HIDE DEF p
<1>2. DOMAIN p = Fields
  BY <1>1, FieldsOfConnection DEF InMemory
<1>3. /\ d.state = "READ_REQUEST" /\ d.contentLength = length /\ d.keepAlive = alive
      /\ d.http = g /\ d.request \in {"buffer", "heap"}
  BY <1>1, <1>2 DEF PrepareRequest, Fields
<1>4. Region(d) = After(Region(p), bodyAt)
  BY <1>1, RegionPrepared
<1> HIDE DEF d
<1>5. d.request # "none"
  BY <1>3
<1> QED
  BY <1>1, <1>3, <1>4, <1>5 DEF d, p

\* ReadHeader of HttpConnection goes one of three ways: it closes the connection, for a
\* request that is not accepted; it has used up all data, and none of them is more than
\* the header; or it knows where the body is and how long.
HeaderRefused(n) ==
    k' = Closed(k) /\ stage' = "select" /\ n < Len(BodyLength) /\ ~Accepted(n + 1)
HeaderUsedUp(n, g) ==
    /\ k' = [k EXCEPT !.http = g] /\ stage' = "request" /\ g.startIndex = k.bufferLength
    /\ IF n = Len(BodyLength) THEN g = InitialHeader("request")
       ELSE k.bufferLength < Len(HeaderOf(n + 1)) /\ g = HeaderAt(n + 1, k.bufferLength)
HeaderDone(r, g) ==
    /\ stage' = "request" /\ r \in 1 .. Len(BodyLength) /\ HeaderRead(r, g)
    /\ Len(HeaderOf(r)) \in 0 .. k.bufferLength /\ BodyLength[r] <= MaxContentLength
    /\ k' = PrepareRequest([k EXCEPT !.http = g], Len(HeaderOf(r)), BodyLength[r], ~CloseAfter(r))
    /\ Join(After(Region(k), Len(HeaderOf(r))), Join(input, unsent)) = Join(Body(r), Rest[r])

\* It does.
LEMMA HttpParseOutcome ==
    ASSUME MemoryInv, FramingInv, Framed, HttpParseHeader
    PROVE  \E n \in 0 .. Len(BodyLength) :
              /\ executed = Executed(n) /\ NoneCloses(n - 1)
              /\ \A i \in 1 .. n : Accepted(i)
              /\ AtMessage(n)
              /\ HeaderRefused(n) \/ \E g : IsHeader(g) /\ (HeaderUsedUp(n, g) \/ HeaderDone(n + 1, g))
<1> DEFINE data == Load(k.buffer, 0, k.bufferLength)
           tail == Join(input, unsent)
           g == ProcessHeaderData(k.http, data, FALSE)
           bad == g.result = "FAULT"
                  \/ (g.result = "COMPLETE" /\ g.contentLength \notin 0 .. MaxContentLength)
<1>1. /\ InMemory(k) /\ k.state = "READ_HEADER" /\ Http /\ sc \in Scenario
      /\ Len(BodyLength) \in Nat /\ IsHeader(k.http) /\ k.bufferLength \in Nat
  BY RestOfStream, DataInBuffer DEF HttpParseHeader, MemoryInv, FramingInv, InMemory
<1>2. PICK n \in 0 .. Len(BodyLength) :
         /\ executed = Executed(n) /\ NoneCloses(n - 1)
         /\ \A i \in 1 .. n : Accepted(i)
         /\ AtMessage(n)
  BY <1>1 DEF FramingInv
<1>3. \/ bad /\ stage' = "select" /\ k' = Closed(k)
      \/ g.result = "INCOMPLETE" /\ stage' = "request" /\ k' = [k EXCEPT !.http = g]
      \/ /\ g.result = "COMPLETE" /\ ~bad /\ stage' = "request"
         /\ k' = PrepareRequest([k EXCEPT !.http = g], g.startIndex, g.contentLength, g.keepAlive)
  BY DEF HttpParseHeader
<1>4. /\ IsSequence(data) /\ Len(data) = k.bufferLength /\ k.request = "none" /\ data = Region(k)
  BY <1>1, <1>2, DataInBuffer DEF AtMessage, Region
<1>5. IsSequence(tail) /\ Join(data, tail) = Rest[n]
  <2>1. IsSequence(input) /\ IsSequence(unsent)
    BY DEF MemoryInv
  <2>2. Join(data, tail) = Join(Lead, Rest[n]) /\ Lead = <<>>
    BY <1>1, <1>2, <1>4 DEF AtMessage, Coming, Lead
  <2>3. IsSequence(Rest[n])
    BY <1>1, RestOfStream DEF Remainders
  <2> QED
    BY <2>1, <2>2, <2>3, JoinElements, JoinEmpty
<1>6. PICK h : h = k.http
  OBVIOUS
<1>7. PICK j \in 0 .. k.bufferLength :
         /\ h.startIndex = j
         /\ IF n = Len(BodyLength) THEN h = InitialHeader("request")
            ELSE j < Len(HeaderOf(n + 1)) /\ h = HeaderAt(n + 1, j)
  BY <1>1, <1>2, <1>6 DEF AtMessage, HeaderSoFar
<1>8. h.startIndex <= Len(data) /\ IsHeader(h) /\ IsHeader(g) /\ g = ProcessHeaderData(h, data, FALSE)
  <2>1. IsHeader(g)
    BY <1>1, <1>4, HeaderEndsInData
  <2>2. g = ProcessHeaderData(h, data, FALSE) /\ IsHeader(h)
    BY <1>1, <1>6
  <2> HIDE DEF g, data
  <2>3. h.startIndex <= Len(data)
    BY <1>1, <1>4, <1>7
  <2> QED
    BY <2>1, <2>2, <2>3
<1> HIDE DEF g, data, tail
<1>9. CASE n = Len(BodyLength)
  <2>1. Rest[n] = <<>>
    BY <1>1, <1>9, RestOfStream DEF Remainders
  <2>2. Len(data) = 0
    <3>1. /\ Len(Join(data, tail)) = Len(data) + Len(tail)
          /\ Len(data) \in Nat /\ Len(tail) \in Nat
      BY <1>4, <1>5, JoinElements
    <3>2. Len(Join(data, tail)) = 0
      BY <1>5, <2>1, EmptyIsSequence
    <3>3. \A a, b \in Nat : a + b = 0 => a = 0
      OBVIOUS
    <3> QED
      BY <3>1, <3>2, <3>3
  <2>3. h = InitialHeader("request") /\ h.startIndex = 0
    BY <1>7, <1>9, InitialStart
  <2>4. PICK st : HeaderRun(h, data, st) /\ ProcessHeaderData(h, data, FALSE) = st[Len(data)]
    BY <1>4, <1>8, HeaderLastState
  <2>5. g = h
    BY <1>8, <2>2, <2>3, <2>4 DEF HeaderRun
  <2>6. g.result = "INCOMPLETE"
    <3>1. InitialHeader("request").result = "INCOMPLETE"
      BY DEF InitialHeader
    <3> QED
      BY <2>3, <2>5, <3>1
  <2>7. stage' = "request" /\ k' = [k EXCEPT !.http = g]
    BY <1>3, <2>6
  <2>8. HeaderUsedUp(n, g)
    BY <1>4, <1>9, <2>2, <2>3, <2>5, <2>7 DEF HeaderUsedUp
  <2> QED
    BY <1>2, <1>8, <2>8
<1>10. CASE n # Len(BodyLength)
  <2>1. PICK r \in 1 .. Len(BodyLength) : r = n + 1 /\ n = r - 1
    <3>1. n + 1 \in 1 .. Len(BodyLength) /\ n = (n + 1) - 1
      BY <1>1, <1>10
    <3> QED
      BY <3>1
  <2>2. BodyLength[r] \in Nat \ {0} /\ Len(HeaderOf(r)) \in Nat
    BY <1>1, FramedLines
  <2>3. h = HeaderAt(r, h.startIndex) /\ h.startIndex \in 0 .. Len(HeaderOf(r)) - 1
    BY <1>1, <1>7, <1>10, <2>1, <2>2
  <2>4. Join(data, tail) = Rest[r - 1]
    BY <1>5, <2>1
  <2>5. \/ /\ g.result = "INCOMPLETE" /\ g.startIndex = Len(data)
           /\ Len(data) < Len(HeaderOf(r)) /\ g = HeaderAt(r, Len(data))
        \/ ~WellFormed(r) /\ g.result = "FAULT"
        \/ ~WellFormed(r) /\ g.result = "COMPLETE" /\ g.contentLength = -1
        \/ /\ HeaderRead(r, g) /\ Len(HeaderOf(r)) <= Len(data)
           /\ Join(After(data, Len(HeaderOf(r))), tail) = Join(Body(r), Rest[r])
    <3>1. Http /\ sc \in Scenario /\ IsSequence(data) /\ IsSequence(tail)
      BY <1>1, <1>4, <1>5
    <3>2. ReadOn(r, h, data, g)
      BY <1>8, <2>3 DEF ReadOn
    <3> QED
      BY <2>4, <3>1, <3>2, HttpParsed
  <2>6. CASE /\ g.result = "INCOMPLETE" /\ g.startIndex = Len(data)
             /\ Len(data) < Len(HeaderOf(r)) /\ g = HeaderAt(r, Len(data))
    <3>1. stage' = "request" /\ k' = [k EXCEPT !.http = g]
      BY <1>3, <2>6
    <3>2. HeaderUsedUp(n, g)
      BY <1>4, <1>10, <2>1, <2>6, <3>1 DEF HeaderUsedUp
    <3> QED
      BY <1>2, <1>8, <3>2
  <2>7. CASE ~WellFormed(r) /\ bad
    <3>1. stage' = "select" /\ k' = Closed(k)
      BY <1>3, <2>7
    <3>2. ~Accepted(r)
      BY <1>1, <2>7 DEF Accepted
    <3>3. n < Len(BodyLength)
      BY <1>1, <1>10
    <3>4. HeaderRefused(n)
      BY <2>1, <3>1, <3>2, <3>3 DEF HeaderRefused
    <3> QED
      BY <1>2, <3>4
  <2>8. CASE /\ HeaderRead(r, g) /\ Len(HeaderOf(r)) <= Len(data)
             /\ Join(After(data, Len(HeaderOf(r))), tail) = Join(Body(r), Rest[r])
    <3>1. /\ g.startIndex = Len(HeaderOf(r)) /\ g.result = "COMPLETE"
          /\ g.contentLength = BodyLength[r] /\ g.keepAlive = ~CloseAfter(r)
      BY <2>8 DEF HeaderRead
    <3>2. CASE BodyLength[r] <= MaxContentLength
      <4>1. ~bad
        BY <2>2, <3>1, <3>2, BufferAssumption
      <4>2. /\ stage' = "request"
            /\ k' = PrepareRequest([k EXCEPT !.http = g], g.startIndex, g.contentLength, g.keepAlive)
        BY <1>3, <3>1, <4>1
      <4>3. k' = PrepareRequest([k EXCEPT !.http = g], Len(HeaderOf(r)), BodyLength[r], ~CloseAfter(r))
        BY <3>1, <4>2
      <4>4. Len(HeaderOf(r)) \in 0 .. k.bufferLength
        BY <1>1, <1>4, <2>2, <2>8
      <4>5. HeaderDone(r, g)
        BY <1>4, <2>8, <3>2, <4>2, <4>3, <4>4 DEF HeaderDone, tail
      <4>6. HeaderDone(n + 1, g)
        BY <2>1, <4>5
      <4> QED
        BY <1>2, <1>8, <4>6
    <3>3. CASE ~(BodyLength[r] <= MaxContentLength)
      <4>1. bad
        BY <2>2, <3>1, <3>3, BufferAssumption
      <4>2. stage' = "select" /\ k' = Closed(k)
        BY <1>3, <3>1, <4>1
      <4>3. ~Accepted(r) /\ n < Len(BodyLength)
        BY <1>1, <1>10, <3>3 DEF Accepted
      <4>4. HeaderRefused(n)
        BY <2>1, <4>2, <4>3 DEF HeaderRefused
      <4> QED
        BY <1>2, <4>4
    <3> QED
      BY <3>2, <3>3
  <2>9. -1 \notin 0 .. MaxContentLength
    BY BufferAssumption
  <2> QED
    BY <2>5, <2>6, <2>7, <2>8, <2>9
<1> QED
  BY <1>9, <1>10

\* ReadHeader of HttpConnection: the header goes, the body is next.
LEMMA HttpParseFraming == MemoryInv /\ FramingInv /\ Framed /\ HttpParseHeader => FramingInv'
<1> SUFFICES ASSUME MemoryInv, FramingInv, Framed, HttpParseHeader PROVE FramingInv'
  OBVIOUS
<1>1. /\ UNCHANGED <<sc, comma, executed, unsent, input>> /\ InMemory(k)
      /\ k.state = "READ_HEADER" /\ Http /\ comma \in BOOLEAN /\ sc \in Scenario
      /\ stage' # "parse"
  BY DEF HttpParseHeader, outVars, clientVars, MemoryInv, FramingInv
<1>2. PICK n \in 0 .. Len(BodyLength) :
         /\ executed = Executed(n) /\ NoneCloses(n - 1)
         /\ \A i \in 1 .. n : Accepted(i)
         /\ AtMessage(n)
         /\ HeaderRefused(n) \/ \E g : IsHeader(g) /\ (HeaderUsedUp(n, g) \/ HeaderDone(n + 1, g))
  BY HttpParseOutcome
<1>3. /\ BodyLength' = BodyLength /\ Rest' = Rest /\ Http' = Http
      /\ \A r : Body(r)' = Body(r) /\ Executed(r)' = Executed(r) /\ Behind(r)' = Behind(r)
  BY <1>1, MessagesKept
<1>4. /\ \A r : /\ HeaderOf(r)' = HeaderOf(r) /\ Method(r)' = Method(r)
                /\ WellFormed(r)' = WellFormed(r) /\ Handleable(r)' = Handleable(r)
                /\ Accepted(r)' = Accepted(r) /\ CloseAfter(r)' = CloseAfter(r)
      /\ \A r, j : HeaderAt(r, j)' = HeaderAt(r, j)
      /\ \A m : NoneCloses(m)' = NoneCloses(m)
  BY <1>1, HeadersKept
<1>5. k.bufferLength \in Nat /\ k.request = "none" /\ Coming = Join(Lead, Rest[n]) /\ NoneCloses(n)
      /\ (comma <=> n > 0 /\ ~Http) /\ HeaderSoFar(n)
  BY <1>1, <1>2, DataInBuffer DEF AtMessage
<1>6. CASE HeaderRefused(n)
  <2>1. k'.state = "CLOSE_CONNECTION"
    BY <1>1, <1>6, ClosedState DEF HeaderRefused
  <2> QED
    BY <1>1, <2>1, MovedAlong
<1>7. ASSUME NEW g, IsHeader(g), HeaderUsedUp(n, g) PROVE FramingInv'
  <2>1. /\ k' = [k EXCEPT !.http = g] /\ g.startIndex = k.bufferLength
        /\ IF n = Len(BodyLength) THEN g = InitialHeader("request")
           ELSE k.bufferLength < Len(HeaderOf(n + 1)) /\ g = HeaderAt(n + 1, k.bufferLength)
    BY <1>7 DEF HeaderUsedUp
  <2>2. /\ Region(k') = Region(k) /\ k'.state = k.state /\ k'.request = k.request
        /\ k'.http = g /\ k'.bufferLength = k.bufferLength
    <3> DEFINE p == [k EXCEPT !.http = g]
    <3>2. /\ Region(p) = Region(k) /\ p.state = k.state /\ p.request = k.request
          /\ p.http = g /\ p.bufferLength = k.bufferLength
      BY <1>1, <1>7, HeaderStored
    <3> HIDE DEF p
    <3> QED
      BY <2>1, <3>2 DEF p
  <2>3. Coming' = Coming
    <3>1. Coming' = Join(Region(k'), Join(input', unsent'))
      BY DEF Coming, Region
    <3> QED
      BY <1>1, <2>2, <3>1 DEF Coming
  <2>4. HeaderSoFar(n)'
    <3>1. k'.bufferLength \in 0 .. k'.bufferLength
      BY <1>5, <2>2
    <3> QED
      BY <1>3, <1>4, <2>1, <2>2, <3>1 DEF HeaderSoFar
  <2>5. Lead' = Lead
    BY <1>1 DEF Lead
  <2>6. AtMessage(n)'
    BY <1>1, <1>3, <1>4, <1>5, <2>2, <2>3, <2>4, <2>5 DEF AtMessage
  <2>7. k'.state = "READ_HEADER" /\ executed' = executed /\ comma' = comma
    BY <1>1, <2>2
  <2> QED
    BY <1>1, <1>2, <1>3, <1>4, <2>6, <2>7 DEF FramingInv
<1>8. ASSUME NEW g, IsHeader(g), HeaderDone(n + 1, g) PROVE FramingInv'
  <2>1. PICK r : r = n + 1
    OBVIOUS
  <2>2. HeaderDone(r, g)
    BY <1>8, <2>1
  <2>3. PICK m : m = Len(HeaderOf(r))
    OBVIOUS
  <2>4. /\ r \in 1 .. Len(BodyLength) /\ HeaderRead(r, g) /\ m \in 0 .. k.bufferLength
        /\ BodyLength[r] <= MaxContentLength
        /\ k' = PrepareRequest([k EXCEPT !.http = g], m, BodyLength[r], ~CloseAfter(r))
        /\ Join(After(Region(k), m), Join(input, unsent)) = Join(Body(r), Rest[r])
    BY <2>2, <2>3 DEF HeaderDone
  <2>5. BodyLength[r] \in Nat
    BY <1>1, <2>4, FramedLines
  <2> DEFINE d == PrepareRequest([k EXCEPT !.http = g], m, BodyLength[r], ~CloseAfter(r))
  <2>6. /\ Region(d) = After(Region(k), m)
        /\ d.state = "READ_REQUEST" /\ d.contentLength = BodyLength[r] /\ d.request # "none"
        /\ d.keepAlive = ~CloseAfter(r) /\ d.http = g
    BY <1>1, <1>5, <1>8, <2>4, <2>5, HttpPrepared
  <2>7. k' = d
    BY <2>4
  <2> HIDE DEF d
  <2>8. Coming' = Join(Body(r), Behind(r))
    <3>1. Coming' = Join(Region(k'), Join(input', unsent'))
      BY DEF Coming, Region
    <3>2. Behind(r) = Rest[r]
      BY <1>1 DEF Behind
    <3> QED
      BY <1>1, <2>4, <2>6, <2>7, <3>1, <3>2
  <2>9. WellFormed(r) /\ g.word = Method(r) /\ (g.contentType \in HandlerTypes <=> Handleable(r))
    BY <2>4 DEF HeaderRead
  <2>10. comma' <=> ~Http'
    BY <1>1, <1>3, <1>5
  <2>11. InRequest(r)'
    <3>1. k'.keepAlive <=> ~CloseAfter(r)
      BY <2>6, <2>7
    <3>2. k'.http.word = Method(r) /\ (k'.http.contentType \in HandlerTypes <=> Handleable(r))
      BY <2>6, <2>7, <2>9
    <3>3. k'.request # "none" /\ k'.contentLength = BodyLength[r]
      BY <2>6, <2>7
    <3> QED
      BY <1>3, <1>4, <2>4, <2>8, <2>9, <2>10, <3>1, <3>2, <3>3 DEF InRequest
  <2>12. k'.state = "READ_REQUEST" /\ executed' = executed /\ comma' \in BOOLEAN
    BY <1>1, <2>6, <2>7
  <2> QED
    BY <1>1, <1>2, <1>3, <1>4, <1>5, <2>1, <2>11, <2>12 DEF FramingInv
<1> QED
  BY <1>2, <1>6, <1>7, <1>8

\* ReadRequest.
LEMMA ReadRequestFraming == MemoryInv /\ FramingInv /\ ReadRequestStep => FramingInv'
<1> SUFFICES ASSUME MemoryInv, FramingInv, ReadRequestStep PROVE FramingInv'
  OBVIOUS
<1>1. UNCHANGED <<sc, comma, executed, unsent>> /\ InMemory(k) /\ stage' # "parse"
  BY DEF ReadRequestStep, outVars, MemoryInv
<1>2. CASE k.state # "READ_REQUEST"
  <2>1. UNCHANGED <<k, input>>
    BY <1>2 DEF ReadRequestStep
  <2>2. Coming' = Coming /\ Complete' = Complete
    BY <1>1, <2>1 DEF Coming, Region, Complete
  <2> QED
    BY <1>1, <2>1, <2>2, MovedAlong
<1>3. CASE k.state = "READ_REQUEST" /\ ReceiveFails(input, eof, RequestRoom(k))
  <2>1. k' = Closed(k)
    BY <1>3 DEF ReadRequestStep
  <2>2. k'.state = "CLOSE_CONNECTION"
    BY <1>1, <2>1, ClosedState
  <2> QED
    BY <1>1, <2>2, MovedAlong
<1>4. CASE k.state = "READ_REQUEST" /\ ~ReceiveFails(input, eof, RequestRoom(k))
  <2> DEFINE bytes == Received(input, RequestRoom(k))
             d == ReadRequest(k, bytes)
  <2>1. input' = SubSeq(input, Len(bytes) + 1, Len(input)) /\ k' = d
    BY <1>4 DEF ReadRequestStep
  <2>2. /\ k.request # "none" /\ RequestRoom(k) \in Nat /\ k.contentAvail \in Nat
        /\ k.contentLength \in Nat /\ IsSequence(input) /\ IsSequence(unsent)
    BY <1>1, <1>4 DEF InMemory, RequestRoom, MemoryInv
  <2>3. /\ IsSequence(bytes) /\ Len(bytes) \in 0 .. RequestRoom(k) /\ IsSequence(input')
        /\ input = Join(bytes, input')
    BY <2>1, <2>2, ReceivesAtMost, ReceivedAndLeft
  <2> HIDE DEF bytes
  <2>4. /\ Region(d) = Join(Region(k), bytes)
        /\ d.request = k.request /\ d.contentLength = k.contentLength
        /\ d.contentAvail = k.contentAvail + Len(bytes)
        /\ d.state = IF k.contentAvail + Len(bytes) < k.contentLength THEN k.state
                     ELSE "EXECUTE_REQUEST"
    BY <1>1, <2>2, <2>3, RegionRead
  <2>14. d.keepAlive = k.keepAlive /\ d.http = k.http
    BY <1>1, AliveKept
  <2> HIDE DEF d
  <2>5. IsSequence(Region(k))
    BY <1>1, RegionLength
  <2>6. Join(Join(Region(k), bytes), Join(input', unsent))
           = Join(Region(k), Join(Join(bytes, input'), unsent))
    BY <2>2, <2>3, <2>5, StillComing
  <2>7. Coming' = Coming
    <3>1. Coming' = Join(Region(k'), Join(input', unsent'))
      BY DEF Coming, Region
    <3> QED
      BY <1>1, <2>1, <2>3, <2>4, <2>6, <3>1 DEF Coming
  <2>8. k'.state = "READ_REQUEST" \/ (k'.state = "EXECUTE_REQUEST" /\ Complete')
    <3>1. Complete' <=> k'.contentAvail >= k'.contentLength
      BY DEF Complete
    <3>2. Len(bytes) \in Nat
      BY <2>2, <2>3
    <3> QED
      BY <1>4, <2>1, <2>2, <2>4, <3>1, <3>2
  <2>9. PICK n \in 0 .. Len(BodyLength) :
           /\ executed = Executed(n)
           /\ \A i \in 1 .. n : Accepted(i)
           /\ NoneCloses(n - 1) /\ NoneCloses(n)
           /\ InRequest(n + 1)
    BY <1>4 DEF FramingInv
  <2>10. /\ BodyLength' = BodyLength /\ Rest' = Rest /\ Http' = Http
         /\ \A r : Body(r)' = Body(r) /\ Executed(r)' = Executed(r) /\ Behind(r)' = Behind(r)
    BY <1>1, MessagesKept
  <2>15. /\ \A r : /\ Method(r)' = Method(r)
                   /\ WellFormed(r)' = WellFormed(r) /\ Handleable(r)' = Handleable(r)
                   /\ Accepted(r)' = Accepted(r) /\ CloseAfter(r)' = CloseAfter(r)
         /\ \A m : NoneCloses(m)' = NoneCloses(m)
    BY <1>1, HeadersKept
  <2>11. /\ k'.request = k.request /\ k'.contentLength = k.contentLength /\ comma' = comma
         /\ k'.keepAlive = k.keepAlive /\ k'.http = k.http
    BY <1>1, <2>1, <2>4, <2>14
  <2>12. InRequest(n + 1)'
    BY <2>7, <2>9, <2>10, <2>11, <2>15 DEF InRequest
  <2>13. executed' = executed /\ comma' \in BOOLEAN
    BY <1>1 DEF FramingInv
  <2> QED
    BY <1>1, <2>8, <2>9, <2>10, <2>12, <2>13, <2>15 DEF FramingInv
<1> QED
  BY <1>2, <1>3, <1>4

\* The request in memory is the message's body; the comma and the rest are behind it.
LEMMA RequestIsBody ==
    ASSUME MemoryInv, NEW r, InRequest(r), Complete
    PROVE  /\ RequestBytes(k) = Body(r)
           /\ Join(After(Region(k), k.contentLength), Join(input, unsent)) = Behind(r)
<1> DEFINE x == Region(k)
           y == Join(input, unsent)
           b == Body(r)
           z == Behind(r)
           n == k.contentLength
<1>1. /\ InMemory(k) /\ sc \in Scenario /\ r \in 1 .. Len(BodyLength) /\ k.request # "none"
      /\ n = BodyLength[r] /\ Join(x, y) = Join(b, z) /\ k.contentAvail >= n
      /\ IsSequence(input) /\ IsSequence(unsent)
  BY DEF MemoryInv, InRequest, Complete, Coming
<1>2. IsSequence(b) /\ Len(b) = n
  BY <1>1, BodyOfRequest
<1>3. IsSequence(z)
  BY <1>1, BehindBody
<1>4. IsSequence(x) /\ Len(x) = k.contentAvail
  BY <1>1, RegionLength
<1>5. IsSequence(y)
  BY <1>1, JoinElements
<1>6. RequestBytes(k) = First(x, n)
  BY <1>1, RegionRequest
<1> HIDE DEF x, y, b, z, n
<1>7. Len(b) <= Len(x)
  <2>1. k.contentAvail \in Nat /\ n \in Nat
    BY <1>1 DEF InMemory, n
  <2> QED
    BY <1>1, <1>2, <1>4, <2>1
<1>8. First(x, Len(b)) = b /\ Join(After(x, Len(b)), y) = z
  BY <1>1, <1>2, <1>3, <1>4, <1>5, <1>7, CutAgain
<1>9. RequestBytes(k) = b /\ Join(After(x, n), y) = z
  BY <1>2, <1>6, <1>8
<1> QED
  BY <1>9 DEF x, y, b, z, n

\* What Initialize leaves of the header: nothing.
LEMMA HeaderInitialized ==
    ASSUME NEW c, InMemory(c), NEW st
    PROVE  [Initialize(c, TRUE) EXCEPT !.state = st].http = InitialHeader("request")
<1>1. DOMAIN c = Fields
  BY FieldsOfConnection DEF InMemory
<1>2. DOMAIN Initialize(c, TRUE) = Fields /\ Initialize(c, TRUE).http = InitialHeader("request")
  BY <1>1 DEF Initialize, Fields
<1> QED
  BY <1>2 DEF Fields

\* Initialize after message r: what is behind its body is what is to come.
LEMMA NextMessage ==
    ASSUME MemoryInv, MemoryInv', Framed, NEW r, InRequest(r), Complete,
           NoneCloses(r - 1), ~CloseAfter(r),
           UNCHANGED <<sc, comma, input, unsent>>,
           k' = [Initialize(k, TRUE) EXCEPT !.state = "READ_HEADER"]
    PROVE  AtMessage(r)' /\ k'.state = "READ_HEADER"
<1>1. /\ InMemory(k) /\ k.request # "none" /\ k.contentAvail >= k.contentLength /\ (comma <=> ~Http)
      /\ sc \in Scenario /\ r \in 1 .. Len(BodyLength) /\ Len(BodyLength) \in Nat
  BY RestOfStream DEF MemoryInv, InRequest, Complete
<1> DEFINE d == [Initialize(k, TRUE) EXCEPT !.state = "READ_HEADER"]
<1>2. /\ Region(d) = After(Region(k), k.contentLength)
      /\ d.request = "none" /\ d.state = "READ_HEADER" /\ d.http = InitialHeader("request")
  BY <1>1, RegionInitialized, HeaderInitialized
<1>3. k' = d
  OBVIOUS
<1> HIDE DEF d
<1>4. Join(After(Region(k), k.contentLength), Join(input, unsent)) = Behind(r)
  BY RequestIsBody
<1>5. Coming' = Join(Region(k'), Join(input', unsent'))
  BY DEF Coming, Region
<1>6. Rest' = Rest /\ Http' = Http /\ BodyLength' = BodyLength
  BY MessagesKept
<1>7. Coming' = Join(Lead', Rest'[r])
  <2>1. Behind(r) = Join(Lead, Rest[r])
    <3>1. CASE Http
      BY <1>1, <3>1, BehindBody, JoinEmpty DEF Behind, Lead
    <3>2. CASE ~Http
      BY <1>1, <3>2 DEF Behind, Lead
    <3> QED
      BY <3>1, <3>2
  <2>2. Lead' = Lead
    BY DEF Lead
  <2> QED
    BY <1>2, <1>3, <1>4, <1>5, <1>6, <2>1, <2>2
<1>8. comma' = comma /\ r > 0
  BY <1>1
<1>9. NoneCloses(r)'
  <2>1. \A i \in 1 .. r : i \in 1 .. r - 1 \/ i = r
    BY <1>1
  <2>2. NoneCloses(r)
    BY <2>1 DEF NoneCloses
  <2> QED
    BY <2>2, HeadersKept
<1>10. Http' => HeaderSoFar(r)'
  <2> SUFFICES ASSUME Http' PROVE HeaderSoFar(r)'
    OBVIOUS
  <2>1. Http /\ r \in 0 .. Len(BodyLength)
    BY <1>1, <1>6
  <2>2. r # Len(BodyLength) => 0 < Len(HeaderOf(r + 1)) /\ HeaderAt(r + 1, 0) = InitialHeader("request")
    BY <1>1, <2>1, NothingOfNext
  <2>3. k'.http = InitialHeader("request") /\ k'.http.startIndex = 0
    BY <1>2, <1>3, InitialStart
  <2>4. 0 \in 0 .. k'.bufferLength
    <3>1. ASSUME NEW c, InMemory(c) PROVE 0 \in 0 .. c.bufferLength
      BY <3>1, BufferAssumption DEF InMemory
    <3> QED
      BY <3>1 DEF MemoryInv
  <2>5. HeaderOf(r + 1)' = HeaderOf(r + 1) /\ HeaderAt(r + 1, 0)' = HeaderAt(r + 1, 0)
    BY HeadersKept
  <2> QED
    BY <1>6, <2>2, <2>3, <2>4, <2>5 DEF HeaderSoFar
<1>11. k'.request = "none" /\ k'.state = "READ_HEADER"
  BY <1>2, <1>3
<1>12. comma' <=> r > 0 /\ ~Http'
  <2>1. r > 0 /\ (Http' <=> Http) /\ (comma' <=> comma) /\ (comma <=> ~Http)
    BY <1>1, <1>6, <1>8
  <2> QED
    BY <2>1, Zenon
<1> QED
  BY <1>7, <1>9, <1>10, <1>11, <1>12 DEF AtMessage

\* One body more.
LEMMA ExecutedNext ==
    ASSUME NEW n \in Nat
    PROVE  /\ IsSequence(Executed(n)) /\ Len(Executed(n)) = n
           /\ Append(Executed(n), Body(n + 1)) = Executed(n + 1)
<1> DEFINE f == Executed(n + 1)
<1>1. f = [i \in 1 .. n + 1 |-> f[i]] /\ \A i \in 1 .. n + 1 : f[i] = Body(i)
  BY DEF Executed
<1>2. Executed(n) = [i \in 1 .. n |-> f[i]]
  BY DEF Executed
<1> HIDE DEF f
<1>3. f[n + 1] = Body(n + 1)
  BY <1>1
<1>4. /\ f = Append(Executed(n), f[n + 1]) /\ \E T : Executed(n) \in Seq(T)
      /\ Len(Executed(n)) = n
  <2>1. f = FirstValues(f, n + 1) /\ Executed(n) = FirstValues(f, n)
    BY <1>1, <1>2, Zenon DEF FirstValues
  <2>2. /\ f = Append(FirstValues(f, n), f[n + 1])
        /\ \E T : FirstValues(f, n) \in Seq(T)
        /\ Len(FirstValues(f, n)) = n
    BY <2>1, LastValue, Zenon
  <2> QED
    BY <2>1, <2>2, Zenon
<1> QED
  BY <1>3, <1>4 DEF IsSequence, f

\* ExecuteRequest goes one of three ways: it closes the connection, for a request over
\* HTTP that no handler takes; it has nothing to write; or it leaves a response.
LEMMA ExecuteWays ==
    ASSUME MemoryInv, ExecuteStep
    PROVE  \/ /\ Http /\ k' = Closed(k) /\ executed' = executed
              /\ k.http.word = "POST" /\ k.http.contentType \notin HandlerTypes
           \/ /\ ~Http /\ k' = [Initialize(k, TRUE) EXCEPT !.state = "READ_HEADER"]
           \/ /\ k' = [k EXCEPT !.state = "WRITE_RESPONSE"]
              /\ Http /\ k.http.word = "POST" => k.http.contentType \in HandlerTypes
<1>1. CASE Http
  <2>1. k' = HttpExecuteRequest
    BY <1>1 DEF ExecuteStep
  <2>2. CASE k.http.word = "POST" /\ k.http.contentType \notin HandlerTypes
    <3>1. k' = Closed(k)
      BY <2>1, <2>2 DEF HttpExecuteRequest, CanProcessContentType
    <3>2. k'.state = "CLOSE_CONNECTION" => executed' = executed
      BY DEF ExecuteStep
    <3>3. Closed(k).state = "CLOSE_CONNECTION"
      BY ClosedState DEF MemoryInv
    <3> QED
      BY <1>1, <2>2, <3>1, <3>2, <3>3
  <2>3. CASE ~(k.http.word = "POST" /\ k.http.contentType \notin HandlerTypes)
    BY <1>1, <2>1, <2>3 DEF HttpExecuteRequest, CanProcessContentType
  <2> QED
    BY <2>2, <2>3
<1>2. CASE ~Http
  BY <1>2 DEF ExecuteStep, TcpExecuteRequest
<1> QED
  BY <1>1, <1>2

\* ExecuteRequest.
LEMMA ExecuteFraming == MemoryInv /\ FramingInv /\ Framed /\ ExecuteStep => FramingInv'
<1> SUFFICES ASSUME MemoryInv, FramingInv, Framed, ExecuteStep PROVE FramingInv'
  OBVIOUS
<1>1. /\ UNCHANGED <<sc, comma, unsent, input>> /\ k.state = "EXECUTE_REQUEST"
      /\ InMemory(k) /\ sc \in Scenario /\ DOMAIN k = Fields /\ comma \in BOOLEAN
  BY FieldsOfConnection DEF ExecuteStep, outVars, clientVars, MemoryInv, InMemory, FramingInv
<1>2. PICK n \in 0 .. Len(BodyLength) :
         /\ executed = Executed(n)
         /\ \A i \in 1 .. n : Accepted(i)
         /\ InRequest(n + 1) /\ Complete /\ NoneCloses(n)
  BY <1>1 DEF FramingInv
<1>3. \/ k' = Closed(k) /\ executed' = executed
      \/ ~Http /\ k' = [Initialize(k, TRUE) EXCEPT !.state = "READ_HEADER"]
      \/ /\ k' = [k EXCEPT !.state = "WRITE_RESPONSE"]
         /\ Http /\ k.http.word = "POST" => k.http.contentType \in HandlerTypes
  BY ExecuteWays
<1>4. RequestBytes(k) = Body(n + 1)
  BY <1>2, RequestIsBody
<1>5. n + 1 \in 0 .. Len(BodyLength) /\ n + 1 \in 1 .. Len(BodyLength) /\ (n + 1) - 1 = n
  <2>1. Len(BodyLength) \in Nat
    BY <1>1, RestOfStream
  <2>2. n + 1 \in 1 .. Len(BodyLength)
    BY <1>2 DEF InRequest
  <2> QED
    BY <2>1, <2>2
<1>6. /\ BodyLength' = BodyLength /\ Rest' = Rest /\ Http' = Http
      /\ \A r : Body(r)' = Body(r) /\ Executed(r)' = Executed(r) /\ Behind(r)' = Behind(r)
  BY <1>1, MessagesKept
<1>12. /\ \A r : /\ Method(r)' = Method(r)
                /\ WellFormed(r)' = WellFormed(r) /\ Handleable(r)' = Handleable(r)
                /\ Accepted(r)' = Accepted(r) /\ CloseAfter(r)' = CloseAfter(r)
       /\ \A m : NoneCloses(m)' = NoneCloses(m)
  BY <1>1, HeadersKept
<1>7. stage' # "parse"
  BY DEF ExecuteStep, AfterMessage
<1>8. k'.state # "CLOSE_CONNECTION" => executed' = Executed(n + 1)
  <2>1. n \in Nat
    OBVIOUS
  <2>2. k'.state # "CLOSE_CONNECTION" => executed' = Append(executed, RequestBytes(k))
    BY DEF ExecuteStep
  <2> QED
    BY <1>1, <1>2, <1>4, <2>1, <2>2, ExecutedNext
<1>13. ASSUME Http /\ k.http.word = "POST" => k.http.contentType \in HandlerTypes
       PROVE  \A i \in 1 .. n + 1 : Accepted(i)
  <2>1. Accepted(n + 1)
    BY <1>2, <1>13 DEF InRequest, Accepted
  <2>2. \A i \in 1 .. n + 1 : i \in 1 .. n \/ i = n + 1
    OBVIOUS
  <2> QED
    BY <1>2, <2>1, <2>2
<1>14. CASE k' = Closed(k) /\ executed' = executed
  <2>1. k'.state = "CLOSE_CONNECTION"
    BY <1>1, <1>14, ClosedState
  <2> QED
    BY <1>1, <1>7, <1>14, <2>1, MovedAlong
<1>9. CASE ~Http /\ k' = [Initialize(k, TRUE) EXCEPT !.state = "READ_HEADER"]
  <2>1. AtMessage(n + 1)' /\ k'.state = "READ_HEADER"
    <3>1. MemoryInv' /\ ~CloseAfter(n + 1) /\ NoneCloses((n + 1) - 1)
      BY <1>2, <1>5, <1>9, ExecuteMemory DEF CloseAfter
    <3> QED
      BY <1>1, <1>2, <1>9, <3>1, NextMessage
  <2>2. \A i \in 1 .. n + 1 : Accepted(i)
    BY <1>9, <1>13
  <2> QED
    BY <1>1, <1>2, <1>5, <1>6, <1>7, <1>8, <1>12, <2>1, <2>2 DEF FramingInv
<1>10. CASE /\ k' = [k EXCEPT !.state = "WRITE_RESPONSE"]
            /\ Http /\ k.http.word = "POST" => k.http.contentType \in HandlerTypes
  <2>1. /\ k'.state = "WRITE_RESPONSE" /\ k'.request = k.request
        /\ k'.contentLength = k.contentLength /\ k'.contentAvail = k.contentAvail
        /\ k'.keepAlive = k.keepAlive /\ k'.http = k.http
        /\ Region(k') = Region(k)
    BY <1>1, <1>10 DEF Region, Fields
  <2>2. Coming' = Coming
    <3>1. Coming' = Join(Region(k'), Join(input', unsent'))
      BY DEF Coming, Region
    <3> QED
      BY <1>1, <2>1, <3>1 DEF Coming
  <2>3. Complete'
    BY <1>2, <2>1 DEF Complete
  <2>4. InRequest(n + 1)'
    BY <1>1, <1>2, <1>6, <1>12, <2>1, <2>2 DEF InRequest
  <2>5. \A i \in 1 .. n + 1 : Accepted(i)
    BY <1>10, <1>13
  <2> QED
    BY <1>1, <1>2, <1>5, <1>6, <1>7, <1>8, <1>12, <2>1, <2>3, <2>4, <2>5 DEF FramingInv
<1> QED
  BY <1>3, <1>9, <1>10, <1>14

\* An exception leaves the handler, which got the request that ExecuteRequest was at.
LEMMA ThrowWay ==
    ASSUME MemoryInv, FramingInv, ThrowStep
    PROVE  \E n \in Nat :
              /\ executed = Executed(n) /\ executed' = Executed(n + 1)
              /\ n + 1 \in 1 .. Len(BodyLength) /\ Len(BodyLength) \in Nat
              /\ (\A i \in 1 .. n + 1 : Accepted(i)) /\ NoneCloses(n) /\ Failing(n + 1)
<1>1. /\ UNCHANGED <<sc, comma, unsent, input>> /\ k.state = "EXECUTE_REQUEST"
      /\ InMemory(k) /\ sc \in Scenario
  BY DEF ThrowStep, outVars, clientVars, MemoryInv
<1>2. PICK n \in 0 .. Len(BodyLength) :
         /\ executed = Executed(n)
         /\ \A i \in 1 .. n : Accepted(i)
         /\ InRequest(n + 1) /\ Complete /\ NoneCloses(n)
  BY <1>1 DEF FramingInv
<1>3. n \in Nat /\ Len(BodyLength) \in Nat /\ n + 1 \in 1 .. Len(BodyLength) /\ n + 1 \in Nat
  BY <1>1, <1>2, RestOfStream DEF InRequest
<1>4. RequestBytes(k) = Body(n + 1)
  BY <1>2, RequestIsBody
<1>5. RequestOf(Body(n + 1)) = n + 1
  BY <1>1, <1>3, BodyOfRequest
<1>6. HandlerThrows(n + 1)
  BY <1>4, <1>5 DEF ThrowStep
<1>7. executed' = Executed(n + 1)
  <2>1. executed' = Append(executed, RequestBytes(k))
    BY DEF ThrowStep
  <2> QED
    BY <1>2, <1>3, <1>4, <2>1, ExecutedNext
<1>8. Accepted(n + 1)
  BY <1>2, <1>6 DEF HandlerThrows, InRequest, Accepted, CanProcessContentType
<1>9. Failing(n + 1)
  BY <1>2, <1>6 DEF HandlerThrows, Failing, InRequest, Method
<1>10. \A i \in 1 .. n + 1 : Accepted(i)
  <2>1. \A i \in 1 .. n + 1 : i \in 1 .. n \/ i = n + 1
    OBVIOUS
  <2> QED
    BY <1>2, <1>8, <2>1
<1> QED
  BY <1>2, <1>3, <1>7, <1>9, <1>10

\* SetCloseState.
LEMMA ThrowFraming == MemoryInv /\ FramingInv /\ ThrowStep => FramingInv'
<1> SUFFICES ASSUME MemoryInv, FramingInv, ThrowStep PROVE FramingInv'
  OBVIOUS
<1>1. /\ UNCHANGED <<sc, comma>> /\ stage' = "select" /\ k'.state = "CLOSE_CONNECTION"
      /\ comma \in BOOLEAN
  BY FieldsOfConnection DEF ThrowStep, SetCloseState, MemoryInv, InMemory, FramingInv, Fields
<1>2. PICK n \in Nat :
         /\ executed' = Executed(n + 1)
         /\ n + 1 \in 1 .. Len(BodyLength) /\ Len(BodyLength) \in Nat
         /\ (\A i \in 1 .. n + 1 : Accepted(i)) /\ NoneCloses(n)
  BY ThrowWay
<1>3. PICK m \in 0 .. Len(BodyLength) :
         m = n + 1 /\ executed' = Executed(m) /\ NoneCloses(m - 1) /\ \A i \in 1 .. m : Accepted(i)
  <2>1. n + 1 \in 0 .. Len(BodyLength) /\ (n + 1) - 1 = n
    BY <1>2
  <2> QED
    BY <1>2, <2>1
<1>4. BodyLength' = BodyLength /\ \A r : Executed(r)' = Executed(r)
  BY <1>1, MessagesKept
<1>5. (\A r : Accepted(r)' = Accepted(r)) /\ (\A l : NoneCloses(l)' = NoneCloses(l))
  BY <1>1, HeadersKept
<1> QED
  BY <1>1, <1>3, <1>4, <1>5 DEF FramingInv

\* WriteResponse.
LEMMA WriteFraming == MemoryInv /\ FramingInv /\ Framed /\ WriteStep => FramingInv'
<1> SUFFICES ASSUME MemoryInv, FramingInv, Framed, WriteStep PROVE FramingInv'
  OBVIOUS
<1>1. /\ UNCHANGED <<sc, comma, unsent, input, executed>> /\ k.state = "WRITE_RESPONSE"
      /\ InMemory(k) /\ comma \in BOOLEAN
  BY DEF WriteStep, clientVars, MemoryInv, FramingInv
<1>2. stage' # "parse"
  BY DEF WriteStep, AfterMessage
<1>3. \/ k' = k \/ k' = Closed(k)
      \/ k.keepAlive /\ k' = [Initialize(k, TRUE) EXCEPT !.state = "READ_HEADER"]
  BY DEF WriteStep, ResponseWritten
<1>4. CASE k' = k
  <2>1. Coming' = Coming /\ Complete' = Complete
    BY <1>1, <1>4 DEF Coming, Region, Complete
  <2> QED
    BY <1>1, <1>2, <1>4, <2>1, MovedAlong
<1>5. CASE k' = Closed(k)
  <2>1. k'.state = "CLOSE_CONNECTION"
    BY <1>1, <1>5, ClosedState
  <2> QED
    BY <1>1, <1>2, <2>1, MovedAlong
<1>6. CASE k.keepAlive /\ k' = [Initialize(k, TRUE) EXCEPT !.state = "READ_HEADER"]
  <2>1. PICK n \in 0 .. Len(BodyLength) :
           /\ executed = Executed(n)
           /\ \A i \in 1 .. n : Accepted(i)
           /\ NoneCloses(n - 1)
           /\ InRequest(n) /\ Complete
    BY <1>1 DEF FramingInv
  <2>2. AtMessage(n)' /\ k'.state = "READ_HEADER"
    <3>1. MemoryInv' /\ ~CloseAfter(n)
      BY <1>6, <2>1, WriteMemory DEF InRequest
    <3> QED
      BY <1>1, <1>6, <2>1, <3>1, NextMessage
  <2>3. /\ BodyLength' = BodyLength /\ Rest' = Rest
        /\ \A r : Body(r)' = Body(r) /\ Executed(r)' = Executed(r)
    BY <1>1, MessagesKept
  <2>4. (\A r : Accepted(r)' = Accepted(r)) /\ (\A m : NoneCloses(m)' = NoneCloses(m))
    BY <1>1, HeadersKept
  <2> QED
    BY <1>1, <1>2, <2>1, <2>2, <2>3, <2>4 DEF FramingInv
<1> QED
  BY <1>3, <1>4, <1>5, <1>6

\* Every step of the client and of the server.
LEMMA NextFraming == MemoryInv /\ FramingInv /\ Framed /\ [Next]_vars => FramingInv'
<1> SUFFICES ASSUME MemoryInv, FramingInv, Framed, [Next]_vars PROVE FramingInv'
  OBVIOUS
<1>1. CASE ClientSend
  BY <1>1, ClientSendFraming
<1>2. CASE ClientClose \/ ClientRead \/ Select \/ SkipHeader \/ ReturnStep \/ UNCHANGED vars
  BY <1>2, OtherFraming
<1>3. CASE ReceiveHeader
  BY <1>3, ReceiveHeaderFraming
<1>4. CASE TcpParseHeader
  BY <1>4, TcpParseFraming
<1>8. CASE HttpParseHeader
  BY <1>8, HttpParseFraming
<1>5. CASE ReadRequestStep
  BY <1>5, ReadRequestFraming
<1>6. CASE ExecuteStep
  BY <1>6, ExecuteFraming
<1>7. CASE WriteStep
  BY <1>7, WriteFraming
<1>9. CASE ThrowStep
  BY <1>9, ThrowFraming
<1> QED
  BY <1>1, <1>2, <1>3, <1>4, <1>5, <1>6, <1>7, <1>8, <1>9 DEF Next, Server

------------------------------------------------------------------------------
\* Flattening one sequence more.
LEMMA FlatOneMore ==
    ASSUME NEW n \in Nat, NEW f, f = [i \in 1 .. n + 1 |-> f[i]],
           \A i \in 1 .. n + 1 : IsSequence(f[i])
    PROVE  /\ IsSequence(FlattenSeq([i \in 1 .. n |-> f[i]]))
           /\ FlattenSeq(f) = Join(FlattenSeq([i \in 1 .. n |-> f[i]]), f[n + 1])
<1> PICK g : g = FirstValues(f, n)
  OBVIOUS
<1>1. /\ f = Append(g, f[n + 1]) /\ (\E T : g \in Seq(T)) /\ Len(g) = n
      /\ \A i \in 1 .. n : g[i] = f[i]
  <2>1. f = FirstValues(f, n + 1)
    BY Zenon DEF FirstValues
  <2> QED
    BY <2>1, LastValue, Zenon
<1>2. PICK T : g \in Seq(T)
  BY <1>1
<1>3. /\ \A i \in 1 .. Len(g) : IsSequence(g[i])
      /\ IsSequence(f[n + 1])
  <2>1. n + 1 \in 1 .. n + 1 /\ \A i \in 1 .. n : i \in 1 .. n + 1
    OBVIOUS
  <2> QED
    BY <1>1, <2>1
<1>4. IsSequence(FlattenSeq(g))
  BY <1>2, <1>3, FlatSequence
<1>5. FlattenSeq(Append(g, f[n + 1])) = Join(FlattenSeq(g), f[n + 1])
  BY <1>2, <1>3, FlatNext
<1>6. g = [i \in 1 .. n |-> f[i]]
  BY Zenon DEF FirstValues
<1> QED
  BY <1>1, <1>4, <1>5, <1>6, Zenon

\* Nothing to flatten.
LEMMA FlatNone == ASSUME NEW f, f = [i \in 1 .. 0 |-> f[i]] PROVE FlattenSeq(f) = <<>>
<1>1. f = <<>>
  OBVIOUS
<1>2. f \in Seq({}) /\ Len(f) = 0
  BY <1>1, EmptySeq
<1> QED
  BY <1>1, <1>2 DEF FlattenSeq

\* The messages up to the n-th.
Done(n) == FlattenSeq([i \in 1 .. n |-> Frame(i)])

\* One message more.
LEMMA DoneNext ==
    ASSUME sc \in Scenario, NEW n \in Nat, n + 1 \in 1 .. Len(BodyLength)
    PROVE  IsSequence(Done(n)) /\ Done(n + 1) = Join(Done(n), Frame(n + 1))
<1> DEFINE f == [i \in 1 .. n + 1 |-> Frame(i)]
<1>1. f = [i \in 1 .. n + 1 |-> f[i]] /\ \A i \in 1 .. n + 1 : f[i] = Frame(i)
  OBVIOUS
<1>2. FlattenSeq(f) = Done(n + 1) /\ Done(n) = FlattenSeq([i \in 1 .. n |-> f[i]])
  <2>1. [i \in 1 .. n |-> Frame(i)] = [i \in 1 .. n |-> f[i]]
    OBVIOUS
  <2> QED
    BY <2>1 DEF Done
<1> HIDE DEF f
<1>3. ASSUME NEW i \in 1 .. n + 1 PROVE IsSequence(f[i])
  <2>1. Len(BodyLength) \in Nat
    BY RestOfStream
  <2>2. i \in 1 .. Len(BodyLength)
    BY <2>1
  <2> QED
    BY <1>1, <2>2, RestOfMessage
<1>4. /\ IsSequence(FlattenSeq([i \in 1 .. n |-> f[i]]))
      /\ FlattenSeq(f) = Join(FlattenSeq([i \in 1 .. n |-> f[i]]), f[n + 1])
  BY <1>1, <1>3, FlatOneMore
<1>5. f[n + 1] = Frame(n + 1)
  BY <1>1
<1> QED
  BY <1>2, <1>4, <1>5

\* The stream is the messages up to the n-th and the others.
LEMMA StreamAtMessage ==
    ASSUME sc \in Scenario, NEW n \in 0 .. Len(BodyLength)
    PROVE  IsSequence(Done(n)) /\ Done(0) = <<>> /\ Stream = Join(Done(n), Rest[n])
<1> DEFINE Good == {m \in Nat : m <= Len(BodyLength)
                       => IsSequence(Done(m)) /\ Stream = Join(Done(m), Rest[m])}
<1>1. Remainders(Rest) /\ Len(BodyLength) \in Nat
  BY RestOfStream
<1>2. Done(0) = <<>>
  BY FlatNone DEF Done
<1>3. 0 \in Good
  <2>1. IsSequence(Rest[0]) /\ Rest[0] = Stream
    BY <1>1 DEF Remainders
  <2> QED
    BY <1>2, <2>1, JoinEmpty, EmptyIsSequence
<1>4. ASSUME NEW m \in Nat, m \in Good PROVE m + 1 \in Good
  <2> SUFFICES ASSUME m + 1 <= Len(BodyLength)
               PROVE  IsSequence(Done(m + 1)) /\ Stream = Join(Done(m + 1), Rest[m + 1])
    OBVIOUS
  <2>1. /\ m + 1 \in 1 .. Len(BodyLength) /\ m + 1 \in 0 .. Len(BodyLength)
        /\ m \in 0 .. Len(BodyLength) - 1 /\ m <= Len(BodyLength)
    BY <1>1
  <2>2. Stream = Join(Done(m), Rest[m])
    BY <1>4, <2>1
  <2>3. IsSequence(Done(m)) /\ Done(m + 1) = Join(Done(m), Frame(m + 1))
    BY <2>1, DoneNext
  <2>4. IsSequence(Rest[m + 1]) /\ Rest[m] = Join(Frame(m + 1), Rest[m + 1])
    BY <1>1, <2>1 DEF Remainders
  <2>5. IsSequence(Frame(m + 1))
    BY <2>1, RestOfMessage
  <2> HIDE DEF Good
  <2>6. Join(Join(Done(m), Frame(m + 1)), Rest[m + 1]) = Join(Done(m), Join(Frame(m + 1), Rest[m + 1]))
    BY <2>3, <2>4, <2>5, JoinAssociative
  <2>7. IsSequence(Join(Done(m), Frame(m + 1)))
    BY <2>3, <2>5, JoinElements
  <2> QED
    BY <2>2, <2>3, <2>4, <2>6, <2>7
<1> HIDE DEF Good
<1>5. n \in Nat /\ n \in Good
  BY <1>1, <1>3, <1>4, NatSetInduction
<1> QED
  BY <1>1, <1>2, <1>5 DEF Good

\* Without its last comma, what has been executed is before what is still to come.
LEMMA DoneButComma ==
    ASSUME sc \in Scenario, ~Http, NEW n \in 1 .. Len(BodyLength)
    PROVE  /\ Len(Done(n)) \in Nat /\ IsSequence(First(Done(n), Len(Done(n)) - 1))
           /\ Stream = Join(First(Done(n), Len(Done(n)) - 1), Join(Single(Comma), Rest[n]))
<1>1. Remainders(Rest) /\ Len(BodyLength) \in Nat
  BY RestOfStream
<1> DEFINE m == n - 1
           p == Join(Join(Decimal(BodyLength[n]), Single(Colon)), Body(n))
           x == Join(Done(m), p)
           c == Single(Comma)
<1>2. m \in Nat /\ m + 1 = n /\ m + 1 \in 1 .. Len(BodyLength) /\ n \in 0 .. Len(BodyLength)
  BY <1>1
<1>3. IsSequence(Done(m)) /\ Done(n) = Join(Done(m), Frame(n))
  <2> HIDE DEF m
  <2>1. IsSequence(Done(m)) /\ Done(m + 1) = Join(Done(m), Frame(m + 1))
    BY <1>2, DoneNext
  <2> QED
    BY <1>2, <2>1
<1>4. IsSequence(p) /\ IsSequence(c) /\ Len(c) = 1 /\ Frame(n) = Join(p, c)
  <2>1. IsSequence(Decimal(BodyLength[n])) /\ IsSequence(Body(n)) /\ IsSequence(Single(Colon))
    BY BodyOfRequest, DecimalDigits, SingleElement
  <2>2. IsSequence(Join(Decimal(BodyLength[n]), Single(Colon)))
    BY <2>1, JoinElements
  <2> QED
    BY <2>1, <2>2, JoinElements, SingleElement, FrameOverTcp
<1> HIDE DEF m, p, c
<1>5. IsSequence(x) /\ Len(x) \in Nat
  BY <1>3, <1>4, JoinElements
<1>6. Done(n) = Join(x, c)
  BY <1>3, <1>4, JoinAssociative
<1> HIDE DEF x
<1>7. IsSequence(Done(n)) /\ Len(Done(n)) = Len(x) + 1
  <2>1. IsSequence(Join(x, c)) /\ Len(Join(x, c)) = Len(x) + Len(c)
    BY <1>4, <1>5, JoinElements
  <2> QED
    BY <1>4, <1>6, <2>1
<1>8. First(Done(n), Len(x)) = x
  <2>1. Len(x) \in 0 .. Len(Done(n))
    BY <1>5, <1>7
  <2>2. /\ Done(n) = Join(First(Done(n), Len(x)), After(Done(n), Len(x)))
        /\ IsSequence(First(Done(n), Len(x))) /\ Len(First(Done(n), Len(x))) = Len(x)
        /\ IsSequence(After(Done(n), Len(x)))
    BY <1>7, <2>1, CutInTwo
  <2> DEFINE a == First(Done(n), Len(x))
             b == After(Done(n), Len(x))
  <2>3. IsSequence(a) /\ IsSequence(b) /\ Len(a) = Len(x) /\ Join(a, b) = Join(x, c)
    BY <1>6, <2>2
  <2> HIDE DEF a, b
  <2>4. a = x
    BY <1>4, <1>5, <2>3, CutEqual
  <2> QED
    BY <2>4 DEF a
<1>9. Stream = Join(Done(n), Rest[n]) /\ IsSequence(Rest[n])
  BY <1>1, <1>2, StreamAtMessage DEF Remainders
<1>10. Join(Join(x, c), Rest[n]) = Join(x, Join(c, Rest[n]))
  BY <1>4, <1>5, <1>9, JoinAssociative
<1>11. Len(Done(n)) - 1 = Len(x)
  BY <1>5, <1>7
<1> QED
  BY <1>5, <1>6, <1>7, <1>8, <1>9, <1>10, <1>11 DEF c

------------------------------------------------------------------------------
\* What the client has read and what is on its way to it.
Sent == Join(responses, inFlight)

\* What the client is to read for the messages up to the n-th.
OwedTo(n) == FlattenSeq([i \in 1 .. n |-> Owed(i)])

\* A response has at least its header.
LEMMA ResponseSegments ==
    ASSUME sc \in Scenario, NEW r \in 1 .. Len(BodyLength)
    PROVE  /\ IsSequence(Response(r)) /\ Len(Response(r)) \in Nat \ {0}
           /\ IsSequence(Owed(r))
           /\ Owed(r) = IF Http \/ r \notin Notifications THEN Response(r) ELSE <<>>
<1> DEFINE m == IF r \in Notifications \/ Method(r) # "POST" THEN 0 ELSE Segments[r]
           response == [i \in 1 .. m + 1 |-> <<r, i>>]
           T == {<<r, i>> : i \in 1 .. m + 1}
<1>1. m \in Nat
  <2>1. BodyLength \in Seq(1 .. 99) /\ Segments \in [DOMAIN BodyLength -> Nat \ {0}]
    BY ScenarioAssumption DEF BodyLength, Segments
  <2>2. DOMAIN BodyLength = 1 .. Len(BodyLength)
    BY <2>1, LenProperties
  <2>3. Segments[r] \in Nat
    BY <2>1, <2>2
  <2> QED
    BY <2>3
<1>2. Response(r) = response
  BY DEF Response
<1> HIDE DEF m
<1>3. response \in [1 .. m + 1 -> T] /\ DOMAIN response = 1 .. m + 1 /\ m + 1 \in Nat \ {0}
  BY <1>1
<1> HIDE DEF response, T
<1>4. response \in Seq(T)
  BY <1>3, SeqDef
<1>5. Len(response) = m + 1
  BY <1>3, <1>4, LenOfDomain
<1>6. IsSequence(Response(r)) /\ Len(Response(r)) \in Nat \ {0}
  BY <1>2, <1>3, <1>4, <1>5 DEF IsSequence
<1>7. Owed(r) = IF Http \/ r \notin Notifications THEN Response(r) ELSE <<>>
  BY DEF Owed
<1> QED
  BY <1>6, <1>7, EmptyIsSequence

\* One message more.
LEMMA OwedNext ==
    ASSUME sc \in Scenario, NEW n \in Nat, n + 1 \in 1 .. Len(BodyLength)
    PROVE  /\ IsSequence(OwedTo(n)) /\ IsSequence(OwedTo(n + 1))
           /\ OwedTo(n + 1) = Join(OwedTo(n), Owed(n + 1))
<1> DEFINE f == [i \in 1 .. n + 1 |-> Owed(i)]
<1>1. f = [i \in 1 .. n + 1 |-> f[i]] /\ \A i \in 1 .. n + 1 : f[i] = Owed(i)
  OBVIOUS
<1>2. FlattenSeq(f) = OwedTo(n + 1) /\ OwedTo(n) = FlattenSeq([i \in 1 .. n |-> f[i]])
  <2>1. [i \in 1 .. n |-> Owed(i)] = [i \in 1 .. n |-> f[i]]
    OBVIOUS
  <2> QED
    BY <2>1 DEF OwedTo
<1> HIDE DEF f
<1>3. ASSUME NEW i \in 1 .. n + 1 PROVE IsSequence(f[i])
  <2>1. Len(BodyLength) \in Nat
    BY RestOfStream
  <2>2. i \in 1 .. Len(BodyLength)
    BY <2>1
  <2> QED
    BY <1>1, <2>2, ResponseSegments
<1>4. /\ IsSequence(FlattenSeq([i \in 1 .. n |-> f[i]]))
      /\ FlattenSeq(f) = Join(FlattenSeq([i \in 1 .. n |-> f[i]]), f[n + 1])
  BY <1>1, <1>3, FlatOneMore
<1>5. f[n + 1] = Owed(n + 1) /\ IsSequence(Owed(n + 1))
  BY <1>1, <1>3
<1>6. IsSequence(Join(OwedTo(n), Owed(n + 1)))
  BY <1>2, <1>4, <1>5, JoinElements
<1> QED
  BY <1>2, <1>4, <1>5, <1>6

\* It is a sequence, for no message too.
LEMMA OwedSequence ==
    ASSUME sc \in Scenario, NEW n \in 0 .. Len(BodyLength)
    PROVE  IsSequence(OwedTo(n)) /\ OwedTo(0) = <<>>
<1>1. Len(BodyLength) \in Nat
  BY RestOfStream
<1>2. OwedTo(0) = <<>>
  BY FlatNone DEF OwedTo
<1>3. CASE n = 0
  BY <1>2, <1>3, EmptyIsSequence
<1>4. CASE n # 0
  <2> DEFINE m == n - 1
  <2>1. m \in Nat /\ m + 1 = n /\ m + 1 \in 1 .. Len(BodyLength)
    BY <1>1, <1>4
  <2> HIDE DEF m
  <2>2. IsSequence(OwedTo(m + 1))
    BY <2>1, OwedNext
  <2> QED
    BY <1>2, <2>1, <2>2
<1> QED
  BY <1>3, <1>4

\* The states in which no response is being written.
Reading == {"READ_HEADER", "READ_REQUEST", "EXECUTE_REQUEST"}

\* Segments up to the written-th of the response to message n have been sent.
Answering(n) ==
    /\ n \in 1 .. Len(BodyLength) /\ answer = n /\ Owed(n) = Response(n)
    /\ written \in 0 .. Len(Response(n)) - 1
    /\ Sent = Join(OwedTo(n - 1), First(Response(n), written))

\* The inductive invariant, beside FramingInv.
ResponseInv ==
    /\ IsSequence(responses) /\ IsSequence(inFlight)
    /\ k.state \in Reading => Sent = OwedTo(Len(executed)) /\ written = 0
    /\ k.state = "WRITE_RESPONSE" => Answering(Len(executed))
    /\ k.state = "CLOSE_CONNECTION" =>
          \E rest : IsSequence(rest) /\ OwedTo(Len(executed)) = Join(Sent, rest)

\* What is owed stays as it is.
LEMMA OwedKept ==
    ASSUME sc' = sc
    PROVE  /\ Notifications' = Notifications
           /\ \A n : Response(n)' = Response(n) /\ Owed(n)' = Owed(n) /\ OwedTo(n)' = OwedTo(n)
<1>1. /\ Notifications' = Notifications /\ Segments' = Segments /\ Http' = Http
      /\ \A r : HeaderOf(r)' = HeaderOf(r)
  BY DEF Notifications, Segments, Http, HeaderOf
<1>2. \A r : Method(r)' = Method(r)
  BY <1>1 DEF Method
<1>3. \A r : Response(r)' = Response(r)
  BY <1>1, <1>2 DEF Response
<1>4. \A r : Owed(r)' = Owed(r)
  BY <1>1, <1>3 DEF Owed
<1>5. \A r : OwedTo(r)' = OwedTo(r)
  BY <1>4 DEF OwedTo
<1> QED
  BY <1>1, <1>3, <1>4, <1>5

\* How many messages have been executed.
LEMMA ExecutedCount ==
    ASSUME MemoryInv, FramingInv
    PROVE  /\ Len(executed) \in 0 .. Len(BodyLength) /\ executed = Executed(Len(executed))
           /\ Len(BodyLength) \in Nat
<1>1. PICK n \in 0 .. Len(BodyLength) : executed = Executed(n)
  BY DEF FramingInv
<1>2. Len(BodyLength) \in Nat /\ n \in Nat
  BY RestOfStream DEF MemoryInv
<1>3. Len(executed) = n
  BY <1>1, <1>2, ExecutedNext
<1> QED
  BY <1>1, <1>2, <1>3

\* Whatever the connection does, what it has sent is a beginning of what it owes.
LEMMA SentIsPrefix ==
    ASSUME MemoryInv, FramingInv, ResponseInv
    PROVE  \E rest : IsSequence(rest) /\ OwedTo(Len(executed)) = Join(Sent, rest)
<1> DEFINE n == Len(executed)
<1>1. /\ n \in 0 .. Len(BodyLength) /\ sc \in Scenario /\ Len(BodyLength) \in Nat
  BY ExecutedCount DEF MemoryInv
<1>2. \/ k.state \in Reading \/ k.state = "WRITE_RESPONSE" \/ k.state = "CLOSE_CONNECTION"
  BY DEF MemoryInv, InMemory, ConnectionState, Reading
<1> HIDE DEF n
<1>3. CASE k.state \in Reading
  <2>1. Sent = OwedTo(n) /\ IsSequence(OwedTo(n))
    BY <1>1, <1>3, OwedSequence DEF ResponseInv, n
  <2>2. OwedTo(n) = Join(Sent, <<>>)
    BY <2>1, JoinEmpty
  <2> QED
    BY <2>2, EmptyIsSequence DEF n
<1>4. CASE k.state = "WRITE_RESPONSE"
  <2> DEFINE m == n - 1
             r == Response(n)
             a == First(r, written)
             b == After(r, written)
  <2>1. /\ n \in 1 .. Len(BodyLength) /\ Owed(n) = r
        /\ written \in 0 .. Len(r) - 1 /\ Sent = Join(OwedTo(m), a)
    BY <1>4 DEF ResponseInv, Answering, n
  <2>2. IsSequence(r) /\ Len(r) \in Nat /\ Owed(n) = r
    BY <1>1, <2>1, ResponseSegments
  <2>3. m \in Nat /\ m + 1 = n /\ written \in 0 .. Len(r)
    BY <1>1, <2>1, <2>2
  <2>4. r = Join(a, b) /\ IsSequence(a) /\ IsSequence(b)
    BY <2>2, <2>3, CutInTwo
  <2> HIDE DEF m, r, a, b
  <2>5. IsSequence(OwedTo(m)) /\ OwedTo(n) = Join(OwedTo(m), r)
    <3>1. m + 1 \in 1 .. Len(BodyLength)
      BY <2>1, <2>3
    <3>2. IsSequence(OwedTo(m)) /\ OwedTo(m + 1) = Join(OwedTo(m), Owed(m + 1))
      BY <1>1, <2>3, <3>1, OwedNext
    <3> QED
      BY <2>2, <2>3, <3>2
  <2>6. Join(Join(OwedTo(m), a), b) = Join(OwedTo(m), Join(a, b))
    BY <2>4, <2>5, JoinAssociative
  <2>7. OwedTo(n) = Join(Sent, b)
    BY <2>1, <2>4, <2>5, <2>6
  <2> QED
    BY <2>4, <2>7 DEF n
<1>5. CASE k.state = "CLOSE_CONNECTION"
  BY <1>5 DEF ResponseInv
<1> QED
  BY <1>2, <1>3, <1>4, <1>5

\* A step that sends nothing and executes nothing, or closes the connection.
LEMMA NothingSent ==
    ASSUME MemoryInv, FramingInv, ResponseInv,
           UNCHANGED <<sc, executed, answer, written>>, Sent' = Sent,
           IsSequence(responses'), IsSequence(inFlight'),
           \/ k'.state = "CLOSE_CONNECTION"
           \/ k'.state = k.state
           \/ k'.state \in Reading /\ k.state \in Reading
    PROVE  ResponseInv'
<1>1. /\ Notifications' = Notifications /\ BodyLength' = BodyLength
      /\ \A n : Response(n)' = Response(n) /\ Owed(n)' = Owed(n) /\ OwedTo(n)' = OwedTo(n)
  BY OwedKept, MessagesKept
<1>2. CASE k'.state = "CLOSE_CONNECTION"
  <2>1. k'.state \notin Reading /\ k'.state # "WRITE_RESPONSE"
    BY <1>2 DEF Reading
  <2> QED
    BY <1>1, <2>1, SentIsPrefix DEF ResponseInv, Reading
<1>3. CASE k'.state = k.state \/ (k'.state \in Reading /\ k.state \in Reading)
  <2>1. k'.state \in Reading => Sent' = OwedTo(Len(executed))' /\ written' = 0
    BY <1>1, <1>3 DEF ResponseInv
  <2>2. k'.state = "WRITE_RESPONSE" => Answering(Len(executed))'
    <3> SUFFICES ASSUME k'.state = "WRITE_RESPONSE" PROVE Answering(Len(executed))'
      OBVIOUS
    <3>1. k.state = "WRITE_RESPONSE"
      BY <1>3 DEF Reading
    <3>2. Answering(Len(executed))
      BY <3>1 DEF ResponseInv
    <3> QED
      BY <1>1, <3>2 DEF Answering
  <2>3. k'.state = "CLOSE_CONNECTION" =>
           \E rest : IsSequence(rest) /\ OwedTo(Len(executed))' = Join(Sent', rest)
    BY <1>1, SentIsPrefix
  <2> QED
    BY <2>1, <2>2, <2>3 DEF ResponseInv, Reading
<1> QED
  BY <1>2, <1>3

\* The client reads a segment: it has moved from what is on its way to what was read.
LEMMA SegmentRead ==
    ASSUME ResponseInv, ClientRead
    PROVE  Sent' = Sent /\ IsSequence(responses') /\ IsSequence(inFlight')
<1> DEFINE x == Single(Head(inFlight))
           t == Tail(inFlight)
<1>1. /\ UNCHANGED <<sc, executed, answer, written, k>> /\ inFlight # <<>>
      /\ responses' = Append(responses, Head(inFlight)) /\ inFlight' = t
  BY DEF ClientRead
<1>2. PICK S : responses \in Seq(S)
  BY DEF ResponseInv, IsSequence
<1>3. PICK T : inFlight \in Seq(T)
  BY DEF ResponseInv, IsSequence
<1>4. responses' = Join(responses, x)
  <2>1. responses \in Seq(S \cup {Head(inFlight)})
    BY <1>2, SeqMonotonic
  <2>2. Append(responses, Head(inFlight)) = responses \o <<Head(inFlight)>>
    BY <2>1, AppendIsConcat
  <2> QED
    BY <1>1, <2>2 DEF Join, Single
<1>5. inFlight = Join(x, t) /\ t \in Seq(T)
  <2>1. /\ t \in Seq(T) /\ Len(t) = Len(inFlight) - 1 /\ Len(inFlight) \in Nat \ {0}
        /\ \A i \in 1 .. Len(t) : t[i] = inFlight[i + 1]
    BY <1>1, <1>3, HeadTailProperties, LenProperties, EmptySeq
  <2>2. IsSequence(x) /\ Len(x) = 1 /\ x[1] = inFlight[1]
    BY SingleElement
  <2>3. IsSequence(t) /\ IsSequence(inFlight)
    BY <1>3, <2>1 DEF IsSequence
  <2> HIDE DEF x, t
  <2>4. IsSequence(Join(x, t)) /\ Len(Join(x, t)) = Len(inFlight)
    <3>1. IsSequence(Join(x, t)) /\ Len(Join(x, t)) = Len(x) + Len(t)
      BY <2>2, <2>3, JoinElements
    <3> QED
      BY <2>1, <2>2, <3>1
  <2>5. ASSUME NEW i \in 1 .. Len(inFlight) PROVE inFlight[i] = Join(x, t)[i]
    <3>1. CASE i = 1
      <4>1. 1 \in 1 .. Len(x)
        BY <2>2
      <4> QED
        BY <2>2, <2>3, <3>1, <4>1, JoinFront
    <3>2. CASE i # 1
      <4> DEFINE j == i - 1
      <4>1. j \in 1 .. Len(t) /\ j + 1 = i /\ Len(x) + j = i
        BY <2>1, <2>2, <3>2
      <4> HIDE DEF j
      <4>2. Join(x, t)[Len(x) + j] = t[j]
        <5>1. IsSequence(x) /\ IsSequence(t) /\ j \in 1 .. Len(t)
          BY <2>2, <2>3, <4>1
        <5> QED
          BY ONLY <5>1, JoinBehind
      <4>3. t[j] = inFlight[j + 1]
        BY <2>1, <4>1
      <4> QED
        BY <4>1, <4>2, <4>3
    <3> QED
      BY <3>1, <3>2
  <2>6. inFlight = Join(x, t)
    BY <2>3, <2>4, <2>5, SameSequence
  <2> QED
    BY <2>1, <2>6
<1>6. IsSequence(x) /\ IsSequence(t) /\ IsSequence(responses)
  BY <1>2, <1>5, SingleElement DEF IsSequence
<1> HIDE DEF x, t
<1>7. Join(Join(responses, x), t) = Join(responses, Join(x, t))
  BY <1>6, JoinAssociative
<1>8. Sent' = Sent
  BY <1>1, <1>4, <1>5, <1>7 DEF Sent
<1>9. IsSequence(responses') /\ IsSequence(inFlight')
  BY <1>1, <1>4, <1>6, JoinElements
<1> QED
  BY <1>8, <1>9

\* So nothing changes in what has been sent.
LEMMA ClientReadResponses ==
    ASSUME MemoryInv, FramingInv, ResponseInv, ClientRead PROVE ResponseInv'
<1>1. UNCHANGED <<sc, executed, answer, written, k>>
  BY DEF ClientRead
<1>8. Sent' = Sent
  BY SegmentRead
<1>9. IsSequence(responses') /\ IsSequence(inFlight')
  BY SegmentRead
<1> QED
  BY <1>1, <1>8, <1>9, NothingSent

\* Receiving and parsing send nothing.
LEMMA OtherResponses ==
    ASSUME MemoryInv, FramingInv, ResponseInv,
           \/ ClientSend \/ ClientClose \/ Select \/ ReceiveHeader
           \/ TcpParseHeader \/ HttpParseHeader
           \/ SkipHeader \/ ReadRequestStep \/ ReturnStep \/ UNCHANGED vars
    PROVE  ResponseInv'
<1>1. /\ UNCHANGED <<sc, executed, answer, written, outVars>> /\ InMemory(k)
  BY DEF ClientSend, ClientClose, Select, ReceiveHeader, TcpParseHeader, HttpParseHeader,
         SkipHeader, ReadRequestStep, ReturnStep, vars, MemoryInv
<1>2. Sent' = Sent /\ IsSequence(responses') /\ IsSequence(inFlight')
  BY <1>1 DEF Sent, outVars, ResponseInv
<1>3. Closed(k).state = "CLOSE_CONNECTION" /\ DOMAIN k = Fields
  BY <1>1, ClosedState, FieldsOfConnection DEF InMemory
<1>4. \/ k'.state = "CLOSE_CONNECTION"
      \/ k'.state = k.state
      \/ k'.state \in Reading /\ k.state \in Reading
  <2>1. CASE ClientSend \/ ClientClose \/ Select \/ SkipHeader \/ ReturnStep \/ UNCHANGED vars
    BY <2>1 DEF ClientSend, ClientClose, Select, SkipHeader, ReturnStep, vars
  <2>2. CASE ReceiveHeader
    <3>1. \/ k' = Closed(k)
          \/ \E b : k' = [k EXCEPT !.buffer = StoreReceived(@, k.bufferLength, b),
                                   !.bufferLength = @ + Len(b)]
      BY <2>2 DEF ReceiveHeader
    <3> QED
      BY <1>3, <3>1 DEF Fields
  <2>3. CASE TcpParseHeader
    <3>1. \/ k' = k \/ k' = Closed(k)
          \/ \E bodyAt, length : k' = Terminate(PrepareRequest(k, bodyAt, length, TRUE))
      BY <2>3 DEF TcpParseHeader
    <3>2. k.state = "READ_HEADER"
      BY <2>3 DEF TcpParseHeader, FramingInv
    <3>3. \A bodyAt, length :
             Terminate(PrepareRequest(k, bodyAt, length, TRUE)).state = "READ_REQUEST"
      BY <1>1, PreparedFields
    <3> QED
      BY <1>3, <3>1, <3>2, <3>3 DEF Reading
  <2>5. CASE HttpParseHeader
    <3>1. \/ k' = Closed(k)
          \/ \E h : k' = [k EXCEPT !.http = h]
          \/ \E h, bodyAt, length, alive : k' = PrepareRequest([k EXCEPT !.http = h], bodyAt, length, alive)
      BY <2>5 DEF HttpParseHeader
    <3>2. k.state = "READ_HEADER"
      BY <2>5 DEF HttpParseHeader, FramingInv
    <3>3. ASSUME NEW h, NEW bodyAt, NEW length, NEW alive
          PROVE  /\ [k EXCEPT !.http = h].state = k.state
                 /\ PrepareRequest([k EXCEPT !.http = h], bodyAt, length, alive).state = "READ_REQUEST"
      <4> DEFINE c == [k EXCEPT !.http = h]
      <4>1. DOMAIN c = Fields /\ c.state = k.state
        BY <1>3 DEF Fields
      <4> HIDE DEF c
      <4>2. PrepareRequest(c, bodyAt, length, alive).state = "READ_REQUEST"
        BY <4>1 DEF PrepareRequest, Fields
      <4> QED
        BY <4>1, <4>2 DEF c
    <3>4. CASE k' = Closed(k)
      BY <1>3, <3>4
    <3>5. CASE \E h : k' = [k EXCEPT !.http = h]
      BY <3>3, <3>5
    <3>6. CASE \E h, bodyAt, length, alive : k' = PrepareRequest([k EXCEPT !.http = h], bodyAt, length, alive)
      <4>1. PICK h, bodyAt, length, alive : k' = PrepareRequest([k EXCEPT !.http = h], bodyAt, length, alive)
        BY <3>6
      <4>2. k'.state = "READ_REQUEST"
        BY <3>3, <4>1
      <4> QED
        BY <3>2, <4>2 DEF Reading
    <3> QED
      BY <3>1, <3>4, <3>5, <3>6
  <2>4. CASE ReadRequestStep
    <3>1. CASE k.state # "READ_REQUEST"
      BY <2>4, <3>1 DEF ReadRequestStep
    <3>2. CASE k.state = "READ_REQUEST"
      <4>1. \/ k' = Closed(k)
            \/ k' = ReadRequest(k, Received(input, RequestRoom(k)))
        BY <2>4, <3>2 DEF ReadRequestStep
      <4>2. /\ k.request # "none" /\ RequestRoom(k) \in Nat /\ IsSequence(input)
        BY <1>1, <3>2 DEF InMemory, RequestRoom, MemoryInv
      <4>3. /\ IsSequence(Received(input, RequestRoom(k)))
            /\ Len(Received(input, RequestRoom(k))) \in 0 .. RequestRoom(k)
        BY <4>2, ReceivesAtMost
      <4> DEFINE bytes == Received(input, RequestRoom(k))
      <4> HIDE DEF bytes
      <4>4. ReadRequest(k, bytes).state \in {k.state, "EXECUTE_REQUEST"}
        BY <1>1, <4>2, <4>3, RegionRead DEF bytes
      <4> QED
        BY <1>3, <3>2, <4>1, <4>4 DEF Reading, bytes
    <3> QED
      BY <3>1, <3>2
  <2> QED
    BY <2>1, <2>2, <2>3, <2>4, <2>5
<1> QED
  BY <1>1, <1>2, <1>4, NothingSent

\* ExecuteRequest: nothing of the response is sent yet, and none is owed for a
\* notification.
LEMMA ExecuteResponses ==
    ASSUME MemoryInv, FramingInv, ResponseInv, ExecuteStep PROVE ResponseInv'
<1>1. /\ UNCHANGED <<sc, written, responses, inFlight>> /\ k.state = "EXECUTE_REQUEST"
      /\ InMemory(k) /\ sc \in Scenario /\ DOMAIN k = Fields
  BY FieldsOfConnection DEF ExecuteStep, outVars, MemoryInv, InMemory
<1>2. PICK n \in Nat : executed = Executed(n) /\ InRequest(n + 1) /\ Complete
  BY <1>1 DEF FramingInv
<1>3. Len(executed) = n /\ n + 1 \in Nat /\ (n + 1) - 1 = n /\ n + 1 \in 1 .. Len(BodyLength)
  BY <1>2, ExecutedNext DEF InRequest
<1>4. RequestBytes(k) = Body(n + 1) /\ RequestOf(Body(n + 1)) = n + 1
  BY <1>1, <1>2, <1>3, RequestIsBody, BodyOfRequest
<1>5. /\ Sent' = Sent /\ Sent = OwedTo(n) /\ written = 0 /\ IsSequence(responses')
      /\ IsSequence(inFlight')
  BY <1>1, <1>3 DEF Sent, ResponseInv, Reading
<1>6. /\ IsSequence(Response(n + 1)) /\ Len(Response(n + 1)) \in Nat \ {0}
      /\ Owed(n + 1) = IF Http \/ n + 1 \notin Notifications THEN Response(n + 1) ELSE <<>>
  BY <1>1, <1>3, ResponseSegments
<1>7. IsSequence(OwedTo(n)) /\ OwedTo(n + 1) = Join(OwedTo(n), Owed(n + 1))
  BY <1>1, <1>3, OwedNext
<1>8. /\ Notifications' = Notifications /\ BodyLength' = BodyLength
      /\ \A m : Response(m)' = Response(m) /\ Owed(m)' = Owed(m) /\ OwedTo(m)' = OwedTo(m)
  BY <1>1, OwedKept, MessagesKept
<1>9. \/ k' = Closed(k) /\ executed' = executed
      \/ ~Http /\ k' = TcpExecuteRequest(n + 1)
      \/ Http /\ k' = [k EXCEPT !.state = "WRITE_RESPONSE"]
  <2>1. ~Http => k' = TcpExecuteRequest(n + 1)
    BY <1>4 DEF ExecuteStep
  <2> QED
    BY <2>1, ExecuteWays
<1>10. k'.state # "CLOSE_CONNECTION" => Len(executed') = n + 1
  <2>1. k'.state # "CLOSE_CONNECTION" => executed' = Append(executed, RequestBytes(k))
    BY DEF ExecuteStep
  <2>2. Append(Executed(n), Body(n + 1)) = Executed(n + 1)
    BY ExecutedNext
  <2>3. Len(Executed(n + 1)) = n + 1
    BY <1>3, ExecutedNext
  <2> QED
    BY <1>2, <1>4, <2>1, <2>2, <2>3
<1>13. CASE k' = Closed(k) /\ executed' = executed
  <2>1. k'.state = "CLOSE_CONNECTION"
    BY <1>1, <1>13, ClosedState
  <2>2. answer' = answer
    BY <2>1 DEF ExecuteStep
  <2> QED
    BY <1>1, <1>5, <1>13, <2>1, <2>2, NothingSent
<1>11. CASE ~Http /\ k' = TcpExecuteRequest(n + 1) /\ n + 1 \in Notifications
  <2>1. k'.state = "READ_HEADER"
    <3>1. k' = [Initialize(k, TRUE) EXCEPT !.state = "READ_HEADER"]
      BY <1>11 DEF TcpExecuteRequest
    <3>2. DOMAIN Initialize(k, TRUE) = Fields
      BY <1>1 DEF Initialize
    <3> QED
      BY <3>1, <3>2 DEF Fields
  <2>2. OwedTo(n + 1) = OwedTo(n)
    BY <1>6, <1>7, <1>11, JoinEmpty
  <2>3. Len(executed') = n + 1
    BY <1>10, <2>1
  <2>4. OwedTo(Len(executed))' = OwedTo(n + 1)
    BY <1>8, <2>3
  <2> QED
    BY <1>1, <1>5, <2>1, <2>2, <2>4 DEF ResponseInv
<1>12. CASE /\ k' = [k EXCEPT !.state = "WRITE_RESPONSE"]
            /\ Owed(n + 1) = Response(n + 1)
  <2>1. k'.state = "WRITE_RESPONSE"
    BY <1>1, <1>12 DEF Fields
  <2>2. answer' = n + 1
    BY <1>4, <2>1 DEF ExecuteStep
  <2>3. Len(executed') = n + 1
    BY <1>10, <2>1
  <2>4. First(Response(n + 1), 0) = <<>>
    <3>1. 0 \in 0 .. Len(Response(n + 1))
      BY <1>6
    <3>2. IsSequence(First(Response(n + 1), 0)) /\ Len(First(Response(n + 1), 0)) = 0
      BY <1>6, <3>1, CutInTwo
    <3> QED
      BY <3>2, EmptyIsSequence, SameSequence
  <2>5. Sent' = Join(OwedTo(n), First(Response(n + 1), 0))
    BY <1>5, <1>7, <2>4, JoinEmpty
  <2>6. written' = 0 /\ 0 \in 0 .. Len(Response(n + 1)) - 1
    BY <1>1, <1>5, <1>6
  <2>7. Answering(n + 1)'
    BY <1>3, <1>8, <1>12, <2>2, <2>5, <2>6 DEF Answering
  <2> QED
    BY <1>5, <2>1, <2>3, <2>7 DEF ResponseInv, Reading
<1> QED
  BY <1>6, <1>9, <1>11, <1>12, <1>13 DEF TcpExecuteRequest

\* An exception leaves the handler: a response may be owed, and none is sent.
LEMMA ThrowResponses ==
    ASSUME MemoryInv, FramingInv, ResponseInv, ThrowStep PROVE ResponseInv'
<1>1. /\ UNCHANGED <<sc, written, responses, inFlight>> /\ k.state = "EXECUTE_REQUEST"
      /\ k'.state = "CLOSE_CONNECTION" /\ sc \in Scenario
  BY FieldsOfConnection DEF ThrowStep, SetCloseState, outVars, MemoryInv, InMemory, Fields
<1>2. PICK n \in Nat :
         /\ executed = Executed(n) /\ executed' = Executed(n + 1)
         /\ n + 1 \in 1 .. Len(BodyLength)
  BY ThrowWay
<1>3. Len(executed) = n /\ Len(executed') = n + 1
  <2>1. n + 1 \in Nat
    OBVIOUS
  <2> QED
    BY <1>2, <2>1, ExecutedNext
<1>4. Sent' = Sent /\ Sent = OwedTo(n) /\ IsSequence(responses') /\ IsSequence(inFlight')
  BY <1>1, <1>3 DEF Sent, ResponseInv, Reading
<1>5. OwedTo(n + 1) = Join(OwedTo(n), Owed(n + 1))
  BY <1>1, <1>2, OwedNext
<1>6. IsSequence(Owed(n + 1))
  BY <1>1, <1>2, ResponseSegments, EmptyIsSequence
<1>7. \A m : OwedTo(m)' = OwedTo(m)
  BY <1>1, OwedKept
<1>8. OwedTo(Len(executed))' = Join(Sent', Owed(n + 1))
  BY <1>3, <1>4, <1>5, <1>7
<1> QED
  BY <1>1, <1>4, <1>6, <1>8 DEF ResponseInv, Reading

\* The first elements of a sequence, and one more.
LEMMA FirstOneMore ==
    ASSUME NEW s, IsSequence(s), NEW n \in 0 .. Len(s) - 1
    PROVE  First(s, n + 1) = Join(First(s, n), Single(s[n + 1]))
<1> DEFINE a == First(s, n)
           b == First(s, n + 1)
           x == Single(s[n + 1])
<1>1. n \in 0 .. Len(s) /\ n + 1 \in 0 .. Len(s) /\ n \in Nat
  BY JoinElements
<1>2. IsSequence(a) /\ Len(a) = n /\ \A i \in 1 .. n : a[i] = s[i]
  BY <1>1, CutInTwo
<1>3. IsSequence(b) /\ Len(b) = n + 1 /\ \A i \in 1 .. n + 1 : b[i] = s[i]
  BY <1>1, CutInTwo
<1>4. IsSequence(x) /\ Len(x) = 1 /\ x[1] = s[n + 1]
  BY SingleElement
<1> HIDE DEF a, b, x
<1>5. IsSequence(Join(a, x)) /\ Len(Join(a, x)) = n + 1
  <2>1. IsSequence(Join(a, x)) /\ Len(Join(a, x)) = Len(a) + Len(x)
    BY <1>2, <1>4, JoinElements
  <2> QED
    BY <1>2, <1>4, <2>1
<1>6. ASSUME NEW i \in 1 .. n + 1 PROVE b[i] = Join(a, x)[i]
  <2>1. CASE i = n + 1
    <3>1. 1 \in 1 .. Len(x) /\ Len(a) + 1 = i
      BY <1>2, <1>4, <2>1
    <3>2. Join(a, x)[Len(a) + 1] = x[1]
      <4>1. IsSequence(a) /\ IsSequence(x) /\ 1 \in 1 .. Len(x)
        BY <1>2, <1>4, <3>1
      <4> QED
        BY ONLY <4>1, JoinBehind
    <3> QED
      BY <1>3, <1>4, <2>1, <3>1, <3>2
  <2>2. CASE i # n + 1
    <3>1. i \in 1 .. n /\ i \in 1 .. Len(a)
      BY <1>1, <1>2, <2>2
    <3>2. Join(a, x)[i] = a[i]
      BY <1>2, <1>4, <3>1, JoinFront
    <3> QED
      BY <1>2, <1>3, <3>1, <3>2
  <2> QED
    BY <2>1, <2>2
<1>7. b = Join(a, x)
  BY <1>3, <1>5, <1>6, SameSequence
<1> QED
  BY <1>7 DEF a, b, x

\* WriteResponse writes the next segment of the response; with the last one, all that
\* is owed so far has been sent.
LEMMA SegmentSent ==
    ASSUME MemoryInv, FramingInv, ResponseInv, WriteStep, ~(Len(inFlight) >= SendBuffer),
           NEW n, n = Len(executed)
    PROVE  /\ n \in 1 .. Len(BodyLength) /\ Len(BodyLength) \in Nat /\ Len(executed') = n
           /\ answer = n /\ answer' = n /\ Owed(n)' = Response(n)' /\ Response(n)' = Response(n)
           /\ written \in 0 .. Len(Response(n)) - 1 /\ Len(Response(n)) \in Nat
           /\ Sent' = Join(OwedTo(n - 1)', First(Response(n), written + 1))
           /\ written + 1 = Len(Response(n)) => Sent' = OwedTo(n)'
           /\ IsSequence(OwedTo(n)') /\ IsSequence(responses') /\ IsSequence(inFlight')
           /\ BodyLength' = BodyLength
<1>1. /\ UNCHANGED <<sc, executed, answer, responses>> /\ k.state = "WRITE_RESPONSE"
      /\ sc \in Scenario /\ IsSequence(responses) /\ IsSequence(inFlight)
  BY DEF WriteStep, MemoryInv, ResponseInv
<1> DEFINE r == Response(n)
           x == Single(r[written + 1])
           a == First(r, written)
<1>2. /\ n \in 1 .. Len(BodyLength) /\ Len(BodyLength) \in Nat
      /\ answer = n /\ Owed(n) = r
      /\ written \in 0 .. Len(r) - 1 /\ Sent = Join(OwedTo(n - 1), a)
  BY <1>1, ExecutedCount DEF ResponseInv, Answering
<1>3. IsSequence(r) /\ Len(r) \in Nat \ {0}
  BY <1>1, <1>2, ResponseSegments
<1>4. n - 1 \in Nat /\ (n - 1) + 1 = n /\ written \in 0 .. Len(r) /\ written \in Nat
  BY <1>2, <1>3
<1>5. IsSequence(OwedTo(n - 1)) /\ OwedTo(n) = Join(OwedTo(n - 1), r)
  <2> DEFINE m == n - 1
  <2>1. m \in Nat /\ m + 1 = n /\ m + 1 \in 1 .. Len(BodyLength)
    BY <1>2, <1>4
  <2> HIDE DEF m
  <2>2. IsSequence(OwedTo(m)) /\ OwedTo(m + 1) = Join(OwedTo(m), Owed(m + 1))
    BY <1>1, <2>1, OwedNext
  <2>3. IsSequence(OwedTo(m)) /\ OwedTo(n) = Join(OwedTo(m), r)
    BY <1>2, <2>1, <2>2
  <2> QED
    BY <2>3 DEF m
<1>6. inFlight' = Append(inFlight, r[written + 1])
  BY <1>2 DEF WriteStep
<1>7. inFlight' = Join(inFlight, x)
  <2>1. PICK T : inFlight \in Seq(T)
    BY <1>1 DEF IsSequence
  <2>2. inFlight \in Seq(T \cup {r[written + 1]})
    BY <2>1, SeqMonotonic
  <2>3. Append(inFlight, r[written + 1]) = inFlight \o <<r[written + 1]>>
    BY <2>2, AppendIsConcat
  <2> QED
    BY <1>6, <2>3 DEF Join, Single
<1>8. IsSequence(x) /\ IsSequence(a) /\ First(r, written + 1) = Join(a, x)
  BY <1>2, <1>3, <1>4, SingleElement, CutInTwo, FirstOneMore
<1>9. /\ BodyLength' = BodyLength
      /\ \A m : Response(m)' = Response(m) /\ Owed(m)' = Owed(m) /\ OwedTo(m)' = OwedTo(m)
  BY <1>1, OwedKept, MessagesKept
<1> HIDE DEF x, a
<1>10. Sent' = Join(OwedTo(n - 1), First(r, written + 1))
  <2>1. Join(responses, Join(inFlight, x)) = Join(Join(responses, inFlight), x)
    BY <1>1, <1>8, JoinAssociative
  <2>2. Join(Join(OwedTo(n - 1), a), x) = Join(OwedTo(n - 1), Join(a, x))
    BY <1>5, <1>8, JoinAssociative
  <2>3. Sent' = Join(responses, inFlight') /\ Sent = Join(responses, inFlight)
    BY <1>1 DEF Sent
  <2> QED
    BY <1>2, <1>7, <1>8, <2>1, <2>2, <2>3
<1>11. IsSequence(responses') /\ IsSequence(inFlight')
  BY <1>1, <1>7, <1>8, JoinElements
<1>13. First(r, Len(r)) = r
  <2>1. Len(r) \in 0 .. Len(r)
    BY <1>3
  <2>2. /\ IsSequence(First(r, Len(r))) /\ Len(First(r, Len(r))) = Len(r)
        /\ \A i \in 1 .. Len(r) : First(r, Len(r))[i] = r[i]
    BY <1>3, <2>1, CutInTwo
  <2> QED
    BY <1>3, <2>2, SameSequence
<1>14. written + 1 = Len(r) => Sent' = OwedTo(n)
  BY <1>5, <1>10, <1>13
<1>15. IsSequence(OwedTo(n))
  BY <1>3, <1>5, JoinElements
<1> QED
  BY <1>1, <1>2, <1>3, <1>9, <1>10, <1>11, <1>14, <1>15

\* WriteResponse: the next segment of the response, or the connection is closed.
LEMMA WriteResponses ==
    ASSUME MemoryInv, FramingInv, ResponseInv, WriteStep PROVE ResponseInv'
<1>1. /\ UNCHANGED <<sc, executed, answer, responses>> /\ k.state = "WRITE_RESPONSE"
      /\ InMemory(k) /\ sc \in Scenario /\ DOMAIN k = Fields
      /\ IsSequence(responses) /\ IsSequence(inFlight)
  BY FieldsOfConnection DEF WriteStep, MemoryInv, InMemory, ResponseInv
<1>2. Closed(k).state = "CLOSE_CONNECTION"
  BY <1>1, ClosedState
<1>3. CASE Len(inFlight) >= SendBuffer
  <2>1. k' = Closed(k) /\ UNCHANGED <<written, inFlight>>
    BY <1>3 DEF WriteStep
  <2>2. Sent' = Sent
    BY <1>1, <2>1 DEF Sent
  <2> QED
    BY <1>1, <1>2, <2>1, <2>2, NothingSent
<1>4. CASE ~(Len(inFlight) >= SendBuffer)
  <2>1. PICK n : n = Len(executed)
    OBVIOUS
  <2> DEFINE r == Response(n)
  <2>2. /\ n \in 1 .. Len(BodyLength) /\ Len(BodyLength) \in Nat /\ Len(executed') = n
        /\ answer = n /\ answer' = n /\ Owed(n)' = Response(n)' /\ Response(n)' = r
        /\ written \in 0 .. Len(r) - 1 /\ Len(r) \in Nat
        /\ Sent' = Join(OwedTo(n - 1)', First(r, written + 1))
        /\ written + 1 = Len(r) => Sent' = OwedTo(n)'
        /\ IsSequence(OwedTo(n)') /\ IsSequence(responses') /\ IsSequence(inFlight')
        /\ BodyLength' = BodyLength
    BY <1>4, <2>1, SegmentSent
  <2>13. CASE written + 1 = Len(r)
    <3>1. k' = ResponseWritten(k) /\ written' = 0
      BY <1>4, <2>2, <2>13 DEF WriteStep, WrittenReset
    <3>2. k'.state \in {"READ_HEADER", "CLOSE_CONNECTION"}
      <4>1. \/ k' = Closed(k)
            \/ k' = [Initialize(k, TRUE) EXCEPT !.state = "READ_HEADER"]
        BY <3>1 DEF ResponseWritten
      <4>2. DOMAIN Initialize(k, TRUE) = Fields
        BY <1>1 DEF Initialize
      <4> QED
        BY <1>2, <4>1, <4>2 DEF Fields
    <3>3. Sent' = OwedTo(n)'
      BY <2>2, <2>13
    <3>4. OwedTo(Len(executed))' = OwedTo(n)'
      BY <2>2
    <3>5. OwedTo(Len(executed))' = Join(Sent', <<>>)
      BY <2>2, <3>3, <3>4, JoinEmpty
    <3> QED
      BY <2>2, <3>1, <3>2, <3>3, <3>4, <3>5, EmptyIsSequence DEF ResponseInv, Reading
  <2>14. CASE written + 1 # Len(r)
    <3>1. k' = k /\ written' = written + 1
      BY <1>4, <2>2, <2>14 DEF WriteStep
    <3>2. written' \in 0 .. Len(r) - 1
      BY <2>2, <2>14, <3>1
    <3>3. Answering(n)'
      BY <2>2, <3>1, <3>2 DEF Answering
    <3>4. Answering(Len(executed))'
      BY <2>2, <3>3 DEF Answering
    <3> QED
      BY <1>1, <2>2, <3>1, <3>4 DEF ResponseInv, Reading
  <2> QED
    BY <2>13, <2>14
<1> QED
  BY <1>3, <1>4

\* Every step of the client and of the server.
LEMMA NextResponses ==
    ASSUME MemoryInv, FramingInv, ResponseInv, [Next]_vars PROVE ResponseInv'
<1>1. CASE ClientRead
  BY <1>1, ClientReadResponses
<1>2. CASE \/ ClientSend \/ ClientClose \/ Select \/ ReceiveHeader \/ TcpParseHeader
           \/ HttpParseHeader \/ SkipHeader \/ ReadRequestStep \/ ReturnStep \/ UNCHANGED vars
  BY <1>2, OtherResponses
<1>3. CASE ExecuteStep
  BY <1>3, ExecuteResponses
<1>4. CASE WriteStep
  BY <1>4, WriteResponses
<1>5. CASE ThrowStep
  BY <1>5, ThrowResponses
<1> QED
  BY <1>1, <1>2, <1>3, <1>4, <1>5 DEF Next, Server

\* A new connection has sent nothing and owes nothing.
LEMMA InitResponses == Init => ResponseInv
<1> SUFFICES ASSUME Init PROVE ResponseInv
  OBVIOUS
<1>1. /\ responses = <<>> /\ inFlight = <<>> /\ executed = <<>> /\ written = 0
      /\ sc \in Scenario /\ k.state = "READ_HEADER"
  BY DEF Init, NewConnection
<1>2. Sent = <<>>
  BY <1>1, EmptyIsSequence, JoinEmpty DEF Sent
<1>3. OwedTo(0) = <<>> /\ Len(executed) = 0
  BY <1>1, FlatNone, EmptyIsSequence DEF OwedTo
<1> QED
  BY <1>1, <1>2, <1>3, EmptyIsSequence DEF ResponseInv, Reading

------------------------------------------------------------------------------
\* Data without a colon is shorter than the header of the next message.
LEMMA HeaderIncomplete ==
    ASSUME sc \in Scenario, ~Http, comma \in BOOLEAN, NEW n \in Nat,
           n + 1 \in 1 .. Len(BodyLength),
           NEW data, IsSequence(data), NEW tail, IsSequence(tail),
           Join(data, tail) = Join(Lead, Rest[n]), ColonAt(data) = 0
    PROVE  /\ Len(data) \in Nat /\ Len(Preamble(n + 1)) \in Nat /\ Len(data) < Len(Preamble(n + 1))
           /\ Len(Join(data, tail)) >= Len(Preamble(n + 1))
<1> DEFINE r == n + 1
           f == Preamble(r)
           z == Join(Body(r), Join(Single(Comma), Rest[r]))
<1>1. Remainders(Rest) /\ Len(BodyLength) \in Nat
  BY RestOfStream
<1>2. IsSequence(f) /\ f[Len(f)] = Colon /\ Len(f) \in Nat \ {0}
  <2>1. /\ IsSequence(f) /\ f[Len(f)] = Colon /\ IsSequence(Lead)
        /\ Len(f) = Len(Lead) + Len(Decimal(BodyLength[r])) + 1
    BY FrontElements
  <2>2. BodyLength[r] \in 1 .. 99
    BY BodyOfRequest
  <2>3. Len(Decimal(BodyLength[r])) \in {1, 2}
    BY <2>2, DecimalDigits
  <2>4. Len(Lead) \in Nat
    BY <2>1, JoinElements
  <2> HIDE DEF f
  <2> QED
    BY <2>1, <2>3, <2>4
<1>3. IsSequence(z)
  <2>1. r \in 0 .. Len(BodyLength)
    BY <1>1
  <2>2. IsSequence(Body(r)) /\ IsSequence(Single(Comma)) /\ IsSequence(Rest[r])
    BY <1>1, <2>1, BodyOfRequest, SingleElement DEF Remainders
  <2>3. IsSequence(Join(Single(Comma), Rest[r]))
    BY <2>2, JoinElements
  <2> QED
    BY <2>2, <2>3, JoinElements
<1>4. Join(data, tail) = Join(f, z)
  <2>1. r - 1 = n
    OBVIOUS
  <2>2. Join(Lead, Rest[r - 1]) = Join(f, z)
    BY NextFrame
  <2> QED
    BY <2>1, <2>2
<1> HIDE DEF f, z
<1>5. /\ Len(data) \in Nat /\ Len(z) \in Nat /\ Len(Join(f, z)) = Len(f) + Len(z)
  BY <1>2, <1>3, JoinElements
<1>6. ~(Len(f) <= Len(data))
  <2> SUFFICES ASSUME Len(f) <= Len(data) PROVE FALSE
    OBVIOUS
  <2>1. Len(f) \in 1 .. Len(data) /\ Len(f) \in 1 .. Len(f)
    BY <1>2, <1>5
  <2>2. Join(data, tail)[Len(f)] = data[Len(f)] /\ Join(f, z)[Len(f)] = f[Len(f)]
    BY <1>2, <1>3, <2>1, JoinFront
  <2>3. data[Len(f)] = Colon
    BY <1>2, <1>4, <2>2
  <2> QED
    BY <2>1, <2>3, ColonIsFound
<1>7. /\ Len(data) \in Nat /\ Len(f) \in Nat /\ Len(data) < Len(f)
      /\ Len(Join(data, tail)) >= Len(f)
  BY <1>2, <1>4, <1>5, <1>6
<1> QED
  BY <1>7 DEF f

\* All of the buffer has been read as a header, and it is not the whole header.
NoHeaderInBuffer ==
    IF Http THEN k.http.startIndex = k.bufferLength ELSE ColonAt(Region(k)) = 0

\* What keeps the connection from waiting for input while it has work to do: between
\* calls of Process there is no header in the buffer, no request in memory and no
\* response to write.
IdleInv ==
    /\ k.state = "READ_HEADER" /\ stage \in {"select", "request", "execute"} => NoHeaderInBuffer
    /\ k.state = "READ_REQUEST" /\ stage \in {"select", "execute"} => ~Complete
    /\ k.state = "EXECUTE_REQUEST" => stage \in {"header", "request", "execute"}
    /\ k.state = "WRITE_RESPONSE" => stage = "write"

\* Back to the top of Process, or return: a buffer with data is parsed first.
LEMMA IdleAfterMessage ==
    ASSUME MemoryInv', k'.state = "READ_HEADER", k'.request = "none",
           k'.http = InitialHeader("request"), AfterMessage(k')
    PROVE  IdleInv'
<1>1. stage' = IF k'.bufferLength > 0 THEN "header" ELSE "select"
  BY DEF AfterMessage, NewMessage
<1>2. k'.bufferLength \in Nat
  BY BufferAssumption DEF MemoryInv, InMemory
<1>3. CASE k'.bufferLength > 0
  BY <1>1, <1>3 DEF IdleInv
<1>4. CASE ~(k'.bufferLength > 0)
  <2>1. IsSequence(Region(k')) /\ Len(Region(k')) = 0
    BY <1>2, <1>4, RegionLength DEF MemoryInv
  <2>2. ColonAt(Region(k')) = 0
    BY <2>1, NoColonInNothing
  <2>3. ColonAt(Region(k))' = 0
    BY <2>2 DEF Region
  <2>4. k'.http.startIndex = 0 /\ k'.bufferLength = 0
    BY <1>2, <1>4, InitialStart
  <2>5. NoHeaderInBuffer'
    BY <2>3, <2>4 DEF NoHeaderInBuffer
  <2> QED
    BY <1>1, <2>5 DEF IdleInv
<1> QED
  BY <1>3, <1>4

\* Every step of the client and of the server.
LEMMA NextIdle ==
    ASSUME MemoryInv, FramingInv, Framed, IdleInv, [Next]_vars, MemoryInv'
    PROVE  IdleInv'
<1>1. /\ InMemory(k) /\ DOMAIN k = Fields /\ Closed(k).state = "CLOSE_CONNECTION"
  BY ClosedState, FieldsOfConnection DEF MemoryInv, InMemory
<1>2. k'.state = "CLOSE_CONNECTION" => IdleInv'
  BY DEF IdleInv
<1>12. Http' = Http
  <2>1. sc' = sc
    BY DEF Next, Server, ClientSend, ClientClose, ClientRead, Select, ReceiveHeader,
           TcpParseHeader, HttpParseHeader, SkipHeader, ReadRequestStep, ExecuteStep, ThrowStep,
           WriteStep, ReturnStep, vars
  <2> QED
    BY <2>1 DEF Http
<1>13. k' = k => NoHeaderInBuffer' = NoHeaderInBuffer /\ Complete' = Complete
  BY <1>12 DEF NoHeaderInBuffer, Region, Complete
<1>3. ASSUME k' = k, stage' = stage \/ (stage' = "header" /\ stage # "write") PROVE IdleInv'
  BY <1>3, <1>13 DEF IdleInv
<1>4. CASE ClientSend \/ ClientClose \/ ClientRead \/ Select \/ UNCHANGED vars
  <2>1. k' = k /\ (stage' = stage \/ (stage' = "header" /\ stage # "write"))
    BY <1>4 DEF ClientSend, ClientClose, ClientRead, Select, vars
  <2> QED
    BY <1>3, <2>1
<1>5. CASE ReceiveHeader
  <2>1. k' = Closed(k) \/ stage' = "parse"
    BY <1>5 DEF ReceiveHeader
  <2>2. CASE stage' = "parse"
    <3>1. \/ k' = Closed(k)
          \/ \E b : k' = [k EXCEPT !.buffer = StoreReceived(@, k.bufferLength, b),
                                   !.bufferLength = @ + Len(b)]
      BY <1>5 DEF ReceiveHeader
    <3>2. k.state = "READ_HEADER"
      BY <1>5 DEF ReceiveHeader
    <3>3. k'.state \in {"READ_HEADER", "CLOSE_CONNECTION"}
      BY <1>1, <3>1, <3>2 DEF Fields
    <3> QED
      BY <2>2, <3>3 DEF IdleInv
  <2> QED
    BY <1>1, <1>2, <2>1, <2>2
<1>6. CASE TcpParseHeader
  <2>1. \/ ColonAt(Load(k.buffer, 0, k.bufferLength)) = 0 /\ k' = k /\ stage' = "request"
        \/ k' = Closed(k)
        \/ /\ stage' = "request"
           /\ \E bodyAt, length : k' = Terminate(PrepareRequest(k, bodyAt, length, TRUE))
    BY <1>6 DEF TcpParseHeader
  <2>2. CASE ColonAt(Load(k.buffer, 0, k.bufferLength)) = 0 /\ k' = k /\ stage' = "request"
    <3>1. k.state = "READ_HEADER" /\ k.request = "none" /\ ~Http
      BY <1>6 DEF TcpParseHeader, FramingInv, AtMessage
    <3>2. Region(k) = Load(k.buffer, 0, k.bufferLength) /\ Region(k)' = Region(k)
      BY <2>2, <3>1 DEF Region
    <3>3. NoHeaderInBuffer'
      BY <1>12, <2>2, <3>1, <3>2 DEF NoHeaderInBuffer
    <3> QED
      BY <2>2, <3>1, <3>3 DEF IdleInv
  <2>3. CASE /\ stage' = "request"
             /\ \E bodyAt, length : k' = Terminate(PrepareRequest(k, bodyAt, length, TRUE))
    <3>1. PICK bodyAt, length : k' = Terminate(PrepareRequest(k, bodyAt, length, TRUE))
      BY <2>3
    <3>2. Terminate(PrepareRequest(k, bodyAt, length, TRUE)).state = "READ_REQUEST"
      BY <1>1, PreparedFields
    <3>3. k'.state = "READ_REQUEST"
      BY <3>1, <3>2
    <3> QED
      BY <2>3, <3>3 DEF IdleInv
  <2> QED
    BY <1>1, <1>2, <2>1, <2>2, <2>3
<1>14. CASE HttpParseHeader
  <2>1. k.state = "READ_HEADER" /\ Http
    BY <1>14 DEF HttpParseHeader, FramingInv
  <2>2. PICK n \in 0 .. Len(BodyLength) :
           HeaderRefused(n) \/ \E g : IsHeader(g) /\ (HeaderUsedUp(n, g) \/ HeaderDone(n + 1, g))
    BY <1>14, HttpParseOutcome
  <2>3. CASE HeaderRefused(n)
    BY <1>1, <1>2, <2>3 DEF HeaderRefused
  <2>4. ASSUME NEW g, HeaderUsedUp(n, g) PROVE IdleInv'
    <3>1. k' = [k EXCEPT !.http = g] /\ stage' = "request" /\ g.startIndex = k.bufferLength
      BY <2>4 DEF HeaderUsedUp
    <3>2. k'.state = k.state /\ k'.http = g /\ k'.bufferLength = k.bufferLength
      BY <1>1, <3>1 DEF Fields
    <3>3. NoHeaderInBuffer'
      BY <1>12, <2>1, <3>1, <3>2 DEF NoHeaderInBuffer
    <3> QED
      BY <2>1, <3>1, <3>2, <3>3 DEF IdleInv
  <2>5. ASSUME NEW g, HeaderDone(n + 1, g) PROVE IdleInv'
    <3>1. stage' = "request" /\ \E at, length, alive : k' = PrepareRequest([k EXCEPT !.http = g], at, length, alive)
      BY <2>5 DEF HeaderDone
    <3> DEFINE c == [k EXCEPT !.http = g]
    <3>2. DOMAIN c = Fields
      BY <1>1 DEF Fields
    <3>3. \E at, length, alive : k' = PrepareRequest(c, at, length, alive)
      BY <3>1
    <3> HIDE DEF c
    <3>4. \A at, length, alive : PrepareRequest(c, at, length, alive).state = "READ_REQUEST"
      BY <3>2 DEF PrepareRequest, Fields
    <3> QED
      BY <3>1, <3>3, <3>4 DEF IdleInv
  <2> QED
    BY <2>2, <2>3, <2>4, <2>5
<1>7. CASE SkipHeader
  <2>1. k' = k /\ stage' = "request" /\ stage = "header" /\ k.state # "READ_HEADER"
    BY <1>7 DEF SkipHeader
  <2> QED
    BY <2>1 DEF IdleInv
<1>8. CASE ReadRequestStep
  <2>1. CASE k.state # "READ_REQUEST"
    <3>1. k' = k /\ stage = "request" /\ stage' \in {"select", "execute"}
          /\ (stage' = "select" => k'.state = "CLOSE_CONNECTION")
      BY <1>8, <2>1 DEF ReadRequestStep
    <3> QED
      BY <1>13, <2>1, <3>1 DEF IdleInv
  <2>2. CASE k.state = "READ_REQUEST"
    <3> DEFINE bytes == Received(input, RequestRoom(k))
    <3>1. \/ k' = Closed(k)
          \/ k' = ReadRequest(k, bytes) /\ stage' \in {"select", "execute"}
             /\ (k'.state # "CLOSE_CONNECTION" => stage' = "execute")
      BY <1>8, <2>2 DEF ReadRequestStep
    <3>2. /\ k.request # "none" /\ RequestRoom(k) \in Nat /\ IsSequence(input)
          /\ k.contentAvail \in Nat /\ k.contentLength \in Nat
      <4>1. /\ k.request # "none" /\ IsSequence(input)
            /\ k.contentAvail \in Nat /\ k.contentLength \in Nat
        BY <1>1, <2>2 DEF InMemory, MemoryInv
      <4> QED
        BY <4>1 DEF RequestRoom
    <3>3. IsSequence(bytes) /\ Len(bytes) \in 0 .. RequestRoom(k)
      BY <3>2, ReceivesAtMost
    <3> HIDE DEF bytes
    <3>4. CASE /\ k' = ReadRequest(k, bytes)
               /\ k'.state # "CLOSE_CONNECTION" => stage' = "execute"
      <4>1. /\ k'.contentLength = k.contentLength
            /\ k'.contentAvail = k.contentAvail + Len(bytes)
            /\ k'.state = IF k.contentAvail + Len(bytes) < k.contentLength THEN k.state
                          ELSE "EXECUTE_REQUEST"
        BY <1>1, <3>2, <3>3, <3>4, RegionRead
      <4>4. k'.state = "READ_REQUEST" => ~Complete'
        <5>1. Complete' <=> k'.contentAvail >= k'.contentLength
          BY DEF Complete
        <5>2. Len(bytes) \in Nat
          BY <3>2, <3>3
        <5> QED
          BY <3>2, <4>1, <5>1, <5>2
      <4>5. k'.state \in {"READ_REQUEST", "EXECUTE_REQUEST"}
        BY <2>2, <4>1
      <4> QED
        BY <3>4, <4>4, <4>5 DEF IdleInv
    <3> QED
      BY <1>1, <1>2, <3>1, <3>4
  <2> QED
    BY <2>1, <2>2
<1>9. CASE ReturnStep
  <2>1. k' = k /\ stage = "execute"
        /\ ((k.state # "EXECUTE_REQUEST" /\ stage' = "select") \/ stage' = "header")
    BY <1>9 DEF ReturnStep
  <2> QED
    BY <1>13, <2>1 DEF IdleInv
<1>10. CASE ExecuteStep
  <2>1. \/ k'.state = "WRITE_RESPONSE" /\ stage' = "write"
        \/ k'.state # "WRITE_RESPONSE" /\ AfterMessage(k')
    BY <1>10 DEF ExecuteStep
  <2>3. \/ k' = Closed(k)
        \/ k' = [Initialize(k, TRUE) EXCEPT !.state = "READ_HEADER"]
        \/ k' = [k EXCEPT !.state = "WRITE_RESPONSE"]
    BY <1>10, ExecuteWays
  <2>4. CASE k' = [Initialize(k, TRUE) EXCEPT !.state = "READ_HEADER"]
    <3>1. DOMAIN Initialize(k, TRUE) = Fields /\ Initialize(k, TRUE).request = "none"
      BY <1>1 DEF Initialize, Fields
    <3>2. k'.state = "READ_HEADER" /\ k'.request = "none"
      BY <2>4, <3>1 DEF Fields
    <3>3. k'.http = InitialHeader("request")
      BY <1>1, <2>4, HeaderInitialized
    <3> QED
      BY <2>1, <3>2, <3>3, IdleAfterMessage
  <2>5. CASE k' = [k EXCEPT !.state = "WRITE_RESPONSE"]
    <3>1. k'.state = "WRITE_RESPONSE"
      BY <1>1, <2>5 DEF Fields
    <3> QED
      BY <2>1, <3>1 DEF IdleInv
  <2> QED
    BY <1>1, <1>2, <2>3, <2>4, <2>5
<1>11. CASE WriteStep
  <2>1. \/ k' = Closed(k)
        \/ k' = k /\ stage' = stage
        \/ k' = ResponseWritten(k) /\ AfterMessage(k')
    BY <1>11 DEF WriteStep
  <2>2. CASE k' = ResponseWritten(k) /\ AfterMessage(k')
    <3>1. \/ k' = Closed(k)
          \/ k' = [Initialize(k, TRUE) EXCEPT !.state = "READ_HEADER"]
      BY <2>2 DEF ResponseWritten
    <3>2. CASE k' = [Initialize(k, TRUE) EXCEPT !.state = "READ_HEADER"]
      <4>1. DOMAIN Initialize(k, TRUE) = Fields /\ Initialize(k, TRUE).request = "none"
        BY <1>1 DEF Initialize, Fields
      <4>2. k'.state = "READ_HEADER" /\ k'.request = "none"
        BY <3>2, <4>1 DEF Fields
      <4>3. k'.http = InitialHeader("request")
        BY <1>1, <3>2, HeaderInitialized
      <4> QED
        BY <2>2, <4>2, <4>3, IdleAfterMessage
    <3> QED
      BY <1>1, <1>2, <3>1, <3>2
  <2>3. CASE k' = k /\ stage' = stage
    BY <1>3, <2>3
  <2> QED
    BY <1>1, <1>2, <2>1, <2>2, <2>3
<1>15. CASE ThrowStep
  BY <1>1, <1>2, <1>15 DEF ThrowStep, SetCloseState, Fields
<1> QED
  BY <1>4, <1>5, <1>6, <1>7, <1>8, <1>9, <1>10, <1>11, <1>14, <1>15 DEF Next, Server

\* What is owed for some messages is the beginning of what is owed for all.
LEMMA OwedMore ==
    ASSUME sc \in Scenario, NEW n \in 0 .. Len(BodyLength)
    PROVE  \E rest : IsSequence(rest) /\ OwedTo(Len(BodyLength)) = Join(OwedTo(n), rest)
<1> DEFINE N == Len(BodyLength)
           Begins(m) == \E rest : IsSequence(rest) /\ OwedTo(n + m) = Join(OwedTo(n), rest)
           Good == {m \in Nat : n + m <= N => Begins(m)}
<1>1. N \in Nat /\ n \in Nat /\ IsSequence(OwedTo(n))
  BY RestOfStream, OwedSequence
<1>2. 0 \in Good
  <2>1. n + 0 = n /\ OwedTo(n) = Join(OwedTo(n), <<>>)
    BY <1>1, JoinEmpty
  <2> QED
    BY <2>1, EmptyIsSequence
<1>3. ASSUME NEW m \in Nat, m \in Good PROVE m + 1 \in Good
  <2> SUFFICES ASSUME n + (m + 1) <= N PROVE Begins(m + 1)
    OBVIOUS
  <2> DEFINE p == n + m
  <2>1. p \in Nat /\ p <= N /\ p + 1 = n + (m + 1) /\ p + 1 \in 1 .. N
    BY <1>1
  <2>2. PICK rest : IsSequence(rest) /\ OwedTo(p) = Join(OwedTo(n), rest)
    BY <1>3, <2>1
  <2> HIDE DEF p, Good
  <2>3. OwedTo(p + 1) = Join(OwedTo(p), Owed(p + 1)) /\ IsSequence(Owed(p + 1))
    BY <2>1, OwedNext, ResponseSegments
  <2>4. Join(Join(OwedTo(n), rest), Owed(p + 1)) = Join(OwedTo(n), Join(rest, Owed(p + 1)))
    BY <1>1, <2>2, <2>3, JoinAssociative
  <2>5. IsSequence(Join(rest, Owed(p + 1)))
    BY <2>2, <2>3, JoinElements
  <2>6. OwedTo(n + (m + 1)) = Join(OwedTo(n), Join(rest, Owed(p + 1)))
    BY <2>1, <2>2, <2>3, <2>4
  <2> QED
    BY <2>5, <2>6
<1> HIDE DEF Good, Begins
<1>4. Nat \subseteq Good
  BY <1>2, <1>3, NatSetInduction
<1>5. N - n \in Nat /\ n + (N - n) = N
  BY <1>1
<1>6. Begins(N - n)
  BY <1>4, <1>5 DEF Good
<1> QED
  BY <1>5, <1>6 DEF Begins

\* The next request is not one that the server accepts.
NextRefused == Len(executed) < Len(BodyLength) /\ ~Accepted(Len(executed) + 1)

\* The last request asked to close the connection, and all has been sent.
LastCloses == Len(executed) > 0 /\ CloseAfter(Len(executed)) /\ Sent = OwedTo(Len(executed))

\* The sockets do not hold all that the client may leave unread.
TooMuchOwed == SendBuffer < Len(OwedTo(Len(BodyLength)))

\* The handler threw at the last request.
LastThrew == Len(executed) > 0 /\ Failing(Len(executed))

\* Why the connection is closed: one of these, or the client has closed.  And a request
\* at which the handler threw is the last one.
CauseInv ==
    /\ k.state = "CLOSE_CONNECTION" =>
          eof \/ NextRefused \/ LastCloses \/ LastThrew \/ TooMuchOwed
    /\ \A i \in 1 .. Len(executed) :
          Failing(i) => i = Len(executed) /\ k.state = "CLOSE_CONNECTION"

\* Which requests the handler throws at stays as it is.
LEMMA FailingKept == ASSUME sc' = sc PROVE \A r : Failing(r)' = Failing(r)
<1>1. \A r : Method(r)' = Method(r)
  BY HeadersKept
<1> QED
  BY <1>1 DEF Failing, Throws

\* A request that has been executed without an exception is not one that the handler
\* throws at.
LEMMA ExecuteThrowsNot ==
    ASSUME MemoryInv, FramingInv, ExecuteStep, k'.state # "CLOSE_CONNECTION"
    PROVE  \E n \in Nat : Len(executed) = n /\ Len(executed') = n + 1 /\ ~Failing(n + 1)
<1>1. k.state = "EXECUTE_REQUEST" /\ sc \in Scenario
  BY DEF ExecuteStep, MemoryInv
<1>2. PICK n \in 0 .. Len(BodyLength) : executed = Executed(n) /\ InRequest(n + 1) /\ Complete
  BY <1>1 DEF FramingInv
<1>3. n \in Nat /\ n + 1 \in Nat /\ n + 1 \in 1 .. Len(BodyLength)
  BY <1>1, <1>2, RestOfStream DEF InRequest
<1>4. RequestBytes(k) = Body(n + 1) /\ RequestOf(Body(n + 1)) = n + 1
  BY <1>1, <1>2, <1>3, RequestIsBody, BodyOfRequest
<1>5. ~HandlerThrows(n + 1)
  BY <1>4 DEF ExecuteStep
<1>6. Len(executed) = n /\ Len(executed') = n + 1
  <2>1. executed' = Append(executed, RequestBytes(k))
    BY DEF ExecuteStep
  <2> QED
    BY <1>2, <1>3, <1>4, <2>1, ExecutedNext
<1>7. ~(Http /\ k.http.word = "POST" /\ k.http.contentType \notin HandlerTypes)
  <2> SUFFICES ASSUME Http, k.http.word = "POST", k.http.contentType \notin HandlerTypes
               PROVE  FALSE
    OBVIOUS
  <2>1. k' = Closed(k)
    BY DEF ExecuteStep, HttpExecuteRequest, CanProcessContentType
  <2>2. Closed(k).state = "CLOSE_CONNECTION"
    BY ClosedState DEF MemoryInv
  <2> QED
    BY <2>1, <2>2
<1>8. Http => k.http.word = Method(n + 1)
  BY <1>2 DEF InRequest
<1>9. ~Failing(n + 1)
  BY <1>5, <1>7, <1>8 DEF HandlerThrows, Failing, CanProcessContentType
<1> QED
  BY <1>3, <1>6, <1>9

\* The second half of CauseInv.
LEMMA NextThrew ==
    ASSUME MemoryInv, FramingInv, CauseInv, [Next]_vars
    PROVE  \A i \in 1 .. Len(executed') :
              Failing(i)' => i = Len(executed') /\ k'.state = "CLOSE_CONNECTION"
<1>1. DOMAIN k = Fields
  BY FieldsOfConnection DEF MemoryInv, InMemory
<1>2. sc' = sc
  BY DEF Next, Server, ClientSend, ClientClose, ClientRead, Select, ReceiveHeader,
         TcpParseHeader, HttpParseHeader, SkipHeader, ReadRequestStep, ExecuteStep, ThrowStep,
         WriteStep, ReturnStep, vars
<1>3. \A r : Failing(r)' = Failing(r)
  BY <1>2, FailingKept
<1>4. ASSUME executed' = executed, k.state = "CLOSE_CONNECTION" => k'.state = "CLOSE_CONNECTION"
      PROVE  \A i \in 1 .. Len(executed') :
                Failing(i)' => i = Len(executed') /\ k'.state = "CLOSE_CONNECTION"
  BY <1>3, <1>4 DEF CauseInv
<1>5. CASE ExecuteStep
  <2>1. k.state # "CLOSE_CONNECTION"
    BY <1>5 DEF ExecuteStep
  <2>2. CASE k'.state = "CLOSE_CONNECTION"
    <3>1. executed' = executed
      BY <1>5, <2>2 DEF ExecuteStep
    <3> QED
      BY <1>4, <2>1, <3>1
  <2>3. CASE k'.state # "CLOSE_CONNECTION"
    <3>1. PICK n \in Nat : Len(executed) = n /\ Len(executed') = n + 1 /\ ~Failing(n + 1)
      BY <1>5, <2>3, ExecuteThrowsNot
    <3>2. \A i \in 1 .. n : ~Failing(i)
      BY <2>1, <3>1 DEF CauseInv
    <3>3. \A i \in 1 .. n + 1 : i \in 1 .. n \/ i = n + 1
      OBVIOUS
    <3> QED
      BY <1>3, <3>1, <3>2, <3>3
  <2> QED
    BY <2>2, <2>3
<1>6. CASE ThrowStep
  <2>1. k.state # "CLOSE_CONNECTION" /\ k'.state = "CLOSE_CONNECTION"
    BY <1>1, <1>6 DEF ThrowStep, SetCloseState, Fields
  <2>2. PICK n \in Nat : executed = Executed(n) /\ executed' = Executed(n + 1)
    BY <1>6, ThrowWay
  <2>3. Len(executed) = n /\ Len(executed') = n + 1
    <3>1. n + 1 \in Nat
      OBVIOUS
    <3> QED
      BY <2>2, <3>1, ExecutedNext
  <2>4. \A i \in 1 .. n : ~Failing(i)
    BY <2>1, <2>3 DEF CauseInv
  <2>5. \A i \in 1 .. n + 1 : i \in 1 .. n \/ i = n + 1
    OBVIOUS
  <2> QED
    BY <1>3, <2>1, <2>3, <2>4, <2>5
<1>7. CASE \/ ClientSend \/ ClientClose \/ ClientRead \/ Select \/ SkipHeader \/ ReturnStep
           \/ UNCHANGED vars
  <2>1. executed' = executed /\ k' = k
    BY <1>7 DEF ClientSend, ClientClose, ClientRead, Select, SkipHeader, ReturnStep, vars
  <2> QED
    BY <1>4, <2>1
<1>8. CASE ReceiveHeader \/ TcpParseHeader \/ HttpParseHeader
  <2>1. executed' = executed
    BY <1>8 DEF ReceiveHeader, TcpParseHeader, HttpParseHeader
  <2>2. k.state = "READ_HEADER"
    BY <1>8 DEF ReceiveHeader, TcpParseHeader, HttpParseHeader, FramingInv
  <2> QED
    BY <1>4, <2>1, <2>2
<1>9. CASE ReadRequestStep
  <2>1. executed' = executed
    BY <1>9 DEF ReadRequestStep
  <2>2. k.state # "READ_REQUEST" => k' = k
    BY <1>9 DEF ReadRequestStep
  <2> QED
    BY <1>4, <2>1, <2>2
<1>10. CASE WriteStep
  <2>1. executed' = executed /\ k.state = "WRITE_RESPONSE"
    BY <1>10 DEF WriteStep
  <2> QED
    BY <1>4, <2>1
<1> QED
  BY <1>5, <1>6, <1>7, <1>8, <1>9, <1>10 DEF Next, Server

\* SetCloseState: the handler threw.
LEMMA ThrowCause ==
    ASSUME MemoryInv, FramingInv, ThrowStep PROVE LastThrew'
<1>1. PICK n \in Nat : executed' = Executed(n + 1) /\ Failing(n + 1)
  BY ThrowWay
<1>2. n + 1 \in Nat /\ n + 1 > 0
  OBVIOUS
<1>3. Len(executed') = n + 1
  BY <1>1, <1>2, ExecutedNext
<1>4. sc' = sc
  BY DEF ThrowStep
<1>5. Failing(n + 1)'
  BY <1>1, <1>4, FailingKept
<1> QED
  BY <1>2, <1>3, <1>5 DEF LastThrew

\* ReadHeader closes the connection for a length that is too long only: the comma
\* that it expects is there, and the length is a number that is not 0.
LEMMA TcpParseCloses ==
    ASSUME MemoryInv, FramingInv, TcpParseHeader, k'.state = "CLOSE_CONNECTION"
    PROVE  NextRefused
<1> DEFINE data == Load(k.buffer, 0, k.bufferLength)
           colon == ColonAt(data)
           length == Atoi(SubSeq(data, HeaderStart, colon))
           tail == Join(input, unsent)
<1>1. /\ InMemory(k) /\ k.state = "READ_HEADER" /\ comma \in BOOLEAN /\ sc \in Scenario /\ ~Http
  BY DEF TcpParseHeader, MemoryInv, FramingInv
<1>2. colon # 0 /\ ((comma /\ data[1] # Comma) \/ length = 0 \/ length > MaxContentLength)
  <2>1. \/ k' = k
        \/ colon # 0 /\ ((comma /\ data[1] # Comma) \/ length = 0 \/ length > MaxContentLength)
        \/ \E bodyAt, len : k' = Terminate(PrepareRequest(k, bodyAt, len, TRUE))
    BY DEF TcpParseHeader
  <2>2. \A bodyAt, len : Terminate(PrepareRequest(k, bodyAt, len, TRUE)).state = "READ_REQUEST"
    <3>1. InMemory(k)
      BY <1>1
    <3> HIDE DEF data, colon, length
    <3> QED
      BY <3>1, PreparedFields
  <2> HIDE DEF data, colon, length
  <2> QED
    BY <1>1, <2>1, <2>2, Zenon
<1>3. PICK n \in 0 .. Len(BodyLength) : executed = Executed(n) /\ AtMessage(n)
  BY <1>1 DEF FramingInv
<1>4. n \in Nat /\ Len(executed) = n /\ Len(BodyLength) \in Nat
  BY <1>1, <1>3, ExecutedNext, RestOfStream
<1>5. IsSequence(data) /\ data = Region(k) /\ IsSequence(tail)
  BY <1>1, <1>3, DataInBuffer, JoinElements DEF AtMessage, Region, MemoryInv
<1>6. Join(data, tail) = Join(Lead, Rest[n])
  BY <1>3, <1>5 DEF AtMessage, Coming
<1> HIDE DEF data, tail
<1>7. n + 1 \in 1 .. Len(BodyLength) /\ colon \in 1 .. Len(data) /\ length = BodyLength[n + 1]
  BY <1>1, <1>2, <1>5, <1>6, HeaderParsed
<1>8. length \in 1 .. 99
  BY <1>1, <1>7, BodyOfRequest
<1>9. comma => data[1] = Comma
  <2> SUFFICES ASSUME comma PROVE data[1] = Comma
    OBVIOUS
  <2>1. Lead = Single(Comma) /\ IsSequence(Lead) /\ Len(Lead) = 1 /\ Lead[1] = Comma
    BY SingleElement DEF Lead
  <2>2. IsSequence(Rest[n])
    BY <1>1, <1>3, RestOfStream DEF Remainders
  <2>3. 1 \in 1 .. Len(data) /\ 1 \in 1 .. Len(Lead)
    <3>1. Len(data) \in Nat
      BY <1>5, JoinElements
    <3> HIDE DEF colon
    <3> QED
      BY <1>7, <2>1, <3>1
  <2>4. Join(data, tail)[1] = data[1] /\ Join(Lead, Rest[n])[1] = Lead[1]
    BY <1>5, <2>1, <2>2, <2>3, JoinFront
  <2> QED
    BY <1>6, <2>1, <2>4
<1> HIDE DEF length, colon
<1>10. ~(length <= MaxContentLength)
  BY <1>2, <1>8, <1>9, BufferAssumption
<1>11. ~Accepted(n + 1)
  BY <1>7, <1>10 DEF Accepted
<1>12. n < Len(BodyLength)
  BY <1>4, <1>7
<1> QED
  BY <1>4, <1>11, <1>12 DEF NextRefused

\* ReadHeader over HTTP closes the connection for a request that is not accepted.
LEMMA HttpParseCloses ==
    ASSUME MemoryInv, FramingInv, Framed, HttpParseHeader, k'.state = "CLOSE_CONNECTION"
    PROVE  NextRefused
<1>1. /\ DOMAIN k = Fields /\ k.state = "READ_HEADER"
  BY FieldsOfConnection DEF HttpParseHeader, MemoryInv, FramingInv, InMemory
<1>2. PICK n \in 0 .. Len(BodyLength) :
         /\ executed = Executed(n)
         /\ HeaderRefused(n) \/ \E g : HeaderUsedUp(n, g) \/ HeaderDone(n + 1, g)
  BY HttpParseOutcome
<1>3. n \in Nat /\ Len(executed) = n
  BY <1>2, ExecutedNext, RestOfStream DEF MemoryInv
<1>4. ASSUME NEW g, HeaderUsedUp(n, g) \/ HeaderDone(n + 1, g) PROVE FALSE
  <2> DEFINE c == [k EXCEPT !.http = g]
  <2>1. DOMAIN c = Fields /\ c.state = "READ_HEADER"
    BY <1>1 DEF Fields
  <2>2. k' = c \/ \E at, length, alive : k' = PrepareRequest(c, at, length, alive)
    BY <1>4 DEF HeaderUsedUp, HeaderDone
  <2> HIDE DEF c
  <2>3. \A at, length, alive : PrepareRequest(c, at, length, alive).state = "READ_REQUEST"
    BY <2>1 DEF PrepareRequest, Fields
  <2> QED
    BY <2>1, <2>2, <2>3
<1> QED
  BY <1>2, <1>3, <1>4 DEF HeaderRefused, NextRefused

\* ExecuteRequest closes the connection for content that no handler takes.
LEMMA ExecuteCloses ==
    ASSUME MemoryInv, FramingInv, ExecuteStep, k'.state = "CLOSE_CONNECTION"
    PROVE  NextRefused /\ executed' = executed
<1>1. DOMAIN k = Fields /\ k.state = "EXECUTE_REQUEST"
  BY FieldsOfConnection DEF ExecuteStep, MemoryInv, InMemory
<1>2. /\ Http /\ k.http.word = "POST" /\ k.http.contentType \notin HandlerTypes
      /\ executed' = executed
  <2>1. DOMAIN Initialize(k, TRUE) = Fields
    BY <1>1 DEF Initialize
  <2>2. /\ [Initialize(k, TRUE) EXCEPT !.state = "READ_HEADER"].state = "READ_HEADER"
        /\ [k EXCEPT !.state = "WRITE_RESPONSE"].state = "WRITE_RESPONSE"
    BY <1>1, <2>1 DEF Fields
  <2> QED
    BY <2>2, ExecuteWays
<1>3. PICK n \in 0 .. Len(BodyLength) : executed = Executed(n) /\ InRequest(n + 1)
  BY <1>1 DEF FramingInv
<1>4. n \in Nat /\ Len(executed) = n /\ Len(BodyLength) \in Nat
  BY <1>3, ExecutedNext, RestOfStream DEF MemoryInv
<1>5. n + 1 \in 1 .. Len(BodyLength) /\ ~Accepted(n + 1)
  BY <1>2, <1>3 DEF InRequest, Accepted
<1>6. n < Len(BodyLength)
  BY <1>4, <1>5
<1> QED
  BY <1>2, <1>4, <1>5, <1>6 DEF NextRefused

\* WriteResponse closes the connection when the sockets are full: then they do not
\* hold all that is owed.
LEMMA FullCloses ==
    ASSUME MemoryInv, FramingInv, ResponseInv, WriteStep, Len(inFlight) >= SendBuffer
    PROVE  TooMuchOwed
<1> DEFINE N == Len(BodyLength)
<1>1. /\ k.state = "WRITE_RESPONSE" /\ sc \in Scenario
      /\ IsSequence(responses) /\ IsSequence(inFlight) /\ SendBuffer \in Nat
  BY ScenarioAssumption DEF WriteStep, MemoryInv, ResponseInv, SendBuffer
<1>3. PICK n : n = Len(executed)
  OBVIOUS
<1>4. /\ n \in 1 .. N /\ N \in Nat /\ Owed(n) = Response(n)
      /\ written \in 0 .. Len(Response(n)) - 1
      /\ Sent = Join(OwedTo(n - 1), First(Response(n), written))
  BY <1>1, <1>3, ExecutedCount DEF ResponseInv, Answering
<1>5. IsSequence(Response(n)) /\ Len(Response(n)) \in Nat \ {0}
  BY <1>1, <1>4, ResponseSegments
<1> DEFINE m == n - 1
           a == First(Response(n), written)
<1>6. m \in Nat /\ m + 1 = n /\ m + 1 \in 1 .. N /\ n \in 0 .. N
  BY <1>4
<1>7. IsSequence(a) /\ Len(a) = written /\ written \in Nat
  <2>1. written \in 0 .. Len(Response(n))
    BY <1>4, <1>5
  <2> QED
    BY <1>5, <2>1, CutInTwo
<1> HIDE DEF m, a
<1>8. IsSequence(OwedTo(m)) /\ IsSequence(OwedTo(n)) /\ OwedTo(n) = Join(OwedTo(m), Response(n))
  <2>1. IsSequence(OwedTo(m)) /\ IsSequence(OwedTo(m + 1)) /\ OwedTo(m + 1) = Join(OwedTo(m), Owed(m + 1))
    BY <1>1, <1>6, OwedNext
  <2> QED
    BY <1>4, <1>6, <2>1
<1>9. PICK rest : IsSequence(rest) /\ OwedTo(N) = Join(OwedTo(n), rest)
  BY <1>1, <1>6, OwedMore
<1>10. Len(OwedTo(N)) = Len(OwedTo(n)) + Len(rest) /\ Len(rest) \in Nat
  BY <1>8, <1>9, JoinElements
<1>11. Len(OwedTo(n)) = Len(OwedTo(m)) + Len(Response(n)) /\ Len(OwedTo(m)) \in Nat
  BY <1>5, <1>8, JoinElements
<1>12. Len(Sent) = Len(OwedTo(m)) + written
  <2>1. Sent = Join(OwedTo(m), a)
    BY <1>4 DEF m, a
  <2>2. Len(Join(OwedTo(m), a)) = Len(OwedTo(m)) + Len(a)
    BY <1>7, <1>8, JoinElements
  <2> QED
    BY <1>7, <2>1, <2>2
<1>13. Len(Sent) = Len(responses) + Len(inFlight) /\ Len(responses) \in Nat /\ Len(inFlight) \in Nat
  BY <1>1, JoinElements DEF Sent
<1> HIDE DEF N
<1>14. written < Len(Response(n))
  BY <1>4, <1>5
<1>15. SendBuffer < Len(OwedTo(N))
  BY <1>1, <1>5, <1>7, <1>10, <1>11, <1>12, <1>13, <1>14
<1> QED
  BY <1>15 DEF N, TooMuchOwed

\* Else it closes when all of the response has been sent to a request that asked for it.
LEMMA WriteCloses ==
    ASSUME MemoryInv, FramingInv, ResponseInv, WriteStep, k'.state = "CLOSE_CONNECTION",
           ~(Len(inFlight) >= SendBuffer)
    PROVE  LastCloses'
<1>1. /\ k.state = "WRITE_RESPONSE" /\ DOMAIN k = Fields /\ sc' = sc
  BY FieldsOfConnection DEF WriteStep, MemoryInv, InMemory
<1>2. PICK n : n = Len(executed)
  OBVIOUS
<1>3. /\ n \in 1 .. Len(BodyLength) /\ Len(BodyLength) \in Nat /\ Len(executed') = n
      /\ answer = n
      /\ written + 1 = Len(Response(n)) => Sent' = OwedTo(n)'
  BY <1>2, SegmentSent
<1>4. k' = ResponseWritten(k) /\ written + 1 = Len(Response(n))
  BY <1>1, <1>3 DEF WriteStep
<1>5. ~k.keepAlive
  <2> SUFFICES ASSUME k.keepAlive PROVE FALSE
    OBVIOUS
  <2>1. k' = [Initialize(k, TRUE) EXCEPT !.state = "READ_HEADER"]
    BY <1>4 DEF ResponseWritten
  <2>2. DOMAIN Initialize(k, TRUE) = Fields
    BY <1>1 DEF Initialize
  <2> QED
    BY <2>1, <2>2 DEF Fields
<1>6. InRequest(n)
  <2>1. PICK m \in 0 .. Len(BodyLength) : executed = Executed(m) /\ InRequest(m)
    BY <1>1 DEF FramingInv
  <2>2. m \in Nat
    BY <1>3
  <2> QED
    BY <1>2, <2>1, <2>2, ExecutedNext
<1>7. CloseAfter(n)
  BY <1>5, <1>6 DEF InRequest
<1>8. CloseAfter(n)'
  BY <1>1, <1>7, HeadersKept
<1>9. n > 0
  BY <1>3
<1> QED
  BY <1>3, <1>4, <1>8, <1>9 DEF LastCloses

\* Every step of the client and of the server.
LEMMA NextCause ==
    ASSUME MemoryInv, FramingInv, Framed, ResponseInv, CauseInv, [Next]_vars
    PROVE  CauseInv'
<1>1. DOMAIN k = Fields
  BY FieldsOfConnection DEF MemoryInv, InMemory
<1>2. sc' = sc
  BY DEF Next, Server, ClientSend, ClientClose, ClientRead, Select, ReceiveHeader,
         TcpParseHeader, HttpParseHeader, SkipHeader, ReadRequestStep, ExecuteStep, ThrowStep,
         WriteStep, ReturnStep, vars
<1>3. /\ BodyLength' = BodyLength /\ SendBuffer' = SendBuffer
      /\ \A n : OwedTo(n)' = OwedTo(n)
      /\ \A n : Accepted(n)' = Accepted(n) /\ CloseAfter(n)' = CloseAfter(n)
  BY <1>2, OwedKept, MessagesKept, HeadersKept DEF SendBuffer
<1>4. executed' = executed => NextRefused' = NextRefused
  BY <1>3 DEF NextRefused
<1>11. executed' = executed /\ Sent' = Sent => LastCloses' = LastCloses
  BY <1>3 DEF LastCloses
<1>12. TooMuchOwed' = TooMuchOwed
  BY <1>3 DEF TooMuchOwed
<1>16. executed' = executed => LastThrew' = LastThrew
  BY <1>2, FailingKept DEF LastThrew
<1>17. ASSUME k'.state = "CLOSE_CONNECTION" =>
                 (eof \/ NextRefused \/ LastCloses \/ LastThrew \/ TooMuchOwed)'
       PROVE  CauseInv'
  BY <1>17, NextThrew DEF CauseInv
<1>13. ASSUME executed' = executed, Sent' = Sent, eof => eof', k' = k PROVE CauseInv'
  BY <1>4, <1>11, <1>12, <1>13, <1>16, <1>17 DEF CauseInv
<1>5. CASE \/ ClientSend \/ ClientClose \/ Select \/ SkipHeader \/ ReturnStep
           \/ UNCHANGED vars
  <2>1. k' = k /\ executed' = executed /\ (eof => eof') /\ UNCHANGED outVars
    BY <1>5 DEF ClientSend, ClientClose, Select, SkipHeader, ReturnStep, vars, clientVars
  <2>2. Sent' = Sent
    BY <2>1 DEF Sent, outVars
  <2> QED
    BY <1>13, <2>1, <2>2
<1>14. CASE ClientRead
  <2>1. k' = k /\ executed' = executed /\ eof' = eof
    BY <1>14 DEF ClientRead, clientVars
  <2> QED
    BY <1>13, <1>14, <2>1, SegmentRead
<1>6. CASE ReceiveHeader
  <2>1. eof' = eof /\ (eof \/ k'.state # "CLOSE_CONNECTION")
    <3>1. \/ eof
          \/ \E b : k' = [k EXCEPT !.buffer = StoreReceived(@, k.bufferLength, b),
                                   !.bufferLength = @ + Len(b)]
      BY <1>6 DEF ReceiveHeader, ReceiveFails
    <3>2. k.state = "READ_HEADER" /\ eof' = eof
      BY <1>6 DEF ReceiveHeader
    <3> QED
      BY <1>1, <3>1, <3>2 DEF Fields
  <2> QED
    BY <1>17, <2>1
<1>7. CASE TcpParseHeader
  <2>1. executed' = executed
    BY <1>7 DEF TcpParseHeader
  <2> QED
    BY <1>4, <1>7, <1>17, <2>1, TcpParseCloses
<1>15. CASE HttpParseHeader
  <2>1. executed' = executed
    BY <1>15 DEF HttpParseHeader
  <2> QED
    BY <1>4, <1>15, <1>17, <2>1, HttpParseCloses
<1>8. CASE ReadRequestStep
  <2>1. eof' = eof /\ executed' = executed /\ Sent' = Sent
    BY <1>8 DEF ReadRequestStep, outVars, Sent
  <2>2. CASE k.state # "READ_REQUEST"
    <3>1. k' = k
      BY <1>8, <2>2 DEF ReadRequestStep
    <3> QED
      BY <1>13, <2>1, <3>1
  <2>3. CASE k.state = "READ_REQUEST"
    <3> DEFINE bytes == Received(input, RequestRoom(k))
    <3>1. eof \/ k' = ReadRequest(k, bytes)
      BY <1>8, <2>3 DEF ReadRequestStep, ReceiveFails
    <3>2. /\ k.request # "none" /\ RequestRoom(k) \in Nat /\ IsSequence(input) /\ InMemory(k)
      BY <2>3 DEF InMemory, RequestRoom, MemoryInv
    <3>3. IsSequence(bytes) /\ Len(bytes) \in 0 .. RequestRoom(k)
      BY <3>2, ReceivesAtMost
    <3> HIDE DEF bytes
    <3>4. ReadRequest(k, bytes).state \in {k.state, "EXECUTE_REQUEST"}
      BY <3>2, <3>3, RegionRead
    <3>5. eof \/ k'.state # "CLOSE_CONNECTION"
      BY <2>3, <3>1, <3>4
    <3> QED
      BY <1>17, <2>1, <3>5
  <2> QED
    BY <2>2, <2>3
<1>9. CASE ExecuteStep
  BY <1>4, <1>9, <1>17, ExecuteCloses
<1>10. CASE WriteStep
  BY <1>10, <1>12, <1>17, FullCloses, WriteCloses
<1>18. CASE ThrowStep
  BY <1>17, <1>18, ThrowCause
<1> QED
  BY <1>5, <1>6, <1>7, <1>8, <1>9, <1>10, <1>14, <1>15, <1>18 DEF Next, Server

\* The invariants of a connection together.
ConnectionInv == FramingInv /\ ResponseInv /\ IdleInv /\ CauseInv

\* They hold of every connection whose requests are framed.
LEMMA ConnectionInvariant == Spec => [](MemoryInv /\ (Framed => ConnectionInv))
<1>1. Init => MemoryInv /\ (Framed => ConnectionInv)
  <2> SUFFICES ASSUME Init PROVE MemoryInv /\ (Framed => ConnectionInv)
    OBVIOUS
  <2>1. /\ k.state = "READ_HEADER" /\ k.request = "none" /\ k.bufferLength = 0
        /\ k.http = InitialHeader("request")
    BY DEF Init, NewConnection
  <2>2. MemoryInv
    BY InitMemory
  <2>3. IsSequence(Region(k)) /\ Len(Region(k)) = 0
    BY <2>1, <2>2, RegionLength DEF MemoryInv
  <2>4. NoHeaderInBuffer
    BY <2>1, <2>3, NoColonInNothing, InitialStart DEF NoHeaderInBuffer
  <2>5. IdleInv /\ CauseInv
    <3>1. Len(executed) = 0
      BY DEF Init
    <3> QED
      BY <2>1, <2>4, <3>1 DEF IdleInv, CauseInv
  <2> QED
    BY <2>2, <2>5, InitFraming, InitResponses DEF ConnectionInv
<1>2. MemoryInv /\ (Framed => ConnectionInv) /\ [Next]_vars
         => (MemoryInv /\ (Framed => ConnectionInv))'
  <2> SUFFICES ASSUME MemoryInv, Framed => ConnectionInv, [Next]_vars
               PROVE  MemoryInv' /\ (Framed' => ConnectionInv')
    OBVIOUS
  <2>1. MemoryInv'
    BY NextMemory
  <2>2. Framed' = Framed
    <3>1. sc' = sc
      BY DEF Next, Server, ClientSend, ClientClose, ClientRead, Select, ReceiveHeader,
             TcpParseHeader, HttpParseHeader, SkipHeader, ReadRequestStep, ExecuteStep, ThrowStep,
             WriteStep, ReturnStep, vars
    <3> QED
      BY <3>1, HeadersKept
  <2>3. CASE Framed
    <3>1. FramingInv /\ ResponseInv /\ IdleInv /\ CauseInv
      BY <2>3 DEF ConnectionInv
    <3>2. FramingInv'
      BY <2>3, <3>1, NextFraming
    <3>3. ResponseInv'
      BY <3>1, NextResponses
    <3>4. IdleInv'
      BY <2>1, <2>3, <3>1, NextIdle
    <3>5. CauseInv'
      BY <2>3, <3>1, NextCause
    <3> QED
      BY <2>1, <3>2, <3>3, <3>4, <3>5 DEF ConnectionInv
  <2> QED
    BY <2>1, <2>2, <2>3
<1> QED
  BY <1>1, <1>2, PTL DEF Spec

\* A header over HTTP that is used up is shorter than the next request's, and all of
\* that header is still to come.
LEMMA HttpHeaderIncomplete ==
    ASSUME MemoryInv, Http, Framed, NEW n \in 0 .. Len(BodyLength), AtMessage(n), NoHeaderInBuffer,
           n # Len(BodyLength)
    PROVE  /\ n + 1 \in 1 .. Len(BodyLength) /\ k.bufferLength \in Nat
           /\ Len(HeaderOf(n + 1)) \in Nat /\ k.bufferLength < Len(HeaderOf(n + 1))
           /\ Len(Frame(n + 1)) = Len(HeaderOf(n + 1)) + BodyLength[n + 1]
           /\ Len(Coming) \in Nat /\ Len(Coming) >= Len(HeaderOf(n + 1))
<1>1. /\ Len(BodyLength) \in Nat /\ sc \in Scenario /\ k.bufferLength \in Nat
  BY RestOfStream, BufferAssumption DEF MemoryInv, InMemory
<1>2. PICK r \in 1 .. Len(BodyLength) : r = n + 1 /\ r - 1 = n
  BY <1>1
<1>3. k.bufferLength < Len(HeaderOf(r))
  BY <1>2 DEF AtMessage, HeaderSoFar, NoHeaderInBuffer
<1>4. /\ IsSequence(HeaderUnits(r)) /\ Len(HeaderUnits(r)) = Len(HeaderOf(r))
      /\ Len(HeaderOf(r)) \in Nat
  BY <1>1, UnitsOfHeader
<1>5. IsSequence(Body(r)) /\ Len(Body(r)) = BodyLength[r] /\ BodyLength[r] \in Nat
  <2>1. \A m \in 1 .. 99 : m \in Nat
    OBVIOUS
  <2> QED
    BY <1>1, <2>1, BodyOfRequest, Zenon
<1>6. IsSequence(Frame(r)) /\ Len(Frame(r)) = Len(HeaderOf(r)) + BodyLength[r]
  <2>1. Frame(r) = Join(HeaderUnits(r), Body(r)) /\ IsSequence(Frame(r))
    BY <1>1, FrameOverHttp
  <2>2. Len(Join(HeaderUnits(r), Body(r))) = Len(HeaderUnits(r)) + Len(Body(r))
    BY <1>4, <1>5, JoinElements
  <2> QED
    BY <1>4, <1>5, <2>1, <2>2
<1>7. Coming = Join(Frame(r), Rest[r]) /\ IsSequence(Rest[r])
  <2>1. IsSequence(Frame(r)) /\ IsSequence(Rest[r]) /\ Rest[r - 1] = Join(Frame(r), Rest[r])
    BY <1>1, RestOfMessage
  <2>2. Lead = <<>> /\ Coming = Join(Lead, Rest[n])
    BY DEF AtMessage, Lead
  <2>3. IsSequence(Join(Frame(r), Rest[r]))
    BY <2>1, JoinElements
  <2> QED
    BY <1>2, <2>1, <2>2, <2>3, JoinEmpty
<1>8. Len(Coming) = Len(Frame(r)) + Len(Rest[r]) /\ Len(Rest[r]) \in Nat /\ Len(Frame(r)) \in Nat
  BY <1>6, <1>7, JoinElements
<1>9. Len(Coming) \in Nat /\ Len(Coming) >= Len(HeaderOf(r))
  BY <1>4, <1>5, <1>6, <1>8
<1> QED
  BY <1>1, <1>2, <1>3, <1>4, <1>6, <1>9

\* The end of the last response is among what is owed.
LEMMA LastOfOwed ==
    ASSUME sc \in Scenario, NEW r \in 1 .. Len(BodyLength), Owed(r) = Response(r)
    PROVE  Last(Response(r)) \in ToSet(OwedTo(r))
<1> DEFINE m == r - 1
           s == Response(r)
<1>1. m \in Nat /\ m + 1 = r /\ m + 1 \in 1 .. Len(BodyLength)
  <2>1. Len(BodyLength) \in Nat
    BY RestOfStream
  <2> QED
    BY <2>1
<1>2. IsSequence(s) /\ Len(s) \in Nat \ {0} /\ Owed(r) = s
  BY ResponseSegments
<1> HIDE DEF m, s
<1>3. IsSequence(OwedTo(m)) /\ IsSequence(OwedTo(r)) /\ OwedTo(r) = Join(OwedTo(m), s)
  <2>1. /\ IsSequence(OwedTo(m)) /\ IsSequence(OwedTo(m + 1))
        /\ OwedTo(m + 1) = Join(OwedTo(m), Owed(m + 1))
    BY <1>1, OwedNext
  <2> QED
    BY <1>1, <1>2, <2>1
<1> DEFINE i == Len(OwedTo(m)) + Len(s)
<1>4. Len(OwedTo(m)) \in Nat /\ Len(OwedTo(r)) = i
  BY <1>2, <1>3, JoinElements
<1>5. OwedTo(r)[i] = s[Len(s)]
  <2>1. Len(s) \in 1 .. Len(s)
    BY <1>2
  <2> QED
    BY <1>2, <1>3, <2>1, JoinBehind
<1>6. i \in 1 .. Len(OwedTo(r))
  BY <1>2, <1>4
<1> HIDE DEF i
<1>7. DOMAIN OwedTo(r) = 1 .. Len(OwedTo(r))
  BY <1>3, LenProperties DEF IsSequence
<1>8. s[Len(s)] \in ToSet(OwedTo(r))
  BY <1>5, <1>6, <1>7 DEF ToSet
<1> QED
  BY <1>8 DEF Last, s

\* So is the end of every response that is owed.
LEMMA LastIsOwed ==
    ASSUME sc \in Scenario, NEW r \in 1 .. Len(BodyLength), Owed(r) = Response(r)
    PROVE  Last(Response(r)) \in ToSet(OwedTo(Len(BodyLength)))
<1> DEFINE N == Len(BodyLength)
           e == Last(Response(r))
<1>1. N \in Nat /\ r \in 0 .. N /\ N \in 0 .. N
  BY RestOfStream
<1>2. PICK rest : IsSequence(rest) /\ OwedTo(N) = Join(OwedTo(r), rest)
  BY <1>1, OwedMore
<1>3. e \in ToSet(OwedTo(r))
  BY LastOfOwed
<1>4. IsSequence(OwedTo(r)) /\ IsSequence(OwedTo(N))
  BY <1>1, OwedSequence
<1> HIDE DEF N, e
<1>5. /\ DOMAIN OwedTo(r) = 1 .. Len(OwedTo(r)) /\ DOMAIN OwedTo(N) = 1 .. Len(OwedTo(N))
  BY <1>4, LenProperties DEF IsSequence
<1>6. PICK i \in 1 .. Len(OwedTo(r)) : OwedTo(r)[i] = e
  BY <1>3, <1>5 DEF ToSet
<1>7. OwedTo(N)[i] = OwedTo(r)[i]
  BY <1>2, <1>4, <1>6, JoinFront
<1>8. /\ Len(OwedTo(r)) \in Nat /\ Len(rest) \in Nat
      /\ Len(OwedTo(N)) = Len(OwedTo(r)) + Len(rest)
  BY <1>2, <1>4, JoinElements
<1>9. i \in 1 .. Len(OwedTo(N))
  BY <1>6, <1>8
<1>10. e \in ToSet(OwedTo(N))
  BY <1>5, <1>6, <1>7, <1>9 DEF ToSet
<1> QED
  BY <1>10 DEF N, e

------------------------------------------------------------------------------
\* The handler gets the bodies of the client's requests, each one whole, unchanged, once
\* and in order, for every way of cutting the stream into pieces and every size of the
\* buffer (ReadHeader of TcpConnection and of HttpConnection, HttpHeader,
\* Connection::ReadRequest and Initialize).
THEOREM FramedInOrder == Spec => [](Framed => ExecutedInOrder)
<1>1. MemoryInv /\ (Framed => ConnectionInv) => (Framed => ExecutedInOrder)
  BY ExecutedCount DEF ConnectionInv, ExecutedInOrder, Executed
<1> QED
  BY <1>1, ConnectionInvariant, PTL

\* No request is executed that the server does not accept - too long a body, a header
\* that it cannot read, content that no handler takes - and none after a request that
\* asked to close the connection or at which the handler threw (ReadHeader,
\* HttpConnection::ExecuteRequest, Connection::WriteResponse and SetCloseState).
THEOREM FramedAcceptedOnly == Spec => [](Framed => AcceptedOnly)
<1>1. MemoryInv /\ (Framed => ConnectionInv) => (Framed => AcceptedOnly)
  <2> SUFFICES ASSUME MemoryInv, FramingInv, CauseInv PROVE AcceptedOnly
    BY DEF ConnectionInv
  <2>1. PICK n \in 0 .. Len(BodyLength) :
           executed = Executed(n) /\ NoneCloses(n - 1) /\ \A i \in 1 .. n : Accepted(i)
    BY DEF FramingInv
  <2>2. n \in Nat
    BY RestOfStream DEF MemoryInv
  <2>3. Len(executed) = n
    BY <2>1, <2>2, ExecutedNext
  <2>4. ASSUME NEW i \in 1 .. n, i < n PROVE ~CloseAfter(i)
    <3>1. i \in 1 .. n - 1
      BY <2>2, <2>4
    <3> QED
      BY <2>1, <3>1 DEF NoneCloses
  <2>5. ASSUME NEW i \in 1 .. n, i < n PROVE ~Failing(i)
    BY <2>2, <2>3, <2>5 DEF CauseInv
  <2> QED
    BY <2>1, <2>3, <2>4, <2>5 DEF AcceptedOnly
<1> QED
  BY <1>1, ConnectionInvariant, PTL

\* No byte is lost or read twice: when ReadHeader is next, the messages executed, over
\* TCP without the comma that ReadHeader expects, and what is in the buffer, in the
\* socket and with the client make the whole stream (Connection::Initialize moves the
\* bytes behind a request to the front of the buffer).
THEOREM FramedUnexecutedIsKept == Spec => [](Framed => UnexecutedIsKept)
<1>1. MemoryInv /\ (Framed => ConnectionInv) => (Framed => UnexecutedIsKept)
  <2> SUFFICES ASSUME MemoryInv, FramingInv, k.state = "READ_HEADER"
               PROVE  UnexecutedIsKept
    BY DEF ConnectionInv, UnexecutedIsKept
  <2>1. PICK n \in 0 .. Len(BodyLength) : executed = Executed(n) /\ AtMessage(n)
    BY DEF FramingInv
  <2>2. sc \in Scenario /\ n \in Nat /\ IsSequence(input) /\ IsSequence(unsent) /\ InMemory(k)
    BY DEF MemoryInv
  <2>3. Remainders(Rest) /\ Len(BodyLength) \in Nat
    BY <2>2, RestOfStream
  <2>4. Len(executed) = n
    BY <2>1, <2>2, ExecutedNext
  <2>5. [i \in 1 .. Len(executed) |-> Frame(RequestOf(executed[i]))] = [i \in 1 .. n |-> Frame(i)]
    <3>1. ASSUME NEW i \in 1 .. n PROVE RequestOf(executed[i]) = i
      <4>1. i \in 1 .. Len(BodyLength) /\ executed[i] = Body(i)
        BY <2>1, <2>3 DEF Executed
      <4> QED
        BY <2>2, <4>1, BodyOfRequest
    <3> QED
      BY <2>4, <3>1
  <2> DEFINE done == FlattenSeq([i \in 1 .. Len(executed) |-> Frame(RequestOf(executed[i]))])
             rest == Load(k.buffer, 0, k.bufferLength) \o input \o unsent
             cut == Len(done) - (IF comma THEN 1 ELSE 0)
  <2>6. done = Done(n)
    BY <2>5 DEF Done
  <2>7. rest = Coming
    <3>1. Region(k) = Load(k.buffer, 0, k.bufferLength)
      BY <2>1 DEF Region, AtMessage
    <3>2. rest = Join(Join(Region(k), input), unsent)
      BY <3>1 DEF Join
    <3>3. IsSequence(Region(k))
      BY <2>2, RegionLength
    <3> QED
      BY <2>2, <3>2, <3>3, JoinAssociative DEF Coming
  <2> HIDE DEF done, rest
  <2>8. Stream = Join(First(done, cut), rest)
    <3>1. CASE ~(n > 0 /\ ~Http)
      <4>1. ~comma /\ Coming = Join(Lead, Rest[n])
        BY <2>1, <3>1 DEF AtMessage
      <4>2. Lead = <<>> /\ IsSequence(Rest[n])
        BY <2>3, <4>1 DEF Lead, Remainders
      <4>3. Coming = Rest[n]
        BY <4>1, <4>2, JoinEmpty
      <4>4. IsSequence(done) /\ Stream = Join(done, Rest[n])
        BY <2>2, <2>6, StreamAtMessage
      <4>5. Len(done) \in Nat /\ cut = Len(done)
        <5>1. Len(done) \in Nat
          BY <4>4, JoinElements
        <5> QED
          BY <4>1, <5>1
      <4>6. First(done, cut) = done
        <5>1. Len(done) \in 0 .. Len(done)
          BY <4>5
        <5>2. /\ IsSequence(First(done, Len(done))) /\ Len(First(done, Len(done))) = Len(done)
              /\ \A i \in 1 .. Len(done) : First(done, Len(done))[i] = done[i]
          BY <4>4, <5>1, CutInTwo
        <5> QED
          BY <4>4, <4>5, <5>2, SameSequence
      <4> QED
        BY <2>7, <4>3, <4>4, <4>6
    <3>2. CASE n > 0 /\ ~Http
      <4>1. n \in 1 .. Len(BodyLength)
        BY <2>3, <3>2
      <4>2. comma /\ Coming = Join(Single(Comma), Rest[n])
        BY <2>1, <3>2 DEF AtMessage, Lead
      <4>3. cut = Len(Done(n)) - 1
        BY <2>6, <4>2
      <4>4. Stream = Join(First(Done(n), Len(Done(n)) - 1), Join(Single(Comma), Rest[n]))
        BY <2>2, <3>2, <4>1, DoneButComma
      <4> QED
        BY <2>6, <2>7, <4>2, <4>3, <4>4
    <3> QED
      BY <3>1, <3>2
  <2>9. Stream = SubSeq(done, 1, cut) \o rest
    BY <2>8 DEF Join, First
  <2> QED
    BY <2>9 DEF UnexecutedIsKept, done, rest
<1> QED
  BY <1>1, ConnectionInvariant, PTL

\* The client reads the responses whole, once and in the order of its requests, over TCP
\* none for a notification, and none mixed with another: what it has read and what is on
\* its way is a beginning of what it is owed (ExecuteRequest of TcpConnection and of
\* HttpConnection, Connection::WriteResponse).
THEOREM FramedResponsesInOrder == Spec => [](Framed => ResponsesInOrder)
<1>1. MemoryInv /\ (Framed => ConnectionInv) => (Framed => ResponsesInOrder)
  <2> SUFFICES ASSUME MemoryInv, FramingInv, ResponseInv PROVE ResponsesInOrder
    BY DEF ConnectionInv
  <2> DEFINE n == Len(executed)
             owed == FlattenSeq([i \in 1 .. n |-> Owed(RequestOf(executed[i]))])
             sent == responses \o inFlight
  <2>1. n \in 0 .. Len(BodyLength) /\ executed = Executed(n) /\ Len(BodyLength) \in Nat
    BY ExecutedCount
  <2>2. owed = OwedTo(n)
    <3>1. ASSUME NEW i \in 1 .. n PROVE RequestOf(executed[i]) = i
      <4>1. i \in 1 .. Len(BodyLength) /\ Executed(n)[i] = Body(i)
        BY <2>1 DEF Executed
      <4> QED
        BY <2>1, <4>1, BodyOfRequest DEF MemoryInv
    <3>2. [i \in 1 .. n |-> Owed(RequestOf(executed[i]))] = [i \in 1 .. n |-> Owed(i)]
      BY <3>1
    <3> QED
      BY <3>2 DEF OwedTo
  <2>3. sent = Sent /\ IsSequence(Sent)
    BY JoinElements DEF Sent, Join, ResponseInv
  <2>4. PICK rest : IsSequence(rest) /\ OwedTo(n) = Join(Sent, rest)
    BY SentIsPrefix
  <2>5. IsSequence(OwedTo(n))
    BY <2>1, OwedSequence DEF MemoryInv
  <2> HIDE DEF n, owed, sent
  <2>6. /\ Len(Sent) \in Nat /\ Len(rest) \in Nat /\ Len(OwedTo(n)) = Len(Sent) + Len(rest)
    BY <2>3, <2>4, JoinElements
  <2>7. First(OwedTo(n), Len(Sent)) = Sent
    <3>1. Len(Sent) <= Len(OwedTo(n))
      BY <2>6
    <3>2. Join(OwedTo(n), <<>>) = Join(Sent, rest)
      BY <2>4, <2>5, JoinEmpty
    <3> QED
      BY <2>3, <2>4, <2>5, <3>1, <3>2, EmptyIsSequence, CutAgain
  <2>8. First(Sent, Len(Sent)) = Sent
    <3>1. Join(Sent, <<>>) = Join(Sent, <<>>) /\ Len(Sent) <= Len(Sent)
      BY <2>6
    <3> QED
      BY <2>3, <3>1, EmptyIsSequence, CutAgain
  <2>9. IsPrefix(Sent, OwedTo(n))
    <3>1. Len(Sent) <= Len(OwedTo(n))
      BY <2>6
    <3> QED
      BY <2>7, <2>8, <3>1 DEF IsPrefix, First
  <2>10. ResponsesInOrder <=> IsPrefix(sent, owed)
    BY DEF ResponsesInOrder, sent, owed, n
  <2> QED
    BY <2>2, <2>3, <2>9, <2>10
<1> QED
  BY <1>1, ConnectionInvariant, PTL

\* The server closes a connection only when the client has closed, when the next request
\* is one that it does not accept, when the last one asked for it and has been answered
\* in full, or when its handler threw, provided that the sockets hold the responses that
\* the client may leave unread: never because of how the stream was cut (ReadHeader,
\* HttpConnection::ExecuteRequest, Connection::ReadRequest, WriteResponse and
\* SetCloseState).
THEOREM FramedClosedForCause ==
    Spec => [](Framed /\ Len(OwedTo(Len(BodyLength))) <= SendBuffer => ClosedForCause)
<1>1. MemoryInv /\ (Framed => ConnectionInv)
         => (Framed /\ Len(OwedTo(Len(BodyLength))) <= SendBuffer => ClosedForCause)
  <2> SUFFICES ASSUME MemoryInv, FramingInv, ResponseInv, CauseInv,
                      Len(OwedTo(Len(BodyLength))) <= SendBuffer,
                      k.state = "CLOSE_CONNECTION", ~eof
               PROVE  ClosedForCause
    BY DEF ConnectionInv, ClosedForCause
  <2>1. Len(executed) \in 0 .. Len(BodyLength) /\ Len(BodyLength) \in Nat /\ sc \in Scenario
    BY ExecutedCount DEF MemoryInv
  <2>2. ~TooMuchOwed
    <3>1. Len(BodyLength) \in 0 .. Len(BodyLength)
      BY <2>1
    <3>2. SendBuffer \in Nat /\ Len(OwedTo(Len(BodyLength))) \in Nat
      BY <2>1, <3>1, OwedSequence, JoinElements, ScenarioAssumption DEF SendBuffer
    <3> QED
      BY <3>2 DEF TooMuchOwed
  <2>3. CASE NextRefused
    BY <2>3 DEF NextRefused, ClosedForCause
  <2>4. CASE LastCloses
    <3>1. PICK n : n = Len(executed)
      OBVIOUS
    <3>2. n \in 1 .. Len(BodyLength) /\ CloseAfter(n) /\ Sent = OwedTo(n)
      BY <2>1, <2>4, <3>1 DEF LastCloses
    <3>3. Owed(n) = Response(n)
      BY <3>2 DEF CloseAfter, Owed
    <3>4. Last(Response(n)) \in ToSet(Sent)
      BY <2>1, <3>2, <3>3, LastOfOwed
    <3>5. Sent = responses \o inFlight
      BY DEF Sent, Join
    <3>6. n > 0
      BY <3>2
    <3> QED
      BY <3>1, <3>2, <3>4, <3>5, <3>6 DEF ClosedForCause
  <2>5. CASE LastThrew
    BY <2>5 DEF LastThrew, ClosedForCause
  <2> QED
    BY <2>2, <2>3, <2>4, <2>5 DEF CauseInv
<1> QED
  BY <1>1, ConnectionInvariant, PTL

\* A connection that waits for the rest of a header has room for it, unless the buffer is
\* too small for a header: over TCP, with more than one byte of it, no comma alone fills
\* it (ReadHeader, which asks Receive for MaxBufferLength less bufferLength_).
THEOREM FramedRoomToReceive ==
    Spec => [](Framed /\ (Http \/ MaxBufferLength > 1) => RoomToReceive)
<1>1. ASSUME MemoryInv, Http, Framed, FramingInv, IdleInv,
             stage = "select", k.state = "READ_HEADER", HeaderRoom = 0
      PROVE  RoomToReceive
  <2>1. PICK n \in 0 .. Len(BodyLength) : executed = Executed(n) /\ AtMessage(n)
    BY <1>1 DEF FramingInv
  <2>2. n \in Nat /\ Len(executed) = n /\ Len(BodyLength) \in Nat
    BY <1>1, <2>1, ExecutedNext, RestOfStream DEF MemoryInv
  <2>3. NoHeaderInBuffer
    BY <1>1 DEF IdleInv
  <2>4. k.bufferLength = MaxBufferLength /\ MaxBufferLength \in Nat \ {0}
    BY <1>1, BufferAssumption DEF HeaderRoom, MemoryInv, InMemory
  <2>5. n # Len(BodyLength)
    <3> SUFFICES ASSUME n = Len(BodyLength) PROVE FALSE
      OBVIOUS
    <3>1. k.http = InitialHeader("request")
      BY <1>1, <2>1 DEF AtMessage, HeaderSoFar
    <3>2. k.http.startIndex = 0
      BY <3>1, InitialStart
    <3> QED
      BY <1>1, <2>3, <2>4, <3>2 DEF NoHeaderInBuffer
  <2>6. PICK r : r = n + 1
    OBVIOUS
  <2>7. /\ r \in 1 .. Len(BodyLength) /\ Len(HeaderOf(r)) \in Nat
        /\ MaxBufferLength < Len(HeaderOf(r))
        /\ Len(Frame(r)) = Len(HeaderOf(r)) + BodyLength[r]
    BY <1>1, <2>1, <2>3, <2>4, <2>5, <2>6, HttpHeaderIncomplete
  <2>8. BodyLength[r] \in 1 .. 99
    BY <1>1, <2>7, BodyOfRequest DEF MemoryInv
  <2>9. n < Len(BodyLength) /\ Len(Frame(r)) - BodyLength[r] > MaxBufferLength
    <3> DEFINE w == Len(Frame(r))
               b == BodyLength[r]
               h == Len(HeaderOf(r))
    <3>1. w = h + b /\ h \in Nat /\ b \in 1 .. 99 /\ MaxBufferLength < h
      BY <2>7, <2>8
    <3> HIDE DEF w, b, h
    <3>2. w - b > MaxBufferLength
      BY <2>4, <3>1
    <3> QED
      BY <2>2, <2>5, <3>2 DEF w, b
  <2> QED
    BY <2>2, <2>6, <2>9 DEF RoomToReceive
<1>2. ASSUME MemoryInv, ~Http, MaxBufferLength > 1, FramingInv, IdleInv,
             stage = "select", k.state = "READ_HEADER", HeaderRoom = 0
      PROVE  RoomToReceive
  <2> DEFINE data == Region(k)
             tail == Join(input, unsent)
  <2>1. PICK n \in 0 .. Len(BodyLength) : executed = Executed(n) /\ AtMessage(n)
    BY <1>2 DEF FramingInv
  <2>2. /\ n \in Nat /\ Len(executed) = n /\ Len(BodyLength) \in Nat /\ sc \in Scenario
        /\ comma \in BOOLEAN
    BY <1>2, <2>1, ExecutedNext, RestOfStream DEF MemoryInv, FramingInv
  <2>3. IsSequence(tail) /\ IsSequence(data) /\ Len(data) = MaxBufferLength
    <3>1. k.bufferLength = MaxBufferLength
      BY <1>2, BufferAssumption DEF HeaderRoom, MemoryInv, InMemory
    <3>2. IsSequence(data) /\ Len(data) = k.bufferLength
      BY <1>2, <2>1, RegionLength DEF AtMessage, MemoryInv
    <3> QED
      BY <1>2, <3>1, <3>2, JoinElements DEF MemoryInv
  <2>4. Join(data, tail) = Join(Lead, Rest[n]) /\ ColonAt(data) = 0
    BY <1>2, <2>1 DEF AtMessage, Coming, IdleInv, NoHeaderInBuffer
  <2> HIDE DEF data, tail
  <2>5. IsSequence(Lead) /\ Len(Lead) \in {0, 1}
    BY <1>2, <2>2, LeadElements
  <2>6. n < Len(BodyLength)
    <3> SUFFICES ASSUME n = Len(BodyLength) PROVE FALSE
      BY <1>2, <2>2
    <3>1. Rest[n] = <<>>
      BY <1>2, <2>2, RestOfStream DEF Remainders
    <3>2. Join(data, tail) = Lead
      BY <1>2, <2>4, <2>5, <3>1, JoinEmpty
    <3>3. Len(Join(data, tail)) = Len(data) + Len(tail) /\ Len(tail) \in Nat
      BY <1>2, <2>3, JoinElements
    <3> QED
      BY <1>2, <2>3, <2>5, <3>2, <3>3, BufferAssumption
  <2> DEFINE r == n + 1
  <2>7. r \in 1 .. Len(BodyLength) /\ r - 1 = n
    BY <1>2, <2>2, <2>6
  <2>8. Len(data) < Len(Preamble(r)) /\ Len(Preamble(r)) \in Nat
    BY <1>2, <2>2, <2>3, <2>4, <2>7, HeaderIncomplete
  <2> HIDE DEF r
  <2>9. Len(Preamble(r)) = Len(Lead) + Len(Decimal(BodyLength[r])) + 1
    BY <1>2, <2>2, <2>7, FrontElements
  <2>10. /\ BodyLength[r] \in Nat
         /\ Len(Frame(r)) = Len(Decimal(BodyLength[r])) + 1 + BodyLength[r] + 1
         /\ Len(Decimal(BodyLength[r])) \in Nat
    <3> DEFINE D == Decimal(BodyLength[r])
               C == Single(Colon)
               B == Body(r)
               M == Single(Comma)
    <3>1. /\ IsSequence(D) /\ IsSequence(B) /\ IsSequence(C) /\ IsSequence(M)
          /\ Len(C) = 1 /\ Len(M) = 1 /\ Len(B) = BodyLength[r] /\ BodyLength[r] \in Nat
          /\ Frame(r) = Join(Join(Join(D, C), B), M)
      <4>1. BodyLength[r] \in 1 .. 99 /\ IsSequence(B) /\ Len(B) = BodyLength[r]
        BY <1>2, <2>2, <2>7, BodyOfRequest
      <4>2. BodyLength[r] \in Nat
        BY <4>1
      <4> QED
        BY <1>2, <2>2, <2>7, <4>1, <4>2, DecimalDigits, SingleElement, FrameOverTcp
    <3> HIDE DEF D, C, B, M
    <3>2. IsSequence(Join(D, C)) /\ Len(Join(D, C)) = Len(D) + Len(C) /\ Len(D) \in Nat
      BY <3>1, JoinElements
    <3>3. /\ IsSequence(Join(Join(D, C), B))
          /\ Len(Join(Join(D, C), B)) = Len(Join(D, C)) + Len(B)
      BY <3>1, <3>2, JoinElements
    <3>4. Len(Join(Join(Join(D, C), B), M)) = Len(Join(Join(D, C), B)) + Len(M)
      BY <3>1, <3>3, JoinElements
    <3>5. Len(Frame(r)) = Len(D) + 1 + BodyLength[r] + 1
      BY <3>1, <3>2, <3>3, <3>4
    <3> QED
      BY <3>1, <3>2, <3>5 DEF D
  <2>11. Len(Frame(r)) - BodyLength[r] > MaxBufferLength
    <3> DEFINE d == Len(Decimal(BodyLength[r]))
               f == Len(Preamble(r))
               l == Len(Lead)
               b == BodyLength[r]
               w == Len(Frame(r))
    <3>1. /\ d \in Nat /\ b \in Nat /\ l \in {0, 1} /\ f = l + d + 1 /\ w = d + 1 + b + 1
          /\ MaxBufferLength < f /\ MaxBufferLength \in Nat
      BY <1>2, <2>3, <2>5, <2>8, <2>9, <2>10, BufferAssumption
    <3> HIDE DEF d, f, l, b, w
    <3>2. w - b > MaxBufferLength
      BY <3>1
    <3> QED
      BY <3>2 DEF w, b
  <2> QED
    BY <1>2, <2>2, <2>6, <2>11 DEF RoomToReceive, r
<1>3. MemoryInv /\ (Framed => ConnectionInv)
         => (Framed /\ (Http \/ MaxBufferLength > 1) => RoomToReceive)
  BY <1>1, <1>2 DEF ConnectionInv, RoomToReceive
<1> QED
  BY <1>3, ConnectionInvariant, PTL

\* Nothing is left in the buffer while select waits for input that need not come: once
\* everything has been sent and received, every request has been executed and its
\* response written (Connection::Process, which starts over while the buffer has data).
THEOREM FramedNothingLeftBehind == Spec => [](Framed => NothingLeftBehind)
<1>1. MemoryInv /\ (Framed => ConnectionInv) => (Framed => NothingLeftBehind)
  <2> SUFFICES ASSUME MemoryInv, Framed, FramingInv, ResponseInv, IdleInv, stage = "select"
               PROVE  NothingLeftBehind
    BY DEF ConnectionInv, NothingLeftBehind
  <2>1. k.state \in {"READ_HEADER", "READ_REQUEST", "CLOSE_CONNECTION"}
    BY DEF MemoryInv, InMemory, ConnectionState, IdleInv
  <2>2. WaitForReadability(k) \/ k.state = "CLOSE_CONNECTION"
    BY <2>1 DEF WaitForReadability
  <2>3. ASSUME WaitForReadability(k), input = <<>>, unsent = <<>>
        PROVE  /\ Len(executed) = Len(BodyLength)
               /\ \A r \in Request : (Http \/ r \notin Notifications) =>
                     Last(Response(r)) \in ToSet(responses \o inFlight)
    <3>1. /\ Len(executed) \in 0 .. Len(BodyLength) /\ Len(BodyLength) \in Nat
          /\ sc \in Scenario /\ InMemory(k) /\ comma \in BOOLEAN
      BY ExecutedCount DEF MemoryInv, FramingInv
    <3>2. /\ IsSequence(Region(k)) /\ Coming = Region(k)
          /\ k.request # "none" => Len(Region(k)) = k.contentAvail
      <4>1. Coming = Join(Region(k), Join(<<>>, <<>>))
        BY <2>3 DEF Coming
      <4> QED
        BY <3>1, <4>1, RegionLength, EmptyIsSequence, JoinEmpty
    <3>3. CASE k.state = "READ_REQUEST"
      <4>1. PICK n : InRequest(n + 1) /\ ~Complete
        BY <2>1, <3>3 DEF FramingInv, IdleInv
      <4> DEFINE r == n + 1
                 z == Behind(r)
      <4>2. /\ r \in 1 .. Len(BodyLength) /\ k.contentLength = BodyLength[r]
            /\ k.request # "none" /\ Coming = Join(Body(r), z)
        BY <4>1 DEF InRequest
      <4>3. IsSequence(Body(r)) /\ Len(Body(r)) = BodyLength[r] /\ BodyLength[r] \in 1 .. 99
        BY <3>1, <4>2, BodyOfRequest
      <4>4. IsSequence(z)
        BY <3>1, <4>2, BehindBody
      <4> HIDE DEF r, z
      <4>5. Len(Join(Body(r), z)) = Len(Body(r)) + Len(z) /\ Len(z) \in Nat
        BY <4>3, <4>4, JoinElements
      <4>6. ~(k.contentAvail >= k.contentLength)
        BY <4>1 DEF Complete
      <4> QED
        BY <3>2, <4>2, <4>3, <4>5, <4>6
    <3>4. CASE k.state = "READ_HEADER"
      <4>1. PICK n \in 0 .. Len(BodyLength) : executed = Executed(n) /\ AtMessage(n)
        BY <3>4 DEF FramingInv
      <4>2. n \in Nat /\ Len(executed) = n
        BY <3>1, <4>1, ExecutedNext
      <4>3. Join(Region(k), <<>>) = Join(Lead, Rest[n]) /\ NoHeaderInBuffer
        BY <3>2, <3>4, <4>1, JoinEmpty DEF AtMessage, IdleInv
      <4>8. ASSUME n < Len(BodyLength), Http PROVE FALSE
        <5>1. k.bufferLength \in Nat /\ Len(HeaderOf(n + 1)) \in Nat
              /\ k.bufferLength < Len(HeaderOf(n + 1)) /\ Len(Coming) >= Len(HeaderOf(n + 1))
          <6>1. n # Len(BodyLength)
            BY <3>1, <4>2, <4>8
          <6> QED
            BY <4>1, <4>3, <4>8, <6>1, HttpHeaderIncomplete
        <5>2. Len(Coming) = k.bufferLength
          BY <3>1, <3>2, <4>1, RegionLength DEF AtMessage
        <5> QED
          BY <5>1, <5>2
      <4>4. ~(n < Len(BodyLength))
        <5> SUFFICES ASSUME n < Len(BodyLength), ~Http PROVE FALSE
          BY <4>8
        <5>4. ColonAt(Region(k)) = 0
          BY <4>3 DEF NoHeaderInBuffer
        <5>1. n + 1 \in 1 .. Len(BodyLength)
          BY <3>1, <4>2
        <5>2. /\ Len(Region(k)) \in Nat /\ Len(Preamble(n + 1)) \in Nat
              /\ Len(Region(k)) < Len(Preamble(n + 1))
              /\ Len(Join(Region(k), <<>>)) >= Len(Preamble(n + 1))
          BY <3>1, <3>2, <4>2, <4>3, <5>1, <5>4, EmptyIsSequence, HeaderIncomplete
        <5>3. Join(Region(k), <<>>) = Region(k)
          BY <3>2, JoinEmpty
        <5> QED
          BY <5>2, <5>3
      <4>5. Len(executed) = Len(BodyLength)
        BY <3>1, <4>2, <4>4
      <4>6. responses \o inFlight = OwedTo(Len(BodyLength))
        BY <3>4, <4>5 DEF ResponseInv, Reading, Sent, Join
      <4>7. ASSUME NEW r \in Request, Http \/ r \notin Notifications
            PROVE  Last(Response(r)) \in ToSet(responses \o inFlight)
        <5>1. r \in 1 .. Len(BodyLength)
          <6>1. BodyLength \in Seq(1 .. 99)
            BY <3>1, ScenarioAssumption DEF BodyLength
          <6> QED
            BY <6>1, LenProperties DEF Request
        <5>2. Last(Response(r)) \in ToSet(OwedTo(Len(BodyLength)))
          BY <3>1, <4>7, <5>1, LastIsOwed DEF Owed
        <5> QED
          BY <4>6, <5>2
      <4> QED
        BY <4>5, <4>7
    <3> QED
      BY <2>3, <3>3, <3>4 DEF WaitForReadability
  <2> QED
    BY <2>2, <2>3 DEF NothingLeftBehind
<1> QED
  BY <1>1, ConnectionInvariant, PTL

==============================================================================

-------------------------- MODULE ServerConnection ---------------------------
(***************************************************************************)
(* A connection of the server with the client's end of it: netstring       *)
(* framing or HTTP (TcpConnection, HttpConnection in src/connection.cpp)   *)
(* over a stream that arrives in arbitrary pieces, requests that are       *)
(* pipelined, that fit the buffer or not, that are answered or are         *)
(* notifications.                                                          *)
(*                                                                         *)
(* Process runs in steps, one for each function it calls, because data     *)
(* keeps arriving meanwhile.  With Pool set, the server thread calls       *)
(* Process(false) and a worker continues with Process(true) (ServerTP).    *)
(***************************************************************************)
EXTENDS Connection, Netstring, FiniteSets

CONSTANTS
    HandlerTypes,  \* content types that some handler can process
    Scenario       \* what a client and the server of it do: records, see below

ASSUME ScenarioAssumption ==
    \A s \in Scenario :
        /\ s.bodyLength \in Seq(1 .. 99)
        /\ s.http \in BOOLEAN
        /\ s.http => s.head \in [DOMAIN s.bodyLength -> Seq(DOMAIN Line)]
        /\ s.notifications \subseteq DOMAIN s.bodyLength
        /\ s.throws \subseteq DOMAIN s.bodyLength
        /\ s.segments \in [DOMAIN s.bodyLength -> Nat \ {0}]
        /\ s.sendBuffer \in Nat
        /\ s.pool \in BOOLEAN
        /\ s.clientCloses \in BOOLEAN

VARIABLES
    sc,         \* the scenario
    k,          \* the Connection object
    comma,      \* commaExpected_
    stage,      \* the function that Process calls next, or "select"
    doExecute,  \* executeAfterRead, the argument of Process
    answer,     \* the request that response_ answers
    written,    \* header_ and the segments of response_ written so far
    unsent,     \* what the client has yet to send
    input,      \* what has arrived and not been received
    eof,        \* the client has closed its end
    inFlight,   \* response segments written and not yet read by the client
    responses,  \* response segments the client has read
    executed    \* the requests the handler was given

clientVars == <<unsent, input, eof>>
outVars == <<inFlight, responses>>
vars == <<sc, k, comma, stage, doExecute, answer, written, clientVars, outVars, executed>>

Http == sc.http                     \* HttpConnection or TcpConnection?
HeaderOf(r) == sc.head[r]           \* HTTP: the header lines of a request
BodyLength == sc.bodyLength         \* body length of each request
Notifications == sc.notifications   \* the requests that want no response
Throws == sc.throws                 \* those at which the handler throws
Segments == sc.segments             \* number of segments of each response body
SendBuffer == sc.sendBuffer         \* segments that the sockets hold
Pool == sc.pool                     \* executed by a thread pool?
ClientCloses == sc.clientCloses     \* does the client close in the end?

Request == DOMAIN BodyLength
------------------------------------------------------------------------------
\* A client's message: each byte of a body is distinct.
Body(r) == [i \in 1 .. BodyLength[r] |-> 1000 * r + i]
RequestOf(body) == body[1] \div 1000
Frame(r) ==
    IF Http THEN [i \in DOMAIN HeaderOf(r) |-> LineBase + HeaderOf(r)[i]] \o Body(r)
    ELSE Decimal(BodyLength[r]) \o <<Colon>> \o Body(r) \o <<Comma>>
Stream == FlattenSeq([r \in Request |-> Frame(r)])

\* The method that the first header line of a request names.
Method(r) == IF Http THEN Line[HeaderOf(r)[1]].value ELSE "POST"

\* The response to r as it goes over the wire: header, body.  Over HTTP a
\* notification is answered with an empty body; OPTIONS and methods that are
\* not implemented are answered by the header alone.
Response(r) ==
    LET segments == IF r \in Notifications \/ Method(r) # "POST" THEN 0 ELSE Segments[r]
    IN  [i \in 1 .. segments + 1 |-> <<r, i>>]
------------------------------------------------------------------------------
Init ==
    /\ sc \in Scenario
    /\ k = NewConnection /\ comma = FALSE
    /\ stage = "select" /\ doExecute = FALSE /\ answer = 0 /\ written = 0
    /\ unsent = Stream /\ input = <<>> /\ eof = FALSE
    /\ inFlight = <<>> /\ responses = <<>>
    /\ executed = <<>>

\* The client.
ClientSend ==
    /\ \E n \in 1 .. Len(unsent) :
          /\ input' = input \o SubSeq(unsent, 1, n)
          /\ unsent' = SubSeq(unsent, n + 1, Len(unsent))
    /\ UNCHANGED <<sc, k, comma, stage, doExecute, answer, written, eof, outVars, executed>>

ClientClose ==
    /\ ClientCloses /\ unsent = <<>> /\ ~eof
    /\ eof' = TRUE
    /\ UNCHANGED <<sc, k, comma, stage, doExecute, answer, written, unsent, input,
                   outVars, executed>>

ClientRead ==
    /\ inFlight # <<>>
    /\ responses' = Append(responses, Head(inFlight))
    /\ inFlight' = Tail(inFlight)
    /\ UNCHANGED <<sc, k, comma, stage, doExecute, answer, written, clientVars, executed>>

\* select reports the socket: Process is called.
Select ==
    /\ stage = "select" /\ WaitForReadability(k)
    /\ input # <<>> \/ eof
    /\ stage' = "header" /\ doExecute' = ~Pool
    /\ UNCHANGED <<sc, k, comma, answer, written, clientVars, outVars, executed>>

HeaderRoomIgnoresData == MaxBufferLength
HeaderRoom == MaxBufferLength - k.bufferLength

\* ReadHeader of both connections, up to the data that Receive has added.
ReceiveHeader ==
    /\ stage = "header" /\ k.state = "READ_HEADER"
    /\ IF ReceiveFails(input, eof, HeaderRoom)
       THEN k' = Closed(k) /\ stage' = "select" /\ UNCHANGED input
       ELSE LET bytes == Received(input, HeaderRoom) IN
            /\ input' = SubSeq(input, Len(bytes) + 1, Len(input))
            /\ k' = [k EXCEPT !.buffer = StoreReceived(@, k.bufferLength, bytes),
                              !.bufferLength = @ + Len(bytes)]
            /\ stage' = "parse"
    /\ UNCHANGED <<sc, comma, doExecute, answer, written, unsent, eof, outVars, executed>>

HeaderStartIgnoresComma == 1
HeaderStart == IF comma THEN 2 ELSE 1

\* The rest of TcpConnection::ReadHeader: with a colon in the buffer, the
\* digits before it are the length of the body.
TcpParseHeader ==
    LET data == Load(k.buffer, 0, k.bufferLength)
        colon == ColonAt(data)
        length == Atoi(SubSeq(data, HeaderStart, colon))
        bad == (comma /\ data[1] # Comma) \/ length = 0 \/ length > MaxContentLength
    IN
    /\ stage = "parse" /\ ~Http
    /\ \/ colon = 0 /\ stage' = "request" /\ UNCHANGED <<k, comma>>
       \/ colon # 0 /\ bad /\ stage' = "select" /\ k' = Closed(k) /\ UNCHANGED comma
       \/ /\ colon # 0 /\ ~bad
          /\ k' = Terminate(PrepareRequest(k, colon, length, TRUE))
          /\ comma' = TRUE /\ stage' = "request"
    /\ UNCHANGED <<sc, doExecute, answer, written, clientVars, outVars, executed>>

\* The rest of HttpConnection::ReadHeader.  contentLength_ is unsigned: a
\* header without a length (-1) exceeds every limit.
HttpParseHeader ==
    LET h == ProcessHeaderData(k.http, Load(k.buffer, 0, k.bufferLength), FALSE)
        bad == h.result = "FAULT"
               \/ (h.result = "COMPLETE" /\ h.contentLength \notin 0 .. MaxContentLength)
        parsed == [k EXCEPT !.http = h]
    IN
    /\ stage = "parse" /\ Http
    /\ \/ bad /\ stage' = "select" /\ k' = Closed(k)
       \/ h.result = "INCOMPLETE" /\ stage' = "request" /\ k' = parsed
       \/ /\ h.result = "COMPLETE" /\ ~bad
          /\ k' = PrepareRequest(parsed, h.startIndex, h.contentLength, h.keepAlive)
          /\ stage' = "request"
    /\ UNCHANGED <<sc, comma, doExecute, answer, written, clientVars, outVars, executed>>

\* Process finds the connection in a later state.
SkipHeader ==
    /\ stage = "header" /\ k.state # "READ_HEADER"
    /\ stage' = "request"
    /\ UNCHANGED <<sc, k, comma, doExecute, answer, written, clientVars, outVars, executed>>

ReadRequestStep ==
    /\ stage = "request"
    /\ IF k.state # "READ_REQUEST"
       THEN UNCHANGED <<k, input>>
       ELSE IF ReceiveFails(input, eof, RequestRoom(k))
       THEN k' = Closed(k) /\ UNCHANGED input
       ELSE LET bytes == Received(input, RequestRoom(k)) IN
            /\ input' = SubSeq(input, Len(bytes) + 1, Len(input))
            /\ k' = ReadRequest(k, bytes)
    /\ stage' = IF k'.state = "CLOSE_CONNECTION" THEN "select" ELSE "execute"
    /\ UNCHANGED <<sc, comma, doExecute, answer, written, unsent, eof, outVars, executed>>

CanProcessAny(contentType) == TRUE

\* Some handler of the server takes requests of this content type.
CanProcessContentType(contentType) == contentType \in HandlerTypes

\* HttpConnection::ExecuteRequest: k afterwards.
HttpExecuteRequest ==
    IF k.http.word = "POST" /\ ~CanProcessContentType(k.http.contentType) THEN Closed(k)
    ELSE [k EXCEPT !.state = "WRITE_RESPONSE"]

\* TcpConnection::ExecuteRequest: a notification leaves nothing to write.
TcpExecuteRequest(r) ==
    IF r \in Notifications THEN [Initialize(k, TRUE) EXCEPT !.state = "READ_HEADER"]
    ELSE [k EXCEPT !.state = "WRITE_RESPONSE"]

\* The handler is given r, and an AnyRpcException leaves it.
HandlerThrows(r) ==
    /\ r \in Throws
    /\ Http => k.http.word = "POST" /\ CanProcessContentType(k.http.contentType)

\* newMessage: back to the top of Process, else return from it.
AfterMessage(next) == stage' = IF NewMessage(next) THEN "header" ELSE "select"

ExecuteStep ==
    LET r == RequestOf(RequestBytes(k)) IN
    /\ stage = "execute" /\ k.state = "EXECUTE_REQUEST" /\ doExecute
    /\ ~HandlerThrows(r)
    /\ k' = IF Http THEN HttpExecuteRequest ELSE TcpExecuteRequest(r)
    /\ executed' = IF k'.state = "CLOSE_CONNECTION" THEN executed
                   ELSE Append(executed, RequestBytes(k))
    /\ \/ k'.state = "WRITE_RESPONSE" /\ answer' = r /\ stage' = "write"
       \/ k'.state # "WRITE_RESPONSE" /\ AfterMessage(k') /\ UNCHANGED answer
    /\ UNCHANGED <<sc, comma, doExecute, written, clientVars, outVars>>

\* Connection::SetCloseState: CLOSE_CONNECTION, without Initialize.
SetCloseState == [k EXCEPT !.state = "CLOSE_CONNECTION"]

\* The exception leaves Process, and ServerST, the server thread or the worker of
\* ServerTP, whoever called it, catches it.
ThrowStep ==
    LET r == RequestOf(RequestBytes(k)) IN
    /\ stage = "execute" /\ k.state = "EXECUTE_REQUEST" /\ doExecute
    /\ HandlerThrows(r)
    /\ k' = SetCloseState
    /\ executed' = Append(executed, RequestBytes(k))
    /\ stage' = "select"
    /\ UNCHANGED <<sc, comma, doExecute, answer, written, clientVars, outVars>>

\* Nothing to execute: Process returns.  Process(false) leaves a complete
\* request to a worker, which calls Process(true).
ReturnStep ==
    /\ stage = "execute"
    /\ \/ k.state # "EXECUTE_REQUEST" /\ stage' = "select" /\ UNCHANGED doExecute
       \/ k.state = "EXECUTE_REQUEST" /\ ~doExecute /\ stage' = "header" /\ doExecute' = TRUE
    /\ UNCHANGED <<sc, k, comma, answer, written, clientVars, outVars, executed>>

WrittenHeaderKept == 1

\* headerBytesWritten_ and resultBytesWritten_ after Initialize.
WrittenReset == 0

\* WriteResponse, one Send: the whole segment, or nothing and an error.
WriteStep ==
    /\ stage = "write" /\ k.state = "WRITE_RESPONSE"
    /\ IF Len(inFlight) >= SendBuffer
       THEN k' = Closed(k) /\ AfterMessage(k') /\ UNCHANGED <<written, inFlight>>
       ELSE /\ inFlight' = Append(inFlight, Response(answer)[written + 1])
            /\ IF written + 1 = Len(Response(answer))
               THEN /\ k' = ResponseWritten(k) /\ written' = WrittenReset
                    /\ AfterMessage(k')
               ELSE /\ written' = written + 1 /\ UNCHANGED <<k, stage>>
    /\ UNCHANGED <<sc, comma, doExecute, answer, clientVars, responses, executed>>

Server == Select \/ ReceiveHeader \/ TcpParseHeader \/ HttpParseHeader
          \/ SkipHeader
          \/ ReadRequestStep \/ ExecuteStep \/ ThrowStep
          \/ WriteStep \/ ReturnStep

Next == ClientSend \/ ClientClose \/ ClientRead \/ Server

Spec == Init /\ [][Next]_vars
------------------------------------------------------------------------------
ConnectionState ==
    {"READ_HEADER", "READ_REQUEST", "EXECUTE_REQUEST", "WRITE_RESPONSE",
     "CLOSE_CONNECTION"}

\* Types; and no access goes past the end of buffer_ or of the malloced
\* request: the lengths and offsets that bound them stay within the memory.
TypeOK ==
    /\ k.state \in ConnectionState
    /\ k.bufferLength \in 0 .. MaxBufferLength
    /\ Len(k.buffer) = MaxBufferLength + 1
    /\ k.request = "buffer" =>
          /\ k.requestAt + k.contentLength <= MaxBufferLength
          /\ k.requestAt + k.contentAvail <= MaxBufferLength
    /\ k.request = "heap" =>
          /\ Len(k.heap) = k.contentLength + 1
          /\ k.contentAvail <= k.contentLength
    /\ stage \in {"select", "header", "parse", "request", "execute", "write"}
    /\ Len(inFlight) <= SendBuffer

\* However the stream is cut into pieces, the handler gets the bodies of the
\* client's requests: each one whole, unchanged, once, in order.
ExecutedInOrder ==
    executed = [i \in 1 .. Len(executed) |-> Body(i)]

\* The bytes between the last request executed and the end of the stream are
\* where the code looks for them: nothing is lost or read twice when a request
\* is moved, preserved or left in the socket.
UnexecutedIsKept ==
    k.state = "READ_HEADER" =>
        LET done == FlattenSeq([i \in 1 .. Len(executed) |-> Frame(RequestOf(executed[i]))])
            rest == Load(k.buffer, 0, k.bufferLength) \o input \o unsent
        IN  Stream = SubSeq(done, 1, Len(done) - (IF comma THEN 1 ELSE 0)) \o rest

\* What the client is to read for request r: over TCP nothing, for a notification.
Owed(r) == IF Http \/ r \notin Notifications THEN Response(r) ELSE <<>>

\* Responses reach the client whole, once and in the order of the requests.
ResponsesInOrder ==
    IsPrefix(responses \o inFlight,
             FlattenSeq([i \in 1 .. Len(executed) |-> Owed(RequestOf(executed[i]))]))

\* The header lines of a request, read as a whole.
LineOf(r, i) == Line[HeaderOf(r)[i]]
LinesWith(r, key) == {i \in DOMAIN HeaderOf(r) : LineOf(r, i).key = key}
FieldKeys == {"", "content-length", "content-type", "connection", "host", "other"}

\* Each line is one that the server knows, and the length of the body is stated once.
WellFormed(r) ==
    /\ LineOf(r, 1).key = "request" /\ LineOf(r, 1).version # "none"
    /\ LineOf(r, 1).version = "1.1" => LinesWith(r, "host") # {}
    /\ \A i \in 2 .. Len(HeaderOf(r)) : LineOf(r, i).key \in FieldKeys
    /\ \E i \in LinesWith(r, "content-length") :
          LinesWith(r, "content-length") = {i} /\ LineOf(r, i).value = BodyLength[r]
    /\ \A i, j \in LinesWith(r, "content-type") : i < j => LineOf(r, i).value = ""

\* Some handler takes its content; without a line that says so, content of no type.
Handleable(r) ==
    \/ \E i \in LinesWith(r, "content-type") :
          /\ LineOf(r, i).value \in HandlerTypes
          /\ \A j \in LinesWith(r, "content-type") : LineOf(r, j).value \in {"", LineOf(r, i).value}
    \/ LinesWith(r, "content-type") = {} /\ "" \in HandlerTypes

Accepted(r) ==
    /\ BodyLength[r] <= MaxContentLength
    /\ Http => WellFormed(r) /\ (Method(r) = "POST" => Handleable(r))

\* The last line that says whether to close, else the version, asks to close.
CloseLines(r) == {i \in LinesWith(r, "connection") : LineOf(r, i).value \in {"close", "keep-alive"}}
CloseAfter(r) ==
    /\ Http
    /\ \/ CloseLines(r) = {} /\ LineOf(r, 1).version = "1.0"
       \/ \E i \in CloseLines(r) :
             LineOf(r, i).value = "close" /\ \A j \in CloseLines(r) : j <= i

\* The handler is given r and throws.
Failing(r) == r \in Throws /\ Method(r) = "POST"

\* A connection is closed only when its client has closed, when the next
\* request is not one the server accepts, when the last request asked for it and
\* has been answered in full, or when its handler threw: never because of how the
\* stream was cut.
ClosedForCause ==
    LET n == Len(executed) IN
    k.state = "CLOSE_CONNECTION" =>
        \/ eof
        \/ n < Len(BodyLength) /\ ~Accepted(n + 1)
        \/ n > 0 /\ CloseAfter(n) /\ Last(Response(n)) \in ToSet(responses \o inFlight)
        \/ n > 0 /\ Failing(n)

\* No request is executed that the server does not accept, none after one that
\* asked to close the connection, and none after one whose handler threw.
AcceptedOnly ==
    \A i \in 1 .. Len(executed) :
        /\ Accepted(i)
        /\ i < Len(executed) => ~CloseAfter(i) /\ ~Failing(i)

\* When the response cannot all be written the connection is to "wait until
\* writable again" (connection.cpp:323-325), not to be closed.
SlowReaderKept ==
    [][k.state = "WRITE_RESPONSE" => k'.state # "CLOSE_CONNECTION"]_vars

\* A connection that waits for the rest of a header has room for it, unless the
\* header alone is longer than the buffer: what is in front of it, the comma of the
\* last message or a request that has been executed, does not take its room.  (In that
\* case Receive does not call recv: neither more data nor the end of the stream, "EOF
\* in the middle of a request is an error", connection.cpp:533, is ever noticed.)
RoomToReceive ==
    LET n == Len(executed) IN
    stage = "select" /\ k.state = "READ_HEADER" /\ HeaderRoom = 0
        => n < Len(BodyLength) /\ Len(Frame(n + 1)) - BodyLength[n + 1] > MaxBufferLength

\* Between calls of Process the connection waits for input or is closed, and no
\* request stays in the buffer while select waits for input that need not come: when
\* the client has sent everything and the server has received it, every request has
\* been executed and its response written.
NothingLeftBehind ==
    /\ stage = "select" => WaitForReadability(k) \/ k.state = "CLOSE_CONNECTION"
    /\ stage = "select" /\ WaitForReadability(k) /\ input = <<>> /\ unsent = <<>>
        => /\ Len(executed) = Len(BodyLength)
           /\ \A r \in Request : (Http \/ r \notin Notifications) =>
                 Last(Response(r)) \in ToSet(responses \o inFlight)
==============================================================================

------------------------------- MODULE Client --------------------------------
(***************************************************************************)
(* The client (src/client.cpp): Call, Post, GetPostResult and Notify over  *)
(* netstrings (TcpClient) or HTTP (HttpClient), with an abstract server at *)
(* the other end.  The application makes one call after the other; between *)
(* the steps of a call the server answers, closes the connection or does   *)
(* neither until the time is up.                                           *)
(***************************************************************************)
EXTENDS Netstring, HttpHeader, FiniteSets

CONSTANTS
    MaxBufferLength,   \* size of buffer_ less one (2048 in the code)
    MaxContentLength,  \* longest response body (1000000 in the code)
    FirstLine, LengthLine(_), CloseLine, EndLine,   \* the server's HTTP lines
    Scenario           \* transport, protocol and application: records

ASSUME ClientAssumption ==
    /\ MaxBufferLength \in Nat \ {0} /\ MaxContentLength \in Nat
    /\ \A s \in Scenario :
          /\ s.http \in BOOLEAN       \* HttpClient or TcpClient
          /\ s.ids \in BOOLEAN        \* the protocol's responses carry an id (not XML)
          /\ s.binary \in BOOLEAN     \* any bytes may parse (MessagePack)
          /\ s.kinds \subseteq {"call", "post", "notify"}   \* what the application does
          /\ s.mixed \in BOOLEAN      \* Call and Notify with posts outstanding
          /\ s.stalls \in BOOLEAN     \* the server may stop reading
          /\ s.close \subseteq Nat     \* HTTP: requests answered with "close"
          /\ s.body \in Seq(Nat \ {0})  \* requests made: the lengths of their answers

VARIABLES
    sc,         \* the scenario
    c,          \* the Client object
    pc,         \* the function that the current call has reached, or "idle"
    op,         \* the current call: its kind and the request it is about
    retried,    \* the request is being written for the second time
    late,       \* GetTimeLeft() is 0
    conn,       \* number of the connection; 0 when the socket is closed
    conns,      \* connections made so far
    pending,    \* requests that the server has received on it: <<request, kind>>
    stalled,    \* the server does not read, and the sockets' buffers are full
    input,      \* what the server has sent on it and the client has not received
    gone,       \* the server has closed its end of it
    astray,     \* history: a connection was made while posts of an earlier one were expected
    ops,        \* requests generated so far
    posted,     \* history: posts whose result the application still expects
    results,    \* history: <<request, request whose answer was returned>>
    delivered   \* history: how often each request reached a server

netVars == <<conn, conns, astray, pending, stalled, input, gone>>
vars == <<sc, c, pc, op, retried, late, netVars, ops, posted, results, delivered>>

\* Client::Client
NewClient ==
    [buffer |-> <<>>,        \* buffer_, bufferLength_ units of it
     response |-> "none",    \* response_: unset, into buffer_, or malloced
     body |-> <<>>,          \* the contentAvail_ units there
     contentLength |-> 0,
     processed |-> FALSE,    \* responseProcessed_
     ids |-> <<>>,           \* requestId_
     comma |-> FALSE,        \* TcpClient: commaExpected_
     http |-> InitialHeader("response")]   \* HttpClient: httpResponseState_

ResetTransaction(k) ==
    [k EXCEPT !.contentLength = 0, !.response = "none", !.body = <<>>,
              !.processed = FALSE, !.http = InitialHeader("response")]

PreserveNothing(k) == [k EXCEPT !.buffer = <<>>, !.processed = TRUE]

\* What follows the response in the buffer is the start of the next one.
PreserveReceiveBuffer(k) ==
    [k EXCEPT !.buffer = CASE k.response = "none" -> @
                           [] k.response = "heap" -> <<>>
                           [] OTHER -> SubSeq(k.body, k.contentLength + 1, Len(k.body)),
              !.processed = TRUE]

CloseKeepsBuffer(k) == [k EXCEPT !.comma = FALSE]

\* Close, and ResetReceiveBuffer as Connect does it.
CloseForConnect(k) == [k EXCEPT !.comma = FALSE, !.buffer = <<>>]

Reset(k) == [ResetTransaction(CloseForConnect(k)) EXCEPT !.ids = <<>>]
------------------------------------------------------------------------------
\* An answer on the wire; its body tells the connection and the request.
Unit(n, r, i) == 1000 * n + 10 * r + i
RequestOf(u) == (u % 1000) \div 10
ConnOf(u) == u \div 1000
BodyOf(n, r, length) == [i \in 1 .. length |-> Unit(n, r, i)]

\* Only XML answers a notification; HTTP sends an empty response.
Answer(n, r, kind) ==
    LET length == IF kind = "notify" /\ sc.ids THEN 0 ELSE sc.body[r] IN
    CASE sc.http ->
            <<LineBase + FirstLine>>
            \o (IF r \in sc.close THEN <<LineBase + CloseLine>> ELSE <<>>)
            \o <<LineBase + LengthLine(length), LineBase + EndLine>> \o BodyOf(n, r, length)
      [] ~sc.http /\ length = 0 -> <<>>
      [] OTHER -> Decimal(length) \o <<Colon>> \o BodyOf(n, r, length) \o <<Comma>>

PrepareInBuffer(k, bodyAt, length) ==
    [k EXCEPT !.contentLength = length, !.response = "buffer",
              !.body = SubSeq(k.buffer, bodyAt + 1, Len(k.buffer))]

\* The header is complete: the body is in the buffer or gets memory of its own.
PrepareResponse(k, bodyAt, length) ==
    [k EXCEPT !.contentLength = length,
              !.body = SubSeq(k.buffer, bodyAt + 1, Len(k.buffer)),
              !.response = IF length > MaxBufferLength - bodyAt THEN "heap" ELSE "buffer"]

CommaMissing(k) == k.comma /\ k.buffer[1] # Comma

\* TcpClient::ProcessHeader: the client afterwards and the result.
TcpProcessHeader(k, eof) ==
    LET colon == ColonAt(k.buffer)
        length == Atoi(SubSeq(k.buffer, IF k.comma THEN 2 ELSE 1, colon))
    IN  CASE colon = 0 -> [k |-> k, result |-> IF eof THEN "FAULT" ELSE "INCOMPLETE"]
          [] colon # 0 /\ (CommaMissing(k) \/ length = 0 \/ length > MaxContentLength) ->
                [k |-> k, result |-> "FAULT"]
          [] OTHER -> [k |-> [PrepareResponse(k, colon, length) EXCEPT !.comma = TRUE],
                       result |-> "COMPLETE"]

\* std::max(0, GetContentLength())
StatedLength(h) == IF h.contentLength < 0 THEN 0 ELSE h.contentLength

\* HttpClient::ProcessHeader
HttpProcessHeader(k, eof) ==
    LET h == ProcessHeaderData(k.http, k.buffer, eof)
        parsed == [k EXCEPT !.http = h]
    IN  CASE h.result # "COMPLETE" -> [k |-> parsed, result |-> h.result]
          [] h.result = "COMPLETE" /\ (StatedLength(h) > MaxContentLength \/ h.word # "200") ->
                [k |-> parsed, result |-> "FAULT"]
          [] OTHER -> [k |-> PrepareResponse(parsed, h.startIndex, StatedLength(h)),
                       result |-> "COMPLETE"]

ProcessHeader(k, eof) == IF sc.http THEN HttpProcessHeader(k, eof) ELSE TcpProcessHeader(k, eof)
------------------------------------------------------------------------------
Init ==
    /\ sc \in Scenario /\ c = NewClient
    /\ pc = "idle" /\ op = [kind |-> "none", id |-> 0]
    /\ retried = FALSE /\ late = FALSE
    /\ conn = 0 /\ conns = 0 /\ astray = FALSE /\ pending = <<>> /\ stalled = FALSE
    /\ input = <<>> /\ gone = FALSE
    /\ ops = 0 /\ posted = <<>> /\ results = {}
    /\ delivered = [r \in DOMAIN sc.body |-> 0]

\* The socket is closed.
Disconnect ==
    /\ conn' = 0 /\ pending' = <<>> /\ stalled' = FALSE
    /\ input' = <<>> /\ gone' = FALSE /\ UNCHANGED <<conns, astray>>

\* Client::Reset, and the call returns false: no post can be answered any more.
Fail ==
    /\ c' = Reset(c) /\ pc' = "idle" /\ Disconnect /\ posted' = <<>>
    /\ UNCHANGED <<sc, retried, late, ops, results>>

\* A connection made by Connect in place of the one that is not connected; requestId_
\* keeps the posts whose answers were to come over that.
Reconnect ==
    /\ conns' = conns + 1 /\ conn' = conns + 1
    /\ astray' = (astray \/ posted # <<>>)
    /\ pending' = <<>> /\ stalled' = FALSE /\ input' = <<>> /\ gone' = FALSE

\* Call, Post or Notify, up to the write.  IsConnected(0) may be false for a
\* socket that was connected, and Connect may fail.
Begin(kind) ==
    LET fresh == ResetTransaction(PreserveReceiveBuffer(c))
        request(k) == [k EXCEPT !.ids = Append(@, ops + 1)]
    IN
    /\ pc = "idle" /\ ops < Len(sc.body) /\ kind \in sc.kinds
    /\ kind # "post" => sc.mixed \/ posted = <<>>
    /\ op' = [kind |-> kind, id |-> ops + 1]
    /\ \/ Fail
       \/ /\ \/ conn # 0 /\ c' = request(fresh) /\ UNCHANGED netVars
             \/ c' = request(CloseForConnect(fresh)) /\ Reconnect
          /\ pc' = "write" /\ retried' = FALSE /\ late' = FALSE /\ ops' = ops + 1
          /\ UNCHANGED <<sc, posted, results>>
    /\ UNCHANGED delivered

\* GetPostResult, up to the read; it does not connect.
GetPostResult ==
    /\ pc = "idle" /\ posted # <<>>
    /\ op' = [kind |-> "get", id |-> Head(posted)]
    /\ \/ Fail
       \/ /\ conn # 0
          /\ c' = IF c.processed THEN ResetTransaction(PreserveReceiveBuffer(c)) ELSE c
          /\ pc' = "header" /\ late' = FALSE
          /\ UNCHANGED <<sc, retried, netVars, ops, posted, results>>
    /\ UNCHANGED delivered

\* SetServer, or the application's Close; what is in the buffer stays there.
SetServer ==
    /\ pc = "idle" /\ conn # 0 /\ (sc.mixed \/ posted = <<>>)
    /\ c' = [c EXCEPT !.comma = FALSE] /\ Disconnect
    /\ UNCHANGED <<sc, pc, op, retried, late, ops, posted, results, delivered>>

NotifyPopsNothing(ids) == ids

\* requestId_.pop_front() at the end of Notify
NotifyPops(ids) == Tail(ids)

NotifyHasHttpResponse == sc.http

\* TransportHasNotifyResponse, of HttpClient, TcpClient and XmlTcpClient
NotifyHasResponse == sc.http \/ ~sc.ids

\* WriteRequest succeeds, also for a connection that the server has closed.
WriteRequest ==
    /\ pc = "write" /\ (gone \/ ~stalled)
    /\ pending' = IF gone THEN pending ELSE Append(pending, <<op.id, op.kind>>)
    /\ delivered' = IF gone THEN delivered ELSE [delivered EXCEPT ![op.id] = @ + 1]
    /\ CASE op.kind = "post" ->
              pc' = "idle" /\ posted' = Append(posted, op.id) /\ UNCHANGED c
         [] op.kind = "notify" /\ ~NotifyHasResponse ->
              pc' = "idle" /\ c' = [c EXCEPT !.ids = NotifyPops(@)] /\ UNCHANGED posted
         [] OTHER -> pc' = "header" /\ UNCHANGED <<c, posted>>
    /\ UNCHANGED <<sc, op, retried, late, conn, conns, astray, stalled, input, gone, ops, results>>

LengthMayBeShort == TRUE

\* May a server act on a request whose last bytes were not sent?  The length in
\* the header covers all of an HTTP request, and all but the comma of a netstring.
ActsOnPartOfRequest == ~sc.http

\* WriteRequest fails, because the server has closed or because it does not read and
\* the time is up, and the request is written again on a new connection, once.
WriteFails ==
    /\ pc = "write" /\ (gone \/ (stalled /\ late))
    /\ \/ UNCHANGED delivered
       \/ ActsOnPartOfRequest /\ delivered' = [delivered EXCEPT ![op.id] = @ + 1]
    /\ \/ Fail
       \/ /\ ~retried /\ retried' = TRUE
          /\ c' = CloseForConnect(c) /\ Reconnect
          /\ UNCHANGED <<sc, pc, late, ops, posted, results>>
    /\ UNCHANGED op

NeverOutOfTime == FALSE

\* GetTimeLeft() = 0, as ReadHeader tests it
OutOfTime == late

\* One turn of the loop of ReadHeader: n units are received, or the end of the
\* stream, or nothing yet.
ReadHeader ==
    /\ pc = "header"
    /\ \E n \in 0 .. Len(input), eof \in BOOLEAN :
          LET got == [c EXCEPT !.buffer = @ \o SubSeq(input, 1, n)]
              header == ProcessHeader(got, eof)
              goesOn == header.result = "INCOMPLETE" /\ ~OutOfTime
          IN
          /\ n <= MaxBufferLength - Len(c.buffer)
          /\ eof => gone /\ input = <<>> /\ Len(c.buffer) < MaxBufferLength
          /\ \/ /\ header.result = "COMPLETE" \/ goesOn
                /\ c' = header.k /\ pc' = IF goesOn THEN "header" ELSE "body"
                /\ input' = SubSeq(input, n + 1, Len(input))
                /\ UNCHANGED <<sc, retried, late, conn, conns, astray, pending, stalled, gone, ops,
                               posted, results>>
             \/ header.result # "COMPLETE" /\ ~goesOn /\ Fail
    /\ UNCHANGED <<op, delivered>>

\* The handler's ProcessResponse: which request's answer it returns (0: data that
\* is no answer to anything; -1: it finds fault).
Parsed(body) ==
    IF Len(body) >= c.contentLength /\ body # <<>>
    THEN LET r == RequestOf(body[1]) IN
         IF sc.ids /\ (c.ids = <<>> \/ Head(c.ids) # r) THEN {-1} ELSE {r}
    ELSE IF sc.binary THEN {0, -1} ELSE {-1}

\* A response that says so closes the connection: HttpClient::ProcessResponse.
\* rest is what the server has sent after the response.
CloseIfAsked(rest) ==
    IF sc.http /\ ~c.http.keepAlive THEN Disconnect
    ELSE input' = rest /\ UNCHANGED <<conn, conns, astray, pending, stalled, gone>>

\* ProcessResponse, or the end of Notify: the call returns.
Finish(body, rest) ==
    \/ /\ op.kind = "notify"
       /\ c' = [c EXCEPT !.body = body, !.ids = NotifyPops(@)]
       /\ pc' = "idle" /\ input' = rest
       /\ UNCHANGED <<sc, retried, late, conn, conns, astray, pending, stalled, gone, ops, posted,
                      results>>
    \/ op.kind # "notify" /\ -1 \in Parsed(body) /\ Fail
    \/ /\ op.kind # "notify"
       /\ \E r \in Parsed(body) \ {-1} : results' = results \cup {<<op.id, r>>}
       /\ c' = [c EXCEPT !.body = body, !.processed = TRUE,
                         !.ids = IF @ = <<>> THEN @ ELSE Tail(@)]
       /\ pc' = "idle" /\ CloseIfAsked(rest)
       /\ posted' = IF op.kind = "get" THEN Tail(posted) ELSE posted
       /\ UNCHANGED <<sc, retried, late, ops>>

\* ReadResponse.  Receive returns true when it has everything and when the time
\* is up, and false at the end of the stream.
ReadResponse ==
    LET missing == c.contentLength - Len(c.body)
        receive(n) == Finish(c.body \o SubSeq(input, 1, n), SubSeq(input, n + 1, Len(input)))
    IN
    /\ pc = "body"
    /\ \/ missing <= 0 /\ receive(0)
       \/ missing > 0 /\ Len(input) >= missing /\ receive(missing)
       \/ missing > 0 /\ Len(input) < missing /\ gone /\ Fail
       \/ missing > 0 /\ late /\ \E n \in 0 .. Len(input) : n < missing /\ receive(n)
    /\ UNCHANGED <<op, delivered>>

\* The server and the clock.
Respond ==
    /\ pending # <<>> /\ ~gone /\ ~stalled
    /\ pending' = Tail(pending)
    /\ input' = input \o Answer(conn, Head(pending)[1], Head(pending)[2])
    /\ gone' = (sc.http /\ Head(pending)[1] \in sc.close)
    /\ UNCHANGED <<sc, c, pc, op, retried, late, conn, conns, astray, stalled, ops, posted, results,
                   delivered>>

ServerCloses ==
    /\ conn # 0 /\ ~gone /\ gone' = TRUE
    /\ UNCHANGED <<sc, c, pc, op, retried, late, conn, conns, astray, pending, stalled, input, ops,
                   posted, results, delivered>>

ServerStalls ==
    /\ sc.stalls /\ pending # <<>> /\ ~gone /\ ~stalled /\ stalled' = TRUE
    /\ UNCHANGED <<sc, c, pc, op, retried, late, conn, conns, astray, pending, input, gone, ops,
                   posted, results, delivered>>

TimeIsUp ==
    /\ pc # "idle" /\ ~late /\ late' = TRUE
    /\ UNCHANGED <<sc, c, pc, op, retried, netVars, ops, posted, results, delivered>>

Operation == GetPostResult \/ SetServer \/ \E kind \in {"call", "post", "notify"} : Begin(kind)
Step == WriteRequest \/ WriteFails \/ ReadHeader \/ ReadResponse
Next == Operation \/ Step \/ Respond \/ ServerCloses \/ ServerStalls \/ TimeIsUp

Spec == Init /\ [][Next]_vars

\* The thread of the call runs and the clock goes on; the server owes nothing.
FairSpec == Spec /\ WF_vars(Step) /\ WF_vars(TimeIsUp)
------------------------------------------------------------------------------
\* Types; and what the lengths say of the memory: the buffer is not overrun, nor is a
\* response that has memory of its own.
TypeOK ==
    /\ pc \in {"idle", "write", "header", "body"}
    /\ Len(c.buffer) <= MaxBufferLength
    /\ c.response = "buffer" => c.contentLength <= MaxBufferLength
    /\ c.response = "heap" => Len(c.body) <= c.contentLength
    /\ conn \in {0, conns}

\* Data from an earlier connection is never parsed as data of this one.
BufferOfThisConnection ==
    conn # 0 /\ pc \in {"write", "header"} =>
        \A i \in DOMAIN c.buffer : c.buffer[i] >= 1000 => ConnOf(c.buffer[i]) = conn

\* A call that returns a result returns the answer to its own request: answers
\* that come late, that a retried request left behind or that belong to a
\* connection that broke are never taken for it.  (With a format that parses any
\* bytes it may be the part of an answer that had arrived when the time was up; and
\* without ids, posts on a new connection get each other's answers once some were lost
\* with an earlier one, which Connect leaves in requestId_: client.cpp:108, 317.)
ResultIsOwn ==
    \A p \in results :
        p[1] = p[2] \/ (sc.binary /\ p[2] = 0) \/ (~sc.ids /\ astray)

\* That, and what is in the buffer fits it and has come over this connection.
OwnAnswer == TypeOK /\ BufferOfThisConnection /\ ResultIsOwn

\* "Multiple asynchronous RPC call can be made before getting the result since a
\* list of the expected sequence is kept" (client.h:90-91): between calls, that
\* list is the posts whose results the application has not collected.
ExpectedSequence == pc = "idle" => c.ids = posted

\* On its first connection a client that reads a response gives up only when the
\* server has closed, has asked to close, or the time is up: what is left in the
\* buffer after a response is the start of the next, never misread or lost.  (With
\* XML a notification whose time is up returns true although the rest of its
\* response, still to come, is then read as the next one; so is the rest of a body of
\* which a part was taken as the answer.)
FailsForCause ==
    [][sc.ids /\ ~sc.binary /\ conns = 1 /\ pc \in {"header", "body"} /\ conn' = 0
        => gone \/ late \/ ~c.http.keepAlive]_vars

\* A request that is written again after a failed write is not executed twice: a
\* server never acts on the part that the failed write has sent.  (It may over
\* TCP, where everything but the final comma is enough for it.)
AtMostOnce == sc.http => \A r \in DOMAIN delivered : delivered[r] <= 1

\* Every call returns, whatever the server does: the time-out ends it.
CallReturns == pc # "idle" ~> pc = "idle"
==============================================================================

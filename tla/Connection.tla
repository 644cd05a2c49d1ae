----------------------------- MODULE Connection ------------------------------
(***************************************************************************)
(* The server's end of one connection (src/connection.cpp): the parts that *)
(* TcpConnection and HttpConnection share, as operators on a record k of   *)
(* the object's members.  Memory is a sequence of bytes, so that what is   *)
(* copied, moved and overwritten is what the code copies, moves and        *)
(* overwrites.  Bytes are numbers; 0 terminates a string.                  *)
(***************************************************************************)
EXTENDS HttpHeader

CONSTANTS
    MaxBufferLength,   \* size of buffer_ less one (2048 in the code)
    MaxContentLength   \* longest request body (1000000 in the code)

ASSUME BufferAssumption ==
    /\ MaxBufferLength \in Nat \ {0}
    /\ MaxContentLength \in Nat \ {0}

Nul == 0

Smaller(a, b) == IF a < b THEN a ELSE b

\* A block of n bytes.
Block(n) == [i \in 1 .. n |-> Nul]

\* The n bytes of mem from offset at.
Load(mem, at, n) == SubSeq(mem, at + 1, at + n)

\* mem with bytes written from offset at; past the end, it would grow.
Store(mem, at, bytes) ==
    SubSeq(mem, 1, at) \o bytes \o SubSeq(mem, at + Len(bytes) + 1, Len(mem))

\* Connection::Connection
NewConnection ==
    [state         |-> "READ_HEADER",
     buffer        |-> Block(MaxBufferLength + 1),
     bufferLength  |-> 0,
     contentLength |-> 0,
     contentAvail  |-> 0,
     request       |-> "none",  \* request_: unset, into buffer_, or malloced
     requestAt     |-> 0,       \* its offset, if it points into buffer_
     heap          |-> <<>>,    \* the malloced request
     keepAlive     |-> FALSE,
     http          |-> InitialHeader("request")]   \* httpRequestState_, if HTTP

\* The data behind the request, which Initialize moves to the buffer's start.
Preserved(k) ==
    Load(k.buffer, k.requestAt + k.contentLength, k.contentAvail - k.contentLength)

InitializeDropsRest(k, preserve) ==
    [k EXCEPT !.bufferLength = 0, !.contentLength = 0, !.contentAvail = 0,
              !.request = "none", !.requestAt = 0, !.heap = <<>>,
              !.http = InitialHeader("request")]

\* Connection::Initialize and HttpConnection::Initialize
Initialize(k, preserve) ==
    LET moved == preserve /\ k.request = "buffer" /\ k.contentAvail > k.contentLength
        kept == preserve /\ k.request = "none"
    IN  [k EXCEPT !.buffer = IF moved THEN Store(@, 0, Preserved(k)) ELSE @,
                  !.bufferLength = CASE moved -> k.contentAvail - k.contentLength
                                     [] kept  -> @
                                     [] OTHER -> 0,
                  !.contentLength = 0,
                  !.contentAvail = 0,
                  !.request = "none",
                  !.requestAt = 0,
                  !.heap = <<>>,
                  !.http = InitialHeader("request")]

\* A stage of Process that failed: Initialize, and CLOSE_CONNECTION.
Closed(k) == [Initialize(k, FALSE) EXCEPT !.state = "CLOSE_CONNECTION"]

\* TcpSocket::Receive on a connection: one recv of at most max bytes out of
\* input, which may leave nothing to read (EAGAIN).  With no room it does not
\* call recv at all.
Received(input, max) == SubSeq(input, 1, Smaller(max, Len(input)))
ReceiveFails(input, eof, max) == max > 0 /\ input = <<>> /\ eof

\* Data that arrived, stored with the terminating zero.
StoreReceived(mem, at, bytes) ==
    IF bytes = <<>> THEN mem ELSE Store(mem, at, Append(bytes, Nul))

PrepareRequestWithoutCopy(k, bodyAt, length, keepAlive) ==
    LET fits == length <= MaxBufferLength - bodyAt
    IN  [k EXCEPT !.contentLength = length,
                  !.contentAvail = k.bufferLength - bodyAt,
                  !.keepAlive = keepAlive,
                  !.request = IF fits THEN "buffer" ELSE "heap",
                  !.requestAt = IF fits THEN bodyAt ELSE 0,
                  !.heap = IF fits THEN @ ELSE Block(length + 1),
                  !.state = "READ_REQUEST"]

\* What ReadHeader does once it knows where the body starts and how long it
\* is: use the buffer if the body fits, else allocate and copy.
PrepareRequest(k, bodyAt, length, keepAlive) ==
    LET avail == k.bufferLength - bodyAt
        fits == length <= MaxBufferLength - bodyAt
    IN  [k EXCEPT !.contentLength = length,
                  !.contentAvail = avail,
                  !.keepAlive = keepAlive,
                  !.request = IF fits THEN "buffer" ELSE "heap",
                  !.requestAt = IF fits THEN bodyAt ELSE 0,
                  !.heap = IF fits THEN @
                           ELSE Store(Block(length + 1), 0, Load(k.buffer, bodyAt, avail)),
                  !.state = "READ_REQUEST"]

\* request_[contentAvail_] = 0
Terminate(k) ==
    IF k.request = "heap" THEN [k EXCEPT !.heap = Store(@, k.contentAvail, <<Nul>>)]
    ELSE [k EXCEPT !.buffer = Store(@, k.requestAt + k.contentAvail, <<Nul>>)]

\* How much ReadRequest asks Receive for: the rest of the request.
RequestRoom(k) ==
    IF k.contentAvail < k.contentLength THEN k.contentLength - k.contentAvail ELSE 0

\* Connection::ReadRequest, given the bytes that Receive returned.
ReadRequest(k, bytes) ==
    LET more == [k EXCEPT
            !.buffer = IF k.request = "buffer"
                       THEN StoreReceived(@, k.requestAt + k.contentAvail, bytes) ELSE @,
            !.heap = IF k.request = "heap"
                     THEN StoreReceived(@, k.contentAvail, bytes) ELSE @,
            !.contentAvail = @ + Len(bytes)]
    IN  IF more.contentAvail < k.contentLength THEN more
        ELSE [Terminate(more) EXCEPT !.state = "EXECUTE_REQUEST"]

\* The request that ExecuteRequest passes to the handler.
RequestBytes(k) ==
    IF k.request = "heap" THEN Load(k.heap, 0, k.contentLength)
    ELSE Load(k.buffer, k.requestAt, k.contentLength)

ResponseWrittenStateKept(k) == Initialize(k, TRUE)

\* WriteResponse when everything is written.
ResponseWritten(k) ==
    IF k.keepAlive THEN [Initialize(k, TRUE) EXCEPT !.state = "READ_HEADER"]
    ELSE Closed(k)

NewMessageNever(k) == FALSE

\* Another message may be in the buffer already.
NewMessage(k) == k.state = "READ_HEADER" /\ k.bufferLength > 0

WaitForReadability(k) == k.state \in {"READ_HEADER", "READ_REQUEST"}
==============================================================================

# A TLA+ model of AnyRPC

AnyRPC is a C++ library for remote procedure calls: JSON-RPC, XML-RPC and
MessagePack-RPC over HTTP or over TCP with netstring framing, with servers that
process connections in one thread, in a thread for each connection, or in a
thread pool. This directory models it in TLA+, checks the models with TLC on
small instances and proves some results with TLAPS for all instances. Paths
below are relative to the repository's root; `PROJECT.json` maps every
definition to the lines it models.

## The system and its parts

| Part | State | Operations | Hard behaviour | What makes it correct |
|---|---|---|---|---|
| `MethodManager` (src/method.cpp) | `methods_`, and `activeThreads_`, `delayedRemove_` of each `Method` | add, remove (optionally waiting), execute, list, help | methods are removed and replaced while threads execute them with the mutex released; a condition variable | an executing method is not deleted; a marked one drains, is removed once, and the waiters are told |
| `ServerTP` (src/server.cpp) | `connections_`, `workQueue_`, `workerExit_`, `threadRunning_`, `exit_`, each connection's `active_` | start, stop, exit, accept, pass over the connections, worker | a server thread and workers share connections through an unlocked flag; shutdown; lost wake-ups | one owner per connection; nothing deleted in use; work is done; stop returns |
| `ServerST` | `connections_`, `working_` | work, accept with least-recently-used eviction, shutdown | eviction at the limit, shutdown called from a method | limit, only idle connections evicted |
| `ServerMT` | `connections_`, one thread each | accept, reap, evict, shutdown | stopping a thread that is busy, that ends by itself or that has ended | no deletion of a running connection, no thread outlives the server, everyone is accepted or refused |
| `Connection` (src/connection.cpp) | buffer, lengths, request pointer, state, write positions | `Process`: read header, read request, execute, write | input arrives in pieces, several messages at once, some too big for the buffer | requests whole, once, in order; answers in order; no overrun |
| `TcpConnection`, `HttpConnection`, `HttpHeader` (src/internal/http.cpp) | `commaExpected_`; incremental header parser | framing | as above, keep-alive, content types | the framing is undone exactly, only acceptable requests are executed |
| `Client`, `HttpClient`, `TcpClient` (src/client.cpp) | `requestId_`, receive buffer, transaction | `Call`, `Post`, `GetPostResult`, `Notify` | time-outs, retries on a new connection, pipelined posts | an answer belongs to its request, calls return |
| RPC handlers (src/json, src/xml, src/messagepack: `*server.cpp`, `*client.cpp`) | `nextId_` | decode, execute, encode | batches, notifications, faults | one response per request that wants one, with its id |
| readers, writers, `Document`, `Value`, streams | parse position, value stack, buffers | parse, build, traverse | nesting, strings decoded in place, limits, input cut short | writing and reading back is the identity |
| base64, unicode | none | pure functions | boundaries | as part of the round trips |
| `TcpSocket`, `UdpSocket` (src/socket.cpp) | descriptor, `timeout_`, `err_` | send, receive, wait | partial transfers, would-block | what the callers assume of them |
| logger, error codes, platform headers | | | | not modelled |

How they interact: a server accepts a socket and creates a connection. A
connection reads a request and calls an RPC handler with the bytes; the handler
decodes them with a reader, `Document` and `Value`, calls
`MethodManager::ExecuteMethod`, and encodes the result to a stream, which the
connection writes to the socket. In `ServerTP` the server thread reads and a
worker executes and writes; in `ServerMT` a connection's own thread does both.
All servers' threads share one `MethodManager`. A client's handler encodes the
request and decodes the response that the client has read from its socket.

## Modules

| Module | Models | Uses |
|---|---|---|
| `MethodManager` | src/method.cpp, include/anyrpc/method.h | |
| `MethodManagerProofs` | theorems about it | `MethodManager` |
| `ServerTP` | the thread-pool server of src/server.cpp with what it inherits from `ServerST` | `ConnectionHandoff` |
| `ServerTPProofs` | theorems about it, the refinement among them | `ServerTP`, `ListLemmas` |
| `ConnectionHandoff` | the abstract specification: who owns a connection | |
| `ServerMT` | the server with a thread per connection, and those threads | |
| `ServerMTProofs` | theorems about it | `ServerMT`, `ListLemmas` |
| `HttpHeader` | the incremental header parser of src/internal/http.cpp | |
| `Netstring` | the framing of TCP messages | |
| `Connection` | operators for the members that `TcpConnection` and `HttpConnection` share | `HttpHeader` |
| `ServerConnection` | a TCP or HTTP connection of the server and its client's byte stream | `Connection`, `Netstring` |
| `ServerConnectionProofs` | theorems about it: memory, and what it holds | `ServerConnection`, `DataLemmas` |
| `FramingProofs` | theorems about it: requests, responses, closing | `ServerConnectionProofs` |
| `Client` | `Client`, `TcpClient`, `HttpClient` and an abstract server | `Netstring`, `HttpHeader` |
| `ClientProofs` | theorems about it | `Client`, `DataLemmas` |
| `ListLemmas` | lemmas: what the operations of a list do to its elements | |
| `DataLemmas` | lemmas: what the parsers return for every input | `HttpHeader`, `Netstring` |
| `Values`, `Streams`, `Base64`, `Document`, `TextReader` | src/value.cpp, stream.cpp, internal/base64.cpp and unicode.cpp, document.cpp, and what the text readers share | each other |
| `Json`, `Xml`, `MessagePack` | the writers and readers of the formats | the line above |
| `Formats` | a value written, carried by a stream and read back | the formats |
| `Rpc` | the handlers of both sides and the messages between them | the formats |
| `MC...` | instances for TLC | |

### MethodManager

One locked region of the code is one action: `AddFunction`, `AddMethod`,
`RemoveMethod` (`RemoveNow` or `RemoveLater`, the two branches on
`ActiveThreads()`), `ExecuteMethod` up to `lock.unlock()`, and `FollowUp`
(`ExecuteMethod_FollowUpOperations`, on return and on exception). A thread with
`cur[t] # None` is inside a method's body; it may itself add and remove
methods. A waiting `RemoveMethod` leaves `await[t]` set, is in `condWait` while
blocked, and re-tests the loop condition in `WakeUp`. Objects are memory:
`Heap` objects are created by `AddFunction` (or `AddMethod` with
`deleteOnRemove_`) and freed; `Static` objects are the application's. Calls that
fail change nothing and are stuttering steps.

### ServerTP and ConnectionHandoff

The server thread (`mpc`), the workers (`wpc`) and the application (`app`) are
processes. Between two steps anything else may happen; every unlocked access to
`active_`, `connectionState_`, `workerExit_`, `threadRunning_` and `exit_` is in
a step of its own. `mutex` is held across the one window that matters: a worker
that has tested the predicate of its wait and not yet blocked (`toBlock`). A
connection is its `connectionState_`, `active_`, and what `bufferLength_` is to
others: nothing (it may be evicted), something, or so much that a header has
filled the buffer. In that last case `Receive` is asked for nothing and reads
nothing, so the connection stays readable (`ProcessFull`); `InputIsRead` excepts
it. What else `Process` does is a choice among the outcomes `Connection` allows
(`ServerConnection` models that part in detail).
`Conn` is memory, so a deleted connection that a worker still holds may be
allocated again for a new client.

`ConnectionHandoff` says what all this is for: a connection belongs to nobody,
to the server thread, to the queue or to one worker, and passes from one to the
next in that cycle only. `ServerTP` implements it with
`owner[c] = Owner(c)` (property `ImplementsHandoff`).

### ServerMT

The server's thread (`main`), a thread for each connection (`thread`) and the
application (`app`). `AcceptConnection` is cut where other threads matter: the
accept, each turn of the loop that reaps, the choice of the connection to evict,
each test of the 200 ms wait, the join, and the decision to keep or to refuse.
`Shutdown` stops, joins and deletes one connection after the other. A
connection's thread tests `threadRunning_` and its state, waits in select and
processes; a request may close the connection. The objects that exist are
`allocated`, so that a use after deletion would show.

### Connection, HttpHeader, Netstring, ServerConnection

`Connection` works on a record of the object's members, with memory as a
sequence of bytes, so that what is moved, copied and terminated is what the code
moves, copies and terminates. `ServerConnection` runs `Process` in steps, one
for each function it calls, while the client keeps sending. `ClientSend`
delivers any prefix of what is left, so every way of cutting the stream is
covered. A header line of HTTP is one unit of the stream, because the parser
acts on complete lines only; what a line says is a record in `Line`. A
`Response` is a sequence of segments; `Send` writes a segment or fails, which is
what `TcpSocket::Send` with time-out 0 amounts to for its caller: partial writes
end in the same failure. A failing `malloc` and a fatal receive error act as the
end of the stream does. A scenario (`sc`) fixes the requests, those at which the
handler throws, whether a worker executes, and whether the client closes. An
exception that leaves the handler leaves `Process` too (`ThrowStep`), and
`ServerST` or the thread of `ServerTP` that called it puts the connection in
`CLOSE_CONNECTION` without `Initialize` (`SetCloseState`; server.cpp:298, 695, 778).
`ServerMT` has no such handler: there the program ends, which is not modelled.

### Client

The object `c` with its receive buffer, `requestId_` and transaction; the
application's calls are split into the functions they call (`Begin`,
`WriteRequest` or `WriteFails`, `ReadHeader`, `ReadResponse` with
`ProcessResponse`). Between these steps the server answers, closes, stops
reading, or the time runs out. A unit of an answer's body tells the connection
and the request it belongs to. What the handler's `ProcessResponse` decides is
`Parsed`: by id where the format has one (`sc.ids`), by position for XML; for
MessagePack (`sc.binary`) part of a body may parse. An application with
`sc.mixed` calls and notifies while posts are outstanding; without it, it
collects its posts first. `astray` is a history variable: a connection has been
made while the results of posts over an earlier one were still expected. From then
on XML's answers are matched to the wrong requests, and `ResultIsOwn` excepts only
them.

### Values, streams and formats

A value is a tagged tuple; integers are eight bytes, so width and sign are
exact; a floating-point number is its decimal digits and exponent, rounded to
what the code prints. Writers are functions from a handler call to the pieces
they `Put`, in the code's order and with its flushes. Readers are functions on a
record that is the input stream, the `Document`'s stack and the error, descending
as the code does; an exception is an error that nothing continues. Reading in
place (`InSituStringStream`) writes decoded strings and terminators into the
very buffer it reads from, and strings stay references into it until the end.

### Rpc

Each handler is translated as a function from the bytes of a message to what it
executes, answers or throws. Requests and responses are written and parsed by
the modules of the formats, so an id or a parameter really travels. `Raw`
messages come from clients of other make: batches, multicalls, malformed and cut
messages. Method and member names are one letter; of an exception the code is
kept.

## Runs

| Run | Shows |
|---|---|
| `method_manager` | three threads, the two built-in methods, one method added and removed at run time, one object of the application: safety, and waiting removals return |
| `server_tp` | two connections, two workers, closes in the server thread only: single ownership, nothing deleted in use, no lost wake-up, refinement of `ConnectionHandoff` |
| `server_tp_any` | one worker, two pieces of memory for one connection at a time, evictions, closes by requests, headers that fill the buffer: the limit and liveness |
| `server_tp_close` (violation) | a connection that its worker puts in `CLOSE_CONNECTION` is deleted before the worker is done with it |
| `server_tp_stop` (violation) | `StopThread` never returns: lost wake-up at shutdown |
| `server_mt` | three clients at a server for two: threads, objects and the list agree, stopping ends everything, every connect is decided |
| `server_connection` | pipelined requests over TCP and HTTP in every cut of the stream, by one thread and through the pool |
| `server_connection_slow` (violation) | a slow reader is disconnected in the middle of a response |
| `client` | calls, posts, notifications over TCP and HTTP in JSON and XML, calls and posts in MessagePack, against every server behaviour |
| `client_mixed` (violation) | a notification takes an outstanding post's id off the list |
| `formats` | some hundred values in each format, option and stream, whole and cut |
| `rpc` | up to two requests on a connection, in each format and transport, of the library's clients and of others |

Each finding in `PROJECT.json` quotes the line that the violation contradicts.

### Bounds, and why they are enough

* `MethodManager`: three threads are two inside a method and one removing it and
  waiting; the name that is added again needs one object more than the built-in
  methods. The theorems drop the bounds.
* `ServerTP`: two workers and two connections give a connection queued behind
  another, two workers racing for one, and a notification that reaches the wrong
  one. `MaxStarts` bounds how often the application starts the server. `pending`
  is one bit because `Accept` is called once per pass. In `server_tp_any` the
  second piece of memory lets a new connection take the place of an evicted one
  or different memory.
* `ServerMT`: a limit of two with three clients reaches the limit with an idle
  and with a busy connection, and reaps one while another is accepted.
  `MaxAccepts` and `MaxRequests` bound what clients do.
* `ServerConnection`: `MaxBufferLength` 9 instead of 2048 and `MaxContentLength`
  12 instead of 1000000, with bodies that fit with the next message, that end at
  the buffer's last byte, that exceed it and that exceed the limit; over HTTP
  also headers that are refused for each reason and one that is longer than the
  buffer. Each body byte is distinct, so a byte lost, repeated or misplaced
  shows.
* `Client`: a buffer of six units, bodies of 1, 2 and 7 units (in the buffer with
  the next answer, and with memory of its own), up to three requests. XML has three
posts, or two requests of any kinds: enough for several posts outstanding, answered
in time, late or not at all, and for a connection lost between them.
* `Formats`: the samples are the two sides of each boundary that a writer or a
  reader branches on; segments of 8 units and a file buffer of 16 put most
  messages across a boundary. Messages up to `CutLength` are also cut at every
  place; only those up to `FileLength` go through files.
* `Rpc`: `MaxRequests` 2 is a request and one that meets what the first left.

### Fairness

`MethodManager`: bodies of methods end and a woken thread gets the mutex.
`ServerTP`: each thread runs (weak fairness); `SF(Select)` because select is not
interrupted by a signal every time, `SF(PushWork)` and `SF(WorkerTest)` because a
thread that keeps asking for a free mutex gets it. `ServerMT`: the server's and
the connections' threads run, and methods end. `Client`: the calling thread runs
and the clock goes on; the server owes nothing. Clients and the application owe
nothing either, and no spurious wake-up is assumed. `RemoveWaitReturns` is
checked where no method waits for its own removal (it would wait for itself) and
where the waited name is not added again.

### What the properties leave out, because the code does it

Met while modelling, and excluded by a condition in the property or the
instance rather than by the model:

* `MethodManager`: an application's `Method` that was removed while it ran keeps
  `delayedRemove_` and is refused after it is added again (method.cpp:87, 131);
  a waiting `RemoveMethod` does not return when the name is added again before
  it wakes (method.cpp:114).
* `ServerTP`: `AcceptConnection` may evict a connection whose worker has answered
  and not yet returned it (server.cpp:375); after a second start the workers take
  connections that `Shutdown` deleted and left in `workQueue_` (server.cpp:565);
  a header that fills the buffer is never read on, so its connection stays readable
  (connection.cpp:363, 504); the worker's signal socket is never created, so select
  is not interrupted (server.cpp:788); `StopThread` after `Exit` does not join (server.cpp:163, 178).
* `ServerMT`: the flag that the 200 ms wait tests has just been cleared by
  `StopThread(false)`, so the wait ends at once and the join is not bounded
  (server.cpp:498-509).
* `Connection`: a message that is complete in the buffer when the end of the
  stream arrives is dropped (connection.cpp:504); a header longer than the buffer
  keeps select returning for ever and the end of the stream unseen
  (connection.cpp:363, 504), the case that `RoomToReceive` excepts.
* `Client`: in XML, once posts were lost with a connection, those on the next get
  each other's answers, since `Connect` leaves `requestId_` as it is (client.cpp:108,
  317) and no id is compared: post A, lose the connection, post B, and
  `GetPostResult` for A returns B's answer (with ids it fails instead); a `Call` with posts outstanding is given the oldest post's answer; a
  MessagePack body cut by the time-out may be taken for an answer
  (client.cpp:440); the rest of a late XML notification's answer is read as the
  next response; over TCP a retried request may be executed twice, since all but
  the final comma is enough for the server (client.cpp:108).
* Formats: JSON's reader refuses the line feeds that base64 puts into more than
  48 bytes (base64.cpp:82, jsonreader.cpp:233), and empty binary data;
  MessagePack's reader takes no key above 255 bytes and an empty one only in
  place (messagepackreader.cpp:158-168), and read in place a message that is cut just
  behind a string with one element missing yields a 0 for it
  (messagepackreader.h:47; `EndsInToken0` is that case and `CutRefused` excepts it
  alone); `Document` takes a
  two-element array whose first string is a prefix of an extension's name, the
  empty string included, for the extension (document.cpp:206); a scalar written
  to a file whose stream is not closed is lost.
* `Rpc`: a JSON notification that fails is answered, over TCP too, where the next
  call takes the stray response for its own and fails (jsonserver.cpp:89); a
  batch element that is no map, and a MessagePack type that is no integer, make
  an exception leave the handler (messagepackserver.cpp:74, 110), which in
  `ServerMT` ends the program (connection.cpp:210).

## Theorems

Every theorem holds for all values of the constants that satisfy the module's
assumption; the bounds of the instances (how many threads, connections,
requests, how long a buffer) are gone.

### MethodManager

For any set of names, objects and application methods and any finite set of
threads: `TypeCorrect` (`TypeOK`; that `activeThreads_` stays a natural number
needs the count to be exact), `ExecutionSafe` (`ExecutedMethodStays`),
`CountExact` (`ActiveThreadsCounted`), `DelayedRemoveFindsEntry`
(`NoInternalError`), `MarkedOnlyDrains` (the action property
`NoEntryAfterRemove`) and `MarkedIsInUse` (`HeapMethodExecutable`).

The inductive invariant `IndInv` adds `TableOK` to the properties: an entry
refers to a live object whose name is the entry's, and an object that is in no
entry has no thread inside. Without it `RemoveNow` could free an object
registered twice, and `AddFunction` could put a new object over an executing one.
Counts are cardinalities of the set of threads inside; a step adds or removes one
element. `MarkedIsInUse` follows with one more lemma: a mark is set only while a
thread is inside, and the last one out carries out the removal.

### ServerTP

Without any restriction: `TypeCorrect` (`TypeOK`, the limit of connections
included) and `NoLostWakeUp` (`WorkWakesWorker`). The invariant is `PoolInv`.
`WorkWakesWorker` is not inductive by itself: a worker that is about to block has
tested a queue that was empty, and only the mutex, which it holds until it
blocks, keeps the server thread from queueing in between. `ThreadsOK` says so,
place by place in the threads' code. The constants' assumption asks that `Worker`
is disjoint from the three names of other owners, nothing else.

Under `Undisturbed`: `SingleOwner` (`OneOwner`), `PoolIsLive` (`PoolHasLive`),
`NoneForgotten` (`InactiveIsOwned`) and `HandoffRefined` (the refinement
`ImplementsHandoff`). `Undisturbed` says that no connection is evicted
(`~ForcedDisconnect`), that a worker leaves no connection in `CLOSE_CONNECTION`
(`~WorkerCloses`) and that the server is started at most once. Each of the three is
needed, because without it the code violates the properties: `server_tp_close`
shows the second, and the first and the third are among the behaviours
listed above (server.cpp:375, 565). The invariant `OwnershipInv` adds to the
properties that what the server thread's `watch` and `ready` still name is
connected and `active_` (`PassOK`), and that the pool has no connection that is
about to be deleted (`PoolOK`). For the refinement, each step is shown to be
one hand-over of `ConnectionHandoff` or a stutter, from the value of
`Owner(c)` in each state.

### ServerMT

For any clients and limit: `ListedThreads` (`ThreadsAreListed`, with `TypeOK`) and
`ShutdownIsComplete` (`StoppedIsOver`). `ListInv` adds `ArrivalsOK` (a
client that is not accepted yet, or that `AcceptConnection` is at work for, has
neither a thread nor an object) and `PlacesOK` (the connection that is being evicted
or shut down is still listed when its thread has been waited for). A list that
names each connection once is what makes erasing one place remove the connection.

### Client

* `DeliveredOnce` (`AtMostOnce`): over HTTP no request reaches a server twice. A
  request may be written again only after a write that failed, and that one was
  not received whole.
* `SequenceKept`: with an application that does not mix calls into outstanding posts
  (`~sc.mixed`), `ExpectedSequence`; the invariant says for each place in the code
  what of `requestId_` is the operation's own.
* `AnswersOwn`: in addition, for every protocol whose responses have ids (`sc.ids`),
  a result that is returned is the answer to its own request (`ResultIsOwn`, the
  conjunct of `OwnAnswer` about the caller). Nothing is assumed of the server or
  of the connection: the ids alone suffice.
* `ClientStaysInMemory` (`TypeOK`): whatever comes, in whatever pieces, nothing is
  stored past the end of `buffer_` or of the malloced response. `MemoryInv` says
  which of the two holds the response, and that what `Initialize` moves to the
  front is what was behind it.
* `OwnConnection` (`BufferOfThisConnection`): what is in the buffer came over the
  connection that is open. `OriginInv` says it of the response, and of what is on
  its way, too. The model's units are numbers that tell connection and request;
  `UnitsDistinct` states that this numbering is unambiguous (lines below 800, at
  most 90 requests with bodies below 100 units), which is about the model's
  numbers and not about the code.
* `OwnAnswers` (`OwnAnswer` where `AnswersOwn` holds) combines the three.
* `FailsOnlyForCause` (`FailsForCause`): on its first connection a client gives up a
  response only because the server has closed, has asked to close, or the time is
  up. `StreamInv` is the place of the client in the stream: while the server has not
  closed, what is in the buffer (or in the response and what is preserved behind it),
  what is on its way, and what the server is still to answer are together, in order,
  the answers that the application expects. It is stated for each place in a call
  (`AtIdle`, `AtWrite`, `AtHeader`, `AtBody`); over HTTP `HeaderSoFar` adds that
  the header is what `ProcessHeaderData` makes of the lines read, all at once. So
  a header is parsed only as that of the answer that is due, a body has the length it states, and
  a failure leaves `gone`, `late` or `Connection: close`. The theorem has two
  hypotheses on the constants, both true of the run's: `UnitsDistinct`, and `AnswersReadable`, for
  the scenarios that the property is about: the application collects its posts first, no body is
  longer than `MaxContentLength` (the code fails such a call, rightly), and over HTTP
  the lines of the server's header mean what they say (`LinesRead`: the content length
  it states is that of the body, no other line changes it).

### ServerConnection

`StaysInMemory` (`TypeOK`): for every size of the buffer, every limit on bodies,
all requests, header lines and ways of cutting the stream, no access goes past
the end of `buffer_` or of the malloced request. The invariant is `InMemory` of the
`Connection` record: the region of the request lies in the block that `request_`
points into, and a request that is being read has one. One lemma for each
function of `Connection` shows that it keeps this; what is stored is at most
what `Receive` was asked for, and the zero behind it has its own byte.

What the parsers return is proved in `DataLemmas`, for every input: `ColonAt` is an
index of the data or 0, `Atoi` returns no negative number, and `startIndex_` of
a header that is parsed lies within the data. These are inductions over data, done by
sets: the numbers up to which something holds contain 0 and with each number the
next (`NatSetInduction`, from the well-foundedness of `<` on the naturals). A
function that is defined by recursion is first shown to exist, in the same way.

The rest of the run's properties are proved in `FramingProofs`, for all requests,
notifications among them, every set of header lines, every size of the buffer, every
limit on bodies and of the socket's buffers, and every way of cutting either stream.
Each theorem has the hypothesis `Framed`, a condition on the scenario that is true
over TCP. Over HTTP it says that a request's header has one empty line, its last,
and that the first `content-length` line, if there is one, states the length of the
body: without that the server reads part of a body as the next request, or waits for
more of it, and no property here can hold. All other lines are free: unknown ones,
a missing or a second length, no host, contradicting types, any order of `connection`
lines; all scenarios of the run are `Framed`, among them those that the server refuses.

* `FramedInOrder` (`ExecutedInOrder`), `FramedUnexecutedIsKept` (`UnexecutedIsKept`) and
  `FramedAcceptedOnly` (`AcceptedOnly`). What has been executed alone is no invariant: the
  bytes that are already in memory must be the right ones. `FramingInv` says
  what is still to come. `Region` is the part of the connection's memory that
  counts (the buffer, or the request and what is preserved behind it), and it, the
  socket's input and what the client has not sent are, one after the other,
  the stream from the end of the last request, with the comma that
  `commaExpected_` announces. A lemma for each function of `Connection` says what
  it does to `Region` (the end of `ServerConnectionProofs`).
  Over TCP, `HeaderParsed` says that the first colon is that of the next message,
  whose digits, read by `Atoi`, are the length of its body. That writing a length in
  decimals and reading it back is the identity (`AtoiOfDecimal`) is an induction
  over its digits.
  Over HTTP, `HeaderSoFar` says that the header of the connection is what
  `ProcessHeaderData` makes of the first lines of the next request read at once, as
  many as `startIndex_` counts. `HeaderOfData` is why it does not matter in which pieces
  they came; `HeaderTells` is the induction over the lines, with `Told` for what each member
  of the header is after so many of them; `WholeHeader` compares the end of it with
  `WellFormed`, `Handleable` and `CloseAfter`, which read the header as a whole.
* `FramedResponsesInOrder` (`ResponsesInOrder`): `ResponseInv` says that what has been sent
  is what is owed up to the last request executed, less the part of the response
  that is still to be written.
* `FramedNothingLeftBehind` (`NothingLeftBehind`) and `FramedRoomToReceive`
  (`RoomToReceive`): `IdleInv` says that a connection that waits in `select` has
  neither a header that could be parsed in its buffer nor a complete request.
  `RoomToReceive` needs over TCP a buffer of more than one byte, since a comma alone
  would fill a smaller one; the code's has 2048.
* `FramedClosedForCause` (`ClosedForCause`): the client has closed, the next request is
  refused, the last one asked for it and has been answered in full, or an exception
  left its handler. `CauseInv` names the cause; its second half says that nothing
  follows a request whose handler threw, which `FramedAcceptedOnly` states too. The
  second hypothesis is that
  the socket's buffer takes all responses of the scenario; without it the code closes
  the connection of a client that reads slowly, which is the finding of
  `server_connection_slow`.

### Only model-checked

* Liveness (`RemoveWaitReturns`, `PoolReturns`, `InputIsRead`, `StopReturns`,
  `ConnectIsDecided`, `CallReturns`), beyond the prover.
* `OwnAnswer` where responses have no ids (XML): there it rests on the order of the
  answers alone, and holds while no post has been lost with a connection.
* `Formats` and `Rpc`: the readers are RECURSIVE operators, for which the prover has
  no arithmetic backend.

## Plan

Done: all modules, and a theorem for every safety property of the modules without
RECURSIVE operators. What remains open is listed above under "Only model-checked".

## Not modelled

The logger, error codes, platform headers and socket set-up (thin wrappers of
system calls); wording and layout of messages, and the content type of a
response; assignment, copying and memory of `Value` (capacity of arrays and
maps, references that move when a map grows), which is ownership inside one
thread and has no state that other components see; in `ServerST` the order of the
list by last use and the `working_` assertion.

------------------------- MODULE MCServerConnection --------------------------
(* Small instances of ServerConnection, with a buffer of nine units. *)
EXTENDS ServerConnection

\* A request that needs memory of its own, one that ends exactly at the buffer's
\* end, and two that fit the buffer together with their commas, a notification
\* first; read and executed by one thread.  The sockets hold all responses.
Pipelined ==
    [http |-> FALSE, bodyLength |-> <<10, 6, 1, 1>>, notifications |-> {3}, throws |-> {},
     segments |-> <<2, 1, 1, 1>>, sendBuffer |-> 8,
     pool |-> FALSE, clientCloses |-> FALSE]

\* Executed by a worker; the first request fits the buffer with the start of the
\* next, the last one is too long, and the client closes.
Pooled ==
    [http |-> FALSE, bodyLength |-> <<2, 10, 1, 13>>, notifications |-> {3}, throws |-> {},
     segments |-> <<1, 2, 1, 1>>, sendBuffer |-> 8,
     pool |-> TRUE, clientCloses |-> TRUE]

HeaderLine(key, value) == [key |-> key, value |-> value, version |-> "none"]
FirstLine(value, version) == [key |-> "request", value |-> value, version |-> version]

MCLine ==
    <<FirstLine("POST", "1.1"), FirstLine("OPTIONS", "1.1"), FirstLine("POST", "1.0"),
      HeaderLine("", ""), HeaderLine("host", "h"), HeaderLine("other", "x"),
      HeaderLine("content-type", "rpc"), HeaderLine("content-type", "text"),
      HeaderLine("connection", "close"), HeaderLine("connection", "keep-alive"),
      HeaderLine("content-length", 1), HeaderLine("content-length", 2),
      HeaderLine("content-length", 6), HeaderLine("content-length", 13)>>

\* Over HTTP: a short request with the start of the next behind it in the
\* buffer, a notification that needs memory of its own, OPTIONS, and one that
\* asks to close, with another behind it.
HttpClosing ==
    [http |-> TRUE, bodyLength |-> <<2, 6, 1, 1, 1>>, notifications |-> {2}, throws |-> {},
     head |-> <<<<1, 5, 7, 12, 4>>, <<3, 7, 13, 10, 4>>, <<2, 11, 5, 4>>,
                <<1, 5, 7, 9, 11, 4>>, <<3, 7, 11, 4>>>>,
     segments |-> <<2, 1, 1, 1, 1>>, sendBuffer |-> 9,
     pool |-> TRUE, clientCloses |-> TRUE]

\* HTTP/1.0 closes by itself; each of the others is refused: no host, no handler
\* for the content, a length twice, no length, a length above the limit.
HttpLast(last, length) ==
    [http |-> TRUE, bodyLength |-> <<1, length>>, notifications |-> {}, throws |-> {},
     head |-> <<<<1, 5, 6, 7, 11, 4>>, last>>,
     segments |-> <<1, 1>>, sendBuffer |-> 9,
     pool |-> FALSE, clientCloses |-> FALSE]
HttpRefused ==
    {HttpLast(h, 1) : h \in {<<3, 7, 11, 4>>, <<1, 7, 11, 4>>, <<1, 5, 8, 11, 4>>,
                             <<1, 5, 7, 11, 12, 4>>, <<2, 5, 4>>}}
    \cup {HttpLast(<<1, 5, 7, 14, 4>>, 13)}

\* A header that is longer than the buffer, from a client that goes away.
TooLong ==
    [http |-> TRUE, bodyLength |-> <<1>>, notifications |-> {}, throws |-> {},
     head |-> <<<<1, 5, 6, 6, 6, 6, 6, 7, 11, 4>>>>, segments |-> <<1>>, sendBuffer |-> 9,
     pool |-> FALSE, clientCloses |-> TRUE]

\* An exception leaves the handler at the second of three requests: a notification
\* over TCP in one thread; over HTTP in a worker, behind OPTIONS, which no handler sees.
TcpThrows ==
    [http |-> FALSE, bodyLength |-> <<1, 2, 1>>, notifications |-> {2}, throws |-> {2},
     segments |-> <<1, 1, 1>>, sendBuffer |-> 6,
     pool |-> FALSE, clientCloses |-> FALSE]
HttpThrows ==
    [http |-> TRUE, bodyLength |-> <<1, 1, 1>>, notifications |-> {}, throws |-> {1, 2},
     head |-> <<<<2, 11, 5, 4>>, <<1, 5, 7, 11, 4>>, <<3, 7, 11, 4>>>>,
     segments |-> <<1, 1, 1>>, sendBuffer |-> 6,
     pool |-> TRUE, clientCloses |-> FALSE]

MCScenario == {Pipelined, Pooled, HttpClosing, TooLong, TcpThrows, HttpThrows} \cup HttpRefused

\* A client that sends two requests before it reads a response.
MCSlow ==
    {[http |-> FALSE, bodyLength |-> <<1, 1>>, notifications |-> {}, throws |-> {},
      segments |-> <<1, 1>>, sendBuffer |-> 3,
      pool |-> FALSE, clientCloses |-> FALSE]}
==============================================================================

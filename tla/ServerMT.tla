------------------------------ MODULE ServerMT -------------------------------
(***************************************************************************)
(* The server with a thread per connection (ServerMT in src/server.cpp,    *)
(* Connection::ThreadStarter and Work in src/connection.cpp): accepting,   *)
(* reaping the connections whose thread has ended, evicting an idle one at *)
(* the limit, and shutting down.  What a connection does with its requests *)
(* is the subject of ServerConnection; here it is idle or processing.      *)
(***************************************************************************)
EXTENDS Integers, Sequences, SequencesExt, FiniteSets

CONSTANTS
    MaxConnections,   \* maxConnections_ (8 in the code)
    MaxAccepts,       \* connections that clients make
    MaxRequests,      \* requests that a client sends on one
    ForcedDisconnect  \* forcedDisconnectAllowed_

Conn == 1 .. MaxAccepts

ASSUME ServerMTAssumption ==
    /\ MaxConnections \in Nat \ {0} /\ MaxAccepts \in Nat /\ MaxRequests \in Nat
    /\ ForcedDisconnect \in BOOLEAN

VARIABLES
    threadRunning, exit,    \* Server: threadRunning_, exit_
    main,         \* where the server's thread is
    connections,  \* connections_
    at,           \* the place of AcceptConnection's or Shutdown's iterator
    target,       \* the connection being evicted, or 0
    allocated,    \* the Connection objects that exist
    running,      \* Connection::threadRunning_
    thread,       \* where the connection's thread is
    closing,      \* the connection's state is CLOSE_CONNECTION
    app,          \* the application that starts and stops the server
    connects,     \* connections made by clients
    backlog,      \* and not accepted
    requests,     \* requests sent on a connection and not read; -1: closed
    sent          \* requests ever sent on a connection

mainVars == <<threadRunning, main, connections, at, target, allocated>>
connVars == <<running, thread, closing>>
clientVars == <<connects, backlog, requests, sent>>
vars == <<exit, app, mainVars, connVars, clientVars>>

Init ==
    /\ threadRunning = FALSE /\ exit = FALSE /\ main = "off"
    /\ connections = <<>> /\ at = 1 /\ target = 0 /\ allocated = {}
    /\ running = [c \in Conn |-> FALSE] /\ thread = [c \in Conn |-> "none"]
    /\ closing = [c \in Conn |-> FALSE]
    /\ app = "idle" /\ connects = 0 /\ backlog = 0
    /\ requests = [c \in Conn |-> 0] /\ sent = [c \in Conn |-> 0]
------------------------------------------------------------------------------
\* The application.

StartThread ==
    /\ app = "idle" /\ app' = "started"
    /\ threadRunning' = TRUE /\ main' = "test"
    /\ UNCHANGED <<exit, connections, at, target, allocated, connVars, clientVars>>

\* StopThread joins only while the flag is set, which Exit clears.
StopThread ==
    /\ app = "started"
    /\ app' = IF threadRunning THEN "joining" ELSE "stopped"
    /\ threadRunning' = FALSE
    /\ UNCHANGED <<exit, main, connections, at, target, allocated, connVars, clientVars>>

ThreadJoined ==
    /\ app = "joining" /\ main = "over" /\ app' = "stopped"
    /\ UNCHANGED <<exit, mainVars, connVars, clientVars>>

\* Exit, called by a method
Exit(c) ==
    /\ thread[c] = "process" /\ ~exit /\ exit' = TRUE /\ threadRunning' = FALSE
    /\ UNCHANGED <<app, main, connections, at, target, allocated, connVars, clientVars>>
------------------------------------------------------------------------------
\* The server's thread: Server::ThreadStarter and ServerMT::Work.

LoopTest ==
    /\ main = "test"
    /\ main' = IF threadRunning /\ ~exit THEN "select" ELSE "shutdown"
    /\ at' = 1
    /\ UNCHANGED <<exit, app, threadRunning, connections, target, allocated, connVars,
                   clientVars>>

\* The time of Work is up, or select fails because it was up before.
SelectEnds ==
    /\ main = "select" /\ main' = "test"
    /\ UNCHANGED <<exit, app, threadRunning, connections, at, target, allocated, connVars,
                   clientVars>>

Accept ==
    /\ main = "select" /\ backlog > 0 /\ backlog' = backlog - 1
    /\ main' = "reap" /\ at' = 1
    /\ UNCHANGED <<exit, app, threadRunning, connections, target, allocated, connVars,
                   connects, requests, sent>>

JoinNever(c) == TRUE

\* thread_.join() of a connection returns.
Joined(c) == thread[c] = "done"

\* The connection at the iterator is joined, deleted and erased.
Delete(i) ==
    /\ Joined(connections[i])
    /\ allocated' = allocated \ {connections[i]}
    /\ connections' = RemoveAt(connections, i)

\* AcceptConnection: a connection whose thread has stopped is removed.
Reap ==
    /\ main = "reap" /\ at <= Len(connections)
    /\ \/ running[connections[at]] /\ at' = at + 1 /\ UNCHANGED <<connections, allocated>>
       \/ ~running[connections[at]] /\ Delete(at) /\ at' = at
    /\ UNCHANGED <<exit, app, threadRunning, main, target, connVars, clientVars>>

\* Connection::ForcedDisconnectAllowed: nothing in its buffer
ForcedDisconnectAllowed(c) == thread[c] # "process"

AtLimitOffByOne == Len(connections) > MaxConnections

AtLimit == Len(connections) >= MaxConnections

\* At the limit: StopThread(false) of the least recently used one that is idle.
\* The times are whole seconds, so it can be any of them.
Evict ==
    LET idle == {c \in ToSet(connections) : ForcedDisconnect /\ ForcedDisconnectAllowed(c)} IN
    /\ main = "reap" /\ at > Len(connections) /\ at' = 1
    /\ IF AtLimit /\ idle # {}
       THEN \E c \in idle :
                target' = c /\ running' = [running EXCEPT ![c] = FALSE] /\ main' = "wait"
       ELSE main' = "decide" /\ UNCHANGED <<running, target>>
    /\ UNCHANGED <<exit, app, threadRunning, connections, allocated, thread, closing, clientVars>>

\* The wait of up to 200 ms for the flag that StopThread(false) has cleared, and
\* the test of it: the join follows, with no limit.
WaitForThread ==
    /\ main = "wait"
    /\ main' = IF running[target] THEN "decide" ELSE "join"
    /\ UNCHANGED <<exit, app, threadRunning, connections, at, target, allocated, connVars,
                   clientVars>>

JoinEvicted ==
    /\ main = "join" /\ Delete(SelectInSeq(connections, LAMBDA c : c = target))
    /\ main' = "decide" /\ target' = 0
    /\ UNCHANGED <<exit, app, threadRunning, at, connVars, clientVars>>

PushForgotten(c) == connections

Push(c) == Append(connections, c)

\* The connection is refused, or gets a Connection and a thread; then the loop test
\* of Work: time left or not.
Decide ==
    LET c == connects - backlog IN
    /\ main = "decide" /\ main' \in {"test"} \cup (IF exit THEN {} ELSE {"select"})
    /\ IF AtLimit
       THEN UNCHANGED <<connections, allocated, running, thread>>
       ELSE /\ connections' = Push(c) /\ allocated' = allocated \cup {c}
            /\ running' = [running EXCEPT ![c] = TRUE]
            /\ thread' = [thread EXCEPT ![c] = "test"]
    /\ UNCHANGED <<exit, app, threadRunning, at, target, closing, clientVars>>

FlagKept(c) == running

\* Connection::StopThread: threadRunning_ = false
ClearFlag(c) == [running EXCEPT ![c] = FALSE]

\* Shutdown: each connection is told to stop, joined and deleted, in turn.
ShutdownStop ==
    /\ main = "shutdown" /\ connections # <<>>
    /\ running' = ClearFlag(connections[1]) /\ main' = "shutdownJoin"
    /\ UNCHANGED <<exit, app, threadRunning, connections, at, target, allocated, thread,
                   closing, clientVars>>

ShutdownJoin ==
    /\ main = "shutdownJoin" /\ Delete(1) /\ main' = "shutdown"
    /\ UNCHANGED <<exit, app, threadRunning, at, target, connVars, clientVars>>

ShutdownEnds ==
    /\ main = "shutdown" /\ connections = <<>>
    /\ main' = "over" /\ threadRunning' = FALSE
    /\ UNCHANGED <<exit, app, connections, at, target, allocated, connVars, clientVars>>
------------------------------------------------------------------------------
\* A connection's thread: Connection::ThreadStarter and Work.

GoesOnUntilClosed(c) == ~closing[c]

\* threadRunning_ && !CheckClose()
GoesOn(c) == running[c] /\ ~closing[c]

ThreadTest(c) ==
    /\ thread[c] = "test"
    /\ thread' = [thread EXCEPT ![c] = IF GoesOn(c) THEN "select" ELSE "exit"]
    /\ UNCHANGED <<exit, app, mainVars, running, closing, clientVars>>

\* Input, or the end of it, or 100 ms without.
ThreadSelect(c) ==
    /\ thread[c] = "select"
    /\ \/ requests[c] # 0 /\ thread' = [thread EXCEPT ![c] = "process"]
       \/ thread' = [thread EXCEPT ![c] = "test"]
    /\ UNCHANGED <<exit, app, mainVars, running, closing, clientVars>>

\* Process returns: a request has been answered, or the end of the stream or an
\* error closes the connection; then the loop test of Work.
Process(c) ==
    /\ thread[c] = "process"
    /\ \/ /\ requests[c] > 0 /\ requests' = [requests EXCEPT ![c] = @ - 1]
          /\ \E next \in {"select", "test"} : thread' = [thread EXCEPT ![c] = next]
          /\ UNCHANGED closing
       \/ /\ closing' = [closing EXCEPT ![c] = TRUE]
          /\ thread' = [thread EXCEPT ![c] = "test"]
          /\ UNCHANGED requests
    /\ UNCHANGED <<exit, app, mainVars, running, connects, backlog, sent>>

\* socket_.Close() and threadRunning_ = false
ThreadExit(c) ==
    /\ thread[c] = "exit" /\ thread' = [thread EXCEPT ![c] = "done"]
    /\ running' = [running EXCEPT ![c] = FALSE]
    /\ UNCHANGED <<exit, app, mainVars, closing, clientVars>>

\* Clients connect, send and close; what comes before the connection has its
\* thread is as if it came then, and what comes after its end is not read.
ClientConnect ==
    /\ connects < MaxAccepts
    /\ connects' = connects + 1 /\ backlog' = backlog + 1
    /\ UNCHANGED <<exit, app, mainVars, connVars, requests, sent>>

ClientSend(c) ==
    /\ thread[c] \in {"test", "select", "process"}
    /\ requests[c] \in 0 .. MaxRequests - 1 /\ sent[c] <= MaxRequests
    /\ \/ sent[c] < MaxRequests /\ requests' = [requests EXCEPT ![c] = @ + 1]
       \/ requests[c] = 0 /\ requests' = [requests EXCEPT ![c] = -1]
    /\ sent' = [sent EXCEPT ![c] = @ + 1]
    /\ UNCHANGED <<exit, app, mainVars, connVars, connects, backlog>>

Main == LoopTest \/ SelectEnds \/ Accept \/ Reap \/ Evict \/ WaitForThread \/ JoinEvicted \/ Decide
            \/ ShutdownStop \/ ShutdownJoin \/ ShutdownEnds
Thread(c) == ThreadTest(c) \/ ThreadSelect(c) \/ Process(c) \/ ThreadExit(c)
Next ==
    \/ StartThread \/ StopThread \/ ThreadJoined \/ Main \/ ClientConnect
    \/ \E c \in Conn : Thread(c) \/ Exit(c) \/ ClientSend(c)

Spec == Init /\ [][Next]_vars

\* The server's thread and those of the connections run, and methods return.  Each
\* call of Work starts with 100 ms left, so select reports a waiting connection.
FairSpec ==
    /\ Spec /\ WF_vars(Main) /\ SF_vars(Accept) /\ WF_vars(ThreadJoined)
    /\ \A c \in Conn : WF_vars(Thread(c))
------------------------------------------------------------------------------
\* Types; and the list holds no more than maxConnections_, each connection once.
TypeOK ==
    /\ main \in {"off", "test", "select", "reap", "wait", "join", "decide", "shutdown",
                 "shutdownJoin", "over"}
    /\ \A c \in Conn : thread[c] \in {"none", "test", "select", "process", "exit", "done"}
    /\ Len(connections) <= MaxConnections /\ IsInjective(connections)
    /\ target \in {0} \cup Conn /\ allocated \subseteq Conn

\* Every thread that may still run belongs to a connection that exists and is in the
\* list, where reaping and shutdown find it: reaping, eviction and shutdown
\* delete a Connection only after its thread has ended, and lose none.
ThreadsAreListed ==
    /\ TypeOK
    /\ \A c \in Conn : thread[c] \notin {"none", "done"} =>
          c \in allocated /\ c \in ToSet(connections)

\* When StopThread has joined the server's thread, no thread of it runs and no
\* connection is left.
StoppedIsOver ==
    main = "over" => \A c \in Conn : thread[c] \in {"none", "done"} /\ c \notin allocated

\* StopThread returns.
StopReturns == app = "joining" ~> app = "stopped"

\* While the server runs, whoever connects is accepted or refused in the end, even
\* when the limit is reached and an idle connection is to be evicted.
ConnectIsDecided ==
    \A k \in 0 .. MaxAccepts :
        connects - backlog = k /\ backlog > 0 /\ main # "off"
            ~> connects - backlog > k \/ main = "over"
==============================================================================

------------------------------ MODULE ServerTP -------------------------------
(***************************************************************************)
(* The thread-pool server (src/server.cpp, ServerTP with the               *)
(* AcceptConnection and Shutdown it inherits from ServerST).               *)
(*                                                                         *)
(* The server thread waits in select for the listening socket and for the  *)
(* connections whose active_ flag is set, reads requests, and hands a      *)
(* connection with a complete request to the workers: it clears active_,   *)
(* pushes the connection on workQueue_ under workQueueMutex_ and notifies  *)
(* one worker.  A worker executes the request, writes the response, sets   *)
(* active_ again and signals the server thread.  active_ and               *)
(* connectionState_ are plain members read and written without a lock;     *)
(* each access is a step here.                                             *)
(*                                                                         *)
(* A connection is what the server sees of it: connectionState_ (both      *)
(* reading states are "READ"; WRITE_RESPONSE never outlives Process, see   *)
(* TcpSocket::Send), active_, and whether its buffer is empty, holds data, *)
(* or is full of a header that is not complete: Receive then asks for      *)
(* nothing, and the connection stays readable and reads no more.           *)
(* connections_ is a set: arrival order decides only in which order one    *)
(* pass visits it.                                                         *)
(***************************************************************************)
EXTENDS Naturals, Sequences, FiniteSets, SequencesExt

CONSTANTS
    Conn,               \* memory for Connection objects
    Worker,             \* the worker threads, numThreads_ of them
    MaxConnections,     \* maxConnections_
    ForcedDisconnect,   \* forcedDisconnectAllowed_
    WorkerCloses,       \* may a request end its connection in the worker?
    MaxStarts,          \* bound: how often the application starts the server
    None

ASSUME ServerTPAssumption ==
    /\ IsFiniteSet(Conn) /\ IsFiniteSet(Worker)
    /\ Worker # {}
    /\ MaxConnections \in 1 .. Cardinality(Conn)
    /\ ForcedDisconnect \in BOOLEAN
    /\ WorkerCloses \in BOOLEAN
    /\ MaxStarts \in Nat
    /\ None \notin Conn \cup Worker
    /\ Worker \cap {"nobody", "server", "queue"} = {}   \* see Owner

VARIABLES
    \* the application
    app,            \* "out", "join" (inside StopThread) or "stopped"
    starts,         \* calls of StartThread so far
    threadRunning,  \* threadRunning_
    exit,           \* exit_
    \* the server thread
    mpc,            \* where it is
    watch,          \* connections it put in inFd
    ready,          \* connections select reported
    todo,           \* connections this pass has yet to visit
    cur,            \* the connection being visited
    \* the connections
    connections,    \* connections_
    cs,             \* connectionState_
    active,         \* active_
    buffered,       \* "none" (bufferLength_ is 0), "some", or "full" of a header
    \* the pool
    wpc,            \* where each worker is
    wconn,          \* the connection each worker holds
    workQueue,      \* workQueue_
    mutex,          \* owner of workQueueMutex_ across steps, or None
    workerExit,     \* workerExit_
    \* the outside
    pending,        \* a client waits in the listen backlog
    readable,       \* connections whose socket has input or end of file
    signal          \* a datagram waits on serverSignal_

appVars == <<app, starts, threadRunning, exit>>
mainVars == <<mpc, watch, ready, todo, cur>>
connVars == <<connections, cs, active, buffered>>
poolVars == <<wpc, wconn, workQueue, mutex, workerExit>>
envVars == <<pending, readable, signal>>
vars == <<appVars, mainVars, connVars, poolVars, envVars>>

AppPC == {"out", "join", "stopped"}
MainPC == {"none", "start", "loop", "build", "select", "events", "pass",
           "push", "check", "stop", "notify", "join", "shutdown", "ended"}
WorkerPC == {"none", "top", "toBlock", "blocked", "proc", "done", "sig", "exit"}
ConnState == {"READ", "EXECUTE", "CLOSE"}
Fill == {"none", "some", "full"}

Init ==
    /\ app = "out" /\ starts = 0 /\ threadRunning = FALSE /\ exit = FALSE
    /\ mpc = "none" /\ watch = {} /\ ready = {} /\ todo = {} /\ cur = None
    /\ connections = {}
    /\ cs = [c \in Conn |-> "READ"]
    /\ active = [c \in Conn |-> TRUE]
    /\ buffered = [c \in Conn |-> "none"]
    /\ wpc = [w \in Worker |-> "none"]
    /\ wconn = [w \in Worker |-> None]
    /\ workQueue = <<>> /\ mutex = None /\ workerExit = FALSE
    /\ pending = FALSE /\ readable = {} /\ signal = FALSE
------------------------------------------------------------------------------
(* The application thread. *)

\* BindAndListen and StartThread, on a server that has no thread.
StartThread ==
    /\ app # "join" /\ mpc = "none" /\ starts < MaxStarts
    /\ app' = "out" /\ starts' = starts + 1
    /\ threadRunning' = TRUE
    /\ mpc' = "start"
    /\ UNCHANGED <<exit, watch, ready, todo, cur, connVars, poolVars, envVars>>

StopThread ==
    /\ app = "out" /\ starts > 0
    /\ app' = IF threadRunning THEN "join" ELSE "stopped"
    /\ threadRunning' = FALSE
    /\ UNCHANGED <<starts, exit, mainVars, connVars, poolVars, envVars>>

\* thread_.join() returns.
ThreadJoined ==
    /\ app = "join" /\ mpc = "ended"
    /\ app' = "stopped" /\ mpc' = "none"
    /\ UNCHANGED <<starts, threadRunning, exit, watch, ready, todo, cur,
                   connVars, poolVars, envVars>>

\* Called by the application, or by a method that a worker executes.
Exit ==
    /\ starts > 0
    /\ exit' = TRUE /\ threadRunning' = FALSE
    /\ UNCHANGED <<app, starts, mainVars, connVars, poolVars, envVars>>
------------------------------------------------------------------------------
(* The server thread: ThreadStarter and Work(100). *)

StartWorkers ==
    /\ mpc = "start"
    /\ workerExit' = FALSE
    /\ wpc' = [w \in Worker |-> "top"]
    /\ mpc' = "loop"
    /\ UNCHANGED <<appVars, watch, ready, todo, cur, connVars, wconn,
                   workQueue, mutex, envVars>>

LoopTest ==
    /\ mpc = "loop"
    /\ mpc' = IF threadRunning /\ ~exit THEN "build" ELSE "stop"
    /\ UNCHANGED <<appVars, watch, ready, todo, cur, connVars, poolVars, envVars>>

WaitForReadability(c) == active[c] /\ cs[c] = "READ"

BuildSets ==
    /\ mpc = "build"
    /\ watch' = {c \in connections : WaitForReadability(c)}
    /\ mpc' = "select"
    /\ UNCHANGED <<appVars, ready, todo, cur, connVars, poolVars, envVars>>

\* select returns the sockets that are ready, none of them after its timeout.
Select ==
    /\ mpc = "select"
    /\ ready' = watch \cap readable
    /\ watch' = {}
    /\ mpc' = "events"
    /\ UNCHANGED <<appVars, todo, cur, connVars, poolVars, envVars>>

\* select fails (it was interrupted): Work returns.
SelectFails ==
    /\ mpc = "select"
    /\ watch' = {}
    /\ mpc' = "loop"
    /\ UNCHANGED <<appVars, ready, todo, cur, connVars, poolVars, envVars>>

Evictable == {c \in connections : ForcedDisconnect /\ buffered[c] = "none"}

CreateConnection(c) ==
    /\ cs' = [cs EXCEPT ![c] = "READ"]
    /\ active' = [active EXCEPT ![c] = TRUE]
    /\ buffered' = [buffered EXCEPT ![c] = "none"]

AtLimitOffByOne == Cardinality(connections) > MaxConnections
AtLimit == Cardinality(connections) >= MaxConnections

\* ServerST::AcceptConnection: at the limit the least recently used connection
\* that allows it is deleted for the new one (which one that is depends on the
\* clock, so any here).  Accept may fail, and a client for whom there is no
\* room is turned away.
AcceptConnection ==
    \/ /\ ~AtLimit
       /\ \E c \in Conn \ connections :
             connections' = connections \cup {c} /\ CreateConnection(c)
       /\ UNCHANGED <<ready, readable>>
    \/ /\ AtLimit
       /\ \E old \in Evictable : \E c \in (Conn \ connections) \cup {old} :
             /\ connections' = (connections \ {old}) \cup {c}
             /\ CreateConnection(c)
             /\ ready' = ready \ {old}
             /\ readable' = readable \ {old}
    \/ UNCHANGED <<ready, connVars, readable>>

\* One datagram is read off the signal socket, if there is one.
AcceptSignal == signal' = FALSE

\* After select: AcceptConnection, AcceptSignal, and the pass over the list.
ServerEvents ==
    /\ mpc = "events"
    /\ IF pending THEN AcceptConnection ELSE UNCHANGED <<ready, connVars, readable>>
    /\ pending' = FALSE
    /\ AcceptSignal
    /\ todo' = connections'
    /\ mpc' = "pass"
    /\ UNCHANGED <<appVars, watch, cur, poolVars>>

SetActiveForgotten(c, value) == UNCHANGED active
SetActiveOnlyClears(c, value) == active' = [active EXCEPT ![c] = @ /\ value]
SetActive(c, value) == active' = [active EXCEPT ![c] = value]

\* connection->Process(false) on a connection whose buffer is full of a header:
\* Receive(buffer_ + bufferLength_, 0) reads nothing, and nothing changes.
ProcessFull(c) ==
    /\ buffered[c] = "full"
    /\ mpc' = "check"
    /\ UNCHANGED <<cs, buffered, readable, active>>

\* connection->Process(false) on any other: one recv for what is missing of the
\* header, and one for what is missing of the body.  A complete request stops in
\* EXECUTE_REQUEST; an error, an end of file or an exception closes.  The socket
\* is empty when more was asked for than came, that is when the connection
\* waits for input with room for it (an end of file behind the data is an
\* arrival of its own, see ClientSend); otherwise there may be more in it.
ProcessRead(c) ==
    \E result \in ConnState, b \in Fill :
        /\ buffered[c] # "full"
        /\ result = "EXECUTE" => b = "some"
        /\ b = "full" => result = "READ"
        /\ cs' = [cs EXCEPT ![c] = result]
        /\ buffered' = [buffered EXCEPT ![c] = b]
        /\ \/ readable' = readable \ {c}
           \/ ~(result = "READ" /\ b # "full") /\ UNCHANGED readable
        /\ IF result = "EXECUTE"
           THEN SetActive(c, FALSE) /\ mpc' = "push"
           ELSE UNCHANGED active /\ mpc' = "check"

VisitConnection ==
    /\ mpc = "pass"
    /\ \E c \in todo :
          /\ cur' = c
          /\ IF c \in ready
             THEN ProcessRead(c) \/ ProcessFull(c)
             ELSE mpc' = "check" /\ UNCHANGED <<cs, buffered, readable, active>>
          /\ ready' = ready \ {c}
    /\ UNCHANGED <<appVars, watch, todo, connections, poolVars, pending, signal>>

NotifyNobody == UNCHANGED wpc

\* workerBlock_.notify_one(): one blocked worker, if there is one, goes on.
NotifyOne ==
    \/ \E w \in Worker : wpc[w] = "blocked" /\ wpc' = [wpc EXCEPT ![w] = "top"]
    \/ (\A w \in Worker : wpc[w] # "blocked") /\ UNCHANGED wpc

PushWork ==
    /\ mpc = "push" /\ mutex = None
    /\ workQueue' = Append(workQueue, cur)
    /\ NotifyOne
    /\ mpc' = "check"
    /\ UNCHANGED <<appVars, watch, ready, todo, cur, connVars, wconn, mutex,
                   workerExit, envVars>>

CheckNotReading(c) == cs[c] # "READ"
CheckClose(c) == cs[c] = "CLOSE"

\* The end of a visit: a connection in CLOSE_CONNECTION is deleted.
CloseOrKeep ==
    /\ mpc = "check"
    /\ connections' = IF CheckClose(cur) THEN connections \ {cur} ELSE connections
    /\ readable' = IF CheckClose(cur) THEN readable \ {cur} ELSE readable
    /\ todo' = todo \ {cur}
    /\ cur' = None
    /\ mpc' = "pass"
    /\ UNCHANGED <<appVars, watch, ready, cs, active, buffered, poolVars,
                   pending, signal>>

\* Work goes on while there is time left, and returns otherwise.
PassEnds ==
    /\ mpc = "pass" /\ todo = {}
    /\ \/ ~exit /\ mpc' = "build"
       \/ mpc' = "loop"
    /\ UNCHANGED <<appVars, watch, ready, todo, cur, connVars, poolVars, envVars>>

SetWorkerExit ==
    /\ mpc = "stop"
    /\ workerExit' = TRUE
    /\ mpc' = "notify"
    /\ UNCHANGED <<appVars, watch, ready, todo, cur, connVars, wpc, wconn,
                   workQueue, mutex, envVars>>

NotifyAll ==
    /\ mpc = "notify"
    /\ wpc' = [w \in Worker |-> IF wpc[w] = "blocked" THEN "top" ELSE wpc[w]]
    /\ mpc' = "join"
    /\ UNCHANGED <<appVars, watch, ready, todo, cur, connVars, wconn,
                   workQueue, mutex, workerExit, envVars>>

JoinWorkers ==
    /\ mpc = "join"
    /\ \A w \in Worker : wpc[w] = "exit"
    /\ mpc' = "shutdown"
    /\ UNCHANGED <<appVars, watch, ready, todo, cur, connVars, poolVars, envVars>>

\* ServerST::Shutdown deletes the connections and closes the socket.
Shutdown ==
    /\ mpc = "shutdown"
    /\ connections' = {} /\ readable' = {} /\ pending' = FALSE
    /\ threadRunning' = FALSE
    /\ mpc' = "ended"
    /\ UNCHANGED <<app, starts, exit, watch, ready, todo, cur, cs, active,
                   buffered, poolVars, signal>>
------------------------------------------------------------------------------
(* A worker: WorkerThread. *)

\* Take the mutex and test the predicate of the wait.
WorkerTest(w) ==
    /\ wpc[w] = "top" /\ mutex = None
    /\ \/ /\ workerExit
          /\ wpc' = [wpc EXCEPT ![w] = "exit"]
          /\ UNCHANGED <<wconn, workQueue, mutex>>
       \/ /\ ~workerExit /\ workQueue = <<>>
          /\ wpc' = [wpc EXCEPT ![w] = "toBlock"]
          /\ mutex' = w
          /\ UNCHANGED <<wconn, workQueue>>
       \/ /\ ~workerExit /\ workQueue # <<>>
          /\ wpc' = [wpc EXCEPT ![w] = "proc"]
          /\ wconn' = [wconn EXCEPT ![w] = Head(workQueue)]
          /\ workQueue' = Tail(workQueue)
          /\ UNCHANGED mutex
    /\ UNCHANGED <<appVars, mainVars, connVars, workerExit, envVars>>

\* The wait proper: release the mutex and block.
WorkerBlock(w) ==
    /\ wpc[w] = "toBlock"
    /\ wpc' = [wpc EXCEPT ![w] = "blocked"]
    /\ mutex' = None
    /\ UNCHANGED <<appVars, mainVars, connVars, wconn, workQueue, workerExit,
                   envVars>>

WorkerWakesSpuriously(w) ==
    /\ wpc[w] = "blocked"
    /\ wpc' = [wpc EXCEPT ![w] = "top"]
    /\ UNCHANGED <<appVars, mainVars, connVars, wconn, workQueue, mutex,
                   workerExit, envVars>>

\* connection->Process(): execute, write the response, go on with messages
\* that have arrived.  It ends waiting for input or, after an error, an end of
\* file, an exception or a response without keep-alive, in CLOSE_CONNECTION.
WorkerProcess(w) ==
    LET c == wconn[w] IN
    /\ wpc[w] = "proc"
    /\ wpc' = [wpc EXCEPT ![w] = "done"]
    /\ \E result \in {"READ"} \cup (IF WorkerCloses THEN {"CLOSE"} ELSE {}),
          b \in Fill :
          /\ b = "full" => result = "READ"
          /\ cs' = [cs EXCEPT ![c] = result]
          /\ buffered' = [buffered EXCEPT ![c] = b]
    /\ readable' \in {readable, readable \ {c}}
    /\ UNCHANGED <<appVars, mainVars, connections, active, wconn, workQueue,
                   mutex, workerExit, pending, signal>>

\* connection->SetActive()
WorkerReturn(w) ==
    /\ wpc[w] = "done"
    /\ SetActive(wconn[w], TRUE)
    /\ wpc' = [wpc EXCEPT ![w] = "sig"]
    /\ wconn' = [wconn EXCEPT ![w] = None]
    /\ UNCHANGED <<appVars, mainVars, connections, cs, buffered, workQueue,
                   mutex, workerExit, envVars>>

\* The worker's UdpSocket has no descriptor (nobody calls its Create), so
\* signal.Send fails.
SignalSocketCreated == FALSE

WorkerSignal(w) ==
    /\ wpc[w] = "sig"
    /\ signal' = (signal \/ SignalSocketCreated)
    /\ wpc' = [wpc EXCEPT ![w] = "top"]
    /\ UNCHANGED <<appVars, mainVars, connVars, wconn, workQueue, mutex,
                   workerExit, pending, readable>>
------------------------------------------------------------------------------
(* The clients. *)

Listening == mpc \notin {"none", "ended"}

ClientConnect ==
    /\ Listening
    /\ pending' = TRUE
    /\ UNCHANGED <<appVars, mainVars, connVars, poolVars, readable, signal>>

\* Data, or the end of the client's stream.
ClientSend(c) ==
    /\ c \in connections
    /\ readable' = readable \cup {c}
    /\ UNCHANGED <<appVars, mainVars, connVars, poolVars, pending, signal>>

App == StartThread \/ StopThread \/ ThreadJoined \/ Exit

Main ==
    \/ StartWorkers \/ LoopTest \/ BuildSets \/ Select \/ SelectFails
    \/ ServerEvents \/ VisitConnection \/ PushWork \/ CloseOrKeep \/ PassEnds
    \/ SetWorkerExit \/ NotifyAll \/ JoinWorkers \/ Shutdown

WorkerStep(w) ==
    \/ WorkerTest(w) \/ WorkerBlock(w) \/ WorkerProcess(w) \/ WorkerReturn(w)
    \/ WorkerSignal(w)

Client == ClientConnect \/ \E c \in Conn : ClientSend(c)

Next ==
    \/ App
    \/ Main
    \/ \E w \in Worker : WorkerStep(w) \/ WorkerWakesSpuriously(w)
    \/ Client

Spec == Init /\ [][Next]_vars

\* Threads run, the methods they execute end, select is not interrupted every
\* time, and a thread that wants the mutex gets it in the end.  Neither clients
\* nor the application owe a step, nor does the condition variable owe a
\* spurious wake-up.
Fairness ==
    /\ WF_vars(Main) /\ SF_vars(Select) /\ SF_vars(PushWork)
    /\ WF_vars(ThreadJoined)
    /\ \A w \in Worker : WF_vars(WorkerStep(w)) /\ SF_vars(WorkerTest(w))

FairSpec == Spec /\ Fairness
------------------------------------------------------------------------------
Queued == ToSet(workQueue)
Held == {wconn[w] : w \in Worker} \ {None}

\* The values of the server's state; the list of connections keeps to
\* maxConnections_ however clients come and go (AcceptConnection).
TypeOK ==
    /\ app \in AppPC /\ starts \in 0 .. MaxStarts
    /\ threadRunning \in BOOLEAN /\ exit \in BOOLEAN
    /\ mpc \in MainPC
    /\ watch \subseteq Conn /\ ready \subseteq Conn /\ todo \subseteq Conn
    /\ cur \in Conn \cup {None}
    /\ connections \subseteq Conn /\ Cardinality(connections) <= MaxConnections
    /\ cs \in [Conn -> ConnState]
    /\ active \in [Conn -> BOOLEAN] /\ buffered \in [Conn -> Fill]
    /\ wpc \in [Worker -> WorkerPC]
    /\ wconn \in [Worker -> Conn \cup {None}]
    /\ workQueue \in Seq(Conn)
    /\ mutex \in Worker \cup {None}
    /\ workerExit \in BOOLEAN
    /\ pending \in BOOLEAN /\ readable \subseteq Conn /\ signal \in BOOLEAN

\* A connection that the pool has (queued, or held by a worker) has one owner:
\* it is queued once or held by one worker, and its cleared active_ flag keeps
\* the server thread from reading it, whatever select reported before.
OneOwner ==
    /\ IsInjective(workQueue)
    /\ Queued \cap Held = {}
    /\ \A v, w \in Worker : wconn[v] # None /\ wconn[v] = wconn[w] => v = w
    /\ \A c \in Queued \cup Held : ~active[c] /\ c \notin watch \cup ready

\* The server thread deletes no connection that a worker holds, and none that
\* is queued while the workers run: workQueue_ has "Connections that are ready
\* for the worker threads" (server.h:256).
PoolHasLive ==
    /\ Held \subseteq connections
    /\ ~workerExit => Queued \subseteq connections

\* A connection that is not active_ is on its way to, in or just leaving the
\* pool: none is forgotten by both sides while the workers run.
InactiveIsOwned ==
    \A c \in connections :
        ~active[c] => c \in Queued \cup Held \/ (mpc = "push" /\ cur = c)

\* No wake-up for work is lost: with work queued and no order to exit, some
\* worker is awake and will test the queue again.
WorkWakesWorker ==
    workQueue # <<>> /\ ~workerExit
        => \E w \in Worker : wpc[w] \in {"top", "proc", "done", "sig"}

\* StopThread returns: the server thread stops its workers and ends.
StopThreadReturns == app = "join" ~> app = "stopped"

\* Every connection given to the pool comes back to the server thread.
PoolReturns ==
    \A c \in Conn : c \in Queued ~> active[c] \/ workerExit

\* Input on a connection is read until none is left or a request is complete,
\* also when it arrives while a worker has the connection or just as the worker
\* returns it.  The exception is a buffer full of a header: Process is called
\* for such a connection again and again, and reads nothing.
InputIsRead ==
    \A c \in Conn :
        c \in readable ~>
            c \notin readable \/ cs[c] = "EXECUTE" \/ buffered[c] = "full" \/ workerExit
------------------------------------------------------------------------------
\* Who has a connection, in the abstract.
Owner(c) ==
    IF c \notin connections THEN "nobody"
    ELSE IF c \in Held THEN CHOOSE w \in Worker : wconn[w] = c
    ELSE IF c \in Queued THEN "queue"
    ELSE "server"

Handoff ==
    INSTANCE ConnectionHandoff
    WITH Nobody <- "nobody", ServerThread <- "server", Queue <- "queue",
         owner <- [c \in Conn |-> Owner(c)]

\* The flags, the queue and the locks implement single ownership: each step is
\* a step of ConnectionHandoff or leaves every owner alone.
ImplementsHandoff == Handoff!Spec
==============================================================================

--------------------------- MODULE ServerTPProofs ----------------------------
(***************************************************************************)
(* Proofs about ServerTP, for any number of connections, workers and       *)
(* requests.                                                               *)
(*                                                                         *)
(* First, whatever clients, methods and the application do: the state      *)
(* keeps its types and the list of connections its limit, and no wake-up   *)
(* of a worker is lost.  The invariant is PoolInv; ThreadsOK ties each     *)
(* thread's place in its code to the mutex, the queue and workerExit_.     *)
(*                                                                         *)
(* Second, in the undisturbed cases: a connection has one owner, the pool  *)
(* has only connections that exist, and the server implements              *)
(* ConnectionHandoff.  The invariant is OwnershipInv; PassOK says that the *)
(* server thread's sets from before and after select name only connections *)
(* that are still its own, PoolOK that no connection in the pool is about  *)
(* to be deleted.                                                          *)
(***************************************************************************)
EXTENDS ServerTP, ListLemmas, FiniteSetTheorems, TLAPS

\* Where the threads are: a worker has a connection exactly while it processes
\* one; no worker runs before StartWorkers or after JoinWorkers; a worker exits
\* only when it is told to; a worker about to block has the mutex and has seen
\* the queue empty.
ThreadsOK ==
    /\ mpc \in {"push", "check"} => cur \in Conn
    /\ \A w \in Worker : wconn[w] # None <=> wpc[w] \in {"proc", "done"}
    /\ mpc \in {"none", "start", "shutdown", "ended"} =>
          \A w \in Worker : wpc[w] \in {"none", "exit"}
    /\ mpc \in {"notify", "join", "shutdown", "ended"} => workerExit
    /\ mpc \in {"none", "start"} => workerExit \/ workQueue = <<>>
    /\ ~workerExit /\ mpc \notin {"none", "start"} =>
          \A w \in Worker : wpc[w] \notin {"none", "exit"}
    /\ \A w \in Worker : wpc[w] = "toBlock" => mutex = w /\ workQueue = <<>>

PoolInv == TypeOK /\ ThreadsOK /\ WorkWakesWorker

\* maxConnections_ is a number.
LEMMA LimitIsNat == MaxConnections \in Nat
BY ServerTPAssumption, FS_CardinalityType

\* Removing connections keeps to the limit, and so does adding one below it and
\* putting one in the place of another.
LEMMA LimitKept ==
    ASSUME TypeOK
    PROVE  /\ \A S \in SUBSET connections : Cardinality(S) <= MaxConnections
           /\ ~AtLimit => \A c \in Conn : Cardinality(connections \cup {c}) <= MaxConnections
           /\ \A old \in connections : \A c \in Conn :
                 Cardinality((connections \ {old}) \cup {c}) <= MaxConnections
<1>1. IsFiniteSet(connections) /\ Cardinality(connections) \in Nat
  BY ServerTPAssumption, FS_Subset, FS_CardinalityType DEF TypeOK
<1>2. \A S \in SUBSET connections :
        IsFiniteSet(S) /\ Cardinality(S) \in Nat /\ Cardinality(S) <= Cardinality(connections)
  BY <1>1, FS_Subset, FS_CardinalityType
<1>3. \A S \in SUBSET connections : \A c \in Conn :
        Cardinality(S \cup {c}) \in {Cardinality(S), Cardinality(S) + 1}
  BY <1>2, FS_AddElement
<1>4. \A old \in connections : Cardinality(connections \ {old}) = Cardinality(connections) - 1
  BY <1>1, FS_RemoveElement
<1>5. ASSUME ~AtLimit, NEW c \in Conn
      PROVE  Cardinality(connections \cup {c}) <= MaxConnections
  BY <1>1, <1>3, <1>5, LimitIsNat DEF AtLimit
<1>6. ASSUME NEW old \in connections, NEW c \in Conn
      PROVE  Cardinality((connections \ {old}) \cup {c}) <= MaxConnections
  <2>1. Cardinality(connections) <= MaxConnections
    BY DEF TypeOK
  <2>2. Cardinality((connections \ {old}) \cup {c})
            \in {Cardinality(connections) - 1, Cardinality(connections)}
    <3>1. Cardinality(connections \ {old}) = Cardinality(connections) - 1
      BY <1>4
    <3>2. Cardinality((connections \ {old}) \cup {c})
              \in {Cardinality(connections \ {old}), Cardinality(connections \ {old}) + 1}
      BY <1>3
    <3> QED
      BY <1>1, <3>1, <3>2
  <2> QED
    BY <1>1, <2>1, <2>2, LimitIsNat
<1> QED
  BY <1>1, <1>2, <1>5, <1>6, LimitIsNat DEF TypeOK

\* The server before its first start.
LEMMA InitPool == Init => PoolInv
<1> SUFFICES ASSUME Init PROVE PoolInv
  OBVIOUS
<1> USE ServerTPAssumption
<1>1. TypeOK
  <2>1. /\ threadRunning \in BOOLEAN /\ exit \in BOOLEAN
        /\ workerExit \in BOOLEAN
    BY Zenon DEF Init
  <2>1a. active \in [Conn -> BOOLEAN] /\ buffered \in [Conn -> Fill]
    BY Zenon DEF Init, Fill
  <2>1b. pending \in BOOLEAN /\ signal \in BOOLEAN
    BY Zenon DEF Init
  <2>2. Cardinality(connections) <= MaxConnections
    BY FS_EmptySet, LimitIsNat DEF Init
  <2>3. starts \in 0 .. MaxStarts /\ workQueue \in Seq(Conn)
    BY DEF Init
  <2>4. /\ watch \subseteq Conn /\ ready \subseteq Conn /\ todo \subseteq Conn
        /\ cur \in Conn \cup {None} /\ mutex \in Worker \cup {None}
        /\ connections \subseteq Conn /\ readable \subseteq Conn
        /\ app \in AppPC /\ mpc \in MainPC
    BY DEF Init, AppPC, MainPC
  <2>5. /\ cs \in [Conn -> ConnState] /\ wpc \in [Worker -> WorkerPC]
        /\ wconn \in [Worker -> Conn \cup {None}]
    BY DEF Init, ConnState, WorkerPC
  <2> QED
    BY <2>1, <2>1a, <2>1b, <2>2, <2>3, <2>4, <2>5 DEF TypeOK
<1>2. ThreadsOK
  BY DEF Init, ThreadsOK
<1>3. WorkWakesWorker
  BY DEF Init, WorkWakesWorker
<1> QED
  BY <1>1, <1>2, <1>3 DEF PoolInv

\* The application's steps.
LEMMA AppPool == PoolInv /\ App => PoolInv'
<1> SUFFICES ASSUME PoolInv, App PROVE PoolInv'
  OBVIOUS
<1> USE ServerTPAssumption DEF appVars, mainVars, connVars, poolVars, envVars
<1>1. TypeOK'
  <2>1. threadRunning' \in BOOLEAN /\ exit' \in BOOLEAN
    BY Zenon DEF PoolInv, App, StartThread, StopThread, ThreadJoined, Exit, TypeOK
  <2>2. starts' \in 0 .. MaxStarts /\ app' \in AppPC /\ mpc' \in MainPC
    BY DEF PoolInv, App, StartThread, StopThread, ThreadJoined, Exit, TypeOK, AppPC, MainPC
  <2>3. UNCHANGED <<watch, ready, todo, cur, connVars, poolVars, envVars>>
    BY DEF App, StartThread, StopThread, ThreadJoined, Exit
  <2> QED
    BY <2>1, <2>2, <2>3 DEF PoolInv, TypeOK
<1>2. ThreadsOK'
  BY DEF PoolInv, App, StartThread, StopThread, ThreadJoined, Exit, TypeOK, AppPC, MainPC, ThreadsOK
<1>3. WorkWakesWorker'
  BY DEF PoolInv, App, StartThread, StopThread, ThreadJoined, Exit, WorkWakesWorker
<1> QED
  BY <1>1, <1>2, <1>3 DEF PoolInv

\* The steps of the server thread.
LEMMA MainPool == PoolInv /\ Main => PoolInv'
<1> SUFFICES ASSUME PoolInv, Main PROVE PoolInv'
  OBVIOUS
<1> USE ServerTPAssumption DEF appVars, mainVars, connVars, poolVars, envVars
<1> USE DEF PoolInv, TypeOK, AppPC, MainPC, WorkerPC, ConnState, ThreadsOK, WorkWakesWorker
<1>1. CASE StartWorkers
  BY <1>1 DEF StartWorkers
<1>2. CASE LoopTest
  BY <1>2 DEF LoopTest
<1>3. CASE BuildSets
  BY <1>3 DEF BuildSets
<1>4. CASE Select
  BY <1>4 DEF Select
<1>5. CASE SelectFails
  BY <1>5 DEF SelectFails
<1>6. CASE ServerEvents
  <2>1. /\ UNCHANGED <<appVars, watch, cur, poolVars>>
        /\ pending' = FALSE /\ signal' = FALSE /\ todo' = connections' /\ mpc' = "pass"
        /\ AcceptConnection \/ UNCHANGED <<ready, connVars, readable>>
    BY <1>6 DEF ServerEvents, AcceptSignal
  <2>2. pending' \in BOOLEAN /\ signal' \in BOOLEAN
    BY <2>1, Zenon
  <2> USE DEF Fill
  <2> DEFINE Typed ==
          /\ connections' \subseteq Conn /\ Cardinality(connections') <= MaxConnections
          /\ ready' \subseteq Conn /\ readable' \subseteq Conn
          /\ cs' \in [Conn -> ConnState]
          /\ active' \in [Conn -> BOOLEAN] /\ buffered' \in [Conn -> Fill]
  <2>3. Typed
    <3>1. CASE UNCHANGED <<ready, connVars, readable>>
      BY <3>1
    <3>2. ASSUME ~AtLimit, NEW c \in Conn, connections' = connections \cup {c},
                 CreateConnection(c), UNCHANGED <<ready, readable>>
          PROVE  Typed
      BY <3>2, LimitKept DEF CreateConnection
    <3>3. ASSUME NEW old \in connections, NEW c \in Conn,
                 connections' = (connections \ {old}) \cup {c}, CreateConnection(c),
                 ready' = ready \ {old}, readable' = readable \ {old}
          PROVE  Typed
      BY <3>3, LimitKept DEF CreateConnection
    <3> QED
      BY <2>1, <3>1, <3>2, <3>3 DEF AcceptConnection, Evictable
  <2> QED
    BY <1>6, <2>1, <2>2, <2>3 DEF ServerEvents
<1>7. CASE VisitConnection
  <2> PICK c \in todo :
          /\ cur' = c
          /\ IF c \in ready
             THEN ProcessRead(c) \/ ProcessFull(c)
             ELSE mpc' = "check" /\ UNCHANGED <<cs, buffered, readable, active>>
          /\ ready' = ready \ {c}
    BY <1>7 DEF VisitConnection
  <2>1. /\ mpc' \in {"push", "check"} /\ cs' \in [Conn -> ConnState]
        /\ readable' \subseteq Conn
    <3>1. mpc' \in {"push", "check"}
      BY Zenon DEF ProcessRead, ProcessFull
    <3>2. \/ cs' = cs
          \/ \E result \in ConnState : cs' = [cs EXCEPT ![c] = result]
      BY Zenon DEF ProcessRead, ProcessFull
    <3>3. cs' \in [Conn -> ConnState]
      BY <3>2
    <3>4. readable' = readable \/ readable' = readable \ {c}
      BY Zenon DEF ProcessRead, ProcessFull
    <3> QED
      BY <3>1, <3>3, <3>4
  <2>2. buffered' \in [Conn -> Fill]
    BY DEF ProcessRead, ProcessFull, Fill
  <2>3. active' \in [Conn -> BOOLEAN]
    <3>1. active' = active \/ active' = [active EXCEPT ![c] = FALSE]
      BY Zenon DEF ProcessRead, ProcessFull, SetActive
    <3> QED
      BY <3>1
  <2>4. UNCHANGED <<appVars, watch, todo, connections, poolVars, pending, signal>>
    BY <1>7 DEF VisitConnection
  <2> QED
    BY <1>7, <2>1, <2>2, <2>3, <2>4 DEF VisitConnection
<1>8. CASE PushWork
  <2>1. /\ mpc = "push" /\ mutex = None /\ mpc' = "check"
        /\ workQueue' = Append(workQueue, cur)
        /\ UNCHANGED <<appVars, watch, ready, todo, cur, connVars, wconn, mutex,
                       workerExit, envVars>>
    BY <1>8 DEF PushWork
  <2>2. \/ \E w \in Worker : wpc[w] = "blocked" /\ wpc' = [wpc EXCEPT ![w] = "top"]
        \/ (\A w \in Worker : wpc[w] # "blocked") /\ UNCHANGED wpc
    BY <1>8 DEF PushWork, NotifyOne
  <2>3. workQueue' \in Seq(Conn) /\ workQueue' # <<>>
    BY <2>1
  <2>4. wpc' \in [Worker -> WorkerPC]
    BY <2>2
  <2>5. TypeOK'
    BY <2>1, <2>3, <2>4
  <2>6. ThreadsOK'
    BY <2>1, <2>2
  <2>7. WorkWakesWorker'
    BY <2>1, <2>2
  <2> QED
    BY <2>5, <2>6, <2>7
<1>9. CASE CloseOrKeep
  BY <1>9, LimitKept DEF CloseOrKeep
<1>10. CASE PassEnds
  BY <1>10 DEF PassEnds
<1>11. CASE SetWorkerExit
  BY <1>11 DEF SetWorkerExit
<1>12. CASE NotifyAll
  BY <1>12 DEF NotifyAll
<1>13. CASE JoinWorkers
  BY <1>13 DEF JoinWorkers
<1>14. CASE Shutdown
  <2>1. pending' \in BOOLEAN /\ threadRunning' \in BOOLEAN
    BY <1>14, Zenon DEF Shutdown
  <2> QED
    BY <1>14, <2>1, LimitKept DEF Shutdown
<1> QED
  BY <1>1, <1>2, <1>3, <1>4, <1>5, <1>6, <1>7, <1>8, <1>9, <1>10, <1>11, <1>12, <1>13, <1>14 DEF Main

\* The steps of a worker.
LEMMA WorkerPool == ASSUME NEW w \in Worker, PoolInv, WorkerStep(w) \/ WorkerWakesSpuriously(w) PROVE PoolInv'
<1> USE ServerTPAssumption DEF appVars, mainVars, connVars, poolVars, envVars
<1> USE DEF PoolInv, TypeOK, AppPC, MainPC, WorkerPC, ConnState, ThreadsOK, WorkWakesWorker
<1>1. CASE WorkerTest(w)
  <2>1. CASE workerExit
    BY <1>1, <2>1 DEF WorkerTest
  <2>2. CASE ~workerExit /\ workQueue = <<>>
    <3>1. /\ wpc[w] = "top" /\ mutex = None
          /\ wpc' = [wpc EXCEPT ![w] = "toBlock"] /\ mutex' = w
          /\ UNCHANGED <<wconn, workQueue, appVars, mainVars, connVars, workerExit, envVars>>
      BY <1>1, <2>2 DEF WorkerTest
    <3>2. TypeOK'
      BY <3>1
    <3>3. ThreadsOK'
      BY <2>2, <3>1
    <3> QED
      BY <2>2, <3>1, <3>2, <3>3
  <2>3. CASE ~workerExit /\ workQueue # <<>>
    <3>1. Head(workQueue) \in Conn /\ Tail(workQueue) \in Seq(Conn)
      BY <2>3
    <3>2. /\ wpc[w] = "top" /\ wpc' = [wpc EXCEPT ![w] = "proc"]
          /\ wconn' = [wconn EXCEPT ![w] = Head(workQueue)]
          /\ workQueue' = Tail(workQueue)
          /\ UNCHANGED <<mutex, appVars, mainVars, connVars, workerExit, envVars>>
      BY <1>1, <2>3 DEF WorkerTest
    <3>3. TypeOK'
      BY <3>1, <3>2
    <3>4. ThreadsOK'
      BY <2>3, <3>1, <3>2
    <3>5. WorkWakesWorker'
      BY <3>2
    <3> QED
      BY <3>3, <3>4, <3>5
  <2> QED
    BY <2>1, <2>2, <2>3
<1>2. CASE WorkerBlock(w)
  BY <1>2 DEF WorkerBlock
<1>3. CASE WorkerWakesSpuriously(w)
  BY <1>3 DEF WorkerWakesSpuriously
<1>4. CASE WorkerProcess(w)
  BY <1>4 DEF WorkerProcess, Fill
<1>5. CASE WorkerReturn(w)
  BY <1>5 DEF WorkerReturn, SetActive
<1>6. CASE WorkerSignal(w)
  BY <1>6 DEF WorkerSignal
<1> QED
  BY <1>1, <1>2, <1>3, <1>4, <1>5, <1>6 DEF WorkerStep

\* A client's step, or none.
LEMMA ClientPool == PoolInv /\ (Client \/ UNCHANGED vars) => PoolInv'
<1> SUFFICES ASSUME PoolInv, Client \/ UNCHANGED vars PROVE PoolInv'
  OBVIOUS
<1> USE DEF appVars, mainVars, connVars, poolVars, envVars
<1>1. pending' \in BOOLEAN
  BY Zenon DEF PoolInv, TypeOK, Client, ClientConnect, ClientSend, vars
<1>2. readable' \subseteq Conn
  BY DEF PoolInv, TypeOK, Client, ClientConnect, ClientSend, vars
<1>3. UNCHANGED <<appVars, mainVars, connVars, poolVars, signal>>
  BY DEF Client, ClientConnect, ClientSend, vars
<1> QED
  BY <1>1, <1>2, <1>3 DEF PoolInv, TypeOK, ThreadsOK, WorkWakesWorker

\* Every step of the system keeps the pool invariant.
LEMMA NextPool == PoolInv /\ [Next]_vars => PoolInv'
BY AppPool, MainPool, WorkerPool, ClientPool DEF Next

\* Types, and the limit on connections, whatever clients and methods do.
THEOREM TypeCorrect == Spec => []TypeOK
<1>1. PoolInv => TypeOK
  BY DEF PoolInv
<1> QED
  BY InitPool, NextPool, <1>1, PTL DEF Spec

\* No wake-up for work is lost, whatever clients and methods do.
THEOREM NoLostWakeUp == Spec => []WorkWakesWorker
<1>1. PoolInv => WorkWakesWorker
  BY DEF PoolInv
<1> QED
  BY InitPool, NextPool, <1>1, PTL DEF Spec
------------------------------------------------------------------------------
(* Who has a connection.                                                   *)

\* The cases in which the server keeps its promise about connections: no
\* connection is evicted for another, no request ends its connection inside a
\* worker, and the server is not started a second time.
Undisturbed == ~ForcedDisconnect /\ ~WorkerCloses /\ MaxStarts \in {0, 1}

\* The server thread's own lists: what it watches is connected and active_, and
\* what select reported is visited before the pass ends.
PassOK ==
    /\ mpc # "select" => watch = {}
    /\ mpc \notin {"events", "pass", "push", "check"} => ready = {}
    /\ mpc \in {"pass", "push", "check"} => todo \subseteq connections /\ ready \subseteq todo
    /\ mpc \in {"push", "check"} => cur \in todo \ ready
    /\ \A c \in watch \cup ready : c \in connections /\ active[c]

\* What the pool has: no connection that waits to be deleted, none before the
\* first start, and not yet the connection that the server thread is handing over.
PoolOK ==
    /\ \A c \in Queued \cup Held : cs[c] # "CLOSE"
    /\ mpc \notin {"none", "ended"} => Queued \subseteq connections
    /\ starts = 0 => mpc = "none" /\ workQueue = <<>>
    /\ mpc = "push" => ~active[cur] /\ cur \notin Queued \cup Held /\ cs[cur] = "EXECUTE"

OwnershipInv ==
    PoolInv /\ OneOwner /\ PoolHasLive /\ InactiveIsOwned /\ PassOK /\ PoolOK

\* What workers hold depends on wconn alone, what is queued on workQueue alone.
LEMMA PoolUnchanged ==
    /\ UNCHANGED wconn => Held' = Held
    /\ UNCHANGED workQueue => Queued' = Queued
BY DEF Held, Queued

\* An empty queue lists nothing.
LEMMA EmptyQueue == workQueue = <<>> => Queued = {} /\ IsInjective(workQueue)
BY DEF Queued, ToSet, IsInjective

\* Before the server starts, nobody owns a connection.
LEMMA InitOwnership == Init => OwnershipInv
<1> SUFFICES ASSUME Init PROVE OwnershipInv
  OBVIOUS
<1>1. workQueue = <<>> /\ connections = {} /\ Held = {} /\ wconn = [w \in Worker |-> None]
  BY DEF Init, Held
<1> QED
  BY <1>1, InitPool, EmptyQueue
  DEF OwnershipInv, Init, OneOwner, PoolHasLive, InactiveIsOwned, PassOK, PoolOK

\* The application's steps; the one that matters is a start, which finds the
\* queue empty because it is the first.
LEMMA AppOwnership == OwnershipInv /\ App /\ Undisturbed => OwnershipInv'
<1> SUFFICES ASSUME OwnershipInv, App, Undisturbed PROVE OwnershipInv'
  OBVIOUS
<1> USE ServerTPAssumption DEF appVars, mainVars, connVars, poolVars, envVars
<1>1. UNCHANGED <<watch, ready, todo, cur, connVars, poolVars, envVars>>
  BY DEF App, StartThread, StopThread, ThreadJoined, Exit
<1>2. Held' = Held /\ Queued' = Queued
  BY <1>1, PoolUnchanged
<1>3. \/ UNCHANGED <<mpc, starts>>
      \/ mpc = "none" /\ mpc' = "start" /\ starts = 0 /\ starts' = 1
      \/ mpc = "ended" /\ mpc' = "none" /\ starts' = starts
  BY DEF App, StartThread, StopThread, ThreadJoined, Exit, Undisturbed, OwnershipInv, PoolInv, TypeOK
<1>4. PoolInv'
  BY AppPool DEF OwnershipInv
<1>5. OneOwner' /\ PoolHasLive'
  BY <1>1, <1>2 DEF OwnershipInv, OneOwner, PoolHasLive
<1>6. InactiveIsOwned'
  BY <1>1, <1>2, <1>3 DEF OwnershipInv, InactiveIsOwned
<1>7. PassOK'
  BY <1>1, <1>3 DEF OwnershipInv, PassOK
<1>8. PoolOK'
  BY <1>1, <1>2, <1>3, EmptyQueue DEF OwnershipInv, PoolOK
<1> QED
  BY <1>4, <1>5, <1>6, <1>7, <1>8 DEF OwnershipInv

\* The server thread's steps.
LEMMA MainOwnership == OwnershipInv /\ Main /\ Undisturbed => OwnershipInv'
<1> SUFFICES ASSUME OwnershipInv, Main, Undisturbed PROVE OwnershipInv'
  OBVIOUS
<1> USE ServerTPAssumption DEF appVars, mainVars, connVars, poolVars, envVars
<1>0. PoolInv'
  BY MainPool DEF OwnershipInv
<1> DEFINE Own == OneOwner' /\ PoolHasLive' /\ InactiveIsOwned' /\ PassOK' /\ PoolOK'
<1>a. TypeOK /\ ThreadsOK
  BY DEF OwnershipInv, PoolInv
<1> USE DEF OneOwner, PoolHasLive, InactiveIsOwned, PassOK, PoolOK, OwnershipInv
<1>1. CASE StartWorkers
  BY <1>0, <1>1, PoolUnchanged DEF StartWorkers
<1>2. CASE LoopTest
  BY <1>0, <1>2, PoolUnchanged DEF LoopTest
<1>3. CASE BuildSets
  BY <1>0, <1>3, PoolUnchanged DEF BuildSets, WaitForReadability
<1>4. CASE Select
  BY <1>0, <1>4, PoolUnchanged DEF Select
<1>5. CASE SelectFails
  BY <1>0, <1>5, PoolUnchanged DEF SelectFails
<1>6. CASE ServerEvents
  <2>1. /\ mpc = "events" /\ mpc' = "pass" /\ todo' = connections'
        /\ UNCHANGED <<appVars, watch, cur, poolVars>>
    BY <1>6 DEF ServerEvents
  <2>2. Held' = Held /\ Queued' = Queued
    BY <2>1, PoolUnchanged
  <2>3. CASE UNCHANGED <<ready, connVars, readable>>
    BY <1>0, <2>1, <2>2, <2>3
  <2>4. ASSUME NEW c \in Conn \ connections, connections' = connections \cup {c},
               CreateConnection(c), UNCHANGED <<ready, readable>>
        PROVE  Own
    <3>1. c \notin Queued \cup Held
      BY <2>1
    <3>2. /\ active'[c] /\ cs'[c] = "READ"
          /\ \A d \in Conn \ {c} : active'[d] = active[d] /\ cs'[d] = cs[d]
      BY <1>a, <2>4 DEF CreateConnection, TypeOK
    <3>3. connections \subseteq Conn
      BY <1>a DEF TypeOK
    <3> QED
      BY <2>1, <2>2, <2>4, <3>1, <3>2, <3>3
  <2>5. Evictable = {}
    BY DEF Evictable, Undisturbed
  <2> QED
    BY <1>0, <1>6, <2>3, <2>4, <2>5 DEF ServerEvents, AcceptConnection
<1>7. CASE VisitConnection
  <2> PICK c \in todo :
          /\ cur' = c
          /\ IF c \in ready
             THEN ProcessRead(c) \/ ProcessFull(c)
             ELSE mpc' = "check" /\ UNCHANGED <<cs, buffered, readable, active>>
          /\ ready' = ready \ {c}
    BY <1>7 DEF VisitConnection
  <2>1. /\ mpc = "pass" /\ UNCHANGED <<appVars, watch, todo, connections, poolVars>>
    BY <1>7 DEF VisitConnection
  <2>2. Held' = Held /\ Queued' = Queued
    BY <2>1, PoolUnchanged
  <2>3. CASE c \notin ready
    BY <1>0, <2>1, <2>2, <2>3
  <2>4. CASE c \in ready
    <3>1. c \notin Queued \cup Held /\ c \in Conn
      BY <1>a, <2>4 DEF TypeOK
    <3>2. /\ \/ mpc' = "push" /\ cs'[c] = "EXECUTE" /\ ~active'[c]
             \/ mpc' = "check" /\ active' = active
          /\ \A d \in Conn \ {c} : active'[d] = active[d] /\ cs'[d] = cs[d]
      BY <1>a, <2>4 DEF ProcessRead, ProcessFull, SetActive, TypeOK
    <3>3. connections \subseteq Conn /\ ready \subseteq Conn /\ watch \subseteq Conn
      BY <1>a DEF TypeOK
    <3> QED
      BY <1>0, <2>1, <2>2, <2>4, <3>1, <3>2, <3>3
  <2> QED
    BY <2>3, <2>4
<1>8. CASE PushWork
  <2>1. /\ mpc = "push" /\ mpc' = "check" /\ workQueue' = Append(workQueue, cur)
        /\ UNCHANGED <<appVars, watch, ready, todo, cur, connVars, wconn>>
        /\ UNCHANGED workerExit
    BY <1>8 DEF PushWork
  <2>2. Held' = Held
    BY <2>1, PoolUnchanged
  <2>3. cur \in Conn /\ cur \in connections /\ cur \notin watch \cup ready
    BY <1>a, <2>1 DEF ThreadsOK
  <2>4. Queued' = Queued \cup {cur} /\ IsInjective(workQueue')
    BY <1>a, <2>1, <2>3, AppendToList DEF TypeOK, Queued
  <2> QED
    BY <1>0, <2>1, <2>2, <2>3, <2>4
<1>9. CASE CloseOrKeep
  BY <1>0, <1>9, PoolUnchanged DEF CloseOrKeep, CheckClose
<1>10. CASE PassEnds
  BY <1>0, <1>10, PoolUnchanged DEF PassEnds
<1>11. CASE SetWorkerExit
  BY <1>0, <1>11, PoolUnchanged DEF SetWorkerExit
<1>12. CASE NotifyAll
  BY <1>0, <1>12, PoolUnchanged DEF NotifyAll
<1>13. CASE JoinWorkers
  BY <1>0, <1>13, PoolUnchanged DEF JoinWorkers
<1>14. CASE Shutdown
  <2>1. Held = {}
    BY <1>a, <1>14 DEF Shutdown, ThreadsOK, Held
  <2> QED
    BY <1>0, <1>a, <1>14, <2>1, PoolUnchanged DEF Shutdown, ThreadsOK
<1> QED
  BY <1>1, <1>2, <1>3, <1>4, <1>5, <1>6, <1>7, <1>8, <1>9, <1>10, <1>11, <1>12, <1>13, <1>14 DEF Main

\* A worker's steps.
LEMMA WorkerOwnership ==
    ASSUME NEW w \in Worker, OwnershipInv, Undisturbed,
           WorkerStep(w) \/ WorkerWakesSpuriously(w)
    PROVE  OwnershipInv'
<1> USE ServerTPAssumption DEF appVars, mainVars, connVars, poolVars, envVars
<1>0. PoolInv'
  BY WorkerPool DEF OwnershipInv
<1>a. TypeOK /\ ThreadsOK
  BY DEF OwnershipInv, PoolInv
<1>b. UNCHANGED <<starts, mainVars, connections, workerExit>>
  BY DEF WorkerStep, WorkerTest, WorkerBlock, WorkerProcess, WorkerReturn, WorkerSignal,
         WorkerWakesSpuriously
<1> USE DEF OneOwner, PoolHasLive, InactiveIsOwned, PassOK, PoolOK, OwnershipInv
<1>1. CASE UNCHANGED <<connVars, wconn, workQueue>>
  BY <1>0, <1>1, <1>b, PoolUnchanged
<1>2. CASE WorkerTest(w) /\ ~UNCHANGED workQueue
  <2>1. /\ wpc[w] = "top" /\ workQueue # <<>> /\ ~workerExit
        /\ wconn' = [wconn EXCEPT ![w] = Head(workQueue)]
        /\ workQueue' = Tail(workQueue)
        /\ UNCHANGED connVars
    BY <1>2 DEF WorkerTest
  <2>2. /\ Head(workQueue) \in Conn
        /\ Queued = Queued' \cup {Head(workQueue)}
        /\ IsInjective(workQueue') /\ Head(workQueue) \notin Queued'
    BY <1>a, <2>1, TakeFromList DEF TypeOK, Queued
  <2>3. wconn[w] = None
    BY <1>a, <2>1 DEF ThreadsOK
  <2>4. Held' = Held \cup {Head(workQueue)}
    BY <1>a, <2>1, <2>2, <2>3 DEF TypeOK, Held
  <2>5. OneOwner'
    <3>1. \A v, u \in Worker : wconn'[v] # None /\ wconn'[v] = wconn'[u] => v = u
      <4>1. \A v \in Worker : wconn[v] # None => wconn[v] # Head(workQueue)
        BY <2>2 DEF Held
      <4> QED
        BY <1>a, <2>1, <4>1 DEF TypeOK
    <3> QED
      BY <1>b, <2>1, <2>2, <2>4, <3>1
  <2>6. PoolHasLive' /\ InactiveIsOwned'
    BY <1>b, <2>1, <2>2, <2>4
  <2>7. PassOK' /\ PoolOK'
    BY <1>b, <2>1, <2>2, <2>4
  <2> QED
    BY <1>0, <2>5, <2>6, <2>7
<1>3. CASE WorkerProcess(w)
  <2> DEFINE c == wconn[w]
  <2>1. c \in Held /\ c \in Conn
    BY <1>a, <1>3 DEF WorkerProcess, ThreadsOK, TypeOK, Held
  <2>2. cs' = [cs EXCEPT ![c] = "READ"] /\ UNCHANGED <<active, wconn, workQueue>>
    BY <1>3 DEF WorkerProcess, Undisturbed
  <2>3. cs'[c] = "READ" /\ \A d \in Conn \ {c} : cs'[d] = cs[d]
    BY <1>a, <2>1, <2>2 DEF TypeOK
  <2>4. Held' = Held /\ Queued' = Queued
    BY <2>2, PoolUnchanged
  <2>5. Held \subseteq Conn /\ Queued \subseteq Conn
    BY <1>a, ListInType DEF TypeOK, Held, Queued
  <2>6. mpc = "push" => cur \in Conn /\ cur # c
    BY <1>a, <2>1 DEF ThreadsOK
  <2> HIDE DEF c
  <2> QED
    BY <1>0, <1>b, <2>1, <2>2, <2>3, <2>4, <2>5, <2>6
<1>4. CASE WorkerReturn(w)
  <2> DEFINE c == wconn[w]
  <2>1. c \in Held /\ c \in Conn
    BY <1>a, <1>4 DEF WorkerReturn, ThreadsOK, TypeOK, Held
  <2>2. /\ active' = [active EXCEPT ![c] = TRUE]
        /\ wconn' = [wconn EXCEPT ![w] = None]
        /\ UNCHANGED <<cs, workQueue>>
    BY <1>4 DEF WorkerReturn, SetActive
  <2>3. active'[c] /\ \A d \in Conn \ {c} : active'[d] = active[d]
    BY <1>a, <2>1, <2>2 DEF TypeOK
  <2>4. Held' = Held \ {c}
    BY <1>a, <2>1, <2>2 DEF TypeOK, Held
  <2>5. Queued' = Queued
    BY <2>2, PoolUnchanged
  <2>6. Held \subseteq Conn /\ Queued \subseteq Conn /\ connections \subseteq Conn
    BY <1>a, ListInType DEF TypeOK, Held, Queued
  <2>7. mpc = "push" => cur \in Conn /\ cur # c
    BY <1>a, <2>1 DEF ThreadsOK
  <2>8. \A v, u \in Worker : wconn'[v] # None /\ wconn'[v] = wconn'[u] => v = u
    BY <1>a, <2>2 DEF TypeOK
  <2>9. watch \subseteq Conn /\ ready \subseteq Conn
    BY <1>a DEF TypeOK
  <2> HIDE DEF c
  <2>10. OneOwner' /\ PoolHasLive'
    BY <1>b, <2>1, <2>2, <2>3, <2>4, <2>5, <2>6, <2>8, <2>9
  <2>11. InactiveIsOwned'
    BY <1>b, <2>1, <2>2, <2>3, <2>4, <2>5, <2>6
  <2>12. PassOK' /\ PoolOK'
    BY <1>b, <2>1, <2>2, <2>3, <2>4, <2>5, <2>6, <2>7, <2>9
  <2> QED
    BY <1>0, <2>10, <2>11, <2>12
<1> QED
  BY <1>1, <1>2, <1>3, <1>4 DEF WorkerStep, WorkerTest, WorkerBlock, WorkerSignal, WorkerWakesSpuriously

\* Every step of the system hands a connection on to one owner.
LEMMA NextOwnership == OwnershipInv /\ [Next]_vars /\ Undisturbed => OwnershipInv'
<1> SUFFICES ASSUME OwnershipInv, [Next]_vars, Undisturbed PROVE OwnershipInv'
  OBVIOUS
<1>1. CASE Client \/ UNCHANGED vars
  <2>1. UNCHANGED <<starts, mainVars, connVars, wconn, workQueue, workerExit>>
    BY <1>1 DEF Client, ClientConnect, ClientSend, vars, appVars, poolVars
  <2> QED
    BY <1>1, <2>1, ClientPool, PoolUnchanged
    DEF OwnershipInv, OneOwner, PoolHasLive, InactiveIsOwned, PassOK, PoolOK, mainVars, connVars
<1> QED
  BY <1>1, AppOwnership, MainOwnership, WorkerOwnership DEF Next

\* The ownership invariant holds of every undisturbed run.
LEMMA OwnershipHolds == Undisturbed /\ Spec => []OwnershipInv
<1>1. ASSUME Undisturbed PROVE Spec => []OwnershipInv
  <2>1. OwnershipInv /\ [Next]_vars => OwnershipInv'
    BY <1>1, NextOwnership
  <2> QED
    BY InitOwnership, <2>1, PTL DEF Spec
<1> QED
  BY <1>1

\* A connection has one owner: it is queued once or held by one worker, and the
\* server thread neither watches it nor reads it.
THEOREM SingleOwner == Undisturbed /\ Spec => []OneOwner
<1>1. OwnershipInv => OneOwner
  BY DEF OwnershipInv
<1> QED
  BY OwnershipHolds, <1>1, PTL

\* The server thread deletes no connection that the pool has.
THEOREM PoolIsLive == Undisturbed /\ Spec => []PoolHasLive
<1>1. OwnershipInv => PoolHasLive
  BY DEF OwnershipInv
<1> QED
  BY OwnershipHolds, <1>1, PTL

\* No connection is forgotten by both sides.
THEOREM NoneForgotten == Undisturbed /\ Spec => []InactiveIsOwned
<1>1. OwnershipInv => InactiveIsOwned
  BY DEF OwnershipInv
<1> QED
  BY OwnershipHolds, <1>1, PTL
------------------------------------------------------------------------------
(* The server implements ConnectionHandoff.                                *)

OwnerMap == [c \in Conn |-> Owner(c)]

\* Each owner read off the server's state, CHOOSE included: one worker at most
\* holds a connection.
OwnerOK ==
    \A c \in Conn :
        /\ Owner(c) \in Worker \cup {"nobody", "server", "queue"}
        /\ Owner(c) = "nobody" <=> c \notin connections
        /\ \A w \in Worker : Owner(c) = w <=> wconn[w] = c
        /\ Owner(c) = "queue" <=> c \in connections \cap Queued

\* The refinement mapping, case by case.
LEMMA OwnerIs == OwnershipInv => OwnerOK
<1> SUFFICES ASSUME OwnershipInv, NEW c \in Conn
             PROVE  /\ Owner(c) \in Worker \cup {"nobody", "server", "queue"}
                    /\ Owner(c) = "nobody" <=> c \notin connections
                    /\ \A w \in Worker : Owner(c) = w <=> wconn[w] = c
                    /\ Owner(c) = "queue" <=> c \in connections \cap Queued
  BY DEF OwnerOK
<1> USE ServerTPAssumption
<1>1. c # None
  OBVIOUS
<1>2. OneOwner /\ Held \subseteq connections
  BY DEF OwnershipInv, PoolHasLive
<1>3. CASE c \in Held
  <2>1. PICK w \in Worker : wconn[w] = c
    BY <1>3 DEF Held
  <2>2. \A v \in Worker : wconn[v] = c => v = w
    BY <1>1, <1>2, <2>1 DEF OneOwner
  <2>3. c \in connections /\ c \notin Queued
    BY <1>2, <1>3 DEF OneOwner
  <2>4. Owner(c) = w
    BY <1>3, <2>1, <2>2, <2>3 DEF Owner
  <2> QED
    BY <2>1, <2>2, <2>3, <2>4
<1>4. CASE c \notin Held
  <2>1. \A w \in Worker : wconn[w] # c
    BY <1>1, <1>4 DEF Held
  <2> QED
    BY <1>4, <2>1 DEF Owner
<1> QED
  BY <1>3, <1>4

\* The same after a step.
LEMMA OwnerIsNext == OwnershipInv' => OwnerOK'
BY OwnerIs, PTL

\* A connection whose place is the same before and after a step has the same owner.
LEMMA SameOwner ==
    ASSUME OwnerOK, OwnerOK', NEW c \in Conn,
           c \in connections <=> c \in connections',
           \A w \in Worker : wconn[w] = c <=> wconn'[w] = c,
           c \in connections \cap Queued <=> c \in connections' \cap Queued'
    PROVE  Owner(c)' = Owner(c)
BY DEF OwnerOK

\* A step that leaves connections_, the queue and what workers hold alone.
LEMMA SameOwners ==
    ASSUME UNCHANGED <<connections, wconn, workQueue>>
    PROVE  UNCHANGED OwnerMap
BY DEF OwnerMap, Owner, Held, Queued

\* One connection changes hands and the others stay where they are.
LEMMA Passed ==
    ASSUME NEW c \in Conn, \A d \in Conn \ {c} : Owner(d)' = Owner(d)
    PROVE  OwnerMap' = [OwnerMap EXCEPT ![c] = Owner(c)']
BY DEF OwnerMap

\* Each step of the server is a step of ConnectionHandoff or leaves every owner
\* alone.
LEMMA StepHandsOff ==
    OwnershipInv /\ OwnershipInv' /\ [Next]_vars /\ Undisturbed => [Handoff!Next]_OwnerMap
<1> SUFFICES ASSUME OwnershipInv, OwnershipInv', [Next]_vars, Undisturbed
             PROVE  Handoff!Next \/ UNCHANGED OwnerMap
  OBVIOUS
<1> USE ServerTPAssumption DEF appVars, mainVars, connVars, poolVars, envVars
<1>a. OwnerOK /\ OwnerOK'
  BY OwnerIs, OwnerIsNext
<1>b. TypeOK /\ ThreadsOK /\ OneOwner /\ PoolHasLive /\ PassOK /\ PoolOK
  BY DEF OwnershipInv, PoolInv
<1>c. \A c \in Conn : Handoff!Create(c) \/ Handoff!Delete(c) \/ Handoff!HandOver(c) => Handoff!Next
  BY DEF Handoff!Next
<1>d. \A c \in Conn, w \in Worker : Handoff!Take(c, w) \/ Handoff!Return(c, w) => Handoff!Next
  BY DEF Handoff!Next
<1>1. CASE UNCHANGED <<connections, wconn, workQueue>>
  BY <1>1, SameOwners
<1>2. CASE ServerEvents /\ ~UNCHANGED connections
  <2>1. PICK c \in Conn \ connections : connections' = connections \cup {c}
    BY <1>2 DEF ServerEvents, AcceptConnection, Evictable, Undisturbed
  <2>2. UNCHANGED <<wconn, workQueue>> /\ mpc = "events"
    BY <1>2 DEF ServerEvents
  <2>3. Held' = Held /\ Queued' = Queued
    BY <2>2, PoolUnchanged
  <2>4. \A d \in Conn \ {c} : Owner(d)' = Owner(d)
    BY <1>a, <2>1, <2>2, <2>3, SameOwner
  <2>5. Owner(c) = "nobody" /\ Owner(c)' = "server"
    <3>1. c \notin Queued \cup Held
      BY <1>b, <2>1, <2>2 DEF PoolHasLive, PoolOK
    <3>2. \A w \in Worker : wconn'[w] # c
      BY <2>2, <3>1 DEF Held
    <3> QED
      BY <1>a, <2>1, <2>3, <3>1, <3>2 DEF OwnerOK
  <2>6. Handoff!Create(c)
    BY <2>4, <2>5, Passed DEF Handoff!Create, Handoff!Pass, OwnerMap
  <2> QED
    BY <1>c, <2>6
<1>3. CASE PushWork
  <2>1. /\ mpc = "push" /\ workQueue' = Append(workQueue, cur)
        /\ UNCHANGED <<connections, wconn>>
    BY <1>3 DEF PushWork
  <2>2. PICK c \in Conn : c = cur /\ c \in connections /\ c \notin Queued \cup Held
    BY <1>b, <2>1 DEF ThreadsOK, PassOK, PoolOK
  <2>3. Queued' = Queued \cup {c}
    BY <1>b, <2>1, <2>2, AppendToList DEF TypeOK, Queued
  <2>4. \A d \in Conn \ {c} : Owner(d)' = Owner(d)
    BY <1>a, <2>1, <2>2, <2>3, SameOwner
  <2>5. Owner(c) = "server" /\ Owner(c)' = "queue"
    <3>1. \A w \in Worker : wconn[w] # c
      BY <2>2 DEF Held
    <3> QED
      BY <1>a, <2>1, <2>2, <2>3, <3>1 DEF OwnerOK
  <2>6. Handoff!HandOver(c)
    BY <2>2, <2>4, <2>5, Passed DEF Handoff!HandOver, Handoff!Pass, OwnerMap
  <2> QED
    BY <1>c, <2>2, <2>6
<1>4. CASE CloseOrKeep /\ ~UNCHANGED connections
  <2>1. /\ mpc = "check" /\ cs[cur] = "CLOSE" /\ connections' = connections \ {cur}
        /\ UNCHANGED <<wconn, workQueue>>
    BY <1>4 DEF CloseOrKeep, CheckClose
  <2>2. PICK c \in Conn : c = cur /\ c \in connections /\ c \notin Queued \cup Held
    BY <1>b, <2>1 DEF ThreadsOK, PassOK, PoolOK
  <2>3. Queued' = Queued
    BY <2>1, PoolUnchanged
  <2>4. \A d \in Conn \ {c} : Owner(d)' = Owner(d)
    BY <1>a, <2>1, <2>2, <2>3, SameOwner
  <2>5. Owner(c) = "server" /\ Owner(c)' = "nobody"
    <3>1. \A w \in Worker : wconn[w] # c
      BY <2>2 DEF Held
    <3> QED
      BY <1>a, <2>1, <2>2, <2>3, <3>1 DEF OwnerOK
  <2>6. Handoff!Delete(c)
    BY <2>2, <2>4, <2>5, Passed DEF Handoff!Delete, Handoff!Pass, OwnerMap
  <2> QED
    BY <1>c, <2>2, <2>6
<1>5. CASE Shutdown
  <2>1. /\ mpc = "shutdown" /\ connections' = {}
    BY <1>5 DEF Shutdown
  <2>2. \A c \in Conn : Owner(c) \notin Worker
    BY <1>a, <1>b, <2>1 DEF ThreadsOK, OwnerOK
  <2>3. \A c \in Conn : Owner(c)' = "nobody"
    BY <1>a, <2>1 DEF OwnerOK
  <2>4. Handoff!Shutdown
    BY <2>2, <2>3 DEF Handoff!Shutdown, OwnerMap
  <2> QED
    BY <2>4 DEF Handoff!Next
<1>6. ASSUME NEW w \in Worker, WorkerTest(w), ~UNCHANGED workQueue
      PROVE  Handoff!Next
  <2>1. /\ wpc[w] = "top" /\ workQueue # <<>> /\ ~workerExit
        /\ wconn' = [wconn EXCEPT ![w] = Head(workQueue)]
        /\ workQueue' = Tail(workQueue)
        /\ UNCHANGED connections
    BY <1>6 DEF WorkerTest
  <2>2. PICK c \in Conn :
            c = Head(workQueue) /\ Queued = Queued' \cup {c} /\ c \notin Queued'
    BY <1>b, <2>1, TakeFromList DEF TypeOK, Queued, OneOwner
  <2>3. wconn[w] = None /\ c \in connections
    BY <1>b, <2>1, <2>2 DEF ThreadsOK, PoolHasLive
  <2>4. wconn'[w] = c /\ \A v \in Worker \ {w} : wconn'[v] = wconn[v]
    BY <1>b, <2>1, <2>2 DEF TypeOK
  <2>5. \A d \in Conn \ {c} : Owner(d)' = Owner(d)
    BY <1>a, <2>1, <2>2, <2>3, <2>4, SameOwner
  <2>6. Owner(c) = "queue" /\ Owner(c)' = w /\ \A d \in Conn : Owner(d) # w
    BY <1>a, <2>2, <2>3, <2>4 DEF OwnerOK
  <2>7. Handoff!Take(c, w)
    BY <2>2, <2>5, <2>6, Passed DEF Handoff!Take, Handoff!Pass, OwnerMap
  <2> QED
    BY <1>d, <2>2, <2>7
<1>7. ASSUME NEW w \in Worker, WorkerReturn(w) PROVE Handoff!Next
  <2>1. /\ wpc[w] = "done" /\ wconn' = [wconn EXCEPT ![w] = None]
        /\ UNCHANGED <<connections, workQueue>>
    BY <1>7 DEF WorkerReturn
  <2>2. PICK c \in Conn : c = wconn[w] /\ c \notin Queued /\ c \in connections
    BY <1>b, <2>1 DEF ThreadsOK, TypeOK, Held, OneOwner, PoolHasLive
  <2>3. Queued' = Queued
    BY <2>1, PoolUnchanged
  <2>4. wconn'[w] = None /\ \A v \in Worker \ {w} : wconn'[v] = wconn[v] /\ wconn[v] # c
    BY <1>b, <2>1, <2>2 DEF TypeOK, OneOwner
  <2>5. \A d \in Conn \ {c} : Owner(d)' = Owner(d)
    BY <1>a, <2>1, <2>2, <2>3, <2>4, SameOwner
  <2>6. Owner(c) = w /\ Owner(c)' = "server"
    BY <1>a, <2>1, <2>2, <2>3, <2>4 DEF OwnerOK
  <2>7. Handoff!Return(c, w)
    BY <2>2, <2>5, <2>6, Passed DEF Handoff!Return, Handoff!Pass, OwnerMap
  <2> QED
    BY <1>d, <2>2, <2>7
<1>8. CASE App \/ Client \/ UNCHANGED vars
  BY <1>1, <1>8 DEF App, StartThread, StopThread, ThreadJoined, Exit,
                    Client, ClientConnect, ClientSend, vars
<1>9. CASE Main
  BY <1>1, <1>2, <1>3, <1>4, <1>5, <1>9
  DEF Main, StartWorkers, LoopTest, BuildSets, Select, SelectFails, ServerEvents,
      VisitConnection, CloseOrKeep, PassEnds, SetWorkerExit, NotifyAll, JoinWorkers
<1>10. ASSUME NEW w \in Worker, WorkerStep(w) \/ WorkerWakesSpuriously(w)
       PROVE  Handoff!Next \/ UNCHANGED OwnerMap
  BY <1>1, <1>6, <1>7, <1>10
  DEF WorkerStep, WorkerTest, WorkerBlock, WorkerProcess, WorkerSignal, WorkerWakesSpuriously
<1> QED
  BY <1>8, <1>9, <1>10 DEF Next

\* The flags, the queue and the locks implement single ownership.
THEOREM HandoffRefined == Undisturbed /\ Spec => ImplementsHandoff
<1>1. ASSUME Undisturbed PROVE Spec => ImplementsHandoff
  <2>1. Init => Handoff!Init
    BY DEF Init, Handoff!Init, Owner
  <2>2. OwnershipInv /\ OwnershipInv' /\ [Next]_vars => [Handoff!Next]_OwnerMap
    BY <1>1, StepHandsOff
  <2>3. Spec => []OwnershipInv
    BY <1>1, OwnershipHolds
  <2> QED
    BY <2>1, <2>2, <2>3, PTL DEF Spec, ImplementsHandoff, Handoff!Spec, OwnerMap
<1> QED
  BY <1>1
==============================================================================

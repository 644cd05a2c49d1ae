--------------------------- MODULE ServerMTProofs ----------------------------
(***************************************************************************)
(* Proofs about ServerMT, for any limit, any number of clients and any     *)
(* number of requests.                                                     *)
(*                                                                         *)
(* The invariant is ListInv.  ThreadsAreListed alone is not inductive: an  *)
(* accepted connection is pushed on the list and given a thread only steps *)
(* after the accept, so ArrivalsOK says that it is new until then; and the *)
(* connection that is being evicted or shut down is found again, after the *)
(* wait for its thread, at the place where it was, which PlacesOK says.    *)
(***************************************************************************)
EXTENDS ServerMT, ListLemmas, TLAPS

ThreadPC == {"none", "test", "select", "process", "exit", "done"}

\* The state that the list depends on: the Connection objects that exist are
\* those listed, each once.
ListOK ==
    /\ connections \in Seq(Conn) /\ IsInjective(connections)
    /\ allocated = ToSet(connections)
    /\ Len(connections) <= MaxConnections
    /\ thread \in [Conn -> ThreadPC]
    /\ target \in {0} \cup Conn
    /\ main \in {"off", "test", "select", "reap", "wait", "join", "decide", "shutdown",
                 "shutdownJoin", "over"}
    /\ connects \in 0 .. MaxAccepts /\ backlog \in 0 .. connects

Listed(c) == c \in ToSet(connections)

\* Clients are accepted in the order in which they connect: one that has not been
\* accepted has no thread and no Connection, nor has the one that
\* AcceptConnection is at work for.
ArrivalsOK ==
    /\ \A c \in Conn : c > connects - backlog => thread[c] = "none" /\ ~Listed(c)
    /\ main \in {"reap", "wait", "join", "decide"} =>
          /\ connects - backlog \in Conn
          /\ thread[connects - backlog] = "none" /\ ~Listed(connects - backlog)

\* The iterators: the one of AcceptConnection's loop, the one that is kept
\* while the connection to evict ends, and the one of Shutdown.
PlacesOK ==
    /\ at \in Nat \ {0}
    /\ main \in {"wait", "join"} => Listed(target)
    /\ main = "shutdownJoin" => connections # <<>>
    /\ main = "over" => connections = <<>>

ThreadsOK == \A c \in Conn : thread[c] \notin {"none", "done"} => Listed(c)

ListInv == ListOK /\ ArrivalsOK /\ PlacesOK /\ ThreadsOK
------------------------------------------------------------------------------
\* Deleting a listed connection: its thread has ended, it and no other leaves
\* the list, and nobody else's Connection object is freed.
LEMMA DeleteListed ==
    ASSUME ListOK, NEW i \in 1 .. Len(connections), Delete(i)
    PROVE  /\ connections' \in Seq(Conn) /\ IsInjective(connections')
           /\ Len(connections') = Len(connections) - 1
           /\ ToSet(connections') = ToSet(connections) \ {connections[i]}
           /\ allocated' = ToSet(connections')
           /\ connections[i] \in Conn /\ thread[connections[i]] = "done"
<1>1. connections' = RemoveAt(connections, i) /\ allocated' = allocated \ {connections[i]}
      /\ thread[connections[i]] = "done"
  BY DEF Delete, Joined
<1> QED
  BY <1>1, RemoveAtElements, RemoveFromList, ElementOfSeq DEF ListOK

\* A deletion keeps the invariant, at whatever place of the code it happens.
LEMMA DeleteKeeps ==
    ASSUME ListInv, NEW i \in 1 .. Len(connections), Delete(i),
           UNCHANGED <<thread, connects, backlog>>,
           target' \in {0, target}, at' = at,
           \/ main' = main /\ main \notin {"wait", "join", "shutdownJoin", "over"}
           \/ main = "join" /\ main' = "decide"
           \/ main = "shutdownJoin" /\ main' = "shutdown"
    PROVE  ListInv'
<1> USE ServerMTAssumption
<1>1. /\ connections' \in Seq(Conn) /\ IsInjective(connections')
      /\ Len(connections') = Len(connections) - 1
      /\ ToSet(connections') = ToSet(connections) \ {connections[i]}
      /\ allocated' = ToSet(connections')
      /\ connections[i] \in Conn /\ thread[connections[i]] = "done"
  BY DeleteListed DEF ListInv
<1>2. Len(connections) \in Nat
  BY LenProperties DEF ListInv, ListOK
<1>3. ListOK'
  BY <1>1, <1>2 DEF ListInv, ListOK
<1>4. ArrivalsOK'
  BY <1>1 DEF ListInv, ArrivalsOK, Listed
<1>5. PlacesOK'
  BY <1>1 DEF ListInv, PlacesOK, Listed
<1>6. ThreadsOK'
  BY <1>1 DEF ListInv, ThreadsOK, Listed
<1> QED
  BY <1>3, <1>4, <1>5, <1>6 DEF ListInv

\* The server starts without connections.
LEMMA InitList == Init => ListInv
<1> SUFFICES ASSUME Init PROVE ListInv
  OBVIOUS
<1>1. connections = <<>> /\ ToSet(connections) = {} /\ IsInjective(connections)
  BY DEF Init, ToSet, IsInjective
<1> QED
  BY <1>1, ServerMTAssumption
  DEF Init, ListInv, ListOK, ArrivalsOK, PlacesOK, ThreadsOK, Listed, ThreadPC, Conn

\* The steps of the server's thread.
LEMMA MainList == ListInv /\ Main => ListInv'
<1> SUFFICES ASSUME ListInv, Main PROVE ListInv'
  OBVIOUS
<1> USE ServerMTAssumption DEF connVars, clientVars
<1>0. Len(connections) \in Nat /\ ToSet(connections) \subseteq Conn
  BY LenProperties, ListInType DEF ListInv, ListOK
<1> DEFINE All == ListOK' /\ ArrivalsOK' /\ PlacesOK' /\ ThreadsOK'
<1>1. CASE LoopTest \/ SelectEnds
  BY <1>1 DEF LoopTest, SelectEnds, ListInv, ListOK, ArrivalsOK, PlacesOK, ThreadsOK, Listed
<1>2. CASE Accept
  <2>1. /\ backlog > 0 /\ backlog' = backlog - 1 /\ main' = "reap" /\ at' = 1
        /\ UNCHANGED <<connections, target, allocated, thread, connects>>
    BY <1>2 DEF Accept
  <2>2. ListOK' /\ PlacesOK' /\ ThreadsOK'
    BY <2>1 DEF ListInv, ListOK, PlacesOK, ThreadsOK, Listed
  <2>3. ArrivalsOK'
    <3>1. connects' - backlog' = connects - backlog + 1 /\ connects - backlog + 1 \in Conn
      BY <2>1 DEF ListInv, ListOK, Conn
    <3>2. \A c \in Conn : c > connects - backlog + 1 => c > connects - backlog
      BY DEF ListInv, ListOK, Conn
    <3>3. connects - backlog + 1 > connects - backlog
      BY DEF ListInv, ListOK
    <3> QED
      BY <2>1, <3>1, <3>2, <3>3 DEF ListInv, ArrivalsOK, Listed
  <2> QED
    BY <2>2, <2>3 DEF ListInv
<1>3. CASE Reap
  <2>1. CASE Delete(at)
    <3>1. at \in 1 .. Len(connections)
      BY <1>0, <1>3 DEF Reap, ListInv, PlacesOK
    <3>2. /\ UNCHANGED <<thread, connects, backlog, target, main>> /\ main = "reap"
      BY <1>3 DEF Reap
    <3>3. CASE at' = at
      BY <2>1, <3>1, <3>2, <3>3, DeleteKeeps
    <3>4. CASE at' = at + 1 /\ UNCHANGED <<connections, allocated>>
      BY <3>2, <3>4 DEF ListInv, ListOK, ArrivalsOK, PlacesOK, ThreadsOK, Listed
    <3> QED
      BY <1>3, <3>3, <3>4 DEF Reap
  <2>2. CASE ~Delete(at)
    BY <1>3, <2>2 DEF Reap, ListInv, ListOK, ArrivalsOK, PlacesOK, ThreadsOK, Listed
  <2> QED
    BY <2>1, <2>2
<1>4. CASE Evict
  <2>1. /\ main = "reap" /\ at' = 1
        /\ UNCHANGED <<connections, allocated, thread, connects, backlog>>
        /\ \/ main' = "decide" /\ target' = target
           \/ main' = "wait" /\ target' \in ToSet(connections)
    BY <1>4 DEF Evict
  <2> QED
    BY <1>0, <2>1 DEF ListInv, ListOK, ArrivalsOK, PlacesOK, ThreadsOK, Listed
<1>5. CASE WaitForThread
  BY <1>5 DEF WaitForThread, ListInv, ListOK, ArrivalsOK, PlacesOK, ThreadsOK, Listed
<1>6. CASE JoinEvicted
  <2> DEFINE i == SelectInSeq(connections, LAMBDA c : c = target)
  <2>1. /\ main = "join" /\ main' = "decide" /\ target' = 0 /\ Delete(i)
        /\ UNCHANGED <<at, thread, connects, backlog>>
    BY <1>6 DEF JoinEvicted
  <2>2. i \in 1 .. Len(connections)
    BY <2>1, PlaceInList DEF ListInv, ListOK, PlacesOK, Listed
  <2> HIDE DEF i
  <2> QED
    BY <2>1, <2>2, DeleteKeeps
<1>7. CASE Decide
  <2> DEFINE new == connects - backlog
  <2>1. /\ main = "decide" /\ main' \in {"test", "select"}
        /\ UNCHANGED <<at, target, connects, backlog>>
    BY <1>7 DEF Decide
  <2>2. new \in Conn /\ thread[new] = "none" /\ ~Listed(new)
    BY <2>1 DEF ListInv, ArrivalsOK
  <2>3. CASE UNCHANGED <<connections, allocated, thread>>
    BY <2>1, <2>3 DEF ListInv, ListOK, ArrivalsOK, PlacesOK, ThreadsOK, Listed
  <2>4. CASE ~AtLimit /\ connections' = Append(connections, new)
             /\ allocated' = allocated \cup {new} /\ thread' = [thread EXCEPT ![new] = "test"]
    <3> HIDE DEF new
    <3>1. /\ connections' \in Seq(Conn) /\ Len(connections') = Len(connections) + 1
          /\ ToSet(connections') = ToSet(connections) \cup {new}
          /\ IsInjective(connections')
      BY <2>2, <2>4, AppendProperties, AppendToList DEF ListInv, ListOK, Listed
    <3>2. /\ thread' \in [Conn -> ThreadPC]
          /\ \A c \in Conn \ {new} : thread'[c] = thread[c]
      BY <2>2, <2>4 DEF ListInv, ListOK, ThreadPC
    <3>3. ListOK'
      BY <1>0, <2>1, <2>4, <3>1, <3>2 DEF ListInv, ListOK, AtLimit
    <3>4. ArrivalsOK'
      <4>1. \A c \in Conn : c > connects - backlog => c # new
        BY DEF new, ListInv, ListOK
      <4> QED
        BY <2>1, <3>1, <3>2, <4>1 DEF ListInv, ArrivalsOK, Listed
    <3>5. PlacesOK' /\ ThreadsOK'
      BY <2>1, <2>2, <3>1, <3>2 DEF ListInv, PlacesOK, ThreadsOK, Listed
    <3> QED
      BY <3>3, <3>4, <3>5 DEF ListInv
  <2> QED
    BY <1>7, <2>3, <2>4 DEF Decide, Push
<1>8. CASE ShutdownStop
  BY <1>8 DEF ShutdownStop, ListInv, ListOK, ArrivalsOK, PlacesOK, ThreadsOK, Listed
<1>9. CASE ShutdownJoin
  <2>1. /\ main = "shutdownJoin" /\ main' = "shutdown" /\ Delete(1)
        /\ UNCHANGED <<at, target, thread, connects, backlog>>
    BY <1>9 DEF ShutdownJoin
  <2>2. 1 \in 1 .. Len(connections)
    BY <1>0, <2>1, EmptySeq DEF ListInv, ListOK, PlacesOK
  <2> QED
    BY <2>1, <2>2, DeleteKeeps
<1>10. CASE ShutdownEnds
  BY <1>10 DEF ShutdownEnds, ListInv, ListOK, ArrivalsOK, PlacesOK, ThreadsOK, Listed
<1> QED
  BY <1>1, <1>2, <1>3, <1>4, <1>5, <1>6, <1>7, <1>8, <1>9, <1>10 DEF Main

\* The steps of the application, of the clients and of a connection's thread, which
\* moves only while the thread has not ended.
LEMMA OthersList ==
    ASSUME ListInv,
           \/ StartThread \/ StopThread \/ ThreadJoined \/ ClientConnect \/ UNCHANGED vars
           \/ \E c \in Conn : Thread(c) \/ Exit(c) \/ ClientSend(c)
    PROVE  ListInv'
<1> USE ServerMTAssumption DEF mainVars, connVars, clientVars
<1>1. CASE UNCHANGED <<connections, allocated, target, at, main, thread, connects, backlog>>
  BY <1>1 DEF ListInv, ListOK, ArrivalsOK, PlacesOK, ThreadsOK, Listed
<1>2. CASE StartThread
  BY <1>2 DEF StartThread, ListInv, ListOK, ArrivalsOK, PlacesOK, ThreadsOK, Listed
<1>3. CASE ClientConnect
  <2>1. connects' - backlog' = connects - backlog
    BY <1>3 DEF ClientConnect, ListInv, ListOK
  <2>2. ListOK'
    BY <1>3 DEF ClientConnect, ListInv, ListOK
  <2> QED
    BY <1>3, <2>1, <2>2 DEF ClientConnect, ListInv, ArrivalsOK, PlacesOK, ThreadsOK, Listed
<1>4. ASSUME NEW c \in Conn, Thread(c) PROVE ListInv'
  <2>1. /\ thread[c] \notin {"none", "done"}
        /\ \E pc \in ThreadPC \ {"none"} : thread' = [thread EXCEPT ![c] = pc]
        /\ UNCHANGED <<connections, allocated, target, at, main, connects, backlog>>
    BY <1>4 DEF Thread, ThreadTest, ThreadSelect, Process, ThreadExit, ThreadPC
  <2>2. /\ thread' \in [Conn -> ThreadPC]
        /\ \A d \in Conn \ {c} : thread'[d] = thread[d]
    BY <2>1 DEF ListInv, ListOK
  <2>3. Listed(c)
    BY <2>1 DEF ListInv, ThreadsOK
  <2>4. ListOK'
    BY <2>1, <2>2 DEF ListInv, ListOK
  <2>5. ArrivalsOK'
    BY <2>1, <2>2, <2>3 DEF ListInv, ArrivalsOK, Listed
  <2>6. PlacesOK' /\ ThreadsOK'
    BY <2>1, <2>2, <2>3 DEF ListInv, PlacesOK, ThreadsOK, Listed
  <2> QED
    BY <2>4, <2>5, <2>6 DEF ListInv
<1> QED
  BY <1>1, <1>2, <1>3, <1>4 DEF StopThread, ThreadJoined, Exit, ClientSend, vars

\* Every step keeps threads, objects and the list in agreement.
LEMMA NextList == ListInv /\ [Next]_vars => ListInv'
BY MainList, OthersList DEF Next

\* The list invariant holds of every run.
LEMMA ListHolds == Spec => []ListInv
BY InitList, NextList, PTL DEF Spec

\* Each thread that may still run belongs to a Connection that exists and is in
\* connections_; the list has no duplicates and keeps to maxConnections_.
THEOREM ListedThreads == Spec => []ThreadsAreListed
<1>1. ListInv => ThreadsAreListed
  BY ListInType
  DEF ListInv, ListOK, ThreadsOK, Listed, ThreadPC, ThreadsAreListed, TypeOK
<1> QED
  BY <1>1, ListHolds, PTL

\* A server that is over has neither a thread nor a Connection left.
THEOREM ShutdownIsComplete == Spec => []StoppedIsOver
<1>1. ListInv => StoppedIsOver
  <2> SUFFICES ASSUME ListInv, main = "over"
               PROVE  \A c \in Conn : thread[c] \in {"none", "done"} /\ c \notin allocated
    BY DEF StoppedIsOver
  <2>1. ToSet(connections) = {}
    BY DEF ListInv, PlacesOK, ToSet
  <2> QED
    BY <2>1 DEF ListInv, ListOK, ThreadsOK, Listed
<1> QED
  BY <1>1, ListHolds, PTL
==============================================================================

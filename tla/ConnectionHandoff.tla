-------------------------- MODULE ConnectionHandoff --------------------------
(***************************************************************************)
(* What the thread-pool server promises about a connection, without the    *)
(* flags, the queue and the locks: it has one owner at a time.  The server *)
(* thread creates it, may delete it while it is its own, and hands it to   *)
(* the pool; one worker takes it from the pool and gives it back.  Only    *)
(* when no worker has a connection does the server delete them all.        *)
(***************************************************************************)
CONSTANTS Conn, Worker,
          Nobody,       \* the owner of memory that is no connection
          ServerThread,
          Queue

VARIABLE owner

Init == owner = [c \in Conn |-> Nobody]

Pass(c, from, to) ==
    /\ owner[c] = from
    /\ owner' = [owner EXCEPT ![c] = to]

Create(c) == Pass(c, Nobody, ServerThread)
Delete(c) == Pass(c, ServerThread, Nobody)
HandOver(c) == Pass(c, ServerThread, Queue)
Return(c, w) == Pass(c, w, ServerThread)

Take(c, w) ==
    /\ \A d \in Conn : owner[d] # w
    /\ Pass(c, Queue, w)

\* An old connection makes room for a new one.
Replace(old, c) ==
    /\ owner[old] = ServerThread /\ owner[c] = Nobody
    /\ owner' = [owner EXCEPT ![old] = Nobody, ![c] = ServerThread]

Shutdown ==
    /\ \A c \in Conn : owner[c] \notin Worker
    /\ owner' = [c \in Conn |-> Nobody]

Next ==
    \/ \E c \in Conn : Create(c) \/ Delete(c) \/ HandOver(c)
    \/ \E c \in Conn, w \in Worker : Take(c, w) \/ Return(c, w)
    \/ \E old, c \in Conn : Replace(old, c)
    \/ Shutdown

Spec == Init /\ [][Next]_owner
==============================================================================

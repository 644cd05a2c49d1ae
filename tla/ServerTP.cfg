\* The hand-over protocol: two workers on two connections; connections close
\* in the server thread only.
SPECIFICATION Spec
CONSTANTS
    Conn = {c1, c2}
    Worker = {w1, w2}
    MaxConnections = 2
    ForcedDisconnect = FALSE
    WorkerCloses = FALSE
    MaxStarts = 1
    None = None
SYMMETRY Symmetry
INVARIANTS OneOwner PoolHasLive InactiveIsOwned WorkWakesWorker
PROPERTY ImplementsHandoff

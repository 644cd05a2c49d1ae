\* Every behaviour of clients and methods: what holds of the pool even when
\* connections are deleted under it.
SPECIFICATION FairSpec
CONSTANTS
    Conn = {c1, c2}
    Worker = {w1}
    MaxConnections = 1
    ForcedDisconnect = TRUE
    WorkerCloses = TRUE
    MaxStarts = 1
    None = None
INVARIANT TypeOK
PROPERTIES PoolReturns InputIsRead

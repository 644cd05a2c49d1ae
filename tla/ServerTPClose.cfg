\* Responses may close their connection.
SPECIFICATION Spec
CONSTANTS
    Conn = {c1, c2}
    Worker = {w1, w2}
    MaxConnections = 2
    ForcedDisconnect = FALSE
    WorkerCloses = TRUE
    MaxStarts = 1
    None = None
INVARIANT PoolHasLive

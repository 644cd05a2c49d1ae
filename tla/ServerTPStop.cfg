\* StopThread returns.
SPECIFICATION FairSpec
CONSTANTS
    Conn = {c1}
    Worker = {w1, w2}
    MaxConnections = 1
    ForcedDisconnect = FALSE
    WorkerCloses = FALSE
    MaxStarts = 1
    None = None
PROPERTY StopThreadReturns

\* Two connections at a time, three clients.
SPECIFICATION FairSpec
CONSTANTS
    MaxConnections = 2
    MaxAccepts = 3
    MaxRequests = 1
    ForcedDisconnect = TRUE
INVARIANTS ThreadsAreListed StoppedIsOver
PROPERTIES StopReturns ConnectIsDecided
\* A server that is stopped, or was never started, does nothing more.
CHECK_DEADLOCK FALSE

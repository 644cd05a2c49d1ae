\* Up to two requests on a connection, in every format and over both transports.
CONSTANTS
    StaticBufferSize = 8
    MaxBufferSize = 16
    FileBufferSize = 16
    Formats = {"json", "xml", "mpack"}
    Transports = {TRUE, FALSE}
    Params <- MCParams
    Raw <- MCRaw
    MaxRequests = 2
SPECIFICATION Spec
INVARIANTS OwnResult CallServed BatchAnswered HandlerReturns
CHECK_DEADLOCK FALSE

\* A client that sends two requests before it reads a response.
SPECIFICATION Spec
CONSTANTS
    MaxBufferLength = 9
    MaxContentLength = 12
    HandlerTypes = {"rpc"}
    Line <- MCLine
    Scenario <- MCSlow
PROPERTY SlowReaderKept
CHECK_DEADLOCK FALSE

\* Pipelined requests over TCP and HTTP in every way of cutting the stream.
SPECIFICATION Spec
CONSTANTS
    MaxBufferLength = 9
    MaxContentLength = 12
    HandlerTypes = {"rpc"}
    Line <- MCLine
    Scenario <- MCScenario
INVARIANTS TypeOK ExecutedInOrder UnexecutedIsKept ResponsesInOrder ClosedForCause AcceptedOnly RoomToReceive NothingLeftBehind
\* A client stops after its last request, and a closed connection for good.
CHECK_DEADLOCK FALSE

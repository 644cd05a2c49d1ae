\* Calls, posts and notifications against a server that answers, closes or is late.
SPECIFICATION FairSpec
CONSTANTS
    MaxBufferLength = 6
    MaxContentLength = 9
    Line <- MCLine
    FirstLine = 1
    CloseLine = 2
    EndLine = 3
    LengthLine <- MCLengthLine
    Scenario <- MCScenario
INVARIANTS OwnAnswer ExpectedSequence AtMostOnce
PROPERTIES FailsForCause CallReturns
\* The application stops after its last request.
CHECK_DEADLOCK FALSE

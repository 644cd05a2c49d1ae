\* Notifications while the results of posts are still to be collected.
SPECIFICATION Spec
CONSTANTS
    MaxBufferLength = 6
    MaxContentLength = 9
    Line <- MCLine
    FirstLine = 1
    CloseLine = 2
    EndLine = 3
    LengthLine <- MCLengthLine
    Scenario <- MCMixed
INVARIANT ExpectedSequence
CHECK_DEADLOCK FALSE

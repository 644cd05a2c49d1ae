\* Every value, format, option and stream; messages up to 90 units also cut at
\* every place.
CONSTANTS
    StaticBufferSize = 8
    MaxBufferSize = 16384
    FileBufferSize = 16
    Samples <- MCSamples
    Options <- MCOptions
    OutKinds = {"segmented", "file", "string"}
    InKinds = {"insitu", "copy", "file", "string"}
    CutKinds = {"insitu", "file"}
    CutLength = 90
    FileLength = 500
SPECIFICATION Spec
INVARIANTS RoundTrip WireIntact CutRefused NoOverrun
CHECK_DEADLOCK FALSE

SPECIFICATION Spec
CONSTANTS
    Path <- MCPath
    Bin <- MCBin
    Jobs <- MCJobs
    MaxCommands = 7
    PipeSize = 3
    ReadSize = 2
    BufSize = 3
    Pieces <- MCPieces
INVARIANT OutputInOrder
PROPERTY EndsAsExpected
CHECK_DEADLOCK FALSE

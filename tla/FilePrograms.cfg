SPECIFICATION Spec
CONSTANTS
    Pids = {1, 2}
    Init0 = 1
    MaxOpenFiles = 6
    NumFiles = 2
    FileSize = 3
    Pages = {1, 2, 3, 4, 5, 6}
    Programs = {"common_ops", "open_read_write", "dup2_lseek", "sendfile", "free"}
    FreeNames = {"f", "g", "stdin"}
    Texts <- MCTexts
    Offsets <- MCOffsets
    MaxCalls = 5
INVARIANTS TypeOK RefsCounted OffsetInFile
PROPERTIES OnlyWritersChange TestsPass
CHECK_DEADLOCK FALSE

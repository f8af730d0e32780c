SPECIFICATION Spec
CONSTANTS
    PageSize = 64
    HugeSize = 256
    MmapStart = 1024
    IntSpan = 16384
    Values = {"X"}
    Junk = "junk"
    DataSeg <- MCData
    RoSeg <- MCRo
    StackSeg <- MCStack
    Programs <- SoundPrograms
    FreeAddrs <- MCAddrs
    FreeLens <- MCLens
    FreeProts = {{"R"}, {"R", "W"}}
    FreeStores <- MCStores
    SegStores <- MCSegs
    MaxCalls = 4
    MmapPages <- MCPages
INVARIANTS TypeOK ListInOrder NoStrayPage TablesAgree StackWhole
PROPERTIES ImplementsAddressSpace TestsPass
CHECK_DEADLOCK FALSE

SPECIFICATION Spec
CONSTANTS
    PageSize = 64
    HugeSize = 256
    MmapStart = 1024
    IntSpan = 16384
    Values = {"X"}
    Junk = "junk"
    DataSeg <- MCData
    RoSeg <- MCRo
    StackSeg <- MCStack
    Programs <- HintTest
    FreeAddrs <- MCAddrs
    FreeLens <- MCLens
    FreeProts = {{"R"}, {"R", "W"}}
    FreeStores <- MCStores
    SegStores <- MCSegs
    MaxCalls = 4
    MmapPages <- MCPages
INVARIANT HintGoesElsewhere
CHECK_DEADLOCK FALSE

\* A chunk of no interest that is empty.
CONSTANTS
    Files <- MCFiles
    Headers <- MCHeaders
    None = None
    FairSubs = 3
    FoulSubs = 0
    Slacks = {0, 1, 8}
    StrayIds = {"data", "fmt "}
    StraySizes = {0, 1, 16, 65535}
    UInt16Count = 65536
    UInt32Count = 16777216
    MaxFrames = 3
SPECIFICATION Spec
INVARIANT OtherChunksAreIgnored

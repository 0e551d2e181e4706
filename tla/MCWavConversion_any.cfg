\* Well-formed and malformed files.
CONSTANTS
    Files <- MCFiles
    Headers <- MCHeaders
    None = None
    FairSubs = 4
    FoulSubs = 2
    Slacks = {0, 1, 8}
    StrayIds = {"data", "fmt "}
    StraySizes = {0, 1, 16, 65535}
    UInt16Count = 65536
    UInt32Count = 16777216
    MaxFrames = 3
SPECIFICATION FairSpec
INVARIANTS
    TypeOK
    ChunksAreSound
    WellFormedIsRead
    OuterListWins
    SupportedIsAccepted
    AcceptedIsDecodable
    SamplesComeFromTheirChunk
    AllFramesAreEncoded
PROPERTIES
    FormatReadFromItsChunk
    FileIsDone

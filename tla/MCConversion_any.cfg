\* With and without -o, inputs that compete for names only without it; a disk
\* that may be full.
CONSTANTS
    None = None
    Numbers <- TwoNumbers
    Passes <- MCPasses
    Slots = {w1, w2}
    Configurations <- Distinct
    JobCount = 4
    DiskMayFill = TRUE
SPECIFICATION FairSpec
INVARIANTS
    TypeOK
    OtherFilesAreKept
    OutputsAreExclusive
    LeftoversAreEmpty
    FailuresAreReported
    ReportedIsComplete
PROPERTIES
    ProgramReturns
    ImplementsOutputFiles

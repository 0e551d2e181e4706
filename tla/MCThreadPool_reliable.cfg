\* wait() returns only when it was notified.
CONSTANTS
    NumThreads = 3
    MaxJobs = 3
    SpuriousWakeups = FALSE
    Nil = Nil
SPECIFICATION FairSpec
INVARIANTS
    TypeOK
    ArgsReusedAfterCopy
    HandedToIdleWorker
    JobsAccountedFor
PROPERTIES
    PoolIsClosed
    ImplementsJobPool

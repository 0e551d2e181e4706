\* Any order of signals, failures and files.
CONSTANTS
    Main = Main
    w1 = w1
    w2 = w2
    handlerThread = handlerThread
    None = None
    Workers <- MCWorkers
    HandlerThreads <- OnWindows
    MaxEntries = 2
    PthreadMayFail = TRUE
    MaxSignals = 2
SPECIFICATION FairSpec
INVARIANTS
    TypeOK
    ExitCodeIsSeverest
    SeenIsReported
    OneLateFile
PROPERTY ProgramExits

\* A signal to a thread that holds a mutex.
CONSTANTS
    Main = Main
    w1 = w1
    w2 = w2
    handlerThread = handlerThread
    None = None
    Workers <- MCWorkers
    HandlerThreads <- OnPosix
    MaxEntries = 1
    PthreadMayFail = FALSE
    MaxSignals = 1
SPECIFICATION FairSpec
PROPERTY ProgramExits
\* The program may stop for good, which is what is shown.
CHECK_DEADLOCK FALSE

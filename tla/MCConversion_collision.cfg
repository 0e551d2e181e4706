\* With -o, x.wav and x.WAV have the same output.
CONSTANTS
    None = None
    Numbers <- TwoNumbers
    Passes <- MCPasses
    Slots = {w1, w2}
    Configurations <- Colliding
    JobCount = 2
    DiskMayFill = FALSE
SPECIFICATION Spec
INVARIANT ReportedIsComplete

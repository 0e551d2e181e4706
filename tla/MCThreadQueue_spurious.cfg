\* Two consumers on one queue and a condition variable that wakes spuriously.
CONSTANTS
    Producers = {p1, p2}
    Consumers = {c1, c2}
    ItemsPerProducer = 2
    SpuriousWakeups = TRUE
    Free = Free
    Garbage = Garbage
SPECIFICATION Spec
SYMMETRY Symmetry
INVARIANTS
    ExactlyOnceInOrder
    MutualExclusion

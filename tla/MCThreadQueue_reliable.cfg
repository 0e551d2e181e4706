\* The way ThreadPool uses a queue: many producers, one consumer.
CONSTANTS
    Producers = {p1, p2, p3}
    Consumers = {c1}
    ItemsPerProducer = 2
    SpuriousWakeups = FALSE
    Free = Free
    Garbage = Garbage
SPECIFICATION FairSpec
INVARIANTS
    TypeOK
    TakesOnlyFromNonEmpty
PROPERTY ImplementsFifo

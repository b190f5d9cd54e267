SPECIFICATION FairSpec
CONSTANTS
    Request = {r1}
    Clearer = {c1}
    Threads = 3
    MinEvents = 1
    MaxEvents = 2
    ChunkSize = 2
    MaxImsis = 4
    MaxFaults = 1
INVARIANTS
    EventsWrittenOnce
    ReturnedIsComplete
    DifferencesExplained
PROPERTIES
    EveryRequestIsAnswered

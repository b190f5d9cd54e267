SPECIFICATION Spec
CONSTANTS
    Request = {r1}
    Clearer = {c1}
    Threads = 2
    MinEvents = 1
    MaxEvents = 2
    ChunkSize = 2
    MaxImsis = 2
    MaxFaults = 0
INVARIANTS
    ModelsHoldTheSame

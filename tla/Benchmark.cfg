SPECIFICATION FairSpec
CONSTANTS
    Run = {r1}
    WriterThreads = 1
    MaxBatches = 2
    MaxFaults = 2
    MaxSamples = 101
INVARIANTS
    OneLateBatch
    CountsTheWindow
    PercentilesAreNearestRanks
PROPERTIES
    RunsAndWritersEnd
CHECK_DEADLOCK FALSE

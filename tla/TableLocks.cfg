SPECIFICATION FairSpec
CONSTANTS
    Writers = {w1, w2}
    Imsis = {1, 2}
    MaxCopies = 2
INVARIANTS
    OnlyClearsDeadlock
    LatestHasHistory
PROPERTIES
    WorkEnds

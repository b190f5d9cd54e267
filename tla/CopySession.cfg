SPECIFICATION Spec
CONSTANTS
    Connection = {k1, k2}
    c1 = c1
    c2 = c2
    c3 = c3
    c4 = c4
    Call <- MCCall
    Model <- MCModel
    Events <- MCEvents
    MaxFaults = 2
INVARIANTS
    EachCallInsertsItsChunk
PROPERTIES
    CopiesAreAtomic
CHECK_DEADLOCK FALSE

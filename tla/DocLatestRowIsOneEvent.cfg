SPECIFICATION Spec
CONSTANTS
    Writer = {w1}
    Clearer = {c1}
    Projector = drainer
    Nobody = nobody
    Imsi <- MCImsi
    Event <- MCEvent
    ImsiOf <- MCImsiOf
    UpdatedAt <- MCUpdatedAt
    BatchSize = 2
    MaxChunk = 2
    MaxFaults = 1
INVARIANTS
    LatestRowIsOneEvent

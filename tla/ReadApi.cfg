SPECIFICATION Spec
CONSTANTS
    Imsis = {1, 2}
    Times = {0, 1}
    t1 = t1
    t2 = t2
    Texts <- MCTexts
    Filters <- MCFilters
    Asked <- MCAsked
    Sizes = {1, 2}
    Width = 3
    MaxRows = 3
    MaxClears = 1
INVARIANTS
    WalkMissesNothing
    QuietWalkIsExact
    AnnouncedPagesHoldRows
    StatsInOrder

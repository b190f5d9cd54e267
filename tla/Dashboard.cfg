SPECIFICATION FairSpec
CONSTANTS
    NoFilters = NoFilters
    SomeFilters = SomeFilters
    Filters <- AllFilters
    Mounts = 2
    MaxPages = 2
    MaxClicks = 2
INVARIANTS
    TableAnswersControls
    StatsAnswerModel
PROPERTIES
    SpinnersEnd

SPECIFICATION PanelsFairSpec
CONSTANTS
    Imsis = {imsi1, imsi2}
    MaxBacklog = 1
    MaxPolls = 2
    MaxFailures = 1
    MaxClicks = 5
INVARIANTS
    HistoryIsOfItsTitle
PROPERTIES
    BacklogSettles
    PanelSpinnersEnd

SPECIFICATION MCSpec
CONSTANTS
    Int32Range = 64
    EventFields <- UeEventFields
    ScalarFields <- PageFields
    EventsNumber = 1
    Records <- SomeRecords
    MaxRecords = 2
    MaxEvents = 2
    Rows <- SomeRows
    Numbers <- SomeNumbers
    NewerRecords <- SomeNewer
    MaxRows = 2
    MaxCalls = 2
INVARIANTS
    MessagesAreTheirRecords
    UnknownsAreKept
    PagesSurviveCalls
    NoDefaultIsWritten
    VerifyMeansNamed
CHECK_DEADLOCK FALSE

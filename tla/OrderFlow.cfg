SPECIFICATION FairSpec
CONSTANTS
    None = None
    Draft = Draft
    d1 = d1
    d2 = d2
    Dishes <- MCDishes
    Numbers <- MCNumbers
    MaxVisits = 2
    MaxSetups = 2
    MaxOrders = 2
    MaxBlocks = 2
INVARIANTS
    TypeOK
    SelectionMirrored
    OrderCanBeFinished
    PlacedWasStarted
    OrderTakesLatestSetup
    HistoryComplete
    DiskMirrorsMemory
PROPERTIES
    HistoryIsLog
    FirstSelectAsksForSetup
    BackEndsOrder

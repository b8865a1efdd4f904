SPECIFICATION RecordsSpec
CONSTANTS
    l1 = l1
    l2 = l2
    e1 = e1
    e2 = e2
    Lens = {l1, l2}
    Executor = {e1, e2}
    MaxUpsets = 2
    Lookback = 1
    Year = 1
    Installed = 7
    MaxHalf = 10
    MaxActive = 1
    MaxSetbacks = 2
CHECK_DEADLOCK FALSE
INVARIANTS
    RowFollowsJob
    LedgerHasNoHole
PROPERTIES
    RunSettles
    HistoryReachesFloor

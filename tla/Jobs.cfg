SPECIFICATION JobsSpec
CONSTANTS
    w1 = w1
    w2 = w2
    NoWorker = NoWorker
    Job <- TwoJobs
    Worker <- TwoWorkers
    Stages = 1
    MaxAttempts = 2
    Requests <- Submitted
    Allowed <- Grants
    c1 = c1
    c2 = c2
    Client = {c1, c2}
    Settings <- FewAtATime
    Daily <- DailyTriggers
    MaxSlot = 2
    MaxRows = 4
    MaxWakes = 1
    MaxFaults = 1
    MaxJobs = 3
    a = a
    w = w
    x = x
    y = y
    Process = {a, w}
    Operations <- Roles
    Listed = {x, y}
    SeedTickers = {x}
    MaxSaves = 3
CHECK_DEADLOCK FALSE
INVARIANTS
    OneStructural
    DailyOnce
    FollowUpKept
    StreaksCountFailures
    WorksOnCurrent
PROPERTIES
    ImplementsLifecycle
    NotSeededAgain

SPECIFICATION LoopsSpec
CONSTANTS
    w1 = w1
    w2 = w2
    w3 = w3
    NoWorker = NoWorker
    Job <- OneJob
    Worker <- AllWorkers
    Supervised <- TwoWorkers
    Stages = 2
    MaxAttempts = 2
    Requests <- LiveOrSystem
    Allowed <- Grants
    MaxErrors = 1
    MaxStalls = 1
    MaxCrashes = 1
INVARIANTS
    SucceededIsComplete
    ExclusiveExecution
PROPERTIES
    JobsSettle
    CancellationStops

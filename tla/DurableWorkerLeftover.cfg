SPECIFICATION WorkerSpec
CONSTANTS
    w1 = w1
    w2 = w2
    NoWorker = NoWorker
    Job <- OneJob
    Worker <- OneWorker
    Supervised <- OneWorker
    Stages = 1
    MaxAttempts = 1
    Requests <- OnlyLive
    Allowed <- Grants
    MaxErrors = 1
    MaxStalls = 0
    MaxCrashes = 0
INVARIANTS
    FailedLeavesSnapshot

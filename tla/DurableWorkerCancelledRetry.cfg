SPECIFICATION FairWorkerSpec
CONSTANTS
    w1 = w1
    w2 = w2
    NoWorker = NoWorker
    Job <- OneJob
    Worker <- OneWorker
    Supervised <- OneWorker
    Stages = 1
    MaxAttempts = 2
    Requests <- OnlyLive
    Allowed <- Grants
    MaxErrors = 0
    MaxStalls = 0
    MaxCrashes = 0
PROPERTIES
    CancelSettles

\* With three deployments the first installation falls out of the protected chain.
SPECIFICATION RetentionSpec
CONSTANTS
    Service = {worker, backup}
    Required = {worker}
    MaxDeployments = 3
    MaxFaults = 1
    MaxSweepFaults = 1
CHECK_DEADLOCK FALSE
INVARIANTS
    LoadedCanRun
    Coherent
    RollbackAvailable
PROPERTY
    CutoversSettle

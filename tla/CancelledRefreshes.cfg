SPECIFICATION AttentionSpec
CONSTANT MaxJobs = 3
CHECK_DEADLOCK FALSE
INVARIANT CancellationsDoNotCount

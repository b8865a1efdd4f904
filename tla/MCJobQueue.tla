------------------------------ MODULE MCJobQueue ------------------------------
\* The queue with two workers, one for the portfolio jobs and one that may also
\* run system jobs, and clients that call any method at any time.
EXTENDS JobQueue, TLC

CONSTANTS w1, w2

TwoJobs == {1, 2}
TwoWorkers == {w1, w2}
Submitted == {"live", "system"}
Grants == w1 :> {"live"} @@ w2 :> {"live", "system"}
=============================================================================

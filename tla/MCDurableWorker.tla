--------------------------- MODULE MCDurableWorker ---------------------------
\* Instances of DurableWorker with the main loops of one or two processes.
EXTENDS DurableWorker

CONSTANTS w1, w2

OneJob == {1}
TwoWorkers == {w1, w2}
OneWorker == {w1}
OnlyLive == {"live"}
Grants == [w \in Worker |-> IF w \in Supervised THEN {"live"} ELSE {"system"}]
=============================================================================

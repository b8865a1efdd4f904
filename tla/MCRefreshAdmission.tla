-------------------------- MODULE MCRefreshAdmission --------------------------
\* Instances of RefreshAdmission for TLC.
EXTENDS RefreshAdmission

DailyTriggers == [n \in 1..MaxSlot |-> IF n = 1 THEN "research" ELSE "reconciliation"]
CONSTANTS c1, c2
FewAtATime == {{"live"}, {"performance"}, {"daily"}, {"live", c1}, {c1, c2}}
=============================================================================

------------------------ MODULE MCSnapshotPublication ------------------------
\* Instances of SnapshotPublication for TLC.
EXTENDS SnapshotPublication, TLC

CONSTANTS p1, p2, t1, t2

Symmetric == Permutations({p1, p2}) \cup Permutations({t1, t2})
=============================================================================

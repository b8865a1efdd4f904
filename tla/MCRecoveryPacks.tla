---- MODULE MCRecoveryPacks ----
EXTENDS RecoveryPacks
CONSTANTS a, b, writer1, writer2, reader1
Versions == [k \in Record |-> IF k = a THEN {1, 2} ELSE {3}]
Offers == {[k \in Record |-> IF k = a THEN 1 ELSE 3]}
====

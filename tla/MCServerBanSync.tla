-------------------------- MODULE MCServerBanSync --------------------------
EXTENDS ServerBanSync, TLC

CONSTANTS k1, k2

MCNames == [u \in Uuid |-> {u}]
MCTwoNames == [u \in Uuid |-> {1, 2}]
MCNextKeys == [k \in Key |-> IF k = k1 THEN {k2} ELSE {}]
MCCopy == 1..(MaxRows + 2 * Cardinality(Server))
MCSymmetry == Permutations(Server)
=============================================================================

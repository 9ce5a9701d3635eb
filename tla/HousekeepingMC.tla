--------------------------- MODULE HousekeepingMC ---------------------------
EXTENDS Housekeeping

CONSTANTS p1, p2, id1, id2

MCFreshProject == [p \in {p1, p2} |-> IF p = p1 THEN id1 ELSE id2]
=============================================================================

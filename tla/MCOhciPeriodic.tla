--------------------------- MODULE MCOhciPeriodic ---------------------------
EXTENDS OhciPeriodic, TLC

CONSTANTS r1, r2

MCRequests == {r1, r2}
MCNumHeapEd == 2
\* Intervals whose periods are 0, 1, 4, 16 and 32: the else branch twice,
\* the Ms1 entry, a middle level and the bottom level.
MCMaxSends == 5
MCIntervals == {1, 2, 8, 32, 64}
MCSymmetry == Permutations(MCRequests)
====

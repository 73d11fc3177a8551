------------------------------- MODULE MCList -------------------------------
EXTENDS List, TLC

CONSTANTS n1, n2, n3, c1, c2, null

MCNodes == {n1, n2, n3}
MCKeys == {1, 2}
\* One thread calling a list without LIST_SAFE.
MCCallers == {c1}
\* Two threads sharing a LIST_SAFE list.
MCTwoCallers == {c1, c2}
MCSymmetry == Permutations(MCNodes)
====

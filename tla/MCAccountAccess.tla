-------------------------- MODULE MCAccountAccess --------------------------
\* Small instances of the user accounts for TLC.
EXTENDS AccountAccess, TLC

CONSTANTS p1, p2, x1, x2, r1, r2

TwoPhones == {p1, p2}
OneAdmin == {p1}
TwoNames == {x1, x2}
TwoRequests == {r1, r2}
Symmetry == Permutations(TwoRequests)

=============================================================================

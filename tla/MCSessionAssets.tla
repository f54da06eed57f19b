--------------------------- MODULE MCSessionAssets ---------------------------
\* Small instances of bank accounts and bill images for TLC.
EXTENDS SessionAssets, TLC

CONSTANTS a1, a2, i1, i2, i3, r1, r2

TwoAccounts == {a1, a2}
ThreeImages == {i1, i2, i3}
TwoRequests == {r1, r2}
Symmetry == Permutations(TwoAccounts) \cup Permutations(ThreeImages) \cup Permutations(TwoRequests)

=============================================================================

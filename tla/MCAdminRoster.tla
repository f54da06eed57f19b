--------------------------- MODULE MCAdminRoster ---------------------------
\* Small instances of the admins for TLC.
EXTENDS AdminRoster, TLC

CONSTANTS a1, a2, a3, n1, n2, n3, h1, h2, r1, r2

TwoAdmins == {a1, a2}
ThreeAdmins == {a1, a2, a3}
TwoNumbers == {n1, n2}
ThreeNumbers == {n1, n2, n3}
OnePassword == {h1}
TwoPasswords == {h1, h2}
TwoRequests == {r1, r2}

\* All but the seeded admin and its number are interchangeable.
Symmetry == Permutations({a2, a3}) \cup Permutations({n2, n3})
            \cup Permutations(TwoPasswords) \cup Permutations(TwoRequests)

=============================================================================

----------------------------- MODULE MCContacts -----------------------------
\* Small instances of contacts, groups and participants for TLC.
EXTENDS Contacts, TLC

CONSTANTS c1, c2, g1, p1, p2, n1, n2, x1, x2, y1, y2, r1, r2

TwoIds == {c1, c2}
OneGroup == {g1}
TwoParticipants == {p1, p2}
TwoNumbers == {n1, n2}
TwoNames == {x1, x2}
TwoGroupNames == {y1, y2}
TwoRequests == {r1, r2}

\* Contacts to create, a new name, a new number, into a group and out of it.
SomeEdits ==
  LET of(x, n, g, out) == [name |-> x, number |-> n, group |-> g, clears |-> out] IN
  {of(x1, n1, Absent, FALSE), of(x1, n2, g1, FALSE), of(x2, Absent, Absent, FALSE),
   of(Absent, n1, Absent, FALSE), of(Absent, Absent, Absent, TRUE)}
SomeBatches == {<<n1, n2>>, <<n1, n1>>, <<n2>>}

Symmetry == Permutations(TwoRequests) \cup Permutations(TwoIds) \cup Permutations(TwoParticipants)

=============================================================================

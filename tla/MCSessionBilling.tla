-------------------------- MODULE MCSessionBilling --------------------------
\* Small instances of a session's bills for TLC.
EXTENDS SessionBilling, TLC

CONSTANTS p1, p2, b1, b2, r1, r2

TwoPeople == {p1, p2}
TwoBills == {b1, b2}
TwoRequests == {r1, r2}

Bill3 == [amount |-> 5, scope |-> {}, charged |-> Charges]
BillOf1 == [amount |-> 30, scope |-> {p1}, charged |-> {"tax"}]
SomeEntries == {Bill3, BillOf1}

\* No fees; a tenth for service and a twentieth of tax.
SomeFees == {NoFees, [c \in Charges |-> IF c = "service" THEN 1000 ELSE 500]}

\* Bills and requests are interchangeable in Init and Next.
Symmetry == Permutations(TwoBills) \cup Permutations(TwoRequests)

=============================================================================

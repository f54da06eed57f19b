------------------------- MODULE MCPaymentLifecycle -------------------------
\* Small instances of the payment lifecycle for TLC.
EXTENDS PaymentLifecycle, TLC

CONSTANTS p1, p2, r1, r2, f1, f2

OnePerson == {p1}
TwoPeople == {p1, p2}
OneRequest == {r1}
TwoRequests == {r1, r2}
TwoProofs == {f1, f2}

\* Participants, requests and images are interchangeable in Init and Next.
Symmetry == Permutations(TwoPeople) \cup Permutations(TwoRequests) \cup Permutations(TwoProofs)

=============================================================================

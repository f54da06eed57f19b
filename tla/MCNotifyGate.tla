---------------------------- MODULE MCNotifyGate ----------------------------
\* Small instances of batches, reminders and retries for TLC.
EXTENDS NotifyGate, TLC

CONSTANTS p1, p2, r1, r2

TwoParticipants == {p1, p2}
TwoRequests == {r1, r2}
Symmetry == Permutations(TwoParticipants) \cup Permutations(TwoRequests)

=============================================================================

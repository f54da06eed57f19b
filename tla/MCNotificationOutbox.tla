------------------------ MODULE MCNotificationOutbox ------------------------
\* Small instances of the outbox for TLC.
EXTENDS NotificationOutbox, TLC

CONSTANTS l1, l2, w1, w2, h1, h2

OneLog == {l1}
TwoLogs == {l1, l2}
OneWorker == {w1}
TwoWorkers == {w1, w2}
OneHook == {h1}
TwoHooks == {h1, h2}

\* Rows, workers and webhook requests are interchangeable in Init and Next.
Symmetry == Permutations(TwoLogs) \cup Permutations(TwoWorkers) \cup Permutations(TwoHooks)

=============================================================================

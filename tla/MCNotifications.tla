--------------------------- MODULE MCNotifications ---------------------------
EXTENDS Notifications, TLC

CONSTANTS k1, k2, c1, c2, s1, w1, w2

OnSite1 == [k \in Checks |-> s1]

\* Sound where no worker is singled out: Reliable is empty or all of Workers,
\* no liveness.
WorkerSymmetry == Permutations(Workers)
=============================================================================

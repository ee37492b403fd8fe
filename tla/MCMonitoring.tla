---------------------------- MODULE MCMonitoring ----------------------------
EXTENDS Monitoring, TLC

CONSTANTS m1, m2, s1, w1, w2

OnSite1    == [m \in Monitors |-> s1]
AllHttp    == [m \in Monitors |-> "http"]
HttpAndSsl == [m \in Monitors |-> IF m = m1 THEN "http" ELSE "ssl"]
\* Sound where no worker is singled out: Reliable is empty, no liveness.
WorkerSymmetry == Permutations(Workers)
=============================================================================

----------------------------- MODULE MCRegistry -----------------------------
EXTENDS MonitorRegistry, TLC

Symmetry == Permutations(Monitors) \cup Permutations(Targets) \cup Permutations(Requests)
=============================================================================

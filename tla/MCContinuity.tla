---------------------------- MODULE MCContinuity ----------------------------
EXTENDS ContinuitySupervisor, TLC

CONSTANTS s1, s2, s3, f1, f2

Symmetric == Permutations(Sessions) \cup Permutations(Flows)
=============================================================================

---------------------------- MODULE MCSnapshots -----------------------------
EXTENDS Snapshots, TLC

SnapshotSymmetry == Permutations(Runs) \cup Permutations(Images)
=============================================================================

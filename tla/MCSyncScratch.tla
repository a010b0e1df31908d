---------------------------- MODULE MCSyncScratch ----------------------------
EXTENDS SyncScratch, TLC

Symmetry == Permutations(Files) \cup Permutations(Versions)
=============================================================================

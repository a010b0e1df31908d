-------------------------- MODULE MCTestingJournal --------------------------
EXTENDS TestingJournal, TLC

Symmetry == Permutations(Mutants) \cup Permutations(Outcomes)
=============================================================================

------------------------------- MODULE MCAucont -------------------------------
EXTENDS Aucont, TLC

Symmetry == Permutations(Starts) \cup Permutations(Pids)
===============================================================================

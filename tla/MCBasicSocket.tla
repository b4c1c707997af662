---- MODULE MCBasicSocket ----
EXTENDS BasicSocket, TLC
Symmetry == Permutations(Objects) \cup Permutations(Cells) \cup Permutations(Handles)
====

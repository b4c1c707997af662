---- MODULE MCDisciplinedSocket ----
EXTENDS DisciplinedSocket, TLC
Symmetry == Permutations(Objects) \cup Permutations(Cells) \cup Permutations(Handles)
====

----------------------------- MODULE MCBuffers -----------------------------
EXTENDS Buffers, TLC

Symmetry == Permutations(Bufs) \cup Permutations(Blocks)
=============================================================================

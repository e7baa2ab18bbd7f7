----------------------------- MODULE MCPyramid -----------------------------
EXTENDS PyramidSearch, TLC
CONSTANTS c1, c2, c3
Two == {c1, c2}
Three == {c1, c2, c3}
Symmetry == Permutations(Child)
=============================================================================

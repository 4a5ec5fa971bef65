-------------------------- MODULE MCVideoPipeline ---------------------------
\* Model checking of VideoPipeline: no size differs from another but by its name.
EXTENDS VideoPipeline, TLC

Symmetry == Permutations(Size)
=============================================================================

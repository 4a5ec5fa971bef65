-------------------------- MODULE MCSessionReader --------------------------
EXTENDS SessionReader, TLC

\* The sessions are interchangeable.
Symmetry == Permutations(Session)
=============================================================================

--------------------------- MODULE MCSessionStore ---------------------------
\* SessionStore for TLC: symmetric processes.
EXTENDS SessionStore, TLC
Symmetry == Permutations(Proc)
=============================================================================

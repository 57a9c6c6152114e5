--------------------------- MODULE MCServerClock ---------------------------
EXTENDS ServerClock, TLC

Symmetric == Permutations(Callers)

\* A host whose clock is far behind.
Behind == -20
=============================================================================

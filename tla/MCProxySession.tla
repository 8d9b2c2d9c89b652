--------------------------- MODULE MCProxySession ---------------------------
EXTENDS ProxySession, TLC

\* The requests of a miner are interchangeable.
Symmetry == Permutations(Calls)
=============================================================================

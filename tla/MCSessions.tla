----------------------------- MODULE MCSessions -----------------------------
EXTENDS Sessions

Symmetry == Permutations(Clients)
=============================================================================

----------------------------- MODULE MCBackend ------------------------------
EXTENDS McBackendSystem, TLC

CONSTANTS u1, u2, u3, r1, r2, r3, r4, r5, l1

Symmetry == Permutations(Users) \cup Permutations(Reqs)
=============================================================================

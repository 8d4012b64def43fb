-------------------------------- MODULE MCDb --------------------------------
EXTENDS VocsDbSystem, TLC

CONSTANTS d1, d2, p1, u1, l1

Perms == Permutations({d1, d2})
=============================================================================

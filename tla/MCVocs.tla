------------------------------- MODULE MCVocs -------------------------------
EXTENDS VocsSystem, TLC

CONSTANTS S1, S2, S3, r1, r2, r3, r4, r5, l1, l2

\* One loop the role may speak in, and one it may only hear.
MayTalk == [l \in Loops |-> IF l = l1 THEN "send" ELSE "recv"]

Symmetry == Permutations(ClientReqs)
=============================================================================

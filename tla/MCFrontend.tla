----------------------------- MODULE MCFrontend -----------------------------
EXTENDS McFrontendSystem, TLC

CONSTANTS S1, S2, S3, r1, r2, r3, r4, l1

=============================================================================

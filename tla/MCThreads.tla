------------------------------ MODULE MCThreads -----------------------------
EXTENDS LdapAuth, TLC

CONSTANTS t1, t2, m1, m2, m3
=============================================================================

CONSTANTS
    S1 = S1  S2 = S2  S3 = S3
    r1 = r1  r2 = r2  r3 = r3  r4 = r4  l1 = l1
    None = None
    Proxies = {1, 2}
    Sessions = {S1, S2}
    Loops = {l1}
    Reqs = {r1, r2, r3}
    Losses = 2
CHECK_DEADLOCK FALSE
SPECIFICATION FairSpec
INVARIANTS TypeOK LoadCountsSessions KnownIsServed NoOrphanSessions OwnedAtHome
PROPERTIES DropEnds

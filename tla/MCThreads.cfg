CONSTANTS
    t1 = t1  t2 = t2  m1 = m1  m2 = m2  m3 = m3
    Threads = {t1, t2}
    Loop = Loop
    Msgs = {m1, m2, m3}
    Nobody = Nobody
    Capacity = 2
    Stalls = 1
    Stops = 1
CHECK_DEADLOCK FALSE
SPECIFICATION FairSpec
INVARIANTS TypeOK OneOwner AnswersAnnounced LocksUnusedWhenCleared AnswerFindsCallback
PROPERTIES LoginsAnswered StopEnds

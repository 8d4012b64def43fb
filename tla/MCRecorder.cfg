CONSTANTS
    r1 = r1  r2 = r2  r3 = r3  l1 = l1  l2 = l2
    Recorders = {r1, r2, r3}
    Loops = {l1, l2}
    None = None
    Queue = 2
    Retry = FALSE
    Pipelining = FALSE
    EarlyStart = FALSE
    Reregister = FALSE
SYMMETRY Symmetry
CHECK_DEADLOCK FALSE
SPECIFICATION Spec
INVARIANTS OfferedIsIdle BlockedIsNamed RunningIsRecorded

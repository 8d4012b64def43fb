CONSTANTS
    u1 = u1  u2 = u2  u3 = u3
    r1 = r1  r2 = r2  r3 = r3  r4 = r4  r5 = r5  l1 = l1
    Closed = Closed  Free = Free  None = None
    Sockets = {1}
    Users = {u1, u2, u3}
    Loops = {l1}
    Reqs = {r1, r2, r3, r4}
    Ops = {"join"}
    Timeouts = FALSE
    Crashes = 0
SYMMETRY Symmetry
CHECK_DEADLOCK FALSE
SPECIFICATION Spec
INVARIANT CallbackNamesRequester

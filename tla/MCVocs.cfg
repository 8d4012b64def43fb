CONSTANTS
    S1 = S1  S2 = S2  S3 = S3
    r1 = r1  r2 = r2  r3 = r3  r4 = r4  r5 = r5  l1 = l1  l2 = l2
    Closed = Closed  Free = Free  None = None
    Sockets = {1}
    Users = {S1, S2}
    Loops = {l1}
    Reqs = {r1, r2, r3, r4, S1, S2}
    Clients = {1, 2}
    Proxies = {1}
    Permission <- MayTalk
    Ldap = FALSE
    Wants = {"none", "recv", "send"}
    Volume = TRUE
    Signals = {"update"}
    Pipelining = FALSE
    Unruly = FALSE
    RepeatMedia = FALSE
    Timeouts = TRUE
    Expiry = FALSE
    Connects = 2
    Crashes = 1
    Losses = 1
    IceFailures = 1
SYMMETRY Symmetry
CHECK_DEADLOCK FALSE
SPECIFICATION Spec
INVARIANTS TypeOK SessionsAgree MixersAccounted ReadyHasMixer RosterAgrees MediaReadyOnce AsyncOfOpenConnections ProxySessionsAccounted AudioFollowsClient WaitingIsWatched

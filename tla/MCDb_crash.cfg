CONSTANTS
    d1 = d1  d2 = d2  p1 = p1  u1 = u1  l1 = l1
    Domains = {d1, d2}
    Projects = {p1}
    Users = {u1}
    Roles = {Admin}
    Loops = {}
    Admin = Admin
    None = None
    Freed = Freed
    ForeignIds = FALSE
    RepeatAdmin = FALSE
    Files = TRUE
CHECK_DEADLOCK FALSE
SPECIFICATION Spec
INVARIANTS SnapshotRestored

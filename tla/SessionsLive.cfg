SPECIFICATION FairSpec
CONSTANTS
    User = {u1}
    Device = {d1, d2}
    Request = {r1, r2, r3}
    None = None
    Ops <- LiveOps
CHECK_DEADLOCK FALSE
PROPERTY GapCloses

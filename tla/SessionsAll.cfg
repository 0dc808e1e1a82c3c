SPECIFICATION Spec
CONSTANTS
    User = {u1, u2}
    Device = {d1, d2}
    Request = {r1, r2, r3, r4}
    None = None
    Ops <- AllOps
SYMMETRY Symmetry
CONSTRAINT Few
CHECK_DEADLOCK FALSE
INVARIANTS
    TypeOK
    SessionNotLost
    ConflictNeedsOverlap
    RowsHaveOwners
    NoRefreshAcrossEnd
    NoReplayAfterRotation
PROPERTY TableSpec

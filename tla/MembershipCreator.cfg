SPECIFICATION Spec
CONSTANTS
    User = {u1, u2}
    Group = {g1}
    Request = {r1, r2}
    None = None
    Ops <- ManageOps
SYMMETRY Symmetry
CHECK_DEADLOCK FALSE
INVARIANT CreatorIsMember

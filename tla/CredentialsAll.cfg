SPECIFICATION Spec
CONSTANTS
    None = None
    Email = {a1, a2}  First = {r0}
    Request = {r0, r1, r2, r3}
    Ops <- OpKinds
SYMMETRY Symmetry
CHECK_DEADLOCK FALSE
INVARIANT TypeOK
INVARIANT TokenSucceedsOnce
INVARIANT ResetEndsSessions
INVARIANT TwoTokensByOverlap
INVARIANT FailsByOverlap
INVARIANT VerifiedEmailWasProven
INVARIANT IncompleteByFault

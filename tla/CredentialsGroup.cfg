SPECIFICATION Spec
CONSTANTS
    None = None
    Email = {a1, a2}  First = {r0}
    Request = {r0, r1}
    Ops <- OpKinds
SYMMETRY Symmetry
CHECK_DEADLOCK FALSE
INVARIANT RegistrationTakesGroup

SPECIFICATION Spec
CONSTANTS
    None = None
    Run = {r1, r2, r3}
    Stamp = {n1, n2, n3}
    Day = 2  Repeat = 1  KeepDays = 1  MaxAge = 2  MaxTime = 5
SYMMETRY Symmetry
CONSTRAINT Mixed
CHECK_DEADLOCK FALSE
INVARIANT DoneIsKept
INVARIANT FooledByFailureOnly
INVARIANT VerifiedHoldsRows

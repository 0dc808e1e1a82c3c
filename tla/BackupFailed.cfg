SPECIFICATION Spec
CONSTANTS
    None = None
    Run = {r1}
    Stamp = {n1}
    Day = 2  Repeat = 1  KeepDays = 1  MaxAge = 2  MaxTime = 5
SYMMETRY Symmetry
CHECK_DEADLOCK FALSE
INVARIANT FailedDumpDeleted

SPECIFICATION BrowsersSpec
CONSTANTS
    User = {u1, u2}
    Device = {d1, d2}
    Request = {r1, r2, r3, r4}
    None = None
    Ops <- UseOps
SYMMETRY Symmetry
CONSTRAINT Few
CHECK_DEADLOCK FALSE
INVARIANT NoFalseAlarm
INVARIANT CookiesRefresh
INVARIANT GoneAfterLogout

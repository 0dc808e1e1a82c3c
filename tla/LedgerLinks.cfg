SPECIFICATION Spec
CONSTANTS
    alice = alice  bob = bob  home = home  trip = trip  None = None
    c1 = c1  c2 = c2  c3 = c3  k1 = k1  k2 = k2  k3 = k3
    o1 = o1  Food = Food  food = food
    User = {alice, bob}  Group = {home}
    Category = {c1, c2}  GroupCategory = {k1, k2}
    Name = {Food}  Lower <- MCLower
    Request = {r1, r2, r3}  Old = {o1}
    Start <- Shared  Ops <- LinkOps
SYMMETRY Symmetry
CHECK_DEADLOCK FALSE
INVARIANT TypesDifferByRetype
INVARIANT FailsByOverlap

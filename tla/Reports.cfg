SPECIFICATION ReportsSpec
CONSTANTS
    alice = alice  bob = bob  home = home  trip = trip  None = None
    o1 = o1  o2 = o2  o3 = o3
    User = {alice, bob}  Group = {home, trip}
    Category = {c1, c2}  GroupCategory = {k1, k2}
    Operation = {o1, o2, o3}  Name = {food}
    Member <- MCMember  Amount <- MCAmount  At <- MCAt  DayLength = 2  Date <- Dates
SYMMETRY Symmetry
INVARIANT RowsAgree
INVARIANT StatMatchesList
INVARIANT GroupSumsItsMembers
INVARIANT StatGap
INVARIANT DaysPartition
INVARIANT SameVisibility

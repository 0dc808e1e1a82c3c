SPECIFICATION Spec
CONSTANTS
    User = {u1, u2, u3}
    Group = {g1}
    Request = {r1, r2, r3}
    None = None
    Ops <- OpKinds
SYMMETRY Symmetry
CONSTRAINT Mixed
CHECK_DEADLOCK FALSE
INVARIANTS
    TypeOK
    CreatorLostByOverlap
    StrayMapsByOverlap
    AcceptedHaveJoined
    AnswersFollowTable
    ReferencesHold
PROPERTIES
    JoinNeedsInvitation
    GroupsOutliveCreators

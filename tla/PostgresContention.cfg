SPECIFICATION Spec
CONSTANTS
    Keys = {k1}
    Languages = {en}
    Subjects = {ann, bob}
    Bodies = {text}
    RevisionIds = {r1, r2, r3}
    ProposalIds = {p1, p2, p3}
    Workers = {w1, w2}
    MaxConnections = 2
    None = None
SYMMETRY Interchangeable
CHECK_DEADLOCK FALSE
INVARIANTS
    TypeOK
    ChecksStillHold
    NoInternalError
PROPERTIES
    DecisionsStand

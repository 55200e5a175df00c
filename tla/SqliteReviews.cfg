SPECIFICATION Spec
CONSTANTS
    Keys = {k1}
    Languages = {en}
    Subjects = {ann, bob}
    Bodies = {old, new}
    Sources = {wiki}
    Commits = {c1}
    RevisionIds = {r1, r2, r3}
    ProposalIds = {p1, p2, p3}
    None = None
SYMMETRY Interchangeable
CHECK_DEADLOCK FALSE
INVARIANTS
    TypeOK
    GaplessHistory
    FirstReviewWins
    ReviewedLineage
    AuditTrail
PROPERTIES
    HistoryAppendOnly

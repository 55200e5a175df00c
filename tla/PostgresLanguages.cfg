SPECIFICATION Spec
CONSTANTS
    Keys = {k1}
    Languages = {en, vi}
    Subjects = {ann, bob}
    Bodies = {text}
    RevisionIds = {r1, r2}
    ProposalIds = {p1, p2}
    Workers = {w1, w2, w3}
    MaxConnections = 2
    None = None
SYMMETRY Interchangeable
CHECK_DEADLOCK FALSE
INVARIANTS
    CommittedLineage
    AcceptancesLookAtomic
    SomebodyProceeds
PROPERTY
    CommitsRefineCommons

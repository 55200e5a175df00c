SPECIFICATION Spec
CONSTANTS
    Keys = {k1}
    Languages = {en, vi}
    Subjects = {ann, bob}
    Bodies = {old, new}
    Sources = {wiki, blog}
    Commits = {c1, c2}
    RevisionIds = {r1, r2, r3}
    ProposalIds = {}
    None = None
SYMMETRY Interchangeable
CHECK_DEADLOCK FALSE
PROPERTY ProvenanceImmutable

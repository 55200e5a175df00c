SPECIFICATION Spec
CONSTANTS
    Keys = {k1}
    Languages = {en, vi}
    Subjects = {ann, bob}
    Bodies = {old, new}
    Sources = {wiki}
    Commits = {c1}
    RevisionIds = {r1, r2, r3}
    ProposalIds = {p1}
    None = None
SYMMETRY Interchangeable
CHECK_DEADLOCK FALSE
INVARIANTS
    KindSeparation
    SearchAgreesWithGet
PROPERTIES
    TranslationsIndependent
    RefinesCommons

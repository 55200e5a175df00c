SPECIFICATION OneProposerSpec
CONSTANTS
    Keys = {k1}
    Languages = {en}
    Subjects = {ann, bob}
    Bodies = {text}
    RevisionIds = {r1, r2}
    ProposalIds = {p1, p2}
    Workers = {w1, w2, w3}
    MaxConnections = 2
    None = None
CHECK_DEADLOCK FALSE
PROPERTY ReviewsFinish

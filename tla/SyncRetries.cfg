SPECIFICATION FairSpec
CONSTANTS
    Syncs = {"before", "after"}
    Subjects = {"before", "after"}
    Bodies = {"old", "new", "translation"}
    Invocation <- TwoRevisions
    MaxAttempts = 2
    MaxRevisions = 5
    None = None
CHECK_DEADLOCK FALSE
INVARIANTS
    TypeOK
    CitationIsTruthful
    PageIsOneImport
    RepeatsPublishOnce
    ReportIsHonest
PROPERTIES
    QuietSyncPublishesTree
    SyncsAdvance
    SyncEnds

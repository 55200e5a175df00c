SPECIFICATION Spec
CONSTANTS
    Requests = {r1}
    Keys = {"page"}
    Languages = {"en", "vi"}
    Names = {"ann"}
    SentKeys <- KeySpellings
    SentLanguages <- LanguageSpellings
    SentNames <- OnlyCapitalAnn
    Bodies = {"text"}
    Sources = {"wiki"}
    Commits = {"c1"}
    Identities <- NoIdentities
    RestrictedList <- OnlyCapitalAnn
    IngestList <- OnlyCapitalAnn
    None = None
CHECK_DEADLOCK FALSE
PROPERTIES
    ListedSubjectsAreAllowed

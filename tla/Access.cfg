SPECIFICATION Spec
CONSTANTS
    Requests = {r1, r2, r3}
    Keys = {"page"}
    Languages = {"en", "vi"}
    Names = {"ann", "bot"}
    SentKeys <- KeySpellings
    SentLanguages <- LanguageSpellings
    SentNames <- NameSpellings
    Bodies = {"text", "other"}
    Sources = {"wiki"}
    Commits = {"c1"}
    Identities <- AnnAndBot
    RestrictedList <- OnlyBot
    IngestList <- Ann
    None = None
SYMMETRY RequestSymmetry
CHECK_DEADLOCK FALSE
INVARIANTS
    NormalisedTypeOK
PROPERTIES
    ChangesAreAccountedFor
    RestrictedOnlyToListed
    ImportsOnlyByListed

SPECIFICATION Spec
CONSTANTS
    Syncs = {"first", "second"}
    Subjects = {"first", "second"}
    Bodies = {"old", "new"}
    Invocation <- TwoIndexes
    MaxAttempts = 1
    MaxRevisions = 4
    None = None
CHECK_DEADLOCK FALSE
PROPERTY ResyncPublishesNothing

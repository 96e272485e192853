SPECIFICATION FairSpec
CONSTANTS
    File = {"a", "b", "c"}
    Worker = {"w1", "w2"}
    MaxAttempts = 3
INVARIANT CancelSticks
INVARIANT SavedOnce
PROPERTY CancelFinishes
INVARIANT ResultTrue
CHECK_DEADLOCK FALSE

SPECIFICATION FairSpec
CONSTANTS
    File = {f1, f2}
    Stranger = f3
    Chunks = 2
    Limit = 1
    MaxStray = 1
INVARIANT SuccessMeansSaved
INVARIANT WireFramed
PROPERTY EndsOrStuck
INVARIANT FlowSound
CHECK_DEADLOCK FALSE

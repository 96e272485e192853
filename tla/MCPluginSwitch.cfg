SPECIFICATION FairSpec
CONSTANTS
    Pid = {p1, p2}
    None = None
    StopPolls = 2
    ReadyPolls = 2
    Autostart = TRUE
    MaxOps = 3
    MaxRuns = 1
    Unkillable = TRUE
    PidReuse = FALSE
PROPERTY UserStopHolds
PROPERTY StopSettles
INVARIANT PluginSound
CHECK_DEADLOCK FALSE

SPECIFICATION Spec
CONSTANTS
    Pid = {p1, p2}
    None = None
    StopPolls = 2
    ReadyPolls = 2
    Autostart = FALSE
    MaxOps = 3
    MaxRuns = 2
    Unkillable = TRUE
    PidReuse = TRUE
SYMMETRY PidSymmetry
INVARIANT SeenReceiverStops
INVARIANT PluginSound
CHECK_DEADLOCK FALSE

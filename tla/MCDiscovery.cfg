SPECIFICATION FairSpec
CONSTANTS
    Device <- MCDevice
    V4Host = {1}
    V6Host = {2, 3}
    Announced <- MCAnnounced
    Registered <- MCRegistered
    TTL = 0
    MaxDevices = 1
    MaxResponses = 1
    MaxErrors = 2
    MaxScans = 1
INVARIANT KeysOwned
PROPERTY CancelStops
PROPERTY Rebinds
INVARIANT TableShown
CHECK_DEADLOCK FALSE

SPECIFICATION Spec
CONSTANTS
    Conn = {c1, c2, c3}
    Peer = {p1}
    File = {f1, f2}
    None = None
    Pin = TRUE
    RequirePairing = TRUE
    Size = 1
    MaxPINAttempts = 2
SYMMETRY Symmetry
INVARIANT BusyIsLive
INVARIANT ConnectionOwned
INVARIANT FileStateAgrees
INVARIANT PinBeforeFiles
INVARIANT PairBeforeFiles
PROPERTY OneAtATime
CHECK_DEADLOCK FALSE

SPECIFICATION Spec
CONSTANTS
    Conn = {c1, c2}
    Peer = {p1}
    File = {f1, f2}
    None = None
    Pin = TRUE
    RequirePairing = FALSE
    Size = 1
    MaxPINAttempts = 2
SYMMETRY Symmetry
PROPERTY OthersIgnored
CHECK_DEADLOCK FALSE

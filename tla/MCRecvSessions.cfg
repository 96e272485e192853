SPECIFICATION Spec
CONSTANTS
    Session = {s1, s2}
    Client = {c1}
    File = {f1}
    Upload = {u1, u2}
    Path = {p1}
    None = None
    MaxChecksumAttempts = 2
    MaxConcurrentSessions = 2
    MaxReads = 1
    DiskFaults = TRUE
SYMMETRY Symmetry
INVARIANTS
    SavedIsOnDisk
    SingleActive
PROPERTIES
    SavedFilesKept
CHECK_DEADLOCK FALSE

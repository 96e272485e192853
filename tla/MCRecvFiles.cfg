SPECIFICATION Spec
CONSTANTS
    Session = {s1}
    Client = {c1, c2}
    File = {f1, f2}
    Upload = {u1, u2}
    Path = {p1, p2, p3}
    None = None
    MaxChecksumAttempts = 2
    MaxConcurrentSessions = 2
    MaxReads = 1
    DiskFaults = FALSE
SYMMETRY Symmetry
INVARIANTS
    ExclusiveWriters
    NoPartialLeft
    CountMatches
PROPERTIES
    DeliversFiles
CHECK_DEADLOCK FALSE

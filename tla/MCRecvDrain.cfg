SPECIFICATION FairSpec
CONSTANTS
    Session = {s1, s2}
    Client = {c1}
    File = {f1}
    Upload = {u1}
    Path = {p1}
    None = None
    MaxChecksumAttempts = 1
    MaxConcurrentSessions = 1
    MaxReads = 1
    DiskFaults = FALSE
PROPERTIES
    SessionsDrain
CHECK_DEADLOCK FALSE

SPECIFICATION Spec
CONSTANTS
    Client = {"a", "b"}
    Handler = {"h1", "h2"}
    MaxAttempts = 2
    Block = 1
    MaxSessions = 2
INVARIANT GuessesBounded
PROPERTY BlockHolds
INVARIANT SessionsOwned
CHECK_DEADLOCK FALSE

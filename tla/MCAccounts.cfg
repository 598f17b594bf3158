\* Two requests at a time, and a crash, from four databases.
CONSTANTS
    Threads = {t1, t2}
    Names = {"ann", "bob", "cat"}
    MaxUsers = 4
    MaxServers = 2
    MaxTokens = 4
    Snapshots <- MCSnapshots
    Lifetime = 1
    Window = 1
    MaxAttempts = 2
    MaxCrashes = 1
SYMMETRY MCSymmetry
CHECK_DEADLOCK FALSE
SPECIFICATION Spec
INVARIANTS
    TypeOK
    OwnersKept
    TokenIsOwn
    ServersOwned
    DeletedIsGone
    AttemptsBounded
PROPERTY RejectionStands

CONSTANTS
    t1 = t1
    t2 = t2
    t3 = t3
    s1 = s1
    s2 = s2
    p1 = p1
    p2 = p2
    Threads = {t1, t2}
    Servers = {s1, s2}
    Players = {p1}
    NoServer = NoServer
    NoThread = NoThread
    AddAmounts <- MCAddAmounts
    DeductAmounts = {1, 2}
    GrantAmounts <- MCGrants
    SyncPoints = {1, 4}
    Writers = {"add", "deduct", "adjust", "cdk", "sync"}
    StartRows <- OneKey
    Opening = 1
    MaxOps = 3
    MaxSyncs = 1
    MaxCrashes = 0
SYMMETRY MCSymmetry
CHECK_DEADLOCK FALSE
SPECIFICATION Spec
INVARIANT
    BalanceWithinEarned

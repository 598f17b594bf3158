\* Two batches handled at a time, player lists, changes of team and a crash.
CONSTANTS
    s1 = s1
    p1 = p1
    p2 = p2
    p3 = p3
    Threads = {t1, t2}
    Servers = {s1}
    Players = {p1, p2, p3}
    Nobody = Nobody
    Similar <- MCSimilar
    Expiry = 1
    Cooldown = 1
    StartTeams <- MCTeams
    MaxTime = 3
    MaxEvents = 3
    MaxCrashes = 1
SYMMETRY MCSymmetry
CHECK_DEADLOCK FALSE
SPECIFICATION Spec
INVARIANTS
    WoundDecidesItsDeath
    TkWasMate
    ScoredIsRecorded
    SuicidesSpaced

\* Two commands at a time, over two cooldowns, a slot taken back in the panel, points taken
\* and given by other writers, and a crash.
CONSTANTS
    Threads = {t1, t2}
    Players = {p1}
    Commands = {"sign_in", "lottery", "redeem", "switch_team"}
    Costs <- MCFreeLottery
    Reward = 2
    Cooldown = 2
    Opening = 3
    Changes <- MCChanges
    MaxTime = 4
    MaxChats = 4
    MaxEdits = 1
    MaxOthers = 1
    MaxCrashes = 1
SYMMETRY MCSymmetry
CHECK_DEADLOCK FALSE
SPECIFICATION Spec
INVARIANTS
    OncePerCooldown
    BalanceBounded
    PaidOnce

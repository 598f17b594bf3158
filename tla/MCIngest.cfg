\* Two requests at a time from two relays and the tailer, and a crash.
CONSTANTS
    x1 = x1
    x2 = x2
    Threads = {t1, t2}
    Servers = {s1, s2}
    Players = {p1, p2}
    Texts = {x1, x2}
    Relays = {r1, r2}
    Tailer = tailer
    LogLines <- MCLogLines
    Window = 1
    Zone = 1
    Budgets <- MCBudgets
    MaxTime = 4
    MaxCrashes = 1
SYMMETRY MCSymmetry
CHECK_DEADLOCK FALSE
SPECIFICATION Spec
INVARIANTS
    CopiesBounded
    ChatIsServed
    PaidIsRecorded
    LeavesOverlap
    ViewersUpToDate
    SomeoneIsAccepted

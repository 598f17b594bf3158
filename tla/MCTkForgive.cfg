\* Every request, the checker and a restart in every order, two TKs of a player.
CONSTANTS
    Threads = {t1}
    Players = {p1}
    Ops = {"kill", "chat", "create", "forgive", "kick", "delete", "toggle"}
    Secs = 1
    Zone = 0
    MaxTime = 2
    MaxId = 2
    MaxCrashes = 1
CHECK_DEADLOCK FALSE
SPECIFICATION TkSpec
INVARIANT
    KicksJustified
PROPERTIES
    NeverKickedEarly
    EveryTkSettled

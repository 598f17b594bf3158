\* A poller and three adapters; two servers and every third list; lists of two
\* messages, one spoiled; a stop or a crash, and a restart.
CONSTANTS
    sv1 = sv1
    sv2 = sv2
    m1 = m1
    m2 = m2
    RemotePlayers = {p1, p2}
    Adapters <- MCAdapters
    Limit = 2
    RemotePage = 1
    MaxEvents = 3
    MaxScores = 2
    MaxStarts = 2
    ServerRows <- MCServers
    TickEvery = 3
    MaxDue = 1
    Interval = 2
    MessageLists <- MCMessages
    NotText = NotText
    Period = 2
    MaxEdits = 1
    MaxFailures = 2
    Scenarios <- MCScenarios
CHECK_DEADLOCK FALSE
SPECIFICATION Spec
INVARIANTS
    CursorIsExact
    BroadcastsSpaced
PROPERTIES
    RemoteCatchesUp
    StoppedIsQuiet
    StopReturns
    MessagesRotate
    EveryServerSampled

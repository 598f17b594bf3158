\* Two threads and every operation on one server; replies of one packet, and of
\* more than execute() and ping() read.
CONSTANTS
    Threads = {t1, t2}
    Servers = {s1}
    NoThread = NoThread
    Ops = {"send", "test", "remove", "health"}
    ReplyLens = {1, 3}
    PacketCap = 2
    PingCap = 2
    MaxCalls = 3
CHECK_DEADLOCK FALSE
SPECIFICATION Spec
INVARIANTS
    AtMostTwice
    StreamIsOwn
PROPERTY
    CallsReturn

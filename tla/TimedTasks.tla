-------------------------------- MODULE TimedTasks --------------------------------
(***************************************************************************)
(* The four threads of TimedTasks: autoRefreshLoop, which asks every server  *)
(* for its players and, now and then, for its tick rate; broadcastLoop, which *)
(* sends the next message of a list to all servers; and, as far as their      *)
(* loops go, tkCheckerLoop (whom it kicks is in TkForgive) and                *)
(* sessionCleanupLoop (what a session is, in Accounts).  What a player list   *)
(* does to the tables is in EventIngest and RemotePoller.                    *)
(*                                                                         *)
(* All but the last talk to the servers over RconPool, where a request that   *)
(* waits for the rest of a packet holds up all others (RconPool!Blocked).     *)
(***************************************************************************)
EXTENDS Integers, Sequences, SequencesExt

CONSTANTS
    ServerRows,    \* table servers, in the order SELECT gives them
    TickEvery,     \* lists between two questions for the tick rate (10)
    MaxDue,        \* bound: rows the TK checker finds in a round
    Interval,      \* broadcast_interval, in ticks
    MessageLists,  \* values of broadcast_messages; a message may be NotText
    NotText,
    Period,        \* bound: msgIndex is kept modulo this
    MaxEdits       \* bound: changes of the settings

ASSUME TasksAssumption ==
    /\ TickEvery \in Nat \ {0} /\ Interval \in Nat \ {0} /\ Period \in Nat \ {0}
    /\ ServerRows \in Seq(ToSet(ServerRows)) /\ IsInjective(ServerRows)
    /\ \A ms \in MessageLists : ms \in Seq(ToSet(ms)) /\ (ms # <<>> => Period % Len(ms) = 0)
    /\ {MaxEdits, MaxDue} \subseteq Nat

VARIABLES
    stuck,         \* whether a RCON request waits for ever, as far as anybody can tell
    rpc, queue,    \* autoRefreshLoop: its next step, and the servers left in this round
    tickCounter,   \* tickCounter, modulo TickEvery
    sampled,       \* history: the server of the latest row of server_ticks
    enabled, messages,   \* settings broadcast_enabled and broadcast_messages
    bpc, text, toSend, \* broadcastLoop: its next step, the message it sends, and to whom still
    age,           \* ticks since lastBroadcast, at most Interval
    msgIndex,
    sent,          \* history: the message each server was sent last,
    since,         \* the ticks since, and how long after lastBroadcast it was:
    delay,         \* at most Interval, both
    kpc, due,      \* tkCheckerLoop: its next step, and the rows left in this round
    cpc, old,      \* sessionCleanupLoop: its next step, and what has expired: "sessions", "logs"
    edits

refresh == <<rpc, queue, tickCounter, sampled>>
settings == <<enabled, messages, edits>>
broadcast == <<bpc, text, toSend, age, msgIndex, sent, since, delay>>
cleaners == <<kpc, due, cpc, old>>
tasksVars == <<stuck, refresh, settings, broadcast, cleaners>>

ServerIds == ToSet(ServerRows)

TasksInit ==
    /\ stuck = FALSE
    /\ rpc = "off" /\ queue = <<>> /\ tickCounter = 0 /\ sampled = NotText
    /\ enabled \in BOOLEAN /\ messages \in MessageLists /\ edits = 0
    /\ bpc = "off" /\ text = NotText /\ toSend = <<>> /\ age = 0 /\ msgIndex = 0
    /\ sent = [s \in ServerIds |-> NotText]
    /\ since = [s \in ServerIds |-> Interval] /\ delay = [s \in ServerIds |-> 0]
    /\ kpc = "off" /\ due = 0
    /\ cpc = "off" /\ old = {}

\* A game server stops in the middle of a packet, with RconPool's lock held ...
Hang == ~stuck /\ stuck' = TRUE /\ UNCHANGED <<refresh, settings, broadcast, cleaners>>

\* ... and sends the rest, or closes the connection.
Recover == stuck /\ stuck' = FALSE /\ UNCHANGED <<refresh, settings, broadcast, cleaners>>

--------------------------------------------------------------------------------
(* autoRefreshLoop.                                                         *)

\* The loop looks at running_, checks the RCON connections and reads the servers.
RefreshRound(running) ==
    /\ rpc = "sleep"
    /\ IF running THEN ~stuck /\ rpc' = "list" /\ queue' = ServerRows
       ELSE rpc' = "off" /\ UNCHANGED queue
    /\ UNCHANGED <<tickCounter, sampled, stuck, settings, broadcast, cleaners>>

\* The round is over, or the panel is about to stop.
EndRound(running) ==
    /\ rpc = "list"
    /\ queue = <<>> \/ ~running
    /\ rpc' = "sleep" /\ queue' = <<>>
    /\ UNCHANGED <<tickCounter, sampled, stuck, settings, broadcast, cleaners>>

\* Mutant of ListPlayers: the counter starts again with every round.
ListPlayersPerRound(running, ok) ==
    LET n == IF Len(queue) = Len(ServerRows) THEN 1 % TickEvery ELSE (tickCounter + 1) % TickEvery IN
    /\ rpc = "list" /\ queue # <<>> /\ running /\ ~stuck
    /\ tickCounter' = IF ok THEN n ELSE tickCounter
    /\ IF ok /\ n = 0 THEN rpc' = "stats" /\ UNCHANGED queue
       ELSE queue' = Tail(queue) /\ UNCHANGED rpc
    /\ UNCHANGED <<sampled, stuck, settings, broadcast, cleaners>>

\* ListPlayers is sent to one server, the list stored and given to the plugins;
\* one counter for all servers says whether to ask this one for its tick rate.
ListPlayers(running, ok) ==
    LET n == (tickCounter + 1) % TickEvery IN
    /\ rpc = "list" /\ queue # <<>> /\ running /\ ~stuck
    /\ tickCounter' = IF ok THEN n ELSE tickCounter
    /\ IF ok /\ n = 0 THEN rpc' = "stats" /\ UNCHANGED queue
       ELSE queue' = Tail(queue) /\ UNCHANGED rpc
    /\ UNCHANGED <<sampled, stuck, settings, broadcast, cleaners>>

\* ShowServerStats; the rate goes into server_ticks if it can be read.
ShowServerStats(ok) ==
    /\ rpc = "stats" /\ ~stuck
    /\ sampled' = IF ok THEN Head(queue) ELSE sampled
    /\ rpc' = "list" /\ queue' = Tail(queue)
    /\ UNCHANGED <<tickCounter, stuck, settings, broadcast, cleaners>>

--------------------------------------------------------------------------------
(* broadcastLoop.                                                           *)

\* PUT /api/settings.
Edit ==
    /\ edits < MaxEdits /\ edits' = edits + 1
    /\ \/ enabled' = ~enabled /\ UNCHANGED messages
       \/ messages' \in MessageLists \ {messages} /\ UNCHANGED enabled
    /\ UNCHANGED <<stuck, refresh, broadcast, cleaners>>

\* What a step of the broadcaster leaves alone.
OnlyBroadcast == UNCHANGED <<stuck, refresh, settings, cleaners>>

BroadcastWakes(running) ==
    /\ bpc = "sleep"
    /\ bpc' = IF running THEN "check" ELSE "off"
    /\ UNCHANGED <<text, toSend, age, msgIndex, sent, since, delay>> /\ OnlyBroadcast

\* Disabled, or the interval has not passed.
NotYet ==
    /\ bpc = "check"
    /\ ~enabled \/ age < Interval
    /\ bpc' = "sleep"
    /\ UNCHANGED <<text, toSend, age, msgIndex, sent, since, delay>> /\ OnlyBroadcast

Turn == messages[(msgIndex % Len(messages)) + 1]

\* Mutant of NextMessage: the last message sent comes again.
SameMessage(i) == i

NextMessage(i) == (i + 1) % Period

\* The interval starts anew whatever comes of it: an empty list is skipped, a message
\* that is not a string throws and stays the next, and a string is the message to send.
Broadcast ==
    /\ bpc = "check"
    /\ enabled /\ age >= Interval
    /\ age' = 0
    /\ IF messages # <<>> /\ Turn # NotText
       THEN /\ bpc' = "send" /\ text' = Turn /\ toSend' = ServerRows
            /\ msgIndex' = NextMessage(msgIndex)
       ELSE bpc' = "sleep" /\ UNCHANGED <<text, toSend, msgIndex>>
    /\ UNCHANGED <<sent, since, delay>> /\ OnlyBroadcast

\* One server after the other, whether the panel is about to stop or not, and for
\* as long as each request takes.
SendBroadcast ==
    LET s == Head(toSend) IN
    /\ bpc = "send" /\ toSend # <<>> /\ ~stuck
    /\ sent' = [sent EXCEPT ![s] = text]
    /\ since' = [since EXCEPT ![s] = 0] /\ delay' = [delay EXCEPT ![s] = age]
    /\ toSend' = Tail(toSend)
    /\ UNCHANGED <<bpc, text, age, msgIndex>> /\ OnlyBroadcast

EndBroadcast ==
    /\ bpc = "send" /\ toSend = <<>>
    /\ bpc' = "sleep"
    /\ UNCHANGED <<text, toSend, age, msgIndex, sent, since, delay>> /\ OnlyBroadcast

Aged(n) == IF n < Interval THEN n + 1 ELSE n

TasksTick ==
    /\ age < Interval \/ \E s \in ServerIds : since[s] < Interval
    /\ age' = Aged(age) /\ since' = [s \in ServerIds |-> Aged(since[s])]
    /\ UNCHANGED <<bpc, text, toSend, msgIndex, sent, delay>> /\ OnlyBroadcast

--------------------------------------------------------------------------------
(* tkCheckerLoop and sessionCleanupLoop.                                    *)

OnlyCleaners == UNCHANGED <<stuck, refresh, settings, broadcast>>

\* The rows that are due are read ...
CheckerWakes(running) ==
    /\ kpc = "sleep"
    /\ IF running THEN kpc' = "kick" /\ due' \in 0..MaxDue ELSE kpc' = "off" /\ UNCHANGED due
    /\ UNCHANGED <<cpc, old>> /\ OnlyCleaners

\* ... and every one of them gets a kick and is marked, whether the panel is about
\* to stop or not.
KickNext ==
    /\ kpc = "kick"
    /\ IF due = 0 THEN kpc' = "sleep" /\ UNCHANGED due
       ELSE ~stuck /\ due' = due - 1 /\ UNCHANGED kpc
    /\ UNCHANGED <<cpc, old>> /\ OnlyCleaners

\* DELETE the sessions that have expired, then the entries of point_logs.
Cleanup(running) ==
    /\ \/ /\ cpc = "sleep"
          /\ cpc' = IF running THEN "sessions" ELSE "off"
          /\ UNCHANGED old
       \/ cpc = "sessions" /\ cpc' = "logs" /\ old' = old \ {cpc}
       \/ cpc = "logs" /\ cpc' = "sleep" /\ old' = old \ {cpc}
    /\ UNCHANGED <<kpc, due>> /\ OnlyCleaners

\* Sessions expire and entries get old.
Expire ==
    /\ \E x \in {"sessions", "logs"} \ old : old' = old \cup {x}
    /\ UNCHANGED <<kpc, due, cpc>> /\ OnlyCleaners

--------------------------------------------------------------------------------
HeadOfLoop(thread, up) == IF thread \in up THEN "sleep" ELSE "off"

\* The threads in up start at the head of their loops, and the others are gone.
TasksStart(up) ==
    /\ rpc' = HeadOfLoop("refresh", up) /\ bpc' = HeadOfLoop("broadcast", up)
    /\ kpc' = HeadOfLoop("checker", up) /\ cpc' = HeadOfLoop("cleanup", up)
    /\ queue' = <<>> /\ tickCounter' = 0 /\ toSend' = <<>> /\ due' = 0
    /\ stuck' = FALSE
    /\ UNCHANGED <<sampled, settings, text, sent, since, delay, old>>

\* Mutant of TasksReset: a new process is due for a broadcast.
TasksResetDue(up) == TasksStart(up) /\ age' = Interval /\ msgIndex' = 0

\* lastBroadcast is set to the time of the start.
TasksReset(up) == TasksStart(up) /\ age' = 0 /\ msgIndex' = 0

Refresh(running) == RefreshRound(running) \/ EndRound(running)
RefreshRequest(running, ok) == ListPlayers(running, ok) \/ ShowServerStats(ok)
Broadcasting(running) ==
    BroadcastWakes(running) \/ NotYet \/ Broadcast \/ SendBroadcast \/ EndBroadcast

Texts == UNION {ToSet(ms) : ms \in MessageLists}

TasksTypeOK ==
    /\ stuck \in BOOLEAN
    /\ rpc \in {"off", "sleep", "list", "stats"} /\ bpc \in {"off", "sleep", "check", "send"}
    /\ {queue, toSend} \subseteq Seq(ServerIds) /\ Len(queue) <= Len(ServerRows)
    /\ tickCounter \in 0..(TickEvery - 1)
    /\ sampled \in {NotText} \cup ServerIds
    /\ enabled \in BOOLEAN /\ messages \in MessageLists
    /\ age \in 0..Interval /\ {since, delay} \subseteq [ServerIds -> 0..Interval]
    /\ msgIndex \in 0..(Period - 1)
    /\ text \in {NotText} \cup Texts /\ sent \in [ServerIds -> {NotText} \cup Texts]
    /\ kpc \in {"off", "sleep", "kick"} /\ due \in 0..MaxDue
    /\ cpc \in {"off", "sleep", "sessions", "logs"} /\ old \subseteq {"sessions", "logs"}
================================================================================

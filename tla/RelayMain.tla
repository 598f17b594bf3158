--------------------------------- MODULE RelayMain ---------------------------------
(***************************************************************************)
(* The relay's threads from its start to its end: main with the web server, *)
(* the startup thread with the relay and the unban server, a handler that   *)
(* saves a configuration, and the signal handler.  They meet in g_running.  *)
(***************************************************************************)
EXTENDS Naturals

CONSTANT InitiallyRunning      \* the initial value of g_running, a Boolean: FALSE in the code

VARIABLES
    configured,    \* relay-config.json holds a token and an API key
    running,       \* g_running
    relayStarted,  \* g_relayStarted
    socket,        \* g_srvSocket
    startup,       \* g_startupThread; "over" is a thread that nobody has joined
    handler,       \* a POST /api/config on its detached thread
    pc,            \* where main and the signal handler are
    signalled      \* history: somebody asked the relay to stop

vars == <<configured, running, relayStarted, socket, startup, handler, pc, signalled>>

Actors == {"main", "signal"}
Gone == {"exited", "aborted"}

Init ==
    /\ configured \in BOOLEAN
    /\ running = InitiallyRunning
    /\ relayStarted = FALSE
    /\ socket = "none" /\ startup = "none" /\ handler = "none"
    /\ pc = [main |-> "start", signal |-> "idle"]
    /\ signalled = FALSE

Goto(a, phase) == pc' = [pc EXCEPT ![a] = phase]

\* main: the saved configuration starts the relay on a thread, a second later.
LoadConfig ==
    /\ pc["main"] = "start"
    /\ startup' = IF configured THEN "asleep" ELSE "none"
    /\ Goto("main", "listen")
    /\ UNCHANGED <<configured, running, relayStarted, socket, handler, signalled>>

\* httpServer: bind fails when the port is in use.
Listen ==
    /\ pc["main"] = "listen"
    /\ \/ socket' = "open" /\ Goto("main", "accept")
       \/ socket' = "none" /\ Goto("main", "shutdown")
    /\ UNCHANGED <<configured, running, relayStarted, startup, handler, signalled>>

\* while (g_running) accept: a request is handed to a thread of its own.
Accept ==
    /\ pc["main"] = "accept" /\ running /\ socket = "open" /\ handler = "none"
    /\ handler' = "panel"
    /\ UNCHANGED <<configured, running, relayStarted, socket, startup, pc, signalled>>

\* The loop ends by its condition, or by an accept that fails on a closed socket.
LeaveLoop ==
    /\ pc["main"] = "accept" /\ (~running \/ socket # "open")
    /\ socket' = "none"
    /\ Goto("main", "shutdown")
    /\ UNCHANGED <<configured, running, relayStarted, startup, handler, signalled>>

\* POST /api/config: the panel registers and authenticates the relay, or refuses.
Configure ==
    /\ handler = "panel"
    /\ \/ handler' = "spawn" /\ configured' = TRUE
       \/ handler' = "none" /\ UNCHANGED configured
    /\ UNCHANGED <<running, relayStarted, socket, startup, pc, signalled>>

\* ... then the previous startup thread is joined and a new one created.
Respawn ==
    /\ handler = "spawn" /\ startup \in {"none", "over"}
    /\ startup' = "asleep" /\ handler' = "none"
    /\ UNCHANGED <<configured, running, relayStarted, socket, pc, signalled>>

\* The startup thread goes on only while g_running.
WakeUp ==
    /\ startup = "asleep"
    /\ startup' = IF running THEN "relay" ELSE "over"
    /\ UNCHANGED <<configured, running, relayStarted, socket, handler, pc, signalled>>

\* startRelay: once per process; it fails when the panel does not authenticate it.
\* startUnbanSvr returns at once when its port is taken.
StartRelay ==
    /\ startup = "relay"
    /\ \/ running' = (running \/ ~relayStarted) /\ relayStarted' = TRUE
       \/ ~relayStarted /\ UNCHANGED <<running, relayStarted>>
    /\ \/ startup' = "unban" /\ running'
       \/ startup' = "over"
    /\ UNCHANGED <<configured, socket, handler, pc, signalled>>

\* startUnbanSvr: until its socket is closed by the shutdown.
UnbanServerStops ==
    /\ startup = "unban" /\ ~running
    /\ startup' = "over"
    /\ UNCHANGED <<configured, running, relayStarted, socket, handler, pc, signalled>>

\* A console event or a signal.
Signal ==
    /\ pc["signal"] = "idle"
    /\ signalled' = TRUE
    /\ Goto("signal", "shutdown")
    /\ UNCHANGED <<configured, running, relayStarted, socket, startup, handler>>

\* shutdownAll: whoever takes g_running away closes the sockets ...
ShutdownAll(a) ==
    /\ pc[a] = "shutdown"
    /\ running' = FALSE
    /\ socket' = IF running THEN "none" ELSE socket
    /\ Goto(a, IF running THEN "join" ELSE "over")
    /\ UNCHANGED <<configured, relayStarted, startup, handler, signalled>>

\* ... and waits for the startup thread before it stops the rest.
JoinStartup(a) ==
    /\ pc[a] = "join" /\ startup \in {"none", "over"}
    /\ startup' = "none"
    /\ Goto(a, "over")
    /\ UNCHANGED <<configured, running, relayStarted, socket, handler, signalled>>

\* main returns: destroying a thread that was not joined terminates the process.
Return ==
    /\ pc["main"] = "over"
    /\ Goto("main", IF startup = "none" THEN "exited" ELSE "aborted")
    /\ UNCHANGED <<configured, running, relayStarted, socket, startup, handler, signalled>>

Next ==
    /\ pc["main"] \notin Gone
    /\ \/ LoadConfig \/ Listen \/ Accept \/ LeaveLoop \/ Configure \/ Respawn
       \/ WakeUp \/ StartRelay \/ UnbanServerStops \/ Signal \/ Return
       \/ \E a \in Actors : ShutdownAll(a) \/ JoinStartup(a)

Spec == Init /\ [][Next]_vars

--------------------------------------------------------------------------------
(* A relay that serves its web page goes on until somebody asks it to stop: *)
(* main.cpp:1059 calls httpServer "blocking until shutdown", and README.md  *)
(* has the user start it and open the page in a browser.                    *)
ServesUntilShutdown == [][pc["main"] = "accept" /\ pc'["main"] # "accept" => signalled]_vars
================================================================================

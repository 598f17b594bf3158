-------------------------------- MODULE Collectors --------------------------------
(***************************************************************************)
(* What main starts before it listens and stops after: the poller of a       *)
(* remote server and the timed tasks.  Both are stopped one after the other, *)
(* by a flag their threads look at between two rounds and by joining them;   *)
(* or the process dies, and what it had in memory is gone.                  *)
(***************************************************************************)
EXTENDS RemotePoller, TimedTasks

CONSTANTS
    MaxFailures,      \* bound: failed requests
    Scenarios    \* bound: the sets of threads a run looks at (others never start),
                 \* each with the adapter and the settings it starts with

ASSUME CollectorsAssumption == MaxFailures \in Nat

VARIABLES
    phase,   \* where main is: "down", "up", "pollers" (stopAll), "tasks" (stop)
    starts, focus,
    failures  \* bound: requests to other machines that may still fail

mainVars == <<phase, starts, focus, failures>>
vars == <<pollerVars, tasksVars, mainVars>>

Init ==
    /\ PollerInit /\ TasksInit
    /\ phase = "down" /\ starts = 0 /\ failures = MaxFailures
    /\ \E s \in Scenarios : /\ focus = s.focus /\ adapter = s.adapter
                           /\ enabled = s.enabled /\ messages = s.messages

\* g_timedTasks.start and g_remoteApiManager.startAll.
Start ==
    /\ phase = "down" /\ starts < MaxStarts
    /\ phase' = "up" /\ starts' = starts + 1
    /\ PollerReset(HeadOfLoop("poller", focus)) /\ TasksReset(focus)
    /\ UNCHANGED <<focus, failures>>

\* listen returns after a signal; the pollers' running_ is cleared.
Signal ==
    /\ phase = "up"
    /\ phase' = "pollers"
    /\ UNCHANGED <<pollerVars, tasksVars, starts, focus, failures>>

\* g_remoteApiManager.stopAll returns when its threads have; the timed tasks'
\* running_ is cleared.
JoinPollers ==
    /\ phase = "pollers" /\ ppc = "off"
    /\ phase' = "tasks"
    /\ UNCHANGED <<pollerVars, tasksVars, starts, focus, failures>>

\* Mutant of JoinTasks: the threads that talk to the servers first are waited for.
JoinTwo ==
    /\ phase = "tasks" /\ rpc = "off" /\ bpc = "off"
    /\ phase' = "down"
    /\ UNCHANGED <<pollerVars, tasksVars, starts, focus, failures>>

\* g_timedTasks.stop joins its four threads and returns, and main.
JoinTasks ==
    /\ phase = "tasks" /\ {rpc, bpc, kpc, cpc} = {"off"}
    /\ phase' = "down"
    /\ UNCHANGED <<pollerVars, tasksVars, starts, focus, failures>>

Crash ==
    /\ phase # "down"
    /\ phase' = "down"
    /\ PollerReset("off") /\ TasksReset({})
    /\ UNCHANGED <<starts, focus, failures>>

Fail(ok) == IF ok THEN UNCHANGED failures ELSE failures > 0 /\ failures' = failures - 1
Running == phase \in {"up", "pollers"}

PollerStep ==
    /\ \/ Poll(phase = "up") /\ UNCHANGED failures
       \/ \E ok \in BOOLEAN : PollRequest(ok) /\ Fail(ok)
    /\ UNCHANGED <<tasksVars, phase, starts, focus>>
RefreshStep ==
    /\ \/ Refresh(Running) /\ UNCHANGED failures
       \/ \E ok \in BOOLEAN : RefreshRequest(Running, ok) /\ Fail(ok)
    /\ UNCHANGED <<pollerVars, phase, starts, focus>>
BroadcastStep == Broadcasting(Running) /\ UNCHANGED <<pollerVars, mainVars>>
CheckerStep == (CheckerWakes(Running) \/ KickNext) /\ UNCHANGED <<pollerVars, mainVars>>
CleanupStep == Cleanup(Running) /\ UNCHANGED <<pollerVars, mainVars>>

\* A request of these threads, or of a handler, hangs.
HangStep ==
    /\ phase # "down" /\ focus \cap {"refresh", "broadcast", "checker"} # {}
    /\ Hang /\ Fail(FALSE)
    /\ UNCHANGED <<pollerVars, phase, starts, focus>>
RecoverStep == Recover /\ UNCHANGED <<pollerVars, mainVars>>
RemoteStep == "poller" \in focus /\ (RemoteEvent \/ RemoteScore) /\ UNCHANGED <<tasksVars, mainVars>>
ClockStep == "broadcast" \in focus /\ TasksTick /\ UNCHANGED <<pollerVars, mainVars>>
EditStep == "broadcast" \in focus /\ Edit /\ UNCHANGED <<pollerVars, mainVars>>
ExpireStep == "cleanup" \in focus /\ Expire /\ UNCHANGED <<pollerVars, mainVars>>

Next ==
    \/ Start \/ Signal \/ JoinPollers \/ JoinTasks \/ Crash
    \/ PollerStep \/ RefreshStep \/ BroadcastStep \/ CheckerStep \/ CleanupStep
    \/ HangStep \/ RecoverStep
    \/ RemoteStep \/ ClockStep \/ EditStep \/ ExpireStep

\* The threads run on, but for a RCON request that hangs, and time passes; the number
\* of failures is bounded, so that every request that returns succeeds in the end.
Fairness ==
    /\ WF_vars(PollerStep) /\ WF_vars(RefreshStep) /\ WF_vars(BroadcastStep)
    /\ WF_vars(CheckerStep) /\ WF_vars(CleanupStep) /\ WF_vars(ClockStep)
    /\ WF_vars(JoinPollers) /\ WF_vars(JoinTasks)

Spec == Init /\ [][Next]_vars /\ Fairness

--------------------------------------------------------------------------------
TypeOK ==
    /\ PollerTypeOK /\ TasksTypeOK
    /\ phase \in {"down", "up", "pollers", "tasks"} /\ starts \in 0..MaxStarts
    /\ failures \in 0..MaxFailures /\ focus \in {s.focus : s \in Scenarios}

\* If the other panel reads `since` as "later than", no event is stored twice by one
\* process: only a restart, which forgets the cursor, stores events again.
FetchedOnce ==
    ~adapter.inclusive => \A e \in EventIds : recorded[e] <= starts

\* No event is left behind the cursor, except one written in the same second as an
\* earlier one, when `since` excludes that second.
CursorIsSafe ==
    \A e \in DOMAIN remote :
        /\ remote[e].type = "kill" /\ recorded[e] = 0
        /\ remote[e].time < cursor /\ e \notin batch
        => ~adapter.inclusive /\ \E f \in DOMAIN remote : f < e /\ remote[f].time = remote[e].time

\* The types, and the cursor: it repeats nothing and leaves nothing out but what a
\* second hides.
CursorIsExact == TypeOK /\ FetchedOnce /\ CursorIsSafe

UpForGood == <>[](phase = "up")

\* The size of the last page is that of the others: a shorter one is counted in its
\* own size, and returns players from the middle of the board once more.
PagesAlign == adapter.type = "plugin_squad" => RemotePage >= Limit \/ Limit % RemotePage = 0

\* While the panel stays up, whichever requests have failed before: the first Limit
\* players of the board have their points here, if the pages align, and every event
\* whose second is told apart is stored.
RemoteCatchesUp ==
    (UpForGood /\ "poller" \in focus) =>
        /\ Offers("board") /\ PagesAlign => []<>(\A i \in 1..Smaller(Limit, Len(Board)) :
                score[Board[i]] > 0 => balance[Board[i]] = score[Board[i]])
        /\ Offers("events") => []<>(\A e \in DOMAIN remote : remote[e].type = "kill" =>
                \/ recorded[e] > 0
                \/ ~adapter.inclusive /\ \E f \in DOMAIN remote : f # e /\ remote[f].time = remote[e].time)

\* What the threads store or send; sessions and entries get old, but none is deleted.
Output == <<tables, sampled, sent, due>>

\* Stopping the collectors ends them: nothing is stored, sent or deleted once main has
\* stopped everything (main.cpp:141-143).
StoppedIsQuiet == [][phase = "down" => UNCHANGED Output /\ old \subseteq old']_vars

\* RCON requests return: no game server stops for good in the middle of a packet.
RequestsReturn == []<>~stuck

\* Stopping the collectors ends, if RCON requests return: a stop that is not cut short
\* by a crash leaves no thread behind (main.cpp:141-143).
StopReturns == RequestsReturn => (phase = "pollers" ~> phase = "down")

\* The broadcast on its way to a server comes no sooner after the one before than the
\* interval less the time that one took to get there, over restarts too: lastBroadcast
\* is the time before the requests, and a new process waits for an interval first.
BroadcastsSpaced ==
    bpc = "send" => \A s \in ToSet(toSend) : since[s] + delay[s] >= Interval

\* With the settings left alone, every message of a list of strings comes round, on
\* every server, if RCON requests return.
MessagesRotate ==
    \A ms \in MessageLists : (\A i \in DOMAIN ms : ms[i] # NotText) =>
        ((<>[](phase = "up" /\ enabled /\ messages = ms) /\ "broadcast" \in focus /\ RequestsReturn) =>
            \A i \in DOMAIN ms, s \in ServerIds : []<>(sent[s] = ms[i]))

\* One counter serves all servers, and still each gets its tick rate sampled again
\* and again, if TickEvery and the number of servers have no common divisor and RCON
\* requests return.
EveryServerSampled ==
    (UpForGood /\ "refresh" \in focus /\ RequestsReturn) =>
        \A i \in DOMAIN ServerRows : []<>(sampled = ServerRows[i])
================================================================================

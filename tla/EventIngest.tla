------------------------------- MODULE EventIngest -------------------------------
(***************************************************************************)
(* The event routes of the panel other than the kills of KillFeed: chat,     *)
(* revives, wounds, the admin camera and player lists, posted one at a time  *)
(* or as raw log lines, and the registration of the relays that post them.  *)
(*                                                                         *)
(* A sender is accepted if the key it presents is the server's.  A relay     *)
(* trades the register code for a new key, which takes the place of the last, *)
(* tries the key and saves it; it presents the one it was started with.  The  *)
(* panel's own tailer reads the key when the panel starts.  Both may post one *)
(* line.  Handlers run on many threads, a statement at a time.              *)
(*                                                                         *)
(* What happens to one log line is decided by its first keyword.  A chat     *)
(* text stands for its author and server too.                               *)
(***************************************************************************)
EXTENDS Integers, Sequences, FiniteSets, FiniteSetsExt, SequencesExt

CONSTANTS
    Threads,      \* HTTP worker threads
    Servers, Players, Texts,
    Relays,
    Tailer,       \* the panel's own LocalLogTailer
    LogLines,     \* log lines of the game: [marks, fits, text]
    Window,       \* 5 seconds, in ticks
    Zone,         \* how far local time is ahead of UTC, in ticks
    Budgets,      \* bounds: how many requests of each sort a run is given
    MaxTime, MaxCrashes  \* bounds: the clock, crashes

Keywords == <<"die", "wound", "revive", "newgame", "join", "joinSucceeded", "disconnect",
    "beginInactive", "chat", "adminBroadcast", "tickRate", "createSquad", "matchEnd",
    "changeLayer", "setNextLayer", "removedPlayer", "attack">>

ASSUME IngestAssumption ==
    /\ Tailer \notin Relays
    /\ \A l \in LogLines : /\ l.marks \subseteq Range(Keywords) /\ l.fits \in BOOLEAN
                           /\ l.text \in Texts
    /\ {Window, Zone, MaxTime, MaxCrashes} \subseteq Nat /\ Window > 0 /\ Window + Zone <= MaxTime
    /\ Threads # {} /\ IsFiniteSet(Threads) /\ IsFiniteSet(Servers)
    /\ Budgets \subseteq [{"lines", "flights", "lists", "codes"} -> Nat]

Senders == Relays \cup {Tailer}
LineIds == Nat \ {0}

VARIABLES
    now,           \* UTC, as datetime('now')
    code, key,     \* servers.registerCode and servers.serverApiKey: serial numbers
    handed, held, saved, \* of each relay: the code it was given, the key it presents,
                   \* and the key in its configuration
    trial,         \* the keys a relay has been sent and is trying: [sender, server, key, ok]
    tailed,        \* the key the tailer of each server presents
    chatLogs,      \* table chat_logs: text, timestamp less Zone; history: when, for which line
    revives, paid, \* table revives, and the calls of scoreRevive: line numbers
    opLogs,        \* table op_logs, the rows of 'fly': target, and whether an entry ends it;
                   \* history: the leaves written into the row
    liveCache,     \* g_liveCache: the players of each server's last list
    players,       \* table players: who has been seen on each server
    viewed,        \* the player list each server's subscribers were sent last
    shown, told,   \* the lines that went to subscribers and to the plugins
    pc, job,       \* what each thread does next, and its request
    done,          \* history: lines handled to the end: text, number, start, route
    lost,          \* history: keys whose answer was lost, or that a relay gave up
    asker, crossed,\* history: who asked for each server's key; relays that have had two
                   \* registrations at once, or registered with two servers
    serial, lines, crashes,
    left           \* requests of each sort still to come

relays == <<handed, held, saved, trial, crossed>>
keys == <<code, key, tailed, asker, serial>>
access == <<keys, relays, lost>>
feed == <<chatLogs, shown, told>>
rest == <<lines, left, crashes>>
vars == <<now, access, feed, revives, paid, opLogs, liveCache, players, viewed, pc, job, done, rest>>

NoJob == [kind |-> "none"]
NoPlayers == [s \in Servers |-> {}]

Init ==
    /\ now = Window + Zone
    /\ code = [s \in Servers |-> 0]
    /\ serial = Cardinality(Servers)
    /\ key \in Injection(Servers, 1..serial) /\ tailed = key
    /\ asker = [s \in Servers |-> Tailer]
    /\ handed = [x \in Relays |-> 0] /\ held = handed /\ saved = handed
    /\ trial = {} /\ crossed = {} /\ lost = {}
    /\ chatLogs = {} /\ revives = {} /\ paid = {} /\ opLogs = <<>>
    /\ liveCache = NoPlayers /\ players = NoPlayers /\ viewed = NoPlayers
    /\ shown = {} /\ told = {} /\ done = {}
    /\ pc = [t \in Threads |-> "idle"] /\ job = [t \in Threads |-> NoJob]
    /\ lines = 0 /\ crashes = 0
    /\ left \in Budgets

Begin(t, next, j) ==
    /\ pc[t] = "idle"
    /\ pc' = [pc EXCEPT ![t] = next]
    /\ job' = [job EXCEPT ![t] = j]
Goto(t, next) == pc' = [pc EXCEPT ![t] = next] /\ UNCHANGED job
Spend(sort, k) == left[sort] >= k /\ left' = [left EXCEPT ![sort] = @ - k]
Finish(t) == pc' = [pc EXCEPT ![t] = "idle"] /\ job' = [job EXCEPT ![t] = NoJob]

--------------------------------------------------------------------------------
(* Registration of a relay.                                                 *)

\* POST generate-code, by somebody who hands the code to relays xs.
GenerateCode(s, xs) ==
    /\ Spend("codes", 1)
    /\ serial' = serial + 1
    /\ code' = [code EXCEPT ![s] = serial + 1]
    /\ handed' = [x \in Relays |-> IF x \in xs THEN serial + 1 ELSE handed[x]]
    /\ UNCHANGED <<now, key, tailed, asker, held, saved, trial, crossed, lost, feed, revives, paid,
                   opLogs, liveCache, players, viewed, pc, job, done, lines, crashes>>

\* POST /api/config of relay x is handled by a thread of its own, so that it may ask twice.
Registering(x) ==
    \/ \E t \in Threads : job[t].kind = "register" /\ job[t].sender = x
    \/ \E e \in trial : e.sender = x

\* POST /api/relay/register with a code that is some server's.
Register(t, x, s) ==
    /\ Spend("codes", 1)
    /\ handed[x] # 0 /\ handed[x] = code[s]
    /\ crossed' = IF Registering(x) \/ x \in {asker[u] : u \in Servers \ {s}}
                  THEN crossed \cup {x} ELSE crossed
    /\ Begin(t, "newkey", [kind |-> "register", sender |-> x, server |-> s, answer |-> key[s]])
    /\ UNCHANGED <<now, keys, handed, held, saved, trial, lost, feed, revives, paid, opLogs,
                   liveCache, players, viewed, done, lines, crashes>>

\* Mutant of NewKey: the answer is the key the first query has read.
NewKeyOldAnswer(t) ==
    /\ pc[t] = "newkey"
    /\ serial' = serial + 1
    /\ key' = [key EXCEPT ![job[t].server] = serial + 1]
    /\ asker' = [asker EXCEPT ![job[t].server] = job[t].sender]
    /\ Goto(t, "answer")
    /\ UNCHANGED <<now, code, tailed, relays, lost, feed, revives, paid, opLogs, liveCache, players,
                   viewed, done, rest>>

\* UPDATE servers SET serverApiKey, to a key nobody has had.
NewKey(t) ==
    /\ pc[t] = "newkey"
    /\ serial' = serial + 1
    /\ key' = [key EXCEPT ![job[t].server] = serial + 1]
    /\ asker' = [asker EXCEPT ![job[t].server] = job[t].sender]
    /\ pc' = [pc EXCEPT ![t] = "answer"]
    /\ job' = [job EXCEPT ![t].answer = serial + 1]
    /\ UNCHANGED <<now, code, tailed, relays, lost, feed, revives, paid, opLogs, liveCache, players,
                   viewed, done, rest>>

\* The relay gets the answer, or does not.
Answer(t) ==
    /\ pc[t] = "answer"
    /\ \/ /\ trial' = trial \cup {[sender |-> job[t].sender, server |-> job[t].server,
                                   key |-> job[t].answer, ok |-> FALSE]}
          /\ UNCHANGED lost
       \/ lost' = lost \cup {job[t].answer} /\ UNCHANGED trial
    /\ Finish(t)
    /\ UNCHANGED <<now, keys, handed, held, saved, crossed, feed, revives, paid, opLogs, liveCache,
                   players, viewed, done, rest>>

\* POST /api/relay/auth: a key that is no server's any more is refused, and forgotten.
Try(e) ==
    /\ ~e.ok
    /\ trial' = IF key[e.server] = e.key THEN (trial \ {e}) \cup {[e EXCEPT !.ok = TRUE]}
                                        ELSE trial \ {e}
    /\ UNCHANGED <<handed, held, saved, crossed, lost>>

\* The relay saves the key ...
Adopt(e) ==
    /\ e.ok
    /\ saved' = [saved EXCEPT ![e.sender] = e.key]
    /\ trial' = trial \ {e}
    /\ UNCHANGED <<handed, held, crossed, lost>>

\* ... or gives it up, when the request to try it fails.
Discard(e) ==
    /\ trial' = trial \ {e}
    /\ lost' = lost \cup {e.key}
    /\ UNCHANGED <<handed, held, saved, crossed>>

\* startRelay reads the key once; a relay that runs goes on with the key it has until
\* its process is started again.
StartRelay(x) ==
    /\ held[x] # saved[x] /\ (held[x] # 0 => ~Registering(x))
    /\ held' = [held EXCEPT ![x] = saved[x]]
    /\ UNCHANGED <<handed, saved, trial, crossed, lost>>

RelaySteps ==
    /\ \/ \E e \in trial : Try(e) \/ Adopt(e) \/ Discard(e)
       \/ \E x \in Relays : StartRelay(x)
    /\ UNCHANGED <<now, keys, feed, revives, paid, opLogs, liveCache, players, viewed, pc, job, done,
                   rest>>

--------------------------------------------------------------------------------
(* Requests.                                                                *)

\* validateRelayServerAccess: the key is that of the server the request names.
Accepted(x, s) == key[s] = IF x = Tailer THEN tailed[s] ELSE held[x]

\* The type of the event a line becomes: that of the first keyword in it, if the
\* keyword's expression fits the line; no other keyword is tried after that.
Parsed(l) ==
    LET hits == {i \in DOMAIN Keywords : Keywords[i] \in l.marks}
    IN  IF hits # {} /\ l.fits THEN Keywords[Min(hits)] ELSE "none"

\* A request of one event, or of two log lines.  Each line has a number.
Numbered(ls) == [i \in 1..Len(ls) |-> [n |-> lines + i, type |-> ls[i].type, text |-> ls[i].text]]

Post(t, x, s, route, ls) ==
    /\ Accepted(x, s)
    /\ Spend("lines", Len(ls)) /\ lines' = lines + Len(ls)
    /\ Begin(t, "line", [kind |-> "lines", route |-> route, start |-> now, lines |-> Numbered(ls)])
    /\ UNCHANGED <<now, access, feed, revives, paid, opLogs, liveCache, players, viewed, done,
                   crashes>>

\* POST chat, revive or wound; a chat text in the relay's raw format is parsed first.
PostEvent(t, x, s, type, text) == Post(t, x, s, "event", <<[type |-> type, text |-> text]>>)

\* POST raw.  Lines that are wounds and deaths are the subject of KillFeed.
PostRaw(t, x, s, ls) ==
    Post(t, x, s, "raw", [i \in DOMAIN ls |-> [type |-> Parsed(ls[i]), text |-> ls[i].text]])

Line(t) == Head(job[t].lines)

\* On to the next line of the request, or its end.
EndLine(t) ==
    /\ done' = done \cup {[n |-> Line(t).n, type |-> Line(t).type, text |-> Line(t).text,
                           start |-> job[t].start, route |-> job[t].route]}
    /\ IF Len(job[t].lines) = 1 THEN Finish(t)
       ELSE pc' = [pc EXCEPT ![t] = "line"] /\ job' = [job EXCEPT ![t].lines = Tail(@)]

\* No branch of the handler is for this type.
Skip(t) ==
    /\ pc[t] = "line" /\ Line(t).type \notin {"chat", "revive", "wound"}
    /\ EndLine(t)
    /\ UNCHANGED <<now, access, feed, revives, paid, opLogs, liveCache, players, viewed, rest>>

\* Mutants of Duplicate: whatever was said counts; and nothing does.
DuplicateOfAny(text) == \E r \in chatLogs : r.stamp + Zone > now - Window
DuplicateNever(text) == FALSE

\* The row's timestamp is local time, and what it is compared with is UTC.
Duplicate(text) == \E r \in chatLogs : r.text = text /\ r.stamp + Zone > now - Window

\* A chat message: SELECT the same message of the last five seconds.
CheckChat(t) ==
    /\ pc[t] = "line" /\ Line(t).type = "chat"
    /\ Goto(t, IF Duplicate(Line(t).text) THEN "show" ELSE "log")
    /\ UNCHANGED <<now, access, feed, revives, paid, opLogs, liveCache, players, viewed, done, rest>>

\* INSERT INTO chat_logs, stamped with the time the request came.
LogChat(t) ==
    /\ pc[t] = "log"
    /\ chatLogs' = chatLogs \cup {[text |-> Line(t).text, stamp |-> job[t].start, at |-> now,
                                   n |-> Line(t).n]}
    /\ Goto(t, "show")
    /\ UNCHANGED <<now, access, shown, told, revives, paid, opLogs, liveCache, players, viewed, done, rest>>

\* Mutant of Revive: the points are given first.
ReviveLater(t) ==
    /\ pc[t] = "line" /\ Line(t).type = "revive"
    /\ Goto(t, "score")
    /\ UNCHANGED <<now, access, feed, revives, paid, opLogs, liveCache, players, viewed, done, rest>>

\* INSERT INTO revives ...
Revive(t) ==
    /\ pc[t] = "line" /\ Line(t).type = "revive"
    /\ revives' = revives \cup {Line(t).n}
    /\ Goto(t, "score")
    /\ UNCHANGED <<now, access, feed, paid, opLogs, liveCache, players, viewed, done, rest>>

\* ... then scoreRevive and, over RCON, the warnings to both players.
ScoreRevive(t) ==
    /\ pc[t] = "score"
    /\ paid' = paid \cup {Line(t).n}
    /\ Goto(t, "show")
    /\ UNCHANGED <<now, access, feed, revives, opLogs, liveCache, players, viewed, done, rest>>

\* wsBroadcast, duplicate or not.  A wound does nothing else that lasts.
Show(t) ==
    /\ \/ pc[t] = "show"
       \/ pc[t] = "line" /\ Line(t).type = "wound"
    /\ shown' = shown \cup {Line(t).n}
    /\ IF job[t].route = "raw" /\ Line(t).type # "wound" THEN Goto(t, "plugins") /\ UNCHANGED done
       ELSE EndLine(t)
    /\ UNCHANGED <<now, access, chatLogs, told, revives, paid, opLogs, liveCache, players, viewed, rest>>

\* PluginManager::dispatch: every plugin in turn, whatever one throws.
Tell(t) ==
    /\ pc[t] = "plugins"
    /\ told' = told \cup {Line(t).n}
    /\ EndLine(t)
    /\ UNCHANGED <<now, access, chatLogs, shown, revives, paid, opLogs, liveCache, players, viewed, rest>>

--------------------------------------------------------------------------------
(* POST admin-camera.                                                       *)

Camera(t, x, s, p, action) ==
    /\ Accepted(x, s)
    /\ Spend("flights", 1) /\ lines' = lines + 1
    /\ Begin(t, IF action = "possessed" THEN "enter" ELSE "find",
             [kind |-> "camera", server |-> s, player |-> p, n |-> lines + 1, row |-> 0])
    /\ UNCHANGED <<now, access, feed, revives, paid, opLogs, liveCache, players, viewed, done,
                   crashes>>

Flight(t, open, leaves) ==
    [server |-> job[t].server, player |-> job[t].player, open |-> open, leaves |-> leaves]

\* INSERT a row that ends with the entry.
EnterCamera(t) ==
    /\ pc[t] = "enter"
    /\ opLogs' = Append(opLogs, Flight(t, TRUE, <<>>))
    /\ Finish(t)
    /\ UNCHANGED <<now, access, feed, revives, paid, liveCache, players, viewed, done, rest>>

Flights(t) == {i \in DOMAIN opLogs : /\ opLogs[i].server = job[t].server
                                     /\ opLogs[i].player = job[t].player}

\* Mutant of LastOpen: the last row is taken, left or not.
LastRow(t) == IF Flights(t) = {} THEN 0 ELSE Max(Flights(t))

\* The player's last row, if that ends with an entry.
LastOpen(t) ==
    LET fs == Flights(t) IN
    IF fs # {} /\ opLogs[Max(fs)].open THEN Max(fs) ELSE 0

\* SELECT that row for a leave.
FindFlight(t) ==
    /\ pc[t] = "find"
    /\ pc' = [pc EXCEPT ![t] = "leave"]
    /\ job' = [job EXCEPT ![t].row = LastOpen(t)]
    /\ UNCHANGED <<now, access, feed, revives, paid, opLogs, liveCache, players, viewed, done, rest>>

\* UPDATE it to the details read, with the leave in place of the entry's end, or
\* INSERT a row of the leave alone.
LeaveCamera(t) ==
    LET i == job[t].row
        n == job[t].n
    IN  /\ pc[t] = "leave"
        /\ opLogs' = IF i = 0 THEN Append(opLogs, Flight(t, FALSE, <<n>>))
                     ELSE [opLogs EXCEPT ![i].open = FALSE, ![i].leaves = Append(@, n)]
        /\ Finish(t)
        /\ UNCHANGED <<now, access, feed, revives, paid, liveCache, players, viewed, done, rest>>

--------------------------------------------------------------------------------
(* POST playerlist-raw.  The team map is in KillFeed.                       *)

PostList(t, x, s, ps) ==
    /\ Accepted(x, s)
    /\ Spend("lists", 1)
    /\ Begin(t, "cache", [kind |-> "list", server |-> s, players |-> ps])
    /\ UNCHANGED <<now, access, feed, revives, paid, opLogs, liveCache, players, viewed, done,
                   lines, crashes>>

\* Under g_liveMtx.
UpdateCache(t) ==
    /\ pc[t] = "cache"
    /\ liveCache' = [liveCache EXCEPT ![job[t].server] = job[t].players]
    /\ Goto(t, "view")
    /\ UNCHANGED <<now, access, feed, revives, paid, opLogs, players, viewed, done, rest>>

\* Mutant of PushList: what goes out is the list of the request.
PushOwnList(t) ==
    /\ pc[t] = "view"
    /\ viewed' = [viewed EXCEPT ![job[t].server] = job[t].players]
    /\ Goto(t, "rows")
    /\ UNCHANGED <<now, access, feed, revives, paid, opLogs, liveCache, players, done, rest>>

\* Under g_liveMtx again, broadcast what the cache holds by now ...
PushList(t) ==
    /\ pc[t] = "view"
    /\ viewed' = [viewed EXCEPT ![job[t].server] = liveCache[job[t].server]]
    /\ Goto(t, "rows")
    /\ UNCHANGED <<now, access, feed, revives, paid, opLogs, liveCache, players, done, rest>>

\* ... then INSERT ... ON CONFLICT DO UPDATE each player, in one transaction.
UpsertPlayers(t) ==
    /\ pc[t] = "rows"
    /\ players' = [players EXCEPT ![job[t].server] = @ \cup job[t].players]
    /\ Finish(t)
    /\ UNCHANGED <<now, access, feed, revives, paid, opLogs, liveCache, viewed, done, rest>>

--------------------------------------------------------------------------------
Tick ==
    /\ now < MaxTime
    /\ now' = now + 1
    /\ UNCHANGED <<access, feed, revives, paid, opLogs, liveCache, players, viewed, pc, job, done, rest>>

\* The panel dies and starts again.  Requests, the caches and the answers to
\* registrations are gone; the tailer reads the key that is stored now.
Crash ==
    /\ crashes < MaxCrashes /\ crashes' = crashes + 1
    /\ lost' = lost \cup {job[t].answer : t \in {u \in Threads : pc[u] = "answer"}}
    /\ tailed' = key
    /\ liveCache' = NoPlayers /\ viewed' = NoPlayers
    /\ pc' = [t \in Threads |-> "idle"] /\ job' = [t \in Threads |-> NoJob]
    /\ UNCHANGED <<now, code, key, asker, serial, relays, feed, revives, paid, opLogs, players, done,
                   lines, left>>

Handle(t) ==
    \/ NewKey(t) \/ Answer(t)
    \/ Skip(t) \/ CheckChat(t) \/ LogChat(t) \/ Revive(t) \/ ScoreRevive(t) \/ Show(t) \/ Tell(t)
    \/ EnterCamera(t) \/ FindFlight(t) \/ LeaveCamera(t)
    \/ UpdateCache(t) \/ PushList(t) \/ UpsertPlayers(t)

Request(t, x, s) ==
    \/ x \in Relays /\ Register(t, x, s)
    \/ \E type \in {"chat", "revive", "wound"}, text \in Texts : PostEvent(t, x, s, type, text)
    \/ \E a \in LogLines : PostRaw(t, x, s, <<a>>) \/ \E b \in LogLines : PostRaw(t, x, s, <<a, b>>)
    \/ \E p \in Players, action \in {"possessed", "unpossessed"} : Camera(t, x, s, p, action)
    \/ \E ps \in SUBSET Players : PostList(t, x, s, ps)

Next ==
    \/ \E t \in Threads : Handle(t) \/ \E x \in Senders, s \in Servers : Request(t, x, s)
    \/ \E s \in Servers, xs \in SUBSET Relays : GenerateCode(s, xs)
    \/ RelaySteps
    \/ Tick
    \/ Crash

Spec == Init /\ [][Next]_vars

--------------------------------------------------------------------------------
\* The requests a thread may have, by kind.
LineTypes == Range(Keywords) \cup {"none"}
Registrations == [kind : {"register"}, sender : Relays, server : Servers, answer : LineIds]
Batches == [kind : {"lines"}, route : {"event", "raw"}, start : Nat,
            lines : Seq([n : LineIds, type : LineTypes, text : Texts])]
Cameras == [kind : {"camera"}, server : Servers, player : Players, n : LineIds, row : Nat]
Lists == [kind : {"list"}, server : Servers, players : SUBSET Players]

Jobs == {NoJob} \cup Registrations \cup Batches \cup Cameras \cup Lists

\* The steps of each kind of request.
Steps == [register |-> {"newkey", "answer"},
          camera |-> {"enter", "find", "leave"},
          list |-> {"cache", "view", "rows"},
          lines |-> {"line", "log", "score", "show", "plugins"}]
Phases == {"idle"} \cup Steps.register \cup Steps.camera \cup Steps.list \cup Steps.lines

\* What thread t does next is a step of the request it has.
JobTyped(t) ==
    /\ IF job[t] = NoJob THEN pc[t] = "idle" ELSE pc[t] \in Steps[job[t].kind]
    /\ job[t] \in Registrations => job[t].answer <= serial
    /\ job[t] \in Batches => job[t].lines # <<>> /\ job[t].start <= now
    /\ job[t] \in Cameras => job[t].row <= Len(opLogs)

JobsTyped ==
    /\ pc \in [Threads -> Phases] /\ job \in [Threads -> Jobs]
    /\ \A t \in Threads : JobTyped(t)

\* The type of the rest of the state.
StoreTyped ==
    /\ now \in (Window + Zone)..MaxTime
    /\ serial \in Nat /\ lines \in Nat
    /\ code \in [Servers -> 0..serial] /\ {key, tailed} \subseteq [Servers -> 1..serial]
    /\ {handed, held, saved} \subseteq [Relays -> 0..serial]
    /\ trial \subseteq [sender : Relays, server : Servers, key : 1..serial, ok : BOOLEAN]
    /\ asker \in [Servers -> Senders] /\ crossed \subseteq Relays /\ lost \subseteq 1..serial
    /\ chatLogs \subseteq [text : Texts, stamp : 0..now, at : 0..now, n : LineIds]
    /\ IsFiniteSet(chatLogs)
    /\ opLogs \in Seq([server : Servers, player : Players, open : BOOLEAN, leaves : Seq(LineIds)])
    /\ {revives, paid, shown, told} \subseteq SUBSET LineIds
    /\ {liveCache, players, viewed} \subseteq [Servers -> SUBSET Players]

TypeOK == StoreTyped /\ JobsTyped

\* The check for a duplicate and the INSERT are two statements, but of the copies
\* of a message stamped and logged within one window there are never more than
\* threads, each one a copy that was being handled when the first was logged.
CopiesOverlap ==
    \A r \in chatLogs :
        Cardinality({x \in chatLogs : /\ x.text = r.text /\ x.stamp >= r.stamp
                                      /\ x.at < r.stamp + Window + Zone}) <= Cardinality(Threads)

\* The state has its type, and the copies of a message their bound.
CopiesBounded == TypeOK /\ CopiesOverlap

\* No message is lost to the duplicate check: what a player says is in chat_logs,
\* stamped no longer than a window (and what local time is ahead) before it came,
\* was shown, and has reached the plugins if it came as a log line.
ChatIsServed ==
    \A d \in done : d.type = "chat" =>
        /\ \E r \in chatLogs : r.text = d.text /\ r.stamp + Window + Zone > d.start
        /\ d.n \in shown
        /\ d.route = "raw" => d.n \in told

\* Points for a revive are given only when the revive is in the revives table,
\* wherever the panel dies.
PaidIsRecorded == paid \subseteq revives

\* A flight's row may be written by two leaves that both found it open, and keeps
\* the last; leaves that do not overlap never write over each other.
LeavesOverlap == \A i \in DOMAIN opLogs : Len(opLogs[i].leaves) <= Cardinality(Threads)

\* However lists overlap, what subscribers have been sent last is what the cache
\* holds, or a request is on its way to send it.
ViewersUpToDate ==
    \A s \in Servers : viewed[s] # liveCache[s] =>
        \E t \in Threads : pc[t] = "view" /\ job[t].server = s

\* However registrations overlap, the key the panel accepts is one a relay has saved, is
\* trying or is being sent, or the tailer's: the server is not deaf to everybody.  Unless
\* the key got lost, or the relay that asked for it had two registrations at once
\* (relay/main.cpp:726, on a thread each) or has registered with another server since.
SomeoneIsAccepted ==
    \A s \in Servers :
        \/ key[s] \in lost \/ asker[s] \in crossed
        \/ tailed[s] = key[s] \/ \E x \in Relays : saved[x] = key[s]
        \/ \E e \in trial : e.server = s /\ e.key = key[s]
        \/ \E t \in Threads : pc[t] = "answer" /\ job[t].server = s /\ job[t].answer = key[s]
================================================================================

# Formal specifications of the Squad server panel

TLA+ modules for the C++ back end of the panel (`src/src`) and its relay
(`src/relay`), TLC configurations that check them on small instances, and
theorems about them checked by TLAPS. Paths below are relative to `src/src` or,
where they begin with `relay/`, to `src`; line numbers are those of the commit
the modules were written from.

    tlc -config MCPointsService.cfg MCPointsLedger      # one run
    tlapm PointsLedgerProofs.tla                        # the proofs of one module

`PROJECT.json` lists the components, the runs, a mutation of a mapped definition
that each checked property catches, the source lines of every definition, and
the hazards the properties are aimed at.

## 1. The system

The panel is one process. An HTTP server (cpp-httplib) runs every request
handler on a pool of worker threads. Beside them run the four threads of
`TimedTasks` (RCON refresh, broadcasts, TK checker, session cleanup), one poller
per server in API mode and one log tailer per server in local mode. They share
an SQLite database, the RCON connections and some module-level maps. Two facts
shape every module:

* `Database` holds a recursive mutex for **one statement** (`core/database.cpp`).
  Nothing in the code opens a transaction around a read and the write that
  depends on it. A handler is therefore a sequence of atomic statements with
  those of other threads in between. What a statement refuses (a UNIQUE index, a
  foreign key) is logged and does not stop the handler.
* Log lines come in over HTTP (relay, local tailer) and the plugins run on the
  thread that received them, so two lines of one player can be handled at once:
  a sender gives up waiting for an answer after ten seconds, and handling a
  batch sends RCON commands that can take that long.

| Component | State | Operations | Talks to | What is hard | What makes it correct |
|---|---|---|---|---|---|
| Points (`core/points_service.cpp`, `handlers/points_handler.cpp`) | tables `points`, `point_logs`; the service's mutex | addPoints, deductPoints, adjust | written by scoring, chat commands, CDK, poller | five writers, three ways of writing, one of them locked | a balance is the sum of its log; a call is one step |
| CDK codes (`plugins/cdk_redeem_plugin.cpp`, `handlers/extras_routes.cpp`) | `cdk_codes`, `cdk_logs` | redeem, generate, delete | points, reserved slots | check, grant, count, log: four statements | maxUses, once per player |
| Chat commands (`plugins/chat_commands.cpp`) and reserved slots (`handlers/missing_routes.cpp`) | `point_logs` as cooldown, `reserved_slots` | sign-in, lottery, buy a slot, switch team; give and delete a slot | points, RCON | cooldown read from a log written last | one reward per cooldown; nothing unpaid |
| TK forgiveness (`plugins/tk_forgive_plugin.cpp`, `handlers/tk_handler.cpp`, `tasks/tasks.cpp`) | `tk_forgive` | kill, apology, routes, checker loop | RCON | a deadline raced by an apology; RCON between read and write | forgiven in time is safe; everything is settled |
| Kills (`handlers/event_handler.cpp`, `core/log_parser.cpp`) | wound table, live cache, team map, suicide cooldown, `kills` | raw lines, posted kills, player lists | points, plugins | tables of different age under different mutexes | a kill is credited once, to a fresh wounder or the line's attacker |
| Other events (`handlers/event_handler.cpp`) | `chat_logs`, `revives`, `op_logs`, `players`, live cache | chat, revive, wound, admin camera, player list, raw lines | points, plugins, push | check and insert of one message posted twice; keyword order | nothing said is lost; no points without their row |
| Relay registration (`handlers/relay_routes.cpp`) | `servers.registerCode`, `serverApiKey` | generate, register | event routes | a lost answer, overlapping registrations, a key thrown away | the key the panel accepts is somebody's |
| Log tailer (`core/local_log_tailer.cpp`) | file position | start, read, post, stop | the panel's own HTTP port | torn lines, a new file, size checked before reading | every line once and in order |
| RCON (`net/rcon.cpp`) | one connection per server, one mutex | send, test, remove, health check | game servers | timeouts, retry, late and torn packets, a mutex held over network waits | a reply belongs to its command; at most one retry |
| Remote API poller (`core/remote_api_poller.cpp`) | event cursor, in memory | poll loop with three adapters, manager | other panels; points, players | failures in the middle of a poll; a cursor of whole seconds; restarts | nothing is skipped, nothing stored twice |
| Timed tasks (`tasks/tasks.cpp`) | `tickCounter`, message index, time of the last broadcast | refresh, broadcast, checker, cleanup | RCON, plugins | one counter for many servers; settings changed in between; RCON requests that hang; a stop | every server and every message has its turn |
| Accounts (`core/auth.cpp`, `handlers/auth_handler.cpp`, `handlers/admin_handler.cpp`, `handlers/server_handler.cpp`) | `users`, `sessions`, `user_permissions`, `server_members`, rate-limit map | register, login, logout, administration, members | every route | the role is read once; foreign keys refuse silently; ids are compared as text and looked up as numbers; `last_insert_rowid` is shared | an owner remains; a token is its user's; who is deleted is gone |
| Relay (`relay/main.cpp`) | `g_running`, threads, sockets | start, configure, stop; tail, send | panel, game process | start and stop of threads that meet in one flag | it serves until it is told to stop |
| Bans (`handlers/ban_handler.cpp`) | `bans` | ban, unban | RCON, relay | a row and a command that can fail separately | (see 8) |
| Teams (`handlers/team_handler.cpp`), push (`net/ws_handler.cpp`) | — | — | — | — | (without callers, see 8) |

`PROJECT.json` has the full list, the pure request/response routes included.

## 2. Modules

| Module | Models | Notes |
|---|---|---|
| `PointsAccount` | the promise of `PointsService`: one number per key, every call one step | abstract specification |
| `PointsLedger` | the five writers of `points`/`point_logs`, statement by statement | implements `PointsAccount` when only the service writes |
| `CdkRedeem` | a code's life, and redemption as find, check, check again, grant, count, log | a grant's points are one step: their statements are `PointsLedger`'s |
| `ChatCommands` | the four commands that change state, the panel's slot routes, and whoever else writes the balance | one game server |
| `TkForgive` | the TK table, the plugin, the routes, the checker | two clocks: UTC, and local time where the route writes it |
| `KillFeed` | wounds and deaths in `/api/events/raw`, `/api/events/kill`, player lists, the parser's wound table | a player stands for name and id; names that contain one another are a constant |
| `EventIngest` | every other event route, the keyword dispatch of log lines, relay registration and the keys senders hold and present | a message stands for its author and server too |
| `LocalLogTailer` | one tailer, the log file byte by byte (two bytes and an end per line), the panel's restarts | unsigned file position of `Width` bits |
| `RconPool` | pool and client: every packet sent and received under the pool's mutex, with servers and network beside it | one operation at a time, because the code holds the mutex throughout |
| `Accounts` | users, sessions, permissions, servers, members and plugins, the login rate limit | statement by statement, with the foreign keys |
| `RemotePoller` | the poll loop of one server with its adapter; the other panel is external | started and stopped by `Collectors` |
| `TimedTasks` | the refresh loop with tick-rate sampling, the broadcast loop, the loops of checker and cleanup | started and stopped by `Collectors` |
| `Collectors` | `main`: starts `RemotePoller` and `TimedTasks`, stops them one after the other, or dies | composes the two |
| `RelayMain` | the relay's main, startup and handler threads and its shutdown | one violation run |
| `PointsLedgerProofs`, `CdkRedeemProofs`, `ChatCommandsProofs`, `EventIngestProofs`, `KillFeedProofs`, `RconPoolProofs`, `AccountsProofs` | theorems about the module of that name | TLAPS, see 5 |
| `BackgroundProofs` | theorems about the threads without a request: `TkForgive`, `LocalLogTailer`, `Collectors` | the first two prefix their `Init`, `Next`, `Spec` with `Tk` and `Tailer` |

The `MC…` modules give values a `.cfg` cannot write. Every module has the same
layout: constants with a named assumption, variables, one action per statement
or lock region of the code (the comment above it says which), `Next`, `Spec`,
`TypeOK`, properties. `pc` is the place of a thread in its handler and `job` (or
`req`) its local variables. A name with the comment "Mutant of" is a plausible
mistake in that definition: it is used by no specification, only by the
sensitivity check of the property it must break.

How state and actions correspond to the code:

* **PointsLedger.** `row` is the `points` row of a (server, player) key with its
  id, because `UPDATE … WHERE id=?` is how the code names what it read and the
  poller's `INSERT OR REPLACE` gives the row a new id. `logged` is the sum of
  `point_logs`. A thread goes `Begin`, `Lock` (service only), `Read` (the SELECT
  and the early returns), `Write` (UPDATE or INSERT; absolute in the service and
  in adjust, relative in chat and CDK), `AppendLog`. adjust looks its row up by
  player only (`points_handler.cpp:91`), so it can write another server's row;
  `Matching` has that.
* **CdkRedeem / ChatCommands.** The steps of `handle` in order. `disturbed` is a
  history variable: what two threads worked on at once, or a crash interrupted.
  Properties that the code keeps only one line at a time are stated for the
  rest, and a second property bounds what the disturbed ones can do. `GiveSlot`
  and `TakeSlot` are the panel's routes; the unique index on (server, player)
  makes the slots a set and lets `GiveSlot` be one step. `OtherWriter` changes a
  balance at any moment, as scoring, adjust and the poller do
  (`event_handler.cpp` 548-591, `points_handler.cpp:90-101`,
  `remote_api_poller.cpp:507`); `lost` is what it took after a check. `Move` is
  executed up to twice, because `RconPool::send` retries (`RconPool!AtMostTwice`).
* **TkForgive.** `handleChat` reads its rows once and then updates and announces
  one after the other; `CheckerRead` / `CheckerKick` / `CheckerMark` do the same
  for the checker. One kick is executed not at all, once or, by the retry of
  `RconPool::send`, twice, which the code does not tell apart.
* **KillFeed.** `Post` takes the lines of one server in order, any number at a
  time, on any idle thread; `StoreWound` and `ParseDie` are one lock region
  each; `Resolve` is `findSteamIdByName` with its substring match; `PostKill` is
  the route that takes a kill without a log line. Player lists update the cache
  and the team map one after the other. A line keeps the player who died, `Meant`
  is whom his name can be taken for; `Similar` has the pairs of names one of which
  contains the other.
* **EventIngest.** A request holds a server's lines; `Parsed` is `processLine`:
  the first keyword in the code's order decides, and if its expression does not
  fit the line is nothing. `CheckChat`/`LogChat` are the SELECT and the INSERT of
  the duplicate check, with the local time of the one and the UTC of the other
  (`Zone`). `Show` and `Tell` record broadcasts and plugin dispatch. `NewKey` and
  `Answer` are the UPDATE of a registration and the answer, which may be lost.
  The relay's side is `relay/main.cpp` 725-745: every `POST /api/config` has a
  thread of its own, so registrations of one relay overlap; the key of an answer
  is in `trial` until `/api/relay/auth` has been answered (`Try`), and is then saved
  (`Adopt`) or dropped (`Discard`). A running relay keeps the key it was started
  with (`held`) until it is started again (`StartRelay`). `crossed` are the relays
  with two registrations at once, or one with another server since. A key typed in
  by hand is left out. The relay's own web server does not get that far in this
  commit (`relay_main`); the module shows what the registration is worth when it does.
  `FindFlight` reads an admin-camera row that `LeaveCamera` writes back.
* **LocalLogTailer.** `CheckSize` and `ReadLines` are separate because the file
  grows between them; `PositionAfterRead` is `tellg()` on a stream whose last
  `getline` failed. `Split` says what the loop over `getline` returns: the pieces
  between line ends, in order, without the empty ones. `TailerStart` and
  `TailerStop` are `start` and `stop`.
* **RconPool.** A packet is the call it belongs to and whether it is the empty
  end-of-reply packet. `Finish` has the one retry of `send`. A server may answer
  late, never, or after the connection was closed (`ServeOrphan`). `Tear` delivers a
  packet in part and `Mend` the rest: in between, `Blocked`, the operation that reads
  waits in `recv(..., MSG_WAITALL)` without a timeout (`rcon.cpp:73`, `:80`).
  `Authenticate` reads the two packets a new connection begins with.
* **Accounts.** `Start` is `registerRoute`'s wrapper: it looks the token up once
  and copies user and role into `req`; the handler's statements follow, each an
  action. `lastId` is the connection's `last_insert_rowid`, which a registration
  reads back while other threads insert. `Referenced` is what a foreign key
  refuses a DELETE for: sessions, permissions, and what a user has `Made`, servers
  and plugins (`AddPlugin`, `DropPlugin`). `plugin_sources` refers to users too, but
  no code inserts into it (`misc_handler.cpp` 228 and 242 only read), so its key never
  refuses anything. `self` is the handler's `userId == ctx.userId`, a comparison of
  text: it may be false for one's own row (`/users/01`), which `misspelt` records.
  `raced` is the history of overlapping requests, `stopped` of crashes in a creation
  or deletion, `forgotten` of the counts a restart has lost.
* **RemotePoller.** `PollPlayers`, `FetchEvents`, `StoreEvent` (INSERT and
  cursor, an event at a time), `PollBoard` (a page at a time) follow `pollLoop`;
  each request may fail, which an adapter turns into an empty answer. Events are
  numbered in the order of their times, so that the set `batch` and its least
  element stand for the list and the loop's place in it. `remote`
  and `score` are the other panel. `Offers` says what an adapter can get.
* **TimedTasks.** `ListPlayers` and `ShowServerStats` ask one server at a time;
  `NotYet` and `Broadcast` are the branches of `broadcastLoop`, `Edit` the settings
  route. `Broadcast` notes its time (`tasks.cpp:134`) and takes the message,
  `SendBroadcast` sends it to one server after the other, for as long as that takes:
  `delay` is how long after the note. `CheckerWakes`/`KickNext` and `Cleanup` are the
  other two loops. `stuck` stands for `RconPool!Blocked`: while a request hangs in the
  middle of a packet (`Hang`, `Recover`) nobody else's gets the pool either.
* **Collectors.** `Start`, `Signal`, `JoinPollers`, `JoinTasks` are `main.cpp`
  118-143 in order, and `JoinTasks` waits for all four threads of `TimedTasks`; the
  flag each join waits behind is the `running` argument of the two modules' steps. `focus` restricts a run to some of the threads: refresh,
  checker and cleanup together, the broadcaster and the poller each with its
  surroundings. They share nothing but RCON's lock (`stuck`) and the order in which
  they are stopped.
* **RelayMain.** The actions are named after the functions of `relay/main.cpp`;
  `running` is `g_running`, false until `startRelay`.

## 3. Runs

| Run | Configuration | Checks |
|---|---|---|
| `points_service` | 3 threads, 2 players, 4 calls, 1 crash, writers add/deduct | until a crash the ledger is exact (`LedgerBalanced`); a crash tears at most one (`CrashTearsOneLedger`); refinement of `PointsAccount` |
| `points_mixed` | 2 threads, 2 servers, 3 calls, 1 replacement, writers add/deduct/adjust/cdk/sync | updates may be lost, but no balance exceeds what its row has earned |
| `cdk` | 2 threads, 2 players, 3 codes, 4 lines, 1 crash | `UsesBounded`: maxUses for undisturbed codes, its bound for the others, usedCount covers the logged uses; `OncePerPlayer` |
| `chat` | 2 threads, 1 player, 4 commands, two cooldowns, 1 slot taken back, 1 change by another writer, 1 crash | `OncePerCooldown`; `BalanceBounded`: one line at a time overdraws by no more than other writers took after the check, two by one command of the other thread besides; `PaidOnce`: one payment per slot, nothing served unpaid, at most two moves per payment |
| `tk` | 1 HTTP thread and the checker, 2 rows, kicks executed 0–2 times, 1 crash | `KicksJustified`: an apology in time protects, one kick request (two executions) per start; never early; every row is settled |
| `kill_feed` | 2 threads, 3 players, one whose name contains another's, 3 events, 1 crash | `WoundDecidesItsDeath`: one death per wound, fresh credit; `TkWasMate`: fines for the deaths of those who were mates, or whose names fit one; rows before points; suicides a cooldown apart |
| `tailer_once` | 4 lines, 1 new file, 3 starts, POSTs may fail | no piece of a line posted twice or out of order |
| `rcon` | 2 threads, 1 server, 3 operations, replies of 1 and 3 packets, cap 2, packets that arrive in part | at most two executions; `StreamIsOwn`: streams in step, replies their own; calls return unless a packet stays in part for ever |
| `accounts` | 2 threads, 4 databases to start from, 2–3 requests or 5 failed logins, 1 crash | `OwnersKept`, `TokenIsOwn`, `ServersOwned`, `DeletedIsGone`, `AttemptsBounded`, `RejectionStands` |
| `ingest` | 2 threads, 2 servers, 2 relays and the tailer, 5 budgets (3 lines; 4 camera events; 3 lists; registrations with a line, and without), 1 crash | `CopiesBounded`, `ChatIsServed`, `PaidIsRecorded`, `LeavesOverlap`, `ViewersUpToDate`, `SomeoneIsAccepted` |
| `collectors` | poller, broadcaster, or the three other tasks; 5 adapters, 3 remote events, 2 changes of the board; 2 servers, every third list; lists of 2 messages, one spoiled; 2 failed or hanging requests, 2 starts | `CursorIsExact`, `RemoteCatchesUp`, `StoppedIsQuiet`, `StopReturns`, `BroadcastsSpaced`, `MessagesRotate`, `EveryServerSampled` |
| `relay_main` | the relay as it is, with and without a saved configuration | **violation** of `ServesUntilShutdown` |

The property names that say two things (`UsesBounded`, `BalanceBounded`,
`PaidOnce`, `KicksJustified`, `PostedOnceInOrder`, `StreamIsOwn`,
`WoundDecidesItsDeath`, `OwnersKept`, `CopiesBounded`, `CursorIsExact`) are
conjunctions of named parts, defined just above them; some of them carry the
module's `TypeOK`.

**Bounds.** The hazards are races of two or three parties, so two threads (three
where a lock serialises them) and two players (one where players do not
interact, three where one is to be taken for another's mate) contain each shape. The numbers of calls are the smallest that contain
the longest scenario a property is about: overrunning a code takes two pairs of
concurrent redemptions around a crash (4 lines), losing the packet framing takes
a cut-off reply, another operation and one that reads the rest (3 operations), a
wound that decides two deaths takes three lines, buying a slot twice takes two
rewards and two purchases (4 commands), a third copy of a message takes three
lines, two registrations that pass each other take four steps, a relay that registers
elsewhere takes two servers, and filling two rate windows takes `2 * MaxAttempts`
attempts and one more. `MaxTime` exceeds the
longest interval the code compares (deadline, cooldown twice, wound expiry, the
window of the duplicate check and the time zone). Each property is known to be
reachable by the listed mutation under exactly these bounds. `accounts` and
`ingest` start from several small databases or budgets instead of one large one:
requests of different sorts do not touch the same tables. Amounts are small but
keep the shape of the settings: a kill earns more than a team kill costs in
number of calls, a slot costs more than a team change. Widths, packet caps and
windows (64 bits, 64 packets, 30 s, 10 s, a tenth list, 100 entries a page) are
constants scaled down with their order kept; `TickEvery = 3` and two servers have
no common divisor, which is the case the property promises. Symmetry is declared
over threads (in `cdk` and `ingest` over players, in `ingest` over relays too)
and never in a run with a liveness property.

**Fairness.**

* `TkForgive`: the clock ticks and the checker's thread is scheduled (its loop
  swallows exceptions, `tasks.cpp:173-177`); HTTP threads need not make progress.
  That the checker's kick returns presupposes the premise of the next two.
* `RconPool`: a thread that waits for the mutex gets it if it is free again and
  again (`WF` of `Acquire`, sufficient because calls are bounded), and one that
  holds it runs: before a packet begins every wait has a `poll` timeout, so
  `ReadTimeout` is enabled whenever nothing of a packet is there. Once a part is, the
  read has no limit (`rcon.cpp:73`, `:80`), and no step of the thread is enabled:
  `CallsReturn` has the premise that no connection stays `Blocked` for ever, and
  TLC finds it violated without (see 4). Nothing else is assumed of servers and network.
* `Collectors`: the background threads run on (their loops catch everything), the
  broadcast clock ticks and `main` returns from its joins. Requests to other
  machines may fail `MaxFailures` times in all, at any place; what is promised
  is promised of the time after. A RCON request may hang instead (`HangStep`), and
  nothing makes it return: `RequestsReturn`, the same premise as `CallsReturn`'s, is
  one of `StopReturns`, `MessagesRotate` and `EveryServerSampled`. Nothing makes the
  panel stay up either: `UpForGood` is a premise, and `StopReturns` allows for a crash.

The other modules are safety only. Deadlock checking is off everywhere: bounded
calls end, and an idle panel is legitimate.

## 4. Where code and description part

**Shown by a run.** `relay_main`: `g_running` is false from the start
(`relay/main.cpp:680`) and only `startRelay` sets it, so the web server's loop
`while(g_running)` ends before its first connection, and the startup thread asks
for the flag before it calls `startRelay`. The comment at `:1059` calls the server
"blocking until shutdown". With a saved configuration the process ends in
`std::terminate`, since the startup thread is not joined. Were the flag true from
the start, a signal between `WakeUp` and `startRelay` would be undone by the
latter, and the shutdown would wait for ever.

**Exceptions the checked properties name** (each is reachable without its
exception):

* Two lines handled at once exceed a code's maxUses by one, are both rewarded
  for one sign-in, or pay twice for one slot; so does a slot the panel gives
  between a purchase's check and its INSERT (`missing_routes.cpp:158`). A crash
  between reward and log entry lets a player redeem a code again (`disturbed`).
* `POST /api/points/adjust` reads a balance and writes an absolute one without
  the service's mutex (`points_handler.cpp:90-99`), so that an adjustment and a
  scored kill can overwrite each other while both are logged: `LedgerBalanced`
  is stated for the service's writers.
* What such writers, scoring or the poller take from a balance after a chat command
  has checked it is missing when the command pays: the balance can go below zero by
  as much (`lost` in `BalanceBounded`).
* `RconPool::send` sends a command again when its connection dies
  (`rcon.cpp:242-254`), though the server may have executed it: a player who paid once
  can be moved twice, that is, back, and a kick is executed twice (`ServedIsPaid`,
  `KicksJustified`).
* The victim of a death is looked up by name, and a name that contains another's or
  is part of it will do (`event_handler.cpp:146-150`): who kills an enemy is fined for
  a team kill if the enemy's name fits a mate's (`Meant` in `TkWasMate`).
* The comment at `net/rcon.cpp:92` says "using poll-based timeouts throughout", and
  `recvPacket` polls before each read; but it reads with `recv(..., MSG_WAITALL)`
  (`:73`, `:80`) from a socket made blocking again (`:175`). A server that sends a
  part of a packet and then nothing, without closing the connection, holds the thread
  and `poolMtx_` (`:238`): no RCON request of any thread for any server returns, the
  TK checker and the broadcasts stand still, and the stop waits for them
  (`Blocked` in `CallsReturn`, `RequestsReturn`).
* A chat command that costs points also lowers `lifetimeEarned`
  (`chat_commands.cpp:94`), which is why `BalanceWithinEarned` excludes that
  writer: the column no longer bounds anything.
* The route that creates a TK writes the deadline in local time
  (`tk_handler.cpp:64-71`) and the checker compares with UTC; the run has
  `Zone = 0`, where the hazard cannot show, and east or west of it a kick comes late
  or early. The proof covers `Zone >= 0` (see 5).
* Two first registrations at once both found the panel as owner; two owners who
  delete each other at once leave it to the next registration; a registration
  may get the row id of another thread's INSERT, and with it a session of that
  user; a login that passes a deletion puts a session back (`raced`).
* "One's own id" is compared as text and looked up as a number: an owner who asks for
  `/api/admin/users/01` instead of `/1` can delete or demote himself, and one who asks
  for `/members/01` can leave his server or give up his role in it
  (`admin_handler.cpp:208`, `:227`, `:271`, `server_handler.cpp:232`, `:254`;
  `misspelt`).
* The deletion of a user who created a server or added a plugin is refused by the
  foreign key and answered with "Deleted" (`admin_handler.cpp:205-221`,
  `database.cpp:315-341`); a crash between the two INSERTs of a new server, or in the
  deletion of an owner, leaves a server without an owner (`stopped`).
* A fixed window lets an address through up to `2 * MaxAttempts - 1` times in
  one stretch of the window's length (`auth.cpp:189-202`), and since the count is in
  memory, `MaxAttempts` times more for each restart in it (`forgotten`).
* A relay is locked out when the answer to its registration is lost, when it has two
  registrations at once and keeps the older key, when `/api/relay/auth` fails after a
  registration and the new key is thrown away (`relay/main.cpp:736-741`; it is in
  `lost`), and when it registers with another server (`crossed`): a server can then have
  a key that nobody holds (`SomeoneIsAccepted`).
* `lastBroadcast` is noted before the messages are sent (`tasks.cpp:134`, `:146-149`).
  A server can get two broadcasts closer than the interval, by as long as the first
  took to reach it (`delay` in `BroadcastsSpaced`).
* Chat rows carry local time and the duplicate check compares with UTC: east of
  it a message is taken for a duplicate longer, west of it never (`Zone`).
* An event in the same second as the cursor is skipped or stored twice, according
  to how the other panel reads `since`; the cursor is in memory, and a restart
  stores everything the other panel still offers once more.
* Tick rates: one counter serves all servers, so that with 2, 4, 5, 6, 8 or 10
  servers some are never sampled; the comment at `tasks.cpp:77` speaks of one
  sample every ten rounds.
* A broadcast list with an entry that is not a string stops at that entry:
  `msgIndex` has not moved when `get` throws.
* If the leaderboard's limit is not a multiple of the page size the other panel
  grants, the last page is asked for in its own, smaller size and repeats
  players from the middle (`remote_api_poller.cpp:385-408`, `PagesAlign`).

**Seen while modelling; modelled as the code has it, no property about it:**

* After the first read the tailer's `lastFilePos_` is 2^64-1
  (`local_log_tailer.cpp:92`); no later line is read until the next start.
* A death without attacker takes the wounder's id from the wound table as the
  *victim's* (`log_parser.cpp:345`, `:360`, `:376`), who is charged for a suicide.
* A code generated with the default prefix `cdk` is stored in lower case and
  looked up in upper case (`cdk_redeem_plugin.cpp:35`, `extras_routes.cpp:39`).
* An apology recorded after the checker has read the row is announced and the
  kick follows; a kick the server never received is marked as done
  (`tasks.cpp:163-171`).
* Approving a user leaves the role `pending`; a rejection works on any status,
  one's own account included, and keeps the sessions.
* A duplicate message is still broadcast, and given to the plugins. A message
  posted to `/api/events/chat` never reaches them. A message that quotes the
  keyword of an earlier branch of `processLine` is not recognised as chat.
* Registering a relay makes the key of another relay, and the one the tailer has
  read at start, stale.
* A panel that polls a panel of this code gets nothing: there is no
  `/api/players/online`, `/api/events/log` answers with a bare array, and the
  leaderboard's field is `data`. The PluginSquad adapter with its default port speaks
  plain HTTP to port 443 (`remote_api_poller.cpp:347`), so what `RemoteCatchesUp` says
  of it needs a configured port. `ping` is reached after five failures that
  cannot be counted, because the inner handlers swallow them.
* The panel's calls to the relay for slots and admins carry no key
  (`missing_routes.cpp:29`, `admin_handler.cpp:33`).

## 5. Proofs

Each theorem holds for all sets of threads, servers, players, codes and amounts
and for all bounds its module's assumption allows (`LedgerAssumption`,
`CdkAssumption`, `ChatAssumption`, `TkAssumption`, `IngestAssumption`,
`FeedAssumption`, `TailerAssumption`, `RconAssumption`, `AccountsAssumption`,
`PollerAssumption`, `TasksAssumption`, `CollectorsAssumption`).
These assumptions only say what kind of thing a constant is (times and costs are
numbers, sets that are counted are finite, "nobody" is no player, a list is a
sequence), and TLC evaluates them in every run. The tailer's also says that no file
has 2^Width - 1 bytes, so that this position is behind every byte. `Accounts` starts
from databases, and its `SnapshotsAssumption` says which: any that satisfies the
schema, with ids without gaps, an active owner if it has users, and an owner on every server, which is what
sequential requests without a deletion or a rejection leave. Gaps, rejected
accounts and what races leave are states the model reaches from there. Where a
theorem needs more, it says so in an `ASSUME`, named below. Every safety and action
property of a passing run is a theorem. A module's `TypeOK` is part of its
invariants; it says which phase of a handler goes with which job, so that a
thread's local variables exist when they are read.

A property the runs check is rarely inductive. What each proof adds is what the
code's author must have had in mind without writing it down:

**Points** (`PointsLedgerProofs`).

* `ServiceKeepsLedger`: if `Writers \subseteq {"add","deduct"}` then
  `[]LedgerBalanced`. `LedgerBalanced` speaks of moments between two writes only.
  The invariant is `ServiceInv /\ (crashes = 0 => LedgerExact)`: every thread past
  `Lock` holds the mutex (`ServiceLocked`), what it read is still the row
  (`SnapshotCurrent`), a key without a row has balance 0, and the balance is the
  log sum *plus the pending change of the mutex's holder*. The crash is the one
  step that breaks the last part.
* `ServiceCrashTearsOne`: under the same restriction, the keys that are torn and
  not pending number at most `crashes`, because only the holder is pending and a
  crash can make a torn key of that one only (`TornInv`).
* `ServiceImplementsAccount`: under the same restriction `Spec => AccountSpec`,
  crashes included. Only `Write` changes a balance; `SnapshotCurrent` says that
  the absolute value it writes is the current one plus the delta, and that a
  deduction is still covered.
* `NoPointsMadeUp`: with every writer but the chat commands, and non-negative
  CDK rewards, `[]BalanceWithinEarned`. Mutual exclusion is no help here, so the
  invariant follows incarnations instead: a snapshot with the row's present id
  was within what that incarnation had earned, earned totals only grow, and ids
  never come back (`SnapshotWithinEarned`, `Grown`).

**CDK codes** (`CdkRedeemProofs`).

* `UsesAreBounded`: the limit is exact for undisturbed codes because one thread
  at a time redeems such a code (`Alone`) and its copy of the row is the row
  (`UsesExact`). For the others the count and the threads past the check are
  related (`UsesStretched`): while the count is short of the limit each thread can
  be past the check once, and what crashes keep from being counted is what the
  threads of their moment had granted. `UsesLogged` does the same for the log.
* `OnceForEachPlayer`: a player without a log entry, and without one on the way,
  has had nothing (`FirstUse`). The model counts grants in a history variable,
  since a deleted code takes its row with it.

**Chat commands** (`ChatCommandsProofs`).

* `ChargesBounded`: whoever has passed the balance check of an undisturbed player
  is still covered (`Covered`), but for what other writers took since (`lost`, which
  starts anew with a check). For several threads `OverdraftOpen` counts those
  that have passed and not paid: with n of them there is room for the N - n
  payments made before, and one of the n is covered on top. Finite sums are
  avoided by bounding with the highest cost, whose existence is proved.
* `ServedIsPaidFor`: payments cover the services, a team change counted as served by
  one payment however often it is executed, and the threads between `pay` and `grant`
  (`Accounted`), and an undisturbed player without a slot has
  had every paid slot taken back (`SlotOwed`).
* `RewardsOncePerCooldown`: the newest log entry of a player who has won k times
  is no earlier than k-1 cooldowns, or the clock is, while the entry is still to
  be written (`RewardsSpaced`).

**Team kills** (`BackgroundProofs`).

* `CheckerIsJust`: whom the checker has read and not yet kicked was due and not
  forgiven at the time it read (`DueFirst`), and apologies never leave a row. Two
  executions per row and run of the panel are an invariant only with the kick still
  to come counted in, as the two it can be (`KickBudget`, `ToKick`).
* `TimeToApologise`, assuming `Zone >= 0` or that the route that creates rows is
  not used: that route writes the deadline in local time, and west of Greenwich
  the property is false (see 4).

**Log tailer** (`BackgroundProofs`).

* `LinesPostedOnce`: the bytes of a file are written in order (`Growing`), so that
  what has been sent, followed by what is held, is a row of lines that end before
  the next begins (`Ascending`), and all of them end before the place the game
  server has reached. The step that matters is a reading: what is in the file
  behind the position must be later than everything sent (`Fresh`). A start puts
  the position at the end of the file, so it holds of the bytes to come, and after
  a reading the position is 2^Width - 1, behind everything (`NposFacts`).
* That `Split` returns its lines in order (`SplitOrder`) needs the line beginnings
  to be sortable, for any number of them. Induction over data is out of reach here;
  `Sortable` and `OrderedSet` go by a least counterexample instead, which the
  library's theorems about well-founded orders give without an operator parameter.

**Remote poller, tasks and their stop** (`BackgroundProofs`). One invariant,
`CollectorsInv`, for the composed specification: each of its parts names one
module's variables, and a step of one module keeps the others' parts.

* `CursorExact`: that the cursor leaves nothing behind (`CursorIsSafe`) says
  nothing of the time while a batch is stored. `NothingSkipped` does: before an
  event in hand, everything has been recorded, is in hand too, or is hidden by an
  earlier event of its second; and the cursor is the time of an event that *was*
  handled, with everything before it seen. That last part is what a `since` that
  excludes the second needs. `NothingRepeated`: a process that is told later
  events only has not stored what it holds or will be told, so its copies stay one
  behind the number of starts until it stores them.
* `StoppedQuiet`: a thread runs only in the phases its join allows, and each join
  waits for its threads (`ThreadsLast`), all four of the tasks included.
* `MessagesSpaced`: the time since a server got a message plus the time it took to get
  there is at least the time since `lastBroadcast`, and at least the interval for a
  server that the present message has still to reach (`Spacing`), over restarts and
  edits of the settings too. That a server is listed once is in `TasksAssumption`; the
  code takes the list from a primary key.

**Events** (`EventIngestProofs`).

* `PaidAfterTheRow`: a thread about to score has its row in the table.
* `NoMessageIsLost`: at each stage of a line, what has been done with it so far
  (`LineServed`); a duplicate is skipped only because a copy that was logged
  within the window was found, and rows are never removed.
* `CopiesAreBounded` and `LeavesOnlyOverlap` have one shape: copies in the table
  and threads about to write another are *different threads'* (`CopiesFit`,
  `LeavesFit`), hence together at most as many as threads. For copies the
  earliest one is needed, which a well-founded minimum provides.
* `ViewersFollowTheCache` needs nothing but `TypeOK`.
* `NotDeafToAll`: a relay that has not `crossed` has one registration, in flight or on
  trial (`OneAtATime`). A key that is the panel's was asked for by the relay it has
  been sent to, and a relay that asked for the panel's key is sent that one and no
  other (`KeysFit`): so what it saves next is what the panel accepts.

**Kills** (`KillFeedProofs`).

* `RowBeforePoints`: `KillFirst`, as above.
* `FinedForMates`: whoever a name is resolved to is among those the line can mean
  (`Meant`); every roster in the game, in a list under way and in the team
  map was one (`RostersWere`), and what a thread will fine was looked up there
  (`TkPending`).
* `SuicidesAreApart`: the last suicide of a server is no earlier than any charged
  or about to be, and all of these are apart (`ChargesApart`); a line without an
  attacker is scored as a suicide only by way of the cooldown
  (`NoOtherSuicide`). Needs `Cooldown <= MaxTime`, in `FeedAssumption`.
* `WoundsDecideDeaths`: no line is in two places (`LinesDiffer`), one that has not
  been handled is not stored and has decided nothing (`LinesUntouched`), what is
  stored has decided nothing and is stored once (`StoredUnspent`), and was stored
  when it says (`WoundsWere`).

**RCON** (`RconPoolProofs`). `Mutual` says that one thread holds the pool and that
phase, connection and reply are those of its operation (`Stage`); the fifteen or
so things such a thread can do are first derived from the actions
(`HoldingCases`).

* `CommandsRunTwiceAtMost`: a command is *spent* once it is executed, on its way
  on a connection, or left to the network (`Spent`). It is on its way once
  (`LiveOnce`), so servers, network and closing a connection only move it between
  the three (`Steady`); `Budget` bounds what an operation may have spent by the
  attempts it has made, and has no second copy sent while the first can still be
  on a connection the panel holds.
* `RepliesAreOwn`: a connection that nobody uses is quiet, and on one in use what
  ends the reply comes last (`StreamSound`): an operation that stops earlier marks
  the connection dead, erases it, or has been cut off at the cap.

**Accounts** (`AccountsProofs`). `Keys` is what the schema enforces, together with
what each phase of a handler carries in its request, and that ids are never given
twice; `Undisturbed` is everything that holds only until two requests overlap.

* `TypeCorrect`: the foreign keys hold because `InsertSession` and the member
  INSERTs are refused when the user has gone, and the DELETE of a user while
  anything refers to it.
* `RejectedForGood`: the only statement that sets another status asks for
  `pending`; needs `TypeOK` and nothing else.
* `TokensAreOwn`: tokens are drawn in order (`Drawn`), and the row a login has
  read is still that user's or gone for good (`LoginSure`), so no interleaving
  can give its session to another. A registration reads the row id back from the
  shared connection, so for it the theorem stops at the first overlap.
* `OwnersStay`: the founders alive and the registrations that have seen an empty
  table are together at most as many as threads (`Crowd`), since whenever a
  registration sees an empty table no founder is alive. A plain count of founders
  is not bounded: two owners who delete each other at once empty the table, and
  the next registration founds the panel again.
* `OwnersStay` (the owner remains), `ServersStayOwned`, `DeletedUsersAreGone`:
  one request at a time (`Alone`), no own id in another spelling, and what it has checked or written is still so
  at its next statement (`Sure`): the name is still free, the caller is still an
  active owner and not its own target, the sessions it deleted have not come back.

* `AttemptsLimited`: `recent[k]` counts what was let through in the last k ticks, a
  history variable kept without sums. The invariant (`Tally`) compares it, for every
  k, with the counter in force: what came since the open window began is all in the
  counter, and a longer stretch holds less than `MaxAttempts` more, because it
  reaches into one earlier window and not to its first attempt. A restart empties the
  counter, and `forgotten[k]` gains what it may have held.

**Checked by TLC only.**

* Liveness (`EveryTkSettled`, `CallsReturn`, `RemoteCatchesUp`, `StopReturns`,
  `MessagesRotate`, `EveryServerSampled`): outside the prover.
* `RelayMain`, whose one property is violated.

## 6. What the models leave out

SQL failures other than those the schema itself causes (unique indexes, foreign
keys): `Database::exec` logs and goes on, so any single statement can be lost on
a full disk. Formatting, JSON, HTML escaping, password hashing, token generation.
Several panels on one database. In `KillFeed` the wound warnings, in
`LocalLogTailer` a file that is truncated in the middle of a line, in
`EventIngest` the team map of a player list (it is in `KillFeed`), in `Accounts`
the password reset and the settings of a server. `Collectors` looks at the
background threads in three groups, and the tailers stop before the pollers without a
thread of theirs in it (`local_log_tailer.cpp:45-48` is `LocalLogTailer.TailerStop`).

## 7. Plan

Every safety and action property that a passing run checks is a theorem; what is
checked and not proved is liveness. What a further step could do: join threads of
the tailer in `Collectors`, so that its stop is part of `StoppedIsQuiet`; the line
deduplication and batch sender of the relay, once its main reaches them.

## 8. Not modelled

* **Bans**: the row is inserted before `AdminBan` is sent, whatever that returns,
  and deleted after the unban at the relay, whatever that returns; nothing reads
  the rows but lists and exports, and none expires. The panel promises nothing of the two.
* **The rest of the relay**: line deduplication, batch sender, log tail, restarts
  of the game process, edits of the server's cfg files. As `relay_main` shows,
  the code is not reached.
* **WebSocket push**: `registerClient` has no callers and `ws_server.h` no
  implementation; `EventIngest` records what would be sent.
* **Teams**: `registerTeamRoutes` is called nowhere and the schema lacks the tables.
* **CRUD and report routes**: one statement each, atomic by the SQLite mutex.
* **Small plugins**: they keep no state; nothing dispatches the event the switch
  lock waits for.
* The browser front end and the Node.js plugins that the server stores but never
  runs; vendored libraries; `LogParser::cleanup` and `getRecentWounds`,
  `stopServer` of both managers and the poller manager's `startServer`, which
  nothing calls.

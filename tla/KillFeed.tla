-------------------------------- MODULE KillFeed --------------------------------
(***************************************************************************)
(* From log lines to kills and points: POST /api/events/raw, the parser's   *)
(* table of wounds, and the player lists of POST /api/events/playerlist-raw. *)
(*                                                                         *)
(* A relay posts the lines of one game server in order, but it does not wait *)
(* for an answer longer than its receive timeout, and handling a batch sends *)
(* warnings over RCON on the way: batches of one server are handled at the   *)
(* same time by several threads.  Each of the tables has its own mutex, held *)
(* for one look or one change; the kill's row and its points are separate    *)
(* statements.  addPoints itself is the subject of PointsLedger.            *)
(*                                                                         *)
(* A player stands for a name and an id.  Wounds that only cause warnings,   *)
(* revives and chat are left out.                                           *)
(***************************************************************************)
EXTENDS Integers, Sequences, FiniteSets

CONSTANTS
    Threads,     \* HTTP worker threads
    Servers,
    Players,
    Nobody,      \* the id that replaces INVALID, and the empty id
    Similar,     \* pairs of players, one's name a part of the other's
    Expiry,      \* WOUND_EXPIRY_MS
    Cooldown,    \* SUICIDE_DEDUP_WINDOW_MS
    MaxTime,     \* bound: the clock stops here
    StartTeams,  \* who is in which team of each server when the panel starts
    MaxEvents,   \* bound: number of log lines, player lists and changes of team
    MaxCrashes   \* bound: number of crashes of the panel

ASSUME FeedAssumption ==
    /\ Nobody \notin Players
    /\ Similar \subseteq Players \X Players
    /\ Expiry \in Nat /\ Cooldown \in Nat \ {0}
    /\ StartTeams \in [Servers -> [Players -> {0, 1, 2}]]
    /\ MaxTime \in Nat /\ Cooldown <= MaxTime /\ MaxEvents \in Nat /\ MaxCrashes \in Nat

VARIABLES
    now,          \* std::chrono::steady_clock
    team,         \* the game: the team of each player on each server, 0: not there
    feed,         \* the game: lines written and not yet posted
    woundStore,   \* woundStore_: the last wound of each name
    liveCache,    \* g_liveCache: the players on each server's last list
    teamMap,      \* g_teamMap: and their teams
    lastSuicide,  \* g_lastSuicideTime
    kills,        \* table kills
    scores,       \* calls of scoreKill and scoreSuicide
    pc, job,      \* what each thread does next, and its request
    mates,        \* history: who has been in one team, on which server
    wounded,      \* history: who has wounded whom, and when it was stored
    spent,        \* history: number of deaths decided by each wound line
    events, crashes

game == <<team, feed, mates>>
tables == <<woundStore, liveCache, teamMap, lastSuicide>>
stored == <<kills, scores>>
history == <<wounded, spent>>
vars == <<now, team, feed, woundStore, liveCache, teamMap, lastSuicide, kills, scores,
          pc, job, mates, wounded, spent, events, crashes>>

Teams == {1, 2}
LineIds == 1..MaxEvents
NoWound == [attacker |-> Nobody, time |-> 0, line |-> 0]
NoJob == [kind |-> "none"]
NoEvent == [killer |-> Nobody, victim |-> Nobody, score |-> "none"]

\* The pairs a player makes with the others in his team.
Mates(s, p) ==
    {[server |-> s, pair |-> {p, q}] :
        q \in {r \in Players \ {p} : team[s][p] # 0 /\ team[s][r] = team[s][p]}}

\* The clock counts from the boot of the machine, longer ago than a cooldown.
Init ==
    /\ now = Cooldown
    /\ team = StartTeams
    /\ feed = [s \in Servers |-> <<>>]
    /\ woundStore = [p \in Players |-> NoWound]
    /\ liveCache = [s \in Servers |-> {}]
    /\ teamMap = [s \in Servers |-> [p \in Players |-> 0]]
    /\ lastSuicide = [s \in Servers |-> 0]
    /\ kills = {} /\ scores = {}
    /\ pc = [t \in Threads |-> "idle"]
    /\ job = [t \in Threads |-> NoJob]
    /\ mates = UNION {Mates(s, p) : s \in Servers, p \in Players}
    /\ wounded = {} /\ spent = [n \in LineIds |-> 0]
    /\ events = 0 /\ crashes = 0

--------------------------------------------------------------------------------
(* The game servers.                                                        *)

Online(s) == {p \in Players : team[s][p] # 0}

\* A player joins a team, or leaves the server (0).
ChangeTeam(s, p, x) ==
    /\ events < MaxEvents
    /\ team[s][p] # x
    /\ team' = [team EXCEPT ![s][p] = x]
    /\ mates' = mates \cup Mates(s, p)'
    /\ events' = events + 1
    /\ UNCHANGED <<now, feed, tables, stored, pc, job, history, crashes>>

\* A Wound() or Die() line.  Nobody: an INVALID attacker, such as barbed wire.
Log(s, kind, v, a) ==
    /\ events < MaxEvents
    /\ v \in Online(s) /\ a \in Online(s) \cup {Nobody}
    /\ events' = events + 1
    /\ feed' = [feed EXCEPT ![s] =
            Append(@, [kind |-> kind, victim |-> v, attacker |-> a, n |-> events + 1])]
    /\ UNCHANGED <<now, team, tables, stored, pc, job, mates, history, crashes>>

--------------------------------------------------------------------------------
(* The requests.                                                            *)

\* A batch of lines arrives; nowEpoch is taken here for all of them.
Post(t, s, k) ==
    /\ pc[t] = "idle"
    /\ k \in 1..Len(feed[s])
    /\ job' = [job EXCEPT ![t] = [kind |-> "raw", server |-> s, start |-> now,
                                  lines |-> SubSeq(feed[s], 1, k), event |-> NoEvent]]
    /\ feed' = [feed EXCEPT ![s] = SubSeq(@, k + 1, Len(@))]
    /\ pc' = [pc EXCEPT ![t] = "line"]
    /\ UNCHANGED <<now, team, tables, stored, mates, history, events, crashes>>

\* POST kill, one kill with the ids of both (killer Nobody: not given).  When it
\* came is not looked at.
PostKill(t, s, k, v) ==
    /\ pc[t] = "idle"
    /\ events < MaxEvents
    /\ v \in Online(s) /\ k \in Online(s) \cup {Nobody}
    /\ events' = events + 1
    /\ job' = [job EXCEPT ![t] = [kind |-> "kill", server |-> s, start |-> 0,
            lines |-> <<[kind |-> "kill", victim |-> v, attacker |-> k, n |-> events + 1]>>,
            event |-> [NoEvent EXCEPT !.killer = k, !.victim = v]]]
    /\ pc' = [pc EXCEPT ![t] = "team"]
    /\ UNCHANGED <<now, game, tables, stored, history, crashes>>

\* A player list arrives.
PostList(t, s) ==
    /\ pc[t] = "idle"
    /\ events < MaxEvents
    /\ events' = events + 1
    /\ job' = [job EXCEPT ![t] = [kind |-> "list", server |-> s, list |-> team[s]]]
    /\ pc' = [pc EXCEPT ![t] = "cache"]
    /\ UNCHANGED <<now, game, tables, stored, history, crashes>>

\* The live cache first, under its own lock ...
UpdateCache(t) ==
    /\ pc[t] = "cache"
    /\ liveCache' = [liveCache EXCEPT ![job[t].server] =
            {p \in Players : job[t].list[p] # 0}]
    /\ pc' = [pc EXCEPT ![t] = "teams"]
    /\ UNCHANGED <<now, game, woundStore, teamMap, lastSuicide, stored, job, history, events, crashes>>

\* ... then updateTeamMap.
UpdateTeams(t) ==
    /\ pc[t] = "teams"
    /\ teamMap' = [teamMap EXCEPT ![job[t].server] = job[t].list]
    /\ pc' = [pc EXCEPT ![t] = "idle"]
    /\ job' = [job EXCEPT ![t] = NoJob]
    /\ UNCHANGED <<now, game, woundStore, liveCache, lastSuicide, stored, history, events, crashes>>

--------------------------------------------------------------------------------
(* One line of a batch.                                                     *)

Line(t) == Head(job[t].lines)

\* On to the next line, or the end of the request.
EndLine(t) ==
    IF Len(job[t].lines) = 1
    THEN /\ pc' = [pc EXCEPT ![t] = "idle"]
         /\ job' = [job EXCEPT ![t] = NoJob]
    ELSE /\ pc' = [pc EXCEPT ![t] = "line"]
         /\ job' = [job EXCEPT ![t].lines = Tail(@), ![t].event = NoEvent]

Goto(t, next, event) ==
    /\ pc' = [pc EXCEPT ![t] = next]
    /\ job' = [job EXCEPT ![t].event = event]

\* storeWound: by the victim's name, whichever server the line is from.
StoreWound(t) ==
    LET l == Line(t) IN
    /\ pc[t] = "line" /\ l.kind = "wound"
    /\ woundStore' = [woundStore EXCEPT ![l.victim] =
            [attacker |-> l.attacker, time |-> now, line |-> l.n]]
    /\ wounded' = wounded \cup {[victim |-> l.victim, attacker |-> l.attacker, time |-> now]}
    /\ EndLine(t)
    /\ UNCHANGED <<now, game, liveCache, teamMap, lastSuicide, stored, spent, events, crashes>>

\* Mutant of ParseDie: the record stays.
ParseDieKeeping(t) ==
    LET l == Line(t)
        w == woundStore[l.victim]
        hit == w # NoWound /\ now - w.time <= Expiry
        killer == IF hit /\ w.attacker # Nobody THEN w.attacker ELSE l.attacker
    IN  /\ pc[t] = "line" /\ l.kind = "die"
        /\ spent' = IF hit THEN [spent EXCEPT ![w.line] = @ + 1] ELSE spent
        /\ Goto(t, IF l.attacker = Nobody THEN "suicide" ELSE "victim",
                [NoEvent EXCEPT !.killer = killer])
        /\ UNCHANGED <<now, game, tables, stored, wounded, events, crashes>>

\* A Die() line takes the attacker of the victim's last wound, unless that has
\* expired or has no attacker, and erases it.  A line without an attacker of
\* its own is a suicide all the same: its victimSteamId is that attacker.
ParseDie(t) ==
    LET l == Line(t)
        w == woundStore[l.victim]
        hit == w # NoWound /\ now - w.time <= Expiry
        killer == IF hit /\ w.attacker # Nobody THEN w.attacker ELSE l.attacker
    IN  /\ pc[t] = "line" /\ l.kind = "die"
        /\ woundStore' = IF hit THEN [woundStore EXCEPT ![l.victim] = NoWound] ELSE woundStore
        /\ spent' = IF hit THEN [spent EXCEPT ![w.line] = @ + 1] ELSE spent
        /\ Goto(t, IF l.attacker = Nobody THEN "suicide" ELSE "victim",
                [NoEvent EXCEPT !.killer = killer])
        /\ UNCHANGED <<now, game, liveCache, teamMap, lastSuicide, stored, wounded, events, crashes>>

\* Mutant of Suicide: the time of the last one is not kept.
SuicideForgotten(t) ==
    LET e == job[t].event
        s == job[t].server
    IN  /\ pc[t] = "suicide"
        /\ IF job[t].start - lastSuicide[s] < Cooldown
           THEN EndLine(t)
           ELSE Goto(t, "score", [e EXCEPT !.victim = e.killer, !.score = "suicide"])
        /\ UNCHANGED <<now, game, tables, stored, history, events, crashes>>

\* The suicide cooldown, per server and by the time the batch arrived: look and
\* set under g_suicideMtx.  Early end of the line in the cooldown.
Suicide(t) ==
    LET e == job[t].event
        s == job[t].server
    IN  /\ pc[t] = "suicide"
        /\ IF job[t].start - lastSuicide[s] < Cooldown
           THEN EndLine(t) /\ UNCHANGED lastSuicide
           ELSE /\ lastSuicide' = [lastSuicide EXCEPT ![s] = job[t].start]
                /\ Goto(t, "score", [e EXCEPT !.victim = e.killer, !.score = "suicide"])
        /\ UNCHANGED <<now, game, woundStore, liveCache, teamMap, stored, history, events, crashes>>

\* findSteamIdByName: the name itself, else one that contains it or is a part
\* of it, else the empty id.
Resolve(s, v) ==
    LET alike == {p \in liveCache[s] : <<p, v>> \in Similar \/ <<v, p>> \in Similar}
    IN  CASE v \in liveCache[s] -> {v}
          [] v \notin liveCache[s] /\ alike # {} -> alike
          [] OTHER -> {Nobody}

ResolveVictim(t) ==
    /\ pc[t] = "victim"
    /\ \E v \in Resolve(job[t].server, Line(t).victim) :
        Goto(t, "team", [job[t].event EXCEPT !.victim = v])
    /\ UNCHANGED <<now, game, tables, stored, history, events, crashes>>

\* Mutant of IsTeamKill: two players that are not on the map are in one team.
IsTeamKillUnlisted(s, k, v) == {k, v} \subseteq Players /\ teamMap[s][k] = teamMap[s][v]

\* isTeamKill: both are on the map, in the same team.
IsTeamKill(s, k, v) ==
    {k, v} \subseteq Players /\ teamMap[s][k] # 0 /\ teamMap[s][k] = teamMap[s][v]

\* What the kill will score: nothing is looked up for a kill of oneself, and a
\* killer who is not given scores nothing.
CheckTeam(t) ==
    LET e == job[t].event
        score == CASE e.killer = Nobody -> "none"
                   [] e.killer # Nobody /\ e.killer = e.victim -> "suicide"
                   [] e.killer # e.victim /\ IsTeamKill(job[t].server, e.killer, e.victim) -> "tk"
                   [] OTHER -> "kill"
    IN  /\ pc[t] = "team"
        /\ Goto(t, "kill", [e EXCEPT !.score = score])
        /\ UNCHANGED <<now, game, tables, stored, history, events, crashes>>

\* Mutant of RecordKill: the row comes after the points.
RecordLater(t) ==
    /\ pc[t] = "kill"
    /\ Goto(t, "score", job[t].event)
    /\ UNCHANGED <<now, game, tables, stored, history, events, crashes>>

\* INSERT INTO kills.
RecordKill(t) ==
    LET e == job[t].event IN
    /\ pc[t] = "kill"
    /\ kills' = kills \cup {[server |-> job[t].server, line |-> Line(t).n,
                             killer |-> e.killer, victim |-> e.victim]}
    /\ Goto(t, "score", e)
    /\ UNCHANGED <<now, game, tables, scores, history, events, crashes>>

\* scoreKill and scoreSuicide, the warnings and the plugins' turn.
Score(t) ==
    LET e == job[t].event
        scored == IF e.score = "suicide" THEN e.victim ELSE e.killer
    IN  /\ pc[t] = "score"
        /\ scores' = scores \cup {x \in {[server |-> job[t].server, line |-> Line(t),
                                          player |-> scored, kind |-> e.score,
                                          start |-> job[t].start, run |-> crashes]} :
                                   x.kind # "none"}
        /\ EndLine(t)
        /\ UNCHANGED <<now, game, tables, kills, history, events, crashes>>

--------------------------------------------------------------------------------
Tick ==
    /\ now < MaxTime
    /\ now' = now + 1
    /\ UNCHANGED <<game, tables, stored, pc, job, history, events, crashes>>

\* The panel dies with everything it has in memory; the batches being handled
\* are lost, since the relay drops what it could not post.
Crash ==
    /\ crashes < MaxCrashes
    /\ crashes' = crashes + 1
    /\ woundStore' = [p \in Players |-> NoWound]
    /\ liveCache' = [s \in Servers |-> {}]
    /\ teamMap' = [s \in Servers |-> [p \in Players |-> 0]]
    /\ lastSuicide' = [s \in Servers |-> 0]
    /\ pc' = [t \in Threads |-> "idle"]
    /\ job' = [t \in Threads |-> NoJob]
    /\ UNCHANGED <<now, game, stored, history, events>>

Handle(t) ==
    \/ UpdateCache(t) \/ UpdateTeams(t)
    \/ StoreWound(t) \/ ParseDie(t) \/ Suicide(t)
    \/ ResolveVictim(t) \/ CheckTeam(t) \/ RecordKill(t) \/ Score(t)

Game ==
    \E s \in Servers, p \in Players :
        \/ \E x \in Teams \cup {0} : ChangeTeam(s, p, x)
        \/ \E kind \in {"wound", "die"}, a \in Players \cup {Nobody} : Log(s, kind, p, a)

Next ==
    \/ Game
    \/ \E t \in Threads :
        \/ \E s \in Servers : PostList(t, s) \/ \E k \in 1..MaxEvents : Post(t, s, k)
        \/ \E s \in Servers, k \in Players \cup {Nobody}, v \in Players : PostKill(t, s, k, v)
        \/ Handle(t)
    \/ Tick
    \/ Crash

Spec == Init /\ [][Next]_vars

--------------------------------------------------------------------------------
Ids == Players \cup {Nobody}
Rosters == [Players -> {0} \cup Teams]
Events == [killer : Ids, victim : Ids, score : {"none", "suicide", "kill", "tk"}]
Lines == [kind : {"wound", "die", "kill"}, victim : Players, attacker : Ids, n : LineIds]
Batches == [kind : {"raw", "kill"}, server : Servers, start : 0..MaxTime, lines : Seq(Lines),
            event : Events]
Lists == [kind : {"list"}, server : Servers, list : Rosters]

\* The steps of a batch and of a player list.
BatchSteps == {"line", "suicide", "victim", "team", "kill", "score"}
ListSteps == {"cache", "teams"}

\* What thread t does next is a step of the request it has.
JobTyped(t) ==
    \/ pc[t] = "idle" /\ job[t] = NoJob
    \/ pc[t] \in ListSteps /\ job[t] \in Lists
    \/ pc[t] \in BatchSteps /\ job[t] \in Batches /\ job[t].lines # <<>> /\ job[t].start <= now

JobsTyped ==
    /\ pc \in [Threads -> {"idle"} \cup ListSteps \cup BatchSteps]
    /\ job \in [Threads -> {NoJob} \cup Lists \cup Batches]
    /\ \A t \in Threads : JobTyped(t)

\* The type of the rest of the state.
StoreTyped ==
    /\ now \in Cooldown..MaxTime
    /\ events \in 0..MaxEvents /\ crashes \in 0..MaxCrashes
    /\ team \in [Servers -> Rosters] /\ teamMap \in [Servers -> Rosters]
    /\ feed \in [Servers -> Seq(Lines)]
    /\ liveCache \in [Servers -> SUBSET Players]
    /\ woundStore \in [Players -> {NoWound} \cup [attacker : Ids, time : 0..now, line : LineIds]]
    /\ lastSuicide \in [Servers -> 0..now]
    /\ spent \in [LineIds -> Nat]
    /\ kills \subseteq [server : Servers, line : LineIds, killer : Ids, victim : Ids]
    /\ scores \subseteq [server : Servers, line : Lines, player : Ids,
                         kind : {"suicide", "kill", "tk"}, start : 0..now, run : 0..crashes]

TypeOK == StoreTyped /\ JobsTyped

\* Wound and death are one event of two lines: a wound decides one death only,
\* however many threads look it up.
WoundSpentOnce == \A n \in LineIds : spent[n] <= 1

\* The points of a kill go to the attacker of its own line, or to one whose
\* wound of that victim was stored no longer than Expiry before.
CreditIsFresh ==
    \A t \in Threads : pc[t] \in {"victim", "suicide"} =>
        LET k == job[t].event.killer IN
        \/ k = Line(t).attacker
        \/ \E w \in wounded : /\ w.victim = Line(t).victim /\ w.attacker = k
                              /\ w.time + Expiry >= job[t].start

\* The players whom a line can mean by the name of the one who died: himself, and
\* those whose names contain his or are a part of it.  A posted kill has his id.
Meant(l) ==
    {l.victim} \cup {p \in Players : l.kind # "kill" /\ {<<p, l.victim>>, <<l.victim, p>>} \cap Similar # {}}

\* Nobody is fined for the death of a player who was never in his team, unless the
\* name of the dead fits one who was: both teams are read from one list.
TkWasMate ==
    \A x \in scores : x.kind = "tk" =>
        \E m \in Meant(x.line) : [server |-> x.server, pair |-> {x.player, m}] \in mates

\* Wound and death are one event of two lines, found by name and age.
WoundDecidesItsDeath == TypeOK /\ WoundSpentOnce /\ CreditIsFresh

\* Points for a kill are given only when the kill is in the kills table,
\* wherever the panel dies.
ScoredIsRecorded ==
    \A x \in scores : x.kind \in {"kill", "tk"} =>
        \E k \in kills : k.line = x.line.n /\ k.killer = x.player

\* Two suicides without an attacker that are charged on one server came in
\* batches that are at least the cooldown apart, in whatever order they are
\* handled.
SuicidesSpaced ==
    \A x, y \in scores :
        /\ x.server = y.server /\ x.run = y.run /\ x.line # y.line
        /\ x.kind = "suicide" /\ x.line.attacker = Nobody
        /\ y.kind = "suicide" /\ y.line.attacker = Nobody
        => x.start - y.start >= Cooldown \/ y.start - x.start >= Cooldown
================================================================================

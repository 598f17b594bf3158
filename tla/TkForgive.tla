-------------------------------- MODULE TkForgive --------------------------------
(***************************************************************************)
(* Team kills and apologies: the tk_forgive table, the TKForgive plugin,    *)
(* the routes under /api/tk-forgive and the background TK checker.          *)
(*                                                                         *)
(* A team kill inserts a row with a deadline.  An apology in the chat       *)
(* before the deadline sets forgiven; past it the checker kicks the player  *)
(* and sets kicked.  HTTP threads run the plugin and the routes, the        *)
(* checker is a thread of its own; each SQL statement is atomic             *)
(* (Database::mtx_), nothing is held between two of them, and an RCON       *)
(* command stands between a read and the write that depends on it.          *)
(***************************************************************************)
EXTENDS Integers, FiniteSets, FiniteSetsExt

CONSTANTS
    Threads,     \* HTTP worker threads
    Players,
    Ops,         \* the requests served, among those of AllOps
    Secs,        \* tk_forgive_seconds
    Zone,        \* the panel's local time minus UTC, in seconds
    MaxTime,     \* bound: the clock stops here
    MaxId,       \* bound: number of rows inserted
    MaxCrashes   \* bound: number of restarts of the panel

AllOps == {"kill", "chat", "create", "forgive", "kick", "delete", "toggle"}

ASSUME TkAssumption ==
    /\ Ops \subseteq AllOps
    /\ Secs \in Nat /\ Zone \in Int
    /\ MaxTime \in Nat /\ MaxId \in Nat /\ MaxCrashes \in Nat

VARIABLES
    now,       \* datetime('now')
    tk,        \* the rows of tk_forgive by id
    tkEnabled,   \* the setting tk_forgive_enabled
    job,       \* what each HTTP thread is doing
    checker,   \* the TK checker: what it does next, and the rows it has read
    told,      \* rows whose player was told that the TK is forgiven
    kicks,     \* AdminKick commands of the checker that the game executed, per row
    banished,  \* rows whose player was kicked by the kick route
    forgivenAt,\* when a row was first forgiven, or Never
    crashes

seen == <<told, kicks, banished, forgivenAt>>
tkVars == <<now, tk, tkEnabled, job, checker, seen, crashes>>

Ids == 1..MaxId
Never == -1
NoRow == [there |-> FALSE]
Idle == [pc |-> "idle"]
Asleep == [pc |-> "sleep", rows |-> {}]

TkInit ==
    /\ now = 0
    /\ tk = [i \in Ids |-> NoRow]
    /\ tkEnabled = TRUE
    /\ job = [t \in Threads |-> Idle]
    /\ checker = Asleep
    /\ told = {}
    /\ kicks = [i \in Ids |-> 0]
    /\ banished = {}
    /\ forgivenAt = [i \in Ids |-> Never]
    /\ crashes = 0

Rows == {i \in Ids : tk[i].there}
Pending(i) == i \in Rows /\ ~tk[i].forgiven /\ ~tk[i].kicked
Used == {i \in Ids : tk[i] # NoRow}

--------------------------------------------------------------------------------
\* The row that an INSERT adds; createdAt is the column's default.  (No row is
\* inserted so late that the clock would stop before its deadline.)
Insert(p, deadline) ==
    LET i == Cardinality(Used) + 1 IN
    /\ i \in Ids
    /\ now + Secs <= MaxTime
    /\ tk' = [tk EXCEPT ![i] =
            [there |-> TRUE, player |-> p, forgiven |-> FALSE, kicked |-> FALSE,
             createdAt |-> now, expiresAt |-> deadline]]

\* handleKill: a team kill, with the deadline computed by the database.
TeamKill(p) ==
    /\ tkEnabled
    /\ Insert(p, now + Secs)
    /\ UNCHANGED <<now, tkEnabled, job, checker, seen, crashes>>

\* POST /api/tk-forgive: the deadline is the panel's local time, in a column
\* that is compared with the database's UTC.
Create(p) ==
    /\ Insert(p, now + Secs + Zone)
    /\ UNCHANGED <<now, tkEnabled, job, checker, seen, crashes>>

\* The setting is saved.
Toggle ==
    /\ tkEnabled' = ~tkEnabled
    /\ UNCHANGED <<now, tk, job, checker, seen, crashes>>

\* handleChat: a message with a keyword.  The player's pending rows that have
\* not expired are read; with none there is nothing to do.
Chat(t, p) ==
    /\ tkEnabled
    /\ job[t] = Idle
    /\ LET found == {i \in Ids : Pending(i) /\ tk[i].player = p /\ tk[i].expiresAt > now}
       IN  /\ found # {}
           /\ job' = [job EXCEPT ![t] = [pc |-> "forgive", rows |-> found]]
    /\ UNCHANGED <<now, tk, tkEnabled, checker, seen, crashes>>

\* UPDATE tk_forgive SET forgiven=1 WHERE id=?, of a row that may be gone.
SetForgiven(i) ==
    IF i \in Rows
    THEN /\ tk' = [tk EXCEPT ![i].forgiven = TRUE]
         /\ forgivenAt' = [forgivenAt EXCEPT ![i] = IF @ = Never THEN now ELSE @]
    ELSE UNCHANGED <<tk, forgivenAt>>

\* UPDATE tk_forgive SET kicked=1 WHERE id=?
SetKicked(i) == IF i \in Rows THEN tk' = [tk EXCEPT ![i].kicked = TRUE] ELSE UNCHANGED tk

\* The loop over the rows handleChat has read: forgive one ...
ChatForgive(t) ==
    /\ job[t].pc = "forgive"
    /\ SetForgiven(Min(job[t].rows))
    /\ job' = [job EXCEPT ![t].pc = "warn"]
    /\ UNCHANGED <<now, tkEnabled, checker, told, kicks, banished, crashes>>

\* ... tell the player, which the RCON connection may fail to do, and go on.
ChatWarn(t) ==
    LET i == Min(job[t].rows)
        rest == job[t].rows \ {i}
    IN  /\ job[t].pc = "warn"
        /\ told' \in {told, told \cup {i}}
        /\ job' = [job EXCEPT ![t] = IF rest = {} THEN Idle ELSE [pc |-> "forgive", rows |-> rest]]
        /\ UNCHANGED <<now, tk, tkEnabled, checker, kicks, banished, forgivenAt, crashes>>

\* The routes of one row look it up first ...
Route(t, op, i) ==
    /\ job[t] = Idle
    /\ i \in Rows
    /\ job' = [job EXCEPT ![t] = [pc |-> op, row |-> i]]
    /\ UNCHANGED <<now, tk, tkEnabled, checker, seen, crashes>>

\* ... and then delete it,
Delete(t) ==
    /\ job[t].pc = "delete"
    /\ tk' = [tk EXCEPT ![job[t].row].there = FALSE]
    /\ job' = [job EXCEPT ![t] = Idle]
    /\ UNCHANGED <<now, tkEnabled, checker, seen, crashes>>

\* forgive it,
Forgive(t) ==
    /\ job[t].pc = "pardon"
    /\ SetForgiven(job[t].row)
    /\ job' = [job EXCEPT ![t] = Idle]
    /\ UNCHANGED <<now, tkEnabled, checker, told, kicks, banished, crashes>>

\* or mark it as kicked and then kick its player.
KickMark(t) ==
    /\ job[t].pc = "kick"
    /\ SetKicked(job[t].row)
    /\ job' = [job EXCEPT ![t].pc = "send"]
    /\ UNCHANGED <<now, tkEnabled, checker, seen, crashes>>

KickSend(t) ==
    /\ job[t].pc = "send"
    /\ banished' \in {banished, banished \cup {job[t].row}}
    /\ job' = [job EXCEPT ![t] = Idle]
    /\ UNCHANGED <<now, tk, tkEnabled, checker, told, kicks, forgivenAt, crashes>>

--------------------------------------------------------------------------------
\* Mutants of Expired: rows already forgiven, and rows whose time has not come.
ExpiredForgivenToo == {i \in Rows : ~tk[i].kicked /\ tk[i].expiresAt <= now}
ExpiredEarly == {i \in Ids : Pending(i)}

Expired == {i \in Ids : Pending(i) /\ tk[i].expiresAt <= now}

\* The checker wakes up and reads the rows whose time has come.
CheckerRead ==
    /\ checker = Asleep
    /\ Expired # {}
    /\ checker' = [pc |-> "kick", rows |-> Expired]
    /\ UNCHANGED <<now, tk, tkEnabled, job, seen, crashes>>

\* AdminKick: an exception or an unreachable server makes no difference to it.
\* RconPool!send tries once more when no answer came, so that the game executes the
\* command not at all, once or twice.
CheckerKick ==
    /\ checker.pc = "kick"
    /\ \E n \in 0..2 : kicks' = [kicks EXCEPT ![Min(checker.rows)] = @ + n]
    /\ checker' = [checker EXCEPT !.pc = "mark"]
    /\ UNCHANGED <<now, tk, tkEnabled, job, told, banished, forgivenAt, crashes>>

\* Mutant of CheckerMark: an exception ends the thread.
CheckerMarkStops ==
    /\ checker.pc = "mark"
    /\ SetKicked(Min(checker.rows))
    /\ checker' = [pc |-> "stopped", rows |-> {}]
    /\ UNCHANGED <<now, tkEnabled, job, seen, crashes>>

CheckerMark ==
    LET rest == checker.rows \ {Min(checker.rows)} IN
    /\ checker.pc = "mark"
    /\ SetKicked(Min(checker.rows))
    /\ checker' = IF rest = {} THEN Asleep ELSE [pc |-> "kick", rows |-> rest]
    /\ UNCHANGED <<now, tkEnabled, job, seen, crashes>>

--------------------------------------------------------------------------------
Tick ==
    /\ now < MaxTime
    /\ now' = now + 1
    /\ UNCHANGED <<tk, tkEnabled, job, checker, seen, crashes>>

\* The panel restarts: the threads are gone, the table is on disk.
TkCrash ==
    /\ crashes < MaxCrashes
    /\ crashes' = crashes + 1
    /\ job' = [t \in Threads |-> Idle]
    /\ checker' = Asleep
    /\ UNCHANGED <<now, tk, tkEnabled, seen>>

Checker == CheckerRead \/ CheckerKick \/ CheckerMark

Work(t) == ChatForgive(t) \/ ChatWarn(t) \/ Delete(t) \/ Forgive(t) \/ KickMark(t) \/ KickSend(t)

TkNext ==
    \/ \E p \in Players : "kill" \in Ops /\ TeamKill(p)
    \/ \E p \in Players : "create" \in Ops /\ Create(p)
    \/ "toggle" \in Ops /\ Toggle
    \/ \E t \in Threads :
        \/ \E p \in Players : "chat" \in Ops /\ Chat(t, p)
        \/ \E i \in Ids : "delete" \in Ops /\ Route(t, "delete", i)
        \/ \E i \in Ids : "forgive" \in Ops /\ Route(t, "pardon", i)
        \/ \E i \in Ids : "kick" \in Ops /\ Route(t, "kick", i)
        \/ Work(t)
    \/ Checker
    \/ Tick
    \/ TkCrash

\* Time passes, and the checker's thread is scheduled and its RCON commands return
\* (RconPool says when one does not); nothing is assumed of the HTTP threads.
TkSpec == TkInit /\ [][TkNext]_tkVars /\ WF_tkVars(Tick) /\ WF_tkVars(Checker)

--------------------------------------------------------------------------------
TkRow == [there : BOOLEAN, player : Players, forgiven : BOOLEAN, kicked : BOOLEAN,
          createdAt : 0..MaxTime, expiresAt : Int]

Jobs ==
    {Idle} \cup [pc : {"forgive", "warn"}, rows : (SUBSET Used) \ {{}}]
           \cup [pc : {"delete", "pardon", "kick", "send"}, row : Used]

TkTypeOK ==
    /\ now \in 0..MaxTime /\ crashes \in 0..MaxCrashes
    /\ tk \in [Ids -> {NoRow} \cup TkRow]
    /\ tkEnabled \in BOOLEAN
    /\ job \in [Threads -> Jobs]
    /\ checker \in [pc : {"sleep", "kick", "mark"}, rows : SUBSET Used]
    /\ checker.pc # "sleep" => checker.rows # {}
    /\ told \subseteq Used
    /\ kicks \in [Ids -> Nat] /\ banished \subseteq Used
    /\ forgivenAt \in [Ids -> 0..MaxTime \cup {Never}]

\* An apology that was recorded before the deadline protects the player from the
\* checker for good, whatever is done to the row later and across restarts.
ForgivenInTimeIsSafe ==
    \A i \in Ids : forgivenAt[i] # Never /\ forgivenAt[i] < tk[i].expiresAt => kicks[i] = 0

\* The checker sends the kick for one TK once, and once more only if the panel went
\* down between the kick and the UPDATE; what it sends is executed twice at the most.
KicksBounded == \A i \in Ids : kicks[i] <= 2 * (1 + crashes)

\* A kick by the checker is one that the record calls for, and has not had but for
\* a restart or the retry of its command.
KicksJustified == TkTypeOK /\ ForgivenInTimeIsSafe /\ KicksBounded

\* The checker kicks nobody before the time for an apology has passed.
NeverKickedEarly ==
    [][\A i \in Ids : kicks'[i] # kicks[i] => now >= tk[i].createdAt + Secs]_tkVars

\* Every TK is settled in the end: the checker does not forget a row, however
\* often the panel restarts.
EveryTkSettled == \A i \in Ids : Pending(i) ~> ~Pending(i)
================================================================================

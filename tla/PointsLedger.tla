------------------------------ MODULE PointsLedger ------------------------------
(***************************************************************************)
(* The points of the players and every code path that changes them, at the *)
(* granularity of single SQL statements.                                    *)
(*                                                                         *)
(* Database holds its mutex for one statement only, so a caller that reads *)
(* a row, computes and writes back can be interleaved with any other        *)
(* caller between two of its statements.  Five paths write the table:       *)
(*                                                                         *)
(*   "add", "deduct"  PointsService, under its own mutex; absolute UPDATE   *)
(*   "adjust"         POST /api/points/adjust, no lock; absolute UPDATE     *)
(*   "chat"           ChatCommands::addBalance, no lock; relative UPDATE    *)
(*   "cdk"            CDKRedeem's grant, no lock; relative UPDATE           *)
(*   "sync"           RemoteApiPoller::processPlayers, one REPLACE          *)
(*                                                                         *)
(* A row's id identifies one incarnation of the row of its key: an UPDATE   *)
(* names the id it read, and a REPLACE gives the key's row a new id.  The   *)
(* log table is reduced to the sum of the amounts inserted for each key.    *)
(***************************************************************************)
EXTENDS Integers, FiniteSets

CONSTANTS
    Threads,     \* the threads that run handlers, plugins and the service
    Servers,     \* the registered game servers
    Players,     \* the players
    NoServer,    \* an adjust request that names no registered server
    NoThread,    \* PointsService::mtx_ is free
    AddAmounts,  \* amounts of addPoints, adjust and chat commands
    DeductAmounts, \* amounts of deductPoints
    GrantAmounts, \* the rewardValue of a CDK code
    SyncPoints,  \* point totals a remote panel reports
    Writers,     \* the paths enabled, among those listed above
    StartRows,   \* keys that already have a row
    Opening,     \* the balance of those rows
    MaxOps,      \* bound: number of calls started
    MaxSyncs,    \* bound: number of rows replaced by the poller
    MaxCrashes   \* bound: number of process crashes

Keys == Servers \X Players
LogKeys == (Servers \cup {NoServer}) \X Players
ServiceOps == {"add", "deduct"}
AbsoluteOps == {"add", "deduct", "adjust"}
CallOps == {"add", "deduct", "adjust", "chat", "cdk"}

ASSUME LedgerAssumption ==
    /\ NoServer \notin Servers
    /\ NoThread \notin Threads
    /\ AddAmounts \subseteq Int \ {0}
    /\ DeductAmounts \subseteq Nat \ {0}
    /\ GrantAmounts \subseteq Int
    /\ SyncPoints \subseteq Nat \ {0}
    /\ Writers \subseteq CallOps \cup {"sync"}
    /\ StartRows \subseteq Keys
    /\ Opening \in Nat
    /\ MaxOps \in Nat /\ MaxSyncs \in Nat /\ MaxCrashes \in Nat

VARIABLES
    row,      \* table points: the row of each key, id 0 when there is none
    logged,   \* table point_logs: sum of the amounts inserted for each key
    mtx,      \* PointsService::mtx_: its holder, or NoThread
    pc,       \* what each thread does next
    job,      \* the call a thread executes
    snap,     \* the row the thread's SELECT returned
    started,  \* calls started so far
    syncs,    \* rows replaced by the poller so far
    crashes   \* process crashes so far

vars == <<row, logged, mtx, pc, job, snap, started, syncs, crashes>>

Rows == [id : Nat, balance : Int, earned : Int]
Jobs == [op : CallOps, key : LogKeys, amount : Int]
Snaps == [at : LogKeys, id : Nat, balance : Int]
Phases == {"idle", "lock", "read", "write", "log"}

Positive(n) == IF n > 0 THEN n ELSE 0

NoRow == [id |-> 0, balance |-> 0, earned |-> 0]
NoJob == [op |-> "none"]
NoSnap == [at |-> "none"]

--------------------------------------------------------------------------------
Init ==
    /\ row = [k \in Keys |-> IF k \in StartRows
                             THEN [id |-> 1, balance |-> Opening, earned |-> Opening]
                             ELSE NoRow]
    /\ logged = [k \in LogKeys |-> IF k \in StartRows THEN Opening ELSE 0]
    /\ mtx = NoThread
    /\ pc = [t \in Threads |-> "idle"]
    /\ job = [t \in Threads |-> NoJob]
    /\ snap = [t \in Threads |-> NoSnap]
    /\ started = 0
    /\ syncs = 0
    /\ crashes = 0

\* The calls of each path.  The amounts of addPoints, of an adjust request and
\* of a chat command have either sign; only an adjust request can name no
\* registered server.
Calls ==
    [op : {"add", "chat"} \cap Writers, key : Keys, amount : AddAmounts]
        \cup [op : {"adjust"} \cap Writers, key : LogKeys, amount : AddAmounts]
        \cup [op : {"deduct"} \cap Writers, key : Keys, amount : DeductAmounts]
        \cup [op : {"cdk"} \cap Writers, key : Keys, amount : GrantAmounts]

\* A handler, a plugin or the scoring code enters one of the paths.
Begin(t) ==
    /\ pc[t] = "idle"
    /\ started < MaxOps
    /\ \E c \in Calls :
        /\ job' = [job EXCEPT ![t] = c]
        /\ pc' = [pc EXCEPT ![t] = IF c.op \in ServiceOps THEN "lock" ELSE "read"]
    /\ started' = started + 1
    /\ UNCHANGED <<row, logged, mtx, snap, syncs, crashes>>

\* Mutant of Lock: addPoints and deductPoints without their lock_guard.
LockIgnored(t) ==
    /\ pc[t] = "lock"
    /\ pc' = [pc EXCEPT ![t] = "read"]
    /\ UNCHANGED <<row, logged, mtx, job, snap, started, syncs, crashes>>

\* std::lock_guard on PointsService::mtx_.
Lock(t) ==
    /\ pc[t] = "lock"
    /\ mtx = NoThread
    /\ mtx' = t
    /\ pc' = [pc EXCEPT ![t] = "read"]
    /\ UNCHANGED <<row, logged, job, snap, started, syncs, crashes>>

\* The rows a SELECT can return: the one of the call's server and player, or,
\* for adjust, which asks for the player only, any row of the player.
Matching(c) ==
    {k \in Keys : /\ row[k].id # 0
                  /\ IF c.op = "adjust" THEN k[2] = c.key[2] ELSE k = c.key}

\* Mutant of Refused: deductPoints without "if (balance < amount)".
RefusedUnlessCovered(c, id, balance) ==
    \/ c.op = "deduct" /\ id = 0
    \/ c.op = "adjust" /\ (IF id = 0 THEN c.amount < 0 ELSE balance + c.amount < 0)

\* The call's early returns, decided on the row it read (id 0: no row).
Refused(c, id, balance) ==
    \/ c.op = "deduct" /\ (id = 0 \/ balance < c.amount)
    \/ c.op = "adjust" /\ (IF id = 0 THEN c.amount < 0 ELSE balance + c.amount < 0)

\* Leave the path: the lock_guard's destructor unlocks, the locals are gone.
Return(t) ==
    /\ pc' = [pc EXCEPT ![t] = "idle"]
    /\ job' = [job EXCEPT ![t] = NoJob]
    /\ snap' = [snap EXCEPT ![t] = NoSnap]
    /\ mtx' = IF mtx = t THEN NoThread ELSE mtx

Read(t) ==
    /\ pc[t] = "read"
    /\ \E s \in IF Matching(job[t]) = {}
                THEN {[at |-> job[t].key, id |-> 0, balance |-> 0]}
                ELSE {[at |-> k, id |-> row[k].id, balance |-> row[k].balance] :
                        k \in Matching(job[t])} :
        IF Refused(job[t], s.id, s.balance)
        THEN Return(t)
        ELSE /\ snap' = [snap EXCEPT ![t] = s]
             /\ pc' = [pc EXCEPT ![t] = "write"]
             /\ UNCHANGED <<mtx, job>>
    /\ UNCHANGED <<row, logged, started, syncs, crashes>>

\* What the call adds to the balance and to the log.
Delta(c) == IF c.op = "deduct" THEN -c.amount ELSE c.amount

\* What it adds to lifetimeEarned: chat and CDK add their raw amount.
Earned(c) ==
    CASE c.op = "deduct"          -> 0
      [] c.op \in {"chat", "cdk"} -> c.amount
      [] OTHER                    -> Positive(c.amount)

\* Mutant of UpdateRow: the row is named by its key instead of its id.
UpdateRowByKey(c, s) ==
    row' = [row EXCEPT ![s.at] =
                [id |-> @.id,
                 balance |-> (IF c.op \in AbsoluteOps THEN s.balance ELSE @.balance) + Delta(c),
                 earned |-> @.earned + Earned(c)]]

\* UPDATE points ... WHERE id = the id that was read: nothing happens when the
\* row has been replaced.
UpdateRow(c, s) ==
    row' = [row EXCEPT ![s.at] =
                IF @.id # s.id THEN @
                ELSE [id |-> s.id,
                      balance |-> (IF c.op \in AbsoluteOps THEN s.balance ELSE @.balance) + Delta(c),
                      earned |-> @.earned + Earned(c)]]

\* INSERT INTO points: fails, and is only logged, when another caller has
\* inserted the key's row meanwhile or when the server does not exist.
InsertRow(c) ==
    IF c.key \notin Keys THEN UNCHANGED row
    ELSE row' = [row EXCEPT ![c.key] =
                IF @.id # 0 THEN @
                ELSE [id |-> 1,
                      balance |-> IF c.op = "chat" THEN Positive(c.amount) ELSE c.amount,
                      earned |-> IF c.op = "cdk" THEN c.amount ELSE Positive(c.amount)]]

Write(t) ==
    /\ pc[t] = "write"
    /\ IF snap[t].id # 0 THEN UpdateRow(job[t], snap[t]) ELSE InsertRow(job[t])
    /\ pc' = [pc EXCEPT ![t] = "log"]
    /\ UNCHANGED <<logged, mtx, job, snap, started, syncs, crashes>>

\* INSERT INTO point_logs, under the key the call was made with.
AppendLog(t) ==
    /\ pc[t] = "log"
    /\ logged' = [logged EXCEPT ![job[t].key] = @ + Delta(job[t])]
    /\ Return(t)
    /\ UNCHANGED <<row, started, syncs, crashes>>

\* INSERT OR REPLACE INTO points with the totals of a remote panel: the row is
\* deleted and inserted under a new id, and no point_logs entry is written.
Sync ==
    /\ "sync" \in Writers
    /\ syncs < MaxSyncs
    /\ \E k \in Keys, p \in SyncPoints :
        row' = [row EXCEPT ![k] = [id |-> @.id + 1, balance |-> p, earned |-> p]]
    /\ syncs' = syncs + 1
    /\ UNCHANGED <<logged, mtx, pc, job, snap, started, crashes>>

\* The process dies: committed statements survive, threads and mutex do not.
Crash ==
    /\ crashes < MaxCrashes
    /\ \E t \in Threads : pc[t] # "idle"
    /\ crashes' = crashes + 1
    /\ mtx' = NoThread
    /\ pc' = [t \in Threads |-> "idle"]
    /\ job' = [t \in Threads |-> NoJob]
    /\ snap' = [t \in Threads |-> NoSnap]
    /\ UNCHANGED <<row, logged, started, syncs>>

Next ==
    \/ \E t \in Threads : Begin(t) \/ Lock(t) \/ Read(t) \/ Write(t) \/ AppendLog(t)
    \/ Sync
    \/ Crash

Spec == Init /\ [][Next]_vars

--------------------------------------------------------------------------------
TypeOK ==
    /\ row \in [Keys -> Rows]
    /\ logged \in [LogKeys -> Int]
    /\ mtx \in Threads \cup {NoThread}
    /\ pc \in [Threads -> Phases]
    /\ job \in [Threads -> Jobs \cup {NoJob}]
    /\ snap \in [Threads -> Snaps \cup {NoSnap}]
    /\ \A t \in Threads :
        /\ pc[t] # "idle" => job[t] \in Jobs
        /\ pc[t] \in {"write", "log"} => snap[t] \in Snaps
    /\ started \in 0..MaxOps /\ syncs \in 0..MaxSyncs /\ crashes \in 0..MaxCrashes

\* A change of this key has been written but not logged yet.
Unlogged(k) == \E t \in Threads : pc[t] = "log" /\ job[t].key = k

\* Until the process crashes, and whenever no call is between its two writes, a
\* balance is exactly the sum of the key's log entries.  It is what the lock of
\* PointsService buys for its callers.
LedgerBalanced ==
    crashes = 0 => \A k \in Keys : Unlogged(k) \/ row[k].balance = logged[k]

\* The update and the log entry are separate statements, so a crash between
\* them leaves a balance the log does not explain.  The service's mutex limits
\* the damage of one crash to the ledger of one player.
CrashTearsOneLedger ==
    Cardinality({k \in Keys : ~Unlogged(k) /\ row[k].balance # logged[k]}) <= crashes

\* However service calls, adjust requests, CDK grants and poller replacements
\* interleave, updates can be lost but no balance is ever made up: it stays
\* within what the row has earned.  A stale write is harmless to a replaced row
\* because it names the old row's id.
BalanceWithinEarned ==
    \A k \in Keys : row[k].balance <= row[k].earned

\* Each service call takes effect in one step, between its call and its return.
Account == INSTANCE PointsAccount
    WITH account <- [k \in Keys |-> row[k].balance]
AccountSpec == Account!AccountSpec
================================================================================

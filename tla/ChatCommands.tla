------------------------------ MODULE ChatCommands ------------------------------
(***************************************************************************)
(* ChatCommandsPlugin: signing in, the lottery, buying a reserved slot and  *)
(* switching teams by typing a word into the game chat, and the panel's      *)
(* routes that give a reserved slot and take it back.                       *)
(*                                                                         *)
(* A command runs on whatever HTTP thread handles its chat line, so two     *)
(* lines of one player can be handled at once.  It checks a cooldown or a   *)
(* balance, pays, writes the log entry the cooldown is read from, and       *)
(* serves: separate statements, no transaction, no lock.  addBalance itself *)
(* is a subject of PointsLedger; here its UPDATE is relative to the balance *)
(* of that moment and its log entry is the next step.  The same row of      *)
(* points is written by scoring, by the panel's adjust and by the poller,    *)
(* which no command looks at again once it has checked the balance.  One     *)
(* game server.                                                             *)
(***************************************************************************)
EXTENDS Integers, Sequences, FiniteSets, FiniteSetsExt, SequencesExt

CONSTANTS
    Threads,      \* HTTP worker threads
    Players,
    Commands,     \* the commands typed, among those of AllCommands
    Costs,        \* the cost of each command (0: free)
    Reward,       \* the reward of sign_in and lottery
    Cooldown,     \* sign_in_cooldown and lottery_cooldown
    Opening,      \* the balance every player starts with
    Changes,      \* what the other writers of the points change a balance by
    MaxTime,      \* bound: the clock stops here
    MaxChats,     \* bound: number of commands typed
    MaxEdits,     \* bound: times the panel takes a player's slot back
    MaxOthers,    \* bound: number of changes by other writers
    MaxCrashes    \* bound: number of crashes of the panel

AllCommands == {"sign_in", "lottery", "redeem", "switch_team"}

ASSUME ChatAssumption ==
    /\ Threads # {} /\ IsFiniteSet(Threads)
    /\ Commands # {} /\ Commands \subseteq AllCommands
    /\ Costs \in [AllCommands -> Nat]
    /\ Costs["sign_in"] = 0 /\ Costs["redeem"] > 0 /\ Costs["switch_team"] > 0
    /\ Reward \in Nat /\ Cooldown \in Nat \ {0} /\ Opening \in Nat
    /\ Changes \subseteq Int
    /\ MaxTime \in Nat /\ MaxChats \in Nat /\ MaxEdits \in Nat
    /\ MaxOthers \in Nat /\ MaxCrashes \in Nat

VARIABLES
    now,      \* datetime('now')
    balance,  \* table points
    lost,     \* history: what other writers took since a command passed its check
    log,      \* table point_logs: per player and command, the entries' times
    slots,    \* table reserved_slots: the players with a slot
    given,    \* history: how often the panel gave a player a slot
    taken,    \* history: how often the panel took a player's slot back
    others,   \* number of changes by other writers
    moves,    \* AdminForceTeamChange commands executed for a player
    paid,     \* times each player paid for each command, or won its reward
    pc, job,  \* what each thread does next, and for which command and player
    disturbed,\* history: players with two commands at once, or one at a crash
    chats, crashes

rest == <<lost, disturbed, chats, crashes>>
panel == <<given, taken, others>>
vars == <<now, balance, log, slots, panel, moves, paid, pc, job, rest>>

Phases == {"idle", "cooldown", "balance", "slot", "pay", "payLog",
           "win", "winLog", "grant", "move"}
Jobs == [command : Commands, player : Players]
NoJob == [command |-> "none"]

Init ==
    /\ now = 0
    /\ balance = [p \in Players |-> Opening]
    /\ log = [p \in Players |-> [c \in AllCommands |-> <<>>]]
    /\ slots = {} /\ given = [p \in Players |-> 0] /\ taken = given
    /\ lost = [p \in Players |-> 0] /\ others = 0
    /\ moves = [p \in Players |-> 0]
    /\ paid = [p \in Players |-> [c \in AllCommands |-> 0]]
    /\ pc = [t \in Threads |-> "idle"]
    /\ job = [t \in Threads |-> NoJob]
    /\ disturbed = {} /\ chats = 0 /\ crashes = 0

\* The players a command of whom is under way.
UnderWay == {job[t].player : t \in {u \in Threads : pc[u] # "idle"}}

Goto(t, next) == pc' = [pc EXCEPT ![t] = next] /\ UNCHANGED job

\* An early return, or the end of the handler.
Done(t) == pc' = [pc EXCEPT ![t] = "idle"] /\ job' = [job EXCEPT ![t] = NoJob]

--------------------------------------------------------------------------------
\* A chat line whose text is a command's trigger.
Chat(t, c, p) ==
    /\ pc[t] = "idle"
    /\ chats < MaxChats
    /\ chats' = chats + 1
    /\ disturbed' = IF p \in UnderWay THEN disturbed \cup {p} ELSE disturbed
    /\ job' = [job EXCEPT ![t] = [command |-> c, player |-> p]]
    /\ pc' = [pc EXCEPT ![t] = IF c \in {"sign_in", "lottery"} THEN "cooldown" ELSE "balance"]
    /\ UNCHANGED <<now, balance, lost, log, slots, moves, paid, panel, crashes>>

\* Mutant of CoolingDown: the oldest entry is taken, ORDER BY without DESC.
CoolingDownFirst(entries) == entries # <<>> /\ now - Head(entries) < Cooldown

\* The newest log entry of the command is younger than its cooldown.
CoolingDown(entries) == entries # <<>> /\ now - Last(entries) < Cooldown

\* doSignIn and doLottery: early return in the cooldown; a lottery with a cost
\* goes on to look at the balance.
CheckCooldown(t) ==
    LET c == job[t].command IN
    /\ pc[t] = "cooldown"
    /\ IF CoolingDown(log[job[t].player][c])
       THEN Done(t)
       ELSE Goto(t, IF Costs[c] > 0 THEN "balance" ELSE "win")
    /\ UNCHANGED <<now, balance, log, slots, moves, paid, panel, rest>>

\* Mutant of CheckBalance: any positive balance will do.
CheckBalancePositive(t) ==
    LET c == job[t].command
        p == job[t].player
    IN  /\ pc[t] = "balance"
        /\ IF balance[p] <= 0
           THEN Done(t) /\ UNCHANGED lost
           ELSE /\ Goto(t, IF c = "redeem" THEN "slot" ELSE "pay")
                /\ lost' = [lost EXCEPT ![p] = 0]
        /\ UNCHANGED <<now, balance, log, slots, moves, paid, panel, disturbed, chats, crashes>>

\* getBalance: early return when it does not cover the cost.
CheckBalance(t) ==
    LET c == job[t].command
        p == job[t].player
    IN  /\ pc[t] = "balance"
        /\ IF balance[p] < Costs[c]
           THEN Done(t) /\ UNCHANGED lost
           ELSE /\ Goto(t, IF c = "redeem" THEN "slot" ELSE "pay")
                /\ lost' = [lost EXCEPT ![p] = 0]
        /\ UNCHANGED <<now, balance, log, slots, moves, paid, panel, disturbed, chats, crashes>>

\* Mutant of CheckSlot: without its early return.
CheckSlotIgnored(t) ==
    /\ pc[t] = "slot"
    /\ Goto(t, "pay")
    /\ UNCHANGED <<now, balance, log, slots, moves, paid, panel, rest>>

\* doRedeem: early return when the player has a slot.
CheckSlot(t) ==
    /\ pc[t] = "slot"
    /\ IF job[t].player \in slots THEN Done(t) ELSE Goto(t, "pay")
    /\ UNCHANGED <<now, balance, log, slots, moves, paid, panel, rest>>

\* addBalance of the negative cost: the UPDATE ...
Pay(t) ==
    LET c == job[t].command
        p == job[t].player
    IN  /\ pc[t] = "pay"
        /\ balance' = [balance EXCEPT ![p] = @ - Costs[c]]
        /\ paid' = [paid EXCEPT ![p][c] = @ + 1]
        /\ Goto(t, "payLog")
        /\ UNCHANGED <<now, log, slots, moves, panel, rest>>

\* ... and the log entry, which for the lottery starts the cooldown.
PayLog(t) ==
    LET c == job[t].command IN
    /\ pc[t] = "payLog"
    /\ log' = [log EXCEPT ![job[t].player][c] = Append(@, now)]
    /\ Goto(t, CASE c = "lottery" -> "win" [] c = "redeem" -> "grant" [] OTHER -> "move")
    /\ UNCHANGED <<now, balance, slots, moves, paid, panel, rest>>

\* addBalance of the reward of sign_in and lottery: the UPDATE ...
Win(t) ==
    LET c == job[t].command
        p == job[t].player
    IN  /\ pc[t] = "win"
        /\ balance' = [balance EXCEPT ![p] = @ + Reward]
        /\ paid' = IF Costs[c] = 0 THEN [paid EXCEPT ![p][c] = @ + 1] ELSE paid
        /\ Goto(t, "winLog")
        /\ UNCHANGED <<now, log, slots, moves, panel, rest>>

\* ... and the log entry that the cooldown is read from.
WinLog(t) ==
    /\ pc[t] = "winLog"
    /\ log' = [log EXCEPT ![job[t].player][job[t].command] = Append(@, now)]
    /\ Done(t)
    /\ UNCHANGED <<now, balance, slots, moves, paid, panel, rest>>

\* INSERT INTO reserved_slots: fails quietly when there is one (unique index).
Grant(t) ==
    /\ pc[t] = "grant"
    /\ slots' = slots \cup {job[t].player}
    /\ Done(t)
    /\ UNCHANGED <<now, balance, log, moves, paid, panel, rest>>

\* The team change over RCON: RconPool!send tries once more when no answer came,
\* so the game executes it twice, once or not at all; the player is told the
\* outcome, and keeps neither the points nor the team if it failed.
Move(t) ==
    /\ pc[t] = "move"
    /\ \E n \in 0..2 : moves' = [moves EXCEPT ![job[t].player] = @ + n]
    /\ Done(t)
    /\ UNCHANGED <<now, balance, log, slots, paid, panel, rest>>

\* POST /api/reserved-slots: early return when there is one; the same INSERT, so
\* that one slipped in after the check makes it fail quietly (unique index) and
\* check and INSERT are one step.  The call to the relay that follows is refused:
\* it carries no key.
GiveSlot(p) ==
    /\ p \notin slots
    /\ slots' = slots \cup {p}
    /\ given' = [given EXCEPT ![p] = @ + 1]
    /\ UNCHANGED <<now, balance, log, taken, others, moves, paid, pc, job, rest>>

\* DELETE /api/reserved-slots/:id: the row is gone, and the player may buy again.
TakeSlot(p) ==
    /\ p \in slots
    /\ taken[p] < MaxEdits
    /\ slots' = slots \ {p}
    /\ taken' = [taken EXCEPT ![p] = @ + 1]
    /\ UNCHANGED <<now, balance, log, given, others, moves, paid, pc, job, rest>>

\* The other writers of the player's points: scoring, which adds points_tk and
\* points_suicide too, the panel's adjust, and the poller, which replaces the row.
OtherWriter(p) ==
    /\ others < MaxOthers
    /\ others' = others + 1
    /\ \E d \in Changes :
        /\ balance' = [balance EXCEPT ![p] = @ + d]
        /\ lost' = [lost EXCEPT ![p] = IF d < 0 THEN @ - d ELSE @]
    /\ UNCHANGED <<now, log, slots, given, taken, moves, paid, pc, job, disturbed, chats, crashes>>

Tick ==
    /\ now < MaxTime
    /\ now' = now + 1
    /\ UNCHANGED <<balance, log, slots, moves, paid, pc, job, panel, rest>>

\* The panel dies; what it has written is on disk.
Crash ==
    /\ crashes < MaxCrashes
    /\ \E t \in Threads : pc[t] # "idle"
    /\ crashes' = crashes + 1
    /\ disturbed' = disturbed \cup UnderWay
    /\ pc' = [t \in Threads |-> "idle"]
    /\ job' = [t \in Threads |-> NoJob]
    /\ UNCHANGED <<now, balance, lost, log, slots, moves, paid, panel, chats>>

Step(t) ==
    \/ CheckCooldown(t) \/ CheckBalance(t) \/ CheckSlot(t)
    \/ Pay(t) \/ PayLog(t) \/ Win(t) \/ WinLog(t) \/ Grant(t) \/ Move(t)

Next ==
    \/ \E t \in Threads :
        \/ \E c \in Commands, p \in Players : Chat(t, c, p)
        \/ Step(t)
    \/ \E p \in Players : GiveSlot(p) \/ TakeSlot(p) \/ OtherWriter(p)
    \/ Tick
    \/ Crash

Spec == Init /\ [][Next]_vars

--------------------------------------------------------------------------------
TypeOK ==
    /\ now \in 0..MaxTime
    /\ balance \in [Players -> Int]
    /\ log \in [Players -> [AllCommands -> Seq(0..MaxTime)]]
    /\ slots \subseteq Players /\ given \in [Players -> Nat] /\ taken \in [Players -> 0..MaxEdits]
    /\ lost \in [Players -> Nat] /\ others \in 0..MaxOthers
    /\ moves \in [Players -> Nat]
    /\ paid \in [Players -> [AllCommands -> Nat]]
    /\ pc \in [Threads -> Phases]
    /\ job \in [Threads -> Jobs \cup {NoJob}]
    /\ \A t \in Threads : pc[t] # "idle" => job[t] \in Jobs
    /\ disturbed \subseteq Players
    /\ chats \in 0..MaxChats /\ crashes \in 0..MaxCrashes

\* One command of a player at a time: a free command (sign_in, and the lottery
\* by default) rewards at most once in every cooldown, so the k-th reward comes no
\* earlier than k-1 cooldowns after the start.
OncePerCooldown ==
    \A p \in Players \ disturbed, c \in {"sign_in", "lottery"} :
        Costs[c] = 0 => paid[p][c] <= 1 + (now \div Cooldown)

\* What the account will hold when thread t has paid, but for what other writers
\* took from it after the balance was checked.
Left(t) == balance[job[t].player] + lost[job[t].player] - Costs[job[t].command]

\* One command of a player at a time: none takes more than the player has, and what
\* it does overdraw is what the other writers took meanwhile ...
NeverOverdrawn ==
    \A t \in Threads : pc[t] = "pay" /\ job[t].player \notin disturbed => Left(t) >= 0

\* ... and a reserved slot is paid for once, as long as the panel leaves it.
SlotPaidOnce == \A p \in Players \ disturbed : paid[p]["redeem"] <= 1 + taken[p]

\* Nothing is served unpaid, whatever is handled at the same time and wherever
\* the panel dies: every slot a player has or had was paid for or given in the
\* panel, and every payment moves the player twice at the most.
ServedIsPaid ==
    \A p \in Players :
        /\ taken[p] + (IF p \in slots THEN 1 ELSE 0) <= given[p] + paid[p]["redeem"]
        /\ moves[p] <= 2 * paid[p]["switch_team"]

\* How far concurrency can overdraw an account: one command of every other thread
\* may have passed its check; again but for what the other writers took after the
\* last of these checks.
OverdrawBounded ==
    \A t \in Threads : pc[t] = "pay" =>
        Left(t) >= -(Cardinality(Threads) - 1) * Max({Costs[c] : c \in Commands})

\* What a payment can overdraw an account by: nothing, or what overlapping commands
\* cost, and what the other writers of the points took since the balance was checked.
BalanceBounded == TypeOK /\ NeverOverdrawn /\ OverdrawBounded

\* A slot is paid for, and once; a team change is paid for, if not each time.
PaidOnce == SlotPaidOnce /\ ServedIsPaid
================================================================================

--------------------------- MODULE ChatCommandsProofs ---------------------------
(***************************************************************************)
(* Theorems about ChatCommands: what a player can be charged, overdrawn by   *)
(* and served, for any number of threads, players, costs and crashes.        *)
(***************************************************************************)
EXTENDS ChatCommands, FiniteSetTheorems, TLAPS

--------------------------------------------------------------------------------
(* The strengthenings.                                                      *)

\* Thread t handles a command of player p.
Serves(t, p) == pc[t] # "idle" /\ job[t].player = p

\* The statements each command runs through.
Stage ==
    \A t \in Threads : LET c == job[t].command IN
        /\ pc[t] \in {"cooldown", "win", "winLog"} => c \in {"sign_in", "lottery"}
        /\ pc[t] \in {"balance", "pay", "payLog"} =>
            c # "sign_in" /\ (c = "lottery" => Costs[c] > 0)
        /\ pc[t] \in {"slot", "grant"} => c = "redeem"
        /\ pc[t] = "move" => c = "switch_team"

\* A player who is not disturbed has one command at a time ...
Alone ==
    \A p \in Players \ disturbed, t, u \in Threads :
        Serves(t, p) /\ Serves(u, p) => t = u

\* A balance with what the other writers took from it since the last check.
Held(p) == balance[p] + lost[p]

\* ... and whoever passed the balance check is still covered when it pays.
Covered ==
    \A p \in Players \ disturbed, t \in Threads :
        Serves(t, p) /\ pc[t] \in {"slot", "pay"} => Held(p) >= Costs[job[t].command]

Dearest == Max({Costs[c] : c \in Commands})

\* What N - n payments can take from an account.
Room(n) == (Cardinality(Threads) - n) * Dearest

\* The threads that have passed the balance check of a command of p and not paid,
\* and what each of them is going to pay.
Passed(p) == {t \in Threads : pc[t] \in {"slot", "pay"} /\ job[t].player = p}
Due(p) == [t \in Passed(p) |-> Costs[job[t].command]]

\* A balance and the payments still to come: the n threads that have passed the
\* check leave room for N - n payments that were made before, and one of them sees
\* its own cost covered on top.
Enough(b, due) ==
    DOMAIN due # {} => \E t \in DOMAIN due : b >= due[t] - Room(Cardinality(DOMAIN due))

OverdraftOpen == \A p \in Players : Enough(Held(p), Due(p))

\* The threads that have taken the price of a slot of p and not granted it, and
\* those that have taken the price of a team change and not made it.
Granting(p) ==
    {t \in Threads : /\ pc[t] \in {"payLog", "grant"}
                     /\ job[t].command = "redeem" /\ job[t].player = p}
Moving(p) ==
    {t \in Threads : /\ pc[t] \in {"payLog", "move"}
                     /\ job[t].command = "switch_team" /\ job[t].player = p}

\* Every payment is served, still to be served, or lost.
Accounted ==
    \A p \in Players :
        /\ taken[p] + (IF p \in slots THEN 1 ELSE 0) + Cardinality(Granting(p))
            <= given[p] + paid[p]["redeem"]
        /\ moves[p] + 2 * Cardinality(Moving(p)) <= 2 * paid[p]["switch_team"]

\* A player who is not disturbed and has no slot, and whom no payment is about to
\* give one, has had every slot that was paid for taken back.
Owed(p) ==
    /\ paid[p]["redeem"] <= 1 + taken[p]
    /\ p \notin slots /\ Granting(p) = {} => paid[p]["redeem"] <= taken[p]
    /\ \A t \in Threads : Serves(t, p) /\ pc[t] = "pay" /\ job[t].command = "redeem" =>
        paid[p]["redeem"] <= taken[p]

SlotOwed == \A p \in Players \ disturbed : Owed(p)

\* The rewards of a free command whose log entry is written: the newest entry is
\* no earlier than k-1 cooldowns when k have been won.
RewardLogged(p, c) ==
    \/ paid[p][c] = 0
    \/ log[p][c] # <<>> /\ paid[p][c] <= 1 + (Last(log[p][c]) \div Cooldown)

\* A free command of a player who is not disturbed rewards once per cooldown: its
\* newest log entry says so, or the clock when the entry is still to be written.
Spaced(p, c) ==
    /\ paid[p][c] <= 1 + (now \div Cooldown)
    /\ \/ RewardLogged(p, c)
       \/ \E t \in Threads : Serves(t, p) /\ pc[t] = "winLog" /\ job[t].command = c
    /\ \A t \in Threads : Serves(t, p) /\ pc[t] = "win" /\ job[t].command = c =>
        paid[p][c] <= now \div Cooldown

RewardsSpaced ==
    \A p \in Players \ disturbed, c \in {"sign_in", "lottery"} : Costs[c] = 0 => Spaced(p, c)

--------------------------------------------------------------------------------
(* Types, and the order of each command's statements.                       *)

\* What the thread that takes a step works on, and the types of what it leaves
\* behind for its next step.
LEMMA StepType ==
  ASSUME TypeOK, NEW t \in Threads, Step(t)
  PROVE  /\ pc[t] # "idle" /\ job[t] \in Jobs
         /\ job[t].command \in AllCommands /\ job[t].player \in Players
         /\ \E next \in Phases : /\ pc' = [pc EXCEPT ![t] = next]
                               /\ job' = IF next = "idle" THEN [job EXCEPT ![t] = NoJob]
                                         ELSE job
         /\ UNCHANGED <<now, given, taken, others, disturbed, chats, crashes>>
         /\ pc' \in [Threads -> Phases] /\ job' \in [Threads -> Jobs \cup {NoJob}]
         /\ \A u \in Threads : pc'[u] # "idle" => job'[u] \in Jobs
         /\ lost' = lost \/ lost' = [lost EXCEPT ![job[t].player] = 0]
         /\ CheckBalance(t) \/ UNCHANGED lost
<1>1. pc[t] # "idle"
  BY DEF Step, CheckCooldown, CheckBalance, CheckSlot, Pay, PayLog, Win, WinLog, Grant, Move
<1>2. job[t] \in Jobs
  BY <1>1 DEF TypeOK
<1>3. PICK next \in Phases : /\ pc' = [pc EXCEPT ![t] = next]
                             /\ job' = IF next = "idle" THEN [job EXCEPT ![t] = NoJob]
                                       ELSE job
  BY DEF Step, CheckCooldown, CheckBalance, CheckSlot, Pay, PayLog, Win, WinLog, Grant,
         Move, Goto, Done, Phases
<1>4. UNCHANGED <<now, given, taken, others, disturbed, chats, crashes>>
  BY DEF Step, CheckCooldown, CheckBalance, CheckSlot, Pay, PayLog, Win, WinLog, Grant,
         Move, panel, rest
<1>5. /\ pc' \in [Threads -> Phases] /\ job' \in [Threads -> Jobs \cup {NoJob}]
      /\ \A u \in Threads : pc'[u] # "idle" => job'[u] \in Jobs
  BY <1>1, <1>2, <1>3 DEF TypeOK
<1>6. job[t].command \in AllCommands /\ job[t].player \in Players
  BY <1>2, ChatAssumption DEF Jobs
<1>7. CheckBalance(t) \/ UNCHANGED lost
  BY DEF Step, CheckCooldown, CheckSlot, Pay, PayLog, Win, WinLog, Grant, Move, rest
<1>8. lost' = lost \/ lost' = [lost EXCEPT ![job[t].player] = 0]
  BY <1>7 DEF CheckBalance
<1> QED
  BY <1>1, <1>2, <1>3, <1>4, <1>5, <1>6, <1>7, <1>8

\* A table of tables stays one when an entry is replaced by another of its kind.
LEMMA EntryReplaced ==
    ASSUME NEW A, NEW B, NEW C, NEW f \in [A -> [B -> C]], NEW a \in A, NEW b \in B, NEW v \in C
    PROVE  [f EXCEPT ![a][b] = v] \in [A -> [B -> C]]
<1>1. [f[a] EXCEPT ![b] = v] \in [B -> C]
  OBVIOUS
<1>2. [f EXCEPT ![a][b] = v] = [f EXCEPT ![a] = [f[a] EXCEPT ![b] = v]]
  OBVIOUS
<1> QED
  BY <1>1, <1>2

\* The last element of a sequence is one of its elements.
LEMMA LastIsElement ==
    ASSUME NEW S, NEW s \in Seq(S), s # <<>>
    PROVE  Last(s) \in S
<1>1. Len(s) \in 1..Len(s)
  OBVIOUS
<1> QED
  BY <1>1 DEF Last

\* Every step keeps the types of the variables.
LEMMA TypeInduction == TypeOK /\ [Next]_vars => TypeOK'
<1> SUFFICES ASSUME TypeOK, [Next]_vars PROVE TypeOK'
  OBVIOUS
<1>0. /\ MaxTime \in Nat /\ MaxChats \in Nat /\ MaxEdits \in Nat /\ MaxCrashes \in Nat
      /\ MaxOthers \in Nat /\ Changes \subseteq Int
  BY ChatAssumption
<1>1. ASSUME NEW t \in Threads, NEW c \in Commands, NEW p \in Players, Chat(t, c, p)
      PROVE  TypeOK'
  <2>1. pc' \in [Threads -> Phases] /\ disturbed' \subseteq Players /\ chats' \in 0..MaxChats
    <3>1. pc' \in [Threads -> Phases]
      BY <1>1 DEF Chat, TypeOK, Phases
    <3>2. chats' \in 0..MaxChats
      BY <1>0, <1>1 DEF Chat, TypeOK
    <3>3. disturbed' \subseteq Players
      BY <1>1 DEF Chat, TypeOK
    <3> QED
      BY <3>1, <3>2, <3>3
  <2>2. /\ job' \in [Threads -> Jobs \cup {NoJob}]
        /\ \A u \in Threads : pc'[u] # "idle" => job'[u] \in Jobs
    <3>1. [command |-> c, player |-> p] \in Jobs
      BY DEF Jobs
    <3> QED
      BY <1>1, <3>1 DEF Chat, TypeOK
  <2> QED
    BY <1>1, <2>1, <2>2 DEF Chat, TypeOK, panel
<1>2. ASSUME NEW t \in Threads, Step(t) PROVE TypeOK'
  <2> DEFINE c == job[t].command
             p == job[t].player
  <2>1. c \in AllCommands /\ p \in Players
    BY <1>2, StepType
  <2>2. Costs[c] \in Int /\ Reward \in Int
    BY <2>1, ChatAssumption
  <2>3. Append(log[p][c], now) \in Seq(0..MaxTime)
    BY <2>1 DEF TypeOK
  <2> HIDE DEF c, p
  <2> DEFINE TablesOK == /\ balance' \in [Players -> Int]
                         /\ log' \in [Players -> [AllCommands -> Seq(0..MaxTime)]]
                         /\ slots' \subseteq Players /\ moves' \in [Players -> Nat]
                         /\ paid' \in [Players -> [AllCommands -> Nat]]
  <2>4. balance \in [Players -> Int] /\ slots \subseteq Players
    BY DEF TypeOK
  <2>5. log \in [Players -> [AllCommands -> Seq(0..MaxTime)]]
    BY DEF TypeOK
  <2>6. moves \in [Players -> Nat]
    BY DEF TypeOK
  <2>7. paid \in [Players -> [AllCommands -> Nat]]
    BY DEF TypeOK
  <2>8. [paid EXCEPT ![p][c] = paid[p][c] + 1] \in [Players -> [AllCommands -> Nat]]
    <3>1. paid[p][c] \in Nat
      BY <2>1, <2>7
    <3>2. paid[p][c] + 1 \in Nat
      BY <3>1
    <3> QED
      BY <2>1, <2>7, <3>2, EntryReplaced
  <2>9. SUFFICES TablesOK
    <3>1. lost \in [Players -> Nat]
      BY DEF TypeOK
    <3>2. lost' = lost \/ lost' = [lost EXCEPT ![job[t].player] = 0]
      BY <1>2, StepType
    <3>3. lost' \in [Players -> Nat]
      <4>1. [lost EXCEPT ![job[t].player] = 0] \in [Players -> Nat]
        BY <3>1
      <4> QED
        BY <3>1, <3>2, <4>1
    <3>4. /\ UNCHANGED <<now, given, taken, others, disturbed, chats, crashes>>
          /\ pc' \in [Threads -> Phases] /\ job' \in [Threads -> Jobs \cup {NoJob}]
          /\ \A u \in Threads : pc'[u] # "idle" => job'[u] \in Jobs
      BY <1>2, StepType
    <3> QED
      BY <3>3, <3>4 DEF TypeOK
  <2>10. CASE CheckCooldown(t) \/ CheckBalance(t) \/ CheckSlot(t)
    <3>1. UNCHANGED <<balance, log, slots, moves, paid>>
      BY <2>10 DEF CheckCooldown, CheckBalance, CheckSlot
    <3> QED
      BY <2>4, <2>5, <2>6, <2>7, <3>1
  <2>11. CASE Pay(t)
    <3>1. /\ balance' = [balance EXCEPT ![p] = @ - Costs[c]]
          /\ paid' = [paid EXCEPT ![p][c] = paid[p][c] + 1]
          /\ UNCHANGED <<log, slots, moves>>
      BY <2>11 DEF Pay, c, p
    <3>2. balance' \in [Players -> Int]
      BY <2>1, <2>2, <2>4, <3>1
    <3> QED
      BY <2>4, <2>5, <2>6, <2>8, <3>1, <3>2
  <2>12. CASE PayLog(t) \/ WinLog(t)
    <3>1. /\ log' = [log EXCEPT ![p][c] = Append(log[p][c], now)]
          /\ UNCHANGED <<balance, slots, moves, paid>>
      BY <2>12 DEF PayLog, WinLog, c, p
    <3>2. log' \in [Players -> [AllCommands -> Seq(0..MaxTime)]]
      BY <2>1, <2>3, <2>5, <3>1, EntryReplaced
    <3> QED
      BY <2>4, <2>6, <2>7, <3>1, <3>2
  <2>13. CASE Win(t)
    <3>1. /\ balance' = [balance EXCEPT ![p] = @ + Reward]
          /\ UNCHANGED <<log, slots, moves>>
      BY <2>13 DEF Win, c, p
    <3>2. balance' \in [Players -> Int]
      BY <2>1, <2>2, <2>4, <3>1
    <3>3. paid' = [paid EXCEPT ![p][c] = paid[p][c] + 1] \/ UNCHANGED paid
      BY <2>13 DEF Win, c, p
    <3> QED
      BY <2>4, <2>5, <2>6, <2>7, <2>8, <3>1, <3>2, <3>3
  <2>14. CASE Grant(t)
    <3>1. slots' \subseteq Players /\ UNCHANGED <<balance, log, moves, paid>>
      BY <2>1, <2>4, <2>14 DEF Grant, p
    <3> QED
      BY <2>4, <2>5, <2>6, <2>7, <3>1
  <2>15. CASE Move(t)
    <3>1. PICK n \in 0..2 : moves' = [moves EXCEPT ![p] = @ + n]
      BY <2>15 DEF Move, p
    <3>2. moves' \in [Players -> Nat]
      <4>1. moves[p] \in Nat
        BY <2>1, <2>6
      <4>2. moves[p] + n \in Nat
        BY <4>1
      <4> QED
        BY <2>1, <2>6, <3>1, <4>2
    <3>3. UNCHANGED <<balance, log, slots, paid>>
      BY <2>15 DEF Move
    <3> QED
      BY <2>4, <2>5, <2>7, <3>2, <3>3
  <2> QED
    BY <1>2, <2>10, <2>11, <2>12, <2>13, <2>14, <2>15 DEF Step
<1>3. ASSUME NEW p \in Players, GiveSlot(p) PROVE TypeOK'
  <2>1. given \in [Players -> Nat] /\ slots \subseteq Players
    BY DEF TypeOK
  <2>2. slots' \subseteq Players /\ given' \in [Players -> Nat]
    BY <1>3, <2>1 DEF GiveSlot
  <2> QED
    BY <1>3, <2>2 DEF GiveSlot, TypeOK, rest
<1>4. ASSUME NEW p \in Players, TakeSlot(p) PROVE TypeOK'
  <2>1. taken \in [Players -> 0..MaxEdits] /\ slots \subseteq Players
    BY DEF TypeOK
  <2>2. slots' \subseteq Players /\ taken' \in [Players -> 0..MaxEdits]
    BY <1>0, <1>4, <2>1 DEF TakeSlot
  <2> QED
    BY <1>4, <2>2 DEF TakeSlot, TypeOK, rest
<1>8. ASSUME NEW p \in Players, OtherWriter(p) PROVE TypeOK'
  <2>1. PICK d \in Changes : /\ balance' = [balance EXCEPT ![p] = @ + d]
                             /\ lost' = [lost EXCEPT ![p] = IF d < 0 THEN @ - d ELSE @]
    BY <1>8 DEF OtherWriter
  <2>2. d \in Int /\ balance \in [Players -> Int] /\ lost \in [Players -> Nat]
    BY <1>0 DEF TypeOK
  <2>3. balance' \in [Players -> Int]
    BY <2>1, <2>2
  <2>4. lost' \in [Players -> Nat]
    BY <2>1, <2>2
  <2>5. others' \in 0..MaxOthers
    BY <1>0, <1>8 DEF OtherWriter, TypeOK
  <2> QED
    BY <1>8, <2>3, <2>4, <2>5 DEF OtherWriter, TypeOK
<1>5. CASE Tick
  <2>1. now' \in 0..MaxTime
    BY <1>0, <1>5 DEF Tick, TypeOK
  <2> QED
    BY <1>5, <2>1 DEF Tick, TypeOK, panel, rest
<1>6. CASE Crash
  <2>1. /\ pc' \in [Threads -> Phases] /\ job' \in [Threads -> Jobs \cup {NoJob}]
        /\ \A t \in Threads : pc'[t] = "idle"
    BY <1>6 DEF Crash, Phases
  <2>2. UnderWay \subseteq Players
    BY DEF UnderWay, TypeOK, Jobs
  <2>3. disturbed' \subseteq Players
    BY <1>6, <2>2 DEF Crash, TypeOK
  <2>4. crashes' \in 0..MaxCrashes
    BY <1>0, <1>6 DEF Crash, TypeOK
  <2> QED
    BY <1>6, <2>1, <2>3, <2>4 DEF Crash, TypeOK, panel
<1>7. CASE UNCHANGED vars
  BY <1>7 DEF vars, TypeOK, panel, rest
<1> QED
  BY <1>1, <1>2, <1>3, <1>4, <1>5, <1>6, <1>7, <1>8 DEF Next

\* The values of every variable stay what the tables and the threads can hold.
THEOREM TypeCorrect == Spec => []TypeOK
<1>1. Init => TypeOK
  BY ChatAssumption DEF Init, TypeOK, Phases
<1> QED
  BY <1>1, TypeInduction, PTL DEF Spec

--------------------------------------------------------------------------------
(* Where every thread stands.                                               *)

\* A step of t leaves the other threads where they are.
LEMMA StepOthers ==
  ASSUME TypeOK, NEW t \in Threads, Step(t)
  PROVE  /\ \A u \in Threads \ {t} : pc'[u] = pc[u] /\ job'[u] = job[u]
         /\ pc'[t] # "idle" => job'[t] = job[t]
<1>1. PICK next \in Phases : /\ pc' = [pc EXCEPT ![t] = next]
                             /\ job' = IF next = "idle" THEN [job EXCEPT ![t] = NoJob]
                                       ELSE job
  BY StepType
<1> QED
  BY <1>1 DEF TypeOK

\* A chat line starts one thread on one command.
LEMMA ChatStarts ==
  ASSUME TypeOK, NEW t \in Threads, NEW c \in Commands, NEW p \in Players, Chat(t, c, p)
  PROVE  /\ pc[t] = "idle"
         /\ pc'[t] = IF c \in {"sign_in", "lottery"} THEN "cooldown" ELSE "balance"
         /\ job'[t].command = c /\ job'[t].player = p
         /\ \A u \in Threads \ {t} : pc'[u] = pc[u] /\ job'[u] = job[u]
         /\ UNCHANGED <<now, balance, lost, log, slots, moves, paid, given, taken>>
<1>1. pc[t] = "idle" /\ UNCHANGED <<now, balance, lost, log, slots, moves, paid, given, taken>>
  BY DEF Chat, panel
<1>2. /\ pc' = [pc EXCEPT ![t] = IF c \in {"sign_in", "lottery"} THEN "cooldown" ELSE "balance"]
      /\ job' = [job EXCEPT ![t] = [command |-> c, player |-> p]]
  BY DEF Chat
<1>3. pc \in [Threads -> Phases] /\ job \in [Threads -> Jobs \cup {NoJob}]
  BY DEF TypeOK
<1> QED
  BY <1>1, <1>2, <1>3

\* Each command keeps to its own statements.
LEMMA StageInduction == TypeOK /\ Stage /\ [Next]_vars => Stage'
<1> SUFFICES ASSUME TypeOK, Stage, [Next]_vars PROVE Stage'
  OBVIOUS
<1>1. ASSUME NEW t \in Threads, NEW c \in Commands, NEW p \in Players, Chat(t, c, p)
      PROVE  Stage'
  BY <1>1, ChatStarts, ChatAssumption DEF Stage, AllCommands
<1>2. ASSUME NEW t \in Threads, Step(t) PROVE Stage'
  <2> DEFINE Keeps(u) == LET c == job[u].command IN
        /\ pc[u] \in {"cooldown", "win", "winLog"} => c \in {"sign_in", "lottery"}
        /\ pc[u] \in {"balance", "pay", "payLog"} =>
            c # "sign_in" /\ (c = "lottery" => Costs[c] > 0)
        /\ pc[u] \in {"slot", "grant"} => c = "redeem"
        /\ pc[u] = "move" => c = "switch_team"
  <2>1. \A u \in Threads : Keeps(u)
    BY DEF Stage
  <2>2. \A u \in Threads \ {t} : Keeps(u)'
    BY <1>2, <2>1, StepOthers
  <2>3. /\ pc'[t] # "idle" => job'[t] = job[t]
        /\ pc \in [Threads -> Phases] /\ job[t].command \in AllCommands
    BY <1>2, StepOthers, StepType DEF TypeOK
  <2>4. Keeps(t) /\ Costs["sign_in"] = 0
    BY <2>1, ChatAssumption
  <2>5. Keeps(t)'
    <3>1. CASE CheckCooldown(t)
      BY <2>3, <2>4, <3>1 DEF CheckCooldown, Goto, Done
    <3>2. CASE CheckBalance(t)
      BY <2>3, <2>4, <3>2 DEF CheckBalance, Goto, Done
    <3>3. CASE CheckSlot(t)
      BY <2>3, <2>4, <3>3 DEF CheckSlot, Goto, Done
    <3>4. CASE Pay(t)
      BY <2>3, <2>4, <3>4 DEF Pay, Goto
    <3>5. CASE PayLog(t)
      BY <2>3, <2>4, <3>5 DEF PayLog, Goto, AllCommands
    <3>6. CASE Win(t)
      BY <2>3, <2>4, <3>6 DEF Win, Goto
    <3>7. CASE WinLog(t) \/ Grant(t) \/ Move(t)
      BY <2>3, <2>4, <3>7 DEF WinLog, Grant, Move, Done
    <3> QED
      BY <1>2, <3>1, <3>2, <3>3, <3>4, <3>5, <3>6, <3>7 DEF Step
  <2> QED
    BY <2>2, <2>5 DEF Stage
<1>3. CASE Crash
  BY <1>3 DEF Crash, Stage
<1>4. ASSUME UNCHANGED <<pc, job>> PROVE Stage'
  BY <1>4 DEF Stage
<1> QED
  BY <1>1, <1>2, <1>3, <1>4 DEF Next, GiveSlot, TakeSlot, OtherWriter, Tick, vars

\* Whoever types while a command is under way is disturbed, and so is everyone
\* with a command under way at a crash.
LEMMA AloneInduction == TypeOK /\ Alone /\ [Next]_vars => Alone'
<1> SUFFICES ASSUME TypeOK, Alone, [Next]_vars PROVE Alone'
  OBVIOUS
<1>1. ASSUME NEW t \in Threads, NEW c \in Commands, NEW p \in Players, Chat(t, c, p)
      PROVE  Alone'
  <2>1. disturbed' = IF p \in UnderWay THEN disturbed \cup {p} ELSE disturbed
    BY <1>1 DEF Chat
  <2>2. p \in UnderWay \/ \A u \in Threads : ~Serves(u, p)
    BY DEF UnderWay, Serves
  <2> QED
    BY <1>1, <2>1, <2>2, ChatStarts DEF Alone, Serves
<1>2. ASSUME NEW t \in Threads, Step(t) PROVE Alone'
  BY <1>2, StepType, StepOthers DEF Alone, Serves
<1>3. CASE Crash
  BY <1>3 DEF Crash, Alone, Serves
<1>4. ASSUME UNCHANGED <<pc, job, disturbed>> PROVE Alone'
  BY <1>4 DEF Alone, Serves
<1> QED
  BY <1>1, <1>2, <1>3, <1>4 DEF Next, GiveSlot, TakeSlot, OtherWriter, Tick, vars, rest

--------------------------------------------------------------------------------
(* What an account can be charged.                                          *)

\* The types that the arithmetic of the balances needs.
LEMMA BalanceTypes ==
  ASSUME TypeOK
  PROVE  /\ balance \in [Players -> Int] /\ lost \in [Players -> Nat] /\ Reward \in Nat
         /\ \A p \in Players : Held(p) \in Int
         /\ \A t \in Threads : pc[t] # "idle" =>
              job[t].player \in Players /\ job[t].command \in Commands
              /\ Costs[job[t].command] \in Nat
<1>1. balance \in [Players -> Int] /\ lost \in [Players -> Nat] /\ Reward \in Nat
  BY ChatAssumption DEF TypeOK
<1>2. \A p \in Players : Held(p) \in Int
  BY <1>1 DEF Held
<1> QED
  BY <1>1, <1>2, ChatAssumption DEF TypeOK, Jobs

\* Another writer lowers no balance by more than it is known to have taken.
LEMMA HeldByOthers ==
  ASSUME TypeOK, NEW q \in Players, OtherWriter(q), NEW p \in Players
  PROVE  /\ Held(p)' \in Int /\ Held(p)' >= Held(p)
         /\ UNCHANGED <<pc, job, disturbed>>
<1>1. PICK d \in Changes : /\ balance' = [balance EXCEPT ![q] = @ + d]
                           /\ lost' = [lost EXCEPT ![q] = IF d < 0 THEN @ - d ELSE @]
  BY DEF OtherWriter
<1>2. d \in Int /\ balance \in [Players -> Int] /\ lost \in [Players -> Nat]
  BY BalanceTypes, ChatAssumption
<1>3. Held(p)' \in Int /\ Held(p)' >= Held(p)
  <2>1. CASE q = p
    <3>1. balance'[p] = balance[p] + d /\ lost'[p] = IF d < 0 THEN lost[p] - d ELSE lost[p]
      BY <1>1, <1>2, <2>1
    <3> QED
      BY <1>2, <3>1 DEF Held
  <2>2. CASE q # p
    <3>1. balance'[p] = balance[p] /\ lost'[p] = lost[p]
      BY <1>1, <1>2, <2>2
    <3> QED
      BY <1>2, <3>1 DEF Held
  <2> QED
    BY <2>1, <2>2
<1> QED
  BY <1>3 DEF OtherWriter

\* A check that passes covers its own command, and takes nothing from another
\* player; one that fails leaves all as it was.
LEMMA HeldByCheck ==
  ASSUME TypeOK, NEW t \in Threads, CheckBalance(t), NEW p \in Players
  PROVE  /\ UNCHANGED balance /\ pc[t] = "balance" /\ pc'[t] \in {"idle", "slot", "pay"}
         /\ job[t].player # p \/ pc'[t] = "idle" => Held(p)' = Held(p)
         /\ job[t].player = p /\ pc'[t] # "idle" => Held(p)' >= Costs[job[t].command]
<1>1. /\ pc \in [Threads -> Phases] /\ balance \in [Players -> Int]
      /\ lost \in [Players -> Nat] /\ pc[t] = "balance"
  BY BalanceTypes DEF TypeOK, CheckBalance
<1>2. job[t].player \in Players /\ Costs[job[t].command] \in Nat
  BY <1>1, BalanceTypes
<1>3. CASE balance[job[t].player] < Costs[job[t].command]
  BY <1>1, <1>3 DEF CheckBalance, Done, Held
<1>4. CASE ~(balance[job[t].player] < Costs[job[t].command])
  <2>1. /\ pc'[t] \in {"slot", "pay"} /\ UNCHANGED balance
        /\ lost' = [lost EXCEPT ![job[t].player] = 0]
    BY <1>1, <1>4 DEF CheckBalance, Goto
  <2> QED
    BY <1>1, <1>2, <1>4, <2>1 DEF Held
<1> QED
  BY <1>1, <1>3, <1>4

\* One command at a time is charged what the balance was checked for.
LEMMA CoveredInduction ==
  TypeOK /\ Stage /\ Alone /\ Covered /\ [Next]_vars => Covered'
<1> SUFFICES ASSUME TypeOK, Stage, Alone, Covered, [Next]_vars,
                    NEW p \in Players \ disturbed', NEW u \in Threads,
                    Serves(u, p)', pc'[u] \in {"slot", "pay"}
             PROVE  Held(p)' >= Costs[job'[u].command]
  BY DEF Covered
<1>0. /\ balance \in [Players -> Int] /\ lost \in [Players -> Nat] /\ Reward \in Nat
      /\ \A q \in Players : Held(q) \in Int
      /\ \A t \in Threads : pc[t] # "idle" =>
           job[t].player \in Players /\ Costs[job[t].command] \in Nat
  BY BalanceTypes
<1>1. p \in Players \ disturbed
  <2>1. disturbed \subseteq disturbed'
    BY StepType DEF Next, Chat, GiveSlot, TakeSlot, OtherWriter, Tick, Crash, vars, rest
  <2> QED
    BY <2>1
<1>2. Serves(u, p) /\ pc[u] \in {"slot", "pay"} => Held(p) >= Costs[job[u].command]
  BY <1>1 DEF Covered
<1>3. ASSUME pc'[u] = pc[u], job'[u] = job[u], Held(p)' \in Int, Held(p)' >= Held(p)
      PROVE  Held(p)' >= Costs[job'[u].command]
  <2>1. Serves(u, p) /\ pc[u] \in {"slot", "pay"}
    BY <1>3 DEF Serves
  <2>2. Costs[job[u].command] \in Nat /\ Held(p) \in Int
    BY <1>0, <1>1, <2>1 DEF Serves
  <2> QED
    BY <1>2, <1>3, <2>1, <2>2
<1>4. ASSUME NEW t \in Threads, NEW c \in Commands, NEW q \in Players, Chat(t, c, q)
      PROVE  Held(p)' >= Costs[job'[u].command]
  <2>1. pc'[t] \notin {"slot", "pay"} /\ Held(p)' = Held(p)
    BY <1>4, ChatStarts DEF Held
  <2>2. u # t
    BY <2>1
  <2> QED
    BY <1>0, <1>1, <1>3, <1>4, <2>1, <2>2, ChatStarts
<1>5. ASSUME NEW t \in Threads, Step(t) PROVE Held(p)' >= Costs[job'[u].command]
  <2>1. /\ \A w \in Threads \ {t} : pc'[w] = pc[w] /\ job'[w] = job[w]
        /\ pc'[t] # "idle" => job'[t] = job[t]
        /\ pc[t] # "idle" /\ pc \in [Threads -> Phases]
        /\ job[t].player \in Players /\ Costs[job[t].command] \in Nat
        /\ CheckBalance(t) \/ UNCHANGED lost
    BY <1>0, <1>5, StepOthers, StepType DEF TypeOK
  <2>2. CASE CheckBalance(t)
    <3>1. CASE u = t
      <4>1. job[t].player = p /\ job'[t] = job[t] /\ pc'[t] # "idle"
        BY <2>1, <3>1 DEF Serves
      <4> QED
        BY <1>1, <2>2, <3>1, <4>1, HeldByCheck
    <3>2. CASE u # t
      <4>1. Serves(u, p) /\ pc'[u] = pc[u] /\ job'[u] = job[u]
        BY <2>1, <3>2 DEF Serves
      <4>2. ~Serves(t, p)
        BY <1>1, <3>2, <4>1 DEF Alone
      <4>3. Held(p)' = Held(p)
        BY <1>1, <2>1, <2>2, <4>2, HeldByCheck DEF Serves
      <4> QED
        BY <1>0, <1>1, <1>3, <4>1, <4>3
    <3> QED
      BY <3>1, <3>2
  <2>3. CASE CheckSlot(t)
    <3>1. Held(p)' = Held(p) /\ pc[t] = "slot"
      BY <2>3 DEF CheckSlot, Held, rest
    <3>2. Serves(u, p) /\ pc[u] \in {"slot", "pay"} /\ job'[u] = job[u]
      BY <2>1, <3>1 DEF Serves
    <3> QED
      BY <1>2, <3>1, <3>2
  <2>4. CASE Pay(t)
    <3>1. /\ pc[t] = "pay" /\ pc'[t] = "payLog" /\ UNCHANGED lost
          /\ balance' = [balance EXCEPT ![job[t].player] = @ - Costs[job[t].command]]
      BY <2>1, <2>4 DEF Pay, Goto, rest
    <3>2. u # t
      BY <3>1
    <3>3. Serves(u, p) /\ pc'[u] = pc[u] /\ job'[u] = job[u]
      BY <2>1, <3>2 DEF Serves
    <3>4. job[t].player # p
      BY <1>1, <2>1, <3>2, <3>3 DEF Alone, Serves
    <3>5. Held(p)' = Held(p)
      BY <1>0, <1>1, <2>1, <3>1, <3>4 DEF Held
    <3> QED
      BY <1>0, <1>1, <1>3, <3>3, <3>5
  <2>5. CASE Win(t)
    <3>1. /\ balance' = [balance EXCEPT ![job[t].player] = @ + Reward]
          /\ pc'[t] = "winLog" /\ UNCHANGED lost
      BY <2>1, <2>5 DEF Win, Goto, rest
    <3>2. balance'[p] \in Int /\ balance'[p] >= balance[p]
      BY <1>0, <1>1, <3>1
    <3>3. Held(p)' \in Int /\ Held(p)' >= Held(p)
      <4>1. balance[p] \in Int /\ lost[p] \in Int /\ lost'[p] = lost[p]
        BY <1>0, <1>1, <3>1
      <4> QED
        BY <3>2, <4>1 DEF Held
    <3>4. u # t
      BY <3>1
    <3> QED
      BY <1>3, <2>1, <3>3, <3>4
  <2>6. CASE CheckCooldown(t) \/ PayLog(t) \/ WinLog(t) \/ Grant(t) \/ Move(t)
    <3>1. pc'[t] \notin {"slot", "pay"} /\ Held(p)' = Held(p)
      BY <2>1, <2>6 DEF CheckCooldown, PayLog, WinLog, Grant, Move, Goto, Done, Held, rest
    <3>2. u # t
      BY <3>1
    <3> QED
      BY <1>0, <1>1, <1>3, <2>1, <3>1, <3>2
  <2> QED
    BY <1>5, <2>2, <2>3, <2>4, <2>5, <2>6 DEF Step
<1>6. CASE Crash
  BY <1>6 DEF Crash
<1>7. ASSUME NEW q \in Players, OtherWriter(q) PROVE Held(p)' >= Costs[job'[u].command]
  BY <1>1, <1>3, <1>7, HeldByOthers
<1>8. ASSUME UNCHANGED <<pc, job, balance, lost>> PROVE Held(p)' >= Costs[job'[u].command]
  BY <1>0, <1>1, <1>3, <1>8 DEF Held
<1> QED
  BY <1>4, <1>5, <1>6, <1>7, <1>8 DEF Next, GiveSlot, TakeSlot, Tick, vars, rest

--------------------------------------------------------------------------------
(* How far an account can be overdrawn.                                     *)

\* Of the at most four costs one is the highest.
LEMMA DearestCost == Dearest \in Nat /\ \A c \in Commands : Costs[c] <= Dearest
<1> DEFINE S == {Costs[c] : c \in Commands}
<1>1. \A c \in Commands : Costs[c] \in Nat
  BY ChatAssumption
<1>2. \E c \in Commands : \A d \in Commands : Costs[c] >= Costs[d]
  <2> DEFINE Highest(U) == \/ Commands \cap U = {}
                           \/ \E c \in Commands \cap U :
                                \A d \in Commands \cap U : Costs[c] >= Costs[d]
  <2>1. ASSUME NEW U, NEW e, Highest(U) PROVE Highest(U \cup {e})
    <3>1. CASE e \notin Commands \/ Commands \cap U = {}
      BY <1>1, <2>1, <3>1
    <3>2. CASE e \in Commands /\ Commands \cap U # {}
      <4>1. PICK c \in Commands \cap U : \A d \in Commands \cap U : Costs[c] >= Costs[d]
        BY <2>1, <3>2
      <4>2. CASE Costs[e] >= Costs[c]
        BY <1>1, <3>2, <4>1, <4>2
      <4>3. CASE Costs[c] > Costs[e]
        BY <1>1, <3>2, <4>1, <4>3
      <4> QED
        BY <1>1, <3>2, <4>1, <4>2, <4>3
    <3> QED
      BY <3>1, <3>2
  <2>2. Highest({})
    OBVIOUS
  <2> HIDE DEF Highest
  <2>3. Highest(((({} \cup {"sign_in"}) \cup {"lottery"}) \cup {"redeem"}) \cup {"switch_team"})
    BY <2>1, <2>2
  <2>4. ((({} \cup {"sign_in"}) \cup {"lottery"}) \cup {"redeem"}) \cup {"switch_team"} = AllCommands
    BY DEF AllCommands
  <2>5. Highest(AllCommands)
    BY <2>3, <2>4
  <2>6. Commands \cap AllCommands = Commands /\ Commands # {}
    BY ChatAssumption
  <2> QED
    BY <2>5, <2>6 DEF Highest
<1>3. \E x \in S : \A y \in S : x >= y
  BY <1>2
<1>4. Dearest \in S /\ \A y \in S : Dearest >= y
  BY <1>3 DEF Dearest, Max
<1> QED
  BY <1>1, <1>4

\* Room in steps of one payment.
LEMMA RoomStep ==
  /\ Cardinality(Threads) \in Nat
  /\ \A n \in Int : Room(n) \in Int /\ Room(n - 1) = Room(n) + Dearest
  /\ \A n \in Int : n <= Cardinality(Threads) => Room(n) >= 0
  /\ \A n \in Int : n >= 1 => Room(n) <= Room(1)
<1>1. Cardinality(Threads) \in Nat /\ Dearest \in Nat
  BY FS_CardinalityType, DearestCost, ChatAssumption
<1>2. \A d \in Int : d * Dearest \in Int /\ (d + 1) * Dearest = d * Dearest + Dearest
  BY <1>1
<1>3. \A d \in Nat : d * Dearest >= 0
  BY <1>1
<1>4. ASSUME NEW n \in Int
      PROVE  /\ Room(n) \in Int /\ Room(n - 1) = Room(n) + Dearest
             /\ n <= Cardinality(Threads) => Room(n) >= 0
             /\ n >= 1 => Room(n) <= Room(1)
  <2> DEFINE d == Cardinality(Threads) - n
             e == n - 1
  <2>1. d \in Int /\ e \in Int /\ Room(n) = d * Dearest /\ Room(n - 1) = (d + 1) * Dearest
        /\ Room(1) = (d + e) * Dearest
    BY <1>1 DEF Room
  <2>2. n <= Cardinality(Threads) => d \in Nat
    BY <1>1
  <2>3. (d + e) * Dearest = d * Dearest + e * Dearest /\ e * Dearest \in Int
    BY <1>1
  <2>4. n >= 1 => e \in Nat
    OBVIOUS
  <2> HIDE DEF d, e
  <2>5. Room(n) \in Int /\ Room(n - 1) = Room(n) + Dearest
    BY <1>2, <2>1
  <2>6. n <= Cardinality(Threads) => Room(n) >= 0
    BY <1>3, <2>1, <2>2
  <2>7. n >= 1 => Room(n) <= Room(1)
    <3> DEFINE x == e * Dearest
    <3>1. Room(1) = Room(n) + x /\ x \in Int
      BY <2>1, <2>3
    <3>2. n >= 1 => x >= 0
      BY <1>3, <2>4
    <3> HIDE DEF x
    <3> QED
      BY <2>5, <3>1, <3>2
  <2> QED
    BY <2>5, <2>6, <2>7
<1> QED
  BY <1>1, <1>4

Dues(P) == [P -> 0..Dearest]

\* Threads that have passed the check are finitely many, and no more than there
\* are.
LEMMA DueCount ==
  ASSUME NEW P \in SUBSET Threads, NEW due \in Dues(P)
  PROVE  /\ DOMAIN due = P /\ IsFiniteSet(P) /\ Cardinality(P) \in Nat
         /\ Cardinality(P) <= Cardinality(Threads)
         /\ P # {} => Cardinality(P) >= 1
<1>1. IsFiniteSet(P) /\ Cardinality(P) <= Cardinality(Threads)
  BY FS_Subset, ChatAssumption
<1>2. Cardinality(P) \in Nat
  BY <1>1, FS_CardinalityType
<1>3. Cardinality(P) = 0 <=> P = {}
  BY <1>1, FS_EmptySet
<1> QED
  BY <1>1, <1>2, <1>3 DEF Dues

\* Whichever of the threads pays next, it does not overdraw the account by more
\* than all threads but one can take.
LEMMA EnoughBounds ==
  ASSUME NEW P \in SUBSET Threads, NEW due \in Dues(P), NEW b \in Int, Enough(b, due),
         NEW t \in P
  PROVE  b - due[t] >= -Room(1)
<1> DEFINE n == Cardinality(P)
<1>1. PICK s \in P : b >= due[s] - Room(n)
  BY DueCount DEF Enough
<1>2. /\ n \in Int /\ n >= 1 /\ Dearest \in Nat /\ due[s] \in Nat /\ due[t] \in Nat
      /\ due[t] <= Dearest
  BY DueCount, DearestCost DEF Dues
<1>3. s # t => n >= 2
  <2> SUFFICES ASSUME s # t PROVE n >= 2
    OBVIOUS
  <2>1. IsFiniteSet({s}) /\ Cardinality({s}) = 1
    BY FS_Singleton
  <2>2. Cardinality({s} \cup {t}) = 2
    <3>1. t \notin {s}
      OBVIOUS
    <3>2. Cardinality({s} \cup {t}) = Cardinality({s}) + 1
      BY <2>1, <3>1, FS_AddElement
    <3> QED
      BY <2>1, <3>2
  <2>3. IsFiniteSet(P) /\ {s} \cup {t} \subseteq P
    BY DueCount
  <2> QED
    BY <2>2, <2>3, FS_Subset
<1> HIDE DEF n
<1>4. Room(n) \in Int /\ Room(1) \in Int /\ Room(n) <= Room(1) /\ Room(n - 1) = Room(n) + Dearest
  BY <1>2, RoomStep
<1>5. CASE s = t
  BY <1>1, <1>2, <1>4, <1>5
<1>6. CASE s # t
  <2>1. n - 1 \in Int /\ n - 1 >= 1
    BY <1>2, <1>3, <1>6
  <2>2. Room(n - 1) <= Room(1)
    BY <2>1, RoomStep
  <2> QED
    BY <1>1, <1>2, <1>4, <2>2
<1> QED
  BY <1>5, <1>6

\* A thread that passes the check is covered itself.
LEMMA EnoughToPass ==
  ASSUME NEW P \in SUBSET Threads, NEW due \in Dues(P), NEW b \in Int,
         NEW t \in P, b >= due[t]
  PROVE  Enough(b, due)
<1> DEFINE n == Cardinality(P)
<1>1. n \in Int /\ n <= Cardinality(Threads) /\ due[t] \in Nat /\ DOMAIN due = P
  BY DueCount, DearestCost DEF Dues
<1>2. b >= due[t] - Room(n)
  <2> HIDE DEF n
  <2>1. Room(n) \in Int /\ Room(n) >= 0
    BY <1>1, RoomStep
  <2> QED
    BY <1>1, <2>1
<1> QED
  BY <1>1, <1>2 DEF Enough

\* A thread that pays, or turns back, leaves the others what they need.
LEMMA EnoughToPay ==
  ASSUME NEW P \in SUBSET Threads, NEW due \in Dues(P), NEW b \in Int, NEW c \in Int,
         NEW t \in P, NEW left \in Dues(P \ {t}), \A u \in P \ {t} : left[u] = due[u],
         Enough(b, due), c >= b - due[t]
  PROVE  Enough(c, left)
<1> DEFINE n == Cardinality(P)
<1>1. PICK s \in P : b >= due[s] - Room(n)
  BY DueCount DEF Enough
<1>2. /\ n \in Int /\ DOMAIN left = P \ {t} /\ Cardinality(P \ {t}) = n - 1
      /\ \A u \in P : due[u] \in Nat /\ due[u] <= Dearest
      /\ Dearest \in Nat
  BY DueCount, DearestCost, FS_RemoveElement DEF Dues
<1>3. Room(n) \in Int /\ Room(n - 1) \in Int /\ Room(n - 1) = Room(n) + Dearest
  <2> HIDE DEF n
  <2> QED
    BY <1>2, RoomStep
<1>4. CASE P = {t}
  <2>1. n = 1
    BY <1>4, FS_Singleton
  <2> HIDE DEF n
  <2>2. c >= -Room(1)
    BY <1>1, <1>2, <1>3, <1>4, <2>1
  <2> QED
    BY <1>2, <1>4, <2>2 DEF Enough
<1>5. CASE P # {t}
  <2>1. PICK u \in P \ {t} : s # t => u = s
    BY <1>5
  <2>2. c >= left[u] - Room(n - 1)
    <3> HIDE DEF n
    <3>1. CASE s # t
      BY <1>1, <1>2, <1>3, <2>1, <3>1
    <3>2. CASE s = t
      BY <1>1, <1>2, <1>3, <2>1, <3>2
    <3> QED
      BY <3>1, <3>2
  <2> QED
    BY <1>2, <2>1, <2>2 DEF Enough
<1> QED
  BY <1>4, <1>5

\* More on the account is still enough.
LEMMA EnoughMore ==
  ASSUME NEW P \in SUBSET Threads, NEW due \in Dues(P), NEW b \in Int, NEW c \in Int,
         Enough(b, due), c >= b
  PROVE  Enough(c, due)
<1> DEFINE n == Cardinality(P)
<1>1. n \in Int /\ DOMAIN due = P /\ \A u \in P : due[u] \in Nat
  BY DueCount, DearestCost DEF Dues
<1>2. Room(n) \in Int /\ Room(1) \in Int
  <2> HIDE DEF n
  <2> QED
    BY <1>1, RoomStep
<1> HIDE DEF n
<1>3. \A u \in P : b >= due[u] - Room(n) => c >= due[u] - Room(n)
  BY <1>1, <1>2
<1> QED
  BY <1>1, <1>2, <1>3 DEF Enough, n

\* What the passed threads are going to pay are costs of commands.
LEMMA DueType ==
  TypeOK => \A p \in Players : Passed(p) \in SUBSET Threads /\ Due(p) \in Dues(Passed(p))
<1> SUFFICES ASSUME TypeOK, NEW p \in Players
             PROVE  Passed(p) \in SUBSET Threads /\ Due(p) \in Dues(Passed(p))
  OBVIOUS
<1>1. ASSUME NEW t \in Passed(p) PROVE Costs[job[t].command] \in 0..Dearest
  BY BalanceTypes, DearestCost DEF Passed
<1> QED
  BY <1>1 DEF Passed, Due, Dues

\* No step takes more from an account than the threads that passed the check were
\* counted for.
LEMMA OverdraftInduction ==
  TypeOK /\ OverdraftOpen /\ [Next]_vars => OverdraftOpen'
<1> SUFFICES ASSUME TypeOK, OverdraftOpen, [Next]_vars, NEW p \in Players
             PROVE  Enough(Held(p), Due(p))'
  BY DEF OverdraftOpen
<1> DEFINE P == Passed(p)
<1>0. /\ balance \in [Players -> Int] /\ lost \in [Players -> Nat] /\ Reward \in Nat
      /\ Held(p) \in Int
      /\ P \in SUBSET Threads /\ Due(p) \in Dues(P) /\ Enough(Held(p), Due(p))
      /\ DOMAIN Due(p) = P /\ \A u \in P : Due(p)[u] = Costs[job[u].command]
  BY BalanceTypes, DueType DEF OverdraftOpen, Due
<1>1. P' \in SUBSET Threads /\ Due(p)' \in Dues(P') /\ Held(p)' \in Int
  <2>1. TypeOK'
    BY TypeInduction
  <2>2. ASSUME NEW t \in P' PROVE Costs[job'[t].command] \in 0..Dearest
    <3>1. job'[t].command \in Commands
      BY <2>1 DEF TypeOK, Jobs, Passed
    <3> QED
      BY <3>1, DearestCost, ChatAssumption
  <2>3. Held(p)' \in Int
    <3>1. balance' \in [Players -> Int] /\ lost' \in [Players -> Nat]
      BY <2>1 DEF TypeOK
    <3> QED
      BY <3>1 DEF Held
  <2> QED
    BY <2>2, <2>3 DEF Passed, Due, Dues
<1>2. CASE P' = P /\ (\A u \in P : job'[u] = job[u]) /\ Held(p)' >= Held(p)
  <2>1. Due(p)' = Due(p)
    BY <1>2 DEF Due
  <2> QED
    BY <1>0, <1>1, <1>2, <2>1, EnoughMore
<1>3. ASSUME NEW t \in Threads, NEW c \in Commands, NEW q \in Players, Chat(t, c, q)
      PROVE  Enough(Held(p), Due(p))'
  <2>1. P' = P /\ (\A u \in P : job'[u] = job[u]) /\ Held(p)' = Held(p)
    BY <1>3, ChatStarts DEF Passed, Held
  <2> QED
    BY <1>0, <1>2, <2>1
<1>4. ASSUME NEW t \in Threads, Step(t) PROVE Enough(Held(p), Due(p))'
  <2>1. /\ \A u \in Threads \ {t} : pc'[u] = pc[u] /\ job'[u] = job[u]
        /\ pc'[t] # "idle" => job'[t] = job[t]
        /\ pc[t] # "idle" /\ pc \in [Threads -> Phases] /\ job[t].player \in Players
        /\ Costs[job[t].command] \in Nat
    BY <1>4, StepOthers, StepType, BalanceTypes DEF TypeOK
  <2>2. ASSUME t \in P, t \notin P', Held(p)' >= Held(p) - Costs[job[t].command]
        PROVE  Enough(Held(p), Due(p))'
    <3>1. P' = P \ {t}
      BY <2>1, <2>2 DEF Passed
    <3>2. \A u \in P \ {t} : Due(p)'[u] = Due(p)[u]
      BY <1>0, <2>1, <3>1 DEF Due
    <3>3. Due(p)' \in Dues(P \ {t}) /\ Held(p)' >= Held(p) - Due(p)[t]
      BY <1>0, <1>1, <2>2, <3>1
    <3> HIDE DEF P
    <3> QED
      BY <1>0, <1>1, <2>2, <3>2, <3>3, EnoughToPay
  <2>3. CASE CheckBalance(t)
    <3>1. /\ pc[t] = "balance" /\ pc'[t] \in {"idle", "slot", "pay"}
          /\ job[t].player # p \/ pc'[t] = "idle" => Held(p)' = Held(p)
          /\ job[t].player = p /\ pc'[t] # "idle" => Held(p)' >= Costs[job[t].command]
      BY <2>3, HeldByCheck
    <3>2. CASE t \in P'
      <4>1. Held(p)' >= Due(p)'[t]
        BY <2>1, <3>1, <3>2 DEF Passed, Due
      <4> QED
        BY <1>1, <3>2, <4>1, EnoughToPass
    <3>3. CASE t \notin P'
      <4>1. P' = P /\ \A u \in P : job'[u] = job[u]
        BY <2>1, <3>1, <3>3 DEF Passed
      <4>2. job[t].player # p \/ pc'[t] = "idle"
        BY <2>1, <3>1, <3>3 DEF Passed
      <4> QED
        BY <1>0, <1>2, <3>1, <4>1, <4>2
    <3> QED
      BY <3>2, <3>3
  <2>4. CASE CheckSlot(t)
    <3>1. Held(p)' = Held(p) /\ pc[t] = "slot" /\ pc'[t] \in {"idle", "pay"}
      BY <2>1, <2>4 DEF CheckSlot, Goto, Done, Held, rest
    <3>2. CASE t \in P /\ t \notin P'
      BY <1>0, <2>1, <2>2, <3>1, <3>2
    <3>3. CASE ~(t \in P /\ t \notin P')
      <4>1. P' = P /\ \A u \in P : job'[u] = job[u]
        BY <2>1, <3>1, <3>3 DEF Passed
      <4> QED
        BY <1>0, <1>2, <3>1, <4>1
    <3> QED
      BY <3>2, <3>3
  <2>5. CASE Pay(t)
    <3>1. /\ pc[t] = "pay" /\ pc'[t] = "payLog" /\ UNCHANGED lost
          /\ balance' = [balance EXCEPT ![job[t].player] = @ - Costs[job[t].command]]
      BY <2>1, <2>5 DEF Pay, Goto, rest
    <3>2. CASE job[t].player = p
      <4>1. balance'[p] = balance[p] - Costs[job[t].command] /\ t \in P /\ t \notin P'
        BY <1>0, <2>1, <3>1, <3>2 DEF Passed
      <4>2. balance[p] \in Int /\ lost[p] \in Int /\ lost'[p] = lost[p]
        BY <1>0, <3>1
      <4>3. Held(p)' >= Held(p) - Costs[job[t].command]
        BY <2>1, <4>1, <4>2 DEF Held
      <4> QED
        BY <2>2, <4>1, <4>3
    <3>3. CASE job[t].player # p
      <4>1. Held(p)' = Held(p) /\ P' = P /\ \A u \in P : job'[u] = job[u]
        BY <1>0, <2>1, <3>1, <3>3 DEF Passed, Held
      <4> QED
        BY <1>0, <1>2, <4>1
    <3> QED
      BY <3>2, <3>3
  <2>6. CASE Win(t)
    <3>1. /\ pc[t] = "win" /\ pc'[t] = "winLog" /\ UNCHANGED lost
          /\ balance' = [balance EXCEPT ![job[t].player] = @ + Reward]
      BY <2>1, <2>6 DEF Win, Goto, rest
    <3>2. balance'[p] \in Int /\ balance'[p] >= balance[p]
      BY <1>0, <2>1, <3>1
    <3>3. P' = P /\ \A u \in P : job'[u] = job[u]
      BY <2>1, <3>1 DEF Passed
    <3>4. balance[p] \in Int /\ lost[p] \in Int /\ lost'[p] = lost[p]
      BY <1>0, <3>1
    <3>5. Held(p)' >= Held(p)
      BY <3>2, <3>4 DEF Held
    <3> QED
      BY <1>2, <3>3, <3>5
  <2>7. CASE CheckCooldown(t) \/ PayLog(t) \/ WinLog(t) \/ Grant(t) \/ Move(t)
    <3>1. pc[t] \notin {"slot", "pay"} /\ pc'[t] \notin {"slot", "pay"} /\ Held(p)' = Held(p)
      BY <2>1, <2>7 DEF CheckCooldown, PayLog, WinLog, Grant, Move, Goto, Done, Held, rest
    <3>2. P' = P /\ \A u \in P : job'[u] = job[u]
      BY <2>1, <3>1 DEF Passed
    <3> QED
      BY <1>0, <1>2, <3>1, <3>2
  <2> QED
    BY <1>4, <2>3, <2>4, <2>5, <2>6, <2>7 DEF Step
<1>5. CASE Crash
  <2>1. P' = {}
    BY <1>5 DEF Crash, Passed
  <2> QED
    BY <2>1 DEF Enough, Due
<1>6. ASSUME NEW q \in Players, OtherWriter(q) PROVE Enough(Held(p), Due(p))'
  <2>1. Held(p)' >= Held(p) /\ P' = P /\ \A u \in P : job'[u] = job[u]
    BY <1>6, HeldByOthers DEF Passed
  <2> QED
    BY <1>2, <2>1
<1>7. ASSUME UNCHANGED <<pc, job, balance, lost>> PROVE Enough(Held(p), Due(p))'
  BY <1>0, <1>7 DEF Due, Passed, Enough, Room, Held
<1> QED
  BY <1>3, <1>4, <1>5, <1>6, <1>7 DEF Next, GiveSlot, TakeSlot, Tick, vars, rest

\* The state of every account, and of the threads that charge it.
ChargeInv == TypeOK /\ Stage /\ Alone /\ Covered /\ OverdraftOpen

\* With no balance and no command under way all of it holds.
LEMMA ChargeInit == Init => ChargeInv
<1> SUFFICES ASSUME Init PROVE ChargeInv
  OBVIOUS
<1>1. TypeOK /\ Stage /\ Alone
  BY ChatAssumption DEF Init, TypeOK, Phases, Stage, Alone, Serves
<1>2. Covered /\ OverdraftOpen
  BY DEF Init, Covered, Serves, OverdraftOpen, Enough, Due, Passed
<1> QED
  BY <1>1, <1>2 DEF ChargeInv

\* Every step keeps the invariant of the charges.
LEMMA ChargeInduction == ChargeInv /\ [Next]_vars => ChargeInv'
  BY TypeInduction, StageInduction, AloneInduction, CoveredInduction, OverdraftInduction
  DEF ChargeInv

\* A payment of a player with one command at a time never overdraws the account,
\* and with commands at the same time, whatever threads handle them and wherever
\* the panel dies, all but one of the threads can overdraw it by at most the highest
\* cost each: but for what scoring, adjust and the poller took from the account
\* after its balance was checked.
THEOREM ChargesBounded == Spec => []BalanceBounded
<1>1. ChargeInv => BalanceBounded
  <2> SUFFICES ASSUME ChargeInv, NEW t \in Threads, pc[t] = "pay"
               PROVE  /\ job[t].player \notin disturbed => Left(t) >= 0
                      /\ Left(t) >= -Room(1)
    BY DEF ChargeInv, BalanceBounded, NeverOverdrawn, OverdrawBounded, Room, Dearest
  <2> DEFINE p == job[t].player
  <2>1. /\ p \in Players /\ Held(p) \in Int /\ Costs[job[t].command] \in Nat
        /\ Left(t) = Held(p) - Costs[job[t].command]
    BY BalanceTypes DEF ChargeInv, Left, Held
  <2>2. t \in Passed(p) /\ Due(p)[t] = Costs[job[t].command]
    BY DEF Passed, Due
  <2>3. p \notin disturbed => Held(p) >= Costs[job[t].command]
    BY <2>1 DEF ChargeInv, Covered, Serves
  <2>4. Held(p) - Due(p)[t] >= -Room(1)
    <3>1. /\ Passed(p) \in SUBSET Threads /\ Due(p) \in Dues(Passed(p))
          /\ Enough(Held(p), Due(p))
      BY <2>1, DueType DEF ChargeInv, OverdraftOpen
    <3> HIDE DEF p
    <3> QED
      BY <2>1, <2>2, <3>1, EnoughBounds
  <2> HIDE DEF p
  <2> QED
    BY <2>1, <2>2, <2>3, <2>4 DEF p
<1> QED
  BY <1>1, ChargeInit, ChargeInduction, PTL DEF Spec

--------------------------------------------------------------------------------
(* What is paid for is served, and a slot is paid for once.                 *)

\* Counting threads.
LEMMA ThreadCount ==
  ASSUME NEW S \in SUBSET Threads
  PROVE  /\ Cardinality(S) \in Nat
         /\ \A t : t \notin S => Cardinality(S \cup {t}) = Cardinality(S) + 1
         /\ \A t : t \in S => Cardinality(S \ {t}) = Cardinality(S) - 1
<1>1. IsFiniteSet(S)
  BY FS_Subset, ChatAssumption
<1> QED
  BY <1>1, FS_CardinalityType, FS_AddElement, FS_RemoveElement

\* The books on the slots and the moves of one player.
SlotsOf(p) == taken[p] + (IF p \in slots THEN 1 ELSE 0) + Cardinality(Granting(p))
Books(p) ==
    /\ SlotsOf(p) <= given[p] + paid[p]["redeem"]
    /\ moves[p] + 2 * Cardinality(Moving(p)) <= 2 * paid[p]["switch_team"]

\* Every payment puts its thread on the books, serving takes it off.
LEMMA AccountedInduction ==
  TypeOK /\ Stage /\ Accounted /\ [Next]_vars => Accounted'
<1> SUFFICES ASSUME TypeOK, Stage, Accounted, [Next]_vars, NEW p \in Players PROVE Books(p)'
  BY DEF Accounted, Books, SlotsOf
<1> DEFINE G == Granting(p)
           M == Moving(p)
<1>0. /\ taken[p] \in Nat /\ given[p] \in Nat /\ moves[p] \in Nat
      /\ paid[p]["redeem"] \in Nat /\ paid[p]["switch_team"] \in Nat
      /\ given \in [Players -> Nat] /\ taken \in [Players -> 0..MaxEdits]
      /\ moves \in [Players -> Nat] /\ paid \in [Players -> [AllCommands -> Nat]]
      /\ G \in SUBSET Threads /\ M \in SUBSET Threads
      /\ Books(p)
  <2>1. Books(p)
    BY DEF Accounted, Books, SlotsOf
  <2>2. G \in SUBSET Threads /\ M \in SUBSET Threads
    BY DEF Granting, Moving
  <2>3. /\ given \in [Players -> Nat] /\ taken \in [Players -> 0..MaxEdits]
        /\ moves \in [Players -> Nat] /\ paid \in [Players -> [AllCommands -> Nat]]
        /\ MaxEdits \in Nat
    BY ChatAssumption DEF TypeOK
  <2>4. taken[p] \in Nat /\ given[p] \in Nat /\ moves[p] \in Nat
    BY <2>3
  <2>5. paid[p]["redeem"] \in Nat /\ paid[p]["switch_team"] \in Nat
    BY <2>3 DEF AllCommands
  <2> QED
    BY <2>1, <2>2, <2>3, <2>4, <2>5
<1>1. Cardinality(G) \in Nat /\ Cardinality(M) \in Nat
  BY <1>0, ThreadCount
<1>2. ASSUME G' = G, M' = M, UNCHANGED <<taken, slots, given, moves>>,
             paid'[p]["redeem"] = paid[p]["redeem"],
             paid'[p]["switch_team"] = paid[p]["switch_team"]
      PROVE  Books(p)'
  BY <1>0, <1>2 DEF Books, SlotsOf
<1>3. ASSUME NEW t \in Threads, NEW c \in Commands, NEW q \in Players, Chat(t, c, q)
      PROVE  Books(p)'
  <2>1. G' = G /\ M' = M
    BY <1>3, ChatStarts DEF Granting, Moving
  <2> QED
    BY <1>2, <1>3, <2>1, ChatStarts
<1>4. ASSUME NEW t \in Threads, Step(t) PROVE Books(p)'
  <2>1. /\ \A u \in Threads \ {t} : pc'[u] = pc[u] /\ job'[u] = job[u]
        /\ pc'[t] # "idle" => job'[t] = job[t]
        /\ pc[t] # "idle" /\ pc \in [Threads -> Phases]
        /\ job[t].player \in Players /\ job[t].command \in AllCommands
        /\ UNCHANGED <<given, taken>>
    BY <1>4, StepOthers, StepType DEF TypeOK
  <2>2. CASE CheckCooldown(t) \/ CheckBalance(t) \/ CheckSlot(t) \/ WinLog(t)
    <3>1. /\ UNCHANGED <<slots, moves, paid>>
          /\ pc[t] \notin {"payLog", "grant", "move"} /\ pc'[t] \notin {"payLog", "grant", "move"}
      BY <2>1, <2>2 DEF CheckCooldown, CheckBalance, CheckSlot, WinLog, Goto, Done
    <3>2. G' = G /\ M' = M
      BY <2>1, <3>1 DEF Granting, Moving
    <3> QED
      BY <1>2, <2>1, <3>1, <3>2
  <2>3. CASE Win(t)
    <3>1. /\ pc[t] = "win" /\ pc'[t] = "winLog" /\ UNCHANGED <<slots, moves>>
          /\ \/ paid' = [paid EXCEPT ![job[t].player][job[t].command] = @ + 1]
             \/ UNCHANGED paid
      BY <2>1, <2>3 DEF Win, Goto
    <3>2. G' = G /\ M' = M
      BY <2>1, <3>1 DEF Granting, Moving
    <3>3. job[t].command \in {"sign_in", "lottery"}
      BY <3>1 DEF Stage
    <3>4. ASSUME NEW d \in AllCommands, d # job[t].command PROVE paid'[p][d] = paid[p][d]
      <4>1. CASE UNCHANGED paid
        BY <4>1
      <4>2. CASE paid' = [paid EXCEPT ![job[t].player][job[t].command] = @ + 1]
        BY <1>0, <2>1, <3>4, <4>2
      <4> QED
        BY <3>1, <4>1, <4>2
    <3>5. /\ paid'[p]["redeem"] = paid[p]["redeem"]
          /\ paid'[p]["switch_team"] = paid[p]["switch_team"]
      BY <3>3, <3>4 DEF AllCommands
    <3> QED
      BY <1>2, <2>1, <3>1, <3>2, <3>5
  <2>4. CASE Pay(t)
    <3> DEFINE c == job[t].command
    <3>1. /\ pc[t] = "pay" /\ pc'[t] = "payLog" /\ UNCHANGED <<slots, moves, job>>
          /\ paid' = [paid EXCEPT ![job[t].player][c] = @ + 1]
      BY <2>1, <2>4 DEF Pay, Goto
    <3>2. CASE job[t].player # p \/ c \notin {"redeem", "switch_team"}
      <4>1. G' = G /\ M' = M
        BY <2>1, <3>1, <3>2 DEF Granting, Moving
      <4>2. /\ paid'[p]["redeem"] = paid[p]["redeem"]
            /\ paid'[p]["switch_team"] = paid[p]["switch_team"]
        BY <1>0, <2>1, <3>1, <3>2
      <4> QED
        BY <1>2, <2>1, <3>1, <4>1, <4>2
    <3>3. CASE job[t].player = p /\ c = "redeem"
      <4>1. G' = G \cup {t} /\ t \notin G /\ M' = M
        BY <2>1, <3>1, <3>3 DEF Granting, Moving
      <4>2. /\ paid'[p]["redeem"] = paid[p]["redeem"] + 1
            /\ paid'[p]["switch_team"] = paid[p]["switch_team"]
        BY <1>0, <2>1, <3>1, <3>3 DEF AllCommands
      <4>3. Cardinality(G') = Cardinality(G) + 1
        BY <1>0, <4>1, ThreadCount
      <4> QED
        BY <1>0, <1>1, <2>1, <3>1, <4>1, <4>2, <4>3 DEF Books, SlotsOf
    <3>4. CASE job[t].player = p /\ c = "switch_team"
      <4>1. M' = M \cup {t} /\ t \notin M /\ G' = G
        BY <2>1, <3>1, <3>4 DEF Granting, Moving
      <4>2. /\ paid'[p]["redeem"] = paid[p]["redeem"]
            /\ paid'[p]["switch_team"] = paid[p]["switch_team"] + 1
        BY <1>0, <2>1, <3>1, <3>4 DEF AllCommands
      <4>3. Cardinality(M') = Cardinality(M) + 1
        BY <1>0, <4>1, ThreadCount
      <4> QED
        BY <1>0, <1>1, <2>1, <3>1, <4>1, <4>2, <4>3 DEF Books, SlotsOf
    <3> QED
      BY <3>2, <3>3, <3>4
  <2>5. CASE PayLog(t)
    <3>1. /\ pc[t] = "payLog" /\ UNCHANGED <<slots, moves, paid, job>>
          /\ job[t].command = "redeem" => pc'[t] = "grant"
          /\ job[t].command = "switch_team" => pc'[t] = "move"
      BY <2>1, <2>5 DEF PayLog, Goto
    <3>2. G' = G /\ M' = M
      BY <2>1, <3>1 DEF Granting, Moving
    <3> QED
      BY <1>2, <2>1, <3>1, <3>2
  <2>6. CASE Grant(t)
    <3>1. /\ pc[t] = "grant" /\ pc'[t] = "idle" /\ UNCHANGED <<moves, paid>>
          /\ slots' = slots \cup {job[t].player} /\ job[t].command = "redeem"
      BY <2>1, <2>6 DEF Grant, Done, Stage
    <3>2. CASE job[t].player # p
      <4>1. G' = G /\ M' = M /\ (p \in slots' <=> p \in slots)
        BY <2>1, <3>1, <3>2 DEF Granting, Moving
      <4> QED
        BY <1>0, <2>1, <3>1, <4>1 DEF Books, SlotsOf
    <3>3. CASE job[t].player = p
      <4>1. G' = G \ {t} /\ t \in G /\ M' = M
        BY <2>1, <3>1, <3>3 DEF Granting, Moving
      <4>2. Cardinality(G') = Cardinality(G) - 1
        BY <1>0, <4>1, ThreadCount
      <4> QED
        BY <1>0, <1>1, <2>1, <3>1, <4>1, <4>2 DEF Books, SlotsOf
    <3> QED
      BY <3>2, <3>3
  <2>7. CASE Move(t)
    <3>1. /\ pc[t] = "move" /\ pc'[t] = "idle" /\ UNCHANGED <<slots, paid>>
          /\ job[t].command = "switch_team"
          /\ \E n \in 0..2 : moves' = [moves EXCEPT ![job[t].player] = @ + n]
      BY <2>1, <2>7 DEF Move, Done, Stage
    <3>2. CASE job[t].player # p
      <4>1. G' = G /\ M' = M /\ moves'[p] = moves[p]
        BY <1>0, <2>1, <3>1, <3>2 DEF Granting, Moving
      <4> QED
        BY <1>0, <2>1, <3>1, <4>1 DEF Books, SlotsOf
    <3>3. CASE job[t].player = p
      <4>1. M' = M \ {t} /\ t \in M /\ G' = G
        BY <2>1, <3>1, <3>3 DEF Granting, Moving
      <4>2. Cardinality(M') = Cardinality(M) - 1
        BY <1>0, <4>1, ThreadCount
      <4>3. moves'[p] \in Nat /\ moves'[p] <= moves[p] + 2
        BY <1>0, <3>1, <3>3
      <4> QED
        BY <1>0, <1>1, <2>1, <3>1, <4>1, <4>2, <4>3 DEF Books, SlotsOf
    <3> QED
      BY <3>2, <3>3
  <2> QED
    BY <1>4, <2>2, <2>3, <2>4, <2>5, <2>6, <2>7 DEF Step
<1>5. ASSUME NEW q \in Players, GiveSlot(q) PROVE Books(p)'
  <2>1. /\ UNCHANGED <<taken, moves, paid>> /\ q \notin slots /\ slots' = slots \cup {q}
        /\ given' = [given EXCEPT ![q] = @ + 1] /\ G' = G /\ M' = M
    BY <1>5 DEF GiveSlot, Granting, Moving
  <2> QED
    BY <1>0, <1>1, <2>1 DEF Books, SlotsOf
<1>6. ASSUME NEW q \in Players, TakeSlot(q) PROVE Books(p)'
  <2>1. /\ UNCHANGED <<given, moves, paid>> /\ q \in slots /\ slots' = slots \ {q}
        /\ taken' = [taken EXCEPT ![q] = @ + 1] /\ G' = G /\ M' = M
    BY <1>6 DEF TakeSlot, Granting, Moving
  <2> QED
    BY <1>0, <1>1, <2>1 DEF Books, SlotsOf
<1>7. CASE Crash
  <2>1. G' = {} /\ M' = {} /\ UNCHANGED <<taken, given, slots, moves, paid>>
    BY <1>7 DEF Crash, Granting, Moving, panel
  <2>2. Cardinality(G') = 0 /\ Cardinality(M') = 0
    BY <2>1, FS_EmptySet
  <2> QED
    BY <1>0, <1>1, <2>1, <2>2 DEF Books, SlotsOf
<1>8. ASSUME UNCHANGED <<pc, job, taken, given, slots, moves, paid>> PROVE Books(p)'
  <2>1. G' = G /\ M' = M
    BY <1>8 DEF Granting, Moving
  <2> QED
    BY <1>2, <1>8, <2>1
<1> QED
  BY <1>3, <1>4, <1>5, <1>6, <1>7, <1>8 DEF Next, Tick, OtherWriter, vars, panel

\* Of the threads that serve a player who is not disturbed, the one that takes a
\* step is the only one.
LEMMA StepAlone ==
  ASSUME Alone, NEW t \in Threads, pc[t] # "idle", NEW p \in Players \ disturbed,
         job[t].player = p, NEW u \in Threads, Serves(u, p)
  PROVE  u = t
  BY DEF Alone, Serves

\* A slot is taken for granted only once: the check, the payment and the grant of
\* a player's one command follow each other.
LEMMA SlotOwedInduction ==
  TypeOK /\ Stage /\ Alone /\ SlotOwed /\ [Next]_vars => SlotOwed'
<1> SUFFICES ASSUME TypeOK, Stage, Alone, SlotOwed, [Next]_vars, NEW p \in Players \ disturbed'
             PROVE  Owed(p)'
  BY DEF SlotOwed
<1> DEFINE G == Granting(p)
<1>0. p \in Players \ disturbed
  <2>1. disturbed \subseteq disturbed'
    BY StepType DEF Next, Chat, GiveSlot, TakeSlot, OtherWriter, Tick, Crash, vars, rest
  <2> QED
    BY <2>1
<1>1. /\ paid[p]["redeem"] \in Nat /\ taken[p] \in Nat
      /\ taken \in [Players -> 0..MaxEdits] /\ paid \in [Players -> [AllCommands -> Nat]]
      /\ Owed(p)
  <2>1. taken \in [Players -> 0..MaxEdits] /\ paid \in [Players -> [AllCommands -> Nat]]
    BY DEF TypeOK
  <2> QED
    BY <1>0, <2>1, ChatAssumption DEF SlotOwed, AllCommands
<1>2. ASSUME G' = G, p \in slots' <=> p \in slots, taken'[p] = taken[p],
             paid'[p]["redeem"] = paid[p]["redeem"],
             \A u \in Threads : (Serves(u, p) /\ pc[u] = "pay" /\ job[u].command = "redeem")'
                => Serves(u, p) /\ pc[u] = "pay" /\ job[u].command = "redeem"
      PROVE  Owed(p)'
  BY <1>1, <1>2 DEF Owed
<1>3. ASSUME NEW t \in Threads, NEW c \in Commands, NEW q \in Players, Chat(t, c, q)
      PROVE  Owed(p)'
  <2>1. G' = G
    BY <1>3, ChatStarts DEF Granting
  <2>2. /\ pc'[t] # "pay" /\ UNCHANGED <<slots, taken, paid>>
        /\ \A u \in Threads \ {t} : pc'[u] = pc[u] /\ job'[u] = job[u]
    BY <1>3, ChatStarts
  <2> QED
    BY <1>2, <2>1, <2>2 DEF Serves
<1>4. ASSUME NEW t \in Threads, Step(t) PROVE Owed(p)'
  <2>1. /\ \A u \in Threads \ {t} : pc'[u] = pc[u] /\ job'[u] = job[u]
        /\ pc'[t] # "idle" => job'[t] = job[t]
        /\ pc[t] # "idle" /\ pc \in [Threads -> Phases]
        /\ job[t].player \in Players /\ job[t].command \in AllCommands
        /\ UNCHANGED <<given, taken>>
    BY <1>4, StepOthers, StepType DEF TypeOK
  <2>2. ASSUME job[t].player # p \/ job[t].command # "redeem" PROVE Owed(p)'
    <3>1. G' = G /\ \A u \in Threads :
                (Serves(u, p) /\ pc[u] = "pay" /\ job[u].command = "redeem")'
                => Serves(u, p) /\ pc[u] = "pay" /\ job[u].command = "redeem"
      BY <2>1, <2>2 DEF Granting, Serves
    <3>2. paid'[p]["redeem"] = paid[p]["redeem"]
      <4>1. CASE UNCHANGED paid
        BY <4>1
      <4>2. CASE paid' = [paid EXCEPT ![job[t].player][job[t].command] = @ + 1]
        BY <1>1, <2>1, <2>2, <4>2 DEF AllCommands
      <4> QED
        BY <1>4, <4>1, <4>2 DEF Step, CheckCooldown, CheckBalance, CheckSlot, Pay, PayLog,
                                Win, WinLog, Grant, Move
    <3>3. p \in slots' <=> p \in slots
      <4>1. CASE Grant(t)
        BY <2>1, <2>2, <4>1 DEF Grant, Stage
      <4>2. CASE UNCHANGED slots
        BY <4>2
      <4> QED
        BY <1>4, <4>1, <4>2 DEF Step, CheckCooldown, CheckBalance, CheckSlot, Pay, PayLog,
                                Win, WinLog, Move
    <3> QED
      BY <1>2, <2>1, <3>1, <3>2, <3>3
  <2>3. ASSUME job[t].player = p, job[t].command = "redeem" PROVE Owed(p)'
    <3>1. \A u \in Threads \ {t} : ~Serves(u, p) /\ ~Serves(u, p)'
      BY <1>0, <2>1, <2>3, StepAlone DEF Serves
    <3>2. /\ Serves(t, p)
          /\ G = IF pc[t] \in {"payLog", "grant"} THEN {t} ELSE {}
          /\ G' = IF pc'[t] \in {"payLog", "grant"} THEN {t} ELSE {}
      BY <2>1, <2>3, <3>1 DEF Granting, Serves
    <3>3. CASE CheckBalance(t)
      BY <1>1, <2>1, <2>3, <3>1, <3>2, <3>3 DEF CheckBalance, Goto, Done, Owed
    <3>4. CASE CheckSlot(t)
      BY <1>1, <2>1, <2>3, <3>1, <3>2, <3>4 DEF CheckSlot, Goto, Done, Owed
    <3>5. CASE Pay(t)
      <4>1. /\ pc[t] = "pay" /\ pc'[t] = "payLog" /\ paid[p]["redeem"] <= taken[p]
            /\ paid' = [paid EXCEPT ![p]["redeem"] = @ + 1]
        BY <1>1, <2>1, <2>3, <3>2, <3>5 DEF Pay, Goto, Owed
      <4>2. paid'[p]["redeem"] = paid[p]["redeem"] + 1
        BY <1>0, <1>1, <4>1 DEF AllCommands
      <4> QED
        BY <1>1, <2>1, <3>1, <3>2, <4>1, <4>2 DEF Owed
    <3>6. CASE PayLog(t)
      BY <1>1, <2>1, <2>3, <3>1, <3>2, <3>6 DEF PayLog, Goto, Owed
    <3>7. CASE Grant(t)
      BY <1>1, <2>1, <2>3, <3>1, <3>2, <3>7 DEF Grant, Done, Owed
    <3>8. CASE CheckCooldown(t) \/ Win(t) \/ WinLog(t) \/ Move(t)
      BY <2>3, <3>8 DEF CheckCooldown, Win, WinLog, Move, Stage
    <3> QED
      BY <1>4, <3>3, <3>4, <3>5, <3>6, <3>7, <3>8 DEF Step
  <2> QED
    BY <2>2, <2>3
<1>5. ASSUME NEW q \in Players, GiveSlot(q) PROVE Owed(p)'
  BY <1>1, <1>5 DEF GiveSlot, Owed, Granting, Serves
<1>6. ASSUME NEW q \in Players, TakeSlot(q) PROVE Owed(p)'
  <2>1. /\ UNCHANGED <<paid, pc, job>> /\ slots' = slots \ {q} /\ G' = G
        /\ taken' = [taken EXCEPT ![q] = @ + 1]
    BY <1>6 DEF TakeSlot, Granting
  <2>2. CASE q = p
    <3>1. taken'[p] = taken[p] + 1
      BY <1>1, <2>1, <2>2
    <3> QED
      BY <1>1, <2>1, <3>1 DEF Owed
  <2>3. CASE q # p
    BY <1>2, <2>1, <2>3 DEF Serves
  <2> QED
    BY <2>2, <2>3
<1>7. CASE Crash
  <2>1. /\ UNCHANGED <<taken, slots, paid>> /\ G' = {} /\ \A u \in Threads : pc'[u] = "idle"
        /\ disturbed' = disturbed \cup UnderWay
    BY <1>7 DEF Crash, Granting, panel
  <2>2. G = {}
    BY <2>1 DEF UnderWay, Granting
  <2> QED
    BY <1>1, <2>1, <2>2 DEF Owed
<1>8. ASSUME UNCHANGED <<pc, job, taken, slots, paid>> PROVE Owed(p)'
  BY <1>1, <1>8 DEF Owed, Granting, Serves
<1> QED
  BY <1>3, <1>4, <1>5, <1>6, <1>7, <1>8 DEF Next, Tick, OtherWriter, vars, panel

\* The books of every player and the slots of the undisturbed ones.
PaidInv == ChargeInv /\ Accounted /\ SlotOwed

\* Whatever is handled at the same time and wherever the panel dies, no slot is
\* served that was not paid for or given in the panel, and a payment moves the
\* player to the other team twice at the most, which the retry of RconPool can do; a
\* player with one command at a time pays for a slot once, until it is taken back.
THEOREM ServedIsPaidFor == Spec => []PaidOnce
<1>1. Init => PaidInv
  <2> SUFFICES ASSUME Init PROVE Accounted /\ SlotOwed
    BY ChargeInit DEF PaidInv
  <2>1. \A p \in Players : /\ Granting(p) = {} /\ Moving(p) = {} /\ p \notin slots
                            /\ taken[p] = 0 /\ given[p] = 0 /\ moves[p] = 0
                            /\ paid[p]["redeem"] = 0 /\ paid[p]["switch_team"] = 0
    BY DEF Init, Granting, Moving, AllCommands
  <2>2. Accounted
    <3>1. \A p \in Players : Cardinality(Granting(p)) = 0 /\ Cardinality(Moving(p)) = 0
      BY <2>1, FS_EmptySet
    <3> QED
      BY <2>1, <3>1 DEF Accounted
  <2>3. SlotOwed
    BY <2>1 DEF SlotOwed, Owed
  <2> QED
    BY <2>2, <2>3
<1>2. PaidInv /\ [Next]_vars => PaidInv'
  BY ChargeInduction, AccountedInduction, SlotOwedInduction DEF PaidInv, ChargeInv
<1>3. PaidInv => PaidOnce
  <2> SUFFICES ASSUME PaidInv, NEW p \in Players
               PROVE  /\ taken[p] + (IF p \in slots THEN 1 ELSE 0) <= given[p] + paid[p]["redeem"]
                      /\ moves[p] <= 2 * paid[p]["switch_team"]
    BY DEF PaidInv, PaidOnce, SlotPaidOnce, ServedIsPaid, SlotOwed, Owed
  <2>1. /\ taken[p] \in Nat /\ given[p] \in Nat /\ moves[p] \in Nat
        /\ paid[p]["redeem"] \in Nat /\ paid[p]["switch_team"] \in Nat
    <3>1. /\ given \in [Players -> Nat] /\ taken \in [Players -> 0..MaxEdits]
          /\ moves \in [Players -> Nat] /\ paid \in [Players -> [AllCommands -> Nat]]
      BY DEF PaidInv, ChargeInv, TypeOK
    <3>2. taken[p] \in Nat /\ given[p] \in Nat /\ moves[p] \in Nat
      BY <3>1, ChatAssumption
    <3> QED
      BY <3>1, <3>2 DEF AllCommands
  <2>2. Cardinality(Granting(p)) \in Nat /\ Cardinality(Moving(p)) \in Nat
    BY ThreadCount DEF Granting, Moving
  <2> QED
    BY <2>1, <2>2 DEF PaidInv, Accounted
<1> QED
  BY <1>1, <1>2, <1>3, PTL DEF Spec

--------------------------------------------------------------------------------
(* A free command rewards once per cooldown.                                *)

\* Whole cooldowns since the start.
LEMMA Cooldowns ==
  /\ \A a \in Nat : a \div Cooldown \in Nat
  /\ \A a, b \in Nat : a <= b => a \div Cooldown <= b \div Cooldown
  /\ \A a, b \in Nat : b - a >= Cooldown => (a \div Cooldown) + 1 <= b \div Cooldown
<1>1. ASSUME NEW a \in Nat PROVE a \div Cooldown \in Nat
  BY ChatAssumption
<1>2. ASSUME NEW a \in Nat, NEW b \in Nat, a <= b PROVE a \div Cooldown <= b \div Cooldown
  BY <1>2, ChatAssumption
<1>3. ASSUME NEW a \in Nat, NEW b \in Nat, b - a >= Cooldown
      PROVE  (a \div Cooldown) + 1 <= b \div Cooldown
  BY <1>3, ChatAssumption
<1> QED
  BY <1>1, <1>2, <1>3

\* The k-th reward comes in the k-th cooldown at the earliest: the entry of the one
\* before it is in the log when the cooldown is checked, because the player has no
\* other command under way.
LEMMA SpacedInduction ==
  TypeOK /\ Stage /\ Alone /\ RewardsSpaced /\ [Next]_vars => RewardsSpaced'
<1> SUFFICES ASSUME TypeOK, Stage, Alone, RewardsSpaced, [Next]_vars,
                    NEW p \in Players \ disturbed', NEW c \in {"sign_in", "lottery"}, Costs[c] = 0
             PROVE  Spaced(p, c)'
  BY DEF RewardsSpaced
<1> DEFINE k == paid[p][c]
<1>0. p \in Players \ disturbed
  <2>1. disturbed \subseteq disturbed'
    BY StepType DEF Next, Chat, GiveSlot, TakeSlot, OtherWriter, Tick, Crash, vars, rest
  <2> QED
    BY <2>1
<1>1. /\ now \in Nat /\ now \div Cooldown \in Nat
      /\ log \in [Players -> [AllCommands -> Seq(0..MaxTime)]]
      /\ paid \in [Players -> [AllCommands -> Nat]]
      /\ c \in AllCommands /\ k \in Nat /\ log[p][c] \in Seq(0..MaxTime)
      /\ Spaced(p, c)
  <2>1. /\ now \in Nat /\ log \in [Players -> [AllCommands -> Seq(0..MaxTime)]]
        /\ paid \in [Players -> [AllCommands -> Nat]] /\ c \in AllCommands
    BY ChatAssumption DEF TypeOK, AllCommands
  <2>2. k \in Nat /\ log[p][c] \in Seq(0..MaxTime)
    BY <1>0, <2>1
  <2>3. Spaced(p, c)
    BY <1>0 DEF RewardsSpaced
  <2> QED
    BY <2>1, <2>2, <2>3, Cooldowns
<1>2. ASSUME k' = k, log'[p][c] = log[p][c], now' = now,
             \A u \in Threads : Serves(u, p) /\ pc[u] = "winLog" /\ job[u].command = c
                => (Serves(u, p) /\ pc[u] = "winLog" /\ job[u].command = c)',
             \A u \in Threads : (Serves(u, p) /\ pc[u] = "win" /\ job[u].command = c)'
                => Serves(u, p) /\ pc[u] = "win" /\ job[u].command = c
      PROVE  Spaced(p, c)'
  BY <1>1, <1>2 DEF Spaced, RewardLogged
<1>3. ASSUME NEW t \in Threads, NEW d \in Commands, NEW q \in Players, Chat(t, d, q)
      PROVE  Spaced(p, c)'
  <2>1. /\ pc[t] = "idle" /\ pc'[t] # "win" /\ UNCHANGED <<now, log, paid>>
        /\ \A u \in Threads \ {t} : pc'[u] = pc[u] /\ job'[u] = job[u]
    BY <1>3, ChatStarts
  <2> QED
    BY <1>2, <2>1 DEF Serves
<1>4. ASSUME NEW t \in Threads, Step(t) PROVE Spaced(p, c)'
  <2>1. /\ \A u \in Threads \ {t} : pc'[u] = pc[u] /\ job'[u] = job[u]
        /\ pc'[t] # "idle" => job'[t] = job[t]
        /\ pc[t] # "idle" /\ pc \in [Threads -> Phases]
        /\ job[t].player \in Players /\ job[t].command \in AllCommands
        /\ UNCHANGED now
    BY <1>4, StepOthers, StepType DEF TypeOK
  <2>2. ASSUME job[t].player # p \/ job[t].command # c PROVE Spaced(p, c)'
    <3>1. paid'[p][c] = paid[p][c]
      <4>1. CASE UNCHANGED paid
        BY <4>1
      <4>2. CASE paid' = [paid EXCEPT ![job[t].player][job[t].command] = @ + 1]
        BY <1>0, <1>1, <2>1, <2>2, <4>2
      <4> QED
        BY <1>4, <4>1, <4>2 DEF Step, CheckCooldown, CheckBalance, CheckSlot, Pay, PayLog,
                                Win, WinLog, Grant, Move
    <3>2. log'[p][c] = log[p][c]
      <4>1. CASE UNCHANGED log
        BY <4>1
      <4>2. CASE log' = [log EXCEPT ![job[t].player][job[t].command] = Append(@, now)]
        BY <1>0, <1>1, <2>1, <2>2, <4>2
      <4> QED
        BY <1>4, <4>1, <4>2 DEF Step, CheckCooldown, CheckBalance, CheckSlot, Pay, PayLog,
                                Win, WinLog, Grant, Move
    <3> QED
      BY <1>2, <2>1, <2>2, <3>1, <3>2 DEF Serves
  <2>3. ASSUME job[t].player = p, job[t].command = c PROVE Spaced(p, c)'
    <3>1. \A u \in Threads \ {t} : ~Serves(u, p) /\ ~Serves(u, p)'
      BY <1>0, <2>1, <2>3, StepAlone DEF Serves
    <3>2. Serves(t, p) /\ pc[t] \in {"cooldown", "win", "winLog"}
      BY <2>1, <2>3, ChatAssumption DEF Serves, Stage, Phases
    <3>3. pc[t] # "winLog" => RewardLogged(p, c)
      BY <1>1, <3>1 DEF Spaced
    <3>4. CASE CheckCooldown(t)
      <4>1. UNCHANGED <<paid, log>> /\ pc[t] = "cooldown" /\ pc'[t] \in {"idle", "win"}
        BY <2>1, <2>3, <3>4 DEF CheckCooldown, Goto, Done
      <4>2. pc'[t] = "win" => ~CoolingDown(log[p][c])
        BY <2>1, <2>3, <3>4 DEF CheckCooldown, Goto, Done
      <4>3. pc'[t] = "win" => k <= now \div Cooldown
        <5> SUFFICES ASSUME pc'[t] = "win", k # 0 PROVE k <= now \div Cooldown
          BY <1>1
        <5> DEFINE a == Last(log[p][c])
        <5>1. log[p][c] # <<>> /\ k <= 1 + (a \div Cooldown)
          BY <3>3, <4>1 DEF RewardLogged
        <5>2. a \in Nat
          <6>1. log[p][c] \in Seq(0..MaxTime)
            BY <1>1
          <6>2. a \in 0..MaxTime
            BY <5>1, <6>1, LastIsElement
          <6> QED
            BY <6>2
        <5>3. now - a >= Cooldown
          <6>1. ~(now - a < Cooldown)
            BY <4>2, <5>1 DEF CoolingDown
          <6>2. now \in Nat /\ Cooldown \in Nat
            BY <1>1, ChatAssumption
          <6> HIDE DEF a
          <6> QED
            BY <5>2, <6>1, <6>2
        <5> HIDE DEF a
        <5>4. (a \div Cooldown) + 1 <= now \div Cooldown /\ a \div Cooldown \in Nat
          BY <1>1, <5>2, <5>3, Cooldowns
        <5> QED
          BY <1>1, <5>1, <5>4
      <4>4. RewardLogged(p, c)'
        BY <3>3, <4>1 DEF RewardLogged
      <4> QED
        BY <1>1, <2>1, <3>1, <4>1, <4>3, <4>4 DEF Spaced
    <3>5. CASE Win(t)
      <4>1. /\ pc[t] = "win" /\ pc'[t] = "winLog" /\ k <= now \div Cooldown
            /\ paid' = [paid EXCEPT ![p][c] = @ + 1]
        BY <1>1, <2>1, <2>3, <3>2, <3>5 DEF Win, Goto, Spaced
      <4>2. k' = k + 1
        BY <1>0, <1>1, <4>1
      <4> QED
        BY <1>1, <2>1, <2>3, <3>1, <3>2, <4>1, <4>2 DEF Spaced, Serves
    <3>6. CASE WinLog(t)
      <4>1. /\ UNCHANGED paid /\ pc'[t] = "idle"
            /\ log' = [log EXCEPT ![p][c] = Append(@, now)]
        BY <2>1, <2>3, <3>6 DEF WinLog, Done
      <4>2. log'[p][c] = Append(log[p][c], now)
        BY <1>0, <1>1, <4>1
      <4>3. log'[p][c] # <<>> /\ Last(log'[p][c]) = now
        <5>1. now \in 0..MaxTime
          BY DEF TypeOK
        <5> QED
          BY <1>1, <4>2, <5>1 DEF Last
      <4>4. RewardLogged(p, c)'
        BY <1>1, <4>1, <4>3 DEF RewardLogged, Spaced
      <4> QED
        BY <1>1, <2>1, <3>1, <4>1, <4>4 DEF Spaced, Serves
    <3>7. CASE CheckBalance(t) \/ CheckSlot(t) \/ Pay(t) \/ PayLog(t) \/ Grant(t) \/ Move(t)
      BY <3>2, <3>7 DEF CheckBalance, CheckSlot, Pay, PayLog, Grant, Move
    <3> QED
      BY <1>4, <3>4, <3>5, <3>6, <3>7 DEF Step
  <2> QED
    BY <2>2, <2>3
<1>5. CASE Tick
  <2>1. now' = now + 1 /\ UNCHANGED <<log, paid, pc, job>>
    BY <1>5 DEF Tick
  <2>2. now' \div Cooldown \in Nat /\ now \div Cooldown <= now' \div Cooldown
    <3>1. now \in Nat /\ now' \in Nat /\ now <= now'
      BY <1>1, <2>1
    <3> QED
      BY <3>1, Cooldowns
  <2> QED
    BY <1>1, <2>1, <2>2 DEF Spaced, RewardLogged, Serves
<1>6. CASE Crash
  <2>1. /\ UNCHANGED <<now, log, paid>> /\ \A u \in Threads : pc'[u] = "idle"
        /\ disturbed' = disturbed \cup UnderWay
    BY <1>6 DEF Crash
  <2>2. \A u \in Threads : ~Serves(u, p)
    BY <2>1 DEF UnderWay, Serves
  <2> QED
    BY <1>1, <2>1, <2>2 DEF Spaced, RewardLogged, Serves
<1>7. ASSUME UNCHANGED <<now, log, paid, pc, job>> PROVE Spaced(p, c)'
  BY <1>2, <1>7 DEF Serves
<1> QED
  BY <1>3, <1>4, <1>5, <1>6, <1>7 DEF Next, GiveSlot, TakeSlot, OtherWriter, vars

\* A player with one command at a time wins a free command's reward at most once
\* in every cooldown, for every cooldown and however the clock runs on between the
\* check and the entry that the next check reads.
THEOREM RewardsOncePerCooldown == Spec => []OncePerCooldown
<1> DEFINE RewardInv == TypeOK /\ Stage /\ Alone /\ RewardsSpaced
<1>1. Init => RewardInv
  <2> SUFFICES ASSUME Init PROVE RewardsSpaced
    BY ChargeInit DEF ChargeInv
  <2>1. /\ now = 0 /\ 0 \div Cooldown \in Nat
        /\ \A t \in Threads : pc[t] = "idle"
        /\ \A p \in Players : paid[p]["sign_in"] = 0 /\ paid[p]["lottery"] = 0
    BY Cooldowns DEF Init, AllCommands
  <2> QED
    BY <2>1 DEF RewardsSpaced, Spaced, RewardLogged
<1>2. RewardInv /\ [Next]_vars => RewardInv'
  BY TypeInduction, StageInduction, AloneInduction, SpacedInduction
<1>3. RewardInv => OncePerCooldown
  BY DEF RewardsSpaced, Spaced, OncePerCooldown
<1> QED
  BY <1>1, <1>2, <1>3, PTL DEF Spec
================================================================================

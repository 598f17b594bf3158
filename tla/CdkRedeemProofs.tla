---------------------------- MODULE CdkRedeemProofs ----------------------------
(***************************************************************************)
(* Theorems about CdkRedeem: how often a code can be redeemed, for any       *)
(* number of threads, codes, players, uses and crashes.                      *)
(***************************************************************************)
EXTENDS CdkRedeem, FiniteSetTheorems, TLAPS

N == Cardinality(Threads)

--------------------------------------------------------------------------------
(* The strengthenings.                                                      *)

\* Thread t is redeeming code c.
Redeems(t, c) == pc[t] # "idle" /\ job[t][1] = c

\* Only a code with a row gets past the SELECT.
PastIsGenerated ==
    \A t \in Threads : pc[t] \notin {"idle", "find"} => status[job[t][1]] # "none"

\* A code that is not disturbed is redeemed by one thread at a time.
Alone ==
    \A c \in Codes \ disturbed, t, u \in Threads :
        Redeems(t, c) /\ Redeems(u, c) => t = u

\* The threads that are going to grant a reward for c, that have granted one and
\* not counted it, and that have counted it and not logged it.
WillGrant(c) ==
    {t \in Threads : /\ \/ pc[t] \in {"used", "grant"}
                        \/ pc[t] = "check" /\ seen[t] < MaxUses[c]
                     /\ job[t][1] = c}
Counting(c) == {t \in Threads : pc[t] = "count" /\ job[t][1] = c}
Logging(c) == {t \in Threads : pc[t] = "log" /\ job[t][1] = c}

\* One thread at a time: the copy of the row is the row, so that the limit is
\* checked against what has been granted.
Exact(c) ==
    /\ granted[c] <= MaxUses[c]
    /\ WillGrant(c) # {} => granted[c] < MaxUses[c]
    /\ status[c] # "deleted" =>
        /\ granted[c] <= used[c] + (IF Counting(c) = {} THEN 0 ELSE 1)
        /\ \A t \in Threads : Redeems(t, c) /\ pc[t] = "check" => seen[t] = used[c]

UsesExact == \A c \in Codes \ disturbed : Exact(c)

\* Many threads at a time: while the count is short of the limit each of the N
\* threads can be past the check once; what crashes keep from being counted is
\* what the threads of their moment had granted.
Stretched(c) ==
    /\ granted[c] + Cardinality(WillGrant(c)) <= MaxUses[c] - 1 + N + N * crashes
    /\ status[c] # "deleted" =>
        /\ used[c] + Cardinality(WillGrant(c)) + Cardinality(Counting(c)) <= MaxUses[c] - 1 + N
        /\ granted[c] <= used[c] + Cardinality(Counting(c)) + N * crashes

UsesStretched == \A c \in Codes : Stretched(c)

\* The log entries of a code that has not been deleted, and those to come.
Entries(c) == {j \in uses : j[1] = c}

Logged(c) ==
    /\ IsFiniteSet(Entries(c))
    /\ status[c] # "deleted" => Cardinality(Entries(c)) + Cardinality(Logging(c)) <= used[c]

UsesLogged == \A c \in Codes : Logged(c)

\* A player who has no log entry for a code, and none on the way, has had nothing
\* for it.
FirstUse ==
    \A j \in Jobs : j[1] \notin disturbed =>
        /\ grants[j] <= 1
        /\ \/ j \in uses
           \/ \E t \in Threads : pc[t] \in {"count", "log"} /\ job[t] = j
           \/ grants[j] = 0
        /\ \A t \in Threads : pc[t] = "grant" /\ job[t] = j => grants[j] = 0

--------------------------------------------------------------------------------
(* What the steps do.                                                       *)

\* A chat line puts one idle thread on one code.
LEMMA ChatStarts ==
  ASSUME TypeOK, NEW t \in Threads, NEW j \in Jobs, Chat(t, j)
  PROVE  /\ pc[t] = "idle" /\ pc'[t] = "find" /\ job'[t] = j
         /\ \A u \in Threads \ {t} : pc'[u] = pc[u] /\ job'[u] = job[u]
         /\ UNCHANGED <<status, used, expired, uses, slots, grants, granted, seen, crashes>>
         /\ pc' \in [Threads -> Phases] /\ job' \in [Threads -> Jobs \cup {NoJob}]
         /\ \A u \in Threads : pc'[u] # "idle" => job'[u] \in Jobs
<1>1. /\ pc[t] = "idle" /\ UNCHANGED <<seen, crashes>>
      /\ pc' = [pc EXCEPT ![t] = "find"] /\ job' = [job EXCEPT ![t] = j]
  BY DEF Chat, Goto
<1>2. UNCHANGED <<status, used, expired, uses, slots, grants, granted>>
  BY DEF Chat, tables
<1>3. /\ pc \in [Threads -> Phases] /\ job \in [Threads -> Jobs \cup {NoJob}]
      /\ \A u \in Threads : pc[u] # "idle" => job[u] \in Jobs
  BY DEF TypeOK
<1> QED
  BY <1>1, <1>2, <1>3 DEF Phases

\* A step of the handler concerns one thread and the code it redeems.
LEMMA StepOthers ==
  ASSUME TypeOK, NEW t \in Threads, Step(t)
  PROVE  /\ pc[t] # "idle" /\ job[t] \in Jobs
         /\ job[t][1] \in Codes /\ job[t][2] \in Players
         /\ \A u \in Threads \ {t} : pc'[u] = pc[u] /\ job'[u] = job[u] /\ seen'[u] = seen[u]
         /\ pc'[t] # "idle" => job'[t] = job[t]
         /\ UNCHANGED <<status, expired, disturbed, chats, crashes>>
         /\ pc' \in [Threads -> Phases] /\ job' \in [Threads -> Jobs \cup {NoJob}]
         /\ \A u \in Threads : pc'[u] # "idle" => job'[u] \in Jobs
         /\ seen' \in [Threads -> Nat]
<1>1. pc[t] # "idle" /\ pc \in [Threads -> Phases]
  BY DEF Step, Find, Check, AlreadyUsed, Grant, Count, LogUse, TypeOK
<1>2. /\ job[t] \in Jobs /\ job \in [Threads -> Jobs \cup {NoJob}]
      /\ \A u \in Threads : pc[u] # "idle" => job[u] \in Jobs
  BY <1>1 DEF TypeOK
<1>3. UNCHANGED <<status, expired, disturbed, chats, crashes>>
  BY DEF Step, Find, Check, AlreadyUsed, Grant, Count, LogUse, tables
<1>4. seen \in [Threads -> Nat] /\ used \in [Codes -> Nat] /\ job[t][1] \in Codes
      /\ job[t][2] \in Players
  BY <1>2 DEF TypeOK, Jobs
<1>5. PICK next \in Phases :
        /\ pc' = [pc EXCEPT ![t] = next]
        /\ job' = IF next = "idle" THEN [job EXCEPT ![t] = NoJob] ELSE job
  BY DEF Step, Find, Check, AlreadyUsed, Grant, Count, LogUse, Goto, Done, Phases
<1>6. \E n \in {0, seen[t], used[job[t][1]]} : seen' = [seen EXCEPT ![t] = n]
  BY <1>4 DEF Step, Find, Check, AlreadyUsed, Grant, Count, LogUse, Done
<1>7. seen' \in [Threads -> Nat] /\ \A u \in Threads \ {t} : seen'[u] = seen[u]
  BY <1>4, <1>6
<1>8. /\ pc' \in [Threads -> Phases] /\ job' \in [Threads -> Jobs \cup {NoJob}]
      /\ \A u \in Threads : pc'[u] # "idle" => job'[u] \in Jobs
      /\ \A u \in Threads \ {t} : pc'[u] = pc[u] /\ job'[u] = job[u]
      /\ pc'[t] # "idle" => job'[t] = job[t]
  BY <1>1, <1>2, <1>5
<1> QED
  BY <1>1, <1>2, <1>3, <1>4, <1>7, <1>8

\* What each statement reads, decides and writes.
LEMMA StepEffects ==
  ASSUME TypeOK, NEW t \in Threads, NEW c, c = job[t][1]
  PROVE  /\ Find(t) => /\ pc[t] = "find" /\ UNCHANGED <<used, uses, slots, grants, granted>>
                       /\ \/ pc'[t] = "idle"
                          \/ pc'[t] = "check" /\ seen'[t] = used[c] /\ status[c] = "live"
         /\ Check(t) => /\ pc[t] = "check" /\ UNCHANGED <<used, uses, slots, grants, granted>>
                        /\ \/ pc'[t] = "idle"
                           \/ pc'[t] = "used" /\ ~(seen[t] >= MaxUses[c])
         /\ AlreadyUsed(t) =>
                /\ pc[t] = "used" /\ UNCHANGED <<used, uses, slots, grants, granted>>
                /\ \/ pc'[t] = "idle"
                   \/ pc'[t] = "grant" /\ job[t] \notin uses
         /\ Grant(t) => /\ pc[t] = "grant" /\ pc'[t] = "count" /\ UNCHANGED <<used, uses>>
                        /\ \/ UNCHANGED <<grants, granted>>
                           \/ /\ grants' = [grants EXCEPT ![job[t]] = @ + 1]
                              /\ granted' = [granted EXCEPT ![c] = @ + 1]
         /\ Count(t) => /\ pc[t] = "count" /\ pc'[t] = "log"
                        /\ UNCHANGED <<uses, slots, grants, granted>>
                        /\ used' = IF status[c] = "live" THEN [used EXCEPT ![c] = @ + 1]
                                   ELSE used
         /\ LogUse(t) => /\ pc[t] = "log" /\ pc'[t] = "idle"
                         /\ UNCHANGED <<used, slots, grants, granted>>
                         /\ uses' = uses \cup {job[t]}
<1>0. pc \in [Threads -> Phases] /\ seen \in [Threads -> Nat]
  BY DEF TypeOK
<1>1. ASSUME Find(t)
      PROVE  /\ pc[t] = "find" /\ UNCHANGED <<used, uses, slots, grants, granted>>
             /\ \/ pc'[t] = "idle"
                \/ pc'[t] = "check" /\ seen'[t] = used[c] /\ status[c] = "live"
  BY <1>0, <1>1 DEF Find, Found, Live, Goto, Done, tables
<1>2. ASSUME Check(t)
      PROVE  /\ pc[t] = "check" /\ UNCHANGED <<used, uses, slots, grants, granted>>
             /\ \/ pc'[t] = "idle"
                \/ pc'[t] = "used" /\ ~(seen[t] >= MaxUses[c])
  BY <1>0, <1>2 DEF Check, Goto, Done, tables
<1>3. ASSUME AlreadyUsed(t)
      PROVE  /\ pc[t] = "used" /\ UNCHANGED <<used, uses, slots, grants, granted>>
             /\ \/ pc'[t] = "idle"
                \/ pc'[t] = "grant" /\ job[t] \notin uses
  <2>1. pc[t] = "used" /\ UNCHANGED <<used, uses, slots, grants, granted>>
    BY <1>3 DEF AlreadyUsed, tables
  <2>2. CASE job[t] \in uses
    <3>1. Done(t)
      BY <1>3, <2>2 DEF AlreadyUsed
    <3>2. pc' = [pc EXCEPT ![t] = "idle"]
      BY <3>1 DEF Done, Goto
    <3> QED
      BY <1>0, <2>1, <3>2
  <2>3. CASE job[t] \notin uses
    BY <1>0, <1>3, <2>1, <2>3 DEF AlreadyUsed, Goto
  <2> QED
    BY <2>2, <2>3
<1>4. ASSUME Grant(t)
      PROVE  /\ pc[t] = "grant" /\ pc'[t] = "count" /\ UNCHANGED <<used, uses>>
             /\ \/ UNCHANGED <<grants, granted>>
                \/ /\ grants' = [grants EXCEPT ![job[t]] = @ + 1]
                   /\ granted' = [granted EXCEPT ![c] = @ + 1]
  BY <1>0, <1>4 DEF Grant, Goto
<1>5. ASSUME Count(t)
      PROVE  /\ pc[t] = "count" /\ pc'[t] = "log" /\ UNCHANGED <<uses, slots, grants, granted>>
             /\ used' = IF status[c] = "live" THEN [used EXCEPT ![c] = @ + 1] ELSE used
  <2>1. job[t][1] \in Codes
    <3>1. pc[t] # "idle"
      BY <1>5 DEF Count
    <3> QED
      BY <3>1 DEF TypeOK, Jobs
  <2> QED
    BY <1>0, <1>5, <2>1 DEF Count, Goto, Live
<1>6. ASSUME LogUse(t)
      PROVE  /\ pc[t] = "log" /\ pc'[t] = "idle" /\ UNCHANGED <<used, slots, grants, granted>>
             /\ uses' = uses \cup {job[t]}
  BY <1>0, <1>6 DEF LogUse, Goto, Done
<1> QED
  BY <1>1, <1>2, <1>3, <1>4, <1>5, <1>6

\* Every step keeps the types of the tables, the copies and the bounds.
LEMMA TypeInduction == TypeOK /\ [Next]_vars => TypeOK'
<1> SUFFICES ASSUME TypeOK, [Next]_vars PROVE TypeOK'
  OBVIOUS
<1>0. /\ status \in [Codes -> {"none", "live", "deleted"}]
      /\ used \in [Codes -> Nat] /\ uses \subseteq Jobs
      /\ grants \in [Jobs -> Nat] /\ granted \in [Codes -> Nat]
  BY DEF TypeOK
<1>1. ASSUME NEW c \in Codes, Generate(c) \/ Delete(c) PROVE TypeOK'
  <2>1. status' \in [Codes -> {"none", "live", "deleted"}]
    BY <1>0, <1>1 DEF Generate, Delete
  <2> QED
    BY <1>1, <2>1 DEF Generate, Delete, TypeOK
<1>2. ASSUME NEW c \in Codes, Expire(c) PROVE TypeOK'
  BY <1>2 DEF Expire, TypeOK
<1>3. ASSUME NEW t \in Threads, NEW j \in Jobs, Chat(t, j) PROVE TypeOK'
  <2>1. disturbed' \subseteq Codes /\ chats' \in 0..MaxChats
    BY <1>3, CdkAssumption DEF Chat, TypeOK, Jobs
  <2> QED
    BY <1>3, <2>1, ChatStarts DEF TypeOK
<1>4. ASSUME NEW t \in Threads, Step(t) PROVE TypeOK'
  <2> DEFINE c == job[t][1]
  <2>1. c \in Codes /\ job[t] \in Jobs
    BY <1>4, StepOthers
  <2>2. used' \in [Codes -> Nat]
    <3>1. used' = [used EXCEPT ![c] = @ + 1] \/ UNCHANGED used
      BY <1>4 DEF Step, Find, Check, AlreadyUsed, Grant, Count, LogUse, tables
    <3>2. [used EXCEPT ![c] = @ + 1] \in [Codes -> Nat]
      BY <1>0, <2>1
    <3> QED
      BY <1>0, <3>1, <3>2
  <2>3. grants' \in [Jobs -> Nat] /\ granted' \in [Codes -> Nat]
    <3>1. \/ UNCHANGED <<grants, granted>>
          \/ /\ grants' = [grants EXCEPT ![job[t]] = @ + 1]
             /\ granted' = [granted EXCEPT ![c] = @ + 1]
      BY <1>4 DEF Step, Find, Check, AlreadyUsed, Grant, Count, LogUse, tables
    <3>2. /\ [grants EXCEPT ![job[t]] = @ + 1] \in [Jobs -> Nat]
          /\ [granted EXCEPT ![c] = @ + 1] \in [Codes -> Nat]
      BY <1>0, <2>1
    <3> QED
      BY <1>0, <3>1, <3>2
  <2>4. uses' \subseteq Jobs
    <3>1. uses' \subseteq uses \cup {job[t]}
      BY <1>4 DEF Step, Find, Check, AlreadyUsed, Grant, Count, LogUse, tables
    <3> QED
      BY <1>0, <2>1, <3>1
  <2>5. slots' \subseteq Players
    <3>1. slots' \subseteq slots \cup {job[t][2]}
      BY <1>4 DEF Step, Find, Check, AlreadyUsed, Grant, Count, LogUse, tables
    <3> QED
      BY <1>4, <3>1, StepOthers DEF TypeOK
  <2> QED
    BY <1>4, <2>2, <2>3, <2>4, <2>5, StepOthers DEF TypeOK
<1>5. CASE Crash
  <2>1. /\ pc' \in [Threads -> Phases] /\ job' \in [Threads -> Jobs \cup {NoJob}]
        /\ \A t \in Threads : pc'[t] = "idle"
        /\ seen' \in [Threads -> Nat]
    BY <1>5 DEF Crash, Phases
  <2>2. UnderWay \subseteq Codes
    BY DEF UnderWay, TypeOK, Jobs
  <2>3. disturbed' \subseteq Codes /\ crashes' \in 0..MaxCrashes
    BY <1>5, <2>2, CdkAssumption DEF Crash, TypeOK
  <2> QED
    BY <1>5, <2>1, <2>3 DEF Crash, TypeOK, tables
<1>6. CASE UNCHANGED vars
  BY <1>6 DEF vars, TypeOK
<1> QED
  BY <1>1, <1>2, <1>3, <1>4, <1>5, <1>6 DEF Next

--------------------------------------------------------------------------------
(* What is under way for one code.                                          *)

\* A step for another code changes nothing of this one.
LEMMA OtherCode ==
  ASSUME TypeOK, NEW t \in Threads, Step(t), NEW c \in Codes, job[t][1] # c
  PROVE  /\ WillGrant(c)' = WillGrant(c) /\ Counting(c)' = Counting(c)
         /\ Logging(c)' = Logging(c) /\ Entries(c)' = Entries(c)
         /\ used'[c] = used[c] /\ granted'[c] = granted[c]
         /\ \A u \in Threads : (Redeems(u, c) /\ pc[u] = "check")' =>
              Redeems(u, c) /\ pc[u] = "check" /\ seen'[u] = seen[u]
<1>1. /\ \A u \in Threads \ {t} : pc'[u] = pc[u] /\ job'[u] = job[u] /\ seen'[u] = seen[u]
      /\ pc'[t] # "idle" => job'[t] = job[t]
      /\ pc[t] # "idle" /\ job[t][1] \in Codes
  BY StepOthers
<1>2. /\ WillGrant(c)' = WillGrant(c) /\ Counting(c)' = Counting(c) /\ Logging(c)' = Logging(c)
  BY <1>1 DEF WillGrant, Counting, Logging
<1>3. uses' \subseteq uses \cup {job[t]} /\ uses \subseteq uses'
  BY StepEffects DEF Step
<1>4. Entries(c)' = Entries(c)
  BY <1>3 DEF Entries
<1>5. used'[c] = used[c] /\ granted'[c] = granted[c]
  <2>1. used \in [Codes -> Nat] /\ granted \in [Codes -> Nat]
    BY DEF TypeOK
  <2>2. used' = [used EXCEPT ![job[t][1]] = @ + 1] \/ UNCHANGED used
    BY StepEffects DEF Step
  <2>3. granted' = [granted EXCEPT ![job[t][1]] = @ + 1] \/ UNCHANGED granted
    BY StepEffects DEF Step
  <2> QED
    BY <1>1, <2>1, <2>2, <2>3
<1>6. \A u \in Threads : (Redeems(u, c) /\ pc[u] = "check")' =>
              Redeems(u, c) /\ pc[u] = "check" /\ seen'[u] = seen[u]
  BY <1>1 DEF Redeems
<1> QED
  BY <1>2, <1>4, <1>5, <1>6

\* A step for this code moves its thread from one set to the next.
LEMMA OwnCode ==
  ASSUME TypeOK, NEW t \in Threads, Step(t), NEW c \in Codes, job[t][1] = c
  PROVE  /\ LET W == IF \/ pc'[t] \in {"used", "grant"}
                        \/ pc'[t] = "check" /\ seen'[t] < MaxUses[c]
                     THEN {t} ELSE {}
            IN  WillGrant(c)' = (WillGrant(c) \ {t}) \cup W
         /\ Counting(c)' = (Counting(c) \ {t}) \cup (IF pc'[t] = "count" THEN {t} ELSE {})
         /\ Logging(c)' = (Logging(c) \ {t}) \cup (IF pc'[t] = "log" THEN {t} ELSE {})
  BY StepOthers DEF WillGrant, Counting, Logging

\* Counting threads.
LEMMA ThreadCount ==
  ASSUME NEW S \in SUBSET Threads
  PROVE  /\ Cardinality(S) \in Nat /\ Cardinality(S) <= N /\ N \in Nat
         /\ \A t : Cardinality(S \cup {t}) = IF t \in S THEN Cardinality(S) ELSE Cardinality(S) + 1
         /\ \A t : Cardinality(S \ {t}) = IF t \in S THEN Cardinality(S) - 1 ELSE Cardinality(S)
<1>1. IsFiniteSet(S) /\ IsFiniteSet(Threads) /\ Cardinality(S) <= N
  BY FS_Subset, CdkAssumption DEF N
<1>2. Cardinality(S) \in Nat /\ N \in Nat
  BY <1>1, FS_CardinalityType DEF N
<1>3. \A t : Cardinality(S \cup {t}) = IF t \in S THEN Cardinality(S) ELSE Cardinality(S) + 1
  BY <1>1, FS_AddElement
<1>4. \A t : Cardinality(S \ {t}) = IF t \in S THEN Cardinality(S) - 1 ELSE Cardinality(S)
  BY <1>1, FS_RemoveElement
<1> QED
  BY <1>1, <1>2, <1>3, <1>4

\* Only codes with a row are checked, granted, counted and logged.
LEMMA GeneratedInduction ==
  TypeOK /\ PastIsGenerated /\ [Next]_vars => PastIsGenerated'
<1> SUFFICES ASSUME TypeOK, PastIsGenerated, [Next]_vars PROVE PastIsGenerated'
  OBVIOUS
<1>1. ASSUME NEW c \in Codes, Generate(c) \/ Delete(c) PROVE PastIsGenerated'
  <2>1. \A d \in Codes : status[d] # "none" => status'[d] # "none"
    BY <1>1 DEF Generate, Delete, TypeOK
  <2>2. \A t \in Threads : pc[t] # "idle" => job[t][1] \in Codes
    BY DEF TypeOK, Jobs
  <2> QED
    BY <1>1, <2>1, <2>2 DEF Generate, Delete, PastIsGenerated
<1>2. ASSUME NEW t \in Threads, NEW j \in Jobs, Chat(t, j) PROVE PastIsGenerated'
  BY <1>2, ChatStarts DEF PastIsGenerated
<1>3. ASSUME NEW t \in Threads, Step(t) PROVE PastIsGenerated'
  <2>1. pc'[t] \notin {"idle", "find"} => status[job[t][1]] # "none"
    BY <1>3, StepEffects DEF Step, PastIsGenerated
  <2> QED
    BY <1>3, <2>1, StepOthers DEF PastIsGenerated
<1>4. CASE Crash
  BY <1>4 DEF Crash, PastIsGenerated
<1>5. ASSUME UNCHANGED <<pc, job, status>> PROVE PastIsGenerated'
  BY <1>5 DEF PastIsGenerated
<1> QED
  BY <1>1, <1>2, <1>3, <1>4, <1>5 DEF Next, Expire, vars

\* Whoever redeems a code that another thread is redeeming disturbs it, and so
\* does a crash.
LEMMA AloneInduction == TypeOK /\ Alone /\ [Next]_vars => Alone'
<1> SUFFICES ASSUME TypeOK, Alone, [Next]_vars PROVE Alone'
  OBVIOUS
<1>1. ASSUME NEW t \in Threads, NEW j \in Jobs, Chat(t, j) PROVE Alone'
  <2>1. disturbed' = IF j[1] \in UnderWay THEN disturbed \cup {j[1]} ELSE disturbed
    BY <1>1 DEF Chat
  <2>2. j[1] \in UnderWay \/ \A u \in Threads : ~Redeems(u, j[1])
    BY DEF UnderWay, Redeems
  <2> QED
    BY <1>1, <2>1, <2>2, ChatStarts DEF Alone, Redeems
<1>2. ASSUME NEW t \in Threads, Step(t) PROVE Alone'
  BY <1>2, StepOthers DEF Alone, Redeems
<1>3. CASE Crash
  BY <1>3 DEF Crash, Alone, Redeems
<1>4. ASSUME UNCHANGED <<pc, job, disturbed>> PROVE Alone'
  BY <1>4 DEF Alone, Redeems
<1> QED
  BY <1>1, <1>2, <1>3, <1>4 DEF Next, Generate, Delete, Expire, vars

\* A thread that redeems an undisturbed code is the only one.
LEMMA OnlyThread ==
  ASSUME TypeOK, Alone, NEW t \in Threads, pc[t] # "idle", NEW c \in Codes \ disturbed,
         job[t][1] = c
  PROVE  /\ \A u \in Threads : Redeems(u, c) => u = t
         /\ WillGrant(c) \subseteq {t} /\ Counting(c) \subseteq {t}
<1>1. \A u \in Threads : Redeems(u, c) => u = t
  BY DEF Alone, Redeems
<1> QED
  BY <1>1 DEF WillGrant, Counting, Redeems

--------------------------------------------------------------------------------
(* One thread at a time.                                                    *)

\* What keeps the threads, the numbers and the history of a code keeps Exact.
LEMMA ExactKept ==
  ASSUME NEW c \in Codes, Exact(c), used'[c] = used[c], granted'[c] = granted[c],
         status'[c] # "deleted" => status[c] # "deleted",
         WillGrant(c)' = WillGrant(c), Counting(c)' = Counting(c),
         \A u \in Threads : (Redeems(u, c) /\ pc[u] = "check")' =>
              Redeems(u, c) /\ pc[u] = "check" /\ seen'[u] = seen[u]
  PROVE  Exact(c)'
BY DEF Exact

\* The limit is checked against the count, the count is as far as the rewards.
LEMMA ExactStep ==
  ASSUME TypeOK, Alone, PastIsGenerated, NEW t \in Threads, Step(t),
         NEW c \in Codes \ disturbed, job[t][1] = c, Exact(c)
  PROVE  Exact(c)'
<1>1. /\ pc[t] # "idle" /\ job[t] \in Jobs /\ UNCHANGED status
      /\ \A u \in Threads \ {t} : pc'[u] = pc[u] /\ job'[u] = job[u]
      /\ pc'[t] # "idle" => job'[t] = job[t]
      /\ seen' \in [Threads -> Nat]
  BY StepOthers
<1>2. /\ used[c] \in Nat /\ granted[c] \in Nat /\ MaxUses[c] \in Nat /\ seen[t] \in Nat
      /\ used \in [Codes -> Nat] /\ granted \in [Codes -> Nat]
      /\ seen'[t] \in Nat /\ status[c] \in {"none", "live", "deleted"}
  BY <1>1, CdkAssumption DEF TypeOK
<1>3. /\ WillGrant(c) \subseteq {t} /\ Counting(c) \subseteq {t}
      /\ \A u \in Threads : Redeems(u, c) => u = t
  BY <1>1, OnlyThread
<1>4. \A u \in Threads : Redeems(u, c)' => u = t
  BY <1>1, <1>3 DEF Redeems
<1>5. /\ (t \in Counting(c)) <=> (pc[t] = "count")
      /\ (t \in WillGrant(c)) <=> (\/ pc[t] \in {"used", "grant"}
                                   \/ pc[t] = "check" /\ seen[t] < MaxUses[c])
  BY DEF Counting, WillGrant
<1>6. /\ WillGrant(c)' = IF \/ pc'[t] \in {"used", "grant"}
                            \/ pc'[t] = "check" /\ seen'[t] < MaxUses[c] THEN {t} ELSE {}
      /\ Counting(c)' = IF pc'[t] = "count" THEN {t} ELSE {}
  BY <1>3, OwnCode
<1>7. /\ granted[c] <= MaxUses[c]
      /\ t \in WillGrant(c) => granted[c] < MaxUses[c]
      /\ status[c] # "deleted" =>
           /\ granted[c] <= used[c] + (IF t \in Counting(c) THEN 1 ELSE 0)
           /\ pc[t] = "check" => seen[t] = used[c]
  BY <1>1, <1>3 DEF Exact, Redeems
<1>8. SUFFICES
        /\ granted'[c] <= MaxUses[c]
        /\ (\/ pc'[t] \in {"used", "grant"}
            \/ pc'[t] = "check" /\ seen'[t] < MaxUses[c]) => granted'[c] < MaxUses[c]
        /\ status[c] # "deleted" =>
             /\ granted'[c] <= used'[c] + (IF pc'[t] = "count" THEN 1 ELSE 0)
             /\ pc'[t] = "check" => seen'[t] = used'[c]
  <2>1. /\ (Counting(c)' = {}) <=> (pc'[t] # "count")
        /\ (WillGrant(c)' # {}) <=> (\/ pc'[t] \in {"used", "grant"}
                                     \/ pc'[t] = "check" /\ seen'[t] < MaxUses[c])
    BY <1>6
  <2>2. ASSUME status[c] # "deleted" /\ pc'[t] = "check" => seen'[t] = used'[c]
        PROVE  status'[c] # "deleted" =>
                 \A u \in Threads : (Redeems(u, c) /\ pc[u] = "check")' => seen'[u] = used'[c]
    BY <1>1, <1>4, <2>2
  <2> QED
    BY <1>1, <2>1, <2>2 DEF Exact
<1>9. CASE Find(t)
  BY <1>2, <1>5, <1>7, <1>9, StepEffects
<1>10. CASE Check(t)
  <2>1. /\ pc[t] = "check" /\ UNCHANGED <<used, granted>>
        /\ pc'[t] = "idle" \/ (pc'[t] = "used" /\ seen[t] < MaxUses[c])
    BY <1>2, <1>10, StepEffects
  <2> QED
    BY <1>2, <1>5, <1>7, <2>1
<1>11. CASE AlreadyUsed(t)
  BY <1>2, <1>5, <1>7, <1>11, StepEffects
<1>12. CASE Grant(t)
  <2>1. /\ pc[t] = "grant" /\ pc'[t] = "count" /\ UNCHANGED used
        /\ granted'[c] = granted[c] \/ granted'[c] = granted[c] + 1
    BY <1>2, <1>12, StepEffects
  <2> QED
    BY <1>2, <1>5, <1>7, <2>1
<1>13. CASE Count(t)
  <2>1. /\ pc[t] = "count" /\ pc'[t] = "log" /\ UNCHANGED granted
        /\ status[c] = "live" => used'[c] = used[c] + 1
    BY <1>2, <1>13, StepEffects
  <2>2. status[c] # "none"
    BY <2>1 DEF PastIsGenerated
  <2> QED
    BY <1>2, <1>5, <1>7, <2>1, <2>2
<1>14. CASE LogUse(t)
  BY <1>2, <1>5, <1>7, <1>14, StepEffects
<1> QED
  BY <1>9, <1>10, <1>11, <1>12, <1>13, <1>14 DEF Step

\* Administrators, the clock and new chat lines touch no redemption under way.
LEMMA OutsideHandler ==
  ASSUME TypeOK, NEW c \in Codes, [Next]_vars, ~Crash, \A t \in Threads : ~Step(t)
  PROVE  /\ WillGrant(c)' = WillGrant(c) /\ Counting(c)' = Counting(c)
         /\ Logging(c)' = Logging(c) /\ Entries(c)' = Entries(c)
         /\ used'[c] = used[c] /\ granted'[c] = granted[c] /\ crashes' = crashes
         /\ grants' = grants /\ uses' = uses
         /\ \A u \in Threads : (Redeems(u, c) /\ pc[u] = "check")' =>
              Redeems(u, c) /\ pc[u] = "check" /\ seen'[u] = seen[u]
         /\ status'[c] # "deleted" => status[c] # "deleted"
         /\ disturbed \subseteq disturbed'
<1>1. CASE UNCHANGED <<pc, job, seen, used, granted, grants, uses, crashes, disturbed>>
  <2>1. status'[c] # "deleted" => status[c] # "deleted"
    <3>1. CASE UNCHANGED status
      BY <3>1
    <3>2. CASE \E d \in Codes : Generate(d) \/ Delete(d)
      BY <3>2 DEF Generate, Delete, TypeOK
    <3>3. CASE \E t \in Threads, j \in Jobs : Chat(t, j)
      BY <3>3, ChatStarts
    <3> QED
      BY <3>1, <3>2, <3>3 DEF Next, Expire, vars
  <2> QED
    BY <1>1, <2>1 DEF WillGrant, Counting, Logging, Entries, Redeems
<1>2. ASSUME NEW t \in Threads, NEW j \in Jobs, Chat(t, j)
      PROVE  /\ WillGrant(c)' = WillGrant(c) /\ Counting(c)' = Counting(c)
             /\ Logging(c)' = Logging(c) /\ Entries(c)' = Entries(c)
             /\ used'[c] = used[c] /\ granted'[c] = granted[c] /\ crashes' = crashes
             /\ grants' = grants /\ uses' = uses
             /\ \A u \in Threads : (Redeems(u, c) /\ pc[u] = "check")' =>
                  Redeems(u, c) /\ pc[u] = "check" /\ seen'[u] = seen[u]
             /\ status'[c] # "deleted" => status[c] # "deleted"
             /\ disturbed \subseteq disturbed'
  <2>1. disturbed \subseteq disturbed'
    BY <1>2 DEF Chat
  <2>2. /\ WillGrant(c)' = WillGrant(c) /\ Counting(c)' = Counting(c)
        /\ Logging(c)' = Logging(c) /\ Entries(c)' = Entries(c)
    BY <1>2, ChatStarts DEF WillGrant, Counting, Logging, Entries
  <2>3. \A u \in Threads : (Redeems(u, c) /\ pc[u] = "check")' =>
                  Redeems(u, c) /\ pc[u] = "check" /\ seen'[u] = seen[u]
    BY <1>2, ChatStarts DEF Redeems
  <2> QED
    BY <1>2, <2>1, <2>2, <2>3, ChatStarts
<1> QED
  BY <1>1, <1>2 DEF Next, Generate, Delete, Expire, vars

\* After a crash nothing is under way.
LEMMA CrashEffects ==
  ASSUME NEW c \in Codes, Crash
  PROVE  /\ WillGrant(c)' = {} /\ Counting(c)' = {} /\ Logging(c)' = {}
         /\ Entries(c)' = Entries(c) /\ UNCHANGED <<status, used, uses, grants, granted>>
         /\ crashes' = crashes + 1 /\ disturbed' = disturbed \cup UnderWay
         /\ \A t \in Threads : pc'[t] = "idle"
BY DEF Crash, WillGrant, Counting, Logging, Entries, tables

\* The limit stays exact for the codes that are not disturbed.
LEMMA UsesExactInduction ==
  TypeOK /\ Alone /\ PastIsGenerated /\ UsesExact /\ [Next]_vars => UsesExact'
<1> SUFFICES ASSUME TypeOK, Alone, PastIsGenerated, UsesExact, [Next]_vars,
                    NEW c \in Codes, c \notin disturbed'
             PROVE  Exact(c)'
  BY DEF UsesExact
<1>1. CASE Crash
  <2>1. c \notin disturbed /\ c \notin UnderWay
    BY <1>1, CrashEffects
  <2>2. Counting(c) = {}
    BY <2>1 DEF Counting, UnderWay
  <2>3. Exact(c)
    BY <2>1 DEF UsesExact
  <2>4. /\ WillGrant(c)' = {} /\ Counting(c)' = {} /\ UNCHANGED <<status, used, granted>>
        /\ \A t \in Threads : pc'[t] = "idle"
    BY <1>1, CrashEffects
  <2> QED
    BY <2>2, <2>3, <2>4 DEF Exact, Redeems
<1>2. ASSUME NEW t \in Threads, Step(t) PROVE Exact(c)'
  <2>1. c \notin disturbed /\ UNCHANGED status /\ Exact(c)
    BY <1>2, StepOthers DEF UsesExact
  <2>2. CASE job[t][1] = c
    BY <1>2, <2>1, <2>2, ExactStep
  <2>3. CASE job[t][1] # c
    BY <1>2, <2>1, <2>3, OtherCode, ExactKept
  <2> QED
    BY <2>2, <2>3
<1>3. CASE ~Crash /\ \A t \in Threads : ~Step(t)
  <2>1. Exact(c)
    BY <1>3, OutsideHandler DEF UsesExact
  <2> QED
    BY <1>3, <2>1, OutsideHandler, ExactKept
<1> QED
  BY <1>1, <1>2, <1>3

--------------------------------------------------------------------------------
(* Many threads at a time.                                                  *)

\* The threads past the check, those to count and one in neither set are at
\* most N.
LEMMA ThreadRoom ==
  ASSUME NEW c, NEW t \in Threads, pc[t] \notin {"check", "used", "grant", "count"}
  PROVE  /\ Cardinality(WillGrant(c)) + Cardinality(Counting(c)) + 1 <= N
         /\ t \notin WillGrant(c) /\ t \notin Counting(c)
<1>1. /\ WillGrant(c) \cap Counting(c) = {} /\ t \notin WillGrant(c) /\ t \notin Counting(c)
      /\ WillGrant(c) \subseteq Threads /\ Counting(c) \subseteq Threads
  BY DEF WillGrant, Counting
<1>2. /\ IsFiniteSet(WillGrant(c)) /\ IsFiniteSet(Counting(c))
  BY <1>1, FS_Subset, CdkAssumption
<1> DEFINE Both == WillGrant(c) \cup Counting(c)
<1>3. Cardinality(Both) = Cardinality(WillGrant(c)) + Cardinality(Counting(c))
  <2>1. Cardinality(WillGrant(c) \cap Counting(c)) = 0
    BY <1>1, FS_EmptySet
  <2>2. Cardinality(Both) = Cardinality(WillGrant(c)) + Cardinality(Counting(c))
                              - Cardinality(WillGrant(c) \cap Counting(c))
    BY <1>2, FS_Union
  <2>3. Cardinality(WillGrant(c)) \in Nat /\ Cardinality(Counting(c)) \in Nat
    BY <1>2, FS_CardinalityType
  <2> QED
    BY <2>1, <2>2, <2>3
<1>4. Cardinality(Both \cup {t}) = Cardinality(Both) + 1 /\ Cardinality(Both \cup {t}) <= N
  BY <1>1, ThreadCount
<1>5. Cardinality(WillGrant(c)) \in Nat /\ Cardinality(Counting(c)) \in Nat /\ N \in Nat
  BY <1>1, ThreadCount
<1> QED
  BY <1>1, <1>3, <1>4, <1>5

\* What keeps the threads and the numbers of a code keeps Stretched.
LEMMA StretchedKept ==
  ASSUME NEW c \in Codes, Stretched(c), used'[c] = used[c], granted'[c] = granted[c],
         status'[c] # "deleted" => status[c] # "deleted", crashes' = crashes,
         WillGrant(c)' = WillGrant(c), Counting(c)' = Counting(c)
  PROVE  Stretched(c)'
BY DEF Stretched

\* A crash loses the count of at most N rewards.
LEMMA StretchedCrash ==
  ASSUME TypeOK, NEW c \in Codes, Stretched(c), Crash
  PROVE  Stretched(c)'
<1>1. /\ WillGrant(c)' = {} /\ Counting(c)' = {} /\ UNCHANGED <<status, used, granted>>
      /\ crashes' = crashes + 1
  BY CrashEffects
<1> DEFINE W == Cardinality(WillGrant(c))
           C == Cardinality(Counting(c))
<1>2. W \in Nat /\ C \in Nat /\ C <= N /\ N \in Nat
  <2>1. WillGrant(c) \subseteq Threads /\ Counting(c) \subseteq Threads
    BY DEF WillGrant, Counting
  <2> QED
    BY <2>1, ThreadCount
<1>3. Cardinality(WillGrant(c))' = 0 /\ Cardinality(Counting(c))' = 0
  BY <1>1, FS_EmptySet
<1>4. /\ used[c] \in Nat /\ granted[c] \in Nat /\ MaxUses[c] \in Nat /\ crashes \in Nat
  BY CdkAssumption DEF TypeOK
<1>5. N * (crashes + 1) = N * crashes + N /\ N * crashes \in Nat
  BY <1>2, <1>4
<1>6. /\ granted[c] + W <= MaxUses[c] - 1 + N + N * crashes
      /\ status[c] # "deleted" =>
          /\ used[c] + W + C <= MaxUses[c] - 1 + N
          /\ granted[c] <= used[c] + C + N * crashes
  BY DEF Stretched
<1> DEFINE P == N * crashes
           Q == N * (crashes + 1)
<1>7. P \in Nat /\ Q = P + N
  BY <1>5
<1>8. /\ granted[c] + W <= MaxUses[c] - 1 + N + P
      /\ status[c] # "deleted" =>
          /\ used[c] + W + C <= MaxUses[c] - 1 + N
          /\ granted[c] <= used[c] + C + P
  BY <1>6
<1>9. /\ granted[c] + 0 <= MaxUses[c] - 1 + N + Q
      /\ status[c] # "deleted" =>
          /\ used[c] + 0 + 0 <= MaxUses[c] - 1 + N
          /\ granted[c] <= used[c] + 0 + Q
  <2> HIDE DEF W, C, P, Q
  <2> QED
    BY <1>2, <1>4, <1>7, <1>8
<1> QED
  BY <1>1, <1>3, <1>9 DEF Stretched

\* A thread passes the check while the count is short of the limit, and gives
\* its place up when it has counted.
LEMMA StretchedStep ==
  ASSUME TypeOK, PastIsGenerated, NEW t \in Threads, Step(t),
         NEW c \in Codes, job[t][1] = c, Stretched(c)
  PROVE  Stretched(c)'
<1>1. UNCHANGED <<status, crashes>> /\ seen' \in [Threads -> Nat]
  BY StepOthers
<1> DEFINE W == Cardinality(WillGrant(c))
           C == Cardinality(Counting(c))
           W2 == Cardinality(WillGrant(c)')
           C2 == Cardinality(Counting(c)')
           P == N * crashes
           past == \/ pc[t] \in {"used", "grant"}
                   \/ pc[t] = "check" /\ seen[t] < MaxUses[c]
           past2 == \/ pc'[t] \in {"used", "grant"}
                    \/ pc'[t] = "check" /\ seen'[t] < MaxUses[c]
<1>2. /\ used[c] \in Nat /\ granted[c] \in Nat /\ MaxUses[c] \in Nat /\ crashes \in Nat
      /\ used \in [Codes -> Nat] /\ granted \in [Codes -> Nat]
      /\ seen[t] \in Nat /\ seen'[t] \in Nat /\ status[c] \in {"none", "live", "deleted"}
  BY <1>1, CdkAssumption DEF TypeOK
<1>3. WillGrant(c) \subseteq Threads /\ Counting(c) \subseteq Threads
  BY DEF WillGrant, Counting
<1>4. W \in Nat /\ C \in Nat /\ N \in Nat /\ P \in Nat
  <2>1. W \in Nat /\ C \in Nat /\ N \in Nat
    BY <1>3, ThreadCount
  <2> HIDE DEF W, C
  <2> QED
    BY <1>2, <2>1
<1>5. W2 = W - (IF past THEN 1 ELSE 0) + (IF past2 THEN 1 ELSE 0)
  <2>1. (t \in WillGrant(c)) <=> past
    BY DEF WillGrant
  <2>2. WillGrant(c)' = (WillGrant(c) \ {t}) \cup (IF past2 THEN {t} ELSE {})
    BY OwnCode
  <2>3. Cardinality(WillGrant(c) \ {t}) = W - (IF past THEN 1 ELSE 0)
    BY <1>3, <1>4, <2>1, ThreadCount
  <2>4. Cardinality((WillGrant(c) \ {t}) \cup {t}) = Cardinality(WillGrant(c) \ {t}) + 1
    BY <1>3, ThreadCount
  <2>5. Cardinality(WillGrant(c) \ {t}) \in Nat
    BY <1>3, ThreadCount
  <2> HIDE DEF past, past2, W
  <2>6. CASE past2
    BY <1>4, <2>2, <2>3, <2>4, <2>5, <2>6
  <2>7. CASE ~past2
    <3>1. WillGrant(c)' = WillGrant(c) \ {t}
      BY <2>2, <2>7
    <3> QED
      BY <1>4, <2>3, <2>5, <2>7, <3>1
  <2> QED
    BY <2>6, <2>7
<1>6. C2 = C - (IF pc[t] = "count" THEN 1 ELSE 0) + (IF pc'[t] = "count" THEN 1 ELSE 0)
  <2>1. (t \in Counting(c)) <=> (pc[t] = "count")
    BY DEF Counting
  <2>2. Counting(c)' = (Counting(c) \ {t}) \cup (IF pc'[t] = "count" THEN {t} ELSE {})
    BY OwnCode
  <2>3. Cardinality(Counting(c) \ {t}) = C - (IF pc[t] = "count" THEN 1 ELSE 0)
    BY <1>3, <1>4, <2>1, ThreadCount
  <2>4. Cardinality((Counting(c) \ {t}) \cup {t}) = Cardinality(Counting(c) \ {t}) + 1
    BY <1>3, ThreadCount
  <2>5. Cardinality(Counting(c) \ {t}) \in Nat
    BY <1>3, ThreadCount
  <2> HIDE DEF C
  <2>6. CASE pc'[t] = "count"
    BY <1>4, <2>2, <2>3, <2>4, <2>5, <2>6
  <2>7. CASE pc'[t] # "count"
    <3>1. Counting(c)' = Counting(c) \ {t}
      BY <2>2, <2>7
    <3> QED
      BY <1>4, <2>3, <2>5, <2>7, <3>1
  <2> QED
    BY <2>6, <2>7
<1>7. /\ granted[c] + W <= MaxUses[c] - 1 + N + P
      /\ status[c] # "deleted" =>
          /\ used[c] + W + C <= MaxUses[c] - 1 + N
          /\ granted[c] <= used[c] + C + P
  BY DEF Stretched
<1>8. SUFFICES
        /\ granted'[c] + W2 <= MaxUses[c] - 1 + N + P
        /\ status[c] # "deleted" =>
            /\ used'[c] + W2 + C2 <= MaxUses[c] - 1 + N
            /\ granted'[c] <= used'[c] + C2 + P
  BY <1>1 DEF Stretched
<1> HIDE DEF W, C, W2, C2, P
<1>9. CASE Find(t)
  <2>1. /\ pc[t] = "find" /\ UNCHANGED <<used, granted>>
        /\ \/ pc'[t] = "idle"
           \/ pc'[t] = "check" /\ seen'[t] = used[c] /\ status[c] = "live"
    BY <1>9, StepEffects
  <2>2. W + C + 1 <= N
    BY <2>1, ThreadRoom DEF W, C
  <2>3. C2 = C /\ (W2 = W \/ (W2 = W + 1 /\ used[c] < MaxUses[c] /\ status[c] = "live"))
    BY <1>2, <1>4, <1>5, <1>6, <2>1
  <2> QED
    BY <1>2, <1>4, <1>7, <2>1, <2>2, <2>3
<1>10. CASE Check(t)
  <2>1. /\ pc[t] = "check" /\ UNCHANGED <<used, granted>>
        /\ pc'[t] = "idle" \/ (pc'[t] = "used" /\ seen[t] < MaxUses[c])
    BY <1>2, <1>10, StepEffects
  <2>2. C2 = C /\ (W2 = W \/ W2 = W - 1)
    BY <1>2, <1>4, <1>5, <1>6, <2>1
  <2> QED
    BY <1>2, <1>4, <1>7, <2>1, <2>2
<1>11. CASE AlreadyUsed(t)
  <2>1. pc[t] = "used" /\ pc'[t] \in {"idle", "grant"} /\ UNCHANGED <<used, granted>>
    BY <1>11, StepEffects
  <2>2. C2 = C /\ (W2 = W \/ W2 = W - 1)
    BY <1>2, <1>4, <1>5, <1>6, <2>1
  <2> QED
    BY <1>2, <1>4, <1>7, <2>1, <2>2
<1>12. CASE Grant(t)
  <2>1. /\ pc[t] = "grant" /\ pc'[t] = "count" /\ UNCHANGED used
        /\ granted'[c] = granted[c] \/ granted'[c] = granted[c] + 1
    BY <1>2, <1>12, StepEffects
  <2>2. C2 = C + 1 /\ W2 = W - 1
    BY <1>2, <1>4, <1>5, <1>6, <2>1
  <2> QED
    BY <1>2, <1>4, <1>7, <2>1, <2>2
<1>13. CASE Count(t)
  <2>1. /\ pc[t] = "count" /\ pc'[t] = "log" /\ UNCHANGED granted
        /\ status[c] = "live" => used'[c] = used[c] + 1
    BY <1>2, <1>13, StepEffects
  <2>2. C2 = C - 1 /\ W2 = W /\ status[c] # "none"
    BY <1>2, <1>4, <1>5, <1>6, <2>1 DEF PastIsGenerated
  <2> QED
    BY <1>2, <1>4, <1>7, <2>1, <2>2
<1>14. CASE LogUse(t)
  <2>1. pc[t] = "log" /\ pc'[t] = "idle" /\ UNCHANGED <<used, granted>>
    BY <1>14, StepEffects
  <2>2. C2 = C /\ W2 = W
    BY <1>2, <1>4, <1>5, <1>6, <2>1
  <2> QED
    BY <1>2, <1>4, <1>7, <2>1, <2>2
<1> QED
  BY <1>9, <1>10, <1>11, <1>12, <1>13, <1>14 DEF Step

\* No interleaving stretches the limit further.
LEMMA UsesStretchedInduction ==
  TypeOK /\ PastIsGenerated /\ UsesStretched /\ [Next]_vars => UsesStretched'
<1> SUFFICES ASSUME TypeOK, PastIsGenerated, UsesStretched, [Next]_vars, NEW c \in Codes
             PROVE  Stretched(c)'
  BY DEF UsesStretched
<1>0. Stretched(c)
  BY DEF UsesStretched
<1>1. CASE Crash
  BY <1>0, <1>1, StretchedCrash
<1>2. ASSUME NEW t \in Threads, Step(t) PROVE Stretched(c)'
  <2>1. CASE job[t][1] = c
    BY <1>0, <1>2, <2>1, StretchedStep
  <2>2. CASE job[t][1] # c
    BY <1>0, <1>2, <2>2, OtherCode, StepOthers, StretchedKept
  <2> QED
    BY <2>1, <2>2
<1>3. CASE ~Crash /\ \A t \in Threads : ~Step(t)
  BY <1>0, <1>3, OutsideHandler, StretchedKept
<1> QED
  BY <1>1, <1>2, <1>3

--------------------------------------------------------------------------------
(* The count and the log.                                                   *)

\* What keeps the count, the log and the loggers of a code keeps Logged.
LEMMA LoggedKept ==
  ASSUME NEW c \in Codes, Logged(c), used'[c] = used[c],
         status'[c] # "deleted" => status[c] # "deleted",
         Entries(c)' = Entries(c), Logging(c)' = Logging(c)
  PROVE  Logged(c)'
BY DEF Logged

\* A use is counted before it is logged.
LEMMA LoggedStep ==
  ASSUME TypeOK, PastIsGenerated, NEW t \in Threads, Step(t),
         NEW c \in Codes, job[t][1] = c, Logged(c)
  PROVE  Logged(c)'
<1>1. UNCHANGED status
  BY StepOthers
<1> DEFINE L == Cardinality(Logging(c))
           L2 == Cardinality(Logging(c)')
           E == Cardinality(Entries(c))
           E2 == Cardinality(Entries(c)')
<1>2. Logging(c) \subseteq Threads /\ ((t \in Logging(c)) <=> (pc[t] = "log"))
  BY DEF Logging
<1>3. /\ used[c] \in Nat /\ used \in [Codes -> Nat]
      /\ status[c] \in {"none", "live", "deleted"}
  BY DEF TypeOK
<1>4. IsFiniteSet(Entries(c)) /\ (status[c] # "deleted" => E + L <= used[c])
  BY DEF Logged
<1>5. L \in Nat /\ E \in Nat
  BY <1>2, <1>4, ThreadCount, FS_CardinalityType
<1>6. Logging(c)' = (Logging(c) \ {t}) \cup (IF pc'[t] = "log" THEN {t} ELSE {})
  BY OwnCode
<1>7. SUFFICES IsFiniteSet(Entries(c)') /\ (status[c] # "deleted" => E2 + L2 <= used'[c])
  BY <1>1 DEF Logged
<1>8. CASE LogUse(t)
  <2>1. pc[t] = "log" /\ pc'[t] = "idle" /\ UNCHANGED used /\ uses' = uses \cup {job[t]}
    BY <1>8, StepEffects
  <2>2. L2 = L - 1
    <3>1. Logging(c)' = Logging(c) \ {t}
      BY <1>6, <2>1
    <3> QED
      BY <1>2, <2>1, <3>1, ThreadCount
  <2>3. Entries(c)' = Entries(c) \cup {job[t]}
    BY <2>1 DEF Entries
  <2>4. IsFiniteSet(Entries(c)') /\ E2 \in Nat /\ E2 <= E + 1
    BY <1>4, <1>5, <2>3, FS_AddElement
  <2> HIDE DEF L, L2, E, E2
  <2> QED
    BY <1>3, <1>4, <1>5, <2>1, <2>2, <2>4
<1>9. CASE Count(t)
  <2>1. /\ pc[t] = "count" /\ pc'[t] = "log" /\ UNCHANGED uses
        /\ status[c] = "live" => used'[c] = used[c] + 1
    BY <1>3, <1>9, StepEffects
  <2>2. L2 = L + 1
    <3>1. Logging(c)' = Logging(c) \cup {t}
      BY <1>2, <1>6, <2>1
    <3> QED
      BY <1>2, <2>1, <3>1, ThreadCount
  <2>3. Entries(c)' = Entries(c)
    BY <2>1 DEF Entries
  <2>4. status[c] # "none"
    BY <2>1 DEF PastIsGenerated
  <2>5. E2 = E
    BY <2>3
  <2> HIDE DEF L, L2, E, E2
  <2> QED
    BY <1>3, <1>4, <1>5, <2>1, <2>2, <2>3, <2>4, <2>5
<1>10. CASE Find(t) \/ Check(t) \/ AlreadyUsed(t) \/ Grant(t)
  <2>1. /\ pc[t] # "log" /\ pc'[t] # "log" /\ UNCHANGED <<used, uses>>
    BY <1>10, StepEffects
  <2>2. Logging(c)' = Logging(c) /\ Entries(c)' = Entries(c)
    BY <1>2, <1>6, <2>1 DEF Entries
  <2> QED
    BY <1>4, <2>1, <2>2
<1> QED
  BY <1>8, <1>9, <1>10 DEF Step

\* The log never runs ahead of the count.
LEMMA UsesLoggedInduction ==
  TypeOK /\ PastIsGenerated /\ UsesLogged /\ [Next]_vars => UsesLogged'
<1> SUFFICES ASSUME TypeOK, PastIsGenerated, UsesLogged, [Next]_vars, NEW c \in Codes
             PROVE  Logged(c)'
  BY DEF UsesLogged
<1>0. Logged(c)
  BY DEF UsesLogged
<1>1. CASE Crash
  <2>1. Logging(c)' = {} /\ Entries(c)' = Entries(c) /\ UNCHANGED <<status, used>>
    BY <1>1, CrashEffects
  <2>2. Logging(c) \subseteq Threads /\ used[c] \in Nat
    BY DEF Logging, TypeOK
  <2>3. Cardinality(Logging(c)) \in Nat /\ Cardinality(Logging(c))' = 0
    BY <2>1, <2>2, ThreadCount, FS_EmptySet
  <2>4. IsFiniteSet(Entries(c)) /\ Cardinality(Entries(c)) \in Nat
    BY <1>0, FS_CardinalityType DEF Logged
  <2>5. status[c] # "deleted" => Cardinality(Entries(c)) <= used[c]
    BY <1>0, <2>2, <2>3, <2>4 DEF Logged
  <2> QED
    BY <2>1, <2>3, <2>4, <2>5 DEF Logged
<1>2. ASSUME NEW t \in Threads, Step(t) PROVE Logged(c)'
  <2>1. CASE job[t][1] = c
    BY <1>0, <1>2, <2>1, LoggedStep
  <2>2. CASE job[t][1] # c
    BY <1>0, <1>2, <2>2, OtherCode, StepOthers, LoggedKept
  <2> QED
    BY <2>1, <2>2
<1>3. CASE ~Crash /\ \A t \in Threads : ~Step(t)
  BY <1>0, <1>3, OutsideHandler, LoggedKept
<1> QED
  BY <1>1, <1>2, <1>3

--------------------------------------------------------------------------------
(* One reward per player.                                                   *)

\* A code is granted to a player who has had nothing for it.
LEMMA FirstUseInduction ==
  TypeOK /\ Alone /\ FirstUse /\ [Next]_vars => FirstUse'
<1> DEFINE Underway(j) == \E t \in Threads : pc[t] \in {"count", "log"} /\ job[t] = j
           Granting(j) == \E t \in Threads : pc[t] = "grant" /\ job[t] = j
<1> SUFFICES ASSUME TypeOK, Alone, FirstUse, [Next]_vars, NEW j \in Jobs, j[1] \notin disturbed'
             PROVE  /\ grants'[j] <= 1
                    /\ j \in uses' \/ Underway(j)' \/ grants'[j] = 0
                    /\ Granting(j)' => grants'[j] = 0
  BY DEF FirstUse
<1>0. grants \in [Jobs -> Nat] /\ j[1] \in Codes
  BY DEF TypeOK, Jobs
<1>1. ASSUME j[1] \notin disturbed
      PROVE  /\ grants[j] <= 1
             /\ j \in uses \/ Underway(j) \/ grants[j] = 0
             /\ Granting(j) => grants[j] = 0
  BY <1>1 DEF FirstUse
<1>2. CASE Crash
  <2>1. j[1] \notin disturbed /\ j[1] \notin UnderWay /\ UNCHANGED <<uses, grants>>
        /\ \A t \in Threads : pc'[t] = "idle"
    BY <1>0, <1>2, CrashEffects
  <2>2. ~Underway(j)
    BY <2>1 DEF UnderWay
  <2> QED
    BY <1>1, <2>1, <2>2
<1>3. ASSUME NEW t \in Threads, NEW k \in Jobs, Chat(t, k)
      PROVE  /\ grants'[j] <= 1
             /\ j \in uses' \/ Underway(j)' \/ grants'[j] = 0
             /\ Granting(j)' => grants'[j] = 0
  <2>1. j[1] \notin disturbed
    BY <1>3 DEF Chat
  <2>2. UNCHANGED <<uses, grants>>
    BY <1>3, ChatStarts
  <2>3. Granting(j)' => Granting(j)
    BY <1>3, ChatStarts
  <2>4. Underway(j) => Underway(j)'
    BY <1>3, ChatStarts
  <2> QED
    BY <1>1, <2>1, <2>2, <2>3, <2>4
<1>4. ASSUME NEW t \in Threads, Step(t)
      PROVE  /\ grants'[j] <= 1
             /\ j \in uses' \/ Underway(j)' \/ grants'[j] = 0
             /\ Granting(j)' => grants'[j] = 0
  <2>1. /\ j[1] \notin disturbed /\ pc[t] # "idle" /\ job[t] \in Jobs
        /\ \A u \in Threads \ {t} : pc'[u] = pc[u] /\ job'[u] = job[u]
        /\ pc'[t] # "idle" => job'[t] = job[t]
    BY <1>4, StepOthers
  <2>2. uses \subseteq uses' /\ (grants' = [grants EXCEPT ![job[t]] = @ + 1] \/ UNCHANGED grants)
    BY <1>4, StepEffects DEF Step
  <2>3. CASE job[t] # j
    <3>1. grants'[j] = grants[j]
      BY <1>0, <2>1, <2>2, <2>3
    <3>2. Granting(j)' => Granting(j)
      BY <2>1, <2>3
    <3>3. Underway(j) => Underway(j)'
      BY <2>1, <2>3
    <3> QED
      BY <1>1, <2>1, <2>2, <3>1, <3>2, <3>3
  <2>4. CASE job[t] = j
    <3>1. \A u \in Threads : pc[u] # "idle" /\ job[u] = j => u = t
      BY <1>0, <2>1, <2>4 DEF Alone, Redeems
    <3>2. /\ Underway(j) <=> pc[t] \in {"count", "log"}
          /\ Granting(j) <=> pc[t] = "grant"
      BY <2>4, <3>1
    <3>3. /\ pc'[t] \in {"count", "log"} => Underway(j)'
          /\ Granting(j)' => pc'[t] = "grant"
      BY <2>1, <2>4, <3>1
    <3>4. CASE Find(t) \/ Check(t)
      <4>1. pc[t] \in {"find", "check"} /\ pc'[t] # "grant" /\ UNCHANGED grants
        BY <3>4, StepEffects
      <4> QED
        BY <1>1, <2>1, <2>2, <3>2, <3>3, <4>1
    <3>5. CASE AlreadyUsed(t)
      <4>1. pc[t] = "used" /\ UNCHANGED <<grants, uses>> /\ (pc'[t] = "grant" => j \notin uses)
        BY <2>4, <3>5, StepEffects
      <4> QED
        BY <1>1, <2>1, <2>2, <3>2, <3>3, <4>1
    <3>6. CASE Grant(t)
      <4>1. pc[t] = "grant" /\ pc'[t] = "count"
        BY <3>6, StepEffects
      <4>2. grants'[j] <= 1
        BY <1>0, <1>1, <2>1, <2>2, <2>4, <3>2, <4>1
      <4> QED
        BY <3>3, <4>1, <4>2
    <3>7. CASE Count(t)
      <4>1. pc[t] = "count" /\ pc'[t] = "log" /\ UNCHANGED <<grants, uses>>
        BY <3>7, StepEffects
      <4> QED
        BY <1>1, <2>1, <3>3, <4>1
    <3>8. CASE LogUse(t)
      <4>1. pc[t] = "log" /\ pc'[t] = "idle" /\ UNCHANGED grants /\ j \in uses'
        BY <2>4, <3>8, StepEffects
      <4> QED
        BY <1>1, <2>1, <3>3, <4>1
    <3> QED
      BY <1>4, <3>4, <3>5, <3>6, <3>7, <3>8 DEF Step
  <2> QED
    BY <2>3, <2>4
<1>5. CASE UNCHANGED <<pc, job, uses, grants, disturbed>>
  BY <1>1, <1>5
<1> QED
  BY <1>2, <1>3, <1>4, <1>5 DEF Next, Generate, Delete, Expire, vars

--------------------------------------------------------------------------------
(* The theorems.                                                            *)

RedeemInv == TypeOK /\ PastIsGenerated /\ Alone /\ UsesExact /\ UsesStretched /\ UsesLogged

\* With no code and no thread at work all of it holds.
LEMMA RedeemInit == Init => RedeemInv /\ FirstUse
<1> SUFFICES ASSUME Init PROVE RedeemInv /\ FirstUse
  OBVIOUS
<1>1. TypeOK
  BY CdkAssumption DEF Init, TypeOK, Phases
<1>2. \A t \in Threads : pc[t] = "idle"
  BY DEF Init
<1>3. PastIsGenerated /\ Alone
  BY <1>2 DEF PastIsGenerated, Alone, Redeems
<1>4. FirstUse
  BY <1>2 DEF Init, FirstUse
<1>5. ASSUME NEW c \in Codes PROVE Exact(c) /\ Stretched(c) /\ Logged(c)
  <2>1. /\ WillGrant(c) = {} /\ Counting(c) = {} /\ Logging(c) = {} /\ Entries(c) = {}
        /\ used[c] = 0 /\ granted[c] = 0 /\ crashes = 0 /\ MaxUses[c] \in Nat
    BY <1>2, CdkAssumption DEF Init, WillGrant, Counting, Logging, Entries
  <2>2. IsFiniteSet({}) /\ Cardinality({}) = 0
    BY FS_EmptySet
  <2>3. Exact(c)
    BY <1>2, <2>1 DEF Exact, Redeems
  <2>4. N \in Nat /\ N >= 1
    <3>1. PICK t \in Threads : TRUE
      BY CdkAssumption
    <3>2. Cardinality({t}) <= N /\ Cardinality({t}) = 1 /\ N \in Nat
      BY ThreadCount, FS_Singleton
    <3> QED
      BY <3>2
  <2>5. N * 0 = 0
    BY <2>4
  <2>6. Stretched(c)
    BY <2>1, <2>2, <2>4, <2>5 DEF Stretched
  <2> QED
    BY <2>1, <2>2, <2>3, <2>6 DEF Logged
<1> QED
  BY <1>1, <1>3, <1>4, <1>5 DEF RedeemInv, UsesExact, UsesStretched, UsesLogged

\* The tables, the copies the threads hold and the history keep their types.
THEOREM TypeCorrect == Spec => []TypeOK
<1>1. Init => TypeOK
  BY RedeemInit DEF RedeemInv
<1> QED
  BY <1>1, TypeInduction, PTL DEF Spec

\* The limit of a code is exact while one thread at a time redeems it, it is
\* overrun by less than a thread's worth of rewards for every thread and crash,
\* and the count never falls behind the log.
THEOREM UsesAreBounded == Spec => []UsesBounded
<1>1. Init => RedeemInv
  BY RedeemInit
<1>2. RedeemInv /\ [Next]_vars => RedeemInv'
  BY TypeInduction, GeneratedInduction, AloneInduction, UsesExactInduction,
     UsesStretchedInduction, UsesLoggedInduction DEF RedeemInv
<1>3. RedeemInv => UsesBounded
  <2> SUFFICES ASSUME RedeemInv PROVE UsesBounded
    OBVIOUS
  <2>1. TypeOK /\ UsesExact /\ UsesStretched /\ UsesLogged
    BY DEF RedeemInv
  <2>2. WithinMaxUses
    BY <2>1 DEF UsesExact, Exact, WithinMaxUses
  <2>3. OverrunBounded
    <3> SUFFICES ASSUME NEW c \in Codes
                 PROVE  granted[c] <= MaxUses[c] + N * (crashes + 1) - 1
      BY DEF OverrunBounded, N
    <3> DEFINE W == Cardinality(WillGrant(c))
    <3>1. granted[c] + W <= MaxUses[c] - 1 + N + N * crashes
      BY <2>1 DEF UsesStretched, Stretched
    <3>2. W \in Nat /\ N \in Nat
      <4>1. WillGrant(c) \subseteq Threads
        BY DEF WillGrant
      <4> QED
        BY <4>1, ThreadCount
    <3>3. granted[c] \in Nat /\ MaxUses[c] \in Nat /\ crashes \in Nat
      BY <2>1, CdkAssumption DEF TypeOK
    <3>4. N * (crashes + 1) = N * crashes + N /\ N * crashes \in Nat
      BY <3>2, <3>3
    <3> DEFINE P == N * crashes
               Q == N * (crashes + 1)
    <3>5. P \in Nat /\ Q = P + N /\ granted[c] + W <= MaxUses[c] - 1 + N + P
      BY <3>1, <3>4
    <3>6. granted[c] <= MaxUses[c] + Q - 1
      <4> HIDE DEF W, P, Q
      <4> QED
        BY <3>2, <3>3, <3>5
    <3> QED
      BY <3>6
  <2>4. CountCoversUses
    <3> SUFFICES ASSUME NEW c \in Live PROVE used[c] >= Cardinality(Entries(c))
      BY DEF CountCoversUses, Entries
    <3>1. c \in Codes /\ status[c] = "live"
      BY DEF Live
    <3>2. /\ IsFiniteSet(Entries(c))
          /\ Cardinality(Entries(c)) + Cardinality(Logging(c)) <= used[c]
      BY <2>1, <3>1 DEF UsesLogged, Logged
    <3>3. Cardinality(Entries(c)) \in Nat /\ used[c] \in Nat
      BY <2>1, <3>1, <3>2, FS_CardinalityType DEF TypeOK
    <3>4. Cardinality(Logging(c)) \in Nat
      <4>1. Logging(c) \subseteq Threads
        BY DEF Logging
      <4> QED
        BY <4>1, ThreadCount
    <3> QED
      BY <3>2, <3>3, <3>4
  <2> QED
    BY <2>1, <2>2, <2>3, <2>4 DEF UsesBounded
<1> QED
  BY <1>1, <1>2, <1>3, PTL DEF Spec

\* A player is rewarded once for a code that is redeemed by one thread at a time
\* and at no crash, whatever happens to the code in the meantime.
THEOREM OnceForEachPlayer == Spec => []OncePerPlayer
<1> DEFINE Inv == TypeOK /\ Alone /\ FirstUse
<1>1. Init => Inv
  BY RedeemInit DEF RedeemInv
<1>2. Inv /\ [Next]_vars => Inv'
  BY TypeInduction, AloneInduction, FirstUseInduction
<1>3. Inv => OncePerPlayer
  BY DEF FirstUse, OncePerPlayer
<1> QED
  BY <1>1, <1>2, <1>3, PTL DEF Spec
================================================================================

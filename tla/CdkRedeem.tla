-------------------------------- MODULE CdkRedeem --------------------------------
(***************************************************************************)
(* Redeeming CDK activation codes from the game chat.                       *)
(*                                                                         *)
(* CDKRedeemPlugin::handle runs on whatever thread handles the chat line.   *)
(* It reads the code's row once, decides on that copy, asks whether the     *)
(* player has used the code, grants the reward, and only then counts and    *)
(* logs the use: five statements, no transaction and no lock.  The rows of  *)
(* the points table that a grant touches are the subject of PointsLedger;   *)
(* here a grant is one step.                                                *)
(***************************************************************************)
EXTENDS Integers, FiniteSets

CONSTANTS
    Threads,      \* threads that dispatch chat lines
    Players,
    Codes,        \* the codes an administrator may generate
    MixedCase,    \* those whose stored text has a lower-case letter
    SlotCodes,    \* those whose reward is a reserved slot, not points
    MaxUses,      \* the maxUses an administrator gives each code
    MaxChats,     \* bound: number of redeem commands typed
    MaxCrashes    \* bound: number of process crashes

ASSUME CdkAssumption ==
    /\ MixedCase \subseteq Codes /\ SlotCodes \subseteq Codes
    /\ MaxUses \in [Codes -> Nat] /\ MaxChats \in Nat /\ MaxCrashes \in Nat
    /\ Threads # {} /\ IsFiniteSet(Threads)

VARIABLES
    status,   \* of each code: not generated, in table cdk_codes, or deleted
    used,     \* ... and their usedCount
    expired,  \* the codes whose expiresAt has passed
    uses,     \* table cdk_logs: the (code, player) pairs logged
    slots,    \* table reserved_slots: the players with a slot
    grants,   \* history: rewards granted to each (code, player)
    granted,  \* history: rewards granted for each code
    pc,       \* what each thread does next
    job,      \* the code and the player of its chat line
    seen,     \* the usedCount in its copy of the row
    disturbed,\* history: codes redeemed by two threads at once, or at a crash
    chats,    \* commands typed so far
    crashes   \* process crashes so far

vars == <<status, used, expired, uses, slots, grants, granted, pc, job, seen, disturbed, chats, crashes>>
tables == <<status, used, expired, uses, slots, grants, granted>>

Phases == {"idle", "find", "check", "used", "grant", "count", "log"}

Jobs == Codes \X Players
NoJob == <<>>

Init ==
    /\ status = [c \in Codes |-> "none"]
    /\ expired = {} /\ uses = {} /\ slots = {}
    /\ used = [c \in Codes |-> 0]
    /\ grants = [j \in Jobs |-> 0] /\ granted = used
    /\ pc = [t \in Threads |-> "idle"]
    /\ job = [t \in Threads |-> NoJob]
    /\ seen = [t \in Threads |-> 0]
    /\ disturbed = {} /\ chats = 0 /\ crashes = 0

\* The codes with a row.
Live == {c \in Codes : status[c] = "live"}

\* The codes some thread is redeeming.
UnderWay == {job[t][1] : t \in {u \in Threads : pc[u] # "idle"}}

Goto(t, phase) == pc' = [pc EXCEPT ![t] = phase]

\* An early return, or the end of the handler.
Done(t) == Goto(t, "idle") /\ job' = [job EXCEPT ![t] = NoJob] /\ seen' = [seen EXCEPT ![t] = 0]

--------------------------------------------------------------------------------
\* POST /api/cdk/batch: a new row, stored with the prefix as it was given.  The
\* random part of a code never repeats.
Generate(c) ==
    /\ status[c] = "none"
    /\ status' = [status EXCEPT ![c] = "live"]
    /\ UNCHANGED <<used, expired, uses, slots, grants, granted, pc, job, seen, disturbed, chats, crashes>>

\* DELETE /api/cdk/:id.
Delete(c) ==
    /\ status[c] = "live"
    /\ status' = [status EXCEPT ![c] = "deleted"]
    /\ UNCHANGED <<used, expired, uses, slots, grants, granted, pc, job, seen, disturbed, chats, crashes>>

\* The clock passes the code's expiresAt.
Expire(c) ==
    /\ c \in Live \ expired
    /\ expired' = expired \cup {c}
    /\ UNCHANGED <<status, used, uses, slots, grants, granted, pc, job, seen, disturbed, chats, crashes>>

\* "cdk CODE" arrives in the chat.
Chat(t, j) ==
    /\ pc[t] = "idle"
    /\ chats < MaxChats
    /\ job' = [job EXCEPT ![t] = j]
    /\ Goto(t, "find")
    /\ chats' = chats + 1
    /\ disturbed' = IF j[1] \in UnderWay THEN disturbed \cup {j[1]} ELSE disturbed
    /\ UNCHANGED <<tables, seen, crashes>>

\* SELECT * FROM cdk_codes WHERE code = the typed text in upper case: a row
\* whose text is not in upper case never matches.
Found(c) == c \in Live /\ c \notin MixedCase

Find(t) ==
    /\ pc[t] = "find"
    /\ IF Found(job[t][1])
       THEN /\ seen' = [seen EXCEPT ![t] = used[job[t][1]]]
            /\ Goto(t, "check")
            /\ UNCHANGED job
       ELSE Done(t)
    /\ UNCHANGED <<tables, disturbed, chats, crashes>>

\* Mutant of Check: one past "if (usedCount >= maxUses)".
CheckOffByOne(t) ==
    /\ pc[t] = "check"
    /\ IF job[t][1] \in expired \/ seen[t] > MaxUses[job[t][1]]
       THEN Done(t)
       ELSE Goto(t, "used") /\ UNCHANGED <<job, seen>>
    /\ UNCHANGED <<tables, disturbed, chats, crashes>>

\* Is it expired?  (asks the database for the time)  Is it used up?  (looks at
\* the copy of the row)
Check(t) ==
    /\ pc[t] = "check"
    /\ IF job[t][1] \in expired \/ seen[t] >= MaxUses[job[t][1]]
       THEN Done(t)
       ELSE Goto(t, "used") /\ UNCHANGED <<job, seen>>
    /\ UNCHANGED <<tables, disturbed, chats, crashes>>

\* Mutant of AlreadyUsed: the check is dropped.
NeverUsed(t) ==
    /\ pc[t] = "used"
    /\ Goto(t, "grant")
    /\ UNCHANGED <<tables, job, seen, disturbed, chats, crashes>>

\* SELECT id FROM cdk_logs WHERE code=? AND steamId=?
AlreadyUsed(t) ==
    /\ pc[t] = "used"
    /\ IF job[t] \in uses THEN Done(t) ELSE Goto(t, "grant") /\ UNCHANGED <<job, seen>>
    /\ UNCHANGED <<tables, disturbed, chats, crashes>>

\* The reward.  A player who already has a slot gets nothing for a slot code,
\* and the code is used all the same.
Grant(t) ==
    /\ pc[t] = "grant"
    /\ slots' = IF job[t][1] \in SlotCodes THEN slots \cup {job[t][2]} ELSE slots
    /\ IF job[t][1] \in SlotCodes /\ job[t][2] \in slots
       THEN UNCHANGED <<grants, granted>>
       ELSE /\ grants' = [grants EXCEPT ![job[t]] = @ + 1]
            /\ granted' = [granted EXCEPT ![job[t][1]] = @ + 1]
    /\ Goto(t, "count")
    /\ UNCHANGED <<status, used, expired, uses, job, seen, disturbed, chats, crashes>>

\* UPDATE cdk_codes SET usedCount=usedCount+1: nothing if the row is gone.
Count(t) ==
    /\ pc[t] = "count"
    /\ used' = IF job[t][1] \in Live THEN [used EXCEPT ![job[t][1]] = @ + 1] ELSE used
    /\ Goto(t, "log")
    /\ UNCHANGED <<status, expired, uses, slots, grants, granted, job, seen, disturbed, chats, crashes>>

\* INSERT INTO cdk_logs.
LogUse(t) ==
    /\ pc[t] = "log"
    /\ uses' = uses \cup {job[t]}
    /\ Done(t)
    /\ UNCHANGED <<status, used, expired, slots, grants, granted, disturbed, chats, crashes>>

Crash ==
    /\ crashes < MaxCrashes
    /\ \E t \in Threads : pc[t] # "idle"
    /\ pc' = [t \in Threads |-> "idle"]
    /\ job' = [t \in Threads |-> NoJob]
    /\ seen' = [t \in Threads |-> 0]
    /\ crashes' = crashes + 1
    /\ disturbed' = disturbed \cup UnderWay
    /\ UNCHANGED <<tables, chats>>

Step(t) == Find(t) \/ Check(t) \/ AlreadyUsed(t) \/ Grant(t) \/ Count(t) \/ LogUse(t)

Next ==
    \/ \E c \in Codes : Generate(c) \/ Delete(c) \/ Expire(c)
    \/ \E t \in Threads : Step(t) \/ \E j \in Jobs : Chat(t, j)
    \/ Crash

Spec == Init /\ [][Next]_vars

--------------------------------------------------------------------------------
TypeOK ==
    /\ status \in [Codes -> {"none", "live", "deleted"}] /\ expired \subseteq Codes
    /\ used \in [Codes -> Nat]
    /\ uses \subseteq Jobs /\ slots \subseteq Players
    /\ grants \in [Jobs -> Nat] /\ granted \in [Codes -> Nat]
    /\ pc \in [Threads -> Phases]
    /\ job \in [Threads -> Jobs \cup {NoJob}]
    /\ \A t \in Threads : pc[t] # "idle" => job[t] \in Jobs
    /\ seen \in [Threads -> Nat]
    /\ disturbed \subseteq Codes
    /\ chats \in 0..MaxChats /\ crashes \in 0..MaxCrashes

\* A code that is redeemed by one thread at a time is good for maxUses rewards.
WithinMaxUses == \A c \in Codes \ disturbed : granted[c] <= MaxUses[c]

\* ... and for one per player, whatever is done to the codes between the checks.
OncePerPlayer == \A j \in Jobs : j[1] \notin disturbed => grants[j] <= 1

\* How far concurrency and crashes can stretch maxUses: while the count is
\* short of the limit every thread can be past the check once, and the rewards
\* of a crash are the ones its threads had granted and not counted.
OverrunBounded ==
    \A c \in Codes : granted[c] <= MaxUses[c] + Cardinality(Threads) * (crashes + 1) - 1

\* Every use that is counted is logged, or about to be; a log entry was counted
\* while its code had a row.  So the count never falls behind the distinct uses
\* of a code, however the threads interleave.
CountCoversUses ==
    \A c \in Live : used[c] >= Cardinality({j \in uses : j[1] = c})

\* The uses of a code and its limit: exact while one thread at a time redeems
\* it, bounded otherwise, and counted in any case.
UsesBounded == TypeOK /\ WithinMaxUses /\ OverrunBounded /\ CountCoversUses
================================================================================

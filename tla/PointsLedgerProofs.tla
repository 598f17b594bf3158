--------------------------- MODULE PointsLedgerProofs ---------------------------
(***************************************************************************)
(* What PointsLedger guarantees for every set of threads, servers and       *)
(* players, all amounts and all bounds.                                     *)
(***************************************************************************)
EXTENDS PointsLedger, FiniteSetTheorems, TLAPS

--------------------------------------------------------------------------------
(* Type correctness.                                                        *)

\* The calls a thread can begin are well-formed jobs.
LEMMA CallsType == Calls \subseteq Jobs
<1> SUFFICES ASSUME NEW c \in Calls PROVE c \in Jobs
  OBVIOUS
<1>1. Keys \subseteq LogKeys
  BY DEF Keys, LogKeys
<1>2. CASE c \in [op : {"add", "chat"} \cap Writers, key : Keys, amount : AddAmounts]
  BY <1>1, <1>2, LedgerAssumption DEF Jobs, CallOps
<1>3. CASE c \in [op : {"adjust"} \cap Writers, key : LogKeys, amount : AddAmounts]
  BY <1>3, LedgerAssumption DEF Jobs, CallOps
<1>4. CASE c \in [op : {"deduct"} \cap Writers, key : Keys, amount : DeductAmounts]
  <2>1. DeductAmounts \subseteq Int
    BY LedgerAssumption
  <2> QED
    BY <1>1, <1>4, <2>1 DEF Jobs, CallOps
<1>5. CASE c \in [op : {"cdk"} \cap Writers, key : Keys, amount : GrantAmounts]
  BY <1>1, <1>5, LedgerAssumption DEF Jobs, CallOps
<1> QED
  BY <1>2, <1>3, <1>4, <1>5 DEF Calls

\* What a call adds to a balance, and to the earned total, is a number.
LEMMA DeltaType ==
  ASSUME NEW c \in Jobs
  PROVE  Delta(c) \in Int /\ Earned(c) \in Int
  BY DEF Jobs, Delta, Earned, Positive

\* TypeOK is inductive.
LEMMA TypeInduction == TypeOK /\ [Next]_vars => TypeOK'
<1> SUFFICES ASSUME TypeOK, [Next]_vars PROVE TypeOK'
  OBVIOUS
<1> USE LedgerAssumption DEF TypeOK, Phases
<1>1. ASSUME NEW t \in Threads, Begin(t) PROVE TypeOK'
  <2>1. PICK c \in Calls : /\ job' = [job EXCEPT ![t] = c]
                           /\ pc' = [pc EXCEPT ![t] = IF c.op \in ServiceOps THEN "lock"
                                                      ELSE "read"]
    BY <1>1 DEF Begin
  <2>2. c \in Jobs
    BY CallsType
  <2>3. started' \in 0..MaxOps
    BY <1>1 DEF Begin
  <2> QED
    BY <1>1, <2>1, <2>2, <2>3 DEF Begin
<1>2. ASSUME NEW t \in Threads, Lock(t) PROVE TypeOK'
  BY <1>2 DEF Lock
<1>3. ASSUME NEW t \in Threads, Read(t) PROVE TypeOK'
  <2>1. job[t] \in Jobs
    BY <1>3 DEF Read
  <2>2. CASE Return(t)
    BY <1>3, <2>2 DEF Read, Return
  <2>3. ASSUME NEW s \in Snaps,
               snap' = [snap EXCEPT ![t] = s],
               pc' = [pc EXCEPT ![t] = "write"],
               UNCHANGED <<mtx, job>>
        PROVE  TypeOK'
    BY <1>3, <2>1, <2>3 DEF Read
  <2>4. [at |-> job[t].key, id |-> 0, balance |-> 0] \in Snaps
    BY <2>1 DEF Jobs, Snaps
  <2>5. \A k \in Matching(job[t]) :
            [at |-> k, id |-> row[k].id, balance |-> row[k].balance] \in Snaps
    BY DEF Matching, Snaps, Rows, Keys, LogKeys
  <2> QED
    BY <1>3, <2>2, <2>3, <2>4, <2>5 DEF Read
<1>4. ASSUME NEW t \in Threads, Write(t) PROVE TypeOK'
  <2> DEFINE c == job[t]
             s == snap[t]
  <2>1. c \in Jobs /\ s \in Snaps
    BY <1>4 DEF Write
  <2>2. row' \in [Keys -> Rows]
    <3>1. CASE UpdateRow(c, s)
      <4>1. Delta(c) \in Int /\ Earned(c) \in Int /\ s.balance \in Int /\ s.id \in Nat
        BY <2>1, DeltaType DEF Snaps
      <4>2. ASSUME NEW r \in Rows
            PROVE  [id |-> s.id,
                    balance |-> (IF c.op \in AbsoluteOps THEN s.balance ELSE r.balance)
                                + Delta(c),
                    earned |-> r.earned + Earned(c)] \in Rows
        BY <4>1 DEF Rows
      <4> QED
        BY <3>1, <4>2 DEF UpdateRow
    <3>2. CASE InsertRow(c)
      BY <2>1, <3>2 DEF InsertRow, Rows, Jobs, Positive
    <3> QED
      BY <1>4, <3>1, <3>2 DEF Write
  <2> QED
    BY <1>4, <2>1, <2>2 DEF Write
<1>5. ASSUME NEW t \in Threads, AppendLog(t) PROVE TypeOK'
  <2>1. job[t] \in Jobs
    BY <1>5 DEF AppendLog
  <2>2. logged' \in [LogKeys -> Int]
    BY <1>5, <2>1, DeltaType DEF AppendLog, Jobs
  <2> QED
    BY <1>5, <2>2 DEF AppendLog, Return
<1>6. CASE Sync
  <2>1. row' \in [Keys -> Rows]
    BY <1>6 DEF Sync, Rows
  <2> QED
    BY <1>6, <2>1 DEF Sync
<1>7. CASE Crash
  BY <1>7 DEF Crash
<1>8. CASE UNCHANGED vars
  BY <1>8 DEF vars
<1> QED
  BY <1>1, <1>2, <1>3, <1>4, <1>5, <1>6, <1>7, <1>8 DEF Next

\* Rows, log sums, locals and bounds keep their types in every interleaving.
THEOREM TypeCorrect == Spec => []TypeOK
<1>1. Init => TypeOK
  BY LedgerAssumption
  DEF Init, TypeOK, Phases, Rows, NoRow, LogKeys, Keys
<1> QED
  BY <1>1, TypeInduction, PTL DEF Spec

--------------------------------------------------------------------------------
(* The points service on its own: its mutex makes each call atomic.         *)

\* Only service calls run, and a call that is past the lock holds the mutex:
\* there is at most one.
ServiceLocked ==
    \A t \in Threads : pc[t] # "idle" =>
        /\ job[t].op \in ServiceOps
        /\ job[t].key \in Keys
        /\ job[t].amount \in IF job[t].op = "add" THEN AddAmounts ELSE DeductAmounts
        /\ pc[t] # "lock" => mtx = t

\* What a call read is still true when it writes.
SnapshotCurrent ==
    \A t \in Threads : pc[t] = "write" =>
        /\ snap[t].at = job[t].key
        /\ snap[t].id = row[job[t].key].id
        /\ snap[t].balance = row[job[t].key].balance
        /\ job[t].op = "deduct" => snap[t].id # 0 /\ snap[t].balance >= job[t].amount

\* A key without a row has nothing to its name.
NoRowNoBalance == \A k \in Keys : row[k].id = 0 => row[k].balance = 0

ServiceInv == TypeOK /\ ServiceLocked /\ SnapshotCurrent /\ NoRowNoBalance

\* What is written but not logged of a key: the change of the call that holds
\* the mutex, if it is between its two writes.
Pending(k) ==
    IF mtx \in Threads /\ pc[mtx] = "log" /\ job[mtx].key = k THEN Delta(job[mtx]) ELSE 0

\* How far a key's balance is from what its log, and the call between its two
\* writes, explain.
Surplus(k) == row[k].balance - logged[k] - Pending(k)

\* The exact state of every ledger in every state without a crash behind it.
LedgerExact == \A k \in Keys : Surplus(k) = 0

\* The calls of a configuration with the service alone.
LEMMA ServiceCalls ==
  ASSUME Writers \subseteq ServiceOps, NEW c \in Calls
  PROVE  /\ c \in Jobs /\ c.op \in ServiceOps /\ c.key \in Keys
         /\ c.amount \in IF c.op = "add" THEN AddAmounts ELSE DeductAmounts
<1>1. c \in Jobs
  BY CallsType
<1>2. CASE c \in [op : {"add", "chat"} \cap Writers, key : Keys, amount : AddAmounts]
  BY <1>1, <1>2 DEF ServiceOps
<1>3. CASE c \in [op : {"adjust"} \cap Writers, key : LogKeys, amount : AddAmounts]
  BY <1>3 DEF ServiceOps
<1>4. CASE c \in [op : {"deduct"} \cap Writers, key : Keys, amount : DeductAmounts]
  BY <1>1, <1>4 DEF ServiceOps
<1>5. CASE c \in [op : {"cdk"} \cap Writers, key : Keys, amount : GrantAmounts]
  BY <1>5 DEF ServiceOps
<1> QED
  BY <1>2, <1>3, <1>4, <1>5 DEF Calls

\* What a service call's SELECT leaves behind: either the call returns, or the
\* snapshot is the key's row as it is.
LEMMA ServiceRead ==
  ASSUME NEW t \in Threads, Read(t), TypeOK, NoRowNoBalance,
         job[t].op \in ServiceOps, job[t].key \in Keys
  PROVE  \/ Return(t)
         \/ \E s \in Snaps :
              /\ snap' = [snap EXCEPT ![t] = s]
              /\ pc' = [pc EXCEPT ![t] = "write"]
              /\ UNCHANGED <<mtx, job>>
              /\ s.at = job[t].key
              /\ s.id = row[job[t].key].id
              /\ s.balance = row[job[t].key].balance
              /\ job[t].op = "deduct" => s.id # 0 /\ s.balance >= job[t].amount
<1> DEFINE c == job[t]
           here == [at |-> c.key, id |-> row[c.key].id, balance |-> row[c.key].balance]
<1>0. /\ c \in Jobs /\ here \in Snaps /\ c.amount \in Int
      /\ row[c.key].id \in Nat /\ row[c.key].balance \in Int
  BY DEF Read, TypeOK, Jobs, Snaps, Rows, LogKeys
<1>1. Matching(c) = IF row[c.key].id # 0 THEN {c.key} ELSE {}
  BY DEF Matching, ServiceOps
<1>2. row[c.key].id = 0 => here = [at |-> c.key, id |-> 0, balance |-> 0]
  BY DEF NoRowNoBalance
<1>3. \/ Refused(c, here.id, here.balance) /\ Return(t)
      \/ /\ ~Refused(c, here.id, here.balance)
         /\ snap' = [snap EXCEPT ![t] = here]
         /\ pc' = [pc EXCEPT ![t] = "write"]
         /\ UNCHANGED <<mtx, job>>
  BY <1>1, <1>2 DEF Read
<1>4. ~Refused(c, here.id, here.balance) =>
        (c.op = "deduct" => here.id # 0 /\ here.balance >= c.amount)
  BY <1>0 DEF Refused
<1> QED
  BY <1>0, <1>3, <1>4

\* A service call's write, row by row: nobody else's row moves, and the key's
\* balance moves by the call's amount.
LEMMA ServiceWrite ==
  ASSUME NEW t \in Threads, Write(t), ServiceInv
  PROVE  /\ job[t].key \in Keys
         /\ row' = [row EXCEPT ![job[t].key] = row'[job[t].key]]
         /\ row'[job[t].key].id # 0
         /\ row'[job[t].key].balance = row[job[t].key].balance + Delta(job[t])
<1> DEFINE c == job[t]
           s == snap[t]
           k == job[t].key
<1> USE DEF ServiceInv
<1>1. /\ c \in Jobs /\ s \in Snaps /\ k \in Keys /\ c.op \in ServiceOps
      /\ s.at = k /\ s.id = row[k].id /\ s.balance = row[k].balance
      /\ c.op = "deduct" => s.id # 0
      /\ row \in [Keys -> Rows]
  BY DEF Write, TypeOK, ServiceLocked, SnapshotCurrent
<1>2. Delta(c) \in Int /\ c.amount \in Int /\ row[k] \in Rows
  BY <1>1, DeltaType DEF Jobs
<1>3. CASE s.id # 0 /\ UpdateRow(c, s)
  <2>1. row' = [row EXCEPT ![k] = [id |-> s.id, balance |-> s.balance + Delta(c),
                                   earned |-> row[k].earned + Earned(c)]]
    BY <1>1, <1>3 DEF UpdateRow, ServiceOps, AbsoluteOps
  <2> QED
    BY <1>1, <1>2, <1>3, <2>1
<1>4. CASE s.id = 0 /\ InsertRow(c)
  <2>1. row' = [row EXCEPT ![k] = [id |-> 1, balance |-> c.amount,
                                   earned |-> Positive(c.amount)]]
    BY <1>1, <1>4 DEF InsertRow, ServiceOps
  <2>2. Delta(c) = c.amount /\ row[k].balance = 0
    BY <1>1, <1>4 DEF Delta, NoRowNoBalance
  <2>3. row'[k] = [id |-> 1, balance |-> c.amount, earned |-> Positive(c.amount)]
    BY <1>1, <2>1
  <2>4. row'[k].balance = row[k].balance + Delta(c)
    BY <1>2, <2>2, <2>3
  <2>5. row' = [row EXCEPT ![k] = row'[k]]
    BY <2>1, <2>3
  <2>6. row'[k].id # 0
    BY <2>3
  <2> QED
    BY <1>1, <2>4, <2>5, <2>6
<1> QED
  BY <1>1, <1>3, <1>4 DEF Write

\* The mutex keeps every snapshot current: ServiceInv is inductive when only
\* the service writes, crashes included.
LEMMA ServiceInduction ==
  ASSUME Writers \subseteq ServiceOps
  PROVE  ServiceInv /\ [Next]_vars => ServiceInv'
<1> SUFFICES ASSUME ServiceInv, [Next]_vars PROVE ServiceInv'
  OBVIOUS
<1> USE DEF ServiceInv
<1>0. TypeOK'
  BY TypeInduction
<1> USE DEF TypeOK
<1>1. ASSUME NEW t \in Threads, Begin(t) PROVE ServiceInv'
  <2>1. PICK c \in Calls : /\ job' = [job EXCEPT ![t] = c]
                           /\ pc' = [pc EXCEPT ![t] = IF c.op \in ServiceOps THEN "lock"
                                                      ELSE "read"]
    BY <1>1 DEF Begin
  <2>2. /\ c \in Jobs /\ c.op \in ServiceOps /\ c.key \in Keys
        /\ c.amount \in IF c.op = "add" THEN AddAmounts ELSE DeductAmounts
    BY ServiceCalls
  <2>3. ServiceLocked'
    BY <1>1, <2>1, <2>2 DEF Begin, ServiceLocked
  <2>4. SnapshotCurrent'
    BY <1>1, <2>1, <2>2 DEF Begin, SnapshotCurrent
  <2> QED
    BY <1>0, <1>1, <2>3, <2>4 DEF Begin, NoRowNoBalance
<1>2. ASSUME NEW t \in Threads, Lock(t) PROVE ServiceInv'
  <2>1. ServiceLocked'
    BY <1>2, LedgerAssumption DEF Lock, ServiceLocked
  <2>2. SnapshotCurrent'
    BY <1>2 DEF Lock, SnapshotCurrent
  <2> QED
    BY <1>0, <1>2, <2>1, <2>2 DEF Lock, NoRowNoBalance
<1>3. ASSUME NEW t \in Threads, Read(t) PROVE ServiceInv'
  <2>1. job[t].op \in ServiceOps /\ job[t].key \in Keys
    BY <1>3 DEF Read, ServiceLocked
  <2>2. UNCHANGED row
    BY <1>3 DEF Read
  <2>3. CASE Return(t)
    <3>1. ServiceLocked'
      BY <1>3, <2>3 DEF Read, Return, ServiceLocked
    <3>2. SnapshotCurrent'
      BY <2>2, <2>3 DEF Return, SnapshotCurrent
    <3> QED
      BY <1>0, <2>2, <3>1, <3>2 DEF NoRowNoBalance
  <2>4. ASSUME NEW s \in Snaps,
               snap' = [snap EXCEPT ![t] = s],
               pc' = [pc EXCEPT ![t] = "write"],
               UNCHANGED <<mtx, job>>,
               s.at = job[t].key, s.id = row[job[t].key].id,
               s.balance = row[job[t].key].balance,
               job[t].op = "deduct" => s.id # 0 /\ s.balance >= job[t].amount
        PROVE  ServiceInv'
    <3>1. ServiceLocked'
      BY <1>3, <2>4 DEF Read, ServiceLocked
    <3>2. SnapshotCurrent'
      BY <2>2, <2>4 DEF SnapshotCurrent
    <3> QED
      BY <1>0, <2>2, <3>1, <3>2 DEF NoRowNoBalance
  <2> QED
    BY <1>3, <2>1, <2>3, <2>4, ServiceRead
<1>4. ASSUME NEW t \in Threads, Write(t) PROVE ServiceInv'
  <2>1. /\ job[t].key \in Keys
        /\ row' = [row EXCEPT ![job[t].key] = row'[job[t].key]]
        /\ row'[job[t].key].id # 0
    BY <1>4, ServiceWrite
  <2>2. ServiceLocked'
    BY <1>4 DEF Write, ServiceLocked
  <2>3. \A u \in Threads : pc'[u] = "write" => FALSE
    BY <1>4 DEF Write, ServiceLocked
  <2>4. SnapshotCurrent'
    BY <2>3 DEF SnapshotCurrent
  <2>5. NoRowNoBalance'
    BY <2>1 DEF NoRowNoBalance
  <2> QED
    BY <1>0, <2>2, <2>4, <2>5
<1>5. ASSUME NEW t \in Threads, AppendLog(t) PROVE ServiceInv'
  <2>1. ServiceLocked'
    BY <1>5 DEF AppendLog, Return, ServiceLocked
  <2>2. SnapshotCurrent'
    BY <1>5 DEF AppendLog, Return, SnapshotCurrent
  <2> QED
    BY <1>0, <1>5, <2>1, <2>2 DEF AppendLog, NoRowNoBalance
<1>6. CASE Sync
  BY <1>6 DEF Sync, ServiceOps
<1>7. CASE Crash
  BY <1>0, <1>7 DEF Crash, ServiceLocked, SnapshotCurrent, NoRowNoBalance
<1>8. CASE UNCHANGED vars
  BY <1>0, <1>8 DEF vars, ServiceLocked, SnapshotCurrent, NoRowNoBalance
<1> QED
  BY <1>1, <1>2, <1>3, <1>4, <1>5, <1>6, <1>7, <1>8 DEF Next

\* Every initial state satisfies the invariants.
LEMMA ServiceInit == Init => ServiceInv /\ LedgerExact
<1> SUFFICES ASSUME Init PROVE ServiceInv /\ LedgerExact
  OBVIOUS
<1>1. TypeOK
  BY LedgerAssumption DEF Init, TypeOK, Phases, Rows, NoRow, LogKeys, Keys
<1>2. \A k \in Keys : k \in LogKeys
  BY DEF Keys, LogKeys
<1>3. \A k \in Keys : row[k].balance = logged[k]
  BY <1>2 DEF Init, NoRow
<1>4. \A k \in Keys : Pending(k) = 0
  BY DEF Init, Pending
<1>5. NoRowNoBalance
  BY DEF Init, NoRow, NoRowNoBalance
<1> QED
  BY <1>1, <1>2, <1>3, <1>4, <1>5
  DEF Init, ServiceInv, ServiceLocked, SnapshotCurrent, LedgerExact, Surplus, TypeOK, Rows

\* What a call writes, its log entry will add: an integer.
LEMMA PendingType ==
  ASSUME TypeOK, NEW k \in Keys
  PROVE  Pending(k) \in Int /\ row[k].balance \in Int /\ logged[k] \in Int
<1>1. row[k].balance \in Int /\ logged[k] \in Int
  BY DEF TypeOK, Rows, Keys, LogKeys
<1>2. CASE mtx \in Threads /\ pc[mtx] = "log"
  <2>1. Delta(job[mtx]) \in Int
    BY <1>2, DeltaType DEF TypeOK
  <2> QED
    BY <1>1, <2>1 DEF Pending
<1>3. CASE ~(mtx \in Threads /\ pc[mtx] = "log")
  BY <1>1, <1>3 DEF Pending
<1> QED
  BY <1>2, <1>3

\* While the service writes alone, no step but a crash moves a ledger away from
\* its log: the UPDATE adds what the log entry will, and the entry takes over
\* what the UPDATE left pending.
LEMMA SurplusKept ==
  ASSUME Writers \subseteq ServiceOps
  PROVE  ServiceInv /\ [Next]_vars /\ ~Crash => \A k \in Keys : Surplus(k)' = Surplus(k)
<1> SUFFICES ASSUME ServiceInv, [Next]_vars, ~Crash, NEW k \in Keys
             PROVE  Surplus(k)' = Surplus(k)
  OBVIOUS
<1> USE DEF ServiceInv
<1>0. /\ \A t \in Threads : t # NoThread
      /\ k \in LogKeys /\ row[k].balance \in Int /\ logged[k] \in Int
      /\ pc \in [Threads -> Phases] /\ job \in [Threads -> Jobs \cup {NoJob}]
  BY LedgerAssumption DEF TypeOK, Rows, Keys, LogKeys
<1>1. ASSUME NEW t \in Threads, Begin(t) PROVE Surplus(k)' = Surplus(k)
  <2>1. PICK c \in Calls : /\ job' = [job EXCEPT ![t] = c]
                           /\ pc' = [pc EXCEPT ![t] = IF c.op \in ServiceOps THEN "lock"
                                                      ELSE "read"]
    BY <1>1 DEF Begin
  <2>2. Pending(k)' = Pending(k)
    BY <1>0, <1>1, <2>1 DEF Begin, Pending
  <2> QED
    BY <1>1, <2>2 DEF Begin, Surplus
<1>2. ASSUME NEW t \in Threads, Lock(t) PROVE Surplus(k)' = Surplus(k)
  <2>1. Pending(k) = 0 /\ Pending(k)' = 0
    BY <1>0, <1>2, LedgerAssumption DEF Lock, Pending
  <2> QED
    BY <1>2, <2>1 DEF Lock, Surplus
<1>3. ASSUME NEW t \in Threads, Read(t) PROVE Surplus(k)' = Surplus(k)
  <2>1. mtx = t
    BY <1>3 DEF Read, ServiceLocked
  <2>2. pc'[t] # "log" /\ (mtx' = t \/ mtx' = NoThread)
    BY <1>0, <1>3, <2>1 DEF Read, Return
  <2>3. Pending(k) = 0 /\ Pending(k)' = 0
    BY <1>3, <2>1, <2>2, LedgerAssumption DEF Read, Pending
  <2> QED
    BY <1>3, <2>3 DEF Read, Surplus
<1>4. ASSUME NEW t \in Threads, Write(t) PROVE Surplus(k)' = Surplus(k)
  <2> DEFINE c == job[t]
  <2>1. /\ mtx = t /\ mtx' = t /\ pc[t] = "write" /\ pc'[t] = "log" /\ c \in Jobs
        /\ UNCHANGED <<job, logged>>
    BY <1>0, <1>4 DEF Write, ServiceLocked, TypeOK
  <2>2. /\ c.key \in Keys
        /\ row' = [row EXCEPT ![c.key] = row'[c.key]]
        /\ row'[c.key].balance = row[c.key].balance + Delta(c)
    BY <1>4, ServiceWrite
  <2>3. Pending(k) = 0 /\ Delta(c) \in Int
    BY <2>1, DeltaType DEF Pending
  <2>4. Pending(k)' = IF c.key = k THEN Delta(c) ELSE 0
    BY <2>1 DEF Pending
  <2>5. row'[k].balance = row[k].balance + (IF c.key = k THEN Delta(c) ELSE 0)
    BY <1>0, <2>2, <2>3 DEF TypeOK
  <2> QED
    BY <1>0, <2>1, <2>3, <2>4, <2>5 DEF Surplus
<1>5. ASSUME NEW t \in Threads, AppendLog(t) PROVE Surplus(k)' = Surplus(k)
  <2> DEFINE c == job[t]
  <2>1. /\ mtx = t /\ mtx' = NoThread /\ pc[t] = "log" /\ c \in Jobs
        /\ UNCHANGED row /\ logged' = [logged EXCEPT ![c.key] = @ + Delta(c)]
    BY <1>5 DEF AppendLog, Return, ServiceLocked, TypeOK
  <2>2. Delta(c) \in Int
    BY <2>1, DeltaType
  <2>3. Pending(k) = IF c.key = k THEN Delta(c) ELSE 0
    BY <2>1 DEF Pending
  <2>4. Pending(k)' = 0
    BY <2>1, LedgerAssumption DEF Pending
  <2>5. logged'[k] = logged[k] + (IF c.key = k THEN Delta(c) ELSE 0)
    BY <1>0, <2>1, <2>2 DEF TypeOK
  <2> QED
    BY <1>0, <2>1, <2>2, <2>3, <2>4, <2>5 DEF Surplus
<1>6. CASE Sync
  BY <1>6 DEF Sync, ServiceOps
<1>7. CASE UNCHANGED vars
  BY <1>7 DEF vars, Surplus, Pending
<1> QED
  BY <1>1, <1>2, <1>3, <1>4, <1>5, <1>6, <1>7 DEF Next

\* While the service writes alone, every step but a crash keeps every ledger
\* exact.
LEMMA LedgerInduction ==
  ASSUME Writers \subseteq ServiceOps
  PROVE  ServiceInv /\ LedgerExact /\ [Next]_vars /\ ~Crash => LedgerExact'
  BY SurplusKept DEF LedgerExact

\* A state without a crash behind it is reached by a step that is no crash, from
\* another such state.
LEMMA CrashesGrow ==
  TypeOK /\ [Next]_vars /\ crashes' = 0 => crashes = 0 /\ ~Crash
<1> SUFFICES ASSUME TypeOK, [Next]_vars, crashes' = 0 PROVE crashes = 0 /\ ~Crash
  OBVIOUS
<1>1. crashes \in Nat
  BY LedgerAssumption DEF TypeOK
<1>2. ~Crash
  BY <1>1 DEF Crash
<1>3. UNCHANGED crashes
  BY <1>2 DEF Next, Begin, Lock, Read, Write, AppendLog, Sync, vars
<1> QED
  BY <1>2, <1>3

\* The exact ledger shows wherever no change of the key is waiting for its log
\* entry.
LEMMA LedgerExactBalanced == TypeOK /\ LedgerExact => LedgerBalanced
<1> SUFFICES ASSUME TypeOK, LedgerExact, NEW k \in Keys, ~Unlogged(k)
             PROVE  row[k].balance = logged[k]
  BY DEF LedgerBalanced
<1>1. Pending(k) = 0
  BY DEF Pending, Unlogged
<1>2. Surplus(k) = 0 /\ row[k].balance \in Int /\ logged[k] \in Int
  BY PendingType DEF LedgerExact
<1> QED
  BY <1>1, <1>2 DEF Surplus

\* The ledgers that a crash has torn apart, whatever is under way now.
Torn == {k \in Keys : Surplus(k) # 0}

\* A crash adds at most the ledger of the call that holds the mutex: only a call
\* between its two writes has something pending.
LEMMA CrashTears ==
  ASSUME TypeOK, ServiceLocked, Crash
  PROVE  \E k : Torn' \subseteq Torn \cup {k}
<1>1. \A k \in Keys : Pending(k)' = 0
  BY LedgerAssumption DEF Crash, Pending
<1>2. ASSUME NEW k \in Torn', k # job[mtx].key PROVE k \in Torn
  <2>1. k \in Keys /\ Pending(k) = 0 /\ UNCHANGED <<row, logged>>
    BY <1>2 DEF Torn, Pending, Crash
  <2> QED
    BY <1>1, <1>2, <2>1 DEF Torn, Surplus
<1> QED
  BY <1>2

\* With PointsService as the only writer, each crash of the process leaves at
\* most one player's ledger torn, wherever in the service's calls it happens: the
\* ledgers that do not add up, and wait for no log entry, are no more than the
\* crashes.  What is torn by an earlier crash is never torn further.
THEOREM ServiceCrashTearsOne ==
  ASSUME Writers \subseteq ServiceOps
  PROVE  Spec => []CrashTearsOneLedger
<1> DEFINE TornInv == ServiceInv /\ IsFiniteSet(Torn) /\ Cardinality(Torn) <= crashes
<1>1. Init => TornInv
  <2> SUFFICES ASSUME Init PROVE TornInv
    OBVIOUS
  <2>1. Torn = {} /\ crashes = 0 /\ ServiceInv
    BY ServiceInit DEF Torn, LedgerExact, Init
  <2> QED
    BY <2>1, FS_EmptySet
<1>2. TornInv /\ [Next]_vars => TornInv'
  <2> SUFFICES ASSUME TornInv, [Next]_vars PROVE TornInv'
    OBVIOUS
  <2>1. ServiceInv' /\ crashes \in Nat /\ TypeOK /\ ServiceLocked
    BY ServiceInduction, LedgerAssumption DEF ServiceInv, TypeOK
  <2>2. CASE Crash
    <3>1. PICK k : Torn' \subseteq Torn \cup {k}
      BY <2>1, <2>2, CrashTears
    <3>0. Cardinality(Torn) \in Nat
      BY FS_CardinalityType
    <3>2. /\ IsFiniteSet(Torn \cup {k}) /\ Cardinality(Torn \cup {k}) <= crashes + 1
          /\ Cardinality(Torn \cup {k}) \in Nat
      BY <2>1, <3>0, FS_AddElement
    <3>3. IsFiniteSet(Torn') /\ Cardinality(Torn') <= Cardinality(Torn \cup {k})
      BY <3>1, <3>2, FS_Subset
    <3>4. Cardinality(Torn') \in Nat /\ crashes' = crashes + 1
      BY <2>2, <3>3, FS_CardinalityType DEF Crash
    <3> QED
      BY <2>1, <3>2, <3>3, <3>4
  <2>3. CASE ~Crash
    <3>1. Torn' = Torn
      BY <2>3, SurplusKept DEF Torn
    <3>2. UNCHANGED crashes
      BY <2>3 DEF Next, Begin, Lock, Read, Write, AppendLog, Sync, vars
    <3> QED
      BY <2>1, <3>1, <3>2
  <2> QED
    BY <2>2, <2>3
<1>3. TornInv => CrashTearsOneLedger
  <2> SUFFICES ASSUME TornInv PROVE CrashTearsOneLedger
    OBVIOUS
  <2> DEFINE Open == {k \in Keys : ~Unlogged(k) /\ row[k].balance # logged[k]}
  <2>1. ASSUME NEW k \in Open PROVE k \in Torn
    <3>1. Pending(k) = 0
      BY DEF Pending, Unlogged
    <3> QED
      BY <3>1, PendingType DEF Torn, Surplus, ServiceInv
  <2>2. Open \in SUBSET Torn
    BY <2>1
  <2>3. IsFiniteSet(Open) /\ Cardinality(Open) <= Cardinality(Torn)
    BY <2>2, FS_Subset
  <2>4. Cardinality(Open) \in Nat /\ Cardinality(Torn) \in Nat /\ crashes \in Nat
    BY <2>3, FS_CardinalityType, LedgerAssumption DEF ServiceInv, TypeOK
  <2> QED
    BY <2>3, <2>4 DEF CrashTearsOneLedger
<1> QED
  BY <1>1, <1>2, <1>3, PTL DEF Spec

\* With PointsService as the only writer, and until the process crashes, a
\* balance is the sum of its log whenever no call of that player is between its
\* two writes.
THEOREM ServiceKeepsLedger ==
  ASSUME Writers \subseteq ServiceOps
  PROVE  Spec => []LedgerBalanced
<1> DEFINE LedgerInv == ServiceInv /\ (crashes = 0 => LedgerExact)
<1>1. Init => LedgerInv
  BY ServiceInit
<1>2. LedgerInv /\ [Next]_vars => LedgerInv'
  <2> SUFFICES ASSUME LedgerInv, [Next]_vars, crashes' = 0 PROVE ServiceInv' /\ LedgerExact'
    BY ServiceInduction
  <2>1. crashes = 0 /\ ~Crash
    BY CrashesGrow DEF ServiceInv
  <2> QED
    BY <2>1, ServiceInduction, LedgerInduction
<1>3. LedgerInv => LedgerBalanced
  BY LedgerExactBalanced DEF ServiceInv, LedgerBalanced
<1> QED
  BY <1>1, <1>2, <1>3, PTL DEF Spec

--------------------------------------------------------------------------------
(* Refinement: the service implements the atomic account.                   *)

\* With PointsService as the only writer, each call changes its key's balance
\* in one step, a deduction only when the balance covers it at that step, and
\* nothing else, not even a crash, changes any balance.
THEOREM ServiceImplementsAccount ==
  ASSUME Writers \subseteq ServiceOps
  PROVE  Spec => AccountSpec
<1> DEFINE account == [k \in Keys |-> row[k].balance]
<1>1. Init => Account!AccountInit
  <2> SUFFICES ASSUME Init PROVE account \in [Keys -> Int]
    BY DEF Account!AccountInit
  <2> QED
    BY LedgerAssumption DEF Init, NoRow
<1>2. ServiceInv /\ [Next]_vars => [Account!AccountNext]_account
  <2> SUFFICES ASSUME ServiceInv, Next
               PROVE  Account!AccountNext \/ UNCHANGED account
    BY DEF vars
  <2> USE DEF ServiceInv
  <2>1. ASSUME NEW t \in Threads, Begin(t) \/ Lock(t) \/ Read(t) \/ AppendLog(t)
        PROVE  UNCHANGED account
    BY <2>1 DEF Begin, Lock, Read, AppendLog
  <2>2. ASSUME NEW t \in Threads, Write(t) PROVE Account!AccountNext
    <3> DEFINE c == job[t]
               k == job[t].key
    <3>1. /\ c \in Jobs /\ k \in Keys /\ c.op \in ServiceOps
          /\ c.amount \in IF c.op = "add" THEN AddAmounts ELSE DeductAmounts
          /\ row \in [Keys -> Rows]
          /\ c.op = "deduct" => row[k].balance >= c.amount
      BY <2>2 DEF Write, TypeOK, ServiceLocked, SnapshotCurrent
    <3>2. account' = [account EXCEPT ![k] = row[k].balance + Delta(c)]
      <4>1. /\ row' = [row EXCEPT ![k] = row'[k]]
            /\ row'[k].balance = row[k].balance + Delta(c)
        BY <2>2, ServiceWrite
      <4>2. \A j \in Keys \ {k} : row'[j] = row[j]
        BY <3>1, <4>1
      <4> QED
        BY <3>1, <4>1, <4>2
    <3>3. account[k] = row[k].balance
      BY <3>1
    <3>4. CASE c.op = "add"
      <4>1. Account!Credit(k, c.amount)
        BY <3>2, <3>3, <3>4 DEF Account!Credit, Delta
      <4> QED
        BY <3>1, <3>4, <4>1 DEF Account!AccountNext, Account!Credit
    <3>5. CASE c.op = "deduct"
      <4>1. c.amount \in Int /\ row[k].balance \in Int
        BY <3>1 DEF Jobs, Rows
      <4>2. Account!Debit(k, c.amount)
        BY <3>1, <3>2, <3>3, <3>5, <4>1 DEF Account!Debit, Delta
      <4> QED
        BY <3>1, <3>5, <4>2 DEF Account!AccountNext, Account!Debit
    <3> QED
      BY <3>1, <3>4, <3>5 DEF ServiceOps
  <2>3. CASE Sync
    BY <2>3 DEF Sync, ServiceOps
  <2>4. CASE Crash
    BY <2>4 DEF Crash
  <2> QED
    BY <2>1, <2>2, <2>3, <2>4 DEF Next
<1>3. ServiceInv /\ [Next]_vars => ServiceInv'
  BY ServiceInduction
<1> QED
  BY ServiceInit, <1>1, <1>2, <1>3, PTL DEF Spec, AccountSpec, Account!AccountSpec

--------------------------------------------------------------------------------
(* All writers but the chat commands, in every interleaving.                *)

\* The calls that never take from lifetimeEarned.
EarningCalls ==
    \A t \in Threads : pc[t] # "idle" =>
        /\ job[t].op # "chat"
        /\ job[t].op \in {"deduct", "cdk"} => job[t].amount >= 0

\* However stale, a snapshot of an incarnation of a row that still exists
\* never shows more than that row has earned since; and an id, once replaced,
\* does not come back.
SnapshotWithinEarned ==
    \A t \in Threads : pc[t] = "write" /\ snap[t].id # 0 =>
        /\ snap[t].at \in Keys
        /\ snap[t].id <= row[snap[t].at].id
        /\ snap[t].id = row[snap[t].at].id => snap[t].balance <= row[snap[t].at].earned

EarnedInv == TypeOK /\ BalanceWithinEarned /\ EarningCalls /\ SnapshotWithinEarned

\* One row only moves upwards: its id, and, while the id is the same, its
\* earned total.
Grown(k) ==
    /\ row[k].id <= row'[k].id
    /\ row[k].id = row'[k].id => row[k].earned <= row'[k].earned

\* The calls of a configuration without chat commands and without CDK codes
\* that take points.
LEMMA EarningCallsOnly ==
  ASSUME "chat" \notin Writers, GrantAmounts \subseteq Nat, NEW c \in Calls
  PROVE  c.op # "chat" /\ (c.op \in {"deduct", "cdk"} => c.amount >= 0)
<1>1. CASE c \in [op : {"add", "chat"} \cap Writers, key : Keys, amount : AddAmounts]
  BY <1>1
<1>2. CASE c \in [op : {"adjust"} \cap Writers, key : LogKeys, amount : AddAmounts]
  BY <1>2
<1>3. CASE c \in [op : {"deduct"} \cap Writers, key : Keys, amount : DeductAmounts]
  <2>1. \A a \in DeductAmounts : a >= 0
    BY LedgerAssumption
  <2> QED
    BY <1>3, <2>1
<1>4. CASE c \in [op : {"cdk"} \cap Writers, key : Keys, amount : GrantAmounts]
  <2>1. \A a \in GrantAmounts : a >= 0
    OBVIOUS
  <2> QED
    BY <1>4, <2>1
<1> QED
  BY <1>1, <1>2, <1>3, <1>4 DEF Calls

\* A write keeps the balance within the earned total, and the row grows.
LEMMA EarningWrite ==
  ASSUME NEW t \in Threads, Write(t), EarnedInv
  PROVE  \A k \in Keys : row'[k].balance <= row'[k].earned /\ Grown(k)
<1> DEFINE c == job[t]
           s == snap[t]
<1> USE DEF EarnedInv
<1>1. /\ c \in Jobs /\ s \in Snaps /\ c.op # "chat"
      /\ c.op \in {"deduct", "cdk"} => c.amount >= 0
      /\ row \in [Keys -> Rows]
  BY DEF Write, TypeOK, EarningCalls
<1>2. /\ c.amount \in Int /\ Delta(c) \in Int /\ Earned(c) \in Nat
      /\ Delta(c) <= Earned(c) /\ c.amount <= Positive(c.amount)
  BY <1>1 DEF Jobs, Delta, Earned, Positive
<1>3. ASSUME NEW k \in Keys, row'[k] = row[k]
      PROVE  row'[k].balance <= row'[k].earned /\ Grown(k)
  BY <1>1, <1>3 DEF BalanceWithinEarned, Grown, Rows
<1>4. CASE s.id # 0 /\ UpdateRow(c, s)
  <2> DEFINE k == s.at
             b == (IF c.op \in AbsoluteOps THEN s.balance ELSE row[k].balance) + Delta(c)
             e == row[k].earned + Earned(c)
  <2>1. k \in Keys
    BY <1>4 DEF Write, SnapshotWithinEarned
  <2>2. CASE row[k].id # s.id
    BY <1>1, <1>3, <1>4, <2>1, <2>2 DEF UpdateRow
  <2>3. CASE row[k].id = s.id
    <3>1. row' = [row EXCEPT ![k] = [id |-> s.id, balance |-> b, earned |-> e]]
      BY <1>1, <1>4, <2>1, <2>3 DEF UpdateRow
    <3>2. s.balance <= row[k].earned /\ row[k].balance <= row[k].earned
      BY <1>4, <2>1, <2>3 DEF Write, SnapshotWithinEarned, BalanceWithinEarned
    <3>3. s.balance \in Int /\ row[k].balance \in Int /\ row[k].earned \in Int /\ s.id \in Nat
      BY <1>1, <2>1 DEF Snaps, Rows
    <3>4. b <= e /\ row[k].earned <= e /\ b \in Int /\ e \in Int
      BY <1>2, <3>2, <3>3
    <3>5. row'[k] = [id |-> s.id, balance |-> b, earned |-> e]
      BY <1>1, <2>1, <3>1
    <3>6. row'[k].balance <= row'[k].earned /\ Grown(k)
      BY <2>3, <3>3, <3>4, <3>5 DEF Grown
    <3>7. \A j \in Keys \ {k} : row'[j] = row[j]
      BY <1>1, <3>1
    <3> QED
      BY <1>3, <3>6, <3>7
  <2> QED
    BY <2>2, <2>3
<1>5. CASE s.id = 0 /\ InsertRow(c)
  <2> DEFINE k == c.key
  <2>1. CASE k \notin Keys
    BY <1>3, <1>5, <2>1 DEF InsertRow
  <2>2. CASE k \in Keys /\ row[k].id # 0
    BY <1>1, <1>3, <1>5, <2>2 DEF InsertRow
  <2>3. CASE k \in Keys /\ row[k].id = 0
    <3>1. PICK e \in {c.amount, Positive(c.amount)} :
            row' = [row EXCEPT ![k] = [id |-> 1, balance |-> c.amount, earned |-> e]]
      BY <1>1, <1>5, <2>3 DEF InsertRow
    <3>2. c.amount <= e /\ row'[k] = [id |-> 1, balance |-> c.amount, earned |-> e]
      BY <1>1, <1>2, <2>3, <3>1
    <3>3. row'[k].balance <= row'[k].earned /\ Grown(k)
      BY <2>3, <3>2 DEF Grown
    <3>4. \A j \in Keys \ {k} : row'[j] = row[j]
      BY <1>1, <3>1
    <3> QED
      BY <1>3, <3>3, <3>4
  <2> QED
    BY <2>1, <2>2, <2>3
<1> QED
  BY <1>4, <1>5 DEF Write

\* Growing rows keep every snapshot of other threads within what was earned.
LEMMA GrownSnapshots ==
  ASSUME TypeOK, SnapshotWithinEarned, row' \in [Keys -> Rows],
         \A k \in Keys : Grown(k),
         NEW u \in Threads, pc[u] = "write", snap[u].id # 0
  PROVE  /\ snap[u].at \in Keys
         /\ snap[u].id <= row'[snap[u].at].id
         /\ snap[u].id = row'[snap[u].at].id => snap[u].balance <= row'[snap[u].at].earned
<1>1. /\ snap[u].at \in Keys
      /\ snap[u].id <= row[snap[u].at].id
      /\ snap[u].id = row[snap[u].at].id => snap[u].balance <= row[snap[u].at].earned
  BY DEF SnapshotWithinEarned
<1>2. snap[u].id \in Nat /\ snap[u].balance \in Int
  BY DEF TypeOK, Snaps
<1>3. /\ row[snap[u].at].id \in Nat /\ row[snap[u].at].earned \in Int
      /\ row'[snap[u].at].id \in Nat /\ row'[snap[u].at].earned \in Int
  BY <1>1 DEF TypeOK, Rows
<1>4. Grown(snap[u].at)
  BY <1>1
<1> QED
  BY <1>1, <1>2, <1>3, <1>4 DEF Grown

\* EarnedInv is inductive.
LEMMA EarnedInduction ==
  ASSUME "chat" \notin Writers, GrantAmounts \subseteq Nat
  PROVE  EarnedInv /\ [Next]_vars => EarnedInv'
<1> SUFFICES ASSUME EarnedInv, [Next]_vars PROVE EarnedInv'
  OBVIOUS
<1> USE DEF EarnedInv
<1>0. TypeOK'
  BY TypeInduction
<1>a. /\ pc \in [Threads -> Phases]
      /\ job \in [Threads -> Jobs \cup {NoJob}]
      /\ snap \in [Threads -> Snaps \cup {NoSnap}]
  BY DEF TypeOK
<1>1. ASSUME NEW t \in Threads, Begin(t) PROVE EarnedInv'
  <2>1. PICK c \in Calls : /\ job' = [job EXCEPT ![t] = c]
                           /\ pc' = [pc EXCEPT ![t] = IF c.op \in ServiceOps THEN "lock"
                                                      ELSE "read"]
    BY <1>1 DEF Begin
  <2>2. c.op # "chat" /\ (c.op \in {"deduct", "cdk"} => c.amount >= 0)
    BY EarningCallsOnly
  <2>3. EarningCalls'
    BY <1>a, <1>1, <2>1, <2>2 DEF Begin, EarningCalls
  <2>4. SnapshotWithinEarned'
    BY <1>a, <1>1, <2>1 DEF Begin, SnapshotWithinEarned
  <2> QED
    BY <1>0, <1>1, <2>3, <2>4 DEF Begin, BalanceWithinEarned
<1>2. ASSUME NEW t \in Threads, Lock(t) PROVE EarnedInv'
  <2>1. EarningCalls'
    BY <1>a, <1>2 DEF Lock, EarningCalls
  <2>2. SnapshotWithinEarned'
    BY <1>a, <1>2 DEF Lock, SnapshotWithinEarned
  <2> QED
    BY <1>0, <1>2, <2>1, <2>2 DEF Lock, BalanceWithinEarned
<1>3. ASSUME NEW t \in Threads, Read(t) PROVE EarnedInv'
  <2>1. UNCHANGED row /\ pc[t] = "read"
    BY <1>3 DEF Read
  <2>2. CASE Return(t)
    <3>1. EarningCalls'
      BY <1>a, <2>2 DEF Return, EarningCalls
    <3>2. SnapshotWithinEarned'
      BY <1>a, <2>1, <2>2 DEF Return, SnapshotWithinEarned
    <3> QED
      BY <1>0, <2>1, <3>1, <3>2 DEF BalanceWithinEarned
  <2>3. ASSUME NEW s,
               snap' = [snap EXCEPT ![t] = s],
               pc' = [pc EXCEPT ![t] = "write"],
               UNCHANGED <<mtx, job>>,
               s.id # 0 => /\ s.at \in Keys
                           /\ s.id = row[s.at].id
                           /\ s.balance = row[s.at].balance
        PROVE  EarnedInv'
    <3>1. EarningCalls'
      BY <1>a, <2>1, <2>3 DEF EarningCalls
    <3>2. ASSUME NEW u \in Threads, pc'[u] = "write", snap'[u].id # 0
          PROVE  /\ snap'[u].at \in Keys
                 /\ snap'[u].id <= row'[snap'[u].at].id
                 /\ snap'[u].id = row'[snap'[u].at].id
                      => snap'[u].balance <= row'[snap'[u].at].earned
      <4>1. CASE u = t
        <5>1. snap'[u] = s /\ s.at \in Keys
          BY <1>a, <2>3, <3>2, <4>1
        <5>2. row[s.at].id \in Nat /\ row[s.at].balance <= row[s.at].earned
          BY <5>1 DEF TypeOK, Rows, BalanceWithinEarned
        <5> QED
          BY <2>1, <2>3, <3>2, <5>1, <5>2
      <4>2. CASE u # t
        BY <1>a, <2>1, <2>3, <3>2, <4>2 DEF SnapshotWithinEarned
      <4> QED
        BY <4>1, <4>2
    <3> QED
      BY <1>0, <2>1, <3>1, <3>2 DEF BalanceWithinEarned, SnapshotWithinEarned
  <2>4. \A k \in Matching(job[t]) : k \in Keys
    BY DEF Matching
  <2> QED
    BY <1>3, <2>2, <2>3, <2>4 DEF Read
<1>4. ASSUME NEW t \in Threads, Write(t) PROVE EarnedInv'
  <2>1. \A k \in Keys : row'[k].balance <= row'[k].earned /\ Grown(k)
    BY <1>4, EarningWrite
  <2>2. row' \in [Keys -> Rows]
    BY <1>0 DEF TypeOK
  <2>3. /\ pc' = [pc EXCEPT ![t] = "log"]
        /\ UNCHANGED <<job, snap>>
        /\ pc[t] = "write"
    BY <1>4 DEF Write
  <2>4. EarningCalls'
    BY <1>a, <2>3 DEF EarningCalls
  <2>5. ASSUME NEW u \in Threads, pc'[u] = "write", snap[u].id # 0
        PROVE  /\ snap[u].at \in Keys
               /\ snap[u].id <= row'[snap[u].at].id
               /\ snap[u].id = row'[snap[u].at].id => snap[u].balance <= row'[snap[u].at].earned
    <3>1. pc[u] = "write"
      BY <1>a, <2>3, <2>5
    <3> QED
      BY <2>1, <2>2, <2>5, <3>1, GrownSnapshots
  <2>6. SnapshotWithinEarned'
    BY <2>3, <2>5 DEF SnapshotWithinEarned
  <2> QED
    BY <1>0, <2>1, <2>4, <2>6 DEF BalanceWithinEarned
<1>5. ASSUME NEW t \in Threads, AppendLog(t) PROVE EarnedInv'
  <2>1. EarningCalls'
    BY <1>a, <1>5 DEF AppendLog, Return, EarningCalls
  <2>2. SnapshotWithinEarned'
    BY <1>a, <1>5 DEF AppendLog, Return, SnapshotWithinEarned
  <2> QED
    BY <1>0, <1>5, <2>1, <2>2 DEF AppendLog, BalanceWithinEarned
<1>6. CASE Sync
  <2>1. PICK k \in Keys, p \in SyncPoints :
          row' = [row EXCEPT ![k] = [id |-> row[k].id + 1, balance |-> p, earned |-> p]]
    BY <1>6 DEF Sync
  <2>2. row \in [Keys -> Rows] /\ row' \in [Keys -> Rows] /\ p \in Nat
    BY <1>0, LedgerAssumption DEF TypeOK
  <2>3. row'[k] = [id |-> row[k].id + 1, balance |-> p, earned |-> p]
    BY <2>1, <2>2
  <2>4. \A j \in Keys \ {k} : row'[j] = row[j]
    BY <2>1, <2>2
  <2>5. row[k].id \in Nat /\ \A j \in Keys : row[j].id \in Nat /\ row[j].earned \in Int
    BY <2>2 DEF Rows
  <2>6. \A j \in Keys : Grown(j)
    BY <2>3, <2>4, <2>5 DEF Grown
  <2>7. BalanceWithinEarned'
    BY <2>2, <2>3, <2>4 DEF BalanceWithinEarned
  <2>8. UNCHANGED <<pc, job, snap>>
    BY <1>6 DEF Sync
  <2>9. \A u \in Threads : pc[u] = "write" /\ snap[u].id # 0 =>
          /\ snap[u].at \in Keys
          /\ snap[u].id <= row'[snap[u].at].id
          /\ snap[u].id = row'[snap[u].at].id => snap[u].balance <= row'[snap[u].at].earned
    BY <2>2, <2>6, GrownSnapshots
  <2> QED
    BY <1>0, <2>7, <2>8, <2>9 DEF EarningCalls, SnapshotWithinEarned
<1>7. CASE Crash
  BY <1>0, <1>7 DEF Crash, BalanceWithinEarned, EarningCalls, SnapshotWithinEarned
<1>8. CASE UNCHANGED vars
  BY <1>0, <1>8 DEF vars, BalanceWithinEarned, EarningCalls, SnapshotWithinEarned
<1> QED
  BY <1>1, <1>2, <1>3, <1>4, <1>5, <1>6, <1>7, <1>8 DEF Next

\* Service calls, adjust requests, CDK grants, poller replacements and crashes
\* in any interleaving lose updates but never make points up: no balance
\* exceeds what its row has earned.
THEOREM NoPointsMadeUp ==
  ASSUME "chat" \notin Writers, GrantAmounts \subseteq Nat
  PROVE  Spec => []BalanceWithinEarned
<1>1. Init => EarnedInv
  <2> SUFFICES ASSUME Init PROVE EarnedInv
    OBVIOUS
  <2>1. TypeOK
    BY LedgerAssumption DEF Init, TypeOK, Phases, Rows, NoRow, LogKeys, Keys
  <2>2. BalanceWithinEarned
    BY LedgerAssumption DEF Init, NoRow, BalanceWithinEarned
  <2> QED
    BY <2>1, <2>2 DEF Init, EarnedInv, EarningCalls, SnapshotWithinEarned
<1>2. EarnedInv /\ [Next]_vars => EarnedInv'
  BY EarnedInduction
<1>3. EarnedInv => BalanceWithinEarned
  BY DEF EarnedInv
<1> QED
  BY <1>1, <1>2, <1>3, PTL DEF Spec
================================================================================

---------------------------- MODULE EventIngestProofs ----------------------------
(***************************************************************************)
(* Theorems about EventIngest: what becomes of a log line, a flight, a player *)
(* list and a registration, for any number of threads, relays and restarts.  *)
(***************************************************************************)
EXTENDS EventIngest, FiniteSetTheorems, SequenceTheorems, WellFoundedInduction, TLAPS

--------------------------------------------------------------------------------
(* The strengthenings.                                                      *)

\* The revive of a thread that is about to score it is in the table.
ReviveFirst == \A t \in Threads : pc[t] = "score" => Line(t).n \in revives

\* The threads that are about to write a leave into row i.
Leaving(i) == {t \in Threads : pc[t] = "leave" /\ job[t].row = i}

\* A flight without its leave has none yet, and the leaves it has and will have
\* are of different threads.
LeavesFit(i) ==
    /\ opLogs[i].open => opLogs[i].leaves = <<>>
    /\ Len(opLogs[i].leaves) + Cardinality(Leaving(i)) <= Cardinality(Threads)

LeavesCounted == \A i \in DOMAIN opLogs : LeavesFit(i)

\* The copies of a text stamped from v on and logged within a window of it.
Copies(text, v) ==
    {x \in chatLogs : x.text = text /\ x.stamp >= v /\ x.at < v + Window + Zone}

\* The threads that are about to log a text, having found no copy of it.
Logging(text) == {t \in Threads : pc[t] = "log" /\ Line(t).text = text}

\* While the first copy still counts as recent, every later one comes from a
\* thread that had looked before it.
CopiesFit(text, v) ==
    /\ Cardinality(Copies(text, v)) <= Cardinality(Threads)
    /\ Copies(text, v) # {} /\ now < v + Window + Zone =>
          Cardinality(Copies(text, v)) + Cardinality(Logging(text)) <= Cardinality(Threads)

CopiesCounted == \A text \in Texts, v \in Nat : CopiesFit(text, v)

\* A message of the text that counts as recent at the given time was logged.
Logged(text, time) == \E r \in chatLogs : r.text = text /\ r.stamp + Window + Zone > time

\* What a thread has done with its line so far.
LineServed ==
    \A t \in Threads :
        /\ pc[t] \in {"show", "plugins"} /\ Line(t).type = "chat" =>
              Logged(Line(t).text, job[t].start)
        /\ pc[t] = "plugins" => Line(t).n \in shown
        /\ pc[t] = "score" => Line(t).type = "revive"

\* A thread that handles a registration.
Asking(t) == pc[t] \in {"newkey", "answer"}

\* A relay that is not crossed has one registration under way at a time.
OneAtATime ==
    \A t \in Threads : Asking(t) /\ job[t].sender \notin crossed =>
        /\ \A u \in Threads : Asking(u) /\ job[u].sender = job[t].sender => u = t
        /\ \A e \in trial : e.sender # job[t].sender

\* A key sent to a relay: if it is the panel's, the relay has asked for it; and if what
\* the relay has asked for is still the panel's key, it is this one.
KeyFits(x, s, k) ==
    /\ \A u \in Servers : key[u] = k => asker[u] = x
    /\ x \notin crossed => \A u \in Servers : asker[u] = x => u = s /\ k = key[u]

\* What the relays have been sent and have saved.
KeysFit ==
    /\ \A t \in Threads : pc[t] = "newkey" /\ job[t].sender \notin crossed =>
         \A u \in Servers : asker[u] = job[t].sender => u = job[t].server
    /\ \A t \in Threads : pc[t] = "answer" => KeyFits(job[t].sender, job[t].server, job[t].answer)
    /\ \A e \in trial : KeyFits(e.sender, e.server, e.key)
    /\ \A x \in Relays, u \in Servers : saved[x] = key[u] => asker[u] = x

--------------------------------------------------------------------------------
(* Requests and the steps of threads.                                       *)

\* What kind of request a thread has, by its next step.
LEMMA KindFacts ==
  ASSUME JobsTyped, NEW t \in Threads
  PROVE  /\ pc[t] = "idle" => job[t] = NoJob
         /\ pc[t] \in {"newkey", "answer"} => job[t] \in Registrations /\ job[t].answer <= serial
         /\ pc[t] \in {"line", "log", "score", "show", "plugins"} =>
              job[t] \in Batches /\ job[t].lines # <<>> /\ job[t].start <= now
         /\ pc[t] \in {"enter", "find", "leave"} => job[t] \in Cameras /\ job[t].row <= Len(opLogs)
         /\ pc[t] \in {"cache", "view", "rows"} => job[t] \in Lists
<1>1. JobTyped(t) /\ job[t] \in Jobs
  BY DEF JobsTyped
<1>2. CASE job[t] = NoJob
  BY <1>1, <1>2 DEF JobTyped
<1>3. CASE job[t] \in Registrations
  <2>1. job[t].kind = "register" /\ job[t] # NoJob
    BY <1>3 DEF Registrations, NoJob
  <2> QED
    BY <1>1, <1>3, <2>1 DEF JobTyped, Steps
<1>4. CASE job[t] \in Batches
  <2>1. job[t].kind = "lines" /\ job[t] # NoJob
    BY <1>4 DEF Batches, NoJob
  <2> QED
    BY <1>1, <1>4, <2>1 DEF JobTyped, Steps
<1>5. CASE job[t] \in Cameras
  <2>1. job[t].kind = "camera" /\ job[t] # NoJob
    BY <1>5 DEF Cameras, NoJob
  <2> QED
    BY <1>1, <1>5, <2>1 DEF JobTyped, Steps
<1>6. CASE job[t] \in Lists
  <2>1. job[t].kind = "list" /\ job[t] # NoJob
    BY <1>6 DEF Lists, NoJob
  <2> QED
    BY <1>1, <1>6, <2>1 DEF JobTyped, Steps
<1> QED
  BY <1>1, <1>2, <1>3, <1>4, <1>5, <1>6 DEF Jobs

\* The line a thread is at.
LEMMA LineFacts ==
  ASSUME JobsTyped, NEW t \in Threads,
         pc[t] \in {"line", "log", "score", "show", "plugins"}
  PROVE  /\ Line(t) \in [n : LineIds, type : LineTypes, text : Texts]
         /\ Line(t).n \in LineIds /\ Line(t).text \in Texts
         /\ job[t].start \in Nat /\ job[t].start <= now
         /\ Tail(job[t].lines) \in Seq([n : LineIds, type : LineTypes, text : Texts])
         /\ Len(job[t].lines) # 1 => Tail(job[t].lines) # <<>>
<1> DEFINE L == [n : LineIds, type : LineTypes, text : Texts]
<1>1. job[t] \in Batches /\ job[t].lines # <<>> /\ job[t].start <= now
  BY KindFacts
<1>2. job[t].lines \in Seq(L) /\ job[t].start \in Nat
  BY <1>1 DEF Batches
<1>3. Head(job[t].lines) \in L /\ Tail(job[t].lines) \in Seq(L)
      /\ Len(Tail(job[t].lines)) = Len(job[t].lines) - 1 /\ Len(job[t].lines) \in Nat
  <2> DEFINE q == job[t].lines
  <2>1. q \in Seq(L) /\ q # <<>>
    BY <1>1, <1>2
  <2> HIDE DEF q, L
  <2>2. Head(q) \in L /\ Tail(q) \in Seq(L) /\ Len(Tail(q)) = Len(q) - 1 /\ Len(q) \in Nat
    BY <2>1, HeadTailProperties, LenProperties
  <2> QED
    BY <2>2 DEF q
<1>4. Len(job[t].lines) # 1 => Tail(job[t].lines) # <<>>
  <2>1. Len(<<>>) = 0
    OBVIOUS
  <2>2. Len(Tail(job[t].lines)) = Len(job[t].lines) - 1 /\ Len(job[t].lines) \in Nat
    BY <1>3
  <2> HIDE DEF L
  <2>3. Tail(job[t].lines) = <<>> => Len(Tail(job[t].lines)) = 0
    BY <2>1
  <2> QED
    BY <2>2, <2>3
<1> QED
  BY <1>1, <1>2, <1>3, <1>4 DEF Line

\* What only grows.
Grows == serial <= serial' /\ now <= now' /\ Len(opLogs) <= Len(opLogs')

\* Nothing a job is typed by has changed but what grows.
LEMMA JobKept ==
  ASSUME StoreTyped, StoreTyped', Grows, NEW t \in Threads, JobTyped(t), job[t] \in Jobs,
         job'[t] = job[t], pc'[t] = pc[t]
  PROVE  JobTyped(t)'
<1>1. /\ serial \in Nat /\ serial' \in Nat /\ now \in Int /\ now' \in Int
      /\ Len(opLogs) \in Nat /\ Len(opLogs') \in Nat
  BY DEF StoreTyped
<1>2. job[t] \in Registrations => job[t].answer \in Nat
  BY DEF Registrations, LineIds
<1>3. job[t] \in Batches => job[t].start \in Nat
  BY DEF Batches
<1>4. job[t] \in Cameras => job[t].row \in Nat
  BY DEF Cameras
<1> QED
  BY <1>1, <1>2, <1>3, <1>4 DEF JobTyped, Grows

\* A step of thread t leaves the other threads alone.
OnlyMoves(t) ==
    /\ pc' \in [Threads -> Phases] /\ job' \in [Threads -> Jobs]
    /\ \A u \in Threads \ {t} : pc'[u] = pc[u] /\ job'[u] = job[u]

LEMMA JobStep ==
  ASSUME StoreTyped, StoreTyped', JobsTyped, Grows, NEW t \in Threads, OnlyMoves(t), JobTyped(t)'
  PROVE  JobsTyped'
<1>1. ASSUME NEW u \in Threads PROVE JobTyped(u)'
  <2>1. CASE u = t
    BY <2>1
  <2>2. CASE u # t
    <3>1. job'[u] = job[u] /\ pc'[u] = pc[u] /\ job[u] \in Jobs /\ JobTyped(u)
      BY <2>2 DEF JobsTyped, OnlyMoves
    <3> QED
      BY <3>1, JobKept
  <2> QED
    BY <2>1, <2>2
<1> QED
  BY <1>1 DEF JobsTyped, OnlyMoves

\* A thread gets on to another step of its request.
LEMMA GotoTypes ==
  ASSUME StoreTyped, StoreTyped', JobsTyped, Grows, NEW t \in Threads, NEW p \in Phases,
         Goto(t, p), job[t] # NoJob, p \in Steps[job[t].kind]
  PROVE  JobsTyped'
<1>1. job \in [Threads -> Jobs] /\ job' = job /\ job' = [job EXCEPT ![t] = job[t]] /\ job'[t] = job[t]
  <2>1. job \in [Threads -> Jobs] /\ job' = job
    BY DEF Goto, JobsTyped
  <2> QED
    BY <2>1
<1>2. pc' = [pc EXCEPT ![t] = p] /\ pc'[t] = p
  BY DEF Goto, JobsTyped
<1>3. JobTyped(t)'
  <2>1. /\ serial \in Nat /\ serial' \in Nat /\ now \in Int /\ now' \in Int
        /\ Len(opLogs) \in Nat /\ Len(opLogs') \in Nat
    BY DEF StoreTyped
  <2>2. job[t] \in Registrations => job[t].answer \in Nat
    BY DEF Registrations, LineIds
  <2>3. job[t] \in Batches => job[t].start \in Nat
    BY DEF Batches
  <2>4. job[t] \in Cameras => job[t].row \in Nat
    BY DEF Cameras
  <2>5. JobTyped(t)
    BY DEF JobsTyped
  <2> QED
    BY <1>1, <1>2, <2>1, <2>2, <2>3, <2>4, <2>5 DEF JobTyped, Grows
<1> QED
  <2>1. OnlyMoves(t)
    BY <1>1, <1>2 DEF OnlyMoves, JobsTyped
  <2> QED
    BY <1>3, <2>1, JobStep

\* A request ends.
LEMMA FinishTypes ==
  ASSUME StoreTyped, StoreTyped', JobsTyped, Grows, NEW t \in Threads, Finish(t)
  PROVE  JobsTyped'
<1>1. pc' = [pc EXCEPT ![t] = "idle"] /\ job' = [job EXCEPT ![t] = NoJob] /\ NoJob \in Jobs
  BY DEF Finish, Jobs
<1>2. pc'[t] = "idle" /\ job'[t] = NoJob
  BY <1>1 DEF JobsTyped
<1>3. NoJob \notin Registrations /\ NoJob \notin Batches /\ NoJob \notin Cameras
  BY DEF NoJob, Registrations, Batches, Cameras
<1>4. JobTyped(t)'
  BY <1>2, <1>3 DEF JobTyped
<1> QED
  <2> pc \in [Threads -> Phases] /\ job \in [Threads -> Jobs]
    BY DEF JobsTyped
  <2>0. "idle" \in Phases
    BY DEF Phases
  <2>1. OnlyMoves(t)
    BY <1>1, <2>0 DEF OnlyMoves
  <2> QED
    BY <1>4, <2>1, JobStep

\* A line ends.
LEMMA EndLineTypes ==
  ASSUME StoreTyped, StoreTyped', JobsTyped, Grows, NEW t \in Threads, EndLine(t),
         pc[t] \in {"line", "show", "plugins"}
  PROVE  JobsTyped'
<1>1. CASE Len(job[t].lines) = 1
  BY <1>1, FinishTypes DEF EndLine
<1>2. CASE Len(job[t].lines) # 1
  <2> DEFINE j == [job[t] EXCEPT !.lines = Tail(@)]
  <2>1. pc' = [pc EXCEPT ![t] = "line"] /\ job' = [job EXCEPT ![t] = j]
    BY <1>2 DEF EndLine
  <2>2. job[t] \in Batches /\ Tail(job[t].lines) # <<>> /\ job[t].start <= now
    BY <1>2, KindFacts, LineFacts
  <2>3. Tail(job[t].lines) \in Seq([n : LineIds, type : LineTypes, text : Texts])
    BY LineFacts
  <2>4. j \in Batches /\ j.kind = "lines" /\ j.lines = Tail(job[t].lines)
        /\ j.start = job[t].start /\ j.start \in Nat
    <3>1. [job[t] EXCEPT !.lines = Tail(job[t].lines)] \in Batches
      BY <2>2, <2>3 DEF Batches
    <3>2. j.lines = Tail(job[t].lines) /\ j.start = job[t].start
      BY <2>2 DEF Batches
    <3> QED
      BY <3>1, <3>2 DEF Batches
  <2>5. j # NoJob /\ j \notin Registrations /\ j \notin Cameras /\ j \in Jobs
    BY <2>4 DEF NoJob, Registrations, Cameras, Jobs
  <2>6. pc'[t] = "line" /\ job'[t] = j
    BY <2>1 DEF JobsTyped
  <2>7. now \in Int /\ now' \in Int /\ now <= now'
    BY DEF StoreTyped, Grows
  <2>8. "line" \in Steps["lines"]
    BY DEF Steps
  <2>9. JobTyped(t)'
    BY <2>2, <2>4, <2>5, <2>6, <2>7, <2>8 DEF JobTyped
  <2>10. OnlyMoves(t)
    <3>1. pc \in [Threads -> Phases] /\ job \in [Threads -> Jobs]
      BY DEF JobsTyped
    <3>2. "line" \in Phases
      BY DEF Phases, Steps
    <3> HIDE DEF j
    <3> QED
      BY <2>1, <2>5, <3>1, <3>2 DEF OnlyMoves
  <2> QED
    BY <2>9, <2>10, JobStep
<1> QED
  BY <1>1, <1>2

--------------------------------------------------------------------------------
(* Type correctness.                                                        *)

\* What StoreTyped is about.
relayVars == <<handed, held, saved, trial, crossed, lost>>
panelVars == <<now, serial, lines, code, key, tailed, asker, chatLogs, opLogs, revives, paid, shown,
               told, liveCache, players, viewed>>
storeVars == <<relayVars, panelVars>>

\* The type of what the relays have.
RelaysTyped ==
    /\ {handed, held, saved} \subseteq [Relays -> 0..serial]
    /\ trial \subseteq [sender : Relays, server : Servers, key : 1..serial, ok : BOOLEAN]
    /\ crossed \subseteq Relays /\ lost \subseteq 1..serial

\* Only the relays change.
LEMMA RelaysChange ==
  ASSUME StoreTyped, UNCHANGED panelVars, RelaysTyped'
  PROVE  StoreTyped' /\ Grows
<1>1. StoreTyped'
  BY DEF StoreTyped, panelVars, RelaysTyped
<1>2. serial \in Nat /\ now \in Int /\ Len(opLogs) \in Nat
  BY DEF StoreTyped
<1>3. Grows
  BY <1>2 DEF Grows, panelVars
<1> QED
  BY <1>1, <1>3

\* What stays has its type, and what only grows has not shrunk.
LEMMA StoreSame ==
  ASSUME StoreTyped, UNCHANGED storeVars
  PROVE  StoreTyped' /\ Grows
<1>1. RelaysTyped' /\ UNCHANGED panelVars
  BY DEF StoreTyped, RelaysTyped, storeVars, relayVars, panelVars
<1> QED
  BY <1>1, RelaysChange

\* Numbers stay below a larger serial number.
LEMMA SerialGrows ==
  ASSUME NEW S, NEW m \in {0, 1}, NEW n \in Nat, NEW f \in [S -> m..n]
  PROVE  f \in [S -> m..(n + 1)]
<1>1. ASSUME NEW x \in S PROVE f[x] \in m..(n + 1)
  <2>1. f[x] \in m..n
    OBVIOUS
  <2> QED
    BY <2>1
<1> QED
  BY <1>1

LEMMA TypesGrow ==
  ASSUME StoreTyped, NEW n, n = serial + 1
  PROVE  /\ n \in 1..n /\ n \in 0..n /\ n \in Nat
         /\ code \in [Servers -> 0..n]
         /\ key \in [Servers -> 1..n] /\ tailed \in [Servers -> 1..n]
         /\ handed \in [Relays -> 0..n] /\ held \in [Relays -> 0..n] /\ saved \in [Relays -> 0..n]
         /\ trial \subseteq [sender : Relays, server : Servers, key : 1..n, ok : BOOLEAN]
         /\ lost \subseteq 1..n
<1>1. serial \in Nat /\ n \in Nat
  BY DEF StoreTyped
<1>2. code \in [Servers -> 0..n]
  BY <1>1, SerialGrows DEF StoreTyped
<1>3. key \in [Servers -> 1..n] /\ tailed \in [Servers -> 1..n]
  <2>1. key \in [Servers -> 1..serial] /\ tailed \in [Servers -> 1..serial]
    BY DEF StoreTyped
  <2> QED
    BY <1>1, <2>1, SerialGrows
<1>4. handed \in [Relays -> 0..n] /\ held \in [Relays -> 0..n] /\ saved \in [Relays -> 0..n]
  <2>1. handed \in [Relays -> 0..serial] /\ held \in [Relays -> 0..serial]
        /\ saved \in [Relays -> 0..serial]
    BY DEF StoreTyped
  <2> QED
    BY <1>1, <2>1, SerialGrows
<1>5. 1..serial \subseteq 1..n
  BY <1>1
<1>6. trial \subseteq [sender : Relays, server : Servers, key : 1..n, ok : BOOLEAN]
      /\ lost \subseteq 1..n
  BY <1>5 DEF StoreTyped
<1> QED
  BY <1>1, <1>2, <1>3, <1>4, <1>6

\* Somebody gets a code.
LEMMA GenerateCodeTypes ==
  ASSUME TypeOK, NEW s \in Servers, NEW xs \in SUBSET Relays, GenerateCode(s, xs)
  PROVE  TypeOK'
<1>1. serial \in Nat /\ serial' = serial + 1 /\ serial' \in Nat
  BY DEF TypeOK, StoreTyped, GenerateCode
<1>2. /\ serial' \in 0..serial'
      /\ code \in [Servers -> 0..serial'] /\ handed \in [Relays -> 0..serial']
      /\ key' \in [Servers -> 1..serial'] /\ tailed' \in [Servers -> 1..serial']
      /\ held' \in [Relays -> 0..serial'] /\ saved' \in [Relays -> 0..serial']
      /\ trial' \subseteq [sender : Relays, server : Servers, key : 1..serial', ok : BOOLEAN]
      /\ lost' \subseteq 1..serial'
  <2>1. UNCHANGED <<key, tailed, held, saved, trial, lost>>
    BY DEF GenerateCode
  <2> QED
    BY <1>1, <2>1, TypesGrow DEF TypeOK
<1>3. code' \in [Servers -> 0..serial']
  BY <1>1, <1>2 DEF GenerateCode
<1>4. handed' \in [Relays -> 0..serial']
  BY <1>1, <1>2 DEF GenerateCode
<1>5. UNCHANGED <<now, asker, crossed, feed, revives, paid, opLogs, liveCache, players, viewed, lines>>
  BY DEF GenerateCode
<1>6. StoreTyped'
  BY <1>1, <1>2, <1>3, <1>4, <1>5 DEF TypeOK, StoreTyped, feed
<1>7. Grows
  <2>1. now \in Int /\ Len(opLogs) \in Nat
    BY DEF TypeOK, StoreTyped
  <2> QED
    BY <1>1, <1>5, <2>1 DEF Grows
<1>8. JobsTyped'
  <2>1. pc' = pc /\ job' = job
    BY DEF GenerateCode
  <2>2. ASSUME NEW t \in Threads PROVE JobTyped(t)'
    <3>1. JobTyped(t) /\ job[t] \in Jobs /\ job'[t] = job[t] /\ pc'[t] = pc[t]
      BY <2>1 DEF TypeOK, JobsTyped
    <3> QED
      BY <1>6, <1>7, <3>1, JobKept DEF TypeOK
  <2> QED
    BY <2>1, <2>2 DEF TypeOK, JobsTyped
<1> QED
  BY <1>6, <1>8 DEF TypeOK

\* A server gets a new key.
LEMMA NewKeyTypes ==
  ASSUME TypeOK, NEW t \in Threads, NewKey(t)
  PROVE  TypeOK'
<1>1. serial \in Nat /\ serial' = serial + 1 /\ serial' \in Nat
  BY DEF TypeOK, StoreTyped, NewKey
<1>2. /\ serial' \in 1..serial' /\ key \in [Servers -> 1..serial']
      /\ code' \in [Servers -> 0..serial'] /\ tailed' \in [Servers -> 1..serial']
      /\ handed' \in [Relays -> 0..serial'] /\ held' \in [Relays -> 0..serial']
      /\ saved' \in [Relays -> 0..serial']
      /\ trial' \subseteq [sender : Relays, server : Servers, key : 1..serial', ok : BOOLEAN]
      /\ lost' \subseteq 1..serial'
  <2>1. UNCHANGED <<code, tailed, handed, held, saved, trial, lost>>
    BY DEF NewKey, relays
  <2> QED
    BY <1>1, <2>1, TypesGrow DEF TypeOK
<1>3. job[t] \in Registrations
  BY KindFacts DEF TypeOK, NewKey
<1>4. key' \in [Servers -> 1..serial']
  <2>1. key' = [key EXCEPT ![job[t].server] = serial']
    BY <1>1 DEF NewKey
  <2> QED
    BY <1>2, <2>1
<1>5. asker' \in [Servers -> Senders]
  <2>1. asker' = [asker EXCEPT ![job[t].server] = job[t].sender] /\ asker \in [Servers -> Senders]
    BY DEF NewKey, TypeOK, StoreTyped
  <2>2. job[t].sender \in Senders
    BY <1>3 DEF Registrations, Senders
  <2> QED
    BY <2>1, <2>2
<1>6. UNCHANGED <<now, crossed, feed, revives, paid, opLogs, liveCache, players, viewed, lines>>
  BY DEF NewKey, relays, rest
<1>7. StoreTyped'
  BY <1>1, <1>2, <1>4, <1>5, <1>6 DEF TypeOK, StoreTyped, feed
<1>8. Grows
  <2>1. now \in Int /\ Len(opLogs) \in Nat
    BY DEF TypeOK, StoreTyped
  <2> QED
    BY <1>1, <1>6, <2>1 DEF Grows
<1> DEFINE j == [job[t] EXCEPT !.answer = serial + 1]
<1>9. j \in Registrations /\ j.kind = "register" /\ j.answer = serial'
  BY <1>1, <1>3 DEF Registrations, LineIds
<1>10. j # NoJob /\ j \notin Batches /\ j \notin Cameras /\ j \in Jobs
  BY <1>9 DEF NoJob, Batches, Cameras, Jobs
<1>11. pc' = [pc EXCEPT ![t] = "answer"] /\ job' = [job EXCEPT ![t] = j]
  BY DEF NewKey
<1>12. pc \in [Threads -> Phases] /\ job \in [Threads -> Jobs] /\ "answer" \in Phases
  BY DEF TypeOK, JobsTyped, Phases, Steps
<1> HIDE DEF j
<1>13. OnlyMoves(t) /\ pc'[t] = "answer" /\ job'[t] = j
  BY <1>10, <1>11, <1>12 DEF OnlyMoves
<1>14. "answer" \in Steps["register"] /\ serial' <= serial'
  BY <1>1 DEF Steps
<1>15. JobTyped(t)'
  BY <1>9, <1>10, <1>13, <1>14 DEF JobTyped
<1> QED
  BY <1>7, <1>8, <1>13, <1>15, JobStep DEF TypeOK

\* The answer gets to the relay, or not.
LEMMA AnswerTypes ==
  ASSUME TypeOK, NEW t \in Threads, Answer(t)
  PROVE  TypeOK'
<1>1. job[t] \in Registrations /\ job[t].answer <= serial
  BY KindFacts DEF TypeOK, Answer
<1>2. job[t].answer \in 1..serial
  BY <1>1 DEF Registrations, TypeOK, StoreTyped, LineIds
<1>3. UNCHANGED panelVars /\ UNCHANGED <<handed, held, saved, crossed>>
  BY DEF Answer, panelVars, keys, feed, rest
<1>4. RelaysTyped'
  <2>1. [sender |-> job[t].sender, server |-> job[t].server, key |-> job[t].answer, ok |-> FALSE]
          \in [sender : Relays, server : Servers, key : 1..serial, ok : BOOLEAN]
    BY <1>1, <1>2 DEF Registrations
  <2>2. serial' = serial
    BY <1>3 DEF panelVars
  <2>3. trial' \subseteq [sender : Relays, server : Servers, key : 1..serial, ok : BOOLEAN]
    BY <2>1 DEF TypeOK, StoreTyped, Answer
  <2>4. lost' \subseteq 1..serial
    BY <1>2 DEF TypeOK, StoreTyped, Answer
  <2> QED
    BY <1>3, <2>2, <2>3, <2>4 DEF TypeOK, StoreTyped, RelaysTyped
<1>5. StoreTyped' /\ Grows
  BY <1>3, <1>4, RelaysChange DEF TypeOK
<1> QED
  BY <1>5, FinishTypes DEF TypeOK, Answer

\* A relay tries a key, saves it, gives it up, or is started.
LEMMA RelayTypes ==
  ASSUME TypeOK, RelaySteps
  PROVE  TypeOK'
<1> DEFINE R == [sender : Relays, server : Servers, key : 1..serial, ok : BOOLEAN]
<1>1. UNCHANGED panelVars /\ pc' = pc /\ job' = job
  BY DEF RelaySteps, panelVars, keys, feed, rest
<1>2. serial' = serial /\ trial \subseteq R /\ handed \in [Relays -> 0..serial]
      /\ held \in [Relays -> 0..serial] /\ saved \in [Relays -> 0..serial]
      /\ crossed \subseteq Relays /\ lost \subseteq 1..serial
  BY <1>1 DEF panelVars, TypeOK, StoreTyped
<1>3. ASSUME NEW e \in trial, Try(e) PROVE RelaysTyped'
  <2>1. e \in R /\ [e EXCEPT !.ok = TRUE] \in R
    BY <1>2
  <2>2. trial' \subseteq R
    BY <1>2, <1>3, <2>1 DEF Try
  <2> QED
    BY <1>2, <1>3, <2>2 DEF Try, RelaysTyped
<1>4. ASSUME NEW e \in trial, Adopt(e) PROVE RelaysTyped'
  <2>1. e.key \in 1..serial
    BY <1>2
  <2>2. e.key \in 0..serial
    BY <2>1
  <2>3. saved' \in [Relays -> 0..serial]
    BY <1>2, <1>4, <2>2 DEF Adopt
  <2> QED
    BY <1>2, <1>4, <2>3 DEF Adopt, RelaysTyped
<1>5. ASSUME NEW e \in trial, Discard(e) PROVE RelaysTyped'
  <2>1. e.key \in 1..serial
    BY <1>2
  <2>2. lost' \subseteq 1..serial /\ trial' \subseteq R
    BY <1>2, <1>5, <2>1 DEF Discard
  <2> QED
    BY <1>2, <1>5, <2>2 DEF Discard, RelaysTyped
<1>6. ASSUME NEW x \in Relays, StartRelay(x) PROVE RelaysTyped'
  <2>1. held' \in [Relays -> 0..serial]
    BY <1>2, <1>6 DEF StartRelay
  <2> QED
    BY <1>2, <1>6, <2>1 DEF StartRelay, RelaysTyped
<1> HIDE DEF R
<1>7. RelaysTyped'
  BY <1>3, <1>4, <1>5, <1>6 DEF RelaySteps
<1>8. StoreTyped' /\ Grows
  BY <1>1, <1>7, RelaysChange DEF TypeOK
<1>9. ASSUME NEW t \in Threads PROVE JobTyped(t)'
  <2>1. JobTyped(t) /\ job[t] \in Jobs /\ job'[t] = job[t] /\ pc'[t] = pc[t]
    BY <1>1 DEF TypeOK, JobsTyped
  <2> QED
    BY <1>8, <2>1, JobKept DEF TypeOK
<1> QED
  BY <1>1, <1>8, <1>9 DEF TypeOK, JobsTyped

\* A request comes.
LEMMA BeginTypes ==
  ASSUME StoreTyped, StoreTyped', JobsTyped, Grows, NEW t \in Threads, NEW p, NEW j,
         Begin(t, p, j), p \in Phases, j \in Jobs, j # NoJob, p \in Steps[j.kind],
         j \in Registrations => j.answer <= serial',
         j \in Batches => j.lines # <<>> /\ j.start <= now',
         j \in Cameras => j.row <= Len(opLogs')
  PROVE  JobsTyped'
<1>1. pc \in [Threads -> Phases] /\ job \in [Threads -> Jobs]
  BY DEF JobsTyped
<1>2. pc' = [pc EXCEPT ![t] = p] /\ job' = [job EXCEPT ![t] = j]
  BY DEF Begin
<1>3. OnlyMoves(t) /\ pc'[t] = p /\ job'[t] = j
  BY <1>1, <1>2 DEF OnlyMoves
<1>4. JobTyped(t)'
  BY <1>3 DEF JobTyped
<1> QED
  BY <1>3, <1>4, JobStep

\* A relay sends its code.
LEMMA RegisterTypes ==
  ASSUME TypeOK, NEW t \in Threads, NEW x \in Relays, NEW s \in Servers, Register(t, x, s)
  PROVE  TypeOK'
<1> DEFINE j == [kind |-> "register", sender |-> x, server |-> s, answer |-> key[s]]
<1>1. Begin(t, "newkey", j) /\ UNCHANGED panelVars
  BY DEF Register, panelVars, keys, feed
<1>2. StoreTyped' /\ Grows
  <2>1. UNCHANGED <<serial, handed, held, saved, trial, lost>>
    BY DEF Register, keys
  <2>2. crossed' \subseteq Relays
    BY DEF TypeOK, StoreTyped, Register
  <2>3. RelaysTyped'
    BY <2>1, <2>2 DEF TypeOK, StoreTyped, RelaysTyped
  <2> QED
    BY <1>1, <2>3, RelaysChange DEF TypeOK
<1>3. key[s] \in 1..serial /\ serial \in Nat
  BY DEF TypeOK, StoreTyped
<1>4. j \in Registrations /\ j.kind = "register" /\ j.answer <= serial
  BY <1>3 DEF Registrations, LineIds
<1>5. j # NoJob /\ j \notin Batches /\ j \notin Cameras /\ j \in Jobs
  BY <1>4 DEF NoJob, Batches, Cameras, Jobs
<1>6. "newkey" \in Phases /\ "newkey" \in Steps["register"]
  BY DEF Phases, Steps
<1>7. serial' = serial
  BY <1>1 DEF panelVars
<1> HIDE DEF j
<1>8. JobsTyped'
  BY <1>1, <1>2, <1>4, <1>5, <1>6, <1>7, BeginTypes DEF TypeOK
<1> QED
  BY <1>2, <1>8 DEF TypeOK

\* A set of positions that is not empty has a first one, and a last one.
LEMMA SomeFirst ==
  ASSUME NEW S \in SUBSET Nat, S # {}
  PROVE  \E x \in S : \A y \in S : ~(y < x)
<1>1. \A x \in Nat, y \in Nat : <<y, x>> \in OpToRel(<, Nat) <=> y < x
  BY DEF OpToRel
<1>2. PICK x \in S : \A y \in S : ~(<<y, x>> \in OpToRel(<, Nat))
  BY NatLessThanWellFounded, WFMin
<1>3. \A y \in S : ~(y < x)
  BY <1>1, <1>2
<1> QED
  BY <1>3

LEMMA MinIsMember ==
  ASSUME NEW S \in SUBSET Nat, S # {}
  PROVE  Min(S) \in S
<1>1. PICK x \in S : \A y \in S : ~(y < x)
  BY SomeFirst
<1>2. \A y \in S : x <= y
  BY <1>1
<1> QED
  BY <1>2 DEF Min

LEMMA MaxIsMember ==
  ASSUME NEW n \in Nat, NEW S \in SUBSET (0..n), S # {}
  PROVE  Max(S) \in S
<1> DEFINE D == {d \in Nat : n - d \in S}
<1>1. D # {}
  <2>1. PICK x \in S : TRUE
    OBVIOUS
  <2>2. x \in 0..n
    OBVIOUS
  <2>3. n - x \in Nat /\ n - (n - x) = x
    BY <2>2
  <2>4. n - x \in D
    BY <2>3
  <2> QED
    BY <2>4
<1>2. D \subseteq Nat
  OBVIOUS
<1>3. PICK d \in D : \A y \in D : ~(y < d)
  BY <1>1, <1>2, SomeFirst
<1>4. d \in Nat /\ n - d \in S
  BY <1>3
<1>5. ASSUME NEW y \in S PROVE n - d >= y
  <2>1. y \in 0..n
    OBVIOUS
  <2>2. n - y \in Nat /\ n - (n - y) = y
    BY <2>1
  <2>3. n - y \in D
    BY <2>2
  <2>4. ~(n - y < d)
    BY <1>3, <2>2, <2>3
  <2> QED
    BY <1>4, <2>1, <2>2, <2>4
<1> QED
  BY <1>4, <1>5 DEF Max

\* The type of a log line is a keyword's, or none.
LEMMA ParsedType ==
  ASSUME NEW l \in LogLines
  PROVE  Parsed(l) \in LineTypes
<1> DEFINE hits == {i \in DOMAIN Keywords : Keywords[i] \in l.marks}
<1>1. DOMAIN Keywords \subseteq Nat
  BY DEF Keywords
<1>2. hits # {} => Min(hits) \in DOMAIN Keywords
  BY <1>1, MinIsMember
<1>3. \A i \in DOMAIN Keywords : Keywords[i] \in Range(Keywords)
  BY DEF Range
<1> QED
  BY <1>2, <1>3 DEF Parsed, LineTypes

\* Log lines are sent.
LEMMA PostTypes ==
  ASSUME TypeOK, NEW t \in Threads, NEW x, NEW s, NEW route \in {"event", "raw"},
         NEW ls \in Seq([type : LineTypes, text : Texts]), ls # <<>>, Post(t, x, s, route, ls)
  PROVE  TypeOK'
<1> DEFINE L == [n : LineIds, type : LineTypes, text : Texts]
           j == [kind |-> "lines", route |-> route, start |-> now, lines |-> Numbered(ls)]
<1>1. Len(ls) \in Nat /\ Len(ls) # 0 /\ lines \in Nat
  BY EmptySeq, LenProperties DEF TypeOK, StoreTyped
<1>2. Numbered(ls) \in Seq(L) /\ Len(Numbered(ls)) = Len(ls)
  <2>1. ASSUME NEW i \in 1..Len(ls)
        PROVE  [n |-> lines + i, type |-> ls[i].type, text |-> ls[i].text] \in L
    <3>1. ls[i] \in [type : LineTypes, text : Texts]
      BY ElementOfSeq
    <3>2. lines + i \in LineIds
      BY <1>1 DEF LineIds
    <3> QED
      BY <3>1, <3>2
  <2>2. Numbered(ls) \in [1..Len(ls) -> L]
    BY <2>1 DEF Numbered
  <2> HIDE DEF L
  <2> QED
    BY <1>1, <2>2, IsASeq, LenProperties
<1>3. StoreTyped' /\ Grows
  <2>1. lines' \in Nat /\ UNCHANGED <<now, access, feed, revives, paid, opLogs, liveCache, players, viewed>>
    BY <1>1 DEF Post
  <2>2. StoreTyped'
    BY <2>1 DEF TypeOK, StoreTyped, access, keys, relays, feed
  <2>3. serial \in Nat /\ now \in Int /\ Len(opLogs) \in Nat
    BY DEF TypeOK, StoreTyped
  <2> QED
    BY <2>1, <2>2, <2>3 DEF Grows, access, keys, relays
<1>4. Numbered(ls) # <<>>
  BY <1>1, <1>2
<1>5. now \in Nat
  BY IngestAssumption DEF TypeOK, StoreTyped
<1>6. j \in Batches /\ j.kind = "lines" /\ j.lines # <<>> /\ j.start = now
  BY <1>2, <1>4, <1>5 DEF Batches
<1>7. j # NoJob /\ j \notin Registrations /\ j \notin Cameras /\ j \in Jobs
  BY <1>6 DEF NoJob, Registrations, Cameras, Jobs
<1>8. "line" \in Phases /\ "line" \in Steps["lines"]
  BY DEF Phases, Steps
<1>9. Begin(t, "line", j) /\ now' = now
  BY DEF Post
<1> HIDE DEF j
<1>10. JobsTyped'
  BY <1>3, <1>5, <1>6, <1>7, <1>8, <1>9, BeginTypes DEF TypeOK
<1> QED
  BY <1>3, <1>10 DEF TypeOK

\* The administrator enters or leaves the camera.
LEMMA CameraTypes ==
  ASSUME TypeOK, NEW t \in Threads, NEW x, NEW s \in Servers, NEW p \in Players,
         NEW action \in {"possessed", "unpossessed"}, Camera(t, x, s, p, action)
  PROVE  TypeOK'
<1> DEFINE j == [kind |-> "camera", server |-> s, player |-> p, n |-> lines + 1, row |-> 0]
           next == IF action = "possessed" THEN "enter" ELSE "find"
<1>1. lines \in Nat /\ lines + 1 \in LineIds /\ lines' = lines + 1
  BY DEF TypeOK, StoreTyped, LineIds, Camera
<1>2. StoreTyped' /\ Grows
  <2>1. lines' \in Nat /\ UNCHANGED <<now, access, feed, revives, paid, opLogs, liveCache, players, viewed>>
    BY <1>1 DEF Camera
  <2>2. StoreTyped'
    BY <2>1 DEF TypeOK, StoreTyped, access, keys, relays, feed
  <2>3. serial \in Nat /\ now \in Int /\ Len(opLogs) \in Nat
    BY DEF TypeOK, StoreTyped
  <2> QED
    BY <2>1, <2>2, <2>3 DEF Grows, access, keys, relays
<1>3. j \in Cameras /\ j.kind = "camera" /\ j.row = 0
  BY <1>1 DEF Cameras
<1>4. j # NoJob /\ j \notin Registrations /\ j \notin Batches /\ j \in Jobs
  BY <1>3 DEF NoJob, Registrations, Batches, Jobs
<1>5. next \in Phases /\ next \in Steps["camera"]
  BY DEF Phases, Steps
<1>6. Begin(t, next, j)
  BY DEF Camera
<1>7. 0 <= Len(opLogs')
  BY <1>2 DEF StoreTyped
<1> HIDE DEF j, next
<1>8. JobsTyped'
  BY <1>2, <1>3, <1>4, <1>5, <1>6, <1>7, BeginTypes DEF TypeOK
<1> QED
  BY <1>2, <1>8 DEF TypeOK

\* A player list comes.
LEMMA PostListTypes ==
  ASSUME TypeOK, NEW t \in Threads, NEW x, NEW s \in Servers, NEW ps \in SUBSET Players,
         PostList(t, x, s, ps)
  PROVE  TypeOK'
<1> DEFINE j == [kind |-> "list", server |-> s, players |-> ps]
<1>1. Begin(t, "cache", j) /\ UNCHANGED storeVars
  BY DEF PostList, storeVars, panelVars, relayVars, access, keys, relays, feed
<1>2. StoreTyped' /\ Grows
  BY <1>1, StoreSame DEF TypeOK
<1>3. j \in Lists /\ j.kind = "list"
  BY DEF Lists
<1>4. j # NoJob /\ j \notin Registrations /\ j \notin Batches /\ j \notin Cameras /\ j \in Jobs
  BY <1>3 DEF NoJob, Registrations, Batches, Cameras, Jobs
<1>5. "cache" \in Phases /\ "cache" \in Steps["list"]
  BY DEF Phases, Steps
<1> HIDE DEF j
<1>6. JobsTyped'
  BY <1>1, <1>2, <1>3, <1>4, <1>5, BeginTypes DEF TypeOK
<1> QED
  BY <1>2, <1>6 DEF TypeOK

\* The next step of a request of log lines, or of a player list.
LEMMA NextStep ==
  ASSUME TypeOK, StoreTyped', Grows, NEW t \in Threads, NEW p \in Phases, Goto(t, p),
         \/ /\ pc[t] \in {"line", "log", "score", "show", "plugins"}
            /\ p \in {"line", "log", "score", "show", "plugins"}
         \/ pc[t] \in {"cache", "view", "rows"} /\ p \in {"cache", "view", "rows"}
  PROVE  TypeOK'
<1>1. job[t] # NoJob /\ p \in Steps[job[t].kind]
  <2>1. CASE /\ pc[t] \in {"line", "log", "score", "show", "plugins"}
             /\ p \in {"line", "log", "score", "show", "plugins"}
    <3>1. job[t] \in Batches
      BY <2>1, KindFacts DEF TypeOK
    <3>2. job[t].kind = "lines" /\ job[t] # NoJob
      BY <3>1 DEF Batches, NoJob
    <3> QED
      BY <2>1, <3>2 DEF Steps
  <2>2. CASE pc[t] \in {"cache", "view", "rows"} /\ p \in {"cache", "view", "rows"}
    <3>1. job[t] \in Lists
      BY <2>2, KindFacts DEF TypeOK
    <3>2. job[t].kind = "list" /\ job[t] # NoJob
      BY <3>1 DEF Lists, NoJob
    <3> QED
      BY <2>2, <3>2 DEF Steps
  <2> QED
    BY <2>1, <2>2
<1>2. JobsTyped'
  BY <1>1, GotoTypes DEF TypeOK
<1> QED
  BY <1>2 DEF TypeOK

\* The steps of a request of log lines.
LEMMA LineTypesKept ==
  ASSUME TypeOK, NEW t \in Threads,
         Skip(t) \/ CheckChat(t) \/ LogChat(t) \/ Revive(t) \/ ScoreRevive(t) \/ Show(t) \/ Tell(t)
  PROVE  TypeOK'
<1>1. pc[t] \in {"line", "log", "score", "show", "plugins"}
  BY DEF Skip, CheckChat, LogChat, Revive, ScoreRevive, Show, Tell
<1>2. Line(t).n \in LineIds /\ Line(t).text \in Texts /\ job[t].start \in Nat /\ job[t].start <= now
  BY <1>1, LineFacts DEF TypeOK
<1>3. now \in Nat
  BY IngestAssumption DEF TypeOK, StoreTyped
<1>4. {"line", "log", "score", "show", "plugins"} \subseteq Phases
  BY DEF Phases, Steps
<1>5. CASE Skip(t)
  <2>1. UNCHANGED storeVars /\ EndLine(t) /\ pc[t] = "line"
    BY <1>5 DEF Skip, storeVars, panelVars, relayVars, access, keys, relays, feed, rest
  <2> QED
    BY <2>1, StoreSame, EndLineTypes DEF TypeOK
<1>6. CASE CheckChat(t)
  <2>1. UNCHANGED storeVars
    BY <1>6 DEF CheckChat, storeVars, panelVars, relayVars, access, keys, relays, feed, rest
  <2>2. Goto(t, "show") \/ Goto(t, "log")
    BY <1>6 DEF CheckChat
  <2> QED
    BY <1>1, <1>4, <2>1, <2>2, StoreSame, NextStep DEF TypeOK
<1>7. CASE LogChat(t)
  <2> DEFINE r == [text |-> Line(t).text, stamp |-> job[t].start, at |-> now, n |-> Line(t).n]
  <2>1. r \in [text : Texts, stamp : 0..now, at : 0..now, n : LineIds]
    BY <1>2, <1>3
  <2>2. chatLogs' = chatLogs \cup {r}
    BY <1>7 DEF LogChat
  <2> HIDE DEF r
  <2>3. IsFiniteSet(chatLogs')
    BY <2>2, FS_AddElement DEF TypeOK, StoreTyped
  <2>4. UNCHANGED <<now, lines, access, opLogs, revives, paid, shown, told, liveCache, players,
                    viewed>>
    BY <1>7 DEF LogChat, rest
  <2>5. chatLogs' \subseteq [text : Texts, stamp : 0..now', at : 0..now', n : LineIds]
    BY <2>1, <2>2, <2>4 DEF TypeOK, StoreTyped
  <2>6. StoreTyped'
    BY <2>3, <2>4, <2>5 DEF TypeOK, StoreTyped, access, keys, relays
  <2>7. Grows
    <3>1. serial \in Nat /\ Len(opLogs) \in Nat
      BY DEF TypeOK, StoreTyped
    <3> QED
      BY <1>3, <2>4, <3>1 DEF Grows, access, keys
  <2>8. Goto(t, "show")
    BY <1>7 DEF LogChat
  <2> QED
    BY <1>1, <1>4, <2>6, <2>7, <2>8, NextStep
<1>8. CASE Revive(t) \/ ScoreRevive(t) \/ Show(t) \/ Tell(t)
  <2>1. UNCHANGED <<now, lines, access, chatLogs, opLogs, liveCache, players, viewed>>
    BY <1>8 DEF Revive, ScoreRevive, Show, Tell, rest, feed
  <2>2. {revives', paid', shown', told'} \subseteq SUBSET LineIds
    BY <1>2, <1>8 DEF Revive, ScoreRevive, Show, Tell, feed, TypeOK, StoreTyped
  <2>3. StoreTyped'
    BY <2>1, <2>2 DEF TypeOK, StoreTyped, access, keys, relays
  <2>4. Grows
    <3>1. serial \in Nat /\ Len(opLogs) \in Nat
      BY DEF TypeOK, StoreTyped
    <3> QED
      BY <1>3, <2>1, <3>1 DEF Grows, access, keys
  <2>5. Goto(t, "score") \/ Goto(t, "show") \/ Goto(t, "plugins")
        \/ (EndLine(t) /\ pc[t] \in {"line", "show", "plugins"})
    <3>1. Revive(t) => Goto(t, "score")
      BY DEF Revive
    <3>2. ScoreRevive(t) => Goto(t, "show")
      BY DEF ScoreRevive
    <3>3. Show(t) => Goto(t, "plugins") \/ (EndLine(t) /\ pc[t] \in {"line", "show", "plugins"})
      BY DEF Show
    <3>4. Tell(t) => EndLine(t) /\ pc[t] \in {"line", "show", "plugins"}
      BY DEF Tell
    <3> QED
      BY <1>8, <3>1, <3>2, <3>3, <3>4
  <2> QED
    BY <1>1, <1>4, <2>3, <2>4, <2>5, NextStep, EndLineTypes DEF TypeOK
<1> QED
  BY <1>5, <1>6, <1>7, <1>8

\* The entry into the camera is written.
LEMMA EnterCameraTypes ==
  ASSUME TypeOK, NEW t \in Threads, EnterCamera(t)
  PROVE  TypeOK'
<1> DEFINE f == Flight(t, TRUE, <<>>)
           F == [server : Servers, player : Players, open : BOOLEAN, leaves : Seq(LineIds)]
<1>1. job[t] \in Cameras
  BY KindFacts DEF TypeOK, EnterCamera
<1>2. f \in F
  BY <1>1 DEF Cameras, Flight
<1>3. opLogs' = Append(opLogs, f) /\ Finish(t)
      /\ UNCHANGED <<now, access, feed, revives, paid, liveCache, players, viewed, rest>>
  BY DEF EnterCamera
<1>4. opLogs \in Seq(F) /\ Len(opLogs) \in Nat /\ serial \in Nat /\ now \in Int
  BY DEF TypeOK, StoreTyped
<1> HIDE DEF f
<1>5. opLogs' \in Seq(F) /\ Len(opLogs') = Len(opLogs) + 1
  <2> HIDE DEF F
  <2> QED
    BY <1>2, <1>3, <1>4, AppendProperties
<1>6. StoreTyped'
  BY <1>3, <1>5 DEF TypeOK, StoreTyped, access, keys, relays, feed, rest
<1>7. Grows
  BY <1>3, <1>4, <1>5 DEF Grows, access, keys, relays
<1> QED
  BY <1>3, <1>6, <1>7, FinishTypes DEF TypeOK

\* The row found for a leave is one of the flights, one without its leave.
LEMMA LastOpenFacts ==
  ASSUME TypeOK, NEW t \in Threads
  PROVE  /\ LastOpen(t) \in 0..Len(opLogs)
         /\ LastOpen(t) # 0 => LastOpen(t) \in DOMAIN opLogs /\ opLogs[LastOpen(t)].open
<1>1. Len(opLogs) \in Nat /\ DOMAIN opLogs = 1..Len(opLogs)
  BY LenProperties DEF TypeOK, StoreTyped
<1>2. Flights(t) \subseteq DOMAIN opLogs
  BY DEF Flights
<1>3. Flights(t) \in SUBSET (0..Len(opLogs))
  BY <1>1, <1>2
<1>4. Flights(t) # {} => Max(Flights(t)) \in Flights(t)
  BY <1>1, <1>3, MaxIsMember
<1>5. CASE Flights(t) # {} /\ opLogs[Max(Flights(t))].open
  <2>1. LastOpen(t) = Max(Flights(t))
    BY <1>5 DEF LastOpen
  <2> QED
    BY <1>1, <1>2, <1>4, <1>5, <2>1
<1>6. CASE ~(Flights(t) # {} /\ opLogs[Max(Flights(t))].open)
  <2>1. LastOpen(t) = 0
    BY <1>6 DEF LastOpen
  <2> QED
    BY <1>1, <2>1
<1> QED
  BY <1>5, <1>6

LEMMA FindFlightTypes ==
  ASSUME TypeOK, NEW t \in Threads, FindFlight(t)
  PROVE  TypeOK'
<1> DEFINE j == [job[t] EXCEPT !.row = LastOpen(t)]
<1>1. UNCHANGED storeVars /\ pc' = [pc EXCEPT ![t] = "leave"] /\ job' = [job EXCEPT ![t] = j]
  BY DEF FindFlight, storeVars, panelVars, relayVars, access, keys, relays, feed, rest
<1>2. StoreTyped' /\ Grows
  BY <1>1, StoreSame DEF TypeOK
<1>3. job[t] \in Cameras
  BY KindFacts DEF TypeOK, FindFlight
<1>4. LastOpen(t) \in 0..Len(opLogs) /\ Len(opLogs) \in Nat
  <2>1. Len(opLogs) \in Nat
    BY DEF TypeOK, StoreTyped
  <2> QED
    BY <2>1, LastOpenFacts
<1>5. j \in Cameras /\ j.kind = "camera" /\ j.row = LastOpen(t)
  BY <1>3, <1>4 DEF Cameras
<1>6. j # NoJob /\ j \notin Registrations /\ j \notin Batches /\ j \in Jobs
  BY <1>5 DEF NoJob, Registrations, Batches, Jobs
<1>7. pc \in [Threads -> Phases] /\ job \in [Threads -> Jobs]
      /\ "leave" \in Phases /\ "leave" \in Steps["camera"]
  BY DEF TypeOK, JobsTyped, Phases, Steps
<1> HIDE DEF j
<1>8. OnlyMoves(t) /\ pc'[t] = "leave" /\ job'[t] = j
  BY <1>1, <1>6, <1>7 DEF OnlyMoves
<1>9. opLogs' = opLogs
  BY <1>1 DEF storeVars, panelVars
<1>10. j.row <= Len(opLogs)
  BY <1>4, <1>5
<1>11. JobTyped(t)'
  BY <1>5, <1>6, <1>7, <1>8, <1>9, <1>10 DEF JobTyped
<1> QED
  BY <1>2, <1>8, <1>11, JobStep DEF TypeOK

LEMMA LeaveCameraTypes ==
  ASSUME TypeOK, NEW t \in Threads, LeaveCamera(t)
  PROVE  TypeOK'
<1> DEFINE i == job[t].row
           n == job[t].n
           f == Flight(t, FALSE, <<n>>)
           F == [server : Servers, player : Players, open : BOOLEAN, leaves : Seq(LineIds)]
           g == [opLogs[i] EXCEPT !.open = FALSE, !.leaves = Append(opLogs[i].leaves, n)]
<1>1. job[t] \in Cameras /\ i \in Nat /\ i <= Len(opLogs) /\ n \in LineIds
  BY KindFacts DEF TypeOK, LeaveCamera, Cameras
<1>2. opLogs \in Seq(F) /\ Len(opLogs) \in Nat /\ serial \in Nat /\ now \in Int
  BY DEF TypeOK, StoreTyped
<1>3. Finish(t) /\ UNCHANGED <<now, access, feed, revives, paid, liveCache, players, viewed, rest>>
  BY DEF LeaveCamera
<1>4. opLogs' \in Seq(F) /\ Len(opLogs') \in Nat /\ Len(opLogs) <= Len(opLogs')
  <2>1. CASE i = 0
    <3>1. opLogs' = Append(opLogs, f)
      BY <2>1 DEF LeaveCamera
    <3>2. f \in F
      BY <1>1 DEF Cameras, Flight
    <3> HIDE DEF f, F
    <3>3. opLogs' \in Seq(F) /\ Len(opLogs') = Len(opLogs) + 1
      BY <1>2, <3>1, <3>2, AppendProperties
    <3> QED
      BY <1>2, <3>3
  <2>2. CASE i # 0
    <3>1. opLogs' = [opLogs EXCEPT ![i] = g]
      BY <2>2 DEF LeaveCamera
    <3>2. i \in 1..Len(opLogs)
      BY <1>1, <1>2, <2>2
    <3>3. opLogs[i] \in F
      BY <1>2, <3>2, ElementOfSeq
    <3>4. Append(opLogs[i].leaves, n) \in Seq(LineIds)
      BY <1>1, <3>3, AppendProperties
    <3>5. g \in F
      BY <3>3, <3>4
    <3> HIDE DEF g, F, i
    <3>6. opLogs' \in Seq(F) /\ Len(opLogs') = Len(opLogs)
      BY <1>2, <3>1, <3>2, <3>5, ExceptSeq
    <3> QED
      BY <1>2, <3>6
  <2> QED
    BY <2>1, <2>2
<1>5. StoreTyped'
  BY <1>3, <1>4 DEF TypeOK, StoreTyped, access, keys, relays, feed, rest
<1>6. Grows
  BY <1>2, <1>3, <1>4 DEF Grows, access, keys, relays
<1> QED
  BY <1>3, <1>5, <1>6, FinishTypes DEF TypeOK

\* The steps of a player list.
LEMMA ListTypes ==
  ASSUME TypeOK, NEW t \in Threads, UpdateCache(t) \/ PushList(t) \/ UpsertPlayers(t)
  PROVE  TypeOK'
<1>1. job[t] \in Lists /\ pc[t] \in {"cache", "view", "rows"}
  BY KindFacts DEF TypeOK, UpdateCache, PushList, UpsertPlayers
<1>2. job[t].server \in Servers /\ job[t].players \in SUBSET Players
  BY <1>1 DEF Lists
<1>3. /\ liveCache \in [Servers -> SUBSET Players] /\ players \in [Servers -> SUBSET Players]
      /\ viewed \in [Servers -> SUBSET Players]
  BY DEF TypeOK, StoreTyped
<1>4. UNCHANGED <<now, lines, access, chatLogs, opLogs, revives, paid, shown, told>>
  BY DEF UpdateCache, PushList, UpsertPlayers, feed, rest
<1>5. /\ liveCache' \in [Servers -> SUBSET Players] /\ players' \in [Servers -> SUBSET Players]
      /\ viewed' \in [Servers -> SUBSET Players]
  <2>1. CASE UpdateCache(t)
    BY <1>2, <1>3, <2>1 DEF UpdateCache
  <2>2. CASE PushList(t)
    BY <1>2, <1>3, <2>2 DEF PushList
  <2>3. CASE UpsertPlayers(t)
    BY <1>2, <1>3, <2>3 DEF UpsertPlayers
  <2> QED
    BY <2>1, <2>2, <2>3
<1>6. StoreTyped'
  BY <1>4, <1>5 DEF TypeOK, StoreTyped, access, keys, relays
<1>7. Grows
  <2>1. serial \in Nat /\ now \in Int /\ Len(opLogs) \in Nat
    BY DEF TypeOK, StoreTyped
  <2> QED
    BY <1>4, <2>1 DEF Grows, access, keys
<1>8. {"cache", "view", "rows"} \subseteq Phases
  BY DEF Phases, Steps
<1>9. Goto(t, "view") \/ Goto(t, "rows") \/ Finish(t)
  BY DEF UpdateCache, PushList, UpsertPlayers
<1> QED
  BY <1>1, <1>6, <1>7, <1>8, <1>9, NextStep, FinishTypes DEF TypeOK

\* Time passes.
LEMMA TickTypes ==
  ASSUME TypeOK, Tick
  PROVE  TypeOK'
<1>1. now \in (Window + Zone)..MaxTime /\ now' = now + 1 /\ now' \in (Window + Zone)..MaxTime
      /\ now \in Nat
  BY IngestAssumption DEF TypeOK, StoreTyped, Tick
<1>2. chatLogs' \subseteq [text : Texts, stamp : 0..now', at : 0..now', n : LineIds]
  <2>1. 0..now \subseteq 0..now'
    BY <1>1
  <2>2. chatLogs' = chatLogs /\ chatLogs \subseteq [text : Texts, stamp : 0..now, at : 0..now, n : LineIds]
    BY DEF TypeOK, StoreTyped, Tick, feed
  <2> QED
    BY <2>1, <2>2
<1>3. StoreTyped'
  BY <1>1, <1>2 DEF TypeOK, StoreTyped, Tick, access, keys, relays, feed, rest
<1>4. Grows
  <2>1. serial' = serial /\ opLogs' = opLogs /\ serial \in Nat /\ Len(opLogs) \in Nat
    BY DEF TypeOK, StoreTyped, Tick, access, keys, relays
  <2> QED
    BY <1>1, <2>1 DEF Grows
<1>5. JobsTyped'
  <2>1. pc' = pc /\ job' = job
    BY DEF Tick
  <2>2. ASSUME NEW t \in Threads PROVE JobTyped(t)'
    <3>1. JobTyped(t) /\ job[t] \in Jobs /\ job'[t] = job[t] /\ pc'[t] = pc[t]
      BY <2>1 DEF TypeOK, JobsTyped
    <3> QED
      BY <1>3, <1>4, <3>1, JobKept DEF TypeOK
  <2> QED
    BY <2>1, <2>2 DEF TypeOK, JobsTyped
<1> QED
  BY <1>3, <1>5 DEF TypeOK

\* Threads that have nothing to do.
LEMMA AllIdle ==
  ASSUME \A t \in Threads : pc[t] = "idle" /\ job[t] = NoJob,
         pc = [t \in Threads |-> "idle"], job = [t \in Threads |-> NoJob]
  PROVE  JobsTyped
<1>1. NoJob \in Jobs /\ NoJob \notin Registrations /\ NoJob \notin Batches /\ NoJob \notin Cameras
  BY DEF Jobs, NoJob, Registrations, Batches, Cameras
<1>2. "idle" \in Phases
  BY DEF Phases
<1>3. pc \in [Threads -> Phases] /\ job \in [Threads -> Jobs]
  BY <1>1, <1>2
<1>4. \A t \in Threads : JobTyped(t)
  BY <1>1 DEF JobTyped
<1> QED
  BY <1>3, <1>4 DEF JobsTyped

LEMMA CrashTypes ==
  ASSUME TypeOK, Crash
  PROVE  TypeOK'
<1>1. /\ UNCHANGED <<now, code, key, asker, handed, held, saved, trial, crossed, serial, chatLogs,
                     shown, told, revives, paid, opLogs, players, lines>>
      /\ liveCache' = NoPlayers /\ viewed' = NoPlayers /\ tailed' = key
  BY DEF Crash, feed, relays
<1>2. NoPlayers \in [Servers -> SUBSET Players]
  BY DEF NoPlayers
<1>3. tailed' \in [Servers -> 1..serial]
  BY <1>1 DEF TypeOK, StoreTyped
<1>4. lost' \subseteq 1..serial
  <2>1. ASSUME NEW t \in Threads, pc[t] = "answer" PROVE job[t].answer \in 1..serial
    <3>1. job[t] \in Registrations /\ job[t].answer <= serial
      BY <2>1, KindFacts DEF TypeOK
    <3> QED
      BY <3>1 DEF Registrations, TypeOK, StoreTyped, LineIds
  <2>2. lost \subseteq 1..serial
    BY DEF TypeOK, StoreTyped
  <2> QED
    BY <2>1, <2>2 DEF Crash
<1>5. StoreTyped'
  BY <1>1, <1>2, <1>3, <1>4 DEF TypeOK, StoreTyped
<1>6. JobsTyped'
  <2>1. pc' = [t \in Threads |-> "idle"] /\ job' = [t \in Threads |-> NoJob]
    BY DEF Crash
  <2>2. NoJob \in Jobs /\ NoJob \notin Registrations /\ NoJob \notin Batches /\ NoJob \notin Cameras
    BY DEF Jobs, NoJob, Registrations, Batches, Cameras
  <2>3. "idle" \in Phases
    BY DEF Phases
  <2>4. pc' \in [Threads -> Phases] /\ job' \in [Threads -> Jobs]
    BY <2>1, <2>2, <2>3
  <2>5. \A t \in Threads : JobTyped(t)'
    BY <2>1, <2>2 DEF JobTyped
  <2> QED
    BY <2>4, <2>5 DEF JobsTyped
<1> QED
  BY <1>5, <1>6 DEF TypeOK

\* A request that comes.
LEMMA RequestTypes ==
  ASSUME TypeOK, NEW t \in Threads, NEW x \in Senders, NEW s \in Servers, Request(t, x, s)
  PROVE  TypeOK'
<1> DEFINE E == [type : LineTypes, text : Texts]
<1>1. CASE x \in Relays /\ Register(t, x, s)
  BY <1>1, RegisterTypes
<1>2. ASSUME NEW type \in {"chat", "revive", "wound"}, NEW text \in Texts,
             PostEvent(t, x, s, type, text)
      PROVE  TypeOK'
  <2>1. type \in LineTypes
    <3>1. /\ Keywords[9] = "chat" /\ Keywords[3] = "revive" /\ Keywords[2] = "wound"
          /\ {2, 3, 9} \subseteq DOMAIN Keywords
      BY DEF Keywords
    <3> QED
      BY <3>1 DEF LineTypes, Range
  <2>2. [type |-> type, text |-> text] \in E
    BY <2>1
  <2>3. <<[type |-> type, text |-> text]>> \in Seq(E) /\ <<[type |-> type, text |-> text]>> # <<>>
    BY <2>2
  <2> QED
    BY <1>2, <2>3, PostTypes DEF PostEvent
<1>3. ASSUME NEW ls, ls \in Seq(LogLines), ls # <<>>, PostRaw(t, x, s, ls)
      PROVE  TypeOK'
  <2> DEFINE es == [i \in DOMAIN ls |-> [type |-> Parsed(ls[i]), text |-> ls[i].text]]
  <2>1. DOMAIN ls = 1..Len(ls) /\ Len(ls) \in Nat /\ Len(ls) # 0
    BY <1>3, LenProperties, EmptySeq
  <2>2. ASSUME NEW i \in 1..Len(ls)
        PROVE  [type |-> Parsed(ls[i]), text |-> ls[i].text] \in E
    <3>1. ls[i] \in LogLines
      BY <1>3, ElementOfSeq
    <3>2. Parsed(ls[i]) \in LineTypes /\ ls[i].text \in Texts
      BY <3>1, ParsedType, IngestAssumption
    <3> QED
      BY <3>2
  <2>3. es \in [1..Len(ls) -> E]
    BY <2>1, <2>2
  <2>4. Post(t, x, s, "raw", es)
    BY <1>3 DEF PostRaw
  <2> HIDE DEF E, es
  <2>5. es \in Seq(E) /\ Len(es) = Len(ls)
    BY <2>1, <2>3, IsASeq, LenProperties
  <2>6. es # <<>>
    BY <2>1, <2>5
  <2> QED
    BY <2>4, <2>5, <2>6, PostTypes DEF E
<1>4. CASE \E a \in LogLines : PostRaw(t, x, s, <<a>>) \/ \E b \in LogLines : PostRaw(t, x, s, <<a, b>>)
  <2>1. PICK a \in LogLines : PostRaw(t, x, s, <<a>>) \/ \E b \in LogLines : PostRaw(t, x, s, <<a, b>>)
    BY <1>4
  <2>2. CASE PostRaw(t, x, s, <<a>>)
    <3>1. <<a>> \in Seq(LogLines) /\ <<a>> # <<>>
      OBVIOUS
    <3> QED
      BY <1>3, <2>2, <3>1
  <2>3. CASE \E b \in LogLines : PostRaw(t, x, s, <<a, b>>)
    <3>1. PICK b \in LogLines : PostRaw(t, x, s, <<a, b>>)
      BY <2>3
    <3>2. <<a, b>> \in Seq(LogLines) /\ <<a, b>> # <<>>
      OBVIOUS
    <3> QED
      BY <1>3, <3>1, <3>2
  <2> QED
    BY <2>1, <2>2, <2>3
<1>5. CASE \E p \in Players, action \in {"possessed", "unpossessed"} : Camera(t, x, s, p, action)
  BY <1>5, CameraTypes
<1>6. CASE \E ps \in SUBSET Players : PostList(t, x, s, ps)
  BY <1>6, PostListTypes
<1> QED
  BY <1>1, <1>2, <1>4, <1>5, <1>6 DEF Request

\* Every step keeps the types.
LEMMA TypeInvariance ==
  TypeOK /\ [Next]_vars => TypeOK'
<1> SUFFICES ASSUME TypeOK, [Next]_vars PROVE TypeOK'
  OBVIOUS
<1>1. ASSUME NEW t \in Threads, Handle(t) PROVE TypeOK'
  <2>1. CASE NewKey(t)
    BY <2>1, NewKeyTypes
  <2>2. CASE Answer(t)
    BY <2>2, AnswerTypes
  <2>3. CASE Skip(t) \/ CheckChat(t) \/ LogChat(t) \/ Revive(t) \/ ScoreRevive(t) \/ Show(t) \/ Tell(t)
    BY <2>3, LineTypesKept
  <2>4. CASE EnterCamera(t) \/ FindFlight(t) \/ LeaveCamera(t)
    BY <2>4, EnterCameraTypes, FindFlightTypes, LeaveCameraTypes
  <2>5. CASE UpdateCache(t) \/ PushList(t) \/ UpsertPlayers(t)
    BY <2>5, ListTypes
  <2> QED
    BY <1>1, <2>1, <2>2, <2>3, <2>4, <2>5 DEF Handle
<1>2. CASE UNCHANGED vars
  <2>1. UNCHANGED storeVars /\ pc' = pc /\ job' = job
    BY <1>2 DEF vars, storeVars, panelVars, relayVars, access, keys, relays, feed, rest
  <2>2. StoreTyped' /\ Grows
    BY <2>1, StoreSame DEF TypeOK
  <2>3. ASSUME NEW t \in Threads PROVE JobTyped(t)'
    <3>1. JobTyped(t) /\ job[t] \in Jobs /\ job'[t] = job[t] /\ pc'[t] = pc[t]
      BY <2>1 DEF TypeOK, JobsTyped
    <3> QED
      BY <2>2, <3>1, JobKept DEF TypeOK
  <2> QED
    BY <2>1, <2>2, <2>3 DEF TypeOK, JobsTyped
<1> QED
  BY <1>1, <1>2, RequestTypes, GenerateCodeTypes, RelayTypes, TickTypes, CrashTypes DEF Next

LEMMA InitTypes == Init => TypeOK
<1> SUFFICES ASSUME Init PROVE TypeOK
  OBVIOUS
<1>1. JobsTyped
  BY AllIdle DEF Init
<1>2. NoPlayers \in [Servers -> SUBSET Players]
  BY DEF NoPlayers
<1>3. now \in (Window + Zone)..MaxTime
  BY IngestAssumption DEF Init
<1>4. serial \in Nat
  BY FS_CardinalityType, IngestAssumption DEF Init
<1>5. /\ code \in [Servers -> 0..serial]
      /\ {key, tailed} \subseteq [Servers -> 1..serial]
      /\ {handed, held, saved} \subseteq [Relays -> 0..serial]
      /\ trial = {} /\ crossed = {} /\ lost = {}
      /\ asker \in [Servers -> Senders]
  <2>1. 0 \in 0..serial /\ Tailer \in Senders
    BY <1>4 DEF Senders
  <2>2. key \in [Servers -> 1..serial]
    BY DEF Init, Injection
  <2> QED
    BY <2>1, <2>2 DEF Init
<1>6. chatLogs = {} /\ IsFiniteSet(chatLogs)
  BY FS_EmptySet DEF Init
<1>7. StoreTyped
  <2>1. lines = 0 /\ opLogs = <<>>
    BY DEF Init
  <2>2. {revives, paid, shown, told} \subseteq SUBSET LineIds
    BY DEF Init
  <2>3. {liveCache, players, viewed} \subseteq [Servers -> SUBSET Players]
    BY <1>2 DEF Init
  <2>4. opLogs \in Seq([server : Servers, player : Players, open : BOOLEAN, leaves : Seq(LineIds)])
    BY <2>1
  <2> QED
    BY <1>3, <1>4, <1>5, <1>6, <2>1, <2>2, <2>3, <2>4 DEF StoreTyped
<1> QED
  BY <1>1, <1>7 DEF TypeOK

\* Every variable keeps its type, and every thread's next step is one of the
\* request it has: the handlers of events, lists and registrations.
THEOREM TypeCorrect == Spec => []TypeOK
<1> QED
  BY InitTypes, TypeInvariance, PTL DEF Spec

--------------------------------------------------------------------------------
(* Who moves, and where to.                                                 *)

\* Nothing about a thread has changed.
Still(u) == pc'[u] = pc[u] /\ job'[u] = job[u]

LEMMA GotoMoves ==
  ASSUME JobsTyped, NEW t \in Threads, NEW p, Goto(t, p)
  PROVE  pc'[t] = p /\ job'[t] = job[t] /\ \A u \in Threads \ {t} : Still(u)
BY DEF Goto, JobsTyped, Still

LEMMA FinishMoves ==
  ASSUME JobsTyped, NEW t \in Threads, Finish(t)
  PROVE  pc'[t] = "idle" /\ job'[t] = NoJob /\ \A u \in Threads \ {t} : Still(u)
BY DEF Finish, JobsTyped, Still

LEMMA BeginMoves ==
  ASSUME JobsTyped, NEW t \in Threads, NEW p, NEW j, Begin(t, p, j)
  PROVE  pc'[t] = p /\ job'[t] = j /\ \A u \in Threads \ {t} : Still(u)
BY DEF Begin, JobsTyped, Still

LEMMA EndLineMoves ==
  ASSUME JobsTyped, NEW t \in Threads, EndLine(t)
  PROVE  pc'[t] \in {"idle", "line"} /\ \A u \in Threads \ {t} : Still(u)
<1>1. CASE Len(job[t].lines) = 1
  BY <1>1, FinishMoves DEF EndLine
<1>2. CASE Len(job[t].lines) # 1
  BY <1>2 DEF EndLine, JobsTyped, Still
<1> QED
  BY <1>1, <1>2

\* Each step of a handler moves one thread.
LEMMA HandleMoves ==
  ASSUME TypeOK, NEW t \in Threads, Handle(t)
  PROVE  /\ \A u \in Threads \ {t} : Still(u)
         /\ NewKey(t) => pc'[t] = "answer" /\ job'[t].answer = serial + 1
                         /\ job'[t].sender = job[t].sender
         /\ Answer(t) \/ EnterCamera(t) \/ LeaveCamera(t) \/ UpsertPlayers(t) => pc'[t] = "idle"
         /\ Skip(t) \/ Tell(t) => pc'[t] \in {"idle", "line"}
         /\ CheckChat(t) => pc'[t] = IF Duplicate(Line(t).text) THEN "show" ELSE "log"
         /\ Revive(t) => pc'[t] = "score"
         /\ LogChat(t) \/ ScoreRevive(t) => pc'[t] = "show"
         /\ CheckChat(t) \/ Revive(t) \/ LogChat(t) \/ ScoreRevive(t) \/ UpdateCache(t) \/ PushList(t)
              => job'[t] = job[t]
         /\ Show(t) => \/ pc'[t] = "plugins" /\ job'[t] = job[t]
                       \/ pc'[t] \in {"idle", "line"}
         /\ FindFlight(t) => pc'[t] = "leave" /\ job'[t].row = LastOpen(t)
         /\ UpdateCache(t) => pc'[t] = "view"
         /\ PushList(t) => pc'[t] = "rows"
<1> JobsTyped
  BY DEF TypeOK
<1>1. NewKey(t) => /\ pc'[t] = "answer" /\ job'[t].answer = serial + 1
                   /\ job'[t].sender = job[t].sender /\ \A u \in Threads \ {t} : Still(u)
  <2> SUFFICES ASSUME NewKey(t)
               PROVE  /\ pc'[t] = "answer" /\ job'[t].answer = serial + 1
                      /\ job'[t].sender = job[t].sender /\ \A u \in Threads \ {t} : Still(u)
    OBVIOUS
  <2>1. job[t] \in Registrations
    BY KindFacts DEF NewKey
  <2>2. pc'[t] = "answer" /\ job'[t] = [job[t] EXCEPT !.answer = serial + 1]
        /\ \A u \in Threads \ {t} : Still(u)
    BY DEF JobsTyped, Still, NewKey
  <2> QED
    BY <2>1, <2>2 DEF Registrations
<1>2. Answer(t) \/ EnterCamera(t) \/ LeaveCamera(t) \/ UpsertPlayers(t) =>
        pc'[t] = "idle" /\ \A u \in Threads \ {t} : Still(u)
  BY FinishMoves DEF Answer, EnterCamera, LeaveCamera, UpsertPlayers
<1>3. Skip(t) \/ Tell(t) => pc'[t] \in {"idle", "line"} /\ \A u \in Threads \ {t} : Still(u)
  BY EndLineMoves DEF Skip, Tell
<1>4. CheckChat(t) => /\ pc'[t] = (IF Duplicate(Line(t).text) THEN "show" ELSE "log")
                      /\ job'[t] = job[t] /\ \A u \in Threads \ {t} : Still(u)
  BY GotoMoves DEF CheckChat
<1>5. Revive(t) => pc'[t] = "score" /\ job'[t] = job[t] /\ \A u \in Threads \ {t} : Still(u)
  BY GotoMoves DEF Revive
<1>6. LogChat(t) \/ ScoreRevive(t) =>
        pc'[t] = "show" /\ job'[t] = job[t] /\ \A u \in Threads \ {t} : Still(u)
  BY GotoMoves DEF LogChat, ScoreRevive
<1>7. Show(t) => /\ (pc'[t] = "plugins" /\ job'[t] = job[t]) \/ pc'[t] \in {"idle", "line"}
                 /\ \A u \in Threads \ {t} : Still(u)
  <2> SUFFICES ASSUME Show(t)
               PROVE  /\ (pc'[t] = "plugins" /\ job'[t] = job[t]) \/ pc'[t] \in {"idle", "line"}
                      /\ \A u \in Threads \ {t} : Still(u)
    OBVIOUS
  <2>1. Goto(t, "plugins") \/ EndLine(t)
    BY DEF Show
  <2> QED
    BY <2>1, GotoMoves, EndLineMoves
<1>8. FindFlight(t) => /\ pc'[t] = "leave" /\ job'[t].row = LastOpen(t)
                       /\ \A u \in Threads \ {t} : Still(u)
  <2> SUFFICES ASSUME FindFlight(t)
               PROVE  /\ pc'[t] = "leave" /\ job'[t].row = LastOpen(t)
                      /\ \A u \in Threads \ {t} : Still(u)
    OBVIOUS
  <2>1. job[t] \in Cameras
    BY KindFacts DEF FindFlight
  <2>2. pc'[t] = "leave" /\ job'[t] = [job[t] EXCEPT !.row = LastOpen(t)]
        /\ \A u \in Threads \ {t} : Still(u)
    BY DEF JobsTyped, Still, FindFlight
  <2> QED
    BY <2>1, <2>2 DEF Cameras
<1>9. UpdateCache(t) => pc'[t] = "view" /\ job'[t] = job[t] /\ \A u \in Threads \ {t} : Still(u)
  BY GotoMoves DEF UpdateCache
<1>10. PushList(t) => pc'[t] = "rows" /\ job'[t] = job[t] /\ \A u \in Threads \ {t} : Still(u)
  BY GotoMoves DEF PushList
<1> QED
  BY <1>1, <1>2, <1>3, <1>4, <1>5, <1>6, <1>7, <1>8, <1>9, <1>10 DEF Handle

\* A request moves one thread from idle.
LEMMA RequestMoves ==
  ASSUME TypeOK, NEW t \in Threads, NEW x \in Senders, NEW s \in Servers, Request(t, x, s)
  PROVE  /\ pc[t] = "idle" /\ \A u \in Threads \ {t} : Still(u)
         /\ pc'[t] \in {"newkey", "line", "enter", "find", "cache"}
         /\ pc'[t] = "newkey" => x \in Relays /\ Register(t, x, s) /\ job'[t].sender = x
         /\ UNCHANGED <<now, code, key, handed, held, lost, serial, chatLogs, shown, told, revives,
                        paid, opLogs, liveCache, players, viewed, done, crashes>>
<1> JobsTyped
  BY DEF TypeOK
<1> DEFINE Same == UNCHANGED <<now, code, key, handed, held, lost, serial, chatLogs, shown, told,
                               revives, paid, opLogs, liveCache, players, viewed, done, crashes>>
           Moved(next) == /\ pc[t] = "idle" /\ (\A u \in Threads \ {t} : Still(u))
                          /\ pc'[t] = next /\ Same
<1>1. CASE x \in Relays /\ Register(t, x, s)
  <2> DEFINE j == [kind |-> "register", sender |-> x, server |-> s, answer |-> key[s]]
  <2>1. Begin(t, "newkey", j) /\ Same /\ j.sender = x
    BY <1>1 DEF Register, access, keys, relays, feed
  <2> HIDE DEF j
  <2>2. Moved("newkey") /\ job'[t].sender = x
    BY <2>1, BeginMoves DEF Begin
  <2> QED
    BY <1>1, <2>2
<1>2. ASSUME NEW route, NEW ls, Post(t, x, s, route, ls) PROVE Moved("line")
  BY <1>2, BeginMoves DEF Post, Begin, access, keys, relays, feed
<1>3. CASE \E type \in {"chat", "revive", "wound"}, text \in Texts : PostEvent(t, x, s, type, text)
  BY <1>2, <1>3 DEF PostEvent
<1>4. CASE \E a \in LogLines : PostRaw(t, x, s, <<a>>) \/ \E b \in LogLines : PostRaw(t, x, s, <<a, b>>)
  BY <1>2, <1>4 DEF PostRaw
<1>5. CASE \E p \in Players, action \in {"possessed", "unpossessed"} : Camera(t, x, s, p, action)
  <2>1. PICK next, j : next \in {"enter", "find"} /\ Begin(t, next, j) /\ Same
    <3>1. PICK p \in Players, action \in {"possessed", "unpossessed"} : Camera(t, x, s, p, action)
      BY <1>5
    <3> QED
      BY <3>1 DEF Camera, access, keys, relays, feed
  <2> QED
    BY <2>1, BeginMoves DEF Begin
<1>6. CASE \E ps \in SUBSET Players : PostList(t, x, s, ps)
  <2>1. PICK j : Begin(t, "cache", j) /\ Same
    BY <1>6 DEF PostList, access, keys, relays, feed
  <2> QED
    BY <2>1, BeginMoves DEF Begin
<1> QED
  BY <1>1, <1>3, <1>4, <1>5, <1>6 DEF Request

\* A step of another kind moves no thread.
Apart ==
    \/ Tick \/ RelaySteps \/ UNCHANGED vars
    \/ \E s \in Servers, xs \in SUBSET Relays : GenerateCode(s, xs)

LEMMA OtherSteps ==
  ASSUME Apart
  PROVE  /\ UNCHANGED <<pc, job, key, tailed, asker, chatLogs, shown, told, revives, paid, opLogs,
                        liveCache, players, viewed, done>>
         /\ now' \in {now, now + 1} /\ serial' \in {serial, serial + 1}
BY DEF Apart, Tick, GenerateCode, RelaySteps, vars, access, keys, relays, feed, rest

\* The steps there are.
LEMMA StepCases ==
  ASSUME [Next]_vars
  PROVE  \/ \E t \in Threads : Handle(t)
         \/ \E t \in Threads, x \in Senders, s \in Servers : Request(t, x, s)
         \/ Apart
         \/ Crash
BY DEF Next, Apart

\* After a crash nobody is handling anything.
LEMMA CrashMoves ==
  ASSUME Crash
  PROVE  /\ \A t \in Threads : pc'[t] = "idle"
         /\ UNCHANGED <<now, key, serial, chatLogs, shown, told, revives, paid, opLogs, done>>
BY DEF Crash, feed

--------------------------------------------------------------------------------
(* Revives.                                                                 *)

\* No step lets the points come before the row.
LEMMA PaidStep ==
  ASSUME TypeOK, ReviveFirst, PaidIsRecorded, [Next]_vars
  PROVE  ReviveFirst' /\ PaidIsRecorded'
<1>1. ASSUME NEW t \in Threads, Handle(t) PROVE ReviveFirst' /\ PaidIsRecorded'
  <2>1. revives \subseteq revives'
    BY <1>1 DEF Handle, NewKey, Answer, Skip, CheckChat, LogChat, Revive, ScoreRevive, Show, Tell,
       EnterCamera, FindFlight, LeaveCamera, UpdateCache, PushList, UpsertPlayers
  <2>2. ASSUME NEW u \in Threads, u # t, pc'[u] = "score" PROVE Line(u)'.n \in revives'
    <3>1. Still(u)
      BY <1>1, <2>2, HandleMoves
    <3> QED
      BY <2>1, <2>2, <3>1 DEF Still, Line, ReviveFirst
  <2>3. pc'[t] = "score" => Line(t)'.n \in revives'
    <3>1. CASE Revive(t)
      <4>1. job'[t] = job[t] /\ revives' = revives \cup {Line(t).n}
        BY <1>1, <3>1, HandleMoves DEF Revive
      <4> QED
        BY <4>1 DEF Line
    <3>2. CASE ~Revive(t)
      <4>1. pc'[t] # "score"
        BY <1>1, <3>2, HandleMoves DEF Handle
      <4> QED
        BY <4>1
    <3> QED
      BY <3>1, <3>2
  <2>4. PaidIsRecorded'
    <3>1. CASE ScoreRevive(t)
      BY <3>1 DEF ScoreRevive, ReviveFirst, PaidIsRecorded
    <3>2. CASE ~ScoreRevive(t)
      <4>1. paid' = paid
        BY <1>1, <3>2 DEF Handle, NewKey, Answer, Skip, CheckChat, LogChat, Revive, Show, Tell,
           EnterCamera, FindFlight, LeaveCamera, UpdateCache, PushList, UpsertPlayers
      <4> QED
        BY <2>1, <4>1 DEF PaidIsRecorded
    <3> QED
      BY <3>1, <3>2
  <2> QED
    BY <2>2, <2>3, <2>4 DEF ReviveFirst
<1>2. ASSUME NEW t \in Threads, NEW x \in Senders, NEW s \in Servers, Request(t, x, s)
      PROVE  ReviveFirst' /\ PaidIsRecorded'
  <2>1. /\ \A u \in Threads \ {t} : Still(u)
        /\ pc'[t] # "score" /\ revives' = revives /\ paid' = paid
    BY <1>2, RequestMoves
  <2> QED
    BY <2>1 DEF Still, Line, ReviveFirst, PaidIsRecorded
<1>3. CASE Apart
  <2>1. UNCHANGED <<pc, job, revives, paid>>
    BY <1>3, OtherSteps
  <2> QED
    BY <2>1 DEF Line, ReviveFirst, PaidIsRecorded
<1>4. CASE Crash
  <2>1. (\A t \in Threads : pc'[t] = "idle") /\ UNCHANGED <<revives, paid>>
    BY <1>4, CrashMoves
  <2> QED
    BY <2>1 DEF ReviveFirst, PaidIsRecorded
<1> QED
  BY <1>1, <1>2, <1>3, <1>4, StepCases

\* Points for a revive are given only for a row that is in the table already,
\* wherever the panel dies: the order of the two statements of the revive handler.
THEOREM PaidAfterTheRow == Spec => []PaidIsRecorded
<1>1. Init => ReviveFirst /\ PaidIsRecorded
  BY DEF Init, ReviveFirst, PaidIsRecorded
<1> QED
  BY <1>1, TypeCorrect, PaidStep, PTL DEF Spec

--------------------------------------------------------------------------------
(* Chat.                                                                    *)

\* What only gets more.
LEMMA FeedGrows ==
  ASSUME TypeOK, [Next]_vars
  PROVE  chatLogs \subseteq chatLogs' /\ shown \subseteq shown' /\ told \subseteq told'
<1>1. ASSUME NEW t \in Threads, Handle(t)
      PROVE  chatLogs \subseteq chatLogs' /\ shown \subseteq shown' /\ told \subseteq told'
  BY <1>1 DEF Handle, NewKey, Answer, Skip, CheckChat, LogChat, Revive, ScoreRevive, Show, Tell,
     EnterCamera, FindFlight, LeaveCamera, UpdateCache, PushList, UpsertPlayers, feed
<1> QED
  BY <1>1, StepCases, RequestMoves, OtherSteps, CrashMoves

\* A message that was logged stays.
LEMMA LoggedStays ==
  ASSUME TypeOK, [Next]_vars, NEW text, NEW time, Logged(text, time)
  PROVE  Logged(text, time)'
BY FeedGrows DEF Logged

\* The handler gets to the broadcast only if the message has been logged, and to
\* the plugins only after it.
LEMMA ServedStep ==
  ASSUME TypeOK, LineServed, [Next]_vars
  PROVE  LineServed'
<1>1. ASSUME NEW u \in Threads, Still(u)
      PROVE  /\ pc'[u] \in {"show", "plugins"} /\ Line(u)'.type = "chat" =>
                  Logged(Line(u).text, job[u].start)'
             /\ pc'[u] = "plugins" => Line(u)'.n \in shown'
             /\ pc'[u] = "score" => Line(u)'.type = "revive"
  <2>1. Line(u)' = Line(u) /\ job'[u].start = job[u].start /\ pc'[u] = pc[u]
    BY <1>1 DEF Still, Line
  <2>2. pc[u] \in {"show", "plugins"} /\ Line(u).type = "chat" =>
          Logged(Line(u).text, job[u].start)
    BY DEF LineServed
  <2>3. pc'[u] \in {"show", "plugins"} /\ Line(u)'.type = "chat" =>
          Logged(Line(u).text, job[u].start)'
    BY <2>1, <2>2, FeedGrows DEF Logged
  <2>4. pc'[u] = "plugins" => Line(u)'.n \in shown'
    BY <2>1, FeedGrows DEF LineServed
  <2>5. pc'[u] = "score" => Line(u)'.type = "revive"
    BY <2>1 DEF LineServed
  <2> QED
    BY <2>3, <2>4, <2>5
<1>2. ASSUME NEW t \in Threads, Handle(t)
      PROVE  /\ pc'[t] \in {"show", "plugins"} /\ Line(t)'.type = "chat" =>
                  Logged(Line(t).text, job[t].start)'
             /\ pc'[t] = "plugins" => Line(t)'.n \in shown'
             /\ pc'[t] = "score" => Line(t)'.type = "revive"
  <2>0. now \in Nat /\ Window \in Nat /\ Zone \in Nat /\ Window > 0
    BY IngestAssumption DEF TypeOK, StoreTyped
  <2>1. CASE CheckChat(t)
    <3>1. job'[t] = job[t] /\ Line(t)' = Line(t) /\ pc'[t] \notin {"plugins", "score"}
          /\ chatLogs' = chatLogs /\ pc[t] = "line"
      BY <1>2, <2>1, HandleMoves DEF CheckChat, Line, feed
    <3>2. job[t].start \in Nat /\ job[t].start <= now
      BY <3>1, LineFacts DEF TypeOK
    <3>3. ASSUME pc'[t] = "show" PROVE Logged(Line(t).text, job[t].start)
      <4>1. Duplicate(Line(t).text)
        BY <1>2, <2>1, <3>3, HandleMoves
      <4>2. PICK r \in chatLogs : r.text = Line(t).text /\ r.stamp + Zone > now - Window
        BY <4>1 DEF Duplicate
      <4>3. r.stamp \in 0..now
        BY DEF TypeOK, StoreTyped
      <4>4. r.stamp + Window + Zone > job[t].start
        BY <2>0, <3>2, <4>2, <4>3
      <4> QED
        BY <4>2, <4>4 DEF Logged
    <3> QED
      BY <3>1, <3>3 DEF Logged
  <2>2. CASE LogChat(t)
    <3>1. job'[t] = job[t] /\ Line(t)' = Line(t) /\ pc'[t] = "show" /\ pc[t] = "log"
      BY <1>2, <2>2, HandleMoves DEF LogChat, Line
    <3>2. job[t].start \in Nat
      BY <3>1, LineFacts DEF TypeOK
    <3> DEFINE r == [text |-> Line(t).text, stamp |-> job[t].start, at |-> now, n |-> Line(t).n]
    <3>3. r \in chatLogs' /\ r.text = Line(t).text /\ r.stamp + Window + Zone > job[t].start
      BY <2>0, <2>2, <3>2 DEF LogChat
    <3> QED
      BY <3>1, <3>3 DEF Logged
  <2>3. CASE Show(t)
    <3>1. CASE pc'[t] = "plugins" /\ job'[t] = job[t]
      <4>1. Line(t)' = Line(t) /\ job'[t].start = job[t].start
        BY <3>1 DEF Line
      <4>2. Line(t).n \in shown' /\ chatLogs' = chatLogs
        BY <2>3 DEF Show
      <4>3. Line(t).type = "chat" => pc[t] = "show"
        BY <2>3 DEF Show
      <4> QED
        BY <3>1, <4>1, <4>2, <4>3 DEF LineServed, Logged
    <3>2. CASE pc'[t] \in {"idle", "line"}
      BY <3>2
    <3> QED
      BY <1>2, <2>3, <3>1, <3>2, HandleMoves
  <2>4. CASE ScoreRevive(t)
    <3>1. job'[t] = job[t] /\ Line(t)' = Line(t) /\ pc'[t] = "show" /\ pc[t] = "score"
      BY <1>2, <2>4, HandleMoves DEF Line, ScoreRevive
    <3>2. Line(t)'.type = "revive"
      BY <3>1 DEF LineServed
    <3> QED
      BY <3>1, <3>2
  <2>5. CASE Revive(t)
    <3>1. job'[t] = job[t] /\ Line(t)' = Line(t) /\ pc'[t] = "score" /\ Line(t).type = "revive"
      BY <1>2, <2>5, HandleMoves DEF Line, Revive
    <3> QED
      BY <3>1
  <2>6. CASE ~(CheckChat(t) \/ LogChat(t) \/ Show(t) \/ ScoreRevive(t) \/ Revive(t))
    <3>1. pc'[t] \notin {"show", "plugins", "score"}
      BY <1>2, <2>6, HandleMoves DEF Handle
    <3> QED
      BY <3>1
  <2> QED
    BY <2>1, <2>2, <2>3, <2>4, <2>5, <2>6
<1>3. ASSUME NEW t \in Threads, Handle(t) PROVE LineServed'
  <2>1. \A u \in Threads \ {t} : Still(u)
    BY <1>3, HandleMoves
  <2> QED
    BY <1>1, <1>2, <1>3, <2>1 DEF LineServed
<1>4. ASSUME NEW t \in Threads, NEW x \in Senders, NEW s \in Servers, Request(t, x, s)
      PROVE  LineServed'
  <2>1. (\A u \in Threads \ {t} : Still(u)) /\ pc'[t] \notin {"show", "plugins", "score"}
    BY <1>4, RequestMoves
  <2> QED
    BY <1>1, <2>1 DEF LineServed
<1>5. CASE Apart
  <2>1. \A u \in Threads : Still(u)
    BY <1>5, OtherSteps DEF Still
  <2> QED
    BY <1>1, <2>1 DEF LineServed
<1>6. CASE Crash
  <2>1. \A t \in Threads : pc'[t] \notin {"show", "plugins", "score"}
    BY <1>6, CrashMoves
  <2> QED
    BY <2>1 DEF LineServed
<1> QED
  BY <1>3, <1>4, <1>5, <1>6, StepCases

\* A line is done with only after all that is due to it.
LEMMA DoneStep ==
  ASSUME TypeOK, LineServed, ChatIsServed, [Next]_vars
  PROVE  ChatIsServed'
<1> DEFINE D(t) == [n |-> Line(t).n, type |-> Line(t).type, text |-> Line(t).text,
                    start |-> job[t].start, route |-> job[t].route]
           Served(d) == /\ Logged(d.text, d.start)
                        /\ d.n \in shown
                        /\ d.route = "raw" => d.n \in told
<1>1. ASSUME NEW d \in done', d.type = "chat", d \notin done
      PROVE  Served(d)'
  <2>1. PICK t \in Threads : Handle(t) /\ EndLine(t) /\ (Skip(t) \/ Show(t) \/ Tell(t))
    <3>1. done' # done
      BY <1>1
    <3>2. PICK t \in Threads : Handle(t)
      BY <3>1, StepCases, RequestMoves, OtherSteps, CrashMoves
    <3>3. Skip(t) \/ Show(t) \/ Tell(t)
      BY <3>1, <3>2 DEF Handle, NewKey, Answer, CheckChat, LogChat, Revive, ScoreRevive,
         EnterCamera, FindFlight, LeaveCamera, UpdateCache, PushList, UpsertPlayers
    <3>4. EndLine(t)
      BY <3>1, <3>3 DEF Skip, Show, Tell
    <3> QED
      BY <3>2, <3>3, <3>4
  <2>2. d = D(t)
    BY <1>1, <2>1 DEF EndLine
  <2>3. d.type = Line(t).type /\ d.n = Line(t).n /\ d.text = Line(t).text
        /\ d.start = job[t].start /\ d.route = job[t].route
    BY <2>2
  <2>4. CASE Skip(t)
    BY <1>1, <2>3, <2>4 DEF Skip
  <2>5. CASE Show(t)
    <3>1. pc[t] = "show" /\ shown' = shown \cup {Line(t).n}
      BY <1>1, <2>3, <2>5 DEF Show
    <3>2. job[t].route # "raw"
      <4>1. CASE job[t].route = "raw"
        <5>1. Goto(t, "plugins")
          BY <1>1, <2>3, <2>5, <4>1 DEF Show
        <5>2. pc'[t] = "plugins"
          BY <5>1, GotoMoves DEF TypeOK
        <5> QED
          BY <2>1, <5>2, EndLineMoves DEF TypeOK
      <4> QED
        BY <4>1
    <3>3. Logged(d.text, d.start)
      BY <1>1, <2>3, <3>1 DEF LineServed
    <3>4. Logged(d.text, d.start)'
      BY <3>3, FeedGrows DEF Logged
    <3> QED
      BY <2>3, <3>1, <3>2, <3>4
  <2>6. CASE Tell(t)
    <3>1. pc[t] = "plugins" /\ told' = told \cup {Line(t).n}
      BY <2>6 DEF Tell
    <3>2. Logged(d.text, d.start) /\ Line(t).n \in shown
      BY <1>1, <2>3, <3>1 DEF LineServed
    <3>3. Logged(d.text, d.start)' /\ Line(t).n \in shown'
      BY <3>2, FeedGrows DEF Logged
    <3> QED
      BY <2>3, <3>1, <3>3
  <2> QED
    BY <2>1, <2>4, <2>5, <2>6
<1>2. ASSUME NEW d \in done', d.type = "chat", d \in done
      PROVE  Served(d)'
  <2>1. Served(d)
    BY <1>2 DEF ChatIsServed, Logged
  <2> QED
    BY <2>1, FeedGrows DEF Logged
<1>3. \A d \in done' : d.type = "chat" => Served(d)'
  BY <1>1, <1>2
<1> QED
  BY <1>3 DEF ChatIsServed, Logged

\* The check for duplicates loses no message: whatever the interleaving, and
\* wherever the panel dies, a message whose handling has come to its end is in
\* chat_logs, was broadcast, and has reached the plugins if it was a log line.
THEOREM NoMessageIsLost == Spec => []ChatIsServed
<1>1. Init => LineServed /\ ChatIsServed
  BY DEF Init, LineServed, ChatIsServed
<1> QED
  BY <1>1, TypeCorrect, ServedStep, DoneStep, PTL DEF Spec

\* The sets that are counted are finite.
LEMMA CopiesFinite ==
  ASSUME TypeOK, NEW text, NEW v
  PROVE  /\ IsFiniteSet(Copies(text, v)) /\ Cardinality(Copies(text, v)) \in Nat
         /\ IsFiniteSet(Logging(text)) /\ Cardinality(Logging(text)) \in Nat
         /\ Cardinality(Threads) \in Nat /\ Cardinality(Logging(text)) <= Cardinality(Threads)
<1>1. Copies(text, v) \subseteq chatLogs /\ IsFiniteSet(chatLogs)
  BY DEF Copies, TypeOK, StoreTyped
<1>2. Logging(text) \subseteq Threads /\ IsFiniteSet(Threads)
  BY IngestAssumption DEF Logging
<1> QED
  BY <1>1, <1>2, FS_Subset, FS_CardinalityType

\* No copy is added, and no thread has got to where it adds one.
LEMMA CopiesQuiet ==
  ASSUME TypeOK, TypeOK', NEW text, NEW v \in Nat, CopiesFit(text, v),
         Copies(text, v)' = Copies(text, v), Logging(text)' \subseteq Logging(text), now <= now'
  PROVE  CopiesFit(text, v)'
<1> DEFINE C == Cardinality(Copies(text, v))
           L == Cardinality(Logging(text))
           M == Cardinality(Logging(text)')
           N == Cardinality(Threads)
<1>1. C \in Nat /\ L \in Nat /\ M \in Nat /\ N \in Nat
  <2>1. IsFiniteSet(Logging(text)')
    BY CopiesFinite, FS_Subset
  <2> QED
    BY <2>1, CopiesFinite, FS_CardinalityType
<1>2. M <= L
  BY CopiesFinite, FS_Subset
<1>3. now \in Nat /\ now' \in Nat /\ Window \in Nat /\ Zone \in Nat
  BY IngestAssumption DEF TypeOK, StoreTyped
<1>4. now' < v + Window + Zone => now < v + Window + Zone
  BY <1>3
<1>5. C <= N /\ (Copies(text, v) # {} /\ now < v + Window + Zone => C + L <= N)
  BY DEF CopiesFit
<1>6. Cardinality(Copies(text, v)') = C /\ Cardinality(Logging(text))' = M
  OBVIOUS
<1> HIDE DEF C, L, M, N
<1>7. Copies(text, v) # {} /\ now' < v + Window + Zone => C + M <= N
  BY <1>1, <1>2, <1>4, <1>5
<1> QED
  BY <1>5, <1>6, <1>7 DEF CopiesFit, N

\* A copy is logged by a thread that was about to.
LEMMA CopyLogged ==
  ASSUME TypeOK, TypeOK', NEW text \in Texts, NEW v \in Nat, CopiesFit(text, v),
         NEW t \in Threads, LogChat(t)
  PROVE  CopiesFit(text, v)'
<1> DEFINE r == [text |-> Line(t).text, stamp |-> job[t].start, at |-> now, n |-> Line(t).n]
           counts == r.text = text /\ r.stamp >= v /\ r.at < v + Window + Zone
<1>1. chatLogs' = chatLogs \cup {r} /\ now' = now /\ pc[t] = "log"
  BY DEF LogChat
<1>2. pc'[t] = "show" /\ \A u \in Threads \ {t} : Still(u)
  BY HandleMoves DEF Handle
<1>3. Logging(text)' = Logging(text) \ {t}
  BY <1>2 DEF Logging, Still, Line
<1>4. CASE ~counts
  <2>1. Copies(text, v)' = Copies(text, v)
    BY <1>1, <1>4 DEF Copies
  <2>2. now <= now'
    BY <1>1 DEF TypeOK, StoreTyped
  <2> QED
    BY <1>3, <2>1, <2>2, CopiesQuiet
<1>5. CASE counts
  <2> DEFINE C == Cardinality(Copies(text, v))
             D == Cardinality(Copies(text, v)')
             L == Cardinality(Logging(text))
             M == Cardinality(Logging(text)')
             N == Cardinality(Threads)
  <2>1. Copies(text, v)' = Copies(text, v) \cup {r}
    BY <1>1, <1>5 DEF Copies
  <2>2. t \in Logging(text)
    BY <1>1, <1>5 DEF Logging
  <2>3. C \in Nat /\ L \in Nat /\ N \in Nat /\ L <= N
    BY CopiesFinite
  <2>4. D \in Nat /\ D <= C + 1
    <3> HIDE DEF r
    <3>1. IsFiniteSet(Copies(text, v)) /\ C \in Nat
      BY CopiesFinite
    <3>2. \/ Cardinality(Copies(text, v) \cup {r}) = C
          \/ Cardinality(Copies(text, v) \cup {r}) = C + 1
      BY <3>1, FS_AddElement
    <3>3. D = Cardinality(Copies(text, v) \cup {r})
      BY <2>1
    <3> HIDE DEF C, D
    <3> QED
      BY <3>1, <3>2, <3>3
  <2>5. M = L - 1
    BY <1>3, <2>2, CopiesFinite, FS_RemoveElement
  <2>6. Copies(text, v) # {} => C + L <= N
    BY <1>1, <1>5 DEF CopiesFit
  <2>7. Copies(text, v) = {} => C = 0
    BY FS_EmptySet
  <2>8. Cardinality(Copies(text, v))' = D /\ Cardinality(Logging(text))' = M
    OBVIOUS
  <2>9. L >= 1
    <3>1. L # 0
      BY <2>2, CopiesFinite, FS_EmptySet
    <3> QED
      BY <2>3, <3>1
  <2> HIDE DEF C, D, L, M, N
  <2>10. D + M <= N
    BY <2>3, <2>4, <2>5, <2>6, <2>7
  <2>11. D <= N
    BY <2>3, <2>4, <2>5, <2>9, <2>10
  <2> QED
    BY <2>8, <2>10, <2>11 DEF CopiesFit, N
<1> QED
  BY <1>4, <1>5

\* A thread that finds no copy has looked when there was none.
LEMMA CopyChecked ==
  ASSUME TypeOK, TypeOK', NEW text \in Texts, NEW v \in Nat, CopiesFit(text, v),
         NEW t \in Threads, CheckChat(t)
  PROVE  CopiesFit(text, v)'
<1>1. chatLogs' = chatLogs /\ now' = now /\ now \in Nat /\ Window \in Nat /\ Zone \in Nat
  BY IngestAssumption DEF CheckChat, feed, TypeOK, StoreTyped
<1>2. Copies(text, v)' = Copies(text, v)
  BY <1>1 DEF Copies
<1>3. /\ pc'[t] = (IF Duplicate(Line(t).text) THEN "show" ELSE "log")
      /\ job'[t] = job[t] /\ \A u \in Threads \ {t} : Still(u)
  BY HandleMoves DEF Handle
<1>4. CASE Copies(text, v) # {} /\ now < v + Window + Zone
  <2>1. PICK r \in chatLogs : r.text = text /\ r.stamp >= v
    BY <1>4 DEF Copies
  <2>2. r.stamp \in 0..now
    BY DEF TypeOK, StoreTyped
  <2>3. r.stamp + Zone > now - Window
    BY <1>1, <1>4, <2>1, <2>2
  <2>4. Duplicate(text)
    BY <2>1, <2>3 DEF Duplicate
  <2>5. t \notin Logging(text)'
    <3>1. CASE Line(t).text = text
      <4>1. Duplicate(Line(t).text)
        BY <2>4, <3>1 DEF Duplicate
      <4>2. pc'[t] # "log"
        BY <1>3, <4>1
      <4> QED
        BY <4>2 DEF Logging
    <3>2. CASE Line(t).text # text
      BY <1>3, <3>2 DEF Logging, Line
    <3> QED
      BY <3>1, <3>2
  <2>6. Logging(text)' \subseteq Logging(text)
    BY <1>3, <2>5 DEF Logging, Still, Line
  <2> QED
    BY <1>1, <1>2, <2>6, CopiesQuiet
<1>5. CASE ~(Copies(text, v) # {} /\ now < v + Window + Zone)
  BY <1>1, <1>2, <1>5 DEF CopiesFit
<1> QED
  BY <1>4, <1>5

LEMMA CopiesStep ==
  ASSUME TypeOK, TypeOK', CopiesCounted, [Next]_vars
  PROVE  CopiesCounted'
<1> SUFFICES ASSUME NEW text \in Texts, NEW v \in Nat PROVE CopiesFit(text, v)'
  BY DEF CopiesCounted
<1>0. CopiesFit(text, v)
  BY DEF CopiesCounted
<1>1. now \in Nat /\ now <= now
  BY IngestAssumption DEF TypeOK, StoreTyped
<1>2. ASSUME NEW t \in Threads, Handle(t), ~LogChat(t), ~CheckChat(t) PROVE CopiesFit(text, v)'
  <2>1. chatLogs' = chatLogs /\ now' = now
    BY <1>2 DEF Handle, NewKey, Answer, Skip, Revive, ScoreRevive, Show, Tell,
     EnterCamera, FindFlight, LeaveCamera, UpdateCache, PushList, UpsertPlayers, feed
  <2>2. pc'[t] # "log" /\ \A u \in Threads \ {t} : Still(u)
    BY <1>2, HandleMoves DEF Handle
  <2>3. Logging(text)' \subseteq Logging(text)
    BY <2>2 DEF Logging, Still, Line
  <2>4. Copies(text, v)' = Copies(text, v)
    BY <2>1 DEF Copies
  <2> QED
    BY <1>0, <1>1, <2>1, <2>3, <2>4, CopiesQuiet
<1>3. ASSUME NEW t \in Threads, NEW x \in Senders, NEW s \in Servers, Request(t, x, s)
      PROVE  CopiesFit(text, v)'
  <2>1. (\A u \in Threads \ {t} : Still(u)) /\ pc'[t] # "log" /\ chatLogs' = chatLogs /\ now' = now
    BY <1>3, RequestMoves
  <2>2. Logging(text)' \subseteq Logging(text)
    BY <2>1 DEF Logging, Still, Line
  <2>3. Copies(text, v)' = Copies(text, v)
    BY <2>1 DEF Copies
  <2> QED
    BY <1>0, <1>1, <2>1, <2>2, <2>3, CopiesQuiet
<1>4. CASE Apart
  <2>1. UNCHANGED <<pc, job, chatLogs>> /\ now' \in {now, now + 1}
    BY <1>4, OtherSteps
  <2>2. Copies(text, v)' = Copies(text, v) /\ Logging(text)' \subseteq Logging(text)
    BY <2>1 DEF Copies, Logging, Line
  <2>3. now <= now'
    BY <1>1, <2>1
  <2> QED
    BY <1>0, <2>2, <2>3, CopiesQuiet
<1>5. CASE Crash
  <2>1. (\A t \in Threads : pc'[t] = "idle") /\ chatLogs' = chatLogs /\ now' = now
    BY <1>5, CrashMoves
  <2>2. Copies(text, v)' = Copies(text, v) /\ Logging(text)' \subseteq Logging(text)
    BY <2>1 DEF Copies, Logging
  <2> QED
    BY <1>0, <1>1, <2>1, <2>2, CopiesQuiet
<1> QED
  BY <1>0, <1>2, <1>3, <1>4, <1>5, CopyLogged, CopyChecked, StepCases

\* The check for a duplicate and the INSERT are two statements, but of the copies
\* of a message stamped and logged within one window there are never more than
\* threads, however many requests, relays and restarts: once one is logged, only a
\* thread that had looked before it can log another.
THEOREM CopiesAreBounded == Spec => []CopiesBounded
<1>1. Init => CopiesCounted
  <2> SUFFICES ASSUME Init, NEW text \in Texts, NEW v \in Nat PROVE CopiesFit(text, v)
    BY DEF CopiesCounted
  <2>1. Copies(text, v) = {}
    BY DEF Init, Copies
  <2>2. Cardinality(Copies(text, v)) = 0 /\ Cardinality(Threads) \in Nat
    BY <2>1, FS_EmptySet, IngestAssumption, FS_CardinalityType
  <2> QED
    BY <2>1, <2>2 DEF CopiesFit
<1>2. TypeOK /\ CopiesCounted => CopiesBounded
  <2> SUFFICES ASSUME TypeOK, CopiesCounted, NEW r \in chatLogs
               PROVE  Cardinality({x \in chatLogs : /\ x.text = r.text /\ x.stamp >= r.stamp
                                                    /\ x.at < r.stamp + Window + Zone})
                        <= Cardinality(Threads)
    BY DEF CopiesBounded, CopiesOverlap
  <2>1. r.text \in Texts /\ r.stamp \in 0..now
    BY DEF TypeOK, StoreTyped
  <2>2. r.stamp \in Nat
    BY <2>1
  <2> QED
    BY <2>1, <2>2 DEF CopiesCounted, CopiesFit, Copies
<1>3. TypeOK /\ TypeOK' /\ CopiesCounted /\ [Next]_vars => CopiesCounted'
  BY CopiesStep
<1> QED
  BY <1>1, <1>2, <1>3, TypeCorrect, PTL DEF Spec

--------------------------------------------------------------------------------
(* The camera.                                                              *)

LEMMA LeavingFinite ==
  ASSUME TypeOK, NEW i
  PROVE  /\ IsFiniteSet(Leaving(i)) /\ Cardinality(Leaving(i)) \in Nat
         /\ Cardinality(Threads) \in Nat /\ Cardinality(Leaving(i)) <= Cardinality(Threads)
<1>1. Leaving(i) \subseteq Threads /\ IsFiniteSet(Threads)
  BY IngestAssumption DEF Leaving
<1> QED
  BY <1>1, FS_Subset, FS_CardinalityType

\* Rows and the threads that leave them.
LEMMA RowFacts ==
  ASSUME TypeOK
  PROVE  /\ DOMAIN opLogs = 1..Len(opLogs) /\ Len(opLogs) \in Nat
         /\ \A i \in DOMAIN opLogs : /\ opLogs[i].leaves \in Seq(LineIds)
                                     /\ opLogs[i].open \in BOOLEAN
                                     /\ Len(opLogs[i].leaves) \in Nat
         /\ \A t \in Threads : \A i : t \in Leaving(i) => i \in 0..Len(opLogs)
<1> DEFINE F == [server : Servers, player : Players, open : BOOLEAN, leaves : Seq(LineIds)]
<1>1. opLogs \in Seq(F)
  BY DEF TypeOK, StoreTyped
<1>2. DOMAIN opLogs = 1..Len(opLogs) /\ Len(opLogs) \in Nat
  <2> HIDE DEF F
  <2> QED
    BY <1>1, LenProperties
<1>3. ASSUME NEW i \in DOMAIN opLogs
      PROVE  /\ opLogs[i].leaves \in Seq(LineIds) /\ opLogs[i].open \in BOOLEAN
             /\ Len(opLogs[i].leaves) \in Nat
  <2>1. opLogs[i] \in F
    <3> HIDE DEF F
    <3> QED
      BY <1>1, <1>2, ElementOfSeq
  <2>2. opLogs[i].leaves \in Seq(LineIds) /\ opLogs[i].open \in BOOLEAN
    BY <2>1
  <2> QED
    BY <2>2, LenProperties
<1>4. ASSUME NEW t \in Threads, NEW i, t \in Leaving(i) PROVE i \in 0..Len(opLogs)
  <2>1. pc[t] = "leave" /\ job[t].row = i
    BY <1>4 DEF Leaving
  <2>2. job[t] \in Cameras /\ job[t].row <= Len(opLogs)
    BY <2>1, KindFacts DEF TypeOK
  <2> QED
    BY <1>2, <2>1, <2>2 DEF Cameras
<1> QED
  BY <1>2, <1>3, <1>4

\* The row is as it was, and no other thread leaves it.
LEMMA LeavesQuiet ==
  ASSUME TypeOK, NEW i \in DOMAIN opLogs, LeavesFit(i),
         opLogs'[i] = opLogs[i], Leaving(i)' \subseteq Leaving(i)
  PROVE  LeavesFit(i)'
<1> DEFINE L == Cardinality(Leaving(i))
           M == Cardinality(Leaving(i)')
           N == Cardinality(Threads)
           K == Len(opLogs[i].leaves)
<1>1. IsFiniteSet(Leaving(i)') /\ M <= L
  BY LeavingFinite, FS_Subset
<1>2. L \in Nat /\ M \in Nat /\ N \in Nat /\ K \in Nat
  BY <1>1, LeavingFinite, RowFacts, FS_CardinalityType
<1>3. (opLogs[i].open => opLogs[i].leaves = <<>>) /\ K + L <= N
  BY DEF LeavesFit
<1>4. Cardinality(Leaving(i))' = M
  OBVIOUS
<1>5. K + M <= N
  <2> HIDE DEF K, L, M, N
  <2> QED
    BY <1>1, <1>2, <1>3
<1> QED
  BY <1>3, <1>4, <1>5 DEF LeavesFit

\* A row that is new, or was found without its leave.
LEMMA LeavesFresh ==
  ASSUME TypeOK', NEW i, opLogs'[i].leaves = <<>>
  PROVE  LeavesFit(i)'
<1> DEFINE M == Cardinality(Leaving(i))
<1>1. M' \in Nat /\ Cardinality(Threads) \in Nat /\ M' <= Cardinality(Threads)
  <2>1. Leaving(i)' \subseteq Threads /\ IsFiniteSet(Threads)
    BY IngestAssumption DEF Leaving
  <2> QED
    BY <2>1, FS_Subset, FS_CardinalityType
<1>2. Len(opLogs'[i].leaves) = 0
  OBVIOUS
<1> QED
  BY <1>1, <1>2 DEF LeavesFit

LEMMA FindStep ==
  ASSUME TypeOK, TypeOK', LeavesCounted, NEW t \in Threads, FindFlight(t)
  PROVE  LeavesCounted'
<1>1. opLogs' = opLogs /\ pc'[t] = "leave" /\ job'[t].row = LastOpen(t)
      /\ \A u \in Threads \ {t} : Still(u)
  BY HandleMoves DEF Handle, FindFlight
<1>2. ASSUME NEW i \in DOMAIN opLogs PROVE LeavesFit(i)'
  <2>1. CASE LastOpen(t) = i
    <3>1. opLogs[i].open
      BY <1>2, <2>1, LastOpenFacts, RowFacts
    <3>2. opLogs'[i].leaves = <<>>
      BY <1>1, <3>1 DEF LeavesCounted, LeavesFit
    <3> QED
      BY <3>2, LeavesFresh
  <2>2. CASE LastOpen(t) # i
    <3>1. Leaving(i)' \subseteq Leaving(i)
      BY <1>1, <2>2 DEF Leaving, Still
    <3> QED
      BY <1>1, <3>1, LeavesQuiet DEF LeavesCounted
  <2> QED
    BY <2>1, <2>2
<1> QED
  BY <1>1, <1>2 DEF LeavesCounted

\* A row is added, by a leave that found no flight or by an entry.
LEMMA RowAdded ==
  ASSUME TypeOK, TypeOK', LeavesCounted, NEW t \in Threads, NEW open, NEW leaves,
         opLogs' = Append(opLogs, Flight(t, open, leaves)), leaves = <<>> \/ (~open /\ Len(leaves) = 1),
         pc'[t] = "idle", \A u \in Threads \ {t} : Still(u)
  PROVE  LeavesCounted'
<1> DEFINE f == Flight(t, open, leaves)
<1>0. PICK k : k = Len(opLogs) + 1
  OBVIOUS
<1>1. Len(opLogs) \in Nat /\ DOMAIN opLogs = 1..Len(opLogs)
  BY RowFacts
<1>2. /\ Len(opLogs') = k /\ opLogs'[k] = f /\ DOMAIN opLogs' = 1..k
      /\ \A i \in 1..Len(opLogs) : opLogs'[i] = opLogs[i]
  <2> DEFINE F == [server : Servers, player : Players, open : BOOLEAN, leaves : Seq(LineIds)]
  <2>1. opLogs \in Seq(F)
    BY DEF TypeOK, StoreTyped
  <2> HIDE DEF F, f
  <2>2. opLogs' = Append(opLogs, f)
    BY DEF f
  <2> QED
    BY <1>0, <1>1, <2>1, <2>2, AppendProperties
<1>3. f.open = open /\ f.leaves = leaves
  BY DEF Flight
<1>4. ASSUME NEW i \in 1..Len(opLogs) PROVE LeavesFit(i)'
  <2>1. Leaving(i)' \subseteq Leaving(i)
    BY DEF Leaving, Still
  <2> QED
    BY <1>1, <1>2, <2>1, LeavesQuiet DEF LeavesCounted
<1>5. LeavesFit(k)'
  <2>1. CASE leaves = <<>>
    BY <1>2, <1>3, <2>1, LeavesFresh
  <2>2. CASE ~open /\ Len(leaves) = 1
    <3>1. Leaving(k)' = {}
      <4>1. Leaving(k)' \subseteq Leaving(k)
        BY DEF Leaving, Still
      <4>2. Leaving(k) = {}
        <5>1. ASSUME NEW u \in Leaving(k) PROVE FALSE
          <6>1. u \in Threads
            BY DEF Leaving
          <6>2. k \in 0..Len(opLogs)
            BY <5>1, <6>1, RowFacts
          <6> QED
            BY <1>0, <1>1, <6>2
        <5> QED
          BY <5>1
      <4> QED
        BY <4>1, <4>2
    <3>2. Cardinality(Leaving(k)') = 0
      BY <3>1, FS_EmptySet
    <3>3. Cardinality(Threads) >= 1
      <4>1. Cardinality(Threads) \in Nat /\ Cardinality(Threads) # 0
        BY IngestAssumption, FS_CardinalityType, FS_EmptySet
      <4> QED
        BY <4>1
    <3>4. ~opLogs'[k].open /\ Len(opLogs'[k].leaves) = 1
      BY <1>2, <1>3, <2>2
    <3>5. Len(opLogs'[k].leaves) + Cardinality(Leaving(k)') <= Cardinality(Threads)
      <4>1. Cardinality(Threads) \in Nat
        BY IngestAssumption, FS_CardinalityType
      <4> QED
        BY <3>2, <3>3, <3>4, <4>1
    <3> QED
      BY <3>4, <3>5 DEF LeavesFit
  <2> QED
    BY <2>1, <2>2
<1>6. ASSUME NEW i \in 1..k PROVE LeavesFit(i)'
  <2>1. i \in 1..Len(opLogs) \/ i = k
    BY <1>0, <1>1
  <2> QED
    BY <1>4, <1>5, <2>1
<1> QED
  BY <1>2, <1>6 DEF LeavesCounted

\* A leave is written into the row found for it.
LEMMA LeaveStep ==
  ASSUME TypeOK, TypeOK', LeavesCounted, NEW t \in Threads, LeaveCamera(t)
  PROVE  LeavesCounted'
<1>1. pc[t] = "leave" /\ pc'[t] = "idle" /\ \A u \in Threads \ {t} : Still(u)
  BY HandleMoves DEF Handle, LeaveCamera
<1>2. job[t] \in Cameras /\ job[t].row \in Nat /\ job[t].row <= Len(opLogs) /\ job[t].n \in LineIds
  BY <1>1, KindFacts DEF TypeOK, Cameras
<1>3. CASE job[t].row = 0
  <2>1. opLogs' = Append(opLogs, Flight(t, FALSE, <<job[t].n>>)) /\ Len(<<job[t].n>>) = 1
    BY <1>3 DEF LeaveCamera
  <2> QED
    BY <1>1, <2>1, RowAdded
<1>4. CASE job[t].row # 0
  <2>1. PICK k : k = job[t].row
    OBVIOUS
  <2>2. k \in DOMAIN opLogs /\ t \in Leaving(k)
    BY <1>1, <1>2, <1>4, <2>1, RowFacts DEF Leaving
  <2>3. opLogs' = [opLogs EXCEPT ![k].open = FALSE, ![k].leaves = Append(@, job[t].n)]
    BY <1>4, <2>1 DEF LeaveCamera
  <2>4. /\ DOMAIN opLogs' = DOMAIN opLogs
        /\ \A i \in DOMAIN opLogs \ {k} : opLogs'[i] = opLogs[i]
    BY <2>3
  <2>5. ~opLogs'[k].open /\ opLogs'[k].leaves = Append(opLogs[k].leaves, job[t].n)
    <3> DEFINE F == [server : Servers, player : Players, open : BOOLEAN, leaves : Seq(LineIds)]
    <3>1. opLogs \in Seq(F)
      BY DEF TypeOK, StoreTyped
    <3>2. opLogs[k] \in F
      <4> HIDE DEF F
      <4> QED
        BY <2>2, <3>1, RowFacts, ElementOfSeq
    <3>3. opLogs'[k] = [opLogs[k] EXCEPT !.open = FALSE, !.leaves = Append(opLogs[k].leaves, job[t].n)]
      BY <2>2, <2>3, <3>2
    <3> QED
      BY <3>2, <3>3
  <2>6. ASSUME NEW i \in DOMAIN opLogs, i # k PROVE LeavesFit(i)'
    <3>1. Leaving(i)' \subseteq Leaving(i)
      BY <1>1 DEF Leaving, Still
    <3> QED
      BY <2>4, <2>6, <3>1, LeavesQuiet DEF LeavesCounted
  <2>7. LeavesFit(k)'
    <3> DEFINE L == Cardinality(Leaving(k))
               M == Cardinality(Leaving(k)')
               N == Cardinality(Threads)
               K == Len(opLogs[k].leaves)
    <3>1. Leaving(k)' = Leaving(k) \ {t}
      BY <1>1 DEF Leaving, Still
    <3>2. L \in Nat /\ N \in Nat /\ K \in Nat
      BY <2>2, LeavingFinite, RowFacts
    <3>3. M = L - 1
      BY <2>2, <3>1, LeavingFinite, FS_RemoveElement
    <3>4. Len(opLogs'[k].leaves) = K + 1
      <4>1. opLogs[k].leaves \in Seq(LineIds)
        BY <2>2, RowFacts
      <4> QED
        BY <1>2, <2>5, <4>1, AppendProperties
    <3>5. K + L <= N
      BY <2>2 DEF LeavesCounted, LeavesFit
    <3>6. Cardinality(Leaving(k))' = M
      OBVIOUS
    <3> HIDE DEF K, L, M, N
    <3>7. Len(opLogs'[k].leaves) + M <= N
      BY <3>2, <3>3, <3>4, <3>5
    <3> QED
      BY <2>5, <3>6, <3>7 DEF LeavesFit, N
  <2> QED
    BY <2>4, <2>6, <2>7 DEF LeavesCounted
<1> QED
  BY <1>3, <1>4

LEMMA LeavesStep ==
  ASSUME TypeOK, TypeOK', LeavesCounted, [Next]_vars
  PROVE  LeavesCounted'
<1>1. ASSUME opLogs' = opLogs, \A i \in DOMAIN opLogs : Leaving(i)' \subseteq Leaving(i)
      PROVE  LeavesCounted'
  BY <1>1, LeavesQuiet DEF LeavesCounted
<1>2. ASSUME NEW t \in Threads, Handle(t) PROVE LeavesCounted'
  <2>1. \A u \in Threads \ {t} : Still(u)
    BY <1>2, HandleMoves
  <2>2. CASE FindFlight(t)
    BY <2>2, FindStep
  <2>3. CASE LeaveCamera(t)
    BY <2>3, LeaveStep
  <2>4. CASE EnterCamera(t)
    <3>1. opLogs' = Append(opLogs, Flight(t, TRUE, <<>>)) /\ pc'[t] = "idle"
      BY <1>2, <2>4, HandleMoves DEF EnterCamera
    <3> QED
      BY <2>1, <3>1, RowAdded
  <2>5. CASE ~(FindFlight(t) \/ LeaveCamera(t) \/ EnterCamera(t))
    <3>1. pc'[t] # "leave"
      BY <1>2, <2>5, HandleMoves DEF Handle
    <3>2. opLogs' = opLogs
      BY <1>2, <2>5 DEF Handle, NewKey, Answer, Skip, CheckChat, LogChat, Revive, ScoreRevive, Show,
         Tell, UpdateCache, PushList, UpsertPlayers
    <3>3. \A i \in DOMAIN opLogs : Leaving(i)' \subseteq Leaving(i)
      BY <2>1, <3>1 DEF Leaving, Still
    <3> QED
      BY <1>1, <3>2, <3>3
  <2> QED
    BY <2>2, <2>3, <2>4, <2>5
<1>3. ASSUME NEW t \in Threads, NEW x \in Senders, NEW s \in Servers, Request(t, x, s)
      PROVE  LeavesCounted'
  <2>1. (\A u \in Threads \ {t} : Still(u)) /\ pc'[t] # "leave" /\ opLogs' = opLogs
    BY <1>3, RequestMoves
  <2>2. \A i \in DOMAIN opLogs : Leaving(i)' \subseteq Leaving(i)
    BY <2>1 DEF Leaving, Still
  <2> QED
    BY <1>1, <2>1, <2>2
<1>4. CASE Apart
  <2>1. UNCHANGED <<pc, job, opLogs>>
    BY <1>4, OtherSteps
  <2>2. \A i \in DOMAIN opLogs : Leaving(i)' \subseteq Leaving(i)
    BY <2>1 DEF Leaving
  <2> QED
    BY <1>1, <2>1, <2>2
<1>5. CASE Crash
  <2>1. (\A t \in Threads : pc'[t] = "idle") /\ opLogs' = opLogs
    BY <1>5, CrashMoves
  <2>2. \A i \in DOMAIN opLogs : Leaving(i)' \subseteq Leaving(i)
    BY <2>1 DEF Leaving
  <2> QED
    BY <1>1, <2>1, <2>2
<1> QED
  BY <1>2, <1>3, <1>4, <1>5, StepCases

\* A flight's row is written over only by leaves that all found it open: it keeps
\* no more leaves than there are threads, however many entries and leaves come and
\* wherever the panel dies.
THEOREM LeavesOnlyOverlap == Spec => []LeavesOverlap
<1>1. Init => LeavesCounted
  BY DEF Init, LeavesCounted
<1>2. TypeOK /\ LeavesCounted => LeavesOverlap
  <2> SUFFICES ASSUME TypeOK, LeavesCounted, NEW i \in DOMAIN opLogs
               PROVE  Len(opLogs[i].leaves) <= Cardinality(Threads)
    BY DEF LeavesOverlap
  <2> DEFINE K == Len(opLogs[i].leaves)
             L == Cardinality(Leaving(i))
             N == Cardinality(Threads)
  <2>1. K \in Nat /\ L \in Nat /\ N \in Nat /\ K + L <= N
    BY RowFacts, LeavingFinite DEF LeavesCounted, LeavesFit
  <2> HIDE DEF K, L, N
  <2>2. K <= N
    BY <2>1
  <2> QED
    BY <2>2 DEF K, N
<1>3. TypeOK /\ TypeOK' /\ LeavesCounted /\ [Next]_vars => LeavesCounted'
  BY LeavesStep
<1> QED
  BY <1>1, <1>2, <1>3, TypeCorrect, PTL DEF Spec

--------------------------------------------------------------------------------
(* Player lists.                                                            *)

LEMMA ViewersStep ==
  ASSUME TypeOK, ViewersUpToDate, [Next]_vars
  PROVE  ViewersUpToDate'
<1> SUFFICES ASSUME NEW s \in Servers, viewed'[s] # liveCache'[s]
             PROVE  \E t \in Threads : pc'[t] = "view" /\ job'[t].server = s
  BY DEF ViewersUpToDate
<1>1. viewed[s] # liveCache[s] => \E t \in Threads : pc[t] = "view" /\ job[t].server = s
  BY DEF ViewersUpToDate
<1>2. liveCache \in [Servers -> SUBSET Players] /\ viewed \in [Servers -> SUBSET Players]
  BY DEF TypeOK, StoreTyped
<1>3. ASSUME NEW t \in Threads, Handle(t)
      PROVE  \E u \in Threads : pc'[u] = "view" /\ job'[u].server = s
  <2>1. \A u \in Threads \ {t} : Still(u)
    BY <1>3, HandleMoves
  <2>2. CASE UpdateCache(t)
    <3>1. pc'[t] = "view" /\ job'[t] = job[t] /\ pc[t] = "cache"
          /\ viewed' = viewed /\ liveCache' = [liveCache EXCEPT ![job[t].server] = job[t].players]
      BY <1>3, <2>2, HandleMoves DEF UpdateCache
    <3>2. CASE job[t].server = s
      BY <3>1, <3>2
    <3>3. CASE job[t].server # s
      <4>1. viewed[s] # liveCache[s]
        BY <1>2, <3>1, <3>3
      <4> QED
        BY <1>1, <2>1, <3>1, <4>1 DEF Still
    <3> QED
      BY <3>2, <3>3
  <2>3. CASE PushList(t)
    <3>1. viewed' = [viewed EXCEPT ![job[t].server] = liveCache[job[t].server]]
          /\ liveCache' = liveCache
      BY <2>3 DEF PushList
    <3>2. job[t].server # s /\ viewed[s] # liveCache[s]
      BY <1>2, <3>1
    <3>3. PICK u \in Threads : pc[u] = "view" /\ job[u].server = s
      BY <1>1, <3>2
    <3>4. u # t
      BY <3>2, <3>3
    <3> QED
      BY <2>1, <3>3, <3>4 DEF Still
  <2>4. CASE ~(UpdateCache(t) \/ PushList(t))
    <3>1. viewed' = viewed /\ liveCache' = liveCache /\ pc[t] # "view"
      BY <1>3, <2>4 DEF Handle, NewKey, Answer, Skip, CheckChat, LogChat, Revive, ScoreRevive, Show,
         Tell, EnterCamera, FindFlight, LeaveCamera, UpsertPlayers
    <3>2. PICK u \in Threads : pc[u] = "view" /\ job[u].server = s
      BY <1>1, <3>1
    <3> QED
      BY <2>1, <3>1, <3>2 DEF Still
  <2> QED
    BY <2>2, <2>3, <2>4
<1>4. ASSUME NEW t \in Threads, NEW x \in Senders, NEW u \in Servers, Request(t, x, u)
      PROVE  \E v \in Threads : pc'[v] = "view" /\ job'[v].server = s
  <2>1. (\A v \in Threads \ {t} : Still(v)) /\ pc[t] = "idle"
        /\ UNCHANGED <<viewed, liveCache>>
    BY <1>4, RequestMoves
  <2> QED
    BY <1>1, <2>1 DEF Still
<1>5. CASE Apart
  <2>1. UNCHANGED <<pc, job, viewed, liveCache>>
    BY <1>5, OtherSteps
  <2> QED
    BY <1>1, <2>1
<1>6. CASE Crash
  BY <1>6 DEF Crash
<1> QED
  BY <1>3, <1>4, <1>5, <1>6, StepCases

\* However lists overlap, and wherever the panel dies, a server's subscribers have
\* been sent the list in the cache, or a request that is under way will send it:
\* the broadcast reads the cache again.
THEOREM ViewersFollowTheCache == Spec => []ViewersUpToDate
<1>1. Init => ViewersUpToDate
  BY DEF Init, ViewersUpToDate
<1> QED
  BY <1>1, TypeCorrect, ViewersStep, PTL DEF Spec

--------------------------------------------------------------------------------
(* Keys.                                                                    *)

\* Nothing that registrations are about has changed.
Quiet ==
    /\ UNCHANGED <<key, tailed, asker, saved, trial, crossed, lost>>
    /\ \A t \in Threads : Asking(t) \/ Asking(t)' => Still(t)

\* The steps that have to do with registrations, and the others.
LEMMA KeyCases ==
  ASSUME TypeOK, [Next]_vars
  PROVE  \/ \E t \in Threads : NewKey(t) \/ Answer(t)
         \/ \E t \in Threads, x \in Relays, s \in Servers : Register(t, x, s)
         \/ RelaySteps \/ Crash \/ Quiet
<1>1. ASSUME NEW t \in Threads, Handle(t), ~NewKey(t), ~Answer(t) PROVE Quiet
  <2>1. \A u \in Threads \ {t} : Still(u)
    BY <1>1, HandleMoves
  <2>2. ~Asking(t) /\ UNCHANGED access
    BY <1>1 DEF Asking, Handle, Skip, CheckChat, LogChat, Revive, ScoreRevive, Show, Tell, EnterCamera,
       FindFlight, LeaveCamera, UpdateCache, PushList, UpsertPlayers
  <2>3. ~Asking(t)'
    BY <1>1, HandleMoves DEF Asking, Handle
  <2> QED
    BY <2>1, <2>2, <2>3 DEF Quiet, access, keys, relays
<1>2. ASSUME NEW t \in Threads, NEW x \in Senders, NEW s \in Servers, Request(t, x, s),
             ~(x \in Relays /\ Register(t, x, s))
      PROVE  Quiet
  <2>1. /\ pc[t] = "idle" /\ \A u \in Threads \ {t} : Still(u)
        /\ pc'[t] \in {"newkey", "line", "enter", "find", "cache"} /\ pc'[t] # "newkey"
    BY <1>2, RequestMoves
  <2>2. UNCHANGED access
    BY <1>2 DEF Request, PostEvent, PostRaw, Post, Camera, PostList
  <2> QED
    BY <2>1, <2>2 DEF Quiet, Asking, access, keys, relays
<1>3. ASSUME Apart, ~RelaySteps PROVE Quiet
  BY <1>3 DEF Apart, Tick, GenerateCode, Quiet, Asking, Still, vars, access, keys, relays
<1> QED
  BY <1>1, <1>2, <1>3, StepCases

LEMMA RegistrationFacts ==
  ASSUME TypeOK, NEW t \in Threads, Asking(t)
  PROVE  /\ job[t].kind = "register" /\ job[t].sender \in Relays /\ job[t].server \in Servers
         /\ job[t].answer \in 1..serial
<1>1. job[t] \in Registrations /\ job[t].answer <= serial
  BY KindFacts DEF TypeOK, Asking
<1> QED
  BY <1>1 DEF Registrations, TypeOK, StoreTyped, LineIds

\* What a registration that comes changes.
LEMMA RegisterFacts ==
  ASSUME TypeOK, NEW t \in Threads, NEW x \in Relays, NEW s \in Servers, Register(t, x, s)
  PROVE  /\ UNCHANGED <<key, tailed, asker, saved, trial, lost>> /\ crossed \subseteq crossed'
         /\ \A u \in Threads \ {t} : Still(u)
         /\ pc[t] = "idle" /\ pc'[t] = "newkey" /\ job'[t].sender = x /\ job'[t].server = s
         /\ x \notin crossed' => /\ ~Registering(x)
                                 /\ \A u \in Servers : asker[u] = x => u = s
<1> DEFINE j == [kind |-> "register", sender |-> x, server |-> s, answer |-> key[s]]
<1>1. Begin(t, "newkey", j) /\ j.sender = x /\ j.server = s
  BY DEF Register
<1> HIDE DEF j
<1>2. pc'[t] = "newkey" /\ job'[t] = j /\ (\A u \in Threads \ {t} : Still(u)) /\ pc[t] = "idle"
  BY <1>1, BeginMoves DEF TypeOK, Begin
<1>3. UNCHANGED <<key, tailed, asker, saved, trial, lost>> /\ crossed \subseteq crossed'
  BY DEF Register, keys
<1>4. x \notin crossed' => ~Registering(x) /\ \A u \in Servers : asker[u] = x => u = s
  BY DEF Register
<1> QED
  BY <1>1, <1>2, <1>3, <1>4

\* What a new key changes.
LEMMA NewKeyFacts ==
  ASSUME TypeOK, NEW t \in Threads, NewKey(t)
  PROVE  /\ UNCHANGED <<tailed, saved, trial, crossed, lost>>
         /\ \A u \in Threads \ {t} : Still(u)
         /\ pc[t] = "newkey" /\ pc'[t] = "answer" /\ job'[t].answer = serial + 1
         /\ job'[t].sender = job[t].sender /\ job'[t].server = job[t].server
         /\ key'[job[t].server] = serial + 1 /\ asker'[job[t].server] = job[t].sender
         /\ \A u \in Servers \ {job[t].server} : key'[u] = key[u] /\ asker'[u] = asker[u]
<1>1. job[t] \in Registrations /\ pc[t] = "newkey"
  BY KindFacts DEF TypeOK, NewKey
<1>2. job'[t] = [job[t] EXCEPT !.answer = serial + 1]
  BY DEF TypeOK, JobsTyped, NewKey
<1>3. job'[t].sender = job[t].sender /\ job'[t].server = job[t].server
  BY <1>1, <1>2 DEF Registrations
<1>4. pc'[t] = "answer" /\ job'[t].answer = serial + 1 /\ \A u \in Threads \ {t} : Still(u)
  BY HandleMoves DEF Handle
<1>5. UNCHANGED <<tailed, saved, trial, crossed, lost>>
  BY DEF NewKey, relays
<1>6. job[t].server \in Servers /\ DOMAIN key = Servers /\ DOMAIN asker = Servers
  BY <1>1 DEF Registrations, TypeOK, StoreTyped
<1>7. /\ key'[job[t].server] = serial + 1 /\ asker'[job[t].server] = job[t].sender
      /\ \A u \in Servers \ {job[t].server} : key'[u] = key[u] /\ asker'[u] = asker[u]
  BY <1>6 DEF NewKey, TypeOK, StoreTyped
<1> QED
  BY <1>1, <1>3, <1>4, <1>5, <1>7

\* What an answer changes.
LEMMA AnswerFacts ==
  ASSUME TypeOK, NEW t \in Threads, Answer(t)
  PROVE  /\ UNCHANGED <<key, tailed, asker, saved, crossed>>
         /\ \A u \in Threads \ {t} : Still(u)
         /\ pc[t] = "answer" /\ pc'[t] = "idle"
         /\ \/ lost' = lost \cup {job[t].answer} /\ trial' = trial
            \/ \E e : /\ e.sender = job[t].sender /\ e.server = job[t].server
                      /\ e.key = job[t].answer /\ trial' = trial \cup {e} /\ lost' = lost
<1>1. pc'[t] = "idle" /\ \A u \in Threads \ {t} : Still(u)
  BY HandleMoves DEF Handle
<1>2. UNCHANGED <<key, tailed, asker, saved, crossed>> /\ pc[t] = "answer"
  BY DEF Answer, keys
<1> DEFINE e == [sender |-> job[t].sender, server |-> job[t].server, key |-> job[t].answer,
                 ok |-> FALSE]
<1>3. \/ lost' = lost \cup {job[t].answer} /\ trial' = trial
      \/ trial' = trial \cup {e} /\ lost' = lost
  BY DEF Answer
<1>4. e.sender = job[t].sender /\ e.server = job[t].server /\ e.key = job[t].answer
  OBVIOUS
<1> HIDE DEF e
<1> QED
  BY <1>1, <1>2, <1>3, <1>4

\* What a relay changes: a key it has been trying is saved, given up, or tried on.
LEMMA RelayFacts ==
  ASSUME TypeOK, RelaySteps
  PROVE  /\ UNCHANGED <<pc, job, key, tailed, asker, crossed>>
         /\ \A f \in trial' : \E e \in trial :
              f.sender = e.sender /\ f.server = e.server /\ f.key = e.key
         /\ \/ /\ saved' = saved /\ lost \subseteq lost'
               /\ \A e \in trial : \/ e.key # key[e.server] \/ e.key \in lost'
                                   \/ \E f \in trial' : f.server = e.server /\ f.key = e.key
            \/ \E e \in trial : /\ saved' = [saved EXCEPT ![e.sender] = e.key]
                                /\ trial' = trial \ {e} /\ lost' = lost
<1>1. UNCHANGED <<pc, job, key, tailed, asker, crossed>>
  BY DEF RelaySteps, keys, Try, Adopt, Discard, StartRelay
<1> DEFINE Kept == \A f \in trial' : \E e \in trial :
                     f.sender = e.sender /\ f.server = e.server /\ f.key = e.key
           Tried == /\ saved' = saved /\ lost \subseteq lost'
                    /\ \A e \in trial : \/ e.key # key[e.server] \/ e.key \in lost'
                                        \/ \E f \in trial' : f.server = e.server /\ f.key = e.key
           Saved == \E e \in trial : /\ saved' = [saved EXCEPT ![e.sender] = e.key]
                                     /\ trial' = trial \ {e} /\ lost' = lost
<1>2. ASSUME NEW e \in trial, Try(e) PROVE Kept /\ Tried
  <2> DEFINE g == [e EXCEPT !.ok = TRUE]
  <2>1. g.sender = e.sender /\ g.server = e.server /\ g.key = e.key
    BY DEF TypeOK, StoreTyped
  <2>2. saved' = saved /\ lost' = lost
        /\ trial' = IF key[e.server] = e.key THEN (trial \ {e}) \cup {g} ELSE trial \ {e}
    BY <1>2 DEF Try
  <2> HIDE DEF g
  <2> QED
    BY <2>1, <2>2
<1>3. ASSUME NEW e \in trial, Adopt(e) PROVE Kept /\ Saved
  BY <1>3 DEF Adopt
<1>4. ASSUME NEW e \in trial, Discard(e) PROVE Kept /\ Tried
  BY <1>4 DEF Discard
<1>5. ASSUME NEW x \in Relays, StartRelay(x) PROVE Kept /\ Tried
  BY <1>5 DEF StartRelay
<1> HIDE DEF Kept, Tried, Saved
<1>6. Kept /\ (Tried \/ Saved)
  BY <1>2, <1>3, <1>4, <1>5 DEF RelaySteps
<1> QED
  BY <1>1, <1>6 DEF Kept, Tried, Saved

LEMMA CrashFacts ==
  ASSUME TypeOK, Crash
  PROVE  /\ UNCHANGED <<key, asker, saved, trial, crossed>> /\ tailed' = key
         /\ \A t \in Threads : ~Asking(t)' /\ pc'[t] # "newkey" /\ pc'[t] # "answer"
BY DEF Crash, relays, Asking

\* A relay that is not crossed never has two registrations under way.
LEMMA OneAtATimeStep ==
  ASSUME TypeOK, OneAtATime, [Next]_vars
  PROVE  OneAtATime'
<1>1. ASSUME NEW t \in Threads, NewKey(t) PROVE OneAtATime'
  <2>1. Asking(t) /\ job'[t].sender = job[t].sender /\ UNCHANGED <<trial, crossed>>
        /\ \A u \in Threads \ {t} : Still(u)
    BY <1>1, NewKeyFacts DEF Asking
  <2>2. \A u \in Threads : Asking(u)' => Asking(u) /\ job'[u].sender = job[u].sender
    BY <2>1 DEF Still, Asking
  <2> QED
    BY <2>1, <2>2 DEF OneAtATime
<1>2. ASSUME NEW t \in Threads, Answer(t) PROVE OneAtATime'
  <2>1. Asking(t) /\ ~Asking(t)' /\ crossed' = crossed /\ \A u \in Threads \ {t} : Still(u)
    BY <1>2, AnswerFacts DEF Asking
  <2>2. \A e \in trial' : e \in trial \/ e.sender = job[t].sender
    BY <1>2, AnswerFacts
  <2>3. \A u \in Threads : Asking(u)' => u # t /\ Asking(u) /\ job'[u] = job[u]
    BY <2>1 DEF Still, Asking
  <2> QED
    BY <2>1, <2>2, <2>3 DEF OneAtATime
<1>3. ASSUME NEW t \in Threads, NEW x \in Relays, NEW s \in Servers, Register(t, x, s)
      PROVE  OneAtATime'
  <2>1. /\ trial' = trial /\ crossed \subseteq crossed' /\ \A u \in Threads \ {t} : Still(u)
        /\ job'[t].sender = x /\ (x \notin crossed' => ~Registering(x))
    BY <1>3, RegisterFacts
  <2>2. \A u \in Threads \ {t} : Asking(u)' => Asking(u) /\ job'[u] = job[u]
    BY <2>1 DEF Still, Asking
  <2>3. \A u \in Threads : Asking(u) => job[u].kind = "register"
    BY RegistrationFacts
  <2>4. x \notin crossed' => /\ \A u \in Threads : Asking(u) => job[u].sender # x
                             /\ \A e \in trial : e.sender # x
    BY <2>1, <2>3 DEF Registering
  <2>5. ASSUME NEW u \in Threads, Asking(u)', job'[u].sender \notin crossed'
        PROVE  /\ \A v \in Threads : Asking(v)' /\ job'[v].sender = job'[u].sender => v = u
               /\ \A e \in trial' : e.sender # job'[u].sender
    <3>1. CASE u = t
      BY <2>1, <2>2, <2>4, <2>5, <3>1
    <3>2. CASE u # t
      <4>1. Asking(u) /\ job'[u] = job[u] /\ job[u].sender \notin crossed
        BY <2>1, <2>2, <2>5, <3>2
      <4>2. job'[t].sender # job[u].sender
        BY <2>1, <2>4, <2>5, <4>1
      <4> QED
        BY <2>1, <2>2, <4>1, <4>2 DEF OneAtATime
    <3> QED
      BY <3>1, <3>2
  <2> QED
    BY <2>5 DEF OneAtATime
<1>4. CASE RelaySteps
  <2>1. UNCHANGED <<pc, job, crossed>>
        /\ \A f \in trial' : \E e \in trial : f.sender = e.sender
    BY <1>4, RelayFacts
  <2>2. ASSUME NEW t \in Threads, Asking(t)', job'[t].sender \notin crossed'
        PROVE  /\ \A u \in Threads : Asking(u)' /\ job'[u].sender = job'[t].sender => u = t
               /\ \A e \in trial' : e.sender # job'[t].sender
    <3>1. \A u \in Threads : Asking(u)' <=> Asking(u)
      BY <2>1 DEF Asking
    <3> QED
      BY <2>1, <2>2, <3>1 DEF OneAtATime
  <2> QED
    BY <2>2 DEF OneAtATime
<1>5. CASE Crash
  BY <1>5, CrashFacts DEF OneAtATime
<1>6. CASE Quiet
  <2>1. UNCHANGED <<trial, crossed>>
    BY <1>6 DEF Quiet
  <2>2. \A t \in Threads : Asking(t)' => Asking(t) /\ job'[t] = job[t]
    BY <1>6 DEF Quiet, Still, Asking
  <2> QED
    BY <2>1, <2>2 DEF OneAtATime
<1> QED
  BY <1>1, <1>2, <1>3, <1>4, <1>5, <1>6, KeyCases

\* No step makes a key unfit.
LEMMA KeysFitStep ==
  ASSUME TypeOK, OneAtATime, KeysFit, [Next]_vars
  PROVE  KeysFit'
<1> DEFINE NewKeysFit == \A t \in Threads : pc[t] = "newkey" /\ job[t].sender \notin crossed =>
                           \A u \in Servers : asker[u] = job[t].sender => u = job[t].server
           AnswersFit == \A t \in Threads : pc[t] = "answer" =>
                           KeyFits(job[t].sender, job[t].server, job[t].answer)
           TrialsFit == \A e \in trial : KeyFits(e.sender, e.server, e.key)
           SavedFit == \A x \in Relays, u \in Servers : saved[x] = key[u] => asker[u] = x
<1>0. NewKeysFit /\ AnswersFit /\ TrialsFit /\ SavedFit
  BY DEF KeysFit
<1>1. ASSUME NEW t \in Threads, NewKey(t) PROVE KeysFit'
  <2> DEFINE x == job[t].sender
             s == job[t].server
  <2>1. /\ UNCHANGED <<saved, trial, crossed>> /\ \A u \in Threads \ {t} : Still(u)
        /\ pc[t] = "newkey" /\ pc'[t] = "answer" /\ job'[t].answer = serial + 1
        /\ job'[t].sender = x /\ job'[t].server = s /\ key'[s] = serial + 1 /\ asker'[s] = x
        /\ \A u \in Servers \ {s} : key'[u] = key[u] /\ asker'[u] = asker[u]
    BY <1>1, NewKeyFacts
  <2>2. Asking(t) /\ x \in Relays /\ s \in Servers /\ serial \in Nat
    BY <2>1, RegistrationFacts DEF Asking, TypeOK, StoreTyped
  <2>3. \A u \in Servers : key[u] \in 1..serial /\ key[u] # serial + 1
    BY <2>2 DEF TypeOK, StoreTyped
  <2> HIDE DEF x, s
  <2>4. NewKeysFit'
    <3>1. ASSUME NEW v \in Threads, pc'[v] = "newkey", job'[v].sender \notin crossed',
                 NEW u \in Servers, asker'[u] = job'[v].sender
          PROVE  u = job'[v].server
      <4>1. v # t /\ pc[v] = "newkey" /\ job'[v] = job[v] /\ job[v].sender \notin crossed
        BY <2>1, <3>1 DEF Still
      <4>2. job[v].sender # x
        BY <2>2, <4>1 DEF OneAtATime, Asking, x
      <4>3. u # s /\ asker[u] = job[v].sender
        BY <2>1, <3>1, <4>1, <4>2
      <4> QED
        BY <1>0, <4>1, <4>3
    <3> QED
      BY <3>1
  <2>5. AnswersFit'
    <3>1. ASSUME NEW v \in Threads, pc'[v] = "answer"
          PROVE  KeyFits(job[v].sender, job[v].server, job[v].answer)'
      <4>1. CASE v = t
        <5>1. \A u \in Servers : key'[u] = serial + 1 => u = s
          BY <2>1, <2>3
        <5>2. x \notin crossed => \A u \in Servers : asker[u] = x => u = s
          BY <1>0, <2>1 DEF x, s
        <5> QED
          BY <2>1, <4>1, <5>1, <5>2 DEF KeyFits
      <4>2. CASE v # t
        <5>1. pc[v] = "answer" /\ job'[v] = job[v]
              /\ KeyFits(job[v].sender, job[v].server, job[v].answer)
          BY <1>0, <2>1, <3>1, <4>2 DEF Still
        <5>2. job[v].answer \in 1..serial /\ job[v].answer # key'[s]
          BY <2>1, <2>2, <5>1, RegistrationFacts DEF Asking
        <5>3. job[v].sender \notin crossed => asker'[s] # job[v].sender
          BY <2>1, <2>2, <4>2, <5>1 DEF OneAtATime, Asking, x
        <5> DEFINE y == job[v].sender
                   w == job[v].server
                   k == job[v].answer
        <5>4. KeyFits(y, w, k) /\ k # key'[s] /\ (y \notin crossed => asker'[s] # y)
          BY <5>1, <5>2, <5>3
        <5>5. job'[v].sender = y /\ job'[v].server = w /\ job'[v].answer = k
          BY <5>1
        <5> HIDE DEF y, w, k
        <5> QED
          BY <2>1, <2>2, <5>4, <5>5 DEF KeyFits
      <4> QED
        BY <4>1, <4>2
    <3> QED
      BY <3>1
  <2>6. TrialsFit'
    <3>1. ASSUME NEW e \in trial PROVE KeyFits(e.sender, e.server, e.key)'
      <4>1. KeyFits(e.sender, e.server, e.key) /\ e.key \in 1..serial
        BY <1>0 DEF TypeOK, StoreTyped
      <4>2. e.key # key'[s]
        BY <2>1, <2>2, <4>1
      <4>3. e.sender \notin crossed => asker'[s] # e.sender
        BY <2>1, <2>2 DEF OneAtATime, x
      <4> QED
        BY <2>1, <2>2, <4>1, <4>2, <4>3 DEF KeyFits
    <3> QED
      BY <2>1, <3>1
  <2>7. SavedFit'
    <3>1. ASSUME NEW y \in Relays PROVE saved[y] \in 0..serial /\ saved[y] # serial + 1
      BY <2>2 DEF TypeOK, StoreTyped
    <3> QED
      BY <1>0, <2>1, <3>1
  <2> QED
    BY <2>4, <2>5, <2>6, <2>7 DEF KeysFit
<1>2. ASSUME NEW t \in Threads, Answer(t) PROVE KeysFit'
  <2>1. /\ UNCHANGED <<key, asker, saved, crossed>> /\ \A u \in Threads \ {t} : Still(u)
        /\ pc[t] = "answer" /\ pc'[t] = "idle"
    BY <1>2, AnswerFacts
  <2>2. \A e \in trial' : \/ e \in trial
                          \/ /\ e.sender = job[t].sender /\ e.server = job[t].server
                             /\ e.key = job[t].answer
    BY <1>2, AnswerFacts
  <2>3. KeyFits(job[t].sender, job[t].server, job[t].answer)
    BY <1>0, <2>1
  <2>4. TrialsFit'
    BY <1>0, <2>1, <2>2, <2>3 DEF KeyFits
  <2>5. \A u \in Threads : pc'[u] \in {"newkey", "answer"} => pc'[u] = pc[u] /\ job'[u] = job[u]
    BY <2>1 DEF Still
  <2>6. NewKeysFit' /\ SavedFit'
    BY <1>0, <2>1, <2>5
  <2>7. AnswersFit'
    BY <1>0, <2>1, <2>5 DEF KeyFits
  <2> QED
    BY <2>4, <2>6, <2>7 DEF KeysFit
<1>3. ASSUME NEW t \in Threads, NEW x \in Relays, NEW s \in Servers, Register(t, x, s)
      PROVE  KeysFit'
  <2>1. /\ UNCHANGED <<key, asker, saved, trial>> /\ crossed \subseteq crossed'
        /\ \A u \in Threads \ {t} : Still(u)
        /\ pc'[t] = "newkey" /\ job'[t].sender = x /\ job'[t].server = s
        /\ x \notin crossed' => \A u \in Servers : asker[u] = x => u = s
    BY <1>3, RegisterFacts
  <2>2. \A u \in Threads \ {t} : pc'[u] = pc[u] /\ job'[u] = job[u]
    BY <2>1 DEF Still
  <2>3. NewKeysFit'
    BY <1>0, <2>1, <2>2
  <2>4. AnswersFit' /\ TrialsFit'
    BY <1>0, <2>1, <2>2 DEF KeyFits
  <2>5. SavedFit'
    BY <1>0, <2>1
  <2> QED
    BY <2>3, <2>4, <2>5 DEF KeysFit
<1>4. CASE RelaySteps
  <2>1. /\ UNCHANGED <<pc, job, key, asker, crossed>>
        /\ \A f \in trial' : \E e \in trial :
             f.sender = e.sender /\ f.server = e.server /\ f.key = e.key
        /\ saved' = saved \/ \E e \in trial : saved' = [saved EXCEPT ![e.sender] = e.key]
    BY <1>4, RelayFacts
  <2>2. NewKeysFit'
    BY <1>0, <2>1
  <2>3. AnswersFit'
    BY <1>0, <2>1 DEF KeyFits
  <2>4. TrialsFit'
    BY <1>0, <2>1 DEF KeyFits
  <2>5. SavedFit'
    <3>1. CASE saved' = saved
      BY <1>0, <2>1, <3>1
    <3>2. ASSUME NEW e \in trial, saved' = [saved EXCEPT ![e.sender] = e.key] PROVE SavedFit'
      <4>1. KeyFits(e.sender, e.server, e.key) /\ DOMAIN saved = Relays
        BY <1>0 DEF TypeOK, StoreTyped
      <4> QED
        BY <1>0, <2>1, <3>2, <4>1 DEF KeyFits
    <3> QED
      BY <2>1, <3>1, <3>2
  <2> QED
    BY <2>2, <2>3, <2>4, <2>5 DEF KeysFit
<1>5. CASE Crash
  <2>1. /\ UNCHANGED <<key, asker, saved, trial, crossed>>
        /\ \A t \in Threads : pc'[t] # "newkey" /\ pc'[t] # "answer"
    BY <1>5, CrashFacts
  <2>2. NewKeysFit' /\ AnswersFit' /\ SavedFit'
    BY <1>0, <2>1
  <2>3. TrialsFit'
    BY <1>0, <2>1 DEF KeyFits
  <2> QED
    BY <2>2, <2>3 DEF KeysFit
<1>6. CASE Quiet
  <2>1. UNCHANGED <<key, asker, saved, trial, crossed>>
    BY <1>6 DEF Quiet
  <2>2. \A u \in Threads : pc'[u] \in {"newkey", "answer"} => pc'[u] = pc[u] /\ job'[u] = job[u]
    BY <1>6 DEF Quiet, Still, Asking
  <2>3. NewKeysFit' /\ SavedFit'
    BY <1>0, <2>1, <2>2
  <2>4. AnswersFit' /\ TrialsFit'
    BY <1>0, <2>1, <2>2 DEF KeyFits
  <2> QED
    BY <2>3, <2>4 DEF KeysFit
<1> QED
  BY <1>1, <1>2, <1>3, <1>4, <1>5, <1>6, KeyCases

\* No step makes a server deaf.
LEMMA AcceptedStep ==
  ASSUME TypeOK, KeysFit, SomeoneIsAccepted, [Next]_vars
  PROVE  SomeoneIsAccepted'
<1> DEFINE Sent(s) == \E t \in Threads : pc[t] = "answer" /\ job[t].server = s /\ job[t].answer = key[s]
           Tried(s) == \E e \in trial : e.server = s /\ e.key = key[s]
           Saved(s) == \E x \in Relays : saved[x] = key[s]
           Heard(s) == \/ key[s] \in lost \/ asker[s] \in crossed \/ tailed[s] = key[s]
                       \/ Saved(s) \/ Tried(s) \/ Sent(s)
<1>0. ASSUME NEW s \in Servers PROVE Heard(s)
  BY DEF SomeoneIsAccepted
<1> SUFFICES ASSUME NEW s \in Servers PROVE Heard(s)'
  BY DEF SomeoneIsAccepted
<1>1. ASSUME NEW t \in Threads, NewKey(t) PROVE Heard(s)'
  <2>1. /\ UNCHANGED <<tailed, saved, trial, crossed, lost>>
        /\ \A u \in Threads \ {t} : pc'[u] = pc[u] /\ job'[u] = job[u]
        /\ pc[t] = "newkey" /\ pc'[t] = "answer" /\ job'[t].answer = serial + 1
        /\ job'[t].server = job[t].server /\ key'[job[t].server] = serial + 1
        /\ \A u \in Servers \ {job[t].server} : key'[u] = key[u] /\ asker'[u] = asker[u]
    BY <1>1, NewKeyFacts DEF Still
  <2>2. CASE s = job[t].server
    <3>1. Sent(s)'
      BY <2>1, <2>2
    <3> QED
      BY <3>1
  <2>3. CASE s # job[t].server
    <3>1. key'[s] = key[s] /\ asker'[s] = asker[s]
      BY <2>1, <2>3
    <3>2. Sent(s) => Sent(s)'
      BY <2>1, <2>3, <3>1
    <3>3. (Tried(s) => Tried(s)') /\ (Saved(s) => Saved(s)')
      BY <2>1, <3>1
    <3> QED
      BY <1>0, <2>1, <3>1, <3>2, <3>3
  <2> QED
    BY <2>2, <2>3
<1>2. ASSUME NEW t \in Threads, Answer(t) PROVE Heard(s)'
  <2>1. /\ UNCHANGED <<key, tailed, asker, saved, crossed>>
        /\ \A u \in Threads \ {t} : pc'[u] = pc[u] /\ job'[u] = job[u]
        /\ \/ lost' = lost \cup {job[t].answer} /\ trial' = trial
           \/ \E e : /\ e.server = job[t].server /\ e.key = job[t].answer
                     /\ trial' = trial \cup {e} /\ lost' = lost
    BY <1>2, AnswerFacts DEF Still
  <2>2. Sent(s) => Sent(s)' \/ Tried(s)' \/ key'[s] \in lost'
    BY <2>1
  <2>3. (Tried(s) => Tried(s)') /\ (Saved(s) => Saved(s)') /\ lost \subseteq lost'
    BY <2>1
  <2> QED
    BY <1>0, <2>1, <2>2, <2>3
<1>3. ASSUME NEW t \in Threads, NEW x \in Relays, NEW u \in Servers, Register(t, x, u)
      PROVE  Heard(s)'
  <2>1. /\ UNCHANGED <<key, tailed, asker, saved, trial, lost>> /\ crossed \subseteq crossed'
        /\ pc[t] = "idle" /\ \A v \in Threads \ {t} : pc'[v] = pc[v] /\ job'[v] = job[v]
    BY <1>3, RegisterFacts DEF Still
  <2>2. Sent(s) => Sent(s)'
    BY <2>1
  <2> QED
    BY <1>0, <2>1, <2>2
<1>4. CASE RelaySteps
  <2>1. UNCHANGED <<pc, job, key, tailed, asker, crossed>>
    BY <1>4, RelayFacts
  <2>2. ASSUME saved' = saved, lost \subseteq lost',
               \A e \in trial : \/ e.key # key[e.server] \/ e.key \in lost'
                                \/ \E f \in trial' : f.server = e.server /\ f.key = e.key
        PROVE  Heard(s)'
    <3>1. Tried(s) => Tried(s)' \/ key'[s] \in lost'
      BY <2>1, <2>2
    <3> QED
      BY <1>0, <2>1, <2>2, <3>1
  <2>3. ASSUME NEW e \in trial, saved' = [saved EXCEPT ![e.sender] = e.key],
               trial' = trial \ {e}, lost' = lost
        PROVE  Heard(s)'
    <3>1. saved \in [Relays -> 0..serial] /\ e.sender \in Relays
      BY DEF TypeOK, StoreTyped
    <3>2. saved'[e.sender] = e.key /\ \A x \in Relays \ {e.sender} : saved'[x] = saved[x]
      BY <2>3, <3>1
    <3>3. Tried(s) => Tried(s)' \/ Saved(s)'
      BY <2>1, <2>3, <3>1, <3>2
    <3>4. Saved(s) => Saved(s)' \/ asker[s] \in crossed
      <4>1. SUFFICES ASSUME NEW x \in Relays, saved[x] = key[s], asker[s] \notin crossed
                     PROVE  Saved(s)'
        OBVIOUS
      <4>2. CASE x # e.sender
        BY <2>1, <3>2, <4>1, <4>2
      <4>3. CASE x = e.sender
        <5>1. asker[s] = x
          BY <4>1 DEF KeysFit
        <5>2. e.key = key[s]
          BY <4>1, <4>3, <5>1 DEF KeysFit, KeyFits
        <5> QED
          BY <2>1, <3>1, <3>2, <5>2
      <4> QED
        BY <4>2, <4>3
    <3> QED
      BY <1>0, <2>1, <2>3, <3>3, <3>4
  <2> QED
    BY <1>4, <2>2, <2>3, RelayFacts
<1>5. CASE Crash
  BY <1>5, CrashFacts
<1>6. CASE Quiet
  <2>1. UNCHANGED <<key, tailed, asker, saved, trial, crossed, lost>>
    BY <1>6 DEF Quiet
  <2>2. Sent(s) => Sent(s)'
    BY <1>6, <2>1 DEF Quiet, Still, Asking
  <2> QED
    BY <1>0, <2>1, <2>2
<1> QED
  BY <1>1, <1>2, <1>3, <1>4, <1>5, <1>6, KeyCases

\* However the registrations of any number of relays with any number of servers overlap,
\* and whatever the panel's restarts do to the requests, a server's key is one that a
\* relay has saved, is trying or is being sent, or the tailer's, unless it got lost or
\* the relay that asked for it has had two registrations at once or changed servers:
\* a relay that asks for one key at a time keeps the panel's, since no other sender's
\* key can come between.
THEOREM NotDeafToAll == Spec => []SomeoneIsAccepted
<1> DEFINE I == OneAtATime /\ KeysFit /\ SomeoneIsAccepted
<1>1. Init => I
  <2> SUFFICES ASSUME Init PROVE I
    OBVIOUS
  <2>1. \A t \in Threads : pc[t] = "idle"
    BY DEF Init
  <2>2. trial = {} /\ tailed = key
    BY DEF Init
  <2>3. \A x \in Relays, u \in Servers : saved[x] # key[u]
    <3>1. \A x \in Relays : saved[x] = 0
      BY DEF Init
    <3>2. key \in [Servers -> 1..serial]
      BY InitTypes DEF TypeOK, StoreTyped
    <3>3. \A u \in Servers : key[u] \in 1..serial /\ key[u] # 0
      BY <3>2
    <3> QED
      BY <3>1, <3>3
  <2>4. OneAtATime
    BY <2>1 DEF OneAtATime, Asking
  <2>5. KeysFit
    BY <2>1, <2>2, <2>3 DEF KeysFit
  <2>6. SomeoneIsAccepted
    BY <2>2 DEF SomeoneIsAccepted
  <2> QED
    BY <2>4, <2>5, <2>6
<1>2. TypeOK /\ I /\ [Next]_vars => I'
  BY OneAtATimeStep, KeysFitStep, AcceptedStep
<1> QED
  BY <1>1, <1>2, TypeCorrect, PTL DEF Spec
================================================================================

----------------------------- MODULE KillFeedProofs -----------------------------
(***************************************************************************)
(* Theorems about KillFeed: whom a kill is credited to, what a wound decides *)
(* and how suicides are charged, for any number of threads and servers.      *)
(***************************************************************************)
EXTENDS KillFeed, SequenceTheorems, TLAPS

--------------------------------------------------------------------------------
(* The strengthenings.                                                      *)

\* Two players who have been in one team.
WereMates(s, p, q) == [server |-> s, pair |-> {p, q}] \in mates

\* Two players of one team of a roster of server s have been mates.
MatesOf(s, roster) ==
    \A p, q \in Players :
        p # q /\ roster[p] # 0 /\ roster[p] = roster[q] => WereMates(s, p, q)

\* Every roster there is, in the game, on its way or in the map, was one.
RostersWere ==
    /\ \A s \in Servers : MatesOf(s, team[s]) /\ MatesOf(s, teamMap[s])
    /\ \A t \in Threads : job[t] \in Lists => MatesOf(job[t].server, job[t].list)

\* The victim of a kill is one its line can mean, if there is such a one.
VictimMeant ==
    \A t \in Threads :
        /\ pc[t] = "victim" => Line(t).kind = "die"
        /\ pc[t] = "team" => job[t].event.victim \in Meant(Line(t)) \cup {Nobody}

\* A kill that will be scored as a team kill is, as its line can mean, one of mates.
TkPending ==
    \A t \in Threads : pc[t] \in {"kill", "score"} /\ job[t].event.score = "tk" =>
        \E m \in Meant(Line(t)) : WereMates(job[t].server, job[t].event.killer, m)

\* A kill that is about to be scored is in the table.
KillFirst ==
    \A t \in Threads : pc[t] = "score" /\ job[t].event.score \in {"kill", "tk"} =>
        [server |-> job[t].server, line |-> Line(t).n, killer |-> job[t].event.killer,
         victim |-> job[t].event.victim] \in kills

\* A wound in the table was stored when it says.
WoundsWere ==
    \A v \in Players : woundStore[v] # NoWound =>
        [victim |-> v, attacker |-> woundStore[v].attacker, time |-> woundStore[v].time] \in wounded

\* A line without an attacker is a suicide only by way of the cooldown.
NoOtherSuicide ==
    \A t \in Threads : pc[t] \in {"victim", "team", "kill"} /\ Line(t).attacker = Nobody =>
        job[t].event.killer = Nobody /\ job[t].event.score = "none"

\* A suicide without an attacker, charged or about to be.
Charged(x) == x.kind = "suicide" /\ x.line.attacker = Nobody /\ x.run = crashes
Charging(t) == pc[t] = "score" /\ job[t].event.score = "suicide" /\ Line(t).attacker = Nobody

Apart(x, y) == x - y >= Cooldown \/ y - x >= Cooldown

\* The last suicide of a server is no earlier than any that was charged, and they
\* are all apart.
ChargesApart ==
    /\ \A x \in scores : Charged(x) => x.start <= lastSuicide[x.server]
    /\ \A t \in Threads : Charging(t) => job[t].start <= lastSuicide[job[t].server]
    /\ \A x \in scores, t \in Threads :
        Charged(x) /\ Charging(t) /\ x.server = job[t].server => Apart(x.start, job[t].start)
    /\ \A t, u \in Threads :
        Charging(t) /\ Charging(u) /\ t # u /\ job[t].server = job[u].server =>
            Apart(job[t].start, job[u].start)

\* The numbers of lines in a sequence of them, and that they differ.
Numbers(q) == {q[i].n : i \in 1..Len(q)}
Distinct(q) == \A i, j \in 1..Len(q) : q[i].n = q[j].n => i = j

\* The lines a thread has.
LinesOf(t) == IF job[t] \in Batches THEN job[t].lines ELSE <<>>

\* No line is in two places.
LinesDiffer ==
    /\ \A s \in Servers : Distinct(feed[s])
    /\ \A t \in Threads : Distinct(LinesOf(t))
    /\ \A s, u \in Servers : s # u => Numbers(feed[s]) \cap Numbers(feed[u]) = {}
    /\ \A t, u \in Threads : t # u => Numbers(LinesOf(t)) \cap Numbers(LinesOf(u)) = {}
    /\ \A s \in Servers, t \in Threads : Numbers(feed[s]) \cap Numbers(LinesOf(t)) = {}

\* Some feed or thread still has the line of that number.
Placed(n) ==
    \/ \E s \in Servers : n \in Numbers(feed[s])
    \/ \E t \in Threads : n \in Numbers(LinesOf(t))

\* A line that is to come, or has not been handled, is not stored and has decided
\* nothing.
Untouched(n) == spent[n] = 0 /\ \A v \in Players : woundStore[v].line # n

LinesUntouched ==
    /\ \A n \in LineIds : n > events => Untouched(n)
    /\ \A n \in LineIds : Placed(n) => n <= events /\ Untouched(n)

\* A wound that is stored has decided nothing, and is stored once.
StoredUnspent ==
    \A v \in Players : woundStore[v] # NoWound =>
        /\ spent[woundStore[v].line] = 0
        /\ \A u \in Players \ {v} : woundStore[u].line # woundStore[v].line

--------------------------------------------------------------------------------
(* Requests and the steps of threads.                                       *)

\* What kind of request a thread has, by its next step.
LEMMA KindFacts ==
  ASSUME JobsTyped, NEW t \in Threads
  PROVE  /\ pc[t] \in BatchSteps => /\ job[t] \in Batches /\ job[t].lines # <<>>
                                    /\ job[t].start <= now
         /\ pc[t] \in ListSteps => job[t] \in Lists
         /\ pc[t] = "idle" => job[t] = NoJob
         /\ job[t] \in Batches => pc[t] \in BatchSteps
         /\ job[t] \in Lists => pc[t] \in ListSteps
<1>1. JobTyped(t)
  BY DEF JobsTyped
<1>2. NoJob \notin Batches /\ NoJob \notin Lists
  BY DEF NoJob, Batches, Lists
<1>3. \A j \in Lists : j \notin Batches
  BY DEF Batches, Lists
<1> QED
  BY <1>1, <1>2, <1>3 DEF JobTyped, BatchSteps, ListSteps

\* The line a thread is at, and what comes after it.
LEMMA LineFacts ==
  ASSUME JobsTyped, NEW t \in Threads, pc[t] \in BatchSteps
  PROVE  /\ Line(t) \in Lines /\ Line(t).n \in LineIds /\ Line(t).victim \in Players
         /\ Line(t).attacker \in Ids
         /\ job[t].server \in Servers /\ job[t].start \in 0..MaxTime /\ job[t].start <= now
         /\ job[t].event \in Events /\ job[t].lines \in Seq(Lines)
         /\ Len(job[t].lines) \in Nat /\ Len(job[t].lines) # 0
         /\ Tail(job[t].lines) \in Seq(Lines)
         /\ Len(Tail(job[t].lines)) = Len(job[t].lines) - 1
<1>1. job[t] \in Batches /\ job[t].lines # <<>> /\ job[t].start <= now
  BY KindFacts
<1>2. job[t].server \in Servers /\ job[t].start \in 0..MaxTime /\ job[t].event \in Events
      /\ job[t].lines \in Seq(Lines)
  BY <1>1 DEF Batches
<1>3. /\ Head(job[t].lines) \in Lines /\ Tail(job[t].lines) \in Seq(Lines)
      /\ Len(Tail(job[t].lines)) = Len(job[t].lines) - 1
      /\ Len(job[t].lines) \in Nat /\ Len(job[t].lines) # 0
  BY <1>1, <1>2, HeadTailProperties, LenProperties, EmptySeq
<1>4. Line(t) \in Lines
  BY <1>3 DEF Line
<1>5. Line(t).n \in LineIds /\ Line(t).victim \in Players /\ Line(t).attacker \in Ids
  BY <1>4 DEF Lines
<1> QED
  BY <1>1, <1>2, <1>3, <1>4, <1>5

\* A step of thread t leaves the other threads alone.
OnlyMoves(t) ==
    /\ pc' \in [Threads -> {"idle"} \cup ListSteps \cup BatchSteps]
    /\ job' \in [Threads -> {NoJob} \cup Lists \cup Batches]
    /\ \A u \in Threads \ {t} : pc'[u] = pc[u] /\ job'[u] = job[u]

LEMMA JobStep ==
  ASSUME StoreTyped, StoreTyped', JobsTyped, now <= now', NEW t \in Threads,
         OnlyMoves(t), JobTyped(t)'
  PROVE  JobsTyped'
<1>1. ASSUME NEW u \in Threads, u # t PROVE JobTyped(u)'
  <2>1. job'[u] = job[u] /\ pc'[u] = pc[u] /\ JobTyped(u)
    BY <1>1 DEF JobsTyped, OnlyMoves
  <2>2. now \in Int /\ now' \in Int /\ now <= now'
    BY FeedAssumption DEF StoreTyped
  <2>3. job[u] \in Batches => job[u].start \in 0..MaxTime
    BY DEF Batches
  <2> QED
    BY <2>1, <2>2, <2>3 DEF JobTyped
<1> QED
  BY <1>1 DEF JobsTyped, OnlyMoves

\* A thread that gets a step and a request.
LEMMA SetTypes ==
  ASSUME StoreTyped, StoreTyped', JobsTyped, now' = now, NEW t \in Threads, NEW p, NEW j,
         pc' = [pc EXCEPT ![t] = p], job' = [job EXCEPT ![t] = j],
         \/ p = "idle" /\ j = NoJob
         \/ p \in ListSteps /\ j \in Lists
         \/ p \in BatchSteps /\ j \in Batches /\ j.lines # <<>> /\ j.start <= now
  PROVE  JobsTyped' /\ OnlyMoves(t) /\ pc'[t] = p /\ job'[t] = j
<1>1. pc \in [Threads -> {"idle"} \cup ListSteps \cup BatchSteps]
      /\ job \in [Threads -> {NoJob} \cup Lists \cup Batches]
  BY DEF JobsTyped
<1>2. p \in {"idle"} \cup ListSteps \cup BatchSteps /\ j \in {NoJob} \cup Lists \cup Batches
  OBVIOUS
<1>3. OnlyMoves(t) /\ pc'[t] = p /\ job'[t] = j
  BY <1>1, <1>2 DEF OnlyMoves
<1>4. JobTyped(t)'
  BY <1>3 DEF JobTyped
<1>5. now <= now'
  BY FeedAssumption DEF StoreTyped
<1> QED
  BY <1>3, <1>4, <1>5, JobStep

\* The next line, or the end of the request.
LEMMA EndLineTypes ==
  ASSUME StoreTyped, StoreTyped', JobsTyped, now' = now, NEW t \in Threads, pc[t] \in BatchSteps,
         EndLine(t)
  PROVE  /\ JobsTyped' /\ OnlyMoves(t)
         /\ \/ pc'[t] = "idle" /\ job'[t] = NoJob
            \/ /\ pc'[t] = "line" /\ job'[t] \in Batches
               /\ job'[t].lines = Tail(job[t].lines) /\ job'[t].event = NoEvent
               /\ job'[t].server = job[t].server /\ job'[t].start = job[t].start
<1>1. CASE Len(job[t].lines) = 1
  <2>1. pc' = [pc EXCEPT ![t] = "idle"] /\ job' = [job EXCEPT ![t] = NoJob]
    BY <1>1 DEF EndLine
  <2> QED
    BY <2>1, SetTypes
<1>2. CASE Len(job[t].lines) # 1
  <2> DEFINE j == [job[t] EXCEPT !.lines = Tail(job[t].lines), !.event = NoEvent]
  <2>1. pc' = [pc EXCEPT ![t] = "line"] /\ job' = [job EXCEPT ![t] = j]
    BY <1>2 DEF EndLine
  <2>2. job[t] \in Batches
    BY KindFacts
  <2>3. Tail(job[t].lines) \in Seq(Lines) /\ Tail(job[t].lines) # <<>> /\ job[t].start <= now
    <3>1. Tail(job[t].lines) \in Seq(Lines) /\ Len(Tail(job[t].lines)) # 0 /\ job[t].start <= now
      BY <1>2, LineFacts
    <3>2. Len(<<>>) = 0
      OBVIOUS
    <3> QED
      BY <3>1, <3>2
  <2>4. NoEvent \in Events
    BY DEF NoEvent, Events, Ids
  <2>5. j \in Batches
    BY <2>2, <2>3, <2>4 DEF Batches
  <2>6. j.lines = Tail(job[t].lines) /\ j.event = NoEvent /\ j.server = job[t].server
        /\ j.start = job[t].start
    BY <2>2 DEF Batches
  <2>7. "line" \in BatchSteps
    BY DEF BatchSteps
  <2> HIDE DEF j
  <2> QED
    BY <2>1, <2>3, <2>5, <2>6, <2>7, SetTypes
<1> QED
  BY <1>1, <1>2

\* The next step of a line.
LEMMA GotoTypes ==
  ASSUME StoreTyped, StoreTyped', JobsTyped, now' = now, NEW t \in Threads, pc[t] \in BatchSteps,
         NEW p \in BatchSteps, NEW e \in Events, Goto(t, p, e)
  PROVE  /\ JobsTyped' /\ OnlyMoves(t)
         /\ pc'[t] = p /\ job'[t] \in Batches /\ job'[t].event = e
         /\ job'[t].lines = job[t].lines /\ Line(t)' = Line(t)
         /\ job'[t].server = job[t].server /\ job'[t].start = job[t].start
<1> DEFINE j == [job[t] EXCEPT !.event = e]
<1>1. pc' = [pc EXCEPT ![t] = p] /\ job' = [job EXCEPT ![t] = j]
  BY DEF Goto
<1>2. job[t] \in Batches /\ job[t].lines # <<>> /\ job[t].start <= now
  BY KindFacts
<1>3. j \in Batches
  BY <1>2 DEF Batches
<1>4. j.event = e /\ j.lines = job[t].lines /\ j.server = job[t].server /\ j.start = job[t].start
  BY <1>2 DEF Batches
<1> HIDE DEF j
<1>5. JobsTyped' /\ OnlyMoves(t) /\ pc'[t] = p /\ job'[t] = j
  BY <1>1, <1>2, <1>3, <1>4, SetTypes
<1> QED
  BY <1>3, <1>4, <1>5 DEF Line

--------------------------------------------------------------------------------
(* Type correctness, and what each step does.                               *)

\* What StoreTyped is about.
storeVars == <<now, events, crashes, team, teamMap, feed, liveCache, woundStore, lastSuicide,
               spent, kills, scores>>

LEMMA StoreSame ==
  ASSUME StoreTyped, UNCHANGED storeVars
  PROVE  StoreTyped'
BY DEF StoreTyped, storeVars

\* One more event.
LEMMA EventMore ==
  ASSUME StoreTyped, events < MaxEvents, events' = events + 1
  PROVE  events' \in 0..MaxEvents /\ events + 1 \in LineIds
BY FeedAssumption DEF StoreTyped, LineIds

\* The jobs stay when time may pass and no thread moves.
LEMMA JobsStay ==
  ASSUME StoreTyped, StoreTyped', JobsTyped, now <= now', UNCHANGED <<pc, job>>
  PROVE  JobsTyped'
<1>1. ASSUME NEW u \in Threads PROVE JobTyped(u)'
  <2>1. job'[u] = job[u] /\ pc'[u] = pc[u] /\ JobTyped(u)
    BY DEF JobsTyped
  <2>2. now \in Int /\ now' \in Int
    BY FeedAssumption DEF StoreTyped
  <2>3. job[u] \in Batches => job[u].start \in 0..MaxTime
    BY DEF Batches
  <2> QED
    BY <2>1, <2>2, <2>3 DEF JobTyped
<1> QED
  BY <1>1 DEF JobsTyped

LEMMA ChangeTeamTypes ==
  ASSUME TypeOK, NEW s \in Servers, NEW p \in Players, NEW x \in Teams \cup {0}, ChangeTeam(s, p, x)
  PROVE  TypeOK'
<1>1. team' \in [Servers -> Rosters]
  <2>1. team \in [Servers -> Rosters] /\ team' = [team EXCEPT ![s] = [team[s] EXCEPT ![p] = x]]
    BY DEF TypeOK, StoreTyped, ChangeTeam
  <2>2. [team[s] EXCEPT ![p] = x] \in Rosters
    BY <2>1 DEF Rosters
  <2> QED
    BY <2>1, <2>2
<1>2. events' \in 0..MaxEvents
  BY EventMore DEF TypeOK, ChangeTeam
<1>3. UNCHANGED <<now, feed, tables, stored, pc, job, history, crashes>>
  BY DEF ChangeTeam
<1>4. StoreTyped'
  BY <1>1, <1>2, <1>3 DEF TypeOK, StoreTyped, tables, stored, history
<1>5. now <= now'
  BY <1>3, FeedAssumption DEF TypeOK, StoreTyped
<1> QED
  BY <1>3, <1>4, <1>5, JobsStay DEF TypeOK

LEMMA LogTypes ==
  ASSUME TypeOK, NEW s \in Servers, NEW kind \in {"wound", "die"}, NEW v \in Players, NEW a \in Ids,
         Log(s, kind, v, a)
  PROVE  TypeOK'
<1> DEFINE l == [kind |-> kind, victim |-> v, attacker |-> a, n |-> events + 1]
<1>1. events' \in 0..MaxEvents /\ events + 1 \in LineIds
  BY EventMore DEF TypeOK, Log
<1>2. l \in Lines
  BY <1>1 DEF Lines
<1>3. feed \in [Servers -> Seq(Lines)] /\ feed' = [feed EXCEPT ![s] = Append(feed[s], l)]
  BY DEF TypeOK, StoreTyped, Log
<1> HIDE DEF l
<1>4. Append(feed[s], l) \in Seq(Lines)
  BY <1>2, <1>3, AppendProperties
<1>5. feed' \in [Servers -> Seq(Lines)]
  BY <1>3, <1>4
<1>6. UNCHANGED <<now, team, tables, stored, pc, job, history, crashes>>
  BY DEF Log
<1>7. StoreTyped'
  BY <1>1, <1>5, <1>6 DEF TypeOK, StoreTyped, tables, stored, history
<1>8. now <= now'
  BY <1>6, FeedAssumption DEF TypeOK, StoreTyped
<1> QED
  BY <1>6, <1>7, <1>8, JobsStay DEF TypeOK

\* A batch takes the first lines of a feed.
LEMMA PostTypes ==
  ASSUME TypeOK, NEW t \in Threads, NEW s \in Servers, NEW k, Post(t, s, k)
  PROVE  /\ TypeOK' /\ OnlyMoves(t)
         /\ pc[t] = "idle" /\ pc'[t] = "line" /\ k \in 1..Len(feed[s]) /\ feed[s] \in Seq(Lines)
         /\ job'[t] \in Batches /\ job'[t].server = s /\ job'[t].start = now
         /\ job'[t].lines = SubSeq(feed[s], 1, k) /\ job'[t].event = NoEvent
         /\ feed' = [feed EXCEPT ![s] = SubSeq(feed[s], k + 1, Len(feed[s]))]
<1> DEFINE j == [kind |-> "raw", server |-> s, start |-> now,
                 lines |-> SubSeq(feed[s], 1, k), event |-> NoEvent]
<1>1. feed \in [Servers -> Seq(Lines)] /\ feed[s] \in Seq(Lines) /\ k \in 1..Len(feed[s])
      /\ Len(feed[s]) \in Nat
  BY LenProperties DEF TypeOK, StoreTyped, Post
<1>2. /\ SubSeq(feed[s], 1, k) \in Seq(Lines) /\ SubSeq(feed[s], 1, k) # <<>>
      /\ SubSeq(feed[s], k + 1, Len(feed[s])) \in Seq(Lines)
  <2> DEFINE q == feed[s]
  <2>1. q \in Seq(Lines) /\ k \in 1..Len(q) /\ Len(q) \in Nat
    BY <1>1
  <2> HIDE DEF q
  <2>2. \A i \in 1..k : q[i] \in Lines
    BY <2>1, ElementOfSeq
  <2>3. \A i \in (k + 1)..Len(q) : q[i] \in Lines
    BY <2>1, ElementOfSeq
  <2>4. SubSeq(q, 1, k) \in Seq(Lines) /\ Len(SubSeq(q, 1, k)) = k
    BY <2>1, <2>2, SubSeqProperties
  <2>5. SubSeq(q, k + 1, Len(q)) \in Seq(Lines)
    BY <2>1, <2>3, SubSeqProperties
  <2>6. SubSeq(q, 1, k) # <<>>
    <3>1. Len(<<>>) = 0
      OBVIOUS
    <3> QED
      BY <2>1, <2>4, <3>1
  <2> QED
    BY <2>4, <2>5, <2>6 DEF q
<1>3. feed' = [feed EXCEPT ![s] = SubSeq(feed[s], k + 1, Len(feed[s]))] /\ pc[t] = "idle"
  BY DEF Post
<1>4. StoreTyped'
  <2>1. feed' \in [Servers -> Seq(Lines)]
    BY <1>1, <1>2, <1>3
  <2> QED
    BY <2>1 DEF TypeOK, StoreTyped, Post, tables, stored, history
<1>5. now \in 0..MaxTime /\ now' = now /\ now <= now
  BY FeedAssumption DEF TypeOK, StoreTyped, Post
<1>6. NoEvent \in Events
  BY DEF NoEvent, Events, Ids
<1>7. j \in Batches /\ j.lines # <<>> /\ j.start <= now
  BY <1>2, <1>5, <1>6 DEF Batches
<1>8. pc' = [pc EXCEPT ![t] = "line"] /\ job' = [job EXCEPT ![t] = j]
  BY DEF Post
<1>9. j.server = s /\ j.start = now /\ j.lines = SubSeq(feed[s], 1, k) /\ j.event = NoEvent
  OBVIOUS
<1>10. "line" \in BatchSteps
  BY DEF BatchSteps
<1> HIDE DEF j
<1>11. JobsTyped' /\ OnlyMoves(t) /\ pc'[t] = "line" /\ job'[t] = j
  BY <1>4, <1>5, <1>7, <1>8, <1>10, SetTypes DEF TypeOK
<1> QED
  BY <1>1, <1>3, <1>4, <1>7, <1>9, <1>11 DEF TypeOK

\* A kill is posted by its ids.
LEMMA PostKillTypes ==
  ASSUME TypeOK, NEW t \in Threads, NEW s \in Servers, NEW k \in Ids, NEW v \in Players,
         PostKill(t, s, k, v)
  PROVE  /\ TypeOK' /\ OnlyMoves(t)
         /\ pc[t] = "idle" /\ pc'[t] = "team" /\ job'[t] \in Batches /\ job'[t].server = s
         /\ Len(job'[t].lines) = 1 /\ Line(t)'.attacker = k /\ Line(t)'.n = events + 1
         /\ job'[t].event.killer = k /\ job'[t].event.score = "none" /\ events + 1 \in LineIds
         /\ job'[t].event.victim = v /\ Line(t)'.victim = v
<1> DEFINE l == [kind |-> "kill", victim |-> v, attacker |-> k, n |-> events + 1]
           e == [NoEvent EXCEPT !.killer = k, !.victim = v]
           j == [kind |-> "kill", server |-> s, start |-> 0, lines |-> <<l>>, event |-> e]
<1>1. events' \in 0..MaxEvents /\ events + 1 \in LineIds
  BY EventMore DEF TypeOK, PostKill
<1>2. StoreTyped'
  BY <1>1 DEF TypeOK, StoreTyped, PostKill, game, tables, stored, history
<1>3. now \in Nat /\ now' = now /\ MaxTime \in Nat /\ 0 \in 0..MaxTime /\ 0 <= now
  BY FeedAssumption DEF TypeOK, StoreTyped, PostKill
<1>4. l \in Lines
  BY <1>1 DEF Lines
<1>5. e \in Events /\ e.killer = k /\ e.score = "none" /\ e.victim = v
  BY DEF Events, NoEvent, Ids
<1>6. <<l>> \in Seq(Lines) /\ <<l>> # <<>> /\ Len(<<l>>) = 1 /\ Head(<<l>>) = l
  <2> HIDE DEF l
  <2> QED
    BY <1>4
<1>7. l.attacker = k /\ l.n = events + 1 /\ l.victim = v
  OBVIOUS
<1> HIDE DEF l, e
<1>8. j \in Batches
  BY <1>3, <1>5, <1>6 DEF Batches
<1>9. j.lines = <<l>> /\ j.start = 0 /\ j.server = s /\ j.event = e
  OBVIOUS
<1>10. pc' = [pc EXCEPT ![t] = "team"] /\ job' = [job EXCEPT ![t] = j] /\ pc[t] = "idle"
  BY DEF PostKill, l, e
<1>11. "team" \in BatchSteps
  BY DEF BatchSteps
<1> HIDE DEF j
<1>12. JobsTyped' /\ OnlyMoves(t) /\ pc'[t] = "team" /\ job'[t] = j
  BY <1>2, <1>3, <1>6, <1>8, <1>9, <1>10, <1>11, SetTypes DEF TypeOK
<1>13. Line(t)' = l
  BY <1>6, <1>9, <1>12 DEF Line
<1> QED
  BY <1>1, <1>2, <1>5, <1>6, <1>7, <1>8, <1>9, <1>10, <1>12, <1>13 DEF TypeOK

LEMMA PostListTypes ==
  ASSUME TypeOK, NEW t \in Threads, NEW s \in Servers, PostList(t, s)
  PROVE  /\ TypeOK' /\ OnlyMoves(t)
         /\ pc[t] = "idle" /\ pc'[t] = "cache"
         /\ job'[t] \in Lists /\ job'[t].server = s /\ job'[t].list = team[s]
<1> DEFINE j == [kind |-> "list", server |-> s, list |-> team[s]]
<1>1. events' \in 0..MaxEvents /\ events + 1 \in LineIds
  BY EventMore DEF TypeOK, PostList
<1>2. StoreTyped' /\ now' = now
  BY <1>1 DEF TypeOK, StoreTyped, PostList, game, tables, stored, history
<1>3. j \in Lists
  BY DEF TypeOK, StoreTyped, Lists
<1>4. pc' = [pc EXCEPT ![t] = "cache"] /\ job' = [job EXCEPT ![t] = j] /\ pc[t] = "idle"
  BY DEF PostList
<1>5. j.server = s /\ j.list = team[s]
  OBVIOUS
<1>6. "cache" \in ListSteps
  BY DEF ListSteps
<1> HIDE DEF j
<1>7. JobsTyped' /\ OnlyMoves(t) /\ pc'[t] = "cache" /\ job'[t] = j
  BY <1>2, <1>3, <1>4, <1>6, SetTypes DEF TypeOK
<1> QED
  BY <1>2, <1>3, <1>4, <1>5, <1>7 DEF TypeOK

LEMMA UpdateCacheTypes ==
  ASSUME TypeOK, NEW t \in Threads, UpdateCache(t)
  PROVE  TypeOK' /\ OnlyMoves(t) /\ pc'[t] = "teams" /\ job'[t] = job[t]
<1>1. job[t] \in Lists /\ "teams" \in ListSteps
  BY KindFacts DEF TypeOK, UpdateCache, ListSteps
<1>2. StoreTyped' /\ now' = now
  <2>1. liveCache' \in [Servers -> SUBSET Players]
    BY <1>1 DEF TypeOK, StoreTyped, UpdateCache, Lists
  <2> QED
    BY <2>1 DEF TypeOK, StoreTyped, UpdateCache, game, stored, history
<1>3. pc' = [pc EXCEPT ![t] = "teams"] /\ job' = [job EXCEPT ![t] = job[t]] /\ job' = job
  <2>1. job \in [Threads -> {NoJob} \cup Lists \cup Batches] /\ job' = job
    BY DEF TypeOK, JobsTyped, UpdateCache
  <2> QED
    BY <2>1 DEF UpdateCache
<1>4. JobsTyped' /\ OnlyMoves(t) /\ pc'[t] = "teams" /\ job'[t] = job[t]
  BY <1>1, <1>2, <1>3, SetTypes DEF TypeOK
<1> QED
  BY <1>2, <1>4 DEF TypeOK

LEMMA UpdateTeamsTypes ==
  ASSUME TypeOK, NEW t \in Threads, UpdateTeams(t)
  PROVE  /\ TypeOK' /\ OnlyMoves(t) /\ pc'[t] = "idle" /\ job'[t] = NoJob
         /\ job[t] \in Lists /\ job[t].server \in Servers
<1>1. job[t] \in Lists
  BY KindFacts DEF TypeOK, UpdateTeams, ListSteps
<1>2. StoreTyped' /\ now' = now
  <2>1. teamMap' \in [Servers -> Rosters]
    BY <1>1 DEF TypeOK, StoreTyped, UpdateTeams, Lists
  <2> QED
    BY <2>1 DEF TypeOK, StoreTyped, UpdateTeams, game, stored, history
<1>3. pc' = [pc EXCEPT ![t] = "idle"] /\ job' = [job EXCEPT ![t] = NoJob]
  BY DEF UpdateTeams
<1>4. JobsTyped' /\ OnlyMoves(t) /\ pc'[t] = "idle" /\ job'[t] = NoJob
  BY <1>2, <1>3, SetTypes DEF TypeOK
<1> QED
  BY <1>1, <1>2, <1>4 DEF TypeOK, Lists

\* What the end of a line does to a thread.
Ends(t) ==
    \/ pc'[t] = "idle" /\ job'[t] = NoJob
    \/ /\ pc'[t] = "line" /\ job'[t] \in Batches
       /\ job'[t].lines = Tail(job[t].lines) /\ job'[t].event = NoEvent
       /\ job'[t].server = job[t].server /\ job'[t].start = job[t].start

\* And the next step of the same line.
Goes(t, p) ==
    /\ pc'[t] = p /\ job'[t] \in Batches /\ Line(t)' = Line(t)
    /\ job'[t].lines = job[t].lines
    /\ job'[t].server = job[t].server /\ job'[t].start = job[t].start

LEMMA StoreWoundTypes ==
  ASSUME TypeOK, NEW t \in Threads, StoreWound(t)
  PROVE  TypeOK' /\ OnlyMoves(t) /\ Ends(t) /\ pc[t] = "line" /\ pc[t] \in BatchSteps
<1>1. pc[t] = "line" /\ pc[t] \in BatchSteps /\ now' = now /\ EndLine(t)
  BY DEF StoreWound, BatchSteps
<1>2. Line(t).victim \in Players /\ Line(t).attacker \in Ids /\ Line(t).n \in LineIds
  BY <1>1, LineFacts DEF TypeOK
<1> DEFINE w == [attacker |-> Line(t).attacker, time |-> now, line |-> Line(t).n]
<1>3. w \in [attacker : Ids, time : 0..now, line : LineIds]
  BY <1>2, FeedAssumption DEF LineIds, TypeOK, StoreTyped
<1>4. woundStore' = [woundStore EXCEPT ![Line(t).victim] = w]
  BY DEF StoreWound
<1> HIDE DEF w
<1>5. woundStore' \in [Players -> {NoWound} \cup [attacker : Ids, time : 0..now, line : LineIds]]
  BY <1>2, <1>3, <1>4 DEF TypeOK, StoreTyped
<1>6. StoreTyped'
  BY <1>5 DEF TypeOK, StoreTyped, StoreWound, game, stored
<1>7. JobsTyped' /\ OnlyMoves(t) /\ Ends(t)
  BY <1>1, <1>6, EndLineTypes DEF TypeOK, Ends
<1> QED
  BY <1>1, <1>6, <1>7 DEF TypeOK

\* Where a Die() line goes from, and with whom as the killer.
Hit(v) == woundStore[v] # NoWound /\ now - woundStore[v].time <= Expiry

LEMMA ParseDieTypes ==
  ASSUME TypeOK, NEW t \in Threads, ParseDie(t)
  PROVE  /\ TypeOK' /\ OnlyMoves(t) /\ pc[t] = "line"
         /\ Line(t) \in Lines /\ Line(t).kind = "die"
         /\ Goes(t, IF Line(t).attacker = Nobody THEN "suicide" ELSE "victim")
         /\ job'[t].event.score = "none"
         /\ job'[t].event.killer = IF /\ Hit(Line(t).victim)
                                      /\ woundStore[Line(t).victim].attacker # Nobody
                                   THEN woundStore[Line(t).victim].attacker
                                   ELSE Line(t).attacker
<1> DEFINE l == Line(t)
           w == woundStore[l.victim]
           hit == w # NoWound /\ now - w.time <= Expiry
           killer == IF hit /\ w.attacker # Nobody THEN w.attacker ELSE l.attacker
           p == IF l.attacker = Nobody THEN "suicide" ELSE "victim"
           e == [NoEvent EXCEPT !.killer = killer]
<1>1. pc[t] = "line" /\ pc[t] \in BatchSteps /\ now' = now /\ Goto(t, p, e)
  BY DEF ParseDie, BatchSteps
<1>2. l \in Lines /\ l.victim \in Players /\ l.attacker \in Ids
  BY <1>1, LineFacts DEF TypeOK
<1>3. w # NoWound => w \in [attacker : Ids, time : 0..now, line : LineIds]
  BY <1>2 DEF TypeOK, StoreTyped
<1>4. woundStore' = (IF hit THEN [woundStore EXCEPT ![l.victim] = NoWound] ELSE woundStore)
      /\ spent' = (IF hit THEN [spent EXCEPT ![w.line] = @ + 1] ELSE spent)
  BY DEF ParseDie
<1>6. hit => w.line \in LineIds
  BY <1>2, <1>3
<1>7. killer \in Ids
  BY <1>2, <1>3
<1>8. e \in Events /\ e.score = "none" /\ e.killer = killer /\ p \in BatchSteps
  <2> HIDE DEF killer
  <2> QED
    BY <1>7 DEF Events, NoEvent, Ids, BatchSteps
<1>9. killer = IF /\ Hit(Line(t).victim)
                  /\ woundStore[Line(t).victim].attacker # Nobody
               THEN woundStore[Line(t).victim].attacker
               ELSE Line(t).attacker
  BY DEF Hit
<1>10. woundStore \in [Players -> {NoWound} \cup [attacker : Ids, time : 0..now, line : LineIds]]
       /\ spent \in [LineIds -> Nat]
  BY DEF TypeOK, StoreTyped
<1>11. p = IF Line(t).attacker = Nobody THEN "suicide" ELSE "victim"
  OBVIOUS
<1>12. l = Line(t) /\ Line(t).kind = "die"
  BY DEF ParseDie
<1> HIDE DEF l, w, hit, killer, e, p
<1>13. woundStore' \in [Players -> {NoWound} \cup [attacker : Ids, time : 0..now, line : LineIds]]
       /\ spent' \in [LineIds -> Nat]
  BY <1>2, <1>4, <1>6, <1>10
<1>14. StoreTyped'
  BY <1>13 DEF TypeOK, StoreTyped, ParseDie, game, stored
<1>15. JobsTyped' /\ OnlyMoves(t) /\ Goes(t, p) /\ job'[t].event = e
  BY <1>1, <1>8, <1>14, GotoTypes DEF TypeOK, Goes
<1> QED
  BY <1>1, <1>2, <1>8, <1>9, <1>11, <1>12, <1>14, <1>15 DEF TypeOK

LEMMA SuicideTypes ==
  ASSUME TypeOK, NEW t \in Threads, Suicide(t)
  PROVE  /\ TypeOK' /\ OnlyMoves(t) /\ pc[t] = "suicide" /\ pc[t] \in BatchSteps
         /\ job[t].server \in Servers /\ job[t].start \in 0..now /\ lastSuicide[job[t].server] \in 0..now
         /\ \/ /\ Ends(t) /\ UNCHANGED lastSuicide
               /\ job[t].start - lastSuicide[job[t].server] < Cooldown
            \/ /\ Goes(t, "score") /\ job'[t].event.score = "suicide"
               /\ lastSuicide' = [lastSuicide EXCEPT ![job[t].server] = job[t].start]
               /\ job[t].start - lastSuicide[job[t].server] >= Cooldown
<1>1. pc[t] = "suicide" /\ pc[t] \in BatchSteps /\ now' = now
  BY DEF Suicide, BatchSteps
<1> DEFINE s == job[t].server
           e == [job[t].event EXCEPT !.victim = job[t].event.killer, !.score = "suicide"]
<1>2. s \in Servers /\ job[t].event \in Events /\ job[t].start \in 0..now
  BY <1>1, LineFacts, FeedAssumption DEF TypeOK, StoreTyped
<1>3. e \in Events /\ e.score = "suicide" /\ "score" \in BatchSteps
  BY <1>2 DEF Events, BatchSteps
<1>4. lastSuicide \in [Servers -> 0..now] /\ lastSuicide[s] \in 0..now /\ now \in Nat
  BY <1>2, FeedAssumption DEF TypeOK, StoreTyped
<1>5. \/ /\ EndLine(t) /\ lastSuicide' = lastSuicide
         /\ job[t].start - lastSuicide[s] < Cooldown
      \/ /\ Goto(t, "score", e) /\ lastSuicide' = [lastSuicide EXCEPT ![s] = job[t].start]
         /\ job[t].start - lastSuicide[s] >= Cooldown
  BY <1>2, <1>4, FeedAssumption DEF Suicide
<1>6. StoreTyped'
  <2>1. lastSuicide' \in [Servers -> 0..now]
    BY <1>2, <1>4, <1>5
  <2> QED
    BY <1>1, <2>1 DEF TypeOK, StoreTyped, Suicide, game, stored, history
<1> HIDE DEF e
<1>7. CASE /\ EndLine(t) /\ lastSuicide' = lastSuicide
           /\ job[t].start - lastSuicide[s] < Cooldown
  BY <1>1, <1>2, <1>4, <1>6, <1>7, EndLineTypes DEF TypeOK, Ends
<1>8. CASE /\ Goto(t, "score", e) /\ lastSuicide' = [lastSuicide EXCEPT ![s] = job[t].start]
           /\ job[t].start - lastSuicide[s] >= Cooldown
  BY <1>1, <1>2, <1>3, <1>4, <1>6, <1>8, GotoTypes DEF TypeOK, Goes
<1> QED
  BY <1>5, <1>7, <1>8

LEMMA ResolveVictimTypes ==
  ASSUME TypeOK, NEW t \in Threads, ResolveVictim(t)
  PROVE  /\ TypeOK' /\ OnlyMoves(t) /\ pc[t] = "victim" /\ pc[t] \in BatchSteps
         /\ Goes(t, "team") /\ job'[t].event.killer = job[t].event.killer
         /\ job'[t].event.score = job[t].event.score
         /\ job'[t].event.victim \in Resolve(job[t].server, Line(t).victim)
         /\ job[t].server \in Servers
<1>1. pc[t] = "victim" /\ pc[t] \in BatchSteps /\ now' = now
  BY DEF ResolveVictim, BatchSteps
<1>2. job[t].server \in Servers /\ job[t].event \in Events /\ Line(t).victim \in Players
  BY <1>1, LineFacts DEF TypeOK
<1>3. PICK v \in Resolve(job[t].server, Line(t).victim) :
        Goto(t, "team", [job[t].event EXCEPT !.victim = v])
  BY DEF ResolveVictim
<1>4. v \in Ids
  <2>1. liveCache[job[t].server] \subseteq Players
    BY <1>2 DEF TypeOK, StoreTyped
  <2> QED
    BY <1>2, <1>3, <2>1 DEF Resolve, Ids
<1> DEFINE e == [job[t].event EXCEPT !.victim = v]
<1>5. e \in Events /\ e.killer = job[t].event.killer /\ e.score = job[t].event.score
      /\ e.victim = v /\ "team" \in BatchSteps
  BY <1>2, <1>4 DEF Events, BatchSteps
<1>6. StoreTyped'
  BY DEF TypeOK, StoreTyped, ResolveVictim, game, tables, stored, history
<1>7. Goto(t, "team", e)
  BY <1>3
<1> HIDE DEF e
<1> QED
  BY <1>1, <1>2, <1>3, <1>5, <1>6, <1>7, GotoTypes DEF TypeOK, Goes

\* What a kill scores is settled by its two players and the map.
LEMMA CheckTeamTypes ==
  ASSUME TypeOK, NEW t \in Threads, CheckTeam(t)
  PROVE  /\ TypeOK' /\ OnlyMoves(t) /\ pc[t] = "team" /\ pc[t] \in BatchSteps
         /\ Goes(t, "kill")
         /\ job'[t].event.killer = job[t].event.killer
         /\ job'[t].event.victim = job[t].event.victim
         /\ job[t].event.killer = Nobody => job'[t].event.score = "none"
         /\ job'[t].event.score = "tk" =>
                /\ job[t].event.killer # job[t].event.victim
                /\ IsTeamKill(job[t].server, job[t].event.killer, job[t].event.victim)
<1>1. pc[t] = "team" /\ pc[t] \in BatchSteps /\ now' = now
  BY DEF CheckTeam, BatchSteps
<1>2. job[t].event \in Events
  BY <1>1, LineFacts DEF TypeOK
<1> DEFINE old == job[t].event
           score == CASE old.killer = Nobody -> "none"
                      [] old.killer # Nobody /\ old.killer = old.victim -> "suicide"
                      [] old.killer # old.victim
                            /\ IsTeamKill(job[t].server, old.killer, old.victim) -> "tk"
                      [] OTHER -> "kill"
           e == [old EXCEPT !.score = score]
<1>3. Goto(t, "kill", e)
  BY DEF CheckTeam
<1>4. /\ score \in {"none", "suicide", "kill", "tk"}
      /\ old.killer = Nobody => score = "none"
      /\ score = "tk" => old.killer # old.victim /\ IsTeamKill(job[t].server, old.killer, old.victim)
  <2>1. CASE old.killer = Nobody
    <3>1. score = "none"
      BY <2>1, FeedAssumption DEF IsTeamKill
    <3> QED
      BY <2>1, <3>1
  <2>2. CASE old.killer # Nobody /\ old.killer = old.victim
    <3>1. score = "suicide"
      BY <2>2
    <3> QED
      BY <2>2, <3>1
  <2>3. CASE /\ old.killer # Nobody /\ old.killer # old.victim
             /\ IsTeamKill(job[t].server, old.killer, old.victim)
    <3>1. score = "tk"
      BY <2>3
    <3> QED
      BY <2>3, <3>1
  <2>4. CASE /\ old.killer # Nobody /\ old.killer # old.victim
             /\ ~IsTeamKill(job[t].server, old.killer, old.victim)
    <3>1. score = "kill"
      BY <2>4
    <3> QED
      BY <2>4, <3>1
  <2> QED
    BY <2>1, <2>2, <2>3, <2>4
<1> HIDE DEF score
<1>5. e \in Events /\ e.killer = old.killer /\ e.victim = old.victim /\ e.score = score
      /\ "kill" \in BatchSteps
  BY <1>2, <1>4 DEF Events, BatchSteps
<1>6. StoreTyped'
  BY DEF TypeOK, StoreTyped, CheckTeam, game, tables, stored, history
<1> HIDE DEF e
<1>7. TypeOK' /\ OnlyMoves(t) /\ Goes(t, "kill") /\ job'[t].event = e
  BY <1>1, <1>3, <1>5, <1>6, GotoTypes DEF TypeOK, Goes
<1> QED
  BY <1>1, <1>4, <1>5, <1>7

LEMMA RecordKillTypes ==
  ASSUME TypeOK, NEW t \in Threads, RecordKill(t)
  PROVE  /\ TypeOK' /\ OnlyMoves(t) /\ pc[t] = "kill" /\ pc[t] \in BatchSteps
         /\ Goes(t, "score") /\ job'[t].event = job[t].event
<1>1. pc[t] = "kill" /\ pc[t] \in BatchSteps /\ now' = now /\ Goto(t, "score", job[t].event)
  BY DEF RecordKill, BatchSteps
<1>2. job[t].event \in Events /\ job[t].server \in Servers /\ Line(t).n \in LineIds
      /\ "score" \in BatchSteps
  BY <1>1, LineFacts DEF TypeOK, BatchSteps
<1>3. kills' \subseteq [server : Servers, line : LineIds, killer : Ids, victim : Ids]
  BY <1>2 DEF RecordKill, TypeOK, StoreTyped, Events
<1>4. StoreTyped'
  BY <1>3 DEF TypeOK, StoreTyped, RecordKill, game, tables, history
<1> QED
  BY <1>1, <1>2, <1>4, GotoTypes DEF TypeOK, Goes

\* The call of scoreKill or scoreSuicide that thread t makes.
Scoring(t) ==
    [server |-> job[t].server, line |-> Line(t),
     player |-> IF job[t].event.score = "suicide" THEN job[t].event.victim
                ELSE job[t].event.killer,
     kind |-> job[t].event.score, start |-> job[t].start, run |-> crashes]

LEMMA ScoreTypes ==
  ASSUME TypeOK, NEW t \in Threads, Score(t)
  PROVE  /\ TypeOK' /\ OnlyMoves(t) /\ pc[t] = "score" /\ pc[t] \in BatchSteps /\ Ends(t)
         /\ scores' \subseteq scores \cup {Scoring(t)}
<1>1. pc[t] = "score" /\ pc[t] \in BatchSteps /\ now' = now /\ EndLine(t)
  BY DEF Score, BatchSteps
<1>2. job[t].event \in Events /\ job[t].server \in Servers /\ Line(t) \in Lines
      /\ job[t].start \in 0..now
  BY <1>1, LineFacts, FeedAssumption DEF TypeOK, StoreTyped
<1>3. scores' = scores \cup {x \in {Scoring(t)} : x.kind # "none"}
  BY DEF Score, Scoring
<1> DEFINE A == [server : Servers, line : Lines, player : Ids,
                 kind : {"suicide", "kill", "tk"}, start : 0..now, run : 0..crashes]
<1>4. Scoring(t).kind # "none" => Scoring(t) \in A
  <2>1. job[t].event.score \in {"none", "suicide", "kill", "tk"}
        /\ job[t].event.victim \in Ids /\ job[t].event.killer \in Ids
    BY <1>2 DEF Events
  <2>2. crashes \in 0..crashes
    BY FeedAssumption DEF TypeOK, StoreTyped
  <2> QED
    BY <1>2, <2>1, <2>2 DEF Scoring
<1>5. scores' \subseteq A
  BY <1>3, <1>4 DEF TypeOK, StoreTyped
<1>6. StoreTyped'
  BY <1>5 DEF TypeOK, StoreTyped, Score, game, tables, history
<1> QED
  BY <1>1, <1>3, <1>6, EndLineTypes DEF TypeOK, Ends

LEMMA TickTypes ==
  ASSUME TypeOK, Tick
  PROVE  TypeOK'
<1>1. now \in Nat /\ now' = now + 1 /\ now' \in Cooldown..MaxTime /\ MaxTime \in Nat
      /\ Cooldown \in Nat
  BY FeedAssumption DEF TypeOK, StoreTyped, Tick
<1>2. 0..now \subseteq 0..now'
  BY <1>1
<1>3. woundStore \in [Players -> {NoWound} \cup [attacker : Ids, time : 0..now', line : LineIds]]
  <2>1. [attacker : Ids, time : 0..now, line : LineIds]
          \subseteq [attacker : Ids, time : 0..now', line : LineIds]
    BY <1>2
  <2> QED
    BY <2>1 DEF TypeOK, StoreTyped
<1>4. lastSuicide \in [Servers -> 0..now']
  BY <1>2 DEF TypeOK, StoreTyped
<1>5. scores \subseteq [server : Servers, line : Lines, player : Ids,
                        kind : {"suicide", "kill", "tk"}, start : 0..now', run : 0..crashes]
  BY <1>2 DEF TypeOK, StoreTyped
<1>6. StoreTyped'
  BY <1>1, <1>3, <1>4, <1>5 DEF TypeOK, StoreTyped, Tick, game, tables, stored, history
<1>7. now <= now' /\ UNCHANGED <<pc, job>>
  BY <1>1 DEF Tick
<1> QED
  BY <1>6, <1>7, JobsStay DEF TypeOK

LEMMA CrashTypes ==
  ASSUME TypeOK, Crash
  PROVE  TypeOK' /\ \A t \in Threads : pc'[t] = "idle" /\ job'[t] = NoJob
<1>1. pc' = [t \in Threads |-> "idle"] /\ job' = [t \in Threads |-> NoJob] /\ now' = now
  BY DEF Crash
<1>2. JobsTyped'
  BY <1>1 DEF JobsTyped, JobTyped
<1>3. now \in Nat /\ crashes' \in 0..MaxCrashes /\ 0..crashes \subseteq 0..crashes'
  BY FeedAssumption DEF Crash, TypeOK, StoreTyped
<1>4. woundStore' \in [Players -> {NoWound} \cup [attacker : Ids, time : 0..now, line : LineIds]]
  BY <1>3, FeedAssumption DEF Crash, NoWound, Ids
<1>5. teamMap' \in [Servers -> Rosters] /\ liveCache' \in [Servers -> SUBSET Players]
      /\ lastSuicide' \in [Servers -> 0..now]
  BY <1>3 DEF Crash, Rosters
<1>6. scores \subseteq [server : Servers, line : Lines, player : Ids,
                        kind : {"suicide", "kill", "tk"}, start : 0..now, run : 0..crashes']
  BY <1>3 DEF TypeOK, StoreTyped
<1>7. StoreTyped'
  BY <1>1, <1>3, <1>4, <1>5, <1>6 DEF TypeOK, StoreTyped, Crash, game, stored, history
<1> QED
  BY <1>1, <1>2, <1>7 DEF TypeOK

LEMMA InitTypes ==
  ASSUME Init
  PROVE  TypeOK
<1>1. JobsTyped
  BY DEF Init, JobsTyped, JobTyped
<1>2. StoreTyped
  <2>1. now \in Cooldown..MaxTime /\ 0 \in 0..now /\ events \in 0..MaxEvents /\ crashes \in 0..MaxCrashes
    BY FeedAssumption DEF Init
  <2>2. team \in [Servers -> Rosters]
    <3>1. {0} \cup Teams = {0, 1, 2}
      BY DEF Teams
    <3>2. Rosters = [Players -> {0, 1, 2}]
      BY <3>1 DEF Rosters
    <3> QED
      BY <3>2, FeedAssumption DEF Init
  <2>3. teamMap \in [Servers -> Rosters] /\ feed \in [Servers -> Seq(Lines)]
        /\ liveCache \in [Servers -> SUBSET Players]
    BY DEF Init, Rosters
  <2>4. woundStore \in [Players -> {NoWound} \cup [attacker : Ids, time : 0..now, line : LineIds]]
    BY <2>1, FeedAssumption DEF Init, NoWound, Ids
  <2>5. lastSuicide \in [Servers -> 0..now] /\ spent \in [LineIds -> Nat] /\ kills = {} /\ scores = {}
    BY <2>1 DEF Init
  <2> QED
    BY <2>1, <2>2, <2>3, <2>4, <2>5 DEF StoreTyped
<1> QED
  BY <1>1, <1>2 DEF TypeOK

\* A step of the system, as what it is a step of.
LEMMA NextCases ==
  ASSUME Next
  PROVE  \/ \E s \in Servers, p \in Players, x \in Teams \cup {0} : ChangeTeam(s, p, x)
         \/ \E s \in Servers, kind \in {"wound", "die"}, p \in Players, a \in Ids : Log(s, kind, p, a)
         \/ \E t \in Threads, s \in Servers, k \in 1..MaxEvents : Post(t, s, k)
         \/ \E t \in Threads, s \in Servers, k \in Ids, v \in Players : PostKill(t, s, k, v)
         \/ \E t \in Threads, s \in Servers : PostList(t, s)
         \/ \E t \in Threads : UpdateCache(t)
         \/ \E t \in Threads : UpdateTeams(t)
         \/ \E t \in Threads : StoreWound(t)
         \/ \E t \in Threads : ParseDie(t)
         \/ \E t \in Threads : Suicide(t)
         \/ \E t \in Threads : ResolveVictim(t)
         \/ \E t \in Threads : CheckTeam(t)
         \/ \E t \in Threads : RecordKill(t)
         \/ \E t \in Threads : Score(t)
         \/ Tick
         \/ Crash
<1>1. Game => \/ \E s \in Servers, p \in Players, x \in Teams \cup {0} : ChangeTeam(s, p, x)
              \/ \E s \in Servers, kind \in {"wound", "die"}, p \in Players, a \in Ids :
                    Log(s, kind, p, a)
  BY DEF Game, Ids
<1>2. ASSUME NEW t \in Threads, Handle(t)
      PROVE  \/ UpdateCache(t) \/ UpdateTeams(t) \/ StoreWound(t) \/ ParseDie(t) \/ Suicide(t)
             \/ ResolveVictim(t) \/ CheckTeam(t) \/ RecordKill(t) \/ Score(t)
  BY <1>2 DEF Handle
<1> QED
  BY <1>1, <1>2 DEF Next, Ids

LEMMA StutterTypes ==
  ASSUME TypeOK, UNCHANGED vars
  PROVE  TypeOK'
<1>1. StoreTyped'
  BY DEF vars, TypeOK, StoreTyped
<1>2. JobsTyped'
  BY DEF vars, TypeOK, JobsTyped, JobTyped
<1> QED
  BY <1>1, <1>2 DEF TypeOK

LEMMA TypeInvariance ==
  ASSUME TypeOK, [Next]_vars
  PROVE  TypeOK'
<1>1. CASE Next
  BY <1>1, NextCases, ChangeTeamTypes, LogTypes, PostTypes, PostKillTypes, PostListTypes,
     UpdateCacheTypes, UpdateTeamsTypes, StoreWoundTypes, ParseDieTypes, SuicideTypes,
     ResolveVictimTypes, CheckTeamTypes, RecordKillTypes, ScoreTypes, TickTypes, CrashTypes
<1>2. CASE UNCHANGED vars
  BY <1>2, StutterTypes
<1> QED
  BY <1>1, <1>2

\* A thread that handles lines of a batch always has one, of players and servers
\* there are, and no batch came later than now; the tables have what their readers
\* expect of them (handlePostEventsRaw and handlePostKill, the player lists).
THEOREM TypeCorrect == Spec => []TypeOK
<1>1. TypeOK /\ [Next]_vars => TypeOK'
  BY TypeInvariance
<1> QED
  BY <1>1, InitTypes, PTL DEF Spec

--------------------------------------------------------------------------------
(* How a thread comes to a step, and what changes the tables.               *)

\* The step before the one a thread is at.
Came(u) ==
    \/ pc'[u] = pc[u] /\ job'[u] = job[u]
    \/ pc'[u] = "idle" /\ job'[u] = NoJob
    \/ pc'[u] = "line" /\ pc[u] \in BatchSteps /\ Ends(u)
    \/ pc'[u] = "line" /\ \E s \in Servers, k \in 1..MaxEvents : Post(u, s, k)
    \/ pc'[u] \in {"suicide", "victim"} /\ ParseDie(u)
    \/ pc'[u] = "team" /\ ResolveVictim(u)
    \/ pc'[u] = "team" /\ \E s \in Servers, k \in Ids, v \in Players : PostKill(u, s, k, v)
    \/ pc'[u] = "kill" /\ CheckTeam(u)
    \/ pc'[u] = "score" /\ RecordKill(u)
    \/ pc'[u] = "score" /\ Suicide(u)
    \/ pc'[u] = "cache" /\ \E s \in Servers : PostList(u, s)
    \/ pc'[u] = "teams" /\ UpdateCache(u)

LEMMA Arrives ==
  ASSUME TypeOK, [Next]_vars, NEW u \in Threads
  PROVE  Came(u)
<1>1. ASSUME NEW t \in Threads, OnlyMoves(t), t # u PROVE Came(u)
  BY <1>1 DEF OnlyMoves, Came
<1>2. CASE UNCHANGED <<pc, job>>
  BY <1>2 DEF Came
<1>3. CASE UNCHANGED vars
  BY <1>2, <1>3 DEF vars
<1>4. CASE \E s \in Servers, p \in Players, x \in Teams \cup {0} : ChangeTeam(s, p, x)
  BY <1>2, <1>4 DEF ChangeTeam
<1>5. CASE \E s \in Servers, kind \in {"wound", "die"}, p \in Players, a \in Ids : Log(s, kind, p, a)
  BY <1>2, <1>5 DEF Log
<1>6. CASE \E t \in Threads, s \in Servers, k \in 1..MaxEvents : Post(t, s, k)
  <2>1. PICK t \in Threads, s \in Servers, k \in 1..MaxEvents : Post(t, s, k)
    BY <1>6
  <2>2. OnlyMoves(t) /\ pc'[t] = "line"
    BY <2>1, PostTypes
  <2> QED
    BY <1>1, <2>1, <2>2 DEF Came
<1>7. CASE \E t \in Threads, s \in Servers, k \in Ids, v \in Players : PostKill(t, s, k, v)
  <2>1. PICK t \in Threads, s \in Servers, k \in Ids, v \in Players : PostKill(t, s, k, v)
    BY <1>7
  <2>2. OnlyMoves(t) /\ pc'[t] = "team"
    BY <2>1, PostKillTypes
  <2> QED
    BY <1>1, <2>1, <2>2 DEF Came
<1>8. CASE \E t \in Threads, s \in Servers : PostList(t, s)
  <2>1. PICK t \in Threads, s \in Servers : PostList(t, s)
    BY <1>8
  <2>2. OnlyMoves(t) /\ pc'[t] = "cache"
    BY <2>1, PostListTypes
  <2> QED
    BY <1>1, <2>1, <2>2 DEF Came
<1>9. CASE \E t \in Threads : UpdateCache(t)
  BY <1>1, <1>9, UpdateCacheTypes DEF Came
<1>10. CASE \E t \in Threads : UpdateTeams(t)
  BY <1>1, <1>10, UpdateTeamsTypes DEF Came
<1>11. CASE \E t \in Threads : StoreWound(t)
  BY <1>1, <1>11, StoreWoundTypes DEF Came, Ends
<1>12. CASE \E t \in Threads : ParseDie(t)
  <2>1. PICK t \in Threads : ParseDie(t)
    BY <1>12
  <2>2. OnlyMoves(t) /\ pc'[t] \in {"suicide", "victim"}
    BY <2>1, ParseDieTypes DEF Goes
  <2> QED
    BY <1>1, <2>1, <2>2 DEF Came
<1>13. CASE \E t \in Threads : Suicide(t)
  <2>1. PICK t \in Threads : Suicide(t)
    BY <1>13
  <2>2. OnlyMoves(t) /\ pc[t] \in BatchSteps /\ (Ends(t) \/ pc'[t] = "score")
    BY <2>1, SuicideTypes DEF Goes
  <2> QED
    BY <1>1, <2>1, <2>2 DEF Came, Ends
<1>14. CASE \E t \in Threads : ResolveVictim(t)
  BY <1>1, <1>14, ResolveVictimTypes DEF Came, Goes
<1>15. CASE \E t \in Threads : CheckTeam(t)
  BY <1>1, <1>15, CheckTeamTypes DEF Came, Goes
<1>16. CASE \E t \in Threads : RecordKill(t)
  BY <1>1, <1>16, RecordKillTypes DEF Came, Goes
<1>17. CASE \E t \in Threads : Score(t)
  BY <1>1, <1>17, ScoreTypes DEF Came, Ends
<1>18. CASE Tick
  BY <1>2, <1>18 DEF Tick
<1>19. CASE Crash
  BY <1>19, CrashTypes DEF Came
<1> QED
  BY NextCases, <1>3, <1>4, <1>5, <1>6, <1>7, <1>8, <1>9, <1>10, <1>11, <1>12, <1>13, <1>14,
     <1>15, <1>16, <1>17, <1>18, <1>19

\* Rows are only added, a step at a time, and the mates only grow.
LEMMA RowsGrow ==
  ASSUME TypeOK, [Next]_vars
  PROVE  /\ kills \subseteq kills' /\ mates \subseteq mates' /\ wounded \subseteq wounded'
         /\ scores' = scores \/ \E t \in Threads : Score(t)
<1>1. CASE \E t \in Threads : RecordKill(t)
  BY <1>1 DEF RecordKill, game, history
<1>2. CASE \E t \in Threads : StoreWound(t)
  BY <1>2 DEF StoreWound, game, stored
<1>3. CASE \E s \in Servers, p \in Players, x \in Teams \cup {0} : ChangeTeam(s, p, x)
  BY <1>3 DEF ChangeTeam, stored, history
<1>4. CASE \E t \in Threads : Score(t)
  BY <1>4 DEF Score, game, history
<1> QED
  BY NextCases, <1>1, <1>2, <1>3, <1>4
  DEF vars, Log, Post, PostKill, PostList, UpdateCache, UpdateTeams, ParseDie, Suicide,
      ResolveVictim, CheckTeam, Tick, Crash, game, stored, history

--------------------------------------------------------------------------------
(* The row before the points.                                               *)

ScoredInv == TypeOK /\ KillFirst /\ ScoredIsRecorded

LEMMA RecordedFirst ==
  ASSUME TypeOK, KillFirst, [Next]_vars
  PROVE  KillFirst'
<1> SUFFICES ASSUME NEW u \in Threads, pc'[u] = "score", job'[u].event.score \in {"kill", "tk"}
             PROVE  [server |-> job'[u].server, line |-> Line(u)'.n,
                     killer |-> job'[u].event.killer, victim |-> job'[u].event.victim] \in kills'
  BY DEF KillFirst
<1>1. kills \subseteq kills'
  BY RowsGrow
<1>2. CASE pc'[u] = pc[u] /\ job'[u] = job[u]
  BY <1>1, <1>2 DEF KillFirst, Line
<1>3. CASE RecordKill(u)
  BY <1>3, RecordKillTypes DEF RecordKill, Goes
<1>4. CASE Suicide(u)
  BY <1>4, SuicideTypes DEF Goes, Ends
<1> QED
  BY Arrives, <1>2, <1>3, <1>4 DEF Came

LEMMA ScoredStep ==
  ASSUME ScoredInv, [Next]_vars
  PROVE  ScoredInv'
<1>1. TypeOK' /\ KillFirst' /\ kills \subseteq kills'
  BY TypeInvariance, RecordedFirst, RowsGrow DEF ScoredInv
<1>2. CASE scores' = scores
  BY <1>1, <1>2 DEF ScoredInv, ScoredIsRecorded
<1>3. CASE \E t \in Threads : Score(t)
  <2>1. PICK t \in Threads : Score(t)
    BY <1>3
  <2>2. pc[t] = "score" /\ scores' \subseteq scores \cup {Scoring(t)}
    BY <2>1, ScoreTypes DEF ScoredInv
  <2>3. Scoring(t).kind \in {"kill", "tk"} =>
            \E k \in kills : k.line = Scoring(t).line.n /\ k.killer = Scoring(t).player
    BY <2>2 DEF ScoredInv, KillFirst, Scoring
  <2> QED
    BY <1>1, <2>2, <2>3 DEF ScoredInv, ScoredIsRecorded
<1> QED
  BY <1>1, <1>2, <1>3, RowsGrow DEF ScoredInv

\* Points for a kill are given only when its row is in the kills table, wherever the
\* panel dies: the INSERT of handlePostEventsRaw comes before scoreKill.
THEOREM RowBeforePoints == Spec => []ScoredIsRecorded
<1>1. Init => ScoredInv
  BY InitTypes DEF Init, ScoredInv, KillFirst, ScoredIsRecorded
<1>2. ScoredInv /\ [Next]_vars => ScoredInv'
  BY ScoredStep
<1>3. ScoredInv => ScoredIsRecorded
  BY DEF ScoredInv
<1> QED
  BY <1>1, <1>2, <1>3, PTL DEF Spec

--------------------------------------------------------------------------------
(* A team kill is one of mates.                                             *)

LEMMA RostersStep ==
  ASSUME TypeOK, RostersWere, [Next]_vars
  PROVE  RostersWere'
<1>1. TypeOK' /\ mates \subseteq mates'
  BY TypeInvariance, RowsGrow
<1>2. \A s \in Servers, roster \in Rosters : MatesOf(s, roster) =>
        \A p, q \in Players : p # q /\ roster[p] # 0 /\ roster[p] = roster[q] => WereMates(s, p, q)'
  BY <1>1 DEF MatesOf, WereMates
<1>3. \A s \in Servers : MatesOf(s, team[s])'
  <2>1. \A s \in Servers : team[s] \in Rosters
    BY DEF TypeOK, StoreTyped
  <2>2. CASE team' = team
    BY <1>2, <2>1, <2>2 DEF RostersWere, MatesOf
  <2>3. ASSUME NEW s \in Servers, NEW p \in Players, NEW x \in Teams \cup {0}, ChangeTeam(s, p, x)
        PROVE  \A u \in Servers : MatesOf(u, team[u])'
    <3>1. /\ team' = [team EXCEPT ![s] = [team[s] EXCEPT ![p] = x]]
          /\ mates' = mates \cup Mates(s, p)'
          /\ team \in [Servers -> Rosters]
      BY <2>3 DEF ChangeTeam, TypeOK, StoreTyped
    <3>2. \A u \in Servers \ {s} : team'[u] = team[u]
      BY <3>1
    <3>3. \A q \in Players \ {p} : team'[s][q] = team[s][q]
      BY <3>1 DEF Rosters
    <3>4. \A q \in Players \ {p} : team'[s][p] # 0 /\ team'[s][q] = team'[s][p] =>
            WereMates(s, p, q)' /\ WereMates(s, q, p)'
      <4>1. Mates(s, p)' = {[server |-> s, pair |-> {p, q}] :
                q \in {r \in Players \ {p} : team'[s][p] # 0 /\ team'[s][r] = team'[s][p]}}
        BY DEF Mates
      <4>2. \A q \in Players : {p, q} = {q, p}
        OBVIOUS
      <4> QED
        BY <3>1, <4>1, <4>2 DEF WereMates
    <3>5. MatesOf(s, team[s])'
      <4> SUFFICES ASSUME NEW q \in Players, NEW r \in Players, q # r,
                          team'[s][q] # 0, team'[s][q] = team'[s][r]
                   PROVE  WereMates(s, q, r)'
        BY DEF MatesOf
      <4>1. CASE q = p \/ r = p
        BY <3>4, <4>1
      <4>2. CASE q # p /\ r # p
        <5>1. team[s][q] # 0 /\ team[s][q] = team[s][r] /\ MatesOf(s, team[s])
          BY <3>3, <4>2 DEF RostersWere
        <5> QED
          BY <1>2, <2>1, <5>1
      <4> QED
        BY <4>1, <4>2
    <3> QED
      BY <1>2, <2>1, <3>2, <3>5 DEF RostersWere, MatesOf
  <2> QED
    BY NextCases, <2>2, <2>3
    DEF vars, game, Log, Post, PostKill, PostList, UpdateCache, UpdateTeams, StoreWound, ParseDie,
        Suicide, ResolveVictim, CheckTeam, RecordKill, Score, Tick, Crash
<1>4. \A s \in Servers : MatesOf(s, teamMap[s])'
  <2>1. \A s \in Servers : teamMap[s] \in Rosters
    BY DEF TypeOK, StoreTyped
  <2>2. CASE teamMap' = teamMap
    BY <1>2, <2>1, <2>2 DEF RostersWere, MatesOf
  <2>3. CASE \E t \in Threads : UpdateTeams(t)
    <3>1. PICK t \in Threads : UpdateTeams(t)
      BY <2>3
    <3>2. job[t] \in Lists /\ job[t].server \in Servers /\ job[t].list \in Rosters
      BY <3>1, UpdateTeamsTypes DEF Lists
    <3>3. teamMap' = [teamMap EXCEPT ![job[t].server] = job[t].list]
          /\ teamMap \in [Servers -> Rosters]
      BY <3>1 DEF UpdateTeams, TypeOK, StoreTyped
    <3>4. MatesOf(job[t].server, job[t].list)
      BY <3>2 DEF RostersWere
    <3>5. ASSUME NEW s \in Servers PROVE MatesOf(s, teamMap[s])'
      <4>1. CASE s = job[t].server
        <5>1. teamMap'[s] = job[t].list
          BY <3>2, <3>3, <4>1
        <5> QED
          BY <1>2, <3>2, <3>4, <4>1, <5>1 DEF MatesOf
      <4>2. CASE s # job[t].server
        <5>1. teamMap'[s] = teamMap[s] /\ MatesOf(s, teamMap[s])
          BY <3>2, <3>3, <4>2 DEF RostersWere
        <5> QED
          BY <1>2, <2>1, <5>1 DEF MatesOf
      <4> QED
        BY <4>1, <4>2
    <3> QED
      BY <3>5
  <2>4. CASE Crash
    BY <2>4 DEF Crash, MatesOf
  <2> QED
    BY NextCases, <2>2, <2>3, <2>4
    DEF vars, tables, ChangeTeam, Log, Post, PostKill, PostList, UpdateCache, StoreWound, ParseDie,
        Suicide, ResolveVictim, CheckTeam, RecordKill, Score, Tick
<1>5. ASSUME NEW u \in Threads, job'[u] \in Lists PROVE MatesOf(job[u].server, job[u].list)'
  <2>1. CASE job'[u] = job[u]
    <3>1. job[u].server \in Servers /\ job[u].list \in Rosters
          /\ MatesOf(job[u].server, job[u].list)
      BY <1>5, <2>1 DEF RostersWere, Lists
    <3> QED
      BY <1>2, <2>1, <3>1 DEF MatesOf
  <2>2. CASE \E s \in Servers : PostList(u, s)
    <3>1. PICK s \in Servers : PostList(u, s)
      BY <2>2
    <3>2. job'[u].server = s /\ job'[u].list = team[s] /\ team[s] \in Rosters
      BY <3>1, PostListTypes DEF TypeOK, StoreTyped
    <3>3. MatesOf(s, team[s])
      BY DEF RostersWere
    <3> QED
      BY <1>2, <3>2, <3>3 DEF MatesOf
  <2>3. CASE UpdateCache(u)
    BY <2>1, <2>3 DEF UpdateCache
  <2>4. pc'[u] \in ListSteps
    <3>1. JobTyped(u)'
      BY <1>1 DEF TypeOK, JobsTyped
    <3>2. job'[u] # NoJob /\ job'[u] \notin Batches
      BY <1>5 DEF NoJob, Lists, Batches
    <3> QED
      BY <3>1, <3>2 DEF JobTyped
  <2> QED
    BY Arrives, <2>1, <2>2, <2>3, <2>4 DEF Came, ListSteps
<1> QED
  BY <1>3, <1>4, <1>5 DEF RostersWere

MateInv == TypeOK /\ RostersWere /\ VictimMeant /\ TkPending /\ TkWasMate

LEMMA MeantStep ==
  ASSUME TypeOK, VictimMeant, [Next]_vars
  PROVE  VictimMeant'
<1>1. ASSUME NEW u \in Threads, pc'[u] = "victim" PROVE Line(u)'.kind = "die"
  <2>1. CASE pc'[u] = pc[u] /\ job'[u] = job[u]
    BY <1>1, <2>1 DEF VictimMeant, Line
  <2>2. CASE ParseDie(u)
    BY <2>2, ParseDieTypes DEF Goes
  <2>3. CASE Suicide(u)
    BY <1>1, <2>3, SuicideTypes DEF Goes, Ends
  <2> QED
    BY <1>1, <2>1, <2>2, <2>3, Arrives DEF Came
<1>2. ASSUME NEW u \in Threads, pc'[u] = "team"
      PROVE  job'[u].event.victim \in Meant(Line(u)') \cup {Nobody}
  <2>1. CASE pc'[u] = pc[u] /\ job'[u] = job[u]
    BY <1>2, <2>1 DEF VictimMeant, Line
  <2>2. CASE ResolveVictim(u)
    <3>1. /\ pc[u] = "victim" /\ Line(u)' = Line(u) /\ job[u].server \in Servers
          /\ job'[u].event.victim \in Resolve(job[u].server, Line(u).victim)
      BY <2>2, ResolveVictimTypes DEF Goes
    <3>2. Line(u).kind = "die" /\ liveCache[job[u].server] \subseteq Players
      BY <3>1 DEF VictimMeant, TypeOK, StoreTyped
    <3>3. job'[u].event.victim \in Meant(Line(u)) \cup {Nobody}
      BY <3>1, <3>2 DEF Resolve, Meant
    <3> QED
      BY <3>1, <3>3
  <2>3. ASSUME NEW s \in Servers, NEW k \in Ids, NEW v \in Players, PostKill(u, s, k, v)
        PROVE  job'[u].event.victim \in Meant(Line(u)')
    BY <2>3, PostKillTypes DEF Meant
  <2> QED
    BY <1>2, <2>1, <2>2, <2>3, Arrives DEF Came
<1> QED
  BY <1>1, <1>2 DEF VictimMeant, Meant

LEMMA PendingStep ==
  ASSUME TypeOK, RostersWere, VictimMeant, TkPending, [Next]_vars
  PROVE  TkPending'
<1> SUFFICES ASSUME NEW u \in Threads, pc'[u] \in {"kill", "score"}, job'[u].event.score = "tk"
             PROVE  \E m \in Meant(Line(u)') : WereMates(job[u].server, job[u].event.killer, m)'
  BY DEF TkPending, Meant
<1>1. mates \subseteq mates'
  BY RowsGrow
<1>2. CASE pc'[u] = pc[u] /\ job'[u] = job[u]
  BY <1>1, <1>2 DEF TkPending, WereMates, Line
<1>3. CASE CheckTeam(u)
  <2>1. /\ job'[u].event.killer = job[u].event.killer
        /\ job[u].event.killer # job[u].event.victim /\ job'[u].server = job[u].server
        /\ IsTeamKill(job[u].server, job[u].event.killer, job[u].event.victim)
        /\ pc[u] = "team" /\ pc[u] \in BatchSteps /\ Line(u)' = Line(u)
    BY <1>3, CheckTeamTypes DEF Goes
  <2>2. job[u].server \in Servers
    BY <2>1, LineFacts DEF TypeOK
  <2>3. MatesOf(job[u].server, teamMap[job[u].server])
    BY <2>2 DEF RostersWere
  <2>4. WereMates(job[u].server, job[u].event.killer, job[u].event.victim)
    BY <2>1, <2>3 DEF MatesOf, IsTeamKill
  <2>5. job[u].event.victim \in Meant(Line(u))
    BY <2>1, FeedAssumption DEF VictimMeant, IsTeamKill
  <2> QED
    BY <1>1, <2>1, <2>4, <2>5 DEF WereMates
<1>4. CASE RecordKill(u)
  <2>1. /\ pc[u] = "kill" /\ job'[u].event = job[u].event /\ job'[u].server = job[u].server
        /\ Line(u)' = Line(u)
    BY <1>4, RecordKillTypes DEF Goes
  <2> QED
    BY <1>1, <2>1 DEF TkPending, WereMates
<1>5. CASE Suicide(u)
  BY <1>5, SuicideTypes DEF Goes, Ends
<1> QED
  <2>1. Came(u)
    BY Arrives
  <2> QED
    BY <1>2, <1>3, <1>4, <1>5, <2>1 DEF Came

LEMMA MateStep ==
  ASSUME MateInv, [Next]_vars
  PROVE  MateInv'
<1>1. TypeOK' /\ RostersWere' /\ VictimMeant' /\ TkPending'
  BY TypeInvariance, RostersStep, MeantStep, PendingStep DEF MateInv
<1>2. mates \subseteq mates'
  BY RowsGrow DEF MateInv
<1>3. CASE scores' = scores
  <2>1. ASSUME NEW x \in scores', x.kind = "tk"
        PROVE  \E m \in Meant(x.line) : [server |-> x.server, pair |-> {x.player, m}] \in mates'
    BY <1>2, <1>3, <2>1 DEF MateInv, TkWasMate
  <2> QED
    BY <1>1, <2>1 DEF MateInv, TkWasMate
<1>4. CASE \E t \in Threads : Score(t)
  <2>1. PICK t \in Threads : Score(t)
    BY <1>4
  <2>2. pc[t] = "score" /\ scores' \subseteq scores \cup {Scoring(t)}
    BY <2>1, ScoreTypes DEF MateInv
  <2>3. ASSUME Scoring(t).kind = "tk"
        PROVE  \E m \in Meant(Scoring(t).line) :
                   [server |-> Scoring(t).server, pair |-> {Scoring(t).player, m}] \in mates
    <3>1. job[t].event.score = "tk"
      BY <2>3 DEF Scoring
    <3>2. PICK m \in Meant(Line(t)) : WereMates(job[t].server, job[t].event.killer, m)
      BY <2>2, <3>1 DEF MateInv, TkPending
    <3>3. /\ Scoring(t).line = Line(t) /\ Scoring(t).server = job[t].server
          /\ Scoring(t).player = job[t].event.killer
      BY <3>1 DEF Scoring
    <3> QED
      BY <3>2, <3>3 DEF WereMates
  <2>4. \A x \in scores' : x.kind = "tk" =>
            \E m \in Meant(x.line) : [server |-> x.server, pair |-> {x.player, m}] \in mates
    BY <2>2, <2>3 DEF MateInv, TkWasMate
  <2> QED
    BY <1>1, <1>2, <2>4 DEF MateInv, TkWasMate
<1> QED
  BY <1>1, <1>3, <1>4, RowsGrow DEF MateInv

\* A player is fined for a team kill only if the one who died, or one whose name is
\* taken for his, has been in his team, whatever lists come between the look at the
\* map and the fine: updateTeamMap replaces the whole list of a server, and isTeamKill
\* reads both players from it under one lock.  With no two names alike, that is the
\* player who died.
THEOREM FinedForMates == Spec => []TkWasMate
<1>1. Init => MateInv
  <2> SUFFICES ASSUME Init PROVE MateInv
    OBVIOUS
  <2>1. \A s \in Servers : MatesOf(s, team[s])
    <3> SUFFICES ASSUME NEW s \in Servers, NEW p \in Players, NEW q \in Players, p # q,
                        team[s][p] # 0, team[s][p] = team[s][q]
                 PROVE  [server |-> s, pair |-> {p, q}] \in mates
      BY DEF MatesOf, WereMates
    <3>1. [server |-> s, pair |-> {p, q}] \in Mates(s, p)
      BY DEF Mates
    <3> QED
      BY <3>1 DEF Init
  <2>2. \A s \in Servers : MatesOf(s, teamMap[s])
    BY DEF Init, MatesOf
  <2>3. \A t \in Threads : job[t] \notin Lists
    BY DEF Init, NoJob, Lists
  <2>4. VictimMeant /\ TkPending /\ TkWasMate
    BY DEF Init, VictimMeant, TkPending, TkWasMate
  <2> QED
    BY InitTypes, <2>1, <2>2, <2>3, <2>4 DEF MateInv, RostersWere
<1>2. MateInv /\ [Next]_vars => MateInv'
  BY MateStep
<1>3. MateInv => TkWasMate
  BY DEF MateInv
<1> QED
  BY <1>1, <1>2, <1>3, PTL DEF Spec

--------------------------------------------------------------------------------
(* Suicides are apart.                                                      *)

LEMMA NoOtherStep ==
  ASSUME TypeOK, NoOtherSuicide, [Next]_vars
  PROVE  NoOtherSuicide'
<1> SUFFICES ASSUME NEW u \in Threads, pc'[u] \in {"victim", "team", "kill"},
                    Line(u)'.attacker = Nobody
             PROVE  job'[u].event.killer = Nobody /\ job'[u].event.score = "none"
  BY DEF NoOtherSuicide
<1>1. CASE pc'[u] = pc[u] /\ job'[u] = job[u]
  <2>1. Line(u)' = Line(u)
    BY <1>1 DEF Line
  <2> QED
    BY <1>1, <2>1 DEF NoOtherSuicide
<1>2. CASE ParseDie(u)
  <2>1. pc'[u] = IF Line(u).attacker = Nobody THEN "suicide" ELSE "victim"
    BY <1>2, ParseDieTypes DEF Goes
  <2>2. Line(u)' = Line(u)
    BY <1>2, ParseDieTypes DEF Goes
  <2> QED
    BY <2>1, <2>2
<1>3. CASE ResolveVictim(u)
  <2>1. /\ pc[u] = "victim" /\ Line(u)' = Line(u)
        /\ job'[u].event.killer = job[u].event.killer /\ job'[u].event.score = job[u].event.score
    BY <1>3, ResolveVictimTypes DEF Goes
  <2> QED
    BY <2>1 DEF NoOtherSuicide
<1>4. CASE \E s \in Servers, k \in Ids, v \in Players : PostKill(u, s, k, v)
  BY <1>4, PostKillTypes
<1>5. CASE CheckTeam(u)
  <2>1. /\ pc[u] = "team" /\ Line(u)' = Line(u) /\ job'[u].event.killer = job[u].event.killer
        /\ job[u].event.killer = Nobody => job'[u].event.score = "none"
    BY <1>5, CheckTeamTypes DEF Goes
  <2> QED
    BY <2>1 DEF NoOtherSuicide
<1> QED
  <2>1. Came(u)
    BY Arrives
  <2> QED
    BY <1>1, <1>2, <1>3, <1>4, <1>5, <2>1 DEF Came

\* A suicide about to be charged passed the cooldown in this step, or was so before.
LEMMA ChargingCame ==
  ASSUME TypeOK, NoOtherSuicide, [Next]_vars, NEW u \in Threads, Charging(u)'
  PROVE  /\ job'[u].server = job[u].server /\ job'[u].start = job[u].start
         /\ job'[u].server \in Servers
         /\ \/ Charging(u) /\ pc'[u] = pc[u] /\ job'[u] = job[u]
            \/ Suicide(u) /\ Goes(u, "score")
<1>1. pc'[u] = "score" /\ job'[u].event.score = "suicide" /\ Line(u)'.attacker = Nobody
  BY DEF Charging
<1>2. CASE pc'[u] = pc[u] /\ job'[u] = job[u]
  <2>1. Line(u)' = Line(u)
    BY <1>2 DEF Line
  <2>2. pc[u] \in BatchSteps
    BY <1>1, <1>2 DEF BatchSteps
  <2>3. job[u].server \in Servers
    BY <2>2, LineFacts DEF TypeOK
  <2> QED
    BY <1>1, <1>2, <2>1, <2>3 DEF Charging
<1>3. CASE Suicide(u)
  <2>1. Goes(u, "score") /\ job[u].server \in Servers
    BY <1>1, <1>3, SuicideTypes DEF Ends
  <2> QED
    BY <1>3, <2>1 DEF Goes
<1>4. CASE RecordKill(u)
  <2>1. pc[u] = "kill" /\ Line(u)' = Line(u) /\ job'[u].event = job[u].event
    BY <1>4, RecordKillTypes DEF Goes
  <2> QED
    BY <1>1, <2>1 DEF NoOtherSuicide
<1> QED
  <2>1. Came(u)
    BY Arrives
  <2> QED
    BY <1>1, <1>2, <1>3, <1>4, <2>1 DEF Came

\* What else bears on the charges.
LEMMA ChargeSteps ==
  ASSUME TypeOK, [Next]_vars
  PROVE  \/ Crash
         \/ \E t \in Threads : Suicide(t) /\ scores' = scores /\ crashes' = crashes
         \/ \E t \in Threads : Score(t) /\ UNCHANGED <<lastSuicide, crashes>>
         \/ UNCHANGED <<lastSuicide, crashes, scores>>
BY NextCases
DEF vars, tables, stored, ChangeTeam, Log, Post, PostKill, PostList, UpdateCache, UpdateTeams,
    StoreWound, ParseDie, Suicide, ResolveVictim, CheckTeam, RecordKill, Score, Tick

LEMMA ChargesStep ==
  ASSUME TypeOK, NoOtherSuicide, ChargesApart, [Next]_vars
  PROVE  ChargesApart'
<1>1. TypeOK'
  BY TypeInvariance
<1>2. Cooldown \in Nat /\ lastSuicide \in [Servers -> Int]
  BY FeedAssumption DEF TypeOK, StoreTyped
<1>3. \A x \in scores : x.start \in Int /\ x.server \in Servers /\ x.run \in Int /\ x.run <= crashes
  BY FeedAssumption DEF TypeOK, StoreTyped
<1>4. ASSUME NEW u \in Threads, Charging(u)
      PROVE  job[u].start \in Int /\ job[u].server \in Servers
  <2>1. pc[u] \in BatchSteps
    BY <1>4 DEF Charging, BatchSteps
  <2> QED
    BY <2>1, LineFacts, FeedAssumption DEF TypeOK
<1>5. CASE Crash
  <2>1. \A t \in Threads : pc'[t] = "idle"
    BY <1>5, CrashTypes
  <2>2. \A t \in Threads : ~Charging(t)'
    BY <2>1 DEF Charging
  <2>3. scores' = scores /\ crashes' = crashes + 1 /\ crashes \in Int
    BY <1>5, FeedAssumption DEF Crash, stored, TypeOK, StoreTyped
  <2>4. \A x \in scores' : ~Charged(x)'
    BY <1>3, <2>3 DEF Charged
  <2> QED
    BY <2>2, <2>4 DEF ChargesApart
<1>6. ASSUME UNCHANGED <<lastSuicide, crashes>>,
             \A u \in Threads : Charging(u)' => Charging(u) /\ job'[u] = job[u],
             \A x \in scores' : \/ x \in scores
                                \/ \E t \in Threads : /\ Charged(x) => Charging(t)
                                                      /\ ~Charging(t)'
                                                      /\ x.start = job[t].start
                                                      /\ x.server = job[t].server
      PROVE  ChargesApart'
  <2>1. \A x \in scores' : Charged(x)' => Charged(x)
    BY <1>6 DEF Charged
  <2>2. \A x \in scores' : Charged(x)' => x.start <= lastSuicide'[x.server]
    BY <1>6, <2>1 DEF ChargesApart
  <2>3. \A t \in Threads : Charging(t)' => job'[t].start <= lastSuicide'[job'[t].server]
    BY <1>6 DEF ChargesApart
  <2>4. ASSUME NEW x \in scores', NEW t \in Threads, Charged(x)', Charging(t)',
               x.server = job'[t].server
        PROVE  Apart(x.start, job'[t].start)
    <3>1. Charging(t) /\ job'[t] = job[t] /\ Charged(x)
      BY <1>6, <2>1, <2>4
    <3>2. CASE x \in scores
      BY <2>4, <3>1, <3>2 DEF ChargesApart
    <3>3. CASE x \notin scores
      <4>1. PICK w \in Threads : /\ Charging(w) /\ ~Charging(w)'
                                 /\ x.start = job[w].start /\ x.server = job[w].server
        BY <1>6, <3>1, <3>3
      <4>2. w # t
        BY <2>4, <4>1
      <4> QED
        BY <2>4, <3>1, <4>1, <4>2 DEF ChargesApart
    <3> QED
      BY <3>2, <3>3
  <2>5. ASSUME NEW t \in Threads, NEW u \in Threads, Charging(t)', Charging(u)', t # u,
               job'[t].server = job'[u].server
        PROVE  Apart(job'[t].start, job'[u].start)
    BY <1>6, <2>5 DEF ChargesApart
  <2> QED
    BY <2>2, <2>3, <2>4, <2>5 DEF ChargesApart, Apart
<1>7. CASE UNCHANGED <<lastSuicide, crashes, scores>> /\ ~\E t \in Threads : Suicide(t)
  <2>1. \A u \in Threads : Charging(u)' => Charging(u) /\ job'[u] = job[u]
    BY <1>7, ChargingCame
  <2> QED
    BY <1>6, <1>7, <2>1
<1>8. ASSUME NEW t \in Threads, Score(t), UNCHANGED <<lastSuicide, crashes>>
      PROVE  ChargesApart'
  <2>1. /\ scores' \subseteq scores \cup {Scoring(t)} /\ pc[t] = "score"
        /\ OnlyMoves(t) /\ pc'[t] \in {"idle", "line"}
    BY <1>8, ScoreTypes DEF Ends
  <2>2. \A u \in Threads : ~(Suicide(u) /\ Goes(u, "score"))
    BY <2>1 DEF Suicide, Goes, OnlyMoves
  <2>3. \A u \in Threads : Charging(u)' => Charging(u) /\ job'[u] = job[u]
    BY <2>2, ChargingCame
  <2>4. Charged(Scoring(t)) => Charging(t)
    BY <2>1 DEF Charged, Charging, Scoring
  <2>5. ~Charging(t)' /\ Scoring(t).start = job[t].start /\ Scoring(t).server = job[t].server
    BY <2>1 DEF Charging, Scoring
  <2>6. \A x \in scores' : \/ x \in scores
                           \/ \E w \in Threads : /\ Charged(x) => Charging(w)
                                                 /\ ~Charging(w)'
                                                 /\ x.start = job[w].start
                                                 /\ x.server = job[w].server
    BY <2>1, <2>4, <2>5
  <2> QED
    <3>1. UNCHANGED <<lastSuicide, crashes>>
      BY <1>8
    <3>2. \A x \in scores' : \/ x \in scores
                               \/ \E u \in Threads : /\ Charged(x) => Charging(u)
                                                     /\ ~Charging(u)'
                                                     /\ x.start = job[u].start
                                                     /\ x.server = job[u].server
      BY <2>6, Zenon
    <3> QED
      BY <1>6, <2>3, <3>1, <3>2, Zenon
<1>9. ASSUME NEW t \in Threads, Suicide(t), scores' = scores, crashes' = crashes
      PROVE  ChargesApart'
  <2>1. /\ OnlyMoves(t) /\ job[t].server \in Servers /\ job[t].start \in Int
        /\ pc[t] = "suicide"
        /\ \/ Ends(t) /\ lastSuicide' = lastSuicide
           \/ /\ Goes(t, "score")
              /\ lastSuicide' = [lastSuicide EXCEPT ![job[t].server] = job[t].start]
              /\ job[t].start - lastSuicide[job[t].server] >= Cooldown
    <3>1. job[t].start \in 0..now
      BY <1>9, SuicideTypes
    <3>2. job[t].start \in Int
      BY <3>1
    <3> QED
      BY <1>9, <3>2, SuicideTypes
  <2>2. \A u \in Threads \ {t} : Charging(u)' => Charging(u) /\ job'[u] = job[u]
    <3>1. \A u \in Threads \ {t} : ~(Suicide(u) /\ Goes(u, "score"))
      BY <2>1 DEF Suicide, Goes, OnlyMoves
    <3> QED
      BY <3>1, ChargingCame
  <2>3. CASE Ends(t) /\ lastSuicide' = lastSuicide
    <3>1. ~Charging(t)'
      BY <2>3 DEF Ends, Charging
    <3> QED
      BY <1>6, <1>9, <2>2, <2>3, <3>1
  <2>4. CASE /\ Goes(t, "score")
             /\ lastSuicide' = [lastSuicide EXCEPT ![job[t].server] = job[t].start]
             /\ job[t].start - lastSuicide[job[t].server] >= Cooldown
    <3> DEFINE s == job[t].server
               a == job[t].start
    <3>1. /\ job'[t].start = a /\ job'[t].server = s /\ s \in Servers /\ a \in Int
          /\ a - lastSuicide[s] >= Cooldown /\ lastSuicide'[s] = a
          /\ \A r \in Servers \ {s} : lastSuicide'[r] = lastSuicide[r]
      BY <1>2, <2>1, <2>4 DEF Goes
    <3> HIDE DEF s, a
    <3>2. \A r \in Servers : lastSuicide[r] <= lastSuicide'[r]
      BY <1>2, <3>1
    <3>3. \A x \in scores : Charged(x)' => Charged(x)
      BY <1>9 DEF Charged
    <3>4. \A x \in scores : Charged(x)' => x.start <= lastSuicide'[x.server]
      <4> TAKE x \in scores
      <4>1. Charged(x)' => x.start <= lastSuicide[x.server]
        BY <3>3 DEF ChargesApart
      <4>2. x.start \in Int /\ lastSuicide[x.server] \in Int /\ lastSuicide'[x.server] \in Int
            /\ lastSuicide[x.server] <= lastSuicide'[x.server]
        BY <1>2, <1>3, <3>1, <3>2
      <4> QED
        BY <4>1, <4>2
    <3>5. \A u \in Threads : Charging(u)' => job'[u].start <= lastSuicide'[job'[u].server]
      <4> SUFFICES ASSUME NEW u \in Threads, Charging(u)'
                   PROVE  job'[u].start <= lastSuicide'[job'[u].server]
        OBVIOUS
      <4>1. CASE u = t
        BY <3>1, <4>1
      <4>2. CASE u # t
        <5>1. Charging(u) /\ job'[u] = job[u] /\ job[u].start <= lastSuicide[job[u].server]
          BY <2>2, <4>2 DEF ChargesApart
        <5>2. job[u].start \in Int /\ job[u].server \in Servers
          BY <1>4, <5>1
        <5>3. lastSuicide[job[u].server] \in Int /\ lastSuicide'[job[u].server] \in Int
              /\ lastSuicide[job[u].server] <= lastSuicide'[job[u].server]
          BY <1>2, <3>1, <3>2, <5>2
        <5> QED
          BY <5>1, <5>2, <5>3
      <4> QED
        BY <4>1, <4>2
    <3>6. ASSUME NEW b \in Int, b <= lastSuicide[s]
          PROVE  Apart(b, a) /\ Apart(a, b)
      BY <1>2, <3>1, <3>6 DEF Apart
    <3>7. \A x \in scores, u \in Threads : Charged(x)' /\ Charging(u)' /\ x.server = job'[u].server
            => Apart(x.start, job'[u].start)
      <4> SUFFICES ASSUME NEW x \in scores, NEW u \in Threads, Charged(x)', Charging(u)',
                          x.server = job'[u].server
                   PROVE  Apart(x.start, job'[u].start)
        OBVIOUS
      <4>1. CASE u = t
        <5>1. x.start \in Int /\ x.start <= lastSuicide[s] /\ job'[u].start = a
          BY <1>3, <3>1, <3>3, <4>1 DEF ChargesApart
        <5> QED
          BY <3>6, <5>1
      <4>2. CASE u # t
        BY <2>2, <3>3, <4>2 DEF ChargesApart
      <4> QED
        BY <4>1, <4>2
    <3>8. ASSUME NEW u \in Threads, u # t, Charging(u)', job'[u].server = s
          PROVE  Apart(job'[u].start, a) /\ Apart(a, job'[u].start)
      <4>1. Charging(u) /\ job'[u] = job[u] /\ job[u].start <= lastSuicide[s]
        BY <2>2, <3>8 DEF ChargesApart
      <4> QED
        BY <1>4, <3>6, <4>1
    <3>9. \A u, w \in Threads : Charging(u)' /\ Charging(w)' /\ u # w
                /\ job'[u].server = job'[w].server => Apart(job'[u].start, job'[w].start)
      <4> SUFFICES ASSUME NEW u \in Threads, NEW w \in Threads, Charging(u)', Charging(w)', u # w,
                          job'[u].server = job'[w].server
                   PROVE  Apart(job'[u].start, job'[w].start)
        OBVIOUS
      <4>1. CASE u = t \/ w = t
        BY <3>1, <3>8, <4>1
      <4>2. CASE u # t /\ w # t
        BY <2>2, <4>2 DEF ChargesApart
      <4> QED
        BY <4>1, <4>2
    <3> QED
      BY <1>9, <3>4, <3>5, <3>7, <3>9 DEF ChargesApart, Apart
  <2> QED
    BY <2>1, <2>3, <2>4
<1> QED
  BY ChargeSteps, <1>5, <1>7, <1>8, <1>9

SpacedInv == TypeOK /\ NoOtherSuicide /\ ChargesApart /\ SuicidesSpaced

LEMMA SpacedStep ==
  ASSUME SpacedInv, [Next]_vars
  PROVE  SpacedInv'
<1>1. TypeOK' /\ NoOtherSuicide' /\ ChargesApart'
  BY TypeInvariance, NoOtherStep, ChargesStep DEF SpacedInv
<1>2. CASE scores' = scores
  BY <1>1, <1>2 DEF SpacedInv, SuicidesSpaced
<1>3. CASE \E t \in Threads : Score(t)
  <2>1. PICK t \in Threads : Score(t)
    BY <1>3
  <2>2. pc[t] = "score" /\ scores' \subseteq scores \cup {Scoring(t)}
    BY <2>1, ScoreTypes DEF SpacedInv
  <2> DEFINE c == Scoring(t)
  <2>3. c.start = job[t].start /\ c.server = job[t].server /\ c.run = crashes
        /\ (c.kind = "suicide" /\ c.line.attacker = Nobody => Charging(t))
    BY <2>2 DEF Scoring, Charging
  <2>4. ASSUME NEW y \in scores, c.server = y.server, c.run = y.run,
               c.kind = "suicide", c.line.attacker = Nobody,
               y.kind = "suicide", y.line.attacker = Nobody
        PROVE  Apart(y.start, c.start)
    BY <2>3, <2>4 DEF SpacedInv, ChargesApart, Charged
  <2> HIDE DEF c
  <2>5. SuicidesSpaced'
    <3> SUFFICES ASSUME NEW x \in scores', NEW y \in scores',
                        x.server = y.server, x.run = y.run, x.line # y.line,
                        x.kind = "suicide", x.line.attacker = Nobody,
                        y.kind = "suicide", y.line.attacker = Nobody
                 PROVE  Apart(x.start, y.start)
      BY DEF SuicidesSpaced, Apart
    <3>1. CASE x \in scores /\ y \in scores
      BY <3>1 DEF SpacedInv, SuicidesSpaced, Apart
    <3>2. CASE x = c /\ y \in scores
      BY <2>4, <3>2 DEF Apart
    <3>3. CASE x \in scores /\ y = c
      BY <2>4, <3>3 DEF Apart
    <3>4. x \in scores \cup {c} /\ y \in scores \cup {c}
      BY <2>2 DEF c
    <3> QED
      BY <3>1, <3>2, <3>3, <3>4
  <2> QED
    BY <1>1, <2>5 DEF SpacedInv
<1> QED
  BY <1>2, <1>3, RowsGrow DEF SpacedInv

\* Two suicides without an attacker that are charged on one server, in one run of the
\* panel, came in batches at least the cooldown apart, in whatever order and by
\* however many threads they are handled: g_lastSuicideTime is read and written under
\* one lock, and never goes back.
THEOREM SuicidesAreApart == Spec => []SuicidesSpaced
<1>1. Init => SpacedInv
  BY InitTypes DEF Init, SpacedInv, NoOtherSuicide, ChargesApart, Charging, SuicidesSpaced
<1>2. SpacedInv /\ [Next]_vars => SpacedInv'
  BY SpacedStep
<1>3. SpacedInv => SuicidesSpaced
  BY DEF SpacedInv
<1> QED
  BY <1>1, <1>2, <1>3, PTL DEF Spec

--------------------------------------------------------------------------------
(* A wound decides one death, of its own victim and while it is fresh.      *)

LEMMA CreditStep ==
  ASSUME TypeOK, WoundsWere, CreditIsFresh, [Next]_vars
  PROVE  WoundsWere' /\ CreditIsFresh'
<1>1. wounded \subseteq wounded'
  BY RowsGrow
<1>2. \A v \in Players : woundStore[v] # NoWound =>
        woundStore[v] \in [attacker : Ids, time : 0..now, line : LineIds]
  BY DEF TypeOK, StoreTyped
<1>3. WoundsWere'
  <2>1. CASE woundStore' = woundStore
    BY <1>1, <2>1 DEF WoundsWere
  <2>2. ASSUME NEW t \in Threads, StoreWound(t) PROVE WoundsWere'
    <3> DEFINE w == [attacker |-> Line(t).attacker, time |-> now, line |-> Line(t).n]
               x == Line(t).victim
    <3>1. /\ woundStore' = [woundStore EXCEPT ![x] = w]
          /\ [victim |-> x, attacker |-> w.attacker, time |-> w.time] \in wounded'
      BY <2>2 DEF StoreWound
    <3>2. x \in Players
      BY <2>2, StoreWoundTypes, LineFacts DEF TypeOK
    <3> HIDE DEF w, x
    <3>3. woundStore'[x] = w /\ \A v \in Players \ {x} : woundStore'[v] = woundStore[v]
      BY <3>1, <3>2 DEF TypeOK, StoreTyped
    <3>4. ASSUME NEW v \in Players, woundStore'[v] # NoWound
          PROVE  [victim |-> v, attacker |-> woundStore'[v].attacker,
                  time |-> woundStore'[v].time] \in wounded'
      <4>1. CASE v = x
        BY <3>1, <3>3, <4>1
      <4>2. CASE v # x
        BY <1>1, <3>3, <3>4, <4>2 DEF WoundsWere
      <4> QED
        BY <4>1, <4>2
    <3> QED
      BY <3>4 DEF WoundsWere
  <2>3. ASSUME NEW t \in Threads, ParseDie(t) PROVE WoundsWere'
    <3>1. \A v \in Players : woundStore'[v] = NoWound \/ woundStore'[v] = woundStore[v]
      <4>1. woundStore' = woundStore \/ woundStore' = [woundStore EXCEPT ![Line(t).victim] = NoWound]
        BY <2>3 DEF ParseDie
      <4> QED
        BY <4>1 DEF TypeOK, StoreTyped
    <3> QED
      BY <1>1, <3>1 DEF WoundsWere
  <2>4. CASE Crash
    BY <2>4 DEF Crash, WoundsWere
  <2> QED
    BY NextCases, <2>1, <2>2, <2>3, <2>4
    DEF vars, tables, ChangeTeam, Log, Post, PostKill, PostList, UpdateCache, UpdateTeams,
        Suicide, ResolveVictim, CheckTeam, RecordKill, Score, Tick
<1>4. ASSUME NEW u \in Threads, pc'[u] \in {"victim", "suicide"}
      PROVE  \/ job'[u].event.killer = Line(u)'.attacker
             \/ \E w \in wounded' : /\ w.victim = Line(u)'.victim
                                    /\ w.attacker = job'[u].event.killer
                                    /\ w.time + Expiry >= job'[u].start
  <2>1. CASE pc'[u] = pc[u] /\ job'[u] = job[u]
    <3>1. Line(u)' = Line(u)
      BY <2>1 DEF Line
    <3> QED
      BY <1>1, <1>4, <2>1, <3>1 DEF CreditIsFresh
  <2>2. CASE ParseDie(u)
    <3> DEFINE v == Line(u).victim
               k == woundStore[v].attacker
    <3>1. /\ job'[u].event.killer = IF Hit(v) /\ k # Nobody THEN k ELSE Line(u).attacker
          /\ Line(u)' = Line(u) /\ job'[u].start = job[u].start /\ Line(u) \in Lines
          /\ pc[u] \in BatchSteps
      BY <2>2, ParseDieTypes DEF Goes, BatchSteps
    <3>2. v \in Players /\ job[u].start \in Int /\ job[u].start <= now /\ now \in Int
      BY <3>1, LineFacts, FeedAssumption DEF TypeOK, StoreTyped
    <3>3. CASE Hit(v) /\ k # Nobody
      <4> DEFINE w == [victim |-> v, attacker |-> k, time |-> woundStore[v].time]
      <4>1. w \in wounded
        BY <3>2, <3>3 DEF WoundsWere, Hit
      <4>2. woundStore[v].time + Expiry >= job[u].start
        <5>1. woundStore[v].time \in Int /\ Expiry \in Int /\ now - woundStore[v].time <= Expiry
          BY <1>2, <3>2, <3>3, FeedAssumption DEF Hit
        <5> QED
          BY <3>2, <5>1
      <4>3. w \in wounded' /\ w.victim = v /\ w.attacker = k /\ w.time + Expiry >= job[u].start
        BY <1>1, <4>1, <4>2
      <4> HIDE DEF w, v, k
      <4>4. v = Line(u)'.victim
        BY <3>1 DEF v
      <4> QED
        BY <3>1, <3>3, <4>3, <4>4
    <3>4. CASE ~(Hit(v) /\ k # Nobody)
      BY <3>1, <3>4
    <3> QED
      BY <3>3, <3>4
  <2>3. Came(u)
    BY Arrives
  <2> QED
    BY <1>4, <2>1, <2>2, <2>3 DEF Came
<1> QED
  BY <1>3, <1>4 DEF CreditIsFresh

\* The numbers of the parts of a sequence of lines that differ.
LEMMA PartNumbers ==
  ASSUME NEW q \in Seq(Lines), Distinct(q), NEW k \in 0..Len(q)
  PROVE  /\ Distinct(SubSeq(q, 1, k)) /\ Distinct(SubSeq(q, k + 1, Len(q)))
         /\ Numbers(SubSeq(q, 1, k)) \subseteq Numbers(q)
         /\ Numbers(SubSeq(q, k + 1, Len(q))) \subseteq Numbers(q)
         /\ Numbers(SubSeq(q, 1, k)) \cap Numbers(SubSeq(q, k + 1, Len(q))) = {}
<1> DEFINE a == SubSeq(q, 1, k)
           b == SubSeq(q, k + 1, Len(q))
<1>1. Len(q) \in Nat /\ k \in Nat /\ k <= Len(q)
  BY LenProperties
<1>2. \A i \in 1..Len(q) : q[i] \in Lines
  BY ElementOfSeq
<1>3. a \in Seq(Lines) /\ Len(a) = k /\ \A i \in 1..k : a[i] = q[i]
  <2>1. \A i \in 1..k : q[i] \in Lines
    BY <1>1, <1>2
  <2>2. /\ SubSeq(q, 1, k) \in Seq(Lines)
        /\ Len(SubSeq(q, 1, k)) = IF 1 <= k THEN k - 1 + 1 ELSE 0
        /\ \A i \in 1..(k - 1 + 1) : SubSeq(q, 1, k)[i] = q[1 + i - 1]
    BY <1>1, <2>1, SubSeqProperties
  <2> QED
    BY <1>1, <2>2
<1>4. Len(b) = Len(q) - k /\ \A i \in 1..Len(b) : b[i] = q[k + i]
  <2>1. \A i \in (k + 1)..Len(q) : q[i] \in Lines
    BY <1>1, <1>2
  <2>2. /\ Len(SubSeq(q, k + 1, Len(q))) = IF k + 1 <= Len(q) THEN Len(q) - (k + 1) + 1 ELSE 0
        /\ \A i \in 1..(Len(q) - (k + 1) + 1) : SubSeq(q, k + 1, Len(q))[i] = q[k + 1 + i - 1]
    BY <1>1, <2>1, SubSeqProperties
  <2>3. Len(b) = Len(q) - k
    BY <1>1, <2>2
  <2>4. ASSUME NEW i \in 1..Len(b) PROVE b[i] = q[k + i]
    <3>1. i \in 1..(Len(q) - (k + 1) + 1) /\ k + 1 + i - 1 = k + i
      BY <1>1, <2>3
    <3> QED
      BY <2>2, <3>1
  <2> QED
    BY <2>3, <2>4
<1> HIDE DEF a, b
<1>5. \A i \in 1..k : i \in 1..Len(q)
  BY <1>1
<1>6. \A i \in 1..Len(b) : k + i \in 1..Len(q)
  BY <1>1, <1>4
<1>7. Distinct(a) /\ Numbers(a) \subseteq Numbers(q)
  BY <1>3, <1>5 DEF Distinct, Numbers
<1>8. Numbers(b) \subseteq Numbers(q)
  BY <1>4, <1>6 DEF Numbers
<1>9. Distinct(b)
  <2> SUFFICES ASSUME NEW i \in 1..Len(b), NEW j \in 1..Len(b), b[i].n = b[j].n PROVE i = j
    BY DEF Distinct
  <2>1. k + i \in 1..Len(q) /\ k + j \in 1..Len(q) /\ q[k + i].n = q[k + j].n
    BY <1>4, <1>6
  <2>2. k + i = k + j
    BY <2>1 DEF Distinct
  <2> QED
    BY <1>1, <1>4, <2>2
<1>10. Numbers(a) \cap Numbers(b) = {}
  <2> SUFFICES ASSUME NEW i \in 1..k, NEW j \in 1..Len(b), q[i].n = q[k + j].n PROVE FALSE
    BY <1>3, <1>4 DEF Numbers
  <2>1. i = k + j
    BY <1>5, <1>6 DEF Distinct
  <2> QED
    BY <1>1, <1>4, <2>1
<1> QED
  BY <1>7, <1>8, <1>9, <1>10 DEF a, b

LEMMA TailNumbers ==
  ASSUME NEW q \in Seq(Lines), Distinct(q), q # <<>>
  PROVE  /\ Distinct(Tail(q)) /\ Numbers(Tail(q)) \subseteq Numbers(q)
         /\ Head(q).n \in Numbers(q) /\ Head(q).n \notin Numbers(Tail(q))
<1>1. Len(q) \in Nat /\ Len(q) # 0 /\ Tail(q) = SubSeq(q, 2, Len(q)) /\ Head(q) = q[1]
  BY LenProperties, EmptySeq, TailIsSubSeq
<1>2. 1 \in 0..Len(q) /\ 1 \in 1..Len(q) /\ 1 + 1 = 2
  BY <1>1
<1>3. /\ Distinct(SubSeq(q, 1 + 1, Len(q))) /\ Numbers(SubSeq(q, 1 + 1, Len(q))) \subseteq Numbers(q)
  BY <1>2, PartNumbers
<1>4. Head(q).n \in Numbers(q)
  BY <1>1, <1>2 DEF Numbers
<1>5. Head(q).n \notin Numbers(Tail(q))
  <2> DEFINE r == Tail(q)
  <2>1. Len(r) = Len(q) - 1 /\ \A i \in 1..Len(r) : r[i] = q[i + 1]
    BY HeadTailProperties
  <2> HIDE DEF r
  <2> SUFFICES ASSUME NEW i \in 1..Len(r), q[1].n = q[i + 1].n PROVE FALSE
    BY <1>1, <2>1 DEF Numbers, r
  <2>2. i + 1 \in 1..Len(q) /\ i + 1 # 1
    BY <1>1, <2>1
  <2> QED
    BY <1>2, <2>2 DEF Distinct
<1> QED
  BY <1>1, <1>2, <1>3, <1>4, <1>5

LEMMA AppendNumbers ==
  ASSUME NEW q \in Seq(Lines), Distinct(q), NEW l \in Lines, l.n \notin Numbers(q)
  PROVE  Distinct(Append(q, l)) /\ Numbers(Append(q, l)) \subseteq Numbers(q) \cup {l.n}
<1> DEFINE r == Append(q, l)
<1>1. Len(q) \in Nat /\ Len(r) = Len(q) + 1 /\ r[Len(r)] = l
      /\ \A i \in 1..Len(q) : r[i] = q[i]
  BY LenProperties, AppendProperties
<1> HIDE DEF r
<1>2. \A i \in 1..Len(r) : i \in 1..Len(q) \/ i = Len(r)
  BY <1>1
<1>3. \A i \in 1..Len(q) : q[i].n \in Numbers(q)
  BY DEF Numbers
<1>4. Numbers(r) \subseteq Numbers(q) \cup {l.n}
  BY <1>1, <1>2, <1>3 DEF Numbers
<1>5. Distinct(r)
  <2> SUFFICES ASSUME NEW i \in 1..Len(r), NEW j \in 1..Len(r), r[i].n = r[j].n PROVE i = j
    BY DEF Distinct
  <2>1. CASE i \in 1..Len(q) /\ j \in 1..Len(q)
    BY <1>1, <2>1 DEF Distinct
  <2>2. CASE i = Len(r) /\ j \in 1..Len(q)
    BY <1>1, <1>3, <2>2
  <2>3. CASE i \in 1..Len(q) /\ j = Len(r)
    BY <1>1, <1>3, <2>3
  <2> QED
    BY <1>2, <2>1, <2>2, <2>3
<1> QED
  BY <1>4, <1>5 DEF r

\* No line, and one line.
LEMMA FewNumbers ==
  ASSUME NEW q \in Seq(Lines), Len(q) <= 1
  PROVE  Distinct(q) /\ Numbers(q) = IF Len(q) = 1 THEN {q[1].n} ELSE {}
<1>1. Len(q) = 0 \/ Len(q) = 1
  <2>1. PICK n \in Nat : n = Len(q)
    BY LenProperties
  <2>2. n <= 1
    BY <2>1
  <2> QED
    BY <2>1, <2>2
<1>2. \A i \in 1..Len(q) : i = 1
  BY <1>1
<1> QED
  BY <1>1, <1>2 DEF Distinct, Numbers

\* A thread that takes no new lines keeps what it has, drops the first, or drops all.
Fewer(u) ==
    \/ LinesOf(u)' = LinesOf(u)
    \/ LinesOf(u)' = <<>>
    \/ LinesOf(u) # <<>> /\ LinesOf(u)' = Tail(LinesOf(u))

LEMMA FewerLines ==
  ASSUME TypeOK, [Next]_vars, NEW u \in Threads,
         ~\E s \in Servers, k \in 1..MaxEvents : Post(u, s, k),
         ~\E s \in Servers, k \in Ids, v \in Players : PostKill(u, s, k, v)
  PROVE  Fewer(u)
<1>1. ASSUME pc[u] \in BatchSteps, Ends(u) PROVE Fewer(u)
  <2>1. job[u] \in Batches /\ job[u].lines # <<>>
    BY <1>1, KindFacts DEF TypeOK
  <2>2. NoJob \notin Batches
    BY DEF NoJob, Batches
  <2> QED
    BY <1>1, <2>1, <2>2 DEF Fewer, LinesOf, Ends
<1>2. ASSUME pc[u] \in BatchSteps, job'[u] \in Batches, job'[u].lines = job[u].lines PROVE Fewer(u)
  <2>1. job[u] \in Batches
    BY <1>2, KindFacts DEF TypeOK
  <2> QED
    BY <1>2, <2>1 DEF Fewer, LinesOf
<1>3. CASE job'[u] = job[u]
  BY <1>3 DEF Fewer, LinesOf
<1>4. CASE job'[u] = NoJob
  <2>1. NoJob \notin Batches
    BY DEF NoJob, Batches
  <2> QED
    BY <1>4, <2>1 DEF Fewer, LinesOf
<1>5. CASE ParseDie(u)
  <2>1. pc[u] = "line" /\ job'[u] \in Batches /\ job'[u].lines = job[u].lines
    BY <1>5, ParseDieTypes DEF Goes
  <2> QED
    BY <1>2, <2>1 DEF BatchSteps
<1>6. CASE ResolveVictim(u)
  BY <1>2, <1>6, ResolveVictimTypes DEF Goes
<1>7. CASE CheckTeam(u)
  BY <1>2, <1>7, CheckTeamTypes DEF Goes
<1>8. CASE RecordKill(u)
  BY <1>2, <1>8, RecordKillTypes DEF Goes
<1>9. CASE Suicide(u)
  <2>1. pc[u] \in BatchSteps /\ (Ends(u) \/ (job'[u] \in Batches /\ job'[u].lines = job[u].lines))
    BY <1>9, SuicideTypes DEF Goes
  <2> QED
    BY <1>1, <1>2, <2>1
<1>10. CASE \E s \in Servers : PostList(u, s)
  <2>1. job'[u] \in Lists
    BY <1>10, PostListTypes
  <2>2. job'[u] \notin Batches
    BY <2>1 DEF Lists, Batches
  <2> QED
    BY <2>2 DEF Fewer, LinesOf
<1>11. CASE UpdateCache(u)
  BY <1>11, UpdateCacheTypes, <1>3
<1> QED
  <2>1. Came(u)
    BY Arrives
  <2> QED
    BY <1>1, <1>3, <1>4, <1>5, <1>6, <1>7, <1>8, <1>9, <1>10, <1>11, <2>1 DEF Came

\* The lines of threads are lines.
LEMMA LinesOfTypes ==
  ASSUME JobsTyped, NEW u \in Threads
  PROVE  LinesOf(u) \in Seq(Lines)
<1>1. CASE job[u] \in Batches
  BY <1>1 DEF LinesOf, Batches
<1>2. CASE job[u] \notin Batches
  BY <1>2 DEF LinesOf
<1> QED
  BY <1>1, <1>2

\* So the numbers of a thread's lines stay, or there are fewer.
LEMMA FewerNumbers ==
  ASSUME TypeOK, NEW u \in Threads, Distinct(LinesOf(u)), Fewer(u)
  PROVE  Distinct(LinesOf(u))' /\ Numbers(LinesOf(u))' \subseteq Numbers(LinesOf(u))
<1>1. PICK q : q = LinesOf(u)
  OBVIOUS
<1>2. PICK r : r = LinesOf(u)'
  OBVIOUS
<1>3. q \in Seq(Lines) /\ Distinct(q)
  BY <1>1, LinesOfTypes DEF TypeOK
<1>4. r = q \/ r = <<>> \/ (q # <<>> /\ r = Tail(q))
  BY <1>1, <1>2 DEF Fewer
<1>5. CASE r = <<>>
  <2>1. 1..Len(<<>>) = {}
    OBVIOUS
  <2>2. Distinct(<<>>) /\ Numbers(<<>>) = {}
    BY <2>1 DEF Distinct, Numbers
  <2> QED
    BY <1>1, <1>2, <1>5, <2>2
<1>6. CASE q # <<>> /\ r = Tail(q)
  BY <1>1, <1>2, <1>3, <1>6, TailNumbers
<1>7. CASE r = q
  BY <1>1, <1>2, <1>3, <1>7
<1> QED
  BY <1>4, <1>5, <1>6, <1>7

LEMMA NumbersTyped ==
  ASSUME NEW q \in Seq(Lines)
  PROVE  Numbers(q) \subseteq LineIds
<1>1. \A i \in 1..Len(q) : q[i] \in Lines
  BY ElementOfSeq
<1> QED
  BY <1>1 DEF Numbers, Lines

\* A number that is placed is that of a line there has been.
LEMMA PlacedBefore ==
  ASSUME TypeOK, LinesUntouched, NEW n, Placed(n)
  PROVE  n \in LineIds /\ n <= events /\ n # events + 1 /\ Untouched(n)
<1>1. \A s \in Servers : feed[s] \in Seq(Lines)
  BY DEF TypeOK, StoreTyped
<1>2. \A t \in Threads : LinesOf(t) \in Seq(Lines)
  BY LinesOfTypes DEF TypeOK
<1>3. n \in LineIds
  BY <1>1, <1>2, NumbersTyped DEF Placed
<1>4. n <= events /\ Untouched(n)
  BY <1>3 DEF LinesUntouched
<1> QED
  BY <1>3, <1>4, FeedAssumption DEF LineIds, TypeOK, StoreTyped

\* A step that brings no new line and posts none.
LEMMA NoNewLines ==
  ASSUME TypeOK, LinesDiffer, feed' = feed, \A u \in Threads : Fewer(u)
  PROVE  LinesDiffer' /\ \A n : Placed(n)' => Placed(n)
<1>1. \A u \in Threads : /\ Distinct(LinesOf(u))'
                         /\ Numbers(LinesOf(u))' \subseteq Numbers(LinesOf(u))
  BY FewerNumbers DEF LinesDiffer
<1>2. \A s \in Servers : Numbers(feed[s])' = Numbers(feed[s]) /\ Distinct(feed[s])'
  BY DEF LinesDiffer
<1>3. LinesDiffer'
  <2>1. \A s, u \in Servers : s # u => Numbers(feed[s])' \cap Numbers(feed[u])' = {}
    BY <1>2 DEF LinesDiffer
  <2>2. \A t, u \in Threads : t # u => Numbers(LinesOf(t))' \cap Numbers(LinesOf(u))' = {}
    BY <1>1 DEF LinesDiffer
  <2>3. \A s \in Servers, t \in Threads : Numbers(feed[s])' \cap Numbers(LinesOf(t))' = {}
    BY <1>1, <1>2 DEF LinesDiffer
  <2> QED
    BY <1>1, <1>2, <2>1, <2>2, <2>3 DEF LinesDiffer
<1>4. \A n : Placed(n)' => Placed(n)
  BY <1>1, <1>2 DEF Placed
<1> QED
  BY <1>3, <1>4

LEMMA LogLines ==
  ASSUME TypeOK, LinesDiffer, LinesUntouched, NEW s \in Servers, NEW kind \in {"wound", "die"},
         NEW v \in Players, NEW a \in Ids, Log(s, kind, v, a)
  PROVE  /\ LinesDiffer' /\ \A n : Placed(n)' => Placed(n) \/ n = events + 1
         /\ events' = events + 1
<1> DEFINE l == [kind |-> kind, victim |-> v, attacker |-> a, n |-> events + 1]
<1>1. /\ events' = events + 1 /\ feed' = [feed EXCEPT ![s] = Append(feed[s], l)]
      /\ job' = job /\ feed \in [Servers -> Seq(Lines)] /\ events + 1 \in LineIds
  BY EventMore DEF TypeOK, StoreTyped, Log
<1>2. l \in Lines /\ l.n = events + 1
  BY <1>1 DEF Lines
<1> HIDE DEF l
<1>3. ~Placed(events + 1)
  BY PlacedBefore
<1>4. feed'[s] = Append(feed[s], l) /\ \A u \in Servers \ {s} : feed'[u] = feed[u]
  BY <1>1
<1>5. /\ Distinct(feed[s])' /\ Numbers(feed[s])' \subseteq Numbers(feed[s]) \cup {events + 1}
  <2>1. feed[s] \in Seq(Lines) /\ Distinct(feed[s]) /\ l.n \notin Numbers(feed[s])
    BY <1>1, <1>2, <1>3 DEF LinesDiffer, Placed
  <2>2. Distinct(Append(feed[s], l)) /\ Numbers(Append(feed[s], l)) \subseteq Numbers(feed[s]) \cup {l.n}
    BY <1>2, <2>1, AppendNumbers
  <2> QED
    BY <1>2, <1>4, <2>2
<1>6. \A u \in Servers \ {s} : Numbers(feed[u])' = Numbers(feed[u]) /\ Distinct(feed[u])'
  BY <1>4 DEF LinesDiffer
<1>7. \A t \in Threads : LinesOf(t)' = LinesOf(t)
  BY <1>1 DEF LinesOf
<1>8. \A t \in Threads : Numbers(LinesOf(t))' = Numbers(LinesOf(t)) /\ Distinct(LinesOf(t))'
  BY <1>7 DEF LinesDiffer
<1>9. \A u \in Servers : events + 1 \notin Numbers(feed[u])
  BY <1>3 DEF Placed
<1>10. \A t \in Threads : events + 1 \notin Numbers(LinesOf(t))
  BY <1>3 DEF Placed
<1>11. \A u, w \in Servers : u # w => Numbers(feed[u])' \cap Numbers(feed[w])' = {}
  <2> SUFFICES ASSUME NEW u \in Servers, NEW w \in Servers, u # w
               PROVE  Numbers(feed[u])' \cap Numbers(feed[w])' = {}
    OBVIOUS
  <2>1. Numbers(feed[u]) \cap Numbers(feed[w]) = {}
    BY DEF LinesDiffer
  <2>2. CASE u = s
    BY <1>5, <1>6, <1>9, <2>1, <2>2
  <2>3. CASE w = s
    BY <1>5, <1>6, <1>9, <2>1, <2>3
  <2>4. CASE u # s /\ w # s
    BY <1>6, <2>1, <2>4
  <2> QED
    BY <2>2, <2>3, <2>4
<1>12. \A u \in Servers, t \in Threads : Numbers(feed[u])' \cap Numbers(LinesOf(t))' = {}
  <2> SUFFICES ASSUME NEW u \in Servers, NEW t \in Threads
               PROVE  Numbers(feed[u])' \cap Numbers(LinesOf(t))' = {}
    OBVIOUS
  <2>1. Numbers(feed[u]) \cap Numbers(LinesOf(t)) = {}
    BY DEF LinesDiffer
  <2> QED
    BY <1>5, <1>6, <1>8, <1>10, <2>1
<1>13. \A t, u \in Threads : t # u => Numbers(LinesOf(t))' \cap Numbers(LinesOf(u))' = {}
  BY <1>8 DEF LinesDiffer
<1>14. LinesDiffer'
  BY <1>5, <1>6, <1>8, <1>11, <1>12, <1>13 DEF LinesDiffer
<1>15. \A n : Placed(n)' => Placed(n) \/ n = events + 1
  BY <1>5, <1>6, <1>8 DEF Placed
<1> QED
  BY <1>1, <1>14, <1>15

\* A batch moves the first lines of a feed to a thread.
LEMMA PostLines ==
  ASSUME TypeOK, LinesDiffer, NEW t \in Threads, NEW s \in Servers, NEW k, Post(t, s, k)
  PROVE  LinesDiffer' /\ \A n : Placed(n)' => Placed(n)
<1>1. /\ OnlyMoves(t) /\ k \in 1..Len(feed[s]) /\ feed[s] \in Seq(Lines)
      /\ job'[t] \in Batches /\ job'[t].lines = SubSeq(feed[s], 1, k)
      /\ feed' = [feed EXCEPT ![s] = SubSeq(feed[s], k + 1, Len(feed[s]))]
  BY PostTypes
<1>2. feed \in [Servers -> Seq(Lines)]
  BY DEF TypeOK, StoreTyped
<1>3. /\ feed'[s] = SubSeq(feed[s], k + 1, Len(feed[s]))
      /\ \A u \in Servers \ {s} : feed'[u] = feed[u]
  BY <1>1, <1>2
<1>4. LinesOf(t)' = SubSeq(feed[s], 1, k)
  BY <1>1 DEF LinesOf
<1>5. \A u \in Threads \ {t} : LinesOf(u)' = LinesOf(u)
  BY <1>1 DEF LinesOf, OnlyMoves
<1>6. /\ Distinct(SubSeq(feed[s], 1, k)) /\ Distinct(SubSeq(feed[s], k + 1, Len(feed[s])))
      /\ Numbers(SubSeq(feed[s], 1, k)) \subseteq Numbers(feed[s])
      /\ Numbers(SubSeq(feed[s], k + 1, Len(feed[s]))) \subseteq Numbers(feed[s])
      /\ Numbers(SubSeq(feed[s], 1, k)) \cap Numbers(SubSeq(feed[s], k + 1, Len(feed[s]))) = {}
  <2>1. Distinct(feed[s])
    BY DEF LinesDiffer
  <2>2. k \in 0..Len(feed[s])
    BY <1>1
  <2> QED
    BY <1>1, <2>1, <2>2, PartNumbers
<1>7. /\ Distinct(feed[s])' /\ Numbers(feed[s])' \subseteq Numbers(feed[s])
      /\ Distinct(LinesOf(t))' /\ Numbers(LinesOf(t))' \subseteq Numbers(feed[s])
      /\ Numbers(feed[s])' \cap Numbers(LinesOf(t))' = {}
  BY <1>3, <1>4, <1>6
<1>8. \A u \in Servers \ {s} : Numbers(feed[u])' = Numbers(feed[u]) /\ Distinct(feed[u])'
  BY <1>3 DEF LinesDiffer
<1>9. \A u \in Threads \ {t} : Numbers(LinesOf(u))' = Numbers(LinesOf(u)) /\ Distinct(LinesOf(u))'
  BY <1>5 DEF LinesDiffer
<1>10. \A u, w \in Servers : u # w => Numbers(feed[u])' \cap Numbers(feed[w])' = {}
  <2> SUFFICES ASSUME NEW u \in Servers, NEW w \in Servers, u # w
               PROVE  Numbers(feed[u])' \cap Numbers(feed[w])' = {}
    OBVIOUS
  <2>1. Numbers(feed[u]) \cap Numbers(feed[w]) = {}
    BY DEF LinesDiffer
  <2> QED
    BY <1>7, <1>8, <2>1
<1>11. \A u, w \in Threads : u # w => Numbers(LinesOf(u))' \cap Numbers(LinesOf(w))' = {}
  <2> SUFFICES ASSUME NEW u \in Threads, NEW w \in Threads, u # w
               PROVE  Numbers(LinesOf(u))' \cap Numbers(LinesOf(w))' = {}
    OBVIOUS
  <2>1. /\ Numbers(LinesOf(u)) \cap Numbers(LinesOf(w)) = {}
        /\ Numbers(feed[s]) \cap Numbers(LinesOf(w)) = {}
        /\ Numbers(feed[s]) \cap Numbers(LinesOf(u)) = {}
    BY DEF LinesDiffer
  <2>2. CASE u = t
    BY <1>7, <1>9, <2>1, <2>2
  <2>3. CASE w = t
    BY <1>7, <1>9, <2>1, <2>3
  <2>4. CASE u # t /\ w # t
    BY <1>9, <2>1, <2>4
  <2> QED
    BY <2>2, <2>3, <2>4
<1>12. \A u \in Servers, w \in Threads : Numbers(feed[u])' \cap Numbers(LinesOf(w))' = {}
  <2> SUFFICES ASSUME NEW u \in Servers, NEW w \in Threads
               PROVE  Numbers(feed[u])' \cap Numbers(LinesOf(w))' = {}
    OBVIOUS
  <2>1. /\ Numbers(feed[u]) \cap Numbers(LinesOf(w)) = {}
        /\ u # s => Numbers(feed[u]) \cap Numbers(feed[s]) = {}
    BY DEF LinesDiffer
  <2>2. CASE w = t /\ u = s
    BY <1>7, <2>2
  <2>3. CASE w = t /\ u # s
    BY <1>7, <1>8, <2>1, <2>3
  <2>4. CASE w # t /\ u = s
    BY <1>7, <1>9, <2>1, <2>4
  <2>5. CASE w # t /\ u # s
    BY <1>8, <1>9, <2>1, <2>5
  <2> QED
    BY <2>2, <2>3, <2>4, <2>5
<1>13. LinesDiffer'
  BY <1>7, <1>8, <1>9, <1>10, <1>11, <1>12 DEF LinesDiffer
<1>14. \A n : Placed(n)' => Placed(n)
  BY <1>7, <1>8, <1>9 DEF Placed
<1> QED
  BY <1>13, <1>14

LEMMA PostKillLines ==
  ASSUME TypeOK, LinesDiffer, LinesUntouched, NEW t \in Threads, NEW s \in Servers,
         NEW k \in Ids, NEW v \in Players, PostKill(t, s, k, v)
  PROVE  /\ LinesDiffer' /\ \A n : Placed(n)' => Placed(n) \/ n = events + 1
         /\ events' = events + 1
<1>1. /\ OnlyMoves(t) /\ job'[t] \in Batches /\ Len(job'[t].lines) = 1
      /\ Line(t)'.n = events + 1 /\ feed' = feed /\ events' = events + 1
  BY PostKillTypes DEF PostKill, game
<1>2. LinesOf(t)' = job'[t].lines /\ job'[t].lines \in Seq(Lines)
  BY <1>1 DEF LinesOf, Batches
<1>3. Numbers(LinesOf(t))' = {events + 1} /\ Distinct(LinesOf(t))'
  <2>1. PICK q \in Seq(Lines) : q = job'[t].lines
    BY <1>2
  <2>2. Len(q) = 1 /\ Head(q).n = events + 1
    BY <1>1, <2>1 DEF Line
  <2>3. Distinct(q) /\ Numbers(q) = {q[1].n}
    <3>1. Len(q) <= 1
      BY <2>2
    <3> QED
      BY <2>2, <3>1, FewNumbers
  <2>4. Head(q) = q[1]
    OBVIOUS
  <2> QED
    BY <1>2, <2>1, <2>2, <2>3, <2>4
<1>4. \A u \in Threads \ {t} : LinesOf(u)' = LinesOf(u)
  BY <1>1 DEF LinesOf, OnlyMoves
<1>5. \A u \in Threads \ {t} : Numbers(LinesOf(u))' = Numbers(LinesOf(u)) /\ Distinct(LinesOf(u))'
  BY <1>4 DEF LinesDiffer
<1>6. \A u \in Servers : Numbers(feed[u])' = Numbers(feed[u]) /\ Distinct(feed[u])'
  BY <1>1 DEF LinesDiffer
<1>7. ~Placed(events + 1)
  BY PlacedBefore
<1>8. \A u, w \in Servers : u # w => Numbers(feed[u])' \cap Numbers(feed[w])' = {}
  BY <1>6 DEF LinesDiffer
<1>9. \A u \in Servers, w \in Threads : Numbers(feed[u])' \cap Numbers(LinesOf(w))' = {}
  <2> SUFFICES ASSUME NEW u \in Servers, NEW w \in Threads
               PROVE  Numbers(feed[u])' \cap Numbers(LinesOf(w))' = {}
    OBVIOUS
  <2>1. Numbers(feed[u]) \cap Numbers(LinesOf(w)) = {} /\ events + 1 \notin Numbers(feed[u])
    BY <1>7 DEF LinesDiffer, Placed
  <2>2. CASE w = t
    BY <1>3, <1>6, <2>1, <2>2
  <2>3. CASE w # t
    BY <1>5, <1>6, <2>1, <2>3
  <2> QED
    BY <2>2, <2>3
<1>10. \A u, w \in Threads : u # w => Numbers(LinesOf(u))' \cap Numbers(LinesOf(w))' = {}
  <2> SUFFICES ASSUME NEW u \in Threads, NEW w \in Threads, u # w
               PROVE  Numbers(LinesOf(u))' \cap Numbers(LinesOf(w))' = {}
    OBVIOUS
  <2>1. /\ Numbers(LinesOf(u)) \cap Numbers(LinesOf(w)) = {}
        /\ events + 1 \notin Numbers(LinesOf(u)) /\ events + 1 \notin Numbers(LinesOf(w))
    BY <1>7 DEF LinesDiffer, Placed
  <2>2. CASE u = t
    BY <1>3, <1>5, <2>1, <2>2
  <2>3. CASE w = t
    BY <1>3, <1>5, <2>1, <2>3
  <2>4. CASE u # t /\ w # t
    BY <1>5, <2>1, <2>4
  <2> QED
    BY <2>2, <2>3, <2>4
<1>11. LinesDiffer'
  BY <1>3, <1>5, <1>6, <1>8, <1>9, <1>10 DEF LinesDiffer
<1>12. \A n : Placed(n)' => Placed(n) \/ n = events + 1
  BY <1>3, <1>5, <1>6 DEF Placed
<1> QED
  BY <1>1, <1>11, <1>12

\* The line a thread has stored is not in anyone's hands any more.
LEMMA StoreWoundLines ==
  ASSUME TypeOK, LinesDiffer, NEW t \in Threads, StoreWound(t), NEW n, n = Line(t).n
  PROVE  Placed(n) /\ ~Placed(n)'
<1>1. OnlyMoves(t) /\ Ends(t) /\ pc[t] \in BatchSteps /\ feed' = feed
  BY StoreWoundTypes DEF StoreWound, game
<1>2. job[t] \in Batches /\ job[t].lines # <<>> /\ LinesOf(t) = job[t].lines
      /\ LinesOf(t) \in Seq(Lines)
  BY <1>1, KindFacts, LinesOfTypes DEF TypeOK, LinesOf
<1>3. Distinct(LinesOf(t))
  BY DEF LinesDiffer
<1>4. n \in Numbers(LinesOf(t)) /\ n \notin Numbers(Tail(LinesOf(t)))
  BY <1>2, <1>3, TailNumbers DEF Line
<1>5. \A u \in Threads \ {t} : Numbers(LinesOf(u))' = Numbers(LinesOf(u))
  BY <1>1 DEF LinesOf, OnlyMoves
<1>6. LinesOf(t)' = <<>> \/ LinesOf(t)' = Tail(LinesOf(t))
  <2>1. NoJob \notin Batches
    BY DEF NoJob, Batches
  <2> QED
    BY <1>1, <1>2, <2>1 DEF Ends, LinesOf
<1>7. n \notin Numbers(LinesOf(t))'
  <2>1. Numbers(<<>>) = {}
    <3>1. 1..Len(<<>>) = {}
      OBVIOUS
    <3> QED
      BY <3>1 DEF Numbers
  <2> QED
    BY <1>4, <1>6, <2>1
<1>8. \A u \in Threads \ {t} : n \notin Numbers(LinesOf(u))
  BY <1>4 DEF LinesDiffer
<1>9. \A s \in Servers : n \notin Numbers(feed[s])
  BY <1>4 DEF LinesDiffer
<1> QED
  BY <1>1, <1>4, <1>5, <1>7, <1>8, <1>9 DEF Placed

\* Lines stay apart, and a line that is placed was, or is the newest.
LEMMA LinesStep ==
  ASSUME TypeOK, LinesDiffer, LinesUntouched, [Next]_vars
  PROVE  /\ LinesDiffer'
         /\ \A n : Placed(n)' => Placed(n) \/ (n = events + 1 /\ events' = events + 1)
<1>1. CASE \E s \in Servers, kind \in {"wound", "die"}, p \in Players, a \in Ids : Log(s, kind, p, a)
  <2>1. PICK s \in Servers, kind \in {"wound", "die"}, p \in Players, a \in Ids : Log(s, kind, p, a)
    BY <1>1
  <2> QED
    BY <2>1, LogLines
<1>2. CASE \E t \in Threads, s \in Servers, k \in 1..MaxEvents : Post(t, s, k)
  <2>1. PICK t \in Threads, s \in Servers, k \in 1..MaxEvents : Post(t, s, k)
    BY <1>2
  <2> QED
    BY <2>1, PostLines
<1>3. CASE \E t \in Threads, s \in Servers, k \in Ids, v \in Players : PostKill(t, s, k, v)
  <2>1. PICK t \in Threads, s \in Servers, k \in Ids, v \in Players : PostKill(t, s, k, v)
    BY <1>3
  <2> QED
    BY <2>1, PostKillLines
<1>4. CASE /\ ~\E s \in Servers, kind \in {"wound", "die"}, p \in Players, a \in Ids :
                    Log(s, kind, p, a)
           /\ ~\E t \in Threads, s \in Servers, k \in 1..MaxEvents : Post(t, s, k)
           /\ ~\E t \in Threads, s \in Servers, k \in Ids, v \in Players : PostKill(t, s, k, v)
  <2>1. feed' = feed
    BY NextCases, <1>4
    DEF vars, game, ChangeTeam, PostList, UpdateCache, UpdateTeams, StoreWound, ParseDie, Suicide,
        ResolveVictim, CheckTeam, RecordKill, Score, Tick, Crash
  <2>2. \A u \in Threads : Fewer(u)
    BY <1>4, FewerLines
  <2> QED
    BY <2>1, <2>2, NoNewLines
<1> QED
  BY <1>1, <1>2, <1>3, <1>4

\* Where wounds are stored, looked up and forgotten.
LEMMA WoundSteps ==
  ASSUME TypeOK, [Next]_vars
  PROVE  /\ events' = events \/ events' = events + 1
         /\ \/ \E t \in Threads : StoreWound(t) /\ events' = events /\ spent' = spent
            \/ \E t \in Threads : ParseDie(t)
            \/ Crash /\ spent' = spent
            \/ UNCHANGED <<woundStore, spent>>
<1>1. events' = events \/ events' = events + 1
  BY NextCases
  DEF vars, ChangeTeam, Log, Post, PostKill, PostList, UpdateCache, UpdateTeams, StoreWound,
      ParseDie, Suicide, ResolveVictim, CheckTeam, RecordKill, Score, Tick, Crash
<1>2. \/ \E t \in Threads : StoreWound(t) /\ events' = events /\ spent' = spent
      \/ \E t \in Threads : ParseDie(t)
      \/ Crash /\ spent' = spent
      \/ UNCHANGED <<woundStore, spent>>
  BY NextCases
  DEF vars, tables, history, ChangeTeam, Log, Post, PostKill, PostList, UpdateCache, UpdateTeams,
      StoreWound, Suicide, ResolveVictim, CheckTeam, RecordKill, Score, Tick, Crash
<1> QED
  BY <1>1, <1>2

\* What StoreWound does to the table, as a change at one victim.
LEMMA StoreWoundTable ==
  ASSUME TypeOK, NEW t \in Threads, StoreWound(t)
  PROVE  /\ Line(t).victim \in Players /\ Line(t).n \in LineIds
         /\ woundStore'[Line(t).victim].line = Line(t).n
         /\ \A v \in Players \ {Line(t).victim} : woundStore'[v] = woundStore[v]
<1> DEFINE w == [attacker |-> Line(t).attacker, time |-> now, line |-> Line(t).n]
           x == Line(t).victim
<1>1. x \in Players /\ Line(t).n \in LineIds /\ w.line = Line(t).n
  BY StoreWoundTypes, LineFacts DEF TypeOK
<1>2. woundStore' = [woundStore EXCEPT ![x] = w]
  BY DEF StoreWound
<1> HIDE DEF w, x
<1>3. woundStore'[x] = w /\ \A v \in Players \ {x} : woundStore'[v] = woundStore[v]
  BY <1>1, <1>2 DEF TypeOK, StoreTyped
<1> QED
  BY <1>1, <1>3 DEF x

\* What ParseDie does to it: the wound it looks up goes, and has decided one more death.
LEMMA ParseDieTable ==
  ASSUME TypeOK, NEW t \in Threads, ParseDie(t)
  PROVE  \/ UNCHANGED <<woundStore, spent>>
         \/ \E v \in Players :
              /\ woundStore[v] # NoWound /\ woundStore[v].line \in LineIds
              /\ woundStore'[v] = NoWound
              /\ \A u \in Players \ {v} : woundStore'[u] = woundStore[u]
              /\ spent'[woundStore[v].line] = spent[woundStore[v].line] + 1
              /\ \A n \in LineIds \ {woundStore[v].line} : spent'[n] = spent[n]
<1> DEFINE v == Line(t).victim
           w == woundStore[v]
<1>1. pc[t] \in BatchSteps
  BY DEF ParseDie, BatchSteps
<1>2. v \in Players
  BY <1>1, LineFacts DEF TypeOK
<1>3. woundStore \in [Players -> {NoWound} \cup [attacker : Ids, time : 0..now, line : LineIds]]
      /\ spent \in [LineIds -> Nat]
  BY DEF TypeOK, StoreTyped
<1>4. \/ UNCHANGED <<woundStore, spent>>
      \/ /\ w # NoWound /\ woundStore' = [woundStore EXCEPT ![v] = NoWound]
         /\ spent' = [spent EXCEPT ![w.line] = @ + 1]
  BY DEF ParseDie
<1>5. w # NoWound => w.line \in LineIds
  BY <1>2, <1>3
<1> HIDE DEF v
<1>6. CASE /\ w # NoWound /\ woundStore' = [woundStore EXCEPT ![v] = NoWound]
           /\ spent' = [spent EXCEPT ![w.line] = @ + 1]
  <2>1. woundStore'[v] = NoWound /\ \A u \in Players \ {v} : woundStore'[u] = woundStore[u]
    BY <1>2, <1>3, <1>6
  <2>2. PICK m \in LineIds : m = w.line
    BY <1>5, <1>6
  <2>3. spent'[m] = spent[m] + 1 /\ \A n \in LineIds \ {m} : spent'[n] = spent[n]
    BY <1>3, <1>6, <2>2
  <2> QED
    BY <1>2, <1>6, <2>1, <2>2, <2>3
<1> QED
  BY <1>4, <1>6

SpentInv == TypeOK /\ LinesDiffer /\ LinesUntouched /\ StoredUnspent /\ WoundSpentOnce

\* A line stays untouched until it is stored.
LEMMA UntouchedStays ==
  ASSUME TypeOK, [Next]_vars, NEW n \in LineIds, Untouched(n)
  PROVE  Untouched(n)' \/ \E t \in Threads : StoreWound(t) /\ n = Line(t).n
<1>1. CASE UNCHANGED <<woundStore, spent>>
  BY <1>1 DEF Untouched
<1>2. CASE Crash /\ spent' = spent
  BY <1>2 DEF Untouched, Crash, NoWound, LineIds
<1>3. CASE \E t \in Threads : ParseDie(t)
  <2>1. PICK t \in Threads : ParseDie(t)
    BY <1>3
  <2>2. CASE \E v \in Players :
              /\ woundStore[v] # NoWound /\ woundStore[v].line \in LineIds
              /\ woundStore'[v] = NoWound
              /\ \A u \in Players \ {v} : woundStore'[u] = woundStore[u]
              /\ spent'[woundStore[v].line] = spent[woundStore[v].line] + 1
              /\ \A m \in LineIds \ {woundStore[v].line} : spent'[m] = spent[m]
    <3>1. PICK v \in Players :
              /\ woundStore'[v] = NoWound
              /\ \A u \in Players \ {v} : woundStore'[u] = woundStore[u]
              /\ \A m \in LineIds \ {woundStore[v].line} : spent'[m] = spent[m]
      BY <2>2
    <3>2. n # woundStore[v].line /\ n # NoWound.line
      BY DEF Untouched, NoWound, LineIds
    <3>3. spent'[n] = 0
      BY <3>1, <3>2 DEF Untouched
    <3>4. \A u \in Players : woundStore'[u].line # n
      BY <3>1, <3>2 DEF Untouched
    <3> QED
      BY <3>3, <3>4 DEF Untouched
  <2> QED
    BY <1>1, <2>1, <2>2, ParseDieTable
<1>4. CASE \E t \in Threads : StoreWound(t) /\ events' = events /\ spent' = spent
  <2>1. PICK t \in Threads : StoreWound(t) /\ spent' = spent
    BY <1>4
  <2>2. CASE n # Line(t).n
    <3>1. /\ woundStore'[Line(t).victim].line = Line(t).n
          /\ \A v \in Players \ {Line(t).victim} : woundStore'[v] = woundStore[v]
      BY <2>1, StoreWoundTable
    <3>2. \A v \in Players : woundStore'[v].line # n
      BY <2>2, <3>1 DEF Untouched
    <3> QED
      BY <2>1, <3>2 DEF Untouched
  <2> QED
    BY <2>1, <2>2
<1> QED
  BY WoundSteps, <1>1, <1>2, <1>3, <1>4

LEMMA UntouchedStep ==
  ASSUME SpentInv, [Next]_vars
  PROVE  LinesUntouched'
<1>1. \A n : Placed(n)' => Placed(n) \/ (n = events + 1 /\ events' = events + 1)
  BY LinesStep DEF SpentInv
<1>2. events \in Int /\ (events' = events \/ events' = events + 1)
  BY WoundSteps, FeedAssumption DEF SpentInv, TypeOK, StoreTyped
<1>3. ASSUME NEW n \in LineIds, n > events'
      PROVE  Untouched(n)'
  <2>1. n \in Int /\ n > events /\ Untouched(n)
    BY <1>2, <1>3, FeedAssumption DEF LineIds, SpentInv, LinesUntouched
  <2>2. ~Placed(n)
    BY <2>1, <1>2 DEF SpentInv, LinesUntouched
  <2>3. \A t \in Threads : StoreWound(t) => n # Line(t).n
    BY <2>2, StoreWoundLines DEF SpentInv
  <2> QED
    BY <2>1, <2>3, UntouchedStays DEF SpentInv
<1>4. ASSUME NEW n \in LineIds, Placed(n)'
      PROVE  n <= events' /\ Untouched(n)'
  <2>1. n \in Int
    BY FeedAssumption DEF LineIds
  <2>2. n <= events' /\ Untouched(n)
    <3>1. CASE Placed(n)
      BY <1>2, <2>1, <3>1 DEF SpentInv, LinesUntouched
    <3>2. CASE n = events + 1 /\ events' = events + 1
      BY <1>2, <2>1, <3>2 DEF SpentInv, LinesUntouched
    <3> QED
      BY <1>1, <1>4, <3>1, <3>2
  <2>3. \A t \in Threads : StoreWound(t) => n # Line(t).n
    BY <1>4, StoreWoundLines DEF SpentInv
  <2> QED
    BY <2>2, <2>3, UntouchedStays DEF SpentInv
<1> QED
  BY <1>3, <1>4 DEF LinesUntouched

LEMMA SpentStep ==
  ASSUME SpentInv, [Next]_vars
  PROVE  StoredUnspent' /\ WoundSpentOnce'
<1>1. CASE UNCHANGED <<woundStore, spent>>
  BY <1>1 DEF SpentInv, StoredUnspent, WoundSpentOnce
<1>2. CASE Crash /\ spent' = spent
  BY <1>2 DEF Crash, SpentInv, StoredUnspent, WoundSpentOnce
<1>3. ASSUME NEW v \in Players,
             woundStore[v] # NoWound, woundStore[v].line \in LineIds,
             woundStore'[v] = NoWound,
             \A u \in Players \ {v} : woundStore'[u] = woundStore[u],
             spent'[woundStore[v].line] = spent[woundStore[v].line] + 1,
             \A n \in LineIds \ {woundStore[v].line} : spent'[n] = spent[n]
      PROVE  StoredUnspent' /\ WoundSpentOnce'
  <2>1. spent[woundStore[v].line] = 0
    BY <1>3 DEF SpentInv, StoredUnspent
  <2>2. WoundSpentOnce'
    <3> SUFFICES ASSUME NEW n \in LineIds PROVE spent'[n] <= 1
      BY DEF WoundSpentOnce
    <3>1. CASE n = woundStore[v].line
      BY <1>3, <2>1, <3>1
    <3>2. CASE n # woundStore[v].line
      BY <1>3, <3>2 DEF SpentInv, WoundSpentOnce
    <3> QED
      BY <3>1, <3>2
  <2>3. ASSUME NEW u \in Players, woundStore'[u] # NoWound
        PROVE  /\ spent'[woundStore'[u].line] = 0
               /\ \A p \in Players \ {u} : woundStore'[p].line # woundStore'[u].line
    <3>1. u # v /\ woundStore'[u] = woundStore[u] /\ woundStore[u] # NoWound
      BY <1>3, <2>3
    <3>2. woundStore[u].line \in LineIds
      BY <3>1 DEF SpentInv, TypeOK, StoreTyped
    <3>3. /\ spent[woundStore[u].line] = 0
          /\ \A p \in Players \ {u} : woundStore[p].line # woundStore[u].line
      BY <3>1 DEF SpentInv, StoredUnspent
    <3>4. spent'[woundStore[u].line] = 0
      BY <1>3, <3>1, <3>2, <3>3
    <3>5. NoWound.line # woundStore[u].line
      BY <3>2 DEF NoWound, LineIds
    <3>6. \A p \in Players \ {u} : woundStore'[p].line # woundStore[u].line
      BY <1>3, <3>3, <3>5
    <3> QED
      BY <3>1, <3>4, <3>6
  <2> QED
    BY <2>2, <2>3 DEF StoredUnspent
<1>4. CASE \E t \in Threads : ParseDie(t)
  <2>1. PICK t \in Threads : ParseDie(t)
    BY <1>4
  <2>2. \/ UNCHANGED <<woundStore, spent>>
        \/ \E v \in Players :
              /\ woundStore[v] # NoWound /\ woundStore[v].line \in LineIds
              /\ woundStore'[v] = NoWound
              /\ \A u \in Players \ {v} : woundStore'[u] = woundStore[u]
              /\ spent'[woundStore[v].line] = spent[woundStore[v].line] + 1
              /\ \A n \in LineIds \ {woundStore[v].line} : spent'[n] = spent[n]
    BY <2>1, ParseDieTable DEF SpentInv
  <2> QED
    BY <1>1, <1>3, <2>2
<1>5. CASE \E t \in Threads : StoreWound(t) /\ events' = events /\ spent' = spent
  <2>1. PICK t \in Threads : StoreWound(t) /\ spent' = spent
    BY <1>5
  <2>2. PICK x, n : x = Line(t).victim /\ n = Line(t).n
    OBVIOUS
  <2>3. /\ x \in Players /\ n \in LineIds /\ woundStore'[x].line = n
        /\ \A v \in Players \ {x} : woundStore'[v] = woundStore[v]
    BY <2>1, <2>2, StoreWoundTable DEF SpentInv
  <2>4. Placed(n)
    BY <2>1, <2>2, StoreWoundLines DEF SpentInv
  <2>5. spent[n] = 0 /\ \A v \in Players : woundStore[v].line # n
    BY <2>3, <2>4 DEF SpentInv, LinesUntouched, Untouched
  <2>6. WoundSpentOnce'
    BY <2>1 DEF SpentInv, WoundSpentOnce
  <2>7. ASSUME NEW u \in Players, woundStore'[u] # NoWound
        PROVE  /\ spent'[woundStore'[u].line] = 0
               /\ \A p \in Players \ {u} : woundStore'[p].line # woundStore'[u].line
    <3>1. CASE u = x
      BY <2>1, <2>3, <2>5, <3>1
    <3>2. CASE u # x
      <4>1. woundStore'[u] = woundStore[u] /\ woundStore[u] # NoWound
        BY <2>3, <2>7, <3>2
      <4>2. /\ spent[woundStore[u].line] = 0
            /\ \A p \in Players \ {u} : woundStore[p].line # woundStore[u].line
        BY <4>1 DEF SpentInv, StoredUnspent
      <4>3. woundStore'[x].line # woundStore[u].line
        BY <2>3, <2>5
      <4> QED
        BY <2>1, <2>3, <4>1, <4>2, <4>3
    <3> QED
      BY <3>1, <3>2
  <2> QED
    BY <2>6, <2>7 DEF StoredUnspent
<1> QED
  BY WoundSteps, <1>1, <1>2, <1>4, <1>5 DEF SpentInv

\* What the table of wounds is for: a Die() line is credited to its own attacker or
\* to one whose wound of that victim is stored and no older than WOUND_EXPIRY_MS when
\* the line's batch came, and one wound decides one death only, since parseDie takes
\* it out under the lock under which it found it.
THEOREM WoundsDecideDeaths == Spec => []WoundDecidesItsDeath
<1> DEFINE Inv == SpentInv /\ WoundsWere /\ CreditIsFresh
<1>1. Init => Inv
  <2> SUFFICES ASSUME Init PROVE Inv
    OBVIOUS
  <2>1. Numbers(<<>>) = {} /\ Distinct(<<>>)
    <3>1. 1..Len(<<>>) = {}
      OBVIOUS
    <3> QED
      BY <3>1 DEF Numbers, Distinct
  <2>2. \A t \in Threads : LinesOf(t) = <<>>
    BY DEF Init, NoJob, Batches, LinesOf
  <2>3. \A s \in Servers : feed[s] = <<>>
    BY DEF Init
  <2>4. LinesDiffer
    BY <2>1, <2>2, <2>3 DEF LinesDiffer
  <2>5. \A n : ~Placed(n)
    BY <2>1, <2>2, <2>3 DEF Placed
  <2>6. \A n \in LineIds : Untouched(n)
    BY DEF Init, Untouched, NoWound, LineIds
  <2>7. StoredUnspent /\ WoundSpentOnce /\ WoundsWere /\ CreditIsFresh
    BY DEF Init, StoredUnspent, WoundSpentOnce, WoundsWere, CreditIsFresh
  <2> QED
    BY InitTypes, <2>4, <2>5, <2>6, <2>7 DEF SpentInv, LinesUntouched
<1>2. Inv /\ [Next]_vars => Inv'
  BY TypeInvariance, LinesStep, UntouchedStep, SpentStep, CreditStep DEF SpentInv
<1>3. Inv => WoundDecidesItsDeath
  BY DEF SpentInv, WoundDecidesItsDeath
<1> HIDE DEF Inv
<1> QED
  BY <1>1, <1>2, <1>3, PTL DEF Spec
================================================================================

----------------------------- MODULE RconPoolProofs -----------------------------
(***************************************************************************)
(* Theorems about RconPool: how often a command is executed, and whose       *)
(* packets a reply is made of, for any number of threads, servers and calls. *)
(***************************************************************************)
EXTENDS RconPool, SequenceTheorems, TLAPS

--------------------------------------------------------------------------------
(* The strengthenings.                                                      *)

Ordinary(t) == job[t].op \in {"send", "test"}

\* What the thread that holds poolMtx_ is about to do fits its operation.
Stage(t) ==
    \/ phase = "lookup" /\ ~fresh /\ todo = {} /\ got = <<>>
    \/ phase = "connect" /\ Ordinary(t) /\ ~fresh /\ todo = {} /\ got = <<>>
    \/ phase \in {"auth", "command", "end", "read"} /\ Ordinary(t) /\ todo = {}
    \/ phase = "ping" /\ Pinging(t) /\ ~fresh /\ got = <<>>
    \/ phase \in {"command", "end", "read"} /\ Pinging(t) /\ ~fresh /\ todo # {}

\* One thread holds poolMtx_, and the state of the I/O is its own.
Mutual ==
    /\ \A t \in Threads : pc[t] = "run" <=> mtx = t
    /\ mtx = NoThread => phase = "free" /\ ~fresh /\ todo = {} /\ got = <<>>
    /\ \A t \in Threads : pc[t] = "run" => Stage(t)

\* No two calls have one number.
Numbered ==
    /\ \A t \in Threads : pc[t] # "idle" => job[t].n <= calls
    /\ \A t, u \in Threads : pc[t] # "idle" /\ pc[u] # "idle" /\ t # u => job[t].n # job[u].n

\* The replies, and the one under way, are made of the packets of their call.
RepliesOwn ==
    /\ ReplyIsOwn
    /\ \A t \in Threads : pc[t] = "run" => \A i \in 1..Len(got) : got[i] = job[t].n

\* The command of call n is on its way to server s.
Live(s, n) ==
    \E i \in 1..Len(conn[s].requests) : conn[s].requests[i].call = n /\ conn[s].requests[i].run

Pending(n) == \E s \in Servers : Live(s, n)

\* The times it was executed, or may still be.
Spent(n) == runs[n] + orphans[n] + (IF Pending(n) THEN 1 ELSE 0)

\* It is on its way once.
LiveOnce ==
    \A n \in CallIds, s, u \in Servers :
        \A i \in 1..Len(conn[s].requests), j \in 1..Len(conn[u].requests) :
            /\ conn[s].requests[i].call = n /\ conn[s].requests[i].run
            /\ conn[u].requests[j].call = n /\ conn[u].requests[j].run
            => s = u /\ i = j

\* How often an operation may have sent its command by now: in a first attempt
\* that failed, and in this one.
Allowance(t) ==
    IF Ordinary(t)
    THEN (IF fresh \/ phase \in {"connect", "auth"} THEN 1 ELSE 0)
         + (IF phase \in {"end", "read"} THEN 1 ELSE 0)
    ELSE 0

\* No command is executed more often than its call has sent it, and none is
\* sent before its call has the pool; a call does not send its command while it
\* is still on its way, and sends it to its own server.
Bounded == \A n \in CallIds : Spent(n) <= 2 /\ (n > calls => Spent(n) = 0)
Unsent == \A t \in Threads : pc[t] = "wait" => Spent(job[t].n) = 0
WithinBudget(t) ==
    /\ Spent(job[t].n) <= Allowance(t)
    /\ phase \in {"connect", "auth", "command"} => ~Pending(job[t].n)
    /\ \A s \in Servers \ {job[t].server} : ~Live(s, job[t].n)

Budget == Bounded /\ Unsent /\ \A t \in Threads : pc[t] = "run" => WithinBudget(t)

\* The connection an operation uses.
InUse(t, s) ==
    pc[t] = "run" /\ phase \in {"auth", "command", "end", "read"} /\ s = Target(t)
Used(s) == \E t \in Threads : InUse(t, s)

Quiet(s) == conn[s].packets = <<>> /\ conn[s].requests = <<>>

\* Nothing on the way ends a reply.
NoEnd(s) ==
    /\ \A i \in 1..Len(conn[s].packets) : ~conn[s].packets[i].end
    /\ \A i \in 1..Len(conn[s].requests) : ~conn[s].requests[i].end

\* What ends a reply is the last thing on the way.
EndsLast(s) ==
    /\ \A i \in 1..Len(conn[s].packets) : conn[s].packets[i].end =>
        i = Len(conn[s].packets) /\ conn[s].requests = <<>>
    /\ \A i \in 1..Len(conn[s].requests) : conn[s].requests[i].end =>
        i = Len(conn[s].requests) /\ conn[s].requests[i].left = 1

\* A connection nobody uses is quiet, and one in use is as far as its operation.
StreamOk(s) ==
    /\ client[s] = "connected" /\ ~Used(s) => Quiet(s)
    /\ Used(s) /\ phase \in {"auth", "command"} => Quiet(s)
    /\ Used(s) /\ phase = "end" => NoEnd(s)
    /\ Used(s) /\ phase = "read" => EndsLast(s)

StreamSound == \A s \in Servers : ~conn[s].cut => StreamOk(s)

--------------------------------------------------------------------------------
(* The steps of the thread that holds poolMtx_, one by one.                  *)

Same == UNCHANGED <<client, conn, orphans>>
IoSame == UNCHANGED <<fresh, todo, got, reads>>
Using == phase \in {"auth", "command", "end", "read"}

\* send finds a connection, or has to make one; test always makes one.
UsesClient(t) ==
    /\ phase = "lookup" /\ job[t].op = "send" /\ client[job[t].server] = "connected"
    /\ Continue("command") /\ Same /\ IoSame
NeedsClient(t) ==
    /\ phase = "lookup" /\ job[t].op = "send" /\ Continue("connect") /\ Same /\ IoSame
StartsAfresh(t) ==
    /\ phase = "lookup" /\ job[t].op = "test"
    /\ Continue("connect") /\ Erase(job[t].server) /\ IoSame

\* remove is done with the first look, healthCheck has its list.
Removes(t) == phase = "lookup" /\ Return(t, <<>>) /\ Erase(job[t].server)
PingsAll(t) ==
    /\ phase = "lookup" /\ Pinging(t) /\ Continue("ping") /\ Same
    /\ todo' \subseteq Servers /\ UNCHANGED <<fresh, got, reads>>

\* No connection, or every server pinged.
GivesUp(t) == phase \in {"connect", "ping"} /\ Return(t, <<>>) /\ Same
Opens(t) ==
    /\ phase = "connect"
    /\ \E partial \in BOOLEAN :
         conn' = [conn EXCEPT ![job[t].server] = [NewConn EXCEPT !.partial = partial]]
    /\ orphans' = Orphaned(job[t].server)
    /\ Continue("auth") /\ UNCHANGED client /\ IoSame

\* The password is accepted, or not.
Accepted(t) ==
    /\ phase = "auth"
    /\ client' = [client EXCEPT ![job[t].server] = "connected"] /\ UNCHANGED <<conn, orphans>>
    /\ fresh' = TRUE /\ Continue("command") /\ UNCHANGED <<todo, got, reads>>
Rejected(t) ==
    /\ phase = "auth" /\ Return(t, <<>>) /\ Close(job[t].server) /\ UNCHANGED client

PingsOne(t) ==
    /\ phase = "ping" /\ todo # {} /\ client[Target(t)] = "connected"
    /\ Continue("command") /\ Same /\ IoSame
PingFails(t) ==
    /\ Pinging(t) /\ (phase = "ping" \/ Using) /\ todo # {}
    /\ NextPing(t, FALSE)

\* A command that fails is tried again, or is over.
Retries(t) ==
    /\ Using /\ job[t].op = "send" /\ ~fresh
    /\ Erase(job[t].server) /\ got' = <<>> /\ reads' = 0
    /\ Continue("connect") /\ UNCHANGED <<fresh, todo>>
Fails(t) ==
    /\ Using /\ Ordinary(t)
    /\ (Return(t, <<>>) \/ Return(t, got))
    /\ client' = [client EXCEPT ![job[t].server] = "dead"] /\ UNCHANGED <<conn, orphans>>

\* A packet that is sent joins the stream of its connection, or is lost.
Joins(s, r) ==
    /\ conn[s].open /\ conn' = [conn EXCEPT ![s].requests = Append(@, r)]
    /\ UNCHANGED <<client, orphans>>
CommandSent(t) ==
    /\ phase = "command" /\ Continue("end") /\ IoSame
    /\ \E r \in Requests(job[t].n, FALSE, ~Pinging(t)) : Joins(Target(t), r)
EndSent(t) ==
    /\ phase = "end" /\ Continue("read") /\ IoSame
    /\ \E r \in Requests(job[t].n, TRUE, FALSE) : Joins(Target(t), r)
PacketLost(t) ==
    /\ \/ phase = "command" /\ Continue("end")
       \/ phase = "end" /\ Continue("read")
    /\ ~conn[Target(t)].open /\ Same /\ IoSame

\* A packet is taken from the connection; stop: the reply is cut off with it.
Takes(s, stop) ==
    /\ conn[s].packets # <<>> /\ orphans' = orphans
    /\ conn' = [conn EXCEPT ![s].packets = Tail(@), ![s].cut = @ \/ stop]
EndsReply(t) == Head(conn[Target(t)].packets).call = job[t].n /\ Head(conn[Target(t)].packets).end
WithHead(t) ==
    LET p == Head(conn[Target(t)].packets)
    IN  IF OwnPacket(p, job[t].n) THEN Append(got, p.call) ELSE got
PingAnswered(t) ==
    /\ phase = "read" /\ Pinging(t) /\ Takes(Target(t), ~EndsReply(t))
    /\ todo' = todo \ {Target(t)} /\ got' = <<>> /\ reads' = 0
    /\ Continue("ping") /\ UNCHANGED <<client, fresh>>
Answered(t) ==
    /\ phase = "read" /\ Ordinary(t) /\ Takes(Target(t), ~EndsReply(t))
    /\ Return(t, WithHead(t)) /\ client' = [client EXCEPT ![Target(t)] = "connected"]
ReadsOn(t) ==
    /\ phase = "read" /\ ~EndsReply(t) /\ Takes(Target(t), FALSE)
    /\ got' = WithHead(t) /\ reads' = reads + 1
    /\ UNCHANGED <<pc, job, mtx, phase, client, fresh, todo, replies>>

HolderStep(t) ==
    \/ UsesClient(t) \/ NeedsClient(t) \/ StartsAfresh(t) \/ Removes(t) \/ PingsAll(t)
    \/ GivesUp(t) \/ Opens(t) \/ Accepted(t) \/ Rejected(t)
    \/ PingsOne(t) \/ PingFails(t) \/ Retries(t) \/ Fails(t)
    \/ CommandSent(t) \/ EndSent(t) \/ PacketLost(t)
    \/ PingAnswered(t) \/ Answered(t) \/ ReadsOn(t)

\* What is known of the thread that holds poolMtx_ and of its operation.
LEMMA HolderFacts ==
  ASSUME TypeOK, Mutual, NEW t \in Threads, pc[t] = "run"
  PROVE  /\ mtx = t /\ mtx # NoThread /\ Stage(t)
         /\ \A u \in Threads \ {t} : pc[u] # "run"
         /\ job[t] \in Jobs /\ job[t] # NoJob
         /\ job[t].op \in Ops /\ job[t].op \in AllOps /\ job[t].server \in Servers
         /\ job[t].n \in CallIds
         /\ Using => Target(t) \in Servers /\ (Ordinary(t) => Target(t) = job[t].server)
         /\ todo # {} => (CHOOSE s \in todo : TRUE) \in todo
         /\ Ordinary(t) <=> ~Pinging(t) /\ job[t].op # "remove"
<1>1. mtx = t /\ Stage(t) /\ \A u \in Threads \ {t} : pc[u] # "run"
  BY DEF Mutual
<1>2. mtx # NoThread
  BY <1>1, RconAssumption
<1>3. job[t] \in Jobs /\ job[t] # NoJob
  BY DEF TypeOK, ControlTyped
<1>4. job[t].op \in Ops /\ job[t].op \in AllOps /\ job[t].server \in Servers /\ job[t].n \in CallIds
  BY <1>3, RconAssumption DEF Jobs
<1>5. todo # {} => (CHOOSE s \in todo : TRUE) \in todo
  OBVIOUS
<1>6. Ordinary(t) <=> ~Pinging(t) /\ job[t].op # "remove"
  BY <1>4 DEF Ordinary, Pinging, AllOps
<1>7. Using => Target(t) \in Servers /\ (Ordinary(t) => Target(t) = job[t].server)
  <2> SUFFICES ASSUME Using PROVE Target(t) \in Servers /\ (Ordinary(t) => Target(t) = job[t].server)
    OBVIOUS
  <2>1. Ordinary(t) \/ (Pinging(t) /\ todo # {})
    BY <1>1 DEF Stage, Using
  <2>2. CASE Ordinary(t)
    BY <1>4, <1>6, <2>2 DEF Target, Pinging
  <2>3. CASE Pinging(t) /\ todo # {}
    BY <1>5, <1>6, <2>3 DEF Target, Pinging, TypeOK, ControlTyped
  <2> QED
    BY <2>1, <2>2, <2>3
<1> QED
  BY <1>1, <1>2, <1>3, <1>4, <1>5, <1>6, <1>7

LEMMA FinishCases ==
  ASSUME TypeOK, Mutual, NEW t \in Threads, pc[t] = "run", Using, NEW reply,
         reply = <<>> \/ reply = got, Finish(t, reply, FALSE)
  PROVE  PingFails(t) \/ Retries(t) \/ Fails(t)
<1>1. Ordinary(t) \/ (Pinging(t) /\ todo # {})
  BY HolderFacts DEF Stage, Using
<1>2. CASE Pinging(t) /\ todo # {}
  <2>1. NextPing(t, FALSE)
    BY <1>2 DEF Finish
  <2> QED
    BY <1>2, <2>1 DEF PingFails
<1>3. CASE Ordinary(t)
  <2>1. ~Pinging(t) /\ Target(t) = job[t].server
    BY <1>3, HolderFacts
  <2>2. CASE job[t].op = "send" /\ reply = <<>> /\ ~fresh
    <3>1. /\ Erase(job[t].server) /\ got' = <<>> /\ reads' = 0
          /\ Continue("connect") /\ UNCHANGED <<fresh, todo>>
      BY <2>1, <2>2 DEF Finish
    <3> QED
      BY <2>2, <3>1 DEF Retries
  <2>3. CASE ~(job[t].op = "send" /\ reply = <<>> /\ ~fresh)
    <3>1. /\ Return(t, reply)
          /\ client' = [client EXCEPT ![job[t].server] = "dead"] /\ UNCHANGED <<conn, orphans>>
      BY <2>1, <2>3 DEF Finish
    <3> QED
      BY <1>3, <3>1 DEF Fails
  <2> QED
    BY <2>2, <2>3
<1> QED
  BY <1>1, <1>2, <1>3

LEMMA SendCases ==
  ASSUME TypeOK, Mutual, NEW t \in Threads, pc[t] = "run", SendCommand(t) \/ SendEnd(t)
  PROVE  (CommandSent(t) \/ EndSent(t) \/ PacketLost(t) \/ PingFails(t) \/ Retries(t) \/ Fails(t))
         /\ UNCHANGED <<runs, calls>>
<1>1. ASSUME NEW now, NEW next, NEW requests, SendPacket(t, now, next, requests)
      PROVE  /\ UNCHANGED <<runs, calls>> /\ phase = now
             /\ \/ /\ \E r \in requests : Joins(Target(t), r)
                   /\ Continue(next) /\ IoSame
                \/ ~conn[Target(t)].open /\ Continue(next) /\ Same /\ IoSame
                \/ Finish(t, <<>>, FALSE)
  BY <1>1 DEF SendPacket, Joins, Same, IoSame
<1>2. CASE SendCommand(t)
  <2>1. /\ UNCHANGED <<runs, calls>> /\ phase = "command"
        /\ \/ /\ \E r \in Requests(job[t].n, FALSE, ~Pinging(t)) : Joins(Target(t), r)
              /\ Continue("end") /\ IoSame
           \/ ~conn[Target(t)].open /\ Continue("end") /\ Same /\ IoSame
           \/ Finish(t, <<>>, FALSE)
    BY <1>1, <1>2 DEF SendCommand
  <2>2. Finish(t, <<>>, FALSE) => PingFails(t) \/ Retries(t) \/ Fails(t)
    BY <2>1, FinishCases DEF Using
  <2> QED
    BY <2>1, <2>2 DEF CommandSent, PacketLost
<1>3. CASE SendEnd(t)
  <2>1. /\ UNCHANGED <<runs, calls>> /\ phase = "end"
        /\ \/ /\ \E r \in Requests(job[t].n, TRUE, FALSE) : Joins(Target(t), r)
              /\ Continue("read") /\ IoSame
           \/ ~conn[Target(t)].open /\ Continue("read") /\ Same /\ IoSame
           \/ Finish(t, <<>>, FALSE)
    BY <1>1, <1>3 DEF SendEnd
  <2>2. Finish(t, <<>>, FALSE) => PingFails(t) \/ Retries(t) \/ Fails(t)
    BY <2>1, FinishCases DEF Using
  <2> QED
    BY <2>1, <2>2 DEF EndSent, PacketLost
<1> QED
  BY <1>2, <1>3

LEMMA ReadCases ==
  ASSUME TypeOK, Mutual, NEW t \in Threads, pc[t] = "run", ReadPacket(t)
  PROVE  (PingAnswered(t) \/ Answered(t) \/ ReadsOn(t)) /\ UNCHANGED <<runs, calls>>
<1> DEFINE s == Target(t)
           ends == EndsReply(t)
           capped == reads + 1 = IF Pinging(t) THEN PingCap ELSE PacketCap
<1>1. /\ phase = "read" /\ conn[s].packets # <<>> /\ UNCHANGED <<orphans, runs, calls>>
      /\ conn' = [conn EXCEPT ![s].packets = Tail(@), ![s].cut = @ \/ (capped /\ ~ends)]
      /\ IF ends \/ capped
         THEN IF Pinging(t)
              THEN /\ todo' = todo \ {s} /\ got' = <<>> /\ reads' = 0
                   /\ Continue("ping")
                   /\ UNCHANGED <<client, fresh>>
              ELSE /\ Return(t, WithHead(t))
                   /\ client' = [client EXCEPT ![s] = "connected"]
         ELSE /\ got' = WithHead(t) /\ reads' = reads + 1
              /\ UNCHANGED <<pc, job, mtx, phase, client, fresh, todo, replies>>
  BY DEF ReadPacket, EndsReply, WithHead
<1>2. Ordinary(t) \/ Pinging(t)
  BY <1>1, HolderFacts DEF Stage
<1>3. ends \in BOOLEAN /\ capped \in BOOLEAN
  BY DEF EndsReply
<1>4. s = Target(t) /\ (ends <=> EndsReply(t))
  OBVIOUS
<1> HIDE DEF ends, capped, s
<1>5. CASE ends \/ capped
  <2>1. (capped /\ ~ends) = ~ends
    BY <1>3, <1>5
  <2>2. Takes(s, ~EndsReply(t))
    <3>1. /\ conn[s].packets # <<>> /\ orphans' = orphans
          /\ conn' = [conn EXCEPT ![s].packets = Tail(@), ![s].cut = @ \/ ~ends]
      BY <1>1, <2>1
    <3>2. ends = EndsReply(t)
      BY DEF ends
    <3> QED
      BY <3>1, <3>2 DEF Takes
  <2>3. CASE Pinging(t)
    BY <1>1, <1>4, <1>5, <2>2, <2>3 DEF PingAnswered
  <2>4. CASE ~Pinging(t)
    BY <1>1, <1>2, <1>4, <1>5, <2>2, <2>4 DEF Answered
  <2> QED
    BY <1>1, <2>3, <2>4
<1>6. CASE ~(ends \/ capped)
  <2>1. (capped /\ ~ends) = FALSE
    BY <1>6
  <2>2. Takes(s, FALSE)
    BY <1>1, <2>1 DEF Takes
  <2> QED
    BY <1>1, <1>4, <1>6, <2>2 DEF ReadsOn
<1> QED
  BY <1>5, <1>6

LEMMA LookupCases ==
  ASSUME TypeOK, Mutual, NEW t \in Threads, pc[t] = "run", Lookup(t)
  PROVE  /\ UsesClient(t) \/ NeedsClient(t) \/ StartsAfresh(t) \/ Removes(t) \/ PingsAll(t)
         /\ UNCHANGED <<runs, calls>>
<1>1. job[t].op \in {"send", "test", "remove", "health"} /\ phase = "lookup"
      /\ UNCHANGED <<runs, calls>>
  BY HolderFacts DEF AllOps, Lookup
<1>2. CASE job[t].op = "send"
  <2>1. /\ Continue(IF client[job[t].server] = "connected" THEN "command" ELSE "connect")
        /\ UNCHANGED <<client, conn, orphans, fresh, todo, got, reads>>
    BY <1>2 DEF Lookup
  <2> QED
    BY <1>1, <1>2, <2>1 DEF UsesClient, NeedsClient, Same, IoSame
<1>3. CASE job[t].op = "test"
  <2>1. Continue("connect") /\ Erase(job[t].server) /\ UNCHANGED <<fresh, todo, got, reads>>
    BY <1>3 DEF Lookup
  <2> QED
    BY <1>1, <1>3, <2>1 DEF StartsAfresh, IoSame
<1>4. CASE job[t].op = "remove"
  <2>1. Return(t, <<>>) /\ Erase(job[t].server)
    BY <1>4 DEF Lookup
  <2> QED
    BY <1>1, <2>1 DEF Removes
<1>5. CASE job[t].op = "health"
  <2>1. /\ Continue("ping") /\ todo' = {x \in Servers : client[x] # "none"}
        /\ UNCHANGED <<client, conn, orphans, fresh, got, reads>>
    BY <1>5 DEF Lookup
  <2> QED
    BY <1>1, <1>5, <2>1 DEF PingsAll, Pinging, Same
<1> QED
  BY <1>1, <1>2, <1>3, <1>4, <1>5

\* Every step of the holder is one of those.
LEMMA HoldingCases ==
  ASSUME TypeOK, Mutual, NEW t \in Threads, Holding(t)
  PROVE  pc[t] = "run" /\ HolderStep(t) /\ UNCHANGED <<runs, calls>>
<1>1. pc[t] = "run"
  BY DEF Holding
<1>2. CASE Lookup(t)
  BY <1>1, <1>2, LookupCases DEF HolderStep
<1>3. CASE Connect(t)
  BY <1>1, <1>3 DEF Connect, HolderStep, GivesUp, Opens, Same, IoSame
<1>8. CASE Authenticate(t)
  BY <1>1, <1>8 DEF Authenticate, HolderStep, Accepted, Rejected
<1>4. CASE Ping(t)
  <2>1. phase = "ping" /\ UNCHANGED <<runs, calls>> /\ Pinging(t)
    BY <1>1, <1>4, HolderFacts DEF Ping, Stage
  <2> QED
    BY <1>1, <1>4, <2>1 DEF Ping, HolderStep, GivesUp, PingsOne, PingFails, Same, IoSame
<1>5. CASE SendCommand(t) \/ SendEnd(t)
  BY <1>1, <1>5, SendCases DEF HolderStep
<1>6. CASE ReadPacket(t)
  BY <1>1, <1>6, ReadCases DEF HolderStep
<1>7. CASE ReadTimeout(t)
  <2>1. Finish(t, got, FALSE) /\ Using /\ UNCHANGED <<runs, calls>>
    BY <1>7 DEF ReadTimeout, Using
  <2> QED
    BY <1>1, <2>1, FinishCases DEF HolderStep
<1> QED
  BY <1>1, <1>2, <1>3, <1>4, <1>5, <1>6, <1>7, <1>8 DEF Holding

--------------------------------------------------------------------------------
(* Types, and that one thread holds poolMtx_.                               *)

\* The holder is done.
LEMMA ReturnControl ==
  ASSUME TypeOK, Mutual, NEW t \in Threads, pc[t] = "run", NEW reply \in Seq(CallIds),
         Return(t, reply), calls' = calls
  PROVE  /\ ControlTyped' /\ Mutual'
         /\ mtx' = NoThread /\ pc'[t] = "idle" /\ replies' = [replies EXCEPT ![job[t].n] = reply]
         /\ \A u \in Threads \ {t} : pc'[u] = pc[u] /\ job'[u] = job[u] /\ pc'[u] # "run"
<1>1. /\ pc' = [pc EXCEPT ![t] = "idle"] /\ job' = [job EXCEPT ![t] = NoJob]
      /\ replies' = [replies EXCEPT ![job[t].n] = reply] /\ mtx' = NoThread
      /\ phase' = "free" /\ fresh' = FALSE /\ todo' = {} /\ got' = <<>> /\ reads' = 0
  BY DEF Return
<1>2. job[t].n \in CallIds /\ \A u \in Threads \ {t} : pc[u] # "run"
  BY HolderFacts
<1>3. pc'[t] = "idle" /\ job'[t] = NoJob
      /\ \A u \in Threads \ {t} : pc'[u] = pc[u] /\ job'[u] = job[u]
  BY <1>1 DEF TypeOK, ControlTyped
<1>4. pc' \in [Threads -> {"idle", "wait", "run"}] /\ job' \in [Threads -> {NoJob} \cup Jobs]
  BY <1>1 DEF TypeOK, ControlTyped
<1>5. \A u \in Threads : pc'[u] = "idle" <=> job'[u] = NoJob
  BY <1>3 DEF TypeOK, ControlTyped
<1>6. replies' \in [CallIds -> Seq(CallIds)]
  BY <1>1, <1>2 DEF TypeOK, ControlTyped
<1>7. ControlTyped'
  <2>1. mtx' \in Threads \cup {NoThread} /\ calls' \in 0..MaxCalls
    BY <1>1 DEF TypeOK, ControlTyped
  <2>2. /\ phase' \in {"free", "lookup", "connect", "auth", "ping", "command", "end", "read"}
        /\ fresh' \in BOOLEAN /\ todo' \subseteq Servers
    BY <1>1
  <2>3. got' \in Seq(CallIds) /\ reads' \in Nat
    BY <1>1
  <2> QED
    BY <1>4, <1>5, <1>6, <2>1, <2>2, <2>3 DEF ControlTyped
<1>8. \A u \in Threads : pc'[u] # "run"
  BY <1>2, <1>3
<1>9. \A u \in Threads : mtx' # u
  BY <1>1, RconAssumption
<1>10. Mutual'
  BY <1>1, <1>8, <1>9 DEF Mutual
<1> QED
  BY <1>1, <1>3, <1>7, <1>8, <1>10

\* The holder goes on.
LEMMA GoControl ==
  ASSUME TypeOK, Mutual, NEW t \in Threads, pc[t] = "run",
         UNCHANGED <<pc, job, mtx, replies, calls>>,
         phase' \in {"lookup", "connect", "auth", "ping", "command", "end", "read"}, fresh' \in BOOLEAN,
         todo' \subseteq Servers, got' \in Seq(CallIds), reads' \in Nat, Stage(t)'
  PROVE  ControlTyped' /\ Mutual'
<1>1. ControlTyped'
  BY DEF TypeOK, ControlTyped
<1>2. mtx = t /\ mtx # NoThread /\ \A u \in Threads \ {t} : pc[u] # "run"
  BY HolderFacts
<1>3. Mutual'
  BY <1>2 DEF Mutual
<1> QED
  BY <1>1, <1>3

\* The packet at the head is typed, and so is the reply with it.
LEMMA WithHeadTyped ==
  ASSUME TypeOK, Mutual, NEW t \in Threads, pc[t] = "run", Using,
         conn[Target(t)].packets # <<>>
  PROVE  WithHead(t) \in Seq(CallIds)
<1>1. conn[Target(t)].packets \in Seq(Packets) /\ got \in Seq(CallIds)
  BY HolderFacts DEF TypeOK, ControlTyped, StoreTyped, Conns
<1>2. Head(conn[Target(t)].packets) \in Packets
  BY <1>1, HeadTailProperties
<1>3. Head(conn[Target(t)].packets).call \in CallIds
  BY <1>2 DEF Packets
<1>4. Append(got, Head(conn[Target(t)].packets).call) \in Seq(CallIds)
  BY <1>1, <1>3, AppendProperties
<1> QED
  <2> DEFINE p == Head(conn[Target(t)].packets)
  <2>1. WithHead(t) = IF OwnPacket(p, job[t].n) THEN Append(got, p.call) ELSE got
    BY DEF WithHead
  <2>2. Append(got, p.call) \in Seq(CallIds)
    BY <1>4
  <2>3. got \in Seq(CallIds)
    BY <1>1
  <2> HIDE DEF p
  <2>4. CASE OwnPacket(p, job[t].n)
    BY <2>1, <2>2, <2>4
  <2>5. CASE ~OwnPacket(p, job[t].n)
    BY <2>1, <2>3, <2>5
  <2> QED
    BY <2>4, <2>5

LEMMA HolderControl ==
  ASSUME TypeOK, Mutual, NEW t \in Threads, pc[t] = "run", HolderStep(t), calls' = calls
  PROVE  ControlTyped' /\ Mutual'
<1>1. /\ fresh \in BOOLEAN /\ todo \subseteq Servers /\ got \in Seq(CallIds) /\ reads \in Nat
      /\ <<>> \in Seq(CallIds) /\ 0 \in Nat /\ Stage(t)
  <2>1. Stage(t)
    BY HolderFacts
  <2>2. fresh \in BOOLEAN /\ todo \subseteq Servers /\ got \in Seq(CallIds) /\ reads \in Nat
    BY DEF TypeOK, ControlTyped
  <2>3. <<>> \in Seq(CallIds) /\ 0 \in Nat
    OBVIOUS
  <2> QED
    BY <2>1, <2>2, <2>3
<1>2. CASE UsesClient(t)
  <2>1. Stage(t)'
    BY <1>1, <1>2 DEF UsesClient, Continue, IoSame, Stage, Ordinary
  <2> QED
    BY <1>1, <1>2, <2>1, GoControl DEF UsesClient, Continue, IoSame
<1>3. CASE NeedsClient(t)
  <2>1. Stage(t)'
    BY <1>1, <1>3 DEF NeedsClient, Continue, IoSame, Stage, Ordinary
  <2> QED
    BY <1>1, <1>3, <2>1, GoControl DEF NeedsClient, Continue, IoSame
<1>4. CASE StartsAfresh(t)
  <2>1. Stage(t)'
    BY <1>1, <1>4 DEF StartsAfresh, Continue, IoSame, Stage, Ordinary
  <2> QED
    BY <1>1, <1>4, <2>1, GoControl DEF StartsAfresh, Continue, IoSame
<1>5. CASE Removes(t)
  BY <1>1, <1>5, ReturnControl DEF Removes
<1>6. CASE PingsAll(t)
  <2>1. Stage(t)'
    BY <1>1, <1>6 DEF PingsAll, Continue, Stage, Pinging
  <2> QED
    BY <1>1, <1>6, <2>1, GoControl DEF PingsAll, Continue
<1>7. CASE GivesUp(t)
  BY <1>1, <1>7, ReturnControl DEF GivesUp
<1>8. CASE Opens(t)
  <2>1. Stage(t)'
    BY <1>1, <1>8 DEF Opens, Continue, IoSame, Stage, Ordinary
  <2> QED
    BY <1>1, <1>8, <2>1, GoControl DEF Opens, Continue, IoSame
<1>17. CASE Accepted(t)
  <2>1. Stage(t)'
    BY <1>1, <1>17 DEF Accepted, Continue, Stage, Ordinary
  <2> QED
    BY <1>1, <1>17, <2>1, GoControl DEF Accepted, Continue
<1>18. CASE Rejected(t)
  BY <1>1, <1>18, ReturnControl DEF Rejected
<1>9. CASE PingsOne(t)
  <2>1. Stage(t)'
    BY <1>1, <1>9 DEF PingsOne, Continue, IoSame, Stage, Pinging
  <2> QED
    BY <1>1, <1>9, <2>1, GoControl DEF PingsOne, Continue, IoSame
<1>10. CASE PingFails(t)
  <2>1. /\ Continue("ping") /\ todo' \subseteq Servers /\ got' = <<>> /\ reads' = 0 /\ fresh' = fresh
        /\ Pinging(t) /\ ~fresh
    <3>1. Pinging(t) /\ ~fresh
      BY <1>1, <1>10, HolderFacts DEF PingFails, Stage, Using
    <3> QED
      BY <1>1, <1>10, <3>1 DEF PingFails, NextPing
  <2>2. Stage(t)'
    BY <2>1 DEF Continue, Stage, Pinging
  <2> QED
    BY <1>1, <2>1, <2>2, GoControl DEF Continue
<1>11. CASE Retries(t)
  <2>1. todo = {}
    BY <1>1, <1>11 DEF Retries, Stage, Using, Pinging
  <2>2. Stage(t)'
    BY <1>11, <2>1 DEF Retries, Continue, Stage, Ordinary
  <2> QED
    BY <1>1, <1>11, <2>2, GoControl DEF Retries, Continue
<1>12. CASE Fails(t)
  BY <1>1, <1>12, ReturnControl DEF Fails
<1>13. CASE CommandSent(t) \/ EndSent(t) \/ PacketLost(t)
  <2>1. /\ Using /\ phase' \in {"end", "read"}
        /\ UNCHANGED <<pc, job, mtx, replies, fresh, todo, got, reads>>
    BY <1>13 DEF CommandSent, EndSent, PacketLost, Using, Continue, IoSame
  <2>2. Stage(t)'
    BY <1>1, <2>1 DEF Stage, Using, Ordinary, Pinging
  <2> QED
    BY <1>1, <2>1, <2>2, GoControl
<1>14. CASE PingAnswered(t)
  <2>1. ~fresh
    BY <1>1, <1>14, HolderFacts DEF PingAnswered, Stage
  <2>2. Stage(t)'
    BY <1>14, <2>1 DEF PingAnswered, Continue, Stage, Pinging
  <2> QED
    BY <1>1, <1>14, <2>2, GoControl DEF PingAnswered, Continue
<1>15. CASE Answered(t)
  <2>1. WithHead(t) \in Seq(CallIds)
    BY <1>15, WithHeadTyped DEF Answered, Takes, Using
  <2> QED
    BY <1>15, <2>1, ReturnControl DEF Answered
<1>16. CASE ReadsOn(t)
  <2>1. WithHead(t) \in Seq(CallIds)
    BY <1>16, WithHeadTyped DEF ReadsOn, Takes, Using
  <2>2. reads' \in Nat /\ phase = "read"
    BY <1>1, <1>16 DEF ReadsOn
  <2>3. Stage(t)'
    BY <1>1, <1>16, <2>2 DEF ReadsOn, Stage, Ordinary, Pinging
  <2> QED
    BY <1>1, <1>16, <2>1, <2>2, <2>3, GoControl DEF ReadsOn
<1> QED
  BY <1>2, <1>3, <1>4, <1>5, <1>6, <1>7, <1>8, <1>9, <1>10, <1>11, <1>12, <1>13, <1>14, <1>15,
     <1>16, <1>17, <1>18 DEF HolderStep

\* What closing a connection leaves to the network.
LEMMA OrphanedIs ==
  ASSUME TypeOK, NEW s \in Servers
  PROVE  /\ Orphaned(s) \in [CallIds -> Nat]
         /\ \A n \in CallIds : Orphaned(s)[n] = IF Live(s, n) THEN orphans[n] + 1 ELSE orphans[n]
<1>1. conn[s].requests \in Seq(Commands) /\ orphans \in [CallIds -> Nat]
  BY DEF TypeOK, StoreTyped, Conns
<1>2. DOMAIN conn[s].requests = 1..Len(conn[s].requests)
  BY <1>1
<1>3. \A n \in CallIds : n \in Abandoned(s) <=> Live(s, n)
  BY <1>2 DEF Abandoned, ToSet, Live
<1>4. Orphaned(s) = [n \in CallIds |-> IF n \in Abandoned(s) THEN orphans[n] + 1 ELSE orphans[n]]
  BY DEF Orphaned
<1>5. \A n \in CallIds : orphans[n] \in Nat /\ orphans[n] + 1 \in Nat
  BY <1>1
<1> HIDE DEF Live
<1> QED
  BY <1>3, <1>4, <1>5

LEMMA ConnTyped ==
  ASSUME TypeOK, NEW s \in Servers, NEW c \in Conns, conn' = [conn EXCEPT ![s] = c],
         client' \in [Servers -> {"none", "connected", "dead"}],
         orphans' = orphans \/ orphans' = Orphaned(s), runs' \in [CallIds -> Nat]
  PROVE  StoreTyped'
<1>1. conn' \in [Servers -> Conns]
  BY DEF TypeOK, StoreTyped
<1>2. orphans' \in [CallIds -> Nat]
  BY OrphanedIs DEF TypeOK, StoreTyped
<1> QED
  BY <1>1, <1>2 DEF StoreTyped

LEMMA NewConnsTyped ==
  /\ NoConn \in Conns /\ NoConn.requests = <<>>
  /\ \A b \in BOOLEAN :
       LET c == [NewConn EXCEPT !.partial = b]
       IN  c \in Conns /\ c.requests = <<>> /\ c.packets = <<>>
<1>1. <<>> \in Seq(Commands) /\ <<>> \in Seq(Packets)
  OBVIOUS
<1> QED
  BY <1>1 DEF NoConn, NewConn, Conns

\* No two requests that may run are of the same call.
LEMMA OneOfCall ==
  ASSUME LiveOnce, NEW n \in CallIds, NEW s \in Servers, NEW u \in Servers,
         NEW i \in 1..Len(conn[s].requests), NEW j \in 1..Len(conn[u].requests),
         conn[s].requests[i].call = n, conn[s].requests[i].run,
         conn[u].requests[j].call = n, conn[u].requests[j].run
  PROVE  s = u /\ i = j
  BY DEF LiveOnce

LEMMA RequestsTyped ==
  ASSUME TypeOK, NEW n \in CallIds, NEW end \in BOOLEAN, NEW run \in BOOLEAN,
         NEW r \in Requests(n, end, run)
  PROVE  r \in Commands /\ r.call = n /\ r.end = end /\ r.run = run /\ (end => r.left = 1)
<1>1. (IF end THEN {1} ELSE ReplyLens) \subseteq Nat \ {0}
  BY RconAssumption
<1>2. PICK l \in IF end THEN {1} ELSE ReplyLens : r = [call |-> n, end |-> end, left |-> l, run |-> run]
  BY DEF Requests
<1>3. l \in Nat \ {0} /\ (end => l = 1)
  BY <1>1
<1> QED
  BY <1>2, <1>3 DEF Commands

LEMMA JoinsTyped ==
  ASSUME TypeOK, NEW s \in Servers, NEW r \in Commands, Joins(s, r), runs' = runs
  PROVE  StoreTyped'
<1>1. conn[s] \in Conns /\ conn[s].requests \in Seq(Commands)
  BY DEF TypeOK, StoreTyped, Conns
<1>2. Append(conn[s].requests, r) \in Seq(Commands)
  BY <1>1, AppendProperties
<1>3. [conn[s] EXCEPT !.requests = Append(@, r)] \in Conns
  BY <1>1, <1>2 DEF Conns
<1>4. conn' = [conn EXCEPT ![s] = [conn[s] EXCEPT !.requests = Append(@, r)]]
  BY DEF Joins
<1> QED
  BY <1>3, <1>4, ConnTyped DEF Joins, TypeOK, StoreTyped

LEMMA TakesTyped ==
  ASSUME TypeOK, NEW s \in Servers, NEW stop \in BOOLEAN, Takes(s, stop), runs' = runs,
         client' \in [Servers -> {"none", "connected", "dead"}]
  PROVE  StoreTyped'
<1>1. conn[s] \in Conns /\ conn[s].packets \in Seq(Packets) /\ conn[s].packets # <<>>
      /\ conn[s].cut \in BOOLEAN
  BY DEF TypeOK, StoreTyped, Conns, Takes
<1>2. Tail(conn[s].packets) \in Seq(Packets)
  BY <1>1, HeadTailProperties
<1>3. [conn[s] EXCEPT !.packets = Tail(@), !.cut = @ \/ stop] \in Conns
  BY <1>1, <1>2 DEF Conns
<1>4. conn' = [conn EXCEPT ![s] = [conn[s] EXCEPT !.packets = Tail(@), !.cut = @ \/ stop]]
  BY DEF Takes
<1> QED
  BY <1>3, <1>4, ConnTyped DEF Takes, TypeOK, StoreTyped

LEMMA HolderStore ==
  ASSUME TypeOK, Mutual, NEW t \in Threads, pc[t] = "run", HolderStep(t), runs' = runs
  PROVE  StoreTyped'
<1>1. /\ client \in [Servers -> {"none", "connected", "dead"}] /\ runs \in [CallIds -> Nat]
      /\ job[t].server \in Servers /\ job[t].n \in CallIds /\ (Using => Target(t) \in Servers)
  BY HolderFacts DEF TypeOK, StoreTyped
<1>2. ASSUME Same PROVE StoreTyped'
  BY <1>2 DEF Same, TypeOK, StoreTyped
<1>3. ASSUME NEW s \in Servers, Erase(s) PROVE StoreTyped'
  <2>1. conn' = [conn EXCEPT ![s] = NoConn] /\ orphans' = Orphaned(s)
        /\ client' = [client EXCEPT ![s] = "none"]
    BY <1>3 DEF Erase, Close
  <2> QED
    BY <1>1, <2>1, NewConnsTyped, ConnTyped
<1>4. CASE UsesClient(t) \/ NeedsClient(t) \/ PingsAll(t) \/ GivesUp(t) \/ PingsOne(t) \/ PacketLost(t)
  BY <1>2, <1>4 DEF UsesClient, NeedsClient, PingsAll, GivesUp, PingsOne, PacketLost
<1>5. CASE StartsAfresh(t) \/ Removes(t) \/ Retries(t)
  BY <1>1, <1>3, <1>5 DEF StartsAfresh, Removes, Retries
<1>6. CASE PingFails(t)
  <2>1. Target(t) \in Servers
    BY <1>6, HolderFacts DEF PingFails, Target, Pinging, TypeOK, ControlTyped
  <2>2. Erase(Target(t))
    BY <1>6 DEF PingFails, NextPing
  <2> QED
    BY <1>3, <2>1, <2>2
<1>7. CASE Opens(t)
  <2>1. PICK c \in Conns : conn' = [conn EXCEPT ![job[t].server] = c]
    BY <1>7, NewConnsTyped DEF Opens
  <2> QED
    BY <1>1, <1>7, <2>1, ConnTyped DEF Opens
<1>12. CASE Accepted(t)
  BY <1>1, <1>12 DEF Accepted, TypeOK, StoreTyped
<1>13. CASE Rejected(t)
  BY <1>1, <1>13, NewConnsTyped, ConnTyped DEF Rejected, Close
<1>8. CASE Fails(t)
  BY <1>1, <1>8 DEF Fails, TypeOK, StoreTyped
<1>9. CASE CommandSent(t)
  <2>1. PICK r \in Requests(job[t].n, FALSE, ~Pinging(t)) : Joins(Target(t), r)
    BY <1>9 DEF CommandSent
  <2>2. r \in Commands
    <3>1. (~Pinging(t)) \in BOOLEAN
      BY DEF Pinging
    <3> QED
      BY <1>1, <3>1, RequestsTyped
  <2>3. Target(t) \in Servers
    BY <1>1, <1>9 DEF CommandSent, Using
  <2> QED
    BY <2>1, <2>2, <2>3, JoinsTyped
<1>10. CASE EndSent(t)
  <2>1. PICK r \in Requests(job[t].n, TRUE, FALSE) : Joins(Target(t), r)
    BY <1>10 DEF EndSent
  <2>2. r \in Commands
    BY <1>1, RequestsTyped
  <2>3. Target(t) \in Servers
    BY <1>1, <1>10 DEF EndSent, Using
  <2> QED
    BY <2>1, <2>2, <2>3, JoinsTyped
<1>11. CASE PingAnswered(t) \/ Answered(t) \/ ReadsOn(t)
  <2>1. Using /\ Target(t) \in Servers
    BY <1>1, <1>11 DEF PingAnswered, Answered, ReadsOn, Using
  <2>2. PICK stop \in BOOLEAN : Takes(Target(t), stop)
    BY <1>11 DEF PingAnswered, Answered, ReadsOn, EndsReply
  <2>3. client' \in [Servers -> {"none", "connected", "dead"}]
    BY <1>1, <1>11, <2>1 DEF PingAnswered, Answered, ReadsOn
  <2> QED
    BY <2>1, <2>2, <2>3, TakesTyped
<1> QED
  BY <1>4, <1>5, <1>6, <1>7, <1>8, <1>9, <1>10, <1>11, <1>12, <1>13 DEF HolderStep

\* What one packet of a server changes: the packet joins the stream, and the
\* request it is for is gone, or has one packet less to come.
LEMMA ServeFacts ==
  ASSUME TypeOK, NEW s \in Servers, Serve(s)
  PROVE  \E c \in Conns, r \in Commands :
           /\ conn' = [conn EXCEPT ![s] = c] /\ c.cut = conn[s].cut
           /\ Len(conn[s].requests) > 0 /\ r = conn[s].requests[1]
           /\ runs' = IF r.run THEN [runs EXCEPT ![r.call] = @ + 1] ELSE runs
           /\ Len(c.packets) = Len(conn[s].packets) + 1
           /\ \A i \in 1..Len(conn[s].packets) : c.packets[i] = conn[s].packets[i]
           /\ c.packets[Len(c.packets)] = [call |-> r.call, end |-> r.end]
           /\ \/ /\ r.left = 1 /\ Len(c.requests) = Len(conn[s].requests) - 1
                 /\ \A i \in 1..Len(c.requests) : c.requests[i] = conn[s].requests[i + 1]
              \/ /\ r.left # 1 /\ Len(c.requests) = Len(conn[s].requests)
                 /\ ~c.requests[1].run /\ c.requests[1].end = r.end
                 /\ \A i \in 2..Len(c.requests) : c.requests[i] = conn[s].requests[i]
<1> DEFINE q == conn[s].requests
           p == conn[s].packets
           r == Head(q)
           less == [r EXCEPT !.left = r.left - 1, !.run = FALSE]
           answer == [call |-> r.call, end |-> r.end]
           rest == IF r.left = 1 THEN Tail(q) ELSE <<less>> \o Tail(q)
           c == [conn[s] EXCEPT !.packets = Append(p, answer), !.partial = FALSE,
                                !.requests = rest]
<1>1. conn[s] \in Conns /\ q \in Seq(Commands) /\ p \in Seq(Packets) /\ q # <<>>
  BY DEF TypeOK, StoreTyped, Conns, Serve
<1>2. r \in Commands /\ Tail(q) \in Seq(Commands) /\ Len(q) \in Nat \ {0} /\ r = q[1]
      /\ Len(Tail(q)) = Len(q) - 1 /\ \A i \in 1..Len(Tail(q)) : Tail(q)[i] = q[i + 1]
  BY <1>1, HeadTailProperties, EmptySeq, LenProperties
<1>3. r.left # 1 => less \in Commands /\ ~less.run /\ less.end = r.end
  <2> HIDE DEF r
  <2> SUFFICES ASSUME r.left # 1 PROVE less \in Commands /\ ~less.run /\ less.end = r.end
    OBVIOUS
  <2>1. r.left \in Nat \ {0} /\ r \in Commands
    BY <1>2 DEF Commands
  <2>2. PICK m \in Nat \ {0} : m = r.left - 1
    BY <2>1
  <2>3. less = [r EXCEPT !.left = m, !.run = FALSE]
    BY <2>2
  <2> QED
    BY <2>1, <2>3 DEF Commands
<1>4. answer \in Packets
  BY <1>2 DEF Commands, Packets
<1>5. /\ Append(p, answer) \in Seq(Packets) /\ Len(Append(p, answer)) = Len(p) + 1 /\ Len(p) \in Nat
      /\ \A i \in 1..Len(p) : Append(p, answer)[i] = p[i]
      /\ Append(p, answer)[Len(p) + 1] = answer
  BY <1>1, <1>4, AppendProperties, LenProperties
<1>6. conn' = [conn EXCEPT ![s] = c]
      /\ runs' = IF r.run THEN [runs EXCEPT ![r.call] = @ + 1] ELSE runs
  BY DEF Serve
<1> HIDE DEF r, less, answer
<1>7. /\ rest \in Seq(Commands)
      /\ \/ r.left = 1 /\ Len(rest) = Len(q) - 1 /\ \A i \in 1..Len(rest) : rest[i] = q[i + 1]
         \/ /\ r.left # 1 /\ Len(rest) = Len(q) /\ rest[1] = less
            /\ \A i \in 2..Len(rest) : rest[i] = q[i]
  <2>1. CASE r.left = 1
    BY <1>2, <2>1
  <2>2. CASE r.left # 1
    <3>1. <<less>> \in Seq(Commands) /\ Len(<<less>>) = 1 /\ <<less>>[1] = less
      BY <1>3, <2>2
    <3>2. /\ <<less>> \o Tail(q) \in Seq(Commands) /\ Len(<<less>> \o Tail(q)) = 1 + Len(Tail(q))
          /\ \A i \in 1..1 + Len(Tail(q)) : (<<less>> \o Tail(q))[i] =
               IF i <= 1 THEN <<less>>[i] ELSE Tail(q)[i - 1]
      BY <1>2, <3>1, ConcatProperties
    <3>3. rest = <<less>> \o Tail(q)
      BY <2>2
    <3> HIDE DEF rest, q
    <3>4. Len(rest) = Len(q) /\ rest[1] = less
      BY <1>2, <3>1, <3>2, <3>3
    <3>5. \A i \in 2..Len(rest) : rest[i] = q[i]
      <4> SUFFICES ASSUME NEW i \in 2..Len(rest) PROVE rest[i] = q[i]
        OBVIOUS
      <4>1. i - 1 \in 1..Len(Tail(q)) /\ i \in 1..1 + Len(Tail(q)) /\ ~(i <= 1) /\ (i - 1) + 1 = i
        BY <1>2, <3>4
      <4>2. rest[i] = Tail(q)[i - 1]
        BY <3>2, <3>3, <4>1
      <4>3. Tail(q)[i - 1] = q[(i - 1) + 1]
        BY <1>2, <4>1
      <4> QED
        BY <4>1, <4>2, <4>3
    <3> QED
      BY <2>2, <3>2, <3>3, <3>4, <3>5
  <2> QED
    BY <2>1, <2>2
<1> HIDE DEF rest
<1>8. c \in Conns /\ c.cut = conn[s].cut /\ c.requests = rest /\ c.packets = Append(p, answer)
  BY <1>1, <1>5, <1>7 DEF Conns
<1>9. answer = [call |-> r.call, end |-> r.end]
  BY DEF answer
<1> HIDE DEF c
<1>10. /\ Len(c.packets) = Len(p) + 1
       /\ \A i \in 1..Len(p) : c.packets[i] = p[i]
       /\ c.packets[Len(c.packets)] = [call |-> r.call, end |-> r.end]
  BY <1>5, <1>8, <1>9
<1>11. \/ /\ r.left = 1 /\ Len(c.requests) = Len(q) - 1
          /\ \A i \in 1..Len(c.requests) : c.requests[i] = q[i + 1]
       \/ /\ r.left # 1 /\ Len(c.requests) = Len(q)
          /\ ~c.requests[1].run /\ c.requests[1].end = r.end
          /\ \A i \in 2..Len(c.requests) : c.requests[i] = q[i]
  BY <1>3, <1>7, <1>8
<1>12. Len(q) > 0 /\ r = q[1] /\ r \in Commands
  BY <1>2
<1>13. c \in Conns /\ r \in Commands
  BY <1>8, <1>12
<1> HIDE DEF q, p
<1> QED
  BY <1>6, <1>8, <1>10, <1>11, <1>12, <1>13 DEF q, p

\* The first part of a packet changes what there is to execute, and nothing else.
LEMMA TearFacts ==
  ASSUME TypeOK, NEW s \in Servers, Tear(s)
  PROVE  \E c \in Conns, r \in Commands :
           /\ conn' = [conn EXCEPT ![s] = c] /\ c.cut = conn[s].cut
           /\ c.packets = conn[s].packets
           /\ Len(conn[s].requests) > 0 /\ r = conn[s].requests[1]
           /\ runs' = IF r.run THEN [runs EXCEPT ![r.call] = @ + 1] ELSE runs
           /\ Len(c.requests) = Len(conn[s].requests)
           /\ ~c.requests[1].run /\ c.requests[1].end = r.end /\ c.requests[1].left = r.left
           /\ \A i \in 2..Len(c.requests) : c.requests[i] = conn[s].requests[i]
<1> DEFINE q == conn[s].requests
           r == Head(q)
           ran == [r EXCEPT !.run = FALSE]
           rest == <<ran>> \o Tail(q)
           c == [conn[s] EXCEPT !.partial = TRUE, !.requests = rest]
<1>1. conn[s] \in Conns /\ q \in Seq(Commands) /\ q # <<>>
  BY DEF TypeOK, StoreTyped, Conns, Tear
<1>2. r \in Commands /\ Tail(q) \in Seq(Commands) /\ Len(q) \in Nat \ {0} /\ r = q[1]
      /\ Len(Tail(q)) = Len(q) - 1 /\ \A i \in 1..Len(Tail(q)) : Tail(q)[i] = q[i + 1]
  BY <1>1, HeadTailProperties, EmptySeq, LenProperties
<1>3. ran \in Commands /\ ~ran.run /\ ran.end = r.end /\ ran.left = r.left
  <2> HIDE DEF r
  <2> QED
    BY <1>2 DEF Commands
<1>4. conn' = [conn EXCEPT ![s] = c]
      /\ runs' = IF r.run THEN [runs EXCEPT ![r.call] = @ + 1] ELSE runs
  BY DEF Tear
<1> HIDE DEF r, ran
<1>5. <<ran>> \in Seq(Commands) /\ Len(<<ran>>) = 1 /\ <<ran>>[1] = ran
  BY <1>3
<1>6. /\ rest \in Seq(Commands) /\ Len(rest) = 1 + Len(Tail(q))
      /\ \A i \in 1..1 + Len(Tail(q)) : rest[i] = IF i <= 1 THEN <<ran>>[i] ELSE Tail(q)[i - 1]
  BY <1>2, <1>5, ConcatProperties
<1> HIDE DEF rest, q
<1>7. Len(rest) = Len(q) /\ rest[1] = ran
  BY <1>2, <1>5, <1>6
<1>8. \A i \in 2..Len(rest) : rest[i] = q[i]
  <2> SUFFICES ASSUME NEW i \in 2..Len(rest) PROVE rest[i] = q[i]
    OBVIOUS
  <2>1. i - 1 \in 1..Len(Tail(q)) /\ i \in 1..1 + Len(Tail(q)) /\ ~(i <= 1) /\ (i - 1) + 1 = i
    BY <1>2, <1>7
  <2>2. rest[i] = Tail(q)[i - 1]
    BY <1>6, <2>1
  <2>3. Tail(q)[i - 1] = q[(i - 1) + 1]
    BY <1>2, <2>1
  <2> QED
    BY <2>1, <2>2, <2>3
<1>9. c \in Conns /\ c.cut = conn[s].cut /\ c.requests = rest /\ c.packets = conn[s].packets
  BY <1>1, <1>6 DEF Conns
<1> HIDE DEF c
<1>10. Len(q) > 0
  BY <1>2
<1> QED
  BY <1>2, <1>3, <1>4, <1>7, <1>8, <1>9, <1>10 DEF q

\* What a dying connection loses.
LEMMA DropFacts ==
  ASSUME TypeOK, NEW s \in Servers, Drop(s)
  PROVE  \E c \in Conns :
           /\ conn' = [conn EXCEPT ![s] = c] /\ c.cut = conn[s].cut /\ c.requests = <<>>
           /\ orphans' = Orphaned(s) /\ runs' = runs
           /\ Len(c.packets) <= Len(conn[s].packets)
           /\ \A i \in 1..Len(c.packets) : c.packets[i] = conn[s].packets[i]
<1> DEFINE p == conn[s].packets
<1>1. conn[s] \in Conns /\ p \in Seq(Packets) /\ Len(p) \in Nat
  BY LenProperties DEF TypeOK, StoreTyped, Conns
<1>2. PICK n \in 0..Len(p) :
        conn' = [conn EXCEPT ![s].open = FALSE, ![s].requests = <<>>, ![s].partial = FALSE,
                             ![s].packets = SubSeq(@, 1, n)]
  BY DEF Drop
<1> DEFINE c == [conn[s] EXCEPT !.open = FALSE, !.requests = <<>>, !.partial = FALSE,
                                !.packets = SubSeq(p, 1, n)]
<1>3. \A i \in 1..n : p[i] \in Packets
  BY <1>1, ElementOfSeq
<1>4. n \in Nat /\ n <= Len(p)
  BY <1>1
<1> HIDE DEF p
<1>5. SubSeq(p, 1, n) \in Seq(Packets) /\ Len(SubSeq(p, 1, n)) = n
      /\ \A i \in 1..n : SubSeq(p, 1, n)[i] = p[i]
  BY <1>3, <1>4, SubSeqProperties
<1>6. <<>> \in Seq(Commands)
  OBVIOUS
<1>7. c \in Conns /\ c.cut = conn[s].cut /\ c.requests = <<>> /\ c.packets = SubSeq(p, 1, n)
  BY <1>1, <1>5, <1>6 DEF Conns
<1>8. conn' = [conn EXCEPT ![s] = c]
  BY <1>2 DEF p
<1>9. orphans' = Orphaned(s) /\ runs' = runs
  BY DEF Drop
<1> HIDE DEF c
<1> QED
  BY <1>4, <1>5, <1>7, <1>8, <1>9 DEF p

\* A call's way to the pool touches the threads' own state only.
LEMMA CallControl ==
  ASSUME TypeOK, Mutual, NEW t \in Threads, NEW op \in Ops, NEW s \in Servers, Call(t, op, s)
  PROVE  ControlTyped' /\ Mutual'
<1>1. /\ pc[t] = "idle" /\ calls < MaxCalls /\ calls' = calls + 1
      /\ pc' = [pc EXCEPT ![t] = "wait"]
      /\ job' = [job EXCEPT ![t] = [op |-> op, server |-> s, n |-> calls + 1]]
      /\ UNCHANGED <<mtx, phase, fresh, todo, got, reads, replies>>
  BY DEF Call, io
<1>2. calls \in Nat /\ calls + 1 \in 1..MaxCalls
  BY <1>1, RconAssumption DEF TypeOK, ControlTyped
<1>3. [op |-> op, server |-> s, n |-> calls + 1] \in Jobs
  BY <1>2 DEF Jobs, CallIds
<1>4. [op |-> op, server |-> s, n |-> calls + 1] # NoJob
  <2>1. RconAssumption /\ "none" \notin AllOps
    BY RconAssumption DEF AllOps
  <2>2. op # "none"
    BY <2>1, RconAssumption
  <2>3. [op |-> op, server |-> s, n |-> calls + 1].op # NoJob.op
    BY <2>2 DEF NoJob
  <2> QED
    BY <2>3
<1>5. pc' \in [Threads -> {"idle", "wait", "run"}] /\ job' \in [Threads -> {NoJob} \cup Jobs]
  BY <1>1, <1>3 DEF TypeOK, ControlTyped
<1>6. pc'[t] = "wait" /\ job'[t] # NoJob
      /\ \A u \in Threads \ {t} : pc'[u] = pc[u] /\ job'[u] = job[u]
  BY <1>1, <1>4 DEF TypeOK, ControlTyped
<1>7. \A u \in Threads : pc'[u] = "idle" <=> job'[u] = NoJob
  BY <1>6 DEF TypeOK, ControlTyped
<1>8. ControlTyped'
  BY <1>1, <1>2, <1>5, <1>7 DEF TypeOK, ControlTyped
<1>9. \A u \in Threads : pc'[u] = "run" => u # t /\ pc[u] = "run"
  BY <1>6
<1>10. \A u \in Threads : pc'[u] = "run" <=> mtx' = u
  BY <1>1, <1>6 DEF Mutual
<1>11. \A u \in Threads : pc'[u] = "run" => Stage(u)'
  BY <1>1, <1>6, <1>9 DEF Mutual, Stage, Ordinary, Pinging
<1>12. Mutual'
  BY <1>1, <1>10, <1>11 DEF Mutual
<1> QED
  BY <1>8, <1>12

LEMMA AcquireControl ==
  ASSUME TypeOK, Mutual, NEW t \in Threads, Acquire(t)
  PROVE  ControlTyped' /\ Mutual'
<1>1. /\ pc[t] = "wait" /\ mtx = NoThread /\ mtx' = t /\ pc' = [pc EXCEPT ![t] = "run"]
      /\ phase' = "lookup" /\ UNCHANGED <<job, fresh, todo, got, reads, replies, calls>>
  BY DEF Acquire
<1>2. pc'[t] = "run" /\ \A u \in Threads \ {t} : pc'[u] = pc[u] /\ pc[u] # "run"
  BY <1>1, RconAssumption DEF TypeOK, ControlTyped, Mutual
<1>3. pc' \in [Threads -> {"idle", "wait", "run"}]
  BY <1>1 DEF TypeOK, ControlTyped
<1>4. \A u \in Threads : pc'[u] = "idle" <=> job'[u] = NoJob
  BY <1>1, <1>2 DEF TypeOK, ControlTyped
<1>5. ControlTyped'
  BY <1>1, <1>3, <1>4 DEF TypeOK, ControlTyped
<1>6. \A u \in Threads : pc'[u] = "run" <=> mtx' = u
  BY <1>1, <1>2
<1>7. Stage(t)'
  BY <1>1 DEF Mutual, Stage
<1>8. Mutual'
  BY <1>1, <1>2, <1>6, <1>7, RconAssumption DEF Mutual
<1> QED
  BY <1>5, <1>8

LEMMA PanelSame ==
  ASSUME TypeOK, Mutual, UNCHANGED <<pc, job, mtx, io, replies, calls>>
  PROVE  ControlTyped' /\ Mutual'
<1>1. ControlTyped'
  BY DEF TypeOK, ControlTyped, io
<1>2. \A t \in Threads : Stage(t) => Stage(t)'
  BY DEF Stage, Ordinary, Pinging, io
<1>3. Mutual'
  BY <1>2 DEF Mutual, io
<1> QED
  BY <1>1, <1>3

LEMMA EnvironmentTypes ==
  ASSUME TypeOK, Mutual, Environment
  PROVE  TypeOK' /\ Mutual'
<1>1. ASSUME NEW s \in Servers, Serve(s) PROVE TypeOK' /\ Mutual'
  <2>1. ControlTyped' /\ Mutual'
    BY <1>1, PanelSame DEF Serve
  <2>2. PICK c \in Conns, r \in Commands :
          /\ conn' = [conn EXCEPT ![s] = c]
          /\ runs' = IF r.run THEN [runs EXCEPT ![r.call] = @ + 1] ELSE runs
    BY <1>1, ServeFacts
  <2>3. runs' \in [CallIds -> Nat]
    BY <2>2 DEF TypeOK, StoreTyped, Commands
  <2>4. StoreTyped'
    BY <1>1, <2>2, <2>3, ConnTyped DEF Serve, TypeOK, StoreTyped
  <2> QED
    BY <2>1, <2>4 DEF TypeOK
<1>2. ASSUME NEW s \in Servers, Drop(s) PROVE TypeOK' /\ Mutual'
  <2>1. ControlTyped' /\ Mutual'
    BY <1>2, PanelSame DEF Drop
  <2>2. PICK c \in Conns : conn' = [conn EXCEPT ![s] = c] /\ orphans' = Orphaned(s)
    BY <1>2, DropFacts
  <2>3. runs' = runs /\ client' = client
    BY <1>2 DEF Drop
  <2>4. StoreTyped'
    BY <2>2, <2>3, ConnTyped DEF TypeOK, StoreTyped
  <2> QED
    BY <2>1, <2>4 DEF TypeOK
<1>4. ASSUME NEW s \in Servers, Tear(s) PROVE TypeOK' /\ Mutual'
  <2>1. ControlTyped' /\ Mutual'
    BY <1>4, PanelSame DEF Tear
  <2>2. PICK c \in Conns, r \in Commands :
          /\ conn' = [conn EXCEPT ![s] = c]
          /\ runs' = IF r.run THEN [runs EXCEPT ![r.call] = @ + 1] ELSE runs
    BY <1>4, TearFacts
  <2>3. runs' \in [CallIds -> Nat]
    BY <2>2 DEF TypeOK, StoreTyped, Commands
  <2>4. StoreTyped'
    BY <1>4, <2>2, <2>3, ConnTyped DEF Tear, TypeOK, StoreTyped
  <2> QED
    BY <2>1, <2>4 DEF TypeOK
<1>5. ASSUME NEW s \in Servers, Mend(s) PROVE TypeOK' /\ Mutual'
  <2>1. ControlTyped' /\ Mutual'
    BY <1>5, PanelSame DEF Mend
  <2>2. StoreTyped'
    BY <1>5 DEF Mend, TypeOK, StoreTyped, Conns
  <2> QED
    BY <2>1, <2>2 DEF TypeOK
<1>3. ASSUME NEW n \in CallIds, ServeOrphan(n) PROVE TypeOK' /\ Mutual'
  <2>1. ControlTyped' /\ Mutual'
    BY <1>3, PanelSame DEF ServeOrphan
  <2>2. StoreTyped'
    BY <1>3 DEF ServeOrphan, TypeOK, StoreTyped
  <2> QED
    BY <2>1, <2>2 DEF TypeOK
<1> QED
  BY <1>1, <1>2, <1>3, <1>4, <1>5 DEF Environment

LEMMA InitTypes == Init => TypeOK /\ Mutual
<1> SUFFICES ASSUME Init PROVE TypeOK /\ Mutual
  OBVIOUS
<1>1. ControlTyped
  <2>1. pc \in [Threads -> {"idle", "wait", "run"}] /\ job \in [Threads -> {NoJob} \cup Jobs]
        /\ \A t \in Threads : pc[t] = "idle" /\ job[t] = NoJob
    BY DEF Init
  <2>2. <<>> \in Seq(CallIds)
    OBVIOUS
  <2>3. /\ mtx = NoThread /\ phase = "free" /\ fresh = FALSE /\ todo = {} /\ got = <<>> /\ reads = 0
        /\ replies = [n \in CallIds |-> <<>>] /\ calls = 0
    BY DEF Init
  <2>4. replies \in [CallIds -> Seq(CallIds)] /\ calls \in 0..MaxCalls
    BY <2>2, <2>3, RconAssumption
  <2> QED
    BY <2>1, <2>2, <2>3, <2>4 DEF ControlTyped
<1>2. StoreTyped
  BY NewConnsTyped DEF Init, StoreTyped
<1>3. Mutual
  BY RconAssumption DEF Init, Mutual
<1> QED
  BY <1>1, <1>2, <1>3 DEF TypeOK

LEMMA TypeInvariance == TypeOK /\ Mutual /\ [Next]_vars => TypeOK' /\ Mutual'
<1> SUFFICES ASSUME TypeOK, Mutual, [Next]_vars PROVE TypeOK' /\ Mutual'
  OBVIOUS
<1>1. ASSUME NEW t \in Threads, NEW op \in Ops, NEW s \in Servers, Call(t, op, s)
      PROVE  TypeOK' /\ Mutual'
  BY <1>1, CallControl DEF Call, net, TypeOK, StoreTyped
<1>2. ASSUME NEW t \in Threads, Acquire(t) PROVE TypeOK' /\ Mutual'
  BY <1>2, AcquireControl DEF Acquire, net, TypeOK, StoreTyped
<1>3. ASSUME NEW t \in Threads, Holding(t) PROVE TypeOK' /\ Mutual'
  BY <1>3, HoldingCases, HolderControl, HolderStore DEF TypeOK
<1>4. CASE Environment
  BY <1>4, EnvironmentTypes
<1>5. CASE UNCHANGED vars
  BY <1>5, PanelSame DEF vars, io, TypeOK, StoreTyped
<1> QED
  BY <1>1, <1>2, <1>3, <1>4, <1>5 DEF Next

\* Types, in every state, and that one thread holds poolMtx_ and does what its
\* operation is at.
THEOREM TypeCorrect == Spec => [](TypeOK /\ Mutual)
<1>1. Init => TypeOK /\ Mutual
  BY InitTypes
<1>2. TypeOK /\ Mutual /\ [Next]_vars => (TypeOK /\ Mutual)'
  BY TypeInvariance
<1> QED
  BY <1>1, <1>2, PTL DEF Spec

--------------------------------------------------------------------------------
(* How often a command is executed.  A command is spent once it is executed, *)
(* on its way on a connection, or left to the network; the steps of servers  *)
(* and network, and the closing of a connection, move it between the three.  *)

\* Nothing is spent, and nothing comes to life.
Steady ==
    \A n \in CallIds : Spent(n)' = Spent(n) /\ \A s \in Servers : Live(s, n)' => Live(s, n)

\* The command of call m sets out to server u.
Gains(u, m) ==
    \A n \in CallIds :
        /\ Spent(n)' = IF n = m THEN Spent(n) + 1 ELSE Spent(n)
        /\ \A s \in Servers : Live(s, n)' => Live(s, n) \/ (s = u /\ n = m)

LEMMA SpentIs ==
  ASSUME TypeOK, NEW n \in CallIds
  PROVE  Spent(n) \in Nat /\ runs[n] <= Spent(n) /\ (Pending(n) => Spent(n) >= 1)
<1>1. runs[n] \in Nat /\ orphans[n] \in Nat
  BY DEF TypeOK, StoreTyped
<1> QED
  BY <1>1 DEF Spent

LEMMA LenOf ==
  ASSUME TypeOK, NEW s \in Servers
  PROVE  Len(conn[s].requests) \in Nat /\ Len(conn[s].packets) \in Nat
<1>1. conn[s].requests \in Seq(Commands) /\ conn[s].packets \in Seq(Packets)
  BY DEF TypeOK, StoreTyped, Conns
<1> QED
  BY <1>1, LenProperties

\* The commands on their way stay those they were.
LEMMA SameSpent ==
  ASSUME LiveOnce, \A u \in Servers : conn'[u].requests = conn[u].requests,
         UNCHANGED <<runs, orphans>>
  PROVE  Steady /\ LiveOnce'
<1>1. \A n \in CallIds : \A u \in Servers : Live(u, n)' <=> Live(u, n)
  BY DEF Live
<1>2. \A n \in CallIds : Pending(n)' <=> Pending(n)
  BY <1>1 DEF Pending
<1>3. \A n \in CallIds : Spent(n)' = Spent(n)
  BY <1>2 DEF Spent
<1>4. LiveOnce'
  BY DEF LiveOnce
<1> QED
  BY <1>1, <1>3, <1>4 DEF Steady

\* A command on its way when its connection is closed is left to the network.
LEMMA ClosedSpent ==
  ASSUME TypeOK, LiveOnce, NEW s \in Servers, NEW c, c.requests = <<>>,
         conn' = [conn EXCEPT ![s] = c], orphans' = Orphaned(s), runs' = runs
  PROVE  Steady /\ LiveOnce' /\ \A n \in CallIds : ~Live(s, n)'
<1>1. conn'[s].requests = <<>> /\ \A u \in Servers \ {s} : conn'[u] = conn[u]
  BY DEF TypeOK, StoreTyped
<1>2. 1..Len(conn'[s].requests) = {}
  BY <1>1, EmptySeq
<1>3. \A n \in CallIds : ~Live(s, n)'
  BY <1>2 DEF Live
<1>4. \A n \in CallIds : \A u \in Servers \ {s} : Live(u, n)' <=> Live(u, n)
  BY <1>1 DEF Live
<1>5. LiveOnce'
  <2> SUFFICES ASSUME NEW n \in CallIds, NEW u \in Servers, NEW v \in Servers,
                      NEW i \in 1..Len(conn'[u].requests), NEW j \in 1..Len(conn'[v].requests),
                      conn'[u].requests[i].call = n /\ conn'[u].requests[i].run,
                      conn'[v].requests[j].call = n /\ conn'[v].requests[j].run
               PROVE  u = v /\ i = j
    BY DEF LiveOnce
  <2>1. u # s /\ v # s
    BY <1>2
  <2> QED
    BY <1>1, <2>1 DEF LiveOnce
<1>6. \A n \in CallIds : \A u, v \in Servers : Live(u, n) /\ Live(v, n) => u = v
  BY DEF Live, LiveOnce
<1>7. ASSUME NEW n \in CallIds PROVE Spent(n)' = Spent(n)
  <2>1. runs[n] \in Nat /\ orphans[n] \in Nat /\ runs'[n] = runs[n]
        /\ orphans'[n] = IF Live(s, n) THEN orphans[n] + 1 ELSE orphans[n]
    BY OrphanedIs DEF TypeOK, StoreTyped
  <2>2. CASE Live(s, n)
    <3>1. Pending(n) /\ ~Pending(n)'
      BY <1>3, <1>4, <1>6, <2>2 DEF Pending
    <3> QED
      BY <2>1, <2>2, <3>1 DEF Spent
  <2>3. CASE ~Live(s, n)
    <3>1. Pending(n)' <=> Pending(n)
      BY <1>3, <1>4, <2>3 DEF Pending
    <3> QED
      BY <2>1, <2>3, <3>1 DEF Spent
  <2> QED
    BY <2>2, <2>3
<1> QED
  BY <1>3, <1>4, <1>5, <1>7 DEF Steady

\* A command joins a stream only when it is on its way nowhere else.
LEMMA JoinSpent ==
  ASSUME TypeOK, LiveOnce, NEW s \in Servers, NEW r \in Commands, Joins(s, r), runs' = runs,
         r.run => ~Pending(r.call)
  PROVE  LiveOnce' /\ (r.run => Gains(s, r.call)) /\ (~r.run => Steady)
<1> DEFINE q == conn[s].requests
<1>1. q \in Seq(Commands) /\ Len(q) \in Nat
  BY LenOf DEF TypeOK, StoreTyped, Conns
<1>2. conn'[s].requests = Append(q, r) /\ \A u \in Servers \ {s} : conn'[u] = conn[u]
  BY DEF Joins, TypeOK, StoreTyped, Conns
<1>3. Len(conn'[s].requests) = Len(q) + 1 /\ conn'[s].requests[Len(q) + 1] = r
      /\ \A i \in 1..Len(q) : conn'[s].requests[i] = q[i]
  BY <1>1, <1>2, AppendProperties
<1>4. UNCHANGED <<runs, orphans>> /\ r.call \in CallIds
  BY DEF Joins, Commands
<1> HIDE DEF q
<1>5. \A n \in CallIds : \A u \in Servers \ {s} : Live(u, n)' <=> Live(u, n)
  BY <1>2 DEF Live
<1>6. ASSUME NEW n \in CallIds
      PROVE  Live(s, n)' <=> Live(s, n) \/ (r.run /\ r.call = n)
  <2>1. ASSUME Live(s, n)' PROVE Live(s, n) \/ (r.run /\ r.call = n)
    <3>1. PICK i \in 1..Len(conn'[s].requests) :
            conn'[s].requests[i].call = n /\ conn'[s].requests[i].run
      BY <2>1 DEF Live
    <3>2. i \in 1..Len(q) \/ i = Len(q) + 1
      BY <1>1, <1>3
    <3> QED
      BY <1>3, <3>1, <3>2 DEF Live, q
  <2>2. ASSUME Live(s, n) PROVE Live(s, n)'
    <3>1. PICK i \in 1..Len(q) : q[i].call = n /\ q[i].run
      BY <2>2 DEF Live, q
    <3>2. i \in 1..Len(conn'[s].requests) /\ conn'[s].requests[i] = q[i]
      BY <1>1, <1>3
    <3> QED
      BY <3>1, <3>2 DEF Live
  <2>3. ASSUME r.run /\ r.call = n PROVE Live(s, n)'
    <3>1. Len(q) + 1 \in 1..Len(conn'[s].requests)
      BY <1>1, <1>3
    <3> QED
      BY <1>3, <2>3, <3>1 DEF Live
  <2> QED
    BY <2>1, <2>2, <2>3
<1>7. LiveOnce'
  <2> SUFFICES ASSUME NEW n \in CallIds, NEW u \in Servers, NEW v \in Servers,
                      NEW i \in 1..Len(conn'[u].requests), NEW j \in 1..Len(conn'[v].requests),
                      conn'[u].requests[i].call = n /\ conn'[u].requests[i].run,
                      conn'[v].requests[j].call = n /\ conn'[v].requests[j].run
               PROVE  u = v /\ i = j
    BY DEF LiveOnce
  <2>1. ASSUME NEW w \in Servers, NEW k \in 1..Len(conn'[w].requests),
               conn'[w].requests[k].call = n /\ conn'[w].requests[k].run
        PROVE  \/ w = s /\ k = Len(q) + 1 /\ r.run /\ r.call = n
               \/ k \in 1..Len(conn[w].requests) /\ conn[w].requests[k].call = n /\ conn[w].requests[k].run
    <3>1. CASE w # s
      BY <1>2, <2>1, <3>1
    <3>2. CASE w = s /\ k = Len(q) + 1
      BY <1>3, <2>1, <3>2
    <3>3. CASE w = s /\ k # Len(q) + 1
      <4>1. k \in 1..Len(q) /\ conn'[s].requests[k] = q[k]
        BY <1>1, <1>3, <3>3
      <4> QED
        BY <2>1, <3>3, <4>1 DEF q
    <3> QED
      BY <3>1, <3>2, <3>3
  <2>2. ASSUME NEW w \in Servers, NEW k \in 1..Len(conn[w].requests),
               conn[w].requests[k].call = n /\ conn[w].requests[k].run
        PROVE  ~(r.run /\ r.call = n)
    BY <2>2 DEF Pending, Live
  <2>3. \/ u = s /\ i = Len(q) + 1 /\ r.run /\ r.call = n
        \/ i \in 1..Len(conn[u].requests) /\ conn[u].requests[i].call = n /\ conn[u].requests[i].run
    BY <2>1
  <2>4. \/ v = s /\ j = Len(q) + 1 /\ r.run /\ r.call = n
        \/ j \in 1..Len(conn[v].requests) /\ conn[v].requests[j].call = n /\ conn[v].requests[j].run
    BY <2>1
  <2>5. CASE r.run /\ r.call = n
    BY <2>2, <2>3, <2>4, <2>5
  <2>6. CASE ~(r.run /\ r.call = n)
    BY <2>3, <2>4, <2>6 DEF LiveOnce
  <2> QED
    BY <2>5, <2>6
<1>8. \A n \in CallIds : Pending(n)' <=> Pending(n) \/ (r.run /\ r.call = n)
  BY <1>5, <1>6 DEF Pending
<1>9. ASSUME NEW n \in CallIds
      PROVE  Spent(n)' = IF r.run /\ r.call = n THEN Spent(n) + 1 ELSE Spent(n)
  <2>1. runs[n] \in Nat /\ orphans[n] \in Nat /\ runs'[n] = runs[n] /\ orphans'[n] = orphans[n]
    BY <1>4 DEF TypeOK, StoreTyped
  <2>2. (r.run /\ r.call = n => ~Pending(n)) /\ (Pending(n)' <=> Pending(n) \/ (r.run /\ r.call = n))
    BY <1>8
  <2> QED
    BY <2>1, <2>2 DEF Spent
<1>10. ASSUME r.run PROVE Gains(s, r.call)
  BY <1>5, <1>6, <1>9, <1>10 DEF Gains
<1>11. ASSUME ~r.run PROVE Steady
  BY <1>5, <1>6, <1>9, <1>11 DEF Steady
<1> QED
  BY <1>7, <1>10, <1>11

\* A server that executes a command takes it off its connection's stream.
LEMMA ServedSpent ==
  ASSUME TypeOK, LiveOnce, NEW s \in Servers, NEW c \in Conns, NEW r \in Commands,
         conn' = [conn EXCEPT ![s] = c], orphans' = orphans,
         Len(conn[s].requests) > 0, r = conn[s].requests[1],
         runs' = IF r.run THEN [runs EXCEPT ![r.call] = @ + 1] ELSE runs,
         \/ /\ Len(c.requests) = Len(conn[s].requests) - 1
            /\ \A i \in 1..Len(c.requests) : c.requests[i] = conn[s].requests[i + 1]
         \/ /\ Len(c.requests) = Len(conn[s].requests) /\ ~c.requests[1].run
            /\ \A i \in 2..Len(c.requests) : c.requests[i] = conn[s].requests[i]
  PROVE  Steady /\ LiveOnce'
<1> DEFINE q == conn[s].requests
<1>2. conn'[s] = c /\ \A u \in Servers \ {s} : conn'[u] = conn[u]
  BY DEF TypeOK, StoreTyped
<1>3. Len(q) \in Nat /\ orphans' = orphans /\ r.call \in CallIds /\ r.run \in BOOLEAN
  BY LenOf DEF Commands
<1> HIDE DEF q
<1>4. PICK d \in {0, 1} :
        /\ \A i \in 1..Len(c.requests) :
             c.requests[i].run => i + d \in 2..Len(q) /\ c.requests[i] = q[i + d]
        /\ \A j \in 2..Len(q) : j - d \in 1..Len(c.requests) /\ c.requests[j - d] = q[j]
  <2>1. CASE /\ Len(c.requests) = Len(q) - 1
             /\ \A i \in 1..Len(c.requests) : c.requests[i] = q[i + 1]
    <3>1. \A i \in 1..Len(c.requests) : i + 1 \in 2..Len(q) /\ c.requests[i] = q[i + 1]
      BY <1>3, <2>1
    <3>2. \A j \in 2..Len(q) : j - 1 \in 1..Len(c.requests) /\ (j - 1) + 1 = j
      BY <1>3, <2>1
    <3>3. \A j \in 2..Len(q) : c.requests[j - 1] = q[j]
      BY <2>1, <3>2
    <3> QED
      BY <3>1, <3>2, <3>3
  <2>2. CASE /\ Len(c.requests) = Len(q) /\ ~c.requests[1].run
             /\ \A i \in 2..Len(c.requests) : c.requests[i] = q[i]
    <3>1. \A i \in 1..Len(c.requests) : c.requests[i].run => i + 0 \in 2..Len(q) /\ c.requests[i] = q[i + 0]
      <4> SUFFICES ASSUME NEW i \in 1..Len(c.requests), c.requests[i].run
                   PROVE  i + 0 \in 2..Len(q) /\ c.requests[i] = q[i + 0]
        OBVIOUS
      <4>1. i # 1
        BY <2>2
      <4>2. i \in 2..Len(q) /\ i + 0 = i
        BY <1>3, <2>2, <4>1
      <4> QED
        BY <2>2, <4>2
    <3>2. \A j \in 2..Len(q) : j - 0 \in 1..Len(c.requests) /\ c.requests[j - 0] = q[j]
      <4> SUFFICES ASSUME NEW j \in 2..Len(q)
                   PROVE  j - 0 \in 1..Len(c.requests) /\ c.requests[j - 0] = q[j]
        OBVIOUS
      <4>1. j \in 1..Len(q) /\ j - 0 = j
        BY <1>3
      <4> QED
        BY <2>2, <4>1
    <3> QED
      BY <3>1, <3>2
  <2> QED
    BY <2>1, <2>2 DEF q
<1>5. d \in Nat /\ \A i \in 2..Len(q) : i \in 1..Len(q) /\ i # 1
  BY <1>3
<1>6. \A n \in CallIds : \A u \in Servers \ {s} : Live(u, n)' <=> Live(u, n)
  BY <1>2 DEF Live
<1>7. 1 \in 1..Len(q) /\ r = q[1]
  BY <1>3 DEF q
<1>8. \A n \in CallIds : \A i, j \in 1..Len(q) :
        q[i].call = n /\ q[i].run /\ q[j].call = n /\ q[j].run => i = j
  BY DEF LiveOnce, q
<1>9. ASSUME NEW n \in CallIds
      PROVE  Live(s, n)' <=> Live(s, n) /\ ~(r.run /\ r.call = n)
  <2>1. ASSUME Live(s, n)' PROVE Live(s, n) /\ ~(r.run /\ r.call = n)
    <3>1. PICK i \in 1..Len(c.requests) : c.requests[i].call = n /\ c.requests[i].run
      BY <1>2, <2>1 DEF Live
    <3>2. i + d \in 1..Len(q) /\ i + d # 1 /\ q[i + d].call = n /\ q[i + d].run
      BY <1>4, <1>5, <3>1
    <3>3. Live(s, n)
      BY <3>2 DEF Live, q
    <3>4. ~(r.run /\ r.call = n)
      BY <1>7, <1>8, <3>2
    <3> QED
      BY <3>3, <3>4
  <2>2. ASSUME Live(s, n), ~(r.run /\ r.call = n) PROVE Live(s, n)'
    <3>1. PICK j \in 1..Len(q) : q[j].call = n /\ q[j].run
      BY <2>2 DEF Live, q
    <3>2. j \in 2..Len(q)
      <4>1. j # 1
        BY <1>7, <2>2, <3>1
      <4> QED
        BY <1>3, <4>1
    <3>3. j - d \in 1..Len(c.requests) /\ c.requests[j - d] = q[j]
      BY <1>4, <3>2
    <3> QED
      BY <1>2, <3>1, <3>3 DEF Live
  <2> QED
    BY <2>1, <2>2
<1>10. LiveOnce'
  <2>0. SUFFICES ASSUME NEW n \in CallIds, NEW u \in Servers, NEW v \in Servers,
                        NEW i \in 1..Len(conn'[u].requests), NEW j \in 1..Len(conn'[v].requests),
                        conn'[u].requests[i].call = n /\ conn'[u].requests[i].run,
                        conn'[v].requests[j].call = n /\ conn'[v].requests[j].run
                 PROVE  u = v /\ i = j
    BY DEF LiveOnce
  <2> DEFINE at(w, k) == IF w = s THEN k + d ELSE k
  <2>1. ASSUME NEW w \in Servers, NEW k \in 1..Len(conn'[w].requests),
               conn'[w].requests[k].call = n, conn'[w].requests[k].run
        PROVE  /\ at(w, k) \in 1..Len(conn[w].requests)
               /\ conn[w].requests[at(w, k)].call = n /\ conn[w].requests[at(w, k)].run
    <3>1. CASE w # s
      BY <1>2, <2>1, <3>1
    <3>2. CASE w = s
      <4>1. k \in 1..Len(c.requests) /\ c.requests[k].call = n /\ c.requests[k].run
        BY <1>2, <2>1, <3>2
      <4>2. k + d \in 1..Len(q) /\ q[k + d].call = n /\ q[k + d].run
        BY <1>4, <1>5, <4>1
      <4>3. at(w, k) = k + d /\ q = conn[w].requests
        BY <3>2 DEF q
      <4> HIDE DEF at, q
      <4> QED
        BY <4>2, <4>3
    <3> QED
      BY <3>1, <3>2
  <2>2. /\ at(u, i) \in 1..Len(conn[u].requests) /\ at(v, j) \in 1..Len(conn[v].requests)
        /\ conn[u].requests[at(u, i)].call = n /\ conn[u].requests[at(u, i)].run
        /\ conn[v].requests[at(v, j)].call = n /\ conn[v].requests[at(v, j)].run
    BY <2>0, <2>1
  <2>3. u = v /\ at(u, i) = at(v, j)
    <3> HIDE DEF at
    <3>1. PICK k \in 1..Len(conn[u].requests) :
            k = at(u, i) /\ conn[u].requests[k].call = n /\ conn[u].requests[k].run
      BY <2>2
    <3>2. PICK l \in 1..Len(conn[v].requests) :
            l = at(v, j) /\ conn[v].requests[l].call = n /\ conn[v].requests[l].run
      BY <2>2
    <3>3. u = v /\ k = l
      BY <3>1, <3>2, OneOfCall
    <3> QED
      BY <3>1, <3>2, <3>3
  <2>4. i \in Nat /\ j \in Nat
    BY <2>0
  <2> QED
    BY <1>5, <2>3, <2>4
<1>11. \A n \in CallIds : \A u, v \in Servers : Live(u, n) /\ Live(v, n) => u = v
  BY DEF Live, LiveOnce
<1>12. r.run => Live(s, r.call)
  BY <1>7 DEF Live, q
<1>13. ASSUME NEW n \in CallIds PROVE Spent(n)' = Spent(n)
  <2>1. /\ runs[n] \in Nat /\ orphans[n] \in Nat /\ orphans'[n] = orphans[n]
        /\ runs'[n] = IF r.run /\ r.call = n THEN runs[n] + 1 ELSE runs[n]
    BY <1>3 DEF TypeOK, StoreTyped
  <2>2. CASE r.run /\ r.call = n
    <3>1. Pending(n) /\ ~Pending(n)'
      BY <1>6, <1>9, <1>11, <1>12, <2>2 DEF Pending
    <3> QED
      BY <2>1, <2>2, <3>1 DEF Spent
  <2>3. CASE ~(r.run /\ r.call = n)
    <3>1. Pending(n)' <=> Pending(n)
      BY <1>6, <1>9, <2>3 DEF Pending
    <3> QED
      BY <2>1, <2>3, <3>1 DEF Spent
  <2> QED
    BY <2>2, <2>3
<1> QED
  BY <1>6, <1>9, <1>10, <1>13 DEF Steady

LEMMA ServeSpent ==
  ASSUME TypeOK, LiveOnce, NEW s \in Servers, Serve(s) \/ Tear(s)
  PROVE  Steady /\ LiveOnce'
<1>1. PICK c \in Conns, r \in Commands :
        /\ conn' = [conn EXCEPT ![s] = c]
        /\ Len(conn[s].requests) > 0 /\ r = conn[s].requests[1]
        /\ runs' = IF r.run THEN [runs EXCEPT ![r.call] = @ + 1] ELSE runs
        /\ \/ /\ Len(c.requests) = Len(conn[s].requests) - 1
              /\ \A i \in 1..Len(c.requests) : c.requests[i] = conn[s].requests[i + 1]
           \/ /\ Len(c.requests) = Len(conn[s].requests) /\ ~c.requests[1].run
              /\ \A i \in 2..Len(c.requests) : c.requests[i] = conn[s].requests[i]
  <2>1. CASE Serve(s)
    BY <2>1, ServeFacts
  <2>2. CASE Tear(s)
    BY <2>2, TearFacts
  <2> QED
    BY <2>1, <2>2
<1>2. orphans' = orphans
  BY DEF Serve, Tear
<1> QED
  BY <1>1, <1>2, ServedSpent

\* What the steps of the thread that holds poolMtx_ spend.
LEMMA HolderSpent ==
  ASSUME TypeOK, Mutual, LiveOnce, NEW t \in Threads, pc[t] = "run", HolderStep(t), runs' = runs,
         phase = "command" => ~Pending(job[t].n)
  PROVE  /\ LiveOnce'
         /\ Steady \/ (Ordinary(t) /\ CommandSent(t) /\ Gains(job[t].server, job[t].n))
         /\ Retries(t) => ~Live(job[t].server, job[t].n)'
<1>1. /\ job[t].server \in Servers /\ job[t].n \in CallIds
      /\ Using => Target(t) \in Servers /\ (Ordinary(t) => Target(t) = job[t].server)
      /\ Ordinary(t) => ~Pinging(t)
  BY HolderFacts
<1>2. ASSUME Same PROVE Steady /\ LiveOnce'
  BY <1>2, SameSpent DEF Same
<1>3. ASSUME NEW s \in Servers, Erase(s)
      PROVE  Steady /\ LiveOnce' /\ \A n \in CallIds : ~Live(s, n)'
  <2>1. conn' = [conn EXCEPT ![s] = NoConn] /\ orphans' = Orphaned(s) /\ NoConn.requests = <<>>
    BY <1>3 DEF Erase, Close, NoConn
  <2> QED
    BY <2>1, ClosedSpent
<1>4. CASE Retries(t)
  <2>1. Erase(job[t].server) /\ job' = job
    BY <1>4 DEF Retries, Continue
  <2>2. Steady /\ LiveOnce' /\ ~Live(job[t].server, job[t].n)'
    <3>1. \A s \in Servers, n \in CallIds : Erase(s) => ~Live(s, n)'
      BY <1>3
    <3>2. PICK s \in Servers, n \in CallIds : s = job[t].server /\ n = job[t].n
      BY <1>1
    <3>3. ~Live(s, n)'
      BY <2>1, <3>1, <3>2
    <3>4. ~Live(job[t].server, job[t].n)'
      BY <2>1, <3>2, <3>3 DEF Live
    <3> QED
      BY <1>1, <1>3, <2>1, <3>4
  <2> QED
    BY <2>2
<1>5. ASSUME ~Retries(t)
      PROVE  LiveOnce' /\ (Steady \/ (Ordinary(t) /\ CommandSent(t) /\ Gains(job[t].server, job[t].n)))
  <2>1. CASE UsesClient(t) \/ NeedsClient(t) \/ PingsAll(t) \/ GivesUp(t) \/ PingsOne(t) \/ PacketLost(t)
    BY <1>2, <2>1 DEF UsesClient, NeedsClient, PingsAll, GivesUp, PingsOne, PacketLost
  <2>2. CASE StartsAfresh(t) \/ Removes(t)
    BY <1>1, <1>3, <2>2 DEF StartsAfresh, Removes
  <2>3. CASE PingFails(t)
    <3>1. Target(t) \in Servers
      BY <2>3, HolderFacts DEF PingFails, Target, Pinging, TypeOK, ControlTyped
    <3>2. Erase(Target(t))
      BY <2>3 DEF PingFails, NextPing
    <3> QED
      BY <1>3, <3>1, <3>2
  <2>4. CASE Opens(t) \/ Rejected(t)
    <3>1. PICK c \in Conns : /\ conn' = [conn EXCEPT ![job[t].server] = c] /\ c.requests = <<>>
                             /\ orphans' = Orphaned(job[t].server)
      BY <2>4, NewConnsTyped DEF Opens, Rejected, Close
    <3> QED
      BY <1>1, <3>1, ClosedSpent
  <2>9. CASE Accepted(t)
    BY <2>9, SameSpent DEF Accepted
  <2>5. CASE Fails(t)
    <3>1. UNCHANGED <<conn, orphans>>
      BY <2>5 DEF Fails
    <3> QED
      BY <3>1, SameSpent
  <2>6. CASE CommandSent(t)
    <3>1. PICK r \in Requests(job[t].n, FALSE, ~Pinging(t)) : Joins(Target(t), r)
      BY <2>6 DEF CommandSent
    <3>2. r \in Commands /\ r.call = job[t].n /\ r.run = ~Pinging(t)
      <4>1. PICK run \in BOOLEAN : run = ~Pinging(t)
        BY DEF Pinging
      <4>2. r \in Requests(job[t].n, FALSE, run)
        BY <3>1, <4>1
      <4>3. r \in Commands /\ r.call = job[t].n /\ r.run = run
        BY <1>1, <4>2, RequestsTyped
      <4> QED
        BY <4>1, <4>3
    <3>3. Target(t) \in Servers /\ ~Pending(r.call) /\ Using /\ phase = "command"
      BY <1>1, <2>6, <3>2 DEF CommandSent, Using
    <3>4. LiveOnce' /\ (r.run => Gains(Target(t), r.call)) /\ (~r.run => Steady)
      BY <3>1, <3>2, <3>3, JoinSpent
    <3>5. CASE Pinging(t)
      BY <3>2, <3>4, <3>5
    <3>6. CASE ~Pinging(t)
      <4>1. Ordinary(t)
        BY <3>3, <3>6, HolderFacts DEF Stage
      <4> QED
        BY <1>1, <2>6, <3>2, <3>3, <3>4, <3>6, <4>1
    <3> QED
      BY <3>5, <3>6
  <2>7. CASE EndSent(t)
    <3>1. PICK r \in Requests(job[t].n, TRUE, FALSE) : Joins(Target(t), r)
      BY <2>7 DEF EndSent
    <3>2. r \in Commands /\ ~r.run /\ Target(t) \in Servers
      BY <1>1, <2>7, <3>1, RequestsTyped DEF EndSent, Using
    <3> QED
      BY <3>1, <3>2, JoinSpent
  <2>8. CASE PingAnswered(t) \/ Answered(t) \/ ReadsOn(t)
    <3>1. PICK stop : Takes(Target(t), stop)
      BY <2>8 DEF PingAnswered, Answered, ReadsOn
    <3>2. \A u \in Servers : conn'[u].requests = conn[u].requests
      BY <3>1 DEF Takes, TypeOK, StoreTyped, Conns
    <3> QED
      BY <3>1, <3>2, SameSpent DEF Takes
  <2> QED
    BY <1>5, <2>1, <2>2, <2>3, <2>4, <2>5, <2>6, <2>7, <2>8, <2>9 DEF HolderStep
<1> QED
  BY <1>4, <1>5

\* What the holder spends is its own call's.
LEMMA OthersBudget ==
  ASSUME TypeOK, Mutual, Numbered, Budget, NEW t \in Threads, pc[t] = "run", calls' = calls,
         Steady \/ (Gains(job[t].server, job[t].n) /\ Spent(job[t].n) <= 1),
         pc'[t] # "wait", \A u \in Threads \ {t} : pc'[u] = pc[u] /\ job'[u] = job[u]
  PROVE  Bounded' /\ Unsent'
<1>1. job[t].n \in CallIds /\ job[t].n <= calls
  BY HolderFacts DEF Numbered
<1>2. \A n \in CallIds : Spent(n) \in Nat /\ Spent(n) <= 2 /\ (n > calls => Spent(n) = 0)
  BY SpentIs DEF Budget, Bounded
<1>3. ASSUME NEW n \in CallIds PROVE (Spent(n) <= 2 /\ (n > calls => Spent(n) = 0))'
  <2>1. Spent(n)' = Spent(n) \/ (n = job[t].n /\ Spent(n)' = Spent(n) + 1 /\ Spent(n) <= 1)
    BY DEF Steady, Gains
  <2>2. n \in Nat /\ calls \in Nat
    BY DEF CallIds, TypeOK, ControlTyped
  <2> HIDE DEF Spent
  <2> QED
    BY <1>1, <1>2, <2>1, <2>2
<1>4. ASSUME NEW u \in Threads, pc'[u] = "wait" PROVE Spent(job[u].n)' = 0
  <2>1. u # t /\ pc[u] = "wait" /\ job'[u] = job[u]
    BY <1>4
  <2>2. job[u] # NoJob /\ job[u] \in Jobs
    BY <2>1 DEF TypeOK, ControlTyped
  <2>3. PICK n \in CallIds : n = job[u].n
    BY <2>2 DEF Jobs
  <2>4. n # job[t].n /\ Spent(n) = 0
    BY <2>1, <2>3 DEF Numbered, Budget, Unsent
  <2>5. Spent(n)' = 0
    BY <2>4 DEF Steady, Gains
  <2>6. job'[u].n = n
    BY <2>1, <2>3
  <2> QED
    BY <2>5, <2>6 DEF Spent, Pending, Live
<1> QED
  BY <1>3, <1>4 DEF Bounded, Unsent

LEMMA GoBudget ==
  ASSUME TypeOK, Mutual, Numbered, Budget, NEW t \in Threads, pc[t] = "run",
         UNCHANGED <<pc, job, calls>>, NEW n \in CallIds, n = job[t].n,
         Steady \/ (Gains(job[t].server, n) /\ Spent(n) <= 1),
         Spent(n)' <= Allowance(t)', phase' \in {"connect", "auth", "command"} => ~Pending(n)'
  PROVE  Budget'
<1>1. Bounded' /\ Unsent'
  BY OthersBudget
<1>2. job'[t].n = n /\ job'[t].server = job[t].server
  OBVIOUS
<1>3. Spent(job[t].n)' = Spent(n)' /\ (Pending(job[t].n)' <=> Pending(n)')
  BY <1>2 DEF Spent, Pending, Live
<1>4. \A s \in Servers \ {job[t].server} : ~Live(s, n)'
  BY DEF Budget, WithinBudget, Steady, Gains
<1>5. \A s \in Servers : Live(s, job[t].n)' <=> Live(s, n)'
  BY <1>2 DEF Live
<1>6. WithinBudget(t)'
  BY <1>2, <1>3, <1>4, <1>5 DEF WithinBudget
<1>7. \A u \in Threads : pc'[u] = "run" => u = t
  BY HolderFacts
<1> QED
  BY <1>1, <1>6, <1>7 DEF Budget

LEMMA HolderBudget ==
  ASSUME TypeOK, Mutual, Numbered, LiveOnce, Budget, NEW t \in Threads, pc[t] = "run",
         HolderStep(t), UNCHANGED <<runs, calls>>
  PROVE  Budget'
<1>1. PICK n \in CallIds : n = job[t].n
  BY HolderFacts
<1>2. /\ LiveOnce'
      /\ Steady \/ (Ordinary(t) /\ CommandSent(t) /\ Gains(job[t].server, n))
      /\ Retries(t) => ~Live(job[t].server, job[t].n)'
  BY <1>1, HolderSpent DEF Budget, WithinBudget
<1>3. /\ Spent(n) \in Nat /\ Spent(n) <= Allowance(t) /\ (Pending(n) => Spent(n) >= 1)
      /\ phase \in {"connect", "auth", "command"} => ~Pending(n)
      /\ \A s \in Servers \ {job[t].server} : ~Live(s, n)
  BY <1>1, SpentIs DEF Budget, WithinBudget
<1>4. Stage(t) /\ fresh \in BOOLEAN /\ (Ordinary(t) <=> ~Pinging(t) /\ job[t].op # "remove")
  BY HolderFacts DEF TypeOK, ControlTyped
<1>5. ASSUME Steady PROVE Spent(n)' = Spent(n) /\ (Pending(n)' => Pending(n))
  BY <1>5 DEF Steady, Pending
<1>6. ASSUME Return(t, <<>>) \/ Return(t, got) \/ Return(t, WithHead(t)), Steady PROVE Budget'
  <2>1. pc'[t] = "idle" /\ \A u \in Threads \ {t} : pc'[u] = pc[u] /\ job'[u] = job[u]
    BY <1>6 DEF Return, TypeOK, ControlTyped
  <2>2. Bounded' /\ Unsent'
    BY <1>6, <2>1, OthersBudget
  <2>3. \A u \in Threads : pc'[u] # "run"
    BY <2>1, HolderFacts
  <2> QED
    BY <2>2, <2>3 DEF Budget
<1> HIDE DEF Spent, Live, Pending
<1>7. CASE UsesClient(t)
  <2>1. Allowance(t) = 0 /\ Steady
    BY <1>2, <1>4, <1>7 DEF UsesClient, Allowance, CommandSent, Stage
  <2>2. UNCHANGED <<pc, job>> /\ phase' = "command"
    BY <1>7 DEF UsesClient, Continue
  <2>3. Spent(n)' = 0 /\ ~Pending(n)' /\ 0 <= Allowance(t)'
    BY <1>3, <1>5, <2>1 DEF Allowance
  <2> QED
    BY <1>1, <2>1, <2>2, <2>3, GoBudget
<1>8. CASE NeedsClient(t) \/ StartsAfresh(t) \/ PingsAll(t)
  <2>1. Allowance(t) = 0 /\ Steady
    <3>1. phase = "lookup" /\ ~fresh
      BY <1>4, <1>8 DEF NeedsClient, StartsAfresh, PingsAll, Stage
    <3> QED
      BY <1>2, <3>1 DEF Allowance, CommandSent
  <2>2. UNCHANGED <<pc, job>>
    BY <1>8 DEF NeedsClient, StartsAfresh, PingsAll, Continue
  <2>3. Spent(n)' = 0 /\ ~Pending(n)' /\ 0 <= Allowance(t)'
    BY <1>3, <1>5, <2>1 DEF Allowance
  <2> QED
    BY <1>1, <2>1, <2>2, <2>3, GoBudget
<1>9. CASE Removes(t) \/ GivesUp(t) \/ Rejected(t) \/ Fails(t) \/ Answered(t)
  <2>1. Return(t, <<>>) \/ Return(t, got) \/ Return(t, WithHead(t))
    BY <1>9 DEF Removes, GivesUp, Rejected, Fails, Answered
  <2>2. CASE Steady
    BY <1>6, <2>1, <2>2
  <2>3. CASE CommandSent(t)
    <3>1. pc' = pc /\ pc'[t] = "idle"
      BY <2>1, <2>3 DEF CommandSent, Continue, Return, TypeOK, ControlTyped
    <3> QED
      BY <3>1
  <2> QED
    BY <1>2, <2>2, <2>3
<1>10. CASE Opens(t) \/ Accepted(t)
  <2>1. Steady /\ Ordinary(t) /\ Allowance(t) = 1 /\ ~Pending(n)
    <3>1. phase \in {"connect", "auth"} /\ Ordinary(t)
      BY <1>4, <1>10 DEF Opens, Accepted, Stage
    <3>2. Allowance(t) = 1
      BY <3>1 DEF Allowance
    <3>3. ~CommandSent(t)
      BY <3>1 DEF CommandSent
    <3> QED
      BY <1>2, <1>3, <3>1, <3>2, <3>3
  <2>2. UNCHANGED <<pc, job>> /\ (phase' = "auth" \/ (phase' = "command" /\ fresh'))
    BY <1>10 DEF Opens, Accepted, Continue
  <2>3. Allowance(t)' = 1
    BY <2>1, <2>2 DEF Allowance, Ordinary
  <2> QED
    BY <1>1, <1>3, <1>5, <2>1, <2>2, <2>3, GoBudget
<1>11. CASE PingsOne(t) \/ PingFails(t) \/ PingAnswered(t)
  <2>1. Pinging(t) /\ Allowance(t) = 0 /\ Steady
    <3>1. Pinging(t)
      BY <1>4, <1>11 DEF PingsOne, PingFails, PingAnswered, Stage
    <3> QED
      BY <1>2, <1>4, <3>1 DEF Allowance
  <2>2. UNCHANGED <<pc, job>>
    BY <1>11 DEF PingsOne, PingFails, NextPing, PingAnswered, Continue
  <2>3. Spent(n)' = 0 /\ ~Pending(n)' /\ 0 <= Allowance(t)'
    BY <1>3, <1>5, <2>1 DEF Allowance
  <2> QED
    BY <1>1, <2>1, <2>2, <2>3, GoBudget
<1>12. CASE Retries(t)
  <2>1. Ordinary(t) /\ ~fresh /\ Allowance(t) <= 1 /\ Steady
    BY <1>2, <1>12 DEF Retries, CommandSent, Continue, Ordinary, Allowance, Using
  <2>2. UNCHANGED <<pc, job>> /\ phase' = "connect"
    BY <1>12 DEF Retries, Continue
  <2>3. Allowance(t)' = 1
    BY <2>1, <2>2 DEF Allowance, Ordinary
  <2>4. ~Live(job[t].server, n)'
    BY <1>1, <1>2, <1>12, <2>2 DEF Live
  <2>5. ~Pending(n)'
    <3> SUFFICES ASSUME NEW s \in Servers, Live(s, n)' PROVE FALSE
      BY DEF Pending
    <3>1. Live(s, n)
      BY <2>1 DEF Steady
    <3>2. s = job[t].server
      BY <1>3, <3>1
    <3> QED
      BY <2>2, <2>4, <3>2
  <2>6. Spent(n)' <= 1
    BY <1>3, <1>5, <2>1, Allowance(t) \in Nat DEF Allowance
  <2> QED
    BY <1>1, <2>1, <2>2, <2>3, <2>5, <2>6, GoBudget
<1>13. CASE CommandSent(t) /\ Ordinary(t)
  <2>1. Allowance(t) = (IF fresh THEN 1 ELSE 0) /\ UNCHANGED <<pc, job, fresh>> /\ phase' = "end"
    BY <1>13 DEF CommandSent, Continue, IoSame, Allowance
  <2>2. Allowance(t)' = IF fresh THEN 2 ELSE 1
    BY <1>13, <2>1 DEF Allowance, Ordinary
  <2>3. Spent(n)' = Spent(n) \/ Spent(n)' = Spent(n) + 1
    BY <1>2 DEF Steady, Gains
  <2>4. Spent(n)' <= Allowance(t)' /\ Spent(n) <= 1
    BY <1>3, <2>1, <2>2, <2>3
  <2> QED
    BY <1>1, <1>2, <2>1, <2>4, GoBudget
<1>14. CASE (CommandSent(t) /\ ~Ordinary(t)) \/ EndSent(t) \/ PacketLost(t) \/ ReadsOn(t)
  <2>1. UNCHANGED <<pc, job, fresh>> /\ phase' \in {"end", "read"} /\ phase \in {"command", "end", "read"}
    BY <1>14 DEF CommandSent, EndSent, PacketLost, ReadsOn, Continue, IoSame
  <2>2. Steady \/ (Ordinary(t) /\ CommandSent(t))
    BY <1>2
  <2>3. CASE Steady
    <3>1. Allowance(t) <= Allowance(t)' /\ Allowance(t) \in Nat /\ Allowance(t)' \in Nat
      BY <1>4, <2>1 DEF Allowance, Ordinary
    <3>2. Spent(n)' <= Allowance(t)'
      BY <1>3, <1>5, <2>3, <3>1
    <3> QED
      BY <1>1, <2>1, <2>3, <3>2, GoBudget
  <2>4. CASE Ordinary(t) /\ CommandSent(t)
    BY <1>13, <2>4
  <2> QED
    BY <2>2, <2>3, <2>4
<1> QED
  BY <1>2, <1>7, <1>8, <1>9, <1>10, <1>11, <1>12, <1>13, <1>14 DEF HolderStep

\* The servers and the network spend nothing.
LEMMA EnvironmentSpent ==
  ASSUME TypeOK, LiveOnce, Environment
  PROVE  Steady /\ LiveOnce' /\ UNCHANGED <<pc, job, phase, fresh, calls>>
<1>1. ASSUME NEW s \in Servers, Serve(s) \/ Tear(s) PROVE Steady /\ LiveOnce'
  BY <1>1, ServeSpent
<1>5. ASSUME NEW s \in Servers, Mend(s) PROVE Steady /\ LiveOnce'
  <2>1. \A u \in Servers : conn'[u].requests = conn[u].requests
    BY <1>5 DEF Mend, TypeOK, StoreTyped, Conns
  <2> QED
    BY <1>5, <2>1, SameSpent DEF Mend
<1>2. ASSUME NEW s \in Servers, Drop(s) PROVE Steady /\ LiveOnce'
  <2>1. PICK c \in Conns : /\ conn' = [conn EXCEPT ![s] = c] /\ c.requests = <<>>
                           /\ orphans' = Orphaned(s) /\ runs' = runs
    BY <1>2, DropFacts
  <2> QED
    BY <2>1, ClosedSpent
<1>3. ASSUME NEW m \in CallIds, ServeOrphan(m) PROVE Steady /\ LiveOnce'
  <2>1. /\ orphans[m] > 0 /\ conn' = conn
        /\ orphans' = [orphans EXCEPT ![m] = @ - 1] /\ runs' = [runs EXCEPT ![m] = @ + 1]
    BY <1>3 DEF ServeOrphan
  <2>2. \A n \in CallIds : runs[n] \in Nat /\ orphans[n] \in Nat
                           /\ runs'[n] + orphans'[n] = runs[n] + orphans[n]
    BY <2>1 DEF TypeOK, StoreTyped
  <2>3. \A n \in CallIds : \A s \in Servers : Live(s, n)' <=> Live(s, n)
    BY <2>1 DEF Live
  <2>4. \A n \in CallIds : Pending(n)' <=> Pending(n)
    BY <2>3 DEF Pending
  <2>5. \A n \in CallIds : Spent(n)' = Spent(n)
    BY <2>2, <2>4 DEF Spent
  <2>6. LiveOnce'
    BY <2>1 DEF LiveOnce
  <2> QED
    BY <2>3, <2>5, <2>6 DEF Steady
<1>4. UNCHANGED <<pc, job, phase, fresh, calls>>
  BY DEF Environment, Serve, Tear, Mend, Drop, ServeOrphan, io
<1> QED
  BY <1>1, <1>2, <1>3, <1>4, <1>5 DEF Environment

LEMMA SteadyBudget ==
  ASSUME TypeOK, Mutual, Budget, Steady, UNCHANGED <<pc, job, phase, fresh, calls>>
  PROVE  Budget'
<1>1. Bounded'
  BY DEF Budget, Bounded, Steady
<1>2. ASSUME NEW t \in Threads, pc[t] # "idle"
      PROVE  /\ job[t].n \in CallIds /\ Spent(job[t].n)' = Spent(job[t].n)
             /\ \A s \in Servers : Live(s, job[t].n)' => Live(s, job[t].n)
  <2>1. PICK n \in CallIds : n = job[t].n
    BY <1>2 DEF TypeOK, ControlTyped, Jobs
  <2>2. job'[t].n = n
    BY <2>1
  <2>3. Spent(job[t].n)' = Spent(n)' /\ \A s \in Servers : Live(s, job[t].n)' <=> Live(s, n)'
    BY <2>2 DEF Spent, Pending, Live
  <2>4. Spent(n)' = Spent(n) /\ \A s \in Servers : Live(s, n)' => Live(s, n)
    BY DEF Steady
  <2> QED
    BY <2>1, <2>3, <2>4
<1>3. Unsent'
  BY <1>2 DEF Budget, Unsent
<1>4. ASSUME NEW t \in Threads, pc[t] = "run" PROVE WithinBudget(t)'
  <2>1. WithinBudget(t) /\ Allowance(t)' = Allowance(t)
    BY <1>4 DEF Budget, Allowance, Ordinary
  <2>2. Pending(job[t].n)' => Pending(job[t].n)
    BY <1>2, <1>4 DEF Pending
  <2> QED
    BY <1>2, <1>4, <2>1, <2>2 DEF WithinBudget
<1> QED
  BY <1>1, <1>3, <1>4 DEF Budget

LEMMA WaitBudget ==
  ASSUME TypeOK, Mutual, Numbered, LiveOnce, Budget, NEW t \in Threads,
         (\E op \in Ops, s \in Servers : Call(t, op, s)) \/ Acquire(t)
  PROVE  Budget' /\ LiveOnce'
<1>1. UNCHANGED <<conn, orphans, runs>>
  BY DEF Call, Acquire, net
<1>2. Steady /\ LiveOnce'
  BY <1>1, SameSpent
<1>3. \A n \in CallIds, s \in Servers : (Live(s, n)' <=> Live(s, n)) /\ (Pending(n)' <=> Pending(n))
  BY <1>1 DEF Live, Pending
<1>4. \A n \in CallIds : Spent(n)' = Spent(n)
  BY <1>2 DEF Steady
<1>5. ASSUME NEW op \in Ops, NEW s \in Servers, Call(t, op, s) PROVE Budget'
  <2>1. /\ pc[t] = "idle" /\ calls' = calls + 1 /\ calls + 1 \in CallIds /\ calls \in Nat
        /\ pc'[t] = "wait" /\ job'[t].n = calls + 1
        /\ \A u \in Threads \ {t} : pc'[u] = pc[u] /\ job'[u] = job[u]
        /\ UNCHANGED <<phase, fresh>>
    BY <1>5, RconAssumption DEF Call, TypeOK, ControlTyped, CallIds, io
  <2>2. Bounded'
    <3>1. \A n \in CallIds : n > calls + 1 => n > calls
      BY <2>1 DEF CallIds
    <3> QED
      BY <1>4, <2>1, <3>1 DEF Budget, Bounded
  <2>3. PICK m \in CallIds : m = calls + 1
    BY <2>1
  <2>4. Spent(m) = 0
    BY <2>1, <2>3 DEF Budget, Bounded
  <2>5. ASSUME NEW u \in Threads, pc'[u] = "wait" PROVE Spent(job[u].n)' = 0
    <3>1. PICK n \in CallIds : n = job'[u].n /\ Spent(n) = 0
      <4>1. CASE u = t
        BY <2>1, <2>3, <2>4, <4>1
      <4>2. CASE u # t
        <5>1. pc[u] = "wait" /\ job'[u] = job[u] /\ Spent(job[u].n) = 0
          BY <2>1, <2>5, <4>2 DEF Budget, Unsent
        <5>2. job[u].n \in CallIds
          BY <5>1 DEF TypeOK, ControlTyped, Jobs
        <5> QED
          BY <5>1, <5>2
      <4> QED
        BY <4>1, <4>2
    <3>2. Spent(n)' = 0
      BY <1>4, <3>1
    <3> QED
      BY <3>1, <3>2 DEF Spent, Pending, Live
  <2>6. ASSUME NEW u \in Threads, pc'[u] = "run" PROVE WithinBudget(u)'
    <3>1. u # t /\ pc[u] = "run" /\ job'[u] = job[u] /\ WithinBudget(u)
      BY <2>1, <2>6 DEF Budget
    <3>2. PICK n \in CallIds : n = job[u].n
      BY <3>1 DEF TypeOK, ControlTyped, Jobs
    <3>3. Spent(job[u].n)' = Spent(n)' /\ (Pending(job[u].n)' <=> Pending(n)')
          /\ \A v \in Servers : Live(v, job[u].n)' <=> Live(v, n)'
      BY <3>1, <3>2 DEF Spent, Pending, Live
    <3>4. Allowance(u)' = Allowance(u) /\ job'[u].server = job[u].server
      BY <2>1, <3>1 DEF Allowance, Ordinary
    <3>5. phase' = phase
      BY <2>1
    <3> HIDE DEF Spent, Pending, Live, Allowance
    <3> QED
      BY <1>3, <1>4, <3>1, <3>2, <3>3, <3>4, <3>5 DEF WithinBudget
  <2> QED
    BY <2>2, <2>5, <2>6 DEF Budget, Unsent
<1>6. ASSUME Acquire(t) PROVE Budget'
  <2>1. /\ pc[t] = "wait" /\ pc'[t] = "run" /\ phase' = "lookup" /\ UNCHANGED <<job, fresh, calls>>
        /\ \A u \in Threads \ {t} : pc'[u] = pc[u] /\ pc[u] # "run"
        /\ ~fresh
    BY <1>6, RconAssumption DEF Acquire, TypeOK, ControlTyped, Mutual
  <2>2. PICK n \in CallIds : n = job[t].n
    BY <2>1 DEF TypeOK, ControlTyped, Jobs
  <2>3. Spent(n) = 0 /\ ~Pending(n)
    BY <2>1, <2>2, SpentIs DEF Budget, Unsent
  <2>4. Spent(job[t].n)' = Spent(n)' /\ \A v \in Servers : Live(v, job[t].n)' <=> Live(v, n)'
    BY <2>1, <2>2 DEF Spent, Pending, Live
  <2>5. WithinBudget(t)'
    <3>1. Spent(job[t].n)' = 0 /\ \A v \in Servers : ~Live(v, job[t].n)'
      BY <1>3, <1>4, <2>3, <2>4 DEF Pending
    <3>2. 0 <= Allowance(t)'
      BY <2>1 DEF Allowance
    <3> QED
      BY <2>1, <3>1, <3>2 DEF WithinBudget
  <2>6. Bounded'
    BY <1>4, <2>1 DEF Budget, Bounded
  <2>7. ASSUME NEW u \in Threads, pc'[u] = "wait" PROVE Spent(job[u].n)' = 0
    <3>1. pc[u] = "wait"
      BY <2>1, <2>7
    <3>2. PICK k \in CallIds : k = job[u].n
      BY <3>1 DEF TypeOK, ControlTyped, Jobs
    <3>3. Spent(k)' = 0
      BY <1>4, <3>1, <3>2 DEF Budget, Unsent
    <3> QED
      BY <2>1, <3>2, <3>3 DEF Spent, Pending, Live
  <2> QED
    BY <2>1, <2>5, <2>6, <2>7 DEF Budget, Unsent
<1> QED
  BY <1>2, <1>5, <1>6

\* The numbers of the calls.
LEMMA NumberedStep ==
  ASSUME TypeOK, Mutual, Numbered, [Next]_vars
  PROVE  Numbered'
<1>1. ASSUME NEW t \in Threads, \A u \in Threads \ {t} : pc'[u] = pc[u] /\ job'[u] = job[u],
             pc'[t] = "idle" \/ (pc[t] # "idle" /\ job'[t] = job[t]), calls' = calls
      PROVE  Numbered'
  <2>1. \A u \in Threads : pc'[u] # "idle" => pc[u] # "idle" /\ job'[u] = job[u]
    BY <1>1
  <2> QED
    BY <1>1, <2>1 DEF Numbered
<1>2. ASSUME UNCHANGED <<pc, job, calls>> PROVE Numbered'
  BY <1>2 DEF Numbered
<1>3. ASSUME NEW t \in Threads, NEW op \in Ops, NEW s \in Servers, Call(t, op, s) PROVE Numbered'
  <2>1. /\ pc[t] = "idle" /\ calls' = calls + 1 /\ calls \in Nat /\ job'[t].n = calls + 1
        /\ \A u \in Threads \ {t} : pc'[u] = pc[u] /\ job'[u] = job[u]
    BY <1>3, RconAssumption DEF Call, TypeOK, ControlTyped
  <2>2. \A u \in Threads \ {t} : pc'[u] # "idle" => job[u].n <= calls /\ job[u].n \in Nat
    BY <2>1 DEF Numbered, TypeOK, ControlTyped, Jobs, CallIds
  <2>3. \A u \in Threads : pc'[u] # "idle" => job'[u].n <= calls'
    BY <2>1, <2>2
  <2>4. ASSUME NEW u \in Threads, NEW v \in Threads, pc'[u] # "idle", pc'[v] # "idle", u # v
        PROVE  job'[u].n # job'[v].n
    <3>1. CASE u # t /\ v # t
      BY <2>1, <2>4, <3>1 DEF Numbered
    <3>2. CASE u = t \/ v = t
      BY <2>1, <2>2, <2>4, <3>2
    <3> QED
      BY <3>1, <3>2
  <2> QED
    BY <2>3, <2>4 DEF Numbered
<1>4. ASSUME NEW t \in Threads, Acquire(t) PROVE Numbered'
  <2>1. /\ pc[t] = "wait" /\ job' = job /\ calls' = calls
        /\ \A u \in Threads \ {t} : pc'[u] = pc[u]
    BY <1>4 DEF Acquire, TypeOK, ControlTyped
  <2> QED
    BY <1>1, <2>1
<1>5. ASSUME NEW t \in Threads, Holding(t) PROVE Numbered'
  <2>1. pc[t] = "run" /\ HolderStep(t) /\ calls' = calls
    BY <1>5, HoldingCases
  <2>2. UNCHANGED <<pc, job>> \/ (\E reply : Return(t, reply))
    BY <2>1 DEF HolderStep, UsesClient, NeedsClient, StartsAfresh, Removes, PingsAll, GivesUp,
                Opens, Accepted, Rejected, PingsOne, PingFails, NextPing, Retries, Fails, CommandSent, EndSent,
                PacketLost, PingAnswered, Answered, ReadsOn, Continue
  <2>3. ASSUME NEW reply, Return(t, reply) PROVE Numbered'
    <3>1. pc'[t] = "idle" /\ \A u \in Threads \ {t} : pc'[u] = pc[u] /\ job'[u] = job[u]
      BY <2>3 DEF Return, TypeOK, ControlTyped
    <3> QED
      BY <1>1, <2>1, <3>1
  <2> QED
    BY <1>2, <2>1, <2>2, <2>3
<1>6. CASE Environment
  BY <1>2, <1>6 DEF Environment, Serve, Tear, Mend, Drop, ServeOrphan
<1>7. CASE UNCHANGED vars
  BY <1>2, <1>7 DEF vars
<1> QED
  BY <1>3, <1>4, <1>5, <1>6, <1>7 DEF Next

SpentInv == TypeOK /\ Mutual /\ Numbered /\ LiveOnce /\ Budget

LEMMA InitSpent == Init => SpentInv
<1> SUFFICES ASSUME Init PROVE SpentInv
  OBVIOUS
<1>1. TypeOK /\ Mutual
  BY InitTypes
<1>2. \A s \in Servers : 1..Len(conn[s].requests) = {}
  <2>1. \A s \in Servers : conn[s].requests = <<>>
    BY DEF Init, NoConn
  <2> QED
    BY <2>1, EmptySeq
<1>3. \A n \in CallIds : ~Pending(n)
  BY <1>2 DEF Pending, Live
<1>4. \A n \in CallIds : Spent(n) = 0
  BY <1>3 DEF Spent, Init
<1>5. \A t \in Threads : pc[t] = "idle"
  BY DEF Init
<1>6. Numbered /\ LiveOnce
  BY <1>2, <1>5 DEF Numbered, LiveOnce
<1>7. Budget
  BY <1>4, <1>5 DEF Budget, Bounded, Unsent
<1> QED
  BY <1>1, <1>6, <1>7 DEF SpentInv

LEMMA SpentInvariance == SpentInv /\ [Next]_vars => SpentInv'
<1> SUFFICES ASSUME SpentInv, [Next]_vars PROVE SpentInv'
  OBVIOUS
<1>1. TypeOK /\ Mutual /\ Numbered /\ LiveOnce /\ Budget
  BY DEF SpentInv
<1>2. TypeOK' /\ Mutual' /\ Numbered'
  BY <1>1, TypeInvariance, NumberedStep
<1>3. ASSUME NEW t \in Threads, (\E op \in Ops, s \in Servers : Call(t, op, s)) \/ Acquire(t)
      PROVE  Budget' /\ LiveOnce'
  BY <1>1, <1>3, WaitBudget
<1>4. ASSUME NEW t \in Threads, Holding(t) PROVE Budget' /\ LiveOnce'
  <2>1. pc[t] = "run" /\ HolderStep(t) /\ UNCHANGED <<runs, calls>>
    BY <1>1, <1>4, HoldingCases
  <2>2. phase = "command" => ~Pending(job[t].n)
    BY <1>1, <2>1 DEF Budget, WithinBudget
  <2> QED
    BY <1>1, <2>1, <2>2, HolderBudget, HolderSpent
<1>5. ASSUME Environment PROVE Budget' /\ LiveOnce'
  BY <1>1, <1>5, EnvironmentSpent, SteadyBudget
<1>6. ASSUME UNCHANGED vars PROVE Budget' /\ LiveOnce'
  <2>1. UNCHANGED <<pc, job, phase, fresh, calls, conn, runs, orphans>>
    BY <1>6 DEF vars
  <2> QED
    BY <1>1, <2>1, SameSpent, SteadyBudget
<1>7. Budget' /\ LiveOnce'
  BY <1>3, <1>4, <1>5, <1>6 DEF Next
<1> QED
  BY <1>2, <1>7 DEF SpentInv

\* A command is executed at most twice, however many threads share the pool,
\* whatever is lost and however late a closed connection delivers.
THEOREM CommandsRunTwiceAtMost == Spec => []AtMostTwice
<1>1. Init => SpentInv
  BY InitSpent
<1>2. SpentInv /\ [Next]_vars => SpentInv'
  BY SpentInvariance
<1>3. SpentInv => AtMostTwice
  <2> SUFFICES ASSUME SpentInv, NEW n \in CallIds PROVE runs[n] <= 2
    BY DEF AtMostTwice
  <2>1. runs[n] \in Nat /\ Spent(n) \in Nat /\ runs[n] <= Spent(n) /\ Spent(n) <= 2
    BY SpentIs DEF SpentInv, Budget, Bounded, TypeOK, StoreTyped
  <2> HIDE DEF Spent
  <2> QED
    BY <2>1
<1> QED
  BY <1>1, <1>2, <1>3, PTL DEF Spec

--------------------------------------------------------------------------------
(* Whose packets a reply is made of.                                        *)

LEMMA WithHeadOwn ==
  ASSUME TypeOK, Mutual, RepliesOwn, NEW t \in Threads, pc[t] = "run", Using,
         conn[Target(t)].packets # <<>>
  PROVE  WithHead(t) \in Seq(CallIds) /\ \A i \in 1..Len(WithHead(t)) : WithHead(t)[i] = job[t].n
<1>1. WithHead(t) \in Seq(CallIds)
  BY WithHeadTyped
<1>2. PICK n : n = job[t].n
  OBVIOUS
<1>3. got \in Seq(CallIds) /\ Len(got) \in Nat /\ n \in CallIds /\ \A i \in 1..Len(got) : got[i] = n
  BY <1>2, HolderFacts, LenProperties DEF TypeOK, ControlTyped, RepliesOwn
<1>4. WithHead(t) = got \/ WithHead(t) = Append(got, n)
  BY <1>2 DEF WithHead, OwnPacket
<1>5. CASE WithHead(t) = got
  BY <1>1, <1>2, <1>3, <1>5
<1>6. CASE WithHead(t) = Append(got, n)
  <2>1. /\ Len(Append(got, n)) = Len(got) + 1 /\ Append(got, n)[Len(got) + 1] = n
        /\ \A i \in 1..Len(got) : Append(got, n)[i] = got[i]
    BY <1>3, AppendProperties
  <2>2. \A i \in 1..Len(got) + 1 : i \in 1..Len(got) \/ i = Len(got) + 1
    BY <1>3
  <2>3. \A i \in 1..Len(Append(got, n)) : Append(got, n)[i] = n
    BY <1>3, <2>1, <2>2
  <2> QED
    BY <1>1, <1>2, <1>6, <2>3
<1> QED
  BY <1>4, <1>5, <1>6

LEMMA RepliesStep ==
  ASSUME TypeOK, Mutual, RepliesOwn, [Next]_vars
  PROVE  RepliesOwn'
<1>1. ASSUME UNCHANGED <<replies, got>>, \A t \in Threads : pc'[t] = "run" => pc[t] = "run" /\ job'[t] = job[t]
      PROVE  RepliesOwn'
  BY <1>1 DEF RepliesOwn, ReplyIsOwn
<1>2. ASSUME NEW t \in Threads, NEW op \in Ops, NEW s \in Servers, Call(t, op, s) PROVE RepliesOwn'
  <2>1. /\ UNCHANGED <<replies, got>> /\ pc'[t] = "wait"
        /\ \A u \in Threads \ {t} : pc'[u] = pc[u] /\ job'[u] = job[u]
    BY <1>2 DEF Call, io, TypeOK, ControlTyped
  <2> QED
    BY <1>1, <2>1
<1>3. ASSUME NEW t \in Threads, Acquire(t) PROVE RepliesOwn'
  <2>1. replies' = replies /\ got' = <<>>
    BY <1>3 DEF Acquire, Mutual
  <2>2. 1..Len(got') = {}
    BY <2>1, EmptySeq
  <2> QED
    BY <2>1, <2>2 DEF RepliesOwn, ReplyIsOwn
<1>4. ASSUME NEW t \in Threads, Holding(t) PROVE RepliesOwn'
  <2>1. pc[t] = "run" /\ HolderStep(t)
    BY <1>4, HoldingCases
  <2>2. PICK n \in CallIds : n = job[t].n
    BY <2>1, HolderFacts
  <2>3. \A u \in Threads \ {t} : pc[u] # "run"
    BY <2>1, HolderFacts
  <2>4. ASSUME NEW reply, \A i \in 1..Len(reply) : reply[i] = n, reply \in Seq(CallIds),
               Return(t, reply)
        PROVE  RepliesOwn'
    <3>1. \A u \in Threads : pc'[u] # "run"
      BY <2>3, <2>4 DEF Return, TypeOK, ControlTyped
    <3>2. replies' = [replies EXCEPT ![n] = reply]
      BY <2>2, <2>4 DEF Return
    <3>3. DOMAIN reply = 1..Len(reply)
      BY <2>4, LenProperties
    <3>4. ReplyIsOwn'
      <4> SUFFICES ASSUME NEW m \in CallIds, NEW i \in DOMAIN replies'[m] PROVE replies'[m][i] = m
        BY DEF ReplyIsOwn
      <4>1. CASE m = n
        BY <2>4, <3>2, <3>3, <4>1 DEF TypeOK, ControlTyped
      <4>2. CASE m # n
        BY <3>2, <4>2 DEF RepliesOwn, ReplyIsOwn, TypeOK, ControlTyped
      <4> QED
        BY <4>1, <4>2
    <3> QED
      BY <3>1, <3>4 DEF RepliesOwn
  <2>5. ASSUME UNCHANGED <<pc, job, replies>>, \A i \in 1..Len(got') : got'[i] = n PROVE RepliesOwn'
    BY <2>2, <2>3, <2>5 DEF RepliesOwn, ReplyIsOwn
  <2>6. 1..Len(<<>>) = {} /\ <<>> \in Seq(CallIds) /\ got \in Seq(CallIds)
        /\ \A i \in 1..Len(got) : got[i] = n
    BY <2>1, <2>2, EmptySeq DEF TypeOK, ControlTyped, RepliesOwn
  <2>7. CASE \/ UsesClient(t) \/ NeedsClient(t) \/ StartsAfresh(t) \/ PingsAll(t) \/ Opens(t)
             \/ Accepted(t) \/ PingsOne(t) \/ CommandSent(t) \/ EndSent(t) \/ PacketLost(t)
    <3>1. UNCHANGED <<pc, job, replies, got>>
      BY <2>7 DEF UsesClient, NeedsClient, StartsAfresh, PingsAll, Opens, Accepted, PingsOne,
                  CommandSent, EndSent, PacketLost, Continue, IoSame
    <3> QED
      BY <2>5, <2>6, <3>1
  <2>8. CASE PingFails(t) \/ Retries(t) \/ PingAnswered(t)
    <3>1. UNCHANGED <<pc, job, replies>> /\ got' = <<>>
      BY <2>8 DEF PingFails, NextPing, Retries, PingAnswered, Continue
    <3> QED
      BY <2>5, <2>6, <3>1
  <2>9. CASE Removes(t) \/ GivesUp(t) \/ Rejected(t) \/ Fails(t)
    <3>1. Return(t, <<>>) \/ Return(t, got)
      BY <2>9 DEF Removes, GivesUp, Rejected, Fails
    <3> QED
      BY <2>4, <2>6, <3>1
  <2>10. CASE Answered(t) \/ ReadsOn(t)
    <3>1. Using /\ conn[Target(t)].packets # <<>>
      BY <2>10 DEF Answered, ReadsOn, Takes, Using
    <3>2. WithHead(t) \in Seq(CallIds) /\ \A i \in 1..Len(WithHead(t)) : WithHead(t)[i] = n
      BY <2>1, <2>2, <3>1, WithHeadOwn
    <3>3. CASE Answered(t)
      BY <2>4, <3>2, <3>3 DEF Answered
    <3>4. CASE ReadsOn(t)
      <4>1. UNCHANGED <<pc, job, replies>> /\ got' = WithHead(t)
        BY <3>4 DEF ReadsOn
      <4> QED
        BY <2>5, <3>2, <4>1
    <3> QED
      BY <2>10, <3>3, <3>4
  <2> QED
    BY <2>1, <2>7, <2>8, <2>9, <2>10 DEF HolderStep
<1>5. CASE Environment
  <2>1. UNCHANGED <<replies, got, pc, job>>
    BY <1>5 DEF Environment, Serve, Tear, Mend, Drop, ServeOrphan, io
  <2> QED
    BY <1>1, <2>1
<1>6. CASE UNCHANGED vars
  BY <1>1, <1>6 DEF vars
<1> QED
  BY <1>2, <1>3, <1>4, <1>5, <1>6 DEF Next

\* A quiet stream is right for whatever comes, and the other facts follow.
LEMMA QuietIsSound ==
  ASSUME NEW s, Quiet(s)
  PROVE  NoEnd(s) /\ EndsLast(s) /\ StreamOk(s)
<1>1. 1..Len(conn[s].packets) = {} /\ 1..Len(conn[s].requests) = {}
  BY EmptySeq DEF Quiet
<1>2. NoEnd(s) /\ EndsLast(s)
  BY <1>1 DEF NoEnd, EndsLast
<1> QED
  BY <1>2 DEF StreamOk

LEMMA NoEndIsEndsLast ==
  ASSUME NEW s, NoEnd(s)
  PROVE  EndsLast(s)
BY DEF NoEnd, EndsLast

\* The commands on a stream after one has been sent.
LEMMA JoinsFacts ==
  ASSUME TypeOK, NEW s \in Servers, NEW r \in Commands, Joins(s, r)
  PROVE  /\ conn'[s].packets = conn[s].packets /\ conn'[s].cut = conn[s].cut
         /\ \A i \in 1..Len(conn'[s].requests) :
              \/ i \in 1..Len(conn[s].requests) /\ conn'[s].requests[i] = conn[s].requests[i]
                 /\ i # Len(conn'[s].requests)
              \/ i = Len(conn'[s].requests) /\ conn'[s].requests[i] = r
         /\ \A u \in Servers \ {s} : conn'[u] = conn[u]
<1>1. conn[s].requests \in Seq(Commands) /\ Len(conn[s].requests) \in Nat
  BY LenOf DEF TypeOK, StoreTyped, Conns
<1>2. /\ conn'[s].requests = Append(conn[s].requests, r)
      /\ conn'[s].packets = conn[s].packets /\ conn'[s].cut = conn[s].cut
      /\ \A u \in Servers \ {s} : conn'[u] = conn[u]
  BY DEF Joins, TypeOK, StoreTyped, Conns
<1>3. /\ Len(conn'[s].requests) = Len(conn[s].requests) + 1
      /\ conn'[s].requests[Len(conn[s].requests) + 1] = r
      /\ \A i \in 1..Len(conn[s].requests) : conn'[s].requests[i] = conn[s].requests[i]
  BY <1>1, <1>2, AppendProperties
<1>4. \A i \in 1..Len(conn'[s].requests) :
        (i \in 1..Len(conn[s].requests) /\ i # Len(conn'[s].requests)) \/ i = Len(conn[s].requests) + 1
  BY <1>1, <1>3
<1> QED
  BY <1>2, <1>3, <1>4

\* The packets on a stream after one has been taken.
LEMMA TakesFacts ==
  ASSUME TypeOK, NEW s \in Servers, NEW stop \in BOOLEAN, Takes(s, stop)
  PROVE  /\ conn'[s].requests = conn[s].requests /\ (conn'[s].cut <=> conn[s].cut \/ stop)
         /\ Len(conn[s].packets) \in Nat \ {0} /\ Head(conn[s].packets) = conn[s].packets[1]
         /\ conn'[s].packets \in Seq(Packets)
         /\ Len(conn'[s].packets) = Len(conn[s].packets) - 1
         /\ \A i \in 1..Len(conn'[s].packets) : conn'[s].packets[i] = conn[s].packets[i + 1]
         /\ \A u \in Servers \ {s} : conn'[u] = conn[u]
<1>1. conn[s].packets \in Seq(Packets) /\ conn[s].packets # <<>>
  BY DEF TypeOK, StoreTyped, Conns, Takes
<1>2. /\ conn'[s].packets = Tail(conn[s].packets) /\ conn'[s].requests = conn[s].requests
      /\ (conn'[s].cut <=> conn[s].cut \/ stop)
      /\ \A u \in Servers \ {s} : conn'[u] = conn[u]
  BY DEF Takes, TypeOK, StoreTyped, Conns
<1>3. Tail(conn[s].packets) \in Seq(Packets) /\ Len(Tail(conn[s].packets)) = Len(conn[s].packets) - 1
      /\ \A i \in 1..Len(Tail(conn[s].packets)) : Tail(conn[s].packets)[i] = conn[s].packets[i + 1]
  BY <1>1, HeadTailProperties
<1>4. Len(conn[s].packets) \in Nat \ {0} /\ Head(conn[s].packets) = conn[s].packets[1]
  BY <1>1, EmptySeq
<1> QED
  BY <1>2, <1>3, <1>4

\* Only the holder of the pool uses a connection.
LEMMA HolderUses ==
  ASSUME TypeOK, Mutual, NEW t \in Threads, pc[t] = "run"
  PROVE  \A s \in Servers : Used(s) <=> Using /\ s = Target(t)
BY HolderFacts DEF Used, InUse, Using

LEMMA HolderUsesNext ==
  ASSUME TypeOK, Mutual, NEW t \in Threads, pc[t] = "run", HolderStep(t)
  PROVE  /\ \A s \in Servers : Used(s)' => Using' /\ s = Target(t)' /\ pc'[t] = "run"
         /\ pc' = pc => \A s \in Servers : Used(s)' <=> Using' /\ s = Target(t)'
<1>1. \A u \in Threads \ {t} : pc'[u] # "run"
  <2>1. \A u \in Threads \ {t} : pc[u] # "run"
    BY HolderFacts
  <2>2. pc' = pc \/ pc' = [pc EXCEPT ![t] = "idle"]
    BY DEF HolderStep, UsesClient, NeedsClient, StartsAfresh, Removes, PingsAll, GivesUp,
           Opens, Accepted, Rejected, PingsOne, PingFails, NextPing, Retries, Fails, CommandSent, EndSent,
           PacketLost, PingAnswered, Answered, ReadsOn, Continue, Return
  <2> QED
    BY <2>1, <2>2 DEF TypeOK, ControlTyped
<1> QED
  BY <1>1 DEF Used, InUse, Using

LEMMA HolderSound ==
  ASSUME TypeOK, Mutual, StreamSound, NEW t \in Threads, pc[t] = "run", HolderStep(t)
  PROVE  StreamSound'
<1>1. /\ job[t].server \in Servers /\ job[t].n \in CallIds /\ Stage(t)
      /\ Using => Target(t) \in Servers /\ (Ordinary(t) => Target(t) = job[t].server)
      /\ Ordinary(t) <=> ~Pinging(t) /\ job[t].op # "remove"
      /\ todo # {} => (CHOOSE s \in todo : TRUE) \in todo /\ todo \subseteq Servers
  BY HolderFacts DEF TypeOK, ControlTyped
<1>2. \A s \in Servers : Used(s) <=> Using /\ s = Target(t)
  BY HolderUses
<1>3. /\ \A s \in Servers : Used(s)' => Using' /\ s = Target(t)' /\ pc'[t] = "run"
      /\ pc' = pc => \A s \in Servers : Used(s)' <=> Using' /\ s = Target(t)'
  BY HolderUsesNext
<1>4. ASSUME NEW s \in Servers, ~conn'[s].cut PROVE StreamOk(s)'
  \* A quiet stream is right for all.
  <2>1. ASSUME Quiet(s)' PROVE StreamOk(s)'
    <3>1. 1..Len(conn'[s].packets) = {} /\ 1..Len(conn'[s].requests) = {}
      BY <2>1, EmptySeq DEF Quiet
    <3> QED
      BY <2>1, <3>1 DEF StreamOk, NoEnd, EndsLast
  \* A connection nobody has used, or that is dropped.
  <2>2. ASSUME conn'[s] = conn[s], client'[s] = client[s], ~Used(s), ~Used(s)' PROVE StreamOk(s)'
    BY <1>4, <2>2 DEF StreamSound, StreamOk, Quiet
  <2>3. ASSUME client'[s] # "connected", ~Used(s)' PROVE StreamOk(s)'
    BY <2>3 DEF StreamOk
  <2>4. ASSUME NEW x \in Servers, Erase(x)
        PROVE  /\ s = x => client'[s] # "connected"
               /\ s # x => conn'[s] = conn[s] /\ client'[s] = client[s]
    BY <2>4 DEF Erase, Close, TypeOK, StoreTyped
  <2> HIDE DEF Used
  <2>5. CASE UsesClient(t)
    <3>1. /\ phase = "lookup" /\ phase' = "command" /\ client[job[t].server] = "connected"
          /\ UNCHANGED <<client, conn, pc, job, todo>>
      BY <2>5 DEF UsesClient, Continue, Same, IoSame
    <3>2. ~Used(s)
      BY <1>2, <3>1 DEF Using
    <3>3. Target(t)' = job[t].server
      BY <2>5, <3>1 DEF UsesClient, Target
    <3>4. CASE s = job[t].server
      BY <1>4, <2>1, <3>1, <3>2, <3>4 DEF StreamSound, StreamOk, Quiet
    <3>5. CASE s # job[t].server
      BY <1>3, <2>2, <3>1, <3>2, <3>3, <3>5
    <3> QED
      BY <3>4, <3>5
  <2>6. CASE NeedsClient(t) \/ PingsAll(t) \/ GivesUp(t)
    <3>1. ~Using /\ ~Using' /\ UNCHANGED <<client, conn>>
      BY <2>6 DEF NeedsClient, PingsAll, GivesUp, Continue, Return, Same, Using
    <3> QED
      BY <1>2, <1>3, <2>2, <3>1
  <2>7. CASE StartsAfresh(t) \/ Removes(t)
    <3>1. ~Using /\ ~Using' /\ Erase(job[t].server)
      BY <2>7 DEF StartsAfresh, Removes, Continue, Return, Using
    <3> QED
      BY <1>1, <1>2, <1>3, <2>2, <2>3, <2>4, <3>1
  <2>8. CASE Opens(t)
    <3>1. /\ phase = "connect" /\ UNCHANGED <<pc, job, todo, client>> /\ Ordinary(t)
      BY <1>1, <2>8 DEF Opens, Continue, IoSame, Stage
    <3>2. PICK c \in Conns : /\ conn' = [conn EXCEPT ![job[t].server] = c]
                             /\ c.requests = <<>> /\ c.packets = <<>>
      BY <2>8, NewConnsTyped DEF Opens
    <3>3. ~Used(s) /\ Target(t)' = job[t].server
      BY <1>1, <1>2, <3>1 DEF Using, Target, Pinging
    <3>4. CASE s = job[t].server
      <4>1. conn'[s] = c
        BY <3>2, <3>4 DEF TypeOK, StoreTyped
      <4> QED
        BY <2>1, <3>2, <4>1 DEF Quiet
    <3>5. CASE s # job[t].server
      <4>1. conn'[s] = conn[s] /\ client'[s] = client[s]
        BY <3>1, <3>2, <3>5 DEF TypeOK, StoreTyped
      <4> QED
        BY <1>3, <2>2, <3>3, <3>5, <4>1
    <3> QED
      BY <3>4, <3>5
  <2>18. CASE Accepted(t)
    <3>1. /\ phase = "auth" /\ phase' = "command" /\ UNCHANGED <<pc, job, todo, conn>>
          /\ client' = [client EXCEPT ![job[t].server] = "connected"] /\ Ordinary(t)
      BY <1>1, <2>18 DEF Accepted, Continue, Stage
    <3>2. Using /\ Target(t) = job[t].server /\ Target(t)' = job[t].server
      BY <1>1, <3>1 DEF Using, Target, Pinging
    <3>3. CASE s = job[t].server
      BY <1>2, <1>4, <2>1, <3>1, <3>2, <3>3 DEF StreamSound, StreamOk, Quiet
    <3>4. CASE s # job[t].server
      <4>1. conn'[s] = conn[s] /\ client'[s] = client[s]
        BY <3>1, <3>4 DEF TypeOK, StoreTyped
      <4> QED
        BY <1>2, <1>3, <2>2, <3>2, <3>4, <4>1
    <3> QED
      BY <3>3, <3>4
  <2>19. CASE Rejected(t)
    <3>1. /\ phase = "auth" /\ phase' = "free" /\ client' = client /\ Ordinary(t)
          /\ conn' = [conn EXCEPT ![job[t].server] = NoConn]
      BY <1>1, <2>19 DEF Rejected, Close, Return, Stage
    <3>2. Using /\ ~Using' /\ Target(t) = job[t].server
      BY <1>1, <3>1 DEF Using
    <3>3. CASE s = job[t].server
      <4>1. conn'[s] = NoConn
        BY <3>1, <3>3 DEF TypeOK, StoreTyped
      <4> QED
        BY <2>1, <4>1 DEF Quiet, NoConn
    <3>4. CASE s # job[t].server
      <4>1. conn'[s] = conn[s] /\ client'[s] = client[s]
        BY <3>1, <3>4 DEF TypeOK, StoreTyped
      <4> QED
        BY <1>2, <1>3, <2>2, <3>2, <3>4, <4>1
    <3> QED
      BY <3>3, <3>4
  <2>9. CASE PingsOne(t)
    <3>1. /\ phase = "ping" /\ client[Target(t)] = "connected"
          /\ UNCHANGED <<client, conn, pc, job, todo>>
      BY <2>9 DEF PingsOne, Continue, Same, IoSame
    <3>2. ~Used(s) /\ Target(t)' = Target(t)
      BY <1>2, <3>1 DEF Using, Target
    <3>3. CASE s = Target(t)
      BY <1>4, <2>1, <3>1, <3>2, <3>3 DEF StreamSound, StreamOk, Quiet
    <3>4. CASE s # Target(t)
      BY <1>3, <2>2, <3>1, <3>2, <3>4
    <3> QED
      BY <3>3, <3>4
  <2>10. CASE PingFails(t)
    <3>1. Erase(Target(t)) /\ phase' = "ping" /\ (phase = "ping" \/ Using)
      BY <2>10 DEF PingFails, NextPing, Continue
    <3>2. Target(t) \in Servers
      BY <1>1, <2>10 DEF PingFails, Target, Pinging
    <3>3. ~Used(s)' /\ (s # Target(t) => ~Used(s))
      BY <1>2, <1>3, <3>1 DEF Using
    <3> QED
      BY <2>2, <2>3, <2>4, <3>1, <3>2, <3>3
  <2>11. CASE Retries(t)
    <3>1. Erase(job[t].server) /\ phase' = "connect" /\ Using /\ Ordinary(t)
      BY <2>11 DEF Retries, Continue, Ordinary
    <3>2. ~Used(s)' /\ (s # job[t].server => ~Used(s))
      BY <1>1, <1>2, <1>3, <3>1 DEF Using
    <3> QED
      BY <1>1, <2>2, <2>3, <2>4, <3>1, <3>2
  <2>12. CASE Fails(t)
    <3>1. /\ client' = [client EXCEPT ![job[t].server] = "dead"] /\ conn' = conn
          /\ Using /\ Ordinary(t) /\ phase' = "free"
      BY <2>12 DEF Fails, Return
    <3>2. ~Used(s)' /\ (s # job[t].server => ~Used(s))
      BY <1>1, <1>2, <1>3, <3>1 DEF Using
    <3>3. IF s = job[t].server THEN client'[s] = "dead" ELSE client'[s] = client[s]
      BY <3>1 DEF TypeOK, StoreTyped
    <3> QED
      BY <2>2, <2>3, <3>1, <3>2, <3>3
  <2>13. CASE CommandSent(t) \/ EndSent(t)
    <3> DEFINE end == phase = "end"
    <3>1. PICK r \in Commands : /\ Joins(Target(t), r) /\ r.end = end /\ (end => r.left = 1)
      <4>1. (~Pinging(t)) \in BOOLEAN /\ TRUE \in BOOLEAN /\ FALSE \in BOOLEAN
        BY DEF Pinging
      <4>2. CASE CommandSent(t)
        <5>1. PICK r \in Requests(job[t].n, FALSE, ~Pinging(t)) : Joins(Target(t), r)
          BY <4>2 DEF CommandSent
        <5>2. r \in Commands /\ r.end = FALSE
          <6>1. PICK run \in BOOLEAN : run = ~Pinging(t)
            BY <4>1
          <6>2. r \in Requests(job[t].n, FALSE, run)
            BY <5>1, <6>1
          <6>3. job[t].n \in CallIds /\ FALSE \in BOOLEAN
            BY <1>1
          <6> HIDE DEF end
          <6>4. r \in Commands
            BY <6>2, <6>3, RequestsTyped
          <6>5. r.end = FALSE
            BY <6>2 DEF Requests
          <6> QED
            BY <6>4, <6>5
        <5>3. end = FALSE
          BY <4>2 DEF CommandSent
        <5> HIDE DEF end
        <5>4. r.end = end /\ (end => r.left = 1)
          BY <5>2, <5>3
        <5> QED
          BY <5>1, <5>2, <5>4
      <4>3. CASE EndSent(t)
        <5>1. PICK r \in Requests(job[t].n, TRUE, FALSE) : Joins(Target(t), r)
          BY <4>3 DEF EndSent
        <5>2. r \in Commands /\ r.end = TRUE /\ r.left = 1
          BY <1>1, <4>1, <5>1, RequestsTyped
        <5>3. phase = "end"
          BY <4>3 DEF EndSent
        <5> QED
          BY <5>1, <5>2, <5>3
      <4> QED
        BY <2>13, <4>2, <4>3
    <3>2. /\ Using /\ UNCHANGED <<pc, job, todo, client>>
          /\ IF end THEN phase' = "read" ELSE phase = "command" /\ phase' = "end"
      BY <2>13, <3>1 DEF CommandSent, EndSent, Continue, IoSame, Using, Joins
    <3>3. Target(t) \in Servers /\ Target(t)' = Target(t)
      BY <1>1, <3>2 DEF Target
    <3>4. /\ conn'[Target(t)].packets = conn[Target(t)].packets
          /\ conn'[Target(t)].cut = conn[Target(t)].cut
          /\ \A i \in 1..Len(conn'[Target(t)].requests) :
              \/ i \in 1..Len(conn[Target(t)].requests)
                 /\ conn'[Target(t)].requests[i] = conn[Target(t)].requests[i]
                 /\ i # Len(conn'[Target(t)].requests)
              \/ i = Len(conn'[Target(t)].requests) /\ conn'[Target(t)].requests[i] = r
          /\ \A u \in Servers \ {Target(t)} : conn'[u] = conn[u]
      BY <3>1, <3>3, JoinsFacts
    <3>5. CASE s # Target(t)
      BY <1>2, <1>3, <2>2, <3>2, <3>3, <3>4, <3>5
    <3>6. CASE s = Target(t)
      <4>1. NoEnd(s)
        <5>1. Used(s) /\ phase \in {"command", "end"}
          BY <1>2, <3>2, <3>6
        <5>2. StreamOk(s)
          BY <1>4, <3>4, <3>6 DEF StreamSound
        <5>3. CASE phase = "command"
          BY <5>1, <5>2, <5>3, QuietIsSound DEF StreamOk
        <5>4. CASE phase = "end"
          BY <5>1, <5>2, <5>4 DEF StreamOk
        <5> QED
          BY <5>1, <5>3, <5>4
      <4>2. Used(s)'
        BY <1>3, <3>2, <3>3, <3>6 DEF Using
      <4>3. CASE end
        <5>1. EndsLast(s)'
          BY <3>1, <3>4, <3>6, <4>1, <4>3 DEF NoEnd, EndsLast
        <5> QED
          BY <3>2, <4>3, <4>2, <5>1 DEF StreamOk
      <4>4. CASE ~end
        <5>1. NoEnd(s)'
          BY <3>1, <3>4, <3>6, <4>1, <4>4 DEF NoEnd
        <5> QED
          BY <3>2, <4>4, <4>2, <5>1 DEF StreamOk
      <4> QED
        BY <4>3, <4>4
    <3> QED
      BY <3>5, <3>6
  <2>14. CASE PacketLost(t)
    <3>1. /\ UNCHANGED <<pc, job, todo, client, conn>>
          /\ (phase = "command" /\ phase' = "end") \/ (phase = "end" /\ phase' = "read")
      BY <2>14 DEF PacketLost, Continue, Same, IoSame
    <3>2. Target(t)' = Target(t) /\ Using /\ Using'
      BY <3>1 DEF Target, Using
    <3>3. CASE s # Target(t)
      BY <1>2, <1>3, <2>2, <3>1, <3>2, <3>3
    <3>4. CASE s = Target(t)
      <4>1. Used(s) /\ Used(s)' /\ StreamOk(s)
        BY <1>2, <1>3, <1>4, <3>1, <3>2, <3>4 DEF StreamSound
      <4>2. CASE phase = "command" /\ phase' = "end"
        <5>1. Quiet(s)'
          BY <3>1, <4>1, <4>2 DEF StreamOk, Quiet
        <5> QED
          BY <2>1, <5>1
      <4>3. CASE phase = "end" /\ phase' = "read"
        <5>1. NoEnd(s)
          BY <4>1, <4>3 DEF StreamOk
        <5>2. EndsLast(s)
          BY <5>1, NoEndIsEndsLast
        <5>3. EndsLast(s)'
          BY <3>1, <5>2 DEF EndsLast
        <5> QED
          BY <4>1, <4>3, <5>3 DEF StreamOk
      <4> QED
        BY <3>1, <4>2, <4>3
    <3> QED
      BY <3>3, <3>4
  <2>15. ASSUME NEW stop \in BOOLEAN, Takes(Target(t), stop), phase = "read", Used(s)' => s = Target(t),
                \A u \in Servers \ {Target(t)} : client'[u] = client[u]
         PROVE  /\ s # Target(t) => StreamOk(s)'
                /\ s = Target(t) => ~conn[s].cut /\ EndsLast(s) /\ ~stop
    <3>1. Using /\ Target(t) \in Servers
      BY <1>1, <2>15 DEF Using
    <3>2. /\ conn'[Target(t)].cut <=> conn[Target(t)].cut \/ stop
          /\ \A u \in Servers \ {Target(t)} : conn'[u] = conn[u]
      BY <2>15, <3>1, TakesFacts
    <3>3. CASE s # Target(t)
      BY <1>2, <2>2, <2>15, <3>2, <3>3
    <3>4. CASE s = Target(t)
      <4>1. ~conn[s].cut /\ ~stop
        BY <1>4, <3>2, <3>4
      <4>2. Used(s)
        BY <1>2, <3>1, <3>4
      <4> QED
        BY <2>15, <3>4, <4>1, <4>2 DEF StreamSound, StreamOk
    <3> QED
      BY <3>3, <3>4
  <2>16. CASE PingAnswered(t) \/ Answered(t)
    <3>1. /\ phase = "read" /\ Takes(Target(t), ~EndsReply(t)) /\ ~Using'
          /\ \A u \in Servers \ {Target(t)} : client'[u] = client[u]
      BY <2>16 DEF PingAnswered, Answered, Return, Continue, Using, TypeOK, StoreTyped
    <3>2. ~Used(s)' /\ (~EndsReply(t)) \in BOOLEAN
      BY <1>3, <3>1 DEF EndsReply
    <3>3. PICK stop \in BOOLEAN : stop = ~EndsReply(t)
      BY <3>2
    <3>4. /\ s # Target(t) => StreamOk(s)'
          /\ s = Target(t) => ~conn[s].cut /\ EndsLast(s) /\ ~stop
      BY <2>15, <3>1, <3>2, <3>3
    <3>5. CASE s = Target(t)
      <4>1. /\ conn'[s].requests = conn[s].requests
            /\ Len(conn[s].packets) \in Nat \ {0} /\ Head(conn[s].packets) = conn[s].packets[1]
            /\ conn'[s].packets \in Seq(Packets)
            /\ Len(conn'[s].packets) = Len(conn[s].packets) - 1
        BY <3>1, <3>3, <3>5, TakesFacts
      <4>2. conn[s].packets[1].end
        BY <3>3, <3>4, <3>5, <4>1 DEF EndsReply
      <4>3. 1 = Len(conn[s].packets) /\ conn[s].requests = <<>>
        <5>1. 1 \in 1..Len(conn[s].packets)
          BY <4>1
        <5>2. EndsLast(s)
          BY <3>4, <3>5
        <5> QED
          BY <4>2, <5>1, <5>2 DEF EndsLast
      <4>4. conn'[s].packets = <<>>
        <5>1. Len(conn'[s].packets) = 0
          BY <4>1, <4>3
        <5>2. Len(conn'[s].packets) \notin Nat \ {0}
          BY <5>1
        <5> QED
          BY <4>1, <5>2, EmptySeq
      <4> QED
        BY <2>1, <4>1, <4>3, <4>4 DEF Quiet
    <3> QED
      BY <3>4, <3>5
  <2>17. CASE ReadsOn(t)
    <3>1. /\ phase = "read" /\ Takes(Target(t), FALSE) /\ UNCHANGED <<pc, job, phase, client, todo>>
      BY <2>17 DEF ReadsOn
    <3>2. Used(s)' => s = Target(t)
      BY <1>3, <3>1 DEF Target
    <3>3. /\ s # Target(t) => StreamOk(s)'
          /\ s = Target(t) => ~conn[s].cut /\ EndsLast(s)
      BY <2>15, <3>1, <3>2
    <3>4. CASE s = Target(t)
      <4>1. /\ conn'[s].requests = conn[s].requests
            /\ Len(conn[s].packets) \in Nat \ {0}
            /\ Len(conn'[s].packets) = Len(conn[s].packets) - 1
            /\ \A i \in 1..Len(conn'[s].packets) : conn'[s].packets[i] = conn[s].packets[i + 1]
        BY <3>1, <3>4, TakesFacts
      <4>2. \A i \in 1..Len(conn'[s].packets) : i + 1 \in 1..Len(conn[s].packets)
        BY <4>1
      <4>3. EndsLast(s)'
        <5>1. EndsLast(s)
          BY <3>3, <3>4
        <5>2. ASSUME NEW i \in 1..Len(conn'[s].packets), conn'[s].packets[i].end
              PROVE  i = Len(conn'[s].packets) /\ conn'[s].requests = <<>>
          <6>1. i + 1 \in 1..Len(conn[s].packets) /\ conn[s].packets[i + 1].end
            BY <4>1, <4>2, <5>2
          <6>2. i + 1 = Len(conn[s].packets) /\ conn[s].requests = <<>>
            BY <5>1, <6>1 DEF EndsLast
          <6>3. i \in Nat
            OBVIOUS
          <6> QED
            BY <4>1, <6>2, <6>3
        <5> QED
          BY <4>1, <5>1, <5>2 DEF EndsLast
      <4>4. Used(s)' /\ phase' = "read"
        BY <1>3, <3>1, <3>4 DEF Using, Target
      <4> QED
        BY <4>3, <4>4 DEF StreamOk
    <3> QED
      BY <3>3, <3>4
  <2> QED
    BY <2>5, <2>6, <2>7, <2>8, <2>9, <2>10, <2>11, <2>12, <2>13, <2>14, <2>16, <2>17, <2>18, <2>19
       DEF HolderStep
<1> QED
  BY <1>4 DEF StreamSound

\* The servers and the network add to a stream only what was asked for on it.
LEMMA ServeSound ==
  ASSUME TypeOK, StreamSound, NEW s \in Servers, Serve(s)
  PROVE  StreamSound'
<1>1. PICK c \in Conns, r \in Commands :
           /\ conn' = [conn EXCEPT ![s] = c] /\ c.cut = conn[s].cut
           /\ Len(conn[s].requests) > 0 /\ r = conn[s].requests[1]
           /\ Len(c.packets) = Len(conn[s].packets) + 1
           /\ \A i \in 1..Len(conn[s].packets) : c.packets[i] = conn[s].packets[i]
           /\ c.packets[Len(c.packets)] = [call |-> r.call, end |-> r.end]
           /\ \/ /\ r.left = 1 /\ Len(c.requests) = Len(conn[s].requests) - 1
                 /\ \A i \in 1..Len(c.requests) : c.requests[i] = conn[s].requests[i + 1]
              \/ /\ r.left # 1 /\ Len(c.requests) = Len(conn[s].requests)
                 /\ ~c.requests[1].run /\ c.requests[1].end = r.end
                 /\ \A i \in 2..Len(c.requests) : c.requests[i] = conn[s].requests[i]
  BY ServeFacts
<1> DEFINE q == conn[s].requests
           p == conn[s].packets
<1>2. conn'[s] = c /\ \A u \in Servers \ {s} : conn'[u] = conn[u]
  BY <1>1 DEF TypeOK, StoreTyped
<1>3. UNCHANGED <<pc, job, phase, todo, client>> /\ Len(q) \in Nat \ {0} /\ Len(p) \in Nat
  BY <1>1, LenOf DEF Serve, io
<1>4. \A u \in Servers : Used(u)' <=> Used(u)
  BY <1>3 DEF Used, InUse, Target
<1>5. q # <<>> /\ 1 \in 1..Len(q)
  BY <1>3, EmptySeq
<1>6. c.requests \in Seq(Commands)
  BY DEF Conns
<1>7. \A i \in 1..Len(c.packets) :
        \/ i \in 1..Len(p) /\ c.packets[i] = p[i]
        \/ i = Len(c.packets) /\ c.packets[i].end = r.end
  BY <1>1, <1>3
\* What the requests left are: each one the rest of an earlier one.
<1>8. \A i \in 1..Len(c.requests) :
        \/ r.left = 1 /\ i + 1 \in 1..Len(q) /\ c.requests[i] = q[i + 1]
        \/ r.left # 1 /\ i = 1 /\ c.requests[i].end = r.end
        \/ r.left # 1 /\ i \in 1..Len(q) /\ c.requests[i] = q[i]
  BY <1>1, <1>3
<1>9. ASSUME NEW u \in Servers, u # s, ~conn'[u].cut PROVE StreamOk(u)'
  BY <1>2, <1>3, <1>4, <1>9 DEF StreamSound, StreamOk, Quiet, NoEnd, EndsLast
<1>10. ASSUME ~c.cut PROVE StreamOk(s)'
  <2>1. StreamOk(s) /\ ~Quiet(s)
    BY <1>1, <1>5, <1>10 DEF StreamSound, Quiet
  <2>2. ~(client[s] = "connected" /\ ~Used(s)) /\ ~(Used(s) /\ phase \in {"auth", "command"})
    BY <2>1 DEF StreamOk
  <2>3. ASSUME Used(s), phase = "end" PROVE NoEnd(s)'
    <3>1. NoEnd(s)
      BY <2>1, <2>3 DEF StreamOk
    <3>2. ~r.end
      BY <1>1, <1>5, <3>1 DEF NoEnd
    <3>3. \A i \in 1..Len(c.packets) : ~c.packets[i].end
      BY <1>7, <3>1, <3>2 DEF NoEnd
    <3>4. \A i \in 1..Len(c.requests) : ~c.requests[i].end
      BY <1>8, <3>1, <3>2 DEF NoEnd
    <3> QED
      BY <1>2, <3>3, <3>4 DEF NoEnd
  <2>4. ASSUME Used(s), phase = "read" PROVE EndsLast(s)'
    <3>1. EndsLast(s)
      BY <2>1, <2>4 DEF StreamOk
    <3>2. /\ \A i \in 1..Len(p) : ~p[i].end
          /\ \A i \in 1..Len(q) : q[i].end => i = Len(q) /\ q[i].left = 1
      BY <1>5, <3>1 DEF EndsLast
    <3>3. r.end => Len(q) = 1 /\ r.left = 1
      BY <1>1, <1>5, <3>2
    <3> HIDE DEF q, p
    <3>4. ASSUME NEW i \in 1..Len(c.packets), c.packets[i].end
          PROVE  i = Len(c.packets) /\ c.requests = <<>>
      <4>1. i = Len(c.packets) /\ r.end
        BY <1>7, <3>2, <3>4
      <4>2. r.left = 1 /\ Len(q) = 1
        BY <3>3, <4>1
      <4>3. Len(c.requests) = Len(q) - 1
        BY <1>1, <4>2 DEF q
      <4>4. Len(c.requests) = 0
        BY <4>2, <4>3
      <4>5. c.requests = <<>>
        <5>1. Len(c.requests) \notin Nat \ {0}
          BY <4>4
        <5> QED
          BY <1>6, <5>1, EmptySeq
      <4> QED
        BY <4>1, <4>5
    <3>5. ASSUME NEW i \in 1..Len(c.requests), c.requests[i].end
          PROVE  i = Len(c.requests) /\ c.requests[i].left = 1
      <4>1. CASE r.left = 1 /\ i + 1 \in 1..Len(q) /\ c.requests[i] = q[i + 1]
        <5>1. i + 1 = Len(q) /\ c.requests[i].left = 1
          BY <3>2, <3>5, <4>1
        <5>2. Len(c.requests) = Len(q) - 1 /\ i \in Nat
          BY <1>1, <4>1 DEF q
        <5> QED
          BY <1>3, <5>1, <5>2
      <4>2. CASE r.left # 1 /\ i = 1 /\ c.requests[i].end = r.end
        BY <3>3, <3>5, <4>2
      <4>3. CASE r.left # 1 /\ i \in 1..Len(q) /\ c.requests[i] = q[i]
        <5>1. i = Len(q) /\ c.requests[i].left = 1
          BY <3>2, <3>5, <4>3
        <5>2. Len(c.requests) = Len(q)
          BY <1>1, <4>3 DEF q
        <5> QED
          BY <5>1, <5>2
      <4> QED
        BY <1>8, <4>1, <4>2, <4>3
    <3> QED
      BY <1>2, <3>4, <3>5 DEF EndsLast
  <2> QED
    BY <1>3, <1>4, <2>2, <2>3, <2>4 DEF StreamOk
<1> QED
  BY <1>1, <1>2, <1>9, <1>10 DEF StreamSound

\* The first part of a packet changes nothing of that.
LEMMA TearSound ==
  ASSUME TypeOK, StreamSound, NEW s \in Servers, Tear(s)
  PROVE  StreamSound'
<1>1. PICK c \in Conns, r \in Commands :
           /\ conn' = [conn EXCEPT ![s] = c] /\ c.cut = conn[s].cut /\ c.packets = conn[s].packets
           /\ Len(conn[s].requests) > 0 /\ r = conn[s].requests[1]
           /\ Len(c.requests) = Len(conn[s].requests)
           /\ c.requests[1].end = r.end /\ c.requests[1].left = r.left
           /\ \A i \in 2..Len(c.requests) : c.requests[i] = conn[s].requests[i]
  BY TearFacts
<1>2. conn'[s] = c /\ \A u \in Servers \ {s} : conn'[u] = conn[u]
  BY <1>1 DEF TypeOK, StoreTyped
<1>3. UNCHANGED <<pc, job, phase, todo, client>> /\ Len(conn[s].requests) \in Nat
  BY LenOf DEF Tear, io
<1>4. \A u \in Servers : Used(u)' <=> Used(u)
  BY <1>3 DEF Used, InUse, Target
<1>5. \A i \in 1..Len(c.requests) :
        /\ i \in 1..Len(conn[s].requests)
        /\ c.requests[i].end = conn[s].requests[i].end /\ c.requests[i].left = conn[s].requests[i].left
  <2>1. \A i \in 1..Len(c.requests) : i = 1 \/ i \in 2..Len(c.requests)
    BY <1>1, <1>3
  <2> QED
    BY <1>1, <2>1
<1>6. c.requests # <<>> /\ conn[s].requests # <<>>
  BY <1>1, <1>3, EmptySeq
<1>7. ASSUME NEW u \in Servers, u # s, ~conn'[u].cut PROVE StreamOk(u)'
  BY <1>2, <1>3, <1>4, <1>7 DEF StreamSound, StreamOk, Quiet, NoEnd, EndsLast
<1>8. ASSUME ~c.cut PROVE StreamOk(s)'
  <2>1. StreamOk(s) /\ ~Quiet(s)
    BY <1>1, <1>6, <1>8 DEF StreamSound, Quiet
  <2>2. NoEnd(s) => NoEnd(s)'
    BY <1>1, <1>2, <1>5 DEF NoEnd
  <2>3. EndsLast(s) => EndsLast(s)'
    BY <1>1, <1>2, <1>5, <1>6 DEF EndsLast
  <2> QED
    BY <1>3, <1>4, <2>1, <2>2, <2>3 DEF StreamOk
<1> QED
  BY <1>1, <1>2, <1>7, <1>8 DEF StreamSound

LEMMA MendSound ==
  ASSUME TypeOK, StreamSound, NEW s \in Servers, Mend(s)
  PROVE  StreamSound'
<1>1. \A u \in Servers : /\ conn'[u].requests = conn[u].requests
                         /\ conn'[u].packets = conn[u].packets /\ conn'[u].cut = conn[u].cut
  BY DEF Mend, TypeOK, StoreTyped, Conns
<1>2. UNCHANGED <<pc, job, phase, todo, client>>
  BY DEF Mend, io
<1>3. \A u \in Servers : Used(u)' <=> Used(u)
  BY <1>2 DEF Used, InUse, Target
<1> QED
  BY <1>1, <1>2, <1>3 DEF StreamSound, StreamOk, Quiet, NoEnd, EndsLast

LEMMA DropSound ==
  ASSUME TypeOK, StreamSound, NEW s \in Servers, Drop(s)
  PROVE  StreamSound'
<1>1. PICK c \in Conns :
           /\ conn' = [conn EXCEPT ![s] = c] /\ c.cut = conn[s].cut /\ c.requests = <<>>
           /\ Len(c.packets) <= Len(conn[s].packets)
           /\ \A i \in 1..Len(c.packets) : c.packets[i] = conn[s].packets[i]
  BY DropFacts
<1>2. conn'[s] = c /\ \A u \in Servers \ {s} : conn'[u] = conn[u]
  BY <1>1 DEF TypeOK, StoreTyped
<1>3. UNCHANGED <<pc, job, phase, todo, client>> /\ Len(conn[s].packets) \in Nat
  BY LenOf DEF Drop, io
<1>4. \A u \in Servers : Used(u)' <=> Used(u)
  BY <1>3 DEF Used, InUse, Target
<1>5. c.packets \in Seq(Packets) /\ Len(c.packets) \in Nat /\ 1..Len(c.requests) = {}
  <2>1. c.packets \in Seq(Packets)
    BY DEF Conns
  <2> QED
    BY <1>1, <2>1, LenProperties, EmptySeq
<1>6. \A i \in 1..Len(c.packets) : i \in 1..Len(conn[s].packets)
  BY <1>1, <1>3, <1>5
<1>7. ASSUME NEW u \in Servers, u # s, ~conn'[u].cut PROVE StreamOk(u)'
  BY <1>2, <1>3, <1>4, <1>7 DEF StreamSound, StreamOk, Quiet, NoEnd, EndsLast
<1>8. ASSUME ~c.cut PROVE StreamOk(s)'
  <2>1. StreamOk(s)
    BY <1>1, <1>8 DEF StreamSound
  <2>2. ASSUME Quiet(s) PROVE Quiet(s)'
    <3>1. Len(conn[s].packets) = 0
      BY <2>2, EmptySeq DEF Quiet
    <3>2. Len(c.packets) \notin Nat \ {0}
      BY <1>1, <1>5, <3>1
    <3>3. c.packets = <<>>
      BY <1>5, <3>2, EmptySeq
    <3> QED
      BY <1>1, <1>2, <3>3 DEF Quiet
  <2>3. ASSUME NoEnd(s) PROVE NoEnd(s)'
    BY <1>1, <1>2, <1>5, <1>6, <2>3 DEF NoEnd
  <2>4. ASSUME EndsLast(s) PROVE EndsLast(s)'
    <3>1. ASSUME NEW i \in 1..Len(c.packets), c.packets[i].end PROVE i = Len(c.packets)
      <4>1. i \in 1..Len(conn[s].packets) /\ conn[s].packets[i].end
        BY <1>1, <1>6, <3>1
      <4>2. i = Len(conn[s].packets)
        BY <2>4, <4>1 DEF EndsLast
      <4> QED
        BY <1>1, <1>3, <1>5, <4>2
    <3> QED
      BY <1>1, <1>2, <1>5, <3>1 DEF EndsLast
  <2> QED
    BY <1>3, <1>4, <2>1, <2>2, <2>3, <2>4 DEF StreamOk
<1> QED
  BY <1>1, <1>2, <1>7, <1>8 DEF StreamSound

\* A call's way to the pool uses no connection.
LEMMA WaitSound ==
  ASSUME TypeOK, Mutual, StreamSound, NEW t \in Threads,
         (\E op \in Ops, s \in Servers : Call(t, op, s)) \/ Acquire(t)
  PROVE  StreamSound'
<1>1. UNCHANGED <<client, conn, todo>>
  BY DEF Call, Acquire, net, io
<1>2. pc[t] # "run" /\ \A u \in Threads \ {t} : pc'[u] = pc[u] /\ job'[u] = job[u]
  BY DEF Call, Acquire, TypeOK, ControlTyped
<1>3. CASE \E op \in Ops, s \in Servers : Call(t, op, s)
  <2>1. phase' = phase /\ pc'[t] = "wait"
    BY <1>3 DEF Call, io, TypeOK, ControlTyped
  <2>2. \A s \in Servers : Used(s)' <=> Used(s)
    BY <1>1, <1>2, <2>1 DEF Used, InUse, Target
  <2> QED
    BY <1>1, <2>1, <2>2 DEF StreamSound, StreamOk, Quiet, NoEnd, EndsLast
<1>4. CASE Acquire(t)
  <2>1. phase' = "lookup" /\ mtx = NoThread
    BY <1>4 DEF Acquire
  <2>2. phase = "free"
    BY <2>1 DEF Mutual
  <2>3. \A s \in Servers : ~Used(s) /\ ~Used(s)'
    BY <2>1, <2>2 DEF Used, InUse
  <2> QED
    BY <1>1, <2>1, <2>3 DEF StreamSound, StreamOk, Quiet
<1> QED
  BY <1>3, <1>4

StreamInv == TypeOK /\ Mutual /\ RepliesOwn /\ StreamSound

LEMMA StreamInvariance == StreamInv /\ [Next]_vars => StreamInv'
<1> SUFFICES ASSUME StreamInv, [Next]_vars PROVE StreamInv'
  OBVIOUS
<1>1. TypeOK /\ Mutual /\ RepliesOwn /\ StreamSound
  BY DEF StreamInv
<1>2. TypeOK' /\ Mutual' /\ RepliesOwn'
  BY <1>1, TypeInvariance, RepliesStep
<1>3. ASSUME NEW t \in Threads, (\E op \in Ops, s \in Servers : Call(t, op, s)) \/ Acquire(t)
      PROVE  StreamSound'
  BY <1>1, <1>3, WaitSound
<1>4. ASSUME NEW t \in Threads, Holding(t) PROVE StreamSound'
  BY <1>1, <1>4, HoldingCases, HolderSound
<1>5. ASSUME NEW n \in CallIds, ServeOrphan(n) PROVE StreamSound'
  BY <1>1, <1>5 DEF ServeOrphan, io, StreamSound, StreamOk, Used, InUse, Target, Quiet, NoEnd, EndsLast
<1>6. ASSUME Environment PROVE StreamSound'
  BY <1>1, <1>5, <1>6, ServeSound, TearSound, MendSound, DropSound DEF Environment
<1>7. ASSUME UNCHANGED vars PROVE StreamSound'
  BY <1>1, <1>7 DEF vars, StreamSound, StreamOk, Used, InUse, Target, Quiet, NoEnd, EndsLast
<1>8. StreamSound'
  BY <1>3, <1>4, <1>6, <1>7 DEF Next
<1> QED
  BY <1>2, <1>8 DEF StreamInv

LEMMA InitStream == Init => StreamInv
<1> SUFFICES ASSUME Init PROVE StreamInv
  OBVIOUS
<1>1. TypeOK /\ Mutual
  BY InitTypes
<1>2. ReplyIsOwn
  <2>1. \A n \in CallIds : replies[n] = <<>>
    BY DEF Init
  <2>2. DOMAIN <<>> = {}
    OBVIOUS
  <2> QED
    BY <2>1, <2>2 DEF ReplyIsOwn
<1>3. RepliesOwn
  BY <1>2 DEF RepliesOwn, Init
<1>4. StreamSound
  BY DEF Init, StreamSound, StreamOk, Quiet, NoConn
<1> QED
  BY <1>1, <1>3, <1>4 DEF StreamInv

\* A reply consists of packets of its own command, and a connection that is
\* kept for the next command carries nothing of the last one.
THEOREM RepliesAreOwn == Spec => []StreamIsOwn
<1>1. Init => StreamInv
  BY InitStream
<1>2. StreamInv /\ [Next]_vars => StreamInv'
  BY StreamInvariance
<1>3. StreamInv => StreamIsOwn
  <2> SUFFICES ASSUME StreamInv PROVE StreamIsOwn
    OBVIOUS
  <2>1. TypeOK /\ ReplyIsOwn
    BY DEF StreamInv, RepliesOwn
  <2>2. StreamInSync
    <3> SUFFICES ASSUME NEW s \in Servers, mtx = NoThread, client[s] = "connected", ~conn[s].cut
                 PROVE  Quiet(s)
      BY DEF StreamInSync, Quiet
    <3>1. \A t \in Threads : pc[t] # "run"
      BY RconAssumption DEF StreamInv, Mutual
    <3>2. ~Used(s)
      BY <3>1 DEF Used, InUse
    <3> QED
      BY <3>2 DEF StreamInv, StreamSound, StreamOk
  <2> QED
    BY <2>1, <2>2 DEF StreamIsOwn
<1> QED
  BY <1>1, <1>2, <1>3, PTL DEF Spec
================================================================================

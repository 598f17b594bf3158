-------------------------------- MODULE RconPool --------------------------------
(***************************************************************************)
(* The RCON connections to the game servers: RconPool and RconClient.       *)
(*                                                                         *)
(* Any thread may send a command, test a server, drop its connection, or    *)
(* (the refresh task) ping every connection.  poolMtx_ is held over the     *)
(* whole operation, network waits included, so there is one operation under *)
(* way and the state of its I/O is global.  The servers and the network run *)
(* beside it: a server answers a command with a number of packets and its    *)
(* terminator with one, a connection can die between any two steps, and      *)
(* poll() can time out whenever nothing has arrived.  What arrives can be    *)
(* the first part of a packet: recv(MSG_WAITALL) then waits for the rest     *)
(* without a limit, for the socket is a blocking one again after connect.    *)
(*                                                                         *)
(* A packet's id stands for the call it belongs to (nextId_ gives every     *)
(* request of a connection an id of its own) and whether it ends the reply. *)
(***************************************************************************)
EXTENDS Integers, Sequences, SequencesExt, FiniteSets

CONSTANTS
    Threads,
    Servers,
    NoThread,    \* poolMtx_ is free
    Ops,         \* the operations called, among those of AllOps
    ReplyLens,   \* the numbers of packets a server may split a reply into
    PacketCap,   \* the packets execute() reads at most (64 in the code)
    PingCap,     \* the packets ping() reads at most (4 in the code)
    MaxCalls     \* bound: number of operations called

AllOps == {"send", "test", "remove", "health"}

ASSUME RconAssumption ==
    /\ NoThread \notin Threads
    /\ Ops \subseteq AllOps
    /\ ReplyLens \subseteq Nat \ {0} /\ PacketCap \in Nat \ {0} /\ PingCap \in Nat \ {0}
    /\ MaxCalls \in Nat
    /\ IsFiniteSet(Servers)

VARIABLES
    pc,       \* each thread: "idle", "wait" for poolMtx_, or "run" holding it
    job,      \* the operation, server and number of a thread's call
    mtx,      \* poolMtx_
    client,   \* clients_: per server "none", or the client's connected_ flag
    conn,     \* the newest TCP connection of each server
    phase,    \* what the thread that holds poolMtx_ does next
    fresh,    \* whether the call runs on a connection it created itself
    todo,     \* the servers healthCheck still has to ping
    got,      \* the calls whose packets make up the reply so far
    reads,    \* packets read of the reply so far
    orphans,  \* per call, its commands in flight on connections that are closed
    runs,     \* times each call's command was executed by its server
    replies,  \* what each finished call returned
    calls     \* operations called so far

net == <<conn, orphans, runs>>
io == <<phase, fresh, todo, got, reads>>
vars == <<pc, job, mtx, client, conn, phase, fresh, todo, got, reads, orphans, runs,
          replies, calls>>

CallIds == 1..MaxCalls
NoJob == [op |-> "none"]

\* partial: the next packet has arrived in part.  cut: history, a reply was cut off
\* at the packet cap.
NoConn == [open |-> FALSE, requests |-> <<>>, packets |-> <<>>, partial |-> FALSE, cut |-> FALSE]
NewConn == [NoConn EXCEPT !.open = TRUE]

\* recv waits for the rest of a packet of s, and no timeout ends its wait.
Blocked(s) == conn[s].open /\ conn[s].packets = <<>> /\ conn[s].partial

\* A command, or with end the empty command that marks the end of its reply;
\* left is the number of packets the server still has to send for it, and run
\* whether it still has a command to execute.
Requests(n, end, run) ==
    [call : {n}, end : {end}, left : IF end THEN {1} ELSE ReplyLens, run : {run}]

Init ==
    /\ pc = [t \in Threads |-> "idle"]
    /\ job = [t \in Threads |-> NoJob]
    /\ mtx = NoThread
    /\ client = [s \in Servers |-> "none"]
    /\ conn = [s \in Servers |-> NoConn]
    /\ phase = "free" /\ fresh = FALSE /\ todo = {} /\ got = <<>> /\ reads = 0
    /\ orphans = [n \in CallIds |-> 0]
    /\ runs = [n \in CallIds |-> 0]
    /\ replies = [n \in CallIds |-> <<>>]
    /\ calls = 0

--------------------------------------------------------------------------------
(* The panel.  Every action below is a step of the thread that holds        *)
(* poolMtx_, except Call and Acquire.                                       *)

Call(t, op, s) ==
    /\ pc[t] = "idle"
    /\ calls < MaxCalls
    /\ calls' = calls + 1
    /\ pc' = [pc EXCEPT ![t] = "wait"]
    /\ job' = [job EXCEPT ![t] = [op |-> op, server |-> s, n |-> calls + 1]]
    /\ UNCHANGED <<mtx, client, net, io, replies>>

\* Closing a socket leaves what was sent on it to the network: its unexecuted
\* commands may still reach the server.
Abandoned(s) ==
    {r.call : r \in {q \in ToSet(conn[s].requests) : q.run}}

Orphaned(s) == [n \in CallIds |-> IF n \in Abandoned(s) THEN orphans[n] + 1 ELSE orphans[n]]

Close(s) ==
    /\ conn' = [conn EXCEPT ![s] = NoConn]
    /\ orphans' = Orphaned(s)

\* clients_.erase: the last reference closes the socket.
Erase(s) == client' = [client EXCEPT ![s] = "none"] /\ Close(s)

\* The lock_guard's destructor, with the reply of the call.
Return(t, reply) ==
    /\ pc' = [pc EXCEPT ![t] = "idle"]
    /\ replies' = [replies EXCEPT ![job[t].n] = reply]
    /\ job' = [job EXCEPT ![t] = NoJob]
    /\ mtx' = NoThread
    /\ phase' = "free" /\ fresh' = FALSE /\ todo' = {} /\ got' = <<>> /\ reads' = 0

Continue(next) == phase' = next /\ UNCHANGED <<pc, job, mtx, replies>>

\* std::lock_guard on poolMtx_.
Acquire(t) ==
    /\ pc[t] = "wait"
    /\ mtx = NoThread
    /\ mtx' = t
    /\ pc' = [pc EXCEPT ![t] = "run"]
    /\ phase' = "lookup"
    /\ UNCHANGED <<job, client, net, fresh, todo, got, reads, replies, calls>>

\* The operation looks at clients_: send uses a connected client and creates
\* one otherwise; test starts afresh; remove is done; healthCheck pings them
\* all, connected or not.
Lookup(t) ==
    LET s == job[t].server IN
    /\ phase = "lookup"
    /\ CASE job[t].op = "send" ->
              /\ Continue(IF client[s] = "connected" THEN "command" ELSE "connect")
              /\ UNCHANGED <<client, conn, orphans, fresh, todo, got, reads>>
         [] job[t].op = "test" ->
              Continue("connect") /\ Erase(s) /\ UNCHANGED <<fresh, todo, got, reads>>
         [] job[t].op = "remove" ->
              Return(t, <<>>) /\ Erase(s)
         [] job[t].op = "health" ->
              /\ Continue("ping")
              /\ todo' = {x \in Servers : client[x] # "none"}
              /\ UNCHANGED <<client, conn, orphans, fresh, got, reads>>
    /\ UNCHANGED <<runs, calls>>

\* getOrCreate and connectInternal: the server is unknown or unreachable, and the
\* call returns an empty reply; or there is a new connection, to which the server's
\* answer to the password may come in part.
Connect(t) ==
    LET s == job[t].server IN
    /\ phase = "connect"
    /\ \/ Return(t, <<>>) /\ UNCHANGED <<client, conn, orphans>>
       \/ /\ \E partial \in BOOLEAN : conn' = [conn EXCEPT ![s] = [NewConn EXCEPT !.partial = partial]]
          /\ orphans' = Orphaned(s)
          /\ Continue("auth")
          /\ UNCHANGED <<client, fresh, todo, got, reads>>
    /\ UNCHANGED <<runs, calls>>

\* The password is accepted, and the new connection replaces a dead one; or it is
\* rejected, or no answer comes, and the call returns an empty reply.
Authenticate(t) ==
    LET s == job[t].server IN
    /\ phase = "auth"
    /\ ~Blocked(s)
    /\ \/ Return(t, <<>>) /\ Close(s) /\ UNCHANGED client
       \/ /\ client' = [client EXCEPT ![s] = "connected"]
          /\ fresh' = TRUE
          /\ Continue("command")
          /\ UNCHANGED <<conn, orphans, todo, got, reads>>
    /\ UNCHANGED <<runs, calls>>

\* The server whose connection is in use, and whether it is for a ping.
Target(t) == IF job[t].op = "health" THEN CHOOSE s \in todo : TRUE ELSE job[t].server
Pinging(t) == job[t].op = "health"

\* healthCheck moves to the next client, or returns; the clients that failed
\* are erased.
NextPing(t, alive) ==
    /\ IF alive THEN UNCHANGED <<client, conn, orphans>> ELSE Erase(Target(t))
    /\ todo' = todo \ {Target(t)}
    /\ got' = <<>> /\ reads' = 0
    /\ Continue("ping")
    /\ UNCHANGED fresh

Ping(t) ==
    /\ phase = "ping"
    /\ IF todo = {}
       THEN Return(t, <<>>) /\ UNCHANGED <<client, conn, orphans>>
       ELSE IF client[Target(t)] # "connected"
            THEN NextPing(t, FALSE)
            ELSE Continue("command") /\ UNCHANGED <<client, conn, orphans, fresh, todo, got, reads>>
    /\ UNCHANGED <<runs, calls>>

\* Mutant of Finish: a command is sent again for as long as it fails.
FinishRetrying(t, reply, alive) ==
    LET s == Target(t) IN
    CASE Pinging(t) -> NextPing(t, alive)
      [] ~Pinging(t) /\ job[t].op = "send" /\ reply = <<>> /\ ~alive ->
           /\ Erase(s)
           /\ got' = <<>> /\ reads' = 0
           /\ Continue("connect")
           /\ UNCHANGED <<fresh, todo>>
      [] OTHER ->
           /\ Return(t, reply)
           /\ client' = [client EXCEPT ![s] = IF alive THEN "connected" ELSE "dead"]
           /\ UNCHANGED <<conn, orphans>>

\* execute() or ping() is over.  A send on a connection that was there before
\* and died without a word of reply is tried once more on a new one.
Finish(t, reply, alive) ==
    LET s == Target(t) IN
    CASE Pinging(t) -> NextPing(t, alive)
      [] ~Pinging(t) /\ job[t].op = "send" /\ reply = <<>> /\ ~alive /\ ~fresh ->
           /\ Erase(s)
           /\ got' = <<>> /\ reads' = 0
           /\ Continue("connect")
           /\ UNCHANGED <<fresh, todo>>
      [] OTHER ->
           /\ Return(t, reply)
           /\ client' = [client EXCEPT ![s] = IF alive THEN "connected" ELSE "dead"]
           /\ UNCHANGED <<conn, orphans>>

\* sendPacket: the bytes reach the connection's stream, or, when the peer has
\* gone, they are lost or the send fails.
SendPacket(t, now, next, requests) ==
    LET s == Target(t) IN
    /\ phase = now
    /\ \/ /\ conn[s].open
          /\ \E r \in requests : conn' = [conn EXCEPT ![s].requests = Append(@, r)]
          /\ Continue(next)
          /\ UNCHANGED <<client, orphans, fresh, todo, got, reads>>
       \/ /\ ~conn[s].open
          /\ Continue(next)
          /\ UNCHANGED <<client, conn, orphans, fresh, todo, got, reads>>
       \/ /\ ~conn[s].open
          /\ Finish(t, <<>>, FALSE)
    /\ UNCHANGED <<runs, calls>>

SendCommand(t) == SendPacket(t, "command", "end", Requests(job[t].n, FALSE, ~Pinging(t)))
SendEnd(t) == SendPacket(t, "end", "read", Requests(job[t].n, TRUE, FALSE))

\* Is a packet part of the reply of call n?
OwnPacket(p, n) == p.call = n /\ ~p.end

\* One turn of the reply loop with a packet to read: it ends the reply, or is
\* added to it if it carries the command's id, and is dropped otherwise.  The
\* loop also ends after so many packets; ping takes that for a success.
ReadPacket(t) ==
    LET s == Target(t)
        n == job[t].n
        p == Head(conn[s].packets)
        reply == IF OwnPacket(p, n) THEN Append(got, p.call) ELSE got
        ends == p.call = n /\ p.end
        capped == reads + 1 = IF Pinging(t) THEN PingCap ELSE PacketCap
    IN  /\ phase = "read"
        /\ conn[s].packets # <<>>
        /\ conn' = [conn EXCEPT ![s].packets = Tail(@),
                                ![s].cut = @ \/ (capped /\ ~ends)]
        /\ IF ends \/ capped
           THEN IF Pinging(t)
                THEN /\ todo' = todo \ {s} /\ got' = <<>> /\ reads' = 0
                     /\ Continue("ping")
                     /\ UNCHANGED <<client, fresh>>
                ELSE /\ Return(t, reply)
                     /\ client' = [client EXCEPT ![s] = "connected"]
           ELSE /\ got' = reply /\ reads' = reads + 1
                /\ UNCHANGED <<pc, job, mtx, phase, client, fresh, todo, replies>>
        /\ UNCHANGED <<orphans, runs, calls>>

\* Mutants of ReadTimeout: the connection is kept; and there is no timeout.
TimeoutKeepsConnection(t) ==
    /\ phase = "read"
    /\ conn[Target(t)].packets = <<>> /\ ~Blocked(Target(t))
    /\ Finish(t, got, TRUE)
    /\ UNCHANGED <<runs, calls>>

TimeoutNever(t) ==
    /\ phase = "read"
    /\ conn[Target(t)].packets = <<>> /\ ~conn[Target(t)].open
    /\ Finish(t, got, FALSE)
    /\ UNCHANGED <<runs, calls>>

\* recvPacket has nothing to return: poll() timed out, or the peer has gone.
\* connected_ becomes false and what was read so far is the reply.
ReadTimeout(t) ==
    /\ phase = "read"
    /\ conn[Target(t)].packets = <<>> /\ ~Blocked(Target(t))
    /\ Finish(t, got, FALSE)
    /\ UNCHANGED <<runs, calls>>

--------------------------------------------------------------------------------
(* The game servers and the network.                                        *)

\* A server sends one more packet for its oldest request; with the first one it
\* has executed the command.
Serve(s) ==
    LET r == Head(conn[s].requests) IN
    /\ conn[s].open /\ conn[s].requests # <<>>
    /\ runs' = IF r.run THEN [runs EXCEPT ![r.call] = @ + 1] ELSE runs
    /\ conn' = [conn EXCEPT
            ![s].packets = Append(@, [call |-> r.call, end |-> r.end]), ![s].partial = FALSE,
            ![s].requests = IF r.left = 1 THEN Tail(@) ELSE <<[r EXCEPT !.left = @ - 1, !.run = FALSE]>> \o Tail(@)]
    /\ UNCHANGED <<pc, job, mtx, client, io, orphans, replies, calls>>

\* The first part of the next packet arrives, and the rest does not yet; as for a
\* whole packet, the command has been executed.
Tear(s) ==
    LET r == Head(conn[s].requests) IN
    /\ conn[s].open /\ ~conn[s].partial /\ conn[s].requests # <<>>
    /\ runs' = IF r.run THEN [runs EXCEPT ![r.call] = @ + 1] ELSE runs
    /\ conn' = [conn EXCEPT ![s].partial = TRUE,
                            ![s].requests = <<[r EXCEPT !.run = FALSE]>> \o Tail(@)]
    /\ UNCHANGED <<pc, job, mtx, client, io, orphans, replies, calls>>

\* The rest of the answer to the password arrives.
Mend(s) ==
    /\ conn[s].partial /\ conn[s].requests = <<>>
    /\ conn' = [conn EXCEPT ![s].partial = FALSE]
    /\ UNCHANGED <<pc, job, mtx, client, io, orphans, runs, replies, calls>>

\* A command sent on a connection the panel has closed since is executed.
ServeOrphan(n) ==
    /\ orphans[n] > 0
    /\ orphans' = [orphans EXCEPT ![n] = @ - 1]
    /\ runs' = [runs EXCEPT ![n] = @ + 1]
    /\ UNCHANGED <<pc, job, mtx, client, conn, io, replies, calls>>

\* A connection dies: any suffix of what was on the way to the panel is lost,
\* and the requests the server has not seen are lost or executed unheard.
Drop(s) ==
    /\ conn[s].open
    /\ \E i \in 0..Len(conn[s].packets) :
        conn' = [conn EXCEPT ![s].open = FALSE, ![s].requests = <<>>, ![s].partial = FALSE,
                              ![s].packets = SubSeq(@, 1, i)]
    /\ orphans' = Orphaned(s)
    /\ UNCHANGED <<pc, job, mtx, client, io, runs, replies, calls>>

--------------------------------------------------------------------------------
Holding(t) ==
    /\ pc[t] = "run"
    /\ \/ Lookup(t) \/ Connect(t) \/ Authenticate(t) \/ Ping(t) \/ SendCommand(t) \/ SendEnd(t)
       \/ ReadPacket(t) \/ ReadTimeout(t)

Environment ==
    \/ \E s \in Servers : Serve(s) \/ Tear(s) \/ Mend(s) \/ Drop(s)
    \/ \E n \in CallIds : ServeOrphan(n)

Next ==
    \/ \E t \in Threads :
        \/ \E op \in Ops, s \in Servers : Call(t, op, s)
        \/ Acquire(t)
        \/ Holding(t)
    \/ Environment

\* Threads are scheduled; nothing is assumed of the servers and the network.
Fairness == \A t \in Threads : WF_vars(Acquire(t)) /\ WF_vars(Holding(t))

Spec == Init /\ [][Next]_vars /\ Fairness

--------------------------------------------------------------------------------
\* What is sent to a server, what comes back, and a connection.
Commands == [call : CallIds, end : BOOLEAN, left : Nat \ {0}, run : BOOLEAN]
Packets == [call : CallIds, end : BOOLEAN]
Conns == [open : BOOLEAN, requests : Seq(Commands), packets : Seq(Packets),
          partial : BOOLEAN, cut : BOOLEAN]
Jobs == [op : Ops, server : Servers, n : CallIds]

\* The threads and the operation under way.
ControlTyped ==
    /\ pc \in [Threads -> {"idle", "wait", "run"}]
    /\ job \in [Threads -> {NoJob} \cup Jobs]
    /\ \A t \in Threads : pc[t] = "idle" <=> job[t] = NoJob
    /\ mtx \in Threads \cup {NoThread}
    /\ phase \in {"free", "lookup", "connect", "auth", "ping", "command", "end", "read"}
    /\ fresh \in BOOLEAN /\ todo \subseteq Servers /\ got \in Seq(CallIds) /\ reads \in Nat
    /\ replies \in [CallIds -> Seq(CallIds)]
    /\ calls \in 0..MaxCalls

\* The connections and what is on its way.
StoreTyped ==
    /\ client \in [Servers -> {"none", "connected", "dead"}]
    /\ conn \in [Servers -> Conns]
    /\ runs \in [CallIds -> Nat] /\ orphans \in [CallIds -> Nat]

TypeOK == ControlTyped /\ StoreTyped

\* The pool retries once, so a command is executed at most twice, whatever is
\* lost and however late a closed connection delivers.
AtMostTwice == \A n \in CallIds : runs[n] <= 2

\* A reply contains packets of its own command only, although connections are
\* shared by all threads and a timed-out command's packets can still arrive.
ReplyIsOwn == \A n \in CallIds : \A i \in DOMAIN replies[n] : replies[n][i] = n

\* Between operations a connection that will be reused has nothing on its way:
\* an operation that stopped before the end of its reply has given it up.  The
\* one exception is a reply of 64 packets and more, which is cut off.
StreamInSync ==
    \A s \in Servers : mtx = NoThread /\ client[s] = "connected" /\ ~conn[s].cut =>
        conn[s].packets = <<>> /\ conn[s].requests = <<>>

\* A connection's stream belongs to the command that reads it.
StreamIsOwn == TypeOK /\ ReplyIsOwn /\ StreamInSync

\* An operation that waits for the pool, or for the network, comes to an end,
\* whatever the servers and the network do, but leave a packet in part for ever.
CallsReturn ==
    (\A s \in Servers : []<>~Blocked(s)) => \A t \in Threads : pc[t] = "wait" ~> pc[t] = "idle"
================================================================================

------------------------------ MODULE AccountsProofs ------------------------------
(***************************************************************************)
(* Theorems about Accounts: the foreign keys of the schema, whose account a  *)
(* token opens, and who owns the panel and its servers, for any number of     *)
(* threads, users, servers and tokens.                                      *)
(***************************************************************************)
EXTENDS Accounts, FiniteSetTheorems, TLAPS

--------------------------------------------------------------------------------
(* The invariant of every state, table by table.                            *)

Sessions == [user : UserIds, left : -1..Lifetime]

\* Ids are never given twice: every row's is at most the last one of the sequence.
UserTable ==
    /\ user \in [UserIds -> Users \cup {Absent}]
    /\ \A u, v \in Live(user) : user[u].name = user[v].name => u = v
    /\ seq \in [users : 0..MaxUsers, servers : 0..MaxServers]
    /\ Live(user) \subseteq 1..seq.users

SessionTable ==
    /\ session \in [Tokens -> Sessions \cup {Absent}]
    /\ \A k \in Live(session) : session[k].user \in Live(user)

PermTable == perms \subseteq Live(user) \X {"default", "override"}

ServerTable ==
    /\ server \in [ServerIds -> [creator : UserIds] \cup {Absent}]
    /\ \A s \in Live(server) : server[s].creator \in Live(user)
    /\ Live(server) \subseteq 1..seq.servers

MemberTable ==
    /\ members \in [DOMAIN members -> MemberRoles]
    /\ DOMAIN members \subseteq Live(server) \X Live(user)
    /\ plugins \subseteq Live(user) \X Live(server)

Ops == {"none", "register", "login", "logout", "add", "approve", "reject", "delete", "role",
        "permissions", "create", "delserver", "addmember", "change", "remove", "addplugin", "delplugin"}
ServerOps == {"create", "delserver", "addmember", "change", "remove", "addplugin", "delplugin"}
Requests == [op : Ops, me : Nat, user : Nat, name : Names \cup {""},
             role : Roles \cup MemberRoles \cup {""}, server : Nat, id : Nat, self : BOOLEAN]

\* The requests a statement belongs to.
OpsOf(phase) ==
    CASE phase = "count" -> {"register"}
      [] phase = "insuser" -> {"register", "add"}
      [] phase = "rowid" -> {"register", "add", "create"}
      [] phase = "session" -> {"register", "login"}
      [] phase = "logout" -> {"logout"}
      [] phase = "setstatus" -> {"approve", "reject"}
      [] phase = "setrole" -> {"role"}
      [] phase = "delperms" -> {"delete", "role"}
      [] phase = "perms" -> {"add", "role"}
      [] phase \in {"target", "override"} -> {"permissions"}
      [] phase \in {"delsessions", "delmembers", "deluser"} -> {"delete"}
      [] phase \in {"insserver", "member"} -> {"create"}
      [] phase \in {"addplugin", "delplugin"} -> {phase}
      [] phase \in {"allowed", "act"} -> {"delserver", "addmember", "change", "remove"}
      [] OTHER -> {"none"}

\* What a request carries.
Carries(r, phase) ==
    /\ r.op \in OpsOf(phase)
    /\ r.op \in {"register", "login", "add"} => r.name \in Names
    /\ phase = "insuser" => r.role \in Roles
    /\ r.op = "role" => r.role \in Roles
    /\ r.op = "logout" => r.id \in Tokens
    /\ r.op \in {"addmember", "change"} => r.role \in MemberRoles
    /\ r.op \in {"approve", "reject", "delete", "role", "permissions"} => r.user \in UserIds

Control ==
    /\ pc \in [Threads -> Phases] /\ req \in [Threads -> Requests]
    /\ lastId \in 0..Max({MaxUsers, MaxServers})
    /\ limit \in [age : 0..(Window + 1), count : 0..MaxAttempts]
    /\ \A t \in Threads : Carries(req[t], pc[t])

History ==
    /\ issued \in [Tokens -> [name : Names, by : {"register", "login"}] \cup {Absent}]
    /\ founders \subseteq 1..seq.users
    /\ deleted \subseteq (1..seq.users) \X BOOLEAN
    /\ raced \in BOOLEAN

Keys ==
    /\ UserTable /\ SessionTable /\ PermTable /\ ServerTable /\ MemberTable
    /\ Control /\ History

--------------------------------------------------------------------------------
(* The tokens.                                                              *)

\* Tokens are drawn one after the other, and no session has another.
Drawn ==
    /\ \E n \in Nat : Live(issued) = 1..n
    /\ Live(session) \subseteq Live(issued)

\* The row that a login has read is still that user's, or gone.
LoginSure ==
    \A t \in Threads : LET r == req[t] IN
        pc[t] = "session" /\ r.op = "login" =>
            /\ r.id \in 1..seq.users
            /\ r.id \in Live(user) => user[r.id].name = r.name

--------------------------------------------------------------------------------
(* As long as no two requests overlap and none is stopped.                  *)

Alone == \A t, u \in Threads : pc[t] # "idle" /\ pc[u] # "idle" => t = u

\* What the request has seen or done is still so.
Sure(t) ==
    LET r == req[t] IN
    /\ pc[t] \in {"count", "insuser"} => Named(r.name) = {}
    /\ pc[t] = "insuser" => IF r.op = "register" THEN r.role = FirstRole ELSE Live(user) # {}
    /\ pc[t] = "rowid" /\ r.op = "register" => lastId \in Named(r.name)
    /\ pc[t] = "session" /\ r.op = "register" => r.id \in Named(r.name)
    /\ r.op = "create" => r.me \in Live(user)
    /\ pc[t] = "rowid" /\ r.op = "create" => lastId \in Live(server) /\ RoleOn(lastId, r.me) = ""
    /\ pc[t] = "member" => r.id \in Live(server) /\ RoleOn(r.id, r.me) = ""
    /\ r.op \in SelfProtected /\ ~misspelt => IsActiveOwner(r.me) /\ r.me # r.user
    /\ r.op \in {"change", "remove"} /\ ~misspelt => (r.self <=> r.user = r.me)
    /\ pc[t] \in {"delperms", "delmembers", "deluser"} /\ r.op = "delete" =>
        \A k \in Live(session) : session[k].user # r.user
    /\ pc[t] \in {"delmembers", "deluser"} => \A p \in perms : p[1] # r.user
    /\ pc[t] = "act" => Allowed(r)

\* There is no founder, or the only one there has been.
OneFounder == misspelt \/ founders = {} \/ (Live(user) # {} /\ \E u \in founders : founders = {u})

Owned(s) == \E u \in UserIds : RoleOn(s, u) = "owner"

\* The request that creates s has yet to make its user the owner of s.
Makes(t, s) ==
    /\ req[t].op = "create"
    /\ \/ pc[t] = "rowid" /\ lastId = s
       \/ pc[t] = "member" /\ req[t].id = s

Deletes(t) == req[t].op = "delete" /\ req[t].user \in Live(user)

ServersKept ==
    misspelt \/ stopped \/ deleted # {} \/ \A s \in Live(server) :
        Owned(s) \/ \E t \in Threads : Makes(t, s) \/ Deletes(t)

Quiet ==
    /\ Alone /\ \A t \in Threads : Sure(t)
    /\ OneFounder /\ OwnersRemain /\ ServersKept /\ DeletedIsGone

Undisturbed == raced \/ Quiet

--------------------------------------------------------------------------------
(* The founders.                                                            *)

\* The registrations that have seen an empty table and not inserted their user.
Founding == {t \in Threads : pc[t] = "insuser" /\ req[t].op = "register" /\ req[t].role = "server_owner"}

Crowd == Cardinality(founders \cap Live(user)) + Cardinality(Founding) <= Cardinality(Threads)

--------------------------------------------------------------------------------
(* Rows and tables.                                                         *)

\* No row is the absence of one.
LEMMA RowsPresent ==
    /\ \A r \in Users : r # Absent
    /\ \A r \in Sessions : r # Absent
    /\ \A r \in [creator : UserIds] : r # Absent
    /\ \A r \in [name : Names, by : {"register", "login"}] : r # Absent
<1>1. ASSUME NEW r \in Users PROVE r # Absent
  <2>1. "name" \in DOMAIN r /\ "name" \notin DOMAIN Absent
    BY DEF Users, Absent
  <2> QED
    BY <2>1
<1>2. ASSUME NEW r \in Sessions PROVE r # Absent
  <2>1. "user" \in DOMAIN r /\ "user" \notin DOMAIN Absent
    BY DEF Sessions, Absent
  <2> QED
    BY <2>1
<1>3. ASSUME NEW r \in [creator : UserIds] PROVE r # Absent
  <2>1. "creator" \in DOMAIN r /\ "creator" \notin DOMAIN Absent
    BY DEF Absent
  <2> QED
    BY <2>1
<1>4. ASSUME NEW r \in [name : Names, by : {"register", "login"}] PROVE r # Absent
  <2>1. "name" \in DOMAIN r /\ "name" \notin DOMAIN Absent
    BY DEF Absent
  <2> QED
    BY <2>1
<1> QED
  BY <1>1, <1>2, <1>3, <1>4

\* The schema and the type invariant, table by table.
LEMMA SchemaParts ==
    ASSUME NEW u, NEW ss, NEW sv, NEW m, NEW a
    PROVE  Schema(u, ss, sv, m, a) <=>
              /\ u \in [UserIds -> Users \cup {Absent}]
              /\ \A x, y \in Live(u) : u[x].name = u[y].name => x = y
              /\ ss \in [Tokens -> Sessions \cup {Absent}]
              /\ \A k \in Live(ss) : ss[k].user \in Live(u)
              /\ sv \in [ServerIds -> [creator : UserIds] \cup {Absent}]
              /\ \A s \in Live(sv) : sv[s].creator \in Live(u)
              /\ m \in [DOMAIN m -> MemberRoles]
              /\ DOMAIN m \subseteq Live(sv) \X Live(u)
              /\ a \subseteq Live(u) \X Live(sv)
<1>1. ASSUME u \in [UserIds -> Users \cup {Absent}] PROVE Live(u) \subseteq UserIds
  BY <1>1 DEF Live
<1>2. ASSUME u \in [UserIds -> Users \cup {Absent}]
      PROVE  ss \in [Tokens -> [user : Live(u), left : -1..Lifetime] \cup {Absent}] <=>
                /\ ss \in [Tokens -> Sessions \cup {Absent}]
                /\ \A k \in Live(ss) : ss[k].user \in Live(u)
  <2>1. ASSUME ss \in [Tokens -> [user : Live(u), left : -1..Lifetime] \cup {Absent}]
        PROVE  /\ ss \in [Tokens -> Sessions \cup {Absent}]
               /\ \A k \in Live(ss) : ss[k].user \in Live(u)
    <3>1. [user : Live(u), left : -1..Lifetime] \subseteq Sessions
      BY <1>1, <1>2 DEF Sessions
    <3>2. ss \in [Tokens -> Sessions \cup {Absent}]
      BY <2>1, <3>1
    <3>3. \A k \in Live(ss) : ss[k] \in [user : Live(u), left : -1..Lifetime]
      BY <2>1 DEF Live
    <3> QED
      BY <3>2, <3>3
  <2>2. ASSUME ss \in [Tokens -> Sessions \cup {Absent}],
               \A k \in Live(ss) : ss[k].user \in Live(u)
        PROVE  ss \in [Tokens -> [user : Live(u), left : -1..Lifetime] \cup {Absent}]
    <3>1. ASSUME NEW k \in Tokens, ss[k] # Absent
          PROVE  ss[k] \in [user : Live(u), left : -1..Lifetime]
      <4>1. k \in Live(ss) /\ ss[k] \in Sessions
        BY <2>2, <3>1 DEF Live
      <4> QED
        BY <2>2, <4>1 DEF Sessions
    <3> QED
      BY <2>2, <3>1
  <2> QED
    BY <2>1, <2>2
<1>3. ASSUME u \in [UserIds -> Users \cup {Absent}]
      PROVE  sv \in [ServerIds -> [creator : Live(u)] \cup {Absent}] <=>
                /\ sv \in [ServerIds -> [creator : UserIds] \cup {Absent}]
                /\ \A s \in Live(sv) : sv[s].creator \in Live(u)
  <2>1. ASSUME sv \in [ServerIds -> [creator : Live(u)] \cup {Absent}]
        PROVE  /\ sv \in [ServerIds -> [creator : UserIds] \cup {Absent}]
               /\ \A s \in Live(sv) : sv[s].creator \in Live(u)
    <3>1. [creator : Live(u)] \subseteq [creator : UserIds]
      BY <1>1, <1>3
    <3>2. sv \in [ServerIds -> [creator : UserIds] \cup {Absent}]
      BY <2>1, <3>1
    <3>3. \A s \in Live(sv) : sv[s] \in [creator : Live(u)]
      BY <2>1 DEF Live
    <3> QED
      BY <3>2, <3>3
  <2>2. ASSUME sv \in [ServerIds -> [creator : UserIds] \cup {Absent}],
               \A s \in Live(sv) : sv[s].creator \in Live(u)
        PROVE  sv \in [ServerIds -> [creator : Live(u)] \cup {Absent}]
    <3>1. ASSUME NEW s \in ServerIds, sv[s] # Absent PROVE sv[s] \in [creator : Live(u)]
      <4>1. s \in Live(sv) /\ sv[s] \in [creator : UserIds]
        BY <2>2, <3>1 DEF Live
      <4> QED
        BY <2>2, <4>1
    <3> QED
      BY <2>2, <3>1
  <2> QED
    BY <2>1, <2>2
<1> QED
  BY <1>2, <1>3 DEF Schema

LEMMA TypeParts == Keys => TypeOK
<1> SUFFICES ASSUME Keys PROVE TypeOK
  OBVIOUS
<1>1. Schema(user, session, server, members, plugins)
  BY SchemaParts DEF Keys, UserTable, SessionTable, ServerTable, MemberTable
<1>2. limit.age \in 0..(Window + 1) /\ limit.count \in 0..MaxAttempts
  BY DEF Keys, Control
<1> QED
  BY <1>1, <1>2 DEF TypeOK, Keys, PermTable, Control

--------------------------------------------------------------------------------
(* Every state has the keys.                                                *)

LEMMA Bounds ==
    /\ MaxUsers \in Nat /\ MaxServers \in Nat /\ MaxTokens \in Nat /\ Lifetime \in Nat
    /\ Window \in Nat /\ MaxAttempts \in Nat \ {0} /\ MaxCrashes \in Nat
    /\ \A id \in {0} \cup UserIds \cup ServerIds : id \in 0..Max({MaxUsers, MaxServers})
<1>1. /\ MaxUsers \in Nat /\ MaxServers \in Nat /\ MaxTokens \in Nat /\ Lifetime \in Nat
      /\ Window \in Nat /\ MaxAttempts \in Nat \ {0} /\ MaxCrashes \in Nat
  BY AccountsAssumption
<1> DEFINE m == Max({MaxUsers, MaxServers})
<1>2. m \in {MaxUsers, MaxServers} /\ m >= MaxUsers /\ m >= MaxServers
  <2>1. \E x \in {MaxUsers, MaxServers} : \A y \in {MaxUsers, MaxServers} : x >= y
    <3>1. MaxUsers >= MaxServers \/ MaxServers >= MaxUsers
      BY <1>1
    <3>2. MaxUsers >= MaxUsers /\ MaxServers >= MaxServers
      BY <1>1
    <3> QED
      BY <3>1, <3>2
  <2> QED
    BY <2>1 DEF Max
<1> HIDE DEF m
<1>3. \A id \in {0} \cup UserIds \cup ServerIds : id \in 0..m
  BY <1>1, <1>2 DEF UserIds, ServerIds
<1> QED
  BY <1>1, <1>3 DEF m

\* A table without gaps has as many rows as its last id.
LEMMA LastIdOf ==
    ASSUME NEW N \in Nat, NEW R, NEW f \in [1..N -> R \cup {Absent}],
           Live(f) = 1..Cardinality(Live(f))
    PROVE  Cardinality(Live(f)) \in 0..N
<1>1. Live(f) \subseteq 1..N
  BY DEF Live
<1>2. IsFiniteSet(1..N) /\ Cardinality(1..N) = N
  BY FS_Interval
<1>3. Cardinality(Live(f)) <= Cardinality(1..N) /\ Cardinality(Live(f)) \in Nat
  BY <1>1, <1>2, FS_Subset, FS_CardinalityType
<1> QED
  BY <1>2, <1>3

LEMMA NoRequest == NoReq \in Requests /\ Carries(NoReq, "idle") /\ NoReq.op = "none"
  BY DEF NoReq, Requests, Ops, Carries, OpsOf

LEMMA InitKeys == Init => Keys
<1> SUFFICES ASSUME Init PROVE Keys
  OBVIOUS
<1>1. PICK s \in Snapshots :
        /\ user = s.user /\ session = s.session /\ server = s.server /\ members = s.members
        /\ plugins = s.plugins
        /\ issued = [k \in DOMAIN s.session |-> IF s.session[k] = Absent THEN Absent
                         ELSE [name |-> s.user[s.session[k].user].name, by |-> "login"]]
  BY DEF Init
<1>2. Schema(user, session, server, members, plugins)
      /\ Live(user) = 1..Cardinality(Live(user)) /\ Live(server) = 1..Cardinality(Live(server))
  BY <1>1, SnapshotsAssumption
<1>3. /\ user \in [UserIds -> Users \cup {Absent}]
      /\ \A x, y \in Live(user) : user[x].name = user[y].name => x = y
      /\ session \in [Tokens -> Sessions \cup {Absent}]
      /\ \A k \in Live(session) : session[k].user \in Live(user)
      /\ server \in [ServerIds -> [creator : UserIds] \cup {Absent}]
      /\ \A sv \in Live(server) : server[sv].creator \in Live(user)
      /\ members \in [DOMAIN members -> MemberRoles]
      /\ DOMAIN members \subseteq Live(server) \X Live(user)
      /\ plugins \subseteq Live(user) \X Live(server)
  BY <1>2, SchemaParts
<1>4. seq.users \in 0..MaxUsers /\ seq.users = Cardinality(Live(user))
  BY <1>2, <1>3, LastIdOf, Bounds DEF Init, UserIds
<1>5. seq.servers \in 0..MaxServers /\ seq.servers = Cardinality(Live(server))
  BY <1>2, <1>3, LastIdOf, Bounds DEF Init, ServerIds
<1>6. UserTable /\ SessionTable /\ ServerTable /\ MemberTable /\ PermTable
  <2>1. seq \in [users : 0..MaxUsers, servers : 0..MaxServers]
    BY <1>4, <1>5 DEF Init
  <2>2. Live(user) \subseteq 1..seq.users /\ Live(server) \subseteq 1..seq.servers
    BY <1>2, <1>4, <1>5
  <2> QED
    BY <1>3, <2>1, <2>2 DEF UserTable, SessionTable, ServerTable, MemberTable, PermTable, Init
<1>7. Control
  <2>1. \A t \in Threads : Carries(req[t], pc[t])
    BY NoRequest DEF Init
  <2>2. limit \in [age : 0..(Window + 1), count : 0..MaxAttempts]
    BY Bounds DEF Init, NoLimit
  <2>3. pc \in [Threads -> Phases] /\ req \in [Threads -> Requests]
    BY NoRequest DEF Init, Phases
  <2>4. lastId \in 0..Max({MaxUsers, MaxServers})
    BY Bounds DEF Init
  <2> QED
    BY <2>1, <2>2, <2>3, <2>4 DEF Control
<1>8. History
  <2>1. ASSUME NEW k \in Tokens, session[k] # Absent
        PROVE  user[session[k].user].name \in Names
    <3>1. session[k].user \in Live(user)
      BY <1>3, <2>1 DEF Live
    <3>2. user[session[k].user] \in Users
      BY <1>3, <3>1 DEF Live
    <3> QED
      BY <3>2 DEF Users
  <2>2. issued \in [Tokens -> [name : Names, by : {"register", "login"}] \cup {Absent}]
    BY <1>1, <1>3, <2>1
  <2> QED
    BY <2>2 DEF History, Init
<1> QED
  BY <1>6, <1>7, <1>8 DEF Keys

\* What a step that changes one thread's request, if any, leaves in order.
LEMMA ThreadControl ==
    ASSUME Keys, NEW t \in Threads, NEW r \in Requests, NEW phase \in Phases, Carries(r, phase),
           pc' = [pc EXCEPT ![t] = phase], req' = [req EXCEPT ![t] = r],
           lastId' \in 0..Max({MaxUsers, MaxServers}),
           limit' \in [age : 0..(Window + 1), count : 0..MaxAttempts]
    PROVE  Control'
<1>1. pc \in [Threads -> Phases] /\ req \in [Threads -> Requests]
      /\ \A u \in Threads : Carries(req[u], pc[u])
  BY DEF Keys, Control
<1>2. pc' \in [Threads -> Phases] /\ req' \in [Threads -> Requests]
  BY <1>1
<1>3. ASSUME NEW u \in Threads PROVE Carries(req'[u], pc'[u])
  <2>1. CASE u = t
    <3>1. req'[u] = r /\ pc'[u] = phase
      BY <1>1, <2>1
    <3> QED
      BY <3>1
  <2>2. CASE u # t
    <3>1. req'[u] = req[u] /\ pc'[u] = pc[u]
      BY <1>1, <2>2
    <3> QED
      BY <1>1, <3>1
  <2> QED
    BY <2>1, <2>2
<1> QED
  BY <1>2, <1>3 DEF Control

LEMMA TablesSame ==
    ASSUME Keys, UNCHANGED <<user, session, perms, server, members, plugins, seq>>
    PROVE  UserTable' /\ SessionTable' /\ PermTable' /\ ServerTable' /\ MemberTable'
  BY DEF Keys, UserTable, SessionTable, PermTable, ServerTable, MemberTable

LEMMA HistorySame ==
    ASSUME Keys, UNCHANGED <<issued, founders, deleted>>, raced' \in BOOLEAN,
           seq'.users \in Nat, seq.users <= seq'.users
    PROVE  History'
<1>1. seq.users \in Nat
  BY DEF Keys, UserTable
<1>2. 1..seq.users \subseteq 1..seq'.users
  BY <1>1
<1> QED
  BY <1>2 DEF Keys, History

\* A request that starts.
LEMMA StartKeys ==
    ASSUME Keys, NEW t \in Threads, NEW r \in Requests, NEW phase \in Phases, Carries(r, phase),
           Start(t, r, phase), UNCHANGED <<tables, lastId, history>>,
           limit' \in [age : 0..(Window + 1), count : 0..MaxAttempts]
    PROVE  Keys'
<1>1. UNCHANGED <<user, session, perms, server, members, plugins, seq, lastId, issued, founders, deleted>>
  BY DEF tables, history
<1>2. /\ pc' = [pc EXCEPT ![t] = phase] /\ req' = [req EXCEPT ![t] = r]
      /\ raced' \in BOOLEAN
  BY DEF Start, Goto, Keys, History
<1>3. lastId' \in 0..Max({MaxUsers, MaxServers}) /\ seq.users \in Nat
  BY <1>1 DEF Keys, Control, UserTable
<1>4. Control'
  BY <1>2, <1>3, ThreadControl
<1>5. History'
  BY <1>1, <1>2, <1>3, HistorySame
<1> QED
  BY <1>1, <1>4, <1>5, TablesSame DEF Keys

\* A statement of thread t that leaves what no statement touches.
LEMMA StatementKeys ==
    ASSUME Keys, NEW t \in Threads, NEW r \in Requests, NEW phase \in Phases, Carries(r, phase),
           pc' = [pc EXCEPT ![t] = phase], req' = [req EXCEPT ![t] = r],
           lastId' \in 0..Max({MaxUsers, MaxServers}), UNCHANGED <<limit, raced>>
    PROVE  Control' /\ raced' \in BOOLEAN
<1>1. limit' \in [age : 0..(Window + 1), count : 0..MaxAttempts] /\ raced' \in BOOLEAN
  BY DEF Keys, Control, History
<1> QED
  BY <1>1, ThreadControl

\* What is known of the request of a thread, and of the requests derived from it.
LEMMA RequestOf ==
    ASSUME Keys, NEW t \in Threads
    PROVE  /\ req[t] \in Requests /\ pc[t] \in Phases /\ Carries(req[t], pc[t])
           /\ req = [req EXCEPT ![t] = req[t]]
           /\ req \in [Threads -> Requests] /\ pc \in [Threads -> Phases]
           /\ lastId \in 0..Max({MaxUsers, MaxServers})
           /\ limit \in [age : 0..(Window + 1), count : 0..MaxAttempts]
  BY DEF Keys, Control

\* The steps that end a request, or go on with it.
LEMMA DoneKeys ==
    ASSUME Keys, NEW t \in Threads, Done(t),
           lastId' \in 0..Max({MaxUsers, MaxServers}), UNCHANGED <<limit, raced>>
    PROVE  Control' /\ raced' \in BOOLEAN
<1>1. "idle" \in Phases
  BY DEF Phases
<1> QED
  BY <1>1, NoRequest, StatementKeys DEF Done, Goto

LEMMA NextKeys ==
    ASSUME Keys, NEW t \in Threads, NEW phase \in Phases, Next1(t, phase), Carries(req[t], phase),
           lastId' \in 0..Max({MaxUsers, MaxServers}), UNCHANGED <<limit, raced>>
    PROVE  Control' /\ raced' \in BOOLEAN
<1>1. req[t] \in Requests /\ req' = [req EXCEPT ![t] = req[t]]
  BY RequestOf DEF Next1
<1>2. pc' = [pc EXCEPT ![t] = phase]
  BY DEF Next1, Goto
<1> QED
  BY <1>1, <1>2, StatementKeys

LEMMA RowElsewhereTyped == RowElsewhere => lastId' \in 0..Max({MaxUsers, MaxServers})
  BY Bounds DEF RowElsewhere

\* The requests of this panel that start.
LEMMA RequestKeys ==
    ASSUME Keys, NEW t \in Threads, NEW r \in Requests, NEW phase \in Phases, Carries(r, phase),
           \/ Start(t, r, phase) /\ UNCHANGED <<tables, lastId, limiter, history>>
           \/ Start(t, r, phase) /\ Attempt /\ UNCHANGED <<tables, lastId, history>>
    PROVE  Keys'
<1>1. limit \in [age : 0..(Window + 1), count : 0..MaxAttempts]
  BY RequestOf
<1>2. CASE Start(t, r, phase) /\ UNCHANGED <<tables, lastId, limiter, history>>
  BY <1>1, <1>2, StartKeys DEF limiter
<1>3. CASE Attempt /\ UNCHANGED <<tables, lastId, history>>
  <2>1. limit' \in [age : 0..(Window + 1), count : 0..MaxAttempts]
    BY <1>1, <1>3, Bounds DEF Attempt, Admitted
  <2> QED
    BY <1>3, <2>1, StartKeys
<1> QED
  BY <1>2, <1>3

LEMMA RequestsTyped ==
    /\ \A n \in Names : [NoReq EXCEPT !.op = "register", !.name = n] \in Requests
    /\ \A n \in Names, u \in Nat : [NoReq EXCEPT !.op = "login", !.name = n, !.id = u] \in Requests
    /\ \A k \in Nat : [NoReq EXCEPT !.op = "logout", !.id = k] \in Requests
    /\ \A n \in Names, role \in Roles : [NoReq EXCEPT !.op = "add", !.name = n, !.role = role] \in Requests
    /\ \A op \in Ops, u \in Nat, role \in Roles \cup {""}, self \in BOOLEAN :
          [NoReq EXCEPT !.op = op, !.user = u, !.role = role, !.self = self] \in Requests
    /\ \A op \in Ops, s \in Nat, u \in Nat, role \in MemberRoles \cup {""}, self \in BOOLEAN :
          [NoReq EXCEPT !.op = op, !.server = s, !.user = u, !.role = role, !.self = self] \in Requests
    /\ \A r \in Requests, m \in Nat : [r EXCEPT !.me = m] \in Requests
<1>1. \A n \in Names : [NoReq EXCEPT !.op = "register", !.name = n] \in Requests
  BY DEF NoReq, Requests, Ops
<1>2. \A n \in Names, u \in Nat : [NoReq EXCEPT !.op = "login", !.name = n, !.id = u] \in Requests
  BY DEF NoReq, Requests, Ops
<1>3. \A k \in Nat : [NoReq EXCEPT !.op = "logout", !.id = k] \in Requests
  BY DEF NoReq, Requests, Ops
<1>4. \A n \in Names, role \in Roles : [NoReq EXCEPT !.op = "add", !.name = n, !.role = role] \in Requests
  BY DEF NoReq, Requests, Ops
<1>5. \A op \in Ops, u \in Nat, role \in Roles \cup {""}, self \in BOOLEAN :
         [NoReq EXCEPT !.op = op, !.user = u, !.role = role, !.self = self] \in Requests
  BY DEF NoReq, Requests
<1>6. \A op \in Ops, s \in Nat, u \in Nat, role \in MemberRoles \cup {""}, self \in BOOLEAN :
         [NoReq EXCEPT !.op = op, !.server = s, !.user = u, !.role = role, !.self = self] \in Requests
  BY DEF NoReq, Requests
<1>7. \A r \in Requests, m \in Nat : [r EXCEPT !.me = m] \in Requests
  BY DEF Requests
<1> QED
  BY <1>1, <1>2, <1>3, <1>4, <1>5, <1>6, <1>7, Zenon

LEMMA RegisterKeys ==
    ASSUME Keys, NEW t \in Threads, NEW n \in Names, Register(t, n)
    PROVE  Keys'
<1> DEFINE r == [NoReq EXCEPT !.op = "register", !.name = n]
<1>1. r \in Requests /\ r.op = "register" /\ r.name = n
  BY RequestsTyped DEF NoReq
<1>2. Carries(r, "count") /\ "count" \in Phases
  BY <1>1 DEF Carries, OpsOf, Phases
<1> QED
  BY <1>1, <1>2, RequestKeys DEF Register

LEMMA LoginKeys ==
    ASSUME Keys, NEW t \in Threads, NEW n \in Names, Login(t, n)
    PROVE  Keys'
<1>1. PICK u \in Named(n) :
        Start(t, [NoReq EXCEPT !.op = "login", !.name = n, !.id = u], "session")
  BY DEF Login
<1> DEFINE r == [NoReq EXCEPT !.op = "login", !.name = n, !.id = u]
<1>2. u \in Nat
  BY Bounds DEF Named, Keys, UserTable, Live, UserIds
<1>3. r \in Requests /\ r.op = "login" /\ r.name = n
  BY <1>2, RequestsTyped DEF NoReq
<1>4. Carries(r, "session") /\ "session" \in Phases
  BY <1>3 DEF Carries, OpsOf, Phases
<1>5. Attempt /\ UNCHANGED <<tables, lastId, history>>
  BY DEF Login
<1> QED
  BY <1>1, <1>3, <1>4, <1>5, RequestKeys

\* A request with a session that may be used carries its user.
LEMMA AuthenticatedKeys ==
    ASSUME Keys, NEW t \in Threads, NEW k \in Tokens, NEW r \in Requests, NEW phase \in Phases,
           Carries(r, phase), Authenticated(t, k, r, phase)
    PROVE  Keys'
<1> DEFINE m == session[k].user
           q == [r EXCEPT !.me = m]
<1>1. m \in Nat
  <2>1. k \in Live(session)
    BY DEF Authenticated, Authenticates, Keys, SessionTable, Live
  <2>2. m \in Live(user) /\ Live(user) \subseteq UserIds
    BY <2>1 DEF Keys, SessionTable, UserTable, Live
  <2> QED
    BY <2>2, Bounds DEF UserIds
<1> HIDE DEF m
<1>2. q \in Requests
  BY <1>1, RequestsTyped
<1>3. Carries(q, phase)
  <2>1. q.op = r.op /\ q.name = r.name /\ q.role = r.role /\ q.id = r.id /\ q.user = r.user
    BY DEF Requests
  <2> QED
    BY <2>1 DEF Carries
<1>4. Start(t, q, phase) /\ UNCHANGED <<tables, lastId, limiter, history>>
  BY DEF Authenticated, m
<1> QED
  BY <1>2, <1>3, <1>4, RequestKeys

LEMMA LogoutKeys ==
    ASSUME Keys, NEW t \in Threads, NEW k \in Tokens, Logout(t, k)
    PROVE  Keys'
<1> DEFINE r == [NoReq EXCEPT !.op = "logout", !.id = k]
<1>1. r \in Requests /\ r.op = "logout" /\ r.id = k
  <2>1. k \in Nat
    BY Bounds DEF Tokens
  <2> QED
    BY <2>1, RequestsTyped DEF NoReq
<1>2. Carries(r, "logout") /\ "logout" \in Phases
  BY <1>1 DEF Carries, OpsOf, Phases
<1> QED
  BY <1>1, <1>2, AuthenticatedKeys DEF Logout

LEMMA AddUserKeys ==
    ASSUME Keys, NEW t \in Threads, NEW k \in Tokens, NEW n \in Names,
           NEW role \in {"server_owner", "op"}, AddUser(t, k, n, role)
    PROVE  Keys'
<1> DEFINE r == [NoReq EXCEPT !.op = "add", !.name = n, !.role = role]
<1>1. role \in Roles
  BY DEF Roles
<1>2. r \in Requests /\ r.op = "add" /\ r.name = n /\ r.role = role
  BY <1>1, RequestsTyped DEF NoReq
<1>3. Carries(r, "insuser") /\ "insuser" \in Phases
  BY <1>1, <1>2 DEF Carries, OpsOf, Phases
<1> QED
  BY <1>2, <1>3, AuthenticatedKeys DEF AddUser, Admin

\* The ids of users and servers that have been given.
LEMMA IdsTyped ==
    ASSUME Keys
    PROVE  /\ \A u \in 1..seq.users : u \in UserIds /\ u \in Nat
           /\ \A s \in 1..seq.servers : s \in ServerIds /\ s \in Nat
           /\ Live(user) \subseteq 1..seq.users /\ Live(server) \subseteq 1..seq.servers
           /\ seq.users \in Nat /\ seq.servers \in Nat
           /\ seq \in [users : 0..MaxUsers, servers : 0..MaxServers]
<1>1. seq.users \in 0..MaxUsers /\ seq.servers \in 0..MaxServers
  BY DEF Keys, UserTable, ServerTable
<1>2. Live(user) \subseteq 1..seq.users /\ Live(server) \subseteq 1..seq.servers
  BY DEF Keys, UserTable, ServerTable
<1>3. MaxUsers \in Nat /\ MaxServers \in Nat
  BY Bounds
<1>4. seq \in [users : 0..MaxUsers, servers : 0..MaxServers]
  BY DEF Keys, UserTable
<1> QED
  BY <1>1, <1>2, <1>3, <1>4 DEF UserIds, ServerIds

LEMMA ManageKeys ==
    ASSUME Keys, NEW t \in Threads, NEW k \in Tokens, NEW u \in 1..seq.users,
           NEW op \in {"approve", "reject", "delete", "permissions", "role"},
           NEW role \in Roles \cup {""}, op = "role" => role \in Roles, NEW self \in BOOLEAN,
           Manage(t, k, op, u, role, self)
    PROVE  Keys'
<1> DEFINE r == [NoReq EXCEPT !.op = op, !.user = u, !.role = role, !.self = self]
<1>1. u \in Nat /\ u \in UserIds
  BY IdsTyped, Zenon
<1>2. op \in Ops
  BY DEF Ops
<1>3. r \in Requests /\ r.op = op /\ r.user = u /\ r.role = role
  BY <1>1, <1>2, RequestsTyped DEF NoReq
<1>4. FirstOf(op) \in Phases /\ op \in OpsOf(FirstOf(op)) /\ FirstOf(op) # "insuser"
  BY DEF FirstOf, Phases, OpsOf
<1>5. Carries(r, FirstOf(op))
  BY <1>1, <1>2, <1>3, <1>4 DEF Carries
<1> QED
  BY <1>3, <1>4, <1>5, AuthenticatedKeys DEF Manage, Admin

LEMMA OnServerKeys ==
    ASSUME Keys, NEW t \in Threads, NEW k \in Tokens, NEW s \in Nat, NEW u \in Nat,
           NEW op \in ServerOps, NEW role \in MemberRoles \cup {""},
           op \in {"addmember", "change"} => role \in MemberRoles, NEW self \in BOOLEAN,
           OnServer(t, k, op, s, u, role, self)
    PROVE  Keys'
<1> DEFINE r == [NoReq EXCEPT !.op = op, !.server = s, !.user = u, !.role = role, !.self = self]
           phase == FirstOn(op)
<1>1. op \in Ops
  BY DEF Ops, ServerOps
<1>2. r \in Requests /\ r.op = op /\ r.role = role
  BY <1>1, RequestsTyped DEF NoReq
<1>3. phase \in Phases /\ op \in OpsOf(phase) /\ phase # "insuser"
  BY DEF Phases, OpsOf, ServerOps, FirstOn
<1>4. Carries(r, phase)
  BY <1>2, <1>3 DEF Carries, ServerOps
<1> QED
  BY <1>2, <1>3, <1>4, AuthenticatedKeys DEF OnServer

\* The requests about a server, one form for all.
LEMMA ServerRequests ==
    ASSUME Keys, NEW t \in Threads, NEW k \in Tokens, ServerRequest(t, k)
    PROVE  \E op \in ServerOps, s \in Nat, u \in Nat, role \in MemberRoles \cup {""}, self \in BOOLEAN :
              (op \in {"addmember", "change"} => role \in MemberRoles) /\ OnServer(t, k, op, s, u, role, self)
<1> DEFINE Ask(op, s, u, role, self) ==
             (op \in {"addmember", "change"} => role \in MemberRoles) /\ OnServer(t, k, op, s, u, role, self)
<1>1. \A n \in 1..seq.servers : n \in Nat
  BY IdsTyped
<1>2. \A n \in 1..seq.users : n \in Nat
  BY IdsTyped
<1>3. CASE OnServer(t, k, "create", 0, 0, "", FALSE)
  <2>1. Ask("create", 0, 0, "", FALSE)
    BY <1>3
  <2> QED
    BY <2>1 DEF ServerOps
<1>4. ASSUME NEW s \in 1..seq.servers, NEW op \in {"delserver", "addplugin", "delplugin"},
             OnServer(t, k, op, s, 0, "", FALSE)
      PROVE  \E n \in Nat : Ask(op, n, 0, "", FALSE) /\ op \in ServerOps
  <2>1. Ask(op, s, 0, "", FALSE) /\ op \in ServerOps
    BY <1>4 DEF ServerOps
  <2> QED
    BY <1>1, <2>1
<1>5. ASSUME NEW s \in 1..seq.servers, NEW u \in 1..seq.users, NEW self \in BOOLEAN,
             OnServer(t, k, "remove", s, u, "", self)
      PROVE  \E n \in Nat, m \in Nat : Ask("remove", n, m, "", self)
  <2>1. Ask("remove", s, u, "", self)
    BY <1>5
  <2> QED
    BY <1>1, <1>2, <2>1
<1>6. ASSUME NEW s \in 1..seq.servers, NEW u \in 1..seq.users, NEW self \in BOOLEAN, NEW role \in MemberRoles,
             NEW op \in {"addmember", "change"}, OnServer(t, k, op, s, u, role, self)
      PROVE  \E n \in Nat, m \in Nat : Ask(op, n, m, role, self) /\ op \in ServerOps
  <2>1. Ask(op, s, u, role, self) /\ op \in ServerOps
    BY <1>6 DEF ServerOps
  <2> QED
    BY <1>1, <1>2, <2>1
<1> DEFINE Goal == \E op \in ServerOps, s \in Nat, u \in Nat, role \in MemberRoles \cup {""}, self \in BOOLEAN :
                      Ask(op, s, u, role, self)
<1> HIDE DEF Ask
<1>7. CASE OnServer(t, k, "create", 0, 0, "", FALSE)
  BY <1>3, <1>7 DEF Ask
<1>8. ASSUME NEW s \in 1..seq.servers, NEW op \in {"delserver", "addplugin", "delplugin"},
             OnServer(t, k, op, s, 0, "", FALSE)
      PROVE  Goal
  BY <1>4, <1>8
<1>9. ASSUME NEW s \in 1..seq.servers, NEW u \in 1..seq.users, NEW self \in BOOLEAN,
             OnServer(t, k, "remove", s, u, "", self)
      PROVE  Goal
  BY <1>5, <1>9 DEF ServerOps
<1>10. ASSUME NEW s \in 1..seq.servers, NEW u \in 1..seq.users, NEW self \in BOOLEAN, NEW role \in MemberRoles,
              NEW op \in {"addmember", "change"}, OnServer(t, k, op, s, u, role, self)
       PROVE  Goal
  BY <1>6, <1>10
<1>11. CASE Goal
  BY <1>11 DEF Ask
<1> HIDE DEF Goal
<1> QED
  BY <1>7, <1>8, <1>9, <1>10, <1>11, Zenon DEF ServerRequest

\* The statements that only read.
LEMMA CountKeys ==
    ASSUME Keys, NEW t \in Threads, Count(t)
    PROVE  Keys'
<1> DEFINE r == [req[t] EXCEPT !.role = FirstRole]
<1>1. req[t] \in Requests /\ Carries(req[t], "count") /\ lastId \in 0..Max({MaxUsers, MaxServers})
  BY RequestOf DEF Count
<1>2. FirstRole \in Roles
  BY DEF FirstRole, Roles
<1>3. r \in Requests /\ r.op = req[t].op /\ r.name = req[t].name /\ r.role = FirstRole
  BY <1>1, <1>2 DEF Requests
<1>4. Carries(r, "insuser") /\ "insuser" \in Phases
  BY <1>1, <1>2, <1>3 DEF Carries, OpsOf, Phases
<1>5. /\ pc' = [pc EXCEPT ![t] = "insuser"] /\ req' = [req EXCEPT ![t] = r]
      /\ UNCHANGED <<user, session, perms, server, members, plugins, seq, lastId, limit, issued, founders, deleted, raced>>
  BY DEF Count, Goto, tables, rest, limiter, history, bounds
<1>6. Control' /\ raced' \in BOOLEAN
  BY <1>1, <1>3, <1>4, <1>5, StatementKeys
<1>7. seq.users \in Nat
  BY IdsTyped
<1> QED
  BY <1>5, <1>6, <1>7, TablesSame, HistorySame DEF Keys

LEMMA RowIdKeys ==
    ASSUME Keys, NEW t \in Threads, RowId(t)
    PROVE  Keys'
<1> DEFINE r == [req[t] EXCEPT !.id = lastId]
           phase == CASE req[t].op = "register" -> "session"
                      [] req[t].op = "create" -> "member"
                      [] OTHER -> "perms"
<1>1. req[t] \in Requests /\ Carries(req[t], "rowid") /\ lastId \in 0..Max({MaxUsers, MaxServers})
  BY RequestOf DEF RowId
<1>2. lastId \in Nat
  BY <1>1
<1>3. r \in Requests /\ r.op = req[t].op /\ r.name = req[t].name /\ r.role = req[t].role
  BY <1>1, <1>2 DEF Requests
<1>4. req[t].op \in {"register", "add", "create"} /\ phase \in {"session", "member", "perms"}
  BY <1>1 DEF Carries, OpsOf
<1>5. Carries(r, phase) /\ phase \in Phases
  BY <1>1, <1>3, <1>4 DEF Carries, OpsOf, Phases
<1>6. /\ pc' = [pc EXCEPT ![t] = phase] /\ req' = [req EXCEPT ![t] = r]
      /\ UNCHANGED <<user, session, perms, server, members, plugins, seq, lastId, limit, issued, founders, deleted, raced>>
  BY DEF RowId, Goto, tables, rest, limiter, history, bounds
<1> HIDE DEF phase, r
<1>7. Control' /\ raced' \in BOOLEAN
  BY <1>1, <1>3, <1>5, <1>6, StatementKeys
<1>8. seq.users \in Nat
  BY IdsTyped
<1> QED
  BY <1>6, <1>7, <1>8, TablesSame, HistorySame DEF Keys

\* What a request that reads may go on with.
LEMMA CheckKeys ==
    ASSUME Keys, NEW t \in Threads, CheckTarget(t) \/ CheckAllowed(t)
    PROVE  Keys'
<1>1. Carries(req[t], pc[t]) /\ lastId \in 0..Max({MaxUsers, MaxServers}) /\ seq.users \in Nat
  BY RequestOf, IdsTyped
<1>2. /\ pc[t] = "target" => Carries(req[t], "override")
      /\ pc[t] = "allowed" => Carries(req[t], "act")
      /\ "override" \in Phases /\ "act" \in Phases
  BY <1>1 DEF Carries, OpsOf, Phases
<1>3. UNCHANGED <<user, session, perms, server, members, plugins, seq, lastId, limit, issued, founders, deleted, raced>>
  BY DEF CheckTarget, CheckAllowed, tables, rest, limiter, history, bounds
<1>4. Done(t) \/ \E phase \in Phases : Next1(t, phase) /\ Carries(req[t], phase)
  BY <1>2 DEF CheckTarget, CheckAllowed
<1>5. Control' /\ raced' \in BOOLEAN
  BY <1>1, <1>3, <1>4, DoneKeys, NextKeys
<1> QED
  BY <1>1, <1>3, <1>5, TablesSame, HistorySame DEF Keys

\* The statements on users.
\* The row a registration or an owner inserts has a new id, a name nobody has, and
\* leaves the rows there are alone.
LEMMA UserInserted ==
    ASSUME Keys, NEW t \in Threads, InsertUser(t), Named(req[t].name) = {}
    PROVE  LET r == req[t]
               id == seq.users + 1
               status == IF r.op = "register" /\ r.role = "pending" THEN "pending" ELSE "active"
           IN  /\ id \in UserIds /\ id \in Nat /\ id \notin Live(user) /\ lastId' = id
               /\ user' \in [UserIds -> Users \cup {Absent}] /\ Live(user') = Live(user) \cup {id}
               /\ user'[id] = [name |-> r.name, role |-> r.role, status |-> status]
               /\ \A u \in Live(user) : user'[u] = user[u]
               /\ seq' \in [users : 0..MaxUsers, servers : 0..MaxServers]
               /\ seq'.users = id /\ seq'.servers = seq.servers
               /\ founders' = IF r.op = "register" /\ status = "active" THEN founders \cup {id} ELSE founders
<1> DEFINE r == req[t]
           id == seq.users + 1
           status == IF r.op = "register" /\ r.role = "pending" THEN "pending" ELSE "active"
           row == [name |-> r.name, role |-> r.role, status |-> status]
<1>1. /\ Carries(r, "insuser") /\ UserTable /\ seq.users < MaxUsers
      /\ seq' = [seq EXCEPT !.users = seq.users + 1]
      /\ user' = [user EXCEPT ![id] = row] /\ lastId' = id
      /\ founders' = IF r.op = "register" /\ status = "active" THEN founders \cup {id} ELSE founders
  BY RequestOf DEF InsertUser, Keys
<1>2. row \in Users /\ row # Absent
  <2>1. r.name \in Names /\ r.role \in Roles
    BY <1>1 DEF Carries, OpsOf
  <2>2. row \in Users
    BY <2>1 DEF Users
  <2> QED
    BY <2>2, RowsPresent
<1> HIDE DEF row
<1>3. id \in UserIds /\ id \notin Live(user) /\ id \in Nat
  <2>1. seq.users \in Nat /\ MaxUsers \in Nat /\ Live(user) \subseteq 1..seq.users
    BY IdsTyped, Bounds
  <2> QED
    BY <1>1, <2>1 DEF UserIds
<1>4. /\ user' \in [UserIds -> Users \cup {Absent}] /\ Live(user') = Live(user) \cup {id}
      /\ user'[id] = row /\ \A u \in Live(user) : user'[u] = user[u]
  <2>1. user \in [UserIds -> Users \cup {Absent}] /\ user' = [user EXCEPT ![id] = row]
    BY <1>1 DEF UserTable
  <2> HIDE DEF id
  <2> QED
    BY <1>2, <1>3, <2>1 DEF Live
<1>5. seq \in [users : 0..MaxUsers, servers : 0..MaxServers] /\ seq.users \in Nat
  BY <1>1, IdsTyped DEF UserTable
<1>6. seq'.users = id /\ seq'.servers = seq.servers /\ id \in 0..MaxUsers
  BY <1>1, <1>5, Bounds
<1>7. seq' \in [users : 0..MaxUsers, servers : 0..MaxServers]
  BY <1>1, <1>5, <1>6
<1> QED
  BY <1>1, <1>3, <1>4, <1>6, <1>7 DEF row

LEMMA InsertUserKeys ==
    ASSUME Keys, NEW t \in Threads, InsertUser(t)
    PROVE  Keys'
<1> DEFINE r == req[t]
           id == seq.users + 1
<1>1. /\ r \in Requests /\ Carries(r, "insuser") /\ lastId \in 0..Max({MaxUsers, MaxServers})
      /\ pc[t] = "insuser" /\ UserTable /\ History
  BY RequestOf DEF InsertUser, Keys
<1>2. /\ UNCHANGED <<perms, session, server, members, plugins, limit, issued, deleted, raced>>
      /\ Done(t) \/ Next1(t, "rowid")
      /\ Named(r.name) = {} \/ UNCHANGED <<user, seq, lastId, founders>>
  BY DEF InsertUser, bounds, limiter
<1>3. "rowid" \in Phases /\ Carries(r, "rowid")
  BY <1>1 DEF Carries, OpsOf, Phases
<1>4. CASE UNCHANGED <<user, seq, lastId, founders>>
  <2>1. Control' /\ raced' \in BOOLEAN
    BY <1>1, <1>2, <1>3, <1>4, DoneKeys, NextKeys
  <2>2. seq.users \in Nat
    BY IdsTyped
  <2> QED
    BY <1>2, <1>4, <2>1, <2>2, TablesSame, HistorySame DEF Keys
<1>5. CASE Named(r.name) = {}
  <2>1. /\ id \in Nat /\ id \in UserIds /\ id \notin Live(user) /\ lastId' = id
        /\ user' \in [UserIds -> Users \cup {Absent}] /\ Live(user') = Live(user) \cup {id}
        /\ user'[id].name = r.name /\ \A u \in Live(user) : user'[u] = user[u]
        /\ seq' \in [users : 0..MaxUsers, servers : 0..MaxServers]
        /\ seq'.users = id /\ seq'.servers = seq.servers /\ founders' \subseteq founders \cup {id}
    <3> DEFINE status == IF r.op = "register" /\ r.role = "pending" THEN "pending" ELSE "active"
               row == [name |-> r.name, role |-> r.role, status |-> status]
    <3>1. row.name = r.name
      OBVIOUS
    <3> HIDE DEF row
    <3>2. /\ id \in Nat /\ id \in UserIds /\ id \notin Live(user) /\ lastId' = id
          /\ user' \in [UserIds -> Users \cup {Absent}] /\ Live(user') = Live(user) \cup {id}
          /\ user'[id] = row /\ \A u \in Live(user) : user'[u] = user[u]
          /\ seq' \in [users : 0..MaxUsers, servers : 0..MaxServers]
          /\ seq'.users = id /\ seq'.servers = seq.servers
      BY <1>5, UserInserted DEF row
    <3>3. founders' \subseteq founders \cup {id}
      BY <1>5 DEF InsertUser
    <3> HIDE DEF id
    <3> QED
      BY <3>1, <3>2, <3>3
  <2>2. \A u, v \in Live(user') : user'[u].name = user'[v].name => u = v
    <3>1. \A u \in Live(user) : user[u].name # r.name
      BY <1>5 DEF Named
    <3> QED
      BY <1>1, <2>1, <3>1 DEF UserTable
  <2>3. 1..seq.users \subseteq 1..seq'.users /\ id \in 1..seq'.users
    BY <2>1, IdsTyped
  <2>4. UserTable'
    BY <2>1, <2>2, <2>3, IdsTyped DEF UserTable
  <2>5. SessionTable' /\ PermTable' /\ ServerTable' /\ MemberTable'
    BY <1>2, <2>1 DEF Keys, SessionTable, PermTable, ServerTable, MemberTable
  <2>6. History'
    BY <1>1, <1>2, <2>1, <2>3 DEF History
  <2>7. Control'
    <3>1. lastId' \in 0..Max({MaxUsers, MaxServers})
      BY <2>1, Bounds
    <3> QED
      BY <1>1, <1>2, <1>3, <3>1, DoneKeys, NextKeys
  <2> QED
    BY <2>4, <2>5, <2>6, <2>7 DEF Keys
<1> QED
  BY <1>2, <1>4, <1>5

\* A status or a role that is set leaves everyone there, with the same name.
LEMMA UserSet ==
    ASSUME Keys, NEW t \in Threads, SetStatus(t) \/ SetRole(t)
    PROVE  /\ UNCHANGED seq
           /\ user' \in [UserIds -> Users \cup {Absent}] /\ Live(user') = Live(user)
           /\ \A v \in Live(user) : user'[v].name = user[v].name
<1> DEFINE u == req[t].user
<1>1. Carries(req[t], pc[t]) /\ UserTable
  BY RequestOf DEF Keys
<1>2. UNCHANGED seq
  BY DEF SetStatus, SetRole
<1>3. \/ UNCHANGED user
      \/ /\ u \in Live(user)
         /\ \E row \in Users : row.name = user[u].name /\ user' = [user EXCEPT ![u] = row]
  <2>1. user \in [UserIds -> Users \cup {Absent}]
    BY <1>1 DEF UserTable
  <2>2. ASSUME u \in Live(user) PROVE user[u] \in Users
    BY <2>1, <2>2 DEF Live
  <2>3. CASE SetStatus(t) /\ u \in Live(user)
    <3> DEFINE s == NewStatus(req[t].op, user[u].status)
               row == [user[u] EXCEPT !.status = s]
    <3>1. user' = [user EXCEPT ![u] = row]
      BY <2>3 DEF SetStatus
    <3>2. s \in {"active", "pending", "rejected"}
      BY <2>2, <2>3 DEF NewStatus, Users
    <3>3. row \in Users /\ row.name = user[u].name
      BY <2>2, <2>3, <3>2 DEF Users
    <3> QED
      BY <2>3, <3>1, <3>3
  <2>4. CASE SetRole(t) /\ u \in Live(user)
    <3> DEFINE row == [user[u] EXCEPT !.role = req[t].role]
    <3>1. user' = [user EXCEPT ![u] = row]
      BY <2>4 DEF SetRole
    <3>2. req[t].role \in Roles
      BY <1>1, <2>4 DEF SetRole, Carries, OpsOf
    <3>3. row \in Users /\ row.name = user[u].name
      BY <2>2, <2>4, <3>2 DEF Users
    <3> QED
      BY <2>4, <3>1, <3>3
  <2>5. CASE u \notin Live(user)
    BY <2>5 DEF SetStatus, SetRole
  <2> QED
    BY <2>3, <2>4, <2>5
<1>4. CASE UNCHANGED user
  BY <1>1, <1>2, <1>4 DEF UserTable
<1>5. CASE /\ u \in Live(user)
           /\ \E row \in Users : row.name = user[u].name /\ user' = [user EXCEPT ![u] = row]
  <2>1. PICK row \in Users : row.name = user[u].name /\ user' = [user EXCEPT ![u] = row]
    BY <1>5
  <2>2. row # Absent
    BY RowsPresent
  <2>3. user' \in [UserIds -> Users \cup {Absent}] /\ Live(user') = Live(user)
    BY <1>1, <1>5, <2>1, <2>2 DEF UserTable, Live
  <2>4. \A v \in Live(user) : user'[v].name = user[v].name
    BY <1>1, <1>5, <2>1 DEF UserTable, Live
  <2> QED
    BY <1>2, <2>3, <2>4
<1> QED
  BY <1>3, <1>4, <1>5

LEMMA SetUserKeys ==
    ASSUME Keys, NEW t \in Threads, SetStatus(t) \/ SetRole(t)
    PROVE  Keys'
<1>1. /\ Carries(req[t], pc[t]) /\ lastId \in 0..Max({MaxUsers, MaxServers}) /\ seq.users \in Nat
      /\ UserTable
  BY RequestOf, IdsTyped DEF Keys
<1>2. UNCHANGED <<session, perms, server, members, plugins, seq, lastId, limit, issued, founders, deleted, raced>>
  BY DEF SetStatus, SetRole, rest, limiter, history, bounds
<1>3. UserTable' /\ Live(user') = Live(user)
  BY <1>1, UserSet DEF UserTable
<1>4. SessionTable' /\ PermTable' /\ ServerTable' /\ MemberTable'
  BY <1>2, <1>3 DEF Keys, SessionTable, PermTable, ServerTable, MemberTable
<1>5. Control' /\ raced' \in BOOLEAN
  <2>1. pc[t] = "setrole" => Carries(req[t], "delperms") /\ "delperms" \in Phases
    BY <1>1 DEF Carries, OpsOf, Phases
  <2>2. Done(t) \/ \E phase \in Phases : Next1(t, phase) /\ Carries(req[t], phase)
    BY <2>1 DEF SetStatus, SetRole
  <2> QED
    BY <1>1, <1>2, <2>2, DoneKeys, NextKeys
<1> QED
  BY <1>1, <1>2, <1>3, <1>4, <1>5, HistorySame DEF Keys

\* A user who is deleted is referenced by no row, and nobody else goes.
LEMMA UserDeleted ==
    ASSUME Keys, NEW t \in Threads, DeleteUser(t), ~Referenced(req[t].user)
    PROVE  LET u == req[t].user IN
           /\ user' \in [UserIds -> Users \cup {Absent}] /\ Live(user') = Live(user) \ {u}
           /\ \A v \in Live(user') : user'[v] = user[v]
           /\ members' = [k \in {j \in DOMAIN members : ~(j[2] = u)} |-> members[k]]
<1> DEFINE u == req[t].user
<1>1. user \in [UserIds -> Users \cup {Absent}] /\ user' = [user EXCEPT ![u] = Absent]
  BY DEF DeleteUser, Keys, UserTable
<1>2. members' = [k \in {j \in DOMAIN members : ~(j[2] = u)} |-> members[k]]
  BY DEF DeleteUser, Without
<1>3. DOMAIN user' = UserIds /\ \A v \in UserIds : user'[v] = IF v = u THEN Absent ELSE user[v]
  BY <1>1
<1>4. user' \in [UserIds -> Users \cup {Absent}]
  BY <1>1
<1> QED
  BY <1>1, <1>2, <1>3, <1>4 DEF Live

LEMMA DeleteUserKeys ==
    ASSUME Keys, NEW t \in Threads, DeleteUser(t)
    PROVE  Keys'
<1> DEFINE u == req[t].user
<1>1. /\ lastId \in 0..Max({MaxUsers, MaxServers}) /\ seq.users \in Nat
      /\ UserTable /\ SessionTable /\ PermTable /\ ServerTable /\ MemberTable /\ History
  BY RequestOf, IdsTyped DEF Keys
<1>2. /\ UNCHANGED <<perms, session, server, plugins, seq, lastId, limit, issued, founders, raced>> /\ Done(t)
      /\ deleted' \subseteq deleted \cup ((Live(user) \cap {u}) \X BOOLEAN)
  <2>1. deleted' = deleted \cup {<<v, Made(v)>> : v \in Live(user) \cap {u}}
    BY DEF DeleteUser
  <2>2. \A v \in Live(user) : Made(v) \in BOOLEAN
    BY DEF Made
  <2>3. deleted' \subseteq deleted \cup ((Live(user) \cap {u}) \X BOOLEAN)
    BY <2>1, <2>2
  <2> QED
    BY <2>3 DEF DeleteUser, bounds, limiter
<1>3. Control' /\ raced' \in BOOLEAN
  BY <1>1, <1>2, DoneKeys
<1>4. History'
  <2>1. Live(user) \subseteq 1..seq.users
    BY <1>1 DEF UserTable
  <2> QED
    BY <1>1, <1>2, <2>1 DEF History
<1>5. CASE UNCHANGED <<user, members>>
  BY <1>2, <1>3, <1>4, <1>5, TablesSame DEF Keys
<1>6. CASE ~Referenced(u)
  <2>1. /\ user' \in [UserIds -> Users \cup {Absent}] /\ Live(user') = Live(user) \ {u}
        /\ \A v \in Live(user') : user'[v] = user[v]
        /\ members' = [k \in {j \in DOMAIN members : ~(j[2] = u)} |-> members[k]]
    BY <1>6, UserDeleted
  <2>2. UserTable'
    BY <1>1, <1>2, <2>1 DEF UserTable
  <2>3. SessionTable' /\ PermTable' /\ ServerTable'
    <3>1. \A k \in Live(session) : session[k].user # u
      BY <1>6 DEF Referenced
    <3>2. \A s \in Live(server) : server[s].creator # u
      BY <1>6 DEF Referenced, Made
    <3>3. \A p \in perms : p[1] # u
      BY <1>6 DEF Referenced
    <3>4. PermTable'
      BY <1>1, <1>2, <2>1, <3>3 DEF PermTable
    <3>5. SessionTable'
      BY <1>1, <1>2, <2>1, <3>1 DEF SessionTable
    <3>6. ServerTable'
      BY <1>1, <1>2, <2>1, <3>2 DEF ServerTable
    <3> QED
      BY <3>4, <3>5, <3>6
  <2>4. MemberTable'
    <3>1. members' = [k \in {j \in DOMAIN members : ~(j[2] = u)} |-> members[k]]
      BY <2>1
    <3>2. DOMAIN members' = {j \in DOMAIN members : ~(j[2] = u)}
      BY <3>1
    <3>3. members' \in [DOMAIN members' -> MemberRoles]
      BY <1>1, <3>1, <3>2 DEF MemberTable
    <3>4. DOMAIN members' \subseteq Live(server') \X Live(user')
      BY <1>1, <1>2, <2>1, <3>2 DEF MemberTable
    <3>5. \A p \in plugins : p[1] # u
      BY <1>6 DEF Referenced, Made
    <3>6. plugins' \subseteq Live(user') \X Live(server')
      BY <1>1, <1>2, <2>1, <3>5 DEF MemberTable
    <3> QED
      BY <3>3, <3>4, <3>6 DEF MemberTable
  <2> QED
    BY <1>3, <1>4, <2>2, <2>3, <2>4 DEF Keys
<1> QED
  BY <1>5, <1>6 DEF DeleteUser

\* The steps that change sessions: each keeps its user, ends, or is opened for a user
\* who exists.
LEMMA SessionTableKept ==
    ASSUME Keys, UNCHANGED user, session' \in [Tokens -> Sessions \cup {Absent}],
           \A k \in Live(session') : \/ k \in Live(session) /\ session'[k].user = session[k].user
                                     \/ session'[k].user \in Live(user)
    PROVE  SessionTable'
  BY DEF Keys, SessionTable

LEMMA OtherTablesSame ==
    ASSUME Keys, UNCHANGED <<user, perms, server, members, plugins, seq>>
    PROVE  UserTable' /\ PermTable' /\ ServerTable' /\ MemberTable'
  BY DEF Keys, UserTable, PermTable, ServerTable, MemberTable

LEMMA InsertSessionKeys ==
    ASSUME Keys, NEW t \in Threads, InsertSession(t)
    PROVE  Keys'
<1> DEFINE r == req[t]
           token == NextToken
           row == [user |-> r.id, left |-> Lifetime]
           draw == [name |-> r.name, by |-> r.op]
<1>1. /\ Carries(r, "session") /\ r \in Requests /\ seq.users \in Nat
      /\ UserTable /\ SessionTable /\ History
  BY RequestOf, IdsTyped DEF InsertSession, Keys
<1>2. /\ UNCHANGED <<user, perms, server, members, plugins, seq, limit, founders, deleted, raced>>
      /\ issued' = [issued EXCEPT ![token] = draw]
      /\ \/ UNCHANGED session
         \/ r.id \in Live(user) /\ session' = [session EXCEPT ![token] = row]
      /\ Done(t) /\ lastId' \in 0..Max({MaxUsers, MaxServers})
  BY RowElsewhereTyped DEF InsertSession, SessionUser, bounds, limiter
<1>3. Control' /\ raced' \in BOOLEAN
  BY <1>2, DoneKeys
<1>4. draw \in [name : Names, by : {"register", "login"}]
  BY <1>1 DEF Carries, OpsOf
<1> HIDE DEF draw, token
<1>5. History'
  BY <1>1, <1>2, <1>3, <1>4 DEF History
<1>6. SessionTable'
  <2>1. CASE UNCHANGED session
    BY <1>1, <1>2, <2>1 DEF SessionTable
  <2>2. CASE r.id \in Live(user) /\ session' = [session EXCEPT ![token] = row]
    <3>1. r.id \in UserIds
      BY <1>1, <2>2 DEF UserTable, Live
    <3>2. row \in Sessions /\ row.user = r.id
      BY <3>1, Bounds DEF Sessions
    <3> HIDE DEF row
    <3>3. session \in [Tokens -> Sessions \cup {Absent}]
      BY <1>1 DEF SessionTable
    <3>4. session' \in [Tokens -> Sessions \cup {Absent}]
      BY <2>2, <3>2, <3>3
    <3>5. \A k \in Live(session') : \/ k \in Live(session) /\ session'[k].user = session[k].user
                                    \/ session'[k].user \in Live(user)
      BY <2>2, <3>2, <3>3 DEF Live
    <3> QED
      BY <1>2, <3>4, <3>5, SessionTableKept
  <2> QED
    BY <1>2, <2>1, <2>2
<1> QED
  BY <1>2, <1>3, <1>5, <1>6, OtherTablesSame DEF Keys

\* Time, logout, a deletion and the cleanup task open no session.
LEMMA SessionsShrink ==
    ASSUME Keys,
           \/ \E t \in Threads : DropSession(t) \/ DeleteSessions(t)
           \/ Tick \/ Cleanup
    PROVE  /\ session' \in [Tokens -> Sessions \cup {Absent}]
           /\ \A k \in Live(session') : k \in Live(session) /\ session'[k].user = session[k].user
           /\ UNCHANGED <<user, perms, server, members, plugins, seq, lastId, issued, founders, deleted, raced>>
<1> DEFINE Shrinks ==
             /\ session' \in [Tokens -> Sessions \cup {Absent}]
             /\ \A k \in Live(session') : k \in Live(session) /\ session'[k].user = session[k].user
<1>1. session \in [Tokens -> Sessions \cup {Absent}]
  BY DEF Keys, SessionTable
<1>2. UNCHANGED <<user, perms, server, members, plugins, seq, lastId, issued, founders, deleted, raced>>
  BY DEF DropSession, DeleteSessions, Tick, Cleanup, rest, limiter, history, bounds
<1>3. ASSUME NEW t \in Threads, DropSession(t) PROVE Shrinks
  BY <1>1, <1>3 DEF DropSession, Live
<1>4. ASSUME NEW t \in Threads, DeleteSessions(t) PROVE Shrinks
  BY <1>1, <1>4 DEF DeleteSessions, Live
<1>5. ASSUME Cleanup PROVE Shrinks
  BY <1>1, <1>5 DEF Cleanup, Live
<1>6. ASSUME Tick PROVE Shrinks
  <2>1. session' = [k \in Tokens |-> IF session[k] # Absent /\ session[k].left >= 0
                                      THEN [session[k] EXCEPT !.left = @ - 1] ELSE session[k]]
    BY <1>6 DEF Tick
  <2>2. ASSUME NEW k \in Tokens
        PROVE  /\ session'[k] \in Sessions \cup {Absent}
               /\ session'[k] # Absent => session[k] # Absent /\ session'[k].user = session[k].user
    <3>1. CASE session[k] # Absent /\ session[k].left >= 0
      <4>1. session[k] \in Sessions /\ session'[k] = [session[k] EXCEPT !.left = @ - 1]
        BY <1>1, <2>1, <3>1
      <4>2. session'[k] \in Sessions /\ session'[k].user = session[k].user
        BY <3>1, <4>1, Bounds DEF Sessions
      <4> QED
        BY <3>1, <4>2
    <3>2. CASE ~(session[k] # Absent /\ session[k].left >= 0)
      BY <1>1, <2>1, <3>2
    <3> QED
      BY <3>1, <3>2
  <2>3. DOMAIN session' = Tokens
    BY <2>1
  <2>4. session' \in [Tokens -> Sessions \cup {Absent}]
    BY <2>1, <2>2
  <2> QED
    BY <1>1, <2>2, <2>3, <2>4 DEF Live
<1>7. Shrinks
  BY <1>3, <1>4, <1>5, <1>6
<1> QED
  BY <1>2, <1>7

LEMMA SessionKeys ==
    ASSUME Keys,
           \/ \E t \in Threads : DropSession(t) \/ DeleteSessions(t)
           \/ Tick \/ Cleanup
    PROVE  Keys'
<1>1. UNCHANGED <<user, perms, server, members, plugins, seq, lastId, issued, founders, deleted, raced>> /\ seq.users \in Nat
  BY SessionsShrink, IdsTyped
<1>2. SessionTable'
  BY <1>1, SessionsShrink, SessionTableKept
<1>3. Control' /\ raced' \in BOOLEAN
  <2>1. lastId \in 0..Max({MaxUsers, MaxServers}) /\ limit \in [age : 0..(Window + 1), count : 0..MaxAttempts]
        /\ raced \in BOOLEAN /\ Control
    BY DEF Keys, Control, History
  <2>2. CASE Tick \/ Cleanup
    <3>1. limit' \in [age : 0..(Window + 1), count : 0..MaxAttempts]
      BY <2>1, <2>2, Bounds DEF Tick, Cleanup, rest, limiter
    <3>2. UNCHANGED <<pc, req, lastId, raced>>
      BY <2>2 DEF Tick, Cleanup, rest, limiter, bounds
    <3> QED
      BY <2>1, <3>1, <3>2 DEF Control
  <2>3. ASSUME NEW t \in Threads, DropSession(t) PROVE Control' /\ raced' \in BOOLEAN
    BY <2>1, <2>3, DoneKeys DEF DropSession, rest, limiter, bounds
  <2>4. ASSUME NEW t \in Threads, DeleteSessions(t) PROVE Control' /\ raced' \in BOOLEAN
    <3>1. Next1(t, "delperms") /\ UNCHANGED <<lastId, limit, raced>> /\ pc[t] = "delsessions"
      BY <2>4 DEF DeleteSessions, rest, limiter, bounds
    <3>2. Carries(req[t], "delperms") /\ "delperms" \in Phases
      BY <2>1, <3>1 DEF Control, Carries, OpsOf, Phases
    <3> QED
      BY <2>1, <3>1, <3>2, NextKeys
  <2> QED
    BY <2>2, <2>3, <2>4
<1> QED
  BY <1>1, <1>2, <1>3, OtherTablesSame, HistorySame DEF Keys

LEMMA PermKeys ==
    ASSUME Keys, NEW t \in Threads, DeletePerms(t) \/ InsertPerms(t) \/ Override(t)
    PROVE  Keys'
<1> DEFINE r == req[t]
<1>1. /\ Carries(r, pc[t]) /\ r \in Requests /\ seq.users \in Nat
      /\ lastId \in 0..Max({MaxUsers, MaxServers})
  BY RequestOf, IdsTyped
<1>2. UNCHANGED <<user, session, server, members, plugins, seq, limit, issued, founders, deleted, raced>>
  BY DEF DeletePerms, InsertPerms, Override, rest, limiter, history, bounds
<1>3. PermTable'
  <2>1. PermTable
    BY DEF Keys
  <2>2. CASE DeletePerms(t)
    BY <1>2, <2>1, <2>2 DEF DeletePerms, PermTable
  <2>3. CASE InsertPerms(t)
    <3>1. perms' = perms \/ (r.id \in Live(user) /\ perms' = perms \cup {<<r.id, "default">>})
      BY <2>3 DEF InsertPerms
    <3> QED
      BY <1>2, <2>1, <3>1 DEF PermTable
  <2>4. CASE Override(t)
    <3>1. perms' = perms \/ (r.user \in Live(user) /\ perms' = perms \cup {<<r.user, "override">>})
      BY <2>4 DEF Override
    <3> QED
      BY <1>2, <2>1, <3>1 DEF PermTable
  <2> QED
    BY <2>2, <2>3, <2>4
<1>4. UserTable' /\ SessionTable' /\ ServerTable' /\ MemberTable'
  BY <1>2 DEF Keys, UserTable, SessionTable, ServerTable, MemberTable
<1>5. lastId' \in 0..Max({MaxUsers, MaxServers})
  BY <1>1, RowElsewhereTyped DEF DeletePerms, InsertPerms, Override
<1>6. Control' /\ raced' \in BOOLEAN
  <2>1. CASE Done(t)
    BY <1>2, <1>5, <2>1, DoneKeys
  <2>2. CASE DeletePerms(t) /\ Next1(t, "delmembers") /\ r.op = "delete"
    <3>1. Carries(r, "delmembers") /\ "delmembers" \in Phases
      BY <1>1, <2>2 DEF DeletePerms, Carries, OpsOf, Phases
    <3> QED
      BY <1>2, <1>5, <2>2, <3>1, NextKeys
  <2>3. CASE DeletePerms(t) /\ r.op = "role" /\ Goto(t, "perms") /\ req' = [req EXCEPT ![t].id = r.user]
    <3> DEFINE q == [r EXCEPT !.id = r.user]
    <3>1. q \in Requests /\ q.op = r.op /\ q.name = r.name /\ q.role = r.role /\ q.user = r.user
      BY <1>1 DEF Requests
    <3>2. Carries(q, "perms") /\ "perms" \in Phases
      BY <1>1, <2>3, <3>1 DEF Carries, OpsOf, Phases
    <3>3. pc' = [pc EXCEPT ![t] = "perms"] /\ req' = [req EXCEPT ![t] = q]
      BY <2>3 DEF Goto
    <3> QED
      BY <1>2, <1>5, <3>1, <3>2, <3>3, StatementKeys
  <2>4. ASSUME DeletePerms(t)
        PROVE  \/ Done(t)
               \/ r.op = "delete" /\ Next1(t, "delmembers")
               \/ r.op = "role" /\ Goto(t, "perms") /\ req' = [req EXCEPT ![t].id = r.user]
    BY <2>4 DEF DeletePerms
  <2> QED
    BY <2>1, <2>2, <2>3, <2>4 DEF InsertPerms, Override
<1> QED
  BY <1>1, <1>2, <1>3, <1>4, <1>6, HistorySame DEF Keys

\* A row of server_members that comes.
LEMMA MemberAdded ==
    ASSUME Keys, NEW s \in Live(server), NEW u \in Live(user), NEW role \in MemberRoles,
           members' = [k \in DOMAIN members \cup {<<s, u>>} |-> IF k = <<s, u>> THEN role ELSE members[k]],
           UNCHANGED <<user, server, plugins>>
    PROVE  MemberTable'
<1>1. /\ members \in [DOMAIN members -> MemberRoles] /\ DOMAIN members \subseteq Live(server) \X Live(user)
      /\ plugins \subseteq Live(user) \X Live(server)
  BY DEF Keys, MemberTable
<1>2. members' \in [DOMAIN members' -> MemberRoles] /\ DOMAIN members' = DOMAIN members \cup {<<s, u>>}
  BY <1>1
<1> QED
  BY <1>1, <1>2 DEF MemberTable

LEMMA DeleteMembershipsKeys ==
    ASSUME Keys, NEW t \in Threads, DeleteMemberships(t)
    PROVE  Keys'
<1>1. /\ Carries(req[t], "delmembers") /\ seq.users \in Nat
      /\ lastId \in 0..Max({MaxUsers, MaxServers}) /\ MemberTable
  BY RequestOf, IdsTyped DEF DeleteMemberships, Keys
<1>2. /\ UNCHANGED <<user, session, perms, server, plugins, seq, lastId, limit, issued, founders, deleted, raced>>
      /\ Next1(t, "deluser")
      /\ members' = [k \in {j \in DOMAIN members : ~(j[2] = req[t].user)} |-> members[k]]
  BY DEF DeleteMemberships, Without, rest, limiter, history, bounds
<1>3. MemberTable'
  BY <1>1, <1>2 DEF MemberTable
<1>4. Carries(req[t], "deluser") /\ "deluser" \in Phases
  BY <1>1 DEF Carries, OpsOf, Phases
<1>5. Control' /\ raced' \in BOOLEAN
  BY <1>1, <1>2, <1>4, NextKeys
<1>6. UserTable' /\ SessionTable' /\ PermTable' /\ ServerTable'
  BY <1>2 DEF Keys, UserTable, SessionTable, PermTable, ServerTable
<1> QED
  BY <1>1, <1>2, <1>3, <1>5, <1>6, HistorySame DEF Keys

\* A server gets an id that none had, and its user is there.
LEMMA ServerInserted ==
    ASSUME Keys, NEW t \in Threads, InsertServer(t), req[t].me \in Live(user)
    PROVE  LET id == seq.servers + 1 IN
           /\ id \in ServerIds /\ id \notin Live(server) /\ lastId' = id
           /\ seq' \in [users : 0..MaxUsers, servers : 0..MaxServers]
           /\ seq'.servers = id /\ seq'.users = seq.users
           /\ server' \in [ServerIds -> [creator : UserIds] \cup {Absent}]
           /\ Live(server') = Live(server) \cup {id}
           /\ \A s \in Live(server) \ {id} : server'[s] = server[s]
           /\ server'[id].creator = req[t].me
<1> DEFINE id == seq.servers + 1
           row == [creator |-> req[t].me]
<1>1. /\ seq \in [users : 0..MaxUsers, servers : 0..MaxServers]
      /\ seq.users \in Nat /\ seq.servers \in Nat /\ Live(server) \subseteq 1..seq.servers
  BY IdsTyped
<1>2. /\ seq.servers < MaxServers
      /\ seq' = [seq EXCEPT !.servers = id] /\ lastId' = seq'.servers
      /\ server' = [server EXCEPT ![seq'.servers] = row]
  BY Zenon DEF InsertServer
<1>3. /\ seq'.servers = id /\ seq'.users = seq.users
      /\ id \in 0..MaxServers /\ id \in ServerIds /\ id \notin Live(server)
      /\ seq' \in [users : 0..MaxUsers, servers : 0..MaxServers]
  <2>1. MaxServers \in Nat
    BY Bounds
  <2> QED
    BY <1>1, <1>2, <2>1 DEF ServerIds
<1>4. server \in [ServerIds -> [creator : UserIds] \cup {Absent}]
  BY DEF Keys, ServerTable
<1>5. row \in [creator : UserIds] /\ row # Absent /\ row.creator = req[t].me
  <2>1. req[t].me \in UserIds
    BY DEF Keys, UserTable, Live
  <2>2. row \in [creator : UserIds]
    BY <2>1
  <2> QED
    BY <2>2, RowsPresent
<1>6. /\ server' \in [ServerIds -> [creator : UserIds] \cup {Absent}]
      /\ Live(server') = Live(server) \cup {id}
      /\ \A s \in Live(server) \ {id} : server'[s] = server[s]
      /\ server'[id] = row
  <2>1. server' = [server EXCEPT ![id] = row]
    BY <1>2, <1>3
  <2> HIDE DEF row, id
  <2> QED
    BY <1>3, <1>4, <1>5, <2>1 DEF Live
<1> HIDE DEF row
<1> QED
  BY <1>2, <1>3, <1>5, <1>6

LEMMA InsertServerKeys ==
    ASSUME Keys, NEW t \in Threads, InsertServer(t)
    PROVE  Keys'
<1> DEFINE id == seq.servers + 1
<1>1. /\ Carries(req[t], "insserver") /\ lastId \in 0..Max({MaxUsers, MaxServers})
      /\ seq.users \in Nat /\ seq.servers \in Nat /\ Live(server) \subseteq 1..seq.servers
  BY RequestOf, IdsTyped DEF InsertServer
<1>2. /\ UNCHANGED <<user, session, perms, members, plugins, limit, issued, founders, deleted, raced>>
      /\ Next1(t, "rowid")
      /\ req[t].me \in Live(user) \/ UNCHANGED <<server, seq, lastId>>
  BY DEF InsertServer, rest, limiter, history, bounds
<1>3. Carries(req[t], "rowid") /\ "rowid" \in Phases
  BY <1>1 DEF Carries, OpsOf, Phases
<1>4. CASE UNCHANGED <<server, seq, lastId>>
  <2>1. Control' /\ raced' \in BOOLEAN
    BY <1>1, <1>2, <1>3, <1>4, NextKeys
  <2> QED
    BY <1>1, <1>2, <1>4, <2>1, TablesSame, HistorySame DEF Keys
<1>5. CASE req[t].me \in Live(user)
  <2>1. /\ id \in ServerIds /\ lastId' = id
        /\ seq' \in [users : 0..MaxUsers, servers : 0..MaxServers]
        /\ seq'.servers = id /\ seq'.users = seq.users
        /\ server' \in [ServerIds -> [creator : UserIds] \cup {Absent}]
        /\ Live(server') = Live(server) \cup {id}
        /\ \A s \in Live(server) \ {id} : server'[s] = server[s]
        /\ server'[id].creator = req[t].me
    BY <1>5, ServerInserted
  <2>2. Live(server') \subseteq 1..seq'.servers
    BY <1>1, <2>1
  <2>3. ServerTable'
    BY <1>2, <1>5, <2>1, <2>2 DEF Keys, ServerTable
  <2>4. UserTable' /\ SessionTable' /\ PermTable' /\ MemberTable'
    BY <1>2, <2>1 DEF Keys, UserTable, SessionTable, PermTable, MemberTable
  <2>5. lastId' \in 0..Max({MaxUsers, MaxServers})
    BY <2>1, Bounds
  <2>6. Control' /\ raced' \in BOOLEAN
    BY <1>2, <1>3, <2>5, NextKeys
  <2>7. History'
    BY <1>1, <1>2, <2>1, <2>6, HistorySame
  <2> QED
    BY <2>3, <2>4, <2>6, <2>7 DEF Keys
<1> QED
  BY <1>2, <1>4, <1>5

LEMMA InsertCreatorKeys ==
    ASSUME Keys, NEW t \in Threads, InsertCreator(t)
    PROVE  Keys'
<1> DEFINE r == req[t]
<1>1. lastId \in 0..Max({MaxUsers, MaxServers}) /\ seq.users \in Nat
  BY RequestOf, IdsTyped
<1>2. /\ UNCHANGED <<user, session, perms, server, plugins, seq, limit, issued, founders, deleted, raced>> /\ Done(t)
      /\ \/ UNCHANGED <<members, lastId>>
         \/ /\ r.id \in Live(server) /\ r.me \in Live(user) /\ RowElsewhere
            /\ members' = [k \in DOMAIN members \cup {<<r.id, r.me>>} |-> IF k = <<r.id, r.me>> THEN "owner" ELSE members[k]]
  BY DEF InsertCreator, rest, limiter, history, bounds
<1>3. MemberTable'
  <2>1. "owner" \in MemberRoles
    BY DEF MemberRoles
  <2>2. CASE UNCHANGED members
    BY <1>2, <2>2 DEF Keys, MemberTable
  <2> QED
    BY <1>2, <2>1, <2>2, MemberAdded
<1>4. Control' /\ raced' \in BOOLEAN
  BY <1>1, <1>2, RowElsewhereTyped, DoneKeys
<1>5. UserTable' /\ SessionTable' /\ PermTable' /\ ServerTable'
  BY <1>2 DEF Keys, UserTable, SessionTable, PermTable, ServerTable
<1> QED
  BY <1>1, <1>2, <1>3, <1>4, <1>5, HistorySame DEF Keys

LEMMA ActOnServerKeys ==
    ASSUME Keys, NEW t \in Threads, ActOnServer(t)
    PROVE  Keys'
<1> DEFINE r == req[t]
           key == <<r.server, r.user>>
<1>1. /\ lastId \in 0..Max({MaxUsers, MaxServers}) /\ seq.users \in Nat
      /\ Carries(r, "act") /\ MemberTable /\ ServerTable
  BY RequestOf, IdsTyped DEF Keys, ActOnServer
<1>2. UNCHANGED <<user, session, perms, seq, limit, issued, founders, deleted, raced>> /\ Done(t)
  BY DEF ActOnServer, rest, limiter, history, bounds
<1>3. /\ MemberTable' /\ ServerTable' /\ lastId' \in 0..Max({MaxUsers, MaxServers})
  <2>1. CASE r.op = "delserver"
    <3>1. /\ server' = [server EXCEPT ![r.server] = Absent] /\ UNCHANGED lastId
          /\ members' = [k \in {j \in DOMAIN members : ~(j[1] = r.server)} |-> members[k]]
          /\ plugins' = {p \in plugins : p[2] # r.server}
      BY <2>1 DEF ActOnServer, Without
    <3>2. server \in [ServerIds -> [creator : UserIds] \cup {Absent}]
      BY <1>1 DEF ServerTable
    <3>3. DOMAIN server' = ServerIds
          /\ \A s \in ServerIds : server'[s] = IF s = r.server THEN Absent ELSE server[s]
      BY <3>1, <3>2
    <3>4. server' \in [ServerIds -> [creator : UserIds] \cup {Absent}]
      BY <3>1, <3>2
    <3>5. Live(server') = Live(server) \ {r.server} /\ \A s \in Live(server') : server'[s] = server[s]
      BY <3>2, <3>3 DEF Live
    <3>6. ServerTable'
      BY <1>1, <1>2, <3>4, <3>5 DEF ServerTable
    <3>7. MemberTable'
      BY <1>1, <1>2, <3>1, <3>5 DEF MemberTable
    <3> QED
      BY <1>1, <3>1, <3>6, <3>7
  <2>2. CASE r.op = "addmember"
    <3>1. /\ UNCHANGED <<server, plugins>>
          /\ \/ UNCHANGED <<members, lastId>>
             \/ /\ r.server \in Live(server) /\ r.user \in Live(user) /\ RowElsewhere
                /\ members' = [k \in DOMAIN members \cup {key} |-> IF k = key THEN r.role ELSE members[k]]
      BY <2>2 DEF ActOnServer
    <3>2. r.role \in MemberRoles
      BY <1>1, <2>2 DEF Carries
    <3>3. CASE UNCHANGED <<members, lastId>>
      BY <1>1, <1>2, <3>1, <3>3 DEF MemberTable, ServerTable
    <3>4. CASE /\ r.server \in Live(server) /\ r.user \in Live(user) /\ RowElsewhere
               /\ members' = [k \in DOMAIN members \cup {key} |-> IF k = key THEN r.role ELSE members[k]]
      <4>1. MemberTable'
        BY <1>2, <3>1, <3>2, <3>4, MemberAdded
      <4> QED
        BY <1>1, <1>2, <3>1, <3>4, <4>1, RowElsewhereTyped DEF ServerTable
    <3> QED
      BY <3>1, <3>3, <3>4
  <2>3. CASE r.op = "change"
    <3>1. /\ UNCHANGED <<server, plugins, lastId>>
          /\ members' = IF key \in DOMAIN members THEN [members EXCEPT ![key] = r.role] ELSE members
      BY <2>3 DEF ActOnServer
    <3>2. r.role \in MemberRoles
      BY <1>1, <2>3 DEF Carries
    <3>3. MemberTable'
      BY <1>1, <1>2, <3>1, <3>2 DEF MemberTable
    <3> QED
      BY <1>1, <1>2, <3>1, <3>3 DEF ServerTable
  <2>4. CASE r.op = "remove"
    <3>1. /\ UNCHANGED <<server, plugins, lastId>>
          /\ members' = [k \in {j \in DOMAIN members : ~(j = key)} |-> members[k]]
      BY <2>4 DEF ActOnServer, Without
    <3>2. MemberTable'
      BY <1>1, <1>2, <3>1 DEF MemberTable
    <3> QED
      BY <1>1, <1>2, <3>1, <3>2 DEF ServerTable
  <2>5. r.op \in {"delserver", "addmember", "change", "remove"}
    BY <1>1 DEF Carries, OpsOf
  <2> QED
    BY <2>1, <2>2, <2>3, <2>4, <2>5
<1>4. Control' /\ raced' \in BOOLEAN
  BY <1>2, <1>3, DoneKeys
<1>5. UserTable' /\ SessionTable' /\ PermTable'
  BY <1>2 DEF Keys, UserTable, SessionTable, PermTable
<1> QED
  BY <1>1, <1>2, <1>3, <1>4, <1>5, HistorySame DEF Keys

LEMMA PluginKeys ==
    ASSUME Keys, NEW t \in Threads, AddPlugin(t) \/ DropPlugin(t)
    PROVE  Keys'
<1> DEFINE r == req[t]
<1>1. lastId \in 0..Max({MaxUsers, MaxServers}) /\ seq.users \in Nat /\ MemberTable
  BY RequestOf, IdsTyped DEF Keys
<1>2. UNCHANGED <<user, session, perms, server, members, seq, limit, issued, founders, deleted, raced>> /\ Done(t)
  BY DEF AddPlugin, DropPlugin, rest, limiter, history, bounds
<1>3. /\ plugins' \subseteq Live(user) \X Live(server)
      /\ RowElsewhere \/ UNCHANGED lastId
  <2>1. plugins \subseteq Live(user) \X Live(server)
    BY <1>1 DEF MemberTable
  <2>2. CASE AddPlugin(t)
    BY <2>1, <2>2 DEF AddPlugin
  <2>3. CASE DropPlugin(t)
    BY <2>1, <2>3 DEF DropPlugin
  <2> QED
    BY <2>2, <2>3
<1>4. Control' /\ raced' \in BOOLEAN
  BY <1>1, <1>2, <1>3, RowElsewhereTyped, DoneKeys
<1>5. UserTable' /\ SessionTable' /\ PermTable' /\ ServerTable' /\ MemberTable'
  BY <1>1, <1>2, <1>3 DEF Keys, UserTable, SessionTable, PermTable, ServerTable, MemberTable
<1> QED
  BY <1>1, <1>2, <1>4, <1>5, HistorySame DEF Keys

LEMMA OtherKeys ==
    ASSUME Keys, LoginFails \/ InsertElsewhere \/ Crash \/ UNCHANGED vars
    PROVE  Keys'
<1>1. /\ Control /\ History /\ seq.users \in Nat
  BY IdsTyped DEF Keys
<1>2. UNCHANGED <<user, session, perms, server, members, plugins, seq, issued, founders, deleted>> /\ raced' \in BOOLEAN
  BY <1>1 DEF LoginFails, InsertElsewhere, Crash, vars, tables, rest, limiter, history, bounds, History
<1>3. Control'
  <2>1. CASE LoginFails
    <3>1. UNCHANGED <<lastId, pc, req>> /\ Attempt
      BY <2>1 DEF LoginFails
    <3>2. limit' \in [age : 0..(Window + 1), count : 0..MaxAttempts]
      BY <1>1, <3>1, Bounds DEF Control, Attempt, Admitted
    <3> QED
      BY <1>1, <3>1, <3>2 DEF Control
  <2>2. CASE InsertElsewhere
    BY <1>1, <2>2, RowElsewhereTyped DEF InsertElsewhere, Control, limiter
  <2>3. CASE Crash
    <3>1. /\ pc' = [t \in Threads |-> "idle"] /\ req' = [t \in Threads |-> NoReq]
          /\ limit' = NoLimit /\ lastId' = 0
      BY <2>3 DEF Crash
    <3>2. limit' \in [age : 0..(Window + 1), count : 0..MaxAttempts]
      BY <3>1, Bounds DEF NoLimit
    <3>3. lastId' \in 0..Max({MaxUsers, MaxServers})
      BY <3>1, Bounds
    <3>4. "idle" \in Phases
      BY DEF Phases
    <3> QED
      BY <3>1, <3>2, <3>3, <3>4, NoRequest DEF Control
  <2>4. CASE UNCHANGED vars
    BY <1>1, <2>4 DEF vars, rest, limiter, Control
  <2> QED
    BY <2>1, <2>2, <2>3, <2>4
<1> QED
  BY <1>1, <1>2, <1>3, TablesSame, HistorySame DEF Keys

LEMMA KeysInduction == Keys /\ [Next]_vars => Keys'
<1> SUFFICES ASSUME Keys, [Next]_vars PROVE Keys'
  OBVIOUS
<1>1. ASSUME NEW t \in Threads, NEW n \in Names, Register(t, n) \/ Login(t, n) PROVE Keys'
  BY <1>1, RegisterKeys, LoginKeys
<1>2. ASSUME NEW t \in Threads,
             \/ Count(t) \/ InsertUser(t) \/ RowId(t) \/ InsertSession(t) \/ DropSession(t)
             \/ SetStatus(t) \/ SetRole(t) \/ DeletePerms(t) \/ InsertPerms(t)
             \/ CheckTarget(t) \/ Override(t)
             \/ DeleteSessions(t) \/ DeleteMemberships(t) \/ DeleteUser(t)
             \/ InsertServer(t) \/ InsertCreator(t) \/ CheckAllowed(t) \/ ActOnServer(t) \/ AddPlugin(t) \/ DropPlugin(t)
      PROVE  Keys'
  BY <1>2, CountKeys, InsertUserKeys, RowIdKeys, InsertSessionKeys, SessionKeys, SetUserKeys,
     PermKeys, CheckKeys, DeleteMembershipsKeys, DeleteUserKeys, InsertServerKeys,
     InsertCreatorKeys, ActOnServerKeys, PluginKeys
<1>3. ASSUME NEW t \in Threads, NEW k \in Tokens, Logout(t, k) PROVE Keys'
  BY <1>3, LogoutKeys
<1>4. ASSUME NEW t \in Threads, NEW k \in Tokens, NEW n \in Names, NEW r \in {"server_owner", "op"},
             AddUser(t, k, n, r)
      PROVE  Keys'
  BY <1>4, AddUserKeys
<1>5. ASSUME NEW t \in Threads, NEW k \in Tokens, AdminRequest(t, k) PROVE Keys'
  <2>1. PICK u \in 1..seq.users, self \in BOOLEAN :
          \/ \E op \in {"approve", "reject", "delete", "permissions"} : Manage(t, k, op, u, "", self)
          \/ \E role \in {"server_owner", "op"} : Manage(t, k, "role", u, role, self)
    BY <1>5 DEF AdminRequest
  <2> QED
    BY <2>1, ManageKeys DEF Roles
<1>6. ASSUME NEW t \in Threads, NEW k \in Tokens, ServerRequest(t, k) PROVE Keys'
  BY <1>6, ServerRequests, OnServerKeys, Zenon
<1>7. CASE LoginFails \/ Tick \/ Cleanup \/ InsertElsewhere \/ Crash \/ UNCHANGED vars
  BY <1>7, OtherKeys, SessionKeys
<1> QED
  BY <1>1, <1>2, <1>3, <1>4, <1>5, <1>6, <1>7, Zenon DEF Next

\* The tables keep the types and the foreign keys of the schema, although no statement
\* of database.cpp that fails is told from one that succeeds.
THEOREM TypeCorrect == Spec => []TypeOK
<1>1. Spec => []Keys
  BY InitKeys, KeysInduction, PTL DEF Spec
<1> QED
  BY <1>1, TypeParts, PTL

--------------------------------------------------------------------------------
(* What a step may change.                                                  *)

\* A step starts a request, runs a statement of one, or is of the panel itself.
LEMMA NextCases ==
    ASSUME [Next]_vars
    PROVE  \/ \E t \in Threads, n \in Names : Register(t, n) \/ Login(t, n)
           \/ \E t \in Threads :
                 \/ Count(t) \/ InsertUser(t) \/ RowId(t) \/ InsertSession(t) \/ DropSession(t)
                 \/ SetStatus(t) \/ SetRole(t) \/ DeletePerms(t) \/ InsertPerms(t)
                 \/ CheckTarget(t) \/ Override(t)
                 \/ DeleteSessions(t) \/ DeleteMemberships(t) \/ DeleteUser(t)
                 \/ InsertServer(t) \/ InsertCreator(t) \/ CheckAllowed(t) \/ ActOnServer(t) \/ AddPlugin(t) \/ DropPlugin(t)
           \/ \E t \in Threads, k \in Tokens : \E r, phase : Authenticated(t, k, r, phase)
           \/ LoginFails \/ Tick \/ Cleanup \/ InsertElsewhere \/ Crash \/ UNCHANGED vars
<1> DEFINE Asks == \E t \in Threads, k \in Tokens : \E r, phase : Authenticated(t, k, r, phase)
<1>1. ASSUME NEW t \in Threads, NEW k \in Tokens, Logout(t, k) PROVE Asks
  BY <1>1 DEF Logout
<1>2. ASSUME NEW t \in Threads, NEW k \in Tokens, NEW n, NEW role, AddUser(t, k, n, role) PROVE Asks
  BY <1>2 DEF AddUser, Admin
<1>3. ASSUME NEW t \in Threads, NEW k \in Tokens, AdminRequest(t, k) PROVE Asks
  BY <1>3 DEF AdminRequest, Manage, Admin
<1>4. ASSUME NEW t \in Threads, NEW k \in Tokens, ServerRequest(t, k) PROVE Asks
  BY <1>4 DEF ServerRequest, OnServer
<1> HIDE DEF Asks
<1>5. CASE Next
  BY <1>1, <1>2, <1>3, <1>4, <1>5, Zenon DEF Next, Asks
<1> QED
  BY <1>5

\* The statements that change the table users.
LEMMA UserChanges ==
    ASSUME [Next]_vars
    PROVE  (UNCHANGED user) \/ \E t \in Threads : InsertUser(t) \/ SetStatus(t) \/ SetRole(t) \/ DeleteUser(t)
<1>1. ASSUME NEW t \in Threads, NEW n \in Names, Register(t, n) \/ Login(t, n) PROVE UNCHANGED user
  BY <1>1 DEF Register, Login, tables
<1>2. ASSUME NEW t \in Threads,
             \/ Count(t) \/ RowId(t) \/ InsertSession(t) \/ DropSession(t) \/ DeletePerms(t) \/ InsertPerms(t)
             \/ CheckTarget(t) \/ Override(t) \/ DeleteSessions(t) \/ DeleteMemberships(t)
      PROVE  UNCHANGED user
  BY <1>2 DEF Count, RowId, InsertSession, DropSession, DeletePerms, InsertPerms, CheckTarget, Override,
              DeleteSessions, DeleteMemberships, tables
<1>3. ASSUME NEW t \in Threads, InsertServer(t) \/ InsertCreator(t) \/ CheckAllowed(t) \/ ActOnServer(t) \/ AddPlugin(t) \/ DropPlugin(t)
      PROVE  UNCHANGED user
  BY <1>3 DEF InsertServer, InsertCreator, CheckAllowed, ActOnServer, AddPlugin, DropPlugin, tables
<1>4. ASSUME NEW t \in Threads, NEW k \in Tokens, NEW r, NEW phase, Authenticated(t, k, r, phase)
      PROVE  UNCHANGED user
  BY <1>4 DEF Authenticated, tables
<1>5. CASE LoginFails \/ Tick \/ Cleanup \/ InsertElsewhere \/ Crash \/ UNCHANGED vars
  BY <1>5 DEF LoginFails, Tick, Cleanup, InsertElsewhere, Crash, vars, tables
<1> QED
  BY <1>1, <1>2, <1>3, <1>4, <1>5, NextCases, Zenon

\* The statement that gives an id to a user.
LEMMA UserIdsKept ==
    ASSUME Keys, [Next]_vars
    PROVE  (seq'.users = seq.users /\ UNCHANGED founders) \/ \E t \in Threads : InsertUser(t) /\ Named(req[t].name) = {}
<1> DEFINE Same == seq'.users = seq.users /\ UNCHANGED founders
<1>1. ASSUME NEW t \in Threads, NEW n \in Names, Register(t, n) \/ Login(t, n) PROVE Same
  BY <1>1 DEF Register, Login, tables, history
<1>2. ASSUME NEW t \in Threads,
             \/ Count(t) \/ RowId(t) \/ InsertSession(t) \/ DropSession(t) \/ DeletePerms(t) \/ InsertPerms(t)
             \/ CheckTarget(t) \/ Override(t) \/ DeleteSessions(t) \/ DeleteMemberships(t)
             \/ SetStatus(t) \/ SetRole(t) \/ DeleteUser(t)
      PROVE  Same
  BY <1>2 DEF Count, RowId, InsertSession, DropSession, DeletePerms, InsertPerms, CheckTarget, Override,
              DeleteSessions, DeleteMemberships, SetStatus, SetRole, DeleteUser, tables, rest, history
<1>3. ASSUME NEW t \in Threads, InsertCreator(t) \/ CheckAllowed(t) \/ ActOnServer(t) \/ AddPlugin(t) \/ DropPlugin(t)
      PROVE  Same
  BY <1>3 DEF InsertCreator, CheckAllowed, ActOnServer, AddPlugin, DropPlugin, tables, rest, history
<1>4. ASSUME NEW t \in Threads, InsertServer(t) PROVE Same
  <2>1. (seq' = seq \/ seq' = [seq EXCEPT !.servers = seq.servers + 1]) /\ UNCHANGED founders
    BY <1>4 DEF InsertServer, rest, history
  <2>2. seq \in [users : 0..MaxUsers, servers : 0..MaxServers]
    BY IdsTyped
  <2> QED
    BY <2>1, <2>2
<1>5. ASSUME NEW t \in Threads, InsertUser(t), Named(req[t].name) # {} PROVE Same
  BY <1>5 DEF InsertUser
<1>6. ASSUME NEW t \in Threads, NEW k \in Tokens, NEW r, NEW phase, Authenticated(t, k, r, phase)
      PROVE  Same
  BY <1>6 DEF Authenticated, tables, history
<1>7. ASSUME LoginFails \/ Tick \/ Cleanup \/ InsertElsewhere \/ Crash \/ UNCHANGED vars PROVE Same
  BY <1>7 DEF LoginFails, Tick, Cleanup, InsertElsewhere, Crash, vars, tables, rest, history
<1> HIDE DEF Same
<1>8. Same \/ \E t \in Threads : InsertUser(t) /\ Named(req[t].name) = {}
  BY <1>1, <1>2, <1>3, <1>4, <1>5, <1>6, <1>7, NextCases, Zenon
<1> QED
  BY <1>8 DEF Same

\* Accounts keep their names and ids are not given again.
LEMMA NamesKept ==
    ASSUME Keys, [Next]_vars
    PROVE  /\ seq'.users \in Nat /\ seq'.users >= seq.users
           /\ \A u \in 1..seq.users : u \in Live(user') => u \in Live(user) /\ user'[u].name = user[u].name
<1>1. seq.users \in Nat /\ Live(user) \subseteq 1..seq.users /\ seq \in [users : 0..MaxUsers, servers : 0..MaxServers]
  BY IdsTyped
<1>2. seq'.users = seq.users \/ \E t \in Threads : InsertUser(t) /\ Named(req[t].name) = {}
  BY UserIdsKept
<1>3. ASSUME NEW t \in Threads, InsertUser(t), Named(req[t].name) = {}
      PROVE  /\ seq'.users \in Nat /\ seq'.users >= seq.users
             /\ \A u \in 1..seq.users : u \in Live(user') => u \in Live(user) /\ user'[u].name = user[u].name
  <2> DEFINE id == seq.users + 1
  <2>1. id \in Nat /\ seq'.users = id /\ Live(user') = Live(user) \cup {id} /\ \A u \in Live(user) : user'[u] = user[u]
    BY <1>3, UserInserted
  <2> QED
    BY <1>1, <2>1
<1>4. ASSUME NEW t \in Threads, InsertUser(t), Named(req[t].name) # {}
      PROVE  UNCHANGED user
  BY <1>4 DEF InsertUser
<1>5. ASSUME NEW t \in Threads, SetStatus(t) \/ SetRole(t)
      PROVE  Live(user') = Live(user) /\ \A v \in Live(user) : user'[v].name = user[v].name
  BY <1>5, UserSet
<1>6. ASSUME NEW t \in Threads, DeleteUser(t)
      PROVE  Live(user') \subseteq Live(user) /\ \A v \in Live(user') : user'[v] = user[v]
  <2>1. CASE ~Referenced(req[t].user)
    BY <1>6, <2>1, UserDeleted
  <2>2. CASE Referenced(req[t].user)
    BY <1>6, <2>2 DEF DeleteUser
  <2> QED
    BY <2>1, <2>2
<1>7. CASE seq'.users = seq.users /\ UNCHANGED user
  BY <1>1, <1>7
<1>8. CASE seq'.users = seq.users /\ \E t \in Threads : SetStatus(t) \/ SetRole(t) \/ DeleteUser(t)
  BY <1>1, <1>5, <1>6, <1>8
<1>9. CASE \E t \in Threads : InsertUser(t) /\ seq'.users = seq.users
  <2>1. PICK t \in Threads : InsertUser(t) /\ seq'.users = seq.users
    BY <1>9
  <2>2. CASE Named(req[t].name) = {}
    BY <1>3, <2>1, <2>2
  <2>3. CASE Named(req[t].name) # {}
    BY <1>4, <1>7, <2>1, <2>3
  <2> QED
    BY <2>2, <2>3
<1> QED
  BY <1>2, <1>3, <1>7, <1>8, <1>9, UserChanges

\* Only INSERT INTO sessions opens a session or hands a token out.
LEMMA SessionChanges ==
    ASSUME Keys, [Next]_vars
    PROVE  \/ \E t \in Threads : InsertSession(t)
           \/ /\ UNCHANGED issued
              /\ \A k \in Live(session') : k \in Live(session) /\ session'[k].user = session[k].user
<1> DEFINE Same == UNCHANGED <<issued, session>>
<1>1. ASSUME NEW t \in Threads, NEW n \in Names, Register(t, n) \/ Login(t, n) PROVE Same
  BY <1>1 DEF Register, Login, tables, history
<1>2. ASSUME NEW t \in Threads,
             \/ Count(t) \/ InsertUser(t) \/ RowId(t) \/ SetStatus(t) \/ SetRole(t) \/ DeletePerms(t) \/ InsertPerms(t)
             \/ CheckTarget(t) \/ Override(t) \/ DeleteMemberships(t) \/ DeleteUser(t)
      PROVE  Same
  BY <1>2 DEF Count, InsertUser, RowId, SetStatus, SetRole, DeletePerms, InsertPerms, CheckTarget, Override,
              DeleteMemberships, DeleteUser, tables, rest, history
<1>3. ASSUME NEW t \in Threads, InsertServer(t) \/ InsertCreator(t) \/ CheckAllowed(t) \/ ActOnServer(t) \/ AddPlugin(t) \/ DropPlugin(t)
      PROVE  Same
  BY <1>3 DEF InsertServer, InsertCreator, CheckAllowed, ActOnServer, AddPlugin, DropPlugin, tables, rest, history
<1>4. ASSUME NEW t \in Threads, NEW k \in Tokens, NEW r, NEW phase, Authenticated(t, k, r, phase)
      PROVE  Same
  BY <1>4 DEF Authenticated, tables, history
<1>5. CASE LoginFails \/ InsertElsewhere \/ Crash \/ UNCHANGED vars
  BY <1>5 DEF LoginFails, InsertElsewhere, Crash, vars, tables, rest, history
<1>6. CASE (\E t \in Threads : DropSession(t) \/ DeleteSessions(t)) \/ Tick \/ Cleanup
  BY <1>6, SessionsShrink
<1>7. ASSUME Same
      PROVE  UNCHANGED issued /\ \A k \in Live(session') : k \in Live(session) /\ session'[k].user = session[k].user
  BY <1>7
<1> HIDE DEF Same
<1> QED
  BY <1>1, <1>2, <1>3, <1>4, <1>5, <1>6, <1>7, NextCases, Zenon

--------------------------------------------------------------------------------
(* A rejection stands.                                                      *)

RejectionStandsStep ==
    \A u \in Live(user) : user[u].status = "rejected" => user'[u] = Absent \/ user'[u].status = "rejected"

LEMMA RejectionKept == Keys /\ [Next]_vars => [RejectionStandsStep]_vars
<1> SUFFICES ASSUME Keys, [Next]_vars, NEW u \in Live(user), user[u].status = "rejected"
             PROVE  user'[u] = Absent \/ user'[u].status = "rejected"
  BY DEF RejectionStandsStep
<1>1. user \in [UserIds -> Users \cup {Absent}] /\ u \in UserIds /\ user[u] \in Users
  BY DEF Keys, UserTable, Live
<1>2. ASSUME NEW t \in Threads, InsertUser(t) PROVE user'[u] = user[u]
  <2>1. u # seq.users + 1
    BY IdsTyped
  <2>2. (UNCHANGED user) \/ \E row : user' = [user EXCEPT ![seq.users + 1] = row]
    BY <1>2 DEF InsertUser
  <2> QED
    BY <1>1, <2>1, <2>2
<1>3. ASSUME NEW t \in Threads, SetStatus(t) PROVE user'[u].status = "rejected"
  <2>1. (UNCHANGED user) \/ \E v \in Live(user), op \in Ops :
            user' = [user EXCEPT ![v].status = NewStatus(op, @)]
    <3>1. req[t].op \in Ops
      BY RequestOf DEF Requests
    <3> QED
      BY <1>3, <3>1 DEF SetStatus
  <2>2. \A op \in Ops : NewStatus(op, "rejected") = "rejected"
    BY DEF NewStatus
  <2> QED
    BY <1>1, <2>1, <2>2 DEF Users
<1>4. ASSUME NEW t \in Threads, SetRole(t) PROVE user'[u].status = "rejected"
  <2>1. (UNCHANGED user) \/ \E v, role : user' = [user EXCEPT ![v].role = role]
    BY <1>4 DEF SetRole
  <2> QED
    BY <1>1, <2>1 DEF Users
<1>5. ASSUME NEW t \in Threads, DeleteUser(t) PROVE user'[u] = Absent \/ user'[u] = user[u]
  <2>1. (UNCHANGED user) \/ \E v : user' = [user EXCEPT ![v] = Absent]
    BY <1>5 DEF DeleteUser
  <2> QED
    BY <1>1, <2>1
<1>6. (UNCHANGED user) \/ \E t \in Threads : InsertUser(t) \/ SetStatus(t) \/ SetRole(t) \/ DeleteUser(t)
  BY UserChanges
<1> QED
  BY <1>2, <1>3, <1>4, <1>5, <1>6

\* However approvals, rejections, role changes and registrations interleave, a rejected
\* account is rejected until it is deleted (admin_handler.cpp:171).
THEOREM RejectedForGood == Spec => RejectionStands
<1>1. Keys /\ [Next]_vars => [RejectionStandsStep]_vars
  BY RejectionKept
<1>2. Spec => []Keys
  BY InitKeys, KeysInduction, PTL DEF Spec
<1>3. Spec => [][RejectionStandsStep]_vars
  BY <1>1, <1>2, PTL DEF Spec
<1> QED
  BY <1>3 DEF RejectionStands, RejectionStandsStep

--------------------------------------------------------------------------------
(* One request at a time.                                                   *)

LEMMA RacedStays ==
    ASSUME Keys, [Next]_vars, raced
    PROVE  raced'
<1>1. ASSUME NEW t \in Threads, NEW n \in Names, Register(t, n) \/ Login(t, n) PROVE raced'
  BY <1>1 DEF Register, Login, Start
<1>2. ASSUME NEW t \in Threads,
             \/ Count(t) \/ InsertUser(t) \/ RowId(t) \/ InsertSession(t) \/ DropSession(t)
             \/ SetStatus(t) \/ SetRole(t) \/ DeletePerms(t) \/ InsertPerms(t)
             \/ CheckTarget(t) \/ Override(t)
      PROVE  UNCHANGED raced
  BY <1>2 DEF Count, InsertUser, RowId, InsertSession, DropSession, SetStatus, SetRole, DeletePerms, InsertPerms,
              CheckTarget, Override, rest, limiter, bounds
<1>3. ASSUME NEW t \in Threads,
             \/ DeleteSessions(t) \/ DeleteMemberships(t) \/ DeleteUser(t)
             \/ InsertServer(t) \/ InsertCreator(t) \/ CheckAllowed(t) \/ ActOnServer(t) \/ AddPlugin(t) \/ DropPlugin(t)
      PROVE  UNCHANGED raced
  BY <1>3 DEF DeleteSessions, DeleteMemberships, DeleteUser, InsertServer, InsertCreator, CheckAllowed,
              ActOnServer, AddPlugin, DropPlugin, rest, limiter, bounds
<1>4. ASSUME NEW t \in Threads, NEW k \in Tokens, NEW r, NEW phase, Authenticated(t, k, r, phase)
      PROVE  raced'
  BY <1>4 DEF Authenticated, Start
<1>5. CASE LoginFails \/ Tick \/ Cleanup \/ InsertElsewhere \/ Crash \/ UNCHANGED vars
  BY <1>5 DEF LoginFails, Tick, Cleanup, InsertElsewhere, Crash, vars, rest, limiter, bounds
<1> QED
  BY <1>1, <1>2, <1>3, <1>4, <1>5, NextCases, Zenon

\* A thread without a request has nothing to be sure of.
LEMMA IdleSure ==
    ASSUME Keys', NEW t \in Threads, pc'[t] = "idle"
    PROVE  Sure(t)'
<1>1. req'[t].op = "none"
  BY DEF Keys, Control, Carries, OpsOf
<1> QED
  BY <1>1 DEF Sure, SelfProtected

\* When t takes a step all others are idle, and stay so.
LEMMA Solo ==
    ASSUME Keys, Keys', NEW t \in Threads, NEW phase, NEW r,
           \A u \in Threads : u # t => pc[u] = "idle",
           pc' = [pc EXCEPT ![t] = phase], req' = [req EXCEPT ![t] = r],
           phase = "idle" \/ Sure(t)'
    PROVE  Alone' /\ \A u \in Threads : Sure(u)'
<1>1. pc \in [Threads -> Phases]
  BY DEF Keys, Control
<1>2. pc'[t] = phase /\ \A u \in Threads : u # t => pc'[u] = "idle"
  BY <1>1
<1>3. Alone'
  BY <1>2 DEF Alone
<1>4. ASSUME NEW u \in Threads PROVE Sure(u)'
  BY <1>2, <1>4, IdleSure
<1> QED
  BY <1>3, <1>4

\* Whoever is not at work neither makes nor deletes.
LEMMA IdleHands ==
    ASSUME Keys, NEW t \in Threads, pc[t] = "idle"
    PROVE  req[t].op = "none" /\ ~Deletes(t) /\ \A s : ~Makes(t, s)
<1>1. req[t].op = "none"
  BY DEF Keys, Control, Carries, OpsOf
<1> QED
  BY <1>1 DEF Deletes, Makes

\* A request that starts undisturbed finds every server owned.
LEMMA OthersIdle ==
    ASSUME Keys, Quiet, NEW t \in Threads,
           pc[t] # "idle" \/ \A u \in Threads : pc[u] = "idle"
    PROVE  /\ \A u \in Threads : u # t => pc[u] = "idle" /\ ~Deletes(u) /\ \A s : ~Makes(u, s)
           /\ Sure(t)
           /\ misspelt \/ stopped \/ deleted # {} \/ \A s \in Live(server) : Owned(s) \/ Makes(t, s) \/ Deletes(t)
<1>1. \A u \in Threads : u # t => pc[u] = "idle"
  BY DEF Quiet, Alone
<1>2. \A u \in Threads : u # t => pc[u] = "idle" /\ ~Deletes(u) /\ \A s : ~Makes(u, s)
  BY <1>1, IdleHands
<1>3. misspelt \/ stopped \/ deleted # {} \/ \A s \in Live(server) : Owned(s) \/ Makes(t, s) \/ Deletes(t)
  BY <1>2 DEF Quiet, ServersKept
<1> QED
  BY <1>2, <1>3 DEF Quiet

\* A step that leaves servers and members as they are.
LEMMA ServersFrame ==
    ASSUME Keys, Quiet, NEW t \in Threads,
           pc[t] # "idle" \/ \A u \in Threads : pc[u] = "idle",
           UNCHANGED <<server, members, deleted, stopped>>, misspelt => misspelt',
           \A s \in Live(server) : Makes(t, s) => Makes(t, s)',
           Deletes(t) => Deletes(t)'
    PROVE  ServersKept'
<1>1. \A s : Owned(s) => Owned(s)'
  BY DEF Owned, RoleOn
<1>2. misspelt \/ stopped \/ deleted # {} \/ \A s \in Live(server) : Owned(s) \/ Makes(t, s) \/ Deletes(t)
  BY OthersIdle
<1>3. CASE misspelt \/ stopped \/ deleted # {}
  BY <1>3 DEF ServersKept
<1>4. CASE \A s \in Live(server) : Owned(s) \/ Makes(t, s) \/ Deletes(t)
  <2>1. \A s \in Live(server') : Owned(s)' \/ Makes(t, s)' \/ Deletes(t)'
    BY <1>1, <1>4
  <2> QED
    BY <2>1 DEF ServersKept
<1> QED
  BY <1>2, <1>3, <1>4

\* A step that leaves users, servers and members as they are.
LEMMA QuietFrame ==
    ASSUME Keys, Keys', Quiet, NEW t \in Threads, NEW phase, NEW r,
           pc[t] # "idle" \/ \A u \in Threads : pc[u] = "idle",
           UNCHANGED <<user, server, members, founders, deleted, raced, stopped>>, misspelt => misspelt',
           pc' = [pc EXCEPT ![t] = phase], req' = [req EXCEPT ![t] = r],
           phase = "idle" \/ Sure(t)',
           \A s \in Live(server) : Makes(t, s) => Makes(t, s)',
           Deletes(t) => Deletes(t)'
    PROVE  Quiet'
<1>1. Alone' /\ \A u \in Threads : Sure(u)'
  BY OthersIdle, Solo
<1>2. OneFounder' /\ OwnersRemain'
  BY DEF Quiet, OneFounder, OwnersRemain, IsActiveOwner
<1>3. DeletedIsGone'
  BY DEF Quiet, DeletedIsGone
<1>4. ServersKept'
  BY ServersFrame
<1> QED
  BY <1>1, <1>2, <1>3, <1>4 DEF Quiet

\* A request that starts while no other runs.
LEMMA QuietStart ==
    ASSUME Keys, Keys', Quiet, NEW t \in Threads, NEW phase, NEW r,
           Start(t, r, phase), UNCHANGED <<tables, lastId, history>>, ~raced', misspelt => misspelt',
           Sure(t)'
    PROVE  Quiet'
<1>1. /\ pc' = [pc EXCEPT ![t] = phase] /\ req' = [req EXCEPT ![t] = r]
      /\ UNCHANGED <<user, server, members, founders, deleted, stopped>>
  BY DEF Start, Goto, tables, history
<1>2. ~raced /\ \A u \in Threads : pc[u] = "idle"
  BY DEF Start
<1>3. ~Deletes(t) /\ \A s : ~Makes(t, s)
  BY <1>2, IdleHands
<1>4. raced \in BOOLEAN /\ raced' \in BOOLEAN
  BY DEF Keys, History
<1>5. UNCHANGED raced
  BY <1>2, <1>4
<1> QED
  BY <1>1, <1>2, <1>3, <1>5, QuietFrame

LEMMA RegisterQuiet ==
    ASSUME Keys, Keys', Quiet, NEW t \in Threads, NEW n \in Names, Register(t, n), ~raced'
    PROVE  Quiet'
<1> DEFINE r == [NoReq EXCEPT !.op = "register", !.name = n]
<1>1. Start(t, r, "count") /\ UNCHANGED <<tables, lastId, misspelt, history>> /\ Named(n) = {}
  BY DEF Register
<1>2. r.op = "register" /\ r.name = n
  BY DEF NoReq
<1> HIDE DEF r
<1>3. pc'[t] = "count" /\ req'[t] = r
  BY <1>1 DEF Start, Goto, Keys, Control
<1>4. Named(n)' = {}
  BY <1>1 DEF Named, tables
<1>5. Sure(t)'
  BY <1>2, <1>3, <1>4 DEF Sure, SelfProtected
<1> QED
  BY <1>1, <1>5, QuietStart

LEMMA LoginQuiet ==
    ASSUME Keys, Keys', Quiet, NEW t \in Threads, NEW n \in Names, Login(t, n), ~raced'
    PROVE  Quiet'
<1>1. PICK u \in Named(n) :
        Start(t, [NoReq EXCEPT !.op = "login", !.name = n, !.id = u], "session")
  BY DEF Login
<1> DEFINE r == [NoReq EXCEPT !.op = "login", !.name = n, !.id = u]
<1>2. r.op = "login"
  BY DEF NoReq
<1> HIDE DEF r
<1>3. Start(t, r, "session") /\ UNCHANGED <<tables, lastId, misspelt, history>>
  BY <1>1 DEF Login, r
<1>4. pc'[t] = "session" /\ req'[t] = r
  BY <1>3 DEF Start, Goto, Keys, Control
<1>5. Sure(t)'
  BY <1>2, <1>4 DEF Sure, SelfProtected
<1> QED
  BY <1>3, <1>5, QuietStart

\* The request that starts carries the id of a user who may use the panel.
LEMMA WhoAsks ==
    ASSUME Keys, NEW k \in Tokens, Authenticates(k)
    PROVE  session[k].user \in Live(user) /\ user[session[k].user].status = "active"
  BY DEF Authenticates, Keys, SessionTable, Live

LEMMA AuthenticatedQuiet ==
    ASSUME Keys, Keys', Quiet, NEW t \in Threads, NEW k \in Tokens, NEW r \in Requests, NEW phase,
           Authenticated(t, k, r, phase), ~raced',
           phase \in {"logout", "allowed", "insserver", "addplugin", "delplugin"} /\ r.op \notin SelfProtected
    PROVE  Quiet'
<1> DEFINE q == [r EXCEPT !.me = session[k].user]
<1>1. q.op = r.op /\ q.me = session[k].user /\ q.user = r.user /\ q.self = r.self
  BY DEF Requests
<1>2. session[k].user \in Live(user) /\ (~misspelt' => (q.self <=> q.user = q.me))
  BY <1>1, WhoAsks DEF Authenticated, Requests
<1> HIDE DEF q
<1>3. Start(t, q, phase) /\ UNCHANGED <<tables, lastId, history>> /\ (misspelt => misspelt')
  BY DEF Authenticated, q
<1>4. pc'[t] = phase /\ req'[t] = q /\ UNCHANGED user
  BY <1>3 DEF Start, Goto, Keys, Control, tables
<1>5. Sure(t)'
  BY <1>1, <1>2, <1>4 DEF Sure
<1> QED
  BY <1>3, <1>5, QuietStart

LEMMA AddUserQuiet ==
    ASSUME Keys, Keys', Quiet, NEW t \in Threads, NEW k \in Tokens, NEW n \in Names,
           NEW role \in {"server_owner", "op"}, AddUser(t, k, n, role), ~raced'
    PROVE  Quiet'
<1> DEFINE r == [NoReq EXCEPT !.op = "add", !.name = n, !.role = role]
           q == [r EXCEPT !.me = session[k].user]
<1>1. q.op = "add" /\ q.name = n
  BY DEF NoReq
<1>2. session[k].user \in Live(user)
  BY WhoAsks DEF AddUser, Admin
<1> HIDE DEF q
<1>3. /\ Start(t, q, "insuser") /\ UNCHANGED <<tables, lastId, history>> /\ Named(n) = {}
      /\ misspelt => misspelt'
  BY DEF AddUser, Admin, Authenticated, q
<1>4. pc'[t] = "insuser" /\ req'[t] = q /\ UNCHANGED user
  BY <1>3 DEF Start, Goto, Keys, Control, tables
<1>5. Named(n)' = {} /\ Live(user') # {}
  BY <1>2, <1>3, <1>4 DEF Named
<1>6. Sure(t)'
  BY <1>1, <1>4, <1>5 DEF Sure, SelfProtected
<1> QED
  BY <1>3, <1>6, QuietStart

LEMMA ManageQuiet ==
    ASSUME Keys, Keys', Quiet, NEW t \in Threads, NEW k \in Tokens, NEW u \in 1..seq.users,
           NEW op \in {"approve", "reject", "delete", "permissions", "role"}, NEW role,
           NEW self \in BOOLEAN, Manage(t, k, op, u, role, self), ~raced'
    PROVE  Quiet'
<1>1. PICK m \in Live(user) : m = session[k].user /\ IsActiveOwner(m)
  BY WhoAsks DEF Manage, Admin, IsActiveOwner
<1> DEFINE r == [NoReq EXCEPT !.op = op, !.user = u, !.role = role, !.self = self]
           q == [r EXCEPT !.me = m]
<1>2. q.op = op /\ q.me = m /\ q.user = u /\ r.user = u /\ r.self = self
  BY DEF NoReq
<1> HIDE DEF q, r
<1>3. /\ Start(t, q, FirstOf(op)) /\ UNCHANGED <<tables, lastId, history>>
      /\ misspelt' = (misspelt \/ (u = m /\ ~self))
      /\ op \in SelfProtected => ~self
  BY <1>1, <1>2 DEF Manage, Admin, Authenticated, q, r
<1>4. pc'[t] = FirstOf(op) /\ req'[t] = q /\ UNCHANGED user
  BY <1>3 DEF Start, Goto, Keys, Control, tables
<1>5. FirstOf(op) \in {"delsessions", "setrole", "target", "setstatus"}
  BY DEF FirstOf
<1>6. IsActiveOwner(m)' /\ (op \in SelfProtected /\ ~misspelt' => u # m)
  BY <1>1, <1>3, <1>4 DEF IsActiveOwner
<1>7. Sure(t)'
  BY <1>1, <1>2, <1>4, <1>5, <1>6 DEF Sure
<1>8. misspelt => misspelt'
  BY <1>3
<1> QED
  BY <1>3, <1>7, <1>8, QuietStart

\* Each statement of a request, one after the other.
LEMMA CountQuiet ==
    ASSUME Keys, Keys', Quiet, NEW t \in Threads, Count(t)
    PROVE  Quiet'
<1>0. PICK r : r = [req[t] EXCEPT !.role = FirstRole]
  OBVIOUS
<1>1. /\ pc[t] = "count" /\ req' = [req EXCEPT ![t] = r] /\ pc' = [pc EXCEPT ![t] = "insuser"]
      /\ UNCHANGED <<user, server, members, founders, deleted, raced, misspelt, stopped>>
  BY <1>0 DEF Count, Goto, tables, rest, limiter, history, bounds
<1>2. req[t] \in Requests /\ req[t].op = "register" /\ Sure(t)
  BY <1>1, RequestOf, OthersIdle DEF Carries, OpsOf
<1>3. r.op = "register" /\ r.name = req[t].name /\ r.role = FirstRole
  BY <1>0, <1>2 DEF Requests
<1>4. pc'[t] = "insuser" /\ req'[t] = r
  BY <1>1, RequestOf
<1>5. Named(r.name)' = {} /\ FirstRole' = FirstRole
  BY <1>1, <1>2, <1>3 DEF Sure, Named, FirstRole
<1>6. Sure(t)'
  BY <1>3, <1>4, <1>5 DEF Sure, SelfProtected
<1>7. ~Deletes(t) /\ \A s : ~Makes(t, s)
  BY <1>2 DEF Deletes, Makes
<1> QED
  BY <1>1, <1>6, <1>7, QuietFrame

LEMMA RowIdQuiet ==
    ASSUME Keys, Keys', Quiet, NEW t \in Threads, RowId(t)
    PROVE  Quiet'
<1>0. PICK r : r = [req[t] EXCEPT !.id = lastId]
  OBVIOUS
<1> DEFINE phase == CASE req[t].op = "register" -> "session"
                      [] req[t].op = "create" -> "member"
                      [] OTHER -> "perms"
<1>1. /\ pc[t] = "rowid" /\ req' = [req EXCEPT ![t] = r] /\ pc' = [pc EXCEPT ![t] = phase]
      /\ UNCHANGED <<user, server, members, founders, deleted, raced, misspelt, stopped, lastId>>
  BY <1>0 DEF RowId, Goto, tables, rest, limiter, history, bounds
<1>2. req[t] \in Requests /\ req[t].op \in {"register", "add", "create"} /\ Sure(t)
  BY <1>1, RequestOf, OthersIdle DEF Carries, OpsOf
<1>3. r.op = req[t].op /\ r.name = req[t].name /\ r.me = req[t].me /\ r.id = lastId
  BY <1>0, <1>2 DEF Requests
<1>4. pc'[t] = phase /\ req'[t] = r
  BY <1>1, RequestOf
<1> HIDE DEF phase
<1>5. CASE req[t].op = "register"
  <2>1. phase = "session"
    BY <1>5 DEF phase
  <2>2. Named(r.name)' = Named(r.name) /\ lastId \in Named(r.name)
    BY <1>1, <1>2, <1>3, <1>5 DEF Sure, Named
  <2>3. Sure(t)'
    BY <1>3, <1>4, <1>5, <2>1, <2>2 DEF Sure, SelfProtected
  <2>4. ~Deletes(t) /\ \A s : ~Makes(t, s)
    BY <1>5 DEF Deletes, Makes
  <2> QED
    BY <1>1, <2>3, <2>4, QuietFrame
<1>6. CASE req[t].op = "create"
  <2>1. phase = "member"
    BY <1>6 DEF phase
  <2>2. req[t].me \in Live(user) /\ lastId \in Live(server) /\ RoleOn(lastId, req[t].me) = ""
    BY <1>1, <1>2, <1>6 DEF Sure
  <2>3. RoleOn(r.id, r.me)' = "" /\ r.me \in Live(user') /\ r.id \in Live(server')
    BY <1>1, <1>3, <2>2 DEF RoleOn
  <2>4. Sure(t)'
    BY <1>3, <1>4, <1>6, <2>1, <2>3 DEF Sure, SelfProtected
  <2>5. ~Deletes(t) /\ \A s : Makes(t, s) => Makes(t, s)'
    BY <1>1, <1>3, <1>4, <1>6, <2>1 DEF Deletes, Makes
  <2> QED
    BY <1>1, <2>4, <2>5, QuietFrame
<1>7. CASE req[t].op = "add"
  <2>1. phase = "perms"
    BY <1>7 DEF phase
  <2>2. Sure(t)'
    BY <1>3, <1>4, <1>7, <2>1 DEF Sure, SelfProtected
  <2>3. ~Deletes(t) /\ \A s : ~Makes(t, s)
    BY <1>7 DEF Deletes, Makes
  <2> QED
    BY <1>1, <2>2, <2>3, QuietFrame
<1> QED
  BY <1>2, <1>5, <1>6, <1>7

\* The statements that end a request that neither makes nor deletes.
LEMMA LastQuiet ==
    ASSUME Keys, Keys', Quiet, NEW t \in Threads, pc[t] # "idle", Done(t),
           req[t].op \notin {"create", "delete"},
           UNCHANGED <<user, server, members, founders, deleted, raced, misspelt, stopped>>
    PROVE  Quiet'
<1>1. pc' = [pc EXCEPT ![t] = "idle"] /\ req' = [req EXCEPT ![t] = NoReq]
  BY DEF Done, Goto
<1>2. ~Deletes(t) /\ \A s : ~Makes(t, s)
  BY DEF Deletes, Makes
<1> QED
  BY <1>1, <1>2, QuietFrame

LEMMA EndsQuiet ==
    ASSUME Keys, Keys', Quiet, NEW t \in Threads,
           InsertSession(t) \/ DropSession(t) \/ InsertPerms(t) \/ Override(t)
    PROVE  Quiet'
<1>1. /\ Done(t) /\ UNCHANGED <<user, server, members, founders, deleted, raced, misspelt, stopped>>
      /\ pc[t] \in {"session", "logout", "perms", "override"}
  BY DEF InsertSession, DropSession, InsertPerms, Override, rest, limiter, history, bounds
<1>2. req[t].op \notin {"create", "delete"}
  BY <1>1, RequestOf DEF Carries, OpsOf
<1> QED
  BY <1>1, <1>2, LastQuiet

LEMMA CheckTargetQuiet ==
    ASSUME Keys, Keys', Quiet, NEW t \in Threads, CheckTarget(t)
    PROVE  Quiet'
<1>0. PICK r \in Requests : r = req[t]
  BY RequestOf
<1>1. /\ pc[t] = "target" /\ UNCHANGED <<user, server, members, founders, deleted, raced, misspelt, stopped>>
      /\ Done(t) \/ Next1(t, "override")
  BY <1>0 DEF CheckTarget, tables, rest, limiter, history, bounds
<1>2. r.op = "permissions" /\ Sure(t)
  BY <1>0, <1>1, RequestOf, OthersIdle DEF Carries, OpsOf
<1>3. CASE Done(t)
  BY <1>0, <1>1, <1>2, <1>3, LastQuiet
<1>4. CASE Next1(t, "override")
  <2>1. pc' = [pc EXCEPT ![t] = "override"] /\ req' = [req EXCEPT ![t] = r] /\ req'[t] = r /\ pc'[t] = "override"
    BY <1>0, <1>4, RequestOf DEF Next1, Goto
  <2>2. ~misspelt' => IsActiveOwner(r.me)' /\ r.me # r.user
    BY <1>0, <1>1, <1>2 DEF Sure, SelfProtected, IsActiveOwner
  <2>3. Sure(t)'
    BY <1>2, <2>1, <2>2 DEF Sure
  <2>4. ~Deletes(t) /\ \A s : ~Makes(t, s)
    BY <1>0, <1>2 DEF Deletes, Makes
  <2> QED
    BY <1>1, <2>1, <2>3, <2>4, QuietFrame
<1> QED
  BY <1>1, <1>3, <1>4

LEMMA CheckAllowedQuiet ==
    ASSUME Keys, Keys', Quiet, NEW t \in Threads, CheckAllowed(t)
    PROVE  Quiet'
<1>0. PICK r \in Requests : r = req[t]
  BY RequestOf
<1>1. /\ pc[t] = "allowed" /\ UNCHANGED <<user, server, members, founders, deleted, raced, misspelt, stopped>>
      /\ Done(t) \/ (Next1(t, "act") /\ Allowed(r))
  BY <1>0 DEF CheckAllowed, tables, rest, limiter, history, bounds
<1>2. r.op \in {"delserver", "addmember", "change", "remove"} /\ Sure(t)
  BY <1>0, <1>1, RequestOf, OthersIdle DEF Carries, OpsOf
<1>3. CASE Done(t)
  BY <1>0, <1>1, <1>2, <1>3, LastQuiet
<1>4. CASE Next1(t, "act") /\ Allowed(r)
  <2>1. pc' = [pc EXCEPT ![t] = "act"] /\ req' = [req EXCEPT ![t] = r] /\ req'[t] = r /\ pc'[t] = "act"
    BY <1>0, <1>4, RequestOf DEF Next1, Goto
  <2>2. Allowed(r)'
    BY <1>1, <1>4, <2>1 DEF Allowed, RoleOn
  <2>3. Sure(t)'
    <3>1. r.op \in {"change", "remove"} /\ ~misspelt' => (r.self <=> r.user = r.me)
      BY <1>0, <1>1, <1>2 DEF Sure
    <3> QED
      BY <1>2, <2>1, <2>2, <3>1 DEF Sure, SelfProtected
  <2>4. ~Deletes(t) /\ \A s : ~Makes(t, s)
    BY <1>0, <1>2 DEF Deletes, Makes
  <2> QED
    BY <1>1, <2>1, <2>3, <2>4, QuietFrame
<1> QED
  BY <1>1, <1>3, <1>4

LEMMA DeleteSessionsQuiet ==
    ASSUME Keys, Keys', Quiet, NEW t \in Threads, DeleteSessions(t)
    PROVE  Quiet'
<1>0. PICK r \in Requests : r = req[t]
  BY RequestOf
<1>1. /\ pc[t] = "delsessions" /\ UNCHANGED <<user, server, members, founders, deleted, raced, misspelt, stopped>>
      /\ Next1(t, "delperms")
      /\ session' = [k \in Tokens |-> IF session[k] # Absent /\ session[k].user = r.user THEN Absent ELSE session[k]]
  BY <1>0 DEF DeleteSessions, rest, limiter, history, bounds
<1>2. r.op = "delete" /\ Sure(t)
  BY <1>0, <1>1, RequestOf, OthersIdle DEF Carries, OpsOf
<1>3. pc' = [pc EXCEPT ![t] = "delperms"] /\ req' = [req EXCEPT ![t] = r] /\ req'[t] = r /\ pc'[t] = "delperms"
  BY <1>0, <1>1, RequestOf DEF Next1, Goto
<1>4. ~misspelt' => IsActiveOwner(r.me)' /\ r.me # r.user
  BY <1>0, <1>1, <1>2 DEF Sure, SelfProtected, IsActiveOwner
<1>5. \A k \in Live(session') : session'[k].user # r.user
  BY <1>1 DEF Live
<1>6. Sure(t)'
  BY <1>2, <1>3, <1>4, <1>5 DEF Sure
<1>7. (Deletes(t) => Deletes(t)') /\ \A s : ~Makes(t, s)
  BY <1>0, <1>1, <1>2, <1>3 DEF Deletes, Makes
<1> QED
  BY <1>1, <1>3, <1>6, <1>7, QuietFrame

LEMMA DeletePermsQuiet ==
    ASSUME Keys, Keys', Quiet, NEW t \in Threads, DeletePerms(t)
    PROVE  Quiet'
<1>0. PICK r \in Requests : r = req[t]
  BY RequestOf
<1> DEFINE q == [r EXCEPT !.id = r.user]
<1>1. /\ pc[t] = "delperms" /\ UNCHANGED <<user, session, server, members, founders, deleted, raced, misspelt, stopped>>
      /\ perms' = {p \in perms : p[1] # r.user}
      /\ \/ r.op = "delete" /\ Next1(t, "delmembers")
         \/ r.op = "role" /\ Goto(t, "perms") /\ req' = [req EXCEPT ![t] = q]
         \/ r.op # "delete" /\ Done(t)
  <2>1. r.op \in {"delete", "role"} /\ pc[t] = "delperms"
    BY <1>0, RequestOf DEF Carries, OpsOf, DeletePerms
  <2>2. CASE r.op = "delete"
    BY <1>0, <2>2 DEF DeletePerms, rest, limiter, history, bounds
  <2>3. CASE r.op = "role" /\ r.role = "op"
    BY <1>0, <2>3 DEF DeletePerms, rest, limiter, history, bounds
  <2>4. CASE r.op = "role" /\ r.role # "op"
    BY <1>0, <2>4 DEF DeletePerms, rest, limiter, history, bounds
  <2> QED
    BY <2>1, <2>2, <2>3, <2>4
<1>2. r \in Requests /\ r.op \in {"delete", "role"} /\ Sure(t)
  BY <1>0, <1>1, RequestOf, OthersIdle DEF Carries, OpsOf
<1>3. ~misspelt' => IsActiveOwner(r.me)' /\ r.me # r.user
  BY <1>0, <1>1, <1>2 DEF Sure, SelfProtected, IsActiveOwner
<1>4. CASE r.op = "delete" /\ Next1(t, "delmembers")
  <2>1. pc' = [pc EXCEPT ![t] = "delmembers"] /\ req' = [req EXCEPT ![t] = r] /\ req'[t] = r /\ pc'[t] = "delmembers"
    BY <1>0, <1>4, RequestOf DEF Next1, Goto
  <2>2. /\ \A k \in Live(session') : session'[k].user # r.user
        /\ \A p \in perms' : p[1] # r.user
    BY <1>0, <1>1, <1>2, <1>4 DEF Sure
  <2>3. Sure(t)'
    BY <1>3, <1>4, <2>1, <2>2 DEF Sure
  <2>4. (Deletes(t) => Deletes(t)') /\ \A s : ~Makes(t, s)
    BY <1>0, <1>1, <1>4, <2>1 DEF Deletes, Makes
  <2> QED
    BY <1>1, <2>1, <2>3, <2>4, QuietFrame
<1>5. CASE r.op = "role" /\ Goto(t, "perms") /\ req' = [req EXCEPT ![t] = q]
  <2>1. q.op = "role" /\ q.me = r.me /\ q.user = r.user
    BY <1>2, <1>5 DEF Requests
  <2> HIDE DEF q
  <2>2. pc' = [pc EXCEPT ![t] = "perms"] /\ req'[t] = q /\ pc'[t] = "perms"
    BY <1>5, RequestOf DEF Goto
  <2>3. Sure(t)'
    BY <1>3, <2>1, <2>2 DEF Sure
  <2>4. ~Deletes(t) /\ \A s : ~Makes(t, s)
    BY <1>0, <1>5 DEF Deletes, Makes
  <2> QED
    BY <1>1, <1>5, <2>2, <2>3, <2>4, QuietFrame
<1>6. CASE r.op # "delete" /\ Done(t)
  BY <1>0, <1>1, <1>2, <1>6, LastQuiet
<1> QED
  BY <1>1, <1>4, <1>5, <1>6

\* The owners of OwnersRemain.
LEMMA OwnersByStatus ==
    /\ OwnersRemain <=> \/ raced \/ misspelt \/ Live(user) = {}
                        \/ \E u \in Live(user) : user[u].role = "server_owner" /\ user[u].status \in {"active", "rejected"}
    /\ OwnersRemain' <=> \/ raced' \/ misspelt' \/ Live(user') = {}
                         \/ \E u \in Live(user') : user'[u].role = "server_owner" /\ user'[u].status \in {"active", "rejected"}
  BY DEF OwnersRemain, IsActiveOwner

LEMMA SetStatusQuiet ==
    ASSUME Keys, Keys', Quiet, NEW t \in Threads, SetStatus(t)
    PROVE  Quiet'
<1>0. PICK r \in Requests : r = req[t]
  BY RequestOf
<1>1. /\ pc[t] = "setstatus" /\ Done(t) /\ UNCHANGED <<server, members, founders, deleted, raced, misspelt, stopped>>
      /\ user' = IF r.user \in Live(user) THEN [user EXCEPT ![r.user].status = NewStatus(r.op, @)] ELSE user
  BY <1>0 DEF SetStatus, rest, limiter, history, bounds
<1>2. r.op \in {"approve", "reject"}
  BY <1>0, <1>1, RequestOf DEF Carries, OpsOf
<1>3. pc' = [pc EXCEPT ![t] = "idle"] /\ req' = [req EXCEPT ![t] = NoReq]
  BY <1>1 DEF Done, Goto
<1>4. Alone' /\ \A u \in Threads : Sure(u)'
  BY <1>1, <1>3, OthersIdle, Solo
<1>5. Live(user') = Live(user)
  BY UserSet
<1>6. OneFounder' /\ DeletedIsGone'
  BY <1>1, <1>5 DEF Quiet, OneFounder, DeletedIsGone
<1>7. OwnersRemain'
  <2>1. ASSUME NEW v \in Live(user), user[v].role = "server_owner", user[v].status \in {"active", "rejected"}
        PROVE  user'[v].role = "server_owner" /\ user'[v].status \in {"active", "rejected"}
    <3>1. user \in [UserIds -> Users \cup {Absent}] /\ v \in UserIds /\ user[v] \in Users
      BY DEF Keys, UserTable, Live
    <3>2. CASE v = r.user
      <4>1. user' = [user EXCEPT ![v].status = NewStatus(r.op, @)]
        BY <1>1, <3>2
      <4>2. user'[v] = [user[v] EXCEPT !.status = NewStatus(r.op, user[v].status)]
        BY <3>1, <4>1
      <4>3. NewStatus(r.op, user[v].status) \in {"active", "rejected"}
        BY <1>2, <2>1 DEF NewStatus
      <4> QED
        BY <2>1, <3>1, <4>2, <4>3 DEF Users
    <3>3. CASE v # r.user
      BY <1>1, <2>1, <3>1, <3>3
    <3> QED
      BY <3>2, <3>3
  <2> QED
    BY <1>1, <1>5, <2>1, OwnersByStatus DEF Quiet
<1>8. ServersKept'
  <2>1. ~Deletes(t) /\ \A s : ~Makes(t, s)
    BY <1>0, <1>2 DEF Deletes, Makes
  <2> QED
    BY <1>1, <2>1, ServersFrame
<1> QED
  BY <1>4, <1>6, <1>7, <1>8 DEF Quiet

LEMMA SetRoleQuiet ==
    ASSUME Keys, Keys', Quiet, NEW t \in Threads, SetRole(t)
    PROVE  Quiet'
<1>0. PICK r \in Requests : r = req[t]
  BY RequestOf
<1>1. /\ pc[t] = "setrole" /\ Next1(t, "delperms") /\ UNCHANGED <<server, members, founders, deleted, raced, misspelt, stopped>>
      /\ user' = IF r.user \in Live(user) THEN [user EXCEPT ![r.user].role = r.role] ELSE user
  BY <1>0 DEF SetRole, rest, limiter, history, bounds
<1>2. r.op = "role"
  BY <1>0, <1>1, RequestOf DEF Carries, OpsOf
<1>3. pc' = [pc EXCEPT ![t] = "delperms"] /\ req' = [req EXCEPT ![t] = r] /\ req'[t] = r /\ pc'[t] = "delperms"
  BY <1>0, <1>1, RequestOf DEF Next1, Goto
<1>4. Live(user') = Live(user)
  BY UserSet
<1>5. ASSUME ~misspelt PROVE r.me \in Live(user) /\ IsActiveOwner(r.me)' /\ r.me # r.user
  <2>1. IsActiveOwner(r.me) /\ r.me # r.user
    BY <1>5, <1>0, <1>1, <1>2, OthersIdle DEF Sure, SelfProtected
  <2>2. user \in [UserIds -> Users \cup {Absent}] /\ r.me \in Live(user)
    BY <2>1 DEF Keys, UserTable, IsActiveOwner
  <2>3. user'[r.me] = user[r.me]
    BY <1>1, <2>1, <2>2
  <2> QED
    BY <1>4, <2>1, <2>2, <2>3 DEF IsActiveOwner
<1>6. Sure(t)'
  BY <1>1, <1>2, <1>3, <1>5 DEF Sure
<1>7. Alone' /\ \A u \in Threads : Sure(u)'
  BY <1>1, <1>3, <1>6, OthersIdle, Solo
<1>8. OneFounder' /\ DeletedIsGone'
  BY <1>1, <1>4 DEF Quiet, OneFounder, DeletedIsGone
<1>9. OwnersRemain'
  BY <1>1, <1>4, <1>5 DEF OwnersRemain
<1>10. ServersKept'
  <2>1. ~Deletes(t) /\ \A s : ~Makes(t, s)
    BY <1>0, <1>2 DEF Deletes, Makes
  <2> QED
    BY <1>1, <2>1, ServersFrame
<1> QED
  BY <1>7, <1>8, <1>9, <1>10 DEF Quiet

LEMMA InsertUserQuiet ==
    ASSUME Keys, Keys', Quiet, NEW t \in Threads, InsertUser(t), ~raced
    PROVE  Quiet'
<1>0. PICK r \in Requests : r = req[t]
  BY RequestOf
<1>1. PICK status \in {"active", "pending"} :
        status = IF r.op = "register" /\ r.role = "pending" THEN "pending" ELSE "active"
  OBVIOUS
<1>2. /\ pc[t] = "insuser" /\ UNCHANGED <<server, members, deleted, raced, misspelt, stopped>>
      /\ IF status = "pending" THEN Done(t) ELSE Next1(t, "rowid")
  BY <1>0, <1>1 DEF InsertUser, bounds
<1>3. /\ r.op \in {"register", "add"} /\ Named(r.name) = {}
      /\ r.op = "register" => r.role = FirstRole
      /\ r.op = "add" => Live(user) # {}
  <2>1. Sure(t)
    BY <1>2, OthersIdle
  <2>2. r.op \in {"register", "add"}
    BY <1>0, <1>2, RequestOf DEF Carries, OpsOf
  <2> QED
    BY <1>0, <1>2, <2>1, <2>2 DEF Sure
<1>4. PICK id \in UserIds : id = seq.users + 1
  BY <1>0, <1>3, UserInserted
<1>5. /\ id \notin Live(user) /\ lastId' = id /\ Live(user') = Live(user) \cup {id}
      /\ user'[id] = [name |-> r.name, role |-> r.role, status |-> status]
      /\ \A u \in Live(user) : user'[u] = user[u]
      /\ founders' = IF r.op = "register" /\ status = "active" THEN founders \cup {id} ELSE founders
  BY <1>0, <1>1, <1>3, <1>4, UserInserted
<1>6. user'[id].name = r.name /\ user'[id].role = r.role /\ user'[id].status = status
  BY <1>5
<1>7. Alone' /\ \A u \in Threads : Sure(u)'
  <2>1. CASE status = "pending"
    <3>1. pc' = [pc EXCEPT ![t] = "idle"] /\ req' = [req EXCEPT ![t] = NoReq]
      BY <1>2, <2>1 DEF Done, Goto
    <3> QED
      BY <1>2, <3>1, OthersIdle, Solo
  <2>2. CASE status # "pending"
    <3>1. pc' = [pc EXCEPT ![t] = "rowid"] /\ req' = [req EXCEPT ![t] = r] /\ req'[t] = r /\ pc'[t] = "rowid"
      BY <1>0, <1>2, <2>2, RequestOf DEF Next1, Goto
    <3>2. lastId' \in Named(r.name)'
      BY <1>5, <1>6 DEF Named
    <3>3. Sure(t)'
      BY <1>3, <3>1, <3>2 DEF Sure, SelfProtected
    <3> QED
      BY <1>2, <3>1, <3>3, OthersIdle, Solo
  <2> QED
    BY <2>1, <2>2
<1>8. OneFounder'
  <2>1. CASE r.op = "register" /\ status = "active"
    <3>1. Live(user) = {}
      BY <1>1, <1>3, <2>1 DEF FirstRole
    <3>2. misspelt \/ founders = {}
      BY <3>1 DEF Quiet, OneFounder
    <3> QED
      BY <1>2, <1>5, <2>1, <3>2 DEF OneFounder
  <2>2. CASE ~(r.op = "register" /\ status = "active")
    <3>1. founders' = founders /\ Live(user') # {}
      BY <1>5, <2>2
    <3> QED
      BY <1>2, <3>1 DEF Quiet, OneFounder
  <2> QED
    BY <2>1, <2>2
<1>9. OwnersRemain'
  <2>1. CASE Live(user) = {}
    <3>1. r.role = "server_owner" /\ status = "active"
      BY <1>1, <1>3, <2>1 DEF FirstRole
    <3> QED
      BY <1>5, <1>6, <3>1, OwnersByStatus
  <2>2. CASE misspelt
    BY <1>2, <2>2 DEF OwnersRemain
  <2>3. CASE Live(user) # {} /\ ~misspelt
    <3>1. PICK u \in Live(user) : user[u].role = "server_owner" /\ user[u].status \in {"active", "rejected"}
      BY <2>3, OwnersByStatus DEF Quiet
    <3>2. u \in Live(user') /\ user'[u] = user[u]
      BY <1>5
    <3> QED
      BY <3>1, <3>2, OwnersByStatus
  <2> QED
    BY <2>1, <2>2, <2>3
<1>10. DeletedIsGone'
  <2>1. <<id, FALSE>> \notin deleted
    <3>1. deleted \subseteq (1..seq.users) \X BOOLEAN /\ seq.users \in Nat
      BY IdsTyped DEF Keys, History
    <3>2. id \notin 1..seq.users
      BY <1>4, <3>1
    <3> QED
      BY <3>1, <3>2
  <2>2. \A u \in Live(user) : <<u, FALSE>> \notin deleted
    BY DEF Quiet, DeletedIsGone
  <2> QED
    BY <1>2, <1>5, <2>1, <2>2 DEF DeletedIsGone
<1>11. ServersKept'
  <2>1. ~Deletes(t) /\ \A s : ~Makes(t, s)
    BY <1>0, <1>3 DEF Deletes, Makes
  <2> QED
    BY <1>2, <2>1, ServersFrame
<1> QED
  BY <1>7, <1>8, <1>9, <1>10, <1>11 DEF Quiet

LEMMA DeleteMembershipsQuiet ==
    ASSUME Keys, Keys', Quiet, NEW t \in Threads, DeleteMemberships(t)
    PROVE  Quiet'
<1>0. PICK r \in Requests : r = req[t]
  BY RequestOf
<1>1. /\ pc[t] = "delmembers" /\ Next1(t, "deluser")
      /\ UNCHANGED <<user, perms, session, server, founders, deleted, raced, misspelt, stopped>>
      /\ members' = [k \in {j \in DOMAIN members : ~(j[2] = r.user)} |-> members[k]]
  BY <1>0 DEF DeleteMemberships, Without, rest, limiter, history, bounds
<1>2. r.op = "delete" /\ Sure(t)
  BY <1>0, <1>1, RequestOf, OthersIdle DEF Carries, OpsOf
<1>3. pc' = [pc EXCEPT ![t] = "deluser"] /\ req' = [req EXCEPT ![t] = r] /\ req'[t] = r /\ pc'[t] = "deluser"
  BY <1>0, <1>1, RequestOf DEF Next1, Goto
<1>4. ~misspelt' => IsActiveOwner(r.me)' /\ r.me # r.user
  BY <1>0, <1>1, <1>2 DEF Sure, SelfProtected, IsActiveOwner
<1>5. /\ \A k \in Live(session') : session'[k].user # r.user
      /\ \A p \in perms' : p[1] # r.user
  BY <1>0, <1>1, <1>2 DEF Sure
<1>6. Sure(t)'
  BY <1>2, <1>3, <1>4, <1>5 DEF Sure
<1>7. Alone' /\ \A u \in Threads : Sure(u)'
  BY <1>1, <1>3, <1>6, OthersIdle, Solo
<1>8. OneFounder' /\ OwnersRemain' /\ DeletedIsGone'
  BY <1>1 DEF Quiet, OneFounder, OwnersRemain, IsActiveOwner, DeletedIsGone
<1>9. ServersKept'
  <2>1. CASE r.user \in Live(user)
    <3>1. Deletes(t)'
      BY <1>1, <1>2, <1>3, <2>1 DEF Deletes
    <3> QED
      BY <3>1 DEF ServersKept
  <2>2. CASE r.user \notin Live(user)
    <3>1. members \in [DOMAIN members -> MemberRoles] /\ DOMAIN members \subseteq Live(server) \X Live(user)
      BY DEF Keys, MemberTable
    <3>2. members' = members
      BY <1>1, <2>2, <3>1
    <3>3. ~Deletes(t) /\ \A s : ~Makes(t, s)
      BY <1>0, <1>2, <2>2 DEF Deletes, Makes
    <3> QED
      BY <1>1, <3>2, <3>3, ServersFrame
  <2> QED
    BY <2>1, <2>2
<1> QED
  BY <1>7, <1>8, <1>9 DEF Quiet

LEMMA DeleteUserQuiet ==
    ASSUME Keys, Keys', Quiet, NEW t \in Threads, DeleteUser(t)
    PROVE  Quiet'
<1>0. PICK r \in Requests : r = req[t]
  BY RequestOf
<1>1. /\ pc[t] = "deluser" /\ Done(t) /\ UNCHANGED <<server, plugins, perms, session, founders, raced, misspelt, stopped>>
      /\ deleted' = deleted \cup {<<v, Made(v)>> : v \in Live(user) \cap {r.user}}
      /\ Referenced(r.user) => UNCHANGED <<user, members>>
  BY <1>0 DEF DeleteUser, bounds
<1>2. r.op = "delete" /\ Sure(t)
  BY <1>0, <1>1, RequestOf, OthersIdle DEF Carries, OpsOf
<1>3. pc' = [pc EXCEPT ![t] = "idle"] /\ req' = [req EXCEPT ![t] = NoReq]
  BY <1>1 DEF Done, Goto
<1>4. Alone' /\ \A u \in Threads : Sure(u)'
  BY <1>1, <1>3, OthersIdle, Solo
<1>5. ~misspelt => IsActiveOwner(r.me) /\ r.me # r.user /\ r.me \in Live(user)
  BY <1>0, <1>2 DEF Sure, SelfProtected, IsActiveOwner
<1>6. \/ UNCHANGED user
      \/ Live(user') = Live(user) \ {r.user} /\ \A v \in Live(user') : user'[v] = user[v]
  BY <1>0, <1>1, UserDeleted
<1>7. ~misspelt' => IsActiveOwner(r.me)' /\ r.me \in Live(user')
  BY <1>1, <1>5, <1>6 DEF IsActiveOwner
<1>8. OneFounder'
  BY <1>1, <1>7 DEF Quiet, OneFounder
<1>9. OwnersRemain'
  BY <1>7 DEF OwnersRemain
<1>10. DeletedIsGone'
  <2>1. \A v \in Live(user') : v \in Live(user)
    BY <1>6
  <2>2. ASSUME ~Made(r.user), r.user \in Live(user) PROVE r.user \notin Live(user')
    <3>1. ~Referenced(r.user)
      BY <1>0, <1>1, <1>2, <2>2 DEF Sure, Referenced
    <3> QED
      BY <1>0, <3>1, UserDeleted
  <2>3. Made(r.user) \in BOOLEAN
    BY DEF Made
  <2>4. \A v \in Live(user') : <<v, FALSE>> \in deleted' => <<v, FALSE>> \in deleted
    BY <1>1, <2>1, <2>2, <2>3
  <2> QED
    BY <1>1, <2>1, <2>4 DEF Quiet, DeletedIsGone
<1>11. ServersKept'
  <2>1. CASE r.user \in Live(user)
    <3>1. <<r.user, Made(r.user)>> \in deleted'
      BY <1>1, <2>1
    <3> QED
      BY <3>1 DEF ServersKept
  <2>2. CASE r.user \notin Live(user)
    <3>1. deleted' = deleted
      BY <1>1, <2>2
    <3>2. members' = members
      <4>1. members \in [DOMAIN members -> MemberRoles] /\ DOMAIN members \subseteq Live(server) \X Live(user)
        BY DEF Keys, MemberTable
      <4>2. CASE ~Referenced(r.user)
        <5>1. members' = [k \in {j \in DOMAIN members : ~(j[2] = r.user)} |-> members[k]]
          BY <1>0, <4>2, UserDeleted
        <5> QED
          BY <2>2, <4>1, <5>1
      <4> QED
        BY <1>1, <4>2
    <3>3. ~Deletes(t) /\ \A s : ~Makes(t, s)
      BY <1>0, <1>2, <2>2 DEF Deletes, Makes
    <3> QED
      BY <1>1, <3>1, <3>2, <3>3, ServersFrame
  <2> QED
    BY <2>1, <2>2
<1> QED
  BY <1>4, <1>8, <1>9, <1>10, <1>11 DEF Quiet

\* A step that leaves users as they are.
LEMMA UsersFrame ==
    ASSUME Quiet, UNCHANGED <<user, founders, deleted, raced, misspelt>>
    PROVE  OneFounder' /\ OwnersRemain' /\ DeletedIsGone'
  BY DEF Quiet, OneFounder, OwnersRemain, IsActiveOwner, DeletedIsGone

\* The owner's row.
LEMMA OwnerRow ==
    /\ \A s : Owned(s) <=> \E u \in UserIds : <<s, u>> \in DOMAIN members /\ members[<<s, u>>] = "owner"
    /\ \A s : Owned(s)' <=> \E u \in UserIds : <<s, u>> \in DOMAIN members' /\ members'[<<s, u>>] = "owner"
  BY DEF Owned, RoleOn

LEMMA InsertServerQuiet ==
    ASSUME Keys, Keys', Quiet, NEW t \in Threads, InsertServer(t)
    PROVE  Quiet'
<1>0. PICK r \in Requests : r = req[t]
  BY RequestOf
<1>1. /\ pc[t] = "insserver" /\ Next1(t, "rowid")
      /\ UNCHANGED <<user, members, founders, deleted, raced, misspelt, stopped>>
  BY DEF InsertServer, rest, limiter, history, bounds
<1>2. r.op = "create" /\ r.me \in Live(user)
  <2>1. r.op = "create" /\ Sure(t)
    BY <1>0, <1>1, RequestOf, OthersIdle DEF Carries, OpsOf
  <2> QED
    BY <1>0, <2>1 DEF Sure
<1>3. PICK id \in ServerIds : id = seq.servers + 1
  BY <1>0, <1>2, ServerInserted
<1>4. id \notin Live(server) /\ lastId' = id /\ Live(server') = Live(server) \cup {id}
  BY <1>0, <1>2, <1>3, ServerInserted
<1>5. pc' = [pc EXCEPT ![t] = "rowid"] /\ req' = [req EXCEPT ![t] = r] /\ req'[t] = r /\ pc'[t] = "rowid"
  BY <1>0, <1>1, RequestOf DEF Next1, Goto
<1>6. RoleOn(id, r.me)' = ""
  <2>1. <<id, r.me>> \notin DOMAIN members
    BY <1>4 DEF Keys, MemberTable
  <2> QED
    BY <1>1, <2>1 DEF RoleOn
<1>7. Sure(t)'
  <2>1. lastId' \in Live(server') /\ r.me \in Live(user') /\ RoleOn(lastId, r.me)' = ""
    BY <1>1, <1>2, <1>4, <1>6 DEF RoleOn
  <2> QED
    BY <1>2, <1>5, <2>1 DEF Sure, SelfProtected
<1>8. Alone' /\ \A u \in Threads : Sure(u)'
  BY <1>1, <1>5, <1>7, OthersIdle, Solo
<1>9. ServersKept'
  <2>1. ~Deletes(t) /\ \A s : ~Makes(t, s)
    BY <1>0, <1>1, <1>2 DEF Deletes, Makes
  <2>2. Makes(t, id)'
    BY <1>2, <1>4, <1>5 DEF Makes
  <2>3. \A s : Owned(s) => Owned(s)'
    BY <1>1, OwnerRow
  <2>4. misspelt \/ stopped \/ deleted # {} \/ \A s \in Live(server) : Owned(s)
    BY <1>1, <2>1, OthersIdle
  <2> QED
    BY <1>1, <1>4, <2>2, <2>3, <2>4 DEF ServersKept
<1> QED
  BY <1>1, <1>8, <1>9, UsersFrame DEF Quiet

LEMMA InsertCreatorQuiet ==
    ASSUME Keys, Keys', Quiet, NEW t \in Threads, InsertCreator(t)
    PROVE  Quiet'
<1>0. PICK r \in Requests : r = req[t]
  BY RequestOf
<1>1. pc[t] = "member" /\ Done(t) /\ UNCHANGED <<user, server, founders, deleted, raced, misspelt, stopped>>
  BY DEF InsertCreator, rest, limiter, history, bounds
<1>2. r.op = "create" /\ r.id \in Live(server) /\ r.me \in Live(user) /\ RoleOn(r.id, r.me) = ""
  <2>1. r.op = "create" /\ Sure(t)
    BY <1>0, <1>1, RequestOf, OthersIdle DEF Carries, OpsOf
  <2> QED
    BY <1>0, <1>1, <2>1 DEF Sure
<1>3. members' = [k \in DOMAIN members \cup {<<r.id, r.me>>} |-> IF k = <<r.id, r.me>> THEN "owner" ELSE members[k]]
  BY <1>0, <1>2 DEF InsertCreator
<1>4. pc' = [pc EXCEPT ![t] = "idle"] /\ req' = [req EXCEPT ![t] = NoReq]
  BY <1>1 DEF Done, Goto
<1>5. Alone' /\ \A u \in Threads : Sure(u)'
  BY <1>1, <1>4, OthersIdle, Solo
<1>6. r.me \in UserIds
  BY <1>2 DEF Keys, UserTable, Live
<1>7. Owned(r.id)'
  BY <1>3, <1>6, OwnerRow
<1>8. ASSUME NEW s, Owned(s) PROVE Owned(s)'
  BY <1>3, <1>8, OwnerRow
<1>9. ServersKept'
  <2>1. ~Deletes(t) /\ \A s : Makes(t, s) => s = r.id
    BY <1>0, <1>1, <1>2 DEF Deletes, Makes
  <2>2. misspelt \/ stopped \/ deleted # {} \/ \A s \in Live(server) : Owned(s) \/ s = r.id
    BY <1>1, <2>1, OthersIdle
  <2> QED
    BY <1>1, <1>7, <1>8, <2>2 DEF ServersKept
<1> QED
  BY <1>1, <1>5, <1>9, UsersFrame DEF Quiet

LEMMA ActOnServerQuiet ==
    ASSUME Keys, Keys', Quiet, NEW t \in Threads, ActOnServer(t)
    PROVE  Quiet'
<1>0. PICK r \in Requests : r = req[t]
  BY RequestOf
<1>1. pc[t] = "act" /\ Done(t) /\ UNCHANGED <<user, founders, deleted, raced, misspelt, stopped>>
  BY DEF ActOnServer, rest, limiter, history, bounds
<1>2. /\ r.op \in {"delserver", "addmember", "change", "remove"} /\ Allowed(r)
      /\ r.op \in {"change", "remove"} /\ ~misspelt => (r.self <=> r.user = r.me)
  <2>1. Sure(t)
    BY <1>1, OthersIdle
  <2>2. r.op \in {"delserver", "addmember", "change", "remove"}
    BY <1>0, <1>1, RequestOf DEF Carries, OpsOf
  <2> QED
    BY <1>0, <1>1, <2>1, <2>2 DEF Sure
<1>3. pc' = [pc EXCEPT ![t] = "idle"] /\ req' = [req EXCEPT ![t] = NoReq]
  BY <1>1 DEF Done, Goto
<1>4. Alone' /\ \A u \in Threads : Sure(u)'
  BY <1>1, <1>3, OthersIdle, Solo
<1> DEFINE key == <<r.server, r.user>>
           Owns(s, u) == <<s, u>> \in DOMAIN members /\ members[<<s, u>>] = "owner"
<1>5. /\ members \in [DOMAIN members -> MemberRoles] /\ DOMAIN members \subseteq Live(server) \X Live(user)
      /\ \A p \in DOMAIN members : p[2] \in UserIds
  BY DEF Keys, MemberTable, UserTable, Live
<1>6. ASSUME ~misspelt PROVE \A s \in Live(server') : s \in Live(server) /\ (Owned(s) => Owned(s)')
  <2>1. CASE r.op = "delserver"
    <3>1. /\ server' = [server EXCEPT ![r.server] = Absent]
          /\ members' = [k \in {j \in DOMAIN members : ~(j[1] = r.server)} |-> members[k]]
      BY <1>0, <2>1 DEF ActOnServer, Without
    <3>2. Live(server') \subseteq Live(server) \ {r.server}
      BY <3>1 DEF Live, Keys, ServerTable
    <3>3. ASSUME NEW s \in Live(server'), Owned(s) PROVE Owned(s)'
      <4>1. PICK u \in UserIds : Owns(s, u)
        BY <3>3, OwnerRow
      <4>2. <<s, u>> \in DOMAIN members' /\ members'[<<s, u>>] = "owner"
        BY <3>1, <3>2, <3>3, <4>1
      <4> QED
        BY <4>2, OwnerRow
    <3> QED
      BY <3>2, <3>3
  <2>2. CASE r.op = "addmember"
    <3>1. /\ UNCHANGED server
          /\ \/ UNCHANGED members
             \/ key \notin DOMAIN members
                /\ members' = [k \in DOMAIN members \cup {key} |-> IF k = key THEN r.role ELSE members[k]]
      BY <1>0, <2>2 DEF ActOnServer
    <3>2. ASSUME NEW s \in Live(server), Owned(s) PROVE Owned(s)'
      <4>1. PICK u \in UserIds : Owns(s, u)
        BY <3>2, OwnerRow
      <4>2. <<s, u>> \in DOMAIN members' /\ members'[<<s, u>>] = "owner"
        BY <3>1, <4>1
      <4> QED
        BY <4>2, OwnerRow
    <3> QED
      BY <3>1, <3>2
  <2>3. CASE r.op = "change"
    <3>1. /\ UNCHANGED server
          /\ members' = IF key \in DOMAIN members THEN [members EXCEPT ![key] = r.role] ELSE members
      BY <1>0, <2>3 DEF ActOnServer
    <3>2. Owns(r.server, r.me) /\ r.user # r.me
      BY <1>2, <1>6, <2>3 DEF Allowed, RoleOn
    <3>3. ASSUME NEW s \in Live(server), Owned(s) PROVE Owned(s)'
      <4>1. PICK u \in UserIds : Owns(s, u) /\ <<s, u>> # key
        <5>1. PICK u \in UserIds : Owns(s, u)
          BY <3>3, OwnerRow
        <5>2. CASE <<s, u>> = key
          BY <1>5, <3>2, <5>2
        <5> QED
          BY <5>1, <5>2
      <4>2. <<s, u>> \in DOMAIN members' /\ members'[<<s, u>>] = "owner"
        BY <1>5, <3>1, <4>1
      <4> QED
        BY <4>2, OwnerRow
    <3> QED
      BY <3>1, <3>3
  <2>4. CASE r.op = "remove"
    <3>1. /\ UNCHANGED server
          /\ members' = [k \in {j \in DOMAIN members : ~(j = key)} |-> members[k]]
      BY <1>0, <2>4 DEF ActOnServer, Without
    <3>2. Owns(r.server, r.user) => r.user # r.me /\ Owns(r.server, r.me)
      <4>1. CASE r.user = r.me
        BY <1>2, <1>6, <2>4, <4>1 DEF Allowed, MayLeave, RoleOn
      <4>2. CASE r.user # r.me
        BY <1>2, <1>6, <2>4, <4>2 DEF Allowed, RoleOn
      <4> QED
        BY <4>1, <4>2
    <3>3. ASSUME NEW s \in Live(server), Owned(s) PROVE Owned(s)'
      <4>1. PICK u \in UserIds : Owns(s, u) /\ <<s, u>> # key
        <5>1. PICK u \in UserIds : Owns(s, u)
          BY <3>3, OwnerRow
        <5>2. CASE <<s, u>> = key
          BY <1>5, <3>2, <5>1, <5>2
        <5> QED
          BY <5>1, <5>2
      <4>2. <<s, u>> \in DOMAIN members' /\ members'[<<s, u>>] = "owner"
        BY <3>1, <4>1
      <4> QED
        BY <4>2, OwnerRow
    <3> QED
      BY <3>1, <3>3
  <2> QED
    BY <1>2, <2>1, <2>2, <2>3, <2>4
<1>7. ServersKept'
  <2>1. ~Deletes(t) /\ \A s : ~Makes(t, s)
    BY <1>0, <1>2 DEF Deletes, Makes
  <2>2. misspelt \/ stopped \/ deleted # {} \/ \A s \in Live(server) : Owned(s)
    BY <1>1, <2>1, OthersIdle
  <2> QED
    BY <1>1, <1>6, <2>2 DEF ServersKept
<1> QED
  BY <1>1, <1>4, <1>7, UsersFrame DEF Quiet

\* Time, the cleanup task and attempts that fail.
LEMMA BackgroundQuiet ==
    ASSUME Keys, Quiet, Tick \/ Cleanup \/ LoginFails \/ UNCHANGED vars
    PROVE  Quiet'
<1>1. UNCHANGED <<user, perms, server, members, lastId, pc, req, founders, deleted, raced, misspelt, stopped>>
  BY DEF Tick, Cleanup, LoginFails, vars, tables, rest, limiter, history, bounds
<1>2. \A k \in Live(session') : k \in Live(session) /\ session'[k].user = session[k].user
  <2>1. CASE Tick \/ Cleanup
    BY <2>1, SessionsShrink
  <2>2. CASE LoginFails \/ UNCHANGED vars
    BY <2>2 DEF LoginFails, vars, tables
  <2> QED
    BY <2>1, <2>2
<1>3. ASSUME NEW u \in Threads, NEW r, r = req[u], Sure(u) PROVE Sure(u)'
  <2>1. r = req'[u] /\ pc'[u] = pc[u]
    BY <1>1, <1>3
  <2>2. /\ Named(r.name)' = Named(r.name) /\ FirstRole' = FirstRole
        /\ IsActiveOwner(r.me) => IsActiveOwner(r.me)'
        /\ RoleOn(lastId, r.me) = "" => RoleOn(lastId, r.me)' = ""
        /\ RoleOn(r.id, r.me)' = RoleOn(r.id, r.me)
    BY <1>1 DEF Named, FirstRole, IsActiveOwner, RoleOn
  <2>3. Allowed(r)' = Allowed(r)
    BY <1>1 DEF Allowed, RoleOn
  <2>4. (\A k \in Live(session) : session[k].user # r.user) => \A k \in Live(session') : session'[k].user # r.user
    BY <1>2
  <2> QED
    BY <1>1, <1>3, <2>1, <2>2, <2>3, <2>4 DEF Sure
<1>4. Alone' /\ \A u \in Threads : Sure(u)'
  BY <1>1, <1>3 DEF Quiet, Alone
<1>5. ServersKept'
  BY <1>1 DEF Quiet, ServersKept, Owned, RoleOn, Makes, Deletes
<1> QED
  BY <1>1, <1>4, <1>5, UsersFrame DEF Quiet

\* The plugins: nothing relies on them.
LEMMA PluginQuiet ==
    ASSUME Keys, Keys', Quiet, NEW t \in Threads, AddPlugin(t) \/ DropPlugin(t)
    PROVE  Quiet'
<1>1. /\ Done(t) /\ UNCHANGED <<user, server, members, founders, deleted, raced, misspelt, stopped>>
      /\ pc[t] \in {"addplugin", "delplugin"}
  BY DEF AddPlugin, DropPlugin, rest, limiter, history, bounds
<1>2. req[t].op \notin {"create", "delete"}
  BY <1>1, RequestOf DEF Carries, OpsOf
<1> QED
  BY <1>1, <1>2, LastQuiet

\* A crash: only a request that makes a server or deletes a user leaves a server without an owner.
LEMMA CrashQuiet ==
    ASSUME Keys, Keys', Quiet, Crash
    PROVE  Quiet'
<1>1. /\ UNCHANGED <<user, server, members, founders, deleted, raced, misspelt>>
      /\ stopped' = (stopped \/ \E t \in Threads : req[t].op \in {"create", "delete"})
      /\ \A t \in Threads : pc'[t] = "idle"
  BY DEF Crash, tables, history
<1>2. Alone' /\ \A u \in Threads : Sure(u)'
  BY <1>1, IdleSure DEF Alone
<1>3. ServersKept'
  <2>1. CASE stopped'
    BY <2>1 DEF ServersKept
  <2>2. CASE ~stopped'
    <3>1. ~stopped /\ \A t \in Threads : ~Deletes(t) /\ \A s : ~Makes(t, s)
      BY <1>1, <2>2 DEF Deletes, Makes
    <3>2. misspelt \/ deleted # {} \/ \A s \in Live(server) : Owned(s)
      BY <3>1 DEF Quiet, ServersKept
    <3>3. \A s : Owned(s) => Owned(s)'
      BY <1>1, OwnerRow
    <3> QED
      BY <1>1, <3>2, <3>3 DEF ServersKept
  <2> QED
    BY <2>1, <2>2
<1> QED
  BY <1>1, <1>2, <1>3, UsersFrame DEF Quiet

\* As long as nothing overlaps, every step keeps what it relies on.
LEMMA QuietKept ==
    ASSUME Keys, Keys', Quiet, [Next]_vars, ~raced'
    PROVE  Quiet'
<1>1. ASSUME NEW t \in Threads, NEW n \in Names, Register(t, n) \/ Login(t, n) PROVE Quiet'
  BY <1>1, RegisterQuiet, LoginQuiet
<1>2. ~raced
  BY RacedStays
<1>3. ASSUME NEW t \in Threads,
             \/ Count(t) \/ InsertUser(t) \/ RowId(t) \/ InsertSession(t) \/ DropSession(t)
             \/ SetStatus(t) \/ SetRole(t) \/ DeletePerms(t) \/ InsertPerms(t)
             \/ CheckTarget(t) \/ Override(t)
      PROVE  Quiet'
  BY <1>2, <1>3, CountQuiet, InsertUserQuiet, RowIdQuiet, EndsQuiet, SetStatusQuiet, SetRoleQuiet,
     DeletePermsQuiet, CheckTargetQuiet
<1>4. ASSUME NEW t \in Threads,
             \/ DeleteSessions(t) \/ DeleteMemberships(t) \/ DeleteUser(t)
             \/ InsertServer(t) \/ InsertCreator(t) \/ CheckAllowed(t) \/ ActOnServer(t) \/ AddPlugin(t) \/ DropPlugin(t)
      PROVE  Quiet'
  BY <1>4, DeleteSessionsQuiet, DeleteMembershipsQuiet, DeleteUserQuiet, InsertServerQuiet,
     InsertCreatorQuiet, CheckAllowedQuiet, ActOnServerQuiet, PluginQuiet
<1>5. ASSUME NEW t \in Threads, NEW k \in Tokens, Logout(t, k) PROVE Quiet'
  <2> DEFINE r == [NoReq EXCEPT !.op = "logout", !.id = k]
  <2>1. r \in Requests /\ r.op = "logout"
    <3>1. k \in Nat
      BY Bounds DEF Tokens
    <3> QED
      BY <3>1, RequestsTyped DEF NoReq
  <2> HIDE DEF r
  <2>2. Authenticated(t, k, r, "logout")
    BY <1>5 DEF Logout, r
  <2> QED
    BY <2>1, <2>2, AuthenticatedQuiet DEF SelfProtected
<1>6. ASSUME NEW t \in Threads, NEW k \in Tokens, NEW n \in Names, NEW r \in {"server_owner", "op"},
             AddUser(t, k, n, r)
      PROVE  Quiet'
  BY <1>6, AddUserQuiet
<1>7. ASSUME NEW t \in Threads, NEW k \in Tokens, AdminRequest(t, k) PROVE Quiet'
  BY <1>7, ManageQuiet DEF AdminRequest
<1>8. ASSUME NEW t \in Threads, NEW k \in Tokens, NEW op \in ServerOps, NEW self \in BOOLEAN,
             NEW s \in Nat, NEW u \in Nat, NEW role \in MemberRoles \cup {""}, OnServer(t, k, op, s, u, role, self)
      PROVE  Quiet'
  <2> DEFINE r == [NoReq EXCEPT !.op = op, !.server = s, !.user = u, !.role = role, !.self = self]
  <2>1. r \in Requests /\ r.op = op
    <3>1. op \in Ops
      BY DEF Ops, ServerOps
    <3> QED
      BY <3>1, RequestsTyped DEF NoReq
  <2> HIDE DEF r
  <2>2. PICK phase \in {"allowed", "insserver", "addplugin", "delplugin"} : Authenticated(t, k, r, phase)
    BY <1>8 DEF OnServer, FirstOn, r
  <2> QED
    BY <2>1, <2>2, AuthenticatedQuiet DEF SelfProtected, ServerOps
<1>9. ASSUME NEW t \in Threads, NEW k \in Tokens, ServerRequest(t, k) PROVE Quiet'
  BY <1>8, <1>9, ServerRequests, Zenon
<1>10. CASE LoginFails \/ Tick \/ Cleanup \/ UNCHANGED vars
  BY <1>10, BackgroundQuiet
<1>11. ~InsertElsewhere
  BY DEF InsertElsewhere
<1>12. CASE Crash
  BY <1>12, CrashQuiet
<1> QED
  BY <1>1, <1>3, <1>4, <1>5, <1>6, <1>7, <1>9, <1>10, <1>11, <1>12, Zenon DEF Next

LEMMA UndisturbedKept ==
    ASSUME Keys, Keys', Undisturbed, [Next]_vars
    PROVE  Undisturbed'
<1>1. CASE raced
  BY <1>1, RacedStays DEF Undisturbed
<1>2. CASE ~raced /\ ~raced'
  BY <1>2, QuietKept DEF Undisturbed
<1>3. CASE raced'
  BY <1>3 DEF Undisturbed
<1> QED
  BY <1>1, <1>2, <1>3

LEMMA InitUndisturbed == Init => Undisturbed
<1> SUFFICES ASSUME Init PROVE Quiet
  BY DEF Undisturbed
<1>1. PICK s \in Snapshots : user = s.user /\ session = s.session /\ server = s.server /\ members = s.members
  BY DEF Init
<1>2. /\ pc = [t \in Threads |-> "idle"] /\ req = [t \in Threads |-> NoReq]
      /\ founders = {} /\ deleted = {}
  BY DEF Init
<1>3. Alone
  BY <1>2 DEF Alone
<1>4. ASSUME NEW t \in Threads PROVE Sure(t)
  <2>1. pc[t] = "idle" /\ req[t].op = "none"
    BY <1>2, NoRequest
  <2> QED
    BY <2>1 DEF Sure, SelfProtected
<1>5. OneFounder /\ DeletedIsGone
  BY <1>2 DEF OneFounder, DeletedIsGone
<1>6. OwnersRemain
  BY <1>1, SnapshotsAssumption DEF OwnersRemain, IsActiveOwner
<1>7. ServersKept
  <2>1. Keys
    BY InitKeys
  <2>2. ASSUME NEW k \in Live(server) PROVE Owned(k)
    <3>1. PICK m \in DOMAIN members : m[1] = k /\ members[m] = "owner"
      BY <1>1, SnapshotsAssumption
    <3>2. m \in Live(server) \X UserIds
      BY <2>1 DEF Keys, MemberTable, UserTable, Live
    <3>3. m = <<k, m[2]>> /\ m[2] \in UserIds
      BY <3>1, <3>2
    <3> QED
      BY <3>1, <3>3, OwnerRow
  <2> QED
    BY <2>2 DEF ServersKept
<1> QED
  BY <1>3, <1>4, <1>5, <1>6, <1>7 DEF Quiet

--------------------------------------------------------------------------------
(* Where a thread's phase comes from.                                       *)

LEMMA PhasesEntered ==
    ASSUME Keys, [Next]_vars, NEW u \in Threads
    PROVE  \/ pc'[u] = pc[u] /\ req'[u] = req[u]
           \/ pc'[u] \notin {"insuser", "session"}
           \/ pc'[u] = "insuser" /\ (Count(u) \/ req'[u].op = "add")
           \/ pc'[u] = "session" /\ (req'[u].op = "register" \/ \E n \in Names : Login(u, n))
<1> DEFINE Goal == \/ pc'[u] = pc[u] /\ req'[u] = req[u]
                   \/ pc'[u] \notin {"insuser", "session"}
                   \/ pc'[u] = "insuser" /\ (Count(u) \/ req'[u].op = "add")
                   \/ pc'[u] = "session" /\ (req'[u].op = "register" \/ \E n \in Names : Login(u, n))
<1>1. pc \in [Threads -> Phases] /\ req \in [Threads -> Requests]
  BY DEF Keys, Control
<1>2. ASSUME NEW t \in Threads, NEW r, NEW phase,
             pc' = [pc EXCEPT ![t] = phase] /\ req' = [req EXCEPT ![t] = r],
             phase \notin {"insuser", "session"} \/ t # u
      PROVE  Goal
  BY <1>1, <1>2
<1>3. ASSUME NEW t \in Threads,
             \/ Done(t)
             \/ Next1(t, "rowid") \/ Next1(t, "delperms") \/ Next1(t, "delmembers") \/ Next1(t, "deluser")
             \/ Next1(t, "override") \/ Next1(t, "act")
      PROVE  Goal
  <2>1. PICK phase \in Phases \ {"insuser", "session"} : Goto(t, phase) /\ (req' = req \/ req' = [req EXCEPT ![t] = NoReq])
    BY <1>3 DEF Done, Next1, Phases
  <2>2. req = [req EXCEPT ![t] = req[t]]
    BY <1>1
  <2> QED
    BY <1>2, <2>1, <2>2 DEF Goto
<1>4. ASSUME NEW t \in Threads, NEW r, NEW phase, Start(t, r, phase),
             phase \notin {"insuser", "session"} \/ t # u
      PROVE  Goal
  BY <1>2, <1>4 DEF Start, Goto
<1>5. ASSUME NEW t \in Threads, NEW n \in Names, Register(t, n) PROVE Goal
  BY <1>4, <1>5 DEF Register
<1>6. ASSUME NEW t \in Threads, NEW n \in Names, Login(t, n) PROVE Goal
  <2>1. CASE t # u
    BY <1>4, <1>6, <2>1 DEF Login
  <2>2. CASE t = u
    <3>1. pc'[u] = "session"
      BY <1>1, <1>6, <2>2 DEF Login, Start, Goto
    <3> QED
      BY <1>6, <2>2, <3>1
  <2> QED
    BY <2>1, <2>2
<1>7. ASSUME NEW t \in Threads, Count(t) PROVE Goal
  <2>1. CASE t # u
    BY <1>2, <1>7, <2>1 DEF Count, Goto
  <2>2. CASE t = u
    BY <1>1, <1>7, <2>2 DEF Count, Goto
  <2> QED
    BY <2>1, <2>2
<1>8. ASSUME NEW t \in Threads, RowId(t) PROVE Goal
  <2> DEFINE phase == CASE req[t].op = "register" -> "session"
                        [] req[t].op = "create" -> "member"
                        [] OTHER -> "perms"
             r == [req[t] EXCEPT !.id = lastId]
  <2>1. pc' = [pc EXCEPT ![t] = phase] /\ req' = [req EXCEPT ![t] = r]
    BY <1>8 DEF RowId, Goto
  <2>2. r.op = req[t].op
    BY <1>1 DEF Requests
  <2> HIDE DEF r
  <2>3. CASE t # u \/ req[t].op # "register"
    BY <1>2, <2>1, <2>3
  <2>4. CASE t = u /\ req[t].op = "register"
    <3>1. pc'[u] = "session" /\ req'[u].op = "register"
      BY <1>1, <2>1, <2>2, <2>4
    <3> QED
      BY <3>1
  <2> QED
    BY <2>3, <2>4
<1>9. ASSUME NEW t \in Threads, DeletePerms(t) PROVE Goal
  <2>1. req[t].op \in {"delete", "role"}
    BY <1>9, RequestOf DEF Carries, OpsOf, DeletePerms
  <2>2. CASE req[t].op = "delete"
    BY <1>3, <1>9, <2>2 DEF DeletePerms
  <2>3. CASE req[t].op = "role" /\ req[t].role # "op"
    BY <1>3, <1>9, <2>3 DEF DeletePerms
  <2>4. CASE req[t].op = "role" /\ req[t].role = "op"
    <3>1. pc' = [pc EXCEPT ![t] = "perms"] /\ \E r : req' = [req EXCEPT ![t] = r]
      BY <1>9, <2>4 DEF DeletePerms, Goto
    <3> QED
      BY <1>2, <3>1
  <2> QED
    BY <2>1, <2>2, <2>3, <2>4
<1>10. ASSUME NEW t \in Threads,
              \/ InsertUser(t) \/ InsertSession(t) \/ DropSession(t) \/ SetStatus(t) \/ SetRole(t) \/ InsertPerms(t)
              \/ CheckTarget(t) \/ Override(t) \/ DeleteSessions(t) \/ DeleteMemberships(t)
       PROVE  Goal
  <2>1. \/ Done(t)
        \/ Next1(t, "rowid") \/ Next1(t, "delperms") \/ Next1(t, "delmembers") \/ Next1(t, "deluser")
        \/ Next1(t, "override") \/ Next1(t, "act")
    BY <1>10 DEF InsertUser, InsertSession, DropSession, SetStatus, SetRole, InsertPerms, CheckTarget, Override,
                 DeleteSessions, DeleteMemberships
  <2> QED
    BY <1>3, <2>1
<1>11. ASSUME NEW t \in Threads,
              DeleteUser(t) \/ InsertServer(t) \/ InsertCreator(t) \/ CheckAllowed(t) \/ ActOnServer(t) \/ AddPlugin(t) \/ DropPlugin(t)
       PROVE  Goal
  BY <1>3, <1>11 DEF DeleteUser, InsertServer, InsertCreator, CheckAllowed, ActOnServer, AddPlugin, DropPlugin
<1>12. ASSUME NEW t \in Threads, NEW k \in Tokens, NEW r, NEW phase \in Phases \ {"insuser", "session"},
              Authenticated(t, k, r, phase)
       PROVE  Goal
  BY <1>4, <1>12 DEF Authenticated
<1>13. ASSUME NEW t \in Threads, NEW k \in Tokens, NEW n \in Names, NEW role \in {"server_owner", "op"},
              AddUser(t, k, n, role)
       PROVE  Goal
  <2> DEFINE r == [NoReq EXCEPT !.op = "add", !.name = n, !.role = role]
             q == [r EXCEPT !.me = session[k].user]
  <2>1. q.op = "add"
    BY DEF NoReq
  <2> HIDE DEF q
  <2>2. Start(t, q, "insuser")
    BY <1>13 DEF AddUser, Admin, Authenticated, q
  <2>3. CASE t # u
    BY <1>4, <2>2, <2>3
  <2>4. CASE t = u
    <3>1. pc'[u] = "insuser" /\ req'[u] = q
      BY <1>1, <2>2, <2>4 DEF Start, Goto
    <3> QED
      BY <2>1, <3>1
  <2> QED
    BY <2>3, <2>4
<1>14. ASSUME NEW t \in Threads, NEW k \in Tokens, AdminRequest(t, k) PROVE Goal
  <2>1. PICK op \in {"approve", "reject", "delete", "permissions", "role"} : \E r : Authenticated(t, k, r, FirstOf(op))
    BY <1>14 DEF AdminRequest, Manage, Admin
  <2>2. FirstOf(op) \in Phases \ {"insuser", "session"}
    BY DEF FirstOf, Phases
  <2> QED
    BY <1>12, <2>1, <2>2
<1>15. ASSUME NEW t \in Threads, NEW k \in Tokens, ServerRequest(t, k) PROVE Goal
  <2>1. PICK op \in ServerOps : \E r : Authenticated(t, k, r, FirstOn(op))
    BY <1>15 DEF ServerRequest, OnServer, ServerOps
  <2>2. FirstOn(op) \in Phases \ {"insuser", "session"}
    BY DEF FirstOn, Phases, ServerOps
  <2> QED
    BY <1>12, <2>1, <2>2
<1>16. ASSUME NEW t \in Threads, NEW k \in Tokens, Logout(t, k) PROVE Goal
  <2>1. "logout" \in Phases \ {"insuser", "session"}
    BY DEF Phases
  <2> QED
    BY <1>12, <1>16, <2>1 DEF Logout
<1>17. ASSUME LoginFails \/ Tick \/ Cleanup \/ InsertElsewhere \/ UNCHANGED vars PROVE Goal
  BY <1>17 DEF LoginFails, Tick, Cleanup, InsertElsewhere, vars
<1>18. ASSUME Crash PROVE Goal
  BY <1>18 DEF Crash
<1> HIDE DEF Goal
<1>19. Goal
  BY <1>5, <1>6, <1>7, <1>8, <1>9, <1>10, <1>11, <1>13, <1>14, <1>15, <1>16, <1>17, <1>18 DEF Next
<1> QED
  BY <1>19 DEF Goal

--------------------------------------------------------------------------------
(* The tokens.                                                              *)

LEMMA LoginSureKept ==
    ASSUME Keys, LoginSure, [Next]_vars
    PROVE  LoginSure'
<1> SUFFICES ASSUME NEW t \in Threads, pc'[t] = "session", req'[t].op = "login"
             PROVE  /\ req'[t].id \in 1..seq'.users
                    /\ req'[t].id \in Live(user') => user'[req'[t].id].name = req'[t].name
  BY DEF LoginSure
<1>1. /\ seq'.users \in Nat /\ seq'.users >= seq.users /\ seq.users \in Nat
      /\ \A u \in 1..seq.users : u \in Live(user') => u \in Live(user) /\ user'[u].name = user[u].name
  BY NamesKept, IdsTyped
<1>2. \/ pc[t] = "session" /\ req'[t] = req[t]
      \/ \E n \in Names : Login(t, n)
  BY PhasesEntered
<1>3. CASE pc[t] = "session" /\ req'[t] = req[t]
  <2>1. PICK r : r = req[t]
    OBVIOUS
  <2>2. r.id \in 1..seq.users /\ (r.id \in Live(user) => user[r.id].name = r.name)
    BY <1>3, <2>1 DEF LoginSure
  <2> QED
    BY <1>1, <1>3, <2>1, <2>2
<1>4. CASE \E n \in Names : Login(t, n)
  <2>1. PICK n \in Names : Login(t, n)
    BY <1>4
  <2>2. PICK u \in Named(n) : Start(t, [NoReq EXCEPT !.op = "login", !.name = n, !.id = u], "session")
    BY <2>1 DEF Login
  <2> DEFINE r == [NoReq EXCEPT !.op = "login", !.name = n, !.id = u]
  <2>3. r.id = u /\ r.name = n
    BY DEF NoReq
  <2> HIDE DEF r
  <2>4. req'[t] = r
    BY <2>2 DEF Start, r, Keys, Control
  <2>5. UNCHANGED <<user, seq>>
    BY <2>1 DEF Login, tables
  <2>6. u \in Live(user) /\ user[u].name = n /\ u \in 1..seq.users
    BY IdsTyped DEF Named
  <2> QED
    BY <2>3, <2>4, <2>5, <2>6
<1> QED
  BY <1>2, <1>3, <1>4

LEMMA DrawnKept ==
    ASSUME Keys, Drawn, [Next]_vars
    PROVE  Drawn'
<1>1. PICK n \in Nat : Live(issued) = 1..n
  BY DEF Drawn
<1>2. Live(session) \subseteq Live(issued)
  BY DEF Drawn
<1>3. ASSUME NEW t \in Threads, InsertSession(t) PROVE Drawn'
  <2>1. NextToken = n + 1 /\ Cardinality(1..n) = n
    BY <1>1, FS_Interval DEF NextToken
  <2>2. n + 1 \in Tokens
    BY <1>1, <1>3, <2>1, Bounds DEF InsertSession, Tokens
  <2>3. PICK draw \in [name : Names, by : {"register", "login"}] : issued' = [issued EXCEPT ![n + 1] = draw]
    <3>1. [name |-> req[t].name, by |-> req[t].op] \in [name : Names, by : {"register", "login"}]
      BY <1>3, RequestOf DEF InsertSession, Carries, OpsOf
    <3> QED
      BY <1>3, <2>1, <3>1 DEF InsertSession
  <2>4. draw # Absent
    BY RowsPresent
  <2>5. issued \in [Tokens -> [name : Names, by : {"register", "login"}] \cup {Absent}]
    BY DEF Keys, History
  <2>6. Live(issued') = Live(issued) \cup {n + 1}
    BY <2>2, <2>3, <2>4, <2>5 DEF Live
  <2>7. Live(issued') = 1..(n + 1)
    BY <1>1, <2>6
  <2>8. Live(session') \subseteq Live(session) \cup {n + 1}
    BY <1>3, <2>1 DEF InsertSession, Live, Keys, SessionTable
  <2> QED
    BY <1>2, <2>6, <2>7, <2>8 DEF Drawn
<1>4. CASE UNCHANGED issued /\ \A k \in Live(session') : k \in Live(session) /\ session'[k].user = session[k].user
  BY <1>1, <1>2, <1>4 DEF Drawn
<1> QED
  BY <1>3, <1>4, SessionChanges

LEMMA TokensKept ==
    ASSUME Keys, Drawn, LoginSure, Undisturbed, TokenIsOwn, [Next]_vars
    PROVE  TokenIsOwn'
<1>1. \A u \in 1..seq.users : u \in Live(user') => u \in Live(user) /\ user'[u].name = user[u].name
  BY NamesKept
<1>2. \A k \in Live(session) : session[k].user \in Live(user) /\ session[k].user \in 1..seq.users
  BY IdsTyped DEF Keys, SessionTable
<1>3. raced => raced'
  BY RacedStays
<1>4. ASSUME NEW t \in Threads, InsertSession(t) PROVE TokenIsOwn'
  <2>1. PICK r \in Requests : r = req[t]
    BY RequestOf
  <2>2. PICK n \in Nat : Live(issued) = 1..n
    BY DEF Drawn
  <2>3. NextToken = n + 1 /\ n + 1 \notin Live(session)
    <3>1. Live(session) \subseteq 1..n
      BY <2>2 DEF Drawn
    <3>2. Cardinality(1..n) = n
      BY FS_Interval
    <3> QED
      BY <2>2, <3>1, <3>2 DEF NextToken
  <2>4. n + 1 \in Tokens
    BY <1>4, <2>3, Bounds DEF InsertSession, Tokens
  <2>5. /\ issued' = [issued EXCEPT ![n + 1] = [name |-> r.name, by |-> r.op]]
        /\ session' = IF r.id \in Live(user)
                      THEN [session EXCEPT ![n + 1] = [user |-> r.id, left |-> Lifetime]] ELSE session
        /\ UNCHANGED <<user, raced>> /\ pc[t] = "session"
    BY <1>4, <2>1, <2>3 DEF InsertSession, SessionUser, bounds
  <2>6. /\ issued \in [Tokens -> [name : Names, by : {"register", "login"}] \cup {Absent}]
        /\ session \in [Tokens -> Sessions \cup {Absent}]
    BY DEF Keys, History, SessionTable
  <2>7. ASSUME NEW k \in Live(session'), k # n + 1
        PROVE  k \in Live(session) /\ session'[k] = session[k] /\ issued'[k] = issued[k]
    BY <2>4, <2>5, <2>6, <2>7 DEF Live
  <2>8. ASSUME n + 1 \in Live(session'), raced' => issued'[n + 1].by = "login"
        PROVE  user'[session'[n + 1].user].name = issued'[n + 1].name
    <3>1. r.id \in Live(user) /\ session'[n + 1] = [user |-> r.id, left |-> Lifetime]
      BY <2>3, <2>4, <2>5, <2>6, <2>8
    <3>2. issued'[n + 1] = [name |-> r.name, by |-> r.op]
      BY <2>4, <2>5, <2>6
    <3>3. r.op \in {"register", "login"}
      BY <2>1, <2>5, RequestOf DEF Carries, OpsOf
    <3>4. user[r.id].name = r.name
      <4>1. CASE r.op = "login"
        BY <2>1, <2>5, <3>1, <4>1 DEF LoginSure
      <4>2. CASE r.op = "register"
        <5>1. ~raced
          BY <2>5, <2>8, <3>2, <4>2
        <5>2. Sure(t)
          BY <5>1 DEF Undisturbed, Quiet
        <5> QED
          BY <2>1, <2>5, <4>2, <5>2 DEF Sure, Named
      <4> QED
        BY <3>3, <4>1, <4>2
    <3> QED
      BY <2>5, <3>1, <3>2, <3>4
  <2>9. ASSUME NEW k \in Live(session), raced => issued[k].by = "login"
        PROVE  user[session[k].user].name = issued[k].name
    BY <2>9 DEF TokenIsOwn
  <2> QED
    BY <2>5, <2>7, <2>8, <2>9 DEF TokenIsOwn
<1>5. CASE UNCHANGED issued /\ \A k \in Live(session') : k \in Live(session) /\ session'[k].user = session[k].user
  <2> SUFFICES ASSUME NEW k \in Live(session'), raced' => issued'[k].by = "login"
               PROVE  user'[session'[k].user].name = issued'[k].name
    BY DEF TokenIsOwn
  <2>1. k \in Live(session) /\ session'[k].user = session[k].user /\ issued'[k] = issued[k]
    BY <1>5
  <2>2. user[session[k].user].name = issued[k].name
    BY <1>3, <2>1 DEF TokenIsOwn
  <2>3. Keys'
    BY KeysInduction
  <2>4. session'[k].user \in Live(user')
    BY <2>3 DEF Keys, SessionTable
  <2> QED
    BY <1>1, <1>2, <2>1, <2>2, <2>4
<1> QED
  BY <1>4, <1>5, SessionChanges

LEMMA InitTokens == Init => Drawn /\ LoginSure /\ TokenIsOwn
<1> SUFFICES ASSUME Init PROVE Drawn /\ LoginSure /\ TokenIsOwn
  OBVIOUS
<1>1. PICK s \in Snapshots : user = s.user /\ session = s.session /\ issued = [k \in DOMAIN s.session |->
          IF s.session[k] = Absent THEN Absent ELSE [name |-> s.user[s.session[k].user].name, by |-> "login"]]
  BY DEF Init
<1>2. Keys
  BY InitKeys
<1>3. session \in [Tokens -> Sessions \cup {Absent}] /\ \A k \in Live(session) : user[session[k].user] \in Users
  <2>1. \A k \in Live(session) : session[k].user \in Live(user)
    BY <1>2 DEF Keys, SessionTable
  <2>2. \A u \in Live(user) : user[u] \in Users
    BY <1>2 DEF Keys, UserTable, Live
  <2> QED
    BY <1>2, <2>1, <2>2 DEF Keys, SessionTable
<1>4. \A k \in Tokens : issued[k] = IF session[k] = Absent THEN Absent ELSE [name |-> user[session[k].user].name, by |-> "login"]
  BY <1>1, <1>3
<1>5. DOMAIN issued = Tokens /\ DOMAIN session = Tokens
  BY <1>1, <1>3
<1>6. \A k \in Live(session) : issued[k].name = user[session[k].user].name
  BY <1>4, <1>5 DEF Live
<1>7. Live(issued) = Live(session)
  <2>1. ASSUME NEW k \in Live(session) PROVE issued[k] # Absent
    <3>1. user[session[k].user].name \in Names
      BY <1>3 DEF Users
    <3>2. issued[k] \in [name : Names, by : {"register", "login"}]
      BY <1>4, <1>5, <3>1 DEF Live
    <3> QED
      BY <3>2, RowsPresent
  <2> QED
    BY <1>4, <1>5, <2>1 DEF Live
<1>8. Drawn
  <2>1. Live(session) = 1..Cardinality(Live(session))
    BY <1>1, SnapshotsAssumption
  <2>2. IsFiniteSet(Live(session))
    <3>1. IsFiniteSet(Tokens) /\ Live(session) \subseteq Tokens
      BY <1>5, Bounds, FS_Interval DEF Tokens, Live
    <3> QED
      BY <3>1, FS_Subset
  <2>3. Cardinality(Live(session)) \in Nat
    BY <2>2, FS_CardinalityType
  <2> QED
    BY <1>7, <2>1, <2>3 DEF Drawn
<1>9. LoginSure
  BY DEF Init, LoginSure
<1> QED
  BY <1>6, <1>8, <1>9 DEF TokenIsOwn

--------------------------------------------------------------------------------
(* The founders.                                                            *)

\* A registration that has counted the users becomes owner or waits.
FoundersChosen ==
    \A t \in Threads : pc[t] = "insuser" /\ req[t].op = "register" => req[t].role \in {"server_owner", "pending"}

LEMMA FoundersChosenKept ==
    ASSUME Keys, FoundersChosen, [Next]_vars
    PROVE  FoundersChosen'
<1> SUFFICES ASSUME NEW t \in Threads, pc'[t] = "insuser", req'[t].op = "register"
             PROVE  req'[t].role \in {"server_owner", "pending"}
  BY DEF FoundersChosen
<1>1. CASE pc'[t] = pc[t] /\ req'[t] = req[t]
  BY <1>1 DEF FoundersChosen
<1>2. CASE Count(t)
  <2>1. req'[t] = [req[t] EXCEPT !.role = FirstRole] /\ req[t] \in Requests
    BY <1>2, RequestOf DEF Count
  <2>2. req'[t].role = FirstRole
    BY <2>1 DEF Requests
  <2> QED
    BY <2>2 DEF FirstRole
<1> QED
  BY <1>1, <1>2, PhasesEntered

LEMMA FoundersFinite ==
    ASSUME Keys
    PROVE  /\ IsFiniteSet(founders) /\ IsFiniteSet(founders \cap Live(user)) /\ IsFiniteSet(Founding)
           /\ IsFiniteSet(Threads)
           /\ Cardinality(founders \cap Live(user)) \in Nat /\ Cardinality(Founding) \in Nat
           /\ Cardinality(Threads) \in Nat
<1>1. IsFiniteSet(Threads)
  BY AccountsAssumption
<1>2. IsFiniteSet(1..seq.users) /\ founders \subseteq 1..seq.users
  <2>1. seq.users \in Nat
    BY IdsTyped
  <2>2. IsFiniteSet(1..seq.users)
    BY <2>1, FS_Interval
  <2> QED
    BY <2>2 DEF Keys, History
<1>3. IsFiniteSet(founders) /\ IsFiniteSet(founders \cap Live(user))
  BY <1>2, FS_Subset
<1>4. IsFiniteSet(Founding)
  BY <1>1, FS_Subset DEF Founding
<1> QED
  BY <1>1, <1>3, <1>4, FS_CardinalityType

LEMMA CrowdKept ==
    ASSUME Keys, Keys', FoundersChosen, Crowd, [Next]_vars
    PROVE  Crowd'
<1> DEFINE F == founders \cap Live(user)
           n == Cardinality(Threads)
<1>1. IsFiniteSet(F) /\ IsFiniteSet(Founding) /\ IsFiniteSet(Threads) /\ Cardinality(F) \in Nat /\ Cardinality(Founding) \in Nat
      /\ n \in Nat
  BY FoundersFinite
<1>2. Cardinality(F) + Cardinality(Founding) <= n
  BY DEF Crowd
<1>3. ASSUME NEW G, NEW H, G \subseteq F, H \subseteq Founding
      PROVE  Cardinality(G) + Cardinality(H) <= n
  <2>1. Cardinality(G) <= Cardinality(F) /\ Cardinality(H) <= Cardinality(Founding)
    BY <1>1, <1>3, FS_Subset
  <2>2. Cardinality(G) \in Nat /\ Cardinality(H) \in Nat
    BY <1>1, <1>3, FS_Subset, FS_CardinalityType
  <2> QED
    BY <1>1, <1>2, <2>1, <2>2
<1>4. ASSUME NEW t \in Threads, pc'[t] = "insuser", req'[t].op = "register", req'[t].role = "server_owner", t \notin Founding
      PROVE  Count(t) /\ Live(user) = {}
  <2>1. Count(t)
    BY <1>4, PhasesEntered DEF Founding
  <2>2. req'[t] = [req[t] EXCEPT !.role = FirstRole] /\ req[t] \in Requests
    BY <2>1, RequestOf DEF Count
  <2>3. req'[t].role = FirstRole
    BY <2>2 DEF Requests
  <2> QED
    BY <1>4, <2>1, <2>3 DEF FirstRole
<1>5. CASE \E t \in Threads : Count(t) /\ Live(user) = {}
  <2>1. Live(user') = {}
    BY <1>5 DEF Count, tables
  <2>2. founders' \cap Live(user') = {} /\ Founding' \subseteq Threads
    BY <2>1 DEF Founding
  <2>3. Cardinality(founders' \cap Live(user')) = 0
    BY <2>2, FS_EmptySet
  <2>4. Cardinality(Founding') <= n /\ Cardinality(Founding') \in Nat
    BY <1>1, <2>2, FS_Subset, FS_CardinalityType
  <2> QED
    BY <1>1, <2>3, <2>4 DEF Crowd
<1>6. CASE Founding' \subseteq Founding
  <2>1. CASE UNCHANGED founders /\ seq'.users = seq.users
    <3>1. founders' \cap Live(user') \subseteq F
      <4>1. founders \subseteq 1..seq.users
        BY DEF Keys, History
      <4>2. \A u \in 1..seq.users : u \in Live(user') => u \in Live(user)
        BY NamesKept
      <4> QED
        BY <2>1, <4>1, <4>2
    <3> QED
      BY <1>3, <1>6, <3>1 DEF Crowd
  <2>2. CASE \E t \in Threads : InsertUser(t) /\ Named(req[t].name) = {}
    <3>1. PICK t \in Threads : InsertUser(t) /\ Named(req[t].name) = {}
      BY <2>2
    <3>2. PICK r \in Requests : r = req[t]
      BY RequestOf
    <3>3. PICK status \in {"active", "pending"} :
            status = IF r.op = "register" /\ r.role = "pending" THEN "pending" ELSE "active"
      OBVIOUS
    <3>4. PICK id \in UserIds : id = seq.users + 1
      BY <3>1, UserInserted
    <3>5. /\ id \notin Live(user) /\ Live(user') = Live(user) \cup {id}
          /\ founders' = IF r.op = "register" /\ status = "active" THEN founders \cup {id} ELSE founders
      BY <3>1, <3>2, <3>3, <3>4, UserInserted
    <3>6. id \notin founders
      <4>1. founders \subseteq 1..seq.users /\ seq.users \in Nat
        BY IdsTyped DEF Keys, History
      <4>2. id \notin 1..seq.users
        BY <3>4, <4>1
      <4> QED
        BY <4>1, <4>2
    <3>7. CASE ~(r.op = "register" /\ status = "active")
      <4>1. founders' \cap Live(user') \subseteq F
        BY <3>5, <3>6, <3>7
      <4> QED
        BY <1>3, <1>6, <4>1 DEF Crowd
    <3>8. CASE r.op = "register" /\ status = "active"
      <4>1. t \in Founding
        BY <3>1, <3>2, <3>3, <3>8 DEF FoundersChosen, Founding, InsertUser
      <4>2. t \notin Founding'
        <5>1. pc'[t] \in {"idle", "rowid"}
          BY <3>1, RequestOf DEF InsertUser, Done, Next1, Goto
        <5> QED
          BY <5>1 DEF Founding
      <4>3. founders' \cap Live(user') = F \cup {id} /\ Founding' \subseteq Founding \ {t}
        BY <1>6, <3>5, <3>6, <3>8, <4>2
      <4>4. Cardinality(F \cup {id}) = Cardinality(F) + 1
        BY <1>1, <3>6, FS_AddElement
      <4>5. /\ Cardinality(Founding \ {t}) = Cardinality(Founding) - 1 /\ IsFiniteSet(Founding \ {t})
            /\ Cardinality(Founding \ {t}) \in Nat
        BY <1>1, <4>1, FS_RemoveElement, FS_CardinalityType
      <4>6. Cardinality(Founding') <= Cardinality(Founding \ {t}) /\ Cardinality(Founding') \in Nat
        BY <4>3, <4>5, FS_Subset, FS_CardinalityType
      <4>7. Cardinality(founders' \cap Live(user')) = Cardinality(F) + 1
        BY <4>3, <4>4
      <4> HIDE DEF F, n
      <4>8. Cardinality(founders' \cap Live(user')) + Cardinality(Founding') <= n
        BY <1>1, <1>2, <4>5, <4>6, <4>7
      <4> QED
        BY <4>8 DEF Crowd, n
    <3> QED
      BY <3>7, <3>8
  <2> QED
    BY <2>1, <2>2, UserIdsKept
<1>7. CASE ~(Founding' \subseteq Founding)
  BY <1>4, <1>5, <1>7 DEF Founding
<1> QED
  BY <1>6, <1>7

LEMMA InitCrowd == Init => Crowd /\ FoundersChosen
<1> SUFFICES ASSUME Init PROVE Crowd /\ FoundersChosen
  OBVIOUS
<1>1. founders \cap Live(user) = {} /\ Founding = {}
  BY DEF Init, Founding
<1>2. Cardinality(Threads) \in Nat
  BY AccountsAssumption, FS_CardinalityType
<1>3. Cardinality(founders \cap Live(user)) = 0 /\ Cardinality(Founding) = 0
  BY <1>1, FS_EmptySet
<1>4. Crowd
  BY <1>2, <1>3 DEF Crowd
<1> QED
  BY <1>4 DEF Init, FoundersChosen

--------------------------------------------------------------------------------
(* Who owns the panel, its servers and its tokens.                          *)

Inv == Keys /\ Drawn /\ LoginSure /\ TokenIsOwn /\ Undisturbed /\ FoundersChosen /\ Crowd

LEMMA InvInductive == Spec => []Inv
<1>1. Init => Inv
  BY InitKeys, InitTokens, InitUndisturbed, InitCrowd DEF Inv
<1>2. Inv /\ [Next]_vars => Inv'
  BY KeysInduction, DrawnKept, LoginSureKept, TokensKept, UndisturbedKept, FoundersChosenKept, CrowdKept DEF Inv
<1> QED
  BY <1>1, <1>2, PTL DEF Spec

LEMMA InvOwners == Inv => OwnersKept
<1> SUFFICES ASSUME Inv PROVE OwnersKept
  OBVIOUS
<1>1. Cardinality(founders \cap Live(user)) <= Cardinality(Threads)
  BY FoundersFinite DEF Inv, Crowd
<1>2. raced \/ misspelt \/ Cardinality(founders) <= 1
  <2>1. CASE founders = {}
    BY <2>1, FS_EmptySet
  <2>2. CASE \E u \in founders : founders = {u}
    <3>1. Cardinality(founders) = 1
      BY <2>2, FS_Singleton
    <3> QED
      BY <3>1
  <2> QED
    BY <2>1, <2>2 DEF Inv, Undisturbed, Quiet, OneFounder
<1>3. OwnersRemain
  BY DEF Inv, Undisturbed, Quiet, OwnersRemain
<1> QED
  BY <1>1, <1>2, <1>3 DEF OwnersKept, FoundersBounded

LEMMA InvServers == Inv => ServersOwned /\ DeletedIsGone
<1> SUFFICES ASSUME Inv PROVE ServersOwned /\ DeletedIsGone
  OBVIOUS
<1>1. ServersOwned
  <2>1. CASE raced \/ misspelt \/ stopped \/ deleted # {}
    BY <2>1 DEF ServersOwned
  <2>2. CASE \A s \in Live(server) : Owned(s) \/ \E t \in Threads : Makes(t, s) \/ Deletes(t)
    <3>1. \A t \in Threads : \A s : Makes(t, s) \/ Deletes(t) => req[t].op \in {"create", "delete"}
      BY DEF Makes, Deletes
    <3> QED
      BY <2>2, <3>1, Zenon DEF ServersOwned, Owned
  <2> QED
    BY <2>1, <2>2 DEF Inv, Undisturbed, Quiet, ServersKept
<1>2. DeletedIsGone
  BY DEF Inv, Undisturbed, Quiet, DeletedIsGone
<1> QED
  BY <1>1, <1>2

\* A token opens the account it was handed out for: always when login issued it, and
\* from a registration as long as no two requests have overlapped
\* (auth_handler.cpp:60, the id of the shared connection's last insert).
THEOREM TokensAreOwn == Spec => []TokenIsOwn
<1>1. Inv => TokenIsOwn
  BY DEF Inv
<1> QED
  BY <1>1, InvInductive, PTL

\* The panel never loses its last owner while requests do not overlap and no owner acts
\* on his own account under another spelling of its id, and it has no more founders at a
\* time than threads that register (auth_handler.cpp:43, admin_handler.cpp:208, 227).
THEOREM OwnersStay == Spec => []OwnersKept
  BY InvOwners, InvInductive, PTL

\* Every server has an owner, or the request that makes its creator one is under way
\* (server_handler.cpp:85), unless requests overlapped, an owner's own id was spelt
\* otherwise (server_handler.cpp:232, 254), an account was deleted, or a crash stopped a
\* creation or a deletion; a crash at any other time changes nothing of it.
THEOREM ServersStayOwned == Spec => []ServersOwned
<1>1. Inv => ServersOwned
  BY InvServers
<1> QED
  BY <1>1, InvInductive, PTL

\* Whoever was reported as deleted, with no server he created and no plugin he added left,
\* is gone, unless requests overlapped (admin_handler.cpp:213-216).
THEOREM DeletedUsersAreGone == Spec => []DeletedIsGone
<1>1. Inv => DeletedIsGone
  BY InvServers
<1> QED
  BY <1>1, InvInductive, PTL

--------------------------------------------------------------------------------
(* The attempts that are let through.                                       *)

\* What an address was let through since k ticks ago, less one limit for each crash since.
\* In the open window, counted from its first attempt, it is what the window counts; before
\* it lie attempts of one other window at most, and not that window's first, which is longer
\* ago than a window lasts.
Tally ==
    /\ recent \in [0..Window -> Nat] /\ forgotten \in [0..Window -> Nat]
    /\ IF limit.age > Window
       THEN recent[0] <= forgotten[0] /\ \A k \in 0..Window : recent[k] < MaxAttempts + forgotten[k]
       ELSE /\ limit.count > 0
            /\ \A k \in 0..Window :
                 /\ k < limit.age => recent[k] < limit.count + forgotten[k]
                 /\ k = limit.age => recent[k] <= limit.count + forgotten[k]
                 /\ recent[k] < limit.count + MaxAttempts + forgotten[k]

\* The steps that touch the limit.
LEMMA LimitChanges ==
    ASSUME [Next]_vars
    PROVE  UNCHANGED limiter \/ Attempt \/ Tick \/ Crash
<1>1. ASSUME NEW t \in Threads, NEW n \in Names, Register(t, n) \/ Login(t, n)
      PROVE  UNCHANGED limiter \/ Attempt
  BY <1>1 DEF Register, Login
<1>2. ASSUME NEW t \in Threads,
             \/ Count(t) \/ InsertUser(t) \/ RowId(t) \/ InsertSession(t) \/ DropSession(t)
             \/ SetStatus(t) \/ SetRole(t) \/ DeletePerms(t) \/ InsertPerms(t)
             \/ CheckTarget(t) \/ Override(t)
      PROVE  UNCHANGED limiter
  BY <1>2 DEF Count, InsertUser, RowId, InsertSession, DropSession, SetStatus, SetRole, DeletePerms, InsertPerms,
              CheckTarget, Override, rest
<1>3. ASSUME NEW t \in Threads,
             \/ DeleteSessions(t) \/ DeleteMemberships(t) \/ DeleteUser(t)
             \/ InsertServer(t) \/ InsertCreator(t) \/ CheckAllowed(t) \/ ActOnServer(t) \/ AddPlugin(t) \/ DropPlugin(t)
      PROVE  UNCHANGED limiter
  BY <1>3 DEF DeleteSessions, DeleteMemberships, DeleteUser, InsertServer, InsertCreator, CheckAllowed,
              ActOnServer, AddPlugin, DropPlugin, rest
<1>4. ASSUME NEW t \in Threads, NEW k \in Tokens, NEW r, NEW phase, Authenticated(t, k, r, phase)
      PROVE  UNCHANGED limiter
  BY <1>4 DEF Authenticated
<1>5. CASE LoginFails \/ Tick \/ Cleanup \/ InsertElsewhere \/ Crash \/ UNCHANGED vars
  BY <1>5 DEF LoginFails, Cleanup, InsertElsewhere, vars, rest
<1> QED
  BY <1>1, <1>2, <1>3, <1>4, <1>5, NextCases, Zenon

LEMMA TallyOpen ==
    ASSUME recent' \in [0..Window -> Nat], forgotten' \in [0..Window -> Nat],
           ~(limit'.age > Window), limit'.count > 0,
           \A k \in 0..Window :
                 /\ k < limit'.age => recent'[k] < limit'.count + forgotten'[k]
                 /\ k = limit'.age => recent'[k] <= limit'.count + forgotten'[k]
                 /\ recent'[k] < limit'.count + MaxAttempts + forgotten'[k]
    PROVE  Tally'
  BY Zenon DEF Tally

LEMMA TallyShut ==
    ASSUME recent' \in [0..Window -> Nat], forgotten' \in [0..Window -> Nat],
           limit'.age > Window, recent'[0] <= forgotten'[0],
           \A k \in 0..Window : recent'[k] < MaxAttempts + forgotten'[k]
    PROVE  Tally'
  BY Zenon DEF Tally

LEMMA TallyKept ==
    ASSUME Keys, Tally, [Next]_vars
    PROVE  Tally'
<1> DEFINE a == limit.age
           c == limit.count
<1>1. /\ Window \in Nat /\ MaxAttempts \in Nat \ {0}
      /\ limit \in [age : 0..(Window + 1), count : 0..MaxAttempts]
  BY AccountsAssumption DEF Keys, Control
<1>2. a \in 0..(Window + 1) /\ c \in 0..MaxAttempts /\ 0 \in 0..Window
  BY <1>1
<1>3. CASE UNCHANGED limiter
  BY <1>3 DEF Tally, limiter
<1>4. recent \in [0..Window -> Nat] /\ forgotten \in [0..Window -> Nat]
  BY DEF Tally
<1>5. ASSUME a > Window
      PROVE  recent[0] <= forgotten[0] /\ \A k \in 0..Window : recent[k] < MaxAttempts + forgotten[k]
  BY <1>5 DEF Tally
<1> DEFINE Open(k) == /\ k < a => recent[k] < c + forgotten[k]
                      /\ k = a => recent[k] <= c + forgotten[k]
                      /\ recent[k] < c + MaxAttempts + forgotten[k]
<1>6. ~(a > Window) => c > 0 /\ \A k \in 0..Window : Open(k)
  BY DEF Tally
<1>7. CASE Attempt
  <2>1. recent' = [k \in 0..Window |-> recent[k] + 1] /\ forgotten' = forgotten
    BY <1>7 DEF Attempt
  <2>2. /\ recent' \in [0..Window -> Nat] /\ forgotten' \in [0..Window -> Nat]
        /\ \A k \in 0..Window : recent'[k] = recent[k] + 1 /\ recent[k] \in Nat /\ forgotten[k] \in Nat
    BY <1>4, <2>1
  <2>3. CASE a > Window
    <3>1. limit' = [age |-> 0, count |-> 1]
      BY <1>7, <2>3 DEF Attempt
    <3>2. limit'.age = 0 /\ limit'.count = 1
      BY <3>1
    <3>3. ~(limit'.age > Window) /\ limit'.count > 0
      BY <1>1, <3>2
    <3>4. ASSUME NEW k \in 0..Window
          PROVE  /\ k < limit'.age => recent'[k] < limit'.count + forgotten'[k]
                 /\ k = limit'.age => recent'[k] <= limit'.count + forgotten'[k]
                 /\ recent'[k] < limit'.count + MaxAttempts + forgotten'[k]
      <4>1. recent[k] \in Nat /\ forgotten[k] \in Nat /\ MaxAttempts \in Nat \ {0} /\ k >= 0
        BY <1>1, <2>2
      <4>2. recent[k] < MaxAttempts + forgotten[k] /\ (k = 0 => recent[k] <= forgotten[k])
        BY <1>5, <2>3
      <4>3. recent'[k] = recent[k] + 1 /\ forgotten'[k] = forgotten[k]
        BY <2>1, <2>2
      <4> QED
        BY <3>2, <4>1, <4>2, <4>3
    <3> QED
      BY <2>2, <3>3, <3>4, TallyOpen
  <2>4. CASE ~(a > Window)
    <3>1. limit' = [limit EXCEPT !.count = @ + 1]
      BY <1>7, <2>4 DEF Attempt
    <3>2. limit'.age = a /\ limit'.count = c + 1
      BY <1>1, <3>1
    <3>3. ~(limit'.age > Window) /\ limit'.count > 0
      BY <1>2, <2>4, <3>2
    <3>4. ASSUME NEW k \in 0..Window
          PROVE  /\ k < limit'.age => recent'[k] < limit'.count + forgotten'[k]
                 /\ k = limit'.age => recent'[k] <= limit'.count + forgotten'[k]
                 /\ recent'[k] < limit'.count + MaxAttempts + forgotten'[k]
      <4>1. recent[k] \in Nat /\ forgotten[k] \in Nat /\ c \in Nat /\ MaxAttempts \in Nat
        BY <1>1, <1>2, <2>2
      <4>2. Open(k)
        <5> HIDE DEF Open
        <5> QED
          BY <1>6, <2>4
      <4>3. recent'[k] = recent[k] + 1 /\ forgotten'[k] = forgotten[k]
        BY <2>1, <2>2
      <4>4. a \in Nat /\ k \in Nat
        BY <1>2
      <4> HIDE DEF a, c
      <4> QED
        BY <3>2, <4>1, <4>2, <4>3, <4>4
    <3> QED
      BY <2>2, <3>3, <3>4, TallyOpen
  <2> QED
    BY <2>3, <2>4
<1>8. CASE Tick
  <2>1. /\ recent' = [k \in 0..Window |-> IF k = 0 THEN 0 ELSE recent[k - 1]]
        /\ forgotten' = [k \in 0..Window |-> IF k = 0 THEN 0 ELSE forgotten[k - 1]]
        /\ limit' = IF a > Window THEN limit ELSE [limit EXCEPT !.age = @ + 1]
    BY <1>8 DEF Tick
  <2>2. \A k \in 0..Window : k # 0 => k - 1 \in 0..Window /\ recent[k - 1] \in Nat /\ forgotten[k - 1] \in Nat
    BY <1>1, <1>4
  <2>3. /\ recent' \in [0..Window -> Nat] /\ recent'[0] = 0
        /\ \A k \in 0..Window : k # 0 => recent'[k] = recent[k - 1]
    BY <1>2, <2>1, <2>2
  <2>4. /\ forgotten' \in [0..Window -> Nat] /\ forgotten'[0] = 0
        /\ \A k \in 0..Window : k # 0 => forgotten'[k] = forgotten[k - 1]
    BY <1>2, <2>1, <2>2
  <2>5. recent'[0] <= forgotten'[0]
    BY <2>3, <2>4
  <2>6. CASE a > Window
    <3>1. limit' = limit
      BY <2>1, <2>6
    <3>2. ASSUME NEW k \in 0..Window PROVE recent'[k] < MaxAttempts + forgotten'[k]
      <4>1. CASE k = 0
        BY <1>1, <2>3, <2>4, <4>1
      <4>2. CASE k # 0
        BY <1>5, <2>2, <2>3, <2>4, <2>6, <4>2
      <4> QED
        BY <4>1, <4>2
    <3> QED
      BY <2>3, <2>4, <2>5, <2>6, <3>1, <3>2, TallyShut
  <2>7. CASE ~(a > Window)
    <3>1. limit'.age = a + 1 /\ limit'.count = c
      BY <1>1, <2>1, <2>7
    <3>2. ASSUME NEW k \in 0..Window
          PROVE  /\ k < a + 1 => recent'[k] < c + forgotten'[k]
                 /\ k = a + 1 => recent'[k] <= c + forgotten'[k]
                 /\ recent'[k] < c + MaxAttempts + forgotten'[k]
      <4>1. CASE k = 0
        <5>1. recent'[k] = 0 /\ forgotten'[k] = 0 /\ c > 0
          BY <1>6, <2>3, <2>4, <2>7, <4>1
        <5> QED
          BY <1>1, <1>2, <4>1, <5>1
      <4>2. CASE k # 0
        <5>1. /\ recent'[k] = recent[k - 1] /\ forgotten'[k] = forgotten[k - 1]
              /\ k - 1 \in 0..Window /\ k \in Nat
          BY <2>2, <2>3, <2>4, <4>2
        <5>2. Open(k - 1)
          <6> HIDE DEF Open
          <6> QED
            BY <1>6, <2>7, <5>1
        <5> QED
          BY <1>2, <5>1, <5>2
      <4> QED
        BY <4>1, <4>2
    <3>3. CASE a + 1 > Window
      <4>1. ASSUME NEW k \in 0..Window PROVE recent'[k] < MaxAttempts + forgotten'[k]
        <5>1. k < a + 1 /\ c \in 0..MaxAttempts /\ recent'[k] \in Nat /\ forgotten'[k] \in Nat
          BY <1>1, <1>2, <2>3, <2>4, <3>3
        <5>2. recent'[k] < c + forgotten'[k]
          BY <3>2, <5>1
        <5> QED
          BY <1>1, <5>1, <5>2
      <4> QED
        BY <2>3, <2>4, <2>5, <3>1, <3>3, <4>1, TallyShut
    <3>4. CASE ~(a + 1 > Window)
      <4>1. c > 0
        BY <1>6, <2>7
      <4> QED
        BY <2>3, <2>4, <3>1, <3>2, <3>4, <4>1, TallyOpen
    <3> QED
      BY <3>3, <3>4
  <2> QED
    BY <2>6, <2>7
<1>9. CASE Crash
  <2>1. limit' = NoLimit /\ recent' = recent /\ forgotten' = [k \in 0..Window |-> forgotten[k] + MaxAttempts]
    BY <1>9 DEF Crash
  <2>2. /\ forgotten' \in [0..Window -> Nat]
        /\ \A k \in 0..Window : forgotten'[k] = forgotten[k] + MaxAttempts /\ recent[k] \in Nat /\ forgotten[k] \in Nat
    BY <1>1, <1>4, <2>1
  <2>3. limit'.age > Window
    BY <1>1, <2>1 DEF NoLimit
  <2>4. recent[0] <= forgotten[0] + MaxAttempts
        /\ \A k \in 0..Window : recent[k] < MaxAttempts + forgotten[k] + MaxAttempts
    <3>1. CASE a > Window
      BY <1>1, <1>2, <1>5, <2>2, <3>1
    <3>2. CASE ~(a > Window)
      <4>1. \A k \in 0..Window : Open(k)
        <5> HIDE DEF Open
        <5> QED
          BY <1>6, <3>2
      <4>2. c \in Nat /\ c <= MaxAttempts /\ a \in Nat /\ MaxAttempts \in Nat
        BY <1>1, <1>2
      <4>3. \A k \in 0..Window : recent[k] < c + MaxAttempts + forgotten[k]
        BY <4>1
      <4>4. recent[0] <= c + forgotten[0]
        <5>1. Open(0)
          <6> HIDE DEF Open
          <6> QED
            BY <1>2, <4>1
        <5>2. recent[0] \in Nat /\ forgotten[0] \in Nat
          BY <1>2, <2>2
        <5> HIDE DEF a, c
        <5> QED
          BY <4>2, <5>1, <5>2
      <4> HIDE DEF a, c
      <4>5. ASSUME NEW k \in 0..Window PROVE recent[k] < MaxAttempts + forgotten[k] + MaxAttempts
        BY <2>2, <4>2, <4>3
      <4> QED
        BY <1>2, <2>2, <4>2, <4>4, <4>5
    <3> QED
      BY <3>1, <3>2
  <2>5. /\ recent'[0] <= forgotten'[0]
        /\ \A k \in 0..Window : recent'[k] < MaxAttempts + forgotten'[k]
    BY <1>1, <1>2, <2>1, <2>2, <2>4
  <2> QED
    BY <1>4, <2>1, <2>2, <2>3, <2>5, TallyShut
<1> QED
  BY <1>3, <1>7, <1>8, <1>9, LimitChanges

\* An address is let through less than twice as often as the limit in any stretch as
\* long as the window, over the border of two windows too (auth.cpp:189-202), and once
\* the limit more for every restart in the stretch, which forgets the count.
THEOREM AttemptsLimited == Spec => []AttemptsBounded
<1>1. Init => Tally
  BY AccountsAssumption DEF Init, Tally, NoLimit
<1>2. Keys /\ Tally /\ [Next]_vars => Keys' /\ Tally'
  BY KeysInduction, TallyKept
<1>3. Keys /\ Tally => AttemptsBounded
  <2> SUFFICES ASSUME Keys, Tally PROVE AttemptsBounded
    OBVIOUS
  <2>1. /\ Window \in 0..Window /\ MaxAttempts \in Nat \ {0}
        /\ limit.count \in 0..MaxAttempts /\ recent[Window] \in Nat /\ forgotten[Window] \in Nat
    BY AccountsAssumption DEF Keys, Control, Tally
  <2> QED
    BY <2>1 DEF Tally, AttemptsBounded
<1> QED
  BY <1>1, <1>2, <1>3, InitKeys, PTL DEF Spec
================================================================================

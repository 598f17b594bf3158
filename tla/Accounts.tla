--------------------------------- MODULE Accounts ---------------------------------
(***************************************************************************)
(* Accounts, sessions, permissions and server memberships of the panel.     *)
(*                                                                         *)
(* Every HTTP request runs on a thread of its own.  registerRoute's wrapper *)
(* looks the token up once and copies the user's id and role; the handler   *)
(* then runs several autocommitted statements on the tables and never looks *)
(* the role up again.  All threads share one SQLite connection, whose last  *)
(* row id is whatever any of them inserted last, and a statement that a     *)
(* UNIQUE or FOREIGN KEY constraint refuses fails without an error.         *)
(* Requests that are refused at once change nothing and are stuttering.     *)
(***************************************************************************)
EXTENDS Integers, FiniteSets, FiniteSetsExt

CONSTANTS
    Threads,       \* HTTP worker threads
    Names,         \* user names
    MaxUsers, MaxServers, MaxTokens,   \* bounds: rows inserted into each table
    Snapshots,     \* the databases a run starts from, with bounds on the
                   \* requests and the failed logins that follow
    Lifetime,      \* ticks a session lives (7 days)
    Window,        \* RATE_LIMIT_WINDOW_MS, in ticks
    MaxAttempts,   \* RATE_LIMIT_MAX_ATTEMPTS
    MaxCrashes     \* bound: crashes of the process

ASSUME AccountsAssumption ==
    /\ {MaxUsers, MaxServers, MaxTokens, Lifetime, Window, MaxCrashes} \subseteq Nat
    /\ MaxAttempts \in Nat \ {0}
    /\ IsFiniteSet(Threads) /\ IsFiniteSet(Names)

UserIds == 1..MaxUsers
ServerIds == 1..MaxServers
Tokens == 1..MaxTokens
Absent == [absent |-> TRUE]        \* no row with this key

Live(table) == {k \in DOMAIN table : table[k] # Absent}

Roles == {"server_owner", "op", "pending"}
MemberRoles == {"owner", "admin", "member"}
Users == [name : Names, role : Roles, status : {"active", "pending", "rejected"}]

\* What the schema says of the tables users, sessions, servers, server_members and plugins:
\* the types of their columns, the names that are UNIQUE, and the foreign keys.
Schema(users, sessions, servers, membership, addons) ==
    /\ users \in [UserIds -> Users \cup {Absent}]
    /\ \A u, v \in Live(users) : users[u].name = users[v].name => u = v
    /\ sessions \in [Tokens -> [user : Live(users), left : -1..Lifetime] \cup {Absent}]
    /\ servers \in [ServerIds -> [creator : Live(users)] \cup {Absent}]
    /\ membership \in [DOMAIN membership -> MemberRoles]
    /\ DOMAIN membership \subseteq Live(servers) \X Live(users)
    /\ addons \subseteq Live(users) \X Live(servers)

\* A run starts from databases that requests have left which ran one after the other
\* and neither deleted nor rejected anybody: rows are numbered as they were inserted,
\* the panel has an owner as soon as it has users (auth_handler.cpp:43), and so has
\* every server (server_handler.cpp:85).
ASSUME SnapshotsAssumption ==
    \A s \in Snapshots :
        /\ Schema(s.user, s.session, s.server, s.members, s.plugins)
        /\ \A table \in {s.user, s.session, s.server} : Live(table) = 1..Cardinality(Live(table))
        /\ Live(s.user) # {} => \E u \in Live(s.user) : s.user[u].role = "server_owner" /\ s.user[u].status = "active"
        /\ \A k \in Live(s.server) : \E m \in DOMAIN s.members : m[1] = k /\ s.members[m] = "owner"
        /\ s.requests \in Nat /\ s.guesses \in Nat

VARIABLES
    user,      \* table users: id -> name, role and status
    perms,     \* table user_permissions: <<user, "default" or "override">>
    session,   \* table sessions: token -> user and ticks until expiresAt
    server,    \* table servers: id -> the user who created it
    members,   \* table server_members: <<server, user>> -> role, a partial function
    plugins,   \* table plugins: <<user who added one, its server>>
    seq,       \* sqlite_sequence: the last id of users and of servers
    lastId,    \* sqlite3_last_insert_rowid of the shared connection
    pc, req,   \* of each thread: its next statement and its request
    limit,     \* rateLimits_: age of the window and attempts in it
    recent,    \* history: attempts admitted in the last k ticks and now, for k in 0..Window
    forgotten, \* history: MaxAttempts for each crash in the last k ticks and now
    issued,    \* history: for each token drawn, the name it was handed to and how
    founders, deleted,    \* history: users registered as owner; users reported as deleted,
                           \* and whether a server they created or a plugin of theirs was there
    raced,     \* history: two requests overlapped
    misspelt,  \* history: a request passed for another user's, its own id spelt otherwise
    stopped,   \* history: a crash has stopped the creation of a server or the deletion of a user
    requests, guesses, crashes   \* bounds: requests and failed logins left, crashes

tables == <<user, perms, session, server, members, plugins, seq>>
history == <<issued, founders, deleted>>
bounds == <<raced, misspelt, stopped, requests, guesses, crashes>>
limiter == <<limit, recent, forgotten>>
rest == <<limiter, history, bounds>>   \* all a statement leaves alone
vars == <<tables, lastId, pc, req, rest>>

NoReq == [op |-> "none", me |-> 0, user |-> 0, name |-> "", role |-> "", server |-> 0, id |-> 0, self |-> FALSE]
NoLimit == [age |-> Window + 1, count |-> 0]

Init ==
    /\ \E s \in Snapshots :
         /\ user = s.user /\ session = s.session /\ server = s.server /\ members = s.members /\ plugins = s.plugins
         /\ requests = s.requests /\ guesses = s.guesses
         /\ issued = [k \in DOMAIN s.session |-> IF s.session[k] = Absent THEN Absent
                         ELSE [name |-> s.user[s.session[k].user].name, by |-> "login"]]
    /\ perms = {} /\ lastId = 0
    /\ seq = [users |-> Cardinality(Live(user)), servers |-> Cardinality(Live(server))]
    /\ pc = [t \in Threads |-> "idle"] /\ req = [t \in Threads |-> NoReq]
    /\ limit = NoLimit /\ recent = [k \in 0..Window |-> 0] /\ forgotten = recent
    /\ founders = {} /\ deleted = {} /\ raced = FALSE /\ misspelt = FALSE /\ stopped = FALSE
    /\ crashes = 0

Named(n) == {u \in Live(user) : user[u].name = n}
IsActiveOwner(u) == u \in Live(user) /\ user[u].role = "server_owner" /\ user[u].status = "active"

\* Tokens are random, none is drawn twice.
NextToken == Cardinality(Live(issued)) + 1

Goto(t, phase) == pc' = [pc EXCEPT ![t] = phase]
Done(t) == Goto(t, "idle") /\ req' = [req EXCEPT ![t] = NoReq]
Next1(t, phase) == Goto(t, phase) /\ UNCHANGED req

\* Whoever is about to ask for the last row id sees the id of any row inserted meanwhile.
RowElsewhere ==
    IF \E t \in Threads : pc[t] = "rowid" THEN lastId' \in UserIds \cup ServerIds ELSE lastId' = 0

\* A request starts: r is its record, phase its first statement.
Start(t, r, phase) ==
    /\ pc[t] = "idle" /\ requests > 0
    /\ requests' = requests - 1
    /\ Goto(t, phase) /\ req' = [req EXCEPT ![t] = r]
    /\ raced' = (raced \/ \E u \in Threads : pc[u] # "idle")
    /\ UNCHANGED <<stopped, guesses, crashes>>

--------------------------------------------------------------------------------
(* Registration, login and logout.                                          *)

\* POST /api/auth/register: the name is free.
Register(t, n) ==
    /\ Named(n) = {}
    /\ Start(t, [NoReq EXCEPT !.op = "register", !.name = n], "count")
    /\ UNCHANGED <<tables, lastId, misspelt, limiter, history>>

\* SELECT COUNT(*) FROM users: the first user owns the panel, others wait.
FirstRole == IF Live(user) = {} THEN "server_owner" ELSE "pending"

Count(t) ==
    /\ pc[t] = "count"
    /\ req' = [req EXCEPT ![t].role = FirstRole]
    /\ Goto(t, "insuser")
    /\ UNCHANGED <<tables, lastId, rest>>

\* INSERT INTO users, by a registration or by POST /api/admin/users/add.  A name
\* taken meanwhile makes it fail, and the handler goes on as if it had not.
InsertUser(t) ==
    LET r == req[t]
        id == seq.users + 1
        self == r.op = "register"
        status == IF self /\ r.role = "pending" THEN "pending" ELSE "active"
    IN  /\ pc[t] = "insuser"
        /\ IF Named(r.name) # {} THEN UNCHANGED <<user, seq, lastId, founders>>
           ELSE /\ seq.users < MaxUsers
                /\ seq' = [seq EXCEPT !.users = @ + 1]
                /\ user' = [user EXCEPT ![id] = [name |-> r.name, role |-> r.role, status |-> status]]
                /\ lastId' = id
                /\ founders' = IF self /\ status = "active" THEN founders \cup {id} ELSE founders
        /\ IF status = "pending" THEN Done(t) ELSE Next1(t, "rowid")
        /\ UNCHANGED <<perms, session, server, members, plugins, limiter, issued, deleted, bounds>>

\* lastInsertId().
RowId(t) ==
    /\ pc[t] = "rowid"
    /\ req' = [req EXCEPT ![t].id = lastId]
    /\ Goto(t, CASE req[t].op = "register" -> "session"
                 [] req[t].op = "create" -> "member"
                 [] OTHER -> "perms")
    /\ UNCHANGED <<tables, lastId, rest>>

\* Mutant of SessionUser: the user is the last one inserted, as registration has it.
LastUser(r) == seq.users

SessionUser(r) == r.id

\* INSERT INTO sessions, with a token nobody has had; the user must exist.
InsertSession(t) ==
    LET r == req[t]
        token == NextToken
    IN  /\ pc[t] = "session" /\ token <= MaxTokens
        /\ issued' = [issued EXCEPT ![token] = [name |-> r.name, by |-> r.op]]
        /\ session' = IF SessionUser(r) \in Live(user)
                      THEN [session EXCEPT ![token] = [user |-> SessionUser(r), left |-> Lifetime]] ELSE session
        /\ RowElsewhere /\ Done(t)
        /\ UNCHANGED <<user, perms, server, members, plugins, seq, limiter, founders, deleted, bounds>>

\* Mutant of Admitted: one past the limit.
AdmittedOneMore == limit.age > Window \/ limit.count <= MaxAttempts

\* Auth::checkRateLimit, under its mutex.
Admitted == limit.age > Window \/ limit.count < MaxAttempts

Attempt ==
    /\ Admitted
    /\ limit' = IF limit.age > Window THEN [age |-> 0, count |-> 1] ELSE [limit EXCEPT !.count = @ + 1]
    /\ recent' = [k \in 0..Window |-> recent[k] + 1] /\ UNCHANGED forgotten

\* POST /api/auth/login by an active user who knows the password ...
Login(t, n) ==
    /\ Attempt
    /\ \E u \in Named(n) :
         /\ user[u].status \notin {"pending", "rejected"}
         /\ Start(t, [NoReq EXCEPT !.op = "login", !.name = n, !.id = u], "session")
    /\ UNCHANGED <<tables, lastId, misspelt, history>>

\* ... and by anyone else: the attempt is all that remains of it.
LoginFails ==
    /\ guesses > 0 /\ guesses' = guesses - 1
    /\ Attempt
    /\ UNCHANGED <<tables, lastId, pc, req, history, raced, misspelt, stopped, requests, crashes>>

\* Auth::getSession: the token's row, joined with an active user, not expired.
Authenticates(token) ==
    /\ session[token] # Absent
    /\ user[session[token].user].status = "active"
    /\ session[token].left >= 0

\* The requests that compare their target with the user who sends them.
Comparing == {"delete", "role", "permissions", "change", "remove"}

\* The request's copy of the session, taken when it starts.  r.self is what the handler's
\* userId == ctx.userId says: it compares the digits of the path with those of the id,
\* where the statements compare numbers, so "01" is not "1" and yet names its row.
Authenticated(t, token, r, phase) ==
    LET me == session[token].user IN
    /\ Authenticates(token)
    /\ r.self => r.user = me
    /\ r.user = me /\ ~r.self => r.op \in Comparing
    /\ misspelt' = (misspelt \/ (r.user = me /\ ~r.self))
    /\ Start(t, [r EXCEPT !.me = me], phase)
    /\ UNCHANGED <<tables, lastId, limiter, history>>

Logout(t, token) == Authenticated(t, token, [NoReq EXCEPT !.op = "logout", !.id = token], "logout")

DropSession(t) ==
    /\ pc[t] = "logout"
    /\ session' = [session EXCEPT ![req[t].id] = Absent]
    /\ Done(t)
    /\ UNCHANGED <<user, perms, server, members, plugins, seq, lastId, rest>>

--------------------------------------------------------------------------------
(* Administration, by users whose session says server_owner.                *)

Admin(t, token, r, phase) ==
    /\ Authenticates(token) /\ user[session[token].user].role = "server_owner"
    /\ Authenticated(t, token, r, phase)

\* POST /api/admin/users/add.
AddUser(t, token, n, role) ==
    /\ Named(n) = {}
    /\ Admin(t, token, [NoReq EXCEPT !.op = "add", !.name = n, !.role = role], "insuser")

\* Mutant of SelfProtected: owners may change their own role.
SelfUnprotected == {"delete", "permissions"}

\* Approve, reject, delete, change the role of, or set the permissions of, user u.
SelfProtected == {"delete", "role", "permissions"}

FirstOf(op) == CASE op = "delete" -> "delsessions" [] op = "role" -> "setrole"
                 [] op = "permissions" -> "target" [] OTHER -> "setstatus"

Manage(t, token, op, u, role, self) ==
    /\ op \in SelfProtected => ~self
    /\ Admin(t, token, [NoReq EXCEPT !.op = op, !.user = u, !.role = role, !.self = self], FirstOf(op))

AdminRequest(t, token) ==
    \E u \in 1..seq.users, self \in BOOLEAN :
        \/ \E op \in {"approve", "reject", "delete", "permissions"} : Manage(t, token, op, u, "", self)
        \/ \E role \in {"server_owner", "op"} : Manage(t, token, "role", u, role, self)

\* Mutant of NewStatus: approval does not ask for a pending user.
NewStatusOfAny(op, status) == IF op = "reject" THEN "rejected" ELSE "active"

\* UPDATE users SET status: only a pending user is approved, anyone is rejected.
NewStatus(op, status) ==
    IF op = "reject" THEN "rejected" ELSE IF status = "pending" THEN "active" ELSE status

SetStatus(t) ==
    LET u == req[t].user IN
    /\ pc[t] = "setstatus"
    /\ user' = IF u \in Live(user) THEN [user EXCEPT ![u].status = NewStatus(req[t].op, @)] ELSE user
    /\ Done(t)
    /\ UNCHANGED <<perms, session, server, members, plugins, seq, lastId, rest>>

\* UPDATE users SET role.
SetRole(t) ==
    LET u == req[t].user IN
    /\ pc[t] = "setrole"
    /\ user' = IF u \in Live(user) THEN [user EXCEPT ![u].role = req[t].role] ELSE user
    /\ Next1(t, "delperms")
    /\ UNCHANGED <<perms, session, server, members, plugins, seq, lastId, rest>>

\* DELETE FROM user_permissions, of a deleted or promoted or demoted user.
DeletePerms(t) ==
    LET r == req[t] IN
    /\ pc[t] = "delperms"
    /\ perms' = {p \in perms : p[1] # r.user}
    /\ CASE r.op = "delete" -> Next1(t, "delmembers")
         [] r.op = "role" /\ r.role = "op" -> Goto(t, "perms") /\ req' = [req EXCEPT ![t].id = r.user]
         [] OTHER -> Done(t)
    /\ UNCHANGED <<user, session, server, members, plugins, seq, lastId, rest>>

\* INSERT OR IGNORE INTO user_permissions the default rows of an op.
InsertPerms(t) ==
    LET r == req[t] IN
    /\ pc[t] = "perms"
    /\ IF r.role = "op" /\ r.id \in Live(user)
       THEN perms' = perms \cup {<<r.id, "default">>} /\ RowElsewhere
       ELSE UNCHANGED <<perms, lastId>>
    /\ Done(t)
    /\ UNCHANGED <<user, session, server, members, plugins, seq, rest>>

\* PUT permissions: the target exists and is not an owner, when it is read.
CheckTarget(t) ==
    LET u == req[t].user IN
    /\ pc[t] = "target"
    /\ IF u \in Live(user) /\ user[u].role # "server_owner" THEN Next1(t, "override") ELSE Done(t)
    /\ UNCHANGED <<tables, lastId, rest>>

\* INSERT OR REPLACE INTO user_permissions.
Override(t) ==
    LET u == req[t].user IN
    /\ pc[t] = "override"
    /\ IF u \in Live(user) THEN perms' = perms \cup {<<u, "override">>} /\ RowElsewhere
                           ELSE UNCHANGED <<perms, lastId>>
    /\ Done(t)
    /\ UNCHANGED <<user, session, server, members, plugins, seq, rest>>

\* Mutant of DeleteSessions: sessions go by themselves when they expire.
KeepSessions(t) ==
    /\ pc[t] = "delsessions"
    /\ Next1(t, "delperms")
    /\ UNCHANGED <<tables, lastId, rest>>

DeleteSessions(t) ==
    /\ pc[t] = "delsessions"
    /\ session' = [k \in Tokens |-> IF session[k] # Absent /\ session[k].user = req[t].user THEN Absent ELSE session[k]]
    /\ Next1(t, "delperms")
    /\ UNCHANGED <<user, perms, server, members, plugins, seq, lastId, rest>>

Without(f, gone(_)) == [k \in {j \in DOMAIN f : ~gone(j)} |-> f[k]]

DeleteMemberships(t) ==
    /\ pc[t] = "delmembers"
    /\ members' = Without(members, LAMBDA k : k[2] = req[t].user)
    /\ Next1(t, "deluser")
    /\ UNCHANGED <<user, perms, session, server, plugins, seq, lastId, rest>>

\* The rows of a user that no deletion of his account removes: his servers and his plugins.
Made(u) == (\E s \in Live(server) : server[s].creator = u) \/ (\E p \in plugins : p[1] = u)

\* The rows that keep a user's row from being deleted: foreign keys without a cascade.
Referenced(u) ==
    \/ \E k \in Live(session) : session[k].user = u
    \/ \E p \in perms : p[1] = u
    \/ Made(u)

\* DELETE FROM users, and the memberships that cascade; "Deleted" is answered whatever it did.
DeleteUser(t) ==
    LET u == req[t].user IN
    /\ pc[t] = "deluser"
    /\ IF Referenced(u) THEN UNCHANGED <<user, members>>
       ELSE /\ user' = [user EXCEPT ![u] = Absent]
            /\ members' = Without(members, LAMBDA k : k[2] = u)
    /\ deleted' = deleted \cup {<<v, Made(v)>> : v \in Live(user) \cap {u}}
    /\ Done(t)
    /\ UNCHANGED <<perms, session, server, plugins, seq, lastId, limiter, issued, founders, bounds>>

--------------------------------------------------------------------------------
(* Servers and their members.                                               *)

RoleOn(s, u) == IF <<s, u>> \in DOMAIN members THEN members[<<s, u>>] ELSE ""

FirstOn(op) == CASE op = "create" -> "insserver" [] op \in {"addplugin", "delplugin"} -> op [] OTHER -> "allowed"

\* POST /api/servers, PUT and DELETE /api/servers/:id/..., where u and role are the
\* member's, and POST and DELETE /api/plugins.
OnServer(t, token, op, s, u, role, self) ==
    Authenticated(t, token, [NoReq EXCEPT !.op = op, !.server = s, !.user = u, !.role = role, !.self = self], FirstOn(op))

ServerRequest(t, token) ==
    \/ OnServer(t, token, "create", 0, 0, "", FALSE)
    \/ \E s \in 1..seq.servers :
          \/ \E op \in {"delserver", "addplugin", "delplugin"} : OnServer(t, token, op, s, 0, "", FALSE)
          \/ \E u \in 1..seq.users, self \in BOOLEAN :
                \/ OnServer(t, token, "remove", s, u, "", self)
                \/ \E role \in MemberRoles, op \in {"addmember", "change"} : OnServer(t, token, op, s, u, role, self)

\* INSERT INTO servers; its user must exist.
InsertServer(t) ==
    /\ pc[t] = "insserver"
    /\ IF req[t].me \in Live(user)
       THEN /\ seq.servers < MaxServers
            /\ seq' = [seq EXCEPT !.servers = @ + 1]
            /\ server' = [server EXCEPT ![seq'.servers] = [creator |-> req[t].me]]
            /\ lastId' = seq'.servers
       ELSE UNCHANGED <<server, seq, lastId>>
    /\ Next1(t, "rowid")
    /\ UNCHANGED <<user, perms, session, members, plugins, rest>>

\* INSERT OR IGNORE INTO server_members the creator as owner of the last row id.
InsertCreator(t) ==
    LET r == req[t] IN
    /\ pc[t] = "member"
    /\ IF r.id \in Live(server) /\ r.me \in Live(user) /\ RoleOn(r.id, r.me) = ""
       THEN members' = [k \in DOMAIN members \cup {<<r.id, r.me>>} |-> IF k = <<r.id, r.me>> THEN "owner" ELSE members[k]]
            /\ RowElsewhere
       ELSE UNCHANGED <<members, lastId>>
    /\ Done(t)
    /\ UNCHANGED <<user, perms, session, server, plugins, seq, rest>>

\* Mutant of MayLeave: an owner may leave, too.
AnyoneMayLeave(role) == TRUE

MayLeave(role) == role # "owner"

\* What each handler asks of the tables before its last statement.
Allowed(r) ==
    LET mine == RoleOn(r.server, r.me)
        theirs == RoleOn(r.server, r.user)
    IN  CASE r.op = "delserver" -> mine = "owner"
          [] r.op = "addmember" ->
               /\ mine \in {"owner", "admin"}
               /\ r.role \in {"owner", "admin"} => mine = "owner"
               /\ r.user \in Live(user) /\ user[r.user].status = "active" /\ theirs = ""
          [] r.op = "change" -> mine = "owner" /\ ~r.self /\ theirs # ""
          [] r.op = "remove" /\ r.self -> MayLeave(mine)
          [] r.op = "remove" /\ ~r.self ->
               /\ mine \in {"owner", "admin"}
               /\ theirs \in {"owner", "admin"} => mine = "owner"

CheckAllowed(t) ==
    /\ pc[t] = "allowed"
    /\ IF Allowed(req[t]) THEN Next1(t, "act") ELSE Done(t)
    /\ UNCHANGED <<tables, lastId, rest>>

\* The statement, or the transaction, that follows.
ActOnServer(t) ==
    LET r == req[t]
        key == <<r.server, r.user>>
    IN  /\ pc[t] = "act"
        /\ CASE r.op = "delserver" ->
                  /\ server' = [server EXCEPT ![r.server] = Absent]
                  /\ members' = Without(members, LAMBDA k : k[1] = r.server)
                  /\ plugins' = {p \in plugins : p[2] # r.server}
                  /\ UNCHANGED lastId
             [] r.op = "addmember" ->
                  /\ IF r.server \in Live(server) /\ r.user \in Live(user) /\ key \notin DOMAIN members
                     THEN /\ members' = [k \in DOMAIN members \cup {key} |-> IF k = key THEN r.role ELSE members[k]]
                          /\ RowElsewhere
                     ELSE UNCHANGED <<members, lastId>>
                  /\ UNCHANGED <<server, plugins>>
             [] r.op = "change" ->
                  /\ members' = IF key \in DOMAIN members THEN [members EXCEPT ![key] = r.role] ELSE members
                  /\ UNCHANGED <<server, plugins, lastId>>
             [] r.op = "remove" ->
                  /\ members' = Without(members, LAMBDA k : k = key)
                  /\ UNCHANGED <<server, plugins, lastId>>
        /\ Done(t)
        /\ UNCHANGED <<user, perms, session, seq, rest>>

\* INSERT INTO plugins: its user and its server must exist.
AddPlugin(t) ==
    LET r == req[t] IN
    /\ pc[t] = "addplugin"
    /\ IF r.me \in Live(user) /\ r.server \in Live(server)
       THEN plugins' = plugins \cup {<<r.me, r.server>>} /\ RowElsewhere
       ELSE UNCHANGED <<plugins, lastId>>
    /\ Done(t)
    /\ UNCHANGED <<user, perms, session, server, members, seq, rest>>

\* DELETE FROM plugins one row: it may be the last of that user and server.
DropPlugin(t) ==
    /\ pc[t] = "delplugin"
    /\ plugins' \in {plugins, plugins \ {<<req[t].me, req[t].server>>}}
    /\ Done(t)
    /\ UNCHANGED <<user, perms, session, server, members, seq, lastId, rest>>

--------------------------------------------------------------------------------
(* Time, the cleanup task, the other writers, and crashes.                  *)

Tick ==
    /\ session' = [k \in Tokens |-> IF session[k] # Absent /\ session[k].left >= 0
                                    THEN [session[k] EXCEPT !.left = @ - 1] ELSE session[k]]
    /\ limit' = IF limit.age > Window THEN limit ELSE [limit EXCEPT !.age = @ + 1]
    /\ recent' = [k \in 0..Window |-> IF k = 0 THEN 0 ELSE recent[k - 1]]
    /\ forgotten' = [k \in 0..Window |-> IF k = 0 THEN 0 ELSE forgotten[k - 1]]
    /\ UNCHANGED <<user, perms, server, members, plugins, seq, lastId, pc, req, history, bounds>>

\* sessionCleanupLoop: DELETE FROM sessions WHERE expiresAt < datetime('now').
Cleanup ==
    /\ session' = [k \in Tokens |-> IF session[k] # Absent /\ session[k].left < 0 THEN Absent ELSE session[k]]
    /\ session' # session
    /\ UNCHANGED <<user, perms, server, members, plugins, seq, lastId, pc, req, rest>>

\* Another part of the panel inserts a row: it matters to whoever asks for the last id.
InsertElsewhere ==
    /\ \E t \in Threads : pc[t] = "rowid"
    /\ RowElsewhere
    /\ raced' = TRUE
    /\ UNCHANGED <<tables, pc, req, limiter, history, misspelt, stopped, requests, guesses, crashes>>

\* A crash ends every request where it is and empties the limiter's map (one that does
\* neither goes unnoticed).
Crash ==
    /\ crashes < MaxCrashes /\ (limit # NoLimit \/ \E t \in Threads : pc[t] # "idle")
    /\ crashes' = crashes + 1
    /\ stopped' = (stopped \/ \E t \in Threads : req[t].op \in {"create", "delete"})
    /\ pc' = [t \in Threads |-> "idle"] /\ req' = [t \in Threads |-> NoReq]
    /\ limit' = NoLimit /\ lastId' = 0
    /\ forgotten' = [k \in 0..Window |-> forgotten[k] + MaxAttempts]
    /\ UNCHANGED <<tables, recent, history, raced, misspelt, requests, guesses>>

--------------------------------------------------------------------------------
Next ==
    \/ \E t \in Threads :
         \/ \E n \in Names : Register(t, n) \/ Login(t, n)
         \/ Count(t) \/ InsertUser(t) \/ RowId(t) \/ InsertSession(t) \/ DropSession(t)
         \/ SetStatus(t) \/ SetRole(t) \/ DeletePerms(t) \/ InsertPerms(t)
         \/ CheckTarget(t) \/ Override(t)
         \/ DeleteSessions(t) \/ DeleteMemberships(t) \/ DeleteUser(t)
         \/ InsertServer(t) \/ InsertCreator(t) \/ CheckAllowed(t) \/ ActOnServer(t)
         \/ AddPlugin(t) \/ DropPlugin(t)
         \/ \E k \in Tokens :
              \/ Logout(t, k)
              \/ \E n \in Names, r \in {"server_owner", "op"} : AddUser(t, k, n, r)
              \/ AdminRequest(t, k) \/ ServerRequest(t, k)
    \/ LoginFails \/ Tick \/ Cleanup \/ InsertElsewhere \/ Crash

Spec == Init /\ [][Next]_vars

--------------------------------------------------------------------------------
Phases == {"idle", "count", "insuser", "rowid", "session", "logout", "setstatus", "setrole", "delperms", "perms",
           "target", "override", "delsessions", "delmembers", "deluser", "insserver", "member", "allowed", "act",
           "addplugin", "delplugin"}

\* The type of the state, and the references between the tables: a session, a
\* permission row, a membership, a server and a plugin belong to a user who exists,
\* a membership and a plugin to a server that does.
TypeOK ==
    /\ Schema(user, session, server, members, plugins)
    /\ perms \subseteq Live(user) \X {"default", "override"}
    /\ pc \in [Threads -> Phases] /\ lastId \in 0..Max({MaxUsers, MaxServers})
    /\ limit.age \in 0..(Window + 1) /\ limit.count \in 0..MaxAttempts

\* The first user to register owns the panel.  Concurrent first registrations
\* may all see an empty table, so there are as many such owners at a time as threads
\* at most (two who delete each other at once empty the table again), and only one
\* ever, crashes or not, as long as requests do not overlap and nobody deletes himself
\* (auth_handler.cpp:43).
FoundersBounded ==
    /\ Cardinality(founders \cap Live(user)) <= Cardinality(Threads)
    /\ raced \/ misspelt \/ Cardinality(founders) <= 1

\* The panel keeps an active owner: none can delete or demote itself under the id it
\* knows itself by (admin_handler.cpp:208, 227), so while requests do not overlap
\* only the rejection of an owner's account, or an owner who spells its own id
\* otherwise, can take the last one away.
OwnersRemain ==
    \/ raced \/ misspelt \/ Live(user) = {}
    \/ \E u \in Live(user) : IsActiveOwner(u) \/ (user[u].role = "server_owner" /\ user[u].status = "rejected")

\* The panel has an owner, and as many founders as registered at once.
OwnersKept == FoundersBounded /\ OwnersRemain

\* A token opens the account of whoever it was handed to: always when login
\* issued it, from the row it had read; from a registration, which asks the
\* shared connection for its row id, as long as nothing came between.
TokenIsOwn ==
    \A k \in Live(session) :
        (raced => issued[k].by = "login") => user[session[k].user].name = issued[k].name

\* Every server has an owner who can manage it: the creator becomes one, an owner
\* can neither leave nor change its own role under the id it knows itself by.  What
\* can leave a server to nobody: requests that overlap, an own id spelt otherwise,
\* the deletion of an owner's account, and a crash that stops one of these or the
\* request that creates the server; a crash at any other time does not.
ServersOwned ==
    raced \/ misspelt \/ stopped \/ \A s \in Live(server) :
        \/ \E u \in UserIds : RoleOn(s, u) = "owner"
        \/ \E t \in Threads : req[t].op \in {"create", "delete"}
        \/ deleted # {}

\* A user reported as deleted is gone, with every session, unless a server the user
\* created or a plugin the user added existed then, or a request that overlapped
\* put a row back.
DeletedIsGone ==
    \A u \in Live(user) : raced \/ <<u, FALSE>> \notin deleted

\* A rejection stands, however it interleaves with an approval: a rejected
\* account never gets another status, it can only be deleted.
RejectionStands ==
    [][\A u \in Live(user) : user[u].status = "rejected" => user'[u] = Absent \/ user'[u].status = "rejected"]_vars

\* Within any stretch as long as the window, an address is let through less than
\* twice as often as the limit (Auth::checkRateLimit): a window that is full may be
\* followed at once by another, but each attempt of both is counted.  A restart
\* forgets the count, so each one in the stretch lets through one limit more.
AttemptsBounded == recent[Window] <= 2 * MaxAttempts - 1 + forgotten[Window]
================================================================================

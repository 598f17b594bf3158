-------------------------------- MODULE MCAccounts --------------------------------
(***************************************************************************)
(* Small instances of Accounts.                                             *)
(***************************************************************************)
EXTENDS Accounts, TLC

Table(ids, f) == [k \in ids |-> IF k \in DOMAIN f THEN f[k] ELSE Absent]
Owner(n) == [name |-> n, role |-> "server_owner", status |-> "active"]
Op(n) == [name |-> n, role |-> "op", status |-> "active"]
Pending(n) == [name |-> n, role |-> "pending", status |-> "pending"]
Open(u) == [user |-> u, left |-> Lifetime]
Snapshot(users, sessions, servers, membership, budget, failures) ==
    [requests |-> budget, guesses |-> failures,
     user |-> Table(UserIds, users), session |-> Table(Tokens, sessions),
     server |-> Table(ServerIds, servers), members |-> membership, plugins |-> {}]
Nobody == [k \in {} |-> 0]

\* Before the first registration; with an owner whose password somebody guesses; with an owner, an op and a user who waits;
\* and with two owners who share a server one of them created.
MCSnapshots == {
    Snapshot(Nobody, Nobody, Nobody, Nobody, 3, 0),
    Snapshot(1 :> Owner("ann"), Nobody, Nobody, Nobody, 0, 2 * MaxAttempts + 1),
    Snapshot(1 :> Owner("ann") @@ 2 :> Op("bob") @@ 3 :> Pending("cat"), 1 :> Open(1) @@ 2 :> Open(2),
             1 :> [creator |-> 1], <<1, 1>> :> "owner" @@ <<1, 2>> :> "admin", 2, 0),
    Snapshot(1 :> Owner("ann") @@ 2 :> Owner("bob"), 1 :> Open(1) @@ 2 :> Open(2),
             1 :> [creator |-> 1], <<1, 1>> :> "owner" @@ <<1, 2>> :> "owner", 2, 0) }

MCSymmetry == Permutations(Threads)
================================================================================

---------------------------- MODULE BackgroundProofs ----------------------------
(***************************************************************************)
(* Theorems about the threads that main starts beside the HTTP server, for  *)
(* any number of rows, lines, events, restarts and failures: whom the TK    *)
(* checker kicks (TkForgive), what the log tailer posts (LocalLogTailer),   *)
(* and what the poller and the timed tasks do until they are stopped        *)
(* (Collectors).                                                            *)
(***************************************************************************)
EXTENDS TkForgive, LocalLogTailer, Collectors,
        FiniteSetTheorems, SequenceTheorems, WellFoundedInduction, TLAPS

--------------------------------------------------------------------------------
(* Numbers: the first of a set, the last, and sets in order.                *)

\* A set of numbers that is not empty has a first one.
LEMMA HasMin ==
  ASSUME NEW S \in SUBSET Nat, S # {}
  PROVE  \E x \in S : \A y \in S : x <= y
<1>1. \A x \in Nat, y \in Nat : <<y, x>> \in OpToRel(<, Nat) <=> y < x
  BY DEF OpToRel
<1>2. PICK x \in S : \A y \in S : ~(<<y, x>> \in OpToRel(<, Nat))
  BY NatLessThanWellFounded, WFMin
<1>3. \A y \in S : ~(y < x)
  BY <1>1, <1>2
<1> QED
  BY <1>3

\* The first number of a set is what Min says.
LEMMA MinIsFirst ==
  ASSUME NEW S \in SUBSET Nat, S # {}
  PROVE  Min(S) \in S /\ \A y \in S : Min(S) <= y
<1>1. \E x \in S : \A y \in S : x <= y
  BY HasMin
<1> QED
  BY <1>1 DEF Min

\* The last of a bounded one is what Max says.
LEMMA MaxIsLast ==
  ASSUME NEW S \in SUBSET Nat, S # {}, NEW n \in Nat, \A x \in S : x <= n
  PROVE  Max(S) \in S /\ \A y \in S : y <= Max(S)
<1> DEFINE D == {n - x : x \in S}
<1>1. D \in SUBSET Nat /\ D # {}
  <2>1. \A x \in S : n - x \in Nat
    OBVIOUS
  <2>2. PICK x \in S : TRUE
    OBVIOUS
  <2>3. n - x \in D
    BY <2>2
  <2> QED
    BY <2>1, <2>3
<1>2. PICK d \in D : \A y \in D : d <= y
  <2> HIDE DEF D
  <2> QED
    BY <1>1, HasMin
<1>3. PICK x \in S : d = n - x
  OBVIOUS
<1>4. \A y \in S : n - y \in D
  OBVIOUS
<1> HIDE DEF D
<1>5. \A y \in S : x >= y
  <2> SUFFICES ASSUME NEW y \in S PROVE x >= y
    OBVIOUS
  <2>1. n - x <= n - y
    BY <1>2, <1>3, <1>4
  <2> QED
    BY <2>1
<1>6. Max(S) \in S /\ \A y \in S : Max(S) >= y
  BY <1>5 DEF Max
<1> QED
  BY <1>6

\* f lists S, each element once, those of the greatest weight first.
Lists(f, S, w, n) ==
    /\ f \in [1..n -> S]
    /\ \A x \in S : \E i \in 1..n : f[i] = x
    /\ \A i, j \in 1..n : i < j => f[i] # f[j] /\ w[f[i]] >= w[f[j]]

\* An element that weighs no more than the others is put last.
LEMMA PutLast ==
    ASSUME NEW n \in Nat, NEW S, NEW w \in [S -> Int], NEW x \in S, NEW f, Lists(f, S \ {x}, w, n),
           \A y \in S : w[y] >= w[x]
    PROVE  \E g : Lists(g, S, w, n + 1)
<1> DEFINE g == [i \in 1..(n + 1) |-> IF i = n + 1 THEN x ELSE f[i]]
<1>1. f \in [1..n -> S \ {x}] /\ \A i \in 1..(n + 1) : i # n + 1 => i \in 1..n
  BY DEF Lists
<1>2. g \in [1..(n + 1) -> S] /\ g[n + 1] = x /\ \A i \in 1..n : g[i] = f[i] /\ f[i] \in S \ {x}
  BY <1>1
<1> HIDE DEF g
<1>3. ASSUME NEW y \in S PROVE \E i \in 1..(n + 1) : g[i] = y
  <2>1. CASE y = x
    BY <1>2, <2>1
  <2>2. CASE y # x
    <3>1. PICK i \in 1..n : f[i] = y
      BY <2>2 DEF Lists
    <3> QED
      BY <1>2, <3>1
  <2> QED
    BY <2>1, <2>2
<1>4. ASSUME NEW i \in 1..(n + 1), NEW j \in 1..(n + 1), i < j PROVE g[i] # g[j] /\ w[g[i]] >= w[g[j]]
  <2>1. i \in 1..n
    BY <1>4
  <2>2. CASE j = n + 1
    BY <1>2, <2>1, <2>2
  <2>3. CASE j # n + 1
    <3>1. j \in 1..n
      BY <2>3
    <3> QED
      BY <1>2, <1>4, <2>1, <3>1 DEF Lists
  <2> QED
    BY <2>2, <2>3
<1> QED
  BY <1>2, <1>3, <1>4 DEF Lists

\* A finite set can be sorted.  A number of elements that cannot would be more than some
\* least one; but whatever is first left out, either it or the last of the others, already
\* sorted, can be put last.
LEMMA Sortable ==
    ASSUME NEW T, IsFiniteSet(T), NEW v \in [T -> Int]
    PROVE  \E f : Lists(f, T, v, Cardinality(T))
<1> DEFINE Hard == {n \in Nat : \E S, w : /\ IsFiniteSet(S) /\ Cardinality(S) = n /\ w \in [S -> Int]
                                         /\ \A f : ~Lists(f, S, w, n)}
<1> SUFFICES ASSUME Hard # {} PROVE FALSE
  <2>1. Cardinality(T) \in Nat
    BY FS_CardinalityType
  <2> QED
    BY <2>1
<1>1. PICK n \in Hard : \A m \in Hard : n <= m
  BY HasMin
<1>2. n \in Nat
  OBVIOUS
<1>3. PICK S, w : IsFiniteSet(S) /\ Cardinality(S) = n /\ w \in [S -> Int] /\ \A f : ~Lists(f, S, w, n)
  OBVIOUS
<1>4. n # 0
  <2> SUFFICES ASSUME n = 0 PROVE FALSE
    OBVIOUS
  <2>1. S = {}
    BY <1>3, FS_EmptySet
  <2>2. Lists(<<>>, S, w, 0)
    BY <2>1 DEF Lists
  <2> QED
    BY <1>3, <2>2
<1>5. ASSUME NEW x \in S
      PROVE  \E f : Lists(f, S \ {x}, w, n - 1)
  <2>1. IsFiniteSet(S \ {x}) /\ Cardinality(S \ {x}) = n - 1
    BY <1>3, FS_RemoveElement
  <2>2. n - 1 \in Nat /\ ~(n <= n - 1)
    BY <1>2, <1>4
  <2>3. n - 1 \notin Hard
    BY <1>1, <2>2
  <2> DEFINE u == [y \in S \ {x} |-> w[y]]
  <2>4. u \in [S \ {x} -> Int]
    BY <1>3
  <2>5. PICK f : Lists(f, S \ {x}, u, n - 1)
    BY <2>1, <2>2, <2>3, <2>4
  <2>6. Lists(f, S \ {x}, w, n - 1)
    BY <2>5 DEF Lists
  <2> QED
    BY <2>6
<1>6. ASSUME NEW x \in S, \A y \in S : w[y] >= w[x] PROVE FALSE
  <2>1. PICK f : Lists(f, S \ {x}, w, n - 1)
    BY <1>5
  <2>2. \E g : Lists(g, S, w, (n - 1) + 1)
    BY <1>2, <1>3, <1>4, <1>6, <2>1, PutLast
  <2>3. (n - 1) + 1 = n
    BY <1>2
  <2> QED
    BY <1>3, <2>2, <2>3
<1>7. PICK x \in S : TRUE
  BY <1>3, <1>4, FS_EmptySet
<1>8. PICK f : Lists(f, S \ {x}, w, n - 1)
  BY <1>5
<1>9. CASE n = 1
  <2>1. \A y \in S : w[y] >= w[x]
    <3>1. \A y \in S : y = x
      BY <1>8, <1>9 DEF Lists
    <3> QED
      BY <1>3, <3>1
  <2> QED
    BY <1>6, <2>1
<1>10. CASE n # 1
  <2> DEFINE l == f[n - 1]
  <2>1. n - 1 \in 1..(n - 1)
    BY <1>2, <1>4, <1>10
  <2>2. l \in S /\ l # x
    BY <1>8, <2>1 DEF Lists
  <2>3. \A y \in S \ {x} : w[y] >= w[l]
    <3> SUFFICES ASSUME NEW y \in S \ {x} PROVE w[y] >= w[l]
      OBVIOUS
    <3>1. PICK i \in 1..(n - 1) : f[i] = y
      BY <1>8 DEF Lists
    <3>2. CASE i = n - 1
      BY <1>3, <3>1, <3>2, <2>2
    <3>3. CASE i # n - 1
      <4>1. i < n - 1
        BY <1>2, <3>3
      <4> QED
        BY <1>8, <2>1, <3>1, <4>1 DEF Lists
    <3> QED
      BY <3>2, <3>3
  <2> HIDE DEF l
  <2>4. w[l] \in Int /\ w[x] \in Int /\ \A y \in S : w[y] \in Int
    BY <1>3, <1>7, <2>2
  <2>5. CASE w[l] >= w[x]
    <3>1. \A y \in S : w[y] >= w[x]
      BY <2>3, <2>4, <2>5
    <3> QED
      BY <1>6, <3>1
  <2>6. CASE w[x] >= w[l]
    <3>1. \A y \in S : w[y] >= w[l]
      BY <2>3, <2>4, <2>6
    <3> QED
      BY <1>6, <2>2, <3>1
  <2> QED
    BY <2>4, <2>5, <2>6
<1> QED
  BY <1>9, <1>10

\* A finite set of numbers can be put in order, and InOrder does.
LEMMA OrderedSet ==
    ASSUME NEW S \in SUBSET Nat, IsFiniteSet(S)
    PROVE  LET f == InOrder(S) IN
           /\ f \in [1..Cardinality(S) -> S]
           /\ \A i, j \in 1..Cardinality(S) : i < j => f[i] < f[j]
<1> DEFINE w == [x \in S |-> -x]
           n == Cardinality(S)
<1>1. w \in [S -> Int] /\ \A x \in S : w[x] = -x
  OBVIOUS
<1>2. PICK f : Lists(f, S, w, n)
  BY <1>1, Sortable
<1>3. f \in [1..n -> S] /\ DOMAIN f = 1..n
  BY <1>2 DEF Lists
<1>4. ASSUME NEW i \in 1..n, NEW j \in 1..n, i < j PROVE f[i] < f[j]
  <2>1. f[i] \in S /\ f[j] \in S /\ f[i] # f[j] /\ w[f[i]] >= w[f[j]]
    BY <1>2, <1>3, <1>4 DEF Lists
  <2>2. f[i] \in Nat /\ f[j] \in Nat /\ w[f[i]] = -f[i] /\ w[f[j]] = -f[j]
    BY <1>1, <2>1
  <2> QED
    BY <2>1, <2>2
<1> HIDE DEF n
<1>5. \E g \in [1..n -> S] : \A i, j \in DOMAIN g : i < j => g[i] < g[j]
  BY <1>3, <1>4
<1>6. InOrder(S) \in [1..n -> S] /\ \A i, j \in DOMAIN InOrder(S) : i < j => InOrder(S)[i] < InOrder(S)[j]
  BY <1>5, Zenon DEF InOrder, n
<1>7. DOMAIN InOrder(S) = 1..n
  BY <1>6
<1> QED
  BY <1>6, <1>7 DEF n

--------------------------------------------------------------------------------
(* The strengthenings.                                                      *)

\* Ids are given in order: the next one is new.
Numbered == Used = 1..Cardinality(Used)

\* An apology for row i was recorded before its deadline.
Protected(i) == forgivenAt[i] # Never /\ forgivenAt[i] < tk[i].expiresAt

\* Only rows have a history, and an apology stays in its row.
Recorded ==
    \A i \in Ids :
        /\ i \notin Used => kicks[i] = 0
        /\ forgivenAt[i] # Never => i \in Used /\ (tk[i].there => tk[i].forgiven)

\* What the checker has kicked, or is going to, was due and not forgiven.
DueFirst ==
    \A i \in Ids : kicks[i] > 0 \/ i \in checker.rows =>
        i \in Used /\ tk[i].expiresAt <= now /\ ~Protected(i)

\* The checker has still to kick for row i: it has read the row, or will, and is
\* not at the UPDATE that follows the kick.
ToKick(i) ==
    /\ i \in checker.rows \/ Pending(i)
    /\ ~(checker.pc = "mark" /\ i = Min(checker.rows))

\* One command per row, and one more for each restart that came before the UPDATE;
\* each is executed twice at the most.
KickBudget ==
    \A i \in Ids : kicks[i] <= 2 * (crashes + 1) /\ (ToKick(i) => kicks[i] <= 2 * crashes)

\* Every row leaves the time for an apology.
Deadlines == \A i \in Used : tk[i].expiresAt >= tk[i].createdAt + Secs

--------------------------------------------------------------------------------
(* Facts about the data.                                                    *)

\* The first of some ids is one of them.
LEMMA MinIsMember ==
  ASSUME NEW S \in SUBSET Ids, S # {}
  PROVE  Min(S) \in S
<1>1. S \in SUBSET Nat
  BY DEF Ids
<1> QED
  BY <1>1, MinIsFirst

\* A row is not the absence of one, and stays a row when a column is set.
LEMMA RowFacts ==
  ASSUME NEW r \in TkRow
  PROVE  /\ r # NoRow
         /\ r.there \in BOOLEAN /\ r.forgiven \in BOOLEAN /\ r.kicked \in BOOLEAN
         /\ r.createdAt \in Int /\ r.expiresAt \in Int
         /\ [r EXCEPT !.there = FALSE] \in TkRow
         /\ [r EXCEPT !.forgiven = TRUE] \in TkRow
         /\ [r EXCEPT !.kicked = TRUE] \in TkRow
<1>1. r # NoRow
  BY DEF TkRow, NoRow
<1>2. /\ r.there \in BOOLEAN /\ r.forgiven \in BOOLEAN /\ r.kicked \in BOOLEAN
      /\ r.createdAt \in Int /\ r.expiresAt \in Int
  BY DEF TkRow
<1>3. [r EXCEPT !.there = FALSE] \in TkRow
  BY DEF TkRow
<1>4. [r EXCEPT !.forgiven = TRUE] \in TkRow
  BY DEF TkRow
<1>5. [r EXCEPT !.kicked = TRUE] \in TkRow
  BY DEF TkRow
<1> QED
  BY <1>1, <1>2, <1>3, <1>4, <1>5

\* What a request is doing.
LEMMA JobFacts ==
  ASSUME TkTypeOK, NEW t \in Threads
  PROVE  /\ job[t].pc \in {"forgive", "warn"} =>
              job[t].rows \in (SUBSET Used) \ {{}} /\ Min(job[t].rows) \in Used
         /\ job[t].pc \in {"delete", "pardon", "kick", "send"} => job[t].row \in Used
<1>1. job[t] \in Jobs
  BY DEF TkTypeOK
<1>2. Used \subseteq Ids
  BY DEF Used
<1>3. CASE job[t] = Idle
  BY <1>3 DEF Idle
<1>4. CASE job[t] \in [pc : {"forgive", "warn"}, rows : (SUBSET Used) \ {{}}]
  <2>1. job[t].pc \in {"forgive", "warn"} /\ job[t].rows \in (SUBSET Used) \ {{}}
    BY <1>4
  <2>2. Min(job[t].rows) \in Used
    <3>1. job[t].rows \in SUBSET Ids /\ job[t].rows # {} /\ job[t].rows \subseteq Used
      BY <1>2, <2>1
    <3> QED
      BY <3>1, MinIsMember
  <2> QED
    BY <2>1, <2>2
<1>5. CASE job[t] \in [pc : {"delete", "pardon", "kick", "send"}, row : Used]
  BY <1>5
<1> QED
  BY <1>1, <1>3, <1>4, <1>5 DEF Jobs

\* The row the checker is at.
LEMMA CheckerFacts ==
  ASSUME TkTypeOK
  PROVE  /\ checker.rows \subseteq Used /\ Used \subseteq Ids
         /\ checker.pc \in {"sleep", "kick", "mark"}
         /\ checker.pc # "sleep" => Min(checker.rows) \in checker.rows
<1>1. checker.rows \subseteq Used /\ checker.pc \in {"sleep", "kick", "mark"} /\ Used \subseteq Ids
  BY DEF TkTypeOK, Used
<1> QED
  BY <1>1, MinIsMember DEF TkTypeOK

--------------------------------------------------------------------------------
(* What happens to the rows.                                                *)

\* The row an INSERT adds: its id is new.
LEMMA InsertEffects ==
  ASSUME TkTypeOK, Numbered, NEW p \in Players, NEW d \in Int, Insert(p, d)
  PROVE  \E i \in Ids \ Used, r \in TkRow :
            /\ tk' = [tk EXCEPT ![i] = r]
            /\ r.createdAt = now /\ r.expiresAt = d
            /\ tk' \in [Ids -> {NoRow} \cup TkRow]
            /\ Used' = Used \cup {i} /\ Numbered'
<1> DEFINE n == Cardinality(Used)
           r == [there |-> TRUE, player |-> p, forgiven |-> FALSE, kicked |-> FALSE,
                 createdAt |-> now, expiresAt |-> d]
<1>1. n + 1 \in Ids /\ tk' = [tk EXCEPT ![n + 1] = r]
  BY DEF Insert
<1>2. tk \in [Ids -> {NoRow} \cup TkRow] /\ now \in 0..MaxTime
  BY DEF TkTypeOK
<1>3. r \in TkRow /\ r.createdAt = now /\ r.expiresAt = d
  BY <1>2 DEF TkRow
<1>4. IsFiniteSet(Used)
  <2>1. IsFiniteSet(Ids)
    BY FS_Interval, TkAssumption DEF Ids
  <2>2. Used \subseteq Ids
    BY DEF Used
  <2> QED
    BY <2>1, <2>2, FS_Subset
<1>5. n \in Nat
  BY <1>4, FS_CardinalityType
<1>6. n + 1 \notin Used
  <2>1. Used = 1..n
    BY DEF Numbered
  <2> HIDE DEF n
  <2> QED
    BY <1>5, <2>1
<1>7. tk' \in [Ids -> {NoRow} \cup TkRow]
  <2> HIDE DEF r, n
  <2> QED
    BY <1>1, <1>2, <1>3
<1>8. Used' = Used \cup {n + 1}
  <2>1. r # NoRow
    BY <1>3, RowFacts
  <2> HIDE DEF r, n
  <2> QED
    BY <1>1, <1>2, <2>1 DEF Used
<1>9. Numbered'
  <2>1. Cardinality(Used)' = n + 1
    BY <1>4, <1>6, <1>8, FS_AddElement
  <2>2. 1..(n + 1) = 1..n \cup {n + 1}
    <3> HIDE DEF n
    <3> QED
      BY <1>5
  <2> QED
    BY <1>8, <2>1, <2>2 DEF Numbered
<1> HIDE DEF r, n
<1> QED
  BY <1>1, <1>3, <1>6, <1>7, <1>8, <1>9

\* The UPDATEs and the DELETE: who was forgiven or kicked stays so, a row that
\* is gone stays away.
LEMMA ColumnSet ==
  ASSUME TkTypeOK, NEW i \in Used,
         \/ tk' = [tk EXCEPT ![i].there = FALSE]
         \/ tk' = [tk EXCEPT ![i].forgiven = TRUE]
         \/ tk' = [tk EXCEPT ![i].kicked = TRUE]
  PROVE  /\ tk' \in [Ids -> {NoRow} \cup TkRow] /\ Used' = Used
         /\ \A k \in Ids \ {i} : tk'[k] = tk[k]
         /\ \A k \in Used : /\ tk'[k].createdAt = tk[k].createdAt
                            /\ tk'[k].expiresAt = tk[k].expiresAt
                            /\ tk[k].forgiven => tk'[k].forgiven
                            /\ tk[k].kicked => tk'[k].kicked
                            /\ tk'[k].there => tk[k].there
<1>1. i \in Ids /\ tk[i] \in TkRow /\ tk \in [Ids -> {NoRow} \cup TkRow]
  BY DEF TkTypeOK, Used
<1>2. PICK r \in TkRow :
        /\ tk' = [tk EXCEPT ![i] = r]
        /\ r.createdAt = tk[i].createdAt /\ r.expiresAt = tk[i].expiresAt
        /\ tk[i].forgiven => r.forgiven
        /\ tk[i].kicked => r.kicked
        /\ r.there => tk[i].there
  <2>1. CASE tk' = [tk EXCEPT ![i].there = FALSE]
    <3> DEFINE r == [tk[i] EXCEPT !.there = FALSE]
    <3>1. tk' = [tk EXCEPT ![i] = r]
      BY <2>1
    <3>2. r \in TkRow
      BY <1>1, RowFacts
    <3>3. /\ r.createdAt = tk[i].createdAt /\ r.expiresAt = tk[i].expiresAt
          /\ r.forgiven = tk[i].forgiven /\ r.kicked = tk[i].kicked /\ r.there = FALSE
      BY <1>1 DEF TkRow
    <3> HIDE DEF r
    <3> QED
      BY <3>1, <3>2, <3>3
  <2>2. CASE tk' = [tk EXCEPT ![i].forgiven = TRUE]
    <3> DEFINE r == [tk[i] EXCEPT !.forgiven = TRUE]
    <3>1. tk' = [tk EXCEPT ![i] = r]
      BY <2>2
    <3>2. r \in TkRow
      BY <1>1, RowFacts
    <3>3. /\ r.createdAt = tk[i].createdAt /\ r.expiresAt = tk[i].expiresAt
          /\ r.forgiven = TRUE /\ r.kicked = tk[i].kicked /\ r.there = tk[i].there
      BY <1>1 DEF TkRow
    <3> HIDE DEF r
    <3> QED
      BY <3>1, <3>2, <3>3
  <2>3. CASE tk' = [tk EXCEPT ![i].kicked = TRUE]
    <3> DEFINE r == [tk[i] EXCEPT !.kicked = TRUE]
    <3>1. tk' = [tk EXCEPT ![i] = r]
      BY <2>3
    <3>2. r \in TkRow
      BY <1>1, RowFacts
    <3>3. /\ r.createdAt = tk[i].createdAt /\ r.expiresAt = tk[i].expiresAt
          /\ r.forgiven = tk[i].forgiven /\ r.kicked = TRUE /\ r.there = tk[i].there
      BY <1>1 DEF TkRow
    <3> HIDE DEF r
    <3> QED
      BY <3>1, <3>2, <3>3
  <2> QED
    BY <2>1, <2>2, <2>3
<1>3. tk'[i] = r /\ \A k \in Ids \ {i} : tk'[k] = tk[k]
  BY <1>1, <1>2
<1>4. tk' \in [Ids -> {NoRow} \cup TkRow]
  BY <1>1, <1>2
<1>5. r # NoRow
  BY RowFacts
<1>6. Used' = Used
  BY <1>1, <1>3, <1>5 DEF Used
<1> QED
  BY <1>2, <1>3, <1>4, <1>6 DEF Used

\* Row k after a step: its times are what they were, and its flags only rise.
RowKept(k) ==
    /\ tk'[k].createdAt = tk[k].createdAt /\ tk'[k].expiresAt = tk[k].expiresAt
    /\ tk[k].forgiven => tk'[k].forgiven
    /\ tk[k].kicked => tk'[k].kicked
    /\ tk'[k].there => tk[k].there

\* The rows after a step: those there were, and perhaps a new one.
RowsKept ==
    /\ tk' \in [Ids -> {NoRow} \cup TkRow]
    /\ Used \subseteq Used' /\ Numbered'
    /\ \A k \in Used : RowKept(k)
    /\ Used' # Used => UNCHANGED <<now, tkEnabled, job, checker, seen, crashes>>
    /\ \A k \in Used' \ Used :
        /\ tk'[k].createdAt = now
        /\ \/ tk'[k].expiresAt = now + Secs
           \/ "create" \in Ops /\ tk'[k].expiresAt = now + Secs + Zone

\* A step rewrites no row but as RowKept allows, and adds at most one, created now
\* (see RowsKept).
LEMMA StepRows == TkTypeOK /\ Numbered /\ [TkNext]_tkVars => RowsKept
<1> SUFFICES ASSUME TkTypeOK, Numbered, [TkNext]_tkVars PROVE RowsKept
  OBVIOUS
<1>0. tk \in [Ids -> {NoRow} \cup TkRow] /\ now \in Int /\ Secs \in Int /\ Zone \in Int
  BY TkAssumption DEF TkTypeOK
<1>1. ASSUME UNCHANGED tk PROVE RowsKept
  BY <1>0, <1>1 DEF RowsKept, RowKept, Used, Numbered
<1>2. ASSUME NEW i \in Used,
             \/ tk' = [tk EXCEPT ![i].there = FALSE]
             \/ tk' = [tk EXCEPT ![i].forgiven = TRUE]
             \/ tk' = [tk EXCEPT ![i].kicked = TRUE]
      PROVE  RowsKept
  BY <1>2, ColumnSet DEF RowsKept, RowKept, Numbered
<1>3. ASSUME NEW i, SetForgiven(i) \/ SetKicked(i) PROVE RowsKept
  <2>1. CASE UNCHANGED tk
    BY <1>1, <2>1
  <2>2. CASE i \in Rows
    <3>1. i \in Used
      BY <1>0, <2>2 DEF Rows, Used, NoRow
    <3>2. tk' = [tk EXCEPT ![i].forgiven = TRUE] \/ tk' = [tk EXCEPT ![i].kicked = TRUE]
      BY <1>3, <2>2 DEF SetForgiven, SetKicked
    <3> QED
      BY <1>2, <3>1, <3>2
  <2> QED
    BY <1>3, <2>1, <2>2 DEF SetForgiven, SetKicked
<1>4. ASSUME NEW p \in Players, TeamKill(p) \/ ("create" \in Ops /\ Create(p)) PROVE RowsKept
  <2>1. UNCHANGED <<now, tkEnabled, job, checker, seen, crashes>>
    BY <1>4 DEF TeamKill, Create
  <2>2. PICK d \in Int :
          /\ Insert(p, d)
          /\ d = now + Secs \/ ("create" \in Ops /\ d = now + Secs + Zone)
    BY <1>0, <1>4 DEF TeamKill, Create
  <2>3. PICK i \in Ids \ Used, r \in TkRow :
          /\ tk' = [tk EXCEPT ![i] = r] /\ r.createdAt = now /\ r.expiresAt = d
          /\ tk' \in [Ids -> {NoRow} \cup TkRow]
          /\ Used' = Used \cup {i} /\ Numbered'
    BY <2>2, InsertEffects
  <2>4. tk'[i] = r /\ \A k \in Used : tk'[k] = tk[k]
    BY <1>0, <2>3 DEF Used
  <2> QED
    BY <2>1, <2>2, <2>3, <2>4 DEF RowsKept, RowKept
<1>5. ASSUME NEW t \in Threads, Work(t) PROVE RowsKept
  <2>1. CASE ChatForgive(t)
    BY <1>3, <2>1 DEF ChatForgive
  <2>2. CASE Forgive(t)
    BY <1>3, <2>2 DEF Forgive
  <2>3. CASE KickMark(t)
    BY <1>3, <2>3 DEF KickMark
  <2>4. CASE Delete(t)
    <3>1. job[t].row \in Used
      BY <2>4, JobFacts DEF Delete
    <3> QED
      BY <1>2, <2>4, <3>1 DEF Delete
  <2>5. CASE ChatWarn(t) \/ KickSend(t)
    BY <1>1, <2>5 DEF ChatWarn, KickSend
  <2> QED
    BY <1>5, <2>1, <2>2, <2>3, <2>4, <2>5 DEF Work
<1>6. ASSUME Checker PROVE RowsKept
  <2>1. CASE CheckerMark
    BY <1>3, <2>1 DEF CheckerMark
  <2>2. CASE CheckerRead \/ CheckerKick
    BY <1>1, <2>2 DEF CheckerRead, CheckerKick
  <2> QED
    BY <1>6, <2>1, <2>2 DEF Checker
<1>7. ASSUME \/ Toggle \/ Tick \/ TkCrash \/ UNCHANGED tkVars
             \/ \E t \in Threads : \/ \E p \in Players : Chat(t, p)
                                   \/ \E i \in Ids, op \in {"delete", "pardon", "kick"} : Route(t, op, i)
      PROVE  RowsKept
  BY <1>1, <1>7 DEF Toggle, Tick, TkCrash, tkVars, Chat, Route
<1> QED
  BY <1>4, <1>5, <1>6, <1>7 DEF TkNext

\* A request that is served stays one of the model's; so does a new one.
LEMMA JobType ==
  ASSUME TkTypeOK, Used \subseteq Used', NEW t \in Threads, NEW j,
         \/ j = Idle
         \/ j \in [pc : {"forgive", "warn"}, rows : (SUBSET Used) \ {{}}]
         \/ j \in [pc : {"delete", "pardon", "kick", "send"}, row : Used],
         job' = [job EXCEPT ![t] = j]
  PROVE  job' \in [Threads -> Jobs']
<1>1. j \in Jobs
  BY DEF Jobs
<1>2. job' \in [Threads -> Jobs]
  BY <1>1 DEF TkTypeOK
<1>3. Jobs \subseteq Jobs'
  <2>1. /\ (SUBSET Used) \ {{}} \subseteq (SUBSET Used') \ {{}}
        /\ Idle' = Idle
    BY DEF Idle
  <2> QED
    BY <2>1 DEF Jobs
<1> QED
  BY <1>2, <1>3

\* Every step keeps the types of the rows, of the threads and of the history.
LEMMA TypeInduction == TkTypeOK /\ RowsKept /\ [TkNext]_tkVars => TkTypeOK'
<1> SUFFICES ASSUME TkTypeOK, RowsKept, [TkNext]_tkVars PROVE TkTypeOK'
  OBVIOUS
<1>0. Used \subseteq Used' /\ Used' \subseteq Ids /\ tk' \in [Ids -> {NoRow} \cup TkRow]
  BY DEF RowsKept, Used
<1>1. ASSUME UNCHANGED <<now, crashes, tkEnabled, checker, told, kicks, banished, forgivenAt>>,
             job' \in [Threads -> Jobs']
      PROVE  TkTypeOK'
  BY <1>0, <1>1 DEF TkTypeOK
<1>2. Jobs \subseteq Jobs'
  <2>1. Idle' = Idle
    BY DEF Idle
  <2> QED
    BY <1>0, <2>1 DEF Jobs
<1>3. ASSUME UNCHANGED job PROVE job' \in [Threads -> Jobs']
  BY <1>2, <1>3 DEF TkTypeOK
<1>4. ASSUME NEW i,
             \/ forgivenAt' = [forgivenAt EXCEPT ![i] = IF @ = Never THEN now ELSE @]
             \/ UNCHANGED forgivenAt
      PROVE  forgivenAt' \in [Ids -> 0..MaxTime \cup {Never}]
  <2>1. forgivenAt \in [Ids -> 0..MaxTime \cup {Never}] /\ now \in 0..MaxTime
    BY DEF TkTypeOK
  <2> QED
    BY <1>4, <2>1
<1>5. ASSUME NEW t \in Threads, Work(t) PROVE TkTypeOK'
  <2>1. CASE ChatForgive(t)
    <3> DEFINE i == Min(job[t].rows)
    <3>1. job[t].pc = "forgive" /\ job[t].rows \in (SUBSET Used) \ {{}}
      BY <2>1, JobFacts DEF ChatForgive
    <3>2. job[t] \in [pc : {"forgive", "warn"}, rows : (SUBSET Used) \ {{}}]
      BY <3>1 DEF TkTypeOK, Jobs, Idle
    <3>3. [job[t] EXCEPT !.pc = "warn"] \in [pc : {"forgive", "warn"}, rows : (SUBSET Used) \ {{}}]
      BY <3>2
    <3>4. job' = [job EXCEPT ![t] = [job[t] EXCEPT !.pc = "warn"]]
      BY <2>1 DEF ChatForgive
    <3>5. job' \in [Threads -> Jobs']
      BY <1>0, <3>3, <3>4, JobType
    <3>6. forgivenAt' \in [Ids -> 0..MaxTime \cup {Never}]
      BY <1>4, <2>1 DEF ChatForgive, SetForgiven
    <3> QED
      BY <1>0, <2>1, <3>5, <3>6 DEF ChatForgive, TkTypeOK
  <2>2. CASE ChatWarn(t)
    <3> DEFINE i == Min(job[t].rows)
               rest == job[t].rows \ {i}
    <3>1. job[t].pc = "warn" /\ job[t].rows \in (SUBSET Used) \ {{}} /\ i \in Used
      BY <2>2, JobFacts DEF ChatWarn
    <3>2. /\ told' \in {told, told \cup {i}}
          /\ job' = [job EXCEPT ![t] = IF rest = {} THEN Idle
                                       ELSE [pc |-> "forgive", rows |-> rest]]
      BY <2>2 DEF ChatWarn
    <3>3. rest # {} => [pc |-> "forgive", rows |-> rest] \in
                          [pc : {"forgive", "warn"}, rows : (SUBSET Used) \ {{}}]
      BY <3>1
    <3>4. told' \subseteq Used'
      BY <1>0, <3>1, <3>2 DEF TkTypeOK
    <3>5. job' \in [Threads -> Jobs']
      <4> HIDE DEF rest, i
      <4>1. CASE rest = {}
        BY <1>0, <3>2, <4>1, JobType
      <4>2. CASE rest # {}
        BY <1>0, <3>2, <3>3, <4>2, JobType
      <4> QED
        BY <4>1, <4>2
    <3> QED
      BY <1>0, <2>2, <3>4, <3>5 DEF ChatWarn, TkTypeOK
  <2>3. CASE Delete(t)
    <3>1. job' \in [Threads -> Jobs']
      BY <1>0, <2>3, JobType DEF Delete
    <3> QED
      BY <1>1, <2>3, <3>1 DEF Delete, seen
  <2>4. CASE Forgive(t)
    <3>1. job' \in [Threads -> Jobs']
      BY <1>0, <2>4, JobType DEF Forgive
    <3>2. forgivenAt' \in [Ids -> 0..MaxTime \cup {Never}]
      BY <1>4, <2>4 DEF Forgive, SetForgiven
    <3> QED
      BY <1>0, <2>4, <3>1, <3>2 DEF Forgive, TkTypeOK
  <2>5. CASE KickMark(t)
    <3>1. job[t].pc = "kick" /\ job' = [job EXCEPT ![t] = [job[t] EXCEPT !.pc = "send"]]
      BY <2>5 DEF KickMark
    <3>2. job[t] \in [pc : {"delete", "pardon", "kick", "send"}, row : Used]
      BY <3>1 DEF TkTypeOK, Jobs, Idle
    <3>3. [job[t] EXCEPT !.pc = "send"] \in [pc : {"delete", "pardon", "kick", "send"}, row : Used]
      BY <3>2
    <3>4. job' \in [Threads -> Jobs']
      BY <1>0, <3>1, <3>3, JobType
    <3> QED
      BY <1>1, <2>5, <3>4 DEF KickMark, seen
  <2>6. CASE KickSend(t)
    <3>1. job' \in [Threads -> Jobs']
      BY <1>0, <2>6, JobType DEF KickSend
    <3>2. job[t].row \in Used
      BY <2>6, JobFacts DEF KickSend
    <3>3. banished' \subseteq Used'
      BY <1>0, <2>6, <3>2 DEF KickSend, TkTypeOK
    <3> QED
      BY <1>0, <2>6, <3>1, <3>3 DEF KickSend, TkTypeOK
  <2> QED
    BY <1>5, <2>1, <2>2, <2>3, <2>4, <2>5, <2>6 DEF Work
<1>6. ASSUME NEW t \in Threads, NEW p \in Players, Chat(t, p) PROVE TkTypeOK'
  <2> DEFINE found == {i \in Ids : Pending(i) /\ tk[i].player = p /\ tk[i].expiresAt > now}
  <2>1. found # {} /\ job' = [job EXCEPT ![t] = [pc |-> "forgive", rows |-> found]]
    BY <1>6 DEF Chat
  <2>2. found \subseteq Used
    BY DEF Pending, Rows, Used, NoRow
  <2>3. [pc |-> "forgive", rows |-> found] \in
            [pc : {"forgive", "warn"}, rows : (SUBSET Used) \ {{}}]
    BY <2>1, <2>2
  <2>4. job' \in [Threads -> Jobs']
    <3> HIDE DEF found
    <3> QED
      BY <1>0, <2>1, <2>3, JobType
  <2> QED
    BY <1>1, <1>6, <2>4 DEF Chat, seen
<1>7. ASSUME NEW t \in Threads, NEW i \in Ids, NEW op \in {"delete", "pardon", "kick"},
             Route(t, op, i)
      PROVE  TkTypeOK'
  <2>1. i \in Used /\ job' = [job EXCEPT ![t] = [pc |-> op, row |-> i]]
    BY <1>7 DEF Route, Rows, Used, NoRow
  <2>2. [pc |-> op, row |-> i] \in [pc : {"delete", "pardon", "kick", "send"}, row : Used]
    BY <2>1
  <2>3. job' \in [Threads -> Jobs']
    BY <1>0, <2>1, <2>2, JobType
  <2> QED
    BY <1>1, <1>7, <2>3 DEF Route, seen
<1>8. ASSUME Checker PROVE TkTypeOK'
  <2>1. job' \in [Threads -> Jobs']
    BY <1>3, <1>8 DEF Checker, CheckerRead, CheckerKick, CheckerMark
  <2>2. /\ checker' \in [pc : {"sleep", "kick", "mark"}, rows : SUBSET Used']
        /\ checker'.pc # "sleep" => checker'.rows # {}
        /\ kicks' \in [Ids -> Nat]
    <3>1. kicks \in [Ids -> Nat] /\ checker.rows \subseteq Used
          /\ checker \in [pc : {"sleep", "kick", "mark"}, rows : SUBSET Used]
      BY DEF TkTypeOK
    <3>2. CASE CheckerRead
      <4>1. Expired \subseteq Used
        BY DEF Expired, Pending, Rows, Used, NoRow
      <4>2. Expired # {} /\ checker' = [pc |-> "kick", rows |-> Expired] /\ UNCHANGED kicks
        BY <3>2 DEF CheckerRead, seen
      <4> QED
        BY <1>0, <3>1, <4>1, <4>2
    <3>3. CASE CheckerKick
      <4>1. checker' = [checker EXCEPT !.pc = "mark"] /\ checker.pc = "kick"
        BY <3>3 DEF CheckerKick
      <4>2. kicks' \in [Ids -> Nat]
        <5>1. PICK n \in 0..2 : kicks' = [kicks EXCEPT ![Min(checker.rows)] = @ + n]
          BY <3>3 DEF CheckerKick
        <5>2. kicks \in [Ids -> Nat]
          BY DEF TkTypeOK
        <5>3. ASSUME NEW f \in [Ids -> Nat], NEW m
              PROVE  [f EXCEPT ![m] = @ + n] \in [Ids -> Nat]
          <6>1. ASSUME NEW i \in Ids PROVE f[i] + n \in Nat
            OBVIOUS
          <6> QED
            BY <6>1
        <5> QED
          BY <5>1, <5>2, <5>3
      <4>3. checker.rows # {}
        BY <4>1 DEF TkTypeOK
      <4> QED
        BY <1>0, <3>1, <4>1, <4>2, <4>3
    <3>4. CASE CheckerMark
      <4>1. CASE checker' = Asleep
        BY <3>1, <3>4, <4>1 DEF CheckerMark, Asleep, seen
      <4>2. CASE checker' # Asleep
        <5> DEFINE rest == checker.rows \ {Min(checker.rows)}
        <5>1. rest # {} /\ checker' = [pc |-> "kick", rows |-> rest] /\ rest \subseteq Used
          BY <3>1, <3>4, <4>2 DEF CheckerMark
        <5>2. UNCHANGED kicks
          BY <3>4 DEF CheckerMark, seen
        <5> HIDE DEF rest
        <5> QED
          BY <1>0, <3>1, <5>1, <5>2
      <4> QED
        BY <4>1, <4>2
    <3> QED
      BY <1>8, <3>2, <3>3, <3>4 DEF Checker
  <2>3. UNCHANGED <<now, crashes, tkEnabled, told, banished, forgivenAt>>
    BY <1>8 DEF Checker, CheckerRead, CheckerKick, CheckerMark, seen
  <2> QED
    BY <1>0, <2>1, <2>2, <2>3 DEF TkTypeOK
<1>9. CASE TkCrash
  <2>1. job' \in [Threads -> Jobs']
    BY <1>9 DEF TkCrash, Jobs, Idle
  <2>2. /\ checker' \in [pc : {"sleep", "kick", "mark"}, rows : SUBSET Used']
        /\ checker'.pc = "sleep"
    BY <1>9 DEF TkCrash, Asleep
  <2>3. crashes' \in 0..MaxCrashes
    BY <1>9, TkAssumption DEF TkCrash, TkTypeOK
  <2>4. UNCHANGED <<now, tkEnabled, told, kicks, banished, forgivenAt>>
    BY <1>9 DEF TkCrash, seen
  <2>5. /\ now' \in 0..MaxTime /\ tkEnabled' \in BOOLEAN
        /\ told' \subseteq Used' /\ kicks' \in [Ids -> Nat] /\ banished' \subseteq Used'
        /\ forgivenAt' \in [Ids -> 0..MaxTime \cup {Never}]
    BY <1>0, <2>4 DEF TkTypeOK
  <2> QED
    BY <1>0, <2>1, <2>2, <2>3, <2>5 DEF TkTypeOK
<1>10. CASE Tick \/ Toggle
  <2>1. now' \in 0..MaxTime /\ tkEnabled' \in BOOLEAN
    <3>1. CASE Tick
      BY <3>1, TkAssumption DEF Tick, TkTypeOK
    <3>2. CASE Toggle
      BY <3>2 DEF Toggle, TkTypeOK
    <3> QED
      BY <1>10, <3>1, <3>2
  <2>2. UNCHANGED <<crashes, checker, told, kicks, banished, forgivenAt, job>>
    BY <1>10 DEF Tick, Toggle, seen
  <2> QED
    BY <1>0, <1>3, <2>1, <2>2 DEF TkTypeOK
<1>11. ASSUME UNCHANGED tkVars \/ \E p \in Players : TeamKill(p) \/ Create(p) PROVE TkTypeOK'
  BY <1>1, <1>3, <1>11 DEF tkVars, TeamKill, Create, seen
<1> QED
  BY <1>5, <1>6, <1>7, <1>8, <1>9, <1>10, <1>11 DEF TkNext

--------------------------------------------------------------------------------
(* The checker.                                                             *)

\* An apology is recorded in a row, and only a row is kicked for.
LEMMA RecordedInduction ==
  TkTypeOK /\ RowsKept /\ Recorded /\ [TkNext]_tkVars => Recorded'
<1> SUFFICES ASSUME TkTypeOK, RowsKept, Recorded, [TkNext]_tkVars, NEW i \in Ids
             PROVE  /\ i \notin Used' => kicks'[i] = 0
                    /\ forgivenAt'[i] # Never =>
                         i \in Used' /\ (tk'[i].there => tk'[i].forgiven)
  BY DEF Recorded, Ids
<1>0. /\ Used \subseteq Used' /\ (i \in Used => RowKept(i))
      /\ kicks \in [Ids -> Nat] /\ forgivenAt \in [Ids -> 0..MaxTime \cup {Never}]
      /\ tk \in [Ids -> {NoRow} \cup TkRow]
  BY DEF RowsKept, TkTypeOK
<1>1. /\ i \notin Used => kicks[i] = 0
      /\ forgivenAt[i] # Never => i \in Used /\ (tk[i].there => tk[i].forgiven)
  BY DEF Recorded
<1>2. i \notin Used' => kicks'[i] = 0
  <2>1. CASE CheckerKick
    <3>1. Min(checker.rows) \in Used
      BY <2>1, CheckerFacts DEF CheckerKick
    <3>2. \E n \in 0..2 : kicks' = [kicks EXCEPT ![Min(checker.rows)] = @ + n]
      BY <2>1 DEF CheckerKick
    <3> QED
      BY <1>0, <1>1, <3>1, <3>2
  <2>2. CASE UNCHANGED kicks
    BY <1>0, <1>1, <2>2
  <2> QED
    BY <2>1, <2>2 DEF TkNext, TeamKill, Create, Toggle, Chat, Route, Work, ChatForgive, ChatWarn,
       Delete, Forgive, KickMark, KickSend, Checker, CheckerRead, CheckerMark, Tick, TkCrash,
       tkVars, seen
<1>3. forgivenAt'[i] # Never => i \in Used' /\ (tk'[i].there => tk'[i].forgiven)
  <2>1. ASSUME NEW k, SetForgiven(k), forgivenAt'[i] # Never
        PROVE  i \in Used' /\ (tk'[i].there => tk'[i].forgiven)
    <3>1. CASE forgivenAt[i] # Never
      BY <1>0, <1>1, <3>1 DEF RowKept
    <3>2. CASE forgivenAt[i] = Never
      <4>1. k = i /\ k \in Rows
        BY <1>0, <2>1, <3>2 DEF SetForgiven
      <4>2. i \in Used /\ tk[i] \in TkRow
        BY <1>0, <4>1 DEF Rows, Used, NoRow
      <4>3. tk' = [tk EXCEPT ![i].forgiven = TRUE]
        BY <2>1, <4>1 DEF SetForgiven
      <4>4. tk'[i].forgiven
        BY <1>0, <4>2, <4>3 DEF TkRow
      <4> QED
        BY <1>0, <4>2, <4>4
    <3> QED
      BY <3>1, <3>2
  <2>2. CASE UNCHANGED forgivenAt
    BY <1>0, <1>1, <2>2 DEF RowKept
  <2> QED
    BY <2>1, <2>2 DEF TkNext, TeamKill, Create, Toggle, Chat, Route, Work, ChatForgive, ChatWarn,
       Delete, Forgive, KickMark, KickSend, Checker, CheckerRead, CheckerKick, CheckerMark,
       Tick, TkCrash, tkVars, seen
<1> QED
  BY <1>2, <1>3

\* An apology that comes after the deadline is none; the checker kicks after it.
LEMMA DueFirstInduction ==
  TkTypeOK /\ RowsKept /\ Recorded /\ DueFirst /\ [TkNext]_tkVars => DueFirst'
<1> SUFFICES ASSUME TkTypeOK, RowsKept, Recorded, DueFirst, [TkNext]_tkVars,
                    NEW i \in Ids, kicks'[i] > 0 \/ i \in checker'.rows
             PROVE  i \in Used' /\ tk'[i].expiresAt <= now' /\ ~Protected(i)'
  BY DEF DueFirst, Ids
<1>0. /\ Used \subseteq Used' /\ (i \in Used => RowKept(i))
      /\ kicks \in [Ids -> Nat] /\ forgivenAt \in [Ids -> 0..MaxTime \cup {Never}]
      /\ tk \in [Ids -> {NoRow} \cup TkRow]
      /\ now \in 0..MaxTime /\ (i \in Used => tk[i].expiresAt \in Int)
  <2>1. /\ Used \subseteq Used' /\ (i \in Used => RowKept(i))
        /\ kicks \in [Ids -> Nat] /\ forgivenAt \in [Ids -> 0..MaxTime \cup {Never}]
        /\ tk \in [Ids -> {NoRow} \cup TkRow] /\ now \in 0..MaxTime
    BY DEF RowsKept, TkTypeOK
  <2>2. i \in Used => tk[i] \in TkRow
    BY <2>1 DEF Used
  <2> QED
    BY <2>1, <2>2, RowFacts
<1>1. now' \in Int /\ now' >= now
  <2>1. now' = now \/ now' = now + 1
    BY DEF TkNext, TeamKill, Create, Toggle, Chat, Route, Work, ChatForgive, ChatWarn, Delete,
       Forgive, KickMark, KickSend, Checker, CheckerRead, CheckerKick, CheckerMark, Tick,
       TkCrash, tkVars
  <2> QED
    BY <1>0, <2>1
<1>2. i \in Used /\ tk[i].expiresAt <= now /\ ~Protected(i)
  <2>1. CASE kicks[i] > 0 \/ i \in checker.rows
    BY <2>1 DEF DueFirst
  <2>2. CASE CheckerRead
    <3>1. UNCHANGED kicks /\ checker'.rows = Expired
      BY <2>2 DEF CheckerRead, seen
    <3>2. CASE kicks'[i] > 0
      BY <2>1, <3>1, <3>2
    <3>3. CASE i \in Expired
      <4>1. i \in Rows /\ ~tk[i].forgiven /\ tk[i].expiresAt <= now
        BY <3>3 DEF Expired, Pending
      <4> QED
        BY <4>1 DEF Recorded, Rows, Used, NoRow, Protected
    <3> QED
      BY <3>1, <3>2, <3>3
  <2>3. CASE CheckerKick
    <3>1. Min(checker.rows) \in checker.rows
      BY <2>3, CheckerFacts DEF CheckerKick
    <3>2. /\ \E n \in 0..2 : kicks' = [kicks EXCEPT ![Min(checker.rows)] = @ + n]
          /\ checker' = [checker EXCEPT !.pc = "mark"]
      BY <2>3 DEF CheckerKick
    <3>3. checker'.rows = checker.rows
      BY <3>2 DEF TkTypeOK
    <3>4. kicks[i] > 0 \/ i \in checker.rows
      BY <1>0, <3>1, <3>2, <3>3
    <3> QED
      BY <2>1, <3>4
  <2>4. CASE CheckerMark
    <3>1. UNCHANGED kicks /\ checker'.rows \subseteq checker.rows
      BY <2>4 DEF CheckerMark, Asleep, seen
    <3> QED
      BY <2>1, <3>1
  <2>5. CASE TkCrash
    <3>1. UNCHANGED kicks /\ checker'.rows = {}
      BY <2>5 DEF TkCrash, Asleep, seen
    <3> QED
      BY <2>1, <3>1
  <2>6. CASE UNCHANGED <<kicks, checker>>
    BY <2>1, <2>6
  <2> QED
    BY <2>2, <2>3, <2>4, <2>5, <2>6 DEF TkNext, TeamKill, Create, Toggle, Chat, Route, Work,
       ChatForgive, ChatWarn, Delete, Forgive, KickMark, KickSend, Checker, Tick, tkVars, seen
<1>3. tk'[i].expiresAt = tk[i].expiresAt
  BY <1>0, <1>2 DEF RowKept
<1>4. ~Protected(i)'
  <2>1. CASE forgivenAt'[i] = forgivenAt[i]
    BY <1>2, <1>3, <2>1 DEF Protected, Never
  <2>2. CASE forgivenAt'[i] # forgivenAt[i]
    <3>1. \E k : SetForgiven(k)
      BY <2>2 DEF TkNext, TeamKill, Create, Toggle, Chat, Route, Work, ChatForgive, ChatWarn,
       Delete, Forgive, KickMark, KickSend, Checker, CheckerRead, CheckerKick, CheckerMark,
       Tick, TkCrash, tkVars, seen
    <3>2. forgivenAt'[i] = now
      BY <1>0, <2>2, <3>1 DEF SetForgiven
    <3> QED
      BY <1>0, <1>2, <1>3, <3>2 DEF Protected
  <2> QED
    BY <2>1, <2>2
<1> QED
  BY <1>0, <1>1, <1>2, <1>3, <1>4

\* No step makes a row pending that was there and was not.
LEMMA PendingKept ==
  ASSUME TkTypeOK, RowsKept, NEW i \in Used, Pending(i)'
  PROVE  Pending(i)
<1>1. i \in Ids /\ RowKept(i)
  BY DEF RowsKept, Used
<1> QED
  BY <1>1 DEF Pending, Rows, RowKept

\* A kick is followed by the UPDATE that takes the row away from the checker, or
\* by a restart.
LEMMA KickBudgetInduction ==
  TkTypeOK /\ RowsKept /\ Recorded /\ KickBudget /\ [TkNext]_tkVars => KickBudget'
<1> SUFFICES ASSUME TkTypeOK, RowsKept, Recorded, KickBudget, [TkNext]_tkVars, NEW i \in Ids
             PROVE  /\ kicks'[i] <= 2 * (crashes' + 1)
                    /\ ToKick(i)' => kicks'[i] <= 2 * crashes'
  BY DEF KickBudget, Ids
<1>0. /\ kicks \in [Ids -> Nat] /\ crashes \in Nat
      /\ checker.rows \subseteq Used
      /\ checker \in [pc : {"sleep", "kick", "mark"}, rows : SUBSET Used]
  BY DEF TkTypeOK
<1>1. kicks[i] <= 2 * (crashes + 1) /\ (ToKick(i) => kicks[i] <= 2 * crashes)
  BY DEF KickBudget
<1>2. i \notin Used => kicks[i] = 0
  BY DEF Recorded
<1>3. i \in Used /\ Pending(i)' => Pending(i)
  BY PendingKept
<1>4. CASE CheckerRead
  <2>1. /\ UNCHANGED <<kicks, crashes, tk>> /\ checker.pc = "sleep"
        /\ checker' = [pc |-> "kick", rows |-> Expired]
    BY <1>4 DEF CheckerRead, Asleep, seen
  <2>2. i \in Expired => Pending(i)
    BY DEF Expired
  <2>3. Pending(i)' => Pending(i)
    BY <2>1 DEF Pending, Rows
  <2>4. ToKick(i)' => ToKick(i)
    BY <2>1, <2>2, <2>3 DEF ToKick
  <2> QED
    BY <1>1, <2>1, <2>4
<1>5. CASE CheckerKick
  <2> DEFINE m == Min(checker.rows)
  <2>1. m \in checker.rows /\ checker.pc = "kick"
    BY <1>5, CheckerFacts DEF CheckerKick
  <2>2. /\ \E n \in 0..2 : kicks' = [kicks EXCEPT ![m] = @ + n]
        /\ checker' = [checker EXCEPT !.pc = "mark"] /\ UNCHANGED <<crashes, tk>>
    BY <1>5 DEF CheckerKick
  <2>3. checker'.rows = checker.rows /\ checker'.pc = "mark"
    BY <1>0, <2>2
  <2>4. CASE i = m
    <3>1. kicks[i] <= 2 * crashes
      BY <1>1, <2>1, <2>4 DEF ToKick
    <3>2. ~ToKick(i)'
      BY <2>3, <2>4 DEF ToKick
    <3>3. kicks'[i] <= kicks[i] + 2
      <4> HIDE DEF m
      <4> QED
        BY <1>0, <2>2
    <3>4. kicks'[i] \in Nat
      <4> HIDE DEF m
      <4> QED
        BY <1>0, <2>2
    <3> QED
      BY <1>0, <2>2, <3>1, <3>2, <3>3, <3>4
  <2>5. CASE i # m
    <3>1. kicks'[i] = kicks[i]
      BY <1>0, <2>2, <2>5
    <3>2. Pending(i)' => Pending(i)
      BY <2>2 DEF Pending, Rows
    <3>3. ToKick(i)' => ToKick(i)
      BY <2>1, <2>3, <3>2 DEF ToKick
    <3> QED
      BY <1>1, <2>2, <3>1, <3>3
  <2> QED
    BY <2>4, <2>5
<1>6. CASE CheckerMark
  <2>0. Min(checker.rows) \in checker.rows /\ checker.pc = "mark"
    BY <1>6, CheckerFacts DEF CheckerMark
  <2>1. PICK m \in Used : m \in checker.rows /\ m = Min(checker.rows)
    BY <1>0, <2>0
  <2>2. /\ checker'.pc # "mark" /\ checker'.rows \subseteq checker.rows \ {m}
        /\ UNCHANGED <<kicks, crashes>> /\ SetKicked(m)
    BY <1>6, <2>1 DEF CheckerMark, Asleep, seen
  <2>3. ~Pending(m)'
    <3>1. CASE m \in Rows
      <4>1. m \in Ids /\ tk[m] \in TkRow /\ tk \in [Ids -> {NoRow} \cup TkRow]
        BY <2>1 DEF Used, TkTypeOK
      <4>2. tk' = [tk EXCEPT ![m] = [tk[m] EXCEPT !.kicked = TRUE]]
        BY <2>2, <3>1 DEF SetKicked
      <4>3. tk'[m] = [tk[m] EXCEPT !.kicked = TRUE]
        BY <4>1, <4>2
      <4>4. tk'[m].kicked
        BY <4>1, <4>3 DEF TkRow
      <4> QED
        BY <4>4 DEF Pending
    <3>2. CASE m \notin Rows
      BY <2>2, <3>2 DEF SetKicked, Pending, Rows
    <3> QED
      BY <3>1, <3>2
  <2>4. CASE i = m
    BY <1>1, <2>2, <2>3, <2>4 DEF ToKick
  <2>5. CASE i # m
    <3>1. i \in Used /\ ToKick(i)' => ToKick(i)
      BY <1>3, <2>0, <2>1, <2>2, <2>5 DEF ToKick
    <3> QED
      BY <1>0, <1>1, <1>2, <2>2, <3>1
  <2> QED
    BY <2>4, <2>5
<1>7. CASE TkCrash
  <2>1. crashes' = crashes + 1 /\ UNCHANGED kicks
    BY <1>7 DEF TkCrash, seen
  <2> QED
    BY <1>0, <1>1, <2>1
<1>8. CASE UNCHANGED <<kicks, checker, crashes>>
  <2>1. i \in Used /\ ToKick(i)' => ToKick(i)
    BY <1>3, <1>8 DEF ToKick
  <2> QED
    BY <1>0, <1>1, <1>2, <1>8, <2>1
<1> QED
  BY <1>4, <1>5, <1>6, <1>7, <1>8 DEF TkNext, TeamKill, Create, Toggle, Chat, Route, Work,
     ChatForgive, ChatWarn, Delete, Forgive, KickMark, KickSend, Checker, Tick, tkVars, seen

\* A deadline is not moved, and a row is given one that is far enough away.
LEMMA DeadlinesInduction ==
  ASSUME Zone >= 0 \/ "create" \notin Ops
  PROVE  TkTypeOK /\ RowsKept /\ Deadlines /\ [TkNext]_tkVars => Deadlines'
<1> SUFFICES ASSUME TkTypeOK, RowsKept, Deadlines, [TkNext]_tkVars, NEW i \in Used'
             PROVE  tk'[i].expiresAt >= tk'[i].createdAt + Secs
  BY DEF Deadlines
<1>1. now \in Int /\ Secs \in Int /\ Zone \in Int
  BY TkAssumption DEF TkTypeOK
<1>2. CASE i \in Used
  BY <1>2 DEF Deadlines, RowsKept, RowKept
<1>3. CASE i \notin Used
  <2>1. /\ tk'[i].createdAt = now
        /\ \/ tk'[i].expiresAt = now + Secs
           \/ "create" \in Ops /\ tk'[i].expiresAt = now + Secs + Zone
    BY <1>3 DEF RowsKept
  <2> QED
    BY <1>1, <2>1
<1> QED
  BY <1>2, <1>3

--------------------------------------------------------------------------------
(* The theorems.                                                            *)

\* The state of the rows and of the checker.
KickInv == TkTypeOK /\ Numbered /\ Recorded /\ DueFirst /\ KickBudget

\* With no row there is nobody to kick.
LEMMA KickInit == TkInit => KickInv /\ Deadlines
<1> SUFFICES ASSUME TkInit PROVE KickInv /\ Deadlines
  OBVIOUS
<1>1. Used = {} /\ checker.rows = {} /\ checker.pc = "sleep"
  BY DEF TkInit, Used, Asleep
<1>2. TkTypeOK
  <2>1. job \in [Threads -> Jobs]
    BY DEF TkInit, Jobs
  <2>2. tk \in [Ids -> {NoRow} \cup TkRow] /\ kicks \in [Ids -> Nat]
        /\ forgivenAt \in [Ids -> 0..MaxTime \cup {Never}]
    BY DEF TkInit
  <2>3. checker \in [pc : {"sleep", "kick", "mark"}, rows : SUBSET Used]
    BY DEF TkInit, Asleep
  <2>4. now \in 0..MaxTime /\ crashes \in 0..MaxCrashes /\ tkEnabled \in BOOLEAN
    BY TkAssumption DEF TkInit
  <2>5. told \subseteq Used /\ banished \subseteq Used
    BY DEF TkInit
  <2> QED
    BY <1>1, <2>1, <2>2, <2>3, <2>4, <2>5 DEF TkTypeOK
<1>3. Numbered
  BY <1>1, FS_EmptySet DEF Numbered
<1>4. Recorded /\ DueFirst /\ KickBudget /\ Deadlines
  BY <1>1 DEF TkInit, Recorded, DueFirst, KickBudget, Deadlines
<1> QED
  BY <1>2, <1>3, <1>4 DEF KickInv

\* Every step keeps it.
LEMMA KickInduction == KickInv /\ [TkNext]_tkVars => KickInv'
<1> SUFFICES ASSUME KickInv, [TkNext]_tkVars PROVE KickInv'
  OBVIOUS
<1>1. RowsKept
  BY StepRows DEF KickInv
<1>2. Numbered'
  BY <1>1 DEF RowsKept
<1> QED
  BY <1>1, <1>2, TypeInduction, RecordedInduction, DueFirstInduction, KickBudgetInduction
  DEF KickInv

\* The checker kicks nobody who was forgiven in time, and sends a kick for one team
\* kill only once unless the panel went down before it could write the kick down,
\* the retry of RconPool doubling each.
THEOREM CheckerIsJust == TkSpec => []KicksJustified
<1>1. KickInv => KicksJustified
  <2> SUFFICES ASSUME KickInv PROVE KicksJustified
    OBVIOUS
  <2>1. TkTypeOK /\ DueFirst /\ KickBudget
    BY DEF KickInv
  <2>2. ForgivenInTimeIsSafe
    <3> SUFFICES ASSUME NEW i \in Ids, Protected(i) PROVE kicks[i] = 0
      BY DEF ForgivenInTimeIsSafe, Protected
    <3>1. ~(kicks[i] > 0) /\ kicks[i] \in Nat
      BY <2>1 DEF DueFirst, TkTypeOK
    <3> QED
      BY <3>1
  <2>3. KicksBounded
    BY <2>1 DEF KicksBounded, KickBudget, TkTypeOK
  <2> QED
    BY <2>1, <2>2, <2>3 DEF KicksJustified
<1> QED
  BY <1>1, KickInit, KickInduction, PTL DEF TkSpec

\* The checker kicks nobody before the time for an apology has passed, as long
\* as the route that creates rows is not used or the panel's clock is not behind
\* UTC.
THEOREM TimeToApologise ==
  ASSUME Zone >= 0 \/ "create" \notin Ops
  PROVE  TkSpec => NeverKickedEarly
<1> DEFINE Inv == KickInv /\ Deadlines
<1>1. TkInit => Inv
  BY KickInit
<1>2. Inv /\ [TkNext]_tkVars => Inv'
  BY KickInduction, StepRows, DeadlinesInduction DEF KickInv
<1>3. Inv /\ [TkNext]_tkVars => [\A i \in Ids : kicks'[i] # kicks[i] => now >= tk[i].createdAt + Secs]_tkVars
  <2> SUFFICES ASSUME Inv, [TkNext]_tkVars, NEW i \in Ids, kicks'[i] # kicks[i]
               PROVE  now >= tk[i].createdAt + Secs
    OBVIOUS
  <2>1. TkTypeOK /\ DueFirst /\ Deadlines
    BY DEF KickInv
  <2>2. CheckerKick
    BY DEF TkNext, TeamKill, Create, Toggle, Chat, Route, Work, ChatForgive, ChatWarn, Delete,
       Forgive, KickMark, KickSend, Checker, CheckerRead, CheckerMark, Tick, TkCrash, tkVars, seen
  <2>3. i \in checker.rows
    <3>1. \E n \in 0..2 : kicks' = [kicks EXCEPT ![Min(checker.rows)] = @ + n]
      BY <2>2 DEF CheckerKick
    <3>2. i = Min(checker.rows)
      BY <2>1, <3>1 DEF TkTypeOK
    <3> QED
      BY <2>1, <2>2, <3>2, CheckerFacts DEF CheckerKick
  <2>4. i \in Used /\ tk[i].expiresAt <= now
    BY <2>1, <2>3 DEF DueFirst
  <2>5. tk[i].expiresAt >= tk[i].createdAt + Secs
    BY <2>1, <2>4 DEF Deadlines
  <2>6. tk[i] \in TkRow /\ now \in Int /\ Secs \in Int
    BY <2>1, <2>4, TkAssumption DEF TkTypeOK, Used
  <2>7. tk[i].expiresAt \in Int /\ tk[i].createdAt \in Int
    BY <2>6, RowFacts
  <2> QED
    BY <2>4, <2>5, <2>6, <2>7
<1> QED
  BY <1>1, <1>2, <1>3, PTL DEF TkSpec, NeverKickedEarly

--------------------------------------------------------------------------------
(* The log file and its lines: what is in the file and not yet read is new.  *)

\* The last half line the game server has written, or is at.
Reached == IF MidLine THEN Last(file) ELSE 2 * written

\* The bytes of the file are written in order; two of a line and its end.
Growing ==
    /\ \A i, j \in DOMAIN file : i < j /\ file[i] # NL /\ file[j] # NL => file[i] < file[j]
    /\ \A i \in DOMAIN file : file[i] <= Reached
    /\ MidLine => Last(file) \in {2 * written - 1, 2 * written}
    /\ Len(file) <= 3 * written - (IF MidLine THEN 2 * written + 1 - Last(file) ELSE 0)

\* These lines are not empty, and each ends before the next begins.
Ascending(ls) ==
    /\ \A n \in DOMAIN ls : ls[n] # <<>>
    /\ \A n, m \in DOMAIN ls : n < m =>
            \A k \in DOMAIN ls[n], l \in DOMAIN ls[m] : ls[n][k] < ls[m][l]

\* They end before h.
Before(ls, h) == \A n \in DOMAIN ls : \A k \in DOMAIN ls[n] : ls[n][k] < h

\* No byte behind the position has been posted.
Fresh == \A i \in DOMAIN file : i > lastFilePos /\ file[i] # NL => Before(posted, file[i])

TailerInv ==
    /\ TailerTypeOK /\ Growing /\ Fresh
    /\ Ascending(posted \o lines) /\ Before(posted \o lines, Reached + 1)
    /\ pc = "post" => lastFilePos = npos

--------------------------------------------------------------------------------
(* What Split makes of the bytes.                                           *)

\* -1, as an unsigned integer, is behind every place in a file.
LEMMA NposFacts ==
  npos \in Nat /\ 3 * MaxLines < npos /\ PositionAfterRead = npos
<1>1. Width \in Nat /\ MaxLines \in Nat /\ 3 * MaxLines < 2^Width - 1
  BY TailerAssumption
<1>2. IsFiniteSet(1..Width) /\ Cardinality(1..Width) = Width
  BY <1>1, FS_Interval
<1>3. IsFiniteSet(SUBSET (1..Width)) /\ Cardinality(SUBSET (1..Width)) = 2^Width
  BY <1>2, FS_SUBSET
<1>4. 2^Width \in Nat
  BY <1>3, FS_CardinalityType
<1>5. PICK w \in Nat : w = 2^Width
  BY <1>4
<1>6. 3 * MaxLines < w - 1 /\ npos = w - 1 /\ PositionAfterRead = (-1) % w
  BY <1>1, <1>5 DEF npos, PositionAfterRead
<1>7. w > 1 /\ (-1) % w = w - 1
  BY <1>1, <1>6
<1> QED
  BY <1>1, <1>6, <1>7

\* A line goes from its beginning to a place before the next NL.
LEMMA LineEnds ==
  ASSUME NEW T, NEW bytes \in Seq(T), NEW i \in Begins(bytes)
  PROVE  /\ i \in DOMAIN bytes /\ Ends(bytes, i) \in i..Len(bytes)
         /\ \A k \in i..Ends(bytes, i) : bytes[k] # NL
<1> DEFINE J == {j \in i..Len(bytes) : \A k \in i..j : bytes[k] # NL}
<1>1. i \in 1..Len(bytes) /\ bytes[i] # NL /\ Len(bytes) \in Nat
  BY DEF Begins
<1>2. i \in J
  BY <1>1
<1>3. J \in SUBSET Nat /\ J # {} /\ \A j \in J : j <= Len(bytes)
  BY <1>1, <1>2
<1>4. Max(J) \in J
  BY <1>1, <1>3, MaxIsLast
<1>5. Ends(bytes, i) = Max(J)
  BY DEF Ends
<1> QED
  BY <1>1, <1>4, <1>5

\* How Split cuts the bytes: from b[n] to e[n], without an NL, and one piece after the
\* other.
Cuts(bytes, c, b, e) ==
    /\ c \in Nat /\ b \in [1..c -> DOMAIN bytes] /\ e \in [1..c -> DOMAIN bytes]
    /\ Split(bytes) = [n \in 1..c |-> SubSeq(bytes, b[n], e[n])]
    /\ \A n \in 1..c : b[n] <= e[n] /\ \A k \in b[n]..e[n] : bytes[k] # NL
    /\ \A n, m \in 1..c : n < m => e[n] < b[m]

\* Split cuts them so.
LEMMA SplitParts ==
  ASSUME NEW T, NEW bytes \in Seq(T)
  PROVE  \E c, b, e : Cuts(bytes, c, b, e)
<1> DEFINE B == Begins(bytes)
           b == InOrder(B)
           c == Cardinality(B)
           e == [n \in 1..c |-> Ends(bytes, b[n])]
<1>1. DOMAIN bytes = 1..Len(bytes) /\ Len(bytes) \in Nat
  OBVIOUS
<1>2. B \in SUBSET (1..Len(bytes)) /\ B \in SUBSET Nat /\ IsFiniteSet(B)
  <2>1. B \in SUBSET (1..Len(bytes))
    BY <1>1 DEF Begins
  <2>2. IsFiniteSet(1..Len(bytes))
    BY <1>1, FS_Interval
  <2> QED
    BY <2>1, <2>2, FS_Subset
<1>3. c \in Nat
  BY <1>2, FS_CardinalityType
<1>4. b \in [1..c -> B] /\ \A i, j \in 1..c : i < j => b[i] < b[j]
  BY <1>2, OrderedSet
<1>5. Split(bytes) = [n \in 1..c |-> SubSeq(bytes, b[n], e[n])]
  BY <1>4 DEF Split
<1> HIDE DEF b, c
<1>6. ASSUME NEW n \in 1..c
      PROVE  /\ b[n] \in DOMAIN bytes /\ e[n] \in b[n]..Len(bytes)
             /\ \A k \in b[n]..e[n] : bytes[k] # NL
  <2>1. b[n] \in Begins(bytes) /\ e[n] = Ends(bytes, b[n])
    BY <1>4
  <2> QED
    BY <2>1, LineEnds
<1>7. e \in [1..c -> DOMAIN bytes] /\ b \in [1..c -> DOMAIN bytes]
  <2>1. \A n \in 1..c : Ends(bytes, b[n]) \in DOMAIN bytes
    <3> SUFFICES ASSUME NEW n \in 1..c PROVE Ends(bytes, b[n]) \in DOMAIN bytes
      OBVIOUS
    <3>1. b[n] \in 1..Len(bytes) /\ e[n] \in b[n]..Len(bytes) /\ e[n] = Ends(bytes, b[n])
      BY <1>1, <1>6
    <3> QED
      BY <1>1, <3>1
  <2> QED
    BY <1>1, <1>2, <1>4, <2>1
<1> HIDE DEF e
<1>8. ASSUME NEW n \in 1..c, NEW m \in 1..c, n < m
      PROVE  e[n] < b[m]
  <2>1. b[n] \in 1..Len(bytes) /\ e[n] \in b[n]..Len(bytes) /\ \A k \in b[n]..e[n] : bytes[k] # NL
    BY <1>1, <1>6
  <2>2. b[m] \in Begins(bytes) /\ b[n] < b[m]
    BY <1>4, <1>8
  <2>3. b[m] \in 1..Len(bytes) /\ (b[m] > 1 => bytes[b[m] - 1] = NL)
    BY <1>1, <2>2 DEF Begins
  <2>4. bytes[b[m] - 1] = NL /\ b[m] - 1 \in Int /\ b[n] <= b[m] - 1
    BY <1>1, <2>1, <2>2, <2>3
  <2>5. ~(b[m] - 1 <= e[n])
    <3> SUFFICES ASSUME b[m] - 1 <= e[n] PROVE FALSE
      OBVIOUS
    <3>1. b[m] - 1 \in b[n]..e[n]
      BY <1>1, <2>1, <2>4
    <3> QED
      BY <2>1, <2>4, <3>1
  <2> QED
    BY <1>1, <2>1, <2>3, <2>5
<1>9. \A n \in 1..c : b[n] <= e[n] /\ \A k \in b[n]..e[n] : bytes[k] # NL
  <2> SUFFICES ASSUME NEW n \in 1..c PROVE b[n] <= e[n] /\ \A k \in b[n]..e[n] : bytes[k] # NL
    OBVIOUS
  <2>1. b[n] \in 1..Len(bytes) /\ e[n] \in b[n]..Len(bytes)
    BY <1>1, <1>6
  <2> QED
    BY <1>1, <1>6, <2>1
<1> QED
  BY <1>3, <1>5, <1>7, <1>8, <1>9 DEF Cuts

\* The piece from one place to another: its bytes, and where they are.
LEMMA Piece ==
  ASSUME NEW T, NEW bytes \in Seq(T), NEW b \in DOMAIN bytes, NEW e \in DOMAIN bytes, b <= e,
         \A k \in b..e : bytes[k] # NL
  PROVE  /\ SubSeq(bytes, b, e) \in Seq(T \ {NL}) /\ SubSeq(bytes, b, e) # <<>>
         /\ \A k \in DOMAIN SubSeq(bytes, b, e) :
                /\ b + k - 1 \in b..e /\ b + k - 1 \in DOMAIN bytes
                /\ bytes[b + k - 1] = SubSeq(bytes, b, e)[k] /\ bytes[b + k - 1] # NL
<1> DEFINE z == e - b + 1
           s == [k \in 1..z |-> bytes[b + k - 1]]
<1>1. b \in 1..Len(bytes) /\ e \in b..Len(bytes) /\ Len(bytes) \in Nat /\ DOMAIN bytes = 1..Len(bytes)
  OBVIOUS
<1>2. SubSeq(bytes, b, e) = s
  BY <1>1
<1>3. ASSUME NEW k \in 1..z
      PROVE  b + k - 1 \in b..e /\ b + k - 1 \in DOMAIN bytes /\ bytes[b + k - 1] \in T \ {NL}
  BY <1>1
<1>4. z \in Nat /\ z # 0
  BY <1>1
<1> HIDE DEF z
<1>5. s \in [1..z -> T \ {NL}] /\ 1 \in DOMAIN s
  BY <1>3, <1>4
<1>6. s \in Seq(T \ {NL}) /\ s # <<>>
  BY <1>4, <1>5
<1>7. ASSUME NEW k \in DOMAIN s
      PROVE  /\ b + k - 1 \in b..e /\ b + k - 1 \in DOMAIN bytes
             /\ bytes[b + k - 1] = s[k] /\ bytes[b + k - 1] # NL
  <2>1. k \in 1..z /\ s[k] = bytes[b + k - 1]
    OBVIOUS
  <2> QED
    BY <1>3, <2>1
<1> QED
  BY <1>2, <1>6, <1>7

\* What Split returns: lines that are not empty, of bytes that are no NL.
LEMMA SplitLines ==
  ASSUME NEW T, NEW bytes \in Seq(T)
  PROVE  /\ Split(bytes) \in Seq(Seq(T \ {NL}))
         /\ \A n \in DOMAIN Split(bytes) : Split(bytes)[n] # <<>>
<1>1. PICK c, b, e : Cuts(bytes, c, b, e)
  BY SplitParts
<1>2. ASSUME NEW n \in 1..c
      PROVE  SubSeq(bytes, b[n], e[n]) \in Seq(T \ {NL}) /\ SubSeq(bytes, b[n], e[n]) # <<>>
  <2>1. /\ b[n] \in DOMAIN bytes /\ e[n] \in DOMAIN bytes /\ b[n] <= e[n]
        /\ \A k \in b[n]..e[n] : bytes[k] # NL
    BY <1>1 DEF Cuts
  <2> QED
    BY <2>1, Piece
<1>3. c \in Nat /\ [n \in 1..c |-> SubSeq(bytes, b[n], e[n])] \in [1..c -> Seq(T \ {NL})]
  BY <1>1, <1>2 DEF Cuts
<1>4. Split(bytes) = [n \in 1..c |-> SubSeq(bytes, b[n], e[n])]
  BY <1>1 DEF Cuts
<1> DEFINE ls == [n \in 1..c |-> SubSeq(bytes, b[n], e[n])]
<1>5. ls \in Seq(Seq(T \ {NL})) /\ DOMAIN ls = 1..c
  BY <1>3
<1>6. \A n \in DOMAIN ls : ls[n] # <<>>
  BY <1>2
<1>7. Split(bytes) = ls
  BY <1>4
<1> HIDE DEF ls
<1> QED
  BY <1>5, <1>6, <1>7

\* They are in the order of the bytes.
LEMMA SplitOrder ==
  ASSUME NEW T, NEW bytes \in Seq(T), NEW n \in DOMAIN Split(bytes), NEW m \in DOMAIN Split(bytes),
         NEW k \in DOMAIN Split(bytes)[n], NEW l \in DOMAIN Split(bytes)[m]
  PROVE  \E i, j \in DOMAIN bytes :
            /\ bytes[i] = Split(bytes)[n][k] /\ bytes[j] = Split(bytes)[m][l]
            /\ bytes[i] # NL /\ bytes[j] # NL
            /\ n < m => i < j
<1>1. PICK c, b, e : Cuts(bytes, c, b, e)
  BY SplitParts
<1>2. /\ n \in 1..c /\ m \in 1..c
      /\ Split(bytes)[n] = SubSeq(bytes, b[n], e[n]) /\ Split(bytes)[m] = SubSeq(bytes, b[m], e[m])
  BY <1>1 DEF Cuts
<1>3. ASSUME NEW x \in 1..c
      PROVE  /\ b[x] \in DOMAIN bytes /\ e[x] \in DOMAIN bytes /\ b[x] <= e[x]
             /\ \A y \in b[x]..e[x] : bytes[y] # NL
  BY <1>1 DEF Cuts
<1>4. ASSUME NEW x \in 1..c, NEW y \in DOMAIN SubSeq(bytes, b[x], e[x])
      PROVE  /\ b[x] + y - 1 \in b[x]..e[x] /\ b[x] + y - 1 \in DOMAIN bytes
             /\ bytes[b[x] + y - 1] = SubSeq(bytes, b[x], e[x])[y] /\ bytes[b[x] + y - 1] # NL
  BY <1>3, Piece
<1> DEFINE i == b[n] + k - 1
           j == b[m] + l - 1
<1>5. /\ i \in b[n]..e[n] /\ i \in DOMAIN bytes /\ bytes[i] = Split(bytes)[n][k] /\ bytes[i] # NL
      /\ j \in b[m]..e[m] /\ j \in DOMAIN bytes /\ bytes[j] = Split(bytes)[m][l] /\ bytes[j] # NL
  BY <1>2, <1>4
<1> HIDE DEF i, j
<1>6. n < m => i < j
  <2> SUFFICES ASSUME n < m PROVE i < j
    OBVIOUS
  <2>1. e[n] < b[m]
    BY <1>1, <1>2 DEF Cuts
  <2>2. /\ e[n] \in DOMAIN bytes /\ b[m] \in DOMAIN bytes /\ b[n] \in DOMAIN bytes
        /\ e[m] \in DOMAIN bytes
    BY <1>2, <1>3
  <2>3. DOMAIN bytes \subseteq Nat
    OBVIOUS
  <2>4. e[n] \in Nat /\ b[m] \in Nat /\ b[n] \in Nat /\ e[m] \in Nat
    BY <2>2, <2>3
  <2> QED
    BY <1>5, <2>1, <2>4
<1> QED
  BY <1>5, <1>6

--------------------------------------------------------------------------------
(* What the tailer does to the lines.                                       *)

\* Lines that come first are ordered as all are.
LEMMA FirstLines ==
  ASSUME NEW p \in Seq(Seq(Nat)), NEW l \in Seq(Seq(Nat)), NEW h \in Nat,
         Ascending(p \o l), Before(p \o l, h)
  PROVE  Ascending(p) /\ Before(p, h)
<1>1. /\ DOMAIN p = 1..Len(p) /\ DOMAIN (p \o l) = 1..(Len(p) + Len(l)) /\ Len(p) \in Nat /\ Len(l) \in Nat
      /\ \A n \in 1..Len(p) : (p \o l)[n] = p[n]
  OBVIOUS
<1>2. \A n \in DOMAIN p : n \in DOMAIN (p \o l) /\ (p \o l)[n] = p[n]
  BY <1>1
<1> QED
  BY <1>2 DEF Ascending, Before

\* Lines that follow others in order.
LEMMA JoinLines ==
  ASSUME NEW p \in Seq(Seq(Nat)), NEW l \in Seq(Seq(Nat)), NEW h \in Nat,
         Ascending(p), Before(p, h), Ascending(l), Before(l, h),
         \A n \in DOMAIN l : \A k \in DOMAIN l[n] : Before(p, l[n][k])
  PROVE  Ascending(p \o l) /\ Before(p \o l, h)
<1> DEFINE s == p \o l
<1>1. /\ DOMAIN p = 1..Len(p) /\ DOMAIN l = 1..Len(l) /\ DOMAIN s = 1..(Len(p) + Len(l))
      /\ Len(p) \in Nat /\ Len(l) \in Nat
      /\ \A n \in 1..Len(p) : s[n] = p[n]
      /\ \A n \in 1..(Len(p) + Len(l)) : n > Len(p) => s[n] = l[n - Len(p)]
  OBVIOUS
<1> HIDE DEF s
<1>2. ASSUME NEW n \in DOMAIN s
      PROVE  \/ n \in DOMAIN p /\ s[n] = p[n]
             \/ n > Len(p) /\ n - Len(p) \in DOMAIN l /\ s[n] = l[n - Len(p)]
  BY <1>1
<1>3. Before(s, h) /\ \A n \in DOMAIN s : s[n] # <<>>
  BY <1>2 DEF Ascending, Before
<1>4. ASSUME NEW n \in DOMAIN s, NEW m \in DOMAIN s, n < m, NEW k \in DOMAIN s[n], NEW j \in DOMAIN s[m]
      PROVE  s[n][k] < s[m][j]
  <2>1. CASE n \in DOMAIN p /\ m \in DOMAIN p
    <3>1. s[n] = p[n] /\ s[m] = p[m]
      BY <1>1, <2>1
    <3> QED
      BY <1>4, <2>1, <3>1 DEF Ascending
  <2>2. CASE n \in DOMAIN p /\ m \notin DOMAIN p
    <3>1. s[n] = p[n] /\ m - Len(p) \in DOMAIN l /\ s[m] = l[m - Len(p)]
      BY <1>1, <1>2, <2>2
    <3> QED
      BY <1>4, <2>2, <3>1 DEF Before
  <2>3. CASE n \notin DOMAIN p
    <3>1. n - Len(p) \in DOMAIN l /\ s[n] = l[n - Len(p)] /\ n > Len(p)
      BY <1>2, <2>3
    <3>2. m > Len(p) /\ m \notin DOMAIN p
      BY <1>1, <1>4, <3>1
    <3>3. m - Len(p) \in DOMAIN l /\ s[m] = l[m - Len(p)] /\ n - Len(p) < m - Len(p)
      BY <1>1, <1>2, <1>4, <3>1, <3>2
    <3> QED
      BY <1>4, <3>1, <3>3 DEF Ascending
  <2> QED
    BY <2>1, <2>2, <2>3
<1> QED
  BY <1>3, <1>4 DEF Ascending, s

\* Facts every step needs.
LEMMA TailerFacts ==
  ASSUME TailerInv
  PROVE  /\ MaxLines \in Nat /\ written \in 0..MaxLines
         /\ Len(file) \in Nat /\ DOMAIN file = 1..Len(file)
         /\ \A i \in DOMAIN file : file[i] \in 0..2 * MaxLines
         /\ Reached \in 0..2 * written
         /\ Len(file) < npos
         /\ MidLine => /\ Len(file) >= 1 /\ Last(file) = file[Len(file)] /\ Reached = Last(file)
                       /\ Last(file) \in {2 * written - 1, 2 * written} /\ Last(file) > 0
         /\ ~MidLine => Reached = 2 * written
         /\ posted \in Seq(Seq(Nat)) /\ lines \in Seq(Seq(Nat))
         /\ posted \o lines \in Seq(Seq(Nat))
<1>1. /\ MaxLines \in Nat /\ written \in 0..MaxLines /\ file \in Seq(0..2 * MaxLines)
      /\ posted \in Seq(Seq(1..2 * MaxLines)) /\ lines \in Seq(Seq(1..2 * MaxLines))
  BY TailerAssumption DEF TailerInv, TailerTypeOK
<1>2. Len(file) \in Nat /\ DOMAIN file = 1..Len(file) /\ \A i \in DOMAIN file : file[i] \in 0..2 * MaxLines
  BY <1>1
<1>3. /\ MidLine => Last(file) \in {2 * written - 1, 2 * written}
      /\ Len(file) <= 3 * written - (IF MidLine THEN 2 * written + 1 - Last(file) ELSE 0)
  BY DEF TailerInv, Growing
<1>4. MidLine => Len(file) >= 1 /\ Last(file) = file[Len(file)] /\ Last(file) # 0
  <2>1. file # <<>> => Len(file) >= 1
    BY <1>1, <1>2, EmptySeq
  <2> QED
    BY <2>1 DEF MidLine, Last, NL
<1>5. MidLine => Last(file) \in 1..2 * written
  <2> SUFFICES ASSUME MidLine PROVE Last(file) \in 1..2 * written
    OBVIOUS
  <2> DEFINE l == Last(file)
             w == written
  <2>1. w \in Nat /\ l \in {2 * w - 1, 2 * w} /\ l # 0 /\ l \in Nat
    <3>1. Len(file) \in DOMAIN file /\ l = file[Len(file)] /\ l # 0
      BY <1>2, <1>4
    <3>2. l \in 0..2 * MaxLines
      BY <1>2, <3>1
    <3>3. w \in Nat /\ l \in Nat
      BY <1>1, <3>2
    <3>4. l \in {2 * w - 1, 2 * w}
      BY <1>3
    <3> QED
      BY <3>1, <3>3, <3>4
  <2> HIDE DEF l, w
  <2>2. l \in 1..2 * w
    BY <2>1
  <2> QED
    BY <2>2 DEF l, w
<1>6. Reached \in 0..2 * written
  BY <1>1, <1>5 DEF Reached
<1>7. Len(file) <= 3 * written
  <2>1. CASE MidLine
    BY <1>1, <1>2, <1>3, <1>5, <2>1
  <2>2. CASE ~MidLine
    BY <1>1, <1>2, <1>3, <2>2
  <2> QED
    BY <2>1, <2>2
<1>8. Len(file) < npos
  BY <1>1, <1>2, <1>7, NposFacts
<1>9. 1..2 * MaxLines \subseteq Nat
  BY <1>1
<1>10. Seq(1..2 * MaxLines) \subseteq Seq(Nat)
  BY <1>9, SeqMonotonic
<1>11. posted \in Seq(Seq(Nat)) /\ lines \in Seq(Seq(Nat))
  BY <1>1, <1>10, SeqMonotonic
<1>12. posted \o lines \in Seq(Seq(Nat)) /\ (MidLine => Last(file) > 0)
  BY <1>1, <1>5, <1>11
<1> QED
  BY <1>1, <1>2, <1>3, <1>4, <1>5, <1>6, <1>8, <1>11, <1>12 DEF Reached

\* The next byte the game server writes ends a line or is greater than all before.
LEMMA NextByte ==
  ASSUME TailerInv, WriteByte
  PROVE  \E b \in 0..2 * MaxLines :
            /\ file' = Append(file, b)
            /\ b = NL \/ b > Reached
            /\ Reached <= Reached' /\ b <= Reached' /\ Reached' \in Int
            /\ written' \in 0..MaxLines
            /\ MidLine' => Last(file') \in {2 * written' - 1, 2 * written'}
            /\ Len(file') <= 3 * written' - (IF MidLine' THEN 2 * written' + 1 - Last(file') ELSE 0)
<1> DEFINE w == written
           n == Len(file)
<1>1. /\ MaxLines \in Nat /\ w \in 0..MaxLines /\ n \in Nat
      /\ Reached \in 0..2 * w
      /\ MidLine => /\ Reached = Last(file) /\ Last(file) \in {2 * w - 1, 2 * w} /\ Last(file) > 0
      /\ ~MidLine => Reached = 2 * w
  BY TailerFacts
<1>2. /\ MidLine => n <= 3 * w - (2 * w + 1 - Last(file))
      /\ ~MidLine => n <= 3 * w
  <2>1. n <= 3 * w - (IF MidLine THEN 2 * w + 1 - Last(file) ELSE 0)
    BY DEF TailerInv, Growing
  <2>2. CASE MidLine
    BY <2>1, <2>2
  <2>3. CASE ~MidLine
    BY <1>1, <2>1, <2>3
  <2> QED
    BY <2>2, <2>3
<1>3. ASSUME NEW b \in 0..2 * MaxLines, file' = Append(file, b)
      PROVE  /\ Last(file') = b /\ MidLine' = (b # NL) /\ Len(file') = n + 1
             /\ Reached' = IF b # NL THEN b ELSE 2 * written'
  <2>1. file \in Seq(0..2 * MaxLines)
    BY DEF TailerInv, TailerTypeOK
  <2>2. file' # <<>> /\ Len(file') = n + 1 /\ file'[n + 1] = b
    BY <1>3, <2>1
  <2>3. Last(file') = b
    BY <2>2 DEF Last
  <2>4. MidLine' <=> b # NL
    BY <2>2, <2>3 DEF MidLine, NL
  <2>5. Reached' = IF b # NL THEN b ELSE 2 * written'
    BY <2>3, <2>4 DEF Reached
  <2> QED
    BY <2>2, <2>3, <2>4, <2>5 DEF MidLine
<1>4. CASE /\ ~MidLine /\ written < MaxLines /\ written' = written + 1
           /\ file' = Append(file, 2 * written + 1)
  <2>1. 2 * w + 1 \in 0..2 * MaxLines /\ 2 * w + 1 # NL
    BY <1>1, <1>4 DEF NL
  <2>2. Last(file') = 2 * w + 1 /\ MidLine' /\ Len(file') = n + 1 /\ Reached' = 2 * w + 1
    BY <1>3, <1>4, <2>1
  <2>3. 2 * w + 1 > Reached /\ Reached <= Reached' /\ 2 * w + 1 <= Reached' /\ Reached' \in Int
    BY <1>1, <2>2
  <2>4. written' \in 0..MaxLines /\ Last(file') = 2 * written' - 1
        /\ Len(file') <= 3 * written' - (2 * written' + 1 - Last(file'))
    BY <1>1, <1>2, <1>4, <2>2
  <2> QED
    BY <1>4, <2>1, <2>2, <2>3, <2>4
<1>5. CASE MidLine /\ Last(file) % 2 = 1 /\ file' = Append(file, Last(file) + 1) /\ written' = written
  <2>1. Last(file) = 2 * w - 1
    BY <1>1, <1>5
  <2>2. Last(file) + 1 = 2 * w /\ 2 * w \in 0..2 * MaxLines /\ 2 * w # NL
    BY <1>1, <1>5, <2>1 DEF NL
  <2>3. Last(file') = 2 * w /\ MidLine' /\ Len(file') = n + 1 /\ Reached' = 2 * w
    BY <1>3, <1>5, <2>2
  <2>4. 2 * w > Reached /\ Reached <= Reached' /\ 2 * w <= Reached' /\ Reached' \in Int
    BY <1>1, <1>5, <2>1, <2>3
  <2>5. written' \in 0..MaxLines /\ Last(file') = 2 * written'
        /\ Len(file') <= 3 * written' - (2 * written' + 1 - Last(file'))
    BY <1>1, <1>2, <1>5, <2>1, <2>3
  <2> QED
    BY <1>5, <2>2, <2>3, <2>4, <2>5
<1>6. CASE MidLine /\ Last(file) % 2 # 1 /\ file' = Append(file, NL) /\ written' = written
  <2>1. Last(file) = 2 * w
    BY <1>1, <1>6
  <2>2. NL \in 0..2 * MaxLines
    BY <1>1 DEF NL
  <2>3. ~MidLine' /\ Len(file') = n + 1 /\ Reached' = 2 * w
    BY <1>3, <1>6, <2>2
  <2>4. Reached <= Reached' /\ NL <= Reached' /\ Reached' \in Int
    BY <1>1, <2>3 DEF NL
  <2>5. written' \in 0..MaxLines /\ Len(file') <= 3 * written'
    BY <1>1, <1>2, <1>6, <2>1, <2>3
  <2> QED
    BY <1>6, <2>2, <2>3, <2>4, <2>5
<1> QED
  BY <1>4, <1>5, <1>6 DEF WriteByte

\* A byte more: what was in order still is.
LEMMA WriteByteKeeps ==
  ASSUME TailerInv, WriteByte
  PROVE  TailerInv'
<1>1. UNCHANGED <<lastFilePos, pc, lines, posted>>
  BY DEF WriteByte
<1>2. PICK b \in 0..2 * MaxLines :
            /\ file' = Append(file, b)
            /\ b = NL \/ b > Reached
            /\ Reached <= Reached' /\ b <= Reached' /\ Reached' \in Int
            /\ written' \in 0..MaxLines
            /\ MidLine' => Last(file') \in {2 * written' - 1, 2 * written'}
            /\ Len(file') <= 3 * written' - (IF MidLine' THEN 2 * written' + 1 - Last(file') ELSE 0)
  BY NextByte
<1> DEFINE n == Len(file)
           r == Reached
           r2 == Reached'
<1>3. /\ MaxLines \in Nat /\ n \in Nat /\ r \in Nat /\ r2 \in Int /\ DOMAIN file = 1..n
      /\ \A i \in DOMAIN file : file[i] \in 0..2 * MaxLines
      /\ posted \in Seq(Seq(Nat)) /\ lines \in Seq(Seq(Nat)) /\ posted \o lines \in Seq(Seq(Nat))
  BY <1>2, TailerFacts
<1>4. file \in Seq(0..2 * MaxLines)
  BY DEF TailerInv, TailerTypeOK
<1>5. /\ file' \in Seq(0..2 * MaxLines) /\ DOMAIN file' = 1..(n + 1)
      /\ \A i \in 1..n : file'[i] = file[i]
      /\ file'[n + 1] = b
  BY <1>2, <1>4
<1>6. \A i \in 1..(n + 1) : i # n + 1 => i \in 1..n
  BY <1>3
<1>7. /\ \A i, j \in 1..n : i < j /\ file[i] # NL /\ file[j] # NL => file[i] < file[j]
      /\ \A i \in 1..n : file[i] <= r
  BY <1>3 DEF TailerInv, Growing
<1> HIDE DEF n, r, r2
<1>8. b = NL \/ b > r
  BY <1>2 DEF r
<1>9. ASSUME NEW i \in 1..(n + 1), NEW j \in 1..(n + 1), i < j, file'[i] # NL, file'[j] # NL
      PROVE  file'[i] < file'[j]
  <2>1. i \in 1..n
    BY <1>3, <1>9
  <2>2. CASE j = n + 1
    <3>1. file[i] <= r /\ file[i] \in Int /\ b > r /\ file'[i] = file[i] /\ file'[j] = b
      BY <1>3, <1>5, <1>7, <1>8, <1>9, <2>1, <2>2
    <3> QED
      BY <1>3, <3>1
  <2>3. CASE j # n + 1
    <3>1. j \in 1..n
      BY <1>6, <2>3
    <3> QED
      BY <1>5, <1>7, <1>9, <2>1, <3>1
  <2> QED
    BY <2>2, <2>3
<1>10. r <= r2 /\ b <= r2
  BY <1>2 DEF r, r2
<1>11. ASSUME NEW i \in 1..(n + 1) PROVE file'[i] <= r2
  <2>1. CASE i = n + 1
    BY <1>5, <1>10, <2>1
  <2>2. CASE i # n + 1
    <3>1. file[i] <= r /\ file[i] \in Int /\ file'[i] = file[i]
      BY <1>3, <1>5, <1>6, <1>7, <2>2
    <3> QED
      BY <1>3, <1>10, <3>1
  <2> QED
    BY <2>1, <2>2
<1>12. Growing'
  BY <1>2, <1>5, <1>9, <1>11 DEF Growing, r2, NL
<1>13. ASSUME NEW s \in Seq(Seq(Nat)), NEW a \in Int, NEW c \in Int, a <= c, Before(s, a)
       PROVE  Before(s, c)
  <2> SUFFICES ASSUME NEW m \in DOMAIN s, NEW k \in DOMAIN s[m] PROVE s[m][k] < c
    BY DEF Before
  <2>1. s[m] \in Seq(Nat)
    OBVIOUS
  <2>2. s[m][k] \in Nat
    BY <2>1
  <2>3. s[m][k] < a
    BY <1>13 DEF Before
  <2> QED
    BY <1>13, <2>2, <2>3
<1>14. Before(posted \o lines, r + 1) /\ Ascending(posted \o lines)
  BY DEF TailerInv, r
<1>15. Before(posted \o lines, r2 + 1)
  <2>1. r + 1 \in Int /\ r2 + 1 \in Int /\ r + 1 <= r2 + 1
    BY <1>3, <1>10
  <2> QED
    BY <1>3, <1>13, <1>14, <2>1
<1>16. Ascending(posted \o lines)' /\ Before(posted \o lines, Reached + 1)'
  BY <1>1, <1>14, <1>15 DEF Ascending, Before, r2
<1>17. ASSUME NEW i \in 1..(n + 1), i > lastFilePos, file'[i] # NL PROVE Before(posted, file'[i])
  <2>1. CASE i = n + 1
    <3>1. Before(posted, r + 1)
      BY <1>3, <1>14, FirstLines
    <3>2. b > r /\ file'[i] = b
      BY <1>5, <1>8, <1>17, <2>1
    <3>3. r + 1 \in Int /\ b \in Int /\ r + 1 <= b
      BY <1>3, <3>2
    <3> QED
      BY <1>3, <1>13, <3>1, <3>2, <3>3
  <2>2. CASE i # n + 1
    <3>1. i \in DOMAIN file /\ file'[i] = file[i]
      BY <1>3, <1>5, <1>6, <2>2
    <3> QED
      BY <1>17, <3>1 DEF TailerInv, Fresh
  <2> QED
    BY <2>1, <2>2
<1>18. Fresh'
  BY <1>1, <1>5, <1>17 DEF Fresh, Before, NL
<1>19. TailerTypeOK' /\ (pc = "post" => lastFilePos = npos)'
  BY <1>1, <1>2, <1>5 DEF TailerInv, TailerTypeOK, npos
<1> QED
  BY <1>12, <1>16, <1>18, <1>19 DEF TailerInv

\* A new file is empty; the lines that were posted are older than what comes.
LEMMA RotateKeeps ==
  ASSUME TailerInv, Rotate
  PROVE  TailerInv'
<1>1. file' = <<>> /\ ~MidLine /\ UNCHANGED <<written, lastFilePos, pc, lines, posted>>
  BY DEF Rotate
<1>2. ~MidLine' /\ DOMAIN file' = {} /\ Len(file') = 0
  BY <1>1 DEF MidLine
<1>3. Reached' = Reached
  BY <1>1, <1>2 DEF Reached
<1>4. written \in 0..MaxLines /\ MaxLines \in Nat
  BY TailerFacts
<1>5. Growing'
  BY <1>1, <1>2, <1>4 DEF Growing
<1>6. Fresh'
  BY <1>2 DEF Fresh
<1>7. (Ascending(posted \o lines) /\ Before(posted \o lines, Reached + 1))'
  BY <1>1, <1>3 DEF TailerInv, Ascending, Before
<1>8. TailerTypeOK' /\ (pc = "post" => lastFilePos = npos)'
  BY <1>1 DEF TailerInv, TailerTypeOK, npos
<1> QED
  BY <1>5, <1>6, <1>7, <1>8 DEF TailerInv

\* A step that leaves the file and what was posted alone, and forgets no line that it
\* does not read again.
LEMMA QuietStep ==
  ASSUME TailerInv, UNCHANGED <<file, written, posted>>, lines' = <<>>,
         lastFilePos' = lastFilePos \/ lastFilePos' = Len(file),
         pc' \in {"off", "size", "read"}
  PROVE  TailerInv'
<1>1. /\ posted \in Seq(Seq(Nat)) /\ lines \in Seq(Seq(Nat)) /\ Reached \in Nat /\ written \in Nat
      /\ Len(file) \in Nat /\ Len(file) < npos /\ DOMAIN file = 1..Len(file)
  BY TailerFacts
<1>2. Growing' /\ Reached' = Reached
  BY DEF TailerInv, Growing, Reached, MidLine
<1>3. Ascending(posted) /\ Before(posted, Reached + 1)
  BY <1>1, FirstLines DEF TailerInv
<1>4. posted' \o lines' = posted
  BY <1>1
<1>5. (Ascending(posted \o lines) /\ Before(posted \o lines, Reached + 1))'
  BY <1>2, <1>3, <1>4 DEF Ascending, Before
<1>6. Fresh'
  <2>1. CASE lastFilePos' = lastFilePos
    BY <2>1 DEF TailerInv, Fresh, Before
  <2>2. CASE lastFilePos' = Len(file)
    <3>1. \A i \in DOMAIN file : ~(i > Len(file))
      BY <1>1
    <3> QED
      BY <2>2, <3>1 DEF Fresh
  <2> QED
    BY <2>1, <2>2
<1>7. lastFilePos' \in 0..npos
  <2>1. npos \in Nat /\ lastFilePos \in 0..npos
    BY NposFacts DEF TailerInv, TailerTypeOK
  <2> QED
    BY <1>1, <2>1
<1>8. TailerTypeOK' /\ (pc = "post" => lastFilePos = npos)'
  <2>1. lines' \in Seq(Seq(1..2 * MaxLines)) /\ npos' = npos
    BY DEF npos
  <2> QED
    BY <1>7, <2>1 DEF TailerInv, TailerTypeOK
<1> QED
  BY <1>2, <1>5, <1>6, <1>8 DEF TailerInv

\* The lines that are read are newer than all that was posted.
LEMMA ReadLinesKeeps ==
  ASSUME TailerInv, ReadLines
  PROVE  TailerInv'
<1> DEFINE n == Len(file)
           p == lastFilePos
           rest == SubSeq(file, p + 1, n)
           new == Split(rest)
           V == 0..2 * MaxLines
<1>1. /\ pc = "read" /\ lines' = new /\ lastFilePos' = PositionAfterRead
      /\ pc' = IF new = <<>> THEN "size" ELSE "post"
      /\ UNCHANGED <<file, written, posted>>
  BY DEF ReadLines
<1>2. /\ MaxLines \in Nat /\ n \in Nat /\ DOMAIN file = 1..n /\ n < npos /\ Reached \in Nat /\ written \in Nat
      /\ posted \in Seq(Seq(Nat)) /\ lines \in Seq(Seq(Nat)) /\ posted \o lines \in Seq(Seq(Nat))
  BY TailerFacts
<1>3. file \in Seq(V) /\ p \in Nat /\ npos \in Nat /\ PositionAfterRead = npos
  BY NposFacts DEF TailerInv, TailerTypeOK
<1>4. posted \o lines = posted
  BY <1>1, <1>2 DEF TailerInv, TailerTypeOK
<1>5. /\ rest \in Seq(V)
      /\ \A i \in DOMAIN rest : p + i \in DOMAIN file /\ p + i > p /\ rest[i] = file[p + i]
  <2>1. CASE p < n
    <3>1. p + 1 \in 1..n + 1 /\ n \in p..n
      BY <1>2, <1>3, <2>1
    <3>2. rest = [i \in 1..(n - p) |-> file[p + i]]
      BY <1>2, <1>3, <2>1
    <3>3. \A i \in 1..(n - p) : p + i \in 1..n /\ p + i > p
      BY <1>2, <1>3, <2>1
    <3>4. n - p \in Nat
      BY <1>2, <1>3, <2>1
    <3>5. \A i \in 1..(n - p) : file[p + i] \in V
      BY <1>2, <1>3, <3>3
    <3> DEFINE z == n - p
               s == [i \in 1..z |-> file[p + i]]
    <3> HIDE DEF z, n, p, rest, V
    <3>6. z \in Nat /\ \A i \in 1..z : file[p + i] \in V
      BY <3>4, <3>5 DEF z
    <3>7. s \in [1..z -> V]
      BY <3>6
    <3>8. s \in Seq(V)
      BY <3>6, <3>7
    <3>9. rest = s
      BY <3>2 DEF z
    <3>10. DOMAIN rest = 1..(n - p) /\ \A i \in DOMAIN rest : rest[i] = file[p + i]
      BY <3>9 DEF z
    <3>11. DOMAIN file = 1..n
      BY <1>2
    <3> QED
      BY <3>3, <3>8, <3>9, <3>10, <3>11
  <2>2. CASE ~(p < n)
    <3>1. rest = <<>>
      <4>1. p + 1 \in Int /\ n \in Int /\ p + 1 > n
        BY <1>2, <1>3, <2>2
      <4> QED
        BY <4>1, SubSeqEmpty
    <3>2. <<>> \in Seq(V) /\ DOMAIN <<>> = {}
      OBVIOUS
    <3> HIDE DEF rest, V
    <3> QED
      BY <3>1, <3>2
  <2> QED
    BY <2>1, <2>2
<1>6. rest \in Seq(V)
  BY <1>5
<1> HIDE DEF rest, V
<1>7. new \in Seq(Seq(V \ {NL})) /\ \A m \in DOMAIN new : new[m] # <<>>
  BY <1>6, SplitLines
<1>8. ASSUME NEW m \in DOMAIN new, NEW o \in DOMAIN new, NEW k \in DOMAIN new[m], NEW l \in DOMAIN new[o]
       PROVE  \E i, j \in DOMAIN rest :
                 /\ rest[i] = new[m][k] /\ rest[j] = new[o][l]
                 /\ rest[i] # NL /\ rest[j] # NL
                 /\ m < o => i < j
  BY <1>6, SplitOrder
<1>9. V \ {NL} \subseteq 1..2 * MaxLines /\ V \ {NL} \subseteq Nat
  BY <1>2 DEF NL, V
<1> HIDE DEF new
<1>10. new \in Seq(Seq(1..2 * MaxLines)) /\ new \in Seq(Seq(Nat))
  <2>1. \A T : V \ {NL} \subseteq T => Seq(V \ {NL}) \subseteq Seq(T)
    BY SeqMonotonic
  <2>2. Seq(V \ {NL}) \subseteq Seq(1..2 * MaxLines) /\ Seq(V \ {NL}) \subseteq Seq(Nat)
    BY <1>9, <2>1
  <2> QED
    BY <1>7, <2>2, SeqMonotonic
<1>11. ASSUME NEW m \in DOMAIN new, NEW k \in DOMAIN new[m]
      PROVE  \E i \in DOMAIN file : i > p /\ file[i] # NL /\ file[i] = new[m][k]
  <2>1. PICK i \in DOMAIN rest : rest[i] = new[m][k] /\ rest[i] # NL
    BY <1>8
  <2> QED
    BY <1>5, <2>1
<1>12. Ascending(new)
  <2> SUFFICES ASSUME NEW m \in DOMAIN new, NEW o \in DOMAIN new, m < o,
                      NEW k \in DOMAIN new[m], NEW l \in DOMAIN new[o]
               PROVE  new[m][k] < new[o][l]
    BY <1>7 DEF Ascending
  <2>1. PICK i, j \in DOMAIN rest :
                /\ rest[i] = new[m][k] /\ rest[j] = new[o][l]
                /\ rest[i] # NL /\ rest[j] # NL
                /\ i < j
    BY <1>8
  <2>2. p + i \in DOMAIN file /\ p + j \in DOMAIN file /\ rest[i] = file[p + i] /\ rest[j] = file[p + j]
    BY <1>5, <2>1
  <2>3. i \in Nat /\ j \in Nat
    BY <1>5, <2>1
  <2>4. p + i < p + j
    BY <1>3, <2>1, <2>3
  <2> QED
    BY <2>1, <2>2, <2>4 DEF TailerInv, Growing
<1>13. Before(new, Reached + 1)
  <2> SUFFICES ASSUME NEW m \in DOMAIN new, NEW k \in DOMAIN new[m] PROVE new[m][k] < Reached + 1
    BY DEF Before
  <2>1. PICK i \in DOMAIN file : file[i] = new[m][k]
    BY <1>11
  <2>2. file[i] <= Reached /\ file[i] \in Nat
    BY TailerFacts DEF TailerInv, Growing
  <2> QED
    BY <1>2, <2>1, <2>2
<1>14. ASSUME NEW m \in DOMAIN new, NEW k \in DOMAIN new[m] PROVE Before(posted, new[m][k])
  <2>1. PICK i \in DOMAIN file : i > p /\ file[i] # NL /\ file[i] = new[m][k]
    BY <1>11
  <2>2. Before(posted, file[i])
    BY <2>1 DEF TailerInv, Fresh
  <2> QED
    BY <2>1, <2>2
<1>15. Ascending(posted) /\ Before(posted, Reached + 1)
  BY <1>4 DEF TailerInv
<1>16. Ascending(posted \o new) /\ Before(posted \o new, Reached + 1)
  <2>1. Reached + 1 \in Nat
    BY <1>2
  <2> QED
    BY <1>2, <1>10, <1>12, <1>13, <1>14, <1>15, <2>1, JoinLines
<1>17. Growing' /\ Reached' = Reached
  BY <1>1 DEF TailerInv, Growing, Reached, MidLine
<1>18. (Ascending(posted \o lines) /\ Before(posted \o lines, Reached + 1))'
  BY <1>1, <1>16, <1>17 DEF Ascending, Before
<1>19. Fresh'
  <2>1. \A i \in DOMAIN file : ~(i > npos)
    BY <1>2, <1>3
  <2> QED
    BY <1>1, <1>3, <2>1 DEF Fresh
<1>20. npos' = npos
  BY DEF npos
<1>21. (pc = "post" => lastFilePos = npos)' /\ TailerTypeOK'
  BY <1>1, <1>3, <1>10, <1>20 DEF TailerInv, TailerTypeOK
<1> QED
  BY <1>17, <1>18, <1>19, <1>21 DEF TailerInv

\* What is posted follows what was.
LEMMA PostKeeps ==
  ASSUME TailerInv, Post
  PROVE  TailerInv'
<1>1. pc = "post" /\ lines' = <<>> /\ pc' = "size" /\ UNCHANGED <<file, written, lastFilePos>>
  BY DEF Post
<1>2. CASE UNCHANGED posted
  BY <1>1, <1>2, QuietStep
<1>3. CASE posted' = posted \o lines
  <2>1. /\ posted \in Seq(Seq(1..2 * MaxLines)) /\ lines \in Seq(Seq(1..2 * MaxLines))
        /\ Len(file) \in Nat /\ Len(file) < npos /\ DOMAIN file = 1..Len(file)
    BY TailerFacts DEF TailerInv, TailerTypeOK
  <2>2. posted' \in Seq(Seq(1..2 * MaxLines)) /\ posted' \o lines' = posted \o lines
    BY <1>1, <1>3, <2>1
  <2>3. Growing' /\ Reached' = Reached
    BY <1>1 DEF TailerInv, Growing, Reached, MidLine
  <2>4. (Ascending(posted \o lines) /\ Before(posted \o lines, Reached + 1))'
    BY <2>2, <2>3 DEF TailerInv, Ascending, Before
  <2>5. Fresh'
    <3>1. lastFilePos = npos /\ npos \in Nat
      BY <1>1, NposFacts DEF TailerInv
    <3>2. \A i \in DOMAIN file : ~(i > npos)
      BY <2>1, <3>1
    <3> QED
      BY <1>1, <3>1, <3>2 DEF Fresh
  <2>6. TailerTypeOK' /\ (pc = "post" => lastFilePos = npos)'
    <3>1. lines' \in Seq(Seq(1..2 * MaxLines)) /\ npos' = npos
      BY <1>1 DEF npos
    <3> QED
      BY <1>1, <2>2, <3>1 DEF TailerInv, TailerTypeOK
  <2> QED
    BY <2>3, <2>4, <2>5, <2>6 DEF TailerInv
<1> QED
  BY <1>2, <1>3 DEF Post

\* It holds before the first line.
LEMMA TailerInvInit == TailerInit => TailerInv
<1> SUFFICES ASSUME TailerInit PROVE TailerInv
  OBVIOUS
<1>1. file = <<>> /\ written = 0 /\ lastFilePos = 0 /\ pc = "off" /\ lines = <<>> /\ posted = <<>>
  BY DEF TailerInit
<1>2. MaxLines \in Nat /\ npos \in Nat
  BY TailerAssumption, NposFacts
<1>3. TailerTypeOK
  BY <1>1, <1>2 DEF TailerTypeOK
<1>4. Growing /\ Fresh
  BY <1>1 DEF Growing, MidLine, Fresh
<1>5. posted \o lines = <<>>
  BY <1>1
<1>6. Ascending(posted \o lines) /\ Before(posted \o lines, Reached + 1)
  BY <1>5 DEF Ascending, Before
<1> QED
  BY <1>1, <1>3, <1>4, <1>6 DEF TailerInv

\* Every step of the server and the tailer keeps it.
LEMMA TailerInvStep == TailerInv /\ [TailerNext]_tailerVars => TailerInv'
<1> SUFFICES ASSUME TailerInv, [TailerNext]_tailerVars PROVE TailerInv'
  OBVIOUS
<1>1. CASE WriteByte
  BY <1>1, WriteByteKeeps
<1>2. CASE Rotate
  BY <1>2, RotateKeeps
<1>3. CASE TailerStart
  <2>1. lines = <<>>
    BY <1>3 DEF TailerStart, TailerInv, TailerTypeOK
  <2> QED
    BY <1>3, <2>1, QuietStep DEF TailerStart
<1>4. CASE TailerStop
  BY <1>4, QuietStep DEF TailerStop
<1>5. CASE CheckSize
  <2>1. lines = <<>>
    BY <1>5 DEF CheckSize, TailerInv, TailerTypeOK
  <2> QED
    BY <1>5, <2>1, QuietStep DEF CheckSize
<1>6. CASE ReadLines
  BY <1>6, ReadLinesKeeps
<1>7. CASE Post
  BY <1>7, PostKeeps
<1>8. CASE UNCHANGED tailerVars
  <2>1. UNCHANGED <<file, written, lastFilePos, pc, lines, posted>>
    BY <1>8 DEF tailerVars
  <2>2. TailerTypeOK' /\ Growing' /\ Fresh'
    BY <2>1 DEF TailerInv, TailerTypeOK, Growing, Fresh, Before, Reached, MidLine, npos
  <2>3. Reached' = Reached /\ npos' = npos
    BY <2>1 DEF Reached, MidLine, npos
  <2>4. (Ascending(posted \o lines) /\ Before(posted \o lines, Reached + 1))'
    BY <2>1, <2>3 DEF TailerInv, Ascending, Before
  <2> QED
    BY <2>1, <2>2, <2>3, <2>4 DEF TailerInv
<1> QED
  BY <1>1, <1>2, <1>3, <1>4, <1>5, <1>6, <1>7, <1>8 DEF TailerNext, Tailing

\* Lines in order are posted once, in order.
LEMMA AscendingIsOnce ==
  ASSUME TailerInv
  PROVE  PostedOnceInOrder
<1>1. /\ posted \in Seq(Seq(Nat)) /\ lines \in Seq(Seq(Nat)) /\ Reached + 1 \in Nat
      /\ DOMAIN posted = 1..Len(posted) /\ Len(posted) \in Nat
  BY TailerFacts
<1>2. Ascending(posted)
  BY <1>1, FirstLines DEF TailerInv
<1>3. ASSUME NEW i \in DOMAIN posted
      PROVE  /\ Len(posted[i]) \in DOMAIN posted[i] /\ 1 \in DOMAIN posted[i]
             /\ Last(posted[i]) = posted[i][Len(posted[i])] /\ Head(posted[i]) = posted[i][1]
             /\ \A k \in DOMAIN posted[i] : posted[i][k] \in Nat
  <2>1. posted[i] \in Seq(Nat) /\ posted[i] # <<>>
    BY <1>1, <1>2 DEF Ascending
  <2>2. Len(posted[i]) \in Nat /\ Len(posted[i]) # 0 /\ DOMAIN posted[i] = 1..Len(posted[i])
    BY <2>1, EmptySeq
  <2> QED
    BY <2>1, <2>2 DEF Last
<1>4. PostedInOrder
  BY <1>2, <1>3 DEF PostedInOrder, Ascending
<1>5. PostedOnce
  <2> SUFFICES ASSUME NEW i \in DOMAIN posted, NEW j \in DOMAIN posted, i # j,
                      NEW k \in DOMAIN posted[i], NEW l \in DOMAIN posted[j]
               PROVE  posted[i][k] # posted[j][l]
    BY DEF PostedOnce, ToSet
  <2>1. posted[i][k] \in Nat /\ posted[j][l] \in Nat
    BY <1>3
  <2>2. CASE i < j
    BY <1>2, <2>1, <2>2 DEF Ascending
  <2>3. CASE j < i
    BY <1>2, <2>1, <2>3 DEF Ascending
  <2> QED
    BY <1>1, <2>2, <2>3
<1> QED
  BY <1>4, <1>5 DEF PostedOnceInOrder, TailerInv

\* Whatever the game server writes between a look at the file's size and the reading of
\* it, and however often either of the two is restarted, no line is posted twice and none
\* after a later one: the position is behind all that was posted, although after a
\* reading it is -1 as an unsigned integer (log_tailer of local mode, readNewLines).
THEOREM LinesPostedOnce == TailerSpec => []PostedOnceInOrder
<1>1. TailerInv => PostedOnceInOrder
  BY AscendingIsOnce
<1> QED
  BY <1>1, TailerInvInit, TailerInvStep, PTL DEF TailerSpec

--------------------------------------------------------------------------------
(* What a poll has seen: the cursor, the batch and the events recorded.      *)

\* Times go up with the events, at most one second with each.
Ordered ==
    \A e \in DOMAIN remote :
        /\ remote[e].time <= e
        /\ \A f \in DOMAIN remote : e < f => remote[e].time <= remote[f].time

\* The event is in its table, or has none.
Handled(e) == remote[e].type # "kill" \/ recorded[e] > 0

\* The event can be left behind: an earlier one has its second.
Hidden(e) == ~adapter.inclusive /\ \E f \in DOMAIN remote : f < e /\ remote[f].time = remote[e].time

Seen(e) == Handled(e) \/ Hidden(e) \/ e \in batch

\* All events before e have been seen.
SeenBefore(e) == \A f \in DOMAIN remote : f < e => Seen(f)

\* Nothing before the cursor or before an event of the batch is left out; the cursor
\* is the time of an event that was stored, and before the batch.
NothingSkipped ==
    /\ \A e \in DOMAIN remote : remote[e].time < cursor => Seen(e)
    /\ \A b \in batch : SeenBefore(b) /\ remote[b].time >= cursor
    /\ cursor # 0 => \E e \in DOMAIN remote : remote[e].time = cursor /\ Handled(e) /\ SeenBefore(e)

\* A process that is told later events only has not stored what it has in hand or will
\* be told.
NothingRepeated ==
    /\ \A e \in EventIds : e \notin DOMAIN remote => recorded[e] = 0
    /\ ~adapter.inclusive =>
        /\ \A e \in EventIds : recorded[e] <= starts
        /\ ppc # "off" => \A e \in batch \cup Since(cursor) : recorded[e] < starts

\* Threads run while main lets them, and events are in hand while they are stored.
ThreadsLast ==
    /\ ppc # "off" => phase \in {"up", "pollers"}
    /\ rpc # "off" \/ bpc # "off" \/ kpc # "off" \/ cpc # "off" => phase # "down"
    /\ phase # "down" => starts > 0
    /\ batch # {} => ppc = "store"

\* The loop over the pages goes on while entries are missing.
Paging == pages.page \in Nat \ {0} /\ Len(pages.got) < Limit

\* A server is asked for its tick rate before it leaves the queue.
RefreshPart ==
    /\ rpc \in {"off", "sleep", "list", "stats"}
    /\ queue \in Seq(ServerIds) /\ Len(queue) <= Len(ServerRows)
    /\ tickCounter \in 0..(TickEvery - 1) /\ sampled \in {NotText} \cup ServerIds
    /\ rpc = "stats" => queue # <<>>

SettingsPart == enabled \in BOOLEAN /\ messages \in MessageLists

\* Servers that still wait for a broadcast are those it left out, each once; the clock
\* of the process is behind the time since a server's last one was due.
Spacing ==
    /\ bpc # "send" => toSend = <<>>
    /\ IsInjective(toSend)
    /\ \A s \in ServerIds :
        /\ since[s] + delay[s] >= age
        /\ s \in ToSet(toSend) => since[s] + delay[s] >= Interval

BroadcastPart ==
    /\ bpc \in {"off", "sleep", "check", "send"} /\ toSend \in Seq(ServerIds)
    /\ text \in {NotText} \cup Texts /\ sent \in [ServerIds -> {NotText} \cup Texts]
    /\ age \in 0..Interval /\ msgIndex \in 0..(Period - 1)
    /\ since \in [ServerIds -> 0..Interval] /\ delay \in [ServerIds -> 0..Interval]
    /\ Spacing

\* Rows are due while they are kicked.
CleanersPart ==
    /\ kpc \in {"off", "sleep", "kick"} /\ due \in 0..MaxDue
    /\ cpc \in {"off", "sleep", "sessions", "logs"} /\ old \subseteq {"sessions", "logs"}
    /\ kpc # "kick" => due = 0

PollerPart == PollerTypeOK /\ Ordered /\ NothingSkipped /\ NothingRepeated /\ Paging

TasksPart == stuck \in BOOLEAN /\ RefreshPart /\ SettingsPart /\ BroadcastPart /\ CleanersPart

MainPart ==
    /\ phase \in {"down", "up", "pollers", "tasks"} /\ starts \in 0..MaxStarts
    /\ failures \in 0..MaxFailures /\ focus \in {s.focus : s \in Scenarios}
    /\ ThreadsLast

CollectorsInv == PollerPart /\ TasksPart /\ MainPart

--------------------------------------------------------------------------------
(* What the poller does.                                                    *)

Entry == [player : RemotePlayers, points : 0..MaxScores]

\* Facts about the poller's data.
LEMMA PollerFacts ==
  ASSUME PollerPart
  PROVE  /\ MaxEvents \in Nat /\ MaxStarts \in Nat /\ MaxCopies \in Nat /\ MaxCopies > 0
         /\ Len(remote) \in Nat /\ Len(remote) <= MaxEvents /\ DOMAIN remote = 1..Len(remote)
         /\ DOMAIN remote \subseteq EventIds
         /\ \A e \in DOMAIN remote : remote[e].time \in 1..MaxEvents /\ remote[e].type \in {"kill", "note"}
         /\ cursor \in Nat /\ batch \in SUBSET DOMAIN remote
         /\ recorded \in [EventIds -> 0..MaxCopies]
         /\ \A e \in EventIds : recorded[e] \in Nat
<1>1. MaxEvents \in Nat /\ MaxStarts \in Nat
  BY PollerAssumption
<1>2. remote \in Seq([type : {"kill", "note"}, time : 1..MaxEvents]) /\ Len(remote) <= MaxEvents
      /\ cursor \in 0..MaxEvents /\ batch \subseteq DOMAIN remote /\ recorded \in [EventIds -> 0..MaxCopies]
  BY DEF PollerPart, PollerTypeOK
<1>3. Len(remote) \in Nat /\ DOMAIN remote = 1..Len(remote)
      /\ \A e \in DOMAIN remote : remote[e] \in [type : {"kill", "note"}, time : 1..MaxEvents]
  <2> DEFINE Event == [type : {"kill", "note"}, time : 1..MaxEvents]
  <2> HIDE DEF Event
  <2>1. remote \in Seq(Event)
    BY <1>2 DEF Event
  <2>2. Len(remote) \in Nat /\ DOMAIN remote = 1..Len(remote) /\ \A e \in DOMAIN remote : remote[e] \in Event
    BY <2>1
  <2> QED
    BY <2>2 DEF Event
<1>4. DOMAIN remote \subseteq EventIds
  BY <1>1, <1>2, <1>3 DEF EventIds
<1>5. MaxCopies \in Nat /\ MaxCopies > 0 /\ MaxCopies = MaxStarts + 1
  BY <1>1 DEF MaxCopies
<1>6. \A e \in EventIds : recorded[e] \in Nat
  BY <1>2, <1>5
<1>7. cursor \in Nat
  BY <1>1, <1>2
<1> QED
  BY <1>1, <1>2, <1>3, <1>4, <1>5, <1>6, <1>7

\* The board is a sequence of players.
LEMMA BoardIsSeq ==
  ASSUME score \in [RemotePlayers -> 0..MaxScores]
  PROVE  Board \in Seq(RemotePlayers)
<1> DEFINE n == Cardinality(RemotePlayers)
<1>1. IsFiniteSet(RemotePlayers) /\ MaxScores \in Nat
  BY PollerAssumption
<1>2. n \in Nat
  BY <1>1, FS_CardinalityType
<1>3. score \in [RemotePlayers -> Int]
  BY <1>1
<1>4. PICK f : Lists(f, RemotePlayers, score, n)
  BY <1>1, <1>3, Sortable
<1> HIDE DEF n
<1>5. f \in [1..n -> RemotePlayers] /\ DOMAIN f = 1..n
  BY <1>4 DEF Lists
<1>6. \A i, j \in DOMAIN f : i < j => f[i] # f[j] /\ score[f[i]] >= score[f[j]]
  BY <1>4, <1>5 DEF Lists
<1>7. \E b \in [1..n -> RemotePlayers] :
        \A i, j \in DOMAIN b : i < j => b[i] # b[j] /\ score[b[i]] >= score[b[j]]
  BY <1>5, <1>6
<1>8. Board \in [1..n -> RemotePlayers]
  BY <1>7, Zenon DEF Board, n
<1> QED
  BY <1>2, <1>8

\* Every entry of a page is a player and his points.
LEMMA EntriesAreSeq ==
  ASSUME score \in [RemotePlayers -> 0..MaxScores], NEW ps \in Seq(RemotePlayers)
  PROVE  Entries(ps) \in Seq(Entry)
<1>1. Len(ps) \in Nat /\ DOMAIN ps = 1..Len(ps)
  OBVIOUS
<1>2. \A i \in DOMAIN ps : [player |-> ps[i], points |-> score[ps[i]]] \in Entry
  BY DEF Entry
<1>3. Entries(ps) \in [1..Len(ps) -> Entry]
  BY <1>1, <1>2 DEF Entries
<1> QED
  BY <1>1, <1>3

\* processPlayers puts players and points into the tables.
LEMMA ProcessPlayersTypes ==
  ASSUME known \subseteq RemotePlayers, balance \in [RemotePlayers -> 0..MaxScores],
         NEW entries \in Seq(Entry), ProcessPlayers(entries)
  PROVE  known' \subseteq RemotePlayers /\ balance' \in [RemotePlayers -> 0..MaxScores]
<1> DEFINE ps == {entries[i].player : i \in DOMAIN entries}
           at(p) == {i \in DOMAIN entries : entries[i].player = p}
           points(p) == entries[Max(at(p))].points
<1>1. Len(entries) \in Nat /\ DOMAIN entries = 1..Len(entries) /\ \A i \in DOMAIN entries : entries[i] \in Entry
  OBVIOUS
<1>2. ps \subseteq RemotePlayers
  BY <1>1 DEF Entry
<1>3. ASSUME NEW p \in ps PROVE points(p) \in 0..MaxScores
  <2>1. at(p) \in SUBSET Nat /\ at(p) # {} /\ \A i \in at(p) : i <= Len(entries)
    BY <1>1
  <2>2. Max(at(p)) \in at(p)
    BY <1>1, <2>1, MaxIsLast
  <2>3. entries[Max(at(p))] \in Entry
    BY <1>1, <2>2
  <2> QED
    BY <2>3 DEF Entry
<1>4. known' = known \cup ps
      /\ balance' = [p \in RemotePlayers |-> IF p \in ps /\ points(p) > 0 THEN points(p) ELSE balance[p]]
  BY DEF ProcessPlayers
<1> HIDE DEF ps, points
<1> QED
  BY <1>2, <1>3, <1>4

\* A step that leaves the events alone, here and there, and starts no thread.
LEMMA SameEvents ==
  ASSUME PollerPart, UNCHANGED <<adapter, remote, cursor, batch, recorded, starts>>,
         ppc' # "off" => ppc # "off"
  PROVE  Ordered' /\ NothingSkipped' /\ NothingRepeated'
<1>1. Ordered'
  BY DEF PollerPart, Ordered
<1>2. (\A e : Seen(e)' <=> Seen(e)) /\ (\A e : SeenBefore(e)' <=> SeenBefore(e))
      /\ (\A e : Handled(e)' <=> Handled(e))
  BY DEF Seen, SeenBefore, Handled, Hidden
<1>3. NothingSkipped'
  BY <1>2 DEF PollerPart, NothingSkipped
<1>4. Since(cursor)' = Since(cursor)
  BY DEF Since
<1>5. NothingRepeated'
  BY <1>4 DEF PollerPart, NothingRepeated
<1> QED
  BY <1>1, <1>3, <1>5

\* A step of another thread.
LEMMA PollerKept ==
  ASSUME PollerPart, UNCHANGED <<pollerVars, starts>>
  PROVE  PollerPart'
<1>1. UNCHANGED <<adapter, remote, score, cursor, batch, pages, ppc, recorded, known, balance, starts>>
  BY DEF pollerVars, other, memory, tables
<1>2. Ordered' /\ NothingSkipped' /\ NothingRepeated'
  BY <1>1, SameEvents
<1>3. PollerTypeOK' /\ Paging'
  BY <1>1 DEF PollerPart, PollerTypeOK, Paging
<1> QED
  BY <1>2, <1>3 DEF PollerPart

\* The turn of the loop, and the end of the events.
LEMMA WakeUpKeeps ==
  ASSUME PollerPart, NEW r, WakeUp(r) \/ EndEvents, UNCHANGED starts
  PROVE  PollerPart'
<1>1. UNCHANGED <<adapter, remote, score, cursor, batch, recorded, known, balance>> /\ ppc # "off"
      /\ ppc' \in {"off", "players", "board"} /\ pages' \in {pages, NoPages}
  BY DEF WakeUp, EndEvents, other, memory, tables
<1>2. Ordered' /\ NothingSkipped' /\ NothingRepeated'
  BY <1>1, SameEvents
<1>3. NoPages.got \in Seq(Entry) /\ Len(NoPages.got) = 0 /\ NoPages.page \in Nat \ {0} /\ 0 < Limit
  BY PollerAssumption DEF NoPages
<1>4. Paging'
  BY <1>1, <1>3 DEF PollerPart, Paging
<1>5. PollerTypeOK'
  BY <1>1, <1>3 DEF PollerPart, PollerTypeOK, Entry
<1> QED
  BY <1>2, <1>4, <1>5 DEF PollerPart

\* The list of players.
LEMMA PollPlayersKeeps ==
  ASSUME PollerPart, NEW ok, PollPlayers(ok), UNCHANGED starts
  PROVE  PollerPart'
<1>1. UNCHANGED <<adapter, remote, score, cursor, batch, pages, recorded>> /\ ppc = "players" /\ ppc' = "events"
  BY DEF PollPlayers, other, memory
<1>2. Ordered' /\ NothingSkipped' /\ NothingRepeated'
  BY <1>1, SameEvents
<1>3. /\ known \subseteq RemotePlayers /\ balance \in [RemotePlayers -> 0..MaxScores]
      /\ score \in [RemotePlayers -> 0..MaxScores]
  BY DEF PollerPart, PollerTypeOK
<1>4. known' \subseteq RemotePlayers /\ balance' \in [RemotePlayers -> 0..MaxScores]
  <2>1. CASE ProcessPlayers(Entries(Board))
    <3>1. Entries(Board) \in Seq(Entry)
      BY <1>3, BoardIsSeq, EntriesAreSeq
    <3> QED
      BY <1>3, <2>1, <3>1, ProcessPlayersTypes
  <2>2. CASE UNCHANGED <<known, balance>>
    BY <1>3, <2>2
  <2> QED
    BY <2>1, <2>2 DEF PollPlayers
<1>5. PollerTypeOK' /\ Paging'
  BY <1>1, <1>4 DEF PollerPart, PollerTypeOK, Paging
<1> QED
  BY <1>2, <1>5 DEF PollerPart

\* A change of the board.
LEMMA RemoteScoreKeeps ==
  ASSUME PollerPart, RemoteScore, UNCHANGED starts
  PROVE  PollerPart'
<1>1. UNCHANGED <<adapter, remote, cursor, batch, pages, ppc, recorded, known, balance>>
  BY DEF RemoteScore, memory, tables
<1>2. Ordered' /\ NothingSkipped' /\ NothingRepeated'
  BY <1>1, SameEvents
<1>3. score' \in [RemotePlayers -> 0..MaxScores]
  <2>1. PICK p \in RemotePlayers : score[p] < MaxScores /\ score' = [score EXCEPT ![p] = @ + 1]
    BY DEF RemoteScore
  <2>2. score \in [RemotePlayers -> 0..MaxScores] /\ MaxScores \in Nat
    BY PollerAssumption DEF PollerPart, PollerTypeOK
  <2>3. score[p] + 1 \in 0..MaxScores
    BY <2>1, <2>2
  <2> QED
    BY <2>1, <2>2, <2>3
<1>4. PollerTypeOK' /\ Paging'
  BY <1>1, <1>3 DEF PollerPart, PollerTypeOK, Paging
<1> QED
  BY <1>2, <1>4 DEF PollerPart

\* A request for the next page, or the end of the loop over the pages.
LEMMA PollBoardKeeps ==
  ASSUME PollerPart, NEW ok, PollBoard(ok), UNCHANGED starts
  PROVE  PollerPart'
<1> DEFINE left == Limit - Len(pages.got)
           size == PageSize(left)
           n == pages.page
           bd == Board
           part == SubSeq(bd, (n - 1) * size + 1, Smaller(Len(bd), n * size))
           got == pages.got \o Entries(part)
<1>1. /\ UNCHANGED <<adapter, remote, score, cursor, batch, recorded>> /\ ppc = "board"
      /\ \/ ProcessPlayers(got) /\ ppc' = "sleep" /\ pages' = NoPages
         \/ /\ ~LastPage(n, size, left)
            /\ pages' = [page |-> n + 1, got |-> got] /\ UNCHANGED <<ppc, known, balance>>
         \/ ProcessPlayers(pages.got) /\ ppc' = "sleep" /\ pages' = NoPages
  BY DEF PollBoard, other
<1>2. Ordered' /\ NothingSkipped' /\ NothingRepeated'
  BY <1>1, SameEvents
<1>3. /\ known \subseteq RemotePlayers /\ balance \in [RemotePlayers -> 0..MaxScores]
      /\ score \in [RemotePlayers -> 0..MaxScores] /\ pages.got \in Seq(Entry)
      /\ pages.page \in Nat \ {0} /\ Len(pages.got) < Limit
  BY DEF PollerPart, PollerTypeOK, Paging, Entry
<1>4. Limit \in Nat /\ RemotePage \in Nat \ {0}
  BY PollerAssumption
<1>5. bd \in Seq(RemotePlayers)
  BY <1>3, BoardIsSeq
<1>6. n \in Nat /\ n >= 1 /\ left \in Nat /\ left > 0 /\ Len(pages.got) \in Nat
  BY <1>3, <1>4
<1> HIDE DEF bd, n, left
<1>7. size \in Nat /\ size > 0
  <2>1. size \in {RemotePage, left, Limit}
    BY DEF PageSize, Smaller
  <2>2. Limit > 0
    BY PollerAssumption
  <2> QED
    BY <1>4, <1>6, <2>1, <2>2
<1>8. part \in Seq(RemotePlayers) /\ Len(part) <= size
  <2> DEFINE a == (n - 1) * size + 1
             b == n * size
             z == Smaller(Len(bd), b)
  <2>1. n - 1 \in Nat /\ (n - 1) * size \in Nat /\ b \in Nat /\ b = (n - 1) * size + size
    BY <1>6, <1>7
  <2>2. a \in Nat /\ a >= 1 /\ b - a + 1 = size
    BY <1>7, <2>1
  <2> HIDE DEF a, b
  <2>3. Len(bd) \in Nat /\ DOMAIN bd = 1..Len(bd)
    BY <1>5
  <2>4. z \in Nat /\ z <= Len(bd) /\ z <= b
    BY <2>1, <2>3 DEF Smaller
  <2> HIDE DEF z
  <2>5. \A i \in a..z : bd[i] \in RemotePlayers
    BY <1>5, <2>2, <2>3, <2>4
  <2>6. SubSeq(bd, a, z) \in Seq(RemotePlayers) /\ Len(SubSeq(bd, a, z)) = IF a <= z THEN z - a + 1 ELSE 0
    BY <2>2, <2>4, <2>5, SubSeqProperties
  <2>7. Len(SubSeq(bd, a, z)) <= size
    BY <1>7, <2>1, <2>2, <2>4, <2>6
  <2> QED
    BY <2>6, <2>7 DEF a, z, b
<1> HIDE DEF part
<1>9. Entries(part) \in Seq(Entry) /\ Len(Entries(part)) = Len(part)
  <2>1. DOMAIN Entries(part) = DOMAIN part
    BY DEF Entries
  <2>2. Entries(part) \in Seq(Entry)
    BY <1>3, <1>8, EntriesAreSeq
  <2>3. DOMAIN Entries(part) = 1..Len(Entries(part)) /\ Len(Entries(part)) \in Nat
    BY <2>2, LenProperties
  <2>4. DOMAIN part = 1..Len(part) /\ Len(part) \in Nat
    BY <1>8, LenProperties
  <2> DEFINE a == Len(Entries(part))
             b == Len(part)
  <2>5. a \in Nat /\ b \in Nat /\ 1..a = 1..b
    BY <2>1, <2>3, <2>4
  <2> HIDE DEF a, b
  <2>6. a = b
    BY <2>5
  <2> QED
    BY <2>2, <2>6 DEF a, b
<1>10. got \in Seq(Entry) /\ Len(got) = Len(pages.got) + Len(part)
  <2> DEFINE x == pages.got
             y == Entries(part)
  <2>1. x \in Seq(Entry) /\ y \in Seq(Entry) /\ Len(y) = Len(part)
    BY <1>3, <1>9
  <2> HIDE DEF x, y
  <2>2. x \o y \in Seq(Entry) /\ Len(x \o y) = Len(x) + Len(y)
    BY <2>1
  <2> QED
    BY <2>1, <2>2 DEF x, y
<1> HIDE DEF got
<1>11. NoPages.got \in Seq(Entry) /\ Len(NoPages.got) = 0 /\ NoPages.page \in Nat \ {0} /\ 0 < Limit
  BY PollerAssumption DEF NoPages
<1>12. CASE \E es \in Seq(Entry) : ProcessPlayers(es) /\ ppc' = "sleep" /\ pages' = NoPages
  <2>1. known' \subseteq RemotePlayers /\ balance' \in [RemotePlayers -> 0..MaxScores]
    BY <1>3, <1>12, ProcessPlayersTypes
  <2>2. PollerTypeOK' /\ Paging'
    BY <1>1, <1>11, <1>12, <2>1 DEF PollerPart, PollerTypeOK, Paging, Entry
  <2> QED
    BY <1>2, <2>2 DEF PollerPart
<1>13. CASE ~LastPage(n, size, left) /\ pages' = [page |-> n + 1, got |-> got] /\ UNCHANGED <<ppc, known, balance>>
  <2>1. size < left
    BY <1>6, <1>7, <1>13 DEF LastPage
  <2>2. pages'.page = n + 1 /\ pages'.got = got
    BY <1>13
  <2>3. Len(got) < Limit
    <3>1. Len(part) \in Nat
      BY <1>8
    <3> QED
      BY <1>4, <1>6, <1>7, <1>8, <1>10, <2>1, <3>1 DEF left
  <2>4. Paging'
    BY <1>6, <2>2, <2>3 DEF Paging
  <2>5. PollerTypeOK'
    BY <1>1, <1>10, <1>13, <2>2 DEF PollerPart, PollerTypeOK, Entry
  <2> QED
    BY <1>2, <2>4, <2>5 DEF PollerPart
<1> QED
  BY <1>1, <1>3, <1>10, <1>12, <1>13

\* The request asks for all that has not been seen: the events of the cursor's second
\* are before the cursor's event, or hidden by it.
LEMMA FetchEventsKeeps ==
  ASSUME PollerPart, ThreadsLast, NEW ok, FetchEvents(ok), UNCHANGED starts
  PROVE  PollerPart'
<1>1. /\ UNCHANGED <<adapter, remote, score, cursor, pages, recorded, known, balance>>
      /\ ppc = "events" /\ ppc' = "store" /\ batch = {} /\ batch' \in {Since(cursor), {}}
  BY DEF FetchEvents, ThreadsLast, other, tables
<1>2. /\ Len(remote) \in Nat /\ DOMAIN remote = 1..Len(remote)
      /\ \A e \in DOMAIN remote : remote[e].time \in Nat
      /\ cursor \in Nat
  BY PollerFacts
<1>3. Since(cursor) \subseteq DOMAIN remote /\ Since(cursor)' = Since(cursor)
  BY <1>1 DEF Since
<1>4. PollerTypeOK' /\ Paging' /\ Ordered'
  BY <1>1, <1>3 DEF PollerPart, PollerTypeOK, Paging, Ordered
<1>5. NothingRepeated'
  BY <1>1, <1>3 DEF PollerPart, NothingRepeated
<1>6. \A e : Seen(e) => Seen(e)'
  BY <1>1 DEF Seen, Handled, Hidden
<1>7. (\A e : Handled(e) => Handled(e)') /\ (\A e : SeenBefore(e) => SeenBefore(e)')
  BY <1>1, <1>6 DEF Handled, SeenBefore
<1>8. ASSUME NEW b \in Since(cursor), batch' = Since(cursor) PROVE SeenBefore(b)' /\ remote[b].time >= cursor
  <2>1. b \in DOMAIN remote /\ remote[b].time >= cursor
    BY <1>2, <1>8 DEF Since
  <2>2. ASSUME NEW e \in DOMAIN remote, e < b, e \notin Since(cursor) PROVE Seen(e)
    <3>1. cursor # 0 /\ ~(remote[e].time > cursor) /\ ~(adapter.inclusive /\ remote[e].time = cursor)
      BY <2>2 DEF Since
    <3>2. remote[e].time <= cursor
      BY <1>2, <3>1
    <3>3. CASE remote[e].time < cursor
      BY <3>3 DEF PollerPart, NothingSkipped
    <3>4. CASE remote[e].time = cursor
      <4>1. ~adapter.inclusive
        BY <3>1, <3>4
      <4>2. PICK f \in DOMAIN remote : remote[f].time = cursor /\ Handled(f) /\ SeenBefore(f)
        BY <3>1 DEF PollerPart, NothingSkipped
      <4>3. CASE f < e
        BY <3>4, <4>1, <4>2, <4>3 DEF Seen, Hidden
      <4>4. CASE f = e
        BY <4>2, <4>4 DEF Seen
      <4>5. CASE e < f
        BY <4>2, <4>5 DEF SeenBefore
      <4> QED
        BY <1>2, <4>3, <4>4, <4>5
    <3> QED
      BY <1>2, <3>2, <3>3, <3>4
  <2>3. ASSUME NEW e \in DOMAIN remote, e < b PROVE Seen(e)'
    <3>1. CASE e \in Since(cursor)
      BY <1>8, <3>1 DEF Seen
    <3>2. CASE e \notin Since(cursor)
      BY <1>6, <2>2, <2>3, <3>2
    <3> QED
      BY <3>1, <3>2
  <2> QED
    BY <1>1, <2>1, <2>3 DEF SeenBefore
<1>9. NothingSkipped'
  <2>1. (\A e \in DOMAIN remote : remote[e].time < cursor => Seen(e))'
    BY <1>1, <1>6 DEF PollerPart, NothingSkipped
  <2>2. (\A b \in batch : SeenBefore(b) /\ remote[b].time >= cursor)'
    BY <1>1, <1>8
  <2>3. (cursor # 0 => \E e \in DOMAIN remote : remote[e].time = cursor /\ Handled(e) /\ SeenBefore(e))'
    BY <1>1, <1>7 DEF PollerPart, NothingSkipped
  <2> QED
    BY <2>1, <2>2, <2>3 DEF NothingSkipped
<1> QED
  BY <1>4, <1>5, <1>9 DEF PollerPart

\* The first event of the batch is stored: all before it have been seen, and the cursor
\* comes to its time.
LEMMA StoreEventKeeps ==
  ASSUME PollerPart, starts \in Nat, StoreEvent, UNCHANGED starts
  PROVE  PollerPart'
<1>0. PICK b : b = Min(batch)
  OBVIOUS
<1>1. /\ ppc = "store" /\ batch # {}
      /\ recorded' = IF remote[b].type = "kill" THEN Stored(b) ELSE recorded
      /\ cursor' = remote[b].time /\ batch' = batch \ {b}
      /\ UNCHANGED <<adapter, remote, score, pages, ppc, known, balance>>
  BY <1>0 DEF StoreEvent, other
<1>2. /\ MaxCopies \in Nat /\ MaxCopies > 0
      /\ Len(remote) \in Nat /\ DOMAIN remote = 1..Len(remote) /\ DOMAIN remote \subseteq EventIds
      /\ \A e \in DOMAIN remote : remote[e].time \in 1..MaxEvents /\ remote[e].type \in {"kill", "note"}
      /\ cursor \in Nat /\ batch \in SUBSET DOMAIN remote
      /\ recorded \in [EventIds -> 0..MaxCopies] /\ MaxEvents \in Nat
  BY PollerFacts
<1>3. batch \in SUBSET Nat
  BY <1>2
<1>4. b \in batch /\ \A e \in batch : b <= e
  BY <1>0, <1>1, <1>3, MinIsFirst
<1>5. b \in DOMAIN remote /\ b \in EventIds /\ b \in Nat /\ remote[b].time \in 1..MaxEvents
      /\ remote[b].time >= cursor /\ SeenBefore(b)
  BY <1>2, <1>4 DEF PollerPart, NothingSkipped
<1>6. /\ recorded' \in [EventIds -> 0..MaxCopies]
      /\ \A e \in EventIds : e # b => recorded'[e] = recorded[e]
      /\ recorded'[b] \in {recorded[b], recorded[b] + 1}
      /\ remote[b].type = "kill" => recorded'[b] > 0
  BY <1>1, <1>2, <1>5 DEF Stored
<1>7. ASSUME NEW e \in EventIds PROVE recorded[e] \in Nat /\ recorded'[e] \in Nat /\ recorded'[e] >= recorded[e]
  <2>1. recorded[e] \in Nat /\ recorded'[e] \in Nat
    BY <1>2, <1>6
  <2>2. CASE e = b
    BY <1>6, <2>1, <2>2
  <2>3. CASE e # b
    BY <1>6, <2>1, <2>3
  <2> QED
    BY <2>1, <2>2, <2>3
<1>8. Handled(b)'
  BY <1>1, <1>6 DEF Handled
<1>9. ASSUME NEW e \in DOMAIN remote, Seen(e) PROVE Seen(e)'
  <2>1. CASE Handled(e)
    <3>1. e \in EventIds
      BY <1>2
    <3>2. recorded[e] > 0 => recorded'[e] > 0
      BY <1>7, <3>1
    <3> QED
      BY <1>1, <2>1, <3>2 DEF Seen, Handled
  <2>2. CASE Hidden(e)
    BY <1>1, <2>2 DEF Seen, Hidden
  <2>3. CASE e \in batch
    BY <1>1, <1>8, <2>3 DEF Seen
  <2> QED
    BY <1>9, <2>1, <2>2, <2>3 DEF Seen
<1>10. ASSUME NEW e \in DOMAIN remote, SeenBefore(e) PROVE SeenBefore(e)'
  BY <1>1, <1>9, <1>10 DEF SeenBefore
<1>11. ASSUME NEW e \in DOMAIN remote, e > b PROVE remote[e].time >= remote[b].time
  BY <1>2, <1>5, <1>11 DEF PollerPart, Ordered
<1>12. NothingSkipped'
  <2>1. ASSUME NEW e \in DOMAIN remote, remote[e].time < cursor' PROVE Seen(e)'
    <3>1. e < b
      <4> SUFFICES ASSUME ~(e < b) PROVE FALSE
        OBVIOUS
      <4>1. e = b \/ e > b
        BY <1>2, <1>5
      <4>2. remote[e].time >= remote[b].time
        BY <1>2, <1>5, <1>11, <4>1
      <4> QED
        BY <1>1, <1>2, <1>5, <2>1, <4>2
    <3>2. Seen(e)
      BY <1>5, <3>1 DEF SeenBefore
    <3> QED
      BY <1>9, <3>2
  <2>2. ASSUME NEW e \in batch' PROVE SeenBefore(e)' /\ remote[e].time >= cursor'
    <3>1. e \in batch /\ e # b /\ e \in DOMAIN remote
      BY <1>1, <1>2
    <3>2. e > b
      BY <1>2, <1>4, <1>5, <3>1
    <3>3. SeenBefore(e)
      BY <3>1 DEF PollerPart, NothingSkipped
    <3> QED
      BY <1>1, <1>10, <1>11, <3>1, <3>2, <3>3
  <2>3. remote[b].time = cursor' /\ Handled(b)' /\ SeenBefore(b)'
    BY <1>1, <1>5, <1>8, <1>10
  <2> QED
    BY <1>1, <1>5, <2>1, <2>2, <2>3 DEF NothingSkipped
<1>13. NothingRepeated'
  <2>1. \A e \in EventIds : e \notin DOMAIN remote => recorded'[e] = 0
    BY <1>5, <1>6 DEF PollerPart, NothingRepeated
  <2>2. ASSUME ~adapter.inclusive
        PROVE  /\ \A e \in EventIds : recorded'[e] <= starts
               /\ \A e \in batch' \cup Since(cursor)' : recorded'[e] < starts
    <3>1. /\ \A e \in EventIds : recorded[e] <= starts
          /\ \A e \in batch \cup Since(cursor) : recorded[e] < starts
      BY <1>1, <2>2 DEF PollerPart, NothingRepeated
    <3>2. recorded[b] < starts
      BY <1>4, <3>1
    <3>3. ASSUME NEW e \in EventIds PROVE recorded'[e] <= starts
      <4>1. CASE e = b
        <5>1. recorded[b] \in Nat
          BY <1>5, <1>7
        <5>2. recorded[b] + 1 <= starts \/ ~(starts \in Int)
          BY <3>2, <5>1
        <5> QED
          BY <1>6, <3>1, <3>2, <4>1, <5>1
      <4>2. CASE e # b
        BY <1>6, <3>1, <4>2
      <4> QED
        BY <4>1, <4>2
    <3>4. ASSUME NEW e \in batch' \cup Since(cursor)' PROVE recorded'[e] < starts
      <4>1. e # b /\ e \in batch \cup Since(cursor)
        <5>1. CASE e \in batch'
          BY <1>1, <5>1
        <5>2. CASE e \in Since(cursor)'
          <6>1. e \in DOMAIN remote /\ remote[e].time > remote[b].time
            BY <1>1, <1>5, <2>2, <5>2 DEF Since
          <6>2. e # b /\ remote[e].time > cursor
            BY <1>2, <1>5, <6>1
          <6> QED
            BY <6>1, <6>2 DEF Since
        <5> QED
          BY <3>4, <5>1, <5>2
      <4>2. e \in EventIds
        BY <1>2, <4>1 DEF Since
      <4> QED
        BY <1>6, <3>1, <4>1, <4>2
    <3> QED
      BY <3>3, <3>4
  <2>3. adapter' = adapter /\ starts' = starts /\ DOMAIN remote' = DOMAIN remote
    BY <1>1
  <2> QED
    BY <2>1, <2>2, <2>3 DEF NothingRepeated
<1>14. PollerTypeOK' /\ Paging' /\ Ordered'
  <2>1. cursor' \in 0..MaxEvents /\ batch' \subseteq DOMAIN remote
    BY <1>1, <1>2, <1>5
  <2> QED
    BY <1>1, <1>6, <2>1 DEF PollerPart, PollerTypeOK, Paging, Ordered
<1> QED
  BY <1>12, <1>13, <1>14 DEF PollerPart

\* An event more, not earlier than the last.
LEMMA RemoteEventKeeps ==
  ASSUME PollerPart, ThreadsLast, starts \in Nat, RemoteEvent, UNCHANGED starts
  PROVE  PollerPart'
<1> DEFINE n == Len(remote)
<1>1. /\ UNCHANGED <<adapter, score, cursor, batch, pages, ppc, recorded, known, balance>>
      /\ Len(remote) < MaxEvents
  BY DEF RemoteEvent, memory, tables
<1>2. PICK type \in {"kill", "note"}, d \in {0, 1} :
        remote' = Append(remote, [type |-> type,
                    time |-> IF remote = <<>> THEN 1 ELSE Last(remote).time + d])
  BY DEF RemoteEvent
<1> DEFINE t == IF remote = <<>> THEN 1 ELSE Last(remote).time + d
           Event == [type : {"kill", "note"}, time : 1..MaxEvents]
<1>3. /\ MaxEvents \in Nat /\ n \in Nat /\ DOMAIN remote = 1..n /\ DOMAIN remote \subseteq EventIds
      /\ \A e \in DOMAIN remote : remote[e].time \in 1..MaxEvents /\ remote[e].type \in {"kill", "note"}
      /\ cursor \in Nat /\ batch \in SUBSET DOMAIN remote
      /\ recorded \in [EventIds -> 0..MaxCopies]
  BY PollerFacts
<1>4. remote \in Seq(Event)
  BY DEF PollerPart, PollerTypeOK
<1>5. remote = <<>> => n = 0
  OBVIOUS
<1>6. remote # <<>> => n \in DOMAIN remote /\ Last(remote) = remote[n]
  <2>1. remote # <<>> => n # 0
    BY <1>4, EmptySeq
  <2> QED
    BY <1>3, <2>1 DEF Last
<1>7. t \in 1..(n + 1) /\ \A e \in DOMAIN remote : remote[e].time <= t
  <2>1. CASE remote = <<>>
    BY <1>3, <1>5, <2>1
  <2>2. CASE remote # <<>>
    <3>1. t = remote[n].time + d /\ remote[n].time <= n /\ remote[n].time \in 1..MaxEvents
      BY <1>3, <1>6, <2>2 DEF PollerPart, Ordered
    <3>2. d \in 0..1
      OBVIOUS
    <3>3. ASSUME NEW e \in DOMAIN remote PROVE remote[e].time <= remote[n].time
      <4>1. CASE e = n
        BY <1>3, <1>6, <2>2, <4>1
      <4>2. CASE e # n
        <5>1. e < n /\ n \in DOMAIN remote
          BY <1>3, <1>6, <2>2, <4>2
        <5> QED
          BY <5>1 DEF PollerPart, Ordered
      <4> QED
        BY <4>1, <4>2
    <3>4. \A e \in DOMAIN remote : remote[e].time <= t
      BY <1>3, <3>1, <3>2, <3>3
    <3> QED
      BY <1>3, <3>1, <3>2, <3>4
  <2> QED
    BY <2>1, <2>2
<1>8. remote' = Append(remote, [type |-> type, time |-> t])
  BY <1>2
<1> HIDE DEF t
<1>9. [type |-> type, time |-> t] \in Event
  BY <1>1, <1>3, <1>7
<1> HIDE DEF Event
<1>10. /\ remote' \in Seq(Event) /\ Len(remote') = n + 1 /\ DOMAIN remote' = 1..(n + 1)
       /\ \A e \in 1..n : remote'[e] = remote[e]
       /\ remote'[n + 1] = [type |-> type, time |-> t]
  BY <1>3, <1>4, <1>8, <1>9
<1>11. remote'[n + 1].time = t /\ n + 1 \in EventIds /\ n + 1 \notin DOMAIN remote
       /\ \A e \in 1..(n + 1) : e # n + 1 => e \in 1..n
  BY <1>1, <1>3, <1>10 DEF EventIds
<1>12. Ordered'
  <2> SUFFICES ASSUME NEW e \in 1..(n + 1)
               PROVE  remote'[e].time <= e /\ \A f \in 1..(n + 1) : e < f => remote'[e].time <= remote'[f].time
    BY <1>10 DEF Ordered
  <2>1. CASE e = n + 1
    <3>1. \A f \in 1..(n + 1) : ~(e < f)
      BY <1>3, <2>1
    <3> QED
      BY <1>3, <1>7, <1>11, <2>1, <3>1
  <2>2. CASE e # n + 1
    <3>1. e \in DOMAIN remote /\ remote'[e].time = remote[e].time
      BY <1>3, <1>10, <1>11, <2>2
    <3>2. ASSUME NEW f \in 1..(n + 1), e < f PROVE remote'[e].time <= remote'[f].time
      <4>1. CASE f = n + 1
        BY <1>7, <1>11, <3>1, <4>1
      <4>2. CASE f # n + 1
        <5>1. f \in DOMAIN remote /\ remote'[f].time = remote[f].time
          BY <1>3, <1>10, <1>11, <4>2
        <5> QED
          BY <3>1, <3>2, <5>1 DEF PollerPart, Ordered
      <4> QED
        BY <4>1, <4>2
    <3> QED
      BY <3>1, <3>2 DEF PollerPart, Ordered
  <2> QED
    BY <2>1, <2>2
<1>13. ASSUME NEW e \in 1..n PROVE (Handled(e)' <=> Handled(e)) /\ (Seen(e) => Seen(e)')
  <2>1. Handled(e)' <=> Handled(e)
    BY <1>1, <1>10 DEF Handled
  <2>2. Hidden(e) => Hidden(e)'
    <3> SUFFICES ASSUME Hidden(e) PROVE Hidden(e)'
      OBVIOUS
    <3>1. PICK f \in DOMAIN remote : f < e /\ remote[f].time = remote[e].time
      BY DEF Hidden
    <3>2. f \in DOMAIN remote' /\ remote'[f].time = remote'[e].time
      BY <1>3, <1>10, <3>1
    <3> QED
      BY <1>1, <3>1, <3>2 DEF Hidden
  <2> QED
    BY <1>1, <2>1, <2>2 DEF Seen
<1>14. ASSUME NEW e \in 1..n, SeenBefore(e) PROVE SeenBefore(e)'
  <2> SUFFICES ASSUME NEW f \in 1..(n + 1), f < e PROVE Seen(f)'
    BY <1>10 DEF SeenBefore
  <2>1. f \in 1..n
    BY <1>3
  <2> QED
    BY <1>3, <1>13, <1>14, <2>1 DEF SeenBefore
<1>15. cursor <= t
  <2>1. CASE cursor = 0
    BY <1>3, <1>7, <2>1
  <2>2. CASE cursor # 0
    BY <1>7, <2>2 DEF PollerPart, NothingSkipped
  <2> QED
    BY <2>1, <2>2
<1>16. NothingSkipped'
  <2>1. ASSUME NEW e \in 1..(n + 1), remote'[e].time < cursor PROVE Seen(e)'
    <3>1. e # n + 1
      BY <1>3, <1>7, <1>11, <1>15, <2>1
    <3>2. e \in DOMAIN remote /\ e \in 1..n /\ remote'[e].time = remote[e].time
      BY <1>3, <1>10, <1>11, <3>1
    <3> QED
      BY <1>13, <2>1, <3>2 DEF PollerPart, NothingSkipped
  <2>2. ASSUME NEW b \in batch PROVE SeenBefore(b)' /\ remote'[b].time >= cursor
    <3>1. b \in 1..n /\ SeenBefore(b) /\ remote[b].time >= cursor
      BY <1>3 DEF PollerPart, NothingSkipped
    <3> QED
      BY <1>10, <1>14, <3>1
  <2>3. ASSUME cursor # 0
        PROVE  \E e \in 1..(n + 1) : remote'[e].time = cursor /\ Handled(e)' /\ SeenBefore(e)'
    <3>1. PICK e \in 1..n : remote[e].time = cursor /\ Handled(e) /\ SeenBefore(e)
      BY <1>3, <2>3 DEF PollerPart, NothingSkipped
    <3>2. e \in 1..(n + 1) /\ remote'[e].time = cursor /\ Handled(e)' /\ SeenBefore(e)'
      BY <1>3, <1>10, <1>13, <1>14, <3>1
    <3> QED
      BY <3>2
  <2> QED
    BY <1>1, <1>10, <2>1, <2>2, <2>3 DEF NothingSkipped
<1>17. NothingRepeated'
  <2>1. \A e \in EventIds : e \notin DOMAIN remote' => recorded[e] = 0
    BY <1>3, <1>10, <1>11 DEF PollerPart, NothingRepeated
  <2>2. recorded[n + 1] = 0
    BY <1>11 DEF PollerPart, NothingRepeated
  <2>3. ASSUME ~adapter.inclusive, ppc # "off", NEW e \in batch \cup Since(cursor)'
        PROVE  recorded[e] < starts
    <3>1. CASE e = n + 1
      <4>1. starts > 0
        BY <2>3 DEF ThreadsLast
      <4> QED
        BY <2>2, <3>1, <4>1
    <3>2. CASE e # n + 1
      <4>1. e \in batch \cup Since(cursor)
        <5>1. CASE e \in Since(cursor)'
          <6>1. e \in 1..n /\ remote'[e] = remote[e]
            BY <1>10, <1>11, <3>2, <5>1 DEF Since
          <6> QED
            BY <1>1, <1>3, <5>1, <6>1 DEF Since
        <5> QED
          BY <2>3, <5>1
      <4> QED
        BY <2>3, <4>1 DEF PollerPart, NothingRepeated
    <3> QED
      BY <3>1, <3>2
  <2> QED
    BY <1>1, <2>1, <2>3 DEF PollerPart, NothingRepeated
<1>18. PollerTypeOK' /\ Paging'
  <2>1. Len(remote') <= MaxEvents /\ batch' \subseteq DOMAIN remote'
    BY <1>1, <1>3, <1>10
  <2> QED
    BY <1>1, <1>10, <2>1 DEF PollerPart, PollerTypeOK, Paging, Event
<1> QED
  BY <1>12, <1>16, <1>17, <1>18 DEF PollerPart

\* A new process knows nothing of the other panel, and has stored nothing yet.
LEMMA ResetKeeps ==
  ASSUME PollerPart, starts \in Nat, NEW next \in {"off", "sleep"}, PollerReset(next),
         \/ next = "off" /\ starts' = starts
         \/ starts' = starts + 1
  PROVE  PollerPart'
<1>1. /\ UNCHANGED <<adapter, remote, score, recorded, known, balance>>
      /\ cursor' = 0 /\ batch' = {} /\ pages' = NoPages /\ ppc' = next
  BY DEF PollerReset, other, tables
<1>2. /\ \A e \in DOMAIN remote : remote[e].time \in 1..MaxEvents
      /\ DOMAIN remote \subseteq EventIds /\ MaxEvents \in Nat
      /\ \A e \in EventIds : recorded[e] \in Nat
  BY PollerFacts
<1>3. NoPages.got \in Seq(Entry) /\ Len(NoPages.got) = 0 /\ NoPages.page \in Nat \ {0} /\ 0 < Limit
  BY PollerAssumption DEF NoPages
<1>4. PollerTypeOK' /\ Paging' /\ Ordered'
  BY <1>1, <1>2, <1>3 DEF PollerPart, PollerTypeOK, Paging, Ordered, Entry
<1>5. NothingSkipped'
  <2>1. \A e \in DOMAIN remote : ~(remote[e].time < 0)
    BY <1>2
  <2> QED
    BY <1>1, <2>1 DEF NothingSkipped
<1>6. NothingRepeated'
  <2>1. \A e \in EventIds : e \notin DOMAIN remote => recorded[e] = 0
    BY DEF PollerPart, NothingRepeated
  <2>2. CASE adapter.inclusive
    BY <1>1, <2>1, <2>2 DEF NothingRepeated
  <2>3. CASE ~adapter.inclusive
    <3>1. \A e \in EventIds : recorded[e] <= starts
      BY <2>3 DEF PollerPart, NothingRepeated
    <3>2. \A e \in EventIds : recorded[e] <= starts'
      BY <1>2, <3>1
    <3>3. ASSUME ppc' # "off", NEW e \in batch' \cup Since(cursor)' PROVE recorded[e] < starts'
      <4>1. starts' = starts + 1 /\ e \in EventIds
        BY <1>1, <1>2, <3>3 DEF Since
      <4> QED
        BY <1>2, <3>1, <4>1
    <3> QED
      BY <1>1, <2>1, <3>2, <3>3 DEF NothingRepeated
  <2> QED
    BY <2>2, <2>3
<1> QED
  BY <1>4, <1>5, <1>6 DEF PollerPart

--------------------------------------------------------------------------------
(* What the timed tasks do.                                                 *)

\* The parts together are the types.
LEMMA TasksTypes == TasksPart => TasksTypeOK
BY DEF TasksPart, TasksTypeOK, RefreshPart, SettingsPart, BroadcastPart, CleanersPart

\* Each part speaks of its own variables.
LEMMA PartsKept ==
  ASSUME TasksPart
  PROVE  /\ UNCHANGED refresh => RefreshPart'
         /\ UNCHANGED settings => SettingsPart'
         /\ UNCHANGED broadcast => BroadcastPart'
         /\ UNCHANGED cleaners => CleanersPart'
<1>1. ASSUME UNCHANGED refresh PROVE RefreshPart'
  BY <1>1 DEF TasksPart, RefreshPart, refresh
<1>2. ASSUME UNCHANGED settings PROVE SettingsPart'
  BY <1>2 DEF TasksPart, SettingsPart, settings
<1>3. ASSUME UNCHANGED broadcast PROVE BroadcastPart'
  <2>1. UNCHANGED <<bpc, text, toSend, age, msgIndex, sent, since, delay>>
    BY <1>3 DEF broadcast
  <2> QED
    BY <2>1 DEF TasksPart, BroadcastPart, Spacing
<1>4. ASSUME UNCHANGED cleaners PROVE CleanersPart'
  BY <1>4 DEF TasksPart, CleanersPart, cleaners
<1> QED
  BY <1>1, <1>2, <1>3, <1>4

\* A step of another thread.
LEMMA TasksKept ==
  ASSUME TasksPart, UNCHANGED tasksVars
  PROVE  TasksPart'
<1>1. UNCHANGED refresh /\ UNCHANGED settings /\ UNCHANGED broadcast /\ UNCHANGED cleaners /\ UNCHANGED stuck
  BY DEF tasksVars
<1> QED
  BY <1>1, PartsKept DEF TasksPart

\* What is left of a list of servers.
LEMMA TailOfServers ==
  ASSUME NEW q \in Seq(ServerIds), q # <<>>
  PROVE  /\ Head(q) \in ServerIds /\ Tail(q) \in Seq(ServerIds) /\ Len(Tail(q)) = Len(q) - 1 /\ Len(q) \in Nat
         /\ ToSet(Tail(q)) \subseteq ToSet(q) /\ Head(q) \in ToSet(q)
         /\ IsInjective(q) => IsInjective(Tail(q)) /\ Head(q) \notin ToSet(Tail(q))
<1>1. /\ Head(q) \in ServerIds /\ Tail(q) \in Seq(ServerIds) /\ Len(Tail(q)) = Len(q) - 1
      /\ Len(q) \in Nat /\ Len(q) > 0
  BY HeadTailProperties, EmptySeq
<1>2. DOMAIN q = 1..Len(q) /\ DOMAIN Tail(q) = 1..(Len(q) - 1) /\ Head(q) = q[1]
      /\ \A i \in DOMAIN Tail(q) : Tail(q)[i] = q[i + 1] /\ i + 1 \in DOMAIN q /\ i + 1 # 1
  BY <1>1
<1>3. 1 \in DOMAIN q
  BY <1>1, <1>2
<1>4. ToSet(Tail(q)) \subseteq ToSet(q) /\ Head(q) \in ToSet(q)
  <2>1. \A i \in DOMAIN Tail(q) : Tail(q)[i] \in ToSet(q)
    BY <1>2 DEF ToSet
  <2> QED
    BY <1>2, <1>3, <2>1 DEF ToSet
<1>5. ASSUME IsInjective(q) PROVE IsInjective(Tail(q)) /\ Head(q) \notin ToSet(Tail(q))
  <2>1. \A i, j \in DOMAIN q : q[i] = q[j] => i = j
    BY <1>5 DEF IsInjective
  <2>2. IsInjective(Tail(q))
    <3> SUFFICES ASSUME NEW i \in DOMAIN Tail(q), NEW j \in DOMAIN Tail(q), Tail(q)[i] = Tail(q)[j]
                 PROVE  i = j
      BY DEF IsInjective
    <3>1. i + 1 = j + 1
      BY <1>2, <2>1
    <3>2. i \in Int /\ j \in Int
      BY <1>2
    <3> QED
      BY <3>1, <3>2
  <2>3. ASSUME Head(q) \in ToSet(Tail(q)) PROVE FALSE
    <3>1. PICK i \in DOMAIN Tail(q) : Head(q) = Tail(q)[i]
      BY <2>3 DEF ToSet
    <3> QED
      BY <1>2, <1>3, <2>1, <3>1
  <2> QED
    BY <2>2, <2>3
<1> QED
  BY <1>1, <1>4, <1>5

\* Facts about the servers and the messages.
LEMMA TasksFacts ==
  ASSUME TasksPart
  PROVE  /\ TickEvery \in Nat \ {0} /\ Interval \in Nat \ {0} /\ Period \in Nat \ {0}
         /\ ServerRows \in Seq(ServerIds) /\ Len(ServerRows) \in Nat /\ IsInjective(ServerRows)
         /\ <<>> \in Seq(ServerIds) /\ Len(<<>>) = 0
         /\ messages # <<>> => Turn \in Texts
<1>1. TickEvery \in Nat \ {0} /\ Interval \in Nat \ {0} /\ Period \in Nat \ {0}
      /\ ServerRows \in Seq(ServerIds) /\ messages \in Seq(ToSet(messages)) /\ IsInjective(ServerRows)
      /\ messages \in MessageLists /\ msgIndex \in 0..(Period - 1)
  BY TasksAssumption DEF TasksPart, SettingsPart, BroadcastPart, ServerIds
<1>2. Len(ServerRows) \in Nat /\ Len(messages) \in Nat
  BY <1>1
<1>3. ASSUME messages # <<>> PROVE Turn \in Texts
  <2> DEFINE l == Len(messages)
             x == (msgIndex % l) + 1
  <2>1. l > 0 /\ DOMAIN messages = 1..l
    BY <1>1, <1>2, <1>3, EmptySeq
  <2> HIDE DEF l
  <2>2. l \in Nat /\ msgIndex \in Nat
    BY <1>1, <1>2 DEF l
  <2>3. x \in 1..l
    BY <2>1, <2>2
  <2>4. messages[x] \in ToSet(messages)
    BY <2>1, <2>3 DEF ToSet
  <2>5. Turn = messages[x]
    BY DEF Turn, l
  <2> HIDE DEF x
  <2> QED
    BY <1>1, <2>4, <2>5 DEF Texts
<1>4. <<>> \in Seq(ServerIds) /\ Len(<<>>) = 0
  OBVIOUS
<1> QED
  BY <1>1, <1>2, <1>3, <1>4

\* autoRefreshLoop.
LEMMA RefreshKeeps ==
  ASSUME TasksPart, NEW r, NEW ok,
         \/ RefreshRound(r) \/ EndRound(r) \/ ListPlayers(r, ok) \/ ShowServerStats(ok)
  PROVE  TasksPart' /\ UNCHANGED <<broadcast, settings, cleaners, stuck>>
<1>1. TickEvery \in Nat \ {0} /\ Len(ServerRows) \in Nat /\ ServerRows \in Seq(ServerIds)
      /\ <<>> \in Seq(ServerIds) /\ Len(<<>>) = 0
  BY TasksFacts
<1>2. UNCHANGED broadcast /\ UNCHANGED settings /\ UNCHANGED cleaners /\ UNCHANGED stuck
  BY DEF RefreshRound, EndRound, ListPlayers, ShowServerStats
<1>3. /\ queue \in Seq(ServerIds) /\ Len(queue) <= Len(ServerRows) /\ tickCounter \in 0..(TickEvery - 1)
      /\ sampled \in {NotText} \cup ServerIds /\ rpc \in {"off", "sleep", "list", "stats"}
      /\ rpc = "stats" => queue # <<>>
  BY DEF TasksPart, RefreshPart
<1>4. queue # <<>> => /\ Head(queue) \in ServerIds /\ Tail(queue) \in Seq(ServerIds)
                      /\ Len(Tail(queue)) <= Len(ServerRows)
  BY <1>1, <1>3, TailOfServers
<1>5. RefreshPart'
  <2>1. CASE RefreshRound(r) \/ EndRound(r)
    <3>1. /\ rpc' \in {"list", "off", "sleep"} /\ queue' \in {ServerRows, queue, <<>>}
          /\ UNCHANGED <<tickCounter, sampled>>
      BY <2>1 DEF RefreshRound, EndRound
    <3>2. queue' \in Seq(ServerIds) /\ Len(queue') <= Len(ServerRows)
      <4>1. CASE queue' = ServerRows
        BY <1>1, <4>1
      <4>2. CASE queue' = queue
        BY <1>3, <4>2
      <4>3. CASE queue' = <<>>
        BY <1>1, <4>3
      <4> QED
        BY <3>1, <4>1, <4>2, <4>3
    <3> QED
      BY <1>3, <3>1, <3>2 DEF RefreshPart
  <2>2. CASE ListPlayers(r, ok)
    <3>1. rpc = "list" /\ queue # <<>> /\ UNCHANGED sampled
      BY <2>2 DEF ListPlayers
    <3>2. tickCounter' \in {(tickCounter + 1) % TickEvery, tickCounter}
      BY <2>2, Zenon DEF ListPlayers
    <3>3. \/ rpc' = "stats" /\ queue' = queue
          \/ rpc' = rpc /\ queue' = Tail(queue)
      BY <2>2, Zenon DEF ListPlayers
    <3>4. (tickCounter + 1) % TickEvery \in 0..(TickEvery - 1)
      BY <1>1, <1>3
    <3>5. tickCounter' \in 0..(TickEvery - 1)
      BY <1>3, <3>2, <3>4
    <3> QED
      BY <1>3, <1>4, <3>1, <3>3, <3>5 DEF RefreshPart
  <2>3. CASE ShowServerStats(ok)
    <3>1. /\ rpc = "stats" /\ queue # <<>> /\ sampled' \in {Head(queue), sampled} /\ UNCHANGED tickCounter
          /\ rpc' = "list" /\ queue' = Tail(queue)
      BY <1>3, <2>3 DEF ShowServerStats
    <3> QED
      BY <1>3, <1>4, <3>1 DEF RefreshPart
  <2> QED
    BY <2>1, <2>2, <2>3
<1> QED
  BY <1>2, <1>5, PartsKept DEF TasksPart

\* What the broadcaster knows when it sends, when it does not, and when time passes.
LEMMA BroadcastFacts ==
  ASSUME TasksPart
  PROVE  /\ bpc \in {"off", "sleep", "check", "send"} /\ toSend \in Seq(ServerIds)
         /\ text \in {NotText} \cup Texts /\ sent \in [ServerIds -> {NotText} \cup Texts]
         /\ age \in 0..Interval /\ msgIndex \in 0..(Period - 1)
         /\ since \in [ServerIds -> 0..Interval] /\ delay \in [ServerIds -> 0..Interval]
         /\ bpc # "send" => toSend = <<>>
         /\ IsInjective(toSend)
         /\ \A s \in ServerIds : since[s] \in Nat /\ delay[s] \in Nat /\ since[s] <= Interval /\ delay[s] <= Interval
         /\ \A s \in ServerIds : since[s] + delay[s] >= age
         /\ \A s \in ServerIds : s \in ToSet(toSend) => since[s] + delay[s] >= Interval
<1>1. Interval \in Nat
  BY TasksFacts
<1>2. BroadcastPart
  BY DEF TasksPart
<1>3. \A s \in ServerIds : since[s] \in 0..Interval /\ delay[s] \in 0..Interval
  BY <1>2 DEF BroadcastPart
<1>4. \A s \in ServerIds : since[s] \in Nat /\ delay[s] \in Nat /\ since[s] <= Interval /\ delay[s] <= Interval
  BY <1>1, <1>3
<1> QED
  BY <1>2, <1>4 DEF BroadcastPart, Spacing

\* A step that neither sends nor passes time.
LEMMA WakingKeeps ==
  ASSUME TasksPart, NEW r, BroadcastWakes(r) \/ NotYet \/ Broadcast \/ EndBroadcast
  PROVE  BroadcastPart' /\ UNCHANGED <<stuck, refresh, settings, cleaners, sent, since, delay>>
<1>1. Interval \in Nat \ {0} /\ Period \in Nat \ {0} /\ (messages # <<>> => Turn \in Texts)
      /\ ServerRows \in Seq(ServerIds) /\ IsInjective(ServerRows)
  BY TasksFacts
<1>2. /\ bpc \in {"off", "sleep", "check", "send"} /\ toSend \in Seq(ServerIds)
      /\ text \in {NotText} \cup Texts /\ sent \in [ServerIds -> {NotText} \cup Texts]
      /\ age \in 0..Interval /\ msgIndex \in 0..(Period - 1)
      /\ since \in [ServerIds -> 0..Interval] /\ delay \in [ServerIds -> 0..Interval]
      /\ bpc # "send" => toSend = <<>>
      /\ IsInjective(toSend)
  BY BroadcastFacts
<1>3. /\ \A s \in ServerIds : since[s] \in Nat /\ delay[s] \in Nat
      /\ \A s \in ServerIds : since[s] + delay[s] >= age
      /\ \A s \in ServerIds : s \in ToSet(toSend) => since[s] + delay[s] >= Interval
  BY BroadcastFacts
<1>4. UNCHANGED <<stuck, refresh, settings, cleaners>> /\ UNCHANGED <<sent, since, delay>>
  BY DEF BroadcastWakes, NotYet, Broadcast, EndBroadcast, OnlyBroadcast
<1>5. CASE BroadcastWakes(r) \/ NotYet \/ EndBroadcast
  <2>1. bpc' \in {"check", "off", "sleep"} /\ toSend = <<>> /\ UNCHANGED <<text, toSend, age, msgIndex>>
    BY <1>2, <1>5 DEF BroadcastWakes, NotYet, EndBroadcast
  <2>2. Spacing'
    BY <1>2, <1>3, <1>4, <2>1 DEF Spacing
  <2> QED
    BY <1>2, <1>4, <2>1, <2>2 DEF BroadcastPart
<1>6. CASE Broadcast
  <2>1. age = Interval /\ age' = 0 /\ toSend = <<>>
        /\ \/ /\ messages # <<>> /\ bpc' = "send" /\ text' = Turn /\ toSend' = ServerRows
              /\ msgIndex' = (msgIndex + 1) % Period
           \/ bpc' = "sleep" /\ UNCHANGED <<text, toSend, msgIndex>>
    BY <1>1, <1>2, <1>6 DEF Broadcast, NextMessage
  <2>2. (msgIndex + 1) % Period \in 0..(Period - 1)
    BY <1>1, <1>2
  <2>3. msgIndex' \in 0..(Period - 1) /\ age' \in 0..Interval
    BY <1>1, <1>2, <2>1, <2>2
  <2>4. text' \in {NotText} \cup Texts /\ toSend' \in Seq(ServerIds) /\ IsInjective(toSend')
    BY <1>1, <1>2, <2>1
  <2>5. \A s \in ServerIds : since'[s] + delay'[s] >= age' /\ since'[s] + delay'[s] >= Interval
    <3> SUFFICES ASSUME NEW s \in ServerIds PROVE since'[s] + delay'[s] >= age' /\ since'[s] + delay'[s] >= Interval
      OBVIOUS
    <3>1. since'[s] = since[s] /\ delay'[s] = delay[s]
      BY <1>4
    <3>2. since[s] \in Nat /\ delay[s] \in Nat /\ since[s] + delay[s] >= Interval
      BY <1>3, <2>1
    <3> QED
      BY <2>1, <3>1, <3>2
  <2>6. Spacing'
    BY <2>1, <2>4, <2>5 DEF Spacing
  <2> QED
    BY <1>2, <1>4, <2>1, <2>3, <2>4, <2>6 DEF BroadcastPart
<1> QED
  BY <1>4, <1>5, <1>6

\* A server gets the message: what it adds up to is the time since lastBroadcast.
LEMMA SendKeeps ==
  ASSUME TasksPart, SendBroadcast
  PROVE  BroadcastPart' /\ UNCHANGED <<stuck, refresh, settings, cleaners>>
<1> DEFINE h == Head(toSend)
<1>1. Interval \in Nat \ {0}
  BY TasksFacts
<1>2. /\ bpc = "send" /\ toSend # <<>> /\ toSend' = Tail(toSend)
      /\ sent' = [sent EXCEPT ![h] = text] /\ since' = [since EXCEPT ![h] = 0]
      /\ delay' = [delay EXCEPT ![h] = age]
      /\ UNCHANGED <<bpc, text, age, msgIndex>> /\ UNCHANGED <<stuck, refresh, settings, cleaners>>
  BY DEF SendBroadcast, OnlyBroadcast
<1>3. /\ bpc \in {"off", "sleep", "check", "send"} /\ toSend \in Seq(ServerIds)
      /\ text \in {NotText} \cup Texts /\ sent \in [ServerIds -> {NotText} \cup Texts]
      /\ age \in 0..Interval /\ msgIndex \in 0..(Period - 1)
      /\ since \in [ServerIds -> 0..Interval] /\ delay \in [ServerIds -> 0..Interval]
      /\ IsInjective(toSend)
      /\ \A s \in ServerIds : since[s] \in Nat /\ delay[s] \in Nat
      /\ \A s \in ServerIds : since[s] + delay[s] >= age
      /\ \A s \in ServerIds : s \in ToSet(toSend) => since[s] + delay[s] >= Interval
  BY BroadcastFacts
<1>4. /\ h \in ServerIds /\ Tail(toSend) \in Seq(ServerIds) /\ ToSet(Tail(toSend)) \subseteq ToSet(toSend)
      /\ IsInjective(Tail(toSend)) /\ h \notin ToSet(Tail(toSend))
  BY <1>2, <1>3, TailOfServers
<1> HIDE DEF h
<1>5. /\ sent' \in [ServerIds -> {NotText} \cup Texts]
      /\ since' \in [ServerIds -> 0..Interval] /\ delay' \in [ServerIds -> 0..Interval]
  BY <1>1, <1>2, <1>3, <1>4
<1>6. \A s \in ServerIds : since'[s] + delay'[s] >= age
  <2> SUFFICES ASSUME NEW s \in ServerIds PROVE since'[s] + delay'[s] >= age
    OBVIOUS
  <2>1. CASE s = h
    BY <1>1, <1>2, <1>3, <2>1
  <2>2. CASE s # h
    BY <1>2, <1>3, <2>2
  <2> QED
    BY <2>1, <2>2
<1>7. ASSUME NEW s \in ServerIds, s \in ToSet(Tail(toSend)) PROVE since'[s] + delay'[s] >= Interval
  <2>1. s # h /\ s \in ToSet(toSend)
    BY <1>4, <1>7
  <2> QED
    BY <1>2, <1>3, <2>1
<1>8. Spacing'
  BY <1>2, <1>4, <1>6, <1>7 DEF Spacing
<1> QED
  BY <1>2, <1>3, <1>4, <1>5, <1>8 DEF BroadcastPart

\* Time passes on all clocks.
LEMMA TickKeeps ==
  ASSUME TasksPart, TasksTick
  PROVE  BroadcastPart' /\ UNCHANGED <<stuck, refresh, settings, cleaners, sent>>
<1>1. Interval \in Nat \ {0}
  BY TasksFacts
<1>2. /\ age' = Aged(age) /\ since' = [s \in ServerIds |-> Aged(since[s])]
      /\ UNCHANGED <<bpc, text, toSend, msgIndex, sent, delay>>
      /\ UNCHANGED <<stuck, refresh, settings, cleaners>>
  BY DEF TasksTick, OnlyBroadcast
<1>3. /\ bpc \in {"off", "sleep", "check", "send"} /\ toSend \in Seq(ServerIds)
      /\ text \in {NotText} \cup Texts /\ sent \in [ServerIds -> {NotText} \cup Texts]
      /\ age \in 0..Interval /\ msgIndex \in 0..(Period - 1)
      /\ delay \in [ServerIds -> 0..Interval]
      /\ bpc # "send" => toSend = <<>>
      /\ IsInjective(toSend)
      /\ \A s \in ServerIds : since[s] \in Nat /\ delay[s] \in Nat /\ since[s] <= Interval
      /\ \A s \in ServerIds : since[s] + delay[s] >= age
      /\ \A s \in ServerIds : s \in ToSet(toSend) => since[s] + delay[s] >= Interval
  BY BroadcastFacts
<1>4. \A n \in 0..Interval : Aged(n) \in 0..Interval /\ Aged(n) >= n /\ Aged(n) <= n + 1
                             /\ (Aged(n) = n + 1 \/ Aged(n) = Interval)
  BY <1>1 DEF Aged
<1>5. age' \in 0..Interval /\ since' \in [ServerIds -> 0..Interval]
  <2>1. \A s \in ServerIds : since[s] \in 0..Interval
    BY <1>1, <1>3
  <2> QED
    BY <1>2, <1>3, <1>4, <2>1
<1>6. ASSUME NEW s \in ServerIds
      PROVE  /\ since'[s] + delay'[s] >= age'
             /\ s \in ToSet(toSend) => since'[s] + delay'[s] >= Interval
  <2> DEFINE a == since[s]
             d == delay[s]
  <2>1. a \in 0..Interval /\ a \in Nat /\ d \in Nat /\ a + d >= age /\ age \in Nat
    BY <1>1, <1>3
  <2>2. s \in ToSet(toSend) => a + d >= Interval
    BY <1>3
  <2>3. since'[s] = Aged(a) /\ delay'[s] = d
    BY <1>2
  <2> HIDE DEF a, d
  <2>4. Aged(a) \in Nat /\ Aged(a) >= a /\ (Aged(a) = a + 1 \/ Aged(a) = Interval)
    BY <1>1, <1>4, <2>1
  <2>5. age' \in Nat /\ age' <= age + 1 /\ age' <= Interval
    BY <1>1, <1>2, <1>3, <1>4
  <2>6. Aged(a) + d >= age'
    BY <1>1, <2>1, <2>4, <2>5
  <2>7. s \in ToSet(toSend) => Aged(a) + d >= Interval
    BY <1>1, <2>1, <2>2, <2>4
  <2> QED
    BY <2>3, <2>6, <2>7
<1>7. Spacing'
  BY <1>2, <1>3, <1>6 DEF Spacing
<1> QED
  BY <1>2, <1>3, <1>5, <1>7 DEF BroadcastPart

\* broadcastLoop, the settings and the clock.
LEMMA BroadcastKeeps ==
  ASSUME TasksPart, NEW r, Broadcasting(r) \/ TasksTick \/ Edit
  PROVE  TasksPart' /\ UNCHANGED <<stuck, refresh, cleaners>>
<1>1. CASE BroadcastWakes(r) \/ NotYet \/ Broadcast \/ EndBroadcast
  BY <1>1, WakingKeeps, PartsKept DEF TasksPart
<1>2. CASE SendBroadcast
  BY <1>2, SendKeeps, PartsKept DEF TasksPart
<1>3. CASE TasksTick
  BY <1>3, TickKeeps, PartsKept DEF TasksPart
<1>4. CASE Edit
  <2>1. UNCHANGED stuck /\ UNCHANGED refresh /\ UNCHANGED broadcast /\ UNCHANGED cleaners
    BY <1>4 DEF Edit
  <2>2. SettingsPart'
    BY <1>4 DEF Edit, TasksPart, SettingsPart
  <2> QED
    BY <2>1, <2>2, PartsKept DEF TasksPart
<1> QED
  BY <1>1, <1>2, <1>3, <1>4 DEF Broadcasting

\* tkCheckerLoop, sessionCleanupLoop and what expires.
LEMMA CleanersKeep ==
  ASSUME TasksPart, NEW r, CheckerWakes(r) \/ KickNext \/ Cleanup(r) \/ Expire
  PROVE  TasksPart' /\ UNCHANGED <<stuck, refresh, settings, broadcast>>
<1>1. MaxDue \in Nat
  BY TasksAssumption
<1>2. UNCHANGED stuck /\ UNCHANGED refresh /\ UNCHANGED settings /\ UNCHANGED broadcast
  BY DEF CheckerWakes, KickNext, Cleanup, Expire, OnlyCleaners
<1>3. /\ kpc \in {"off", "sleep", "kick"} /\ due \in 0..MaxDue /\ (kpc # "kick" => due = 0)
      /\ cpc \in {"off", "sleep", "sessions", "logs"} /\ old \subseteq {"sessions", "logs"}
  BY DEF TasksPart, CleanersPart
<1>4. CleanersPart'
  <2>1. CASE CheckerWakes(r)
    BY <1>1, <1>3, <2>1 DEF CheckerWakes, CleanersPart
  <2>2. CASE KickNext
    BY <1>1, <1>3, <2>2 DEF KickNext, CleanersPart
  <2>3. CASE Cleanup(r)
    BY <1>1, <1>3, <2>3 DEF Cleanup, CleanersPart
  <2>4. CASE Expire
    BY <1>1, <1>3, <2>4 DEF Expire, CleanersPart
  <2> QED
    BY <2>1, <2>2, <2>3, <2>4
<1> QED
  BY <1>2, <1>4, PartsKept DEF TasksPart

\* A game server hangs or comes back.
LEMMA StuckKeeps ==
  ASSUME TasksPart, Hang \/ Recover
  PROVE  TasksPart' /\ UNCHANGED <<refresh, settings, broadcast, cleaners>>
<1>1. stuck' \in BOOLEAN /\ UNCHANGED refresh /\ UNCHANGED settings /\ UNCHANGED broadcast /\ UNCHANGED cleaners
  BY DEF Hang, Recover
<1> QED
  BY <1>1, PartsKept DEF TasksPart

\* A new process, or none.
LEMMA TasksResetKeeps ==
  ASSUME TasksPart, NEW up, TasksReset(up)
  PROVE  TasksPart'
<1>1. TickEvery \in Nat \ {0} /\ Interval \in Nat \ {0} /\ Period \in Nat \ {0} /\ Len(ServerRows) \in Nat
      /\ <<>> \in Seq(ServerIds) /\ Len(<<>>) = 0
  BY TasksFacts
<1>2. /\ {rpc', bpc', kpc', cpc'} \subseteq {"off", "sleep"}
      /\ queue' = <<>> /\ tickCounter' = 0 /\ toSend' = <<>> /\ due' = 0 /\ stuck' = FALSE
      /\ age' = 0 /\ msgIndex' = 0
      /\ UNCHANGED <<sampled, settings, text, sent, since, delay, old>>
  BY DEF TasksReset, TasksStart, HeadOfLoop
<1>3. 0 \in 0..(TickEvery - 1) /\ 0 \in 0..(Period - 1) /\ 0 \in 0..Interval /\ 0 \in 0..MaxDue
  BY <1>1, TasksAssumption
<1>4. RefreshPart'
  BY <1>1, <1>2, <1>3 DEF TasksPart, RefreshPart
<1>5. SettingsPart'
  BY <1>2, PartsKept
<1>6. CleanersPart'
  BY <1>2, <1>3 DEF TasksPart, CleanersPart
<1>7. BroadcastPart'
  <2>1. \A s \in ServerIds : since[s] + delay[s] >= 0
    BY BroadcastFacts
  <2>2. ToSet(<<>>) = {} /\ IsInjective(<<>>)
    BY DEF ToSet, IsInjective
  <2>3. Spacing'
    BY <1>2, <2>1, <2>2 DEF Spacing
  <2> QED
    BY <1>1, <1>2, <1>3, <2>3, BroadcastFacts DEF BroadcastPart
<1> QED
  BY <1>2, <1>4, <1>5, <1>6, <1>7 DEF TasksPart

--------------------------------------------------------------------------------
(* All of them, and main.                                                   *)

\* It holds before the first start.
LEMMA CollectorsInvInit == Init => CollectorsInv
<1> SUFFICES ASSUME Init PROVE CollectorsInv
  OBVIOUS
<1>1. /\ adapter \in Adapters /\ remote = <<>> /\ score = [p \in RemotePlayers |-> 0]
      /\ cursor = 0 /\ batch = {} /\ pages = NoPages /\ ppc = "off"
      /\ recorded = [e \in EventIds |-> 0] /\ known = {} /\ balance = [p \in RemotePlayers |-> 0]
  BY DEF Init, PollerInit
<1>2. /\ MaxScores \in Nat /\ MaxEvents \in Nat /\ MaxStarts \in Nat /\ MaxFailures \in Nat
      /\ Limit \in Nat \ {0} /\ MaxCopies \in Nat
  BY PollerAssumption, CollectorsAssumption DEF MaxCopies
<1>3. TickEvery \in Nat \ {0} /\ Interval \in Nat \ {0} /\ Period \in Nat \ {0}
      /\ ServerRows \in Seq(ToSet(ServerRows)) /\ Len(ServerRows) \in Nat
  BY TasksAssumption
<1>4. PollerTypeOK
  <2>1. remote \in Seq([type : {"kill", "note"}, time : 1..MaxEvents]) /\ Len(remote) = 0
        /\ NoPages.got \in Seq([player : RemotePlayers, points : 0..MaxScores])
    BY <1>1 DEF NoPages
  <2> QED
    BY <1>1, <1>2, <2>1 DEF PollerTypeOK
<1>5. DOMAIN remote = {}
  BY <1>1
<1>6. Ordered /\ NothingSkipped /\ NothingRepeated
  <2>1. \A e \in EventIds : recorded[e] = 0
    BY <1>1
  <2>2. starts = 0 /\ 0 <= 0
    BY DEF Init
  <2> QED
    BY <1>1, <1>5, <2>1, <2>2 DEF Ordered, NothingSkipped, NothingRepeated
<1>7. Paging
  BY <1>1, <1>2 DEF Paging, NoPages
<1>8. /\ rpc = "off" /\ queue = <<>> /\ tickCounter = 0 /\ sampled = NotText /\ stuck = FALSE
      /\ enabled \in BOOLEAN /\ messages \in MessageLists
      /\ bpc = "off" /\ text = NotText /\ toSend = <<>> /\ age = 0 /\ msgIndex = 0
      /\ sent = [s \in ServerIds |-> NotText]
      /\ since = [s \in ServerIds |-> Interval] /\ delay = [s \in ServerIds |-> 0]
      /\ kpc = "off" /\ due = 0 /\ cpc = "off" /\ old = {}
  BY DEF Init, TasksInit
<1>9. queue \in Seq(ServerIds) /\ Len(queue) <= Len(ServerRows) /\ toSend \in Seq(ServerIds)
  BY <1>3, <1>8
<1>10. 0 \in 0..(TickEvery - 1) /\ 0 \in 0..(Period - 1) /\ 0 \in 0..Interval /\ Interval \in 0..Interval
       /\ Interval + 0 >= 0 /\ 0 \in 0..MaxDue
  BY <1>3, TasksAssumption
<1>11. TasksPart
  <2>1. RefreshPart /\ SettingsPart /\ CleanersPart
    BY <1>8, <1>9, <1>10 DEF RefreshPart, SettingsPart, CleanersPart
  <2>2. \A s \in ServerIds : since[s] + delay[s] >= age
    BY <1>8, <1>10
  <2>3. ToSet(toSend) = {} /\ IsInjective(toSend)
    BY <1>8 DEF ToSet, IsInjective
  <2>4. Spacing
    BY <1>8, <2>2, <2>3 DEF Spacing
  <2>5. BroadcastPart
    BY <1>8, <1>9, <1>10, <2>4 DEF BroadcastPart
  <2> QED
    BY <1>8, <2>1, <2>5 DEF TasksPart
<1>12. phase = "down" /\ starts = 0 /\ failures = MaxFailures /\ focus \in {s.focus : s \in Scenarios}
  BY DEF Init
<1>13. MainPart
  BY <1>1, <1>2, <1>8, <1>12 DEF MainPart, ThreadsLast
<1> QED
  BY <1>4, <1>6, <1>7, <1>11, <1>13 DEF CollectorsInv, PollerPart

\* What main knows of its threads.
LEMMA MainFacts ==
  ASSUME CollectorsInv
  PROVE  /\ starts \in Nat /\ MaxFailures \in Nat /\ MaxStarts \in Nat
         /\ ppc # "off" => phase \in {"up", "pollers"}
         /\ rpc # "off" \/ bpc # "off" \/ kpc # "off" \/ cpc # "off" => phase # "down"
         /\ batch # {} => ppc = "store"
  BY PollerAssumption, CollectorsAssumption DEF CollectorsInv, MainPart, ThreadsLast

\* A step of a thread that main lets run.
LEMMA ThreadKept ==
  ASSUME MainPart, UNCHANGED <<phase, starts, focus>>, failures' \in 0..MaxFailures,
         ppc' # "off" => ppc # "off", rpc' # "off" => rpc # "off", bpc' # "off" => bpc # "off",
         kpc' # "off" => kpc # "off", cpc' # "off" => cpc # "off",
         batch' # {} => ppc' = "store"
  PROVE  MainPart'
  BY DEF MainPart, ThreadsLast

\* A request that fails is counted.
LEMMA FailTypes ==
  ASSUME MainPart, NEW ok, Fail(ok)
  PROVE  failures' \in 0..MaxFailures
<1>1. failures \in 0..MaxFailures /\ MaxFailures \in Nat
  BY CollectorsAssumption DEF MainPart
<1>2. failures' = failures \/ (failures > 0 /\ failures' = failures - 1)
  BY DEF Fail
<1> QED
  BY <1>1, <1>2

\* A step of the poller.
LEMMA PollerStepKeeps ==
  ASSUME CollectorsInv, PollerStep
  PROVE  CollectorsInv'
<1>1. UNCHANGED tasksVars /\ UNCHANGED <<phase, starts, focus>>
  BY DEF PollerStep
<1>2. UNCHANGED <<rpc, bpc, kpc, cpc>>
  BY <1>1 DEF tasksVars, refresh, broadcast, cleaners
<1>3. PollerPart /\ TasksPart /\ MainPart /\ starts \in Nat /\ ThreadsLast
  BY MainFacts DEF CollectorsInv, MainPart
<1>4. TasksPart'
  BY <1>1, <1>3, TasksKept
<1>5. failures' \in 0..MaxFailures
  <2>1. CASE UNCHANGED failures
    BY <1>3, <2>1 DEF MainPart
  <2>2. CASE \E ok \in BOOLEAN : Fail(ok)
    BY <1>3, <2>2, FailTypes
  <2> QED
    BY <2>1, <2>2 DEF PollerStep
<1>6. PICK r, ok : WakeUp(r) \/ StoreEvent \/ EndEvents \/ PollPlayers(ok) \/ FetchEvents(ok) \/ PollBoard(ok)
  BY DEF PollerStep, Poll, PollRequest
<1>7. PollerPart'
  <2>1. CASE WakeUp(r) \/ EndEvents
    BY <1>1, <1>3, <2>1, WakeUpKeeps
  <2>2. CASE StoreEvent
    BY <1>1, <1>3, <2>2, StoreEventKeeps
  <2>3. CASE PollPlayers(ok)
    BY <1>1, <1>3, <2>3, PollPlayersKeeps
  <2>4. CASE FetchEvents(ok)
    BY <1>1, <1>3, <2>4, FetchEventsKeeps
  <2>5. CASE PollBoard(ok)
    BY <1>1, <1>3, <2>5, PollBoardKeeps
  <2> QED
    BY <1>6, <2>1, <2>2, <2>3, <2>4, <2>5
<1>8. ppc # "off" /\ (batch' # {} => ppc' = "store")
  <2>1. batch # {} => ppc = "store"
    BY MainFacts
  <2> QED
    BY <1>6, <2>1 DEF WakeUp, StoreEvent, EndEvents, PollPlayers, FetchEvents, PollBoard, memory
<1>9. MainPart'
  BY <1>1, <1>2, <1>3, <1>5, <1>8, ThreadKept
<1> QED
  BY <1>4, <1>7, <1>9 DEF CollectorsInv

\* A step that is not the poller's leaves what it has to main.
LEMMA OthersKeep ==
  ASSUME CollectorsInv, UNCHANGED pollerVars, UNCHANGED <<phase, starts, focus>>,
         failures' \in 0..MaxFailures, TasksPart',
         rpc' # "off" => rpc # "off", bpc' # "off" => bpc # "off",
         kpc' # "off" => kpc # "off", cpc' # "off" => cpc # "off"
  PROVE  CollectorsInv'
<1>1. UNCHANGED <<ppc, batch>>
  BY DEF pollerVars, memory
<1>2. PollerPart /\ MainPart
  BY DEF CollectorsInv
<1>3. PollerPart'
  BY <1>2, PollerKept
<1>4. batch' # {} => ppc' = "store"
  BY <1>1, MainFacts
<1>5. MainPart'
  BY <1>1, <1>2, <1>4, ThreadKept
<1> QED
  BY <1>3, <1>5 DEF CollectorsInv

\* A step of autoRefreshLoop.
LEMMA RefreshStepKeeps ==
  ASSUME CollectorsInv, RefreshStep
  PROVE  CollectorsInv' /\ rpc # "off" /\ UNCHANGED <<pollerVars, broadcast, cleaners, phase>>
<1>1. UNCHANGED pollerVars /\ UNCHANGED <<phase, starts, focus>>
  BY DEF RefreshStep
<1>2. TasksPart /\ MainPart
  BY DEF CollectorsInv
<1>3. failures' \in 0..MaxFailures
  <2>1. CASE UNCHANGED failures
    BY <1>2, <2>1 DEF MainPart
  <2>2. CASE \E ok \in BOOLEAN : Fail(ok)
    BY <1>2, <2>2, FailTypes
  <2> QED
    BY <2>1, <2>2 DEF RefreshStep
<1>4. PICK r, ok : RefreshRound(r) \/ EndRound(r) \/ ListPlayers(r, ok) \/ ShowServerStats(ok)
  BY DEF RefreshStep, Refresh, RefreshRequest
<1>5. TasksPart' /\ UNCHANGED broadcast /\ UNCHANGED cleaners
  BY <1>2, <1>4, RefreshKeeps
<1>6. rpc # "off"
  BY <1>4 DEF RefreshRound, EndRound, ListPlayers, ShowServerStats
<1>7. UNCHANGED <<bpc, kpc, cpc>>
  BY <1>5 DEF broadcast, cleaners
<1>8. CollectorsInv'
  BY <1>1, <1>3, <1>5, <1>6, <1>7, OthersKeep
<1> QED
  BY <1>1, <1>5, <1>6, <1>8

\* A step of the broadcasts, the clock or the settings.
LEMMA BroadcastStepKeeps ==
  ASSUME CollectorsInv, BroadcastStep \/ ClockStep \/ EditStep
  PROVE  CollectorsInv' /\ UNCHANGED <<pollerVars, refresh, cleaners, phase>>
<1>1. UNCHANGED pollerVars /\ UNCHANGED <<phase, starts, focus, failures>>
  BY DEF BroadcastStep, ClockStep, EditStep, mainVars
<1>2. TasksPart /\ failures \in 0..MaxFailures
  BY DEF CollectorsInv, MainPart
<1>3. PICK r : Broadcasting(r) \/ TasksTick \/ Edit
  BY DEF BroadcastStep, ClockStep, EditStep
<1>4. TasksPart' /\ UNCHANGED refresh /\ UNCHANGED cleaners
  BY <1>2, <1>3, BroadcastKeeps
<1>5. bpc' # "off" => bpc # "off"
  BY <1>3 DEF Broadcasting, BroadcastWakes, NotYet, Broadcast, SendBroadcast, EndBroadcast, TasksTick, Edit, broadcast
<1>6. UNCHANGED <<rpc, kpc, cpc>>
  BY <1>4 DEF refresh, cleaners
<1>7. CollectorsInv'
  BY <1>1, <1>2, <1>4, <1>5, <1>6, OthersKeep
<1> QED
  BY <1>1, <1>4, <1>7

\* A step of the TK checker or the session cleanup, or what there is for it.
LEMMA CleanerStepKeeps ==
  ASSUME CollectorsInv, CheckerStep \/ CleanupStep \/ ExpireStep
  PROVE  CollectorsInv' /\ UNCHANGED <<pollerVars, refresh, broadcast, phase>>
<1>1. UNCHANGED pollerVars /\ UNCHANGED <<phase, starts, focus, failures>>
  BY DEF CheckerStep, CleanupStep, ExpireStep, mainVars
<1>2. TasksPart /\ failures \in 0..MaxFailures
  BY DEF CollectorsInv, MainPart
<1>3. PICK r : CheckerWakes(r) \/ KickNext \/ Cleanup(r) \/ Expire
  BY DEF CheckerStep, CleanupStep, ExpireStep
<1>4. TasksPart' /\ UNCHANGED refresh /\ UNCHANGED broadcast
  BY <1>2, <1>3, CleanersKeep
<1>5. (kpc' # "off" => kpc # "off") /\ (cpc' # "off" => cpc # "off")
  BY <1>3 DEF CheckerWakes, KickNext, Cleanup, Expire
<1>6. UNCHANGED <<rpc, bpc>>
  BY <1>4 DEF refresh, broadcast
<1>7. CollectorsInv'
  BY <1>1, <1>2, <1>4, <1>5, <1>6, OthersKeep
<1> QED
  BY <1>1, <1>4, <1>7

\* A request hangs, or comes back.
LEMMA HangKeeps ==
  ASSUME CollectorsInv, HangStep \/ RecoverStep
  PROVE  CollectorsInv' /\ UNCHANGED <<pollerVars, refresh, broadcast, cleaners, phase>>
<1>1. UNCHANGED pollerVars /\ UNCHANGED <<phase, starts, focus>> /\ (Hang \/ Recover)
  BY DEF HangStep, RecoverStep, mainVars
<1>2. TasksPart /\ MainPart
  BY DEF CollectorsInv
<1>3. failures' \in 0..MaxFailures
  BY <1>2, FailTypes DEF HangStep, RecoverStep, mainVars, MainPart
<1>4. TasksPart' /\ UNCHANGED refresh /\ UNCHANGED broadcast /\ UNCHANGED cleaners
  BY <1>1, <1>2, StuckKeeps
<1>5. UNCHANGED <<rpc, bpc, kpc, cpc>>
  BY <1>4 DEF refresh, broadcast, cleaners
<1>6. CollectorsInv'
  BY <1>1, <1>3, <1>4, <1>5, OthersKeep
<1> QED
  BY <1>1, <1>4, <1>6

\* A step of the other panel.
LEMMA RemoteStepKeeps ==
  ASSUME CollectorsInv, RemoteStep
  PROVE  CollectorsInv' /\ UNCHANGED <<tables, tasksVars, phase>>
<1>1. UNCHANGED tasksVars /\ UNCHANGED <<phase, starts, focus, failures>> /\ (RemoteEvent \/ RemoteScore)
  BY DEF RemoteStep, mainVars
<1>2. UNCHANGED <<rpc, bpc, kpc, cpc>>
  BY <1>1 DEF tasksVars, refresh, broadcast, cleaners
<1>3. PollerPart /\ TasksPart /\ MainPart /\ starts \in Nat /\ ThreadsLast
  BY MainFacts DEF CollectorsInv, MainPart
<1>4. UNCHANGED <<ppc, batch>> /\ UNCHANGED tables
  BY <1>1 DEF RemoteEvent, RemoteScore, memory
<1>5. PollerPart'
  BY <1>1, <1>3, RemoteEventKeeps, RemoteScoreKeeps
<1>6. TasksPart'
  BY <1>1, <1>3, TasksKept
<1>7. batch' # {} => ppc' = "store"
  BY <1>4, MainFacts
<1>8. MainPart'
  BY <1>1, <1>2, <1>3, <1>4, <1>7, ThreadKept DEF MainPart
<1> QED
  BY <1>1, <1>4, <1>5, <1>6, <1>8 DEF CollectorsInv

\* main starts the threads, or the process dies.
LEMMA StartKeeps ==
  ASSUME CollectorsInv, Start \/ Crash
  PROVE  CollectorsInv' /\ UNCHANGED <<tables, sampled, sent, old>> /\ due' = 0 /\ phase' # phase
<1>1. PICK up : /\ PollerReset(HeadOfLoop("poller", up)) /\ TasksReset(up) /\ UNCHANGED <<focus, failures>>
                /\ \/ phase = "down" /\ phase' = "up" /\ starts < MaxStarts /\ starts' = starts + 1
                   \/ phase # "down" /\ phase' = "down" /\ starts' = starts /\ up = {}
  <2>1. CASE Start
    BY <2>1 DEF Start
  <2>2. CASE Crash
    <3>1. HeadOfLoop("poller", {}) = "off"
      BY DEF HeadOfLoop
    <3> QED
      BY <2>2, <3>1 DEF Crash
  <2> QED
    BY <2>1, <2>2
<1> DEFINE p == HeadOfLoop("poller", up)
<1>2. PollerPart /\ TasksPart /\ MainPart /\ starts \in Nat /\ MaxStarts \in Nat
  BY MainFacts DEF CollectorsInv
<1>3. p \in {"off", "sleep"} /\ (up = {} => p = "off")
  BY DEF HeadOfLoop
<1>4. PollerPart'
  <2>1. (p = "off" /\ starts' = starts) \/ starts' = starts + 1
    BY <1>1, <1>3
  <2>2. PollerReset(p)
    BY <1>1
  <2> HIDE DEF p
  <2> QED
    BY <1>2, <1>3, <2>1, <2>2, ResetKeeps
<1>5. TasksPart'
  BY <1>1, <1>2, TasksResetKeeps
<1>6. ppc' = p /\ batch' = {} /\ UNCHANGED tables
  BY <1>1 DEF PollerReset
<1>7. /\ up = {} => rpc' = "off" /\ bpc' = "off" /\ kpc' = "off" /\ cpc' = "off"
      /\ UNCHANGED <<sampled, sent, old>> /\ due' = 0
  BY <1>1 DEF TasksReset, TasksStart, HeadOfLoop
<1>8. starts' \in 0..MaxStarts /\ (phase' # "down" => starts' > 0)
  BY <1>1, <1>2 DEF MainPart
<1> HIDE DEF p
<1>9. MainPart'
  BY <1>1, <1>2, <1>3, <1>6, <1>7, <1>8 DEF MainPart, ThreadsLast
<1> QED
  BY <1>1, <1>4, <1>5, <1>6, <1>7, <1>9 DEF CollectorsInv

\* main goes on with the stop.
LEMMA StopKeeps ==
  ASSUME CollectorsInv, Signal \/ JoinPollers \/ JoinTasks
  PROVE  CollectorsInv' /\ UNCHANGED <<pollerVars, tasksVars>>
<1>1. UNCHANGED <<pollerVars, tasksVars, starts, focus, failures>>
  BY DEF Signal, JoinPollers, JoinTasks
<1>2. UNCHANGED <<ppc, batch, rpc, bpc, kpc, cpc>>
  BY <1>1 DEF pollerVars, memory, tasksVars, refresh, broadcast, cleaners
<1>3. PollerPart /\ TasksPart /\ MainPart
  BY DEF CollectorsInv
<1>4. PollerPart' /\ TasksPart'
  BY <1>1, <1>3, PollerKept, TasksKept
<1>5. /\ phase # "down" /\ phase' \in {"down", "up", "pollers", "tasks"}
      /\ ppc # "off" => phase' \in {"up", "pollers"}
      /\ rpc # "off" \/ bpc # "off" \/ kpc # "off" \/ cpc # "off" => phase' # "down"
  BY <1>3 DEF Signal, JoinPollers, JoinTasks, MainPart, ThreadsLast
<1>6. MainPart'
  BY <1>1, <1>2, <1>3, <1>5 DEF MainPart, ThreadsLast
<1> QED
  BY <1>1, <1>4, <1>6 DEF CollectorsInv

\* Every step keeps it.
LEMMA CollectorsInvStep == CollectorsInv /\ [Next]_vars => CollectorsInv'
<1> SUFFICES ASSUME CollectorsInv, [Next]_vars PROVE CollectorsInv'
  OBVIOUS
<1>1. CASE Start \/ Crash
  BY <1>1, StartKeeps
<1>2. CASE Signal \/ JoinPollers \/ JoinTasks
  BY <1>2, StopKeeps
<1>3. CASE PollerStep
  BY <1>3, PollerStepKeeps
<1>4. CASE RefreshStep
  BY <1>4, RefreshStepKeeps
<1>5. CASE BroadcastStep \/ ClockStep \/ EditStep
  BY <1>5, BroadcastStepKeeps
<1>6. CASE RemoteStep
  BY <1>6, RemoteStepKeeps
<1>7. CASE CheckerStep \/ CleanupStep \/ ExpireStep
  BY <1>7, CleanerStepKeeps
<1>8. CASE HangStep \/ RecoverStep
  BY <1>8, HangKeeps
<1>9. CASE UNCHANGED vars
  <2>1. UNCHANGED <<pollerVars, tasksVars, phase, starts, focus, failures>>
    BY <1>9 DEF vars, mainVars
  <2>2. UNCHANGED <<ppc, batch, rpc, bpc, kpc, cpc>>
    BY <2>1 DEF pollerVars, memory, tasksVars, refresh, broadcast, cleaners
  <2>3. PollerPart' /\ TasksPart'
    BY <2>1, PollerKept, TasksKept DEF CollectorsInv
  <2>4. MainPart'
    BY <2>1, <2>2 DEF CollectorsInv, MainPart, ThreadsLast
  <2> QED
    BY <2>3, <2>4 DEF CollectorsInv
<1> QED
  BY <1>1, <1>2, <1>3, <1>4, <1>5, <1>6, <1>7, <1>8, <1>9 DEF Next

\* What the invariant says of the cursor.
LEMMA CursorOfInv == CollectorsInv => CursorIsExact
<1> SUFFICES ASSUME CollectorsInv PROVE CursorIsExact
  OBVIOUS
<1>1. TypeOK
  BY TasksTypes DEF CollectorsInv, PollerPart, MainPart, TypeOK
<1>2. FetchedOnce
  BY DEF CollectorsInv, PollerPart, NothingRepeated, FetchedOnce
<1>3. CursorIsSafe
  <2> SUFFICES ASSUME NEW e \in DOMAIN remote, remote[e].type = "kill", recorded[e] = 0,
                      remote[e].time < cursor, e \notin batch
               PROVE  Hidden(e)
    BY DEF CursorIsSafe, Hidden
  <2>1. Seen(e)
    BY DEF CollectorsInv, PollerPart, NothingSkipped
  <2> QED
    BY <2>1 DEF Seen, Handled
<1> QED
  BY <1>1, <1>2, <1>3 DEF CursorIsExact

\* lastEventTime_ skips no event but one that shares its second with an earlier one when
\* `since` excludes that second, and a process stores no event twice unless `since`
\* includes it, whichever requests fail and whenever the panel is stopped
\* (processEvents moves the cursor with every event).
THEOREM CursorExact == Spec => []CursorIsExact
  BY CollectorsInvInit, CollectorsInvStep, CursorOfInv, PTL DEF Spec

\* A step from "down" is a start, or one of the other panel, a game server, the clock or
\* the settings.
LEMMA QuietStopped ==
  CollectorsInv /\ [Next]_vars => [phase = "down" => UNCHANGED Output /\ old \subseteq old']_vars
<1> SUFFICES ASSUME CollectorsInv, Next, phase = "down"
             PROVE  UNCHANGED <<tables, sampled, sent, due>> /\ old \subseteq old'
  BY DEF Output
<1>1. ppc = "off" /\ rpc = "off" /\ bpc = "off" /\ kpc = "off" /\ cpc = "off"
  BY MainFacts
<1>2. CASE Start \/ Crash
  <2>1. due = 0
    BY <1>1 DEF CollectorsInv, TasksPart, CleanersPart
  <2> QED
    BY <1>2, <2>1, StartKeeps
<1>3. CASE Signal \/ JoinPollers \/ JoinTasks
  BY <1>3 DEF Signal, JoinPollers, JoinTasks
<1>4. CASE PollerStep
  BY <1>1, <1>4 DEF PollerStep, Poll, PollRequest, WakeUp, StoreEvent, EndEvents, PollPlayers, FetchEvents, PollBoard
<1>5. CASE RefreshStep
  BY <1>1, <1>5, RefreshStepKeeps
<1>6. CASE BroadcastStep \/ ClockStep \/ EditStep
  <2>1. UNCHANGED pollerVars /\ UNCHANGED refresh /\ UNCHANGED cleaners
    BY <1>6, BroadcastStepKeeps
  <2>2. UNCHANGED sent
    BY <1>1, <1>6 DEF BroadcastStep, ClockStep, EditStep, Broadcasting, BroadcastWakes, NotYet, Broadcast,
                      SendBroadcast, EndBroadcast, TasksTick, Edit, broadcast
  <2> QED
    BY <2>1, <2>2 DEF pollerVars, refresh, cleaners
<1>7. CASE RemoteStep
  <2>1. UNCHANGED tables /\ UNCHANGED tasksVars
    BY <1>7, RemoteStepKeeps
  <2> QED
    BY <2>1 DEF tasksVars, refresh, broadcast, cleaners
<1>8. CASE CheckerStep \/ CleanupStep \/ ExpireStep
  <2>1. UNCHANGED pollerVars /\ UNCHANGED refresh /\ UNCHANGED broadcast
    BY <1>8, CleanerStepKeeps
  <2>2. UNCHANGED due /\ old \subseteq old'
    BY <1>1, <1>8 DEF CheckerStep, CleanupStep, ExpireStep, CheckerWakes, KickNext, Cleanup, Expire
  <2> QED
    BY <2>1, <2>2 DEF pollerVars, refresh, broadcast
<1>9. CASE HangStep \/ RecoverStep
  <2>1. UNCHANGED pollerVars /\ UNCHANGED refresh /\ UNCHANGED broadcast /\ UNCHANGED cleaners
    BY <1>9, HangKeeps
  <2> QED
    BY <2>1 DEF pollerVars, refresh, broadcast, cleaners
<1> QED
  BY <1>2, <1>3, <1>4, <1>5, <1>6, <1>7, <1>8, <1>9 DEF Next

\* When main has stopped the collectors, nothing is stored, sent or deleted until it
\* starts them again: the joins of the poller and of the four timed tasks come before
\* "down" (main.cpp:141-143).
THEOREM StoppedQuiet == Spec => StoppedIsQuiet
  BY CollectorsInvInit, CollectorsInvStep, QuietStopped, PTL DEF Spec, StoppedIsQuiet

\* What the invariant says of the broadcasts.
LEMMA SpacingOfInv == CollectorsInv => BroadcastsSpaced
<1> SUFFICES ASSUME CollectorsInv, NEW s \in ToSet(toSend) PROVE since[s] + delay[s] >= Interval
  BY DEF BroadcastsSpaced
<1>1. TasksPart
  BY DEF CollectorsInv
<1>2. toSend \in Seq(ServerIds)
  BY <1>1, BroadcastFacts
<1>3. s \in ServerIds
  BY <1>2 DEF ToSet
<1> QED
  BY <1>1, <1>3, BroadcastFacts

\* A server is sent a broadcast no sooner after the one before than the interval less
\* the time that one took from lastBroadcast to the server, also when the panel is
\* restarted between them or the settings change: lastBroadcast is set before the
\* requests, and to the time of the start (broadcastLoop).
THEOREM MessagesSpaced == Spec => []BroadcastsSpaced
  BY CollectorsInvInit, CollectorsInvStep, SpacingOfInv, PTL DEF Spec
================================================================================

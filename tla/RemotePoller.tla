------------------------------- MODULE RemotePoller -------------------------------
(***************************************************************************)
(* RemoteApiPoller: for a server in the mode remote_api or external_api a    *)
(* thread polls another panel every 30 seconds for players, events and the  *)
(* leaderboard, through one of three adapters, and stores what it gets.     *)
(*                                                                         *)
(* The other panel is external: it writes events, oldest first, with times   *)
(* of one-second resolution, and keeps a board of points, while the poller   *)
(* is between two requests.  An adapter turns every failure into an empty    *)
(* answer, so a poll never fails and the ping after five failures is never   *)
(* reached.  The module leaves the starting and stopping to Collectors.     *)
(***************************************************************************)
EXTENDS Integers, Sequences, FiniteSets, FiniteSetsExt, SequencesExt

CONSTANTS
    RemotePlayers,  \* players of the other panel
    Adapters,       \* the servers polled: apiType, and which requests its apiConfig
                    \* has or its panel answers, and how that panel reads `since`
    Limit,          \* LEADERBOARD_PAGE_SIZE
    RemotePage,     \* entries the other panel puts on one page at most
    MaxEvents, MaxScores, MaxStarts   \* bounds: events, changes of the board, starts

ASSUME PollerAssumption ==
    /\ IsFiniteSet(RemotePlayers)
    /\ Adapters \subseteq [type : {"self", "generic", "plugin_squad"}, inclusive : BOOLEAN,
                           offers : SUBSET {"players", "events", "board"}]
    /\ {Limit, RemotePage} \subseteq Nat \ {0}
    /\ {MaxEvents, MaxScores, MaxStarts} \subseteq Nat

VARIABLES
    adapter,   \* adapter_
    remote,    \* the other panel's events: time and type
    score,     \* the other panel's points
    cursor,    \* lastEventTime_ (0: empty)
    batch,     \* events fetched and not yet stored: a set of places in remote
    pages,     \* the leaderboard loop: page and the entries so far
    ppc,       \* the poller's next step
    recorded,  \* how often each event is in kills, chat_logs or player_events
    known,     \* table players
    balance    \* points.balance of each player

other == <<remote, score>>
memory == <<cursor, batch, pages>>
tables == <<recorded, known, balance>>
pollerVars == <<adapter, other, memory, ppc, tables>>

EventIds == 1..MaxEvents
NoPages == [page |-> 1, got |-> <<>>]
MaxCopies == MaxStarts + 1   \* bound: more copies of one event are not told apart

PollerInit ==
    /\ adapter \in Adapters
    /\ remote = <<>> /\ score = [p \in RemotePlayers |-> 0]
    /\ cursor = 0 /\ batch = {} /\ pages = NoPages
    /\ ppc = "off"
    /\ recorded = [e \in EventIds |-> 0]
    /\ known = {} /\ balance = [p \in RemotePlayers |-> 0]

--------------------------------------------------------------------------------
(* The other panel, as far as the adapter can see it.                       *)

\* An event of a type the poller stores, or another, in the last event's second
\* or in the next.
RemoteEvent ==
    /\ Len(remote) < MaxEvents /\ "events" \in adapter.offers
    /\ \E type \in {"kill", "note"}, d \in {0, 1} :
        remote' = Append(remote, [type |-> type,
                    time |-> IF remote = <<>> THEN 1 ELSE Last(remote).time + d])
    /\ UNCHANGED <<adapter, score, memory, ppc, tables>>

RemoteScore ==
    /\ adapter.offers \cap {"players", "board"} # {}
    /\ \E p \in RemotePlayers : score[p] < MaxScores /\ score' = [score EXCEPT ![p] = @ + 1]
    /\ UNCHANGED <<adapter, remote, memory, ppc, tables>>

\* The leaderboard, highest points first.
Board ==
    CHOOSE b \in [1..Cardinality(RemotePlayers) -> RemotePlayers] :
        \A i, j \in DOMAIN b : i < j => b[i] # b[j] /\ score[b[i]] >= score[b[j]]

\* Events since a time: later ones, or (inclusive) those of that second too.
Since(c) ==
    {e \in DOMAIN remote : remote[e].time > c \/ c = 0 \/ (adapter.inclusive /\ remote[e].time = c)}

--------------------------------------------------------------------------------
(* pollLoop.                                                                *)

\* What an adapter can get: PluginSquad has a leaderboard only, a panel of this
\* code has none of the routes and fields that SelfPanelAdapter asks for.
Offers(request) ==
    /\ request \in adapter.offers
    /\ adapter.type # "self"
    /\ adapter.type = "plugin_squad" => request = "board"

\* processPlayers: every player is put into players, and the balance is replaced
\* by points that are not 0.
ProcessPlayers(entries) ==
    LET ps == {entries[i].player : i \in DOMAIN entries}
        points(p) == entries[Max({i \in DOMAIN entries : entries[i].player = p})].points
    IN  /\ known' = known \cup ps
        /\ balance' = [p \in RemotePlayers |->
                IF p \in ps /\ points(p) > 0 THEN points(p) ELSE balance[p]]

Entries(ps) == [i \in DOMAIN ps |-> [player |-> ps[i], points |-> score[ps[i]]]]

\* Mutant of WakeUp: the loop does not look at running_.
WakeUpAlways(running) ==
    /\ ppc = "sleep"
    /\ ppc' = "players"
    /\ UNCHANGED <<adapter, other, memory, tables>>

\* The head of the loop looks at running_; the thread was asleep before.
WakeUp(running) ==
    /\ ppc = "sleep"
    /\ ppc' = IF running THEN "players" ELSE "off"
    /\ UNCHANGED <<adapter, other, memory, tables>>

\* fetchPlayers and processPlayers; a request that fails returns nobody.
PollPlayers(ok) ==
    /\ ppc = "players"
    /\ IF ok /\ Offers("players")
       THEN ProcessPlayers(Entries(Board))
       ELSE UNCHANGED <<known, balance>>
    /\ ppc' = "events"
    /\ UNCHANGED <<adapter, other, memory, recorded>>

FetchEvents(ok) ==
    /\ ppc = "events"
    /\ batch' = IF ok /\ Offers("events") THEN Since(cursor) ELSE {}
    /\ ppc' = "store"
    /\ UNCHANGED <<adapter, other, cursor, pages, tables>>

Stored(e) == [recorded EXCEPT ![e] = IF @ < MaxCopies THEN @ + 1 ELSE @]

\* Mutant of StoreEvent: a type nobody knows is skipped before the cursor moves,
\* and so is every other.
StoreEventOnly ==
    /\ ppc = "store" /\ batch # {}
    /\ recorded' = IF remote[Min(batch)].type = "kill" THEN Stored(Min(batch)) ELSE recorded
    /\ batch' = batch \ {Min(batch)}
    /\ UNCHANGED <<adapter, other, cursor, pages, ppc, known, balance>>

\* processEvents, oldest first: INSERT the event if its type is known, and move the
\* cursor.
StoreEvent ==
    /\ ppc = "store" /\ batch # {}
    /\ recorded' = IF remote[Min(batch)].type = "kill" THEN Stored(Min(batch)) ELSE recorded
    /\ cursor' = remote[Min(batch)].time
    /\ batch' = batch \ {Min(batch)}
    /\ UNCHANGED <<adapter, other, pages, ppc, known, balance>>

EndEvents ==
    /\ ppc = "store" /\ batch = {}
    /\ ppc' = "board" /\ pages' = NoPages
    /\ UNCHANGED <<adapter, other, cursor, batch, tables>>

Smaller(a, b) == IF a < b THEN a ELSE b

\* The page asked for: GenericApiAdapter has one of Limit entries; PluginSquad is
\* asked for as many as are still missing, which the other panel caps.
PageSize(left) == IF adapter.type = "plugin_squad" THEN Smaller(RemotePage, left) ELSE Limit

\* Mutant of LastPage: one page is all.
FirstPageOnly(n, size, left) == TRUE

\* The loop ends at the last page of this size, or when Limit entries have come.
LastPage(n, size, left) == n * size >= Len(Board) \/ size >= left

\* fetchLeaderboard, one request a page for PluginSquad, and processPlayers with
\* what has come when a request fails or the last page is in.
PollBoard(ok) ==
    LET left == Limit - Len(pages.got)
        size == PageSize(left)
        n == pages.page
        got == pages.got \o Entries(SubSeq(Board, (n - 1) * size + 1, Smaller(Len(Board), n * size)))
    IN  /\ ppc = "board"
        /\ IF ok /\ Offers("board")
           THEN IF LastPage(n, size, left)
                THEN ProcessPlayers(got) /\ ppc' = "sleep" /\ pages' = NoPages
                ELSE /\ pages' = [page |-> n + 1, got |-> got]
                     /\ UNCHANGED <<ppc, known, balance>>
           ELSE ProcessPlayers(pages.got) /\ ppc' = "sleep" /\ pages' = NoPages
        /\ UNCHANGED <<adapter, other, cursor, batch, recorded>>

\* A new RemoteApiPoller, or none.
PollerReset(next) ==
    /\ cursor' = 0 /\ batch' = {} /\ pages' = NoPages
    /\ ppc' = next
    /\ UNCHANGED <<adapter, other, tables>>

Poll(running) == WakeUp(running) \/ StoreEvent \/ EndEvents
PollRequest(ok) == PollPlayers(ok) \/ FetchEvents(ok) \/ PollBoard(ok)

--------------------------------------------------------------------------------
PollerTypeOK ==
    /\ adapter \in Adapters
    /\ remote \in Seq([type : {"kill", "note"}, time : 1..MaxEvents]) /\ Len(remote) <= MaxEvents
    /\ score \in [RemotePlayers -> 0..MaxScores] /\ balance \in [RemotePlayers -> 0..MaxScores]
    /\ cursor \in 0..MaxEvents
    /\ batch \subseteq DOMAIN remote
    /\ pages.got \in Seq([player : RemotePlayers, points : 0..MaxScores])
    /\ ppc \in {"off", "players", "events", "store", "board", "sleep"}
    /\ recorded \in [EventIds -> 0..MaxCopies]
    /\ known \subseteq RemotePlayers
================================================================================

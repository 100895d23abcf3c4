----------------------------- MODULE Favorites -----------------------------
(***************************************************************************)
(* Favorites and the counters of a spec (analytics/application/service.go  *)
(* and pg_analytics_repo.go), and a client that walks through the pages of *)
(* its favorites while they change. A toggle reads, opens a transaction,   *)
(* which fixes NOW(), and then writes; each transaction is one step, since *)
(* its counter updates are relative and lock the row they change.          *)
(***************************************************************************)
EXTENDS Naturals, FiniteSets

CONSTANTS
    Users,
    Reader,      \* the user whose favorites are listed
    Specs,       \* numbers: the cursor compares spec ids
    Requests,    \* slots: toggles served at the same time
    PageSize,    \* limit
    MaxTime,     \* bound: readings of the clock
    MaxTracks,   \* bound: plays and downloads of a spec
    MaxAdds,     \* bound: favorites added to a spec
    NULL

Kinds == {"play", "download", "favorite"}

FavoritesAssumption ==
    /\ Reader \in Users /\ IsFiniteSet(Users)
    /\ Specs \subseteq Nat
    /\ PageSize \in Nat \ {0} /\ MaxTime \in Nat /\ MaxTracks \in Nat
    /\ MaxAdds \in Nat
    /\ NULL \notin Users \cup Nat
    /\ NULL \notin [Kinds -> Nat] /\ NULL \notin Nat \X Specs

VARIABLES
    fav,      \* user_favorites: created_at of the row, or NULL
    stats,    \* the spec_analytics row, or NULL
    events,   \* number of analytics_events rows by type
    hidden,   \* soft-deleted specs
    gone,     \* deleted specs
    clock,
    req,      \* what each slot is doing
    walk      \* the client: the cursor it holds, the rows it got, and as
              \* history the rows that were listed throughout its walk

world == <<stats, events, hidden, gone>>
vars == <<fav, world, clock, req, walk>>

NoCounts == [k \in Kinds |-> 0]
Times == 0..MaxTime

Request == [at : {"idle", "add", "insert", "remove"}, user : Users \cup {NULL},
            spec : Specs \cup {NULL}, now : Times]
Idle == [at |-> "idle", user |-> NULL, spec |-> NULL, now |-> 0]

\* A row of the listing: its sort key.
Key == Times \X Specs
Walk == [on : BOOLEAN, cursor : Key \cup {NULL}, got : SUBSET Key,
         twice : BOOLEAN, kept : SUBSET Key, missed : SUBSET Key]
NoWalk == [on |-> FALSE, cursor |-> NULL, got |-> {}, twice |-> FALSE,
           kept |-> {}, missed |-> {}]

\* The shape of the rows, the slots and the client.
TypeOK ==
    /\ fav \in [Users -> [Specs -> Times \cup {NULL}]]
    /\ stats \in [Specs -> [Kinds -> Nat] \cup {NULL}]
    /\ events \in [Specs -> [Kinds -> Nat]]
    /\ hidden \in SUBSET Specs /\ gone \in SUBSET Specs
    /\ clock \in Times
    /\ req \in [Requests -> Request]
    /\ walk \in Walk

Init ==
    /\ fav = [u \in Users |-> [s \in Specs |-> NULL]]
    /\ stats = [s \in Specs |-> NULL]
    /\ events = [s \in Specs |-> NoCounts]
    /\ hidden = {} /\ gone = {}
    /\ clock = 0
    /\ req = [r \in Requests |-> Idle]
    /\ walk = NoWalk

Tick ==
    /\ clock < MaxTime /\ clock' = clock + 1
    /\ UNCHANGED <<fav, world, req, walk>>

Finish(r) == req' = [req EXCEPT ![r] = Idle]
Fans(s) == {u \in Users : fav[u][s] # NULL}
Count(s, k) == IF stats[s] = NULL THEN 0 ELSE stats[s][k]
Left(s, k) == events[s][k] < (IF k = "favorite" THEN MaxAdds ELSE MaxTracks)

\* What ListUserFavorites can return to the reader.
Listed(f, away) ==
    {<<f[Reader][s], s>> : s \in {x \in Specs \ away : f[Reader][x] # NULL}}
\* The history: only rows still listed after the step stay in kept.
Observe(f, away) == walk' = [walk EXCEPT !.kept = @ \cap Listed(f, away)]

----------------------------------------------------------------------------
(* Counters.                                                               *)

\* INSERT ... ON CONFLICT DO UPDATE SET count = count + 1.
Add(s, k) == stats' = [stats EXCEPT ![s] =
    [j \in Kinds |-> IF j = k THEN Count(s, j) + 1 ELSE Count(s, j)]]

\* GREATEST(favorite_count - 1, 0), where there is a row.
TakeAway(s) == stats' =
    IF stats[s] = NULL THEN stats
    ELSE [stats EXCEPT ![s]["favorite"] = IF @ > 0 THEN @ - 1 ELSE 0]

Log(s, k) == events' = [events EXCEPT ![s][k] = @ + 1]

\* IncrementPlayCount, IncrementFreeDownloadCount.
Track(s, k) ==
    /\ s \notin gone /\ k # "favorite" /\ Left(s, k)
    /\ Add(s, k) /\ Log(s, k)
    /\ UNCHANGED <<fav, hidden, gone, clock, req, walk>>

\* GetSpecAnalytics: reading creates the row.
ReadStats(s) ==
    /\ s \notin gone /\ stats[s] = NULL
    /\ stats' = [stats EXCEPT ![s] = NoCounts]
    /\ UNCHANGED <<fav, events, hidden, gone, clock, req, walk>>

----------------------------------------------------------------------------
(* ToggleFavorite.                                                         *)

\* IsFavorited decides whether the row is inserted or deleted.
Toggle(r, u, s) ==
    /\ req[r] = Idle
    /\ req' = [req EXCEPT ![r] =
        [at |-> IF fav[u][s] = NULL THEN "add" ELSE "remove",
         user |-> u, spec |-> s, now |-> 0]]
    /\ UNCHANGED <<fav, world, clock, walk>>

\* BEGIN: NOW() stands still from here.
AddBegin(r) ==
    /\ req[r].at = "add"
    /\ req' = [req EXCEPT ![r].at = "insert", ![r].now = clock]
    /\ UNCHANGED <<fav, world, clock, walk>>

\* Mutant of Inserts: the conflict is not noticed.
InsertsAlways(r) == req[r].spec \notin gone /\ Left(req[r].spec, "favorite")

\* ON CONFLICT DO NOTHING, and a foreign key to the spec.
Inserts(r) ==
    /\ req[r].spec \notin gone /\ Left(req[r].spec, "favorite")
    /\ fav[req[r].user][req[r].spec] = NULL

\* AddFavorite: row, counter and event; an existing row changes nothing.
AddFavorite(r) ==
    /\ req[r].at = "insert"
    /\ IF Inserts(r)
       THEN /\ fav' = [fav EXCEPT ![req[r].user][req[r].spec] = req[r].now]
            /\ Add(req[r].spec, "favorite") /\ Log(req[r].spec, "favorite")
       ELSE UNCHANGED <<fav, stats, events>>
    /\ Finish(r)
    /\ UNCHANGED <<hidden, gone, clock, walk>>

\* Mutant of Deletes: the number of deleted rows is not looked at.
DeletesAlways(r) == req[r].spec \notin gone

\* The DELETE found the row.
Deletes(r) == fav[req[r].user][req[r].spec] # NULL

\* RemoveFavorite: row and counter, which stops at zero.
RemoveFavorite(r) ==
    /\ req[r].at = "remove"
    /\ IF Deletes(r)
       THEN /\ fav' = [fav EXCEPT ![req[r].user][req[r].spec] = NULL]
            /\ TakeAway(req[r].spec)
       ELSE UNCHANGED <<fav, stats>>
    /\ Finish(r) /\ Observe(fav', hidden \cup gone)
    /\ UNCHANGED <<events, hidden, gone, clock>>

\* A statement fails or the process dies: the transaction leaves nothing.
ToggleFails(r) ==
    /\ req[r] # Idle
    /\ Finish(r)
    /\ UNCHANGED <<fav, world, clock, walk>>

----------------------------------------------------------------------------
(* The specs.                                                              *)

\* Soft delete, or its undoing by an administrator.
Hide(s) ==
    /\ hidden' = IF s \in hidden THEN hidden \ {s} ELSE hidden \cup {s}
    /\ Observe(fav, hidden' \cup gone)
    /\ UNCHANGED <<fav, stats, events, gone, clock, req>>

\* DELETE FROM specs: everything that refers to the spec goes with it.
DeleteSpec(s) ==
    /\ s \notin gone
    /\ gone' = gone \cup {s}
    /\ fav' = [u \in Users |-> [fav[u] EXCEPT ![s] = NULL]]
    /\ stats' = [stats EXCEPT ![s] = NULL]
    /\ events' = [events EXCEPT ![s] = NoCounts]
    /\ Observe(fav', hidden \cup gone')
    /\ UNCHANGED <<hidden, clock, req>>

----------------------------------------------------------------------------
(* The listing.                                                            *)

\* (favorited_at, spec_id) in row order.
Less(a, b) == \/ a[1] < b[1]
              \/ a[1] = b[1] /\ a[2] < b[2]

\* Mutant of Beyond: the row of the cursor is included.
BeyondOrAt(k, c) == c = NULL \/ ~Less(c, k)

Beyond(k, c) == c = NULL \/ Less(k, c)

WalkBegin ==
    /\ ~walk.on
    /\ walk' = [NoWalk EXCEPT !.on = TRUE, !.kept = Listed(fav, hidden \cup gone)]
    /\ UNCHANGED <<fav, world, clock, req>>

\* ListUserFavorites: limit + 1 rows beyond the cursor tell whether there are
\* more; the last of the page becomes the next cursor.
NextPage ==
    /\ walk.on
    /\ LET rows == {k \in Listed(fav, hidden \cup gone) : Beyond(k, walk.cursor)}
           page == {k \in rows : Cardinality({j \in rows : Less(k, j)}) < PageSize}
           more == page # rows
           got == walk.got \cup page
       IN  walk' = [walk EXCEPT
                !.on = more, !.got = got,
                !.twice = @ \/ page \cap walk.got # {},
                !.cursor = IF more THEN CHOOSE k \in page :
                                \A j \in page : j = k \/ Less(k, j) ELSE NULL,
                !.missed = IF more THEN {} ELSE walk.kept \ got]
    /\ UNCHANGED <<fav, world, clock, req>>

Next ==
    \/ Tick \/ WalkBegin \/ NextPage
    \/ \E r \in Requests : \/ \E u \in Users, s \in Specs : Toggle(r, u, s)
                           \/ AddBegin(r) \/ AddFavorite(r)
                           \/ RemoveFavorite(r) \/ ToggleFails(r)
    \/ \E s \in Specs : \/ \E k \in Kinds : Track(s, k)
                        \/ ReadStats(s) \/ Hide(s) \/ DeleteSpec(s)

Spec == Init /\ [][Next]_vars

----------------------------------------------------------------------------

\* The favorite counter of a spec is the number of users who have it as a
\* favorite, however their toggles overlap (two that add, two that remove),
\* and plays and downloads are the number of their events.
CountersMatch ==
    \A s \in Specs :
        /\ Count(s, "favorite") = Cardinality(Fans(s))
        /\ Count(s, "play") = events[s]["play"]
        /\ Count(s, "download") = events[s]["download"]

\* The counters next to the rows they count.
FavoritesInv == TypeOK /\ CountersMatch

\* The same row is never returned on two pages of one walk.
NoRowTwice == ~walk.twice

\* "Pages are stable even when concurrent favorites are added": a row that
\* was listed from the beginning to the end of a walk has been returned.
KeptRowsReturned == walk.missed = {}

\* A walk through the pages returns each of its rows once.
WalkIsExact == NoRowTwice /\ KeptRowsReturned
=============================================================================

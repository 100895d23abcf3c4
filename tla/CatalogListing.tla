--------------------------- MODULE CatalogListing ---------------------------
(***************************************************************************)
(* The public listings, GET /specs and GET /users/{id}/specs, walked page  *)
(* by page by a client that follows total_pages while specs are published, *)
(* repriced and removed. The handler and the service both normalise the    *)
(* page size. Every filter of the query is like the price bounds here;     *)
(* the genres, licenses and counters added to each row, and errors, after  *)
(* which the client asks again, are left out.                              *)
(***************************************************************************)
EXTENDS Naturals, Sequences, SequencesExt

CONSTANTS
    Specs,         \* natural numbers: a spec's number is its created_at
    Producers,
    MaxPrice,      \* bound: prices are 0..MaxPrice
    DefaultLimit,  \* 20
    MaxSpecLimit,  \* maxSpecLimit: 50
    Asked,         \* values of the limit parameter; 0 is absent or invalid
    Sorts,         \* values of the sort parameter
    MaxChanges,    \* bound: changes of the catalogue
    NULL

ListingAssumption ==
    /\ Specs \subseteq Nat /\ Asked \subseteq Nat /\ MaxPrice \in Nat
    /\ DefaultLimit \in Nat \ {0} /\ MaxSpecLimit \in Nat \ {0}
    /\ MaxChanges \in Nat
    /\ NULL \notin Producers

VARIABLES
    spec,     \* the rows: published (completed and not deleted), base_price
    owner,    \* producer_id
    changes,
    walk      \* what the client asked for and what it was shown

vars == <<spec, owner, changes, walk>>

\* The parameters of GET /specs; GET /users/{id}/specs has the limit only.
Query ==
    [producer : {NULL}, sort : Sorts, low : 0..MaxPrice, high : 0..MaxPrice,
     limit : Asked]
    \cup [producer : Producers, sort : {"newest"}, low : {0}, high : {0},
          limit : Asked]

Walk == [query : Query \cup {NULL}, page : Nat, pages : Nat \ {0},
         total : Nat, matching : Nat,
         start : SUBSET Specs, shown : Seq(Specs),
         added : BOOLEAN, removed : BOOLEAN, tied : BOOLEAN]

\* The shape of the rows and of a walk; there is always at least one page.
TypeOK ==
    /\ spec \in [Specs -> [live : BOOLEAN, price : 0..MaxPrice]]
    /\ owner \in [Specs -> Producers]
    /\ changes \in 0..MaxChanges
    /\ walk \in Walk

NoWalk == [query |-> NULL, page |-> 1, pages |-> 1, total |-> 0, matching |-> 0,
           start |-> {}, shown |-> <<>>,
           added |-> FALSE, removed |-> FALSE, tied |-> FALSE]

Init ==
    /\ spec \in [Specs -> [live : BOOLEAN, price : 0..MaxPrice]]
    /\ owner \in [Specs -> Producers]
    /\ changes = 0 /\ walk = NoWalk

----------------------------------------------------------------------------
(* The query.                                                              *)

\* min_price is always a condition, max_price only when it is positive. The
\* listing of a producer has no other filter.
Matches(q, s) ==
    /\ spec[s].live
    /\ q.producer \in {NULL, owner[s]}
    /\ spec[s].price >= q.low /\ (q.high > 0 => spec[s].price =< q.high)

Matching(q) == {s \in Specs : Matches(q, s)}

\* An unknown sort, and the listing of a producer, is by newest.
Before(q, s, t) ==
    CASE q.sort = "price_asc" -> spec[s].price < spec[t].price
      [] q.sort = "price_desc" -> spec[s].price > spec[t].price
      [] q.sort = "oldest" -> s < t
      [] OTHER -> s > t

Tied(q) == \E s, t \in Matching(q) : s # t /\ ~Before(q, s, t) /\ ~Before(q, t, s)

\* The database orders tied rows as it likes, and every time anew.
Orderings(q) == {o \in SetToSeqs(Matching(q)) :
    \A i, j \in DOMAIN o : i < j => ~Before(q, o[j], o[i])}

----------------------------------------------------------------------------
(* Page sizes.                                                             *)

\* The handlers' limit, which is also what the metadata are made from.
HandlerLimit(asked) == IF asked = 0 THEN DefaultLimit ELSE asked

\* normalizePageAndLimit.
ServiceLimit(asked) ==
    IF HandlerLimit(asked) > MaxSpecLimit THEN MaxSpecLimit ELSE HandlerLimit(asked)

Rows(asked) == ServiceLimit(asked)

\* Mutant of Offset: pages counted from zero.
OffsetFromZero(page, asked) == page * ServiceLimit(asked)

Offset(page, asked) == (page - 1) * ServiceLimit(asked)

PageOf(order, page, asked) ==
    LET last == Offset(page, asked) + Rows(asked)
    IN  SubSeq(order, Offset(page, asked) + 1,
               IF last < Len(order) THEN last ELSE Len(order))

\* COUNT(*) OVER() is read from the first row of the page.
Total(order, rows) == IF rows = <<>> THEN 0 ELSE Len(order)

TotalPages(total, asked) ==
    IF total = 0 THEN 1
    ELSE (total + HandlerLimit(asked) - 1) \div HandlerLimit(asked)

----------------------------------------------------------------------------
(* The client.                                                             *)

Start(q) ==
    /\ walk.query = NULL
    /\ walk' = [NoWalk EXCEPT !.query = q, !.start = Matching(q)]
    /\ UNCHANGED <<spec, owner, changes>>

Walking == walk.query # NULL /\ walk.page =< walk.pages

\* List and GetUserSpecs.
List ==
    /\ Walking
    /\ LET q == walk.query IN \E order \in Orderings(q) :
        LET rows == PageOf(order, walk.page, q.limit)
            total == Total(order, rows)
        IN  walk' = [walk EXCEPT !.page = @ + 1, !.shown = @ \o rows,
                                 !.total = total, !.matching = Len(order),
                                 !.pages = TotalPages(total, q.limit),
                                 !.tied = @ \/ Tied(q)]
    /\ UNCHANGED <<spec, owner, changes>>

----------------------------------------------------------------------------
(* The catalogue changes.                                                  *)

\* The worker publishes, or the producer deletes or rejects, a spec, or its
\* price is edited; a spec may be published long after it was created. What
\* happens outside the walk is in Init.
Change(s, live, price) ==
    /\ Walking /\ changes < MaxChanges /\ changes' = changes + 1
    /\ spec[s] # [live |-> live, price |-> price]
    /\ spec' = [spec EXCEPT ![s] = [live |-> live, price |-> price]]
    /\ walk' = [walk EXCEPT
         !.added = @ \/ live,
         !.removed = @ \/ spec[s].live]
    /\ UNCHANGED owner

Next ==
    \/ \E q \in Query : Start(q)
    \/ List
    \/ \E s \in Specs, live \in BOOLEAN, price \in 0..MaxPrice : Change(s, live, price)

Spec == Init /\ [][Next]_vars

----------------------------------------------------------------------------

Finished == walk.query # NULL /\ walk.page > walk.pages
Shown == {walk.shown[i] : i \in DOMAIN walk.shown}

\* Whoever follows total_pages to the end is shown every spec that matched at
\* the start, also when specs are published meanwhile, as long as none was
\* removed or repriced and the sort key has no ties.
NothingMissed ==
    Finished /\ ~walk.removed /\ ~walk.tied => walk.start \subseteq Shown

\* ... and is shown none of them twice, also when specs are removed
\* meanwhile, as long as none was published or repriced and there are no ties.
NothingTwice ==
    ~walk.added /\ ~walk.tied =>
        \A i, j \in DOMAIN walk.shown : walk.shown[i] = walk.shown[j] => i = j

\* A client that follows the pages sees the listing.
ListingInv == TypeOK /\ NothingMissed /\ NothingTwice

\* The total of an answer is "the count across all pages".
\* The code does not keep this: see "Divergences" in the README.
TotalIsCount == walk.total = walk.matching
=============================================================================

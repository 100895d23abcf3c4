-------------------------------- MODULE Shop --------------------------------
(***************************************************************************)
(* What a buyer meets, side by side: payments, and as instances beside     *)
(* them the public listing, the favorites and the notification hub. They   *)
(* share no state here.                                                    *)
(***************************************************************************)
EXTENDS Payments, FiniteSets

CONSTANTS
    \* CatalogListing and Favorites:
    Specs,
    \* CatalogListing:
    Producers, MaxPrice, DefaultLimit, MaxSpecLimit, Asked, Sorts, MaxChanges,
    \* Favorites:
    Listeners, Reader, Toggles, PageSize, MaxTime, MaxTracks, MaxAdds,
    \* NotificationHub:
    Users, Conns, MaxNotes, Limit, Embedded, MayStop, MaxLosses

VARIABLES
    \* CatalogListing:
    spec, owner, changes, page,
    \* Favorites:
    fav, stats, events, hidden, gone, clock, toggles, walk,
    \* NotificationHub:
    row, stage, clients, stop, running, who, reader, writer, socket, send,
    hand, closed, panicked, got, pushed, since, lost

Listing == INSTANCE CatalogListing WITH walk <- page

Favs == INSTANCE Favorites WITH
    Users <- Listeners, Requests <- Toggles, req <- toggles

Hub == INSTANCE NotificationHub WITH MaxFaults <- MaxLosses, faults <- lost

ASSUME ShopAssumption ==
    /\ Listing!ListingAssumption
    /\ Favs!FavoritesAssumption
    /\ Hub!HubAssumption
    /\ IsFiniteSet(Specs)

----------------------------------------------------------------------------

\* A client that follows the pages sees the listing.
ListingInv == Listing!ListingInv

\* The counters equal the rows they count.
FavoritesInv == Favs!FavoritesInv

\* A walk through the pages of the favorites returns each row once.
WalkIsExact == Favs!WalkIsExact

\* No channel is used after it was closed, and what is pushed is stored.
HubInv == Hub!HubInv

\* A connection gets its user's notifications in order and without a gap.
StreamHasNoGap == Hub!StreamHasNoGap
=============================================================================

------------------------------- MODULE MCShop -------------------------------
(***************************************************************************)
(* What a buyer meets, for TLC: one run checks the components of Shop side *)
(* by side. Each starts in its own initial state, and the run chooses at   *)
(* the start which of them moves.                                          *)
(***************************************************************************)
EXTENDS Shop, TLC

VARIABLE part   \* which of the components moves

listingVars == <<spec, owner, changes, page>>
favVars == <<fav, stats, events, hidden, gone, clock, toggles, walk>>
hubVars == <<row, stage, clients, stop, running, who, reader, writer, socket,
             send, hand, closed, panicked, got, pushed, since, lost>>
allVars == <<part, vars, listingVars, favVars, hubVars>>

MCInit ==
    /\ part \in {"payments", "listing", "counters", "pages", "hub"}
    /\ Init
    /\ Listing!Init
    /\ (part # "listing" => \A s \in Specs :
            ~spec[s].live /\ spec[s].price = 0 /\ owner[s] = CHOOSE p \in Producers : TRUE)
    /\ Favs!Init
    /\ Hub!Init

\* Favorites in two parts: everybody toggles, plays, downloads and reads one
\* spec, or the reader, one toggle at a time, adds each of the specs once.
OneSpec ==
    \A s \in Specs \ {1} :
        /\ stats'[s] = NULL /\ s \notin hidden' \cup gone'
        /\ \A r \in Toggles : toggles'[r].spec # s

OneReader ==
    /\ \A r, q \in Toggles : r # q => toggles'[r].user = NULL \/ toggles'[q].user = NULL
    /\ \A r \in Toggles : toggles'[r].user \in {NULL, Reader}
    /\ \A s \in Specs : /\ events'[s]["favorite"] <= 1
                        /\ events'[s]["play"] + events'[s]["download"] = 0
                        /\ stats'[s] = NULL \/ events'[s]["favorite"] = 1

MCNext ==
    /\ UNCHANGED part
    /\ \/ part = "payments" /\ Next
          /\ UNCHANGED <<listingVars, favVars, hubVars>>
       \/ part = "listing" /\ Listing!Next
          /\ UNCHANGED <<vars, favVars, hubVars>>
       \/ part = "counters" /\ Favs!Next /\ OneSpec
          /\ UNCHANGED <<vars, listingVars, hubVars>>
       \/ part = "pages" /\ Favs!Next /\ OneReader
          /\ UNCHANGED <<vars, listingVars, hubVars>>
       \/ part = "hub" /\ Hub!Next
          /\ UNCHANGED <<vars, listingVars, favVars>>

MCSpec == MCInit /\ [][MCNext]_allVars

Interchangeable ==
    Permutations(Orders) \cup Permutations(Requests)
=============================================================================

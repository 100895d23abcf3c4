-------------------------- MODULE UploadLifecycle --------------------------
(***************************************************************************)
(* What the direct-upload pipeline promises a producer and a listener,     *)
(* without workers, leases, transactions or buckets: an accepted upload is *)
(* a fixed bundle of contents; it is settled once, and if it goes live the *)
(* spec shows that bundle, decodable, from then on.                        *)
(***************************************************************************)
EXTENDS Naturals

CONSTANTS Uploads, Kinds, Acceptable, Playable, NULL

VARIABLES
    phase,     \* where the upload is
    accepted,  \* the contents Complete accepted, by kind
    shown      \* the contents a listener gets, by kind

lifecycleVars == <<phase, accepted, shown>>

Phase == {"draft", "accepted", "live", "rejected", "lapsed"}
Nothing == [k \in Kinds |-> NULL]

Init ==
    /\ phase \in [Uploads -> {"draft", "accepted"}]
    /\ accepted \in [Uploads -> [Kinds -> Acceptable] \cup {Nothing}]
    /\ \A u \in Uploads : accepted[u] = Nothing <=> phase[u] = "draft"
    /\ shown = [u \in Uploads |-> Nothing]

Accept(u) ==
    /\ phase[u] = "draft"
    /\ phase' = [phase EXCEPT ![u] = "accepted"]
    /\ \E contents \in [Kinds -> Acceptable] :
            accepted' = [accepted EXCEPT ![u] = contents]
    /\ UNCHANGED shown

Publish(u) ==
    /\ phase[u] = "accepted"
    /\ \A k \in Kinds : accepted[u][k] \in Playable
    /\ phase' = [phase EXCEPT ![u] = "live"]
    /\ shown' = [shown EXCEPT ![u] = accepted[u]]
    /\ UNCHANGED accepted

Reject(u) ==
    /\ phase[u] = "accepted"
    /\ phase' = [phase EXCEPT ![u] = "rejected"]
    /\ UNCHANGED <<accepted, shown>>

\* One sweep may expire several drafts.
Lapse(S) ==
    /\ \A u \in S : phase[u] = "draft"
    /\ phase' = [u \in Uploads |-> IF u \in S THEN "lapsed" ELSE phase[u]]
    /\ UNCHANGED <<accepted, shown>>

Next ==
    \/ \E u \in Uploads : Accept(u) \/ Publish(u) \/ Reject(u)
    \/ \E S \in SUBSET Uploads : Lapse(S)

Spec == Init /\ [][Next]_lifecycleVars

=============================================================================

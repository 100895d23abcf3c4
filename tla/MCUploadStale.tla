--------------------------- MODULE MCUploadStale ---------------------------
(* Two requests and two workers over one upload of two files, for TLC.     *)
EXTENDS UploadPipeline, TLC

CONSTANTS u1, r1, r2, w1, w2, good, corrupt, form

\* Where to look: the cover is always good, nothing expires, nobody crashes and
\* no attempt fails. One live lease may lapse.
Undisturbed ==
    /\ staged[u1][Image][1] # corrupt
    /\ ~overdue[u1]
    /\ \A w \in Workers : verdict[w] # "failed" /\ pc[w] # "dead"

MCStaleSymmetry == Permutations(Requests) \cup Permutations(Workers)
=============================================================================

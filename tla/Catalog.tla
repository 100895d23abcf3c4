------------------------------ MODULE Catalog ------------------------------
(***************************************************************************)
(* One published spec: its row, its objects in the bucket and the cached   *)
(* responses of GET /specs/{id} (catalog/interfaces/http/handler.go with   *)
(* the statements of spec_repo.go). A request is a slot; one action per    *)
(* statement, bucket call or Redis call. The response is cached by a       *)
(* goroutine that outlives the request: its slot stays busy until then.    *)
(***************************************************************************)
EXTENDS Naturals, FiniteSets

CONSTANTS
    Requests,     \* slots: requests served at the same time
    Editors,      \* the slots that may carry an update (the producer's tabs)
    Covers,       \* bound: keys of cover images, each drawn once
    Currencies,   \* one cached response per display currency
    MaxVersion,   \* bound: updates written
    MaxFaults,    \* bound: failed statements or calls and deaths
    NULL

ASSUME CatalogAssumption ==
    /\ Editors \subseteq Requests
    /\ MaxVersion \in Nat /\ MaxFaults \in Nat
    /\ NULL \notin Covers \cup Nat

VARIABLES
    row,       \* the specs row
    ordered,   \* an orders row refers to the spec
    licensed,  \* a licenses row refers to the spec
    cover,     \* the cover objects: drawn or not, in the bucket or deleted
    audio,     \* preview, WAV and stems are in the bucket
    cache,     \* the version a cached response shows, by currency
    req,       \* what each slot is doing
    blocked,   \* history: a delete failed although nobody had bought the spec
    faults

objects == <<cover, audio>>
sales == <<ordered, licensed>>
vars == <<row, sales, objects, cache, req, blocked, faults>>

Statuses == {"processing", "completed", "failed"}
Row == [present : BOOLEAN, deleted : BOOLEAN, status : Statuses,
        cover : Covers \cup {NULL}, version : Nat]

Updating == {"upload", "check", "write", "discard", "delete old", "invalidate"}
Deleting == {"recheck", "count", "soft delete", "hard delete", "files"}
Reading == {"cache", "fill"}
Stages == {"idle"} \cup Updating \cup Deleting \cup Reading
Request == [at : Stages, old : Covers \cup {NULL}, new : Covers \cup {NULL},
            version : Nat, status : Statuses,
            currency : Currencies \cup {NULL}]
Idle == [at |-> "idle", old |-> NULL, new |-> NULL, version |-> 0,
         status |-> "processing", currency |-> NULL]

\* The shape of the row, of the cache and of the request slots.
TypeOK ==
    /\ row \in Row
    /\ ordered \in BOOLEAN /\ licensed \in BOOLEAN
    /\ cover \in [Covers -> {"unused", "stored", "deleted"}]
    /\ audio \in BOOLEAN
    /\ cache \in [Currencies -> Nat \cup {NULL}]
    /\ req \in [Requests -> Request]
    /\ blocked \in BOOLEAN
    /\ faults \in 0..MaxFaults

Init ==
    /\ row = [present |-> TRUE, deleted |-> FALSE, status |-> "processing",
              cover |-> NULL, version |-> 0]
    /\ ordered = FALSE /\ licensed = FALSE
    /\ cover = [k \in Covers |-> "unused"]
    /\ audio = FALSE
    /\ cache = [c \in Currencies |-> NULL]
    /\ req = [r \in Requests |-> Idle]
    /\ blocked = FALSE
    /\ faults = 0

Fault == faults < MaxFaults /\ faults' = faults + 1
\* A call succeeds, or fails and costs a fault.
MayFail(ok) == IF ok THEN UNCHANGED faults ELSE Fault

Visible == row.present /\ ~row.deleted
Settled == Visible /\ row.status # "processing"

Finish(r) == req' = [req EXCEPT ![r] = Idle]
GoTo(r, stage) == req' = [req EXCEPT ![r].at = stage]
Start(r, job) == req[r] = Idle /\ req' = [req EXCEPT ![r] = job]

Store(k) == cover' = [cover EXCEPT ![k] = "stored"]
Remove(k) == cover' = [i \in Covers |-> IF i = k THEN "deleted" ELSE cover[i]]

----------------------------------------------------------------------------
(* Processing settles the spec: see UploadWorker.                          *)

Publish ==
    /\ row.status = "processing"
    /\ \E k \in Covers : cover[k] = "unused" /\ Store(k)
        /\ row' = [row EXCEPT !.status = "completed", !.cover = k]
    /\ audio' = TRUE
    /\ UNCHANGED <<sales, cache, req, blocked, faults>>

FailProcessing ==
    /\ row.status = "processing"
    /\ row' = [row EXCEPT !.status = "failed"]
    /\ UNCHANGED <<sales, objects, cache, req, blocked, faults>>

----------------------------------------------------------------------------
(* Buying: the rows that refer to the spec.                                *)

\* The INSERT of CreateOrder, after a SELECT that found the spec visible and
\* completed. Whatever happened in between, its foreign key asks for the row
\* only, and a completed spec stays completed.
PlaceOrder ==
    /\ row.present /\ row.status = "completed"
    /\ ordered' = TRUE
    /\ UNCHANGED <<row, licensed, objects, cache, req, blocked, faults>>

\* issueLicense: for an order only; a deleted spec can still be licensed.
IssueLicense ==
    /\ ordered
    /\ licensed' = TRUE
    /\ UNCHANGED <<row, ordered, objects, cache, req, blocked, faults>>

----------------------------------------------------------------------------
(* Update.                                                                 *)

UpdatesLeft == row.version
    + Cardinality({r \in Requests : req[r].at \in {"upload", "check", "write"}})
        < MaxVersion

\* GetSpec and the decoded form, with an image in it or not.
UpdateLoad(r) ==
    /\ r \in Editors /\ UpdatesLeft
    /\ Settled
    /\ \E stage \in {"upload", "check"} :
        Start(r, [Idle EXCEPT !.at = stage, !.old = row.cover])
    /\ UNCHANGED <<row, sales, objects, cache, blocked, faults>>

\* UploadWithKey under a new key; if it fails the handler stops.
UpdateUpload(r) ==
    /\ req[r].at = "upload"
    /\ \/ \E k \in Covers :
            /\ cover[k] = "unused" /\ Store(k)
            /\ req' = [req EXCEPT ![r].at = "check", ![r].new = k]
            /\ UNCHANGED faults
       \/ Fault /\ Finish(r) /\ UNCHANGED cover
    /\ UNCHANGED <<row, sales, audio, cache, blocked>>

\* UpdateSpec of the service reads the row again.
UpdateCheck(r) ==
    /\ req[r].at = "check"
    /\ \/ Settled /\ GoTo(r, "write") /\ UNCHANGED faults
       \/ ~Settled /\ GoTo(r, "discard") /\ UNCHANGED faults
       \/ Fault /\ GoTo(r, "discard")
    /\ UNCHANGED <<row, sales, objects, cache, blocked>>

\* Mutant of Written: the image of the form is stored but not written.
WrittenTextOnly(r) == [row EXCEPT !.version = @ + 1, !.cover = req[r].old]

\* The whole row is written from what the handler loaded at its start.
Written(r) ==
    [row EXCEPT !.version = @ + 1,
                !.cover = IF req[r].new # NULL THEN req[r].new ELSE req[r].old]

\* The transaction commits, finds no row, fails, or commits and reports an
\* error. It does not look at is_deleted.
UpdateWrite(r) ==
    /\ req[r].at = "write"
    /\ \/ /\ row.present /\ row' = Written(r) /\ UNCHANGED faults
          /\ GoTo(r, IF req[r].new # NULL THEN "delete old" ELSE "invalidate")
       \/ ~row.present /\ GoTo(r, "discard") /\ UNCHANGED <<row, faults>>
       \/ /\ Fault /\ GoTo(r, "discard")
          /\ row' \in {row} \cup (IF row.present THEN {Written(r)} ELSE {})
    /\ UNCHANGED <<sales, objects, cache, blocked>>

\* After an error the new image is deleted again; the cache is left alone.
UpdateDiscard(r) ==
    /\ req[r].at = "discard"
    /\ \E ok \in BOOLEAN :
        MayFail(ok) /\ (IF ok THEN Remove(req[r].new) ELSE UNCHANGED cover)
    /\ Finish(r)
    /\ UNCHANGED <<row, sales, audio, cache, blocked>>

\* The image loaded at the start is deleted, whatever the row holds now.
UpdateDeleteOld(r) ==
    /\ req[r].at = "delete old"
    /\ \E ok \in BOOLEAN :
        MayFail(ok) /\ (IF ok THEN Remove(req[r].old) ELSE UNCHANGED cover)
    /\ GoTo(r, "invalidate")
    /\ UNCHANGED <<row, sales, audio, cache, blocked>>

Dropped(kept) == [c \in Currencies |-> IF c \in kept THEN cache[c] ELSE NULL]

\* cacheDelSpec at the end of Update and of Delete; a failed DEL is logged.
Invalidate(r) ==
    /\ req[r].at = "invalidate"
    /\ \E kept \in SUBSET Currencies :
        MayFail(kept = {}) /\ cache' = Dropped(kept)
    /\ Finish(r)
    /\ UNCHANGED <<row, sales, objects, blocked>>

----------------------------------------------------------------------------
(* Delete.                                                                 *)

DeleteLoad(r) ==
    /\ Settled
    /\ Start(r, [Idle EXCEPT !.at = "recheck", !.old = row.cover])
    /\ UNCHANGED <<row, sales, objects, cache, blocked, faults>>

DeleteRecheck(r) ==
    /\ req[r].at = "recheck"
    /\ IF Settled THEN GoTo(r, "count") ELSE Finish(r)
    /\ UNCHANGED <<row, sales, objects, cache, blocked, faults>>

\* SELECT COUNT(*) FROM licenses.
DeleteCount(r) ==
    /\ req[r].at = "count"
    /\ GoTo(r, IF licensed THEN "soft delete" ELSE "hard delete")
    /\ UNCHANGED <<row, sales, objects, cache, blocked, faults>>

SoftDelete(r) ==
    /\ req[r].at = "soft delete"
    /\ row' = [row EXCEPT !.deleted = row.present]
    /\ IF row.present THEN GoTo(r, "invalidate") ELSE Finish(r)
    /\ UNCHANGED <<sales, objects, cache, blocked, faults>>

\* Mutant of Referenced: orders no longer hold the spec back.
ReferencedByLicense == licensed

\* The foreign keys of orders and licenses are ON DELETE RESTRICT.
Referenced == ordered \/ licensed

\* DELETE FROM specs: done, refused by a foreign key, nothing to delete, or
\* done with an error reported; only the first goes on to the files.
HardDelete(r) ==
    /\ req[r].at = "hard delete"
    /\ \/ /\ row.present /\ ~Referenced
          /\ row' = [row EXCEPT !.present = FALSE]
          /\ \/ GoTo(r, "files") /\ UNCHANGED faults
             \/ Finish(r) /\ Fault
          /\ UNCHANGED blocked
       \/ /\ row.present /\ Referenced /\ Finish(r)
          /\ blocked' = (blocked \/ ~licensed)
          /\ UNCHANGED <<row, faults>>
       \/ ~row.present /\ Finish(r) /\ UNCHANGED <<row, blocked, faults>>
    /\ UNCHANGED <<sales, objects, cache>>

\* Deletes of the loaded URLs; errors are ignored.
DeleteFiles(r) ==
    /\ req[r].at = "files"
    /\ \E ok \in BOOLEAN : MayFail(ok)
        /\ IF ok THEN Remove(req[r].old) /\ audio' = FALSE
                 ELSE UNCHANGED objects
    /\ GoTo(r, "invalidate")
    /\ UNCHANGED <<row, sales, cache, blocked>>

----------------------------------------------------------------------------
(* Get.                                                                    *)

GetRead(r) ==
    /\ Visible
    /\ \E c \in Currencies :
        Start(r, [Idle EXCEPT !.at = "cache", !.currency = c,
                              !.version = row.version, !.status = row.status])
    /\ UNCHANGED <<row, sales, objects, cache, blocked, faults>>

\* A hit answers; a miss answers from the row and, for a completed spec,
\* leaves a goroutine behind. A failed GET on Redis is a miss.
GetCache(r) ==
    /\ req[r].at = "cache"
    /\ \E ok \in BOOLEAN :
        /\ MayFail(ok)
        /\ LET hit == ok /\ cache[req[r].currency] # NULL IN
           IF ~hit /\ req[r].status = "completed" THEN GoTo(r, "fill")
                                                  ELSE Finish(r)
    /\ UNCHANGED <<row, sales, objects, cache, blocked>>

\* The goroutine stores the response built from the row as it was read.
GetFill(r) ==
    /\ req[r].at = "fill"
    /\ \E ok \in BOOLEAN : MayFail(ok)
        /\ cache' = IF ok THEN [cache EXCEPT ![req[r].currency] = req[r].version]
                    ELSE cache
    /\ Finish(r)
    /\ UNCHANGED <<row, sales, objects, blocked>>

\* Mutant of Expires: the entry is stored without an expiration.
NeverExpires(c) == FALSE

\* The expiration of ten minutes.
Expires(c) == cache[c] # NULL

CacheExpires(c) ==
    /\ Expires(c)
    /\ cache' = [cache EXCEPT ![c] = NULL]
    /\ UNCHANGED <<row, sales, objects, req, blocked, faults>>

----------------------------------------------------------------------------

\* The process ends with the request, wherever it is.
RequestDies(r) ==
    /\ req[r].at # "idle" /\ Fault
    /\ Finish(r)
    /\ UNCHANGED <<row, sales, objects, cache, blocked>>

Update(r) == UpdateLoad(r) \/ UpdateUpload(r) \/ UpdateCheck(r)
    \/ UpdateWrite(r) \/ UpdateDiscard(r) \/ UpdateDeleteOld(r)
Delete(r) == DeleteLoad(r) \/ DeleteRecheck(r) \/ DeleteCount(r)
    \/ SoftDelete(r) \/ HardDelete(r) \/ DeleteFiles(r)
Get(r) == GetRead(r) \/ GetCache(r) \/ GetFill(r)

Next ==
    \/ Publish \/ FailProcessing \/ PlaceOrder \/ IssueLicense
    \/ \E r \in Requests : Update(r) \/ Delete(r) \/ Get(r) \/ Invalidate(r)
                             \/ RequestDies(r)
    \/ \E c \in Currencies : CacheExpires(c)

Spec == Init /\ [][Next]_vars

\* A running request goes on, and Redis expires what is old.
GoesOn(r) == UpdateUpload(r) \/ UpdateCheck(r) \/ UpdateWrite(r)
    \/ UpdateDiscard(r) \/ UpdateDeleteOld(r) \/ Invalidate(r)
    \/ DeleteRecheck(r) \/ DeleteCount(r) \/ SoftDelete(r) \/ HardDelete(r)
    \/ DeleteFiles(r) \/ GetCache(r) \/ GetFill(r)
Fairness ==
    /\ \A r \in Requests : WF_vars(GoesOn(r))
    /\ \A c \in Currencies : WF_vars(CacheExpires(c))

FairSpec == Spec /\ Fairness

----------------------------------------------------------------------------

\* What a buyer paid for can be fetched: once an order or a license refers to
\* the spec, no interleaving of delete, order and license removes the row or
\* its audio (the count and the DELETE are separate statements; the files go
\* after both).
BuyersFilesStay == ordered \/ licensed => row.present /\ audio

\* The row and the files behind it.
CatalogInv == TypeOK /\ BuyersFilesStay

\* The row never points to a cover that was deleted ("Delete old image only
\* after successful database update").
CoverPresent ==
    row.present /\ row.cover # NULL => cover[row.cover] = "stored"

\* A delete fails only if somebody bought the spec: "hard delete if no
\* licenses exist".
\* The code does not keep this: see "Divergences" in the README.
DeletesWhatNobodyBought == ~blocked

\* A response stored after an update invalidated the entry dies out: in the
\* end a cached response shows the row as it is.
CacheCatchesUp ==
    <>[](row.present =>
            \A c \in Currencies : cache[c] \in {NULL, row.version})
=============================================================================

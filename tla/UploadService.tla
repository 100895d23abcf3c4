--------------------------- MODULE UploadService ---------------------------
(***************************************************************************)
(* The API side of a direct upload: the handlers of upload_service.go.     *)
(* Each request runs in one of a few slots; between two of its database or *)
(* bucket calls any other request, client PUT or worker may run, and the   *)
(* process may die.                                                        *)
(***************************************************************************)
EXTENDS UploadStore, UploadContract

Stages == {"idle", "replace", "respond", "verify", "apply", "load", "stat",
           "finalize", "commit", "reload", "accepted"}

NoRows == [k \in Kinds |-> NoAsset]
Idle == [at |-> "idle", upload |-> NULL, kind |-> 1, attempt |-> 0,
         previous |-> 0, etag |-> NULL, rows |-> NoRows, form |-> NULL]

Request == [at : Stages, upload : Uploads \cup {NULL}, kind : Kinds,
            attempt : 0..MaxAttempts, previous : 0..MaxAttempts,
            etag : Contents \cup {NULL}, rows : [Kinds -> AssetRow],
            form : Metadata \cup {NULL}]

ServiceTypeOK == req \in [Requests -> Request]

ServiceStart == req = [r \in Requests |-> Idle]

Finish(r) == req' = [req EXCEPT ![r] = Idle]

----------------------------------------------------------------------------
(* Initiate and SaveMetadata are one guarded write each; what they read     *)
(* before it is checked again by the write, which waits for the row lock.  *)

Initiate(u) ==
    CreateSession(u) /\ UNCHANGED req

SaveMetadata(u, m) ==
    /\ ~Locked(u)
    /\ UpdateSessionMetadata(u, m)
    /\ UNCHANGED <<bucketVars, req>>

----------------------------------------------------------------------------
(* PrepareFile.                                                            *)

\* ReplaceAsset has the session's row and finds it open. What the handler
\* checked before is checked again here.
PrepareFile(r, u, k) ==
    /\ req[r].at = "idle"
    /\ assets[u][k].attempt < MaxAttempts
    /\ ~Locked(u)
    /\ Open(u)
    /\ req' = [req EXCEPT ![r] = [Idle EXCEPT !.at = "replace",
                                             !.upload = u, !.kind = k]]
    /\ UNCHANGED storeVars

\* The replaced asset's object is deleted after the transaction.
PrepareCommit(r) ==
    LET q == req[r]
        old == assets[q.upload][q.kind].attempt
    IN
    /\ q.at = "replace"
    /\ ReplaceAsset(q.upload, q.kind, old + 1)
    /\ req' = [req EXCEPT ![r].at = "respond", ![r].attempt = old + 1,
                          ![r].previous = old]
    /\ UNCHANGED bucketVars

\* Delete the previous object, then hand the presigned URL to the client.
RespondPrepared(r) ==
    LET q == req[r] IN
    /\ q.at = "respond"
    /\ IF q.previous = 0 THEN UNCHANGED staged
       ELSE \/ staged' = [staged EXCEPT ![q.upload][q.kind][q.previous] = NULL]
            \/ MayKeep /\ UNCHANGED staged
    /\ issued' = [issued EXCEPT ![q.upload][q.kind] = @ \cup {q.attempt}]
    /\ Finish(r)
    /\ UNCHANGED <<rowVars, final, cover>>

----------------------------------------------------------------------------
(* ConfirmFile.                                                            *)

\* verifyUploadedObject: size and content type are the declared ones.
Acceptance(u, k, n) == staged[u][k][n] \in Acceptable

\* The asset is in the session just read and its object passes HEAD. A session
\* that closes, or an asset that goes, between the two is caught by the
\* statement that follows: neither comes back.
ConfirmFile(r, u, k, n) ==
    /\ req[r].at = "idle"
    /\ Open(u)
    /\ Current(u, k, n)
    /\ Acceptance(u, k, n)
    /\ req' = [req EXCEPT ![r] = [Idle EXCEPT !.at = "verify", !.upload = u,
                    !.kind = k, !.attempt = n, !.etag = staged[u][k][n]]]
    /\ UNCHANGED storeVars

\* The statement of VerifyAsset starts: its snapshot has the session open and
\* the asset in place, or it matches nothing and the request fails.
VerifySnapshot(r) ==
    LET q == req[r] IN
    /\ q.at = "verify"
    /\ IF Open(q.upload) /\ Current(q.upload, q.kind, q.attempt)
       THEN req' = [req EXCEPT ![r].at = "apply"]
       ELSE Finish(r)
    /\ UNCHANGED storeVars

\* It reaches the asset row: updated in place, or gone in the meantime. The
\* statement touches the session's row too, so it waits for the lock; if it
\* got the asset's row before the other, PostgreSQL aborts one (RequestDies).
VerifyApply(r) ==
    LET q == req[r] IN
    /\ q.at = "apply"
    /\ IF Current(q.upload, q.kind, q.attempt)
       THEN ~Locked(q.upload)
            /\ VerifyAsset(q.upload, q.kind, q.attempt, q.etag)
       ELSE UNCHANGED rowVars
    /\ Finish(r)
    /\ UNCHANGED bucketVars

----------------------------------------------------------------------------
(* Complete.                                                               *)

\* A session already queued, processing or completed answers with its spec.
Settled(u) == session[u] \in {"queued", "processing", "completed"}

\* validateReadyAssets: every kind has a verified asset.
Ready(rows) == \A k \in Kinds : rows[k].attempt # 0 /\ rows[k].etag # NULL

\* GetSession: status and metadata come with the session's row and are used
\* until the end. One already past its deadline is refused below.
CompleteLoad(r, u) ==
    /\ req[r].at = "idle"
    /\ \/ /\ Settled(u)
          /\ req' = [req EXCEPT ![r] = [Idle EXCEPT !.at = "accepted",
                                                    !.upload = u]]
       \/ /\ Open(u)
          /\ req' = [req EXCEPT ![r] = [Idle EXCEPT !.at = "load",
                                       !.upload = u, !.form = metadata[u]]]
    /\ UNCHANGED storeVars

\* Its second SELECT, outside any transaction, reads the assets; then Complete
\* looks at the deadline and at what it has read.
CompleteAssets(r) ==
    LET q == req[r] IN
    /\ q.at = "load"
    /\ IF ~overdue[q.upload] /\ Ready(assets[q.upload])
       THEN req' = [req EXCEPT ![r].at = "stat", ![r].rows = assets[q.upload]]
       ELSE Finish(r)
    /\ UNCHANGED storeVars

\* Nothing is left to stat after this kind.
LastKind(k) == k >= NumKinds

\* Each object is stat'ed again and its current ETag replaces the row's.
CompleteStat(r) ==
    LET q == req[r] IN
    /\ q.at = "stat"
    /\ IF ~Acceptance(q.upload, q.kind, q.rows[q.kind].attempt)
       THEN Finish(r)
       ELSE req' = [req EXCEPT
                ![r].rows[q.kind].etag =
                    staged[q.upload][q.kind][q.rows[q.kind].attempt],
                ![r].kind = IF LastKind(q.kind) THEN q.kind ELSE q.kind + 1,
                ![r].at = IF LastKind(q.kind) THEN "finalize" ELSE "stat"]
    /\ UNCHANGED storeVars

\* FinalizeUpload has the session's row and finds it open.
CompleteLock(r) ==
    LET q == req[r] IN
    /\ q.at = "finalize"
    /\ q.form # NULL
    /\ ~Locked(q.upload)
    /\ Open(q.upload)
    /\ req' = [req EXCEPT ![r].at = "commit"]
    /\ UNCHANGED storeVars

\* It commits from the session loaded before the stats.
CompleteFinalize(r) ==
    LET q == req[r] IN
    /\ q.at = "commit"
    /\ FinalizeUpload(q.upload, q.rows, q.form)
    /\ req' = [req EXCEPT ![r].at = "accepted"]
    /\ UNCHANGED bucketVars

\* An asset of the snapshot is gone: rolled back with ErrUploadState.
CompleteRollback(r) ==
    LET q == req[r] IN
    /\ q.at = "commit"
    /\ ~SnapshotCurrent(q.upload, q.rows)
    /\ req' = [req EXCEPT ![r].at = "reload"]
    /\ UNCHANGED storeVars

\* ErrUploadState sends the request back to the session; no metadata and
\* ErrUploadExpired end it.
CompleteRefused(r) ==
    LET q == req[r] IN
    /\ q.at = "finalize"
    /\ \/ q.form = NULL /\ Finish(r)
       \/ /\ q.form # NULL
          /\ ~Locked(q.upload)
          /\ \/ /\ session[q.upload] = "uploading" /\ overdue[q.upload]
                /\ Finish(r)
             \/ /\ session[q.upload] # "uploading"
                /\ req' = [req EXCEPT ![r].at = "reload"]
    /\ UNCHANGED storeVars

\* Mutant of Concurrent: every ErrUploadState counts as a concurrent success.
AnyState(u) == TRUE

\* A concurrent Complete committed: treat this one as its retry.
Concurrent(u) == Settled(u)

CompleteReload(r) ==
    LET q == req[r] IN
    /\ q.at = "reload"
    /\ IF Concurrent(q.upload)
       THEN req' = [req EXCEPT ![r].at = "accepted"]
       ELSE Finish(r)
    /\ UNCHANGED storeVars

\* The spec goes back to the client.
RespondAccepted(r) ==
    /\ req[r].at = "accepted"
    /\ Finish(r)
    /\ UNCHANGED storeVars

----------------------------------------------------------------------------

\* The process dies, or the client hangs up and the context is canceled.
RequestDies(r) ==
    /\ req[r].at # "idle"
    /\ Finish(r)
    /\ UNCHANGED storeVars

\* A request moves on by itself.
Serve(r) ==
    \/ PrepareCommit(r) \/ RespondPrepared(r)
    \/ VerifySnapshot(r) \/ VerifyApply(r)
    \/ CompleteAssets(r) \/ CompleteStat(r) \/ CompleteLock(r)
    \/ CompleteFinalize(r) \/ CompleteRollback(r) \/ CompleteRefused(r)
    \/ CompleteReload(r) \/ RespondAccepted(r)

ServiceNext ==
    \/ \E u \in Uploads : Initiate(u) \/ (DeadlinePasses(u) /\ UNCHANGED req)
    \/ \E u \in Uploads, m \in Metadata : SaveMetadata(u, m)
    \/ \E r \in Requests : Serve(r) \/ RequestDies(r)
    \/ \E r \in Requests, u \in Uploads : CompleteLoad(r, u)
    \/ \E r \in Requests, u \in Uploads, k \in Kinds : PrepareFile(r, u, k)
    \/ \E r \in Requests, u \in Uploads, k \in Kinds, n \in Attempts :
            ConfirmFile(r, u, k, n)

=============================================================================

---------------------------- MODULE UploadStore ----------------------------
(***************************************************************************)
(* The transactions of upload_repo.go on the rows of an upload, and the    *)
(* calls to the bucket. UploadService (API requests) and UploadWorker      *)
(* (media workers) both extend this module; UploadPipeline composes them.  *)
(***************************************************************************)
EXTENDS UploadState

CONSTANTS
    Workers,      \* worker ids: one per run of StartUploadWorker, never reused
    NumKinds,     \* asset kinds, numbered in the ORDER BY kind of the queries
    MaxAttempts,  \* bound: presigned uploads per upload and kind
    Contents,     \* what a client may PUT; a content stands for its ETag
    DeletesReliable   \* whether a DELETE sent to the bucket always succeeds

Kinds == 1..NumKinds
Attempts == 1..MaxAttempts

ASSUME StoreAssumption ==
    /\ NumKinds \in Nat \ {0}
    /\ MaxAttempts \in Nat \ {0}
    /\ Acceptable \subseteq Contents
    /\ Playable \subseteq Contents
    /\ DeletesReliable \in BOOLEAN
    /\ NULL \notin Contents \cup Workers \cup Metadata \cup Uploads

SessionStatus ==
    {"none", "uploading", "queued", "processing", "completed", "failed",
     "expired"}
SpecStatus == {"none", "processing", "completed", "failed"}
JobStatus == {"none", "queued", "processing", "completed", "failed"}

\* attempt names the asset id (its key embeds it); etag is NULL until verified.
AssetRow == [attempt : 0..MaxAttempts, etag : Contents \cup {NULL}]
SpecRow == [status : SpecStatus, metadata : Metadata \cup {NULL}]
\* lease abstracts locked_at: "fresh", or "stale" once older than the lease.
JobRow == [status : JobStatus, worker : Workers \cup {NULL},
           lease : {"none", "fresh", "stale"}]

NoAsset == [attempt |-> 0, etag |-> NULL]
NoSpec == [status |-> "none", metadata |-> NULL]
NoJob == [status |-> "none", worker |-> NULL, lease |-> "none"]

Object == Contents \cup {NULL}

StoreTypeOK ==
    /\ session \in [Uploads -> SessionStatus]
    /\ overdue \in [Uploads -> BOOLEAN]
    /\ metadata \in [Uploads -> Metadata \cup {NULL}]
    /\ assets \in [Uploads -> [Kinds -> AssetRow]]
    /\ spec \in [Uploads -> SpecRow]
    /\ job \in [Uploads -> JobRow]
    /\ issued \in [Uploads -> [Kinds -> SUBSET Attempts]]
    /\ staged \in [Uploads -> [Kinds -> [Attempts -> Object]]]
    /\ final \in [Uploads -> [Kinds -> Object]]
    /\ cover \in [Uploads -> Object]

StoreInit ==
    /\ session = [u \in Uploads |-> "none"]
    /\ overdue = [u \in Uploads |-> FALSE]
    /\ metadata = [u \in Uploads |-> NULL]
    /\ assets = [u \in Uploads |-> [k \in Kinds |-> NoAsset]]
    /\ spec = [u \in Uploads |-> NoSpec]
    /\ job = [u \in Uploads |-> NoJob]
    /\ issued = [u \in Uploads |-> [k \in Kinds |-> {}]]
    /\ staged = [u \in Uploads |-> [k \in Kinds |-> [n \in Attempts |-> NULL]]]
    /\ final = [u \in Uploads |-> [k \in Kinds |-> NULL]]
    /\ cover = [u \in Uploads |-> NULL]

----------------------------------------------------------------------------
(* Session rows while the client uploads.                                  *)

\* Mutant of Open: the row lock is taken but expires_at is not re-checked.
OpenForever(u) == session[u] = "uploading"

\* The status and expiry check every repository write repeats. ReplaceAsset
\* and FinalizeUpload make it once they hold the session's row lock and commit
\* several statements later, when the deadline may have passed.
Open(u) == session[u] = "uploading" /\ ~overdue[u]

CreateSession(u) ==
    /\ session[u] = "none"
    /\ session' = [session EXCEPT ![u] = "uploading"]
    /\ UNCHANGED <<overdue, metadata, assets, spec, job, bucketVars>>

\* expires_at passes, whatever has become of the session.
DeadlinePasses(u) ==
    /\ session[u] # "none"
    /\ ~overdue[u]
    /\ overdue' = [overdue EXCEPT ![u] = TRUE]
    /\ UNCHANGED <<session, metadata, assets, spec, job, bucketVars>>

UpdateSessionMetadata(u, m) ==
    /\ Open(u)
    /\ metadata' = [metadata EXCEPT ![u] = m]
    /\ UNCHANGED <<session, overdue, assets, spec, job>>

\* One transaction deletes the kind's previous row and inserts the new one:
\* its commit, under the row lock.
ReplaceAsset(u, k, n) ==
    /\ n = assets[u][k].attempt + 1
    /\ assets' = [assets EXCEPT ![u][k] = [attempt |-> n, etag |-> NULL]]
    /\ UNCHANGED <<session, overdue, metadata, spec, job>>

\* Mutant of Current: an asset matched by its kind, not by its id.
CurrentKind(u, k, n) == assets[u][k].attempt # 0

\* The kind's row is still the one with this asset id.
Current(u, k, n) == assets[u][k].attempt = n

\* VerifyAsset is one statement, but under READ COMMITTED its test of the
\* session row sees the statement's snapshot: a row it had to wait for is
\* re-read, the joined session row is not. Callers therefore test Open when
\* the statement starts and apply the update, by asset id, in a later step.
VerifyAsset(u, k, n, etag) ==
    /\ Current(u, k, n)
    /\ assets' = [assets EXCEPT ![u][k].etag = etag]
    /\ UNCHANGED <<session, overdue, metadata, spec, job>>

\* Mutant of SnapshotCurrent: the affected-row count is not compared with 1.
AnySnapshot(u, rows) == TRUE

\* FinalizeUpload writes the caller's snapshot back by asset id; it fails when
\* a row it names is gone.
SnapshotCurrent(u, rows) == \A k \in Kinds : Current(u, k, rows[k].attempt)

\* One transaction under the session's row lock: assets, spec, job, session.
\* The last UPDATE asks for the status again, but not for the deadline.
FinalizeUpload(u, rows, form) ==
    /\ session[u] = "uploading"
    /\ SnapshotCurrent(u, rows)
    /\ assets' = [assets EXCEPT ![u] =
                    [k \in Kinds |->
                        IF Current(u, k, rows[k].attempt) THEN rows[k]
                        ELSE assets[u][k]]]
    /\ spec' = [spec EXCEPT ![u] = [status |-> "processing",
                                    metadata |-> form]]
    /\ job' = [job EXCEPT ![u] = [NoJob EXCEPT !.status = "queued"]]
    /\ session' = [session EXCEPT ![u] = "queued"]
    /\ UNCHANGED <<overdue, metadata>>

\* Mutant of Abandoned: the sweep does not look at the status.
PastDeadline == {u \in Uploads : overdue[u]}

\* The sessions one sweep of ExpireUploadSessions selects.
Abandoned == {u \in Uploads : session[u] = "uploading" /\ overdue[u]}

ExpireUploadSessions ==
    /\ session' = [u \in Uploads |->
                    IF u \in Abandoned THEN "expired" ELSE session[u]]
    /\ UNCHANGED <<overdue, metadata, assets, spec, job>>

----------------------------------------------------------------------------
(* Job rows: claim, lease and the fenced outcome.                          *)

ClaimNextJob(u, w) ==
    /\ job[u].status = "queued"
    /\ job' = [job EXCEPT ![u] = [status |-> "processing", worker |-> w,
                                  lease |-> "fresh"]]
    /\ session' = [session EXCEPT ![u] = "processing"]
    /\ UNCHANGED <<overdue, metadata, assets, spec>>

\* Mutant of HoldsLease: the fence forgets worker_id.
JobStillProcessing(u, w) == job[u].status = "processing"

\* The fence of HeartbeatJob, CompleteJob and FailJob.
HoldsLease(u, w) == job[u].status = "processing" /\ job[u].worker = w

HeartbeatJob(u, w) ==
    /\ HoldsLease(u, w)
    /\ job' = [job EXCEPT ![u].lease = "fresh"]
    /\ UNCHANGED <<session, overdue, metadata, assets, spec>>

\* Mutant of Stale: the sweep selects jobs that were never claimed.
StaleQueued == {u \in Uploads :
                  job[u].status = "queued" /\ job[u].lease = "stale"}

Stale == {u \in Uploads :
            job[u].status = "processing" /\ job[u].lease = "stale"}

\* Every stale job and its session go back to queued in one statement.
RequeueStaleJobs ==
    /\ job' = [u \in Uploads |->
                IF u \in Stale THEN [NoJob EXCEPT !.status = "queued"]
                ELSE job[u]]
    /\ session' = [u \in Uploads |->
                    IF u \in Stale THEN "queued" ELSE session[u]]
    /\ UNCHANGED <<overdue, metadata, assets, spec>>

\* CompleteJob and FailJob: spec, job and session move in one transaction,
\* and only for the worker that still holds the lease.
SettleJob(u, w, outcome) ==
    /\ HoldsLease(u, w)
    /\ spec' = [spec EXCEPT ![u].status = outcome]
    /\ job' = [job EXCEPT ![u].status = outcome, ![u].lease = "none"]
    /\ session' = [session EXCEPT ![u] = outcome]
    /\ UNCHANGED <<overdue, metadata, assets>>

----------------------------------------------------------------------------
(* The bucket.                                                             *)

\* A client PUTs through a presigned URL, at any time and any number of times
\* (the URL's four hours outlive Complete).
ClientPut(u, k, n, c) ==
    /\ n \in issued[u][k]
    /\ staged' = [staged EXCEPT ![u][k][n] = c]
    /\ UNCHANGED <<rowVars, issued, final, cover>>

\* Delete errors are ignored everywhere, so the object may stay.
MayKeep == ~DeletesReliable

DeleteStaged(u, k, n) ==
    /\ staged' = [staged EXCEPT ![u][k][n] = NULL]
    /\ UNCHANGED <<issued, final, cover>>

DeleteFinal(u, k) ==
    /\ final' = [final EXCEPT ![u][k] = NULL]
    /\ UNCHANGED <<issued, staged, cover>>

DeleteCover(u) ==
    /\ cover' = [cover EXCEPT ![u] = NULL]
    /\ UNCHANGED <<issued, staged, final>>

=============================================================================

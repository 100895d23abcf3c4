---------------------------- MODULE UploadState ----------------------------
(***************************************************************************)
(* The state the direct-upload pipeline shares: the PostgreSQL rows of an  *)
(* upload (session, assets, spec, job) and its objects in the bucket, and  *)
(* what must hold of them whoever changes them. UploadStore has the        *)
(* transactions that do.                                                   *)
(***************************************************************************)
EXTENDS Naturals

CONSTANTS
    Uploads,      \* upload sessions; each reserves one spec and one job
    Acceptable,   \* contents with the declared size and content type
    Playable,     \* contents the worker can decode
    Metadata,     \* form values SaveMetadata may store
    NULL

VARIABLES
    session,    \* status of the spec_upload_sessions row
    overdue,    \* whether expires_at of the session has passed
    metadata,   \* the session's metadata column, NULL for {}
    assets,     \* the spec_upload_assets row of each kind
    spec,       \* the specs row: processing_status and form values
    job,        \* the spec_processing_jobs row
    issued,     \* attempts whose presigned PUT URL the client received
    staged,     \* objects at incoming/.../<asset id>
    final,      \* objects at the asset's final key (image: cover source)
    cover       \* object at images/<spec>.jpg, by the content it renders

rowVars == <<session, overdue, metadata, assets, spec, job>>
bucketVars == <<issued, staged, final, cover>>
storeVars == <<rowVars, bucketVars>>

Image == 1     \* "image" sorts before preview, stems, wav
Outcomes == {"completed", "failed"}

----------------------------------------------------------------------------

\* The three rows of one upload tell one story: no spec or job exists before
\* the upload is accepted or after it expired, and afterwards the session
\* shows the job's status and the spec shows whether it is settled. Every
\* transaction of upload_repo.go has to move all of them.
RowsAgree ==
    \A u \in Uploads :
        IF session[u] \in {"none", "uploading", "expired"}
        THEN job[u].status = "none" /\ spec[u].status = "none"
        ELSE /\ job[u].status = session[u]
             /\ spec[u].status = IF session[u] \in Outcomes THEN session[u]
                                 ELSE "processing"

\* An upload that was accepted has every asset verified: its ETag is that of
\* a content with the declared size and type (validateReadyAssets, Complete).
AcceptedIsVerified ==
    \A u \in Uploads : job[u].status # "none" =>
        \A k \in DOMAIN assets[u] : /\ assets[u][k].attempt # 0
                                    /\ assets[u][k].etag \in Acceptable

\* A completed spec serves an object for every kind, whatever the client PUT
\* through its URLs meanwhile and however many workers tried: the cover was
\* decoded, and every object has the declared size and type.
PublishedIsComplete ==
    \A u \in Uploads : spec[u].status = "completed" =>
        /\ cover[u] \in Acceptable \cap Playable
        /\ \A k \in DOMAIN final[u] \ {Image} : final[u][k] \in Acceptable

\* direct-beat-upload.md, steps 7 and 8: the worker "validates the actual file
\* bytes" and only then a transaction "publishes". What a completed spec serves
\* has then been decoded. It is not so when a confirmation lands after the
\* upload was accepted: two workers may then hold different ETags for a kind,
\* and the copy of the one that lost its lease is not fenced.
PublishedPlayable ==
    \A u \in Uploads : spec[u].status = "completed" =>
        /\ cover[u] \in Playable
        /\ \A k \in DOMAIN final[u] \ {Image} : final[u][k] \in Playable

=============================================================================

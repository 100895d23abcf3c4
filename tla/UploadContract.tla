--------------------------- MODULE UploadContract --------------------------
(***************************************************************************)
(* What a client of the upload API may rely on, told from the rows and     *)
(* from what the requests in flight are about to answer or to write.       *)
(***************************************************************************)
EXTENDS UploadState

CONSTANT Requests   \* slots: requests served at the same time

VARIABLE req        \* what each slot is doing and what it has read so far

\* What Status reports.
ReportedStatus(u) ==
    IF session[u] = "uploading" /\ overdue[u] THEN "expired" ELSE session[u]

\* ReplaceAsset or FinalizeUpload has the session's row FOR UPDATE: it has
\* passed its check and not committed yet. Readers do not wait for it.
Locked(u) ==
    \E r \in Requests : req[r].at \in {"replace", "commit"} /\ req[r].upload = u

----------------------------------------------------------------------------

\* A client that was told its upload is accepted can rely on the spec and the
\* job being in the database, whichever of several Complete requests told it.
AcknowledgedIsDurable ==
    \A r \in Requests : req[r].at = "accepted" =>
        /\ job[req[r].upload].status # "none"
        /\ spec[req[r].upload].status # "none"
        /\ spec[req[r].upload].metadata \in Metadata

\* "upload session expired" (errors.go:17): a session that Status reports as
\* expired is never accepted afterwards. The code does not keep this: Complete
\* tests the deadline under the row lock (upload_repo.go:354) and commits later
\* (421), and Status, which does not wait for the lock, may answer in between.
StaysExpired ==
    \A u \in Uploads : ReportedStatus(u) = "expired" =>
                       (ReportedStatus(u))' = "expired"
ExpiredReportIsFinal == [][StaysExpired]_<<session, overdue>>

\* That transaction is the only way back. Once an upload is reported expired
\* and nobody holds its row, it stays so: whoever loaded the session before the
\* deadline is refused when it asks for the lock, whatever it has read.
Lapsed(u) == ReportedStatus(u) = "expired" /\ ~Locked(u)
StaysLapsed == \A u \in Uploads : Lapsed(u) => Lapsed(u)'
LapsedIsFinal == [][StaysLapsed]_<<session, overdue, req>>

\* direct-beat-upload.md, step 4: "a late response from the replaced upload
\* cannot confirm the replacement". A kind's row becomes verified only by a
\* request that looked at that very asset.
ConfirmsOwn ==
    \A u \in Uploads : \A k \in DOMAIN assets[u] :
        assets[u][k].etag = NULL /\ assets'[u][k].etag # NULL =>
            \E r \in Requests : /\ req[r].at \in {"apply", "commit"}
                                /\ req[r].upload = u
                                /\ req'[r] # req[r]
                                /\ assets[u][k].attempt =
                                    IF req[r].at = "apply"
                                    THEN req[r].attempt
                                    ELSE req[r].rows[k].attempt
ConfirmsItsOwnAsset == [][ConfirmsOwn]_<<assets, req>>

=============================================================================

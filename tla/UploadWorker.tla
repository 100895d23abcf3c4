---------------------------- MODULE UploadWorker ---------------------------
(***************************************************************************)
(* The media workers: StartUploadWorker (worker.go) and the                *)
(* SpecUploadProcessor it drives (processor.go). Each worker is a loop     *)
(* that sweeps stale leases, claims a job, copies and checks the assets    *)
(* while a heartbeat goroutine renews the lease, settles the job behind    *)
(* the worker_id fence and only then deletes objects. A step is one        *)
(* transaction or one call to the bucket.                                  *)
(***************************************************************************)
EXTENDS UploadStore

CONSTANT MaxFaults    \* bound: lapsed live leases, lost calls, timeouts

ASSUME WorkerAssumption == MaxFaults \in Nat

VARIABLES
    pc,        \* where each worker is
    task,      \* the upload it claimed
    bundle,    \* the asset rows ClaimNextJob loaded with the job
    kind,      \* kinds whose keys process() has collected for cleanup
    image,     \* the cover source it read
    verdict,   \* how process() returned
    beat,      \* its heartbeat goroutine
    pos,       \* the kind cleanup is at
    notices,   \* notifications created for the producer, by outcome
    faults     \* adverse events so far, at most MaxFaults

workerVars == <<pc, task, bundle, kind, image, verdict, beat, pos, notices,
                faults>>

\* process() is between two of its bucket calls.
Processing == {"check", "copy", "compare", "readCover", "writeCover",
               "validate"}
Cleaning == {"cleanCover", "cleanStaged", "cleanFinal"}
WorkerPC == {"idle", "return", "settle", "notify", "dead"}
            \cup Processing \cup Cleaning
Verdicts == {"none", "completed", "failed", "canceled"}

NoBundle == [k \in Kinds |-> NoAsset]

WorkerTypeOK ==
    /\ pc \in [Workers -> WorkerPC]
    /\ task \in [Workers -> Uploads \cup {NULL}]
    /\ bundle \in [Workers -> [Kinds -> AssetRow]]
    /\ kind \in [Workers -> Kinds]
    /\ image \in [Workers -> Object]
    /\ verdict \in [Workers -> Verdicts]
    /\ beat \in [Workers -> {"off", "on", "lost"}]
    /\ pos \in [Workers -> Kinds]
    /\ notices \in [Uploads -> [Outcomes -> Nat]]
    /\ faults \in 0..MaxFaults

\* The shape of every variable of the rows, the bucket and the workers.
TypeOK == StoreTypeOK /\ WorkerTypeOK

WorkerStart ==
    /\ pc = [w \in Workers |-> "idle"]
    /\ task = [w \in Workers |-> NULL]
    /\ bundle = [w \in Workers |-> NoBundle]
    /\ kind = [w \in Workers |-> 1]
    /\ image = [w \in Workers |-> NULL]
    /\ verdict = [w \in Workers |-> "none"]
    /\ beat = [w \in Workers |-> "off"]
    /\ pos = [w \in Workers |-> 1]
    /\ notices = [u \in Uploads |-> [o \in Outcomes |-> 0]]
    /\ faults = 0

Fault == faults < MaxFaults /\ faults' = faults + 1

----------------------------------------------------------------------------
(* The loop of StartUploadWorker.                                          *)

ExpireSweep(w) ==
    /\ pc[w] = "idle"
    /\ Abandoned # {}
    /\ ExpireUploadSessions
    /\ UNCHANGED <<bucketVars, workerVars>>

RequeueSweep(w) ==
    /\ pc[w] = "idle"
    /\ Stale # {}
    /\ RequeueStaleJobs
    /\ UNCHANGED <<bucketVars, workerVars>>

\* The claim and the start of process() and of the heartbeat goroutine. The
\* claim takes the oldest created_at, which API hosts stamp with their own
\* clocks before they commit: any queued job may be it.
Claim(w) ==
    /\ pc[w] = "idle"
    /\ \E u \in Uploads :
        /\ ClaimNextJob(u, w)
        /\ task' = [task EXCEPT ![w] = u]
        /\ bundle' = [bundle EXCEPT ![w] = assets[u]]
    /\ pc' = [pc EXCEPT ![w] = "check"]
    /\ kind' = [kind EXCEPT ![w] = 1]
    /\ beat' = [beat EXCEPT ![w] = "on"]
    /\ UNCHANGED <<bucketVars, image, verdict, pos, notices, faults>>

\* ProcessNext returns to the loop.
GoIdle(w) ==
    /\ pc' = [pc EXCEPT ![w] = "idle"]
    /\ task' = [task EXCEPT ![w] = NULL]
    /\ bundle' = [bundle EXCEPT ![w] = NoBundle]
    /\ kind' = [kind EXCEPT ![w] = 1]
    /\ image' = [image EXCEPT ![w] = NULL]
    /\ verdict' = [verdict EXCEPT ![w] = "none"]
    /\ beat' = [beat EXCEPT ![w] = "off"]
    /\ pos' = [pos EXCEPT ![w] = 1]

----------------------------------------------------------------------------
(* process(): one bucket call per step.                                    *)

Return(w, v) ==
    /\ pc' = [pc EXCEPT ![w] = "return"]
    /\ verdict' = [verdict EXCEPT ![w] = v]

GoTo(w, label) ==
    /\ pc' = [pc EXCEPT ![w] = label]
    /\ UNCHANGED verdict

SourceObject(w) ==
    staged[task[w]][kind[w]][bundle[w][kind[w]].attempt]

\* Mutant of SourceVerified: the ETag is not compared with the verified one.
SourceExists(w) == SourceObject(w) # NULL

\* The stat (and, through If-Match, the copy) finds the verified content.
SourceVerified(w) ==
    /\ SourceObject(w) # NULL
    /\ SourceObject(w) = bundle[w][kind[w]].etag

CheckSource(w) ==
    /\ pc[w] = "check"
    /\ IF SourceVerified(w) THEN GoTo(w, "copy") ELSE Return(w, "failed")
    /\ UNCHANGED <<storeVars, task, bundle, kind, image, beat, pos, notices,
                   faults>>

\* CopySourceIfMatch makes the comparison and the copy one operation.
CopySource(w) ==
    /\ pc[w] = "copy"
    /\ IF SourceVerified(w)
       THEN /\ final' = [final EXCEPT ![task[w]][kind[w]] = SourceObject(w)]
            /\ GoTo(w, "compare")
       ELSE Return(w, "failed") /\ UNCHANGED final
    /\ UNCHANGED <<rowVars, issued, staged, cover, task, bundle, kind, image,
                   beat, pos, notices, faults>>

\* The copy is there (sizes agree, as both were declared); on to the next kind.
CompareCopy(w) ==
    /\ pc[w] = "compare"
    /\ IF final[task[w]][kind[w]] = NULL
       THEN Return(w, "failed") /\ UNCHANGED kind
       ELSE IF kind[w] < NumKinds
       THEN GoTo(w, "check") /\ kind' = [kind EXCEPT ![w] = @ + 1]
       ELSE GoTo(w, "readCover") /\ UNCHANGED kind
    /\ UNCHANGED <<storeVars, task, bundle, image, beat, pos, notices, faults>>

ReadCover(w) ==
    /\ pc[w] = "readCover"
    /\ IF final[task[w]][Image] \in Playable
       THEN /\ image' = [image EXCEPT ![w] = final[task[w]][Image]]
            /\ GoTo(w, "writeCover")
       ELSE Return(w, "failed") /\ UNCHANGED image
    /\ UNCHANGED <<storeVars, task, bundle, kind, beat, pos, notices, faults>>

WriteCover(w) ==
    /\ pc[w] = "writeCover"
    /\ cover' = [cover EXCEPT ![task[w]] = image[w]]
    /\ GoTo(w, "validate")
    /\ UNCHANGED <<rowVars, issued, staged, final, task, bundle, kind, image,
                   beat, pos, notices, faults>>

\* AnalyzeMP3, validateWAV and validateStems read the copies. Reading them in
\* one step loses nothing: nobody deletes a copy before the job is settled, and
\* after that this worker is behind the fence.
Validate(w) ==
    /\ pc[w] = "validate"
    /\ IF \A k \in Kinds \ {Image} : final[task[w]][k] \in Playable
       THEN Return(w, "completed")
       ELSE Return(w, "failed")
    /\ UNCHANGED <<storeVars, task, bundle, kind, image, beat, pos, notices,
                   faults>>

\* Any bucket call may fail, which process() reports like bad content.
StorageError(w) ==
    /\ pc[w] \in Processing
    /\ Return(w, "failed")
    /\ UNCHANGED <<storeVars, task, bundle, kind, image, beat, pos, notices,
                   faults>>

\* A deadline or the worker's shutdown surfaces as a context error.
ContextError(w) ==
    /\ pc[w] \in Processing
    /\ Fault
    /\ Return(w, "canceled")
    /\ UNCHANGED <<storeVars, task, bundle, kind, image, beat, pos, notices>>

----------------------------------------------------------------------------
(* The heartbeat goroutine.                                                *)

\* A tick renews the lease; it stops, and cancels process(), when the fence
\* matches no row.
Heartbeat(w) ==
    /\ beat[w] = "on"
    /\ pc[w] \in Processing \cup {"return"}
    /\ IF HoldsLease(task[w], w)
       THEN HeartbeatJob(task[w], w) /\ UNCHANGED beat
       ELSE beat' = [beat EXCEPT ![w] = "lost"] /\ UNCHANGED rowVars
    /\ UNCHANGED <<bucketVars, pc, task, bundle, kind, image, verdict, pos,
                   notices, faults>>

\* A failed query counts as a lost lease too.
HeartbeatError(w) ==
    /\ beat[w] = "on"
    /\ pc[w] \in Processing \cup {"return"}
    /\ Fault
    /\ beat' = [beat EXCEPT ![w] = "lost"]
    /\ UNCHANGED <<storeVars, pc, task, bundle, kind, image, verdict, pos,
                   notices>>

\* process() notices the cancellation at its next bucket call.
CanceledByHeartbeat(w) ==
    /\ pc[w] \in Processing
    /\ beat[w] = "lost"
    /\ Return(w, "canceled")
    /\ UNCHANGED <<storeVars, task, bundle, kind, image, beat, pos, notices,
                   faults>>

----------------------------------------------------------------------------
(* ProcessNext after process() returned.                                   *)

\* Mutant of MayMutate: a timeout counts as a failure of the upload.
LeaseOnly(w) == beat[w] # "lost"

\* Neither a lost lease nor a context error lets the worker touch the job.
MayMutate(w) == beat[w] # "lost" /\ verdict[w] # "canceled"

\* The worker joins its heartbeat goroutine before it decides.
JoinHeartbeat(w) ==
    /\ pc[w] = "return"
    /\ IF MayMutate(w)
       THEN /\ pc' = [pc EXCEPT ![w] = "settle"]
            /\ beat' = [beat EXCEPT ![w] = "off"]
            /\ UNCHANGED <<task, bundle, kind, image, verdict, pos>>
       ELSE GoIdle(w)
    /\ UNCHANGED <<storeVars, notices, faults>>

\* Cleanup runs over the collected keys after a failure, over the staged
\* objects and the cover source after a success.
StartCleanup(w) ==
    /\ pc' = [pc EXCEPT ![w] = IF verdict[w] = "failed" THEN "cleanCover"
                               ELSE "cleanStaged"]
    /\ UNCHANGED <<task, bundle, kind, image, verdict, beat, pos>>

\* CompleteJob or FailJob commits.
Settle(w) ==
    /\ pc[w] = "settle"
    /\ SettleJob(task[w], w, verdict[w])
    /\ StartCleanup(w)
    /\ UNCHANGED <<bucketVars, notices, faults>>

\* It commits, but the worker sees an error: no cleanup and no notification.
SettleAmbiguous(w) ==
    /\ pc[w] = "settle"
    /\ Fault
    /\ SettleJob(task[w], w, verdict[w])
    /\ GoIdle(w)
    /\ UNCHANGED <<bucketVars, notices>>

\* Mutant of SettleFenced: the error of the fenced transaction is dropped.
SettleFencedIgnored(w) ==
    /\ pc[w] = "settle"
    /\ ~HoldsLease(task[w], w)
    /\ StartCleanup(w)
    /\ UNCHANGED <<storeVars, notices, faults>>

\* The fence matches no row: someone else owns, or has settled, the job.
SettleFenced(w) ==
    /\ pc[w] = "settle"
    /\ ~HoldsLease(task[w], w)
    /\ GoIdle(w)
    /\ UNCHANGED <<storeVars, notices, faults>>

\* The transaction rolls back; the job stays leased to this worker's id.
SettleError(w) ==
    /\ pc[w] = "settle"
    /\ Fault
    /\ GoIdle(w)
    /\ UNCHANGED <<storeVars, notices>>

\* Cleanup has dealt with every key that process() collected.
LastKey(w) == pos[w] >= kind[w]

NextKey(w) ==
    IF ~LastKey(w)
    THEN /\ pc' = [pc EXCEPT ![w] = "cleanStaged"]
         /\ pos' = [pos EXCEPT ![w] = @ + 1]
    ELSE /\ pc' = [pc EXCEPT ![w] = "notify"]
         /\ UNCHANGED pos

CleanCover(w) ==
    /\ pc[w] = "cleanCover"
    /\ DeleteCover(task[w]) \/ (MayKeep /\ UNCHANGED bucketVars)
    /\ pc' = [pc EXCEPT ![w] = "cleanStaged"]
    /\ UNCHANGED <<rowVars, task, bundle, kind, image, verdict, beat, pos,
                   notices, faults>>

\* Mutant of CleansFinal: a success cleans every final object, not only the
\* cover source.
CleansEveryFinal(w) == TRUE

CleansFinal(w) == verdict[w] = "failed" \/ pos[w] = Image

CleanStaged(w) ==
    /\ pc[w] = "cleanStaged"
    /\ \/ DeleteStaged(task[w], pos[w], bundle[w][pos[w]].attempt)
       \/ MayKeep /\ UNCHANGED bucketVars
    /\ IF CleansFinal(w)
       THEN pc' = [pc EXCEPT ![w] = "cleanFinal"] /\ UNCHANGED pos
       ELSE NextKey(w)
    /\ UNCHANGED <<rowVars, task, bundle, kind, image, verdict, beat, notices,
                   faults>>

CleanFinal(w) ==
    /\ pc[w] = "cleanFinal"
    /\ DeleteFinal(task[w], pos[w]) \/ (MayKeep /\ UNCHANGED bucketVars)
    /\ NextKey(w)
    /\ UNCHANGED <<rowVars, task, bundle, kind, image, verdict, beat, notices,
                   faults>>

\* Creating the notification may fail; the error is dropped.
Notify(w) ==
    /\ pc[w] = "notify"
    /\ \/ notices' = [notices EXCEPT ![task[w]][verdict[w]] = @ + 1]
       \/ UNCHANGED notices
    /\ GoIdle(w)
    /\ UNCHANGED <<storeVars, faults>>

----------------------------------------------------------------------------
(* The environment.                                                        *)

\* A process dies with everything it held in memory. The platform restarts
\* it under a new id, so some worker is always alive.
Crash(w) ==
    /\ pc[w] # "dead"
    /\ \E v \in Workers \ {w} : pc[v] # "dead"
    /\ pc' = [pc EXCEPT ![w] = "dead"]
    /\ task' = [task EXCEPT ![w] = NULL]
    /\ bundle' = [bundle EXCEPT ![w] = NoBundle]
    /\ kind' = [kind EXCEPT ![w] = 1]
    /\ image' = [image EXCEPT ![w] = NULL]
    /\ verdict' = [verdict EXCEPT ![w] = "none"]
    /\ beat' = [beat EXCEPT ![w] = "off"]
    /\ pos' = [pos EXCEPT ![w] = 1]
    /\ UNCHANGED <<storeVars, notices, faults>>

\* Some worker is on this job (it may be paused, or cut off from the database).
Attended(u) == \E w \in Workers : task[w] = u /\ job[u].worker = w

\* locked_at grows older than the lease.
LeaseLapses(u) ==
    /\ job[u].status = "processing"
    /\ job[u].lease = "fresh"
    /\ IF Attended(u) THEN Fault ELSE UNCHANGED faults
    /\ job' = [job EXCEPT ![u].lease = "stale"]
    /\ UNCHANGED <<session, overdue, metadata, assets, spec, bucketVars, pc,
                   task, bundle, kind, image, verdict, beat, pos, notices>>

ClientOverwrites(u, k, n, c) ==
    ClientPut(u, k, n, c) /\ UNCHANGED workerVars

----------------------------------------------------------------------------

\* The steps a live worker takes by itself.
Work(w) ==
    \/ Claim(w) \/ CheckSource(w) \/ CopySource(w) \/ CompareCopy(w)
    \/ ReadCover(w) \/ WriteCover(w) \/ Validate(w) \/ CanceledByHeartbeat(w)
    \/ JoinHeartbeat(w) \/ Settle(w) \/ SettleFenced(w) \/ CleanCover(w)
    \/ CleanStaged(w) \/ CleanFinal(w) \/ Notify(w)

\* What may go wrong around it.
Mishap(w) ==
    \/ StorageError(w) \/ ContextError(w) \/ HeartbeatError(w)
    \/ SettleAmbiguous(w) \/ SettleError(w) \/ Crash(w)

WorkerNext ==
    \/ \E w \in Workers : \/ ExpireSweep(w) \/ RequeueSweep(w)
                          \/ Work(w) \/ Heartbeat(w) \/ Mishap(w)
    \/ \E u \in Uploads : LeaseLapses(u)
    \/ \E u \in Uploads, k \in Kinds, n \in Attempts, c \in Contents :
            ClientOverwrites(u, k, n, c)

\* The pool on its own, from what the API leaves it: uploads FinalizeUpload has
\* queued, with verified assets that are in the bucket, and drafts whose
\* deadline passed before anyone completed them.
WorkerInit ==
    \E etags \in [Uploads -> [Kinds -> Acceptable]],
       forms \in [Uploads -> Metadata], late \in [Uploads -> BOOLEAN] :
        /\ session = [u \in Uploads |-> IF late[u] THEN "uploading"
                                        ELSE "queued"]
        /\ overdue = late
        /\ metadata = forms
        /\ assets = [u \in Uploads |-> [k \in Kinds |->
                        [attempt |-> 1, etag |-> etags[u][k]]]]
        /\ spec = [u \in Uploads |->
                    IF late[u] THEN NoSpec
                    ELSE [status |-> "processing", metadata |-> forms[u]]]
        /\ job = [u \in Uploads |->
                    IF late[u] THEN NoJob
                    ELSE [NoJob EXCEPT !.status = "queued"]]
        /\ issued = [u \in Uploads |-> [k \in Kinds |-> {1}]]
        /\ staged = [u \in Uploads |-> [k \in Kinds |-> [n \in Attempts |->
                        IF n = 1 THEN etags[u][k] ELSE NULL]]]
        /\ final = [u \in Uploads |-> [k \in Kinds |-> NULL]]
        /\ cover = [u \in Uploads |-> NULL]
        /\ WorkerStart

vars == <<storeVars, workerVars>>

WorkerSpec == WorkerInit /\ [][WorkerNext]_vars

\* The loop of a live worker keeps running, its sweep comes round between two
\* jobs, and the clock passes the lease of a job nobody renews.
WorkerFairness ==
    /\ \A w \in Workers : WF_vars(Work(w)) /\ WF_vars(RequeueSweep(w))
    /\ \A u \in Uploads : WF_vars(~Attended(u) /\ LeaseLapses(u))

FairWorkerSpec == WorkerSpec /\ WorkerFairness

----------------------------------------------------------------------------
(* Properties.                                                             *)

\* A completed spec serves, at every moment, exactly the contents that were
\* verified when the upload was accepted, all of them decodable. Stale workers
\* still copying, clients re-using their URLs, retries and cleanup of other
\* attempts must not touch what was published.
PublishedIntact ==
    \A u \in Uploads : spec[u].status = "completed" =>
        /\ cover[u] = assets[u][Image].etag
        /\ \A k \in Kinds \ {Image} : final[u][k] = assets[u][k].etag
        /\ \A k \in Kinds : assets[u][k].etag \in Playable

\* Final keys never hold a content other than the verified one, even between
\* a client's second PUT and the worker noticing it (processor.go compares
\* the ETag, CopyObject repeats the comparison atomically).
FinalsVerified ==
    \A u \in Uploads :
        /\ \A k \in Kinds : final[u][k] \in {NULL, assets[u][k].etag}
        /\ cover[u] \in {NULL, assets[u][Image].etag}

\* The producer hears about an upload at most once, and what they hear is how
\* it was settled, however many workers tried it.
NoticeMatchesOutcome ==
    \A u \in Uploads : \A o \in Outcomes :
        /\ notices[u][o] <= 1
        /\ notices[u][o] > 0 => job[u].status = o

\* A job leaves processing for good only by the hand of the worker whose lease
\* is on the row, and it is never reopened. A worker that was presumed dead
\* cannot fail or complete the job its successor is working on.
SettledByHolder ==
    [][\A u \in Uploads : job'[u].status # job[u].status =>
        /\ job[u].status \notin Outcomes
        /\ job'[u].status \in Outcomes =>
            \E w \in Workers : /\ pc[w] = "settle" /\ pc'[w] # "settle"
                               /\ task[w] = u
                               /\ job[u] = [job[u] EXCEPT !.worker = w,
                                               !.status = "processing"]]_vars

\* No accepted upload stays unsettled: crashed workers, lapsed leases and
\* timed-out attempts give the job back until some attempt settles it.
AcceptedIsSettled ==
    \A u \in Uploads :
        job[u].status = "queued" ~> job[u].status \in Outcomes

\* processor.go: "A fenced failure cleans the complete known key set, even
\* when this attempt fails before its first copy." When that cleanup is over
\* and no other worker is on the upload, no object is left at a final key.
\* The code does not keep this: see "Divergences" in the README.
FailureCleansEveryKey ==
    \A w \in Workers : pc[w] = "notify" /\ verdict[w] = "failed"
                       /\ (\A v \in Workers \ {w} : task[v] # task[w])
        => \A k \in Kinds : final[task[w]][k] = NULL

----------------------------------------------------------------------------
(* The pool implements the lifecycle.                                      *)

PhaseOf(u) ==
    IF spec[u].status = "none"
    THEN IF session[u] = "expired" THEN "lapsed" ELSE "draft"
    ELSE CASE spec[u].status = "processing" -> "accepted"
           [] spec[u].status = "completed" -> "live"
           [] spec[u].status = "failed" -> "rejected"

AcceptedOf(u) ==
    [k \in Kinds |-> IF spec[u].status = "none" THEN NULL
                     ELSE assets[u][k].etag]

ShownOf(u) ==
    [k \in Kinds |-> IF spec[u].status # "completed" THEN NULL
                     ELSE IF k = Image THEN cover[u] ELSE final[u][k]]

Lifecycle == INSTANCE UploadLifecycle WITH
    phase <- [u \in Uploads |-> PhaseOf(u)],
    accepted <- [u \in Uploads |-> AcceptedOf(u)],
    shown <- [u \in Uploads |-> ShownOf(u)]

\* Every behaviour of the pool is one of UploadLifecycle: accepted uploads
\* keep their bundle, are settled once, and show it, whole, once live.
ImplementsLifecycle == Lifecycle!Spec

=============================================================================

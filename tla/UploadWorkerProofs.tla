------------------------- MODULE UploadWorkerProofs ------------------------
(***************************************************************************)
(* Theorems about the worker pool for every number of uploads, workers,    *)
(* asset kinds and faults: its variables keep their types, the rows of an  *)
(* upload agree, what was published stays as it was verified, and the pool *)
(* implements UploadLifecycle.                                             *)
(***************************************************************************)
EXTENDS UploadWorker, TLAPS

(***************************************************************************)
(* The inductive invariant.                                                *)
(***************************************************************************)

Active(w) == pc[w] \notin {"idle", "dead"}
Closing(w) == pc[w] \in Cleaning \cup {"notify"}
Done(w) == pc[w] \in {"return", "settle"} /\ verdict[w] = "completed"
Unsettled(u) == job[u].status \notin Outcomes
VerifiedTag(w, k) == assets[task[w]][k].etag

\* A busy worker has an upload and the rows the upload was accepted with.
OnTask ==
    \A w \in Workers : Active(w) =>
        task[w] \in Uploads /\ bundle[w] = assets[task[w]]

\* Only a worker that may mutate the job reaches the fenced transaction.
VerdictKnown ==
    \A w \in Workers :
        /\ pc[w] = "return" => verdict[w] # "none"
        /\ pc[w] = "settle" => verdict[w] \in Outcomes

\* A worker deletes and notifies only for the outcome it has committed.
ClosesItsOutcome ==
    \A w \in Workers : Closing(w) =>
        /\ verdict[w] \in Outcomes
        /\ job[task[w]].status = verdict[w]
        /\ pc[w] = "cleanCover" => verdict[w] = "failed"
        /\ pc[w] = "cleanFinal" /\ verdict[w] = "completed" => pos[w] = Image

\* Past the loop every kind was handled, and the cover source is verified.
LoopDone ==
    \A w \in Workers :
        /\ pc[w] \in {"readCover", "writeCover", "validate"} \/ Done(w)
            => kind[w] = NumKinds
        /\ pc[w] = "writeCover" => image[w] = VerifiedTag(w, Image)
        /\ pc[w] \in {"writeCover", "validate"} \/ Done(w)
            => VerifiedTag(w, Image) \in Playable
        /\ Done(w) => \A k \in Kinds : VerifiedTag(w, k) \in Playable

\* Until the job is settled nobody deletes: what a worker has copied is there.
CopiesStay ==
    \A w \in Workers : Active(w) /\ Unsettled(task[w]) =>
        /\ pc[w] \in Processing \/ Done(w) =>
            \A k \in Kinds : k < kind[w] =>
                final[task[w]][k] = VerifiedTag(w, k)
        /\ pc[w] \in {"compare", "readCover", "writeCover", "validate"} \/ Done(w)
            => final[task[w]][kind[w]] = VerifiedTag(w, kind[w])
        /\ pc[w] = "validate" \/ Done(w) => cover[task[w]] = VerifiedTag(w, Image)

\* One worker closes an upload, and nothing was announced before it does.
OneCloser ==
    /\ \A v, w \in Workers :
            Closing(v) /\ Closing(w) /\ task[v] = task[w] => v = w
    /\ \A w \in Workers : Closing(w) =>
            \A o \in Outcomes : notices[task[w]][o] = 0
    /\ \A u \in Uploads : Unsettled(u) =>
            \A o \in Outcomes : notices[u][o] = 0

\* No single conjunct is inductive; together they are.
IInv ==
    /\ TypeOK
    /\ RowsAgree
    /\ OnTask
    /\ VerdictKnown
    /\ ClosesItsOutcome
    /\ FinalsVerified
    /\ LoopDone
    /\ CopiesStay
    /\ PublishedIntact
    /\ OneCloser
    /\ NoticeMatchesOutcome

(***************************************************************************)
(* Typing.                                                                 *)
(***************************************************************************)

\* The kinds are the numbers the processing loop counts through.
LEMMA KindsAreNaturals ==
    /\ Kinds \subseteq Nat
    /\ Image \in Kinds
    /\ NumKinds \in Kinds
    /\ \A k \in Kinds : k < NumKinds => k + 1 \in Kinds
BY StoreAssumption DEF Kinds, Image

\* The uploads the pool starts from are well typed.
LEMMA InitTyped == WorkerInit => TypeOK
<1> SUFFICES ASSUME WorkerInit PROVE TypeOK
    OBVIOUS
<1> USE StoreAssumption, WorkerAssumption, KindsAreNaturals
<1>1. PICK etags \in [Uploads -> [Kinds -> Acceptable]],
           forms \in [Uploads -> Metadata], late \in [Uploads -> BOOLEAN] :
        /\ session = [u \in Uploads |-> IF late[u] THEN "uploading"
                                        ELSE "queued"]
        /\ overdue = late
        /\ metadata = forms
        /\ assets = [u \in Uploads |-> [k \in Kinds |->
                        [attempt |-> 1, etag |-> etags[u][k]]]]
        /\ spec = [u \in Uploads |->
                    IF late[u] THEN NoSpec
                    ELSE [status |-> "processing", metadata |-> forms[u]]]
        /\ job = [u \in Uploads |->
                    IF late[u] THEN NoJob
                    ELSE [NoJob EXCEPT !.status = "queued"]]
        /\ issued = [u \in Uploads |-> [k \in Kinds |-> {1}]]
        /\ staged = [u \in Uploads |-> [k \in Kinds |-> [n \in Attempts |->
                        IF n = 1 THEN etags[u][k] ELSE NULL]]]
        /\ final = [u \in Uploads |-> [k \in Kinds |-> NULL]]
        /\ cover = [u \in Uploads |-> NULL]
        /\ WorkerStart
    BY DEF WorkerInit
<1>2. 1 \in Attempts
    BY DEF Attempts
<1>3. assets \in [Uploads -> [Kinds -> AssetRow]]
    <2>1. \A u \in Uploads, k \in Kinds :
            [attempt |-> 1, etag |-> etags[u][k]] \in AssetRow
        BY <1>1 DEF AssetRow
    <2> QED BY <2>1, <1>1
<1>4. spec \in [Uploads -> SpecRow] /\ job \in [Uploads -> JobRow]
    BY <1>1 DEF SpecRow, JobRow, SpecStatus, JobStatus, NoJob, NoSpec
<1>5. staged \in [Uploads -> [Kinds -> [Attempts -> Object]]]
    <2>1. \A u \in Uploads, k \in Kinds : etags[u][k] \in Object
        BY DEF Object
    <2> QED BY <2>1, <1>1 DEF Object
<1>6. StoreTypeOK
    <2>1. session \in [Uploads -> SessionStatus]
        BY <1>1 DEF SessionStatus
    <2>2. overdue \in [Uploads -> BOOLEAN]
        BY <1>1
    <2>3. /\ metadata \in [Uploads -> Metadata \cup {NULL}]
          /\ issued \in [Uploads -> [Kinds -> SUBSET Attempts]]
        BY <1>1, <1>2
    <2>4. /\ final \in [Uploads -> [Kinds -> Object]]
          /\ cover \in [Uploads -> Object]
        BY <1>1 DEF Object
    <2> QED BY <2>1, <2>2, <2>3, <2>4, <1>3, <1>4, <1>5 DEF StoreTypeOK
<1>7. WorkerTypeOK
    BY <1>1 DEF WorkerStart, WorkerTypeOK, WorkerPC, NoBundle, NoAsset,
                AssetRow, Object, Verdicts, Image
<1> QED BY <1>6, <1>7 DEF TypeOK

\* A job row keeps its type when its lease or its status is written.
LEMMA JobWritten ==
    ASSUME NEW j \in JobRow, NEW s \in JobStatus,
           NEW l \in {"none", "fresh", "stale"}
    PROVE  /\ [j EXCEPT !.lease = l] \in JobRow
           /\ [j EXCEPT !.status = s, !.lease = l] \in JobRow
<1>1. [j EXCEPT !.lease = l] \in JobRow
    BY DEF JobRow
<1>2. [j EXCEPT !.status = s, !.lease = l] \in JobRow
    BY DEF JobRow
<1> QED BY <1>1, <1>2

\* The writes of the rows keep their types.
LEMMA RowsTyped ==
    ASSUME StoreTypeOK, NEW u \in Uploads, NEW w \in Workers,
           UNCHANGED bucketVars,
           \/ ExpireUploadSessions
           \/ RequeueStaleJobs
           \/ ClaimNextJob(u, w)
           \/ HeartbeatJob(u, w)
           \/ \E outcome \in Outcomes : SettleJob(u, w, outcome)
    PROVE  StoreTypeOK'
<1> USE DEF StoreTypeOK, bucketVars, JobRow, JobStatus, SessionStatus, Outcomes
<1>1. CASE ExpireUploadSessions
    BY <1>1 DEF ExpireUploadSessions
<1>2. CASE RequeueStaleJobs
    BY <1>2 DEF RequeueStaleJobs, NoJob
<1>3. CASE ClaimNextJob(u, w)
    BY <1>3 DEF ClaimNextJob
<1>4. CASE HeartbeatJob(u, w)
    <2>1. job' = [job EXCEPT ![u] = [job[u] EXCEPT !.lease = "fresh"]]
          /\ UNCHANGED <<session, overdue, metadata, assets, spec>>
        BY <1>4 DEF HeartbeatJob
    <2>2. job[u] \in JobRow /\ "none" \in JobStatus
        OBVIOUS
    <2> HIDE DEF JobRow, JobStatus, StoreTypeOK
    <2>3. [job[u] EXCEPT !.lease = "fresh"] \in JobRow
        BY <2>2, JobWritten
    <2>4. job' \in [Uploads -> JobRow]
        BY <2>1, <2>3 DEF StoreTypeOK
    <2> QED BY <2>1, <2>4 DEF StoreTypeOK
<1>5. CASE \E outcome \in Outcomes : SettleJob(u, w, outcome)
    <2>1. PICK outcome \in {"completed", "failed"} : SettleJob(u, w, outcome)
        BY <1>5
    <2>2. spec' \in [Uploads -> SpecRow]
        <3>1. spec' = [spec EXCEPT ![u] = [spec[u] EXCEPT !.status = outcome]]
            BY <2>1 DEF SettleJob
        <3>2. [spec[u] EXCEPT !.status = outcome] \in SpecRow
            <4>1. spec[u] \in SpecRow
                OBVIOUS
            <4>2. outcome \in SpecStatus
                BY DEF SpecStatus
            <4> HIDE DEF StoreTypeOK
            <4> QED BY <4>1, <4>2 DEF SpecRow
        <3> QED BY <3>1, <3>2
    <2>3. job' \in [Uploads -> JobRow]
        <3>1. job' = [job EXCEPT ![u] = [job[u] EXCEPT !.status = outcome,
                                                      !.lease = "none"]]
            BY <2>1 DEF SettleJob
        <3>2. [job[u] EXCEPT !.status = outcome, !.lease = "none"] \in JobRow
            <4>1. job[u] \in JobRow /\ outcome \in JobStatus
                OBVIOUS
            <4> HIDE DEF JobRow, JobStatus, StoreTypeOK
            <4> QED BY <4>1, JobWritten
        <3> QED BY <3>1, <3>2
    <2> QED BY <2>1, <2>2, <2>3 DEF SettleJob
<1> QED BY <1>1, <1>2, <1>3, <1>4, <1>5

\* The writes of the bucket keep their types.
LEMMA BucketTyped ==
    ASSUME StoreTypeOK, UNCHANGED rowVars,
           NEW u \in Uploads, NEW k \in Kinds, NEW n \in Attempts \cup {0},
           NEW c \in Object,
           \/ UNCHANGED bucketVars
           \/ staged' = [staged EXCEPT ![u][k][n] = c]
              /\ UNCHANGED <<issued, final, cover>>
           \/ final' = [final EXCEPT ![u][k] = c]
              /\ UNCHANGED <<issued, staged, cover>>
           \/ cover' = [cover EXCEPT ![u] = c]
              /\ UNCHANGED <<issued, staged, final>>
    PROVE  StoreTypeOK'
<1>1. CASE UNCHANGED bucketVars
    BY <1>1 DEF StoreTypeOK, rowVars, bucketVars
<1>2. CASE staged' = [staged EXCEPT ![u][k][n] = c]
           /\ UNCHANGED <<issued, final, cover>>
    <2>1. staged[u] \in [Kinds -> [Attempts -> Object]]
        BY DEF StoreTypeOK
    <2>2. [staged[u] EXCEPT ![k][n] = c] \in [Kinds -> [Attempts -> Object]]
        BY <2>1
    <2>3. staged' \in [Uploads -> [Kinds -> [Attempts -> Object]]]
        BY <1>2, <2>2 DEF StoreTypeOK
    <2> QED BY <1>2, <2>3 DEF StoreTypeOK, rowVars
<1>3. CASE final' = [final EXCEPT ![u][k] = c]
           /\ UNCHANGED <<issued, staged, cover>>
    BY <1>3 DEF StoreTypeOK, rowVars
<1>4. CASE cover' = [cover EXCEPT ![u] = c]
           /\ UNCHANGED <<issued, staged, final>>
    BY <1>4 DEF StoreTypeOK, rowVars
<1> QED BY <1>1, <1>2, <1>3, <1>4

\* The state a worker has in the loop.
LEMMA IdleTyped ==
    ASSUME WorkerTypeOK, NEW w \in Workers, GoIdle(w),
           notices' \in [Uploads -> [Outcomes -> Nat]],
           faults' \in 0..MaxFaults
    PROVE  WorkerTypeOK'
<1>1. NULL \in Object /\ NoBundle \in [Kinds -> AssetRow]
    BY StoreAssumption DEF Object, NoBundle, NoAsset, AssetRow
<1>2. 1 \in Kinds
    BY KindsAreNaturals DEF Image
<1> QED BY <1>1, <1>2 DEF WorkerTypeOK, GoIdle, WorkerPC, Verdicts

\* A worker that moves on, and may return from process().
LEMMA MoveTyped ==
    ASSUME WorkerTypeOK, NEW w \in Workers, NEW label \in WorkerPC,
           pc' = [pc EXCEPT ![w] = label],
           \/ UNCHANGED verdict
           \/ \E v \in Verdicts : verdict' = [verdict EXCEPT ![w] = v],
           \/ UNCHANGED kind
           \/ \E k \in Kinds : kind' = [kind EXCEPT ![w] = k],
           \/ UNCHANGED pos
           \/ \E k \in Kinds : pos' = [pos EXCEPT ![w] = k],
           \/ UNCHANGED image
           \/ \E c \in Object : image' = [image EXCEPT ![w] = c],
           UNCHANGED <<task, bundle, beat, notices>>,
           faults' \in 0..MaxFaults
    PROVE  WorkerTypeOK'
<1>1. verdict' \in [Workers -> Verdicts]
    BY DEF WorkerTypeOK
<1>2. kind' \in [Workers -> Kinds]
    BY DEF WorkerTypeOK
<1>3. pos' \in [Workers -> Kinds]
    BY DEF WorkerTypeOK
<1>4. image' \in [Workers -> Object]
    BY DEF WorkerTypeOK
<1> QED BY <1>1, <1>2, <1>3, <1>4 DEF WorkerTypeOK

(***************************************************************************)
(* What a step leaves alone.                                               *)
(***************************************************************************)

\* A step of a worker that changes neither rows nor objects.
LEMMA StoreKept ==
    ASSUME IInv, UNCHANGED storeVars
    PROVE  StoreTypeOK' /\ RowsAgree' /\ FinalsVerified' /\ PublishedIntact'
<1> USE DEF storeVars, rowVars, bucketVars
<1>1. StoreTypeOK'
    BY DEF IInv, TypeOK, StoreTypeOK
<1>2. RowsAgree'
    BY DEF IInv, RowsAgree
<1>3. FinalsVerified'
    BY DEF IInv, FinalsVerified
<1>4. PublishedIntact'
    BY DEF IInv, PublishedIntact
<1> QED BY <1>1, <1>2, <1>3, <1>4

\* A step inside process(), or its return.
LEMMA ProcessKept ==
    ASSUME IInv, NEW w \in Workers, NEW label \in Processing \cup {"return"},
           pc[w] \in Processing,
           UNCHANGED <<rowVars, task, bundle, pos, notices>>,
           pc' = [pc EXCEPT ![w] = label],
           \/ UNCHANGED verdict /\ label # "return"
           \/ \E v \in Verdicts \ {"none"} : verdict' = [verdict EXCEPT ![w] = v]
    PROVE  /\ OnTask' /\ VerdictKnown' /\ ClosesItsOutcome' /\ OneCloser'
           /\ NoticeMatchesOutcome'
<1> USE DEF rowVars, Processing, Cleaning
<1>1. pc \in [Workers -> WorkerPC] /\ verdict \in [Workers -> Verdicts]
    BY DEF IInv, TypeOK, WorkerTypeOK
<1>2. OnTask'
    BY <1>1 DEF IInv, OnTask, Active
<1>3. VerdictKnown'
    BY <1>1 DEF IInv, VerdictKnown, Verdicts
<1>4. ClosesItsOutcome'
    <2>1. \A v \in Workers : Closing(v)' =>
            Closing(v) /\ pc'[v] = pc[v] /\ verdict'[v] = verdict[v] /\ v # w
        BY <1>1 DEF Closing
    <2> QED BY <2>1 DEF IInv, ClosesItsOutcome, Closing
<1>5. OneCloser'
    BY <1>1 DEF IInv, OneCloser, Closing, Unsettled
<1>6. NoticeMatchesOutcome'
    BY DEF IInv, NoticeMatchesOutcome
<1> QED BY <1>2, <1>3, <1>4, <1>5, <1>6

(***************************************************************************)
(* process().                                                              *)
(***************************************************************************)

\* The stat of a staged object, against the verified ETag.
LEMMA CheckSourceStep ==
    ASSUME IInv, NEW w \in Workers, CheckSource(w)
    PROVE  IInv'
<1> USE DEF CheckSource, GoTo, Return
<1>1. StoreTypeOK' /\ RowsAgree' /\ FinalsVerified' /\ PublishedIntact'
    BY StoreKept
<1>2. pc[w] \in Processing
    BY DEF Processing
<1>3. OnTask' /\ VerdictKnown' /\ ClosesItsOutcome' /\ OneCloser'
      /\ NoticeMatchesOutcome'
    <2>1. CASE SourceVerified(w)
        BY <1>2, <2>1, ProcessKept DEF storeVars, Processing
    <2>2. CASE ~SourceVerified(w)
        BY <1>2, <2>2, ProcessKept DEF storeVars, Processing, Verdicts
    <2> QED BY <2>1, <2>2
<1>4. WorkerTypeOK'
    BY MoveTyped DEF IInv, TypeOK, WorkerTypeOK, WorkerPC, Processing, Verdicts
<1>5. LoopDone'
    BY DEF IInv, TypeOK, WorkerTypeOK, LoopDone, Done, VerifiedTag,
           storeVars, rowVars
<1>6. CopiesStay'
    BY DEF IInv, TypeOK, WorkerTypeOK, CopiesStay, Active, Unsettled, Done,
           VerifiedTag, Processing, storeVars, rowVars, bucketVars
<1> QED BY <1>1, <1>3, <1>4, <1>5, <1>6 DEF IInv, TypeOK

\* The loop over the kinds: the next one, or on to the cover.
LEMMA CompareCopyStep ==
    ASSUME IInv, NEW w \in Workers, CompareCopy(w)
    PROVE  IInv'
<1> USE DEF CompareCopy, GoTo, Return
<1>1. StoreTypeOK' /\ RowsAgree' /\ FinalsVerified' /\ PublishedIntact'
    BY StoreKept
<1>2. pc[w] \in Processing
    BY DEF Processing
<1>3. OnTask' /\ VerdictKnown' /\ ClosesItsOutcome' /\ OneCloser'
      /\ NoticeMatchesOutcome'
    <2>1. CASE final[task[w]][kind[w]] = NULL
        BY <1>2, <2>1, ProcessKept DEF storeVars, Processing, Verdicts
    <2>2. CASE final[task[w]][kind[w]] # NULL /\ kind[w] < NumKinds
        BY <1>2, <2>2, ProcessKept DEF storeVars, Processing, Verdicts
    <2>3. CASE final[task[w]][kind[w]] # NULL /\ ~(kind[w] < NumKinds)
        BY <1>2, <2>3, ProcessKept DEF storeVars, Processing, Verdicts
    <2> QED BY <2>1, <2>2, <2>3
<1>4. WorkerTypeOK'
    BY MoveTyped, KindsAreNaturals DEF IInv, TypeOK, WorkerTypeOK, WorkerPC, Processing, Verdicts
<1>5. LoopDone'
    <2>1. kind[w] \in 1..NumKinds
        BY DEF IInv, TypeOK, WorkerTypeOK, Kinds
    <2>2. ~(kind[w] < NumKinds) => kind[w] = NumKinds
        BY <2>1, StoreAssumption
    <2>3. \A v \in Workers : pc'[v] = "readCover" /\ v = w =>
            kind'[v] = NumKinds
        BY <2>2 DEF IInv, TypeOK, WorkerTypeOK
    <2>4. pc'[w] \in {"return", "check", "readCover"} /\ ~Done(w)'
        BY DEF IInv, TypeOK, WorkerTypeOK, Done
    <2>5. \A v \in Workers \ {w} :
            /\ pc'[v] = pc[v] /\ kind'[v] = kind[v] /\ Done(v)' = Done(v)
        BY DEF IInv, TypeOK, WorkerTypeOK, Done
    <2> QED BY <2>3, <2>4, <2>5
        DEF IInv, LoopDone, VerifiedTag, storeVars, rowVars
<1>6. CopiesStay'
    <2>1. kind[w] \in 1..NumKinds
        BY DEF IInv, TypeOK, WorkerTypeOK, Kinds
    <2>2. \A k \in Kinds : k < kind[w] + 1 => k < kind[w] \/ k = kind[w]
        BY <2>1, StoreAssumption DEF Kinds
    <2>3. CASE final[task[w]][kind[w]] = NULL
        <3>1. pc'[w] = "return" /\ verdict'[w] # "completed"
            BY <2>3 DEF IInv, TypeOK, WorkerTypeOK
        <3>2. \A v \in Workers \ {w} : pc'[v] = pc[v] /\ verdict'[v] = verdict[v]
            BY <2>3 DEF IInv, TypeOK, WorkerTypeOK
        <3>3. UNCHANGED <<kind, task, final, cover, assets, job>>
            BY <2>3 DEF storeVars, rowVars, bucketVars
        <3> HIDE DEF CompareCopy, GoTo, Return
        <3> QED BY <3>1, <3>2, <3>3
            DEF IInv, CopiesStay, Active, Unsettled, Done, VerifiedTag, Processing
    <2>4. CASE final[task[w]][kind[w]] # NULL /\ kind[w] < NumKinds
        BY <2>2, <2>4 DEF IInv, TypeOK, WorkerTypeOK, CopiesStay, Active,
            Unsettled, Done, VerifiedTag, Processing, storeVars, rowVars,
            bucketVars
    <2>5. CASE final[task[w]][kind[w]] # NULL /\ ~(kind[w] < NumKinds)
        BY <2>5 DEF IInv, TypeOK, WorkerTypeOK, CopiesStay, Active, Unsettled,
            Done, VerifiedTag, Processing, storeVars, rowVars, bucketVars
    <2> QED BY <2>3, <2>4, <2>5
<1> QED BY <1>1, <1>3, <1>4, <1>5, <1>6 DEF IInv, TypeOK

\* Reading the cover source: what decodes is the verified content.
LEMMA ReadCoverStep ==
    ASSUME IInv, NEW w \in Workers, ReadCover(w)
    PROVE  IInv'
<1> USE DEF ReadCover, GoTo, Return
<1>1. StoreTypeOK' /\ RowsAgree' /\ FinalsVerified' /\ PublishedIntact'
    BY StoreKept
<1>2. pc[w] \in Processing
    BY DEF Processing
<1>3. OnTask' /\ VerdictKnown' /\ ClosesItsOutcome' /\ OneCloser'
      /\ NoticeMatchesOutcome'
    <2>1. CASE final[task[w]][Image] \in Playable
        BY <1>2, <2>1, ProcessKept DEF storeVars, Processing, Verdicts
    <2>2. CASE final[task[w]][Image] \notin Playable
        BY <1>2, <2>2, ProcessKept DEF storeVars, Processing, Verdicts
    <2> QED BY <2>1, <2>2
<1>4. WorkerTypeOK'
    BY MoveTyped, StoreAssumption
    DEF Object, IInv, TypeOK, WorkerTypeOK, WorkerPC, Processing, Verdicts
<1>5. LoopDone'
    <2>1. final[task[w]][Image] \in Playable =>
            final[task[w]][Image] = VerifiedTag(w, Image)
        BY StoreAssumption, KindsAreNaturals
        DEF IInv, OnTask, Active, FinalsVerified, VerifiedTag
    <2> QED BY <2>1
        DEF IInv, TypeOK, WorkerTypeOK, LoopDone, Done, VerifiedTag,
            storeVars, rowVars
<1>6. CopiesStay'
    BY DEF IInv, TypeOK, WorkerTypeOK, CopiesStay, Active, Unsettled, Done,
           VerifiedTag, Processing, storeVars, rowVars, bucketVars
<1> QED BY <1>1, <1>3, <1>4, <1>5, <1>6 DEF IInv, TypeOK

\* AnalyzeMP3, validateWAV and validateStems over the copies.
LEMMA ValidateStep ==
    ASSUME IInv, NEW w \in Workers, Validate(w)
    PROVE  IInv'
<1> USE DEF Validate, GoTo, Return
<1>1. StoreTypeOK' /\ RowsAgree' /\ FinalsVerified' /\ PublishedIntact'
    BY StoreKept
<1>2. pc[w] \in Processing
    BY DEF Processing
<1>3. OnTask' /\ VerdictKnown' /\ ClosesItsOutcome' /\ OneCloser'
      /\ NoticeMatchesOutcome'
    <2>1. CASE \A k \in Kinds \ {Image} : final[task[w]][k] \in Playable
        BY <1>2, <2>1, ProcessKept DEF storeVars, Processing, Verdicts
    <2>2. CASE ~(\A k \in Kinds \ {Image} : final[task[w]][k] \in Playable)
        BY <1>2, <2>2, ProcessKept DEF storeVars, Processing, Verdicts
    <2> QED BY <2>1, <2>2
<1>4. WorkerTypeOK'
    BY MoveTyped DEF IInv, TypeOK, WorkerTypeOK, WorkerPC, Processing, Verdicts
<1>5. LoopDone'
    <2>1. \A k \in Kinds : final[task[w]][k] \in Playable =>
            VerifiedTag(w, k) \in Playable
        BY StoreAssumption DEF IInv, OnTask, Active, FinalsVerified, VerifiedTag
    <2> QED BY <2>1
        DEF IInv, TypeOK, WorkerTypeOK, LoopDone, Done, VerifiedTag,
            storeVars, rowVars
<1>6. CopiesStay'
    BY DEF IInv, TypeOK, WorkerTypeOK, CopiesStay, Active, Unsettled, Done,
           VerifiedTag, Processing, storeVars, rowVars, bucketVars
<1> QED BY <1>1, <1>3, <1>4, <1>5, <1>6 DEF IInv, TypeOK

\* A cancellation by the heartbeat only makes process() return.
LEMMA CanceledByHeartbeatStep ==
    ASSUME IInv, NEW w \in Workers, CanceledByHeartbeat(w)
    PROVE  IInv'
<1> USE DEF CanceledByHeartbeat, GoTo, Return
<1>1. StoreTypeOK' /\ RowsAgree' /\ FinalsVerified' /\ PublishedIntact'
    BY StoreKept
<1>2. pc[w] \in Processing
    BY DEF Processing
<1>3. OnTask' /\ VerdictKnown' /\ ClosesItsOutcome' /\ OneCloser'
      /\ NoticeMatchesOutcome'
    BY <1>2, ProcessKept DEF storeVars, Processing, Verdicts
<1>4. WorkerTypeOK'
    BY MoveTyped DEF IInv, TypeOK, WorkerTypeOK, WorkerPC, Processing, Verdicts
<1>5. LoopDone'
    BY DEF IInv, TypeOK, WorkerTypeOK, LoopDone, Done, VerifiedTag,
           storeVars, rowVars, Processing
<1>6. CopiesStay'
    BY DEF IInv, TypeOK, WorkerTypeOK, CopiesStay, Active, Unsettled, Done,
           VerifiedTag, Processing, storeVars, rowVars, bucketVars
<1> QED BY <1>1, <1>3, <1>4, <1>5, <1>6 DEF IInv, TypeOK

\* A failed bucket call only makes process() return.
LEMMA StorageErrorStep ==
    ASSUME IInv, NEW w \in Workers, StorageError(w)
    PROVE  IInv'
<1> USE DEF StorageError, GoTo, Return
<1>1. StoreTypeOK' /\ RowsAgree' /\ FinalsVerified' /\ PublishedIntact'
    BY StoreKept
<1>2. pc[w] \in Processing
    BY DEF Processing
<1>3. OnTask' /\ VerdictKnown' /\ ClosesItsOutcome' /\ OneCloser'
      /\ NoticeMatchesOutcome'
    BY <1>2, ProcessKept DEF storeVars, Processing, Verdicts
<1>4. WorkerTypeOK'
    BY MoveTyped DEF IInv, TypeOK, WorkerTypeOK, WorkerPC, Processing, Verdicts
<1>5. LoopDone'
    BY DEF IInv, TypeOK, WorkerTypeOK, LoopDone, Done, VerifiedTag,
           storeVars, rowVars, Processing
<1>6. CopiesStay'
    BY DEF IInv, TypeOK, WorkerTypeOK, CopiesStay, Active, Unsettled, Done,
           VerifiedTag, Processing, storeVars, rowVars, bucketVars
<1> QED BY <1>1, <1>3, <1>4, <1>5, <1>6 DEF IInv, TypeOK

\* A timeout or a shutdown only makes process() return.
LEMMA ContextErrorStep ==
    ASSUME IInv, NEW w \in Workers, ContextError(w)
    PROVE  IInv'
<1> USE DEF ContextError, GoTo, Return
<1>1. StoreTypeOK' /\ RowsAgree' /\ FinalsVerified' /\ PublishedIntact'
    BY StoreKept
<1>2. pc[w] \in Processing
    BY DEF Processing
<1>3. OnTask' /\ VerdictKnown' /\ ClosesItsOutcome' /\ OneCloser'
      /\ NoticeMatchesOutcome'
    BY <1>2, ProcessKept DEF storeVars, Processing, Verdicts
<1>4. WorkerTypeOK'
    BY MoveTyped, WorkerAssumption
    DEF Fault, IInv, TypeOK, WorkerTypeOK, WorkerPC, Processing, Verdicts
<1>5. LoopDone'
    BY DEF IInv, TypeOK, WorkerTypeOK, LoopDone, Done, VerifiedTag,
           storeVars, rowVars, Processing
<1>6. CopiesStay'
    BY DEF IInv, TypeOK, WorkerTypeOK, CopiesStay, Active, Unsettled, Done,
           VerifiedTag, Processing, storeVars, rowVars, bucketVars
<1> QED BY <1>1, <1>3, <1>4, <1>5, <1>6 DEF IInv, TypeOK

\* CopySourceIfMatch puts nothing but the verified content at a final key.
LEMMA CopySourceStep ==
    ASSUME IInv, NEW w \in Workers, CopySource(w)
    PROVE  IInv'
<1> USE DEF CopySource, GoTo, Return
<1>1. pc[w] \in Processing /\ task[w] \in Uploads /\ kind[w] \in Kinds
    BY DEF IInv, OnTask, Active, TypeOK, WorkerTypeOK, Processing
<1>2. OnTask' /\ VerdictKnown' /\ ClosesItsOutcome' /\ OneCloser'
      /\ NoticeMatchesOutcome'
    <2>1. CASE SourceVerified(w)
        BY <1>1, <2>1, ProcessKept DEF Processing, Verdicts
    <2>2. CASE ~SourceVerified(w)
        BY <1>1, <2>2, ProcessKept DEF Processing, Verdicts
    <2> QED BY <2>1, <2>2
<1>3. WorkerTypeOK'
    BY MoveTyped DEF IInv, TypeOK, WorkerTypeOK, WorkerPC, Processing, Verdicts
<1>4. LoopDone'
    BY DEF IInv, TypeOK, WorkerTypeOK, LoopDone, Done, VerifiedTag, rowVars
<1>5. RowsAgree'
    BY DEF IInv, RowsAgree, rowVars
<1>6. CASE ~SourceVerified(w)
    <2>1. UNCHANGED storeVars
        BY <1>6 DEF storeVars, bucketVars
    <2>2. StoreTypeOK' /\ FinalsVerified' /\ PublishedIntact'
        BY <2>1, StoreKept
    <2>3. CopiesStay'
        BY <1>6 DEF IInv, TypeOK, WorkerTypeOK, CopiesStay, Active, Unsettled,
            Done, VerifiedTag, Processing, rowVars
    <2> QED BY <1>2, <1>3, <1>4, <1>5, <2>2, <2>3 DEF IInv, TypeOK
<1>7. CASE SourceVerified(w)
    <2> DEFINE etag == assets[task[w]][kind[w]].etag
    <2>1. SourceObject(w) = etag
        BY <1>1, <1>7 DEF SourceVerified, IInv, OnTask, Active, Processing
    <2>2. etag \in Object
        BY <1>1 DEF IInv, TypeOK, StoreTypeOK, AssetRow, Object
    <2>3. final' = [final EXCEPT ![task[w]][kind[w]] = etag]
        BY <1>7, <2>1
    <2>4. StoreTypeOK'
        BY <1>1, <2>2, <2>3, BucketTyped DEF IInv, TypeOK
    <2>5. \A u \in Uploads, k \in Kinds :
            final'[u][k] \in {final[u][k], assets[u][k].etag}
        BY <1>1, <2>3 DEF IInv, TypeOK, StoreTypeOK
    <2>6. FinalsVerified'
        BY <2>5 DEF IInv, FinalsVerified, rowVars
    <2>7. PublishedIntact'
        BY <2>5 DEF IInv, PublishedIntact, rowVars
    <2>8. CopiesStay'
        <3> SUFFICES ASSUME NEW v \in Workers, Active(v)', Unsettled(task[v])'
                     PROVE  /\ (pc[v] \in Processing \/ Done(v))' =>
                                \A k \in Kinds : (k < kind[v] =>
                                    final[task[v]][k] = VerifiedTag(v, k))'
                            /\ (pc[v] \in {"compare", "readCover", "writeCover",
                                          "validate"} \/ Done(v))'
                                => (final[task[v]][kind[v]] =
                                    VerifiedTag(v, kind[v]))'
                            /\ (pc[v] = "validate" \/ Done(v))' =>
                                (cover[task[v]] = VerifiedTag(v, Image))'
            BY DEF CopiesStay
        <3>1. Active(v) /\ Unsettled(task[v]) /\ task[v] \in Uploads
              /\ kind[v] \in Kinds
            BY <1>7 DEF Active, Unsettled, rowVars, IInv, OnTask, TypeOK,
                        WorkerTypeOK
        <3>2. CASE v = w
            <4>1. pc'[w] = "compare" /\ ~Done(w)'
                BY <1>7 DEF IInv, TypeOK, WorkerTypeOK, Done
            <4>2. final'[task[w]][kind[w]] = etag
                BY <1>1, <2>3 DEF IInv, TypeOK, StoreTypeOK
            <4> QED BY <1>1, <2>5, <3>1, <3>2, <4>1, <4>2
                DEF IInv, CopiesStay, VerifiedTag, rowVars
        <3>3. CASE v # w
            <4>1. pc'[v] = pc[v] /\ Done(v)' = Done(v)
                BY <1>7, <3>3 DEF IInv, TypeOK, WorkerTypeOK, Done
            <4> QED BY <2>5, <3>1, <4>1
                DEF IInv, CopiesStay, VerifiedTag, rowVars
        <3> QED BY <3>2, <3>3
    <2> QED BY <1>2, <1>3, <1>4, <1>5, <2>4, <2>6, <2>7, <2>8 DEF IInv, TypeOK
<1> QED BY <1>6, <1>7

\* The normalised cover renders the verified image.
LEMMA WriteCoverStep ==
    ASSUME IInv, NEW w \in Workers, WriteCover(w)
    PROVE  IInv'
<1> USE DEF WriteCover, GoTo
<1>1. /\ pc[w] \in Processing /\ Active(w)
      /\ task[w] \in Uploads
      /\ image[w] \in Object
    BY DEF IInv, OnTask, Active, TypeOK, WorkerTypeOK, Processing
<1>2. OnTask' /\ VerdictKnown' /\ ClosesItsOutcome' /\ OneCloser'
      /\ NoticeMatchesOutcome'
    BY <1>1, ProcessKept DEF Processing
<1>3. StoreTypeOK'
    BY <1>1, BucketTyped, KindsAreNaturals DEF IInv, TypeOK
<1>4. WorkerTypeOK'
    BY MoveTyped DEF IInv, TypeOK, WorkerTypeOK, WorkerPC, Processing
<1>5. LoopDone'
    BY DEF IInv, TypeOK, WorkerTypeOK, LoopDone, Done, VerifiedTag, rowVars
<1>6. RowsAgree'
    BY DEF IInv, RowsAgree, rowVars
<1>7. image[w] = assets[task[w]][Image].etag
    BY DEF IInv, LoopDone, VerifiedTag
<1>8. \A u \in Uploads : cover'[u] \in {cover[u], assets[u][Image].etag}
    BY <1>1, <1>7 DEF IInv, TypeOK, StoreTypeOK
<1>9. FinalsVerified'
    BY <1>8 DEF IInv, FinalsVerified, rowVars
<1>10. PublishedIntact'
    BY <1>8 DEF IInv, PublishedIntact, rowVars
<1>11. CopiesStay'
    <2>1. cover'[task[w]] = VerifiedTag(w, Image)
        BY <1>1, <1>7 DEF IInv, TypeOK, StoreTypeOK, VerifiedTag
    <2>2. pc'[w] = "validate" /\ ~Done(w)'
        BY DEF IInv, TypeOK, WorkerTypeOK, Done
    <2>3. \A v \in Workers \ {w} : pc'[v] = pc[v] /\ Done(v)' = Done(v)
        BY DEF IInv, TypeOK, WorkerTypeOK, Done
    <2>4. \A v \in Workers : Active(v)' => Active(v) /\ task[v] \in Uploads
        BY <1>1, <2>3 DEF Active, IInv, OnTask
    <2> QED BY <1>1, <1>8, <2>1, <2>2, <2>3, <2>4
        DEF IInv, CopiesStay, VerifiedTag, Unsettled, rowVars
<1> QED BY <1>2, <1>3, <1>4, <1>5, <1>6, <1>9, <1>10, <1>11 DEF IInv, TypeOK

(***************************************************************************)
(* The loop of StartUploadWorker.                                          *)
(***************************************************************************)

\* The expiry sweep leaves accepted uploads alone.
LEMMA ExpireSweepStep ==
    ASSUME IInv, NEW w \in Workers, ExpireSweep(w)
    PROVE  IInv'
<1> USE DEF ExpireSweep, ExpireUploadSessions
<1>1. StoreTypeOK'
    BY DEF bucketVars, IInv, TypeOK, StoreTypeOK, SessionStatus
<1>2. RowsAgree'
    <2> SUFFICES ASSUME NEW u \in Uploads
                 PROVE  IF session'[u] \in {"none", "uploading", "expired"}
                        THEN job[u].status = "none" /\ spec[u].status = "none"
                        ELSE /\ job[u].status = session'[u]
                             /\ spec[u].status = IF session'[u] \in Outcomes
                                                 THEN session'[u]
                                                 ELSE "processing"
        BY DEF RowsAgree
    <2> QED BY DEF IInv, RowsAgree, Abandoned
<1> QED BY <1>1, <1>2
    DEF IInv, TypeOK, WorkerTypeOK, OnTask, VerdictKnown, ClosesItsOutcome,
        FinalsVerified, LoopDone, CopiesStay, PublishedIntact, OneCloser,
        NoticeMatchesOutcome, Active, Closing, Done, Unsettled, VerifiedTag,
        bucketVars, workerVars

\* Requeuing moves job and session together, and settles nothing.
LEMMA RequeueSweepStep ==
    ASSUME IInv, NEW w \in Workers, RequeueSweep(w)
    PROVE  IInv'
<1> USE DEF RequeueSweep, RequeueStaleJobs
<1>1. StoreTypeOK'
    BY StoreAssumption
    DEF bucketVars, IInv, TypeOK, StoreTypeOK, SessionStatus, JobRow, JobStatus,
        NoJob
<1>2. \A u \in Uploads :
        \/ /\ u \notin Stale
           /\ job'[u] = job[u] /\ session'[u] = session[u]
        \/ /\ job[u].status = "processing"
           /\ job'[u].status = "queued" /\ session'[u] = "queued"
    BY DEF Stale, NoJob
<1>3. RowsAgree'
    BY <1>2 DEF IInv, RowsAgree, Outcomes
<1>4. \A u \in Uploads : /\ Unsettled(u)' = Unsettled(u)
                         /\ job[u].status \in Outcomes =>
                                job'[u].status = job[u].status
    BY <1>2 DEF Unsettled, Outcomes
<1>5. \A v \in Workers : Active(v)' = Active(v) /\ Closing(v)' = Closing(v)
                         /\ Done(v)' = Done(v)
                         /\ (Active(v) => task[v] \in Uploads)
                         /\ (Closing(v) => task[v] \in Uploads)
    BY DEF Active, Closing, Done, workerVars, IInv, OnTask, Cleaning
<1>6. ClosesItsOutcome'
    BY <1>4, <1>5 DEF IInv, ClosesItsOutcome, workerVars
<1>7. CopiesStay'
    BY <1>4, <1>5 DEF IInv, CopiesStay, VerifiedTag, bucketVars, workerVars
<1>8. OneCloser'
    BY <1>4, <1>5 DEF IInv, OneCloser, workerVars
<1>9. NoticeMatchesOutcome'
    BY <1>2 DEF IInv, NoticeMatchesOutcome, Outcomes, workerVars
<1>10. PublishedIntact' /\ FinalsVerified'
    BY DEF IInv, PublishedIntact, FinalsVerified, bucketVars
<1>11. OnTask' /\ VerdictKnown' /\ LoopDone' /\ WorkerTypeOK'
    BY <1>5 DEF IInv, TypeOK, OnTask, VerdictKnown, LoopDone, WorkerTypeOK,
                VerifiedTag, workerVars
<1> QED BY <1>1, <1>3, <1>6, <1>7, <1>8, <1>9, <1>10, <1>11 DEF IInv, TypeOK

\* The claim hands over the rows the upload was accepted with.
LEMMA ClaimStep ==
    ASSUME IInv, NEW w \in Workers, Claim(w)
    PROVE  IInv'
<1>1. PICK u \in Uploads : /\ ClaimNextJob(u, w)
                           /\ task' = [task EXCEPT ![w] = u]
                           /\ bundle' = [bundle EXCEPT ![w] = assets[u]]
    BY DEF Claim
<1> USE <1>1 DEF Claim
<1>2. StoreTypeOK'
    BY RowsTyped DEF IInv, TypeOK
<1>3. WorkerTypeOK'
    <2>1. 1 \in Kinds
        BY KindsAreNaturals DEF Image
    <2> QED BY <2>1 DEF IInv, TypeOK, WorkerTypeOK, StoreTypeOK, WorkerPC,
                        Processing
<1>4. /\ job[u].status = "queued"
      /\ job'[u].status = "processing" /\ session'[u] = "processing"
      /\ \A x \in Uploads \ {u} : job'[x] = job[x] /\ session'[x] = session[x]
    BY DEF ClaimNextJob, IInv, TypeOK, StoreTypeOK
<1>5. /\ \A v \in Workers \ {w} :
            /\ pc'[v] = pc[v] /\ task'[v] = task[v] /\ bundle'[v] = bundle[v]
            /\ kind'[v] = kind[v]
      /\ pc'[w] = "check" /\ task'[w] = u /\ bundle'[w] = assets[u]
      /\ kind'[w] = 1
    BY DEF IInv, TypeOK, WorkerTypeOK
<1>6. UNCHANGED <<spec, assets, final, cover, verdict, image, pos, notices>>
    BY DEF ClaimNextJob, bucketVars
<1>7. \A v \in Workers : /\ v # w => Active(v)' = Active(v)
                         /\ Closing(v)' => Closing(v) /\ v # w
                         /\ Done(v)' => Done(v) /\ v # w
    BY <1>5, <1>6 DEF Active, Closing, Done, Cleaning
<1>8. \A x \in Uploads : /\ Unsettled(x)' = Unsettled(x)
                         /\ job[x].status \in Outcomes =>
                                job'[x].status = job[x].status
    BY <1>4 DEF Unsettled, Outcomes
<1>9. \A v \in Workers : Active(v) => task[v] \in Uploads
    BY DEF IInv, OnTask
<1>10. RowsAgree'
    BY <1>4, <1>6 DEF IInv, RowsAgree, Outcomes
<1>11. OnTask'
    BY <1>5, <1>6, <1>7 DEF IInv, OnTask
<1>12. VerdictKnown'
    BY <1>5, <1>6 DEF IInv, VerdictKnown
<1>13. ClosesItsOutcome'
    BY <1>5, <1>6, <1>7, <1>8, <1>9
    DEF IInv, ClosesItsOutcome, Closing, Active, Cleaning
<1>14. FinalsVerified' /\ PublishedIntact'
    BY <1>6 DEF IInv, FinalsVerified, PublishedIntact
<1>15. LoopDone'
    BY <1>5, <1>6, <1>7 DEF IInv, LoopDone, VerifiedTag
<1>16. CopiesStay'
    <2>1. \A k \in Kinds : ~(k < 1)
        BY StoreAssumption DEF Kinds
    <2>2. \A v \in Workers : Active(v)' /\ v # w =>
            Active(v) /\ task'[v] \in Uploads
        BY <1>5, <1>7, <1>9
    <2> QED BY <1>5, <1>6, <1>7, <1>8, <1>9, <2>1, <2>2
        DEF IInv, CopiesStay, VerifiedTag
<1>17. OneCloser'
    BY <1>4, <1>5, <1>6, <1>7, <1>8 DEF IInv, OneCloser
<1>18. NoticeMatchesOutcome'
    BY <1>4, <1>6 DEF IInv, NoticeMatchesOutcome, Outcomes
<1> QED BY <1>2, <1>3, <1>10, <1>11, <1>12, <1>13, <1>14, <1>15, <1>16,
           <1>17, <1>18 DEF IInv, TypeOK

(***************************************************************************)
(* Leases and the heartbeat.                                               *)
(***************************************************************************)

\* A lease changes hands in no way but its freshness.
LEMMA LeaseKept ==
    ASSUME IInv, NEW u \in Uploads, NEW freshness \in {"fresh", "stale"},
           job' = [job EXCEPT ![u].lease = freshness],
           UNCHANGED <<session, overdue, metadata, assets, spec, bucketVars, pc,
                       task, bundle, kind, image, verdict, pos, notices>>,
           beat' \in [Workers -> {"off", "on", "lost"}],
           faults' \in 0..MaxFaults
    PROVE  IInv'
<1>1. \A x \in Uploads : job'[x].status = job[x].status
    BY DEF IInv, TypeOK, StoreTypeOK, JobRow
<1>2. StoreTypeOK'
    <2>1. job[u] \in JobRow
        BY DEF IInv, TypeOK, StoreTypeOK
    <2>2. [job[u] EXCEPT !.lease = freshness] \in JobRow
        BY <2>1 DEF JobRow
    <2>3. job' \in [Uploads -> JobRow]
        BY <2>2 DEF IInv, TypeOK, StoreTypeOK
    <2> QED BY <2>3 DEF IInv, TypeOK, StoreTypeOK, bucketVars
<1>3. WorkerTypeOK'
    BY DEF IInv, TypeOK, WorkerTypeOK
<1>4. RowsAgree'
    BY <1>1 DEF IInv, RowsAgree
<1>5. FinalsVerified' /\ PublishedIntact'
    BY DEF IInv, FinalsVerified, PublishedIntact, bucketVars
<1>6. NoticeMatchesOutcome'
    BY <1>1 DEF IInv, NoticeMatchesOutcome
<1>7. OnTask' /\ VerdictKnown' /\ LoopDone'
    BY DEF IInv, OnTask, VerdictKnown, LoopDone, Active, Done, VerifiedTag
<1>8. \A v \in Workers : Active(v) \/ Closing(v) => task[v] \in Uploads
    BY DEF IInv, OnTask, Active, Closing, Cleaning
<1>9. ClosesItsOutcome'
    BY <1>1, <1>8 DEF IInv, ClosesItsOutcome, Closing
<1>10. CopiesStay'
    BY <1>1, <1>8
    DEF IInv, CopiesStay, Active, Done, Unsettled, VerifiedTag, bucketVars
<1>11. OneCloser'
    BY <1>1 DEF IInv, OneCloser, Closing, Unsettled
<1> QED BY <1>2, <1>3, <1>4, <1>5, <1>6, <1>7, <1>9, <1>10, <1>11
    DEF IInv, TypeOK

\* Neither do the other bookkeeping variables matter.
LEMMA BookkeepingKept ==
    ASSUME IInv,
           UNCHANGED <<storeVars, pc, task, bundle, kind, image, verdict, pos,
                       notices>>,
           beat' \in [Workers -> {"off", "on", "lost"}],
           faults' \in 0..MaxFaults
    PROVE  IInv'
<1>1. StoreTypeOK' /\ RowsAgree' /\ FinalsVerified' /\ PublishedIntact'
    BY StoreKept
<1>2. WorkerTypeOK'
    BY DEF IInv, TypeOK, WorkerTypeOK
<1> QED BY <1>1, <1>2
    DEF IInv, TypeOK, OnTask, VerdictKnown, ClosesItsOutcome, LoopDone,
        CopiesStay, OneCloser, NoticeMatchesOutcome, Active, Closing, Done,
        Unsettled, VerifiedTag, storeVars, rowVars, bucketVars

\* A heartbeat touches locked_at or the goroutine, nothing else.
LEMMA HeartbeatStep ==
    ASSUME IInv, NEW w \in Workers, Heartbeat(w)
    PROVE  IInv'
<1>1. CASE HoldsLease(task[w], w)
    <2>1. task[w] \in Uploads
        BY DEF Heartbeat, Processing, IInv, OnTask, Active
    <2> QED BY <1>1, <2>1, LeaseKept
        DEF Heartbeat, HeartbeatJob, IInv, TypeOK, WorkerTypeOK
<1>2. CASE ~HoldsLease(task[w], w)
    <2>1. beat' \in [Workers -> {"off", "on", "lost"}]
        BY <1>2 DEF Heartbeat, IInv, TypeOK, WorkerTypeOK
    <2>2. faults' \in 0..MaxFaults
        BY DEF Heartbeat, IInv, TypeOK, WorkerTypeOK
    <2> QED BY <1>2, <2>1, <2>2, BookkeepingKept DEF Heartbeat, storeVars
<1> QED BY <1>1, <1>2

\* A failed heartbeat query only loses the goroutine.
LEMMA HeartbeatErrorStep ==
    ASSUME IInv, NEW w \in Workers, HeartbeatError(w)
    PROVE  IInv'
BY BookkeepingKept, WorkerAssumption
DEF HeartbeatError, Fault, IInv, TypeOK, WorkerTypeOK

\* A lease growing old changes nothing the invariant says.
LEMMA LeaseLapsesStep ==
    ASSUME IInv, NEW u \in Uploads, LeaseLapses(u)
    PROVE  IInv'
<1>1. faults' \in 0..MaxFaults
    BY WorkerAssumption DEF LeaseLapses, Fault, IInv, TypeOK, WorkerTypeOK
<1> QED BY <1>1, LeaseKept DEF LeaseLapses, IInv, TypeOK, WorkerTypeOK

\* Nothing the invariant says depends on the staged objects.
LEMMA ClientOverwritesStep ==
    ASSUME IInv, NEW u \in Uploads, NEW k \in Kinds, NEW n \in Attempts,
           NEW c \in Contents, ClientOverwrites(u, k, n, c)
    PROVE  IInv'
<1> USE DEF ClientOverwrites, ClientPut
<1>1. StoreTypeOK'
    BY BucketTyped DEF Object, IInv, TypeOK
<1> QED BY <1>1
    DEF IInv, TypeOK, WorkerTypeOK, RowsAgree, OnTask, VerdictKnown,
        ClosesItsOutcome, FinalsVerified, LoopDone, CopiesStay, PublishedIntact,
        OneCloser, NoticeMatchesOutcome, Active, Closing, Done, Unsettled,
        VerifiedTag, rowVars, workerVars

(***************************************************************************)
(* Leaving a job.                                                          *)
(***************************************************************************)

\* Worker w is done with its job; the others are where they were.
Leaves(w) ==
    /\ pc'[w] \in {"idle", "dead"}
    /\ \A v \in Workers \ {w} :
        /\ pc'[v] = pc[v] /\ task'[v] = task[v] /\ bundle'[v] = bundle[v]
        /\ kind'[v] = kind[v] /\ image'[v] = image[v]
        /\ verdict'[v] = verdict[v] /\ pos'[v] = pos[v]

\* What the invariant says of workers, when one leaves and no row changes.
LEMMA LeaverKept ==
    ASSUME IInv, NEW w \in Workers, Leaves(w), UNCHANGED <<assets, job, bucketVars>>
    PROVE  /\ OnTask' /\ VerdictKnown' /\ ClosesItsOutcome' /\ LoopDone'
           /\ CopiesStay'
<1>1. ~Active(w)' /\ ~Closing(w)' /\ ~Done(w)'
    BY DEF Leaves, Active, Closing, Done, Cleaning
<1>2. \A v \in Workers \ {w} :
        Active(v)' = Active(v) /\ Closing(v)' = Closing(v) /\ Done(v)' = Done(v)
    BY DEF Leaves, Active, Closing, Done
<1>3. OnTask'
    BY <1>1, <1>2 DEF IInv, OnTask, Leaves
<1>4. VerdictKnown'
    BY DEF IInv, VerdictKnown, Leaves
<1>5. ClosesItsOutcome'
    BY <1>1, <1>2 DEF IInv, ClosesItsOutcome, Leaves
<1>6. LoopDone'
    BY <1>1, <1>2 DEF IInv, LoopDone, VerifiedTag, Leaves
<1>7. CopiesStay'
    BY <1>1, <1>2
    DEF IInv, CopiesStay, Unsettled, VerifiedTag, Leaves, bucketVars
<1> QED BY <1>3, <1>4, <1>5, <1>6, <1>7

\* A worker that drops its task takes its obligations with it.
LEMMA LeaveStep ==
    ASSUME IInv, NEW w \in Workers, Leaves(w), WorkerTypeOK',
           UNCHANGED <<storeVars, notices>>
    PROVE  IInv'
<1>1. StoreTypeOK' /\ RowsAgree' /\ FinalsVerified' /\ PublishedIntact'
    BY StoreKept
<1>2. OnTask' /\ VerdictKnown' /\ ClosesItsOutcome' /\ LoopDone' /\ CopiesStay'
    BY LeaverKept DEF storeVars, rowVars
<1>3. \A v \in Workers : Closing(v)' => Closing(v) /\ task'[v] = task[v]
    BY DEF Leaves, Closing, Cleaning
<1>4. OneCloser'
    BY <1>3 DEF IInv, OneCloser, Unsettled, storeVars, rowVars
<1>5. NoticeMatchesOutcome'
    BY DEF IInv, NoticeMatchesOutcome, storeVars, rowVars
<1> QED BY <1>1, <1>2, <1>4, <1>5 DEF IInv, TypeOK

\* Returning to the loop is one way of leaving.
LEMMA GoIdleLeaves ==
    ASSUME IInv, NEW w \in Workers, GoIdle(w)
    PROVE  Leaves(w)
BY DEF GoIdle, Leaves, IInv, TypeOK, WorkerTypeOK

\* A worker behind the fence leaves without a trace.
LEMMA SettleFencedStep ==
    ASSUME IInv, NEW w \in Workers, SettleFenced(w)
    PROVE  IInv'
<1>1. WorkerTypeOK'
    BY IdleTyped DEF SettleFenced, IInv, TypeOK, WorkerTypeOK
<1> QED BY <1>1, GoIdleLeaves, LeaveStep DEF SettleFenced

\* A rolled-back settlement leaves no trace.
LEMMA SettleErrorStep ==
    ASSUME IInv, NEW w \in Workers, SettleError(w)
    PROVE  IInv'
<1>1. WorkerTypeOK'
    BY IdleTyped, WorkerAssumption
    DEF SettleError, Fault, IInv, TypeOK, WorkerTypeOK
<1> QED BY <1>1, GoIdleLeaves, LeaveStep DEF SettleError

\* A crash is the other way of leaving.
LEMMA CrashStep ==
    ASSUME IInv, NEW w \in Workers, Crash(w)
    PROVE  IInv'
<1> USE DEF Crash
<1>1. NULL \in Object /\ NoBundle \in [Kinds -> AssetRow] /\ 1 \in Kinds
    BY StoreAssumption, KindsAreNaturals
    DEF Object, NoBundle, NoAsset, AssetRow, Image
<1>2. WorkerTypeOK'
    BY <1>1 DEF IInv, TypeOK, WorkerTypeOK, WorkerPC, Verdicts
<1>3. Leaves(w)
    BY DEF Leaves, IInv, TypeOK, WorkerTypeOK
<1> QED BY <1>2, <1>3, LeaveStep

\* Only a worker that may mutate the job goes on to settle it.
LEMMA JoinHeartbeatStep ==
    ASSUME IInv, NEW w \in Workers, JoinHeartbeat(w)
    PROVE  IInv'
<1> USE DEF JoinHeartbeat
<1>1. CASE ~MayMutate(w)
    <2>1. GoIdle(w)
        BY <1>1
    <2>2. WorkerTypeOK'
        BY <2>1, IdleTyped DEF IInv, TypeOK, WorkerTypeOK
    <2> QED BY <2>1, <2>2, GoIdleLeaves, LeaveStep
<1>2. CASE MayMutate(w)
    <2>1. StoreTypeOK' /\ RowsAgree' /\ FinalsVerified' /\ PublishedIntact'
        BY StoreKept
    <2>2. WorkerTypeOK'
        BY <1>2 DEF IInv, TypeOK, WorkerTypeOK, WorkerPC
    <2>3. /\ pc'[w] = "settle"
          /\ \A v \in Workers \ {w} : pc'[v] = pc[v]
        BY <1>2 DEF IInv, TypeOK, WorkerTypeOK
    <2>4. UNCHANGED <<task, bundle, kind, image, verdict, pos, notices, assets,
                      job, final, cover>>
        BY <1>2 DEF storeVars, rowVars, bucketVars
    <2>5. \A v \in Workers : Active(v)' = Active(v) /\ Closing(v)' = Closing(v)
                             /\ Done(v)' = Done(v)
        BY <2>3, <2>4 DEF Active, Closing, Done, Cleaning
    <2>6. verdict[w] \in Outcomes
        <3>1. verdict[w] \in Verdicts \ {"none", "canceled"}
            BY <1>2 DEF MayMutate, IInv, VerdictKnown, TypeOK, WorkerTypeOK
        <3> QED BY <3>1 DEF Verdicts, Outcomes
    <2>7. VerdictKnown'
        BY <2>3, <2>4, <2>6 DEF IInv, VerdictKnown
    <2>8. OnTask'
        BY <2>4, <2>5 DEF IInv, OnTask
    <2>9. ClosesItsOutcome'
        BY <2>3, <2>4, <2>5 DEF IInv, ClosesItsOutcome
    <2>10. LoopDone'
        BY <2>3, <2>4, <2>5 DEF IInv, LoopDone, VerifiedTag
    <2>11. CopiesStay'
        BY <2>3, <2>4, <2>5
        DEF IInv, CopiesStay, Unsettled, VerifiedTag, Processing
    <2>12. OneCloser' /\ NoticeMatchesOutcome'
        BY <2>4, <2>5 DEF IInv, OneCloser, NoticeMatchesOutcome, Unsettled
    <2> QED BY <2>1, <2>2, <2>7, <2>8, <2>9, <2>10, <2>11, <2>12
        DEF IInv, TypeOK
<1> QED BY <1>1, <1>2

(***************************************************************************)
(* The fenced transaction and what follows it.                             *)
(***************************************************************************)

\* Publishing is safe because the worker saw every copy and nobody deletes
\* before the job is settled.
LEMMA SettleKept ==
    ASSUME IInv, NEW w \in Workers, pc[w] = "settle",
           SettleJob(task[w], w, verdict[w]), UNCHANGED bucketVars
    PROVE  /\ StoreTypeOK' /\ RowsAgree' /\ FinalsVerified' /\ PublishedIntact'
           /\ task[w] \in Uploads /\ verdict[w] \in Outcomes
           /\ Unsettled(task[w]) /\ job'[task[w]].status = verdict[w]
           /\ \A x \in Uploads \ {task[w]} : job'[x] = job[x]
           /\ UNCHANGED assets
<1> USE DEF SettleJob
<1>1. task[w] \in Uploads /\ verdict[w] \in Outcomes
    BY DEF IInv, OnTask, Active, VerdictKnown
<1>2. StoreTypeOK'
    BY <1>1, RowsTyped DEF IInv, TypeOK
<1>3. Unsettled(task[w])
    BY DEF HoldsLease, Unsettled, Outcomes
<1>4. /\ job'[task[w]].status = verdict[w] /\ spec'[task[w]].status = verdict[w]
      /\ session'[task[w]] = verdict[w]
    BY <1>1 DEF IInv, TypeOK, StoreTypeOK, JobRow, SpecRow
<1>5. \A x \in Uploads \ {task[w]} :
        job'[x] = job[x] /\ spec'[x] = spec[x] /\ session'[x] = session[x]
    BY <1>1 DEF IInv, TypeOK, StoreTypeOK
<1>6. RowsAgree'
    <2> DEFINE Agree(j, se, sp) ==
                 IF se \in {"none", "uploading", "expired"}
                 THEN j = "none" /\ sp = "none"
                 ELSE j = se /\ sp = IF se \in Outcomes THEN se ELSE "processing"
    <2>1. Agree(job'[task[w]].status, session'[task[w]], spec'[task[w]].status)
        BY <1>1, <1>4 DEF Outcomes
    <2>2. \A x \in Uploads \ {task[w]} :
            Agree(job'[x].status, session'[x], spec'[x].status)
        <3>1. \A x \in Uploads : Agree(job[x].status, session[x], spec[x].status)
            BY DEF IInv, RowsAgree
        <3> HIDE DEF Agree
        <3> QED BY <1>5, <3>1
    <2> QED BY <2>1, <2>2 DEF RowsAgree
<1>7. FinalsVerified'
    BY DEF IInv, FinalsVerified, bucketVars
<1>8. PublishedIntact'
    <2>1. CASE verdict[w] = "failed"
        BY <1>4, <1>5, <2>1 DEF IInv, PublishedIntact, bucketVars
    <2>2. CASE verdict[w] = "completed"
        <3>1. Done(w) /\ Active(w)
            BY <2>2 DEF Done, Active
        <3>2. kind[w] = NumKinds /\ \A k \in Kinds : VerifiedTag(w, k) \in Playable
            BY <3>1 DEF IInv, LoopDone
        <3>3. \A k \in Kinds : k < NumKinds \/ k = NumKinds
            BY StoreAssumption DEF Kinds
        <3>4. /\ \A k \in Kinds : final[task[w]][k] = VerifiedTag(w, k)
              /\ cover[task[w]] = VerifiedTag(w, Image)
            BY <1>3, <3>1, <3>2, <3>3 DEF IInv, CopiesStay
        <3> QED BY <1>4, <1>5, <3>2, <3>4
            DEF IInv, PublishedIntact, VerifiedTag, bucketVars
    <2> QED BY <1>1, <2>1, <2>2 DEF Outcomes
<1> QED BY <1>1, <1>2, <1>3, <1>4, <1>5, <1>6, <1>7, <1>8

\* The commit of CompleteJob or FailJob opens the cleanup of one worker.
LEMMA SettleStep ==
    ASSUME IInv, NEW w \in Workers, Settle(w)
    PROVE  IInv'
<1> USE DEF Settle, StartCleanup
<1>1. /\ StoreTypeOK' /\ RowsAgree' /\ FinalsVerified' /\ PublishedIntact'
      /\ task[w] \in Uploads /\ verdict[w] \in Outcomes
      /\ Unsettled(task[w]) /\ job'[task[w]].status = verdict[w]
      /\ \A x \in Uploads \ {task[w]} : job'[x] = job[x]
      /\ UNCHANGED assets
    BY SettleKept
<1>2. WorkerTypeOK'
    BY DEF IInv, TypeOK, WorkerTypeOK, WorkerPC, Cleaning
<1>3. /\ pc'[w] = IF verdict[w] = "failed" THEN "cleanCover" ELSE "cleanStaged"
      /\ \A v \in Workers \ {w} : pc'[v] = pc[v]
    BY DEF IInv, TypeOK, WorkerTypeOK
<1>4. ~Closing(w) /\ Closing(w)' /\ ~Done(w)' /\ Active(w)
    BY <1>3 DEF Closing, Done, Active, Cleaning
<1>5. \A v \in Workers \ {w} :
        Active(v)' = Active(v) /\ Closing(v)' = Closing(v) /\ Done(v)' = Done(v)
    BY <1>3 DEF Active, Closing, Done
<1>6. \A v \in Workers : Active(v) \/ Closing(v) => task[v] \in Uploads
    BY DEF IInv, OnTask, Active, Closing, Cleaning
<1>7. \A v \in Workers : Closing(v) => ~Unsettled(task[v]) /\ task[v] # task[w]
    BY <1>1 DEF IInv, ClosesItsOutcome, Unsettled
<1>8. OnTask' /\ VerdictKnown'
    BY <1>1, <1>3, <1>4, <1>5 DEF IInv, OnTask, VerdictKnown
<1>9. ClosesItsOutcome'
    BY <1>1, <1>3, <1>5, <1>6, <1>7 DEF IInv, ClosesItsOutcome
<1>10. LoopDone'
    BY <1>1, <1>3, <1>4, <1>5 DEF IInv, LoopDone, VerifiedTag
<1>11. CopiesStay'
    <2>1. ~Unsettled(task[w])'
        BY <1>1 DEF Unsettled
    <2>2. \A v \in Workers : Active(v)' /\ Unsettled(task[v])' =>
            /\ v # w /\ Active(v) /\ Unsettled(task[v])
            /\ pc'[v] = pc[v] /\ Done(v)' = Done(v)
        BY <1>1, <1>3, <1>5, <1>6, <2>1 DEF Unsettled
    <2> QED BY <1>1, <2>2 DEF IInv, CopiesStay, VerifiedTag, bucketVars
<1>12. OneCloser'
    <2>1. \A o \in Outcomes : notices[task[w]][o] = 0
        BY <1>1 DEF IInv, OneCloser
    <2>2. \A v \in Workers : Closing(v)' => v = w \/ Closing(v)
        BY <1>5
    <2>3. \A u \in Uploads : Unsettled(u)' => Unsettled(u)
        BY <1>1 DEF Unsettled
    <2> QED BY <1>7, <2>1, <2>2, <2>3 DEF IInv, OneCloser
<1>13. NoticeMatchesOutcome'
    <2>1. \A o \in Outcomes : notices[task[w]][o] = 0
        BY <1>1 DEF IInv, OneCloser
    <2> QED BY <1>1, <2>1 DEF IInv, NoticeMatchesOutcome
<1> QED BY <1>1, <1>2, <1>8, <1>9, <1>10, <1>11, <1>12, <1>13 DEF IInv, TypeOK

\* A commit its worker does not learn of is followed by no cleanup.
LEMMA SettleAmbiguousStep ==
    ASSUME IInv, NEW w \in Workers, SettleAmbiguous(w)
    PROVE  IInv'
<1> USE DEF SettleAmbiguous
<1>1. /\ StoreTypeOK' /\ RowsAgree' /\ FinalsVerified' /\ PublishedIntact'
      /\ task[w] \in Uploads /\ verdict[w] \in Outcomes
      /\ Unsettled(task[w]) /\ job'[task[w]].status = verdict[w]
      /\ \A x \in Uploads \ {task[w]} : job'[x] = job[x]
      /\ UNCHANGED assets
    BY SettleKept
<1>2. WorkerTypeOK'
    BY IdleTyped, WorkerAssumption DEF Fault, IInv, TypeOK, WorkerTypeOK
<1>3. Leaves(w)
    BY GoIdleLeaves
<1>4. ~Active(w)' /\ ~Closing(w)' /\ ~Done(w)'
    BY <1>3 DEF Leaves, Active, Closing, Done, Cleaning
<1>5. \A v \in Workers \ {w} :
        Active(v)' = Active(v) /\ Closing(v)' = Closing(v) /\ Done(v)' = Done(v)
    BY <1>3 DEF Leaves, Active, Closing, Done
<1>6. \A v \in Workers : Active(v) \/ Closing(v) => task[v] \in Uploads
    BY DEF IInv, OnTask, Active, Closing, Cleaning
<1>7. \A u \in Uploads : /\ Unsettled(u)' => Unsettled(u)
                         /\ ~Unsettled(u) => job'[u] = job[u]
    BY <1>1 DEF Unsettled
<1>8. OnTask' /\ VerdictKnown' /\ LoopDone'
    BY <1>1, <1>3, <1>4, <1>5
    DEF IInv, OnTask, VerdictKnown, LoopDone, VerifiedTag, Leaves
<1>9. ClosesItsOutcome'
    BY <1>3, <1>4, <1>5, <1>6, <1>7
    DEF IInv, ClosesItsOutcome, Leaves, Unsettled
<1>10. CopiesStay'
    BY <1>1, <1>3, <1>4, <1>5, <1>6, <1>7
    DEF IInv, CopiesStay, VerifiedTag, Leaves, bucketVars
<1>11. OneCloser'
    BY <1>3, <1>4, <1>5, <1>7 DEF IInv, OneCloser, Leaves
<1>12. NoticeMatchesOutcome'
    <2>1. \A o \in Outcomes : notices[task[w]][o] = 0
        BY <1>1 DEF IInv, OneCloser
    <2> QED BY <1>1, <2>1 DEF IInv, NoticeMatchesOutcome
<1> QED BY <1>1, <1>2, <1>8, <1>9, <1>10, <1>11, <1>12 DEF IInv, TypeOK

\* What the invariant says of the rows, when only objects are deleted.
LEMMA CleanupKept ==
    ASSUME IInv, NEW w \in Workers, Closing(w), Closing(w)',
           \A v \in Workers \ {w} : pc'[v] = pc[v],
           UNCHANGED <<rowVars, task, bundle, kind, image, verdict, notices>>,
           \A v \in Workers : v # w => pos'[v] = pos[v],
           pc'[w] # "cleanCover",
           pc'[w] = "cleanFinal" /\ verdict[w] = "completed" => pos'[w] = Image
    PROVE  /\ RowsAgree' /\ OnTask' /\ VerdictKnown' /\ ClosesItsOutcome'
           /\ LoopDone' /\ OneCloser' /\ NoticeMatchesOutcome'
<1>1. \A v \in Workers : /\ Closing(v)' => Closing(v)
                         /\ Done(v)' => Done(v)
                         /\ Active(v)' => Active(v)
                         /\ pc'[v] = pc[v] \/ (v = w /\ pc'[v] \notin Processing
                                        /\ pc'[v] \notin {"return", "settle"})
    BY DEF Closing, Done, Active, Cleaning, Processing
<1>2. RowsAgree'
    BY DEF IInv, RowsAgree, rowVars
<1>3. OnTask'
    BY <1>1 DEF IInv, OnTask, rowVars
<1>4. VerdictKnown'
    BY <1>1 DEF IInv, VerdictKnown
<1>5. ClosesItsOutcome'
    BY <1>1 DEF IInv, ClosesItsOutcome, rowVars
<1>6. LoopDone'
    BY <1>1 DEF IInv, LoopDone, VerifiedTag, Processing, rowVars
<1>7. OneCloser' /\ NoticeMatchesOutcome'
    BY <1>1 DEF IInv, OneCloser, NoticeMatchesOutcome, Unsettled, rowVars
<1> QED BY <1>2, <1>3, <1>4, <1>5, <1>6, <1>7

\* Deleting objects of an upload this worker has settled takes nothing away
\* that a worker still needs or that was published.
LEMMA DeletionKept ==
    ASSUME IInv, NEW w \in Workers, Closing(w), Closing(w)',
           \A v \in Workers \ {w} : pc'[v] = pc[v],
           UNCHANGED <<rowVars, task, kind, verdict>>,
           \A x \in Uploads, k \in Kinds :
                final'[x][k] = final[x][k] \/
                    /\ x = task[w] /\ final'[x][k] = NULL
                    /\ verdict[w] = "completed" => k = Image,
           \A x \in Uploads :
                cover'[x] = cover[x] \/
                    /\ x = task[w] /\ cover'[x] = NULL
                    /\ verdict[w] = "failed"
    PROVE  FinalsVerified' /\ CopiesStay' /\ PublishedIntact'
<1>1. /\ task[w] \in Uploads /\ ~Unsettled(task[w])
      /\ spec[task[w]].status = verdict[w] /\ verdict[w] \in Outcomes
    <2>1. task[w] \in Uploads /\ verdict[w] \in Outcomes
          /\ job[task[w]].status = verdict[w]
        BY DEF IInv, OnTask, ClosesItsOutcome, Active, Closing, Cleaning
    <2> QED BY <2>1 DEF IInv, RowsAgree, Unsettled, Outcomes
<1>2. FinalsVerified'
    BY DEF IInv, FinalsVerified, rowVars
<1>3. PublishedIntact'
    BY <1>1 DEF IInv, PublishedIntact, Outcomes, rowVars
<1>4. CopiesStay'
    <2>1. \A v \in Workers : Active(v)' /\ Unsettled(task[v])' =>
            /\ v # w /\ Active(v) /\ Unsettled(task[v]) /\ task[v] # task[w]
            /\ pc'[v] = pc[v] /\ Done(v)' = Done(v) /\ task[v] \in Uploads
            /\ kind[v] \in Kinds
        BY <1>1 DEF Active, Done, Unsettled, IInv, OnTask, TypeOK,
                    WorkerTypeOK, rowVars
    <2>2. \A x \in Uploads \ {task[w]} :
            /\ \A k \in Kinds : final'[x][k] = final[x][k]
            /\ cover'[x] = cover[x]
        OBVIOUS
    <2>3. \A v \in Workers : Active(v)' /\ Unsettled(task[v])' =>
            /\ \A k \in Kinds : final'[task'[v]][k] = final[task[v]][k]
            /\ cover'[task'[v]] = cover[task[v]]
            /\ final'[task'[v]][kind'[v]] = final[task[v]][kind[v]]
        BY <2>1, <2>2
    <2> QED BY <2>1, <2>3 DEF IInv, CopiesStay, VerifiedTag, rowVars
<1> QED BY <1>2, <1>3, <1>4

\* Cleanup stays within the kinds and moves on or ends.
LEMMA NextKeyTyped ==
    ASSUME WorkerTypeOK, NEW w \in Workers, NextKey(w)
    PROVE  /\ \/ UNCHANGED pos
              \/ \E k \in Kinds : pos' = [pos EXCEPT ![w] = k]
           /\ \E label \in {"cleanStaged", "notify"} :
                    pc' = [pc EXCEPT ![w] = label]
<1>1. pos[w] \in 1..NumKinds /\ kind[w] \in 1..NumKinds
    BY DEF WorkerTypeOK, Kinds
<1>2. ~LastKey(w) => pos[w] + 1 \in Kinds
    BY <1>1, StoreAssumption DEF LastKey, Kinds
<1> QED BY <1>2 DEF NextKey

\* The cover is deleted only after the committed failure.
LEMMA CleanCoverStep ==
    ASSUME IInv, NEW w \in Workers, CleanCover(w)
    PROVE  IInv'
<1> USE DEF CleanCover
<1>1. Closing(w) /\ task[w] \in Uploads /\ verdict[w] = "failed"
    BY DEF Closing, Cleaning, IInv, OnTask, Active, ClosesItsOutcome
<1>2. pc'[w] = "cleanStaged" /\ \A v \in Workers \ {w} : pc'[v] = pc[v]
    BY DEF IInv, TypeOK, WorkerTypeOK
<1>3. Closing(w)'
    BY <1>2 DEF Closing, Cleaning
<1>4. WorkerTypeOK'
    BY MoveTyped DEF IInv, TypeOK, WorkerTypeOK, WorkerPC, Cleaning
<1>5. StoreTypeOK'
    BY <1>1, BucketTyped, KindsAreNaturals DEF DeleteCover, Object, IInv, TypeOK
<1>6. /\ RowsAgree' /\ OnTask' /\ VerdictKnown' /\ ClosesItsOutcome'
      /\ LoopDone' /\ OneCloser' /\ NoticeMatchesOutcome'
    BY <1>1, <1>2, <1>3, CleanupKept
<1>7. \A x \in Uploads : cover'[x] = cover[x] \/ (x = task[w] /\ cover'[x] = NULL)
    BY DEF DeleteCover, bucketVars, IInv, TypeOK, StoreTypeOK
<1>8. UNCHANGED final
    BY DEF DeleteCover, bucketVars
<1>9. FinalsVerified' /\ CopiesStay' /\ PublishedIntact'
    BY <1>1, <1>2, <1>3, <1>7, <1>8, DeletionKept
<1> QED BY <1>4, <1>5, <1>6, <1>9 DEF IInv, TypeOK

\* Deleting staged objects touches nothing published.
LEMMA CleanStagedStep ==
    ASSUME IInv, NEW w \in Workers, CleanStaged(w)
    PROVE  IInv'
<1> USE DEF CleanStaged
<1>1. Closing(w) /\ task[w] \in Uploads
    BY DEF Closing, Cleaning, IInv, OnTask, Active
<1>2. PICK label \in {"cleanStaged", "cleanFinal", "notify"} :
        pc' = [pc EXCEPT ![w] = label]
    BY NextKeyTyped DEF IInv, TypeOK
<1>3. UNCHANGED pos \/ \E k \in Kinds : pos' = [pos EXCEPT ![w] = k]
    BY NextKeyTyped DEF IInv, TypeOK
<1>4. pc'[w] = label /\ \A v \in Workers \ {w} : pc'[v] = pc[v]
    BY <1>2 DEF IInv, TypeOK, WorkerTypeOK
<1>5. Closing(w)'
    BY <1>4 DEF Closing, Cleaning
<1>6. \A v \in Workers : v # w => pos'[v] = pos[v]
    BY <1>3 DEF IInv, TypeOK, WorkerTypeOK
<1>7. label = "cleanFinal" /\ verdict[w] = "completed" => pos'[w] = Image
    <2>1. CASE CleansFinal(w)
        BY <2>1 DEF CleansFinal
    <2>2. CASE ~CleansFinal(w)
        BY <1>4, <2>2, NextKeyTyped DEF NextKey, IInv, TypeOK, WorkerTypeOK
    <2> QED BY <2>1, <2>2
<1>8. WorkerTypeOK'
    BY <1>2, <1>3, MoveTyped DEF IInv, TypeOK, WorkerTypeOK, WorkerPC, Cleaning
<1>9. StoreTypeOK'
    <2>1. pos[w] \in Kinds /\ bundle[w][pos[w]].attempt \in Attempts \cup {0}
        BY StoreAssumption
        DEF IInv, TypeOK, WorkerTypeOK, AssetRow, Attempts
    <2>2. UNCHANGED rowVars /\ StoreTypeOK /\ NULL \in Object
        BY DEF IInv, TypeOK, Object
    <2>3. CASE UNCHANGED bucketVars
        BY <1>1, <2>1, <2>2, <2>3, BucketTyped
    <2>4. CASE DeleteStaged(task[w], pos[w], bundle[w][pos[w]].attempt)
        BY <1>1, <2>1, <2>2, <2>4, BucketTyped DEF DeleteStaged
    <2> QED BY <2>3, <2>4
<1>10. /\ RowsAgree' /\ OnTask' /\ VerdictKnown' /\ ClosesItsOutcome'
       /\ LoopDone' /\ OneCloser' /\ NoticeMatchesOutcome'
    BY <1>1, <1>4, <1>5, <1>6, <1>7, CleanupKept
<1>11. UNCHANGED <<final, cover>>
    BY DEF DeleteStaged, bucketVars
<1>12. FinalsVerified' /\ CopiesStay' /\ PublishedIntact'
    BY <1>1, <1>4, <1>5, <1>11, DeletionKept
<1> QED BY <1>8, <1>9, <1>10, <1>12 DEF IInv, TypeOK

\* Final objects go after a failure, the cover source after a success.
LEMMA CleanFinalStep ==
    ASSUME IInv, NEW w \in Workers, CleanFinal(w)
    PROVE  IInv'
<1> USE DEF CleanFinal
<1>1. Closing(w) /\ task[w] \in Uploads /\ pos[w] \in Kinds
      /\ (verdict[w] = "completed" => pos[w] = Image)
    BY DEF Closing, Cleaning, IInv, OnTask, Active, ClosesItsOutcome, TypeOK,
           WorkerTypeOK
<1>2. PICK label \in {"cleanStaged", "notify"} :
        pc' = [pc EXCEPT ![w] = label]
    BY NextKeyTyped DEF IInv, TypeOK
<1>3. UNCHANGED pos \/ \E k \in Kinds : pos' = [pos EXCEPT ![w] = k]
    BY NextKeyTyped DEF IInv, TypeOK
<1>4. pc'[w] = label /\ \A v \in Workers \ {w} : pc'[v] = pc[v]
    BY <1>2 DEF IInv, TypeOK, WorkerTypeOK
<1>5. Closing(w)'
    BY <1>4 DEF Closing, Cleaning
<1>6. \A v \in Workers : v # w => pos'[v] = pos[v]
    BY <1>3 DEF IInv, TypeOK, WorkerTypeOK
<1>7. WorkerTypeOK'
    BY <1>2, <1>3, MoveTyped DEF IInv, TypeOK, WorkerTypeOK, WorkerPC, Cleaning
<1>8. StoreTypeOK'
    BY <1>1, BucketTyped DEF DeleteFinal, Object, IInv, TypeOK
<1>9. /\ RowsAgree' /\ OnTask' /\ VerdictKnown' /\ ClosesItsOutcome'
      /\ LoopDone' /\ OneCloser' /\ NoticeMatchesOutcome'
    BY <1>1, <1>4, <1>5, <1>6, CleanupKept
<1>10. \A x \in Uploads, k \in Kinds :
        final'[x][k] = final[x][k] \/
            /\ x = task[w] /\ final'[x][k] = NULL
            /\ verdict[w] = "completed" => k = Image
    <2>1. CASE UNCHANGED bucketVars
        BY <2>1 DEF bucketVars
    <2>2. CASE DeleteFinal(task[w], pos[w])
        <3>1. final' = [final EXCEPT ![task[w]][pos[w]] = NULL]
            BY <2>2 DEF DeleteFinal
        <3> QED BY <1>1, <3>1 DEF IInv, TypeOK, StoreTypeOK
    <2> QED BY <2>1, <2>2
<1>11. UNCHANGED cover
    BY DEF DeleteFinal, bucketVars
<1>12. FinalsVerified' /\ CopiesStay' /\ PublishedIntact'
    BY <1>1, <1>4, <1>5, <1>10, <1>11, DeletionKept
<1> QED BY <1>7, <1>8, <1>9, <1>12 DEF IInv, TypeOK

\* The only notification of an upload tells its committed outcome.
LEMMA NotifyStep ==
    ASSUME IInv, NEW w \in Workers, Notify(w)
    PROVE  IInv'
<1> USE DEF Notify
<1>1. /\ Closing(w) /\ task[w] \in Uploads /\ verdict[w] \in Outcomes
      /\ job[task[w]].status = verdict[w]
      /\ \A o \in Outcomes : notices[task[w]][o] = 0
    BY DEF Closing, IInv, OnTask, Active, ClosesItsOutcome, OneCloser
<1>2. /\ \A u \in Uploads, o \in Outcomes :
            \/ notices'[u][o] = notices[u][o]
            \/ u = task[w] /\ o = verdict[w] /\ notices'[u][o] = 1
      /\ notices' \in [Uploads -> [Outcomes -> Nat]]
    <2>1. notices \in [Uploads -> [Outcomes -> Nat]]
        BY DEF IInv, TypeOK, WorkerTypeOK
    <2>2. CASE UNCHANGED notices
        BY <2>1, <2>2
    <2>3. CASE notices' = [notices EXCEPT ![task[w]][verdict[w]] = @ + 1]
        <3>1. notices' = [notices EXCEPT ![task[w]] =
                            [notices[task[w]] EXCEPT ![verdict[w]] = 1]]
            <4>1. notices' = [notices EXCEPT ![task[w]] =
                    [notices[task[w]] EXCEPT
                        ![verdict[w]] = notices[task[w]][verdict[w]] + 1]]
                BY <2>3
            <4>2. notices[task[w]][verdict[w]] + 1 = 1
                BY <1>1
            <4> QED BY <4>1, <4>2
        <3>2. [notices[task[w]] EXCEPT ![verdict[w]] = 1] \in [Outcomes -> Nat]
            BY <1>1, <2>1
        <3>3. notices' \in [Uploads -> [Outcomes -> Nat]]
            BY <1>1, <2>1, <3>1, <3>2
        <3>4. \A u \in Uploads \ {task[w]} : notices'[u] = notices[u]
            BY <2>1, <3>1
        <3>5. \A o \in Outcomes : notices'[task[w]][o] =
                IF o = verdict[w] THEN 1 ELSE notices[task[w]][o]
            BY <1>1, <2>1, <3>1
        <3> QED BY <3>3, <3>4, <3>5
    <2> QED BY <2>2, <2>3
<1>3. WorkerTypeOK'
    BY <1>2, IdleTyped DEF IInv, TypeOK, WorkerTypeOK
<1>4. StoreTypeOK' /\ RowsAgree' /\ FinalsVerified' /\ PublishedIntact'
    BY StoreKept
<1>5. Leaves(w)
    BY GoIdleLeaves
<1>6. OnTask' /\ VerdictKnown' /\ ClosesItsOutcome' /\ LoopDone' /\ CopiesStay'
    BY <1>5, LeaverKept DEF storeVars, rowVars
<1>7. \A v \in Workers : Closing(v)' =>
        /\ v # w /\ Closing(v) /\ task'[v] = task[v] /\ task[v] # task[w]
        /\ task[v] \in Uploads
    BY <1>1, <1>5
    DEF Leaves, Closing, Cleaning, IInv, OneCloser, OnTask, Active
<1>8. \A u \in Uploads : Unsettled(u)' => Unsettled(u) /\ u # task[w]
    BY <1>1 DEF Unsettled, storeVars, rowVars
<1>9. OneCloser'
    BY <1>2, <1>7, <1>8 DEF IInv, OneCloser
<1>10. NoticeMatchesOutcome'
    BY <1>1, <1>2 DEF IInv, NoticeMatchesOutcome, storeVars, rowVars
<1> QED BY <1>3, <1>4, <1>6, <1>9, <1>10 DEF IInv, TypeOK

(***************************************************************************)
(* The theorems.                                                           *)
(***************************************************************************)

\* The invariant holds of the uploads the pool starts from.
LEMMA InitHolds == WorkerInit => IInv
<1> SUFFICES ASSUME WorkerInit PROVE IInv
    OBVIOUS
<1>1. TypeOK
    BY InitTyped
<1>2. /\ \A u \in Uploads : /\ \/ /\ session[u] = "queued"
                                  /\ spec[u].status = "processing"
                                  /\ job[u].status = "queued"
                               \/ /\ session[u] = "uploading"
                                  /\ spec[u].status = "none"
                                  /\ job[u].status = "none"
                            /\ cover[u] = NULL
                            /\ \A k \in Kinds : final[u][k] = NULL
                            /\ \A o \in Outcomes : notices[u][o] = 0
      /\ \A w \in Workers : pc[w] = "idle"
    BY DEF WorkerInit, WorkerStart, NoJob, NoSpec
<1>3. \A w \in Workers : ~Active(w) /\ ~Closing(w) /\ ~Done(w)
    BY <1>2 DEF Active, Closing, Done, Cleaning
<1>4. RowsAgree
    BY <1>2 DEF RowsAgree, Outcomes
<1>5. FinalsVerified /\ PublishedIntact /\ NoticeMatchesOutcome
    BY <1>2 DEF FinalsVerified, PublishedIntact, NoticeMatchesOutcome
<1>6. OnTask /\ ClosesItsOutcome /\ CopiesStay
    BY <1>3 DEF OnTask, ClosesItsOutcome, CopiesStay
<1>7. VerdictKnown /\ LoopDone
    BY <1>2, <1>3 DEF VerdictKnown, LoopDone
<1>8. OneCloser
    BY <1>2, <1>3 DEF OneCloser
<1> QED BY <1>1, <1>4, <1>5, <1>6, <1>7, <1>8 DEF IInv

\* Every step of the pool keeps the invariant.
LEMMA StepHolds == IInv /\ [WorkerNext]_vars => IInv'
<1> SUFFICES ASSUME IInv, [WorkerNext]_vars PROVE IInv'
    OBVIOUS
<1>1. CASE UNCHANGED vars
    BY <1>1, BookkeepingKept
    DEF vars, workerVars, storeVars, IInv, TypeOK, WorkerTypeOK
<1>2. ASSUME NEW w \in Workers, Work(w) PROVE IInv'
    BY <1>2, ClaimStep, CheckSourceStep, CopySourceStep, CompareCopyStep,
       ReadCoverStep, WriteCoverStep, ValidateStep, CanceledByHeartbeatStep,
       JoinHeartbeatStep, SettleStep, SettleFencedStep, CleanCoverStep,
       CleanStagedStep, CleanFinalStep, NotifyStep
    DEF Work
<1>3. ASSUME NEW w \in Workers, Mishap(w) PROVE IInv'
    BY <1>3, StorageErrorStep, ContextErrorStep, HeartbeatErrorStep,
       SettleAmbiguousStep, SettleErrorStep, CrashStep
    DEF Mishap
<1>4. ASSUME NEW w \in Workers,
             ExpireSweep(w) \/ RequeueSweep(w) \/ Heartbeat(w)
      PROVE  IInv'
    BY <1>4, ExpireSweepStep, RequeueSweepStep, HeartbeatStep
<1>5. ASSUME NEW u \in Uploads, LeaseLapses(u) PROVE IInv'
    BY <1>5, LeaseLapsesStep
<1>6. ASSUME NEW u \in Uploads, NEW k \in Kinds, NEW n \in Attempts,
             NEW c \in Contents, ClientOverwrites(u, k, n, c)
      PROVE  IInv'
    BY <1>6, ClientOverwritesStep
<1> QED BY <1>1, <1>2, <1>3, <1>4, <1>5, <1>6 DEF WorkerNext

\* The inductive invariant: what busy and closing workers know of the rows
\* and objects of their upload, whatever the other workers are doing.
THEOREM Invariant == WorkerSpec => []IInv
<1>1. WorkerInit => IInv
    BY InitHolds
<1>2. IInv /\ [WorkerNext]_vars => IInv'
    BY StepHolds
<1> QED BY <1>1, <1>2, PTL DEF WorkerSpec

\* Every variable of the rows, the bucket and the workers keeps its type.
THEOREM TypeCorrect == WorkerSpec => []TypeOK
BY Invariant, PTL DEF IInv

\* Session, spec and job of an upload tell one story after every transaction.
THEOREM RowsAlwaysAgree == WorkerSpec => []RowsAgree
BY Invariant, PTL DEF IInv

\* Nothing but the verified contents is ever at a final key.
THEOREM FinalsAlwaysVerified == WorkerSpec => []FinalsVerified
BY Invariant, PTL DEF IInv

\* A live spec keeps serving the contents that were verified for it.
THEOREM PublishedStaysIntact == WorkerSpec => []PublishedIntact
BY Invariant, PTL DEF IInv

\* A producer is told the outcome of an upload at most once, and truly.
THEOREM NoticesTellTheOutcome == WorkerSpec => []NoticeMatchesOutcome
BY Invariant, PTL DEF IInv

\* Busy workers are on an upload.
OnUploads == \A w \in Workers : Active(w) => task[w] \in Uploads

\* The job rows a step may write.
LEMMA JobWrites ==
    ASSUME TypeOK, OnUploads, WorkerNext, NEW u \in Uploads,
           job'[u].status # job[u].status
    PROVE  \E w \in Workers : \/ RequeueSweep(w) \/ Claim(w)
                              \/ Settle(w) \/ SettleAmbiguous(w)
<1>1. ASSUME NEW w \in Workers, Work(w) PROVE Claim(w) \/ Settle(w)
    BY <1>1
    DEF Work, CheckSource, CopySource, CompareCopy, ReadCover, WriteCover,
        Validate, CanceledByHeartbeat, JoinHeartbeat, SettleFenced, CleanCover,
        CleanStaged, CleanFinal, Notify, storeVars, rowVars
<1>2. ASSUME NEW w \in Workers, Mishap(w) PROVE SettleAmbiguous(w)
    BY <1>2
    DEF Mishap, StorageError, ContextError, HeartbeatError, SettleError, Crash,
        storeVars, rowVars
<1>3. ASSUME NEW w \in Workers, ExpireSweep(w) \/ Heartbeat(w) PROVE FALSE
    <2>1. CASE ExpireSweep(w)
        BY <2>1 DEF ExpireSweep, ExpireUploadSessions
    <2>2. CASE Heartbeat(w)
        <3>1. task[w] \in Uploads
            BY <2>2 DEF Heartbeat, Processing, OnUploads, Active
        <3>2. job'[u].status = job[u].status
            <4>1. CASE HoldsLease(task[w], w)
                <5>1. job' = [job EXCEPT ![task[w]] =
                                [job[task[w]] EXCEPT !.lease = "fresh"]]
                    BY <2>2, <4>1 DEF Heartbeat, HeartbeatJob
                <5> QED BY <3>1, <5>1 DEF TypeOK, StoreTypeOK, JobRow
            <4>2. CASE ~HoldsLease(task[w], w)
                BY <2>2, <4>2 DEF Heartbeat, rowVars
            <4> QED BY <4>1, <4>2
        <3> QED BY <3>2
    <2> QED BY <1>3, <2>1, <2>2
<1>4. ASSUME NEW x \in Uploads, LeaseLapses(x) PROVE FALSE
    BY <1>4 DEF LeaseLapses, TypeOK, StoreTypeOK, JobRow
<1>5. ASSUME NEW x \in Uploads, NEW k \in Kinds, NEW n \in Attempts,
             NEW c \in Contents, ClientOverwrites(x, k, n, c)
      PROVE  FALSE
    BY <1>5 DEF ClientOverwrites, ClientPut, rowVars
<1> QED BY <1>1, <1>2, <1>3, <1>4, <1>5 DEF WorkerNext

\* The step in which the job of an upload changes hands or is settled.
HolderSettles(u) ==
    /\ job[u].status \notin Outcomes
    /\ job'[u].status \in Outcomes =>
        \E w \in Workers : /\ pc[w] = "settle" /\ pc'[w] # "settle"
                           /\ task[w] = u
                           /\ job[u] = [job[u] EXCEPT !.worker = w,
                                           !.status = "processing"]

\* The fence at work, whoever else changes the rows.
LEMMA FencedStep ==
    ASSUME TypeOK, OnUploads, WorkerNext, NEW u \in Uploads,
           job'[u].status # job[u].status
    PROVE  HolderSettles(u)
<1> USE DEF HolderSettles
<1>1. PICK w \in Workers : \/ RequeueSweep(w) \/ Claim(w)
                           \/ Settle(w) \/ SettleAmbiguous(w)
    BY JobWrites
<1>2. CASE RequeueSweep(w)
    BY <1>2 DEF RequeueSweep, RequeueStaleJobs, Stale, NoJob, Outcomes
<1>3. CASE Claim(w)
    <2>1. PICK x \in Uploads : ClaimNextJob(x, w)
        BY <1>3 DEF Claim
    <2> QED BY <2>1 DEF ClaimNextJob, Outcomes, TypeOK, StoreTypeOK
<1>4. ASSUME pc[w] = "settle", pc'[w] # "settle",
             SettleJob(task[w], w, verdict[w])
      PROVE  HolderSettles(u)
    <2>1. task[w] = u
        BY <1>4 DEF SettleJob, OnUploads, Active, TypeOK, StoreTypeOK
    <2>2. job[u].status = "processing" /\ job[u].worker = w
        BY <1>4, <2>1 DEF SettleJob, HoldsLease
    <2>3. job[u] \in JobRow
        BY DEF TypeOK, StoreTypeOK
    <2>4. job[u] = [job[u] EXCEPT !.worker = w, !.status = "processing"]
        BY <2>2, <2>3 DEF JobRow
    <2> QED BY <1>4, <2>1, <2>2, <2>4 DEF Outcomes
<1>5. CASE Settle(w)
    <2>1. pc'[w] # "settle"
        BY <1>5 DEF Settle, StartCleanup, TypeOK, WorkerTypeOK
    <2> QED BY <1>4, <1>5, <2>1 DEF Settle
<1>6. CASE SettleAmbiguous(w)
    <2>1. pc'[w] # "settle"
        BY <1>6 DEF SettleAmbiguous, GoIdle, TypeOK, WorkerTypeOK
    <2> QED BY <1>4, <1>6, <2>1 DEF SettleAmbiguous
<1> QED BY <1>1, <1>2, <1>3, <1>5, <1>6

\* The fence at work: an outcome is written by the worker on the lease, and
\* a settled job is never touched again.
THEOREM OnlyTheHolderSettles == WorkerSpec => SettledByHolder
<1> DEFINE Fenced == \A u \in Uploads :
                        job'[u].status # job[u].status => HolderSettles(u)
<1>1. IInv /\ [WorkerNext]_vars => [Fenced]_vars
    BY FencedStep DEF IInv, OnTask, OnUploads
<1> QED BY <1>1, Invariant, PTL DEF WorkerSpec, SettledByHolder, HolderSettles

(***************************************************************************)
(* The pool implements UploadLifecycle.                                    *)
(***************************************************************************)

\* The phase follows from the rows, now ...
LEMMA PhaseShown ==
    ASSUME NEW u \in Uploads
    PROVE  /\ spec[u].status = "none" =>
                PhaseOf(u) = IF session[u] = "expired" THEN "lapsed" ELSE "draft"
           /\ spec[u].status = "processing" => PhaseOf(u) = "accepted"
           /\ spec[u].status = "completed" => PhaseOf(u) = "live"
           /\ spec[u].status = "failed" => PhaseOf(u) = "rejected"
BY DEF PhaseOf

\* ... and after the step.
LEMMA PhaseShownNext ==
    ASSUME NEW u \in Uploads
    PROVE  /\ spec'[u].status = "none" =>
                PhaseOf(u)' = IF session'[u] = "expired" THEN "lapsed" ELSE "draft"
           /\ spec'[u].status = "processing" => PhaseOf(u)' = "accepted"
           /\ spec'[u].status = "completed" => PhaseOf(u)' = "live"
           /\ spec'[u].status = "failed" => PhaseOf(u)' = "rejected"
BY DEF PhaseOf

\* What a listener gets is the accepted bundle or nothing, now ...
LEMMA BundleShown ==
    ASSUME IInv, NEW u \in Uploads
    PROVE  ShownOf(u) = IF spec[u].status = "completed" THEN AcceptedOf(u)
                        ELSE [k \in Kinds |-> NULL]
<1>1. spec[u].status = "completed" =>
        /\ cover[u] = assets[u][Image].etag
        /\ \A k \in Kinds \ {Image} : final[u][k] = assets[u][k].etag
    BY DEF IInv, PublishedIntact
<1> QED BY <1>1 DEF ShownOf, AcceptedOf

\* ... and after the step.
LEMMA BundleShownNext ==
    ASSUME IInv', NEW u \in Uploads
    PROVE  ShownOf(u)' = IF spec'[u].status = "completed" THEN AcceptedOf(u)'
                         ELSE [k \in Kinds |-> NULL]
<1>1. spec'[u].status = "completed" =>
        /\ cover'[u] = assets'[u][Image].etag
        /\ \A k \in Kinds \ {Image} : final'[u][k] = assets'[u][k].etag
    BY DEF IInv, PublishedIntact
<1> QED BY <1>1 DEF ShownOf, AcceptedOf

\* Uploads start accepted, with verified contents, or as drafts.
LEMMA InitImplements == ASSUME WorkerInit PROVE Lifecycle!Init
<1> USE StoreAssumption, KindsAreNaturals
<1>1. PICK etags \in [Uploads -> [Kinds -> Acceptable]],
           forms \in [Uploads -> Metadata], late \in [Uploads -> BOOLEAN] :
        WorkerInit!(etags, forms, late)
    BY DEF WorkerInit
<1>2. \A u \in Uploads : PhaseOf(u) = IF late[u] THEN "draft" ELSE "accepted"
    BY <1>1, PhaseShown DEF NoSpec
<1>3. \A u \in Uploads : AcceptedOf(u) =
            IF late[u] THEN [k \in Kinds |-> NULL] ELSE etags[u]
    BY <1>1 DEF AcceptedOf, NoSpec
<1>4. \A u \in Uploads : ShownOf(u) = [k \in Kinds |-> NULL]
    BY <1>1 DEF ShownOf, NoSpec
<1>5. \A u \in Uploads : etags[u] # [k \in Kinds |-> NULL]
    <2>1. \A u \in Uploads : etags[u][Image] \in Acceptable
        OBVIOUS
    <2> QED BY <2>1
<1> QED BY <1>1, <1>2, <1>3, <1>4, <1>5
        DEF Lifecycle!Init, Lifecycle!Nothing

\* The step changes no phase and no bundle: a stutter of the lifecycle.
LEMMA Stutters ==
    ASSUME IInv, IInv',
           \A u \in Uploads :
                /\ spec'[u].status = spec[u].status
                /\ spec[u].status = "none" =>
                        (session'[u] = "expired" <=> session[u] = "expired")
                /\ spec[u].status # "none" => assets'[u] = assets[u]
    PROVE  UNCHANGED Lifecycle!lifecycleVars
<1>1. \A u \in Uploads : PhaseOf(u)' = PhaseOf(u)
    <2>1. \A u \in Uploads : spec[u].status \in SpecStatus
        BY DEF IInv, TypeOK, StoreTypeOK, SpecRow
    <2> QED BY <2>1, PhaseShown, PhaseShownNext DEF SpecStatus
<1>2. \A u \in Uploads : AcceptedOf(u)' = AcceptedOf(u)
    BY DEF AcceptedOf
<1>3. \A u \in Uploads : ShownOf(u)' = ShownOf(u)
    BY <1>2, BundleShown, BundleShownNext
<1> QED BY <1>1, <1>2, <1>3 DEF Lifecycle!lifecycleVars

\* The sweep lapses the drafts it expires.
LEMMA ExpiryLapses ==
    ASSUME IInv, IInv', NEW w \in Workers, ExpireSweep(w)
    PROVE  Lifecycle!Lapse(Abandoned)
<1>1. /\ UNCHANGED <<assets, spec>>
      /\ \A u \in Uploads : session'[u] = IF u \in Abandoned THEN "expired"
                                          ELSE session[u]
    BY DEF ExpireSweep, ExpireUploadSessions
<1>2. \A u \in Abandoned : u \in Uploads /\ session[u] = "uploading"
                           /\ spec[u].status = "none"
    BY DEF Abandoned, IInv, RowsAgree
<1>3. \A u \in Abandoned : PhaseOf(u) = "draft"
    BY <1>2, PhaseShown
<1>4. \A u \in Uploads : PhaseOf(u)' = IF u \in Abandoned THEN "lapsed"
                                       ELSE PhaseOf(u)
    <2>1. \A u \in Uploads : spec[u].status \in SpecStatus
        BY DEF IInv, TypeOK, StoreTypeOK, SpecRow
    <2> QED BY <1>1, <1>2, <2>1, PhaseShown, PhaseShownNext DEF SpecStatus
<1>5. \A u \in Uploads : AcceptedOf(u)' = AcceptedOf(u)
    BY <1>1 DEF AcceptedOf
<1>6. \A u \in Uploads : ShownOf(u)' = ShownOf(u)
    BY <1>1, <1>5, BundleShown, BundleShownNext
<1>7. Abandoned \subseteq Uploads
    BY DEF Abandoned
<1> QED BY <1>3, <1>4, <1>5, <1>6, <1>7 DEF Lifecycle!Lapse

\* The fenced transaction publishes what the attempt found playable, or
\* rejects the upload.
LEMMA SettlingPublishes ==
    ASSUME IInv, IInv', NEW w \in Workers, pc[w] = "settle",
           SettleJob(task[w], w, verdict[w])
    PROVE  \/ Lifecycle!Publish(task[w])
           \/ Lifecycle!Reject(task[w])
<1>0. PICK u \in Uploads : u = task[w]
    BY DEF IInv, OnTask, Active
<1>1. u \in Uploads /\ verdict[w] \in Outcomes
    BY DEF IInv, VerdictKnown
<1>2. spec \in [Uploads -> SpecRow] /\ spec[u].status = "processing"
    BY <1>0, <1>1 DEF IInv, TypeOK, StoreTypeOK, RowsAgree, SettleJob, HoldsLease, Outcomes
<1>3. /\ spec' = [spec EXCEPT ![u].status = verdict[w]]
      /\ session' = [session EXCEPT ![u] = verdict[w]]
      /\ UNCHANGED assets
    BY <1>0 DEF SettleJob
<1>4. \A v \in Uploads : spec'[v].status = IF v = u THEN verdict[w] ELSE spec[v].status
    BY <1>1, <1>2, <1>3 DEF SpecRow
<1>5. \A v \in Uploads \ {u} : session'[v] = session[v]
    BY <1>1, <1>3 DEF IInv, TypeOK, StoreTypeOK
<1>6. PhaseOf(u) = "accepted" /\ \A v \in Uploads \ {u} : PhaseOf(v)' = PhaseOf(v)
    <2>1. \A v \in Uploads : spec[v].status \in SpecStatus
        BY DEF IInv, TypeOK, StoreTypeOK, SpecRow
    <2> QED BY <1>1, <1>2, <1>4, <1>5, <2>1, PhaseShown, PhaseShownNext
            DEF SpecStatus
<1>7. PhaseOf(u)' = IF verdict[w] = "completed" THEN "live" ELSE "rejected"
    BY <1>1, <1>4, PhaseShownNext DEF Outcomes
<1>8. \A v \in Uploads : AcceptedOf(v)' = AcceptedOf(v)
    BY <1>1, <1>2, <1>3, <1>4 DEF AcceptedOf, Outcomes
<1>9. \A v \in Uploads : ShownOf(v)' =
            IF v = u /\ verdict[w] = "completed" THEN AcceptedOf(v) ELSE ShownOf(v)
    BY <1>1, <1>2, <1>4, <1>8, BundleShown, BundleShownNext DEF Outcomes
<1>10. CASE verdict[w] = "completed"
    <2>1. \A k \in Kinds : AcceptedOf(u)[k] \in Playable
        BY <1>0, <1>2, <1>10 DEF IInv, LoopDone, Done, VerifiedTag, AcceptedOf
    <2> QED BY <1>0, <1>1, <1>6, <1>7, <1>8, <1>9, <1>10, <2>1 DEF Lifecycle!Publish
<1>11. CASE verdict[w] = "failed"
    BY <1>0, <1>1, <1>6, <1>7, <1>8, <1>9, <1>11 DEF Lifecycle!Reject
<1> QED BY <1>1, <1>10, <1>11 DEF Outcomes

\* Every other step leaves spec and assets alone, and expires nothing.
LEMMA StepImplements ==
    ASSUME IInv, IInv', [WorkerNext]_vars
    PROVE  [Lifecycle!Next]_(Lifecycle!lifecycleVars)
<1> DEFINE Quiet ==
        /\ UNCHANGED assets
        /\ \A u \in Uploads : /\ spec'[u].status = spec[u].status
                              /\ spec[u].status = "none" =>
                                    (session'[u] = "expired" <=> session[u] = "expired")
<1>1. Quiet => UNCHANGED Lifecycle!lifecycleVars
    BY Stutters
<1>2. UNCHANGED <<session, assets, spec>> => Quiet
    OBVIOUS
<1> HIDE DEF Quiet
<1> USE DEF storeVars, rowVars
<1>3. ASSUME NEW w \in Workers, ExpireSweep(w) PROVE Lifecycle!Next
    <2>1. Abandoned \in SUBSET Uploads
        BY DEF Abandoned
    <2> QED BY <1>3, <2>1, ExpiryLapses DEF Lifecycle!Next
<1>4. ASSUME NEW w \in Workers, RequeueSweep(w) PROVE Quiet
    <2>1. \A u \in Stale : spec[u].status # "none"
        BY DEF Stale, IInv, RowsAgree
    <2> QED BY <1>4, <2>1 DEF Quiet, RequeueSweep, RequeueStaleJobs
<1>5. ASSUME NEW w \in Workers, Work(w) PROVE Quiet \/ Lifecycle!Next
    <2>1. CASE Claim(w)
        <3>1. PICK u \in Uploads : ClaimNextJob(u, w)
            BY <2>1 DEF Claim
        <3>2. spec[u].status # "none"
            BY <3>1 DEF ClaimNextJob, IInv, RowsAgree
        <3> QED BY <3>1, <3>2 DEF Quiet, ClaimNextJob, IInv, TypeOK, StoreTypeOK
    <2>2. CASE Settle(w)
        <3>1. task[w] \in Uploads
            BY <2>2 DEF Settle, IInv, OnTask, Active
        <3> QED BY <2>2, <3>1, SettlingPublishes DEF Settle, Lifecycle!Next
    <2>3. CASE CheckSource(w) \/ CompareCopy(w) \/ ReadCover(w) \/ Validate(w)
               \/ CanceledByHeartbeat(w) \/ JoinHeartbeat(w)
        BY <1>2, <2>3 DEF CheckSource, CompareCopy, ReadCover, Validate,
                          CanceledByHeartbeat, JoinHeartbeat
    <2>4. CASE CopySource(w) \/ WriteCover(w) \/ CleanCover(w) \/ CleanStaged(w)
               \/ CleanFinal(w)
        BY <1>2, <2>4 DEF CopySource, WriteCover, CleanCover, CleanStaged, CleanFinal
    <2>5. CASE SettleFenced(w) \/ Notify(w)
        BY <1>2, <2>5 DEF SettleFenced, Notify
    <2> QED BY <1>5, <2>1, <2>2, <2>3, <2>4, <2>5 DEF Work
<1>6. ASSUME NEW w \in Workers, Heartbeat(w) PROVE Quiet
    BY <1>2, <1>6 DEF Heartbeat, HeartbeatJob
<1>7. ASSUME NEW w \in Workers, Mishap(w) PROVE Quiet \/ Lifecycle!Next
    <2>1. CASE SettleAmbiguous(w)
        <3>1. task[w] \in Uploads
            BY <2>1 DEF SettleAmbiguous, IInv, OnTask, Active
        <3> QED BY <2>1, <3>1, SettlingPublishes DEF SettleAmbiguous, Lifecycle!Next
    <2>2. CASE StorageError(w) \/ ContextError(w) \/ HeartbeatError(w)
               \/ SettleError(w) \/ Crash(w)
        BY <1>2, <2>2 DEF StorageError, ContextError, HeartbeatError, SettleError,
                          Crash
    <2> QED BY <1>7, <2>1, <2>2 DEF Mishap
<1>8. ASSUME NEW u \in Uploads, LeaseLapses(u) PROVE Quiet
    BY <1>2, <1>8 DEF LeaseLapses
<1>9. ASSUME NEW u \in Uploads, NEW k \in Kinds, NEW n \in Attempts,
             NEW c \in Contents, ClientOverwrites(u, k, n, c)
      PROVE  Quiet
    BY <1>2, <1>9 DEF ClientOverwrites, ClientPut
<1>10. CASE UNCHANGED vars
    BY <1>1, <1>2, <1>10 DEF vars
<1> QED BY <1>1, <1>3, <1>4, <1>5, <1>6, <1>7, <1>8, <1>9, <1>10 DEF WorkerNext

\* Every behaviour of the pool is one of the lifecycle: an accepted upload
\* keeps its bundle, is settled once, and shows that bundle, whole and
\* decodable, once it is live.
THEOREM Implements == WorkerSpec => ImplementsLifecycle
<1>1. WorkerInit => Lifecycle!Init
    BY InitImplements
<1>2. IInv /\ IInv' /\ [WorkerNext]_vars => [Lifecycle!Next]_(Lifecycle!lifecycleVars)
    BY StepImplements
<1> QED BY <1>1, <1>2, Invariant, PTL
        DEF WorkerSpec, ImplementsLifecycle, Lifecycle!Spec

=============================================================================

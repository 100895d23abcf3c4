------------------------ MODULE UploadPipelineProofs ------------------------
(***************************************************************************)
(* Theorems about the whole upload pipeline - requests, client PUTs and    *)
(* media workers - for any number of each: what an accepted upload is made *)
(* of, what a client may rely on, what a completed spec serves, and how    *)
(* much of the worker pool's own safety survives the API beside it.        *)
(***************************************************************************)
EXTENDS UploadPipeline, UploadWorkerProofs

(***************************************************************************)
(* The inductive invariant.                                                *)
(***************************************************************************)

Decoded == Acceptable \cap Playable
Drafted(u) == job[u].status = "none"

\* A verified asset has the ETag of a content of the declared size and type.
AssetsSound ==
    \A u \in Uploads, k \in Kinds : assets[u][k].etag \in Acceptable \cup {NULL}

\* FinalizeUpload refuses an upload without metadata.
FormsStored ==
    \A u \in Uploads : ~Drafted(u) => spec[u].metadata \in Metadata

\* The rows of the uploads, whoever is at work on them.
RowsSound == RowsAgree /\ AssetsSound /\ AcceptedIsVerified /\ FormsStored

\* A request carries an upload, an asset and a content that passed HEAD.
RequestSound(r) ==
    /\ req[r].at # "idle" => req[r].upload \in Uploads
    /\ req[r].at \in {"respond", "verify", "apply"} => req[r].attempt \in Attempts
    /\ req[r].at \in {"verify", "apply"} => req[r].etag \in Acceptable
    /\ req[r].at \in {"stat", "finalize", "commit"} => \A k \in Kinds :
            /\ req[r].rows[k].attempt \in Attempts
            /\ req[r].rows[k].etag \in Acceptable
    /\ req[r].at = "commit" => req[r].form \in Metadata

RequestsSound == \A r \in Requests : RequestSound(r)

\* A request has a session's row FOR UPDATE. The row stays open under it, but
\* for the deadline; what it is about to write stays possible; and it is alone.
Holds(r) == req[r].at \in {"replace", "commit"}
LocksSound ==
    \A r \in Requests : Holds(r) =>
        /\ session[req[r].upload] = "uploading"
        /\ req[r].at = "replace" =>
                assets[req[r].upload][req[r].kind].attempt < MaxAttempts
        /\ \A q \in Requests \ {r} : Holds(q) => req[q].upload # req[r].upload

\* Objects come from verified contents, and only once the upload is accepted.
ObjectsSound ==
    \A u \in Uploads :
        /\ \A k \in Kinds : final[u][k] \in Acceptable \cup {NULL}
        /\ cover[u] \in Decoded \cup {NULL}
        /\ Drafted(u) => cover[u] = NULL /\ \A k \in Kinds : final[u][k] = NULL

\* A busy worker has an accepted upload and verified rows of it, though a
\* confirmation that came late may have changed the rows since.
HasWork(w) ==
    Active(w) =>
        /\ task[w] \in Uploads
        /\ ~Drafted(task[w])
        /\ \A k \in Kinds : /\ bundle[w][k].attempt \in Attempts
                            /\ bundle[w][k].etag \in Acceptable

KnowsVerdict(w) ==
    /\ pc[w] = "return" => verdict[w] # "none"
    /\ pc[w] = "settle" => verdict[w] \in Outcomes

ClosesOwn(w) ==
    Closing(w) =>
        /\ verdict[w] \in Outcomes
        /\ job[task[w]].status = verdict[w]
        /\ pc[w] = "cleanCover" => verdict[w] = "failed"
        /\ pc[w] = "cleanFinal" /\ verdict[w] = "completed" => pos[w] = Image

\* Past the loop every kind was handled; what becomes the cover was decoded.
PastLoop(w) ==
    /\ pc[w] \in {"readCover", "writeCover", "validate"} \/ Done(w)
        => kind[w] = NumKinds
    /\ pc[w] = "writeCover" => image[w] \in Decoded

\* Until the job is settled, an object this worker saw at a final key is
\* still there or was replaced by another worker's copy.
HasCopies(w) ==
    Active(w) /\ Unsettled(task[w]) =>
        /\ pc[w] \in Processing \/ Done(w) =>
            \A k \in Kinds : k < kind[w] => final[task[w]][k] # NULL
        /\ pc[w] \in {"readCover", "writeCover", "validate"} \/ Done(w) =>
            final[task[w]][kind[w]] # NULL
        /\ pc[w] = "validate" \/ Done(w) => cover[task[w]] # NULL

WorkerSound(w) ==
    HasWork(w) /\ KnowsVerdict(w) /\ ClosesOwn(w) /\ PastLoop(w) /\ HasCopies(w)

WorkersSound == \A w \in Workers : WorkerSound(w)

\* Together they are inductive, without any assumption on the API.
PipelineInv ==
    /\ PipelineTypeOK
    /\ RowsSound
    /\ RequestsSound
    /\ AcknowledgedIsDurable
    /\ ObjectsSound
    /\ WorkersSound
    /\ PublishedIsComplete

\* No row of an accepted upload's assets changes: the one write that could is
\* a VerifyAsset whose statement began before FinalizeUpload committed.
NoLateConfirmation ==
    \A u \in Uploads : job[u].status # "none" => assets'[u] = assets[u]

(***************************************************************************)
(* What a step does to the rows and to the objects.                        *)
(***************************************************************************)

\* Jobs appear when an upload is accepted, and stay once they are settled.
JobsStay ==
    \A u \in Uploads :
        /\ Drafted(u)' => Drafted(u)
        /\ job[u].status \in Outcomes => job'[u].status = job[u].status

\* No object of an upload that is not settled disappears.
ObjectsStay ==
    \A u \in Uploads : Unsettled(u)' =>
        /\ \A k \in Kinds : final[u][k] # NULL => final'[u][k] # NULL
        /\ cover[u] # NULL => cover'[u] # NULL

\* The rows of one upload tell one story.
LEMMA OneStory ==
    ASSUME RowsAgree, NEW u \in Uploads
    PROVE  /\ Drafted(u) => spec[u].status = "none"
           /\ ~Drafted(u) => spec[u].status # "none"
           /\ spec[u].status \in Outcomes => job[u].status = spec[u].status
           /\ job[u].status \in Outcomes => spec[u].status = job[u].status
BY DEF RowsAgree, Drafted, Outcomes

\* A step that leaves the rows alone.
LEMMA RowsKept ==
    ASSUME RowsSound, UNCHANGED rowVars
    PROVE  RowsSound' /\ JobsStay
<1> USE DEF rowVars
<1>1. RowsAgree'
    BY DEF RowsSound, RowsAgree
<1>2. AssetsSound' /\ AcceptedIsVerified' /\ FormsStored'
    BY DEF RowsSound, AssetsSound, AcceptedIsVerified, FormsStored, Drafted
<1> QED BY <1>1, <1>2 DEF RowsSound, JobsStay, Drafted

\* A step that moves job and session of some uploads, but settles none.
LEMMA JobsKept ==
    ASSUME RowsSound, StoreTypeOK, UNCHANGED <<assets, spec>>,
           \A u \in Uploads :
              \/ job'[u].status = job[u].status /\ session'[u] = session[u]
              \/ /\ job[u].status \in {"queued", "processing"}
                 /\ job'[u].status \in {"queued", "processing"}
                 /\ session'[u] = job'[u].status
              \/ /\ job'[u].status = job[u].status
                 /\ session[u] = "uploading" /\ session'[u] = "expired"
    PROVE  RowsSound' /\ JobsStay
<1>1. RowsAgree'
    <2> SUFFICES ASSUME NEW u \in Uploads
                 PROVE  IF session'[u] \in {"none", "uploading", "expired"}
                        THEN job'[u].status = "none" /\ spec[u].status = "none"
                        ELSE /\ job'[u].status = session'[u]
                             /\ spec[u].status = IF session'[u] \in Outcomes
                                                 THEN session'[u]
                                                 ELSE "processing"
        BY DEF RowsAgree
    <2>1. IF session[u] \in {"none", "uploading", "expired"}
          THEN job[u].status = "none" /\ spec[u].status = "none"
          ELSE /\ job[u].status = session[u]
               /\ spec[u].status = IF session[u] \in Outcomes THEN session[u]
                                   ELSE "processing"
        BY DEF RowsSound, RowsAgree
    <2> QED BY <2>1 DEF Outcomes
<1>2. \A u \in Uploads : Drafted(u)' <=> Drafted(u)
    BY DEF Drafted
<1>3. AssetsSound' /\ AcceptedIsVerified' /\ FormsStored'
    BY <1>2 DEF RowsSound, AssetsSound, AcceptedIsVerified, FormsStored, Drafted
<1>4. JobsStay
    BY <1>2 DEF JobsStay, Outcomes
<1> QED BY <1>1, <1>3, <1>4 DEF RowsSound

\* The fenced transaction settles one upload and leaves its assets alone.
LEMMA SettleRows ==
    ASSUME RowsSound, StoreTypeOK, NEW u \in Uploads, NEW w \in Workers,
           NEW outcome \in Outcomes, SettleJob(u, w, outcome)
    PROVE  /\ RowsSound' /\ JobsStay
           /\ Unsettled(u) /\ job'[u].status = outcome
           /\ \A x \in Uploads \ {u} : job'[x] = job[x] /\ spec'[x] = spec[x]
           /\ spec'[u].status = outcome
<1> USE DEF SettleJob
<1>1. Unsettled(u) /\ ~Drafted(u)
    BY DEF HoldsLease, Unsettled, Outcomes, Drafted
<1>2. /\ job'[u].status = outcome /\ spec'[u].status = outcome
      /\ session'[u] = outcome /\ spec'[u].metadata = spec[u].metadata
    BY DEF StoreTypeOK, JobRow, SpecRow
<1>3. \A x \in Uploads \ {u} :
        job'[x] = job[x] /\ spec'[x] = spec[x] /\ session'[x] = session[x]
    BY DEF StoreTypeOK
<1>4. RowsAgree'
    <2> DEFINE Agree(j, se, sp) ==
                 IF se \in {"none", "uploading", "expired"}
                 THEN j = "none" /\ sp = "none"
                 ELSE j = se /\ sp = IF se \in Outcomes THEN se ELSE "processing"
    <2>1. Agree(job'[u].status, session'[u], spec'[u].status)
        BY <1>2 DEF Outcomes
    <2>2. \A x \in Uploads \ {u} :
            Agree(job'[x].status, session'[x], spec'[x].status)
        <3>1. \A x \in Uploads : Agree(job[x].status, session[x], spec[x].status)
            BY DEF RowsSound, RowsAgree
        <3> HIDE DEF Agree
        <3> QED BY <1>3, <3>1
    <2> QED BY <2>1, <2>2 DEF RowsAgree
<1>5. \A x \in Uploads : Drafted(x)' <=> Drafted(x)
    BY <1>1, <1>2, <1>3 DEF Drafted, Outcomes
<1>6. FormsStored'
    BY <1>2, <1>3, <1>5 DEF RowsSound, FormsStored
<1>7. AssetsSound' /\ AcceptedIsVerified'
    BY <1>5 DEF RowsSound, AssetsSound, AcceptedIsVerified, Drafted
<1>8. JobsStay
    BY <1>1, <1>3, <1>5 DEF JobsStay, Unsettled
<1> QED BY <1>1, <1>2, <1>3, <1>4, <1>6, <1>7, <1>8 DEF RowsSound

\* A step that touches no published or copied object and completes no spec.
LEMMA ObjectsKept ==
    ASSUME ObjectsSound, PublishedIsComplete, JobsStay,
           UNCHANGED <<final, cover>>,
           \A u \in Uploads : spec'[u].status = "completed" =>
                              spec[u].status = "completed"
    PROVE  ObjectsSound' /\ PublishedIsComplete' /\ ObjectsStay
<1>1. ObjectsSound'
    BY DEF ObjectsSound, JobsStay
<1>2. PublishedIsComplete'
    BY DEF PublishedIsComplete
<1> QED BY <1>1, <1>2 DEF ObjectsStay

(***************************************************************************)
(* Those who do not move.                                                  *)
(***************************************************************************)

\* Worker v keeps everything it has in memory.
Still(v) ==
    /\ pc'[v] = pc[v] /\ task'[v] = task[v] /\ bundle'[v] = bundle[v]
    /\ kind'[v] = kind[v] /\ image'[v] = image[v]
    /\ verdict'[v] = verdict[v] /\ pos'[v] = pos[v]

\* A worker at rest does not notice what the others do to rows and objects.
LEMMA StillSound ==
    ASSUME NEW v \in Workers, WorkerSound(v), Still(v), JobsStay, ObjectsStay,
           kind[v] \in Kinds
    PROVE  WorkerSound(v)'
<1> USE DEF Still, WorkerSound
<1>1. Active(v)' = Active(v) /\ Closing(v)' = Closing(v) /\ Done(v)' = Done(v)
    BY DEF Active, Closing, Done
<1>2. HasWork(v)'
    BY <1>1 DEF HasWork, JobsStay
<1>3. KnowsVerdict(v)'
    BY DEF KnowsVerdict
<1>4. ClosesOwn(v)'
    <2>1. Closing(v) => task[v] \in Uploads
        BY DEF HasWork, Active, Closing, Cleaning
    <2> QED BY <1>1, <2>1 DEF ClosesOwn, JobsStay
<1>5. PastLoop(v)'
    BY <1>1 DEF PastLoop
<1>6. HasCopies(v)'
    <2> SUFFICES ASSUME Active(v), Unsettled(task[v])'
                 PROVE  HasCopies(v)'
        BY <1>1 DEF HasCopies, Unsettled
    <2>1. task[v] \in Uploads
        BY DEF HasWork
    <2>2. Unsettled(task[v])
        BY <2>1 DEF JobsStay, Unsettled
    <2>3. \A k \in Kinds : final[task[v]][k] # NULL => final'[task[v]][k] # NULL
        BY <2>1 DEF ObjectsStay
    <2>4. cover[task[v]] # NULL => cover'[task[v]] # NULL
        BY <2>1 DEF ObjectsStay
    <2> QED BY <1>1, <2>2, <2>3, <2>4 DEF HasCopies
<1> QED BY <1>2, <1>3, <1>4, <1>5, <1>6

\* The answer a request is about to give stays true.
LEMMA StillAnswers ==
    ASSUME RequestsSound, AcknowledgedIsDurable, RowsAgree', FormsStored', JobsStay,
           NEW r \in Requests, req'[r] = req[r], req[r].at = "accepted"
    PROVE  /\ job'[req[r].upload].status # "none"
           /\ spec'[req[r].upload].status # "none"
           /\ spec'[req[r].upload].metadata \in Metadata
<1>1. req[r].upload \in Uploads
    BY DEF RequestsSound, RequestSound
<1>2. ~Drafted(req[r].upload)
    BY DEF AcknowledgedIsDurable, Drafted
<1>3. ~Drafted(req[r].upload)'
    BY <1>1, <1>2 DEF JobsStay
<1>4. spec'[req[r].upload].status # "none"
    BY <1>1, <1>3 DEF RowsAgree, Drafted, Outcomes
<1> QED BY <1>1, <1>3, <1>4 DEF FormsStored, Drafted

\* A step of one worker, given what becomes of its own state, rows and objects.
LEMMA WorkerKept ==
    ASSUME PipelineInv, NEW w \in Workers, \A v \in Workers \ {w} : Still(v),
           UNCHANGED req, TypeOK', RowsSound', JobsStay,
           ObjectsSound', PublishedIsComplete', ObjectsStay, WorkerSound(w)'
    PROVE  PipelineInv'
<1>1. PipelineTypeOK'
    BY DEF PipelineInv, PipelineTypeOK, ServiceTypeOK
<1>2. RequestsSound'
    BY DEF PipelineInv, RequestsSound, RequestSound
<1>3. AcknowledgedIsDurable'
    BY StillAnswers DEF PipelineInv, AcknowledgedIsDurable, RowsSound
<1>4. WorkersSound'
    <2>1. \A v \in Workers : kind[v] \in Kinds
        BY DEF PipelineInv, PipelineTypeOK, TypeOK, WorkerTypeOK
    <2> QED BY <2>1, StillSound DEF PipelineInv, WorkersSound
<1> QED BY <1>1, <1>2, <1>3, <1>4 DEF PipelineInv

\* The same, when the step leaves rows and objects alone.
LEMMA PrivateStep ==
    ASSUME PipelineInv, NEW w \in Workers, \A v \in Workers \ {w} : Still(v),
           UNCHANGED <<rowVars, final, cover, req>>,
           StoreTypeOK', WorkerTypeOK', WorkerSound(w)'
    PROVE  PipelineInv'
<1>1. RowsSound' /\ JobsStay
    BY RowsKept DEF PipelineInv
<1>2. ObjectsSound' /\ PublishedIsComplete' /\ ObjectsStay
    BY <1>1, ObjectsKept DEF PipelineInv, rowVars
<1> QED BY <1>1, <1>2, WorkerKept DEF TypeOK

(***************************************************************************)
(* process().                                                              *)
(***************************************************************************)

\* What comes before the next kind is this kind or before it.
LEMMA UpToNext ==
    ASSUME NEW n \in Kinds, NEW k \in Kinds, k < n + 1
    PROVE  k < n \/ k = n
BY StoreAssumption DEF Kinds

\* What PipelineInv knows of a worker between two bucket calls.
LEMMA InProcess ==
    ASSUME PipelineInv, NEW w \in Workers, pc[w] \in Processing
    PROVE  /\ TypeOK /\ StoreTypeOK /\ WorkerTypeOK /\ WorkerSound(w)
           /\ Active(w) /\ ~Closing(w) /\ ~Done(w)
           /\ task[w] \in Uploads /\ kind[w] \in Kinds /\ ~Drafted(task[w])
           /\ \A k \in Kinds : /\ bundle[w][k].attempt \in Attempts
                               /\ bundle[w][k].etag \in Acceptable
<1>1. /\ TypeOK /\ StoreTypeOK /\ WorkerTypeOK /\ WorkerSound(w)
      /\ kind[w] \in Kinds
    BY DEF PipelineInv, PipelineTypeOK, TypeOK, WorkerTypeOK, WorkersSound
<1>2. Active(w) /\ ~Closing(w) /\ ~Done(w)
    BY DEF Active, Closing, Done, Processing, Cleaning
<1> QED BY <1>1, <1>2 DEF WorkerSound, HasWork

\* process() returns with anything but success.
LEMMA GivesUp ==
    ASSUME PipelineInv, NEW w \in Workers, pc[w] \in Processing,
           NEW v \in {"failed", "canceled"}, Return(w, v), faults' \in 0..MaxFaults,
           UNCHANGED <<storeVars, req, task, bundle, kind, image, beat, pos,
                       notices>>
    PROVE  PipelineInv'
<1> USE InProcess DEF Return
<1>1. WorkerTypeOK'
    BY MoveTyped DEF WorkerTypeOK, WorkerPC, Verdicts
<1>2. StoreTypeOK'
    BY DEF storeVars, rowVars, bucketVars, StoreTypeOK
<1>3. pc'[w] = "return" /\ verdict'[w] = v
    BY DEF WorkerTypeOK
<1>4. \A x \in Workers \ {w} : Still(x)
    BY DEF Still, WorkerTypeOK
<1>5. WorkerSound(w)'
    <2>1. HasWork(w)'
        BY DEF HasWork, Drafted, storeVars, rowVars
    <2>2. KnowsVerdict(w)'
        BY <1>3 DEF KnowsVerdict
    <2>3. ~Done(w)' /\ ~Closing(w)'
        BY <1>3 DEF Done, Closing, Cleaning
    <2> QED BY <1>3, <2>1, <2>2, <2>3
        DEF WorkerSound, ClosesOwn, PastLoop, HasCopies, Processing
<1> QED BY <1>1, <1>2, <1>4, <1>5, PrivateStep DEF storeVars, bucketVars

\* The stat of a staged object, against the verified ETag.
LEMMA CheckSourceSound ==
    ASSUME PipelineInv, NEW w \in Workers, CheckSource(w), UNCHANGED req
    PROVE  PipelineInv'
<1> USE DEF CheckSource
<1>1. pc[w] \in Processing
    BY DEF Processing
<1> USE <1>1, InProcess
<1>2. CASE ~SourceVerified(w)
    BY <1>2, GivesUp DEF WorkerTypeOK
<1>3. CASE SourceVerified(w)
    <2> USE <1>3 DEF GoTo
    <2>1. WorkerTypeOK'
        BY MoveTyped DEF WorkerTypeOK, WorkerPC, Processing
    <2>2. StoreTypeOK'
        BY DEF storeVars, rowVars, bucketVars, StoreTypeOK
    <2>3. pc'[w] = "copy"
        BY DEF WorkerTypeOK
    <2>4. \A x \in Workers \ {w} : Still(x)
        BY DEF Still, WorkerTypeOK
    <2>5. WorkerSound(w)'
        <3>1. HasWork(w)'
            BY DEF HasWork, Drafted, storeVars, rowVars
        <3>2. ~Done(w)' /\ ~Closing(w)'
            BY <2>3 DEF Done, Closing, Cleaning
        <3>3. HasCopies(w)'
            BY <2>3, <3>2
            DEF WorkerSound, HasCopies, Unsettled, storeVars, rowVars, bucketVars
        <3> QED BY <2>3, <3>1, <3>2, <3>3
            DEF WorkerSound, KnowsVerdict, ClosesOwn, PastLoop
    <2> QED BY <2>1, <2>2, <2>4, <2>5, PrivateStep DEF storeVars, bucketVars
<1> QED BY <1>2, <1>3

\* The loop over the kinds: the next one, or on to the cover.
LEMMA CompareCopySound ==
    ASSUME PipelineInv, NEW w \in Workers, CompareCopy(w), UNCHANGED req
    PROVE  PipelineInv'
<1> USE DEF CompareCopy
<1>1. pc[w] \in Processing
    BY DEF Processing
<1> USE <1>1, InProcess
<1>2. CASE final[task[w]][kind[w]] = NULL
    BY <1>2, GivesUp DEF WorkerTypeOK
<1>3. CASE final[task[w]][kind[w]] # NULL
    <2> USE <1>3 DEF GoTo
    <2>1. PICK label \in {"check", "readCover"} :
            /\ pc' = [pc EXCEPT ![w] = label]
            /\ \/ /\ label = "check" /\ kind[w] < NumKinds
                  /\ kind' = [kind EXCEPT ![w] = kind[w] + 1]
               \/ label = "readCover" /\ ~(kind[w] < NumKinds) /\ kind' = kind
        OBVIOUS
    <2>2. UNCHANGED kind \/ \E k \in Kinds : kind' = [kind EXCEPT ![w] = k]
        BY <2>1, KindsAreNaturals
    <2>3. WorkerTypeOK'
        BY <2>1, <2>2, MoveTyped DEF WorkerTypeOK, WorkerPC, Processing
    <2>4. StoreTypeOK'
        BY DEF storeVars, rowVars, bucketVars, StoreTypeOK
    <2>5. pc'[w] = label /\ kind'[w] = IF label = "check" THEN kind[w] + 1
                                       ELSE kind[w]
        BY <2>1 DEF WorkerTypeOK
    <2>6. \A x \in Workers \ {w} : Still(x)
        BY <2>1 DEF Still, WorkerTypeOK
    <2>7. WorkerSound(w)'
        <3>1. HasWork(w)'
            BY DEF HasWork, Drafted, storeVars, rowVars
        <3>2. ~Done(w)' /\ ~Closing(w)'
            BY <2>5 DEF Done, Closing, Cleaning
        <3>3. PastLoop(w)'
            <4>1. kind[w] \in 1..NumKinds
                BY DEF Kinds
            <4>2. label = "readCover" => kind'[w] = NumKinds
                BY <2>1, <2>5, <4>1, StoreAssumption
            <4> QED BY <2>5, <3>2, <4>2 DEF PastLoop
        <3>4. HasCopies(w)'
            <4>1. \A k \in Kinds : k < kind'[w] => k < kind[w] \/ k = kind[w]
                BY <2>5, UpToNext
            <4> QED BY <2>5, <3>2, <4>1
                DEF WorkerSound, HasCopies, Unsettled, storeVars, rowVars,
                    bucketVars
        <3> QED BY <2>5, <3>1, <3>2, <3>3, <3>4
            DEF WorkerSound, KnowsVerdict, ClosesOwn
    <2> QED BY <2>3, <2>4, <2>6, <2>7, PrivateStep DEF storeVars, bucketVars
<1> QED BY <1>2, <1>3

\* Reading the cover source: it decodes, and was verified when it was copied.
LEMMA ReadCoverSound ==
    ASSUME PipelineInv, NEW w \in Workers, ReadCover(w), UNCHANGED req
    PROVE  PipelineInv'
<1> USE DEF ReadCover
<1>1. pc[w] \in Processing
    BY DEF Processing
<1> USE <1>1, InProcess
<1>2. CASE final[task[w]][Image] \notin Playable
    BY <1>2, GivesUp DEF WorkerTypeOK
<1>3. CASE final[task[w]][Image] \in Playable
    <2> USE <1>3 DEF GoTo
    <2>1. final[task[w]][Image] \in Decoded
        <3>1. final[task[w]][Image] \in Acceptable \cup {NULL}
            BY KindsAreNaturals DEF PipelineInv, ObjectsSound
        <3>2. NULL \notin Playable
            BY StoreAssumption
        <3> QED BY <3>1, <3>2 DEF Decoded
    <2>2. final[task[w]][Image] \in Object
        BY StoreAssumption DEF Object
    <2>3. WorkerTypeOK'
        BY <2>2, MoveTyped DEF WorkerTypeOK, WorkerPC, Processing
    <2>4. StoreTypeOK'
        BY DEF storeVars, rowVars, bucketVars, StoreTypeOK
    <2>5. pc'[w] = "writeCover" /\ image'[w] = final[task[w]][Image]
        BY DEF WorkerTypeOK
    <2>6. \A x \in Workers \ {w} : Still(x)
        BY DEF Still, WorkerTypeOK
    <2>7. WorkerSound(w)'
        <3>1. HasWork(w)'
            BY DEF HasWork, Drafted, storeVars, rowVars
        <3>2. ~Done(w)' /\ ~Closing(w)'
            BY <2>5 DEF Done, Closing, Cleaning
        <3>3. PastLoop(w)'
            BY <2>1, <2>5, <3>2 DEF WorkerSound, PastLoop
        <3>4. HasCopies(w)'
            BY <2>5, <3>2
            DEF WorkerSound, HasCopies, Unsettled, storeVars, rowVars, bucketVars
        <3> QED BY <2>5, <3>1, <3>2, <3>3, <3>4
            DEF WorkerSound, KnowsVerdict, ClosesOwn
    <2> QED BY <2>3, <2>4, <2>6, <2>7, PrivateStep DEF storeVars, bucketVars
<1> QED BY <1>2, <1>3

\* AnalyzeMP3, validateWAV and validateStems over the copies.
LEMMA ValidateSound ==
    ASSUME PipelineInv, NEW w \in Workers, Validate(w), UNCHANGED req
    PROVE  PipelineInv'
<1> USE DEF Validate
<1>1. pc[w] \in Processing
    BY DEF Processing
<1> USE <1>1, InProcess
<1>2. CASE ~(\A k \in Kinds \ {Image} : final[task[w]][k] \in Playable)
    BY <1>2, GivesUp DEF WorkerTypeOK
<1>3. CASE \A k \in Kinds \ {Image} : final[task[w]][k] \in Playable
    <2> USE <1>3 DEF Return
    <2>1. WorkerTypeOK'
        BY MoveTyped DEF WorkerTypeOK, WorkerPC, Verdicts
    <2>2. StoreTypeOK'
        BY DEF storeVars, rowVars, bucketVars, StoreTypeOK
    <2>3. pc'[w] = "return" /\ verdict'[w] = "completed"
        BY DEF WorkerTypeOK
    <2>4. \A x \in Workers \ {w} : Still(x)
        BY DEF Still, WorkerTypeOK
    <2>5. WorkerSound(w)'
        <3>1. HasWork(w)'
            BY DEF HasWork, Drafted, storeVars, rowVars
        <3>2. KnowsVerdict(w)' /\ ~Closing(w)'
            BY <2>3 DEF KnowsVerdict, Closing, Cleaning
        <3>3. PastLoop(w)'
            BY <2>3 DEF WorkerSound, PastLoop
        <3>4. HasCopies(w)'
            BY <2>3
            DEF WorkerSound, HasCopies, Unsettled, storeVars, rowVars, bucketVars
        <3> QED BY <3>1, <3>2, <3>3, <3>4 DEF WorkerSound, ClosesOwn
    <2> QED BY <2>1, <2>2, <2>4, <2>5, PrivateStep DEF storeVars, bucketVars
<1> QED BY <1>2, <1>3

\* A bucket error, a context error and a lost lease all end process().
LEMMA InterruptedSound ==
    ASSUME PipelineInv, NEW w \in Workers, UNCHANGED req,
           StorageError(w) \/ ContextError(w) \/ CanceledByHeartbeat(w)
    PROVE  PipelineInv'
<1>1. CASE StorageError(w)
    BY <1>1, GivesUp, InProcess DEF StorageError, WorkerTypeOK
<1>2. CASE ContextError(w)
    <2>1. pc[w] \in Processing /\ faults' \in 0..MaxFaults
        BY <1>2, InProcess, WorkerAssumption DEF ContextError, Fault, WorkerTypeOK
    <2> QED BY <1>2, <2>1, GivesUp DEF ContextError
<1>3. CASE CanceledByHeartbeat(w)
    BY <1>3, GivesUp, InProcess DEF CanceledByHeartbeat, WorkerTypeOK
<1> QED BY <1>1, <1>2, <1>3

\* CopySourceIfMatch puts nothing but a verified content at a final key.
LEMMA CopySourceSound ==
    ASSUME PipelineInv, NEW w \in Workers, CopySource(w), UNCHANGED req
    PROVE  PipelineInv'
<1> USE DEF CopySource
<1>1. pc[w] \in Processing
    BY DEF Processing
<1> USE <1>1, InProcess
<1>2. CASE ~SourceVerified(w)
    BY <1>2, GivesUp DEF WorkerTypeOK, storeVars, bucketVars
<1>3. CASE SourceVerified(w)
    <2> DEFINE etag == bundle[w][kind[w]].etag
    <2>1. /\ pc' = [pc EXCEPT ![w] = "compare"]
          /\ final' = [final EXCEPT ![task[w]][kind[w]] = etag]
          /\ UNCHANGED <<rowVars, issued, staged, cover, task, bundle, kind,
                         image, verdict, beat, pos, notices, faults>>
        BY <1>3 DEF SourceVerified, GoTo
    <2>2. etag \in Acceptable /\ etag \in Object /\ etag # NULL
        BY StoreAssumption DEF Object
    <2> HIDE DEF CopySource, etag
    <2>3. WorkerTypeOK'
        BY <2>1, MoveTyped DEF WorkerTypeOK, WorkerPC, Processing
    <2>4. StoreTypeOK'
        BY <2>1, <2>2, BucketTyped
    <2>5. pc'[w] = "compare"
        BY <2>1 DEF WorkerTypeOK
    <2>6. \A x \in Workers \ {w} : Still(x)
        BY <2>1 DEF Still, WorkerTypeOK
    <2>7. \A u \in Uploads, k \in Kinds :
            \/ final'[u][k] = final[u][k]
            \/ u = task[w] /\ final'[u][k] = etag
        BY <2>1 DEF StoreTypeOK
    <2>8. RowsSound' /\ JobsStay
        BY <2>1, RowsKept DEF PipelineInv
    <2>9. ObjectsSound'
        BY <2>1, <2>2, <2>7 DEF PipelineInv, ObjectsSound, Drafted, rowVars
    <2>10. PublishedIsComplete'
        BY <2>1, <2>2, <2>7
        DEF PipelineInv, PublishedIsComplete, StoreTypeOK, rowVars
    <2>11. ObjectsStay
        BY <2>1, <2>2, <2>7 DEF ObjectsStay
    <2>12. WorkerSound(w)'
        <3>1. HasWork(w)'
            BY <2>1 DEF HasWork, Drafted, rowVars
        <3>2. ~Done(w)' /\ ~Closing(w)'
            BY <2>5 DEF Done, Closing, Cleaning
        <3>3. HasCopies(w)'
            <4>1. \A k \in Kinds : final[task[w]][k] # NULL =>
                                   final'[task[w]][k] # NULL
                BY <2>2, <2>7
            <4> QED BY <2>1, <2>5, <3>2, <4>1
                DEF WorkerSound, HasCopies, Unsettled, rowVars
        <3> QED BY <2>1, <2>5, <3>1, <3>2, <3>3
            DEF WorkerSound, KnowsVerdict, ClosesOwn, PastLoop
    <2> QED BY <2>3, <2>4, <2>6, <2>8, <2>9, <2>10, <2>11, <2>12, WorkerKept
        DEF TypeOK
<1> QED BY <1>2, <1>3

\* The normalised cover renders an image that was decoded.
LEMMA WriteCoverSound ==
    ASSUME PipelineInv, NEW w \in Workers, WriteCover(w), UNCHANGED req
    PROVE  PipelineInv'
<1> USE DEF WriteCover, GoTo
<1>1. pc[w] \in Processing
    BY DEF Processing
<1> USE <1>1, InProcess
<1>2. image[w] \in Decoded /\ image[w] # NULL /\ image[w] \in Object
    BY StoreAssumption DEF WorkerSound, PastLoop, Decoded, Object
<1>3. WorkerTypeOK'
    BY MoveTyped DEF WorkerTypeOK, WorkerPC, Processing
<1>4. StoreTypeOK'
    BY <1>2, BucketTyped, KindsAreNaturals
<1>5. pc'[w] = "validate"
    BY DEF WorkerTypeOK
<1>6. \A x \in Workers \ {w} : Still(x)
    BY DEF Still, WorkerTypeOK
<1>7. \A u \in Uploads :
        \/ cover'[u] = cover[u] /\ u # task[w]
        \/ u = task[w] /\ cover'[u] = image[w]
    BY DEF StoreTypeOK
<1>8. RowsSound' /\ JobsStay
    BY RowsKept DEF PipelineInv
<1>9. ObjectsSound'
    BY <1>2, <1>7 DEF PipelineInv, ObjectsSound, Drafted, rowVars
<1>10. PublishedIsComplete'
    BY <1>2, <1>7 DEF PipelineInv, PublishedIsComplete, Decoded, rowVars
<1>11. ObjectsStay
    BY <1>2, <1>7 DEF ObjectsStay
<1>12. WorkerSound(w)'
    <2>1. HasWork(w)'
        BY DEF HasWork, Drafted, rowVars
    <2>2. ~Done(w)' /\ ~Closing(w)'
        BY <1>5 DEF Done, Closing, Cleaning
    <2>3. HasCopies(w)'
        BY <1>2, <1>5, <1>7, <2>2 DEF WorkerSound, HasCopies, Unsettled, rowVars
    <2> QED BY <1>5, <2>1, <2>2, <2>3
        DEF WorkerSound, KnowsVerdict, ClosesOwn, PastLoop
<1> QED BY <1>3, <1>4, <1>6, <1>8, <1>9, <1>10, <1>11, <1>12, WorkerKept
    DEF TypeOK

(***************************************************************************)
(* The loop of StartUploadWorker, leases and the clients' PUTs.            *)
(***************************************************************************)

\* A step that no worker notices.
LEMMA OutsideKept ==
    ASSUME PipelineInv, \A v \in Workers : Still(v), UNCHANGED <<req, final, cover>>,
           TypeOK', RowsSound', JobsStay,
           \A u \in Uploads : spec'[u].status = "completed" =>
                              spec[u].status = "completed"
    PROVE  PipelineInv'
<1>1. ObjectsSound' /\ PublishedIsComplete' /\ ObjectsStay
    BY ObjectsKept DEF PipelineInv
<1>2. PipelineTypeOK'
    BY DEF PipelineInv, PipelineTypeOK, ServiceTypeOK
<1>3. RequestsSound'
    BY DEF PipelineInv, RequestsSound, RequestSound
<1>4. AcknowledgedIsDurable'
    BY StillAnswers DEF PipelineInv, AcknowledgedIsDurable, RowsSound
<1>5. WorkersSound'
    <2>1. \A v \in Workers : kind[v] \in Kinds
        BY DEF PipelineInv, PipelineTypeOK, TypeOK, WorkerTypeOK
    <2> QED BY <1>1, <2>1, StillSound DEF PipelineInv, WorkersSound
<1> QED BY <1>1, <1>2, <1>3, <1>4, <1>5 DEF PipelineInv

\* The types PipelineInv includes.
LEMMA Typed ==
    PipelineInv => TypeOK /\ StoreTypeOK /\ WorkerTypeOK /\ ServiceTypeOK
BY DEF PipelineInv, PipelineTypeOK, TypeOK

\* The two sweeps: neither settles anything.
LEMMA SweepSound ==
    ASSUME PipelineInv, NEW w \in Workers, UNCHANGED req,
           ExpireSweep(w) \/ RequeueSweep(w)
    PROVE  PipelineInv'
<1> USE Typed
<1>1. \A v \in Workers : Still(v)
    BY DEF ExpireSweep, RequeueSweep, workerVars, Still
<1>2. WorkerTypeOK'
    BY DEF ExpireSweep, RequeueSweep, workerVars, WorkerTypeOK
<1>3. UNCHANGED <<assets, spec, final, cover>>
    BY DEF ExpireSweep, RequeueSweep, bucketVars, ExpireUploadSessions,
           RequeueStaleJobs
<1>4. CASE ExpireSweep(w)
    <2>1. StoreTypeOK'
        BY <1>4 DEF ExpireSweep, ExpireUploadSessions, bucketVars, StoreTypeOK,
            SessionStatus
    <2>2. RowsSound' /\ JobsStay
        BY <1>4, JobsKept
        DEF PipelineInv, ExpireSweep, ExpireUploadSessions, Abandoned
    <2> QED BY <1>1, <1>2, <1>3, <2>1, <2>2, OutsideKept DEF TypeOK
<1>5. CASE RequeueSweep(w)
    <2>1. StoreTypeOK'
        BY <1>5, StoreAssumption
        DEF RequeueSweep, RequeueStaleJobs, bucketVars, StoreTypeOK,
            SessionStatus, JobRow, JobStatus, NoJob
    <2>2. \A u \in Uploads :
            \/ job'[u].status = job[u].status /\ session'[u] = session[u]
            \/ /\ job[u].status = "processing"
               /\ job'[u].status = "queued" /\ session'[u] = "queued"
        BY <1>5 DEF RequeueSweep, RequeueStaleJobs, Stale, NoJob
    <2>3. RowsSound' /\ JobsStay
        BY <1>3, <2>2, JobsKept DEF PipelineInv
    <2> QED BY <1>1, <1>2, <1>3, <2>1, <2>3, OutsideKept DEF TypeOK
<1> QED BY <1>4, <1>5

\* The claim hands over rows that were verified.
LEMMA ClaimSound ==
    ASSUME PipelineInv, NEW w \in Workers, Claim(w), UNCHANGED req
    PROVE  PipelineInv'
<1> USE Typed
<1>1. PICK u \in Uploads : /\ ClaimNextJob(u, w)
                           /\ task' = [task EXCEPT ![w] = u]
                           /\ bundle' = [bundle EXCEPT ![w] = assets[u]]
    BY DEF Claim
<1> USE <1>1 DEF Claim
<1>2. StoreTypeOK'
    BY RowsTyped
<1>3. WorkerTypeOK'
    <2>1. 1 \in Kinds
        BY KindsAreNaturals DEF Image
    <2> QED BY <2>1 DEF WorkerTypeOK, StoreTypeOK, WorkerPC, Processing
<1>4. /\ job[u].status = "queued"
      /\ job'[u].status = "processing" /\ session'[u] = "processing"
      /\ \A x \in Uploads \ {u} : job'[x] = job[x] /\ session'[x] = session[x]
    BY DEF ClaimNextJob, StoreTypeOK
<1>5. UNCHANGED <<spec, assets, final, cover>>
    BY DEF ClaimNextJob, bucketVars
<1>6. RowsSound' /\ JobsStay
    BY <1>4, <1>5, JobsKept DEF PipelineInv
<1>7. ObjectsSound' /\ PublishedIsComplete' /\ ObjectsStay
    BY <1>5, <1>6, ObjectsKept DEF PipelineInv
<1>8. \A v \in Workers \ {w} : Still(v)
    BY DEF Still, WorkerTypeOK
<1>9. WorkerSound(w)'
    <2>1. pc'[w] = "check" /\ task'[w] = u /\ bundle'[w] = assets[u] /\ kind'[w] = 1
        BY DEF WorkerTypeOK
    <2>2. ~Done(w)' /\ ~Closing(w)'
        BY <2>1 DEF Done, Closing, Cleaning
    <2>3. HasWork(w)'
        <3>1. ~Drafted(u)'
            BY <1>4 DEF Drafted
        <3>2. \A k \in Kinds : /\ assets[u][k].attempt \in Attempts
                               /\ assets[u][k].etag \in Acceptable
            <4>1. job[u].status # "none" /\ DOMAIN assets[u] = Kinds
                BY <1>4 DEF StoreTypeOK
            <4>2. \A k \in Kinds : assets[u][k].attempt \in 0..MaxAttempts
                BY DEF StoreTypeOK, AssetRow
            <4>3. \A n \in 0..MaxAttempts : n # 0 => n \in Attempts
                BY StoreAssumption DEF Attempts
            <4>4. \A k \in Kinds : /\ assets[u][k].attempt # 0
                                   /\ assets[u][k].etag \in Acceptable
                BY <4>1 DEF PipelineInv, RowsSound, AcceptedIsVerified
            <4> QED BY <4>2, <4>3, <4>4
        <3> QED BY <2>1, <3>1, <3>2 DEF HasWork
    <2>4. \A k \in Kinds : ~(k < 1)
        BY StoreAssumption DEF Kinds
    <2> QED BY <2>1, <2>2, <2>3, <2>4
        DEF WorkerSound, KnowsVerdict, ClosesOwn, PastLoop, HasCopies
<1> QED BY <1>2, <1>3, <1>6, <1>7, <1>8, <1>9, WorkerKept DEF TypeOK

\* A lease changes hands in no way but its freshness.
LEMMA LeaseSound ==
    ASSUME PipelineInv, NEW u \in Uploads, NEW freshness \in {"fresh", "stale"},
           job' = [job EXCEPT ![u].lease = freshness],
           UNCHANGED <<session, overdue, metadata, assets, spec, bucketVars, pc,
                       task, bundle, kind, image, verdict, pos, notices, req>>,
           beat' \in [Workers -> {"off", "on", "lost"}],
           faults' \in 0..MaxFaults
    PROVE  PipelineInv'
<1> USE Typed
<1>1. \A x \in Uploads : job'[x].status = job[x].status
    BY DEF StoreTypeOK, JobRow
<1>2. StoreTypeOK'
    <2>1. job[u] \in JobRow
        BY DEF StoreTypeOK
    <2>2. [job[u] EXCEPT !.lease = freshness] \in JobRow
        BY <2>1 DEF JobRow
    <2>3. job' \in [Uploads -> JobRow]
        BY <2>2 DEF StoreTypeOK
    <2> QED BY <2>3 DEF StoreTypeOK, bucketVars
<1>3. WorkerTypeOK'
    BY DEF WorkerTypeOK
<1>4. \A v \in Workers : Still(v)
    BY DEF Still
<1>5. RowsSound' /\ JobsStay
    BY <1>1, JobsKept DEF PipelineInv
<1> QED BY <1>2, <1>3, <1>4, <1>5, OutsideKept DEF TypeOK, bucketVars

\* Neither do the other bookkeeping variables matter, nor the staged objects.
LEMMA BookkeepingSound ==
    ASSUME PipelineInv, StoreTypeOK', UNCHANGED <<rowVars, final, cover, req, pc,
                task, bundle, kind, image, verdict, pos, notices>>,
           beat' \in [Workers -> {"off", "on", "lost"}],
           faults' \in 0..MaxFaults
    PROVE  PipelineInv'
<1> USE Typed
<1>1. WorkerTypeOK'
    BY DEF WorkerTypeOK
<1>2. \A v \in Workers : Still(v)
    BY DEF Still
<1>3. RowsSound' /\ JobsStay
    BY RowsKept DEF PipelineInv
<1> QED BY <1>1, <1>2, <1>3, OutsideKept DEF TypeOK, rowVars

\* The heartbeat renews the lease or loses the goroutine.
LEMMA HeartbeatSound ==
    ASSUME PipelineInv, NEW w \in Workers, UNCHANGED req,
           Heartbeat(w) \/ HeartbeatError(w)
    PROVE  PipelineInv'
<1> USE Typed
<1>1. CASE Heartbeat(w) /\ HoldsLease(task[w], w)
    <2>1. task[w] \in Uploads
        BY <1>1 DEF Heartbeat, Processing, PipelineInv, WorkersSound, WorkerSound,
                    HasWork, Active
    <2> QED BY <1>1, <2>1, LeaseSound DEF Heartbeat, HeartbeatJob, WorkerTypeOK
<1>2. CASE Heartbeat(w) /\ ~HoldsLease(task[w], w)
    <2>1. beat' \in [Workers -> {"off", "on", "lost"}]
        BY <1>2 DEF Heartbeat, WorkerTypeOK
    <2>2. faults' \in 0..MaxFaults
        BY <1>2 DEF Heartbeat, WorkerTypeOK
    <2>3. StoreTypeOK'
        BY <1>2 DEF Heartbeat, StoreTypeOK, rowVars, bucketVars
    <2> QED BY <1>2, <2>1, <2>2, <2>3, BookkeepingSound DEF Heartbeat, bucketVars
<1>3. CASE HeartbeatError(w)
    <2>1. beat' \in [Workers -> {"off", "on", "lost"}]
        BY <1>3 DEF HeartbeatError, WorkerTypeOK
    <2>2. faults' \in 0..MaxFaults
        BY <1>3, WorkerAssumption DEF HeartbeatError, Fault, WorkerTypeOK
    <2>3. StoreTypeOK'
        BY <1>3 DEF HeartbeatError, StoreTypeOK, storeVars, rowVars, bucketVars
    <2> QED BY <1>3, <2>1, <2>2, <2>3, BookkeepingSound
        DEF HeartbeatError, storeVars, bucketVars
<1> QED BY <1>1, <1>2, <1>3

\* A lease growing old changes nothing the invariant says.
LEMMA LeaseLapsesSound ==
    ASSUME PipelineInv, NEW u \in Uploads, LeaseLapses(u), UNCHANGED req
    PROVE  PipelineInv'
<1>1. faults' \in 0..MaxFaults
    BY Typed, WorkerAssumption DEF LeaseLapses, Fault, WorkerTypeOK
<1>2. beat' \in [Workers -> {"off", "on", "lost"}]
    BY Typed DEF LeaseLapses, WorkerTypeOK
<1> QED BY <1>1, <1>2, LeaseSound DEF LeaseLapses

\* Nothing the invariant says depends on the staged objects.
LEMMA ClientOverwritesSound ==
    ASSUME PipelineInv, NEW u \in Uploads, NEW k \in Kinds, NEW n \in Attempts,
           NEW c \in Contents, ClientOverwrites(u, k, n, c), UNCHANGED req
    PROVE  PipelineInv'
<1> USE DEF ClientOverwrites, ClientPut
<1>1. StoreTypeOK'
    BY Typed, BucketTyped DEF Object
<1>2. beat' \in [Workers -> {"off", "on", "lost"}] /\ faults' \in 0..MaxFaults
    BY Typed DEF WorkerTypeOK, workerVars
<1> QED BY <1>1, <1>2, BookkeepingSound DEF workerVars

(***************************************************************************)
(* Leaving a job.                                                          *)
(***************************************************************************)

\* A worker in the loop, or dead, owes nothing.
LEMMA GoneSound ==
    ASSUME NEW w \in Workers, pc'[w] \in {"idle", "dead"}
    PROVE  WorkerSound(w)'
<1>1. ~Active(w)' /\ ~Closing(w)' /\ ~Done(w)'
    BY DEF Active, Closing, Done, Cleaning
<1> QED BY <1>1
    DEF WorkerSound, HasWork, KnowsVerdict, ClosesOwn, PastLoop, HasCopies

\* Returning to the loop.
LEMMA GoIdleSound ==
    ASSUME PipelineInv, NEW w \in Workers, GoIdle(w)
    PROVE  WorkerSound(w)' /\ \A v \in Workers \ {w} : Still(v)
<1>1. pc'[w] = "idle"
    BY Typed DEF GoIdle, WorkerTypeOK
<1>2. \A v \in Workers \ {w} : Still(v)
    BY Typed DEF GoIdle, Still, WorkerTypeOK
<1> QED BY <1>1, <1>2, GoneSound

\* Nothing is left behind by a worker that drops its job, or dies with it.
LEMMA DropSound ==
    ASSUME PipelineInv, NEW w \in Workers, UNCHANGED req,
           SettleFenced(w) \/ SettleError(w) \/ Notify(w) \/ Crash(w)
               \/ (JoinHeartbeat(w) /\ ~MayMutate(w))
    PROVE  PipelineInv'
<1> USE Typed
<1>1. UNCHANGED storeVars
    BY DEF SettleFenced, SettleError, Notify, Crash, JoinHeartbeat
<1>2. StoreTypeOK'
    BY <1>1 DEF storeVars, rowVars, bucketVars, StoreTypeOK
<1>3. faults' \in 0..MaxFaults
    BY WorkerAssumption DEF SettleFenced, SettleError, Notify, Crash,
        JoinHeartbeat, Fault, WorkerTypeOK
<1>4. notices' \in [Uploads -> [Outcomes -> Nat]]
    <2>1. CASE UNCHANGED notices
        BY <2>1 DEF WorkerTypeOK
    <2>2. CASE Notify(w) /\ notices' # notices
        <3>1. task[w] \in Uploads /\ verdict[w] \in Outcomes
            BY <2>2 DEF Notify, PipelineInv, WorkersSound, WorkerSound, HasWork,
                        ClosesOwn, Active, Closing
        <3>2. notices' = [notices EXCEPT ![task[w]] =
                [notices[task[w]] EXCEPT ![verdict[w]] =
                    notices[task[w]][verdict[w]] + 1]]
            BY <2>2 DEF Notify
        <3>3. notices[task[w]] \in [Outcomes -> Nat]
            BY <3>1 DEF WorkerTypeOK
        <3>4. [notices[task[w]] EXCEPT ![verdict[w]] =
                    notices[task[w]][verdict[w]] + 1] \in [Outcomes -> Nat]
            BY <3>1, <3>3
        <3> QED BY <3>1, <3>2, <3>4 DEF WorkerTypeOK
    <2> QED BY <2>1, <2>2 DEF SettleFenced, SettleError, Crash, JoinHeartbeat
<1>5. CASE Crash(w)
    <2> USE <1>5 DEF Crash
    <2>1. NULL \in Object /\ NoBundle \in [Kinds -> AssetRow] /\ 1 \in Kinds
        BY StoreAssumption, KindsAreNaturals
        DEF Object, NoBundle, NoAsset, AssetRow, Image
    <2>2. WorkerTypeOK'
        BY <2>1 DEF WorkerTypeOK, WorkerPC, Verdicts
    <2>3. pc'[w] = "dead" /\ \A v \in Workers \ {w} : Still(v)
        BY DEF Still, WorkerTypeOK
    <2> QED BY <1>1, <1>2, <2>2, <2>3, GoneSound, PrivateStep
        DEF storeVars, bucketVars
<1>6. CASE GoIdle(w)
    <2>1. WorkerTypeOK'
        BY <1>3, <1>4, <1>6, IdleTyped
    <2> QED BY <1>1, <1>2, <1>6, <2>1, GoIdleSound, PrivateStep
        DEF storeVars, bucketVars
<1> QED BY <1>5, <1>6 DEF SettleFenced, SettleError, Notify, JoinHeartbeat

\* Only a worker that may mutate the job goes on to settle it.
LEMMA JoinHeartbeatSound ==
    ASSUME PipelineInv, NEW w \in Workers, JoinHeartbeat(w), UNCHANGED req
    PROVE  PipelineInv'
<1> USE Typed
<1>1. CASE ~MayMutate(w)
    BY <1>1, DropSound
<1>2. CASE MayMutate(w)
    <2> USE <1>2 DEF JoinHeartbeat
    <2>1. WorkerTypeOK'
        BY DEF WorkerTypeOK, WorkerPC
    <2>2. StoreTypeOK'
        BY DEF storeVars, rowVars, bucketVars, StoreTypeOK
    <2>3. pc[w] = "return" /\ pc'[w] = "settle"
        BY DEF WorkerTypeOK
    <2>4. \A v \in Workers \ {w} : Still(v)
        BY DEF Still, WorkerTypeOK
    <2>5. WorkerSound(w)
        BY DEF PipelineInv, WorkersSound
    <2>6. WorkerSound(w)'
        <3>1. Active(w)' = Active(w) /\ Done(w)' = Done(w) /\ ~Closing(w)'
            BY <2>3 DEF Active, Done, Closing, Cleaning
        <3>2. verdict[w] \in Outcomes
            <4>1. verdict[w] \in Verdicts \ {"none", "canceled"}
                BY <2>3, <2>5 DEF MayMutate, WorkerSound, KnowsVerdict, WorkerTypeOK
            <4> QED BY <4>1 DEF Verdicts, Outcomes
        <3>3. HasWork(w)'
            BY <2>5, <3>1 DEF WorkerSound, HasWork, Drafted, storeVars, rowVars
        <3>4. PastLoop(w)'
            BY <2>3, <2>5, <3>1 DEF WorkerSound, PastLoop
        <3>5. HasCopies(w)'
            BY <2>3, <2>5, <3>1 DEF WorkerSound, HasCopies, Unsettled, Processing,
                storeVars, rowVars, bucketVars
        <3> QED BY <2>3, <3>1, <3>2, <3>3, <3>4, <3>5
            DEF WorkerSound, KnowsVerdict, ClosesOwn
    <2> QED BY <2>1, <2>2, <2>4, <2>6, PrivateStep DEF storeVars, bucketVars
<1> QED BY <1>1, <1>2

(***************************************************************************)
(* The fenced transaction and what follows it.                             *)
(***************************************************************************)

\* What a worker publishes is complete: it saw every copy, each of a verified
\* content, and nobody deletes before the job is settled.
LEMMA SettleKeeps ==
    ASSUME PipelineInv, NEW w \in Workers, pc[w] = "settle",
           SettleJob(task[w], w, verdict[w]), UNCHANGED bucketVars
    PROVE  /\ StoreTypeOK' /\ RowsSound' /\ JobsStay
           /\ ObjectsSound' /\ PublishedIsComplete' /\ ObjectsStay
           /\ task[w] \in Uploads /\ verdict[w] \in Outcomes
           /\ job'[task[w]].status = verdict[w]
<1> USE Typed
<1>1. WorkerSound(w) /\ Active(w)
    BY DEF PipelineInv, WorkersSound, Active
<1>2. task[w] \in Uploads /\ verdict[w] \in Outcomes
    BY <1>1 DEF WorkerSound, HasWork, KnowsVerdict
<1>3. StoreTypeOK'
    BY <1>2, RowsTyped
<1>4. /\ RowsSound' /\ JobsStay
      /\ Unsettled(task[w]) /\ job'[task[w]].status = verdict[w]
      /\ \A x \in Uploads \ {task[w]} : spec'[x] = spec[x]
      /\ spec'[task[w]].status = verdict[w]
    BY <1>2, SettleRows DEF PipelineInv
<1>5. ObjectsSound'
    BY <1>4 DEF PipelineInv, ObjectsSound, JobsStay, bucketVars
<1>6. PublishedIsComplete'
    <2>1. CASE verdict[w] = "failed"
        BY <1>4, <2>1 DEF PipelineInv, PublishedIsComplete, bucketVars
    <2>2. CASE verdict[w] = "completed"
        <3>1. Done(w)
            BY <2>2 DEF Done
        <3>2. kind[w] = NumKinds
            BY <1>1, <3>1 DEF WorkerSound, PastLoop
        <3>3. \A k \in Kinds : k < NumKinds \/ k = NumKinds
            BY StoreAssumption DEF Kinds
        <3>4. /\ \A k \in Kinds : final[task[w]][k] # NULL
              /\ cover[task[w]] # NULL
            BY <1>1, <1>4, <3>1, <3>2, <3>3 DEF WorkerSound, HasCopies
        <3>5. /\ \A k \in Kinds : final[task[w]][k] \in Acceptable
              /\ cover[task[w]] \in Decoded
            BY <1>2, <3>4 DEF PipelineInv, ObjectsSound
        <3>6. DOMAIN final[task[w]] = Kinds
            BY <1>2 DEF StoreTypeOK
        <3> QED BY <1>4, <3>5, <3>6
            DEF PipelineInv, PublishedIsComplete, Decoded, bucketVars
    <2> QED BY <1>2, <2>1, <2>2 DEF Outcomes
<1>7. ObjectsStay
    BY DEF ObjectsStay, bucketVars
<1> QED BY <1>2, <1>3, <1>4, <1>5, <1>6, <1>7

\* The commit of CompleteJob or FailJob, whether its worker learns of it or not.
LEMMA SettleSound ==
    ASSUME PipelineInv, NEW w \in Workers, UNCHANGED req,
           Settle(w) \/ SettleAmbiguous(w)
    PROVE  PipelineInv'
<1> USE Typed
<1>1. /\ StoreTypeOK' /\ RowsSound' /\ JobsStay
      /\ ObjectsSound' /\ PublishedIsComplete' /\ ObjectsStay
      /\ task[w] \in Uploads /\ verdict[w] \in Outcomes
      /\ job'[task[w]].status = verdict[w]
    BY SettleKeeps DEF Settle, SettleAmbiguous
<1>2. CASE Settle(w)
    <2> USE <1>2 DEF Settle, StartCleanup
    <2>1. WorkerTypeOK'
        BY DEF WorkerTypeOK, WorkerPC, Cleaning
    <2>2. pc'[w] = IF verdict[w] = "failed" THEN "cleanCover" ELSE "cleanStaged"
        BY DEF WorkerTypeOK
    <2>3. \A v \in Workers \ {w} : Still(v)
        BY DEF Still, WorkerTypeOK
    <2>4. WorkerSound(w)'
        <3>1. ~Done(w)' /\ Active(w) /\ WorkerSound(w)
            BY <2>2 DEF Done, Active, PipelineInv, WorkersSound
        <3>2. HasWork(w)'
            BY <1>1, <3>1 DEF WorkerSound, HasWork, Drafted, Outcomes
        <3>3. ClosesOwn(w)'
            BY <1>1, <2>2 DEF ClosesOwn
        <3>4. HasCopies(w)'
            BY <1>1, <2>2, <3>1 DEF HasCopies, Unsettled
        <3> QED BY <2>2, <3>1, <3>2, <3>3, <3>4
            DEF WorkerSound, KnowsVerdict, PastLoop
    <2> QED BY <1>1, <2>1, <2>3, <2>4, WorkerKept DEF TypeOK
<1>3. CASE SettleAmbiguous(w)
    <2>1. WorkerTypeOK'
        BY <1>3, IdleTyped, WorkerAssumption DEF SettleAmbiguous, Fault, WorkerTypeOK
    <2> QED BY <1>1, <1>3, <2>1, GoIdleSound, WorkerKept DEF SettleAmbiguous, TypeOK
<1> QED BY <1>2, <1>3

\* Cleanup after the commit takes away only what its outcome allows.
LEMMA CleanupSound ==
    ASSUME PipelineInv, NEW w \in Workers, Closing(w), Closing(w)',
           pc'[w] # "cleanCover",
           pc'[w] = "cleanFinal" /\ verdict[w] = "completed" => pos'[w] = Image,
           \A v \in Workers \ {w} : Still(v),
           UNCHANGED <<rowVars, req, task, bundle, verdict>>,
           TypeOK',
           \A x \in Uploads, k \in Kinds :
                final'[x][k] = final[x][k] \/
                    /\ x = task[w] /\ final'[x][k] = NULL
                    /\ verdict[w] = "completed" => k = Image,
           \A x \in Uploads :
                cover'[x] = cover[x] \/
                    /\ x = task[w] /\ cover'[x] = NULL
                    /\ verdict[w] = "failed"
    PROVE  PipelineInv'
<1> USE Typed
<1>1. WorkerSound(w) /\ Active(w) /\ Active(w)' /\ ~Done(w)' /\ pc'[w] \notin Processing
    BY DEF PipelineInv, WorkersSound, Active, Closing, Done, Cleaning, Processing
<1>2. /\ task[w] \in Uploads /\ verdict[w] \in Outcomes
      /\ job[task[w]].status = verdict[w]
    BY <1>1 DEF WorkerSound, HasWork, ClosesOwn
<1>3. spec[task[w]].status = verdict[w]
    BY <1>2, OneStory DEF PipelineInv, RowsSound
<1>4. RowsSound' /\ JobsStay
    BY RowsKept DEF PipelineInv
<1>5. ObjectsSound'
    BY DEF PipelineInv, ObjectsSound, Drafted, rowVars
<1>6. PublishedIsComplete'
    <2> SUFFICES ASSUME NEW u \in Uploads, spec[u].status = "completed"
                 PROVE  /\ cover'[u] \in Acceptable \cap Playable
                        /\ \A k \in DOMAIN final'[u] \ {Image} :
                                final'[u][k] \in Acceptable
        BY DEF PublishedIsComplete, rowVars
    <2>1. /\ cover[u] \in Acceptable \cap Playable
          /\ \A k \in Kinds \ {Image} : final[u][k] \in Acceptable
        BY DEF PipelineInv, PublishedIsComplete, StoreTypeOK
    <2>2. u = task[w] => verdict[w] = "completed"
        BY <1>3
    <2>3. DOMAIN final'[u] = Kinds
        BY DEF TypeOK, StoreTypeOK
    <2> QED BY <2>1, <2>2, <2>3
<1>7. ObjectsStay
    BY <1>2 DEF ObjectsStay, Unsettled, rowVars
<1>8. WorkerSound(w)'
    <2>1. HasWork(w)'
        BY <1>1 DEF WorkerSound, HasWork, Drafted, rowVars
    <2>2. ClosesOwn(w)'
        BY <1>2 DEF ClosesOwn, rowVars
    <2>3. HasCopies(w)'
        BY <1>2 DEF HasCopies, Unsettled, rowVars
    <2> QED BY <1>1, <2>1, <2>2, <2>3
        DEF WorkerSound, KnowsVerdict, PastLoop, Processing, Closing, Cleaning
<1> QED BY <1>4, <1>5, <1>6, <1>7, <1>8, WorkerKept

\* The three deletions.
LEMMA CleanCoverSound ==
    ASSUME PipelineInv, NEW w \in Workers, CleanCover(w), UNCHANGED req
    PROVE  PipelineInv'
<1> USE Typed DEF CleanCover
<1>1. Closing(w) /\ task[w] \in Uploads /\ verdict[w] = "failed"
    BY DEF Closing, Cleaning, Active, PipelineInv, WorkersSound, WorkerSound,
           HasWork, ClosesOwn
<1>2. pc'[w] = "cleanStaged" /\ Closing(w)' /\ \A v \in Workers \ {w} : Still(v)
    BY DEF WorkerTypeOK, Closing, Cleaning, Still
<1>3. WorkerTypeOK'
    BY MoveTyped DEF WorkerTypeOK, WorkerPC, Cleaning
<1>4. StoreTypeOK'
    BY <1>1, BucketTyped, KindsAreNaturals DEF DeleteCover, Object
<1>5. \A x \in Uploads : cover'[x] = cover[x] \/ (x = task[w] /\ cover'[x] = NULL)
    BY DEF DeleteCover, bucketVars, StoreTypeOK
<1>6. UNCHANGED final
    BY DEF DeleteCover, bucketVars
<1> QED BY <1>1, <1>2, <1>3, <1>4, <1>5, <1>6, CleanupSound DEF TypeOK

\* A deletion of one staged object, whatever kind comes after it.
LEMMA CleanStagedSound ==
    ASSUME PipelineInv, NEW w \in Workers, CleanStaged(w), UNCHANGED req
    PROVE  PipelineInv'
<1> USE Typed DEF CleanStaged
<1>1. Closing(w) /\ task[w] \in Uploads
    BY DEF Closing, Cleaning, Active, PipelineInv, WorkersSound, WorkerSound,
           HasWork
<1>2. PICK label \in {"cleanStaged", "cleanFinal", "notify"} :
        pc' = [pc EXCEPT ![w] = label]
    BY NextKeyTyped
<1>3. UNCHANGED pos \/ \E k \in Kinds : pos' = [pos EXCEPT ![w] = k]
    BY NextKeyTyped
<1>4. pc'[w] = label /\ \A v \in Workers \ {w} : Still(v)
    BY <1>2, <1>3 DEF WorkerTypeOK, Still
<1>5. Closing(w)'
    BY <1>4 DEF Closing, Cleaning
<1>6. label = "cleanFinal" /\ verdict[w] = "completed" => pos'[w] = Image
    <2>1. CASE CleansFinal(w)
        BY <2>1 DEF CleansFinal
    <2>2. CASE ~CleansFinal(w)
        BY <1>4, <2>2 DEF NextKey, WorkerTypeOK
    <2> QED BY <2>1, <2>2
<1>7. WorkerTypeOK'
    BY <1>2, <1>3, MoveTyped DEF WorkerTypeOK, WorkerPC, Cleaning
<1>8. StoreTypeOK'
    <2>1. pos[w] \in Kinds /\ bundle[w][pos[w]].attempt \in Attempts \cup {0}
        BY StoreAssumption DEF WorkerTypeOK, AssetRow, Attempts
    <2>2. CASE UNCHANGED bucketVars
        BY <1>1, <2>1, <2>2, BucketTyped DEF Object
    <2>3. CASE DeleteStaged(task[w], pos[w], bundle[w][pos[w]].attempt)
        BY <1>1, <2>1, <2>3, BucketTyped DEF DeleteStaged, Object
    <2> QED BY <2>2, <2>3
<1>9. UNCHANGED <<final, cover>>
    BY DEF DeleteStaged, bucketVars
<1> QED BY <1>1, <1>4, <1>5, <1>6, <1>7, <1>8, <1>9, CleanupSound DEF TypeOK

\* A deletion of one copied object, whatever kind comes after it.
LEMMA CleanFinalSound ==
    ASSUME PipelineInv, NEW w \in Workers, CleanFinal(w), UNCHANGED req
    PROVE  PipelineInv'
<1> USE Typed DEF CleanFinal
<1>1. Closing(w) /\ task[w] \in Uploads /\ pos[w] \in Kinds
      /\ (verdict[w] = "completed" => pos[w] = Image)
    BY DEF Closing, Cleaning, Active, PipelineInv, WorkersSound, WorkerSound,
           HasWork, ClosesOwn, WorkerTypeOK
<1>2. PICK label \in {"cleanStaged", "notify"} : pc' = [pc EXCEPT ![w] = label]
    BY NextKeyTyped
<1>3. UNCHANGED pos \/ \E k \in Kinds : pos' = [pos EXCEPT ![w] = k]
    BY NextKeyTyped
<1>4. pc'[w] = label /\ \A v \in Workers \ {w} : Still(v)
    BY <1>2, <1>3 DEF WorkerTypeOK, Still
<1>5. Closing(w)'
    BY <1>4 DEF Closing, Cleaning
<1>6. WorkerTypeOK'
    BY <1>2, <1>3, MoveTyped DEF WorkerTypeOK, WorkerPC, Cleaning
<1>7. StoreTypeOK'
    BY <1>1, BucketTyped DEF DeleteFinal, Object
<1>8. \A x \in Uploads, k \in Kinds :
        final'[x][k] = final[x][k] \/
            /\ x = task[w] /\ final'[x][k] = NULL
            /\ verdict[w] = "completed" => k = Image
    <2>1. CASE UNCHANGED bucketVars
        BY <2>1 DEF bucketVars
    <2>2. CASE DeleteFinal(task[w], pos[w])
        <3>1. final' = [final EXCEPT ![task[w]][pos[w]] = NULL]
            BY <2>2 DEF DeleteFinal
        <3> QED BY <1>1, <3>1 DEF StoreTypeOK
    <2> QED BY <2>1, <2>2
<1>9. UNCHANGED cover
    BY DEF DeleteFinal, bucketVars
<1> QED BY <1>1, <1>4, <1>5, <1>6, <1>7, <1>8, <1>9, CleanupSound DEF TypeOK

\* No step of a worker, a lease or a client breaks it.
LEMMA WorkerNextSound ==
    ASSUME PipelineInv, WorkerNext, UNCHANGED req
    PROVE  PipelineInv'
<1>1. CASE \E w \in Workers : \/ ExpireSweep(w) \/ RequeueSweep(w)
                              \/ Work(w) \/ Heartbeat(w) \/ Mishap(w)
    BY <1>1, SweepSound, ClaimSound, CheckSourceSound, CopySourceSound,
       CompareCopySound, ReadCoverSound, WriteCoverSound, ValidateSound,
       InterruptedSound, JoinHeartbeatSound, SettleSound, DropSound,
       CleanCoverSound, CleanStagedSound, CleanFinalSound, HeartbeatSound
    DEF Work, Mishap
<1>2. CASE \E u \in Uploads : LeaseLapses(u)
    BY <1>2, LeaseLapsesSound
<1>3. CASE \E u \in Uploads, k \in Kinds, n \in Attempts, c \in Contents :
                ClientOverwrites(u, k, n, c)
    BY <1>3, ClientOverwritesSound
<1> QED BY <1>1, <1>2, <1>3 DEF WorkerNext

(***************************************************************************)
(* The requests.                                                           *)
(***************************************************************************)

\* The other requests keep what they have read.
OthersWait(r) == \A q \in Requests \ {r} : req'[q] = req[q]

\* A free slot is a well-typed one.
LEMMA IdleIsRequest == Idle \in Request
BY StoreAssumption, KindsAreNaturals
DEF Idle, Request, Stages, NoRows, NoAsset, AssetRow, Image

\* A slot that is free claims nothing.
LEMMA IdleRequest ==
    ASSUME PipelineInv, NEW r \in Requests, Finish(r)
    PROVE  ServiceTypeOK' /\ RequestSound(r)' /\ OthersWait(r) /\ req'[r] = Idle
<1>1. req'[r] = Idle /\ OthersWait(r) /\ ServiceTypeOK'
    BY IdleIsRequest, Typed DEF Finish, ServiceTypeOK, OthersWait
<1> QED BY <1>1 DEF RequestSound, Idle

\* The slot of a request after its first step, by what the step read.
Replacing(u, k) == [Idle EXCEPT !.at = "replace", !.upload = u, !.kind = k]
Confirming(u, k, n, c) ==
    [Idle EXCEPT !.at = "verify", !.upload = u, !.kind = k, !.attempt = n,
                 !.etag = c]
Loading(u, form) == [Idle EXCEPT !.at = "load", !.upload = u, !.form = form]
Answering(u) == [Idle EXCEPT !.at = "accepted", !.upload = u]

\* A slot that replaces the asset of a kind is a request.
LEMMA ReplacingSlot ==
    ASSUME NEW u \in Uploads, NEW k \in Kinds
    PROVE  /\ Replacing(u, k) \in Request
           /\ Replacing(u, k).at = "replace"
           /\ Replacing(u, k).upload = u /\ Replacing(u, k).kind = k
<1>1. "replace" \in Stages
    BY DEF Stages
<1> QED BY <1>1, IdleIsRequest DEF Request, Replacing

\* A slot that has stated an object and is about to confirm it is a request.
LEMMA VerifySlot ==
    ASSUME NEW u \in Uploads, NEW k \in Kinds, NEW n \in 0..MaxAttempts,
           NEW c \in Contents
    PROVE  /\ Confirming(u, k, n, c) \in Request
           /\ Confirming(u, k, n, c).at = "verify"
           /\ Confirming(u, k, n, c).upload = u
           /\ Confirming(u, k, n, c).attempt = n
           /\ Confirming(u, k, n, c).etag = c
<1>1. "verify" \in Stages
    BY DEF Stages
<1> QED BY <1>1, IdleIsRequest DEF Request, Confirming

\* A slot about to answer that the upload was accepted is a request.
LEMMA AcceptedSlot ==
    ASSUME NEW u \in Uploads
    PROVE  /\ Answering(u) \in Request
           /\ Answering(u).at = "accepted" /\ Answering(u).upload = u
<1>1. "accepted" \in Stages
    BY DEF Stages
<1> QED BY <1>1, IdleIsRequest DEF Request, Answering

\* A slot that has read the session and not yet its assets is a request.
LEMMA LoadingSlot ==
    ASSUME NEW u \in Uploads, NEW form \in Metadata \cup {NULL}
    PROVE  /\ Loading(u, form) \in Request
           /\ Loading(u, form).at = "load" /\ Loading(u, form).upload = u
<1>1. "load" \in Stages
    BY DEF Stages
<1> QED BY <1>1, IdleIsRequest DEF Request, Loading

\* A write of one asset row.
LEMMA AssetWritten ==
    ASSUME StoreTypeOK, NEW u \in Uploads, NEW k \in Kinds, NEW row \in AssetRow,
           assets' = [assets EXCEPT ![u] = [assets[u] EXCEPT ![k] = row]]
    PROVE  /\ assets' \in [Uploads -> [Kinds -> AssetRow]]
           /\ assets'[u][k] = row
           /\ \A x \in Uploads \ {u} : assets'[x] = assets[x]
           /\ \A j \in Kinds \ {k} : assets'[u][j] = assets[u][j]
<1>1. assets \in [Uploads -> [Kinds -> AssetRow]]
    BY DEF StoreTypeOK
<1>2. [assets[u] EXCEPT ![k] = row] \in [Kinds -> AssetRow]
    BY <1>1
<1>3. assets'[u] = [assets[u] EXCEPT ![k] = row]
    BY <1>1
<1> QED BY <1>1, <1>2, <1>3

\* A step of one request, given what becomes of rows and objects and what it
\* answers.
LEMMA RequestKept ==
    ASSUME PipelineInv, NEW r \in Requests, OthersWait(r), UNCHANGED workerVars,
           StoreTypeOK', ServiceTypeOK', RowsSound', JobsStay,
           UNCHANGED <<final, cover>>, RequestSound(r)',
           \A u \in Uploads : spec'[u].status = "completed" =>
                              spec[u].status = "completed",
           req'[r].at = "accepted" => /\ req'[r].upload \in Uploads
                                      /\ ~Drafted(req[r].upload)'
    PROVE  PipelineInv'
<1> USE Typed
<1>1. ObjectsSound' /\ PublishedIsComplete' /\ ObjectsStay
    BY ObjectsKept DEF PipelineInv
<1>2. PipelineTypeOK'
    BY DEF PipelineTypeOK, TypeOK, WorkerTypeOK, workerVars
<1>3. RequestsSound'
    BY DEF PipelineInv, RequestsSound, RequestSound, OthersWait
<1>4. AcknowledgedIsDurable'
    <2>1. \A q \in Requests \ {r} : req'[q].at = "accepted" =>
            /\ job'[req'[q].upload].status # "none"
            /\ spec'[req'[q].upload].status # "none"
            /\ spec'[req'[q].upload].metadata \in Metadata
        BY StillAnswers DEF PipelineInv, RowsSound, OthersWait
    <2>2. req'[r].at = "accepted" =>
            /\ job'[req'[r].upload].status # "none"
            /\ spec'[req'[r].upload].status # "none"
            /\ spec'[req'[r].upload].metadata \in Metadata
        BY DEF RowsSound, RowsAgree, FormsStored, Drafted, Outcomes
    <2> QED BY <2>1, <2>2 DEF AcknowledgedIsDurable
<1>5. WorkersSound'
    <2>1. \A v \in Workers : kind[v] \in Kinds /\ Still(v)
        BY DEF WorkerTypeOK, workerVars, Still
    <2> QED BY <1>1, <2>1, StillSound DEF PipelineInv, WorkersSound
<1> QED BY <1>1, <1>2, <1>3, <1>4, <1>5 DEF PipelineInv

\* The same, for a request that only reads.
LEMMA ReaderKept ==
    ASSUME PipelineInv, NEW r \in Requests, OthersWait(r), UNCHANGED workerVars,
           UNCHANGED storeVars, ServiceTypeOK', RequestSound(r)',
           req'[r].at = "accepted" => /\ req'[r].upload \in Uploads
                                      /\ ~Drafted(req'[r].upload)
    PROVE  PipelineInv'
<1>1. RowsSound' /\ JobsStay
    BY RowsKept DEF PipelineInv, storeVars
<1>2. StoreTypeOK'
    BY Typed DEF storeVars, rowVars, bucketVars, StoreTypeOK
<1> QED BY <1>1, <1>2, RequestKept DEF storeVars, rowVars, bucketVars, Drafted

\* A request that moved on with a well-typed record of what it read.
LEMMA MovedOn ==
    ASSUME PipelineInv, NEW r \in Requests, NEW q \in Request,
           req' = [req EXCEPT ![r] = q]
    PROVE  req'[r] = q /\ OthersWait(r) /\ ServiceTypeOK'
BY Typed DEF ServiceTypeOK, OthersWait

\* A request that ends without having changed anything.
LEMMA EndsSound ==
    ASSUME PipelineInv, NEW r \in Requests, Finish(r), UNCHANGED storeVars,
           UNCHANGED workerVars
    PROVE  PipelineInv'
BY IdleRequest, ReaderKept DEF Idle

(***************************************************************************)
(* The writes before an upload is accepted.                                *)
(***************************************************************************)

\* The rows of an open upload may change as long as its assets stay sound.
LEMMA DraftRows ==
    ASSUME RowsSound, StoreTypeOK, UNCHANGED <<spec, job>>, AssetsSound',
           \A u \in Uploads : assets'[u] = assets[u] \/ Drafted(u),
           \A u \in Uploads : session'[u] = session[u] \/
                /\ session[u] \in {"none", "uploading", "expired"}
                /\ session'[u] \in {"none", "uploading", "expired"}
    PROVE  RowsSound' /\ JobsStay
<1>1. RowsAgree'
    BY DEF RowsSound, RowsAgree
<1>2. AcceptedIsVerified' /\ FormsStored' /\ JobsStay
    BY DEF RowsSound, AcceptedIsVerified, FormsStored, JobsStay, Drafted
<1> QED BY <1>1, <1>2 DEF RowsSound

\* A step that no request is at work in.
LEMMA NobodyKept ==
    ASSUME PipelineInv, UNCHANGED <<req, final, cover>>, UNCHANGED workerVars,
           StoreTypeOK', RowsSound', JobsStay, UNCHANGED spec
    PROVE  PipelineInv'
<1>1. WorkerTypeOK'
    BY Typed DEF WorkerTypeOK, workerVars
<1>2. \A v \in Workers : Still(v)
    BY DEF workerVars, Still
<1> QED BY <1>1, <1>2, OutsideKept DEF TypeOK

\* Initiate, SaveMetadata and the passing of a deadline.
LEMMA OpenSound ==
    ASSUME PipelineInv, NEW u \in Uploads, UNCHANGED workerVars,
           \/ Initiate(u) \/ (DeadlinePasses(u) /\ UNCHANGED req)
           \/ \E m \in Metadata : SaveMetadata(u, m)
    PROVE  PipelineInv'
<1> USE Typed DEF Initiate, CreateSession, DeadlinePasses, SaveMetadata,
                  UpdateSessionMetadata
<1>1. StoreTypeOK'
    BY DEF StoreTypeOK, SessionStatus, bucketVars
<1>2. UNCHANGED <<spec, job, assets, final, cover, req>>
    BY DEF bucketVars
<1>3. RowsSound' /\ JobsStay
    <2>1. AssetsSound'
        BY <1>2 DEF PipelineInv, RowsSound, AssetsSound
    <2>2. \A x \in Uploads : session'[x] = session[x] \/
                /\ session[x] \in {"none", "uploading", "expired"}
                /\ session'[x] \in {"none", "uploading", "expired"}
        BY DEF StoreTypeOK
    <2> QED BY <1>2, <2>1, <2>2, DraftRows DEF PipelineInv
<1> QED BY <1>1, <1>2, <1>3, NobodyKept

\* PrepareFile finds the session open under the row lock.
LEMMA PrepareFileSound ==
    ASSUME PipelineInv, NEW r \in Requests, NEW u \in Uploads, NEW k \in Kinds,
           PrepareFile(r, u, k), UNCHANGED workerVars
    PROVE  PipelineInv'
<1> DEFINE q == Replacing(u, k)
<1>1. q \in Request /\ q.at = "replace" /\ q.upload = u
    BY ReplacingSlot
<1>2. req' = [req EXCEPT ![r] = q] /\ UNCHANGED storeVars
    BY DEF PrepareFile, Replacing
<1> HIDE DEF q
<1>3. req'[r] = q /\ OthersWait(r) /\ ServiceTypeOK'
    BY <1>1, <1>2, MovedOn
<1>4. RequestSound(r)'
    BY <1>1, <1>3 DEF RequestSound
<1> QED BY <1>1, <1>2, <1>3, <1>4, ReaderKept

\* Its commit: a new asset, not verified yet, replaces the kind's row. The
\* upload is still a draft, for nobody else wrote the row it holds.
LEMMA PrepareCommitSound ==
    ASSUME PipelineInv, LocksSound, NEW r \in Requests, PrepareCommit(r),
           UNCHANGED workerVars
    PROVE  PipelineInv'
<1> USE Typed DEF PrepareCommit, ReplaceAsset
<1> DEFINE u == req[r].upload
           k == req[r].kind
           n == assets[u][k].attempt + 1
<1>0. /\ req[r] \in Request /\ u \in Uploads /\ k \in Kinds
      /\ session[u] = "uploading" /\ assets[u][k].attempt < MaxAttempts
    BY DEF PipelineInv, RequestsSound, RequestSound, ServiceTypeOK, Request,
        LocksSound, Holds
<1>1. n \in Attempts /\ n \in 0..MaxAttempts
    BY <1>0, StoreAssumption DEF StoreTypeOK, AssetRow, Attempts
<1>2. [attempt |-> n, etag |-> NULL] \in AssetRow
    BY <1>1 DEF AssetRow
<1>3. assets' = [assets EXCEPT ![u] =
                    [assets[u] EXCEPT ![k] = [attempt |-> n, etag |-> NULL]]]
    OBVIOUS
<1>4. /\ assets' \in [Uploads -> [Kinds -> AssetRow]]
      /\ assets'[u][k] = [attempt |-> n, etag |-> NULL]
      /\ \A x \in Uploads \ {u} : assets'[x] = assets[x]
      /\ \A j \in Kinds \ {k} : assets'[u][j] = assets[u][j]
    <2> DEFINE row == [attempt |-> n, etag |-> NULL]
    <2>1. StoreTypeOK /\ row \in AssetRow
        BY <1>2
    <2>2. assets' = [assets EXCEPT ![u] = [assets[u] EXCEPT ![k] = row]]
        BY <1>3
    <2> HIDE DEF n, row, PrepareCommit, u, k
    <2>3. /\ assets' \in [Uploads -> [Kinds -> AssetRow]]
          /\ assets'[u][k] = row
          /\ \A x \in Uploads \ {u} : assets'[x] = assets[x]
          /\ \A j \in Kinds \ {k} : assets'[u][j] = assets[u][j]
        BY <1>0, <2>1, <2>2, AssetWritten
    <2> QED BY <2>3 DEF row
<1>5. StoreTypeOK'
    BY <1>4 DEF StoreTypeOK, bucketVars
<1>6. Drafted(u)
    BY <1>0 DEF PipelineInv, RowsSound, RowsAgree, Drafted
<1>7. AssetsSound'
    BY <1>4 DEF PipelineInv, RowsSound, AssetsSound
<1>8. RowsSound' /\ JobsStay
    BY <1>4, <1>6, <1>7, DraftRows DEF PipelineInv
<1> DEFINE p == assets[u][k].attempt
           q == [req[r] EXCEPT !.at = "respond", !.attempt = n, !.previous = p]
<1>9. p \in 0..MaxAttempts
    BY <1>0 DEF StoreTypeOK, AssetRow
<1>10. q \in Request /\ q.at = "respond" /\ q.upload = u /\ q.attempt = n
    <2> HIDE DEF n, p, PrepareCommit
    <2> QED BY <1>0, <1>1, <1>9 DEF Request, Stages
<1>11. req'[r] = q /\ OthersWait(r) /\ ServiceTypeOK'
    <2>1. req' = [req EXCEPT ![r] = q]
        OBVIOUS
    <2> HIDE DEF q, n, p, PrepareCommit
    <2> QED BY <1>10, <2>1 DEF ServiceTypeOK, OthersWait
<1>12. RequestSound(r)'
    <2> HIDE DEF q, n, p, PrepareCommit
    <2> QED BY <1>0, <1>1, <1>10, <1>11 DEF RequestSound
<1> HIDE DEF q, n, p
<1> QED BY <1>5, <1>8, <1>10, <1>11, <1>12, RequestKept DEF bucketVars

\* The URL goes to the client after the old object went.
LEMMA RespondPreparedSound ==
    ASSUME PipelineInv, NEW r \in Requests, RespondPrepared(r), UNCHANGED workerVars
    PROVE  PipelineInv'
<1> USE Typed DEF RespondPrepared
<1>1. /\ req[r].upload \in Uploads /\ req[r].attempt \in Attempts
      /\ req[r].kind \in Kinds /\ req[r].previous \in 0..MaxAttempts
    BY DEF PipelineInv, RequestsSound, RequestSound, ServiceTypeOK, Request
<1>2. staged' \in [Uploads -> [Kinds -> [Attempts -> Object]]]
    <2>1. CASE UNCHANGED staged
        BY <2>1 DEF StoreTypeOK
    <2>2. CASE staged' = [staged EXCEPT ![req[r].upload][req[r].kind][req[r].previous]
                                    = NULL]
        <3>1. staged[req[r].upload] \in [Kinds -> [Attempts -> Object]]
            BY <1>1 DEF StoreTypeOK
        <3>2. NULL \in Object
            BY DEF Object
        <3>3. [staged[req[r].upload] EXCEPT ![req[r].kind][req[r].previous] = NULL]
                \in [Kinds -> [Attempts -> Object]]
            BY <1>1, <3>1, <3>2
        <3> QED BY <2>2, <3>3 DEF StoreTypeOK
    <2> QED BY <2>1, <2>2
<1>3. issued' \in [Uploads -> [Kinds -> SUBSET Attempts]]
    <2>1. issued[req[r].upload] \in [Kinds -> SUBSET Attempts]
        BY <1>1 DEF StoreTypeOK
    <2>2. issued' = [issued EXCEPT ![req[r].upload] =
            [issued[req[r].upload] EXCEPT ![req[r].kind] =
                issued[req[r].upload][req[r].kind] \cup {req[r].attempt}]]
        OBVIOUS
    <2>3. [issued[req[r].upload] EXCEPT ![req[r].kind] =
                issued[req[r].upload][req[r].kind] \cup {req[r].attempt}]
            \in [Kinds -> SUBSET Attempts]
        BY <1>1, <2>1
    <2> QED BY <2>2, <2>3 DEF StoreTypeOK
<1>4. StoreTypeOK'
    BY <1>2, <1>3 DEF StoreTypeOK, rowVars
<1>5. RowsSound' /\ JobsStay
    BY RowsKept DEF PipelineInv
<1> QED BY <1>4, <1>5, IdleRequest, RequestKept DEF Idle, rowVars

(***************************************************************************)
(* ConfirmFile and Complete.                                               *)
(***************************************************************************)

\* The HEAD of ConfirmFile finds an acceptable content.
LEMMA ConfirmFileSound ==
    ASSUME PipelineInv, NEW r \in Requests, NEW u \in Uploads, NEW k \in Kinds,
           NEW n \in Attempts, ConfirmFile(r, u, k, n), UNCHANGED workerVars
    PROVE  PipelineInv'
<1> USE Typed DEF ConfirmFile
<1> DEFINE q == Confirming(u, k, n, staged[u][k][n])
<1>1. staged[u][k][n] \in Acceptable
    BY DEF Acceptance
<1>2. /\ q \in Request /\ q.at = "verify" /\ q.upload = u
      /\ q.attempt = n /\ q.etag = staged[u][k][n]
    <2>1. staged[u][k][n] \in Contents /\ n \in 0..MaxAttempts
        BY <1>1, StoreAssumption DEF Attempts
    <2> HIDE DEF ConfirmFile
    <2> QED BY <2>1, VerifySlot
<1>3. req' = [req EXCEPT ![r] = q]
    BY DEF Confirming
<1>4. req'[r] = q /\ OthersWait(r) /\ ServiceTypeOK'
    <2> HIDE DEF q
    <2> QED BY <1>2, <1>3, MovedOn
<1>5. RequestSound(r)' /\ req'[r].at = "verify"
    BY <1>1, <1>2, <1>4 DEF RequestSound
<1> QED BY <1>4, <1>5, ReaderKept

\* The statement of VerifyAsset starts.
LEMMA VerifySnapshotSound ==
    ASSUME PipelineInv, NEW r \in Requests, VerifySnapshot(r), UNCHANGED workerVars
    PROVE  PipelineInv'
<1> USE Typed DEF VerifySnapshot
<1>1. CASE Finish(r)
    BY <1>1, EndsSound
<1>2. CASE req' = [req EXCEPT ![r].at = "apply"]
    <2>1. req[r] \in Request
        BY DEF ServiceTypeOK
    <2>2. [req[r] EXCEPT !.at = "apply"] \in Request
        BY <2>1 DEF Request, Stages
    <2>3. /\ req'[r] = [req[r] EXCEPT !.at = "apply"]
          /\ OthersWait(r) /\ ServiceTypeOK'
        BY <1>2, <2>2, MovedOn
    <2>4. /\ req'[r].at = "apply" /\ req'[r].upload = req[r].upload
          /\ req'[r].attempt = req[r].attempt /\ req'[r].etag = req[r].etag
        BY <2>1, <2>3 DEF Request
    <2>5. RequestSound(r)'
        BY <2>4 DEF PipelineInv, RequestsSound, RequestSound
    <2> QED BY <2>3, <2>4, <2>5, ReaderKept
<1> QED BY <1>1, <1>2

\* It reaches the asset row, even of an upload accepted meanwhile: what it
\* writes passed HEAD.
LEMMA VerifyApplySound ==
    ASSUME PipelineInv, NEW r \in Requests, VerifyApply(r), UNCHANGED workerVars
    PROVE  PipelineInv'
<1> USE Typed DEF VerifyApply
<1>1. CASE UNCHANGED rowVars
    <2>1. UNCHANGED storeVars
        BY <1>1 DEF storeVars
    <2> QED BY <2>1, EndsSound
<1>2. CASE VerifyAsset(req[r].upload, req[r].kind, req[r].attempt, req[r].etag)
    <2> DEFINE u == req[r].upload
               k == req[r].kind
    <2> USE <1>2 DEF VerifyAsset
    <2>1. /\ u \in Uploads /\ k \in Kinds /\ req[r].etag \in Acceptable
          /\ req[r].attempt \in Attempts
        BY DEF PipelineInv, RequestsSound, RequestSound, ServiceTypeOK, Request
    <2>2. assets[u] \in [Kinds -> AssetRow] /\ assets[u][k] \in AssetRow
        BY <2>1 DEF StoreTypeOK
    <2>3. [assets[u][k] EXCEPT !.etag = req[r].etag] \in AssetRow
        BY <2>1, <2>2, StoreAssumption DEF AssetRow
    <2>4. assets' = [assets EXCEPT ![u] = [assets[u] EXCEPT
                        ![k] = [assets[u][k] EXCEPT !.etag = req[r].etag]]]
        OBVIOUS
    <2> DEFINE row == [assets[u][k] EXCEPT !.etag = req[r].etag]
    <2>5. /\ assets' \in [Uploads -> [Kinds -> AssetRow]]
          /\ assets'[u][k] = row
          /\ \A x \in Uploads \ {u} : assets'[x] = assets[x]
          /\ \A j \in Kinds \ {k} : assets'[u][j] = assets[u][j]
        <3> HIDE DEF row, VerifyAsset, VerifyApply, u, k
        <3> QED BY <2>1, <2>3, <2>4, AssetWritten DEF row
    <2>6. StoreTypeOK'
        BY <2>5 DEF StoreTypeOK, bucketVars
    <2>7. \A x \in Uploads, j \in Kinds :
            \/ assets'[x][j] = assets[x][j]
            \/ /\ assets'[x][j].attempt = assets[x][j].attempt
               /\ assets'[x][j].etag \in Acceptable
        <3>1. row.attempt = assets[u][k].attempt /\ row.etag \in Acceptable
            BY <2>1, <2>2 DEF AssetRow
        <3> HIDE DEF row, VerifyAsset, VerifyApply, u, k
        <3> QED BY <2>5, <3>1
    <2>8. RowsSound' /\ JobsStay
        <3>1. RowsAgree' /\ FormsStored' /\ JobsStay
            BY DEF PipelineInv, RowsSound, RowsAgree, FormsStored, JobsStay, Drafted
        <3>2. AssetsSound'
            BY <2>7 DEF PipelineInv, RowsSound, AssetsSound
        <3>3. AcceptedIsVerified'
            <4>1. \A x \in Uploads : DOMAIN assets'[x] = Kinds /\ DOMAIN assets[x] = Kinds
                BY <2>5 DEF StoreTypeOK
            <4>2. UNCHANGED job /\ AcceptedIsVerified
                BY DEF PipelineInv, RowsSound
            <4> HIDE DEF VerifyAsset, VerifyApply, u, k
            <4> QED BY <2>7, <4>1, <4>2 DEF AcceptedIsVerified
        <3> QED BY <3>1, <3>2, <3>3 DEF RowsSound
    <2> QED BY <2>6, <2>8, IdleRequest, RequestKept DEF Idle, bucketVars
<1> QED BY <1>1, <1>2

\* Complete reads the session: what is settled is accepted, what is open is
\* looked at more closely.
LEMMA CompleteLoadSound ==
    ASSUME PipelineInv, NEW r \in Requests, NEW u \in Uploads, CompleteLoad(r, u),
           UNCHANGED workerVars
    PROVE  PipelineInv'
<1> USE Typed
<1>1. CASE /\ Settled(u)
           /\ req' = [req EXCEPT ![r] = [Idle EXCEPT !.at = "accepted", !.upload = u]]
    <2> DEFINE q == Answering(u)
    <2>1. q \in Request /\ q.at = "accepted" /\ q.upload = u
        BY AcceptedSlot
    <2>2. req' = [req EXCEPT ![r] = q]
        BY <1>1 DEF Answering
    <2>3. req'[r] = q /\ OthersWait(r) /\ ServiceTypeOK'
        <3> HIDE DEF q
        <3> QED BY <2>1, <2>2, MovedOn
    <2>4. ~Drafted(u)
        BY <1>1 DEF Settled, PipelineInv, RowsSound, RowsAgree, Drafted
    <2>5. RequestSound(r)' /\ req'[r].upload = u
        BY <2>1, <2>3 DEF RequestSound
    <2> QED BY <2>3, <2>4, <2>5, ReaderKept DEF CompleteLoad
<1>2. CASE /\ Open(u)
           /\ req' = [req EXCEPT ![r] = [Idle EXCEPT !.at = "load",
                                        !.upload = u, !.form = metadata[u]]]
    <2> DEFINE q == Loading(u, metadata[u])
    <2>1. q \in Request /\ q.at = "load" /\ q.upload = u
        <3>1. metadata[u] \in Metadata \cup {NULL}
            BY DEF StoreTypeOK
        <3> QED BY <3>1, LoadingSlot
    <2>2. req' = [req EXCEPT ![r] = q]
        BY <1>2 DEF Loading
    <2>3. req'[r] = q /\ OthersWait(r) /\ ServiceTypeOK'
        <3> HIDE DEF q
        <3> QED BY <2>1, <2>2, MovedOn
    <2>4. RequestSound(r)' /\ req'[r].at = "load"
        BY <2>1, <2>3 DEF RequestSound
    <2> QED BY <2>3, <2>4, ReaderKept DEF CompleteLoad
<1> QED BY <1>1, <1>2 DEF CompleteLoad

\* Then it reads the assets; the object of each is stat'ed next.
LEMMA CompleteAssetsSound ==
    ASSUME PipelineInv, NEW r \in Requests, CompleteAssets(r), UNCHANGED workerVars
    PROVE  PipelineInv'
<1> USE Typed
<1> DEFINE u == req[r].upload
<1>1. CASE Finish(r)
    BY <1>1, EndsSound DEF CompleteAssets
<1>2. CASE /\ Ready(assets[u])
           /\ req' = [req EXCEPT ![r].at = "stat", ![r].rows = assets[u]]
    <2> DEFINE q == [req[r] EXCEPT !.at = "stat", !.rows = assets[u]]
    <2>1. /\ req[r] \in Request /\ u \in Uploads
          /\ assets[u] \in [Kinds -> AssetRow]
        BY DEF CompleteAssets, PipelineInv, RequestsSound, RequestSound,
            ServiceTypeOK, StoreTypeOK
    <2>2. q \in Request /\ q.at = "stat" /\ q.upload = u /\ q.rows = assets[u]
        BY <2>1 DEF Request, Stages
    <2>3. req'[r] = q /\ OthersWait(r) /\ ServiceTypeOK'
        <3>1. req' = [req EXCEPT ![r] = q]
            BY <1>2
        <3> HIDE DEF q
        <3> QED BY <2>2, <3>1, MovedOn
    <2>4. \A k \in Kinds : /\ assets[u][k].attempt \in Attempts
                           /\ assets[u][k].etag \in Acceptable
        <3>1. \A k \in Kinds : assets[u][k].attempt \in 0..MaxAttempts
            BY <2>1 DEF StoreTypeOK, AssetRow
        <3>2. \A n \in 0..MaxAttempts : n # 0 => n \in Attempts
            BY StoreAssumption DEF Attempts
        <3>3. \A k \in Kinds : /\ assets[u][k].attempt # 0
                               /\ assets[u][k].etag \in Acceptable
            BY <1>2, <2>1 DEF Ready, PipelineInv, RowsSound, AssetsSound
        <3> QED BY <3>1, <3>2, <3>3
    <2>5. RequestSound(r)' /\ req'[r].at = "stat"
        BY <2>1, <2>2, <2>3, <2>4 DEF RequestSound
    <2> QED BY <2>3, <2>5, ReaderKept DEF CompleteAssets
<1> QED BY <1>1, <1>2 DEF CompleteAssets

\* Each object is stat'ed again; what replaces the row's ETag is acceptable.
LEMMA CompleteStatSound ==
    ASSUME PipelineInv, NEW r \in Requests, CompleteStat(r), UNCHANGED workerVars
    PROVE  PipelineInv'
<1> USE Typed
<1> DEFINE u == req[r].upload
           k == req[r].kind
           n == req[r].rows[req[r].kind].attempt
<1>1. CASE ~Acceptance(u, k, n)
    BY <1>1, EndsSound DEF CompleteStat
<1>2. CASE Acceptance(u, k, n)
    <2> DEFINE etag == staged[u][k][n]
               label == IF LastKind(k) THEN "finalize" ELSE "stat"
               next == IF LastKind(k) THEN k ELSE k + 1
               rows == [req[r].rows EXCEPT ![k] = [req[r].rows[k] EXCEPT !.etag = etag]]
               q == [req[r] EXCEPT !.rows = rows, !.kind = next, !.at = label]
    <2>1. /\ req[r] \in Request /\ req[r].at = "stat" /\ u \in Uploads
          /\ k \in Kinds /\ etag \in Acceptable
          /\ req[r].rows \in [Kinds -> AssetRow]
        BY <1>2 DEF CompleteStat, PipelineInv, RequestsSound, RequestSound,
                    ServiceTypeOK, Request, Acceptance
    <2>2. req' = [req EXCEPT ![r] = q]
        BY <1>2 DEF CompleteStat
    <2>3. [req[r].rows[k] EXCEPT !.etag = etag] \in AssetRow
        BY <2>1, StoreAssumption DEF AssetRow
    <2>4. rows \in [Kinds -> AssetRow]
        BY <2>1, <2>3
    <2>5. next \in Kinds
        <3>1. k \in Nat /\ NumKinds \in Nat
            BY <2>1, KindsAreNaturals
        <3>2. ~LastKind(k) => k < NumKinds
            BY <3>1 DEF LastKind
        <3> HIDE DEF k
        <3> QED BY <2>1, <3>2, KindsAreNaturals
    <2>6. label \in Stages /\ label \in {"stat", "finalize"}
        BY DEF Stages
    <2>7. q \in Request
        <3> HIDE DEF rows, next, label
        <3> QED BY <2>1, <2>4, <2>5, <2>6 DEF Request
    <2>8. req'[r] = q /\ OthersWait(r) /\ ServiceTypeOK'
        <3> HIDE DEF q
        <3> QED BY <2>2, <2>7, MovedOn
    <2>9. req'[r].at = label /\ req'[r].upload = u /\ req'[r].rows = rows
        <3> HIDE DEF rows, next, label
        <3> QED BY <2>1, <2>8 DEF Request
    <2>10. \A j \in Kinds : /\ rows[j].attempt \in Attempts
                            /\ rows[j].etag \in Acceptable
        <3>1. \A j \in Kinds : /\ req[r].rows[j].attempt \in Attempts
                               /\ req[r].rows[j].etag \in Acceptable
            BY <2>1 DEF PipelineInv, RequestsSound, RequestSound
        <3>2. \A j \in Kinds \ {k} : rows[j] = req[r].rows[j]
            BY <2>1
        <3>3. /\ rows[k].attempt = req[r].rows[k].attempt
              /\ rows[k].etag = etag
            BY <2>1 DEF AssetRow
        <3> QED BY <2>1, <3>1, <3>2, <3>3
    <2>11. RequestSound(r)'
        <3> HIDE DEF rows, label
        <3> QED BY <2>1, <2>6, <2>9, <2>10 DEF RequestSound
    <2>12. UNCHANGED storeVars /\ req'[r].at # "accepted"
        BY <2>6, <2>9 DEF CompleteStat
    <2> QED BY <2>8, <2>11, <2>12, ReaderKept
<1> QED BY <1>1, <1>2

\* FinalizeUpload: assets, spec, job and session of the upload at once.
LEMMA CompleteFinalizeSound ==
    ASSUME PipelineInv, NEW r \in Requests, CompleteFinalize(r), UNCHANGED workerVars
    PROVE  PipelineInv'
<1> USE Typed
<1> DEFINE u == req[r].upload
           rows == req[r].rows
           form == req[r].form
<1>1. /\ req[r] \in Request /\ u \in Uploads /\ rows \in [Kinds -> AssetRow]
      /\ form \in Metadata
      /\ \A k \in Kinds : rows[k].attempt \in Attempts /\ rows[k].etag \in Acceptable
    BY DEF CompleteFinalize, PipelineInv, RequestsSound, RequestSound,
           ServiceTypeOK, Request
<1>2. /\ session[u] = "uploading" /\ session' = [session EXCEPT ![u] = "queued"]
      /\ spec' = [spec EXCEPT ![u] = [status |-> "processing", metadata |-> form]]
      /\ job' = [job EXCEPT ![u] = [NoJob EXCEPT !.status = "queued"]]
      /\ assets' = [assets EXCEPT ![u] = [k \in Kinds |->
                        IF Current(u, k, rows[k].attempt) THEN rows[k]
                        ELSE assets[u][k]]]
      /\ SnapshotCurrent(u, rows)
      /\ UNCHANGED <<overdue, metadata, bucketVars>>
      /\ req' = [req EXCEPT ![r].at = "accepted"]
    BY DEF CompleteFinalize, FinalizeUpload
<1>3. assets'[u] = rows /\ \A x \in Uploads \ {u} : assets'[x] = assets[x]
    <2>1. assets'[u] = [k \in Kinds |-> rows[k]]
        BY <1>1, <1>2 DEF SnapshotCurrent, StoreTypeOK
    <2> QED BY <1>1, <1>2, <2>1 DEF StoreTypeOK
<1>4. /\ job'[u] = [status |-> "queued", worker |-> NULL, lease |-> "none"]
      /\ spec'[u] = [status |-> "processing", metadata |-> form]
      /\ session'[u] = "queued"
      /\ \A x \in Uploads \ {u} :
            job'[x] = job[x] /\ spec'[x] = spec[x] /\ session'[x] = session[x]
    BY <1>1, <1>2 DEF StoreTypeOK, NoJob
<1>5. StoreTypeOK'
    <2>1. assets' \in [Uploads -> [Kinds -> AssetRow]]
        <3>1. assets' = [assets EXCEPT ![u] = rows]
            BY <1>1, <1>2, <1>3 DEF StoreTypeOK
        <3> QED BY <1>1, <3>1 DEF StoreTypeOK
    <2>2. [status |-> "processing", metadata |-> form] \in SpecRow
        BY <1>1 DEF SpecRow, SpecStatus
    <2>3. [NoJob EXCEPT !.status = "queued"] \in JobRow
        BY DEF NoJob, JobRow, JobStatus
    <2>4. "queued" \in SessionStatus
        BY DEF SessionStatus
    <2> QED BY <1>1, <1>2, <2>1, <2>2, <2>3, <2>4 DEF StoreTypeOK, bucketVars
<1>6. Drafted(u)
    BY <1>1, <1>2 DEF PipelineInv, RowsSound, RowsAgree, Drafted
<1>7. RowsSound' /\ JobsStay
    <2>1. RowsAgree'
        BY <1>4 DEF PipelineInv, RowsSound, RowsAgree, Outcomes
    <2>2. AssetsSound'
        BY <1>1, <1>3 DEF PipelineInv, RowsSound, AssetsSound
    <2>3. AcceptedIsVerified'
        <3>1. \A k \in Kinds : rows[k].attempt # 0
            BY <1>1 DEF Attempts
        <3>2. DOMAIN rows = Kinds
            BY <1>1
        <3> QED BY <1>1, <1>3, <1>4, <3>1, <3>2
            DEF PipelineInv, RowsSound, AcceptedIsVerified
    <2>4. FormsStored'
        BY <1>1, <1>4 DEF PipelineInv, RowsSound, FormsStored, Drafted
    <2>5. JobsStay
        BY <1>4, <1>6 DEF JobsStay, Drafted, Outcomes
    <2> QED BY <2>1, <2>2, <2>3, <2>4, <2>5 DEF RowsSound
<1>8. [req[r] EXCEPT !.at = "accepted"] \in Request
    BY <1>1 DEF Request, Stages
<1>9. /\ req'[r] = [req[r] EXCEPT !.at = "accepted"]
      /\ OthersWait(r) /\ ServiceTypeOK'
    BY <1>2, <1>8, MovedOn
<1>10. req'[r].at = "accepted" /\ req'[r].upload = u
    BY <1>1, <1>9 DEF Request
<1>11. RequestSound(r)'
    BY <1>1, <1>10 DEF RequestSound
<1>12. ~Drafted(req[r].upload)'
    BY <1>4, <1>10 DEF Drafted
<1>13. \A x \in Uploads : spec'[x].status = "completed" => spec[x].status = "completed"
    BY <1>4
<1> QED BY <1>1, <1>2, <1>5, <1>7, <1>9, <1>10, <1>11, <1>12, <1>13, RequestKept
    DEF bucketVars

\* A request takes the row lock, or is refused, reads the session again and
\* answers as its rival's success or not at all.
LEMMA CompleteRestSound ==
    ASSUME PipelineInv, NEW r \in Requests, UNCHANGED workerVars,
           CompleteLock(r) \/ CompleteRollback(r) \/ CompleteRefused(r)
               \/ CompleteReload(r) \/ RespondAccepted(r) \/ RequestDies(r)
    PROVE  PipelineInv'
<1> USE Typed
<1>1. UNCHANGED storeVars
    BY DEF CompleteLock, CompleteRollback, CompleteRefused, CompleteReload,
        RespondAccepted, RequestDies
<1>2. CASE Finish(r)
    BY <1>1, <1>2, EndsSound
<1>3. ASSUME NEW label \in {"commit", "reload", "accepted"}, req[r].at # "idle",
             req' = [req EXCEPT ![r].at = label],
             label = "commit" => req[r].at = "finalize" /\ req[r].form # NULL,
             label = "accepted" => Settled(req[r].upload)
      PROVE  PipelineInv'
    <2>1. req[r] \in Request /\ req[r].upload \in Uploads
        BY <1>3 DEF PipelineInv, RequestsSound, RequestSound, ServiceTypeOK
    <2>2. [req[r] EXCEPT !.at = label] \in Request
        BY <2>1 DEF Request, Stages
    <2>3. /\ req'[r] = [req[r] EXCEPT !.at = label]
          /\ OthersWait(r) /\ ServiceTypeOK'
        BY <1>3, <2>2, MovedOn
    <2>4. /\ req'[r].at = label /\ req'[r].upload = req[r].upload
          /\ req'[r].rows = req[r].rows /\ req'[r].form = req[r].form
        BY <2>1, <2>3 DEF Request
    <2>5. RequestSound(r)'
        <3>1. label = "commit" => req[r].form \in Metadata
            BY <1>3, <2>1 DEF Request
        <3> QED BY <1>3, <2>1, <2>4, <3>1
            DEF RequestSound, PipelineInv, RequestsSound
    <2>6. label = "accepted" => ~Drafted(req[r].upload)
        BY <1>3, <2>1 DEF Settled, PipelineInv, RowsSound, RowsAgree, Drafted
    <2> QED BY <1>1, <2>1, <2>3, <2>4, <2>5, <2>6, ReaderKept
<1>4. CASE CompleteRefused(r) /\ ~Finish(r)
    BY <1>3, <1>4 DEF CompleteRefused
<1>5. CASE CompleteReload(r) /\ ~Finish(r)
    BY <1>3, <1>5 DEF CompleteReload, Concurrent
<1>6. CASE CompleteLock(r) \/ CompleteRollback(r)
    BY <1>3, <1>6 DEF CompleteLock, CompleteRollback
<1> QED BY <1>2, <1>4, <1>5, <1>6 DEF RespondAccepted, RequestDies

\* No step of a request breaks it.
LEMMA ServiceNextSound ==
    ASSUME PipelineInv, LocksSound, ServiceNext, UNCHANGED workerVars
    PROVE  PipelineInv'
<1>1. CASE \/ \E u \in Uploads : Initiate(u) \/ (DeadlinePasses(u) /\ UNCHANGED req)
           \/ \E u \in Uploads, m \in Metadata : SaveMetadata(u, m)
    BY <1>1, OpenSound
<1>2. CASE \E r \in Requests : Serve(r) \/ RequestDies(r)
    BY <1>2, PrepareCommitSound, RespondPreparedSound, VerifySnapshotSound,
       VerifyApplySound, CompleteAssetsSound, CompleteStatSound,
       CompleteFinalizeSound, CompleteRestSound DEF Serve
<1>3. CASE \E r \in Requests, u \in Uploads : CompleteLoad(r, u)
    BY <1>3, CompleteLoadSound
<1>4. CASE \E r \in Requests, u \in Uploads, k \in Kinds : PrepareFile(r, u, k)
    BY <1>4, PrepareFileSound
<1>5. CASE \E r \in Requests, u \in Uploads, k \in Kinds, n \in Attempts :
                ConfirmFile(r, u, k, n)
    BY <1>5, ConfirmFileSound
<1> QED BY <1>1, <1>2, <1>3, <1>4, <1>5 DEF ServiceNext

(***************************************************************************)
(* The row locks.                                                          *)
(***************************************************************************)

\* A request moves on without a lock, and writes no row that is held.
LEMMA LockFree ==
    ASSUME LocksSound, NEW r \in Requests, OthersWait(r), ~Holds(r)',
           \A q \in Requests \ {r} : Holds(q) =>
                /\ session'[req[q].upload] = session[req[q].upload]
                /\ assets'[req[q].upload][req[q].kind].attempt =
                        assets[req[q].upload][req[q].kind].attempt
    PROVE  LocksSound'
<1>1. \A q \in Requests : Holds(q)' => q # r /\ Holds(q) /\ req'[q] = req[q]
    BY DEF Holds, OthersWait
<1> QED BY <1>1 DEF LocksSound

\* A request takes the lock of an open session that nobody holds.
LEMMA LockTaken ==
    ASSUME LocksSound, NEW r \in Requests, OthersWait(r),
           UNCHANGED <<session, assets>>, ~Locked(req'[r].upload),
           Open(req'[r].upload),
           req'[r].at = "replace" =>
                assets[req'[r].upload][req'[r].kind].attempt < MaxAttempts
    PROVE  LocksSound'
<1>1. \A q \in Requests \ {r} : Holds(q)' =>
        Holds(q) /\ req'[q] = req[q] /\ req'[q].upload # req'[r].upload
    BY DEF Holds, OthersWait, Locked
<1>2. session'[req'[r].upload] = "uploading"
    BY DEF Open
<1>3. ASSUME NEW q \in Requests, Holds(q)'
      PROVE  /\ session'[req'[q].upload] = "uploading"
             /\ req'[q].at = "replace" =>
                    assets'[req'[q].upload][req'[q].kind].attempt < MaxAttempts
             /\ \A p \in Requests \ {q} :
                    Holds(p)' => req'[p].upload # req'[q].upload
    <2>1. CASE q = r
        BY <1>1, <1>2, <2>1
    <2>2. CASE q # r
        BY <1>1, <1>3, <2>2 DEF LocksSound
    <2> QED BY <2>1, <2>2
<1> QED BY <1>3 DEF LocksSound

\* The steps of a request that neither take a lock nor write a row.
LEMMA ReadersRelease ==
    ASSUME PipelineInv, NEW r \in Requests,
           \/ RespondPrepared(r) \/ VerifySnapshot(r) \/ CompleteAssets(r)
           \/ CompleteStat(r) \/ CompleteRollback(r) \/ CompleteRefused(r)
           \/ CompleteReload(r) \/ RespondAccepted(r) \/ RequestDies(r)
           \/ \E u \in Uploads : CompleteLoad(r, u)
           \/ \E u \in Uploads, k \in Kinds, n \in Attempts :
                    ConfirmFile(r, u, k, n)
    PROVE  UNCHANGED <<session, assets>> /\ OthersWait(r) /\ ~Holds(r)'
<1> USE Typed
<1>1. UNCHANGED <<session, assets>>
    BY DEF RespondPrepared, VerifySnapshot, CompleteAssets, CompleteStat,
        CompleteRollback, CompleteRefused, CompleteReload, RespondAccepted,
        RequestDies, CompleteLoad, ConfirmFile, storeVars, rowVars
<1>2. OthersWait(r) /\ ~Holds(r)'
    <2>1. CASE Finish(r)
        BY <2>1, IdleRequest DEF Holds, Idle
    <2>2. ASSUME NEW label \in {"apply", "reload", "accepted"},
                 req' = [req EXCEPT ![r].at = label]
          PROVE  OthersWait(r) /\ ~Holds(r)'
        BY <2>2 DEF ServiceTypeOK, Request, OthersWait, Holds
    <2>3. CASE CompleteAssets(r) \/ CompleteStat(r)
        <3>1. CASE req' = [req EXCEPT ![r].at = "stat",
                                      ![r].rows = assets[req[r].upload]]
            BY <3>1 DEF ServiceTypeOK, Request, OthersWait, Holds
        <3>2. CASE CompleteStat(r) /\ ~Finish(r)
            <4> DEFINE k == req[r].kind
                       label == IF LastKind(k) THEN "finalize" ELSE "stat"
                       q == [req[r] EXCEPT
                              !.rows[k].etag = staged[req[r].upload][k][req[r].rows[k].attempt],
                              !.kind = IF LastKind(k) THEN k ELSE k + 1,
                              !.at = label]
            <4>1. req' = [req EXCEPT ![r] = q]
                BY <3>2 DEF CompleteStat
            <4>2. req[r] \in Request /\ req \in [Requests -> Request]
                BY DEF ServiceTypeOK
            <4>3. q.at = label
                BY <4>2 DEF Request
            <4> HIDE DEF q
            <4> QED BY <4>1, <4>2, <4>3 DEF OthersWait, Holds
        <3> QED BY <2>1, <2>3, <3>1, <3>2 DEF CompleteAssets
    <2>4. ASSUME NEW q \in Request, q.at \in {"load", "verify", "accepted"},
                 req' = [req EXCEPT ![r] = q]
          PROVE  OthersWait(r) /\ ~Holds(r)'
        BY <2>4, MovedOn DEF Holds
    <2>5. ASSUME NEW u \in Uploads, CompleteLoad(r, u)
          PROVE  OthersWait(r) /\ ~Holds(r)'
        <3>1. CASE req' = [req EXCEPT ![r] = Answering(u)]
            BY <2>4, <3>1, AcceptedSlot
        <3>2. CASE req' = [req EXCEPT ![r] = Loading(u, metadata[u])]
            <4>1. metadata[u] \in Metadata \cup {NULL}
                BY DEF StoreTypeOK
            <4> QED BY <2>4, <3>2, <4>1, LoadingSlot
        <3> QED BY <2>5, <3>1, <3>2 DEF CompleteLoad, Answering, Loading
    <2>6. ASSUME NEW u \in Uploads, NEW k \in Kinds, NEW n \in Attempts,
                 ConfirmFile(r, u, k, n)
          PROVE  OthersWait(r) /\ ~Holds(r)'
        <3> DEFINE q == Confirming(u, k, n, staged[u][k][n])
        <3>1. req' = [req EXCEPT ![r] = q]
            BY <2>6 DEF ConfirmFile, Confirming
        <3>2. staged[u][k][n] \in Contents
            BY <2>6, StoreAssumption DEF ConfirmFile, Acceptance
        <3>3. n \in 0..MaxAttempts
            BY StoreAssumption DEF Attempts
        <3>4. q \in Request /\ q.at = "verify"
            BY <3>2, <3>3, VerifySlot
        <3> HIDE DEF q
        <3> QED BY <2>4, <3>1, <3>4
    <2> QED BY <2>1, <2>2, <2>3, <2>5, <2>6
        DEF RespondPrepared, VerifySnapshot, CompleteRollback, CompleteRefused,
            CompleteReload, RespondAccepted, RequestDies
<1> QED BY <1>1, <1>2

\* They leave the locks of others as they are.
LEMMA ReadersUnlocked ==
    ASSUME PipelineInv, LocksSound, NEW r \in Requests,
           \/ RespondPrepared(r) \/ VerifySnapshot(r) \/ CompleteAssets(r)
           \/ CompleteStat(r) \/ CompleteRollback(r) \/ CompleteRefused(r)
           \/ CompleteReload(r) \/ RespondAccepted(r) \/ RequestDies(r)
           \/ \E u \in Uploads : CompleteLoad(r, u)
           \/ \E u \in Uploads, k \in Kinds, n \in Attempts :
                    ConfirmFile(r, u, k, n)
    PROVE  LocksSound'
BY ReadersRelease, LockFree

\* PrepareFile and Complete wait until nobody holds the row.
LEMMA LockersWait ==
    ASSUME PipelineInv, LocksSound, NEW r \in Requests,
           \/ CompleteLock(r)
           \/ \E u \in Uploads, k \in Kinds : PrepareFile(r, u, k)
    PROVE  LocksSound'
<1> USE Typed
<1>1. CASE CompleteLock(r)
    <2>1. /\ req[r] \in Request /\ req' = [req EXCEPT ![r].at = "commit"]
          /\ ~Locked(req[r].upload) /\ Open(req[r].upload)
          /\ UNCHANGED <<session, assets>>
        BY <1>1 DEF CompleteLock, ServiceTypeOK, storeVars, rowVars
    <2>2. /\ OthersWait(r) /\ req'[r].at = "commit"
          /\ req'[r].upload = req[r].upload
        BY <2>1 DEF ServiceTypeOK, OthersWait, Request
    <2> QED BY <2>1, <2>2, LockTaken
<1>2. ASSUME NEW u \in Uploads, NEW k \in Kinds, PrepareFile(r, u, k)
      PROVE  LocksSound'
    <2> DEFINE q == Replacing(u, k)
    <2>1. /\ req' = [req EXCEPT ![r] = q] /\ UNCHANGED <<session, assets>>
          /\ ~Locked(u) /\ Open(u) /\ assets[u][k].attempt < MaxAttempts
        BY <1>2 DEF PrepareFile, Replacing, storeVars, rowVars
    <2>2. q \in Request /\ q.at = "replace" /\ q.upload = u /\ q.kind = k
        BY ReplacingSlot
    <2> HIDE DEF q
    <2>3. req'[r] = q /\ OthersWait(r)
        BY <2>1, <2>2, MovedOn
    <2> QED BY <2>1, <2>2, <2>3, LockTaken
<1> QED BY <1>1, <1>2

\* A request that has written its rows holds no lock.
LEMMA WritersRelease ==
    ASSUME PipelineInv, NEW r \in Requests,
           PrepareCommit(r) \/ CompleteFinalize(r) \/ VerifyApply(r)
    PROVE  OthersWait(r) /\ ~Holds(r)'
<1> USE Typed
<1>1. req[r] \in Request
    BY DEF ServiceTypeOK
<1>2. CASE PrepareCommit(r) \/ CompleteFinalize(r)
    BY <1>1, <1>2 DEF PrepareCommit, CompleteFinalize, ServiceTypeOK, Request,
        OthersWait, Holds
<1>3. CASE VerifyApply(r)
    BY <1>3, IdleRequest DEF VerifyApply, Holds, Idle
<1> QED BY <1>2, <1>3

\* A request that writes an upload's rows holds them alone, or leaves the
\* session and the asset ids as they are.
LEMMA WritersAlone ==
    ASSUME PipelineInv, LocksSound, NEW r \in Requests,
           PrepareCommit(r) \/ CompleteFinalize(r) \/ VerifyApply(r)
    PROVE  LocksSound'
<1> USE Typed
<1> DEFINE u == req[r].upload
<1>0. /\ req[r] \in Request /\ u \in Uploads
      /\ assets \in [Uploads -> [Kinds -> AssetRow]]
      /\ \A q \in Requests : Holds(q) => req[q].upload \in Uploads
      /\ \A q \in Requests : req[q].kind \in Kinds
    BY DEF PipelineInv, RequestsSound, RequestSound, ServiceTypeOK, Request,
        StoreTypeOK, Holds, PrepareCommit, CompleteFinalize, VerifyApply
<1>1. CASE PrepareCommit(r)
    <2>1. /\ UNCHANGED session
          /\ \A x \in Uploads \ {u} : assets'[x] = assets[x]
        BY <1>0, <1>1 DEF PrepareCommit, ReplaceAsset
    <2>2. \A q \in Requests \ {r} : Holds(q) => req[q].upload # u
        BY <1>1 DEF PrepareCommit, LocksSound, Holds
    <2> QED BY <1>0, <2>1, <2>2, WritersRelease, LockFree
<1>2. CASE CompleteFinalize(r)
    <2>1. \A x \in Uploads \ {u} : assets'[x] = assets[x] /\ session'[x] = session[x]
        BY <1>0, <1>2 DEF CompleteFinalize, FinalizeUpload, StoreTypeOK
    <2>2. \A q \in Requests \ {r} : Holds(q) => req[q].upload # u
        BY <1>2 DEF CompleteFinalize, LocksSound, Holds
    <2> QED BY <1>0, <2>1, <2>2, WritersRelease, LockFree
<1>3. CASE VerifyApply(r)
    <2>1. UNCHANGED session
        BY <1>3 DEF VerifyApply, VerifyAsset, rowVars
    <2>2. \A x \in Uploads, j \in Kinds :
            assets'[x][j].attempt = assets[x][j].attempt
        <3>1. CASE UNCHANGED assets
            BY <3>1
        <3>2. CASE VerifyAsset(u, req[r].kind, req[r].attempt, req[r].etag)
            <4> DEFINE k == req[r].kind
                       row == [assets[u][k] EXCEPT !.etag = req[r].etag]
            <4>1. assets' = [assets EXCEPT ![u] = [assets[u] EXCEPT ![k] = row]]
                BY <3>2 DEF VerifyAsset
            <4>2. row.attempt = assets[u][k].attempt /\ k \in Kinds
                BY <1>0 DEF AssetRow
            <4> HIDE DEF row, k, u
            <4> QED BY <1>0, <4>1, <4>2
        <3> QED BY <1>3, <3>1, <3>2 DEF VerifyApply, rowVars
    <2> QED BY <1>0, <2>1, <2>2, WritersRelease, LockFree
<1> QED BY <1>1, <1>2, <1>3

\* No step of the API takes a lock that is held or writes the row under it.
LEMMA ServiceLocks ==
    ASSUME PipelineInv, LocksSound, ServiceNext
    PROVE  LocksSound'
<1>1. CASE \/ \E u \in Uploads : Initiate(u) \/ (DeadlinePasses(u) /\ UNCHANGED req)
           \/ \E u \in Uploads, m \in Metadata : SaveMetadata(u, m)
    <2>1. UNCHANGED <<req, assets>>
        BY <1>1 DEF Initiate, CreateSession, DeadlinePasses, SaveMetadata,
            UpdateSessionMetadata
    <2>2. \A x \in Uploads : session[x] = "uploading" => session'[x] = "uploading"
        BY <1>1, Typed DEF Initiate, CreateSession, DeadlinePasses, SaveMetadata,
            UpdateSessionMetadata, StoreTypeOK
    <2>3. \A q \in Requests : Holds(q) => req[q].upload \in Uploads
        BY DEF PipelineInv, RequestsSound, RequestSound, Holds
    <2> QED BY <2>1, <2>2, <2>3 DEF LocksSound, Holds
<1>2. ASSUME NEW r \in Requests, Serve(r) \/ RequestDies(r) PROVE LocksSound'
    BY <1>2, ReadersUnlocked, LockersWait, WritersAlone DEF Serve
<1>3. CASE \E r \in Requests, u \in Uploads : CompleteLoad(r, u)
    BY <1>3, ReadersUnlocked
<1>4. CASE \E r \in Requests, u \in Uploads, k \in Kinds : PrepareFile(r, u, k)
    BY <1>4, LockersWait
<1>5. CASE \E r \in Requests, u \in Uploads, k \in Kinds, n \in Attempts :
                ConfirmFile(r, u, k, n)
    BY <1>5, ReadersUnlocked
<1> QED BY <1>1, <1>2, <1>3, <1>4, <1>5 DEF ServiceNext

\* The writes of the worker loop: sweeps, claims and settlements.
LEMMA WorkerWrites ==
    ASSUME WorkerNext
    PROVE  \/ UNCHANGED <<session, overdue, assets, spec>>
           \/ \E w \in Workers : \/ ExpireSweep(w) \/ RequeueSweep(w) \/ Claim(w)
                                 \/ Settle(w) \/ SettleAmbiguous(w)
<1>1. ASSUME NEW w \in Workers, Work(w)
      PROVE  UNCHANGED <<session, overdue, assets, spec>> \/ Claim(w) \/ Settle(w)
    BY <1>1
    DEF Work, CheckSource, CopySource, CompareCopy, ReadCover, WriteCover,
        Validate, CanceledByHeartbeat, JoinHeartbeat, SettleFenced, CleanCover,
        CleanStaged, CleanFinal, Notify, storeVars, rowVars
<1>2. ASSUME NEW w \in Workers, Mishap(w)
      PROVE  UNCHANGED <<session, overdue, assets, spec>> \/ SettleAmbiguous(w)
    BY <1>2
    DEF Mishap, StorageError, ContextError, HeartbeatError, SettleError, Crash,
        storeVars, rowVars
<1>3. ASSUME NEW w \in Workers, Heartbeat(w)
      PROVE  UNCHANGED <<session, overdue, assets, spec>>
    BY <1>3 DEF Heartbeat, HeartbeatJob, rowVars
<1>4. ASSUME NEW u \in Uploads, LeaseLapses(u)
      PROVE  UNCHANGED <<session, overdue, assets, spec>>
    BY <1>4 DEF LeaseLapses
<1>5. ASSUME NEW u \in Uploads, NEW k \in Kinds, NEW n \in Attempts,
             NEW c \in Contents, ClientOverwrites(u, k, n, c)
      PROVE  UNCHANGED <<session, overdue, assets, spec>>
    BY <1>5 DEF ClientOverwrites, ClientPut, rowVars
<1> QED BY <1>1, <1>2, <1>3, <1>4, <1>5 DEF WorkerNext

\* No worker touches the row of an asset.
LEMMA WorkersKeepAssets ==
    ASSUME WorkerNext
    PROVE  UNCHANGED <<assets, overdue>>
BY WorkerWrites DEF ExpireSweep, ExpireUploadSessions, RequeueSweep,
    RequeueStaleJobs, Claim, ClaimNextJob, Settle, SettleAmbiguous, SettleJob

\* Workers write no asset's row, and the sweep waits for the locks.
LEMMA WorkerLocks ==
    ASSUME PipelineInv, LocksSound, WorkerNext, UNCHANGED req, LocksKept
    PROVE  LocksSound'
<1>1. UNCHANGED assets
    BY WorkersKeepAssets
<1>2. \A q \in Requests : Holds(q) =>
        /\ req[q].upload \in Uploads
        /\ session'[req[q].upload] = session[req[q].upload]
    BY DEF PipelineInv, RequestsSound, RequestSound, Holds, Locked, LocksKept
<1> QED BY <1>1, <1>2 DEF LocksSound, Holds

(***************************************************************************)
(* The invariant holds.                                                    *)
(***************************************************************************)

\* The rows and the bucket start empty, the requests and workers at rest.
LEMMA StartTyped == Init => PipelineTypeOK
<1> SUFFICES ASSUME Init PROVE PipelineTypeOK
    OBVIOUS
<1> USE DEF Init
<1>1. StoreTypeOK
    <2>1. NoAsset \in AssetRow /\ NoSpec \in SpecRow /\ NoJob \in JobRow
        BY StoreAssumption DEF NoAsset, NoSpec, NoJob, AssetRow, SpecRow, JobRow,
            SpecStatus, JobStatus
    <2>2. NULL \in Object /\ "none" \in SessionStatus
        BY DEF Object, SessionStatus
    <2>3. /\ assets \in [Uploads -> [Kinds -> AssetRow]]
          /\ spec \in [Uploads -> SpecRow] /\ job \in [Uploads -> JobRow]
        BY <2>1 DEF StoreInit
    <2>4. /\ staged \in [Uploads -> [Kinds -> [Attempts -> Object]]]
          /\ final \in [Uploads -> [Kinds -> Object]]
          /\ cover \in [Uploads -> Object]
        BY <2>2 DEF StoreInit
    <2> QED BY <2>2, <2>3, <2>4 DEF StoreInit, StoreTypeOK
<1>2. WorkerTypeOK
    <2>1. NoAsset \in AssetRow /\ NULL \in Object /\ 1 \in Kinds
        BY StoreAssumption, KindsAreNaturals DEF NoAsset, AssetRow, Object, Image
    <2> QED BY <2>1, WorkerAssumption
        DEF WorkerStart, WorkerTypeOK, WorkerPC, NoBundle, Verdicts
<1>3. ServiceTypeOK
    BY IdleIsRequest DEF ServiceStart, ServiceTypeOK
<1> QED BY <1>1, <1>2, <1>3 DEF PipelineTypeOK, TypeOK

\* Nothing is drafted, requested or processed yet.
LEMMA StartSound == Init => PipelineInv /\ IInv
<1> SUFFICES ASSUME Init PROVE PipelineInv /\ IInv
    OBVIOUS
<1>1. PipelineTypeOK
    BY StartTyped
<1>2. \A u \in Uploads :
        /\ session[u] = "none" /\ spec[u].status = "none" /\ job[u].status = "none"
        /\ cover[u] = NULL /\ \A k \in Kinds : final[u][k] = NULL
        /\ \A k \in Kinds : assets[u][k].etag = NULL
    BY DEF Init, StoreInit, NoSpec, NoJob, NoAsset
<1>3. \A r \in Requests : req[r].at = "idle"
    BY DEF Init, ServiceStart, Idle
<1>4. \A w \in Workers : pc[w] = "idle"
    BY DEF Init, WorkerStart
<1>5. \A u \in Uploads : \A o \in Outcomes : notices[u][o] = 0
    BY DEF Init, WorkerStart
<1>6. \A w \in Workers : ~Active(w) /\ ~Closing(w) /\ ~Done(w)
    BY <1>4 DEF Active, Closing, Done, Cleaning
<1>7. RowsSound /\ ObjectsSound /\ PublishedIsComplete
    BY <1>2 DEF RowsSound, RowsAgree, AssetsSound, AcceptedIsVerified,
        FormsStored, Drafted, ObjectsSound, PublishedIsComplete
<1>8. RequestsSound /\ AcknowledgedIsDurable
    BY <1>3 DEF RequestsSound, RequestSound, AcknowledgedIsDurable
<1>9. WorkersSound
    BY <1>4, <1>6 DEF WorkersSound, WorkerSound, HasWork, KnowsVerdict,
        ClosesOwn, PastLoop, HasCopies
<1>10. FinalsVerified /\ PublishedIntact /\ NoticeMatchesOutcome
    BY <1>2, <1>5 DEF FinalsVerified, PublishedIntact, NoticeMatchesOutcome
<1>11. OnTask /\ VerdictKnown /\ ClosesItsOutcome /\ LoopDone /\ CopiesStay
    BY <1>4, <1>6 DEF OnTask, VerdictKnown, ClosesItsOutcome, LoopDone, CopiesStay
<1>12. OneCloser
    BY <1>5, <1>6 DEF OneCloser
<1> QED BY <1>1, <1>7, <1>8, <1>9, <1>10, <1>11, <1>12
    DEF PipelineInv, IInv, PipelineTypeOK, RowsSound

\* No step of the pipeline breaks the invariant.
LEMMA PipelineStep ==
    PipelineInv /\ LocksSound /\ [Next]_pipelineVars => PipelineInv'
<1> SUFFICES ASSUME PipelineInv, LocksSound, [Next]_pipelineVars
             PROVE  PipelineInv'
    OBVIOUS
<1>1. CASE UNCHANGED pipelineVars
    <2>1. UNCHANGED <<rowVars, final, cover, req, pc, task, bundle, kind, image,
                      verdict, pos, notices, beat, faults>>
        BY <1>1 DEF pipelineVars, vars, storeVars, bucketVars, workerVars
    <2>2. StoreTypeOK'
        BY <1>1, Typed DEF pipelineVars, vars, storeVars, rowVars, bucketVars,
            StoreTypeOK
    <2> QED BY <2>1, <2>2, Typed, BookkeepingSound DEF WorkerTypeOK
<1>2. CASE ServiceNext /\ UNCHANGED workerVars
    BY <1>2, ServiceNextSound
<1>3. CASE WorkerNext /\ UNCHANGED req
    BY <1>3, WorkerNextSound
<1> QED BY <1>1, <1>2, <1>3 DEF Next

\* Nor the row locks.
LEMMA LocksStep ==
    PipelineInv /\ LocksSound /\ [Next]_pipelineVars => LocksSound'
<1> SUFFICES ASSUME PipelineInv, LocksSound, [Next]_pipelineVars
             PROVE  LocksSound'
    OBVIOUS
<1>1. CASE UNCHANGED pipelineVars
    BY <1>1 DEF pipelineVars, vars, storeVars, rowVars, LocksSound, Holds
<1> QED BY <1>1, ServiceLocks, WorkerLocks DEF Next

\* A session's row that ReplaceAsset or FinalizeUpload has locked has no other
\* holder, and its status stays uploading until the holder is done, so that
\* their last UPDATE finds what their check has seen - but for the deadline.
THEOREM LocksHold == Spec => [](PipelineInv /\ LocksSound)
<1>1. Init => PipelineInv /\ LocksSound
    BY StartSound DEF Init, ServiceStart, Idle, LocksSound, Holds
<1> QED BY <1>1, PipelineStep, LocksStep, PTL DEF Spec

\* What every request and every worker may rely on, however their steps and
\* the clients' PUTs interleave.
THEOREM PipelineInvariant == Spec => []PipelineInv
BY LocksHold, PTL

\* Rows, bucket, workers and request slots keep their shape.
THEOREM PipelineTypeCorrect == Spec => []PipelineTypeOK
BY PipelineInvariant, PTL DEF PipelineInv

\* Session, spec and job of an upload tell one story, from the draft to the
\* settled job, through every transaction of upload_repo.go.
THEOREM PipelineRowsAgree == Spec => []RowsAgree
BY PipelineInvariant, PTL DEF PipelineInv, RowsSound

\* No upload is accepted with an asset that was not verified.
THEOREM AcceptedStaysVerified == Spec => []AcceptedIsVerified
BY PipelineInvariant, PTL DEF PipelineInv, RowsSound

\* No request answers "accepted" before spec and job are in the database.
THEOREM AcknowledgedStaysDurable == Spec => []AcknowledgedIsDurable
BY PipelineInvariant, PTL DEF PipelineInv

\* A completed spec always serves an object for every kind, of the declared
\* size and type, and a cover that was decoded.
THEOREM PublishedStaysComplete == Spec => []PublishedIsComplete
BY PipelineInvariant, PTL DEF PipelineInv


(***************************************************************************)
(* What a step may not do.                                                 *)
(***************************************************************************)

\* The clock only advances, and a session leaves "uploading" before its
\* deadline, for "expired" or by the request that has its row.
Ages ==
    \A u \in Uploads :
        /\ overdue[u] => overdue'[u]
        /\ \/ session'[u] = session[u]
           \/ session'[u] = "expired"
           \/ /\ session[u] # "expired"
              /\ session[u] = "uploading" /\ overdue[u] => Locked(u)

\* Workers move sessions that were accepted, or sweep those past the deadline.
LEMMA WorkerAges ==
    ASSUME PipelineInv, WorkerNext
    PROVE  Ages
<1>1. \A u \in Uploads :
        job[u].status # "none" => session[u] \notin {"uploading", "expired"}
    BY DEF PipelineInv, RowsSound, RowsAgree
<1>2. UNCHANGED overdue
    BY WorkersKeepAssets
<1>3. session \in [Uploads -> SessionStatus]
    BY Typed DEF StoreTypeOK
<1>4. CASE UNCHANGED session
    BY <1>2, <1>4 DEF Ages
<1>5. ASSUME NEW w \in Workers, ExpireSweep(w) PROVE Ages
    BY <1>2, <1>5 DEF ExpireSweep, ExpireUploadSessions, Abandoned, Ages
<1>6. ASSUME NEW w \in Workers, RequeueSweep(w) PROVE Ages
    BY <1>1, <1>2, <1>6 DEF RequeueSweep, RequeueStaleJobs, Stale, Ages
<1>7. ASSUME NEW w \in Workers, Claim(w) PROVE Ages
    <2>1. PICK x \in Uploads : ClaimNextJob(x, w)
        BY <1>7 DEF Claim
    <2>2. \A u \in Uploads : session'[u] = session[u] \/ job[u].status = "queued"
        BY <1>3, <2>1 DEF ClaimNextJob
    <2> QED BY <1>1, <1>2, <2>2 DEF Ages
<1>8. ASSUME NEW w \in Workers, Settle(w) \/ SettleAmbiguous(w) PROVE Ages
    <2>1. \A u \in Uploads : session'[u] = session[u] \/ job[u].status = "processing"
        BY <1>3, <1>8 DEF Settle, SettleAmbiguous, SettleJob, HoldsLease
    <2> QED BY <1>1, <1>2, <2>1 DEF Ages
<1> QED BY <1>4, <1>5, <1>6, <1>7, <1>8, WorkerWrites

\* Which rows a step of the API may write: a session that is created or
\* completed, metadata, and assets.
LEMMA ServiceWrites ==
    ASSUME ServiceNext
    PROVE  \/ UNCHANGED <<session, overdue, assets, spec, job>>
           \/ \E u \in Uploads : CreateSession(u) /\ UNCHANGED req
           \/ \E u \in Uploads : DeadlinePasses(u) /\ UNCHANGED req
           \/ \E r \in Requests :
                    PrepareCommit(r) \/ VerifyApply(r) \/ CompleteFinalize(r)
<1>1. CASE \E u \in Uploads : Initiate(u) \/ (DeadlinePasses(u) /\ UNCHANGED req)
    BY <1>1 DEF Initiate
<1>2. CASE \E u \in Uploads, m \in Metadata : SaveMetadata(u, m)
    BY <1>2 DEF SaveMetadata, UpdateSessionMetadata
<1>3. ASSUME NEW r \in Requests, Serve(r) \/ RequestDies(r)
      PROVE  \/ UNCHANGED <<session, overdue, assets, spec, job>>
             \/ PrepareCommit(r) \/ VerifyApply(r) \/ CompleteFinalize(r)
    BY <1>3 DEF Serve, RequestDies, RespondPrepared, VerifySnapshot,
        CompleteAssets, CompleteStat, CompleteLock, CompleteRollback,
        CompleteRefused, CompleteReload, RespondAccepted, storeVars, rowVars
<1>4. CASE \E r \in Requests, u \in Uploads : CompleteLoad(r, u)
    BY <1>4 DEF CompleteLoad, storeVars, rowVars
<1>5. CASE \E r \in Requests, u \in Uploads, k \in Kinds : PrepareFile(r, u, k)
    BY <1>5 DEF PrepareFile, storeVars, rowVars
<1>6. CASE \E r \in Requests, u \in Uploads, k \in Kinds, n \in Attempts :
                ConfirmFile(r, u, k, n)
    BY <1>6 DEF ConfirmFile, storeVars, rowVars
<1> QED BY <1>1, <1>2, <1>3, <1>4, <1>5, <1>6 DEF ServiceNext

\* The API moves a session only while it is open.
LEMMA ServiceAges ==
    ASSUME PipelineInv, ServiceNext
    PROVE  Ages
<1>1. session \in [Uploads -> SessionStatus] /\ overdue \in [Uploads -> BOOLEAN]
    BY Typed DEF StoreTypeOK
<1>2. CASE UNCHANGED <<session, overdue>>
    BY <1>2 DEF Ages
<1>3. ASSUME NEW u \in Uploads, CreateSession(u) PROVE Ages
    BY <1>1, <1>3 DEF CreateSession, Ages
<1>4. ASSUME NEW u \in Uploads, DeadlinePasses(u) PROVE Ages
    BY <1>1, <1>4 DEF DeadlinePasses, Ages
<1>5. ASSUME NEW r \in Requests, PrepareCommit(r)
      PROVE  UNCHANGED <<session, overdue>>
    BY <1>5 DEF PrepareCommit, ReplaceAsset
<1>6. ASSUME NEW r \in Requests, VerifyApply(r)
      PROVE  UNCHANGED <<session, overdue>>
    BY <1>6 DEF VerifyApply, VerifyAsset, rowVars
<1>7. ASSUME NEW r \in Requests, CompleteFinalize(r) PROVE Ages
    <2>1. /\ session[req[r].upload] = "uploading" /\ UNCHANGED overdue
          /\ session' = [session EXCEPT ![req[r].upload] = "queued"]
          /\ Locked(req[r].upload)
        BY <1>7 DEF CompleteFinalize, FinalizeUpload, Locked
    <2> QED BY <1>1, <2>1 DEF Ages
<1> QED BY <1>2, <1>3, <1>4, <1>5, <1>6, <1>7, ServiceWrites

\* A lock is taken, if at all, by a step that finds the session open.
LEMMA LocksWhenOpen ==
    ASSUME PipelineInv, Next
    PROVE  \A u \in Uploads : Locked(u)' => Locked(u) \/ Open(u)
<1> SUFFICES ASSUME NEW u \in Uploads, NEW q \in Requests, Holds(q)',
                    req'[q].upload = u, ~Open(u)
             PROVE  Locked(u)
    BY DEF Locked, Holds
<1>1. CASE req'[q] = req[q]
    BY <1>1 DEF Locked, Holds
<1>2. CASE req'[q] # req[q]
    <2>1. ASSUME NEW r \in Requests, OthersWait(r), ~Holds(r)' PROVE FALSE
        BY <1>2, <2>1 DEF OthersWait
    <2>2. ASSUME NEW r \in Requests, CompleteLock(r) PROVE FALSE
        <3>1. req[r] \in Request /\ req' = [req EXCEPT ![r].at = "commit"]
            BY <2>2, Typed DEF CompleteLock, ServiceTypeOK
        <3>2. r = q
            BY <1>2, <3>1, Typed DEF ServiceTypeOK
        <3>3. req'[r].upload = req[r].upload
            BY <3>1, Typed DEF ServiceTypeOK, Request
        <3> QED BY <2>2, <3>2, <3>3 DEF CompleteLock
    <2>3. ASSUME NEW r \in Requests, NEW x \in Uploads, NEW k \in Kinds,
                 PrepareFile(r, x, k)
          PROVE  FALSE
        <3>1. req' = [req EXCEPT ![r] = Replacing(x, k)] /\ Open(x)
            BY <2>3 DEF PrepareFile, Replacing
        <3>2. Replacing(x, k).upload = x
            BY ReplacingSlot
        <3>3. req'[q] = Replacing(x, k)
            BY <1>2, <3>1, Typed DEF ServiceTypeOK
        <3> QED BY <3>1, <3>2, <3>3
    <2>4. ServiceNext
        BY <1>2 DEF Next
    <2>5. CASE \/ \E x \in Uploads :
                    Initiate(x) \/ (DeadlinePasses(x) /\ UNCHANGED req)
               \/ \E x \in Uploads, m \in Metadata : SaveMetadata(x, m)
        BY <1>2, <2>5 DEF Initiate, SaveMetadata
    <2>6. ASSUME NEW r \in Requests, Serve(r) \/ RequestDies(r)
          PROVE  FALSE
        BY <2>1, <2>2, <2>6, ReadersRelease, WritersRelease DEF Serve
    <2>7. ASSUME NEW r \in Requests, NEW x \in Uploads, CompleteLoad(r, x)
          PROVE  FALSE
        BY <2>1, <2>7, ReadersRelease
    <2>8. ASSUME NEW r \in Requests, NEW x \in Uploads, NEW k \in Kinds,
                 NEW n \in Attempts, ConfirmFile(r, x, k, n)
          PROVE  FALSE
        BY <2>1, <2>8, ReadersRelease
    <2>9. CASE \E r \in Requests, x \in Uploads, k \in Kinds :
                    PrepareFile(r, x, k)
        BY <2>3, <2>9
    <2>10. CASE \E r \in Requests, x \in Uploads, k \in Kinds, n \in Attempts :
                    ConfirmFile(r, x, k, n)
        BY <2>8, <2>10
    <2> QED BY <2>4, <2>5, <2>6, <2>7, <2>9, <2>10 DEF ServiceNext
<1> QED BY <1>1, <1>2

\* An upload reported expired whose row nobody holds stays expired, whatever
\* requests, workers and sweeps still do: a Complete that loaded the session in
\* time and comes for the lock too late is refused.
THEOREM LapsedStaysLapsed == Spec => LapsedIsFinal
<1>1. PipelineInv /\ [Next]_pipelineVars => [StaysLapsed]_<<session, overdue, req>>
    <2> SUFFICES ASSUME PipelineInv, Next PROVE StaysLapsed
        BY DEF pipelineVars, vars, storeVars, rowVars
    <2>1. Ages
        BY WorkerAges, ServiceAges DEF Next
    <2>2. ASSUME NEW u \in Uploads, Lapsed(u) PROVE Lapsed(u)'
        <3>1. ReportedStatus(u)' = "expired"
            BY <2>1, <2>2 DEF Ages, Lapsed, ReportedStatus
        <3>2. ~Open(u)
            BY <2>2 DEF Lapsed, ReportedStatus, Open
        <3> QED BY <2>2, <3>1, <3>2, LocksWhenOpen DEF Lapsed
    <2> QED BY <2>2 DEF StaysLapsed
<1> QED BY <1>1, PipelineInvariant, PTL DEF Spec, LapsedIsFinal

\* A confirmation writes the row of the asset it looked at, or none: asset ids
\* are never reused, and the statements match by id.
LEMMA ServiceConfirms ==
    ASSUME PipelineInv, ServiceNext
    PROVE  ConfirmsOwn
<1>1. assets \in [Uploads -> [Kinds -> AssetRow]]
    BY Typed DEF StoreTypeOK
<1>2. CASE UNCHANGED assets
    BY <1>2 DEF ConfirmsOwn
<1>3. ASSUME NEW r \in Requests, PrepareCommit(r) PROVE ConfirmsOwn
    <2> DEFINE u == req[r].upload
               k == req[r].kind
    <2>1. assets' = [assets EXCEPT ![u] = [assets[u] EXCEPT
                ![k] = [attempt |-> assets[u][k].attempt + 1, etag |-> NULL]]]
        BY <1>3 DEF PrepareCommit, ReplaceAsset
    <2>2. \A x \in Uploads : \A j \in DOMAIN assets[x] :
            assets'[x][j] = assets[x][j] \/ assets'[x][j].etag = NULL
        <3> HIDE DEF u, k
        <3> QED BY <1>1, <2>1
    <2> QED BY <2>2 DEF ConfirmsOwn
<1>4. ASSUME NEW r \in Requests, VerifyApply(r) PROVE ConfirmsOwn
    <2> DEFINE u == req[r].upload
               k == req[r].kind
    <2>1. CASE UNCHANGED rowVars
        BY <1>2, <2>1 DEF rowVars
    <2>2. CASE VerifyAsset(u, k, req[r].attempt, req[r].etag)
        <3>1. u \in Uploads /\ k \in Kinds /\ req[r].at = "apply"
            BY <1>4, Typed DEF VerifyApply, PipelineInv, RequestsSound,
                RequestSound, ServiceTypeOK, Request
        <3>2. assets[u][k].attempt = req[r].attempt
            BY <2>2 DEF VerifyAsset, Current
        <3>3. \A x \in Uploads : \A j \in DOMAIN assets[x] :
                assets'[x][j] = assets[x][j] \/ (x = u /\ j = k)
            <4>1. assets' = [assets EXCEPT ![u] = [assets[u] EXCEPT
                    ![k] = [assets[u][k] EXCEPT !.etag = req[r].etag]]]
                BY <2>2 DEF VerifyAsset
            <4> HIDE DEF u, k
            <4> QED BY <1>1, <3>1, <4>1
        <3>4. req'[r] # req[r]
            <4>1. req'[r].at = "idle"
                BY <1>4, Typed DEF VerifyApply, Finish, Idle, ServiceTypeOK
            <4> QED BY <3>1, <4>1
        <3> QED BY <3>1, <3>2, <3>3, <3>4 DEF ConfirmsOwn
    <2> QED BY <1>4, <2>1, <2>2 DEF VerifyApply
<1>5. ASSUME NEW r \in Requests, CompleteFinalize(r) PROVE ConfirmsOwn
    <2> DEFINE u == req[r].upload
    <2>1. u \in Uploads /\ req[r].at = "commit"
        BY <1>5, Typed DEF CompleteFinalize, PipelineInv, RequestsSound,
            RequestSound
    <2>2. \A x \in Uploads \ {u} : assets'[x] = assets[x]
        BY <1>1, <1>5 DEF CompleteFinalize, FinalizeUpload
    <2>3. \A j \in Kinds : assets[u][j].attempt = req[r].rows[j].attempt
        BY <1>5 DEF CompleteFinalize, FinalizeUpload, SnapshotCurrent, Current
    <2>4. req'[r] # req[r]
        <3>1. req[r] \in Request /\ req' = [req EXCEPT ![r].at = "accepted"]
            BY <1>5, Typed DEF CompleteFinalize, ServiceTypeOK
        <3>2. req'[r].at = "accepted"
            BY <3>1, Typed DEF ServiceTypeOK, Request
        <3> QED BY <2>1, <3>2
    <2>5. \A x \in Uploads : DOMAIN assets[x] = Kinds
        BY <1>1
    <2> QED BY <2>1, <2>2, <2>3, <2>4, <2>5 DEF ConfirmsOwn
<1>6. ASSUME NEW u \in Uploads, CreateSession(u) \/ DeadlinePasses(u)
      PROVE  UNCHANGED assets
    BY <1>6 DEF CreateSession, DeadlinePasses
<1> QED BY <1>2, <1>3, <1>4, <1>5, <1>6, ServiceWrites

\* A late response from a replaced upload cannot confirm the replacement, and
\* neither can a Complete that loaded the session before the replacement.
THEOREM ConfirmationsAreOwn == Spec => ConfirmsItsOwnAsset
<1>1. PipelineInv /\ [Next]_pipelineVars => [ConfirmsOwn]_<<assets, req>>
    <2> SUFFICES ASSUME PipelineInv, Next, ~UNCHANGED <<assets, req>>
                 PROVE  ConfirmsOwn
        BY DEF pipelineVars, vars, storeVars, rowVars
    <2>1. CASE ServiceNext
        BY <2>1, ServiceConfirms
    <2>2. CASE WorkerNext /\ UNCHANGED req
        BY <2>2, WorkersKeepAssets
    <2> QED BY <2>1, <2>2 DEF Next
<1> QED BY <1>1, PipelineInvariant, PTL DEF Spec, ConfirmsItsOwnAsset


(***************************************************************************)
(* The worker pool's safety beside the API.                                *)
(***************************************************************************)

\* What a step of the API does to the jobs and the specs: it may accept an
\* upload that had neither.
LEMMA ServiceAccepts ==
    ASSUME PipelineInv, ServiceNext
    PROVE  \A u \in Uploads :
              \/ job'[u] = job[u] /\ spec'[u] = spec[u]
              \/ /\ Drafted(u)
                 /\ job'[u].status = "queued" /\ spec'[u].status = "processing"
<1>1. CASE UNCHANGED <<spec, job>>
    BY <1>1
<1>2. ASSUME NEW u \in Uploads,
             CreateSession(u) \/ DeadlinePasses(u)
      PROVE  UNCHANGED <<spec, job>>
    BY <1>2 DEF CreateSession, DeadlinePasses
<1>3. ASSUME NEW r \in Requests, PrepareCommit(r) \/ VerifyApply(r)
      PROVE  UNCHANGED <<spec, job>>
    BY <1>3 DEF PrepareCommit, ReplaceAsset, VerifyApply, VerifyAsset, rowVars
<1>4. ASSUME NEW r \in Requests, CompleteFinalize(r), NEW u \in Uploads
      PROVE  \/ job'[u] = job[u] /\ spec'[u] = spec[u]
             \/ /\ Drafted(u)
                /\ job'[u].status = "queued" /\ spec'[u].status = "processing"
    <2> DEFINE x == req[r].upload
    <2>1. /\ session[x] = "uploading"
          /\ spec' = [spec EXCEPT ![x] = [status |-> "processing",
                                          metadata |-> req[r].form]]
          /\ job' = [job EXCEPT ![x] = [NoJob EXCEPT !.status = "queued"]]
        BY <1>4 DEF CompleteFinalize, FinalizeUpload
    <2>2. /\ spec \in [Uploads -> SpecRow] /\ job \in [Uploads -> JobRow]
        BY Typed DEF StoreTypeOK
    <2>3. CASE u # x
        BY <2>1, <2>2, <2>3
    <2>4. CASE u = x
        <3>1. Drafted(u)
            BY <2>1, <2>4 DEF PipelineInv, RowsSound, RowsAgree, Drafted
        <3> QED BY <2>1, <2>2, <2>4, <3>1 DEF NoJob
    <2> QED BY <2>3, <2>4
<1> QED BY <1>1, <1>2, <1>3, <1>4, ServiceWrites

\* Only the worker on the lease settles a job, with the API beside it too.
THEOREM PipelineFenced == Spec => SettledByHolder
<1> DEFINE Fenced == \A u \in Uploads :
                        job'[u].status # job[u].status => HolderSettles(u)
<1>1. PipelineInv /\ [Next]_pipelineVars => [Fenced]_vars
    <2> SUFFICES ASSUME PipelineInv, Next PROVE Fenced
        BY DEF pipelineVars
    <2>1. CASE ServiceNext
        BY <2>1, ServiceAccepts DEF HolderSettles, Drafted, Outcomes
    <2>2. CASE WorkerNext
        <3>1. OnUploads
            BY DEF OnUploads, PipelineInv, WorkersSound, WorkerSound, HasWork
        <3> QED BY <2>2, <3>1, Typed, FencedStep
    <2> QED BY <2>1, <2>2 DEF Next
<1> QED BY <1>1, PipelineInvariant, PTL DEF Spec, SettledByHolder, HolderSettles

\* A worker's knowledge of its upload survives the requests of the API, as
\* long as none of them writes an asset of an accepted upload.
LEMMA ServiceKeepsPool ==
    ASSUME PipelineInv, IInv, PipelineInv', ServiceNext, UNCHANGED workerVars,
           NoLateConfirmation
    PROVE  IInv'
<1>1. UNCHANGED <<pc, task, bundle, kind, image, verdict, pos, notices>>
    BY DEF workerVars
<1>2. UNCHANGED <<final, cover>>
    <2>1. CASE \E u \in Uploads : Initiate(u) \/ (DeadlinePasses(u) /\ UNCHANGED req)
        BY <2>1 DEF Initiate, CreateSession, DeadlinePasses, bucketVars
    <2>2. CASE \E u \in Uploads, m \in Metadata : SaveMetadata(u, m)
        BY <2>2 DEF SaveMetadata, bucketVars
    <2>3. CASE \E r \in Requests : Serve(r) \/ RequestDies(r)
        BY <2>3 DEF Serve, RequestDies, PrepareCommit, RespondPrepared,
            VerifySnapshot, VerifyApply, CompleteAssets, CompleteStat,
            CompleteLock, CompleteFinalize, CompleteRollback, CompleteRefused,
            CompleteReload, RespondAccepted, storeVars, bucketVars
    <2>4. CASE \E r \in Requests, u \in Uploads : CompleteLoad(r, u)
        BY <2>4 DEF CompleteLoad, storeVars, bucketVars
    <2>5. CASE \E r \in Requests, u \in Uploads, k \in Kinds : PrepareFile(r, u, k)
        BY <2>5 DEF PrepareFile, storeVars, bucketVars
    <2>6. CASE \E r \in Requests, u \in Uploads, k \in Kinds, n \in Attempts :
                    ConfirmFile(r, u, k, n)
        BY <2>6 DEF ConfirmFile, storeVars, bucketVars
    <2> QED BY <2>1, <2>2, <2>3, <2>4, <2>5, <2>6 DEF ServiceNext
<1>3. \A u \in Uploads : Drafted(u) =>
        cover[u] = NULL /\ \A k \in Kinds : final[u][k] = NULL
    BY DEF PipelineInv, ObjectsSound
<1>4. \A u \in Uploads : ~Drafted(u) =>
        /\ job'[u] = job[u] /\ spec'[u] = spec[u] /\ assets'[u] = assets[u]
    BY ServiceAccepts DEF NoLateConfirmation, Drafted
<1>5. \A u \in Uploads : Drafted(u) =>
        /\ job[u].status \notin Outcomes /\ job'[u].status \notin Outcomes
        /\ spec'[u].status # "completed"
    <2>1. \A u \in Uploads : Drafted(u) => spec[u].status = "none"
        BY OneStory DEF PipelineInv, RowsSound
    <2> QED BY <2>1, ServiceAccepts DEF Drafted, Outcomes
<1>6. \A w \in Workers : Active(w) => task[w] \in Uploads /\ ~Drafted(task[w])
    BY DEF PipelineInv, WorkersSound, WorkerSound, HasWork
<1>7. \A w \in Workers : Active(w) => \A k \in Kinds :
        VerifiedTag(w, k)' = VerifiedTag(w, k)
    BY <1>1, <1>4, <1>6 DEF VerifiedTag
<1>8. /\ \A w \in Workers : Active(w)' = Active(w) /\ Closing(w)' = Closing(w)
                           /\ Done(w)' = Done(w)
      /\ \A w \in Workers : Closing(w) \/ Done(w) => Active(w)
    BY <1>1 DEF Active, Closing, Done, Cleaning
<1>9. TypeOK' /\ RowsAgree'
    BY DEF PipelineInv, PipelineTypeOK, RowsSound
<1>10. OnTask' /\ VerdictKnown' /\ ClosesItsOutcome'
    <2>1. OnTask'
        BY <1>1, <1>4, <1>6, <1>8 DEF IInv, OnTask
    <2>2. VerdictKnown'
        BY <1>1 DEF IInv, VerdictKnown
    <2>3. ClosesItsOutcome'
        BY <1>1, <1>4, <1>6, <1>8 DEF IInv, ClosesItsOutcome
    <2> QED BY <2>1, <2>2, <2>3
<1>11. FinalsVerified' /\ PublishedIntact'
    <2>1. FinalsVerified'
        BY <1>2, <1>3, <1>4 DEF IInv, FinalsVerified
    <2>2. PublishedIntact'
        BY <1>2, <1>4, <1>5 DEF IInv, PublishedIntact
    <2> QED BY <2>1, <2>2
<1>12. LoopDone'
    <2>1. \A w \in Workers : pc[w] \in {"writeCover", "validate"} => Active(w)
        BY DEF Active
    <2>2. Image \in Kinds
        BY KindsAreNaturals
    <2> QED BY <1>1, <1>7, <1>8, <2>1, <2>2 DEF IInv, LoopDone
<1>13. CopiesStay'
    <2>1. Image \in Kinds /\ \A w \in Workers : kind[w] \in Kinds
        BY KindsAreNaturals, Typed DEF WorkerTypeOK
    <2>2. \A w \in Workers : Active(w) => (Unsettled(task[w])' <=> Unsettled(task[w]))
        BY <1>1, <1>4, <1>6 DEF Unsettled
    <2> QED BY <1>1, <1>2, <1>7, <1>8, <2>1, <2>2 DEF IInv, CopiesStay
<1>14. OneCloser'
    <2>1. \A u \in Uploads : Unsettled(u)' => Unsettled(u)
        BY <1>4, <1>5 DEF Unsettled
    <2> QED BY <1>1, <1>8, <2>1 DEF IInv, OneCloser
<1>15. NoticeMatchesOutcome'
    BY <1>1, <1>4, <1>5 DEF IInv, NoticeMatchesOutcome
<1> QED BY <1>9, <1>10, <1>11, <1>12, <1>13, <1>14, <1>15 DEF IInv

\* The pool's invariant holds with the API beside it, if no confirmation
\* lands on an upload that was accepted while it was under way. Without that
\* hypothesis it does not: a VerifyAsset that took its snapshot before
\* FinalizeUpload committed changes the ETag a worker copied against.
THEOREM PoolBesideAPI ==
    Spec /\ [][NoLateConfirmation]_pipelineVars => []IInv
<1>1. Init => IInv
    BY StartSound
<1>2. /\ PipelineInv /\ PipelineInv' /\ IInv
      /\ [Next]_pipelineVars /\ [NoLateConfirmation]_pipelineVars
      => IInv'
    <2> SUFFICES ASSUME PipelineInv, PipelineInv', IInv, [Next]_pipelineVars,
                        [NoLateConfirmation]_pipelineVars
                 PROVE  IInv'
        OBVIOUS
    <2>1. CASE UNCHANGED pipelineVars
        BY <2>1, StepHolds DEF pipelineVars
    <2>2. CASE WorkerNext
        BY <2>2, StepHolds
    <2>3. CASE ServiceNext /\ UNCHANGED workerVars /\ NoLateConfirmation
        BY <2>3, ServiceKeepsPool
    <2> QED BY <2>1, <2>2, <2>3 DEF Next
<1> QED BY <1>1, <1>2, PipelineInvariant, PTL DEF Spec

\* Then a completed spec serves exactly the contents it was accepted with,
\* all of them decodable, whatever clients and stale workers still write.
THEOREM PublishedIntactBesideAPI ==
    Spec /\ [][NoLateConfirmation]_pipelineVars => []PublishedIntact
BY PoolBesideAPI, PTL DEF IInv

\* And the pipeline publishes what direct-beat-upload.md says it publishes.
THEOREM PublishedPlayableBesideAPI ==
    Spec /\ [][NoLateConfirmation]_pipelineVars => []PublishedPlayable
<1>1. IInv => PublishedPlayable
    <2> SUFFICES ASSUME IInv, NEW u \in Uploads, spec[u].status = "completed"
                 PROVE  /\ cover[u] \in Playable
                        /\ \A k \in DOMAIN final[u] \ {Image} :
                                final[u][k] \in Playable
        BY DEF PublishedPlayable
    <2>1. DOMAIN final[u] = Kinds
        BY DEF IInv, TypeOK, StoreTypeOK
    <2> QED BY <2>1, KindsAreNaturals DEF IInv, PublishedIntact
<1> QED BY <1>1, PoolBesideAPI, PTL


(***************************************************************************)
(* The whole pipeline implements UploadLifecycle.                          *)
(***************************************************************************)

\* Every upload starts as a draft.
LEMMA StartImplements == ASSUME Init PROVE Lifecycle!Init
<1>1. \A u \in Uploads : spec[u].status = "none" /\ session[u] = "none"
    BY DEF Init, StoreInit, NoSpec
<1>2. \A u \in Uploads : /\ PhaseOf(u) = "draft"
                         /\ AcceptedOf(u) = [k \in Kinds |-> NULL]
                         /\ ShownOf(u) = [k \in Kinds |-> NULL]
    BY <1>1 DEF PhaseOf, AcceptedOf, ShownOf
<1> QED BY <1>2 DEF Lifecycle!Init, Lifecycle!Nothing

\* FinalizeUpload accepts the upload with the bundle it verified.
LEMMA FinalizingAccepts ==
    ASSUME PipelineInv, PipelineInv', IInv, IInv', NEW r \in Requests,
           CompleteFinalize(r)
    PROVE  \E u \in Uploads : Lifecycle!Accept(u)
<1>1. PICK u \in Uploads : u = req[r].upload
    BY DEF CompleteFinalize, PipelineInv, RequestsSound, RequestSound
<1>2. /\ session[u] = "uploading" /\ session' = [session EXCEPT ![u] = "queued"]
      /\ spec' = [spec EXCEPT ![u] = [status |-> "processing",
                                      metadata |-> req[r].form]]
      /\ job' = [job EXCEPT ![u] = [NoJob EXCEPT !.status = "queued"]]
      /\ \A x \in Uploads \ {u} : assets'[x] = assets[x]
    BY <1>1, Typed DEF CompleteFinalize, FinalizeUpload, StoreTypeOK
<1>3. /\ spec[u].status = "none" /\ spec'[u].status = "processing"
      /\ job'[u].status = "queued"
      /\ \A x \in Uploads \ {u} : spec'[x] = spec[x] /\ session'[x] = session[x]
    <2>1. spec[u].status = "none"
        BY <1>2 DEF PipelineInv, RowsSound, RowsAgree
    <2>2. job'[u].status = "queued"
        BY <1>2, Typed DEF StoreTypeOK, NoJob
    <2> QED BY <1>2, <2>1, <2>2, Typed DEF StoreTypeOK
<1>4. PhaseOf(u) = "draft" /\ PhaseOf(u)' = "accepted"
    BY <1>2, <1>3, PhaseShown, PhaseShownNext
<1>5. AcceptedOf(u)' \in [Kinds -> Acceptable]
    <2>1. \A k \in Kinds : assets'[u][k].etag \in Acceptable
        <3>1. DOMAIN assets'[u] = Kinds
            BY DEF PipelineInv, PipelineTypeOK, TypeOK, StoreTypeOK
        <3> QED BY <1>3, <3>1 DEF PipelineInv, RowsSound, AcceptedIsVerified
    <2> QED BY <1>3, <2>1 DEF AcceptedOf
<1>6. \A x \in Uploads \ {u} : /\ PhaseOf(x)' = PhaseOf(x)
                               /\ AcceptedOf(x)' = AcceptedOf(x)
    <2>1. \A x \in Uploads : spec[x].status \in SpecStatus
        BY Typed DEF StoreTypeOK, SpecRow
    <2> QED BY <1>2, <1>3, <2>1, PhaseShown, PhaseShownNext
            DEF SpecStatus, AcceptedOf
<1>7. \A x \in Uploads : ShownOf(x)' = ShownOf(x)
    BY <1>3, <1>6, BundleShown, BundleShownNext
<1> QED BY <1>4, <1>5, <1>6, <1>7 DEF Lifecycle!Accept

\* The other steps of the API are stutters of the lifecycle.
LEMMA ServiceImplements ==
    ASSUME PipelineInv, PipelineInv', IInv, IInv', ServiceNext, UNCHANGED workerVars,
           NoLateConfirmation
    PROVE  [Lifecycle!Next]_(Lifecycle!lifecycleVars)
<1>1. ASSUME NEW r \in Requests, CompleteFinalize(r) PROVE Lifecycle!Next
    BY <1>1, FinalizingAccepts DEF Lifecycle!Next
<1>2. CASE /\ UNCHANGED spec
           /\ \A u \in Uploads : session'[u] = "expired" <=> session[u] = "expired"
    <2>1. \A u \in Uploads : spec[u].status # "none" => assets'[u] = assets[u]
        <3>1. \A u \in Uploads : spec[u].status # "none" => ~Drafted(u)
            BY OneStory DEF PipelineInv, RowsSound
        <3> QED BY <3>1 DEF NoLateConfirmation, Drafted
    <2> QED BY <1>2, <2>1, Stutters
<1>3. ASSUME NEW u \in Uploads, CreateSession(u) \/ DeadlinePasses(u)
      PROVE  /\ UNCHANGED spec
             /\ \A x \in Uploads : session'[x] = "expired" <=> session[x] = "expired"
    BY <1>3, Typed DEF CreateSession, DeadlinePasses, StoreTypeOK
<1>4. ASSUME NEW r \in Requests, PrepareCommit(r) \/ VerifyApply(r)
      PROVE  UNCHANGED <<spec, session>>
    BY <1>4 DEF PrepareCommit, ReplaceAsset, VerifyApply, VerifyAsset, rowVars
<1> QED BY <1>1, <1>2, <1>3, <1>4, ServiceWrites

\* Under the same hypothesis the whole pipeline - requests, clients, workers,
\* crashes - is an UploadLifecycle: an upload is accepted with a bundle, is
\* settled once, and shows that very bundle once it is live.
THEOREM PipelineImplements ==
    Spec /\ [][NoLateConfirmation]_pipelineVars => ImplementsLifecycle
<1>1. Init => Lifecycle!Init
    BY StartImplements
<1>2. /\ PipelineInv /\ PipelineInv' /\ IInv /\ IInv'
      /\ [Next]_pipelineVars /\ [NoLateConfirmation]_pipelineVars
      => [Lifecycle!Next]_(Lifecycle!lifecycleVars)
    <2> SUFFICES ASSUME PipelineInv, PipelineInv', IInv, IInv',
                        [Next]_pipelineVars, [NoLateConfirmation]_pipelineVars
                 PROVE  [Lifecycle!Next]_(Lifecycle!lifecycleVars)
        OBVIOUS
    <2>1. CASE UNCHANGED pipelineVars
        BY <2>1, StepImplements DEF pipelineVars
    <2>2. CASE WorkerNext
        BY <2>2, StepImplements
    <2>3. CASE ServiceNext /\ UNCHANGED workerVars /\ NoLateConfirmation
        BY <2>3, ServiceImplements
    <2> QED BY <2>1, <2>2, <2>3 DEF Next
<1> QED BY <1>1, <1>2, PipelineInvariant, PoolBesideAPI, PTL
        DEF Spec, ImplementsLifecycle, Lifecycle!Spec

=============================================================================

--------------------------- MODULE UploadPipeline --------------------------
(***************************************************************************)
(* The whole direct-upload pipeline: API requests, browser PUTs and media  *)
(* workers over the same rows and the same bucket.                         *)
(***************************************************************************)
EXTENDS UploadService, UploadWorker

pipelineVars == <<vars, req>>

Init == StoreInit /\ ServiceStart /\ WorkerStart

\* The sweep's UPDATE waits for a session's row that a request has locked.
LocksKept ==
    \A u \in Uploads : Locked(u) => session'[u] = session[u]

Next ==
    \/ ServiceNext /\ UNCHANGED workerVars
    \/ WorkerNext /\ UNCHANGED req /\ LocksKept

Spec == Init /\ [][Next]_pipelineVars

----------------------------------------------------------------------------

\* Rows, bucket, workers and request slots keep their shape.
PipelineTypeOK == TypeOK /\ ServiceTypeOK

=============================================================================

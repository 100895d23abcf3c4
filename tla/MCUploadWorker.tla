--------------------------- MODULE MCUploadWorker --------------------------
(* Instances of the worker pool for TLC.                                   *)
EXTENDS UploadWorkerProofs, TLC

CONSTANTS u1, u2, w1, w2, good, corrupt, form

=============================================================================

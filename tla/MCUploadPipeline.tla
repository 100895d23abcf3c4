-------------------------- MODULE MCUploadPipeline -------------------------
(***************************************************************************)
(* The whole upload pipeline for TLC, three times over the same variables: *)
(* two workers that race over one file ("race"), two files whose URLs,    *)
(* confirmations and replacements overlap without a worker ("assets"), and *)
(* two files with a worker ("sweep"). The run chooses one at the start;    *)
(* the properties speak of whatever kinds the rows have.                   *)
(***************************************************************************)
EXTENDS UploadContract, TLC

CONSTANTS u1, r1, r2, w1, w2, w3, good, wrongType, corrupt, form

VARIABLES
    part,  \* "race", "assets" or "sweep"
    pc, task, bundle, kind, image, verdict, beat, pos, notices, faults

Race == INSTANCE UploadPipeline WITH
    Workers <- {w1, w2}, NumKinds <- 1, MaxAttempts <- 2,
    Contents <- {good, wrongType, corrupt}, MaxFaults <- 0,
    DeletesReliable <- FALSE

Assets == INSTANCE UploadPipeline WITH
    Workers <- {}, NumKinds <- 2, MaxAttempts <- 2,
    Contents <- {good, wrongType}, Acceptable <- {good}, Playable <- {good},
    MaxFaults <- 0, DeletesReliable <- TRUE

Sweep == INSTANCE UploadPipeline WITH
    Workers <- {w3}, NumKinds <- 2, MaxAttempts <- 2,
    Contents <- {good}, Acceptable <- {good}, Playable <- {good},
    MaxFaults <- 0, DeletesReliable <- TRUE

ASSUME PipelineAssumption ==
    Race!StoreAssumption /\ Assets!StoreAssumption /\ Sweep!StoreAssumption

Init ==
    \/ part = "race" /\ Race!Init
    \/ part = "assets" /\ Assets!Init
    \/ part = "sweep" /\ Sweep!Init

Next ==
    /\ UNCHANGED part
    /\ \/ part = "race" /\ Race!Next
       \/ part = "assets" /\ Assets!Next
       \/ part = "sweep" /\ Sweep!Next

Spec == Init /\ [][Next]_<<part, Race!pipelineVars>>

MCPipelineSymmetry == Permutations({r1, r2}) \cup Permutations({w1, w2})
=============================================================================

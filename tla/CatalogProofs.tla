---------------------------- MODULE CatalogProofs ----------------------------
(***************************************************************************)
(* For any number of requests, covers and currencies: once an order or a   *)
(* license refers to a spec, neither its row nor its audio goes away.      *)
(***************************************************************************)
EXTENDS Catalog, TLAPS

USE CatalogAssumption DEF sales, objects

\* A license follows an order.
LicensedIsOrdered == licensed => ordered

\* A spec that can be ordered has its audio.
CompletedHasAudio == row.present /\ row.status = "completed" => audio

\* Only a completed spec was ever ordered.
OrderedIsCompleted == ordered => row.present /\ row.status = "completed"

\* Files are deleted only after the row is gone.
FilesGoLast == \A r \in Requests : req[r].at = "files" => ~row.present

DeleteInv ==
    /\ TypeOK
    /\ LicensedIsOrdered
    /\ CompletedHasAudio
    /\ OrderedIsCompleted
    /\ FilesGoLast

----------------------------------------------------------------------------

\* An idle slot is a request.
LEMMA IdleTyped == Idle \in Request
BY DEF Idle, Request, Stages, Statuses

\* Nothing is published yet.
LEMMA InitHolds == ASSUME Init PROVE DeleteInv
<1> USE DEF Init
<1>1. row \in Row
  BY DEF Row, Statuses
<1>2. req \in [Requests -> Request]
  BY IdleTyped
<1>3. TypeOK
  <2>1. faults \in 0..MaxFaults
    OBVIOUS
  <2>2. cover \in [Covers -> {"unused", "stored", "deleted"}]
    OBVIOUS
  <2>3. cache \in [Currencies -> Nat \cup {NULL}]
    OBVIOUS
  <2>4. ordered \in BOOLEAN /\ licensed \in BOOLEAN /\ audio \in BOOLEAN
            /\ blocked \in BOOLEAN
    OBVIOUS
  <2> QED
    BY <1>1, <1>2, <2>1, <2>2, <2>3, <2>4 DEF TypeOK
<1>4. LicensedIsOrdered /\ CompletedHasAudio /\ OrderedIsCompleted /\ FilesGoLast
  BY DEF LicensedIsOrdered, CompletedHasAudio, OrderedIsCompleted, FilesGoLast, Idle
<1> QED
  BY <1>3, <1>4 DEF DeleteInv

\* What the steps of a request have in common: a slot that starts, moves on or
\* ends is still a request.
LEMMA SlotMoves ==
    ASSUME TypeOK, NEW r \in Requests,
           \/ Finish(r)
           \/ \E stage \in Stages : GoTo(r, stage)
           \/ \E job \in Request : Start(r, job)
    PROVE  req' \in [Requests -> Request]
<1>1. \A q \in Request, stage \in Stages : [q EXCEPT !.at = stage] \in Request
  BY DEF Request
<1>2. CASE Finish(r)
  BY <1>2, IdleTyped DEF TypeOK, Finish
<1>3. CASE \E stage \in Stages : GoTo(r, stage)
  BY <1>1, <1>3 DEF TypeOK, GoTo
<1>4. CASE \E job \in Request : Start(r, job)
  BY <1>4 DEF TypeOK, Start
<1> QED
  BY <1>2, <1>3, <1>4

\* Deleting a cover, or no cover, leaves cover objects.
LEMMA RemoveTyped ==
    ASSUME TypeOK, NEW k, Remove(k)
    PROVE  cover' \in [Covers -> {"unused", "stored", "deleted"}]
BY DEF TypeOK, Remove

\* The types alone, action by action.
LEMMA TypeStep == ASSUME TypeOK, [Next]_vars PROVE TypeOK'
<1> USE DEF MayFail, Fault
<1>1. CASE Publish \/ FailProcessing
  <2>1. \A k \in Covers : [row EXCEPT !.status = "completed", !.cover = k] \in Row
    BY DEF TypeOK, Row, Statuses
  <2>2. [row EXCEPT !.status = "failed"] \in Row
    BY DEF TypeOK, Row, Statuses
  <2>3. CASE Publish
    <3>1. row' \in Row
      BY <2>1, <2>3 DEF Publish
    <3>2. cover' \in [Covers -> {"unused", "stored", "deleted"}]
      BY <2>3 DEF Publish, Store, TypeOK
    <3>3. audio' \in BOOLEAN
      BY <2>3 DEF Publish
    <3> QED
      BY <2>3, <3>1, <3>2, <3>3 DEF Publish, TypeOK
  <2>4. CASE FailProcessing
    BY <2>2, <2>4 DEF FailProcessing, TypeOK
  <2> QED
    BY <1>1, <2>3, <2>4
<1>2. CASE PlaceOrder \/ IssueLicense
  BY <1>2 DEF PlaceOrder, IssueLicense, TypeOK
<1>3. ASSUME NEW r \in Requests, Update(r) PROVE TypeOK'
  <2>0. req[r] \in Request /\ row \in Row
    BY DEF TypeOK
  <2>1. CASE UpdateLoad(r)
    <3>1. \A stage \in {"upload", "check"} :
            [Idle EXCEPT !.at = stage, !.old = row.cover] \in Request
      BY <2>0, IdleTyped DEF Request, Row, Stages, Updating
    <3>2. req' \in [Requests -> Request]
      BY <2>1, <3>1, SlotMoves DEF UpdateLoad
    <3> QED
      BY <2>1, <3>2 DEF UpdateLoad, TypeOK
  <2>2. CASE UpdateUpload(r)
    <3>1. \A k \in Covers : [req[r] EXCEPT !.at = "check", !.new = k] \in Request
      BY <2>0 DEF Request, Stages, Updating
    <3>2. CASE Finish(r)
      BY <2>2, <3>2, SlotMoves DEF UpdateUpload, Store, TypeOK
    <3>3. CASE \E k \in Covers : req' = [req EXCEPT ![r].at = "check", ![r].new = k]
      <4>1. req' \in [Requests -> Request]
        BY <3>1, <3>3 DEF TypeOK
      <4> QED
        BY <2>2, <4>1 DEF UpdateUpload, Store, TypeOK
    <3> QED
      BY <2>2, <3>2, <3>3 DEF UpdateUpload
  <2>3. CASE UpdateCheck(r)
    <3>1. req' \in [Requests -> Request]
      BY <2>3, SlotMoves DEF UpdateCheck, Stages, Updating
    <3> QED
      BY <2>3, <3>1 DEF UpdateCheck, TypeOK
  <2>4. CASE UpdateWrite(r)
    <3>1. Written(r) \in Row
      <4>1. row.version + 1 \in Nat
        BY <2>0 DEF Row
      <4>2. (IF req[r].new # NULL THEN req[r].new ELSE req[r].old)
                \in Covers \cup {NULL}
        BY <2>0 DEF Request
      <4> QED
        BY <2>0, <4>1, <4>2 DEF Written, Row
    <3>2. req' \in [Requests -> Request]
      BY <2>4, SlotMoves DEF UpdateWrite, Stages, Updating
    <3>3. row' \in Row
      BY <2>0, <2>4, <3>1 DEF UpdateWrite
    <3>4. faults' \in 0..MaxFaults
      <4>1. UNCHANGED faults \/ Fault
        BY <2>4 DEF UpdateWrite
      <4> QED
        BY <4>1 DEF TypeOK
    <3> QED
      BY <2>4, <3>2, <3>3, <3>4 DEF UpdateWrite, TypeOK
  <2>5. CASE UpdateDiscard(r)
    BY <2>5, SlotMoves, RemoveTyped DEF UpdateDiscard, TypeOK
  <2>6. CASE UpdateDeleteOld(r)
    <3>1. req' \in [Requests -> Request]
      BY <2>6, SlotMoves DEF UpdateDeleteOld, Stages, Updating
    <3> QED
      <4>1. cover' \in [Covers -> {"unused", "stored", "deleted"}]
        <5>1. Remove(req[r].old) \/ UNCHANGED cover
          BY <2>6 DEF UpdateDeleteOld
        <5> QED
          BY <5>1, RemoveTyped DEF TypeOK
      <4> QED
        <5>1. UNCHANGED faults \/ Fault
          BY <2>6 DEF UpdateDeleteOld
        <5>2. faults' \in 0..MaxFaults
          BY <5>1 DEF TypeOK
        <5> QED
          BY <2>6, <3>1, <4>1, <5>2 DEF UpdateDeleteOld, TypeOK
  <2> QED
    BY <1>3, <2>1, <2>2, <2>3, <2>4, <2>5, <2>6 DEF Update
<1>4. ASSUME NEW r \in Requests, Delete(r) PROVE TypeOK'
  <2>0. req[r] \in Request /\ row \in Row
    BY DEF TypeOK
  <2>1. CASE DeleteLoad(r)
    <3>1. [Idle EXCEPT !.at = "recheck", !.old = row.cover] \in Request
      BY <2>0, IdleTyped DEF Request, Row, Stages, Deleting
    <3>2. req' \in [Requests -> Request]
      BY <2>1, <3>1, SlotMoves DEF DeleteLoad
    <3> QED
      BY <2>1, <3>2 DEF DeleteLoad, TypeOK
  <2>2. CASE DeleteRecheck(r) \/ DeleteCount(r)
    <3>1. req' \in [Requests -> Request]
      BY <2>2, SlotMoves DEF DeleteRecheck, DeleteCount, Stages, Deleting
    <3> QED
      BY <2>2, <3>1 DEF DeleteRecheck, DeleteCount, TypeOK
  <2>3. CASE SoftDelete(r)
    <3>1. row' \in Row
      BY <2>0, <2>3 DEF SoftDelete, Row
    <3>2. req' \in [Requests -> Request]
      BY <2>3, SlotMoves DEF SoftDelete, Stages, Updating
    <3> QED
      BY <2>3, <3>1, <3>2 DEF SoftDelete, TypeOK
  <2>4. CASE HardDelete(r)
    <3>1. [row EXCEPT !.present = FALSE] \in Row
      BY <2>0 DEF Row
    <3>2. req' \in [Requests -> Request]
      BY <2>4, SlotMoves DEF HardDelete, Stages, Deleting
    <3>3. blocked' \in BOOLEAN
      BY <2>4 DEF HardDelete, TypeOK
    <3>4. row' \in Row
      BY <2>0, <2>4, <3>1 DEF HardDelete
    <3>5. faults' \in 0..MaxFaults
      <4>1. UNCHANGED faults \/ Fault
        BY <2>4 DEF HardDelete
      <4> QED
        BY <4>1 DEF TypeOK
    <3> QED
      BY <2>4, <3>2, <3>3, <3>4, <3>5 DEF HardDelete, TypeOK
  <2>5. CASE DeleteFiles(r)
    <3>1. req' \in [Requests -> Request]
      BY <2>5, SlotMoves DEF DeleteFiles, Stages, Updating
    <3>2. audio' \in BOOLEAN
      BY <2>5 DEF DeleteFiles, TypeOK
    <3> QED
      BY <2>5, <3>1, <3>2, RemoveTyped DEF DeleteFiles, TypeOK
  <2> QED
    BY <1>4, <2>1, <2>2, <2>3, <2>4, <2>5 DEF Delete
<1>5. ASSUME NEW r \in Requests, Get(r) PROVE TypeOK'
  <2>0. req[r] \in Request /\ row \in Row
    BY DEF TypeOK
  <2>1. CASE GetRead(r)
    <3>1. \A c \in Currencies :
            [Idle EXCEPT !.at = "cache", !.currency = c,
                         !.version = row.version, !.status = row.status] \in Request
      BY <2>0, IdleTyped DEF Request, Row, Stages, Reading
    <3>2. req' \in [Requests -> Request]
      BY <2>1, <3>1, SlotMoves DEF GetRead
    <3> QED
      BY <2>1, <3>2 DEF GetRead, TypeOK
  <2>2. CASE GetCache(r)
    <3>1. req' \in [Requests -> Request]
      BY <2>2, SlotMoves DEF GetCache, Stages, Reading
    <3> QED
      BY <2>2, <3>1 DEF GetCache, TypeOK
  <2>3. CASE GetFill(r)
    <3>1. cache' \in [Currencies -> Nat \cup {NULL}]
      BY <2>0, <2>3 DEF GetFill, Request, TypeOK
    <3>2. req' \in [Requests -> Request]
      BY <2>3, SlotMoves DEF GetFill
    <3> QED
      BY <2>3, <3>1, <3>2 DEF GetFill, TypeOK
  <2> QED
    BY <1>5, <2>1, <2>2, <2>3 DEF Get
<1>6. ASSUME NEW r \in Requests, Invalidate(r) \/ RequestDies(r) PROVE TypeOK'
  <2>1. req' \in [Requests -> Request]
    BY <1>6, SlotMoves DEF Invalidate, RequestDies
  <2> QED
    BY <1>6, <2>1 DEF Invalidate, RequestDies, Dropped, TypeOK
<1>7. ASSUME NEW c \in Currencies, CacheExpires(c) PROVE TypeOK'
  BY <1>7 DEF CacheExpires, TypeOK
<1>8. CASE UNCHANGED vars
  BY <1>8 DEF vars, TypeOK
<1> QED
  BY <1>1, <1>2, <1>3, <1>4, <1>5, <1>6, <1>7, <1>8 DEF Next

\* Only HardDelete sends a slot to its files.
LEMMA NoFilesStart ==
    ASSUME TypeOK, NEW r \in Requests,
           \/ Finish(r)
           \/ \E stage \in Stages \ {"files"} : GoTo(r, stage)
           \/ \E job : job.at # "files" /\ Start(r, job)
    PROVE  \A s \in Requests : req'[s].at = "files" => req[s].at = "files"
<1>1. CASE Finish(r)
  BY <1>1 DEF TypeOK, Finish, Idle
<1>2. CASE \E stage \in Stages \ {"files"} : GoTo(r, stage)
  BY <1>2 DEF TypeOK, GoTo, Request
<1>3. CASE \E job : job.at # "files" /\ Start(r, job)
  BY <1>3 DEF TypeOK, Start
<1> QED
  BY <1>1, <1>2, <1>3

\* A step that changes neither sales nor audio, nor whether the row is there
\* and completed, and starts no deletion of files.
LEMMA Harmless ==
    ASSUME DeleteInv, UNCHANGED <<ordered, licensed, audio>>,
           row'.present = row.present, row'.status = row.status,
           \A r \in Requests : req'[r].at = "files" => req[r].at = "files"
    PROVE  LicensedIsOrdered' /\ CompletedHasAudio' /\ OrderedIsCompleted'
               /\ FilesGoLast'
BY DEF DeleteInv, LicensedIsOrdered, CompletedHasAudio, OrderedIsCompleted,
       FilesGoLast

\* Each action; most are harmless.
LEMMA StepHolds == ASSUME DeleteInv, [Next]_vars PROVE DeleteInv'
<1> DEFINE Goal == LicensedIsOrdered' /\ CompletedHasAudio' /\ OrderedIsCompleted'
                       /\ FilesGoLast'
<1> USE DEF DeleteInv
<1>1. TypeOK'
  BY TypeStep
<1> SUFFICES Goal
  BY <1>1
<1> USE DEF LicensedIsOrdered, CompletedHasAudio, OrderedIsCompleted, FilesGoLast
<1>2. CASE Publish
  <2>1. row'.status = "completed" /\ row'.present = row.present
    BY <1>2 DEF Publish, TypeOK, Row
  <2>2. ~ordered /\ ~licensed
    BY <1>2 DEF Publish
  <2> QED
    BY <1>2, <2>1, <2>2 DEF Publish
<1>3. CASE FailProcessing
  <2>1. row'.status = "failed" /\ row'.present = row.present
    BY <1>3 DEF FailProcessing, TypeOK, Row
  <2>2. ~ordered /\ ~licensed
    BY <1>3 DEF FailProcessing
  <2> QED
    BY <1>3, <2>1, <2>2 DEF FailProcessing
<1>4. CASE PlaceOrder \/ IssueLicense
  BY <1>4 DEF PlaceOrder, IssueLicense
<1>5. ASSUME NEW r \in Requests, Update(r) PROVE Goal
  <2>1. CASE UpdateLoad(r)
    <3>1. \A s \in Requests : req'[s].at = "files" => req[s].at = "files"
      BY <2>1, NoFilesStart DEF UpdateLoad, Idle
    <3> QED
      BY <2>1, <3>1, Harmless DEF UpdateLoad
  <2>2. CASE UpdateUpload(r)
    <3>1. \A s \in Requests : req'[s].at = "files" => req[s].at = "files"
      <4>1. CASE Finish(r)
        BY <4>1, NoFilesStart
      <4>2. CASE \E k \in Covers : req' = [req EXCEPT ![r].at = "check", ![r].new = k]
        BY <4>2 DEF TypeOK, Request
      <4> QED
        BY <2>2, <4>1, <4>2 DEF UpdateUpload
    <3> QED
      BY <2>2, <3>1, Harmless DEF UpdateUpload
  <2>3. CASE UpdateCheck(r)
    <3>1. \A s \in Requests : req'[s].at = "files" => req[s].at = "files"
      BY <2>3, NoFilesStart DEF UpdateCheck, Stages, Updating
    <3> QED
      BY <2>3, <3>1, Harmless DEF UpdateCheck
  <2>4. CASE UpdateWrite(r)
    <3>1. row'.present = row.present /\ row'.status = row.status
      BY <2>4 DEF UpdateWrite, Written, TypeOK, Row
    <3>2. \A s \in Requests : req'[s].at = "files" => req[s].at = "files"
      BY <2>4, NoFilesStart DEF UpdateWrite, Stages, Updating
    <3> QED
      BY <2>4, <3>1, <3>2, Harmless DEF UpdateWrite
  <2>5. CASE UpdateDiscard(r)
    <3>1. \A s \in Requests : req'[s].at = "files" => req[s].at = "files"
      BY <2>5, NoFilesStart DEF UpdateDiscard
    <3> QED
      BY <2>5, <3>1, Harmless DEF UpdateDiscard
  <2>6. CASE UpdateDeleteOld(r)
    <3>1. \A s \in Requests : req'[s].at = "files" => req[s].at = "files"
      BY <2>6, NoFilesStart DEF UpdateDeleteOld, Stages, Updating
    <3> QED
      BY <2>6, <3>1, Harmless DEF UpdateDeleteOld
  <2> QED
    BY <1>5, <2>1, <2>2, <2>3, <2>4, <2>5, <2>6 DEF Update
<1>6. ASSUME NEW r \in Requests, Delete(r) PROVE Goal
  <2>1. CASE DeleteLoad(r)
    <3>1. \A s \in Requests : req'[s].at = "files" => req[s].at = "files"
      BY <2>1, NoFilesStart DEF DeleteLoad, Idle
    <3> QED
      BY <2>1, <3>1, Harmless DEF DeleteLoad
  <2>2. CASE DeleteRecheck(r) \/ DeleteCount(r)
    <3>1. \A s \in Requests : req'[s].at = "files" => req[s].at = "files"
      BY <2>2, NoFilesStart DEF DeleteRecheck, DeleteCount, Stages, Updating, Deleting
    <3> QED
      BY <2>2, <3>1, Harmless DEF DeleteRecheck, DeleteCount
  <2>3. CASE SoftDelete(r)
    <3>1. row'.present = row.present /\ row'.status = row.status
      BY <2>3 DEF SoftDelete, TypeOK, Row
    <3>2. \A s \in Requests : req'[s].at = "files" => req[s].at = "files"
      BY <2>3, NoFilesStart DEF SoftDelete, Stages, Updating
    <3> QED
      BY <2>3, <3>1, <3>2, Harmless DEF SoftDelete
  <2>4. CASE HardDelete(r)
    <3>1. CASE row.present /\ ~Referenced /\ row' = [row EXCEPT !.present = FALSE]
      <4>1. ~row'.present /\ ~ordered /\ ~licensed
        BY <3>1 DEF Referenced, TypeOK, Row
      <4> QED
        BY <2>4, <4>1 DEF HardDelete
    <3>2. CASE UNCHANGED row /\ Finish(r)
      <4>1. \A s \in Requests : req'[s].at = "files" => req[s].at = "files"
        BY <3>2, NoFilesStart
      <4> QED
        BY <2>4, <3>2, <4>1, Harmless DEF HardDelete
    <3> QED
      BY <2>4, <3>1, <3>2 DEF HardDelete
  <2>5. CASE DeleteFiles(r)
    <3>1. ~row.present /\ ~ordered
      BY <2>5 DEF DeleteFiles
    <3> QED
      BY <2>5, <3>1 DEF DeleteFiles
  <2> QED
    BY <1>6, <2>1, <2>2, <2>3, <2>4, <2>5 DEF Delete
<1>7. ASSUME NEW r \in Requests, Get(r) PROVE Goal
  <2>1. CASE GetRead(r)
    <3>1. \A s \in Requests : req'[s].at = "files" => req[s].at = "files"
      BY <2>1, NoFilesStart DEF GetRead, Idle
    <3> QED
      BY <2>1, <3>1, Harmless DEF GetRead
  <2>2. CASE GetCache(r)
    <3>1. \A s \in Requests : req'[s].at = "files" => req[s].at = "files"
      BY <2>2, NoFilesStart DEF GetCache, Stages, Reading
    <3> QED
      BY <2>2, <3>1, Harmless DEF GetCache
  <2>3. CASE GetFill(r)
    <3>1. \A s \in Requests : req'[s].at = "files" => req[s].at = "files"
      BY <2>3, NoFilesStart DEF GetFill
    <3> QED
      BY <2>3, <3>1, Harmless DEF GetFill
  <2> QED
    BY <1>7, <2>1, <2>2, <2>3 DEF Get
<1>8. ASSUME NEW r \in Requests, Invalidate(r) \/ RequestDies(r) PROVE Goal
  <2>1. \A s \in Requests : req'[s].at = "files" => req[s].at = "files"
    BY <1>8, NoFilesStart DEF Invalidate, RequestDies
  <2> QED
    BY <1>8, <2>1, Harmless DEF Invalidate, RequestDies
<1>9. ASSUME NEW c \in Currencies, CacheExpires(c) PROVE Goal
  BY <1>9, Harmless DEF CacheExpires
<1>10. CASE UNCHANGED vars
  BY <1>10, Harmless DEF vars
<1> QED
  BY <1>2, <1>3, <1>4, <1>5, <1>6, <1>7, <1>8, <1>9, <1>10 DEF Next

\* The inductive invariant of buying and deleting.
THEOREM Invariant == Spec => []DeleteInv
<1>1. Init => DeleteInv
  BY InitHolds
<1>2. DeleteInv /\ [Next]_vars => DeleteInv'
  BY StepHolds
<1> QED
  BY <1>1, <1>2, PTL DEF Spec

\* What was bought stays: the row keeps its shape, and whatever deletes,
\* orders and licenses overlap, a spec somebody bought keeps row and audio.
THEOREM BoughtFilesStay == Spec => []CatalogInv
<1>1. DeleteInv => CatalogInv
  BY DEF DeleteInv, CatalogInv, BuyersFilesStay, LicensedIsOrdered,
         CompletedHasAudio, OrderedIsCompleted
<1> QED
  BY <1>1, Invariant, PTL

----------------------------------------------------------------------------
(* The cover. Two overlapping edits, or a commit that the handler takes    *)
(* for a failure, break it: neither is assumed away silently.              *)

\* One edit at a time.
OneEditor == \A a, b \in Editors : a = b

\* An UPDATE that reports an error has changed nothing.
CommitsAreReported ==
    \A r \in Requests :
        req[r].at = "write" /\ req'[r].at = "discard" => UNCHANGED row

Editing == {"upload", "check", "write", "discard", "delete old"}

\* What an edit relies on: the cover it loaded is still the row's until it
\* writes, its own image is in the bucket, and what it deletes is not shown.
EditFollowed(r) ==
    LET q == req[r] IN
    /\ q.at \in Editing => r \in Editors /\ row.status # "processing"
    /\ q.at \in {"upload", "check", "write"} => q.old = row.cover
    /\ q.at \in {"check", "write", "discard"} => q.new = NULL \/ q.new # row.cover
    /\ q.at \in {"check", "write"} => q.new = NULL \/ cover[q.new] = "stored"
    /\ q.at = "delete old" => q.old = NULL \/ q.old # row.cover

CoverInv == row.present => CoverPresent /\ \A r \in Requests : EditFollowed(r)

\* Nothing is edited yet.
LEMMA CoverInit == ASSUME Init PROVE CoverInv
BY DEF Init, CoverInv, CoverPresent, EditFollowed, Editing, Idle

\* A step that leaves covers alone and no slot newly editing.
LEMMA EditsUndisturbed ==
    ASSUME CoverInv, UNCHANGED cover, row'.present => row.present,
           row'.cover = row.cover, row'.status = row.status,
           \A r \in Requests : req'[r].at \in Editing => req'[r] = req[r]
    PROVE  CoverInv'
<1> SUFFICES ASSUME row'.present PROVE CoverPresent' /\ \A r \in Requests : EditFollowed(r)'
  BY DEF CoverInv
<1>1. CoverPresent /\ \A r \in Requests : EditFollowed(r)
  BY DEF CoverInv
<1>2. CoverPresent'
  BY <1>1 DEF CoverPresent
<1>3. ASSUME NEW r \in Requests PROVE EditFollowed(r)'
  BY <1>1 DEF EditFollowed, Editing
<1> QED
  BY <1>2, <1>3

\* A slot that ends, or moves on or starts outside an edit, edits nothing.
LEMMA NoEditStarts ==
    ASSUME TypeOK, NEW r \in Requests,
           \/ Finish(r)
           \/ \E stage \in Stages \ Editing : GoTo(r, stage)
           \/ \E job : job.at \notin Editing /\ Start(r, job)
    PROVE  \A s \in Requests : req'[s].at \in Editing => req'[s] = req[s]
<1>1. CASE Finish(r)
  BY <1>1 DEF TypeOK, Finish, Idle, Editing
<1>2. CASE \E stage \in Stages \ Editing : GoTo(r, stage)
  BY <1>2 DEF TypeOK, GoTo, Request
<1>3. CASE \E job : job.at \notin Editing /\ Start(r, job)
  BY <1>3 DEF TypeOK, Start
<1> QED
  BY <1>1, <1>2, <1>3

\* The steps of the one edit, while the row is there.
LEMMA EditStep ==
    ASSUME DeleteInv, OneEditor, CoverInv, CommitsAreReported,
           NEW r \in Requests, Update(r), row'.present
    PROVE  CoverPresent' /\ \A s \in Requests : EditFollowed(s)'
<1>1. /\ TypeOK /\ row \in Row /\ req[r] \in Request
      /\ cover \in [Covers -> {"unused", "stored", "deleted"}]
      /\ \A s \in Requests : req[s] \in Request
  BY DEF DeleteInv, TypeOK
<1>2. row.present
  BY <1>1 DEF Update, UpdateLoad, UpdateUpload, UpdateCheck, UpdateWrite,
              UpdateDiscard, UpdateDeleteOld, Written, Row
<1>3. CoverPresent /\ \A s \in Requests : EditFollowed(s)
  BY <1>2 DEF CoverInv
<1>4. row.cover # NULL => row.cover \in Covers /\ cover[row.cover] = "stored"
  BY <1>1, <1>2, <1>3 DEF CoverPresent, Row
<1>5. r \in Editors
  BY <1>3 DEF Update, UpdateLoad, UpdateUpload, UpdateCheck, UpdateWrite,
              UpdateDiscard, UpdateDeleteOld, EditFollowed, Editing
<1>6. \A s \in Requests \ {r} : req[s].at \notin Editing
  BY <1>3, <1>5 DEF EditFollowed, OneEditor
<1>7. \A s \in Requests \ {r} : req'[s] = req[s]
  BY <1>1 DEF Update, UpdateLoad, UpdateUpload, UpdateCheck, UpdateWrite,
              UpdateDiscard, UpdateDeleteOld, Start, GoTo, Finish, TypeOK
<1>8. \A s \in Requests \ {r} : EditFollowed(s)'
  BY <1>6, <1>7 DEF EditFollowed, Editing
<1> SUFFICES CoverPresent' /\ EditFollowed(r)'
  BY <1>8
<1>9. CASE UpdateLoad(r)
  <2>1. PICK stage \in {"upload", "check"} :
            req'[r] = [Idle EXCEPT !.at = stage, !.old = row.cover]
    BY <1>1, <1>9 DEF UpdateLoad, Start, TypeOK
  <2>2. req'[r].at = stage /\ req'[r].old = row.cover /\ req'[r].new = NULL
    BY <2>1 DEF Idle
  <2>3. row.status # "processing" /\ UNCHANGED <<row, cover>>
    BY <1>9 DEF UpdateLoad, Settled
  <2> QED
    BY <1>3, <1>5, <2>2, <2>3 DEF EditFollowed, CoverPresent
<1>10. CASE UpdateUpload(r)
  <2>1. CASE Finish(r) /\ UNCHANGED cover
    BY <1>1, <1>3, <1>10, <2>1 DEF UpdateUpload, Finish, Idle, EditFollowed, CoverPresent, Editing, TypeOK
  <2>2. ASSUME NEW k \in Covers, cover[k] = "unused", Store(k),
               req' = [req EXCEPT ![r].at = "check", ![r].new = k]
        PROVE  CoverPresent' /\ EditFollowed(r)'
    <3>1. req'[r].at = "check" /\ req'[r].new = k /\ req'[r].old = req[r].old
      BY <1>1, <2>2 DEF TypeOK, Request
    <3>2. /\ req[r].at = "upload" /\ UNCHANGED row
          /\ cover'[k] = "stored" /\ \A i \in Covers \ {k} : cover'[i] = cover[i]
      BY <1>1, <1>10, <2>2 DEF UpdateUpload, Store
    <3>3. k # row.cover /\ req[r].old = row.cover /\ row.status # "processing"
      BY <1>3, <1>4, <2>2, <3>2 DEF EditFollowed, Editing
    <3> QED
      BY <1>4, <1>5, <3>1, <3>2, <3>3 DEF EditFollowed, CoverPresent
  <2> QED
    BY <1>10, <2>1, <2>2 DEF UpdateUpload
<1>11. CASE UpdateCheck(r)
  <2>1. PICK stage \in {"write", "discard"} : GoTo(r, stage)
    BY <1>11 DEF UpdateCheck
  <2>2. req'[r].at = stage /\ req'[r].new = req[r].new /\ req'[r].old = req[r].old
    BY <1>1, <2>1 DEF GoTo, TypeOK, Request
  <2>3. req[r].at = "check" /\ UNCHANGED <<row, cover>>
    BY <1>11 DEF UpdateCheck, objects
  <2> QED
    BY <1>3, <2>2, <2>3 DEF EditFollowed, CoverPresent, Editing
<1>12. CASE UpdateWrite(r)
  <2>1. /\ req[r].at = "write" /\ UNCHANGED cover
        /\ req[r].old = row.cover /\ row.status # "processing"
        /\ req[r].new # NULL => req[r].new # row.cover /\ cover[req[r].new] = "stored"
    BY <1>3, <1>12 DEF UpdateWrite, EditFollowed, objects, Editing
  <2>2. CASE row' = Written(r) /\ req[r].new # NULL /\ GoTo(r, "delete old")
    <3>1. row'.cover = req[r].new /\ row'.status = row.status
      BY <1>1, <2>2 DEF Written, Row
    <3>2. req'[r].at = "delete old" /\ req'[r].old = req[r].old
      BY <1>1, <2>2 DEF GoTo, TypeOK, Request
    <3> QED
      BY <1>5, <2>1, <2>2, <3>1, <3>2 DEF EditFollowed, CoverPresent, Editing
  <2>3. CASE row' = Written(r) /\ req[r].new = NULL /\ GoTo(r, "invalidate")
    <3>1. row'.cover = row.cover
      BY <1>1, <2>1, <2>3 DEF Written, Row
    <3>2. req'[r].at = "invalidate"
      BY <1>1, <2>3 DEF GoTo, TypeOK, Request
    <3> QED
      BY <1>4, <2>1, <3>1, <3>2 DEF EditFollowed, CoverPresent, Editing
  <2>4. CASE GoTo(r, "discard")
    <3>1. /\ req'[r].at = "discard" /\ req'[r].new = req[r].new
      BY <1>1, <2>4 DEF GoTo, TypeOK, Request
    <3>2. UNCHANGED row
      BY <2>1, <3>1 DEF CommitsAreReported
    <3> QED
      BY <1>4, <1>5, <2>1, <3>1, <3>2 DEF EditFollowed, CoverPresent, Editing
  <2> QED
    BY <1>12, <2>2, <2>3, <2>4 DEF UpdateWrite
<1>13. CASE UpdateDiscard(r)
  <2>1. req'[r].at = "idle" /\ UNCHANGED row
    BY <1>1, <1>13 DEF UpdateDiscard, Finish, Idle, TypeOK
  <2>2. req[r].at = "discard" /\ (req[r].new = NULL \/ req[r].new # row.cover)
    BY <1>3, <1>13 DEF UpdateDiscard, EditFollowed
  <2>3. UNCHANGED cover \/ Remove(req[r].new)
    BY <1>13 DEF UpdateDiscard
  <2>4. row.cover # NULL => cover'[row.cover] = "stored"
    BY <1>4, <2>2, <2>3 DEF Remove
  <2> QED
    BY <2>1, <2>4 DEF EditFollowed, CoverPresent, Editing
<1>14. CASE UpdateDeleteOld(r)
  <2>1. req'[r].at = "invalidate" /\ UNCHANGED row
    BY <1>1, <1>14 DEF UpdateDeleteOld, GoTo, Request, TypeOK
  <2>2. req[r].at = "delete old" /\ (req[r].old = NULL \/ req[r].old # row.cover)
    BY <1>3, <1>14 DEF UpdateDeleteOld, EditFollowed
  <2>3. UNCHANGED cover \/ Remove(req[r].old)
    BY <1>14 DEF UpdateDeleteOld
  <2>4. row.cover # NULL => cover'[row.cover] = "stored"
    BY <1>4, <2>2, <2>3 DEF Remove
  <2> QED
    BY <2>1, <2>4 DEF EditFollowed, CoverPresent, Editing
<1> QED
  BY <1>9, <1>10, <1>11, <1>12, <1>13, <1>14 DEF Update

\* Each action; only those of the edit touch the covers of a row.
LEMMA CoverStep ==
    ASSUME DeleteInv, OneEditor, CoverInv, CommitsAreReported, [Next]_vars
    PROVE  CoverInv'
<1>1. TypeOK /\ row \in Row /\ FilesGoLast
  BY DEF DeleteInv, TypeOK
<1>2. CASE Publish
  <2>1. PICK k \in Covers : Store(k) /\ row' = [row EXCEPT !.status = "completed", !.cover = k]
    BY <1>2 DEF Publish
  <2>2. /\ row'.cover = k /\ row'.present = row.present /\ cover'[k] = "stored"
    BY <1>1, <2>1 DEF Row, Store, TypeOK
  <2>3. row.status = "processing" /\ UNCHANGED req
    BY <1>2 DEF Publish
  <2> QED
    BY <2>2, <2>3 DEF CoverInv, CoverPresent, EditFollowed, Editing
<1>3. CASE FailProcessing
  <2>1. /\ row'.cover = row.cover /\ row'.present = row.present
        /\ row.status = "processing" /\ UNCHANGED <<req, cover>>
    BY <1>1, <1>3 DEF FailProcessing, Row
  <2> QED
    BY <2>1 DEF CoverInv, CoverPresent, EditFollowed, Editing
<1>4. CASE PlaceOrder \/ IssueLicense
  BY <1>4, EditsUndisturbed DEF PlaceOrder, IssueLicense
<1>5. ASSUME NEW r \in Requests, Update(r) PROVE CoverInv'
  BY <1>5, EditStep DEF CoverInv
<1>6. ASSUME NEW r \in Requests, Delete(r) PROVE CoverInv'
  <2>1. CASE DeleteLoad(r)
    <3>1. \A s \in Requests : req'[s].at \in Editing => req'[s] = req[s]
      BY <1>1, <2>1, NoEditStarts DEF DeleteLoad, Idle, Editing
    <3> QED
      BY <2>1, <3>1, EditsUndisturbed DEF DeleteLoad
  <2>2. CASE DeleteRecheck(r) \/ DeleteCount(r)
    <3>1. \A s \in Requests : req'[s].at \in Editing => req'[s] = req[s]
      BY <1>1, <2>2, NoEditStarts DEF DeleteRecheck, DeleteCount, Stages, Updating, Deleting, Editing
    <3> QED
      BY <2>2, <3>1, EditsUndisturbed DEF DeleteRecheck, DeleteCount
  <2>3. CASE SoftDelete(r)
    <3>1. row'.present = row.present /\ row'.status = row.status /\ row'.cover = row.cover
      BY <1>1, <2>3 DEF SoftDelete, Row
    <3>2. \A s \in Requests : req'[s].at \in Editing => req'[s] = req[s]
      BY <1>1, <2>3, NoEditStarts DEF SoftDelete, Stages, Updating, Editing
    <3> QED
      BY <2>3, <3>1, <3>2, EditsUndisturbed DEF SoftDelete
  <2>4. CASE HardDelete(r)
    <3>1. CASE row' = [row EXCEPT !.present = FALSE]
      <4>1. ~row'.present
        BY <1>1, <3>1 DEF Row
      <4> QED
        BY <4>1 DEF CoverInv
    <3>2. CASE UNCHANGED row /\ Finish(r)
      <4>1. \A s \in Requests : req'[s].at \in Editing => req'[s] = req[s]
        BY <1>1, <3>2, NoEditStarts
      <4> QED
        BY <2>4, <3>2, <4>1, EditsUndisturbed DEF HardDelete
    <3> QED
      BY <2>4, <3>1, <3>2 DEF HardDelete
  <2>5. CASE DeleteFiles(r)
    BY <1>1, <2>5 DEF DeleteFiles, FilesGoLast, CoverInv
  <2> QED
    BY <1>6, <2>1, <2>2, <2>3, <2>4, <2>5 DEF Delete
<1>7. ASSUME NEW r \in Requests, Get(r) PROVE CoverInv'
  <2>1. CASE GetRead(r)
    <3>1. \A s \in Requests : req'[s].at \in Editing => req'[s] = req[s]
      BY <1>1, <2>1, NoEditStarts DEF GetRead, Idle, Editing
    <3> QED
      BY <2>1, <3>1, EditsUndisturbed DEF GetRead
  <2>2. CASE GetCache(r)
    <3>1. \A s \in Requests : req'[s].at \in Editing => req'[s] = req[s]
      BY <1>1, <2>2, NoEditStarts DEF GetCache, Stages, Reading, Editing
    <3> QED
      BY <2>2, <3>1, EditsUndisturbed DEF GetCache
  <2>3. CASE GetFill(r)
    <3>1. \A s \in Requests : req'[s].at \in Editing => req'[s] = req[s]
      BY <1>1, <2>3, NoEditStarts DEF GetFill
    <3> QED
      BY <2>3, <3>1, EditsUndisturbed DEF GetFill
  <2> QED
    BY <1>7, <2>1, <2>2, <2>3 DEF Get
<1>8. ASSUME NEW r \in Requests, Invalidate(r) \/ RequestDies(r) PROVE CoverInv'
  <2>1. \A s \in Requests : req'[s].at \in Editing => req'[s] = req[s]
    BY <1>1, <1>8, NoEditStarts DEF Invalidate, RequestDies
  <2> QED
    BY <1>8, <2>1, EditsUndisturbed DEF Invalidate, RequestDies
<1>9. ASSUME NEW c \in Currencies, CacheExpires(c) PROVE CoverInv'
  BY <1>9, EditsUndisturbed DEF CacheExpires
<1>10. CASE UNCHANGED vars
  BY <1>10, EditsUndisturbed DEF vars
<1> QED
  BY <1>2, <1>3, <1>4, <1>5, <1>6, <1>7, <1>8, <1>9, <1>10 DEF Next

\* With one edit at a time and no commit mistaken for a failure, the row never
\* points to a cover that was deleted, whatever deletes, orders, failed calls
\* and deaths come between the statements of the edit.
THEOREM CoverStays ==
    ASSUME OneEditor
    PROVE  Spec /\ [][CommitsAreReported]_vars => []CoverPresent
<1>1. Init => CoverInv
  BY CoverInit
<1>2. DeleteInv /\ CoverInv /\ [Next]_vars /\ [CommitsAreReported]_vars => CoverInv'
  <2>1. CASE UNCHANGED vars
    BY <2>1, EditsUndisturbed DEF vars
  <2> QED
    BY <2>1, CoverStep
<1>3. CoverInv => CoverPresent
  BY DEF CoverInv, CoverPresent
<1> QED
  BY <1>1, <1>2, <1>3, Invariant, PTL DEF Spec
=============================================================================

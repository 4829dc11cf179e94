------------------------ MODULE FileLifecycleProofs ------------------------
(***************************************************************************)
(* TLAPS proofs about FileLifecycle.  The inductive invariant IInv says    *)
(* which requests and workers may still touch a file: an upload that has   *)
(* stored its row never inserts or rolls back again, a worker past its     *)
(* CompleteFileScan only removes objects that the stored result no longer  *)
(* needs, and at most one claim of a file is current.                      *)
(***************************************************************************)
EXTENDS Downloads, FiniteSetTheorems, TLAPS

Past(f) == upload[f] \in {"rollback", "done"}

Busy(w) == phase[w] # "idle"

\* The row, the delete request, the permission change and the workers of a
\* file only exist once its upload is past the insertion.
InsertedOnce ==
  /\ \A f \in File : f \in Rows => Past(f)
  /\ \A f \in File : deletion[f] # "idle" => status[f] = "none" /\ Past(f)
  /\ \A f \in File :
       permission[f] # "idle" => status[f] \in {"approved", "none"} /\ Past(f)
  /\ \A w \in Worker : Busy(w) => Past(scanned[w])

\* What the upload request has done when it reaches each of its steps.
UploadOrder ==
  /\ \A f \in File : upload[f] = "commit" => f \in quarantine
  /\ \A f \in File : reply[f] = "created" => upload[f] = "done"

\* Leases are numbers of claims, and every claim has its own.
Leases ==
  /\ \A f \in File : scanStartedAt[f] <= claims[f]
  /\ \A w \in Worker : Busy(w) => lease[w] <= claims[scanned[w]]
  /\ \A v, w \in Worker :
       Busy(v) /\ Busy(w) /\ scanned[v] = scanned[w] /\ v # w
         => lease[v] # lease[w]

\* What a worker knows about the file in each of its phases.
WorkerKnows ==
  \A w \in Worker :
    /\ phase[w] = "promote" => result[w] = "approved"
    /\ phase[w] = "complete" /\ result[w] = "approved" /\ LeaseIsCurrent(w)
         => scanned[w] \in production
    /\ phase[w] = "tidyProduction" =>
         /\ result[w] # "approved"
         /\ status[scanned[w]] \in {result[w], "none"}
    /\ phase[w] = "tidyQuarantine" =>
         /\ result[w] # "scan_failed"
         /\ status[scanned[w]] \in {result[w], "none"}
    /\ phase[w] \in {"purgeProduction", "purgeQuarantine"}
         => status[scanned[w]] = "none"

IInv ==
  /\ TypeOK
  /\ InsertedOnce
  /\ UploadOrder
  /\ Leases
  /\ WorkerKnows
  /\ ApprovedIsServable
  /\ AcknowledgedKeepsQuarantine
  /\ PublicIsApproved

-----------------------------------------------------------------------------

\* The types of the variables, which the interleaving cannot disturb.
LEMMA NextType == TypeOK /\ [Next]_vars => TypeOK'
<1> SUFFICES ASSUME TypeOK, [Next]_vars PROVE TypeOK'
  OBVIOUS
<1> USE DEF TypeOK, rowVars, bucketVars, uploadVars, ownerVars, workerVars,
            Fault, LostAnswer
<1>1. ASSUME NEW f \in File, UploadStep(f) PROVE TypeOK'
  BY <1>1, BoundsAssumption DEF UploadStep, UploadQuarantineFile,
      UploadQuarantineFileFails, CommitReservedFile, CommitReservedFileFails,
      RollBackUpload, CrashUpload, InsertRow, Undecided
<1>2. ASSUME NEW f \in File, OwnerStep(f) PROVE TypeOK'
  <2>1. CASE DeleteFile(f)
    BY <2>1, BoundsAssumption DEF DeleteFile, Undecided, Decided
  <2>2. CASE DeleteProductionObject(f)
    BY <2>2, BoundsAssumption DEF DeleteProductionObject, Undecided, Decided
  <2>3. CASE DeleteQuarantineObject(f)
    BY <2>3, BoundsAssumption DEF DeleteQuarantineObject, Undecided, Decided
  <2>4. CASE CrashDeletion(f)
    BY <2>4, BoundsAssumption DEF CrashDeletion, Undecided, Decided
  <2>5. ASSUME NEW access \in {"public", "private"}, ChangeFilePermission(f, access)
       PROVE  TypeOK'
    BY <2>5, BoundsAssumption DEF ChangeFilePermission, Undecided, Decided
  <2>6. CASE UpdateFilePermission(f)
    BY <2>6, BoundsAssumption DEF UpdateFilePermission, Undecided, Decided
  <2> QED BY <1>2, <2>1, <2>2, <2>3, <2>4, <2>5, <2>6 DEF OwnerStep
<1>3. ASSUME NEW w \in Worker, WorkerStep(w) PROVE TypeOK'
  <2>1. ASSUME NEW f \in File, ClaimFileForScan(w, f) PROVE TypeOK'
    BY <2>1, BoundsAssumption DEF ClaimFileForScan, Phases, Undecided, Decided
  <2>2. ASSUME NEW verdict \in Decided, Inspect(w, verdict) PROVE TypeOK'
    BY <2>2, BoundsAssumption DEF Inspect, Phases, Undecided, Decided
  <2>3. CASE PromoteQuarantineFile(w)
    BY <2>3, BoundsAssumption DEF PromoteQuarantineFile, Phases, Undecided,
        Decided
  <2>4. CASE PromoteQuarantineFileFails(w)
    BY <2>4, BoundsAssumption DEF PromoteQuarantineFileFails, Phases,
        Undecided, Decided
  <2>5. CASE CompleteFileScan(w)
    BY <2>5, BoundsAssumption DEF CompleteFileScan, StoreResult, Phases,
        Undecided, Decided
  <2>6. CASE CompleteFileScanMisses(w)
    BY <2>6, BoundsAssumption DEF CompleteFileScanMisses, Phases, Undecided,
        Decided
  <2>7. CASE CheckFileExists(w)
    BY <2>7, BoundsAssumption DEF CheckFileExists, Phases, Undecided, Decided
  <2>8. CASE CompleteFileScanFails(w)
    BY <2>8, BoundsAssumption DEF CompleteFileScanFails, StoreResult, Phases,
        Undecided, Decided
  <2>9. CASE RemoveProduction(w)
    BY <2>9, BoundsAssumption DEF RemoveProduction, Phases, Undecided, Decided
  <2>10. CASE RemoveQuarantine(w)
    BY <2>10, BoundsAssumption DEF RemoveQuarantine, Phases, Undecided,
        Decided
  <2>11. CASE StopWorker(w)
    BY <2>11, BoundsAssumption DEF StopWorker, Phases, Undecided, Decided
  <2> QED BY <1>3, <2>1, <2>2, <2>3, <2>4, <2>5, <2>6, <2>7, <2>8, <2>9,
      <2>10, <2>11 DEF WorkerStep, ProcessStep
<1>4. CASE UNCHANGED vars
  BY <1>4 DEF vars
<1> QED BY <1>1, <1>2, <1>3, <1>4 DEF Next

\* The steps of an upload request.
LEMMA UploadKeepsIInv ==
  ASSUME IInv, TypeOK', NEW f \in File, UploadStep(f)
  PROVE  IInv'
<1> USE DEF IInv, TypeOK, rowVars, bucketVars, uploadVars, ownerVars, workerVars
<1>1. CASE UploadQuarantineFile(f)
  <2>1. InsertedOnce'
    BY <1>1 DEF InsertedOnce, Past, Busy, Rows, UploadQuarantineFile
  <2>2. UploadOrder'
    BY <1>1 DEF UploadOrder, UploadQuarantineFile
  <2>3. AcknowledgedKeepsQuarantine'
    BY <1>1 DEF AcknowledgedKeepsQuarantine, UploadQuarantineFile
  <2>4. (Leases /\ WorkerKnows /\ ApprovedIsServable /\ PublicIsApproved)'
    BY <1>1 DEF Leases, WorkerKnows, ApprovedIsServable, PublicIsApproved,
        Busy, LeaseIsCurrent, UploadQuarantineFile
  <2> QED BY <2>1, <2>2, <2>3, <2>4
<1>2. CASE UploadQuarantineFileFails(f)
  <2>1. InsertedOnce'
    BY <1>2 DEF InsertedOnce, Past, Busy, Rows, UploadQuarantineFileFails
  <2>2. UploadOrder'
    BY <1>2 DEF UploadOrder, UploadQuarantineFileFails
  <2>3. AcknowledgedKeepsQuarantine'
    BY <1>2 DEF AcknowledgedKeepsQuarantine, UploadQuarantineFileFails
  <2>4. (Leases /\ WorkerKnows /\ ApprovedIsServable /\ PublicIsApproved)'
    BY <1>2 DEF Leases, WorkerKnows, ApprovedIsServable, PublicIsApproved,
        Busy, LeaseIsCurrent, UploadQuarantineFileFails
  <2> QED BY <2>1, <2>2, <2>3, <2>4
<1>3. CASE CommitReservedFile(f)
  <2>1. InsertedOnce'
    BY <1>3 DEF InsertedOnce, Past, Busy, Rows, CommitReservedFile, InsertRow
  <2>2. UploadOrder'
    BY <1>3 DEF UploadOrder, CommitReservedFile, InsertRow
  <2>3. WorkerKnows'
    BY <1>3 DEF WorkerKnows, InsertedOnce, LeaseIsCurrent, Past, Busy, Rows,
        CommitReservedFile, InsertRow
  <2>4. ApprovedIsServable'
    BY <1>3 DEF ApprovedIsServable, CommitReservedFile, InsertRow
  <2>5. AcknowledgedKeepsQuarantine'
    BY <1>3 DEF AcknowledgedKeepsQuarantine, UploadOrder, CommitReservedFile,
        InsertRow
  <2>6. PublicIsApproved'
    BY <1>3 DEF PublicIsApproved, InsertedOnce, Past, Busy, Rows,
        CommitReservedFile, InsertRow
  <2>7. Leases'
    BY <1>3 DEF Leases, Busy, CommitReservedFile, InsertRow
  <2> QED BY <2>1, <2>2, <2>3, <2>4, <2>5, <2>6, <2>7
<1>4. CASE CommitReservedFileFails(f)
  <2>1. InsertedOnce'
    BY <1>4 DEF InsertedOnce, Past, Busy, Rows, CommitReservedFileFails,
        InsertRow
  <2>2. UploadOrder'
    BY <1>4 DEF UploadOrder, CommitReservedFileFails, InsertRow
  <2>3. WorkerKnows'
    BY <1>4 DEF WorkerKnows, InsertedOnce, LeaseIsCurrent, Past, Busy, Rows,
        CommitReservedFileFails, InsertRow
  <2>4. ApprovedIsServable'
    BY <1>4 DEF ApprovedIsServable, CommitReservedFileFails, InsertRow
  <2>5. AcknowledgedKeepsQuarantine'
    BY <1>4 DEF AcknowledgedKeepsQuarantine, UploadOrder,
        CommitReservedFileFails, InsertRow
  <2>6. PublicIsApproved'
    BY <1>4 DEF PublicIsApproved, InsertedOnce, Past, Busy, Rows,
        CommitReservedFileFails, InsertRow
  <2>7. Leases'
    BY <1>4 DEF Leases, Busy, CommitReservedFileFails, InsertRow
  <2> QED BY <2>1, <2>2, <2>3, <2>4, <2>5, <2>6, <2>7
<1>5. CASE RollBackUpload(f)
  <2>1. InsertedOnce'
    BY <1>5 DEF InsertedOnce, Past, Busy, Rows, RollBackUpload
  <2>2. UploadOrder'
    BY <1>5 DEF UploadOrder, RollBackUpload
  <2>3. AcknowledgedKeepsQuarantine'
    BY <1>5 DEF AcknowledgedKeepsQuarantine, RollBackUpload
  <2>4. (Leases /\ WorkerKnows /\ ApprovedIsServable /\ PublicIsApproved)'
    BY <1>5 DEF Leases, WorkerKnows, ApprovedIsServable, PublicIsApproved,
        Busy, LeaseIsCurrent, RollBackUpload
  <2> QED BY <2>1, <2>2, <2>3, <2>4
<1>6. CASE CrashUpload(f)
  <2>1. InsertedOnce'
    BY <1>6 DEF InsertedOnce, Past, Busy, Rows, CrashUpload
  <2>2. UploadOrder'
    BY <1>6 DEF UploadOrder, CrashUpload
  <2>3. (Leases /\ WorkerKnows /\ ApprovedIsServable /\
      AcknowledgedKeepsQuarantine /\ PublicIsApproved)'
    BY <1>6 DEF Leases, WorkerKnows, ApprovedIsServable,
        AcknowledgedKeepsQuarantine, PublicIsApproved, Busy, LeaseIsCurrent,
        CrashUpload
  <2> QED BY <2>1, <2>2, <2>3
<1> HIDE DEF IInv, TypeOK
<1> QED BY <1>1, <1>2, <1>3, <1>4, <1>5, <1>6 DEF UploadStep

\* The steps of the owner's delete and permission requests.
LEMMA OwnerKeepsIInv ==
  ASSUME IInv, TypeOK', NEW f \in File, OwnerStep(f)
  PROVE  IInv'
<1> USE DEF IInv, TypeOK, rowVars, bucketVars, uploadVars, ownerVars, workerVars
<1>1. CASE DeleteFile(f)
  <2>1. InsertedOnce'
    BY <1>1 DEF InsertedOnce, Past, Busy, Rows, DeleteFile
  <2>2. Leases'
    BY <1>1 DEF Leases, Busy, DeleteFile, Rows
  <2>3. WorkerKnows'
    BY <1>1 DEF WorkerKnows, LeaseIsCurrent, DeleteFile, Rows
  <2>4. ApprovedIsServable'
    BY <1>1 DEF ApprovedIsServable, DeleteFile, Rows
  <2>5. AcknowledgedKeepsQuarantine'
    BY <1>1 DEF AcknowledgedKeepsQuarantine, DeleteFile, Rows
  <2>6. PublicIsApproved'
    BY <1>1 DEF PublicIsApproved, DeleteFile, Rows
  <2>7. UploadOrder'
    BY <1>1 DEF UploadOrder, DeleteFile
  <2> QED BY <2>1, <2>2, <2>3, <2>4, <2>5, <2>6, <2>7
<1>2. CASE DeleteProductionObject(f)
  <2>1. InsertedOnce'
    BY <1>2 DEF InsertedOnce, Past, Busy, Rows, DeleteProductionObject
  <2>2. WorkerKnows'
    BY <1>2 DEF WorkerKnows, InsertedOnce, LeaseIsCurrent, Past, Busy, Rows,
        DeleteProductionObject
  <2>3. ApprovedIsServable'
    BY <1>2 DEF ApprovedIsServable, InsertedOnce, Past, Busy, Rows,
        DeleteProductionObject
  <2>4. (UploadOrder /\ Leases /\ AcknowledgedKeepsQuarantine /\
      PublicIsApproved)'
    BY <1>2 DEF UploadOrder, Leases, AcknowledgedKeepsQuarantine,
        PublicIsApproved, Busy, DeleteProductionObject
  <2> QED BY <2>1, <2>2, <2>3, <2>4
<1>3. CASE DeleteQuarantineObject(f)
  <2>1. InsertedOnce'
    BY <1>3 DEF InsertedOnce, Past, Busy, Rows, DeleteQuarantineObject
  <2>2. UploadOrder'
    BY <1>3 DEF UploadOrder, InsertedOnce, Past, Busy, Rows,
        DeleteQuarantineObject
  <2>3. AcknowledgedKeepsQuarantine'
    BY <1>3 DEF AcknowledgedKeepsQuarantine, InsertedOnce, Past, Busy, Rows,
        DeleteQuarantineObject
  <2>4. (Leases /\ WorkerKnows /\ ApprovedIsServable /\ PublicIsApproved)'
    BY <1>3 DEF Leases, WorkerKnows, ApprovedIsServable, PublicIsApproved,
        Busy, LeaseIsCurrent, DeleteQuarantineObject
  <2> QED BY <2>1, <2>2, <2>3, <2>4
<1>4. CASE CrashDeletion(f)
  <2>1. InsertedOnce'
    BY <1>4 DEF InsertedOnce, Past, Busy, Rows, CrashDeletion
  <2>2. (UploadOrder /\ Leases /\ WorkerKnows /\ ApprovedIsServable /\
      AcknowledgedKeepsQuarantine /\ PublicIsApproved)'
    BY <1>4 DEF UploadOrder, Leases, WorkerKnows, ApprovedIsServable,
        AcknowledgedKeepsQuarantine, PublicIsApproved, Busy, LeaseIsCurrent,
        CrashDeletion
  <2> QED BY <2>1, <2>2
<1>5. ASSUME NEW access \in {"public", "private"}, ChangeFilePermission(f, access)
      PROVE  IInv'
  <2>1. InsertedOnce'
    BY <1>5 DEF InsertedOnce, Past, Busy, Rows, ChangeFilePermission
  <2>2. (UploadOrder /\ Leases /\ WorkerKnows /\ ApprovedIsServable /\
      AcknowledgedKeepsQuarantine /\ PublicIsApproved)'
    BY <1>5 DEF UploadOrder, Leases, WorkerKnows, ApprovedIsServable,
        AcknowledgedKeepsQuarantine, PublicIsApproved, Busy, LeaseIsCurrent,
        ChangeFilePermission
  <2> QED BY <2>1, <2>2
<1>6. CASE UpdateFilePermission(f)
  <2>1. InsertedOnce'
    BY <1>6 DEF InsertedOnce, Past, Busy, Rows, UpdateFilePermission
  <2>2. PublicIsApproved'
    BY <1>6 DEF PublicIsApproved, InsertedOnce, Past, Busy, Rows,
        UpdateFilePermission
  <2>3. (UploadOrder /\ Leases /\ WorkerKnows /\ ApprovedIsServable /\
      AcknowledgedKeepsQuarantine)'
    BY <1>6 DEF UploadOrder, Leases, WorkerKnows, ApprovedIsServable,
        AcknowledgedKeepsQuarantine, Busy, LeaseIsCurrent,
        UpdateFilePermission
  <2> QED BY <2>1, <2>2, <2>3
<1> HIDE DEF IInv, TypeOK
<1> QED BY <1>1, <1>2, <1>3, <1>4, <1>5, <1>6 DEF OwnerStep

\* The steps of a scanner worker.
LEMMA WorkerKeepsIInv ==
  ASSUME IInv, TypeOK', NEW w \in Worker, WorkerStep(w)
  PROVE  IInv'
<1> USE DEF IInv, TypeOK, rowVars, bucketVars, uploadVars, ownerVars, workerVars
<1>1. ASSUME NEW f \in File, ClaimFileForScan(w, f)
      PROVE  IInv'
  <2>1. InsertedOnce'
    BY <1>1 DEF InsertedOnce, Past, Busy, Rows, ClaimFileForScan, Claimable,
        Stale
  <2>2. Leases'
    BY <1>1 DEF Leases, Busy, ClaimFileForScan, Claimable, Stale
  <2>3. WorkerKnows'
    BY <1>1 DEF WorkerKnows, Leases, LeaseIsCurrent, Busy, ClaimFileForScan,
        Claimable, Stale, Phases, Decided, Undecided
  <2>4. ApprovedIsServable'
    BY <1>1 DEF ApprovedIsServable, ClaimFileForScan, Claimable, Stale
  <2>5. AcknowledgedKeepsQuarantine'
    BY <1>1 DEF AcknowledgedKeepsQuarantine, ClaimFileForScan, Claimable,
        Stale
  <2>6. PublicIsApproved'
    BY <1>1 DEF PublicIsApproved, ClaimFileForScan, Claimable, Stale
  <2>7. UploadOrder'
    BY <1>1 DEF UploadOrder, ClaimFileForScan
  <2> QED BY <2>1, <2>2, <2>3, <2>4, <2>5, <2>6, <2>7
<1>2. ASSUME NEW verdict \in Decided, Inspect(w, verdict)
      PROVE  IInv'
  <2>1. InsertedOnce'
    BY <1>2 DEF InsertedOnce, Past, Busy, Rows, Inspect
  <2>2. Leases'
    BY <1>2 DEF Leases, Busy, Inspect
  <2>3. WorkerKnows'
    BY <1>2 DEF WorkerKnows, LeaseIsCurrent, Inspect
  <2>4. (UploadOrder /\ ApprovedIsServable /\ AcknowledgedKeepsQuarantine /\
      PublicIsApproved)'
    BY <1>2 DEF UploadOrder, ApprovedIsServable, AcknowledgedKeepsQuarantine,
        PublicIsApproved, Inspect
  <2> QED BY <2>1, <2>2, <2>3, <2>4
<1>3. CASE PromoteQuarantineFile(w)
  <2>1. InsertedOnce'
    BY <1>3 DEF InsertedOnce, Past, Busy, Rows, PromoteQuarantineFile
  <2>2. Leases'
    BY <1>3 DEF Leases, Busy, PromoteQuarantineFile
  <2>3. WorkerKnows'
    BY <1>3 DEF WorkerKnows, LeaseIsCurrent, PromoteQuarantineFile
  <2>4. ApprovedIsServable'
    BY <1>3 DEF ApprovedIsServable, PromoteQuarantineFile
  <2>5. (UploadOrder /\ AcknowledgedKeepsQuarantine /\ PublicIsApproved)'
    BY <1>3 DEF UploadOrder, AcknowledgedKeepsQuarantine, PublicIsApproved,
        PromoteQuarantineFile
  <2> QED BY <2>1, <2>2, <2>3, <2>4, <2>5
<1>4. CASE PromoteQuarantineFileFails(w)
  <2>1. InsertedOnce'
    BY <1>4 DEF InsertedOnce, Past, Busy, Rows, PromoteQuarantineFileFails
  <2>2. Leases'
    BY <1>4 DEF Leases, Busy, PromoteQuarantineFileFails
  <2>3. WorkerKnows'
    BY <1>4 DEF WorkerKnows, LeaseIsCurrent, PromoteQuarantineFileFails
  <2>4. ApprovedIsServable'
    BY <1>4 DEF ApprovedIsServable, PromoteQuarantineFileFails
  <2>5. (UploadOrder /\ AcknowledgedKeepsQuarantine /\ PublicIsApproved)'
    BY <1>4 DEF UploadOrder, AcknowledgedKeepsQuarantine, PublicIsApproved,
        PromoteQuarantineFileFails
  <2> QED BY <2>1, <2>2, <2>3, <2>4, <2>5
<1>5. CASE CompleteFileScan(w)
  <2>1. InsertedOnce'
    BY <1>5 DEF InsertedOnce, Past, Busy, Rows, CompleteFileScan,
        LeaseIsCurrent, StoreResult
  <2>2. Leases'
    BY <1>5 DEF Leases, Busy, CompleteFileScan, LeaseIsCurrent, StoreResult
  <2>3. WorkerKnows'
    BY <1>5 DEF WorkerKnows, LeaseIsCurrent, CompleteFileScan, StoreResult,
        Phases, Decided, Undecided
  <2>4. ApprovedIsServable'
    BY <1>5 DEF ApprovedIsServable, WorkerKnows, LeaseIsCurrent,
        CompleteFileScan, StoreResult
  <2>5. AcknowledgedKeepsQuarantine'
    BY <1>5 DEF AcknowledgedKeepsQuarantine, CompleteFileScan, LeaseIsCurrent,
        StoreResult
  <2>6. PublicIsApproved'
    BY <1>5 DEF PublicIsApproved, CompleteFileScan, LeaseIsCurrent,
        StoreResult
  <2>7. UploadOrder'
    BY <1>5 DEF UploadOrder, CompleteFileScan, StoreResult
  <2> QED BY <2>1, <2>2, <2>3, <2>4, <2>5, <2>6, <2>7
<1>6. CASE CompleteFileScanMisses(w)
  <2>1. InsertedOnce'
    BY <1>6 DEF InsertedOnce, Past, Busy, Rows, CompleteFileScanMisses,
        LeaseIsCurrent
  <2>2. Leases'
    BY <1>6 DEF Leases, Busy, CompleteFileScanMisses, LeaseIsCurrent
  <2>3. WorkerKnows'
    BY <1>6 DEF WorkerKnows, LeaseIsCurrent, CompleteFileScanMisses
  <2>4. (UploadOrder /\ ApprovedIsServable /\ AcknowledgedKeepsQuarantine /\
      PublicIsApproved)'
    BY <1>6 DEF UploadOrder, ApprovedIsServable, AcknowledgedKeepsQuarantine,
        PublicIsApproved, CompleteFileScanMisses
  <2> QED BY <2>1, <2>2, <2>3, <2>4
<1>7. CASE CheckFileExists(w)
  <2>1. InsertedOnce'
    BY <1>7 DEF InsertedOnce, Past, Busy, Rows, CheckFileExists
  <2>2. Leases'
    BY <1>7 DEF Leases, Busy, CheckFileExists, Rows
  <2>3. WorkerKnows'
    BY <1>7 DEF WorkerKnows, LeaseIsCurrent, CheckFileExists, Rows
  <2>4. (UploadOrder /\ ApprovedIsServable /\ AcknowledgedKeepsQuarantine /\
      PublicIsApproved)'
    BY <1>7 DEF UploadOrder, ApprovedIsServable, AcknowledgedKeepsQuarantine,
        PublicIsApproved, CheckFileExists
  <2> QED BY <2>1, <2>2, <2>3, <2>4
<1>8. CASE CompleteFileScanFails(w)
  <2>1. InsertedOnce'
    BY <1>8 DEF InsertedOnce, Past, Busy, Rows, CompleteFileScanFails,
        LeaseIsCurrent, StoreResult
  <2>2. Leases'
    BY <1>8 DEF Leases, Busy, CompleteFileScanFails, LeaseIsCurrent,
        StoreResult
  <2>3. WorkerKnows'
    BY <1>8 DEF WorkerKnows, LeaseIsCurrent, CompleteFileScanFails,
        StoreResult, Phases, Decided, Undecided
  <2>4. ApprovedIsServable'
    BY <1>8 DEF ApprovedIsServable, WorkerKnows, LeaseIsCurrent,
        CompleteFileScanFails, StoreResult
  <2>5. AcknowledgedKeepsQuarantine'
    BY <1>8 DEF AcknowledgedKeepsQuarantine, CompleteFileScanFails,
        LeaseIsCurrent, StoreResult
  <2>6. PublicIsApproved'
    BY <1>8 DEF PublicIsApproved, CompleteFileScanFails, LeaseIsCurrent,
        StoreResult
  <2>7. UploadOrder'
    BY <1>8 DEF UploadOrder, CompleteFileScanFails, StoreResult
  <2> QED BY <2>1, <2>2, <2>3, <2>4, <2>5, <2>6, <2>7
<1>9. CASE RemoveProduction(w)
  <2>1. InsertedOnce'
    BY <1>9 DEF InsertedOnce, Past, Busy, Rows, RemoveProduction
  <2>2. Leases'
    BY <1>9 DEF Leases, Busy, RemoveProduction
  <2>3. WorkerKnows'
    BY <1>9 DEF WorkerKnows, LeaseIsCurrent, RemoveProduction, Phases,
        Decided, Undecided
  <2>4. ApprovedIsServable'
    BY <1>9 DEF ApprovedIsServable, WorkerKnows, LeaseIsCurrent,
        RemoveProduction
  <2>5. (UploadOrder /\ AcknowledgedKeepsQuarantine /\ PublicIsApproved)'
    BY <1>9 DEF UploadOrder, AcknowledgedKeepsQuarantine, PublicIsApproved,
        RemoveProduction
  <2> QED BY <2>1, <2>2, <2>3, <2>4, <2>5
<1>10. CASE RemoveQuarantine(w)
  <2>1. InsertedOnce'
    BY <1>10 DEF InsertedOnce, Past, Busy, Rows, RemoveQuarantine
  <2>2. UploadOrder'
    BY <1>10 DEF UploadOrder, InsertedOnce, Past, Busy, Rows, RemoveQuarantine
  <2>3. Leases'
    BY <1>10 DEF Leases, Busy, RemoveQuarantine
  <2>4. WorkerKnows'
    BY <1>10 DEF WorkerKnows, LeaseIsCurrent, RemoveQuarantine
  <2>5. AcknowledgedKeepsQuarantine'
    BY <1>10 DEF AcknowledgedKeepsQuarantine, WorkerKnows, LeaseIsCurrent,
        RemoveQuarantine, Decided
  <2>6. (ApprovedIsServable /\ PublicIsApproved)'
    BY <1>10 DEF ApprovedIsServable, PublicIsApproved, RemoveQuarantine
  <2> QED BY <2>1, <2>2, <2>3, <2>4, <2>5, <2>6
<1>11. CASE StopWorker(w)
  <2>1. InsertedOnce'
    BY <1>11 DEF InsertedOnce, Past, Busy, Rows, StopWorker
  <2>2. Leases'
    BY <1>11 DEF Leases, Busy, StopWorker
  <2>3. WorkerKnows'
    BY <1>11 DEF WorkerKnows, LeaseIsCurrent, StopWorker
  <2>4. (UploadOrder /\ ApprovedIsServable /\ AcknowledgedKeepsQuarantine /\
      PublicIsApproved)'
    BY <1>11 DEF UploadOrder, ApprovedIsServable, AcknowledgedKeepsQuarantine,
        PublicIsApproved, StopWorker
  <2> QED BY <2>1, <2>2, <2>3, <2>4
<1> HIDE DEF IInv, TypeOK
<1> QED BY <1>1, <1>2, <1>3, <1>4, <1>5, <1>6, <1>7, <1>8, <1>9, <1>10, <1>11
    DEF WorkerStep, ProcessStep

LEMMA InitIInv == Init => IInv
<1> SUFFICES ASSUME Init PROVE IInv
  OBVIOUS
<1>1. (CHOOSE f \in File : TRUE) \in File
  BY FileAssumption
<1>2. TypeOK
  <2>1. scanned \in [Worker -> File]
    BY <1>1, Zenon DEF Init
  <2>2. /\ "scan_failed" \in Decided
        /\ "idle" \in Phases
        /\ 0 \in 0..MaxFaults
    BY BoundsAssumption DEF Decided, Phases
  <2> QED BY <2>1, <2>2 DEF Init, TypeOK
<1>3. InsertedOnce /\ UploadOrder
  BY DEF Init, InsertedOnce, UploadOrder, Busy, Rows
<1>4. Leases /\ WorkerKnows
  BY <1>1 DEF Init, Leases, WorkerKnows, Busy
<1>5. ApprovedIsServable /\ AcknowledgedKeepsQuarantine /\ PublicIsApproved
  BY DEF Init, ApprovedIsServable, AcknowledgedKeepsQuarantine, PublicIsApproved
<1> QED BY <1>2, <1>3, <1>4, <1>5 DEF IInv

LEMMA NextIInv == IInv /\ [Next]_vars => IInv'
<1> SUFFICES ASSUME IInv, [Next]_vars PROVE IInv'
  OBVIOUS
<1>1. TypeOK'
  BY NextType DEF IInv
<1>2. CASE Next
  BY <1>1, <1>2, UploadKeepsIInv, OwnerKeepsIInv, WorkerKeepsIInv DEF Next
<1>3. CASE UNCHANGED vars
  BY <1>3 DEF vars, rowVars, bucketVars, uploadVars, ownerVars, workerVars,
      IInv, TypeOK, InsertedOnce, UploadOrder, Leases, WorkerKnows,
      ApprovedIsServable, AcknowledgedKeepsQuarantine, PublicIsApproved, Past,
      Busy, Rows, LeaseIsCurrent
<1> QED BY <1>2, <1>3

\* Every reachable state satisfies the inductive invariant.
THEOREM Invariance == Spec => []IInv
<1> QED BY InitIInv, NextIInv, PTL DEF Spec

\* Type correctness of the model for any files, workers, faults and bounds.
THEOREM TypeCorrect == Spec => []TypeOK
<1>1. IInv => TypeOK
  BY DEF IInv
<1> QED BY <1>1, Invariance, PTL

\* Every row that CompleteFileScan made approved keeps its production object,
\* whatever faults happen and however many workers hold stale leases.
THEOREM ApprovedServable == Spec => []ApprovedIsServable
<1>1. IInv => ApprovedIsServable
  BY DEF IInv
<1> QED BY <1>1, Invariance, PTL

\* An upload that UploadFile answered with 201 keeps its quarantine object
\* until a worker stored approved or blocked, or the owner deleted it.
THEOREM AcknowledgedKept == Spec => []AcknowledgedKeepsQuarantine
<1>1. IInv => AcknowledgedKeepsQuarantine
  BY DEF IInv
<1> QED BY <1>1, Invariance, PTL

\* ChangeFilePermission cannot make a file public that is not approved,
\* although it checks and updates in two statements.
THEOREM PublicApproved == Spec => []PublicIsApproved
<1>1. IInv => PublicIsApproved
  BY DEF IInv
<1> QED BY <1>1, Invariance, PTL

-----------------------------------------------------------------------------
(***************************************************************************)
(* FileLifecycle implements FileContract.  Only an insertion, a stored     *)
(* result, a permission update and a deletion are steps of the contract.   *)
(***************************************************************************)

\* A step that moves no file to another stage and shares none is a stutter.
LEMMA SameView ==
  ASSUME \A f \in File : Stage(f)' = Stage(f), isPublic' = isPublic
  PROVE  UNCHANGED Contract!contractVars
BY DEF Contract!contractVars

\* The mapped stages change at one file only.
LEMMA OneStage ==
  ASSUME NEW f \in File, NEW s, Stage(f)' = s,
         \A g \in File \ {f} : Stage(g)' = Stage(g)
  PROVE  [g \in File |-> Stage(g)]'
           = [[g \in File |-> Stage(g)] EXCEPT ![f] = s]
OBVIOUS

LEMMA InsertIsAccept ==
  ASSUME IInv, TypeOK', NEW f \in File, upload[f] = "commit", InsertRow(f),
         deletion' = deletion
  PROVE  Contract!Accept(f)
<1> USE DEF IInv, TypeOK
<1>1. Stage(f) = "unknown"
  BY DEF InsertedOnce, Past, Stage, Rows, Undecided, Decided
<1>2. Stage(f)' = "pending"
  BY DEF InsertRow, Stage, Rows, Undecided, Decided
<1>3. \A g \in File \ {f} : Stage(g)' = Stage(g)
  BY DEF InsertRow, Stage, Rows
<1>4. isPublic' = isPublic
  BY DEF InsertRow
<1> HIDE DEF IInv, TypeOK
<1> QED BY <1>1, <1>2, <1>3, <1>4, OneStage DEF Contract!Accept

LEMMA StoreIsDecide ==
  ASSUME IInv, TypeOK', NEW w \in Worker, LeaseIsCurrent(w), StoreResult(w),
         deletion' = deletion
  PROVE  Contract!ContractNext
<1>1. PICK f \in File : f = scanned[w]
  BY DEF IInv, TypeOK
<1>2. PICK verdict \in Contract!Verdicts : verdict = result[w]
  BY DEF IInv, TypeOK, Contract!Verdicts, Decided
<1>3. status[f] = "scanning" /\ status' = [status EXCEPT ![f] = verdict]
  BY <1>1, <1>2 DEF LeaseIsCurrent, StoreResult
<1>4. status \in [File -> {"none"} \cup Undecided \cup Decided]
  BY DEF IInv, TypeOK
<1>5. Stage(f) = "pending"
  BY <1>3 DEF Stage, Rows, Undecided
<1>6. Stage(f)' = verdict
  BY <1>2, <1>3, <1>4 DEF Stage, Rows, Undecided, Contract!Verdicts
<1>7. \A g \in File \ {f} : Stage(g)' = Stage(g)
  BY <1>3, <1>4 DEF Stage, Rows
<1>8. [g \in File |-> Stage(g)]'
        = [[g \in File |-> Stage(g)] EXCEPT ![f] = verdict]
  BY <1>6, <1>7, OneStage
<1>9. isPublic' = isPublic
  BY DEF StoreResult
<1>10. Contract!Decide(f)
  BY <1>2, <1>5, <1>8, <1>9 DEF Contract!Decide
<1> QED BY <1>10 DEF Contract!ContractNext

LEMMA DeleteIsRemove ==
  ASSUME IInv, TypeOK', NEW f \in File, DeleteFile(f)
  PROVE  Contract!Remove(f)
<1> USE DEF IInv, TypeOK
<1>1. Stage(f) \notin {"unknown", "removed"}
  BY DEF DeleteFile, Stage, Rows, Undecided, Decided
<1>2. Stage(f)' = "removed"
  BY DEF DeleteFile, Stage, Rows, Undecided, Decided
<1>3. \A g \in File \ {f} : Stage(g)' = Stage(g)
  BY DEF DeleteFile, Stage, Rows
<1>4. {g \in File : isPublic[g]}' = {g \in File : isPublic[g]} \ {f}
  BY DEF DeleteFile
<1> HIDE DEF IInv, TypeOK
<1> QED BY <1>1, <1>2, <1>3, <1>4, OneStage DEF Contract!Remove

LEMMA UpdateIsShare ==
  ASSUME IInv, TypeOK', NEW f \in File, UpdateFilePermission(f), f \in Rows
  PROVE  Contract!Share(f)
<1> USE DEF IInv, TypeOK
<1>1. Stage(f) = "approved"
  BY DEF UpdateFilePermission, InsertedOnce, Stage, Rows, Undecided, Decided
<1>2. \A g \in File : Stage(g)' = Stage(g)
  BY DEF UpdateFilePermission, Stage, Rows
<1>3. {g \in File : isPublic[g]}' \in
        {{g \in File : isPublic[g]} \cup {f}, {g \in File : isPublic[g]} \ {f}}
  <2>1. CASE permission[f] = "public"
    BY <2>1 DEF UpdateFilePermission
  <2>2. CASE permission[f] # "public"
    BY <2>2 DEF UpdateFilePermission
  <2> QED BY <2>1, <2>2
<1> HIDE DEF IInv, TypeOK
<1> QED BY <1>1, <1>2, <1>3 DEF Contract!Share

\* The remaining steps change neither a row's stage nor its access.
LEMMA UploadImplements ==
  ASSUME IInv, TypeOK', NEW f \in File, UploadStep(f)
  PROVE  Contract!ContractNext \/ UNCHANGED Contract!contractVars
<1> USE DEF ownerVars
<1>1. CASE UploadQuarantineFile(f) \/ UploadQuarantineFileFails(f)
           \/ RollBackUpload(f) \/ CrashUpload(f)
  BY <1>1, SameView DEF UploadQuarantineFile, UploadQuarantineFileFails,
     RollBackUpload, CrashUpload, rowVars, Stage, Rows
<1>2. CASE CommitReservedFile(f)
  BY <1>2, InsertIsAccept DEF CommitReservedFile, Contract!ContractNext
<1>3. CASE CommitReservedFileFails(f)
  <2>1. CASE UNCHANGED rowVars
    BY <1>3, <2>1, SameView DEF CommitReservedFileFails, rowVars, Stage, Rows
  <2>2. CASE InsertRow(f)
    BY <1>3, <2>2, InsertIsAccept DEF CommitReservedFileFails,
       Contract!ContractNext
  <2> QED BY <1>3, <2>1, <2>2 DEF CommitReservedFileFails
<1> QED BY <1>1, <1>2, <1>3 DEF UploadStep

LEMMA OwnerImplements ==
  ASSUME IInv, TypeOK', NEW f \in File, OwnerStep(f)
  PROVE  Contract!ContractNext \/ UNCHANGED Contract!contractVars
<1>1. CASE DeleteFile(f)
  BY <1>1, DeleteIsRemove DEF Contract!ContractNext
<1>2. CASE DeleteProductionObject(f) \/ DeleteQuarantineObject(f)
           \/ CrashDeletion(f)
  <2>1. status' = status /\ isPublic' = isPublic
    BY <1>2 DEF DeleteProductionObject, DeleteQuarantineObject, CrashDeletion,
       rowVars
  <2>2. \A g \in File : (deletion[g] # "idle")' <=> deletion[g] # "idle"
    BY <1>2 DEF IInv, TypeOK, DeleteProductionObject, DeleteQuarantineObject,
       CrashDeletion
  <2> QED BY <2>1, <2>2, SameView DEF Stage, Rows
<1>3. ASSUME NEW access \in {"public", "private"},
             ChangeFilePermission(f, access)
      PROVE  UNCHANGED Contract!contractVars
  BY <1>3, SameView DEF ChangeFilePermission, rowVars, Stage, Rows
<1>4. CASE UpdateFilePermission(f)
  <2>1. CASE f \in Rows
    BY <1>4, <2>1, UpdateIsShare DEF Contract!ContractNext
  <2>2. CASE f \notin Rows
    BY <1>4, <2>2, SameView DEF UpdateFilePermission, Stage, Rows
  <2> QED BY <2>1, <2>2
<1> QED BY <1>1, <1>2, <1>3, <1>4 DEF OwnerStep

LEMMA WorkerImplements ==
  ASSUME IInv, TypeOK', NEW w \in Worker, WorkerStep(w)
  PROVE  Contract!ContractNext \/ UNCHANGED Contract!contractVars
<1> USE DEF ownerVars
<1>1. ASSUME NEW f \in File, ClaimFileForScan(w, f)
      PROVE  UNCHANGED Contract!contractVars
  <2>1. \A g \in File : Stage(g)' = Stage(g)
    BY <1>1 DEF IInv, TypeOK, ClaimFileForScan, Claimable, Stale, Stage, Rows,
       Undecided, Decided
  <2>2. isPublic' = isPublic
    BY <1>1 DEF ClaimFileForScan
  <2> QED BY <2>1, <2>2, SameView
<1>2. CASE CompleteFileScan(w)
  BY <1>2, StoreIsDecide DEF CompleteFileScan
<1>3. CASE CompleteFileScanFails(w)
  <2>1. CASE UNCHANGED rowVars
    BY <1>3, <2>1, SameView DEF CompleteFileScanFails, rowVars, Stage, Rows
  <2>2. CASE LeaseIsCurrent(w) /\ StoreResult(w)
    BY <1>3, <2>2, StoreIsDecide DEF CompleteFileScanFails
  <2> QED BY <1>3, <2>1, <2>2 DEF CompleteFileScanFails
<1>4. ASSUME UNCHANGED rowVars, UNCHANGED ownerVars
      PROVE  UNCHANGED Contract!contractVars
  BY <1>4, SameView DEF rowVars, Stage, Rows
<1> QED
  BY <1>1, <1>2, <1>3, <1>4 DEF WorkerStep, ProcessStep, Inspect,
     PromoteQuarantineFile, PromoteQuarantineFileFails, CompleteFileScanMisses,
     CheckFileExists, RemoveProduction, RemoveQuarantine, StopWorker

\* The rows together show what FileContract promises: one decision per file,
\* sharing only of approved files, and no return after a deletion.
THEOREM Implementation == Spec => ImplementsContract
<1>1. Init => Contract!ContractInit
  BY DEF Init, Contract!ContractInit, Stage, Rows, Undecided, Decided
<1>2. IInv /\ [Next]_vars => [Contract!ContractNext]_(Contract!contractVars)
  <2> SUFFICES ASSUME IInv, [Next]_vars
               PROVE  Contract!ContractNext \/ UNCHANGED Contract!contractVars
    OBVIOUS
  <2>1. TypeOK'
    BY NextType DEF IInv
  <2>2. CASE UNCHANGED vars
    BY <2>2, SameView DEF vars, rowVars, ownerVars, Stage, Rows
  <2> QED
    BY <2>1, <2>2, UploadImplements, OwnerImplements, WorkerImplements DEF Next
<1> QED
  BY <1>1, <1>2, Invariance, PTL
     DEF Spec, ImplementsContract, Contract!ContractSpec

-----------------------------------------------------------------------------
(***************************************************************************)
(* Downloads.  A row that was found approved stays approved or goes for    *)
(* good, and an approved row has its production object.                    *)
(***************************************************************************)

\* The row of f will not change its status any more, except to be deleted.
Final(f) == Past(f) /\ status[f] \in {"approved", "none"}

FoundIsFinal == \A v \in Visitor : visit[v] = "found" => Final(asked[v])

DInv == IInv /\ VisitTypeOK /\ FoundIsFinal

\* Only an upload that is not past its insertion makes a row, and only the
\* decision about a row that is not decided changes one.
LEMMA FinalStays ==
  ASSUME IInv, Next, NEW f \in File, Final(f)
  PROVE  Final(f)'
<1> USE DEF IInv, TypeOK, Final, Past, rowVars, uploadVars, Undecided
<1>1. ASSUME NEW g \in File, UploadStep(g)
      PROVE  Final(f)'
  BY <1>1 DEF UploadStep, UploadQuarantineFile, UploadQuarantineFileFails, CommitReservedFile,
     CommitReservedFileFails, RollBackUpload, CrashUpload, InsertRow
<1>2. ASSUME NEW g \in File, OwnerStep(g)
      PROVE  Final(f)'
  BY <1>2 DEF OwnerStep, DeleteFile, DeleteProductionObject, DeleteQuarantineObject,
     CrashDeletion, ChangeFilePermission, UpdateFilePermission
<1>3. ASSUME NEW w \in Worker, WorkerStep(w)
      PROVE  Final(f)'
  <2>1. ASSUME NEW g \in File, ClaimFileForScan(w, g)
        PROVE  Final(f)'
    BY <2>1 DEF ClaimFileForScan, Claimable, Stale
  <2>2. ASSUME CompleteFileScan(w) \/ CompleteFileScanFails(w)
        PROVE  Final(f)'
    BY <2>2 DEF CompleteFileScan, CompleteFileScanFails, LeaseIsCurrent, StoreResult
  <2> QED
    BY <1>3, <2>1, <2>2 DEF WorkerStep, ProcessStep, Inspect, PromoteQuarantineFile,
       PromoteQuarantineFileFails, CompleteFileScanMisses, CheckFileExists, RemoveProduction,
       RemoveQuarantine, StopWorker
<1> QED BY <1>1, <1>2, <1>3 DEF Next

\* A download changes nothing that FileLifecycle knows, except that it may
\* meet a fault.
LEMMA VisitKeepsIInv ==
  ASSUME IInv, Visit
  PROVE  /\ IInv'
         /\ UNCHANGED <<rowVars, bucketVars, uploadVars, ownerVars, workerVars>>
<1>1. /\ UNCHANGED <<rowVars, bucketVars, uploadVars, ownerVars, workerVars>>
      /\ faults' \in 0..MaxFaults
  BY BoundsAssumption DEF Visit, GetFile, GetPublicFile, DownloadFile, vars, Fault, IInv, TypeOK
<1> USE <1>1 DEF rowVars, bucketVars, uploadVars, ownerVars, workerVars
<1>2. TypeOK'
  BY DEF IInv, TypeOK
<1>3. (InsertedOnce /\ UploadOrder /\ Leases /\ WorkerKnows)'
  BY DEF IInv, InsertedOnce, UploadOrder, Leases, WorkerKnows, Past, Busy, Rows, LeaseIsCurrent
<1>4. (ApprovedIsServable /\ AcknowledgedKeepsQuarantine /\ PublicIsApproved)'
  BY DEF IInv, ApprovedIsServable, AcknowledgedKeepsQuarantine, PublicIsApproved
<1> QED BY <1>1, <1>2, <1>3, <1>4 DEF IInv

LEMMA DownloadsNextInv ==
  ASSUME DInv, DownloadsNext
  PROVE  DInv'
<1> USE DEF DInv
<1>1. CASE Next /\ UNCHANGED visitVars
  <2>1. IInv'
    BY <1>1, NextIInv
  <2>2. VisitTypeOK' /\ FoundIsFinal'
    BY <1>1, FinalStays DEF visitVars, VisitTypeOK, FoundIsFinal
  <2> QED BY <2>1, <2>2
<1>2. CASE Visit
  <2>1. IInv' /\ \A f \in File : Final(f)' <=> Final(f)
    BY <1>2, VisitKeepsIInv DEF Final, Past, rowVars, uploadVars
  <2>2. VisitTypeOK'
    BY <1>2 DEF Visit, GetFile, GetPublicFile, DownloadFile, Find, VisitTypeOK
  <2>3. ASSUME NEW v \in Visitor, visit'[v] = "found"
        PROVE  Final(asked'[v])
    <3>1. CASE visit[v] = "found" /\ asked'[v] = asked[v]
      BY <3>1 DEF FoundIsFinal
    <3>2. CASE \E f \in File : status[f] = "approved" /\ asked'[v] = f
      BY <3>2 DEF Final, IInv, InsertedOnce, Rows
    <3> QED
      BY <1>2, <2>3, <3>1, <3>2
         DEF Visit, GetFile, GetPublicFile, DownloadFile, Find, VisitTypeOK
  <2> QED BY <2>1, <2>2, <2>3 DEF FoundIsFinal, VisitTypeOK
<1> QED BY <1>1, <1>2 DEF DownloadsNext

LEMMA DownloadsStutter ==
  ASSUME DInv, UNCHANGED downloadVars
  PROVE  DInv'
<1>1. UNCHANGED vars /\ UNCHANGED visitVars
  BY DEF downloadVars
<1>2. IInv'
  BY <1>1, NextIInv DEF DInv
<1> QED BY <1>1, <1>2 DEF DInv, VisitTypeOK, FoundIsFinal, Final, Past, visitVars, vars, rowVars,
           uploadVars

LEMMA DownloadsInitInv == DownloadsInit => DInv
<1> SUFFICES ASSUME DownloadsInit PROVE DInv
  OBVIOUS
<1>1. IInv
  BY InitIInv DEF DownloadsInit
<1>2. (CHOOSE f \in File : TRUE) \in File
  BY FileAssumption
<1>3. asked \in [Visitor -> File]
  BY <1>2, Zenon DEF DownloadsInit
<1> QED BY <1>1, <1>3 DEF DownloadsInit, DInv, VisitTypeOK, FoundIsFinal

THEOREM DownloadsInvariance == DownloadsSpec => []DInv
<1> QED BY DownloadsInitInv, DownloadsNextInv, DownloadsStutter, PTL DEF DownloadsSpec

\* DownloadSucceeds: between GetFile or GetPublicFile and the GetObject of
\* streamFile only the owner can take the object away.
THEOREM DownloadsSucceed == DownloadsSpec => DownloadSucceeds
<1>1. ASSUME DInv, DownloadsNext, NEW v \in Visitor,
             visit[v] = "found", visit'[v] = "failed"
      PROVE  faults' > faults \/ asked[v] \notin Rows
  <2>1. PICK u \in Visitor : DownloadFile(u)
    BY <1>1 DEF DownloadsNext, visitVars, Visit, GetFile, GetPublicFile, Find, DInv, VisitTypeOK
  <2>2. u = v
    BY <1>1, <2>1 DEF DownloadFile, DInv, VisitTypeOK
  <2>3. CASE Fault("s3")
    BY <1>1, <2>3 DEF Fault, DInv, IInv, TypeOK
  <2>4. CASE asked[v] \notin production
    BY <1>1, <2>4 DEF DInv, IInv, VisitTypeOK, FoundIsFinal, Final, ApprovedIsServable, Rows
  <2> QED BY <1>1, <2>1, <2>2, <2>3, <2>4 DEF DownloadFile, DInv, VisitTypeOK
<1>2. DInv /\ [DownloadsNext]_downloadVars
        => [\A v \in Visitor :
              visit[v] = "found" /\ visit'[v] = "failed"
                => faults' > faults \/ asked[v] \notin Rows]_downloadVars
  BY <1>1
<1> QED BY <1>2, DownloadsInvariance, PTL DEF DownloadsSpec, DownloadSucceeds

-----------------------------------------------------------------------------
(***************************************************************************)
(* Orphans, whenever leases look stale.  A worker that has promoted a copy *)
(* is in charge of it only as long as its lease is current or the row is   *)
(* gone: Secured leaves out the workers whose lease has been taken, which  *)
(* will not remove anything.  What is Owed instead, apart from the files   *)
(* copied late, grows by faults alone.                                     *)
(***************************************************************************)

Secured(f) ==
  \/ status[f] = "scanning"
  \/ deletion[f] = "production"
  \/ \E w \in Worker : scanned[w] = f /\ phase[w] \in {"tidyProduction", "purgeProduction"}
  \/ /\ status[f] = "none"
     /\ \E w \in Worker :
          scanned[w] = f /\ phase[w] \in {"complete", "exists"} /\ promoted[w]

Owed(f) ==
  \/ f \in production \ lateCopies /\ status[f] # "approved" /\ ~ Secured(f)
  \/ f \in quarantine /\ ~ Awaited(f)

Debts == {f \in File : Owed(f)}

\* The worker that has made the latest claim of a file holds its lease until
\* it leaves its scan context, unless the row is deleted.
LeaseHeld ==
  \A w \in Worker :
    phase[w] \in {"inspect", "promote"} /\ lease[w] = claims[scanned[w]]
      => LeaseIsCurrent(w) \/ status[scanned[w]] = "none"

PromotedLate == \A f \in production : Past(f)

LInv == IInv /\ LeaseHeld /\ PromotedLate

OInv == LInv /\ IsFiniteSet(Debts) /\ Cardinality(Debts) <= faults

LEMMA OwedIfOrphaned ==
  ASSUME NEW f \in File, Orphaned(f)
  PROVE  Owed(f)
BY DEF Orphaned, Owed, Secured, InCharge

LEMMA UploadKeepsLInv ==
  ASSUME LInv, IInv', NEW f \in File, UploadStep(f)
  PROVE  LInv'
<1> USE DEF LInv, IInv, TypeOK, rowVars, bucketVars, uploadVars, ownerVars, workerVars
<1>1. CASE UNCHANGED rowVars /\ UNCHANGED workerVars /\ UNCHANGED production
  <2>1. LeaseHeld'
    BY <1>1 DEF LeaseHeld, LeaseIsCurrent, Busy
  <2>2. PromotedLate'
    BY <1>1 DEF PromotedLate, Past, UploadStep, UploadQuarantineFile,
       UploadQuarantineFileFails, CommitReservedFile, CommitReservedFileFails, RollBackUpload,
       CrashUpload
  <2> QED BY <2>1, <2>2
<1>2. CASE upload[f] = "commit" /\ InsertRow(f)
  <2>1. UNCHANGED workerVars /\ UNCHANGED production
    BY DEF UploadStep, UploadQuarantineFile, UploadQuarantineFileFails, CommitReservedFile,
       CommitReservedFileFails, RollBackUpload, CrashUpload
  <2>2. ~ Past(f) /\ \A w \in Worker : Busy(w) => scanned[w] # f
    BY <1>2 DEF Past, InsertedOnce
  <2>3. LeaseHeld'
    BY <1>2, <2>1, <2>2 DEF LeaseHeld, LeaseIsCurrent, Busy, InsertRow
  <2>4. PromotedLate'
    BY <1>2, <2>1, <2>2 DEF PromotedLate, Past, UploadStep, UploadQuarantineFile,
       UploadQuarantineFileFails, CommitReservedFile, CommitReservedFileFails, RollBackUpload,
       CrashUpload
  <2> QED BY <2>3, <2>4
<1> QED BY <1>1, <1>2 DEF UploadStep, UploadQuarantineFile, UploadQuarantineFileFails,
           CommitReservedFile, CommitReservedFileFails, RollBackUpload, CrashUpload

LEMMA OwnerKeepsLInv ==
  ASSUME LInv, IInv', NEW f \in File, OwnerStep(f)
  PROVE  LInv'
<1> USE DEF LInv, IInv, TypeOK, rowVars, bucketVars, uploadVars, ownerVars, workerVars
<1>1. /\ UNCHANGED workerVars /\ UNCHANGED upload /\ UNCHANGED claims
      /\ production' \subseteq production
  BY DEF OwnerStep, DeleteFile, DeleteProductionObject, DeleteQuarantineObject, CrashDeletion,
     ChangeFilePermission, UpdateFilePermission
<1>2. /\ \A g \in File : status'[g] = status[g] \/ status'[g] = "none"
      /\ \A g \in File : status'[g] # "none" => scanStartedAt'[g] = scanStartedAt[g]
  BY DEF OwnerStep, DeleteFile, DeleteProductionObject, DeleteQuarantineObject, CrashDeletion,
     ChangeFilePermission, UpdateFilePermission
<1>3. LeaseHeld'
  BY <1>1, <1>2 DEF LeaseHeld, LeaseIsCurrent, Busy
<1>4. PromotedLate'
  BY <1>1 DEF PromotedLate, Past
<1> QED BY <1>3, <1>4

\* A claim takes the lease of every other holder, and the result of a current
\* lease is that of the latest claim.
LEMMA WorkerKeepsLInv ==
  ASSUME LInv, IInv', NEW w \in Worker, WorkerStep(w)
  PROVE  LInv'
<1> USE DEF LInv, IInv, TypeOK, rowVars, bucketVars, uploadVars, ownerVars, workerVars
<1>1. UNCHANGED upload /\ UNCHANGED deletion
  BY DEF WorkerStep, ProcessStep, ClaimFileForScan, Inspect, PromoteQuarantineFile,
     PromoteQuarantineFileFails, CompleteFileScan, CompleteFileScanMisses, CheckFileExists,
     CompleteFileScanFails, RemoveProduction, RemoveQuarantine, StopWorker
<1>2. PromotedLate'
  <2>1. production' \subseteq production \cup {scanned[w]}
    BY DEF WorkerStep, ProcessStep, ClaimFileForScan, Inspect, PromoteQuarantineFile,
       PromoteQuarantineFileFails, CompleteFileScan, CompleteFileScanMisses, CheckFileExists,
       CompleteFileScanFails, RemoveProduction, RemoveQuarantine, StopWorker
  <2>2. production' # production => Busy(w) \/ production' \subseteq production
    BY DEF Busy, WorkerStep, ProcessStep, ClaimFileForScan, Inspect, PromoteQuarantineFile,
       PromoteQuarantineFileFails, CompleteFileScan, CompleteFileScanMisses, CheckFileExists,
       CompleteFileScanFails, RemoveProduction, RemoveQuarantine, StopWorker
  <2> QED BY <1>1, <2>1, <2>2 DEF PromotedLate, Past, InsertedOnce
<1>3. LeaseHeld'
  <2>1. ASSUME NEW f \in File, ClaimFileForScan(w, f)
        PROVE  LeaseHeld'
    <3>1. /\ status'[f] = "scanning" /\ scanStartedAt'[f] = claims[f] + 1
          /\ phase'[w] = "inspect" /\ scanned'[w] = f /\ lease'[w] = claims[f] + 1
          /\ \A g \in File \ {f} :
               status'[g] = status[g] /\ scanStartedAt'[g] = scanStartedAt[g]
          /\ \A v \in Worker \ {w} :
               phase'[v] = phase[v] /\ scanned'[v] = scanned[v] /\ lease'[v] = lease[v]
      BY <2>1 DEF ClaimFileForScan
    <3>2. claims' = [claims EXCEPT ![f] = claims[f] + 1]
      BY <2>1 DEF ClaimFileForScan
    <3>3. ASSUME NEW v \in Worker, phase'[v] \in {"inspect", "promote"},
                 lease'[v] = claims'[scanned'[v]]
          PROVE  LeaseIsCurrent(v)' \/ status'[scanned'[v]] = "none"
      <4>1. CASE v = w
        BY <3>1, <4>1 DEF LeaseIsCurrent
      <4>2. CASE v # w
        <5>1. /\ scanned[v] \in File /\ phase[v] \in {"inspect", "promote"}
              /\ scanned'[v] = scanned[v] /\ lease'[v] = lease[v] /\ Busy(v)
          BY <3>1, <3>3, <4>2 DEF Busy
        <5>2. lease[v] <= claims[scanned[v]] /\ claims[f] \in Nat /\ lease[v] \in Nat
          BY <5>1 DEF Leases
        <5>3. scanned[v] # f /\ lease[v] = claims[scanned[v]]
          BY <3>2, <3>3, <5>1, <5>2
        <5> QED BY <3>1, <5>1, <5>3 DEF LeaseHeld, LeaseIsCurrent
      <4> QED BY <4>1, <4>2
    <3> QED BY <3>3 DEF LeaseHeld
  <2>2. CASE CompleteFileScan(w) \/ CompleteFileScanFails(w)
    <3>1. CASE UNCHANGED rowVars
      BY <2>2, <3>1 DEF CompleteFileScan, CompleteFileScanFails, LeaseHeld, LeaseIsCurrent, Busy
    <3>2. CASE phase[w] = "complete" /\ LeaseIsCurrent(w) /\ StoreResult(w)
      <4>1. /\ \A v \in Worker \ {w} : phase'[v] = phase[v]
            /\ phase'[w] \notin {"inspect", "promote"}
            /\ UNCHANGED <<scanned, lease>>
        BY <2>2, <3>2 DEF CompleteFileScan, CompleteFileScanFails
      <4>2. \A g \in File \ {scanned[w]} :
              status'[g] = status[g] /\ scanStartedAt'[g] = scanStartedAt[g]
        BY <3>2 DEF StoreResult
      <4>3. UNCHANGED claims
        BY <3>2 DEF StoreResult
      <4>4. ASSUME NEW v \in Worker \ {w}, phase[v] \in {"inspect", "promote"},
                   lease[v] = claims[scanned[v]]
            PROVE  scanned[v] # scanned[w]
        <5>1. /\ Busy(v) /\ Busy(w) /\ v # w /\ v \in Worker
              /\ LeaseIsCurrent(v) \/ status[scanned[v]] = "none"
          BY <3>2, <4>4 DEF LeaseHeld, Busy
        <5>2. scanned[v] = scanned[w] => lease[v] # lease[w]
          BY <5>1 DEF Leases
        <5> QED BY <3>2, <5>1, <5>2 DEF LeaseIsCurrent
      <4>5. ASSUME NEW v \in Worker, phase'[v] \in {"inspect", "promote"},
                   lease'[v] = claims'[scanned'[v]]
            PROVE  LeaseIsCurrent(v)' \/ status'[scanned'[v]] = "none"
        <5>1. /\ v # w /\ phase[v] \in {"inspect", "promote"} /\ scanned[v] \in File
              /\ lease[v] = claims[scanned[v]]
          BY <4>1, <4>3, <4>5
        <5> QED BY <4>1, <4>2, <4>4, <5>1 DEF LeaseHeld, LeaseIsCurrent
      <4> QED BY <4>5 DEF LeaseHeld
    <3> QED BY <2>2, <3>1, <3>2 DEF CompleteFileScan, CompleteFileScanFails
  <2>3. CASE /\ UNCHANGED rowVars /\ UNCHANGED <<scanned, lease>>
             /\ \A v \in Worker \ {w} : phase'[v] = phase[v]
             /\ Busy(w) /\ phase'[w] # "inspect" /\ (phase'[w] = "promote" => phase[w] = "inspect")
    BY <2>3 DEF LeaseHeld, LeaseIsCurrent, Busy
  <2> QED
    BY <2>1, <2>2, <2>3 DEF Busy, WorkerStep, ProcessStep, Inspect, PromoteQuarantineFile,
       PromoteQuarantineFileFails, CompleteFileScanMisses, CheckFileExists, RemoveProduction,
       RemoveQuarantine, StopWorker
<1> QED BY <1>2, <1>3

LEMMA InitLInv == Init => LInv
<1> SUFFICES ASSUME Init PROVE LInv
  OBVIOUS
<1>1. IInv
  BY InitIInv
<1>2. LeaseHeld /\ PromotedLate
  BY DEF Init, LeaseHeld, PromotedLate, Busy
<1> QED BY <1>1, <1>2 DEF LInv

LEMMA NextLInv ==
  ASSUME LInv, [Next]_vars
  PROVE  LInv'
<1>1. IInv'
  BY NextIInv DEF LInv
<1>2. CASE UNCHANGED vars
  <2>1. LeaseHeld' /\ PromotedLate'
    BY <1>2 DEF LInv, LeaseHeld, LeaseIsCurrent, Busy, PromotedLate, Past, vars, rowVars,
       bucketVars, uploadVars, workerVars
  <2> QED BY <1>1, <2>1 DEF LInv
<1> QED BY <1>1, <1>2, UploadKeepsLInv, OwnerKeepsLInv, WorkerKeepsLInv DEF Next

\* The steps of a request about f make no debt of another file, and none of
\* f either unless they are a fault.
LEMMA UploadDebts ==
  ASSUME LInv, NEW f \in File, UploadStep(f), NEW g \in File,
         g # f \/ UNCHANGED faults, Owed(g)'
  PROVE  Owed(g)
<1> USE DEF Owed, LInv, IInv, TypeOK, rowVars, bucketVars, uploadVars, ownerVars, workerVars
<1>1. faults' = faults + 1 => g # f
  BY DEF TypeOK
<1>2. CASE UploadQuarantineFile(f) \/ UploadQuarantineFileFails(f)
  BY <1>1, <1>2 DEF UploadQuarantineFile, UploadQuarantineFileFails, Secured, Awaited, Fault,
     LostAnswer
<1>3. CASE CommitReservedFile(f) \/ CommitReservedFileFails(f)
  <2>1. f \notin production /\ upload[f] = "commit"
    BY <1>3 DEF CommitReservedFile, CommitReservedFileFails, PromotedLate, Past
  <2>2. UNCHANGED <<bucketVars, ownerVars, workerVars>> /\ upload' = [upload EXCEPT ![f] = upload'[f]]
    BY <1>3 DEF CommitReservedFile, CommitReservedFileFails
  <2>3. \/ UNCHANGED status /\ upload'[f] = "rollback"
        \/ status' = [status EXCEPT ![f] = "uploading"]
    BY <1>3 DEF CommitReservedFile, CommitReservedFileFails, InsertRow
  <2> QED BY <2>1, <2>2, <2>3 DEF Secured, Awaited
<1>4. CASE RollBackUpload(f) \/ CrashUpload(f)
  BY <1>1, <1>4 DEF RollBackUpload, CrashUpload, Secured, Awaited, Fault
<1> QED BY <1>2, <1>3, <1>4 DEF UploadStep

LEMMA OwnerDebts ==
  ASSUME LInv, NEW f \in File, OwnerStep(f), NEW g \in File,
         g # f \/ UNCHANGED faults, Owed(g)'
  PROVE  Owed(g)
<1> USE DEF Owed, LInv, IInv, TypeOK, rowVars, bucketVars, uploadVars, ownerVars, workerVars
<1>1. faults' = faults + 1 => g # f
  BY DEF TypeOK
<1>2. CASE DeleteFile(f)
  BY <1>2 DEF DeleteFile, Secured, Awaited
<1>3. CASE DeleteProductionObject(f) \/ DeleteQuarantineObject(f) \/ CrashDeletion(f)
  BY <1>1, <1>3 DEF DeleteProductionObject, DeleteQuarantineObject, CrashDeletion, Fault,
     Secured, Awaited
<1>4. CASE \/ \E access \in {"public", "private"} : ChangeFilePermission(f, access)
           \/ UpdateFilePermission(f)
  BY <1>4 DEF ChangeFilePermission, UpdateFilePermission, Secured, Awaited
<1> QED BY <1>2, <1>3, <1>4 DEF OwnerStep

LEMMA WorkerDebts ==
  ASSUME LInv, NEW w \in Worker, WorkerStep(w), NEW g \in File,
         g # scanned[w] \/ UNCHANGED faults, Owed(g)'
  PROVE  Owed(g)
<1> USE DEF Owed, LInv, IInv, TypeOK, rowVars, bucketVars, uploadVars, ownerVars, workerVars
<1>1. faults' = faults + 1 => g # scanned[w]
  BY DEF TypeOK
<1>2. ASSUME NEW f \in File, ClaimFileForScan(w, f)
      PROVE  Owed(g)
  BY <1>2 DEF ClaimFileForScan, Secured, Awaited
<1>3. ASSUME NEW verdict \in Decided, Inspect(w, verdict)
      PROVE  Owed(g)
  BY <1>3 DEF Inspect, Secured, Awaited
<1>4. CASE PromoteQuarantineFile(w)
  <2>1. \/ status[scanned[w]] \in {"scanning", "none"}
        \/ scanned[w] \in lateCopies'
    BY <1>4 DEF PromoteQuarantineFile, LeaseHeld, LeaseIsCurrent, Rows
  <2> QED BY <1>4, <2>1 DEF PromoteQuarantineFile, Secured, Awaited
<1>5. CASE PromoteQuarantineFileFails(w)
  BY <1>1, <1>5 DEF PromoteQuarantineFileFails, Secured, Awaited, LostAnswer, Fault
<1>6. CASE CompleteFileScan(w)
  BY <1>6 DEF CompleteFileScan, LeaseIsCurrent, StoreResult, Decided, Secured, Awaited
<1>7. CASE CompleteFileScanMisses(w)
  BY <1>7 DEF CompleteFileScanMisses, Secured, Awaited
<1>8. CASE CheckFileExists(w)
  BY <1>8 DEF CheckFileExists, Rows, Secured, Awaited
<1>9. CASE CompleteFileScanFails(w)
  BY <1>1, <1>9 DEF CompleteFileScanFails, LostAnswer, Fault, StoreResult, Secured, Awaited
<1>10. CASE RemoveProduction(w) \/ RemoveQuarantine(w)
  BY <1>1, <1>10 DEF RemoveProduction, RemoveQuarantine, Fault, Secured, Awaited
<1>11. CASE StopWorker(w)
  BY <1>1, <1>11 DEF StopWorker, Fault, Secured, Awaited
<1> QED BY <1>2, <1>3, <1>4, <1>5, <1>6, <1>7, <1>8, <1>9, <1>10, <1>11
           DEF WorkerStep, ProcessStep

LEMMA NextDebts ==
  ASSUME LInv, [Next]_vars
  PROVE  \/ Debts' \subseteq Debts /\ faults' \in {faults, faults + 1}
         \/ \E f \in File : Debts' \subseteq Debts \cup {f} /\ faults' = faults + 1
<1>1. faults' \in {faults, faults + 1}
  BY DEF Next, UploadStep, OwnerStep, WorkerStep, ProcessStep, UploadQuarantineFile,
     UploadQuarantineFileFails, CommitReservedFile, CommitReservedFileFails, RollBackUpload,
     CrashUpload, DeleteFile, DeleteProductionObject, DeleteQuarantineObject, CrashDeletion,
     ChangeFilePermission, UpdateFilePermission, ClaimFileForScan, Inspect,
     PromoteQuarantineFile, PromoteQuarantineFileFails, CompleteFileScan,
     CompleteFileScanMisses, CheckFileExists, CompleteFileScanFails, RemoveProduction,
     RemoveQuarantine, StopWorker, LostAnswer, Fault, vars
<1>2. ASSUME NEW f \in File, \A g \in File : (g # f \/ UNCHANGED faults) /\ Owed(g)' => Owed(g)
      PROVE  \/ Debts' \subseteq Debts
             \/ Debts' \subseteq Debts \cup {f} /\ faults' = faults + 1
  BY <1>1, <1>2 DEF Debts
<1>3. CASE UNCHANGED vars
  BY <1>1, <1>3 DEF Debts, Owed, Secured, Awaited, vars, rowVars, bucketVars, uploadVars,
     ownerVars, workerVars
<1>4. ASSUME NEW f \in File, UploadStep(f) \/ OwnerStep(f)
      PROVE  \A g \in File : (g # f \/ UNCHANGED faults) /\ Owed(g)' => Owed(g)
  BY <1>4, UploadDebts, OwnerDebts
<1>5. ASSUME NEW w \in Worker, WorkerStep(w)
      PROVE  /\ scanned[w] \in File
             /\ \A g \in File : (g # scanned[w] \/ UNCHANGED faults) /\ Owed(g)' => Owed(g)
  BY <1>5, WorkerDebts DEF LInv, IInv, TypeOK
<1>6. CASE \E f \in File : UploadStep(f) \/ OwnerStep(f)
  BY <1>1, <1>2, <1>4, <1>6
<1>7. CASE \E w \in Worker : WorkerStep(w)
  BY <1>1, <1>2, <1>5, <1>7
<1> QED BY <1>3, <1>6, <1>7 DEF Next

LEMMA InitOInv == Init => OInv
<1> SUFFICES ASSUME Init PROVE OInv
  OBVIOUS
<1>1. Debts = {}
  BY DEF Init, Debts, Owed
<1>2. faults = 0
  BY DEF Init
<1> QED BY <1>1, <1>2, InitLInv, FS_EmptySet DEF OInv

LEMMA NextOInv ==
  ASSUME OInv, [Next]_vars
  PROVE  OInv'
<1>1. LInv'
  BY NextLInv DEF OInv
<1>2. /\ faults \in Nat /\ IsFiniteSet(Debts)
      /\ Cardinality(Debts) \in Nat /\ Cardinality(Debts) <= faults
  BY FS_CardinalityType, BoundsAssumption DEF OInv, LInv, IInv, TypeOK
<1>3. CASE Debts' \subseteq Debts /\ faults' \in {faults, faults + 1}
  <2>1. IsFiniteSet(Debts') /\ Cardinality(Debts') <= Cardinality(Debts)
    BY <1>2, <1>3, FS_Subset
  <2>2. Cardinality(Debts') \in Nat
    BY <2>1, FS_CardinalityType
  <2> QED BY <1>1, <1>2, <1>3, <2>1, <2>2 DEF OInv
<1>4. ASSUME NEW f \in File, Debts' \subseteq Debts \cup {f}, faults' = faults + 1
      PROVE  OInv'
  <2>1. /\ IsFiniteSet(Debts \cup {f})
        /\ Cardinality(Debts \cup {f}) \in {Cardinality(Debts), Cardinality(Debts) + 1}
    BY <1>2, FS_AddElement
  <2>2. IsFiniteSet(Debts') /\ Cardinality(Debts') <= Cardinality(Debts \cup {f})
    BY <1>4, <2>1, FS_Subset
  <2>3. Cardinality(Debts') \in Nat
    BY <2>2, FS_CardinalityType
  <2> QED BY <1>1, <1>2, <1>4, <2>1, <2>2, <2>3 DEF OInv
<1> QED BY <1>3, <1>4, NextDebts DEF OInv

\* OrphansNeedFault: however early leases look stale, no race of requests and
\* workers leaves an object behind except a copy made after the lease was lost,
\* and a fault leaves the objects of one file at most.
THEOREM OrphansAreFaults == Spec => []OrphansNeedFault
<1>1. OInv => OrphansNeedFault
  <2> SUFFICES ASSUME OInv PROVE OrphansNeedFault
    OBVIOUS
  <2>1. {f \in File : Orphaned(f)} \in SUBSET Debts
    BY OwedIfOrphaned DEF Debts
  <2>2. /\ IsFiniteSet({f \in File : Orphaned(f)}) /\ faults \in Nat
        /\ Cardinality({f \in File : Orphaned(f)}) <= Cardinality(Debts)
        /\ Cardinality(Debts) \in Nat /\ Cardinality(Debts) <= faults
    BY <2>1, FS_Subset, FS_CardinalityType, BoundsAssumption DEF OInv, LInv, IInv, TypeOK
  <2>3. Cardinality({f \in File : Orphaned(f)}) \in Nat
    BY <2>2, FS_CardinalityType
  <2> QED BY <2>2, <2>3 DEF OrphansNeedFault
<1>2. OInv /\ [Next]_vars => OInv'
  BY NextOInv
<1> QED BY <1>1, <1>2, InitOInv, PTL DEF Spec
=============================================================================

--------------------------- MODULE FileLifecycle ---------------------------
(***************************************************************************)
(* The life of a file between the upload request, the scanner workers and  *)
(* its owner: one row of the files table and at most one object under the  *)
(* same key in the quarantine bucket and in the production bucket.         *)
(*                                                                         *)
(* PostgreSQL statements and transactions are single steps; every S3 call  *)
(* is a step of its own, and requests and workers interleave between them. *)
(* A file identifier is generated by one upload request and never reused,  *)
(* so File also names the upload requests.                                 *)
(***************************************************************************)
EXTENDS Naturals, FiniteSets

CONSTANTS
  File,        \* file identifiers, one per upload request
  Worker,      \* scanner workers, of one or of several server processes
  Faults,      \* the kinds of fault that may happen
  MaxFaults,   \* how many faults a behaviour may have
  MaxClaims    \* bound on the claims of one file; a fault allows one more

ASSUME FileAssumption == File # {}
ASSUME FaultsAssumption == Faults \subseteq {"crash", "s3", "db", "ambiguous"}
ASSUME BoundsAssumption == MaxFaults \in Nat /\ MaxClaims \in Nat

VARIABLES
  \* the files table: "none" is no row, scanStartedAt 0 is NULL
  status, isPublic, scanStartedAt,
  claims,       \* claims granted so far on each file: the clock of its leases
  quarantine, production,      \* keys present in each bucket
  upload, reply,               \* the upload request of each file, its response
  deletion,                    \* the delete request that removed the row
  permission,                  \* the permission change waiting for its UPDATE
  phase, scanned, lease, result, promoted,   \* the scanner workers
  faults,
  \* For OrphansNeedFault only: the files that a worker has copied although
  \* they had been claimed again since its own claim.
  lateCopies

rowVars     == <<status, isPublic, scanStartedAt, claims>>
bucketVars  == <<quarantine, production, lateCopies>>
uploadVars  == <<upload, reply>>
ownerVars   == <<deletion, permission>>
workerVars  == <<phase, scanned, lease, result, promoted>>
vars == <<rowVars, bucketVars, uploadVars, ownerVars, workerVars, faults>>

Undecided == {"uploading", "scanning"}
Decided   == {"approved", "blocked", "scan_failed"}
Rows      == {f \in File : status[f] # "none"}

Phases == {"idle", "inspect", "promote", "complete", "exists",
           "tidyProduction", "tidyQuarantine", "purgeProduction",
           "purgeQuarantine"}

TypeOK ==
  /\ status \in [File -> {"none"} \cup Undecided \cup Decided]
  /\ isPublic \in [File -> BOOLEAN]
  /\ scanStartedAt \in [File -> Nat]
  /\ claims \in [File -> Nat]
  /\ quarantine \subseteq File
  /\ production \subseteq File
  /\ upload \in [File -> {"put", "commit", "rollback", "done"}]
  /\ reply \in [File -> {"none", "created", "error"}]
  /\ deletion \in [File -> {"idle", "production", "quarantine", "done"}]
  /\ permission \in [File -> {"idle", "public", "private"}]
  /\ phase \in [Worker -> Phases]
  /\ scanned \in [Worker -> File]
  /\ lease \in [Worker -> Nat]
  /\ result \in [Worker -> Decided]
  /\ promoted \in [Worker -> BOOLEAN]
  /\ faults \in 0..MaxFaults
  /\ lateCopies \subseteq File

Init ==
  /\ status = [f \in File |-> "none"]
  /\ isPublic = [f \in File |-> FALSE]
  /\ scanStartedAt = [f \in File |-> 0]
  /\ claims = [f \in File |-> 0]
  /\ quarantine = {}
  /\ production = {}
  /\ upload = [f \in File |-> "put"]
  /\ reply = [f \in File |-> "none"]
  /\ deletion = [f \in File |-> "idle"]
  /\ permission = [f \in File |-> "idle"]
  /\ phase = [w \in Worker |-> "idle"]
  /\ scanned = [w \in Worker |-> CHOOSE f \in File : TRUE]
  /\ lease = [w \in Worker |-> 0]
  /\ result = [w \in Worker |-> "scan_failed"]
  /\ promoted = [w \in Worker |-> FALSE]
  /\ faults = 0
  /\ lateCopies = {}

Fault(kind) ==
  /\ kind \in Faults
  /\ faults < MaxFaults
  /\ faults' = faults + 1

\* A call that fails because of a fault may still have been applied by the
\* other side: its client cannot tell.
LostAnswer == Fault("ambiguous")

----------------------------------------------------------------------------
(***************************************************************************)
(* UploadFile, after the quota reservation (module UploadQuota).           *)
(***************************************************************************)

UploadQuarantineFile(f) ==
  /\ upload[f] = "put"
  /\ quarantine' = quarantine \cup {f}
  /\ upload' = [upload EXCEPT ![f] = "commit"]
  /\ UNCHANGED <<rowVars, production, lateCopies, reply, ownerVars, workerVars,
                 faults>>

\* The handler answers 500 and leaves whatever the failed PUT stored.
UploadQuarantineFileFails(f) ==
  /\ upload[f] = "put"
  /\ \/ Fault("s3") /\ UNCHANGED quarantine
     \/ LostAnswer /\ quarantine' = quarantine \cup {f}
  /\ upload' = [upload EXCEPT ![f] = "done"]
  /\ reply' = [reply EXCEPT ![f] = "error"]
  /\ UNCHANGED <<rowVars, production, lateCopies, ownerVars, workerVars>>

\* Mutant: the row keeps an empty status instead of the default.
InsertRowWithoutStatus(f) ==
  /\ status' = [status EXCEPT ![f] = ""]
  /\ UNCHANGED <<isPublic, scanStartedAt, claims>>

InsertRow(f) ==
  /\ status' = [status EXCEPT ![f] = "uploading"]
  /\ UNCHANGED <<isPublic, scanStartedAt, claims>>

CommitReservedFile(f) ==
  /\ upload[f] = "commit"
  /\ InsertRow(f)
  /\ upload' = [upload EXCEPT ![f] = "done"]
  /\ reply' = [reply EXCEPT ![f] = "created"]
  /\ UNCHANGED <<bucketVars, ownerVars, workerVars, faults>>

\* The transaction fails: the folder or the reservation is gone, or the
\* database call failed, possibly after the transaction was committed.
CommitReservedFileFails(f) ==
  /\ upload[f] = "commit"
  /\ \/ UNCHANGED <<rowVars, faults>>
     \/ LostAnswer /\ InsertRow(f)
  /\ upload' = [upload EXCEPT ![f] = "rollback"]
  /\ UNCHANGED <<bucketVars, reply, ownerVars, workerVars>>

\* DeleteQuarantineFile after a failed commit; its own error is only logged.
RollBackUpload(f) ==
  /\ upload[f] = "rollback"
  /\ \/ quarantine' = quarantine \ {f} /\ UNCHANGED faults
     \/ Fault("s3") /\ UNCHANGED quarantine
  /\ upload' = [upload EXCEPT ![f] = "done"]
  /\ reply' = [reply EXCEPT ![f] = "error"]
  /\ UNCHANGED <<rowVars, production, lateCopies, ownerVars, workerVars>>

CrashUpload(f) ==
  /\ upload[f] # "done"
  /\ Fault("crash")
  /\ upload' = [upload EXCEPT ![f] = "done"]
  /\ UNCHANGED <<rowVars, bucketVars, reply, ownerVars, workerVars>>

----------------------------------------------------------------------------
(***************************************************************************)
(* The owner's requests: DeleteFile and ChangeFilePermission.              *)
(***************************************************************************)

DeleteFile(f) ==
  /\ f \in Rows
  /\ status' = [status EXCEPT ![f] = "none"]
  /\ isPublic' = [isPublic EXCEPT ![f] = FALSE]
  /\ scanStartedAt' = [scanStartedAt EXCEPT ![f] = 0]
  /\ deletion' = [deletion EXCEPT ![f] = "production"]
  /\ UNCHANGED <<claims, bucketVars, uploadVars, permission, workerVars, faults>>

\* Each bucket is tried once; an error is only logged.
DeleteProductionObject(f) ==
  /\ deletion[f] = "production"
  /\ \/ production' = production \ {f} /\ UNCHANGED faults
     \/ Fault("s3") /\ UNCHANGED production
  /\ deletion' = [deletion EXCEPT ![f] = "quarantine"]
  /\ UNCHANGED <<rowVars, quarantine, lateCopies, uploadVars, permission,
                 workerVars>>

DeleteQuarantineObject(f) ==
  /\ deletion[f] = "quarantine"
  /\ \/ quarantine' = quarantine \ {f} /\ UNCHANGED faults
     \/ Fault("s3") /\ UNCHANGED quarantine
  /\ deletion' = [deletion EXCEPT ![f] = "done"]
  /\ UNCHANGED <<rowVars, production, lateCopies, uploadVars, permission,
                 workerVars>>

CrashDeletion(f) ==
  /\ deletion[f] \in {"production", "quarantine"}
  /\ Fault("crash")
  /\ deletion' = [deletion EXCEPT ![f] = "done"]
  /\ UNCHANGED <<rowVars, bucketVars, uploadVars, permission, workerVars>>

\* Mutant: the handler forgets that only approved files can be shared.
ChangePermissionOfAnyFile(f, access) ==
  /\ f \in Rows
  /\ permission[f] = "idle"
  /\ permission' = [permission EXCEPT ![f] = access]
  /\ UNCHANGED <<rowVars, bucketVars, uploadVars, deletion, workerVars, faults>>

\* GetFile and the check of the status, before the UPDATE.
ChangeFilePermission(f, access) ==
  /\ status[f] = "approved"
  /\ permission[f] = "idle"
  /\ permission' = [permission EXCEPT ![f] = access]
  /\ UNCHANGED <<rowVars, bucketVars, uploadVars, deletion, workerVars, faults>>

\* The UPDATE does not look at the status again; no row is ErrFileNotFound.
UpdateFilePermission(f) ==
  /\ permission[f] # "idle"
  /\ isPublic' = IF f \in Rows
                 THEN [isPublic EXCEPT ![f] = (permission[f] = "public")]
                 ELSE isPublic
  /\ permission' = [permission EXCEPT ![f] = "idle"]
  /\ UNCHANGED <<status, scanStartedAt, claims, bucketVars, uploadVars,
                 deletion, workerVars, faults>>

----------------------------------------------------------------------------
(***************************************************************************)
(* The scanner: Service.worker and Service.process.                        *)
(***************************************************************************)

\* Mutant: interrupted scans are never claimed again.
NeverStale(f) == status[f] = "scanning" /\ scanStartedAt[f] = 0

\* scan_started_at IS NULL OR scan_started_at < now - timeout.  The lease has
\* the clock of the database, the claimant subtracts the timeout from its own,
\* and the holder's deadline starts when the answer of its claim arrives: a
\* lease may look stale in every phase of its holder.
Stale(f) == status[f] = "scanning"

Claimable(f) ==
  \/ status[f] = "uploading"
  \/ Stale(f) /\ \A g \in File : status[g] # "uploading"

ClaimFileForScan(w, f) ==
  /\ phase[w] = "idle"
  /\ Claimable(f)
  /\ claims[f] < MaxClaims + faults
  /\ claims' = [claims EXCEPT ![f] = @ + 1]
  /\ status' = [status EXCEPT ![f] = "scanning"]
  /\ scanStartedAt' = [scanStartedAt EXCEPT ![f] = claims[f] + 1]
  /\ phase' = [phase EXCEPT ![w] = "inspect"]
  /\ scanned' = [scanned EXCEPT ![w] = f]
  /\ lease' = [lease EXCEPT ![w] = claims[f] + 1]
  /\ promoted' = [promoted EXCEPT ![w] = FALSE]
  /\ UNCHANGED <<isPublic, bucketVars, uploadVars, ownerVars, result, faults>>

\* The verdict of inspect (module ScanPolicy).  A disabled scanner approves
\* without a look at the object; only a downloaded object can be blocked.
Inspect(w, verdict) ==
  /\ phase[w] = "inspect"
  /\ verdict = "blocked" => scanned[w] \in quarantine
  /\ result' = [result EXCEPT ![w] = verdict]
  /\ phase' = [phase EXCEPT ![w] = IF verdict = "approved" THEN "promote"
                                                           ELSE "complete"]
  /\ UNCHANGED <<rowVars, bucketVars, uploadVars, ownerVars, scanned, lease,
                 promoted, faults>>

\* The worker does not look at its lease again before it copies.
PromoteQuarantineFile(w) ==
  /\ phase[w] = "promote"
  /\ scanned[w] \in quarantine
  /\ production' = production \cup {scanned[w]}
  /\ lateCopies' = IF scanned[w] \in Rows /\ lease[w] # claims[scanned[w]]
                   THEN lateCopies \cup {scanned[w]}
                   ELSE lateCopies
  /\ promoted' = [promoted EXCEPT ![w] = TRUE]
  /\ phase' = [phase EXCEPT ![w] = "complete"]
  /\ UNCHANGED <<rowVars, quarantine, uploadVars, ownerVars, scanned, lease,
                 result, faults>>

\* Mutant: the error of the copy is logged and the verdict stays approved.
PromoteErrorIgnored(w) ==
  /\ phase[w] = "promote"
  /\ phase' = [phase EXCEPT ![w] = "complete"]
  /\ UNCHANGED <<rowVars, bucketVars, uploadVars, ownerVars, scanned, lease,
                 result, promoted, faults>>

\* The copy fails, the object is gone or the scan context has expired: the
\* verdict becomes scan_failed, and a copy whose answer was lost stays.
PromoteQuarantineFileFails(w) ==
  /\ phase[w] = "promote"
  /\ \/ UNCHANGED <<production, faults>>
     \/ /\ LostAnswer
        /\ scanned[w] \in quarantine
        /\ production' = production \cup {scanned[w]}
  /\ result' = [result EXCEPT ![w] = "scan_failed"]
  /\ phase' = [phase EXCEPT ![w] = "complete"]
  /\ UNCHANGED <<rowVars, quarantine, lateCopies, uploadVars, ownerVars, scanned,
                 lease, promoted>>

\* Mutant: the UPDATE does not compare scan_started_at.
AnyLeaseWillDo(w) == status[scanned[w]] = "scanning"

\* Mutant: the UPDATE only looks for the row.
AnyRowWillDo(w) == scanned[w] \in Rows

LeaseIsCurrent(w) ==
  /\ status[scanned[w]] = "scanning"
  /\ scanStartedAt[scanned[w]] = lease[w]

StoreResult(w) ==
  /\ status' = [status EXCEPT ![scanned[w]] = result[w]]
  /\ scanStartedAt' = [scanStartedAt EXCEPT ![scanned[w]] = 0]
  /\ UNCHANGED <<isPublic, claims>>

CompleteFileScan(w) ==
  /\ phase[w] = "complete"
  /\ LeaseIsCurrent(w)
  /\ StoreResult(w)
  /\ phase' = [phase EXCEPT ![w] = IF result[w] = "approved"
                                   THEN "tidyQuarantine"
                                   ELSE "tidyProduction"]
  /\ UNCHANGED <<bucketVars, uploadVars, ownerVars, scanned, lease, result,
                 promoted, faults>>

\* No row was updated; whether the file still exists is a second query.
CompleteFileScanMisses(w) ==
  /\ phase[w] = "complete"
  /\ ~ LeaseIsCurrent(w)
  /\ phase' = [phase EXCEPT ![w] = "exists"]
  /\ UNCHANGED <<rowVars, bucketVars, uploadVars, ownerVars, scanned, lease,
                 result, promoted, faults>>

\* Mutant: a lost lease is taken for a deleted file.
NotPendingPurges(w) ==
  /\ phase[w] = "exists"
  /\ phase' = [phase EXCEPT ![w] = IF promoted[w] THEN "purgeProduction"
                                                 ELSE "purgeQuarantine"]
  /\ UNCHANGED <<rowVars, bucketVars, uploadVars, ownerVars, scanned, lease,
                 result, promoted, faults>>

\* Mutant: a worker whose file was deleted just stops.
NotFoundIgnored(w) ==
  /\ phase[w] = "exists"
  /\ phase' = [phase EXCEPT ![w] = "idle"]
  /\ UNCHANGED <<rowVars, bucketVars, uploadVars, ownerVars, scanned, lease,
                 result, promoted, faults>>

\* ErrFileScanNotPending leaves every object alone; ErrFileNotFound removes
\* what this worker promoted and the quarantine object.
CheckFileExists(w) ==
  /\ phase[w] = "exists"
  /\ phase' = [phase EXCEPT ![w] =
                 IF scanned[w] \in Rows THEN "idle"
                 ELSE IF promoted[w] THEN "purgeProduction"
                 ELSE "purgeQuarantine"]
  /\ UNCHANGED <<rowVars, bucketVars, uploadVars, ownerVars, scanned, lease,
                 result, promoted, faults>>

\* Any other error of CompleteFileScan ends the scan without cleaning up.
CompleteFileScanFails(w) ==
  /\ phase[w] \in {"complete", "exists"}
  /\ \/ Fault("db") /\ UNCHANGED rowVars
     \/ phase[w] = "complete" /\ LeaseIsCurrent(w) /\ LostAnswer /\ StoreResult(w)
  /\ phase' = [phase EXCEPT ![w] = "idle"]
  /\ UNCHANGED <<bucketVars, uploadVars, ownerVars, scanned, lease, result,
                 promoted>>

\* Deletions after the answer of CompleteFileScan; errors are only logged.
RemoveProduction(w) ==
  /\ phase[w] \in {"tidyProduction", "purgeProduction"}
  /\ \/ production' = production \ {scanned[w]} /\ UNCHANGED faults
     \/ Fault("s3") /\ UNCHANGED production
  /\ phase' = [phase EXCEPT ![w] =
                 IF phase[w] = "purgeProduction" THEN "purgeQuarantine"
                 ELSE IF result[w] = "blocked" THEN "tidyQuarantine"
                 ELSE "idle"]
  /\ UNCHANGED <<rowVars, quarantine, lateCopies, uploadVars, ownerVars, scanned,
                 lease, result, promoted>>

RemoveQuarantine(w) ==
  /\ phase[w] \in {"tidyQuarantine", "purgeQuarantine"}
  /\ \/ quarantine' = quarantine \ {scanned[w]} /\ UNCHANGED faults
     \/ Fault("s3") /\ UNCHANGED quarantine
  /\ phase' = [phase EXCEPT ![w] = "idle"]
  /\ UNCHANGED <<rowVars, production, lateCopies, uploadVars, ownerVars, scanned,
                 lease, result, promoted>>

\* Close cancels the contexts of the workers, a crash ends the process; the
\* row stays as it is and a worker of the next process starts idle.
StopWorker(w) ==
  /\ phase[w] # "idle"
  /\ Fault("crash")
  /\ phase' = [phase EXCEPT ![w] = "idle"]
  /\ UNCHANGED <<rowVars, bucketVars, uploadVars, ownerVars, scanned, lease,
                 result, promoted>>

----------------------------------------------------------------------------

UploadStep(f) ==
  \/ UploadQuarantineFile(f)
  \/ UploadQuarantineFileFails(f)
  \/ CommitReservedFile(f)
  \/ CommitReservedFileFails(f)
  \/ RollBackUpload(f)
  \/ CrashUpload(f)

OwnerStep(f) ==
  \/ DeleteFile(f)
  \/ DeleteProductionObject(f)
  \/ DeleteQuarantineObject(f)
  \/ CrashDeletion(f)
  \/ \E access \in {"public", "private"} : ChangeFilePermission(f, access)
  \/ UpdateFilePermission(f)

ProcessStep(w) ==
  \/ \E verdict \in Decided : Inspect(w, verdict)
  \/ PromoteQuarantineFile(w)
  \/ PromoteQuarantineFileFails(w)
  \/ CompleteFileScan(w)
  \/ CompleteFileScanMisses(w)
  \/ CheckFileExists(w)
  \/ CompleteFileScanFails(w)
  \/ RemoveProduction(w)
  \/ RemoveQuarantine(w)

WorkerStep(w) ==
  \/ \E f \in File : ClaimFileForScan(w, f)
  \/ ProcessStep(w)
  \/ StopWorker(w)

Next ==
  \/ \E f \in File : UploadStep(f) \/ OwnerStep(f)
  \/ \E w \in Worker : WorkerStep(w)

Spec == Init /\ [][Next]_vars

(***************************************************************************)
(* The scheduling the code justifies: a request handler that started runs  *)
(* to its end, a worker polls for ever and never stops inside process,     *)
(* whose commands and S3 calls all have a deadline.                        *)
(***************************************************************************)
Fairness ==
  /\ \A f \in File : /\ WF_vars(DeleteProductionObject(f))
                     /\ WF_vars(DeleteQuarantineObject(f))
                     /\ WF_vars(RollBackUpload(f))
  /\ \A w \in Worker : /\ WF_vars(\E f \in File : ClaimFileForScan(w, f))
                       /\ WF_vars(ProcessStep(w))

FairSpec == Spec /\ Fairness

----------------------------------------------------------------------------
(***************************************************************************)
(* Properties.                                                             *)
(***************************************************************************)

\* Every approved row can be downloaded: streamFile reads the production
\* object, which no late worker, rollback or deletion has removed.
ApprovedIsServable ==
  \A f \in File : status[f] = "approved" => f \in production

\* A file whose upload was answered 201 keeps its only copy in quarantine
\* while it waits for a decision, and after a failed scan.
AcknowledgedKeepsQuarantine ==
  \A f \in File :
    /\ reply[f] = "created"
    /\ status[f] \in {"uploading", "scanning", "scan_failed"}
    => f \in quarantine

\* Access is only ever public for an approved file, although the permission
\* handler checks the status and updates the row in two statements.
PublicIsApproved ==
  \A f \in File : isPublic[f] => status[f] = "approved"

\* A production object that is not served is still somebody's business.
InCharge(f) ==
  \/ status[f] = "scanning"
  \/ deletion[f] = "production"
  \/ \E w \in Worker :
       /\ scanned[w] = f
       /\ \/ phase[w] \in {"complete", "exists"} /\ promoted[w]
          \/ phase[w] \in {"tidyProduction", "purgeProduction"}

\* A quarantine object has a use, or will be removed.  That of a failed scan
\* is kept on purpose.
Awaited(f) ==
  \/ upload[f] \in {"commit", "rollback"}
  \/ status[f] \in {"uploading", "scanning", "scan_failed"}
  \/ deletion[f] \in {"production", "quarantine"}
  \/ \E w \in Worker :
       /\ scanned[w] = f
       /\ \/ phase[w] \in {"tidyQuarantine", "purgeProduction", "purgeQuarantine"}
          \/ phase[w] = "tidyProduction" /\ result[w] = "blocked"

Orphaned(f) ==
  \/ /\ f \in production \ lateCopies
     /\ status[f] # "approved"
     /\ ~ InCharge(f)
  \/ f \in quarantine /\ ~ Awaited(f)

\* Every file that leaves an object behind, in one bucket or in both, has met
\* a fault of its own: races of workers, retries and owners forget nothing.
\* The one exception is a copy made after the lease was lost: the worker that
\* took the lease may have decided the file and cleaned up before it appears.
OrphansNeedFault == Cardinality({f \in File : Orphaned(f)}) <= faults

\* What the rows show to clients: a scanning row is still pending, and a row
\* that its owner deleted never comes back.
Stage(f) ==
  IF f \in Rows THEN IF status[f] \in Undecided THEN "pending" ELSE status[f]
                ELSE IF deletion[f] = "idle" THEN "unknown" ELSE "removed"

Contract == INSTANCE FileContract WITH
              stage  <- [f \in File |-> Stage(f)],
              shared <- {f \in File : isPublic[f]}

\* Uploads, leases, retried scans, permission changes and deletions together
\* show every client one decision per file and no sharing before approval.
ImplementsContract == Contract!ContractSpec

\* Every stored row is decided or deleted, whichever workers stop on the way.
EveryFileIsDecided ==
  \A f \in File : status[f] \in Undecided ~> status[f] \notin Undecided

\* Unless a fault happens, a deleted file leaves no object behind, even when
\* a worker was scanning or promoting it.
DeletedLeavesNoObject ==
  \A f \in File :
    deletion[f] # "idle" ~> \/ faults > 0
                            \/ [](f \notin quarantine \cup production)

=============================================================================

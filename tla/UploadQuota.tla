---------------------------- MODULE UploadQuota ----------------------------
(***************************************************************************)
(* The quota side of concurrent uploads: ReserveUpload, the S3 transfer,   *)
(* CommitReservedFile, ReleaseUploadReservation and the cleanup of old     *)
(* reservations at start-up.  A transaction that only becomes visible when *)
(* it commits is one step, except ReserveUpload, which holds the user's    *)
(* row lock from its first statement to its commit and reads the sums in   *)
(* between; the other transactions do not take that lock.                  *)
(***************************************************************************)
EXTENDS QuotaBytes

CONSTANTS
  Nobody,      \* the holder of a free row lock
  Faults,      \* the kinds of fault that may happen
  MaxFaults    \* how many faults a behaviour may have

ASSUME NobodyAssumption == Nobody \notin Upload
ASSUME FaultsAssumption ==
  Faults \subseteq {"crash", "db", "ambiguous"} /\ MaxFaults \in Nat

VARIABLES
  files,          \* rows of the files table
  reservations,   \* rows of upload_reservations
  aged,           \* reservations created more than 24 hours ago
  lock,           \* holder of each users row, SELECT ... FOR UPDATE
  stage,          \* where the upload request is
  seen,           \* the two sums its transaction has read
  faults

vars == <<files, reservations, aged, lock, stage, seen, faults>>

Ledger == INSTANCE QuotaLedger WITH charged <- files \cup reservations

\* selectStorageUsageSQL: both sums of one snapshot.
UsedBytes(o)     == Bytes(OwnedBy(files, o))
ReservedBytes(o) == Bytes(OwnedBy(reservations, o))

Stages == {"start", "locked", "checked", "transfer", "commit", "release", "done"}
InReservation == {"locked", "checked"}

TypeOK ==
  /\ files \subseteq Upload
  /\ reservations \subseteq Upload
  /\ aged \subseteq Upload
  /\ lock \in [User -> Upload \cup {Nobody}]
  /\ stage \in [Upload -> Stages]
  /\ seen \in [Upload -> [used : Nat, reserved : Nat]]
  /\ faults \in 0..MaxFaults

Init ==
  /\ files = {}
  /\ reservations = {}
  /\ aged = {}
  /\ lock = [o \in User |-> Nobody]
  /\ stage = [u \in Upload |-> "start"]
  /\ seen = [u \in Upload |-> [used |-> 0, reserved |-> 0]]
  /\ faults = 0

Fault(kind) ==
  /\ kind \in Faults
  /\ faults < MaxFaults
  /\ faults' = faults + 1

Goto(u, s) == stage' = [stage EXCEPT ![u] = s]

Unlock(u) ==
  lock' = [lock EXCEPT ![Owner[u]] = IF @ = u THEN Nobody ELSE @]

----------------------------------------------------------------------------
(***************************************************************************)
(* ReserveUpload.                                                          *)
(***************************************************************************)

\* Refused before the transaction.  Limit is the effective one: -1, no
\* limit, counts as the largest 64-bit number.
NeverFits(u) == Limit[Owner[u]] = 0 \/ Size[u] > Limit[Owner[u]]

RefuseOversize(u) ==
  /\ stage[u] = "start"
  /\ NeverFits(u)
  /\ Goto(u, "done")
  /\ UNCHANGED <<files, reservations, aged, lock, seen, faults>>

\* Mutant: the user's row is read without FOR UPDATE.
LockNothing(u) ==
  /\ stage[u] = "start"
  /\ ~ NeverFits(u)
  /\ Goto(u, "locked")
  /\ UNCHANGED <<files, reservations, aged, lock, seen, faults>>

LockUser(u) ==
  /\ stage[u] = "start"
  /\ ~ NeverFits(u)
  /\ lock[Owner[u]] = Nobody
  /\ lock' = [lock EXCEPT ![Owner[u]] = u]
  /\ Goto(u, "locked")
  /\ UNCHANGED <<files, reservations, aged, seen, faults>>

\* Mutant: the reservations are subtracted from the used bytes.
ReadDifference(u) ==
  /\ stage[u] = "locked"
  /\ seen' = [seen EXCEPT ![u] =
                [used     |-> UsedBytes(Owner[u]) - ReservedBytes(Owner[u]),
                 reserved |-> 0]]
  /\ Goto(u, "checked")
  /\ UNCHANGED <<files, reservations, aged, lock, faults>>

ReadUsage(u) ==
  /\ stage[u] = "locked"
  /\ seen' = [seen EXCEPT ![u] = [used     |-> UsedBytes(Owner[u]),
                                  reserved |-> ReservedBytes(Owner[u])]]
  /\ Goto(u, "checked")
  /\ UNCHANGED <<files, reservations, aged, lock, faults>>

HasRoom(u) ==
  LET remainingAfterFile == Limit[Owner[u]] - Size[u]
  IN  /\ seen[u].used <= remainingAfterFile
      /\ seen[u].reserved <= remainingAfterFile - seen[u].used

InsertReservation(u) ==
  /\ stage[u] = "checked"
  /\ HasRoom(u)
  /\ reservations' = reservations \cup {u}
  /\ Unlock(u)
  /\ Goto(u, "transfer")
  /\ UNCHANGED <<files, aged, seen, faults>>

\* Mutant: the refused transaction is not rolled back.
RefuseKeepsLock(u) ==
  /\ stage[u] = "checked"
  /\ ~ HasRoom(u)
  /\ Goto(u, "done")
  /\ UNCHANGED <<files, reservations, aged, lock, seen, faults>>

RefuseQuota(u) ==
  /\ stage[u] = "checked"
  /\ ~ HasRoom(u)
  /\ Unlock(u)
  /\ Goto(u, "done")
  /\ UNCHANGED <<files, reservations, aged, seen, faults>>

\* The handler answers 500.  Its deferred release is not registered yet, so
\* a reservation whose commit was applied without an answer is left behind.
ReserveUploadFails(u) ==
  /\ stage[u] \in InReservation
  /\ \/ Fault("db") /\ UNCHANGED reservations
     \/ /\ Fault("ambiguous")
        /\ stage[u] = "checked"
        /\ HasRoom(u)
        /\ reservations' = reservations \cup {u}
  /\ Unlock(u)
  /\ Goto(u, "done")
  /\ UNCHANGED <<files, aged, seen>>

----------------------------------------------------------------------------
(***************************************************************************)
(* The rest of UploadFile.                                                 *)
(***************************************************************************)

UploadQuarantineFile(u) ==
  /\ stage[u] = "transfer"
  /\ \/ Goto(u, "commit")
     \/ Goto(u, "release")
  /\ UNCHANGED <<files, reservations, aged, lock, seen, faults>>

StoreAndConsume(u) ==
  /\ files' = files \cup {u}
  /\ reservations' = reservations \ {u}
  /\ aged' = aged \ {u}

\* Mutant: an expired reservation does not stop the commit.
CommitWithoutReservation(u) ==
  /\ stage[u] = "commit"
  /\ StoreAndConsume(u)
  /\ Goto(u, "done")
  /\ UNCHANGED <<lock, seen, faults>>

CommitReservedFile(u) ==
  /\ stage[u] = "commit"
  /\ u \in reservations
  /\ StoreAndConsume(u)
  /\ Goto(u, "done")
  /\ UNCHANGED <<lock, seen, faults>>

\* ErrUploadReservationNotFound, a missing folder, or a database error that
\* may hide a committed transaction.  The object is rolled back (module
\* FileLifecycle) and the deferred release runs.
CommitReservedFileFails(u) ==
  /\ stage[u] = "commit"
  /\ \/ UNCHANGED <<files, reservations, aged, faults>>
     \/ u \in reservations /\ Fault("ambiguous") /\ StoreAndConsume(u)
  /\ Goto(u, "release")
  /\ UNCHANGED <<lock, seen>>

\* Mutant: a failed upload keeps its reservation.
NeverRelease(u) ==
  /\ stage[u] = "release"
  /\ Goto(u, "done")
  /\ UNCHANGED <<files, reservations, aged, lock, seen, faults>>

ReleaseUploadReservation(u) ==
  /\ stage[u] = "release"
  /\ \/ /\ reservations' = reservations \ {u}
        /\ aged' = aged \ {u}
        /\ UNCHANGED faults
     \/ Fault("db") /\ UNCHANGED <<reservations, aged>>
  /\ Goto(u, "done")
  /\ UNCHANGED <<files, lock, seen>>

\* The process dies; the database rolls the open transaction back.
Crash(u) ==
  /\ stage[u] \notin {"start", "done"}
  /\ Fault("crash")
  /\ Unlock(u)
  /\ Goto(u, "done")
  /\ UNCHANGED <<files, reservations, aged, seen>>

----------------------------------------------------------------------------

DeleteFile(u) ==
  /\ u \in files
  /\ files' = files \ {u}
  /\ UNCHANGED <<reservations, aged, lock, stage, seen, faults>>

GrowOld(u) ==
  /\ u \in reservations \ aged
  /\ aged' = aged \cup {u}
  /\ UNCHANGED <<files, reservations, lock, stage, seen, faults>>

\* deleteExpiredUploadReservationsSQL, when some server process starts; the
\* uploads of other processes go on.
StartServer ==
  /\ aged # {}
  /\ reservations' = reservations \ aged
  /\ aged' = {}
  /\ UNCHANGED <<files, lock, stage, seen, faults>>

Reserve(u) ==
  \/ RefuseOversize(u)
  \/ LockUser(u)
  \/ ReadUsage(u)
  \/ InsertReservation(u)
  \/ RefuseQuota(u)
  \/ ReserveUploadFails(u)

Complete(u) ==
  \/ UploadQuarantineFile(u)
  \/ CommitReservedFile(u)
  \/ CommitReservedFileFails(u)
  \/ ReleaseUploadReservation(u)

Next ==
  \/ \E u \in Upload : \/ Reserve(u) \/ Complete(u) \/ Crash(u)
                       \/ DeleteFile(u) \/ GrowOld(u)
  \/ StartServer

Spec == Init /\ [][Next]_vars

\* A handler that was called runs on; the lock it waits for is granted.
FairSpec == Spec /\ \A u \in Upload : WF_vars(Reserve(u)) /\ WF_vars(Complete(u))

----------------------------------------------------------------------------

\* Stored and reserved bytes of a user never exceed the plan's storage,
\* although commits and releases run outside the user's row lock.
QuotaHolds ==
  \A o \in User : UsedBytes(o) + ReservedBytes(o) <= Limit[o]

\* The reservation protocol is an atomic charge of the quota account.
ImplementsLedger == Ledger!LedgerSpec

Leaked == {u \in reservations : stage[u] = "done"}

\* Each reservation that outlives its request costs a fault of its own: every
\* other path of UploadFile, refusals included, consumes or releases it.
LeakNeedsFault == Cardinality(Leaked) <= faults

\* Every upload request ends: no wait for the row lock lasts.
EveryRequestEnds == \A u \in Upload : stage[u] # "done" ~> stage[u] = "done"

=============================================================================

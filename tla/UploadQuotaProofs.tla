------------------------- MODULE UploadQuotaProofs -------------------------
(***************************************************************************)
(* TLAPS proofs about UploadQuota.  The argument: between the two sums     *)
(* that ReserveUpload reads under the user's row lock and the reservation  *)
(* it inserts, nobody else can insert for that user, and every step taken  *)
(* without the lock keeps the total or lowers it.  So the sums read bound  *)
(* the total from above until the insertion (SeenBounds).                  *)
(***************************************************************************)
EXTENDS UploadQuota, FiniteSetTheorems, TLAPS

-----------------------------------------------------------------------------
(***************************************************************************)
(* The sum of sizes as a cardinality.                                      *)
(***************************************************************************)

LEMMA PositionsFinite ==
  ASSUME NEW S \in SUBSET Upload
  PROVE  IsFiniteSet(Positions(S))
<1>1. IsFiniteSet(S) /\ IsFiniteSet(1..MaxSize)
  BY FS_Subset, FS_Interval, QuotaAssumption
<1>2. IsFiniteSet(S \X (1..MaxSize))
  BY <1>1, FS_Product
<1> QED BY <1>2, FS_Subset DEF Positions

LEMMA BytesNat ==
  ASSUME NEW S \in SUBSET Upload
  PROVE  Bytes(S) \in Nat
BY PositionsFinite, FS_CardinalityType DEF Bytes

\* Fewer uploads hold at most as many bytes.
LEMMA BytesMonotone ==
  ASSUME NEW S \in SUBSET Upload, NEW T \in SUBSET S
  PROVE  Bytes(T) <= Bytes(S)
<1>1. Positions(T) \subseteq Positions(S)
  BY DEF Positions
<1> QED BY <1>1, PositionsFinite, FS_Subset DEF Bytes

LEMMA BytesEmpty == Bytes({}) = 0
<1>1. Positions({}) = {}
  BY DEF Positions
<1> QED BY <1>1, FS_EmptySet DEF Bytes

\* One upload holds as many positions as its size.
LEMMA BytesSingle ==
  ASSUME NEW u \in Upload
  PROVE  Bytes({u}) = Size[u]
<1> DEFINE n == Size[u]
           f == [k \in 1..n |-> <<u, k>>]
<1>1. n \in Nat /\ n <= MaxSize /\ MaxSize \in Nat
  BY QuotaAssumption
<1>2. \A p \in Positions({u}) : p[2] \in 1..n /\ p = <<u, p[2]>>
  BY <1>1 DEF Positions
<1>3. \A k \in 1..n : <<u, k>> \in Positions({u})
  BY <1>1 DEF Positions
<1>4. f \in Bijection(1..n, Positions({u}))
  <2>1. f \in [1..n -> Positions({u})]
    BY <1>3
  <2>2. \A a, b \in 1..n : f[a] = f[b] => a = b
    OBVIOUS
  <2>3. \A p \in Positions({u}) : \E k \in 1..n : f[k] = p
    BY <1>2
  <2> QED
    BY <2>1, <2>2, <2>3 DEF Bijection, Injection, Surjection, IsInjective
<1>5. ExistsBijection(1..n, Positions({u}))
  BY <1>4 DEF ExistsBijection
<1> QED BY <1>1, <1>5, FS_CountingElements DEF Bytes

\* The sum over disjoint sets of uploads.
LEMMA BytesUnion ==
  ASSUME NEW S \in SUBSET Upload, NEW T \in SUBSET Upload, S \cap T = {}
  PROVE  Bytes(S \cup T) = Bytes(S) + Bytes(T)
<1>1. Positions(S \cup T) = Positions(S) \cup Positions(T)
  BY DEF Positions
<1>2. Positions(S) \cap Positions(T) = {}
  BY DEF Positions
<1>3. IsFiniteSet(Positions(S)) /\ IsFiniteSet(Positions(T))
  BY PositionsFinite
<1>4. Cardinality(Positions(S) \cup Positions(T))
        = Cardinality(Positions(S)) + Cardinality(Positions(T))
          - Cardinality(Positions(S) \cap Positions(T))
  BY <1>3, FS_Union
<1>5. Cardinality(Positions(S) \cap Positions(T)) = 0
  BY <1>2, FS_EmptySet
<1>6. Cardinality(Positions(S)) \in Nat /\ Cardinality(Positions(T)) \in Nat
  BY <1>3, FS_CardinalityType
<1> DEFINE a == Cardinality(Positions(S))
           b == Cardinality(Positions(T))
<1>7. Bytes(S) = a /\ Bytes(T) = b
  BY DEF Bytes
<1>8. Bytes(S \cup T) = a + b - 0
  BY <1>1, <1>4, <1>5 DEF Bytes
<1>9. a \in Nat /\ b \in Nat
  BY <1>6
<1> HIDE DEF a, b
<1> QED BY <1>7, <1>8, <1>9

-----------------------------------------------------------------------------
(***************************************************************************)
(* The total of a user's stored and reserved bytes, F and R standing for   *)
(* files and reservations before a step or after it.                       *)
(***************************************************************************)

Sum(F, R, o) == Bytes(OwnedBy(F, o)) + Bytes(OwnedBy(R, o))

LEMMA SumNat ==
  ASSUME NEW F \in SUBSET Upload, NEW R \in SUBSET Upload, NEW o \in User
  PROVE  Sum(F, R, o) \in Nat
BY BytesNat DEF Sum, OwnedBy

LEMMA SumIsCharged ==
  ASSUME NEW F \in SUBSET Upload, NEW R \in SUBSET Upload, F \cap R = {},
         NEW o \in User
  PROVE  Sum(F, R, o) = Bytes(OwnedBy(F \cup R, o))
<1>1. OwnedBy(F \cup R, o) = OwnedBy(F, o) \cup OwnedBy(R, o)
  BY DEF OwnedBy
<1>2. OwnedBy(F, o) \cap OwnedBy(R, o) = {}
  BY DEF OwnedBy
<1>3. OwnedBy(F, o) \in SUBSET Upload /\ OwnedBy(R, o) \in SUBSET Upload
  BY DEF OwnedBy
<1> QED BY <1>1, <1>2, <1>3, BytesUnion DEF Sum

\* Moving an upload from R to F, or dropping uploads, never raises the sum.
LEMMA SumNeverGrows ==
  ASSUME NEW F \in SUBSET Upload, NEW R \in SUBSET Upload, F \cap R = {},
         NEW G \in SUBSET Upload, NEW Q \in SUBSET Upload, G \cap Q = {},
         G \cup Q \subseteq F \cup R, NEW o \in User
  PROVE  Sum(G, Q, o) <= Sum(F, R, o)
<1>1. OwnedBy(G \cup Q, o) \in SUBSET OwnedBy(F \cup R, o)
  BY DEF OwnedBy
<1>2. OwnedBy(F \cup R, o) \in SUBSET Upload
  BY DEF OwnedBy
<1>3. Bytes(OwnedBy(G \cup Q, o)) <= Bytes(OwnedBy(F \cup R, o))
  BY <1>1, <1>2, BytesMonotone
<1> QED BY <1>3, SumIsCharged

\* A new reservation adds its size to its owner's sum and to no other.
LEMMA SumOfInsert ==
  ASSUME NEW F \in SUBSET Upload, NEW R \in SUBSET Upload,
         NEW u \in Upload, u \notin R, NEW o \in User
  PROVE  Sum(F, R \cup {u}, o)
           = IF Owner[u] = o THEN Sum(F, R, o) + Size[u] ELSE Sum(F, R, o)
<1>1. CASE Owner[u] = o
  <2>1. OwnedBy(R \cup {u}, o) = OwnedBy(R, o) \cup {u}
    BY <1>1 DEF OwnedBy
  <2>2. Bytes(OwnedBy(R \cup {u}, o)) = Bytes(OwnedBy(R, o)) + Bytes({u})
    BY <2>1, BytesUnion DEF OwnedBy
  <2>3. Bytes(OwnedBy(R, o)) \in Nat /\ Bytes(OwnedBy(F, o)) \in Nat
    BY BytesNat DEF OwnedBy
  <2>4. Bytes({u}) = Size[u] /\ Size[u] \in Nat
    BY BytesSingle, QuotaAssumption
  <2> QED BY <1>1, <2>2, <2>3, <2>4 DEF Sum
<1>2. CASE Owner[u] # o
  <2>1. OwnedBy(R \cup {u}, o) = OwnedBy(R, o)
    BY <1>2 DEF OwnedBy
  <2> QED BY <1>2, <2>1 DEF Sum
<1> QED BY <1>1, <1>2

-----------------------------------------------------------------------------
(***************************************************************************)
(* The inductive invariant.                                                *)
(***************************************************************************)

\* ReserveUpload holds the user's row from its first statement on.
HoldsLock ==
  \A u \in Upload : stage[u] \in InReservation => lock[Owner[u]] = u

\* An upload is charged once, and only after its reservation.
ChargedOnce ==
  /\ files \cap reservations = {}
  /\ \A u \in files \cup reservations :
       stage[u] \notin {"start", "locked", "checked"}

\* What a transaction has read is still an upper bound when it inserts.
SeenBounds ==
  \A u \in Upload :
    stage[u] = "checked" =>
      Sum(files, reservations, Owner[u]) <= seen[u].used + seen[u].reserved

IInv == TypeOK /\ HoldsLock /\ ChargedOnce /\ SeenBounds /\ QuotaHolds

\* The steps that insert no reservation.
Frugal ==
  \/ \E u \in Upload :
       \/ RefuseOversize(u) \/ LockUser(u) \/ ReadUsage(u) \/ RefuseQuota(u)
       \/ ReserveUploadFails(u) /\ UNCHANGED reservations
       \/ Complete(u) \/ Crash(u) \/ DeleteFile(u) \/ GrowOld(u)
  \/ StartServer

Inserts(u) ==
  /\ stage[u] = "checked"
  /\ HasRoom(u)
  /\ reservations' = reservations \cup {u}
  /\ Unlock(u)
  /\ UNCHANGED <<files, aged, seen>>
  /\ \/ Goto(u, "transfer")
     \/ Goto(u, "done")

LEMMA NextCases == Next => Frugal \/ \E u \in Upload : Inserts(u)
<1> SUFFICES ASSUME Next PROVE Frugal \/ \E u \in Upload : Inserts(u)
  OBVIOUS
<1>1. ASSUME NEW u \in Upload, InsertReservation(u) PROVE Inserts(u)
  BY <1>1 DEF InsertReservation, Inserts
<1>2. ASSUME NEW u \in Upload, ReserveUploadFails(u)
      PROVE  Inserts(u) \/ (ReserveUploadFails(u) /\ UNCHANGED reservations)
  BY <1>2 DEF ReserveUploadFails, Inserts
<1>3. ASSUME NEW u \in Upload, Reserve(u)
      PROVE  Frugal \/ Inserts(u)
  <2>1. CASE InsertReservation(u)
    BY <1>1, <2>1
  <2>2. CASE ReserveUploadFails(u)
    BY <1>2, <2>2 DEF Frugal
  <2> QED BY <1>3, <2>1, <2>2 DEF Reserve, Frugal
<1> QED BY <1>3 DEF Next, Frugal

LEMMA NextType == TypeOK /\ [Next]_vars => TypeOK'
<1> SUFFICES ASSUME TypeOK, [Next]_vars PROVE TypeOK'
  OBVIOUS
<1> USE QuotaAssumption, FaultsAssumption DEF TypeOK, Goto, Fault, Stages, Unlock
<1>1. ASSUME NEW u \in Upload, Reserve(u) PROVE TypeOK'
  <2>1. CASE RefuseOversize(u)
    BY <2>1 DEF RefuseOversize
  <2>2. CASE LockUser(u)
    BY <2>2 DEF LockUser
  <2>3. CASE ReadUsage(u)
    <3>1. UsedBytes(Owner[u]) \in Nat /\ ReservedBytes(Owner[u]) \in Nat
      BY BytesNat DEF UsedBytes, ReservedBytes, OwnedBy
    <3> QED BY <2>3, <3>1 DEF ReadUsage
  <2>4. CASE InsertReservation(u)
    BY <2>4 DEF InsertReservation
  <2>5. CASE RefuseQuota(u)
    BY <2>5 DEF RefuseQuota
  <2>6. CASE ReserveUploadFails(u)
    BY <2>6 DEF ReserveUploadFails
  <2> QED BY <1>1, <2>1, <2>2, <2>3, <2>4, <2>5, <2>6 DEF Reserve
<1>2. ASSUME NEW u \in Upload, Complete(u) PROVE TypeOK'
  <2>1. CASE UploadQuarantineFile(u)
    BY <2>1 DEF UploadQuarantineFile
  <2>2. CASE CommitReservedFile(u)
    BY <2>2 DEF CommitReservedFile, StoreAndConsume
  <2>3. CASE CommitReservedFileFails(u)
    BY <2>3 DEF CommitReservedFileFails, StoreAndConsume
  <2>4. CASE ReleaseUploadReservation(u)
    BY <2>4 DEF ReleaseUploadReservation
  <2> QED BY <1>2, <2>1, <2>2, <2>3, <2>4 DEF Complete
<1>3. ASSUME NEW u \in Upload, Crash(u) \/ DeleteFile(u) \/ GrowOld(u)
      PROVE  TypeOK'
  BY <1>3 DEF Crash, DeleteFile, GrowOld
<1>4. CASE StartServer
  BY <1>4 DEF StartServer
<1>5. CASE UNCHANGED vars
  BY <1>5 DEF vars
<1> QED BY <1>1, <1>2, <1>3, <1>4, <1>5 DEF Next

\* Steps that insert nothing keep the invariant: no user's total rises.
LEMMA FrugalKeepsIInv ==
  ASSUME IInv, TypeOK', Frugal
  PROVE  IInv'
<1> USE DEF IInv, TypeOK
<1>1. files' \cup reservations' \subseteq files \cup reservations
  BY DEF Frugal, RefuseOversize, LockUser, ReadUsage, RefuseQuota,
     ReserveUploadFails, Complete, UploadQuarantineFile, CommitReservedFile,
     CommitReservedFileFails, ReleaseUploadReservation, StoreAndConsume, Crash,
     DeleteFile, GrowOld, StartServer
<1>2. HoldsLock'
  BY QuotaAssumption, NobodyAssumption
     DEF HoldsLock, InReservation, Goto, Unlock, Frugal, RefuseOversize,
     LockUser, ReadUsage, RefuseQuota, ReserveUploadFails, Complete,
     UploadQuarantineFile, CommitReservedFile, CommitReservedFileFails,
     ReleaseUploadReservation, Crash, DeleteFile, GrowOld, StartServer
<1>3. ChargedOnce'
  BY DEF ChargedOnce, Goto, Frugal, RefuseOversize,
     LockUser, ReadUsage, RefuseQuota, ReserveUploadFails, InReservation,
     Complete, UploadQuarantineFile, CommitReservedFile, StoreAndConsume,
     CommitReservedFileFails, ReleaseUploadReservation, Crash, DeleteFile,
     GrowOld, StartServer
<1>4. \A o \in User :
        Sum(files', reservations', o) <= Sum(files, reservations, o)
  BY <1>1, <1>3, SumNeverGrows DEF ChargedOnce
<1>5. \A o \in User : /\ Sum(files, reservations, o) \in Nat
                      /\ Sum(files', reservations', o) \in Nat
  BY SumNat
<1>6. QuotaHolds'
  BY <1>4, <1>5, QuotaAssumption
     DEF QuotaHolds, Sum, UsedBytes, ReservedBytes
<1>7. \A u \in Upload : stage'[u] = "checked" =>
        \/ stage[u] = "checked" /\ seen'[u] = seen[u]
        \/ seen'[u] = [used     |-> UsedBytes(Owner[u]),
                       reserved |-> ReservedBytes(Owner[u])]
  BY DEF Goto, Frugal, RefuseOversize, LockUser, ReadUsage, RefuseQuota,
     ReserveUploadFails, Complete, UploadQuarantineFile, CommitReservedFile,
     CommitReservedFileFails, ReleaseUploadReservation, Crash, DeleteFile,
     GrowOld, StartServer
<1>8. SeenBounds'
  <2> SUFFICES ASSUME NEW u \in Upload, stage'[u] = "checked"
               PROVE  Sum(files', reservations', Owner[u])
                        <= seen'[u].used + seen'[u].reserved
    BY DEF SeenBounds
  <2>1. Sum(files, reservations, Owner[u])
          <= seen'[u].used + seen'[u].reserved
    BY <1>5, <1>7, QuotaAssumption
       DEF SeenBounds, Sum, UsedBytes, ReservedBytes
  <2>2. seen'[u].used \in Nat /\ seen'[u].reserved \in Nat
    OBVIOUS
  <2> QED BY <1>4, <1>5, <2>1, <2>2, QuotaAssumption
<1> QED BY <1>2, <1>3, <1>6, <1>8

\* The insertion keeps it too: its file fits, and no other transaction of the
\* same user is between its sums and its insertion.
LEMMA InsertKeepsIInv ==
  ASSUME IInv, TypeOK', NEW u \in Upload, Inserts(u)
  PROVE  IInv'
<1> USE DEF IInv, TypeOK
<1>1. u \notin files /\ u \notin reservations
  BY DEF ChargedOnce, Inserts
<1>2. HoldsLock'
  BY QuotaAssumption DEF HoldsLock, Inserts, InReservation, Goto, Unlock
<1>3. ChargedOnce'
  BY <1>1 DEF ChargedOnce, Inserts, Goto
<1>4. \A o \in User : Sum(files', reservations', o)
        = IF Owner[u] = o THEN Sum(files, reservations, o) + Size[u]
                          ELSE Sum(files, reservations, o)
  BY <1>1, SumOfInsert DEF Inserts
<1>5. \A o \in User : Sum(files, reservations, o) \in Nat
  BY SumNat
<1>6. /\ Size[u] \in Nat /\ Owner[u] \in User /\ Limit[Owner[u]] \in Nat
      /\ seen[u].used \in Nat /\ seen[u].reserved \in Nat
  BY QuotaAssumption
<1>7. Sum(files, reservations, Owner[u]) + Size[u] <= Limit[Owner[u]]
  BY <1>5, <1>6 DEF SeenBounds, Inserts, HasRoom
<1>8. QuotaHolds'
  BY <1>4, <1>7 DEF QuotaHolds, Sum, UsedBytes, ReservedBytes
<1>9. SeenBounds'
  <2> SUFFICES ASSUME NEW v \in Upload, stage'[v] = "checked"
               PROVE  Sum(files', reservations', Owner[v])
                        <= seen'[v].used + seen'[v].reserved
    BY DEF SeenBounds
  <2>1. v # u /\ stage[v] = "checked" /\ seen'[v] = seen[v]
    BY DEF Inserts, Goto
  <2>2. Owner[v] # Owner[u]
    BY <2>1 DEF HoldsLock, InReservation, Inserts
  <2> QED BY <1>4, <2>1, <2>2, QuotaAssumption DEF SeenBounds
<1> QED BY <1>2, <1>3, <1>8, <1>9

LEMMA InitIInv == Init => IInv
<1> SUFFICES ASSUME Init PROVE IInv
  OBVIOUS
<1>1. TypeOK /\ HoldsLock /\ ChargedOnce
  BY FaultsAssumption DEF Init, TypeOK, HoldsLock, ChargedOnce, InReservation,
     Stages
<1>2. SeenBounds
  BY DEF Init, SeenBounds
<1>3. QuotaHolds
  <2>1. \A o \in User : OwnedBy({}, o) = {}
    BY DEF OwnedBy
  <2> QED BY <2>1, BytesEmpty, QuotaAssumption
          DEF Init, QuotaHolds, UsedBytes, ReservedBytes
<1> QED BY <1>1, <1>2, <1>3 DEF IInv

LEMMA NextIInv == IInv /\ [Next]_vars => IInv'
<1> SUFFICES ASSUME IInv, [Next]_vars PROVE IInv'
  OBVIOUS
<1>1. TypeOK'
  BY NextType DEF IInv
<1>2. CASE Next
  BY <1>1, <1>2, NextCases, FrugalKeepsIInv, InsertKeepsIInv
<1>3. CASE UNCHANGED vars
  BY <1>1, <1>3 DEF vars, IInv, HoldsLock, ChargedOnce, SeenBounds, QuotaHolds,
     UsedBytes, ReservedBytes, InReservation
<1> QED BY <1>2, <1>3

THEOREM Invariance == Spec => []IInv
<1> QED BY InitIInv, NextIInv, PTL DEF Spec

\* Type correctness, for any users, uploads, sizes, limits and faults.
THEOREM TypeCorrect == Spec => []TypeOK
<1>1. IInv => TypeOK
  BY DEF IInv
<1> QED BY <1>1, Invariance, PTL

\* Concurrent uploads never overrun a user's storage allowance, although
\* only ReserveUpload takes the user's row lock.
THEOREM QuotaNeverExceeded == Spec => []QuotaHolds
<1>1. IInv => QuotaHolds
  BY DEF IInv
<1> QED BY <1>1, Invariance, PTL

-----------------------------------------------------------------------------
(***************************************************************************)
(* Refinement: a reservation is the moment an upload is charged; every     *)
(* other step keeps the account or takes uploads out of it.                *)
(***************************************************************************)

LEMMA LedgerInits == Init => Ledger!LedgerInit
BY DEF Init, Ledger!LedgerInit

\* The abstract account counts bytes as the detailed one does.
LEMMA LedgerBytes ==
  ASSUME NEW S
  PROVE  Ledger!Bytes(S) = Bytes(S)
<1>1. Ledger!Positions(S) = Positions(S)
  BY DEF Ledger!Positions, Positions
<1> QED BY <1>1 DEF Ledger!Bytes, Bytes, Ledger!Cardinality, Cardinality

\* A step without an insertion discharges what it takes away.
LEMMA FrugalDischarges ==
  ASSUME IInv, Frugal
  PROVE  \E S \in SUBSET Upload : Ledger!Discharge(S)
<1> DEFINE gone == (files \cup reservations) \ (files' \cup reservations')
<1>1. files' \cup reservations' \subseteq files \cup reservations
  BY DEF Frugal, RefuseOversize, LockUser, ReadUsage, RefuseQuota,
     ReserveUploadFails, Complete, UploadQuarantineFile, CommitReservedFile,
     CommitReservedFileFails, ReleaseUploadReservation, StoreAndConsume, Crash,
     DeleteFile, GrowOld, StartServer
<1>2. gone \in SUBSET Upload
  BY DEF IInv, TypeOK
<1>3. files' \cup reservations' = (files \cup reservations) \ gone
  BY <1>1
<1> QED BY <1>2, <1>3 DEF Ledger!Discharge

LEMMA InsertCharges ==
  ASSUME IInv, NEW u \in Upload, Inserts(u)
  PROVE  Ledger!Charge(u)
<1> USE DEF IInv, TypeOK
<1> DEFINE o == Owner[u]
<1>1. u \notin files /\ u \notin reservations
  BY DEF ChargedOnce, Inserts
<1>2. /\ OwnedBy(files \cup reservations, o) \in SUBSET Upload
      /\ OwnedBy(files \cup reservations, o) \cap {u} = {}
  BY <1>1 DEF OwnedBy
<1>3. Bytes(OwnedBy(files \cup reservations, o) \cup {u})
        = Sum(files, reservations, o) + Size[u]
  <2>1. Bytes(OwnedBy(files \cup reservations, o) \cup {u})
          = Bytes(OwnedBy(files \cup reservations, o)) + Bytes({u})
    BY <1>2, BytesUnion
  <2>2. Bytes(OwnedBy(files \cup reservations, o)) = Sum(files, reservations, o)
    BY SumIsCharged, QuotaAssumption DEF ChargedOnce
  <2> QED BY <2>1, <2>2, BytesSingle
<1>4. /\ Size[u] \in Nat /\ o \in User /\ Limit[o] \in Nat
      /\ seen[u].used \in Nat /\ seen[u].reserved \in Nat
      /\ Sum(files, reservations, o) \in Nat
  BY SumNat, QuotaAssumption
<1>5. Sum(files, reservations, o) + Size[u] <= Limit[o]
  BY <1>4 DEF SeenBounds, Inserts, HasRoom
<1>6. Bytes(OwnedBy(files \cup reservations, o) \cup {u}) <= Limit[o]
  BY <1>3, <1>5
<1>7. Ledger!Fits(u)
  <2>1. Ledger!OwnedBy(files \cup reservations, o)
          = OwnedBy(files \cup reservations, o)
    BY DEF Ledger!OwnedBy, OwnedBy
  <2> QED BY <1>6, <2>1, LedgerBytes DEF Ledger!Fits
<1>8. files' \cup reservations' = (files \cup reservations) \cup {u}
  BY DEF Inserts
<1> QED BY <1>1, <1>7, <1>8 DEF Ledger!Charge

LEMMA LedgerSteps ==
  IInv /\ [Next]_vars => [Ledger!LedgerNext]_(files \cup reservations)
<1> SUFFICES ASSUME IInv, [Next]_vars
             PROVE  [Ledger!LedgerNext]_(files \cup reservations)
  OBVIOUS
<1>1. CASE Next
  BY <1>1, NextCases, FrugalDischarges, InsertCharges DEF Ledger!LedgerNext
<1>2. CASE UNCHANGED vars
  BY <1>2 DEF vars
<1> QED BY <1>1, <1>2

\* The reservation protocol implements the atomic account, for any users,
\* uploads, sizes and limits: interleaved requests, commits, releases, crashes
\* and cleanups look like single charges that fit.
THEOREM Implementation == Spec => ImplementsLedger
<1> QED BY LedgerInits, LedgerSteps, Invariance, PTL
        DEF Spec, ImplementsLedger, Ledger!LedgerSpec

-----------------------------------------------------------------------------
(***************************************************************************)
(* Leaked reservations.                                                    *)
(***************************************************************************)

\* The set that LeakNeedsFault counts is finite, whatever Upload is.
LeaksCounted == IsFiniteSet(Leaked) /\ LeakNeedsFault

\* The steps that may leave a reservation behind.
Leaks(u) ==
  \/ ReserveUploadFails(u)
  \/ Crash(u)
  \/ ReleaseUploadReservation(u) /\ Fault("db")

LEMMA LeakCostsFault ==
  ASSUME TypeOK, NEW u \in Upload, Leaks(u)
  PROVE  (Leaked' \subseteq Leaked \cup {u} /\ faults' = faults + 1)
         \/ (Leaked' \subseteq Leaked /\ faults' >= faults)
<1> USE FaultsAssumption DEF TypeOK, Leaked, Goto, Fault
<1>1. CASE ReserveUploadFails(u)
  BY <1>1 DEF ReserveUploadFails
<1>2. CASE Crash(u)
  BY <1>2 DEF Crash
<1>3. CASE ReleaseUploadReservation(u) /\ Fault("db")
  BY <1>3 DEF ReleaseUploadReservation
<1> QED BY <1>1, <1>2, <1>3 DEF Leaks

\* Refusals come before the reservation; a commit consumes it, a release
\* deletes it.
LEMMA OthersLeakNothing ==
  ASSUME TypeOK, ChargedOnce, [Next]_vars, ~ \E u \in Upload : Leaks(u)
  PROVE  Leaked' \subseteq Leaked /\ faults' >= faults
<1> USE FaultsAssumption DEF TypeOK, Leaked, Goto, Fault
<1>1. ASSUME NEW u \in Upload, Reserve(u)
      PROVE  Leaked' \subseteq Leaked /\ faults' >= faults
  BY <1>1 DEF Reserve, RefuseOversize, LockUser, ReadUsage, InsertReservation, RefuseQuota,
              ChargedOnce, Leaks
<1>2. ASSUME NEW u \in Upload, Complete(u)
      PROVE  Leaked' \subseteq Leaked /\ faults' >= faults
  <2>1. CASE ReleaseUploadReservation(u)
    <3>1. reservations' = reservations \ {u} /\ faults' = faults /\ stage' = [stage EXCEPT ![u] = "done"]
      BY <2>1 DEF ReleaseUploadReservation, Leaks
    <3> QED BY <3>1
  <2>2. CASE UploadQuarantineFile(u) \/ CommitReservedFile(u) \/ CommitReservedFileFails(u)
    BY <2>2 DEF UploadQuarantineFile, CommitReservedFile, CommitReservedFileFails,
                StoreAndConsume
  <2> QED BY <1>2, <2>1, <2>2 DEF Complete
<1>3. ASSUME NEW u \in Upload, DeleteFile(u) \/ GrowOld(u)
      PROVE  Leaked' \subseteq Leaked /\ faults' >= faults
  BY <1>3 DEF DeleteFile, GrowOld
<1>4. CASE StartServer \/ UNCHANGED vars
  BY <1>4 DEF StartServer, vars
<1>5. \A u \in Upload : ~ Crash(u)
  BY DEF Leaks
<1> QED BY <1>1, <1>2, <1>3, <1>4, <1>5 DEF Next

LEMMA NextCounted ==
  ASSUME TypeOK, ChargedOnce, LeaksCounted, [Next]_vars
  PROVE  LeaksCounted'
<1> USE DEF LeaksCounted, LeakNeedsFault
<1>1. faults \in Nat /\ Cardinality(Leaked) \in Nat
  BY FaultsAssumption, FS_CardinalityType DEF TypeOK
<1>2. CASE Leaked' \subseteq Leaked /\ faults' >= faults
  <2>1. IsFiniteSet(Leaked') /\ Cardinality(Leaked') <= Cardinality(Leaked)
    BY <1>2, FS_Subset
  <2>2. faults' \in Nat /\ Cardinality(Leaked') \in Nat
    BY <2>1, NextType, FaultsAssumption, FS_CardinalityType DEF TypeOK
  <2> QED BY <1>1, <1>2, <2>1, <2>2
<1>3. ASSUME NEW u \in Upload, Leaked' \subseteq Leaked \cup {u}, faults' = faults + 1
      PROVE  LeaksCounted'
  <2>1. /\ IsFiniteSet(Leaked \cup {u})
        /\ Cardinality(Leaked \cup {u}) \in {Cardinality(Leaked), Cardinality(Leaked) + 1}
    BY FS_AddElement
  <2>2. IsFiniteSet(Leaked') /\ Cardinality(Leaked') <= Cardinality(Leaked \cup {u})
    BY <1>3, <2>1, FS_Subset
  <2>3. Cardinality(Leaked') \in Nat
    BY <2>2, FS_CardinalityType
  <2> QED BY <1>1, <1>3, <2>1, <2>2, <2>3
<1> QED BY <1>2, <1>3, LeakCostsFault, OthersLeakNothing

\* LeakNeedsFault: whatever fails on the way, UploadFile leaves no more
\* reservations behind than there were faults.
THEOREM LeaksAreFaults == Spec => []LeakNeedsFault
<1>1. Init => LeaksCounted
  <2> SUFFICES ASSUME Init PROVE LeaksCounted
    OBVIOUS
  <2>1. Leaked = {} /\ faults = 0
    BY DEF Init, Leaked
  <2> QED BY <2>1, FS_EmptySet DEF LeaksCounted, LeakNeedsFault
<1>2. IInv /\ LeaksCounted /\ [Next]_vars => LeaksCounted'
  BY NextCounted DEF IInv
<1>3. LeaksCounted => LeakNeedsFault
  BY DEF LeaksCounted
<1> QED BY <1>1, <1>2, <1>3, Invariance, PTL DEF Spec
=============================================================================

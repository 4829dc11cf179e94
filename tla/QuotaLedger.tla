---------------------------- MODULE QuotaLedger ----------------------------
(***************************************************************************)
(* What the storage quota promises: an account in which every upload is    *)
(* charged in one step, and only if the owner's bytes stay within the      *)
(* limit.  Used as the abstract specification of UploadQuota.              *)
(***************************************************************************)
EXTENDS QuotaBytes

VARIABLE charged    \* the uploads that count against their owner's quota

Fits(u) == Bytes(OwnedBy(charged, Owner[u]) \cup {u}) <= Limit[Owner[u]]

LedgerInit == charged = {}

Charge(u) ==
  /\ u \notin charged
  /\ Fits(u)
  /\ charged' = charged \cup {u}

\* Released, expired or deleted uploads leave the account.
Discharge(S) == charged' = charged \ S

LedgerNext ==
  \/ \E u \in Upload : Charge(u)
  \/ \E S \in SUBSET Upload : Discharge(S)

LedgerSpec == LedgerInit /\ [][LedgerNext]_charged
=============================================================================

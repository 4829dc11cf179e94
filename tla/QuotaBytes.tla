----------------------------- MODULE QuotaBytes -----------------------------
(***************************************************************************)
(* The constants of the storage quota and the sums it compares.  Sizes and *)
(* limits are far below 2^63: the BIGINT sums do not overflow here.        *)
(***************************************************************************)
EXTENDS Integers, FiniteSets

CONSTANTS
  User, Upload,
  Owner,       \* the user of each upload
  Size,        \* its size in bytes
  MaxSize,     \* an upper bound of the sizes
  Limit        \* MaxStorageBytes of each user's plans

ASSUME QuotaAssumption ==
  /\ IsFiniteSet(Upload)
  /\ Owner \in [Upload -> User]
  /\ MaxSize \in Nat
  /\ Size \in [Upload -> 0..MaxSize]
  /\ Limit \in [User -> Nat]

(***************************************************************************)
(* SUM(size) over a set of uploads, as the number of byte positions they   *)
(* hold together.                                                          *)
(***************************************************************************)
Positions(S) == {p \in S \X (1..MaxSize) : p[2] <= Size[p[1]]}
Bytes(S)     == Cardinality(Positions(S))

OwnedBy(S, o) == {u \in S : Owner[u] = o}
=============================================================================

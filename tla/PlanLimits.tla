---------------------------- MODULE PlanLimits ----------------------------
(***************************************************************************)
(* Service plans: the limits that the configuration accepts, their         *)
(* combination over the plan list of a user (ForPlans) and the two checks  *)
(* an upload has to pass, in integers of fixed width.  -1 is no limit.     *)
(***************************************************************************)
EXTENDS Integers, Sequences

CONSTANTS
  Plan, Unknown,     \* configured plan names, a name that is not configured
  MaxList,           \* bound on the length of a user's plan list
  Configured,        \* the numbers of MiB that the configuration tries
  Mebibyte, Overhead, MaxInt,  \* 2^20, multipartOverheadBytes, 2^63 - 1
  Bytes              \* file sizes and sums that a request may meet

ASSUME WidthAssumption ==
  /\ Mebibyte \in Nat \ {0} /\ Overhead \in Nat /\ MaxInt \in Nat \ {0}
  /\ Overhead < MaxInt - 1
ASSUME InputAssumption ==
  Configured \subseteq Int /\ Bytes \subseteq 0..MaxInt /\ Unknown \notin Plan
    /\ MaxList \in Nat

VARIABLES
  hard,        \* the system limits
  catalog,     \* the limits of each plan
  mebibytes,   \* ghost: the limits as configured
  list, seen,  \* the rest of the user's plans, those that were combined
  assigned,    \* ghost: the whole list
  limits,      \* combined and then effective
  stage,
  size,        \* of the file
  usage        \* the sums that the reservation has read

config == <<hard, catalog, mebibytes>>
vars == <<config, list, seen, assigned, limits, stage, size, usage>>

Unlimited == -1
Limit     == {Unlimited} \cup 1..MaxInt
Pair(S)   == [storage : S, file : S]

Stages == {"combine", "limits", "reserve", "read", "reserved", "tooLarge", "noSpace",
           "error"}

TypeOK ==
  /\ hard \in Pair(Limit)
  /\ catalog \in [Plan -> Pair(Limit)]
  /\ list \in Seq(Plan \cup {Unknown})
  /\ seen \subseteq Plan
  /\ limits \in Pair(Limit \cup {0})
  /\ stage \in Stages
  /\ size \in 0..MaxInt
  /\ usage \in [used : 0..MaxInt, reserved : 0..MaxInt]

(***************************************************************************)
(* int64.                                                                  *)
(***************************************************************************)
Wrap(x) == ((x + MaxInt + 1) % (2 * (MaxInt + 1))) - (MaxInt + 1)

----------------------------------------------------------------------------
(***************************************************************************)
(* What the configuration accepts.                                         *)
(***************************************************************************)

\* Mutant: a number of MiB only has to be positive.
IsPositiveNumber(v) == v = Unlimited \/ v > 0

\* mebibytesOrMaxValue.
IsMebibytes(v) == v = Unlimited \/ (v > 0 /\ v <= MaxInt \div Mebibyte)
ToBytes(v)     == IF v = Unlimited THEN Unlimited ELSE Wrap(v * Mebibyte)

IsPositive(l) == l = Unlimited \/ l > 0

\* Mutant: the size of the HTTP body is not considered.
AnySystemLimits(l) ==
  /\ IsPositive(l.storage) /\ IsPositive(l.file)
  /\ l.storage # Unlimited => l.file <= l.storage

IsSystemLimits(l) ==
  /\ IsPositive(l.storage) /\ IsPositive(l.file)
  /\ l.storage # Unlimited => l.file <= l.storage
  /\ l.file <= MaxInt - Overhead - 1

\* NewUserLimits, and the comparison of NewUserLimitSet with the system's.
IsPlanLimits(l, system) ==
  /\ IsPositive(l.storage) /\ IsPositive(l.file)
  /\ l.storage # Unlimited => l.file <= l.storage
  /\ system.storage # Unlimited => l.storage <= system.storage
  /\ system.file # Unlimited => l.file <= system.file

Accepted   == {v \in Configured : IsMebibytes(v)}
InBytes(l) == [storage |-> ToBytes(l.storage), file |-> ToBytes(l.file)]

RequestBodyLimit ==
  IF hard.file = Unlimited THEN MaxInt - 1 ELSE Wrap(hard.file + Overhead)

Init ==
  /\ mebibytes \in [hard : Pair(Accepted), plans : [Plan -> Pair(Accepted)]]
  /\ hard = InBytes(mebibytes.hard)
  /\ IsSystemLimits(hard)
  /\ catalog = [p \in Plan |-> InBytes(mebibytes.plans[p])]
  /\ \A p \in Plan : IsPlanLimits(catalog[p], hard)
  /\ assigned \in UNION {[1..n -> Plan \cup {Unknown}] : n \in 0..MaxList}
  /\ list = assigned
  /\ seen = {}
  /\ limits = [storage |-> 0, file |-> 0]
  /\ stage = "combine"
  /\ size = 0
  /\ usage = [used |-> 0, reserved |-> 0]

----------------------------------------------------------------------------
(***************************************************************************)
(* ForPlans.                                                               *)
(***************************************************************************)

RejectEmptyList ==
  /\ stage = "combine"
  /\ list = <<>> /\ seen = {}
  /\ stage' = "error"
  /\ UNCHANGED <<config, list, seen, assigned, limits, size, usage>>

SkipDuplicate ==
  /\ stage = "combine"
  /\ list # <<>>
  /\ Head(list) \in seen
  /\ list' = Tail(list)
  /\ UNCHANGED <<config, seen, assigned, limits, stage, size, usage>>

\* Mutant: a plan that is not configured is passed over.
IgnoreUnknown ==
  /\ stage = "combine"
  /\ list # <<>>
  /\ Head(list) = Unknown
  /\ list' = Tail(list)
  /\ seen' = seen \cup {Unknown}
  /\ UNCHANGED <<config, assigned, limits, stage, size, usage>>

RejectUnknown ==
  /\ stage = "combine"
  /\ list # <<>>
  /\ Head(list) = Unknown
  /\ stage' = "error"
  /\ UNCHANGED <<config, list, seen, assigned, limits, size, usage>>

\* Mutant: -1 is compared like any other number.
LargerNumber(old, new) == IF new > old THEN new ELSE old

Raise(old, new) ==
  IF new = Unlimited \/ (old # Unlimited /\ new > old) THEN new ELSE old

CombinePlan ==
  /\ stage = "combine"
  /\ list # <<>>
  /\ LET plan == Head(list)
     IN  /\ plan \in Plan \ seen
         /\ seen' = seen \cup {plan}
         /\ limits' = [storage |-> Raise(limits.storage, catalog[plan].storage),
                       file    |-> Raise(limits.file, catalog[plan].file)]
  /\ list' = Tail(list)
  /\ UNCHANGED <<config, assigned, stage, size, usage>>

MinimumLimit(first, second) ==
  IF first = Unlimited THEN second
  ELSE IF second = Unlimited \/ first < second THEN first ELSE second

EffectiveLimits(l) ==
  LET storage == MinimumLimit(l.storage, hard.storage)
  IN  [storage |-> storage,
       file    |-> MinimumLimit(MinimumLimit(l.file, hard.file), storage)]

Conclude ==
  /\ stage = "combine"
  /\ list = <<>> /\ seen # {}
  /\ limits' = EffectiveLimits(limits)
  /\ stage' = "limits"
  /\ UNCHANGED <<config, list, seen, assigned, size, usage>>

----------------------------------------------------------------------------
(***************************************************************************)
(* UploadFile and the comparison in reserveUpload.                         *)
(***************************************************************************)

AllowsFile(s) == s >= 0 /\ (limits.file = Unlimited \/ s <= limits.file)

CheckFile(s) ==
  /\ stage = "limits"
  /\ size' = s
  /\ stage' = IF AllowsFile(s) THEN "reserve" ELSE "tooLarge"
  /\ UNCHANGED <<config, list, seen, assigned, limits, usage>>

MaxStorageBytes == IF limits.storage = Unlimited THEN MaxInt ELSE limits.storage

NeverFits == MaxStorageBytes <= 0 \/ size > MaxStorageBytes

\* Mutant: the sum is compared with the limit.
SumFits == Wrap(Wrap(usage.used + usage.reserved) + size) <= MaxStorageBytes

HasRoom ==
  LET remainingAfterFile == Wrap(MaxStorageBytes - size)
  IN  /\ usage.used <= remainingAfterFile
      /\ usage.reserved <= Wrap(remainingAfterFile - usage.used)

\* The refusal before the transaction, or the transaction's query.
ReadUsage(used, reserved) ==
  /\ stage = "reserve"
  /\ usage' = IF NeverFits THEN usage ELSE [used |-> used, reserved |-> reserved]
  /\ stage' = IF NeverFits THEN "noSpace" ELSE "read"
  /\ UNCHANGED <<config, list, seen, assigned, limits, size>>

ReserveUpload ==
  /\ stage = "read"
  /\ stage' = IF HasRoom THEN "reserved" ELSE "noSpace"
  /\ UNCHANGED <<config, list, seen, assigned, limits, size, usage>>

Next ==
  \/ RejectEmptyList
  \/ SkipDuplicate
  \/ RejectUnknown
  \/ CombinePlan
  \/ Conclude
  \/ \E s \in Bytes : CheckFile(s)
  \/ \E used, reserved \in Bytes : ReadUsage(used, reserved)
  \/ ReserveUpload

Spec == Init /\ [][Next]_vars

----------------------------------------------------------------------------

(***************************************************************************)
(* The reference definition, in unbounded integers: no limit is greater    *)
(* than every number.                                                      *)
(***************************************************************************)
Value(l)   == IF l = Unlimited THEN MaxInt + 1 ELSE l
Exact(v)   == IF v = Unlimited THEN MaxInt + 1 ELSE v * Mebibyte
Best(S)    == CHOOSE v \in S : \A w \in S : w <= v
Least(S)   == CHOOSE v \in S : \A w \in S : v <= w
Assigned   == {assigned[i] : i \in DOMAIN assigned}
BestStorage == Best({Exact(mebibytes.plans[p].storage) : p \in Assigned})
BestFile    == Best({Exact(mebibytes.plans[p].file) : p \in Assigned})

\* "the highest value for each limit wins, with -1 taking precedence";
\* "capped by any finite system ceilings, and the effective file limit is
\* also capped by the storage quota": whatever the order and the repetitions
\* in the list, and with no product of MiB and bytes that wraps.
LimitsAreBest ==
  stage \notin {"combine", "error"} =>
    /\ Assigned \subseteq Plan
    /\ Value(limits.storage) = Least({Exact(mebibytes.hard.storage), BestStorage})
    /\ Value(limits.file) = Least({Exact(mebibytes.hard.file), BestFile,
                                    Value(limits.storage)})

\* The reservation is made exactly when the file and everything the user
\* has stored or reserved fit together, although a sum may exceed int64.
AdmissionIsExact ==
  stage \in {"reserved", "noSpace"} =>
    (stage = "reserved" <=> usage.used + usage.reserved + size <= MaxStorageBytes)

\* The HTTP server's body limit does not overflow, leaves it a spare byte and
\* lets every allowed file through with its multipart envelope.
BodyLimitSuffices ==
  /\ RequestBodyLimit \in 1..MaxInt - 1
  /\ hard.file # Unlimited /\ stage = "reserve"
       => size + Overhead <= RequestBodyLimit
=============================================================================

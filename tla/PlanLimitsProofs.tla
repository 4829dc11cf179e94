-------------------------- MODULE PlanLimitsProofs --------------------------
(***************************************************************************)
(* Proofs for any plans and plan lists, any configuration and integers of  *)
(* any width: ForPlans computes the best limits, the comparison of the     *)
(* reservation is exact, and no sum or product wraps.                      *)
(***************************************************************************)
EXTENDS PlanLimits, TLAPS

Rest == {list[i] : i \in DOMAIN list}

\* v is the limit that ForPlans should have after the plans seen so far.
IsHighest(v, S) == v \in S /\ \A w \in S : w <= v

StorageValues(P) == {Value(catalog[p].storage) : p \in P}
FileValues(P)    == {Value(catalog[p].file) : p \in P}

\* The limits are the best of the plans combined, the first of which replaces
\* the zeros that are less than any limit.
LoopInv ==
  stage = "combine" =>
    /\ Assigned = seen \cup Rest
    /\ seen = {} => limits = [storage |-> 0, file |-> 0]
    /\ seen # {} => /\ IsHighest(Value(limits.storage), StorageValues(seen))
                    /\ IsHighest(Value(limits.file), FileValues(seen))

Concluded == stage \notin {"combine", "error"}

\* What later steps need of the limits that come out.
EffectiveInv ==
  /\ IsSystemLimits(hard)
  /\ seen # {} \/ Concluded => limits \in Pair(Limit)
  /\ Concluded /\ hard.file # Unlimited => limits.file # Unlimited /\ limits.file <= hard.file
  /\ stage = "reserve" => AllowsFile(size)
  /\ stage = "read" => ~ NeverFits

\* No limit has wrapped on its way from MiB to bytes.
IsExact(l, mib) ==
  Value(l.storage) = Exact(mib.storage) /\ Value(l.file) = Exact(mib.file)

ConfigExact ==
  /\ IsExact(hard, mebibytes.hard)
  /\ \A p \in Plan : IsExact(catalog[p], mebibytes.plans[p])

IInv ==
  /\ TypeOK
  /\ ConfigExact
  /\ LoopInv
  /\ LimitsAreBest
  /\ EffectiveInv
  /\ AdmissionIsExact

USE WidthAssumption, InputAssumption DEF config

----------------------------------------------------------------------------
(***************************************************************************)
(* Integers that do not wrap.                                              *)
(***************************************************************************)

LEMMA RemainderOfLess ==
  ASSUME NEW n \in Nat \ {0}, NEW x \in 0..(n - 1)
  PROVE  x % n = x
OBVIOUS

LEMMA WrapOfFitting ==
  ASSUME NEW x \in Int, - MaxInt - 1 <= x, x <= MaxInt
  PROVE  Wrap(x) = x
<1>1. x + MaxInt + 1 \in 0..(2 * (MaxInt + 1) - 1)
  OBVIOUS
<1>2. (x + MaxInt + 1) % (2 * (MaxInt + 1)) = x + MaxInt + 1
  BY <1>1, RemainderOfLess
<1> QED BY <1>2 DEF Wrap

LEMMA QuotientTimes ==
  ASSUME NEW a \in Nat, NEW b \in Nat \ {0}
  PROVE  (a \div b) \in Nat /\ (a \div b) * b <= a
OBVIOUS

LEMMA ProductsGrow ==
  ASSUME NEW a \in Nat, NEW b \in Nat, NEW c \in Nat, a <= b
  PROVE  a * c <= b * c
OBVIOUS

\* A number of MiB that the configuration accepts is a limit in bytes.
LEMMA ToBytesIsExact ==
  ASSUME NEW v \in Int, IsMebibytes(v)
  PROVE  ToBytes(v) \in Limit /\ Value(ToBytes(v)) = Exact(v)
<1>1. CASE v = Unlimited
  BY <1>1 DEF ToBytes, Limit, Value, Exact
<1>2. CASE v # Unlimited
  <2>1. v \in Nat \ {0} /\ v <= MaxInt \div Mebibyte
    BY <1>2 DEF IsMebibytes
  <2>2. v * Mebibyte <= (MaxInt \div Mebibyte) * Mebibyte
    BY <2>1, QuotientTimes, ProductsGrow
  <2>3. (MaxInt \div Mebibyte) * Mebibyte <= MaxInt
        /\ (MaxInt \div Mebibyte) * Mebibyte \in Int
    BY QuotientTimes
  <2>4. v * Mebibyte \in Nat /\ 1 * Mebibyte <= v * Mebibyte
    BY <2>1, ProductsGrow
  <2>5. v * Mebibyte \in 1..MaxInt
    BY <2>2, <2>3, <2>4
  <2>6. Wrap(v * Mebibyte) = v * Mebibyte
    BY <2>5, WrapOfFitting
  <2> QED BY <1>2, <2>5, <2>6 DEF ToBytes, Limit, Value, Exact, Unlimited
<1> QED BY <1>1, <1>2

LEMMA InBytesIsExact ==
  ASSUME NEW l \in Pair(Accepted)
  PROVE  InBytes(l) \in Pair(Limit) /\ IsExact(InBytes(l), l)
<1>1. /\ l.storage \in Int /\ IsMebibytes(l.storage)
      /\ l.file \in Int /\ IsMebibytes(l.file)
  BY DEF Pair, Accepted
<1> QED BY <1>1, ToBytesIsExact DEF InBytes, IsExact, Pair

----------------------------------------------------------------------------
(***************************************************************************)
(* The reference definition.                                               *)
(***************************************************************************)

LEMMA ValuesAreInts ==
  ASSUME NEW l \in Limit \cup {0}
  PROVE  Value(l) \in 0..(MaxInt + 1)
BY DEF Value, Limit, Unlimited

LEMMA BestIsHighest ==
  ASSUME NEW S \in SUBSET Int, NEW v, IsHighest(v, S)
  PROVE  Best(S) = v
<1>1. Best(S) \in S /\ \A w \in S : w <= Best(S)
  BY DEF Best, IsHighest
<1>2. Best(S) \in Int /\ v \in Int /\ v <= Best(S) /\ Best(S) <= v
  BY <1>1 DEF IsHighest
<1> QED BY <1>2

LEMMA LeastOf ==
  ASSUME NEW S \in SUBSET Int, NEW v \in S, \A w \in S : v <= w
  PROVE  Least(S) = v
<1>1. Least(S) \in S /\ \A w \in S : Least(S) <= w
  BY DEF Least
<1>2. Least(S) \in Int /\ v \in Int /\ v <= Least(S) /\ Least(S) <= v
  BY <1>1
<1> QED BY <1>2

LEMMA RaiseIsHighest ==
  ASSUME NEW old \in Limit \cup {0}, NEW new \in Limit
  PROVE  /\ Raise(old, new) \in Limit
         /\ Value(Raise(old, new)) \in {Value(old), Value(new)}
         /\ Value(old) <= Value(Raise(old, new)) /\ Value(new) <= Value(Raise(old, new))
         /\ old = 0 => Raise(old, new) = new
BY DEF Raise, Value, Limit, Unlimited

LEMMA MinimumIsLeast ==
  ASSUME NEW a \in Limit, NEW b \in Limit
  PROVE  /\ MinimumLimit(a, b) \in Limit
         /\ Value(MinimumLimit(a, b)) \in {Value(a), Value(b)}
         /\ Value(MinimumLimit(a, b)) <= Value(a) /\ Value(MinimumLimit(a, b)) <= Value(b)
BY DEF MinimumLimit, Value, Limit, Unlimited

LEMMA HeadAndTail ==
  ASSUME list \in Seq(Plan \cup {Unknown}), list # <<>>
  PROVE  /\ Head(list) \in Plan \cup {Unknown}
         /\ Tail(list) \in Seq(Plan \cup {Unknown})
         /\ Rest = {Head(list)} \cup {Tail(list)[i] : i \in DOMAIN Tail(list)}
<1>1. Len(list) \in Nat \ {0} /\ DOMAIN list = 1..Len(list) /\ Head(list) = list[1]
  OBVIOUS
<1>2. /\ Tail(list) \in Seq(Plan \cup {Unknown}) /\ Len(Tail(list)) = Len(list) - 1
      /\ DOMAIN Tail(list) = 1..(Len(list) - 1)
      /\ \A i \in 1..(Len(list) - 1) : Tail(list)[i] = list[i + 1]
  OBVIOUS
<1>3. Rest \subseteq {Head(list)} \cup {Tail(list)[i] : i \in DOMAIN Tail(list)}
  <2>1. ASSUME NEW i \in DOMAIN list
        PROVE  list[i] \in {Head(list)} \cup {Tail(list)[j] : j \in DOMAIN Tail(list)}
    <3>1. CASE i = 1
      BY <1>1, <3>1
    <3>2. CASE i # 1
      <4>1. i - 1 \in DOMAIN Tail(list) /\ Tail(list)[i - 1] = list[i]
        BY <1>1, <1>2, <2>1, <3>2
      <4> QED BY <4>1
    <3> QED BY <3>1, <3>2
  <2> QED BY <2>1 DEF Rest
<1>4. {Head(list)} \cup {Tail(list)[i] : i \in DOMAIN Tail(list)} \subseteq Rest
  <2>1. Head(list) \in Rest
    BY <1>1 DEF Rest
  <2>2. ASSUME NEW i \in DOMAIN Tail(list)
        PROVE  Tail(list)[i] \in Rest
    <3>1. i + 1 \in DOMAIN list /\ Tail(list)[i] = list[i + 1]
      BY <1>1, <1>2, <2>2
    <3> QED BY <3>1 DEF Rest
  <2> QED BY <2>1, <2>2
<1>5. Head(list) \in Plan \cup {Unknown}
  BY <1>1
<1> QED BY <1>2, <1>3, <1>4, <1>5

----------------------------------------------------------------------------
(***************************************************************************)
(* ForPlans.                                                               *)
(***************************************************************************)

LEMMA CombineTypes ==
  ASSUME TypeOK, RejectEmptyList \/ SkipDuplicate \/ RejectUnknown \/ CombinePlan
  PROVE  TypeOK'
<1>1. list # <<>> => Tail(list) \in Seq(Plan \cup {Unknown})
  BY HeadAndTail DEF TypeOK
<1>2. CASE RejectEmptyList \/ SkipDuplicate \/ RejectUnknown
  BY <1>1, <1>2 DEF TypeOK, RejectEmptyList, SkipDuplicate, RejectUnknown, Stages
<1>3. CASE CombinePlan
  <2>1. limits'.storage \in Limit /\ limits'.file \in Limit
        /\ limits' = [storage |-> limits'.storage, file |-> limits'.file]
    BY <1>3, RaiseIsHighest DEF TypeOK, CombinePlan, Pair
  <2> QED BY <1>1, <1>3, <2>1 DEF TypeOK, CombinePlan, Stages, Pair
<1> QED BY <1>2, <1>3

LEMMA CombineKeepsLoop ==
  ASSUME TypeOK, LoopInv, EffectiveInv,
         RejectEmptyList \/ SkipDuplicate \/ RejectUnknown \/ CombinePlan
  PROVE  /\ LoopInv'
         /\ seen' # {} => limits' \in Pair(Limit)
<1>1. stage = "combine"
  BY DEF RejectEmptyList, SkipDuplicate, RejectUnknown, CombinePlan
<1>2. CASE RejectEmptyList \/ RejectUnknown
  BY <1>2 DEF RejectEmptyList, RejectUnknown, LoopInv, EffectiveInv, Pair
<1>3. CASE SkipDuplicate
  <2>1. Rest = {Head(list)} \cup Rest' /\ Head(list) \in seen
    BY <1>3, HeadAndTail DEF SkipDuplicate, TypeOK, Rest
  <2>2. Assigned' = seen \cup Rest'
    BY <1>1, <1>3, <2>1 DEF SkipDuplicate, LoopInv, Assigned
  <2> QED BY <1>1, <1>3, <2>2 DEF SkipDuplicate, LoopInv, EffectiveInv, StorageValues,
             FileValues, Value, IsHighest, Pair
<1>4. CASE CombinePlan
  <2> DEFINE plan == Head(list)
             new  == catalog[plan]
  <2>1. /\ plan \in Plan \ seen /\ seen' = seen \cup {plan}
        /\ limits' = [storage |-> Raise(limits.storage, new.storage),
                      file    |-> Raise(limits.file, new.file)]
        /\ list # <<>> /\ list' = Tail(list)
        /\ UNCHANGED <<catalog, assigned, stage>>
    BY <1>4 DEF CombinePlan
  <2>2. Rest = {plan} \cup Rest'
    BY <2>1, HeadAndTail DEF TypeOK, Rest
  <2>3. Assigned' = seen' \cup Rest'
    BY <1>1, <2>1, <2>2 DEF LoopInv, Assigned
  <2>4. /\ new.storage \in Limit /\ new.file \in Limit
        /\ limits.storage \in Limit \cup {0} /\ limits.file \in Limit \cup {0}
    BY <2>1 DEF TypeOK, Pair
  <2>5. /\ StorageValues(seen') = StorageValues(seen) \cup {Value(new.storage)}
        /\ FileValues(seen') = FileValues(seen) \cup {Value(new.file)}
    BY <2>1 DEF StorageValues, FileValues
  <2>6. \A p \in Plan : /\ Value(catalog[p].storage) \in Int
                        /\ Value(catalog[p].file) \in Int
    BY ValuesAreInts DEF TypeOK, Pair
  <2>7. StorageValues(seen) \subseteq Int /\ FileValues(seen) \subseteq Int
    BY <2>6 DEF TypeOK, StorageValues, FileValues
  <2>8. limits'.storage = Raise(limits.storage, new.storage)
        /\ limits'.file = Raise(limits.file, new.file)
    BY <2>1
  <2>9. IsHighest(Value(limits'.storage), StorageValues(seen'))
    <3>1. CASE seen = {}
      <4>1. limits'.storage = new.storage /\ StorageValues(seen') = {Value(new.storage)}
        BY <1>1, <2>4, <2>5, <2>8, <3>1, RaiseIsHighest DEF LoopInv, StorageValues
      <4> QED BY <4>1, <2>4, ValuesAreInts DEF IsHighest
    <3>2. CASE seen # {}
      <4>1. IsHighest(Value(limits.storage), StorageValues(seen))
        BY <1>1, <3>2 DEF LoopInv
      <4>2. /\ Value(limits'.storage) \in {Value(limits.storage), Value(new.storage)}
            /\ Value(limits.storage) <= Value(limits'.storage)
            /\ Value(new.storage) <= Value(limits'.storage)
        BY <2>4, <2>8, RaiseIsHighest
      <4>3. Value(limits.storage) \in Int /\ Value(new.storage) \in Int
        BY <2>4, ValuesAreInts
      <4> QED BY <2>5, <2>7, <4>1, <4>2, <4>3 DEF IsHighest
    <3> QED BY <3>1, <3>2
  <2>10. IsHighest(Value(limits'.file), FileValues(seen'))
    <3>1. CASE seen = {}
      <4>1. limits'.file = new.file /\ FileValues(seen') = {Value(new.file)}
        BY <1>1, <2>4, <2>5, <2>8, <3>1, RaiseIsHighest DEF LoopInv, FileValues
      <4> QED BY <4>1, <2>4, ValuesAreInts DEF IsHighest
    <3>2. CASE seen # {}
      <4>1. IsHighest(Value(limits.file), FileValues(seen))
        BY <1>1, <3>2 DEF LoopInv
      <4>2. /\ Value(limits'.file) \in {Value(limits.file), Value(new.file)}
            /\ Value(limits.file) <= Value(limits'.file)
            /\ Value(new.file) <= Value(limits'.file)
        BY <2>4, <2>8, RaiseIsHighest
      <4>3. Value(limits.file) \in Int /\ Value(new.file) \in Int
        BY <2>4, ValuesAreInts
      <4> QED BY <2>5, <2>7, <4>1, <4>2, <4>3 DEF IsHighest
    <3> QED BY <3>1, <3>2
  <2>11. limits' \in Pair(Limit)
    BY <2>1, <2>4, RaiseIsHighest DEF Pair
  <2>12. /\ Value(limits.storage)' = Value(limits'.storage)
         /\ Value(limits.file)' = Value(limits'.file)
         /\ StorageValues(seen)' = StorageValues(seen')
         /\ FileValues(seen)' = FileValues(seen')
    BY <2>1 DEF Value, StorageValues, FileValues
  <2> QED BY <2>1, <2>3, <2>9, <2>10, <2>11, <2>12 DEF LoopInv, IsHighest
<1> QED BY <1>2, <1>3, <1>4

LEMMA ConcludeIsBest ==
  ASSUME TypeOK, ConfigExact, LoopInv, EffectiveInv, Conclude
  PROVE  LimitsAreBest' /\ EffectiveInv' /\ TypeOK'
<1>1. /\ stage = "combine" /\ list = <<>> /\ seen # {} /\ stage' = "limits"
      /\ limits' = EffectiveLimits(limits)
      /\ UNCHANGED <<config, list, seen, assigned, size, usage>>
  BY DEF Conclude
<1>2. Rest = {}
  BY <1>1 DEF Rest
<1>3. Assigned = seen /\ seen \subseteq Plan
  BY <1>1, <1>2 DEF LoopInv, TypeOK
<1>4. StorageValues(seen) \subseteq Int /\ FileValues(seen) \subseteq Int
  <2>1. \A p \in Plan : /\ Value(catalog[p].storage) \in Int
                        /\ Value(catalog[p].file) \in Int
    BY ValuesAreInts DEF TypeOK, Pair
  <2> QED BY <1>3, <2>1 DEF StorageValues, FileValues
<1>5. BestStorage = Value(limits.storage) /\ BestFile = Value(limits.file)
  <2>1. /\ IsHighest(Value(limits.storage), StorageValues(seen))
        /\ IsHighest(Value(limits.file), FileValues(seen))
    BY <1>1 DEF LoopInv
  <2>2. /\ Best(StorageValues(seen)) = Value(limits.storage)
        /\ Best(FileValues(seen)) = Value(limits.file)
    BY <1>4, <2>1, BestIsHighest
  <2>3. /\ StorageValues(seen) = {Exact(mebibytes.plans[p].storage) : p \in seen}
        /\ FileValues(seen) = {Exact(mebibytes.plans[p].file) : p \in seen}
    BY <1>3 DEF StorageValues, FileValues, ConfigExact, IsExact
  <2> QED BY <1>3, <2>2, <2>3 DEF BestStorage, BestFile
<1>6. /\ limits.storage \in Limit /\ limits.file \in Limit
      /\ hard.storage \in Limit /\ hard.file \in Limit
  BY <1>1 DEF EffectiveInv, TypeOK, Pair
<1> DEFINE storage == MinimumLimit(limits.storage, hard.storage)
           most    == MinimumLimit(limits.file, hard.file)
           file    == MinimumLimit(most, storage)
<1>7. limits'.storage = storage /\ limits'.file = file
     /\ limits' = [storage |-> storage, file |-> file]
  BY <1>1 DEF EffectiveLimits
<1>8. storage \in Limit /\ most \in Limit /\ file \in Limit
  BY <1>6, MinimumIsLeast
<1>9. /\ Value(limits.storage) \in Int /\ Value(hard.storage) \in Int
      /\ Value(limits.file) \in Int /\ Value(hard.file) \in Int
      /\ Value(storage) \in Int /\ Value(most) \in Int /\ Value(file) \in Int
  BY <1>6, <1>8, ValuesAreInts
<1>10. Value(storage) = Least({Value(hard.storage), Value(limits.storage)})
  <2>1. /\ Value(storage) \in {Value(hard.storage), Value(limits.storage)}
        /\ Value(storage) <= Value(hard.storage) /\ Value(storage) <= Value(limits.storage)
    BY <1>6, MinimumIsLeast
  <2> HIDE DEF storage
  <2> QED BY <1>9, <2>1, LeastOf
<1>11. Value(file) = Least({Value(hard.file), Value(limits.file), Value(storage)})
  <2>1. /\ Value(most) \in {Value(hard.file), Value(limits.file)}
        /\ Value(most) <= Value(hard.file) /\ Value(most) <= Value(limits.file)
    BY <1>6, MinimumIsLeast
  <2>2. /\ Value(file) \in {Value(most), Value(storage)}
        /\ Value(file) <= Value(most) /\ Value(file) <= Value(storage)
    BY <1>8, MinimumIsLeast
  <2> HIDE DEF storage, most, file
  <2>3. /\ Value(file) \in {Value(hard.file), Value(limits.file), Value(storage)}
        /\ \A w \in {Value(hard.file), Value(limits.file), Value(storage)} : Value(file) <= w
    BY <1>9, <2>1, <2>2
  <2> QED BY <1>9, <2>3, LeastOf
<1>12. LimitsAreBest'
  <2>1. /\ Assigned' = Assigned /\ BestStorage' = BestStorage /\ BestFile' = BestFile
        /\ Exact(mebibytes.hard.storage)' = Value(hard.storage)
        /\ Exact(mebibytes.hard.file)' = Value(hard.file)
        /\ Value(limits.storage)' = Value(storage) /\ Value(limits.file)' = Value(file)
    BY <1>1, <1>7 DEF Assigned, BestStorage, BestFile, Value, Exact, ConfigExact, IsExact
  <2> QED BY <1>3, <1>5, <1>10, <1>11, <2>1 DEF LimitsAreBest
<1>13. EffectiveInv'
  <2>1. limits' \in Pair(Limit)
    BY <1>7, <1>8 DEF Pair
  <2>2. hard.file # Unlimited => file # Unlimited /\ file <= hard.file
    BY <1>6, <1>8 DEF MinimumLimit, Limit, Unlimited
  <2> QED BY <1>1, <1>7, <2>1, <2>2 DEF EffectiveInv, IsSystemLimits, IsPositive, Concluded
<1>14. TypeOK'
  BY <1>1, <1>7, <1>8 DEF TypeOK, Pair, Stages
<1> QED BY <1>12, <1>13, <1>14

----------------------------------------------------------------------------
(***************************************************************************)
(* The checks of an upload.                                                *)
(***************************************************************************)

LEMMA BestIsKept ==
  ASSUME LimitsAreBest, Concluded, UNCHANGED <<config, assigned, limits>>
  PROVE  LimitsAreBest'
BY DEF LimitsAreBest, Concluded, Assigned, BestStorage, BestFile, Value, Exact

LEMMA ConfigIsKept ==
  ASSUME ConfigExact, UNCHANGED config
  PROVE  ConfigExact'
BY DEF ConfigExact, IsExact, Value, Exact

\* With a file that fits alone, no difference wraps.
LEMMA HasRoomIsExact ==
  ASSUME TypeOK, limits \in Pair(Limit), ~ NeverFits
  PROVE  HasRoom <=> usage.used + usage.reserved + size <= MaxStorageBytes
<1>1. MaxStorageBytes \in 1..MaxInt /\ size \in 0..MaxStorageBytes
  BY DEF NeverFits, MaxStorageBytes, TypeOK, Pair, Limit, Unlimited
<1>2. usage.used \in 0..MaxInt /\ usage.reserved \in 0..MaxInt
  BY DEF TypeOK
<1>3. Wrap(MaxStorageBytes - size) = MaxStorageBytes - size
  BY <1>1, WrapOfFitting
<1>4. usage.used <= MaxStorageBytes - size
        => Wrap(MaxStorageBytes - size - usage.used) = MaxStorageBytes - size - usage.used
  <2>1. ASSUME usage.used <= MaxStorageBytes - size
        PROVE  Wrap(MaxStorageBytes - size - usage.used) = MaxStorageBytes - size - usage.used
    BY <1>1, <1>2, <2>1, WrapOfFitting
  <2> QED BY <2>1
<1> HIDE DEF MaxStorageBytes
<1> QED BY <1>1, <1>2, <1>3, <1>4 DEF HasRoom

LEMMA ChecksKeepInv ==
  ASSUME IInv,
         \/ \E s \in Bytes : CheckFile(s)
         \/ \E used, reserved \in Bytes : ReadUsage(used, reserved)
         \/ ReserveUpload
  PROVE  IInv'
<1> USE DEF IInv
<1>1. /\ Concluded /\ stage' \in Stages \ {"combine", "error", "limits"} /\ Concluded'
      /\ UNCHANGED <<config, list, seen, assigned, limits>>
  BY DEF CheckFile, ReadUsage, ReserveUpload, Concluded, Stages
<1>2. LimitsAreBest' /\ LoopInv' /\ ConfigExact'
  BY <1>1, BestIsKept, ConfigIsKept DEF LoopInv, Concluded
<1>3. limits \in Pair(Limit)
  BY <1>1 DEF EffectiveInv
<1>4. ASSUME NEW s \in Bytes, CheckFile(s)
      PROVE  TypeOK' /\ EffectiveInv' /\ AdmissionIsExact'
  BY <1>1, <1>4 DEF CheckFile, TypeOK, Stages, EffectiveInv, AdmissionIsExact, AllowsFile,
     IsSystemLimits, IsPositive
<1>5. ASSUME NEW used \in Bytes, NEW reserved \in Bytes, ReadUsage(used, reserved)
      PROVE  TypeOK' /\ EffectiveInv' /\ AdmissionIsExact'
  <2>1. TypeOK' /\ EffectiveInv'
    BY <1>1, <1>5 DEF ReadUsage, TypeOK, Stages, EffectiveInv, NeverFits, MaxStorageBytes,
       IsSystemLimits, IsPositive
  <2>2. ASSUME NeverFits
        PROVE  usage.used + usage.reserved + size > MaxStorageBytes
    <3>1. MaxStorageBytes \in 1..MaxInt
      BY <1>3 DEF MaxStorageBytes, Pair, Limit, Unlimited
    <3>2. size > MaxStorageBytes
      BY <2>2, <3>1 DEF NeverFits
    <3> QED BY <3>1, <3>2 DEF TypeOK
  <2>3. MaxStorageBytes' = MaxStorageBytes /\ size' = size
    BY <1>1, <1>5 DEF MaxStorageBytes, ReadUsage
  <2>4. MaxStorageBytes \in Int
    BY <1>3 DEF MaxStorageBytes, Pair, Limit, Unlimited
  <2>5. AdmissionIsExact'
    BY <1>5, <2>2, <2>3, <2>4 DEF ReadUsage, AdmissionIsExact, TypeOK
  <2> QED BY <2>1, <2>5
<1>6. CASE ReserveUpload
  <2>1. stage = "read" /\ UNCHANGED <<limits, size, usage>>
        /\ stage' = IF HasRoom THEN "reserved" ELSE "noSpace"
    BY <1>6 DEF ReserveUpload
  <2>2. HasRoom <=> usage.used + usage.reserved + size <= MaxStorageBytes
    BY <1>3, <2>1, HasRoomIsExact DEF EffectiveInv
  <2>3. MaxStorageBytes' = MaxStorageBytes
    BY <2>1 DEF MaxStorageBytes
  <2>4. AdmissionIsExact'
    BY <2>1, <2>2, <2>3 DEF AdmissionIsExact
  <2>5. TypeOK' /\ EffectiveInv'
    BY <1>1, <2>1 DEF TypeOK, Stages, EffectiveInv, IsSystemLimits, IsPositive
  <2> QED BY <1>2, <2>4, <2>5
<1> QED BY <1>2, <1>4, <1>5, <1>6

----------------------------------------------------------------------------
(***************************************************************************)
(* The inductive invariant and what it implies.                            *)
(***************************************************************************)

LEMMA InitInv ==
  ASSUME Init
  PROVE  IInv
<1>1. /\ hard \in Pair(Limit) /\ IsExact(hard, mebibytes.hard)
      /\ \A p \in Plan : /\ catalog[p] \in Pair(Limit)
                         /\ IsExact(catalog[p], mebibytes.plans[p])
  <2>1. /\ hard = InBytes(mebibytes.hard) /\ mebibytes.hard \in Pair(Accepted)
        /\ \A p \in Plan : /\ catalog[p] = InBytes(mebibytes.plans[p])
                           /\ mebibytes.plans[p] \in Pair(Accepted)
    BY DEF Init
  <2> QED BY <2>1, InBytesIsExact
<1>2. assigned \in Seq(Plan \cup {Unknown})
  BY DEF Init
<1>3. hard \in Pair(Limit) /\ catalog \in [Plan -> Pair(Limit)] /\ ConfigExact
  BY <1>1 DEF Init, ConfigExact
<1>4. TypeOK
  BY <1>2, <1>3 DEF Init, TypeOK, Pair, Stages
<1>5. LoopInv
  BY DEF Init, LoopInv, Assigned, Rest
<1>6. LimitsAreBest /\ AdmissionIsExact
  BY DEF Init, LimitsAreBest, AdmissionIsExact
<1>7. EffectiveInv
  BY DEF Init, EffectiveInv, Concluded
<1> QED BY <1>3, <1>4, <1>5, <1>6, <1>7 DEF IInv

LEMMA NextInv ==
  ASSUME IInv, Next
  PROVE  IInv'
<1>1. CASE RejectEmptyList \/ SkipDuplicate \/ RejectUnknown \/ CombinePlan
  <2>1. TypeOK' /\ LoopInv' /\ (seen' # {} => limits' \in Pair(Limit))
    BY <1>1, CombineTypes, CombineKeepsLoop DEF IInv
  <2>2. stage' \in {"combine", "error"} /\ UNCHANGED <<hard, size>>
    BY <1>1 DEF RejectEmptyList, SkipDuplicate, RejectUnknown, CombinePlan
  <2>3. ~ Concluded' /\ IsSystemLimits(hard)'
    BY <2>2 DEF IInv, EffectiveInv, Concluded, IsSystemLimits, IsPositive
  <2>4. EffectiveInv'
    BY <2>1, <2>2, <2>3 DEF EffectiveInv
  <2>5. LimitsAreBest' /\ AdmissionIsExact'
    BY <2>2 DEF LimitsAreBest, AdmissionIsExact
  <2>6. ConfigExact'
    BY <1>1, ConfigIsKept DEF IInv, RejectEmptyList, SkipDuplicate, RejectUnknown, CombinePlan
  <2> QED BY <2>1, <2>4, <2>5, <2>6 DEF IInv
<1>2. CASE Conclude
  <2>1. LoopInv' /\ AdmissionIsExact' /\ ConfigExact'
    BY <1>2, ConfigIsKept DEF IInv, Conclude, LoopInv, AdmissionIsExact
  <2> QED BY <1>2, <2>1, ConcludeIsBest DEF IInv
<1> QED BY <1>1, <1>2, ChecksKeepInv DEF Next

LEMMA StutterInv ==
  ASSUME IInv, UNCHANGED vars
  PROVE  IInv'
<1> USE DEF IInv, vars
<1>1. TypeOK'
  BY DEF TypeOK
<1>2. LoopInv'
  BY DEF LoopInv, Assigned, Rest, IsHighest, StorageValues, FileValues, Value
<1>3. LimitsAreBest'
  BY DEF LimitsAreBest, Assigned, BestStorage, BestFile, Value, Exact
<1>4. EffectiveInv'
  BY DEF EffectiveInv, IsSystemLimits, IsPositive, Concluded, AllowsFile, NeverFits,
         MaxStorageBytes
<1>5. AdmissionIsExact'
  BY DEF AdmissionIsExact, MaxStorageBytes
<1>6. ConfigExact'
  BY ConfigIsKept
<1> QED BY <1>1, <1>2, <1>3, <1>4, <1>5, <1>6

\* The invariant of ForPlans: after each plan, the limits are the best of the
\* plans combined.
THEOREM LimitsInvariant == Spec => []IInv
<1>1. Init => IInv
  BY InitInv
<1>2. IInv /\ [Next]_vars => IInv'
  BY NextInv, StutterInv
<1> QED BY <1>1, <1>2, PTL DEF Spec

\* TypeOK: the limits that NewUserLimitSet accepts are int64 numbers, for any
\* width of the integers and any size of a MiB.
THEOREM TypeCorrect == Spec => []TypeOK
<1>1. IInv => TypeOK
  BY DEF IInv
<1> QED BY <1>1, LimitsInvariant, PTL

\* ForPlans gives the best of the configured limits of any list of plans, in
\* any order and with any repetitions, capped by the system's; the conversion
\* of MiB to bytes never wraps.
THEOREM LimitsBest == Spec => []LimitsAreBest
<1>1. IInv => LimitsAreBest
  BY DEF IInv
<1> QED BY <1>1, LimitsInvariant, PTL

\* The comparison in reserveUpload admits exactly the files that fit, although
\* the sum it stands for may overflow.
THEOREM AdmissionExact == Spec => []AdmissionIsExact
<1>1. IInv => AdmissionIsExact
  BY DEF IInv
<1> QED BY <1>1, LimitsInvariant, PTL

\* RequestBodyLimit does not overflow and lets every allowed file through.
THEOREM BodyLimitSufficient == Spec => []BodyLimitSuffices
<1>1. ASSUME IInv
      PROVE  BodyLimitSuffices
  <2>1. hard.file \in Limit /\ hard.file <= MaxInt - Overhead - 1
    BY <1>1 DEF IInv, TypeOK, Pair, EffectiveInv, IsSystemLimits
  <2>2. CASE hard.file = Unlimited
    BY <2>2 DEF BodyLimitSuffices, RequestBodyLimit
  <2>3. CASE hard.file # Unlimited
    <3>1. hard.file + Overhead \in 1..(MaxInt - 1)
      BY <2>1, <2>3 DEF Limit
    <3>2. RequestBodyLimit = hard.file + Overhead
      BY <2>3, <3>1, WrapOfFitting DEF RequestBodyLimit
    <3>3. stage = "reserve" => size <= hard.file
      BY <1>1, <2>1, <2>3 DEF IInv, TypeOK, Pair, EffectiveInv, Concluded, AllowsFile, Limit,
         Unlimited
    <3>4. size \in Int
      BY <1>1 DEF IInv, TypeOK
    <3> QED BY <2>1, <3>1, <3>2, <3>3, <3>4 DEF BodyLimitSuffices, Limit, Unlimited
  <2> QED BY <2>2, <2>3
<1> QED BY <1>1, LimitsInvariant, PTL
============================================================================

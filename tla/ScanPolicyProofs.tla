-------------------------- MODULE ScanPolicyProofs --------------------------
(***************************************************************************)
(* The proof that the verdict is exact, for archives of any size, nesting  *)
(* and order of entries.  The invariant of the walk says that what is not  *)
(* cleared yet is within the entries of todo, which share nothing, that    *)
(* the budget counts the entries that have been listed, and what the       *)
(* stages before the present one have found out about the present entry.   *)
(***************************************************************************)
EXTENDS ScanPolicy, FiniteSetTheorems, SequenceTheorems, TLAPS

Below(n)       == Within(n) \ {n}
Disjoint(m, n) == Within(m) \cap Within(n) = {}

Pending  == {todo[i][1] : i \in DOMAIN todo}
Reach(P) == UNION {Within(n) : n \in P}
Unseen   == Reach(Pending)

\* The entries that are not below one of P.
Apart(P) == Entries \ UNION {Below(n) : n \in P}
Listed   == Apart(Pending)

\* What the walk asks of one node.
Cleared(n) == Innocent(n) /\ (IsArchive(n) => Depth(n) < maxDepth)

SettingsOK ==
  /\ enabled \in BOOLEAN /\ moderation \in BOOLEAN
  /\ maxDepth \in Nat /\ maxFiles \in Nat
  /\ kind \in [Node -> Kinds]
  /\ trait \in [Node -> Traits]
  /\ \A n \in Node : trait[n] = "frameless" => kind[n] = "video"

TodoOK ==
  /\ todo \in Seq(Node \X Nat)
  /\ todo # <<>>
  /\ \A i \in DOMAIN todo : todo[i][1] \in Tree /\ todo[i][2] = Depth(todo[i][1])
  /\ \A i, j \in DOMAIN todo : i # j => Disjoint(todo[i][1], todo[j][1])

\* Whatever is not within the pending nodes has passed.
Walked == \A n \in Tree \ Unseen : Cleared(n)

BudgetOK ==
  /\ budget \in Nat
  /\ budget = Cardinality(Listed)
                + IF stage \in {"test", "extract"} THEN Len(Inside[node]) ELSE 0
  /\ budget <= maxFiles

\* What the stages before the present one know of the present entry.
Judged ==
  /\ stage \notin {"download", "mime"} => trait[node] \notin {"irregular", "denied"}
  /\ stage \notin {"download", "mime", "virus"} => trait[node] # "infected"
  /\ stage \in ArchiveTools => IsArchive(node)
  /\ stage \in {"test", "extract"} => trait[node] # "broken" /\ Depth(node) < maxDepth
  /\ stage \in {"media", "frames"} => kind[node] \in {"image", "audio", "video"}
  /\ stage = "frames" => trait[node] # "broken" /\ moderation
  /\ stage = "moderate" =>
       /\ kind[node] \in {"image", "audio", "video", "other"}
       /\ kind[node] # "other" => trait[node] # "broken"
       /\ moderation => trait[node] # "frameless"

Walking == TodoOK /\ Walked /\ BudgetOK /\ Judged /\ failure = "none"

IInv ==
  /\ SettingsOK
  /\ stage \in Tools \cup {"download", "done"}
  /\ stage # "done" => Walking
  /\ VerdictIsExact

-----------------------------------------------------------------------------
(***************************************************************************)
(* The tree of archives, whatever the kinds are.                           *)
(***************************************************************************)

Closed(S) == \A x \in S : Contents(x) \subseteq S

LEMMA InsideTyped ==
  ASSUME NEW n \in Node
  PROVE  /\ Inside[n] \in Seq(Node)
         /\ Contents(n) \subseteq Node
         /\ Top \notin Contents(n)
<1>1. Inside[n] \in Seq(Node)
  BY TreeAssumption
<1>2. DOMAIN Inside[n] = 1..Len(Inside[n]) /\ \A i \in DOMAIN Inside[n] : Inside[n][i] \in Node
  BY <1>1, LenProperties, ElementOfSeq
<1>3. \A i \in DOMAIN Inside[n] : Inside[n][i] # Top
  BY TreeAssumption
<1> QED BY <1>1, <1>2, <1>3 DEF Contents

\* An entry has one container.
LEMMA OneContainer ==
  ASSUME NEW m \in Node, NEW n \in Node, NEW c, c \in Contents(m), c \in Contents(n)
  PROVE  m = n
BY TreeAssumption DEF Contents

LEMMA WithinIsLeast ==
  ASSUME NEW S \in SUBSET Node, Closed(S), NEW n \in S
  PROVE  Within(n) \subseteq S
BY DEF Within, Closed

LEMMA WithinIsClosed ==
  ASSUME NEW n \in Node
  PROVE  /\ Within(n) \in SUBSET Node
         /\ n \in Within(n)
         /\ Closed(Within(n))
<1>1. Within(n) \subseteq Node /\ n \in Within(n)
  BY DEF Within
<1>2. ASSUME NEW x \in Within(n), NEW y \in Contents(x)
      PROVE  y \in Within(n)
  <2>1. x \in Node /\ y \in Node
    BY <1>2, <1>1, InsideTyped
  <2>2. ASSUME NEW S \in SUBSET Node, n \in S, \A z \in S : Contents(z) \subseteq S
        PROVE  y \in S
    BY <1>2, <2>2 DEF Within
  <2> QED BY <2>1, <2>2 DEF Within
<1> QED BY <1>1, <1>2 DEF Closed

LEMMA WithinIsTransitive ==
  ASSUME NEW n \in Node, NEW m \in Within(n)
  PROVE  Within(m) \subseteq Within(n)
BY WithinIsClosed, WithinIsLeast

\* Below an archive is what is within its entries.
LEMMA WithinUnfolds ==
  ASSUME NEW n \in Node
  PROVE  /\ Within(n) = {n} \cup UNION {Within(c) : c \in Contents(n)}
         /\ \A c \in Contents(n) : c \in Node /\ Within(c) \in SUBSET Node
<1> DEFINE S == {n} \cup UNION {Within(c) : c \in Contents(n)}
<1>1. \A c \in Contents(n) :
        /\ c \in Node /\ c \in Within(n)
        /\ Within(c) \in SUBSET Node /\ c \in Within(c) /\ Closed(Within(c))
        /\ Within(c) \subseteq Within(n)
  <2> TAKE c \in Contents(n)
  <2>1. c \in Node
    BY InsideTyped
  <2>2. c \in Within(n)
    BY WithinIsClosed DEF Closed
  <2> QED BY <2>1, <2>2, WithinIsClosed, WithinIsTransitive
<1>2. S \in SUBSET Node
  BY <1>1
<1>3. Closed(S)
  BY <1>1 DEF Closed
<1>4. Within(n) \subseteq S
  BY <1>2, <1>3, WithinIsLeast
<1>5. S \subseteq Within(n)
  BY <1>1, WithinIsClosed
<1> QED BY <1>1, <1>4, <1>5

LEMMA EmptyWithin ==
  ASSUME NEW n \in Node, Contents(n) = {}
  PROVE  Within(n) = {n}
BY WithinUnfolds

\* Whatever holds an entry of p, except the entry itself, holds p.
LEMMA HolderHoldsContainer ==
  ASSUME NEW m \in Node, NEW p \in Node, NEW c \in Contents(p), c \in Within(m), c # m
  PROVE  p \in Within(m)
<1> SUFFICES ASSUME p \notin Within(m) PROVE FALSE
  OBVIOUS
<1> DEFINE S == Within(m) \ {c}
<1>1. S \in SUBSET Node /\ m \in S
  BY WithinIsClosed
<1>2. ASSUME NEW x \in S
      PROVE  Contents(x) \subseteq S
  <2>1. x \in Node /\ Contents(x) \subseteq Within(m)
    BY <1>2, WithinIsClosed DEF Closed
  <2>2. c \notin Contents(x)
    BY <1>2, <2>1, OneContainer
  <2> QED BY <2>1, <2>2
<1>3. Within(m) \subseteq S
  BY <1>1, <1>2, WithinIsLeast DEF Closed
<1> QED BY <1>3

LEMMA OnlyTopHoldsTop ==
  ASSUME NEW m \in Node, Top \in Within(m)
  PROVE  m = Top
<1> SUFFICES ASSUME m # Top PROVE FALSE
  OBVIOUS
<1> DEFINE S == Within(m) \ {Top}
<1>1. S \in SUBSET Node /\ m \in S
  BY WithinIsClosed
<1>2. ASSUME NEW x \in S
      PROVE  Contents(x) \subseteq S
  BY <1>2, WithinIsClosed, InsideTyped DEF Closed
<1>3. Within(m) \subseteq S
  BY <1>1, <1>2, WithinIsLeast DEF Closed
<1> QED BY <1>3

LEMMA TreeTyped ==
  /\ Tree \in SUBSET Node /\ Top \in Tree /\ Closed(Tree)
  /\ \A n \in Tree : Within(n) \subseteq Tree
  /\ IsFiniteSet(Tree)
<1>1. Tree \in SUBSET Node /\ Top \in Tree /\ Closed(Tree)
  BY WithinIsClosed, TreeAssumption DEF Tree
<1>2. \A n \in Tree : Within(n) \subseteq Tree
  BY <1>1, WithinIsLeast
<1>3. IsFiniteSet(Tree)
  BY <1>1, FS_Subset, TreeAssumption
<1> QED BY <1>1, <1>2, <1>3

\* No file contains itself.
LEMMA TreeIsAcyclic ==
  ASSUME NEW n \in Tree, NEW c \in Contents(n)
  PROVE  n \notin Within(c)
<1> DEFINE S == {x \in Tree : \A d \in Contents(x) : x \notin Within(d)}
<1>1. S \in SUBSET Node
  BY TreeTyped
<1>2. Top \in S
  BY TreeTyped, InsideTyped, OnlyTopHoldsTop
<1>3. ASSUME NEW x \in S, NEW y \in Contents(x)
      PROVE  y \in S
  <2>1. x \in Tree /\ x \in Node /\ y \in Tree /\ y \in Node
    BY <1>3, TreeTyped DEF Closed
  <2>2. ASSUME NEW d \in Contents(y), y \in Within(d)
        PROVE  FALSE
    <3>1. d \in Node
      BY <2>1, <2>2, InsideTyped
    <3>2. d \in Within(y)
      BY <2>1, <2>2, WithinIsClosed DEF Closed
    <3>3. CASE d = y
      <4>1. y = x
        BY <1>3, <2>1, <2>2, <3>3, OneContainer
      <4> QED BY <4>1, <1>3, <2>1, WithinIsClosed
    <3>4. CASE d # y
      <4>1. x \in Within(d)
        BY <1>3, <2>1, <2>2, <3>1, <3>4, HolderHoldsContainer
      <4>2. Within(d) \subseteq Within(y)
        BY <2>1, <3>2, WithinIsTransitive
      <4>3. x \in Within(y)
        BY <4>1, <4>2
      <4> QED BY <4>3, <1>3
    <3> QED BY <3>3, <3>4
  <2> QED BY <2>1, <2>2
<1>4. Tree \subseteq S
  BY <1>1, <1>2, <1>3, WithinIsLeast DEF Closed, Tree
<1> QED BY <1>4

\* Two entries of one archive share nothing.
LEMMA SiblingsAreDisjoint ==
  ASSUME NEW n \in Tree, NEW c \in Contents(n), NEW d \in Contents(n), c # d
  PROVE  Within(c) \cap Within(d) = {}
<1>1. n \in Node /\ c \in Node /\ d \in Node /\ c \in Tree /\ d \in Tree
  BY TreeTyped DEF Closed
<1>2. c \notin Within(d) /\ d \notin Within(c)
  BY <1>1, HolderHoldsContainer, TreeIsAcyclic
<1> DEFINE S == Within(c) \ Within(d)
<1>3. S \in SUBSET Node /\ c \in S
  BY <1>1, <1>2, WithinIsClosed
<1>4. ASSUME NEW x \in S, NEW y \in Contents(x)
      PROVE  y \in S
  <2>1. x \in Node /\ y \in Within(c)
    BY <1>1, <1>4, WithinIsClosed DEF Closed
  <2>2. ASSUME y \in Within(d) PROVE FALSE
    <3>1. y # d
      BY <1>2, <2>1
    <3>2. x \in Within(d)
      BY <1>1, <1>4, <2>1, <2>2, <3>1, HolderHoldsContainer
    <3> QED BY <3>2, <1>4
  <2> QED BY <2>1, <2>2
<1>5. Within(c) \subseteq S
  BY <1>3, <1>4, WithinIsLeast DEF Closed
<1> QED BY <1>5

LEMMA DisjointUnion ==
  ASSUME NEW S, NEW T, IsFiniteSet(S), IsFiniteSet(T), S \cap T = {}
  PROVE  Cardinality(S \cup T) = Cardinality(S) + Cardinality(T)
<1>1. Cardinality(S \cup T) = Cardinality(S) + Cardinality(T) - Cardinality(S \cap T)
  BY FS_Union
<1>2. Cardinality(S \cap T) = 0 /\ Cardinality(S) \in Nat /\ Cardinality(T) \in Nat
  BY FS_EmptySet, FS_CardinalityType
<1> QED BY <1>1, <1>2

LEMMA DepthOfTop == Depth(Top) = 0
<1>1. {m \in Tree : Top \in Within(m)} \ {Top} = {}
  BY TreeTyped, OnlyTopHoldsTop
<1> QED BY <1>1, FS_EmptySet DEF Depth

LEMMA DepthOfEntry ==
  ASSUME NEW n \in Tree
  PROVE  /\ Depth(n) \in Nat
         /\ \A c \in Contents(n) : c \in Tree /\ Depth(c) = Depth(n) + 1
<1> DEFINE Around(x) == {m \in Tree : x \in Within(m)} \ {x}
<1>1. \A x : IsFiniteSet(Around(x)) /\ Cardinality(Around(x)) \in Nat
  <2> TAKE x
  <2>1. Around(x) \in SUBSET Tree
    OBVIOUS
  <2>2. IsFiniteSet(Around(x))
    BY <2>1, TreeTyped, FS_Subset
  <2> QED BY <2>2, FS_CardinalityType
<1>2. ASSUME NEW c \in Contents(n)
      PROVE  c \in Tree /\ Cardinality(Around(c)) = Cardinality(Around(n)) + 1
  <2>1. n \in Node /\ c \in Tree /\ c \in Node
    BY TreeTyped DEF Closed
  <2>2. n \notin Within(c) /\ c # n
    BY <2>1, <1>2, TreeIsAcyclic, WithinIsClosed
  <2>3. ASSUME NEW m \in Tree PROVE c \in Within(m) /\ c # m <=> n \in Within(m)
    <3>1. m \in Node
      BY TreeTyped
    <3>2. n \in Within(m) => c \in Within(m)
      BY <3>1, WithinIsClosed DEF Closed
    <3>3. c = m => n \notin Within(m)
      BY <2>2
    <3>4. c \in Within(m) /\ c # m => n \in Within(m)
      BY <2>1, <3>1, HolderHoldsContainer
    <3> QED BY <3>2, <3>3, <3>4
  <2>4. Around(c) = Around(n) \cup {n}
    BY <2>1, <2>2, <2>3, WithinIsClosed
  <2>5. n \notin Around(n)
    OBVIOUS
  <2> HIDE DEF Around
  <2>6. Cardinality(Around(n) \cup {n}) = Cardinality(Around(n)) + 1
    BY <1>1, <2>5, FS_AddElement
  <2> QED BY <2>1, <2>4, <2>6
<1> QED BY <1>1, <1>2 DEF Depth

\* The entries of n are below n and are not the file itself.
LEMMA EntriesBelow ==
  ASSUME NEW n \in Tree, NEW c \in Contents(n)
  PROVE  c \in Tree /\ c \in Entries /\ c \in Below(n) /\ n \notin Within(c)
<1>1. n \in Node /\ c \in Tree /\ c # Top /\ c \in Node
  BY TreeTyped, InsideTyped DEF Closed
<1>2. c \in Within(n) /\ n \notin Within(c) /\ c \in Within(c)
  BY <1>1, TreeIsAcyclic, WithinIsClosed DEF Closed
<1> QED BY <1>1, <1>2 DEF Entries, Below

\* What changes when the archive n is replaced by its entries.
LEMMA OpeningAnArchive ==
  ASSUME NEW n \in Tree, NEW R \in SUBSET Tree, \A p \in R : Disjoint(n, p)
  PROVE  /\ Reach(R \cup {n}) = {n} \cup Reach(R \cup Contents(n))
         /\ Apart(R \cup Contents(n)) = Apart(R \cup {n}) \cup Contents(n)
         /\ Apart(R \cup {n}) \cap Contents(n) = {}
<1>1. /\ Within(n) = {n} \cup UNION {Within(c) : c \in Contents(n)}
      /\ \A c \in Contents(n) :
           /\ c \in Tree /\ c \in Within(c) /\ n \notin Within(c)
           /\ c \in Entries /\ c \in Below(n)
  <2>1. n \in Node /\ \A c \in Contents(n) : c \in Node
    BY TreeTyped, InsideTyped
  <2> QED BY <2>1, EntriesBelow, WithinUnfolds, WithinIsClosed
<1>2. \A c, d \in Contents(n) : c # d => c \notin Within(d)
  BY <1>1, SiblingsAreDisjoint
<1>3. \A p \in R, x \in Within(n) : x \notin Within(p)
  BY DEF Disjoint
<1>4. Reach(R \cup {n}) = {n} \cup Reach(R \cup Contents(n))
  BY <1>1 DEF Reach
<1>5. ASSUME NEW x \in Apart(R \cup Contents(n)), x \notin Apart(R \cup {n})
      PROVE  x \in Contents(n)
  <2>1. x \in Below(n)
    BY <1>5 DEF Apart
  <2>2. PICK c \in Contents(n) : x \in Within(c)
    BY <1>1, <2>1 DEF Below
  <2> QED BY <1>5, <2>2 DEF Apart, Below
<1>6. ASSUME NEW x \in Apart(R \cup {n})
      PROVE  x \in Apart(R \cup Contents(n)) /\ x \notin Contents(n)
  <2>1. x \in Entries /\ x \notin Below(n) /\ \A p \in R : x \notin Below(p)
    BY <1>6 DEF Apart
  <2>2. \A c \in Contents(n) : x \notin Within(c)
    BY <1>1, <2>1 DEF Below
  <2> QED BY <1>1, <2>1, <2>2 DEF Apart, Below
<1>7. ASSUME NEW x \in Contents(n)
      PROVE  x \in Apart(R \cup Contents(n))
  <2>1. x \in Entries /\ x \in Within(n)
    BY <1>1, <1>7 DEF Below
  <2>2. \A c \in Contents(n) : x \notin Below(c)
    BY <1>2, <1>7 DEF Below
  <2>3. \A p \in R : x \notin Below(p)
    BY <1>3, <2>1 DEF Below
  <2> QED BY <2>1, <2>2, <2>3 DEF Apart
<1> QED BY <1>4, <1>5, <1>6, <1>7

\* The listing of an archive has as many lines as there are entries.
LEMMA ListingLength ==
  ASSUME NEW n \in Node, IsArchive(n)
  PROVE  /\ Len(Inside[n]) \in Nat
         /\ IsFiniteSet(Contents(n))
         /\ Cardinality(Contents(n)) = Len(Inside[n])
<1> DEFINE k == Len(Inside[n])
           f == [i \in 1..k |-> Inside[n][i]]
<1>1. k \in Nat /\ DOMAIN Inside[n] = 1..k
  BY InsideTyped, LenProperties
<1>2. Contents(n) = {f[i] : i \in 1..k}
  BY <1>1 DEF Contents
<1>3. \A i, j \in 1..k : f[i] = f[j] => i = j
  BY <1>1, TreeAssumption
<1>4. f \in Bijection(1..k, Contents(n))
  BY <1>2, <1>3 DEF Bijection, Injection, IsInjective, Surjection
<1>5. IsFiniteSet(1..k) /\ Cardinality(1..k) = k
  BY <1>1, FS_Interval
<1>6. ExistsBijection(1..k, Contents(n))
  BY <1>4 DEF ExistsBijection
<1> QED BY <1>1, <1>5, <1>6, FS_Bijection

-----------------------------------------------------------------------------

\* What depends on the file and the settings alone never changes.
LEMMA GivenStays ==
  ASSUME UNCHANGED given
  PROVE  /\ Tree' = Tree /\ Entries' = Entries
         /\ \A n : /\ Within(n)' = Within(n) /\ Below(n)' = Below(n)
                   /\ Contents(n)' = Contents(n) /\ IsArchive(n)' = IsArchive(n)
                   /\ Depth(n)' = Depth(n) /\ Innocent(n)' = Innocent(n)
                   /\ Cleared(n)' = Cleared(n)
         /\ \A m, n : Disjoint(m, n)' = Disjoint(m, n)
         /\ Acceptable' = Acceptable
         /\ SettingsOK => SettingsOK'
<1> USE DEF given
<1>1. \A n : Contents(n)' = Contents(n) /\ IsArchive(n)' = IsArchive(n)
  BY DEF Contents, IsArchive
<1>2. \A n : Within(n)' = Within(n)
  BY <1>1 DEF Within
<1>3. Tree' = Tree /\ Entries' = Entries /\ \A n : Below(n)' = Below(n)
  BY <1>2 DEF Tree, Entries, Below
<1>4. \A n : Depth(n)' = Depth(n)
  BY <1>2, <1>3 DEF Depth
<1>5. \A n : Innocent(n)' = Innocent(n)
  BY <1>1 DEF Innocent
<1>6. \A n : Cleared(n)' = Cleared(n)
  BY <1>1, <1>4, <1>5 DEF Cleared
<1>7. Acceptable' = Acceptable
  BY <1>1, <1>3, <1>4, <1>5 DEF Acceptable
<1>8. SettingsOK => SettingsOK'
  BY DEF SettingsOK
<1>9. \A m, n : Disjoint(m, n)' = Disjoint(m, n)
  BY <1>2 DEF Disjoint
<1> QED BY <1>1, <1>2, <1>3, <1>4, <1>5, <1>6, <1>7, <1>8, <1>9

\* Acceptable node by node.
LEMMA AcceptableByNode ==
  Acceptable <=> (\A n \in Tree : Cleared(n)) /\ Cardinality(Entries) <= maxFiles
BY DEF Acceptable, Cleared

LEMMA TodoFacts ==
  ASSUME TodoOK
  PROVE  /\ Len(todo) \in Nat \ {0} /\ DOMAIN todo = 1..Len(todo)
         /\ node = todo[1][1] /\ node \in Tree /\ node \in Node /\ depth = Depth(node)
         /\ node \in Pending /\ Pending \subseteq Tree
         /\ Tail(todo) \in Seq(Node \X Nat) /\ Len(Tail(todo)) = Len(todo) - 1
         /\ DOMAIN Tail(todo) = 1..(Len(todo) - 1)
         /\ \A i \in 1..(Len(todo) - 1) : Tail(todo)[i] = todo[i + 1]
         /\ Listed \in SUBSET Entries /\ IsFiniteSet(Listed) /\ Cardinality(Listed) \in Nat
         /\ IsFiniteSet(Entries) /\ Cardinality(Entries) \in Nat
<1>1. Len(todo) \in Nat \ {0} /\ DOMAIN todo = 1..Len(todo)
  BY EmptySeq, LenProperties DEF TodoOK
<1>2. node = todo[1][1] /\ node \in Tree /\ depth = Depth(node) /\ node \in Pending
  BY <1>1 DEF TodoOK, node, depth, Pending
<1>3. /\ Tail(todo) \in Seq(Node \X Nat) /\ Len(Tail(todo)) = Len(todo) - 1
      /\ \A i \in 1..Len(Tail(todo)) : Tail(todo)[i] = todo[i + 1]
  BY HeadTailProperties DEF TodoOK
<1>4. DOMAIN Tail(todo) = 1..(Len(todo) - 1)
  BY <1>3, LenProperties
<1>5. IsFiniteSet(Entries) /\ Cardinality(Entries) \in Nat
  BY TreeTyped, FS_Subset, FS_CardinalityType DEF Entries
<1>6. Listed \in SUBSET Entries /\ IsFiniteSet(Listed) /\ Cardinality(Listed) \in Nat
  BY <1>5, FS_Subset, FS_CardinalityType DEF Listed, Apart
<1>7. Pending \subseteq Tree
  BY DEF TodoOK, Pending
<1> QED BY <1>1, <1>2, <1>3, <1>4, <1>5, <1>6, <1>7, TreeTyped

\* TodoOK after a step, in terms of the tree before it.
LEMMA TodoOKStays ==
  ASSUME UNCHANGED given,
         todo' \in Seq(Node \X Nat), todo' # <<>>,
         \A i \in DOMAIN todo' : todo'[i][1] \in Tree /\ todo'[i][2] = Depth(todo'[i][1]),
         \A i, j \in DOMAIN todo' : i # j => Disjoint(todo'[i][1], todo'[j][1])
  PROVE  TodoOK'
<1>1. \A i, j : (Disjoint(todo[i][1], todo[j][1]))' = Disjoint(todo'[i][1], todo'[j][1])
  BY GivenStays
<1>2. (\A i \in DOMAIN todo : todo[i][1] \in Tree /\ todo[i][2] = Depth(todo[i][1]))'
  BY GivenStays
<1>3. (\A i, j \in DOMAIN todo : i # j => Disjoint(todo[i][1], todo[j][1]))'
  BY <1>1
<1> QED BY <1>2, <1>3 DEF TodoOK

\* A step that leaves the entries to walk alone.
LEMMA WalkStays ==
  ASSUME IInv, stage # "done", UNCHANGED <<given, todo>>
  PROVE  /\ SettingsOK' /\ TodoOK' /\ Walked'
         /\ node' = node /\ Listed' = Listed
         /\ \A n : IsArchive(n)' = IsArchive(n) /\ Depth(n)' = Depth(n)
<1> USE GivenStays DEF IInv, Walking
<1>1. node' = node /\ Pending' = Pending
  BY DEF node, Pending
<1>2. Unseen' = Unseen /\ Listed' = Listed
  BY <1>1 DEF Unseen, Reach, Listed, Apart
<1>3. TodoOK'
  BY TodoOKStays DEF TodoOK
<1>4. Walked'
  BY <1>2 DEF Walked
<1> QED BY <1>1, <1>2, <1>3, <1>4

\* A verdict that agrees with what the settings ask of the file.
LEMMA VerdictKeepsIInv ==
  ASSUME IInv, stage # "done", stage' = "done", UNCHANGED given,
         enabled => (result' = "approved" <=> Acceptable /\ failure' = "none")
  PROVE  IInv'
<1>1. SettingsOK' /\ Acceptable' = Acceptable /\ enabled' = enabled
  BY GivenStays DEF IInv, given
<1> QED BY <1>1 DEF IInv, VerdictIsExact

LEMMA BlockKeepsIInv ==
  ASSUME IInv, stage # "done", Block, ~ Acceptable
  PROVE  IInv'
BY VerdictKeepsIInv DEF Block, Conclude

LEMMA ContinueKeepsIInv ==
  ASSUME IInv, stage # "done", NEW next \in Tools, Continue(next), Judged',
         stage \notin {"test", "extract"} \/ stage' = "extract",
         stage' \in {"test", "extract"} => stage \in {"test", "extract"}
  PROVE  IInv'
<1>1. SettingsOK' /\ TodoOK' /\ Walked' /\ node' = node /\ Listed' = Listed
  BY WalkStays DEF Continue
<1>2. BudgetOK'
  BY <1>1 DEF Continue, BudgetOK, IInv, Walking, given
<1>3. stage' \in Tools /\ failure' = "none" /\ "done" \notin Tools
  BY DEF Continue, IInv, Walking, Tools, ArchiveTools
<1> QED BY <1>1, <1>2, <1>3 DEF IInv, Walking, VerdictIsExact

\* An entry without entries of its own passes.
LEMMA PassKeepsIInv ==
  ASSUME IInv, stage # "done", Pass, Contents(node) = {}, Cleared(node),
         budget = Cardinality(Listed)
  PROVE  IInv'
<1> USE DEF IInv, Walking
<1>1. Within(node) = {node} /\ Below(node) = {}
  BY TodoFacts, EmptyWithin DEF Below
<1>2. CASE Tail(todo) = <<>>
  <2>1. Len(todo) = 1
    <3>1. Len(todo) \in Nat /\ Len(Tail(todo)) = Len(todo) - 1
      BY TodoFacts
    <3>2. Len(Tail(todo)) = 0
      BY <1>2, EmptySeq
    <3> QED BY <3>1, <3>2
  <2>2. Pending = {node}
    BY <2>1, TodoFacts DEF Pending
  <2>3. Unseen = {node} /\ Listed = Entries
    BY <2>2, <1>1 DEF Unseen, Reach, Listed, Apart
  <2>4. \A n \in Tree : Cleared(n)
    BY <2>3 DEF Walked
  <2>5. Cardinality(Entries) <= maxFiles
    BY <2>3 DEF BudgetOK
  <2> QED BY <1>2, <2>4, <2>5, AcceptableByNode, VerdictKeepsIInv DEF Pass
<1>3. CASE Tail(todo) # <<>>
  <2> DEFINE k == Len(todo) - 1
  <2>1. /\ todo' = Tail(todo) /\ stage' = "mime"
        /\ UNCHANGED <<given, budget, failure, result>>
    BY <1>3 DEF Pass
  <2>2. /\ k \in Nat /\ DOMAIN todo' = 1..k /\ DOMAIN todo = 1..(k + 1)
        /\ \A i \in 1..k : todo'[i] = todo[i + 1]
    BY <2>1, TodoFacts
  <2>3. TodoOK'
    <3>1. todo' \in Seq(Node \X Nat) /\ todo' # <<>>
      BY <1>3, <2>1, TodoFacts
    <3>2. \A i \in 1..k : i + 1 \in DOMAIN todo
      BY <2>2
    <3>3. \A i \in DOMAIN todo' :
            todo'[i][1] \in Tree /\ todo'[i][2] = Depth(todo'[i][1])
      BY <2>2, <3>2 DEF TodoOK
    <3>4. ASSUME NEW i \in DOMAIN todo', NEW j \in DOMAIN todo', i # j
          PROVE  Disjoint(todo'[i][1], todo'[j][1])
      <4>1. i \in 1..k /\ j \in 1..k /\ todo'[i] = todo[i + 1] /\ todo'[j] = todo[j + 1]
        BY <2>2
      <4>2. i + 1 # j + 1
        BY <2>2, <3>4, <4>1
      <4> QED BY <3>2, <4>1, <4>2 DEF TodoOK
    <3> QED BY <2>1, <3>1, <3>3, <3>4, TodoOKStays
  <2>4. Pending = Pending' \cup {node}
    <3>1. \A i \in 1..(k + 1) : i = 1 \/ (i - 1 \in 1..k /\ todo[i] = todo'[i - 1])
      BY <2>2
    <3>2. \A i \in 1..k : i + 1 \in 1..(k + 1) /\ todo'[i] = todo[i + 1]
      BY <2>2
    <3>3. 1 \in 1..(k + 1) /\ node = todo[1][1]
      BY <2>2, TodoFacts
    <3>4. ASSUME NEW p \in Pending PROVE p \in Pending' \cup {node}
      <4>1. PICK i \in 1..(k + 1) : p = todo[i][1]
        BY <2>2 DEF Pending
      <4> QED BY <2>2, <3>1, <3>3, <4>1 DEF Pending
    <3>5. Pending' \subseteq Pending
      BY <2>2, <3>2 DEF Pending
    <3> QED BY <3>4, <3>5, TodoFacts
  <2>5. Unseen = Unseen' \cup {node} /\ Listed' = Listed
    BY <2>1, <2>4, <1>1, GivenStays DEF Unseen, Reach, Listed, Apart
  <2>6. Walked'
    BY <2>1, <2>5, GivenStays DEF Walked
  <2>7. BudgetOK'
    BY <2>1, <2>5 DEF BudgetOK, given
  <2>8. Judged'
    BY <2>1 DEF Judged, ArchiveTools
  <2>9. SettingsOK' /\ stage' \in Tools /\ stage' # "done" /\ failure' = "none"
    BY <2>1, GivenStays DEF Tools
  <2> QED BY <2>3, <2>6, <2>7, <2>8, <2>9 DEF VerdictIsExact
<1> QED BY <1>2, <1>3

\* The first element of a sequence is replaced by a sequence.
LEMMA ReplaceHead ==
  ASSUME NEW S, NEW a, NEW b, NEW s,
         a \in Seq(S), b \in Seq(S), b # <<>>, s = a \o Tail(b)
  PROVE  /\ s \in Seq(S)
         /\ DOMAIN s = 1..(Len(a) + Len(b) - 1)
         /\ \A i \in 1..Len(a) : i \in DOMAIN s /\ s[i] = a[i]
         /\ \A j \in 2..Len(b) :
              Len(a) + j - 1 \in DOMAIN s /\ s[Len(a) + j - 1] = b[j]
         /\ \A i \in DOMAIN s : i \in 1..Len(a) \/ i - Len(a) + 1 \in 2..Len(b)
<1>1. PICK k \in Nat, n \in Nat : k = Len(a) /\ n = Len(b) - 1
  <2>1. Len(a) \in Nat /\ Len(b) \in Nat \ {0}
    BY LenProperties, EmptySeq
  <2>2. Len(b) - 1 \in Nat
    BY <2>1
  <2> QED BY <2>1, <2>2, Zenon
<1>2. PICK t \in Seq(S) : t = Tail(b) /\ Len(t) = n /\ \A i \in 1..n : t[i] = b[i + 1]
  <2>1. /\ Tail(b) \in Seq(S) /\ Len(Tail(b)) = Len(b) - 1
        /\ \A i \in 1..Len(Tail(b)) : Tail(b)[i] = b[i + 1]
    BY HeadTailProperties
  <2> QED BY <1>1, <2>1, Zenon
<1>3. s = a \o t
  BY <1>2
<1>4. /\ s \in Seq(S) /\ Len(s) = k + n
      /\ \A i \in 1..(k + n) : s[i] = IF i <= k THEN a[i] ELSE t[i - k]
  <2>1. /\ a \o t \in Seq(S) /\ Len(a \o t) = Len(a) + Len(t)
        /\ \A i \in 1..Len(a) + Len(t) :
             (a \o t)[i] = IF i <= Len(a) THEN a[i] ELSE t[i - Len(a)]
    BY ConcatProperties, Zenon
  <2> QED BY <1>1, <1>2, <1>3, <2>1, Zenon
<1>5. DOMAIN s = 1..(k + n)
  BY <1>4, LenProperties
<1>6. \A i \in 1..k : i \in DOMAIN s /\ s[i] = a[i]
  BY <1>4, <1>5
<1>7. ASSUME NEW j \in 2..(n + 1)
      PROVE  k + j - 1 \in DOMAIN s /\ s[k + j - 1] = b[j]
  <2>1. /\ k + j - 1 \in 1..(k + n) /\ ~ (k + j - 1 <= k)
        /\ (k + j - 1) - k = j - 1 /\ j - 1 \in 1..n /\ (j - 1) + 1 = j
    OBVIOUS
  <2>2. s[k + j - 1] = t[j - 1]
    BY <1>4, <2>1
  <2>3. t[j - 1] = b[j]
    BY <1>2, <2>1
  <2> QED BY <1>5, <2>1, <2>2, <2>3
<1>8. \A i \in 1..(k + n) : i \in 1..k \/ i - k + 1 \in 2..(n + 1)
  OBVIOUS
<1>9. Len(b) = n + 1 /\ k + n = Len(a) + Len(b) - 1
  BY <1>1, LenProperties
<1> QED BY <1>1, <1>2, <1>3, <1>4, <1>5, <1>6, <1>7, <1>8, <1>9

\* An archive that has been listed, tested and unpacked is cleared itself,
\* and its entries take its place in front of the others.
LEMMA ExtractKeepsIInv ==
  ASSUME IInv, stage = "extract", Inside[node] # <<>>, ExtractArchive, Cleared(node)
  PROVE  IInv'
<1> DEFINE new == [i \in DOMAIN Inside[node] |-> <<Inside[node][i], depth + 1>>]
           Rest == {todo[j][1] : j \in 2..Len(todo)}
<1>1. /\ todo' = new \o Tail(todo) /\ stage' = "mime"
      /\ UNCHANGED <<given, budget, failure, result>>
      /\ TodoOK /\ Walked /\ BudgetOK /\ Judged /\ failure = "none" /\ SettingsOK
      /\ IsArchive(node) /\ node \in Tree /\ node \in Node
  BY TodoFacts DEF ExtractArchive, IInv, Walking, Judged, ArchiveTools
<1>2. PICK k \in Nat \ {0} :
        /\ k = Len(Inside[node]) /\ DOMAIN Inside[node] = 1..k
        /\ Contents(node) = {Inside[node][i] : i \in 1..k}
        /\ \A i, j \in 1..k : Inside[node][i] = Inside[node][j] => i = j
  <2>1. Inside[node] \in Seq(Node)
    BY <1>1, InsideTyped
  <2>2. DOMAIN Inside[node] = 1..Len(Inside[node]) /\ Len(Inside[node]) \in Nat \ {0}
    BY <2>1, LenProperties, EmptySeq
  <2>3. \A i, j \in DOMAIN Inside[node] : Inside[node][i] = Inside[node][j] => i = j
    BY <1>1, TreeAssumption
  <2> QED BY <1>1, <2>2, <2>3 DEF Contents
<1>3. /\ depth = Depth(node) /\ depth \in Nat
      /\ \A c \in Contents(node) : c \in Tree /\ c \in Node /\ Depth(c) = depth + 1
  BY <1>1, TodoFacts, DepthOfEntry, TreeTyped
<1>4. /\ new \in Seq(Node \X Nat) /\ Len(new) = k
      /\ \A i \in 1..k : new[i] = <<Inside[node][i], depth + 1>>
  <2>1. \A i \in 1..k : Inside[node][i] \in Node /\ depth + 1 \in Nat
    BY <1>2, <1>3
  <2>2. new \in [1..k -> Node \X Nat]
    BY <1>2, <2>1
  <2> QED BY <1>2, <2>2
<1> HIDE DEF new
<1>5. /\ todo' \in Seq(Node \X Nat)
      /\ DOMAIN todo' = 1..(k + Len(todo) - 1)
      /\ \A i \in 1..k : i \in DOMAIN todo' /\ todo'[i] = <<Inside[node][i], depth + 1>>
      /\ \A j \in 2..Len(todo) : k + j - 1 \in DOMAIN todo' /\ todo'[k + j - 1] = todo[j]
      /\ \A i \in DOMAIN todo' : i \in 1..k \/ i - k + 1 \in 2..Len(todo)
  <2>1. /\ todo \in Seq(Node \X Nat) /\ todo # <<>>
        /\ new \in Seq(Node \X Nat) /\ todo' = new \o Tail(todo)
    BY <1>1, <1>4 DEF TodoOK
  <2>2. todo' \in Seq(Node \X Nat)
    BY <2>1, ReplaceHead
  <2>3. DOMAIN todo' = 1..(Len(new) + Len(todo) - 1)
    BY <2>1, ReplaceHead
  <2>4. \A i \in 1..Len(new) : i \in DOMAIN todo' /\ todo'[i] = new[i]
    BY <2>1, ReplaceHead
  <2>5. \A j \in 2..Len(todo) :
          Len(new) + j - 1 \in DOMAIN todo' /\ todo'[Len(new) + j - 1] = todo[j]
    BY <2>1, ReplaceHead
  <2>6. \A i \in DOMAIN todo' : i \in 1..Len(new) \/ i - Len(new) + 1 \in 2..Len(todo)
    BY <2>1, ReplaceHead
  <2> QED BY <1>4, <2>2, <2>3, <2>4, <2>5, <2>6
<1>6. /\ Len(todo) \in Nat \ {0} /\ DOMAIN todo = 1..Len(todo)
      /\ \A j \in 2..Len(todo) : j \in DOMAIN todo /\ j # 1
      /\ \A j \in DOMAIN todo : j = 1 \/ j \in 2..Len(todo)
      /\ 1 \in DOMAIN todo /\ node = todo[1][1]
  BY <1>1, TodoFacts
<1>7. \A i \in DOMAIN todo' :
        \/ i \in 1..k /\ todo'[i] = <<Inside[node][i], depth + 1>>
        \/ \E j \in 2..Len(todo) : j = i - k + 1 /\ i = k + j - 1 /\ todo'[i] = todo[j]
  <2> SUFFICES ASSUME NEW i \in DOMAIN todo', i \notin 1..k
               PROVE  \E j \in 2..Len(todo) :
                        j = i - k + 1 /\ i = k + j - 1 /\ todo'[i] = todo[j]
    BY <1>5
  <2>1. i \in Int /\ i - k + 1 \in 2..Len(todo) /\ k + (i - k + 1) - 1 = i
    BY <1>5, <1>6
  <2> QED BY <1>5, <2>1
<1>8. /\ Rest \in SUBSET Tree /\ \A p \in Rest : Disjoint(node, p)
      /\ Pending = Rest \cup {node}
  <2>1. \A j \in 2..Len(todo) : todo[j][1] \in Tree /\ Disjoint(node, todo[j][1])
    BY <1>1, <1>6 DEF TodoOK
  <2>2. Pending = Rest \cup {node}
    BY <1>6 DEF Pending
  <2> QED BY <2>1, <2>2
<1>9. Pending' = Rest \cup Contents(node)
  <2>1. ASSUME NEW i \in DOMAIN todo' PROVE todo'[i][1] \in Rest \cup Contents(node)
    BY <1>2, <1>7
  <2>2. ASSUME NEW i \in 1..k PROVE \E j \in DOMAIN todo' : Inside[node][i] = todo'[j][1]
    BY <1>5
  <2>3. ASSUME NEW j \in 2..Len(todo) PROVE \E i \in DOMAIN todo' : todo[j][1] = todo'[i][1]
    BY <1>5
  <2> HIDE DEF Rest
  <2>4. Pending' \subseteq Rest \cup Contents(node)
    BY <2>1 DEF Pending
  <2>5. Contents(node) \subseteq Pending'
    BY <1>2, <2>2 DEF Pending
  <2>6. Rest \subseteq Pending'
    BY <2>3 DEF Pending, Rest
  <2> QED BY <2>4, <2>5, <2>6
<1>10. TodoOK'
  <2>1. ASSUME NEW i \in DOMAIN todo'
        PROVE  todo'[i][1] \in Tree /\ todo'[i][2] = Depth(todo'[i][1])
    <3>1. CASE i \in 1..k /\ todo'[i] = <<Inside[node][i], depth + 1>>
      <4>1. todo'[i][1] = Inside[node][i] /\ todo'[i][2] = depth + 1
        BY <3>1
      <4>2. Inside[node][i] \in Contents(node)
        BY <1>2, <3>1
      <4> QED BY <1>3, <4>1, <4>2
    <3>2. CASE \E j \in 2..Len(todo) : todo'[i] = todo[j]
      BY <1>1, <1>6, <3>2 DEF TodoOK
    <3> QED BY <1>7, <3>1, <3>2
  <2>2. \A c \in Contents(node), p \in Rest : Disjoint(c, p) /\ Disjoint(p, c)
    <3>1. \A c \in Contents(node) : Within(c) \subseteq Within(node)
      BY <1>1, WithinUnfolds
    <3> QED BY <1>8, <3>1 DEF Disjoint
  <2>3. \A c, d \in Contents(node) : c # d => Disjoint(c, d)
    BY <1>1, SiblingsAreDisjoint DEF Disjoint
  <2>4. ASSUME NEW i \in DOMAIN todo', NEW j \in DOMAIN todo', i # j
        PROVE  Disjoint(todo'[i][1], todo'[j][1])
    <3> DEFINE Front(m) == m \in 1..k /\ todo'[m][1] = Inside[node][m]
                             /\ todo'[m][1] \in Contents(node)
               Back(m) == \E n \in 2..Len(todo) : m = k + n - 1 /\ todo'[m] = todo[n]
    <3>1. \A m \in DOMAIN todo' : Front(m) \/ Back(m)
      <4> SUFFICES ASSUME NEW m \in DOMAIN todo' PROVE Front(m) \/ Back(m)
        OBVIOUS
      <4>1. CASE m \in 1..k /\ todo'[m] = <<Inside[node][m], depth + 1>>
        BY <1>2, <4>1
      <4>2. CASE \E n \in 2..Len(todo) : m = k + n - 1 /\ todo'[m] = todo[n]
        BY <4>2
      <4> QED BY <1>7, <4>1, <4>2
    <3>2. CASE Front(i) /\ Front(j)
      BY <1>2, <2>3, <2>4, <3>2
    <3>3. CASE Back(i) /\ Back(j)
      BY <1>1, <1>6, <2>4, <3>3 DEF TodoOK
    <3>4. \A m : Back(m) => todo'[m][1] \in Rest
      OBVIOUS
    <3>5. CASE Front(i) /\ Back(j)
      BY <2>2, <3>4, <3>5
    <3>6. CASE Back(i) /\ Front(j)
      BY <2>2, <3>4, <3>6
    <3> QED BY <3>1, <3>2, <3>3, <3>5, <3>6
  <2>5. todo' # <<>>
    <3>1. 1 \in DOMAIN todo'
      BY <1>5
    <3> QED BY <3>1
  <2> QED BY <1>1, <1>5, <2>1, <2>4, <2>5, TodoOKStays
<1> HIDE DEF Rest
<1>11. /\ Unseen = {node} \cup Unseen' /\ Listed' = Listed \cup Contents(node)
       /\ Listed \cap Contents(node) = {}
  <2>1. /\ Reach(Rest \cup {node}) = {node} \cup Reach(Rest \cup Contents(node))
        /\ Apart(Rest \cup Contents(node)) = Apart(Rest \cup {node}) \cup Contents(node)
        /\ Apart(Rest \cup {node}) \cap Contents(node) = {}
    BY <1>1, <1>8, OpeningAnArchive
  <2>2. Unseen' = Reach(Rest \cup Contents(node)) /\ Listed' = Apart(Rest \cup Contents(node))
    BY <1>1, <1>9, GivenStays DEF Unseen, Reach, Listed, Apart
  <2> QED BY <1>8, <2>1, <2>2 DEF Unseen, Listed
<1>12. Walked'
  BY <1>1, <1>11, GivenStays DEF Walked
<1>13. BudgetOK'
  <2>1. /\ IsFiniteSet(Listed) /\ Cardinality(Listed) \in Nat
        /\ IsFiniteSet(Contents(node)) /\ Cardinality(Contents(node)) = k
    BY <1>1, <1>2, TodoFacts, ListingLength
  <2>2. Cardinality(Listed \cup Contents(node)) = Cardinality(Listed) + k
    BY <1>11, <2>1, DisjointUnion
  <2>3. budget = Cardinality(Listed) + k /\ budget \in Nat /\ budget <= maxFiles
    BY <1>1, <1>2 DEF BudgetOK, IInv
  <2> QED BY <1>1, <1>11, <2>1, <2>2, <2>3 DEF BudgetOK, given
<1>14. Judged' /\ SettingsOK' /\ stage' \in Tools /\ stage' # "done" /\ failure' = "none"
  BY <1>1, GivenStays DEF Judged, ArchiveTools, Tools
<1> QED BY <1>10, <1>12, <1>13, <1>14 DEF IInv, Walking, VerdictIsExact

-----------------------------------------------------------------------------

LEMMA GivenOfInit ==
  ASSUME Init
  PROVE  SettingsOK
BY SettingsAssumption DEF Init, SettingsOK, Kinds, Traits

\* The walk starts at the file, with everything before it.
LEMMA InitIInv == Init => IInv
<1> SUFFICES ASSUME Init PROVE IInv
  OBVIOUS
<1>1. stage = "download" /\ budget = 0 /\ failure = "none" /\ todo = << <<Top, 0>> >>
  BY DEF Init
<1>2. DOMAIN todo = {1} /\ todo[1] = <<Top, 0>> /\ Top \in Node
  BY <1>1, TreeAssumption
<1>3. TodoOK
  <2>1. todo \in Seq(Node \X Nat) /\ todo # <<>>
    BY <1>1, <1>2
  <2> QED BY <1>2, <2>1, TreeTyped, DepthOfTop DEF TodoOK
<1>4. Pending = {Top}
  BY <1>2 DEF Pending
<1>5. Unseen = Tree /\ Listed = {}
  BY <1>4 DEF Unseen, Reach, Listed, Apart, Tree, Entries, Below
<1>6. Walked
  BY <1>5 DEF Walked
<1>7. BudgetOK
  BY <1>1, <1>5, GivenOfInit, FS_EmptySet DEF BudgetOK, SettingsOK
<1>8. Judged
  BY <1>1 DEF Judged, ArchiveTools
<1> QED BY <1>1, <1>3, <1>6, <1>7, <1>8, GivenOfInit DEF IInv, Walking, VerdictIsExact

\* One node that is not cleared is enough to refuse the file.
LEMMA OneUnclearedIsEnough ==
  ASSUME IInv, stage # "done", ~ Cleared(node)
  PROVE  ~ Acceptable
BY TodoFacts, AcceptableByNode DEF IInv, Walking

LEMMA NodeFacts ==
  ASSUME IInv, stage # "done"
  PROVE  /\ node \in Node /\ node \in Tree
         /\ trait[node] \in Traits /\ kind[node] \in Kinds
         /\ trait[node] = "frameless" => kind[node] = "video"
         /\ depth = Depth(node) /\ depth \in Nat
         /\ maxDepth \in Nat /\ maxFiles \in Nat /\ moderation \in BOOLEAN
BY TodoFacts, DepthOfEntry DEF IInv, Walking, SettingsOK

LEMMA DownloadKeepsIInv ==
  ASSUME IInv, SkipInspection \/ Download \/ DownloadFails
  PROVE  IInv'
<1>1. stage = "download" /\ stage # "done"
  BY DEF SkipInspection, Download, DownloadFails
<1>2. CASE SkipInspection
  BY <1>1, <1>2, VerdictKeepsIInv DEF SkipInspection, Conclude
<1>3. CASE Download
  <2>1. Judged'
    BY <1>3 DEF Download, Continue, Judged, ArchiveTools
  <2> QED BY <1>1, <1>3, <2>1, ContinueKeepsIInv DEF Download, Continue, Tools
<1>4. CASE DownloadFails
  BY <1>1, <1>4, VerdictKeepsIInv DEF DownloadFails
<1> QED BY <1>2, <1>3, <1>4

LEMMA MimeKeepsIInv ==
  ASSUME IInv, RefuseIrregular \/ DetectMIME
  PROVE  IInv'
<1>1. stage = "mime" /\ stage # "done"
  BY DEF RefuseIrregular, DetectMIME
<1>2. CASE Block /\ trait[node] \in {"irregular", "denied"}
  <2>1. ~ Cleared(node)
    BY <1>2 DEF Cleared, Innocent
  <2> QED BY <1>1, <1>2, <2>1, OneUnclearedIsEnough, BlockKeepsIInv
<1>3. CASE Continue("virus") /\ trait[node] \notin {"irregular", "denied"}
  <2>1. Judged'
    BY <1>1, <1>3, WalkStays DEF Continue, given, Judged, ArchiveTools
  <2> QED BY <1>1, <1>3, <2>1, ContinueKeepsIInv DEF Continue, Tools
<1> QED BY <1>2, <1>3 DEF RefuseIrregular, DetectMIME

LEMMA VirusKeepsIInv ==
  ASSUME IInv, ScanAntivirus
  PROVE  IInv'
<1>1. stage = "virus" /\ stage # "done" /\ Judged
  BY DEF ScanAntivirus, IInv, Walking
<1>2. CASE Block /\ trait[node] = "infected"
  <2>1. ~ Cleared(node)
    BY <1>2 DEF Cleared, Innocent
  <2> QED BY <1>1, <1>2, <2>1, OneUnclearedIsEnough, BlockKeepsIInv
<1>3. CASE Continue(AfterVirus) /\ trait[node] # "infected"
  <2>1. /\ AfterVirus \in {"list", "media", "moderate"}
        /\ AfterVirus = "list" => IsArchive(node)
        /\ AfterVirus = "media" => kind[node] \in {"image", "audio", "video"}
        /\ AfterVirus = "moderate" => kind[node] = "other"
    BY <1>1, NodeFacts DEF AfterVirus, IsArchive, Kinds
  <2>2. stage' = AfterVirus /\ UNCHANGED <<given, todo>> /\ UNCHANGED <<kind, trait>>
    BY <1>3 DEF Continue, given
  <2> HIDE DEF AfterVirus
  <2>3. Judged'
    BY <1>1, <1>3, <2>1, <2>2, WalkStays, NodeFacts DEF Judged, ArchiveTools
  <2>4. AfterVirus \in Tools /\ AfterVirus \notin {"test", "extract"}
    BY <2>1 DEF Tools, ArchiveTools
  <2> QED BY <1>1, <1>3, <2>2, <2>3, <2>4, ContinueKeepsIInv
<1> QED BY <1>2, <1>3 DEF ScanAntivirus

LEMMA ListKeepsIInv ==
  ASSUME IInv, ListArchive
  PROVE  IInv'
<1> DEFINE files == Len(Inside[node])
<1>1. /\ stage = "list" /\ stage # "done" /\ Judged /\ IsArchive(node)
      /\ TodoOK /\ Walked /\ failure = "none"
      /\ budget = Cardinality(Listed) /\ budget \in Nat
  BY TodoFacts DEF ListArchive, IInv, Walking, Judged, ArchiveTools, BudgetOK
<1>2. /\ node \in Node /\ files \in Nat
      /\ IsFiniteSet(Contents(node)) /\ Cardinality(Contents(node)) = files
  BY <1>1, NodeFacts, ListingLength
<1> HIDE DEF files
<1>3. CASE Block /\ (depth + 1 > maxDepth \/ trait[node] = "broken")
  <2>1. ~ Cleared(node)
    BY <1>1, <1>3, NodeFacts DEF Cleared, Innocent, IsArchive
  <2> QED BY <1>1, <1>3, <2>1, OneUnclearedIsEnough, BlockKeepsIInv
<1>4. CASE Block /\ budget > maxFiles - files
  <2>1. /\ node \in Pending /\ node \in Tree
        /\ Listed \in SUBSET Entries /\ IsFiniteSet(Listed) /\ IsFiniteSet(Entries)
        /\ Cardinality(Listed) \in Nat /\ Cardinality(Entries) \in Nat
    BY <1>1, TodoFacts
  <2>2. Contents(node) \subseteq Below(node) /\ Contents(node) \subseteq Entries
    BY <2>1, EntriesBelow
  <2>3. Listed \cap Contents(node) = {}
    BY <2>1, <2>2 DEF Listed, Apart
  <2>4. Cardinality(Listed \cup Contents(node)) = Cardinality(Listed) + files
    BY <1>2, <2>1, <2>3, DisjointUnion
  <2>5. Cardinality(Listed \cup Contents(node)) <= Cardinality(Entries)
    BY <2>1, <2>2, FS_Subset
  <2>6. Cardinality(Entries) > maxFiles
    BY <1>1, <1>2, <1>4, <2>1, <2>4, <2>5, NodeFacts
  <2>7. ~ Acceptable
    BY <2>1, <2>6, NodeFacts, <1>1, AcceptableByNode
  <2> QED BY <1>1, <1>4, <2>7, BlockKeepsIInv
<1>5. CASE /\ ~ (depth + 1 > maxDepth) /\ trait[node] # "broken"
           /\ ~ (budget > maxFiles - files)
           /\ budget' = budget + files /\ stage' = "test"
           /\ UNCHANGED <<given, todo, failure, result>>
  <2>1. /\ SettingsOK' /\ TodoOK' /\ Walked' /\ node' = node /\ Listed' = Listed
        /\ IsArchive(node)' = IsArchive(node) /\ Depth(node)' = Depth(node)
    BY <1>1, <1>5, WalkStays
  <2>2. BudgetOK'
    BY <1>1, <1>2, <1>5, <2>1, NodeFacts DEF BudgetOK, given, files
  <2>3. Judged'
    BY <1>1, <1>5, <2>1, NodeFacts DEF Judged, ArchiveTools, given
  <2> QED BY <1>1, <1>5, <2>1, <2>2, <2>3
             DEF IInv, Walking, VerdictIsExact, Tools, ArchiveTools
<1> QED BY <1>3, <1>4, <1>5 DEF ListArchive, files

\* What the stages have found out about the node that passes.
LEMMA UnpackedIsCleared ==
  ASSUME IInv, stage = "extract"
  PROVE  Cleared(node)
BY NodeFacts DEF IInv, Walking, Judged, ArchiveTools, Cleared, Innocent, IsArchive, Traits

LEMMA ModeratedIsCleared ==
  ASSUME IInv, stage = "moderate", ~ (moderation /\ trait[node] = "banned")
  PROVE  Cleared(node) /\ ~ IsArchive(node)
BY NodeFacts DEF IInv, Walking, Judged, ArchiveTools, Cleared, Innocent, IsArchive, Traits

LEMMA UnpackKeepsIInv ==
  ASSUME IInv, TestArchive \/ ExtractArchive
  PROVE  IInv'
<1>1. CASE TestArchive
  <2>1. stage = "test" /\ stage # "done" /\ Continue("extract") /\ Judged
    BY <1>1 DEF TestArchive, IInv, Walking
  <2>2. Judged'
    BY <2>1, WalkStays DEF Continue, given, Judged, ArchiveTools
  <2> QED BY <2>1, <2>2, ContinueKeepsIInv DEF Continue, Tools, ArchiveTools
<1>2. CASE ExtractArchive /\ Inside[node] # <<>>
  BY <1>2, UnpackedIsCleared, ExtractKeepsIInv DEF ExtractArchive
<1>3. CASE ExtractArchive /\ Inside[node] = <<>>
  <2>1. /\ stage = "extract" /\ stage # "done" /\ Pass
        /\ TodoOK /\ BudgetOK /\ IsArchive(node)
    BY <1>3 DEF ExtractArchive, IInv, Walking, Judged, ArchiveTools
  <2>2. Len(Inside[node]) = 0
    BY <1>3, EmptySeq
  <2>3. Contents(node) = {}
    BY <2>1, <2>2, NodeFacts, ListingLength, FS_EmptySet
  <2>4. budget = Cardinality(Listed)
    BY <2>1, <2>2, TodoFacts DEF BudgetOK
  <2> QED BY <2>1, <2>3, <2>4, UnpackedIsCleared, PassKeepsIInv
<1> QED BY <1>1, <1>2, <1>3

LEMMA MediaKeepsIInv ==
  ASSUME IInv, ValidateMedia \/ SampleFrames
  PROVE  IInv'
<1>1. /\ stage \in {"media", "frames"} /\ stage # "done" /\ Judged
      /\ trait[node] \notin {"irregular", "denied", "infected"}
      /\ kind[node] \in {"image", "audio", "video"}
      /\ stage = "frames" => trait[node] # "broken"
  BY DEF ValidateMedia, SampleFrames, IInv, Walking, Judged
<1>2. CASE Block /\ \/ trait[node] = "broken"
                    \/ trait[node] = "frameless" /\ moderation
  <2>1. ~ Cleared(node)
    BY <1>1, <1>2 DEF Cleared, Innocent
  <2> QED BY <1>1, <1>2, <2>1, OneUnclearedIsEnough, BlockKeepsIInv
<1>3. CASE Continue("frames") /\ trait[node] # "broken" /\ moderation
  <2>1. Judged'
    BY <1>1, <1>3, WalkStays DEF Continue, given, Judged, ArchiveTools
  <2> QED BY <1>1, <1>3, <2>1, ContinueKeepsIInv DEF Continue, Tools
<1>4. CASE /\ Continue("moderate") /\ trait[node] # "broken"
           /\ moderation => trait[node] # "frameless"
  <2>1. Judged'
    BY <1>1, <1>4, WalkStays DEF Continue, given, Judged, ArchiveTools
  <2> QED BY <1>1, <1>4, <2>1, ContinueKeepsIInv DEF Continue, Tools
<1>5. CASE ValidateMedia
  BY <1>2, <1>3, <1>4, <1>5, NodeFacts, <1>1 DEF ValidateMedia
<1>6. CASE SampleFrames
  <2>1. stage = "frames" /\ trait[node] # "broken" /\ moderation
    BY <1>1, <1>6 DEF SampleFrames, IInv, Walking, Judged
  <2> QED BY <1>2, <1>4, <1>6, <2>1 DEF SampleFrames
<1> QED BY <1>5, <1>6

LEMMA ModerateKeepsIInv ==
  ASSUME IInv, Moderate
  PROVE  IInv'
<1>1. stage = "moderate" /\ stage # "done" /\ TodoOK /\ BudgetOK
  BY DEF Moderate, IInv, Walking
<1>2. CASE Block /\ moderation /\ trait[node] = "banned"
  <2>1. ~ Cleared(node)
    BY <1>1, <1>2, NodeFacts DEF IInv, Walking, Judged, Cleared, Innocent, IsArchive
  <2> QED BY <1>1, <1>2, <2>1, OneUnclearedIsEnough, BlockKeepsIInv
<1>3. CASE Pass /\ ~ (moderation /\ trait[node] = "banned")
  <2>1. Cleared(node) /\ Contents(node) = {}
    BY <1>1, <1>3, ModeratedIsCleared DEF Contents
  <2>2. budget = Cardinality(Listed)
    BY <1>1, TodoFacts DEF BudgetOK
  <2> QED BY <1>1, <1>3, <2>1, <2>2, PassKeepsIInv
<1> QED BY <1>2, <1>3 DEF Moderate

\* A tool that fails never approves.
LEMMA FailureKeepsIInv ==
  ASSUME IInv, NEW how \in Failures, ToolFails(how)
  PROVE  IInv'
<1>1. stage # "done" /\ stage' = "done" /\ UNCHANGED given
  BY DEF ToolFails, Runs, Tools, ArchiveTools
<1>2. failure' # "none" /\ result' # "approved"
  BY DEF ToolFails, VerdictOfFailure, Failures
<1> QED BY <1>1, <1>2, VerdictKeepsIInv

LEMMA NextIInv == IInv /\ [Next]_vars => IInv'
<1> SUFFICES ASSUME IInv, [Next]_vars PROVE IInv'
  OBVIOUS
<1>1. CASE Next
  BY <1>1, DownloadKeepsIInv, MimeKeepsIInv, VirusKeepsIInv, ListKeepsIInv, UnpackKeepsIInv,
     MediaKeepsIInv, ModerateKeepsIInv, FailureKeepsIInv DEF Next
<1>2. CASE UNCHANGED vars
  <2>1. UNCHANGED given /\ UNCHANGED <<todo, stage, budget, failure, result>>
    BY <1>2 DEF vars
  <2>2. SettingsOK' /\ Acceptable' = Acceptable /\ enabled' = enabled
    BY <2>1, GivenStays DEF IInv, given
  <2>3. VerdictIsExact'
    BY <2>1, <2>2 DEF IInv, VerdictIsExact
  <2>4. CASE stage = "done"
    BY <2>1, <2>2, <2>3, <2>4 DEF IInv
  <2>5. CASE stage # "done"
    <3>1. TodoOK' /\ Walked' /\ node' = node /\ Listed' = Listed /\ Walking
          /\ \A n : IsArchive(n)' = IsArchive(n) /\ Depth(n)' = Depth(n)
      BY <2>1, <2>5, WalkStays DEF IInv
    <3>2. BudgetOK' /\ Judged'
      BY <2>1, <3>1 DEF Walking, BudgetOK, Judged, given
    <3> QED BY <2>1, <2>2, <2>3, <3>1, <3>2 DEF IInv, Walking
  <2> QED BY <2>4, <2>5
<1> QED BY <1>1, <1>2

THEOREM ScanInvariance == Spec => []IInv
<1> QED BY InitIInv, NextIInv, PTL DEF Spec

\* VerdictIsExact: whatever the nesting and the order of the entries, the
\* walk approves a file exactly when all of it is acceptable and no tool
\* has failed.
THEOREM VerdictExact == Spec => []VerdictIsExact
<1>1. IInv => VerdictIsExact
  BY DEF IInv
<1> QED BY <1>1, ScanInvariance, PTL
=============================================================================

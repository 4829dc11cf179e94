--------------------------- MODULE FoldersProofs ---------------------------
(***************************************************************************)
(* Proofs for any folders, files, deletions and faults: rows and objects   *)
(* are left behind only by what was created while a folder was deleted,    *)
(* and a public archive holds only what is below its folder.               *)
(***************************************************************************)
EXTENDS Folders, TLAPS

\* A folder and what was created in it have one owner.
OneOwner ==
  /\ \A d \in Folder : parent[d] # Root => owner[parent[d]] = owner[d]
  /\ \A f \in File : place[f] # Root => owner[place[f]] = owner[f]

\* An item is inserted once, and in the folder it was looked up with.
InsertedOnce ==
  /\ \A i \in folders \cup files \cup removed : request[i] = "done"
  /\ \A r \in Request : removal[r].doomed \subseteq files \cup removed
  /\ \A d \in Folder : request[d] = "new" => parent[d] = Root

HasPlace(i) ==
  /\ i \in Folder => parent[i] \in folders \cup {Root}
  /\ i \in File => place[i] \in folders \cup {Root}

\* Between its lookup and its insertion an item may lose its folder, but only
\* to a deletion that it overlaps.
CheckedIsKnown ==
  \A i \in Item :
    request[i] = "checked" /\ i \notin overlapped => Reading = {} /\ HasPlace(i)

\* What a deletion has read is all there was, but for what overlaps it.
ReadingIsComplete ==
  \A r \in Request :
    /\ \A d \in removal[r].tree : owner[d] = owner[removal[r].root]
    /\ r \in Reading =>
         \A d \in folders \ overlapped :
           parent[d] \in removal[r].tree => d \in removal[r].tree
    /\ removal[r].stage = "selected" =>
         FilesBelow(r) \subseteq removal[r].found \cup overlapped
    /\ removal[r].stage = "deleting" =>
         /\ FilesBelow(r) \subseteq removal[r].doomed \cup overlapped
         /\ removal[r].doomed \subseteq removal[r].found \cup overlapped
    /\ removal[r].stage \in {"new", "tree", "selected"} => removal[r].doomed = {}

TreeInv ==
  /\ OneOwner /\ InsertedOnce
  /\ CheckedIsKnown /\ ReadingIsComplete
  /\ OrphansNeedOverlap /\ LeftoversNeedOverlap

Published(f) ==
  /\ f \in approved /\ request[f] = "done"
  /\ place[f] # Root /\ Above(place[f])
  /\ owner[f] = owner[archive.root]

\* Each of the four reads of an archive keeps below the published folder.
ArchiveInv ==
  /\ archive.stage = "new" =>
       archive.tree = {} /\ archive.list = {} /\ archive.sent = {}
  /\ \A d \in archive.tree : Above(d) /\ owner[d] = owner[archive.root]
  /\ \A f \in archive.list \cup archive.sent : Published(f)

IInv == TypeOK /\ TreeInv /\ ArchiveInv

----------------------------------------------------------------------------
(***************************************************************************)
(* Types.                                                                  *)
(***************************************************************************)

USE RootAssumption, FaultsAssumption

LEMMA FaultCounted ==
  ASSUME faults \in 0..MaxFaults, NEW kind, Fault(kind)
  PROVE  faults' \in 0..MaxFaults /\ faults' # 0
BY DEF Fault

LEMMA SubtreeOfRows ==
  ASSUME NEW d
  PROVE  Subtree(d) \subseteq folders
BY DEF Subtree

LEMMA CreateTypes ==
  ASSUME TypeOK, Create
  PROVE  TypeOK'
<1> USE FaultCounted DEF TypeOK, Item, treeVars, ghosts
<1>1. ASSUME NEW d \in Folder, NEW p \in FolderId, CheckParent(d, p)
      PROVE  TypeOK'
  BY <1>1 DEF CheckParent, Pass, HasFolder
<1>2. ASSUME NEW d \in Folder, InsertFolder(d)
      PROVE  TypeOK'
  BY <1>2 DEF InsertFolder
<1>3. ASSUME NEW d \in Folder, ChangeFolderPermission(d)
      PROVE  TypeOK'
  BY <1>3 DEF ChangeFolderPermission
<1>4. ASSUME NEW f \in File, NEW d \in FolderId, StoreObject(f, d)
      PROVE  TypeOK'
  BY <1>4 DEF StoreObject, HasFolder
<1>5. ASSUME NEW f \in File, CheckFolder(f)
      PROVE  TypeOK'
  BY <1>5 DEF CheckFolder, Pass
<1>6. ASSUME NEW f \in File, InsertFile(f) \/ RollBackUpload(f) \/ Approve(f)
      PROVE  TypeOK'
  BY <1>6 DEF InsertFile, RollBackUpload, Approve
<1> QED BY <1>1, <1>2, <1>3, <1>4, <1>5, <1>6 DEF Create

Removal == [stage  : {"new", "tree", "selected", "deleting", "objects", "done"},
            root   : Folder \cup {Root},
            tree   : SUBSET Folder,
            found  : SUBSET File,
            doomed : SUBSET File]

LEMMA RemovalIsTyped ==
  ASSUME TypeOK, NEW r \in Request, NEW m \in Removal,
         removal' = [removal EXCEPT ![r] = m]
  PROVE  removal' \in [Request -> Removal]
<1>1. removal \in [Request -> Removal]
  BY DEF TypeOK, Removal
<1> QED BY <1>1

LEMMA RemoveTypes ==
  ASSUME TypeOK, Remove
  PROVE  TypeOK'
<1>0. removal \in [Request -> Removal]
  BY DEF TypeOK, Removal
<1>1. ASSUME NEW r \in Request, NEW d \in Folder, ReadTree(r, d)
      PROVE  TypeOK'
  <2> DEFINE m == [NoRemoval EXCEPT !.stage = "tree", !.root = d, !.tree = Subtree(d)]
  <2>1. Subtree(d) \in SUBSET Folder
    BY SubtreeOfRows DEF TypeOK
  <2>2. m \in Removal
    BY <2>1 DEF NoRemoval, Removal
  <2>3. removal' \in [Request -> Removal]
    BY <1>1, <2>2, RemovalIsTyped DEF ReadTree
  <2> QED BY <1>1, <2>3 DEF ReadTree, TypeOK, Removal, Item, treeVars
<1>2. ASSUME NEW r \in Request, SelectFiles(r) \/ DeleteFilesInFolders(r)
      PROVE  TypeOK'
  <2>1. FilesBelow(r) \in SUBSET File
    BY DEF FilesBelow, TypeOK
  <2>2. CASE SelectFiles(r)
    <3> DEFINE m == [removal[r] EXCEPT !.stage = "selected", !.found = FilesBelow(r)]
    <3>1. m \in Removal
      BY <1>0, <2>1 DEF Removal
    <3>2. removal' = [removal EXCEPT ![r] = m]
      BY <1>0, <2>2 DEF SelectFiles, Removal
    <3> QED BY <2>2, <3>1, <3>2, RemovalIsTyped
          DEF SelectFiles, TypeOK, Removal, Item, treeVars, ghosts
  <2>3. CASE DeleteFilesInFolders(r)
    <3> DEFINE m == [removal[r] EXCEPT !.stage = "deleting", !.doomed = FilesBelow(r)]
    <3>1. m \in Removal
      BY <1>0, <2>1 DEF Removal
    <3>2. removal' = [removal EXCEPT ![r] = m]
      BY <1>0, <2>3 DEF DeleteFilesInFolders, Removal
    <3> QED BY <2>3, <3>1, <3>2, RemovalIsTyped
          DEF DeleteFilesInFolders, TypeOK, Removal, Item, treeVars, ghosts
  <2> QED BY <1>2, <2>2, <2>3
<1>3. ASSUME NEW r \in Request, CommitRemoval(r)
      PROVE  TypeOK'
  <2>1. removal' \in [Request -> Removal]
    BY <1>0, <1>3 DEF CommitRemoval, Removal
  <2>2. removal[r].doomed \subseteq File
    BY <1>0 DEF Removal
  <2> QED BY <1>3, <2>1, <2>2 DEF CommitRemoval, TypeOK, Removal, Item
<1>4. ASSUME NEW r \in Request, AbortRemoval(r) \/ CrashRemoval(r)
      PROVE  TypeOK'
  <2> DEFINE m == [NoRemoval EXCEPT !.stage = "done"]
  <2>1. m \in Removal
    BY DEF NoRemoval, Removal
  <2>2. removal' = [removal EXCEPT ![r] = m] /\ faults' \in 0..MaxFaults
    BY <1>4, FaultCounted DEF AbortRemoval, CrashRemoval, TypeOK
  <2>3. removal' \in [Request -> Removal]
    BY <2>1, <2>2, RemovalIsTyped
  <2> QED BY <1>4, <2>2, <2>3
        DEF AbortRemoval, CrashRemoval, TypeOK, Removal, Item, treeVars, ghosts
<1>5. ASSUME NEW r \in Request, RemoveNextObject(r)
      PROVE  TypeOK'
  <2>1. removal' \in [Request -> Removal]
    BY <1>0, <1>5 DEF RemoveNextObject, Removal
  <2>2. objects' \subseteq objects /\ faults' \in 0..MaxFaults
    BY <1>5, FaultCounted DEF RemoveNextObject, TypeOK
  <2> QED BY <1>5, <2>1, <2>2 DEF RemoveNextObject, TypeOK, Removal, Item, treeVars, ghosts
<1>6. ASSUME NEW f \in File, DeleteFile(f) \/ DeleteFileObject(f)
      PROVE  TypeOK'
  BY <1>6, FaultCounted DEF DeleteFile, DeleteFileObject, TypeOK, Item, treeVars, ghosts
<1> QED BY <1>1, <1>2, <1>3, <1>4, <1>5, <1>6 DEF Remove

LEMMA VisitTypes ==
  ASSUME TypeOK, Visit
  PROVE  TypeOK'
<1> USE DEF TypeOK, Item, treeVars, ghosts
<1>1. ASSUME NEW d \in Folder, GetPublicFolder(d)
      PROVE  TypeOK'
  BY <1>1 DEF GetPublicFolder
<1>2. CASE ReadArchiveTree
  <2>1. Subtree(archive.root) \in SUBSET Folder
    BY SubtreeOfRows
  <2> QED BY <1>2, <2>1 DEF ReadArchiveTree
<1>3. CASE ListFiles
  BY <1>3 DEF ListFiles
<1>4. ASSUME NEW f \in File, StreamFile(f)
      PROVE  TypeOK'
  BY <1>4 DEF StreamFile
<1> QED BY <1>1, <1>2, <1>3, <1>4 DEF Visit

----------------------------------------------------------------------------
(***************************************************************************)
(* The tree that the recursive query returns.                              *)
(***************************************************************************)

\* It belongs to one owner, and holds that owner's children of its members.
LEMMA SubtreeIsClosed ==
  ASSUME NEW d
  PROVE  /\ \A c \in Subtree(d) : owner[c] = owner[d]
         /\ \A x \in folders : parent[x] \in Subtree(d) /\ owner[x] = owner[d]
                               => x \in Subtree(d)
<1>1. ASSUME NEW c \in Subtree(d)
      PROVE  owner[c] = owner[d]
  <2> DEFINE S == {x \in folders : owner[x] = owner[d]}
  <2>1. S \in SUBSET folders /\ d \in S
    BY <1>1 DEF Subtree
  <2>2. \A x \in folders : parent[x] \in S /\ owner[x] = owner[d] => x \in S
    OBVIOUS
  <2>3. c \in S
    BY <1>1, <2>1, <2>2 DEF Subtree
  <2> QED BY <2>3
<1>2. ASSUME NEW x \in folders, parent[x] \in Subtree(d), owner[x] = owner[d]
      PROVE  x \in Subtree(d)
  <2>1. d \in folders
    BY <1>2 DEF Subtree
  <2>2. ASSUME NEW S \in SUBSET folders, d \in S,
               \A y \in folders : parent[y] \in S /\ owner[y] = owner[d] => y \in S
        PROVE  x \in S
    <3>1. parent[x] \in S
      BY <1>2, <2>2 DEF Subtree
    <3> QED BY <1>2, <2>2, <3>1
  <2> QED BY <2>1, <2>2 DEF Subtree
<1> QED BY <1>1, <1>2

\* All of it is below the folder that the archive was asked for.
LEMMA SubtreeIsBelow ==
  ASSUME TypeOK, NEW c \in Subtree(archive.root)
  PROVE  Above(c)
<1> DEFINE S == {x \in folders : Above(x)}
<1>1. archive.root \in S
  BY DEF Subtree, Above
<1>2. ASSUME NEW x \in folders, parent[x] \in S
      PROVE  x \in S
  BY <1>2 DEF Above, TypeOK
<1>3. S \in SUBSET folders
  OBVIOUS
<1>4. c \in S
  BY <1>1, <1>2, <1>3 DEF Subtree
<1> QED BY <1>4

----------------------------------------------------------------------------
(***************************************************************************)
(* What is left behind.                                                    *)
(***************************************************************************)

LEMMA LookupKeepsTree ==
  ASSUME TypeOK, TreeInv,
         \/ \E d \in Folder, p \in FolderId : CheckParent(d, p)
         \/ \E f \in File : CheckFolder(f)
  PROVE  TreeInv'
<1> USE DEF TypeOK, TreeInv, Item, treeVars
<1>1. ASSUME NEW d \in Folder, NEW p \in FolderId, CheckParent(d, p)
      PROVE  TreeInv'
  <2> USE <1>1 DEF CheckParent, Pass, HasFolder
  <2>1. OneOwner'
    BY DEF OneOwner
  <2>2. InsertedOnce' /\ d \notin folders
    BY DEF InsertedOnce
  <2>3. CheckedIsKnown'
    BY DEF CheckedIsKnown, HasPlace, Reading
  <2>4. ReadingIsComplete'
    BY <2>2 DEF ReadingIsComplete, FilesBelow, Reading
  <2>5. OrphansNeedOverlap' /\ LeftoversNeedOverlap'
    BY <2>2 DEF OrphansNeedOverlap, Orphans, LeftoversNeedOverlap, Leftovers
  <2> QED BY <2>1, <2>2, <2>3, <2>4, <2>5
<1>2. ASSUME NEW f \in File, CheckFolder(f)
      PROVE  TreeInv'
  <2> USE <1>2 DEF CheckFolder, Pass, HasFolder
  <2>1. OneOwner'
    BY DEF OneOwner
  <2>2. InsertedOnce'
    BY DEF InsertedOnce
  <2>3. CheckedIsKnown'
    BY DEF CheckedIsKnown, HasPlace, Reading
  <2>4. ReadingIsComplete'
    BY DEF ReadingIsComplete, FilesBelow, Reading
  <2>5. OrphansNeedOverlap' /\ LeftoversNeedOverlap'
    BY DEF OrphansNeedOverlap, Orphans, LeftoversNeedOverlap, Leftovers
  <2> QED BY <2>1, <2>2, <2>3, <2>4, <2>5
<1> QED BY <1>1, <1>2

LEMMA InsertKeepsTree ==
  ASSUME TypeOK, TreeInv,
         (\E d \in Folder : InsertFolder(d)) \/ (\E f \in File : InsertFile(f))
  PROVE  TreeInv'
<1> USE DEF TypeOK, TreeInv, Item, ghosts
<1>1. ASSUME NEW d \in Folder, InsertFolder(d)
      PROVE  TreeInv'
  <2> USE <1>1 DEF InsertFolder
  <2>1. d \in overlapped \/ (Reading = {} /\ parent[d] \in folders \cup {Root})
    BY DEF CheckedIsKnown, HasPlace
  <2>2. OneOwner' /\ InsertedOnce'
    BY DEF OneOwner, InsertedOnce
  <2>3. CheckedIsKnown'
    BY DEF CheckedIsKnown, HasPlace, Reading
  <2>4. ReadingIsComplete'
    BY <2>1 DEF ReadingIsComplete, FilesBelow, Reading
  <2>5. OrphansNeedOverlap'
    BY <2>1 DEF OrphansNeedOverlap, Orphans
  <2>6. LeftoversNeedOverlap'
    BY FaultCounted DEF LeftoversNeedOverlap, Leftovers
  <2> QED BY <2>2, <2>3, <2>4, <2>5, <2>6
<1>2. ASSUME NEW f \in File, InsertFile(f)
      PROVE  TreeInv'
  <2> USE <1>2 DEF InsertFile
  <2>1. f \in overlapped \/ (Reading = {} /\ place[f] \in folders \cup {Root})
    BY DEF CheckedIsKnown, HasPlace
  <2>2. OneOwner' /\ InsertedOnce'
    BY DEF OneOwner, InsertedOnce
  <2>3. CheckedIsKnown'
    BY DEF CheckedIsKnown, HasPlace, Reading
  <2>4. ReadingIsComplete'
    BY <2>1 DEF ReadingIsComplete, FilesBelow, Reading
  <2>5. OrphansNeedOverlap' /\ LeftoversNeedOverlap'
    BY <2>1 DEF OrphansNeedOverlap, Orphans, LeftoversNeedOverlap, Leftovers
  <2> QED BY <2>2, <2>3, <2>4, <2>5
<1> QED BY <1>1, <1>2

LEMMA UploadKeepsTree ==
  ASSUME TypeOK, TreeInv, NEW f \in File,
         (\E d \in FolderId : StoreObject(f, d)) \/ RollBackUpload(f) \/ Approve(f)
  PROVE  TreeInv'
<1> USE DEF TypeOK, TreeInv, Item, treeVars, ghosts
<1>1. ASSUME NEW d \in FolderId, StoreObject(f, d)
      PROVE  TreeInv'
  <2> USE <1>1 DEF StoreObject, HasFolder
  <2>1. f \notin files \cup removed
    BY DEF InsertedOnce
  <2>2. OneOwner' /\ InsertedOnce'
    BY DEF OneOwner, InsertedOnce
  <2>3. CheckedIsKnown'
    BY DEF CheckedIsKnown, HasPlace, Reading
  <2>4. ReadingIsComplete'
    BY <2>1 DEF ReadingIsComplete, FilesBelow, Reading
  <2>5. OrphansNeedOverlap' /\ LeftoversNeedOverlap'
    BY <2>1 DEF OrphansNeedOverlap, Orphans, LeftoversNeedOverlap, Leftovers
  <2> QED BY <2>2, <2>3, <2>4, <2>5
<1>2. CASE RollBackUpload(f) \/ Approve(f)
  <2> USE <1>2 DEF RollBackUpload, Approve
  <2>1. OneOwner' /\ InsertedOnce'
    BY DEF OneOwner, InsertedOnce
  <2>2. CheckedIsKnown'
    BY DEF CheckedIsKnown, HasPlace, Reading
  <2>3. ReadingIsComplete'
    BY DEF ReadingIsComplete, FilesBelow, Reading
  <2>4. OrphansNeedOverlap'
    BY DEF OrphansNeedOverlap, Orphans
  <2>5. LeftoversNeedOverlap'
    BY FaultCounted DEF LeftoversNeedOverlap, Leftovers
  <2> QED BY <2>1, <2>2, <2>3, <2>4, <2>5
<1> QED BY <1>1, <1>2

LEMMA ReadingKeepsTree ==
  ASSUME TypeOK, TreeInv, NEW r \in Request,
         (\E d \in Folder : ReadTree(r, d)) \/ SelectFiles(r) \/ DeleteFilesInFolders(r)
  PROVE  TreeInv'
<1> USE DEF TypeOK, TreeInv, Item, treeVars, ghosts
<1>1. ASSUME NEW d \in Folder, ReadTree(r, d)
      PROVE  TreeInv'
  <2>1. /\ removal[r].stage = "new" /\ d \in folders
        /\ removal' = [removal EXCEPT ![r] = removal'[r]]
        /\ removal'[r].stage = "tree" /\ removal'[r].root = d
        /\ removal'[r].tree = Subtree(d)
        /\ removal'[r].found = {} /\ removal'[r].doomed = {}
        /\ overlapped' = overlapped \cup {i \in Item : request[i] = "checked"}
        /\ UNCHANGED <<folders, parent, files, place, owner, objects, request, deletion,
                       removed, faults>>
    BY <1>1 DEF ReadTree, NoRemoval
  <2>2. OneOwner' /\ InsertedOnce'
    BY <2>1 DEF OneOwner, InsertedOnce
  <2>3. CheckedIsKnown'
    BY <2>1 DEF CheckedIsKnown
  <2>4. ReadingIsComplete'
    <3>1. ASSUME NEW x \in folders, parent[x] \in Subtree(d)
          PROVE  x \in Subtree(d)
      <4>1. parent[x] \in folders /\ owner[parent[x]] = owner[d]
        BY <3>1, SubtreeOfRows, SubtreeIsClosed
      <4>2. owner[x] = owner[d]
        BY <4>1 DEF OneOwner
      <4> QED BY <3>1, <4>2, SubtreeIsClosed
    <3>2. \A x \in Subtree(d) : owner[x] = owner[d]
      BY SubtreeIsClosed
    <3>3. \A q \in Request \ {r} : /\ removal'[q] = removal[q]
                                   /\ FilesBelow(q)' = FilesBelow(q)
                                   /\ q \in Reading' <=> q \in Reading
      BY <2>1 DEF FilesBelow, Reading
    <3> QED BY <2>1, <3>1, <3>2, <3>3 DEF ReadingIsComplete
  <2>5. OrphansNeedOverlap' /\ LeftoversNeedOverlap'
    BY <2>1 DEF OrphansNeedOverlap, Orphans, LeftoversNeedOverlap, Leftovers,
                ReadingIsComplete
  <2> QED BY <2>2, <2>3, <2>4, <2>5
<1>2. CASE SelectFiles(r)
  <2> USE <1>2 DEF SelectFiles
  <2>1. removal[r].doomed = {}
    BY DEF ReadingIsComplete
  <2>2. OneOwner' /\ InsertedOnce'
    BY <2>1 DEF OneOwner, InsertedOnce
  <2>3. CheckedIsKnown'
    BY DEF CheckedIsKnown, HasPlace, Reading
  <2>4. ReadingIsComplete'
    BY <2>1 DEF ReadingIsComplete, FilesBelow, Reading
  <2>5. OrphansNeedOverlap' /\ LeftoversNeedOverlap'
    BY <2>1 DEF OrphansNeedOverlap, Orphans, LeftoversNeedOverlap, Leftovers
  <2> QED BY <2>2, <2>3, <2>4, <2>5
<1>3. CASE DeleteFilesInFolders(r)
  <2> USE <1>3 DEF DeleteFilesInFolders
  <2>1. removal[r].doomed = {}
    BY DEF ReadingIsComplete
  <2>2. OneOwner' /\ InsertedOnce'
    BY DEF OneOwner, InsertedOnce, FilesBelow
  <2>3. CheckedIsKnown'
    BY DEF CheckedIsKnown, HasPlace, Reading
  <2>4. ReadingIsComplete'
    BY DEF ReadingIsComplete, FilesBelow, Reading
  <2>5. OrphansNeedOverlap' /\ LeftoversNeedOverlap'
    BY <2>1 DEF OrphansNeedOverlap, Orphans, LeftoversNeedOverlap, Leftovers
  <2> QED BY <2>2, <2>3, <2>4, <2>5
<1> QED BY <1>1, <1>2, <1>3

LEMMA CommitKeepsTree ==
  ASSUME TypeOK, TreeInv, NEW r \in Request, CommitRemoval(r)
  PROVE  TreeInv'
<1> USE DEF TypeOK, TreeInv, Item, CommitRemoval
<1>1. r \in Reading
  BY DEF Reading
<1>2. OneOwner' /\ InsertedOnce'
  BY DEF OneOwner, InsertedOnce
<1>3. CheckedIsKnown'
  BY <1>1 DEF CheckedIsKnown
<1>4. ReadingIsComplete'
  BY DEF ReadingIsComplete, FilesBelow, Reading
<1>5. OrphansNeedOverlap'
  <2>1. ASSUME NEW d \in folders', parent[d] \in removal[r].tree
        PROVE  d \in overlapped
    BY <1>1, <2>1 DEF ReadingIsComplete
  <2>2. ASSUME NEW f \in files', place[f] \in removal[r].tree
        PROVE  f \in overlapped
    <3>1. place[f] # Root /\ owner[place[f]] = owner[removal[r].root]
      BY <2>2 DEF ReadingIsComplete
    <3>2. f \in FilesBelow(r)
      BY <2>2, <3>1 DEF FilesBelow, OneOwner
    <3> QED BY <2>2, <3>2 DEF ReadingIsComplete
  <2> QED BY <2>1, <2>2 DEF OrphansNeedOverlap, Orphans
<1>6. LeftoversNeedOverlap'
  BY DEF ReadingIsComplete, LeftoversNeedOverlap, Leftovers
<1> QED BY <1>2, <1>3, <1>4, <1>5, <1>6

LEMMA EndKeepsTree ==
  ASSUME TypeOK, TreeInv, NEW r \in Request,
         AbortRemoval(r) \/ CrashRemoval(r) \/ RemoveNextObject(r)
  PROVE  TreeInv'
<1> USE DEF TypeOK, TreeInv, Item, treeVars, ghosts
<1>1. CASE AbortRemoval(r) \/ CrashRemoval(r)
  <2>1. /\ removal' = [removal EXCEPT ![r] = removal'[r]]
        /\ removal'[r] = [NoRemoval EXCEPT !.stage = "done"]
        /\ faults' # 0
        /\ UNCHANGED <<folders, parent, files, place, owner, objects, request, deletion,
                       removed, overlapped>>
    BY <1>1, FaultCounted DEF AbortRemoval, CrashRemoval
  <2>2. /\ removal'[r].stage = "done" /\ removal'[r].tree = {} /\ removal'[r].doomed = {}
        /\ \A q \in Request \ {r} : /\ removal'[q] = removal[q]
                                   /\ FilesBelow(q)' = FilesBelow(q)
        /\ Reading' \subseteq Reading
    <3> HIDE DEF TypeOK, TreeInv
    <3>1. /\ removal'[r].stage = "done" /\ removal'[r].tree = {}
          /\ removal'[r].doomed = {}
      BY <2>1 DEF NoRemoval
    <3>2. \A q \in Request \ {r} : removal'[q] = removal[q]
      BY <2>1 DEF TypeOK
    <3>3. \A q \in Request \ {r} : FilesBelow(q)' = FilesBelow(q)
      BY <2>1, <3>2 DEF FilesBelow
    <3>4. Reading' \subseteq Reading
      BY <3>1, <3>2 DEF Reading
    <3> QED BY <3>1, <3>2, <3>3, <3>4
  <2>3. OneOwner' /\ InsertedOnce'
    BY <2>1, <2>2 DEF OneOwner, InsertedOnce
  <2>4. CheckedIsKnown'
    BY <2>1, <2>2 DEF CheckedIsKnown, HasPlace
  <2>5. ReadingIsComplete'
    <3>1. r \notin Reading'
      BY <2>2 DEF Reading
    <3>2. removal'[r].tree = {} /\ removal'[r].doomed = {} /\ removal'[r].stage = "done"
      BY <2>2
    <3> HIDE DEF TypeOK
    <3>3. overlapped' = overlapped /\ folders' = folders /\ parent' = parent /\ owner' = owner
      BY <2>1
    <3> QED BY <2>2, <3>1, <3>2, <3>3 DEF ReadingIsComplete
  <2>6. OrphansNeedOverlap' /\ LeftoversNeedOverlap'
    BY <2>1 DEF OrphansNeedOverlap, Orphans, LeftoversNeedOverlap
  <2> QED BY <2>3, <2>4, <2>5, <2>6
<1>2. CASE RemoveNextObject(r)
  <2>1. /\ removal[r].stage = "objects" /\ removal'[r].stage \in {"objects", "done"}
        /\ removal' = [removal EXCEPT ![r] = removal'[r]]
        /\ removal'[r].tree = removal[r].tree /\ removal'[r].root = removal[r].root
        /\ removal'[r].doomed = removal[r].doomed
        /\ objects' \subseteq objects
        /\ faults' = 0 => removal[r].found \cap objects' \subseteq removal'[r].found
        /\ faults' = 0 => faults = 0
        /\ UNCHANGED <<folders, parent, files, place, owner, request, deletion, removed,
                       overlapped>>
    BY <1>2, FaultCounted DEF RemoveNextObject
  <2>2. Reading' = Reading
    BY <2>1 DEF Reading
  <2>3. OneOwner' /\ InsertedOnce'
    BY <2>1 DEF OneOwner, InsertedOnce
  <2>4. CheckedIsKnown'
    BY <2>1, <2>2 DEF CheckedIsKnown, HasPlace
  <2>5. ReadingIsComplete'
    BY <2>1, <2>2 DEF ReadingIsComplete, FilesBelow
  <2>6. OrphansNeedOverlap' /\ LeftoversNeedOverlap'
    BY <2>1 DEF OrphansNeedOverlap, Orphans, LeftoversNeedOverlap, Leftovers
  <2> QED BY <2>3, <2>4, <2>5, <2>6
<1> QED BY <1>1, <1>2

LEMMA DeleteKeepsTree ==
  ASSUME TypeOK, TreeInv, NEW f \in File, DeleteFile(f) \/ DeleteFileObject(f)
  PROVE  TreeInv'
<1> USE DEF TypeOK, TreeInv, Item, treeVars, ghosts
<1> USE DEF DeleteFile, DeleteFileObject
<1>1. OneOwner' /\ InsertedOnce'
  BY DEF OneOwner, InsertedOnce
<1>2. CheckedIsKnown'
  BY DEF CheckedIsKnown, HasPlace, Reading
<1>3. ReadingIsComplete'
  BY DEF ReadingIsComplete, FilesBelow, Reading
<1>4. OrphansNeedOverlap' /\ LeftoversNeedOverlap'
  BY FaultCounted DEF OrphansNeedOverlap, Orphans, LeftoversNeedOverlap, Leftovers
<1> QED BY <1>1, <1>2, <1>3, <1>4

LEMMA TreeInvFramed ==
  ASSUME TreeInv,
         UNCHANGED <<folders, parent, files, place, owner, objects, request, removal, deletion,
                     removed, overlapped, faults>>
  PROVE  TreeInv'
<1>1. OneOwner' /\ InsertedOnce'
  BY DEF TreeInv, OneOwner, InsertedOnce
<1>2. CheckedIsKnown' /\ ReadingIsComplete'
  BY DEF TreeInv, CheckedIsKnown, HasPlace, ReadingIsComplete, FilesBelow, Reading
<1>3. OrphansNeedOverlap' /\ LeftoversNeedOverlap'
  BY DEF TreeInv, OrphansNeedOverlap, Orphans, LeftoversNeedOverlap, Leftovers
<1> QED BY <1>1, <1>2, <1>3 DEF TreeInv

LEMMA NextKeepsTree ==
  ASSUME TypeOK, TreeInv, Next
  PROVE  TreeInv'
<1>1. CASE Create
  <2>1. ASSUME NEW d \in Folder, ChangeFolderPermission(d)
        PROVE  TreeInv'
    BY <2>1, TreeInvFramed DEF ChangeFolderPermission, ghosts
  <2> QED BY <1>1, <2>1, LookupKeepsTree, InsertKeepsTree, UploadKeepsTree DEF Create
<1>2. CASE Remove
  BY <1>2, ReadingKeepsTree, CommitKeepsTree, EndKeepsTree, DeleteKeepsTree DEF Remove
<1>3. CASE Visit
  <2>1. UNCHANGED <<folders, parent, files, place, owner, objects, request, removal, deletion,
                    removed, overlapped, faults>>
    BY <1>3 DEF Visit, GetPublicFolder, ReadArchiveTree, ListFiles, StreamFile, treeVars, ghosts
  <2> QED BY <2>1, TreeInvFramed
<1> QED BY <1>1, <1>2, <1>3 DEF Next

----------------------------------------------------------------------------
(***************************************************************************)
(* The archive.                                                            *)
(***************************************************************************)

\* A folder that is created is below its parent, and moves no other one.
LEMMA AboveStays ==
  ASSUME NEW d \in Folder, parent[d] = Root, NEW p,
         parent' = [parent EXCEPT ![d] = p], parent \in [Folder -> Folder \cup {Root}],
         archive' = archive, NEW c, Above(c)
  PROVE  Above(c)'
BY DEF Above

LEMMA CreateKeepsArchive ==
  ASSUME TypeOK, TreeInv, ArchiveInv, Create
  PROVE  ArchiveInv'
<1> USE DEF TypeOK, Item, treeVars, ghosts
<1>1. ASSUME NEW d \in Folder, NEW p \in FolderId, CheckParent(d, p)
      PROVE  ArchiveInv'
  <2>1. /\ request[d] = "new" /\ request' = [request EXCEPT ![d] = "checked"]
        /\ parent' = [parent EXCEPT ![d] = p]
        /\ UNCHANGED <<archive, approved, place, owner>>
    BY <1>1 DEF CheckParent, Pass
  <2>2. parent[d] = Root
    BY <2>1 DEF TreeInv, InsertedOnce
  <2>3. \A c : Above(c) => Above(c)'
    BY <2>1, <2>2, AboveStays
  <2> HIDE DEF TypeOK
  <2> QED BY <2>1, <2>3 DEF ArchiveInv, Published
<1>2. ASSUME NEW f \in File, NEW d \in FolderId, StoreObject(f, d)
      PROVE  ArchiveInv'
  BY <1>2 DEF StoreObject, ArchiveInv, Published, Above
<1>3. ASSUME NEW f \in File,
             CheckFolder(f) \/ InsertFile(f) \/ RollBackUpload(f) \/ Approve(f)
      PROVE  ArchiveInv'
  BY <1>3 DEF CheckFolder, Pass, InsertFile, RollBackUpload, Approve, ArchiveInv, Published,
              Above
<1>4. ASSUME NEW d \in Folder, InsertFolder(d) \/ ChangeFolderPermission(d)
      PROVE  ArchiveInv'
  BY <1>4 DEF InsertFolder, ChangeFolderPermission, ArchiveInv, Published, Above
<1> QED BY <1>1, <1>2, <1>3, <1>4 DEF Create

LEMMA ArchiveInvFramed ==
  ASSUME ArchiveInv, UNCHANGED <<parent, place, owner, approved, request, archive>>
  PROVE  ArchiveInv'
BY DEF ArchiveInv, Published, Above

LEMMA RemoveKeepsArchive ==
  ASSUME ArchiveInv, Remove
  PROVE  ArchiveInv'
<1>1. UNCHANGED <<parent, place, owner, approved, request, archive>>
  BY DEF Remove, ReadTree, SelectFiles, DeleteFilesInFolders, CommitRemoval, AbortRemoval,
         RemoveNextObject, CrashRemoval, DeleteFile, DeleteFileObject, treeVars
<1> QED BY <1>1, ArchiveInvFramed

LEMMA VisitKeepsArchive ==
  ASSUME TypeOK, TreeInv, ArchiveInv, Visit
  PROVE  ArchiveInv'
<1>1. UNCHANGED <<parent, place, owner, approved, request>>
  BY DEF Visit, GetPublicFolder, ReadArchiveTree, ListFiles, StreamFile, treeVars
<1>2. ASSUME NEW d \in Folder, GetPublicFolder(d)
      PROVE  ArchiveInv'
  <2>1. /\ archive'.stage = "open" /\ archive'.tree = {}
        /\ archive'.list = {} /\ archive'.sent = {}
    BY <1>2 DEF GetPublicFolder, ArchiveInv, TypeOK
  <2> QED BY <2>1 DEF ArchiveInv
<1>3. CASE ReadArchiveTree
  <2>1. /\ archive'.stage = "tree" /\ archive'.tree = Subtree(archive.root)
        /\ archive'.root = archive.root
        /\ archive'.list = archive.list /\ archive'.sent = archive.sent
    BY <1>3 DEF ReadArchiveTree, TypeOK
  <2>2. \A c : Above(c)' <=> Above(c)
    BY <1>1, <2>1 DEF Above
  <2>3. \A c \in Subtree(archive.root) : Above(c) /\ owner[c] = owner[archive.root]
    BY SubtreeIsBelow, SubtreeIsClosed
  <2> QED BY <1>1, <2>1, <2>2, <2>3 DEF ArchiveInv, Published
<1>4. CASE ListFiles
  <2>1. /\ archive'.stage = "listed" /\ archive'.tree = archive.tree
        /\ archive'.root = archive.root /\ archive'.sent = archive.sent
        /\ archive'.list = {f \in files \cap approved :
                             owner[f] = owner[archive.root] /\ place[f] \in archive.tree}
    BY <1>4 DEF ListFiles, TypeOK
  <2>2. \A c : Above(c)' <=> Above(c)
    BY <1>1, <2>1 DEF Above
  <2>3. \A f \in archive'.list : Published(f)
    BY <2>1 DEF Published, ArchiveInv, TreeInv, InsertedOnce, TypeOK
  <2> QED BY <1>1, <2>1, <2>2, <2>3 DEF ArchiveInv, Published
<1>5. ASSUME NEW f \in File, StreamFile(f)
      PROVE  ArchiveInv'
  <2>1. /\ archive'.stage = archive.stage /\ archive'.tree = archive.tree
        /\ archive'.root = archive.root /\ archive.stage = "listed"
        /\ archive'.list \cup archive'.sent \subseteq archive.list \cup archive.sent
    BY <1>5 DEF StreamFile, TypeOK
  <2>2. \A c : Above(c)' <=> Above(c)
    BY <1>1, <2>1 DEF Above
  <2> QED BY <1>1, <2>1, <2>2 DEF ArchiveInv, Published
<1> QED BY <1>2, <1>3, <1>4, <1>5 DEF Visit

----------------------------------------------------------------------------
(***************************************************************************)
(* The inductive invariant and what it implies.                            *)
(***************************************************************************)

LEMMA InitInv ==
  ASSUME Init
  PROVE  IInv
<1>1. TypeOK
  BY DEF Init, TypeOK, Item, NoRemoval, NoArchive
<1>2. TreeInv
  <2>1. \A r \in Request : /\ removal[r].stage = "new" /\ removal[r].tree = {}
                           /\ removal[r].doomed = {}
    BY DEF Init, NoRemoval
  <2>2. OneOwner /\ InsertedOnce
    BY <2>1 DEF Init, OneOwner, InsertedOnce
  <2>3. CheckedIsKnown
    BY DEF Init, CheckedIsKnown
  <2>4. ReadingIsComplete
    BY <2>1 DEF ReadingIsComplete, Reading
  <2>5. OrphansNeedOverlap /\ LeftoversNeedOverlap
    BY DEF Init, OrphansNeedOverlap, Orphans, LeftoversNeedOverlap, Leftovers
  <2> QED BY <2>2, <2>3, <2>4, <2>5 DEF TreeInv
<1>3. ArchiveInv
  BY DEF Init, NoArchive, ArchiveInv
<1> QED BY <1>1, <1>2, <1>3 DEF IInv

LEMMA NextInv ==
  ASSUME IInv, Next
  PROVE  IInv'
<1>1. TypeOK'
  BY CreateTypes, RemoveTypes, VisitTypes DEF IInv, Next
<1>2. TreeInv'
  BY NextKeepsTree DEF IInv
<1>3. ArchiveInv'
  BY CreateKeepsArchive, RemoveKeepsArchive, VisitKeepsArchive DEF IInv, Next
<1> QED BY <1>1, <1>2, <1>3 DEF IInv

LEMMA StutterInv ==
  ASSUME IInv, UNCHANGED vars
  PROVE  IInv'
<1>1. TypeOK'
  BY DEF IInv, TypeOK, vars, treeVars, ghosts
<1>2. TreeInv'
  BY TreeInvFramed DEF IInv, vars, treeVars, ghosts
<1>3. ArchiveInv'
  BY ArchiveInvFramed DEF IInv, vars, treeVars
<1> QED BY <1>1, <1>2, <1>3 DEF IInv

\* The invariant of folders and files: what each request has read of them is
\* complete, but for what overlaps a deletion.
THEOREM FoldersInvariant == Spec => []IInv
<1>1. Init => IInv
  BY InitInv
<1>2. IInv /\ [Next]_vars => IInv'
  BY NextInv, StutterInv
<1> QED BY <1>1, <1>2, PTL DEF Spec

\* TypeOK, for any users, folders, files and requests.
THEOREM TypeCorrect == Spec => []TypeOK
<1>1. IInv => TypeOK
  BY DEF IInv
<1> QED BY <1>1, FoldersInvariant, PTL

\* CreateFolder, CommitReservedFile and DeleteFolder leave a row without its
\* folder only if they overlap, in trees of any depth.
THEOREM OrphansOverlap == Spec => []OrphansNeedOverlap
<1>1. IInv => OrphansNeedOverlap
  BY DEF IInv, TreeInv
<1> QED BY <1>1, FoldersInvariant, PTL

\* Deletions of folders and files, however many meet, leave an object behind
\* only if its upload overlaps one of them or a fault has happened.
THEOREM LeftoversOverlap == Spec => []LeftoversNeedOverlap
<1>1. IInv => LeftoversNeedOverlap
  BY DEF IInv, TreeInv
<1> QED BY <1>1, FoldersInvariant, PTL

\* DownloadPublicFolder sends nothing but approved files from below the public
\* folder, in trees of any depth.
THEOREM ArchiveIsPublic == Spec => []ArchiveHoldsPublicTree
<1>1. IInv => ArchiveHoldsPublicTree
  BY DEF IInv, ArchiveInv, Published, ArchiveHoldsPublicTree
<1> QED BY <1>1, FoldersInvariant, PTL

----------------------------------------------------------------------------
(***************************************************************************)
(* The listings as a tree of which only whole branches disappear.  A walk  *)
(* reaches the least set of folders that contains the children of its      *)
(* members, so that what is stored below a missing folder is never shown.  *)
(***************************************************************************)

LEMMA ReachedIsLeast ==
  ASSUME NEW S \in SUBSET folders,
         \A x \in folders : parent[x] = Root \/ parent[x] \in S => x \in S
  PROVE  Reached \subseteq S
BY DEF Reached

ReachedUnfolds == \A d \in folders : d \in Reached <=> parent[d] \in Reached \cup {Root}

LEMMA Unfolding == ReachedUnfolds
<1>1. ASSUME NEW d \in folders, parent[d] \in Reached \cup {Root}
      PROVE  d \in Reached
  BY <1>1 DEF Reached
<1>2. ASSUME NEW d \in Reached
      PROVE  parent[d] \in Reached \cup {Root}
  <2> DEFINE S == {x \in folders : parent[x] \in Reached \cup {Root}}
  <2>1. ASSUME NEW x \in folders, parent[x] = Root \/ parent[x] \in S
        PROVE  x \in S
    BY <1>1, <2>1
  <2>2. Reached \subseteq S
    <3> HIDE DEF S
    <3>1. S \in SUBSET folders
      BY DEF S
    <3> QED BY <2>1, <3>1, ReachedIsLeast
  <2> QED BY <2>2
<1>3. Reached \subseteq folders
  BY DEF Reached
<1> QED BY <1>1, <1>2, <1>3 DEF ReachedUnfolds

LEMMA ReachedAreRows == Reached \subseteq folders
BY DEF Reached

LEMMA ReachedIsLeastNext ==
  ASSUME NEW S \in SUBSET folders',
         \A x \in folders' : parent'[x] = Root \/ parent'[x] \in S => x \in S
  PROVE  Reached' \subseteq S
BY DEF Reached

\* As long as the rows and their folders stay, so does what is shown.
LEMMA ListingsFramed ==
  ASSUME TypeOK, UNCHANGED <<folders, files>>,
         \A d \in folders : parent'[d] = parent[d],
         \A f \in files : place'[f] = place[f]
  PROVE  UNCHANGED Listings
<1>1. Reached' = Reached
  BY DEF Reached
<1>2. Shown' = Shown /\ Shown \subseteq folders \cup files
  BY <1>1, ReachedAreRows DEF Shown
<1>3. \A i \in Shown : Home(i)' = Home(i)
  BY <1>2 DEF Home, TypeOK
<1> QED BY <1>2, <1>3 DEF Listings

\* A row is inserted whose identifier no other row names as its folder.
LEMMA ShownGrows ==
  ASSUME TypeOK, UNCHANGED <<parent, place>>, NEW i \in Item, i \notin folders \cup files,
         \/ i \in Folder /\ folders' = folders \cup {i} /\ files' = files
         \/ i \in File /\ files' = files \cup {i} /\ folders' = folders,
         \A x \in folders \cup files \cup {i} : Home(x) # i
  PROVE  Shown' = IF Home(i) \in Shown \cup {Root} THEN Shown \cup {i} ELSE Shown
<1> DEFINE new == IF Home(i) \in Reached \cup {Root} THEN {i} ELSE {}
<1>0. Home(i) \in Reached <=> Home(i) \in Shown
  BY DEF Shown, Home, TypeOK, Item
<1>1. CASE i \in File
  <2>1. Reached' = Reached
    BY <1>1 DEF Reached
  <2>2. i \notin Folder
    BY <1>1
  <2> QED BY <1>0, <1>1, <2>1, <2>2 DEF Shown, Home
<1>2. CASE i \in Folder
  <2>0. /\ folders' = folders \cup {i} /\ files' = files /\ Home(i) = parent[i]
        /\ \A x \in folders' : parent[x] # i
        /\ \A f \in files : place[f] # i
    BY <1>2 DEF Home, TypeOK, Item
  <2>1. ReachedUnfolds /\ ReachedUnfolds' /\ Reached' \subseteq folders'
    <3>1. ReachedUnfolds
      BY Unfolding
    <3>2. ReachedUnfolds'
      BY Unfolding, PTL
    <3> QED BY <3>1, <3>2 DEF Reached
  <2>2. Reached \subseteq Reached'
    <3> DEFINE T == Reached \cap Reached'
    <3>1. \A x \in folders : parent[x] = Root \/ parent[x] \in T => x \in T
      BY <2>0, <2>1 DEF ReachedUnfolds
    <3>2. T \in SUBSET folders
      BY ReachedAreRows
    <3> HIDE DEF T
    <3>3. Reached \subseteq T
      BY <3>1, <3>2, ReachedIsLeast
    <3> QED BY <3>3 DEF T
  <2>3. Reached' \subseteq Reached \cup new
    <3> DEFINE T == Reached \cup new
    <3>1. \A x \in folders' : parent'[x] = Root \/ parent'[x] \in T => x \in T
      BY <2>0, <2>1 DEF ReachedUnfolds
    <3>2. T \in SUBSET folders'
      BY <2>0, ReachedAreRows
    <3> HIDE DEF T
    <3>3. Reached' \subseteq T
      BY <3>1, <3>2, ReachedIsLeastNext
    <3> QED BY <3>3 DEF T
  <2>4. new \subseteq Reached'
    BY <2>0, <2>1, <2>2 DEF ReachedUnfolds
  <2>5. Reached' = Reached \cup new
    BY <2>2, <2>3, <2>4
  <2> QED BY <1>0, <2>0, <2>5 DEF Shown
<1> QED BY <1>1, <1>2 DEF Item

\* Rows are deleted: of what was shown, B with all that is below it.
LEMMA ShownShrinks ==
  ASSUME TypeOK, UNCHANGED <<parent, place>>, NEW D,
         folders' = folders \ D, files' = files \ D,
         NEW B \in SUBSET Shown,
         \A x \in Shown : x \in D \/ Home(x) \in B => x \in B,
         B \cap Shown' = {}
  PROVE  Shown' = Shown \ B
<1>1. ReachedUnfolds /\ ReachedUnfolds' /\ Reached' \subseteq folders'
  <2>1. ReachedUnfolds'
    BY Unfolding, PTL
  <2> QED BY <2>1, Unfolding DEF Reached
<1>2. Reached' \subseteq Reached
  <2> DEFINE T == Reached \cap folders'
  <2>1. \A x \in folders' : parent'[x] = Root \/ parent'[x] \in T => x \in T
    BY <1>1 DEF ReachedUnfolds
  <2> HIDE DEF T
  <2>2. Reached' \subseteq T
    BY <2>1, ReachedIsLeastNext DEF T
  <2> QED BY <2>2 DEF T
<1>3. Reached \subseteq B \cup Reached'
  <2> DEFINE T == Reached \cap (B \cup Reached')
  <2>1. ASSUME NEW x \in folders, parent[x] = Root \/ parent[x] \in T
        PROVE  x \in T
    <3>1. x \in Reached /\ x \in Shown /\ Home(x) = parent[x]
      BY <1>1, <2>1 DEF ReachedUnfolds, Shown, Home, TypeOK
    <3>2. CASE x \in D \/ parent[x] \in B
      BY <3>1, <3>2
    <3>3. CASE x \in folders' /\ parent[x] \in Reached' \cup {Root}
      BY <1>1, <3>1, <3>3 DEF ReachedUnfolds
    <3> QED BY <2>1, <3>2, <3>3
  <2>2. T \in SUBSET folders
    BY ReachedAreRows
  <2> HIDE DEF T
  <2>3. Reached \subseteq T
    BY <2>1, <2>2, ReachedIsLeast
  <2> QED BY <2>3 DEF T
<1>4. \A f \in files : Home(f) = place[f]
  BY DEF Home, TypeOK
<1> QED BY <1>2, <1>3, <1>4, ReachedAreRows DEF Shown, TypeOK

\* Rows are deleted none of which was shown.
LEMMA ShownStays ==
  ASSUME TypeOK, UNCHANGED <<parent, place>>, NEW D,
         folders' = folders \ D, files' = files \ D,
         \A x \in Shown : x \notin D
  PROVE  Shown' = Shown
<1> DEFINE B == {}
<1>1. /\ B \in SUBSET Shown /\ B \cap Shown' = {}
      /\ \A x \in Shown : x \in D \/ Home(x) \in B => x \in B
  OBVIOUS
<1>2. Shown \ B = Shown
  OBVIOUS
<1> HIDE DEF B
<1> QED BY <1>1, <1>2, ShownShrinks

\* What the statements of a deletion have read lies below its folder, and
\* nothing is stored in a folder that was not there before.
UnderFolder(d, c) ==
  \A S \in SUBSET Folder :
    d \in S /\ (\A x \in Folder : parent[x] \in S => x \in S) => c \in S

HomesEnded == \A i \in Item : Home(i) # Root => Home(i) \in Ended

RemovalsAreBranches ==
  \A r \in Request :
    /\ \A c \in removal[r].tree : UnderFolder(removal[r].root, c)
    /\ r \in Reading => removal[r].root \in removal[r].tree
    /\ \A f \in removal[r].doomed : place[f] \in removal[r].tree

BranchInv == HomesEnded /\ RemovalsAreBranches

LEMMA SubtreeIsUnder ==
  ASSUME TypeOK, NEW d \in folders
  PROVE  d \in Subtree(d) /\ \A c \in Subtree(d) : UnderFolder(d, c)
<1>1. d \in Subtree(d)
  BY DEF Subtree
<1>2. ASSUME NEW c \in Subtree(d), NEW S \in SUBSET Folder, d \in S,
             \A x \in Folder : parent[x] \in S => x \in S
      PROVE  c \in S
  <2> DEFINE T == S \cap folders
  <2>1. T \in SUBSET folders /\ d \in T
    BY <1>2
  <2>2. \A x \in folders : parent[x] \in T /\ owner[x] = owner[d] => x \in T
    BY <1>2 DEF TypeOK
  <2> HIDE DEF T
  <2>3. c \in T
    BY <1>2, <2>1, <2>2 DEF Subtree
  <2> QED BY <2>3 DEF T
<1> QED BY <1>1, <1>2 DEF UnderFolder

\* A new folder moves no other one.
LEMMA UnderStays ==
  ASSUME NEW d \in Folder, parent[d] = Root, NEW p,
         parent' = [parent EXCEPT ![d] = p], parent \in [Folder -> Folder \cup {Root}],
         NEW b, NEW c, UnderFolder(b, c)
  PROVE  UnderFolder(b, c)'
BY DEF UnderFolder

LEMMA CreateKeepsBranches ==
  ASSUME IInv, BranchInv, Create
  PROVE  BranchInv'
<1> USE DEF IInv, TreeInv, TypeOK, Item, treeVars, ghosts
<1>1. ASSUME NEW d \in Folder, NEW p \in FolderId, CheckParent(d, p)
      PROVE  BranchInv'
  <2>1. /\ request[d] = "new" /\ request' = [request EXCEPT ![d] = "checked"]
        /\ parent' = [parent EXCEPT ![d] = p] /\ p \in folders \cup {Root}
        /\ UNCHANGED <<folders, place, removal>>
    BY <1>1 DEF CheckParent, Pass, HasFolder
  <2>2. HomesEnded'
    BY <2>1 DEF BranchInv, HomesEnded, Home, Ended, InsertedOnce
  <2>3. parent[d] = Root
    BY <2>1 DEF InsertedOnce
  <2>4. \A b, c : UnderFolder(b, c) => UnderFolder(b, c)'
    BY <2>1, <2>3, UnderStays
  <2> HIDE DEF IInv, TreeInv, TypeOK
  <2>5. RemovalsAreBranches'
    BY <2>1, <2>4 DEF BranchInv, RemovalsAreBranches, Reading
  <2> QED BY <2>2, <2>5 DEF BranchInv
<1>2. ASSUME NEW f \in File, NEW d \in FolderId, StoreObject(f, d)
      PROVE  BranchInv'
  <2>1. /\ request[f] = "new" /\ request' = [request EXCEPT ![f] = "stored"]
        /\ place' = [place EXCEPT ![f] = d] /\ d \in folders \cup {Root}
        /\ UNCHANGED <<folders, parent, removal>>
    BY <1>2 DEF StoreObject, HasFolder
  <2>2. HomesEnded'
    BY <2>1 DEF BranchInv, HomesEnded, Home, Ended, InsertedOnce
  <2>3. \A r \in Request : f \notin removal[r].doomed /\ removal[r].doomed \subseteq File
    BY <2>1 DEF InsertedOnce
  <2>4. RemovalsAreBranches'
    BY <2>1, <2>3 DEF BranchInv, RemovalsAreBranches, Reading, UnderFolder
  <2> QED BY <2>2, <2>4 DEF BranchInv
<1>3. ASSUME /\ UNCHANGED <<parent, place, removal>>
             /\ \A i \in Item : request[i] = "done" => request'[i] = "done"
      PROVE  BranchInv'
  <2>1. HomesEnded'
    BY <1>3 DEF BranchInv, HomesEnded, Home, Ended
  <2>2. RemovalsAreBranches'
    BY <1>3 DEF BranchInv, RemovalsAreBranches, Reading, UnderFolder
  <2> QED BY <2>1, <2>2 DEF BranchInv
<1>4. ASSUME NEW d \in Folder, InsertFolder(d) \/ ChangeFolderPermission(d)
      PROVE  BranchInv'
  <2>1. /\ UNCHANGED <<parent, place, removal>>
        /\ \A i \in Item : request[i] = "done" => request'[i] = "done"
    BY <1>4 DEF InsertFolder, ChangeFolderPermission
  <2> QED BY <1>3, <2>1
<1>5. ASSUME NEW f \in File,
             CheckFolder(f) \/ InsertFile(f) \/ RollBackUpload(f) \/ Approve(f)
      PROVE  BranchInv'
  <2>1. /\ UNCHANGED <<parent, place, removal>>
        /\ \A i \in Item : request[i] = "done" => request'[i] = "done"
    BY <1>5 DEF CheckFolder, Pass, InsertFile, RollBackUpload, Approve
  <2> QED BY <1>3, <2>1
<1> QED BY <1>1, <1>2, <1>4, <1>5 DEF Create

LEMMA RemoveKeepsBranches ==
  ASSUME IInv, BranchInv, Remove
  PROVE  BranchInv'
<1>0. UNCHANGED <<parent, place, request>>
  BY DEF Remove, ReadTree, SelectFiles, DeleteFilesInFolders, CommitRemoval, AbortRemoval,
         RemoveNextObject, CrashRemoval, DeleteFile, DeleteFileObject, treeVars
<1>1. HomesEnded'
  BY <1>0 DEF BranchInv, HomesEnded, Home, Ended
<1>2. \A b, c : UnderFolder(b, c) => UnderFolder(b, c)'
  BY <1>0 DEF UnderFolder
<1>3. ASSUME NEW r \in Request, removal' = [removal EXCEPT ![r] = removal'[r]],
             \A c \in removal'[r].tree : UnderFolder(removal'[r].root, c),
             r \in Reading' => removal'[r].root \in removal'[r].tree,
             \A f \in removal'[r].doomed : place[f] \in removal'[r].tree
      PROVE  RemovalsAreBranches'
  <2>1. \A q \in Request \ {r} : removal'[q] = removal[q] /\ (q \in Reading' => q \in Reading)
    BY <1>3 DEF IInv, TypeOK, Reading
  <2> QED BY <1>0, <1>2, <1>3, <2>1 DEF BranchInv, RemovalsAreBranches
<1>4. ASSUME NEW r \in Request, NEW d \in Folder, ReadTree(r, d)
      PROVE  RemovalsAreBranches'
  <2>1. /\ d \in folders /\ removal' = [removal EXCEPT ![r] = removal'[r]]
        /\ removal'[r].root = d /\ removal'[r].tree = Subtree(d)
        /\ removal'[r].doomed = {}
    BY <1>4 DEF ReadTree, NoRemoval, IInv, TypeOK
  <2> QED BY <1>3, <2>1, SubtreeIsUnder DEF IInv
<1>5. ASSUME NEW r \in Request,
             SelectFiles(r) \/ CommitRemoval(r) \/ RemoveNextObject(r)
      PROVE  RemovalsAreBranches'
  <2>1. /\ removal' = [removal EXCEPT ![r] = removal'[r]]
        /\ removal'[r].root = removal[r].root /\ removal'[r].tree = removal[r].tree
        /\ removal'[r].doomed = removal[r].doomed
        /\ removal'[r].stage \in {"tree", "selected", "deleting"} => r \in Reading
    BY <1>5 DEF SelectFiles, CommitRemoval, RemoveNextObject, IInv, TypeOK, Reading
  <2> QED BY <1>3, <2>1 DEF BranchInv, RemovalsAreBranches, Reading
<1>6. ASSUME NEW r \in Request, DeleteFilesInFolders(r)
      PROVE  RemovalsAreBranches'
  <2> DEFINE below == FilesBelow(r)
  <2>1. /\ removal[r].stage = "selected"
        /\ removal' = [removal EXCEPT ![r].stage = "deleting", ![r].doomed = below]
    BY <1>6 DEF DeleteFilesInFolders
  <2> HIDE DEF below
  <2>2. /\ r \in Reading /\ removal' = [removal EXCEPT ![r] = removal'[r]]
        /\ removal'[r].root = removal[r].root /\ removal'[r].tree = removal[r].tree
        /\ removal'[r].doomed = below
    <3>1. removal \in [Request -> Removal]
      BY DEF IInv, TypeOK, Removal
    <3> DEFINE m == [removal[r] EXCEPT !.stage = "deleting", !.doomed = below]
    <3>2. removal' = [removal EXCEPT ![r] = m]
      BY <2>1, <3>1 DEF Removal
    <3>3. m.root = removal[r].root /\ m.tree = removal[r].tree /\ m.doomed = below
      BY <3>1 DEF Removal
    <3> HIDE DEF m
    <3>4. removal'[r] = m
      BY <3>1, <3>2
    <3> QED BY <2>1, <3>2, <3>3, <3>4 DEF Reading
  <2> QED BY <1>3, <2>2 DEF BranchInv, RemovalsAreBranches, FilesBelow, below
<1>7. ASSUME NEW r \in Request, AbortRemoval(r) \/ CrashRemoval(r)
      PROVE  RemovalsAreBranches'
  <2>1. /\ removal' = [removal EXCEPT ![r] = removal'[r]]
        /\ removal'[r].tree = {} /\ removal'[r].doomed = {} /\ removal'[r].stage = "done"
    BY <1>7 DEF AbortRemoval, CrashRemoval, NoRemoval, IInv, TypeOK
  <2> QED BY <1>3, <2>1 DEF Reading
<1>8. ASSUME NEW f \in File, DeleteFile(f) \/ DeleteFileObject(f)
      PROVE  RemovalsAreBranches'
  <2>1. UNCHANGED removal
    BY <1>8 DEF DeleteFile, DeleteFileObject
  <2> QED BY <1>0, <1>2, <2>1 DEF BranchInv, RemovalsAreBranches, Reading
<1> QED BY <1>1, <1>4, <1>5, <1>6, <1>7, <1>8 DEF Remove, BranchInv

LEMMA BranchesFramed ==
  ASSUME BranchInv, UNCHANGED <<parent, place, request, removal>>
  PROVE  BranchInv'
<1>1. HomesEnded'
  BY DEF BranchInv, HomesEnded, Home, Ended
<1>2. RemovalsAreBranches'
  BY DEF BranchInv, RemovalsAreBranches, Reading, UnderFolder
<1> QED BY <1>1, <1>2 DEF BranchInv

\* The invariant of the listings.
LEMMA BranchesInvariant == Spec => []BranchInv
<1>1. ASSUME Init PROVE BranchInv
  <2>1. HomesEnded
    BY <1>1 DEF Init, HomesEnded, Home, Item
  <2>2. \A r \in Request : /\ removal[r].tree = {} /\ removal[r].doomed = {}
                           /\ removal[r].stage = "new"
    BY <1>1 DEF Init, NoRemoval
  <2> QED BY <2>1, <2>2 DEF BranchInv, RemovalsAreBranches, Reading
<1>2. IInv /\ BranchInv /\ [Next]_vars => BranchInv'
  <2>1. ASSUME BranchInv, Visit \/ UNCHANGED vars
        PROVE  BranchInv'
    <3>1. UNCHANGED <<parent, place, request, removal>>
      BY <2>1 DEF Visit, GetPublicFolder, ReadArchiveTree, ListFiles, StreamFile, vars,
                  treeVars
    <3> QED BY <2>1, <3>1, BranchesFramed
  <2> QED BY <2>1, CreateKeepsBranches, RemoveKeepsBranches DEF Next
<1> QED BY <1>1, <1>2, FoldersInvariant, PTL DEF Spec

----------------------------------------------------------------------------
(***************************************************************************)
(* The refinement: insertions of reachable rows are Create, the end of the *)
(* other creations is a Create that fails, the commit of a deletion is     *)
(* Delete, and all else leaves the listings alone.                         *)
(***************************************************************************)

LEMMA HomesAreTyped ==
  ASSUME TypeOK, NEW i \in Item
  PROVE  Home(i) \in Folder \cup {Root}
BY DEF TypeOK, Home, Item

LEMMA ShownAreRows ==
  ASSUME TypeOK
  PROVE  Shown \subseteq folders \cup files /\ Shown \subseteq Item
BY ReachedAreRows DEF Shown, TypeOK, Item

\* What is shown lies in the root folder or in a folder that is shown.
LEMMA ShownUnfolds ==
  ASSUME TypeOK, NEW i \in Shown
  PROVE  Home(i) \in Shown \cup {Root}
BY Unfolding, ReachedAreRows DEF ReachedUnfolds, Shown, Home, TypeOK

LEMMA StepIsCreate ==
  ASSUME TypeOK, NEW i \in Item, i \notin Ended, Ended' = Ended \cup {i},
         UNCHANGED <<parent, place, owner>>,
         Shown' = IF Home(i) \in Shown \cup {Root} THEN Shown \cup {i} ELSE Shown,
         Home(i) # Root => owner[Home(i)] = owner[i]
  PROVE  Tree!Create(i)
<1>1. \A x : Home(x)' = Home(x)
  BY DEF Home
<1>2. DOMAIN Listings = Shown
  BY DEF Listings
<1>3. CASE Home(i) \in Shown \cup {Root}
  <2>1. Listings' = [x \in Shown \cup {i} |-> IF x = i THEN Home(i) ELSE Listings[x]]
    BY <1>1, <1>3 DEF Listings
  <2> QED BY <1>2, <1>3, <2>1 DEF Tree!Create
<1>4. CASE Home(i) \notin Shown \cup {Root}
  <2>1. UNCHANGED Listings
    BY <1>1, <1>4 DEF Listings
  <2> QED BY <2>1 DEF Tree!Create
<1> QED BY <1>3, <1>4

LEMMA StepIsDelete ==
  ASSUME NEW i \in Shown, UNCHANGED <<parent, place, owner, request>>,
         Shown' = Shown \ Tree!Below(i)
  PROVE  Tree!Delete(i)
<1>1. \A x : Home(x)' = Home(x)
  BY DEF Home
<1>2. Listings' = [x \in DOMAIN Listings \ Tree!Below(i) |-> Listings[x]]
  <2> DEFINE B == Tree!Below(i)
  <2> HIDE DEF B
  <2>1. Listings' = [x \in DOMAIN Listings \ B |-> Listings[x]]
    BY <1>1 DEF Listings, B
  <2> QED BY <2>1 DEF B
<1>3. UNCHANGED Ended
  BY DEF Ended
<1> QED BY <1>2, <1>3 DEF Tree!Delete

\* Below(i) has i and what is shown in its members, and no proper subset does.
LEMMA BelowIsLeast ==
  ASSUME NEW i \in Shown, NEW S \in SUBSET Shown, i \in S,
         \A x \in Shown : Home(x) \in S => x \in S
  PROVE  Tree!Below(i) \subseteq S
<1>1. DOMAIN Listings = Shown /\ \A x \in Shown : Listings[x] = Home(x)
  BY DEF Listings
<1> QED BY <1>1 DEF Tree!Below

LEMMA BelowIsClosed ==
  ASSUME NEW i \in Shown
  PROVE  /\ Tree!Below(i) \subseteq Shown /\ i \in Tree!Below(i)
         /\ \A x \in Shown : Home(x) \in Tree!Below(i) => x \in Tree!Below(i)
<1>1. DOMAIN Listings = Shown /\ \A x \in Shown : Listings[x] = Home(x)
  BY DEF Listings
<1> QED BY <1>1 DEF Tree!Below

\* A folder that lies under i, as far as it is shown, is below i.
LEMMA UnderIsBelow ==
  ASSUME TypeOK, NEW i \in Shown, i \in Folder, NEW c \in Shown, c \in Folder,
         UnderFolder(i, c)
  PROVE  c \in Tree!Below(i)
<1> DEFINE S == {x \in Folder : x \in Shown => x \in Tree!Below(i)}
<1>1. i \in S
  BY BelowIsClosed
<1>2. ASSUME NEW x \in Folder, parent[x] \in S
      PROVE  x \in S
  <2> SUFFICES ASSUME x \in Shown PROVE x \in Tree!Below(i)
    OBVIOUS
  <2>1. parent[x] \in Shown /\ Home(x) = parent[x]
    BY <1>2, ShownUnfolds DEF Home
  <2> QED BY <1>2, <2>1, BelowIsClosed
<1> HIDE DEF S
<1>3. S \in SUBSET Folder
  BY DEF S
<1>4. c \in S
  BY <1>1, <1>2, <1>3 DEF UnderFolder
<1> QED BY <1>4 DEF S

\* What lies under a folder that is not shown is not shown either.
LEMMA UnderHidden ==
  ASSUME TypeOK, NEW d \in Folder, d \notin Shown, NEW c \in Folder, UnderFolder(d, c)
  PROVE  c \notin Shown
<1> DEFINE S == {x \in Folder : x \notin Shown}
<1>1. ASSUME NEW x \in Folder, parent[x] \in S
      PROVE  x \in S
  BY <1>1, ShownUnfolds DEF Home
<1> HIDE DEF S
<1>2. S \in SUBSET Folder /\ d \in S
  BY DEF S
<1>3. c \in S
  BY <1>1, <1>2 DEF UnderFolder
<1> QED BY <1>3 DEF S

LEMMA InsertRefines ==
  ASSUME IInv, BranchInv,
         (\E d \in Folder : InsertFolder(d)) \/ (\E f \in File : InsertFile(f))
  PROVE  \E i \in Item \ Ended : Tree!Create(i)
<1>1. ASSUME NEW i \in Item, i \notin folders \cup files, request[i] = "checked",
             request' = [request EXCEPT ![i] = "done"],
             UNCHANGED <<parent, place, owner>>,
             \/ i \in Folder /\ folders' = folders \cup {i} /\ files' = files
             \/ i \in File /\ files' = files \cup {i} /\ folders' = folders
             \/ UNCHANGED Listings /\ UNCHANGED <<folders, files>>
      PROVE  i \in Item \ Ended /\ Tree!Create(i)
  <2>1. i \notin Ended /\ Ended' = Ended \cup {i}
    BY <1>1 DEF Ended, IInv, TypeOK
  <2>2. CASE UNCHANGED Listings
    BY <1>1, <2>1, <2>2 DEF Tree!Create
  <2>3. CASE ~ UNCHANGED Listings
    <3>1. \A x \in Item : Home(x) # i
      BY <1>1, <2>1 DEF BranchInv, HomesEnded, Item
    <3>2. \A x \in folders \cup files \cup {i} : Home(x) # i
      BY <3>1 DEF IInv, TypeOK, Item
    <3>3. Shown' = IF Home(i) \in Shown \cup {Root} THEN Shown \cup {i} ELSE Shown
      BY <1>1, <2>3, <3>2, ShownGrows DEF IInv
    <3>4. Home(i) # Root => owner[Home(i)] = owner[i]
      BY DEF IInv, TreeInv, OneOwner, Home, Item
    <3> QED BY <1>1, <2>1, <3>3, <3>4, StepIsCreate DEF IInv
  <2> QED BY <1>1, <2>1, <2>2, <2>3
<1>2. ASSUME NEW d \in Folder, InsertFolder(d)
      PROVE  d \in Item \ Ended /\ Tree!Create(d)
  <2>1. /\ request[d] = "checked" /\ request' = [request EXCEPT ![d] = "done"]
        /\ UNCHANGED <<parent, place, owner, files>>
        /\ folders' = folders \cup {d} \/ UNCHANGED folders
    BY <1>2 DEF InsertFolder
  <2>2. d \in Item /\ d \notin folders \cup files
    BY <2>1 DEF IInv, TreeInv, InsertedOnce, Item
  <2>3. CASE UNCHANGED folders
    <3>1. UNCHANGED Listings
      BY <2>1, <2>3, ListingsFramed DEF IInv
    <3> QED BY <1>1, <2>1, <2>2, <2>3, <3>1
  <2> QED BY <1>1, <2>1, <2>2, <2>3
<1>3. ASSUME NEW f \in File, InsertFile(f)
      PROVE  f \in Item \ Ended /\ Tree!Create(f)
  <2>1. /\ request[f] = "checked" /\ request' = [request EXCEPT ![f] = "done"]
        /\ UNCHANGED <<parent, place, owner, folders>>
        /\ files' = files \cup {f}
    BY <1>3 DEF InsertFile
  <2>2. f \in Item /\ f \notin folders \cup files
    BY <2>1 DEF IInv, TreeInv, InsertedOnce, Item
  <2> QED BY <1>1, <2>1, <2>2
<1> QED BY <1>2, <1>3

LEMMA RollBackRefines ==
  ASSUME IInv, NEW f \in File, RollBackUpload(f)
  PROVE  \E i \in Item \ Ended : Tree!Create(i)
<1>1. /\ request[f] \in {"stored", "checked"}
      /\ request' = [request EXCEPT ![f] = "done"]
      /\ UNCHANGED <<folders, files, parent, place, owner>>
  BY DEF RollBackUpload, treeVars
<1>2. f \in Item \ Ended /\ Ended' = Ended \cup {f}
  BY <1>1 DEF Ended, IInv, TypeOK, Item
<1>3. UNCHANGED Listings
  BY <1>1, ListingsFramed DEF IInv
<1>4. Tree!Create(f)
  BY <1>1, <1>2, <1>3 DEF Tree!Create
<1> QED BY <1>2, <1>4

\* The four statements of DeleteFolder take effect at once, when they commit:
\* all that is shown below the folder disappears, and nothing else.
LEMMA CommitRefines ==
  ASSUME IInv, BranchInv, NEW r \in Request, CommitRemoval(r)
  PROVE  (\E i \in DOMAIN Listings : Tree!Delete(i)) \/ UNCHANGED Tree!shownVars
<1> DEFINE d == removal[r].root
           D == removal[r].tree \cup removal[r].doomed
<1>1. /\ removal[r].tree \subseteq Folder /\ removal[r].doomed \subseteq File
      /\ r \in Reading
  BY DEF IInv, TypeOK, CommitRemoval, Reading
<1>2. /\ folders' = folders \ D /\ files' = files \ D
      /\ UNCHANGED <<parent, place, owner, request>>
  BY <1>1 DEF CommitRemoval, IInv, TypeOK
<1>3. d \in removal[r].tree /\ d \in Folder /\ d \in D
  BY <1>1 DEF BranchInv, RemovalsAreBranches
<1>4. \A c \in removal[r].tree : UnderFolder(d, c)
  BY DEF BranchInv, RemovalsAreBranches
<1>5. \A f \in removal[r].doomed : Home(f) \in removal[r].tree
  BY <1>1 DEF BranchInv, RemovalsAreBranches, Home
<1>6. UNCHANGED Ended /\ DOMAIN Listings = Shown /\ TypeOK
  BY <1>2 DEF Ended, Listings, IInv
<1>7. CASE d \in Shown
  <2> DEFINE B == Tree!Below(d)
  <2>1. \A x \in Shown : x \in D => x \in B
    <3>1. ASSUME NEW x \in Shown, x \in removal[r].tree
          PROVE  x \in B
      BY <1>1, <1>3, <1>4, <1>6, <1>7, <3>1, UnderIsBelow
    <3>2. ASSUME NEW x \in Shown, x \in removal[r].doomed
          PROVE  x \in B
      <4>1. Home(x) \in Shown /\ Home(x) \in removal[r].tree
        BY <1>1, <1>5, <1>6, <3>2, ShownUnfolds
      <4> QED BY <1>7, <3>1, <4>1, BelowIsClosed
    <3> QED BY <3>1, <3>2
  <2>2. B \subseteq Shown \ Shown'
    <3> DEFINE S == Shown \ Shown'
    <3>1. d \in S
      BY <1>2, <1>3, <1>7, ReachedAreRows DEF Shown, Reached, IInv, TypeOK
    <3>2. ASSUME NEW x \in Shown, Home(x) \in S
          PROVE  x \in S
      <4>1. TypeOK' /\ Home(x)' = Home(x)
        BY <1>2, NextInv DEF Home, IInv, Next, Remove
      <4>2. x \in Shown' => Home(x)' \in Shown' \cup {Root}
        <5>1. ReachedUnfolds'
          BY Unfolding, PTL
        <5> QED BY <4>1, <5>1 DEF ReachedUnfolds, Shown, Reached, Home, TypeOK
      <4>3. Home(x) # Root
        BY <3>2, <1>6, ShownAreRows DEF IInv, Item
      <4> QED BY <3>2, <4>1, <4>2, <4>3
    <3> HIDE DEF S
    <3>3. S \in SUBSET Shown
      BY DEF S
    <3>4. B \subseteq S
      BY <1>7, <3>1, <3>2, <3>3, BelowIsLeast
    <3> QED BY <3>4 DEF S
  <2>3. /\ B \subseteq Shown
        /\ \A x \in Shown : Home(x) \in B => x \in B
    BY <1>7, BelowIsClosed
  <2> HIDE DEF B, D
  <2>4. Shown' = Shown \ B
    BY <1>2, <1>6, <2>1, <2>2, <2>3, ShownShrinks
  <2>5. Tree!Delete(d)
    BY <1>2, <1>7, <2>4, StepIsDelete DEF B
  <2> QED BY <1>6, <1>7, <2>5
<1>8. CASE d \notin Shown
  <2>1. \A x \in Shown : x \notin removal[r].tree
    BY <1>1, <1>3, <1>4, <1>6, <1>8, UnderHidden
  <2>2. \A x \in Shown : x \notin removal[r].doomed
    BY <1>1, <1>5, <1>6, <2>1, ShownUnfolds
  <2>3. \A x \in Shown : x \notin D
    BY <2>1, <2>2
  <2> HIDE DEF D
  <2>4. Shown' = Shown
    BY <1>2, <1>6, <2>3, ShownStays
  <2>5. UNCHANGED Listings
    BY <1>2, <2>4 DEF Listings, Home
  <2> QED BY <1>2, <1>6, <2>5 DEF Tree!shownVars
<1> QED BY <1>7, <1>8

LEMMA DeleteFileRefines ==
  ASSUME IInv, NEW f \in File, DeleteFile(f)
  PROVE  (\E i \in DOMAIN Listings : Tree!Delete(i)) \/ UNCHANGED Tree!shownVars
<1>1. /\ folders' = folders \ {f} /\ files' = files \ {f}
      /\ UNCHANGED <<parent, place, owner, request>>
  BY DEF DeleteFile, IInv, TypeOK
<1>2. UNCHANGED Ended /\ DOMAIN Listings = Shown /\ TypeOK
  BY <1>1 DEF Ended, Listings, IInv
<1>3. CASE f \in Shown
  <2>1. \A x \in Shown : Home(x) # f
    BY <1>2, ShownAreRows, HomesAreTyped
  <2>2. Tree!Below(f) = {f}
    <3>1. {f} \in SUBSET Shown /\ \A x \in Shown : Home(x) \in {f} => x \in {f}
      BY <1>3, <2>1
    <3>2. Tree!Below(f) \subseteq {f}
      BY <1>3, <3>1, BelowIsLeast
    <3> QED BY <1>3, <3>2, BelowIsClosed
  <2>3. f \notin Shown'
    BY <1>1 DEF Shown, Reached, IInv, TypeOK
  <2>4. Shown' = Shown \ {f}
    <3>1. /\ {f} \in SUBSET Shown /\ {f} \cap Shown' = {}
          /\ \A x \in Shown : x \in {f} \/ Home(x) \in {f} => x \in {f}
      BY <1>3, <2>1, <2>3
    <3> QED BY <1>1, <1>2, <3>1, ShownShrinks
  <2>5. Tree!Delete(f)
    BY <1>1, <1>3, <2>2, <2>4, StepIsDelete
  <2> QED BY <1>2, <1>3, <2>5
<1>4. CASE f \notin Shown
  <2>1. \A x \in Shown : x \notin {f}
    BY <1>4
  <2>2. Shown' = Shown
    BY <1>1, <1>2, <2>1, ShownStays
  <2>3. UNCHANGED Listings
    BY <1>1, <2>2 DEF Listings, Home
  <2> QED BY <1>1, <1>2, <2>3 DEF Tree!shownVars
<1> QED BY <1>3, <1>4

LEMMA FrameRefines ==
  ASSUME IInv, UNCHANGED <<folders, files, owner>>,
         \A d \in folders : parent'[d] = parent[d],
         \A f \in files : place'[f] = place[f],
         \A i \in Item : request'[i] = "done" <=> request[i] = "done"
  PROVE  UNCHANGED Tree!shownVars
<1>1. UNCHANGED Listings
  BY ListingsFramed DEF IInv
<1>2. UNCHANGED Ended
  BY DEF Ended, Item
<1> QED BY <1>1, <1>2 DEF Tree!shownVars

LEMMA StepRefines ==
  ASSUME IInv, BranchInv, [Next]_vars
  PROVE  [Tree!TreeNext]_Tree!shownVars
<1> USE DEF IInv, TreeInv, TypeOK, Item, treeVars, ghosts
<1>1. ASSUME NEW d \in Folder, NEW p \in FolderId, CheckParent(d, p)
      PROVE  UNCHANGED Tree!shownVars
  <2>1. /\ d \notin folders /\ parent' = [parent EXCEPT ![d] = p]
        /\ UNCHANGED <<folders, files, owner, place>>
        /\ \A i \in Item : request'[i] = "done" <=> request[i] = "done"
    BY <1>1 DEF CheckParent, Pass, InsertedOnce
  <2> QED BY <2>1, FrameRefines
<1>2. ASSUME NEW f \in File, NEW d \in FolderId, StoreObject(f, d)
      PROVE  UNCHANGED Tree!shownVars
  <2>1. /\ f \notin files /\ place' = [place EXCEPT ![f] = d]
        /\ UNCHANGED <<folders, files, owner, parent>>
        /\ \A i \in Item : request'[i] = "done" <=> request[i] = "done"
    BY <1>2 DEF StoreObject, InsertedOnce
  <2> QED BY <2>1, FrameRefines
<1>3. ASSUME UNCHANGED <<folders, files, owner, parent, place>>,
             \A i \in Item : request'[i] = "done" <=> request[i] = "done"
      PROVE  UNCHANGED Tree!shownVars
  BY <1>3, FrameRefines
<1>4. ASSUME NEW f \in File, CheckFolder(f) \/ Approve(f)
      PROVE  UNCHANGED Tree!shownVars
  <2>1. /\ UNCHANGED <<folders, files, owner, parent, place>>
        /\ \A i \in Item : request'[i] = "done" <=> request[i] = "done"
    BY <1>4 DEF CheckFolder, Pass, Approve
  <2> QED BY <1>3, <2>1
<1>5. ASSUME NEW d \in Folder, ChangeFolderPermission(d)
      PROVE  UNCHANGED Tree!shownVars
  BY <1>3, <1>5 DEF ChangeFolderPermission
<1>6. ASSUME Visit \/ UNCHANGED vars
      PROVE  UNCHANGED Tree!shownVars
  <2>1. UNCHANGED <<folders, files, owner, parent, place, request>>
    BY <1>6 DEF Visit, GetPublicFolder, ReadArchiveTree, ListFiles, StreamFile, vars
  <2> QED BY <1>3, <2>1
<1>7. ASSUME NEW r \in Request,
             \/ (\E d \in Folder : ReadTree(r, d)) \/ SelectFiles(r)
             \/ DeleteFilesInFolders(r) \/ AbortRemoval(r)
             \/ RemoveNextObject(r) \/ CrashRemoval(r)
      PROVE  UNCHANGED Tree!shownVars
  <2>1. UNCHANGED <<folders, files, owner, parent, place, request>>
    BY <1>7 DEF ReadTree, SelectFiles, DeleteFilesInFolders, AbortRemoval, RemoveNextObject,
                CrashRemoval
  <2> QED BY <1>3, <2>1
<1>8. ASSUME NEW f \in File, DeleteFileObject(f)
      PROVE  UNCHANGED Tree!shownVars
  BY <1>3, <1>8 DEF DeleteFileObject
<1>9. CASE Create
  BY <1>1, <1>2, <1>4, <1>5, <1>9, InsertRefines, RollBackRefines
     DEF Create, Tree!TreeNext
<1>10. CASE Remove
  BY <1>7, <1>8, <1>10, CommitRefines, DeleteFileRefines DEF Remove, Tree!TreeNext
<1> QED BY <1>6, <1>9, <1>10 DEF Next

\* ImplementsTree: in trees of any depth, however requests overlap, the four
\* statements of DeleteFolder look like one that takes a whole branch, and an
\* item that is no longer shown is not shown again.
THEOREM Implementation == Spec => ImplementsTree
<1>1. Init => Tree!TreeInit
  <2>1. ASSUME Init
        PROVE  Shown = {} /\ Ended = {}
    BY <2>1 DEF Init, Shown, Reached, Ended
  <2>2. ASSUME Init
        PROVE  Listings = [i \in {} |-> Root]
    BY <2>1, <2>2 DEF Listings
  <2> QED BY <2>1, <2>2 DEF Tree!TreeInit
<1>2. IInv /\ BranchInv /\ [Next]_vars => [Tree!TreeNext]_Tree!shownVars
  BY StepRefines
<1> QED BY <1>1, <1>2, FoldersInvariant, BranchesInvariant, PTL
      DEF Spec, ImplementsTree, Tree!TreeSpec

============================================================================

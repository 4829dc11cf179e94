------------------------------ MODULE Folders ------------------------------
(***************************************************************************)
(* The folder tree and what hangs on it: folder creation, uploads into a   *)
(* folder, deletion of a folder with everything below it, deletion of a    *)
(* file and the public ZIP archive of a folder.                            *)
(*                                                                         *)
(* Nothing in the schema ties a parent_id or a folder_id to a folders row: *)
(* the code reads the parent first and inserts afterwards, and DeleteFolder *)
(* reads the tree before its transaction.  Every statement is a step; what *)
(* a READ COMMITTED transaction writes appears when it commits.            *)
(*                                                                         *)
(* objects holds the keys that either bucket has for a file; the buckets   *)
(* themselves and the scanner are in module FileLifecycle.                 *)
(***************************************************************************)
EXTENDS Naturals

CONSTANTS
  User, Folder, File,
  Request,     \* requests to delete a folder
  Root,        \* the folder identifier "root", which has no row
  Unknown,     \* an identifier that names no folder
  Faults, MaxFaults

ASSUME RootAssumption ==
  /\ Root \notin Folder \cup File /\ Folder \cap File = {}
  /\ Unknown \notin Folder \cup {Root}
ASSUME FaultsAssumption ==
  Faults \subseteq {"crash", "db", "s3"} /\ MaxFaults \in Nat

VARIABLES
  folders, parent,             \* folders: rows, parent_id
  files, place,                \* files: rows, folder_id
  owner,                       \* owner_id of the rows of both tables
  public, approved,            \* is_public of folders, status of files
  objects,
  request,                     \* the request that creates a folder or a file
  removal,                     \* the requests that delete a folder
  deletion,                    \* the request that deletes a file
  archive,                     \* one visitor's ZIP download
  removed,                     \* ghost: files whose row was deleted
  overlapped,                  \* ghost: created while a folder was deleted
  faults

treeVars == <<folders, parent, files, place, owner, public>>
ghosts   == <<removed, overlapped>>
vars == <<treeVars, approved, objects, request, removal, deletion, archive,
          ghosts, faults>>

Item == Folder \cup File

\* The requests to delete a folder that have read the tree and not committed.
Reading == {r \in Request : removal[r].stage \in {"tree", "selected", "deleting"}}

TypeOK ==
  /\ folders \subseteq Folder
  /\ parent \in [Folder -> Folder \cup {Root}]
  /\ files \subseteq File
  /\ place \in [File -> Folder \cup {Root}]
  /\ owner \in [Item -> User]
  /\ public \subseteq Folder
  /\ approved \subseteq File
  /\ objects \subseteq File
  /\ request \in [Item -> {"new", "stored", "checked", "done"}]
  /\ removal \in [Request ->
       [stage  : {"new", "tree", "selected", "deleting", "objects", "done"},
        root   : Folder \cup {Root},
        tree   : SUBSET Folder,
        found  : SUBSET File,
        doomed : SUBSET File]]
  /\ deletion \in [File -> {"idle", "objects", "done"}]
  /\ archive \in [stage : {"new", "open", "tree", "listed"},
                  root  : Folder \cup {Root},
                  tree  : SUBSET Folder,
                  list  : SUBSET File,
                  sent  : SUBSET File]
  /\ removed \subseteq File
  /\ overlapped \subseteq Item
  /\ faults \in 0..MaxFaults

NoRemoval ==
  [stage |-> "new", root |-> Root, tree |-> {}, found |-> {}, doomed |-> {}]
NoArchive ==
  [stage |-> "new", root |-> Root, tree |-> {}, list |-> {}, sent |-> {}]

Init ==
  /\ folders = {}
  /\ parent = [d \in Folder |-> Root]
  /\ files = {}
  /\ place = [f \in File |-> Root]
  /\ owner \in [Item -> User]
  /\ public = {}
  /\ approved = {}
  /\ objects = {}
  /\ request = [i \in Item |-> "new"]
  /\ removal = [r \in Request |-> NoRemoval]
  /\ deletion = [f \in File |-> "idle"]
  /\ archive = NoArchive
  /\ removed = {}
  /\ overlapped = {}
  /\ faults = 0

Fault(kind) ==
  /\ kind \in Faults
  /\ faults < MaxFaults
  /\ faults' = faults + 1

----------------------------------------------------------------------------
(***************************************************************************)
(* Folders and files are created by reading their folder first.            *)
(***************************************************************************)

\* Identifiers a client may send as folder_id or parent_id.
FolderId == Folder \cup {Root, Unknown}

\* Mutant: the folder is not looked up.
NoLookup(u, d) == TRUE

\* GetFolder for user u, which the root folder does not need.
HasFolder(u, d) == d = Root \/ (d \in folders /\ owner[d] = u)

\* Whose check has passed and whose row is not inserted.
Pass(i) ==
  /\ request' = [request EXCEPT ![i] = "checked"]
  /\ overlapped' = IF Reading = {} THEN overlapped ELSE overlapped \cup {i}

\* CreateFolder reads the parent.
CheckParent(d, p) ==
  /\ request[d] = "new"
  /\ p # d
  /\ HasFolder(owner[d], p)
  /\ parent' = [parent EXCEPT ![d] = p]
  /\ Pass(d)
  /\ UNCHANGED <<folders, files, place, owner, public, approved, objects,
                 removal, deletion, archive, removed, faults>>

\* The INSERT, which may fail.
InsertFolder(d) ==
  /\ request[d] = "checked"
  /\ \/ folders' = folders \cup {d} /\ UNCHANGED faults
     \/ Fault("db") /\ UNCHANGED folders
  /\ request' = [request EXCEPT ![d] = "done"]
  /\ UNCHANGED <<parent, files, place, owner, public, approved, objects,
                 removal, deletion, archive, ghosts>>

\* UploadFile looks for the folder and stores the object in quarantine.
StoreObject(f, d) ==
  /\ request[f] = "new"
  /\ HasFolder(owner[f], d)
  /\ place' = [place EXCEPT ![f] = d]
  /\ objects' = objects \cup {f}
  /\ request' = [request EXCEPT ![f] = "stored"]
  /\ UNCHANGED <<folders, parent, files, owner, public, approved, removal,
                 deletion, archive, ghosts, faults>>

\* CommitReservedFile looks for the folder again, in its transaction.
CheckFolder(f) ==
  /\ request[f] = "stored"
  /\ HasFolder(owner[f], place[f])
  /\ Pass(f)
  /\ UNCHANGED <<treeVars, approved, objects, removal, deletion, archive,
                 removed, faults>>

InsertFile(f) ==
  /\ request[f] = "checked"
  /\ files' = files \cup {f}
  /\ request' = [request EXCEPT ![f] = "done"]
  /\ UNCHANGED <<folders, parent, place, owner, public, approved, objects,
                 removal, deletion, archive, ghosts, faults>>

\* The folder is gone, or the transaction failed: the object is removed.
RollBackUpload(f) ==
  /\ \/ /\ request[f] = "stored"
        /\ ~ HasFolder(owner[f], place[f])
        /\ objects' = objects \ {f}
        /\ UNCHANGED faults
     \/ /\ request[f] = "checked"
        /\ Fault("db")
        /\ objects' = objects \ {f}
  /\ request' = [request EXCEPT ![f] = "done"]
  /\ UNCHANGED <<treeVars, approved, removal, deletion, archive, ghosts>>

\* The scanner's verdict, module FileLifecycle.
Approve(f) ==
  /\ f \in files \ approved
  /\ approved' = approved \cup {f}
  /\ UNCHANGED <<treeVars, objects, request, removal, deletion, archive,
                 ghosts, faults>>

----------------------------------------------------------------------------
(***************************************************************************)
(* DeleteFolder and DeleteFile.                                            *)
(***************************************************************************)

\* selectFolderTreeSQL: the folders that every set holds which holds d and
\* the owner's children of its members.
Subtree(d) ==
  {c \in folders :
     /\ d \in folders
     /\ \A S \in SUBSET folders :
          /\ d \in S
          /\ \A x \in folders :
               parent[x] \in S /\ owner[x] = owner[d] => x \in S
          => c \in S}

\* The files of the tree that belong to the caller, the owner of its root.
FilesBelow(r) == {f \in files : /\ place[f] \in removal[r].tree
                                /\ owner[f] = owner[removal[r].root]}

\* Mutant: only the folder itself is deleted.
ReadFolderOnly(r, d) ==
  /\ removal[r].stage = "new"
  /\ d \in folders
  /\ removal' = [removal EXCEPT ![r] =
       [NoRemoval EXCEPT !.stage = "tree", !.root = d, !.tree = {d}]]
  /\ overlapped' = overlapped \cup {i \in Item : request[i] = "checked"}
  /\ UNCHANGED <<treeVars, approved, objects, request, deletion, archive,
                 removed, faults>>

\* FolderTree, outside the transaction.
ReadTree(r, d) ==
  /\ removal[r].stage = "new"
  /\ d \in folders
  /\ removal' = [removal EXCEPT ![r] =
       [NoRemoval EXCEPT !.stage = "tree", !.root = d, !.tree = Subtree(d)]]
  /\ overlapped' = overlapped \cup {i \in Item : request[i] = "checked"}
  /\ UNCHANGED <<treeVars, approved, objects, request, deletion, archive,
                 removed, faults>>

SelectFiles(r) ==
  /\ removal[r].stage = "tree"
  /\ removal' = [removal EXCEPT ![r].stage = "selected",
                                ![r].found = FilesBelow(r)]
  /\ UNCHANGED <<treeVars, approved, objects, request, deletion, archive,
                 ghosts, faults>>

\* Rows that an open transaction has deleted: others wait for its end.
Locked == UNION {removal[r].doomed : r \in {q \in Request : removal[q].stage = "deleting"}}

DeleteFilesInFolders(r) ==
  LET doomed == FilesBelow(r)
  IN  /\ removal[r].stage = "selected"
      /\ doomed \cap Locked = {}
      /\ removal' = [removal EXCEPT ![r].stage = "deleting", ![r].doomed = doomed]
      /\ UNCHANGED <<treeVars, approved, objects, request, deletion, archive,
                     ghosts, faults>>

\* The folders are deleted by identifier and the transaction commits.
CommitRemoval(r) ==
  /\ removal[r].stage = "deleting"
  /\ files' = files \ removal[r].doomed
  /\ folders' = folders \ removal[r].tree
  /\ public' = public \ removal[r].tree
  /\ removed' = removed \cup removal[r].doomed
  /\ removal' = [removal EXCEPT ![r].stage = "objects"]
  /\ UNCHANGED <<parent, place, owner, approved, objects, request, deletion,
                 archive, overlapped, faults>>

\* A statement fails and the transaction is rolled back.
AbortRemoval(r) ==
  /\ r \in Reading
  /\ Fault("db")
  /\ removal' = [removal EXCEPT ![r] = [NoRemoval EXCEPT !.stage = "done"]]
  /\ UNCHANGED <<treeVars, approved, objects, request, deletion, archive, ghosts>>

\* Mutant: the handler forgets the objects.
RemoveNoObject(r) ==
  /\ removal[r].stage = "objects"
  /\ removal' = [removal EXCEPT ![r].stage = "done", ![r].found = {}]
  /\ UNCHANGED <<treeVars, approved, objects, request, deletion, archive,
                 ghosts, faults>>

\* The objects of the files that were selected, one by one; errors are only
\* logged.
RemoveNextObject(r) ==
  /\ removal[r].stage = "objects"
  /\ IF removal[r].found = {}
     THEN /\ removal' = [removal EXCEPT ![r].stage = "done"]
          /\ UNCHANGED <<objects, faults>>
     ELSE \E f \in removal[r].found :
            /\ removal' = [removal EXCEPT ![r].found = @ \ {f}]
            /\ \/ objects' = objects \ {f} /\ UNCHANGED faults
               \/ Fault("s3") /\ UNCHANGED objects
  /\ UNCHANGED <<treeVars, approved, request, deletion, archive, ghosts>>

CrashRemoval(r) ==
  /\ removal[r].stage \notin {"new", "done"}
  /\ Fault("crash")
  /\ removal' = [removal EXCEPT ![r] = [NoRemoval EXCEPT !.stage = "done"]]
  /\ UNCHANGED <<treeVars, approved, objects, request, deletion, archive, ghosts>>

\* DeleteFile of a single file: the statement waits for a row lock.
DeleteFile(f) ==
  /\ f \in files \ Locked
  /\ files' = files \ {f}
  /\ removed' = removed \cup {f}
  /\ deletion' = [deletion EXCEPT ![f] = "objects"]
  /\ UNCHANGED <<folders, parent, place, owner, public, approved, objects,
                 request, removal, archive, overlapped, faults>>

DeleteFileObject(f) ==
  /\ deletion[f] = "objects"
  /\ \/ objects' = objects \ {f} /\ UNCHANGED faults
     \/ Fault("s3") /\ UNCHANGED objects
  /\ deletion' = [deletion EXCEPT ![f] = "done"]
  /\ UNCHANGED <<treeVars, approved, request, removal, archive, ghosts>>

ChangeFolderPermission(d) ==
  /\ d \in folders
  /\ public' \in {public \cup {d}, public \ {d}}
  /\ UNCHANGED <<folders, parent, files, place, owner, approved, objects,
                 request, removal, deletion, archive, ghosts, faults>>

----------------------------------------------------------------------------
(***************************************************************************)
(* DownloadPublicFolder: four reads, one after the other.                  *)
(***************************************************************************)

GetPublicFolder(d) ==
  /\ archive.stage = "new"
  /\ d \in public
  /\ archive' = [archive EXCEPT !.stage = "open", !.root = d]
  /\ UNCHANGED <<treeVars, approved, objects, request, removal, deletion,
                 ghosts, faults>>

ReadArchiveTree ==
  /\ archive.stage = "open"
  /\ archive' = [archive EXCEPT !.stage = "tree",
                   !.tree = Subtree(archive.root)]
  /\ UNCHANGED <<treeVars, approved, objects, request, removal, deletion,
                 ghosts, faults>>

\* Mutant: the archive takes every approved file of the owner.
ListAllFiles ==
  /\ archive.stage = "tree"
  /\ archive' = [archive EXCEPT !.stage = "listed",
                   !.list = {f \in files \cap approved :
                               owner[f] = owner[archive.root]}]
  /\ UNCHANGED <<treeVars, approved, objects, request, removal, deletion,
                 ghosts, faults>>

\* ListFiles returns all files of the owner; the archive keeps the approved
\* ones whose folder is in the tree it has read.
ListFiles ==
  /\ archive.stage = "tree"
  /\ archive' = [archive EXCEPT !.stage = "listed",
                   !.list = {f \in files \cap approved :
                               /\ owner[f] = owner[archive.root]
                               /\ place[f] \in archive.tree}]
  /\ UNCHANGED <<treeVars, approved, objects, request, removal, deletion,
                 ghosts, faults>>

\* A file whose object is gone by now is skipped.
StreamFile(f) ==
  /\ archive.stage = "listed"
  /\ f \in archive.list
  /\ archive' = [archive EXCEPT
                   !.list = @ \ {f},
                   !.sent = IF f \in objects THEN @ \cup {f} ELSE @]
  /\ UNCHANGED <<treeVars, approved, objects, request, removal, deletion,
                 ghosts, faults>>

----------------------------------------------------------------------------

Create ==
  \/ \E d \in Folder : \/ \E p \in FolderId : CheckParent(d, p)
                       \/ InsertFolder(d)
                       \/ ChangeFolderPermission(d)
  \/ \E f \in File : \/ \E d \in FolderId : StoreObject(f, d)
                     \/ CheckFolder(f)
                     \/ InsertFile(f)
                     \/ RollBackUpload(f)
                     \/ Approve(f)

Remove ==
  \/ \E r \in Request : \/ \E d \in Folder : ReadTree(r, d)
                        \/ SelectFiles(r)
                        \/ DeleteFilesInFolders(r)
                        \/ CommitRemoval(r)
                        \/ AbortRemoval(r)
                        \/ RemoveNextObject(r)
                        \/ CrashRemoval(r)
  \/ \E f \in File : DeleteFile(f) \/ DeleteFileObject(f)

Visit ==
  \/ \E d \in Folder : GetPublicFolder(d)
  \/ ReadArchiveTree
  \/ ListFiles
  \/ \E f \in File : StreamFile(f)

Next == Create \/ Remove \/ Visit

Spec == Init /\ [][Next]_vars

----------------------------------------------------------------------------

\* Rows whose folder has no row: no folder listing shows them and no folder
\* deletion reaches them.
Orphans ==
  {d \in folders : parent[d] # Root /\ parent[d] \notin folders}
    \cup {f \in files : place[f] # Root /\ place[f] \notin folders}

\* Only a creation that ran while a folder was being deleted leaves an orphan.
OrphansNeedOverlap == Orphans \subseteq overlapped

\* Files whose row is gone and whose objects nobody will remove any more.
Leftovers ==
  {f \in removed \cap objects :
     /\ deletion[f] # "objects"
     /\ \A r \in Request : f \notin removal[r].doomed \cap removal[r].found}

\* Two deletions of one file never each leave its objects to the other.
LeftoversNeedOverlap == faults = 0 => Leftovers \subseteq overlapped

\* Whether the published folder is d or an ancestor of d.
Above(d) ==
  \A S \in SUBSET Folder :
    (d \in S /\ \A x \in S : parent[x] # Root => parent[x] \in S)
      => archive.root \in S

\* A visitor's archive holds nothing but approved files of the published
\* folder's own subtree, whatever was created or deleted meanwhile.
ArchiveHoldsPublicTree ==
  \A f \in archive.sent :
    /\ f \in approved
    /\ place[f] # Root /\ Above(place[f])
    /\ owner[f] = owner[archive.root]

\* The folders that a walk through the listings can reach from the root
\* folder, and what is in them.
Reached ==
  {d \in folders : \A S \in SUBSET folders :
     (\A x \in folders : parent[x] = Root \/ parent[x] \in S => x \in S) => d \in S}

Shown == Reached \cup {f \in files : place[f] \in Reached \cup {Root}}

Home(i)  == IF i \in Folder THEN parent[i] ELSE place[i]
Listings == [i \in Shown |-> Home(i)]
Ended    == {i \in Item : request[i] = "done"}

Tree == INSTANCE FolderTree WITH tree <- Listings, spent <- Ended

\* Though a deletion takes four statements and may miss what is created in the
\* meantime, in the listings it is one step that takes all below its folder,
\* and what it has missed is never shown again.
ImplementsTree == Tree!TreeSpec

\* "Delete removes a folder together with all its files and nested folders".
DeleteRemovesEverything ==
  \A r \in Request :
    removal[r].stage \in {"objects", "done"} =>
      /\ \A f \in files : place[f] \notin removal[r].tree
      /\ \A d \in folders : parent[d] \notin removal[r].tree
=============================================================================

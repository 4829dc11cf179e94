----------------------------- MODULE MCFolders -----------------------------
(* Instances of Folders for TLC. *)
EXTENDS Folders, TLC

AllFaults == {"crash", "db", "s3"}
NoFaults  == {}
Symmetry  == Permutations(User) \cup Permutations(Folder)
               \cup Permutations(File) \cup Permutations(Request)
=============================================================================

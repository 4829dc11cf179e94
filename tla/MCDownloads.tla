---------------------------- MODULE MCDownloads ----------------------------
(* An instance of Downloads, with the files it is about, for TLC. *)
EXTENDS Downloads, TLC

AllFaults == {"crash", "s3", "db", "ambiguous"}

WorkerSymmetry == Permutations(Worker)
=============================================================================

-------------------------- MODULE MCFileLifecycle --------------------------
(* An instance of FileLifecycle for TLC. *)
EXTENDS FileLifecycle

AllFaults == {"crash", "db", "s3", "ambiguous"}
=============================================================================

---------------------------- MODULE FileContract ----------------------------
(***************************************************************************)
(* What the API promises about a file, without buckets, leases, workers or *)
(* requests in progress: a stored file waits for exactly one decision, may *)
(* be shared only once it is approved, and is gone for good once deleted.  *)
(***************************************************************************)
CONSTANT File

VARIABLES
  stage,    \* what a GET of the file's metadata shows
  shared    \* the files a visitor without an account can download

contractVars == <<stage, shared>>

Verdicts == {"approved", "blocked", "scan_failed"}

ContractInit ==
  /\ stage = [f \in File |-> "unknown"]
  /\ shared = {}

Accept(f) ==
  /\ stage[f] = "unknown"
  /\ stage' = [stage EXCEPT ![f] = "pending"]
  /\ UNCHANGED shared

Decide(f) ==
  /\ stage[f] = "pending"
  /\ \E verdict \in Verdicts : stage' = [stage EXCEPT ![f] = verdict]
  /\ UNCHANGED shared

Share(f) ==
  /\ stage[f] = "approved"
  /\ shared' \in {shared \cup {f}, shared \ {f}}
  /\ UNCHANGED stage

Remove(f) ==
  /\ stage[f] \notin {"unknown", "removed"}
  /\ stage' = [stage EXCEPT ![f] = "removed"]
  /\ shared' = shared \ {f}

ContractNext == \E f \in File : Accept(f) \/ Decide(f) \/ Share(f) \/ Remove(f)

ContractSpec == ContractInit /\ [][ContractNext]_contractVars
=============================================================================

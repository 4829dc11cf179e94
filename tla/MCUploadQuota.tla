--------------------------- MODULE MCUploadQuota ---------------------------
(* An instance of UploadQuota for TLC: four uploads of one user, of which  *)
(* two fit together only if they are the small ones and one never fits.    *)
(* Users do not share rows or locks: a second one adds nothing of interest. *)
EXTENDS UploadQuota, TLC

CONSTANTS alice, a1, a2, a3, big

Alone        == {alice}
AliceUploads == {a1, a2, a3, big}
AliceOwners  == [u \in AliceUploads |-> alice]
AliceSizes   == (a1 :> 1) @@ (a2 :> 1) @@ (a3 :> 2) @@ (big :> 3)
AliceLimit   == (alice :> 2)

AllFaults == {"crash", "db", "ambiguous"}
=============================================================================

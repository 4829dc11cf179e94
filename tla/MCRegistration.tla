--------------------------- MODULE MCRegistration ---------------------------
(* Instances of Registration for TLC: three requests, the first shares its  *)
(* name with the second and its email with the third.                       *)
EXTENDS Registration, TLC

CONSTANTS k1, k2, k3, ann, ben, home, work

Keys   == {k1, k2, k3}
Names  == (k1 :> ann) @@ (k2 :> ann) @@ (k3 :> ben)
Emails == (k1 :> home) @@ (k2 :> work) @@ (k3 :> home)

AllFaults == {"crash", "db", "ambiguous", "mail"}
ConfirmSymmetry == Permutations(Confirm)
=============================================================================

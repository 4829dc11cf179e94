-------------------------- MODULE AccountRegistry --------------------------
(***************************************************************************)
(* What registration promises, in one step per promise: a request reserves *)
(* its identity, and either becomes the one account of that identity or    *)
(* is void.  Pending rows, transactions and confirmations do not appear.   *)
(***************************************************************************)
CONSTANTS Key, Name, Email, NameOf, EmailOf

VARIABLE stage   \* what has become of the request with each key

SameIdentity(k, l) == NameOf[k] = NameOf[l] \/ EmailOf[k] = EmailOf[l]

RegistryInit == stage = [k \in Key |-> "asked"]

\* Nobody else with the same name or email is at stage s.
Alone(k, s) == \A l \in Key \ {k} : stage[l] = s => ~ SameIdentity(k, l)

Reserve(k) ==
  /\ stage[k] = "asked"
  /\ Alone(k, "reserved")
  /\ stage' = [stage EXCEPT ![k] = "reserved"]

Activate(k) ==
  /\ stage[k] = "reserved"
  /\ Alone(k, "reserved")
  /\ Alone(k, "account")
  /\ stage' = [stage EXCEPT ![k] = "account"]

\* A request is refused, or expires.
Drop(k) ==
  /\ stage[k] \in {"asked", "reserved"}
  /\ stage' = [stage EXCEPT ![k] = "void"]

RegistryNext ==
  \E k \in Key : Reserve(k) \/ Activate(k) \/ Drop(k)

RegistrySpec == RegistryInit /\ [][RegistryNext]_stage
=============================================================================

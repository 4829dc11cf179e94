----------------------------- MODULE Reconcile -----------------------------
(***************************************************************************)
(* The start of a server process: ReconcileUserProfiles joins the users    *)
(* table of the cloud database (profiles, once with a username and a plan) *)
(* to the users table of the authentication database (accounts), without a *)
(* transaction over both.  Every statement is a step of its own, and the   *)
(* process may stop after any of them; only finalizeSchema is one          *)
(* transaction.  Several server processes may start at the same time.      *)
(***************************************************************************)
EXTENDS FiniteSets, Naturals

CONSTANTS
  Server,          \* server processes
  Name,            \* usernames
  OldId, NewId,    \* identifiers of legacy profiles, random identifiers
  Catalog,         \* the configured plans
  DefaultPlan,
  Retired,         \* the name of a plan that is not configured
  None,            \* NULL
  MaxStops         \* how often a process may stop on the way

ASSUME IdAssumption ==
  OldId \cap NewId = {} /\ None \notin OldId \cup NewId \cup Name
ASSUME PlanAssumption ==
  DefaultPlan \in Catalog /\ Retired \notin Catalog /\ None \notin Catalog \cup {Retired}
ASSUME StopAssumption == MaxStops \in Nat

VARIABLES
  accounts, id, plans,       \* authentication users: rows, id, plan
  keyed,                     \* its primary key is id
  profiles,                  \* cloud users: the id of each row
  legacy,                    \* it still has the legacy columns
  link, moved,               \* these columns: username and plan of a row
  drawn,                     \* random identifiers used so far
  server,                    \* the progress of each process
  overlapped,                \* ghost: two processes were starting at once
  stops

authVars  == <<accounts, id, plans, keyed>>
cloudVars == <<profiles, legacy, link, moved>>
vars == <<authVars, cloudVars, drawn, server, overlapped, stops>>

Id   == OldId \cup NewId
Plan == Catalog \cup {Retired}
Ids  == {id[n] : n \in accounts}

Starting == {"links", "link", "assign", "merge", "ids", "backfill", "validate",
             "key", "finalize", "drop"}

TypeOK ==
  /\ accounts \subseteq Name
  /\ id \in [Name -> Id \cup {None}]
  /\ plans \in [Name -> SUBSET Plan]
  /\ keyed \in BOOLEAN
  /\ profiles \subseteq Id
  /\ legacy \in BOOLEAN
  /\ link \in [OldId -> Name \cup {None}]
  /\ moved \in [OldId -> Plan \cup {None}]
  /\ drawn \subseteq NewId
  /\ server \in [Server -> [stage  : Starting \cup {"off", "serving"},
                            legacy : BOOLEAN,      \* legacy columns were seen
                            todo   : SUBSET (Id \cup Name),
                            seen   : SUBSET (Id \cup {None}),
                            keyed  : BOOLEAN]]
  /\ overlapped \in BOOLEAN
  /\ stops \in 0..MaxStops

Off == [stage |-> "off", legacy |-> FALSE, todo |-> {}, seen |-> {}, keyed |-> FALSE]

\* A new installation has no profile; a legacy one, whose usernames were
\* login names and therefore unique, has accounts that the operator copied,
\* perhaps not all of them; the id column is new.
Init ==
  /\ accounts \in SUBSET Name
  /\ id = [n \in Name |-> None]
  /\ plans \in [Name -> {{}, {DefaultPlan}, {Retired}}]
  /\ \A n \in Name \ accounts : plans[n] = {}
  /\ keyed = FALSE
  /\ legacy \in BOOLEAN
  /\ profiles \in SUBSET OldId
  /\ link \in [OldId -> Name \cup {None}]
  /\ moved \in [OldId -> Plan \cup {None}]
  /\ \A p \in OldId \ profiles : link[p] = None /\ moved[p] = None
  /\ \A p, q \in profiles : link[p] = link[q] => p = q \/ link[p] = None
  /\ ~ legacy => profiles = {}
  /\ drawn = {}
  /\ server = [s \in Server |-> Off]
  /\ overlapped = FALSE
  /\ stops = 0

Stage(s)     == server[s].stage
Todo(s)      == server[s].todo
Goto(s, g)   == server' = [server EXCEPT ![s].stage = g]
Finish(s, x) == server' = [server EXCEPT ![s].todo = @ \ {x}]
Begin(s, g, list) == server' = [server EXCEPT ![s].stage = g, ![s].todo = list]

Start(s) ==
  /\ Stage(s) = "off"
  /\ Goto(s, "links")
  /\ overlapped' = (overlapped \/ \E t \in Server : Stage(t) \in Starting)
  /\ UNCHANGED <<authVars, cloudVars, drawn, stops>>

----------------------------------------------------------------------------
(***************************************************************************)
(* Identifiers.                                                            *)
(***************************************************************************)

LegacyUserLinks(s) ==
  /\ Stage(s) = "links"
  /\ server' = [server EXCEPT
       ![s].stage  = "link",
       ![s].legacy = legacy,
       ![s].todo   = IF legacy THEN {p \in profiles \cap OldId : link[p] # None}
                               ELSE {}]
  /\ UNCHANGED <<authVars, cloudVars, drawn, overlapped, stops>>

\* The primary key, once it is there, refuses a second account with an id.
Duplicate(n, p) == keyed /\ \E m \in accounts \ {n} : id[m] = p

\* Mutant: only an account without an identifier is linked.
SetMissingUserID(s, p) ==
  /\ Stage(s) = "link"
  /\ p \in Todo(s)
  /\ link[p] \in accounts
  /\ id[link[p]] = None
  /\ id' = [id EXCEPT ![link[p]] = p]
  /\ Finish(s, p)
  /\ UNCHANGED <<accounts, plans, keyed, cloudVars, drawn, overlapped, stops>>

SetUserID(s, p) ==
  /\ Stage(s) = "link"
  /\ p \in Todo(s)
  /\ link[p] \in accounts
  /\ ~ Duplicate(link[p], p)
  /\ id' = [id EXCEPT ![link[p]] = p]
  /\ Finish(s, p)
  /\ UNCHANGED <<accounts, plans, keyed, cloudVars, drawn, overlapped, stops>>

SelectMissingIDs(s) ==
  /\ Stage(s) = "link"
  /\ Todo(s) = {}
  /\ Begin(s, "assign", {n \in accounts : id[n] = None})
  /\ UNCHANGED <<authVars, cloudVars, drawn, overlapped, stops>>

\* Mutant: the username becomes the identifier.
AssignUsername(s, n) ==
  /\ Stage(s) = "assign"
  /\ n \in Todo(s)
  /\ id' = [id EXCEPT ![n] = n]
  /\ Finish(s, n)
  /\ UNCHANGED <<accounts, plans, keyed, cloudVars, drawn, overlapped, stops>>

\* The UPDATE does not ask again whether the identifier is missing.
AssignMissingID(s, n) ==
  /\ Stage(s) = "assign"
  /\ n \in Todo(s)
  /\ LET random == CHOOSE x \in NewId \ drawn : TRUE
     IN  /\ NewId # drawn
         /\ id' = [id EXCEPT ![n] = random]
         /\ drawn' = drawn \cup {random}
  /\ Finish(s, n)
  /\ UNCHANGED <<accounts, plans, keyed, cloudVars, overlapped, stops>>

----------------------------------------------------------------------------
(***************************************************************************)
(* Plans.                                                                  *)
(***************************************************************************)

LegacyUserPlans(s) ==
  /\ Stage(s) = "assign"
  /\ Todo(s) = {}
  /\ server' = [server EXCEPT
       ![s].stage  = "merge",
       ![s].legacy = @ \/ legacy,
       ![s].todo   = IF legacy THEN {p \in profiles \cap OldId : moved[p] # None}
                               ELSE {}]
  /\ UNCHANGED <<authVars, cloudVars, drawn, overlapped, stops>>

Holders(p) == {n \in accounts : id[n] = p}

\* Mutant: a plan is moved only to an account that has none.
FillUserPlan(s, p) ==
  /\ Stage(s) = "merge"
  /\ p \in Todo(s)
  /\ moved[p] \in Catalog
  /\ Holders(p) # {}
  /\ plans' = [n \in Name |-> IF n \in Holders(p) /\ plans[n] = {}
                              THEN {moved[p]} ELSE plans[n]]
  /\ Finish(s, p)
  /\ UNCHANGED <<accounts, id, keyed, cloudVars, drawn, overlapped, stops>>

MergeUserPlan(s, p) ==
  /\ Stage(s) = "merge"
  /\ p \in Todo(s)
  /\ moved[p] \in Catalog
  /\ Holders(p) # {}
  /\ plans' = [n \in Name |-> IF n \in Holders(p) THEN plans[n] \cup {moved[p]}
                                                  ELSE plans[n]]
  /\ Finish(s, p)
  /\ UNCHANGED <<accounts, id, keyed, cloudVars, drawn, overlapped, stops>>

\* userLinks, only if there were legacy columns.
UserLinks(s) ==
  /\ Stage(s) = "merge"
  /\ Todo(s) = {}
  /\ server' = [server EXCEPT
       ![s].stage = IF server[s].legacy THEN "ids" ELSE "backfill",
       ![s].seen  = IF server[s].legacy THEN Ids ELSE {}]
  /\ UNCHANGED <<authVars, cloudVars, drawn, overlapped, stops>>

\* Mutant: the profiles are not compared with the accounts.
CheckNothing(s) ==
  /\ Stage(s) = "ids"
  /\ Goto(s, "backfill")
  /\ UNCHANGED <<authVars, cloudVars, drawn, overlapped, stops>>

CheckUserIDs(s) ==
  /\ Stage(s) = "ids"
  /\ profiles \subseteq server[s].seen
  /\ Goto(s, "backfill")
  /\ UNCHANGED <<authVars, cloudVars, drawn, overlapped, stops>>

BackfillPlans(s) ==
  /\ Stage(s) = "backfill"
  /\ plans' = [n \in Name |-> IF n \in accounts /\ plans[n] = {}
                              THEN {DefaultPlan} ELSE plans[n]]
  /\ Goto(s, "validate")
  /\ UNCHANGED <<accounts, id, keyed, cloudVars, drawn, overlapped, stops>>

\* Mutant: unknown plans are left to the requests.
ValidateNothing(s) ==
  /\ Stage(s) = "validate"
  /\ Goto(s, "key")
  /\ UNCHANGED <<authVars, cloudVars, drawn, overlapped, stops>>

ValidatePlans(s) ==
  /\ Stage(s) = "validate"
  /\ \A n \in accounts : plans[n] \subseteq Catalog
  /\ Goto(s, "key")
  /\ UNCHANGED <<authVars, cloudVars, drawn, overlapped, stops>>

----------------------------------------------------------------------------
(***************************************************************************)
(* The schema.                                                             *)
(***************************************************************************)

SelectPrimaryKey(s) ==
  /\ Stage(s) = "key"
  /\ server' = [server EXCEPT ![s].stage = "finalize", ![s].keyed = keyed]
  /\ UNCHANGED <<authVars, cloudVars, drawn, overlapped, stops>>

\* SET NOT NULL, the CHECK of the plans, the PRIMARY KEY.
ConstraintsHold ==
  /\ \A n \in accounts : id[n] # None /\ plans[n] # {}
  /\ \A m, n \in accounts : id[m] = id[n] => m = n

FinalizeSchema(s) ==
  /\ Stage(s) = "finalize"
  /\ ConstraintsHold
  /\ server[s].keyed = keyed
  /\ keyed' = TRUE
  /\ Goto(s, IF server[s].legacy THEN "drop" ELSE "serving")
  /\ UNCHANGED <<accounts, id, plans, cloudVars, drawn, overlapped, stops>>

DropLegacyColumns(s) ==
  /\ Stage(s) = "drop"
  /\ legacy' = FALSE
  /\ Goto(s, "serving")
  /\ UNCHANGED <<authVars, profiles, link, moved, drawn, overlapped, stops>>

\* The errors that the data cause: New returns, and the process ends.
Refuse(s) ==
  /\ \/ Stage(s) = "link" /\ \E p \in Todo(s) :
          link[p] \notin accounts \/ Duplicate(link[p], p)
     \/ Stage(s) = "merge" /\ \E p \in Todo(s) :
          moved[p] \notin Catalog \/ Holders(p) = {}
     \/ Stage(s) = "ids" /\ ~ profiles \subseteq server[s].seen
     \/ Stage(s) = "validate" /\ \E n \in accounts : ~ plans[n] \subseteq Catalog
     \/ Stage(s) = "finalize" /\ (~ ConstraintsHold \/ server[s].keyed # keyed)
  /\ server' = [server EXCEPT ![s] = Off]
  /\ UNCHANGED <<authVars, cloudVars, drawn, overlapped, stops>>

\* A failed call or a crash, after any statement.
Stop(s) ==
  /\ Stage(s) # "off"
  /\ stops < MaxStops
  /\ stops' = stops + 1
  /\ server' = [server EXCEPT ![s] = Off]
  /\ UNCHANGED <<authVars, cloudVars, drawn, overlapped>>

\* A login at a process that serves makes the profile of its account.
Login(s, n) ==
  /\ Stage(s) = "serving"
  /\ n \in accounts
  /\ id[n] # None
  /\ profiles' = profiles \cup {id[n]}
  /\ UNCHANGED <<authVars, legacy, link, moved, drawn, server, overlapped, stops>>

Step(s) ==
  \/ Start(s)
  \/ LegacyUserLinks(s)
  \/ \E p \in OldId : SetUserID(s, p)
  \/ SelectMissingIDs(s)
  \/ \E n \in Name : AssignMissingID(s, n)
  \/ LegacyUserPlans(s)
  \/ \E p \in OldId : MergeUserPlan(s, p)
  \/ UserLinks(s)
  \/ CheckUserIDs(s)
  \/ BackfillPlans(s)
  \/ ValidatePlans(s)
  \/ SelectPrimaryKey(s)
  \/ FinalizeSchema(s)
  \/ DropLegacyColumns(s)
  \/ Refuse(s)

Next == \E s \in Server : Step(s) \/ Stop(s) \/ \E n \in Name : Login(s, n)

Spec == Init /\ [][Next]_vars

\* A process that stopped is started again and no statement takes for ever.
FairSpec == Spec /\ \A s \in Server : WF_vars(Step(s))

----------------------------------------------------------------------------

\* The legacy columns are dropped only when all they said is in the other
\* database, whatever stopped on the way: the account of the username has
\* the profile's identifier and the plan is among its plans.
NothingLost ==
  ~ legacy => \A p \in OldId :
    /\ link[p] # None => link[p] \in accounts /\ id[link[p]] = p
    /\ moved[p] # None => \E n \in Holders(p) : moved[p] \in plans[n]

\* From then on no profile, which owns files, is without its account.  Two
\* processes that assign missing identifiers at the same time can still give
\* an account another one after its first login.
ProfilesHaveAccounts == ~ legacy /\ ~ overlapped => profiles \subseteq Ids

\* Whoever logs in while a process serves has an identifier of his own and
\* plans that are configured, so that ForPlans cannot fail.
ServedAccountsUsable ==
  (\E s \in Server : Stage(s) = "serving") =>
    /\ ConstraintsHold
    /\ \A n \in accounts : plans[n] \subseteq Catalog

\* Data the README asks the operator for.
Consistent ==
  /\ \A n \in accounts : plans[n] \subseteq Catalog
  /\ \A p \in profiles \cap OldId :
       /\ link[p] \in accounts
       /\ moved[p] \in Catalog \cup {None}

\* The migration can be interrupted anywhere, by stops or by another process
\* that starts, and still ends with a process that serves.
StartupSucceeds == Consistent => <>(\E s \in Server : Stage(s) = "serving")
=============================================================================

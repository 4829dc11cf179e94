-------------------------- MODULE ReconcileProofs --------------------------
(***************************************************************************)
(* Proofs for any accounts, profiles, plans, processes and stops: no link  *)
(* and no plan is lost, and a process serves only accounts that can be     *)
(* used, wherever the start of whichever process was interrupted.          *)
(***************************************************************************)
EXTENDS Reconcile, TLAPS

Linked(p) == link[p] # None => link[p] \in accounts /\ id[link[p]] = p
Moved(p)  == moved[p] # None => \E n \in Holders(p) : moved[p] \in plans[n]

\* The legacy columns describe profiles, each with a username of its own.
LegacyData ==
  /\ \A p, q \in OldId : link[p] = link[q] => p = q \/ link[p] = None
  /\ \A p \in OldId \ profiles : link[p] = None /\ moved[p] = None

\* An account that has a link takes no other identifier, and one without takes
\* a random one.
IdsAreLinks ==
  /\ \A n \in Name : id[n] \in OldId => link[id[n]] = n
  /\ \A p \in OldId : link[p] # None => id[link[p]] \in {None, p}
  /\ \A n \in Name : id[n] \in NewId => id[n] \in drawn
  /\ \A m, n \in Name : id[m] = id[n] /\ id[m] \in NewId => m = n

\* What a process has done at each stage, whoever runs beside it.
ProgressOf(s) ==
  /\ Stage(s) \in {"link", "assign"} /\ ~ server[s].legacy => ~ legacy
  /\ Stage(s) = "link" => \A p \in OldId : p \in Todo(s) \/ Linked(p)
  /\ Stage(s) \notin {"off", "links", "link"} => \A p \in OldId : Linked(p)
  /\ Stage(s) = "assign" =>
       \A n \in Todo(s) : n \in accounts /\ \A p \in OldId : link[p] # n
  /\ Stage(s) = "merge" => \A p \in OldId : p \in Todo(s) \/ Moved(p)
  /\ Stage(s) \notin {"off", "links", "link", "assign", "merge"} =>
       \A p \in OldId : Moved(p)

Progress == \A s \in Server : ProgressOf(s)

Checked == {"key", "finalize", "drop", "serving"}

\* What the schema and the check of the plans have established stays.
SchemaInv ==
  /\ keyed => ConstraintsHold
  /\ \A s \in Server :
       /\ Stage(s) \in Checked => \A n \in accounts : plans[n] \subseteq Catalog
       /\ Stage(s) \in {"drop", "serving"} => keyed

\* The starts do not overlap so far: an identifier, once given, stays, and so
\* does the account of a profile.
ProfileOf(s) ==
  /\ Stage(s) = "assign" => \A n \in Todo(s) : id[n] = None
  /\ Stage(s) = "ids" => server[s].seen \subseteq Ids \cup {None}
  /\ Stage(s) \notin {"off", "links", "link", "assign"} /\ ~ server[s].legacy => ~ legacy
  /\ Stage(s) \in {"backfill", "validate", "key", "finalize", "drop"} => profiles \subseteq Ids

ProfileInv ==
  ~ overlapped =>
    /\ \A s, t \in Server : Stage(s) \in Starting /\ Stage(t) \in Starting => s = t
    /\ profiles \subseteq OldId \cup Ids
    /\ \A s \in Server : ProfileOf(s)

IInv ==
  /\ TypeOK /\ LegacyData /\ IdsAreLinks
  /\ Progress /\ NothingLost
  /\ SchemaInv /\ ProfileInv /\ ProfilesHaveAccounts

USE IdAssumption, PlanAssumption, StopAssumption

\* The steps that move data, and those that only read.
Reads(s) ==
  \/ Start(s) \/ LegacyUserLinks(s) \/ SelectMissingIDs(s) \/ LegacyUserPlans(s)
  \/ UserLinks(s) \/ CheckUserIDs(s) \/ ValidatePlans(s) \/ SelectPrimaryKey(s)
  \/ Refuse(s) \/ Stop(s)

----------------------------------------------------------------------------
(***************************************************************************)
(* Types.                                                                  *)
(***************************************************************************)

Position == [stage  : Starting \cup {"off", "serving"},
             legacy : BOOLEAN,
             todo   : SUBSET (Id \cup Name),
             seen   : SUBSET (Id \cup {None}),
             keyed  : BOOLEAN]

\* A process that moves to another position keeps the types.
LEMMA MoveIsTyped ==
  ASSUME TypeOK, NEW s \in Server, NEW r \in Position,
         server' = [server EXCEPT ![s] = r],
         UNCHANGED <<authVars, cloudVars, drawn>>,
         overlapped' \in BOOLEAN, stops' \in 0..MaxStops
  PROVE  TypeOK'
<1>1. server \in [Server -> Position]
  BY DEF TypeOK, Position
<1>2. server' \in [Server -> Position]
  BY <1>1
<1>3. UNCHANGED <<accounts, id, plans, keyed, profiles, legacy, link, moved, drawn>>
  BY DEF authVars, cloudVars
<1> QED BY <1>2, <1>3 DEF TypeOK, Position

LEMMA FinishIsTyped ==
  ASSUME server \in [Server -> Position], NEW s \in Server, NEW x, Finish(s, x)
  PROVE  server' \in [Server -> Position]
BY DEF Finish, Position

LEMMA GotoIsTyped ==
  ASSUME server \in [Server -> Position], NEW s \in Server,
         NEW g \in Starting \cup {"serving"}, Goto(s, g)
  PROVE  server' \in [Server -> Position]
BY DEF Goto, Position

LEMMA ReadTypes ==
  ASSUME TypeOK, NEW s \in Server, Reads(s)
  PROVE  TypeOK'
<1>0. server[s] \in Position /\ server \in [Server -> Position]
  BY DEF TypeOK, Position
<1>1. CASE Start(s)
  <2>1. server' \in [Server -> Position]
    BY <1>0, <1>1, GotoIsTyped DEF Start, Starting
  <2> QED BY <1>1, <2>1 DEF Start, TypeOK, Position, authVars, cloudVars
<1>2. CASE LegacyUserLinks(s)
  <2> DEFINE r == [server[s] EXCEPT !.stage = "link", !.legacy = legacy,
                     !.todo = IF legacy THEN {p \in profiles \cap OldId : link[p] # None}
                                        ELSE {}]
  <2>1. r \in Position
    BY <1>0 DEF Position, TypeOK, Id, Starting
  <2>2. server' = [server EXCEPT ![s] = r]
    BY <1>2, <1>0 DEF LegacyUserLinks, Position
  <2> QED BY <1>2, <2>1, <2>2, MoveIsTyped DEF LegacyUserLinks, TypeOK
<1>3. CASE SelectMissingIDs(s)
  <2> DEFINE r == [server[s] EXCEPT !.stage = "assign",
                                    !.todo = {n \in accounts : id[n] = None}]
  <2>1. r \in Position
    BY <1>0 DEF Position, TypeOK, Starting
  <2>2. server' = [server EXCEPT ![s] = r]
    BY <1>3, <1>0 DEF SelectMissingIDs, Begin, Position
  <2> QED BY <1>3, <2>1, <2>2, MoveIsTyped DEF SelectMissingIDs, TypeOK
<1>4. CASE LegacyUserPlans(s)
  <2> DEFINE r == [server[s] EXCEPT !.stage = "merge", !.legacy = server[s].legacy \/ legacy,
                     !.todo = IF legacy THEN {p \in profiles \cap OldId : moved[p] # None}
                                        ELSE {}]
  <2>1. r \in Position
    BY <1>0 DEF Position, TypeOK, Id, Starting
  <2>2. server' = [server EXCEPT ![s] = r]
    BY <1>4, <1>0 DEF LegacyUserPlans, Position
  <2> QED BY <1>4, <2>1, <2>2, MoveIsTyped DEF LegacyUserPlans, TypeOK
<1>5. CASE UserLinks(s)
  <2> DEFINE r == [server[s] EXCEPT !.stage = IF server[s].legacy THEN "ids" ELSE "backfill",
                                    !.seen = IF server[s].legacy THEN Ids ELSE {}]
  <2>1. Ids \in SUBSET (Id \cup {None})
    BY DEF Ids, TypeOK
  <2>2. r \in Position
    BY <1>0, <2>1 DEF Position, Starting
  <2>3. server' = [server EXCEPT ![s] = r]
    BY <1>5, <1>0 DEF UserLinks, Position
  <2> QED BY <1>5, <2>2, <2>3, MoveIsTyped DEF UserLinks, TypeOK
<1>6. CASE CheckUserIDs(s) \/ ValidatePlans(s)
  <2>1. server' \in [Server -> Position]
    BY <1>0, <1>6, GotoIsTyped DEF CheckUserIDs, ValidatePlans, Starting
  <2> QED BY <1>6, <2>1 DEF CheckUserIDs, ValidatePlans, TypeOK, Position, authVars, cloudVars
<1>7. CASE SelectPrimaryKey(s)
  <2> DEFINE r == [server[s] EXCEPT !.stage = "finalize", !.keyed = keyed]
  <2>1. r \in Position
    BY <1>0 DEF Position, TypeOK, Starting
  <2>2. server' = [server EXCEPT ![s] = r]
    BY <1>7, <1>0 DEF SelectPrimaryKey, Position
  <2> QED BY <1>7, <2>1, <2>2, MoveIsTyped DEF SelectPrimaryKey, TypeOK
<1>8. CASE Refuse(s) \/ Stop(s)
  <2>1. Off \in Position
    BY DEF Off, Position
  <2>2. /\ server' = [server EXCEPT ![s] = Off]
        /\ UNCHANGED <<authVars, cloudVars, drawn, overlapped>>
    BY <1>8 DEF Refuse, Stop
  <2>3. stops' \in 0..MaxStops
    <3>1. CASE Refuse(s)
      BY <3>1 DEF Refuse, TypeOK
    <3>2. CASE Stop(s)
      BY <3>2 DEF Stop, TypeOK
    <3> QED BY <1>8, <3>1, <3>2
  <2>4. overlapped' \in BOOLEAN
    BY <2>2 DEF TypeOK
  <2> QED BY <2>1, <2>2, <2>3, <2>4, MoveIsTyped
<1> QED BY <1>1, <1>2, <1>3, <1>4, <1>5, <1>6, <1>7, <1>8 DEF Reads

LEMMA RandomIsNew ==
  ASSUME NewId # drawn, drawn \subseteq NewId
  PROVE  (CHOOSE x \in NewId \ drawn : TRUE) \in NewId \ drawn
OBVIOUS

LEMMA WriteTypes ==
  ASSUME TypeOK, NEW s \in Server, Next,
         \/ \E p \in OldId : SetUserID(s, p) \/ MergeUserPlan(s, p)
         \/ \E n \in Name : AssignMissingID(s, n) \/ Login(s, n)
         \/ BackfillPlans(s) \/ FinalizeSchema(s) \/ DropLegacyColumns(s)
  PROVE  TypeOK'
<1>0. /\ server \in [Server -> Position]
      /\ id \in [Name -> Id \cup {None}] /\ plans \in [Name -> SUBSET Plan]
      /\ profiles \subseteq Id /\ drawn \subseteq NewId /\ keyed \in BOOLEAN
  BY DEF TypeOK, Position
<1>1. ASSUME NEW p \in OldId, SetUserID(s, p)
      PROVE  TypeOK'
  <2>1. id' \in [Name -> Id \cup {None}]
    BY <1>0, <1>1 DEF SetUserID, Id
  <2>2. server' \in [Server -> Position]
    BY <1>0, <1>1, FinishIsTyped DEF SetUserID
  <2> QED BY <1>1, <2>1, <2>2 DEF SetUserID, TypeOK, Position, cloudVars
<1>2. ASSUME NEW p \in OldId, MergeUserPlan(s, p)
      PROVE  TypeOK'
  <2>1. moved[p] \in Plan
    BY <1>2 DEF MergeUserPlan, Plan
  <2>2. \A n \in Name : plans[n] \in SUBSET Plan /\ plans[n] \cup {moved[p]} \in SUBSET Plan
    BY <1>0, <2>1
  <2>3. plans' \in [Name -> SUBSET Plan]
    BY <1>2, <2>2 DEF MergeUserPlan
  <2>4. server' \in [Server -> Position]
    BY <1>0, <1>2, FinishIsTyped DEF MergeUserPlan
  <2> QED BY <1>2, <2>3, <2>4 DEF MergeUserPlan, TypeOK, Position, cloudVars
<1>3. ASSUME NEW n \in Name, AssignMissingID(s, n)
      PROVE  TypeOK'
  <2>1. id' \in [Name -> Id \cup {None}] /\ drawn' \subseteq NewId
    BY <1>0, <1>3, RandomIsNew DEF AssignMissingID, Id
  <2>2. server' \in [Server -> Position]
    BY <1>0, <1>3, FinishIsTyped DEF AssignMissingID
  <2> QED BY <1>3, <2>1, <2>2 DEF AssignMissingID, TypeOK, Position, cloudVars
<1>4. ASSUME NEW n \in Name, Login(s, n)
      PROVE  TypeOK'
  <2>1. profiles' \subseteq Id
    BY <1>0, <1>4 DEF Login
  <2> QED BY <1>4, <2>1 DEF Login, TypeOK, authVars
<1>5. CASE BackfillPlans(s)
  <2>1. {DefaultPlan} \in SUBSET Plan
    BY DEF Plan
  <2>2. plans' \in [Name -> SUBSET Plan]
    BY <1>0, <1>5, <2>1 DEF BackfillPlans
  <2>3. server' \in [Server -> Position]
    BY <1>0, <1>5, GotoIsTyped DEF BackfillPlans, Starting
  <2> QED BY <1>5, <2>2, <2>3 DEF BackfillPlans, TypeOK, Position, cloudVars
<1>6. CASE FinalizeSchema(s)
  <2>1. server' \in [Server -> Position]
    BY <1>0, <1>6, GotoIsTyped DEF FinalizeSchema, Starting
  <2> QED BY <1>6, <2>1 DEF FinalizeSchema, TypeOK, Position, cloudVars
<1>7. CASE DropLegacyColumns(s)
  <2>1. server' \in [Server -> Position]
    BY <1>0, <1>7, GotoIsTyped DEF DropLegacyColumns
  <2> QED BY <1>7, <2>1 DEF DropLegacyColumns, TypeOK, Position, authVars
<1> QED BY <1>1, <1>2, <1>3, <1>4, <1>5, <1>6, <1>7

\* The step that a process takes.
LEMMA Steps ==
  ASSUME Next
  PROVE  \E s \in Server :
    \/ Reads(s)
    \/ \E p \in OldId : SetUserID(s, p) \/ MergeUserPlan(s, p)
    \/ \E n \in Name : AssignMissingID(s, n) \/ Login(s, n)
    \/ BackfillPlans(s) \/ FinalizeSchema(s) \/ DropLegacyColumns(s)
BY DEF Next, Step, Reads

----------------------------------------------------------------------------
(***************************************************************************)
(* Links.                                                                  *)
(***************************************************************************)

LEMMA ReadsKeepData ==
  ASSUME NEW s \in Server, Reads(s)
  PROVE  UNCHANGED <<authVars, cloudVars, drawn>>
BY DEF Reads, Start, LegacyUserLinks, SelectMissingIDs, LegacyUserPlans, UserLinks,
  CheckUserIDs, ValidatePlans, SelectPrimaryKey, Refuse, Stop

LEMMA LinksStay ==
  ASSUME IInv, Next
  PROVE  /\ LegacyData' /\ IdsAreLinks'
         /\ \A p \in OldId : Linked(p) => Linked(p)'
<1> USE DEF IInv, TypeOK, LegacyData, IdsAreLinks, Linked
<1> PICK s \in Server :
    \/ Reads(s)
    \/ \E p \in OldId : SetUserID(s, p) \/ MergeUserPlan(s, p)
    \/ \E n \in Name : AssignMissingID(s, n) \/ Login(s, n)
    \/ BackfillPlans(s) \/ FinalizeSchema(s) \/ DropLegacyColumns(s)
  BY Steps
<1>1. CASE Reads(s)
  BY <1>1, ReadsKeepData DEF authVars, cloudVars
<1>2. ASSUME NEW q \in OldId, SetUserID(s, q)
      PROVE  /\ LegacyData' /\ IdsAreLinks'
             /\ \A p \in OldId : Linked(p) => Linked(p)'
  <2>1. link[q] \in Name /\ id' = [id EXCEPT ![link[q]] = q] /\ link[q] # None
    BY <1>2 DEF SetUserID
  <2>2. UNCHANGED <<accounts, link, moved, profiles, drawn>>
    BY <1>2 DEF SetUserID, cloudVars
  <2>3. LegacyData'
    BY <2>2
  <2>4. IdsAreLinks'
    BY <2>1, <2>2
  <2> QED BY <2>1, <2>2, <2>3, <2>4
<1>3. ASSUME NEW n \in Name, AssignMissingID(s, n)
      PROVE  /\ LegacyData' /\ IdsAreLinks'
             /\ \A p \in OldId : Linked(p) => Linked(p)'
  <2>1. PICK x \in NewId \ drawn : id' = [id EXCEPT ![n] = x] /\ drawn' = drawn \cup {x}
    BY <1>3, RandomIsNew DEF AssignMissingID
  <2>2. UNCHANGED <<accounts, link, moved, profiles>>
    BY <1>3 DEF AssignMissingID, cloudVars
  <2>3. \A p \in OldId : link[p] # n
    BY <1>3 DEF AssignMissingID, Progress, ProgressOf
  <2>4. LegacyData'
    BY <2>2
  <2>5. IdsAreLinks'
    BY <2>1, <2>2, <2>3
  <2> QED BY <2>1, <2>2, <2>3, <2>4, <2>5
<1>4. CASE (\E p \in OldId : MergeUserPlan(s, p)) \/ BackfillPlans(s)
           \/ FinalizeSchema(s) \/ DropLegacyColumns(s)
  BY <1>4 DEF MergeUserPlan, BackfillPlans, FinalizeSchema, DropLegacyColumns,
    authVars, cloudVars
<1>5. CASE \E n \in Name : Login(s, n)
  BY <1>5 DEF Login, authVars
<1> QED BY <1>1, <1>2, <1>3, <1>4, <1>5

\* Plans are only added.
LEMMA PlansGrow ==
  ASSUME TypeOK, Next
  PROVE  /\ accounts' = accounts
         /\ \A n \in Name : plans[n] \subseteq plans'[n]
         /\ \A n \in accounts : plans'[n] \subseteq plans[n] \cup Catalog
<1> PICK s \in Server :
    \/ Reads(s)
    \/ \E p \in OldId : SetUserID(s, p) \/ MergeUserPlan(s, p)
    \/ \E n \in Name : AssignMissingID(s, n) \/ Login(s, n)
    \/ BackfillPlans(s) \/ FinalizeSchema(s) \/ DropLegacyColumns(s)
  BY Steps
<1>1. CASE Reads(s)
  BY <1>1, ReadsKeepData DEF authVars
<1>2. CASE BackfillPlans(s)
  BY <1>2 DEF BackfillPlans, TypeOK
<1>3. CASE \E p \in OldId : MergeUserPlan(s, p)
  BY <1>3 DEF MergeUserPlan, TypeOK
<1>4. CASE (\E p \in OldId : SetUserID(s, p)) \/ FinalizeSchema(s) \/ DropLegacyColumns(s)
           \/ \E n \in Name : AssignMissingID(s, n) \/ Login(s, n)
  BY <1>4 DEF SetUserID, AssignMissingID, Login, FinalizeSchema, DropLegacyColumns, authVars
<1> QED BY <1>1, <1>2, <1>3, <1>4

LEMMA MovedStays ==
  ASSUME IInv, Next, NEW p \in OldId, Moved(p)
  PROVE  Moved(p)'
<1>1. moved' = moved /\ link' = link
  BY ReadsKeepData, Steps DEF cloudVars, SetUserID, AssignMissingID, MergeUserPlan, Login,
    BackfillPlans, FinalizeSchema, DropLegacyColumns
<1>2. ASSUME moved[p] # None
      PROVE  \E n \in Holders(p)' : moved[p] \in plans'[n]
  <2>1. PICK n \in accounts : id[n] = p /\ moved[p] \in plans[n]
    BY <1>2 DEF Moved, Holders
  <2>2. n \in Name /\ link[p] = n
    BY <2>1 DEF IInv, TypeOK, IdsAreLinks
  <2>3. id'[n] = p
    BY <1>1, <2>1, <2>2, LinksStay DEF Linked, IInv, TypeOK
  <2> QED BY <2>1, <2>2, <2>3, PlansGrow DEF Holders, IInv
<1> QED BY <1>1, <1>2 DEF Moved

----------------------------------------------------------------------------
(***************************************************************************)
(* Progress of the processes: one goes on, the others stay where they are. *)
(***************************************************************************)

LEMMA OnlyDropped ==
  ASSUME Next
  PROVE  UNCHANGED <<accounts, link, moved>> /\ (~ legacy => ~ legacy')
<1> PICK s \in Server :
    \/ Reads(s)
    \/ \E p \in OldId : SetUserID(s, p) \/ MergeUserPlan(s, p)
    \/ \E n \in Name : AssignMissingID(s, n) \/ Login(s, n)
    \/ BackfillPlans(s) \/ FinalizeSchema(s) \/ DropLegacyColumns(s)
  BY Steps
<1>1. CASE Reads(s)
  BY <1>1, ReadsKeepData DEF authVars, cloudVars
<1>2. CASE ~ Reads(s)
  BY <1>2 DEF SetUserID, MergeUserPlan, AssignMissingID, Login, BackfillPlans,
    FinalizeSchema, DropLegacyColumns, authVars, cloudVars
<1> QED BY <1>1, <1>2

LEMMA OthersStay ==
  ASSUME IInv, Next, NEW t \in Server, server'[t] = server[t]
  PROVE  ProgressOf(t)'
<1>1. ProgressOf(t)
  BY DEF IInv, Progress, ProgressOf
<1>2. \A p \in OldId : (Linked(p) => Linked(p)') /\ (Moved(p) => Moved(p)')
  BY LinksStay, MovedStays
<1> QED BY <1>1, <1>2, OnlyDropped DEF ProgressOf, Stage, Todo

LEMMA NothingLostMeans ==
  NothingLost <=> (~ legacy => \A p \in OldId : Linked(p) /\ Moved(p))
BY DEF NothingLost, Linked, Moved

LEMMA NothingLostStays ==
  ASSUME IInv, Next
  PROVE  NothingLost'
<1>1. CASE ~ legacy
  BY <1>1, NothingLostMeans, LinksStay, MovedStays, OnlyDropped
    DEF IInv, NothingLost, Linked, Moved
<1>2. CASE legacy /\ ~ legacy'
  <2>1. PICK s \in Server : DropLegacyColumns(s)
    <3> PICK s \in Server :
        \/ Reads(s)
        \/ \E p \in OldId : SetUserID(s, p) \/ MergeUserPlan(s, p)
        \/ \E n \in Name : AssignMissingID(s, n) \/ Login(s, n)
        \/ BackfillPlans(s) \/ FinalizeSchema(s) \/ DropLegacyColumns(s)
      BY Steps
    <3> QED BY <1>2, ReadsKeepData DEF cloudVars, SetUserID, MergeUserPlan,
          AssignMissingID, Login, BackfillPlans, FinalizeSchema
  <2>2. \A p \in OldId : Linked(p) /\ Moved(p)
    BY <2>1 DEF DropLegacyColumns, IInv, Progress, ProgressOf
  <2> QED BY <2>2, LinksStay, MovedStays DEF NothingLost, Linked, Moved
<1>3. CASE legacy'
  BY <1>3 DEF NothingLost
<1> QED BY <1>1, <1>2, <1>3

LEMMA ProgressStays ==
  ASSUME IInv, Next
  PROVE  Progress'
<1>0. PICK s \in Server :
    \/ Reads(s)
    \/ \E p \in OldId : SetUserID(s, p) \/ MergeUserPlan(s, p)
    \/ \E n \in Name : AssignMissingID(s, n) \/ Login(s, n)
    \/ BackfillPlans(s) \/ FinalizeSchema(s) \/ DropLegacyColumns(s)
  BY Steps
<1>1. /\ server \in [Server -> Position]
      /\ \A p \in OldId : (Linked(p) => Linked(p)') /\ (Moved(p) => Moved(p)')
      /\ UNCHANGED <<accounts, link, moved>> /\ (~ legacy => ~ legacy')
      /\ ProgressOf(s)
      /\ ~ legacy => \A p \in OldId : Linked(p) /\ Moved(p)
  BY LinksStay, MovedStays, OnlyDropped, NothingLostMeans
    DEF IInv, TypeOK, Position, Progress, ProgressOf
<1>2. ProgressOf(s)'
  <2> USE <1>1 DEF ProgressOf, Stage, Todo, Position
  <2>1. CASE Start(s)
    BY <2>1 DEF Start, Goto
  <2>2. CASE LegacyUserLinks(s)
    <3>1. server'[s].stage = "link" /\ server'[s].legacy = legacy /\ legacy' = legacy
      BY <2>2 DEF LegacyUserLinks, cloudVars
    <3>2. \A p \in OldId : link[p] = None => Linked(p)
      BY DEF Linked
    <3>3. legacy => server'[s].todo = {p \in profiles \cap OldId : link[p] # None}
      BY <2>2 DEF LegacyUserLinks
    <3>4. \A p \in OldId : p \in server'[s].todo \/ Linked(p)
      BY <3>2, <3>3 DEF IInv, LegacyData
    <3> QED BY <3>1, <3>4
  <2>3. ASSUME NEW q \in OldId, SetUserID(s, q)
        PROVE  ProgressOf(s)'
    <3>1. Linked(q)'
      BY <2>3 DEF SetUserID, Linked, IInv, TypeOK
    <3>2. server'[s] = [server[s] EXCEPT !.todo = @ \ {q}]
      BY <2>3 DEF SetUserID, Finish
    <3> QED BY <2>3, <3>1, <3>2 DEF SetUserID
  <2>4. CASE SelectMissingIDs(s)
    <3>1. server'[s] = [server[s] EXCEPT !.stage = "assign",
                                         !.todo = {n \in accounts : id[n] = None}]
      BY <2>4 DEF SelectMissingIDs, Begin
    <3>2. \A p \in OldId : Linked(p)
      BY <2>4 DEF SelectMissingIDs
    <3>3. \A n \in accounts, p \in OldId : id[n] = None => link[p] # n
      BY <3>2 DEF Linked, IInv, TypeOK
    <3> QED BY <2>4, <3>1, <3>2, <3>3 DEF SelectMissingIDs
  <2>5. ASSUME NEW n \in Name, AssignMissingID(s, n)
        PROVE  ProgressOf(s)'
    <3>1. server'[s] = [server[s] EXCEPT !.todo = @ \ {n}]
      BY <2>5 DEF AssignMissingID, Finish
    <3> QED BY <2>5, <3>1 DEF AssignMissingID
  <2>6. CASE LegacyUserPlans(s)
    <3>1. server'[s].stage = "merge" /\ \A p \in OldId : Linked(p)
      BY <2>6 DEF LegacyUserPlans
    <3>2. legacy => server'[s].todo = {p \in profiles \cap OldId : moved[p] # None}
      BY <2>6 DEF LegacyUserPlans
    <3>3. \A p \in OldId : p \in server'[s].todo \/ Moved(p)
      BY <3>2 DEF Moved, IInv, LegacyData
    <3> QED BY <3>1, <3>3
  <2>7. ASSUME NEW q \in OldId, MergeUserPlan(s, q)
        PROVE  ProgressOf(s)'
    <3>1. Moved(q)'
      BY <2>7 DEF MergeUserPlan, Moved, Holders, IInv, TypeOK
    <3>2. server'[s] = [server[s] EXCEPT !.todo = @ \ {q}]
      BY <2>7 DEF MergeUserPlan, Finish
    <3> QED BY <2>7, <3>1, <3>2 DEF MergeUserPlan
  <2>8. CASE UserLinks(s)
    BY <2>8 DEF UserLinks
  <2>9. CASE CheckUserIDs(s) \/ BackfillPlans(s) \/ ValidatePlans(s)
             \/ SelectPrimaryKey(s) \/ DropLegacyColumns(s)
    BY <2>9 DEF CheckUserIDs, BackfillPlans, ValidatePlans, SelectPrimaryKey,
      DropLegacyColumns, Goto
  <2>10. CASE FinalizeSchema(s)
    BY <2>10 DEF FinalizeSchema, Goto
  <2>11. CASE Refuse(s) \/ Stop(s)
    BY <2>11 DEF Refuse, Stop, Off
  <2>12. ASSUME NEW n \in Name, Login(s, n)
         PROVE  ProgressOf(s)'
    BY <2>12 DEF Login
  <2> QED BY <1>0, <2>1, <2>2, <2>3, <2>4, <2>5, <2>6, <2>7, <2>8, <2>9, <2>10, <2>11,
        <2>12 DEF Reads
<1>3. \A t \in Server \ {s} : server'[t] = server[t]
  BY <1>0, <1>1 DEF Reads, Start, LegacyUserLinks, SelectMissingIDs, LegacyUserPlans,
    UserLinks, CheckUserIDs, ValidatePlans, SelectPrimaryKey, Refuse, Stop, SetUserID,
    MergeUserPlan, AssignMissingID, Login, BackfillPlans, FinalizeSchema,
    DropLegacyColumns, Goto, Begin, Finish
<1> QED BY <1>2, <1>3, OthersStay DEF Progress, ProgressOf

----------------------------------------------------------------------------
(***************************************************************************)
(* The schema.                                                             *)
(***************************************************************************)

LEMMA ConstraintsStay ==
  ASSUME IInv, Next, keyed
  PROVE  keyed' /\ ConstraintsHold'
<1> PICK s \in Server :
    \/ Reads(s)
    \/ \E p \in OldId : SetUserID(s, p) \/ MergeUserPlan(s, p)
    \/ \E n \in Name : AssignMissingID(s, n) \/ Login(s, n)
    \/ BackfillPlans(s) \/ FinalizeSchema(s) \/ DropLegacyColumns(s)
  BY Steps
<1>1. /\ ConstraintsHold /\ accounts' = accounts /\ accounts \subseteq Name
      /\ \A n \in accounts : plans'[n] # {}
  BY PlansGrow DEF IInv, SchemaInv, ConstraintsHold, TypeOK
<1>2. CASE id' = id /\ keyed' = keyed
  BY <1>1, <1>2 DEF ConstraintsHold
<1>3. ASSUME NEW q \in OldId, SetUserID(s, q)
      PROVE  keyed' /\ ConstraintsHold'
  BY <1>1, <1>3 DEF SetUserID, Duplicate, ConstraintsHold, IInv, TypeOK
<1>4. ASSUME NEW n \in Name, AssignMissingID(s, n)
      PROVE  keyed' /\ ConstraintsHold'
  <2>1. PICK x \in NewId \ drawn : id' = [id EXCEPT ![n] = x]
    BY <1>4, RandomIsNew DEF AssignMissingID, IInv, TypeOK
  <2>2. \A m \in accounts : id[m] # x
    BY DEF IInv, IdsAreLinks, TypeOK
  <2>3. \A m \in accounts : id'[m] = IF m = n THEN x ELSE id[m]
    BY <1>1, <2>1 DEF IInv, TypeOK
  <2>4. \A m \in accounts : id'[m] # None
    BY <1>1, <2>3 DEF ConstraintsHold
  <2>5. \A k, m \in accounts : id'[k] = id'[m] => k = m
    BY <1>1, <2>2, <2>3 DEF ConstraintsHold
  <2>6. keyed' = keyed
    BY <1>4 DEF AssignMissingID
  <2> QED BY <1>1, <2>4, <2>5, <2>6 DEF ConstraintsHold
<1>5. CASE FinalizeSchema(s)
  BY <1>1, <1>5 DEF FinalizeSchema, ConstraintsHold
<1> QED BY <1>2, <1>3, <1>4, <1>5, ReadsKeepData DEF authVars, MergeUserPlan, Login,
      BackfillPlans, DropLegacyColumns

LEMMA SchemaStays ==
  ASSUME IInv, Next
  PROVE  SchemaInv'
<1> PICK s \in Server :
    \/ Reads(s)
    \/ \E p \in OldId : SetUserID(s, p) \/ MergeUserPlan(s, p)
    \/ \E n \in Name : AssignMissingID(s, n) \/ Login(s, n)
    \/ BackfillPlans(s) \/ FinalizeSchema(s) \/ DropLegacyColumns(s)
  BY Steps
<1>1. keyed' => ConstraintsHold'
  <2>1. CASE keyed' /\ ~ keyed
    <3>1. FinalizeSchema(s)
      BY <2>1, ReadsKeepData DEF authVars, SetUserID, MergeUserPlan, AssignMissingID, Login,
        BackfillPlans, DropLegacyColumns
    <3> QED BY <3>1 DEF FinalizeSchema, ConstraintsHold
  <2> QED BY <2>1, ConstraintsStay DEF IInv, TypeOK
<1>2. /\ server \in [Server -> Position]
      /\ \A n \in accounts : plans[n] \subseteq Catalog => plans'[n] \subseteq Catalog
      /\ accounts' = accounts /\ (keyed => keyed')
  BY PlansGrow, ConstraintsStay DEF IInv, TypeOK, Position
<1>3. \A t \in Server \ {s} : server'[t] = server[t]
  BY <1>2 DEF Reads, Start, LegacyUserLinks, SelectMissingIDs, LegacyUserPlans,
    UserLinks, CheckUserIDs, ValidatePlans, SelectPrimaryKey, Refuse, Stop, SetUserID,
    MergeUserPlan, AssignMissingID, Login, BackfillPlans, FinalizeSchema,
    DropLegacyColumns, Goto, Begin, Finish
<1>4. /\ Stage(s)' \in Checked => \A n \in accounts : plans[n] \subseteq Catalog
      /\ Stage(s)' \in {"drop", "serving"} => keyed'
  <2> USE <1>2 DEF IInv, SchemaInv, Stage, Checked, Position
  <2>1. CASE ValidatePlans(s)
    BY <2>1 DEF ValidatePlans, Goto
  <2>2. CASE SelectPrimaryKey(s) \/ FinalizeSchema(s) \/ DropLegacyColumns(s)
    BY <2>2 DEF SelectPrimaryKey, FinalizeSchema, DropLegacyColumns, Goto
  <2>3. CASE Refuse(s) \/ Stop(s)
    BY <2>3 DEF Refuse, Stop, Off
  <2>4. CASE Start(s) \/ LegacyUserLinks(s) \/ SelectMissingIDs(s) \/ LegacyUserPlans(s)
             \/ UserLinks(s) \/ CheckUserIDs(s) \/ BackfillPlans(s)
    BY <2>4 DEF Start, LegacyUserLinks, SelectMissingIDs, LegacyUserPlans, UserLinks,
      CheckUserIDs, BackfillPlans, Goto, Begin
  <2>5. CASE \/ \E p \in OldId : SetUserID(s, p) \/ MergeUserPlan(s, p)
             \/ \E n \in Name : AssignMissingID(s, n)
    BY <2>5 DEF SetUserID, MergeUserPlan, AssignMissingID, Finish
  <2>6. CASE \E n \in Name : Login(s, n)
    BY <2>6 DEF Login
  <2> QED BY <2>1, <2>2, <2>3, <2>4, <2>5, <2>6 DEF Reads
<1> QED BY <1>1, <1>2, <1>3, <1>4 DEF SchemaInv, Stage, IInv

----------------------------------------------------------------------------
(***************************************************************************)
(* Profiles and their accounts.                                            *)
(***************************************************************************)

\* While starts do not overlap, an identifier is given once.
LEMMA IdsGrow ==
  ASSUME IInv, Next, ~ overlapped
  PROVE  \A n \in accounts : id[n] # None => id'[n] = id[n]
<1> PICK s \in Server :
    \/ Reads(s)
    \/ \E p \in OldId : SetUserID(s, p) \/ MergeUserPlan(s, p)
    \/ \E n \in Name : AssignMissingID(s, n) \/ Login(s, n)
    \/ BackfillPlans(s) \/ FinalizeSchema(s) \/ DropLegacyColumns(s)
  BY Steps
<1>1. CASE id' = id
  BY <1>1
<1>2. ASSUME NEW q \in OldId, SetUserID(s, q)
      PROVE  \A n \in accounts : id[n] # None => id'[n] = id[n]
  BY <1>2 DEF SetUserID, IInv, TypeOK, IdsAreLinks
<1>3. ASSUME NEW m \in Name, AssignMissingID(s, m)
      PROVE  \A n \in accounts : id[n] # None => id'[n] = id[n]
  BY <1>3 DEF AssignMissingID, IInv, TypeOK, ProfileInv, ProfileOf
<1> QED BY <1>1, <1>2, <1>3, ReadsKeepData DEF authVars, MergeUserPlan, Login,
      BackfillPlans, FinalizeSchema, DropLegacyColumns

LEMMA ProfilesStay ==
  ASSUME IInv, Next, ~ overlapped'
  PROVE  ProfileInv' /\ ProfilesHaveAccounts'
<1>0. PICK s \in Server :
    \/ Reads(s)
    \/ \E p \in OldId : SetUserID(s, p) \/ MergeUserPlan(s, p)
    \/ \E n \in Name : AssignMissingID(s, n) \/ Login(s, n)
    \/ BackfillPlans(s) \/ FinalizeSchema(s) \/ DropLegacyColumns(s)
  BY Steps
<1> DEFINE Acts == \/ Reads(s)
                   \/ \E p \in OldId : SetUserID(s, p) \/ MergeUserPlan(s, p)
                   \/ \E n \in Name : AssignMissingID(s, n)
                   \/ BackfillPlans(s) \/ FinalizeSchema(s) \/ DropLegacyColumns(s)
<1>1. ~ overlapped
  BY <1>0 DEF Reads, Start, LegacyUserLinks, SelectMissingIDs, LegacyUserPlans,
    UserLinks, CheckUserIDs, ValidatePlans, SelectPrimaryKey, Refuse, Stop, SetUserID,
    MergeUserPlan, AssignMissingID, Login, BackfillPlans, FinalizeSchema, DropLegacyColumns
<1>2. /\ server \in [Server -> Position]
      /\ accounts' = accounts /\ accounts \subseteq Name /\ profiles \subseteq Id
      /\ ~ legacy => ~ legacy'
      /\ \A t, u \in Server : Stage(t) \in Starting /\ Stage(u) \in Starting => t = u
      /\ profiles \subseteq OldId \cup Ids
      /\ \A t \in Server : ProfileOf(t)
      /\ ~ legacy => profiles \subseteq Ids
  BY <1>1, OnlyDropped
    DEF IInv, TypeOK, Position, ProfileInv, ProfileOf, ProfilesHaveAccounts
<1>3. Ids \ {None} \subseteq Ids'
  BY <1>1, <1>2, IdsGrow DEF Ids
<1>4. profiles' \subseteq profiles \cup (Ids \ {None})
  <2>1. ASSUME NEW n \in Name, Login(s, n)
        PROVE  profiles' \subseteq profiles \cup (Ids \ {None})
    BY <2>1 DEF Login, Ids
  <2>2. CASE Acts
    BY <2>2, ReadsKeepData DEF cloudVars, SetUserID, MergeUserPlan, AssignMissingID,
      BackfillPlans, FinalizeSchema, DropLegacyColumns
  <2> QED BY <1>0, <2>1, <2>2
<1>5. profiles \subseteq Ids => profiles' \subseteq Ids'
  BY <1>2, <1>3, <1>4 DEF Id
<1>6. profiles' \subseteq OldId \cup Ids'
  BY <1>2, <1>3, <1>4 DEF Id
<1>7. \A t \in Server \ {s} : server'[t] = server[t]
  BY <1>0, <1>2 DEF Reads, Start, LegacyUserLinks, SelectMissingIDs, LegacyUserPlans,
    UserLinks, CheckUserIDs, ValidatePlans, SelectPrimaryKey, Refuse, Stop, SetUserID,
    MergeUserPlan, AssignMissingID, Login, BackfillPlans, FinalizeSchema,
    DropLegacyColumns, Goto, Begin, Finish
<1>8. CASE \E n \in Name : Login(s, n)
  <2>1. UNCHANGED <<accounts, id, legacy, server>>
    BY <1>8 DEF Login, authVars
  <2>2. Ids' = Ids
    BY <2>1 DEF Ids
  <2>3. \A t \in Server : ProfileOf(t)'
    BY <1>2, <1>5, <2>1, <2>2 DEF ProfileOf, Stage, Todo
  <2>4. \A t, u \in Server : Stage(t)' \in Starting /\ Stage(u)' \in Starting => t = u
    BY <1>2, <2>1 DEF Stage
  <2> QED BY <1>2, <1>5, <1>6, <2>1, <2>3, <2>4
        DEF ProfileInv, ProfileOf, ProfilesHaveAccounts
<1>9. CASE Acts
  <2>1. Stage(s)' \in Starting => \A t \in Server \ {s} : Stage(t) \notin Starting
    <3>1. CASE Start(s)
      BY <3>1 DEF Start
    <3>2. CASE Stage(s) \in Starting
      BY <1>2, <3>2
    <3>3. CASE Refuse(s) \/ Stop(s)
      BY <1>2, <3>3 DEF Refuse, Stop, Off, Stage, Starting
    <3> QED BY <1>9, <3>1, <3>2, <3>3 DEF Reads, LegacyUserLinks, SelectMissingIDs,
          LegacyUserPlans, UserLinks, CheckUserIDs, ValidatePlans, SelectPrimaryKey,
          SetUserID, MergeUserPlan, AssignMissingID, BackfillPlans, FinalizeSchema,
          DropLegacyColumns, Starting
  <2>2. \A t, u \in Server : Stage(t)' \in Starting /\ Stage(u)' \in Starting => t = u
    BY <1>2, <1>7, <2>1 DEF Stage
  <2>3. ProfileOf(s)'
    <3> USE <1>2 DEF ProfileOf, Stage, Todo, Position
    <3>1. CASE Start(s) \/ LegacyUserLinks(s) \/ Refuse(s) \/ Stop(s)
      BY <3>1 DEF Start, LegacyUserLinks, Refuse, Stop, Off, Goto
    <3>2. ASSUME NEW q \in OldId, SetUserID(s, q)
          PROVE  ProfileOf(s)'
      BY <3>2 DEF SetUserID, Finish
    <3>3. CASE SelectMissingIDs(s)
      BY <3>3 DEF SelectMissingIDs, Begin, authVars, cloudVars
    <3>4. ASSUME NEW n \in Name, AssignMissingID(s, n)
          PROVE  ProfileOf(s)'
      <4>1. server'[s] = [server[s] EXCEPT !.todo = @ \ {n}] /\ Stage(s) = "assign"
        BY <3>4 DEF AssignMissingID, Finish
      <4>2. \A m \in Name \ {n} : id'[m] = id[m]
        BY <3>4 DEF AssignMissingID, IInv, TypeOK
      <4>3. \A m \in Todo(s) : m \in Name
        BY <4>1 DEF IInv, Progress, ProgressOf
      <4> QED BY <4>1, <4>2, <4>3
    <3>5. CASE LegacyUserPlans(s)
      <4>1. server'[s].stage = "merge" /\ (server'[s].legacy <=> server[s].legacy \/ legacy)
        BY <3>5 DEF LegacyUserPlans, IInv, TypeOK
      <4> QED BY <4>1
    <3>6. ASSUME NEW q \in OldId, MergeUserPlan(s, q)
          PROVE  ProfileOf(s)'
      BY <3>6 DEF MergeUserPlan, Finish
    <3>7. CASE UserLinks(s)
      <4>1. /\ server'[s].stage = IF server[s].legacy THEN "ids" ELSE "backfill"
            /\ server'[s].seen = IF server[s].legacy THEN Ids ELSE {}
            /\ server'[s].legacy = server[s].legacy
            /\ Stage(s) = "merge"
        BY <3>7 DEF UserLinks
      <4>2. Ids' = Ids
        BY <3>7 DEF UserLinks, authVars, Ids
      <4> QED BY <1>5, <4>1, <4>2
    <3>8. CASE CheckUserIDs(s)
      <4>1. server'[s] = [server[s] EXCEPT !.stage = "backfill"]
        BY <3>8 DEF CheckUserIDs, Goto
      <4>2. profiles \subseteq Ids
        BY <3>8 DEF CheckUserIDs, Id
      <4> QED BY <1>5, <3>8, <4>1, <4>2 DEF CheckUserIDs
    <3>9. CASE BackfillPlans(s) \/ ValidatePlans(s) \/ SelectPrimaryKey(s)
      BY <1>5, <3>9 DEF BackfillPlans, ValidatePlans, SelectPrimaryKey, Goto
    <3>10. CASE FinalizeSchema(s) \/ DropLegacyColumns(s)
      BY <1>5, <3>10 DEF FinalizeSchema, DropLegacyColumns, Goto
    <3> QED BY <1>9, <3>1, <3>2, <3>3, <3>4, <3>5, <3>6, <3>7, <3>8, <3>9, <3>10 DEF Reads
  <2>4. ASSUME NEW t \in Server \ {s}
        PROVE  ProfileOf(t)'
    <3>1. server'[t] = server[t] /\ Stage(t) \in Starting \cup {"off", "serving"}
      BY <1>2, <1>7 DEF Stage, Position
    <3>2. CASE Stage(t) \in {"off", "serving"}
      BY <1>2, <3>1, <3>2 DEF ProfileOf, Stage
    <3>3. CASE Stage(t) \in Starting
      <4>1. Stage(s)' \notin Starting
        BY <2>1, <3>3
      <4>2. Stage(s) \notin Starting
        BY <1>2, <3>3
      <4>3. ~ Start(s)
        BY <1>2, <4>1 DEF Start, Goto, Stage, Starting, Position
      <4>4. Stop(s)
        BY <1>9, <4>2, <4>3 DEF Reads, LegacyUserLinks, SelectMissingIDs,
          LegacyUserPlans, UserLinks, CheckUserIDs, ValidatePlans, SelectPrimaryKey, Refuse,
          SetUserID, MergeUserPlan, AssignMissingID, BackfillPlans, FinalizeSchema,
          DropLegacyColumns, Starting
      <4> QED BY <1>2, <3>1, <4>4 DEF Stop, authVars, cloudVars, ProfileOf, Stage, Todo, Ids
    <3> QED BY <3>1, <3>2, <3>3
  <2>5. \A t \in Server : ProfileOf(t)'
    BY <2>3, <2>4
  <2>6. ProfilesHaveAccounts'
    <3>1. CASE DropLegacyColumns(s)
      BY <1>2, <1>5, <3>1 DEF DropLegacyColumns, ProfileOf, ProfilesHaveAccounts
    <3>2. CASE legacy' = legacy
      BY <1>2, <1>5, <3>2 DEF ProfilesHaveAccounts
    <3> QED BY <1>9, <3>1, <3>2, ReadsKeepData DEF cloudVars, SetUserID, MergeUserPlan,
          AssignMissingID, BackfillPlans, FinalizeSchema
  <2> QED BY <1>6, <2>2, <2>5, <2>6 DEF ProfileInv, ProfileOf
<1> QED BY <1>0, <1>8, <1>9

----------------------------------------------------------------------------

LEMMA InitInv == Init => IInv
<1> SUFFICES ASSUME Init PROVE IInv
  OBVIOUS
<1>1. TypeOK
  <2>1. Off \in Position
    BY DEF Off, Position
  <2>2. {{}, {DefaultPlan}, {Retired}} \subseteq SUBSET Plan
    BY DEF Plan
  <2>3. plans \in [Name -> SUBSET Plan]
    BY <2>2 DEF Init
  <2>4. server \in [Server -> Position]
    BY <2>1 DEF Init
  <2>5. /\ accounts \subseteq Name /\ id \in [Name -> Id \cup {None}]
        /\ link \in [OldId -> Name \cup {None}] /\ moved \in [OldId -> Plan \cup {None}]
    BY DEF Init
  <2>6. profiles \subseteq Id /\ drawn \subseteq NewId /\ stops \in 0..MaxStops
    BY DEF Init, Id
  <2> QED BY <2>3, <2>4, <2>5, <2>6 DEF Init, TypeOK, Position
<1>2. \A s \in Server : Stage(s) = "off"
  BY DEF Init, Off, Stage
<1>3. LegacyData /\ IdsAreLinks
  <2>1. LegacyData
    BY DEF Init, LegacyData
  <2>2. IdsAreLinks
    BY DEF Init, IdsAreLinks
  <2> QED BY <2>1, <2>2
<1>4. Progress /\ SchemaInv
  BY <1>2 DEF Progress, ProgressOf, SchemaInv, Checked, Init
<1>5. NothingLost /\ ProfilesHaveAccounts
  BY DEF Init, NothingLost, ProfilesHaveAccounts
<1>6. ProfileInv
  BY <1>2 DEF Init, ProfileInv, ProfileOf, Starting
<1> QED BY <1>1, <1>3, <1>4, <1>5, <1>6 DEF IInv

LEMMA NextInv == IInv /\ Next => IInv'
<1> SUFFICES ASSUME IInv, Next PROVE IInv'
  OBVIOUS
<1>1. TypeOK'
  BY Steps, ReadTypes, WriteTypes DEF IInv
<1>2. LegacyData' /\ IdsAreLinks'
  BY LinksStay
<1>3. Progress' /\ NothingLost'
  BY ProgressStays, NothingLostStays
<1>4. SchemaInv'
  BY SchemaStays
<1>5. ProfileInv' /\ ProfilesHaveAccounts'
  BY ProfilesStay DEF ProfileInv, ProfileOf, ProfilesHaveAccounts
<1> QED BY <1>1, <1>2, <1>3, <1>4, <1>5 DEF IInv

LEMMA StutterInv == IInv /\ UNCHANGED vars => IInv'
<1> SUFFICES ASSUME IInv, UNCHANGED vars PROVE IInv'
  OBVIOUS
<1> USE DEF vars, authVars, cloudVars
<1>1. TypeOK' /\ LegacyData' /\ IdsAreLinks'
  BY DEF IInv, TypeOK, LegacyData, IdsAreLinks
<1>2. Progress' /\ NothingLost'
  BY DEF IInv, Progress, ProgressOf, NothingLost, Stage, Todo, Linked, Moved, Holders
<1>3. SchemaInv'
  BY DEF IInv, SchemaInv, ConstraintsHold, Stage
<1>4. ProfileInv' /\ ProfilesHaveAccounts'
  BY DEF IInv, ProfileInv, ProfileOf, ProfilesHaveAccounts, Ids, Stage, Todo
<1> QED BY <1>1, <1>2, <1>3, <1>4 DEF IInv

\* The data that processes leave behind, wherever they stop, are such that
\* the next start continues (ReconcileUserProfiles).
THEOREM ReconcileInvariant == Spec => []IInv
<1>1. Init => IInv
  BY InitInv
<1>2. IInv /\ [Next]_vars => IInv'
  BY NextInv, StutterInv
<1> QED BY <1>1, <1>2, PTL DEF Spec

\* The tables and the processes have their types.
THEOREM TypeCorrect == Spec => []TypeOK
<1>1. IInv => TypeOK
  BY DEF IInv
<1> QED BY <1>1, ReconcileInvariant, PTL

\* The legacy columns are dropped only after each link and each plan is in the
\* authentication database (ReconcileUserProfiles).
THEOREM NothingIsLost == Spec => []NothingLost
<1>1. IInv => NothingLost
  BY DEF IInv
<1> QED BY <1>1, ReconcileInvariant, PTL

\* After that every profile has an account, if no two starts overlapped.
THEOREM ProfilesKeepAccounts == Spec => []ProfilesHaveAccounts
<1>1. IInv => ProfilesHaveAccounts
  BY DEF IInv
<1> QED BY <1>1, ReconcileInvariant, PTL

\* Every account of a process that serves has an identifier of its own and
\* plans that are configured (finalizeSchema).
THEOREM ServedUsable == Spec => []ServedAccountsUsable
<1>1. IInv => ServedAccountsUsable
  BY DEF IInv, SchemaInv, Checked, ServedAccountsUsable
<1> QED BY <1>1, ReconcileInvariant, PTL
=============================================================================

------------------------- MODULE RegistrationProofs -------------------------
(***************************************************************************)
(* Proofs for any number of requests and confirmations and any sharing of  *)
(* names and emails among them: accounts are unique, a key is used once,   *)
(* profiles follow accounts, and Registration implements AccountRegistry.  *)
(***************************************************************************)
EXTENDS Registration, TLAPS

\* The unique constraints of registration_requests.
PendingUnique == \A k, l \in pending : k # l => ~ SameIdentity(k, l)

\* A row has been inserted by its own request, and everything that is done
\* with a key comes later.
InsertedFirst ==
  /\ \A k \in pending \cup expired : register[k] \in {"mail", "done"}
  /\ \A k \in mailed : register[k] = "done"
  /\ \A a \in users : register[a.key] = "done"

\* A transaction sweeps expired rows, and none that a confirmation has consumed.
SweptIsExpired ==
  \A k \in Key : swept[k] \subseteq expired /\ \A l \in swept[k] : ~ Consumed(l)

\* An open confirmation holds a row of its own, that of a mailed key.
ConsumedIsHeld ==
  /\ \A c \in Confirm : confirm[c].stage = "consumed" => confirm[c].key \in pending \cap mailed
  /\ \A c, d \in Confirm :
       confirm[c].stage = "consumed" /\ confirm[d].stage = "consumed"
       /\ confirm[c].key = confirm[d].key => c = d

\* A confirmation that has got past its transaction has created its account.
ConfirmedHasAccount ==
  \A c \in Confirm : confirm[c].stage \in {"profile", "session"} => Created(c) \in users

SessionHasProfile ==
  \A c \in Confirm : confirm[c].stage = "session" => Created(c) \in profiles

AccountInv ==
  /\ IdentityUnique
  /\ ConsumedOnce
  /\ profiles \subseteq users
  /\ ConfirmedHasAccount
  /\ SessionHasProfile

RequestInv == PendingUnique /\ InsertedFirst /\ SweptIsExpired /\ ConsumedIsHeld

IInv == TypeOK /\ RequestInv /\ AccountInv

RegisterStep(k) ==
  \/ Sweep(k) \/ CheckIdentity(k) \/ InsertPending(k) \/ SendRegistrationKey(k)
  \/ RegisterFails(k) \/ Expire(k)

USE KeyAssumption, FaultsAssumption

----------------------------------------------------------------------------

LEMMA FaultCounted ==
  ASSUME NEW kind, faults \in 0..MaxFaults, Fault(kind)
  PROVE  faults' \in 0..MaxFaults
BY DEF Fault

LEMMA ConsumedKey ==
  ASSUME TypeOK, NEW k
  PROVE  Consumed(k) <=> \E c \in Confirm : confirm[c].stage = "consumed" /\ confirm[c].key = k
BY DEF Consumed, TypeOK

LEMMA HeldKeys ==
  ASSUME TypeOK, NEW k, k \notin Held
  PROVE  ~ Consumed(k) /\ \A l \in Key : k \notin swept[l]
<1>1. \A l \in Key : k \notin swept[l]
  BY DEF Held
<1>2. ASSUME NEW c \in Confirm, confirm[c].stage = "consumed", confirm[c].key = k
      PROVE  FALSE
  <2>1. k \in {confirm[e].key : e \in {d \in Confirm : confirm[d].stage = "consumed"}}
    BY <1>2
  <2>2. k \in Held
    BY <2>1, Zenon DEF Held
  <2> QED BY <2>2
<1> QED BY <1>1, <1>2, ConsumedKey

\* Who stores an account has an open confirmation of a reserved key.
LEMMA StoreTypes ==
  ASSUME TypeOK, RequestInv, NEW c \in Confirm, confirm[c].stage = "consumed"
  PROVE  confirm[c].key \in Key /\ Created(c) \in Account
BY DEF TypeOK, RequestInv, ConsumedIsHeld, Created, Account

LEMMA RegisterTypes ==
  ASSUME TypeOK, NEW k \in Key, RegisterStep(k)
  PROVE  TypeOK'
<1> USE DEF TypeOK, authVars
<1>1. faults' \in 0..MaxFaults
  BY FaultCounted DEF RegisterStep, Sweep, CheckIdentity, InsertPending, SendRegistrationKey,
     RegisterFails, Expire
<1>2. CASE Sweep(k)
  BY <1>1, <1>2 DEF Sweep
<1>3. CASE CheckIdentity(k)
  BY <1>1, <1>3 DEF CheckIdentity, EndRegister
<1>4. CASE InsertPending(k)
  BY <1>1, <1>4 DEF InsertPending, EndRegister
<1>5. CASE SendRegistrationKey(k)
  BY <1>1, <1>5 DEF SendRegistrationKey
<1>6. CASE RegisterFails(k)
  BY <1>1, <1>6 DEF RegisterFails, EndRegister
<1>7. CASE Expire(k)
  BY <1>1, <1>7 DEF Expire
<1> QED BY <1>2, <1>3, <1>4, <1>5, <1>6, <1>7 DEF RegisterStep

LEMMA ConfirmTypes ==
  ASSUME TypeOK, RequestInv, AccountInv, NEW c \in Confirm,
         \/ \E k \in Key \cup {BadKey} : Consume(c, k)
         \/ CreateAccount(c) \/ ConfirmFails(c) \/ EnsureUserProfile(c)
  PROVE  TypeOK'
<1> USE DEF TypeOK, authVars, Answers, Advance
<1>1. faults' \in 0..MaxFaults
  BY FaultCounted DEF Consume, CreateAccount, ConfirmFails, EnsureUserProfile
<1>2. ASSUME NEW k \in Key \cup {BadKey}, Consume(c, k)
      PROVE  TypeOK'
  BY <1>1, <1>2 DEF Consume
<1>3. CASE CreateAccount(c)
  BY <1>1, <1>3, StoreTypes DEF CreateAccount, StoreAccount
<1>4. CASE ConfirmFails(c)
  BY <1>1, <1>4, StoreTypes DEF ConfirmFails, StoreAccount
<1>5. CASE EnsureUserProfile(c)
  BY <1>1, <1>5 DEF EnsureUserProfile, AccountInv, ConfirmedHasAccount
<1> QED BY <1>2, <1>3, <1>4, <1>5

----------------------------------------------------------------------------
(***************************************************************************)
(* The requests.                                                           *)
(***************************************************************************)

LEMMA RegisterKeepsRequests ==
  ASSUME TypeOK, RequestInv, NEW k \in Key, RegisterStep(k)
  PROVE  RequestInv'
<1> USE DEF TypeOK, authVars, RequestInv
<1>1. \A l : Consumed(l)' <=> Consumed(l)
  BY DEF RegisterStep, Sweep, CheckIdentity, InsertPending, SendRegistrationKey, RegisterFails,
     Expire, Consumed
<1>2. CASE Sweep(k)
  <2>1. \A l \in pending \cap expired : ~ Consumed(l)
    BY <1>2, HeldKeys DEF Sweep
  <2>2. SweptIsExpired'
    BY <1>1, <1>2, <2>1 DEF Sweep, SweptIsExpired
  <2>3. PendingUnique' /\ InsertedFirst' /\ ConsumedIsHeld'
    BY <1>2 DEF Sweep, PendingUnique, InsertedFirst, ConsumedIsHeld
  <2> QED BY <2>2, <2>3
<1>3. CASE CheckIdentity(k) \/ RegisterFails(k)
  <2>1. SweptIsExpired'
    BY <1>1, <1>3 DEF CheckIdentity, RegisterFails, EndRegister, SweptIsExpired
  <2>2. PendingUnique' /\ InsertedFirst' /\ ConsumedIsHeld'
    BY <1>3 DEF CheckIdentity, RegisterFails, EndRegister, PendingUnique, InsertedFirst,
                ConsumedIsHeld, Account
  <2> QED BY <2>1, <2>2
<1>4. CASE InsertPending(k)
  <2> USE DEF InsertPending, EndRegister
  <2>1. SweptIsExpired'
    BY <1>1, <1>4 DEF SweptIsExpired
  <2>2. PendingUnique'
    BY <1>4 DEF PendingUnique, Clashing, SameIdentity
  <2>3. InsertedFirst'
    BY <1>4 DEF InsertedFirst, Account
  <2>4. \A l \in swept[k] : ~ Consumed(l)
    BY DEF SweptIsExpired
  <2>5. ConsumedIsHeld'
    BY <1>4, <2>4, ConsumedKey DEF ConsumedIsHeld
  <2> QED BY <2>1, <2>2, <2>3, <2>5
<1>5. CASE SendRegistrationKey(k)
  BY <1>1, <1>5 DEF SendRegistrationKey, PendingUnique, InsertedFirst, SweptIsExpired,
                    ConsumedIsHeld
<1>6. CASE Expire(k)
  BY <1>1, <1>6 DEF Expire, PendingUnique, InsertedFirst, SweptIsExpired, ConsumedIsHeld
<1> QED BY <1>2, <1>3, <1>4, <1>5, <1>6 DEF RegisterStep

LEMMA StartServerKeepsRequests ==
  ASSUME TypeOK, RequestInv, StartServer
  PROVE  RequestInv'
<1> USE DEF StartServer, TypeOK, RequestInv
<1>1. \A l \in pending \cap expired : ~ Consumed(l)
  BY HeldKeys
<1>2. \A l : Consumed(l)' <=> Consumed(l)
  BY DEF Consumed
<1>3. ConsumedIsHeld'
  BY <1>1, ConsumedKey DEF ConsumedIsHeld
<1> QED BY <1>2, <1>3 DEF PendingUnique, InsertedFirst, SweptIsExpired

\* A confirmation opens on a row that nobody has deleted.
LEMMA ConsumeKeepsRequests ==
  ASSUME TypeOK, TypeOK', RequestInv, NEW c \in Confirm, NEW k \in Key \cup {BadKey},
         Consume(c, k)
  PROVE  RequestInv'
<1> USE DEF TypeOK, RequestInv, Consume, authVars, Advance
<1>1. ~ Consumed(k) /\ \A l \in Key : k \notin swept[l]
  BY HeldKeys
<1>2. \A l : Consumed(l)' => Consumed(l) \/ l = k
  BY ConsumedKey DEF Consumed
<1>3. PendingUnique' /\ InsertedFirst'
  BY DEF PendingUnique, InsertedFirst
<1>4. SweptIsExpired'
  BY <1>1, <1>2 DEF SweptIsExpired
<1>5. \A d \in Confirm : confirm[d].stage = "consumed" => confirm[d].key # k
  BY <1>1, ConsumedKey
<1>6. \A d \in Confirm \ {c} : confirm'[d] = confirm[d]
  OBVIOUS
<1>7. confirm'[c].key = k /\ (confirm'[c].stage = "consumed" => k \in pending' \cap mailed)
  OBVIOUS
<1>8. \A d \in Confirm : confirm[d].stage = "consumed" => confirm[d].key \in pending'
  BY <1>5 DEF ConsumedIsHeld
<1>9. ConsumedIsHeld'
  BY <1>5, <1>6, <1>7, <1>8 DEF ConsumedIsHeld
<1> QED BY <1>3, <1>4, <1>9

LEMMA EndKeepsRequests ==
  ASSUME TypeOK, TypeOK', RequestInv, NEW c \in Confirm,
         CreateAccount(c) \/ ConfirmFails(c) \/ EnsureUserProfile(c)
  PROVE  RequestInv'
<1> USE DEF TypeOK, RequestInv, CreateAccount, ConfirmFails, EnsureUserProfile, authVars,
            Advance, StoreAccount
<1>1. /\ confirm'[c].stage # "consumed"
      /\ \A d \in Confirm \ {c} : confirm'[d] = confirm[d]
      /\ UNCHANGED <<expired, register, swept, mailed>>
  OBVIOUS
<1>2. \A l : Consumed(l)' => Consumed(l)
  BY <1>1 DEF Consumed
<1>3. SweptIsExpired'
  BY <1>1, <1>2 DEF SweptIsExpired
<1>4. \/ UNCHANGED <<pending, users>>
      \/ /\ confirm[c].stage = "consumed"
         /\ pending' = pending \ {confirm[c].key}
         /\ users' = users \cup {Created(c)}
  <2>1. CASE CreateAccount(c)
    BY <2>1
  <2>2. CASE ConfirmFails(c)
    BY <2>2
  <2>3. CASE EnsureUserProfile(c)
    BY <2>3
  <2> QED BY <2>1, <2>2, <2>3
<1>5. PendingUnique'
  BY <1>4 DEF PendingUnique
<1>6. ConsumedIsHeld'
  <2>1. ASSUME NEW d \in Confirm, confirm'[d].stage = "consumed"
        PROVE  confirm'[d].key \in pending' \cap mailed'
    <3>1. d # c /\ confirm'[d] = confirm[d]
      BY <1>1, <2>1
    <3>2. confirm[c].stage = "consumed" => confirm[c].key # confirm[d].key
      BY <2>1, <3>1 DEF ConsumedIsHeld
    <3> QED BY <1>1, <1>4, <2>1, <3>1, <3>2 DEF ConsumedIsHeld
  <2>2. ASSUME NEW d \in Confirm, NEW e \in Confirm, confirm'[d].stage = "consumed",
               confirm'[e].stage = "consumed", confirm'[d].key = confirm'[e].key
        PROVE  d = e
    BY <1>1, <2>2 DEF ConsumedIsHeld
  <2> QED BY <2>1, <2>2 DEF ConsumedIsHeld
<1>7. \A a \in users' : a \in users \/ (confirm[c].stage = "consumed" /\ a.key = confirm[c].key)
  BY <1>4 DEF Created
<1>8. InsertedFirst'
  BY <1>1, <1>4, <1>7 DEF InsertedFirst, ConsumedIsHeld
<1> QED BY <1>3, <1>5, <1>6, <1>8

----------------------------------------------------------------------------
(***************************************************************************)
(* The accounts.                                                           *)
(***************************************************************************)

\* A row is inserted before its key can make an account.
LEMMA RegisterKeepsAccounts ==
  ASSUME TypeOK, RequestInv, AccountInv, NEW k \in Key, RegisterStep(k)
  PROVE  AccountInv'
<1> USE DEF TypeOK, AccountInv, authVars
<1>1. UNCHANGED <<users, profiles, confirm>>
  BY DEF RegisterStep, Sweep, CheckIdentity, InsertPending, SendRegistrationKey, RegisterFails,
     Expire
<1>2. \A l \in pending' : l \in pending \/ (l = k /\ register[k] = "checked")
  BY DEF RegisterStep, Sweep, CheckIdentity, InsertPending, SendRegistrationKey, RegisterFails,
     Expire, EndRegister
<1>3. ConsumedOnce'
  BY <1>1, <1>2 DEF ConsumedOnce, RequestInv, InsertedFirst
<1>4. IdentityUnique' /\ ConfirmedHasAccount' /\ SessionHasProfile'
  BY <1>1 DEF IdentityUnique, SameIdentity, ConfirmedHasAccount, SessionHasProfile, Created
<1> QED BY <1>1, <1>3, <1>4

LEMMA StartServerKeepsAccounts ==
  ASSUME AccountInv, StartServer
  PROVE  AccountInv'
BY DEF StartServer, AccountInv, ConsumedOnce, IdentityUnique, SameIdentity, ConfirmedHasAccount,
       SessionHasProfile, Created

LEMMA LoginKeepsAccounts ==
  ASSUME AccountInv, NEW a \in users, Login(a)
  PROVE  AccountInv'
BY DEF Login, authVars, AccountInv, ConsumedOnce, IdentityUnique, SameIdentity,
       ConfirmedHasAccount, SessionHasProfile, Created

LEMMA ConsumeKeepsAccounts ==
  ASSUME TypeOK, AccountInv, NEW c \in Confirm, NEW k \in Key \cup {BadKey}, Consume(c, k)
  PROVE  AccountInv'
<1> USE DEF TypeOK, AccountInv, Consume, authVars, Advance
<1>1. ConsumedOnce' /\ IdentityUnique'
  BY DEF ConsumedOnce, IdentityUnique, SameIdentity
<1>2. /\ confirm'[c].stage \notin {"profile", "session"}
      /\ \A d \in Confirm \ {c} : confirm'[d] = confirm[d]
  OBVIOUS
<1>3. ConfirmedHasAccount' /\ SessionHasProfile'
  BY <1>2 DEF ConfirmedHasAccount, SessionHasProfile, Created
<1> QED BY <1>1, <1>3

\* The unique indexes of users, and the row that is deleted with the insert.
LEMMA StoreKeepsAccounts ==
  ASSUME TypeOK, RequestInv, AccountInv, NEW c \in Confirm, confirm[c].stage = "consumed",
         ~ Taken(c), StoreAccount(c), UNCHANGED profiles
  PROVE  IdentityUnique' /\ ConsumedOnce' /\ profiles' \subseteq users'
<1> USE DEF StoreAccount, AccountInv, Created
<1>1. IdentityUnique'
  BY DEF IdentityUnique, Taken, SameIdentity
<1>2. ConsumedOnce'
  BY DEF ConsumedOnce
<1> QED BY <1>1, <1>2

LEMMA CreateKeepsAccounts ==
  ASSUME TypeOK, RequestInv, AccountInv, NEW c \in Confirm, CreateAccount(c) \/ ConfirmFails(c)
  PROVE  AccountInv'
<1> USE DEF TypeOK, CreateAccount, ConfirmFails, Advance
<1>1. /\ \A d \in Confirm \ {c} : confirm'[d] = confirm[d]
      /\ confirm'[c].key = confirm[c].key
      /\ profiles' = profiles
  OBVIOUS
<1>2. /\ confirm'[c].stage # "session"
      /\ \/ UNCHANGED <<users, pending>> /\ confirm'[c].stage # "profile"
         \/ confirm[c].stage = "consumed" /\ ~ Taken(c) /\ StoreAccount(c)
  OBVIOUS
<1>3. IdentityUnique' /\ ConsumedOnce' /\ profiles' \subseteq users'
  <2>1. CASE UNCHANGED <<users, pending>>
    BY <1>1, <2>1 DEF AccountInv, IdentityUnique, SameIdentity, ConsumedOnce
  <2> QED BY <1>1, <1>2, <2>1, StoreKeepsAccounts
<1>4. users \subseteq users' /\ (confirm'[c].stage = "profile" => Created(c) \in users')
  BY <1>2 DEF StoreAccount
<1>5. \A d \in Confirm : Created(d)' = Created(d)
  BY <1>1 DEF Created
<1>6. ConfirmedHasAccount' /\ SessionHasProfile'
  BY <1>1, <1>2, <1>4, <1>5 DEF AccountInv, ConfirmedHasAccount, SessionHasProfile
<1> QED BY <1>3, <1>6 DEF AccountInv

LEMMA ProfileKeepsAccounts ==
  ASSUME TypeOK, AccountInv, NEW c \in Confirm, EnsureUserProfile(c)
  PROVE  AccountInv'
<1> USE DEF TypeOK, EnsureUserProfile, Advance, authVars
<1>1. /\ \A d \in Confirm \ {c} : confirm'[d] = confirm[d]
      /\ confirm'[c].key = confirm[c].key
      /\ confirm[c].stage = "profile"
      /\ UNCHANGED <<users, pending>>
      /\ profiles' = profiles \/ profiles' = profiles \cup {Created(c)}
      /\ confirm'[c].stage = "session" => Created(c) \in profiles'
  OBVIOUS
<1>2. Created(c) \in users
  BY <1>1 DEF AccountInv, ConfirmedHasAccount
<1>3. \A d \in Confirm : Created(d)' = Created(d)
  BY <1>1 DEF Created
<1>4. IdentityUnique' /\ ConsumedOnce' /\ profiles' \subseteq users'
  BY <1>1, <1>2 DEF AccountInv, IdentityUnique, SameIdentity, ConsumedOnce
<1>5. ConfirmedHasAccount' /\ SessionHasProfile'
  BY <1>1, <1>2, <1>3 DEF AccountInv, ConfirmedHasAccount, SessionHasProfile
<1> QED BY <1>4, <1>5 DEF AccountInv

----------------------------------------------------------------------------
(***************************************************************************)
(* The inductive invariant and what it implies.                            *)
(***************************************************************************)

LEMMA InitInv ==
  ASSUME Init
  PROVE  IInv
<1> USE DEF Init
<1>1. TypeOK
  BY DEF TypeOK
<1>2. RequestInv
  BY DEF RequestInv, PendingUnique, InsertedFirst, SweptIsExpired, ConsumedIsHeld
<1>3. AccountInv
  BY DEF AccountInv, IdentityUnique, ConsumedOnce, ConfirmedHasAccount, SessionHasProfile
<1> QED BY <1>1, <1>2, <1>3 DEF IInv

LEMMA NextInv ==
  ASSUME IInv, Next
  PROVE  IInv'
<1> USE DEF IInv
<1>1. ASSUME NEW k \in Key, RegisterStep(k)
      PROVE  IInv'
  BY <1>1, RegisterTypes, RegisterKeepsRequests, RegisterKeepsAccounts
<1>2. CASE StartServer
  <2>1. TypeOK'
    BY <1>2 DEF StartServer, TypeOK
  <2> QED BY <1>2, <2>1, StartServerKeepsRequests, StartServerKeepsAccounts
<1>3. ASSUME NEW c \in Confirm, NEW k \in Key \cup {BadKey}, Consume(c, k)
      PROVE  IInv'
  <2>1. TypeOK'
    BY <1>3, ConfirmTypes
  <2> QED BY <1>3, <2>1, ConsumeKeepsRequests, ConsumeKeepsAccounts
<1>4. ASSUME NEW c \in Confirm, CreateAccount(c) \/ ConfirmFails(c) \/ EnsureUserProfile(c)
      PROVE  IInv'
  <2>1. TypeOK'
    BY <1>4, ConfirmTypes
  <2>2. AccountInv'
    BY <1>4, CreateKeepsAccounts, ProfileKeepsAccounts
  <2> QED BY <1>4, <2>1, <2>2, EndKeepsRequests
<1>5. ASSUME NEW a \in users, Login(a)
      PROVE  IInv'
  <2>1. TypeOK'
    BY <1>5 DEF Login, authVars, TypeOK
  <2>2. RequestInv'
    BY <1>5 DEF Login, authVars, RequestInv, PendingUnique, InsertedFirst, SweptIsExpired,
                ConsumedIsHeld, Consumed, SameIdentity
  <2> QED BY <1>5, <2>1, <2>2, LoginKeepsAccounts
<1> QED BY <1>1, <1>2, <1>3, <1>4, <1>5 DEF Next, RegisterStep

LEMMA StutterInv ==
  ASSUME IInv, UNCHANGED vars
  PROVE  IInv'
BY DEF IInv, vars, authVars, TypeOK, RequestInv, PendingUnique, InsertedFirst, SweptIsExpired,
       ConsumedIsHeld, Consumed, AccountInv, IdentityUnique, ConsumedOnce, SameIdentity,
       ConfirmedHasAccount, SessionHasProfile, Created

\* The invariant of the two databases and of the transactions that are open.
THEOREM DatabasesInvariant == Spec => []IInv
<1>1. Init => IInv
  BY InitInv
<1>2. IInv /\ [Next]_vars => IInv'
  BY NextInv, StutterInv
<1> QED BY <1>1, <1>2, PTL DEF Spec

\* TypeOK, for any requests, confirmations and faults.
THEOREM TypeCorrect == Spec => []TypeOK
<1>1. IInv => TypeOK
  BY DEF IInv
<1> QED BY <1>1, DatabasesInvariant, PTL

\* IdentityUnique: whatever registrations and confirmations overlap, and
\* wherever they fail, no two accounts share a username or an email.
THEOREM IdentityUniqueHolds == Spec => []IdentityUnique
<1>1. IInv => IdentityUnique
  BY DEF IInv, AccountInv
<1> QED BY <1>1, DatabasesInvariant, PTL

\* ConsumedOnce: the row of a key is gone once the key has made an account.
THEOREM ConsumedOnceHolds == Spec => []ConsumedOnce
<1>1. IInv => ConsumedOnce
  BY DEF IInv, AccountInv
<1> QED BY <1>1, DatabasesInvariant, PTL

\* CloudFollowsAuth: no failure between the two databases leaves a profile
\* without an account, or a session without either.
THEOREM CloudFollowsAuthHolds == Spec => []CloudFollowsAuth
<1>1. IInv => CloudFollowsAuth
  BY DEF IInv, AccountInv, ConfirmedHasAccount, SessionHasProfile, CloudFollowsAuth
<1> QED BY <1>1, DatabasesInvariant, PTL

----------------------------------------------------------------------------
(***************************************************************************)
(* Registration implements AccountRegistry.  Only an insertion, an         *)
(* expiry, the end of a transaction or an account moves a request.         *)
(***************************************************************************)

HasAccount(k) == \E a \in users : a.key = k

Reserved(k) == k \in pending /\ (k \notin expired \/ Consumed(k))

Asked(k) == register[k] \in {"new", "swept", "checked"}

\* The stages tell the three apart.
LEMMA StageIs ==
  ASSUME NEW k
  PROVE  /\ HasAccount(k) => Stage(k) = "account"
         /\ ~ HasAccount(k) /\ Reserved(k) => Stage(k) = "reserved"
         /\ ~ HasAccount(k) /\ ~ Reserved(k) /\ Asked(k) => Stage(k) = "asked"
         /\ ~ HasAccount(k) /\ ~ Reserved(k) /\ ~ Asked(k) => Stage(k) = "void"
BY DEF Stage, HasAccount, Reserved, Asked

LEMMA StageNext ==
  ASSUME NEW k
  PROVE  /\ HasAccount(k)' => Stage(k)' = "account"
         /\ ~ HasAccount(k)' /\ Reserved(k)' => Stage(k)' = "reserved"
         /\ ~ HasAccount(k)' /\ ~ Reserved(k)' /\ Asked(k)' => Stage(k)' = "asked"
         /\ ~ HasAccount(k)' /\ ~ Reserved(k)' /\ ~ Asked(k)' => Stage(k)' = "void"
BY DEF Stage, HasAccount, Reserved, Asked

LEMMA StageKept ==
  ASSUME NEW k, HasAccount(k)' <=> HasAccount(k), Reserved(k)' <=> Reserved(k),
         Asked(k)' <=> Asked(k)
  PROVE  Stage(k)' = Stage(k)
BY StageIs, StageNext

\* A step that moves only request k.
LEMMA OneMoves ==
  ASSUME NEW k \in Key, \A l \in Key \ {k} : Stage(l)' = Stage(l)
  PROVE  [l \in Key |-> Stage(l)]' = [[l \in Key |-> Stage(l)] EXCEPT ![k] = Stage(k)']
OBVIOUS

LEMMA NoneMoves ==
  ASSUME \A l \in Key : Stage(l)' = Stage(l)
  PROVE  [l \in Key |-> Stage(l)]' = [l \in Key |-> Stage(l)]
OBVIOUS

LEMMA DropsOne ==
  ASSUME NEW k \in Key, \A l \in Key \ {k} : Stage(l)' = Stage(l),
         Stage(k) \in {"asked", "reserved"}, Stage(k)' = "void"
  PROVE  Registry!RegistryNext
<1>1. Registry!Drop(k)
  BY OneMoves DEF Registry!Drop
<1> QED BY <1>1 DEF Registry!RegistryNext

\* A request that is not over has neither a row nor an account.
LEMMA AskedIsNew ==
  ASSUME IInv, NEW k \in Key, Asked(k)
  PROVE  ~ HasAccount(k) /\ ~ Reserved(k) /\ k \notin expired
BY DEF IInv, RequestInv, InsertedFirst, HasAccount, Reserved, Asked

LEMMA SymmetricIdentity ==
  ASSUME NEW k, NEW l
  PROVE  /\ SameIdentity(k, l) <=> SameIdentity(l, k)
         /\ Registry!SameIdentity(k, l) <=> SameIdentity(k, l)
BY DEF SameIdentity, Registry!SameIdentity

\* The unique constraints leave an inserted row alone among the reserved ones.
LEMMA InsertIsReserve ==
  ASSUME IInv, NEW k \in Key, InsertPending(k), Clashing(k) = {}
  PROVE  Registry!RegistryNext
<1> USE DEF IInv, TypeOK, InsertPending, EndRegister
<1>1. /\ UNCHANGED <<users, expired, confirm>>
      /\ pending' = (pending \ swept[k]) \cup {k}
      /\ register' = [register EXCEPT ![k] = "mail"]
      /\ register[k] = "checked"
  OBVIOUS
<1>2. \A l : (Consumed(l)' <=> Consumed(l)) /\ (HasAccount(l)' <=> HasAccount(l))
  BY <1>1 DEF Consumed, HasAccount
<1>3. \A l \in swept[k] : ~ Reserved(l)
  BY DEF RequestInv, SweptIsExpired, Reserved
<1>4. ASSUME NEW l \in Key \ {k}
      PROVE  Stage(l)' = Stage(l)
  <2>1. Reserved(l)' <=> Reserved(l)
    BY <1>1, <1>2, <1>3 DEF Reserved
  <2>2. Asked(l)' <=> Asked(l)
    BY <1>1 DEF Asked
  <2> QED BY <1>2, <2>1, <2>2, StageKept
<1>5. Stage(k) = "asked" /\ Stage(k)' = "reserved"
  <2>1. Asked(k)
    BY <1>1 DEF Asked
  <2>2. ~ HasAccount(k) /\ ~ Reserved(k) /\ k \notin expired
    BY <2>1, AskedIsNew
  <2>3. Reserved(k)'
    BY <1>1, <2>2 DEF Reserved
  <2> QED BY <1>2, <2>1, <2>2, <2>3, StageIs, StageNext
<1>6. ASSUME NEW l \in Key \ {k}, Stage(l) = "reserved"
      PROVE  ~ Registry!SameIdentity(k, l)
  <2>1. Reserved(l)
    BY <1>6, StageIs
  <2>2. l \in pending \ swept[k]
    BY <1>3, <2>1 DEF Reserved
  <2> QED BY <2>2, SymmetricIdentity DEF Clashing
<1>7. Registry!Reserve(k)
  BY <1>4, <1>5, <1>6, OneMoves DEF Registry!Reserve, Registry!Alone
<1> QED BY <1>7 DEF Registry!RegistryNext

\* What is inserted into users was reserved, and the unique indexes leave it
\* alone among the accounts.
LEMMA StoreIsActivate ==
  ASSUME IInv, NEW c \in Confirm, confirm[c].stage = "consumed", ~ Taken(c), StoreAccount(c),
         confirm'[c].stage # "consumed", \A d \in Confirm \ {c} : confirm'[d] = confirm[d],
         UNCHANGED <<expired, register>>
  PROVE  Registry!RegistryNext
<1>0. PICK k \in Key : k = confirm[c].key
  BY StoreTypes DEF IInv
<1>1. k \in pending /\ Consumed(k) /\ Reserved(k)
  <2>1. Consumed(k)
    BY <1>0, ConsumedKey DEF IInv
  <2> QED BY <1>0, <2>1 DEF IInv, TypeOK, RequestInv, ConsumedIsHeld, Reserved
<1>2. ~ HasAccount(k)
  BY <1>1 DEF IInv, AccountInv, ConsumedOnce, HasAccount
<1>3. HasAccount(k)' /\ \A l \in Key \ {k} : HasAccount(l)' <=> HasAccount(l)
  <2>1. Created(c).key = k /\ users' = users \cup {Created(c)}
    BY <1>0 DEF StoreAccount, Created
  <2>2. HasAccount(k)'
    BY <2>1 DEF HasAccount
  <2>3. \A l \in Key \ {k} : HasAccount(l)' <=> HasAccount(l)
    BY <2>1 DEF HasAccount
  <2> QED BY <2>2, <2>3
<1>4. \A l \in Key \ {k} : Consumed(l)' <=> Consumed(l)
  BY <1>0 DEF Consumed
<1>5. ASSUME NEW l \in Key \ {k}
      PROVE  Stage(l)' = Stage(l)
  <2>1. Reserved(l)' <=> Reserved(l)
    BY <1>0, <1>4, <1>5 DEF Reserved, StoreAccount
  <2>2. Asked(l)' <=> Asked(l)
    BY DEF Asked
  <2> QED BY <1>3, <1>5, <2>1, <2>2, StageKept
<1>6. Stage(k) = "reserved" /\ Stage(k)' = "account"
  BY <1>1, <1>2, <1>3, StageIs, StageNext
<1>7. ASSUME NEW l \in Key \ {k}, Stage(l) = "reserved"
      PROVE  ~ Registry!SameIdentity(k, l)
  <2>1. Reserved(l)
    BY <1>7, StageIs DEF Stage, HasAccount, Reserved
  <2> QED BY <1>1, <1>7, <2>1, SymmetricIdentity
          DEF IInv, RequestInv, PendingUnique, Reserved
<1>8. ASSUME NEW l \in Key \ {k}, Stage(l) = "account"
      PROVE  ~ Registry!SameIdentity(k, l)
  <2>1. HasAccount(l)
    BY <1>8 DEF Stage, HasAccount
  <2> QED BY <1>0, <2>1, SymmetricIdentity DEF HasAccount, Taken
<1>9. Registry!Activate(k)
  BY <1>1, <1>5, <1>6, <1>7, <1>8, OneMoves DEF Registry!Activate, Registry!Alone
<1> QED BY <1>1, <1>9 DEF Registry!RegistryNext

\* A confirmation that gives its row back, expired meanwhile or not.
LEMMA ReleaseDrops ==
  ASSUME IInv, NEW c \in Confirm, confirm[c].stage = "consumed",
         confirm'[c].stage # "consumed", \A d \in Confirm \ {c} : confirm'[d] = confirm[d],
         UNCHANGED <<pending, expired, users, register>>
  PROVE  Registry!RegistryNext \/ UNCHANGED [k \in Key |-> Stage(k)]
<1>0. PICK k \in Key : k = confirm[c].key
  BY StoreTypes DEF IInv
<1>1. k \in pending /\ Consumed(k) /\ Reserved(k) /\ ~ HasAccount(k) /\ ~ Asked(k)
  <2>1. Consumed(k)
    BY <1>0, ConsumedKey DEF IInv
  <2> QED BY <1>0, <2>1 DEF IInv, TypeOK, RequestInv, ConsumedIsHeld, InsertedFirst, Reserved,
                      AccountInv, ConsumedOnce, HasAccount, Asked
<1>2. \A l : (HasAccount(l)' <=> HasAccount(l)) /\ (Asked(l)' <=> Asked(l))
  BY DEF HasAccount, Asked
<1>3. ASSUME NEW l \in Key \ {k}
      PROVE  Stage(l)' = Stage(l)
  <2>1. Consumed(l)' <=> Consumed(l)
    BY <1>0, <1>3 DEF Consumed
  <2>2. Reserved(l)' <=> Reserved(l)
    BY <2>1 DEF Reserved
  <2> QED BY <1>2, <2>2, StageKept
<1>4. CASE Reserved(k)'
  BY <1>1, <1>2, <1>3, <1>4, StageKept, NoneMoves
<1>5. CASE ~ Reserved(k)'
  <2>1. Stage(k) = "reserved" /\ Stage(k)' = "void"
    BY <1>1, <1>2, <1>5, StageIs, StageNext
  <2> QED BY <1>1, <1>3, <2>1, DropsOne
<1> QED BY <1>4, <1>5

\* A step after which the same rows reserve, and the same requests go on.
LEMMA SameRows ==
  ASSUME \A k \in Key : Reserved(k)' <=> Reserved(k),
         \A k \in Key : Asked(k)' <=> Asked(k), UNCHANGED users
  PROVE  UNCHANGED [k \in Key |-> Stage(k)]
<1>1. \A k \in Key : Stage(k)' = Stage(k)
  BY StageKept DEF HasAccount
<1> QED BY <1>1, NoneMoves

\* A request that ends without a row.
LEMMA EndIsDrop ==
  ASSUME IInv, NEW k \in Key, Asked(k), register' = [register EXCEPT ![k] = "done"],
         UNCHANGED <<pending, expired, users, confirm>>
  PROVE  Registry!RegistryNext
<1> USE DEF IInv, TypeOK
<1>1. \A l : (HasAccount(l)' <=> HasAccount(l)) /\ (Reserved(l)' <=> Reserved(l))
  BY DEF HasAccount, Reserved, Consumed
<1>2. \A l \in Key \ {k} : Asked(l)' <=> Asked(l)
  BY DEF Asked
<1>3. ~ Asked(k)'
  BY DEF Asked
<1>4. Stage(k) = "asked" /\ Stage(k)' = "void"
  BY <1>1, <1>3, AskedIsNew, StageIs, StageNext
<1>5. \A l \in Key \ {k} : Stage(l)' = Stage(l)
  BY <1>1, <1>2, StageKept
<1> QED BY <1>4, <1>5, DropsOne

\* Expiry ends a reservation, unless a confirmation holds the row.
LEMMA ExpireDrops ==
  ASSUME IInv, NEW k \in Key, Expire(k)
  PROVE  Registry!RegistryNext \/ UNCHANGED [l \in Key |-> Stage(l)]
<1> USE DEF IInv, Expire
<1>1. \A l : (HasAccount(l)' <=> HasAccount(l)) /\ (Asked(l)' <=> Asked(l))
             /\ (Consumed(l)' <=> Consumed(l))
  BY DEF HasAccount, Asked, Consumed
<1>2. \A l \in Key \ {k} : Reserved(l)' <=> Reserved(l)
  BY <1>1 DEF Reserved
<1>3. Reserved(k) /\ ~ HasAccount(k) /\ ~ Asked(k)
  BY DEF Reserved, AccountInv, ConsumedOnce, HasAccount, RequestInv, InsertedFirst, Asked
<1>4. \A l \in Key \ {k} : Stage(l)' = Stage(l)
  BY <1>1, <1>2, StageKept
<1>5. CASE Reserved(k)'
  BY <1>1, <1>3, <1>4, <1>5, StageKept, NoneMoves
<1>6. CASE ~ Reserved(k)'
  <2>1. Stage(k) = "reserved" /\ Stage(k)' = "void"
    BY <1>1, <1>3, <1>6, StageIs, StageNext
  <2> QED BY <1>4, <2>1, DropsOne
<1> QED BY <1>5, <1>6

LEMMA RegisterImplements ==
  ASSUME IInv, NEW k \in Key, RegisterStep(k)
  PROVE  Registry!RegistryNext \/ UNCHANGED [l \in Key |-> Stage(l)]
<1> USE DEF IInv, TypeOK, authVars
<1>1. CASE UNCHANGED <<pending, expired, users, confirm>>
           /\ \A l \in Key : Asked(l)' <=> Asked(l)
  <2>1. \A l : Reserved(l)' <=> Reserved(l)
    BY <1>1 DEF Reserved, Consumed
  <2> QED BY <1>1, <2>1, SameRows
<1>2. CASE Sweep(k)
  BY <1>1, <1>2 DEF Sweep, Asked
<1>3. CASE CheckIdentity(k)
  <2>1. CASE register' = [register EXCEPT ![k] = "done"]
    BY <1>3, <2>1, EndIsDrop DEF CheckIdentity, Asked
  <2>2. CASE register' = [register EXCEPT ![k] = "checked"]
    BY <1>1, <1>3, <2>2 DEF CheckIdentity, Asked
  <2> QED BY <1>3, <2>1, <2>2 DEF CheckIdentity, EndRegister
<1>4. CASE InsertPending(k)
  <2>1. CASE Clashing(k) = {}
    BY <1>4, <2>1, InsertIsReserve
  <2>2. CASE Clashing(k) # {}
    BY <1>4, <2>2, EndIsDrop DEF InsertPending, EndRegister, Asked
  <2> QED BY <2>1, <2>2
<1>5. CASE SendRegistrationKey(k)
  BY <1>1, <1>5 DEF SendRegistrationKey, Asked
<1>6. CASE RegisterFails(k)
  <2>1. CASE Asked(k)
    BY <1>6, <2>1, EndIsDrop DEF RegisterFails, EndRegister
  <2>2. CASE ~ Asked(k)
    BY <1>1, <1>6, <2>2 DEF RegisterFails, EndRegister, Asked
  <2> QED BY <2>1, <2>2
<1>7. CASE Expire(k)
  BY <1>7, ExpireDrops
<1> QED BY <1>2, <1>3, <1>4, <1>5, <1>6, <1>7 DEF RegisterStep

LEMMA StartServerImplements ==
  ASSUME IInv, StartServer
  PROVE  UNCHANGED [k \in Key |-> Stage(k)]
<1> USE DEF IInv, StartServer
<1>1. \A l : (Consumed(l)' <=> Consumed(l)) /\ (Asked(l)' <=> Asked(l))
  BY DEF Consumed, Asked
<1>2. \A l \in pending \cap expired : ~ Consumed(l)
  BY HeldKeys
<1>3. \A l : Reserved(l)' <=> Reserved(l)
  BY <1>1, <1>2 DEF Reserved
<1> QED BY <1>1, <1>3, SameRows

\* Nothing changes for others when a confirmation opens: the row it has
\* consumed is no more visible than before.
LEMMA ConsumeImplements ==
  ASSUME IInv, NEW c \in Confirm, NEW k \in Key \cup {BadKey}, Consume(c, k)
  PROVE  UNCHANGED [l \in Key |-> Stage(l)]
<1> USE DEF IInv, TypeOK, Consume, Advance, authVars
<1>1. ~ Consumed(k)
  BY HeldKeys
<1>2. \A l : l # k => (Consumed(l)' <=> Consumed(l))
  BY DEF Consumed
<1>3. UNCHANGED <<users, register, expired>> /\ (pending' = pending \/ pending' = pending \ {k})
  OBVIOUS
<1>4. Reserved(k)' <=> Reserved(k)
  <2>1. CASE k \in pending \ expired
    BY <2>1 DEF Reserved
  <2>2. CASE k \notin pending \ expired
    <3>1. k \notin pending'
      BY <2>2
    <3> QED BY <1>1, <2>2, <3>1 DEF Reserved
  <2> QED BY <2>1, <2>2
<1>5. \A l \in Key : Reserved(l)' <=> Reserved(l)
  BY <1>2, <1>3, <1>4 DEF Reserved
<1> QED BY <1>3, <1>5, SameRows DEF Asked

LEMMA EndImplements ==
  ASSUME IInv, NEW c \in Confirm, CreateAccount(c) \/ ConfirmFails(c)
  PROVE  Registry!RegistryNext \/ UNCHANGED [k \in Key |-> Stage(k)]
<1> USE DEF IInv, TypeOK, CreateAccount, ConfirmFails, Advance
<1>1. /\ confirm[c].stage = "consumed" /\ confirm'[c].stage # "consumed"
      /\ \A d \in Confirm \ {c} : confirm'[d] = confirm[d]
      /\ UNCHANGED <<expired, register>>
  OBVIOUS
<1>2. UNCHANGED <<users, pending>> \/ (~ Taken(c) /\ StoreAccount(c))
  OBVIOUS
<1> QED BY <1>1, <1>2, StoreIsActivate, ReleaseDrops

LEMMA ProfileImplements ==
  ASSUME IInv, \/ \E c \in Confirm : EnsureUserProfile(c)
               \/ \E a \in users : Login(a)
               \/ UNCHANGED vars
  PROVE  UNCHANGED [k \in Key |-> Stage(k)]
<1>1. UNCHANGED <<users, pending, expired, register>> /\ \A k : Consumed(k)' <=> Consumed(k)
  <2>1. CASE UNCHANGED vars \/ \E a \in users : Login(a)
    BY <2>1 DEF Login, vars, authVars, Consumed
  <2>2. ASSUME NEW c \in Confirm, EnsureUserProfile(c)
        PROVE  UNCHANGED <<users, pending, expired, register>>
               /\ \A k : Consumed(k)' <=> Consumed(k)
    BY <2>2 DEF EnsureUserProfile, Advance, authVars, Consumed, IInv, TypeOK
  <2> QED BY <2>1, <2>2
<1>2. \A k : (Reserved(k)' <=> Reserved(k)) /\ (Asked(k)' <=> Asked(k))
  BY <1>1 DEF Reserved, Asked
<1> QED BY <1>1, <1>2, SameRows

\* Whatever the rows, transactions and confirmations do, an identity is
\* reserved by one request at a time and makes one account.
THEOREM Implementation == Spec => ImplementsRegistry
<1>1. Init => Registry!RegistryInit
  BY DEF Init, Registry!RegistryInit, Stage
<1>2. IInv /\ [Next]_vars => [Registry!RegistryNext]_([k \in Key |-> Stage(k)])
  <2> SUFFICES ASSUME IInv, [Next]_vars
               PROVE  Registry!RegistryNext \/ UNCHANGED [k \in Key |-> Stage(k)]
    OBVIOUS
  <2> QED
    BY RegisterImplements, StartServerImplements, ConsumeImplements, EndImplements,
       ProfileImplements DEF Next, RegisterStep
<1> QED
  BY <1>1, <1>2, DatabasesInvariant, PTL DEF Spec, ImplementsRegistry, Registry!RegistrySpec
=============================================================================

---------------------------- MODULE Registration ----------------------------
(***************************************************************************)
(* Registration with confirmation: Register, ConfirmRegistration and Login *)
(* over the authentication database (registration_requests, users) and the *)
(* cloud database (profiles), which share no transaction.                  *)
(*                                                                         *)
(* Each Register request makes a key of its own, so Key names the requests *)
(* and their rows; NameOf and EmailOf are what they ask for.  Statements   *)
(* are steps, READ COMMITTED: a transaction's writes appear when it        *)
(* commits, and a row it has deleted makes others wait for its end.        *)
(***************************************************************************)
EXTENDS Naturals

CONSTANTS
  Key, BadKey,      \* keys that were issued, a key that never was
  Name, Email, NameOf, EmailOf,
  Confirm,          \* requests to confirm a registration
  Faults, MaxFaults

ASSUME KeyAssumption ==
  BadKey \notin Key /\ NameOf \in [Key -> Name] /\ EmailOf \in [Key -> Email]
ASSUME FaultsAssumption ==
  Faults \subseteq {"crash", "db", "ambiguous", "mail"} /\ MaxFaults \in Nat

VARIABLES
  pending,      \* rows of registration_requests
  expired,      \* keys whose expires_at has passed
  users,        \* rows of users: the key they come from, their creator
  profiles,     \* rows of the cloud database's users table
  register,     \* where each Register request is
  swept,        \* expired rows its open transaction has deleted
  mailed,       \* keys that reached their owner
  confirm,      \* the key and the progress of each confirmation
  faults

authVars == <<pending, expired, users>>
vars == <<authVars, profiles, register, swept, mailed, confirm, faults>>

Account == [key : Key, by : Confirm]
Answers == {"session", "later", "invalid", "expired", "conflict", "error"}

TypeOK ==
  /\ pending \subseteq Key
  /\ expired \subseteq Key
  /\ users \subseteq Account
  /\ profiles \subseteq Account
  /\ register \in [Key -> {"new", "swept", "checked", "mail", "done"}]
  /\ swept \in [Key -> SUBSET Key]
  /\ mailed \subseteq Key
  /\ confirm \in [Confirm -> [stage : {"new", "consumed", "profile"} \cup Answers,
                              key   : Key \cup {BadKey}]]
  /\ faults \in 0..MaxFaults

Init ==
  /\ pending = {}
  /\ expired = {}
  /\ users = {}
  /\ profiles = {}
  /\ register = [k \in Key |-> "new"]
  /\ swept = [k \in Key |-> {}]
  /\ mailed = {}
  /\ confirm = [c \in Confirm |-> [stage |-> "new", key |-> BadKey]]
  /\ faults = 0

Fault(kind) ==
  /\ kind \in Faults
  /\ faults < MaxFaults
  /\ faults' = faults + 1

SameIdentity(k, l) == NameOf[k] = NameOf[l] \/ EmailOf[k] = EmailOf[l]

\* Rows deleted by a transaction that is still open.
Held ==
  (UNION {swept[k] : k \in Key}) \cup
    {confirm[c].key : c \in {d \in Confirm : confirm[d].stage = "consumed"}}

----------------------------------------------------------------------------
(***************************************************************************)
(* Register, after the checks of its input: CreatePendingRegistration and  *)
(* SendRegistrationKey.                                                    *)
(***************************************************************************)

\* The transaction starts by deleting the expired requests.
Sweep(k) ==
  /\ register[k] = "new"
  /\ pending \cap expired \cap Held = {}
  /\ swept' = [swept EXCEPT ![k] = pending \cap expired]
  /\ register' = [register EXCEPT ![k] = "swept"]
  /\ UNCHANGED <<authVars, profiles, mailed, confirm, faults>>

EndRegister(k, stage) ==
  /\ register' = [register EXCEPT ![k] = stage]
  /\ swept' = [swept EXCEPT ![k] = {}]

\* selectRegisteredIdentitySQL: a registered name or email ends the request
\* and gives the expired rows back.
CheckIdentity(k) ==
  /\ register[k] = "swept"
  /\ IF \E a \in users : SameIdentity(a.key, k)
     THEN EndRegister(k, "done")
     ELSE /\ register' = [register EXCEPT ![k] = "checked"]
          /\ UNCHANGED swept
  /\ UNCHANGED <<authVars, profiles, mailed, confirm, faults>>

\* Mutant: no unique constraint on the email of pending requests.
ClashingNames(k) == {l \in pending \ swept[k] : NameOf[l] = NameOf[k]}

\* Pending rows that the unique constraints compare with k.
Clashing(k) == {l \in pending \ swept[k] : SameIdentity(k, l)}

\* The INSERT waits for a clashing row that another transaction has deleted,
\* fails on one that is there, and otherwise commits.
InsertPending(k) ==
  /\ register[k] = "checked"
  /\ Clashing(k) \cap Held = {}
  /\ IF Clashing(k) # {}
     THEN EndRegister(k, "done") /\ UNCHANGED pending
     ELSE EndRegister(k, "mail") /\ pending' = (pending \ swept[k]) \cup {k}
  /\ UNCHANGED <<expired, users, profiles, mailed, confirm, faults>>

\* The answer is 201 whether or not the post controller accepted the mail.
SendRegistrationKey(k) ==
  /\ register[k] = "mail"
  /\ \/ mailed' = mailed \cup {k} /\ UNCHANGED faults
     \/ Fault("mail") /\ UNCHANGED mailed
  /\ register' = [register EXCEPT ![k] = "done"]
  /\ UNCHANGED <<authVars, profiles, swept, confirm>>

\* A statement fails or the process dies: an open transaction is rolled back.
RegisterFails(k) ==
  /\ register[k] \in {"swept", "checked", "mail"}
  /\ Fault("crash") \/ (register[k] # "mail" /\ Fault("db"))
  /\ EndRegister(k, "done")
  /\ UNCHANGED <<authVars, profiles, mailed, confirm>>

Expire(k) ==
  /\ k \in pending \ expired
  /\ expired' = expired \cup {k}
  /\ UNCHANGED <<pending, users, profiles, register, swept, mailed, confirm, faults>>

\* initPendingRegistrations, when a server process starts.
StartServer ==
  /\ pending \cap expired # {}
  /\ pending \cap expired \cap Held = {}
  /\ pending' = pending \ expired
  /\ UNCHANGED <<expired, users, profiles, register, swept, mailed, confirm, faults>>

----------------------------------------------------------------------------
(***************************************************************************)
(* ConfirmRegistration.                                                    *)
(***************************************************************************)

Advance(c, stage, k) ==
  confirm' = [confirm EXCEPT ![c] = [stage |-> stage, key |-> k]]

\* Mutant: a DELETE that returns no row is not noticed.
ConsumeAnything(c, k) ==
  /\ confirm[c].stage = "new"
  /\ k \notin Held \cup expired
  /\ Advance(c, "consumed", k)
  /\ UNCHANGED <<authVars, profiles, register, swept, mailed, faults>>

\* The DELETE locks the row; an expired row is removed for good.
Consume(c, k) ==
  /\ confirm[c].stage = "new"
  /\ k \in mailed \cup {BadKey}
  /\ k \notin Held
  /\ \/ /\ k \notin pending
        /\ Advance(c, "invalid", k)
        /\ UNCHANGED pending
     \/ /\ k \in pending \cap expired
        /\ Advance(c, "expired", k)
        /\ pending' = pending \ {k}
     \/ /\ k \in pending \ expired
        /\ Advance(c, "consumed", k)
        /\ UNCHANGED pending
  /\ UNCHANGED <<expired, users, profiles, register, swept, mailed, faults>>

\* The account that confirmation c creates.
Created(c) == [key |-> confirm[c].key, by |-> c]

\* Mutant: no unique index on the usernames and emails of the accounts.
NeverTaken(c) == FALSE

Taken(c) == \E a \in users : SameIdentity(a.key, confirm[c].key)

\* Mutant: the request is read, not deleted.
StoreAccountOnly(c) ==
  /\ users' = users \cup {Created(c)}
  /\ UNCHANGED pending

StoreAccount(c) ==
  /\ users' = users \cup {Created(c)}
  /\ pending' = pending \ {confirm[c].key}

\* insertAuthUserSQL and the commit; a unique violation rolls everything
\* back, and the request stays until it expires.
CreateAccount(c) ==
  /\ confirm[c].stage = "consumed"
  /\ IF Taken(c)
     THEN Advance(c, "conflict", confirm[c].key) /\ UNCHANGED <<users, pending>>
     ELSE Advance(c, "profile", confirm[c].key) /\ StoreAccount(c)
  /\ UNCHANGED <<expired, profiles, register, swept, mailed, faults>>

\* An error or a crash; the commit may have been applied all the same.
ConfirmFails(c) ==
  /\ confirm[c].stage = "consumed"
  /\ \/ /\ Fault("db") \/ Fault("crash")
        /\ UNCHANGED <<users, pending>>
     \/ /\ ~ Taken(c)
        /\ Fault("ambiguous")
        /\ StoreAccount(c)
  /\ Advance(c, "error", confirm[c].key)
  /\ UNCHANGED <<expired, profiles, register, swept, mailed>>

\* Mutant: an error of EnsureUserProfile is ignored.
SessionAnyway(c) ==
  /\ confirm[c].stage = "profile"
  /\ \/ profiles' = profiles \cup {Created(c)} /\ UNCHANGED faults
     \/ Fault("db") /\ UNCHANGED profiles
  /\ Advance(c, "session", confirm[c].key)
  /\ UNCHANGED <<authVars, register, swept, mailed>>

\* EnsureUserProfile in the other database, then the session; if it fails,
\* the account stays confirmed.
EnsureUserProfile(c) ==
  /\ confirm[c].stage = "profile"
  /\ \/ /\ profiles' = profiles \cup {Created(c)}
        /\ Advance(c, "session", confirm[c].key)
        /\ UNCHANGED faults
     \/ /\ Fault("db") \/ Fault("crash")
        /\ Advance(c, "later", confirm[c].key)
        /\ UNCHANGED profiles
     \/ /\ Fault("ambiguous")
        /\ profiles' = profiles \cup {Created(c)}
        /\ Advance(c, "later", confirm[c].key)
  /\ UNCHANGED <<authVars, register, swept, mailed>>

\* A later login of an account without a profile creates it.
Login(a) ==
  /\ a \in users \ profiles
  /\ profiles' = profiles \cup {a}
  /\ UNCHANGED <<authVars, register, swept, mailed, confirm, faults>>

----------------------------------------------------------------------------

Next ==
  \/ \E k \in Key : \/ Sweep(k)
                    \/ CheckIdentity(k)
                    \/ InsertPending(k)
                    \/ SendRegistrationKey(k)
                    \/ RegisterFails(k)
                    \/ Expire(k)
  \/ StartServer
  \/ \E c \in Confirm : \/ \E k \in Key \cup {BadKey} : Consume(c, k)
                        \/ CreateAccount(c)
                        \/ ConfirmFails(c)
                        \/ EnsureUserProfile(c)
  \/ \E a \in users : Login(a)

Spec == Init /\ [][Next]_vars

----------------------------------------------------------------------------

\* No two accounts share a username or an email, although a request can pass
\* its identity check, wait while another one is confirmed, and be stored.
IdentityUnique ==
  \A a, b \in users : a # b => ~ SameIdentity(a.key, b.key)

\* "atomically consumes the request and creates the authentication account":
\* a key that made an account cannot be used again.
ConsumedOnce == \A a \in users : a.key \notin pending

\* What a request amounts to for everybody else: its row reserves the identity
\* until it expires, and for as long as a confirmation has consumed it.
Consumed(k) == \E c \in Confirm : confirm[c] = [stage |-> "consumed", key |-> k]

Stage(k) ==
  IF \E a \in users : a.key = k THEN "account"
  ELSE IF k \in pending /\ (k \notin expired \/ Consumed(k)) THEN "reserved"
  ELSE IF register[k] \in {"new", "swept", "checked"} THEN "asked"
  ELSE "void"

Registry == INSTANCE AccountRegistry WITH stage <- [k \in Key |-> Stage(k)]

\* "Active requests reserve their username and email until expiry", and a
\* confirmation makes the only account of its identity, although the identity
\* is checked, reserved and confirmed in separate transactions.
ImplementsRegistry == Registry!RegistrySpec

\* The cloud database never runs ahead of the authentication database, and a
\* confirmation that answered with a session has left a row in both.
CloudFollowsAuth ==
  /\ profiles \subseteq users
  /\ \A c \in Confirm :
       confirm[c].stage = "session" => Created(c) \in users \cap profiles
=============================================================================

------------------------------ MODULE Session ------------------------------
(***************************************************************************)
(* The session of a dashboard page, and the storage meter every part of    *)
(* the page refreshes.  The session is a signed token in a cookie: the     *)
(* server keeps nothing, and the token and the cookie lapse on two clocks. *)
(***************************************************************************)
EXTENDS Naturals

CONSTANTS
  MaxLost   \* how many requests of the page may fail on the way

ASSUME LostAssumption == MaxLost \in Nat

VARIABLES
  session,   \* "valid"; "refused" is a cookie the API answers with 401; "none"
  lost,      \* requests that have failed so far
  hidden,    \* document.hidden
  shown,     \* what the storage meter shows
  usage      \* the request of refreshStorageUsage, once answered its answer;
             \* "absent" on a page without a meter

\* Usage is compared with the server's, not counted: whatever stores or
\* deletes a file makes the meter and an answer on its way outdated.
sessionVars == <<session, lost, hidden>>
meterVars   == <<shown, usage>>

Usages == {"current", "outdated"}

SessionTypeOK ==
  /\ session \in {"valid", "refused", "none"}
  /\ lost \in 0..MaxLost
  /\ hidden \in BOOLEAN
  /\ shown \in Usages
  /\ usage \in Usages \cup {"absent", "idle", "sent", "unauthorized", "failed",
                           "expired"}

SessionInit ==
  /\ session = "valid"
  /\ lost = 0
  /\ hidden = FALSE
  /\ shown = "current"
  /\ usage \in {"idle", "absent"}

\* RequireAuth refuses a token that has expired, while the browser may still
\* hold the cookie or may have dropped it already; the user may also sign out
\* in another tab, and in again.
EndSession ==
  /\ \/ session = "valid" /\ session' \in {"refused", "none"}
     \/ session = "refused" /\ session' = "none"
  /\ UNCHANGED <<lost, hidden, meterVars>>

SignIn ==
  /\ session = "none"
  /\ session' = "valid"
  /\ UNCHANGED <<lost, hidden, meterVars>>

\* No answer arrives, or only that of a broken server.
LoseAnswer ==
  /\ lost < MaxLost
  /\ lost' = lost + 1

\* requireSession redirects to the login page, which the browser follows; the
\* API answers 401 to a refused token.
Gate == CASE session = "none"    -> "login"
          [] session = "refused" -> "unauthorized"
          [] session = "valid"   -> "admitted"

\* The stored bytes of the user change.
ChangeUsage ==
  /\ shown' = IF usage = "absent" THEN shown ELSE "outdated"
  /\ usage' = IF usage = "current" THEN "outdated" ELSE usage

----------------------------------------------------------------------------
(***************************************************************************)
(* refreshStorageUsage.  One request at a time: a refresh asked for while  *)
(* another is under way is dropped.  "expired" is storageSessionExpired.   *)
(***************************************************************************)

RefreshStorageUsage == usage' = IF usage = "idle" THEN "sent" ELSE usage

\* The poll every ten seconds, while the page is visible.
PollStorageUsage ==
  /\ usage = "idle"
  /\ ~ hidden
  /\ RefreshStorageUsage
  /\ UNCHANGED <<sessionVars, shown>>

StorageUsage ==
  /\ usage = "sent"
  /\ \/ /\ usage' = IF Gate = "admitted" THEN "current" ELSE "unauthorized"
        /\ UNCHANGED lost
     \/ LoseAnswer /\ usage' = "failed"
  /\ UNCHANGED <<session, hidden, shown>>

\* Mutant: the flag is not reset when the request fails.
ShowUsageOnSuccess ==
  /\ usage \in Usages \cup {"unauthorized"}
  /\ shown' = IF usage \in Usages THEN usage ELSE shown
  /\ usage' = IF usage = "unauthorized" THEN "expired" ELSE "idle"
  /\ UNCHANGED sessionVars

ShowStorageUsage ==
  /\ usage \in Usages \cup {"unauthorized", "failed"}
  /\ shown' = IF usage \in Usages THEN usage ELSE shown
  /\ usage' = IF usage = "unauthorized" THEN "expired" ELSE "idle"
  /\ UNCHANGED sessionVars

\* Becoming visible refreshes the meter at once.
ChangeVisibility ==
  /\ hidden' = ~ hidden
  /\ IF hidden THEN RefreshStorageUsage ELSE UNCHANGED usage
  /\ UNCHANGED <<session, lost, shown>>

SessionStep ==
  \/ EndSession
  \/ SignIn
  \/ PollStorageUsage
  \/ StorageUsage
  \/ ShowStorageUsage
=============================================================================

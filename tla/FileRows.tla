------------------------------ MODULE FileRows ------------------------------
(***************************************************************************)
(* The rows of a dashboard page: the poll of their scan states, the switch *)
(* of their access and the form that deletes them.  A folder item has the  *)
(* same switch and form and no scan: it behaves like an approved row.      *)
(***************************************************************************)
EXTENDS Session

CONSTANT
  Row      \* files and folders

VARIABLES
  status, shared,     \* the server: scan states, and what is public
  row,                \* the page: data-file-status of each row
  checked, enabled,   \* the switches that are on, and that can be used
  poll,               \* the poll of scan states
  captured, answered, \* its pending rows, the scan states in its answer
  switching,          \* the request of each switch
  deleting,           \* the request of each delete form
  misled              \* items for which the page was told a failure is a success,
                      \* or could not be told a success

serverVars  == <<status, shared>>
pollVars    == <<poll, captured, answered>>
requestVars == <<switching, deleting>>
switchVars  == <<checked, enabled>>
rowVars == <<serverVars, row, switchVars, pollVars, requestVars, misled>>

States  == {"pending", "approved", "rejected"}
Answers == {"ok", "unauthorized", "network"}

RowsTypeOK ==
  /\ status \in [Row -> States \cup {"gone"}]
  /\ shared \subseteq Row
  /\ row \in [Row -> States \cup {"gone"}]
  /\ checked \subseteq Row
  /\ enabled \subseteq Row
  /\ poll \in {"waiting", "sent", "answered", "unauthorized", "failed",
               "ended", "expired"}
  /\ captured \subseteq Row
  /\ answered \in [Row -> States \cup {"gone"}]
  /\ switching \in [Row -> {"none", "sent"} \cup Answers]
  /\ deleting \in [Row -> {"none", "sent"} \cup Answers]
  /\ misled \subseteq Row

PendingRows == {f \in Row : row[f] = "pending"}

RowsInit ==
  /\ status \in [Row -> {"pending", "approved", "gone"}]
  /\ shared = {}
  /\ row = status
  /\ checked = {}
  /\ enabled = {f \in Row : row[f] = "approved"}
  /\ poll = IF PendingRows = {} THEN "ended" ELSE "waiting"
  /\ captured = {}
  /\ answered = [f \in Row |-> "gone"]
  /\ switching = [f \in Row |-> "none"]
  /\ deleting = [f \in Row |-> "none"]
  /\ misled = {}

----------------------------------------------------------------------------
(***************************************************************************)
(* The server, apart from this page: scans (module FileLifecycle), and the *)
(* same user in another tab.                                               *)
(***************************************************************************)

DecideScan(f) ==
  /\ status[f] = "pending"
  /\ \E verdict \in {"approved", "rejected"} :
       status' = [status EXCEPT ![f] = verdict]
  /\ UNCHANGED <<sessionVars, meterVars, shared, row, switchVars, pollVars,
                 requestVars, misled>>

Remove(f) ==
  /\ status' = [status EXCEPT ![f] = "gone"]
  /\ shared' = shared \ {f}
  /\ ChangeUsage

DeleteElsewhere(f) ==
  /\ status[f] # "gone"
  /\ session = "valid"
  /\ Remove(f)
  /\ UNCHANGED <<sessionVars, row, switchVars, pollVars, requestVars, misled>>

----------------------------------------------------------------------------
(***************************************************************************)
(* watchFileScans.  The next poll is scheduled when the last one is over.  *)
(***************************************************************************)

\* The timer fires.  A hidden page skips the request and waits again; without
\* pending rows the watch ends.
StartPoll ==
  /\ poll = "waiting"
  /\ hidden => PendingRows = {}
  /\ captured' = PendingRows
  /\ poll' = IF PendingRows = {} THEN "ended" ELSE "sent"
  /\ UNCHANGED <<sessionVars, meterVars, serverVars, row, switchVars, answered,
                 requestVars, misled>>

\* One SELECT lists the files, or the page is signed out.
FileStatuses ==
  /\ poll = "sent"
  /\ \/ /\ poll' = IF Gate = "admitted" THEN "answered" ELSE "unauthorized"
        /\ answered' = [f \in Row |-> IF Gate = "admitted" /\ f \in captured
                                     THEN status[f] ELSE "gone"]
        /\ UNCHANGED lost
     \/ LoseAnswer /\ poll' = "failed" /\ UNCHANGED answered
  /\ UNCHANGED <<session, hidden, meterVars, serverVars, row, switchVars,
                 captured, requestVars, misled>>

\* Captured rows that the answer lists and that are still on the page.
Updated == {f \in captured : answered[f] # "gone" /\ row[f] # "gone"}

\* setFileStatus also enables the switch of an approved row.
ShowStatuses ==
  /\ poll = "answered"
  /\ row' = [f \in Row |-> IF f \in Updated THEN answered[f] ELSE row[f]]
  /\ enabled' = {f \in Row : IF f \in Updated THEN answered[f] = "approved"
                              ELSE f \in enabled}
  /\ poll' = IF PendingRows' = {} THEN "ended" ELSE "waiting"
  /\ captured' = {}
  /\ answered' = [f \in Row |-> "gone"]
  /\ UNCHANGED <<sessionVars, meterVars, serverVars, checked, requestVars, misled>>

\* Mutant: only an answer schedules the next poll.
PollEndsOnError ==
  /\ poll \in {"unauthorized", "failed"}
  /\ poll' = "ended"
  /\ captured' = {}
  /\ UNCHANGED <<sessionVars, meterVars, serverVars, row, switchVars, answered,
                 requestVars, misled>>

\* A page that is signed out never polls again; any other error is retried.
PollFails ==
  /\ poll \in {"unauthorized", "failed"}
  /\ poll' = IF poll = "unauthorized" THEN "expired"
             ELSE IF PendingRows = {} THEN "ended" ELSE "waiting"
  /\ captured' = {}
  /\ UNCHANGED <<sessionVars, meterVars, serverVars, row, switchVars, answered,
                 requestVars, misled>>

----------------------------------------------------------------------------
(***************************************************************************)
(* The switch and the delete form.  The web handlers answer every request  *)
(* with a redirect, and so does requireSession: fetch follows it to a page *)
(* with status 200, and response.ok is true whatever the API has answered. *)
(* "unauthorized" is such an answer too, with a refused token on the way.  *)
(***************************************************************************)

\* The answer of a request that the server may have carried out.
Answered(answer, applied) ==
  CASE answer = "network"      -> LoseAnswer /\ (applied => Gate = "admitted")
    [] answer = "unauthorized" -> Gate = answer /\ ~ applied /\ UNCHANGED lost
    [] answer = "ok" /\ Gate = "admitted"
                               -> IF applied THEN UNCHANGED lost ELSE LoseAnswer
    [] OTHER                   -> Gate = "login" /\ ~ applied /\ UNCHANGED lost

\* What the script takes for a success.
ResponseOk(answer) == answer # "network"

\* The redirect to the dashboard meets a refused token and signs out.
FollowRedirect(answer) ==
  IF answer = "unauthorized" THEN session' = "none" ELSE UNCHANGED session

Toggle(f) ==
  /\ row[f] # "gone"
  /\ f \in enabled
  /\ checked' = IF f \in checked THEN checked \ {f} ELSE checked \cup {f}
  /\ enabled' = enabled \ {f}
  /\ switching' = [switching EXCEPT ![f] = "sent"]
  /\ UNCHANGED <<sessionVars, meterVars, serverVars, row, pollVars, deleting, misled>>

\* changeFilePermission and changeFolderPermission: the state that was sent
\* is that of the switch.  An item that is gone is a failure of the API.
ChangePermission(f, answer, applied) ==
  /\ switching[f] = "sent"
  /\ Answered(answer, applied)
  /\ switching' = [switching EXCEPT ![f] = answer]
  /\ shared' = IF ~ applied \/ status[f] = "gone" THEN shared
               ELSE IF f \in checked THEN shared \cup {f}
               ELSE shared \ {f}
  /\ misled' = IF ResponseOk(answer) = applied THEN misled ELSE misled \cup {f}
  /\ UNCHANGED <<session, hidden, meterVars, status, row, switchVars, pollVars,
                 deleting>>

\* Mutant: the switch is not set back.
KeepSwitch(f) ==
  /\ switching[f] \in Answers
  /\ FollowRedirect(switching[f])
  /\ enabled' = enabled \cup {f}
  /\ switching' = [switching EXCEPT ![f] = "none"]
  /\ UNCHANGED <<lost, hidden, meterVars, serverVars, row, checked, pollVars,
                 deleting, misled>>

\* An error sets the switch back; it can be used again in any case.
SettleSwitch(f) ==
  /\ switching[f] \in Answers
  /\ FollowRedirect(switching[f])
  /\ checked' = IF ResponseOk(switching[f]) THEN checked
                ELSE IF f \in checked THEN checked \ {f}
                ELSE checked \cup {f}
  /\ enabled' = enabled \cup {f}
  /\ switching' = [switching EXCEPT ![f] = "none"]
  /\ UNCHANGED <<lost, hidden, meterVars, serverVars, row, pollVars, deleting,
                 misled>>

SubmitDelete(f) ==
  /\ row[f] # "gone"
  /\ deleting[f] = "none"
  /\ deleting' = [deleting EXCEPT ![f] = "sent"]
  /\ UNCHANGED <<sessionVars, meterVars, serverVars, row, switchVars, pollVars,
                 switching, misled>>

\* deleteFile and deleteFolder.
Delete(f, answer, applied) ==
  /\ deleting[f] = "sent"
  /\ Answered(answer, applied)
  /\ deleting' = [deleting EXCEPT ![f] = answer]
  /\ IF applied /\ status[f] # "gone"
     THEN Remove(f) ELSE UNCHANGED <<serverVars, meterVars>>
  /\ misled' = IF ~ applied /\ ResponseOk(answer) THEN misled \cup {f} ELSE misled
  /\ UNCHANGED <<session, hidden, row, switchVars, pollVars, switching>>

\* The row goes away and the meter is refreshed, or the form can be used again.
SettleDelete(f) ==
  /\ deleting[f] \in Answers
  /\ FollowRedirect(deleting[f])
  /\ IF ResponseOk(deleting[f])
     THEN row' = [row EXCEPT ![f] = "gone"] /\ RefreshStorageUsage
     ELSE UNCHANGED <<row, usage>>
  /\ deleting' = [deleting EXCEPT ![f] = "none"]
  /\ UNCHANGED <<lost, hidden, shown, serverVars, switchVars, pollVars,
                 switching, misled>>

RowStep ==
  \/ StartPoll
  \/ FileStatuses
  \/ ShowStatuses
  \/ PollFails
  \/ \E f \in Row :
       \/ DecideScan(f)
       \/ DeleteElsewhere(f)
       \/ Toggle(f)
       \/ SettleSwitch(f)
       \/ SubmitDelete(f)
       \/ SettleDelete(f)
       \/ \E answer \in Answers, applied \in BOOLEAN :
            ChangePermission(f, answer, applied) \/ Delete(f, answer, applied)
=============================================================================

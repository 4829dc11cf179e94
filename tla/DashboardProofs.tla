-------------------------- MODULE DashboardProofs --------------------------
(***************************************************************************)
(* Proofs for any number of files, rows, workers and lost answers: the     *)
(* workers of a batch store no file twice and forget none, and the page    *)
(* agrees with the server.                                                 *)
(***************************************************************************)
EXTENDS Dashboard, TLAPS

\* What a file may count in copies without a lost answer.
Once(f) == IF request[f] = "created" \/ f \in completed THEN 1 ELSE 0

\* A repeated upload needs a lost answer, for the file itself.
CopiesCounted ==
  \A f \in Pick :
    /\ copies[f] <= lost + Once(f)
    /\ f \notin doubtful => copies[f] <= Once(f)

\* A file that counts as uploaded is stored, or the script was misled.
SuccessIsStored ==
  \A f \in Pick :
    /\ request[f] = "created" => copies[f] > 0
    /\ f \in completed => copies[f] > 0 \/ f \in doubtful

\* The workers share the batch: a file is waiting, in flight or over.
BatchShared ==
  /\ InFlight \subseteq batch
  /\ completed \cap (queue \cup InFlight) = {}
  /\ queue \cap InFlight = {}
  /\ ~ uploading => InFlight = {} /\ selection \cap completed = {}
  /\ uploading /\ firstError = "none" => batch \subseteq queue \cup InFlight \cup completed

UploadInv == CopiesCounted /\ SuccessIsStored /\ BatchShared

\* No switch can be used while its request is under way, and neither a poll
\* nor the request of another switch changes that.
OneSwitchRequest == \A f \in enabled : switching[f] = "none"

\* A row that is still pending, and so every row that a poll will update, has
\* no switch.
PendingIsIdle ==
  \A f \in Row :
    /\ row[f] = "pending" => f \notin enabled /\ switching[f] = "none"
    /\ f \in captured /\ row[f] # "gone" => row[f] = "pending"

\* A row is removed after the item.
GoneIsGone ==
  \A f \in Row \ misled :
    row[f] = "gone" \/ deleting[f] \in {"ok", "unauthorized"} => status[f] = "gone"

\* A switch shows the access, or what was asked for and has not happened.
SwitchTells ==
  \A f \in Row \ misled :
    status[f] # "gone" =>
      (f \in checked <=>
         IF switching[f] \in {"sent", "network"} THEN f \notin shared ELSE f \in shared)

RowInv == OneSwitchRequest /\ PendingIsIdle /\ GoneIsGone /\ SwitchTells

IInv == TypeOK /\ UploadInv /\ RowInv

ServerStep(f) == UploadAdmitted(f) \/ UploadRefused(f) \/ UploadLost(f)

----------------------------------------------------------------------------
(***************************************************************************)
(* Types.                                                                  *)
(***************************************************************************)

USE LostAssumption

LEMMA SessionTypes ==
  ASSUME SessionTypeOK, SessionStep \/ ChangeVisibility
  PROVE  SessionTypeOK' /\ lost' >= lost
<1> USE DEF SessionTypeOK, Usages, sessionVars, meterVars
<1>1. CASE EndSession
  BY <1>1 DEF EndSession
<1>2. CASE SignIn
  BY <1>2 DEF SignIn
<1>3. CASE PollStorageUsage
  BY <1>3 DEF PollStorageUsage, RefreshStorageUsage
<1>4. CASE StorageUsage
  BY <1>4 DEF StorageUsage, LoseAnswer, Gate
<1>5. CASE ShowStorageUsage
  BY <1>5 DEF ShowStorageUsage
<1>6. CASE ChangeVisibility
  BY <1>6 DEF ChangeVisibility, RefreshStorageUsage
<1> QED BY <1>1, <1>2, <1>3, <1>4, <1>5, <1>6 DEF SessionStep

LEMMA UploadAnswerTypes ==
  ASSUME TypeOK, UploadInv, NEW f \in Pick, ServerStep(f)
  PROVE  SessionTypeOK' /\ UploadTypeOK' /\ lost' >= lost
<1> USE DEF TypeOK, SessionTypeOK, UploadTypeOK, Usages, Errors, Successes
<1>1. CASE UploadAdmitted(f)
  <2>1. copies[f] <= lost
    BY <1>1 DEF UploadAdmitted, UploadInv, CopiesCounted, Once, BatchShared, InFlight
  <2> QED
    BY <1>1, <2>1 DEF UploadAdmitted, Store, Answer, ChangeUsage, sessionVars,
       meterVars, formVars
<1>2. CASE UploadRefused(f)
  BY <1>2 DEF UploadRefused, Gate, Answer, sessionVars, meterVars, formVars, storeVars
<1>3. CASE UploadLost(f)
  <2>1. copies[f] <= lost
    BY <1>3 DEF UploadLost, UploadInv, CopiesCounted, Once, BatchShared, InFlight
  <2> QED
    BY <1>3, <2>1 DEF UploadLost, LoseAnswer, Store, Answer, ChangeUsage, meterVars,
       formVars, storeVars
<1> QED BY <1>1, <1>2, <1>3 DEF ServerStep

LEMMA UploadPageTypes ==
  ASSUME TypeOK, UploadStep, ~ \E f \in Pick : ServerStep(f)
  PROVE  SessionTypeOK' /\ UploadTypeOK' /\ lost' >= lost
<1> USE DEF TypeOK, SessionTypeOK, UploadTypeOK, Usages, Errors, Successes
<1>1. ASSUME NEW files \in SUBSET (wanted \ completed), Choose(files)
      PROVE  SessionTypeOK' /\ UploadTypeOK' /\ lost' >= lost
  BY <1>1 DEF Choose, sessionVars, meterVars, workerVars, storeVars
<1>2. ASSUME NEW first \in SUBSET selection, Submit(first)
      PROVE  SessionTypeOK' /\ UploadTypeOK' /\ lost' >= lost
  BY <1>2 DEF Submit, sessionVars, meterVars, storeVars
<1>3. ASSUME NEW f \in Pick, NEW next \in queue, TakeNext(f, next)
      PROVE  SessionTypeOK' /\ UploadTypeOK' /\ lost' >= lost
  BY <1>3 DEF TakeNext, HandleAnswer, Completed, ClearCookies, Mislead, Arrived
<1>4. ASSUME NEW f \in Pick, OthersReturn(f)
      PROVE  SessionTypeOK' /\ UploadTypeOK' /\ lost' >= lost
  BY <1>4 DEF OthersReturn, WorkerReturns, Answer, HandleAnswer, Completed, FirstError,
              ClearCookies, Mislead, Arrived
<1>5. ASSUME NEW f \in Pick, LastReturns(f)
      PROVE  SessionTypeOK' /\ UploadTypeOK' /\ lost' >= lost
  <2> USE DEF HandleAnswer, Answer, Completed, FirstError, ClearCookies, Mislead, Arrived
  <2>1. /\ session' \in {"valid", "refused", "none"}
        /\ usage' \in {usage, "sent"} /\ UNCHANGED <<lost, hidden, shown>>
    BY <1>5 DEF LastReturns, WorkerReturns, RefreshStorageUsage
  <2>2. /\ place' \in {"dashboard", "done", "login"} /\ uploading' \in BOOLEAN
        /\ queue' \subseteq batch' /\ firstError' \in {"none", "unauthorized"}
    BY <1>5 DEF LastReturns, WorkerReturns
  <2>3. selection' \subseteq Pick /\ batch' \subseteq Pick
    BY <1>5 DEF LastReturns, RemainingFiles
  <2>4. /\ request' = [request EXCEPT ![f] = "none"] /\ UNCHANGED <<wanted, copies>>
        /\ completed' \subseteq Pick /\ doubtful' \subseteq Pick
    BY <1>5 DEF LastReturns, WorkerReturns
  <2> QED BY <2>1, <2>2, <2>3, <2>4
<1> QED BY <1>1, <1>2, <1>3, <1>4, <1>5 DEF UploadStep, ServerStep

LEMMA PollTypes ==
  ASSUME SessionTypeOK, RowsTypeOK, StartPoll \/ FileStatuses \/ ShowStatuses \/ PollFails
  PROVE  SessionTypeOK' /\ RowsTypeOK' /\ lost' >= lost
<1> USE DEF SessionTypeOK, RowsTypeOK, Usages, States, sessionVars, meterVars, serverVars,
            switchVars, requestVars
<1>1. CASE StartPoll
  BY <1>1 DEF StartPoll, PendingRows
<1>2. CASE FileStatuses
  BY <1>2 DEF FileStatuses, LoseAnswer
<1>3. CASE ShowStatuses
  <2>1. row' \in [Row -> States \cup {"gone"}]
    BY <1>3 DEF ShowStatuses, Updated
  <2>2. enabled' \subseteq Row
    BY <1>3 DEF ShowStatuses
  <2> QED BY <1>3, <2>1, <2>2 DEF ShowStatuses
<1>4. CASE PollFails
  BY <1>4 DEF PollFails
<1> QED BY <1>1, <1>2, <1>3, <1>4

LEMMA ItemTypes ==
  ASSUME SessionTypeOK, RowsTypeOK, NEW f \in Row,
         \/ DecideScan(f) \/ DeleteElsewhere(f) \/ Toggle(f) \/ SettleSwitch(f)
         \/ SubmitDelete(f) \/ SettleDelete(f)
  PROVE  SessionTypeOK' /\ RowsTypeOK' /\ lost' >= lost
<1> USE DEF SessionTypeOK, RowsTypeOK, Usages, States, Answers, sessionVars, meterVars,
            serverVars, switchVars, requestVars, pollVars
<1>1. CASE DecideScan(f)
  BY <1>1 DEF DecideScan
<1>2. CASE DeleteElsewhere(f)
  BY <1>2 DEF DeleteElsewhere, Remove, ChangeUsage
<1>3. CASE Toggle(f)
  BY <1>3 DEF Toggle
<1>4. CASE SettleSwitch(f)
  BY <1>4 DEF SettleSwitch, FollowRedirect
<1>5. CASE SubmitDelete(f)
  BY <1>5 DEF SubmitDelete
<1>6. CASE SettleDelete(f)
  BY <1>6 DEF SettleDelete, FollowRedirect, RefreshStorageUsage
<1> QED BY <1>1, <1>2, <1>3, <1>4, <1>5, <1>6

LEMMA ServerTypes ==
  ASSUME SessionTypeOK, RowsTypeOK, NEW f \in Row,
         NEW answer \in Answers, NEW applied \in BOOLEAN,
         ChangePermission(f, answer, applied) \/ Delete(f, answer, applied)
  PROVE  SessionTypeOK' /\ RowsTypeOK' /\ lost' >= lost
<1> USE DEF SessionTypeOK, RowsTypeOK, Usages, States, Answers, sessionVars, meterVars,
            serverVars, switchVars, requestVars, pollVars
<1>1. ASSUME Answered(answer, applied)
      PROVE  lost' \in 0..MaxLost /\ lost' >= lost
  BY <1>1 DEF Answered, LoseAnswer
<1>2. CASE ChangePermission(f, answer, applied)
  BY <1>1, <1>2 DEF ChangePermission
<1>3. CASE Delete(f, answer, applied)
  BY <1>1, <1>3 DEF Delete, Remove, ChangeUsage
<1> QED BY <1>2, <1>3

\* Every step of the page keeps the types, and requests are only lost, never
\* found again.
LEMMA StepTypes ==
  ASSUME TypeOK, UploadInv, Next
  PROVE  TypeOK' /\ lost' >= lost
<1>1. CASE (SessionStep \/ ChangeVisibility) /\ UNCHANGED <<uploadVars, rowVars>>
  <2>1. SessionTypeOK' /\ lost' >= lost
    BY <1>1, SessionTypes DEF TypeOK
  <2>2. UploadTypeOK'
    BY <1>1 DEF TypeOK, UploadTypeOK, uploadVars, formVars, workerVars, storeVars
  <2>3. RowsTypeOK'
    BY <1>1 DEF TypeOK, RowsTypeOK, rowVars, serverVars, switchVars, pollVars, requestVars
  <2> QED BY <2>1, <2>2, <2>3 DEF TypeOK
<1>2. CASE UploadStep /\ UNCHANGED rowVars
  <2>1. SessionTypeOK' /\ UploadTypeOK' /\ lost' >= lost
    BY <1>2, UploadAnswerTypes, UploadPageTypes
  <2>2. RowsTypeOK'
    BY <1>2 DEF TypeOK, RowsTypeOK, rowVars, serverVars, switchVars, pollVars, requestVars
  <2> QED BY <2>1, <2>2 DEF TypeOK
<1>3. CASE RowStep /\ UNCHANGED uploadVars
  <2>1. SessionTypeOK' /\ RowsTypeOK' /\ lost' >= lost
    BY <1>3, PollTypes, ItemTypes, ServerTypes DEF TypeOK, RowStep
  <2>2. UploadTypeOK'
    BY <1>3 DEF TypeOK, UploadTypeOK, uploadVars, formVars, workerVars, storeVars
  <2> QED BY <2>1, <2>2 DEF TypeOK
<1> QED BY <1>1, <1>2, <1>3 DEF Next, ChangeVisibilityOfTimers

----------------------------------------------------------------------------
(***************************************************************************)
(* The batch.                                                              *)
(***************************************************************************)

LEMMA UploadInvFramed ==
  ASSUME TypeOK, TypeOK', UploadInv, UNCHANGED uploadVars, lost' >= lost
  PROVE  UploadInv'
<1>1. CopiesCounted'
  BY DEF TypeOK, SessionTypeOK, UploadTypeOK, UploadInv, CopiesCounted, Once, uploadVars,
         formVars, workerVars, storeVars
<1>2. SuccessIsStored' /\ BatchShared'
  BY DEF UploadInv, SuccessIsStored, BatchShared, InFlight, uploadVars, formVars, workerVars,
         storeVars
<1> QED BY <1>1, <1>2 DEF UploadInv

LEMMA AnswerKeepsBatch ==
  ASSUME TypeOK, TypeOK', UploadInv, NEW f \in Pick, ServerStep(f)
  PROVE  UploadInv'
<1> USE DEF TypeOK, SessionTypeOK, UploadTypeOK, Errors, Successes, sessionVars, meterVars,
            formVars, storeVars
<1>1. /\ request[f] = "sent" /\ f \notin completed
      /\ \E answer \in Errors \cup Successes :
           request' = [request EXCEPT ![f] = answer]
      /\ UNCHANGED <<selection, uploading, batch, queue, completed, firstError>>
  BY DEF ServerStep, UploadAdmitted, UploadRefused, UploadLost, Answer, Gate, UploadInv,
         BatchShared, InFlight
<1>2. BatchShared'
  BY <1>1 DEF UploadInv, BatchShared, InFlight
<1>3. SuccessIsStored'
  <2>1. CASE UploadAdmitted(f)
    BY <1>1, <2>1 DEF UploadInv, SuccessIsStored, UploadAdmitted, Store, Answer
  <2>2. CASE UploadRefused(f)
    BY <1>1, <2>2 DEF UploadInv, SuccessIsStored, UploadRefused, Gate, Answer
  <2>3. CASE UploadLost(f)
    BY <1>1, <2>3 DEF UploadInv, SuccessIsStored, UploadLost, Store, Answer
  <2> QED BY <2>1, <2>2, <2>3 DEF ServerStep
<1>4. CopiesCounted'
  <2>1. CASE UploadAdmitted(f)
    BY <1>1, <2>1 DEF UploadInv, CopiesCounted, Once, UploadAdmitted, Store, Answer
  <2>2. CASE UploadRefused(f)
    BY <1>1, <2>2 DEF UploadInv, CopiesCounted, Once, UploadRefused, Gate, Answer
  <2>3. CASE UploadLost(f)
    BY <1>1, <2>3 DEF UploadInv, CopiesCounted, Once, UploadLost, LoseAnswer, Store, Answer
  <2> QED BY <2>1, <2>2, <2>3 DEF ServerStep
<1> QED BY <1>2, <1>3, <1>4 DEF UploadInv

LEMMA HandlingKeepsCopies ==
  ASSUME TypeOK, TypeOK', UploadInv, NEW f \in Pick, HandleAnswer(f),
         \/ request' = [request EXCEPT ![f] = "none"]
         \/ \E next \in queue : request' = [request EXCEPT ![f] = "none", ![next] = "sent"]
  PROVE  CopiesCounted' /\ SuccessIsStored'
<1> USE DEF TypeOK, SessionTypeOK, UploadTypeOK, Errors, Successes
<1>1. \A g \in Pick : request'[g] = "created" => request[g] = "created" /\ g # f
  OBVIOUS
<1>2. /\ request[f] \in Successes \cup Errors
      /\ completed' = IF request[f] \in Successes THEN completed \cup {f} ELSE completed
      /\ doubtful' = IF request[f] = "login" THEN doubtful \cup {f} ELSE doubtful
      /\ UNCHANGED <<copies, lost>>
  BY DEF HandleAnswer, Arrived, Completed, Mislead
<1>3. \A g \in Pick : request[g] = "created" => request'[g] = "created" \/ g = f
  BY DEF UploadInv, BatchShared, InFlight
<1>4. CopiesCounted'
  BY <1>1, <1>2, <1>3 DEF UploadInv, CopiesCounted, Once
<1>5. SuccessIsStored'
  BY <1>1, <1>2 DEF UploadInv, SuccessIsStored
<1> QED BY <1>4, <1>5

LEMMA PageKeepsBatch ==
  ASSUME TypeOK, TypeOK', UploadInv, UploadStep, ~ \E f \in Pick : ServerStep(f)
  PROVE  UploadInv'
<1> USE DEF TypeOK, UploadTypeOK
<1>1. ASSUME NEW files \in SUBSET (wanted \ completed), Choose(files)
      PROVE  UploadInv'
  <2>1. CopiesCounted' /\ SuccessIsStored'
    BY <1>1 DEF UploadInv, CopiesCounted, SuccessIsStored, Once, Choose, sessionVars,
                workerVars, storeVars
  <2>2. BatchShared'
    BY <1>1 DEF UploadInv, BatchShared, InFlight, Choose, workerVars
  <2> QED BY <2>1, <2>2 DEF UploadInv
<1>2. ASSUME NEW first \in SUBSET selection, Submit(first)
      PROVE  UploadInv'
  <2>1. request = [f \in Pick |-> "none"] /\ selection \cap completed = {}
    BY <1>2 DEF UploadInv, BatchShared, InFlight, Submit
  <2>2. request' = [f \in Pick |-> IF f \in first THEN "sent" ELSE "none"]
    BY <1>2 DEF Submit
  <2>3. CopiesCounted' /\ SuccessIsStored'
    BY <1>2, <2>1, <2>2 DEF UploadInv, CopiesCounted, SuccessIsStored, Once, Submit,
                storeVars, sessionVars
  <2>4. BatchShared'
    BY <1>2, <2>1, <2>2 DEF BatchShared, InFlight, Submit
  <2> QED BY <2>3, <2>4 DEF UploadInv
<1>3. ASSUME NEW f \in Pick, NEW next \in queue, TakeNext(f, next)
      PROVE  UploadInv'
  <2>1. CopiesCounted' /\ SuccessIsStored'
    BY <1>3, HandlingKeepsCopies DEF TakeNext
  <2>2. /\ f # next /\ InFlight' = (InFlight \ {f}) \cup {next} /\ f \in InFlight
        /\ queue' = queue \ {next} /\ completed' = completed \cup {f}
        /\ UNCHANGED <<selection, uploading, batch, firstError>>
    BY <1>3 DEF TakeNext, HandleAnswer, Completed, Arrived, InFlight, UploadInv, BatchShared,
                Successes, Errors
  <2>3. BatchShared'
    BY <2>2 DEF UploadInv, BatchShared
  <2> QED BY <2>1, <2>3 DEF UploadInv
<1>4. ASSUME NEW f \in Pick, WorkerReturns(f)
      PROVE  /\ CopiesCounted' /\ SuccessIsStored'
             /\ f \in InFlight /\ InFlight' = InFlight \ {f}
             /\ completed' = Completed(f)
  <2>1. CopiesCounted' /\ SuccessIsStored'
    BY <1>4, HandlingKeepsCopies DEF WorkerReturns, Answer
  <2>2. f \in InFlight /\ InFlight' = InFlight \ {f} /\ completed' = Completed(f)
    BY <1>4 DEF WorkerReturns, HandleAnswer, Arrived, Answer, InFlight, Successes, Errors
  <2> QED BY <2>1, <2>2
<1>5. ASSUME NEW f \in Pick, OthersReturn(f)
      PROVE  UploadInv'
  <2>1. CopiesCounted' /\ SuccessIsStored' /\ f \in InFlight /\ InFlight' = InFlight \ {f}
    BY <1>4, <1>5 DEF OthersReturn
  <2>2. /\ completed' = Completed(f) /\ UNCHANGED <<selection, uploading, batch, queue>>
        /\ firstError' = FirstError(f)
        /\ request[f] \in Errors \cup Successes
    BY <1>4, <1>5 DEF OthersReturn, WorkerReturns, HandleAnswer, Arrived
  <2>3. BatchShared'
    BY <2>1, <2>2 DEF UploadInv, BatchShared, Completed, FirstError, Errors, Successes
  <2> QED BY <2>1, <2>3 DEF UploadInv
<1>6. ASSUME NEW f \in Pick, LastReturns(f)
      PROVE  UploadInv'
  <2>1. /\ CopiesCounted' /\ SuccessIsStored' /\ InFlight' = {} /\ completed' = Completed(f)
        /\ InFlight = {f}
    BY <1>4, <1>6 DEF LastReturns
  <2>2. request[f] \in Errors \cup Successes
    BY <1>6 DEF LastReturns, WorkerReturns, HandleAnswer, Arrived
  <2>3. CASE selection' = batch \ Completed(f) /\ uploading' = FALSE /\ queue' = {}
    BY <2>1, <2>2, <2>3 DEF UploadInv, BatchShared
  <2>4. CASE /\ FirstError(f) = "none"
             /\ UNCHANGED <<selection, uploading, batch, queue, firstError>>
    <3>1. uploading /\ batch \subseteq queue \cup {f} \cup completed /\ f \in Completed(f)
      BY <2>1, <2>2, <2>4 DEF UploadInv, BatchShared, FirstError, Completed, Errors, Successes
    <3>2. queue = {}
      BY <1>6, <2>4, <3>1 DEF LastReturns, WorkerReturns, FirstError, Errors
    <3> QED BY <2>1, <2>4, <3>1, <3>2 DEF UploadInv, BatchShared, Completed
  <2>5. CASE /\ firstError' = "unauthorized"
             /\ UNCHANGED <<selection, uploading, batch, queue>>
    BY <2>1, <2>2, <2>5 DEF UploadInv, BatchShared, Completed
  <2> QED BY <1>6, <2>3, <2>4, <2>5 DEF LastReturns, RemainingFiles
<1> QED BY <1>1, <1>2, <1>3, <1>5, <1>6 DEF UploadStep, ServerStep

----------------------------------------------------------------------------
(***************************************************************************)
(* The rows.                                                               *)
(***************************************************************************)

LEMMA RowInvFramed ==
  ASSUME RowInv, UNCHANGED rowVars
  PROVE  RowInv'
BY DEF RowInv, OneSwitchRequest, PendingIsIdle, GoneIsGone, SwitchTells, rowVars, serverVars,
       switchVars, pollVars, requestVars

LEMMA PollKeepsRows ==
  ASSUME RowsTypeOK, RowInv, StartPoll \/ FileStatuses \/ ShowStatuses \/ PollFails
  PROVE  RowInv'
<1> USE DEF RowsTypeOK, States, serverVars, switchVars, requestVars
<1>1. GoneIsGone' /\ SwitchTells'
  <2>1. /\ UNCHANGED <<status, shared, checked, switching, deleting, misled>>
        /\ \A f \in Row : row'[f] = "gone" => row[f] = "gone"
    BY DEF StartPoll, FileStatuses, ShowStatuses, PollFails, Updated
  <2> QED BY <2>1 DEF RowInv, GoneIsGone, SwitchTells
<1>2. OneSwitchRequest' /\ PendingIsIdle'
  <2>1. CASE ShowStatuses
    BY <2>1 DEF ShowStatuses, Updated, RowInv, OneSwitchRequest, PendingIsIdle
  <2>2. CASE StartPoll \/ FileStatuses \/ PollFails
    BY <2>2 DEF StartPoll, FileStatuses, PollFails, PendingRows, RowInv, OneSwitchRequest,
                PendingIsIdle
  <2> QED BY <2>1, <2>2
<1> QED BY <1>1, <1>2 DEF RowInv

LEMMA ServerKeepsRows ==
  ASSUME RowsTypeOK, RowInv, NEW f \in Row, DecideScan(f) \/ DeleteElsewhere(f)
  PROVE  RowInv'
<1> USE DEF RowsTypeOK, States, switchVars, pollVars, requestVars
<1>1. OneSwitchRequest' /\ PendingIsIdle'
  BY DEF DecideScan, DeleteElsewhere, RowInv, OneSwitchRequest, PendingIsIdle
<1>2. GoneIsGone' /\ SwitchTells'
  <2>1. /\ \A g \in Row : status[g] = "gone" => status'[g] = "gone"
        /\ \A g \in Row : status'[g] # "gone" =>
             status[g] # "gone" /\ (g \in shared' <=> g \in shared)
        /\ UNCHANGED <<row, checked, switching, deleting, misled>>
    BY DEF DecideScan, DeleteElsewhere, Remove
  <2> QED BY <2>1 DEF RowInv, GoneIsGone, SwitchTells
<1> QED BY <1>1, <1>2 DEF RowInv

LEMMA SwitchKeepsRows ==
  ASSUME RowsTypeOK, RowInv, NEW f \in Row, Toggle(f) \/ SettleSwitch(f)
  PROVE  RowInv'
<1> USE DEF RowsTypeOK, States, Answers, serverVars, pollVars
<1>1. GoneIsGone'
  BY DEF Toggle, SettleSwitch, RowInv, GoneIsGone
<1>2. CASE Toggle(f)
  BY <1>1, <1>2 DEF Toggle, RowInv, OneSwitchRequest, PendingIsIdle, SwitchTells
<1>3. CASE SettleSwitch(f)
  <2>1. OneSwitchRequest' /\ PendingIsIdle'
    BY <1>3 DEF SettleSwitch, RowInv, OneSwitchRequest, PendingIsIdle
  <2>2. SwitchTells'
    BY <1>3 DEF SettleSwitch, ResponseOk, RowInv, SwitchTells
  <2> QED BY <1>1, <2>1, <2>2 DEF RowInv
<1> QED BY <1>2, <1>3

LEMMA DeleteFormKeepsRows ==
  ASSUME RowsTypeOK, RowInv, NEW f \in Row, SubmitDelete(f) \/ SettleDelete(f)
  PROVE  RowInv'
<1> USE DEF RowsTypeOK, States, Answers, serverVars, switchVars, pollVars
<1>1. OneSwitchRequest' /\ PendingIsIdle' /\ SwitchTells'
  BY DEF SubmitDelete, SettleDelete, RowInv, OneSwitchRequest, PendingIsIdle, SwitchTells
<1>2. GoneIsGone'
  BY DEF SubmitDelete, SettleDelete, ResponseOk, RowInv, GoneIsGone
<1> QED BY <1>1, <1>2 DEF RowInv

LEMMA AnswerKeepsRows ==
  ASSUME RowsTypeOK, RowInv, NEW f \in Row,
         NEW answer \in Answers, NEW applied \in BOOLEAN,
         ChangePermission(f, answer, applied) \/ Delete(f, answer, applied)
  PROVE  RowInv'
<1> USE DEF RowsTypeOK, States, Answers, serverVars, switchVars, pollVars, requestVars
<1>1. OneSwitchRequest' /\ PendingIsIdle'
  BY DEF ChangePermission, Delete, RowInv, OneSwitchRequest, PendingIsIdle
<1>2. CASE ChangePermission(f, answer, applied)
  <2>1. GoneIsGone'
    BY <1>2 DEF ChangePermission, RowInv, GoneIsGone
  <2>2. SwitchTells'
    BY <1>2 DEF ChangePermission, ResponseOk, RowInv, SwitchTells
  <2> QED BY <1>1, <2>1, <2>2 DEF RowInv
<1>3. CASE Delete(f, answer, applied)
  <2>1. GoneIsGone'
    BY <1>3 DEF Delete, Remove, ResponseOk, RowInv, GoneIsGone
  <2>2. SwitchTells'
    BY <1>3 DEF Delete, Remove, RowInv, SwitchTells
  <2> QED BY <1>1, <2>1, <2>2 DEF RowInv
<1> QED BY <1>2, <1>3

LEMMA RowStepKeepsRows ==
  ASSUME RowsTypeOK, RowInv, RowStep
  PROVE  RowInv'
<1>1. ASSUME NEW f \in Row, NEW answer \in Answers, NEW applied \in BOOLEAN,
             ChangePermission(f, answer, applied) \/ Delete(f, answer, applied)
      PROVE  RowInv'
  BY <1>1, AnswerKeepsRows
<1>2. ASSUME NEW f \in Row, DecideScan(f) \/ DeleteElsewhere(f) \/ Toggle(f)
             \/ SettleSwitch(f) \/ SubmitDelete(f) \/ SettleDelete(f)
      PROVE  RowInv'
  BY <1>2, ServerKeepsRows, SwitchKeepsRows, DeleteFormKeepsRows
<1> QED BY <1>1, <1>2, PollKeepsRows DEF RowStep

----------------------------------------------------------------------------
(***************************************************************************)
(* The inductive invariant and what it implies.                            *)
(***************************************************************************)

LEMMA InitInv ==
  ASSUME Init
  PROVE  IInv
<1>1. SessionInit /\ UploadInit /\ RowsInit
  BY DEF Init
<1>2. SessionTypeOK
  <2>1. hidden \in BOOLEAN
    BY <1>1, Zenon DEF SessionInit
  <2> QED BY <1>1, <2>1 DEF SessionInit, SessionTypeOK, Usages
<1>3. UploadTypeOK
  <2>1. uploading \in BOOLEAN
    BY <1>1, Zenon DEF UploadInit
  <2>2. copies \in [Pick -> 0..(MaxLost + 1)]
    BY <1>1 DEF UploadInit
  <2> QED BY <1>1, <2>1, <2>2 DEF UploadInit, UploadTypeOK
<1>4. RowsTypeOK
  BY <1>1 DEF RowsInit, RowsTypeOK, States, PendingRows
<1>5. UploadInv
  BY <1>1 DEF SessionInit, UploadInit, UploadInv, CopiesCounted, Once, SuccessIsStored,
              BatchShared, InFlight
<1>6. RowInv
  BY <1>1 DEF RowsInit, RowInv, OneSwitchRequest, PendingIsIdle, GoneIsGone, SwitchTells
<1> QED BY <1>2, <1>3, <1>4, <1>5, <1>6 DEF IInv, TypeOK

LEMMA NextInv ==
  ASSUME IInv, Next
  PROVE  IInv'
<1>1. TypeOK' /\ lost' >= lost
  BY StepTypes DEF IInv
<1>2. UploadInv'
  <2>1. CASE UNCHANGED uploadVars
    BY <1>1, <2>1, UploadInvFramed DEF IInv
  <2>2. CASE UploadStep
    BY <1>1, <2>2, AnswerKeepsBatch, PageKeepsBatch DEF IInv
  <2> QED BY <2>1, <2>2 DEF Next, ChangeVisibilityOfTimers
<1>3. RowInv'
  <2>1. CASE UNCHANGED rowVars
    BY <2>1, RowInvFramed DEF IInv
  <2>2. CASE RowStep
    BY <2>2, RowStepKeepsRows DEF IInv, TypeOK
  <2> QED BY <2>1, <2>2 DEF Next, ChangeVisibilityOfTimers
<1> QED BY <1>1, <1>2, <1>3 DEF IInv

\* Nothing changes: no request, no answer, no timer.
LEMMA StutterInv ==
  ASSUME IInv, UNCHANGED vars
  PROVE  IInv'
<1>1. UNCHANGED <<uploadVars, rowVars, sessionVars, meterVars>>
  BY DEF vars
<1>2. TypeOK'
  BY <1>1 DEF IInv, TypeOK, SessionTypeOK, UploadTypeOK, RowsTypeOK, uploadVars, formVars,
     workerVars, storeVars, rowVars, serverVars, switchVars, pollVars, requestVars,
     sessionVars, meterVars
<1>3. UploadInv'
  <2>1. lost' = lost
    BY <1>1 DEF sessionVars
  <2> QED BY <1>1, <1>2, <2>1, UploadInvFramed DEF IInv, TypeOK, SessionTypeOK
<1>4. RowInv'
  BY <1>1, RowInvFramed DEF IInv
<1> QED BY <1>2, <1>3, <1>4 DEF IInv

\* The invariant of the page: its types, what its batch has done, and what its
\* rows may still be about to do.
THEOREM PageInvariant == Spec => []IInv
<1>1. Init => IInv
  BY InitInv
<1>2. IInv /\ [Next]_vars => IInv'
  BY NextInv, StutterInv
<1> QED BY <1>1, <1>2, PTL DEF Spec

\* TypeOK, for any number of files, rows, workers and lost requests.
THEOREM TypeCorrect == Spec => []TypeOK
<1>1. IInv => TypeOK
  BY DEF IInv
<1> QED BY <1>1, PageInvariant, PTL

\* However many workers share a batch and however often what remains of it is
\* sent again, dashboard.js stores no file twice, unless an answer was lost.
THEOREM OneCopyHolds == Spec => []OneCopy
<1>1. IInv => OneCopy
  BY DEF IInv, TypeOK, UploadTypeOK, UploadInv, CopiesCounted, Once, OneCopy
<1> QED BY <1>1, PageInvariant, PTL

\* However switches, deletions and polls of any number of rows overlap, the
\* page shows what the server has.
THEOREM PageAgreesHolds == Spec => []PageAgrees
<1>1. IInv => PageAgrees
  BY DEF IInv, RowInv, GoneIsGone, SwitchTells, PageAgrees
<1> QED BY <1>1, PageInvariant, PTL

\* NothingForgotten: the last worker unlocks the form with what remains, or
\* leads to the message of success once every file was taken and answered.
THEOREM NothingForgottenHolds == Spec => NothingForgotten
<1>1. ASSUME IInv, IInv', Next, uploading, ~ uploading' \/ place' = "done"
      PROVE  batch \subseteq (Stored \cup doubtful' \cup selection')
  <2> USE DEF IInv, TypeOK, UploadTypeOK
  <2>1. PICK f \in Pick : LastReturns(f)
    BY <1>1 DEF Next, ChangeVisibilityOfTimers, UploadStep, Choose, Submit, UploadAdmitted,
       UploadRefused, UploadLost, TakeNext, OthersReturn, HandleAnswer, uploadVars, formVars
  <2>2. /\ request[f] \in Errors \cup Successes /\ completed' = Completed(f)
        /\ copies' = copies /\ InFlight = {f}
    BY <2>1 DEF LastReturns, WorkerReturns, HandleAnswer, Arrived
  <2>3. completed' \subseteq Stored \cup doubtful'
    BY <1>1, <2>2 DEF UploadInv, SuccessIsStored, Stored
  <2>4. CASE selection' = batch \ Completed(f)
    BY <2>2, <2>3, <2>4
  <2>5. CASE FirstError(f) = "none"
    <3>1. batch \subseteq queue \cup {f} \cup completed /\ f \in Completed(f)
      BY <1>1, <2>2, <2>5 DEF UploadInv, BatchShared, FirstError, Completed, Errors, Successes
    <3>2. queue = {}
      BY <2>1, <2>5, <3>1 DEF LastReturns, WorkerReturns, FirstError, Errors
    <3> QED BY <2>2, <2>3, <3>1, <3>2 DEF Completed
  <2>6. ~ (place' = "login" /\ uploading' = uploading)
    BY <1>1
  <2> QED BY <2>1, <2>4, <2>5, <2>6 DEF LastReturns, RemainingFiles
<1>2. IInv /\ IInv' /\ [Next]_vars
        => [uploading /\ (~ uploading' \/ place' = "done")
              => batch \subseteq (Stored \cup doubtful' \cup selection')]_vars
  BY <1>1
<1> QED BY <1>2, PageInvariant, PTL DEF Spec, NothingForgotten
=============================================================================

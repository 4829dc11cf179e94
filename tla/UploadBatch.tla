---------------------------- MODULE UploadBatch ----------------------------
(***************************************************************************)
(* The upload form of the dashboard: a selection of files is uploaded by a *)
(* few asynchronous workers, which share the next index and the first      *)
(* error.  The script runs to its next await without interruption, so a    *)
(* step is the arrival of an answer with all that follows from it.         *)
(***************************************************************************)
EXTENDS Session, FiniteSets

CONSTANTS
  Pick,        \* files the user may have to upload
  MaxWorkers   \* uploads at a time

ASSUME WorkersAssumption == MaxWorkers \in Nat \ {0}

VARIABLES
  wanted,      \* those the user wants to upload from this page
  place,       \* the page: "dashboard", or where the batch has led it
  selection,   \* fileInput.files
  uploading,   \* form.dataset.uploading: the form is locked
  batch,       \* selectedFiles of the batch, and of the one that led away
  queue,       \* files of the batch that no worker has taken
  request,     \* the request of each file in flight, once answered its answer
  completed,   \* completedFiles of all batches: no file is in a second one
               \* once it is in here
  firstError,
  copies,      \* how often the server has stored each file
  doubtful     \* stored files whose answer was lost, and files that were
               \* reported as uploaded by the answer to a redirect

formVars   == <<wanted, place, selection, uploading, batch>>
workerVars == <<queue, request, completed, firstError>>
storeVars  == <<copies, doubtful>>
uploadVars == <<formVars, workerVars, storeVars>>

Errors    == {"unauthorized", "limit", "http", "network"}
Successes == {"created", "login"}

UploadTypeOK ==
  /\ wanted \subseteq Pick
  /\ place \in {"dashboard", "done", "login"}
  /\ selection \subseteq Pick
  /\ uploading \in BOOLEAN
  /\ batch \subseteq Pick
  /\ queue \subseteq batch
  /\ request \in [Pick -> {"none", "sent"} \cup Errors \cup Successes]
  /\ completed \subseteq Pick
  /\ firstError \in {"none"} \cup Errors
  /\ copies \in [Pick -> 0..(MaxLost + 1)]
  /\ doubtful \subseteq Pick

UploadInit ==
  /\ wanted \in SUBSET Pick
  /\ place = "dashboard"
  /\ selection = {}
  /\ uploading = FALSE
  /\ batch = {}
  /\ queue = {}
  /\ request = [f \in Pick |-> "none"]
  /\ completed = {}
  /\ firstError = "none"
  /\ copies = [f \in Pick |-> 0]
  /\ doubtful = {}

InFlight == {f \in Pick : request[f] # "none"}

Smaller(a, b) == IF a < b THEN a ELSE b

----------------------------------------------------------------------------

\* The user chooses files, but none that the page has shown as uploaded.  What
\* is chosen while the form is locked is never looked at.
Choose(files) ==
  /\ place = "dashboard"
  /\ ~ uploading
  /\ selection' = files
  /\ UNCHANGED <<sessionVars, meterVars, wanted, place, uploading, batch, workerVars,
                 storeVars>>

\* Each of min(3, n) workers sends its first file before the handler yields.
\* Which files come first is the order of the selection.
Submit(first) ==
  /\ place = "dashboard"
  /\ ~ uploading
  /\ selection # {}
  /\ first \subseteq selection
  /\ Cardinality(first) = Smaller(MaxWorkers, Cardinality(selection))
  /\ uploading' = TRUE
  /\ batch' = selection
  /\ queue' = selection \ first
  /\ request' = [f \in Pick |-> IF f \in first THEN "sent" ELSE "none"]
  /\ UNCHANGED <<sessionVars, meterVars, wanted, place, selection, completed,
                 firstError, storeVars>>

Store(f) == copies' = [copies EXCEPT ![f] = @ + 1]

Answer(f, answer) == request' = [request EXCEPT ![f] = answer]

\* The web handler passes the answer of the API on.
UploadAdmitted(f) ==
  /\ request[f] = "sent"
  /\ Gate = "admitted"
  /\ \/ Store(f) /\ ChangeUsage /\ Answer(f, "created")
     \/ \E error \in {"limit", "http"} :
          Answer(f, error) /\ UNCHANGED <<copies, meterVars>>
  /\ UNCHANGED <<sessionVars, formVars, queue, completed, firstError, doubtful>>

\* 401, or the login page: requireSession does not tell a script from a
\* navigation, and the browser follows its redirect to a page with status 200.
UploadRefused(f) ==
  /\ request[f] = "sent"
  /\ Gate # "admitted"
  /\ Answer(f, Gate)
  /\ UNCHANGED <<sessionVars, meterVars, formVars, queue, completed, firstError,
                 storeVars>>

\* The answer is lost, the file stored or not.
UploadLost(f) ==
  /\ request[f] = "sent"
  /\ LoseAnswer
  /\ Answer(f, "network")
  /\ \/ /\ Gate = "admitted"
        /\ Store(f)
        /\ ChangeUsage
        /\ doubtful' = doubtful \cup {f}
     \/ UNCHANGED <<storeVars, meterVars>>
  /\ UNCHANGED <<session, hidden, formVars, queue, completed, firstError>>

----------------------------------------------------------------------------

\* Mutant: the error event of the request is not handled.
ArrivedWithoutErrors == {f \in Pick : request[f] \in (Successes \cup Errors) \ {"network"}}

Arrived == {f \in Pick : request[f] \in Successes \cup Errors}

\* completedFiles and firstError once the answer for f is handled.
Completed(f)  == IF request[f] \in Successes THEN completed \cup {f} ELSE completed
FirstError(f) == IF request[f] \in Errors /\ firstError = "none"
                 THEN request[f] ELSE firstError

\* A 401 of the web handler clears the cookies, those of a new session too.
ClearCookies(f) ==
  IF request[f] = "unauthorized" THEN session' = "none" ELSE UNCHANGED session

\* A success that came from the login page misleads the script.
Mislead(f) ==
  doubtful' = IF request[f] = "login" THEN doubtful \cup {f} ELSE doubtful

HandleAnswer(f) ==
  /\ f \in Arrived
  /\ completed' = Completed(f)
  /\ ClearCookies(f)
  /\ Mislead(f)
  /\ UNCHANGED <<lost, hidden, shown, wanted, copies>>

\* Mutant: the index is advanced after the upload, not before.
TakeNextLate(f, next) ==
  /\ HandleAnswer(f)
  /\ request[f] \in Successes
  /\ firstError = "none"
  /\ next \in queue
  /\ request' = [request EXCEPT ![f] = "none", ![next] = "sent"]
  /\ queue' = IF request[f] = "created" THEN queue \ {f} ELSE queue
  /\ UNCHANGED <<usage, place, selection, uploading, batch, firstError>>

\* The worker takes the next file if no worker has failed.
TakeNext(f, next) ==
  /\ HandleAnswer(f)
  /\ request[f] \in Successes
  /\ firstError = "none"
  /\ next \in queue
  /\ request' = [request EXCEPT ![f] = "none", ![next] = "sent"]
  /\ queue' = queue \ {next}
  /\ UNCHANGED <<usage, place, selection, uploading, batch, firstError>>

WorkerReturns(f) ==
  /\ HandleAnswer(f)
  /\ request[f] \in Errors \/ firstError # "none" \/ queue = {}
  /\ Answer(f, "none")

OthersReturn(f) ==
  /\ WorkerReturns(f)
  /\ InFlight # {f}
  /\ firstError' = FirstError(f)
  /\ UNCHANGED <<usage, place, selection, uploading, batch, queue>>

\* Mutant: the files that no worker has taken are what remains.
UntakenFiles(f) == queue

RemainingFiles(f) == batch \ Completed(f)

\* Promise.all is settled: "Done!" and a redirect, the login page with the
\* form left locked, or a selection of what remains.
LastReturns(f) ==
  /\ WorkerReturns(f)
  /\ InFlight = {f}
  /\ \/ /\ FirstError(f) = "none"
        /\ place' = "done"
        /\ UNCHANGED <<usage, selection, uploading, batch, queue, firstError>>
     \/ /\ FirstError(f) = "unauthorized"
        /\ place' = "login"
        /\ firstError' = "unauthorized"
        /\ RefreshStorageUsage
        /\ UNCHANGED <<selection, uploading, batch, queue>>
     \/ /\ FirstError(f) \notin {"none", "unauthorized"}
        /\ selection' = RemainingFiles(f)
        /\ uploading' = FALSE
        /\ batch' = {}
        /\ queue' = {}
        /\ firstError' = "none"
        /\ RefreshStorageUsage
        /\ UNCHANGED place

UploadStep ==
  \/ \E files \in SUBSET (wanted \ completed) : Choose(files)
  \/ \E first \in SUBSET selection : Submit(first)
  \/ \E f \in Pick : \/ UploadAdmitted(f)
                     \/ UploadRefused(f)
                     \/ UploadLost(f)
                     \/ \E next \in queue : TakeNext(f, next)
                     \/ OthersReturn(f)
                     \/ LastReturns(f)
=============================================================================

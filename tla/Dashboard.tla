----------------------------- MODULE Dashboard -----------------------------
(***************************************************************************)
(* A dashboard page: the upload form, the rows and the storage meter work  *)
(* at the same time under one session, which any of them may find lapsed.  *)
(***************************************************************************)
EXTENDS UploadBatch, FileRows

CONSTANT
  Pages    \* the pages looked at: with how many rows, with how many files to
           \* upload, and whether with a meter

ASSUME PagesAssumption == Pages \subseteq Nat \X Nat \X BOOLEAN

vars == <<sessionVars, meterVars, uploadVars, rowVars>>

TypeOK ==
  /\ SessionTypeOK
  /\ UploadTypeOK
  /\ RowsTypeOK

Init ==
  /\ SessionInit
  /\ UploadInit
  /\ RowsInit
  /\ <<Cardinality({f \in Row : row[f] # "gone"}), Cardinality(wanted),
       usage # "absent">> \in Pages

\* Only the two polls look at the visibility.
ChangeVisibilityOfTimers ==
  /\ usage # "absent" \/ poll # "ended"
  /\ ChangeVisibility
  /\ UNCHANGED <<uploadVars, rowVars>>

\* Nothing happens on a page that the browser has left.
Next ==
  /\ place = "dashboard"
  /\ \/ SessionStep /\ UNCHANGED <<uploadVars, rowVars>>
     \/ ChangeVisibilityOfTimers
     \/ UploadStep /\ UNCHANGED rowVars
     \/ RowStep /\ UNCHANGED uploadVars

Spec == Init /\ [][Next]_vars

(***************************************************************************)
(* The server answers and the browser delivers, or reports an error; timers*)
(* fire.  Nobody has to use the page, to sign in or to keep it visible.    *)
(***************************************************************************)
OnPageStep(A) == place = "dashboard" /\ A

Fairness ==
  /\ WF_vars(OnPageStep(PollStorageUsage /\ UNCHANGED <<uploadVars, rowVars>>))
  /\ WF_vars(OnPageStep(StorageUsage /\ UNCHANGED <<uploadVars, rowVars>>))
  /\ WF_vars(OnPageStep(ShowStorageUsage /\ UNCHANGED <<uploadVars, rowVars>>))
  /\ WF_vars(OnPageStep(StartPoll /\ UNCHANGED uploadVars))
  /\ WF_vars(OnPageStep(FileStatuses /\ UNCHANGED uploadVars))
  /\ WF_vars(OnPageStep((ShowStatuses \/ PollFails) /\ UNCHANGED uploadVars))
  /\ WF_vars(OnPageStep(
       /\ \E f \in Pick : UploadAdmitted(f) \/ UploadRefused(f) \/ UploadLost(f)
       /\ UNCHANGED rowVars))
  /\ WF_vars(OnPageStep(
       /\ \E f \in Pick : (\E next \in queue : TakeNext(f, next))
                          \/ OthersReturn(f) \/ LastReturns(f)
       /\ UNCHANGED rowVars))

FairSpec == Spec /\ Fairness

----------------------------------------------------------------------------

Stored == {f \in Pick : copies[f] > 0}

\* A batch that ends, in whatever order its answers, errors and sign-outs
\* came, has stored each of its files or offers it again; only a redirect can
\* make it forget one, and an expired session gives all of it up.
NothingForgotten ==
  [][uploading /\ (~ uploading' \/ place' = "done")
       => batch \subseteq (Stored \cup doubtful' \cup selection')]_vars

\* Parallel workers and repeated batches store no file twice, unless the
\* answer to an upload was lost.
OneCopy == \A f \in Pick : copies[f] > 1 => f \in doubtful

\* The form is never locked for good: whatever happens to its requests, a
\* batch unlocks it or leaves the page.
BatchEnds == uploading ~> (~ uploading \/ place # "dashboard")

\* While switches, deletions, polls and deletions from another tab overlap,
\* the page shows what the server has, except where an answer was lost or a
\* redirect was taken for a success.
PageAgrees ==
  \A f \in Row \ misled :
    /\ row[f] = "gone" => status[f] = "gone"
    /\ row[f] # "gone" /\ status[f] # "gone" /\ switching[f] = "none"
         => (f \in checked <=> f \in shared)

\* A page that stays visible shows the end of every scan, whatever requests
\* fail meanwhile, unless it was signed out.
DecisionIsShown ==
  <>[] ~ hidden =>
    \A f \in Row :
      row[f] = "pending" /\ status[f] # "pending"
        ~> \/ row[f] # "pending" \/ status[f] = "gone"
           \/ poll = "expired" \/ place # "dashboard"

\* So does the meter catch up with every upload and deletion, although a
\* refresh asked for during another one is dropped.
MeterCatchesUp ==
  <>[] ~ hidden =>
    (shown = "outdated"
       ~> shown = "current" \/ usage = "expired" \/ place # "dashboard")

\* translations.json: "Done! Files uploaded: {count}".  Every file of a batch
\* that ends with this message has been stored.
DoneIsDone == place = "done" => batch \subseteq Stored
=============================================================================

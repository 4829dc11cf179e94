----------------------------- MODULE Downloads -----------------------------
(***************************************************************************)
(* Downloads of single files, by their owner or by visitors, next to all   *)
(* that happens to a file in FileLifecycle: the handler looks for the row  *)
(* and then opens the production object, without a lock on either.         *)
(***************************************************************************)
EXTENDS FileLifecycle

CONSTANT
  Visitor   \* requests to download a file

VARIABLES
  visit,    \* where each request is
  asked     \* the file its handler has found

visitVars    == <<visit, asked>>
downloadVars == <<vars, visitVars>>

VisitTypeOK ==
  /\ visit \in [Visitor -> {"new", "found", "served", "failed"}]
  /\ asked \in [Visitor -> File]

DownloadsInit ==
  /\ Init
  /\ visit = [v \in Visitor |-> "new"]
  /\ asked = [v \in Visitor |-> CHOOSE f \in File : TRUE]

Find(v, f) ==
  /\ visit[v] = "new"
  /\ visit' = [visit EXCEPT ![v] = "found"]
  /\ asked' = [asked EXCEPT ![v] = f]

\* Mutant: the status of an owned file is not looked at.
GetFileOfAnyStatus(v, f) ==
  /\ f \in Rows
  /\ Find(v, f)
  /\ UNCHANGED vars

\* The owner's request; any other status is answered with 409.
GetFile(v, f) ==
  /\ status[f] = "approved"
  /\ Find(v, f)
  /\ UNCHANGED vars

\* A visitor's request.
GetPublicFile(v, f) ==
  /\ isPublic[f] /\ status[f] = "approved"
  /\ Find(v, f)
  /\ UNCHANGED vars

\* streamFile: an object that is not there and a failed call are both
\* answered with 500.
DownloadFile(v) ==
  /\ visit[v] = "found"
  /\ \/ /\ visit' = [visit EXCEPT ![v] =
                       IF asked[v] \in production THEN "served" ELSE "failed"]
        /\ UNCHANGED faults
     \/ Fault("s3") /\ visit' = [visit EXCEPT ![v] = "failed"]
  /\ UNCHANGED <<asked, rowVars, bucketVars, uploadVars, ownerVars, workerVars>>

Visit ==
  \E v \in Visitor :
    \/ \E f \in File : GetFile(v, f) \/ GetPublicFile(v, f)
    \/ DownloadFile(v)

DownloadsNext == (Next /\ UNCHANGED visitVars) \/ Visit

DownloadsSpec == DownloadsInit /\ [][DownloadsNext]_downloadVars

----------------------------------------------------------------------------

\* A download whose file was found does not fail, whatever late workers,
\* rollbacks and retried scans do between the two reads, unless S3 fails or
\* the owner has deleted the file meanwhile.
DownloadSucceeds ==
  [][\A v \in Visitor :
       visit[v] = "found" /\ visit'[v] = "failed"
         => faults' > faults \/ asked[v] \notin Rows]_downloadVars
=============================================================================

----------------------------- MODULE ScanPolicy -----------------------------
(***************************************************************************)
(* The verdict of the scanner on one file: inspect, inspectPath for the    *)
(* file and for whatever archives in it contain, and the external tools    *)
(* that answer, fail, or are killed when the scan's deadline passes.  The  *)
(* walk stops at the first entry that does not pass.                       *)
(*                                                                         *)
(* A tool that works tells the truth about the entry it is given.  What    *)
(* matters of an entry is its kind (the MIME type) and one trait.  The     *)
(* budget of unpacked bytes is compared like that of files and left out.   *)
(***************************************************************************)
EXTENDS Integers, Sequences, FiniteSets

CONSTANTS
  Node, Top,     \* the file and the entries of its archives, the file itself
  Inside,        \* the entries of a node, should it be an archive, in order
  KindsOf,       \* the kinds that each node may have
  Depths,        \* values of SCANNER_MAX_ARCHIVE_DEPTH to try
  FileCounts     \* values of SCANNER_MAX_ARCHIVE_FILES to try

Kinds    == {"archive", "image", "audio", "video", "other"}
Failures == {"start", "truncated", "exit", "killed"}

\* An archive entry is one file, in one place of one archive.
ASSUME TreeAssumption ==
  /\ IsFiniteSet(Node) /\ Top \in Node
  /\ Inside \in [Node -> Seq(Node)]
  /\ \A m, n \in Node : \A i \in DOMAIN Inside[m], j \in DOMAIN Inside[n] :
       Inside[m][i] = Inside[n][j] => m = n /\ i = j
  /\ \A n \in Node : \A i \in DOMAIN Inside[n] : Inside[n][i] # Top

ASSUME SettingsAssumption ==
  /\ KindsOf \in [Node -> SUBSET Kinds]
  /\ Depths \subseteq Nat /\ FileCounts \subseteq Nat

VARIABLES
  enabled, moderation,     \* SCANNER_ENABLED, a moderation command is set
  maxDepth, maxFiles,
  kind, trait,             \* of each node
  stage,                   \* what is done next with the first of todo
  todo,                    \* <<node, archive depth>>, in the order of the walk
  budget,                  \* files listed so far
  failure,                 \* how a tool failed
  result                   \* the verdict

given == <<enabled, moderation, maxDepth, maxFiles, kind, trait>>
vars == <<given, stage, todo, budget, failure, result>>

Traits == {"clean",
           "denied",       \* its MIME type is in the denylist
           "infected",
           "broken",       \* invalid media, too many pixels, corrupt archive
           "frameless",    \* no video frame can be sampled
           "banned",       \* refused by the moderation command
           "irregular"}    \* an archive entry that is not a file

ArchiveTools == {"list", "test", "extract"}
Tools        == ArchiveTools \cup {"mime", "virus", "media", "frames", "moderate"}

Init ==
  /\ enabled \in BOOLEAN /\ moderation \in BOOLEAN
  /\ maxDepth \in Depths /\ maxFiles \in FileCounts
  /\ kind \in {k \in [Node -> Kinds] : \A n \in Node : k[n] \in KindsOf[n]}
  /\ trait \in {t \in [Node -> Traits] :
       /\ t[Top] # "irregular"
       /\ \A n \in Node : t[n] = "frameless" => kind[n] = "video"}
  /\ stage = "download"
  /\ todo = << <<Top, 0>> >>
  /\ budget = 0
  /\ failure = "none"
  /\ result = "none"

node  == Head(todo)[1]
depth == Head(todo)[2]

Conclude(verdict) ==
  /\ stage' = "done"
  /\ result' = verdict
  /\ UNCHANGED <<given, todo, budget, failure>>

Block == Conclude("blocked")

Continue(next) ==
  /\ stage' = next
  /\ UNCHANGED <<given, todo, budget, failure, result>>

\* The entry passes: the walk goes on, and ends after the last one.
Pass ==
  /\ todo' = Tail(todo)
  /\ IF Tail(todo) = <<>> THEN stage' = "done" /\ result' = "approved"
                          ELSE stage' = "mime" /\ UNCHANGED result
  /\ UNCHANGED <<given, budget, failure>>

----------------------------------------------------------------------------

SkipInspection == stage = "download" /\ ~ enabled /\ Conclude("approved")

Download == stage = "download" /\ enabled /\ Continue("mime")

\* The object cannot be read, or it has not the size of the row.
DownloadFails ==
  /\ stage = "download"
  /\ enabled
  /\ stage' = "done"
  /\ result' = "scan_failed"
  /\ failure' = "download"
  /\ UNCHANGED <<given, todo, budget>>

RefuseIrregular == stage = "mime" /\ trait[node] = "irregular" /\ Block

DetectMIME ==
  /\ stage = "mime"
  /\ trait[node] # "irregular"
  /\ IF trait[node] = "denied" THEN Block ELSE Continue("virus")

AfterVirus ==
  CASE kind[node] = "archive"                     -> "list"
    [] kind[node] \in {"image", "audio", "video"} -> "media"
    [] OTHER                                      -> "moderate"

ScanAntivirus ==
  /\ stage = "virus"
  /\ IF trait[node] = "infected" THEN Block ELSE Continue(AfterVirus)

\* The depth is compared before the archive is listed, the budget after.
ListArchive ==
  LET files == Len(Inside[node])
  IN  /\ stage = "list"
      /\ IF \/ depth + 1 > maxDepth
            \/ trait[node] = "broken"
            \/ budget > maxFiles - files
         THEN Block
         ELSE /\ budget' = budget + files
              /\ stage' = "test"
              /\ UNCHANGED <<given, todo, failure, result>>

TestArchive == stage = "test" /\ Continue("extract")

\* Mutant: the entries of a nested archive are not looked at.
ExtractTopOnly ==
  /\ stage = "extract"
  /\ IF depth > 0 \/ Inside[node] = <<>>
     THEN Pass
     ELSE /\ todo' = [i \in DOMAIN Inside[node] |-> <<Inside[node][i], depth + 1>>]
                       \o Tail(todo)
          /\ stage' = "mime"
          /\ UNCHANGED <<given, budget, failure, result>>

ExtractArchive ==
  /\ stage = "extract"
  /\ IF Inside[node] = <<>>
     THEN Pass
     ELSE /\ todo' = [i \in DOMAIN Inside[node] |-> <<Inside[node][i], depth + 1>>]
                       \o Tail(todo)
          /\ stage' = "mime"
          /\ UNCHANGED <<given, budget, failure, result>>

ValidateMedia ==
  /\ stage = "media"
  /\ IF trait[node] = "broken" THEN Block
     ELSE Continue(IF kind[node] = "video" /\ moderation THEN "frames"
                                                         ELSE "moderate")

SampleFrames ==
  /\ stage = "frames"
  /\ IF trait[node] = "frameless" THEN Block ELSE Continue("moderate")

\* Of the file or, one after the other, of the frames of a video.
Moderate ==
  /\ stage = "moderate"
  /\ IF moderation /\ trait[node] = "banned" THEN Block ELSE Pass

\* The tools that have something to do: the archive tool is not called below
\* the depth limit, and without a command there is no moderation.
Runs(tool) ==
  /\ tool \in Tools
  /\ tool = "mime" => trait[node] # "irregular"
  /\ tool = "list" => depth + 1 <= maxDepth
  /\ tool = "moderate" => moderation

\* A killed process has an exit code, -1, and no error of runCommand.  Only a
\* command that cannot be started or writes too much is an error for every
\* tool; the media validators turn each error into a verdict.
VerdictOfFailure(tool, how) ==
  CASE tool = "media"                                      -> "blocked"
    [] tool \in ArchiveTools /\ how \in {"exit", "killed"} -> "blocked"
    [] OTHER                                               -> "scan_failed"

ToolFails(how) ==
  /\ Runs(stage)
  /\ failure' = how
  /\ stage' = "done"
  /\ result' = VerdictOfFailure(stage, how)
  /\ UNCHANGED <<given, todo, budget>>

Next ==
  \/ SkipInspection
  \/ Download
  \/ DownloadFails
  \/ RefuseIrregular
  \/ DetectMIME
  \/ ScanAntivirus
  \/ ListArchive
  \/ TestArchive
  \/ ExtractArchive
  \/ ValidateMedia
  \/ SampleFrames
  \/ Moderate
  \/ \E how \in Failures : ToolFails(how)

Spec == Init /\ [][Next]_vars

----------------------------------------------------------------------------

IsArchive(n) == kind[n] = "archive"

Contents(n) == IF IsArchive(n) THEN {Inside[n][i] : i \in DOMAIN Inside[n]} ELSE {}

\* n, its contents, their contents...: the least such set.
Within(n) ==
  {m \in Node : \A S \in SUBSET Node :
     n \in S /\ (\A x \in S : Contents(x) \subseteq S) => m \in S}

Tree    == Within(Top)
Entries == Tree \ {Top}

\* The number of archives around n.
Depth(n) == Cardinality({m \in Tree : n \in Within(m)} \ {n})

\* What the settings ask of a file, independent of the walk.
Innocent(n) ==
  \/ trait[n] = "clean"
  \/ trait[n] = "broken"    /\ kind[n] = "other"
  \/ trait[n] = "frameless" /\ ~ moderation
  \/ trait[n] = "banned"    /\ (~ moderation \/ IsArchive(n))

Acceptable ==
  /\ \A n \in Tree : Innocent(n)
  /\ \A n \in Tree : IsArchive(n) => Depth(n) < maxDepth
  /\ Cardinality(Entries) <= maxFiles

\* A file is approved exactly when it and everything in its archives, at any
\* depth, passes the enabled checks within the limits, and nothing has failed
\* anywhere in the walk.
VerdictIsExact ==
  stage = "done" /\ enabled =>
    (result = "approved" <=> Acceptable /\ failure = "none")

\* "Utility lookup [...] timeouts [...] and truncated output fail closed as
\* scan_failed", the verdict that keeps the object in quarantine.
BreakdownIsScanFailed ==
  failure \in {"start", "truncated", "killed"} => result = "scan_failed"
=============================================================================

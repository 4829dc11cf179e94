--------------------------- MODULE MCScanPolicy ---------------------------
(* Instances of ScanPolicy for TLC: an archive top with a nested archive    *)
(* and a leaf; the nested one holds a second leaf.                          *)
EXTENDS ScanPolicy, TLC

CONSTANTS top, nested, deep, leaf

Nodes == {top, nested, deep, leaf}
Holds == (top :> <<nested, leaf>>) @@ (nested :> <<deep>>)
           @@ (deep :> <<>>) @@ (leaf :> <<>>)
Mixed == (top :> {"archive", "image"}) @@ (nested :> {"archive"})
           @@ (deep :> {"other"}) @@ (leaf :> {"video", "audio"})
Small == (top :> {"archive"}) @@ (nested :> {"other"})
           @@ (deep :> {"other"}) @@ (leaf :> {"image"})

OneOrTwo   == {1, 2}
TwoOrThree == {2, 3}
Two        == {2}
=============================================================================

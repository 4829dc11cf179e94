----------------------------- MODULE FolderTree -----------------------------
(***************************************************************************)
(* What the listings show of folders and files, from the root folder down: *)
(* an item appears in a folder that is shown, a deletion takes all that is *)
(* below an item in one step, and nothing that was taken comes back.       *)
(* Statements, transactions and rows that no listing leads to do not       *)
(* appear.  Used as the abstract specification of Folders.                 *)
(***************************************************************************)
CONSTANTS Item, Root

VARIABLES
  tree,     \* the folder of each item that is shown
  spent,    \* the items whose creation has ended
  owner

shownVars == <<tree, spent, owner>>

TreeInit ==
  /\ tree = [i \in {} |-> Root]
  /\ spent = {}

\* i is shown in a folder of its owner, or its creation fails, be it because
\* the folder is no longer shown.
Create(i) ==
  /\ spent' = spent \cup {i}
  /\ \/ \E d \in DOMAIN tree \cup {Root} :
          /\ d # Root => owner[d] = owner[i]
          /\ tree' = [x \in DOMAIN tree \cup {i} |-> IF x = i THEN d ELSE tree[x]]
     \/ UNCHANGED tree
  /\ UNCHANGED owner

\* i, its contents, their contents...: the least such set.
Below(i) ==
  {c \in DOMAIN tree : \A S \in SUBSET DOMAIN tree :
     i \in S /\ (\A x \in DOMAIN tree : tree[x] \in S => x \in S) => c \in S}

Delete(i) ==
  /\ tree' = [x \in DOMAIN tree \ Below(i) |-> tree[x]]
  /\ UNCHANGED <<spent, owner>>

TreeNext == (\E i \in Item \ spent : Create(i)) \/ (\E i \in DOMAIN tree : Delete(i))

TreeSpec == TreeInit /\ [][TreeNext]_shownVars
=============================================================================

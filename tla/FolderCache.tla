----------------------------- MODULE FolderCache -----------------------------
(***************************************************************************)
(* What the cache of the repository tree promises to those who read it     *)
(* (replace_repository_nodes and list_repository_nodes in src/src/bwli/    *)
(* store/catalog.py): a folder is empty until it is filled, and from then  *)
(* on it changes only when the children of one answer of the BW system     *)
(* take the place of those of another, all at once.                        *)
(***************************************************************************)
CONSTANTS Folders,
          Possible    \* [folder -> the sets of children BW may answer]

VARIABLE kept         \* [folder -> its children]

Init == kept = [f \in Folders |-> {}]

Replace(f, children) == kept' = [kept EXCEPT ![f] = children]

Next == \E f \in Folders : \E children \in Possible[f] : Replace(f, children)

Spec == Init /\ [][Next]_kept
=============================================================================

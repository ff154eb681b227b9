--------------------------- MODULE SnapshotCatalog ---------------------------
(***************************************************************************)
(* What the snapshot catalog promises its users (ADR 0002: the snapshot is *)
(* the source of truth): a capture that is answered with success publishes *)
(* one whole snapshot in a single step, and a published snapshot is never  *)
(* changed or taken back, so that every later analysis is repeatable.      *)
(***************************************************************************)
CONSTANTS Captures,   \* capture requests, each with the snapshot id it would create
          Contents,   \* what a capture may deliver
          Absent      \* not published

VARIABLE published

Init == published = [c \in Captures |-> Absent]

Publish(c, k) ==
    /\ published[c] = Absent
    /\ published' = [published EXCEPT ![c] = k]

Next == \E c \in Captures, k \in Contents : Publish(c, k)

Spec == Init /\ [][Next]_published
=============================================================================

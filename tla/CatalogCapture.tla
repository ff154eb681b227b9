--------------------------- MODULE CatalogCapture ---------------------------
(***************************************************************************)
(* Building a snapshot in the SQLite catalog and reading its graph while   *)
(* it is built: _capture_v1_snapshot (src/src/bwli/server.py) and          *)
(* CatalogStore (src/src/bwli/store/catalog.py).                           *)
(*                                                                         *)
(* A capture writes in three transactions: the snapshot row, the objects   *)
(* and edges, the capture scope. A failure in the second or third deletes  *)
(* the snapshot, foreign keys cascading; that delete may fail too, and the *)
(* process may die between any two steps. load_graph reads objects and     *)
(* edges in two statements, each seeing the latest commit.                 *)
(*                                                                         *)
(* Not covered: where the content comes from (fixture, manifest or live    *)
(* collection: any member of Contents), the glossary rows written with the *)
(* objects, colliding snapshot ids (they hash a microsecond timestamp).    *)
(***************************************************************************)
EXTENDS Naturals, FiniteSets

CONSTANTS Captures, Readers,
          Nodes,       \* object ids
          Contents,    \* catalogs a capture may deliver
          Absent       \* no snapshot row

Catalog == [objs : SUBSET Nodes, edges : SUBSET (Nodes \X Nodes)]

Closed(os, es) == \A e \in es : e[1] \in os /\ e[2] \in os

ASSUME CatalogAssumption ==
    /\ IsFiniteSet(Nodes)
    /\ Contents \subseteq Catalog
    /\ \A k \in Contents : Closed(k.objs, k.edges)
    /\ Absent \notin Contents

VARIABLES
    rows,     \* ids with a row in the snapshots table
    counts,   \* the object_count and edge_count of each row
    objs, edges, scope,   \* the rows of the child tables, by snapshot id
    step,     \* where each capture request is
    content,  \* what each capture request ingested
    reader    \* the load_graph call of each reader

tables == <<rows, counts, objs, edges, scope>>
vars   == <<rows, counts, objs, edges, scope, step, content, reader>>

EmptyCatalog == [objs |-> {}, edges |-> {}]
Running == {"created", "catalogued", "scoped", "cleanup"}
Ended   == {"ok", "failed", "stuck", "dead"}
IdleReader == [at |-> "idle", of |-> Absent, sure |-> FALSE, objs |-> {}, edges |-> {}]

Init ==
    /\ rows = {}
    /\ counts = [c \in Captures |-> [objs |-> 0, edges |-> 0]]
    /\ objs = [c \in Captures |-> {}]
    /\ edges = [c \in Captures |-> {}]
    /\ scope = [c \in Captures |-> {}]
    /\ step = [c \in Captures |-> "new"]
    /\ content = [c \in Captures |-> EmptyCatalog]
    /\ reader = [r \in Readers |-> IdleReader]

-----------------------------------------------------------------------------
(* The capture request. *)

Goto(c, s) == step' = [step EXCEPT ![c] = s]

CollectFails(c) ==     \* collecting, ingesting or inserting the row raises
    /\ step[c] = "new"
    /\ Goto(c, "failed")
    /\ UNCHANGED <<tables, content, reader>>

CreateSnapshot(c, k) ==
    /\ step[c] = "new"
    /\ content' = [content EXCEPT ![c] = k]
    /\ rows' = rows \cup {c}
    /\ counts' = [counts EXCEPT ![c] = [objs |-> 0, edges |-> 0]]
    /\ Goto(c, "created")
    /\ UNCHANGED <<objs, edges, scope, reader>>

ReplaceCatalogInTwo(c) ==      \* mutant: objects and edges in two transactions
    /\ step[c] = "created"
    /\ \/ /\ objs[c] # content[c].objs
          /\ objs' = [objs EXCEPT ![c] = content[c].objs]
          /\ UNCHANGED <<edges, counts, step>>
       \/ /\ objs[c] = content[c].objs
          /\ edges' = [edges EXCEPT ![c] = content[c].edges]
          /\ counts' = [counts EXCEPT ![c] = [objs |-> Cardinality(content[c].objs),
                                              edges |-> Cardinality(content[c].edges)]]
          /\ Goto(c, "catalogued")
          /\ UNCHANGED objs
    /\ UNCHANGED <<rows, scope, content, reader>>

ReplaceCatalog(c) ==
    /\ step[c] = "created"
    /\ objs' = [objs EXCEPT ![c] = content[c].objs]
    /\ edges' = [edges EXCEPT ![c] = content[c].edges]
    /\ counts' = [counts EXCEPT ![c] = [objs |-> Cardinality(content[c].objs),
                                        edges |-> Cardinality(content[c].edges)]]
    /\ Goto(c, "catalogued")
    /\ UNCHANGED <<rows, scope, content, reader>>

ReplaceScope(c) ==     \* one discovered entry per object at least
    /\ step[c] = "catalogued"
    /\ scope' = [scope EXCEPT ![c] = content[c].objs]
    /\ Goto(c, "scoped")
    /\ UNCHANGED <<rows, counts, objs, edges, content, reader>>

Respond(c) ==          \* the rows were read back
    /\ step[c] = "scoped"
    /\ Goto(c, "ok")
    /\ UNCHANGED <<tables, content, reader>>

ScopeFailsUncleaned(c) ==    \* mutant: the scope's failure is not compensated
    /\ step[c] \in {"created", "catalogued", "scoped"}
    /\ Goto(c, IF step[c] = "created" THEN "cleanup" ELSE "failed")
    /\ UNCHANGED <<tables, content, reader>>

StoreFails(c) ==       \* a transaction rolls back, or reading back its result raises
    /\ step[c] \in {"created", "catalogued", "scoped"}
    /\ Goto(c, "cleanup")
    /\ UNCHANGED <<tables, content, reader>>

DeleteAllEdges(c) ==    \* mutant: the edges of every snapshot are deleted
    /\ step[c] = "cleanup"
    /\ rows' = rows \ {c}
    /\ objs' = [objs EXCEPT ![c] = {}]
    /\ edges' = [d \in Captures |-> {}]
    /\ scope' = [scope EXCEPT ![c] = {}]
    /\ Goto(c, "failed")
    /\ UNCHANGED <<counts, content, reader>>

DeleteSnapshot(c) ==   \* ON DELETE CASCADE
    /\ step[c] = "cleanup"
    /\ rows' = rows \ {c}
    /\ objs' = [objs EXCEPT ![c] = {}]
    /\ edges' = [edges EXCEPT ![c] = {}]
    /\ scope' = [scope EXCEPT ![c] = {}]
    /\ Goto(c, "failed")
    /\ UNCHANGED <<counts, content, reader>>

DeleteFails(c) ==
    /\ step[c] = "cleanup"
    /\ Goto(c, "stuck")
    /\ UNCHANGED <<tables, content, reader>>

(* load_graph; "sure" remembers that the capture had been answered. *)

Lookup(r, c) ==
    /\ reader[r].at = "idle"
    /\ c \in rows
    /\ reader' = [reader EXCEPT ![r] =
           [IdleReader EXCEPT !.at = "objects", !.of = c, !.sure = step[c] = "ok"]]
    /\ UNCHANGED <<tables, step, content>>

ReadObjects(r) ==
    /\ reader[r].at = "objects"
    /\ reader' = [reader EXCEPT ![r] = [@ EXCEPT !.objs = objs[reader[r].of], !.at = "edges"]]
    /\ UNCHANGED <<tables, step, content>>

ReadEdges(r) ==        \* BwGraph refuses edges whose endpoints were not read
    /\ reader[r].at = "edges"
    /\ LET read == edges[reader[r].of] IN
         reader' = [reader EXCEPT ![r] =
             [@ EXCEPT !.edges = read,
                       !.at = IF Closed(reader[r].objs, read) THEN "answered" ELSE "refused"]]
    /\ UNCHANGED <<tables, step, content>>

FinishRead(r) ==
    /\ reader[r].at \in {"answered", "refused"}
    /\ reader' = [reader EXCEPT ![r] = IdleReader]
    /\ UNCHANGED <<tables, step, content>>

Crash ==               \* the process dies; the database file stays
    /\ \E c \in Captures : step[c] \in Running
    /\ step' = [c \in Captures |-> IF step[c] \in Running THEN "dead" ELSE step[c]]
    /\ reader' = [r \in Readers |-> IdleReader]
    /\ UNCHANGED <<tables, content>>

Next ==
    \/ \E c \in Captures :
         \/ \E k \in Contents : CreateSnapshot(c, k)
         \/ CollectFails(c)
         \/ ReplaceCatalog(c) \/ ReplaceScope(c) \/ Respond(c)
         \/ StoreFails(c) \/ DeleteSnapshot(c) \/ DeleteFails(c)
    \/ \E r \in Readers :
         \/ \E c \in Captures : Lookup(r, c)
         \/ ReadObjects(r) \/ ReadEdges(r) \/ FinishRead(r)
    \/ Crash

Spec == Init /\ [][Next]_vars

-----------------------------------------------------------------------------
Stored(c) == [objs |-> objs[c], edges |-> edges[c]]

(* Every variable has the type its code gives it. *)
TypeOK ==
    /\ rows \subseteq Captures
    /\ counts \in [Captures -> [objs : Nat, edges : Nat]]
    /\ objs \in [Captures -> SUBSET Nodes]
    /\ edges \in [Captures -> SUBSET (Nodes \X Nodes)]
    /\ scope \in [Captures -> SUBSET Nodes]
    /\ step \in [Captures -> {"new"} \cup Running \cup Ended]
    /\ content \in [Captures -> Catalog]
    /\ reader \in [Readers -> [at : {"idle", "objects", "edges", "answered", "refused"},
                               of : Captures \cup {Absent}, sure : BOOLEAN,
                               objs : SUBSET Nodes, edges : SUBSET (Nodes \X Nodes)]]
    /\ \A r \in Readers : reader[r].at # "idle" => reader[r].of \in Captures

(* replace_catalog is one transaction: whatever fails or crashes, a         *)
(* snapshot anyone can see holds either no catalog at all or the whole of   *)
(* what its capture ingested, its counts agree, and it has a scope only on  *)
(* top of the whole catalog.                                                *)
NeverHalfACatalog ==
    \A c \in rows :
        /\ Stored(c) \in {EmptyCatalog, content[c]}
        /\ counts[c] = [objs |-> Cardinality(objs[c]), edges |-> Cardinality(edges[c])]
        /\ scope[c] # {} => Stored(c) = content[c]

(* _replace_catalog_or_delete_snapshot and _replace_scope_or_delete_snapshot*)
(* (server.py 2123-2146): a capture answered with an error leaves no row in *)
(* any table unless its cleaning delete failed as well.                     *)
FailureLeavesNothing ==
    \A c \in Captures :
        step[c] = "failed" => c \notin rows /\ Stored(c) = EmptyCatalog /\ scope[c] = {}

(* load_graph reads a snapshot whose capture was answered before: it gets   *)
(* the whole catalog whatever other captures do meanwhile.                  *)
PublishedReadsAreWhole ==
    \A r \in Readers :
        reader[r].sure /\ reader[r].at \in {"answered", "refused"} =>
            /\ reader[r].at = "answered"
            /\ reader[r].objs = content[reader[r].of].objs
            /\ reader[r].edges = content[reader[r].of].edges

(* The three transactions, their failures and the crash implement the       *)
(* one-step, immutable publication of SnapshotCatalog: what is published is *)
(* what the tables hold for a capture that was answered with success.       *)
Published == [c \in Captures |-> IF step[c] = "ok" THEN Stored(c) ELSE Absent]

Abstract == INSTANCE SnapshotCatalog WITH published <- Published

ImplementsSnapshotCatalog == Abstract!Spec
=============================================================================

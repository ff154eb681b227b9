----------------------------- MODULE Repository -----------------------------
(***************************************************************************)
(* The tree of BW folders that the page browses: GET /api/v1/repository    *)
(* (_repository_payload in src/src/bwli/server.py) reads the children of a *)
(* folder from the catalog database, or asks the BW system for them and    *)
(* replaces them there (src/src/bwli/repository.py, replace_repository_    *)
(* nodes and list_repository_nodes in src/src/bwli/store/catalog.py).      *)
(*                                                                         *)
(* Requests run in threads of one process. A replacement is a transaction  *)
(* of several statements; SQLite lets one connection write at a time and   *)
(* shows the others only what is committed. The list that is answered is   *)
(* read in a connection of its own, after the replacement. Not covered:    *)
(* the columns of a row other than its key, the order of the list, who     *)
(* changes the connection (RuntimeConfig).                                 *)
(***************************************************************************)
EXTENDS Sequences

CONSTANTS Folders,
          Names,       \* what entries of an answer are called
          Nameless,    \* an entry without a name
          PathOf,      \* [name -> the path of its entry, in lower case]
          Answers,     \* [folder -> what the BW system may answer]
          Workers, Nobody

Entries == Names \cup {Nameless}
Paths == {PathOf[n] : n \in Names}

(* "xml": a document, of these entries; "broken": text that is no XML;      *)
(* "other": no text; "secret": entries the secret guard refuses;            *)
(* "error": the call fails.                                                 *)
Answer == [form : {"xml", "broken", "other", "secret", "error"}, entries : Seq(Entries)]

ASSUME RepositoryAssumption ==
    /\ Nameless \notin Names
    /\ Nobody \notin Workers
    /\ Folders # {}
    /\ Answers \in [Folders -> SUBSET Answer]

VARIABLES
    rows,       \* [folder -> the committed rows]
    filled,     \* the folders that were replaced at least once
    writer,     \* the worker whose transaction is open, or Nobody
    draft,      \* the rows of its folder as that transaction sees them
    ready,      \* the BW system is configured and its test succeeded
    pc, folder, refresh,    \* the request of each worker
    nodes,      \* [worker -> the nodes of the answer it received, by their places]
    items,      \* [worker -> the rows it answered with]
    current     \* [worker -> the answers that were held or came since it started]

database == <<rows, filled, writer, draft>>
requests == <<pc, folder, refresh, nodes, items>>
vars == <<database, ready, requests, current>>

RowsOf(ns) == {PathOf[ns[i]] : i \in DOMAIN ns}

(* _repository_node_from_entry, for each entry: the nodes at their places.  *)
Parsed(answer) ==
    IF answer.form = "broken" THEN <<>>
    ELSE LET Named == {i \in DOMAIN answer.entries : answer.entries[i] # Nameless}
         IN  [i \in Named |-> answer.entries[i]]

Init ==
    /\ rows = [f \in Folders |-> {}] /\ filled = {}
    /\ writer = Nobody /\ draft = {}
    /\ ready \in BOOLEAN
    /\ pc = [w \in Workers |-> "idle"]
    /\ folder = [w \in Workers |-> CHOOSE f \in Folders : TRUE] /\ refresh = [w \in Workers |-> FALSE]
    /\ nodes = [w \in Workers |-> <<>>] /\ items = [w \in Workers |-> {}]
    /\ current = [w \in Workers |-> {}]

-----------------------------------------------------------------------------
Goto(w, where) == pc' = [pc EXCEPT ![w] = where]

Fail(w) == Goto(w, "failed")

Forget(w) == nodes' = [nodes EXCEPT ![w] = <<>>]

(* The answers for f that workers hold and have not stored yet.             *)
Held(f) == {RowsOf(nodes[v]) : v \in {u \in Workers : folder[u] = f
                                         /\ pc[u] \in {"begin", "insert", "commit"}}}

(* repository_v1; the gate is passed only with confirm_read_only.           *)
Ask(w, f, live, confirm) ==
    /\ pc[w] \in {"idle", "answered", "failed"}
    /\ folder' = [folder EXCEPT ![w] = f]
    /\ refresh' = [refresh EXCEPT ![w] = live]
    /\ IF ~live THEN Goto(w, "list")
       ELSE IF ready /\ confirm THEN Goto(w, "fetch")
       ELSE Fail(w)
    /\ Forget(w) /\ items' = [items EXCEPT ![w] = {}]
    /\ current' = [current EXCEPT ![w] = Held(f)]
    /\ UNCHANGED <<database, ready>>

Receive(w, answer) ==
    LET new == {RowsOf(Parsed(answer))} IN
    /\ pc[w] = "fetch"
    /\ answer.form \in {"xml", "broken"}
    /\ nodes' = [nodes EXCEPT ![w] = Parsed(answer)]
    /\ current' = [v \in Workers |-> IF folder[v] = folder[w] THEN current[v] \cup new
                                     ELSE current[v]]
    /\ Goto(w, "begin")
    /\ UNCHANGED <<database, ready, folder, refresh, items>>

ListInstead(w, answer) ==    \* mutant: without an answer the cached rows are listed
    /\ pc[w] = "fetch"
    /\ answer.form \in {"other", "secret", "error"}
    /\ Goto(w, "list")
    /\ UNCHANGED <<database, ready, folder, refresh, nodes, items, current>>

ReceiveNothing(w, answer) ==
    /\ pc[w] = "fetch"
    /\ answer.form \in {"other", "secret", "error"}
    /\ Fail(w)
    /\ UNCHANGED <<database, ready, folder, refresh, nodes, items, current>>

-----------------------------------------------------------------------------
(* replace_repository_nodes.                                                *)
DeleteAndCommit(w) ==    \* mutant: each statement is a transaction
    /\ pc[w] = "begin" /\ writer = Nobody
    /\ writer' = w /\ draft' = {}
    /\ rows' = [rows EXCEPT ![folder[w]] = {}]
    /\ Goto(w, "insert")
    /\ UNCHANGED <<filled, ready, folder, refresh, nodes, items, current>>

DeleteRows(w) ==
    /\ pc[w] = "begin" /\ writer = Nobody
    /\ writer' = w /\ draft' = {}
    /\ Goto(w, "insert")
    /\ UNCHANGED <<rows, filled, ready, folder, refresh, nodes, items, current>>

(* The busy timeout of a connection that waits for another one.             *)
LockTimesOut(w) ==
    /\ pc[w] = "begin" /\ writer # Nobody
    /\ Fail(w) /\ Forget(w)
    /\ UNCHANGED <<database, ready, folder, refresh, items, current>>

(* Paths are keys of a folder: the same one twice is an IntegrityError.     *)
KeysDiffer(ns) == \A i, j \in DOMAIN ns : PathOf[ns[i]] = PathOf[ns[j]] => i = j

InsertRows(w) ==
    /\ pc[w] = "insert"
    /\ KeysDiffer(nodes[w])
    /\ draft' = draft \cup RowsOf(nodes[w])
    /\ Goto(w, "commit")
    /\ UNCHANGED <<rows, filled, writer, ready, folder, refresh, nodes, items, current>>

Rollback == writer' = Nobody /\ draft' = {}

TryAgain(w) ==    \* mutant: a refused insert starts the transaction again
    /\ pc[w] = "insert"
    /\ ~KeysDiffer(nodes[w])
    /\ Rollback /\ Goto(w, "begin")
    /\ UNCHANGED <<rows, filled, ready, folder, refresh, nodes, items, current>>

InsertFails(w) ==
    /\ pc[w] = "insert"
    /\ ~KeysDiffer(nodes[w])
    /\ Rollback /\ Fail(w)
    /\ Forget(w)
    /\ UNCHANGED <<rows, filled, ready, folder, refresh, items, current>>

Commit(w) ==
    /\ pc[w] = "commit"
    /\ rows' = [rows EXCEPT ![folder[w]] = draft]
    /\ filled' = filled \cup {folder[w]}
    /\ Rollback /\ Goto(w, "list")    \* the transaction is over
    /\ Forget(w)
    /\ UNCHANGED <<ready, folder, refresh, items, current>>

(* A commit waits for connections that read, and gives up.                  *)
CommitTimesOut(w) ==
    /\ pc[w] = "commit"
    /\ Rollback /\ Fail(w)
    /\ Forget(w)
    /\ UNCHANGED <<rows, filled, ready, folder, refresh, items, current>>

(* list_repository_nodes.                                                   *)
List(w) ==
    /\ pc[w] = "list"
    /\ items' = [items EXCEPT ![w] = rows[folder[w]]]
    /\ Goto(w, "answered")
    /\ UNCHANGED <<database, ready, folder, refresh, nodes, current>>

-----------------------------------------------------------------------------
ChangeConnection ==
    /\ ready' = ~ready
    /\ UNCHANGED <<database, requests, current>>

(* The process ends: SQLite rolls back what is not committed. The next one  *)
(* starts with an untested connection.                                      *)
Restart ==
    /\ Rollback
    /\ ready' = FALSE
    /\ pc' = [w \in Workers |-> "idle"]
    /\ nodes' = [w \in Workers |-> <<>>] /\ items' = [w \in Workers |-> {}]
    /\ current' = [w \in Workers |-> {}]
    /\ UNCHANGED <<rows, filled, folder, refresh>>

Work(w) ==
    \/ \E answer \in Answers[folder[w]] : Receive(w, answer) \/ ReceiveNothing(w, answer)
    \/ DeleteRows(w) \/ LockTimesOut(w)
    \/ InsertRows(w) \/ InsertFails(w)
    \/ Commit(w) \/ CommitTimesOut(w)
    \/ List(w)

Next ==
    \/ \E w \in Workers :
         \/ \E f \in Folders, live, confirm \in BOOLEAN : Ask(w, f, live, confirm)
         \/ Work(w)
    \/ ChangeConnection
    \/ Restart

Spec == Init /\ [][Next]_vars
LiveSpec == Spec /\ \A w \in Workers : WF_vars(Work(w))

-----------------------------------------------------------------------------
(* Every variable has its type.                                             *)
TypeOK ==
    /\ rows \in [Folders -> SUBSET Paths] /\ filled \subseteq Folders
    /\ writer \in Workers \cup {Nobody} /\ draft \subseteq Paths
    /\ ready \in BOOLEAN
    /\ pc \in [Workers -> {"idle", "fetch", "begin", "insert", "commit", "list", "answered",
                        "failed"}]
    /\ folder \in [Workers -> Folders] /\ refresh \in [Workers -> BOOLEAN]
    /\ DOMAIN nodes = Workers /\ \A w \in Workers : RowsOf(nodes[w]) \subseteq Paths
    /\ items \in [Workers -> SUBSET Paths]
    /\ current \in [Workers -> SUBSET SUBSET Paths]

PossibleRows(f) ==
    {RowsOf(Parsed(a)) : a \in {b \in Answers[f] : b.form \in {"xml", "broken"}}}

(* Whoever looks at a folder, while it is replaced, after a replacement     *)
(* that failed half way or after a crash, sees the children of one whole    *)
(* answer of the BW system for this folder: never a mixture of two, never   *)
(* a part, and no empty folder unless it was never filled or BW says so.    *)
FolderIsOneAnswer ==
    \A f \in Folders : IF f \in filled THEN rows[f] \in PossibleRows(f) ELSE rows[f] = {}

(* The statements of a replacement, its failures, the lock and the crash    *)
(* implement FolderCache: what others see of a folder changes in one step,  *)
(* from one whole answer to another, and of one folder at a time.           *)
Abstract == INSTANCE FolderCache
    WITH kept <- rows, Possible <- [f \in Folders |-> PossibleRows(f)]

ImplementsFolderCache == Abstract!Spec

(* What is answered as "live" is one whole answer that the BW system gave   *)
(* for this folder during the request, or that another request still held   *)
(* to store it when this one started. It need not be the request's own, as  *)
(* the list is read after the replacement; it is never what the folder held *)
(* before.                                                                  *)
LiveAnswersAreOfTheirTime ==
    \A w \in Workers : pc[w] = "answered" /\ refresh[w] => items[w] \in current[w]

(* Every request is answered or fails, also when requests wait for each     *)
(* other's transactions and the BW system repeats an entry.                 *)
RequestsEnd ==
    \A w \in Workers : (pc[w] \in {"fetch", "begin", "insert", "commit", "list"})
                         ~> (pc[w] \in {"answered", "failed", "idle"})
=============================================================================

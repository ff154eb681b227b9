--------------------------- MODULE BrowsingProofs ---------------------------
(***************************************************************************)
(* Theorems about what a user browses: the folders of the repository tree  *)
(* (Repository), for any number of folders and of requests that interleave *)
(* and fail freely, whatever the BW system answers; and the list of        *)
(* objects and the lineage of the page (WebPage), for any                  *)
(* snapshots, searches and sizes of a page, in whatever order the answers  *)
(* arrive.                                                                 *)
(***************************************************************************)
EXTENDS Repository, WebPage, TLAPS

-----------------------------------------------------------------------------
(* The repository tree.                                                     *)

(* A worker has an answer in hand until it has stored it or given up.       *)
Holds(w) == pc[w] \in {"begin", "insert", "commit"}

OneWriter ==
    /\ \A w \in Workers : pc[w] \in {"insert", "commit"} => writer = w
    /\ writer # Nobody => pc[writer] \in {"insert", "commit"}

DraftIsOfTheAnswer ==
    /\ writer # Nobody /\ pc[writer] = "insert" => draft = {}
    /\ writer # Nobody /\ pc[writer] = "commit" => draft = RowsOf(nodes[writer])

(* What is held may be stored, and may be answered to whoever asks for the  *)
(* folder meanwhile.                                                        *)
HeldIsCurrent ==
    \A w \in Workers : Holds(w) =>
        /\ RowsOf(nodes[w]) \in PossibleRows(folder[w])
        /\ \A v \in Workers : folder[v] = folder[w] => RowsOf(nodes[w]) \in current[v]

(* A refresh that has stored its answer finds that one or a later one.      *)
StoredIsCurrent ==
    \A w \in Workers : pc[w] = "list" /\ refresh[w] => rows[folder[w]] \in current[w]

Inv ==
    /\ TypeOK /\ OneWriter /\ DraftIsOfTheAnswer /\ HeldIsCurrent /\ StoredIsCurrent
    /\ FolderIsOneAnswer /\ LiveAnswersAreOfTheirTime

-----------------------------------------------------------------------------
LEMMA AnswersHavePaths ==
  ASSUME NEW f \in Folders, NEW a \in Answers[f]
  PROVE  RowsOf(Parsed(a)) \subseteq Paths
<1>1. a.entries \in Seq(Entries)
  BY RepositoryAssumption DEF Answer
<1> DEFINE named == {i \in DOMAIN a.entries : a.entries[i] # Nameless}
<1>2. ASSUME NEW i \in named PROVE a.entries[i] \in Names
  BY <1>1 DEF Entries
<1>3. CASE a.form = "broken"
  BY <1>3 DEF Parsed, RowsOf
<1>4. CASE a.form # "broken"
  <2>1. Parsed(a) = [i \in named |-> a.entries[i]]
    BY <1>4 DEF Parsed
  <2> HIDE DEF named
  <2>2. DOMAIN Parsed(a) = named /\ \A i \in named : Parsed(a)[i] = a.entries[i]
    BY <2>1
  <2> QED BY <1>2, <2>2 DEF RowsOf, Paths
<1> QED BY <1>3, <1>4

LEMMA NothingHasNoPaths == RowsOf(<<>>) = {}
  BY DEF RowsOf

LEMMA InitInv == Init => Inv
<1> SUFFICES ASSUME Init PROVE Inv
  OBVIOUS
<1>1. (CHOOSE f \in Folders : TRUE) \in Folders
  BY RepositoryAssumption
<1>2. TypeOK
  BY <1>1, NothingHasNoPaths DEF Init, TypeOK
<1>3. writer = Nobody /\ \A w \in Workers : pc[w] = "idle"
  BY DEF Init
<1>4. FolderIsOneAnswer
  BY DEF Init, FolderIsOneAnswer
<1> QED BY <1>2, <1>3, <1>4 DEF Inv, OneWriter, DraftIsOfTheAnswer, HeldIsCurrent, StoredIsCurrent,
     LiveAnswersAreOfTheirTime, Holds

-----------------------------------------------------------------------------
(* The steps of a request.                                                  *)

LEMMA AskKeeps ==
  ASSUME Inv, NEW w \in Workers, NEW f \in Folders, NEW live \in BOOLEAN,
         NEW confirm \in BOOLEAN, Ask(w, f, live, confirm)
  PROVE  Inv'
<1> USE DEF Inv
<1>1. /\ pc[w] \in {"idle", "answered", "failed"}
      /\ pc'[w] \in {"list", "fetch", "failed"}
      /\ pc' \in [Workers -> {"idle", "fetch", "begin", "insert", "commit", "list", "answered",
                              "failed"}]
      /\ \A v \in Workers \ {w} : pc'[v] = pc[v]
      /\ refresh' = [refresh EXCEPT ![w] = live]
      /\ pc'[w] = "list" => ~refresh'[w]
      /\ UNCHANGED <<rows, filled, writer, draft, ready>>
  BY DEF Ask, Goto, Fail, TypeOK, database
<1>2. /\ folder' = [folder EXCEPT ![w] = f] /\ nodes' = [nodes EXCEPT ![w] = <<>>]
      /\ items' = [items EXCEPT ![w] = {}] /\ current' = [current EXCEPT ![w] = Held(f)]
  BY DEF Ask, Forget
<1>3. \A r \in Held(f) : r \subseteq Paths
  BY DEF Held, TypeOK
<1>4. TypeOK'
  BY <1>1, <1>2, <1>3, NothingHasNoPaths DEF TypeOK
<1>5. \A v \in Workers : Holds(v)' => v # w /\ Holds(v)
  BY <1>1 DEF Holds
<1>6. HeldIsCurrent'
  <2> SUFFICES ASSUME NEW v \in Workers, Holds(v)', NEW u \in Workers
               PROVE  /\ RowsOf(nodes'[v]) \in PossibleRows(folder'[v])
                      /\ folder'[u] = folder'[v] => RowsOf(nodes'[v]) \in current'[u]
    BY DEF HeldIsCurrent
  <2>1. v # w /\ Holds(v) /\ nodes'[v] = nodes[v] /\ folder'[v] = folder[v]
    BY <1>2, <1>5 DEF TypeOK
  <2>2. CASE u # w
    BY <1>2, <2>1, <2>2 DEF HeldIsCurrent, TypeOK
  <2>3. CASE u = w
    <3>1. folder[v] = f => RowsOf(nodes[v]) \in Held(f)
      BY <2>1 DEF Held, Holds
    <3> QED BY <1>2, <2>1, <2>3, <3>1 DEF HeldIsCurrent, TypeOK
  <2> QED BY <2>2, <2>3
<1>7. OneWriter' /\ DraftIsOfTheAnswer'
  BY <1>1, <1>2, RepositoryAssumption DEF OneWriter, DraftIsOfTheAnswer, TypeOK
<1>8. StoredIsCurrent' /\ FolderIsOneAnswer' /\ LiveAnswersAreOfTheirTime'
  BY <1>1, <1>2 DEF StoredIsCurrent, FolderIsOneAnswer, LiveAnswersAreOfTheirTime, TypeOK
<1> QED BY <1>4, <1>6, <1>7, <1>8

LEMMA ReceiveKeeps ==
  ASSUME Inv, NEW w \in Workers, NEW a \in Answers[folder[w]], Receive(w, a)
  PROVE  Inv'
<1> USE DEF Inv
<1> DEFINE new == RowsOf(Parsed(a))
<1>1. /\ pc[w] = "fetch" /\ pc' = [pc EXCEPT ![w] = "begin"]
      /\ nodes' = [nodes EXCEPT ![w] = Parsed(a)]
      /\ current' = [v \in Workers |-> IF folder[v] = folder[w] THEN current[v] \cup {new}
                                        ELSE current[v]]
      /\ UNCHANGED <<rows, filled, writer, draft, ready, folder, refresh, items>>
      /\ a.form \in {"xml", "broken"}
  BY DEF Receive, Goto, database
<1>2. new \subseteq Paths /\ new \in PossibleRows(folder[w])
  BY <1>1, AnswersHavePaths DEF TypeOK, PossibleRows
<1>3. /\ \A v \in Workers : v # w => pc'[v] = pc[v] /\ nodes'[v] = nodes[v]
      /\ pc'[w] = "begin" /\ nodes'[w] = Parsed(a) /\ DOMAIN nodes' = Workers
      /\ \A v \in Workers : current[v] \subseteq current'[v]
      /\ \A v \in Workers : folder[v] = folder[w] => new \in current'[v]
  BY <1>1 DEF TypeOK
<1> HIDE DEF new
<1>4. TypeOK'
  <2>1. \A v \in Workers : RowsOf(nodes'[v]) \subseteq Paths
    BY <1>2, <1>3 DEF TypeOK, new
  <2>2. current' \in [Workers -> SUBSET SUBSET Paths]
    BY <1>1, <1>2 DEF TypeOK
  <2>3. pc' \in [Workers -> {"idle", "fetch", "begin", "insert", "commit", "list", "answered",
                             "failed"}]
    BY <1>1 DEF TypeOK
  <2> QED BY <1>1, <1>3, <2>1, <2>2, <2>3 DEF TypeOK
<1>5. HeldIsCurrent'
  <2> SUFFICES ASSUME NEW v \in Workers, Holds(v)'
               PROVE  /\ RowsOf(nodes'[v]) \in PossibleRows(folder[v])
                      /\ \A u \in Workers : folder[u] = folder[v] => RowsOf(nodes'[v]) \in current'[u]
    BY <1>1 DEF HeldIsCurrent
  <2>1. CASE v = w
    BY <1>2, <1>3, <2>1 DEF new
  <2>2. CASE v # w
    BY <1>3, <2>2 DEF HeldIsCurrent, Holds
  <2> QED BY <2>1, <2>2
<1>6. OneWriter' /\ DraftIsOfTheAnswer'
  BY <1>1, <1>3 DEF OneWriter, DraftIsOfTheAnswer, TypeOK
<1>7. StoredIsCurrent' /\ LiveAnswersAreOfTheirTime'
  BY <1>1, <1>3 DEF StoredIsCurrent, LiveAnswersAreOfTheirTime
<1>8. FolderIsOneAnswer'
  BY <1>1 DEF FolderIsOneAnswer
<1> QED BY <1>4, <1>5, <1>6, <1>7, <1>8

(* A request that fails lets go of what it held; if it wrote, what it wrote *)
(* is rolled back. Ending an answer that was of no use is such a step too.  *)
LEMMA FailingKeeps ==
  ASSUME Inv, NEW w \in Workers, pc[w] # "answered",
         pc' = [pc EXCEPT ![w] = "failed"],
         \/ nodes' = nodes
         \/ nodes' = [nodes EXCEPT ![w] = <<>>],
         \/ pc[w] \in {"fetch", "begin"} /\ UNCHANGED <<writer, draft>>
         \/ pc[w] \in {"insert", "commit"} /\ Rollback,
         UNCHANGED <<rows, filled, ready, folder, refresh, items, current>>
  PROVE  Inv'
<1> USE DEF Inv
<1>1. /\ \A v \in Workers : v # w => pc'[v] = pc[v] /\ nodes'[v] = nodes[v]
      /\ pc'[w] = "failed" /\ DOMAIN nodes' = Workers
      /\ \A v \in Workers : RowsOf(nodes'[v]) \subseteq Paths
  BY NothingHasNoPaths DEF TypeOK
<1>2. TypeOK'
  BY <1>1 DEF TypeOK, Rollback
<1>3. OneWriter' /\ DraftIsOfTheAnswer'
  <2>1. CASE UNCHANGED <<writer, draft>> /\ pc[w] \in {"fetch", "begin"}
    <3>1. writer # w
      BY <2>1, RepositoryAssumption DEF OneWriter
    <3> QED BY <1>1, <2>1, <3>1 DEF OneWriter, DraftIsOfTheAnswer, TypeOK
  <2>2. CASE pc[w] \in {"insert", "commit"} /\ Rollback
    BY <1>1, <2>2, RepositoryAssumption DEF OneWriter, DraftIsOfTheAnswer, Rollback
  <2> QED BY <2>1, <2>2
<1>4. HeldIsCurrent'
  BY <1>1 DEF HeldIsCurrent, Holds
<1>5. StoredIsCurrent' /\ LiveAnswersAreOfTheirTime' /\ FolderIsOneAnswer'
  BY <1>1 DEF StoredIsCurrent, LiveAnswersAreOfTheirTime, FolderIsOneAnswer
<1> QED BY <1>2, <1>3, <1>4, <1>5

LEMMA WritingKeeps ==
  ASSUME Inv, NEW w \in Workers, DeleteRows(w) \/ InsertRows(w)
  PROVE  Inv'
<1> USE DEF Inv
<1>1. /\ writer' = w /\ Holds(w)
      /\ \A v \in Workers : v # w => pc'[v] = pc[v] /\ pc[v] \notin {"insert", "commit"}
      /\ UNCHANGED <<rows, filled, ready, folder, refresh, nodes, items, current>>
      /\ pc' \in [Workers -> {"idle", "fetch", "begin", "insert", "commit", "list", "answered",
                              "failed"}]
      /\ \/ pc'[w] = "insert" /\ draft' = {}
         \/ pc'[w] = "commit" /\ draft' = RowsOf(nodes[w])
  BY RepositoryAssumption DEF DeleteRows, InsertRows, Goto, Holds, OneWriter, DraftIsOfTheAnswer,
     TypeOK
<1>2. TypeOK'
  BY <1>1 DEF TypeOK
<1>3. OneWriter' /\ DraftIsOfTheAnswer'
  BY <1>1 DEF OneWriter, DraftIsOfTheAnswer
<1>4. \A v \in Workers : Holds(v)' => Holds(v)
  BY <1>1 DEF Holds
<1>5. HeldIsCurrent'
  BY <1>1, <1>4 DEF HeldIsCurrent
<1>6. StoredIsCurrent' /\ LiveAnswersAreOfTheirTime' /\ FolderIsOneAnswer'
  BY <1>1 DEF StoredIsCurrent, LiveAnswersAreOfTheirTime, FolderIsOneAnswer
<1> QED BY <1>2, <1>3, <1>5, <1>6

(* What is committed is the answer that was held, and it is current for all *)
(* requests for the folder that have still to read the list.                *)
LEMMA CommitKeeps ==
  ASSUME Inv, NEW w \in Workers, Commit(w)
  PROVE  Inv'
<1> USE DEF Inv
<1>1. /\ pc[w] = "commit" /\ pc' = [pc EXCEPT ![w] = "list"] /\ Rollback
      /\ rows' = [rows EXCEPT ![folder[w]] = draft] /\ filled' = filled \cup {folder[w]}
      /\ nodes' = [nodes EXCEPT ![w] = <<>>]
      /\ UNCHANGED <<ready, folder, refresh, items, current>>
  BY DEF Commit, Goto, Forget
<1>2. writer = w /\ draft = RowsOf(nodes[w]) /\ folder[w] \in Folders
  BY <1>1, RepositoryAssumption DEF OneWriter, DraftIsOfTheAnswer, TypeOK
<1>3. /\ draft \in PossibleRows(folder[w])
      /\ \A v \in Workers : folder[v] = folder[w] => draft \in current[v]
  BY <1>1, <1>2 DEF HeldIsCurrent, Holds
<1>4. /\ \A v \in Workers : v # w => pc'[v] = pc[v] /\ nodes'[v] = nodes[v]
      /\ pc'[w] = "list" /\ DOMAIN nodes' = Workers
      /\ \A v \in Workers : RowsOf(nodes'[v]) \subseteq Paths
      /\ \A f \in Folders : rows'[f] = IF f = folder[w] THEN draft ELSE rows[f]
  BY <1>1, NothingHasNoPaths DEF TypeOK
<1>5. TypeOK'
  BY <1>1, <1>2, <1>4 DEF TypeOK, Rollback
<1>6. OneWriter' /\ DraftIsOfTheAnswer'
  BY <1>1, <1>2, <1>4, RepositoryAssumption DEF OneWriter, DraftIsOfTheAnswer, Rollback
<1>7. HeldIsCurrent'
  BY <1>1, <1>4 DEF HeldIsCurrent, Holds
<1>8. StoredIsCurrent'
  <2> SUFFICES ASSUME NEW v \in Workers, pc'[v] = "list", refresh[v]
               PROVE  rows'[folder[v]] \in current[v]
    BY <1>1 DEF StoredIsCurrent
  <2>1. folder[v] \in Folders
    BY DEF TypeOK
  <2> QED BY <1>3, <1>4, <2>1 DEF StoredIsCurrent
<1>9. FolderIsOneAnswer'
  <2>1. \A f \in Folders : IF f \in filled' THEN rows'[f] \in PossibleRows(f) ELSE rows'[f] = {}
    BY <1>1, <1>3, <1>4 DEF FolderIsOneAnswer
  <2> QED BY <2>1 DEF FolderIsOneAnswer
<1>10. LiveAnswersAreOfTheirTime'
  BY <1>1, <1>4 DEF LiveAnswersAreOfTheirTime
<1> QED BY <1>5, <1>6, <1>7, <1>8, <1>9, <1>10

LEMMA ListKeeps ==
  ASSUME Inv, NEW w \in Workers, List(w)
  PROVE  Inv'
<1> USE DEF Inv
<1>1. /\ pc[w] = "list" /\ pc' = [pc EXCEPT ![w] = "answered"]
      /\ items' = [items EXCEPT ![w] = rows[folder[w]]]
      /\ UNCHANGED <<rows, filled, writer, draft, ready, folder, refresh, nodes, current>>
  BY DEF List, Goto, database
<1>2. /\ \A v \in Workers : v # w => pc'[v] = pc[v] /\ items'[v] = items[v]
      /\ pc'[w] = "answered" /\ items'[w] = rows[folder[w]]
  BY <1>1 DEF TypeOK
<1>3. TypeOK'
  BY <1>1 DEF TypeOK
<1>4. OneWriter' /\ DraftIsOfTheAnswer' /\ HeldIsCurrent'
  <2>1. writer # w
    BY <1>1, RepositoryAssumption DEF OneWriter
  <2> QED BY <1>1, <1>2, <2>1 DEF OneWriter, DraftIsOfTheAnswer, HeldIsCurrent, Holds, TypeOK
<1>5. StoredIsCurrent' /\ LiveAnswersAreOfTheirTime'
  BY <1>1, <1>2 DEF StoredIsCurrent, LiveAnswersAreOfTheirTime
<1>6. FolderIsOneAnswer'
  BY <1>1 DEF FolderIsOneAnswer
<1> QED BY <1>3, <1>4, <1>5, <1>6

-----------------------------------------------------------------------------
(* The steps of others.                                                     *)

LEMMA OthersKeep ==
  ASSUME Inv, ChangeConnection \/ Restart \/ UNCHANGED vars
  PROVE  Inv'
<1> USE DEF Inv
<1>1. CASE ChangeConnection \/ UNCHANGED vars
  <2>1. /\ UNCHANGED <<rows, filled, writer, draft, pc, folder, refresh, nodes, items, current>>
        /\ ready' \in BOOLEAN
    BY <1>1 DEF ChangeConnection, vars, database, requests, TypeOK
  <2> QED BY <2>1 DEF TypeOK, OneWriter, DraftIsOfTheAnswer, HeldIsCurrent, Holds, StoredIsCurrent,
       FolderIsOneAnswer, LiveAnswersAreOfTheirTime
<1>2. CASE Restart
  <2>1. /\ UNCHANGED <<rows, filled, folder, refresh>> /\ Rollback
        /\ \A w \in Workers : pc'[w] = "idle"
        /\ ready' = FALSE
    BY <1>2 DEF Restart
  <2>2. TypeOK'
    BY <1>2, <2>1, NothingHasNoPaths DEF Restart, Rollback, TypeOK
  <2>3. FolderIsOneAnswer'
    BY <2>1 DEF FolderIsOneAnswer
  <2> QED BY <2>1, <2>2, <2>3 DEF OneWriter, DraftIsOfTheAnswer, HeldIsCurrent, Holds, Rollback,
       StoredIsCurrent, LiveAnswersAreOfTheirTime
<1> QED BY <1>1, <1>2

LEMMA Invariance == Spec => []Inv
<1>1. ASSUME Inv, [Next]_vars PROVE Inv'
  <2>1. ASSUME NEW w \in Workers, Work(w) PROVE Inv'
    <3>1. CASE \E a \in Answers[folder[w]] : Receive(w, a)
      BY <1>1, <3>1, ReceiveKeeps
    <3>2. CASE \E a \in Answers[folder[w]] : ReceiveNothing(w, a)
      BY <1>1, <3>2, FailingKeeps DEF ReceiveNothing, Fail, Goto, database
    <3>3. CASE DeleteRows(w) \/ InsertRows(w)
      BY <1>1, <3>3, WritingKeeps
    <3>4. CASE LockTimesOut(w) \/ InsertFails(w) \/ CommitTimesOut(w)
      BY <1>1, <3>4, FailingKeeps DEF LockTimesOut, InsertFails, CommitTimesOut, Fail, Goto,
         Forget, database
    <3>5. CASE Commit(w)
      BY <1>1, <3>5, CommitKeeps
    <3>6. CASE List(w)
      BY <1>1, <3>6, ListKeeps
    <3> QED BY <2>1, <3>1, <3>2, <3>3, <3>4, <3>5, <3>6 DEF Work
  <2> QED BY <1>1, <2>1, AskKeeps, OthersKeep DEF Next
<1> QED BY <1>1, InitInv, PTL DEF Spec

-----------------------------------------------------------------------------
(* Every variable keeps its type, however requests interleave.              *)
THEOREM TypeCorrect == Spec => []TypeOK
<1>1. Inv => TypeOK
  BY DEF Inv
<1> QED BY <1>1, Invariance, PTL

(* Transactions keep others out of a folder that is replaced: whoever       *)
(* writes is between the delete and the commit, and there is one of them.   *)
THEOREM WritersTakeTurns == Spec => []OneWriter
<1>1. Inv => OneWriter
  BY DEF Inv
<1> QED BY <1>1, Invariance, PTL

(* Nobody ever sees a folder that is half replaced, mixed of two answers or *)
(* empty without reason, whatever fails and whenever the process ends.      *)
THEOREM FoldersAreWhole == Spec => []FolderIsOneAnswer
<1>1. Inv => FolderIsOneAnswer
  BY DEF Inv
<1> QED BY <1>1, Invariance, PTL

(* The steps of a replacement implement its one step of FolderCache: only a *)
(* commit changes what others see, by the whole answer that was received.   *)
THEOREM CacheIsAtomic == Spec => ImplementsFolderCache
<1>1. Init => Abstract!Init
  BY DEF Init, Abstract!Init
<1>2. Inv /\ [Next]_vars => [Abstract!Next]_rows
  <2> SUFFICES ASSUME Inv, [Next]_vars
               PROVE  Abstract!Next \/ UNCHANGED rows
    OBVIOUS
  <2>1. ASSUME NEW w \in Workers, Commit(w) PROVE Abstract!Next
    <3>1. pc[w] = "commit" /\ rows' = [rows EXCEPT ![folder[w]] = draft]
      BY <2>1 DEF Commit
    <3>2. writer = w /\ draft = RowsOf(nodes[w]) /\ folder[w] \in Folders
      BY <3>1, RepositoryAssumption DEF Inv, OneWriter, DraftIsOfTheAnswer, TypeOK
    <3>3. draft \in PossibleRows(folder[w])
      BY <3>1, <3>2 DEF Inv, HeldIsCurrent, Holds
    <3> DEFINE possible == [f \in Folders |-> PossibleRows(f)]
    <3>4. draft \in possible[folder[w]]
      BY <3>2, <3>3
    <3> HIDE DEF possible
    <3>5. \E f \in Folders : \E children \in possible[f] : rows' = [rows EXCEPT ![f] = children]
      BY <3>1, <3>2, <3>4
    <3> QED BY <3>5 DEF Abstract!Next, Abstract!Replace, possible
  <2>2. CASE \A w \in Workers : ~Commit(w)
    BY <2>2 DEF Next, Work, Ask, Receive, ReceiveNothing, DeleteRows, LockTimesOut, InsertRows,
                InsertFails, CommitTimesOut, List, ChangeConnection, Restart, vars, database
  <2> QED BY <2>1, <2>2
<1> QED BY <1>1, <1>2, Invariance, PTL DEF Spec, ImplementsFolderCache, Abstract!Spec

(* A live answer is never older than the request, whoever else replaces the *)
(* folder between its replacement and its reading of the list.              *)
THEOREM LiveAnswersAreCurrent == Spec => []LiveAnswersAreOfTheirTime
<1>1. Inv => LiveAnswersAreOfTheirTime
  BY DEF Inv
<1> QED BY <1>1, Invariance, PTL

-----------------------------------------------------------------------------
(* The list of objects on the page.                                         *)

LEMMA SubSeqParts ==
    ASSUME NEW S, NEW s \in Seq(S), NEW m \in Nat, NEW n \in Nat, m <= n, n <= Len(s)
    PROVE  /\ SubSeq(s, 1, m) \o SubSeq(s, m + 1, n) = SubSeq(s, 1, n)
           /\ SubSeq(s, 1, Len(s)) = s
<1>1. SubSeq(s, 1, m) \in Seq(S) /\ Len(SubSeq(s, 1, m)) = m
      /\ \A i \in 1..m : SubSeq(s, 1, m)[i] = s[i]
  OBVIOUS
<1>2. SubSeq(s, m + 1, n) \in Seq(S) /\ Len(SubSeq(s, m + 1, n)) = n - m
      /\ \A i \in 1..n - m : SubSeq(s, m + 1, n)[i] = s[i + m]
  OBVIOUS
<1>3. SubSeq(s, 1, n) \in Seq(S) /\ Len(SubSeq(s, 1, n)) = n
      /\ \A i \in 1..n : SubSeq(s, 1, n)[i] = s[i]
  OBVIOUS
<1>4. SubSeq(s, 1, Len(s)) = s
  OBVIOUS
<1> DEFINE a == SubSeq(s, 1, m) b == SubSeq(s, m + 1, n) c == SubSeq(s, 1, n)
<1> HIDE DEF a, b, c
<1>5. a \o b = c
  BY <1>1, <1>2, <1>3 DEF a, b, c
<1> QED
  BY <1>4, <1>5 DEF a, b, c

ListCall == [snapshot : Snapshots, search : Searches, from : Nat, latest : BOOLEAN]
AnalysisCall == [stage : {"lineage", "capture", "reload", "repeat"}, snapshot : Snapshots,
                 object : Objects \cup {NoObject}, latest : BOOLEAN]

(* Of the calls for the list one is the latest. It is of the selected       *)
(* snapshot and, unless the timer is about to ask again, of the search.     *)
CallsInv ==
    /\ snapshot \in Snapshots /\ search \in Searches /\ cursor \in Nat
    /\ object \in Objects \cup {NoObject}
    /\ timer \in BOOLEAN /\ stale \in BOOLEAN
    /\ objects \in Seq(Objects)
    /\ lists \subseteq ListCall /\ analyses \subseteq AnalysisCall
    /\ \A c, d \in lists : c.latest /\ d.latest => c = d
    /\ \A c \in lists : c.latest => c.snapshot = snapshot /\ (timer \/ c.search = search)

(* The list is asked for from its beginning.                                *)
Waiting == timer \/ \E c \in lists : c.latest /\ c.from = 0

(* The list is that of the search up to the cursor, and the latest call, if *)
(* one is under way, asks for what comes behind it.                         *)
Whole ==
    /\ listedOf = snapshot /\ objects = Loaded
    /\ cursor # 0 => cursor < Len(Found[snapshot][search])
    /\ \A c \in lists : c.latest => c.from = cursor /\ cursor # 0

ListInv == CallsInv /\ (~Waiting /\ ~stale => Whole)

-----------------------------------------------------------------------------
LEMMA LateCalls ==
    /\ \A S : S \subseteq ListCall =>
         Late(S) \subseteq ListCall /\ \A c \in Late(S) : ~c.latest
    /\ \A S : S \subseteq AnalysisCall => Late(S) \subseteq AnalysisCall
<1>1. ASSUME NEW c \in ListCall
      PROVE  [c EXCEPT !.latest = FALSE] \in ListCall /\ ~[c EXCEPT !.latest = FALSE].latest
  BY DEF ListCall
<1>2. ASSUME NEW c \in AnalysisCall PROVE [c EXCEPT !.latest = FALSE] \in AnalysisCall
  BY DEF AnalysisCall
<1> QED
  BY <1>1, <1>2 DEF Late

(* Without a latest call and with the timer set, nothing is claimed.        *)
LEMMA AskedAgain ==
    ASSUME lists' \subseteq ListCall, \A c \in lists' : ~c.latest,
           snapshot' \in Snapshots, search' \in Searches, cursor' \in Nat,
           object' \in Objects \cup {NoObject}, stale' \in BOOLEAN, objects' \in Seq(Objects),
           analyses' \subseteq AnalysisCall, timer' = TRUE
    PROVE  ListInv'
  BY DEF ListInv, CallsInv, Waiting

LEMMA SameList ==
    ASSUME ListInv, UNCHANGED <<snapshot, search, timer, objects, listedOf, cursor, stale, lists>>,
           object' \in Objects \cup {NoObject}, analyses' \subseteq AnalysisCall
    PROVE  ListInv'
<1>1. CallsInv'
  BY DEF ListInv, CallsInv
<1>2. Waiting' = Waiting /\ Loaded' = Loaded
  BY DEF Waiting, Loaded
<1>3. Whole => Whole'
  BY <1>2 DEF Whole
<1> QED
  BY <1>1, <1>2, <1>3 DEF ListInv

LEMMA NoObjects == <<>> \in Seq(Objects)
  OBVIOUS

LEMMA InitList == ASSUME PageInit PROVE ListInv
<1>1. timer = TRUE /\ Waiting
  BY DEF PageInit, Waiting
<1>2. CallsInv
  <2>1. /\ snapshot \in Snapshots /\ search \in Searches /\ cursor \in Nat
        /\ object \in Objects \cup {NoObject} /\ timer \in BOOLEAN /\ stale \in BOOLEAN
    BY PageAssumption DEF PageInit
  <2>2. objects \in Seq(Objects)
    BY NoObjects DEF PageInit
  <2>3. lists = {} /\ analyses = {}
    BY DEF PageInit
  <2> QED
    BY <2>1, <2>2, <2>3 DEF CallsInv
<1> QED
  BY <1>1, <1>2 DEF ListInv

LEMMA Selected ==
    ASSUME NEW shown \in Seq(Objects), NEW obj \in Objects \cup {NoObject}, NEW hid,
           Select(shown, obj, hid)
    PROVE  object' \in Objects \cup {NoObject}
  BY DEF Select, Hides

LEMMA SearchList ==
    ASSUME ListInv, NEW q \in Searches, Search(q)
    PROVE  ListInv'
<1>1. /\ search' = q /\ timer' = TRUE /\ Select(Current, object, FALSE)
      /\ UNCHANGED <<snapshot, objects, listedOf, cursor, stale, lists, analyses>>
  BY DEF Search, list
<1>2. Current \in Seq(Objects)
  BY DEF Current, ListInv, CallsInv
<1>3. object' \in Objects \cup {NoObject}
  BY <1>1, <1>2, Selected DEF ListInv, CallsInv
<1> QED
  BY <1>1, <1>3 DEF ListInv, CallsInv, Waiting

LEMMA TimerFiresList ==
    ASSUME ListInv, TimerFires
    PROVE  ListInv'
<1> DEFINE new == [snapshot |-> snapshot, search |-> search, from |-> 0, latest |-> TRUE]
<1>1. /\ timer' = FALSE /\ lists' = Late(lists) \cup {new}
      /\ UNCHANGED <<snapshot, object, search, objects, listedOf, cursor, stale, analyses>>
  BY DEF TimerFires, AskList, selection, list
<1>2. Late(lists) \subseteq ListCall /\ \A c \in Late(lists) : ~c.latest
  BY LateCalls DEF ListInv, CallsInv
<1>3. /\ new \in ListCall /\ new.snapshot = snapshot /\ new.search = search
      /\ new.from = 0 /\ new.latest
  BY DEF ListCall, ListInv, CallsInv
<1> HIDE DEF new
<1>4. Waiting'
  BY <1>1, <1>3 DEF Waiting
<1>5. CallsInv'
  BY <1>1, <1>2, <1>3 DEF ListInv, CallsInv
<1> QED
  BY <1>4, <1>5 DEF ListInv

LEMMA LoadMoreList ==
    ASSUME ListInv, Quiet, LoadMore
    PROVE  ListInv'
<1> DEFINE new == [snapshot |-> snapshot, search |-> search, from |-> cursor, latest |-> TRUE]
<1>1. /\ listedOf = snapshot /\ cursor # 0 /\ timer' = timer /\ timer = FALSE /\ lists = {}
      /\ lists' = Late(lists) \cup {new}
      /\ UNCHANGED <<snapshot, object, search, objects, listedOf, cursor, stale, analyses>>
  BY DEF LoadMore, AskList, selection, list, Quiet, ListInv, CallsInv
<1>2. /\ new \in ListCall /\ new.snapshot = snapshot /\ new.search = search
      /\ new.from = cursor /\ new.latest
  BY DEF ListCall, ListInv, CallsInv
<1> HIDE DEF new
<1>3. lists' = {new}
  BY <1>1 DEF Late
<1>4. CallsInv'
  BY <1>1, <1>2, <1>3 DEF ListInv, CallsInv
<1>5. ~Waiting
  BY <1>1 DEF Waiting
<1>6. Loaded' = Loaded
  BY <1>1 DEF Loaded
<1>7. ~stale' => Whole'
  BY <1>1, <1>2, <1>3, <1>5, <1>6 DEF ListInv, Whole
<1> QED
  BY <1>4, <1>7 DEF ListInv

(* An answer to the latest call: the first page, or the next one behind     *)
(* those that are there.                                                    *)
LEMMA ListAnsweredList ==
    ASSUME ListInv, NEW c \in lists, ListAnswered(c)
    PROVE  ListInv'
<1> DEFINE found == FoundBy(c)
           last == IF c.from + PageSize < Len(found) THEN c.from + PageSize ELSE Len(found)
           shown == IF c.from = 0 THEN PageOf(c) ELSE objects \o PageOf(c)
<1>1. /\ c.latest /\ c.snapshot = snapshot
      /\ objects' = shown /\ listedOf' = c.snapshot /\ cursor' = NextPage(c)
      /\ stale' = (stale /\ c.from # 0) /\ lists' = lists \ {c}
      /\ Select(shown, object, hidden)
      /\ UNCHANGED <<snapshot, search, timer, analyses>>
  BY DEF ListAnswered, LatestList
<1>2. /\ c \in ListCall /\ c.from \in Nat /\ c.search \in Searches /\ PageSize \in Nat \ {0}
      /\ found = Found[snapshot][c.search] /\ found \in Seq(Objects) /\ Len(found) \in Nat
  BY <1>1, PageAssumption DEF FoundBy, ListInv, CallsInv, ListCall
<1>3. /\ PageOf(c) = SubSeq(found, c.from + 1, last)
      /\ NextPage(c) = IF c.from + PageSize < Len(found) THEN c.from + PageSize ELSE 0
  BY DEF PageOf, NextPage
<1> HIDE DEF found
<1>4. PageOf(c) \in Seq(Objects)
  BY <1>2, <1>3
<1>5. shown \in Seq(Objects)
  BY <1>4 DEF ListInv, CallsInv
<1>6. object' \in Objects \cup {NoObject}
  BY <1>1, <1>5, Selected DEF ListInv, CallsInv
<1>7. NextPage(c) \in Nat
  BY <1>2, <1>3
<1>8. CallsInv'
  BY <1>1, <1>5, <1>6, <1>7 DEF ListInv, CallsInv
<1>9. \A d \in lists' : ~d.latest
  BY <1>1 DEF ListInv, CallsInv
<1>10. ASSUME ~timer, ~stale' PROVE Whole'
  <2>1. found = Found[snapshot][search]
    BY <1>1, <1>2, <1>10 DEF ListInv, CallsInv
  <2>2. /\ cursor' = IF c.from + PageSize < Len(found) THEN c.from + PageSize ELSE 0
        /\ listedOf' = snapshot'
        /\ cursor' # 0 => cursor' < Len(found)
    BY <1>1, <1>2, <1>3
  <2>3. objects' = SubSeq(found, 1, last)
    <3>1. CASE c.from = 0
      BY <1>1, <1>3, <3>1
    <3>2. CASE c.from # 0
      <4>1. ~Waiting /\ ~stale
        BY <1>1, <1>10, <3>2 DEF Waiting, ListInv, CallsInv
      <4>2. Whole
        BY <4>1 DEF ListInv
      <4>3. c.from = cursor /\ cursor # 0 /\ cursor < Len(found) /\ objects = Loaded
        BY <1>1, <2>1, <4>2 DEF Whole
      <4>4. objects = SubSeq(found, 1, c.from)
        BY <2>1, <4>3 DEF Loaded
      <4>5. c.from \in Nat /\ last \in Nat /\ c.from <= last /\ last <= Len(found)
        BY <1>2, <4>3
      <4> HIDE DEF last
      <4>6. SubSeq(found, 1, c.from) \o SubSeq(found, c.from + 1, last) = SubSeq(found, 1, last)
        BY <1>2, <4>5, SubSeqParts
      <4> QED
        BY <1>1, <1>3, <3>2, <4>4, <4>6
    <3> QED
      BY <3>1, <3>2
  <2>4. Loaded' = IF cursor' = 0 THEN found ELSE SubSeq(found, 1, cursor')
    BY <1>1, <2>1 DEF Loaded
  <2>5. objects' = Loaded'
    <3>1. SubSeq(found, 1, Len(found)) = found
      BY <1>2, SubSeqParts
    <3>2. CASE c.from + PageSize < Len(found)
      BY <1>2, <2>2, <2>3, <2>4, <3>2
    <3>3. CASE ~(c.from + PageSize < Len(found))
      BY <2>2, <2>3, <2>4, <3>1, <3>3
    <3> QED
      BY <3>2, <3>3
  <2> QED
    BY <1>1, <1>9, <2>1, <2>2, <2>5 DEF Whole
<1>11. Waiting' \/ ~timer
  BY <1>1 DEF Waiting
<1> QED
  BY <1>8, <1>10, <1>11 DEF ListInv, CallsInv

LEMMA ListFailedList ==
    ASSUME ListInv, NEW c \in lists, ListFailed(c)
    PROVE  ListInv'
<1>1. /\ stale' = TRUE /\ lists' = lists \ {c}
      /\ UNCHANGED <<snapshot, object, search, timer, objects, cursor, analyses>>
  BY DEF ListFailed, selection
<1>2. CallsInv'
  BY <1>1 DEF ListInv, CallsInv
<1> QED
  BY <1>1, <1>2 DEF ListInv

LEMMA ListTooLateList ==
    ASSUME ListInv, NEW c \in lists, ListTooLate(c)
    PROVE  ListInv'
<1>1. /\ ~(c.latest /\ c.snapshot = snapshot) /\ lists' = lists \ {c}
      /\ UNCHANGED <<snapshot, object, search, timer, objects, listedOf, cursor, stale, analyses>>
  BY DEF ListTooLate, LatestList, selection, list
<1>2. ~c.latest
  BY <1>1 DEF ListInv, CallsInv
<1>3. CallsInv'
  BY <1>1 DEF ListInv, CallsInv
<1>4. Waiting' = Waiting /\ Loaded' = Loaded
  BY <1>1, <1>2 DEF Waiting, Loaded
<1>5. Whole => Whole'
  BY <1>1, <1>4 DEF Whole
<1> QED
  BY <1>1, <1>3, <1>4, <1>5 DEF ListInv

LEMMA ChoiceList ==
    ASSUME ListInv,
           \/ \E s \in Snapshots : ChooseSnapshot(s)
           \/ \E o \in Objects : ChooseObject(o) \/ ChooseNode(o)
    PROVE  ListInv'
<1>1. Late(analyses) \subseteq AnalysisCall
  BY LateCalls DEF ListInv, CallsInv
<1>2. Late(lists) \subseteq ListCall /\ \A c \in Late(lists) : ~c.latest
  BY LateCalls DEF ListInv, CallsInv
<1>3. ASSUME NEW s \in Snapshots, ChooseSnapshot(s) PROVE ListInv'
  <2>1. /\ snapshot' = s /\ object' = NoObject /\ timer' = TRUE /\ analyses' = Late(analyses)
        /\ objects' = <<>> /\ cursor' = 0 /\ stale' = FALSE /\ lists' = Late(lists)
        /\ search' = search
    BY <1>3 DEF ChooseSnapshot, Empty
  <2>2. /\ snapshot' \in Snapshots /\ search' \in Searches /\ cursor' \in Nat
        /\ object' \in Objects \cup {NoObject} /\ stale' \in BOOLEAN
    BY <2>1 DEF ListInv, CallsInv
  <2>3. objects' \in Seq(Objects)
    BY <2>1, NoObjects
  <2>4. analyses' \subseteq AnalysisCall
    BY <1>1, <2>1
  <2> QED
    BY <1>2, <2>1, <2>2, <2>3, <2>4, AskedAgain
<1>4. ASSUME NEW o \in Objects, ChooseObject(o) \/ ChooseNode(o) PROVE ListInv'
  <2>1. /\ object' = o /\ analyses' = Late(analyses)
        /\ UNCHANGED <<snapshot, search, timer, objects, listedOf, cursor, stale, lists>>
    BY <1>4 DEF ChooseObject, ChooseNode, list
  <2> QED
    BY <1>1, <2>1, SameList
<1> QED
  BY <1>3, <1>4

LEMMA AskingList ==
    ASSUME ListInv, RunLineage \/ Refresh
    PROVE  ListInv'
<1>1. UNCHANGED <<snapshot, object, search, timer, objects, listedOf, cursor, stale, lists>>
  BY DEF RunLineage, Refresh, selection, list
<1>2. \E stage \in {"lineage", "capture"} :
        analyses' = Late(analyses) \cup
          {[stage |-> stage, snapshot |-> snapshot, object |-> object, latest |-> TRUE]}
  BY DEF RunLineage, Refresh, AskAnalysis
<1>3. Late(analyses) \subseteq AnalysisCall
  BY LateCalls DEF ListInv, CallsInv
<1>4. PICK stage \in {"lineage", "capture"} :
        analyses' = Late(analyses) \cup
          {[stage |-> stage, snapshot |-> snapshot, object |-> object, latest |-> TRUE]}
  BY <1>2
<1>5. [stage |-> stage, snapshot |-> snapshot, object |-> object, latest |-> TRUE] \in AnalysisCall
  BY DEF ListInv, CallsInv, AnalysisCall
<1>6. analyses' \subseteq AnalysisCall
  BY <1>3, <1>4, <1>5
<1> QED
  BY <1>1, <1>6, SameList DEF ListInv, CallsInv

LEMMA AnalysisList ==
    ASSUME ListInv, NEW c \in analyses,
           \/ LineageAnswered(c) \/ LineageTooLate(c)
           \/ \E s \in Snapshots : RefreshCaptured(c, s)
           \/ RefreshReloaded(c) \/ RefreshRepeated(c) \/ RefreshEnds(c)
    PROVE  ListInv'
<1>1. c \in AnalysisCall /\ analyses \subseteq AnalysisCall /\ object \in Objects \cup {NoObject}
  BY DEF ListInv, CallsInv
<1>2. CASE LineageAnswered(c) \/ LineageTooLate(c) \/ RefreshRepeated(c)
           \/ RefreshEnds(c)
  <2>1. /\ UNCHANGED <<snapshot, object, search, timer, objects, listedOf, cursor, stale, lists>>
        /\ analyses' = analyses \ {c}
    BY <1>2 DEF LineageAnswered, LineageTooLate, RefreshRepeated,
                RefreshEnds, selection, list
  <2> QED
    BY <1>1, <2>1, SameList
<1>3. ASSUME NEW s \in Snapshots, RefreshCaptured(c, s) PROVE ListInv'
  <2>1. [c EXCEPT !.stage = "reload", !.snapshot = s] \in AnalysisCall
    BY <1>1 DEF AnalysisCall
  <2>2. /\ UNCHANGED <<snapshot, object, search, timer, objects, listedOf, cursor, stale, lists>>
        /\ \/ analyses' = analyses \ {c}
           \/ analyses' = (analyses \ {c}) \cup {[c EXCEPT !.stage = "reload", !.snapshot = s]}
    BY <1>3 DEF RefreshCaptured, selection, list
  <2>3. analyses' \subseteq AnalysisCall
    BY <1>1, <2>1, <2>2
  <2> QED
    BY <1>1, <2>2, <2>3, SameList
<1>4. CASE RefreshReloaded(c)
  <2>1. /\ snapshot' = c.snapshot /\ timer' = TRUE /\ search' = search
        /\ objects' = <<>> /\ cursor' = 0 /\ stale' = FALSE /\ lists' = Late(lists)
        /\ \/ analyses' = Late(analyses \ {c}) /\ object' = object
           \/ /\ analyses' = Late(analyses \ {c}) \cup {[c EXCEPT !.stage = "repeat"]}
              /\ object' = c.object
    BY <1>4 DEF RefreshReloaded, Empty
  <2>2. /\ c.snapshot \in Snapshots /\ c.object \in Objects \cup {NoObject}
        /\ [c EXCEPT !.stage = "repeat"] \in AnalysisCall
    BY <1>1 DEF AnalysisCall
  <2>3. analyses \ {c} \subseteq AnalysisCall
    BY <1>1
  <2>4. Late(analyses \ {c}) \subseteq AnalysisCall
    BY <2>3, LateCalls
  <2>5. analyses' \subseteq AnalysisCall /\ object' \in Objects \cup {NoObject}
    BY <1>1, <2>1, <2>2, <2>4
  <2>6. Late(lists) \subseteq ListCall /\ \A d \in Late(lists) : ~d.latest
    BY LateCalls DEF ListInv, CallsInv
  <2>7. /\ snapshot' \in Snapshots /\ search' \in Searches /\ cursor' \in Nat
        /\ stale' \in BOOLEAN
    BY <2>1, <2>2 DEF ListInv, CallsInv
  <2>8. objects' \in Seq(Objects)
    BY <2>1, NoObjects
  <2> QED
    BY <2>1, <2>5, <2>6, <2>7, <2>8, AskedAgain
<1> QED
  BY <1>2, <1>3, <1>4

(* Only patient users: a page that is loaded behind a list that is just     *)
(* asked for again is put behind another list.                              *)
LEMMA ListInvariance == PatientSpec => []ListInv
<1>1. ASSUME ListInv, Others PROVE ListInv'
  <2>1. CASE \E q \in Searches : Search(q)
    BY <1>1, <2>1, SearchList
  <2>2. CASE TimerFires
    BY <1>1, <2>2, TimerFiresList
  <2>3. CASE \E c \in lists : ListAnswered(c) \/ ListFailed(c) \/ ListTooLate(c)
    BY <1>1, <2>3, ListAnsweredList, ListFailedList, ListTooLateList
  <2>4. CASE \/ \E s \in Snapshots : ChooseSnapshot(s)
             \/ \E o \in Objects : ChooseObject(o) \/ ChooseNode(o)
    BY <1>1, <2>4, ChoiceList, Zenon
  <2>5. CASE RunLineage \/ Refresh
    BY <1>1, <2>5, AskingList, Zenon
  <2>6. CASE \E c \in analyses :
               \/ LineageAnswered(c) \/ LineageTooLate(c)
               \/ \E s \in Snapshots : RefreshCaptured(c, s)
               \/ RefreshReloaded(c) \/ RefreshRepeated(c) \/ RefreshEnds(c)
    BY <1>1, <2>6, AnalysisList, Zenon
  <2> QED
    BY <1>1, <2>1, <2>2, <2>3, <2>4, <2>5, <2>6, Zenon DEF Others
<1>2. ASSUME ListInv, UNCHANGED pageVars PROVE ListInv'
  <2>1. UNCHANGED <<snapshot, object, search, timer, objects, listedOf, cursor, stale, lists,
                    analyses>>
    BY <1>2 DEF pageVars, selection, list
  <2> QED
    BY <1>2, <2>1, SameList DEF ListInv, CallsInv
<1>3. ListInv /\ [Others \/ (Quiet /\ LoadMore)]_pageVars => ListInv'
  BY <1>1, <1>2, LoadMoreList
<1>4. PageInit => ListInv
  BY InitList
<1> QED
  BY <1>3, <1>4, PTL DEF PatientSpec

(* Whatever answers come late, in another order or not at all: when no list *)
(* is asked for, the page shows that of its search, page after page.        *)
THEOREM ListIsAlwaysOfTheSearch == PatientSpec => []ListIsOfTheSearch
<1>1. ListInv => ListIsOfTheSearch
  BY DEF ListInv, Whole, Waiting, Quiet, ListIsOfTheSearch
<1> QED
  BY <1>1, ListInvariance, PTL

-----------------------------------------------------------------------------
(* No late analysis, and no refresh that selects another snapshot, leaves a *)
(* lineage on the page that is not of the selected snapshot.                *)
THEOREM LineageIsAlwaysOfTheSnapshot == PageSpec => []LineageIsOfTheSnapshot
<1> DEFINE Of == LineageIsOfTheSnapshot
<1>1. PageInit => Of
  BY DEF PageInit, LineageIsOfTheSnapshot
<1>2. ASSUME Of, PageNext PROVE Of'
  <2>1. CASE \E q \in Searches : Search(q)
    BY <1>2, <2>1 DEF Search, ShowIfKept, LineageIsOfTheSnapshot
  <2>2. CASE TimerFires \/ LoadMore
    BY <1>2, <2>2 DEF TimerFires, LoadMore, selection, LineageIsOfTheSnapshot
  <2>3. CASE \E c \in lists : ListAnswered(c) \/ ListFailed(c) \/ ListTooLate(c)
    BY <1>2, <2>3 DEF ListAnswered, ListFailed, ListTooLate, ShowIfKept,
                      selection, LineageIsOfTheSnapshot
  <2>4. CASE \/ \E s \in Snapshots : ChooseSnapshot(s)
             \/ \E o \in Objects : ChooseObject(o) \/ ChooseNode(o)
    BY <1>2, <2>4 DEF ChooseSnapshot, ChooseObject, ChooseNode,
                      LineageIsOfTheSnapshot
  <2>5. CASE RunLineage \/ Refresh
    BY <1>2, <2>5 DEF RunLineage, Refresh, selection, LineageIsOfTheSnapshot
  <2>6. ASSUME NEW c \in analyses,
               \/ LineageAnswered(c) \/ LineageTooLate(c)
               \/ \E s \in Snapshots : RefreshCaptured(c, s)
               \/ RefreshReloaded(c) \/ RefreshRepeated(c) \/ RefreshEnds(c)
        PROVE  Of'
    <3>1. CASE LineageAnswered(c)
      <4>1. snapshot' = snapshot /\ c.snapshot = snapshot
        BY <3>1 DEF LineageAnswered, LatestAnalysis, selection
      <4>2. CASE Show(c)
        BY <4>1, <4>2 DEF Show, LineageIsOfTheSnapshot
      <4>3. CASE UNCHANGED lineage
        BY <1>2, <4>1, <4>3 DEF LineageIsOfTheSnapshot
      <4> QED
        BY <3>1, <4>2, <4>3 DEF LineageAnswered
    <3>2. CASE \/ LineageTooLate(c) \/ RefreshEnds(c)
               \/ \E s \in Snapshots : RefreshCaptured(c, s)
      <4>1. UNCHANGED <<lineage, snapshot>>
        BY <3>2 DEF LineageTooLate, RefreshEnds, RefreshCaptured, selection
      <4> QED
        BY <1>2, <4>1 DEF LineageIsOfTheSnapshot
    <3>3. CASE RefreshReloaded(c)
      BY <3>3 DEF RefreshReloaded, ForgetLineage, LineageIsOfTheSnapshot
    <3>4. CASE RefreshRepeated(c)
      BY <1>2, <3>4 DEF RefreshRepeated, Show, LatestAnalysis, selection,
                        LineageIsOfTheSnapshot
    <3> QED
      BY <2>6, <3>1, <3>2, <3>3, <3>4
  <2> QED
    BY <1>2, <2>1, <2>2, <2>3, <2>4, <2>5, <2>6, Zenon DEF PageNext, Others
<1>3. ASSUME Of, UNCHANGED pageVars PROVE Of'
  BY <1>3 DEF pageVars, selection, LineageIsOfTheSnapshot
<1> QED
  BY <1>1, <1>2, <1>3, PTL DEF PageSpec
=============================================================================

--------------------------- MODULE CaptureProofs ---------------------------
(***************************************************************************)
(* Theorems about the two sides of a capture: CatalogCapture, the          *)
(* transactions of the store, for any number of captures and readers and   *)
(* any finite set of objects; LiveCapture, the calls it makes and its      *)
(* refresh, for any requests and names.                                    *)
(***************************************************************************)
EXTENDS CatalogCapture, LiveCapture, FiniteSetTheorems, WellFoundedInduction, TLAPS

LEMMA CatalogsAreFinite ==
  ASSUME NEW k \in Catalog
  PROVE  Cardinality(k.objs) \in Nat /\ Cardinality(k.edges) \in Nat
<1>1. IsFiniteSet(Nodes \X Nodes)
  BY CatalogAssumption, FS_Product
<1>2. k.objs \in SUBSET Nodes /\ k.edges \in SUBSET (Nodes \X Nodes)
  BY DEF Catalog
<1>3. IsFiniteSet(k.objs) /\ IsFiniteSet(k.edges)
  BY <1>1, <1>2, CatalogAssumption, FS_Subset
<1> QED BY <1>3, FS_CardinalityType

(* Type correctness: the tables, the requests and the readers only ever hold *)
(* objects and edges a capture may deliver.                                  *)
THEOREM TypeCorrect == Spec => []TypeOK
<1> USE DEF TypeOK
<1>1. Init => TypeOK
  BY DEF Init, EmptyCatalog, Catalog, IdleReader
<1>2. TypeOK /\ [Next]_vars => TypeOK'
  <2> SUFFICES ASSUME TypeOK, [Next]_vars PROVE TypeOK' OBVIOUS
  <2>1. CASE UNCHANGED vars
    BY <2>1 DEF vars, tables
  <2>2. ASSUME NEW c \in Captures, NEW k \in Contents, CreateSnapshot(c, k) PROVE TypeOK'
    <3>1. k \in Catalog
      BY CatalogAssumption
    <3> QED BY <2>2, <3>1 DEF CreateSnapshot, Goto, Running
  <2>3. ASSUME NEW c \in Captures, ReplaceCatalog(c) PROVE TypeOK'
    <3>1. content[c] \in Catalog
      OBVIOUS
    <3>2. /\ content[c].objs \in SUBSET Nodes /\ content[c].edges \in SUBSET (Nodes \X Nodes)
          /\ Cardinality(content[c].objs) \in Nat /\ Cardinality(content[c].edges) \in Nat
      BY <3>1, CatalogsAreFinite DEF Catalog
    <3> QED BY <2>3, <3>2 DEF ReplaceCatalog, Goto, Running
  <2>4. ASSUME NEW c \in Captures, ReplaceScope(c) PROVE TypeOK'
    <3>1. content[c].objs \in SUBSET Nodes
      BY DEF Catalog
    <3> QED BY <2>4, <3>1 DEF ReplaceScope, Goto, Running
  <2>5. ASSUME NEW c \in Captures,
               CollectFails(c) \/ Respond(c) \/ StoreFails(c) \/ DeleteFails(c)
        PROVE  TypeOK'
    BY <2>5 DEF CollectFails, Respond, StoreFails, DeleteFails, Goto, Running, Ended, tables
  <2>6. ASSUME NEW c \in Captures, DeleteSnapshot(c) PROVE TypeOK'
    BY <2>6 DEF DeleteSnapshot, Goto, Ended
  <2>7. ASSUME NEW r \in Readers, NEW c \in Captures, Lookup(r, c) PROVE TypeOK'
    BY <2>7 DEF Lookup, IdleReader, tables
  <2>8. ASSUME NEW r \in Readers, ReadObjects(r) PROVE TypeOK'
    <3>1. objs[reader[r].of] \in SUBSET Nodes
      BY <2>8 DEF ReadObjects
    <3> QED BY <2>8, <3>1 DEF ReadObjects, tables
  <2>9. ASSUME NEW r \in Readers, ReadEdges(r) PROVE TypeOK'
    <3> DEFINE read == edges[reader[r].of]
               at == IF Closed(reader[r].objs, read) THEN "answered" ELSE "refused"
    <3>1. read \in SUBSET (Nodes \X Nodes)
      BY <2>9 DEF ReadEdges
    <3>2. at \in {"answered", "refused"}
      OBVIOUS
    <3>3. reader' = [reader EXCEPT ![r] = [@ EXCEPT !.edges = read, !.at = at]]
          /\ UNCHANGED <<tables, step, content>> /\ reader[r].of \in Captures
      BY <2>9 DEF ReadEdges
    <3> HIDE DEF read, at
    <3>4. UNCHANGED <<rows, counts, objs, edges, scope, step, content>>
      BY <3>3 DEF tables
    <3>5. /\ reader'[r].at = at /\ reader'[r].of = reader[r].of
          /\ \A q \in Readers : q # r => reader'[q] = reader[q]
      BY <3>3
    <3>6. reader' \in [Readers -> [at : {"idle", "objects", "edges", "answered", "refused"},
                                 of : Captures \cup {Absent}, sure : BOOLEAN,
                                 objs : SUBSET Nodes, edges : SUBSET (Nodes \X Nodes)]]
      <4> DEFINE R == [at : {"idle", "objects", "edges", "answered", "refused"},
                       of : Captures \cup {Absent}, sure : BOOLEAN,
                       objs : SUBSET Nodes, edges : SUBSET (Nodes \X Nodes)]
                 now == [reader[r] EXCEPT !.edges = read, !.at = at]
      <4>1. reader \in [Readers -> R] /\ reader[r] \in R
        OBVIOUS
      <4>2. now \in R
        BY <3>1, <3>2, <4>1
      <4>3. reader' = [reader EXCEPT ![r] = now]
        BY <3>3, <4>1
      <4> HIDE DEF R, now, TypeOK
      <4>4. reader' \in [Readers -> R]
        BY <4>1, <4>2, <4>3
      <4> QED
        BY <4>4 DEF R
    <3>7. \A q \in Readers : reader'[q].at # "idle" => reader'[q].of \in Captures
      <4>1. \A q \in Readers : reader[q].at # "idle" => reader[q].of \in Captures
        OBVIOUS
      <4>2. reader'[r].of \in Captures
        BY <3>3, <3>5
      <4> HIDE DEF TypeOK
      <4> QED
        BY <3>5, <4>1, <4>2, Zenon
    <3>8. /\ rows' \subseteq Captures /\ counts' \in [Captures -> [objs : Nat, edges : Nat]]
          /\ objs' \in [Captures -> SUBSET Nodes] /\ edges' \in [Captures -> SUBSET (Nodes \X Nodes)]
          /\ scope' \in [Captures -> SUBSET Nodes]
          /\ step' \in [Captures -> {"new"} \cup Running \cup Ended]
          /\ content' \in [Captures -> Catalog]
      BY <3>4
    <3> QED BY <3>6, <3>7, <3>8, Zenon
  <2>10. ASSUME NEW r \in Readers, FinishRead(r) PROVE TypeOK'
    BY <2>10 DEF FinishRead, IdleReader, tables
  <2>11. CASE Crash
    BY <2>11 DEF Crash, IdleReader, Running, Ended, tables
  <2> QED BY <2>1, <2>2, <2>3, <2>4, <2>5, <2>6, <2>7, <2>8, <2>9, <2>10, <2>11 DEF Next
<1> QED BY <1>1, <1>2, PTL DEF Spec

-----------------------------------------------------------------------------
(* How far a capture has come says what the tables hold for its snapshot.    *)
(* The row exists from its creation until a successful cleanup; the catalog  *)
(* and the scope only ever go from empty to whole, and back by the cleanup.  *)

Whole(c) == Stored(c) = content[c]

Empty(c) == Stored(c) = EmptyCatalog /\ scope[c] = {}

RowSize(c) == [objs |-> Cardinality(objs[c]), edges |-> Cardinality(edges[c])]

CaptureInv(c) ==
    /\ c \in rows <=> step[c] \notin {"new", "failed"}
    /\ c \in rows => counts[c] = RowSize(c) /\ content[c] \in Contents
    /\ step[c] \in {"new", "failed", "created"} => Empty(c)
    /\ step[c] = "catalogued" => Whole(c) /\ scope[c] = {}
    /\ step[c] \in {"scoped", "ok"} => Whole(c)
    /\ step[c] \in {"cleanup", "stuck", "dead"} => Empty(c) \/ Whole(c)

Inv == \A c \in Captures : CaptureInv(c)

CaptureStep(c) ==
    \/ \E k \in Contents : CreateSnapshot(c, k)
    \/ CollectFails(c) \/ ReplaceCatalog(c) \/ ReplaceScope(c) \/ Respond(c)
    \/ StoreFails(c) \/ DeleteSnapshot(c) \/ DeleteFails(c)

ReaderStep(r) ==
    (\E c \in Captures : Lookup(r, c)) \/ ReadObjects(r) \/ ReadEdges(r) \/ FinishRead(r)

Untouched(d) ==
    /\ UNCHANGED <<objs[d], edges[d], scope[d], step[d], content[d], counts[d]>>
    /\ d \in rows <=> d \in rows'

(* Every step is one of a capture, a crash, or leaves the tables alone.      *)
LEMMA StepCases ==
  ASSUME [Next]_vars
  PROVE  \/ \E c \in Captures : CaptureStep(c)
         \/ Crash
         \/ UNCHANGED <<tables, step, content>>
<1>1. CASE UNCHANGED vars
  BY <1>1 DEF vars, tables
<1>2. ASSUME NEW r \in Readers, ReaderStep(r) PROVE UNCHANGED <<tables, step, content>>
  BY <1>2 DEF ReaderStep, Lookup, ReadObjects, ReadEdges, FinishRead
<1>3. Next => (\E c \in Captures : CaptureStep(c)) \/ (\E r \in Readers : ReaderStep(r)) \/ Crash
  BY Zenon DEF Next, CaptureStep, ReaderStep
<1> QED BY <1>1, <1>2, <1>3

(* A step of a capture leaves the rows of the other captures alone.          *)
LEMMA OthersUntouched ==
  ASSUME TypeOK, NEW c \in Captures, CaptureStep(c), NEW d \in Captures, d # c
  PROVE  Untouched(d)
<1> USE DEF TypeOK, Goto, Untouched
<1>1. CASE \E k \in Contents : CreateSnapshot(c, k)
  BY <1>1 DEF CreateSnapshot
<1>2. CASE ReplaceCatalog(c) \/ ReplaceScope(c)
  BY <1>2 DEF ReplaceCatalog, ReplaceScope
<1>3. CASE DeleteSnapshot(c)
  BY <1>3 DEF DeleteSnapshot
<1>4. CASE CollectFails(c) \/ Respond(c) \/ StoreFails(c) \/ DeleteFails(c)
  BY <1>4 DEF CollectFails, Respond, StoreFails, DeleteFails, tables
<1> QED BY <1>1, <1>2, <1>3, <1>4 DEF CaptureStep

LEMMA UntouchedKeeps ==
  ASSUME NEW d, CaptureInv(d), Untouched(d)
  PROVE  CaptureInv(d)' /\ Stored(d)' = Stored(d)
  BY DEF CaptureInv, Untouched, Whole, Empty, RowSize, Stored

(* A step of a capture keeps its own part of the invariant.                  *)
LEMMA CaptureKeeps ==
  ASSUME TypeOK, NEW c \in Captures, CaptureInv(c), CaptureStep(c)
  PROVE  CaptureInv(c)'
<1> USE DEF TypeOK, Goto
<1>1. CASE \E k \in Contents : CreateSnapshot(c, k)
  <2>1. PICK k \in Contents : CreateSnapshot(c, k)
    BY <1>1
  <2>2. Empty(c) /\ Empty(c)'
    BY <2>1 DEF CreateSnapshot, CaptureInv, Empty, Stored
  <2>3. RowSize(c)' = [objs |-> 0, edges |-> 0]
    BY <2>2, FS_EmptySet DEF Empty, Stored, EmptyCatalog, RowSize
  <2> QED BY <2>1, <2>2, <2>3 DEF CreateSnapshot, CaptureInv
<1>2. CASE ReplaceCatalog(c)
  <2>1. content[c] \in Catalog /\ scope[c] = {} /\ c \in rows /\ content[c] \in Contents
    BY <1>2 DEF ReplaceCatalog, CaptureInv, Empty
  <2>2. objs'[c] = content[c].objs /\ edges'[c] = content[c].edges /\ content' = content
    BY <1>2 DEF ReplaceCatalog
  <2>3. Whole(c)' /\ RowSize(c)' = counts'[c]
    BY <1>2, <2>1, <2>2 DEF ReplaceCatalog, Whole, Stored, RowSize, Catalog
  <2> QED BY <1>2, <2>1, <2>3 DEF ReplaceCatalog, CaptureInv
<1>3. CASE ReplaceScope(c)
  BY <1>3 DEF ReplaceScope, CaptureInv, Whole, Stored, RowSize
<1>4. CASE DeleteSnapshot(c)
  BY <1>4 DEF DeleteSnapshot, CaptureInv, Empty, Stored, EmptyCatalog
<1>5. CASE CollectFails(c) \/ Respond(c) \/ StoreFails(c) \/ DeleteFails(c)
  <2>1. UNCHANGED <<tables, content>>
    BY <1>5 DEF CollectFails, Respond, StoreFails, DeleteFails
  <2>2. UNCHANGED <<Stored(c), scope[c], RowSize(c), counts[c], content[c], rows>>
        /\ UNCHANGED <<Whole(c), Empty(c)>>
    BY <2>1 DEF tables, Stored, RowSize, Whole, Empty
  <2> QED BY <1>5, <2>2 DEF CollectFails, Respond, StoreFails, DeleteFails, CaptureInv
<1> QED BY <1>1, <1>2, <1>3, <1>4, <1>5 DEF CaptureStep

LEMMA CaptureInvariant == Spec => []Inv
<1>1. Init => Inv
  BY DEF Init, Inv, CaptureInv, Stored, Whole, Empty, EmptyCatalog
<1>2. TypeOK /\ Inv /\ [Next]_vars => Inv'
  <2> SUFFICES ASSUME TypeOK, Inv, [Next]_vars, NEW d \in Captures PROVE CaptureInv(d)'
    BY DEF Inv
  <2>1. CaptureInv(d)
    BY DEF Inv
  <2>2. CASE UNCHANGED <<tables, step, content>>
    BY <2>1, <2>2, UntouchedKeeps DEF Untouched, tables
  <2>3. ASSUME NEW c \in Captures, CaptureStep(c) PROVE CaptureInv(d)'
    BY <2>1, <2>3, CaptureKeeps, OthersUntouched, UntouchedKeeps
  <2>4. CASE Crash
    <3>1. step'[d] = IF step[d] \in Running THEN "dead" ELSE step[d]
      BY <2>4 DEF Crash
    <3>2. UNCHANGED <<Stored(d), scope[d], RowSize(d), counts[d], content[d], rows>>
          /\ UNCHANGED <<Whole(d), Empty(d)>>
      BY <2>4 DEF Crash, tables, Stored, RowSize, Whole, Empty
    <3> QED BY <2>1, <3>1, <3>2 DEF CaptureInv, Running
  <2> QED BY <2>2, <2>3, <2>4, StepCases
<1> QED BY <1>1, <1>2, TypeCorrect, PTL DEF Spec

(* Whatever fails or crashes, a visible snapshot holds no catalog at all or  *)
(* the whole of it, with counts that agree.                                  *)
THEOREM AllOrNothing == Spec => []NeverHalfACatalog
<1>1. TypeOK /\ Inv => NeverHalfACatalog
  <2> SUFFICES ASSUME TypeOK, Inv, NEW c \in rows
               PROVE  /\ Stored(c) \in {EmptyCatalog, content[c]}
                      /\ counts[c] = RowSize(c)
                      /\ scope[c] # {} => Stored(c) = content[c]
    BY DEF NeverHalfACatalog, RowSize
  <2>1. CaptureInv(c) /\ step[c] \in {"new"} \cup Running \cup Ended
    BY DEF TypeOK, Inv
  <2> QED BY <2>1 DEF CaptureInv, Whole, Empty, Running, Ended
<1> QED BY <1>1, TypeCorrect, CaptureInvariant, PTL

(* A capture that was answered with an error leaves nothing behind.          *)
THEOREM CleanFailures == Spec => []FailureLeavesNothing
<1>1. Inv => FailureLeavesNothing
  BY DEF Inv, CaptureInv, Empty, FailureLeavesNothing
<1> QED BY <1>1, CaptureInvariant, PTL

(* The three transactions of a capture, with their failures, the cleanup and *)
(* the crash, implement one atomic publication of an immutable snapshot.     *)
THEOREM Refinement == Spec => ImplementsSnapshotCatalog
<1>1. Init => Abstract!Init
  BY DEF Init, Abstract!Init, Published
<1>2. TypeOK /\ Inv /\ [Next]_vars => [Abstract!Next]_Published
  <2> SUFFICES ASSUME TypeOK, Inv, [Next]_vars
               PROVE  Abstract!Next \/ UNCHANGED Published
    OBVIOUS
  <2>1. ASSUME \A d \in Captures : /\ step[d] = "ok" <=> step'[d] = "ok"
                                   /\ step[d] = "ok" => Stored(d)' = Stored(d)
        PROVE  UNCHANGED Published
    BY <2>1 DEF Published
  <2>2. CASE UNCHANGED <<tables, step, content>>
    BY <2>1, <2>2 DEF tables, Stored
  <2>3. CASE Crash
    BY <2>1, <2>3 DEF Crash, Running, tables, Stored
  <2>4. ASSUME NEW c \in Captures, CaptureStep(c), ~Respond(c) PROVE UNCHANGED Published
    <3>1. step[c] # "ok" /\ step'[c] # "ok"
      BY <2>4 DEF CaptureStep, CreateSnapshot, CollectFails, ReplaceCatalog, ReplaceScope,
                  StoreFails, DeleteSnapshot, DeleteFails, Goto, TypeOK
    <3>2. \A d \in Captures : d # c => Untouched(d) /\ Stored(d)' = Stored(d)
      BY <2>4, OthersUntouched, UntouchedKeeps DEF Inv
    <3> QED BY <2>1, <3>1, <3>2 DEF Untouched
  <2>5. ASSUME NEW c \in Captures, Respond(c) PROVE Abstract!Next
    <3>1. /\ step[c] = "scoped" /\ step' = [step EXCEPT ![c] = "ok"]
          /\ UNCHANGED <<tables, content>>
      BY <2>5 DEF Respond, Goto
    <3>2. \A d : Stored(d)' = Stored(d)
      BY <3>1 DEF Stored, tables
    <3>3. Stored(c) = content[c] /\ content[c] \in Contents
      BY <3>1 DEF Inv, CaptureInv, Whole
    <3>4. Published[c] = Absent
      BY <3>1 DEF Published
    <3>5. Published' = [Published EXCEPT ![c] = content[c]]
      BY <3>1, <3>2, <3>3 DEF Published, TypeOK
    <3>6. Abstract!Publish(c, content[c])
      BY <3>4, <3>5 DEF Abstract!Publish
    <3> QED BY <3>3, <3>6 DEF Abstract!Next
  <2> QED BY <2>2, <2>3, <2>4, <2>5, StepCases
<1> QED BY <1>1, <1>2, TypeCorrect, CaptureInvariant, PTL
        DEF Spec, ImplementsSnapshotCatalog, Abstract!Spec

-----------------------------------------------------------------------------
(* Reading a published snapshot. A capture that was answered takes no        *)
(* further step, so the two statements of load_graph read the same catalog.  *)

ReadInv(r) ==
    reader[r].sure =>
        /\ reader[r].of \in Captures /\ step[reader[r].of] = "ok"
        /\ reader[r].at \in {"edges", "answered", "refused"} =>
               reader[r].objs = content[reader[r].of].objs
        /\ reader[r].at \in {"answered", "refused"} =>
               reader[r].at = "answered" /\ reader[r].edges = content[reader[r].of].edges

LEMMA AnsweredIsFinal ==
  ASSUME TypeOK, [Next]_vars, NEW c \in Captures, step[c] = "ok"
  PROVE  step'[c] = "ok" /\ content'[c] = content[c]
<1>1. CASE UNCHANGED <<tables, step, content>>
  BY <1>1
<1>2. CASE Crash
  BY <1>2 DEF Crash, Running
<1>3. ASSUME NEW d \in Captures, CaptureStep(d) PROVE step'[c] = "ok" /\ content'[c] = content[c]
  <2>1. step[d] # "ok"
    BY <1>3 DEF CaptureStep, CreateSnapshot, CollectFails, ReplaceCatalog, ReplaceScope, Respond,
                StoreFails, DeleteSnapshot, DeleteFails
  <2> QED BY <1>3, <2>1, OthersUntouched DEF Untouched
<1> QED BY <1>1, <1>2, <1>3, StepCases

(* Whoever reads a snapshot after its capture was answered gets the whole    *)
(* catalog, whatever other captures do or fail at between the statements.    *)
THEOREM WholeReads == Spec => []PublishedReadsAreWhole
<1> DEFINE RInv == \A r \in Readers : ReadInv(r)
<1>1. Init => RInv
  BY DEF Init, ReadInv, IdleReader
<1>2. TypeOK /\ Inv /\ RInv /\ [Next]_vars => RInv'
  <2> SUFFICES ASSUME TypeOK, Inv, RInv, [Next]_vars, NEW r \in Readers PROVE ReadInv(r)'
    OBVIOUS
  <2>1. ReadInv(r)
    OBVIOUS
  <2>2. CASE reader'[r] = reader[r]
    BY <2>1, <2>2, AnsweredIsFinal DEF ReadInv
  <2>3. CASE reader'[r] = IdleReader
    BY <2>3 DEF ReadInv, IdleReader
  <2>4. ASSUME NEW c \in Captures, Lookup(r, c) PROVE ReadInv(r)'
    <3>1. reader'[r].at = "objects" /\ reader'[r].of = c /\ reader'[r].sure = (step[c] = "ok")
          /\ step' = step
      BY <2>4 DEF Lookup, IdleReader, TypeOK
    <3> QED BY <3>1 DEF ReadInv
  <2>5. CASE ReadObjects(r)
    <3> DEFINE c == reader[r].of
    <3>1. c \in Captures /\ UNCHANGED <<step, content>>
      BY <2>5 DEF ReadObjects, TypeOK
    <3>2. /\ reader'[r].at = "edges" /\ reader'[r].of = c /\ reader'[r].sure = reader[r].sure
          /\ reader'[r].objs = objs[c]
      BY <2>5 DEF ReadObjects, TypeOK
    <3>3. step[c] = "ok" => objs[c] = content[c].objs
      BY <3>1 DEF Inv, CaptureInv, Whole, Stored, TypeOK
    <3> HIDE DEF c
    <3> QED BY <2>1, <3>1, <3>2, <3>3 DEF ReadInv, c
  <2>6. CASE ReadEdges(r)
    <3> DEFINE c == reader[r].of
               read == edges[c]
               at == IF Closed(reader[r].objs, read) THEN "answered" ELSE "refused"
    <3>1. /\ c \in Captures /\ reader[r].at = "edges" /\ UNCHANGED <<step, content>>
          /\ reader' = [reader EXCEPT ![r] = [@ EXCEPT !.edges = read, !.at = at]]
      BY <2>6 DEF ReadEdges, TypeOK
    <3>2. step[c] = "ok" => read = content[c].edges /\ content[c] \in Contents
      BY <3>1 DEF Inv, CaptureInv, Whole, Stored, TypeOK
    <3>3. reader[r].sure => step[c] = "ok" /\ reader[r].objs = content[c].objs
      BY <2>1, <3>1 DEF ReadInv
    <3>4. reader[r].sure => at = "answered"
      BY <3>2, <3>3, CatalogAssumption
    <3> HIDE DEF at, read
    <3>5. /\ reader'[r].at = at /\ reader'[r].of = c /\ reader'[r].sure = reader[r].sure
          /\ reader'[r].objs = reader[r].objs /\ reader'[r].edges = read
      BY <3>1 DEF TypeOK
    <3> HIDE DEF c
    <3> QED BY <3>1, <3>2, <3>3, <3>4, <3>5 DEF ReadInv
  <2>7. \/ reader'[r] \in {reader[r], IdleReader} \/ ReadObjects(r) \/ ReadEdges(r)
        \/ \E c \in Captures : Lookup(r, c)
    <3>1. CASE UNCHANGED vars
      BY <3>1 DEF vars
    <3>2. ASSUME NEW c \in Captures, CaptureStep(c) PROVE reader'[r] = reader[r]
      BY <3>2 DEF CaptureStep, CreateSnapshot, CollectFails, ReplaceCatalog, ReplaceScope,
                  Respond, StoreFails, DeleteSnapshot, DeleteFails
    <3>3. CASE Crash
      BY <3>3 DEF Crash
    <3>4. ASSUME NEW s \in Readers, ReaderStep(s), s # r PROVE reader'[r] = reader[r]
      BY <3>4 DEF ReaderStep, Lookup, ReadObjects, ReadEdges, FinishRead, TypeOK
    <3>5. CASE FinishRead(r)
      BY <3>5 DEF FinishRead, TypeOK
    <3>6. \/ UNCHANGED vars \/ Crash \/ \E c \in Captures : CaptureStep(c)
          \/ \E s \in Readers : ReaderStep(s)
      BY Zenon DEF Next, CaptureStep, ReaderStep
    <3> QED BY <3>1, <3>2, <3>3, <3>4, <3>5, <3>6 DEF ReaderStep
  <2> QED BY <2>2, <2>3, <2>4, <2>5, <2>6, <2>7
<1>3. RInv => PublishedReadsAreWhole
  BY DEF ReadInv, PublishedReadsAreWhole
<1> QED BY <1>1, <1>2, <1>3, TypeCorrect, CaptureInvariant, PTL DEF Spec

-----------------------------------------------------------------------------
(* LiveCapture: lemmas on lists. What a recursive function computes is      *)
(* found without induction over an operator: P is the set of the places     *)
(* where it holds, and has no least number outside it.                      *)

(* A set of numbers has a least one.                                        *)
LEMMA LeastOf ==
    ASSUME NEW T, T \subseteq Nat, T # {}
    PROVE  \E x \in T : \A y \in T : x <= y
<1> DEFINE R == OpToRel(<, Nat)
<1>1. IsWellFoundedOn(R, Nat)
  BY NatLessThanWellFounded
<1>2. \A x, y \in Nat : x < y => <<x, y>> \in R
  BY DEF OpToRel
<1> HIDE DEF R
<1>3. PICK x \in T : \A y \in T : ~ (<<y, x>> \in R)
  BY <1>1, WFMin, Zenon
<1>4. \A y \in T : ~ (y < x)
  BY <1>2, <1>3
<1> QED
  BY <1>4

(* What holds at 0 and is handed on holds up to n: P is the set of numbers  *)
(* for which it holds.                                                      *)
LEMMA UpTo ==
    ASSUME NEW n \in Nat, NEW P, 0 \in P, \A k \in 1..n : k - 1 \in P => k \in P
    PROVE  0..n \subseteq P
<1> DEFINE T == {k \in 0..n : k \notin P}
<1>1. SUFFICES ASSUME T # {} PROVE FALSE
  OBVIOUS
<1>2. PICK k \in T : \A j \in T : k <= j
  <2>1. T \subseteq Nat
    OBVIOUS
  <2> HIDE DEF T
  <2> QED
    BY <1>1, <2>1, LeastOf
<1>3. k \in 1..n /\ k - 1 \in 0..n /\ k - 1 \notin T
  <2>1. k \in 0..n /\ k # 0
    OBVIOUS
  <2>2. k - 1 \notin T
    <3> HIDE DEF T
    <3> QED
      BY <1>2, <2>1
  <2> QED
    BY <2>1, <2>2
<1> QED
  BY <1>3

(* A function on 0..n defined by its first value and its steps exists.      *)
Computed(n, U, start, onto) ==
    {f \in [0..n -> U] : f[0] = start /\ \A k \in 1..n : f[k] = onto[k][f[k - 1]]}

LEMMA RecursionExists ==
    ASSUME NEW n \in Nat, NEW U, NEW start \in U, NEW onto \in [1..n -> [U -> U]]
    PROVE  Computed(n, U, start, onto) # {}
<1> DEFINE Good(m, f) == f[0] = start /\ \A k \in 1..m : f[k] = onto[k][f[k - 1]]
           P == {m \in 0..n : \E f \in [0..m -> U] : Good(m, f)}
<1>1. 0 \in P
  <2> DEFINE f == [k \in 0..0 |-> start]
  <2>1. f \in [0..0 -> U] /\ Good(0, f)
    OBVIOUS
  <2>2. 0 \in 0..n
    OBVIOUS
  <2> HIDE DEF f, Good
  <2> QED
    BY <2>1, <2>2
<1>2. ASSUME NEW m \in 1..n, m - 1 \in P PROVE m \in P
  <2>1. PICK f \in [0..m - 1 -> U] : Good(m - 1, f)
    BY <1>2
  <2> DEFINE g == [k \in 0..m |-> IF k = m THEN onto[m][f[m - 1]] ELSE f[k]]
  <2>2. g \in [0..m -> U]
    OBVIOUS
  <2>3. Good(m, g)
    BY <2>1
  <2>4. m \in 0..n
    OBVIOUS
  <2> HIDE DEF g, Good
  <2> QED
    BY <2>2, <2>3, <2>4
<1>3. n \in P
  <2> HIDE DEF P
  <2>1. 0..n \subseteq P
    BY <1>1, <1>2, UpTo
  <2> QED
    BY <2>1
<1> QED
  BY <1>3 DEF Computed

(* The lists that Taken goes through.                                       *)
TakenParts(f, s, I) ==
    /\ f[0] = <<>>
    /\ \A k \in 1..Len(s) : f[k] = IF k \in I THEN Append(f[k - 1], s[k]) ELSE f[k - 1]

(* Taken ends with the last of its parts.                                   *)
LEMMA TakenIs ==
    ASSUME NEW S, NEW s \in Seq(S), NEW I
    PROVE  \E f \in [0..Len(s) -> Seq(S)] : TakenParts(f, s, I) /\ Taken(s, I) = f[Len(s)]
<1> DEFINE n == Len(s)
           onto == [k \in 1..n |-> [t \in Seq(S) |-> IF k \in I THEN Append(t, s[k]) ELSE t]]
           Is(g) == g = [i \in 0..n |-> IF i = 0 THEN <<>>
                                        ELSE IF i \in I THEN Append(g[i - 1], s[i]) ELSE g[i - 1]]
<1>1. n \in Nat /\ <<>> \in Seq(S)
  OBVIOUS
<1>2. \A k \in 1..n : s[k] \in S
  OBVIOUS
<1>3. onto \in [1..n -> [Seq(S) -> Seq(S)]]
  <2>1. ASSUME NEW k \in 1..n, NEW t \in Seq(S)
        PROVE  (IF k \in I THEN Append(t, s[k]) ELSE t) \in Seq(S)
    BY <1>2
  <2> QED
    BY <2>1
<1>4. PICK f \in [0..n -> Seq(S)] : f[0] = <<>> /\ \A k \in 1..n : f[k] = onto[k][f[k - 1]]
  <2> DEFINE U == Seq(S)
             start == <<>>
  <2>1. n \in Nat /\ start \in U /\ onto \in [1..n -> [U -> U]]
    BY <1>1, <1>3
  <2> HIDE DEF onto, n, U, start
  <2>2. Computed(n, U, start, onto) # {}
    BY <2>1, RecursionExists
  <2> QED
    BY <2>2 DEF Computed, U, start
<1>5. ASSUME NEW k \in 1..n
      PROVE  f[k] = IF k \in I THEN Append(f[k - 1], s[k]) ELSE f[k - 1]
  <2>1. k - 1 \in 0..n
    BY <1>1
  <2>2. f[k] = onto[k][f[k - 1]]
    <3> HIDE DEF onto
    <3> QED
      BY <1>4
  <2>3. f[k - 1] \in Seq(S)
    BY <1>4, <2>1
  <2> QED
    BY <2>2, <2>3
<1>6. Is(f)
  <2>1. ASSUME NEW k \in 0..n
        PROVE  f[k] = IF k = 0 THEN <<>>
                      ELSE IF k \in I THEN Append(f[k - 1], s[k]) ELSE f[k - 1]
    <3>1. k = 0 \/ k \in 1..n
      BY <1>1
    <3> HIDE DEF onto, n
    <3> QED
      BY <1>4, <1>5, <3>1, Zenon
  <2> HIDE DEF n, onto
  <2> QED
    BY <1>4, <2>1
<1>7. Taken(s, I) = (CHOOSE g : Is(g))[n]
  BY DEF Taken
<1> DEFINE g == CHOOSE h : Is(h)
<1>8. Is(g)
  <2> HIDE DEF Is
  <2> QED
    BY <1>6
<1> HIDE DEF g
<1>9. g[0] = <<>> /\ \A k \in 1..n : g[k] = IF k \in I THEN Append(g[k - 1], s[k]) ELSE g[k - 1]
  <2>1. g = [i \in 0..n |-> IF i = 0 THEN <<>>
                            ELSE IF i \in I THEN Append(g[i - 1], s[i]) ELSE g[i - 1]]
    BY <1>8
  <2> HIDE DEF Is
  <2>2. g[0] = <<>>
    BY <1>1, <2>1
  <2>3. ASSUME NEW k \in 1..n
        PROVE  g[k] = IF k \in I THEN Append(g[k - 1], s[k]) ELSE g[k - 1]
    <3>1. k \in 0..n /\ k # 0
      BY <1>1
    <3> QED
      BY <2>1, <3>1, Zenon
  <2> QED
    BY <2>2, <2>3
<1> DEFINE P == {k \in 0..n : g[k] = f[k]}
<1>10. 0 \in P
  BY <1>1, <1>4, <1>9
<1>11. ASSUME NEW k \in 1..n, k - 1 \in P PROVE k \in P
  BY <1>5, <1>9, <1>11
<1>12. n \in P
  <2> HIDE DEF P, n
  <2>1. 0..n \subseteq P
    BY <1>1, <1>10, <1>11, UpTo
  <2> QED
    BY <1>1, <2>1
<1> QED
  BY <1>1, <1>4, <1>5, <1>7, <1>12 DEF TakenParts, g

(* Taken returns exactly what is at the places.                             *)
LEMMA TakenRange ==
    ASSUME NEW S, NEW s \in Seq(S), NEW I
    PROVE  /\ Taken(s, I) \in Seq(S)
           /\ ToSet(Taken(s, I)) = {s[i] : i \in I \cap DOMAIN s}
<1> DEFINE n == Len(s)
           At(k) == {s[i] : i \in I \cap 1..k}
<1>1. PICK f \in [0..n -> Seq(S)] : TakenParts(f, s, I) /\ Taken(s, I) = f[n]
  BY TakenIs
<1> DEFINE P == {k \in 0..n : ToSet(f[k]) = At(k)}
<1>2. n \in Nat /\ DOMAIN s = 1..n
  OBVIOUS
<1>3. 0 \in P
  BY <1>1, <1>2 DEF TakenParts, ToSet
<1>4. ASSUME NEW k \in 1..n, k - 1 \in P PROVE k \in P
  <2>1. k \in 0..n /\ k - 1 \in 0..n /\ f[k - 1] \in Seq(S) /\ s[k] \in S
    BY <1>1, <1>2
  <2>2. f[k] = IF k \in I THEN Append(f[k - 1], s[k]) ELSE f[k - 1]
    BY <1>1 DEF TakenParts
  <2>3. ToSet(f[k - 1]) = At(k - 1)
    BY <1>4
  <2>4. CASE k \in I
    <3> DEFINE t == f[k - 1]  x == s[k]
    <3>1. t \in Seq(S) /\ x \in S
      BY <2>1
    <3> HIDE DEF t, x
    <3>2. ToSet(Append(t, x)) = ToSet(t) \cup {x}
      <4>1. Len(Append(t, x)) = Len(t) + 1 /\ Append(t, x) \in Seq(S) /\ Len(t) \in Nat
        BY <3>1
      <4>2. \A i \in 1..Len(t) + 1 : Append(t, x)[i] = IF i = Len(t) + 1 THEN x ELSE t[i]
        BY <3>1
      <4> DEFINE u == Append(t, x)  m == Len(t)
      <4>3. DOMAIN u = 1..m + 1 /\ DOMAIN t = 1..m
        BY <3>1, <4>1
      <4>4. u[m + 1] = x /\ \A i \in 1..m : u[i] = t[i]
        BY <4>1, <4>2
      <4>5. m \in Nat
        BY <4>1
      <4> HIDE DEF u, m
      <4>6. 1..m + 1 = (1..m) \cup {m + 1}
        BY <4>5
      <4>7. {u[i] : i \in 1..m + 1} = {t[i] : i \in 1..m} \cup {x}
        BY <4>4, <4>6
      <4> QED
        BY <4>3, <4>7 DEF ToSet, u
    <3>3. At(k) = At(k - 1) \cup {s[k]}
      <4>1. I \cap 1..k = (I \cap 1..k - 1) \cup {k}
        BY <1>2, <2>4
      <4> QED
        BY <4>1
    <3> QED
      BY <2>1, <2>2, <2>3, <2>4, <3>2, <3>3 DEF t, x
  <2>5. CASE k \notin I
    <3>1. I \cap 1..k = I \cap 1..k - 1
      BY <1>2, <2>5
    <3> QED
      BY <2>1, <2>2, <2>3, <2>5, <3>1
  <2> QED
    BY <2>4, <2>5
<1>5. n \in P
  <2> HIDE DEF P, n
  <2>1. 0..n \subseteq P
    BY <1>2, <1>3, <1>4, UpTo
  <2> QED
    BY <1>2, <2>1
<1> QED
  BY <1>1, <1>2, <1>5

(* One more entry: it is taken or not.                                      *)
LEMMA TakenAppend ==
    ASSUME NEW S, NEW s \in Seq(S), NEW x \in S, NEW I, NEW J,
           \A i \in 1..Len(s) : i \in I <=> i \in J
    PROVE  Taken(Append(s, x), J) =
             IF Len(s) + 1 \in J THEN Append(Taken(s, I), x) ELSE Taken(s, I)
<1> DEFINE n == Len(s)  t == Append(s, x)
<1>1. /\ n \in Nat /\ t \in Seq(S) /\ Len(t) = n + 1
      /\ t[n + 1] = x /\ \A i \in 1..n : t[i] = s[i]
  OBVIOUS
<1>2. PICK f \in [0..n -> Seq(S)] : TakenParts(f, s, I) /\ Taken(s, I) = f[n]
  BY TakenIs
<1> HIDE DEF t
<1>3. PICK g \in [0..Len(t) -> Seq(S)] : TakenParts(g, t, J) /\ Taken(t, J) = g[Len(t)]
  BY <1>1, TakenIs
<1> DEFINE P == {k \in 0..n : g[k] = f[k]}
<1>4. 0 \in P
  BY <1>1, <1>2, <1>3 DEF TakenParts
<1>5. ASSUME NEW k \in 1..n, k - 1 \in P PROVE k \in P
  <2>1. k \in 1..n + 1 /\ k \in 0..n /\ g[k - 1] = f[k - 1] /\ t[k] = s[k]
    BY <1>1, <1>5
  <2>2. g[k] = IF k \in J THEN Append(g[k - 1], t[k]) ELSE g[k - 1]
    BY <1>1, <1>3, <2>1 DEF TakenParts
  <2>3. f[k] = IF k \in I THEN Append(f[k - 1], s[k]) ELSE f[k - 1]
    BY <1>2 DEF TakenParts
  <2>4. k \in I <=> k \in J
    OBVIOUS
  <2> QED
    BY <2>1, <2>2, <2>3, <2>4
<1>6. n \in P
  <2> HIDE DEF P, n
  <2>1. 0..n \subseteq P
    BY <1>1, <1>4, <1>5, UpTo
  <2> QED
    BY <1>1, <2>1
<1>7. g[n + 1] = IF n + 1 \in J THEN Append(g[n], x) ELSE g[n]
  <2>1. n + 1 \in 1..Len(t) /\ n + 1 - 1 = n
    BY <1>1
  <2>2. g[n + 1] = IF n + 1 \in J THEN Append(g[n + 1 - 1], t[n + 1]) ELSE g[n + 1 - 1]
    BY <1>3, <2>1 DEF TakenParts
  <2> QED
    BY <1>1, <2>1, <2>2
<1> QED
  BY <1>1, <1>2, <1>3, <1>6, <1>7 DEF t

(* Nothing is taken from nothing.                                           *)
LEMMA TakenFromNothing == ASSUME NEW I PROVE Taken(<<>>, I) = <<>>
<1> DEFINE s == <<>>
<1>1. s \in Seq({}) /\ Len(s) = 0
  OBVIOUS
<1> HIDE DEF s
<1>2. PICK f \in [0..Len(s) -> Seq({})] : TakenParts(f, s, I) /\ Taken(s, I) = f[Len(s)]
  BY <1>1, TakenIs
<1> QED
  BY <1>1, <1>2 DEF TakenParts, s

-----------------------------------------------------------------------------
JoinedParts(f, ls) ==
    f[0] = <<>> /\ \A k \in 1..Len(ls) : f[k] = f[k - 1] \o ls[k]

(* Joined ends with the last of its parts.                                  *)
LEMMA JoinedIs ==
    ASSUME NEW S, NEW ls \in Seq(Seq(S))
    PROVE  \E f \in [0..Len(ls) -> Seq(S)] : JoinedParts(f, ls) /\ Joined(ls) = f[Len(ls)]
<1> DEFINE n == Len(ls)
           onto == [k \in 1..n |-> [t \in Seq(S) |-> t \o ls[k]]]
           Is(g) == g = [i \in 0..n |-> IF i = 0 THEN <<>> ELSE g[i - 1] \o ls[i]]
<1>1. n \in Nat /\ <<>> \in Seq(S)
  OBVIOUS
<1>2. \A k \in 1..n : ls[k] \in Seq(S)
  OBVIOUS
<1>3. onto \in [1..n -> [Seq(S) -> Seq(S)]]
  <2>1. ASSUME NEW k \in 1..n, NEW t \in Seq(S) PROVE t \o ls[k] \in Seq(S)
    BY <1>2
  <2> QED
    BY <2>1
<1>4. PICK f \in [0..n -> Seq(S)] : f[0] = <<>> /\ \A k \in 1..n : f[k] = onto[k][f[k - 1]]
  <2> DEFINE U == Seq(S)
             start == <<>>
  <2>1. n \in Nat /\ start \in U /\ onto \in [1..n -> [U -> U]]
    BY <1>1, <1>3
  <2> HIDE DEF onto, n, U, start
  <2>2. Computed(n, U, start, onto) # {}
    BY <2>1, RecursionExists
  <2> QED
    BY <2>2 DEF Computed, U, start
<1>5. ASSUME NEW k \in 1..n PROVE f[k] = f[k - 1] \o ls[k]
  <2>1. k - 1 \in 0..n
    BY <1>1
  <2>2. f[k] = onto[k][f[k - 1]]
    <3> HIDE DEF onto
    <3> QED
      BY <1>4
  <2>3. f[k - 1] \in Seq(S)
    BY <1>4, <2>1
  <2> QED
    BY <2>2, <2>3
<1>6. Is(f)
  <2>1. ASSUME NEW k \in 0..n
        PROVE  f[k] = IF k = 0 THEN <<>> ELSE f[k - 1] \o ls[k]
    <3>1. k = 0 \/ k \in 1..n
      BY <1>1
    <3> HIDE DEF onto, n
    <3> QED
      BY <1>4, <1>5, <3>1, Zenon
  <2> HIDE DEF n, onto
  <2> QED
    BY <1>4, <2>1
<1>7. Joined(ls) = (CHOOSE g : Is(g))[n]
  BY DEF Joined
<1> DEFINE g == CHOOSE h : Is(h)
<1>8. Is(g)
  <2> HIDE DEF Is
  <2> QED
    BY <1>6
<1> HIDE DEF g
<1>9. g[0] = <<>> /\ \A k \in 1..n : g[k] = g[k - 1] \o ls[k]
  <2>1. g = [i \in 0..n |-> IF i = 0 THEN <<>> ELSE g[i - 1] \o ls[i]]
    BY <1>8
  <2> HIDE DEF Is
  <2>2. g[0] = <<>>
    BY <1>1, <2>1
  <2>3. ASSUME NEW k \in 1..n PROVE g[k] = g[k - 1] \o ls[k]
    <3>1. k \in 0..n /\ k # 0
      BY <1>1
    <3> QED
      BY <2>1, <3>1, Zenon
  <2> QED
    BY <2>2, <2>3
<1> DEFINE P == {k \in 0..n : g[k] = f[k]}
<1>10. 0 \in P
  BY <1>1, <1>4, <1>9
<1>11. ASSUME NEW k \in 1..n, k - 1 \in P PROVE k \in P
  <2>1. k \in 0..n /\ g[k - 1] = f[k - 1]
    BY <1>1, <1>11
  <2>2. g[k] = g[k - 1] \o ls[k]
    BY <1>9
  <2>3. f[k] = f[k - 1] \o ls[k]
    BY <1>5
  <2> QED
    BY <2>1, <2>2, <2>3
<1>12. n \in P
  <2> HIDE DEF P, n
  <2>1. 0..n \subseteq P
    BY <1>1, <1>10, <1>11, UpTo
  <2> QED
    BY <1>1, <2>1
<1> QED
  BY <1>1, <1>4, <1>5, <1>7, <1>12 DEF JoinedParts, g

(* Two lists, one after the other, hold what the two hold.                  *)
LEMMA JoinRange ==
    ASSUME NEW S, NEW s \in Seq(S), NEW t \in Seq(S)
    PROVE  s \o t \in Seq(S) /\ ToSet(s \o t) = ToSet(s) \cup ToSet(t)
<1> DEFINE u == s \o t  m == Len(s)  n == Len(t)
<1>1. /\ u \in Seq(S) /\ Len(u) = m + n /\ m \in Nat /\ n \in Nat
      /\ \A i \in 1..m : u[i] = s[i]
  OBVIOUS
<1>2. \A i \in 1..n : u[m + i] = t[i]
  OBVIOUS
<1>3. DOMAIN u = 1..m + n /\ DOMAIN s = 1..m /\ DOMAIN t = 1..n
  BY <1>1
<1> HIDE DEF u, m, n
<1>4. ASSUME NEW i \in 1..m + n
      PROVE  u[i] \in {s[k] : k \in 1..m} \cup {t[k] : k \in 1..n}
  <2>1. CASE i \in 1..m
    BY <1>1, <2>1
  <2>2. CASE i \notin 1..m
    <3>1. i - m \in 1..n /\ i = m + (i - m)
      BY <1>1, <2>2
    <3> QED
      BY <1>2, <3>1
  <2> QED
    BY <2>1, <2>2
<1>5. ASSUME NEW i \in 1..m PROVE s[i] \in {u[k] : k \in 1..m + n}
  <2>1. i \in 1..m + n /\ u[i] = s[i]
    BY <1>1
  <2> QED
    BY <2>1
<1>6. ASSUME NEW i \in 1..n PROVE t[i] \in {u[k] : k \in 1..m + n}
  <2>1. m + i \in 1..m + n
    BY <1>1
  <2>2. u[m + i] = t[i]
    BY <1>2
  <2> QED
    BY <2>1, <2>2
<1>7. {u[k] : k \in 1..m + n} = {s[k] : k \in 1..m} \cup {t[k] : k \in 1..n}
  BY <1>4, <1>5, <1>6
<1> QED
  BY <1>1, <1>3, <1>7 DEF ToSet, u

(* Joined returns what the lists hold.                                      *)
LEMMA JoinedRange ==
    ASSUME NEW S, NEW ls \in Seq(Seq(S))
    PROVE  Joined(ls) \in Seq(S) /\ ToSet(Joined(ls)) = UNION {ToSet(ls[i]) : i \in DOMAIN ls}
<1> DEFINE n == Len(ls)
           In(k) == UNION {ToSet(ls[i]) : i \in 1..k}
<1>1. PICK f \in [0..n -> Seq(S)] : JoinedParts(f, ls) /\ Joined(ls) = f[n]
  BY JoinedIs
<1> DEFINE P == {k \in 0..n : ToSet(f[k]) = In(k)}
<1>2. n \in Nat /\ DOMAIN ls = 1..n
  OBVIOUS
<1>3. 0 \in P
  BY <1>1, <1>2 DEF JoinedParts, ToSet
<1>4. ASSUME NEW k \in 1..n, k - 1 \in P PROVE k \in P
  <2>0. k \in 0..n /\ k - 1 \in 0..n /\ ls[k] \in Seq(S)
    BY <1>2
  <2>1. k \in 0..n /\ f[k - 1] \in Seq(S) /\ ls[k] \in Seq(S)
    BY <1>1, <2>0
  <2>2. f[k] = f[k - 1] \o ls[k]
    BY <1>1 DEF JoinedParts
  <2>3. ToSet(f[k]) = In(k - 1) \cup ToSet(ls[k])
    BY <1>4, <2>1, <2>2, JoinRange
  <2>4. 1..k = (1..k - 1) \cup {k}
    BY <1>2
  <2> QED
    BY <2>1, <2>3, <2>4
<1>5. n \in P
  <2> HIDE DEF P, n
  <2>1. 0..n \subseteq P
    BY <1>2, <1>3, <1>4, UpTo
  <2> QED
    BY <1>2, <2>1
<1> QED
  BY <1>1, <1>2, <1>5

-----------------------------------------------------------------------------
(* The calls of a request.                                                  *)

(* Unique drops no value.                                                   *)
LEMMA UniqueRange ==
    ASSUME NEW S, NEW s \in Seq(S)
    PROVE  Unique(s) \in Seq(S) /\ ToSet(Unique(s)) = ToSet(s)
<1> DEFINE n == Len(s)
           I == {i \in DOMAIN s : \A j \in 1..i - 1 : s[j] # s[i]}
<1>1. n \in Nat /\ DOMAIN s = 1..n
  OBVIOUS
<1>2. Unique(s) \in Seq(S) /\ ToSet(Unique(s)) = {s[i] : i \in I \cap DOMAIN s}
  BY TakenRange DEF Unique
<1>3. ASSUME NEW i \in 1..n PROVE \E k \in I : s[k] = s[i]
  <2> DEFINE T == {k \in 1..n : s[k] = s[i]}
  <2>1. T \subseteq Nat /\ T # {}
    BY <1>1
  <2>2. PICK k \in T : \A j \in T : k <= j
    <3> HIDE DEF T
    <3> QED
      BY <2>1, LeastOf
  <2>3. ASSUME NEW j \in 1..k - 1 PROVE s[j] # s[k]
    <3>1. j \in 1..n /\ k \in 1..n /\ s[k] = s[i] /\ ~(k <= j)
      BY <1>1
    <3> QED
      BY <2>2, <3>1
  <2> QED
    BY <1>1, <2>3
<1>4. ToSet(s) = {s[i] : i \in 1..n}
  BY <1>1 DEF ToSet
<1>5. I \subseteq 1..n
  BY <1>1
<1> HIDE DEF I, n
<1> QED
  BY <1>1, <1>2, <1>3, <1>4, <1>5

LEMMA CallTyped ==
    ASSUME NEW name \in OperationNames, NEW n \in Names, NEW label \in Names,
           NEW options \in Options \cup {NoOptions}
    PROVE  Call(name, n, label, options) \in Operation
  BY DEF Call, Operation

(* One call for each name.                                                  *)
LEMMA PlainCallsRange ==
    ASSUME NEW name \in OperationNames, NEW names \in Seq(Names)
    PROVE  /\ PlainCalls(name, names) \in Seq(Operation)
           /\ ToSet(PlainCalls(name, names)) = {Call(name, n, n, NoOptions) : n \in ToSet(names)}
<1>1. \A i \in 1..Len(names) : names[i] \in Names
  OBVIOUS
<1>2. \A i \in 1..Len(names) : Call(name, names[i], names[i], NoOptions) \in Operation
  BY <1>1, CallTyped
<1>3. DOMAIN names = 1..Len(names) /\ Len(names) \in Nat
  OBVIOUS
<1>4. PlainCalls(name, names) \in Seq(Operation)
  BY <1>2, <1>3 DEF PlainCalls
<1>5. /\ DOMAIN PlainCalls(name, names) = DOMAIN names
      /\ \A i \in DOMAIN names : PlainCalls(name, names)[i] = Call(name, names[i], names[i], NoOptions)
  BY DEF PlainCalls
<1> QED
  BY <1>4, <1>5 DEF ToSet

Label(name, n) == IF name = "bw_xref" THEN Upper[n] ELSE n

ObjectOperations(r) == SelectedOperations(r) \ {"bw_get_request"}

(* One call for each flag of the request.                                   *)
LEMMA ObjectCallsRange ==
    ASSUME NEW r \in Request, NEW n \in Names
    PROVE  /\ ObjectCalls(r, n) \in Seq(Operation)
           /\ ToSet(ObjectCalls(r, n)) =
                {Call(name, n, Label(name, n), r.options) : name \in ObjectOperations(r)}
<1> DEFINE c1 == Call("bw_get_dataflow", n, n, r.options)
           c2 == Call("bw_xref", n, Upper[n], r.options)
           c3 == Call("bw_list_requests", n, n, r.options)
           calls == <<c1, c2, c3>>
           flags == <<r.dataflow, r.xref, r.freshness>>
           I == {k \in 1..3 : flags[k]}
<1>1. Upper[n] \in Names /\ r.options \in Options
  BY LiveCaptureAssumption DEF Request
<1>2. c1 \in Operation /\ c2 \in Operation /\ c3 \in Operation
  BY <1>1, CallTyped DEF OperationNames
<1>3. /\ c1 = Call("bw_get_dataflow", n, Label("bw_get_dataflow", n), r.options)
      /\ c2 = Call("bw_xref", n, Label("bw_xref", n), r.options)
      /\ c3 = Call("bw_list_requests", n, Label("bw_list_requests", n), r.options)
  BY DEF Label
<1>4. ObjectCalls(r, n) = Taken(calls, I)
  BY DEF ObjectCalls
<1>5. /\ 1 \in I <=> r.dataflow
      /\ 2 \in I <=> r.xref
      /\ 3 \in I <=> r.freshness
  OBVIOUS
<1> HIDE DEF c1, c2, c3
<1>6. calls \in Seq(Operation) /\ DOMAIN calls = {1, 2, 3}
  BY <1>2
<1>7. calls[1] = c1 /\ calls[2] = c2 /\ calls[3] = c3
  OBVIOUS
<1>8. I \subseteq {1, 2, 3}
  OBVIOUS
<1> HIDE DEF calls, I
<1>9. Taken(calls, I) \in Seq(Operation) /\ ToSet(Taken(calls, I)) = {calls[i] : i \in I \cap DOMAIN calls}
  BY <1>6, TakenRange
<1>10. I \cap DOMAIN calls = I
  BY <1>6, <1>8
<1>11. ASSUME NEW i \in I
       PROVE  calls[i] \in {Call(name, n, Label(name, n), r.options) : name \in ObjectOperations(r)}
  <2>1. CASE i = 1
    BY <2>1, <1>3, <1>5, <1>7 DEF ObjectOperations, SelectedOperations, OperationNames
  <2>2. CASE i = 2
    BY <2>2, <1>3, <1>5, <1>7 DEF ObjectOperations, SelectedOperations, OperationNames
  <2>3. CASE i = 3
    BY <2>3, <1>3, <1>5, <1>7 DEF ObjectOperations, SelectedOperations, OperationNames
  <2> QED
    BY <1>8, <2>1, <2>2, <2>3
<1>12. ASSUME NEW name \in ObjectOperations(r)
       PROVE  Call(name, n, Label(name, n), r.options) \in {calls[i] : i \in I}
  <2>1. \/ name = "bw_get_dataflow" /\ 1 \in I
        \/ name = "bw_xref" /\ 2 \in I
        \/ name = "bw_list_requests" /\ 3 \in I
    BY <1>5 DEF ObjectOperations, SelectedOperations
  <2> QED
    BY <2>1, <1>3, <1>7
<1> QED
  BY <1>4, <1>9, <1>10, <1>11, <1>12

Searches(r) == {Call("bw_search", n, n, NoOptions) : n \in ToSet(r.terms)}

OfObjects(r) == UNION {{Call(name, n, Label(name, n), r.options) : name \in ObjectOperations(r)} :
                          n \in ToSet(r.objects)}

OfQueries(r) == {Call("bw_get_query", n, n, NoOptions) : n \in ToSet(r.queries)}

(* The calls of a plan.                                                     *)
LEMMA PlanRange ==
    ASSUME NEW r \in Request
    PROVE  Plan(r) \in Seq(Operation) /\ ToSet(Plan(r)) = Searches(r) \cup OfObjects(r) \cup OfQueries(r)
<1> DEFINE objects == Unique(r.objects)
           first == PlainCalls("bw_search", Unique(r.terms))
           ls == [i \in DOMAIN objects |-> ObjectCalls(r, objects[i])]
           last == PlainCalls("bw_get_query", Unique(r.queries))
<1>1. r.terms \in Seq(Names) /\ r.objects \in Seq(Names) /\ r.queries \in Seq(Names)
  BY DEF Request
<1>2. first \in Seq(Operation) /\ ToSet(first) = Searches(r)
  <2>1. "bw_search" \in OperationNames
    BY DEF OperationNames
  <2>2. Unique(r.terms) \in Seq(Names) /\ ToSet(Unique(r.terms)) = ToSet(r.terms)
    BY <1>1, UniqueRange
  <2> QED
    BY <2>1, <2>2, PlainCallsRange DEF Searches
<1>3. last \in Seq(Operation) /\ ToSet(last) = OfQueries(r)
  <2>1. "bw_get_query" \in OperationNames
    BY DEF OperationNames
  <2>2. Unique(r.queries) \in Seq(Names) /\ ToSet(Unique(r.queries)) = ToSet(r.queries)
    BY <1>1, UniqueRange
  <2> QED
    BY <2>1, <2>2, PlainCallsRange DEF OfQueries
<1>4. objects \in Seq(Names) /\ ToSet(objects) = ToSet(r.objects)
  BY <1>1, UniqueRange
<1> DEFINE calls(n) == {Call(name, n, Label(name, n), r.options) : name \in ObjectOperations(r)}
<1>5. ASSUME NEW i \in DOMAIN objects
      PROVE  ls[i] \in Seq(Operation) /\ ToSet(ls[i]) = calls(objects[i])
  <2>1. objects[i] \in Names /\ ls[i] = ObjectCalls(r, objects[i])
    <3> HIDE DEF objects
    <3> QED
      BY <1>4
  <2> QED
    BY <2>1, ObjectCallsRange
<1>6. ls \in Seq(Seq(Operation)) /\ DOMAIN ls = DOMAIN objects
  <2>1. DOMAIN objects = 1..Len(objects) /\ Len(objects) \in Nat
    BY <1>4
  <2>2. DOMAIN ls = DOMAIN objects
    OBVIOUS
  <2>3. ls = [i \in 1..Len(objects) |-> ls[i]]
    BY <2>1, <2>2
  <2> HIDE DEF ls, objects
  <2>4. \A i \in 1..Len(objects) : ls[i] \in Seq(Operation)
    BY <1>5, <2>1
  <2> QED
    BY <2>1, <2>2, <2>3, <2>4
<1>7. Joined(ls) \in Seq(Operation) /\ ToSet(Joined(ls)) = UNION {ToSet(ls[i]) : i \in DOMAIN ls}
  <2> HIDE DEF ls
  <2> QED
    BY <1>6, JoinedRange
<1>8. UNION {ToSet(ls[i]) : i \in DOMAIN ls} = UNION {calls(n) : n \in ToSet(objects)}
  <2>1. {ToSet(ls[i]) : i \in DOMAIN ls} = {calls(objects[i]) : i \in DOMAIN objects}
    <3> HIDE DEF ls, calls, objects
    <3> QED
      BY <1>5, <1>6
  <2>2. {calls(objects[i]) : i \in DOMAIN objects} = {calls(n) : n \in ToSet(objects)}
    <3> HIDE DEF calls, objects
    <3> QED
      BY DEF ToSet
  <2> QED
    BY <2>1, <2>2
<1>9. ToSet(Joined(ls)) = OfObjects(r)
  <2>1. OfObjects(r) = UNION {calls(n) : n \in ToSet(objects)}
    BY <1>4 DEF OfObjects
  <2> QED
    BY <1>7, <1>8, <2>1
<1>10. Plan(r) = (first \o Joined(ls)) \o last
  BY DEF Plan
<1> HIDE DEF first, last, ls
<1>11. /\ first \o Joined(ls) \in Seq(Operation)
       /\ ToSet(first \o Joined(ls)) = Searches(r) \cup OfObjects(r)
  BY <1>2, <1>7, <1>9, JoinRange
<1> DEFINE most == first \o Joined(ls)
<1>12. most \in Seq(Operation) /\ Plan(r) = most \o last
  BY <1>10, <1>11
<1> HIDE DEF most
<1>13. /\ most \o last \in Seq(Operation)
       /\ ToSet(most \o last) = ToSet(most) \cup ToSet(last)
  BY <1>3, <1>12, JoinRange
<1> QED
  BY <1>3, <1>11, <1>12, <1>13 DEF most

(* No plan holds the detail of a request.                                   *)
LEMMA NoDetailPlanned ==
    ASSUME NEW r \in Request, NEW i \in DOMAIN Plan(r)
    PROVE  Plan(r)[i].name # "bw_get_request"
<1>1. Plan(r)[i] \in Searches(r) \cup OfObjects(r) \cup OfQueries(r)
  BY PlanRange DEF ToSet
<1> QED
  BY <1>1 DEF Searches, OfObjects, OfQueries, ObjectOperations, Call

-----------------------------------------------------------------------------
(* What a refresh keeps.                                                    *)

(* A request of a refresh is what the scope entries keep of the request     *)
(* before it, whatever the outcomes were.                                   *)
Kept(r) ==
    LET some == r.objects # <<>> /\ (r.dataflow \/ r.xref \/ r.freshness)
    IN  [terms |-> <<>>,
         objects |-> Sorted(IF some THEN ToSet(r.objects) ELSE {}),
         queries |-> Sorted(ToSet(r.queries)),
         dataflow |-> some /\ r.dataflow, xref |-> some /\ r.xref,
         freshness |-> some /\ r.freshness,
         options |-> IF some THEN r.options ELSE DefaultOptions]

(* A list is empty when it holds nothing.                                   *)
LEMMA EmptyOrNot ==
    ASSUME NEW S, NEW s \in Seq(S)
    PROVE  /\ s = <<>> <=> ToSet(s) = {}
           /\ ToSet(s) \subseteq S
<1>1. DOMAIN s = 1..Len(s) /\ Len(s) \in Nat
  OBVIOUS
<1>2. ASSUME s # <<>> PROVE s[1] \in ToSet(s)
  <2>1. 1 \in DOMAIN s
    BY <1>1, <1>2
  <2> QED
    BY <2>1 DEF ToSet
<1>3. ASSUME s = <<>> PROVE ToSet(s) = {}
  BY <1>3 DEF ToSet
<1>4. ToSet(s) \subseteq S
  BY <1>1 DEF ToSet
<1> QED
  BY <1>2, <1>3, <1>4

(* Sorting drops and adds no name.                                          *)
LEMMA SortedRange ==
    ASSUME NEW S
    PROVE  Sorted(S) \in Seq(Names) /\ ToSet(Sorted(S)) = S \cap Names
<1> DEFINE I == {i \in DOMAIN NameOrder : NameOrder[i] \in S}
<1>1. NameOrder \in Seq(Names) /\ ToSet(NameOrder) = Names
  BY LiveCaptureAssumption
<1>2. Sorted(S) \in Seq(Names) /\ ToSet(Sorted(S)) = {NameOrder[i] : i \in I \cap DOMAIN NameOrder}
  BY <1>1, TakenRange DEF Sorted
<1>3. {NameOrder[i] : i \in I \cap DOMAIN NameOrder} = S \cap {NameOrder[i] : i \in DOMAIN NameOrder}
  OBVIOUS
<1> QED
  BY <1>1, <1>2, <1>3 DEF ToSet

(* What is kept is a request again,                                         *)
LEMMA KeptTyped ==
    ASSUME NEW r \in Request
    PROVE  Kept(r) \in Request
<1>1. \A S : Sorted(S) \in Seq(Names)
  BY SortedRange
<1>2. r.options \in Options /\ DefaultOptions \in Options
  BY LiveCaptureAssumption DEF Request
<1>3. <<>> \in Seq(Names)
  OBVIOUS
<1>4. r.dataflow \in BOOLEAN /\ r.xref \in BOOLEAN /\ r.freshness \in BOOLEAN
  BY DEF Request
<1> QED
  BY <1>1, <1>2, <1>3, <1>4 DEF Kept, Request

HasObjects(r) == r.objects # <<>> /\ (r.dataflow \/ r.xref \/ r.freshness)

LEMMA SomeSelected ==
    ASSUME NEW r \in Request
    PROVE  HasObjects(r) <=> ToSet(r.objects) # {} /\ SelectedOperations(r) # {}
<1>1. r.objects \in Seq(Names)
  BY DEF Request
<1>2. r.objects # <<>> <=> ToSet(r.objects) # {}
  BY <1>1, EmptyOrNot
<1>3. SelectedOperations(r) # {} <=> r.dataflow \/ r.xref \/ r.freshness
  BY DEF SelectedOperations, OperationNames
<1> QED
  BY <1>2, <1>3 DEF HasObjects

(* What a refresh finds in the scope entries of a capture.                  *)
LEMMA KeptIsRefresh ==
    ASSUME NEW r \in Request, NEW outcomes
    PROVE  RefreshRequest(ScopeEntries(r, outcomes)) = Kept(r)
<1> DEFINE E == ScopeEntries(r, outcomes)
           ofObjects == {e \in E : ~IsQueryEntry(e)}
           EO == {ScopeEntry(n, name, r.options, outcomes) :
                    n \in ToSet(r.objects), name \in SelectedOperations(r)}
           EQ == {ScopeEntry(n, "bw_get_query", NoOptions, outcomes) : n \in ToSet(r.queries)}
           some == HasObjects(r)
<1>1. E = EO \cup EQ
  BY DEF ScopeEntries
<1>2. \A n, name, o : LET e == ScopeEntry(n, name, o, outcomes)
                      IN  e.object = n /\ e.operation = name /\ e.options = o
  BY DEF ScopeEntry
<1>3. "bw_get_query" \notin SelectedOperations(r)
  BY DEF SelectedOperations
<1>4. ofObjects = EO
  BY <1>1, <1>2, <1>3 DEF IsQueryEntry
<1>5. E \ ofObjects = EQ
  BY <1>1, <1>2, <1>3 DEF IsQueryEntry
<1>6. {e.object : e \in EO} = IF some THEN ToSet(r.objects) ELSE {}
  <2>1. {e.object : e \in EO} = {n \in ToSet(r.objects) : SelectedOperations(r) # {}}
    <3>1. ASSUME NEW e \in EO
          PROVE  e.object \in ToSet(r.objects) /\ SelectedOperations(r) # {}
      BY <1>2
    <3>2. ASSUME NEW n \in ToSet(r.objects), SelectedOperations(r) # {}
          PROVE  \E e \in EO : e.object = n
      <4>1. PICK name \in SelectedOperations(r) : TRUE
        BY <3>2
      <4>2. ScopeEntry(n, name, r.options, outcomes) \in EO
        OBVIOUS
      <4>3. ScopeEntry(n, name, r.options, outcomes).object = n
        BY <1>2
      <4> HIDE DEF EO
      <4> QED
        BY <4>2, <4>3
    <3> HIDE DEF EO
    <3> QED
      BY <3>1, <3>2
  <2> HIDE DEF EO
  <2> QED
    BY <2>1, SomeSelected
<1>7. {e.object : e \in EQ} = ToSet(r.queries)
  BY <1>2
<1>8. /\ r.objects \in Seq(Names) /\ r.options \in Options
      /\ r.dataflow \in BOOLEAN /\ r.xref \in BOOLEAN /\ r.freshness \in BOOLEAN
  BY DEF Request
<1>9. ASSUME NEW names, "bw_get_query" \notin names
      PROVE  (\E e \in E : e.operation \in names) <=>
             ToSet(r.objects) # {} /\ SelectedOperations(r) \cap names # {}
  <2>1. (\E e \in E : e.operation \in names) <=> (\E e \in EO : e.operation \in names)
    BY <1>1, <1>2, <1>9
  <2>2. ASSUME NEW e \in EO
        PROVE  e.operation \in SelectedOperations(r) /\ ToSet(r.objects) # {}
    BY <1>2
  <2>3. ASSUME NEW name \in SelectedOperations(r) \cap names, ToSet(r.objects) # {}
        PROVE  \E e \in EO : e.operation \in names
    <3>1. PICK n \in ToSet(r.objects) : TRUE
      BY <2>3
    <3>2. ScopeEntry(n, name, r.options, outcomes) \in EO
      OBVIOUS
    <3>3. ScopeEntry(n, name, r.options, outcomes).operation = name
      BY <1>2
    <3> HIDE DEF EO
    <3> QED
      BY <3>2, <3>3
  <2> HIDE DEF EO, E
  <2> QED
    BY <2>1, <2>2, <2>3
<1>10. r.objects # <<>> <=> ToSet(r.objects) # {}
  BY <1>8, EmptyOrNot
<1> DEFINE ran(names) == \E e \in E : e.operation \in names
<1>11. ran({"bw_get_dataflow"}) <=> some /\ r.dataflow
  <2>1. SelectedOperations(r) \cap {"bw_get_dataflow"} # {} <=> r.dataflow
    BY DEF SelectedOperations, OperationNames
  <2>2. ran({"bw_get_dataflow"}) <=>
          ToSet(r.objects) # {} /\ SelectedOperations(r) \cap {"bw_get_dataflow"} # {}
    BY <1>9
  <2> QED
    BY <2>1, <2>2, <1>10 DEF HasObjects
<1>12. ran({"bw_xref"}) <=> some /\ r.xref
  <2>1. SelectedOperations(r) \cap {"bw_xref"} # {} <=> r.xref
    BY DEF SelectedOperations, OperationNames
  <2>2. ran({"bw_xref"}) <=> ToSet(r.objects) # {} /\ SelectedOperations(r) \cap {"bw_xref"} # {}
    BY <1>9
  <2> QED
    BY <2>1, <2>2, <1>10 DEF HasObjects
<1>13. ran({"bw_list_requests", "bw_get_request"}) <=> some /\ r.freshness
  <2>1. SelectedOperations(r) \cap {"bw_list_requests", "bw_get_request"} # {} <=> r.freshness
    BY DEF SelectedOperations, OperationNames
  <2>2. ran({"bw_list_requests", "bw_get_request"}) <=>
          /\ ToSet(r.objects) # {}
          /\ SelectedOperations(r) \cap {"bw_list_requests", "bw_get_request"} # {}
    BY <1>9
  <2> QED
    BY <2>1, <2>2, <1>10 DEF HasObjects
<1>14. EO = {} <=> ~some
  BY SomeSelected
<1> DEFINE chosen == CHOOSE o \in Options : \E e \in EO : e.options = o
<1>15. some => chosen = r.options
  <2>1. \A e \in EO : e.options = r.options
    BY <1>2
  <2> HIDE DEF EO
  <2> QED
    BY <2>1, <1>8, <1>14
<1>16. (IF EO = {} THEN DefaultOptions ELSE chosen) = IF some THEN r.options ELSE DefaultOptions
  <2> HIDE DEF EO, some, chosen
  <2> QED
    BY <1>14, <1>15
<1>17. RefreshRequest(E) =
         [terms |-> <<>>,
          objects |-> Sorted({e.object : e \in ofObjects}),
          queries |-> Sorted({e.object : e \in E \ ofObjects}),
          dataflow |-> ran({"bw_get_dataflow"}), xref |-> ran({"bw_xref"}),
          freshness |-> ran({"bw_list_requests", "bw_get_request"}),
          options |-> IF ofObjects = {} THEN DefaultOptions
                      ELSE CHOOSE o \in Options : \E e \in ofObjects : e.options = o]
  BY DEF RefreshRequest
<1>18. RefreshRequest(E) =
         [terms |-> <<>>,
          objects |-> Sorted({e.object : e \in EO}),
          queries |-> Sorted({e.object : e \in EQ}),
          dataflow |-> ran({"bw_get_dataflow"}), xref |-> ran({"bw_xref"}),
          freshness |-> ran({"bw_list_requests", "bw_get_request"}),
          options |-> IF EO = {} THEN DefaultOptions ELSE chosen]
  <2> HIDE DEF E, EO, EQ, ran
  <2> QED
    BY <1>4, <1>5, <1>17
<1>19. Kept(r) =
         [terms |-> <<>>,
          objects |-> Sorted(IF some THEN ToSet(r.objects) ELSE {}),
          queries |-> Sorted(ToSet(r.queries)),
          dataflow |-> some /\ r.dataflow, xref |-> some /\ r.xref,
          freshness |-> some /\ r.freshness,
          options |-> IF some THEN r.options ELSE DefaultOptions]
  BY DEF Kept, HasObjects
<1>20. /\ ran({"bw_get_dataflow"}) = (some /\ r.dataflow)
       /\ ran({"bw_xref"}) = (some /\ r.xref)
       /\ ran({"bw_list_requests", "bw_get_request"}) = (some /\ r.freshness)
  BY <1>8, <1>11, <1>12, <1>13 DEF HasObjects
<1> HIDE DEF E, EO, EQ, ran, some, chosen
<1>21. /\ Sorted({e.object : e \in EO}) = Sorted(IF some THEN ToSet(r.objects) ELSE {})
       /\ Sorted({e.object : e \in EQ}) = Sorted(ToSet(r.queries))
  BY <1>6, <1>7
<1> DEFINE a1 == Sorted({e.object : e \in EO})
           a2 == Sorted({e.object : e \in EQ})
           a3 == ran({"bw_get_dataflow"})
           a4 == ran({"bw_xref"})
           a5 == ran({"bw_list_requests", "bw_get_request"})
           a6 == IF EO = {} THEN DefaultOptions ELSE chosen
           b1 == Sorted(IF some THEN ToSet(r.objects) ELSE {})
           b2 == Sorted(ToSet(r.queries))
           b3 == (some /\ r.dataflow)
           b4 == (some /\ r.xref)
           b5 == (some /\ r.freshness)
           b6 == IF some THEN r.options ELSE DefaultOptions
<1>22. RefreshRequest(E) = [terms |-> <<>>, objects |-> a1, queries |-> a2, dataflow |-> a3,
                            xref |-> a4, freshness |-> a5, options |-> a6]
  BY <1>18
<1>23. Kept(r) = [terms |-> <<>>, objects |-> b1, queries |-> b2, dataflow |-> b3,
                  xref |-> b4, freshness |-> b5, options |-> b6]
  BY <1>19
<1>24. a1 = b1 /\ a2 = b2 /\ a3 = b3 /\ a4 = b4 /\ a5 = b5 /\ a6 = b6
  BY <1>16, <1>20, <1>21
<1> HIDE DEF a1, a2, a3, a4, a5, a6, b1, b2, b3, b4, b5, b6
<1>25. RefreshRequest(E) = Kept(r)
  BY <1>22, <1>23, <1>24
<1> QED
  BY <1>25 DEF E

(* ... with these fields,                                                   *)
LEMMA KeptFields ==
    ASSUME NEW r \in Request
    PROVE  /\ Kept(r).terms = <<>>
           /\ ToSet(Kept(r).objects) = IF HasObjects(r) THEN ToSet(r.objects) ELSE {}
           /\ ToSet(Kept(r).queries) = ToSet(r.queries)
           /\ Kept(r).dataflow = (HasObjects(r) /\ r.dataflow)
           /\ Kept(r).xref = (HasObjects(r) /\ r.xref)
           /\ Kept(r).freshness = (HasObjects(r) /\ r.freshness)
           /\ HasObjects(r) => Kept(r).options = r.options
           /\ ~HasObjects(r) => Kept(r).options = DefaultOptions
           /\ HasObjects(Kept(r)) = HasObjects(r)
<1>1. r.objects \in Seq(Names) /\ r.queries \in Seq(Names)
  BY DEF Request
<1>2. ToSet(r.objects) \subseteq Names /\ ToSet(r.queries) \subseteq Names
  BY <1>1, EmptyOrNot
<1>3. r.objects # <<>> <=> ToSet(r.objects) # {}
  BY <1>1, EmptyOrNot
<1>4. /\ Kept(r).terms = <<>>
      /\ Kept(r).objects = Sorted(IF HasObjects(r) THEN ToSet(r.objects) ELSE {})
      /\ Kept(r).queries = Sorted(ToSet(r.queries))
      /\ Kept(r).dataflow = (HasObjects(r) /\ r.dataflow)
      /\ Kept(r).xref = (HasObjects(r) /\ r.xref)
      /\ Kept(r).freshness = (HasObjects(r) /\ r.freshness)
      /\ HasObjects(r) => Kept(r).options = r.options
      /\ ~HasObjects(r) => Kept(r).options = DefaultOptions
  BY DEF Kept, HasObjects
<1>5. ToSet(Kept(r).queries) = ToSet(r.queries)
  BY <1>2, <1>4, SortedRange
<1>6. ToSet(Kept(r).objects) = IF HasObjects(r) THEN ToSet(r.objects) ELSE {}
  <2> DEFINE S == IF HasObjects(r) THEN ToSet(r.objects) ELSE {}
  <2>1. S \subseteq Names
    BY <1>2
  <2> HIDE DEF S
  <2>2. ToSet(Sorted(S)) = S
    BY <2>1, SortedRange
  <2> QED
    BY <1>4, <2>2 DEF S
<1>7. Kept(r).objects \in Seq(Names)
  BY KeptTyped DEF Request
<1>8. Kept(r).objects # <<>> <=> ToSet(Kept(r).objects) # {}
  BY <1>7, EmptyOrNot
<1>9. HasObjects(Kept(r)) = HasObjects(r)
  BY <1>3, <1>4, <1>6, <1>8 DEF HasObjects
<1> QED
  BY <1>4, <1>5, <1>6, <1>9

(* ... which keeps everything when it is refreshed,                         *)
LEMMA KeptTwice ==
    ASSUME NEW r \in Request
    PROVE  Kept(Kept(r)) = Kept(r)
<1> DEFINE k == Kept(r)
<1>1. /\ ToSet(k.objects) = IF HasObjects(r) THEN ToSet(r.objects) ELSE {}
      /\ ToSet(k.queries) = ToSet(r.queries)
      /\ k.dataflow = (HasObjects(r) /\ r.dataflow)
      /\ k.xref = (HasObjects(r) /\ r.xref)
      /\ k.freshness = (HasObjects(r) /\ r.freshness)
      /\ HasObjects(r) => k.options = r.options
      /\ HasObjects(k) = HasObjects(r)
  BY KeptFields
<1>2. \A q : Kept(q) =
         [terms |-> <<>>,
          objects |-> Sorted(IF HasObjects(q) THEN ToSet(q.objects) ELSE {}),
          queries |-> Sorted(ToSet(q.queries)),
          dataflow |-> HasObjects(q) /\ q.dataflow, xref |-> HasObjects(q) /\ q.xref,
          freshness |-> HasObjects(q) /\ q.freshness,
          options |-> IF HasObjects(q) THEN q.options ELSE DefaultOptions]
  BY DEF Kept, HasObjects
<1> HIDE DEF k
<1>3. /\ (IF HasObjects(k) THEN ToSet(k.objects) ELSE {}) = (IF HasObjects(r) THEN ToSet(r.objects) ELSE {})
      /\ (HasObjects(k) /\ k.dataflow) = (HasObjects(r) /\ r.dataflow)
      /\ (HasObjects(k) /\ k.xref) = (HasObjects(r) /\ r.xref)
      /\ (HasObjects(k) /\ k.freshness) = (HasObjects(r) /\ r.freshness)
      /\ (IF HasObjects(k) THEN k.options ELSE DefaultOptions) = (IF HasObjects(r) THEN r.options ELSE DefaultOptions)
  BY <1>1
<1>4. Kept(k) = Kept(r)
  BY <1>1, <1>2, <1>3
<1> QED
  BY <1>4 DEF k

(* ... and makes the calls of the first request, but for the searches.      *)
LEMMA KeptCalls ==
    ASSUME NEW r \in Request
    PROVE  {c \in ToSet(Plan(r)) : c.name # "bw_search"} = ToSet(Plan(Kept(r)))
<1> DEFINE k == Kept(r)
<1>1. /\ k \in Request /\ k.terms = <<>>
      /\ ToSet(k.objects) = IF HasObjects(r) THEN ToSet(r.objects) ELSE {}
      /\ ToSet(k.queries) = ToSet(r.queries)
      /\ k.dataflow = (HasObjects(r) /\ r.dataflow)
      /\ k.xref = (HasObjects(r) /\ r.xref)
      /\ k.freshness = (HasObjects(r) /\ r.freshness)
      /\ HasObjects(r) => k.options = r.options
  BY KeptFields, KeptTyped
<1> HIDE DEF k
<1>2. /\ ToSet(Plan(r)) = Searches(r) \cup OfObjects(r) \cup OfQueries(r)
      /\ ToSet(Plan(k)) = Searches(k) \cup OfObjects(k) \cup OfQueries(k)
  BY <1>1, PlanRange
<1>3. Searches(k) = {}
  BY <1>1 DEF Searches, ToSet
<1>4. OfQueries(k) = OfQueries(r)
  BY <1>1 DEF OfQueries
<1>5. OfObjects(k) = OfObjects(r)
  <2>1. CASE HasObjects(r)
    <3>1. SelectedOperations(k) = SelectedOperations(r) /\ k.options = r.options
      BY <1>1, <2>1 DEF SelectedOperations
    <3> QED
      BY <1>1, <2>1, <3>1 DEF OfObjects, ObjectOperations
  <2>2. CASE ~HasObjects(r)
    <3>1. OfObjects(k) = {}
      BY <1>1, <2>2 DEF OfObjects
    <3>2. ToSet(r.objects) = {} \/ SelectedOperations(r) = {}
      BY <2>2, SomeSelected
    <3>3. OfObjects(r) = {}
      BY <3>2 DEF OfObjects, ObjectOperations
    <3> QED
      BY <3>1, <3>3
  <2> QED
    BY <2>1, <2>2
<1>6. /\ \A c \in Searches(r) : c.name = "bw_search"
      /\ \A c \in OfObjects(r) \cup OfQueries(r) : c.name # "bw_search"
  BY DEF Searches, OfObjects, OfQueries, ObjectOperations, SelectedOperations, Call
<1> HIDE DEF k
<1>7. {c \in ToSet(Plan(r)) : c.name # "bw_search"} = OfObjects(r) \cup OfQueries(r)
  BY <1>2, <1>6
<1> QED
  BY <1>2, <1>3, <1>4, <1>5, <1>7 DEF k

-----------------------------------------------------------------------------
(* The inductive invariant of a live capture.                               *)

(* The calls made that are of the plan, and those that succeeded.           *)
ListedOf(o) == Taken(Calls(o), {i \in DOMAIN o : o[i].call.name # "bw_get_request"})

OkOf(o) == Taken(Calls(o), {i \in DOMAIN o : o[i].ok})

(* What is still open of the plan: a detail read is no part of it.          *)
Open == IF pending # <<>> /\ Head(pending).name = "bw_get_request" THEN Tail(pending) ELSE pending

AsPlanned ==
    phase \in {"collecting", "collected", "stored"} =>
        /\ ListedOf(operations) \o Open = Plan(request)
        /\ \A i \in DOMAIN Open : Open[i].name # "bw_get_request"

DetailFollows ==
    /\ \A i \in DOMAIN operations : operations[i].call.name = "bw_get_request" =>
         /\ i > 1 /\ operations[i - 1].ok /\ operations[i - 1].call.name = "bw_list_requests"
         /\ operations[i].call = LatestRequest(operations[i - 1].call)
    /\ phase = "collecting" /\ pending # <<>> /\ Head(pending).name = "bw_get_request" =>
         /\ operations # <<>> /\ operations[Len(operations)].ok
         /\ operations[Len(operations)].call.name = "bw_list_requests"
         /\ Head(pending) = LatestRequest(operations[Len(operations)].call)

Written ==
    /\ payloads = OkOf(operations)
    /\ phase \in {"collected", "stored"} =>
         pending = <<>> /\ manifest = payloads /\ SomethingSucceeded

Requested ==
    /\ phase = "asked" => operations = <<>> /\ payloads = <<>>
    /\ selected = IF phase = "stored" THEN ScopeEntries(request, operations) ELSE {}
    /\ origin # NoRequest => request = Kept(origin)

LiveInv == LiveTypeOK /\ AsPlanned /\ DetailFollows /\ Written /\ Requested

(* One more call.                                                           *)
LEMMA CallsAppend ==
    ASSUME NEW o \in Seq(Outcome), NEW x \in Outcome
    PROVE  /\ Calls(o) \in Seq(Operation) /\ Len(Calls(o)) = Len(o) /\ DOMAIN Calls(o) = DOMAIN o
           /\ Calls(Append(o, x)) = Append(Calls(o), x.call)
<1> DEFINE n == Len(o)  p == Append(o, x)  c == Calls(o)
<1>1. n \in Nat /\ DOMAIN o = 1..n /\ o \in [1..n -> Outcome]
  OBVIOUS
<1>2. DOMAIN p = 1..n + 1 /\ p[n + 1] = x /\ \A i \in 1..n : p[i] = o[i]
  OBVIOUS
<1>3. \A i \in 1..n : o[i].call \in Operation
  BY <1>1 DEF Outcome
<1>4. x.call \in Operation
  BY DEF Outcome
<1>5. c = [i \in 1..n |-> o[i].call]
  BY <1>1 DEF Calls
<1>6. c \in Seq(Operation) /\ Len(c) = n /\ DOMAIN c = 1..n
  BY <1>1, <1>3, <1>5
<1>7. Calls(p) = [i \in 1..n + 1 |-> p[i].call]
  BY <1>2 DEF Calls
<1>8. Append(c, x.call) = [i \in 1..n + 1 |-> IF i = n + 1 THEN x.call ELSE c[i]]
  BY <1>4, <1>6
<1> HIDE DEF p, n, c
<1>9. ASSUME NEW i \in 1..n + 1 PROVE p[i].call = IF i = n + 1 THEN x.call ELSE c[i]
  <2>1. CASE i = n + 1
    BY <2>1, <1>2
  <2>2. CASE i # n + 1
    <3>1. i \in 1..n
      BY <1>1, <2>2
    <3> QED
      BY <3>1, <2>2, <1>2, <1>5
  <2> QED
    BY <2>1, <2>2
<1>10. Calls(p) = Append(c, x.call)
  BY <1>7, <1>8, <1>9
<1> QED
  BY <1>1, <1>6, <1>10 DEF p, c, n

(* One more call of the plan, or a detail read.                             *)
LEMMA ListedAppend ==
    ASSUME NEW o \in Seq(Outcome), NEW x \in Outcome
    PROVE  /\ ListedOf(o) \in Seq(Operation)
           /\ ListedOf(Append(o, x)) =
                IF x.call.name # "bw_get_request" THEN Append(ListedOf(o), x.call) ELSE ListedOf(o)
<1> DEFINE p == Append(o, x)
           I == {i \in DOMAIN o : o[i].call.name # "bw_get_request"}
           J == {i \in DOMAIN p : p[i].call.name # "bw_get_request"}
           c == Calls(o)  y == x.call
<1>1. /\ DOMAIN p = 1..Len(o) + 1 /\ DOMAIN o = 1..Len(o) /\ Len(o) \in Nat
      /\ p[Len(o) + 1] = x /\ \A i \in 1..Len(o) : p[i] = o[i]
  OBVIOUS
<1>2. c \in Seq(Operation) /\ Len(c) = Len(o) /\ Calls(p) = Append(c, y)
  BY CallsAppend
<1>3. y \in Operation
  BY DEF Outcome
<1> HIDE DEF p
<1>4. /\ \A i \in 1..Len(c) : i \in I <=> i \in J
      /\ Len(c) + 1 \in J <=> x.call.name # "bw_get_request"
  BY <1>1, <1>2
<1>5. ListedOf(o) = Taken(c, I) /\ ListedOf(p) = Taken(Append(c, y), J)
  BY <1>2 DEF ListedOf
<1> HIDE DEF I, J, c, y
<1>6. Taken(Append(c, y), J) = IF Len(c) + 1 \in J THEN Append(Taken(c, I), y) ELSE Taken(c, I)
  BY <1>2, <1>3, <1>4, TakenAppend
<1>7. Taken(c, I) \in Seq(Operation)
  BY <1>2, TakenRange
<1> QED
  BY <1>4, <1>5, <1>6, <1>7 DEF p, y

(* One more call that succeeded, or failed.                                 *)
LEMMA OkAppend ==
    ASSUME NEW o \in Seq(Outcome), NEW x \in Outcome
    PROVE  /\ OkOf(o) \in Seq(Operation)
           /\ OkOf(Append(o, x)) = IF x.ok THEN Append(OkOf(o), x.call) ELSE OkOf(o)
<1> DEFINE p == Append(o, x)
           I == {i \in DOMAIN o : o[i].ok}
           J == {i \in DOMAIN p : p[i].ok}
           c == Calls(o)  y == x.call
<1>1. /\ DOMAIN p = 1..Len(o) + 1 /\ DOMAIN o = 1..Len(o) /\ Len(o) \in Nat
      /\ p[Len(o) + 1] = x /\ \A i \in 1..Len(o) : p[i] = o[i]
  OBVIOUS
<1>2. c \in Seq(Operation) /\ Len(c) = Len(o) /\ Calls(p) = Append(c, y)
  BY CallsAppend
<1>3. y \in Operation
  BY DEF Outcome
<1> HIDE DEF p
<1>4. /\ \A i \in 1..Len(c) : i \in I <=> i \in J
      /\ Len(c) + 1 \in J <=> x.ok
  BY <1>1, <1>2
<1>5. OkOf(o) = Taken(c, I) /\ OkOf(p) = Taken(Append(c, y), J)
  BY <1>2 DEF OkOf
<1> HIDE DEF I, J, c, y
<1>6. Taken(Append(c, y), J) = IF Len(c) + 1 \in J THEN Append(Taken(c, I), y) ELSE Taken(c, I)
  BY <1>2, <1>3, <1>4, TakenAppend
<1>7. Taken(c, I) \in Seq(Operation)
  BY <1>2, TakenRange
<1> QED
  BY <1>4, <1>5, <1>6, <1>7 DEF p, y

(* What succeeded is not nothing when something did.                        *)
LEMMA OkNotEmpty ==
    ASSUME NEW o \in Seq(Outcome), NEW i \in DOMAIN o, o[i].ok
    PROVE  OkOf(o) # <<>>
<1> DEFINE I == {j \in DOMAIN o : o[j].ok}  c == Calls(o)
<1>0. PICK x \in Outcome : TRUE
  OBVIOUS
<1>1. c \in Seq(Operation) /\ DOMAIN c = DOMAIN o
  BY <1>0, CallsAppend
<1>2. OkOf(o) = Taken(c, I) /\ i \in I /\ i \in DOMAIN c
  BY <1>1 DEF OkOf
<1> HIDE DEF I, c
<1>3. ToSet(Taken(c, I)) = {c[j] : j \in I \cap DOMAIN c}
  BY <1>1, TakenRange
<1>4. ToSet(Taken(c, I)) # {}
  BY <1>2, <1>3
<1> QED
  BY <1>2, <1>4 DEF ToSet

LEMMA FromNothing ==
    /\ ListedOf(<<>>) = <<>> /\ OkOf(<<>>) = <<>>
<1>1. Calls(<<>>) = <<>>
  BY DEF Calls
<1> QED
  BY <1>1, TakenFromNothing DEF ListedOf, OkOf

(* The places of two lists, one after the other.                            *)
LEMMA Joint ==
    ASSUME NEW S, NEW a \in Seq(S), NEW b \in Seq(S)
    PROVE  /\ a \o b \in Seq(S) /\ Len(a \o b) = Len(a) + Len(b)
           /\ \A i \in 1..Len(a) + Len(b) : (a \o b)[i] = IF i <= Len(a) THEN a[i] ELSE b[i - Len(a)]
  OBVIOUS

(* The first entry of the second list moved to the end of the first.        *)
LEMMA AppendTail ==
    ASSUME NEW S, NEW s \in Seq(S), NEW t \in Seq(S), t # <<>>
    PROVE  Append(s, Head(t)) \o Tail(t) = s \o t
<1> DEFINE a == Append(s, Head(t))  b == Tail(t)  m == Len(s)  n == Len(t)
<1> DEFINE u == a \o b  v == s \o t
<1>1. m \in Nat /\ n \in Nat /\ n > 0 /\ Head(t) = t[1] /\ t[1] \in S
  OBVIOUS
<1>2. a \in Seq(S) /\ Len(a) = m + 1 /\ a[m + 1] = t[1] /\ \A i \in 1..m : a[i] = s[i]
  OBVIOUS
<1>3. b \in Seq(S) /\ Len(b) = n - 1 /\ \A i \in 1..n - 1 : b[i] = t[i + 1]
  OBVIOUS
<1>4. v \in Seq(S) /\ Len(v) = m + n
  OBVIOUS
<1>5. \A i \in 1..m + n : v[i] = IF i <= m THEN s[i] ELSE t[i - m]
  OBVIOUS
<1> HIDE DEF a, b, m, n
<1>6. u \in Seq(S) /\ Len(u) = m + n
  <2>1. a \o b \in Seq(S) /\ Len(a \o b) = Len(a) + Len(b)
    BY <1>2, <1>3, Joint
  <2> QED
    BY <2>1, <1>1, <1>2, <1>3
<1>7. \A i \in 1..Len(a) + Len(b) : u[i] = IF i <= Len(a) THEN a[i] ELSE b[i - Len(a)]
  BY <1>2, <1>3, Joint
<1> HIDE DEF u, v
<1>8. ASSUME NEW i \in 1..m + n PROVE u[i] = v[i]
  <2>0. u[i] = IF i <= Len(a) THEN a[i] ELSE b[i - Len(a)]
    BY <1>1, <1>2, <1>3, <1>7
  <2>1. CASE i <= m
    <3>1. i \in 1..m /\ i <= Len(a)
      BY <1>1, <1>2, <2>1
    <3> QED
      BY <3>1, <2>0, <1>2, <1>5, <2>1
  <2>2. CASE i = m + 1
    <3>1. i <= Len(a) /\ i - m = 1 /\ ~(i <= m)
      BY <1>1, <1>2, <2>2
    <3> QED
      BY <3>1, <2>0, <1>2, <1>5, <2>2
  <2>3. CASE i > m + 1
    <3>1. /\ i - Len(a) \in 1..n - 1 /\ i - Len(a) + 1 = i - m
          /\ ~(i <= m) /\ ~(i <= Len(a))
      BY <1>1, <1>2, <2>3
    <3> QED
      BY <3>1, <2>0, <1>3, <1>5
  <2> QED
    BY <1>1, <2>1, <2>2, <2>3
<1>9. u = v
  BY <1>1, <1>4, <1>6, <1>8
<1> QED
  BY <1>9 DEF u, v, a, b

(* The scope entries have their type.                                       *)
LEMMA EntriesTyped ==
    ASSUME NEW r \in Request, NEW o
    PROVE  ScopeEntries(r, o) \subseteq Entry
<1>1. r.objects \in Seq(Names) /\ r.queries \in Seq(Names) /\ r.options \in Options
  BY DEF Request
<1>2. ToSet(r.objects) \subseteq Names /\ ToSet(r.queries) \subseteq Names
  BY <1>1, EmptyOrNot
<1>3. \A found : StatusOf(found) \in {"ok", "error", "skipped"}
  <2>1. ASSUME NEW found PROVE StatusOf(found) \in {"ok", "error", "skipped"}
    <3>1. CASE found = <<>>
      BY <3>1 DEF StatusOf
    <3>2. CASE found # <<>> /\ Head(found).ok
      BY <3>2 DEF StatusOf
    <3>3. CASE found # <<>> /\ ~Head(found).ok
      BY <3>3 DEF StatusOf
    <3> QED
      BY <3>1, <3>2, <3>3
  <2> QED
    BY <2>1
<1>4. ASSUME NEW n \in Names, NEW name \in OperationNames, NEW options \in Options \cup {NoOptions}
      PROVE  ScopeEntry(n, name, options, o) \in Entry
  BY <1>3 DEF ScopeEntry, Entry
<1>5. SelectedOperations(r) \subseteq OperationNames /\ "bw_get_query" \in OperationNames
  BY DEF SelectedOperations, OperationNames
<1> QED
  BY <1>1, <1>2, <1>4, <1>5 DEF ScopeEntries

(* The detail read of a call.                                               *)
LEMMA LatestTyped ==
    ASSUME NEW c \in Operation
    PROVE  LatestRequest(c) \in Operation /\ LatestRequest(c).name = "bw_get_request"
  BY DEF LatestRequest, Operation, OperationNames

(* A list without detail reads does not begin with one.                     *)
LEMMA PlanNotDetail ==
    ASSUME NEW p \in Seq(Operation), \A i \in DOMAIN p : p[i].name # "bw_get_request"
    PROVE  ~(p # <<>> /\ Head(p).name = "bw_get_request")
<1> SUFFICES ASSUME p # <<>> PROVE Head(p).name # "bw_get_request"
  OBVIOUS
<1>1. 1 \in DOMAIN p /\ Head(p) = p[1]
  OBVIOUS
<1> QED
  BY <1>1

(* A call is made: the plan is followed, and a detail read follows its list. *)
LEMMA CallMade ==
    ASSUME LiveInv, phase = "collecting", pending # <<>>, NEW ok \in BOOLEAN,
           operations' = Append(operations, [call |-> Head(pending), ok |-> ok]),
           phase' = phase, request' = request,
           \/ pending' = Tail(pending)
           \/ /\ ok /\ Head(pending).name = "bw_list_requests"
              /\ pending' = <<LatestRequest(Head(pending))>> \o Tail(pending)
    PROVE  AsPlanned' /\ DetailFollows' /\ pending' \in Seq(Operation) /\ operations' \in Seq(Outcome)
<1> DEFINE h == Head(pending)  rest == Tail(pending)  x == [call |-> h, ok |-> ok]
           n == Len(operations)
<1>1. pending \in Seq(Operation) /\ operations \in Seq(Outcome)
  BY DEF LiveInv, LiveTypeOK
<1>2. h \in Operation /\ rest \in Seq(Operation) /\ x \in Outcome
  BY <1>1 DEF Outcome
<1>3. /\ ListedOf(operations) \o Open = Plan(request)
      /\ \A i \in DOMAIN Open : Open[i].name # "bw_get_request"
  BY DEF LiveInv, AsPlanned
<1>4. \A i \in DOMAIN rest : rest[i].name # "bw_get_request"
  <2>1. CASE h.name = "bw_get_request"
    BY <1>3, <2>1 DEF Open
  <2>2. CASE h.name # "bw_get_request"
    <3>1. \A i \in DOMAIN pending : pending[i].name # "bw_get_request"
      BY <1>3, <2>2 DEF Open
    <3>2. \A i \in DOMAIN rest : i + 1 \in DOMAIN pending /\ rest[i] = pending[i + 1]
      BY <1>1
    <3> QED
      BY <3>1, <3>2
  <2> QED
    BY <2>1, <2>2
<1>5. h.name = "bw_get_request" => pending' = rest
  OBVIOUS
<1>6. /\ pending' \in Seq(Operation)
      /\ Open' = rest
      /\ pending' # <<>> /\ Head(pending').name = "bw_get_request" =>
           ok /\ h.name = "bw_list_requests" /\ Head(pending') = LatestRequest(h)
  <2>1. CASE pending' = rest
    <3>1. ~(rest # <<>> /\ Head(rest).name = "bw_get_request")
      <4> HIDE DEF rest
      <4> QED
        BY <1>2, <1>4, PlanNotDetail
    <3> HIDE DEF rest, h
    <3> QED
      BY <1>2, <2>1, <3>1 DEF Open
  <2>2. CASE ok /\ h.name = "bw_list_requests" /\ pending' = <<LatestRequest(h)>> \o rest
    <3> DEFINE d == LatestRequest(h)
    <3>1. d \in Operation /\ d.name = "bw_get_request"
      BY <1>2, LatestTyped
    <3> HIDE DEF d, rest, h
    <3>2. <<d>> \o rest \in Seq(Operation) /\ <<d>> \o rest # <<>>
      BY <1>2, <3>1
    <3>3. Head(<<d>> \o rest) = d /\ Tail(<<d>> \o rest) = rest
      BY <1>2, <3>1
    <3> QED
      BY <2>2, <3>1, <3>2, <3>3 DEF Open, d
  <2> QED
    BY <2>1, <2>2
<1>7. /\ ListedOf(operations) \in Seq(Operation)
      /\ ListedOf(operations') =
           IF h.name # "bw_get_request" THEN Append(ListedOf(operations), h) ELSE ListedOf(operations)
  <2>1. operations' = Append(operations, x) /\ x.call = h
    OBVIOUS
  <2> HIDE DEF x, h
  <2> QED
    BY <1>1, <1>2, <2>1, ListedAppend
<1>8. ListedOf(operations') \o rest = Plan(request)
  <2>1. CASE h.name = "bw_get_request"
    <3>1. Open = rest
      BY <2>1 DEF Open
    <3> QED
      BY <1>3, <1>7, <2>1, <3>1
  <2>2. CASE h.name # "bw_get_request"
    <3>1. Open = pending
      BY <2>2 DEF Open
    <3> DEFINE L == ListedOf(operations)
    <3>2. L \in Seq(Operation)
      BY <1>7
    <3> HIDE DEF L
    <3>3. Append(L, Head(pending)) \o Tail(pending) = L \o pending
      BY <1>1, <3>2, AppendTail
    <3> QED
      BY <1>3, <1>7, <2>2, <3>1, <3>3 DEF L
  <2> QED
    BY <2>1, <2>2
<1>9. AsPlanned'
  BY <1>4, <1>6, <1>8 DEF AsPlanned
<1>10. /\ operations' \in Seq(Outcome) /\ n \in Nat
       /\ Len(operations') = n + 1 /\ DOMAIN operations' = 1..n + 1 /\ DOMAIN operations = 1..n
       /\ operations'[n + 1] = x
       /\ \A i \in 1..n : operations'[i] = operations[i]
  BY <1>1, <1>2
<1>11. x.call = h /\ x.ok = ok
  OBVIOUS
<1> DEFINE Follows(o, i) == /\ i > 1 /\ o[i - 1].ok /\ o[i - 1].call.name = "bw_list_requests"
                            /\ o[i].call = LatestRequest(o[i - 1].call)
<1>12. /\ \A i \in DOMAIN operations : operations[i].call.name = "bw_get_request" => Follows(operations, i)
       /\ h.name = "bw_get_request" =>
            /\ operations # <<>> /\ operations[n].ok
            /\ operations[n].call.name = "bw_list_requests" /\ h = LatestRequest(operations[n].call)
  BY DEF LiveInv, DetailFollows
<1>13. operations # <<>> <=> n > 0
  BY <1>1
<1> HIDE DEF x, h, n, rest
<1>14. ASSUME NEW i \in DOMAIN operations', operations'[i].call.name = "bw_get_request"
       PROVE  Follows(operations', i)
  <2>1. CASE i \in 1..n
    <3>1. Follows(operations, i)
      BY <1>10, <1>12, <1>14, <2>1
    <3>2. i - 1 \in 1..n
      BY <1>10, <2>1, <3>1
    <3> QED
      BY <1>10, <2>1, <3>1, <3>2
  <2>2. CASE i = n + 1
    <3>1. operations[n].ok /\ operations[n].call.name = "bw_list_requests" /\ h = LatestRequest(operations[n].call)
      BY <1>10, <1>11, <1>12, <1>14, <2>2
    <3>2. n > 0 /\ n \in 1..n /\ i > 1 /\ i - 1 = n
      BY <1>10, <1>11, <1>12, <1>13, <1>14, <2>2
    <3> QED
      BY <1>10, <1>11, <2>2, <3>1, <3>2
  <2> QED
    BY <1>10, <2>1, <2>2
<1>15. ASSUME pending' # <<>>, Head(pending').name = "bw_get_request"
       PROVE  /\ operations' # <<>> /\ operations'[Len(operations')].ok
              /\ operations'[Len(operations')].call.name = "bw_list_requests"
              /\ Head(pending') = LatestRequest(operations'[Len(operations')].call)
  <2>1. ok /\ h.name = "bw_list_requests" /\ Head(pending') = LatestRequest(h)
    BY <1>6, <1>15
  <2>2. operations' # <<>>
    BY <1>10
  <2> QED
    BY <1>10, <1>11, <2>1, <2>2
<1>16. DetailFollows'
  BY <1>14, <1>15 DEF DetailFollows
<1> QED
  BY <1>6, <1>9, <1>10, <1>16

LEMMA LiveInvInit == LiveInit => LiveInv
<1> SUFFICES ASSUME LiveInit PROVE LiveInv
  OBVIOUS
<1>1. /\ request \in Request /\ operations = <<>> /\ pending = <<>> /\ payloads = <<>>
      /\ manifest = <<>> /\ selected = {} /\ origin = NoRequest /\ phase = "asked"
  BY LiveCaptureAssumption DEF LiveInit
<1>2. LiveTypeOK
  <2>1. <<>> \in Seq(Operation) /\ <<>> \in Seq(Outcome)
    OBVIOUS
  <2> QED
    BY <1>1, <2>1 DEF LiveTypeOK
<1>3. Written
  BY <1>1, FromNothing DEF Written
<1> QED
  BY <1>1, <1>2, <1>3 DEF LiveInv, AsPlanned, DetailFollows, Requested

(* A capture that ends without storing anything.                            *)
LEMMA Ending ==
    ASSUME LiveInv, phase' = "failed", phase # "stored",
           UNCHANGED <<request, origin, pending, operations, payloads, manifest, selected>>
    PROVE  LiveInv'
<1>1. LiveTypeOK'
  BY DEF LiveInv, LiveTypeOK
<1>2. AsPlanned' /\ DetailFollows' /\ Written' /\ Requested'
  BY DEF LiveInv, AsPlanned, DetailFollows, Written, Requested
<1> QED
  BY <1>1, <1>2 DEF LiveInv

(* A capture starts with its whole plan open.                               *)
LEMMA Starting == ASSUME LiveInv, Start PROVE LiveInv'
<1>1. /\ request \in Request /\ operations = <<>> /\ payloads = <<>>
      /\ phase' = "collecting" /\ pending' = Plan(request) /\ selected = {}
      /\ UNCHANGED <<request, origin, operations, payloads, manifest, selected>>
  BY DEF LiveInv, LiveTypeOK, Requested, Start
<1>2. Plan(request) \in Seq(Operation)
  BY <1>1, PlanRange
<1>3. \A i \in DOMAIN Plan(request) : Plan(request)[i].name # "bw_get_request"
  BY <1>1, NoDetailPlanned
<1> DEFINE p == Plan(request)
<1> HIDE DEF p
<1>4. ~(p # <<>> /\ Head(p).name = "bw_get_request") /\ p \in Seq(Operation)
  BY <1>2, <1>3, PlanNotDetail DEF p
<1>5. pending' = p /\ Open' = p
  BY <1>1, <1>4 DEF Open, p
<1>6. <<>> \o p = p
  BY <1>4
<1>7. ListedOf(operations') = <<>>
  BY <1>1, FromNothing
<1>8. AsPlanned'
  BY <1>1, <1>3, <1>5, <1>6, <1>7 DEF AsPlanned, p
<1>9. DetailFollows'
  BY <1>1, <1>4, <1>5 DEF DetailFollows
<1>10. Written'
  BY <1>1 DEF LiveInv, Written
<1>11. Requested'
  BY <1>1 DEF LiveInv, Requested
<1>12. LiveTypeOK'
  BY <1>1, <1>2 DEF LiveInv, LiveTypeOK
<1> QED
  BY <1>8, <1>9, <1>10, <1>11, <1>12 DEF LiveInv

(* A call succeeds or fails: it is recorded.                                *)
LEMMA Calling == ASSUME LiveInv, CallSucceeds \/ CallFails PROVE LiveInv'
<1>1. /\ phase = "collecting" /\ pending # <<>> /\ phase' = phase /\ request' = request
      /\ UNCHANGED <<origin, manifest, selected>>
  BY DEF CallSucceeds, CallFails
<1>2. PICK ok \in BOOLEAN :
        /\ operations' = Append(operations, [call |-> Head(pending), ok |-> ok])
        /\ payloads' = IF ok THEN Append(payloads, Head(pending)) ELSE payloads
        /\ \/ pending' = Tail(pending)
           \/ /\ ok /\ Head(pending).name = "bw_list_requests"
              /\ pending' = <<LatestRequest(Head(pending))>> \o Tail(pending)
  <2>1. CASE CallSucceeds
    BY <2>1 DEF CallSucceeds
  <2>2. CASE CallFails
    BY <2>2 DEF CallFails
  <2> QED
    BY <2>1, <2>2
<1>3. AsPlanned' /\ DetailFollows' /\ pending' \in Seq(Operation) /\ operations' \in Seq(Outcome)
  BY <1>1, <1>2, CallMade
<1> DEFINE x == [call |-> Head(pending), ok |-> ok]
<1>4. /\ pending \in Seq(Operation) /\ operations \in Seq(Outcome) /\ payloads \in Seq(Operation)
      /\ Head(pending) \in Operation
  BY <1>1 DEF LiveInv, LiveTypeOK
<1>5. x \in Outcome /\ x.call = Head(pending) /\ x.ok = ok
  BY <1>4 DEF Outcome
<1> HIDE DEF x
<1>6. OkOf(Append(operations, x)) = IF x.ok THEN Append(OkOf(operations), x.call) ELSE OkOf(operations)
  BY <1>4, <1>5, OkAppend
<1>7. payloads = OkOf(operations)
  BY DEF LiveInv, Written
<1>8. payloads' = OkOf(operations')
  BY <1>2, <1>5, <1>6, <1>7 DEF x
<1>9. Written'
  BY <1>1, <1>8 DEF Written
<1>10. payloads' \in Seq(Operation)
  BY <1>2, <1>4
<1>11. LiveTypeOK'
  BY <1>1, <1>3, <1>10 DEF LiveInv, LiveTypeOK
<1>12. Requested'
  BY <1>1 DEF LiveInv, Requested
<1> QED
  BY <1>3, <1>9, <1>11, <1>12 DEF LiveInv

(* The manifest is what was written, and not empty.                         *)
LEMMA Collecting == ASSUME LiveInv, WriteManifest PROVE LiveInv'
<1>1. /\ phase = "collecting" /\ pending = <<>> /\ SomethingSucceeded /\ manifest' = payloads
      /\ phase' = "collected"
      /\ UNCHANGED <<request, origin, pending, operations, payloads, selected>>
  BY DEF WriteManifest
<1>2. LiveTypeOK'
  BY <1>1 DEF LiveInv, LiveTypeOK
<1>3. AsPlanned'
  BY <1>1 DEF LiveInv, AsPlanned, Open
<1>4. Written'
  BY <1>1 DEF LiveInv, Written, SomethingSucceeded
<1>5. DetailFollows' /\ Requested'
  BY <1>1 DEF LiveInv, DetailFollows, Requested
<1> QED
  BY <1>2, <1>3, <1>4, <1>5 DEF LiveInv

(* The scope entries are those of this request and these outcomes.          *)
LEMMA Storing == ASSUME LiveInv, Store PROVE LiveInv'
<1>1. /\ phase = "collected" /\ phase' = "stored" /\ selected' = ScopeEntries(request, operations)
      /\ UNCHANGED <<request, origin, pending, operations, payloads, manifest>>
  BY DEF Store
<1>2. ScopeEntries(request, operations) \subseteq Entry
  BY EntriesTyped DEF LiveInv, LiveTypeOK
<1>3. LiveTypeOK'
  BY <1>1, <1>2 DEF LiveInv, LiveTypeOK
<1>4. AsPlanned'
  BY <1>1 DEF LiveInv, AsPlanned, Open
<1>5. Written'
  BY <1>1 DEF LiveInv, Written, SomethingSucceeded
<1>6. DetailFollows' /\ Requested'
  BY <1>1 DEF LiveInv, DetailFollows, Requested
<1> QED
  BY <1>3, <1>4, <1>5, <1>6 DEF LiveInv

(* The next request is what the scope entries keep of this one.             *)
LEMMA Refreshing == ASSUME LiveInv, Refresh PROVE LiveInv'
<1>1. /\ phase = "stored" /\ phase' = "asked" /\ request' = RefreshRequest(selected)
      /\ origin' = request /\ operations' = <<>> /\ payloads' = <<>> /\ manifest' = <<>>
      /\ selected' = {} /\ pending' = pending
  BY DEF Refresh
<1>2. request \in Request /\ selected = ScopeEntries(request, operations)
  BY <1>1 DEF LiveInv, LiveTypeOK, Requested
<1>3. request' = Kept(request) /\ Kept(request) \in Request
  BY <1>1, <1>2, KeptIsRefresh, KeptTyped
<1>4. <<>> \in Seq(Operation) /\ <<>> \in Seq(Outcome)
  OBVIOUS
<1>5. LiveTypeOK'
  BY <1>1, <1>2, <1>3, <1>4 DEF LiveInv, LiveTypeOK
<1>6. Written'
  BY <1>1, FromNothing DEF Written
<1>7. AsPlanned' /\ DetailFollows' /\ Requested'
  BY <1>1, <1>3 DEF AsPlanned, DetailFollows, Requested
<1> QED
  BY <1>5, <1>6, <1>7 DEF LiveInv

LEMMA LiveInvSteps == LiveInv /\ [LiveNext]_liveVars => LiveInv'
<1> SUFFICES ASSUME LiveInv, [LiveNext]_liveVars PROVE LiveInv'
  OBVIOUS
<1>1. CASE Refuse
  BY <1>1, Ending DEF Refuse
<1>2. CASE Start
  BY <1>2, Starting
<1>3. CASE CallSucceeds \/ CallFails
  BY <1>3, Calling
<1>4. CASE WriteFails
  BY <1>4, Ending DEF WriteFails
<1>5. CASE NothingCollected
  BY <1>5, Ending DEF NothingCollected
<1>6. CASE WriteManifest
  BY <1>6, Collecting
<1>7. CASE IngestFails
  BY <1>7, Ending DEF IngestFails
<1>8. CASE Store
  BY <1>8, Storing
<1>9. CASE Refresh
  BY <1>9, Refreshing
<1>10. CASE UNCHANGED liveVars
  <2>1. LiveTypeOK'
    BY <1>10 DEF liveVars, LiveInv, LiveTypeOK
  <2>2. AsPlanned' /\ DetailFollows' /\ Requested'
    BY <1>10 DEF liveVars, LiveInv, AsPlanned, Open, DetailFollows, Requested
  <2>3. Written'
    BY <1>10 DEF liveVars, LiveInv, Written, SomethingSucceeded
  <2> QED
    BY <2>1, <2>2, <2>3 DEF LiveInv
<1> QED
  BY <1>1, <1>2, <1>3, <1>4, <1>5, <1>6, <1>7, <1>8, <1>9, <1>10 DEF LiveNext, Capture

(* The inductive invariant of _capture_v1_snapshot around                   *)
(* collect_live_snapshot: what was made and what is open are the plan,      *)
(* detail reads follow their list, payloads are the calls that succeeded,   *)
(* and a refresh asks for what the scope entries keep.                      *)
THEOREM LiveInvHolds == LiveSpec => []LiveInv
  BY LiveInvInit, LiveInvSteps, PTL DEF LiveSpec

-----------------------------------------------------------------------------
(* Type correctness: a refresh, too, is a request a client could send, and  *)
(* only calls of the known operations are made and recorded.                *)
THEOREM LiveTypeCorrect == LiveSpec => []LiveTypeOK
<1>1. LiveInv => LiveTypeOK
  BY DEF LiveInv
<1> QED
  BY <1>1, LiveInvHolds, PTL

(* collect_live_snapshot, for any request: whatever calls fail, every call  *)
(* asked for is recorded once and in order, details are read only after     *)
(* their list, and the manifest is exactly what succeeded, and not empty.   *)
THEOREM EveryCallAccountedHolds == LiveSpec => []EveryCallAccounted
<1>1. ASSUME LiveInv, phase \in {"collected", "stored"}
      PROVE  /\ Taken(Calls(operations), ListedPlaces) = Plan(request)
             /\ manifest # <<>> /\ manifest = OkOf(operations)
  <2>1. /\ ListedOf(operations) \o Open = Plan(request) /\ pending = <<>>
        /\ manifest = OkOf(operations) /\ SomethingSucceeded /\ operations \in Seq(Outcome)
    BY <1>1 DEF LiveInv, AsPlanned, Written, LiveTypeOK
  <2>2. Open = <<>>
    BY <2>1 DEF Open
  <2>3. ListedOf(operations) \in Seq(Operation)
    <3>1. PICK x \in Outcome : TRUE
      BY <2>1 DEF SomethingSucceeded
    <3> QED
      BY <2>1, <3>1, ListedAppend
  <2>4. ListedOf(operations) = Plan(request)
    <3> DEFINE L == ListedOf(operations)
    <3>1. L \in Seq(Operation)
      BY <2>3
    <3> HIDE DEF L
    <3>2. L \o <<>> = L
      BY <3>1
    <3> QED
      BY <2>1, <2>2, <3>2 DEF L
  <2>5. OkOf(operations) # <<>>
    BY <2>1, OkNotEmpty DEF SomethingSucceeded
  <2> QED
    BY <2>1, <2>4, <2>5 DEF ListedOf, ListedPlaces
<1>2. LiveInv => EveryCallAccounted
  BY <1>1 DEF EveryCallAccounted, LiveInv, DetailFollows, OkOf
<1> QED
  BY <1>2, LiveInvHolds, PTL

(* _build_refresh_capture_request, for any request and any outcomes: the    *)
(* refresh makes the calls of the capture it refreshes, but for the         *)
(* searches, and a refresh of the refresh asks for the very same.           *)
THEOREM RefreshRepeatsHolds == LiveSpec => []RefreshRepeats
<1>1. ASSUME LiveInv, phase = "asked", origin # NoRequest
      PROVE  {c \in ToSet(Plan(origin)) : c.name # "bw_search"} = ToSet(Plan(request))
  <2>1. origin \in Request /\ request = Kept(origin)
    BY <1>1 DEF LiveInv, LiveTypeOK, Requested
  <2> QED
    BY <2>1, KeptCalls
<1>2. ASSUME LiveInv, phase = "stored", origin # NoRequest
      PROVE  RefreshRequest(selected) = request
  <2>1. /\ origin \in Request /\ request = Kept(origin) /\ request \in Request
        /\ selected = ScopeEntries(request, operations)
    BY <1>2 DEF LiveInv, LiveTypeOK, Requested
  <2>2. RefreshRequest(selected) = Kept(request)
    BY <2>1, KeptIsRefresh
  <2> QED
    BY <2>1, <2>2, KeptTwice
<1>3. LiveInv => RefreshRepeats
  BY <1>1, <1>2 DEF RefreshRepeats
<1> QED
  BY <1>3, LiveInvHolds, PTL

(* Who a planned call is about, and what its label is.                      *)
About(c, r) ==
    /\ c.label = Label(c.name, c.of)
    /\ c.name \in SelectedOperations(r) => c.of \in ToSet(r.objects)
    /\ c.name = "bw_get_query" => c.of \in ToSet(r.queries)

(* A planned call is about a name of the request.                           *)
LEMMA PlannedAbout ==
    ASSUME NEW r \in Request, NEW c \in ToSet(Plan(r))
    PROVE  About(c, r)
<1>1. c \in Searches(r) \cup OfObjects(r) \cup OfQueries(r)
  BY PlanRange
<1>2. CASE c \in Searches(r)
  BY <1>2 DEF Searches, Call, About, Label, SelectedOperations
<1>3. CASE c \in OfObjects(r)
  <2>1. PICK n \in ToSet(r.objects), name \in ObjectOperations(r) :
          c = Call(name, n, Label(name, n), r.options)
    BY <1>3 DEF OfObjects
  <2>2. c.name = name /\ c.of = n /\ c.label = Label(name, n) /\ name # "bw_get_query"
    BY <2>1 DEF Call, ObjectOperations, SelectedOperations
  <2> QED
    BY <2>1, <2>2 DEF About
<1>4. CASE c \in OfQueries(r)
  BY <1>4 DEF OfQueries, Call, About, Label, SelectedOperations
<1> QED
  BY <1>1, <1>2, <1>3, <1>4

(* So is every call that was made.                                          *)
LEMMA MadeAbout ==
    ASSUME LiveInv, phase = "stored", NEW i \in DOMAIN operations
    PROVE  About(operations[i].call, request)
<1> DEFINE I == {k \in DOMAIN operations : operations[k].call.name # "bw_get_request"}
           c == Calls(operations)
<1>1. /\ request \in Request /\ operations \in Seq(Outcome) /\ pending = <<>>
      /\ ListedOf(operations) \o Open = Plan(request)
      /\ \A k \in DOMAIN operations : operations[k].call.name = "bw_get_request" =>
           /\ k > 1 /\ operations[k - 1].call.name = "bw_list_requests"
           /\ operations[k].call = LatestRequest(operations[k - 1].call)
  BY DEF LiveInv, LiveTypeOK, AsPlanned, Written, DetailFollows
<1>2. DOMAIN operations = 1..Len(operations) /\ Len(operations) \in Nat
  BY <1>1
<1>3. PICK x \in Outcome : TRUE
  BY <1>1
<1>4. c \in Seq(Operation) /\ DOMAIN c = DOMAIN operations /\ \A k \in DOMAIN operations : c[k] = operations[k].call
  BY <1>1, <1>3, CallsAppend DEF Calls
<1> HIDE DEF c
<1>5. ToSet(Plan(request)) = {c[k] : k \in I \cap DOMAIN c}
  <2>1. Open = <<>>
    BY <1>1 DEF Open
  <2> DEFINE L == Taken(c, I)
  <2>2. L \in Seq(Operation) /\ ToSet(L) = {c[k] : k \in I \cap DOMAIN c}
    BY <1>4, TakenRange
  <2>3. ListedOf(operations) = L
    BY DEF ListedOf, c
  <2> HIDE DEF L
  <2>4. L \o <<>> = L
    BY <2>2
  <2> QED
    BY <1>1, <2>1, <2>2, <2>3, <2>4
<1>6. ASSUME NEW k \in DOMAIN operations, operations[k].call.name # "bw_get_request"
      PROVE  About(operations[k].call, request)
  <2>1. operations[k].call \in ToSet(Plan(request))
    BY <1>4, <1>5, <1>6
  <2> QED
    BY <1>1, <2>1, PlannedAbout
<1>7. CASE operations[i].call.name = "bw_get_request"
  <2> DEFINE d == operations[i].call  l == operations[i - 1].call
  <2>1. i - 1 \in DOMAIN operations /\ l.name = "bw_list_requests" /\ d = LatestRequest(l)
    BY <1>1, <1>2, <1>7
  <2>2. About(l, request)
    BY <1>6, <2>1
  <2>3. l \in Operation
    <3>1. operations[i - 1] \in Outcome
      BY <1>1, <1>2, <2>1
    <3> QED
      BY <3>1 DEF Outcome
  <2> HIDE DEF d, l
  <2>4. d.name = "bw_get_request" /\ d.of = l.of /\ d.label = l.label
    BY <2>1, <2>3 DEF LatestRequest, Operation
  <2>5. "bw_get_request" \in SelectedOperations(request) => "bw_list_requests" \in SelectedOperations(request)
    BY DEF SelectedOperations, OperationNames
  <2>6. About(d, request)
    BY <2>1, <2>2, <2>4, <2>5 DEF About, Label
  <2> QED
    BY <2>6 DEF d
<1> QED
  BY <1>6, <1>7

-----------------------------------------------------------------------------
(* Lists in order. *)

(* Each entry that Taken returns has its place, and the places ascend.      *)
LEMMA TakenPlaces ==
    ASSUME NEW S, NEW s \in Seq(S), NEW I
    PROVE  \E pos \in [1..Len(Taken(s, I)) -> I \cap 1..Len(s)] :
             /\ \A a \in 1..Len(Taken(s, I)) : Taken(s, I)[a] = s[pos[a]]
             /\ \A a, b \in 1..Len(Taken(s, I)) : a < b => pos[a] < pos[b]
             /\ \A i \in I \cap 1..Len(s) : \E a \in 1..Len(Taken(s, I)) : pos[a] = i
<1> DEFINE n == Len(s)
           Places(t, k, pos) == /\ \A a \in 1..Len(t) : t[a] = s[pos[a]]
                                /\ \A a, b \in 1..Len(t) : a < b => pos[a] < pos[b]
                                /\ \A i \in I \cap 1..k : \E a \in 1..Len(t) : pos[a] = i
<1>1. PICK f \in [0..n -> Seq(S)] : TakenParts(f, s, I) /\ Taken(s, I) = f[n]
  BY TakenIs
<1> DEFINE P == {k \in 0..n : \E pos \in [1..Len(f[k]) -> I \cap 1..k] : Places(f[k], k, pos)}
<1>2. n \in Nat
  OBVIOUS
<1>3. 0 \in P
  <2> DEFINE pos == [a \in {} |-> 0]
  <2>1. f[0] = <<>> /\ Len(f[0]) = 0 /\ 1..0 = {} /\ 0 \in 0..n
    BY <1>1, <1>2 DEF TakenParts
  <2>2. pos \in [1..Len(f[0]) -> I \cap 1..0]
    BY <2>1
  <2>3. Places(f[0], 0, pos)
    BY <2>1
  <2> HIDE DEF pos, Places
  <2> QED
    BY <2>1, <2>2, <2>3
<1>4. ASSUME NEW k \in 1..n, k - 1 \in P PROVE k \in P
  <2> DEFINE t == f[k - 1]  m == Len(t)
  <2>1. k \in 0..n /\ k - 1 \in 0..n /\ t \in Seq(S) /\ m \in Nat /\ s[k] \in S
    BY <1>1, <1>2
  <2>2. f[k] = IF k \in I THEN Append(t, s[k]) ELSE t
    BY <1>1 DEF TakenParts
  <2>3. PICK p \in [1..m -> I \cap 1..k - 1] : Places(t, k - 1, p)
    BY <1>4
  <2> HIDE DEF t, m, P
  <2>4. CASE k \notin I
    <3>1. I \cap 1..k = I \cap 1..k - 1
      BY <2>1, <2>4
    <3>2. f[k] = t
      BY <2>2, <2>4
    <3>3. p \in [1..Len(f[k]) -> I \cap 1..k] /\ Places(f[k], k, p)
      BY <2>3, <3>1, <3>2 DEF m
    <3> QED
      BY <2>1, <3>3 DEF P
  <2>5. CASE k \in I
    <3> DEFINE u == Append(t, s[k])
               q == [a \in 1..m + 1 |-> IF a = m + 1 THEN k ELSE p[a]]
    <3>1. f[k] = u /\ Len(u) = m + 1 /\ u[m + 1] = s[k] /\ \A a \in 1..m : u[a] = t[a]
      BY <2>1, <2>2, <2>5 DEF m
    <3>2. q[m + 1] = k /\ \A a \in 1..m : q[a] = p[a] /\ p[a] \in I /\ p[a] \in 1..k - 1
      BY <2>1, <2>3
    <3>3. q \in [1..m + 1 -> I \cap 1..k]
      BY <2>1, <2>3, <2>5
    <3> HIDE DEF u, q
    <3>4. \A a \in 1..m + 1 : a = m + 1 \/ a \in 1..m
      BY <2>1
    <3>5. \A a \in 1..m + 1 : u[a] = s[q[a]]
      BY <2>3, <3>1, <3>2, <3>4 DEF m
    <3>6. \A a, b \in 1..m + 1 : a < b => q[a] < q[b]
      <4> SUFFICES ASSUME NEW a \in 1..m + 1, NEW b \in 1..m + 1, a < b PROVE q[a] < q[b]
        OBVIOUS
      <4>1. a \in 1..m
        BY <2>1
      <4>2. CASE b = m + 1
        BY <2>1, <3>2, <4>1, <4>2
      <4>3. CASE b \in 1..m
        BY <2>3, <3>2, <4>1, <4>3 DEF m
      <4> QED
        BY <3>4, <4>2, <4>3
    <3>7. \A i \in I \cap 1..k : \E a \in 1..m + 1 : q[a] = i
      <4> SUFFICES ASSUME NEW i \in I \cap 1..k PROVE \E a \in 1..m + 1 : q[a] = i
        OBVIOUS
      <4>1. CASE i = k
        BY <2>1, <3>2, <4>1
      <4>2. CASE i # k
        <5>1. i \in I \cap 1..k - 1
          BY <2>1, <4>2
        <5>2. PICK a \in 1..m : p[a] = i
          BY <2>3, <5>1 DEF m
        <5>3. a \in 1..m + 1 /\ q[a] = i
          BY <2>1, <3>2, <5>2
        <5> QED
          BY <5>3
      <4> QED
        BY <4>1, <4>2
    <3>8. Places(u, k, q)
      BY <3>1, <3>5, <3>6, <3>7
    <3> HIDE DEF Places
    <3> QED
      BY <2>1, <3>1, <3>3, <3>8 DEF P
  <2> QED
    BY <2>4, <2>5
<1>5. n \in P
  <2> HIDE DEF P, n
  <2>1. 0..n \subseteq P
    BY <1>2, <1>3, <1>4, UpTo
  <2> QED
    BY <1>2, <2>1
<1> QED
  BY <1>1, <1>5

(* Any two entries of a list, in order, are in the relation R.              *)
Paired(s, R) == \A i, j \in 1..Len(s) : i < j => <<s[i], s[j]>> \in R

(* What is taken of a list keeps its order, ...                             *)
LEMMA TakenPaired ==
    ASSUME NEW S, NEW s \in Seq(S), NEW I, NEW R,
           \A i, j \in I \cap 1..Len(s) : i < j => <<s[i], s[j]>> \in R
    PROVE  Paired(Taken(s, I), R)
<1> DEFINE t == Taken(s, I)
<1>1. PICK pos \in [1..Len(t) -> I \cap 1..Len(s)] :
        /\ \A a \in 1..Len(t) : t[a] = s[pos[a]]
        /\ \A a, b \in 1..Len(t) : a < b => pos[a] < pos[b]
  BY TakenPlaces
<1> HIDE DEF t
<1> SUFFICES ASSUME NEW a \in 1..Len(t), NEW b \in 1..Len(t), a < b PROVE <<t[a], t[b]>> \in R
  BY DEF Paired, t
<1>2. /\ pos[a] \in I \cap 1..Len(s) /\ pos[b] \in I \cap 1..Len(s) /\ pos[a] < pos[b]
      /\ t[a] = s[pos[a]] /\ t[b] = s[pos[b]]
  BY <1>1
<1>3. <<s[pos[a]], s[pos[b]]>> \in R
  BY <1>2
<1> QED
  BY <1>2, <1>3

(* ... so that the list has, at the places taken, the order of what is taken. *)
LEMMA PairedTaken ==
    ASSUME NEW S, NEW s \in Seq(S), NEW I, NEW R, Paired(Taken(s, I), R),
           NEW i \in I \cap 1..Len(s), NEW j \in I \cap 1..Len(s), i < j
    PROVE  <<s[i], s[j]>> \in R
<1> DEFINE t == Taken(s, I)
<1>1. PICK pos \in [1..Len(t) -> I \cap 1..Len(s)] :
        /\ \A a \in 1..Len(t) : t[a] = s[pos[a]]
        /\ \A a, b \in 1..Len(t) : a < b => pos[a] < pos[b]
        /\ \A k \in I \cap 1..Len(s) : \E a \in 1..Len(t) : pos[a] = k
  BY TakenPlaces
<1>0. t \in Seq(S)
  BY TakenRange
<1>2. \A a, b \in 1..Len(t) : a < b => <<t[a], t[b]>> \in R
  BY DEF Paired
<1> HIDE DEF t
<1>3. PICK a \in 1..Len(t) : pos[a] = i
  BY <1>1
<1>4. PICK b \in 1..Len(t) : pos[b] = j
  BY <1>1
<1>5. a < b
  <2>1. a \in Int /\ b \in Int /\ i \in Int /\ j \in Int
    BY <1>0
  <2>2. b < a => j < i
    BY <1>1, <1>3, <1>4
  <2>3. a # b
    BY <1>3, <1>4, <2>1
  <2> QED
    BY <2>1, <2>2, <2>3
<1> QED
  BY <1>1, <1>2, <1>3, <1>4, <1>5

(* Two lists in order, and the first before the second.                     *)
LEMMA JoinPaired ==
    ASSUME NEW S, NEW s \in Seq(S), NEW t \in Seq(S), NEW R, Paired(s, R), Paired(t, R),
           \A x \in ToSet(s), y \in ToSet(t) : <<x, y>> \in R
    PROVE  Paired(s \o t, R)
<1> DEFINE u == s \o t  m == Len(s)  n == Len(t)
<1>1. m \in Nat /\ n \in Nat /\ Len(u) = m + n /\ DOMAIN s = 1..m /\ DOMAIN t = 1..n
  OBVIOUS
<1>2. \A i \in 1..m + n : u[i] = IF i <= m THEN s[i] ELSE t[i - m]
  OBVIOUS
<1> HIDE DEF u, m, n
<1> SUFFICES ASSUME NEW i \in 1..m + n, NEW j \in 1..m + n, i < j PROVE <<u[i], u[j]>> \in R
  BY <1>1 DEF Paired, u
<1>3. CASE j <= m
  <2>1. i \in 1..m /\ j \in 1..m /\ u[i] = s[i] /\ u[j] = s[j]
    BY <1>1, <1>2, <1>3
  <2> QED
    BY <2>1 DEF Paired, m
<1>4. CASE i <= m /\ j > m
  <2>1. i \in 1..m /\ j - m \in 1..n /\ u[i] = s[i] /\ u[j] = t[j - m]
    BY <1>1, <1>2, <1>4
  <2>2. u[i] \in ToSet(s) /\ u[j] \in ToSet(t)
    BY <1>1, <2>1 DEF ToSet
  <2> QED
    BY <2>2
<1>5. CASE i > m
  <2>1. i - m \in 1..n /\ j - m \in 1..n /\ i - m < j - m /\ u[i] = t[i - m] /\ u[j] = t[j - m]
    BY <1>1, <1>2, <1>5
  <2> QED
    BY <2>1 DEF Paired, n
<1> QED
  BY <1>1, <1>3, <1>4, <1>5

(* Many lists in order, each before the next ones.                          *)
LEMMA JoinedPaired ==
    ASSUME NEW S, NEW ls \in Seq(Seq(S)), NEW R,
           \A a \in 1..Len(ls) : Paired(ls[a], R),
           \A a, b \in 1..Len(ls) : a < b =>
             \A x \in ToSet(ls[a]), y \in ToSet(ls[b]) : <<x, y>> \in R
    PROVE  Paired(Joined(ls), R)
<1> DEFINE n == Len(ls)
           In(k) == UNION {ToSet(ls[a]) : a \in 1..k}
<1>1. PICK f \in [0..n -> Seq(S)] : JoinedParts(f, ls) /\ Joined(ls) = f[n]
  BY JoinedIs
<1> DEFINE P == {k \in 0..n : ToSet(f[k]) = In(k) /\ Paired(f[k], R)}
<1>2. n \in Nat /\ DOMAIN ls = 1..n
  OBVIOUS
<1>3. 0 \in P
  BY <1>1, <1>2 DEF JoinedParts, ToSet, Paired
<1>4. ASSUME NEW k \in 1..n, k - 1 \in P PROVE k \in P
  <2>0. k \in 0..n /\ k - 1 \in 0..n /\ ls[k] \in Seq(S)
    BY <1>2
  <2>1. f[k - 1] \in Seq(S)
    BY <1>1, <2>0
  <2>2. f[k] = f[k - 1] \o ls[k]
    BY <1>1 DEF JoinedParts
  <2>3. ToSet(f[k]) = In(k - 1) \cup ToSet(ls[k])
    BY <1>4, <2>0, <2>1, <2>2, JoinRange
  <2>4. 1..k = (1..k - 1) \cup {k}
    BY <1>2
  <2>5. ASSUME NEW x \in ToSet(f[k - 1]), NEW y \in ToSet(ls[k]) PROVE <<x, y>> \in R
    <3>1. PICK a \in 1..k - 1 : x \in ToSet(ls[a])
      BY <1>4
    <3>2. a \in 1..n /\ a < k
      BY <1>2
    <3> QED
      BY <3>1, <3>2
  <2>6. Paired(f[k - 1], R) /\ Paired(ls[k], R)
    BY <1>4
  <2> DEFINE g == f[k - 1]  h == ls[k]
  <2>7. g \in Seq(S) /\ h \in Seq(S) /\ Paired(g, R) /\ Paired(h, R)
        /\ \A x \in ToSet(g), y \in ToSet(h) : <<x, y>> \in R
    BY <2>0, <2>1, <2>5, <2>6
  <2> HIDE DEF g, h
  <2>8. Paired(g \o h, R)
    BY <2>7, JoinPaired
  <2> QED
    BY <2>0, <2>2, <2>3, <2>4, <2>8 DEF g, h
<1>5. n \in P
  <2> HIDE DEF P, n
  <2>1. 0..n \subseteq P
    BY <1>2, <1>3, <1>4, UpTo
  <2> QED
    BY <1>2, <2>1
<1> QED
  BY <1>1, <1>5

-----------------------------------------------------------------------------
(* Names and calls in order. *)

(* Of two names one precedes the other, and only one.                       *)
LEMMA PrecedesStrict ==
    ASSUME NEW n \in Names, NEW m \in Names, Precedes(n, m)
    PROVE  n # m /\ ~Precedes(m, n)
<1>1. NameOrder \in Seq(Names) /\ ToSet(NameOrder) = Names
  BY LiveCaptureAssumption
<1>2. PICK i \in DOMAIN NameOrder : NameOrder[i] = n
  BY <1>1 DEF ToSet
<1>3. PICK j \in DOMAIN NameOrder : NameOrder[j] = m
  BY <1>1 DEF ToSet
<1>4. i < j
  BY <1>2, <1>3 DEF Precedes
<1>5. i \in Int /\ j \in Int
  BY <1>1
<1>6. ~(j < i) /\ ~(i < i)
  BY <1>4, <1>5
<1> QED
  BY <1>2, <1>3, <1>6 DEF Precedes

Before == {p \in Names \X Names : Precedes(p[1], p[2])}

(* Names taken from the order stand in it, ...                              *)
LEMMA SortedBefore == ASSUME NEW S PROVE Paired(Sorted(S), Before)
<1> DEFINE I == {i \in DOMAIN NameOrder : NameOrder[i] \in S}
<1>1. /\ NameOrder \in Seq(Names)
      /\ \A i, j \in DOMAIN NameOrder : NameOrder[i] = NameOrder[j] => i = j
  BY LiveCaptureAssumption
<1>2. DOMAIN NameOrder = 1..Len(NameOrder)
  BY <1>1
<1>3. ASSUME NEW i \in I \cap 1..Len(NameOrder), NEW j \in I \cap 1..Len(NameOrder), i < j
      PROVE  <<NameOrder[i], NameOrder[j]>> \in Before
  <2>1. NameOrder[i] \in Names /\ NameOrder[j] \in Names
    BY <1>1, <1>2
  <2>2. Precedes(NameOrder[i], NameOrder[j])
    <3> SUFFICES ASSUME NEW k \in DOMAIN NameOrder, NEW l \in DOMAIN NameOrder,
                        NameOrder[k] = NameOrder[i], NameOrder[l] = NameOrder[j]
                 PROVE  k < l
      BY DEF Precedes
    <3>1. k = i /\ l = j
      BY <1>1, <1>2
    <3> QED
      BY <1>3, <3>1
  <2> QED
    BY <2>1, <2>2 DEF Before
<1> HIDE DEF I
<1>4. Paired(Taken(NameOrder, I), Before)
  BY <1>1, <1>3, TakenPaired
<1> QED
  BY <1>4 DEF Sorted, I

(* ... so a refresh asks for its objects and queries in order.              *)
LEMMA KeptInOrder == ASSUME NEW r PROVE InOrder(Kept(r))
<1>1. ASSUME NEW S PROVE \A i, j \in DOMAIN Sorted(S) :
        i < j => Sorted(S)[i] = Sorted(S)[j] \/ Precedes(Sorted(S)[i], Sorted(S)[j])
  <2> DEFINE s == Sorted(S)
  <2>1. s \in Seq(Names) /\ Paired(s, Before)
    BY SortedRange, SortedBefore
  <2> HIDE DEF s
  <2>2. DOMAIN s = 1..Len(s)
    BY <2>1
  <2>3. \A i, j \in DOMAIN s : i < j => Precedes(s[i], s[j])
    BY <2>1, <2>2 DEF Paired, Before
  <2> QED
    BY <2>3 DEF s
<1>2. PICK S : Kept(r).objects = Sorted(S)
  BY DEF Kept
<1>3. PICK T : Kept(r).queries = Sorted(T)
  BY DEF Kept
<1> QED
  BY <1>1, <1>2, <1>3 DEF InOrder

(* Names in order stand in it strictly once repetitions are dropped.        *)
LEMMA UniqueBefore ==
    ASSUME NEW s \in Seq(Names),
           \A i, j \in DOMAIN s : i < j => s[i] = s[j] \/ Precedes(s[i], s[j])
    PROVE  Paired(Unique(s), Before)
<1> DEFINE I == {i \in DOMAIN s : \A j \in 1..i - 1 : s[j] # s[i]}
<1>1. DOMAIN s = 1..Len(s)
  OBVIOUS
<1>2. ASSUME NEW i \in I \cap 1..Len(s), NEW j \in I \cap 1..Len(s), i < j
      PROVE  <<s[i], s[j]>> \in Before
  <2>1. i \in 1..j - 1 /\ s[i] \in Names /\ s[j] \in Names
    BY <1>1, <1>2
  <2>2. s[i] # s[j]
    BY <2>1
  <2>3. Precedes(s[i], s[j])
    BY <1>1, <1>2, <2>2
  <2> QED
    BY <2>1, <2>3 DEF Before
<1> HIDE DEF I
<1>3. Paired(Taken(s, I), Before)
  BY <1>2, TakenPaired
<1> QED
  BY <1>3 DEF Unique, I

(* Calls with one name, but for the searches, follow the order of names.    *)
Ordered == {p \in Operation \X Operation :
              p[1].name = p[2].name /\ p[1].name # "bw_search" => Precedes(p[1].of, p[2].of)}

LEMMA PlainOrdered ==
    ASSUME NEW name \in OperationNames, NEW names \in Seq(Names),
           name = "bw_search" \/ Paired(names, Before)
    PROVE  Paired(PlainCalls(name, names), Ordered)
<1> DEFINE c == PlainCalls(name, names)
<1>1. /\ c \in Seq(Operation) /\ Len(c) = Len(names)
      /\ \A i \in 1..Len(names) : c[i] = Call(name, names[i], names[i], NoOptions)
  BY PlainCallsRange DEF PlainCalls
<1> HIDE DEF c
<1> SUFFICES ASSUME NEW i \in 1..Len(names), NEW j \in 1..Len(names), i < j
             PROVE  <<c[i], c[j]>> \in Ordered
  BY <1>1 DEF Paired, c
<1>2. c[i] \in Operation /\ c[j] \in Operation
  BY <1>1
<1>3. c[i].name = name /\ c[i].of = names[i] /\ c[j].of = names[j]
  <2>1. /\ c[i] = Call(name, names[i], names[i], NoOptions)
        /\ c[j] = Call(name, names[j], names[j], NoOptions)
    BY <1>1
  <2> HIDE DEF c
  <2> QED
    BY <2>1 DEF Call
<1>4. name # "bw_search" => Precedes(names[i], names[j])
  BY DEF Paired, Before
<1> QED
  BY <1>2, <1>3, <1>4 DEF Ordered

LEMMA ObjectOrdered ==
    ASSUME NEW r \in Request, NEW n \in Names
    PROVE  Paired(ObjectCalls(r, n), Ordered)
<1> DEFINE c1 == Call("bw_get_dataflow", n, n, r.options)
           c2 == Call("bw_xref", n, Upper[n], r.options)
           c3 == Call("bw_list_requests", n, n, r.options)
           calls == <<c1, c2, c3>>
           flags == <<r.dataflow, r.xref, r.freshness>>
           I == {k \in 1..3 : flags[k]}
<1>1. Upper[n] \in Names /\ r.options \in Options
  BY LiveCaptureAssumption DEF Request
<1>2. c1 \in Operation /\ c2 \in Operation /\ c3 \in Operation
  BY <1>1, CallTyped DEF OperationNames
<1>3. c1.name = "bw_get_dataflow" /\ c2.name = "bw_xref" /\ c3.name = "bw_list_requests"
  BY DEF Call
<1> HIDE DEF c1, c2, c3
<1>4. <<c1, c2>> \in Ordered /\ <<c1, c3>> \in Ordered /\ <<c2, c3>> \in Ordered
  BY <1>2, <1>3 DEF Ordered
<1>5. calls \in Seq(Operation) /\ Len(calls) = 3 /\ calls[1] = c1 /\ calls[2] = c2 /\ calls[3] = c3
  BY <1>2
<1>6. ObjectCalls(r, n) = Taken(calls, I)
  BY DEF ObjectCalls, c1, c2, c3
<1> HIDE DEF calls, I
<1>7. \A i, j \in I \cap 1..Len(calls) : i < j => <<calls[i], calls[j]>> \in Ordered
  <2> SUFFICES ASSUME NEW i \in 1..3, NEW j \in 1..3, i < j PROVE <<calls[i], calls[j]>> \in Ordered
    BY <1>5
  <2>1. CASE i = 1 /\ j = 2
    BY <1>4, <1>5, <2>1
  <2>2. CASE i = 1 /\ j = 3
    BY <1>4, <1>5, <2>2
  <2>3. CASE i = 2 /\ j = 3
    BY <1>4, <1>5, <2>3
  <2>4. i \in {1, 2, 3} /\ j \in {1, 2, 3} /\ i < j
    OBVIOUS
  <2> QED
    BY <2>1, <2>2, <2>3, <2>4
<1>8. Paired(Taken(calls, I), Ordered)
  BY <1>5, <1>7, TakenPaired
<1> QED
  BY <1>6, <1>8

(* The plan of a request in order.                                          *)
LEMMA PlanOrdered ==
    ASSUME NEW r \in Request, InOrder(r)
    PROVE  Paired(Plan(r), Ordered)
<1> DEFINE objects == Unique(r.objects)
           queries == Unique(r.queries)
           first == PlainCalls("bw_search", Unique(r.terms))
           ls == [i \in DOMAIN objects |-> ObjectCalls(r, objects[i])]
           last == PlainCalls("bw_get_query", queries)
<1>1. r.terms \in Seq(Names) /\ r.objects \in Seq(Names) /\ r.queries \in Seq(Names)
  BY DEF Request
<1>2. /\ Unique(r.terms) \in Seq(Names) /\ objects \in Seq(Names) /\ queries \in Seq(Names)
  BY <1>1, UniqueRange
<1>3. Paired(objects, Before) /\ Paired(queries, Before)
  BY <1>1, UniqueBefore DEF InOrder
<1>4. {"bw_search", "bw_get_query"} \subseteq OperationNames
  BY DEF OperationNames
<1>5. Paired(first, Ordered) /\ Paired(last, Ordered)
  BY <1>2, <1>3, <1>4, PlainOrdered
<1>6. /\ first \in Seq(Operation) /\ \A c \in ToSet(first) : c.name = "bw_search"
  BY <1>2, <1>4, PlainCallsRange DEF Call
<1>7. /\ last \in Seq(Operation) /\ \A c \in ToSet(last) : c.name = "bw_get_query"
  BY <1>2, <1>4, PlainCallsRange DEF Call
<1> HIDE DEF objects, queries
<1>8. \A i \in DOMAIN objects : objects[i] \in Names
  BY <1>2
<1>9. ls \in Seq(Seq(Operation)) /\ Len(ls) = Len(objects)
  <2>1. \A i \in DOMAIN objects : ObjectCalls(r, objects[i]) \in Seq(Operation)
    BY <1>8, ObjectCallsRange
  <2>2. DOMAIN objects = 1..Len(objects) /\ Len(objects) \in Nat
    BY <1>2
  <2> QED
    BY <2>1, <2>2
<1>10. ASSUME NEW a \in 1..Len(ls)
       PROVE  /\ Paired(ls[a], Ordered) /\ objects[a] \in Names
              /\ \A c \in ToSet(ls[a]) : /\ c.of = objects[a] /\ c \in Operation
                                         /\ c.name \notin {"bw_search", "bw_get_query"}
  <2>1. a \in DOMAIN objects /\ ls[a] = ObjectCalls(r, objects[a]) /\ objects[a] \in Names
    BY <1>2, <1>8, <1>9
  <2>2. ToSet(ls[a]) = {Call(name, objects[a], Label(name, objects[a]), r.options) : name \in ObjectOperations(r)}
    BY <2>1, ObjectCallsRange
  <2>3. ObjectOperations(r) \cap {"bw_search", "bw_get_query"} = {}
    BY DEF ObjectOperations, SelectedOperations
  <2>4. \A c \in ToSet(ls[a]) : c \in Operation
    <3>1. ls[a] \in Seq(Operation)
      BY <2>1, ObjectCallsRange
    <3> QED
      BY <3>1 DEF ToSet
  <2>5. ASSUME NEW c \in ToSet(ls[a])
        PROVE  c.of = objects[a] /\ c.name \notin {"bw_search", "bw_get_query"}
    BY <2>2, <2>3 DEF Call
  <2> QED
    BY <2>1, <2>4, <2>5, ObjectOrdered
<1> HIDE DEF ls, first, last
<1>11. ASSUME NEW a \in 1..Len(ls), NEW b \in 1..Len(ls), a < b,
              NEW x \in ToSet(ls[a]), NEW y \in ToSet(ls[b])
       PROVE  <<x, y>> \in Ordered
  <2>1. Precedes(objects[a], objects[b])
    BY <1>3, <1>9, <1>11 DEF Paired, Before
  <2>2. x \in Operation /\ y \in Operation /\ x.of = objects[a] /\ y.of = objects[b]
    BY <1>10
  <2> QED
    BY <2>1, <2>2 DEF Ordered
<1>12. Paired(Joined(ls), Ordered)
  BY <1>9, <1>10, <1>11, JoinedPaired
<1> DEFINE middle == Joined(ls)
<1>13. /\ middle \in Seq(Operation)
       /\ \A c \in ToSet(middle) : c \in Operation /\ c.name \notin {"bw_search", "bw_get_query"}
  <2>1. middle \in Seq(Operation) /\ ToSet(middle) = UNION {ToSet(ls[i]) : i \in DOMAIN ls}
    BY <1>9, JoinedRange
  <2>2. DOMAIN ls = 1..Len(ls)
    BY <1>9
  <2> HIDE DEF middle
  <2>3. ASSUME NEW c \in ToSet(middle)
        PROVE  c \in Operation /\ c.name \notin {"bw_search", "bw_get_query"}
    <3>1. PICK a \in 1..Len(ls) : c \in ToSet(ls[a])
      BY <2>1, <2>2
    <3> QED
      BY <3>1, <1>10
  <2> QED
    BY <2>1, <2>3
<1> HIDE DEF middle
<1>14. Paired(middle, Ordered)
  BY <1>12 DEF middle
<1>15. /\ \A c \in ToSet(first) : c \in Operation
       /\ \A c \in ToSet(last) : c \in Operation
  BY <1>6, <1>7 DEF ToSet
<1>16. \A x \in ToSet(first), y \in ToSet(middle) : <<x, y>> \in Ordered
  BY <1>6, <1>13, <1>15 DEF Ordered
<1>17. Paired(first \o middle, Ordered)
  BY <1>5, <1>6, <1>13, <1>14, <1>16, JoinPaired
<1> DEFINE front == first \o middle
<1>18. /\ front \in Seq(Operation)
       /\ \A c \in ToSet(front) : c \in Operation /\ c.name # "bw_get_query"
  <2>1. front \in Seq(Operation) /\ ToSet(front) = ToSet(first) \cup ToSet(middle)
    BY <1>6, <1>13, JoinRange
  <2> HIDE DEF front
  <2>2. ASSUME NEW c \in ToSet(front) PROVE c \in Operation /\ c.name # "bw_get_query"
    BY <2>1, <1>6, <1>13, <1>15
  <2> QED
    BY <2>1, <2>2
<1> HIDE DEF front
<1>19. Paired(front, Ordered)
  BY <1>17 DEF front
<1>20. \A x \in ToSet(front), y \in ToSet(last) : <<x, y>> \in Ordered
  BY <1>7, <1>15, <1>18 DEF Ordered
<1>21. Paired(front \o last, Ordered)
  BY <1>5, <1>7, <1>18, <1>19, <1>20, JoinPaired
<1>22. Plan(r) = front \o last
  BY DEF Plan, front, first, middle, last, ls, objects, queries
<1> QED
  BY <1>21, <1>22

(* So are the calls that were made for a request in order.                  *)
LEMMA MadeOrdered ==
    ASSUME LiveInv, phase = "stored", InOrder(request),
           NEW i \in DOMAIN operations, NEW j \in DOMAIN operations, i < j,
           operations[i].call.name = operations[j].call.name,
           operations[i].call.name # "bw_search"
    PROVE  Precedes(operations[i].call.of, operations[j].call.of)
<1> DEFINE I == {k \in DOMAIN operations : operations[k].call.name # "bw_get_request"}
           c == Calls(operations)
<1>1. /\ request \in Request /\ operations \in Seq(Outcome) /\ pending = <<>>
      /\ ListedOf(operations) \o Open = Plan(request)
      /\ \A k \in DOMAIN operations : operations[k].call.name = "bw_get_request" =>
           /\ k > 1 /\ operations[k - 1].call.name = "bw_list_requests"
           /\ operations[k].call = LatestRequest(operations[k - 1].call)
  BY DEF LiveInv, LiveTypeOK, AsPlanned, Written, DetailFollows
<1>2. DOMAIN operations = 1..Len(operations) /\ Len(operations) \in Nat
  BY <1>1
<1>3. operations[i] \in Outcome
  BY <1>1
<1>4. c \in Seq(Operation) /\ Len(c) = Len(operations) /\ \A k \in DOMAIN operations : c[k] = operations[k].call
  BY <1>1, <1>3, CallsAppend DEF Calls
<1> HIDE DEF c
<1>5. Paired(Taken(c, I), Ordered)
  <2> DEFINE L == Taken(c, I)
  <2>1. Open = <<>>
    BY <1>1 DEF Open
  <2>2. L \in Seq(Operation)
    BY <1>4, TakenRange
  <2>3. ListedOf(operations) = L
    BY DEF ListedOf, c
  <2> HIDE DEF L
  <2>4. L = Plan(request)
    BY <1>1, <2>1, <2>2, <2>3
  <2> QED
    BY <1>1, <2>4, PlanOrdered DEF L
<1>6. ASSUME NEW k \in DOMAIN operations, NEW l \in DOMAIN operations, k < l,
             operations[k].call.name = operations[l].call.name,
             operations[k].call.name \notin {"bw_search", "bw_get_request"}
      PROVE  Precedes(operations[k].call.of, operations[l].call.of)
  <2>1. k \in I \cap 1..Len(c) /\ l \in I \cap 1..Len(c)
    BY <1>2, <1>4, <1>6
  <2> HIDE DEF I
  <2>2. <<c[k], c[l]>> \in Ordered
    BY <1>4, <1>5, <1>6, <2>1, PairedTaken
  <2>3. c[k].name = c[l].name /\ c[k].name # "bw_search" => Precedes(c[k].of, c[l].of)
    BY <2>2 DEF Ordered
  <2> QED
    BY <1>4, <1>6, <2>3
<1>7. CASE operations[i].call.name # "bw_get_request"
  BY <1>6, <1>7
<1>8. CASE operations[i].call.name = "bw_get_request"
  <2>1. ASSUME NEW k \in {i, j}
        PROVE  /\ k - 1 \in DOMAIN operations /\ operations[k - 1].call.name = "bw_list_requests"
               /\ operations[k].call.of = operations[k - 1].call.of
    <3>1. k > 1 /\ operations[k - 1].call.name = "bw_list_requests"
          /\ operations[k].call = LatestRequest(operations[k - 1].call)
      BY <1>1, <1>8
    <3>2. k - 1 \in DOMAIN operations
      BY <1>2, <3>1
    <3>3. operations[k - 1] \in Outcome
      BY <1>1, <3>2
    <3>4. operations[k - 1].call \in Operation
      BY <3>3 DEF Outcome
    <3> DEFINE l == operations[k - 1].call
    <3> HIDE DEF l
    <3>5. LatestRequest(l).of = l.of
      BY <3>4 DEF LatestRequest, Operation, l
    <3> QED
      BY <3>1, <3>2, <3>5 DEF l
  <2>2. i - 1 \in DOMAIN operations /\ j - 1 \in DOMAIN operations /\ i - 1 < j - 1
    BY <1>2, <2>1
  <2> DEFINE k == i - 1  l == j - 1
  <2>3. /\ k \in DOMAIN operations /\ l \in DOMAIN operations /\ k < l
        /\ operations[k].call.name = "bw_list_requests"
        /\ operations[l].call.name = "bw_list_requests"
        /\ operations[i].call.of = operations[k].call.of
        /\ operations[j].call.of = operations[l].call.of
    BY <2>1, <2>2
  <2> HIDE DEF k, l
  <2>4. Precedes(operations[k].call.of, operations[l].call.of)
    BY <1>6, <2>3
  <2> QED
    BY <2>3, <2>4
<1> QED
  BY <1>7, <1>8

(* The least place that is taken comes first.                               *)
LEMMA TakenHead ==
    ASSUME NEW S, NEW s \in Seq(S), NEW I, NEW i \in I \cap 1..Len(s),
           \A k \in I \cap 1..Len(s) : ~(k < i)
    PROVE  Taken(s, I) # <<>> /\ Head(Taken(s, I)) = s[i]
<1> DEFINE t == Taken(s, I)
<1>1. PICK pos \in [1..Len(t) -> I \cap 1..Len(s)] :
        /\ \A a \in 1..Len(t) : t[a] = s[pos[a]]
        /\ \A a, b \in 1..Len(t) : a < b => pos[a] < pos[b]
        /\ \A k \in I \cap 1..Len(s) : \E a \in 1..Len(t) : pos[a] = k
  BY TakenPlaces
<1>2. t \in Seq(S)
  BY TakenRange
<1> HIDE DEF t
<1>3. PICK a \in 1..Len(t) : pos[a] = i
  BY <1>1
<1>4. Len(t) \in Nat /\ a \in Int /\ 1 \in 1..Len(t)
  BY <1>2
<1>5. ~(1 < a)
  <2>1. pos[1] \in I \cap 1..Len(s)
    BY <1>1, <1>4
  <2>2. 1 < a => pos[1] < i
    BY <1>1, <1>3, <1>4
  <2> QED
    BY <2>1, <2>2
<1>6. a = 1
  BY <1>4, <1>5
<1>7. t[1] = s[i] /\ t # <<>>
  BY <1>1, <1>2, <1>3, <1>4, <1>6
<1> QED
  BY <1>2, <1>7 DEF t

(* For any requests and names: where names stand in order, as they do in    *)
(* every refresh, the text search of a scope entry finds the call that was  *)
(* made for its own object, although labels of other names begin with it.   *)
THEOREM ScopeTellsInOrderHolds == LiveSpec => []ScopeTellsInOrder
<1>1. ASSUME LiveInv, origin # NoRequest PROVE InOrder(request)
  BY <1>1, KeptInOrder DEF LiveInv, Requested
<1>2. ASSUME LiveInv, InOrder(request), NEW e \in selected, NEW i \in DOMAIN operations,
             operations[i].call.of = e.object, operations[i].call.name = e.operation,
             e.operation = "bw_xref" => Upper[e.object] = e.object
      PROVE  e.status = IF operations[i].ok THEN "ok" ELSE "error"
  <2>1. /\ phase = "stored" /\ e \in ScopeEntries(request, operations)
        /\ operations \in Seq(Outcome) /\ request \in Request
    BY <1>2 DEF LiveInv, LiveTypeOK, Requested
  <2>2. PICK n \in Names, name \in OperationNames \ {"bw_search"} :
          /\ e.object = n /\ e.operation = name
          /\ e.status = StatusOf(Matching(n, name, operations))
    <3>1. ToSet(request.objects) \subseteq Names /\ ToSet(request.queries) \subseteq Names
      BY <2>1 DEF Request, ToSet
    <3>2. CASE \E n \in ToSet(request.objects), name \in SelectedOperations(request) :
                 e = ScopeEntry(n, name, request.options, operations)
      BY <3>1, <3>2 DEF ScopeEntry, SelectedOperations, OperationNames
    <3>3. CASE \E n \in ToSet(request.queries) :
                 e = ScopeEntry(n, "bw_get_query", NoOptions, operations)
      BY <3>1, <3>3 DEF ScopeEntry, OperationNames
    <3> QED
      BY <2>1, <3>2, <3>3 DEF ScopeEntries
  <2> DEFINE M == {k \in DOMAIN operations : /\ operations[k].call.name = name
                                             /\ BeginsWith(operations[k].call.label, n)}
             of(k) == operations[k].call.of
  <2>3. DOMAIN operations = 1..Len(operations)
    BY <2>1
  <2>4. ASSUME NEW k \in DOMAIN operations, operations[k].call.name = name
        PROVE  of(k) \in Names /\ operations[k].call.label = Label(name, of(k))
    <3>1. operations[k] \in Outcome
      BY <2>1
    <3>2. of(k) \in Names
      BY <3>1 DEF Outcome, Operation
    <3> QED
      BY <1>2, <2>1, <2>4, <3>2, MadeAbout DEF About
  <2>5. i \in M
    <3>1. operations[i].call.label = n
      BY <1>2, <2>2, <2>4 DEF Label
    <3> QED
      BY <1>2, <2>2, <3>1 DEF BeginsWith
  <2>6. ASSUME NEW k \in M, k < i PROVE FALSE
    <3>1. k \in DOMAIN operations /\ operations[k].call.name = name
      OBVIOUS
    <3>2. Precedes(of(k), n)
      BY <1>2, <2>1, <2>2, <2>6, <3>1, MadeOrdered
    <3>3. of(k) # n /\ ~Precedes(n, of(k))
      BY <2>4, <3>1, <3>2, PrecedesStrict
    <3>4. BeginsWith(Label(name, of(k)), n)
      BY <2>4, <3>1
    <3>5. CASE name = "bw_xref"
      <4>1. Upper[n] = n /\ BeginsWith(Upper[of(k)], n)
        BY <1>2, <2>2, <3>4, <3>5 DEF Label
      <4> QED
        BY <2>4, <3>1, <3>3, <4>1, LiveCaptureAssumption
    <3>6. CASE name # "bw_xref"
      <4>1. BeginsWith(of(k), n)
        BY <3>4, <3>6 DEF Label
      <4> QED
        BY <2>4, <3>1, <3>3, <4>1, LiveCaptureAssumption
    <3> QED
      BY <3>5, <3>6
  <2>7. Matching(n, name, operations) = Taken(operations, M)
    BY DEF Matching
  <2>8. i \in M \cap 1..Len(operations)
    BY <2>3, <2>5
  <2> HIDE DEF M
  <2>9. Taken(operations, M) # <<>> /\ Head(Taken(operations, M)) = operations[i]
    BY <2>1, <2>6, <2>8, TakenHead
  <2>10. operations[i].ok \in BOOLEAN
    <3>1. operations[i] \in Outcome
      BY <2>1
    <3> QED
      BY <3>1 DEF Outcome
  <2> QED
    BY <2>2, <2>7, <2>9, <2>10 DEF StatusOf
<1>3. LiveInv => ScopeTellsInOrder
  BY <1>1, <1>2 DEF ScopeTellsInOrder
<1> QED
  BY <1>3, LiveInvHolds, PTL
=============================================================================

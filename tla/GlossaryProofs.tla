--------------------------- MODULE GlossaryProofs ---------------------------
(***************************************************************************)
(* Proofs about Glossary, for any number of snapshots, terms and requests  *)
(* that interleave freely.                                                 *)
(***************************************************************************)
EXTENDS Glossary, FiniteSetTheorems, WellFoundedInduction, TLAPS

(* The metadata terms of a snapshot come with its catalog, in one step.     *)
MetadataComesLate ==
    \A s \in Snapshots : stage[s] \in {"new", "created"} => catalog[s] \subseteq SqlTerms

(* What is about to be written was read from the catalog, and is there yet. *)
SyncedIsInCatalog ==
    \A w \in Workers : pc[w] = "write" =>
        /\ source[w] \in Snapshots
        /\ stage[source[w]] # "deleted" => synced[w] \subseteq catalog[source[w]]

(* A term an aggregate has to count has still to be read, is about to be    *)
(* written, or is in the database.                                          *)
Pending(w, d) ==
    \/ pc[w] \in {"read", "write"} /\ d[1] \in todo[w] /\ d[2] \in FirstTerms(d[1])
    \/ pc[w] = "write" /\ d[2] \in synced[w]
    \/ owner[d[2]] # None

ListOnlyForGlossary == \A w \in Workers : pc[w] = "list" => kind[w] = "glossary"

Accounted ==
    \A w \in Workers :
        pc[w] \in {"read", "write", "count"} /\ kind[w] = "aggregate" =>
            \A d \in due[w] :
                /\ stage[d[1]] \notin {"new", "created"}
                /\ stage[d[1]] # "deleted" => Pending(w, d)

IInv ==
    /\ TypeOK /\ DecisionsSurvive /\ OwnersHaveTheirTerms /\ AggregateIsComplete
    /\ MetadataComesLate /\ SyncedIsInCatalog /\ ListOnlyForGlossary /\ Accounted

LEMMA InitInvariant == Init => IInv
BY GlossaryAssumption
   DEF Init, IInv, TypeOK, DecisionsSurvive, OwnersHaveTheirTerms, AggregateIsComplete,
       MetadataComesLate, SyncedIsInCatalog, ListOnlyForGlossary, Accounted

(* A term of a SQL view sorts after all metadata terms, so it pushes none   *)
(* of them over the limit.                                                  *)
LEMMA FirstTermsStay ==
    ASSUME TypeOK, NEW s \in Snapshots, NEW t \in SqlTerms, RecordSqlAnalysis(s, t),
           NEW r \in Snapshots, NEW m \in Metadata, m \in FirstTerms(r)
    PROVE  m \in FirstTerms(r)'
<1>1. catalog[r] \subseteq catalog'[r] /\ catalog'[r] \subseteq catalog[r] \cup {t}
  BY DEF RecordSqlAnalysis, TypeOK
<1>2. ~(t < m)
  BY GlossaryAssumption DEF Terms
<1>3. {u \in catalog'[r] : u < m} = {u \in catalog[r] : u < m}
  BY <1>1, <1>2
<1>4. FirstTerms(r)' = {v \in catalog'[r] : Cardinality({u \in catalog'[r] : u < v}) < Cap}
  BY DEF FirstTerms
<1>5. m \in catalog[r] /\ Cardinality({u \in catalog[r] : u < m}) < Cap
  BY DEF FirstTerms
<1> QED
  BY <1>1, <1>3, <1>4, <1>5

(* What a step of the catalog changes for its snapshot.                     *)
CatalogChange(s) ==
    /\ stage' \in [Snapshots -> {"new", "created", "stored", "done", "deleted"}]
    /\ catalog' \in [Snapshots -> SUBSET Terms]
    /\ \A r \in Snapshots : r # s => stage'[r] = stage[r] /\ catalog'[r] = catalog[r]
    /\ stage'[s] \in {"new", "created"} => catalog'[s] \subseteq SqlTerms
    /\ stage'[s] # "deleted" => catalog[s] \subseteq catalog'[s]
    /\ stage[s] = "deleted" => stage'[s] = "deleted"
    /\ stage[s] \notin {"new", "created"} => stage'[s] \notin {"new", "created"}

LEMMA CatalogChanges ==
    ASSUME IInv, NEW s \in Snapshots,
           \/ CreateSnapshot(s) \/ ReplaceCatalog(s) \/ FinishCapture(s) \/ DeleteSnapshot(s)
           \/ \E t \in SqlTerms : RecordSqlAnalysis(s, t)
    PROVE  CatalogChange(s)
<1>1. TypeOK
  BY DEF IInv
<1> USE <1>1 DEF TypeOK, Terms, CatalogChange
<1>2. CASE CreateSnapshot(s)
  BY <1>2 DEF CreateSnapshot, IInv, MetadataComesLate
<1>3. CASE ReplaceCatalog(s)
  <2>1. PICK terms \in SUBSET Metadata :
          catalog' = [catalog EXCEPT ![s] = (catalog[s] \cap SqlTerms) \cup terms]
    BY <1>3 DEF ReplaceCatalog, ReplaceTerms
  <2>2. catalog[s] \subseteq SqlTerms
    BY <1>3 DEF ReplaceCatalog, IInv, MetadataComesLate
  <2> QED
    BY <1>3, <2>1, <2>2 DEF ReplaceCatalog
<1>4. CASE FinishCapture(s)
  BY <1>4 DEF FinishCapture
<1>5. CASE DeleteSnapshot(s)
  BY <1>5 DEF DeleteSnapshot
<1>6. CASE \E t \in SqlTerms : RecordSqlAnalysis(s, t)
  BY <1>6 DEF RecordSqlAnalysis, Listed, IInv, MetadataComesLate
<1> QED
  BY <1>2, <1>3, <1>4, <1>5, <1>6

LEMMA CatalogStepPreserves == IInv /\ CatalogStep => IInv'
<1> SUFFICES ASSUME IInv, CatalogStep PROVE IInv'
  OBVIOUS
<1>0. UNCHANGED <<owner, lifecycle, chosen, pc, kind, todo, source, synced, items, counted, due>>
  BY DEF CatalogStep, database, answer
<1>1. PICK s \in Snapshots :
        \/ CreateSnapshot(s) \/ ReplaceCatalog(s) \/ FinishCapture(s) \/ DeleteSnapshot(s)
        \/ \E t \in SqlTerms : RecordSqlAnalysis(s, t)
  BY DEF CatalogStep
<1>2. TypeOK
  BY DEF IInv
<1>3. CatalogChange(s)
  BY <1>1, CatalogChanges
<1>4. TypeOK'
  BY <1>0, <1>2, <1>3 DEF TypeOK, CatalogChange
<1>5. DecisionsSurvive'
  BY <1>0 DEF IInv, DecisionsSurvive
<1>6. \A r \in Snapshots : stage'[r] # "deleted" =>
        stage[r] # "deleted" /\ catalog[r] \subseteq catalog'[r]
  BY <1>3 DEF CatalogChange
<1>7. OwnersHaveTheirTerms' /\ SyncedIsInCatalog' /\ ListOnlyForGlossary'
  BY <1>0, <1>6 DEF IInv, OwnersHaveTheirTerms, SyncedIsInCatalog, ListOnlyForGlossary
<1>8. AggregateIsComplete'
  BY <1>0, <1>2, <1>6 DEF IInv, AggregateIsComplete, TypeOK
<1>9. MetadataComesLate'
  BY <1>3 DEF IInv, MetadataComesLate, CatalogChange
<1>10. Accounted'
  <2> SUFFICES ASSUME NEW w \in Workers, pc[w] \in {"read", "write", "count"},
                      kind[w] = "aggregate", NEW d \in due[w]
               PROVE  /\ stage'[d[1]] \notin {"new", "created"}
                      /\ stage'[d[1]] # "deleted" => Pending(w, d)'
    BY <1>0 DEF Accounted
  <2>1. d[1] \in Snapshots /\ d[2] \in Metadata
    BY <1>2 DEF TypeOK
  <2>2. stage[d[1]] \notin {"new", "created"} /\ (stage[d[1]] # "deleted" => Pending(w, d))
    BY DEF IInv, Accounted
  <2>3. stage'[d[1]] \notin {"new", "created"}
    BY <1>3, <2>1, <2>2 DEF CatalogChange
  <2>4. ASSUME stage'[d[1]] # "deleted" PROVE Pending(w, d)'
    <3>1. Pending(w, d)
      BY <1>6, <2>1, <2>2, <2>4
    <3>2. ASSUME d[2] \in FirstTerms(d[1]) PROVE d[2] \in FirstTerms(d[1])'
      <4>1. CASE \E t \in SqlTerms : RecordSqlAnalysis(s, t)
        BY <1>2, <2>1, <3>2, <4>1, FirstTermsStay
      <4>2. CASE CreateSnapshot(s) \/ ReplaceCatalog(s) \/ FinishCapture(s) \/ DeleteSnapshot(s)
        <5>1. catalog'[d[1]] = catalog[d[1]]
          BY <1>2, <1>3, <2>1, <2>2, <2>4, <4>2
             DEF CreateSnapshot, ReplaceCatalog, FinishCapture, DeleteSnapshot, TypeOK,
                 CatalogChange
        <5> QED
          BY <3>2, <5>1 DEF FirstTerms
      <4> QED
        BY <1>1, <4>1, <4>2
    <3> QED
      BY <1>0, <3>1, <3>2 DEF Pending
  <2> QED
    BY <2>3, <2>4
<1> QED
  BY <1>4, <1>5, <1>7, <1>8, <1>9, <1>10 DEF IInv

LEMMA SetLifecyclePreserves ==
    ASSUME IInv, NEW t \in Terms, NEW l \in Decisions, SetLifecycle(t, l) PROVE IInv'
<1>0. l \in Lifecycles /\ l # "none"
  BY GlossaryAssumption DEF Lifecycles
<1>1. UNCHANGED <<stage, catalog, owner, pc, kind, todo, source, synced, items, counted, due>>
  BY DEF SetLifecycle, tables, answer
<1>2. TypeOK' /\ DecisionsSurvive'
  BY <1>0, <1>1 DEF IInv, TypeOK, DecisionsSurvive, SetLifecycle
<1>3. OwnersHaveTheirTerms' /\ AggregateIsComplete' /\ MetadataComesLate' /\ SyncedIsInCatalog'
      /\ ListOnlyForGlossary'
  BY <1>1 DEF IInv, OwnersHaveTheirTerms, AggregateIsComplete, MetadataComesLate,
              SyncedIsInCatalog, ListOnlyForGlossary
<1>4. Accounted'
  BY <1>1 DEF IInv, Accounted, Pending, FirstTerms
<1> QED
  BY <1>2, <1>3, <1>4 DEF IInv

(* The steps of a request that write to no table.                           *)
LEMMA QuietStepPreserves ==
    ASSUME IInv, UNCHANGED <<stage, catalog, owner, lifecycle, chosen>>,
           TypeOK', AggregateIsComplete', SyncedIsInCatalog', ListOnlyForGlossary', Accounted'
    PROVE  IInv'
BY DEF IInv, DecisionsSurvive, OwnersHaveTheirTerms, MetadataComesLate

LEMMA MetadataIsNotSql == \A m \in Metadata : m \notin SqlTerms
<1> SUFFICES ASSUME NEW m \in Metadata, m \in SqlTerms PROVE FALSE
  OBVIOUS
<1>1. m < m /\ m \in Nat
  BY GlossaryAssumption DEF Terms
<1> QED
  BY <1>1

LEMMA StartSyncPreserves ==
    ASSUME IInv, NEW w \in Workers, NEW request \in {"glossary", "aggregate"},
           NEW snapshots \in SUBSET Listed, StartSync(w, request, snapshots)
    PROVE  IInv'
<1>0. UNCHANGED <<stage, catalog, owner, lifecycle, chosen, source, synced, items, counted>>
  BY DEF StartSync, tables, database, answer
<1>1. TypeOK /\ snapshots \subseteq Snapshots
  BY DEF IInv, Listed
<1>2. TypeOK'
  BY <1>0, <1>1 DEF TypeOK, StartSync
<1>3. /\ pc'[w] \in {"read", "count"} /\ kind'[w] = request /\ todo'[w] = snapshots
      /\ pc'[w] = "count" => snapshots = {}
      /\ due'[w] = {d \in snapshots \X Metadata : d[2] \in FirstTerms(d[1])}
      /\ \A v \in Workers : v # w =>
            pc'[v] = pc[v] /\ kind'[v] = kind[v] /\ todo'[v] = todo[v] /\ due'[v] = due[v]
  BY <1>1 DEF StartSync, TypeOK
<1>4. AggregateIsComplete'
  BY <1>0, <1>3 DEF IInv, AggregateIsComplete
<1>5. SyncedIsInCatalog' /\ ListOnlyForGlossary'
  BY <1>0, <1>3 DEF IInv, SyncedIsInCatalog, ListOnlyForGlossary
<1>6. Accounted'
  <2> SUFFICES ASSUME NEW v \in Workers, pc'[v] \in {"read", "write", "count"},
                      kind'[v] = "aggregate", NEW d \in due'[v]
               PROVE  /\ stage[d[1]] \notin {"new", "created"}
                      /\ stage[d[1]] # "deleted" => Pending(v, d)'
    BY <1>0 DEF Accounted
  <2>1. CASE v = w
    <3>0. d \in {e \in snapshots \X Metadata : e[2] \in FirstTerms(e[1])}
      BY <1>3, <2>1
    <3>1. d[1] \in snapshots /\ d[2] \in Metadata /\ d[2] \in FirstTerms(d[1])
      BY <3>0
    <3>2. pc'[v] = "read" /\ d[1] \in todo'[v]
      BY <1>3, <2>1, <3>1
    <3>5. FirstTerms(d[1])' = FirstTerms(d[1])
      BY <1>0 DEF FirstTerms
    <3>3. d[2] \in catalog[d[1]] /\ d[1] \in Snapshots
      BY <1>1, <3>1 DEF FirstTerms
    <3>6. d[2] \notin SqlTerms
      BY MetadataIsNotSql, <3>1
    <3>4. stage[d[1]] \notin {"new", "created"}
      BY <3>3, <3>6 DEF IInv, MetadataComesLate
    <3> QED
      BY <3>1, <3>2, <3>4, <3>5 DEF Pending
  <2>2. CASE v # w
    BY <1>0, <1>3, <2>2 DEF IInv, Accounted, Pending, FirstTerms
  <2> QED
    BY <2>1, <2>2
<1> QED
  BY <1>0, <1>2, <1>4, <1>5, <1>6, QuietStepPreserves

LEMMA BackfillReadPreserves ==
    ASSUME IInv, NEW w \in Workers, BackfillRead(w) PROVE IInv'
<1>0. UNCHANGED <<stage, catalog, owner, lifecycle, chosen, kind, items, counted, due>>
  BY DEF BackfillRead, tables, database, answer
<1>1. PICK s \in todo[w] :
        /\ source' = [source EXCEPT ![w] = s]
        /\ todo' = [todo EXCEPT ![w] = todo[w] \ {s}]
        /\ synced' = [synced EXCEPT ![w] = FirstTerms(s)]
  BY DEF BackfillRead
<1>2. pc[w] = "read" /\ pc' = [pc EXCEPT ![w] = "write"]
  BY DEF BackfillRead
<1>3. TypeOK /\ s \in Snapshots /\ FirstTerms(s) \subseteq catalog[s]
      /\ FirstTerms(s) \subseteq Terms
  BY DEF IInv, TypeOK, FirstTerms
<1>4. TypeOK'
  BY <1>0, <1>1, <1>2, <1>3 DEF TypeOK
<1>5. /\ pc'[w] = "write" /\ source'[w] = s /\ synced'[w] = FirstTerms(s)
      /\ todo'[w] = todo[w] \ {s}
      /\ \A v \in Workers : v # w => pc'[v] = pc[v] /\ source'[v] = source[v]
            /\ synced'[v] = synced[v] /\ todo'[v] = todo[v]
  BY <1>1, <1>2, <1>3 DEF TypeOK
<1>6. AggregateIsComplete'
  BY <1>0, <1>5 DEF IInv, AggregateIsComplete
<1>7. SyncedIsInCatalog' /\ ListOnlyForGlossary'
  BY <1>0, <1>3, <1>5 DEF IInv, SyncedIsInCatalog, ListOnlyForGlossary
<1>8. Accounted'
  <2> SUFFICES ASSUME NEW v \in Workers, pc'[v] \in {"read", "write", "count"},
                      kind[v] = "aggregate", NEW d \in due[v]
               PROVE  /\ stage[d[1]] \notin {"new", "created"}
                      /\ stage[d[1]] # "deleted" => Pending(v, d)'
    BY <1>0 DEF Accounted
  <2>0. FirstTerms(d[1])' = FirstTerms(d[1])
    BY <1>0 DEF FirstTerms
  <2>1. CASE v = w
    <3>1. stage[d[1]] \notin {"new", "created"} /\ (stage[d[1]] # "deleted" => Pending(w, d))
      BY <1>2, <2>1 DEF IInv, Accounted
    <3>2. ASSUME stage[d[1]] # "deleted" PROVE Pending(w, d)'
      BY <1>0, <1>2, <1>5, <2>0, <3>1, <3>2 DEF Pending
    <3> QED
      BY <2>1, <3>1, <3>2
  <2>2. CASE v # w
    BY <1>0, <1>5, <2>0, <2>2 DEF IInv, Accounted, Pending
  <2> QED
    BY <2>1, <2>2
<1> QED
  BY <1>0, <1>4, <1>6, <1>7, <1>8, QuietStepPreserves

LEMMA BackfillGonePreserves ==
    ASSUME IInv, NEW w \in Workers, BackfillGone(w) PROVE IInv'
<1>0. UNCHANGED <<stage, catalog, owner, lifecycle, chosen, kind, source, synced, items,
                  counted, due>>
  BY DEF BackfillGone, tables, database, answer
<1>1. PICK s \in todo[w] :
        /\ stage[s] = "deleted"
        /\ todo' = [todo EXCEPT ![w] = todo[w] \ {s}]
        /\ SkipMissing(w, s)
  BY DEF BackfillGone
<1>2. pc[w] = "read" /\ TypeOK
  BY DEF BackfillGone, IInv
<1>3. /\ pc'[w] \in {"idle", "read", "count"} /\ todo'[w] = todo[w] \ {s}
      /\ pc'[w] = "count" => todo[w] = {s}
      /\ \A v \in Workers : v # w => pc'[v] = pc[v] /\ todo'[v] = todo[v]
  BY <1>1, <1>2 DEF SkipMissing, TypeOK
<1>4. TypeOK'
  BY <1>0, <1>1, <1>2 DEF TypeOK, SkipMissing
<1>5. AggregateIsComplete' /\ SyncedIsInCatalog' /\ ListOnlyForGlossary'
  BY <1>0, <1>3 DEF IInv, AggregateIsComplete, SyncedIsInCatalog, ListOnlyForGlossary
<1>6. Accounted'
  <2> SUFFICES ASSUME NEW v \in Workers, pc'[v] \in {"read", "write", "count"},
                      kind[v] = "aggregate", NEW d \in due[v]
               PROVE  /\ stage[d[1]] \notin {"new", "created"}
                      /\ stage[d[1]] # "deleted" => Pending(v, d)'
    BY <1>0 DEF Accounted
  <2>0. FirstTerms(d[1])' = FirstTerms(d[1])
    BY <1>0 DEF FirstTerms
  <2>1. CASE v = w
    <3>1. stage[d[1]] \notin {"new", "created"} /\ (stage[d[1]] # "deleted" => Pending(w, d))
      BY <1>2, <2>1 DEF IInv, Accounted
    <3>2. ASSUME stage[d[1]] # "deleted" PROVE Pending(w, d)'
      BY <1>0, <1>1, <1>2, <1>3, <2>0, <2>1, <3>1, <3>2 DEF Pending
    <3> QED
      BY <2>1, <3>1, <3>2
  <2>2. CASE v # w
    BY <1>0, <1>3, <2>0, <2>2 DEF IInv, Accounted, Pending
  <2> QED
    BY <2>1, <2>2
<1> QED
  BY <1>0, <1>4, <1>5, <1>6, QuietStepPreserves

LEMMA BackfillWritePreserves ==
    ASSUME IInv, NEW w \in Workers, BackfillWrite(w) PROVE IInv'
<1>0. UNCHANGED <<stage, catalog, chosen, kind, todo, source, synced, items, counted, due>>
  BY DEF BackfillWrite, tables, answer
<1>1. TypeOK /\ pc[w] = "write" /\ source[w] \in Snapshots /\ source[w] # None
  BY GlossaryAssumption DEF BackfillWrite, IInv, SyncedIsInCatalog
<1>2. /\ owner' = [t \in Terms |-> IF t \in synced[w] THEN source[w] ELSE owner[t]]
      /\ lifecycle' = [t \in Terms |-> IF t \in synced[w] /\ owner[t] = None
                                       THEN "candidate" ELSE lifecycle[t]]
  BY DEF BackfillWrite, NewOwner, NewLifecycle
<1>3. /\ pc' \in [Workers -> {"idle", "read", "write", "list", "count", "answered"}]
      /\ pc'[w] \in {"read", "list", "count"}
      /\ pc'[w] \in {"list", "count"} => todo[w] = {}
      /\ pc'[w] = "list" => kind[w] = "glossary"
      /\ \A v \in Workers : v # w => pc'[v] = pc[v]
  BY <1>1 DEF BackfillWrite, TypeOK
<1>4. TypeOK'
  BY <1>0, <1>1, <1>2, <1>3 DEF TypeOK, Lifecycles
<1>5. DecisionsSurvive'
  <2>1. \A t \in Terms : chosen[t] # "none" => owner[t] # None
    BY <1>1 DEF IInv, TypeOK, DecisionsSurvive
  <2> QED
    BY <1>0, <1>2, <2>1 DEF IInv, DecisionsSurvive
<1>6. OwnersHaveTheirTerms'
  BY <1>0, <1>1, <1>2 DEF IInv, OwnersHaveTheirTerms, SyncedIsInCatalog
<1>7. AggregateIsComplete' /\ SyncedIsInCatalog' /\ MetadataComesLate' /\ ListOnlyForGlossary'
  BY <1>0, <1>3 DEF IInv, AggregateIsComplete, SyncedIsInCatalog, MetadataComesLate,
                    ListOnlyForGlossary
<1>8. Accounted'
  <2> SUFFICES ASSUME NEW v \in Workers, pc'[v] \in {"read", "write", "count"},
                      kind[v] = "aggregate", NEW d \in due[v]
               PROVE  /\ stage[d[1]] \notin {"new", "created"}
                      /\ stage[d[1]] # "deleted" => Pending(v, d)'
    BY <1>0 DEF Accounted
  <2>0. FirstTerms(d[1])' = FirstTerms(d[1])
    BY <1>0 DEF FirstTerms
  <2>1. d[2] \in Terms
    BY <1>1 DEF TypeOK, Terms
  <2>2. pc[v] \in {"read", "write", "count"}
    BY <1>1, <1>3
  <2>3. stage[d[1]] \notin {"new", "created"} /\ (stage[d[1]] # "deleted" => Pending(v, d))
    BY <2>2 DEF IInv, Accounted
  <2>4. owner[d[2]] # None => owner'[d[2]] # None
    BY <1>1, <1>2, <2>1
  <2>5. ASSUME stage[d[1]] # "deleted" PROVE Pending(v, d)'
    <3>1. CASE v = w
      <4>1. d[2] \in synced[w] => owner'[d[2]] # None
        BY <1>1, <1>2, <2>1
      <4>2. d[1] \in todo[w] => pc'[w] = "read"
        BY <1>3
      <4> QED
        BY <1>0, <2>0, <2>3, <2>4, <2>5, <3>1, <4>1, <4>2 DEF Pending
    <3>2. CASE v # w
      BY <1>0, <1>3, <2>0, <2>3, <2>4, <2>5, <3>2 DEF Pending
    <3> QED
      BY <3>1, <3>2
  <2> QED
    BY <2>3, <2>5
<1> QED
  BY <1>4, <1>5, <1>6, <1>7, <1>8 DEF IInv

(* The steps that compute the answer and those that forget it.              *)
LEMMA AnswerStepPreserves ==
    ASSUME IInv, NEW w \in Workers, ListTerms(w) \/ Aggregate(w) \/ Forget(w)
    PROVE  IInv'
<1>0. UNCHANGED <<stage, catalog, owner, lifecycle, chosen, kind>>
  BY DEF ListTerms, Aggregate, Forget, tables, database
<1>1. TypeOK
  BY DEF IInv
<1>2. CASE ListTerms(w)
  <2>1. TypeOK'
    BY <1>0, <1>1, <1>2 DEF TypeOK, ListTerms, FirstListed
  <2>2. /\ pc[w] = "list" /\ pc'[w] = "count" /\ \A v \in Workers : v # w => pc'[v] = pc[v]
        /\ UNCHANGED <<todo, source, synced, counted, due>>
    BY <1>1, <1>2 DEF TypeOK, ListTerms
  <2>3. AggregateIsComplete' /\ SyncedIsInCatalog'
    BY <1>0, <2>2 DEF IInv, AggregateIsComplete, SyncedIsInCatalog
  <2>4. kind[w] = "glossary"
    BY <2>2 DEF IInv, ListOnlyForGlossary
  <2>5. Accounted'
    BY <1>0, <2>2, <2>4 DEF IInv, Accounted, Pending, FirstTerms
  <2>9. ListOnlyForGlossary'
    BY <1>0, <2>2 DEF IInv, ListOnlyForGlossary
  <2> QED
    BY <1>0, <2>1, <2>2, <2>3, <2>5, <2>9, QuietStepPreserves
<1>3. CASE Aggregate(w)
  <2>1. TypeOK'
    BY <1>0, <1>1, <1>3 DEF TypeOK, Aggregate
  <2>2. /\ pc[w] = "count" /\ pc'[w] = "answered"
        /\ kind[w] = "aggregate" => counted'[w] = {t \in Terms : owner[t] # None}
        /\ \A v \in Workers : v # w => pc'[v] = pc[v] /\ counted'[v] = counted[v]
        /\ UNCHANGED <<todo, source, synced, due>>
    BY <1>1, <1>3 DEF TypeOK, Aggregate
  <2>3. SyncedIsInCatalog' /\ Accounted'
    BY <1>0, <2>2 DEF IInv, SyncedIsInCatalog, Accounted, Pending, FirstTerms
  <2>4. AggregateIsComplete'
    <3> SUFFICES ASSUME NEW v \in Workers, pc'[v] = "answered", kind[v] = "aggregate",
                        NEW d \in due[v], stage[d[1]] # "deleted"
                 PROVE  d[2] \in counted'[v]
      BY <1>0, <2>2 DEF AggregateIsComplete
    <3>1. CASE v = w
      <4>1. Pending(w, d)
        BY <2>2, <3>1 DEF IInv, Accounted
      <4>2. d[2] \in Terms /\ owner[d[2]] # None
        BY <1>1, <2>2, <3>1, <4>1 DEF Pending, TypeOK, Terms
      <4> QED
        BY <2>2, <3>1, <4>2
    <3>2. CASE v # w
      BY <2>2, <3>2 DEF IInv, AggregateIsComplete
    <3> QED
      BY <3>1, <3>2
  <2>9. ListOnlyForGlossary'
    BY <1>0, <2>2 DEF IInv, ListOnlyForGlossary
  <2> QED
    BY <1>0, <2>1, <2>2, <2>3, <2>4, <2>9, QuietStepPreserves
<1>4. CASE Forget(w)
  <2>1. TypeOK'
    BY <1>0, <1>1, <1>4 DEF TypeOK, Forget
  <2>2. /\ pc'[w] = "idle"
        /\ \A v \in Workers : v # w => pc'[v] = pc[v] /\ source'[v] = source[v]
              /\ synced'[v] = synced[v] /\ todo'[v] = todo[v] /\ counted'[v] = counted[v] /\ due'[v] = due[v]
    BY <1>1, <1>4 DEF TypeOK, Forget
  <2>3. AggregateIsComplete' /\ SyncedIsInCatalog'
    BY <1>0, <2>2 DEF IInv, AggregateIsComplete, SyncedIsInCatalog
  <2>4. \A r : FirstTerms(r)' = FirstTerms(r)
    BY <1>0 DEF FirstTerms
  <2>5. Accounted'
    BY <1>0, <2>2, <2>4 DEF IInv, Accounted, Pending
  <2>9. ListOnlyForGlossary'
    BY <1>0, <2>2 DEF IInv, ListOnlyForGlossary
  <2> QED
    BY <1>0, <2>1, <2>2, <2>3, <2>5, <2>9, QuietStepPreserves
<1> QED
  BY <1>2, <1>3, <1>4

LEMMA Invariance == Spec => []IInv
<1>1. IInv /\ [Next]_vars => IInv'
  <2> SUFFICES ASSUME IInv, [Next]_vars PROVE IInv'
    OBVIOUS
  <2>1. CASE CatalogStep
    BY <2>1, CatalogStepPreserves
  <2>2. ASSUME NEW w \in Workers, WorkerStep(w) PROVE IInv'
    <3>1. CASE AskGlossary(w) \/ AskAggregate(w)
      BY <3>1, StartSyncPreserves DEF AskGlossary, AskAggregate
    <3>2. CASE BackfillRead(w) \/ BackfillGone(w) \/ BackfillWrite(w)
      BY <3>2, BackfillReadPreserves, BackfillGonePreserves, BackfillWritePreserves
    <3>3. CASE ListTerms(w) \/ Aggregate(w) \/ FinishRequest(w) \/ RequestFails(w)
      BY <3>3, AnswerStepPreserves DEF FinishRequest, RequestFails
    <3> QED
      BY <2>2, <3>1, <3>2, <3>3 DEF WorkerStep
  <2>3. ASSUME NEW t \in Terms, NEW l \in Decisions, SetLifecycle(t, l) PROVE IInv'
    BY <2>3, SetLifecyclePreserves
  <2>4. CASE UNCHANGED vars
    <3> USE <2>4 DEF vars, tables, database, answer
    <3>1. TypeOK' /\ AggregateIsComplete' /\ SyncedIsInCatalog' /\ ListOnlyForGlossary'
      BY DEF IInv, TypeOK, AggregateIsComplete, SyncedIsInCatalog, ListOnlyForGlossary
    <3>2. \A r : FirstTerms(r)' = FirstTerms(r)
      BY DEF FirstTerms
    <3>3. Accounted'
      BY <3>2 DEF IInv, Accounted, Pending
    <3> QED
      BY <3>1, <3>3, QuietStepPreserves
  <2> QED
    BY <2>1, <2>2, <2>3, <2>4 DEF Next
<1> QED
  BY <1>1, InitInvariant, PTL DEF Spec

(* Every variable keeps its type, and a term has a lifecycle exactly when   *)
(* the glossary has a row for it (glossary_store.py:62-100).                *)
THEOREM TypeCorrect == Spec => []TypeOK
<1>1. IInv => TypeOK
  BY DEF IInv
<1> QED
  BY <1>1, Invariance, PTL

(* No copying of terms takes a decision back, however requests interleave.  *)
THEOREM DecisionsKept == Spec => []DecisionsSurvive
<1>1. IInv => DecisionsSurvive
  BY DEF IInv
<1> QED
  BY <1>1, Invariance, PTL

(* The glossary never names a snapshot that exists and lacks the term.      *)
THEOREM Ownership == Spec => []OwnersHaveTheirTerms
<1>1. IInv => OwnersHaveTheirTerms
  BY DEF IInv
<1> QED
  BY <1>1, Invariance, PTL

(* An aggregate misses no metadata term within the limit, whatever happens  *)
(* between its statements (server.py:3342-3348).                            *)
THEOREM CompleteAggregate == Spec => []AggregateIsComplete
<1>1. IInv => AggregateIsComplete
  BY DEF IInv
<1> QED
  BY <1>1, Invariance, PTL

-----------------------------------------------------------------------------
(* What a limited list leaves out comes after all it shows, and then it is  *)
(* full.                                                                    *)

LEMMA LeastOf ==
    ASSUME NEW N, N \subseteq Nat, N # {}
    PROVE  \E x \in N : \A y \in N : x <= y
<1> DEFINE R == OpToRel(<, Nat)
<1>1. IsWellFoundedOn(R, Nat)
  BY NatLessThanWellFounded
<1>2. \A x, y \in Nat : x < y => <<x, y>> \in R
  BY DEF OpToRel
<1> HIDE DEF R
<1>3. PICK x \in N : \A y \in N : ~ (<<y, x>> \in R)
  BY <1>1, WFMin, Zenon
<1>4. \A y \in N : ~ (y < x)
  BY <1>2, <1>3
<1> QED
  BY <1>4

LEMMA ListIsFull ==
    ASSUME NEW all \in SUBSET Terms, NEW limit \in Limits,
           NEW t \in all, t \notin FirstListed(all, limit)
    PROVE  /\ Cardinality(FirstListed(all, limit)) >= limit
           /\ \A u \in FirstListed(all, limit) : Rank[u] < Rank[t]
<1> DEFINE before(x) == {u \in all : Rank[u] < Rank[x]}
           first == FirstListed(all, limit)
<1>1. limit \in Nat /\ \A x \in all : Rank[x] \in Nat
  BY GlossaryAssumption
<1>2. IsFiniteSet(all)
  <2>1. IsFiniteSet(Terms)
    BY GlossaryAssumption, FS_Union DEF Terms
  <2> QED
    BY <2>1, FS_Subset
<1>3. first \subseteq all /\ IsFiniteSet(first) /\ Cardinality(first) \in Nat
  <2>1. first \subseteq all
    BY DEF FirstListed
  <2> HIDE DEF first
  <2> QED
    BY <1>2, <2>1, FS_Subset, FS_CardinalityType
<1>4. \A x \in all : IsFiniteSet(before(x)) /\ Cardinality(before(x)) \in Nat
  <2> SUFFICES ASSUME NEW x \in all
               PROVE  IsFiniteSet(before(x)) /\ Cardinality(before(x)) \in Nat
    OBVIOUS
  <2>1. before(x) \in SUBSET all
    OBVIOUS
  <2> HIDE DEF before
  <2> QED
    BY <1>2, <2>1, FS_Subset, FS_CardinalityType
<1>5. \A x \in all : x \in first <=> Cardinality(before(x)) < limit
  BY DEF FirstListed
<1> HIDE DEF first
<1>6. ASSUME NEW u \in first PROVE Rank[u] < Rank[t]
  <2> SUFFICES ASSUME ~(Rank[u] < Rank[t]) PROVE FALSE
    OBVIOUS
  <2>1. u \in all /\ before(t) \in SUBSET before(u)
    BY <1>1, <1>3
  <2> HIDE DEF before
  <2>2. Cardinality(before(t)) <= Cardinality(before(u))
    BY <1>4, <2>1, FS_Subset
  <2>3. Cardinality(before(u)) < limit
    BY <1>5, <2>1
  <2>4. Cardinality(before(t)) < limit
    BY <1>1, <1>4, <2>1, <2>2, <2>3
  <2> QED
    BY <1>5, <2>4 DEF first
<1>7. Cardinality(first) >= limit
  <2> DEFINE places == {Rank[x] : x \in all \ first}
  <2>1. places \subseteq Nat /\ places # {}
    BY <1>1 DEF first
  <2> HIDE DEF places
  <2>2. PICK k \in places : \A l \in places : k <= l
    BY <2>1, LeastOf
  <2>3. PICK v \in all \ first : k = Rank[v]
    BY DEF places
  <2>4. before(v) \in SUBSET first
    <3> SUFFICES ASSUME NEW x \in before(v), x \notin first PROVE FALSE
      OBVIOUS
    <3>1. x \in all /\ Rank[x] \in places /\ Rank[x] < Rank[v]
      BY DEF places
    <3> QED
      BY <1>1, <2>2, <2>3, <3>1
  <2> HIDE DEF before
  <2>5. Cardinality(before(v)) <= Cardinality(first)
    BY <1>3, <2>4, FS_Subset
  <2>6. ~(Cardinality(before(v)) < limit)
    BY <1>5, <2>3
  <2> QED
    BY <1>1, <1>3, <1>4, <2>3, <2>5, <2>6
<1> QED
  BY <1>6, <1>7 DEF first

-----------------------------------------------------------------------------
(* The answer for one snapshot. A term that was copied for it stays with it *)
(* or has passed to another snapshot that has or had it.                    *)
Held(w, t) == owner[t] = source[w] \/ ~Alone(source[w], t)

Lists(w) ==
    /\ stage[source[w]] # "deleted" => items[w] \subseteq catalog[source[w]]
    /\ \A t \in synced[w] : Alone(source[w], t) => t \in items[w] \/ LeftOut(w, t)

Counts(w) ==
    /\ stage[source[w]] # "deleted" => counted[w] \subseteq catalog[source[w]]
    /\ \A t \in synced[w] : Alone(source[w], t) => t \in counted[w]

Answering(w) ==
    kind[w] = "glossary" =>
        /\ pc[w] \in {"list", "count", "answered"} => source[w] \in Snapshots
        /\ pc[w] \in {"list", "count"} => \A t \in synced[w] : Held(w, t)
        /\ pc[w] \in {"count", "answered"} => Lists(w)
        /\ pc[w] = "answered" => Counts(w)

AnswerInv == \A w \in Workers : Answering(w)

\* Snapshots do not come back, and do not lose terms.
Grows ==
    \A r \in Snapshots : stage'[r] # "deleted" =>
        stage[r] # "deleted" /\ catalog[r] \subseteq catalog'[r]

(* A request that does not move keeps what it has found.                    *)
LEMMA AnsweringStays ==
    ASSUME NEW w \in Workers, Answering(w), Grows,
           UNCHANGED <<pc[w], kind[w], source[w], synced[w], items[w], counted[w]>>,
           kind[w] = "glossary" /\ pc[w] \in {"list", "count"} =>
             \A t \in synced[w] : owner'[t] = owner[t] \/ ~Alone(source[w], t)
    PROVE  Answering(w)'
<1> SUFFICES ASSUME kind[w] = "glossary", pc[w] \in {"list", "count", "answered"}
             PROVE  Answering(w)'
  BY DEF Answering
<1> DEFINE s == source[w]
<1>1. s \in Snapshots /\ source'[w] = s
  BY DEF Answering
<1>2. \A t : Alone(s, t)' => Alone(s, t)
  BY DEF Alone, Grows
<1>3. stage'[s] # "deleted" => stage[s] # "deleted" /\ catalog[s] \subseteq catalog'[s]
  BY <1>1 DEF Grows
<1> HIDE DEF s
<1>4. \A t : LeftOut(w, t)' <=> LeftOut(w, t)
  BY DEF LeftOut
<1>5. pc[w] \in {"list", "count"} => (\A t \in synced[w] : Held(w, t))'
  <2> SUFFICES ASSUME pc[w] \in {"list", "count"}, NEW t \in synced[w], Alone(s, t)'
               PROVE  owner'[t] = s
    BY <1>1 DEF Held, s
  <2>1. Alone(s, t) /\ owner'[t] = owner[t] /\ Held(w, t)
    BY <1>2 DEF Answering, s
  <2> QED
    BY <2>1 DEF Held, s
<1>6. pc[w] \in {"count", "answered"} => Lists(w)'
  <2> SUFFICES ASSUME pc[w] \in {"count", "answered"} PROVE Lists(w)'
    OBVIOUS
  <2>1. Lists(w)
    BY DEF Answering
  <2> QED
    BY <1>1, <1>2, <1>3, <1>4, <2>1 DEF Lists, s
<1>7. pc[w] = "answered" => Counts(w)'
  <2> SUFFICES ASSUME pc[w] = "answered" PROVE Counts(w)'
    OBVIOUS
  <2>1. Counts(w)
    BY DEF Answering
  <2> QED
    BY <1>1, <1>2, <1>3, <2>1 DEF Counts, s
<1> QED
  BY <1>1, <1>5, <1>6, <1>7 DEF Answering

Unmoved(w) == UNCHANGED <<pc[w], kind[w], source[w], synced[w], items[w], counted[w]>>

(* A step of one request that writes nothing concerns no other request.     *)
LEMMA OwnStep ==
    ASSUME AnswerInv, UNCHANGED <<stage, catalog, owner>>, NEW w \in Workers, Answering(w)',
           \A v \in Workers : v # w => Unmoved(v)
    PROVE  AnswerInv'
<1>1. Grows
  BY DEF Grows
<1>2. ASSUME NEW v \in Workers, v # w PROVE Answering(v)'
  <2>1. Answering(v) /\ Unmoved(v)
    BY <1>2 DEF AnswerInv
  <2> QED
    BY <1>1, <2>1, AnsweringStays DEF Unmoved
<1> QED
  BY <1>2 DEF AnswerInv

(* The copied terms belong to the snapshot now; whoever copied in between   *)
(* copied for a snapshot that has or had the term.                          *)
LEMMA WriteAnswers ==
    ASSUME IInv, AnswerInv, NEW w \in Workers, BackfillWrite(w) PROVE AnswerInv'
<1>1. TypeOK /\ pc[w] = "write" /\ source[w] \in Snapshots
      /\ (stage[source[w]] # "deleted" => synced[w] \subseteq catalog[source[w]])
  BY DEF BackfillWrite, IInv, SyncedIsInCatalog
<1>2. /\ UNCHANGED <<stage, catalog, kind, source, synced, items, counted>>
      /\ owner' = [t \in Terms |-> IF t \in synced[w] THEN source[w] ELSE owner[t]]
      /\ pc'[w] \in {"read", "list", "count"} /\ (kind[w] = "glossary" => pc'[w] # "count")
      /\ \A v \in Workers : v # w => pc'[v] = pc[v]
  BY <1>1 DEF BackfillWrite, NewOwner, TypeOK, tables, answer
<1>3. Grows
  BY <1>2 DEF Grows
<1>4. Answering(w)'
  <2>1. \A t \in synced[w] : owner'[t] = source[w]
    BY <1>1, <1>2 DEF TypeOK
  <2> QED
    BY <1>1, <1>2, <2>1 DEF Answering, Held
<1>5. ASSUME NEW v \in Workers, v # w PROVE Answering(v)'
  <2>1. Answering(v) /\ Unmoved(v)
    BY <1>2, <1>5 DEF AnswerInv, Unmoved
  <2>2. ASSUME kind[v] = "glossary", NEW t \in synced[v], owner'[t] # owner[t],
               Alone(source[v], t), Held(v, t)
        PROVE  FALSE
    <3>1. t \in Terms /\ t \in synced[w] /\ owner'[t] = source[w]
      BY <1>1, <1>2, <2>2 DEF TypeOK
    <3>2. source[w] # source[v]
      BY <2>2, <3>1 DEF Held
    <3>3. stage[source[w]] # "deleted" /\ t \notin catalog[source[w]]
      BY <1>1, <2>2, <3>2 DEF Alone
    <3> QED
      BY <1>1, <3>1, <3>3
  <2>3. kind[v] = "glossary" /\ pc[v] \in {"list", "count"} =>
          \A t \in synced[v] : owner'[t] = owner[t] \/ ~Alone(source[v], t)
    BY <2>1, <2>2 DEF Answering
  <2> QED
    BY <1>3, <2>1, <2>3, AnsweringStays DEF Unmoved
<1> QED
  BY <1>4, <1>5 DEF AnswerInv

LEMMA ListAnswers ==
    ASSUME IInv, AnswerInv, NEW w \in Workers, ListTerms(w) PROVE AnswerInv'
<1> DEFINE s == source[w]
           owned == {t \in Terms : owner[t] = s}
<1>1. PICK limit \in Limits : items' = [items EXCEPT ![w] = FirstListed(owned, limit)]
  BY DEF ListTerms
<1>2. TypeOK /\ OwnersHaveTheirTerms /\ kind[w] = "glossary" /\ pc[w] = "list" /\ Answering(w)
  BY DEF IInv, ListTerms, ListOnlyForGlossary, AnswerInv
<1>3. /\ UNCHANGED <<stage, catalog, owner, kind, source, synced, counted>> /\ pc'[w] = "count"
      /\ items'[w] = FirstListed(owned, limit)
      /\ \A v \in Workers : v # w => pc'[v] = pc[v] /\ items'[v] = items[v]
  BY <1>1, <1>2 DEF ListTerms, TypeOK, tables, database
<1>4. s \in Snapshots /\ \A t \in synced[w] : Held(w, t)
  BY <1>2 DEF Answering
<1>5. stage[s] # "deleted" => items'[w] \subseteq catalog[s]
  BY <1>2, <1>3, <1>4 DEF OwnersHaveTheirTerms, FirstListed
<1>6. ASSUME NEW t \in synced[w], Alone(s, t) PROVE t \in items'[w] \/ LeftOut(w, t)'
  <2>1. t \in owned
    BY <1>2, <1>4, <1>6 DEF Held, TypeOK
  <2>2. owned \in SUBSET Terms
    OBVIOUS
  <2> HIDE DEF owned
  <2>3. CASE t \notin FirstListed(owned, limit)
    <3>1. /\ Cardinality(FirstListed(owned, limit)) >= limit
          /\ \A u \in FirstListed(owned, limit) : Rank[u] < Rank[t]
      BY <2>1, <2>2, <2>3, ListIsFull
    <3> QED
      BY <1>3, <3>1 DEF LeftOut
  <2> QED
    BY <1>3, <2>3
<1>7. Answering(w)'
  <2>1. \A t : Held(w, t)' <=> Held(w, t)
    BY <1>3 DEF Held, Alone
  <2>2. \A t : Alone(s, t)' <=> Alone(s, t)
    BY <1>3 DEF Alone
  <2> HIDE DEF owned
  <2>3. Lists(w)'
    BY <1>3, <1>5, <1>6, <2>2 DEF Lists
  <2> QED
    BY <1>3, <1>4, <2>1, <2>3 DEF Answering
<1> QED
  BY <1>3, <1>7, OwnStep DEF Unmoved

LEMMA CountAnswers ==
    ASSUME IInv, AnswerInv, NEW w \in Workers, Aggregate(w) PROVE AnswerInv'
<1> DEFINE s == source[w]
<1>1. TypeOK /\ OwnersHaveTheirTerms /\ pc[w] = "count" /\ Answering(w)
  BY DEF IInv, Aggregate, AnswerInv
<1>2. /\ UNCHANGED <<stage, catalog, owner, kind, source, synced, items>> /\ pc'[w] = "answered"
      /\ counted'[w] = {t \in Terms : owner[t] # None /\ (kind[w] = "glossary" => owner[t] = s)}
      /\ \A v \in Workers : v # w => pc'[v] = pc[v] /\ counted'[v] = counted[v]
  BY <1>1 DEF Aggregate, TypeOK, tables, database
<1>3. Answering(w)'
  <2> SUFFICES ASSUME kind[w] = "glossary" PROVE Answering(w)'
    BY <1>2 DEF Answering
  <2>1. s \in Snapshots /\ s # None /\ Lists(w) /\ \A t \in synced[w] : Held(w, t)
    BY <1>1, GlossaryAssumption DEF Answering
  <2>2. \A t : Alone(s, t)' <=> Alone(s, t)
    BY <1>2 DEF Alone
  <2>3. \A t : LeftOut(w, t)' <=> LeftOut(w, t)
    BY <1>2 DEF LeftOut
  <2>4. Lists(w)'
    BY <1>2, <2>1, <2>2, <2>3 DEF Lists
  <2>5. stage[s] # "deleted" => counted'[w] \subseteq catalog[s]
    BY <1>1, <1>2, <2>1 DEF OwnersHaveTheirTerms
  <2>6. \A t \in synced[w] : Alone(s, t) => t \in counted'[w]
    BY <1>1, <1>2, <2>1 DEF Held, TypeOK
  <2>7. Counts(w)'
    BY <1>2, <2>2, <2>5, <2>6 DEF Counts
  <2> QED
    BY <1>2, <2>1, <2>4, <2>7 DEF Answering
<1> QED
  BY <1>2, <1>3, OwnStep DEF Unmoved

LEMMA AnswerSteps ==
    ASSUME IInv, AnswerInv, [Next]_vars
    PROVE  AnswerInv'
<1>1. TypeOK
  BY DEF IInv
<1>2. CASE CatalogStep
  <2>1. PICK s \in Snapshots : CatalogChange(s)
    BY <1>2, CatalogChanges DEF CatalogStep
  <2>2. Grows
    BY <2>1 DEF CatalogChange, Grows
  <2>3. UNCHANGED <<owner, pc, kind, source, synced, items, counted>>
    BY <1>2 DEF CatalogStep, database, answer
  <2> QED
    BY <2>2, <2>3, AnsweringStays DEF AnswerInv
<1>3. CASE (\E t \in Terms, l \in Decisions : SetLifecycle(t, l)) \/ UNCHANGED vars
  <2>1. UNCHANGED <<stage, catalog, owner, pc, kind, source, synced, items, counted>>
    BY <1>3 DEF SetLifecycle, vars, tables, database, answer
  <2>2. Grows
    BY <2>1 DEF Grows
  <2> QED
    BY <2>1, <2>2, AnsweringStays DEF AnswerInv
<1>4. ASSUME NEW w \in Workers, WorkerStep(w)
      PROVE  AnswerInv'
  <2>1. CASE AskGlossary(w) \/ AskAggregate(w)
    <3>1. PICK request \in {"glossary", "aggregate"}, snapshots \in SUBSET Listed :
            /\ StartSync(w, request, snapshots)
            /\ request = "glossary" => snapshots # {}
      BY <2>1 DEF AskGlossary, AskAggregate
    <3>2. /\ UNCHANGED <<stage, catalog, owner, source, synced, items, counted>>
          /\ pc'[w] \in {"read", "count"} /\ (pc'[w] = "count" => kind'[w] = "aggregate")
          /\ \A v \in Workers : v # w => pc'[v] = pc[v] /\ kind'[v] = kind[v]
      BY <1>1, <3>1 DEF StartSync, TypeOK, tables, database, answer
    <3>3. Answering(w)'
      BY <3>2 DEF Answering
    <3> QED
      BY <3>2, <3>3, OwnStep DEF Unmoved
  <2>2. CASE BackfillRead(w)
    <3>1. /\ UNCHANGED <<stage, catalog, owner, kind, items, counted>> /\ pc'[w] = "write"
          /\ \A v \in Workers : v # w =>
                pc'[v] = pc[v] /\ source'[v] = source[v] /\ synced'[v] = synced[v]
      BY <1>1, <2>2 DEF BackfillRead, TypeOK, tables, database, answer
    <3>2. Answering(w)'
      BY <3>1 DEF Answering
    <3> QED
      BY <3>1, <3>2, OwnStep DEF Unmoved
  <2>3. CASE BackfillGone(w)
    <3>1. /\ UNCHANGED <<stage, catalog, owner, kind, source, synced, items, counted>>
          /\ pc'[w] \in {"idle", "read", "count"} /\ (pc'[w] = "count" => kind[w] # "glossary")
          /\ \A v \in Workers : v # w => pc'[v] = pc[v]
      BY <1>1, <2>3 DEF BackfillGone, SkipMissing, TypeOK, tables, database, answer
    <3>2. Answering(w)'
      BY <3>1 DEF Answering
    <3> QED
      BY <3>1, <3>2, OwnStep DEF Unmoved
  <2>4. CASE Forget(w)
    <3>1. /\ UNCHANGED <<stage, catalog, owner, kind>> /\ pc'[w] = "idle"
          /\ \A v \in Workers : v # w => pc'[v] = pc[v] /\ source'[v] = source[v]
                /\ synced'[v] = synced[v] /\ items'[v] = items[v] /\ counted'[v] = counted[v]
      BY <1>1, <2>4 DEF Forget, TypeOK, tables, database
    <3>2. Answering(w)'
      BY <3>1 DEF Answering
    <3> QED
      BY <3>1, <3>2, OwnStep DEF Unmoved
  <2> QED
    BY <1>4, <2>1, <2>2, <2>3, <2>4, WriteAnswers, ListAnswers, CountAnswers
       DEF WorkerStep, FinishRequest, RequestFails
<1> QED
  BY <1>2, <1>3, <1>4 DEF Next

(* For any requests, captures, limits and order of terms: what the glossary *)
(* of a snapshot lists and counts is of that snapshot, and of the terms it  *)
(* copied the snapshot's own are counted, and listed up to the limit.       *)
THEOREM GlossaryOfTheSnapshot == Spec => []GlossaryIsOfTheSnapshot
<1>1. Init => AnswerInv
  BY DEF Init, AnswerInv, Answering
<1>2. IInv /\ AnswerInv /\ [Next]_vars => AnswerInv'
  BY AnswerSteps
<1>3. AnswerInv => GlossaryIsOfTheSnapshot
  BY DEF AnswerInv, Answering, Lists, Counts, GlossaryIsOfTheSnapshot
<1> QED
  BY <1>1, <1>2, <1>3, Invariance, PTL DEF Spec
=============================================================================

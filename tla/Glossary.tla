------------------------------ MODULE Glossary ------------------------------
(***************************************************************************)
(* The business glossary: the terms that the catalog holds for each        *)
(* snapshot (src/src/bwli/store/catalog.py) and the glossary database that *)
(* holds each term once, with the decision of the user                     *)
(* (src/src/bwli/store/glossary_store.py). The two are different files:    *)
(* the requests that read the glossary first copy terms from the catalog   *)
(* to the database, each statement in a step of its own.                   *)
(*                                                                         *)
(* Terms and snapshots are numbers, in the order the code sorts them:      *)
(* terms by source (metadata before SQL) and text, snapshots by age. Not   *)
(* covered: the search text, the fields of a term other than its snapshot, *)
(* its lifecycle and its place in the alphabet.                            *)
(***************************************************************************)
EXTENDS Integers, FiniteSets

CONSTANTS Snapshots,           \* those that are captured
          Metadata, SqlTerms,  \* terms by their source
          Cap,                 \* how many terms of a snapshot are copied (100)
          Limits,              \* how many terms requests ask to see (50 by default)
          Rank,                \* [term -> its place in the alphabet]
          Workers,             \* threads that answer requests
          Decisions,           \* lifecycles that users set
          None                 \* no snapshot

Terms == Metadata \cup SqlTerms
Lifecycles == {"candidate", "confirmed", "rejected"}

ASSUME GlossaryAssumption ==
    /\ Snapshots \subseteq Nat /\ Terms \subseteq Nat
    /\ IsFiniteSet(Metadata) /\ IsFiniteSet(SqlTerms)
    /\ \A m \in Metadata, q \in SqlTerms : m < q
    /\ Cap \in Nat \ {0} /\ Limits \subseteq Nat \ {0}
    /\ Rank \in [Terms -> Nat] /\ \A t, u \in Terms : Rank[t] = Rank[u] => t = u
    /\ Decisions \subseteq Lifecycles
    /\ None \notin Snapshots

VARIABLES
    stage,      \* [snapshot -> how far its capture is]
    catalog,    \* [snapshot -> its terms in the catalog]
    owner,      \* [term -> snapshot_id in the glossary database, None: no row]
    lifecycle,  \* [term -> lifecycle in the glossary database]
    chosen,     \* [term -> what the user decided last]
    pc,         \* [worker -> the statement it executes next]
    kind,       \* [worker -> the request: "glossary" or "aggregate"]
    todo,       \* [worker -> snapshots still to copy]
    source,     \* [worker -> the snapshot that is copied]
    synced,     \* [worker -> the terms read for it]
    items,      \* [worker -> the terms listed in the answer]
    counted,    \* [worker -> the terms counted in the answer]
    due         \* [worker -> <<snapshot, term>> an aggregate has to count]

tables == <<stage, catalog>>
database == <<owner, lifecycle, chosen>>
answer == <<items, counted>>
vars == <<tables, database, pc, kind, todo, source, synced, answer, due>>

Init ==
    /\ stage = [s \in Snapshots |-> "new"]
    /\ catalog = [s \in Snapshots |-> {}]
    /\ owner = [t \in Terms |-> None]
    /\ lifecycle = [t \in Terms |-> "none"] /\ chosen = [t \in Terms |-> "none"]
    /\ pc = [w \in Workers |-> "idle"] /\ kind = [w \in Workers |-> "glossary"]
    /\ todo = [w \in Workers |-> {}] /\ source = [w \in Workers |-> None]
    /\ synced = [w \in Workers |-> {}]
    /\ items = [w \in Workers |-> {}] /\ counted = [w \in Workers |-> {}]
    /\ due = [w \in Workers |-> {}]

Listed == {s \in Snapshots : stage[s] \notin {"new", "deleted"}}    \* list_snapshots

(* list_glossary_terms with its limit.                                      *)
FirstTerms(s) == {t \in catalog[s] : Cardinality({u \in catalog[s] : u < t}) < Cap}

-----------------------------------------------------------------------------
(* The catalog: a capture, in this order, and the analysis of a SQL view.   *)

CreateSnapshot(s) ==
    /\ stage[s] = "new" /\ \A r \in Snapshots : r < s => stage[r] # "new"
    /\ stage' = [stage EXCEPT ![s] = "created"]
    /\ UNCHANGED catalog

ReplaceAllTerms(s, terms) == catalog' = [catalog EXCEPT ![s] = terms]    \* mutant

(* _replace_metadata_glossary_terms: the terms of SQL views stay.           *)
ReplaceTerms(s, terms) == catalog' = [catalog EXCEPT ![s] = (@ \cap SqlTerms) \cup terms]

ReplaceCatalog(s) ==
    /\ stage[s] = "created"
    /\ stage' = [stage EXCEPT ![s] = "stored"]
    /\ \E terms \in SUBSET Metadata : ReplaceTerms(s, terms)

FinishCapture(s) ==
    /\ stage[s] = "stored"
    /\ stage' = [stage EXCEPT ![s] = "done"]
    /\ UNCHANGED catalog

(* A capture that fails is deleted from the catalog, with its terms.        *)
DeleteSnapshot(s) ==
    /\ stage[s] \in {"created", "stored"}
    /\ stage' = [stage EXCEPT ![s] = "deleted"]
    /\ catalog' = [catalog EXCEPT ![s] = {}]

RecordSqlAnalysis(s, t) ==
    /\ s \in Listed
    /\ catalog' = [catalog EXCEPT ![s] = @ \cup {t}]
    /\ UNCHANGED stage

CatalogStep ==
    /\ \E s \in Snapshots :
        \/ CreateSnapshot(s) \/ ReplaceCatalog(s) \/ FinishCapture(s) \/ DeleteSnapshot(s)
        \/ \E t \in SqlTerms : RecordSqlAnalysis(s, t)
    /\ UNCHANGED <<database, pc, kind, todo, source, synced, answer, due>>

-----------------------------------------------------------------------------
(* Requests.                                                                *)

StartSync(w, request, snapshots) ==
    /\ pc[w] = "idle"
    /\ pc' = [pc EXCEPT ![w] = IF snapshots = {} THEN "count" ELSE "read"]
    /\ kind' = [kind EXCEPT ![w] = request]
    /\ todo' = [todo EXCEPT ![w] = snapshots]
    /\ due' = [due EXCEPT ![w] = {d \in snapshots \X Metadata : d[2] \in FirstTerms(d[1])}]
    /\ UNCHANGED <<tables, database, source, synced, answer>>

AskGlossary(w) == \E s \in Listed : StartSync(w, "glossary", {s})

AskAggregate(w) == StartSync(w, "aggregate", Listed)

(* backfill_from_catalog of the newest snapshot left: what it reads. Of a   *)
(* snapshot deleted between its two statements it reads no terms.           *)
BackfillRead(w) ==
    /\ pc[w] = "read"
    /\ \E s \in todo[w] :
        /\ \A r \in todo[w] : r <= s
        /\ source' = [source EXCEPT ![w] = s]
        /\ todo' = [todo EXCEPT ![w] = @ \ {s}]
        /\ synced' = [synced EXCEPT ![w] = FirstTerms(s)]
    /\ pc' = [pc EXCEPT ![w] = "write"]
    /\ UNCHANGED <<tables, database, kind, answer, due>>

AbortSync(w, s) == pc' = [pc EXCEPT ![w] = "count"]    \* mutant: the error ends the loop

(* The request for one snapshot fails, the aggregate goes on.               *)
SkipMissing(w, s) ==
    pc' = [pc EXCEPT ![w] = IF kind[w] = "glossary" THEN "idle"
                            ELSE IF todo[w] = {s} THEN "count" ELSE "read"]

BackfillGone(w) ==
    /\ pc[w] = "read"
    /\ \E s \in todo[w] :
        /\ \A r \in todo[w] : r <= s
        /\ stage[s] = "deleted"
        /\ todo' = [todo EXCEPT ![w] = @ \ {s}]
        /\ SkipMissing(w, s)
    /\ UNCHANGED <<tables, database, kind, source, synced, answer, due>>

(* ON CONFLICT(term_id) DO UPDATE: the snapshot changes, ...                *)
NewOwner(w, t) == IF t \in synced[w] THEN source[w] ELSE owner[t]

ResetLifecycle(w, t) == IF t \in synced[w] THEN "candidate" ELSE lifecycle[t]    \* mutant

(* ... the lifecycle does not.                                              *)
NewLifecycle(w, t) ==
    IF t \in synced[w] /\ owner[t] = None THEN "candidate" ELSE lifecycle[t]

BackfillWrite(w) ==
    /\ pc[w] = "write"
    /\ owner' = [t \in Terms |-> NewOwner(w, t)]
    /\ lifecycle' = [t \in Terms |-> NewLifecycle(w, t)]
    /\ pc' = [pc EXCEPT ![w] = IF todo[w] # {} THEN "read"
                               ELSE IF kind[w] = "glossary" THEN "list" ELSE "count"]
    /\ UNCHANGED <<tables, chosen, kind, todo, source, synced, answer, due>>

(* What a limited list in alphabetical order shows of these terms.          *)
FirstListed(terms, limit) ==
    {t \in terms : Cardinality({u \in terms : Rank[u] < Rank[t]}) < limit}

ListTerms(w) ==
    /\ pc[w] = "list"
    /\ \E limit \in Limits :
         items' = [items EXCEPT ![w] = FirstListed({t \in Terms : owner[t] = source[w]}, limit)]
    /\ pc' = [pc EXCEPT ![w] = "count"]
    /\ UNCHANGED <<tables, database, kind, todo, source, synced, counted, due>>

Aggregate(w) ==
    /\ pc[w] = "count"
    /\ counted' = [counted EXCEPT ![w] =
            {t \in Terms : owner[t] # None /\ (kind[w] = "glossary" => owner[t] = source[w])}]
    /\ pc' = [pc EXCEPT ![w] = "answered"]
    /\ UNCHANGED <<tables, database, kind, todo, source, synced, items, due>>

(* The worker is free again; what it computed is forgotten, ...             *)
Forget(w) ==
    /\ pc' = [pc EXCEPT ![w] = "idle"]
    /\ todo' = [todo EXCEPT ![w] = {}] /\ source' = [source EXCEPT ![w] = None]
    /\ synced' = [synced EXCEPT ![w] = {}] /\ due' = [due EXCEPT ![w] = {}]
    /\ items' = [items EXCEPT ![w] = {}] /\ counted' = [counted EXCEPT ![w] = {}]
    /\ UNCHANGED <<tables, database, kind>>

FinishRequest(w) == pc[w] = "answered" /\ Forget(w)

(* ... also after an error other than the missing snapshot (a locked file,  *)
(* a term that looks like a secret): it ends the whole request, an          *)
(* aggregate too, and an open write is rolled back.                         *)
RequestFails(w) == pc[w] \in {"read", "write", "list", "count"} /\ Forget(w)

SetLifecycle(t, l) ==
    /\ owner[t] # None
    /\ lifecycle' = [lifecycle EXCEPT ![t] = l]
    /\ chosen' = [chosen EXCEPT ![t] = l]
    /\ UNCHANGED <<tables, owner, pc, kind, todo, source, synced, answer, due>>

WorkerStep(w) ==
    \/ AskGlossary(w) \/ AskAggregate(w) \/ BackfillRead(w) \/ BackfillGone(w)
    \/ BackfillWrite(w) \/ ListTerms(w) \/ Aggregate(w) \/ FinishRequest(w)
    \/ RequestFails(w)

Next ==
    \/ CatalogStep
    \/ \E w \in Workers : WorkerStep(w)
    \/ \E t \in Terms, l \in Decisions : SetLifecycle(t, l)

Spec == Init /\ [][Next]_vars

-----------------------------------------------------------------------------
TypeOK ==
    /\ stage \in [Snapshots -> {"new", "created", "stored", "done", "deleted"}]
    /\ catalog \in [Snapshots -> SUBSET Terms]
    /\ owner \in [Terms -> Snapshots \cup {None}]
    /\ lifecycle \in [Terms -> Lifecycles \cup {"none"}]
    /\ \A t \in Terms : lifecycle[t] = "none" <=> owner[t] = None
    /\ chosen \in [Terms -> Lifecycles \cup {"none"}]
    /\ pc \in [Workers -> {"idle", "read", "write", "list", "count", "answered"}]
    /\ kind \in [Workers -> {"glossary", "aggregate"}]
    /\ todo \in [Workers -> SUBSET Snapshots] /\ source \in [Workers -> Snapshots \cup {None}]
    /\ synced \in [Workers -> SUBSET Terms]
    /\ items \in [Workers -> SUBSET Terms] /\ counted \in [Workers -> SUBSET Terms]
    /\ due \in [Workers -> SUBSET (Snapshots \X Metadata)]

(* Copying terms, again and from any number of captures, never takes a      *)
(* decision of the user back (glossary_store.py:72-83).                     *)
DecisionsSurvive == \A t \in Terms : chosen[t] # "none" => lifecycle[t] = chosen[t]

(* The snapshot that the glossary names for a term has that term in its     *)
(* catalog, unless the snapshot was deleted since.                          *)
OwnersHaveTheirTerms ==
    \A t \in Terms : \A s \in Snapshots :
        owner[t] = s /\ stage[s] # "deleted" => t \in catalog[s]

(* An aggregate counts every metadata term that the snapshots it listed had *)
(* within the limit when it began, if they still exist, whatever captures,  *)
(* failures and SQL analyses went on meanwhile (server.py:3342-3348).       *)
AggregateIsComplete ==
    \A w \in Workers :
        pc[w] = "answered" /\ kind[w] = "aggregate" =>
            \A d \in due[w] : stage[d[1]] # "deleted" => d[2] \in counted[w]

(* No other snapshot has or had this term.                                  *)
Alone(s, t) == \A r \in Snapshots \ {s} : stage[r] # "deleted" /\ t \notin catalog[r]

(* The limit left t out: the list is full, of terms that come before it.    *)
LeftOut(w, t) ==
    /\ \E limit \in Limits : Cardinality(items[w]) >= limit
    /\ \A u \in items[w] : Rank[u] < Rank[t]

(* The glossary of a snapshot, made of a read of the catalog, a write, a    *)
(* list and a count between which other requests copy, names terms of this  *)
(* snapshot only; and of the terms copied for it, those of no other         *)
(* snapshot are all counted and listed up to the limit. (The others may     *)
(* have passed to the other snapshot in between: server.py:903-904.)        *)
GlossaryIsOfTheSnapshot ==
    \A w \in Workers :
        pc[w] = "answered" /\ kind[w] = "glossary" =>
            /\ stage[source[w]] # "deleted" => items[w] \cup counted[w] \subseteq catalog[source[w]]
            /\ \A t \in synced[w] : Alone(source[w], t) =>
                 t \in counted[w] /\ (t \in items[w] \/ LeftOut(w, t))
=============================================================================

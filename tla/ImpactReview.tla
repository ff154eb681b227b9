---------------------------- MODULE ImpactReview ----------------------------
(***************************************************************************)
(* The answers the server makes of a stored snapshot with the bounded      *)
(* lineage (BoundedLineage) and the impact analysis (ImpactAnalysis):      *)
(*   lineage   the bounded lineage of an object (_run_v1_lineage),         *)
(*   scenario  what a change of it affects (_run_v1_impact_scenario): the  *)
(*             analysis of the graph that the lineage of it left over,     *)
(*   review    the same with the evidence of queries, SQL views and        *)
(*             requests (_run_v1_impact_review, impact_evidence.py),       *)
(*   analyze   the analysis alone, of a graph and changes from files.      *)
(*                                                                         *)
(* The graph is loaded once and every query is read from the store later,  *)
(* each through connections of its own; in between the clean-up of a       *)
(* failed capture may delete the snapshot. The loading itself is the       *)
(* subject of CatalogCapture and one step here. Not covered: severities    *)
(* and wording, the order of the answer, glossary terms, the columns and   *)
(* fragments of SQL; names that differ in case only are the same object to *)
(* the evidence and are not told apart.                                    *)
(***************************************************************************)
EXTENDS BoundedLineage

CONSTANTS Unknown,       \* an object id that is not in the graph
          Names,         \* what a query may be asked for by
          Called,        \* the objects with this name or id, but for case
          Mentions,      \* the objects whose name or id contains this text
          LookupLimit,   \* how many of those are looked at
          AsksOf(_)      \* what is asked about the graph and limits of a query

Kinds == {"lineage", "scenario", "review", "analyze"}

(* The fields of a QueryAnalysisResult; what the ingest of a query stores.  *)
ResultFields ==
    {"query_id", "description", "variables", "calculated_key_figures", "restricted_key_figures",
     "filters", "layout", "providers", "local_members", "fields", "metadata"}
StoredFields ==
    ResultFields \cup {"variable_count", "calculated_key_figure_count",
                       "restricted_key_figure_count", "filter_count", "provider_count"}

Analysis == [fields : SUBSET StoredFields, providers : SUBSET Nodes, limits : BOOLEAN]

NoAnalysis == [fields |-> {}, providers |-> {}, limits |-> FALSE]

(* limits: the query has variables, filters or key figures.                 *)
View == [id : Names, refs : SUBSET Nodes, given : BOOLEAN]

Ask == [kind : Kinds, changes : Seq(Nodes \cup {Unknown}),
        queries : SUBSET Nodes,               \* the objects of type QUERY
        analysis : [Nodes -> Analysis],       \* query_analysis in their metadata
        loaded : SUBSET Nodes,                \* objects with request_freshness
        names : Seq(Names), impacted : BOOLEAN, freshness : BOOLEAN,
        views : Seq(View), manual : BOOLEAN]

ASSUME ReviewAssumption ==
    /\ Unknown \notin Nodes
    /\ Nodes \subseteq Names
    /\ Called \in [Names -> SUBSET Nodes] /\ Mentions \in [Names -> SUBSET Nodes]
    /\ \A n \in Nodes : n \in Called[n]
    /\ \A name \in Names : Called[name] \subseteq Mentions[name]
    /\ LookupLimit \in Nat \ {0}
    /\ \A q \in Queries : AsksOf(q) \subseteq Ask
    /\ \A q \in Queries : \A asked \in AsksOf(q) :     \* the server asks for it itself
         asked.kind \in {"scenario", "review"} => q.direction = "downstream"
    /\ NoNode \notin [node : Nodes, depth : Nat]

VARIABLES
    ask, stage,
    inStore,      \* the snapshot is in the store
    names,        \* the queries that are read next
    evidence,     \* the query evidence read so far
    pack,         \* the impact evidence pack
    analysed, change, phase, reached, path, frontier, expanded, pending, findings

reviewVars == <<ask, stage, inStore, names, evidence, pack>>
analysisVars == <<analysed, change, phase, reached, path, frontier, expanded, pending, findings>>
allVars == <<vars, reviewVars, analysisVars>>

A == INSTANCE ImpactAnalysis
       WITH query <- analysed, level <- reached, queue <- frontier, current <- expanded,
            todo <- pending, Nowhere <- NoNode

Stages == {"load", "lineage", "analysis", "queries", "answered", "failed"}

NoPack == [queries |-> {}, freshness |-> {}, gaps |-> {}]

(* The graph and the changes that run_impact_analysis is called with.       *)
Analysed(edges, changes) ==
    [edges |-> edges, src |-> query.src, dst |-> query.dst, changes |-> changes,
     depth |-> query.depth]

ReviewInit ==
    /\ Init
    /\ ask \in AsksOf(query)
    /\ stage = IF ask.kind = "analyze" THEN "analysis" ELSE "load"
    /\ inStore = TRUE
    /\ names = {} /\ evidence = {} /\ pack = NoPack
    /\ analysed = Analysed(query.edges, ask.changes)
    /\ change = 1 /\ phase = "next"
    /\ reached = <<>> /\ path = <<>> /\ frontier = <<>>
    /\ expanded = NoNode /\ pending = {} /\ findings = {}

-----------------------------------------------------------------------------
Fail == stage' = "failed"

DeleteSnapshot ==
    /\ stage \in {"load", "queries"}    \* the store is not read in the others
    /\ inStore
    /\ inStore' = FALSE
    /\ UNCHANGED <<vars, analysisVars, ask, stage, names, evidence, pack>>

LoadGraph ==
    /\ stage = "load"
    /\ IF inStore THEN stage' = "lineage" ELSE Fail
    /\ UNCHANGED <<vars, analysisVars, ask, inStore, names, evidence, pack>>

LineageStep ==
    /\ stage = "lineage"
    /\ Next
    /\ UNCHANGED <<reviewVars, analysisVars>>

AnswerLineage ==
    /\ stage = "lineage" /\ Done
    /\ ask.kind = "lineage"
    /\ stage' = "answered"
    /\ UNCHANGED <<vars, analysisVars, ask, inStore, names, evidence, pack>>

(* The capped graph: BwGraph.model_validate raises when it is not closed.   *)
Closed == \A e \in included : query.src[e] \in Visited /\ query.dst[e] \in Visited

CappedFromFullGraph == query.edges    \* mutant: the graph is not capped

CappedEdges == included

AnalyseLineage ==
    /\ stage = "lineage" /\ Done
    /\ ask.kind \in {"scenario", "review"}
    /\ analysed' = Analysed(CappedEdges, <<Start>>)
    /\ IF Closed THEN stage' = "analysis" ELSE Fail
    /\ UNCHANGED <<vars, change, phase, reached, path, frontier, expanded, pending, findings,
                   ask, inStore, names, evidence, pack>>

AnalysisStep ==
    /\ stage = "analysis"
    /\ A!Next
    /\ UNCHANGED <<vars, reviewVars>>

-----------------------------------------------------------------------------
(* _impact_review_query_results.                                            *)

(* A scenario and a review name the objects of these findings.              *)
Affected == {f.object : f \in findings} \cap Visited

AskedNames == {ask.names[i] : i \in DOMAIN ask.names}

ImpactedQueries == (Affected \cup {Start}) \cap ask.queries

QueryNames == IF ask.impacted THEN AskedNames \cup ImpactedQueries ELSE AskedNames

(* A path that is missing is a KeyError.                                    *)
EndAnalysis ==
    /\ stage = "analysis" /\ phase \in {"done", "failed"}
    /\ stage' = IF phase = "failed" THEN "failed"
                ELSE IF ask.kind = "review" THEN "queries" ELSE "answered"
    /\ names' = IF ask.kind = "review" THEN QueryNames ELSE {}
    /\ UNCHANGED <<vars, analysisVars, ask, inStore, evidence, pack>>

Smaller(a, b) == IF a < b THEN a ELSE b

(* get_object by the id, else the first of a list of queries that mention   *)
(* the name and are called so: which queries come first in it is not told.  *)
Listed(name, S) ==
    LET found == Mentions[name] \cap ask.queries IN
    /\ S \subseteq found
    /\ Cardinality(S) = Smaller(LookupLimit, Cardinality(found))

Resolved(name, object) ==
    IF name \in Nodes THEN object = name
    ELSE \E S \in SUBSET (Mentions[name] \cap ask.queries) :
           /\ Listed(name, S)
           /\ IF S \cap Called[name] = {} THEN object = NoNode ELSE object \in S \cap Called[name]

(* The query_analysis that is stored, else a record without content.        *)
AnalysisOf(object) ==
    IF ask.analysis[object] # NoAnalysis THEN ask.analysis[object]
    ELSE [fields |-> ResultFields, providers |-> {}, limits |-> FALSE]

(* QueryAnalysisResult.model_validate; extra fields are forbidden.          *)
Validates(fields) == "query_id" \in fields /\ fields \subseteq ResultFields

MatchedFindings(objects) == objects \cap {f.object : f \in findings}

MatchedByQuery(object) == MatchedFindings({object} \cup AnalysisOf(object).providers)

QueryEvidence(object) ==
    LET matched == MatchedByQuery(object) IN
    [query |-> object, matched |-> matched,
     noted |-> \/ matched # {} \/ AnalysisOf(object).limits
               \/ ask.analysis[object] = NoAnalysis]

ReadQuery(name, object) ==
    /\ stage = "queries" /\ name \in names
    /\ inStore
    /\ Resolved(name, object)
    /\ object \in ask.queries
    /\ Validates(AnalysisOf(object).fields)
    /\ evidence' = evidence \cup {QueryEvidence(object)}
    /\ names' = names \ {name}
    /\ UNCHANGED <<vars, analysisVars, ask, stage, inStore, pack>>

SkipQuery(name) ==    \* mutant: a query that is not found is left out
    /\ stage = "queries" /\ name \in names
    /\ ~inStore
    /\ names' = names \ {name}
    /\ UNCHANGED <<vars, analysisVars, ask, stage, inStore, evidence, pack>>

QueryNotFound(name) ==
    /\ stage = "queries" /\ name \in names
    /\ ~inStore \/ \E object \in Nodes \cup {NoNode} :
                      Resolved(name, object) /\ object \notin ask.queries
    /\ Fail
    /\ UNCHANGED <<vars, analysisVars, ask, inStore, names, evidence, pack>>

QueryNotValid(name, object) ==
    /\ stage = "queries" /\ name \in names
    /\ inStore
    /\ Resolved(name, object)
    /\ object \in ask.queries
    /\ ~Validates(AnalysisOf(object).fields)
    /\ Fail
    /\ UNCHANGED <<vars, analysisVars, ask, inStore, names, evidence, pack>>

-----------------------------------------------------------------------------
(* build_impact_evidence_pack.                                              *)

FreshnessEvidence == IF ask.freshness THEN (Affected \cup {Start}) \cap ask.loaded ELSE {}

FirstOf(objects) == IF objects = {} THEN {} ELSE {CHOOSE object \in objects : TRUE}

QueryFinding(e) ==    \* the query's own finding is looked up first
    IF e.query \in e.matched THEN {e.query} ELSE FirstOf(e.matched)

Gap(source, object, finding) == [source |-> source, object |-> object, finding |-> finding]

Gaps ==
    {Gap("impact", o, {o}) : o \in IF ask.manual THEN Affected ELSE {}}
    \cup {Gap("query", e.query, QueryFinding(e)) : e \in {d \in evidence : d.noted}}
    \cup {Gap("sql", ask.views[i].id, FirstOf(MatchedFindings(ask.views[i].refs)))
            : i \in DOMAIN ask.views}
    \cup {Gap("freshness", o, {}) : o \in FreshnessEvidence}

ViewsAreGiven == \A i \in DOMAIN ask.views : ask.views[i].given

AnswerReview ==
    /\ stage = "queries" /\ names = {}
    /\ ViewsAreGiven
    /\ pack' = [queries |-> evidence, freshness |-> FreshnessEvidence, gaps |-> Gaps]
    /\ stage' = "answered"
    /\ UNCHANGED <<vars, analysisVars, ask, inStore, names, evidence>>

ViewNotGiven ==
    /\ stage = "queries" /\ names = {}
    /\ ~ViewsAreGiven
    /\ Fail
    /\ UNCHANGED <<vars, analysisVars, ask, inStore, names, evidence, pack>>

-----------------------------------------------------------------------------
Answering ==
    \/ LoadGraph \/ LineageStep \/ AnswerLineage \/ AnalyseLineage
    \/ AnalysisStep \/ EndAnalysis
    \/ \E name \in Names : QueryNotFound(name)
    \/ \E name \in Names, object \in Nodes : ReadQuery(name, object) \/ QueryNotValid(name, object)
    \/ AnswerReview \/ ViewNotGiven

ReviewNext == Answering \/ DeleteSnapshot

ReviewSpec == ReviewInit /\ [][ReviewNext]_allVars
LiveReviewSpec == ReviewSpec /\ WF_allVars(Answering)

-----------------------------------------------------------------------------
(* The properties of the analysis (ImpactAnalysis), of the graphs that the  *)
(* server runs it on: the two searches of a change find the same objects,   *)
NoMissingEvidence == A!NoMissingEvidence

(* a report names what is within reach of each change,                      *)
FindingsAreTheReach == A!FindingsAreTheReach

(* and its evidence is a shortest path.                                     *)
EvidenceIsShortestPath == A!EvidenceIsShortestPath

(* What a scenario or a review says is affected is what the lineage of the  *)
(* object under the same limits shows, and is found as far out: although    *)
(* the analysis searches the capped graph again, its evidence runs along    *)
(* edges of the lineage and is as long as the level of the object.          *)
AffectedAreTheLineage ==
    stage \in {"queries", "answered"} /\ ask.kind \in {"scenario", "review"} =>
        /\ {f.object : f \in findings} = Visited \ {Start}
        /\ \A f \in findings :
             /\ Len(f.path.edges) = level[f.object]
             /\ \A i \in DOMAIN f.path.edges : f.path.edges[i] \in included

(* A review is answered with evidence of every query that was asked for or  *)
(* is impacted, linked to the finding it belongs to, or not at all: never   *)
(* with what could be read before the snapshot was deleted.                 *)
ReviewsAreWhole ==
    stage = "answered" /\ ask.kind = "review" =>
        /\ ask.impacted => ImpactedQueries \subseteq {e.query : e \in pack.queries}
        /\ \A name \in AskedNames : \E e \in pack.queries : e.query \in Called[name]
        /\ \A e \in pack.queries : e.query \in Affected =>
             \E g \in pack.gaps : g.source = "query" /\ g.object = e.query /\ e.query \in g.finding

(* A query that was captured with its XML can be reviewed: as long as the   *)
(* snapshot is stored, the review of an object that queries are built on    *)
(* does not fail.                                                           *)
CapturedQueriesAreReviewed ==
    stage = "failed" => ~inStore \/ ~ViewsAreGiven \/ ask.names # <<>>

(* Every request is answered or refused, whatever cycles the graph has and  *)
(* whatever becomes of the snapshot.                                        *)
EveryRequestIsAnswered == <>(stage \in {"answered", "failed"})
=============================================================================

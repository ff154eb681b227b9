------------------------------- MODULE Ingest -------------------------------
(***************************************************************************)
(* ingest_manifest (src/src/bwli/store/catalog.py): the payloads of a      *)
(* captured snapshot, in the order of its manifest, are parsed and merged  *)
(* into one catalog of objects and edges. A parser collects what its       *)
(* payload tells in a catalog of its own (_MutableCatalog), which is then  *)
(* merged into that of the snapshot: what several payloads, or several     *)
(* places of one, tell of an object is merged twice over.                  *)
(*                                                                         *)
(* One step is one row of a payload or the merge of one payload. A graph   *)
(* that is not closed raises, and nothing of the snapshot is kept. told is *)
(* the history of what the parsers read, kept for the properties alone.    *)
(***************************************************************************)
EXTENDS IngestParsers

CONSTANTS Manifests      \* the sequences of payloads that are ingested

ASSUME ManifestsAssumption == Manifests \subseteq Seq(Payloads)

VARIABLES
    manifest,       \* manifest.payloads
    position,       \* the payload that is read next, or is being parsed
    phase,          \* "read", "parse", "done" or "failed"
    parsed,         \* what its parser goes through
    row,            \* the row that is added next
    localObjects, localEdges,    \* the catalog of the parser
    objects, edges,              \* the catalog of the snapshot
    told

vars == <<manifest, position, phase, parsed, row, localObjects, localEdges, objects, edges, told>>

Phases == {"read", "parse", "done", "failed"}

(* UNKNOWN_REASON_METADATA_MISSING and UNKNOWN_REASON_TYPE_UNMAPPED.        *)
Reasons == {"METADATA_MISSING", "TYPE_UNMAPPED"}

ASSUME ReasonsAssumption == None \notin Reasons

Init ==
    /\ manifest \in Manifests
    /\ position = 1 /\ phase = "read"
    /\ parsed = NothingParsed /\ row = 1
    /\ localObjects = <<>> /\ localEdges = {}
    /\ objects = <<>> /\ edges = {}
    /\ told = <<>>

-----------------------------------------------------------------------------
(* request_freshness: requests, the newest first.                           *)

Later(r, q) == r.time > q.time \/ (r.time = q.time /\ r.tsn > q.tsn)

Latest(requests) == CHOOSE r \in requests : \A q \in requests : ~Later(q, r)

LatestOf(requests) == IF requests = {} THEN {} ELSE {Latest(requests)}

(* _merge_request_records: a later record of the same request overwrites    *)
(* what it tells. The latest of each side comes once more at the end.       *)
ByPrecedence(current, incoming) ==
    <<LatestOf(incoming), LatestOf(current), incoming, current>>

FirstTelling(lists) ==
    LET n == CHOOSE m \in 1..4 : lists[m] # {} /\ \A k \in 1..m - 1 : lists[k] = {}
    IN  CHOOSE r \in lists[n] : TRUE

MergedRequest(current, incoming, tsn) ==
    LET lists == ByPrecedence(current, incoming)
        timed == [n \in 1..4 |-> {r \in lists[n] : r.tsn = tsn /\ r.time # 0}]
        rated == [n \in 1..4 |-> {r \in lists[n] : r.tsn = tsn /\ r.status # None}]
    IN [tsn    |-> tsn,
        time   |-> IF UNION {timed[n] : n \in 1..4} = {} THEN 0 ELSE FirstTelling(timed).time,
        status |-> IF UNION {rated[n] : n \in 1..4} = {} THEN None ELSE FirstTelling(rated).status]

MergeRequests(current, incoming) ==
    LET all == current \cup incoming
        Numbered == {r.tsn : r \in all} \ {0}
    IN  {r \in all : r.tsn = 0} \cup {MergedRequest(current, incoming, t) : t \in Numbered}

FreshnessOverwritten(current, incoming) ==    \* mutant: {**current, **incoming}
    IF incoming # {} THEN incoming ELSE current

MergeFreshness(current, incoming) ==
    IF current = {} THEN incoming
    ELSE IF incoming = {} THEN current
    ELSE MergeRequests(current, incoming)

-----------------------------------------------------------------------------
(* _classified_metadata: unknown_reason of an object of a type.             *)

Classified(type, reason) ==
    CASE type = "UNKNOWN"          -> OrElse(reason, "METADATA_MISSING")
      [] type \in UnmappedTypes    -> OrElse(reason, "TYPE_UNMAPPED")
      [] OTHER                     -> None

NewObject(t) ==
    [name |-> t.name, type |-> t.type, reason |-> Classified(t.type, None),
     requests |-> t.requests, evidence |-> {t.evidence}]

LastType(current, incoming) == IF incoming # "UNKNOWN" THEN incoming ELSE current    \* mutant

ResolvedType(current, incoming) == IF current # "UNKNOWN" THEN current ELSE incoming

(* add_object: what the catalog has of an object and what comes in.         *)
Merged(current, incoming) ==
    LET type == ResolvedType(current.type, incoming.type) IN
    [name     |-> OrElse(current.name, incoming.name),
     type     |-> type,
     reason   |-> Classified(type, OrElse(current.reason, incoming.reason)),
     requests |-> MergeFreshness(current.requests, incoming.requests),
     evidence |-> current.evidence \cup incoming.evidence]

KnownTypesOnly(known, t) ==    \* mutant: the ends of a reference are not added
    IF t.id = None \/ t.type = "UNKNOWN" THEN known
    ELSE [i \in DOMAIN known \cup {t.id} |-> IF i = t.id THEN NewObject(t) ELSE known[i]]

AddObject(known, t) ==
    IF t.id = None THEN known
    ELSE [i \in DOMAIN known \cup {t.id} |->
            IF i # t.id THEN known[i]
            ELSE IF i \in DOMAIN known THEN Merged(known[i], NewObject(t)) ELSE NewObject(t)]

(* add_edge: setdefault.                                                    *)
OneEdgeForEachPair(known, new) ==    \* mutant: keyed by the ends
    known \cup {e \in new : \A f \in known : <<f.source, f.target>> # <<e.source, e.target>>}

AddEdges(known, new) == known \cup {e \in new : \A f \in known : f.id # e.id}

(* merge of the catalog of a parser, which has every object once.           *)
AddObjects(known, new) ==
    [i \in DOMAIN known \cup DOMAIN new |->
        IF i \notin DOMAIN new THEN known[i]
        ELSE IF i \in DOMAIN known THEN Merged(known[i], new[i]) ELSE new[i]]

-----------------------------------------------------------------------------
Payload == manifest[position]

NewTold(t) == IF t.id = None THEN told ELSE Append(told, t)

ReadPayload ==
    /\ phase = "read" /\ position <= Len(manifest)
    /\ Payload.kind = "graph" => ValidGraph(Payload)
    /\ parsed' = ParsePayload(Payload)
    /\ row' = 1
    /\ localObjects' = AddObject(<<>>, parsed'.head)
    /\ localEdges' = {}
    /\ told' = NewTold(parsed'.head)
    /\ phase' = "parse"
    /\ UNCHANGED <<manifest, position, objects, edges>>

RejectPayload ==
    /\ phase = "read" /\ position <= Len(manifest)
    /\ Payload.kind = "graph" /\ ~ValidGraph(Payload)
    /\ phase' = "failed"
    /\ UNCHANGED <<manifest, position, parsed, row, localObjects, localEdges, objects, edges, told>>

AddRow ==
    /\ phase = "parse" /\ row <= Len(parsed.rows)
    /\ LET r == parsed.rows[row] IN
         /\ localObjects' = AddObject(AddObject(localObjects, r.first), r.second)
         /\ localEdges' = AddEdges(localEdges, r.edges)
         /\ told' = IF r.second.id = None THEN NewTold(r.first) ELSE told \o <<r.first, r.second>>
    /\ row' = row + 1
    /\ UNCHANGED <<manifest, position, phase, parsed, objects, edges>>

MergePayload ==
    /\ phase = "parse" /\ row > Len(parsed.rows)
    /\ objects' = AddObjects(objects, localObjects)
    /\ edges' = AddEdges(edges, AddEdges(localEdges, parsed.links))
    /\ position' = position + 1
    /\ phase' = "read"
    /\ UNCHANGED <<manifest, parsed, row, localObjects, localEdges, told>>

Finish ==
    /\ phase = "read" /\ position > Len(manifest)
    /\ phase' = "done"
    /\ UNCHANGED <<manifest, position, parsed, row, localObjects, localEdges, objects, edges, told>>

Next == ReadPayload \/ RejectPayload \/ AddRow \/ MergePayload \/ Finish

Spec == Init /\ [][Next]_vars

-----------------------------------------------------------------------------
(* The catalog is closed: both ends of every edge are objects, whatever     *)
(* order the payloads come in and however little each of them tells. The    *)
(* graph of a snapshot is validated whenever it is loaded (graph.py         *)
(* 119-135), so one loose edge would make the whole snapshot unreadable.    *)
EdgesJoinObjects ==
    \A e \in edges : e.source \in DOMAIN objects /\ e.target \in DOMAIN objects

EdgesOf(p) == p.links \cup UNION {p.rows[i].edges : i \in DOMAIN p.rows}

(* No edge that a payload tells is lost to an earlier one, and none is made *)
(* up: edges are kept by their id (setdefault), which is made of the        *)
(* payload's id and a place in it.                                          *)
NoEdgeIsLost ==
    phase = "read" => edges = UNION {EdgesOf(ParsePayload(manifest[n])) : n \in 1..position - 1}

ToldOf(id) == {n \in DOMAIN told : told[n].id = id}
FirstOf(S) == CHOOSE n \in S : \A m \in S : n <= m

(* After every payload the catalog tells what merging all that was told in  *)
(* one go would: each object that was named, with the first type that is    *)
(* known, the first name and all of the evidence.                           *)
CatalogIsWhatWasTold ==
    phase = "read" =>
        /\ DOMAIN objects = {told[n].id : n \in DOMAIN told}
        /\ \A id \in DOMAIN objects :
             LET typed == {n \in ToldOf(id) : told[n].type # "UNKNOWN"}
                 named == {n \in ToldOf(id) : told[n].name # None}
             IN /\ objects[id].type = IF typed = {} THEN "UNKNOWN" ELSE told[FirstOf(typed)].type
                /\ objects[id].name = IF named = {} THEN None ELSE told[FirstOf(named)].name
                /\ objects[id].evidence = {told[n].evidence : n \in ToldOf(id)}

(* An object says why it is unknown exactly when it has no layer.           *)
UnknownsSayWhy ==
    \A id \in DOMAIN objects : objects[id].reason = None <=> objects[id].type \in LayeredTypes

RequestsTold(id) == UNION {told[n].requests : n \in ToldOf(id)}
Redated(id, tsn) == \E r, q \in RequestsTold(id) : r.tsn = tsn /\ q.tsn = tsn /\ r.time # q.time

(* Merging the requests of an object from several payloads loses none, tells*)
(* each once, and the latest is not older than any request whose time all   *)
(* payloads agree on.                                                       *)
FreshnessIsKept ==
    phase = "read" => \A id \in DOMAIN objects :
        LET kept == objects[id].requests IN
        /\ {r.tsn : r \in kept} = {r.tsn : r \in RequestsTold(id)}
        /\ \A r, q \in kept : r.tsn = q.tsn /\ r.tsn # 0 => r = q
        /\ \A r \in RequestsTold(id) :
             ~Redated(id, r.tsn) => Latest(kept).time >= r.time
=============================================================================

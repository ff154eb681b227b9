---------------------------- MODULE IngestParsers ----------------------------
(***************************************************************************)
(* The parsers of captured payloads (_ingest_payload and what it calls,    *)
(* src/src/bwli/store/catalog.py; dataflow.py): what each kind of payload  *)
(* tells of the objects and edges of the catalog.                          *)
(*                                                                         *)
(* The result of a parser is the object it is about (head), the rows its   *)
(* loop goes through, each with the objects and the edge it adds, and the  *)
(* edges added after the loop (links). A row that the loop skips is empty. *)
(*                                                                         *)
(* A payload is given by what the parser reads: under which of several     *)
(* attributes a name is found, and what is in the source of a payload when *)
(* the payload does not say it, is not told apart. Not covered: labels,    *)
(* metadata other than unknown_reason and request_freshness.               *)
(***************************************************************************)
EXTENDS Integers, FiniteSets, Sequences

CONSTANTS Names,          \* technical names and texts
          None,           \* what is absent
          UnmappedTypes,  \* object types without a layer
          PayloadIds

(* _LAYER_BY_NORMALIZED_TYPE of layers.py, as far as the parsers name them. *)
LayeredTypes == {"LSYS", "RSDS", "ADSO", "HCPR", "TRFN", "DTPA", "QUERY", "QUERY_VARIABLE",
                 "CKF", "RKF", "LOCAL_MEMBER", "RSPC"}

Types == LayeredTypes \cup UnmappedTypes \cup {"UNKNOWN"}

INSTANCE QueryAnalysis

(* Objects have the names BW gives them, or one made up by the parsers for a *)
(* query, a shape of a dataflow or a step of a chain that has none.          *)
MadeUpShapes == {"dataflow-node"} \X Names
MadeUpSteps == {"step"} \X Names \X Nat
Ids == Names \cup {UnknownQuery} \cup MadeUpShapes \cup MadeUpSteps

ASSUME IngestAssumption ==
    /\ None \notin Ids
    /\ "PROCESS" \in UnmappedTypes
    /\ UnmappedTypes \cap LayeredTypes = {} /\ "UNKNOWN" \notin UnmappedTypes

Optional(S) == S \cup {None}
OrElse(value, default) == IF value = None THEN default ELSE value

(* A request of request_freshness, by its number and timestamp, each 0 when *)
(* the payload does not tell it.                                            *)
Request == [tsn : Nat, time : Nat, status : Optional(Names)]

-----------------------------------------------------------------------------
(* Payloads by their kind.                                                  *)

GraphPayload ==
    [id : PayloadIds, kind : {"graph"},
     nodes : Seq([id : Names, type : Types, name : Optional(Names)]),
     edges : SUBSET [id : Names, source : Names, target : Names, type : {"dataflow"}]]

DataflowPayload ==
    [id : PayloadIds, kind : {"dataflow"},
     nodes : Seq([number : Optional(Names), name : Optional(Names), description : Optional(Names),
                  type : Optional(Types), sources : SUBSET Names, targets : SUBSET Names])]

ChainPayload ==
    [id : PayloadIds, kind : {"chain"}, chain : Optional(Names), name : Optional(Names),
     steps : Seq([variant : Optional(Names), type : Optional(Types), name : Optional(Names)]),
     sequence : SUBSET (Int \X Int)]

ObjectPayload ==
    [id : PayloadIds, kind : {"variant", "datasource", "adso", "source_system"},
     object : Optional(Names), type : Optional(Types), name : Optional(Names)]

DtpPayload ==
    [id : PayloadIds, kind : {"dtp"}, dtp : Optional(Names), name : Optional(Names),
     source : Optional(Names), sourceType : Optional(Types),
     target : Optional(Names), targetType : Optional(Types), transformation : Optional(Names)]

CompositePayload ==
    [id : PayloadIds, kind : {"composite"}, hcpr : Optional(Names), name : Optional(Names),
     inputs : Seq([id : Optional(Names), type : Optional(Types)])]

QueryPayload == [id : PayloadIds, kind : {"query"}, document : Document]

RequestsPayload ==
    [id : PayloadIds, kind : {"requests"}, target : Optional(Names), type : Optional(Types),
     requests : SUBSET Request]

SearchPayload ==
    [id : PayloadIds, kind : {"search"}, xml : BOOLEAN,
     hits : Seq([id : Optional(Names), type : Optional(Types), name : Optional(Names)])]

ReferencesPayload ==
    [id : PayloadIds, kind : {"xref"}, xml : BOOLEAN, requested : Optional(Names),
     direction : {"upstream", "downstream"},
     references : Seq([from : Optional(Names), to : Optional(Names), related : Optional(Names),
                       type : Optional(Types), name : Optional(Names)])]

UnreadPayload == [id : PayloadIds, kind : {"other"}]

Payloads ==
    GraphPayload \cup DataflowPayload \cup ChainPayload \cup ObjectPayload \cup DtpPayload
    \cup CompositePayload \cup QueryPayload \cup RequestsPayload \cup SearchPayload
    \cup ReferencesPayload \cup UnreadPayload

-----------------------------------------------------------------------------
(* What parsers build.                                                      *)

Told(payload, tag, index, id, type, name) ==
    [id |-> id, type |-> type, name |-> name, requests |-> {},
     evidence |-> <<payload, tag, index>>]

Nothing == Told(None, "nothing", 0, None, "UNKNOWN", None)

Edge(id, source, target, type) ==
    [id |-> id, source |-> source, target |-> target, type |-> type]

Row(first, second, edges) == [first |-> first, second |-> second, edges |-> edges]
ObjectRow(object) == Row(object, Nothing, {})
EmptyRow == ObjectRow(Nothing)

Parsed(head, rows, links) == [head |-> head, rows |-> rows, links |-> links]
NothingParsed == Parsed(Nothing, <<>>, {})

-----------------------------------------------------------------------------
(* A graph in JSON: BwGraph.from_payload raises unless it is closed.        *)

ValidGraph(p) ==
    /\ \A i, j \in DOMAIN p.nodes : p.nodes[i].id = p.nodes[j].id => i = j
    /\ \A e, f \in p.edges : e.id = f.id => e = f
    /\ \A e \in p.edges : \E i, j \in DOMAIN p.nodes :
          p.nodes[i].id = e.source /\ p.nodes[j].id = e.target

ParseGraph(p) ==
    Parsed(Nothing,
           [i \in DOMAIN p.nodes |-> LET n == p.nodes[i] IN
               ObjectRow(Told(p.id, "node", i, n.id, n.type, n.name))],
           {Edge(e.id, e.source, e.target, e.type) : e \in p.edges})

(* Dataflow XML. The nodes come in the order of their numbers; one without  *)
(* is dropped. The references of a node count when a node has that number,  *)
(* and mean the last one that has.                                          *)

KnownNumbers(p) == {p.nodes[i].number : i \in DOMAIN p.nodes} \ {None}

LastNumbered(p, n) == CHOOSE i \in DOMAIN p.nodes :
    p.nodes[i].number = n /\ \A j \in DOMAIN p.nodes : p.nodes[j].number = n => j <= i

DataflowName(node) == OrElse(node.name, <<"dataflow-node", node.number>>)

DataflowPairs(p) ==
    LET Drawn == {i \in DOMAIN p.nodes : p.nodes[i].number # None} IN
    (UNION {(p.nodes[i].sources \cap KnownNumbers(p)) \X {p.nodes[i].number} : i \in Drawn})
    \cup (UNION {{p.nodes[i].number} \X (p.nodes[i].targets \cap KnownNumbers(p)) : i \in Drawn})

ParseDataflow(p) ==
    LET NameOf(n) == DataflowName(p.nodes[LastNumbered(p, n)]) IN
    Parsed(Nothing,
           [i \in DOMAIN p.nodes |-> LET n == p.nodes[i] IN
               IF n.number = None THEN EmptyRow
               ELSE ObjectRow(Told(p.id, "dataflow-node", i, DataflowName(n),
                                   OrElse(n.type, "UNKNOWN"), OrElse(n.description, n.name)))],
           {Edge(<<p.id, "dataflow", NameOf(l[1]), NameOf(l[2])>>, NameOf(l[1]), NameOf(l[2]),
                 "dataflow") : l \in DataflowPairs(p)})

-----------------------------------------------------------------------------
(* JSON of process chains. Steps are numbered from 0 by BW.                 *)

StepName(p, i) == OrElse(p.steps[i].variant, <<"step", p.chain, i>>)

SequenceLinks(p) ==
    {l \in p.sequence : l[1] \in 0..Len(p.steps) - 1 /\ l[2] \in 0..Len(p.steps) - 1}

ParseChain(p) ==
    IF p.chain = None THEN NothingParsed
    ELSE Parsed(Told(p.id, "process-chain", 0, p.chain, "RSPC", p.name),
                [i \in DOMAIN p.steps |->
                    Row(Told(p.id, "process-chain-node", i, StepName(p, i),
                             OrElse(p.steps[i].type, "PROCESS"), p.steps[i].name),
                        Nothing,
                        {Edge(<<p.id, "contains", p.chain, StepName(p, i)>>,
                              p.chain, StepName(p, i), "contains")})],
                {Edge(<<p.id, "sequence", l[1], l[2]>>,
                      StepName(p, l[1] + 1), StepName(p, l[2] + 1), "sequence")
                    : l \in SequenceLinks(p)})

(* Payloads about one object: process variants, data sources, ADSOs, source *)
(* systems. XML that cannot be read names no object.                        *)

ParseObject(p, type) ==
    IF p.object = None THEN NothingParsed
    ELSE Parsed(Told(p.id, type, 0, p.object, type, p.name), <<>>, {})

ParseVariant(p) == ParseObject(p, OrElse(p.type, "PROCESS"))
ParseDatasource(p) == ParseObject(p, "RSDS")
ParseAdso(p) == ParseObject(p, "ADSO")
ParseSourceSystem(p) == ParseObject(p, "LSYS")

(* A data transfer process with its source, target and transformation.      *)

DtpRow(p, tag, id, type, name, source, target, edgeType) ==
    IF id = None THEN EmptyRow
    ELSE Row(Told(p.id, "dtp", 0, id, type, name), Nothing,
             {Edge(<<p.id, tag, source, target>>, source, target, edgeType)})

ParseDtp(p) ==
    IF p.dtp = None THEN NothingParsed
    ELSE Parsed(Told(p.id, "dtp", 0, p.dtp, "DTPA", p.name),
                <<DtpRow(p, "dtp-source", p.source, OrElse(p.sourceType, "UNKNOWN"), None,
                         p.source, p.dtp, "dataflow"),
                  DtpRow(p, "dtp-target", p.target, OrElse(p.targetType, "UNKNOWN"), None,
                         p.dtp, p.target, "dataflow"),
                  DtpRow(p, "dtp-transformation", p.transformation, "TRFN", p.name,
                         p.dtp, p.transformation, "uses_transformation")>>,
                {})

(* A composite provider and the providers it is built from.                 *)

ParseComposite(p) ==
    IF p.hcpr = None THEN NothingParsed
    ELSE Parsed(Told(p.id, "hcpr", 0, p.hcpr, "HCPR", p.name),
                [i \in DOMAIN p.inputs |-> LET input == p.inputs[i] IN
                    IF input.id = None THEN EmptyRow
                    ELSE Row(Told(p.id, "hcpr-input", i, input.id, OrElse(input.type, "UNKNOWN"),
                                  None),
                             Nothing,
                             {Edge(<<p.id, "hcpr-input", i>>, input.id, p.hcpr,
                                   "composite_input")})],
                {})

-----------------------------------------------------------------------------
(* The XML of a query: the query, then its providers, variables, calculated *)
(* and restricted key figures and local members, each with an edge to it.   *)

ComponentRows(p, query, S, tag, type, edgeType) ==
    [i \in DOMAIN p.document.elements |-> LET name == p.document.elements[i].name IN
        IF i \notin S THEN EmptyRow
        ELSE Row(Told(p.id, tag, i, name, type, None), Nothing,
                 {Edge(<<p.id, tag, name>>, name, query, edgeType)})]

ProviderRows(p, query, S) ==
    [i \in DOMAIN p.document.elements |-> LET ref == ProviderOf(p.document.elements[i]) IN
        IF i \notin S THEN EmptyRow
        ELSE Row(Told(p.id, "query-provider", i, ref.id, ref.type, None), Nothing,
                 {Edge(<<p.id, "query-provider", i>>, ref.id, query, "provides")})]

ParseQueryPayload(p) ==
    IF Unparseable(p.document) THEN NothingParsed
    ELSE LET result == ParseQuery(p.document)
             id == result.query
         IN Parsed(Told(p.id, "query", 0, id, "QUERY", None),
                   ProviderRows(p, id, result.providers)
                     \o ComponentRows(p, id, result.variables, "variable", "QUERY_VARIABLE",
                                      "query_variable")
                     \o ComponentRows(p, id, result.calculated, "ckf", "CKF", "query_component")
                     \o ComponentRows(p, id, result.restricted, "rkf", "RKF", "query_component")
                     \o ComponentRows(p, id, result.members, "member", "LOCAL_MEMBER",
                                      "query_component"),
                   {})

-----------------------------------------------------------------------------
(* The requests of a target: a list of them, or the details of one.         *)

ParseRequests(p) ==
    IF p.target = None THEN NothingParsed
    ELSE Parsed([Told(p.id, "requests", 0, p.target, OrElse(p.type, "UNKNOWN"), None)
                    EXCEPT !.requests = p.requests], <<>>, {})

(* Search results: the XML parser keeps the first hit of each object, the   *)
(* JSON parser merges them.                                                 *)

HitRow(p, i) == LET hit == p.hits[i] IN
    IF hit.id = None THEN EmptyRow
    ELSE ObjectRow(Told(p.id, "search", i, hit.id, OrElse(hit.type, "UNKNOWN"), hit.name))

ParseSearch(p) ==
    Parsed(Nothing,
           [i \in DOMAIN p.hits |->
               IF p.xml /\ \E j \in 1..i - 1 : p.hits[j].id = p.hits[i].id
               THEN EmptyRow ELSE HitRow(p, i)],
           {})

(* Cross references. An entry of the XML that does not name both ends names *)
(* an object related to the one that was asked for.                         *)

ReferenceRow(p, i, source, target) ==
    Row(source, target, {Edge(<<p.id, "xref", i>>, source.id, target.id, "xref")})

ReferenceEnd(p, i, id, type, name) == Told(p.id, "xref", i, id, type, name)
UntypedEnd(p, i, id) == ReferenceEnd(p, i, id, "UNKNOWN", None)

RelatedRow(p, i, r) ==
    LET related == ReferenceEnd(p, i, r.related, OrElse(r.type, "UNKNOWN"), r.name) IN
    IF r.related = None \/ p.requested = None THEN EmptyRow
    ELSE IF p.direction = "upstream"
         THEN ReferenceRow(p, i, related, UntypedEnd(p, i, p.requested))
         ELSE ReferenceRow(p, i, UntypedEnd(p, i, p.requested), related)

ParseReferences(p) ==
    Parsed(Nothing,
           [i \in DOMAIN p.references |-> LET r == p.references[i] IN
               IF r.from # None /\ r.to # None
               THEN ReferenceRow(p, i, UntypedEnd(p, i, r.from), UntypedEnd(p, i, r.to))
               ELSE IF p.xml THEN RelatedRow(p, i, r)
               ELSE EmptyRow],
           {})

(* _ingest_payload: the parser of a payload; of another kind nothing is     *)
(* read.                                                                    *)
ParsePayload(p) ==
    CASE p.kind = "graph"         -> ParseGraph(p)
      [] p.kind = "dataflow"      -> ParseDataflow(p)
      [] p.kind = "chain"         -> ParseChain(p)
      [] p.kind = "variant"       -> ParseVariant(p)
      [] p.kind = "datasource"    -> ParseDatasource(p)
      [] p.kind = "adso"          -> ParseAdso(p)
      [] p.kind = "source_system" -> ParseSourceSystem(p)
      [] p.kind = "dtp"           -> ParseDtp(p)
      [] p.kind = "composite"     -> ParseComposite(p)
      [] p.kind = "query"         -> ParseQueryPayload(p)
      [] p.kind = "requests"      -> ParseRequests(p)
      [] p.kind = "search"        -> ParseSearch(p)
      [] p.kind = "xref"          -> ParseReferences(p)
      [] OTHER                    -> NothingParsed
=============================================================================

---------------------------- MODULE IngestProofs ----------------------------
(***************************************************************************)
(* The catalog of a snapshot is closed whatever payloads were captured.    *)
(* The parsers are closed on their own: what a row of a payload joins is   *)
(* what the payload is about or what the row adds, and what is joined at   *)
(* the end is named by a row. Merging keeps the objects there are.         *)
(*                                                                         *)
(* Then what the catalog tells. After every payload it is what was told, in *)
(* the order it was told: for its objects (CatalogIsTold), for the requests *)
(* of an object (FreshnessIsAlwaysKept), for the edges (NoEdgeIsEverLost).  *)
(* In the middle of a payload the catalog of the snapshot tells of a first  *)
(* part of what was told, and that of the parser of the rest.               *)
(***************************************************************************)
EXTENDS Ingest, FiniteSetTheorems, WellFoundedInduction, TLAPS

(* An object that a row tells: only the head of a payload tells requests.   *)
Plain(t) == t.type \in Types /\ t.requests = {}

ClosedRow(h, r) ==
    /\ Plain(r.first) /\ Plain(r.second)
    /\ r.second.id # None => r.first.id # None
    /\ \A e \in r.edges : {e.source, e.target} \subseteq {h, r.first.id, r.second.id} \ {None}

ClosedRows(h, rows) ==
    /\ rows \in Seq({rows[i] : i \in DOMAIN rows})
    /\ \A i \in DOMAIN rows : ClosedRow(h, rows[i])

Named(rows) == {rows[i].first.id : i \in DOMAIN rows} \ {None}

ClosedParse(r) ==
    /\ r.head.type \in Types
    /\ ClosedRows(r.head.id, r.rows)
    /\ \A e \in r.links : {e.source, e.target} \subseteq Named(r.rows)

-----------------------------------------------------------------------------
(* Rows and their sequences.                                                *)

LEMMA EntriesOf ==
    ASSUME NEW S, NEW s \in Seq(S)
    PROVE  \A i \in DOMAIN s : s[i] \in S
  OBVIOUS

(* Every entry of a list gives one row.                                     *)
LEMMA RowsOfList ==
    ASSUME NEW S, NEW s \in Seq(S), NEW h, NEW f,
           f = [i \in DOMAIN s |-> f[i]],
           \A i \in DOMAIN s : ClosedRow(h, f[i])
    PROVE  ClosedRows(h, f) /\ DOMAIN f = DOMAIN s
<1> DEFINE R == {f[i] : i \in DOMAIN f}
<1>1. DOMAIN f = DOMAIN s
  OBVIOUS
<1>2. Len(s) \in Nat /\ DOMAIN s = 1..Len(s)
  OBVIOUS
<1>3. f \in [1..Len(s) -> R]
  BY <1>1, <1>2
<1>4. f \in Seq(R)
  BY <1>2, <1>3
<1> QED
  BY <1>1, <1>4 DEF ClosedRows

(* Two lists of rows one after the other.                                   *)
LEMMA RowsOfBoth ==
    ASSUME NEW h, NEW f, NEW g, ClosedRows(h, f), ClosedRows(h, g)
    PROVE  ClosedRows(h, f \o g)
<1> DEFINE R == {f[i] : i \in DOMAIN f} \cup {g[i] : i \in DOMAIN g}
           fg == f \o g
<1>1. f \in Seq(R) /\ g \in Seq(R)
  <2>1. f \in Seq({f[i] : i \in DOMAIN f}) /\ g \in Seq({g[i] : i \in DOMAIN g})
    BY DEF ClosedRows
  <2>2. \A A, B : A \subseteq B => Seq(A) \subseteq Seq(B)
    OBVIOUS
  <2> QED
    BY <2>1, <2>2
<1>2. \A x \in R : ClosedRow(h, x)
  BY DEF ClosedRows
<1>3. fg \in Seq(R)
  BY <1>1
<1> HIDE DEF R, fg
<1>4. \A i \in DOMAIN fg : fg[i] \in R
  BY <1>3
<1>5. fg \in Seq({fg[i] : i \in DOMAIN fg})
  <2>1. Len(fg) \in Nat /\ fg \in [1..Len(fg) -> R] /\ DOMAIN fg = 1..Len(fg)
    BY <1>3
  <2>2. fg \in [1..Len(fg) -> {fg[i] : i \in DOMAIN fg}]
    BY <2>1
  <2> QED
    BY <2>1, <2>2
<1>6. ClosedRows(h, fg)
  BY <1>2, <1>4, <1>5 DEF ClosedRows
<1> QED
  BY <1>6 DEF fg

LEMMA NoRows == \A h : ClosedRows(h, <<>>)
  BY DEF ClosedRows

(* What parsers tell, in the terms of its parts.                            *)
LEMMA ToldParts ==
    ASSUME NEW p, NEW tag, NEW n, NEW id, NEW type, NEW name
    PROVE  /\ Told(p, tag, n, id, type, name).id = id
           /\ Told(p, tag, n, id, type, name).type = type
           /\ Told(p, tag, n, id, type, name).requests = {}
           /\ type \in Types => Plain(Told(p, tag, n, id, type, name))
  BY DEF Told, Plain

LEMMA EmptyIsClosed == \A h : ClosedRow(h, EmptyRow)
  BY DEF Plain, ClosedRow, EmptyRow, ObjectRow, Row, Nothing, Told, Types

LEMMA NothingIsClosed == ClosedParse(NothingParsed)
  BY NoRows DEF ClosedParse, NothingParsed, Parsed, Nothing, Told, Types

LEMMA ObjectRowIsClosed ==
    ASSUME NEW h, NEW t, Plain(t)
    PROVE  ClosedRow(h, ObjectRow(t)) /\ ObjectRow(t).first = t
  BY DEF Plain, ClosedRow, ObjectRow, Row, Nothing, Told, Types

(* A row of an object with an edge between it and what the payload is about.*)
LEMMA JoinedRowIsClosed ==
    ASSUME NEW h, NEW t, NEW e, Plain(t), h # None, t.id # None,
           e.source \in {h, t.id}, e.target \in {h, t.id}
    PROVE  ClosedRow(h, Row(t, Nothing, {e}))
  BY DEF Plain, ClosedRow, Row, Nothing, Told, Types

LEMMA EdgeParts ==
    ASSUME NEW id, NEW source, NEW target, NEW type
    PROVE  /\ Edge(id, source, target, type).source = source
           /\ Edge(id, source, target, type).target = target
  BY DEF Edge

LEMMA KnownTypes ==
    /\ \A t \in Optional(Types) : OrElse(t, "UNKNOWN") \in Types
    /\ \A t \in Optional(Types) : OrElse(t, "PROCESS") \in Types
    /\ LayeredTypes \subseteq Types /\ "UNKNOWN" \in Types /\ "PROCESS" \in Types
  BY IngestAssumption DEF Optional, OrElse, Types

LEMMA ParsedParts ==
    ASSUME NEW head, NEW rows, NEW links
    PROVE  /\ Parsed(head, rows, links).head = head
           /\ Parsed(head, rows, links).rows = rows
           /\ Parsed(head, rows, links).links = links
  BY DEF Parsed

(* A parse without links is closed when its rows are.                       *)
LEMMA ParseWithoutLinks ==
    ASSUME NEW t, NEW rows, t.type \in Types, ClosedRows(t.id, rows)
    PROVE  ClosedParse(Parsed(t, rows, {}))
  BY ParsedParts DEF ClosedParse

-----------------------------------------------------------------------------
(* The parsers.                                                             *)

LEMMA GraphIsClosed ==
    ASSUME NEW p \in GraphPayload, ValidGraph(p)
    PROVE  ClosedParse(ParseGraph(p))
<1> DEFINE T(i) == Told(p.id, "node", i, p.nodes[i].id, p.nodes[i].type, p.nodes[i].name)
           rows == [i \in DOMAIN p.nodes |-> ObjectRow(T(i))]
           links == {Edge(e.id, e.source, e.target, e.type) : e \in p.edges}
<1>1. p.nodes \in Seq([id : Names, type : Types, name : Optional(Names)])
  BY DEF GraphPayload
<1>2. \A i \in DOMAIN p.nodes : p.nodes[i].id \in Names /\ p.nodes[i].type \in Types
  <2>1. \A i \in DOMAIN p.nodes :
          p.nodes[i] \in [id : Names, type : Types, name : Optional(Names)]
    BY <1>1, EntriesOf, Zenon
  <2> QED
    BY ONLY <2>1
<1>3. \A i \in DOMAIN p.nodes : Plain(T(i)) /\ T(i).id = p.nodes[i].id
  BY <1>2, ToldParts
<1>4. \A i \in DOMAIN p.nodes : ClosedRow(None, rows[i]) /\ rows[i].first = T(i)
  BY <1>3, ObjectRowIsClosed
<1>5. rows = [i \in DOMAIN p.nodes |-> rows[i]]
  OBVIOUS
<1> HIDE DEF rows
<1>6. ClosedRows(None, rows) /\ DOMAIN rows = DOMAIN p.nodes
  BY <1>1, <1>4, <1>5, RowsOfList
<1>7. \A i \in DOMAIN p.nodes : p.nodes[i].id \in Named(rows)
  BY <1>2, <1>3, <1>4, <1>6, IngestAssumption DEF Named, Ids
<1>8. \A e \in links : {e.source, e.target} \subseteq Named(rows)
  BY <1>7, EdgeParts DEF ValidGraph
<1>9. Nothing.type \in Types /\ Nothing.id = None
  BY KnownTypes DEF Nothing, Told
<1>10. ParseGraph(p) = Parsed(Nothing, rows, links)
  BY DEF ParseGraph, rows
<1> HIDE DEF links
<1> QED
  BY <1>6, <1>8, <1>9, <1>10, ParsedParts DEF ClosedParse

LEMMA SmallestOf ==
    ASSUME NEW S, S \subseteq Nat, S # {}
    PROVE  \E n \in S : \A m \in S : n <= m
<1> DEFINE R == OpToRel(<, Nat)
<1>1. IsWellFoundedOn(R, Nat)
  BY NatLessThanWellFounded
<1>2. \A x, y \in Nat : x < y => <<x, y>> \in R
  BY DEF OpToRel
<1> HIDE DEF R
<1>3. PICK n \in S : \A m \in S : ~ (<<m, n>> \in R)
  BY <1>1, WFMin, Zenon
<1>4. \A m \in S : ~ (m < n)
  BY <1>2, <1>3
<1> QED
  BY <1>4

(* Of the shapes with a number the last one is found.                       *)
LEMMA LastNumberedIsThere ==
    ASSUME NEW p, NEW S, p.nodes \in Seq(S), NEW n \in KnownNumbers(p)
    PROVE  LastNumbered(p, n) \in DOMAIN p.nodes /\ p.nodes[LastNumbered(p, n)].number = n
<1> DEFINE L == Len(p.nodes)
           D == DOMAIN p.nodes
           Distances == {L - i : i \in {j \in D : p.nodes[j].number = n}}
<1>1. L \in Nat /\ D = 1..L
  OBVIOUS
<1>2. Distances \subseteq Nat
  BY <1>1
<1>3. Distances # {}
  BY DEF KnownNumbers
<1>4. PICK d \in Distances : \A m \in Distances : d <= m
  BY <1>2, <1>3, SmallestOf, Zenon
<1>5. PICK i \in D : p.nodes[i].number = n /\ d = L - i
  OBVIOUS
<1>6. \A j \in D : p.nodes[j].number = n => j <= i
  <2>1. SUFFICES ASSUME NEW j \in D, p.nodes[j].number = n
                 PROVE  j <= i
    OBVIOUS
  <2>2. L - j \in Distances
    BY <2>1
  <2>3. L - i <= L - j
    BY <1>4, <1>5, <2>2
  <2>4. i \in Int /\ j \in Int /\ L \in Int
    BY <1>1, <1>5, <2>1
  <2> HIDE DEF L, D
  <2> QED
    BY <2>3, <2>4
<1>7. \E k \in D : p.nodes[k].number = n /\ \A j \in D : p.nodes[j].number = n => j <= k
  BY <1>5, <1>6
<1> QED
  BY <1>7, Zenon DEF LastNumbered

LEMMA DataflowIsClosed ==
    ASSUME NEW p \in DataflowPayload
    PROVE  ClosedParse(ParseDataflow(p))
<1> DEFINE Numbered == {i \in DOMAIN p.nodes : p.nodes[i].number # None}
           T(i) == Told(p.id, "dataflow-node", i, DataflowName(p.nodes[i]),
                        OrElse(p.nodes[i].type, "UNKNOWN"),
                        OrElse(p.nodes[i].description, p.nodes[i].name))
           rows == [i \in DOMAIN p.nodes |->
                       IF p.nodes[i].number = None THEN EmptyRow ELSE ObjectRow(T(i))]
           NameOf(n) == DataflowName(p.nodes[LastNumbered(p, n)])
           links == {Edge(<<p.id, "dataflow", NameOf(l[1]), NameOf(l[2])>>,
                          NameOf(l[1]), NameOf(l[2]), "dataflow") : l \in DataflowPairs(p)}
           S == [number : Optional(Names), name : Optional(Names), description : Optional(Names),
                 type : Optional(Types), sources : SUBSET Names, targets : SUBSET Names]
<1>1. p.nodes \in Seq(S)
  BY DEF DataflowPayload
<1>2. \A i \in DOMAIN p.nodes : p.nodes[i] \in S
  BY <1>1, EntriesOf, Zenon
<1>3. \A i \in Numbered : DataflowName(p.nodes[i]) # None
  <2>1. SUFFICES ASSUME NEW i \in Numbered
                 PROVE  DataflowName(p.nodes[i]) # None
    OBVIOUS
  <2>2. CASE p.nodes[i].name # None
    BY <2>2 DEF DataflowName, OrElse
  <2>3. CASE p.nodes[i].name = None
    <3>1. p.nodes[i].number \in Names
      BY <1>2, <2>1 DEF Optional
    <3>2. <<"dataflow-node", p.nodes[i].number>> \in Ids
      BY <3>1 DEF Ids, MadeUpShapes
    <3> QED
      BY <2>3, <3>2, IngestAssumption DEF DataflowName, OrElse
  <2> QED
    BY <2>2, <2>3
<1>4. \A i \in DOMAIN p.nodes : Plain(T(i)) /\ T(i).id = DataflowName(p.nodes[i])
  BY <1>2, KnownTypes, ToldParts
<1>5. \A i \in DOMAIN p.nodes :
        /\ ClosedRow(None, rows[i])
        /\ i \in Numbered => rows[i].first = T(i)
  BY <1>4, ObjectRowIsClosed, EmptyIsClosed
<1>6. rows = [i \in DOMAIN p.nodes |-> rows[i]]
  OBVIOUS
<1> HIDE DEF rows, S
<1>7. ClosedRows(None, rows) /\ DOMAIN rows = DOMAIN p.nodes
  BY <1>1, <1>5, <1>6, RowsOfList
<1>8. \A i \in Numbered : DataflowName(p.nodes[i]) \in Named(rows)
  BY <1>3, <1>4, <1>5, <1>7 DEF Named
<1>9. \A n \in KnownNumbers(p) : NameOf(n) \in Named(rows)
  <2>1. SUFFICES ASSUME NEW n \in KnownNumbers(p)
                 PROVE  NameOf(n) \in Named(rows)
    OBVIOUS
  <2>2. LastNumbered(p, n) \in DOMAIN p.nodes /\ p.nodes[LastNumbered(p, n)].number = n
    BY <1>1, LastNumberedIsThere
  <2>3. n # None
    BY DEF KnownNumbers
  <2> QED
    BY <1>8, <2>2, <2>3
<1>10. \A l \in DataflowPairs(p) : l[1] \in KnownNumbers(p) /\ l[2] \in KnownNumbers(p)
  BY DEF DataflowPairs, KnownNumbers
<1>11. \A e \in links : {e.source, e.target} \subseteq Named(rows)
  <2>1. SUFFICES ASSUME NEW l \in DataflowPairs(p), NEW e,
                        e = Edge(<<p.id, "dataflow", NameOf(l[1]), NameOf(l[2])>>,
                                 NameOf(l[1]), NameOf(l[2]), "dataflow")
                 PROVE  {e.source, e.target} \subseteq Named(rows)
    OBVIOUS
  <2>2. e.source = NameOf(l[1]) /\ e.target = NameOf(l[2])
    BY ONLY <2>1 DEF Edge
  <2>3. NameOf(l[1]) \in Named(rows) /\ NameOf(l[2]) \in Named(rows)
    BY <1>9, <1>10, <2>1
  <2> QED
    BY ONLY <2>2, <2>3
<1>12. Nothing.type \in Types /\ Nothing.id = None
  BY KnownTypes DEF Nothing, Told
<1>13. ParseDataflow(p) = Parsed(Nothing, rows, links)
  BY DEF ParseDataflow, rows
<1> HIDE DEF links
<1> QED
  BY <1>7, <1>11, <1>12, <1>13, ParsedParts DEF ClosedParse

LEMMA ChainIsClosed ==
    ASSUME NEW p \in ChainPayload
    PROVE  ClosedParse(ParseChain(p))
<1> DEFINE S == [variant : Optional(Names), type : Optional(Types), name : Optional(Names)]
           T(i) == Told(p.id, "process-chain-node", i, StepName(p, i),
                        OrElse(p.steps[i].type, "PROCESS"), p.steps[i].name)
           E(i) == Edge(<<p.id, "contains", p.chain, StepName(p, i)>>,
                        p.chain, StepName(p, i), "contains")
           rows == [i \in DOMAIN p.steps |-> Row(T(i), Nothing, {E(i)})]
           L(l) == Edge(<<p.id, "sequence", l[1], l[2]>>,
                        StepName(p, l[1] + 1), StepName(p, l[2] + 1), "sequence")
           links == {L(l) : l \in SequenceLinks(p)}
           head == Told(p.id, "process-chain", 0, p.chain, "RSPC", p.name)
<1>1. CASE p.chain = None
  BY <1>1, NothingIsClosed DEF ParseChain
<1>2. CASE p.chain # None
  <2>1. p.steps \in Seq(S) /\ p.chain \in Names
    BY <1>2 DEF ChainPayload, Optional
  <2>2. \A i \in DOMAIN p.steps : p.steps[i] \in S
    BY <2>1, EntriesOf, Zenon
  <2>3. Len(p.steps) \in Nat /\ DOMAIN p.steps = 1..Len(p.steps)
    BY <2>1
  <2> HIDE DEF S
  <2>4. \A i \in DOMAIN p.steps : StepName(p, i) # None
    <3>1. SUFFICES ASSUME NEW i \in DOMAIN p.steps
                   PROVE  StepName(p, i) # None
      OBVIOUS
    <3>2. <<"step", p.chain, i>> \in Ids
      BY <2>1, <2>3 DEF Ids, MadeUpSteps
    <3> QED
      BY <3>2, IngestAssumption DEF StepName, OrElse
  <2>5. \A i \in DOMAIN p.steps : OrElse(p.steps[i].type, "PROCESS") \in Types
    BY <2>2, KnownTypes DEF S
  <2>6. \A i \in DOMAIN p.steps : ClosedRow(p.chain, rows[i]) /\ rows[i].first = T(i)
    <3>1. SUFFICES ASSUME NEW i \in DOMAIN p.steps
                   PROVE  ClosedRow(p.chain, rows[i]) /\ rows[i].first = T(i)
      OBVIOUS
    <3>2. Plain(T(i)) /\ T(i).id = StepName(p, i)
      BY <2>5, ToldParts
    <3>3. E(i).source = p.chain /\ E(i).target = StepName(p, i)
      BY EdgeParts
    <3>4. rows[i] = Row(T(i), Nothing, {E(i)})
      OBVIOUS
    <3> HIDE DEF rows, T, E
    <3>5. ClosedRow(p.chain, Row(T(i), Nothing, {E(i)}))
      BY <1>2, <2>4, <3>2, <3>3, JoinedRowIsClosed
    <3> QED
      BY <3>4, <3>5 DEF Row
  <2>7. rows = [i \in DOMAIN p.steps |-> rows[i]]
    OBVIOUS
  <2> HIDE DEF rows
  <2>8. ClosedRows(p.chain, rows) /\ DOMAIN rows = DOMAIN p.steps
    BY <2>1, <2>6, <2>7, RowsOfList
  <2>9. \A i \in DOMAIN p.steps : StepName(p, i) \in Named(rows)
    BY <2>4, <2>6, <2>8, ToldParts DEF Named
  <2>10. \A e \in links : {e.source, e.target} \subseteq Named(rows)
    <3>1. SUFFICES ASSUME NEW l \in SequenceLinks(p)
                   PROVE  {L(l).source, L(l).target} \subseteq Named(rows)
      OBVIOUS
    <3>2. L(l).source = StepName(p, l[1] + 1) /\ L(l).target = StepName(p, l[2] + 1)
      BY EdgeParts
    <3>3. l[1] + 1 \in DOMAIN p.steps /\ l[2] + 1 \in DOMAIN p.steps
      <4>1. l[1] \in 0..Len(p.steps) - 1 /\ l[2] \in 0..Len(p.steps) - 1
        BY DEF SequenceLinks
      <4> QED
        BY <2>3, <4>1
    <3> QED
      BY <2>9, <3>2, <3>3
  <2>11. head.type \in Types /\ head.id = p.chain
    BY ToldParts, KnownTypes DEF LayeredTypes
  <2>12. ParseChain(p) = Parsed(head, rows, links)
    BY <1>2 DEF ParseChain, rows
  <2> HIDE DEF links, head
  <2> QED
    BY <2>8, <2>10, <2>11, <2>12, ParsedParts DEF ClosedParse
<1> QED
  BY <1>1, <1>2

LEMMA ObjectIsClosed ==
    ASSUME NEW p, NEW type \in Types
    PROVE  ClosedParse(ParseObject(p, type))
<1>1. Told(p.id, type, 0, p.object, type, p.name).type \in Types
  BY ToldParts
<1> QED
  BY <1>1, ParseWithoutLinks, NoRows, NothingIsClosed DEF ParseObject

LEMMA ObjectsAreClosed ==
    ASSUME NEW p \in ObjectPayload
    PROVE  /\ ClosedParse(ParseVariant(p)) /\ ClosedParse(ParseDatasource(p))
           /\ ClosedParse(ParseAdso(p)) /\ ClosedParse(ParseSourceSystem(p))
<1>1. OrElse(p.type, "PROCESS") \in Types
  BY KnownTypes DEF ObjectPayload
<1>2. {"RSDS", "ADSO", "LSYS"} \subseteq Types
  BY KnownTypes DEF LayeredTypes
<1> QED
  BY <1>1, <1>2, ObjectIsClosed
     DEF ParseVariant, ParseDatasource, ParseAdso, ParseSourceSystem

LEMMA DtpRowIsClosed ==
    ASSUME NEW p, p.dtp # None, NEW id, NEW tag, NEW type \in Types, NEW name, NEW source, NEW target,
           NEW edgeType, id # None => source \in {p.dtp, id} /\ target \in {p.dtp, id}
    PROVE  ClosedRow(p.dtp, DtpRow(p, tag, id, type, name, source, target, edgeType))
<1> DEFINE t == Told(p.id, "dtp", 0, id, type, name)
           e == Edge(<<p.id, tag, source, target>>, source, target, edgeType)
<1>1. Plain(t) /\ t.id = id
  BY ToldParts
<1>2. e.source = source /\ e.target = target
  BY EdgeParts
<1>3. DtpRow(p, tag, id, type, name, source, target, edgeType) =
        IF id = None THEN EmptyRow ELSE Row(t, Nothing, {e})
  BY DEF DtpRow
<1> HIDE DEF t, e
<1> QED
  BY <1>1, <1>2, <1>3, EmptyIsClosed, JoinedRowIsClosed

LEMMA DtpIsClosed ==
    ASSUME NEW p \in DtpPayload
    PROVE  ClosedParse(ParseDtp(p))
<1> DEFINE first == DtpRow(p, "dtp-source", p.source, OrElse(p.sourceType, "UNKNOWN"), None,
                           p.source, p.dtp, "dataflow")
           second == DtpRow(p, "dtp-target", p.target, OrElse(p.targetType, "UNKNOWN"), None,
                            p.dtp, p.target, "dataflow")
           third == DtpRow(p, "dtp-transformation", p.transformation, "TRFN", p.name,
                           p.dtp, p.transformation, "uses_transformation")
           head == Told(p.id, "dtp", 0, p.dtp, "DTPA", p.name)
<1>1. CASE p.dtp = None
  BY <1>1, NothingIsClosed DEF ParseDtp
<1>2. CASE p.dtp # None
  <2>1. /\ OrElse(p.sourceType, "UNKNOWN") \in Types /\ OrElse(p.targetType, "UNKNOWN") \in Types
        /\ "TRFN" \in Types /\ "DTPA" \in Types
    BY KnownTypes DEF DtpPayload, LayeredTypes
  <2>2. ClosedRow(p.dtp, first) /\ ClosedRow(p.dtp, second) /\ ClosedRow(p.dtp, third)
    BY <1>2, <2>1, DtpRowIsClosed
  <2>3. head.type \in Types /\ head.id = p.dtp
    BY <2>1, ToldParts
  <2>4. ParseDtp(p) = Parsed(head, <<first, second, third>>, {})
    BY <1>2 DEF ParseDtp
  <2> HIDE DEF first, second, third, head
  <2>5. ClosedRows(p.dtp, <<first, second, third>>)
    BY <2>2 DEF ClosedRows
  <2> QED
    BY <2>3, <2>4, <2>5, ParseWithoutLinks
<1> QED
  BY <1>1, <1>2

LEMMA CompositeIsClosed ==
    ASSUME NEW p \in CompositePayload
    PROVE  ClosedParse(ParseComposite(p))
<1> DEFINE S == [id : Optional(Names), type : Optional(Types)]
           T(i) == Told(p.id, "hcpr-input", i, p.inputs[i].id,
                        OrElse(p.inputs[i].type, "UNKNOWN"), None)
           E(i) == Edge(<<p.id, "hcpr-input", i>>, p.inputs[i].id, p.hcpr, "composite_input")
           rows == [i \in DOMAIN p.inputs |->
                       IF p.inputs[i].id = None THEN EmptyRow ELSE Row(T(i), Nothing, {E(i)})]
           head == Told(p.id, "hcpr", 0, p.hcpr, "HCPR", p.name)
<1>1. CASE p.hcpr = None
  BY <1>1, NothingIsClosed DEF ParseComposite
<1>2. CASE p.hcpr # None
  <2>1. p.inputs \in Seq(S)
    BY DEF CompositePayload
  <2>2. \A i \in DOMAIN p.inputs : p.inputs[i] \in S
    BY <2>1, EntriesOf, Zenon
  <2>3. \A i \in DOMAIN p.inputs : ClosedRow(p.hcpr, rows[i])
    <3>1. SUFFICES ASSUME NEW i \in DOMAIN p.inputs
                   PROVE  ClosedRow(p.hcpr, rows[i])
      OBVIOUS
    <3>2. Plain(T(i)) /\ T(i).id = p.inputs[i].id
      BY <2>2, ToldParts, KnownTypes
    <3>3. E(i).source = p.inputs[i].id /\ E(i).target = p.hcpr
      BY EdgeParts
    <3>4. rows[i] = IF p.inputs[i].id = None THEN EmptyRow ELSE Row(T(i), Nothing, {E(i)})
      OBVIOUS
    <3> HIDE DEF rows, T, E
    <3> QED
      BY <1>2, <3>2, <3>3, <3>4, JoinedRowIsClosed, EmptyIsClosed
  <2>4. rows = [i \in DOMAIN p.inputs |-> rows[i]]
    OBVIOUS
  <2>5. head.type \in Types /\ head.id = p.hcpr
    BY ToldParts, KnownTypes DEF LayeredTypes
  <2>6. ParseComposite(p) = Parsed(head, rows, {})
    BY <1>2 DEF ParseComposite
  <2> HIDE DEF rows, head, S
  <2>7. ClosedRows(p.hcpr, rows)
    BY <2>1, <2>3, <2>4, RowsOfList
  <2> QED
    BY <2>5, <2>6, <2>7, ParseWithoutLinks
<1> QED
  BY <1>1, <1>2

LEMMA QueryHasId ==
    ASSUME NEW d \in Document
    PROVE  QueryId(d) # None
<1>1. d.elements \in Seq(Element)
  BY DEF Document
<1>2. \A i \in DOMAIN d.elements : d.elements[i] \in Element
  BY <1>1, EntriesOf
<1>3. NamedElements(d) # {} => FirstPosition(NamedElements(d)) \in NamedElements(d)
  <2>1. NamedElements(d) \subseteq Nat
    <3>1. DOMAIN d.elements = 1..Len(d.elements) /\ Len(d.elements) \in Nat
      BY <1>1
    <3> QED
      BY <3>1 DEF NamedElements
  <2> QED
    BY <2>1, SmallestOf, Zenon DEF FirstPosition
<1>4. UnknownQuery # None
  BY IngestAssumption DEF Ids
<1> QED
  BY <1>3, <1>4 DEF QueryId, NamedElements

(* The rows of the parts of a query that are kept.                          *)
LEMMA ComponentsAreClosed ==
    ASSUME NEW p \in QueryPayload, NEW q, q # None, NEW S \in SUBSET NamedElements(p.document),
           NEW tag, NEW type \in Types, NEW edgeType
    PROVE  ClosedRows(q, ComponentRows(p, q, S, tag, type, edgeType))
<1> DEFINE elements == p.document.elements
           T(i) == Told(p.id, tag, i, elements[i].name, type, None)
           E(i) == Edge(<<p.id, tag, elements[i].name>>, elements[i].name, q, edgeType)
           rows == [i \in DOMAIN elements |->
                       IF i \notin S THEN EmptyRow ELSE Row(T(i), Nothing, {E(i)})]
<1>1. elements \in Seq(Element)
  BY DEF QueryPayload, Document
<1>2. ComponentRows(p, q, S, tag, type, edgeType) = rows
  BY DEF ComponentRows
<1>3. \A i \in DOMAIN elements : ClosedRow(q, rows[i])
  <2>1. SUFFICES ASSUME NEW i \in DOMAIN elements
                 PROVE  ClosedRow(q, rows[i])
    OBVIOUS
  <2>2. i \in S => elements[i].name # None
    BY DEF NamedElements
  <2>3. Plain(T(i)) /\ T(i).id = elements[i].name
    BY ToldParts
  <2>4. E(i).source = elements[i].name /\ E(i).target = q
    BY EdgeParts
  <2>5. rows[i] = IF i \notin S THEN EmptyRow ELSE Row(T(i), Nothing, {E(i)})
    OBVIOUS
  <2> HIDE DEF rows, T, E, elements
  <2> QED
    BY <2>2, <2>3, <2>4, <2>5, JoinedRowIsClosed, EmptyIsClosed
<1>4. rows = [i \in DOMAIN elements |-> rows[i]]
  OBVIOUS
<1> HIDE DEF rows, elements
<1> QED
  BY <1>1, <1>2, <1>3, <1>4, RowsOfList

LEMMA ProvidersAreClosed ==
    ASSUME NEW p \in QueryPayload, NEW q, q # None, NEW S \in SUBSET ProviderElements(p.document)
    PROVE  ClosedRows(q, ProviderRows(p, q, S))
<1> DEFINE elements == p.document.elements
           Ref(i) == ProviderOf(elements[i])
           T(i) == Told(p.id, "query-provider", i, Ref(i).id, Ref(i).type, None)
           E(i) == Edge(<<p.id, "query-provider", i>>, Ref(i).id, q, "provides")
           rows == [i \in DOMAIN elements |->
                       IF i \notin S THEN EmptyRow ELSE Row(T(i), Nothing, {E(i)})]
<1>1. elements \in Seq(Element)
  BY DEF QueryPayload, Document
<1>2. ProviderRows(p, q, S) = rows
  BY DEF ProviderRows
<1>3. \A i \in DOMAIN elements : elements[i] \in Element
  BY <1>1, EntriesOf, Zenon
<1>4. \A i \in S : i \in DOMAIN elements /\ Ref(i).id # None /\ Ref(i).type \in Types
  <2>1. SUFFICES ASSUME NEW i \in S
                 PROVE  i \in DOMAIN elements /\ Ref(i).id # None /\ Ref(i).type \in Types
    OBVIOUS
  <2>2. i \in DOMAIN elements /\ Ref(i) # None
    BY DEF ProviderElements
  <2>3. elements[i].provider \in ProviderRef \cup {None} /\ elements[i].href \in ProviderRef \cup {None}
    BY <1>3, <2>2 DEF Element
  <2> HIDE DEF elements
  <2>4. Ref(i) \in ProviderRef
    BY <2>2, <2>3 DEF ProviderOf
  <2>5. None \notin Names
    BY IngestAssumption DEF Ids
  <2> QED
    BY <2>2, <2>4, <2>5 DEF ProviderRef
<1>5. \A i \in DOMAIN elements : ClosedRow(q, rows[i])
  <2>1. SUFFICES ASSUME NEW i \in DOMAIN elements
                 PROVE  ClosedRow(q, rows[i])
    OBVIOUS
  <2>2. i \in S => Plain(T(i))
    BY <1>4, ToldParts
  <2>3. T(i).id = Ref(i).id /\ E(i).source = Ref(i).id /\ E(i).target = q
    BY ToldParts, EdgeParts
  <2>4. rows[i] = IF i \notin S THEN EmptyRow ELSE Row(T(i), Nothing, {E(i)})
    OBVIOUS
  <2> HIDE DEF rows, T, E, elements, Ref
  <2> QED
    BY <1>4, <2>2, <2>3, <2>4, JoinedRowIsClosed, EmptyIsClosed
<1>6. rows = [i \in DOMAIN elements |-> rows[i]]
  OBVIOUS
<1> HIDE DEF rows, elements
<1> QED
  BY <1>1, <1>2, <1>5, <1>6, RowsOfList

LEMMA QueryIsClosed ==
    ASSUME NEW p \in QueryPayload
    PROVE  ClosedParse(ParseQueryPayload(p))
<1> DEFINE d == p.document
           r == ParseQuery(d)
           q == r.query
           head == Told(p.id, "query", 0, q, "QUERY", None)
           providers == ProviderRows(p, q, r.providers)
           variables == ComponentRows(p, q, r.variables, "variable", "QUERY_VARIABLE",
                                      "query_variable")
           calculated == ComponentRows(p, q, r.calculated, "ckf", "CKF", "query_component")
           restricted == ComponentRows(p, q, r.restricted, "rkf", "RKF", "query_component")
           members == ComponentRows(p, q, r.members, "member", "LOCAL_MEMBER", "query_component")
<1>1. CASE Unparseable(d)
  BY <1>1, NothingIsClosed DEF ParseQueryPayload
<1>2. CASE ~Unparseable(d)
  <2>1. q = QueryId(d) /\ q # None
    BY QueryHasId DEF ParseQuery, QueryPayload
  <2>2. /\ r.variables \subseteq NamedElements(d) /\ r.calculated \subseteq NamedElements(d)
        /\ r.restricted \subseteq NamedElements(d) /\ r.members \subseteq NamedElements(d)
        /\ r.providers \subseteq ProviderElements(d)
    BY DEF ParseQuery, Components, FirstOfEachName, Marked, Providers
  <2>3. /\ "QUERY" \in Types /\ "QUERY_VARIABLE" \in Types /\ "CKF" \in Types
        /\ "RKF" \in Types /\ "LOCAL_MEMBER" \in Types
    BY KnownTypes DEF LayeredTypes
  <2>4. head.type \in Types /\ head.id = q
    BY <2>3, ToldParts
  <2>5. ParseQueryPayload(p) =
          Parsed(head, providers \o variables \o calculated \o restricted \o members, {})
    BY <1>2 DEF ParseQueryPayload
  <2> HIDE DEF d, r, q, head
  <2>6. ClosedRows(q, providers)
    BY <2>1, <2>2, ProvidersAreClosed DEF d
  <2>7. /\ ClosedRows(q, variables) /\ ClosedRows(q, calculated)
        /\ ClosedRows(q, restricted) /\ ClosedRows(q, members)
    BY <2>1, <2>2, <2>3, ComponentsAreClosed DEF d
  <2> HIDE DEF providers, variables, calculated, restricted, members
  <2>8. ClosedRows(q, providers \o variables \o calculated \o restricted \o members)
    BY <2>6, <2>7, RowsOfBoth
  <2> QED
    BY <2>4, <2>5, <2>8, ParseWithoutLinks
<1> QED
  BY <1>1, <1>2

LEMMA RequestsAreClosed ==
    ASSUME NEW p \in RequestsPayload
    PROVE  ClosedParse(ParseRequests(p))
<1> DEFINE t == Told(p.id, "requests", 0, p.target, OrElse(p.type, "UNKNOWN"), None)
           head == [t EXCEPT !.requests = p.requests]
<1>1. head.type = OrElse(p.type, "UNKNOWN")
  BY DEF Told
<1>2. head.type \in Types
  BY <1>1, KnownTypes DEF RequestsPayload
<1>3. ParseRequests(p) = IF p.target = None THEN NothingParsed ELSE Parsed(head, <<>>, {})
  BY DEF ParseRequests
<1> HIDE DEF head
<1> QED
  BY <1>2, <1>3, NoRows, NothingIsClosed, ParseWithoutLinks

LEMMA SearchIsClosed ==
    ASSUME NEW p \in SearchPayload
    PROVE  ClosedParse(ParseSearch(p))
<1> DEFINE S == [id : Optional(Names), type : Optional(Types), name : Optional(Names)]
           Again(i) == p.xml /\ \E j \in 1..i - 1 : p.hits[j].id = p.hits[i].id
           T(i) == Told(p.id, "search", i, p.hits[i].id, OrElse(p.hits[i].type, "UNKNOWN"),
                        p.hits[i].name)
           rows == [i \in DOMAIN p.hits |-> IF Again(i) THEN EmptyRow ELSE HitRow(p, i)]
<1>1. p.hits \in Seq(S)
  BY DEF SearchPayload
<1>2. \A i \in DOMAIN p.hits : p.hits[i] \in S
  BY <1>1, EntriesOf, Zenon
<1>3. \A i \in DOMAIN p.hits : ClosedRow(None, rows[i])
  <2>1. SUFFICES ASSUME NEW i \in DOMAIN p.hits
                 PROVE  ClosedRow(None, rows[i])
    OBVIOUS
  <2>2. Plain(T(i))
    BY <1>2, ToldParts, KnownTypes
  <2>3. HitRow(p, i) = EmptyRow \/ HitRow(p, i) = ObjectRow(T(i))
    BY DEF HitRow
  <2>4. ClosedRow(None, HitRow(p, i))
    BY <2>2, <2>3, ObjectRowIsClosed, EmptyIsClosed
  <2> QED
    BY <2>4, EmptyIsClosed
<1>4. rows = [i \in DOMAIN p.hits |-> rows[i]]
  OBVIOUS
<1>5. ParseSearch(p) = Parsed(Nothing, rows, {})
  BY DEF ParseSearch
<1>6. Nothing.type \in Types /\ Nothing.id = None
  BY KnownTypes DEF Nothing, Told
<1> HIDE DEF rows, S
<1>7. ClosedRows(None, rows)
  BY <1>1, <1>3, <1>4, RowsOfList
<1> QED
  BY <1>5, <1>6, <1>7, ParseWithoutLinks

LEMMA ReferenceRowIsClosed ==
    ASSUME NEW p, NEW i, NEW h, NEW s, NEW t, Plain(s), Plain(t),
           s.id # None, t.id # None
    PROVE  ClosedRow(h, ReferenceRow(p, i, s, t))
  BY DEF ReferenceRow, Row, Edge, ClosedRow

LEMMA ReferencesAreClosed ==
    ASSUME NEW p \in ReferencesPayload
    PROVE  ClosedParse(ParseReferences(p))
<1> DEFINE S == [from : Optional(Names), to : Optional(Names), related : Optional(Names),
                 type : Optional(Types), name : Optional(Names)]
           R(i) == p.references[i]
           rows == [i \in DOMAIN p.references |->
                       IF R(i).from # None /\ R(i).to # None
                       THEN ReferenceRow(p, i, UntypedEnd(p, i, R(i).from),
                                         UntypedEnd(p, i, R(i).to))
                       ELSE IF p.xml THEN RelatedRow(p, i, R(i)) ELSE EmptyRow]
<1>1. p.references \in Seq(S)
  BY DEF ReferencesPayload
<1>2. \A i \in DOMAIN p.references : p.references[i] \in S
  BY <1>1, EntriesOf, Zenon
<1>3. \A i, id, type, name : /\ ReferenceEnd(p, i, id, type, name).id = id
                            /\ ReferenceEnd(p, i, id, type, name).type = type
                            /\ ReferenceEnd(p, i, id, type, name).requests = {}
  BY ToldParts DEF ReferenceEnd
<1>4. \A i, id : UntypedEnd(p, i, id).id = id /\ Plain(UntypedEnd(p, i, id))
  BY <1>3, KnownTypes DEF UntypedEnd, Plain
<1>5. \A i \in DOMAIN p.references : ClosedRow(None, rows[i])
  <2>1. SUFFICES ASSUME NEW i \in DOMAIN p.references
                 PROVE  ClosedRow(None, rows[i])
    OBVIOUS
  <2>2. ClosedRow(None, RelatedRow(p, i, R(i)))
    <3> DEFINE related == ReferenceEnd(p, i, R(i).related, OrElse(R(i).type, "UNKNOWN"), R(i).name)
               asked == UntypedEnd(p, i, p.requested)
    <3>1. Plain(related) /\ related.id = R(i).related
      BY <1>2, <1>3, KnownTypes DEF Plain
    <3>2. Plain(asked) /\ asked.id = p.requested
      BY <1>4
    <3>3. \/ RelatedRow(p, i, R(i)) = EmptyRow
          \/ /\ R(i).related # None /\ p.requested # None
             /\ \/ RelatedRow(p, i, R(i)) = ReferenceRow(p, i, related, asked)
                \/ RelatedRow(p, i, R(i)) = ReferenceRow(p, i, asked, related)
      BY DEF RelatedRow
    <3> HIDE DEF related, asked, R
    <3> QED
      BY <3>1, <3>2, <3>3, ReferenceRowIsClosed, EmptyIsClosed
  <2>3. R(i).from # None /\ R(i).to # None =>
          ClosedRow(None, ReferenceRow(p, i, UntypedEnd(p, i, R(i).from), UntypedEnd(p, i, R(i).to)))
    BY <1>4, ReferenceRowIsClosed
  <2> QED
    BY <2>2, <2>3, EmptyIsClosed
<1>6. rows = [i \in DOMAIN p.references |-> rows[i]]
  OBVIOUS
<1>7. ParseReferences(p) = Parsed(Nothing, rows, {})
  BY DEF ParseReferences
<1>8. Nothing.type \in Types /\ Nothing.id = None
  BY KnownTypes DEF Nothing, Told
<1> HIDE DEF rows, S
<1>9. ClosedRows(None, rows)
  BY <1>1, <1>5, <1>6, RowsOfList
<1> QED
  BY <1>7, <1>8, <1>9, ParseWithoutLinks

(* Every parser is closed.                                                  *)
THEOREM ParsersAreClosed ==
    ASSUME NEW p \in Payloads, p.kind = "graph" => ValidGraph(p)
    PROVE  ClosedParse(ParsePayload(p))
<1>1. CASE p \in GraphPayload
  <2>1. p.kind = "graph"
    BY <1>1 DEF GraphPayload
  <2> QED
    BY <1>1, <2>1, GraphIsClosed DEF ParsePayload
<1>2. CASE p \in DataflowPayload
  <2>1. p.kind = "dataflow"
    BY <1>2 DEF DataflowPayload
  <2> QED
    BY <1>2, <2>1, DataflowIsClosed DEF ParsePayload
<1>3. CASE p \in ChainPayload
  <2>1. p.kind = "chain"
    BY <1>3 DEF ChainPayload
  <2> QED
    BY <1>3, <2>1, ChainIsClosed DEF ParsePayload
<1>4. CASE p \in ObjectPayload
  <2>1. p.kind \in {"variant", "datasource", "adso", "source_system"}
    BY <1>4 DEF ObjectPayload
  <2> QED
    BY <1>4, <2>1, ObjectsAreClosed DEF ParsePayload
<1>5. CASE p \in DtpPayload
  <2>1. p.kind = "dtp"
    BY <1>5 DEF DtpPayload
  <2> QED
    BY <1>5, <2>1, DtpIsClosed DEF ParsePayload
<1>6. CASE p \in CompositePayload
  <2>1. p.kind = "composite"
    BY <1>6 DEF CompositePayload
  <2> QED
    BY <1>6, <2>1, CompositeIsClosed DEF ParsePayload
<1>7. CASE p \in QueryPayload
  <2>1. p.kind = "query"
    BY <1>7 DEF QueryPayload
  <2> QED
    BY <1>7, <2>1, QueryIsClosed DEF ParsePayload
<1>8. CASE p \in RequestsPayload
  <2>1. p.kind = "requests"
    BY <1>8 DEF RequestsPayload
  <2> QED
    BY <1>8, <2>1, RequestsAreClosed DEF ParsePayload
<1>9. CASE p \in SearchPayload
  <2>1. p.kind = "search"
    BY <1>9 DEF SearchPayload
  <2> QED
    BY <1>9, <2>1, SearchIsClosed DEF ParsePayload
<1>10. CASE p \in ReferencesPayload
  <2>1. p.kind = "xref"
    BY <1>10 DEF ReferencesPayload
  <2> QED
    BY <1>10, <2>1, ReferencesAreClosed DEF ParsePayload
<1>11. CASE p \in UnreadPayload
  <2>1. p.kind = "other"
    BY <1>11 DEF UnreadPayload
  <2> QED
    BY <2>1, NothingIsClosed DEF ParsePayload
<1> QED
  BY <1>1, <1>2, <1>3, <1>4, <1>5, <1>6, <1>7, <1>8, <1>9, <1>10, <1>11 DEF Payloads

-----------------------------------------------------------------------------
(* The catalogs: closed, and every object in them explained. While a        *)
(* payload is parsed, what it is about and the rows that were added are in  *)
(* the catalog of its parser: that is why its links are closed at the end.  *)

Closed(es, os) == \A e \in es : e.source \in DOMAIN os /\ e.target \in DOMAIN os

Explained(os) == \A id \in DOMAIN os :
    /\ os[id].type \in Types
    /\ os[id].reason = None <=> os[id].type \in LayeredTypes

Ends(r) == {r.first.id, r.second.id} \ {None}

Seen == /\ {parsed.head.id} \ {None} \subseteq DOMAIN localObjects
        /\ \A i \in 1..row - 1 : Ends(parsed.rows[i]) \subseteq DOMAIN localObjects

Inv ==
    /\ manifest \in Seq(Payloads)
    /\ position \in Nat \ {0} /\ row \in Nat \ {0}
    /\ Closed(localEdges, localObjects) /\ Explained(localObjects)
    /\ Closed(edges, objects) /\ Explained(objects)
    /\ phase = "parse" => ClosedParse(parsed) /\ Seen

LEMMA ReasonsAreTold ==
    ASSUME NEW type \in Types, NEW reason
    PROVE  Classified(type, reason) = None <=> type \in LayeredTypes
<1>1. "UNKNOWN" \notin LayeredTypes /\ "UNKNOWN" \notin UnmappedTypes
  BY IngestAssumption DEF LayeredTypes
<1>2. OrElse(reason, "METADATA_MISSING") # None /\ OrElse(reason, "TYPE_UNMAPPED") # None
  BY ReasonsAssumption DEF Reasons, OrElse
<1>3. CASE type = "UNKNOWN"
  BY <1>1, <1>2, <1>3 DEF Classified
<1>4. CASE type \in UnmappedTypes
  BY <1>1, <1>2, <1>4, IngestAssumption DEF Classified
<1>5. CASE type \in LayeredTypes
  BY <1>1, <1>5, IngestAssumption DEF Classified
<1> QED
  BY <1>3, <1>4, <1>5 DEF Types

LEMMA NewIsExplained ==
    ASSUME NEW t, t.type \in Types
    PROVE  /\ NewObject(t).type \in Types
           /\ NewObject(t).reason = None <=> NewObject(t).type \in LayeredTypes
<1>1. NewObject(t).type = t.type /\ NewObject(t).reason = Classified(t.type, None)
  BY DEF NewObject
<1> QED
  BY <1>1, ReasonsAreTold

LEMMA MergedIsExplained ==
    ASSUME NEW a, NEW b, a.type \in Types, b.type \in Types
    PROVE  /\ Merged(a, b).type \in Types
           /\ Merged(a, b).reason = None <=> Merged(a, b).type \in LayeredTypes
<1> DEFINE type == ResolvedType(a.type, b.type)
<1>1. type \in Types
  BY DEF ResolvedType
<1>2. Merged(a, b).type = type /\ Merged(a, b).reason = Classified(type, OrElse(a.reason, b.reason))
  BY DEF Merged
<1> HIDE DEF type
<1> QED
  BY <1>1, <1>2, ReasonsAreTold

LEMMA AddObjectKeeps ==
    ASSUME NEW os, NEW t, t.type \in Types, Explained(os)
    PROVE  /\ DOMAIN AddObject(os, t) = DOMAIN os \cup ({t.id} \ {None})
           /\ Explained(AddObject(os, t))
<1>1. CASE t.id = None
  BY <1>1 DEF AddObject
<1>2. CASE t.id # None
  <2> DEFINE after == AddObject(os, t)
  <2>1. after = [i \in DOMAIN os \cup {t.id} |->
                   IF i # t.id THEN os[i]
                   ELSE IF i \in DOMAIN os THEN Merged(os[i], NewObject(t)) ELSE NewObject(t)]
    BY <1>2 DEF AddObject
  <2> HIDE DEF after
  <2>2. DOMAIN after = DOMAIN os \cup {t.id}
    BY <2>1
  <2>3. ASSUME NEW i \in DOMAIN after
        PROVE  after[i].type \in Types /\ (after[i].reason = None <=> after[i].type \in LayeredTypes)
    <3>1. CASE i # t.id
      BY <2>1, <2>2, <3>1 DEF Explained
    <3>2. CASE i = t.id /\ i \in DOMAIN os
      <4>1. after[i] = Merged(os[i], NewObject(t))
        BY <2>1, <3>2
      <4>2. os[i].type \in Types /\ NewObject(t).type \in Types
        BY <3>2, NewIsExplained DEF Explained
      <4> QED
        BY <4>1, <4>2, MergedIsExplained
    <3>3. CASE i = t.id /\ i \notin DOMAIN os
      <4>1. after[i] = NewObject(t)
        BY <2>1, <3>3
      <4> QED
        BY <4>1, NewIsExplained
    <3> QED
      BY <3>1, <3>2, <3>3
  <2> QED
    BY <1>2, <2>2, <2>3 DEF Explained, after
<1> QED
  BY <1>1, <1>2

LEMMA AddObjectsKeeps ==
    ASSUME NEW os, NEW new, Explained(os), Explained(new)
    PROVE  /\ DOMAIN AddObjects(os, new) = DOMAIN os \cup DOMAIN new
           /\ Explained(AddObjects(os, new))
<1> DEFINE after == AddObjects(os, new)
<1>1. after = [i \in DOMAIN os \cup DOMAIN new |->
                 IF i \notin DOMAIN new THEN os[i]
                 ELSE IF i \in DOMAIN os THEN Merged(os[i], new[i]) ELSE new[i]]
  BY DEF AddObjects
<1> HIDE DEF after
<1>2. DOMAIN after = DOMAIN os \cup DOMAIN new
  BY <1>1
<1>3. ASSUME NEW i \in DOMAIN after
      PROVE  after[i].type \in Types /\ (after[i].reason = None <=> after[i].type \in LayeredTypes)
  <2>1. CASE i \notin DOMAIN new
    BY <1>1, <1>2, <2>1 DEF Explained
  <2>2. CASE i \in DOMAIN new /\ i \in DOMAIN os
    <3>1. after[i] = Merged(os[i], new[i])
      BY <1>1, <2>2
    <3>2. os[i].type \in Types /\ new[i].type \in Types
      BY <2>2 DEF Explained
    <3> QED
      BY <3>1, <3>2, MergedIsExplained
  <2>3. CASE i \in DOMAIN new /\ i \notin DOMAIN os
    BY <1>1, <2>3 DEF Explained
  <2> QED
    BY <2>1, <2>2, <2>3
<1> QED
  BY <1>2, <1>3 DEF Explained, after

LEMMA AddEdgesKeeps ==
    ASSUME NEW os, NEW es, NEW new, Closed(es, os), Closed(new, os)
    PROVE  Closed(AddEdges(es, new), os)
  BY DEF AddEdges, Closed

LEMMA MoreObjects ==
    ASSUME NEW os, NEW after, NEW es, Closed(es, os), DOMAIN os \subseteq DOMAIN after
    PROVE  Closed(es, after)
  BY DEF Closed

-----------------------------------------------------------------------------
(* The steps.                                                               *)

LEMMA InitInv == Init => Inv
<1> SUFFICES ASSUME Init PROVE Inv
  OBVIOUS
<1>1. manifest \in Seq(Payloads)
  BY ManifestsAssumption DEF Init
<1>2. DOMAIN objects = {} /\ DOMAIN localObjects = {} /\ edges = {} /\ localEdges = {}
  BY DEF Init
<1>3. phase # "parse" /\ position = 1 /\ row = 1
  BY DEF Init
<1> QED
  BY <1>1, <1>2, <1>3 DEF Inv, Closed, Explained

LEMMA ReadPayloadKeeps == ASSUME Inv, ReadPayload PROVE Inv'
<1>1. Payload \in Payloads
  <2>1. manifest \in Seq(Payloads) /\ position \in Nat \ {0} /\ position <= Len(manifest)
    BY DEF Inv, ReadPayload
  <2> QED
    BY <2>1 DEF Payload
<1>2. parsed' = ParsePayload(Payload) /\ ClosedParse(parsed')
  BY <1>1, ParsersAreClosed DEF ReadPayload
<1>3. Explained(<<>>)
  BY DEF Explained
<1>4. /\ DOMAIN localObjects' = {parsed'.head.id} \ {None}
      /\ Explained(localObjects')
  <2> DEFINE h == parsed'.head
  <2>1. h.type \in Types /\ localObjects' = AddObject(<<>>, h)
    BY <1>2 DEF ClosedParse, ReadPayload
  <2>2. DOMAIN <<>> = {}
    OBVIOUS
  <2>3. /\ DOMAIN AddObject(<<>>, h) = DOMAIN <<>> \cup ({h.id} \ {None})
        /\ Explained(AddObject(<<>>, h))
    <3> HIDE DEF h
    <3> QED
      BY <1>3, <2>1, AddObjectKeeps
  <2> HIDE DEF h
  <2> QED
    BY <2>1, <2>2, <2>3 DEF h
<1>5. row' = 1 /\ localEdges' = {} /\ phase' = "parse"
  BY DEF ReadPayload
<1>6. UNCHANGED <<manifest, position, objects, edges>>
  BY DEF ReadPayload
<1>7. Seen'
  BY <1>4, <1>5 DEF Seen
<1> QED
  BY <1>2, <1>4, <1>5, <1>6, <1>7 DEF Inv, Closed, Explained

LEMMA AddRowKeeps == ASSUME Inv, AddRow PROVE Inv'
<1> DEFINE r == parsed.rows[row]
           os == AddObject(localObjects, r.first)
<1>1. /\ phase = "parse" /\ ClosedParse(parsed) /\ Seen /\ row \in Nat \ {0}
      /\ row <= Len(parsed.rows)
  BY DEF Inv, AddRow
<1>2. row \in DOMAIN parsed.rows
  <2>1. parsed.rows \in Seq({parsed.rows[i] : i \in DOMAIN parsed.rows})
    BY <1>1 DEF ClosedParse, ClosedRows
  <2> QED
    BY <1>1, <2>1
<1>3. ClosedRow(parsed.head.id, r)
  BY <1>1, <1>2 DEF ClosedParse, ClosedRows
<1>4. localObjects' = AddObject(os, r.second) /\ localEdges' = AddEdges(localEdges, r.edges)
  BY DEF AddRow
<1>5. row' = row + 1 /\ UNCHANGED <<manifest, position, phase, parsed, objects, edges>>
  BY DEF AddRow
<1> HIDE DEF r
<1>6. DOMAIN os = DOMAIN localObjects \cup ({r.first.id} \ {None}) /\ Explained(os)
  BY <1>3, AddObjectKeeps DEF Inv, ClosedRow, Plain
<1> HIDE DEF os
<1>7. DOMAIN localObjects' = DOMAIN os \cup ({r.second.id} \ {None}) /\ Explained(localObjects')
  BY <1>3, <1>4, <1>6, AddObjectKeeps DEF ClosedRow, Plain
<1>8. DOMAIN localObjects' = DOMAIN localObjects \cup Ends(r)
  BY <1>6, <1>7 DEF Ends
<1>9. Closed(localEdges', localObjects')
  <2>1. Closed(localEdges, localObjects')
    BY <1>8, MoreObjects DEF Inv
  <2>2. Closed(r.edges, localObjects')
    BY <1>1, <1>3, <1>8 DEF Closed, ClosedRow, Seen, Ends
  <2> QED
    BY <1>4, <2>1, <2>2, AddEdgesKeeps
<1>10. Seen'
  <2>1. \A i \in 1..row' - 1 : i = row \/ i \in 1..row - 1
    BY <1>1, <1>5
  <2> QED
    BY <1>1, <1>5, <1>8, <2>1 DEF Seen, r
<1>11. Explained(localObjects')
  BY <1>7
<1>12. /\ manifest' \in Seq(Payloads) /\ position' \in Nat \ {0} /\ row' \in Nat \ {0}
       /\ Closed(edges', objects') /\ Explained(objects')
  BY <1>1, <1>5 DEF Inv, Closed, Explained
<1>13. ClosedParse(parsed')
  BY <1>1, <1>5
<1> QED
  BY <1>9, <1>10, <1>11, <1>12, <1>13 DEF Inv

LEMMA MergePayloadKeeps == ASSUME Inv, MergePayload PROVE Inv'
<1>1. /\ phase = "parse" /\ ClosedParse(parsed) /\ Seen /\ row \in Nat \ {0}
      /\ row > Len(parsed.rows)
  BY DEF Inv, MergePayload
<1>2. Named(parsed.rows) \subseteq DOMAIN localObjects
  <2>1. parsed.rows \in Seq({parsed.rows[i] : i \in DOMAIN parsed.rows})
    BY <1>1 DEF ClosedParse, ClosedRows
  <2>2. DOMAIN parsed.rows \subseteq 1..row - 1
    BY <1>1, <2>1
  <2> QED
    BY <1>1, <2>2 DEF Seen, Ends, Named
<1>3. Closed(AddEdges(localEdges, parsed.links), localObjects)
  <2>1. Closed(parsed.links, localObjects)
    BY <1>1, <1>2 DEF ClosedParse, Closed
  <2> QED
    BY <2>1, AddEdgesKeeps DEF Inv
<1>4. /\ objects' = AddObjects(objects, localObjects)
      /\ edges' = AddEdges(edges, AddEdges(localEdges, parsed.links))
      /\ phase' = "read" /\ position' = position + 1
      /\ UNCHANGED <<manifest, parsed, row, localObjects, localEdges>>
  BY DEF MergePayload
<1>5. DOMAIN objects' = DOMAIN objects \cup DOMAIN localObjects /\ Explained(objects')
  BY <1>4, AddObjectsKeeps DEF Inv
<1>6. Closed(edges', objects')
  <2>1. Closed(edges, objects') /\ Closed(AddEdges(localEdges, parsed.links), objects')
    BY <1>3, <1>5, MoreObjects DEF Inv
  <2> QED
    BY <1>4, <2>1, AddEdgesKeeps
<1>7. Closed(localEdges', localObjects') /\ Explained(localObjects')
  BY <1>4 DEF Inv, Closed, Explained
<1>8. manifest' \in Seq(Payloads) /\ position' \in Nat \ {0} /\ row' \in Nat \ {0}
  BY <1>4 DEF Inv
<1> QED
  BY <1>4, <1>5, <1>6, <1>7, <1>8 DEF Inv

LEMMA OthersKeep ==
    ASSUME Inv, RejectPayload \/ Finish \/ UNCHANGED vars
    PROVE  Inv'
<1>1. UNCHANGED <<manifest, position, parsed, row, localObjects, localEdges, objects, edges>>
  BY DEF RejectPayload, Finish, vars
<1>2. phase' = "parse" => phase = "parse"
  BY DEF RejectPayload, Finish, vars
<1> QED
  BY <1>1, <1>2 DEF Inv, Seen, Closed, Explained

(* Spec keeps Inv.                                                          *)
LEMMA Invariance == Spec => []Inv
<1>1. Inv /\ [Next]_vars => Inv'
  BY ReadPayloadKeeps, AddRowKeeps, MergePayloadKeeps, OthersKeep, Zenon DEF Next
<1> QED
  BY <1>1, InitInv, PTL DEF Spec

(* The catalog of a snapshot is closed after every payload, so that its     *)
(* graph can be validated whenever it is loaded (graph.py 119-135).         *)
THEOREM EdgesAlwaysJoinObjects == Spec => []EdgesJoinObjects
<1>1. Inv => EdgesJoinObjects
  BY DEF Inv, Closed, EdgesJoinObjects
<1> QED
  BY <1>1, Invariance, PTL

(* Whatever payloads are merged in what order, an object has a reason for   *)
(* being unknown exactly while its type has no layer (catalog.py 2091-2109).*)
THEOREM UnknownsAlwaysSayWhy == Spec => []UnknownsSayWhy
<1>1. Inv => UnknownsSayWhy
  BY DEF Inv, Explained, UnknownsSayWhy
<1> QED
  BY <1>1, Invariance, PTL

(* A payload that is ingested takes no object and no edge away.             *)
GrowsOnly == DOMAIN objects \subseteq DOMAIN objects' /\ edges \subseteq edges'

THEOREM CatalogOnlyGrows == Spec => [][GrowsOnly]_vars
<1>1. ASSUME Inv, Next
      PROVE  GrowsOnly
  <2>1. CASE MergePayload
    BY <1>1, <2>1, AddObjectsKeeps DEF MergePayload, GrowsOnly, AddEdges, Inv
  <2>2. CASE ReadPayload \/ RejectPayload \/ AddRow \/ Finish
    BY <2>2 DEF ReadPayload, RejectPayload, AddRow, Finish, GrowsOnly
  <2> QED
    BY <1>1, <2>1, <2>2 DEF Next
<1>2. Inv /\ [Next]_vars => [GrowsOnly]_vars
  BY <1>1
<1> QED
  BY <1>2, Invariance, PTL DEF Spec

-----------------------------------------------------------------------------
(* What a catalog tells of an object when it merges what was told at the    *)
(* places N of a list: the first type that is known, the first name and all *)
(* of the evidence. A catalog describes what was told when it does so for   *)
(* all objects that were named.                                             *)

At(s, N, id) == {n \in N : s[n].id = id}
Typed(s, N, id) == {n \in At(s, N, id) : s[n].type # "UNKNOWN"}
Labelled(s, N, id) == {n \in At(s, N, id) : s[n].name # None}

Describes(os, s, N) ==
    /\ DOMAIN os = {s[n].id : n \in N}
    /\ \A id \in DOMAIN os :
         /\ os[id].type = IF Typed(s, N, id) = {} THEN "UNKNOWN" ELSE s[FirstOf(Typed(s, N, id))].type
         /\ os[id].name = IF Labelled(s, N, id) = {} THEN None
                          ELSE s[FirstOf(Labelled(s, N, id))].name
         /\ os[id].evidence = {s[n].evidence : n \in At(s, N, id)}

LEMMA FirstIsThere ==
    ASSUME NEW S, S \subseteq Nat, S # {}
    PROVE  FirstOf(S) \in S /\ \A m \in S : FirstOf(S) <= m
<1>1. \E n \in S : \A m \in S : n <= m
  BY SmallestOf
<1> QED
  BY <1>1 DEF FirstOf

(* Of two lists one after the other the first entry is that of the first,   *)
(* unless it has none.                                                      *)
LEMMA FirstOfBoth ==
    ASSUME NEW S, NEW T, S \subseteq Nat, T \subseteq Nat, \A m \in S, n \in T : m < n
    PROVE  /\ S # {} => FirstOf(S \cup T) = FirstOf(S)
           /\ S = {} => FirstOf(S \cup T) = FirstOf(T)
<1>1. ASSUME S # {} PROVE FirstOf(S \cup T) = FirstOf(S)
  <2>1. FirstOf(S) \in S /\ \A m \in S : FirstOf(S) <= m
    BY <1>1, FirstIsThere
  <2>2. FirstOf(S \cup T) \in S \cup T /\ \A m \in S \cup T : FirstOf(S \cup T) <= m
    BY <1>1, FirstIsThere
  <2>3. FirstOf(S \cup T) <= FirstOf(S) /\ FirstOf(S) \in Nat /\ FirstOf(S \cup T) \in Nat
    BY <2>1, <2>2
  <2>4. FirstOf(S \cup T) \in S
    BY <2>1, <2>2, <2>3
  <2> QED
    BY <2>1, <2>3, <2>4
<1>2. ASSUME S = {} PROVE FirstOf(S \cup T) = FirstOf(T)
  <2>1. S \cup T = T
    BY <1>2
  <2> QED
    BY <2>1
<1> QED
  BY <1>1, <1>2

LEMMA MergedParts ==
    ASSUME NEW a, NEW b
    PROVE  /\ Merged(a, b).type = ResolvedType(a.type, b.type)
           /\ Merged(a, b).name = OrElse(a.name, b.name)
           /\ Merged(a, b).evidence = a.evidence \cup b.evidence
           /\ Merged(a, b).requests = MergeFreshness(a.requests, b.requests)
  BY DEF Merged

LEMMA NewParts ==
    ASSUME NEW t
    PROVE  /\ NewObject(t).type = t.type /\ NewObject(t).name = t.name
           /\ NewObject(t).evidence = {t.evidence} /\ NewObject(t).requests = t.requests
  BY DEF NewObject

LEMMA AddedObjects ==
    ASSUME NEW os, NEW new
    PROVE  /\ DOMAIN AddObjects(os, new) = DOMAIN os \cup DOMAIN new
           /\ \A i \in DOMAIN os \cup DOMAIN new : AddObjects(os, new)[i] =
                IF i \notin DOMAIN new THEN os[i]
                ELSE IF i \in DOMAIN os THEN Merged(os[i], new[i]) ELSE new[i]
  BY DEF AddObjects

(* Merging two catalogs describes what was told before either, in order.    *)
LEMMA MergingDescribes ==
    ASSUME NEW os, NEW new, NEW s, NEW N, NEW M, N \subseteq Nat, M \subseteq Nat,
           \A m \in N, n \in M : m < n,
           Describes(os, s, N), Describes(new, s, M)
    PROVE  Describes(AddObjects(os, new), s, N \cup M)
<1> DEFINE all == AddObjects(os, new)
<1>1. /\ DOMAIN all = DOMAIN os \cup DOMAIN new
      /\ \A i \in DOMAIN all : all[i] = IF i \notin DOMAIN new THEN os[i]
                                        ELSE IF i \in DOMAIN os THEN Merged(os[i], new[i])
                                        ELSE new[i]
  BY AddedObjects
<1> HIDE DEF all
<1>2. DOMAIN all = {s[n].id : n \in N \cup M}
  BY <1>1 DEF Describes
<1>3. ASSUME NEW id \in DOMAIN all
      PROVE  /\ all[id].type = IF Typed(s, N \cup M, id) = {} THEN "UNKNOWN"
                               ELSE s[FirstOf(Typed(s, N \cup M, id))].type
             /\ all[id].name = IF Labelled(s, N \cup M, id) = {} THEN None
                               ELSE s[FirstOf(Labelled(s, N \cup M, id))].name
             /\ all[id].evidence = {s[n].evidence : n \in At(s, N \cup M, id)}
  <2> DEFINE TN == Typed(s, N, id) TM == Typed(s, M, id)
             LN == Labelled(s, N, id) LM == Labelled(s, M, id)
             AN == At(s, N, id) AM == At(s, M, id)
  <2>1. /\ At(s, N \cup M, id) = AN \cup AM
        /\ Typed(s, N \cup M, id) = TN \cup TM
        /\ Labelled(s, N \cup M, id) = LN \cup LM
    BY DEF At, Typed, Labelled
  <2>2. /\ TN \subseteq AN /\ LN \subseteq AN /\ TM \subseteq AM /\ LM \subseteq AM
        /\ AN \subseteq N /\ AM \subseteq M
        /\ \A n \in TN \cup TM : s[n].type # "UNKNOWN"
        /\ \A n \in LN \cup LM : s[n].name # None
        /\ id \notin DOMAIN os => AN = {}
        /\ id \notin DOMAIN new => AM = {}
    BY DEF At, Typed, Labelled, Describes
  <2>3. /\ id \in DOMAIN os =>
             /\ os[id].type = IF TN = {} THEN "UNKNOWN" ELSE s[FirstOf(TN)].type
             /\ os[id].name = IF LN = {} THEN None ELSE s[FirstOf(LN)].name
             /\ os[id].evidence = {s[n].evidence : n \in AN}
        /\ id \in DOMAIN new =>
             /\ new[id].type = IF TM = {} THEN "UNKNOWN" ELSE s[FirstOf(TM)].type
             /\ new[id].name = IF LM = {} THEN None ELSE s[FirstOf(LM)].name
             /\ new[id].evidence = {s[n].evidence : n \in AM}
    BY DEF Describes
  <2> HIDE DEF TN, TM, LN, LM, AN, AM
  <2>4. /\ TN # {} => FirstOf(TN) \in TN
        /\ LN # {} => FirstOf(LN) \in LN
        /\ TN \subseteq Nat /\ TM \subseteq Nat /\ LN \subseteq Nat /\ LM \subseteq Nat
        /\ \A m \in TN, n \in TM : m < n
        /\ \A m \in LN, n \in LM : m < n
    BY <2>2, FirstIsThere
  <2>5. /\ TN # {} => FirstOf(TN \cup TM) = FirstOf(TN)
        /\ TN = {} => FirstOf(TN \cup TM) = FirstOf(TM)
    BY <2>4, FirstOfBoth
  <2>6. /\ LN # {} => FirstOf(LN \cup LM) = FirstOf(LN)
        /\ LN = {} => FirstOf(LN \cup LM) = FirstOf(LM)
    BY <2>4, FirstOfBoth
  <2>7. all[id].type = IF TN \cup TM = {} THEN "UNKNOWN" ELSE s[FirstOf(TN \cup TM)].type
    <3>1. CASE id \notin DOMAIN new
      BY <1>1, <1>3, <2>2, <2>3, <2>5, <3>1
    <3>2. CASE id \in DOMAIN new /\ id \notin DOMAIN os
      BY <1>1, <2>2, <2>3, <2>5, <3>2
    <3>3. CASE id \in DOMAIN new /\ id \in DOMAIN os
      <4>1. all[id].type = ResolvedType(os[id].type, new[id].type)
        BY <1>1, <3>3, MergedParts
      <4> QED
        BY <2>2, <2>3, <2>4, <2>5, <3>3, <4>1 DEF ResolvedType
    <3> QED
      BY <3>1, <3>2, <3>3
  <2>8. all[id].name = IF LN \cup LM = {} THEN None ELSE s[FirstOf(LN \cup LM)].name
    <3>1. CASE id \notin DOMAIN new
      BY <1>1, <1>3, <2>2, <2>3, <2>6, <3>1
    <3>2. CASE id \in DOMAIN new /\ id \notin DOMAIN os
      BY <1>1, <2>2, <2>3, <2>6, <3>2
    <3>3. CASE id \in DOMAIN new /\ id \in DOMAIN os
      <4>1. all[id].name = OrElse(os[id].name, new[id].name)
        BY <1>1, <3>3, MergedParts
      <4> QED
        BY <2>2, <2>3, <2>4, <2>6, <3>3, <4>1 DEF OrElse
    <3> QED
      BY <3>1, <3>2, <3>3
  <2>9. all[id].evidence = {s[n].evidence : n \in AN \cup AM}
    <3>1. CASE id \in DOMAIN new /\ id \in DOMAIN os
      <4>1. all[id].evidence = os[id].evidence \cup new[id].evidence
        BY <1>1, <3>1, MergedParts
      <4> QED
        BY <2>3, <3>1, <4>1
    <3>2. CASE id \notin DOMAIN new \/ id \notin DOMAIN os
      BY <1>1, <1>3, <2>2, <2>3, <3>2
    <3> QED
      BY <3>1, <3>2
  <2> QED
    BY <2>1, <2>7, <2>8, <2>9
<1>4. Describes(all, s, N \cup M)
  BY <1>2, <1>3 DEF Describes
<1> QED
  BY <1>4 DEF all

LEMMA NothingDescribes == \A s : Describes(<<>>, s, {})
  BY DEF Describes

(* One more thing told. *)
LEMMA AddingDescribes ==
    ASSUME NEW os, NEW s, NEW N, N \subseteq Nat, NEW n \in Nat, \A m \in N : m < n,
           Describes(os, s, N), s[n].id # None
    PROVE  Describes(AddObject(os, s[n]), s, N \cup {n})
<1> DEFINE t == s[n]
           one == [i \in {t.id} |-> NewObject(t)]
<1>1. DOMAIN one = {t.id} /\ one[t.id] = NewObject(t)
  OBVIOUS
<1>2. Describes(one, s, {n})
  <2>1. /\ At(s, {n}, t.id) = {n}
        /\ Typed(s, {n}, t.id) = IF t.type = "UNKNOWN" THEN {} ELSE {n}
        /\ Labelled(s, {n}, t.id) = IF t.name = None THEN {} ELSE {n}
    BY DEF At, Typed, Labelled
  <2>2. FirstOf({n}) = n
    BY FirstIsThere
  <2>3. /\ one[t.id].type = t.type /\ one[t.id].name = t.name
        /\ one[t.id].evidence = {t.evidence}
    BY <1>1, NewParts
  <2>4. DOMAIN one = {s[m].id : m \in {n}}
    BY <1>1
  <2> HIDE DEF one
  <2>5. \A id \in DOMAIN one : id = t.id
    BY <1>1
  <2>6. {s[m].evidence : m \in At(s, {n}, t.id)} = {t.evidence}
    BY <2>1
  <2>7. one[t.id].type = IF Typed(s, {n}, t.id) = {} THEN "UNKNOWN"
                         ELSE s[FirstOf(Typed(s, {n}, t.id))].type
    BY <2>1, <2>2, <2>3
  <2>8. one[t.id].name = IF Labelled(s, {n}, t.id) = {} THEN None
                         ELSE s[FirstOf(Labelled(s, {n}, t.id))].name
    BY <2>1, <2>2, <2>3
  <2> HIDE DEF t
  <2> QED
    BY <2>3, <2>4, <2>5, <2>6, <2>7, <2>8 DEF Describes
<1>3. AddObject(os, t) = AddObjects(os, one)
  <2>1. AddObject(os, t) =
          [i \in DOMAIN os \cup {t.id} |->
             IF i # t.id THEN os[i]
             ELSE IF i \in DOMAIN os THEN Merged(os[i], NewObject(t)) ELSE NewObject(t)]
    BY DEF AddObject
  <2>2. AddObjects(os, one) =
          [i \in DOMAIN os \cup {t.id} |->
             IF i # t.id THEN os[i]
             ELSE IF i \in DOMAIN os THEN Merged(os[i], NewObject(t)) ELSE NewObject(t)]
    <3> HIDE DEF one, t
    <3> QED
      BY <1>1 DEF AddObjects
  <2> QED
    BY <2>1, <2>2
<1>4. {n} \subseteq Nat /\ \A m \in N, k \in {n} : m < k
  OBVIOUS
<1> HIDE DEF one
<1>5. Describes(AddObjects(os, one), s, N \cup {n})
  BY <1>2, <1>4, MergingDescribes
<1> QED
  BY <1>3, <1>5

-----------------------------------------------------------------------------
LEMMA ImageIsFinite ==
    ASSUME NEW S, IsFiniteSet(S), NEW T, NEW f \in [S -> T], \A t \in T : \E s \in S : f[s] = t
    PROVE  IsFiniteSet(T)
<1>1. f \in Surjection(S, T)
  BY DEF Surjection
<1> QED
  BY <1>1, FS_Surjection

(* A finite set of numbers that is not empty has a greatest one.            *)
LEMMA GreatestOf ==
    ASSUME NEW S, S \subseteq Nat, IsFiniteSet(S), S # {}
    PROVE  \E n \in S : \A m \in S : m <= n
<1> DEFINE Topped(T) == \E n \in T : \A m \in T : m <= n
           Bad == {T \in SUBSET S : T # {} /\ ~Topped(T)}
           Sizes == {Cardinality(T) : T \in Bad}
<1> SUFFICES ASSUME ~Topped(S) PROVE FALSE
  OBVIOUS
<1>1. \A T \in SUBSET S : IsFiniteSet(T) /\ Cardinality(T) \in Nat
  BY FS_Subset, FS_CardinalityType
<1>2. Sizes \subseteq Nat /\ Sizes # {}
  BY <1>1
<1>3. PICK T \in Bad : \A U \in Bad : Cardinality(T) <= Cardinality(U)
  <2>1. PICK k \in Sizes : \A j \in Sizes : k <= j
    BY <1>2, SmallestOf, Zenon
  <2> QED
    BY <2>1
<1>4. PICK x \in T : TRUE
  OBVIOUS
<1>5. Cardinality(T \ {x}) = Cardinality(T) - 1
  BY <1>1, FS_RemoveElement
<1>6. Cardinality(T) \in Nat /\ Cardinality(T \ {x}) \in Nat
  BY <1>1
<1>7. T \ {x} \notin Bad
  <2>1. ASSUME T \ {x} \in Bad PROVE FALSE
    <3>1. Cardinality(T) <= Cardinality(T \ {x})
      BY <1>3, <2>1
    <3> QED
      BY <1>5, <1>6, <3>1
  <2> QED
    BY <2>1
<1>8. CASE T = {x}
  <2>1. x <= x
    BY <1>4
  <2> QED
    BY <1>8, <2>1
<1>9. CASE T # {x}
  <2>1. PICK n \in T \ {x} : \A m \in T \ {x} : m <= n
    BY <1>7, <1>9
  <2>2. n \in Nat /\ x \in Nat /\ T \subseteq Nat
    BY <1>4
  <2>3. n <= x => \A m \in T : m <= x
    BY <2>1, <2>2
  <2>4. ~(n <= x) => \A m \in T : m <= n
    BY <2>1, <2>2
  <2> QED
    BY <2>3, <2>4
<1> QED
  BY <1>8, <1>9

LEMMA LatestIsThere ==
    ASSUME NEW kept, kept \subseteq Request, IsFiniteSet(kept), kept # {}
    PROVE  Latest(kept) \in kept /\ \A q \in kept : q.time <= Latest(kept).time
<1>0. \A r \in kept : r.time \in Nat /\ r.tsn \in Nat
  BY DEF Request
<1> DEFINE times == {r.time : r \in kept}
<1>1. PICK t \in times : \A u \in times : u <= t
  <2>1. times \subseteq Nat /\ times # {}
    BY <1>0
  <2>2. IsFiniteSet(times)
    <3> DEFINE f == [r \in kept |-> r.time]
    <3>1. f \in [kept -> times] /\ \A u \in times : \E r \in kept : f[r] = u
      OBVIOUS
    <3> HIDE DEF f, times
    <3> QED
      BY <3>1, ImageIsFinite
  <2> HIDE DEF times
  <2> QED
    BY <2>1, <2>2, GreatestOf
<1> DEFINE last == {r \in kept : r.time = t}
           numbers == {r.tsn : r \in last}
<1>2. PICK n \in numbers : \A m \in numbers : m <= n
  <2>1. last # {} /\ last \subseteq kept
    BY <1>1
  <2>2. numbers \subseteq Nat /\ numbers # {}
    BY <1>0, <2>1
  <2>3. IsFiniteSet(last)
    BY <2>1, FS_Subset
  <2>4. IsFiniteSet(numbers)
    <3> DEFINE f == [r \in last |-> r.tsn]
    <3>1. f \in [last -> numbers] /\ \A u \in numbers : \E r \in last : f[r] = u
      <4> HIDE DEF last
      <4> QED
        OBVIOUS
    <3> HIDE DEF f, last, numbers
    <3> QED
      BY <2>3, <3>1, ImageIsFinite
  <2> HIDE DEF numbers
  <2> QED
    BY <2>2, <2>4, GreatestOf
<1>3. PICK r \in kept : r.time = t /\ r.tsn = n
  BY <1>2
<1>4. \A q \in kept : ~Later(q, r)
  <2>1. SUFFICES ASSUME NEW q \in kept, Later(q, r) PROVE FALSE
    OBVIOUS
  <2>2. q.time <= t /\ q.time \in Nat /\ t \in Nat /\ n \in Nat /\ q.tsn \in Nat
    BY <1>0, <1>1, <1>3
  <2>3. q.time = t => q.tsn <= n
    BY <1>2
  <2> QED
    BY <1>3, <2>1, <2>2, <2>3 DEF Later
<1>5. Latest(kept) \in kept /\ \A q \in kept : ~Later(q, Latest(kept))
  BY <1>4 DEF Latest
<1>6. \A q \in kept : q.time <= Latest(kept).time
  BY <1>0, <1>5 DEF Later
<1> QED
  BY <1>5, <1>6

(* The requests that are kept of those that were told: each number once,    *)
(* and with a time that was told for it.                                    *)
Faithful(kept, heard) ==
    /\ kept \subseteq Request /\ IsFiniteSet(kept)
    /\ {r.tsn : r \in kept} = {r.tsn : r \in heard}
    /\ \A r, q \in kept : r.tsn = q.tsn /\ r.tsn # 0 => r = q
    /\ \A r \in kept : \E q \in heard : q.tsn = r.tsn /\ q.time = r.time

LEMMA LatestOfThem ==
    ASSUME NEW kept, kept \subseteq Request, IsFiniteSet(kept)
    PROVE  LatestOf(kept) \subseteq kept
  BY LatestIsThere DEF LatestOf

LEMMA FirstTellingIsThere ==
    ASSUME NEW lists, NEW k \in 1..4, lists[k] # {}
    PROVE  \E n \in 1..4 : FirstTelling(lists) \in lists[n]
<1> DEFINE filled == {m \in 1..4 : lists[m] # {}}
           n == CHOOSE m \in 1..4 : lists[m] # {} /\ \A j \in 1..m - 1 : lists[j] = {}
<1>1. filled \subseteq Nat /\ filled # {}
  OBVIOUS
<1>2. PICK m \in filled : \A j \in filled : m <= j
  BY <1>1, SmallestOf, Zenon
<1>3. \A j \in 1..m - 1 : lists[j] = {}
  <2>1. SUFFICES ASSUME NEW j \in 1..m - 1, lists[j] # {} PROVE FALSE
    OBVIOUS
  <2>2. j \in filled
    BY <2>1
  <2> QED
    BY <1>2, <2>2
<1>4. n \in 1..4 /\ lists[n] # {}
  BY <1>2, <1>3
<1>5. FirstTelling(lists) = CHOOSE r \in lists[n] : TRUE
  BY DEF FirstTelling
<1> HIDE DEF n
<1> QED
  BY <1>4, <1>5

LEMMA MergedRequestIsHeard ==
    ASSUME NEW a, NEW b, a \subseteq Request, b \subseteq Request, IsFiniteSet(a), IsFiniteSet(b),
           NEW t, NEW o \in a \cup b, o.tsn = t, t # 0
    PROVE  /\ MergedRequest(a, b, t) \in Request /\ MergedRequest(a, b, t).tsn = t
           /\ \E q \in a \cup b : q.tsn = t /\ q.time = MergedRequest(a, b, t).time
<1> DEFINE lists == ByPrecedence(a, b)
           timed == [n \in 1..4 |-> {r \in lists[n] : r.tsn = t /\ r.time # 0}]
           rated == [n \in 1..4 |-> {r \in lists[n] : r.tsn = t /\ r.status # None}]
           whenTold == IF UNION {timed[n] : n \in 1..4} = {} THEN 0 ELSE FirstTelling(timed).time
           howTold == IF UNION {rated[n] : n \in 1..4} = {} THEN None
                      ELSE FirstTelling(rated).status
<1>1. MergedRequest(a, b, t) = [tsn |-> t, time |-> whenTold, status |-> howTold]
  BY DEF MergedRequest
<1>2. /\ lists[1] \subseteq b /\ lists[2] \subseteq a /\ lists[3] = b /\ lists[4] = a
  BY LatestOfThem DEF ByPrecedence
<1>3. \A n \in 1..4 : lists[n] \subseteq a \cup b
  BY <1>2
<1>4. \E n \in 1..4 : o \in lists[n]
  BY <1>2
<1>5. \A q \in a \cup b : q.tsn \in Nat /\ q.time \in Nat /\ q.status \in Optional(Names)
  BY DEF Request
<1> HIDE DEF lists
<1>6. /\ DOMAIN timed = 1..4 /\ DOMAIN rated = 1..4
      /\ \A n \in 1..4 : timed[n] = {r \in lists[n] : r.tsn = t /\ r.time # 0}
      /\ \A n \in 1..4 : rated[n] = {r \in lists[n] : r.tsn = t /\ r.status # None}
  OBVIOUS
<1> HIDE DEF timed, rated
<1>7. \E q \in a \cup b : q.tsn = t /\ q.time = whenTold
  <2>1. CASE UNION {timed[n] : n \in 1..4} = {}
    <3>1. \A n \in 1..4 : timed[n] = {}
      BY <2>1
    <3>2. o.time = 0
      BY <1>4, <1>6, <3>1
    <3> QED
      BY <2>1, <3>2
  <2>2. CASE UNION {timed[n] : n \in 1..4} # {}
    <3>1. PICK k \in 1..4 : timed[k] # {}
      BY <2>2
    <3>2. PICK n \in 1..4 : FirstTelling(timed) \in timed[n]
      BY <3>1, FirstTellingIsThere
    <3> QED
      BY <1>3, <1>6, <2>2, <3>2
  <2> QED
    BY <2>1, <2>2
<1>8. howTold \in Optional(Names)
  <2>1. CASE UNION {rated[n] : n \in 1..4} = {}
    BY <2>1 DEF Optional
  <2>2. CASE UNION {rated[n] : n \in 1..4} # {}
    <3>1. PICK k \in 1..4 : rated[k] # {}
      BY <2>2
    <3>2. PICK n \in 1..4 : FirstTelling(rated) \in rated[n]
      BY <3>1, FirstTellingIsThere
    <3> QED
      BY <1>3, <1>5, <1>6, <2>2, <3>2
  <2> QED
    BY <2>1, <2>2
<1>9. t \in Nat /\ whenTold \in Nat
  BY <1>5, <1>7
<1> HIDE DEF whenTold, howTold
<1> QED
  BY <1>1, <1>7, <1>8, <1>9 DEF Request

LEMMA MergeIsFaithful ==
    ASSUME NEW a, NEW b, NEW A, NEW B, Faithful(a, A), Faithful(b, B)
    PROVE  Faithful(MergeFreshness(a, b), A \cup B)
<1>1. CASE a = {}
  <2>1. {r.tsn : r \in A} = {}
    BY <1>1 DEF Faithful
  <2>2. A = {}
    BY <2>1
  <2>3. A \cup B = B /\ MergeFreshness(a, b) = b
    BY <1>1, <2>2 DEF MergeFreshness
  <2> QED
    BY <2>3
<1>2. CASE b = {} /\ a # {}
  <2>1. {r.tsn : r \in B} = {}
    BY <1>2 DEF Faithful
  <2>2. B = {}
    BY <2>1
  <2>3. A \cup B = A /\ MergeFreshness(a, b) = a
    BY <1>2, <2>2 DEF MergeFreshness
  <2> QED
    BY <2>3
<1>3. CASE a # {} /\ b # {}
  <2> DEFINE all == a \cup b
             numbered == {r.tsn : r \in all} \ {0}
             plain == {r \in all : r.tsn = 0}
             merged == {MergedRequest(a, b, t) : t \in numbered}
  <2>1. MergeFreshness(a, b) = plain \cup merged
    BY <1>3 DEF MergeFreshness, MergeRequests
  <2>2. all \subseteq Request /\ IsFiniteSet(all) /\ IsFiniteSet(a) /\ IsFiniteSet(b)
    BY FS_Union DEF Faithful
  <2>3. \A t \in numbered :
          /\ MergedRequest(a, b, t) \in Request /\ MergedRequest(a, b, t).tsn = t
          /\ \E q \in all : q.tsn = t /\ q.time = MergedRequest(a, b, t).time
    <3>1. SUFFICES ASSUME NEW t \in numbered
                   PROVE  /\ MergedRequest(a, b, t) \in Request /\ MergedRequest(a, b, t).tsn = t
                          /\ \E q \in all : q.tsn = t /\ q.time = MergedRequest(a, b, t).time
      OBVIOUS
    <3>2. PICK o \in all : o.tsn = t /\ t # 0
      OBVIOUS
    <3> QED
      BY <2>2, <3>2, MergedRequestIsHeard
  <2>4. IsFiniteSet(plain)
    BY <2>2, FS_Subset
  <2>5. IsFiniteSet(numbered)
    <3>1. IsFiniteSet({r.tsn : r \in all})
      <4> DEFINE T == {r.tsn : r \in all}
                 f == [r \in all |-> r.tsn]
      <4>1. f \in [all -> T] /\ \A u \in T : \E r \in all : f[r] = u
        <5> HIDE DEF all
        <5> QED
          OBVIOUS
      <4>2. IsFiniteSet(T)
        <5> HIDE DEF f, T, all
        <5> QED
          BY <2>2, <4>1, ImageIsFinite
      <4> QED
        BY <4>2
    <3> QED
      BY <3>1, FS_Subset
  <2>6. IsFiniteSet(merged)
    <3> DEFINE f == [t \in numbered |-> MergedRequest(a, b, t)]
    <3>1. f \in [numbered -> merged] /\ \A u \in merged : \E t \in numbered : f[t] = u
      <4> HIDE DEF numbered
      <4> QED
        OBVIOUS
    <3> HIDE DEF f, numbered, merged
    <3> QED
      BY <2>5, <3>1, ImageIsFinite
  <2>7. IsFiniteSet(plain \cup merged)
    BY <2>4, <2>6, FS_Union
  <2>8. plain \cup merged \subseteq Request
    BY <2>2, <2>3
  <2>9. {r.tsn : r \in plain \cup merged} = {r.tsn : r \in all}
    <3>1. \A t \in numbered : MergedRequest(a, b, t) \in merged /\ MergedRequest(a, b, t).tsn = t
      BY <2>3
    <3>2. \A r \in merged : r.tsn \in numbered
      BY <2>3
    <3> HIDE DEF merged
    <3> QED
      BY <3>1, <3>2
  <2>10. {r.tsn : r \in all} = {r.tsn : r \in A \cup B}
    <3>1. /\ {r.tsn : r \in a} = {r.tsn : r \in A}
          /\ {r.tsn : r \in b} = {r.tsn : r \in B}
      BY DEF Faithful
    <3>2. /\ {r.tsn : r \in all} = {r.tsn : r \in a} \cup {r.tsn : r \in b}
          /\ {r.tsn : r \in A \cup B} = {r.tsn : r \in A} \cup {r.tsn : r \in B}
      OBVIOUS
    <3> QED
      BY <3>1, <3>2
  <2>11. \A r, q \in plain \cup merged : r.tsn = q.tsn /\ r.tsn # 0 => r = q
    <3>1. \A r \in merged : r = MergedRequest(a, b, r.tsn)
      BY <2>3
    <3>2. \A r \in plain : r.tsn = 0
      OBVIOUS
    <3> HIDE DEF plain, merged
    <3> QED
      BY <3>1, <3>2
  <2>12. \A r \in all : \E q \in A \cup B : q.tsn = r.tsn /\ q.time = r.time
    BY DEF Faithful
  <2>13. \A r \in plain \cup merged : \E q \in all : q.tsn = r.tsn /\ q.time = r.time
    BY <2>3
  <2>14. \A r \in plain \cup merged : \E q \in A \cup B : q.tsn = r.tsn /\ q.time = r.time
    BY <2>12, <2>13
  <2> HIDE DEF all, numbered, plain, merged
  <2> QED
    BY <2>1, <2>7, <2>8, <2>9, <2>10, <2>11, <2>14 DEF Faithful
<1> QED
  BY <1>1, <1>2, <1>3

-----------------------------------------------------------------------------
(* Payloads tell of each request once: what a payload lists is kept as it   *)
(* is, so a request that it lists twice would be kept twice.                *)
RequestsOnce(requests) ==
    /\ IsFiniteSet(requests)
    /\ \A r, q \in requests : r.tsn = q.tsn /\ r.tsn # 0 => r = q

EachRequestOnce ==
    \A m \in Manifests : \A n \in DOMAIN m : m[n].kind = "requests" => RequestsOnce(m[n].requests)

RequestsAt(s, N, id) == UNION {s[n].requests : n \in At(s, N, id)}

Fresh(os, s, N) == \A id \in DOMAIN os : Faithful(os[id].requests, RequestsAt(s, N, id))

(* The catalog keeps what was told at the places N of a list.               *)
Keeps(os, s, N) == Describes(os, s, N) /\ (EachRequestOnce => Fresh(os, s, N))

IsList(s) == s \in Seq({s[i] : i \in DOMAIN s})

(* What was told is that of the payloads that are merged, and after it that *)
(* of the payload that is parsed.                                           *)
ToldInv ==
    /\ Inv
    /\ manifest \in Manifests
    /\ IsList(told)
    /\ \E m \in 0..Len(told) :
         /\ Keeps(objects, told, 1..m)
         /\ phase = "parse" => Keeps(localObjects, told, m + 1..Len(told))
         /\ phase = "read" => m = Len(told)

-----------------------------------------------------------------------------
(* Lists. *)

LEMMA Appended ==
    ASSUME NEW s, NEW x, IsList(s)
    PROVE  /\ IsList(Append(s, x)) /\ Len(s) \in Nat /\ DOMAIN s = 1..Len(s)
           /\ Len(Append(s, x)) = Len(s) + 1 /\ Append(s, x)[Len(s) + 1] = x
           /\ \A n \in 1..Len(s) : Append(s, x)[n] = s[n]
<1> DEFINE S == {s[i] : i \in DOMAIN s} \cup {x}
           z == Append(s, x)
<1>1. s \in Seq(S)
  <2>1. {s[i] : i \in DOMAIN s} \subseteq S
    OBVIOUS
  <2>2. s \in Seq({s[i] : i \in DOMAIN s})
    BY DEF IsList
  <2>3. \A A, B : A \subseteq B => Seq(A) \subseteq Seq(B)
    OBVIOUS
  <2> HIDE DEF S
  <2> QED
    BY <2>1, <2>2, <2>3
<1>2. x \in S
  OBVIOUS
<1> HIDE DEF S
<1>3. /\ z \in Seq(S) /\ Len(s) \in Nat /\ DOMAIN s = 1..Len(s) /\ Len(z) = Len(s) + 1
      /\ z[Len(s) + 1] = x /\ \A n \in 1..Len(s) : z[n] = s[n]
  BY <1>1, <1>2
<1> HIDE DEF z
<1>4. z \in Seq({z[i] : i \in DOMAIN z})
  <2>1. Len(z) \in Nat /\ DOMAIN z = 1..Len(z) /\ z = [i \in 1..Len(z) |-> z[i]]
    BY <1>3
  <2>2. z \in [1..Len(z) -> {z[i] : i \in DOMAIN z}]
    BY <2>1
  <2> QED
    BY <2>1, <2>2
<1> QED
  BY <1>3, <1>4 DEF z, IsList

LEMMA AppendedTwice ==
    ASSUME NEW s, NEW x, NEW y, IsList(s)
    PROVE  s \o <<x, y>> = Append(Append(s, x), y)
<1> DEFINE S == {s[i] : i \in DOMAIN s} \cup {x, y}
<1>1. s \in Seq(S)
  <2>1. {s[i] : i \in DOMAIN s} \subseteq S
    OBVIOUS
  <2>2. s \in Seq({s[i] : i \in DOMAIN s})
    BY DEF IsList
  <2>3. \A A, B : A \subseteq B => Seq(A) \subseteq Seq(B)
    OBVIOUS
  <2> HIDE DEF S
  <2> QED
    BY <2>1, <2>2, <2>3
<1>2. x \in S /\ y \in S
  OBVIOUS
<1> HIDE DEF S
<1> QED
  BY <1>1, <1>2

-----------------------------------------------------------------------------
(* What a catalog keeps. *)

LEMMA KeepsAgrees ==
    ASSUME NEW os, NEW s, NEW z, NEW N, N \subseteq Nat,
           \A n \in N : s[n] = z[n], Keeps(os, s, N)
    PROVE  Keeps(os, z, N)
<1>1. /\ {s[n].id : n \in N} = {z[n].id : n \in N}
      /\ \A id : /\ At(s, N, id) = At(z, N, id)
                 /\ Typed(s, N, id) = Typed(z, N, id) /\ Labelled(s, N, id) = Labelled(z, N, id)
                 /\ Typed(s, N, id) \subseteq N /\ Labelled(s, N, id) \subseteq N
                 /\ {s[n].evidence : n \in At(s, N, id)} = {z[n].evidence : n \in At(z, N, id)}
                 /\ RequestsAt(s, N, id) = RequestsAt(z, N, id)
  BY DEF At, Typed, Labelled, RequestsAt
<1>2. \A T : T \subseteq N /\ T # {} /\ N \subseteq Nat => z[FirstOf(T)] = s[FirstOf(T)]
  BY FirstIsThere
<1>3. ASSUME NEW id \in DOMAIN os
      PROVE  /\ os[id].type = IF Typed(z, N, id) = {} THEN "UNKNOWN"
                               ELSE z[FirstOf(Typed(z, N, id))].type
             /\ os[id].name = IF Labelled(z, N, id) = {} THEN None
                               ELSE z[FirstOf(Labelled(z, N, id))].name
             /\ os[id].evidence = {z[n].evidence : n \in At(z, N, id)}
  <2>1. /\ os[id].type = IF Typed(s, N, id) = {} THEN "UNKNOWN"
                          ELSE s[FirstOf(Typed(s, N, id))].type
        /\ os[id].name = IF Labelled(s, N, id) = {} THEN None
                          ELSE s[FirstOf(Labelled(s, N, id))].name
        /\ os[id].evidence = {s[n].evidence : n \in At(s, N, id)}
    BY DEF Keeps, Describes
  <2> QED
    BY <1>1, <1>2, <2>1
<1>4. Describes(os, z, N)
  BY <1>1, <1>3 DEF Keeps, Describes
<1>5. EachRequestOnce => Fresh(os, z, N)
  BY <1>1 DEF Keeps, Fresh
<1> QED
  BY <1>4, <1>5 DEF Keeps

LEMMA NothingKept == \A s : Keeps(<<>>, s, {})
<1>1. DOMAIN <<>> = {}
  OBVIOUS
<1> QED
  BY <1>1, NothingDescribes DEF Keeps, Fresh

LEMMA NothingHeard == Faithful({}, {})
  BY FS_EmptySet DEF Faithful

LEMMA MergingKeeps ==
    ASSUME NEW os, NEW new, NEW s, NEW N, NEW M, N \subseteq Nat, M \subseteq Nat,
           \A m \in N, n \in M : m < n, Keeps(os, s, N), Keeps(new, s, M)
    PROVE  Keeps(AddObjects(os, new), s, N \cup M)
<1> DEFINE all == AddObjects(os, new)
<1>1. Describes(all, s, N \cup M)
  BY MergingDescribes DEF Keeps
<1>2. /\ DOMAIN all = DOMAIN os \cup DOMAIN new
      /\ \A i \in DOMAIN all : all[i] = IF i \notin DOMAIN new THEN os[i]
                                        ELSE IF i \in DOMAIN os THEN Merged(os[i], new[i])
                                        ELSE new[i]
  BY AddedObjects
<1> HIDE DEF all
<1>3. ASSUME EachRequestOnce, NEW id \in DOMAIN all
      PROVE  Faithful(all[id].requests, RequestsAt(s, N \cup M, id))
  <2>1. RequestsAt(s, N \cup M, id) = RequestsAt(s, N, id) \cup RequestsAt(s, M, id)
    BY DEF RequestsAt, At
  <2>2. /\ id \in DOMAIN os => Faithful(os[id].requests, RequestsAt(s, N, id))
        /\ id \in DOMAIN new => Faithful(new[id].requests, RequestsAt(s, M, id))
    BY <1>3 DEF Keeps, Fresh
  <2>3. /\ id \notin DOMAIN os => RequestsAt(s, N, id) = {}
        /\ id \notin DOMAIN new => RequestsAt(s, M, id) = {}
    BY DEF Keeps, Describes, RequestsAt, At
  <2>4. CASE id \notin DOMAIN new
    BY <1>2, <1>3, <2>1, <2>2, <2>3, <2>4
  <2>5. CASE id \in DOMAIN new /\ id \notin DOMAIN os
    BY <1>2, <2>1, <2>2, <2>3, <2>5
  <2>6. CASE id \in DOMAIN new /\ id \in DOMAIN os
    <3>1. all[id].requests = MergeFreshness(os[id].requests, new[id].requests)
      BY <1>2, <2>6, MergedParts
    <3>2. Faithful(MergeFreshness(os[id].requests, new[id].requests),
                   RequestsAt(s, N, id) \cup RequestsAt(s, M, id))
      BY <2>2, <2>6, MergeIsFaithful
    <3> QED
      BY <2>1, <3>1, <3>2
  <2> QED
    BY <2>4, <2>5, <2>6
<1> QED
  BY <1>1, <1>3 DEF Keeps, Fresh, all

LEMMA AddingKeeps ==
    ASSUME NEW os, NEW s, NEW N, N \subseteq Nat, NEW n \in Nat, \A m \in N : m < n,
           Keeps(os, s, N), s[n].id # None,
           EachRequestOnce => Faithful(s[n].requests, s[n].requests)
    PROVE  Keeps(AddObject(os, s[n]), s, N \cup {n})
<1> DEFINE t == s[n]
           after == AddObject(os, t)
<1>1. Describes(after, s, N \cup {n})
  BY AddingDescribes DEF Keeps
<1>2. after = [i \in DOMAIN os \cup {t.id} |->
                 IF i # t.id THEN os[i]
                 ELSE IF i \in DOMAIN os THEN Merged(os[i], NewObject(t)) ELSE NewObject(t)]
  BY DEF AddObject
<1> HIDE DEF after
<1>3. ASSUME EachRequestOnce, NEW id \in DOMAIN after
      PROVE  Faithful(after[id].requests, RequestsAt(s, N \cup {n}, id))
  <2>1. /\ id # t.id => RequestsAt(s, N \cup {n}, id) = RequestsAt(s, N, id)
        /\ id = t.id => RequestsAt(s, N \cup {n}, id) = RequestsAt(s, N, id) \cup t.requests
    BY DEF RequestsAt, At
  <2>2. id \in DOMAIN os => Faithful(os[id].requests, RequestsAt(s, N, id))
    BY <1>3 DEF Keeps, Fresh
  <2>3. id \notin DOMAIN os => RequestsAt(s, N, id) = {}
    BY DEF Keeps, Describes, RequestsAt, At
  <2>4. Faithful(t.requests, t.requests) /\ NewObject(t).requests = t.requests
    BY <1>3, NewParts
  <2> HIDE DEF t
  <2>5. CASE id # t.id
    BY <1>2, <1>3, <2>1, <2>2, <2>5
  <2>6. CASE id = t.id /\ id \notin DOMAIN os
    BY <1>2, <2>1, <2>3, <2>4, <2>6
  <2>7. CASE id = t.id /\ id \in DOMAIN os
    <3>1. after[id] = Merged(os[id], NewObject(t))
      BY <1>2, <2>7
    <3>2. after[id].requests = MergeFreshness(os[id].requests, t.requests)
      BY <2>4, <3>1, MergedParts
    <3>3. Faithful(MergeFreshness(os[id].requests, t.requests),
                   RequestsAt(s, N, id) \cup t.requests)
      BY <2>2, <2>4, <2>7, MergeIsFaithful
    <3> QED
      BY <2>1, <2>7, <3>2, <3>3
  <2> QED
    BY <2>5, <2>6, <2>7
<1> QED
  BY <1>1, <1>3 DEF Keeps, Fresh, after

-----------------------------------------------------------------------------
(* Only a payload about requests tells requests, of what it is about.       *)


LEMMA HeadRequests ==
    ASSUME NEW p \in Payloads
    PROVE  \/ ParsePayload(p).head.requests = {}
           \/ /\ p.kind = "requests" /\ p.requests \subseteq Request
              /\ ParsePayload(p).head.requests = p.requests
<1>0. /\ Nothing.requests = {} /\ NothingParsed.head = Nothing
      /\ \A tag, n, id, type, name : Told(p.id, tag, n, id, type, name).requests = {}
  BY ToldParts, ParsedParts DEF Nothing, NothingParsed
<1>1. CASE p.kind = "graph"
  BY <1>0, <1>1, ParsedParts DEF ParsePayload, ParseGraph
<1>2. CASE p.kind = "dataflow"
  BY <1>0, <1>2, ParsedParts DEF ParsePayload, ParseDataflow
<1>3. CASE p.kind = "chain"
  BY <1>0, <1>3, ParsedParts DEF ParsePayload, ParseChain
<1>4. CASE p.kind \in {"variant", "datasource", "adso", "source_system"}
  <2>1. \A type : ParseObject(p, type).head.requests = {}
    BY <1>0, ParsedParts DEF ParseObject
  <2>2. CASE p.kind = "variant"
    BY <2>1, <2>2 DEF ParsePayload, ParseVariant
  <2>3. CASE p.kind = "datasource"
    BY <2>1, <2>3 DEF ParsePayload, ParseDatasource
  <2>4. CASE p.kind = "adso"
    BY <2>1, <2>4 DEF ParsePayload, ParseAdso
  <2>5. CASE p.kind = "source_system"
    BY <2>1, <2>5 DEF ParsePayload, ParseSourceSystem
  <2> QED
    BY <1>4, <2>2, <2>3, <2>4, <2>5
<1>5. CASE p.kind = "dtp"
  BY <1>0, <1>5, ParsedParts DEF ParsePayload, ParseDtp
<1>6. CASE p.kind = "composite"
  BY <1>0, <1>6, ParsedParts DEF ParsePayload, ParseComposite
<1>7. CASE p.kind = "query"
  BY <1>0, <1>7, ParsedParts DEF ParsePayload, ParseQueryPayload
<1>8. CASE p.kind = "requests"
  <2>1. p \in RequestsPayload
    BY <1>8 DEF Payloads, GraphPayload, DataflowPayload, ChainPayload, ObjectPayload, DtpPayload,
                CompositePayload, QueryPayload, SearchPayload, ReferencesPayload, UnreadPayload
  <2>2. p.requests \subseteq Request
    BY <2>1 DEF RequestsPayload
  <2>3. ParsePayload(p) = ParseRequests(p)
    BY <1>8 DEF ParsePayload
  <2>4. CASE p.target = None
    BY <1>0, <2>3, <2>4 DEF ParseRequests
  <2>5. CASE p.target # None
    <3> DEFINE t == Told(p.id, "requests", 0, p.target, OrElse(p.type, "UNKNOWN"), None)
               h == [t EXCEPT !.requests = p.requests]
    <3>1. ParseRequests(p) = Parsed(h, <<>>, {})
      BY <2>5 DEF ParseRequests
    <3>2. h.requests = p.requests
      BY DEF Told
    <3> HIDE DEF h
    <3> QED
      BY <1>8, <2>2, <2>3, <3>1, <3>2, ParsedParts
  <2> QED
    BY <2>4, <2>5
<1>9. CASE p.kind = "search"
  BY <1>0, <1>9, ParsedParts DEF ParsePayload, ParseSearch
<1>10. CASE p.kind = "xref"
  BY <1>0, <1>10, ParsedParts DEF ParsePayload, ParseReferences
<1>11. CASE p.kind \notin {"graph", "dataflow", "chain", "variant", "datasource", "adso",
                           "source_system", "dtp", "composite", "query", "requests", "search",
                           "xref"}
  BY <1>0, <1>11 DEF ParsePayload
<1> QED
  BY <1>1, <1>2, <1>3, <1>4, <1>5, <1>6, <1>7, <1>8, <1>9, <1>10, <1>11

LEMMA HeadIsProper ==
    ASSUME NEW m \in Manifests, NEW n \in DOMAIN m, EachRequestOnce
    PROVE  Faithful(ParsePayload(m[n]).head.requests, ParsePayload(m[n]).head.requests)
<1> DEFINE rs == ParsePayload(m[n]).head.requests
<1>1. m[n] \in Payloads
  BY ManifestsAssumption
<1>2. rs = {} \/ (m[n].kind = "requests" /\ m[n].requests \subseteq Request /\ rs = m[n].requests)
  BY <1>1, HeadRequests
<1> HIDE DEF rs
<1>3. CASE rs = {}
  BY <1>3, NothingHeard DEF rs
<1>4. CASE m[n].kind = "requests" /\ m[n].requests \subseteq Request /\ rs = m[n].requests
  <2>1. RequestsOnce(m[n].requests)
    BY <1>4 DEF EachRequestOnce
  <2>2. Faithful(rs, rs)
    BY <1>4, <2>1 DEF RequestsOnce, Faithful
  <2> QED
    BY <2>2 DEF rs
<1> QED
  BY <1>2, <1>3, <1>4

-----------------------------------------------------------------------------
(* One thing more is told. *)
LEMMA Telling ==
    ASSUME NEW os, NEW local, NEW s, NEW m \in 0..Len(s), NEW t, IsList(s),
           Keeps(os, s, 1..m), Keeps(local, s, m + 1..Len(s)),
           EachRequestOnce => Faithful(t.requests, t.requests), t.id # None
    PROVE  /\ IsList(Append(s, t)) /\ m \in 0..Len(Append(s, t))
           /\ Keeps(os, Append(s, t), 1..m)
           /\ Keeps(AddObject(local, t), Append(s, t), m + 1..Len(Append(s, t)))
<1> DEFINE z == Append(s, t)
           L == Len(s)
<1>1. /\ IsList(z) /\ L \in Nat /\ Len(z) = L + 1 /\ z[L + 1] = t
      /\ \A n \in 1..L : z[n] = s[n]
  BY Appended
<1> HIDE DEF z, L
<1>2. /\ m \in Nat /\ m \in 0..Len(z) /\ 1..m \subseteq 1..L /\ m + 1..L \subseteq 1..L
      /\ m + 1..Len(z) = (m + 1..L) \cup {L + 1}
      /\ 1..m \subseteq Nat /\ m + 1..L \subseteq Nat /\ \A n \in m + 1..L : n < L + 1
  BY <1>1 DEF L
<1>3. Keeps(os, z, 1..m) /\ Keeps(local, z, m + 1..L)
  BY <1>1, <1>2, KeepsAgrees DEF L
<1>4. Keeps(AddObject(local, z[L + 1]), z, (m + 1..L) \cup {L + 1})
  <2> DEFINE N == m + 1..L
             n == L + 1
  <2>1. N \subseteq Nat /\ n \in Nat /\ \A i \in N : i < n
    BY <1>1, <1>2
  <2>2. Keeps(local, z, N) /\ z[n] = t
    BY <1>1, <1>3
  <2> HIDE DEF N, n
  <2>3. Keeps(AddObject(local, z[n]), z, N \cup {n})
    BY <2>1, <2>2, AddingKeeps
  <2> QED
    BY <2>3 DEF N, n
<1> QED
  BY <1>1, <1>2, <1>3, <1>4 DEF z

(* The same of what names no object, and is not told. *)
Extended(s, t) == IF t.id = None THEN s ELSE Append(s, t)

LEMMA TellingOrNot ==
    ASSUME NEW os, NEW local, NEW s, NEW m \in 0..Len(s), NEW t, IsList(s),
           Keeps(os, s, 1..m), Keeps(local, s, m + 1..Len(s)),
           EachRequestOnce => Faithful(t.requests, t.requests)
    PROVE  /\ IsList(Extended(s, t)) /\ m \in 0..Len(Extended(s, t))
           /\ Keeps(os, Extended(s, t), 1..m)
           /\ Keeps(AddObject(local, t), Extended(s, t), m + 1..Len(Extended(s, t)))
<1>1. CASE t.id = None
  BY <1>1 DEF Extended, AddObject
<1>2. CASE t.id # None
  BY <1>2, Telling DEF Extended
<1> QED
  BY <1>1, <1>2

-----------------------------------------------------------------------------
LEMMA InitTold == Init => ToldInv
<1> SUFFICES ASSUME Init PROVE ToldInv
  OBVIOUS
<1>1. /\ objects = <<>> /\ told = <<>> /\ phase = "read" /\ manifest \in Manifests
  BY DEF Init
<1>2. Len(told) = 0 /\ IsList(told) /\ 1..0 = {}
  BY <1>1 DEF IsList
<1>3. Keeps(objects, told, 1..0)
  BY <1>1, <1>2, NothingKept
<1>4. 0 \in 0..Len(told) /\ phase # "parse"
  BY <1>1, <1>2
<1> QED
  BY <1>1, <1>2, <1>3, <1>4, InitInv DEF ToldInv

LEMMA ReadPayloadTold == ASSUME ToldInv, ReadPayload PROVE ToldInv'
<1>1. phase = "read" /\ position <= Len(manifest)
  BY DEF ReadPayload
<1> DEFINE L == Len(told)
           h == ParsePayload(Payload).head
<1>2. L \in Nat /\ IsList(told) /\ Keeps(objects, told, 1..L)
  BY <1>1, Appended DEF ToldInv
<1>3. position \in DOMAIN manifest /\ manifest \in Manifests
  BY <1>1 DEF ToldInv, Inv
<1>4. EachRequestOnce => Faithful(h.requests, h.requests)
  BY <1>3, HeadIsProper DEF Payload
<1>5. Keeps(<<>>, told, L + 1..L)
  <2>1. L + 1..L = {}
    BY <1>2
  <2> QED
    BY <2>1, NothingKept
<1>6. /\ phase' = "parse" /\ manifest' = manifest /\ objects' = objects
      /\ localObjects' = AddObject(<<>>, h) /\ told' = Extended(told, h)
  BY DEF ReadPayload, NewTold, Extended
<1> HIDE DEF h
<1>7. /\ IsList(told') /\ L \in 0..Len(told')
      /\ Keeps(objects, told', 1..L) /\ Keeps(localObjects', told', L + 1..Len(told'))
  BY <1>2, <1>4, <1>5, <1>6, TellingOrNot
<1>8. Inv'
  BY ReadPayloadKeeps DEF ToldInv
<1> HIDE DEF L
<1> QED
  BY <1>3, <1>6, <1>7, <1>8 DEF ToldInv

LEMMA AddRowTold == ASSUME ToldInv, AddRow PROVE ToldInv'
<1> DEFINE r == parsed.rows[row]
<1>1. phase = "parse" /\ row <= Len(parsed.rows)
  BY DEF AddRow
<1>2. ClosedRow(parsed.head.id, r)
  <2>1. ClosedParse(parsed) /\ row \in Nat \ {0}
    BY <1>1 DEF ToldInv, Inv
  <2>2. row \in DOMAIN parsed.rows
    BY <1>1, <2>1 DEF ClosedParse, ClosedRows
  <2> QED
    BY <2>1, <2>2 DEF ClosedParse, ClosedRows
<1>3. /\ Faithful(r.first.requests, r.first.requests)
      /\ Faithful(r.second.requests, r.second.requests)
      /\ r.second.id # None => r.first.id # None
  BY <1>2, NothingHeard DEF ClosedRow, Plain
<1>4. /\ phase' = phase /\ manifest' = manifest /\ objects' = objects
      /\ localObjects' = AddObject(AddObject(localObjects, r.first), r.second)
      /\ told' = IF r.second.id = None THEN NewTold(r.first) ELSE told \o <<r.first, r.second>>
  BY DEF AddRow
<1> HIDE DEF r
<1>5. told' = Extended(Extended(told, r.first), r.second)
  <2>1. CASE r.second.id = None
    BY <1>4, <2>1 DEF Extended, NewTold
  <2>2. CASE r.second.id # None
    <3>1. IsList(told)
      BY DEF ToldInv
    <3>2. told \o <<r.first, r.second>> = Append(Append(told, r.first), r.second)
      BY <3>1, AppendedTwice
    <3> QED
      BY <1>3, <1>4, <2>2, <3>2 DEF Extended
  <2> QED
    BY <2>1, <2>2
<1>6. PICK m \in 0..Len(told) : /\ IsList(told) /\ Keeps(objects, told, 1..m)
                                /\ Keeps(localObjects, told, m + 1..Len(told))
  BY <1>1 DEF ToldInv
<1> DEFINE s == Extended(told, r.first)
           os == AddObject(localObjects, r.first)
<1>7. /\ IsList(s) /\ m \in 0..Len(s) /\ Keeps(objects, s, 1..m)
      /\ Keeps(os, s, m + 1..Len(s))
  BY <1>3, <1>6, TellingOrNot
<1>8. localObjects' = AddObject(os, r.second) /\ told' = Extended(s, r.second)
  BY <1>4, <1>5
<1> HIDE DEF s, os
<1>9. /\ IsList(told') /\ m \in 0..Len(told') /\ Keeps(objects, told', 1..m)
      /\ Keeps(localObjects', told', m + 1..Len(told'))
  BY <1>3, <1>7, <1>8, TellingOrNot
<1>10. Inv'
  BY AddRowKeeps DEF ToldInv
<1>11. manifest' \in Manifests /\ phase' = "parse"
  BY <1>1, <1>4 DEF ToldInv
<1> QED
  BY <1>4, <1>9, <1>10, <1>11 DEF ToldInv

LEMMA MergePayloadTold == ASSUME ToldInv, MergePayload PROVE ToldInv'
<1>1. /\ phase = "parse" /\ phase' = "read" /\ manifest' = manifest /\ told' = told
      /\ objects' = AddObjects(objects, localObjects)
  BY DEF MergePayload
<1> DEFINE L == Len(told)
<1>2. IsList(told) /\ L \in Nat
  BY Appended DEF ToldInv
<1>3. PICK m \in 0..L : Keeps(objects, told, 1..m) /\ Keeps(localObjects, told, m + 1..L)
  BY <1>1 DEF ToldInv
<1> HIDE DEF L
<1>4. /\ 1..m \subseteq Nat /\ m + 1..L \subseteq Nat /\ \A i \in 1..m, j \in m + 1..L : i < j
      /\ (1..m) \cup (m + 1..L) = 1..L
  BY <1>2, <1>3
<1>5. Keeps(objects', told, 1..L)
  <2> DEFINE N == 1..m
             M == m + 1..L
  <2>1. N \subseteq Nat /\ M \subseteq Nat /\ \A i \in N, j \in M : i < j
    BY <1>4
  <2>2. Keeps(objects, told, N) /\ Keeps(localObjects, told, M)
    BY <1>3
  <2> HIDE DEF N, M
  <2>3. Keeps(AddObjects(objects, localObjects), told, N \cup M)
    BY <2>1, <2>2, MergingKeeps
  <2> QED
    BY <1>1, <1>4, <2>3 DEF N, M
<1>6. Inv'
  BY MergePayloadKeeps DEF ToldInv
<1>7. L \in 0..L /\ phase' # "parse" /\ manifest' \in Manifests
  BY <1>1, <1>2 DEF ToldInv
<1> QED
  BY <1>1, <1>2, <1>5, <1>6, <1>7 DEF ToldInv, L

LEMMA OthersTold ==
    ASSUME ToldInv, RejectPayload \/ Finish \/ UNCHANGED vars
    PROVE  ToldInv'
<1>1. UNCHANGED <<manifest, localObjects, objects, told>>
  BY DEF RejectPayload, Finish, vars
<1>2. (phase' = "parse" => phase = "parse") /\ (phase' = "read" => phase = "read")
  BY DEF RejectPayload, Finish, vars
<1>3. Inv'
  BY OthersKeep DEF ToldInv
<1> QED
  BY <1>1, <1>2, <1>3 DEF ToldInv

LEMMA ToldInvariance == Spec => []ToldInv
<1>1. ToldInv /\ [Next]_vars => ToldInv'
  BY ReadPayloadTold, AddRowTold, MergePayloadTold, OthersTold, Zenon DEF Next
<1> QED
  BY <1>1, InitTold, PTL DEF Spec

(* After every payload the catalog tells what merging all that was told in  *)
(* one go would, however the payloads were cut and in whatever order they   *)
(* come: the first type that is known, the first name, all of the evidence  *)
(* (ingest_manifest, _MutableCatalog, catalog.py).                          *)
THEOREM CatalogIsTold == Spec => []CatalogIsWhatWasTold
<1>1. ToldInv => CatalogIsWhatWasTold
  <2>1. SUFFICES ASSUME ToldInv, phase = "read" PROVE CatalogIsWhatWasTold
    BY DEF CatalogIsWhatWasTold
  <2>2. Describes(objects, told, 1..Len(told))
    BY <2>1 DEF ToldInv, Keeps
  <2>3. DOMAIN told = 1..Len(told)
    BY <2>1, Appended DEF ToldInv
  <2>4. Describes(objects, told, DOMAIN told)
    BY <2>2, <2>3
  <2> QED
    BY <2>4 DEF Describes, At, Typed, Labelled, CatalogIsWhatWasTold, ToldOf
<1> QED
  BY <1>1, ToldInvariance, PTL

(* Merging the requests of an object from several payloads loses none and   *)
(* tells each once, and the latest is not older than any request whose time *)
(* the payloads agree on, when no payload lists a request twice             *)
(* (_merge_request_records, catalog.py).                                    *)
THEOREM FreshnessIsAlwaysKept ==
    ASSUME EachRequestOnce
    PROVE  Spec => []FreshnessIsKept
<1>1. ToldInv => FreshnessIsKept
  <2>1. SUFFICES ASSUME ToldInv, phase = "read", NEW id \in DOMAIN objects
                 PROVE  LET kept == objects[id].requests IN
                        /\ {r.tsn : r \in kept} = {r.tsn : r \in RequestsTold(id)}
                        /\ \A r, q \in kept : r.tsn = q.tsn /\ r.tsn # 0 => r = q
                        /\ \A r \in RequestsTold(id) :
                             ~Redated(id, r.tsn) => Latest(kept).time >= r.time
    BY DEF FreshnessIsKept
  <2> DEFINE kept == objects[id].requests
             heard == RequestsTold(id)
  <2>2. DOMAIN told = 1..Len(told)
    BY <2>1, Appended DEF ToldInv
  <2>3. RequestsAt(told, 1..Len(told), id) = heard
    BY <2>2 DEF RequestsAt, At, RequestsTold, ToldOf
  <2>4. Faithful(kept, heard)
    BY <2>1, <2>3, EachRequestOnce DEF ToldInv, Keeps, Fresh
  <2>5. ASSUME NEW r \in heard, ~Redated(id, r.tsn) PROVE Latest(kept).time >= r.time
    <3>1. PICK k \in kept : k.tsn = r.tsn
      BY <2>4 DEF Faithful
    <3>2. PICK q \in heard : q.tsn = k.tsn /\ q.time = k.time
      BY <2>4 DEF Faithful
    <3>3. q.time = r.time
      BY <2>5, <3>1, <3>2 DEF Redated
    <3>4. Latest(kept) \in kept /\ k.time <= Latest(kept).time
      BY <2>4, LatestIsThere DEF Faithful
    <3>5. k.time \in Nat /\ Latest(kept).time \in Nat
      BY <2>4, <3>4 DEF Faithful, Request
    <3> QED
      BY <3>2, <3>3, <3>4, <3>5
  <2> HIDE DEF kept, heard
  <2>6. /\ {r.tsn : r \in kept} = {r.tsn : r \in heard}
        /\ \A r, q \in kept : r.tsn = q.tsn /\ r.tsn # 0 => r = q
    BY <2>4 DEF Faithful
  <2> QED
    BY <2>5, <2>6 DEF kept, heard
<1> QED
  BY <1>1, ToldInvariance, PTL

-----------------------------------------------------------------------------
(* Edges are told apart by their ids. Those of a graph have the ids that    *)
(* the graph gives them; other parsers make an id of that of the payload, a *)
(* tag, and what the edge joins or its place in the payload.                *)
Identified(es) == \A e, f \in es : e.id = f.id => e = f

MadeOf(p, id) == \/ \E tag, x : id = <<p.id, tag, x>>
                 \/ \E tag, x, y : id = <<p.id, tag, x, y>>

OwnEdges(p, es) == Identified(es) /\ \A e \in es : MadeOf(p, e.id)

LEMMA RowEdges ==
    /\ \A first, second, es : Row(first, second, es).edges = es
    /\ \A t : ObjectRow(t).edges = {}
    /\ EmptyRow.edges = {}
  BY DEF Row, ObjectRow, EmptyRow

LEMMA EdgeIs ==
    ASSUME NEW id, NEW source, NEW target, NEW type
    PROVE  Edge(id, source, target, type).id = id
  BY DEF Edge

LEMMA NoEdges == \A p : OwnEdges(p, {})
  BY DEF OwnEdges, Identified

(* The edges of a payload are those of its rows and its links.              *)
LEMMA EdgesAre ==
    ASSUME NEW head, NEW rows, NEW links, NEW E, links \subseteq E,
           \A i \in DOMAIN rows : rows[i].edges \subseteq E
    PROVE  EdgesOf(Parsed(head, rows, links)) \subseteq E
  BY ParsedParts DEF EdgesOf

LEMMA FewerEdges ==
    ASSUME NEW p, NEW E, OwnEdges(p, E), NEW es, es \subseteq E
    PROVE  OwnEdges(p, es)
  BY DEF OwnEdges, Identified

LEMMA NothingHasNoEdges == \A p : OwnEdges(p, EdgesOf(NothingParsed))
<1>1. EdgesOf(NothingParsed) = {}
  BY ParsedParts DEF EdgesOf, NothingParsed
<1> QED
  BY <1>1, NoEdges

LEMMA RowsWithoutEdges ==
    ASSUME NEW p, NEW head, NEW rows, \A i \in DOMAIN rows : rows[i].edges = {}
    PROVE  OwnEdges(p, EdgesOf(Parsed(head, rows, {})))
<1>1. EdgesOf(Parsed(head, rows, {})) \subseteq {}
  BY EdgesAre
<1> QED
  BY <1>1, NoEdges, FewerEdges

-----------------------------------------------------------------------------
LEMMA DataflowEdges == \A p : OwnEdges(p, EdgesOf(ParseDataflow(p)))
<1> SUFFICES ASSUME NEW p PROVE OwnEdges(p, EdgesOf(ParseDataflow(p)))
  OBVIOUS
<1> DEFINE NameOf(n) == DataflowName(p.nodes[LastNumbered(p, n)])
           rows == [i \in DOMAIN p.nodes |-> LET n == p.nodes[i] IN
               IF n.number = None THEN EmptyRow
               ELSE ObjectRow(Told(p.id, "dataflow-node", i, DataflowName(n),
                                   OrElse(n.type, "UNKNOWN"), OrElse(n.description, n.name)))]
           links == {Edge(<<p.id, "dataflow", NameOf(l[1]), NameOf(l[2])>>, NameOf(l[1]),
                          NameOf(l[2]), "dataflow") : l \in DataflowPairs(p)}
<1>1. ParseDataflow(p) = Parsed(Nothing, rows, links)
  BY DEF ParseDataflow
<1>2. \A i \in DOMAIN rows : rows[i].edges \subseteq links
  BY RowEdges
<1>3. OwnEdges(p, links)
  <2> HIDE DEF NameOf
  <2>1. ASSUME NEW e \in links
        PROVE  \E x, y : e = Edge(<<p.id, "dataflow", x, y>>, x, y, "dataflow")
    BY <2>1
  <2> HIDE DEF links
  <2>2. ASSUME NEW e \in links PROVE MadeOf(p, e.id)
    <3>1. PICK x, y : e = Edge(<<p.id, "dataflow", x, y>>, x, y, "dataflow")
      BY <2>1
    <3>2. e.id = <<p.id, "dataflow", x, y>>
      BY <3>1, EdgeIs
    <3> QED
      BY <3>2 DEF MadeOf
  <2>3. Identified(links)
    <3>1. SUFFICES ASSUME NEW e \in links, NEW f \in links, e.id = f.id PROVE e = f
      BY DEF Identified
    <3>2. PICK x, y : e = Edge(<<p.id, "dataflow", x, y>>, x, y, "dataflow")
      BY <2>1
    <3>3. PICK u, v : f = Edge(<<p.id, "dataflow", u, v>>, u, v, "dataflow")
      BY <2>1
    <3>4. <<p.id, "dataflow", x, y>> = <<p.id, "dataflow", u, v>>
      BY <3>1, <3>2, <3>3, EdgeIs
    <3> QED
      BY <3>2, <3>3, <3>4
  <2> QED
    BY <2>2, <2>3 DEF OwnEdges
<1> HIDE DEF rows, links
<1>4. EdgesOf(ParseDataflow(p)) \subseteq links
  BY <1>1, <1>2, EdgesAre
<1> QED
  BY <1>3, <1>4, FewerEdges

LEMMA ChainEdges == \A p : OwnEdges(p, EdgesOf(ParseChain(p)))
<1> SUFFICES ASSUME NEW p PROVE OwnEdges(p, EdgesOf(ParseChain(p)))
  OBVIOUS
<1>1. CASE p.chain = None
  BY <1>1, NothingHasNoEdges DEF ParseChain
<1>2. CASE p.chain # None
  <2> DEFINE head == Told(p.id, "process-chain", 0, p.chain, "RSPC", p.name)
             Contains(x) == Edge(<<p.id, "contains", p.chain, x>>, p.chain, x, "contains")
             Follows(i, j) == Edge(<<p.id, "sequence", i, j>>,
                                   StepName(p, i + 1), StepName(p, j + 1), "sequence")
             rows == [i \in DOMAIN p.steps |->
                       Row(Told(p.id, "process-chain-node", i, StepName(p, i),
                                OrElse(p.steps[i].type, "PROCESS"), p.steps[i].name),
                           Nothing, {Contains(StepName(p, i))})]
             links == {Follows(l[1], l[2]) : l \in SequenceLinks(p)}
             E == links \cup {Contains(StepName(p, i)) : i \in DOMAIN p.steps}
  <2>1. ParseChain(p) = Parsed(head, rows, links)
    BY <1>2 DEF ParseChain
  <2>2. \A i \in DOMAIN rows : rows[i].edges \subseteq E
    <3> HIDE DEF Contains
    <3> SUFFICES ASSUME NEW i \in DOMAIN rows PROVE rows[i].edges \subseteq E
      OBVIOUS
    <3>1. i \in DOMAIN p.steps /\ rows[i].edges = {Contains(StepName(p, i))}
      BY RowEdges
    <3> QED
      BY <3>1
  <2>3. \A e \in E : (\E x : e = Contains(x)) \/ (\E i, j : e = Follows(i, j))
    OBVIOUS
  <2>4. /\ \A x : Contains(x).id = <<p.id, "contains", p.chain, x>>
        /\ \A i, j : Follows(i, j).id = <<p.id, "sequence", i, j>>
    BY EdgeIs
  <2>5. links \subseteq E
    OBVIOUS
  <2> HIDE DEF head, Contains, Follows, rows, links, E
  <2>6. \A e \in E : MadeOf(p, e.id)
    BY <2>3, <2>4 DEF MadeOf
  <2>7. Identified(E)
    <3>1. SUFFICES ASSUME NEW e \in E, NEW f \in E, e.id = f.id PROVE e = f
      BY DEF Identified
    <3>2. CASE \E x : e = Contains(x)
      BY <2>3, <2>4, <3>1, <3>2
    <3>3. CASE \E i, j : e = Follows(i, j)
      BY <2>3, <2>4, <3>1, <3>3
    <3> QED
      BY <2>3, <3>2, <3>3
  <2>8. EdgesOf(ParseChain(p)) \subseteq E
    BY <2>1, <2>2, <2>5, EdgesAre
  <2> QED
    BY <2>6, <2>7, <2>8, FewerEdges DEF OwnEdges
<1> QED
  BY <1>1, <1>2

LEMMA DtpEdges == \A p : OwnEdges(p, EdgesOf(ParseDtp(p)))
<1> SUFFICES ASSUME NEW p PROVE OwnEdges(p, EdgesOf(ParseDtp(p)))
  OBVIOUS
<1>1. CASE p.dtp = None
  BY <1>1, NothingHasNoEdges DEF ParseDtp
<1>2. CASE p.dtp # None
  <2> DEFINE head == Told(p.id, "dtp", 0, p.dtp, "DTPA", p.name)
             from == DtpRow(p, "dtp-source", p.source, OrElse(p.sourceType, "UNKNOWN"), None,
                            p.source, p.dtp, "dataflow")
             to == DtpRow(p, "dtp-target", p.target, OrElse(p.targetType, "UNKNOWN"), None,
                          p.dtp, p.target, "dataflow")
             by == DtpRow(p, "dtp-transformation", p.transformation, "TRFN", p.name,
                          p.dtp, p.transformation, "uses_transformation")
             rows == <<from, to, by>>
             A == Edge(<<p.id, "dtp-source", p.source, p.dtp>>, p.source, p.dtp, "dataflow")
             B == Edge(<<p.id, "dtp-target", p.dtp, p.target>>, p.dtp, p.target, "dataflow")
             C == Edge(<<p.id, "dtp-transformation", p.dtp, p.transformation>>,
                       p.dtp, p.transformation, "uses_transformation")
             E == {A, B, C}
  <2>1. ParseDtp(p) = Parsed(head, rows, {})
    BY <1>2 DEF ParseDtp
  <2>2. from.edges \subseteq E /\ to.edges \subseteq E /\ by.edges \subseteq E
    BY RowEdges DEF DtpRow
  <2>3. /\ A.id = <<p.id, "dtp-source", p.source, p.dtp>>
        /\ B.id = <<p.id, "dtp-target", p.dtp, p.target>>
        /\ C.id = <<p.id, "dtp-transformation", p.dtp, p.transformation>>
    BY EdgeIs
  <2> HIDE DEF A, B, C, from, to, by, head
  <2>4. \A i \in DOMAIN rows : rows[i].edges \subseteq E
    <3>1. DOMAIN rows = {1, 2, 3}
      OBVIOUS
    <3> QED
      BY <2>2, <3>1
  <2>5. OwnEdges(p, E)
    BY <2>3 DEF OwnEdges, MadeOf, Identified
  <2> HIDE DEF rows, E
  <2>6. EdgesOf(ParseDtp(p)) \subseteq E
    BY <2>1, <2>4, EdgesAre
  <2> QED
    BY <2>5, <2>6, FewerEdges
<1> QED
  BY <1>1, <1>2

LEMMA CompositeEdges == \A p : OwnEdges(p, EdgesOf(ParseComposite(p)))
<1> SUFFICES ASSUME NEW p PROVE OwnEdges(p, EdgesOf(ParseComposite(p)))
  OBVIOUS
<1>1. CASE p.hcpr = None
  BY <1>1, NothingHasNoEdges DEF ParseComposite
<1>2. CASE p.hcpr # None
  <2> DEFINE head == Told(p.id, "hcpr", 0, p.hcpr, "HCPR", p.name)
             f == [i \in DOMAIN p.inputs |->
                    Edge(<<p.id, "hcpr-input", i>>, p.inputs[i].id, p.hcpr, "composite_input")]
             rows == [i \in DOMAIN p.inputs |-> LET input == p.inputs[i] IN
                    IF input.id = None THEN EmptyRow
                    ELSE Row(Told(p.id, "hcpr-input", i, input.id, OrElse(input.type, "UNKNOWN"),
                                  None),
                             Nothing,
                             {Edge(<<p.id, "hcpr-input", i>>, input.id, p.hcpr,
                                   "composite_input")})]
             E == {f[i] : i \in DOMAIN p.inputs}
  <2>1. ParseComposite(p) = Parsed(head, rows, {})
    BY <1>2 DEF ParseComposite
  <2>2. \A i \in DOMAIN rows : rows[i].edges \subseteq E
    BY RowEdges
  <2>3. \A e \in E : \E i \in DOMAIN p.inputs : e = f[i] /\ f[i].id = <<p.id, "hcpr-input", i>>
    <3>1. \A i \in DOMAIN p.inputs : f[i].id = <<p.id, "hcpr-input", i>>
      BY EdgeIs
    <3> HIDE DEF f
    <3> QED
      BY <3>1
  <2> HIDE DEF head, rows, f, E
  <2>4. OwnEdges(p, E)
    <3>1. \A e \in E : MadeOf(p, e.id)
      BY <2>3 DEF MadeOf
    <3>2. ASSUME NEW e \in E, NEW g \in E, e.id = g.id PROVE e = g
      <4>1. PICK i \in DOMAIN p.inputs : e = f[i] /\ f[i].id = <<p.id, "hcpr-input", i>>
        BY <2>3
      <4>2. PICK j \in DOMAIN p.inputs : g = f[j] /\ f[j].id = <<p.id, "hcpr-input", j>>
        BY <2>3
      <4> QED
        BY <3>2, <4>1, <4>2
    <3> QED
      BY <3>1, <3>2 DEF OwnEdges, Identified
  <2>5. EdgesOf(ParseComposite(p)) \subseteq E
    BY <2>1, <2>2, EdgesAre
  <2> QED
    BY <2>4, <2>5, FewerEdges
<1> QED
  BY <1>1, <1>2

LEMMA ReferenceEdges == \A p : OwnEdges(p, EdgesOf(ParseReferences(p)))
<1> SUFFICES ASSUME NEW p PROVE OwnEdges(p, EdgesOf(ParseReferences(p)))
  OBVIOUS
<1> DEFINE R(i) == p.references[i]
           Joined(i) == IF R(i).from # None /\ R(i).to # None
               THEN ReferenceRow(p, i, UntypedEnd(p, i, R(i).from), UntypedEnd(p, i, R(i).to))
               ELSE IF p.xml THEN RelatedRow(p, i, R(i))
               ELSE EmptyRow
           rows == [i \in DOMAIN p.references |-> Joined(i)]
           f == [i \in DOMAIN p.references |->
                   IF Joined(i).edges = {} THEN Edge(<<p.id, "xref", i>>, None, None, "xref")
                   ELSE CHOOSE e \in Joined(i).edges : TRUE]
           E == {f[i] : i \in DOMAIN p.references}
<1>1. ParseReferences(p) = Parsed(Nothing, rows, {})
  BY DEF ParseReferences
<1>2. \A i, s, t : ReferenceRow(p, i, s, t).edges = {Edge(<<p.id, "xref", i>>, s.id, t.id, "xref")}
  BY RowEdges DEF ReferenceRow
<1>3. \A i : \/ Joined(i).edges = {}
             \/ \E s, t : Joined(i).edges = {Edge(<<p.id, "xref", i>>, s, t, "xref")}
  BY <1>2, RowEdges DEF RelatedRow
<1> HIDE DEF Joined
<1>4. \A i \in DOMAIN p.references : Joined(i).edges \subseteq {f[i]} /\ f[i].id = <<p.id, "xref", i>>
  BY <1>3, EdgeIs
<1>5. \A i \in DOMAIN rows : rows[i].edges \subseteq E
  BY <1>4
<1>6. \A e \in E : \E i \in DOMAIN p.references : e = f[i] /\ f[i].id = <<p.id, "xref", i>>
  BY <1>4
<1> HIDE DEF rows, f, E
<1>7. OwnEdges(p, E)
  <2>1. \A e \in E : MadeOf(p, e.id)
    BY <1>6 DEF MadeOf
  <2>2. ASSUME NEW e \in E, NEW g \in E, e.id = g.id PROVE e = g
    <3>1. PICK i \in DOMAIN p.references : e = f[i] /\ f[i].id = <<p.id, "xref", i>>
      BY <1>6
    <3>2. PICK j \in DOMAIN p.references : g = f[j] /\ f[j].id = <<p.id, "xref", j>>
      BY <1>6
    <3> QED
      BY <2>2, <3>1, <3>2
  <2> QED
    BY <2>1, <2>2 DEF OwnEdges, Identified
<1>8. EdgesOf(ParseReferences(p)) \subseteq E
  BY <1>1, <1>5, EdgesAre
<1> QED
  BY <1>7, <1>8, FewerEdges

LEMMA SearchEdges == \A p : OwnEdges(p, EdgesOf(ParseSearch(p)))
<1> SUFFICES ASSUME NEW p PROVE OwnEdges(p, EdgesOf(ParseSearch(p)))
  OBVIOUS
<1> DEFINE rows == [i \in DOMAIN p.hits |->
               IF p.xml /\ \E j \in 1..i - 1 : p.hits[j].id = p.hits[i].id
               THEN EmptyRow ELSE HitRow(p, i)]
<1>1. ParseSearch(p) = Parsed(Nothing, rows, {})
  BY DEF ParseSearch
<1>2. \A i \in DOMAIN rows : rows[i].edges = {}
  BY RowEdges DEF HitRow
<1> HIDE DEF rows
<1> QED
  BY <1>1, <1>2, RowsWithoutEdges

LEMMA ObjectEdges == \A p, type : OwnEdges(p, EdgesOf(ParseObject(p, type)))
<1> SUFFICES ASSUME NEW p, NEW type PROVE OwnEdges(p, EdgesOf(ParseObject(p, type)))
  OBVIOUS
<1>1. \A head : OwnEdges(p, EdgesOf(Parsed(head, <<>>, {})))
  BY RowsWithoutEdges
<1> QED
  BY <1>1, NothingHasNoEdges DEF ParseObject

LEMMA RequestEdges == \A p : OwnEdges(p, EdgesOf(ParseRequests(p)))
<1> SUFFICES ASSUME NEW p PROVE OwnEdges(p, EdgesOf(ParseRequests(p)))
  OBVIOUS
<1>1. \A head : OwnEdges(p, EdgesOf(Parsed(head, <<>>, {})))
  BY RowsWithoutEdges
<1> QED
  BY <1>1, NothingHasNoEdges DEF ParseRequests

(* The rows of a query, one list after the other.                           *)
LEMMA RowsOfTwoLists ==
    ASSUME NEW E, NEW f, NEW g, IsList(f), IsList(g),
           \A i \in DOMAIN f : f[i].edges \subseteq E, \A i \in DOMAIN g : g[i].edges \subseteq E
    PROVE  IsList(f \o g) /\ \A i \in DOMAIN (f \o g) : (f \o g)[i].edges \subseteq E
<1> DEFINE R == {f[i] : i \in DOMAIN f} \cup {g[i] : i \in DOMAIN g}
           fg == f \o g
<1>1. f \in Seq(R) /\ g \in Seq(R)
  <2>1. f \in Seq({f[i] : i \in DOMAIN f}) /\ g \in Seq({g[i] : i \in DOMAIN g})
    BY DEF IsList
  <2>2. \A A, B : A \subseteq B => Seq(A) \subseteq Seq(B)
    OBVIOUS
  <2> QED
    BY <2>1, <2>2
<1>2. \A x \in R : x.edges \subseteq E
  OBVIOUS
<1>3. fg \in Seq(R)
  BY <1>1
<1> HIDE DEF R, fg
<1>4. \A i \in DOMAIN fg : fg[i] \in R
  BY <1>3
<1>5. fg \in Seq({fg[i] : i \in DOMAIN fg})
  <2>1. Len(fg) \in Nat /\ fg \in [1..Len(fg) -> R] /\ DOMAIN fg = 1..Len(fg)
    BY <1>3
  <2>2. fg \in [1..Len(fg) -> {fg[i] : i \in DOMAIN fg}]
    BY <2>1
  <2> QED
    BY <2>1, <2>2
<1>6. IsList(fg) /\ \A i \in DOMAIN fg : fg[i].edges \subseteq E
  BY <1>2, <1>4, <1>5 DEF IsList
<1> QED
  BY <1>6 DEF fg

LEMMA IsListOf ==
    ASSUME NEW S, NEW s \in Seq(S), NEW f, f = [i \in DOMAIN s |-> f[i]]
    PROVE  IsList(f)
<1> DEFINE R == {f[i] : i \in DOMAIN f}
<1>1. DOMAIN f = DOMAIN s
  OBVIOUS
<1>2. Len(s) \in Nat /\ DOMAIN s = 1..Len(s)
  OBVIOUS
<1>3. f \in [1..Len(s) -> R]
  BY <1>1, <1>2
<1>4. f \in Seq(R)
  BY <1>2, <1>3
<1> QED
  BY <1>4 DEF IsList

LEMMA QueryEdges == \A p \in QueryPayload : OwnEdges(p, EdgesOf(ParseQueryPayload(p)))
<1> SUFFICES ASSUME NEW p \in QueryPayload PROVE OwnEdges(p, EdgesOf(ParseQueryPayload(p)))
  OBVIOUS
<1>1. CASE Unparseable(p.document)
  BY <1>1, NothingHasNoEdges DEF ParseQueryPayload
<1>2. CASE ~Unparseable(p.document)
  <2> DEFINE result == ParseQuery(p.document)
             id == result.query
             els == p.document.elements
             head == Told(p.id, "query", 0, id, "QUERY", None)
             Provides(i) == Edge(<<p.id, "query-provider", i>>, ProviderOf(els[i]).id, id, "provides")
             Part(tag, x, type) == Edge(<<p.id, tag, x>>, x, id, type)
             P == {Provides(i) : i \in DOMAIN els}
             V == {Part("variable", els[i].name, "query_variable") : i \in DOMAIN els}
             C == {Part("ckf", els[i].name, "query_component") : i \in DOMAIN els}
             R == {Part("rkf", els[i].name, "query_component") : i \in DOMAIN els}
             M == {Part("member", els[i].name, "query_component") : i \in DOMAIN els}
             E == P \cup V \cup C \cup R \cup M
             PartRows(S, tag, type, edgeType) == ComponentRows(p, id, S, tag, type, edgeType)
             r1 == ProviderRows(p, id, result.providers)
             r2 == PartRows(result.variables, "variable", "QUERY_VARIABLE", "query_variable")
             r3 == PartRows(result.calculated, "ckf", "CKF", "query_component")
             r4 == PartRows(result.restricted, "rkf", "RKF", "query_component")
             r5 == PartRows(result.members, "member", "LOCAL_MEMBER", "query_component")
  <2>1. ParseQueryPayload(p) = Parsed(head, r1 \o r2 \o r3 \o r4 \o r5, {})
    BY <1>2 DEF ParseQueryPayload
  <2>2. els \in Seq({els[i] : i \in DOMAIN els})
    <3>1. \E T : els \in Seq(T)
      BY DEF QueryPayload, Document
    <3>2. PICK T : els \in Seq(T)
      BY <3>1
    <3> HIDE DEF els
    <3>3. els = [i \in DOMAIN els |-> els[i]]
      BY <3>2
    <3>4. IsList(els)
      BY <3>2, <3>3, IsListOf
    <3> QED
      BY <3>4 DEF IsList
  <2>3. IsList(r1) /\ \A i \in DOMAIN r1 : r1[i].edges \subseteq P
    <3>1. DOMAIN r1 = DOMAIN els /\ r1 = [i \in DOMAIN els |-> r1[i]]
      BY DEF ProviderRows
    <3>2. \A i \in DOMAIN els : r1[i].edges \subseteq P
      <4> SUFFICES ASSUME NEW i \in DOMAIN els PROVE r1[i].edges \subseteq P
        OBVIOUS
      <4>1. r1[i].edges \subseteq {Provides(i)}
        BY RowEdges DEF ProviderRows
      <4> QED
        BY <4>1
    <3> HIDE DEF r1, els, P
    <3> QED
      BY <2>2, <3>1, <3>2, IsListOf
  <2>4. ASSUME NEW S, NEW tag, NEW type, NEW edgeType
        PROVE  /\ IsList(PartRows(S, tag, type, edgeType))
               /\ \A i \in DOMAIN PartRows(S, tag, type, edgeType) :
                     PartRows(S, tag, type, edgeType)[i].edges \subseteq
                        {Part(tag, els[j].name, edgeType) : j \in DOMAIN els}
    <3> DEFINE r == PartRows(S, tag, type, edgeType)
               Q == {Part(tag, els[j].name, edgeType) : j \in DOMAIN els}
    <3>1. DOMAIN r = DOMAIN els /\ r = [i \in DOMAIN els |-> r[i]]
      BY DEF ComponentRows
    <3>2. \A i \in DOMAIN els : r[i].edges \subseteq Q
      <4> SUFFICES ASSUME NEW i \in DOMAIN els PROVE r[i].edges \subseteq Q
        OBVIOUS
      <4>1. r[i].edges \subseteq {Part(tag, els[i].name, edgeType)}
        BY RowEdges DEF ComponentRows
      <4> QED
        BY <4>1
    <3>3. IsList(r)
      <4> HIDE DEF r, els
      <4> QED
        BY <2>2, <3>1, IsListOf
    <3> HIDE DEF r, Q
    <3>4. \A i \in DOMAIN r : r[i].edges \subseteq Q
      BY <3>1, <3>2
    <3> QED
      BY <3>3, <3>4 DEF r, Q
  <2> HIDE DEF PartRows
  <2>5. /\ IsList(r2) /\ \A i \in DOMAIN r2 : r2[i].edges \subseteq V
        /\ IsList(r3) /\ \A i \in DOMAIN r3 : r3[i].edges \subseteq C
        /\ IsList(r4) /\ \A i \in DOMAIN r4 : r4[i].edges \subseteq R
        /\ IsList(r5) /\ \A i \in DOMAIN r5 : r5[i].edges \subseteq M
    <3> HIDE DEF Part, els
    <3> QED
      BY <2>4
  <2>6. /\ \A i : Provides(i).id = <<p.id, "query-provider", i>>
        /\ \A tag, x, type : Part(tag, x, type).id = <<p.id, tag, x>>
    BY EdgeIs
  <2>7. \A e \in E : \/ \E i : e = Provides(i)
                     \/ \E x : e = Part("variable", x, "query_variable")
                     \/ \E x : e = Part("ckf", x, "query_component")
                     \/ \E x : e = Part("rkf", x, "query_component")
                     \/ \E x : e = Part("member", x, "query_component")
    <3> HIDE DEF Provides, Part
    <3> QED
      OBVIOUS
  <2>8. P \subseteq E /\ V \subseteq E /\ C \subseteq E /\ R \subseteq E /\ M \subseteq E
    OBVIOUS
  <2> HIDE DEF result, id, els, head, Provides, Part, P, V, C, R, M, E, r1, r2, r3, r4, r5
  <2>9. \A e \in E : MadeOf(p, e.id)
    <3> SUFFICES ASSUME NEW e \in E PROVE MadeOf(p, e.id)
      OBVIOUS
    <3>1. \E tag, x : e.id = <<p.id, tag, x>>
      BY <2>6, <2>7
    <3> QED
      BY <3>1 DEF MadeOf
  <2>10. Identified(E)
    <3>1. SUFFICES ASSUME NEW e \in E, NEW f \in E, e.id = f.id PROVE e = f
      BY DEF Identified
    <3>2. CASE \E i : e = Provides(i)
      BY <2>6, <2>7, <3>1, <3>2
    <3>3. CASE \E x : e = Part("variable", x, "query_variable")
      BY <2>6, <2>7, <3>1, <3>3
    <3>4. CASE \E x : e = Part("ckf", x, "query_component")
      BY <2>6, <2>7, <3>1, <3>4
    <3>5. CASE \E x : e = Part("rkf", x, "query_component")
      BY <2>6, <2>7, <3>1, <3>5
    <3>6. CASE \E x : e = Part("member", x, "query_component")
      BY <2>6, <2>7, <3>1, <3>6
    <3> QED
      BY <2>7, <3>2, <3>3, <3>4, <3>5, <3>6
  <2> DEFINE s2 == r1 \o r2
             s3 == s2 \o r3
             s4 == s3 \o r4
             s5 == s4 \o r5
  <2>11. IsList(s2) /\ \A i \in DOMAIN s2 : s2[i].edges \subseteq E
    BY <2>3, <2>5, <2>8, RowsOfTwoLists
  <2>12. IsList(s3) /\ \A i \in DOMAIN s3 : s3[i].edges \subseteq E
    <3> HIDE DEF s2
    <3> QED
      BY <2>5, <2>8, <2>11, RowsOfTwoLists
  <2>13. IsList(s4) /\ \A i \in DOMAIN s4 : s4[i].edges \subseteq E
    <3> HIDE DEF s3
    <3> QED
      BY <2>5, <2>8, <2>12, RowsOfTwoLists
  <2>14. \A i \in DOMAIN s5 : s5[i].edges \subseteq E
    <3> HIDE DEF s4
    <3> QED
      BY <2>5, <2>8, <2>13, RowsOfTwoLists
  <2>15. EdgesOf(ParseQueryPayload(p)) \subseteq E
    <3>1. ParseQueryPayload(p) = Parsed(head, s5, {})
      BY <2>1
    <3> HIDE DEF s5
    <3> QED
      BY <2>14, <3>1, EdgesAre
  <2> QED
    BY <2>9, <2>10, <2>15, FewerEdges DEF OwnEdges
<1> QED
  BY <1>1, <1>2

-----------------------------------------------------------------------------
(* The edges of a payload have ids of their own. *)
LEMMA GraphEdges ==
    ASSUME NEW p \in GraphPayload
    PROVE  EdgesOf(ParsePayload(p)) = p.edges
<1> DEFINE rows == [i \in DOMAIN p.nodes |-> LET n == p.nodes[i] IN
               ObjectRow(Told(p.id, "node", i, n.id, n.type, n.name))]
           links == {Edge(e.id, e.source, e.target, e.type) : e \in p.edges}
<1>1. ParsePayload(p) = Parsed(Nothing, rows, links)
  BY DEF GraphPayload, ParsePayload, ParseGraph
<1>2. \A i \in DOMAIN rows : rows[i].edges = {}
  BY RowEdges
<1>3. links = p.edges
  <2>1. \A e \in p.edges : Edge(e.id, e.source, e.target, e.type) = e
    <3>1. p.edges \subseteq [id : Names, source : Names, target : Names, type : {"dataflow"}]
      BY DEF GraphPayload
    <3> QED
      BY <3>1 DEF Edge
  <2> QED
    BY <2>1
<1> HIDE DEF rows, links
<1> QED
  BY <1>1, <1>2, <1>3, ParsedParts DEF EdgesOf

LEMMA PayloadEdges ==
    ASSUME NEW p \in Payloads
    PROVE  IF p.kind = "graph" THEN p \in GraphPayload ELSE OwnEdges(p, EdgesOf(ParsePayload(p)))
<1>1. CASE p \in GraphPayload
  BY <1>1 DEF GraphPayload
<1>2. CASE p \in DataflowPayload
  BY <1>2, DataflowEdges DEF DataflowPayload, ParsePayload
<1>3. CASE p \in ChainPayload
  BY <1>3, ChainEdges DEF ChainPayload, ParsePayload
<1>4. CASE p \in ObjectPayload
  <2>1. p.kind \in {"variant", "datasource", "adso", "source_system"}
    BY <1>4 DEF ObjectPayload
  <2>2. CASE p.kind = "variant"
    BY <2>2, ObjectEdges DEF ParsePayload, ParseVariant
  <2>3. CASE p.kind = "datasource"
    BY <2>3, ObjectEdges DEF ParsePayload, ParseDatasource
  <2>4. CASE p.kind = "adso"
    BY <2>4, ObjectEdges DEF ParsePayload, ParseAdso
  <2>5. CASE p.kind = "source_system"
    BY <2>5, ObjectEdges DEF ParsePayload, ParseSourceSystem
  <2> QED
    BY <2>1, <2>2, <2>3, <2>4, <2>5
<1>5. CASE p \in DtpPayload
  BY <1>5, DtpEdges DEF DtpPayload, ParsePayload
<1>6. CASE p \in CompositePayload
  BY <1>6, CompositeEdges DEF CompositePayload, ParsePayload
<1>7. CASE p \in QueryPayload
  <2>1. p.kind = "query"
    BY <1>7 DEF QueryPayload
  <2> QED
    BY <1>7, <2>1, QueryEdges DEF ParsePayload
<1>8. CASE p \in RequestsPayload
  BY <1>8, RequestEdges DEF RequestsPayload, ParsePayload
<1>9. CASE p \in SearchPayload
  BY <1>9, SearchEdges DEF SearchPayload, ParsePayload
<1>10. CASE p \in ReferencesPayload
  BY <1>10, ReferenceEdges DEF ReferencesPayload, ParsePayload
<1>11. CASE p \in UnreadPayload
  BY <1>11, NothingHasNoEdges DEF UnreadPayload, ParsePayload
<1> QED
  BY <1>1, <1>2, <1>3, <1>4, <1>5, <1>6, <1>7, <1>8, <1>9, <1>10, <1>11 DEF Payloads

(* Names are not among the ids that parsers make up for edges.              *)
NamesAreNoMadeUpIds ==
    \A n \in Names, p \in PayloadIds : \A tag, x, y :
        n # <<p, tag, x>> /\ n # <<p, tag, x, y>>

(* A manifest has every payload once, and its graphs, which bring the ids   *)
(* of their edges along, use one id for one edge.                           *)
IdsAreKept ==
    /\ NamesAreNoMadeUpIds
    /\ \A m \in Manifests : \A i, j \in DOMAIN m : i # j =>
         /\ m[i].id # m[j].id
         /\ m[i].kind = "graph" /\ m[j].kind = "graph" =>
              \A e \in m[i].edges, f \in m[j].edges : e.id = f.id => e = f

Readable(p) == p.kind = "graph" => ValidGraph(p)

LEMMA EdgesAgree ==
    ASSUME IdsAreKept, NEW m \in Manifests, NEW i \in DOMAIN m, NEW j \in DOMAIN m,
           Readable(m[i]), Readable(m[j]),
           NEW e \in EdgesOf(ParsePayload(m[i])), NEW f \in EdgesOf(ParsePayload(m[j])),
           e.id = f.id
    PROVE  e = f
<1> DEFINE p == m[i]
           r == m[j]
<1>1. p \in Payloads /\ r \in Payloads
  BY ManifestsAssumption
<1>2. p.id \in PayloadIds /\ r.id \in PayloadIds
  BY <1>1 DEF Payloads, GraphPayload, DataflowPayload, ChainPayload, ObjectPayload, DtpPayload,
              CompositePayload, QueryPayload, RequestsPayload, SearchPayload, ReferencesPayload,
              UnreadPayload
<1>3. i # j => p.id # r.id
  BY DEF IdsAreKept
<1>4. /\ p.kind = "graph" => e \in p.edges /\ e.id \in Names
      /\ r.kind = "graph" => f \in r.edges /\ f.id \in Names
  <2>1. \A q \in GraphPayload : \A g \in q.edges : g.id \in Names
    <3> SUFFICES ASSUME NEW q \in GraphPayload, NEW g \in q.edges PROVE g.id \in Names
      OBVIOUS
    <3>1. q.edges \subseteq [id : Names, source : Names, target : Names, type : {"dataflow"}]
      BY DEF GraphPayload
    <3> QED
      BY <3>1
  <2>2. /\ p.kind = "graph" => p \in GraphPayload
        /\ r.kind = "graph" => r \in GraphPayload
    BY <1>1, PayloadEdges
  <2>3. /\ p.kind = "graph" => e \in p.edges
        /\ r.kind = "graph" => f \in r.edges
    BY <2>2, GraphEdges
  <2> HIDE DEF p, r
  <2> QED
    BY <2>1, <2>2, <2>3
<1>5. /\ p.kind # "graph" => OwnEdges(p, EdgesOf(ParsePayload(p))) /\ MadeOf(p, e.id)
      /\ r.kind # "graph" => OwnEdges(r, EdgesOf(ParsePayload(r))) /\ MadeOf(r, f.id)
  BY <1>1, PayloadEdges DEF OwnEdges
<1>6. CASE i = j /\ p.kind = "graph"
  BY <1>4, <1>6 DEF Readable, ValidGraph
<1>7. CASE i = j /\ p.kind # "graph"
  BY <1>5, <1>7 DEF OwnEdges, Identified
<1>8. CASE i # j /\ p.kind = "graph" /\ r.kind = "graph"
  BY <1>4, <1>8 DEF IdsAreKept
<1>9. \A q, id : q.id \in PayloadIds /\ id \in Names => ~MadeOf(q, id)
  <2>1. SUFFICES ASSUME NEW q, NEW id \in Names, q.id \in PayloadIds, MadeOf(q, id) PROVE FALSE
    OBVIOUS
  <2>2. \A tag, x, y : id # <<q.id, tag, x>> /\ id # <<q.id, tag, x, y>>
    BY <2>1 DEF IdsAreKept, NamesAreNoMadeUpIds
  <2> QED
    BY <2>1, <2>2 DEF MadeOf
<1>10. CASE (p.kind = "graph") # (r.kind = "graph")
  <2> HIDE DEF p, r
  <2> QED
    BY <1>2, <1>4, <1>5, <1>9, <1>10
<1>11. CASE i # j /\ p.kind # "graph" /\ r.kind # "graph"
  <2> HIDE DEF p, r
  <2>1. e.id[1] = p.id
    BY <1>5, <1>11 DEF MadeOf
  <2>2. f.id[1] = r.id
    BY <1>5, <1>11 DEF MadeOf
  <2> QED
    BY <1>3, <1>11, <2>1, <2>2
<1> QED
  BY <1>6, <1>7, <1>8, <1>10, <1>11

-----------------------------------------------------------------------------
(* Nothing is lost where ids tell edges apart. *)
LEMMA AllAdded ==
    ASSUME NEW known, NEW new, \A e \in new, f \in known : e.id = f.id => e = f
    PROVE  AddEdges(known, new) = known \cup new
  BY DEF AddEdges

EdgesHeard(N) == UNION {EdgesOf(ParsePayload(manifest[n])) : n \in N}

(* The edges that were told by the payloads and rows before this one.       *)
EdgesInv ==
    /\ Inv /\ manifest \in Manifests
    /\ \A n \in 1..position - 1 : n \in DOMAIN manifest /\ Readable(manifest[n])
    /\ phase \in {"read", "parse"} => edges = EdgesHeard(1..position - 1)
    /\ phase = "parse" =>
         /\ position \in DOMAIN manifest /\ Readable(Payload) /\ parsed = ParsePayload(Payload)
         /\ 1..row - 1 \subseteq DOMAIN parsed.rows
         /\ localEdges = UNION {parsed.rows[i].edges : i \in 1..row - 1}

LEMMA InitEdges == Init => EdgesInv
<1> SUFFICES ASSUME Init PROVE EdgesInv
  OBVIOUS
<1>1. position = 1 /\ phase = "read" /\ edges = {} /\ manifest \in Manifests
  BY DEF Init
<1>2. 1..position - 1 = {}
  BY <1>1
<1>3. edges = EdgesHeard(1..position - 1)
  BY <1>1, <1>2 DEF EdgesHeard
<1> QED
  BY <1>1, <1>2, <1>3, InitInv DEF EdgesInv

LEMMA ReadPayloadEdges == ASSUME EdgesInv, ReadPayload PROVE EdgesInv'
<1>1. /\ phase = "read" /\ position <= Len(manifest) /\ Readable(Payload)
      /\ parsed' = ParsePayload(Payload) /\ row' = 1 /\ localEdges' = {} /\ phase' = "parse"
      /\ UNCHANGED <<manifest, position, objects, edges>>
  BY DEF ReadPayload, Readable
<1>2. position \in DOMAIN manifest
  BY <1>1 DEF EdgesInv, Inv
<1>3. 1..row' - 1 = {}
  BY <1>1
<1>4. Payload' = Payload /\ \A N : EdgesHeard(N)' = EdgesHeard(N)
  BY <1>1 DEF Payload, EdgesHeard
<1>5. Inv'
  BY ReadPayloadKeeps DEF EdgesInv
<1>6. edges' = EdgesHeard(1..position - 1)'
  BY <1>1, <1>4 DEF EdgesInv
<1>7. localEdges' = UNION {parsed'.rows[i].edges : i \in 1..row' - 1}
  BY <1>1, <1>3
<1> QED
  BY <1>1, <1>2, <1>3, <1>4, <1>5, <1>6, <1>7 DEF EdgesInv

LEMMA AddRowEdges == ASSUME IdsAreKept, EdgesInv, AddRow PROVE EdgesInv'
<1>1. /\ phase = "parse" /\ row <= Len(parsed.rows)
      /\ localEdges' = AddEdges(localEdges, parsed.rows[row].edges)
      /\ row' = row + 1
      /\ UNCHANGED <<manifest, position, phase, parsed, objects, edges>>
  BY DEF AddRow
<1>2. /\ position \in DOMAIN manifest /\ manifest \in Manifests /\ Readable(manifest[position])
      /\ parsed = ParsePayload(manifest[position]) /\ row \in Nat \ {0}
      /\ ClosedParse(parsed) /\ 1..row - 1 \subseteq DOMAIN parsed.rows
      /\ localEdges = UNION {parsed.rows[i].edges : i \in 1..row - 1}
  BY <1>1 DEF EdgesInv, Inv, Payload
<1>3. row \in DOMAIN parsed.rows
  BY <1>1, <1>2 DEF ClosedParse, ClosedRows
<1>4. /\ localEdges \subseteq EdgesOf(parsed)
      /\ parsed.rows[row].edges \subseteq EdgesOf(parsed)
  BY <1>2, <1>3 DEF EdgesOf
<1>5. localEdges' = localEdges \cup parsed.rows[row].edges
  BY <1>1, <1>2, <1>4, EdgesAgree, AllAdded
<1>6. 1..row' - 1 = (1..row - 1) \cup {row}
  BY <1>1, <1>2
<1>7. localEdges' = UNION {parsed.rows[i].edges : i \in 1..row' - 1}
  BY <1>2, <1>5, <1>6
<1>8. Inv'
  BY AddRowKeeps DEF EdgesInv
<1>9. Payload' = Payload /\ \A N : EdgesHeard(N)' = EdgesHeard(N)
  BY <1>1 DEF Payload, EdgesHeard
<1>10. 1..row' - 1 \subseteq DOMAIN parsed.rows
  BY <1>2, <1>3, <1>6
<1>11. edges' = EdgesHeard(1..position - 1)'
  BY <1>1, <1>9 DEF EdgesInv
<1> QED
  BY <1>1, <1>7, <1>8, <1>9, <1>10, <1>11 DEF EdgesInv

LEMMA MergePayloadEdges == ASSUME IdsAreKept, EdgesInv, MergePayload PROVE EdgesInv'
<1>1. /\ phase = "parse" /\ row > Len(parsed.rows) /\ phase' = "read"
      /\ edges' = AddEdges(edges, AddEdges(localEdges, parsed.links))
      /\ position' = position + 1
      /\ UNCHANGED <<manifest, parsed, row, localObjects, localEdges>>
  BY DEF MergePayload
<1>2. /\ position \in DOMAIN manifest /\ manifest \in Manifests /\ Readable(manifest[position])
      /\ parsed = ParsePayload(manifest[position]) /\ row \in Nat \ {0}
      /\ position \in Nat \ {0}
      /\ ClosedParse(parsed) /\ 1..row - 1 \subseteq DOMAIN parsed.rows
      /\ localEdges = UNION {parsed.rows[i].edges : i \in 1..row - 1}
      /\ \A n \in 1..position - 1 : n \in DOMAIN manifest /\ Readable(manifest[n])
      /\ edges = EdgesHeard(1..position - 1)
  BY <1>1 DEF EdgesInv, Inv, Payload
<1>3. 1..row - 1 = DOMAIN parsed.rows
  <2> DEFINE L == Len(parsed.rows)
  <2>1. DOMAIN parsed.rows = 1..L /\ L \in Nat
    BY <1>2 DEF ClosedParse, ClosedRows
  <2>2. row > L /\ row \in Nat
    BY <1>1, <1>2
  <2> HIDE DEF L
  <2>3. 1..L \subseteq 1..row - 1
    BY <2>1, <2>2
  <2> QED
    BY <1>2, <2>1, <2>3
<1>4. localEdges \cup parsed.links = EdgesOf(parsed)
  BY <1>2, <1>3 DEF EdgesOf
<1>5. AddEdges(localEdges, parsed.links) = EdgesOf(parsed)
  <2>1. \A e \in parsed.links, f \in localEdges :
          e \in EdgesOf(parsed) /\ f \in EdgesOf(parsed)
    BY <1>4
  <2>2. \A e \in parsed.links, f \in localEdges : e.id = f.id => e = f
    BY <1>2, <2>1, EdgesAgree
  <2> QED
    BY <1>4, <2>2, AllAdded
<1>6. \A e \in EdgesOf(parsed), f \in edges : e.id = f.id => e = f
  <2> SUFFICES ASSUME NEW e \in EdgesOf(parsed), NEW f \in edges, e.id = f.id PROVE e = f
    OBVIOUS
  <2>1. PICK n \in 1..position - 1 : f \in EdgesOf(ParsePayload(manifest[n]))
    BY <1>2 DEF EdgesHeard
  <2> QED
    BY <1>2, <2>1, EdgesAgree
<1>7. edges' = edges \cup EdgesOf(parsed)
  BY <1>1, <1>5, <1>6, AllAdded
<1>8. 1..position' - 1 = (1..position - 1) \cup {position}
  BY <1>1, <1>2
<1>9. edges' = EdgesHeard(1..position' - 1)
  BY <1>2, <1>7, <1>8 DEF EdgesHeard
<1>10. \A N : EdgesHeard(N)' = EdgesHeard(N)
  BY <1>1 DEF EdgesHeard
<1>11. Inv'
  BY MergePayloadKeeps DEF EdgesInv
<1>12. \A n \in 1..position' - 1 : n \in DOMAIN manifest' /\ Readable(manifest'[n])
  BY <1>1, <1>2, <1>8
<1>13. edges' = EdgesHeard(1..position - 1)'
  BY <1>1, <1>9 DEF EdgesHeard
<1> QED
  BY <1>1, <1>2, <1>11, <1>12, <1>13 DEF EdgesInv

LEMMA OthersEdges ==
    ASSUME EdgesInv, RejectPayload \/ Finish \/ UNCHANGED vars
    PROVE  EdgesInv'
<1>1. UNCHANGED <<manifest, position, parsed, row, localEdges, edges>>
  BY DEF RejectPayload, Finish, vars
<1>2. /\ phase' = "parse" => phase = "parse"
      /\ phase' \in {"read", "parse"} => phase \in {"read", "parse"}
  BY DEF RejectPayload, Finish, vars
<1>3. Inv'
  BY OthersKeep DEF EdgesInv
<1> QED
  BY <1>1, <1>2, <1>3 DEF EdgesInv, Payload, EdgesHeard

(* No edge that a payload tells is lost to an earlier one, and none is made *)
(* up (setdefault in _MutableCatalog.add_edge), when a manifest has each    *)
(* payload once and its graphs agree on what their ids mean: the ids that   *)
(* parsers make up tell the edges of a payload, and of two, apart.          *)
THEOREM NoEdgeIsEverLost ==
    ASSUME IdsAreKept
    PROVE  Spec => []NoEdgeIsLost
<1>1. EdgesInv /\ [Next]_vars => EdgesInv'
  BY IdsAreKept, ReadPayloadEdges, AddRowEdges, MergePayloadEdges, OthersEdges, Zenon DEF Next
<1>2. EdgesInv => NoEdgeIsLost
  BY DEF EdgesInv, EdgesHeard, NoEdgeIsLost
<1> QED
  BY <1>1, <1>2, InitEdges, PTL DEF Spec
=============================================================================

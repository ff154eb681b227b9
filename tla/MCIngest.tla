------------------------------ MODULE MCIngest ------------------------------
(* Every order of up to three payloads of a pool that has each kind, and in *)
(* it what is absent, named twice, out of range or cannot be read. The list *)
(* of the requests of an object is followed by the details of its latest    *)
(* request, which may tell another status and another time.                 *)
EXTENDS Ingest

CONSTANTS a, b, c, q, one, two, text, green, red,
          graph, loose, dataflow, chain, variant, adso, dtp, composite, query, noQuery, nameless,
          list, detail, late, found, hits, above, refs, other, source, system

Node(id, type, name) == [id |-> id, type |-> type, name |-> name]
Arc(id, from, to) == [id |-> id, source |-> from, target |-> to, type |-> "dataflow"]
Shape(number, name, type, targets) ==
    [number |-> number, name |-> name, description |-> None, type |-> type,
     sources |-> {}, targets |-> targets]
Step(name, type) == [variant |-> name, type |-> type, name |-> text]
Input(id, type) == [id |-> id, type |-> type]
Ref(from, to, related, type) ==
    [from |-> from, to |-> to, related |-> related, type |-> type, name |-> text]
R(tsn, time, status) == [tsn |-> tsn, time |-> time, status |-> status]

El(marks, name, ref) ==
    [marks |-> marks, name |-> name, on |-> name, values |-> {}, provider |-> ref, href |-> None]
Doc(xml, root, asked, elements) ==
    [xml |-> xml, root |-> root, asked |-> asked, elements |-> elements]
OfA == [id |-> a, type |-> "ADSO"]

PlainPayloads ==
    {[id |-> graph, kind |-> "graph", nodes |-> <<Node(a, "ADSO", None), Node(b, "UNKNOWN", text)>>,
      edges |-> {Arc(one, a, b), Arc(two, b, b)}],
     [id |-> loose, kind |-> "graph", nodes |-> <<Node(a, "ADSO", None)>>, edges |-> {Arc(one, a, b)}],
     [id |-> dataflow, kind |-> "dataflow",
      nodes |-> <<Shape(None, c, "ADSO", {one}), Shape(one, a, None, {two, text}),
                  Shape(one, b, "ADSO", {}), Shape(two, None, "TRFN", {one})>>],
     [id |-> chain, kind |-> "chain", chain |-> c, name |-> None,
      steps |-> <<Step(a, "LOADING"), Step(None, None), Step(a, None)>>,
      sequence |-> {<<0, 1>>, <<1, 2>>, <<2, 3>>}],
     [id |-> variant, kind |-> "variant", object |-> b, type |-> None, name |-> text],
     [id |-> adso, kind |-> "adso", object |-> b, type |-> None, name |-> None],
     [id |-> source, kind |-> "datasource", object |-> None, type |-> None, name |-> None],
     [id |-> system, kind |-> "source_system", object |-> a, type |-> None, name |-> text],
     [id |-> dtp, kind |-> "dtp", dtp |-> c, name |-> text, source |-> a, sourceType |-> "RSDS",
      target |-> None, targetType |-> None, transformation |-> b],
     [id |-> composite, kind |-> "composite", hcpr |-> c, name |-> None,
      inputs |-> <<Input(a, None), Input(None, "ADSO"), Input(a, "ADSO")>>]}

OtherPayloads ==
    {[id |-> query, kind |-> "query",
      document |-> Doc(TRUE, None, q,
          <<El({"variable"}, b, None), El({"provider"}, None, OfA), El({"calculated"}, c, OfA),
            El({"calculated", "member"}, c, None), El({"provider"}, None, OfA)>>)],
     [id |-> noQuery, kind |-> "query", document |-> Doc(FALSE, None, q, <<>>)],
     [id |-> nameless, kind |-> "query", document |-> Doc(FALSE, None, None, <<>>)],
     [id |-> list, kind |-> "requests", target |-> a, type |-> "ADSO",
      requests |-> {R(1, 1, green), R(2, 2, red)}],
     [id |-> detail, kind |-> "requests", target |-> a, type |-> None,
      requests |-> {R(2, 3, green)}],
     [id |-> late, kind |-> "requests", target |-> a, type |-> None,
      requests |-> {R(2, 0, red), R(3, 2, None)}],
     [id |-> found, kind |-> "search", xml |-> TRUE,
      hits |-> <<Node(b, None, text), Node(None, None, None), Node(b, "HCPR", text)>>],
     [id |-> hits, kind |-> "search", xml |-> FALSE,
      hits |-> <<Node(b, None, None), Node(b, "HCPR", text)>>],
     [id |-> above, kind |-> "xref", xml |-> TRUE, requested |-> b, direction |-> "upstream",
      references |-> <<Ref(a, None, c, "ADSO"), Ref(a, b, None, None), Ref(None, None, None, None)>>],
     [id |-> refs, kind |-> "xref", xml |-> FALSE, requested |-> b, direction |-> "downstream",
      references |-> <<Ref(a, b, None, None), Ref(a, None, c, None)>>],
     [id |-> other, kind |-> "other"]}

Pool == PlainPayloads \cup OtherPayloads

MCManifests ==
    {<<>>} \cup {<<p>> : p \in Pool} \cup {<<p, r>> : p, r \in Pool}
           \cup {<<p, r, s>> : p, r, s \in Pool}

Distinct(m) == \A i, j \in DOMAIN m : m[i] = m[j] => i = j

MCDistinctManifests == {m \in MCManifests : Distinct(m)}
=============================================================================

---------------------------- MODULE QueryAnalysis ----------------------------
(***************************************************************************)
(* parse_query_xml (src/src/bwli/query_analysis.py): what is kept of the   *)
(* XML of a BW query. A document is its root and a sequence of elements in *)
(* document order; what the parser reads off the tag, the attributes and   *)
(* the type hints of an element is given by its marks. An element may have *)
(* several marks and is then kept once under each of them.                 *)
(*                                                                         *)
(* The lists of the result are sets of positions in the document, so that  *)
(* their order is the order of the document. Not covered: descriptions,    *)
(* formulas, selections, the value of a filter, local members that differ  *)
(* in their formula only, the flag of an inactive query.                   *)
(***************************************************************************)
EXTENDS Integers, FiniteSets, Sequences

CONSTANTS Names,    \* technical names
          Types,    \* object types, "UNKNOWN" among them
          None      \* an attribute that is absent

Marks == {"variable", "calculated", "restricted", "filter", "member",
          "provider", "link", "rows", "columns", "free"}

ProviderRef == [id : Names, type : Types]

Element == [marks : SUBSET Marks,
            name : Names \cup {None},            \* technicalName, name, ...
            on : Names \cup {None},              \* the InfoObject it is about
            values : SUBSET Names,               \* names on the axis below it
            provider : ProviderRef \cup {None},  \* in its attributes
            href : ProviderRef \cup {None}]      \* in its link

(* xml is FALSE for a text that is not XML; asked is queryName of source.   *)
Document == [xml : BOOLEAN, root : Names \cup {None}, asked : Names \cup {None},
             elements : Seq(Element)]

UnknownQuery == <<"UNKNOWN_QUERY">>

NamedElements(d) == {i \in DOMAIN d.elements : d.elements[i].name # None}

FirstPosition(S) == CHOOSE i \in S : \A j \in S : i <= j

QueryId(d) ==
    IF d.xml /\ d.root # None THEN d.root
    ELSE IF d.asked # None THEN d.asked
    ELSE IF d.xml /\ NamedElements(d) # {}
         THEN d.elements[FirstPosition(NamedElements(d))].name
    ELSE UnknownQuery

(* Neither the text nor its source names the query: parse_query_xml raises. *)
Unparseable(d) == ~d.xml /\ d.asked = None

Marked(d, mark) == {i \in NamedElements(d) : mark \in d.elements[i].marks}

(* _dedupe_variables, _dedupe_key_figures: the first of each name.          *)
FirstOfEachName(d, S) ==
    {i \in S : \A j \in S : j < i => d.elements[j].name # d.elements[i].name}

Components(d, mark) == FirstOfEachName(d, Marked(d, mark))

ProviderOf(e) ==
    IF "link" \in e.marks /\ e.href # None THEN e.href
    ELSE IF "provider" \in e.marks THEN e.provider ELSE None

ProviderElements(d) ==
    {i \in DOMAIN d.elements :
        LET p == ProviderOf(d.elements[i]) IN
        /\ p # None
        /\ p.id # QueryId(d)
        /\ p.type \notin {"VARIABLE", "CKF", "RKF"}}

Providers(d) ==
    {i \in ProviderElements(d) : \A j \in ProviderElements(d) :
        j < i => ProviderOf(d.elements[j]) # ProviderOf(d.elements[i])}

Filters(d) == {e \in {d.elements[i] : i \in DOMAIN d.elements} :
                  "filter" \in e.marks /\ e.on # None}

Axes == {"rows", "columns", "free"}

Layout(d, axis) ==
    UNION {d.elements[i].values : i \in {j \in DOMAIN d.elements : axis \in d.elements[j].marks}}

NamesAt(d, S) == {d.elements[i].name : i \in S}

FieldNames(d) ==
    (UNION {NamesAt(d, Components(d, m)) : m \in {"variable", "calculated", "restricted", "member"}})
        \cup {e.on : e \in Filters(d)} \cup (UNION {Layout(d, a) : a \in Axes})

(* QueryAnalysisResult; of a text that is not XML only the name is known.   *)
ParseQuery(d) ==
    LET Kept(S) == IF d.xml THEN S ELSE {} IN
    [query      |-> QueryId(d),
     parsed     |-> d.xml,
     providers  |-> Kept(Providers(d)),
     variables  |-> Kept(Components(d, "variable")),
     calculated |-> Kept(Components(d, "calculated")),
     restricted |-> Kept(Components(d, "restricted")),
     members    |-> Kept(Components(d, "member")),
     filters    |-> Kept({e.on : e \in Filters(d)}),
     fields     |-> Kept(FieldNames(d))]
=============================================================================

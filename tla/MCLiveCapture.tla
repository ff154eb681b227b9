--------------------------- MODULE MCLiveCapture ---------------------------
(* Captures of up to two objects, two queries and a search term. The name  *)
(* x begins y, q begins both, and lower is x in lower case; objects and     *)
(* queries are asked for in order and out of it.                            *)
EXTENDS LiveCapture

CONSTANTS x, y, lower, q, t, o1, o2

Order == <<t, q, x, y, lower>>
OneLower == [n \in Names |-> IF n = lower THEN x ELSE n]
Beginnings == {<<x, y>>, <<q, x>>, <<q, y>>}

Flags == {f \in [dataflow : BOOLEAN, xref : BOOLEAN, freshness : BOOLEAN] :
            ~(f.dataflow /\ f.xref /\ f.freshness)}

Asked(terms, objects, queries) ==
    {[terms |-> terms, objects |-> objects, queries |-> queries, dataflow |-> f.dataflow,
      xref |-> f.xref, freshness |-> f.freshness, options |-> o1] : f \in Flags}

\* A name in lower case, in the calls that do not change its case.
LowerDataflow == {[terms |-> <<>>, objects |-> <<lower, y>>, queries |-> <<>>, dataflow |-> TRUE,
                   xref |-> FALSE, freshness |-> f, options |-> o1] : f \in BOOLEAN}

\* Two names with one label.
SameLabel == {[terms |-> <<>>, objects |-> <<lower, x>>, queries |-> <<>>, dataflow |-> f,
               xref |-> TRUE, freshness |-> FALSE, options |-> o1] : f \in BOOLEAN}

SomeRequests ==
    Asked(<<>>, <<y, x>>, <<>>) \cup Asked(<<t>>, <<x>>, <<q>>)
        \cup Asked(<<t, t>>, <<>>, <<>>) \cup Asked(<<>>, <<>>, <<x, q, x>>)
        \cup Asked(<<>>, <<x, x>>, <<x, y>>) \cup LowerDataflow \cup SameLabel
=============================================================================

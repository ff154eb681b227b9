--------------------------- MODULE MCImpactReview ---------------------------
(* All graphs with three nodes and three edges, parallel edges, loops and  *)
(* cycles among them, under small limits, and one graph with a short and a *)
(* long way from n1 to n5 and a sixth node two steps out, on which the     *)
(* order of the visits shows. Every graph is asked for its lineage; those  *)
(* below an object also for the scenarios and reviews of a change of it,   *)
(* and for an analysis of several changes. n2 and n3 may be queries, asked *)
(* for by a text that both contain although only n3 is called so.          *)
EXTENDS ImpactReview

CONSTANTS n1, n2, n3, n4, n5, n6, text, nothing

SmallEnds == {[e \in 1..6 |-> IF e <= 3 THEN f[e] ELSE n1] : f \in [1..3 -> {n1, n2, n3}]}

SmallQueries ==
    [edges : {1..3}, src : SmallEnds, dst : SmallEnds,
     direction : Directions, depth : 0..2, nodeCap : 1..3, edgeCap : {0, 2, 3}]

TwoWays ==
    [edges : {1..6}, src : {<<n1, n1, n3, n4, n2, n2>>}, dst : {<<n2, n3, n4, n5, n5, n6>>},
     direction : Directions, depth : 2..4, nodeCap : 1..6, edgeCap : 3..6]

SomeQueries == SmallQueries \cup TwoWays

TheNames == Nodes \cup {text, nothing}

CalledSo ==
    [name \in TheNames |->
        IF name \in Nodes THEN {name} ELSE IF name = text THEN {n3} ELSE {}]

MentionedBy ==
    [name \in TheNames |->
        IF name \in Nodes THEN {name} ELSE IF name = text THEN {n2, n3} ELSE {}]

Plain ==
    [kind |-> "lineage", changes |-> <<n1>>, queries |-> {},
     analysis |-> [n \in Nodes |-> NoAnalysis], loaded |-> {}, names |-> <<>>,
     impacted |-> TRUE, freshness |-> TRUE, views |-> <<>>, manual |-> FALSE]

Scenario == [Plain EXCEPT !.kind = "scenario"]

Captured(n) ==
    [Plain.analysis EXCEPT ![n] = [fields |-> StoredFields, providers |-> {n1, n2}, limits |-> TRUE]]

Reviewed(queries) ==
    [Plain EXCEPT !.kind = "review", !.queries = queries, !.loaded = {n1, n2}]

Reviews ==
    {Reviewed({}), Reviewed({n2, n3}), Reviewed({n1, n2}),
     [Reviewed({n2, n3}) EXCEPT !.names = <<text>>, !.impacted = FALSE, !.manual = TRUE],
     [Reviewed({n2}) EXCEPT !.names = <<nothing>>],
     [Reviewed({n3}) EXCEPT !.names = <<n3, text>>, !.views = <<[id |-> text, refs |-> {n2}, given |-> TRUE]>>],
     [Reviewed({n3}) EXCEPT !.analysis = Captured(n3), !.freshness = FALSE],
     [Reviewed({}) EXCEPT !.views = <<[id |-> text, refs |-> {}, given |-> FALSE]>>]}

Analyses(changes) == {[Plain EXCEPT !.kind = "analyze", !.changes = c] : c \in changes}

MCAsksOf(q) ==
    {Plain}
    \cup (IF q.direction = "downstream" /\ q.nodeCap >= 2 /\ q.edgeCap >= 2
          THEN {Scenario} ELSE {})
    \cup (IF q.direction = "downstream" /\ q.nodeCap = 3 /\ q.edgeCap = 3 /\ q.depth = 2
          THEN Reviews ELSE {})
    \cup (IF q.direction = "downstream" /\ q.nodeCap = 1 /\ q.edgeCap = 3
          THEN Analyses(IF q \in TwoWays THEN {<<n1, n1>>, <<n3, n5>>} ELSE {<<n1>>, <<Unknown, n2>>})
          ELSE {})
=============================================================================

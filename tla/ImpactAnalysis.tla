--------------------------- MODULE ImpactAnalysis ---------------------------
(***************************************************************************)
(* run_impact_analysis (src/src/bwli/impact.py): for every change, the     *)
(* objects downstream of it (BwGraph.traverse, src/src/bwli/graph.py) and  *)
(* for each of them the path that is shown as evidence, found by a second  *)
(* search of its own (_downstream_path_evidence). The report looks the     *)
(* path of every object up without a default, so the two searches have to  *)
(* agree.                                                                  *)
(*                                                                         *)
(* One step is one turn of a while loop or one edge of a for loop. Not     *)
(* covered: severity and wording of a finding, which are functions of the  *)
(* change type and the node type alone; the edges and the order of the     *)
(* traversal result, which the report does not use.                        *)
(***************************************************************************)
EXTENDS Integers, FiniteSets, Sequences

CONSTANTS Nodes,     \* object ids in the graph
          Unknown,   \* an object id that is not in the graph
          EdgeIds,   \* edges, numbered in the order of graph.edges
          Queries,   \* graphs, change lists and depths that are analysed
          Nowhere    \* "no node is being expanded"

Query == [edges : SUBSET EdgeIds, src : [EdgeIds -> Nodes], dst : [EdgeIds -> Nodes],
          changes : Seq(Nodes \cup {Unknown}), depth : Nat]

Entry == [node : Nodes, depth : Nat]
Path  == [nodes : Seq(Nodes), edges : Seq(EdgeIds)]
Phases == {"next", "traverse", "evidence", "report", "failed", "done"}

VARIABLES
    query,     \* the graph, the changes and max_depth
    change,    \* index of the change that is analysed
    phase,
    level,     \* visited_depth of traverse
    path,      \* paths of _downstream_path_evidence
    queue,     \* the queue of the search that runs
    current,   \* the queue entry being expanded
    todo,      \* its outgoing edges not looked at yet
    findings

vars == <<query, change, phase, level, path, queue, current, todo, findings>>

Changed == query.changes[change]
Outgoing(n) == {e \in query.edges : query.src[e] = n}
NoPath == [nodes |-> <<>>, edges |-> <<>>]

Init ==
    /\ query \in Queries
    /\ change = 1 /\ phase = "next"
    /\ level = <<>> /\ path = <<>>
    /\ queue = <<>> /\ current = Nowhere /\ todo = {}
    /\ findings = {}

-----------------------------------------------------------------------------
(* The loop over the changes. *)

NextChange ==
    /\ phase = "next" /\ change <= Len(query.changes) /\ Changed \in Nodes
    /\ phase' = "traverse"
    /\ level' = [n \in {Changed} |-> 0]
    /\ queue' = <<[node |-> Changed, depth |-> 0]>>
    /\ UNCHANGED <<query, change, path, current, todo, findings>>

UnknownSource ==
    /\ phase = "next" /\ change <= Len(query.changes) /\ Changed \notin Nodes
    /\ findings' = findings \cup {[change |-> change, object |-> Changed, path |-> NoPath]}
    /\ change' = change + 1
    /\ UNCHANGED <<query, phase, level, path, queue, current, todo>>

Finish ==
    /\ phase = "next" /\ change > Len(query.changes)
    /\ phase' = "done"
    /\ UNCHANGED <<query, change, level, path, queue, current, todo, findings>>

(* What both searches do with their queue. *)

Take(stops) ==
    /\ current = Nowhere /\ queue # <<>>
    /\ queue' = Tail(queue)
    /\ IF stops
       THEN UNCHANGED <<current, todo>>
       ELSE current' = Head(queue) /\ todo' = Outgoing(Head(queue).node)

NextEdge(e) ==
    /\ current # Nowhere
    /\ e \in todo /\ \A f \in todo : e <= f
    /\ todo' = todo \ {e}

Expanded ==
    /\ phase \in {"traverse", "evidence"}
    /\ current # Nowhere /\ todo = {}
    /\ current' = Nowhere
    /\ UNCHANGED <<query, change, phase, level, path, queue, todo, findings>>

SearchEnds == current = Nowhere /\ queue = <<>>

Enqueue(n) == queue' = Append(queue, [node |-> n, depth |-> current.depth + 1])

(* BwGraph.traverse, direction downstream. *)

TraverseStops(d) == d >= query.depth

TraverseNode ==
    /\ phase = "traverse"
    /\ Take(TraverseStops(Head(queue).depth))
    /\ UNCHANGED <<query, change, phase, level, path, findings>>

Nearer(n, d) == n \notin DOMAIN level \/ d < level[n]

TraverseEdge(e) ==
    /\ phase = "traverse"
    /\ NextEdge(e)
    /\ LET n == query.dst[e]
           d == current.depth + 1
       IN IF Nearer(n, d)
          THEN /\ level' = [m \in DOMAIN level \cup {n} |-> IF m = n THEN d ELSE level[m]]
               /\ Enqueue(n)
          ELSE UNCHANGED <<level, queue>>
    /\ UNCHANGED <<query, change, phase, path, current, findings>>

StartEvidence ==
    /\ phase = "traverse" /\ SearchEnds
    /\ phase' = "evidence"
    /\ path' = [n \in {Changed} |-> [nodes |-> <<Changed>>, edges |-> <<>>]]
    /\ queue' = <<[node |-> Changed, depth |-> 0]>>
    /\ UNCHANGED <<query, change, level, current, todo, findings>>

(* _downstream_path_evidence. *)

EvidenceStopsEarly(d) == d + 1 >= query.depth    \* mutant

EvidenceStops(d) == d >= query.depth

EvidenceNode ==
    /\ phase = "evidence"
    /\ Take(EvidenceStops(Head(queue).depth))
    /\ UNCHANGED <<query, change, phase, level, path, findings>>

Extended(p, e) == [nodes |-> Append(p.nodes, query.dst[e]), edges |-> Append(p.edges, e)]

PathAlwaysReplaced(n) == TRUE    \* mutant

PathIsNew(n) == n \notin DOMAIN path

EvidenceEdge(e) ==
    /\ phase = "evidence"
    /\ NextEdge(e)
    /\ LET n == query.dst[e] IN
         IF PathIsNew(n)
         THEN /\ path' = [m \in DOMAIN path \cup {n} |->
                            IF m = n THEN Extended(path[current.node], e) ELSE path[m]]
              /\ Enqueue(n)
         ELSE UNCHANGED <<path, queue>>
    /\ UNCHANGED <<query, change, phase, level, current, findings>>

EndEvidence ==
    /\ phase = "evidence" /\ SearchEnds
    /\ phase' = "report"
    /\ UNCHANGED <<query, change, level, path, queue, current, todo, findings>>

(* The findings of one change; a missing path is a KeyError. *)

ImpactedWithSource == DOMAIN level    \* mutant: the changed object reports itself

Impacted == DOMAIN level \ {Changed}

Report ==
    /\ phase = "report"
    /\ IF Impacted \subseteq DOMAIN path
       THEN /\ findings' = findings \cup
                 {[change |-> change, object |-> n, path |-> path[n]] : n \in Impacted}
            /\ change' = change + 1
            /\ phase' = "next"
       ELSE phase' = "failed" /\ UNCHANGED <<change, findings>>
    /\ UNCHANGED <<query, level, path, queue, current, todo>>

Next ==
    \/ NextChange \/ UnknownSource \/ Finish
    \/ TraverseNode \/ StartEvidence \/ EvidenceNode \/ EndEvidence \/ Expanded \/ Report
    \/ \E e \in EdgeIds : TraverseEdge(e) \/ EvidenceEdge(e)

Spec == Init /\ [][Next]_vars

-----------------------------------------------------------------------------
(* Every variable has the type its code gives it. *)
TypeOK ==
    /\ query \in Query
    /\ change \in 1..Len(query.changes) + 1
    /\ phase \in Phases
    /\ DOMAIN level \subseteq Nodes /\ level \in [DOMAIN level -> Nat]
    /\ DOMAIN path \subseteq Nodes /\ path \in [DOMAIN path -> Path]
    /\ queue \in Seq(Entry)
    /\ current \in Entry \cup {Nowhere}
    /\ todo \subseteq query.edges
    /\ findings \subseteq [change : Nat, object : Nodes \cup {Unknown}, path : Path]

(* run_impact_analysis indexes the paths by every node of the traversal     *)
(* (impact.py 143): the two searches reach the same objects, whatever       *)
(* cycles, loops and parallel edges the graph has and whatever the depth.   *)
NoMissingEvidence == phase = "report" => DOMAIN level = DOMAIN path

(* Reach(n)[k]: the objects at most k steps downstream of n. *)
Reach(n) ==
    LET Within[k \in 0..Cardinality(Nodes)] ==
          IF k = 0 THEN {n}
          ELSE Within[k - 1] \cup {query.dst[e] : e \in {f \in query.edges :
                                                          query.src[f] \in Within[k - 1]}}
    IN  Within

Smaller(a, b) == IF a < b THEN a ELSE b

(* A report names exactly the objects within the depth limit downstream of  *)
(* each change, once each, and a change of an unknown object as such.       *)
FindingsAreTheReach ==
    phase = "done" => \A i \in 1..Len(query.changes) :
        {f.object : f \in {g \in findings : g.change = i}} =
            IF query.changes[i] = Unknown THEN {Unknown}
            ELSE Reach(query.changes[i])[Smaller(query.depth, Cardinality(Nodes))]
                     \ {query.changes[i]}

(* The evidence of a finding is a path of the graph from the change to the  *)
(* object, and there is no shorter one.                                     *)
EvidenceIsShortestPath ==
    \A f \in findings : f.object # Unknown =>
        LET ns == f.path.nodes
            es == f.path.edges
        IN  /\ Len(ns) = Len(es) + 1
            /\ ns[1] = query.changes[f.change] /\ ns[Len(ns)] = f.object
            /\ \A i \in 1..Len(es) :
                 es[i] \in query.edges /\ query.src[es[i]] = ns[i] /\ query.dst[es[i]] = ns[i + 1]
            /\ f.object \notin Reach(query.changes[f.change])[Len(es) - 1]
=============================================================================

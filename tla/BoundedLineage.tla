--------------------------- MODULE BoundedLineage ---------------------------
(***************************************************************************)
(* bounded_lineage (src/src/bwli/traversal.py): the breadth-first lineage  *)
(* of one object under a depth limit, a node cap and an edge cap, with the *)
(* account of what was left out. One step is one turn of the outer loop    *)
(* (Expand) or of the loop over the neighbours of a node.                  *)
(*                                                                         *)
(* The query (graph, direction and limits) is chosen in Init, so that one  *)
(* check goes through all of them. omitted_neighbor_counts is kept as the  *)
(* set of the <<node, edge>> pairs it counts (the code counts a loop edge  *)
(* twice in direction "both"). Not covered: the payload of nodes and       *)
(* edges, the sorting of the answer, cycles_detected.                      *)
(***************************************************************************)
EXTENDS Integers, FiniteSets, Sequences

CONSTANTS Nodes,      \* object ids
          EdgeIds,    \* edge ids, ordered as the code sorts them
          Start,      \* the object the lineage starts from
          Queries,    \* the graphs, directions and limits that are asked for
          NoNode      \* "no node is being expanded"

Directions == {"downstream", "upstream", "both"}

Query == [edges : SUBSET EdgeIds, src : [EdgeIds -> Nodes], dst : [EdgeIds -> Nodes],
          direction : Directions, depth : Nat, nodeCap : Nat \ {0}, edgeCap : Nat]

ASSUME LineageAssumption ==
    /\ IsFiniteSet(Nodes) /\ Start \in Nodes /\ NoNode \notin Nodes
    /\ EdgeIds \subseteq Nat /\ IsFiniteSet(EdgeIds)
    /\ Queries \subseteq Query

VARIABLES
    query,        \* the query that is answered
    level,        \* visited_depth: its domain is the set of visited nodes
    included,     \* included_edge_ids
    omitted,      \* what omitted_neighbor_counts counts
    nodeCapReached, edgeCapReached, depthLimitReached,
    queue,        \* nodes to expand (their depth is their level)
    current,      \* the node being expanded
    todo          \* its neighbour edges not looked at yet

vars == <<query, level, included, omitted, nodeCapReached, edgeCapReached,
          depthLimitReached, queue, current, todo>>

Init ==
    /\ query \in Queries
    /\ level = [n \in {Start} |-> 0]
    /\ included = {} /\ omitted = {}
    /\ nodeCapReached = FALSE /\ edgeCapReached = FALSE /\ depthLimitReached = FALSE
    /\ queue = <<Start>>
    /\ current = NoNode /\ todo = {}

-----------------------------------------------------------------------------
Visited == DOMAIN level

Leaves(n, e) == query.direction \in {"downstream", "both"} /\ query.src[e] = n
Enters(n, e) == query.direction \in {"upstream", "both"} /\ query.dst[e] = n

NextEdges(n) == {e \in query.edges : Leaves(n, e) \/ Enters(n, e)}

OtherEnd(n, e) == IF Leaves(n, e) THEN query.dst[e] ELSE query.src[e]

AllEdgesBeyondDepth(n) == NextEdges(n)    \* mutant: does not spare included edges

BeyondDepth(n) == NextEdges(n) \ included

Peek == UNCHANGED queue    \* mutant: peeks instead of popping

PopLeft == queue' = Tail(queue)

StopAtDepth(n) ==
    /\ level[n] >= query.depth
    /\ omitted' = omitted \cup ({n} \X BeyondDepth(n))
    /\ depthLimitReached' = (depthLimitReached \/ BeyondDepth(n) # {})
    /\ UNCHANGED <<current, todo>>

StartNode(n) ==
    /\ level[n] < query.depth
    /\ current' = n
    /\ todo' = NextEdges(n)
    /\ UNCHANGED <<omitted, depthLimitReached>>

Expand ==
    /\ current = NoNode
    /\ queue # <<>>
    /\ StopAtDepth(Head(queue)) \/ StartNode(Head(queue))
    /\ PopLeft
    /\ UNCHANGED <<query, level, included, nodeCapReached, edgeCapReached>>

NodesFull(n) == n \notin Visited /\ Cardinality(Visited) >= query.nodeCap
EdgesFull(e) == e \notin included /\ Cardinality(included) >= query.edgeCap

OmitSilently(e) == UNCHANGED <<omitted, level, included, queue>>    \* mutant

Omit(e) ==
    /\ omitted' = omitted \cup {<<current, e>>}
    /\ UNCHANGED <<level, included, queue>>

OmitNodeButKeepEdge(e) ==    \* mutant: the edge is added before the node cap is tested
    /\ NodesFull(OtherEnd(current, e))
    /\ omitted' = omitted \cup {<<current, e>>}
    /\ included' = included \cup {e}
    /\ nodeCapReached' = TRUE
    /\ UNCHANGED <<level, queue, edgeCapReached>>

OmitForNodeCap(e) ==
    /\ NodesFull(OtherEnd(current, e))
    /\ Omit(e)
    /\ nodeCapReached' = TRUE
    /\ UNCHANGED edgeCapReached

OmitForEdgeCap(e) ==
    /\ ~NodesFull(OtherEnd(current, e))
    /\ EdgesFull(e)
    /\ Omit(e)
    /\ edgeCapReached' = TRUE
    /\ UNCHANGED nodeCapReached

EnqueuedFirst(n) == <<n>> \o queue    \* mutant: a stack instead of a queue

Enqueued(n) == Append(queue, n)

Include(e) ==
    LET next == OtherEnd(current, e) IN
    /\ ~NodesFull(next)
    /\ ~EdgesFull(e)
    /\ included' = included \cup {e}
    /\ IF next \in Visited
       THEN UNCHANGED <<level, queue>>
       ELSE /\ level' = [n \in Visited \cup {next} |->
                           IF n = next THEN level[current] + 1 ELSE level[n]]
            /\ queue' = Enqueued(next)
    /\ UNCHANGED <<omitted, nodeCapReached, edgeCapReached>>

VisitNeighbour ==
    /\ current # NoNode
    /\ \E e \in todo :
         /\ \A f \in todo : e <= f
         /\ OmitForNodeCap(e) \/ OmitForEdgeCap(e) \/ Include(e)
         /\ todo' = todo \ {e}
    /\ UNCHANGED <<query, depthLimitReached, current>>

FinishNode ==
    /\ current # NoNode
    /\ todo = {}
    /\ current' = NoNode
    /\ UNCHANGED <<query, level, included, omitted, nodeCapReached, edgeCapReached,
                   depthLimitReached, queue, todo>>

Next == Expand \/ VisitNeighbour \/ FinishNode

Spec == Init /\ [][Next]_vars

-----------------------------------------------------------------------------
Done == current = NoNode /\ queue = <<>>
Truncated == omitted # {}

(* Every variable has the type its code gives it. *)
TypeOK ==
    /\ query \in Query
    /\ Visited \subseteq Nodes /\ level \in [Visited -> Nat]
    /\ included \subseteq query.edges
    /\ omitted \subseteq Nodes \X query.edges
    /\ nodeCapReached \in BOOLEAN /\ edgeCapReached \in BOOLEAN
    /\ depthLimitReached \in BOOLEAN
    /\ queue \in Seq(Visited)
    /\ current \in Visited \cup {NoNode}
    /\ todo \subseteq query.edges

(* The caps a request asks for bound every answer, although they are only   *)
(* tested one neighbour at a time and the two tests interact.               *)
CapsRespected ==
    /\ Start \in Visited
    /\ Cardinality(Visited) <= query.nodeCap
    /\ Cardinality(included) <= query.edgeCap

(* Every edge of an answer joins two nodes of the answer, so the client can *)
(* draw it whatever cap was hit first.                                      *)
EdgesJoinVisitedNodes == 
    \A e \in included : query.src[e] \in Visited /\ query.dst[e] \in Visited

(* Within[k]: the nodes at most k steps from the start along edges of S, in *)
(* the direction of the request. *)
Neighbours(R, S) ==
    {OtherEnd(p[1], p[2]) : p \in {q \in R \X S : q[2] \in NextEdges(q[1])}}

Near(S) ==
    LET Within[k \in 0..Cardinality(Nodes)] ==
          IF k = 0 THEN {Start} ELSE Within[k - 1] \cup Neighbours(Within[k - 1], S)
    IN  Within

(* An answer that does not say it is truncated is the whole lineage: every  *)
(* edge of every visited node is in it.                                     *)
UntruncatedIsComplete ==
    Done /\ ~Truncated => \A n \in Visited : NextEdges(n) \subseteq included

(* ... and an answer that says so really left an edge out.                  *)
TruncatedLeftSomethingOut ==
    \A p \in omitted : p[1] \in Visited /\ p[2] \in NextEdges(p[1]) \ included

(* The level of a node is its distance from the start in the whole graph,   *)
(* not only along the edges that fitted under the caps, and an answer is    *)
(* connected: those edges alone reach the node at that level.               *)
LevelsAreDistances ==
    Done => \A n \in Visited :
        /\ n \in Near(included)[level[n]]
        /\ level[n] > 0 => n \notin Near(query.edges)[level[n] - 1]

(* The three flags explain exactly the truncation.                          *)
FlagsExplainTruncation ==
    Done => (Truncated <=> (nodeCapReached \/ edgeCapReached \/ depthLimitReached))
=============================================================================

------------------------- MODULE ImpactReviewProofs -------------------------
(***************************************************************************)
(* Theorems about ImpactReview and the two components it runs, for every   *)
(* graph, request, limit and store: the bounded lineage (BoundedLineage),  *)
(* the impact analysis (ImpactAnalysis) and what the server makes of them. *)
(***************************************************************************)
EXTENDS ImpactReview, FiniteSetTheorems, WellFoundedInduction, TLAPS

Queued(n) == \E i \in 1..Len(queue) : queue[i] = n

-----------------------------------------------------------------------------
(* The helpers of the model. *)

LEMMA SeqGrows ==
  ASSUME NEW S, NEW T, S \subseteq T, NEW s \in Seq(S)
  PROVE  s \in Seq(T)
  OBVIOUS

LEMMA EndsAreNodes ==
  ASSUME query \in Query, NEW n, NEW e \in query.edges
  PROVE  OtherEnd(n, e) \in Nodes
  BY DEF Query, OtherEnd

(* Taking a node off the queue. *)
LEMMA QueueSteps ==
  ASSUME TypeOK, queue # <<>>
  PROVE  /\ Head(queue) \in Visited
         /\ Tail(queue) \in Seq(Visited)
         /\ \A n : Queued(n) =>
              n = Head(queue) \/ \E i \in 1..Len(Tail(queue)) : Tail(queue)[i] = n
<1>1. queue \in Seq(Visited)
  BY DEF TypeOK
<1>2. ASSUME NEW i \in 1..Len(queue), i # 1
      PROVE  i - 1 \in 1..Len(Tail(queue)) /\ Tail(queue)[i - 1] = queue[i]
  BY <1>1, <1>2
<1> QED BY <1>1, <1>2 DEF Queued

(* The set of visited nodes grows by one node that was not full.             *)
LEMMA IncludeSteps ==
  ASSUME TypeOK, current # NoNode, NEW e \in todo, Include(e)
  PROVE  /\ OtherEnd(current, e) \in Nodes
         /\ Visited' = Visited \cup {OtherEnd(current, e)}
         /\ level' \in [Visited' -> Nat]
         /\ queue' \in Seq(Visited')
         /\ \A n : Queued(n) => Queued(n)'
         /\ \A n : n = OtherEnd(current, e) => n \in Visited \/ Queued(n)'
<1> DEFINE next == OtherEnd(current, e)
<1>1. next \in Nodes /\ current \in Visited /\ level \in [Visited -> Nat]
      /\ queue \in Seq(Visited)
  BY EndsAreNodes DEF TypeOK
<1>2. CASE next \in Visited
  <2>1. UNCHANGED <<level, queue>>
    BY <1>2 DEF Include
  <2> QED BY <1>1, <1>2, <2>1 DEF Visited, Queued
<1>3. CASE next \notin Visited
  <2>1. level' = [n \in Visited \cup {next} |-> IF n = next THEN level[current] + 1 ELSE level[n]]
    BY <1>3 DEF Include
  <2>2. Visited' = Visited \cup {next}
    BY <2>1 DEF Visited
  <2>3. level[current] + 1 \in Nat
    BY <1>1
  <2>4. level' \in [Visited' -> Nat]
    BY <1>1, <2>1, <2>2, <2>3
  <2>5. queue' = Append(queue, next)
    BY <1>3 DEF Include, Enqueued
  <2>6. queue \in Seq(Visited') /\ next \in Visited'
    BY <1>1, <2>2, SeqGrows
  <2>7. queue' \in Seq(Visited')
    BY <2>5, <2>6
  <2>8. /\ \A i \in 1..Len(queue) : i \in 1..Len(queue') /\ queue'[i] = queue[i]
        /\ Len(queue') \in 1..Len(queue') /\ queue'[Len(queue')] = next
    BY <2>5, <2>6
  <2>9. ASSUME NEW n, Queued(n) PROVE Queued(n)'
    <3>1. PICK i \in 1..Len(queue) : queue[i] = n
      BY <2>9 DEF Queued
    <3>2. i \in 1..Len(queue') /\ queue'[i] = n
      BY <2>8, <3>1
    <3> QED BY <3>2 DEF Queued
  <2>10. ASSUME NEW n, n = next PROVE Queued(n)'
    BY <2>8, <2>10 DEF Queued
  <2> QED BY <1>1, <2>2, <2>4, <2>7, <2>9, <2>10
<1> QED BY <1>2, <1>3

-----------------------------------------------------------------------------
(* Type correctness: the answer only ever holds nodes and edges of the       *)
(* graph, and every node in the queue has a level.                           *)
THEOREM TypeCorrect == Spec => []TypeOK
<1>1. Init => TypeOK
  <2> SUFFICES ASSUME Init PROVE TypeOK OBVIOUS
  <2>1. Visited = {Start} /\ level \in [Visited -> Nat]
    BY DEF Init, Visited
  <2>2. <<Start>> \in Seq({Start})
    OBVIOUS
  <2> QED BY <2>1, <2>2, LineageAssumption DEF Init, TypeOK
<1>2. TypeOK /\ [Next]_vars => TypeOK'
  <2> SUFFICES ASSUME TypeOK, [Next]_vars PROVE TypeOK' OBVIOUS
  <2>1. CASE UNCHANGED vars
    BY <2>1 DEF vars, TypeOK, Visited
  <2>2. CASE Expand
    <3>1. Head(queue) \in Visited /\ Tail(queue) \in Seq(Visited)
      BY <2>2, QueueSteps DEF Expand
    <3>2. UNCHANGED <<query, level, included, nodeCapReached, edgeCapReached>>
          /\ Visited' = Visited /\ queue' = Tail(queue)
      BY <2>2 DEF Expand, PopLeft, Visited
    <3>3. CASE StopAtDepth(Head(queue))
      <4>1. {Head(queue)} \X BeyondDepth(Head(queue)) \subseteq Nodes \X query.edges
        BY <3>1 DEF BeyondDepth, NextEdges, TypeOK
      <4>2. depthLimitReached' \in BOOLEAN /\ UNCHANGED <<current, todo>>
        BY <3>3 DEF StopAtDepth
      <4> QED BY <3>1, <3>2, <3>3, <4>1, <4>2 DEF StopAtDepth, TypeOK
    <3>4. CASE StartNode(Head(queue))
      BY <3>1, <3>2, <3>4 DEF StartNode, NextEdges, TypeOK
    <3> QED BY <2>2, <3>3, <3>4 DEF Expand
  <2>3. CASE FinishNode
    BY <2>3 DEF FinishNode, TypeOK, Visited
  <2>4. CASE VisitNeighbour
    <3>1. PICK e \in todo : /\ OmitForNodeCap(e) \/ OmitForEdgeCap(e) \/ Include(e)
                            /\ todo' = todo \ {e}
      BY <2>4 DEF VisitNeighbour
    <3>2. current # NoNode /\ UNCHANGED <<query, depthLimitReached, current>>
      BY <2>4 DEF VisitNeighbour
    <3>3. CASE OmitForNodeCap(e) \/ OmitForEdgeCap(e)
      <4>1. <<current, e>> \in Nodes \X query.edges
        BY <3>2 DEF TypeOK
      <4> QED BY <3>1, <3>2, <3>3, <4>1 DEF OmitForNodeCap, OmitForEdgeCap, Omit, TypeOK, Visited
    <3>4. CASE Include(e)
      <4>1. /\ Visited' \subseteq Nodes /\ Visited \subseteq Visited'
            /\ level' \in [Visited' -> Nat] /\ queue' \in Seq(Visited')
        BY <3>2, <3>4, IncludeSteps DEF TypeOK
      <4> QED BY <3>1, <3>2, <3>4, <4>1 DEF Include, TypeOK
    <3> QED BY <3>1, <3>3, <3>4
  <2> QED BY <2>1, <2>2, <2>3, <2>4 DEF Next
<1> QED BY <1>1, <1>2, PTL DEF Spec

-----------------------------------------------------------------------------
(* What every turn of the loops preserves: the caps, the end points of the   *)
(* included edges, the flags, and, while nothing was left out, that a        *)
(* visited node is still in the queue, or is being expanded and its missing  *)
(* edges are still to be looked at, or has all its edges in the answer.      *)

Expanding == IF current = NoNode THEN todo = {} ELSE todo \subseteq NextEdges(current)

Pending(n) == IF n = current THEN todo ELSE {}

NothingLost ==
    omitted = {} => \A n \in Visited : Queued(n) \/ NextEdges(n) \subseteq included \cup Pending(n)

FlagsAreRight == Truncated <=> (nodeCapReached \/ edgeCapReached \/ depthLimitReached)

LineageInv == CapsRespected /\ EdgesJoinVisitedNodes /\ Expanding /\ NothingLost /\ FlagsAreRight

LEMMA InitLineage == Init => LineageInv
<1> SUFFICES ASSUME Init PROVE LineageInv OBVIOUS
<1>1. Visited = {Start} /\ query \in Query
  BY LineageAssumption DEF Init, Visited
<1>2. CapsRespected
  BY <1>1, FS_Singleton, FS_EmptySet DEF Init, CapsRespected, Query
<1>3. \A n \in Visited : Queued(n)
  BY <1>1 DEF Init, Queued
<1> QED BY <1>1, <1>2, <1>3 DEF Init, LineageInv, EdgesJoinVisitedNodes, Expanding, NothingLost,
           FlagsAreRight, Truncated

(* Taking the next node from the queue.                                      *)
LEMMA ExpandKeeps ==
  ASSUME TypeOK, LineageInv, Expand
  PROVE  LineageInv'
<1> DEFINE h == Head(queue)
<1>1. /\ UNCHANGED <<query, level, included, nodeCapReached, edgeCapReached>>
      /\ Visited' = Visited /\ queue' = Tail(queue) /\ current = NoNode /\ queue # <<>>
  BY DEF Expand, PopLeft, Visited
<1>2. /\ h \in Visited /\ h # NoNode
      /\ \A n : Queued(n) => n = h \/ Queued(n)'
  BY <1>1, QueueSteps, LineageAssumption DEF Queued, TypeOK
<1>3. CapsRespected' /\ EdgesJoinVisitedNodes'
  BY <1>1 DEF LineageInv, CapsRespected, EdgesJoinVisitedNodes
<1>4. \A n : (NextEdges(n) = NextEdges(n)') /\ todo = {}
  BY <1>1 DEF NextEdges, Leaves, Enters, LineageInv, Expanding
<1>5. CASE StopAtDepth(h)
  <2>1. /\ omitted' = omitted \cup ({h} \X BeyondDepth(h))
        /\ depthLimitReached' = (depthLimitReached \/ BeyondDepth(h) # {})
        /\ UNCHANGED <<current, todo>>
    BY <1>5 DEF StopAtDepth
  <2>2. omitted' = {} <=> omitted = {} /\ BeyondDepth(h) = {}
    <3>1. ASSUME NEW B PROVE {h} \X B = {} <=> B = {}
      <4>1. \A b \in B : <<h, b>> \in {h} \X B
        OBVIOUS
      <4> QED BY <4>1
    <3>2. {h} \X BeyondDepth(h) = {} <=> BeyondDepth(h) = {}
      BY <3>1
    <3> QED BY <2>1, <3>2
  <2>3. FlagsAreRight'
    BY <1>1, <2>1, <2>2 DEF LineageInv, FlagsAreRight, Truncated
  <2>4. Expanding'
    BY <1>1, <1>4, <2>1 DEF Expanding
  <2>5. ASSUME omitted' = {}, NEW n \in Visited
        PROVE  Queued(n)' \/ NextEdges(n) \subseteq included
    <3>1. Queued(n) \/ NextEdges(n) \subseteq included
      BY <1>1, <1>4, <2>2, <2>5 DEF LineageInv, NothingLost, Pending
    <3> QED BY <1>2, <2>2, <2>5, <3>1 DEF BeyondDepth
  <2>6. NothingLost'
    BY <1>1, <1>4, <2>5 DEF NothingLost
  <2> QED BY <1>3, <2>3, <2>4, <2>6 DEF LineageInv
<1>6. CASE StartNode(h)
  <2>1. current' = h /\ todo' = NextEdges(h) /\ UNCHANGED <<omitted, depthLimitReached>>
    BY <1>6 DEF StartNode
  <2>2. FlagsAreRight' /\ Expanding'
    BY <1>1, <1>2, <1>4, <2>1 DEF LineageInv, FlagsAreRight, Truncated, Expanding
  <2>3. ASSUME omitted = {}, NEW n \in Visited
        PROVE  Queued(n)' \/ NextEdges(n) \subseteq included \cup (IF n = h THEN NextEdges(h) ELSE {})
    BY <1>1, <1>2, <1>4, <2>3 DEF LineageInv, NothingLost, Pending
  <2>4. NothingLost'
    BY <1>1, <1>4, <2>1, <2>3 DEF NothingLost, Pending
  <2> QED BY <1>3, <2>2, <2>4 DEF LineageInv
<1> QED BY <1>5, <1>6 DEF Expand

(* Looking at one neighbour of the node being expanded.                      *)
LEMMA VisitKeeps ==
  ASSUME TypeOK, LineageInv, VisitNeighbour
  PROVE  LineageInv'
<1>1. PICK e \in todo : /\ OmitForNodeCap(e) \/ OmitForEdgeCap(e) \/ Include(e)
                        /\ todo' = todo \ {e}
  BY DEF VisitNeighbour
<1> DEFINE next == OtherEnd(current, e)
<1>2. current # NoNode /\ UNCHANGED <<query, depthLimitReached, current>>
  BY DEF VisitNeighbour
<1>3. e \in NextEdges(current) /\ todo \subseteq NextEdges(current) /\ e \in query.edges
  BY <1>2 DEF LineageInv, Expanding, TypeOK
<1>4. \A n : NextEdges(n) = NextEdges(n)'
  BY <1>2 DEF NextEdges, Leaves, Enters
<1>5. Expanding'
  BY <1>1, <1>2, <1>3, <1>4 DEF Expanding
<1>6. CASE OmitForNodeCap(e) \/ OmitForEdgeCap(e)
  <2>1. /\ UNCHANGED <<level, included, queue>> /\ Visited' = Visited
        /\ omitted' # {} /\ (nodeCapReached' \/ edgeCapReached')
    BY <1>6 DEF OmitForNodeCap, OmitForEdgeCap, Omit, Visited
  <2> QED BY <1>2, <1>5, <2>1 DEF LineageInv, CapsRespected, EdgesJoinVisitedNodes, NothingLost,
             FlagsAreRight, Truncated
<1>7. CASE Include(e)
  <2>1. /\ ~NodesFull(next) /\ ~EdgesFull(e) /\ included' = included \cup {e}
        /\ UNCHANGED <<omitted, nodeCapReached, edgeCapReached>>
    BY <1>7 DEF Include
  <2>2. /\ Visited' = Visited \cup {next}
        /\ \A n : Queued(n) => Queued(n)'
        /\ \A n : n = next => n \in Visited \/ Queued(n)'
    BY <1>2, <1>7, IncludeSteps
  <2>3. query.edgeCap \in Nat /\ query.nodeCap \in Nat
    BY DEF TypeOK, Query
  <2>4. Cardinality(Visited') <= query.nodeCap
    <3>1. IsFiniteSet(Visited) /\ Cardinality(Visited) \in Nat
      BY LineageAssumption, FS_Subset, FS_CardinalityType DEF TypeOK
    <3>2. Cardinality(Visited') = IF next \in Visited THEN Cardinality(Visited)
                                                      ELSE Cardinality(Visited) + 1
      BY <2>2, <3>1, FS_AddElement
    <3>3. Cardinality(Visited) <= query.nodeCap
      BY DEF LineageInv, CapsRespected
    <3> QED BY <2>1, <2>3, <3>1, <3>2, <3>3 DEF NodesFull
  <2>5. Cardinality(included') <= query.edgeCap
    <3>1. included \subseteq EdgeIds
      BY DEF TypeOK, Query
    <3>2. IsFiniteSet(included) /\ Cardinality(included) \in Nat
      BY <3>1, LineageAssumption, FS_Subset, FS_CardinalityType
    <3>3. Cardinality(included') = IF e \in included THEN Cardinality(included)
                                                     ELSE Cardinality(included) + 1
      BY <2>1, <3>2, FS_AddElement
    <3>4. Cardinality(included) <= query.edgeCap
      BY DEF LineageInv, CapsRespected
    <3> QED BY <2>1, <2>3, <3>2, <3>3, <3>4 DEF EdgesFull
  <2>6. CapsRespected'
    BY <1>2, <2>2, <2>4, <2>5 DEF LineageInv, CapsRespected
  <2>7. current \in Visited /\ {query.src[e], query.dst[e]} \subseteq {current, next}
    BY <1>2, <1>3 DEF TypeOK, NextEdges, OtherEnd, Leaves, Enters
  <2>8. EdgesJoinVisitedNodes'
    BY <1>2, <2>1, <2>2, <2>7 DEF LineageInv, EdgesJoinVisitedNodes
  <2>9. FlagsAreRight'
    BY <1>2, <2>1 DEF LineageInv, FlagsAreRight, Truncated
  <2>10. ASSUME omitted = {}, NEW n \in Visited'
         PROVE  Queued(n)' \/ NextEdges(n) \subseteq included' \cup (IF n = current THEN todo' ELSE {})
    <3>1. CASE n \in Visited
      BY <1>1, <2>1, <2>2, <2>10, <3>1 DEF LineageInv, NothingLost, Pending
    <3>2. CASE n \notin Visited
      BY <2>2, <3>2
    <3> QED BY <3>1, <3>2
  <2>11. NothingLost'
    BY <1>2, <1>4, <2>1, <2>10 DEF NothingLost, Pending
  <2> QED BY <1>5, <2>6, <2>8, <2>9, <2>11 DEF LineageInv
<1> QED BY <1>1, <1>6, <1>7

(* Putting the node away when all its neighbours were looked at.             *)
LEMMA FinishKeeps ==
  ASSUME TypeOK, LineageInv, FinishNode
  PROVE  LineageInv'
<1>1. /\ UNCHANGED <<query, level, included, omitted, nodeCapReached, edgeCapReached,
                     depthLimitReached, queue, todo>>
      /\ current' = NoNode /\ todo = {} /\ Visited' = Visited
  BY DEF FinishNode, Visited
<1>2. \A n : NextEdges(n) = NextEdges(n)' /\ Queued(n) = Queued(n)'
  BY <1>1 DEF NextEdges, Leaves, Enters, Queued
<1>3. NothingLost'
  BY <1>1, <1>2 DEF LineageInv, NothingLost, Pending
<1> QED BY <1>1, <1>3 DEF LineageInv, CapsRespected, EdgesJoinVisitedNodes, Expanding,
           FlagsAreRight, Truncated

LEMMA LineageInvariant == Spec => []LineageInv
<1>1. TypeOK /\ LineageInv /\ [Next]_vars => LineageInv'
  <2> SUFFICES ASSUME TypeOK, LineageInv, [Next]_vars PROVE LineageInv' OBVIOUS
  <2>1. CASE UNCHANGED vars
    <3>1. \A n : NextEdges(n) = NextEdges(n)' /\ Queued(n) = Queued(n)' /\ Visited' = Visited
      BY <2>1 DEF vars, NextEdges, Leaves, Enters, Queued, Visited
    <3> QED BY <2>1, <3>1 DEF vars, LineageInv, CapsRespected, EdgesJoinVisitedNodes, Expanding,
               NothingLost, Pending, FlagsAreRight, Truncated
  <2> QED BY <2>1, ExpandKeeps, VisitKeeps, FinishKeeps DEF Next
<1> QED BY <1>1, InitLineage, TypeCorrect, PTL DEF Spec

(* No answer exceeds the node cap or the edge cap of its request.            *)
THEOREM Caps == Spec => []CapsRespected
<1>1. LineageInv => CapsRespected
  BY DEF LineageInv
<1> QED BY <1>1, LineageInvariant, PTL

(* Every edge of an answer joins two nodes of the answer.                    *)
THEOREM NoDanglingEdges == Spec => []EdgesJoinVisitedNodes
<1>1. LineageInv => EdgesJoinVisitedNodes
  BY DEF LineageInv
<1> QED BY <1>1, LineageInvariant, PTL

(* An answer that is not marked as truncated is the whole lineage.           *)
THEOREM Complete == Spec => []UntruncatedIsComplete
<1>1. LineageInv => UntruncatedIsComplete
  <2> SUFFICES ASSUME LineageInv, Done, ~Truncated, NEW n \in Visited
               PROVE  NextEdges(n) \subseteq included
    BY DEF UntruncatedIsComplete
  <2>1. ~Queued(n)
    BY DEF Done, Queued
  <2>2. Pending(n) = {}
    BY DEF LineageInv, Expanding, Pending, Done
  <2> QED BY <2>1, <2>2 DEF LineageInv, NothingLost, Truncated
<1> QED BY <1>1, LineageInvariant, PTL

(* The flags of an answer tell whether, and why, something was left out.     *)
THEOREM Flags == Spec => []FlagsExplainTruncation
<1>1. LineageInv => FlagsExplainTruncation
  BY DEF LineageInv, FlagsAreRight, FlagsExplainTruncation
<1> QED BY <1>1, LineageInvariant, PTL

-----------------------------------------------------------------------------
(* A set of natural numbers that is not empty has a least element. The      *)
(* proofs below argue with it about the least counterexample where an       *)
(* induction is meant.                                                      *)
LEMMA LeastOfNat ==
  ASSUME NEW T, T \subseteq Nat, T # {}
  PROVE  \E x \in T : \A y \in T : x <= y
<1> DEFINE R == {ss \in Nat \X Nat : ss[1] < ss[2]}
<1>1. IsWellFoundedOn(R, Nat)
  BY NatLessThanWellFounded DEF OpToRel
<1> HIDE DEF R
<1>2. PICK x \in T : \A y \in T : <<y, x>> \notin R
  BY <1>1, WFMin
<1>3. \A y \in T : ~ (y < x)
  BY <1>2 DEF R
<1> QED BY <1>3

(* What the recursive functions of the model compute: the iteration of a    *)
(* function.                                                                *)
Iterations(N, U, s, F) ==
    {f \in [0..N -> U] : f[0] = s /\ \A k \in 1..N : f[k] = F[f[k - 1]]}

LEMMA IterationExists ==
  ASSUME NEW N \in Nat, NEW U, NEW s \in U, NEW F \in [U -> U]
  PROVE  Iterations(N, U, s, F) # {}
<1> DEFINE Good(n, f) == f[0] = s /\ \A k \in 1..n : f[k] = F[f[k - 1]]
           T == {n \in Nat : ~ \E f \in [0..n -> U] : Good(n, f)}
<1>1. SUFFICES ASSUME T # {} PROVE FALSE
  <2>1. N \notin T
    BY <1>1
  <2> QED BY <2>1 DEF Iterations
<1>2. PICK n \in T : \A y \in T : n <= y
  BY <1>1, LeastOfNat
<1>n. n \in Nat
  OBVIOUS
<1>3. CASE n = 0
  <2>1. [k \in 0..0 |-> s] \in [0..0 -> U] /\ Good(0, [k \in 0..0 |-> s])
    OBVIOUS
  <2> QED BY <1>2, <1>3, <2>1
<1>4. CASE n # 0
  <2>1. n - 1 \in Nat /\ n - 1 \notin T
    <3> HIDE DEF T
    <3> QED BY <1>n, <1>2, <1>4
  <2>2. PICK f \in [0..(n - 1) -> U] : Good(n - 1, f)
    BY <2>1
  <2> DEFINE g == [k \in 0..n |-> IF k = n THEN F[f[n - 1]] ELSE f[k]]
  <2>3. g \in [0..n -> U]
    BY <2>1
  <2>4. Good(n, g)
    BY <1>4, <2>1, <2>2
  <2> QED BY <1>2, <2>3, <2>4
<1> QED BY <1>3, <1>4

(* The nodes within k steps of the start.                                   *)
LEMMA NearIs ==
  ASSUME query \in Query, NEW S
  PROVE  /\ Near(S)[0] = {Start}
         /\ \A k \in 1..Cardinality(Nodes) :
              Near(S)[k] = Near(S)[k - 1] \cup Neighbours(Near(S)[k - 1], S)
         /\ \A k \in 0..Cardinality(Nodes) : Near(S)[k] \subseteq Nodes
<1> DEFINE N == Cardinality(Nodes)
           F == [R \in SUBSET Nodes |-> R \cup Neighbours(R, S)]
           Is(f) == f = [k \in 0..N |-> IF k = 0 THEN {Start} ELSE f[k - 1] \cup Neighbours(f[k - 1], S)]
<1>1. N \in Nat /\ {Start} \in SUBSET Nodes
  BY LineageAssumption, FS_CardinalityType
<1>2. ASSUME NEW R \in SUBSET Nodes PROVE R \cup Neighbours(R, S) \in SUBSET Nodes
  BY EndsAreNodes DEF Neighbours, NextEdges
<1>3. F \in [SUBSET Nodes -> SUBSET Nodes]
  BY <1>2
<1> HIDE DEF N
<1>4. PICK f \in [0..N -> SUBSET Nodes] : f[0] = {Start} /\ \A k \in 1..N : f[k] = F[f[k - 1]]
  <2> HIDE DEF F
  <2>1. Iterations(N, SUBSET Nodes, {Start}, F) # {}
    BY <1>1, <1>3, IterationExists
  <2> QED BY <2>1 DEF Iterations
<1>5. ASSUME NEW k \in 1..N PROVE f[k] = f[k - 1] \cup Neighbours(f[k - 1], S)
  <2>1. k - 1 \in 0..N /\ f[k] = F[f[k - 1]]
    <3> HIDE DEF F
    <3> QED BY <1>1, <1>4
  <2>2. f[k - 1] \in SUBSET Nodes
    BY <1>4, <2>1
  <2> QED BY <2>1, <2>2
<1>6. Is(f)
  BY <1>1, <1>4, <1>5
<1>7. Near(S) = CHOOSE g : Is(g)
  BY DEF Near, N
<1>8. Is(Near(S))
  <2> HIDE DEF Is
  <2> QED BY <1>6, <1>7
<1> DEFINE g == Near(S)
<1> HIDE DEF g
<1>9. /\ g[0] = {Start}
      /\ \A k \in 1..N : g[k] = g[k - 1] \cup Neighbours(g[k - 1], S)
  <2>1. 0 \in 0..N /\ \A k \in 1..N : k \in 0..N /\ k # 0
    BY <1>1
  <2> QED BY <1>8, <2>1 DEF g
<1>10. \A k \in 0..N : g[k] \subseteq Nodes
  <2> DEFINE T == {k \in 0..N : ~ (g[k] \subseteq Nodes)}
  <2>1. SUFFICES ASSUME T # {} PROVE FALSE
    OBVIOUS
  <2>2. PICK k \in T : \A y \in T : k <= y
    <3>1. T \subseteq Nat
      BY <1>1
    <3> HIDE DEF T
    <3> QED BY <2>1, <3>1, LeastOfNat
  <2>3. k # 0
    BY <1>1, <1>9, <2>2
  <2>4. k - 1 \in 0..N /\ k - 1 \notin T
    BY <1>1, <2>2, <2>3
  <2> QED BY <1>1, <1>2, <1>9, <2>2, <2>3, <2>4
<1> QED BY <1>9, <1>10 DEF g, N

-----------------------------------------------------------------------------
(* The order of the search: the queue holds nodes of one level and of the   *)
(* next, a node that has left it has its neighbours among the visited ones  *)
(* unless a limit was met, and what was left out stays out.                 *)

QueueOrdered ==
    /\ \A i, j \in 1..Len(queue) : i <= j =>
         level[queue[i]] <= level[queue[j]] /\ level[queue[j]] <= level[queue[i]] + 1
    /\ current # NoNode => \A i \in 1..Len(queue) :
         level[current] <= level[queue[i]] /\ level[queue[i]] <= level[current] + 1

LevelsBounded ==
    /\ level[Start] = 0
    /\ current # NoNode => level[current] < query.depth
    /\ \A n \in Visited :
         /\ level[n] = 0 => n = Start
         /\ level[n] <= query.depth
         /\ level[n] < Cardinality(Visited)
         /\ \A i \in 1..Len(queue) : level[n] <= level[queue[i]] + 1
         /\ current # NoNode => level[n] <= level[current] + 1

Predecessors ==
    \A n \in Visited : level[n] > 0 =>
        \E p \in Visited, e \in included :
            e \in NextEdges(p) /\ OtherEnd(p, e) = n /\ level[n] = level[p] + 1

Full == Cardinality(Visited) >= query.nodeCap \/ Cardinality(included) >= query.edgeCap

NextIsVisited(n, e) == OtherEnd(n, e) \in Visited /\ level[OtherEnd(n, e)] <= level[n] + 1

Explored ==
    \A n \in Visited :
        \/ Queued(n) \/ level[n] >= query.depth \/ Full
        \/ \A e \in NextEdges(n) \ Pending(n) : NextIsVisited(n, e)

IncludedFromVisited ==
    \A e \in included : \E p \in Visited : e \in NextEdges(p) /\ NextIsVisited(p, e)

NotNearer == \A n \in Visited : level[n] > 0 => n \notin Near(query.edges)[level[n] - 1]

DepthReached == current = NoNode /\ \A i \in 1..Len(queue) : level[queue[i]] >= query.depth

StaysOut(n, e) ==
    /\ n \in Visited /\ e \in NextEdges(n) \ included
    /\ \/ Cardinality(included) >= query.edgeCap
       \/ Cardinality(Visited) >= query.nodeCap /\ OtherEnd(n, e) \notin Visited
       \/ DepthReached

OmittedStayOut == \A p \in omitted : StaysOut(p[1], p[2])

LevelInv ==
    /\ QueueOrdered /\ LevelsBounded /\ Predecessors /\ Explored /\ IncludedFromVisited
    /\ NotNearer /\ OmittedStayOut

LEMMA GraphStays ==
  ASSUME query' = query
  PROVE  /\ \A n : NextEdges(n)' = NextEdges(n)
         /\ \A n, e : OtherEnd(n, e)' = OtherEnd(n, e)
         /\ \A S : Near(S)' = Near(S)
  BY DEF NextEdges, Leaves, Enters, OtherEnd, Near, Neighbours

LEMMA FiniteAnswer ==
  ASSUME TypeOK
  PROVE  /\ IsFiniteSet(Visited) /\ Cardinality(Visited) \in Nat
         /\ IsFiniteSet(included) /\ Cardinality(included) \in Nat
         /\ Cardinality(Nodes) \in Nat /\ Cardinality(Visited) <= Cardinality(Nodes)
         /\ query.nodeCap \in Nat /\ query.edgeCap \in Nat /\ query.depth \in Nat
<1>1. included \subseteq EdgeIds /\ Visited \subseteq Nodes
  BY DEF TypeOK, Query
<1>2. query.nodeCap \in Nat /\ query.edgeCap \in Nat /\ query.depth \in Nat
  BY DEF TypeOK, Query
<1> QED BY <1>1, <1>2, LineageAssumption, FS_Subset, FS_CardinalityType

LEMMA InitLevels == Init => LevelInv
<1> SUFFICES ASSUME Init PROVE LevelInv OBVIOUS
<1>1. /\ Visited = {Start} /\ level[Start] = 0 /\ query \in Query /\ current = NoNode
      /\ queue = <<Start>> /\ included = {} /\ omitted = {}
  BY LineageAssumption DEF Init, Visited
<1>2. Cardinality(Visited) = 1 /\ query.depth \in Nat
  BY <1>1, FS_Singleton DEF Query
<1>3. Queued(Start)
  BY <1>1 DEF Queued
<1>4. QueueOrdered /\ LevelsBounded
  BY <1>1, <1>2 DEF QueueOrdered, LevelsBounded
<1>5. Predecessors /\ Explored /\ IncludedFromVisited /\ NotNearer /\ OmittedStayOut
  BY <1>1, <1>3 DEF Predecessors, Explored, IncludedFromVisited, NotNearer, OmittedStayOut
<1> QED BY <1>4, <1>5 DEF LevelInv

(* Taking the next node from the queue.                                      *)
LEMMA ExpandKeepsLevels ==
  ASSUME TypeOK, LineageInv, LevelInv, Expand
  PROVE  LevelInv'
<1> DEFINE h == Head(queue)
<1>1. /\ UNCHANGED <<query, level, included>>
      /\ Visited' = Visited /\ queue' = Tail(queue) /\ current = NoNode /\ queue # <<>>
  BY DEF Expand, PopLeft, Visited
<1>2. /\ h \in Visited /\ h \in Nodes /\ h # NoNode
      /\ \A n : Queued(n) => n = h \/ Queued(n)'
  BY <1>1, QueueSteps, LineageAssumption DEF Queued, TypeOK
<1>3. /\ queue \in Seq(Visited) /\ level \in [Visited -> Nat] /\ query.depth \in Nat
      /\ Len(queue) \in Nat /\ 1 \in 1..Len(queue)
      /\ h = queue[1]
  BY <1>1 DEF TypeOK, Query
<1>4. /\ Len(queue') \in Nat
      /\ \A i \in 1..Len(queue') : /\ queue'[i] = queue[i + 1]
                                   /\ i + 1 \in 1..Len(queue)
                                   /\ queue'[i] \in Visited
  BY <1>1, <1>3
<1>5. QueueOrdered /\ LevelsBounded /\ Predecessors /\ Explored /\ IncludedFromVisited
      /\ NotNearer /\ OmittedStayOut
  BY DEF LevelInv
<1>6. \A i \in 1..Len(queue') : level[h] <= level[queue'[i]] /\ level[queue'[i]] <= level[h] + 1
  BY <1>3, <1>4, <1>5 DEF QueueOrdered
<1>7. current' = NoNode \/ (current' = h /\ level[h] < query.depth)
  <2>1. CASE StopAtDepth(h)
    BY <1>1, <2>1 DEF StopAtDepth
  <2>2. CASE StartNode(h)
    BY <2>2 DEF StartNode
  <2> QED BY <2>1, <2>2 DEF Expand
<1>8. QueueOrdered'
  <2>1. \A i, j \in 1..Len(queue') : i <= j =>
          level[queue'[i]] <= level[queue'[j]] /\ level[queue'[j]] <= level[queue'[i]] + 1
    <3> TAKE i, j \in 1..Len(queue')
    <3> HAVE i <= j
    <3>1. i + 1 <= j + 1
      BY <1>4
    <3> QED BY <1>4, <1>5, <3>1 DEF QueueOrdered
  <2> QED BY <1>1, <1>2, <1>6, <1>7, <2>1 DEF QueueOrdered
<1>9. LevelsBounded'
  <2>1. \A n \in Visited : level[n] <= level[h] + 1
    BY <1>3, <1>5 DEF LevelsBounded
  <2>2. \A n \in Visited : \A i \in 1..Len(queue') : level[n] <= level[queue'[i]] + 1
    BY <1>4, <1>5 DEF LevelsBounded
  <2> QED BY <1>1, <1>2, <1>5, <1>7, <2>1, <2>2 DEF LevelsBounded
<1>10. /\ \A n : NextEdges(n)' = NextEdges(n)
       /\ \A n, e : OtherEnd(n, e)' = OtherEnd(n, e)
       /\ \A n, e : NextIsVisited(n, e)' = NextIsVisited(n, e)
       /\ Near(query.edges)' = Near(query.edges)
       /\ Full' = Full
  BY <1>1, GraphStays DEF NextIsVisited, Full
<1>11. Predecessors' /\ IncludedFromVisited' /\ NotNearer'
  BY <1>1, <1>5, <1>10 DEF Predecessors, IncludedFromVisited, NotNearer
<1>12. Explored'
  <2>1. ASSUME NEW n \in Visited, ~Queued(n)', level[n] < query.depth, ~Full,
               NEW e \in NextEdges(n) \ Pending(n)'
        PROVE  NextIsVisited(n, e)
    <3>1. CASE n = h
      <4>1. StartNode(h)
        BY <1>3, <2>1, <3>1 DEF Expand, StopAtDepth
      <4>2. Pending(n)' = NextEdges(n)
        BY <3>1, <4>1 DEF Pending, StartNode
      <4> QED BY <2>1, <4>2
    <3>2. CASE n # h
      <4>1. ~Queued(n) /\ n # NoNode
        BY <1>2, <2>1, <3>2, LineageAssumption DEF TypeOK
      <4>2. Pending(n) = {}
        BY <1>1, <4>1 DEF Pending
      <4> QED BY <1>3, <1>5, <2>1, <4>1, <4>2 DEF Explored
    <3> QED BY <3>1, <3>2
  <2> QED BY <1>1, <1>3, <1>10, <2>1 DEF Explored
<1>13. OmittedStayOut'
  <2>1. ASSUME NEW p \in omitted PROVE StaysOut(p[1], p[2])'
    <3>1. StaysOut(p[1], p[2])
      BY <1>5 DEF OmittedStayOut
    <3>2. DepthReached => DepthReached'
      <4>1. ASSUME DepthReached PROVE StopAtDepth(h)
        BY <1>3, <4>1 DEF Expand, StartNode, DepthReached
      <4> QED BY <1>1, <1>4, <4>1 DEF DepthReached, StopAtDepth
    <3> QED BY <1>1, <1>10, <3>1, <3>2 DEF StaysOut
  <2>2. CASE StartNode(h)
    BY <2>1, <2>2 DEF StartNode, OmittedStayOut
  <2>3. CASE StopAtDepth(h)
    <3>1. DepthReached'
      BY <1>1, <1>3, <1>4, <1>6, <2>3 DEF StopAtDepth, DepthReached
    <3>2. ASSUME NEW n, n = h, NEW e \in BeyondDepth(n) PROVE StaysOut(n, e)'
      BY <1>1, <1>2, <1>10, <3>1, <3>2 DEF StaysOut, BeyondDepth
    <3>3. \A p \in omitted' : p \in omitted \/ (p[1] = h /\ p[2] \in BeyondDepth(h))
      BY <2>3 DEF StopAtDepth
    <3> QED BY <2>1, <3>2, <3>3 DEF OmittedStayOut
  <2> QED BY <2>2, <2>3 DEF Expand
<1> QED BY <1>8, <1>9, <1>11, <1>12, <1>13 DEF LevelInv

LEMMA FinishKeepsLevels ==
  ASSUME TypeOK, LineageInv, LevelInv, FinishNode
  PROVE  LevelInv'
<1>1. /\ UNCHANGED <<query, level, included, omitted, queue, todo>>
      /\ current # NoNode /\ current' = NoNode /\ todo = {} /\ Visited' = Visited
  BY DEF FinishNode, Visited
<1>2. /\ \A n : NextEdges(n)' = NextEdges(n)
      /\ \A n, e : OtherEnd(n, e)' = OtherEnd(n, e)
      /\ \A n, e : NextIsVisited(n, e)' = NextIsVisited(n, e)
      /\ Near(query.edges)' = Near(query.edges)
      /\ Full' = Full
      /\ \A n : Queued(n)' = Queued(n)
      /\ \A n : Pending(n)' = {} /\ Pending(n) = {}
  BY <1>1, GraphStays DEF NextIsVisited, Full, Queued, Pending
<1>3. QueueOrdered' /\ LevelsBounded' /\ Predecessors' /\ IncludedFromVisited' /\ NotNearer'
  BY <1>1, <1>2 DEF LevelInv, QueueOrdered, LevelsBounded, Predecessors, IncludedFromVisited,
     NotNearer
<1>4. Explored'
  BY <1>1, <1>2 DEF LevelInv, Explored
<1>5. OmittedStayOut'
  BY <1>1, <1>2 DEF LevelInv, OmittedStayOut, StaysOut, DepthReached
<1> QED BY <1>3, <1>4, <1>5 DEF LevelInv

(* Leaving out a neighbour because a cap is reached.                         *)
LEMMA OmitKeepsLevels ==
  ASSUME TypeOK, LineageInv, LevelInv, VisitNeighbour,
         NEW e \in todo, OmitForNodeCap(e) \/ OmitForEdgeCap(e), todo' = todo \ {e}
  PROVE  LevelInv'
<1>1. /\ UNCHANGED <<query, level, included, queue, current>>
      /\ current # NoNode /\ Visited' = Visited
      /\ omitted' = omitted \cup {<<current, e>>}
  BY DEF VisitNeighbour, OmitForNodeCap, OmitForEdgeCap, Omit, Visited
<1>2. /\ \A n : NextEdges(n)' = NextEdges(n)
      /\ \A n, f : OtherEnd(n, f)' = OtherEnd(n, f)
      /\ \A n, f : NextIsVisited(n, f)' = NextIsVisited(n, f)
      /\ Near(query.edges)' = Near(query.edges)
      /\ Full' = Full
  BY <1>1, GraphStays DEF NextIsVisited, Full
<1>3. QueueOrdered' /\ LevelsBounded' /\ Predecessors' /\ IncludedFromVisited' /\ NotNearer'
  BY <1>1, <1>2 DEF LevelInv, QueueOrdered, LevelsBounded, Predecessors, IncludedFromVisited,
     NotNearer
<1>4. Full
  BY DEF OmitForNodeCap, OmitForEdgeCap, NodesFull, EdgesFull, Full
<1>5. Explored'
  BY <1>2, <1>4 DEF Explored
<1>6. e \in NextEdges(current) /\ current \in Visited
  BY <1>1 DEF LineageInv, Expanding, TypeOK
<1>7. StaysOut(current, e)
  <2>1. CASE OmitForNodeCap(e)
    <3>1. OtherEnd(current, e) \notin Visited /\ Cardinality(Visited) >= query.nodeCap
      BY <2>1 DEF OmitForNodeCap, NodesFull
    <3>2. e \notin included
      BY <3>1 DEF LineageInv, EdgesJoinVisitedNodes, OtherEnd
    <3> QED BY <1>6, <3>1, <3>2 DEF StaysOut
  <2>2. CASE OmitForEdgeCap(e)
    BY <1>6, <2>2 DEF OmitForEdgeCap, EdgesFull, StaysOut
  <2> QED BY <2>1, <2>2
<1>8. ASSUME NEW n, NEW f, StaysOut(n, f) PROVE StaysOut(n, f)'
  BY <1>1, <1>2, <1>8 DEF StaysOut, DepthReached
<1>9. \A p \in omitted' : StaysOut(p[1], p[2])
  BY <1>1, <1>7 DEF LevelInv, OmittedStayOut
<1>10. OmittedStayOut'
  BY <1>8, <1>9 DEF OmittedStayOut
<1> QED BY <1>3, <1>5, <1>10 DEF LevelInv

(* What including an edge does to the levels and the queue.                  *)
LEMMA IncludeLevels ==
  ASSUME TypeOK, current # NoNode, NEW e \in todo, Include(e)
  PROVE  /\ Visited' = Visited \cup {OtherEnd(current, e)}
         /\ \A n \in Visited : level'[n] = level[n]
         /\ included' = included \cup {e}
         /\ \/ OtherEnd(current, e) \in Visited /\ UNCHANGED <<level, queue>>
            \/ /\ OtherEnd(current, e) \notin Visited
               /\ level'[OtherEnd(current, e)] = level[current] + 1
               /\ Len(queue') = Len(queue) + 1
               /\ \A i \in 1..Len(queue) : i \in 1..Len(queue') /\ queue'[i] = queue[i]
               /\ queue'[Len(queue) + 1] = OtherEnd(current, e)
<1> DEFINE next == OtherEnd(current, e)
<1>1. included' = included \cup {e}
  BY DEF Include
<1>2. CASE next \in Visited
  <2>1. UNCHANGED <<level, queue>>
    BY <1>2 DEF Include
  <2> QED BY <1>1, <1>2, <2>1 DEF Visited
<1>3. CASE next \notin Visited
  <2>1. level' = [n \in Visited \cup {next} |-> IF n = next THEN level[current] + 1 ELSE level[n]]
    BY <1>3 DEF Include
  <2>2. Visited' = Visited \cup {next}
    BY <2>1 DEF Visited
  <2>3. /\ \A n \in Visited : level'[n] = level[n]
        /\ level'[next] = level[current] + 1
    BY <1>3, <2>1
  <2>4. queue' = Append(queue, next) /\ queue \in Seq(Visited)
    BY <1>3 DEF Include, Enqueued, TypeOK
  <2>5. /\ Len(queue') = Len(queue) + 1
        /\ \A i \in 1..Len(queue) : i \in 1..Len(queue') /\ queue'[i] = queue[i]
        /\ queue'[Len(queue) + 1] = next
    BY <2>4
  <2> QED BY <1>1, <1>3, <2>2, <2>3, <2>5, Zenon
<1> QED BY <1>2, <1>3

(* A node that is met for the first time is no nearer than it seems: all    *)
(* nodes as near as the one being expanded are visited already.              *)
LEMMA NewIsFar ==
  ASSUME TypeOK, LineageInv, LevelInv, current # NoNode, ~Full,
         NEW n, n \notin Visited
  PROVE  n \notin Near(query.edges)[level[current]]
<1> DEFINE near == Near(query.edges)
           Seen(k) == \A m \in near[k] : m \in Visited /\ level[m] <= k
           T == {k \in 0..level[current] : ~ Seen(k)}
<1> HIDE DEF near
<1>1. /\ query \in Query /\ level \in [Visited -> Nat] /\ current \in Visited
      /\ level[current] \in Nat /\ query.depth \in Nat /\ queue \in Seq(Visited)
  BY DEF TypeOK, Query
<1>2. level[current] < Cardinality(Nodes) /\ Cardinality(Nodes) \in Nat
  BY <1>1, FiniteAnswer DEF LevelInv, LevelsBounded
<1>3. /\ near[0] = {Start}
      /\ \A k \in 1..Cardinality(Nodes) : near[k] = near[k - 1] \cup Neighbours(near[k - 1], query.edges)
  BY <1>1, NearIs DEF near
<1>4. T = {}
  <2> SUFFICES ASSUME T # {} PROVE FALSE OBVIOUS
  <2>1. T \subseteq Nat
    BY <1>1
  <2>2. PICK k \in T : \A y \in T : k <= y
    <3> HIDE DEF T
    <3> QED BY <2>1, LeastOfNat
  <2>3. k \in 0..level[current] /\ ~Seen(k)
    OBVIOUS
  <2>4. k # 0
    BY <1>1, <1>3, <2>3 DEF LevelInv, LevelsBounded, LineageInv, CapsRespected
  <2>5. k - 1 \in 0..level[current] /\ k - 1 \notin T
    <3>1. k - 1 \in 0..level[current] /\ ~ (k <= k - 1)
      BY <1>1, <2>3, <2>4
    <3> HIDE DEF T
    <3> QED BY <2>2, <3>1
  <2>6. Seen(k - 1)
    BY <2>5
  <2>7. near[k] = near[k - 1] \cup Neighbours(near[k - 1], query.edges)
    BY <1>1, <1>2, <1>3, <2>3, <2>4
  <2>8. ASSUME NEW m \in near[k] PROVE m \in Visited /\ level[m] <= k
    <3>1. CASE m \in near[k - 1]
      BY <1>1, <2>3, <2>6, <3>1
    <3>2. CASE m \in Neighbours(near[k - 1], query.edges)
      <4>1. PICK p \in near[k - 1], e \in query.edges : e \in NextEdges(p) /\ m = OtherEnd(p, e)
        BY <3>2 DEF Neighbours
      <4>2. p \in Visited /\ level[p] <= k - 1 /\ level[p] \in Nat
        BY <1>1, <2>6, <4>1
      <4>3. level[p] < level[current] /\ level[p] < query.depth /\ p # current
        BY <1>1, <2>3, <2>4, <4>2 DEF LevelInv, LevelsBounded
      <4>4. ~Queued(p)
        <5>1. ASSUME NEW i \in 1..Len(queue), queue[i] = p PROVE FALSE
          BY <1>1, <4>3, <4>2, <5>1 DEF LevelInv, QueueOrdered
        <5> QED BY <5>1 DEF Queued
      <4>5. NextIsVisited(p, e)
        BY <1>1, <4>1, <4>2, <4>3, <4>4 DEF LevelInv, Explored, Pending
      <4> QED BY <1>1, <2>3, <2>4, <4>1, <4>2, <4>5 DEF NextIsVisited
    <3> QED BY <2>7, <2>8, <3>1, <3>2
  <2> QED BY <2>3, <2>8
<1>5. Seen(level[current])
  BY <1>1, <1>4
<1> QED BY <1>5 DEF near

(* Including a neighbour edge.                                               *)
LEMMA IncludeKeepsLevels ==
  ASSUME TypeOK, TypeOK', LineageInv, LevelInv, VisitNeighbour,
         NEW e \in todo, Include(e), todo' = todo \ {e}
  PROVE  LevelInv'
<1>1. PICK next : next = OtherEnd(current, e)
  OBVIOUS
<1>2. /\ UNCHANGED <<query, current, omitted>> /\ current # NoNode
      /\ ~NodesFull(next) /\ ~EdgesFull(e)
  BY <1>1 DEF VisitNeighbour, Include
<1>3. /\ Visited' = Visited \cup {next}
      /\ \A n \in Visited : level'[n] = level[n]
      /\ included' = included \cup {e}
      /\ \/ next \in Visited /\ UNCHANGED <<level, queue>>
         \/ /\ next \notin Visited
            /\ level'[next] = level[current] + 1
            /\ Len(queue') = Len(queue) + 1
            /\ \A i \in 1..Len(queue) : i \in 1..Len(queue') /\ queue'[i] = queue[i]
            /\ queue'[Len(queue) + 1] = next
  BY <1>1, <1>2, IncludeLevels
<1>4. /\ \A n : NextEdges(n)' = NextEdges(n)
      /\ \A n, f : OtherEnd(n, f)' = OtherEnd(n, f)
      /\ Near(query.edges)' = Near(query.edges)
  BY <1>2, GraphStays
<1>5. /\ \A n \in Visited : level[n] \in Nat
      /\ \A n \in Visited' : level'[n] \in Nat
      /\ current \in Visited /\ query.depth \in Nat /\ Len(queue) \in Nat
      /\ \A i \in 1..Len(queue) : queue[i] \in Visited
      /\ \A i \in 1..Len(queue') : queue'[i] \in Visited'
      /\ e \in NextEdges(current)
      /\ Start \in Visited
  BY <1>2 DEF TypeOK, Query, LineageInv, Expanding, CapsRespected
<1>6. QueueOrdered /\ LevelsBounded /\ Predecessors /\ Explored /\ IncludedFromVisited
      /\ NotNearer /\ OmittedStayOut
  BY DEF LevelInv
<1>7. /\ Cardinality(Visited) \in Nat /\ Cardinality(Visited') \in Nat
      /\ Cardinality(Visited') = IF next \in Visited THEN Cardinality(Visited)
                                                     ELSE Cardinality(Visited) + 1
      /\ Cardinality(included) \in Nat /\ Cardinality(included') \in Nat
      /\ Cardinality(included') = IF e \in included THEN Cardinality(included)
                                                    ELSE Cardinality(included) + 1
      /\ query.nodeCap \in Nat /\ query.edgeCap \in Nat
  <2>1. /\ Cardinality(Visited') = IF next \in Visited THEN Cardinality(Visited)
                                                       ELSE Cardinality(Visited) + 1
        /\ Cardinality(included') = IF e \in included THEN Cardinality(included)
                                                      ELSE Cardinality(included) + 1
    BY <1>3, FiniteAnswer, FS_AddElement
  <2> QED BY <2>1, FiniteAnswer
<1>8. \A i \in 1..Len(queue') : \/ i \in 1..Len(queue) /\ queue'[i] = queue[i]
                                \/ i = Len(queue) + 1 /\ queue'[i] = next /\ next \notin Visited
  BY <1>3, <1>5
<1>9. \A i \in 1..Len(queue') :
         level[current] <= level'[queue'[i]] /\ level'[queue'[i]] <= level[current] + 1
  BY <1>2, <1>3, <1>5, <1>6, <1>8 DEF QueueOrdered
<1>10. \A n \in Visited' : level'[n] <= level[current] + 1
  BY <1>2, <1>3, <1>5, <1>6 DEF LevelsBounded
<1>11. next \in Visited' /\ level'[next] <= level[current] + 1
  BY <1>3, <1>10
<1>12. QueueOrdered'
  <2>1. ASSUME NEW i \in 1..Len(queue'), NEW j \in 1..Len(queue'), i <= j
        PROVE  level'[queue'[i]] <= level'[queue'[j]] /\ level'[queue'[j]] <= level'[queue'[i]] + 1
    <3>1. /\ queue'[i] \in Visited' /\ queue'[j] \in Visited'
          /\ level'[queue'[i]] \in Nat /\ level'[queue'[j]] \in Nat /\ level[current] \in Nat
      BY <1>5
    <3>2. CASE j \in 1..Len(queue)
      BY <1>3, <1>5, <1>6, <1>8, <2>1, <3>2 DEF QueueOrdered
    <3>3. CASE j \notin 1..Len(queue)
      <4>1. level'[queue'[j]] = level[current] + 1
        BY <1>3, <1>8, <3>3
      <4>2. level[current] <= level'[queue'[i]] /\ level'[queue'[i]] <= level[current] + 1
        BY <1>9
      <4> QED BY <3>1, <4>1, <4>2
    <3> QED BY <3>2, <3>3
  <2> QED BY <1>2, <1>3, <1>5, <1>9, <2>1 DEF QueueOrdered
<1>13. LevelsBounded'
  <2>1. ASSUME NEW n \in Visited'
        PROVE  /\ level'[n] = 0 => n = Start
               /\ level'[n] <= query.depth
               /\ level'[n] < Cardinality(Visited')
    <3>1. CASE n \in Visited
      BY <1>3, <1>5, <1>6, <1>7, <3>1 DEF LevelsBounded
    <3>2. CASE n \notin Visited
      BY <1>2, <1>3, <1>5, <1>6, <1>7, <2>1, <3>2 DEF LevelsBounded
    <3> QED BY <3>1, <3>2
  <2>2. ASSUME NEW n \in Visited', NEW i \in 1..Len(queue')
        PROVE  level'[n] <= level'[queue'[i]] + 1
    BY <1>5, <1>9, <1>10
  <2> QED BY <1>2, <1>3, <1>5, <1>6, <1>10, <2>1, <2>2 DEF LevelsBounded
<1>14. \A n, f : NextIsVisited(n, f) /\ n \in Visited => NextIsVisited(n, f)'
  BY <1>3, <1>4 DEF NextIsVisited
<1>15. NextIsVisited(current, e)'
  <2>1. OtherEnd(current, e)' = next
    BY <1>1, <1>2, <1>4
  <2> QED BY <1>2, <1>3, <1>5, <1>11, <2>1 DEF NextIsVisited
<1>16. Predecessors'
  <2>1. ASSUME NEW n \in Visited', level'[n] > 0
        PROVE  \E p \in Visited', f \in included' :
                 f \in NextEdges(p) /\ OtherEnd(p, f) = n /\ level'[n] = level'[p] + 1
    <3>1. CASE n \in Visited
      <4>1. PICK p \in Visited, f \in included :
              f \in NextEdges(p) /\ OtherEnd(p, f) = n /\ level[n] = level[p] + 1
        BY <1>3, <1>6, <2>1, <3>1 DEF Predecessors
      <4> QED BY <1>3, <3>1, <4>1
    <3>2. CASE n \notin Visited
      <4>1. n = next /\ level'[n] = level[current] + 1 /\ level'[current] = level[current]
        BY <1>3, <1>5, <2>1, <3>2
      <4> QED BY <1>1, <1>3, <1>5, <4>1
    <3> QED BY <3>1, <3>2
  <2> QED BY <1>4, <2>1 DEF Predecessors
<1>17. Explored'
  <2>1. ASSUME NEW n \in Visited', ~Queued(n)', level'[n] < query.depth, ~Full',
               NEW f \in NextEdges(n) \ Pending(n)'
        PROVE  NextIsVisited(n, f)'
    <3>1. ~Full
      BY <1>2, <1>7, <2>1 DEF Full
    <3>2. CASE n \in Visited
      <4>1. ~Queued(n)
        BY <1>2, <2>1, IncludeSteps
      <4>2. CASE f = e /\ n = current
        BY <1>15, <4>2, <1>2
      <4>3. CASE ~(f = e /\ n = current)
        <5>1. f \notin Pending(n)
          BY <1>2, <2>1, <4>3 DEF Pending
        <5>2. NextIsVisited(n, f)
          BY <1>3, <1>5, <1>6, <2>1, <3>1, <3>2, <4>1, <5>1 DEF Explored
        <5> QED BY <1>14, <3>2, <5>2
      <4> QED BY <4>2, <4>3
    <3>3. CASE n \notin Visited
      <4>1. n = OtherEnd(current, e)
        BY <1>1, <1>3, <2>1, <3>3
      <4>2. Queued(n)'
        BY <1>2, <3>3, <4>1, IncludeSteps
      <4> QED BY <2>1, <4>2
    <3> QED BY <3>2, <3>3
  <2> QED BY <1>2, <1>4, <1>5, <2>1 DEF Explored
<1>18. IncludedFromVisited'
  <2>1. ASSUME NEW f \in included'
        PROVE  \E p \in Visited' : f \in NextEdges(p) /\ NextIsVisited(p, f)'
    <3>1. CASE f = e
      BY <1>2, <1>3, <1>5, <1>15, <3>1
    <3>2. CASE f # e
      <4>1. PICK p \in Visited : f \in NextEdges(p) /\ NextIsVisited(p, f)
        BY <1>3, <1>6, <2>1, <3>2 DEF IncludedFromVisited
      <4> QED BY <1>3, <1>14, <4>1
    <3> QED BY <3>1, <3>2
  <2> QED BY <1>4, <2>1 DEF IncludedFromVisited
<1>19. NotNearer'
  <2>1. ASSUME NEW n \in Visited', level'[n] > 0
        PROVE  n \notin Near(query.edges)[level'[n] - 1]
    <3>1. CASE n \in Visited
      BY <1>3, <1>6, <2>1, <3>1 DEF NotNearer
    <3>2. CASE n \notin Visited
      <4>1. n = next /\ level'[n] = level[current] + 1
        BY <1>3, <2>1, <3>2
      <4>2. e \notin included
        BY <1>1, <3>2, <4>1 DEF LineageInv, EdgesJoinVisitedNodes, OtherEnd
      <4>3. ~Full
        BY <1>2, <1>7, <3>2, <4>1, <4>2 DEF Full, NodesFull, EdgesFull
      <4>4. n \notin Near(query.edges)[level[current]]
        BY <1>2, <3>2, <4>3, NewIsFar
      <4>5. level'[n] - 1 = level[current]
        BY <1>5, <4>1
      <4> QED BY <4>4, <4>5
    <3> QED BY <3>1, <3>2
  <2> QED BY <1>4, <2>1 DEF NotNearer
<1>20. OmittedStayOut'
  <2>1. ASSUME NEW n, NEW f, StaysOut(n, f) PROVE StaysOut(n, f)'
    <3>1. n \in Visited /\ f \in NextEdges(n) \ included /\ n \in Visited'
      BY <1>3, <2>1 DEF StaysOut
    <3>2. CASE Cardinality(included) >= query.edgeCap
      <4>1. e \in included
        BY <1>2, <3>2 DEF EdgesFull
      <4>2. included' = included
        BY <1>3, <4>1
      <4> QED BY <1>2, <1>4, <3>1, <3>2, <4>2 DEF StaysOut
    <3>3. CASE Cardinality(Visited) >= query.nodeCap /\ OtherEnd(n, f) \notin Visited
      <4>1. next \in Visited
        BY <1>2, <3>3 DEF NodesFull
      <4>2. Visited' = Visited
        BY <1>3, <4>1
      <4>3. f # e
        BY <1>1, <1>5, <3>1, <3>3, <4>1 DEF NextEdges, OtherEnd, Leaves, Enters
      <4> QED BY <1>2, <1>3, <1>4, <3>1, <3>3, <4>2, <4>3 DEF StaysOut
    <3> QED BY <1>2, <2>1, <3>2, <3>3 DEF StaysOut, DepthReached
  <2> QED BY <1>2, <1>6, <2>1 DEF OmittedStayOut
<1> QED BY <1>12, <1>13, <1>16, <1>17, <1>18, <1>19, <1>20 DEF LevelInv

LEMMA LevelInvariant == Spec => [](TypeOK /\ LineageInv /\ LevelInv)
<1>1. TypeOK /\ TypeOK' /\ LineageInv /\ LevelInv /\ [Next]_vars => LevelInv'
  <2> SUFFICES ASSUME TypeOK, TypeOK', LineageInv, LevelInv, [Next]_vars PROVE LevelInv'
    OBVIOUS
  <2>1. CASE UNCHANGED vars
    <3>1. /\ UNCHANGED <<query, level, included, omitted, queue, current, todo>> /\ Visited' = Visited
      BY <2>1 DEF vars, Visited
    <3>2. /\ \A n : NextEdges(n)' = NextEdges(n)
          /\ \A n, e : OtherEnd(n, e)' = OtherEnd(n, e)
          /\ \A n, e : NextIsVisited(n, e)' = NextIsVisited(n, e)
          /\ \A n, e : StaysOut(n, e)' = StaysOut(n, e)
          /\ Near(query.edges)' = Near(query.edges)
          /\ Full' = Full
          /\ \A n : Queued(n)' = Queued(n) /\ Pending(n)' = Pending(n)
      BY <3>1, GraphStays DEF NextIsVisited, StaysOut, DepthReached, Full, Queued, Pending
    <3> QED BY <3>1, <3>2 DEF LevelInv, QueueOrdered, LevelsBounded, Predecessors, Explored,
               IncludedFromVisited, NotNearer, OmittedStayOut
  <2>2. CASE VisitNeighbour
    <3>1. PICK e \in todo : /\ OmitForNodeCap(e) \/ OmitForEdgeCap(e) \/ Include(e)
                            /\ todo' = todo \ {e}
      BY <2>2 DEF VisitNeighbour
    <3> QED BY <2>2, <3>1, OmitKeepsLevels, IncludeKeepsLevels
  <2> QED BY <2>1, <2>2, ExpandKeepsLevels, FinishKeepsLevels DEF Next
<1> QED BY <1>1, InitLevels, TypeCorrect, LineageInvariant, PTL DEF Spec

(* What an answer leaves out, and counts as left out, are edges of visited  *)
(* nodes that it does not include in the end either.                        *)
THEOREM TruncatedIsTruncated == Spec => []TruncatedLeftSomethingOut
<1>1. LevelInv => TruncatedLeftSomethingOut
  BY DEF LevelInv, OmittedStayOut, StaysOut, TruncatedLeftSomethingOut
<1> QED BY <1>1, LevelInvariant, PTL

(* A node is reached along included edges in as many steps as its level.    *)
LEMMA ReachedAtLevel ==
  ASSUME TypeOK, LineageInv, LevelInv
  PROVE  \A n \in Visited : n \in Near(included)[level[n]]
<1> DEFINE near == Near(included)
           T == {k \in Nat : \E n \in Visited : level[n] = k /\ n \notin near[k]}
<1> HIDE DEF near
<1>1. query \in Query /\ \A n \in Visited : level[n] \in Nat
  BY DEF TypeOK
<1>2. \A n \in Visited : level[n] < Cardinality(Nodes)
  BY <1>1, FiniteAnswer DEF LevelInv, LevelsBounded
<1>3. /\ near[0] = {Start}
      /\ \A k \in 1..Cardinality(Nodes) : near[k] = near[k - 1] \cup Neighbours(near[k - 1], included)
  BY <1>1, NearIs DEF near
<1>4. T = {}
  <2> SUFFICES ASSUME T # {} PROVE FALSE OBVIOUS
  <2>1. PICK k \in T : \A y \in T : k <= y
    <3>1. T \subseteq Nat
      OBVIOUS
    <3> HIDE DEF T
    <3> QED BY <3>1, LeastOfNat
  <2>2. PICK n \in Visited : level[n] = k /\ n \notin near[k]
    OBVIOUS
  <2>3. k \in Nat /\ k # 0
    BY <1>1, <1>3, <2>2 DEF LevelInv, LevelsBounded
  <2>4. PICK p \in Visited, e \in included :
          e \in NextEdges(p) /\ OtherEnd(p, e) = n /\ level[n] = level[p] + 1
    BY <2>2, <2>3 DEF LevelInv, Predecessors
  <2>5. level[p] = k - 1 /\ k - 1 \in Nat /\ ~ (k <= k - 1)
    BY <1>1, <2>2, <2>3, <2>4
  <2>6. k - 1 \notin T
    <3> HIDE DEF T
    <3> QED BY <2>1, <2>5
  <2>7. p \in near[k - 1]
    BY <2>5, <2>6
  <2>8. k \in 1..Cardinality(Nodes)
    BY <1>2, <2>2, <2>3, FiniteAnswer
  <2>9. n \in Neighbours(near[k - 1], included)
    <3>1. <<p, e>> \in {q \in near[k - 1] \X included : q[2] \in NextEdges(q[1])}
      BY <2>4, <2>7
    <3>2. OtherEnd(<<p, e>>[1], <<p, e>>[2]) = n
      BY <2>4
    <3> HIDE DEF near
    <3> QED BY <3>1, <3>2 DEF Neighbours
  <2> QED BY <1>3, <2>2, <2>8, <2>9
<1>5. ASSUME NEW n \in Visited PROVE n \in near[level[n]]
  BY <1>1, <1>4
<1> QED BY <1>5 DEF near

(* The level of a node of an answer is its distance from the start in the   *)
(* whole graph, whatever the caps, although a cap hides some of the edges   *)
(* from the search and the distance is only known one edge at a time.       *)
THEOREM Distances == Spec => []LevelsAreDistances
<1>1. TypeOK /\ LineageInv /\ LevelInv => LevelsAreDistances
  BY ReachedAtLevel DEF LevelInv, NotNearer, LevelsAreDistances
<1> QED BY <1>1, LevelInvariant, PTL

-----------------------------------------------------------------------------
(* A request goes through the steps of bounded_lineage and no others: the   *)
(* detailed specification implements that of the lineage.                   *)
THEOREM ReviewsRunTheLineage == ReviewSpec => Spec
<1>1. ReviewInit => Init
  BY DEF ReviewInit
<1>2. ASSUME [ReviewNext]_allVars
      PROVE  [Next]_vars
  <2>1. CASE Answering
    <3>1. CASE LineageStep
      BY <3>1 DEF LineageStep
    <3>2. CASE ~LineageStep
      <4>1. UNCHANGED vars
        BY <2>1, <3>2 DEF Answering, LoadGraph, AnswerLineage, AnalyseLineage, AnalysisStep,
           EndAnalysis, QueryNotFound, ReadQuery, QueryNotValid, AnswerReview, ViewNotGiven
      <4> QED BY <4>1
    <3> QED BY <3>1, <3>2
  <2>2. CASE DeleteSnapshot
    BY <2>2 DEF DeleteSnapshot
  <2>3. CASE UNCHANGED allVars
    BY <2>3 DEF allVars
  <2> QED BY <1>2, <2>1, <2>2, <2>3 DEF ReviewNext
<1> QED BY <1>1, <1>2, PTL DEF ReviewSpec, Spec

-----------------------------------------------------------------------------
(* Of every query that is asked for or impacted there is evidence, or its   *)
(* name is still to be read.                                                *)

EvidenceOf(object) == \E e \in evidence : e.query = object

IsToBeRead(name) == name \in names \/ \E e \in evidence : e.query \in Called[name]

NoNameIsForgotten ==
    stage \in {"queries", "answered"} /\ ask.kind = "review" =>
        /\ ask.impacted => \A object \in ImpactedQueries : object \in names \/ EvidenceOf(object)
        /\ \A name \in AskedNames : IsToBeRead(name)

EvidenceIsOfQueries ==
    /\ \A e \in evidence : e = QueryEvidence(e.query)
    /\ stage \in {"load", "lineage", "analysis"} => evidence = {}

PackIsComposed ==
    stage = "answered" /\ ask.kind = "review" =>
        /\ names = {}
        /\ pack.queries = evidence /\ pack.gaps = Gaps

ReviewIsTyped ==
    /\ ask \in Ask /\ query \in Queries
    /\ names \subseteq Names
    /\ stage \in Stages

ReviewInv == ReviewIsTyped /\ EvidenceIsOfQueries /\ NoNameIsForgotten /\ PackIsComposed

LEMMA AnswersHold ==
  ASSUME ReviewInv
  PROVE  ReviewsAreWhole
<1> SUFFICES ASSUME stage = "answered", ask.kind = "review"
             PROVE  /\ ask.impacted => ImpactedQueries \subseteq {e.query : e \in pack.queries}
                    /\ \A name \in AskedNames : \E e \in pack.queries : e.query \in Called[name]
                    /\ \A e \in pack.queries : e.query \in Affected =>
                         \E g \in pack.gaps : g.source = "query" /\ g.object = e.query
                                              /\ e.query \in g.finding
  BY DEF ReviewsAreWhole
<1>1. names = {} /\ pack.queries = evidence /\ pack.gaps = Gaps
  BY DEF ReviewInv, PackIsComposed
<1>2. ask.impacted => ImpactedQueries \subseteq {e.query : e \in pack.queries}
  BY <1>1 DEF ReviewInv, NoNameIsForgotten, EvidenceOf
<1>3. \A name \in AskedNames : \E e \in pack.queries : e.query \in Called[name]
  BY <1>1 DEF ReviewInv, NoNameIsForgotten, IsToBeRead
<1>4. ASSUME NEW e \in pack.queries, e.query \in Affected
      PROVE  \E g \in pack.gaps : g.source = "query" /\ g.object = e.query /\ e.query \in g.finding
  <2>1. e = QueryEvidence(e.query) /\ e \in evidence
    BY <1>1 DEF ReviewInv, EvidenceIsOfQueries
  <2>2. e.query \in {f.object : f \in findings}
    BY <1>4 DEF Affected
  <2>3. e.matched = MatchedByQuery(e.query)
    BY <2>1 DEF QueryEvidence
  <2>4. e.query \in e.matched
    BY <2>2, <2>3 DEF MatchedByQuery, MatchedFindings
  <2>5. e.noted
    BY <2>1, <2>3, <2>4 DEF QueryEvidence
  <2>6. Gap("query", e.query, QueryFinding(e)) \in Gaps
    BY <2>1, <2>5 DEF Gaps
  <2>7. QueryFinding(e) = {e.query}
    BY <2>4 DEF QueryFinding
  <2> QED BY <1>1, <2>6, <2>7 DEF Gap
<1> QED BY <1>2, <1>3, <1>4

LEMMA ReviewStarts == ReviewInit => ReviewInv
<1> SUFFICES ASSUME ReviewInit PROVE ReviewInv
  OBVIOUS
<1>1. query \in Queries /\ ask \in AsksOf(query)
  BY DEF ReviewInit, Init
<1>2. ask \in Ask
  BY <1>1, ReviewAssumption
<1>3. stage \in {"load", "analysis"} /\ names = {} /\ evidence = {}
  BY DEF ReviewInit
<1> QED BY <1>1, <1>2, <1>3 DEF ReviewInv, ReviewIsTyped, EvidenceIsOfQueries, NoNameIsForgotten,
           PackIsComposed, Stages

(* What the evidence is made of does not change once the analysis is over.  *)
LEMMA ReportStays ==
  ASSUME UNCHANGED <<ask, level, findings>>
  PROVE  /\ Affected' = Affected /\ ImpactedQueries' = ImpactedQueries
         /\ AskedNames' = AskedNames
         /\ \A object : QueryEvidence(object)' = QueryEvidence(object)
         /\ evidence' = evidence => Gaps' = Gaps
<1>1. Affected' = Affected /\ ImpactedQueries' = ImpactedQueries /\ AskedNames' = AskedNames
  BY DEF Affected, ImpactedQueries, AskedNames, Visited
<1>2. \A objects : MatchedFindings(objects)' = MatchedFindings(objects)
  BY DEF MatchedFindings
<1>3. \A object : AnalysisOf(object)' = AnalysisOf(object)
  BY DEF AnalysisOf
<1>4. \A object : QueryEvidence(object)' = QueryEvidence(object)
  BY <1>2, <1>3 DEF QueryEvidence, MatchedByQuery, MatchedFindings
<1>5. FreshnessEvidence' = FreshnessEvidence
  BY <1>1 DEF FreshnessEvidence
<1>6. ASSUME evidence' = evidence PROVE Gaps' = Gaps
  BY <1>1, <1>2, <1>5, <1>6 DEF Gaps, MatchedFindings
<1> QED BY <1>1, <1>4, <1>6

(* The steps up to the end of the analysis.                                 *)
LEMMA EarlySteps ==
  ASSUME ReviewInv,
         LoadGraph \/ LineageStep \/ AnswerLineage \/ AnalyseLineage \/ AnalysisStep
  PROVE  ReviewInv'
<1>1. UNCHANGED <<ask, evidence, names>> /\ evidence = {}
  BY DEF LoadGraph, LineageStep, AnswerLineage, AnalyseLineage, AnalysisStep, reviewVars,
         ReviewInv, EvidenceIsOfQueries
<1>2. query' = query
  BY DEF LoadGraph, LineageStep, AnswerLineage, AnalyseLineage, AnalysisStep, vars,
         Next, Expand, VisitNeighbour, FinishNode
<1>3. stage' \in Stages /\ (stage' \in {"queries", "answered"} => ask.kind # "review")
  BY DEF LoadGraph, LineageStep, AnswerLineage, AnalyseLineage, AnalysisStep, reviewVars,
         ReviewInv, ReviewIsTyped, Stages, Fail
<1> QED BY <1>1, <1>2, <1>3 DEF ReviewInv, ReviewIsTyped, EvidenceIsOfQueries,
           NoNameIsForgotten, PackIsComposed

LEMMA EndAnalysisStep ==
  ASSUME ReviewInv, EndAnalysis
  PROVE  ReviewInv'
<1>1. UNCHANGED <<ask, query, level, findings, evidence>> /\ evidence = {} /\ ask \in Ask
  BY DEF EndAnalysis, vars, analysisVars, ReviewInv, EvidenceIsOfQueries, ReviewIsTyped
<1>2. AskedNames' = AskedNames /\ ImpactedQueries' = ImpactedQueries
  BY <1>1, ReportStays
<1>3. AskedNames \subseteq Names /\ ImpactedQueries \subseteq Names
  <2>1. ask.names \in Seq(Names) /\ ask.queries \subseteq Nodes
    BY <1>1 DEF Ask
  <2>2. \A i \in DOMAIN ask.names : ask.names[i] \in Names
    BY <2>1
  <2> QED BY <2>1, <2>2, ReviewAssumption DEF AskedNames, ImpactedQueries
<1>4. stage' \in Stages /\ (stage' = "answered" => ask.kind # "review")
  BY DEF EndAnalysis, Stages
<1>5. ReviewIsTyped'
  <2>1. names' \subseteq Names
    BY <1>3 DEF EndAnalysis, QueryNames
  <2> QED BY <1>1, <1>4, <2>1 DEF ReviewInv, ReviewIsTyped
<1>6. NoNameIsForgotten'
  <2> SUFFICES ASSUME stage' = "queries", ask.kind = "review" PROVE NoNameIsForgotten'
    BY <1>1, <1>4 DEF NoNameIsForgotten
  <2>1. names' = QueryNames
    BY DEF EndAnalysis
  <2> QED BY <1>1, <1>2, <2>1 DEF NoNameIsForgotten, QueryNames, IsToBeRead
<1> QED BY <1>1, <1>4, <1>5, <1>6 DEF ReviewInv, EvidenceIsOfQueries, PackIsComposed

(* Reading a query under one of its names.                                  *)
LEMMA ResolvedIsCalled ==
  ASSUME NEW name \in Names, NEW object \in Nodes, Resolved(name, object)
  PROVE  object \in Called[name] /\ (name \in Nodes => object = name)
<1>1. CASE name \in Nodes
  BY <1>1, ReviewAssumption DEF Resolved
<1>2. CASE name \notin Nodes
  BY <1>2, LineageAssumption DEF Resolved
<1> QED BY <1>1, <1>2

LEMMA ReadQueryStep ==
  ASSUME ReviewInv, NEW name \in Names, NEW object \in Nodes, ReadQuery(name, object)
  PROVE  ReviewInv'
<1>1. /\ UNCHANGED <<ask, query, level, findings, stage>>
      /\ stage = "queries"
      /\ evidence' = evidence \cup {QueryEvidence(object)}
      /\ names' = names \ {name}
  BY DEF ReadQuery, vars, analysisVars
<1>2. /\ AskedNames' = AskedNames /\ ImpactedQueries' = ImpactedQueries
      /\ \A o : QueryEvidence(o)' = QueryEvidence(o)
  BY <1>1, ReportStays
<1>3. QueryEvidence(object).query = object
  BY DEF QueryEvidence
<1>4. object \in Called[name] /\ (name \in Nodes => object = name)
  BY ResolvedIsCalled DEF ReadQuery
<1>5. EvidenceIsOfQueries'
  BY <1>1, <1>2, <1>3 DEF ReviewInv, EvidenceIsOfQueries
<1>6. NoNameIsForgotten'
  <2> SUFFICES ASSUME ask.kind = "review" PROVE NoNameIsForgotten'
    BY <1>1 DEF NoNameIsForgotten
  <2>1. ASSUME ask.impacted, NEW o \in ImpactedQueries
        PROVE  o \in names' \/ EvidenceOf(o)'
    <3>1. o \in names \/ EvidenceOf(o)
      BY <1>1, <2>1 DEF ReviewInv, NoNameIsForgotten
    <3>2. o \in Nodes
      BY <2>1 DEF ReviewInv, ReviewIsTyped, Ask, ImpactedQueries
    <3> QED BY <1>1, <1>3, <1>4, <3>1, <3>2 DEF EvidenceOf
  <2>2. ASSUME NEW n \in AskedNames PROVE IsToBeRead(n)'
    <3>1. IsToBeRead(n)
      BY <1>1 DEF ReviewInv, NoNameIsForgotten
    <3> QED BY <1>1, <1>3, <1>4, <3>1 DEF IsToBeRead
  <2> QED BY <1>1, <1>2, <2>1, <2>2 DEF NoNameIsForgotten
<1> QED BY <1>1, <1>5, <1>6 DEF ReviewInv, ReviewIsTyped, PackIsComposed

(* The steps that end a review, or do not concern what was read.            *)
LEMMA LateSteps ==
  ASSUME ReviewInv,
         \/ \E name \in Names : QueryNotFound(name)
         \/ \E name \in Names, object \in Nodes : QueryNotValid(name, object)
         \/ ViewNotGiven \/ AnswerReview \/ DeleteSnapshot \/ UNCHANGED allVars
  PROVE  ReviewInv'
<1>1. UNCHANGED <<ask, query, level, findings, evidence, names>>
  BY DEF QueryNotFound, QueryNotValid, ViewNotGiven, AnswerReview, DeleteSnapshot, allVars,
         vars, analysisVars, reviewVars
<1>2. /\ AskedNames' = AskedNames /\ ImpactedQueries' = ImpactedQueries /\ Gaps' = Gaps
      /\ \A o : QueryEvidence(o)' = QueryEvidence(o)
  BY <1>1, ReportStays
<1>3. stage' = stage \/ stage' = "failed" \/ AnswerReview
  BY DEF QueryNotFound, QueryNotValid, ViewNotGiven, AnswerReview, DeleteSnapshot, allVars,
         reviewVars, Fail
<1>4. AnswerReview => /\ stage = "queries" /\ stage' = "answered" /\ names = {}
                      /\ pack'.queries = evidence /\ pack'.gaps = Gaps
  BY DEF AnswerReview
<1>5. stage' = "answered" /\ ~AnswerReview => pack' = pack
  BY DEF QueryNotFound, QueryNotValid, ViewNotGiven, DeleteSnapshot, allVars,
         reviewVars, Fail
<1>6. ReviewIsTyped'
  BY <1>1, <1>3, <1>4 DEF ReviewInv, ReviewIsTyped, Stages
<1>7. EvidenceIsOfQueries'
  BY <1>1, <1>2, <1>3, <1>4 DEF ReviewInv, EvidenceIsOfQueries
<1>8. NoNameIsForgotten'
  BY <1>1, <1>2, <1>3, <1>4 DEF ReviewInv, NoNameIsForgotten, EvidenceOf, IsToBeRead
<1>9. PackIsComposed'
  BY <1>1, <1>2, <1>3, <1>4, <1>5 DEF ReviewInv, PackIsComposed
<1> QED BY <1>6, <1>7, <1>8, <1>9 DEF ReviewInv

(* A review that is answered has evidence of every query that was asked for *)
(* or is impacted, tied to its finding, although each query is read on its  *)
(* own while the snapshot may be deleted.                                   *)
THEOREM ReviewsAreAlwaysWhole == ReviewSpec => []ReviewsAreWhole
<1>1. ReviewInv /\ [ReviewNext]_allVars => ReviewInv'
  <2> SUFFICES ASSUME ReviewInv, [ReviewNext]_allVars PROVE ReviewInv'
    OBVIOUS
  <2>1. CASE LoadGraph \/ LineageStep \/ AnswerLineage \/ AnalyseLineage \/ AnalysisStep
    BY <2>1, EarlySteps
  <2>2. CASE EndAnalysis
    BY <2>2, EndAnalysisStep
  <2>3. CASE \E name \in Names, object \in Nodes : ReadQuery(name, object)
    BY <2>3, ReadQueryStep
  <2>4. CASE \/ \E name \in Names : QueryNotFound(name)
             \/ \E name \in Names, object \in Nodes : QueryNotValid(name, object)
             \/ ViewNotGiven \/ AnswerReview \/ DeleteSnapshot \/ UNCHANGED allVars
    BY <2>4, LateSteps
  <2> QED BY <2>1, <2>2, <2>3, <2>4 DEF ReviewNext, Answering
<1> QED BY <1>1, ReviewStarts, AnswersHold, PTL DEF ReviewSpec

-----------------------------------------------------------------------------
(* What was proved of the lineage holds of every answer that is made of it: *)
(* the caps hold, no edge dangles, so that the graph that is analysed is    *)
(* closed, and an answer that does not say it is truncated is complete.     *)
THEOREM AnswersRespectCaps ==
  ReviewSpec => [](CapsRespected /\ EdgesJoinVisitedNodes /\ UntruncatedIsComplete)
<1> QED BY ReviewsRunTheLineage, Caps, NoDanglingEdges, Complete, PTL

-----------------------------------------------------------------------------
(* The two searches of the impact analysis take their nodes from the queue  *)
(* in the same way: f tells how far out each node was found by a search of  *)
(* graph G from c with queue q, x is the entry being expanded and t what is *)
(* left of its edges.                                                       *)

Out(G, n) == {e \in G.edges : G.src[e] = n}

Found(G, c, f) ==
    /\ DOMAIN f \subseteq Nodes /\ f \in [DOMAIN f -> Nat]
    /\ c \in DOMAIN f /\ f[c] = 0
    /\ \A n \in DOMAIN f :
         /\ f[n] = 0 => n = c
         /\ f[n] <= G.depth /\ f[n] < Cardinality(DOMAIN f)
         /\ f[n] > 0 => \E e \in G.edges :
              G.src[e] \in DOMAIN f /\ G.dst[e] = n /\ f[n] = f[G.src[e]] + 1

InQueue(f, q) ==
    /\ q \in Seq(A!Entry)
    /\ \A i \in 1..Len(q) :
         /\ q[i].node \in DOMAIN f /\ q[i].depth = f[q[i].node]
         /\ \A n \in DOMAIN f : f[n] <= q[i].depth + 1
    /\ \A i, j \in 1..Len(q) : i <= j =>
         q[i].depth <= q[j].depth /\ q[j].depth <= q[i].depth + 1

InHand(G, f, q, x, t) ==
    \/ x = NoNode /\ t = {}
    \/ /\ x \in A!Entry
       /\ x.node \in DOMAIN f /\ x.depth = f[x.node] /\ x.depth < G.depth
       /\ t \subseteq Out(G, x.node)
       /\ \A n \in DOMAIN f : f[n] <= x.depth + 1
       /\ \A i \in 1..Len(q) : x.depth <= q[i].depth /\ q[i].depth <= x.depth + 1

Left(n, x, t) == IF x # NoNode /\ x.node = n THEN t ELSE {}

Follows(G, f, n, e) == G.dst[e] \in DOMAIN f /\ f[G.dst[e]] <= f[n] + 1

Waits(n, q) == \E i \in 1..Len(q) : q[i].node = n

Followed(G, f, q, x, t) ==
    \A n \in DOMAIN f : \/ f[n] >= G.depth \/ Waits(n, q)
                        \/ \A e \in Out(G, n) \ Left(n, x, t) : Follows(G, f, n, e)

Search(G, c, f, q, x, t) ==
    Found(G, c, f) /\ InQueue(f, q) /\ InHand(G, f, q, x, t) /\ Followed(G, f, q, x, t)

Searched(G, c, f) == Search(G, c, f, <<>>, NoNode, {})

LEMMA GraphIs ==
  ASSUME NEW G \in A!Query
  PROVE  /\ G.depth \in Nat /\ G.edges \subseteq EdgeIds
         /\ \A e \in G.edges : G.src[e] \in Nodes /\ G.dst[e] \in Nodes
  BY DEF A!Query

LEMMA SearchStarts ==
  ASSUME NEW G \in A!Query, NEW c \in Nodes
  PROVE  Search(G, c, [n \in {c} |-> 0], <<[node |-> c, depth |-> 0]>>, NoNode, {})
<1> DEFINE f == [n \in {c} |-> 0]
           q == <<[node |-> c, depth |-> 0]>>
<1>1. Cardinality({c}) = 1 /\ G.depth \in Nat
  BY FS_Singleton, GraphIs
<1>2. Found(G, c, f)
  BY <1>1 DEF Found
<1>3. q \in Seq(A!Entry) /\ Len(q) = 1 /\ q[1].node = c /\ q[1].depth = 0
  BY DEF A!Entry
<1>4. InQueue(f, q)
  <2>1. \A i \in 1..Len(q) : i = 1
    BY <1>3
  <2> HIDE DEF q
  <2> QED BY <1>3, <2>1 DEF InQueue
<1>5. InHand(G, f, q, NoNode, {})
  BY DEF InHand
<1>6. Followed(G, f, q, NoNode, {})
  BY <1>3 DEF Followed, Waits
<1> QED BY <1>2, <1>4, <1>5, <1>6 DEF Search

(* Taking an entry from the queue, and putting it away.                      *)
LEMMA SearchTakes ==
  ASSUME NEW G \in A!Query, NEW c, NEW f, NEW q, q # <<>>,
         Search(G, c, f, q, NoNode, {})
  PROVE  /\ Head(q) \in A!Entry /\ Head(q) # NoNode
         /\ Head(q).depth >= G.depth => Search(G, c, f, Tail(q), NoNode, {})
         /\ Head(q).depth < G.depth =>
              Search(G, c, f, Tail(q), Head(q), Out(G, Head(q).node))
<1>1. /\ q \in Seq(A!Entry) /\ f \in [DOMAIN f -> Nat] /\ G.depth \in Nat
      /\ Found(G, c, f) /\ InQueue(f, q) /\ Followed(G, f, q, NoNode, {})
  BY GraphIs DEF Search, Found, InQueue
<1>2. PICK h : h = Head(q)
  OBVIOUS
<1>3. PICK r : r = Tail(q)
  OBVIOUS
<1>4. /\ r \in Seq(A!Entry) /\ Len(r) \in Nat /\ 1 \in 1..Len(q) /\ h = q[1] /\ h \in A!Entry
      /\ \A i \in 1..Len(r) : i + 1 \in 1..Len(q) /\ r[i] = q[i + 1] /\ r[i] \in A!Entry
      /\ \A i \in 1..Len(q) : i = 1 \/ (i - 1 \in 1..Len(r) /\ r[i - 1] = q[i])
  BY <1>1, <1>2, <1>3
<1>5. /\ h # NoNode /\ h.depth \in Nat /\ h.node \in DOMAIN f /\ h.depth = f[h.node]
  BY <1>1, <1>4, ReviewAssumption DEF A!Entry, InQueue
<1>6. InQueue(f, r)
  <2>1. ASSUME NEW i \in 1..Len(r), NEW j \in 1..Len(r), i <= j
        PROVE  r[i].depth <= r[j].depth /\ r[j].depth <= r[i].depth + 1
    <3>1. i + 1 <= j + 1
      BY <1>4, <2>1
    <3> QED BY <1>1, <1>4, <3>1 DEF InQueue
  <2>2. \A i \in 1..Len(r) : /\ r[i].node \in DOMAIN f /\ r[i].depth = f[r[i].node]
                             /\ \A n \in DOMAIN f : f[n] <= r[i].depth + 1
    BY <1>1, <1>4 DEF InQueue
  <2> QED BY <1>4, <2>1, <2>2 DEF InQueue
<1>7. \A n : Waits(n, q) => n = h.node \/ Waits(n, r)
  BY <1>4 DEF Waits
<1>8. CASE h.depth >= G.depth
  <2>1. Followed(G, f, r, NoNode, {})
    BY <1>1, <1>5, <1>7, <1>8 DEF Followed, Left
  <2> QED BY <1>1, <1>2, <1>3, <1>4, <1>5, <1>6, <1>8, <2>1 DEF Search, InHand
<1>9. CASE h.depth < G.depth
  <2>1. ASSUME NEW n \in DOMAIN f, f[n] < G.depth, ~Waits(n, r),
               NEW e \in Out(G, n) \ Left(n, h, Out(G, h.node))
        PROVE  Follows(G, f, n, e)
    <3>1. n # h.node
      BY <1>5, <2>1 DEF Left
    <3>2. ~Waits(n, q) /\ e \in Out(G, n) \ Left(n, NoNode, {})
      BY <1>7, <2>1, <3>1 DEF Left
    <3> QED BY <1>1, <2>1, <3>2 DEF Followed
  <2>2. Followed(G, f, r, h, Out(G, h.node))
    BY <1>1, <2>1 DEF Followed
  <2>3. \A i \in 1..Len(r) : h.depth <= r[i].depth /\ r[i].depth <= h.depth + 1
    <3> TAKE i \in 1..Len(r)
    <3>1. 1 \in 1..Len(q) /\ i + 1 \in 1..Len(q) /\ 1 <= i + 1
      BY <1>4
    <3>2. q[1].depth <= q[i + 1].depth /\ q[i + 1].depth <= q[1].depth + 1
      BY <1>1, <3>1 DEF InQueue
    <3> QED BY <1>4, <3>2
  <2>4. \A n \in DOMAIN f : f[n] <= h.depth + 1
    BY <1>1, <1>4 DEF InQueue
  <2>5. InHand(G, f, r, h, Out(G, h.node))
    BY <1>4, <1>5, <1>9, <2>3, <2>4 DEF InHand
  <2> QED BY <1>1, <1>2, <1>3, <1>4, <1>5, <1>6, <1>9, <2>2, <2>5 DEF Search
<1> QED BY <1>1, <1>5, <1>8, <1>9

LEMMA SearchPutsAway ==
  ASSUME NEW G \in A!Query, NEW c, NEW f, NEW q, NEW x, Search(G, c, f, q, x, {})
  PROVE  Search(G, c, f, q, NoNode, {})
  BY DEF Search, InHand, Followed, Left

(* Looking at an edge, to a node that was found or to a new one.             *)
LEMMA SearchSkips ==
  ASSUME NEW G \in A!Query, NEW c, NEW f, NEW q, NEW x, NEW t, NEW e \in t, x # NoNode,
         Search(G, c, f, q, x, t), G.dst[e] \in DOMAIN f
  PROVE  /\ ~ (x.depth + 1 < f[G.dst[e]])
         /\ Search(G, c, f, q, x, t \ {e})
<1>1. /\ x \in A!Entry /\ x.node \in DOMAIN f /\ x.depth = f[x.node] /\ x.depth < G.depth
      /\ t \subseteq Out(G, x.node)
      /\ \A n \in DOMAIN f : f[n] <= x.depth + 1
      /\ \A i \in 1..Len(q) : x.depth <= q[i].depth /\ q[i].depth <= x.depth + 1
  BY DEF Search, InHand
<1>2. Follows(G, f, x.node, e)
  BY <1>1 DEF Follows
<1>3. ASSUME NEW n \in DOMAIN f, f[n] < G.depth, ~Waits(n, q),
             NEW d \in Out(G, n) \ Left(n, x, t \ {e})
      PROVE  Follows(G, f, n, d)
  <2>1. CASE d = e /\ n = x.node
    BY <1>2, <2>1
  <2>2. CASE ~ (d = e /\ n = x.node)
    <3>1. d \in Out(G, n) \ Left(n, x, t)
      BY <1>3, <2>2 DEF Left
    <3> QED BY <1>3, <3>1, GraphIs DEF Search, Followed, Found
  <2> QED BY <2>1, <2>2
<1>4. Followed(G, f, q, x, t \ {e})
  <2>1. G.depth \in Nat /\ f \in [DOMAIN f -> Nat]
    BY GraphIs DEF Search, Found
  <2> QED BY <1>3, <2>1 DEF Followed
<1>5. InHand(G, f, q, x, t \ {e})
  BY <1>1 DEF InHand
<1>6. ~ (x.depth + 1 < f[G.dst[e]])
  <2>1. x.depth \in Nat /\ f[G.dst[e]] \in Nat /\ f[G.dst[e]] <= x.depth + 1
    BY <1>1 DEF Search, Found, A!Entry
  <2> QED BY <2>1
<1> QED BY <1>4, <1>5, <1>6 DEF Search

Adding(f, n, d) == [m \in DOMAIN f \cup {n} |-> IF m = n THEN d ELSE f[m]]

LEMMA SearchFinds ==
  ASSUME NEW G \in A!Query, NEW c, NEW f, NEW q, NEW x, NEW t, NEW e \in t, x # NoNode,
         Search(G, c, f, q, x, t), G.dst[e] \notin DOMAIN f
  PROVE  Search(G, c, Adding(f, G.dst[e], x.depth + 1),
                Append(q, [node |-> G.dst[e], depth |-> x.depth + 1]), x, t \ {e})
<1>1. /\ x \in A!Entry /\ x.node \in DOMAIN f /\ x.depth = f[x.node] /\ x.depth < G.depth
      /\ t \subseteq Out(G, x.node)
      /\ \A n \in DOMAIN f : f[n] <= x.depth + 1
      /\ \A i \in 1..Len(q) : x.depth <= q[i].depth /\ q[i].depth <= x.depth + 1
  BY DEF Search, InHand
<1>2. PICK new : new = G.dst[e]
  OBVIOUS
<1>3. PICK d : d = x.depth + 1
  OBVIOUS
<1>4. PICK g : g = Adding(f, new, d)
  OBVIOUS
<1>5. PICK y : y = [node |-> new, depth |-> d]
  OBVIOUS
<1>6. PICK r : r = Append(q, y)
  OBVIOUS
<1>7. /\ e \in G.edges /\ G.src[e] = x.node /\ new \in Nodes /\ new \notin DOMAIN f
      /\ G.depth \in Nat /\ x.depth \in Nat /\ d \in Nat /\ d <= G.depth
      /\ y \in A!Entry /\ y.node = new /\ y.depth = d
  BY <1>1, <1>2, <1>3, <1>5, GraphIs DEF Out, A!Entry
<1>8. /\ f \in [DOMAIN f -> Nat] /\ DOMAIN f \subseteq Nodes
      /\ Found(G, c, f) /\ InQueue(f, q) /\ Followed(G, f, q, x, t) /\ q \in Seq(A!Entry)
  BY DEF Search, Found, InQueue
<1>9. /\ DOMAIN g = DOMAIN f \cup {new}
      /\ \A m \in DOMAIN f : g[m] = f[m] /\ g[m] \in Nat
      /\ g[new] = d
      /\ g \in [DOMAIN g -> Nat]
  BY <1>4, <1>7, <1>8 DEF Adding
<1>10. Cardinality(DOMAIN g) = Cardinality(DOMAIN f) + 1 /\ Cardinality(DOMAIN f) \in Nat
  BY <1>7, <1>8, <1>9, LineageAssumption, FS_Subset, FS_AddElement, FS_CardinalityType
<1>11. /\ r \in Seq(A!Entry) /\ Len(r) = Len(q) + 1 /\ Len(q) \in Nat
       /\ \A i \in 1..Len(q) : i \in 1..Len(r) /\ r[i] = q[i] /\ q[i] \in A!Entry
       /\ r[Len(q) + 1] = y
       /\ \A i \in 1..Len(r) : i \in 1..Len(q) \/ i = Len(q) + 1
  BY <1>6, <1>7, <1>8
<1>12. \A n \in DOMAIN g : g[n] <= d
  BY <1>1, <1>3, <1>7, <1>8, <1>9
<1>13. Found(G, c, g)
  <2>1. ASSUME NEW n \in DOMAIN g
        PROVE  /\ g[n] = 0 => n = c
               /\ g[n] <= G.depth /\ g[n] < Cardinality(DOMAIN g)
               /\ g[n] > 0 => \E a \in G.edges :
                    G.src[a] \in DOMAIN g /\ G.dst[a] = n /\ g[n] = g[G.src[a]] + 1
    <3>1. CASE n \in DOMAIN f
      <4>1. /\ f[n] = 0 => n = c
            /\ f[n] <= G.depth /\ f[n] < Cardinality(DOMAIN f)
            /\ f[n] > 0 => \E a \in G.edges :
                 G.src[a] \in DOMAIN f /\ G.dst[a] = n /\ f[n] = f[G.src[a]] + 1
        BY <1>8, <3>1 DEF Found
      <4>2. g[n] > 0 => \E a \in G.edges :
              G.src[a] \in DOMAIN g /\ G.dst[a] = n /\ g[n] = g[G.src[a]] + 1
        BY <1>9, <3>1, <4>1
      <4> QED BY <1>8, <1>9, <1>10, <3>1, <4>1, <4>2
    <3>2. CASE n \notin DOMAIN f
      <4>1. n = new /\ g[n] = x.depth + 1 /\ g[x.node] = x.depth
        BY <1>1, <1>3, <1>9, <2>1, <3>2
      <4>2. x.depth < Cardinality(DOMAIN f)
        BY <1>1, <1>8 DEF Found
      <4>3. \E a \in G.edges :
              G.src[a] \in DOMAIN g /\ G.dst[a] = n /\ g[n] = g[G.src[a]] + 1
        BY <1>1, <1>2, <1>7, <1>9, <4>1
      <4> QED BY <1>1, <1>7, <1>10, <4>1, <4>2, <4>3
    <3> QED BY <3>1, <3>2
  <2>2. c \in DOMAIN g /\ g[c] = 0 /\ DOMAIN g \subseteq Nodes
    BY <1>7, <1>8, <1>9 DEF Found
  <2> QED BY <1>9, <2>1, <2>2 DEF Found
<1>14. InQueue(g, r)
  <2>1. ASSUME NEW i \in 1..Len(r)
        PROVE  /\ r[i].node \in DOMAIN g /\ r[i].depth = g[r[i].node] /\ r[i].depth \in Nat
               /\ x.depth <= r[i].depth /\ r[i].depth <= d
    <3>1. CASE i \in 1..Len(q)
      <4>1. r[i] = q[i] /\ q[i] \in A!Entry
        BY <1>11, <3>1
      <4> QED BY <1>1, <1>3, <1>8, <1>9, <3>1, <4>1 DEF InQueue, A!Entry
    <3>2. CASE i = Len(q) + 1
      BY <1>3, <1>7, <1>9, <1>11, <3>2
    <3> QED BY <1>11, <3>1, <3>2
  <2>2. ASSUME NEW i \in 1..Len(r), NEW j \in 1..Len(r), i <= j
        PROVE  r[i].depth <= r[j].depth /\ r[j].depth <= r[i].depth + 1
    <3>1. CASE j \in 1..Len(q)
      <4>1. i \in 1..Len(q) /\ r[i] = q[i] /\ r[j] = q[j]
        BY <1>11, <2>2, <3>1
      <4> QED BY <1>8, <2>2, <3>1, <4>1 DEF InQueue
    <3>2. CASE j = Len(q) + 1
      <4>1. r[j].depth = d
        BY <1>7, <1>11, <3>2
      <4> QED BY <1>3, <1>7, <2>1, <4>1
    <3> QED BY <1>11, <3>1, <3>2
  <2>3. ASSUME NEW i \in 1..Len(r), NEW n \in DOMAIN g PROVE g[n] <= r[i].depth + 1
    <3>1. g[n] \in Nat /\ g[n] <= d /\ x.depth <= r[i].depth /\ r[i].depth \in Nat
      BY <1>9, <1>12, <2>1
    <3> QED BY <1>3, <1>7, <3>1
  <2> QED BY <1>11, <2>1, <2>2, <2>3 DEF InQueue
<1>15. InHand(G, g, r, x, t \ {e})
  <2>1. \A i \in 1..Len(r) : x.depth <= r[i].depth /\ r[i].depth <= x.depth + 1
    BY <1>1, <1>3, <1>7, <1>11
  <2> QED BY <1>1, <1>3, <1>9, <1>12, <2>1 DEF InHand
<1>16. Followed(G, g, r, x, t \ {e})
  <2>1. ASSUME NEW n \in DOMAIN g, g[n] < G.depth, ~Waits(n, r),
               NEW a \in Out(G, n) \ Left(n, x, t \ {e})
        PROVE  Follows(G, g, n, a)
    <3>1. n # new
      BY <1>7, <1>11, <2>1 DEF Waits
    <3>2. n \in DOMAIN f /\ g[n] = f[n] /\ ~Waits(n, q)
      BY <1>9, <1>11, <2>1, <3>1 DEF Waits
    <3>3. CASE a = e /\ n = x.node
      BY <1>1, <1>2, <1>3, <1>7, <1>9, <3>3 DEF Follows
    <3>4. CASE ~ (a = e /\ n = x.node)
      <4>1. a \in Out(G, n) \ Left(n, x, t)
        BY <2>1, <3>4 DEF Left
      <4>2. Follows(G, f, n, a)
        BY <1>7, <1>8, <2>1, <3>2, <4>1 DEF Followed
      <4> QED BY <1>9, <3>2, <4>2 DEF Follows
    <3> QED BY <3>3, <3>4
  <2> QED BY <1>7, <1>9, <2>1 DEF Followed
<1> QED BY <1>2, <1>3, <1>4, <1>5, <1>6, <1>13, <1>14, <1>15, <1>16 DEF Search

(* What a finished search found are the nodes within reach, each as far out *)
(* as it is.                                                                *)

LEMMA SameCardinality == A!Cardinality(Nodes) = Cardinality(Nodes)
  BY DEF A!Cardinality, Cardinality

Ends(G, R) == {G.dst[e] : e \in {d \in G.edges : G.src[d] \in R}}

LEMMA ReachIs ==
  ASSUME analysed \in A!Query, NEW c \in Nodes
  PROVE  /\ Cardinality(Nodes) \in Nat
         /\ A!Reach(c)[0] = {c}
         /\ \A k \in 1..Cardinality(Nodes) :
              A!Reach(c)[k] = A!Reach(c)[k - 1] \cup Ends(analysed, A!Reach(c)[k - 1])
<1> DEFINE N == Cardinality(Nodes)
           F == [R \in SUBSET Nodes |-> R \cup Ends(analysed, R)]
           Is(f) == f = [k \in 0..N |->
                           IF k = 0 THEN {c}
                           ELSE f[k - 1] \cup {analysed.dst[e] : e \in {d \in analysed.edges :
                                                          analysed.src[d] \in f[k - 1]}}]
<1>1. N \in Nat /\ {c} \in SUBSET Nodes
  BY LineageAssumption, FS_CardinalityType
<1>2. ASSUME NEW R \in SUBSET Nodes PROVE R \cup Ends(analysed, R) \in SUBSET Nodes
  BY GraphIs DEF Ends
<1>3. F \in [SUBSET Nodes -> SUBSET Nodes]
  BY <1>2
<1> HIDE DEF N
<1>4. PICK f \in [0..N -> SUBSET Nodes] : f[0] = {c} /\ \A k \in 1..N : f[k] = F[f[k - 1]]
  <2> HIDE DEF F
  <2>1. Iterations(N, SUBSET Nodes, {c}, F) # {}
    BY <1>1, <1>3, IterationExists
  <2> QED BY <2>1 DEF Iterations
<1>5. ASSUME NEW k \in 1..N PROVE f[k] = f[k - 1] \cup Ends(analysed, f[k - 1])
  <2>1. k - 1 \in 0..N /\ f[k] = F[f[k - 1]]
    <3> HIDE DEF F
    <3> QED BY <1>1, <1>4
  <2>2. f[k - 1] \in SUBSET Nodes
    BY <1>4, <2>1
  <2> QED BY <2>1, <2>2
<1>6. Is(f)
  BY <1>1, <1>4, <1>5 DEF Ends
<1>7. A!Reach(c) = CHOOSE g : Is(g)
  BY SameCardinality DEF A!Reach, N
<1>8. Is(A!Reach(c))
  <2> HIDE DEF Is
  <2> QED BY <1>6, <1>7
<1> DEFINE g == A!Reach(c)
<1> HIDE DEF g
<1>9. /\ g[0] = {c}
      /\ \A k \in 1..N : g[k] = g[k - 1] \cup Ends(analysed, g[k - 1])
  <2>1. 0 \in 0..N /\ \A k \in 1..N : k \in 0..N /\ k # 0
    BY <1>1
  <2> QED BY <1>8, <2>1 DEF g, Ends
<1> QED BY <1>1, <1>9 DEF g, N

LEMMA ReachIsFound ==
  ASSUME analysed \in A!Query, NEW c \in Nodes, NEW f, Searched(analysed, c, f),
         NEW k \in 0..Cardinality(Nodes), k <= analysed.depth
  PROVE  A!Reach(c)[k] = {n \in DOMAIN f : f[n] <= k}
<1> DEFINE r == A!Reach(c)
           Ball(j) == {n \in DOMAIN f : f[n] <= j}
           T == {j \in 0..k : r[j] # Ball(j)}
<1> HIDE DEF r
<1>1. /\ Cardinality(Nodes) \in Nat
      /\ r[0] = {c}
      /\ \A j \in 1..Cardinality(Nodes) : r[j] = r[j - 1] \cup Ends(analysed, r[j - 1])
  BY ReachIs DEF r
<1>2. /\ f \in [DOMAIN f -> Nat] /\ c \in DOMAIN f /\ f[c] = 0
      /\ analysed.depth \in Nat
      /\ \A n \in DOMAIN f : f[n] = 0 => n = c
      /\ \A n \in DOMAIN f : f[n] > 0 => \E e \in analysed.edges :
           analysed.src[e] \in DOMAIN f /\ analysed.dst[e] = n /\ f[n] = f[analysed.src[e]] + 1
  BY GraphIs DEF Searched, Search, Found
<1>3. ASSUME NEW e \in analysed.edges, analysed.src[e] \in DOMAIN f,
             f[analysed.src[e]] < analysed.depth
      PROVE  Follows(analysed, f, analysed.src[e], e)
  <2>1. ~Waits(analysed.src[e], <<>>)
    BY DEF Waits
  <2>2. e \in Out(analysed, analysed.src[e]) \ Left(analysed.src[e], NoNode, {})
    BY DEF Out, Left
  <2> QED BY <1>2, <1>3, <2>1, <2>2 DEF Searched, Search, Followed
<1>4. SUFFICES T = {}
  BY DEF r
<1>5. SUFFICES ASSUME T # {} PROVE FALSE
  OBVIOUS
<1>6. PICK j \in T : \A i \in T : j <= i
  <2>1. T \subseteq Nat
    BY <1>1
  <2> HIDE DEF T
  <2> QED BY <1>5, <2>1, LeastOfNat
<1>7. j \in 0..k /\ r[j] # Ball(j)
  OBVIOUS
<1>8. j # 0
  BY <1>1, <1>2, <1>7
<1>9. j - 1 \in 0..k /\ j \in 1..Cardinality(Nodes) /\ j \in Nat /\ j - 1 < analysed.depth
  BY <1>1, <1>2, <1>7, <1>8
<1>10. r[j - 1] = Ball(j - 1)
  <2>1. j - 1 \notin T
    <3>1. ~ (j <= j - 1)
      BY <1>9
    <3> HIDE DEF T
    <3> QED BY <1>6, <3>1
  <2> QED BY <1>9, <2>1
<1>11. r[j] = r[j - 1] \cup Ends(analysed, r[j - 1])
  BY <1>1, <1>9
<1>12. ASSUME NEW n \in r[j] PROVE n \in Ball(j)
  <2>1. CASE n \in r[j - 1]
    BY <1>2, <1>9, <1>10, <2>1
  <2>2. CASE n \in Ends(analysed, r[j - 1])
    <3>1. PICK e \in analysed.edges : analysed.src[e] \in Ball(j - 1) /\ n = analysed.dst[e]
      BY <1>10, <2>2 DEF Ends
    <3>2. f[analysed.src[e]] < analysed.depth /\ f[analysed.src[e]] \in Nat
      BY <1>2, <1>9, <3>1
    <3>3. Follows(analysed, f, analysed.src[e], e)
      BY <1>3, <3>1, <3>2
    <3> QED BY <1>2, <1>9, <3>1, <3>2, <3>3 DEF Follows
  <2> QED BY <1>11, <1>12, <2>1, <2>2
<1>13. ASSUME NEW n \in Ball(j) PROVE n \in r[j]
  <2>1. CASE f[n] <= j - 1
    BY <1>10, <1>11, <2>1
  <2>2. CASE ~ (f[n] <= j - 1)
    <3>1. f[n] = j /\ f[n] > 0
      BY <1>2, <1>9, <2>2
    <3>2. PICK e \in analysed.edges :
            analysed.src[e] \in DOMAIN f /\ analysed.dst[e] = n /\ f[n] = f[analysed.src[e]] + 1
      BY <1>2, <3>1
    <3>3. analysed.src[e] \in r[j - 1]
      BY <1>2, <1>9, <1>10, <3>1, <3>2
    <3> QED BY <1>11, <3>2, <3>3 DEF Ends
  <2> QED BY <2>1, <2>2
<1> QED BY <1>7, <1>12, <1>13

LEMMA SearchIsWhole ==
  ASSUME analysed \in A!Query, NEW c \in Nodes, NEW f, Searched(analysed, c, f)
  PROVE  /\ DOMAIN f = A!Reach(c)[A!Smaller(analysed.depth, Cardinality(Nodes))]
         /\ \A n \in DOMAIN f : f[n] \in 0..Cardinality(Nodes) /\ f[n] <= analysed.depth
<1> DEFINE k == A!Smaller(analysed.depth, Cardinality(Nodes))
<1>1. /\ Cardinality(DOMAIN f) <= Cardinality(Nodes) /\ Cardinality(Nodes) \in Nat
      /\ Cardinality(DOMAIN f) \in Nat
  BY LineageAssumption, FS_Subset, FS_CardinalityType DEF Searched, Search, Found
<1>2. k \in 0..Cardinality(Nodes) /\ k <= analysed.depth /\ analysed.depth \in Nat
  BY <1>1, GraphIs DEF A!Smaller
<1>3. \A n \in DOMAIN f : /\ f[n] \in Nat /\ f[n] <= analysed.depth /\ f[n] <= Cardinality(Nodes)
                          /\ f[n] <= k
  BY <1>1, <1>2 DEF Searched, Search, Found, A!Smaller
<1>4. A!Reach(c)[k] = {n \in DOMAIN f : f[n] <= k}
  <2> HIDE DEF k
  <2> QED BY <1>2, ReachIsFound
<1> QED BY <1>1, <1>3, <1>4

-----------------------------------------------------------------------------
(* What every turn of the analysis preserves.                               *)

Source == analysed.changes[change]

Lengths == [n \in DOMAIN path |-> Len(path[n].edges)]

PathTo(c, n, p) ==
    /\ p.nodes \in Seq(Nodes) /\ p.edges \in Seq(EdgeIds)
    /\ Len(p.nodes) = Len(p.edges) + 1
    /\ p.nodes[1] = c /\ p.nodes[Len(p.nodes)] = n
    /\ \A i \in 1..Len(p.edges) :
         /\ p.edges[i] \in analysed.edges
         /\ analysed.src[p.edges[i]] = p.nodes[i] /\ analysed.dst[p.edges[i]] = p.nodes[i + 1]

Evident(c, n, p) ==
    /\ PathTo(c, n, p)
    /\ Len(p.edges) \in 1..Cardinality(Nodes) /\ Len(p.edges) <= analysed.depth
    /\ n \in A!Reach(c)[Len(p.edges)]
    /\ n \notin A!Reach(c)[Len(p.edges) - 1]

FindingIs(g) ==
    /\ g.change \in 1..Len(analysed.changes)
    /\ \/ /\ analysed.changes[g.change] \in Nodes /\ g.object \in Nodes
          /\ Evident(analysed.changes[g.change], g.object, g.path)
       \/ analysed.changes[g.change] = Unknown /\ g.object = Unknown

ObjectsOf(i) == {f.object : f \in {g \in findings : g.change = i}}

Named(i) ==
    ObjectsOf(i) = IF analysed.changes[i] = Unknown THEN {Unknown}
                   ELSE A!Reach(analysed.changes[i])[A!Smaller(analysed.depth, Cardinality(Nodes))]
                            \ {analysed.changes[i]}

Reported ==
    /\ \A g \in findings : g.change < change /\ FindingIs(g)
    /\ \A i \in 1..(change - 1) : Named(i)

Searching ==
    \/ phase = "traverse" /\ Search(analysed, Source, reached, frontier, expanded, pending)
    \/ /\ phase = "evidence" /\ Searched(analysed, Source, reached)
       /\ Search(analysed, Source, Lengths, frontier, expanded, pending)
       /\ \A n \in DOMAIN path : PathTo(Source, n, path[n])
    \/ /\ phase = "report"
       /\ Searched(analysed, Source, reached) /\ Searched(analysed, Source, Lengths)
       /\ \A n \in DOMAIN path : PathTo(Source, n, path[n])

AnalysisInv ==
    /\ analysed \in A!Query
    /\ change \in 1..Len(analysed.changes) + 1
    /\ \/ phase \in {"traverse", "evidence", "report"}
          /\ change <= Len(analysed.changes) /\ Source \in Nodes
          /\ Searching
       \/ phase = "next"
       \/ phase = "done" /\ change > Len(analysed.changes)
    /\ phase \notin {"traverse", "evidence"} => expanded = NoNode /\ frontier = <<>> /\ pending = {}
    /\ Reported

LEMMA AnalysedStays ==
  ASSUME analysed' = analysed
  PROVE  /\ \A c : A!Reach(c)' = A!Reach(c)
         /\ \A c, n, p : PathTo(c, n, p)' = PathTo(c, n, p)
         /\ \A g : FindingIs(g)' = FindingIs(g)
         /\ change' = change => Source' = Source
         /\ findings' = findings => \A i : Named(i)' = Named(i)
         /\ path' = path => Lengths' = Lengths
<1>1. \A c : A!Reach(c)' = A!Reach(c)
  BY DEF A!Reach
<1>2. \A c, n, p : PathTo(c, n, p)' = PathTo(c, n, p)
  BY DEF PathTo
<1>3. \A c, n, p : Evident(c, n, p)' = Evident(c, n, p)
  BY <1>1, <1>2 DEF Evident
<1>4. \A g : FindingIs(g)' = FindingIs(g)
  BY <1>3 DEF FindingIs
<1>5. findings' = findings => \A i : Named(i)' = Named(i)
  BY <1>1 DEF Named, ObjectsOf
<1> QED BY <1>1, <1>2, <1>4, <1>5 DEF Source, Lengths

(* A step that finds no impact and stays with its change leaves the report. *)
LEMMA ReportedStays ==
  ASSUME AnalysisInv, UNCHANGED <<analysed, change, findings>>
  PROVE  Reported' /\ Source' = Source /\ analysed' \in A!Query
         /\ change' \in 1..Len(analysed'.changes) + 1
  BY AnalysedStays DEF AnalysisInv, Reported

LEMMA TheChange ==
  ASSUME AnalysisInv, change <= Len(analysed.changes)
  PROVE  /\ Source \in Nodes \cup {Unknown} /\ A!Changed = Source
         /\ change \in 1..Len(analysed.changes) /\ Len(analysed.changes) \in Nat
<1>1. analysed.changes \in Seq(Nodes \cup {Unknown}) /\ change \in 1..Len(analysed.changes)
  BY DEF AnalysisInv, A!Query
<1> QED BY <1>1 DEF Source, A!Changed

(* The loop over the changes.                                               *)
LEMMA NextChangeStep ==
  ASSUME AnalysisInv, A!NextChange
  PROVE  AnalysisInv'
<1>1. /\ UNCHANGED <<analysed, change, path, expanded, pending, findings>>
      /\ phase = "next" /\ phase' = "traverse" /\ change <= Len(analysed.changes)
      /\ A!Changed \in Nodes
      /\ reached' = [n \in {A!Changed} |-> 0]
      /\ frontier' = <<[node |-> A!Changed, depth |-> 0]>>
  BY DEF A!NextChange
<1>2. A!Changed = Source /\ Source \in Nodes
  BY <1>1, TheChange
<1>3. /\ Reported' /\ Source' = Source /\ analysed' \in A!Query
      /\ change' \in 1..Len(analysed'.changes) + 1
  BY <1>1, ReportedStays
<1>4. expanded = NoNode /\ pending = {} /\ analysed \in A!Query
  BY <1>1 DEF AnalysisInv
<1>5. Search(analysed', Source', reached', frontier', expanded', pending')
  <2>1. Search(analysed, Source, [n \in {Source} |-> 0], <<[node |-> Source, depth |-> 0]>>, NoNode, {})
    BY <1>2, <1>4, SearchStarts
  <2> QED BY <1>1, <1>2, <1>3, <1>4, <2>1
<1>6. Searching'
  BY <1>1, <1>5 DEF Searching
<1> QED BY <1>1, <1>2, <1>3, <1>6 DEF AnalysisInv

LEMMA UnknownSourceStep ==
  ASSUME AnalysisInv, A!UnknownSource
  PROVE  AnalysisInv'
<1> DEFINE new == [change |-> change, object |-> Source, path |-> A!NoPath]
<1>1. /\ UNCHANGED <<analysed, phase, reached, path, frontier, expanded, pending>>
      /\ phase = "next" /\ change <= Len(analysed.changes) /\ A!Changed \notin Nodes
      /\ findings' = findings \cup {[change |-> change, object |-> A!Changed, path |-> A!NoPath]}
      /\ change' = change + 1
  BY DEF A!UnknownSource
<1>2. /\ A!Changed = Source /\ Source = Unknown /\ change \in 1..Len(analysed.changes)
      /\ Len(analysed.changes) \in Nat
  BY <1>1, TheChange
<1>3. findings' = findings \cup {new}
  BY <1>1, <1>2
<1>4. ASSUME NEW g \in findings' PROVE g.change < change' /\ FindingIs(g)'
  <2>1. CASE g \in findings
    <3>1. g.change < change /\ FindingIs(g)
      BY <2>1 DEF AnalysisInv, Reported
    <3> QED BY <1>1, <1>2, <3>1, AnalysedStays DEF FindingIs
  <2>2. CASE g = new
    <3>1. FindingIs(g)
      BY <1>2, <2>2 DEF FindingIs, Source
    <3> QED BY <1>1, <1>2, <2>2, <3>1, AnalysedStays
  <2> QED BY <1>3, <2>1, <2>2
<1>5. ASSUME NEW i \in 1..(change' - 1) PROVE Named(i)'
  <2>1. i \in 1..(change - 1) \/ i = change
    BY <1>1, <1>2
  <2>2. CASE i \in 1..(change - 1)
    <3>1. Named(i)
      BY <2>2 DEF AnalysisInv, Reported
    <3>2. {g \in findings' : g.change = i} = {g \in findings : g.change = i}
      BY <1>2, <1>3, <2>2
    <3>3. \A c : A!Reach(c)' = A!Reach(c)
      BY <1>1, AnalysedStays
    <3> QED BY <1>1, <3>1, <3>2, <3>3 DEF Named, ObjectsOf
  <2>3. CASE i = change
    <3>1. \A g \in findings : g.change # change
      BY <1>2 DEF AnalysisInv, Reported, FindingIs
    <3>2. {g \in findings' : g.change = i} = {new}
      BY <1>3, <2>3, <3>1
    <3>3. ObjectsOf(i)' = {Unknown}
      <4>1. new.object = Unknown
        BY <1>2
      <4> HIDE DEF new
      <4> QED BY <3>2, <4>1 DEF ObjectsOf
    <3>4. analysed'.changes[i] = Unknown
      BY <1>1, <1>2, <2>3 DEF Source
    <3> QED BY <3>3, <3>4 DEF Named
  <2> QED BY <2>1, <2>2, <2>3
<1>6. Reported'
  BY <1>4, <1>5 DEF Reported
<1> QED BY <1>1, <1>2, <1>6 DEF AnalysisInv

LEMMA FinishStep ==
  ASSUME AnalysisInv, A!Finish
  PROVE  AnalysisInv'
<1>1. /\ UNCHANGED <<analysed, change, reached, path, frontier, expanded, pending, findings>>
      /\ phase = "next" /\ phase' = "done" /\ change > Len(analysed.changes)
  BY DEF A!Finish
<1>2. /\ Reported' /\ Source' = Source /\ analysed' \in A!Query
      /\ change' \in 1..Len(analysed'.changes) + 1
  BY <1>1, ReportedStays
<1> QED BY <1>1, <1>2 DEF AnalysisInv

(* Taking an entry from the queue.                                          *)
LEMMA TakeStep ==
  ASSUME AnalysisInv, NEW f,
         Search(analysed, Source, f, frontier, expanded, pending),
         A!Take(Head(frontier).depth >= analysed.depth)
  PROVE  Search(analysed, Source, f, frontier', expanded', pending')
<1>1. expanded = NoNode /\ frontier # <<>> /\ frontier' = Tail(frontier)
  BY DEF A!Take
<1>2. pending = {} /\ analysed \in A!Query
  BY <1>1, ReviewAssumption DEF Search, InHand, AnalysisInv, A!Entry
<1>3. frontier \in Seq(A!Entry) /\ analysed.depth \in Nat
  BY <1>2, GraphIs DEF Search, InQueue
<1>4. Head(frontier).depth \in Nat
  <2>1. Head(frontier) \in A!Entry
    BY <1>1, <1>3
  <2> QED BY <2>1 DEF A!Entry
<1>5. CASE Head(frontier).depth >= analysed.depth
  BY <1>1, <1>2, <1>5, SearchTakes DEF A!Take
<1>6. CASE ~ (Head(frontier).depth >= analysed.depth)
  <2>1. expanded' = Head(frontier) /\ pending' = Out(analysed, Head(frontier).node)
    BY <1>6 DEF A!Take, A!Outgoing, Out
  <2>2. Head(frontier).depth < analysed.depth
    BY <1>3, <1>4, <1>6
  <2> QED BY <1>1, <1>2, <2>1, <2>2, SearchTakes
<1> QED BY <1>5, <1>6

LEMMA TraverseNodeStep ==
  ASSUME AnalysisInv, A!TraverseNode
  PROVE  AnalysisInv'
<1>1. /\ UNCHANGED <<analysed, change, phase, reached, path, findings>>
      /\ phase = "traverse" /\ A!Take(Head(frontier).depth >= analysed.depth)
  BY DEF A!TraverseNode, A!TraverseStops
<1>2. /\ Search(analysed, Source, reached, frontier, expanded, pending)
      /\ change <= Len(analysed.changes) /\ Source \in Nodes
  BY <1>1 DEF AnalysisInv, Searching
<1>3. /\ Reported' /\ Source' = Source /\ analysed' \in A!Query
      /\ change' \in 1..Len(analysed'.changes) + 1
  BY <1>1, ReportedStays
<1>4. Search(analysed', Source', reached', frontier', expanded', pending')
  <2>1. Search(analysed, Source, reached, frontier', expanded', pending')
    BY <1>1, <1>2, TakeStep
  <2> QED BY <1>1, <1>3, <2>1
<1> QED BY <1>1, <1>2, <1>3, <1>4 DEF AnalysisInv, Searching

LEMMA EvidenceNodeStep ==
  ASSUME AnalysisInv, A!EvidenceNode
  PROVE  AnalysisInv'
<1>1. /\ UNCHANGED <<analysed, change, phase, reached, path, findings>>
      /\ phase = "evidence" /\ A!Take(Head(frontier).depth >= analysed.depth)
  BY DEF A!EvidenceNode, A!EvidenceStops
<1>2. /\ Search(analysed, Source, Lengths, frontier, expanded, pending)
      /\ Searched(analysed, Source, reached)
      /\ \A n \in DOMAIN path : PathTo(Source, n, path[n])
      /\ change <= Len(analysed.changes) /\ Source \in Nodes
  BY <1>1 DEF AnalysisInv, Searching
<1>3. /\ Reported' /\ Source' = Source /\ analysed' \in A!Query
      /\ change' \in 1..Len(analysed'.changes) + 1
      /\ Lengths' = Lengths /\ \A c, n, p : PathTo(c, n, p)' = PathTo(c, n, p)
  BY <1>1, ReportedStays, AnalysedStays
<1>4. Search(analysed', Source', Lengths', frontier', expanded', pending')
  <2>1. Search(analysed, Source, Lengths, frontier', expanded', pending')
    BY <1>1, <1>2, TakeStep
  <2> QED BY <1>1, <1>3, <2>1
<1>5. \A n \in DOMAIN path' : PathTo(Source, n, path[n])'
  BY <1>1, <1>2, <1>3
<1>6. Searched(analysed', Source', reached')
  BY <1>1, <1>2, <1>3
<1>7. Searching'
  BY <1>1, <1>4, <1>5, <1>6 DEF Searching
<1> QED BY <1>1, <1>2, <1>3, <1>7 DEF AnalysisInv

(* Looking at an edge.                                                      *)
LEMMA TraverseEdgeStep ==
  ASSUME AnalysisInv, NEW e, A!TraverseEdge(e)
  PROVE  AnalysisInv'
<1>1. /\ UNCHANGED <<analysed, change, phase, path, expanded, findings>>
      /\ phase = "traverse" /\ expanded # NoNode /\ e \in pending /\ pending' = pending \ {e}
      /\ IF A!Nearer(analysed.dst[e], expanded.depth + 1)
         THEN /\ reached' = Adding(reached, analysed.dst[e], expanded.depth + 1)
              /\ frontier' = Append(frontier, [node |-> analysed.dst[e], depth |-> expanded.depth + 1])
         ELSE UNCHANGED <<reached, frontier>>
  BY DEF A!TraverseEdge, A!NextEdge, A!Enqueue, Adding
<1>2. /\ Search(analysed, Source, reached, frontier, expanded, pending)
      /\ change <= Len(analysed.changes) /\ Source \in Nodes /\ analysed \in A!Query
  BY <1>1 DEF AnalysisInv, Searching
<1>3. /\ Reported' /\ Source' = Source /\ analysed' \in A!Query
      /\ change' \in 1..Len(analysed'.changes) + 1
  BY <1>1, ReportedStays
<1>4. Search(analysed, Source, reached', frontier', expanded, pending \ {e})
  <2>1. CASE analysed.dst[e] \in DOMAIN reached
    <3>1. ~ (expanded.depth + 1 < reached[analysed.dst[e]])
          /\ Search(analysed, Source, reached, frontier, expanded, pending \ {e})
      BY <1>1, <1>2, <2>1, SearchSkips
    <3>2. UNCHANGED <<reached, frontier>>
      BY <1>1, <2>1, <3>1 DEF A!Nearer
    <3> QED BY <3>1, <3>2
  <2>2. CASE analysed.dst[e] \notin DOMAIN reached
    <3>1. /\ reached' = Adding(reached, analysed.dst[e], expanded.depth + 1)
          /\ frontier' = Append(frontier, [node |-> analysed.dst[e], depth |-> expanded.depth + 1])
      BY <1>1, <2>2 DEF A!Nearer
    <3>2. Search(analysed, Source, Adding(reached, analysed.dst[e], expanded.depth + 1),
                 Append(frontier, [node |-> analysed.dst[e], depth |-> expanded.depth + 1]),
                 expanded, pending \ {e})
      BY <1>1, <1>2, <2>2, SearchFinds
    <3> QED BY <3>1, <3>2
  <2> QED BY <2>1, <2>2
<1>5. Search(analysed', Source', reached', frontier', expanded', pending')
  BY <1>1, <1>3, <1>4
<1> QED BY <1>1, <1>2, <1>3, <1>5 DEF AnalysisInv, Searching

(* Following an edge lengthens a path by it.                                *)
LEMMA PathGrows ==
  ASSUME analysed \in A!Query, NEW c, NEW n, NEW p, PathTo(c, n, p),
         NEW e \in analysed.edges, analysed.src[e] = n
  PROVE  /\ PathTo(c, analysed.dst[e], A!Extended(p, e))
         /\ Len(A!Extended(p, e).edges) = Len(p.edges) + 1
<1> DEFINE x == A!Extended(p, e)
           m == analysed.dst[e]
<1>1. x.nodes = Append(p.nodes, m) /\ x.edges = Append(p.edges, e)
  BY DEF A!Extended
<1>2. /\ p.nodes \in Seq(Nodes) /\ p.edges \in Seq(EdgeIds) /\ Len(p.nodes) = Len(p.edges) + 1
      /\ p.nodes[1] = c /\ p.nodes[Len(p.nodes)] = n
      /\ m \in Nodes /\ e \in EdgeIds
  BY GraphIs DEF PathTo
<1> HIDE DEF x, m
<1>3. /\ x.nodes \in Seq(Nodes) /\ x.edges \in Seq(EdgeIds)
      /\ Len(x.nodes) = Len(p.nodes) + 1 /\ Len(x.edges) = Len(p.edges) + 1
      /\ \A i \in 1..Len(p.nodes) : x.nodes[i] = p.nodes[i]
      /\ \A i \in 1..Len(p.edges) : x.edges[i] = p.edges[i]
      /\ x.nodes[Len(p.nodes) + 1] = m /\ x.edges[Len(p.edges) + 1] = e
  BY <1>1, <1>2
<1>4. /\ Len(p.edges) \in Nat /\ Len(p.nodes) \in Nat /\ 1 \in 1..Len(p.nodes)
      /\ Len(p.nodes) \in 1..Len(p.nodes)
  BY <1>2
<1>5. x.nodes[1] = c /\ x.nodes[Len(x.nodes)] = m /\ Len(x.nodes) = Len(x.edges) + 1
  BY <1>2, <1>3, <1>4
<1>6. ASSUME NEW i \in 1..Len(x.edges)
      PROVE  /\ x.edges[i] \in analysed.edges
             /\ analysed.src[x.edges[i]] = x.nodes[i] /\ analysed.dst[x.edges[i]] = x.nodes[i + 1]
  <2>1. CASE i \in 1..Len(p.edges)
    <3>1. i \in 1..Len(p.nodes) /\ i + 1 \in 1..Len(p.nodes)
      BY <1>2, <1>4, <2>1
    <3>2. /\ p.edges[i] \in analysed.edges
          /\ analysed.src[p.edges[i]] = p.nodes[i] /\ analysed.dst[p.edges[i]] = p.nodes[i + 1]
      BY <2>1 DEF PathTo
    <3> QED BY <1>3, <2>1, <3>1, <3>2
  <2>2. CASE i = Len(p.edges) + 1
    <3>1. x.edges[i] = e /\ x.nodes[i] = n /\ x.nodes[i + 1] = m
      BY <1>2, <1>3, <1>4, <2>2
    <3> QED BY <3>1 DEF m
  <2> QED BY <1>3, <1>4, <2>1, <2>2
<1> QED BY <1>3, <1>5, <1>6 DEF PathTo, x, m

LEMMA EvidenceEdgeStep ==
  ASSUME AnalysisInv, NEW e, A!EvidenceEdge(e)
  PROVE  AnalysisInv'
<1>1. /\ UNCHANGED <<analysed, change, phase, reached, expanded, findings>>
      /\ phase = "evidence" /\ expanded # NoNode /\ e \in pending /\ pending' = pending \ {e}
  BY DEF A!EvidenceEdge, A!NextEdge
<1>2. PICK n : n = analysed.dst[e]
  OBVIOUS
<1>3. PICK p : p = A!Extended(path[expanded.node], e)
  OBVIOUS
<1>4. IF n \notin DOMAIN path
      THEN /\ path' = [m \in DOMAIN path \cup {n} |-> IF m = n THEN p ELSE path[m]]
           /\ frontier' = Append(frontier, [node |-> n, depth |-> expanded.depth + 1])
      ELSE UNCHANGED <<path, frontier>>
  BY <1>2, <1>3 DEF A!EvidenceEdge, A!PathIsNew, A!Enqueue
<1>5. /\ Search(analysed, Source, Lengths, frontier, expanded, pending)
      /\ Searched(analysed, Source, reached)
      /\ \A m \in DOMAIN path : PathTo(Source, m, path[m])
      /\ change <= Len(analysed.changes) /\ Source \in Nodes /\ analysed \in A!Query
  BY <1>1 DEF AnalysisInv, Searching
<1>6. /\ Reported' /\ Source' = Source /\ analysed' \in A!Query
      /\ change' \in 1..Len(analysed'.changes) + 1
      /\ \A c, m, s : PathTo(c, m, s)' = PathTo(c, m, s)
  BY <1>1, ReportedStays, AnalysedStays
<1>7. DOMAIN Lengths = DOMAIN path /\ \A m \in DOMAIN path : Lengths[m] = Len(path[m].edges)
  BY DEF Lengths
<1>8. /\ expanded.node \in DOMAIN path /\ expanded.depth = Lengths[expanded.node]
      /\ e \in analysed.edges /\ analysed.src[e] = expanded.node
  BY <1>1, <1>5, <1>7 DEF Search, InHand, Out
<1>9. PathTo(Source, n, p) /\ Len(p.edges) = expanded.depth + 1
  <2>1. PathTo(Source, expanded.node, path[expanded.node])
    BY <1>5, <1>8
  <2>2. /\ PathTo(Source, analysed.dst[e], A!Extended(path[expanded.node], e))
        /\ Len(A!Extended(path[expanded.node], e).edges) = Len(path[expanded.node].edges) + 1
    BY <1>5, <1>8, <2>1, PathGrows
  <2> QED BY <1>2, <1>3, <1>7, <1>8, <2>2
<1>10. /\ Search(analysed, Source, Lengths', frontier', expanded, pending \ {e})
       /\ \A m \in DOMAIN path' : PathTo(Source, m, path'[m])
  <2>1. CASE n \in DOMAIN path
    <3>1. UNCHANGED <<path, frontier>> /\ Lengths' = Lengths
      BY <1>4, <2>1 DEF Lengths
    <3>2. Search(analysed, Source, Lengths, frontier, expanded, pending \ {e})
      BY <1>1, <1>2, <1>5, <1>7, <2>1, SearchSkips
    <3> QED BY <1>5, <3>1, <3>2
  <2>2. CASE n \notin DOMAIN path
    <3>1. /\ path' = [m \in DOMAIN path \cup {n} |-> IF m = n THEN p ELSE path[m]]
          /\ frontier' = Append(frontier, [node |-> n, depth |-> expanded.depth + 1])
      BY <1>4, <2>2
    <3>2. Lengths' = Adding(Lengths, n, expanded.depth + 1)
      BY <1>7, <1>9, <3>1 DEF Adding, Lengths
    <3>3. Search(analysed, Source, Adding(Lengths, n, expanded.depth + 1),
                 Append(frontier, [node |-> n, depth |-> expanded.depth + 1]),
                 expanded, pending \ {e})
      BY <1>1, <1>2, <1>5, <1>7, <2>2, SearchFinds
    <3>4. \A m \in DOMAIN path' : PathTo(Source, m, path'[m])
      BY <1>5, <1>9, <3>1
    <3> QED BY <3>1, <3>2, <3>3, <3>4
  <2> QED BY <2>1, <2>2
<1>11. Search(analysed', Source', Lengths', frontier', expanded', pending')
  BY <1>1, <1>6, <1>10
<1>12. \A m \in DOMAIN path' : PathTo(Source, m, path[m])'
  BY <1>6, <1>10
<1>13. Searched(analysed', Source', reached')
  BY <1>1, <1>5, <1>6
<1>14. Searching'
  BY <1>1, <1>11, <1>12, <1>13 DEF Searching
<1> QED BY <1>1, <1>5, <1>6, <1>14 DEF AnalysisInv

LEMMA ExpandedStep ==
  ASSUME AnalysisInv, A!Expanded
  PROVE  AnalysisInv'
<1>1. /\ UNCHANGED <<analysed, change, phase, reached, path, frontier, pending, findings>>
      /\ phase \in {"traverse", "evidence"}
      /\ pending = {} /\ expanded' = NoNode
  BY DEF A!Expanded
<1>2. Searching /\ change <= Len(analysed.changes) /\ Source \in Nodes /\ analysed \in A!Query
  BY <1>1 DEF AnalysisInv
<1>3. /\ Reported' /\ Source' = Source /\ analysed' \in A!Query
      /\ change' \in 1..Len(analysed'.changes) + 1
      /\ Lengths' = Lengths /\ \A c, n, p : PathTo(c, n, p)' = PathTo(c, n, p)
  BY <1>1, ReportedStays, AnalysedStays
<1>4. ASSUME NEW f, Search(analysed, Source, f, frontier, expanded, pending)
      PROVE  Search(analysed', Source', f, frontier', expanded', pending')
  <2>1. Search(analysed, Source, f, frontier, NoNode, {})
    BY <1>1, <1>2, <1>4, SearchPutsAway
  <2> QED BY <1>1, <1>3, <2>1
<1>5. CASE phase = "traverse"
  <2>1. Search(analysed', Source', reached', frontier', expanded', pending')
    BY <1>1, <1>2, <1>4, <1>5 DEF Searching
  <2>2. Searching'
    BY <1>1, <1>5, <2>1 DEF Searching
  <2> QED BY <1>1, <1>2, <1>3, <1>5, <2>2 DEF AnalysisInv
<1>6. CASE phase = "evidence"
  <2>1. Search(analysed', Source', Lengths', frontier', expanded', pending')
    BY <1>1, <1>2, <1>3, <1>4, <1>6 DEF Searching
  <2>2. \A n \in DOMAIN path' : PathTo(Source, n, path[n])'
    BY <1>1, <1>2, <1>3, <1>6 DEF Searching
  <2>3. Searched(analysed', Source', reached')
    BY <1>1, <1>2, <1>3, <1>6 DEF Searching
  <2>4. Searching'
    BY <1>1, <1>6, <2>1, <2>2, <2>3 DEF Searching
  <2> QED BY <1>1, <1>2, <1>3, <1>6, <2>4 DEF AnalysisInv
<1> QED BY <1>1, <1>5, <1>6

(* A search ends when its queue is empty, and the next one starts.           *)
LEMMA StartEvidenceStep ==
  ASSUME AnalysisInv, A!StartEvidence
  PROVE  AnalysisInv'
<1>1. /\ UNCHANGED <<analysed, change, reached, expanded, pending, findings>>
      /\ phase = "traverse" /\ phase' = "evidence" /\ expanded = NoNode /\ frontier = <<>>
      /\ path' = [n \in {A!Changed} |-> [nodes |-> <<A!Changed>>, edges |-> <<>>]]
      /\ frontier' = <<[node |-> A!Changed, depth |-> 0]>>
  BY DEF A!StartEvidence, A!SearchEnds
<1>2. /\ Search(analysed, Source, reached, frontier, expanded, pending)
      /\ change <= Len(analysed.changes) /\ Source \in Nodes /\ analysed \in A!Query
      /\ A!Changed = Source
  BY <1>1, TheChange DEF AnalysisInv, Searching
<1>3. /\ Reported' /\ Source' = Source /\ analysed' \in A!Query
      /\ change' \in 1..Len(analysed'.changes) + 1
      /\ \A c, n, p : PathTo(c, n, p)' = PathTo(c, n, p)
  BY <1>1, ReportedStays, AnalysedStays
<1>4. pending = {}
  BY <1>1, <1>2, ReviewAssumption DEF Search, InHand, A!Entry
<1>5. Searched(analysed', Source', reached')
  BY <1>1, <1>2, <1>3, <1>4 DEF Searched
<1>6. DOMAIN path' = {Source} /\ path'[Source] = [nodes |-> <<Source>>, edges |-> <<>>]
  BY <1>1, <1>2
<1>7. Lengths' = [n \in {Source} |-> 0]
  BY <1>6 DEF Lengths
<1>8. PathTo(Source, Source, [nodes |-> <<Source>>, edges |-> <<>>])
  BY <1>2 DEF PathTo
<1>9. \A n \in DOMAIN path' : PathTo(Source, n, path[n])'
  BY <1>3, <1>6, <1>8
<1>10. Search(analysed', Source', Lengths', frontier', expanded', pending')
  <2>1. Search(analysed, Source, [n \in {Source} |-> 0], <<[node |-> Source, depth |-> 0]>>, NoNode, {})
    BY <1>2, SearchStarts
  <2> QED BY <1>1, <1>2, <1>3, <1>4, <1>7, <2>1
<1>11. Searching'
  BY <1>1, <1>5, <1>9, <1>10 DEF Searching
<1> QED BY <1>1, <1>2, <1>3, <1>11 DEF AnalysisInv

LEMMA EndEvidenceStep ==
  ASSUME AnalysisInv, A!EndEvidence
  PROVE  AnalysisInv'
<1>1. /\ UNCHANGED <<analysed, change, reached, path, frontier, expanded, pending, findings>>
      /\ phase = "evidence" /\ phase' = "report" /\ expanded = NoNode /\ frontier = <<>>
  BY DEF A!EndEvidence, A!SearchEnds
<1>2. /\ Search(analysed, Source, Lengths, frontier, expanded, pending)
      /\ Searched(analysed, Source, reached)
      /\ \A n \in DOMAIN path : PathTo(Source, n, path[n])
      /\ change <= Len(analysed.changes) /\ Source \in Nodes
  BY <1>1 DEF AnalysisInv, Searching
<1>3. /\ Reported' /\ Source' = Source /\ analysed' \in A!Query
      /\ change' \in 1..Len(analysed'.changes) + 1
      /\ Lengths' = Lengths /\ \A c, n, p : PathTo(c, n, p)' = PathTo(c, n, p)
  BY <1>1, ReportedStays, AnalysedStays
<1>4. pending = {}
  BY <1>1, <1>2, ReviewAssumption DEF Search, InHand, A!Entry
<1>5. Searched(analysed', Source', reached') /\ Searched(analysed', Source', Lengths')
  BY <1>1, <1>2, <1>3, <1>4 DEF Searched
<1>6. \A n \in DOMAIN path' : PathTo(Source, n, path[n])'
  BY <1>1, <1>2, <1>3
<1>7. Searching'
  BY <1>1, <1>5, <1>6 DEF Searching
<1> QED BY <1>1, <1>2, <1>3, <1>4, <1>7 DEF AnalysisInv

(* Both searches are over: they found the same objects.                     *)
LEMMA SearchesAgree ==
  ASSUME AnalysisInv, phase = "report"
  PROVE  /\ DOMAIN reached = DOMAIN path
         /\ DOMAIN path = A!Reach(Source)[A!Smaller(analysed.depth, Cardinality(Nodes))]
         /\ \A n \in DOMAIN path \ {Source} : Evident(Source, n, path[n])
<1>1. /\ analysed \in A!Query /\ Source \in Nodes
      /\ Searched(analysed, Source, reached) /\ Searched(analysed, Source, Lengths)
      /\ \A n \in DOMAIN path : PathTo(Source, n, path[n])
  BY DEF AnalysisInv, Searching
<1>2. DOMAIN Lengths = DOMAIN path /\ \A n \in DOMAIN path : Lengths[n] = Len(path[n].edges)
  BY DEF Lengths
<1>3. /\ DOMAIN reached = A!Reach(Source)[A!Smaller(analysed.depth, Cardinality(Nodes))]
      /\ DOMAIN path = A!Reach(Source)[A!Smaller(analysed.depth, Cardinality(Nodes))]
      /\ \A n \in DOMAIN path : Lengths[n] \in 0..Cardinality(Nodes) /\ Lengths[n] <= analysed.depth
  BY <1>1, <1>2, SearchIsWhole
<1>4. ASSUME NEW n \in DOMAIN path \ {Source} PROVE Evident(Source, n, path[n])
  <2>1. PICK k : k = Lengths[n]
    OBVIOUS
  <2>2. /\ k \in 1..Cardinality(Nodes) /\ k <= analysed.depth
        /\ k - 1 \in 0..Cardinality(Nodes) /\ k - 1 <= analysed.depth /\ k \in 0..Cardinality(Nodes)
        /\ ~ (k <= k - 1) /\ k <= k
    <3>1. k # 0
      BY <1>1, <1>2, <1>4, <2>1 DEF Searched, Search, Found
    <3>2. Cardinality(Nodes) \in Nat /\ analysed.depth \in Nat
      BY <1>1, LineageAssumption, FS_CardinalityType, GraphIs
    <3> QED BY <1>3, <2>1, <3>1, <3>2
  <2>3. n \in A!Reach(Source)[k]
    BY <1>1, <1>2, <2>1, <2>2, ReachIsFound
  <2>4. n \notin A!Reach(Source)[k - 1]
    BY <1>1, <1>2, <2>1, <2>2, ReachIsFound
  <2> QED BY <1>1, <1>2, <2>1, <2>2, <2>3, <2>4 DEF Evident
<1> QED BY <1>3, <1>4

LEMMA ReportStep ==
  ASSUME AnalysisInv, A!Report
  PROVE  AnalysisInv'
<1>1. /\ UNCHANGED <<analysed, reached, path, frontier, expanded, pending>> /\ phase = "report"
  BY DEF A!Report
<1>2. /\ change <= Len(analysed.changes) /\ Source \in Nodes /\ analysed \in A!Query
      /\ A!Changed = Source /\ change \in 1..Len(analysed.changes) /\ Len(analysed.changes) \in Nat
      /\ analysed.changes[change] = Source
  BY <1>1, TheChange DEF AnalysisInv, Source
<1>3. /\ DOMAIN reached = DOMAIN path
      /\ DOMAIN path = A!Reach(Source)[A!Smaller(analysed.depth, Cardinality(Nodes))]
      /\ \A n \in DOMAIN path \ {Source} : Evident(Source, n, path[n])
  BY <1>1, SearchesAgree
<1>4. DOMAIN path \subseteq Nodes
  BY <1>1, <1>3 DEF AnalysisInv, Searching, Searched, Search, Found
<1> DEFINE impacted == DOMAIN path \ {Source}
           New(n) == [change |-> change, object |-> n, path |-> path[n]]
<1>5. /\ findings' = findings \cup {New(n) : n \in impacted}
      /\ change' = change + 1 /\ phase' = "next"
  BY <1>2, <1>3 DEF A!Report, A!Impacted
<1>6. \A n : New(n).change = change /\ New(n).object = n /\ New(n).path = path[n]
  OBVIOUS
<1> HIDE DEF New, impacted
<1>7. ASSUME NEW g \in findings' PROVE g.change < change' /\ FindingIs(g)'
  <2>1. CASE g \in findings
    <3>1. g.change < change /\ FindingIs(g)
      BY <2>1 DEF AnalysisInv, Reported
    <3> QED BY <1>1, <1>2, <1>5, <3>1, AnalysedStays DEF FindingIs
  <2>2. CASE g \notin findings
    <3>1. PICK n \in impacted : g = New(n)
      BY <1>5, <2>2
    <3>2. g.change = change /\ g.object = n /\ g.path = path[n]
      BY <1>6, <3>1
    <3>3. n \in Nodes /\ Evident(Source, n, path[n])
      BY <1>3, <1>4 DEF impacted
    <3>4. FindingIs(g)
      BY <1>2, <3>2, <3>3 DEF FindingIs
    <3> QED BY <1>1, <1>2, <1>5, <3>2, <3>4, AnalysedStays
  <2> QED BY <2>1, <2>2
<1>8. ASSUME NEW i \in 1..(change' - 1) PROVE Named(i)'
  <2>1. i \in 1..(change - 1) \/ i = change
    BY <1>2, <1>5
  <2>2. \A c : A!Reach(c)' = A!Reach(c)
    BY <1>1, AnalysedStays
  <2>3. CASE i \in 1..(change - 1)
    <3>1. Named(i)
      BY <2>3 DEF AnalysisInv, Reported
    <3>2. i # change
      BY <1>2, <2>3
    <3>3. {g \in findings' : g.change = i} = {g \in findings : g.change = i}
      BY <1>5, <1>6, <3>2
    <3> QED BY <1>1, <2>2, <3>1, <3>3 DEF Named, ObjectsOf
  <2>4. CASE i = change
    <3>1. \A g \in findings : g.change # change
      BY <1>2 DEF AnalysisInv, Reported, FindingIs
    <3>2. {g \in findings' : g.change = i} = {New(n) : n \in impacted}
      BY <1>5, <1>6, <2>4, <3>1
    <3>3. ObjectsOf(i)' = impacted
      BY <1>6, <3>2 DEF ObjectsOf
    <3>4. analysed'.changes[i] = Source /\ Source # Unknown
      BY <1>1, <1>2, <2>4, ReviewAssumption
    <3>5. analysed'.depth = analysed.depth
      BY <1>1
    <3> QED BY <1>3, <2>2, <3>3, <3>4, <3>5 DEF Named, impacted
  <2> QED BY <2>1, <2>3, <2>4
<1>9. Reported'
  BY <1>7, <1>8 DEF Reported
<1>10. frontier = <<>> /\ expanded = NoNode /\ pending = {}
  BY <1>1 DEF AnalysisInv
<1> QED BY <1>1, <1>2, <1>5, <1>9, <1>10 DEF AnalysisInv

LEMMA AnalysisTurn ==
  ASSUME AnalysisInv, A!Next
  PROVE  AnalysisInv'
  BY NextChangeStep, UnknownSourceStep, FinishStep, TraverseNodeStep, StartEvidenceStep,
     EvidenceNodeStep, EndEvidenceStep, ExpandedStep, ReportStep, TraverseEdgeStep,
     EvidenceEdgeStep DEF A!Next

-----------------------------------------------------------------------------
(* What the stages of a request keep about its analysis.                    *)

OfTheLineage == ask.kind \in {"scenario", "review"}

StagesInv ==
    /\ ask \in Ask /\ query \in Queries
    /\ OfTheLineage => query.direction = "downstream"
    /\ stage \in {"load", "lineage"} => change = 1 /\ phase = "next" /\ findings = {}
    /\ stage \in {"analysis", "queries", "answered"} /\ OfTheLineage =>
         Done /\ analysed = Analysed(included, <<Start>>)
    /\ stage \in {"queries", "answered"} /\ OfTheLineage => phase = "done"

LEMMA AnalysedIs ==
  ASSUME query \in Query, NEW E, E \subseteq EdgeIds, NEW cs \in Seq(Nodes \cup {Unknown})
  PROVE  Analysed(E, cs) \in A!Query
  BY DEF Analysed, Query, A!Query

LEMMA AnalysisStarts ==
  ASSUME query \in Query, NEW E, E \subseteq EdgeIds, NEW cs \in Seq(Nodes \cup {Unknown}),
         analysed = Analysed(E, cs), change = 1, phase = "next", findings = {},
         expanded = NoNode, frontier = <<>>, pending = {}
  PROVE  AnalysisInv
<1>1. analysed \in A!Query
  BY AnalysedIs
<1>2. Len(analysed.changes) \in Nat
  BY <1>1 DEF A!Query
<1> QED BY <1>1, <1>2 DEF AnalysisInv, Reported

LEMMA InitAnalysis == ReviewInit => AnalysisInv /\ StagesInv
<1> SUFFICES ASSUME ReviewInit PROVE AnalysisInv /\ StagesInv
  OBVIOUS
<1>1. query \in Queries /\ query \in Query /\ ask \in AsksOf(query)
  BY LineageAssumption DEF ReviewInit, Init
<1>2. ask \in Ask /\ (OfTheLineage => query.direction = "downstream")
  BY <1>1, ReviewAssumption DEF OfTheLineage
<1>3. ask.changes \in Seq(Nodes \cup {Unknown}) /\ query.edges \subseteq EdgeIds
  BY <1>1, <1>2 DEF Ask, Query
<1>4. AnalysisInv
  BY <1>1, <1>3, AnalysisStarts DEF ReviewInit
<1>5. stage \in {"load", "analysis"} /\ (stage = "analysis" => ~OfTheLineage)
  BY DEF ReviewInit, OfTheLineage
<1> QED BY <1>1, <1>2, <1>4, <1>5 DEF StagesInv, ReviewInit

(* The steps that leave the analysis alone.                                 *)
LEMMA AnalysisRests ==
  ASSUME AnalysisInv, UNCHANGED analysisVars
  PROVE  AnalysisInv'
<1>1. UNCHANGED <<analysed, change, phase, reached, path, frontier, expanded, pending, findings>>
  BY DEF analysisVars
<1>2. /\ Reported' /\ Source' = Source /\ analysed' \in A!Query
      /\ change' \in 1..Len(analysed'.changes) + 1
      /\ Lengths' = Lengths /\ \A c, n, p : PathTo(c, n, p)' = PathTo(c, n, p)
  BY <1>1, ReportedStays, AnalysedStays
<1>3. Searching' = Searching
  BY <1>1, <1>2 DEF Searching
<1> QED BY <1>1, <1>2, <1>3 DEF AnalysisInv

LEMMA AnalysisSteps ==
  ASSUME TypeOK, AnalysisInv, StagesInv, [ReviewNext]_allVars
  PROVE  AnalysisInv' /\ StagesInv'
<1>1. CASE AnalysisStep
  <2>1. AnalysisInv'
    BY <1>1, AnalysisTurn DEF AnalysisStep
  <2>2. analysed' = analysed /\ UNCHANGED <<vars, reviewVars>> /\ stage = "analysis"
    BY <1>1 DEF AnalysisStep, A!Next, A!NextChange, A!UnknownSource, A!Finish, A!TraverseNode,
       A!StartEvidence, A!EvidenceNode, A!EndEvidence, A!Expanded, A!Report, A!TraverseEdge,
       A!EvidenceEdge
  <2>3. UNCHANGED <<ask, query, included, queue, current>> /\ stage' = "analysis"
    BY <2>2 DEF reviewVars, vars
  <2>4. Analysed(included, <<Start>>)' = Analysed(included, <<Start>>)
    BY <2>3 DEF Analysed
  <2> QED BY <2>1, <2>2, <2>3, <2>4 DEF StagesInv, OfTheLineage, Done
<1>2. CASE LineageStep
  <2>1. UNCHANGED <<ask, stage, query, analysisVars>> /\ stage = "lineage"
    BY <1>2 DEF LineageStep, reviewVars, Next, Expand, VisitNeighbour, FinishNode
  <2> QED BY <2>1, AnalysisRests DEF StagesInv, analysisVars, OfTheLineage
<1>3. CASE AnalyseLineage
  <2>1. /\ UNCHANGED <<ask, query, included, queue, current, change, phase, frontier, expanded,
                       pending, findings>>
        /\ stage = "lineage" /\ stage' \in {"analysis", "failed"} /\ Done
        /\ analysed' = Analysed(included, <<Start>>)
    BY <1>3 DEF AnalyseLineage, vars, Fail, CappedEdges
  <2>2. included \subseteq EdgeIds /\ query \in Query /\ <<Start>> \in Seq(Nodes \cup {Unknown})
    BY LineageAssumption DEF TypeOK, Query
  <2>3. analysed' \in A!Query
    BY <2>1, <2>2, AnalysedIs
  <2>4. /\ change = 1 /\ phase = "next" /\ findings = {}
        /\ expanded = NoNode /\ frontier = <<>> /\ pending = {}
    BY <2>1 DEF StagesInv, AnalysisInv
  <2>5. AnalysisInv'
    <3>1. Len(analysed'.changes) \in Nat
      BY <2>3 DEF A!Query
    <3> QED BY <2>1, <2>3, <2>4, <3>1 DEF AnalysisInv, Reported
  <2>6. Analysed(included, <<Start>>)' = Analysed(included, <<Start>>)
    BY <2>1 DEF Analysed
  <2> QED BY <2>1, <2>5, <2>6 DEF StagesInv, OfTheLineage, Done
<1>4. CASE LoadGraph \/ AnswerLineage \/ EndAnalysis
  <2>1. /\ UNCHANGED <<ask, query, included, queue, current, analysisVars>>
        /\ \/ stage = "load" /\ stage' \in {"lineage", "failed"}
           \/ stage' = "answered" /\ ~OfTheLineage
           \/ stage = "analysis" /\ phase \in {"done", "failed"}
              /\ stage' \in {"failed", "queries", "answered"}
    BY <1>4 DEF LoadGraph, AnswerLineage, EndAnalysis, vars, Fail, OfTheLineage
  <2>2. AnalysisInv'
    BY <2>1, AnalysisRests
  <2>3. phase # "failed"
    BY DEF AnalysisInv
  <2>4. Analysed(included, <<Start>>)' = Analysed(included, <<Start>>)
    BY <2>1 DEF Analysed
  <2> QED BY <2>1, <2>2, <2>3, <2>4 DEF StagesInv, analysisVars, OfTheLineage, Done
<1>5. CASE \/ \E name \in Names : QueryNotFound(name)
           \/ \E name \in Names, object \in Nodes : ReadQuery(name, object) \/ QueryNotValid(name, object)
           \/ AnswerReview \/ ViewNotGiven \/ DeleteSnapshot \/ UNCHANGED allVars
  <2>1. /\ UNCHANGED <<ask, query, included, queue, current, analysisVars>>
        /\ \/ stage' = stage \/ stage' = "failed"
           \/ stage = "queries" /\ stage' = "answered"
    BY <1>5 DEF QueryNotFound, ReadQuery, QueryNotValid, AnswerReview, ViewNotGiven,
       DeleteSnapshot, allVars, reviewVars, vars, Fail
  <2>2. AnalysisInv'
    BY <2>1, AnalysisRests
  <2>3. Analysed(included, <<Start>>)' = Analysed(included, <<Start>>)
    BY <2>1 DEF Analysed
  <2> QED BY <2>1, <2>2, <2>3 DEF StagesInv, analysisVars, OfTheLineage, Done
<1> QED BY <1>1, <1>2, <1>3, <1>4, <1>5 DEF ReviewNext, Answering

LEMMA AnalysisInvariant == ReviewSpec => [](AnalysisInv /\ StagesInv)
<1> QED BY InitAnalysis, AnalysisSteps, ReviewsRunTheLineage, TypeCorrect, PTL DEF ReviewSpec

(* The report looks every object of the traversal up among the paths        *)
(* (impact.py 143) and finds it: the two searches of a change, each with a  *)
(* queue and a visited set of its own, find the same objects.               *)
THEOREM NoEvidenceIsMissing == ReviewSpec => []NoMissingEvidence
<1>1. AnalysisInv => NoMissingEvidence
  BY SearchesAgree DEF NoMissingEvidence, A!NoMissingEvidence
<1> QED BY <1>1, AnalysisInvariant, PTL

(* A report names exactly what is downstream of each change within the      *)
(* depth limit, and a change of an unknown object as such.                  *)
THEOREM FindingsAreExact == ReviewSpec => []FindingsAreTheReach
<1>1. ASSUME AnalysisInv, phase = "done", NEW i \in 1..Len(analysed.changes)
      PROVE  {f.object : f \in {g \in findings : g.change = i}} =
                IF analysed.changes[i] = Unknown THEN {Unknown}
                ELSE A!Reach(analysed.changes[i])[A!Smaller(analysed.depth, A!Cardinality(Nodes))]
                         \ {analysed.changes[i]}
  <2>1. i \in 1..(change - 1)
    BY <1>1 DEF AnalysisInv, A!Query
  <2>2. Named(i)
    BY <1>1, <2>1 DEF AnalysisInv, Reported
  <2> QED BY <2>2, SameCardinality DEF Named, ObjectsOf
<1>2. AnalysisInv => FindingsAreTheReach
  BY <1>1 DEF FindingsAreTheReach, A!FindingsAreTheReach
<1> QED BY <1>2, AnalysisInvariant, PTL

(* The evidence of a finding is a path of the graph that is analysed, and   *)
(* there is no shorter one.                                                 *)
THEOREM EvidenceIsShortest == ReviewSpec => []EvidenceIsShortestPath
<1>1. ASSUME AnalysisInv, NEW f \in findings, f.object # Unknown
      PROVE  /\ Len(f.path.nodes) = Len(f.path.edges) + 1
             /\ f.path.nodes[1] = analysed.changes[f.change]
             /\ f.path.nodes[Len(f.path.nodes)] = f.object
             /\ \A i \in 1..Len(f.path.edges) :
                  /\ f.path.edges[i] \in analysed.edges
                  /\ analysed.src[f.path.edges[i]] = f.path.nodes[i]
                  /\ analysed.dst[f.path.edges[i]] = f.path.nodes[i + 1]
             /\ f.object \notin A!Reach(analysed.changes[f.change])[Len(f.path.edges) - 1]
  <2>1. Evident(analysed.changes[f.change], f.object, f.path)
    BY <1>1 DEF AnalysisInv, Reported, FindingIs
  <2> QED BY <2>1 DEF Evident, PathTo
<1>2. AnalysisInv => EvidenceIsShortestPath
  BY <1>1 DEF EvidenceIsShortestPath, A!EvidenceIsShortestPath
<1> QED BY <1>2, AnalysisInvariant, PTL

-----------------------------------------------------------------------------
(* The levels of the lineage are what a search of the capped graph finds.   *)
LEMMA LineageIsASearch ==
  ASSUME TypeOK, LineageInv, LevelInv, Done, query.direction = "downstream",
         analysed = Analysed(included, <<Start>>)
  PROVE  analysed \in A!Query /\ Searched(analysed, Start, level)
<1>1. /\ query \in Query /\ included \subseteq query.edges /\ included \subseteq EdgeIds
      /\ Visited \subseteq Nodes /\ level \in [Visited -> Nat]
      /\ queue = <<>> /\ current = NoNode /\ Start \in Visited /\ Visited = DOMAIN level
      /\ <<Start>> \in Seq(Nodes \cup {Unknown})
  BY LineageAssumption DEF TypeOK, Query, Done, LineageInv, CapsRespected, Visited
<1>2. analysed \in A!Query
  BY <1>1, AnalysedIs
<1>3. /\ analysed.edges = included /\ analysed.src = query.src /\ analysed.dst = query.dst
      /\ analysed.depth = query.depth
  BY DEF Analysed
<1>4. \A n, e : /\ e \in NextEdges(n) => e \in query.edges /\ query.src[e] = n
                /\ e \in NextEdges(n) => OtherEnd(n, e) = query.dst[e]
  BY DEF NextEdges, OtherEnd, Leaves, Enters
<1>5. Found(analysed, Start, level)
  <2>1. ASSUME NEW n \in Visited, level[n] > 0
        PROVE  \E e \in analysed.edges :
                 /\ analysed.src[e] \in DOMAIN level /\ analysed.dst[e] = n
                 /\ level[n] = level[analysed.src[e]] + 1
    <3>1. PICK p \in Visited, e \in included :
            e \in NextEdges(p) /\ OtherEnd(p, e) = n /\ level[n] = level[p] + 1
      BY <2>1 DEF LevelInv, Predecessors
    <3> QED BY <1>1, <1>3, <1>4, <3>1
  <2> QED BY <1>1, <1>3, <2>1 DEF LevelInv, LevelsBounded, Found
<1>6. InQueue(level, <<>>) /\ InHand(analysed, level, <<>>, NoNode, {})
  BY DEF InQueue, InHand
<1>7. ASSUME NEW n \in DOMAIN level, NEW e \in Out(analysed, n)
      PROVE  Follows(analysed, level, n, e)
  <2>1. e \in included /\ query.src[e] = n
    BY <1>3, <1>7 DEF Out
  <2>2. PICK p \in Visited : e \in NextEdges(p) /\ NextIsVisited(p, e)
    BY <2>1 DEF LevelInv, IncludedFromVisited
  <2> QED BY <1>1, <1>3, <1>4, <2>1, <2>2 DEF NextIsVisited, Follows
<1>8. Followed(analysed, level, <<>>, NoNode, {})
  BY <1>7 DEF Followed
<1> QED BY <1>2, <1>5, <1>6, <1>8 DEF Searched, Search

(* A scenario or a review says of exactly the objects that the lineage of   *)
(* the object shows that they are affected, each as far out as its level,   *)
(* with evidence along the edges of the lineage.                            *)
THEOREM AffectedIsTheLineage == ReviewSpec => []AffectedAreTheLineage
<1>1. ASSUME TypeOK, LineageInv, LevelInv, AnalysisInv, StagesInv,
             stage \in {"queries", "answered"}, OfTheLineage
      PROVE  /\ {f.object : f \in findings} = Visited \ {Start}
             /\ \A f \in findings :
                  /\ Len(f.path.edges) = level[f.object]
                  /\ \A i \in DOMAIN f.path.edges : f.path.edges[i] \in included
  <2>1. /\ Done /\ analysed = Analysed(included, <<Start>>) /\ phase = "done"
        /\ query.direction = "downstream"
    BY <1>1 DEF StagesInv
  <2>2. analysed \in A!Query /\ Searched(analysed, Start, level)
    BY <1>1, <2>1, LineageIsASearch
  <2>3. /\ analysed.changes = <<Start>> /\ Len(analysed.changes) = 1
        /\ analysed.changes[1] = Start /\ analysed.edges = included
    BY <2>1 DEF Analysed
  <2>4. change = 2
    <3>1. change \in 1..Len(analysed.changes) + 1
      BY <1>1 DEF AnalysisInv
    <3>2. change > Len(analysed.changes)
      BY <1>1, <2>1 DEF AnalysisInv
    <3> QED BY <2>3, <3>1, <3>2
  <2>5. Named(1)
    BY <1>1, <2>4 DEF AnalysisInv, Reported
  <2>6. Start \in Nodes /\ Start # Unknown
    BY LineageAssumption, ReviewAssumption
  <2>7. DOMAIN level = A!Reach(Start)[A!Smaller(analysed.depth, Cardinality(Nodes))]
    BY <2>2, <2>6, SearchIsWhole
  <2>8. \A f \in findings : f.change = 1 /\ FindingIs(f)
    BY <1>1, <2>3 DEF AnalysisInv, Reported, FindingIs
  <2>9. {f.object : f \in findings} = Visited \ {Start}
    <3>1. {f.object : f \in findings} = ObjectsOf(1)
      BY <2>8 DEF ObjectsOf
    <3> QED BY <2>3, <2>5, <2>6, <2>7, <3>1 DEF Named, Visited
  <2>10. ASSUME NEW f \in findings
         PROVE  /\ Len(f.path.edges) = level[f.object]
                /\ \A i \in DOMAIN f.path.edges : f.path.edges[i] \in included
    <3>1. Evident(Start, f.object, f.path)
      BY <2>3, <2>6, <2>8 DEF FindingIs
    <3>2. PICK k : k = Len(f.path.edges)
      OBVIOUS
    <3>3. /\ k \in 1..Cardinality(Nodes) /\ k <= analysed.depth
          /\ f.object \in A!Reach(Start)[k] /\ f.object \notin A!Reach(Start)[k - 1]
      BY <3>1, <3>2 DEF Evident
    <3>4. Cardinality(Nodes) \in Nat /\ analysed.depth \in Nat
      BY <2>2, LineageAssumption, FS_CardinalityType, GraphIs
    <3>5. k \in 0..Cardinality(Nodes) /\ k - 1 \in 0..Cardinality(Nodes) /\ k - 1 <= analysed.depth
      BY <3>3, <3>4
    <3>6. f.object \in {n \in DOMAIN level : level[n] <= k}
      BY <2>2, <2>6, <3>3, <3>5, ReachIsFound
    <3>7. f.object \notin {n \in DOMAIN level : level[n] <= k - 1}
      BY <2>2, <2>6, <3>3, <3>5, ReachIsFound
    <3>8. level[f.object] \in Nat
      BY <1>1, <3>6 DEF TypeOK, Visited
    <3>9. level[f.object] = k
      BY <3>3, <3>4, <3>6, <3>7, <3>8
    <3>10. \A i \in 1..Len(f.path.edges) : f.path.edges[i] \in included
      BY <2>3, <3>1 DEF Evident, PathTo
    <3>11. DOMAIN f.path.edges = 1..Len(f.path.edges)
      BY <3>1 DEF Evident, PathTo
    <3> QED BY <3>2, <3>9, <3>10, <3>11
  <2> QED BY <2>9, <2>10
<1>2. TypeOK /\ LineageInv /\ LevelInv /\ AnalysisInv /\ StagesInv => AffectedAreTheLineage
  BY <1>1 DEF AffectedAreTheLineage, OfTheLineage
<1> QED BY <1>2, AnalysisInvariant, LevelInvariant, ReviewsRunTheLineage, PTL
=============================================================================

------------------------- MODULE AssuranceGraphProofs -------------------------
(***************************************************************************)
(* Proofs about the verification of assurance graphs, for graphs of every   *)
(* size.  As long as no error is reported, the index of each list holds     *)
(* just the items gone by, each under its own id, and each of them was      *)
(* found in order: then the reasons worked out from the indexes are those   *)
(* the lists give, and every digest is that of a file.                      *)
(***************************************************************************)
EXTENDS AssuranceGraph, TLAPS

\* The positions each loop has gone by.
SourcesSeen == IF phase = "sources" THEN 1 .. at - 1 ELSE DOMAIN graph.sources
NodesSeen == IF phase = "sources" THEN {}
             ELSE IF phase = "nodes" THEN 1 .. at - 1 ELSE DOMAIN graph.nodes
EdgesSeen == IF phase \in {"sources", "nodes"} THEN {}
             ELSE IF phase \in {"edges", "raised"} THEN 1 .. at - 1
             ELSE DOMAIN graph.edges

\* The index holds the items at these positions, and no two share an id.
Indexes(index, list, positions) ==
  /\ DOMAIN index = {list[k].id : k \in positions}
  /\ \A k \in positions : index[list[k].id] = list[k]

NodesInOrder == \A k \in NodesSeen : RefErrors(graph.nodes[k]) = {}
EdgesInOrder ==
  \A k \in EdgesSeen : EndpointErrors(graph.edges[k]) = {} /\ RefErrors(graph.edges[k]) = {}
TypesKnown == \A k \in DOMAIN graph.edges : graph.edges[k].type \in EdgeTypes
SourcesInOrder ==
  phase \in {"report", "done"} =>
    \A id \in DOMAIN sourceIndex : SourceErrors(sourceIndex[id]) = {}

CleanSoFar ==
  /\ Indexes(sourceIndex, graph.sources, SourcesSeen)
  /\ Indexes(nodeIndex, graph.nodes, NodesSeen)
  /\ Indexes(edgeIndex, graph.edges, EdgesSeen)
  /\ NodesInOrder /\ EdgesInOrder /\ TypesKnown /\ SourcesInOrder

\* A loop is at an item or just behind the last.
AtAnItem ==
  /\ at \in Nat \ {0}
  /\ phase \in {"sources", "nodes", "edges", "report", "done", "raised"}
  /\ phase = "sources" => at <= Len(graph.sources) + 1
  /\ phase = "nodes" => at <= Len(graph.nodes) + 1
  /\ phase = "edges" => at <= Len(graph.edges) + 1

GraphIsListed == IsList(graph.sources) /\ IsList(graph.nodes) /\ IsList(graph.edges)

ReportIsComplete ==
  \A r \in report :
    /\ phase = "done"
    /\ r.outcome = IF errors = {} THEN "GRAPH_VERIFIED" ELSE "GRAPH_REJECTED"
    /\ r.reasons = [claim \in NodesOf("claim") |-> Reasons(claim)]

IInv ==
  /\ GraphIsListed
  /\ AtAnItem
  /\ errors = {} => CleanSoFar
  /\ ReportIsComplete

-----------------------------------------------------------------------------

LEMMA WhenEmpty == \A c, e : When(c, e) = {} <=> ~c
BY DEF When

\* An index takes the next item in, if its id is new.
LEMMA KeepFirstIndexes ==
  ASSUME NEW index, NEW list, NEW n \in Nat \ {0},
         Indexes(index, list, 1 .. n - 1), list[n].id \notin DOMAIN index
  PROVE  Indexes(KeepFirst(index, list[n]), list, 1 .. (n + 1) - 1)
<1>1. 1 .. (n + 1) - 1 = (1 .. n - 1) \cup {n}
  OBVIOUS
<1>2. DOMAIN KeepFirst(index, list[n]) = {list[k].id : k \in (1 .. n - 1) \cup {n}}
  BY DEF Indexes, KeepFirst
<1>3. ASSUME NEW k \in (1 .. n - 1) \cup {n}
      PROVE  KeepFirst(index, list[n])[list[k].id] = list[k]
  <2>1. CASE k = n
    BY <2>1 DEF KeepFirst
  <2>2. CASE k # n
    <3>1. list[k].id \in DOMAIN index /\ index[list[k].id] = list[k]
      BY <2>2 DEF Indexes
    <3> QED
      BY <3>1 DEF KeepFirst
  <2> QED
    BY <2>1, <2>2
<1> QED
  BY <1>1, <1>2, <1>3 DEF Indexes

LEMMA InitIInv == Init => IInv
<1> SUFFICES ASSUME Init PROVE IInv
  OBVIOUS
<1>1. PICK f \in Families :
        graph \in [sources : f.sources, nodes : f.nodes, edges : f.edges,
                   rooted : f.rooted, files : f.files]
  BY DEF Init
<1>2. GraphIsListed
  BY <1>1, FamiliesAssumption DEF GraphIsListed
<1>3. AtAnItem
  BY <1>2 DEF Init, AtAnItem, GraphIsListed, IsList
<1>4. ASSUME errors = {} PROVE CleanSoFar
  <2>1. TypesKnown
    BY <1>4, WhenEmpty DEF Init, TypesKnown
  <2>2. SourcesSeen = {} /\ NodesSeen = {} /\ EdgesSeen = {}
    BY DEF Init, SourcesSeen, NodesSeen, EdgesSeen
  <2>3. \A list : Indexes(Empty, list, {})
    BY DEF Indexes, Empty
  <2> QED
    BY <2>1, <2>2, <2>3 DEF Init, CleanSoFar, NodesInOrder, EdgesInOrder, SourcesInOrder
<1>5. ReportIsComplete
  BY DEF Init, ReportIsComplete
<1> QED
  BY <1>2, <1>3, <1>4, <1>5 DEF IInv

LEMMA IndexSourceIInv == IInv /\ IndexSource => IInv'
<1> SUFFICES ASSUME IInv, IndexSource PROVE IInv'
  OBVIOUS
<1>1. UNCHANGED <<graph, phase, nodeIndex, edgeIndex, edgePairs, report>>
  BY DEF IndexSource
<1>2. GraphIsListed' /\ AtAnItem'
  BY <1>1 DEF IndexSource, IInv, GraphIsListed, IsList, AtAnItem
<1>3. ASSUME errors' = {} PROVE CleanSoFar'
  <2>1. errors = {} /\ graph.sources[at].id \notin DOMAIN sourceIndex
    BY <1>3, WhenEmpty DEF IndexSource
  <2>2. Indexes(sourceIndex, graph.sources, 1 .. at - 1)
    BY <2>1 DEF IndexSource, IInv, CleanSoFar, SourcesSeen
  <2>3. Indexes(sourceIndex', graph.sources, 1 .. (at + 1) - 1)
    BY <2>1, <2>2, KeepFirstIndexes DEF IndexSource, IInv, AtAnItem
  <2>4. Indexes(sourceIndex, graph.sources, SourcesSeen)'
    BY <1>1, <2>3 DEF IndexSource, SourcesSeen, Indexes
  <2>5. phase = "sources" /\ NodesSeen = {} /\ EdgesSeen = {}
    BY DEF IndexSource, NodesSeen, EdgesSeen
  <2>6. NodesSeen' = {} /\ EdgesSeen' = {}
    BY <1>1, <2>5 DEF NodesSeen, EdgesSeen
  <2>7. NodesInOrder' /\ EdgesInOrder' /\ SourcesInOrder'
    BY <1>1, <2>5, <2>6 DEF NodesInOrder, EdgesInOrder, SourcesInOrder
  <2>8. TypesKnown' /\ Indexes(nodeIndex, graph.nodes, NodesSeen)'
                    /\ Indexes(edgeIndex, graph.edges, EdgesSeen)'
    BY <1>1, <2>1, <2>5, <2>6 DEF IInv, CleanSoFar, TypesKnown, Indexes
  <2> QED
    BY <2>4, <2>7, <2>8 DEF CleanSoFar
<1>4. ReportIsComplete'
  BY <1>1 DEF IndexSource, IInv, ReportIsComplete
<1> QED
  BY <1>2, <1>3, <1>4 DEF IInv

\* What an item was found to cite is found again, as long as the sources stay.
LEMMA RefErrorsStay ==
  ASSUME UNCHANGED <<graph, sourceIndex>>, NEW item
  PROVE  RefErrors(item)' = RefErrors(item)
BY DEF RefErrors, SourceErrors

LEMMA CheckNodeIInv == IInv /\ CheckNode => IInv'
<1> SUFFICES ASSUME IInv, CheckNode PROVE IInv'
  OBVIOUS
<1>1. UNCHANGED <<graph, phase, sourceIndex, edgeIndex, edgePairs, report>>
  BY DEF CheckNode
<1>2. GraphIsListed' /\ AtAnItem'
  BY <1>1 DEF CheckNode, IInv, GraphIsListed, IsList, AtAnItem
<1>3. ASSUME errors' = {} PROVE CleanSoFar'
  <2>1. errors = {} /\ graph.nodes[at].id \notin DOMAIN nodeIndex
                    /\ RefErrors(graph.nodes[at]) = {}
    BY <1>3, WhenEmpty DEF CheckNode
  <2>2. Indexes(nodeIndex, graph.nodes, 1 .. at - 1)
    BY <2>1 DEF CheckNode, IInv, CleanSoFar, NodesSeen
  <2>3. Indexes(nodeIndex', graph.nodes, 1 .. (at + 1) - 1)
    BY <2>1, <2>2, KeepFirstIndexes DEF CheckNode, IInv, AtAnItem
  <2>4. Indexes(nodeIndex, graph.nodes, NodesSeen)'
    BY <1>1, <2>3 DEF CheckNode, NodesSeen, Indexes
  <2>5. phase = "nodes" /\ EdgesSeen = {} /\ EdgesSeen' = {}
    BY <1>1 DEF CheckNode, EdgesSeen
  <2>6. NodesInOrder'
    <3> SUFFICES ASSUME NEW k \in NodesSeen' PROVE RefErrors(graph.nodes[k]) = {}
      BY <1>1, RefErrorsStay DEF NodesInOrder
    <3>1. k \in 1 .. at
      BY <1>1, <2>5 DEF CheckNode, IInv, AtAnItem, NodesSeen
    <3>2. CASE k = at
      BY <2>1, <3>2
    <3>3. CASE k # at
      <4>1. k \in NodesSeen
        BY <2>5, <3>1, <3>3 DEF IInv, AtAnItem, NodesSeen
      <4> QED
        BY <2>1, <4>1 DEF IInv, CleanSoFar, NodesInOrder
    <3> QED
      BY <3>2, <3>3
  <2>7. EdgesInOrder' /\ SourcesInOrder'
    BY <1>1, <2>5 DEF EdgesInOrder, SourcesInOrder
  <2>8. TypesKnown' /\ Indexes(sourceIndex, graph.sources, SourcesSeen)'
                    /\ Indexes(edgeIndex, graph.edges, EdgesSeen)'
    BY <1>1, <2>1, <2>5 DEF IInv, CleanSoFar, TypesKnown, Indexes, SourcesSeen
  <2> QED
    BY <2>4, <2>6, <2>7, <2>8 DEF CleanSoFar
<1>4. ReportIsComplete'
  BY <1>1 DEF CheckNode, IInv, ReportIsComplete
<1> QED
  BY <1>2, <1>3, <1>4 DEF IInv

LEMMA CheckEdgeIInv == IInv /\ CheckEdge => IInv'
<1> SUFFICES ASSUME IInv, CheckEdge PROVE IInv'
  OBVIOUS
<1>1. UNCHANGED <<graph, phase, sourceIndex, nodeIndex, report>>
  BY DEF CheckEdge
<1>2. GraphIsListed' /\ AtAnItem'
  BY <1>1 DEF CheckEdge, IInv, GraphIsListed, IsList, AtAnItem
<1>3. ASSUME errors' = {} PROVE CleanSoFar'
  <2>1. /\ errors = {} /\ graph.edges[at].id \notin DOMAIN edgeIndex
        /\ EndpointErrors(graph.edges[at]) = {} /\ RefErrors(graph.edges[at]) = {}
    BY <1>3, WhenEmpty DEF CheckEdge
  <2>2. Indexes(edgeIndex, graph.edges, 1 .. at - 1)
    BY <2>1 DEF CheckEdge, IInv, CleanSoFar, EdgesSeen
  <2>3. Indexes(edgeIndex', graph.edges, 1 .. (at + 1) - 1)
    BY <2>1, <2>2, KeepFirstIndexes DEF CheckEdge, IInv, AtAnItem
  <2>4. Indexes(edgeIndex, graph.edges, EdgesSeen)'
    BY <1>1, <2>3 DEF CheckEdge, EdgesSeen, Indexes
  <2>5. phase = "edges" /\ NodesSeen' = NodesSeen
    BY <1>1 DEF CheckEdge, NodesSeen
  <2>6. EdgesInOrder'
    <3> SUFFICES ASSUME NEW k \in EdgesSeen'
                 PROVE  EndpointErrors(graph.edges[k]) = {} /\ RefErrors(graph.edges[k]) = {}
      BY <1>1, RefErrorsStay DEF EdgesInOrder, EndpointErrors
    <3>1. k \in 1 .. at
      BY <1>1, <2>5 DEF CheckEdge, IInv, AtAnItem, EdgesSeen
    <3>2. CASE k = at
      BY <2>1, <3>2
    <3>3. CASE k # at
      <4>1. k \in EdgesSeen
        BY <2>5, <3>1, <3>3 DEF IInv, AtAnItem, EdgesSeen
      <4> QED
        BY <2>1, <4>1 DEF IInv, CleanSoFar, EdgesInOrder
    <3> QED
      BY <3>2, <3>3
  <2>7. NodesInOrder'
    BY <1>1, <2>1, <2>5, RefErrorsStay DEF IInv, CleanSoFar, NodesInOrder
  <2>8. SourcesInOrder'
    BY <1>1, <2>5 DEF SourcesInOrder
  <2>9. TypesKnown' /\ Indexes(sourceIndex, graph.sources, SourcesSeen)'
                    /\ Indexes(nodeIndex, graph.nodes, NodesSeen)'
    BY <1>1, <2>1, <2>5 DEF IInv, CleanSoFar, TypesKnown, Indexes, SourcesSeen
  <2> QED
    BY <2>4, <2>6, <2>7, <2>8, <2>9 DEF CleanSoFar
<1>4. ReportIsComplete'
  BY <1>1 DEF CheckEdge, IInv, ReportIsComplete
<1> QED
  BY <1>2, <1>3, <1>4 DEF IInv

LEMMA RaiseIInv == IInv /\ Raise => IInv'
<1> SUFFICES ASSUME IInv, Raise PROVE IInv'
  OBVIOUS
<1>1. UNCHANGED <<graph, at, sourceIndex, nodeIndex, edgeIndex, errors, report>>
  BY DEF Raise, indexes
<1>2. phase = "edges" /\ phase' = "raised"
  BY DEF Raise
<1>3. SourcesSeen' = SourcesSeen /\ NodesSeen' = NodesSeen /\ EdgesSeen' = EdgesSeen
  BY <1>1, <1>2 DEF SourcesSeen, NodesSeen, EdgesSeen
<1>4. GraphIsListed' /\ AtAnItem' /\ ReportIsComplete'
  BY <1>1, <1>2 DEF IInv, GraphIsListed, IsList, AtAnItem, ReportIsComplete
<1>5. ASSUME errors' = {} PROVE CleanSoFar'
  <2>1. CleanSoFar
    BY <1>1, <1>5 DEF IInv
  <2>2. NodesInOrder' /\ EdgesInOrder'
    BY <1>1, <1>3, <2>1, RefErrorsStay
    DEF CleanSoFar, NodesInOrder, EdgesInOrder, EndpointErrors
  <2> QED
    BY <1>1, <1>2, <1>3, <2>1, <2>2 DEF CleanSoFar, TypesKnown, Indexes, SourcesInOrder
<1> QED
  BY <1>4, <1>5 DEF IInv

\* A loop that has no item left has gone by all of them.
LEMMA AllGoneBy ==
  ASSUME NEW list, IsList(list), at \in Nat \ {0}, at <= Len(list) + 1,
         at \notin DOMAIN list
  PROVE  1 .. at - 1 = DOMAIN list
BY DEF IsList

LEMMA AdvanceIInv == IInv /\ Advance => IInv'
<1> SUFFICES ASSUME IInv, Advance PROVE IInv'
  OBVIOUS
<1>1. UNCHANGED <<graph, sourceIndex, nodeIndex, edgeIndex, report>> /\ at' = 1
  BY DEF Advance, indexes
<1>2. phase \in {"sources", "nodes", "edges"} /\ phase' \in {"nodes", "edges", "report"}
  BY DEF Advance
<1>3. SourcesSeen' = SourcesSeen /\ NodesSeen' = NodesSeen /\ EdgesSeen' = EdgesSeen
  <2>1. CASE phase = "sources"
    <3>1. phase' = "nodes" /\ 1 .. at - 1 = DOMAIN graph.sources
      BY <2>1, AllGoneBy DEF Advance, IInv, GraphIsListed, AtAnItem
    <3> QED
      BY <1>1, <2>1, <3>1 DEF SourcesSeen, NodesSeen, EdgesSeen
  <2>2. CASE phase = "nodes"
    <3>1. phase' = "edges" /\ 1 .. at - 1 = DOMAIN graph.nodes
      BY <2>2, AllGoneBy DEF Advance, IInv, GraphIsListed, AtAnItem
    <3> QED
      BY <1>1, <2>2, <3>1 DEF SourcesSeen, NodesSeen, EdgesSeen
  <2>3. CASE phase = "edges"
    <3>1. phase' = "report" /\ 1 .. at - 1 = DOMAIN graph.edges
      BY <2>3, AllGoneBy DEF Advance, IInv, GraphIsListed, AtAnItem
    <3> QED
      BY <1>1, <2>3, <3>1 DEF SourcesSeen, NodesSeen, EdgesSeen
  <2> QED
    BY <1>2, <2>1, <2>2, <2>3
<1>4. GraphIsListed' /\ AtAnItem' /\ ReportIsComplete'
  <2>1. GraphIsListed' /\ ReportIsComplete'
    BY <1>1, <1>2 DEF IInv, GraphIsListed, IsList, ReportIsComplete
  <2>2. AtAnItem'
    BY <1>1, <1>2 DEF IInv, GraphIsListed, IsList, AtAnItem
  <2> QED
    BY <2>1, <2>2
<1>5. ASSUME errors' = {} PROVE CleanSoFar'
  <2>1. errors = {}
    BY <1>5 DEF Advance
  <2>2. CleanSoFar
    BY <2>1 DEF IInv
  <2>3. NodesInOrder' /\ EdgesInOrder'
    BY <1>1, <1>3, <2>2, RefErrorsStay
    DEF CleanSoFar, NodesInOrder, EdgesInOrder, EndpointErrors
  <2>4. SourcesInOrder'
    <3> SUFFICES ASSUME phase' = "report", NEW id \in DOMAIN sourceIndex
                 PROVE  SourceErrors(sourceIndex[id]) = {}
      BY <1>1, <1>2 DEF SourcesInOrder, SourceErrors
    <3>1. errors' = errors \cup UNION {SourceErrors(sourceIndex[i]) : i \in DOMAIN sourceIndex}
      BY DEF Advance
    <3> QED
      BY <1>5, <3>1
  <2> QED
    BY <1>1, <1>3, <2>2, <2>3, <2>4 DEF CleanSoFar, TypesKnown, Indexes
<1> QED
  BY <1>4, <1>5 DEF IInv

LEMMA ConcludeIInv == IInv /\ Conclude => IInv'
<1> SUFFICES ASSUME IInv, Conclude PROVE IInv'
  OBVIOUS
<1>1. UNCHANGED <<graph, at, sourceIndex, nodeIndex, edgeIndex, errors>>
  BY DEF Conclude, indexes
<1>2. phase = "report" /\ phase' = "done"
  BY DEF Conclude
<1>3. SourcesSeen' = SourcesSeen /\ NodesSeen' = NodesSeen /\ EdgesSeen' = EdgesSeen
  BY <1>1, <1>2 DEF SourcesSeen, NodesSeen, EdgesSeen
<1>4. GraphIsListed' /\ AtAnItem'
  BY <1>1, <1>2 DEF IInv, GraphIsListed, IsList, AtAnItem
<1>5. ASSUME errors' = {} PROVE CleanSoFar'
  <2>1. CleanSoFar
    BY <1>1, <1>5 DEF IInv
  <2>2. NodesInOrder' /\ EdgesInOrder'
    BY <1>1, <1>3, <2>1, RefErrorsStay
    DEF CleanSoFar, NodesInOrder, EdgesInOrder, EndpointErrors
  <2>3. SourcesInOrder'
    BY <1>1, <1>2, <2>1 DEF CleanSoFar, SourcesInOrder, SourceErrors
  <2> QED
    BY <1>1, <1>3, <2>1, <2>2, <2>3 DEF CleanSoFar, TypesKnown, Indexes
<1>6. NodesOf("claim")' = NodesOf("claim")
  BY <1>1 DEF NodesOf
<1>7. \A claim : Reasons(claim)' = Reasons(claim)
  BY <1>1 DEF Reasons, EdgesOf, SharedFate, NodesOf, Invalidated
<1>8. ReportIsComplete'
  <2> SUFFICES ASSUME NEW r \in report'
               PROVE  /\ r.outcome = IF errors = {} THEN "GRAPH_VERIFIED"
                                     ELSE "GRAPH_REJECTED"
                      /\ r.reasons = [claim \in NodesOf("claim") |-> Reasons(claim)]
    BY <1>1, <1>2, <1>6, <1>7 DEF ReportIsComplete
  <2>1. r = [outcome |-> IF errors = {} THEN "GRAPH_VERIFIED" ELSE "GRAPH_REJECTED",
             reasons |-> [claim \in NodesOf("claim") |-> Reasons(claim)]]
    BY DEF Conclude
  <2> QED
    BY <2>1
<1> QED
  BY <1>4, <1>5, <1>8 DEF IInv

LEMMA StutterIInv == IInv /\ UNCHANGED vars => IInv'
<1> SUFFICES ASSUME IInv, UNCHANGED vars PROVE IInv'
  OBVIOUS
<1>1. UNCHANGED <<graph, phase, at, sourceIndex, nodeIndex, edgeIndex, errors, report>>
  BY DEF vars, indexes
<1>2. SourcesSeen' = SourcesSeen /\ NodesSeen' = NodesSeen /\ EdgesSeen' = EdgesSeen
  BY <1>1 DEF SourcesSeen, NodesSeen, EdgesSeen
<1>3. GraphIsListed' /\ AtAnItem'
  BY <1>1 DEF IInv, GraphIsListed, IsList, AtAnItem
<1>4. ASSUME errors' = {} PROVE CleanSoFar'
  <2>1. CleanSoFar
    BY <1>1, <1>4 DEF IInv
  <2>2. NodesInOrder' /\ EdgesInOrder'
    BY <1>1, <1>2, <2>1, RefErrorsStay
    DEF CleanSoFar, NodesInOrder, EdgesInOrder, EndpointErrors
  <2>3. SourcesInOrder'
    BY <1>1, <2>1 DEF CleanSoFar, SourcesInOrder, SourceErrors
  <2> QED
    BY <1>1, <1>2, <2>1, <2>2, <2>3 DEF CleanSoFar, TypesKnown, Indexes
<1>5. NodesOf("claim")' = NodesOf("claim") /\ \A claim : Reasons(claim)' = Reasons(claim)
  BY <1>1 DEF Reasons, EdgesOf, SharedFate, NodesOf, Invalidated
<1>6. ReportIsComplete'
  BY <1>1, <1>5 DEF IInv, ReportIsComplete
<1> QED
  BY <1>3, <1>4, <1>6 DEF IInv

(***************************************************************************)
(* Every reachable state of every verification satisfies the inductive      *)
(* invariant.                                                               *)
(***************************************************************************)
THEOREM Invariance == Spec => []IInv
<1>1. IInv /\ [Next]_vars => IInv'
  BY IndexSourceIInv, CheckNodeIInv, CheckEdgeIInv, RaiseIInv, AdvanceIInv,
     ConcludeIInv, StutterIInv DEF Next
<1> QED
  BY <1>1, InitIInv, PTL DEF Spec

-----------------------------------------------------------------------------

\* In a verified graph the indexes are the lists.
LEMMA VerifiedIsClean ==
  ASSUME IInv, Verified
  PROVE  /\ Indexes(sourceIndex, graph.sources, DOMAIN graph.sources)
         /\ Indexes(nodeIndex, graph.nodes, DOMAIN graph.nodes)
         /\ Indexes(edgeIndex, graph.edges, DOMAIN graph.edges)
         /\ \A k \in DOMAIN graph.nodes : RefErrors(graph.nodes[k]) = {}
         /\ \A k \in DOMAIN graph.edges :
              /\ EndpointErrors(graph.edges[k]) = {} /\ RefErrors(graph.edges[k]) = {}
              /\ graph.edges[k].type \in EdgeTypes
         /\ \A id \in DOMAIN sourceIndex : SourceErrors(sourceIndex[id]) = {}
<1>1. PICK r \in report : r.outcome = "GRAPH_VERIFIED"
  BY DEF Verified
<1>2. phase = "done" /\ errors = {}
  BY <1>1 DEF IInv, ReportIsComplete
<1>3. CleanSoFar
  BY <1>2 DEF IInv
<1>4. /\ SourcesSeen = DOMAIN graph.sources /\ NodesSeen = DOMAIN graph.nodes
      /\ EdgesSeen = DOMAIN graph.edges
  BY <1>2 DEF SourcesSeen, NodesSeen, EdgesSeen
<1> QED
  BY <1>2, <1>3, <1>4 DEF CleanSoFar, NodesInOrder, EdgesInOrder, TypesKnown, SourcesInOrder

\* An edge without endpoint errors joins nodes of the types it may join.
LEMMA EndpointsFit ==
  ASSUME NEW edge, EndpointErrors(edge) = {}
  PROVE  /\ edge.from \in DOMAIN nodeIndex /\ edge.to \in DOMAIN nodeIndex
         /\ nodeIndex[edge.from].type \in EndpointTypes[edge.type].from
         /\ nodeIndex[edge.to].type \in EndpointTypes[edge.type].to
<1>1. edge.from \in DOMAIN nodeIndex
  BY WhenEmpty DEF EndpointErrors
<1>2. edge.to \in DOMAIN nodeIndex
  BY DEF EndpointErrors
<1>3. When(\/ edge.from \notin DOMAIN nodeIndex
           \/ nodeIndex[edge.from].type \notin EndpointTypes[edge.type].from
           \/ nodeIndex[edge.to].type \notin EndpointTypes[edge.type].to,
           "endpoint_types") = {}
  BY <1>2 DEF EndpointErrors
<1> QED
  BY <1>1, <1>2, <1>3, WhenEmpty

\* The reasons from the indexes are those from the lists.
LEMMA ReasonsAreListed ==
  ASSUME IInv, Verified, NEW k \in DOMAIN graph.nodes, graph.nodes[k].type = "claim"
  PROVE  Reasons(graph.nodes[k].id) = ListedReasons(graph.nodes[k])
<1> DEFINE claim == graph.nodes[k]
<1>1. nodeIndex[claim.id] = claim
  BY VerifiedIsClean DEF Indexes
<1>2. \A type : EdgesOf(type) = Listed(type)
  BY VerifiedIsClean DEF Indexes, EdgesOf, Listed
<1>3. \A e \in Listed("shares_fate_with") : {e.from, e.to} \subseteq NodesOf("dependency")
  <2> SUFFICES ASSUME NEW j \in DOMAIN graph.edges,
                      graph.edges[j].type = "shares_fate_with"
               PROVE  {graph.edges[j].from, graph.edges[j].to} \subseteq NodesOf("dependency")
    BY DEF Listed
  <2>1. EndpointErrors(graph.edges[j]) = {}
    BY VerifiedIsClean
  <2>2. EndpointTypes["shares_fate_with"] = [from |-> {"dependency"}, to |-> {"dependency"}]
    BY DEF EndpointTypes
  <2>3. /\ nodeIndex[graph.edges[j].from].type = "dependency"
        /\ nodeIndex[graph.edges[j].to].type = "dependency"
    BY <2>1, <2>2, EndpointsFit
  <2> QED
    BY <2>1, <2>3, EndpointsFit DEF NodesOf
<1>4. \A d : d \in SharedFate <=> \E s \in Listed("shares_fate_with") : d \in {s.from, s.to}
  BY <1>2, <1>3 DEF SharedFate
<1>5. \A d : d \in Invalidated <=> \E i \in Listed("invalidates") : i.to = d
  BY <1>2 DEF Invalidated
<1> DEFINE supports == {e \in Listed("supports") : e.to = claim.id}
<1>6. (\E e \in Listed("depends_on") : e.from = claim.id /\ e.to \in SharedFate)
        <=> \E d \in Listed("depends_on"), s \in Listed("shares_fate_with") :
              d.from = claim.id /\ d.to \in {s.from, s.to}
  BY <1>4
<1>7. (claim.id \in Invalidated \/ \E e \in supports : e.from \in Invalidated)
        <=> \E i \in Listed("invalidates") :
              i.to = claim.id \/ \E s \in supports : s.from = i.to
  BY <1>5
<1>8. Reasons(claim.id) =
        When(claim.assurance # "observed" \/ \E e \in supports : e.assurance # "observed",
             "not_observed")
        \cup When(\E e \in Listed("depends_on") : e.from = claim.id /\ e.to \in SharedFate,
                  "shared_fate")
        \cup When(claim.id \in Invalidated \/ \E e \in supports : e.from \in Invalidated,
                  "invalidated")
  BY <1>1, <1>2 DEF Reasons
<1> QED
  BY <1>6, <1>7, <1>8 DEF ListedReasons, When

(***************************************************************************)
(* A verified graph reports every listed claim with every reason its edges  *)
(* give, and joins listed nodes of the right types.                         *)
(***************************************************************************)
THEOREM NothingIsHidden == Spec => []VerifiedGraphHidesNothing
<1>1. IInv => VerifiedGraphHidesNothing
  <2> SUFFICES ASSUME IInv, Verified PROVE VerifiedGraphHidesNothing
    BY DEF VerifiedGraphHidesNothing
  <2>1. ASSUME NEW r \in report, NEW k \in DOMAIN graph.nodes,
               graph.nodes[k].type = "claim"
        PROVE  /\ graph.nodes[k].id \in DOMAIN r.reasons
               /\ r.reasons[graph.nodes[k].id] = ListedReasons(graph.nodes[k])
    <3>1. graph.nodes[k].id \in NodesOf("claim")
      BY <2>1, VerifiedIsClean DEF Indexes, NodesOf
    <3>2. r.reasons = [claim \in NodesOf("claim") |-> Reasons(claim)]
      BY DEF IInv, ReportIsComplete
    <3> QED
      BY <2>1, <3>1, <3>2, ReasonsAreListed
  <2>2. ASSUME NEW k \in DOMAIN graph.edges
        PROVE  \E i, j \in DOMAIN graph.nodes :
                 /\ graph.nodes[i].id = graph.edges[k].from
                 /\ graph.nodes[j].id = graph.edges[k].to
                 /\ graph.nodes[i].type \in EndpointTypes[graph.edges[k].type].from
                 /\ graph.nodes[j].type \in EndpointTypes[graph.edges[k].type].to
    <3>1. EndpointErrors(graph.edges[k]) = {}
      BY VerifiedIsClean
    <3>2. /\ graph.edges[k].from \in DOMAIN nodeIndex
          /\ graph.edges[k].to \in DOMAIN nodeIndex
          /\ nodeIndex[graph.edges[k].from].type \in EndpointTypes[graph.edges[k].type].from
          /\ nodeIndex[graph.edges[k].to].type \in EndpointTypes[graph.edges[k].type].to
      BY <3>1, EndpointsFit
    <3>3. Indexes(nodeIndex, graph.nodes, DOMAIN graph.nodes)
      BY VerifiedIsClean
    <3>4. PICK i \in DOMAIN graph.nodes, j \in DOMAIN graph.nodes :
            graph.nodes[i].id = graph.edges[k].from /\ graph.nodes[j].id = graph.edges[k].to
      BY <3>2, <3>3 DEF Indexes
    <3>5. /\ nodeIndex[graph.edges[k].from] = graph.nodes[i]
          /\ nodeIndex[graph.edges[k].to] = graph.nodes[j]
      BY <3>3, <3>4 DEF Indexes
    <3> QED
      BY <3>2, <3>4, <3>5
  <2> QED
    BY <2>1, <2>2 DEF VerifiedGraphHidesNothing
<1> QED
  BY <1>1, Invariance, PTL

(***************************************************************************)
(* In a graph verified against a root, every listed source has its bytes on *)
(* disk and every digest is that of a source its item cites.                *)
(***************************************************************************)
THEOREM SourcesAreOnDisk == Spec => []VerifiedSourcesAreOnDisk
<1>1. IInv => VerifiedSourcesAreOnDisk
  <2> SUFFICES ASSUME IInv, Verified, graph.rooted PROVE VerifiedSourcesAreOnDisk
    BY DEF VerifiedSourcesAreOnDisk
  <2>1. Indexes(sourceIndex, graph.sources, DOMAIN graph.sources)
    BY VerifiedIsClean
  <2>2. ASSUME NEW k \in DOMAIN graph.sources
        PROVE  /\ graph.sources[k].uri \in DOMAIN graph.files
               /\ graph.files[graph.sources[k].uri] = graph.sources[k].digest
    <3>1. /\ graph.sources[k].id \in DOMAIN sourceIndex
          /\ sourceIndex[graph.sources[k].id] = graph.sources[k]
      BY <2>1 DEF Indexes
    <3>2. SourceErrors(graph.sources[k]) = {}
      BY <3>1, VerifiedIsClean
    <3> QED
      BY <3>2, WhenEmpty DEF SourceErrors
  <2>3. ASSUME NEW item, RefErrors(item) = {}, item.digest # None
        PROVE  \E s \in DOMAIN graph.sources :
                 /\ graph.sources[s].id \in item.refs
                 /\ graph.files[graph.sources[s].uri] = item.digest
    <3>1. ~(/\ item.digest # None
            /\ \A r \in item.refs \cap DOMAIN sourceIndex : sourceIndex[r].digest # item.digest)
      BY <2>3 DEF RefErrors, When
    <3>2. PICK r \in item.refs \cap DOMAIN sourceIndex : sourceIndex[r].digest = item.digest
      BY <2>3, <3>1
    <3>3. PICK s \in DOMAIN graph.sources : graph.sources[s].id = r
      BY <2>1, <3>2 DEF Indexes
    <3>4. sourceIndex[r] = graph.sources[s]
      BY <2>1, <3>3 DEF Indexes
    <3> QED
      BY <2>2, <3>2, <3>3, <3>4
  <2>4. ASSUME NEW items \in {graph.nodes, graph.edges}, NEW k \in DOMAIN items
        PROVE  RefErrors(items[k]) = {}
    BY <2>4, VerifiedIsClean
  <2> QED
    BY <2>2, <2>3, <2>4 DEF VerifiedSourcesAreOnDisk
<1> QED
  BY <1>1, Invariance, PTL
=============================================================================

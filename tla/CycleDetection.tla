---------------------------- MODULE CycleDetection ----------------------------
(***************************************************************************)
(* The depth-first search that refuses cyclic dependency topologies         *)
(* (_dependency_cycle, in the shared-fate runner and again in the profile   *)
(* validator).  A call of visit is a frame; the nodes of the frames, bottom *)
(* up, are the list the code calls stack.                                   *)
(***************************************************************************)
EXTENDS Integers, Sequences, FiniteSets, DependencyGraph

CONSTANTS
  Node,    \* identifiers, ordered as the code sorts them
  Graphs   \* the graphs considered: node -> the references it lists

\* A reference that names no node of the graph has no references of its own.
ASSUME GraphsAssumption ==
  /\ Node \subseteq Nat
  /\ \A g \in Graphs : DOMAIN g \subseteq Node /\ \A n \in DOMAIN g : g[n] \in Seq(Node)

VARIABLES
  graph,   \* the graph searched
  phase,   \* "search" until the search has returned
  roots,   \* the keys of the graph not yet visited by the outer loop
  frames,  \* the calls of visit: [node, next], next the reference to look at
  mark,    \* state of a node: 1 is "active", 2 is "finished"
  cycle    \* what the search returns, << >> for None

vars == <<graph, phase, roots, frames, mark, cycle>>

TypeOK ==
  /\ graph \in Graphs
  /\ phase \in {"search", "done"}
  /\ roots \subseteq DOMAIN graph
  /\ \A k \in DOMAIN frames :
       /\ frames[k].node \in Node
       /\ frames[k].next \in 1 .. 1 + Len(IF frames[k].node \in DOMAIN graph
                                         THEN graph[frames[k].node] ELSE << >>)
  /\ mark \in [Node -> {"new", "active", "finished"}]
  /\ cycle \in Seq(Node)

RefsOf(n) == IF n \in DOMAIN graph THEN graph[n] ELSE << >>

\* The nodes n lists.
Successors == [n \in Node |-> {RefsOf(n)[k] : k \in DOMAIN RefsOf(n)}]

StartSearch ==
  /\ roots = DOMAIN graph
  /\ frames = << >>
  /\ mark = [n \in Node |-> "new"]
  /\ cycle = << >>

Init == graph \in Graphs /\ phase = "search" /\ StartSearch

FirstRoot == CHOOSE r \in roots : \A q \in roots : r <= q

Top == frames[Len(frames)]
Exhausted == Top.next > Len(RefsOf(Top.node))
NextRef == RefsOf(Top.node)[Top.next]

Advanced == [frames EXCEPT ![Len(frames)] = [Top EXCEPT !.next = Top.next + 1]]

EnterRoot ==
  /\ phase = "search"
  /\ frames = << >>
  /\ roots # {}
  /\ mark[FirstRoot] = "new"
  /\ mark' = [mark EXCEPT ![FirstRoot] = "active"]
  /\ frames' = <<[node |-> FirstRoot, next |-> 1]>>
  /\ roots' = roots \ {FirstRoot}
  /\ UNCHANGED <<graph, phase, cycle>>

SkipRoot ==
  /\ phase = "search"
  /\ frames = << >>
  /\ roots # {}
  /\ mark[FirstRoot] = "finished"
  /\ roots' = roots \ {FirstRoot}
  /\ UNCHANGED <<graph, phase, frames, mark, cycle>>

Enter ==
  /\ phase = "search"
  /\ frames # << >>
  /\ ~Exhausted
  /\ mark[NextRef] = "new"
  /\ mark' = [mark EXCEPT ![NextRef] = "active"]
  /\ frames' = Append(Advanced, [node |-> NextRef, next |-> 1])
  /\ UNCHANGED <<graph, phase, roots, cycle>>

\* Seeded fault: a node on the stack is skipped like a finished one.
SkipVisited ==
  /\ phase = "search"
  /\ frames # << >>
  /\ ~Exhausted
  /\ mark[NextRef] # "new"
  /\ frames' = Advanced
  /\ UNCHANGED <<graph, phase, roots, mark, cycle>>

SkipFinished ==
  /\ phase = "search"
  /\ frames # << >>
  /\ ~Exhausted
  /\ mark[NextRef] = "finished"
  /\ frames' = Advanced
  /\ UNCHANGED <<graph, phase, roots, mark, cycle>>

\* Seeded fault: the whole stack is reported, not the part from the node on.
StackReported ==
  [k \in 1 .. Len(frames) + 1 |-> IF k <= Len(frames) THEN frames[k].node ELSE NextRef]

\* The stack from the node on, and the node again.
ReportedCycle ==
  LET first == CHOOSE k \in DOMAIN frames : frames[k].node = NextRef
      size == Len(frames) - first + 1
  IN  [k \in 1 .. size + 1 |-> IF k <= size THEN frames[first + k - 1].node ELSE NextRef]

\* The cycle is returned through every frame: the search is over.
ReportCycle ==
  /\ phase = "search"
  /\ frames # << >>
  /\ ~Exhausted
  /\ mark[NextRef] = "active"
  /\ cycle' = ReportedCycle
  /\ phase' = "done"
  /\ UNCHANGED <<graph, roots, frames, mark>>

Leave ==
  /\ phase = "search"
  /\ frames # << >>
  /\ Exhausted
  /\ mark' = [mark EXCEPT ![Top.node] = "finished"]
  /\ frames' = SubSeq(frames, 1, Len(frames) - 1)
  /\ UNCHANGED <<graph, phase, roots, cycle>>

ReturnNone ==
  /\ phase = "search"
  /\ frames = << >>
  /\ roots = {}
  /\ phase' = "done"
  /\ UNCHANGED <<graph, roots, frames, mark, cycle>>

Next == \/ EnterRoot \/ SkipRoot
        \/ Enter \/ SkipFinished \/ ReportCycle \/ Leave
        \/ ReturnNone

\* The search is sequential code that runs to its end.
Spec == Init /\ [][Next]_vars /\ WF_vars(Next)

-----------------------------------------------------------------------------

(***************************************************************************)
(* A reported cycle is one: it ends where it starts, follows references     *)
(* only, and passes no other node twice.                                    *)
(***************************************************************************)
ReportedCycleIsReal ==
  cycle # << >> =>
    /\ Len(cycle) >= 2
    /\ cycle[1] = cycle[Len(cycle)]
    /\ \A k \in 1 .. Len(cycle) - 1 : cycle[k + 1] \in Successors[cycle[k]]
    /\ \A j, k \in 1 .. Len(cycle) - 1 : cycle[j] = cycle[k] => j = k

(***************************************************************************)
(* A search that returns without a cycle has searched an acyclic graph:     *)
(* starting points, shared dependencies and repeated references hide none.  *)
(***************************************************************************)
SilentOnlyIfAcyclic ==
  phase = "done" /\ cycle = << >> => Acyclic(Node, Successors)
=============================================================================

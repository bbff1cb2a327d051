-------------------------- MODULE TopologyValidation --------------------------
(***************************************************************************)
(* The structural validation of a dependency topology (validate_topology):  *)
(* errors about identifiers and references are collected first, then the    *)
(* graph of the listed components is searched for a cycle.  Identifiers may *)
(* repeat; the graph keeps the last item of each.                           *)
(***************************************************************************)
EXTENDS CycleDetection

CONSTANT Topologies   \* the topologies considered: sequences of [id, refs]

ASSUME TopologiesAssumption == Topologies \subseteq Seq([id : Node, refs : Seq(Node)])

VARIABLES
  items,   \* the topology being validated
  errors   \* the errors found, by kind and subject

topologyVars == <<vars, items, errors>>

TopologyTypeOK ==
  /\ items \in Seq([id : Node, refs : Seq(Node)])
  /\ phase \in {"structure", "search", "done", "reported"}
  /\ roots \subseteq DOMAIN graph
  /\ mark \in [Node -> {"new", "active", "finished"}]
  /\ \A k \in DOMAIN frames : frames[k].next <= 1 + Len(RefsOf(frames[k].node))
  /\ \A e \in errors : e.kind \in {"empty", "duplicate_id", "duplicate_refs",
                                   "missing_ref", "self_ref", "cycle"}

Ids == {items[k].id : k \in DOMAIN items}
RefSet(k) == {items[k].refs[j] : j \in DOMAIN items[k].refs}

\* Seeded fault: of items with one id the graph keeps the first.
GraphOfFirst(topology) ==
  [n \in {topology[k].id : k \in DOMAIN topology} |->
     topology[CHOOSE k \in DOMAIN topology :
                topology[k].id = n /\ \A j \in 1 .. k - 1 : topology[j].id # n].refs]

\* The references of each id; of items with one id the last counts.
GraphOf(topology) ==
  [n \in {topology[k].id : k \in DOMAIN topology} |->
     topology[CHOOSE k \in DOMAIN topology :
                /\ topology[k].id = n
                /\ \A j \in k + 1 .. Len(topology) : topology[j].id # n].refs]

TopologyInit ==
  /\ items \in Topologies
  /\ errors = {}
  /\ phase = "structure"
  /\ graph = GraphOf(items)
  /\ StartSearch

\* Seeded fault: a reference to a component that is not listed is let pass.
StructuralErrorsNoMissing ==
  {[kind |-> "duplicate_id", id |-> n] :
     n \in {m \in Ids : Cardinality({k \in DOMAIN items : items[k].id = m}) > 1}}
    \cup {[kind |-> "duplicate_refs", id |-> items[k].id] :
            k \in {m \in DOMAIN items : Len(items[m].refs) # Cardinality(RefSet(m))}}
    \cup {[kind |-> "self_ref", id |-> items[k].id] :
            k \in {m \in DOMAIN items : items[m].id \in RefSet(m)}}

StructuralErrors ==
  {[kind |-> "duplicate_id", id |-> n] :
     n \in {m \in Ids : Cardinality({k \in DOMAIN items : items[k].id = m}) > 1}}
    \cup {[kind |-> "duplicate_refs", id |-> items[k].id] :
            k \in {m \in DOMAIN items : Len(items[m].refs) # Cardinality(RefSet(m))}}
    \cup (UNION {{[kind |-> "missing_ref", id |-> items[k].id] : r \in RefSet(k) \ Ids} :
                   k \in DOMAIN items})
    \cup {[kind |-> "self_ref", id |-> items[k].id] :
            k \in {m \in DOMAIN items : items[m].id \in RefSet(m)}}

\* An empty topology is refused at once.
RejectEmpty ==
  /\ phase = "structure"
  /\ items = << >>
  /\ errors' = {[kind |-> "empty"]}
  /\ phase' = "reported"
  /\ UNCHANGED <<items, graph, roots, frames, mark, cycle>>

CheckStructure ==
  /\ phase = "structure"
  /\ items # << >>
  /\ errors' = StructuralErrors
  /\ phase' = "search"
  /\ UNCHANGED <<items, graph, roots, frames, mark, cycle>>

Search == Next /\ UNCHANGED <<items, errors>>

\* The cycle, if the search returned one, is one more error.
Report ==
  /\ phase = "done"
  /\ errors' = errors \cup (IF cycle # << >> THEN {[kind |-> "cycle"]} ELSE {})
  /\ phase' = "reported"
  /\ UNCHANGED <<items, graph, roots, frames, mark, cycle>>

TopologyNext == RejectEmpty \/ CheckStructure \/ Search \/ Report

TopologySpec ==
  TopologyInit /\ [][TopologyNext]_topologyVars /\ WF_topologyVars(TopologyNext)

-----------------------------------------------------------------------------

\* Each listed component depends on listed components, and on none twice.
WellFormed ==
  /\ Cardinality(Ids) = Len(items)
  /\ \A k \in DOMAIN items :
       /\ RefSet(k) \subseteq Ids
       /\ \A i, j \in DOMAIN items[k].refs : items[k].refs[i] = items[k].refs[j] => i = j

\* The dependencies all items declare together, shadowed ones included.
Declared == [n \in Node |-> UNION {RefSet(k) : k \in {m \in DOMAIN items : items[m].id = n}}]

(***************************************************************************)
(* A topology passes without error exactly if it is non-empty, well formed  *)
(* and acyclic in everything it declares: no defect hides another, and a    *)
(* repeated identifier cannot shadow a cycle out of sight.                  *)
(***************************************************************************)
AcceptsExactlyDags ==
  phase = "reported" =>
    (errors = {} <=> items # << >> /\ WellFormed /\ Acyclic(Node, Declared))

(***************************************************************************)
(* The cycle error speaks of the dictionary of components, in which the     *)
(* last item of a repeated id counts, whatever else is wrong.               *)
(***************************************************************************)
CycleErrorMeansCyclic ==
  phase = "reported" =>
    ([kind |-> "cycle"] \in errors <=>
       ~Acyclic(Node, [n \in Node |->
          UNION {RefSet(k) : k \in {m \in DOMAIN items :
            items[m].id = n /\ \A j \in DOMAIN items : items[j].id = n => j <= m}}]))
=============================================================================

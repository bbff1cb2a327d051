----------------------------- MODULE AssuranceGraph -----------------------------
(***************************************************************************)
(* The verification of an assurance graph (validate_graph): the lists of    *)
(* sources, nodes and edges are indexed by id, the first of each id counts, *)
(* errors are collected along the way, and the reasons against each claim   *)
(* are worked out from the indexes.  The graph comes with the files under   *)
(* the artifact root, if one is given; a digest of bytes is the bytes.      *)
(***************************************************************************)
EXTENDS Integers, Sequences, ErrorSets

CONSTANTS
  Families,  \* families of inputs: the sources, nodes, edges, ... that combine
  None       \* no artifact digest

\* Sources, nodes and edges come as lists.
IsList(list) == Len(list) \in Nat /\ DOMAIN list = 1 .. Len(list)

ASSUME FamiliesAssumption ==
  \A f \in Families :
    /\ \A list \in f.sources : IsList(list)
    /\ \A list \in f.nodes : IsList(list)
    /\ \A list \in f.edges : IsList(list)

EndpointTypes ==
  [attempts |-> [from |-> {"intent"}, to |-> {"attempt"}],
   uses |-> [from |-> {"attempt"}, to |-> {"capability", "actor", "dependency"}],
   produces |-> [from |-> {"attempt"}, to |-> {"external_effect", "evidence", "artifact"}],
   observes |-> [from |-> {"attestation", "exercise", "evidence"},
                 to |-> {"evidence", "external_effect", "attempt"}],
   reconciles |-> [from |-> {"attempt", "evidence", "attestation", "exercise"},
                   to |-> {"external_effect"}],
   supports |-> [from |-> {"evidence", "attestation", "exercise", "artifact"},
                 to |-> {"claim"}],
   depends_on |-> [from |-> {"claim", "attempt", "exercise"}, to |-> {"dependency"}],
   invalidates |-> [from |-> {"dependency", "evidence", "attestation", "artifact"},
                    to |-> {"claim", "attestation"}],
   shares_fate_with |-> [from |-> {"dependency"}, to |-> {"dependency"}],
   hands_off_to |-> [from |-> {"attempt", "actor", "capability"},
                     to |-> {"actor", "capability", "attempt"}],
   produces_artifact |-> [from |-> {"exercise", "attempt", "attestation"},
                          to |-> {"artifact"}]]

EdgeTypes == DOMAIN EndpointTypes

VARIABLES
  graph,                                \* the graph under validation
  phase, at,                            \* the loop, and the item it is at
  sourceIndex, nodeIndex, edgeIndex,    \* id -> the first item with it
  edgePairs,                            \* [type, from, to] of the edges so far
  errors,                               \* kinds of errors
  report                                \* the result, once there is one

indexes == <<sourceIndex, nodeIndex, edgeIndex>>
vars == <<graph, phase, at, indexes, edgePairs, errors, report>>

KeepFirst(index, item) ==
  [id \in DOMAIN index \cup {item.id} |-> IF id \in DOMAIN index THEN index[id] ELSE item]

Empty == [id \in {} |-> None]

\* An edge type outside the vocabulary is an error of the schema.
Init ==
  /\ \E f \in Families :
       graph \in [sources : f.sources, nodes : f.nodes, edges : f.edges,
                 rooted : f.rooted, files : f.files]
  /\ phase = "sources" /\ at = 1
  /\ sourceIndex = Empty /\ nodeIndex = Empty /\ edgeIndex = Empty
  /\ edgePairs = {}
  /\ errors = When(\E k \in DOMAIN graph.edges : graph.edges[k].type \notin EdgeTypes, "schema")
  /\ report = {}

\* Seeded fault: a file that is there is not read.
SourceErrorsUnread(source) ==
  When(graph.rooted /\ source.uri \notin DOMAIN graph.files, "source_missing")

\* With a root, the file must be below it and have the digest.
SourceErrors(source) ==
  When(graph.rooted /\ source.uri \notin DOMAIN graph.files, "source_missing")
    \cup When(/\ graph.rooted /\ source.uri \in DOMAIN graph.files
              /\ graph.files[source.uri] # source.digest, "source_digest")

\* _check_source_refs: what an item cites is listed, and binds its digest.
RefErrors(item) ==
  LET known == item.refs \cap DOMAIN sourceIndex
  IN  When(item.refs # known, "missing_ref")
        \cup (UNION {SourceErrors(sourceIndex[r]) : r \in known})
        \cup When(~(item.provenance \subseteq DOMAIN sourceIndex), "missing_provenance")
        \cup When(item.digest # None /\ \A r \in known : sourceIndex[r].digest # item.digest,
                  "unbound_digest")

IndexSource ==
  /\ phase = "sources" /\ at \in DOMAIN graph.sources
  /\ LET source == graph.sources[at] IN
       /\ errors' = errors \cup When(source.id \in DOMAIN sourceIndex, "duplicate_source")
       /\ sourceIndex' = KeepFirst(sourceIndex, source)
  /\ at' = at + 1
  /\ UNCHANGED <<graph, phase, nodeIndex, edgeIndex, edgePairs, report>>

CheckNode ==
  /\ phase = "nodes" /\ at \in DOMAIN graph.nodes
  /\ LET node == graph.nodes[at] IN
       /\ errors' = errors \cup When(node.id \in DOMAIN nodeIndex, "duplicate_node")
                      \cup RefErrors(node)
       /\ nodeIndex' = KeepFirst(nodeIndex, node)
  /\ at' = at + 1
  /\ UNCHANGED <<graph, phase, sourceIndex, edgeIndex, edgePairs, report>>

Pair(edge) == [type |-> edge.type, from |-> edge.from, to |-> edge.to]

\* The types are looked at only if the edge leads somewhere.
EndpointErrors(edge) ==
  When(edge.from \notin DOMAIN nodeIndex, "dangling_from")
    \cup (IF edge.to \notin DOMAIN nodeIndex THEN {"dangling_to"}
          ELSE When(\/ edge.from \notin DOMAIN nodeIndex
                    \/ nodeIndex[edge.from].type \notin EndpointTypes[edge.type].from
                    \/ nodeIndex[edge.to].type \notin EndpointTypes[edge.type].to,
                    "endpoint_types"))

\* The lookup of the types of an unknown edge type is a KeyError.
Raises(edge) == edge.type \notin EdgeTypes /\ edge.to \in DOMAIN nodeIndex

\* Seeded fault: an edge under an id seen before is dropped without a word.
CheckEdgeShadowing ==
  /\ phase = "edges" /\ at \in DOMAIN graph.edges
  /\ LET edge == graph.edges[at] IN
       /\ ~Raises(edge)
       /\ errors' = errors \cup When(Pair(edge) \in edgePairs, "duplicate_edge")
                      \cup EndpointErrors(edge) \cup RefErrors(edge)
       /\ edgeIndex' = KeepFirst(edgeIndex, edge)
       /\ edgePairs' = edgePairs \cup {Pair(edge)}
  /\ at' = at + 1
  /\ UNCHANGED <<graph, phase, sourceIndex, nodeIndex, report>>

CheckEdge ==
  /\ phase = "edges" /\ at \in DOMAIN graph.edges
  /\ LET edge == graph.edges[at] IN
       /\ ~Raises(edge)
       /\ errors' = errors \cup When(edge.id \in DOMAIN edgeIndex, "duplicate_edge_id")
                      \cup When(Pair(edge) \in edgePairs, "duplicate_edge")
                      \cup EndpointErrors(edge) \cup RefErrors(edge)
       /\ edgeIndex' = KeepFirst(edgeIndex, edge)
       /\ edgePairs' = edgePairs \cup {Pair(edge)}
  /\ at' = at + 1
  /\ UNCHANGED <<graph, phase, sourceIndex, nodeIndex, report>>

Raise ==
  /\ phase = "edges" /\ at \in DOMAIN graph.edges
  /\ Raises(graph.edges[at])
  /\ phase' = "raised"
  /\ UNCHANGED <<graph, at, indexes, edgePairs, errors, report>>

\* The next loop; the last one looks at every source, cited or not.
Advance ==
  /\ \/ phase = "sources" /\ at \notin DOMAIN graph.sources /\ phase' = "nodes"
        /\ errors' = errors
     \/ phase = "nodes" /\ at \notin DOMAIN graph.nodes /\ phase' = "edges"
        /\ errors' = errors
     \/ phase = "edges" /\ at \notin DOMAIN graph.edges /\ phase' = "report"
        /\ errors' = errors \cup
             UNION {SourceErrors(sourceIndex[id]) : id \in DOMAIN sourceIndex}
  /\ at' = 1
  /\ UNCHANGED <<graph, indexes, edgePairs, report>>

EdgesOf(type) == {edgeIndex[id] : id \in {i \in DOMAIN edgeIndex : edgeIndex[i].type = type}}
NodesOf(type) == {id \in DOMAIN nodeIndex : nodeIndex[id].type = type}

SharedFate ==
  UNION {{e.from, e.to} : e \in {f \in EdgesOf("shares_fate_with") :
                                   {f.from, f.to} \subseteq NodesOf("dependency")}}

Invalidated == {e.to : e \in EdgesOf("invalidates")}

Reasons(claim) ==
  LET supports == {e \in EdgesOf("supports") : e.to = claim}
  IN  When(\/ nodeIndex[claim].assurance # "observed"
           \/ \E e \in supports : e.assurance # "observed", "not_observed")
        \cup When(\E e \in EdgesOf("depends_on") : e.from = claim /\ e.to \in SharedFate,
                  "shared_fate")
        \cup When(claim \in Invalidated \/ \E e \in supports : e.from \in Invalidated,
                  "invalidated")

Conclude ==
  /\ phase = "report"
  /\ report' = {[outcome |-> IF errors = {} THEN "GRAPH_VERIFIED" ELSE "GRAPH_REJECTED",
                 reasons |-> [claim \in NodesOf("claim") |-> Reasons(claim)]]}
  /\ phase' = "done"
  /\ UNCHANGED <<graph, at, indexes, edgePairs, errors>>

Next == IndexSource \/ CheckNode \/ CheckEdge \/ Raise \/ Advance \/ Conclude

Spec == Init /\ [][Next]_vars

-----------------------------------------------------------------------------

TypeOK ==
  /\ DOMAIN graph = {"sources", "nodes", "edges", "rooted", "files"}
  /\ phase \in {"sources", "nodes", "edges", "report", "done", "raised"}
  /\ at \in Nat \ {0}
  /\ \A id \in DOMAIN nodeIndex : nodeIndex[id].id = id
  /\ \A r \in report : DOMAIN r.reasons = NodesOf("claim")

Verified == \E r \in report : r.outcome = "GRAPH_VERIFIED"

Listed(type) == {graph.edges[k] : k \in {j \in DOMAIN graph.edges : graph.edges[j].type = type}}

\* The reasons against a claim as the graph lists its edges.
ListedReasons(claim) ==
  LET supports == {e \in Listed("supports") : e.to = claim.id}
  IN  When(claim.assurance # "observed" \/ \E e \in supports : e.assurance # "observed",
           "not_observed")
        \cup When(\E d \in Listed("depends_on"), s \in Listed("shares_fate_with") :
                    d.from = claim.id /\ d.to \in {s.from, s.to}, "shared_fate")
        \cup When(\E i \in Listed("invalidates") :
                    i.to = claim.id \/ \E s \in supports : s.from = i.to, "invalidated")

(***************************************************************************)
(* A verified graph hides nothing: every listed claim is reported, with     *)
(* every reason against it that some listed edge gives, although the        *)
(* reasons are worked out from indexes that drop what repeats an id; and    *)
(* every edge joins listed nodes of the types its own type allows.          *)
(***************************************************************************)
VerifiedGraphHidesNothing ==
  Verified =>
    /\ \A r \in report, k \in DOMAIN graph.nodes :
         graph.nodes[k].type = "claim" =>
           /\ graph.nodes[k].id \in DOMAIN r.reasons
           /\ r.reasons[graph.nodes[k].id] = ListedReasons(graph.nodes[k])
    /\ \A k \in DOMAIN graph.edges : LET edge == graph.edges[k] IN
         \E i, j \in DOMAIN graph.nodes :
           /\ graph.nodes[i].id = edge.from /\ graph.nodes[j].id = edge.to
           /\ graph.nodes[i].type \in EndpointTypes[edge.type].from
           /\ graph.nodes[j].type \in EndpointTypes[edge.type].to

(***************************************************************************)
(* In a graph verified against a root every listed source is a file with    *)
(* the bytes it had, whichever of several sources an id stands for, and the *)
(* digest a node or an edge carries is that of a source it cites itself.    *)
(***************************************************************************)
VerifiedSourcesAreOnDisk ==
  Verified /\ graph.rooted =>
    /\ \A k \in DOMAIN graph.sources : LET source == graph.sources[k] IN
         source.uri \in DOMAIN graph.files /\ graph.files[source.uri] = source.digest
    /\ \A items \in {graph.nodes, graph.edges} : \A k \in DOMAIN items :
         items[k].digest # None =>
           \E s \in DOMAIN graph.sources :
             /\ graph.sources[s].id \in items[k].refs
             /\ graph.files[graph.sources[s].uri] = items[k].digest
=============================================================================

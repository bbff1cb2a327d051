--------------------------- MODULE MCAssuranceGraph ---------------------------
(***************************************************************************)
(* AssuranceGraph on two families of graphs.  In the first one or two       *)
(* claims, two dependencies, an attestation and evidence are joined by up   *)
(* to three edges, sound ones and edges that dangle, join the wrong types   *)
(* or have no known type, under ids that may repeat; nodes may repeat or be *)
(* missing.  In the second two sources, under one id or two, stand for      *)
(* files that are missing, altered or intact.                               *)
(***************************************************************************)
EXTENDS AssuranceGraph

NodeOf(id, type, assurance) ==
  [id |-> id, type |-> type, assurance |-> assurance, refs |-> {"s1"},
   provenance |-> {}, digest |-> None]

EdgeOf(id, type, from, to, assurance) ==
  [id |-> id, type |-> type, from |-> from, to |-> to, assurance |-> assurance,
   refs |-> {"s1"}, provenance |-> {}, digest |-> None]

Others == <<NodeOf("d1", "dependency", "observed"), NodeOf("d2", "dependency", "observed"),
            NodeOf("a", "attestation", "observed"), NodeOf("e", "evidence", "inferred")>>

NodeLists ==
  {Others \o <<NodeOf("c", "claim", "observed")>>,
   Others \o <<NodeOf("c", "claim", "inferred"), NodeOf("c2", "claim", "observed")>>,
   <<NodeOf("d1", "dependency", "observed"), NodeOf("c", "claim", "observed")>>,
   Others \o <<NodeOf("c", "claim", "observed"), NodeOf("c", "claim", "inferred")>>,
   Others \o <<NodeOf("c", "claim", "observed"), NodeOf("a", "claim", "observed")>>}

\* type, from, to, assurance
Relations ==
  {<<"supports", "a", "c", "observed">>, <<"supports", "a", "c", "inferred">>,
   <<"supports", "e", "c", "observed">>, <<"supports", "a", "c2", "observed">>,
   <<"depends_on", "c", "d1", "observed">>, <<"depends_on", "c", "d2", "inferred">>,
   <<"shares_fate_with", "d1", "d2", "observed">>, <<"shares_fate_with", "d2", "d2", "observed">>,
   <<"invalidates", "d1", "c", "observed">>, <<"invalidates", "d2", "a", "observed">>,
   <<"invalidates", "e", "a", "observed">>, <<"observes", "a", "e", "observed">>,
   <<"depends_on", "c", "e", "observed">>, <<"supports", "d1", "c", "observed">>,
   <<"shares_fate_with", "d1", "missing", "observed">>, <<"endorses", "a", "c", "observed">>,
   <<"endorses", "a", "missing", "observed">>}

OneSource == <<[id |-> "s1", uri |-> "u1", digest |-> "old"]>>

\* The ids of the edges: the second and the third may repeat an earlier one.
EdgeIds(n) == {ids \in [1 .. n -> 1 .. n] : \A k \in 1 .. n : ids[k] \in {1, k}}

EdgeLists(relations, n) ==
  {[k \in 1 .. n |-> EdgeOf(ids[k], chosen[k][1], chosen[k][2], chosen[k][3], chosen[k][4])] :
     ids \in EdgeIds(n), chosen \in [1 .. n -> relations]}

Joined(nodeLists, relations, n) ==
  [sources |-> {OneSource}, nodes |-> nodeLists, edges |-> EdgeLists(relations, n),
   rooted |-> {FALSE}, files |-> {<< >>}]

Sources == [id : {"s1", "s2"}, uri : {"u1", "u2"}, digest : {"old", "new"}]

Cited ==
  {<<[NodeOf("c", "claim", "observed") EXCEPT
        !.refs = refs, !.provenance = provenance, !.digest = digest]>> :
     refs \in {{"s1"}, {"s2"}, {"s1", "s2"}}, provenance \in {{}, {"s1"}, {"s3"}},
     digest \in {None, "old", "new"}}

Sourced ==
  [sources |-> {<<s1, s2>> : s1 \in Sources, s2 \in Sources}, nodes |-> Cited,
   edges |-> {<< >>}, rooted |-> BOOLEAN,
   files |-> UNION {[U -> {"old", "new"}] : U \in SUBSET {"u1", "u2"}}]

MCFamilies ==
  {Joined(NodeLists, Relations, n) : n \in 0 .. 3} \cup {Sourced}
=============================================================================

------------------------ MODULE MCValidatedPropagation ------------------------
(***************************************************************************)
(* ValidatedPropagation on three families of topologies: up to three items  *)
(* over two ids that may repeat, every graph of three components, and every *)
(* acyclic graph of four.  In the first two each item lists at most two     *)
(* references, repeated ones and references to a missing component          *)
(* included; a failure is propagated through the third.                     *)
(***************************************************************************)
EXTENDS ValidatedPropagation, SequencesExt

MCNode == 1 .. 4
Refs(missing) == UNION {[1 .. n -> 1 .. missing] : n \in 0 .. 2}
MCGraphs == [1 .. 3 -> Refs(4)]

Repeating == UNION {[1 .. n -> [id : 1 .. 2, refs : Refs(3)]] : n \in 0 .. 3}
Distinct  == {[k \in 1 .. 3 |-> [id |-> k, refs |-> g[k]]] : g \in MCGraphs}

FourDags == {g \in [1 .. 4 -> SUBSET (1 .. 4)] : Acyclic(1 .. 4, g)}
Layered  == {[k \in 1 .. 4 |-> [id |-> k, refs |-> SetToSeq(g[k])]] : g \in FourDags}

MCTopologies == Repeating \cup Distinct \cup Layered
=============================================================================

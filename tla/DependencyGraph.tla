--------------------------- MODULE DependencyGraph ---------------------------
(***************************************************************************)
(* Reference definitions about a dependency graph, free of any order of     *)
(* evaluation: deps[c] is the set of components c depends on.  The loops of *)
(* the shared-fate runner are checked against these.                        *)
(***************************************************************************)

\* Some component of every non-empty set depends on nothing within it.
Acyclic(Node, deps) ==
  \A S \in SUBSET Node : S # {} => \E c \in S : deps[c] \cap S = {}

\* A set of components that holds whatever depends on one of its members.
ClosedUpwards(Node, deps, S) ==
  \A c \in Node : deps[c] \cap S # {} => c \in S

\* What the failure of a set of components disables: the least closed set
\* that holds them.
Disabled(Node, deps, failed) ==
  LET closed == {S \in SUBSET Node : failed \subseteq S /\ ClosedUpwards(Node, deps, S)}
  IN  {c \in Node : \A S \in closed : c \in S}
=============================================================================

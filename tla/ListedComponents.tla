--------------------------- MODULE ListedComponents ---------------------------
(***************************************************************************)
(* The components of a dependency topology, by their position in the list  *)
(* the profile gives.                                                       *)
(***************************************************************************)
EXTENDS Integers

CONSTANT ComponentCount   \* the length of the list
ASSUME ComponentCountAssumption == ComponentCount \in Nat \ {0}

Component == 1 .. ComponentCount
=============================================================================

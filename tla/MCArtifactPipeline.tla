-------------------------- MODULE MCArtifactPipeline --------------------------
(***************************************************************************)
(* ArtifactPipeline on a profile, a rewording of it under the same          *)
(* conditions, one with another workload, one without a lost response and   *)
(* one with a loss count the runner refuses.                                *)
(***************************************************************************)
EXTENDS ArtifactPipeline

MCProfile == {"original", "reworded", "larger", "lossless", "illegal"}
MCConditionsOf ==
  [p \in MCProfile |-> IF p = "reworded" THEN "original" ELSE p]
MCWitnessing == {"original", "larger"}
MCRunnable == MCWitnessing \cup {"lossless"}
=============================================================================

------------------------- MODULE ValidatedPropagation -------------------------
(***************************************************************************)
(* A call of propagate_failure as a whole: the topology is validated, a     *)
(* topology with errors is refused, and the failure of the targets is       *)
(* propagated through a topology that passed.  FailurePropagation starts    *)
(* from acyclic topologies with known references; here they are what the    *)
(* validation lets through.                                                 *)
(***************************************************************************)
EXTENDS TopologyValidation, ListedComponents

VARIABLES
  progress,     \* where the call stands after the validation
  targets,      \* the fault targets, as positions in the topology
  unavailable,  \* positions of the components disabled so far
  position,     \* the item the pass has reached
  changed       \* has this pass disabled anything

propagationVars == <<progress, targets, unavailable, position, changed>>
callVars == <<topologyVars, propagationVars>>

\* The dependencies between positions of the topology.
PositionRefs ==
  [k \in Component |->
     IF k \in DOMAIN items THEN {j \in DOMAIN items : items[j].id \in RefSet(k)} ELSE {}]

Propagation == INSTANCE FailurePropagation
  WITH deps <- PositionRefs, failed <- targets, phase <- progress

CallInit ==
  /\ TopologyInit
  /\ progress = "validating"
  /\ targets = {}
  /\ unavailable = {}
  /\ position = 1
  /\ changed = FALSE

Validate == TopologyNext /\ UNCHANGED propagationVars

\* Errors of the topology are raised, whoever called.
Refuse ==
  /\ progress = "validating"
  /\ phase = "reported"
  /\ errors # {}
  /\ progress' = "refused"
  /\ UNCHANGED <<topologyVars, targets, unavailable, position, changed>>

\* run_experiment validates the topology before it looks at anything else.
AcceptOnly ==
  /\ progress = "validating"
  /\ phase = "reported"
  /\ errors = {}
  /\ Len(items) # ComponentCount
  /\ progress' = "accepted"
  /\ UNCHANGED <<topologyVars, targets, unavailable, position, changed>>

Accept ==
  /\ progress = "validating"
  /\ phase = "reported"
  /\ errors = {}
  /\ Len(items) = ComponentCount
  /\ progress' = "check"
  /\ targets' \in SUBSET (Component \cup {Propagation!Missing})
  /\ UNCHANGED <<topologyVars, unavailable, position, changed>>

Propagate == UNCHANGED topologyVars /\ Propagation!Next

CallNext == Validate \/ Refuse \/ AcceptOnly \/ Accept \/ Propagate

\* The call is sequential code that runs to its end.
CallSpec == CallInit /\ [][CallNext]_callVars /\ WF_callVars(CallNext)

-----------------------------------------------------------------------------

(***************************************************************************)
(* What the call returns is the transitive set disabled by the failure, in  *)
(* whatever order the profile lists the components: the topologies that     *)
(* pass the validation are those the loop is exact on.                      *)
(***************************************************************************)
ReturnsDisabledSet == Propagation!ReturnsDisabledSet

(***************************************************************************)
(* Every call comes to its end, on cyclic topologies and dangling           *)
(* references too: an exception for a malformed topology, an exception for  *)
(* a target outside it, or a result.                                        *)
(***************************************************************************)
CallEnds ==
  <>(\/ progress = "refused" /\ errors # {}
     \/ progress = "rejected" /\ ~(targets \subseteq DOMAIN items)
     \/ progress \in {"accepted", "done"} /\ errors = {})
=============================================================================

-------------------------- MODULE FailurePropagation --------------------------
(***************************************************************************)
(* Failure propagation through a validated dependency topology              *)
(* (propagate_failure): repeated passes over the components, in the order   *)
(* the profile lists them, until a pass changes nothing.  Components are    *)
(* numbered in that order, so that every order is some choice of deps.      *)
(***************************************************************************)
EXTENDS ListedComponents, DependencyGraph

\* A fault target that names no component of the topology.
Missing == 0

VARIABLES
  deps,         \* dependencyRefs of each component
  failed,       \* the fault targets
  phase,        \* where the call stands
  unavailable,  \* the components disabled so far
  position,     \* the component the pass has reached
  changed       \* has this pass disabled anything

vars == <<deps, failed, phase, unavailable, position, changed>>

TypeOK ==
  /\ deps \in [Component -> SUBSET Component]
  /\ failed \subseteq Component \cup {Missing}
  /\ phase \in {"check", "pass", "done", "rejected"}
  /\ unavailable \subseteq Component
  /\ position \in 1 .. ComponentCount + 1
  /\ changed \in BOOLEAN

\* The topology has passed its validation: known references and no cycle.
Init ==
  /\ deps \in {d \in [Component -> SUBSET Component] : Acyclic(Component, d)}
  /\ failed \in SUBSET (Component \cup {Missing})
  /\ phase = "check"
  /\ unavailable = {}
  /\ position = 1
  /\ changed = FALSE

\* A target outside the topology is a ValueError.
RejectTargets ==
  /\ phase = "check"
  /\ ~(failed \subseteq Component)
  /\ phase' = "rejected"
  /\ UNCHANGED <<deps, failed, unavailable, position, changed>>

StartPropagation ==
  /\ phase = "check"
  /\ failed \subseteq Component
  /\ unavailable' = failed
  /\ phase' = "pass"
  /\ UNCHANGED <<deps, failed, position, changed>>

DependsOnUnavailable(c) == deps[c] \cap unavailable # {}

Disable ==
  /\ phase = "pass"
  /\ position \in Component \ unavailable
  /\ DependsOnUnavailable(position)
  /\ unavailable' = unavailable \cup {position}
  /\ changed' = TRUE
  /\ position' = position + 1
  /\ UNCHANGED <<deps, failed, phase>>

LeaveAlone ==
  /\ phase = "pass"
  /\ position \in Component
  /\ position \in unavailable \/ ~DependsOnUnavailable(position)
  /\ position' = position + 1
  /\ UNCHANGED <<deps, failed, phase, unavailable, changed>>

\* Seeded fault: the flag of an earlier pass is never reset.
RepeatPassForever ==
  /\ phase = "pass"
  /\ position = ComponentCount + 1
  /\ changed
  /\ position' = 1
  /\ UNCHANGED <<deps, failed, phase, unavailable, changed>>

RepeatPass ==
  /\ phase = "pass"
  /\ position = ComponentCount + 1
  /\ changed
  /\ position' = 1
  /\ changed' = FALSE
  /\ UNCHANGED <<deps, failed, phase, unavailable>>

\* Seeded fault: a single pass is taken for enough.
ReturnAfterOnePass ==
  /\ phase = "pass"
  /\ position = ComponentCount + 1
  /\ phase' = "done"
  /\ UNCHANGED <<deps, failed, unavailable, position, changed>>

Return ==
  /\ phase = "pass"
  /\ position = ComponentCount + 1
  /\ ~changed
  /\ phase' = "done"
  /\ UNCHANGED <<deps, failed, unavailable, position, changed>>

Next == \/ RejectTargets \/ StartPropagation
        \/ Disable \/ LeaveAlone \/ RepeatPass \/ Return

\* The call is sequential code that runs to its end.
Spec == Init /\ [][Next]_vars /\ WF_vars(Next)

-----------------------------------------------------------------------------

(***************************************************************************)
(* At no point of the loop is a component declared unavailable that no      *)
(* chain of dependencies leads from to a fault target: an independent       *)
(* fallback is never falsely disqualified.                                  *)
(***************************************************************************)
OnlyDependentsDisabled == unavailable \subseteq Disabled(Component, deps, failed)

(***************************************************************************)
(* What the call returns is the transitive set disabled by the failure, in  *)
(* whatever order the profile lists the components.                         *)
(***************************************************************************)
ReturnsDisabledSet ==
  phase = "done" => unavailable = Disabled(Component, deps, failed)
=============================================================================

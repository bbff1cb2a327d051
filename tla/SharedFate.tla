------------------------------ MODULE SharedFate ------------------------------
(***************************************************************************)
(* The shared-fate experiment (run_experiment and the findings of           *)
(* build_artifacts): validate the scenario, propagate the injected faults,  *)
(* look for groups of critical roles that one fault takes down together,    *)
(* observe what is left, and exercise one commit through the degraded path. *)
(* Validation and propagation are used by contract: TopologyValidation and  *)
(* FailurePropagation show that the loops compute what is used here.        *)
(***************************************************************************)
EXTENDS Integers, FiniteSets, DependencyGraph

CONSTANTS
  Component,     \* the component identifiers
  Scenarios      \* what a profile may declare, see ScenarioAssumption

CriticalRoles == {"primary_execution", "fallback_execution", "authorization",
                  "external_outcome", "human_handover"}

\* A topology is a list of components.
ASSUME ComponentAssumption == IsFiniteSet(Component)

ASSUME ScenarioAssumption ==
  \A s \in Scenarios :
    /\ s.deps \in [Component -> SUBSET Component]
    /\ s.role \in [Component -> CriticalRoles \cup {"other"}]
    /\ s.parameters \in {"numbers", "not_numbers", "unreadable"}
    /\ s.claimListed \in BOOLEAN
    /\ DOMAIN s = {"mode", "deps", "role", "targets", "guard", "parameters", "claimListed"}

VARIABLES
  scenario,     \* the declared scenario
  phase,        \* where run_experiment stands
  unavailable,  \* the components the faults disable
  examined,     \* the fault targets examined for shared fate
  groups,       \* sharedFateGroups: [target, roles]
  flow          \* what the degraded control flow did

vars == <<scenario, phase, unavailable, examined, groups, flow>>

NoFlow == [commits |-> 0, unauthorized |-> 0, halted |-> FALSE]

TypeOK ==
  /\ scenario.deps \in [Component -> SUBSET Component]
  /\ phase \in {"validate", "propagate", "group", "exercise", "reported", "raised"}
  /\ unavailable \subseteq Component
  /\ examined \subseteq scenario.targets
  /\ \A g \in groups : g.target \in examined /\ g.roles \subseteq CriticalRoles
  /\ flow \in [commits : 0 .. 1, unauthorized : 0 .. 1, halted : BOOLEAN]

Init ==
  /\ scenario \in Scenarios
  /\ phase = "validate"
  /\ unavailable = {}
  /\ examined = {}
  /\ groups = {}
  /\ flow = NoFlow

ObservedRoles == {scenario.role[c] : c \in Component}

Valid ==
  /\ scenario.mode = "deterministic_simulation"
  /\ Acyclic(Component, scenario.deps)
  /\ CriticalRoles \subseteq ObservedRoles

\* Wrong mode, invalid topology or a critical role nobody plays: ValueError.
ValidateScenario ==
  /\ phase = "validate"
  /\ phase' = IF Valid THEN "propagate" ELSE "raised"
  /\ UNCHANGED <<scenario, unavailable, examined, groups, flow>>

\* A fault in a component nobody listed is a ValueError; then the parameters of
\* the execution plan are read, and an item without name or value is a KeyError.
Propagates ==
  /\ scenario.targets \subseteq Component
  /\ scenario.parameters # "unreadable"

PropagateFaults ==
  /\ phase = "propagate"
  /\ IF Propagates
     THEN /\ unavailable' = Disabled(Component, scenario.deps, scenario.targets)
          /\ phase' = "group"
     ELSE phase' = "raised" /\ UNCHANGED unavailable
  /\ UNCHANGED <<scenario, examined, groups, flow>>

CriticalRolesOf(S) == {scenario.role[c] : c \in S} \cap CriticalRoles

\* Seeded fault: only the total loss of the critical roles counts.
SharesFateTotally(roles) == roles = CriticalRoles

SharesFate(roles) == Cardinality(roles) >= 2

\* One more fault target is propagated on its own.
ExamineTarget ==
  /\ phase = "group"
  /\ \E t \in scenario.targets \ examined :
       LET roles == CriticalRolesOf(Disabled(Component, scenario.deps, {t})) IN
       /\ groups' = groups \cup (IF SharesFate(roles)
                                 THEN {[target |-> t, roles |-> roles]} ELSE {})
       /\ examined' = examined \cup {t}
  /\ UNCHANGED <<scenario, phase, unavailable, flow>>

GroupsExamined ==
  /\ phase = "group"
  /\ examined = scenario.targets
  /\ phase' = "exercise"
  /\ UNCHANGED <<scenario, unavailable, examined, groups, flow>>

Available(roles) == \E c \in Component \ unavailable : scenario.role[c] \in roles

AuthorizationAvailable == Available({"authorization"})
ExternalOutcomeAvailable == Available({"external_outcome"})
OperatorChannelAvailable == Available({"human_handover"})
ExecutionAvailable == Available({"primary_execution", "fallback_execution"})
IndependentFallbacks ==
  {c \in Component \ unavailable : scenario.role[c] = "fallback_execution"}

\* Seeded fault: the guard bypass is not counted as a violation.
DegradedFlowUncounted ==
  IF ~ExecutionAvailable THEN NoFlow
  ELSE IF AuthorizationAvailable THEN [NoFlow EXCEPT !.commits = 1]
  ELSE IF scenario.guard = "fail_closed" THEN [NoFlow EXCEPT !.halted = TRUE]
  ELSE [NoFlow EXCEPT !.commits = 1]

\* Seeded fault: no commit without authority counts as a halt by the guard.
DegradedFlowHaltsAnyway ==
  IF ~AuthorizationAvailable /\ scenario.guard = "fail_closed"
  THEN [NoFlow EXCEPT !.halted = TRUE]
  ELSE IF ~ExecutionAvailable THEN NoFlow
  ELSE IF AuthorizationAvailable THEN [NoFlow EXCEPT !.commits = 1]
  ELSE [NoFlow EXCEPT !.commits = 1, !.unauthorized = 1]

\* One representative commit under a known guard mode.
DegradedFlow ==
  IF ~ExecutionAvailable THEN NoFlow
  ELSE IF AuthorizationAvailable THEN [NoFlow EXCEPT !.commits = 1]
  ELSE IF scenario.guard = "fail_closed" THEN [NoFlow EXCEPT !.halted = TRUE]
  ELSE [NoFlow EXCEPT !.commits = 1, !.unauthorized = 1]

\* The guard mode is looked at last, and only then refused if unknown.
GuardModeUnknown ==
  /\ ExecutionAvailable
  /\ ~AuthorizationAvailable
  /\ scenario.guard \notin {"fail_closed", "bypass_on_unavailable"}

\* KeyError without a guard mode, whether it would be looked at or not;
\* ValueError for an unknown one; StopIteration without the claim of the provider
\* outage; KeyError or ValueError for parameters that are missing or no numbers.
ExerciseRaises ==
  \/ scenario.guard = "absent"
  \/ GuardModeUnknown
  \/ ~scenario.claimListed
  \/ scenario.parameters = "not_numbers"

ExerciseDegradedFlow ==
  /\ phase = "exercise"
  /\ IF ExerciseRaises
     THEN phase' = "raised" /\ UNCHANGED flow
     ELSE phase' = "reported" /\ flow' = DegradedFlow
  /\ UNCHANGED <<scenario, unavailable, examined, groups>>

Next == \/ ValidateScenario \/ PropagateFaults
        \/ ExamineTarget \/ GroupsExamined \/ ExerciseDegradedFlow

\* The experiment is sequential code that runs to its end.
Spec == Init /\ [][Next]_vars /\ WF_vars(Next)

-----------------------------------------------------------------------------

\* What the report and the attestation state.
SharedFateDetected == groups # {}
ClaimResult == IF flow.unauthorized > 0 THEN "failed" ELSE "not_demonstrated"
FallbackGap == /\ \E c \in Component : scenario.role[c] = "fallback_execution"
               /\ IndependentFallbacks = {}

-----------------------------------------------------------------------------

(***************************************************************************)
(* A commit without any authorization component left is never reported as   *)
(* anything but a failed claim, and an authorized commit never fails one:   *)
(* the guard can be bypassed, but not silently.                             *)
(***************************************************************************)
UnauthorizedCommitFailsClaim ==
  phase = "reported" =>
    /\ flow.commits > 0 /\ ~AuthorizationAvailable => ClaimResult = "failed"
    /\ ClaimResult = "failed" => scenario.guard = "bypass_on_unavailable"
    /\ AuthorizationAvailable => ClaimResult = "not_demonstrated"

(***************************************************************************)
(* Zero commits are credited to the guard only if an execution path was     *)
(* there to attempt one: the loss of every path is not containment.         *)
(***************************************************************************)
HaltNeedsExecutionPath ==
  phase = "reported" /\ flow.halted =>
    /\ \E c \in Component \ Disabled(Component, scenario.deps, scenario.targets) :
         scenario.role[c] \in {"primary_execution", "fallback_execution"}
    /\ flow.commits = 0

(***************************************************************************)
(* A report without shared fate bounds the damage: the critical roles the   *)
(* faults touch are no more than the faults, for each touches one at most.  *)
(***************************************************************************)
UndetectedMeansOneRolePerFault ==
  phase = "reported" /\ ~SharedFateDetected =>
    Cardinality(CriticalRolesOf(unavailable)) <= Cardinality(scenario.targets)

(***************************************************************************)
(* When no execution path is left although a fallback is declared, the      *)
(* report says that the fallback is not independent, and if one fault did   *)
(* it, that the paths share its fate.                                       *)
(***************************************************************************)
LostPathsAreExplained ==
  phase = "reported" /\ ~ExecutionAvailable =>
    /\ FallbackGap
    /\ Cardinality(scenario.targets) = 1 => SharedFateDetected

(***************************************************************************)
(* The interpretation of the first material gap says that the fallback      *)
(* shares the failed boundary with primary execution, authorization,        *)
(* outcome lookup and human handover.  It is reported whenever no fallback  *)
(* is left, be the others available or not.                                 *)
(***************************************************************************)
FallbackGapMeansSharedBoundary ==
  phase = "reported" /\ FallbackGap =>
    /\ ~Available({"primary_execution"})
    /\ ~AuthorizationAvailable
    /\ ~ExternalOutcomeAvailable
    /\ ~OperatorChannelAvailable
=============================================================================

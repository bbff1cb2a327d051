--------------------------- MODULE SharedFateProofs ---------------------------
(***************************************************************************)
(* Proofs about the shared-fate experiment, for every topology, every set   *)
(* of fault targets and every scenario a profile may declare.  The          *)
(* inductive invariant says what each phase has established; that one role  *)
(* per fault bounds the damage rests on a lemma about the graph: what the   *)
(* targets disable together, one of them disables alone.                    *)
(***************************************************************************)
EXTENDS SharedFate, FunctionTheorems, FiniteSetTheorems, TLAPS

RolesLostTo(t) == CriticalRolesOf(Disabled(Component, scenario.deps, {t}))

\* What a phase takes for granted.
Established ==
  /\ phase \in {"propagate", "group", "exercise", "reported"} => Valid
  /\ phase \in {"group", "exercise", "reported"} =>
       /\ scenario.targets \subseteq Component
       /\ unavailable = Disabled(Component, scenario.deps, scenario.targets)
  /\ phase \in {"exercise", "reported"} => examined = scenario.targets
  /\ phase = "reported" => flow = DegradedFlow /\ ~ExerciseRaises

\* No examined target that takes two critical roles down is passed over.
GroupsAreComplete ==
  \A t \in examined : SharesFate(RolesLostTo(t)) => groups # {}

\* Why a run ends without a report.
RaisedForAReason ==
  phase = "raised" => ~Valid \/ ~Propagates \/ ExerciseRaises

Phases == {"validate", "propagate", "group", "exercise", "reported", "raised"}

IInv ==
  /\ scenario \in Scenarios /\ phase \in Phases
  /\ examined \subseteq scenario.targets
  /\ Established
  /\ GroupsAreComplete
  /\ RaisedForAReason

-----------------------------------------------------------------------------

LEMMA InitIInv == Init => IInv
BY DEF Init, IInv, Phases, Established, GroupsAreComplete, RaisedForAReason

LEMMA StepIInv == IInv /\ [Next]_vars => IInv'
<1> SUFFICES ASSUME IInv, [Next]_vars PROVE IInv'
  OBVIOUS
<1>1. CASE ValidateScenario
  BY <1>1 DEF ValidateScenario, IInv, Phases, Established, GroupsAreComplete,
              RaisedForAReason, Propagates, Valid, ObservedRoles, RolesLostTo, CriticalRolesOf
<1>2. CASE PropagateFaults
  BY <1>2 DEF PropagateFaults, IInv, Phases, Established, GroupsAreComplete,
              RaisedForAReason, Propagates, Valid, ObservedRoles, RolesLostTo, CriticalRolesOf
<1>3. CASE ExamineTarget
  <2>1. PICK t \in scenario.targets \ examined :
          /\ groups' = groups \cup (IF SharesFate(RolesLostTo(t))
                                    THEN {[target |-> t, roles |-> RolesLostTo(t)]} ELSE {})
          /\ examined' = examined \cup {t}
    BY <1>3 DEF ExamineTarget, RolesLostTo
  <2>2. UNCHANGED <<scenario, phase, unavailable, flow>> /\ phase = "group"
    BY <1>3 DEF ExamineTarget
  <2>3. GroupsAreComplete'
    <3> SUFFICES ASSUME NEW u \in examined', SharesFate(RolesLostTo(u))
                 PROVE  groups' # {}
      BY <2>2 DEF GroupsAreComplete, RolesLostTo, CriticalRolesOf
    <3> QED
      BY <2>1 DEF IInv, GroupsAreComplete
  <2>4. Established' /\ RaisedForAReason'
    BY <2>2 DEF IInv, Established, RaisedForAReason, Propagates, Valid, ObservedRoles
  <2> QED
    BY <2>1, <2>2, <2>3, <2>4 DEF IInv
<1>4. CASE GroupsExamined
  BY <1>4 DEF GroupsExamined, IInv, Phases, Established, GroupsAreComplete,
              RaisedForAReason, Propagates, Valid, ObservedRoles, RolesLostTo, CriticalRolesOf
<1>5. CASE ExerciseDegradedFlow
  <2>1. UNCHANGED <<scenario, unavailable, examined, groups>> /\ phase = "exercise"
    BY <1>5 DEF ExerciseDegradedFlow
  <2>2. GroupsAreComplete'
    BY <2>1 DEF IInv, GroupsAreComplete, RolesLostTo, CriticalRolesOf
  <2>3. (ExerciseRaises <=> ExerciseRaises') /\ DegradedFlow = DegradedFlow'
    BY <2>1 DEF ExerciseRaises, GuardModeUnknown, DegradedFlow, ExecutionAvailable,
                AuthorizationAvailable, Available
  <2>4. Valid' <=> Valid
    BY <2>1 DEF Valid, ObservedRoles
  <2>5. Established' /\ RaisedForAReason' /\ phase' \in Phases
    BY <1>5, <2>1, <2>3, <2>4
    DEF ExerciseDegradedFlow, Propagates, IInv, Phases, Established,
        RaisedForAReason
  <2> QED
    BY <2>1, <2>2, <2>5 DEF IInv
<1>6. CASE UNCHANGED vars
  <2>1. (ExerciseRaises <=> ExerciseRaises') /\ DegradedFlow = DegradedFlow'
    BY <1>6 DEF vars, ExerciseRaises, GuardModeUnknown, DegradedFlow, ExecutionAvailable,
                AuthorizationAvailable, Available
  <2> QED
    BY <1>6, <2>1 DEF vars, IInv, Established, GroupsAreComplete, RaisedForAReason,
                      Propagates, Valid, ObservedRoles, RolesLostTo, CriticalRolesOf
<1> QED
  BY <1>1, <1>2, <1>3, <1>4, <1>5, <1>6 DEF Next

(***************************************************************************)
(* Every reachable state of every run satisfies the inductive invariant.    *)
(***************************************************************************)
THEOREM Invariance == Spec => []IInv
<1> QED
  BY InitIInv, StepIInv, PTL DEF Spec

-----------------------------------------------------------------------------

(***************************************************************************)
(* A guard that is bypassed fails the claim, and nothing else does.         *)
(***************************************************************************)
THEOREM BypassIsNotSilent == Spec => []UnauthorizedCommitFailsClaim
<1>1. IInv => UnauthorizedCommitFailsClaim
  <2> SUFFICES ASSUME IInv, phase = "reported" PROVE UnauthorizedCommitFailsClaim
    BY DEF UnauthorizedCommitFailsClaim
  <2>1. flow = DegradedFlow /\ ~ExerciseRaises
    BY DEF IInv, Established
  <2> QED
    BY <2>1 DEF DegradedFlow, NoFlow, UnauthorizedCommitFailsClaim, ClaimResult,
                ExerciseRaises, GuardModeUnknown
<1> QED
  BY <1>1, Invariance, PTL

(***************************************************************************)
(* Only a guard that had an execution path to stop is credited with a halt. *)
(***************************************************************************)
THEOREM HaltIsContainment == Spec => []HaltNeedsExecutionPath
<1>1. IInv => HaltNeedsExecutionPath
  <2> SUFFICES ASSUME IInv, phase = "reported", flow.halted
               PROVE  HaltNeedsExecutionPath
    BY DEF HaltNeedsExecutionPath
  <2>1. flow = DegradedFlow
    BY DEF IInv, Established
  <2>2. unavailable = Disabled(Component, scenario.deps, scenario.targets)
    BY DEF IInv, Established
  <2>3. ExecutionAvailable /\ flow.commits = 0
    BY <2>1 DEF DegradedFlow, NoFlow
  <2> QED
    BY <2>2, <2>3 DEF ExecutionAvailable, Available, HaltNeedsExecutionPath
<1> QED
  BY <1>1, Invariance, PTL

-----------------------------------------------------------------------------

\* The roles of the components are finitely many.
LEMMA RolesAreFinite ==
  /\ IsFiniteSet(CriticalRoles)
  /\ \A S : IsFiniteSet(CriticalRolesOf(S)) /\ Cardinality(CriticalRolesOf(S)) \in Nat
<1>1. IsFiniteSet({"primary_execution"})
  BY FS_Singleton
<1>2. IsFiniteSet({"primary_execution"} \cup {"fallback_execution"})
  BY <1>1, FS_AddElement
<1>3. IsFiniteSet({"primary_execution"} \cup {"fallback_execution"} \cup {"authorization"})
  BY <1>2, FS_AddElement
<1>4. IsFiniteSet({"primary_execution"} \cup {"fallback_execution"} \cup {"authorization"}
                    \cup {"external_outcome"})
  BY <1>3, FS_AddElement
<1>5. IsFiniteSet({"primary_execution"} \cup {"fallback_execution"} \cup {"authorization"}
                    \cup {"external_outcome"} \cup {"human_handover"})
  BY <1>4, FS_AddElement
<1>6. CriticalRoles = {"primary_execution"} \cup {"fallback_execution"}
                        \cup {"authorization"} \cup {"external_outcome"}
                        \cup {"human_handover"}
  BY DEF CriticalRoles
<1>7. IsFiniteSet(CriticalRoles)
  BY <1>5, <1>6
<1>8. ASSUME NEW S
      PROVE  IsFiniteSet(CriticalRolesOf(S)) /\ Cardinality(CriticalRolesOf(S)) \in Nat
  <2>1. CriticalRolesOf(S) \in SUBSET CriticalRoles
    BY DEF CriticalRolesOf
  <2>2. IsFiniteSet(CriticalRolesOf(S))
    BY <1>7, <2>1, FS_Subset
  <2> QED
    BY <2>2, FS_CardinalityType
<1> QED
  BY <1>7, <1>8

\* Two different members make a set of two at least.
LEMMA TwoOrMore ==
  ASSUME NEW R, IsFiniteSet(R), NEW a \in R, NEW b \in R, a # b
  PROVE  Cardinality(R) >= 2
<1>1. IsFiniteSet({a}) /\ Cardinality({a}) = 1
  BY FS_Singleton
<1>2. Cardinality({a} \cup {b}) = 2
  BY <1>1, FS_AddElement
<1>3. {a} \cup {b} \in SUBSET R
  OBVIOUS
<1>4. Cardinality({a} \cup {b}) <= Cardinality(R)
  BY <1>3, FS_Subset
<1>5. Cardinality(R) \in Nat
  BY FS_CardinalityType
<1> QED
  BY <1>2, <1>4, <1>5

(***************************************************************************)
(* A report in which every execution path is lost says that the fallback is *)
(* not independent, and that a fault that did it alone was shared.          *)
(***************************************************************************)
THEOREM LossOfPathsIsExplained == Spec => []LostPathsAreExplained
<1>1. IInv => LostPathsAreExplained
  <2> SUFFICES ASSUME IInv, phase = "reported", ~ExecutionAvailable
               PROVE  /\ FallbackGap
                      /\ Cardinality(scenario.targets) = 1 => SharedFateDetected
    BY DEF LostPathsAreExplained
  <2>1. CriticalRoles \subseteq ObservedRoles /\ scenario.targets \subseteq Component
    BY DEF IInv, Established, Valid
  <2>2. unavailable = Disabled(Component, scenario.deps, scenario.targets)
    BY DEF IInv, Established
  <2>3. PICK p \in Component, f \in Component :
          scenario.role[p] = "primary_execution" /\ scenario.role[f] = "fallback_execution"
    BY <2>1 DEF CriticalRoles, ObservedRoles
  <2>4. p \in unavailable /\ f \in unavailable
    BY <2>3 DEF ExecutionAvailable, Available
  <2>5. FallbackGap
    BY <2>3 DEF ExecutionAvailable, Available, FallbackGap, IndependentFallbacks
  <2>6. ASSUME Cardinality(scenario.targets) = 1 PROVE SharedFateDetected
    <3>1. IsFiniteSet(scenario.targets)
      BY <2>1, ComponentAssumption, FS_Subset
    <3>2. PICK t : scenario.targets = {t}
      BY <2>6, <3>1, FS_Singleton
    <3>3. {"primary_execution", "fallback_execution"} \subseteq RolesLostTo(t)
      BY <2>2, <2>3, <2>4, <3>2 DEF RolesLostTo, CriticalRolesOf, CriticalRoles
    <3>4. Cardinality(RolesLostTo(t)) >= 2
      <4>1. IsFiniteSet(RolesLostTo(t))
        BY RolesAreFinite DEF RolesLostTo
      <4>2. "primary_execution" # "fallback_execution"
        OBVIOUS
      <4> QED
        BY <3>3, <4>1, <4>2, TwoOrMore
    <3>5. t \in examined
      BY <3>2 DEF IInv, Established
    <3> QED
      BY <3>4, <3>5 DEF IInv, GroupsAreComplete, SharesFate, SharedFateDetected
  <2> QED
    BY <2>5, <2>6
<1> QED
  BY <1>1, Invariance, PTL

-----------------------------------------------------------------------------

\* What a set disables is closed, and holds the set.
LEMMA DisabledIsClosed ==
  ASSUME NEW Node, NEW deps, NEW failed \in SUBSET Node
  PROVE  /\ ClosedUpwards(Node, deps, Disabled(Node, deps, failed))
         /\ failed \subseteq Disabled(Node, deps, failed)
BY DEF Disabled, ClosedUpwards

\* What the targets disable together, one of them disables alone.
LEMMA DisabledByOne ==
  ASSUME NEW Node, NEW deps, NEW failed \in SUBSET Node,
         NEW c \in Disabled(Node, deps, failed)
  PROVE  \E t \in failed : c \in Disabled(Node, deps, {t})
<1> DEFINE U == UNION {Disabled(Node, deps, {t}) : t \in failed}
<1>1. U \in SUBSET Node
  BY DEF Disabled
<1>2. failed \subseteq U
  <2> SUFFICES ASSUME NEW t \in failed PROVE t \in U
    OBVIOUS
  <2>1. t \in Disabled(Node, deps, {t})
    BY DEF Disabled
  <2> QED
    BY <2>1
<1>3. ClosedUpwards(Node, deps, U)
  <2> SUFFICES ASSUME NEW d \in Node, NEW e \in deps[d], e \in U PROVE d \in U
    BY DEF ClosedUpwards
  <2>1. PICK t \in failed : e \in Disabled(Node, deps, {t})
    OBVIOUS
  <2>2. d \in Disabled(Node, deps, {t})
    BY <2>1, DisabledIsClosed DEF ClosedUpwards
  <2> QED
    BY <2>2
<1>4. c \in U
  <2> HIDE DEF U
  <2> QED
    BY <1>1, <1>2, <1>3 DEF Disabled
<1> QED
  BY <1>4

\* What one target disables, all of them disable.
LEMMA DisabledIsMonotone ==
  ASSUME NEW Node, NEW deps, NEW failed, NEW t \in failed
  PROVE  Disabled(Node, deps, {t}) \subseteq Disabled(Node, deps, failed)
BY DEF Disabled

(***************************************************************************)
(* A report without shared fate names at least as many faults as critical   *)
(* roles are lost: each role lost is the only one some target takes down.   *)
(***************************************************************************)
THEOREM DamageIsBounded == Spec => []UndetectedMeansOneRolePerFault
<1>1. IInv => UndetectedMeansOneRolePerFault
  <2> SUFFICES ASSUME IInv, phase = "reported", ~SharedFateDetected
               PROVE  Cardinality(CriticalRolesOf(unavailable))
                        <= Cardinality(scenario.targets)
    BY DEF UndetectedMeansOneRolePerFault
  <2> DEFINE T == scenario.targets
             S == CriticalRolesOf(unavailable)
             Hit == {t \in T : RolesLostTo(t) # {}}
             f == [t \in Hit |-> CHOOSE r \in RolesLostTo(t) : TRUE]
  <2>1. T \in SUBSET Component /\ examined = T
    BY DEF IInv, Established
  <2>2. unavailable = Disabled(Component, scenario.deps, T)
    BY DEF IInv, Established
  <2>3. ASSUME NEW t \in T, NEW a \in RolesLostTo(t), NEW b \in RolesLostTo(t)
        PROVE  a = b
    <3>1. ~SharesFate(RolesLostTo(t))
      BY <2>1 DEF IInv, GroupsAreComplete, SharedFateDetected
    <3>2. IsFiniteSet(RolesLostTo(t))
      BY RolesAreFinite DEF RolesLostTo
    <3> QED
      BY <3>1, <3>2, TwoOrMore DEF SharesFate
  <2>4. ASSUME NEW r \in S PROVE \E t \in Hit : f[t] = r
    <3>1. PICK c \in unavailable : scenario.role[c] = r
      BY DEF CriticalRolesOf
    <3>2. PICK t \in T : c \in Disabled(Component, scenario.deps, {t})
      BY <2>1, <2>2, DisabledByOne
    <3>3. r \in RolesLostTo(t)
      BY <3>1, <3>2 DEF RolesLostTo, CriticalRolesOf
    <3>4. f[t] \in RolesLostTo(t) /\ t \in Hit
      BY <3>3
    <3> QED
      BY <2>3, <3>3, <3>4
  <2>5. ASSUME NEW t \in Hit PROVE f[t] \in S
    <3>1. f[t] \in RolesLostTo(t)
      OBVIOUS
    <3>2. Disabled(Component, scenario.deps, {t}) \subseteq unavailable
      BY <2>2, DisabledIsMonotone
    <3> QED
      BY <3>1, <3>2 DEF RolesLostTo, CriticalRolesOf
  <2>6. f \in Surjection(Hit, S)
    <3>1. f \in [Hit -> S]
      BY <2>5
    <3> HIDE DEF f, Hit, S
    <3> QED
      BY <2>4, <3>1, Fun_IsSurj
  <2>7. IsFiniteSet(T) /\ Cardinality(T) \in Nat
    BY <2>1, ComponentAssumption, FS_Subset, FS_CardinalityType
  <2>8. IsFiniteSet(Hit) /\ Cardinality(Hit) <= Cardinality(T)
    <3>1. Hit \in SUBSET T
      OBVIOUS
    <3> QED
      BY <2>7, <3>1, FS_Subset
  <2>9. Cardinality(S) <= Cardinality(Hit)
    BY <2>6, <2>8, FS_Surjection
  <2>10. Cardinality(S) \in Nat /\ Cardinality(Hit) \in Nat
    BY <2>8, RolesAreFinite, FS_CardinalityType
  <2> HIDE DEF S, T, Hit
  <2>11. Cardinality(S) <= Cardinality(T)
    BY <2>7, <2>8, <2>9, <2>10
  <2> QED
    BY <2>11 DEF S, T
<1> QED
  BY <1>1, Invariance, PTL
=============================================================================

---------------------- MODULE AttestationValidationProofs ----------------------
(***************************************************************************)
(* Proofs about validate_attestation, for every profile, attestation, set   *)
(* of files and replay.  First the loops: what is remembered and reported   *)
(* at any point is a function of the call and of how far the loops are, so  *)
(* that what is reported in the end is SemanticErrors of the call.  Then    *)
(* what it means that there is nothing to report.                           *)
(***************************************************************************)
EXTENDS AttestationValidation, TLAPS

\* The positions the two loops have passed.
ObservationsSeen ==
  IF phase = "header" THEN {}
  ELSE IF phase = "observations" THEN 1 .. cursor - 1
  ELSE DOMAIN Observations

ResultsSeen ==
  IF phase = "results" THEN 1 .. cursor - 1
  ELSE IF phase = "done" THEN DOMAIN Results
  ELSE {}

SeenObservations == {Observations[i] : i \in ObservationsSeen}
SeenResults      == {Results[i] : i \in ResultsSeen}

LoopsAgree ==
  /\ call \in Calls
  /\ phase \in {"header", "observations", "results", "done"}
  /\ cursor \in Nat \ {0}
  /\ phase = "header" => cursor = 1
  /\ phase = "observations" => cursor <= Len(Observations) + 1
  /\ phase = "results" => cursor <= Len(Results) + 1

RemembersExactly ==
  /\ verified = {o.id : o \in {p \in SeenObservations : Sound(call, p)}}
  /\ replayed = {o.id : o \in {p \in SeenObservations : IsReplayed(call, p)}}

\* The errors by the step that reports them.
HeaderPart == IF phase = "header" THEN {} ELSE HeaderErrors(call)
ObservationPart == UNION {ObservationErrors(call, o) : o \in SeenObservations}
BodyPart == IF phase \in {"results", "done"} THEN BodyErrors(call) ELSE {}
ResultPart ==
  UNION {ResultErrors(call, VerifiedIds(call), ReplayedIds(call), r) : r \in SeenResults}
SchedulePart == IF phase = "done" THEN ScheduleErrors(call) ELSE {}

ReportsExactly ==
  errors = HeaderPart \cup ObservationPart \cup BodyPart \cup ResultPart \cup SchedulePart

IInv == LoopsAgree /\ RemembersExactly /\ ReportsExactly

-----------------------------------------------------------------------------
(* The loops.                                                               *)

LEMMA ListsAreLists ==
  ASSUME LoopsAgree
  PROVE  /\ DOMAIN Observations = 1 .. Len(Observations) /\ Len(Observations) \in Nat
         /\ DOMAIN Results = 1 .. Len(Results) /\ Len(Results) \in Nat
<1>1. /\ Observations \in Seq(Elements(Observations))
      /\ Results \in Seq(Elements(Results))
  BY CallsAssumption DEF LoopsAgree, Observations, Results
<1> QED
  BY <1>1

LEMMA InitIInv == Init => IInv
<1> SUFFICES ASSUME Init PROVE IInv
  OBVIOUS
<1>1. /\ call \in Calls /\ phase = "header" /\ cursor = 1
      /\ verified = {} /\ replayed = {} /\ errors = {}
  BY DEF Init
<1>2. SeenObservations = {} /\ SeenResults = {}
  BY <1>1 DEF SeenObservations, ObservationsSeen, SeenResults, ResultsSeen
<1> QED
  BY <1>1, <1>2 DEF IInv, LoopsAgree, RemembersExactly, ReportsExactly, HeaderPart,
                    ObservationPart, BodyPart, ResultPart, SchedulePart

\* The arguments stay; what the two lists are follows.
LEMMA CallStays ==
  ASSUME [Next]_vars
  PROVE  call' = call /\ Observations' = Observations /\ Results' = Results
BY DEF Next, CheckHeader, CheckObservation, CheckBody, CheckResult, CheckSchedule, vars,
       Observations, Results

LEMMA HeaderIInv == ASSUME IInv, CheckHeader PROVE IInv'
<1>1. /\ phase = "header" /\ phase' = "observations" /\ errors' = HeaderErrors(call)
      /\ UNCHANGED <<cursor, verified, replayed>>
  BY DEF CheckHeader
<1>2. call' = call /\ Observations' = Observations /\ Results' = Results
  BY CallStays DEF Next
<1>3. cursor = 1 /\ Len(Observations) \in Nat
  BY <1>1, ListsAreLists DEF IInv, LoopsAgree
<1>4. /\ SeenObservations = {} /\ SeenObservations' = {}
      /\ SeenResults' = {}
  BY <1>1, <1>3 DEF SeenObservations, ObservationsSeen, SeenResults, ResultsSeen
<1>5. LoopsAgree'
  BY <1>1, <1>2, <1>3 DEF IInv, LoopsAgree
<1>6. RemembersExactly'
  BY <1>1, <1>4 DEF IInv, RemembersExactly
<1>7. ReportsExactly'
  BY <1>1, <1>2, <1>4
  DEF ReportsExactly, HeaderPart, ObservationPart, BodyPart, ResultPart, SchedulePart
<1> QED
  BY <1>5, <1>6, <1>7 DEF IInv

LEMMA ObservationIInv == ASSUME IInv, CheckObservation PROVE IInv'
<1> DEFINE observation == Observations[cursor]
<1>1. /\ phase = "observations" /\ phase' = "observations" /\ cursor <= Len(Observations)
      /\ errors' = errors \cup ObservationErrors(call, observation)
      /\ verified' = verified \cup When(Sound(call, observation), observation.id)
      /\ replayed' = replayed \cup When(IsReplayed(call, observation), observation.id)
      /\ cursor' = cursor + 1
  BY DEF CheckObservation
<1>2. call' = call /\ Observations' = Observations /\ Results' = Results
  BY CallStays DEF Next
<1>3. cursor \in Nat \ {0} /\ Len(Observations) \in Nat
  BY ListsAreLists DEF IInv, LoopsAgree
<1>4. SeenObservations' = SeenObservations \cup {observation}
  <2>1. 1 .. cursor' - 1 = (1 .. cursor - 1) \cup {cursor}
    BY <1>1, <1>3
  <2> QED
    BY <1>1, <1>2, <2>1 DEF SeenObservations, ObservationsSeen
<1>5. SeenResults' = {} /\ SeenResults = {}
  BY <1>1 DEF SeenResults, ResultsSeen
<1> HIDE DEF observation
<1>6. LoopsAgree'
  BY <1>1, <1>2, <1>3 DEF IInv, LoopsAgree
<1>7. RemembersExactly'
  <2>1. RemembersExactly
    BY DEF IInv
  <2>2. verified' = {o.id : o \in {p \in SeenObservations' : Sound(call, p)}}
    BY <1>1, <1>4, <2>1 DEF RemembersExactly, When
  <2>3. replayed' = {o.id : o \in {p \in SeenObservations' : IsReplayed(call, p)}}
    BY <1>1, <1>4, <2>1 DEF RemembersExactly, When
  <2> QED
    BY <1>2, <2>2, <2>3 DEF RemembersExactly
<1>8. ReportsExactly'
  <2>1. ObservationPart' = ObservationPart \cup ObservationErrors(call, observation)
    BY <1>2, <1>4 DEF ObservationPart
  <2>2. /\ HeaderPart' = HeaderPart /\ BodyPart' = BodyPart /\ ResultPart' = ResultPart
        /\ SchedulePart' = SchedulePart
    BY <1>1, <1>2, <1>5 DEF HeaderPart, BodyPart, ResultPart, SchedulePart
  <2>3. ReportsExactly
    BY DEF IInv
  <2> QED
    BY <1>1, <2>1, <2>2, <2>3 DEF ReportsExactly
<1> QED
  BY <1>6, <1>7, <1>8 DEF IInv

\* After the first loop every observation was seen.
LEMMA AllObservationsSeen ==
  ASSUME LoopsAgree,
         phase \in {"results", "done"} \/ (phase = "observations" /\ cursor > Len(Observations))
  PROVE  SeenObservations = Elements(Observations)
<1>1. /\ DOMAIN Observations = 1 .. Len(Observations) /\ Len(Observations) \in Nat
      /\ cursor \in Nat
  BY ListsAreLists DEF LoopsAgree
<1>2. ObservationsSeen = DOMAIN Observations
  BY <1>1 DEF LoopsAgree, ObservationsSeen
<1> QED
  BY <1>2 DEF SeenObservations, Elements

\* What it remembers then are the identifiers of the whole list.
LEMMA RemembersAll ==
  ASSUME IInv, phase \in {"results", "done"}
  PROVE  verified = VerifiedIds(call) /\ replayed = ReplayedIds(call)
<1>1. SeenObservations = Elements(call.attestation.observations)
  BY AllObservationsSeen DEF IInv, Observations
<1> QED
  BY <1>1 DEF IInv, RemembersExactly, VerifiedIds, ReplayedIds

LEMMA BodyIInv == ASSUME IInv, CheckBody PROVE IInv'
<1>1. /\ phase = "observations" /\ phase' = "results" /\ cursor > Len(Observations)
      /\ errors' = errors \cup BodyErrors(call) /\ cursor' = 1
      /\ UNCHANGED <<verified, replayed>>
  BY DEF CheckBody
<1>2. call' = call /\ Observations' = Observations /\ Results' = Results
  BY CallStays DEF Next
<1>3. SeenObservations' = SeenObservations
  <2>1. SeenObservations = Elements(Observations)
    BY <1>1, AllObservationsSeen DEF IInv
  <2>2. SeenObservations' = {Observations[i] : i \in DOMAIN Observations}
    BY <1>1, <1>2 DEF SeenObservations, ObservationsSeen
  <2> QED
    BY <2>1, <2>2 DEF Elements
<1>4. SeenResults' = {} /\ SeenResults = {}
  BY <1>1 DEF SeenResults, ResultsSeen
<1>5. LoopsAgree'
  BY <1>1, <1>2, ListsAreLists DEF IInv, LoopsAgree
<1>6. RemembersExactly'
  BY <1>1, <1>2, <1>3 DEF IInv, RemembersExactly
<1>7. ReportsExactly'
  <2>1. /\ ObservationPart' = ObservationPart /\ ResultPart' = ResultPart
        /\ HeaderPart' = HeaderPart /\ SchedulePart' = SchedulePart
    BY <1>1, <1>2, <1>3, <1>4 DEF ObservationPart, ResultPart, HeaderPart, SchedulePart
  <2>2. BodyPart = {} /\ BodyPart' = BodyErrors(call)
    BY <1>1, <1>2 DEF BodyPart
  <2> QED
    BY <1>1, <2>1, <2>2 DEF IInv, ReportsExactly
<1> QED
  BY <1>5, <1>6, <1>7 DEF IInv

LEMMA ResultIInv == ASSUME IInv, CheckResult PROVE IInv'
<1> DEFINE result == Results[cursor]
<1>1. /\ phase = "results" /\ phase' = "results" /\ cursor <= Len(Results)
      /\ errors' = errors \cup ResultErrors(call, verified, replayed, result)
      /\ cursor' = cursor + 1
      /\ UNCHANGED <<verified, replayed>>
  BY DEF CheckResult
<1>2. call' = call /\ Observations' = Observations /\ Results' = Results
  BY CallStays DEF Next
<1>3. cursor \in Nat \ {0} /\ Len(Results) \in Nat
  BY ListsAreLists DEF IInv, LoopsAgree
<1>4. SeenResults' = SeenResults \cup {result}
  <2>1. 1 .. cursor' - 1 = (1 .. cursor - 1) \cup {cursor}
    BY <1>1, <1>3
  <2> QED
    BY <1>1, <1>2, <2>1 DEF SeenResults, ResultsSeen
<1>5. SeenObservations' = SeenObservations
  BY <1>1, <1>2 DEF SeenObservations, ObservationsSeen
<1>6. LoopsAgree'
  BY <1>1, <1>2, <1>3 DEF IInv, LoopsAgree
<1>7. RemembersExactly'
  BY <1>1, <1>2, <1>5 DEF IInv, RemembersExactly
<1>8. ReportsExactly'
  <2>1. /\ ObservationPart' = ObservationPart /\ BodyPart' = BodyPart
        /\ HeaderPart' = HeaderPart /\ SchedulePart' = SchedulePart
    BY <1>1, <1>2, <1>5 DEF ObservationPart, BodyPart, HeaderPart, SchedulePart
  <2>2. errors' = errors \cup ResultErrors(call, VerifiedIds(call), ReplayedIds(call), result)
    BY <1>1, RemembersAll
  <2> HIDE DEF result
  <2>3. ResultPart' = ResultPart
          \cup ResultErrors(call, VerifiedIds(call), ReplayedIds(call), result)
    BY <1>2, <1>4 DEF ResultPart
  <2> QED
    BY <2>1, <2>2, <2>3 DEF IInv, ReportsExactly
<1> QED
  BY <1>6, <1>7, <1>8 DEF IInv

LEMMA ScheduleIInv == ASSUME IInv, CheckSchedule PROVE IInv'
<1>1. /\ phase = "results" /\ phase' = "done" /\ cursor > Len(Results)
      /\ errors' = errors \cup ScheduleErrors(call)
      /\ UNCHANGED <<cursor, verified, replayed>>
  BY DEF CheckSchedule
<1>2. call' = call /\ Observations' = Observations /\ Results' = Results
  BY CallStays DEF Next
<1>3. SeenResults' = SeenResults
  <2>1. ResultsSeen = DOMAIN Results
    BY <1>1, ListsAreLists DEF IInv, LoopsAgree, ResultsSeen
  <2>2. SeenResults' = {Results[i] : i \in DOMAIN Results}
    BY <1>1, <1>2 DEF SeenResults, ResultsSeen
  <2> QED
    BY <2>1, <2>2 DEF SeenResults
<1>4. SeenObservations' = SeenObservations
  BY <1>1, <1>2 DEF SeenObservations, ObservationsSeen
<1>5. LoopsAgree'
  BY <1>1, <1>2 DEF IInv, LoopsAgree
<1>6. RemembersExactly'
  BY <1>1, <1>2, <1>4 DEF IInv, RemembersExactly
<1>7. ReportsExactly'
  <2>1. /\ ObservationPart' = ObservationPart /\ BodyPart' = BodyPart
        /\ HeaderPart' = HeaderPart /\ ResultPart' = ResultPart
    BY <1>1, <1>2, <1>3, <1>4 DEF ObservationPart, BodyPart, HeaderPart, ResultPart
  <2>2. SchedulePart = {} /\ SchedulePart' = ScheduleErrors(call)
    BY <1>1, <1>2 DEF SchedulePart
  <2> QED
    BY <1>1, <2>1, <2>2 DEF IInv, ReportsExactly
<1> QED
  BY <1>5, <1>6, <1>7 DEF IInv

(***************************************************************************)
(* At any point of validate_attestation what the loops remember and report  *)
(* is determined by the call and by how far they are.                       *)
(***************************************************************************)
THEOREM Invariance == Spec => []IInv
<1>1. ASSUME IInv, [Next]_vars PROVE IInv'
  <2>1. CASE UNCHANGED vars
    BY <1>1, <2>1
    DEF vars, IInv, LoopsAgree, RemembersExactly, ReportsExactly, HeaderPart,
        ObservationPart, BodyPart, ResultPart, SchedulePart, SeenObservations,
        ObservationsSeen, SeenResults, ResultsSeen, Observations, Results
  <2> QED
    BY <1>1, <2>1, HeaderIInv, ObservationIInv, BodyIInv, ResultIInv, ScheduleIInv DEF Next
<1> QED
  BY <1>1, InitIInv, PTL DEF Spec

(***************************************************************************)
(* The pass over the call reports SemanticErrors of the call, neither more  *)
(* nor less: the identifiers the first loop remembers carry everything the  *)
(* second needs.  The packet verifier's model uses SemanticErrors for the   *)
(* whole of validate_attestation.                                           *)
(***************************************************************************)
THEOREM LoopsComputeTheSemantics ==
  Spec => [](phase = "done" => errors = SemanticErrors(call))
<1>1. ASSUME IInv, phase = "done" PROVE errors = SemanticErrors(call)
  <2>1. SeenObservations = Elements(call.attestation.observations)
    BY <1>1, AllObservationsSeen DEF IInv, Observations
  <2>2. SeenResults = Elements(call.attestation.results)
    BY <1>1 DEF SeenResults, ResultsSeen, Results, Elements
  <2>3. /\ HeaderPart = HeaderErrors(call) /\ BodyPart = BodyErrors(call)
        /\ SchedulePart = ScheduleErrors(call)
    BY <1>1 DEF HeaderPart, BodyPart, SchedulePart
  <2>4. ObservationPart =
          UNION {ObservationErrors(call, o) : o \in Elements(call.attestation.observations)}
    BY <2>1 DEF ObservationPart
  <2>5. ResultPart = UNION {ResultErrors(call, VerifiedIds(call), ReplayedIds(call), r) :
                              r \in Elements(call.attestation.results)}
    BY <2>2 DEF ResultPart
  <2>6. errors = HeaderPart \cup ObservationPart \cup BodyPart \cup ResultPart
                   \cup SchedulePart
    BY <1>1 DEF IInv, ReportsExactly
  <2> HIDE DEF HeaderPart, ObservationPart, BodyPart, ResultPart, SchedulePart
  <2> QED
    BY <2>3, <2>4, <2>5, <2>6 DEF SemanticErrors
<1>2. IInv => (phase = "done" => errors = SemanticErrors(call))
  BY <1>1
<1> QED
  BY <1>2, Invariance, PTL

-----------------------------------------------------------------------------
(* What it means that nothing is reported.                                  *)

\* An accepted call has none of the errors, wherever they are reported.
LEMMA AcceptedHasNoErrors ==
  ASSUME IInv, Accepted
  PROVE  /\ HeaderErrors(call) = {}
         /\ \A o \in Elements(Observations) : Sound(call, o)
         /\ \A r \in Elements(Results) :
              /\ r.claim \in DOMAIN call.profile.claims
              /\ ClaimErrors(call, VerifiedIds(call), ReplayedIds(call), r) = {}
<1>1. phase = "done" /\ errors = {}
  BY DEF Accepted
<1>2. HeaderPart = {} /\ ObservationPart = {} /\ ResultPart = {}
  BY <1>1 DEF IInv, ReportsExactly
<1>3. HeaderErrors(call) = {}
  BY <1>1, <1>2 DEF HeaderPart
<1>4. \A o \in Elements(Observations) : Sound(call, o)
  <2>1. SeenObservations = Elements(Observations)
    BY <1>1, AllObservationsSeen DEF IInv
  <2> QED
    BY <1>2, <2>1 DEF ObservationPart, Sound
<1>5. \A r \in Elements(Results) : ResultErrors(call, VerifiedIds(call), ReplayedIds(call), r) = {}
  <2>1. SeenResults = Elements(Results)
    BY <1>1 DEF SeenResults, ResultsSeen, Elements
  <2> QED
    BY <1>2, <2>1 DEF ResultPart
<1> QED
  BY <1>3, <1>4, <1>5 DEF ResultErrors

\* An identifier names one observation.
LEMMA ObservationsAreDistinct ==
  ASSUME HeaderErrors(call) = {}, NEW o \in Elements(Observations),
         NEW p \in Elements(Observations), o.id = p.id
  PROVE  o = p
<1>1. ~Repeats(call.attestation.observations, LAMBDA q : q.id)
  BY DEF HeaderErrors, When
<1>2. ~\E i, j \in DOMAIN Observations : i # j /\ Observations[i].id = Observations[j].id
  BY <1>1 DEF Repeats, Observations
<1> QED
  BY <1>2 DEF Elements

\* A satisfied observation whose file is sound is shown by that file.
LEMMA SoundIsShown ==
  ASSUME call \in Calls, NEW o, Sound(call, o), o.finding = "satisfied"
  PROVE  Shows(o, o.requirement)
<1> DEFINE file == call.files[o.artifact]
           expected == ExpectedOf(call, o)
<1>1. ExerciseEvidenceErrors(call.files, o.artifact, expected) = {}
  BY DEF Sound, ObservationErrors
<1>2. /\ o.artifact \in DOMAIN call.files /\ file.kind = "exercise"
      /\ ExerciseEnvelopeErrors(file, expected) = {}
  BY <1>1 DEF ExerciseEvidenceErrors
<1>3. file.observed \in Int /\ file.until \in Int /\ call.asOf \in Int
  BY <1>2, CallsAssumption
<1>4. /\ expected.scenario = call.attestation.scenario /\ expected.asOf = call.asOf
      /\ expected.requirement = o.requirement /\ expected.finding = "satisfied"
  BY DEF ExpectedOf
<1> HIDE DEF file, expected
<1>5. ContextErrors(file, expected) = {} /\ AssertionErrors(file, expected) = {}
  BY <1>2 DEF ExerciseEnvelopeErrors
<1>6. file.scenario = expected.scenario /\ EvidenceTimeErrors(file, expected.asOf) = {}
  BY <1>5 DEF ContextErrors, When
<1>7. file.observed <= call.asOf /\ call.asOf < file.until
  BY <1>3, <1>4, <1>6 DEF EvidenceTimeErrors, When
<1>8. PICK k \in Asserted(file, o.requirement) :
        /\ file.assertions[k].finding = "satisfied"
        /\ \A j \in DOMAIN file.assertions :
             file.assertions[j].requirement = o.requirement => j = k
  <2>1. ~\E j, k \in DOMAIN file.assertions :
           j # k /\ file.assertions[j].requirement = file.assertions[k].requirement
    BY <1>5 DEF AssertionErrors, When
  <2>2. \E k \in Asserted(file, o.requirement) : file.assertions[k].finding = "satisfied"
    BY <1>4, <1>5 DEF AssertionErrors, When
  <2> QED
    BY <2>1, <2>2 DEF Asserted
<1>9. /\ \E assertion \in Elements(file.assertions) : assertion.requirement = o.requirement
      /\ \A assertion \in Elements(file.assertions) :
           assertion.requirement = o.requirement => assertion.finding = "satisfied"
  BY <1>8 DEF Asserted, Elements
<1> QED
  BY <1>2, <1>4, <1>6, <1>7, <1>9 DEF Shows, file

\* A requirement satisfied by remembered identifiers has an observation of that
\* identifier that shows it.
LEMMA SatisfiedIsShown ==
  ASSUME IInv, Accepted, NEW ids, NEW requirement \in Satisfied(call.attestation, ids)
  PROVE  \E o \in Elements(Observations) : o.id \in ids /\ Shows(o, requirement)
<1>1. PICK o \in Elements(Observations) :
        o.requirement = requirement /\ o.finding = "satisfied" /\ o.id \in ids
  BY DEF Satisfied, Observations
<1>2. Sound(call, o) /\ call \in Calls
  BY AcceptedHasNoErrors DEF IInv, LoopsAgree
<1> QED
  BY <1>1, <1>2, SoundIsShown

(***************************************************************************)
(* An accepted result that claims a capability cites only requirements that *)
(* a file shows and that no observation contradicts, in whatever order the  *)
(* observations are listed, for every call.                                 *)
(***************************************************************************)
THEOREM AdverseEvidenceAlwaysBlocks == Spec => []AdverseEvidenceBlocks
<1>1. ASSUME IInv PROVE AdverseEvidenceBlocks
  <2> SUFFICES ASSUME Accepted, NEW result \in Elements(Results), result.capabilities # {},
                      NEW requirement \in result.evidence
               PROVE  /\ \E o \in Elements(Observations) : Shows(o, requirement)
                      /\ \A o \in Elements(Observations) :
                           o.requirement = requirement => o.finding = "satisfied"
    BY DEF AdverseEvidenceBlocks
  <2>1. EvidenceErrors(call.attestation, VerifiedIds(call), result) = {}
    BY <1>1, AcceptedHasNoErrors DEF ClaimErrors
  <2>2. /\ requirement \in Satisfied(call.attestation, VerifiedIds(call))
        /\ requirement \notin Adverse(call.attestation)
    BY <2>1 DEF EvidenceErrors, When
  <2>3. \E o \in Elements(Observations) : Shows(o, requirement)
    BY <1>1, <2>2, SatisfiedIsShown
  <2>4. \A o \in Elements(Observations) :
          o.requirement = requirement => o.finding = "satisfied"
    BY <2>2 DEF Adverse, Observations
  <2> QED
    BY <2>3, <2>4
<1> QED
  BY <1>1, Invariance, PTL

\* A result without errors has a binding for each of its capabilities, and no
\* other binding; if it has a technical one, the replays ran under the
\* conditions of the attestation.
LEMMA BindingsCoverCapabilities ==
  ASSUME NEW result, NEW ids, NEW replayIds,
         ClaimErrors(call, ids, replayIds, result) = {}
  PROVE  /\ \A b \in Elements(result.bindings) : b.capability \in result.capabilities
         /\ \A capability \in result.capabilities :
              \E b \in Elements(result.bindings) : b.capability = capability
         /\ result.capabilities \ HumanCapabilities # {} =>
              \A replay \in ReplaysOf(call, result.claim) :
                replay.conditions = call.attestation.conditions
<1> DEFINE bound == {b.capability : b \in Elements(result.bindings)}
<1>1. /\ When(result.capabilities # bound, "bindings_differ") = {}
      /\ When(/\ result.capabilities \ HumanCapabilities # {}
              /\ \E replay \in ReplaysOf(call, result.claim) :
                   replay.conditions # call.attestation.conditions, "replay_conditions") = {}
  BY DEF ClaimErrors
<1>2. result.capabilities = bound
  BY <1>1 DEF When
<1>3. ~(/\ result.capabilities \ HumanCapabilities # {}
        /\ \E replay \in ReplaysOf(call, result.claim) :
             replay.conditions # call.attestation.conditions)
  BY <1>1 DEF When
<1> QED
  BY <1>2, <1>3

\* A binding of an accepted result is reproduced by the replay, unless the
\* portable check supports its capability.
LEMMA BindingIsReproduced ==
  ASSUME IInv, Accepted, NEW result \in Elements(Results),
         NEW b \in Elements(result.bindings),
         b.capability \notin HumanCapabilities \cup PortableSupport(call, result.claim)
  PROVE  Reproduced(b.capability, result)
<1>1. /\ call \in Calls /\ HeaderErrors(call) = {}
      /\ ClaimErrors(call, VerifiedIds(call), ReplayedIds(call), result) = {}
      /\ \A o \in Elements(Observations) : Sound(call, o)
  BY AcceptedHasNoErrors DEF IInv, LoopsAgree
<1>2. BindingErrors(call, ReplayedIds(call), result, b) = {}
  BY <1>1 DEF ClaimErrors
<1>3. TechnicalErrors(call, ReplayedIds(call), result, b) = {}
  BY <1>2 DEF BindingErrors
<1>4. /\ b.evidence \subseteq Satisfied(call.attestation, ReplayedIds(call))
      /\ \E replay \in ReplaysOf(call, result.claim) : b \in replay.bindings[result.claim]
      /\ Values(call.attestation.measurements, b.measurements)
           = Values(ReplayedMeasurements(call), b.measurements)
  BY <1>3 DEF TechnicalErrors, When
<1>5. PICK replay \in Replays(call) :
        replay \in ReplaysOf(call, result.claim) /\ b \in replay.bindings[result.claim]
  BY <1>4 DEF ReplaysOf
<1>6. \A other \in Replays(call) : other = replay
  BY <1>1, <1>5, CallsAssumption DEF Replays
<1>7. replay.conditions = call.attestation.conditions
  <2>1. b.capability \in result.capabilities \ HumanCapabilities
    BY <1>1, BindingsCoverCapabilities
  <2> QED
    BY <1>1, <1>5, <2>1, BindingsCoverCapabilities
<1>8. \A m \in b.measurements : call.attestation.measurements[m] = replay.measurements[m]
  <2>1. b.measurements \subseteq DOMAIN call.attestation.measurements
    BY <1>2 DEF BindingErrors, When
  <2>2. ReplayedMeasurements(call) = replay.measurements
    BY <1>5, <1>6 DEF ReplayedMeasurements
  <2>3. Values(call.attestation.measurements, b.measurements)
          = Values(replay.measurements, b.measurements)
    BY <1>4, <2>2
  <2>4. ASSUME NEW m \in b.measurements
        PROVE  call.attestation.measurements[m] = replay.measurements[m]
    <3> DEFINE attested == call.attestation.measurements
               replayed_ == replay.measurements
    <3>1. Values(attested, b.measurements)[m] = attested[m]
      BY <2>1 DEF Values
    <3>2. m \in DOMAIN Values(replayed_, b.measurements)
      BY <2>1, <2>3 DEF Values
    <3>3. Values(replayed_, b.measurements)[m] = replayed_[m]
      BY <3>2 DEF Values
    <3> QED
      BY <2>3, <3>1, <3>3
  <2> QED
    BY <2>4
<1>9. \A requirement \in b.evidence : \E o \in Elements(Observations) :
        /\ Shows(o, requirement) /\ o.uri \in DOMAIN replay.artifacts
        /\ o.artifact = replay.artifacts[o.uri]
  <2> SUFFICES ASSUME NEW requirement \in b.evidence
               PROVE  \E o \in Elements(Observations) :
                        /\ Shows(o, requirement) /\ o.uri \in DOMAIN replay.artifacts
                        /\ o.artifact = replay.artifacts[o.uri]
    OBVIOUS
  <2>1. PICK o \in Elements(Observations) :
          o.id \in ReplayedIds(call) /\ Shows(o, requirement)
    BY <1>4, SatisfiedIsShown
  <2>2. PICK p \in Elements(Observations) : p.id = o.id /\ IsReplayed(call, p)
    BY <2>1 DEF ReplayedIds, Observations
  <2>3. p = o
    BY <1>1, <2>1, <2>2, ObservationsAreDistinct
  <2>4. o.uri \in DOMAIN replay.artifacts /\ o.artifact = replay.artifacts[o.uri]
    BY <1>6, <2>2, <2>3 DEF IsReplayed
  <2> QED
    BY <2>1, <2>4
<1> QED
  BY <1>5, <1>7, <1>8, <1>9 DEF Reproduced

(***************************************************************************)
(* No attestation is accepted that claims a capability on anyone's word, for*)
(* every call: the identifiers remembered across the loops cannot be made   *)
(* to vouch for a binding that the replay did not reproduce.                *)
(***************************************************************************)
THEOREM CapabilitiesAreAlwaysRecomputed == Spec => []CapabilitiesAreRecomputed
<1>1. ASSUME IInv PROVE CapabilitiesAreRecomputed
  <2> SUFFICES ASSUME Accepted, NEW result \in Elements(Results),
                      NEW capability \in result.capabilities
               PROVE  /\ capability \in
                           call.profile.claims[result.claim].capabilities \ HumanCapabilities
                      /\ \/ capability \in PortableSupport(call, result.claim)
                         \/ Reproduced(capability, result)
    BY DEF CapabilitiesAreRecomputed
  <2>1. ClaimErrors(call, VerifiedIds(call), ReplayedIds(call), result) = {}
    BY <1>1, AcceptedHasNoErrors
  <2>2. PICK b \in Elements(result.bindings) : b.capability = capability
    BY <2>1, BindingsCoverCapabilities
  <2>3. BindingErrors(call, ReplayedIds(call), result, b) = {}
    BY <2>1 DEF ClaimErrors
  <2>4. capability \in call.profile.claims[result.claim].capabilities
    BY <2>2, <2>3 DEF BindingErrors, When
  <2>5. capability \notin HumanCapabilities
    <3>1. HumanErrorsOf(result) = {}
      BY <2>1 DEF ClaimErrors
    <3> QED
      BY <3>1 DEF HumanErrorsOf, When
  <2>6. \/ capability \in PortableSupport(call, result.claim)
        \/ Reproduced(capability, result)
    BY <1>1, <2>2, <2>5, BindingIsReproduced
  <2> QED
    BY <2>4, <2>5, <2>6
<1> QED
  BY <1>1, Invariance, PTL
==============================================================================

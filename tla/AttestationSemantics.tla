------------------------- MODULE AttestationSemantics -------------------------
(***************************************************************************)
(* validate_attestation of tools/validate_profile.py, as the set of the     *)
(* kinds of errors it reports about one call.                               *)
(*                                                                          *)
(*   call    [profile, attestation, asOf, files, issuers, portable,         *)
(*           rebuilt, rebuildFails]: files as in EvidenceArtifacts, issuers *)
(*           digest -> who signed that evidence, portable {} or {claim ->   *)
(*           capabilities the portable check supports}, rebuilt {} or       *)
(*           {replay}, what the scenario's built-in runner makes of it      *)
(*   profile [claims, scenarios, evidence], claims: identifier ->           *)
(*           [capabilities, evidence], scenarios: identifier -> [mode, claims] *)
(*   attestation [ofProfile, scenario, environment, issuer, mode, started,  *)
(*           completed, issued, until, uniqueIds, componentsLoad,           *)
(*           participation, faultsInside, conditions, measurements,         *)
(*           observations, results]                                         *)
(*   observation [id, requirement, finding, observed, artifact, uri],       *)
(*           artifact being the digest it gives                             *)
(*   result  [claim, outcome, capabilities, bindings, measurements, evidence] *)
(*   binding [capability, measurements, evidence]                           *)
(*   replay  [conditions, measurements, artifacts, bindings], artifacts:    *)
(*           uri -> digest, bindings: claim -> the bindings of its result   *)
(*                                                                          *)
(* uniqueIds is about the identifiers of measurements, faults, components   *)
(* and participants; the two checked here repeat in the sequences.          *)
(***************************************************************************)
EXTENDS EvidenceArtifacts

HumanCapabilities == {"handover", "human_takeover"}

Elements(sequence) == {sequence[i] : i \in DOMAIN sequence}

Repeats(sequence, Key(_)) ==
  \E i, j \in DOMAIN sequence : i # j /\ Key(sequence[i]) = Key(sequence[j])

\* The runner is only run again for a simulation, and never by the portable
\* verifier.
Replays(call) ==
  IF call.attestation.mode = "deterministic_simulation" /\ call.portable = {}
  THEN call.rebuilt ELSE {}

TimeOrderErrors(attestation, asOf) ==
  When(attestation.completed < attestation.started, "completed_before_start")
    \cup When(attestation.issued < attestation.completed, "issued_before_completion")
    \cup When(attestation.until <= attestation.issued, "expires_before_issue")
    \cup When(attestation.until <= asOf, "stale")

HeaderErrors(call) ==
  LET attestation == call.attestation
      scenarios   == call.profile.scenarios
      known       == attestation.scenario \in DOMAIN scenarios
  IN  When(~attestation.ofProfile, "profile_digest")
        \cup When(~known, "scenario_missing")
        \cup (IF known THEN When(attestation.mode # scenarios[attestation.scenario].mode, "mode")
              ELSE {})
        \cup TimeOrderErrors(attestation, call.asOf)
        \cup When(~attestation.uniqueIds, "duplicate_id")
        \cup When(Repeats(attestation.results, LAMBDA r : r.claim), "duplicate_claim")
        \cup When(Repeats(attestation.observations, LAMBDA o : o.id), "duplicate_observation")
        \cup When(attestation.mode = "deterministic_simulation" /\ call.portable = {}
                    /\ call.rebuildFails, "replay_unavailable")

\* What the file an observation refers to must agree with.  It may be signed
\* by someone other than the attestation's issuer.
ExpectedOf(call, observation) ==
  [scenario |-> call.attestation.scenario, environment |-> call.attestation.environment,
   issuer |-> IF observation.artifact \in DOMAIN call.issuers
              THEN call.issuers[observation.artifact] ELSE call.attestation.issuer,
   requirement |-> observation.requirement, finding |-> observation.finding,
   observed |-> observation.observed, asOf |-> call.asOf]

ObservationErrors(call, observation) ==
  ExerciseEvidenceErrors(call.files, observation.artifact, ExpectedOf(call, observation))

Sound(call, observation) == ObservationErrors(call, observation) = {}

\* The bytes the observation rests on are those the replay made under that name.
IsReplayed(call, observation) ==
  /\ Sound(call, observation)
  /\ \E replay \in Replays(call) :
       /\ observation.uri \in DOMAIN replay.artifacts
       /\ replay.artifacts[observation.uri] = observation.artifact

BodyErrors(call) ==
  LET attestation == call.attestation
  IN  When(~attestation.componentsLoad, "component_artifact")
        \cup When(\E o \in Elements(attestation.observations) :
                    o.requirement \notin call.profile.evidence, "unknown_requirement")
        \cup When(~attestation.participation, "participation")

ScheduleErrors(call) == When(~call.attestation.faultsInside, "fault_schedule")

-----------------------------------------------------------------------------
\* What the loop over the claim results reads: requirements an observation of
\* some set of identifiers satisfies, and requirements with an adverse one.

Satisfied(attestation, ids) ==
  {o.requirement : o \in {p \in Elements(attestation.observations) :
                            p.finding = "satisfied" /\ p.id \in ids}}

Adverse(attestation) ==
  {o.requirement : o \in {p \in Elements(attestation.observations) : p.finding # "satisfied"}}

Values(measurements, ids) == [m \in DOMAIN measurements \cap ids |-> measurements[m]]

PortableSupport(call, claim) ==
  UNION {IF claim \in DOMAIN support THEN support[claim] ELSE {} : support \in call.portable}

\* The replay has a result for the claim.
ReplaysOf(call, claim) == {replay \in Replays(call) : claim \in DOMAIN replay.bindings}

ReplayedMeasurements(call) ==
  IF Replays(call) = {} THEN <<>> ELSE (CHOOSE replay \in Replays(call) : TRUE).measurements

\* Seeded fault: any evidence the replay reproduced serves any capability.
TechnicalErrorsSubstituted(call, replayed, result, binding) ==
  When(~(binding.evidence \subseteq Satisfied(call.attestation, replayed)), "not_replayed")

\* A technical capability outside the portable support must be what the replay
\* says: its evidence byte for byte, its verdict and its measurements.
TechnicalErrors(call, replayed, result, binding) ==
  When(~(binding.evidence \subseteq Satisfied(call.attestation, replayed)), "not_replayed")
    \cup When(~\E replay \in ReplaysOf(call, result.claim) :
                binding \in replay.bindings[result.claim], "replay_verdict")
    \cup When(Values(call.attestation.measurements, binding.measurements)
                # Values(ReplayedMeasurements(call), binding.measurements),
              "replay_measurements")

BindingErrors(call, replayed, result, binding) ==
  LET claim == call.profile.claims[result.claim]
  IN  When(binding.capability \notin claim.capabilities, "capability_not_required")
        \cup When(~(binding.measurements \subseteq DOMAIN call.attestation.measurements),
                  "measurement_missing")
        \cup When(~(binding.measurements \subseteq result.measurements), "measurement_outside")
        \cup When(~(binding.evidence \subseteq claim.evidence), "evidence_missing")
        \cup When(~(binding.evidence \subseteq result.evidence), "evidence_outside")
        \cup (IF binding.capability \in HumanCapabilities \cup PortableSupport(call, result.claim)
              THEN {} ELSE TechnicalErrors(call, replayed, result, binding))

\* Seeded fault: a simulation may demonstrate a claim.
DemonstrationErrorsNoCeiling(call, result) ==
  LET claim == call.profile.claims[result.claim]
  IN  When(call.attestation.mode = "tabletop", "mode_ceiling")
        \cup When(~(claim.capabilities \subseteq result.capabilities), "capability_lacking")
        \cup When(~(claim.evidence \subseteq result.evidence), "evidence_lacking")

\* What the word "demonstrated" asks of a result.
DemonstrationErrors(call, result) ==
  LET claim == call.profile.claims[result.claim]
  IN  When(call.attestation.mode \in {"tabletop", "deterministic_simulation"}, "mode_ceiling")
        \cup When(~(claim.capabilities \subseteq result.capabilities), "capability_lacking")
        \cup When(~(claim.evidence \subseteq result.evidence), "evidence_lacking")

\* Seeded fault: one satisfied observation settles a requirement.
EvidenceErrorsSomeSatisfied(attestation, verified, result) ==
  When(~(result.evidence \subseteq Satisfied(attestation, verified)), "unsatisfied")

\* What any capability a result claims asks of the evidence the result cites.
EvidenceErrors(attestation, verified, result) ==
  When(~(result.evidence \subseteq Satisfied(attestation, verified)), "unsatisfied")
    \cup When(result.evidence \cap Adverse(attestation) # {}, "adverse")

\* A human capability is refused whatever evidence there is; what else the code
\* reports about it (mode, participants, their evidence) adds to that error.
HumanErrorsOf(result) ==
  When(result.capabilities \cap HumanCapabilities # {}, "human_capability")

ClaimErrors(call, verified, replayed, result) ==
  LET attestation == call.attestation
      scenarios   == call.profile.scenarios
      technical   == result.capabilities \ HumanCapabilities
      bound       == {b.capability : b \in Elements(result.bindings)}
  IN  When(/\ attestation.scenario \in DOMAIN scenarios
           /\ result.claim \notin scenarios[attestation.scenario].claims, "claim_out_of_scope")
        \cup When(~(result.measurements \subseteq DOMAIN attestation.measurements),
                  "measurement_missing")
        \cup When(~(result.evidence \subseteq call.profile.evidence), "evidence_missing")
        \cup When(Repeats(result.bindings, LAMBDA b : b.capability), "duplicate_binding")
        \cup When(result.capabilities # bound, "bindings_differ")
        \cup When(/\ technical # {}
                  /\ \E replay \in ReplaysOf(call, result.claim) :
                       replay.conditions # attestation.conditions, "replay_conditions")
        \cup (UNION {BindingErrors(call, replayed, result, b) : b \in Elements(result.bindings)})
        \cup (IF result.outcome = "demonstrated" THEN DemonstrationErrors(call, result) ELSE {})
        \cup (IF result.capabilities # {} THEN EvidenceErrors(attestation, verified, result)
              ELSE {})
        \cup HumanErrorsOf(result)

\* A result about a claim the profile lacks is not looked at any further.
ResultErrors(call, verified, replayed, result) ==
  IF result.claim \notin DOMAIN call.profile.claims THEN {"claim_missing"}
  ELSE ClaimErrors(call, verified, replayed, result)

-----------------------------------------------------------------------------

VerifiedIds(call) ==
  {o.id : o \in {p \in Elements(call.attestation.observations) : Sound(call, p)}}

ReplayedIds(call) ==
  {o.id : o \in {p \in Elements(call.attestation.observations) : IsReplayed(call, p)}}

\* All errors of one call.
SemanticErrors(call) ==
  HeaderErrors(call) \cup BodyErrors(call) \cup ScheduleErrors(call)
    \cup (UNION {ObservationErrors(call, o) : o \in Elements(call.attestation.observations)})
    \cup UNION {ResultErrors(call, VerifiedIds(call), ReplayedIds(call), r) :
                  r \in Elements(call.attestation.results)}
=============================================================================

------------------------ MODULE AttestationValidation ------------------------
(***************************************************************************)
(* validate_attestation as the code runs it: the header, a loop over the    *)
(* observations that remembers the identifiers of those whose artifact is   *)
(* sound and of those the replay reproduced, the rest of the body, and a    *)
(* loop over the claim results that reads what the first loop remembered.   *)
(***************************************************************************)
EXTENDS AttestationSemantics

CONSTANT Calls   \* the calls under consideration

\* Observations and results are lists, times are numbers, and a call has at
\* most one replay.
ASSUME CallsAssumption ==
  \A c \in Calls :
    /\ \A list \in {c.attestation.observations, c.attestation.results} :
         list \in Seq(Elements(list))
    /\ c.asOf \in Int
    /\ \A d \in DOMAIN c.files : c.files[d].kind = "exercise" =>
         c.files[d].observed \in Int /\ c.files[d].until \in Int
    /\ \A replay, other \in c.rebuilt : replay = other

VARIABLES
  call,       \* the arguments of the call
  phase,      \* where it stands
  cursor,     \* the observation or result it looks at next
  verified,   \* verified_observation_ids
  replayed,   \* replay_verified_observation_ids
  errors      \* kinds of errors reported so far

vars == <<call, phase, cursor, verified, replayed, errors>>

Observations == call.attestation.observations
Results      == call.attestation.results

Init ==
  /\ call \in Calls
  /\ phase = "header" /\ cursor = 1
  /\ verified = {} /\ replayed = {} /\ errors = {}

CheckHeader ==
  /\ phase = "header"
  /\ errors' = HeaderErrors(call)
  /\ phase' = "observations"
  /\ UNCHANGED <<call, cursor, verified, replayed>>

CheckObservation ==
  /\ phase = "observations" /\ cursor <= Len(Observations)
  /\ LET observation == Observations[cursor]
     IN  /\ errors' = errors \cup ObservationErrors(call, observation)
         /\ verified' = verified \cup When(Sound(call, observation), observation.id)
         /\ replayed' = replayed \cup When(IsReplayed(call, observation), observation.id)
  /\ cursor' = cursor + 1
  /\ UNCHANGED <<call, phase>>

CheckBody ==
  /\ phase = "observations" /\ cursor > Len(Observations)
  /\ errors' = errors \cup BodyErrors(call)
  /\ phase' = "results" /\ cursor' = 1
  /\ UNCHANGED <<call, verified, replayed>>

CheckResult ==
  /\ phase = "results" /\ cursor <= Len(Results)
  /\ errors' = errors \cup ResultErrors(call, verified, replayed, Results[cursor])
  /\ cursor' = cursor + 1
  /\ UNCHANGED <<call, phase, verified, replayed>>

CheckSchedule ==
  /\ phase = "results" /\ cursor > Len(Results)
  /\ errors' = errors \cup ScheduleErrors(call)
  /\ phase' = "done"
  /\ UNCHANGED <<call, cursor, verified, replayed>>

Next == CheckHeader \/ CheckObservation \/ CheckBody \/ CheckResult \/ CheckSchedule

Spec == Init /\ [][Next]_vars

-----------------------------------------------------------------------------
Accepted == phase = "done" /\ errors = {}

\* Observation o shows that the requirement is met: the file it names says so,
\* and only so, of the attested scenario, and is neither stale nor ahead.
Shows(o, requirement) ==
  /\ o.requirement = requirement /\ o.finding = "satisfied"
  /\ o.artifact \in DOMAIN call.files
  /\ LET file == call.files[o.artifact]
     IN  /\ file.kind = "exercise" /\ file.scenario = call.attestation.scenario
         /\ file.observed <= call.asOf /\ call.asOf < file.until
         /\ \E assertion \in Elements(file.assertions) :
              assertion.requirement = requirement
         /\ \A assertion \in Elements(file.assertions) :
              assertion.requirement = requirement => assertion.finding = "satisfied"

\* The replay of the profile reproduces a capability of a result: conditions,
\* verdict, measurements and, byte for byte, evidence for each requirement.
Reproduced(capability, result) ==
  \E replay \in Replays(call) :
    /\ replay.conditions = call.attestation.conditions
    /\ \E binding \in replay.bindings[result.claim] :
         /\ binding.capability = capability
         /\ \A m \in binding.measurements :
              call.attestation.measurements[m] = replay.measurements[m]
         /\ \A requirement \in binding.evidence : \E o \in Elements(Observations) :
              /\ Shows(o, requirement) /\ o.uri \in DOMAIN replay.artifacts
              /\ o.artifact = replay.artifacts[o.uri]

\* No attestation is accepted that claims a capability on anyone's word
\* (validate_profile.py:612-696): it is required by the claim, not a human
\* capability, and either the portable check supports it or the replay
\* reproduces it, evidence, verdict and measurements together.  A result is
\* accepted or refused on identifiers remembered in an earlier loop.
CapabilitiesAreRecomputed ==
  Accepted =>
    \A result \in Elements(Results) : \A capability \in result.capabilities :
      /\ capability \in call.profile.claims[result.claim].capabilities \ HumanCapabilities
      /\ \/ capability \in PortableSupport(call, result.claim)
         \/ Reproduced(capability, result)

\* "If even one adverse observation remains for the requirement, a capability
\* is not promoted, although a satisfied observation stands beside it"
\* (docs/assurance-model.md:84, translated; validate_profile.py:709-725): a result with
\* capabilities cites only requirements that some observation satisfies, by a
\* file that says nothing else, and that no observation contradicts, in
\* whatever order they are listed.
AdverseEvidenceBlocks ==
  Accepted =>
    \A result \in Elements(Results) : result.capabilities # {} =>
      \A requirement \in result.evidence :
        /\ \E o \in Elements(Observations) : Shows(o, requirement)
        /\ \A o \in Elements(Observations) :
             o.requirement = requirement => o.finding = "satisfied"
=============================================================================

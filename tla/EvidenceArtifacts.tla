--------------------------- MODULE EvidenceArtifacts ---------------------------
(***************************************************************************)
(* tools/artifact_validation.py: what is wrong with a reference to an       *)
(* evidence file, as the set of the kinds of errors it reports.             *)
(*                                                                          *)
(*   files     digest -> envelope, the files a reference of that digest     *)
(*             finds under the artifact root                                *)
(*   envelope  of exercise evidence: [kind, scenario, environment, issuer,  *)
(*             assertions, observed, until], assertions a sequence of       *)
(*             [requirement, finding]; of human evidence: [kind, scenario,  *)
(*             environment, type, subjects, object, covers, finding,        *)
(*             observed, until]                                             *)
(*   expected  what the attestation or the manifest says instead, and asOf  *)
(***************************************************************************)
EXTENDS ErrorSets, Integers, Sequences

EvidenceTimeErrors(envelope, asOf) ==
  When(envelope.until <= envelope.observed, "expires_before_observation")
    \cup When(envelope.until <= asOf, "evidence_stale")
    \cup When(envelope.observed > asOf, "evidence_in_future")

Asserted(envelope, requirement) ==
  {k \in DOMAIN envelope.assertions : envelope.assertions[k].requirement = requirement}

\* Exactly one assertion of the evidence is the observation's, and no
\* requirement is asserted twice.
AssertionErrors(envelope, expected) ==
  When(\E j, k \in DOMAIN envelope.assertions :
         /\ j # k
         /\ envelope.assertions[j].requirement = envelope.assertions[k].requirement,
       "duplicate_assertion")
    \cup When(~\E k \in Asserted(envelope, expected.requirement) :
                 /\ envelope.assertions[k].finding = expected.finding
                 /\ \A j \in Asserted(envelope, expected.requirement) \ {k} :
                      envelope.assertions[j].finding # expected.finding,
              "no_matching_assertion")

ContextErrors(envelope, expected) ==
  When(envelope.scenario # expected.scenario, "evidence_scenario")
    \cup When(envelope.environment # expected.environment, "evidence_environment")
    \cup EvidenceTimeErrors(envelope, expected.asOf)

ExerciseEnvelopeErrors(envelope, expected) ==
  ContextErrors(envelope, expected)
    \cup When(envelope.issuer # expected.issuer, "evidence_issuer")
    \cup AssertionErrors(envelope, expected)
    \cup When(envelope.observed # expected.observed, "evidence_observed_at")

\* A file that does not load, or is no exercise evidence, ends the validation.
ExerciseEvidenceErrors(files, digest, expected) ==
  IF digest \notin DOMAIN files THEN {"artifact"}
  ELSE IF files[digest].kind # "exercise" THEN {"evidence_schema"}
  ELSE ExerciseEnvelopeErrors(files[digest], expected)

\* The subjects must be the same, the covers may be more than is asked for.
HumanEnvelopeErrors(envelope, expected) ==
  ContextErrors(envelope, expected)
    \cup When(envelope.type # expected.type, "evidence_type")
    \cup When(envelope.subjects # expected.subjects, "evidence_subjects")
    \cup When(envelope.object # expected.object, "evidence_object")
    \cup When(~(expected.covers \subseteq envelope.covers), "evidence_covers")
    \cup When(envelope.finding # "satisfied", "evidence_finding")

HumanEvidenceErrors(files, digest, expected) ==
  IF digest \notin DOMAIN files THEN {"artifact"}
  ELSE IF files[digest].kind # "human" THEN {"evidence_schema"}
  ELSE HumanEnvelopeErrors(files[digest], expected)
=============================================================================

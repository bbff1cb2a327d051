--------------------------- MODULE PreflightChecks ---------------------------
(***************************************************************************)
(* evaluate_readiness of game_days/refund/human_drill.py: what is missing   *)
(* before a facilitated takeover drill may start, as the set of the kinds   *)
(* of prerequisites its report lists.  The report is ready iff it is empty. *)
(*                                                                          *)
(*   manifest  [fits, participants, facilitator, abortAuthority, controls,  *)
(*              binding, environment, evidence, files, asOf,                *)
(*              acknowledgements, statuses]: files as in EvidenceArtifacts, *)
(*              asOf the time of the evaluation, controls whether every     *)
(*              declaration checked on its own holds (sandbox, challenge,   *)
(*              briefing, real participants, controls)                      *)
(*   binding   [run, context]: run stands for preflightRunId and challenge, *)
(*             context for the profile, preflight-context and briefing      *)
(*             digests a participant statement is bound to                  *)
(*   evidence  set of [type, subjects, object, covers, artifact, issuer,    *)
(*             domain, proven]: what the manifest asks of a file, its       *)
(*             digest, and who signed it; proven as verify_dsse_envelope    *)
(*             decides                                                      *)
(*   statement [participant, type, value, sequence, binding, id]            *)
(*   policy    {} or {[sequence, current, minimumDomains]}                  *)
(*   held      {} or {[run, policySequence, statements]}: the consumer's    *)
(*             high-watermarks, statements: participant -> statement        *)
(***************************************************************************)
EXTENDS EvidenceArtifacts, FiniteSets

CONSTANTS
  RequiredCount,   \* operator_count of the scenario
  Boundaries,      \* INDEPENDENCE_BOUNDARIES
  Safeguards       \* HUMAN_SAFEGUARDS

ASSUME RequiredCountAssumption == RequiredCount \in Nat \ {0}

\* Trust policy, its high-watermark and the consumer's file must all be given.
GateMissing(policy, minSequence, held) ==
  IF policy = {} THEN {"trust_gate"}
  ELSE When(\E p \in policy : ~p.current, "policy")
         \cup When(minSequence = {}, "minimum_sequence")
         \cup When(\E p \in policy, m \in minSequence : p.sequence < m, "policy_rollback")
         \cup When(held = {}, "high_watermarks")

ManifestMissing(manifest, held, policy) ==
  LET participants == manifest.participants
  IN  When(manifest.abortAuthority = manifest.facilitator, "abort_is_facilitator")
        \cup When(manifest.abortAuthority \in participants, "abort_participates")
        \cup When(Cardinality(participants) < RequiredCount, "operators")
        \cup When(~manifest.controls, "controls")
        \cup When(\E h \in held : h.run # manifest.binding.run, "other_run")
        \cup When(\E h \in held : \A p \in policy : h.policySequence # p.sequence,
                    "other_policy")

ScenarioId == "human_takeover"

\* The entries of the manifest whose files hold up.
ValidEvidence(manifest) ==
  {e \in manifest.evidence :
     HumanEvidenceErrors(manifest.files, e.artifact,
       [scenario |-> ScenarioId, environment |-> manifest.environment, asOf |-> manifest.asOf,
        type |-> e.type, subjects |-> e.subjects, object |-> e.object, covers |-> e.covers])
       = {}}

Protected(manifest) ==
  manifest.participants \cup {manifest.facilitator, manifest.abortAuthority}

\* verify_trust for anything but a participant's own statement.
Trusted(manifest, policy) ==
  {e \in ValidEvidence(manifest) :
     policy # {} /\ e.proven /\ e.issuer \notin Protected(manifest)}

OfType(evidence, type) == {e \in evidence : e.type = type}

\* Whom evidence of a type is about, and what it covers.  Valid evidence counts
\* at once: what is wrong with its proof is reported on its own.
Vouched(evidence, type) == UNION {e.subjects : e \in OfType(evidence, type)}
Covered(evidence, type) == UNION {e.covers : e \in OfType(evidence, type)}

\* Seeded fault: evidence that is valid but not trusted is not reported.
EvidenceMissingTrust(manifest, policy) ==
  LET personal == {"qualification", "authority", "operational_access"}
      valid    == ValidEvidence(manifest)
  IN  When(\E t \in personal : ~(manifest.participants \subseteq Vouched(valid, t)),
           "personal_evidence")
        \cup When(~(Boundaries \subseteq Covered(valid, "channel_independence")), "independence")
        \cup When(valid # manifest.evidence, "evidence")

EvidenceMissing(manifest, policy) ==
  LET roles    == {"facilitator_assignment", "abort_authority_assignment"}
      personal == {"qualification", "authority", "operational_access"}
      valid    == ValidEvidence(manifest)
  IN  When(\E t \in roles : OfType(valid, t) = {}, "role_assignment")
        \cup When(\E t \in personal : ~(manifest.participants \subseteq Vouched(valid, t)),
                  "personal_evidence")
        \cup When(\E t \in personal : ~(Vouched(manifest.evidence, t)
                                          \subseteq manifest.participants),
                  "unknown_participant")
        \cup When(~(Boundaries \subseteq Covered(valid, "channel_independence")), "independence")
        \cup When(~(Safeguards \subseteq Covered(valid, "participant_safeguard")), "safeguards")
        \cup When(valid # manifest.evidence, "evidence")
        \cup When(policy # {} /\ valid # Trusted(manifest, policy), "trust_proof")

DomainsMissing(manifest, policy) ==
  LET trusted == Trusted(manifest, policy)
  IN  When(\E p \in policy : Cardinality({e.domain : e \in trusted}) < p.minimumDomains,
             "domains")
        \cup When(\E p \in policy : Cardinality({e.issuer : e \in trusted}) < p.minimumDomains,
                    "issuers")

\* Seeded fault: a newer active statement makes up for a held withdrawal.
WatermarkMissingForgiving(held, status) ==
  LET known == {h.statements[status.participant] :
                  h \in {g \in held : status.participant \in DOMAIN g.statements}}
  IN  When(known = {}, "watermark_absent")
        \cup When(\E k \in known : status.sequence < k.sequence, "stale_status")
        \cup When(\E k \in known : status.sequence = k.sequence /\ status.id # k.id,
                    "equivocation")

\* Seeded fault: at equal sequence numbers any active statement will do.
WatermarkMissingEqual(held, status) ==
  LET known == {h.statements[status.participant] :
                  h \in {g \in held : status.participant \in DOMAIN g.statements}}
  IN  When(known = {}, "watermark_absent")
        \cup When(\E k \in known : k.value = "withdrawn", "withdrawal_observed")
        \cup When(\E k \in known : status.sequence < k.sequence, "stale_status")

\* Seeded fault: sequence numbers are compared for equality only.
WatermarkMissingUnordered(held, status) ==
  LET known == {h.statements[status.participant] :
                  h \in {g \in held : status.participant \in DOMAIN g.statements}}
  IN  When(known = {}, "watermark_absent")
        \cup When(\E k \in known : k.value = "withdrawn", "withdrawal_observed")
        \cup When(\E k \in known : status.sequence = k.sequence /\ status.id # k.id,
                    "equivocation")

\* The consumer's high-watermark against an incoming active status.  A held
\* withdrawal is final; an older sequence is stale; the same sequence must be
\* the same statement.
WatermarkMissing(held, status) ==
  LET known == {h.statements[status.participant] :
                  h \in {g \in held : status.participant \in DOMAIN g.statements}}
  IN  When(known = {}, "watermark_absent")
        \cup When(\E k \in known : k.value = "withdrawn", "withdrawal_observed")
        \cup When(\E k \in known : k.value # "withdrawn" /\ status.sequence < k.sequence,
                    "stale_status")
        \cup When(\E k \in known : k.value # "withdrawn"
                                       /\ status.sequence = k.sequence /\ status.id # k.id,
                    "equivocation")

\* Seeded fault: statements of another run or manifest are taken as well.
StatementsMissingUnbound(manifest, policy, statements, accepted) ==
  LET verified == {s.participant : s \in {t \in statements : t.value = accepted}}
  IN  When(\E s \in statements : s.value # accepted, "statement")
        \cup When(policy # {} /\ ~(manifest.participants \subseteq verified),
                    "statement_absent")

\* verify_participant_statements for one of the two statement lists.
StatementsMissing(manifest, policy, statements, accepted) ==
  LET usable   == {s \in statements : policy # {} /\ s.participant \in manifest.participants
                                        /\ s.value = accepted}
      verified == {s.participant : s \in {u \in usable : u.binding = manifest.binding}}
  IN  When(\E s \in statements : s.participant \notin manifest.participants,
             "unknown_participant")
        \cup When(\E s \in statements : s.participant \in manifest.participants
                                              /\ s.value # accepted, "statement")
        \cup When(\E s, t \in statements : s # t /\ s.participant = t.participant,
                    "statements_not_unique")
        \cup When(\E s \in usable : s.binding # manifest.binding, "statement_binding")
        \cup When(policy # {} /\ ~(manifest.participants \subseteq verified),
                    "statement_absent")

ParticipantMissing(manifest, policy, held) ==
  StatementsMissing(manifest, policy, manifest.acknowledgements, "acknowledged")
    \cup StatementsMissing(manifest, policy, manifest.statuses, "active")
    \cup (IF policy = {} THEN {}
          ELSE UNION {WatermarkMissing(held, s) :
                        s \in {t \in manifest.statuses : t.participant \in manifest.participants
                                                            /\ t.value = "active"}})
    \cup When(policy # {} /\ UNION {DOMAIN h.statements : h \in held} # manifest.participants,
                "watermark_cover")
    \cup When(\E a \in manifest.acknowledgements, s \in manifest.statuses :
                  /\ policy # {} /\ a.participant = s.participant
                  /\ a.value = "acknowledged" /\ s.value = "active"
                  /\ s.sequence < a.sequence,
                "status_predates_acknowledgement")

\* missingPrerequisites.  A manifest that does not fit its schema, or claims
\* the older version, is not examined beyond the trust gate.
Missing(manifest, policy, minSequence, held) ==
  GateMissing(policy, minSequence, held)
    \cup (IF ~manifest.fits THEN {"manifest_schema"}
          ELSE ManifestMissing(manifest, held, policy)
                 \cup EvidenceMissing(manifest, policy)
                 \cup ParticipantMissing(manifest, policy, held)
                 \cup DomainsMissing(manifest, policy))
=============================================================================

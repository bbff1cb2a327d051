------------------------ MODULE MCPacketVerification ------------------------
(***************************************************************************)
(* PacketVerification on the packet the repository builds (an attestation,  *)
(* the evidence of the profile-aware run and of the baseline, the dependency*)
(* snapshot), on packets without the baseline and on packets that list one  *)
(* piece of evidence twice.  Policies, envelopes, artifacts, attestations   *)
(* and snapshots are taken from the sound ones and their single defects, in *)
(* every combination across the parts of a packet.                          *)
(***************************************************************************)
EXTENDS PacketVerification

AsOf == 5

Issuer(name) == [id |-> name, type |-> "service"]

Statement(name, kind) ==
  [id |-> name, kind |-> kind, issuer |-> Issuer(name), evidenceType |-> "none",
   subjects |-> {}, scope |-> "refund", time |-> 3]

BundleStatement      == Statement("bundle", "VerificationBundle")
AttestationStatement == Statement("attestation", "ExerciseAttestation")
AwareStatement       == [Statement("evidence", "ExerciseEvidence") EXCEPT !.id = "aware"]
BaselineStatement    == [Statement("evidence", "ExerciseEvidence") EXCEPT !.id = "baseline"]
SnapshotStatement    == Statement("snapshot", "DependencySnapshot")

Key(name, purpose, kind) ==
  [keyId |-> name, active |-> TRUE, matchesDigest |-> TRUE, issuer |-> Issuer(name),
   domain |-> "d1", from |-> 1, until |-> 9,
   authorizations |-> {[purpose |-> purpose, kinds |-> {kind}, scopes |-> {"refund"},
                        maxAge |-> 3]}]

EvidenceKey == Key("evidence", "exercise_evidence", "ExerciseEvidence")
OtherKeys == {Key("bundle", "verification_bundle", "VerificationBundle"),
              Key("attestation", "exercise_attestation", "ExerciseAttestation"),
              Key("snapshot", "dependency_snapshot", "DependencySnapshot")}

SoundPolicy == [form |-> "ok", sequence |-> 2, from |-> 1, until |-> 9,
                keys |-> OtherKeys \cup {EvidenceKey}, revoked |-> {}]

WithEvidenceKey(key) == [SoundPolicy EXCEPT !.keys = OtherKeys \cup {key}]

Policies ==
  {SoundPolicy,
   [SoundPolicy EXCEPT !.form = "schema_invalid"],
   [SoundPolicy EXCEPT !.until = AsOf],
   [SoundPolicy EXCEPT !.sequence = 1],
   [SoundPolicy EXCEPT !.revoked = {"snapshot"}],
   [SoundPolicy EXCEPT !.keys = @ \cup {[EvidenceKey EXCEPT !.until = 8]}],
   [SoundPolicy EXCEPT !.keys = OtherKeys],
   WithEvidenceKey([EvidenceKey EXCEPT !.active = FALSE]),
   WithEvidenceKey([EvidenceKey EXCEPT !.until = AsOf]),
   WithEvidenceKey([EvidenceKey EXCEPT !.from = 4]),
   WithEvidenceKey([EvidenceKey EXCEPT !.authorizations =
                      {[a EXCEPT !.maxAge = 1] : a \in @}]),
   WithEvidenceKey([EvidenceKey EXCEPT !.authorizations =
                      {[a EXCEPT !.scopes = {"other"}] : a \in @}])}

Envelope(statement, purpose) ==
  [form |-> "ok", payloadType |-> purpose, payload |-> statement,
   keyId |-> statement.issuer.id, signer |-> statement.issuer.id, quotes |-> <<>>]

\* Messages about this error repeat these phrases.
Quoting(error, phrases) == [e \in {error} |-> {phrases, {}}]

Broken(envelope) ==
  {[envelope EXCEPT !.form = "non_finite"],
   [envelope EXCEPT !.form = "schema_invalid", !.quotes = Quoting("schema", {"byte_mismatch"})],
   [envelope EXCEPT !.form = "payload_non_finite",
                    !.quotes = Quoting("non_finite", {"bad_signature"})],
   [envelope EXCEPT !.quotes = Quoting("scope", {"bad_signature"})],
   [envelope EXCEPT !.signer = "stranger", !.quotes = Quoting("scope", {"key_unknown"})],
   [envelope EXCEPT !.keyId = "stranger", !.signer = "stranger"]}

Item(role, statement, content) ==
  [role |-> role, artifact |-> [form |-> "ok", statement |-> statement], proofLoads |-> TRUE,
   proof |-> Envelope(statement, role), content |-> content]

WithDefects(item, envelopes) ==
  {item} \cup {[item EXCEPT !.proof = e] : e \in envelopes}

Observation(name, artifact) ==
  [id |-> name, requirement |-> "provider_outcome", finding |-> "satisfied", observed |-> 3,
   artifact |-> artifact, uri |-> artifact]

\* What the portable check counts in the evidence of the profile-aware run.
Counts == [m \in {"lost_effects", "duplicates", "reconciled", "unrecognized"} |->
             IF m \in {"lost_effects", "reconciled"} THEN 1 ELSE 0]

Bound == {"lost_effects", "duplicates", "reconciled"}

\* The portable packet's attestation: part of the capabilities of its claim,
\* bound to the witness; not a demonstration of the claim.
AttestationContent ==
  [ofProfile |-> TRUE, scenario |-> "response_loss", mode |-> "deterministic_simulation",
   environment |-> "simulation", issuer |-> Issuer("attestation"),
   started |-> 1, completed |-> 3, issued |-> 3, until |-> 9, uniqueIds |-> TRUE,
   componentsLoad |-> TRUE, participation |-> TRUE, faultsInside |-> TRUE,
   conditions |-> "planned", measurements |-> Counts,
   observations |-> <<Observation("o1", "aware"), Observation("o2", "baseline")>>,
   results |-> <<[claim |-> "c1", outcome |-> "not_demonstrated",
                  capabilities |-> {"external_reconciliation"},
                  bindings |-> <<[capability |-> "external_reconciliation",
                                  measurements |-> Bound, evidence |-> {"provider_outcome"}]>>,
                  measurements |-> Bound, evidence |-> {"provider_outcome"}]>>,
   witnesses |-> {"aware"}, references |-> "covered"]

AttestationItem == Item("exercise_attestation", AttestationStatement, AttestationContent)

\* The attestation that says its claim is demonstrated.
Demonstrates(item) ==
  [item EXCEPT !.content.results = <<[@[1] EXCEPT !.outcome = "demonstrated"]>>]

Demonstration == Demonstrates(AttestationItem)

\* What the attestation may say otherwise than the repository's.
Variations ==
  {[AttestationItem EXCEPT !.content.witnesses = {}],
   [AttestationItem EXCEPT !.content.references = "uncovered"],
   [AttestationItem EXCEPT !.content.observations =
      <<Observation("o1", "aware"), Observation("o2", "aware")>>],
   [AttestationItem EXCEPT !.content.observations = <<Observation("o1", "aware")>>],
   [AttestationItem EXCEPT !.content.observations = <<Observation("o2", "baseline")>>],
   [AttestationItem EXCEPT !.content.observations =
      Append(@, [Observation("o3", "opaque") EXCEPT !.requirement = "authorization"])],
   [AttestationItem EXCEPT !.content.measurements["reconciled"] = 2],
   [AttestationItem EXCEPT !.content.results[1].bindings[1].measurements = {"duplicates"}],
   [AttestationItem EXCEPT !.content.conditions = "others"]}

AttestationItems ==
  Variations \cup {Demonstrates(a) : a \in Variations}
    \cup {AttestationItem, Demonstration,
          [AttestationItem EXCEPT !.artifact.form = "schema_invalid"],
          [AttestationItem EXCEPT !.proofLoads = FALSE],
          [Demonstration EXCEPT !.content.scenario = "drill", !.content.mode = "sandbox"],
          [AttestationItem EXCEPT !.content.scenario = "drill", !.content.mode = "sandbox",
             !.content.observations = <<>>, !.content.results = <<>>]}

\* Signed by another issuer than the attestation's.
EvidenceContent ==
  [kind |-> "exercise", scenario |-> "response_loss", environment |-> "simulation",
   issuer |-> Issuer("evidence"), observed |-> 3, until |-> 9,
   assertions |-> <<[requirement |-> "provider_outcome", finding |-> "satisfied"]>>,
   variant |-> "profile_aware", counts |-> Counts]

EvidenceItem == Item("exercise_evidence", AwareStatement, EvidenceContent)

BaselineItem ==
  Item("exercise_evidence", BaselineStatement,
       [EvidenceContent EXCEPT !.variant = "baseline", !.counts["duplicates"] = 1])

\* An opaque artifact that is evidence, by the attestation's own issuer.
OpaqueContent ==
  [EvidenceContent EXCEPT !.issuer = Issuer("attestation"),
     !.assertions = <<[requirement |-> "authorization", finding |-> "satisfied"]>>]

EvidenceItems ==
  WithDefects(EvidenceItem, Broken(EvidenceItem.proof))
    \cup {[EvidenceItem EXCEPT !.artifact.form = "missing"],
          [EvidenceItem EXCEPT !.artifact.form = "not_json"],
          [EvidenceItem EXCEPT !.content.assertions[1].finding = "contradicted"],
          [EvidenceItem EXCEPT !.proof.payload = SnapshotStatement],
          [EvidenceItem EXCEPT !.proof.payloadType = "dependency_snapshot"]}

SnapshotContent ==
  [readable |-> TRUE, observed |-> 3, until |-> 7, ofThisProfile |-> TRUE,
   entries |-> <<[key |-> "k", version |-> "v1"]>>]

SnapshotItem == Item("dependency_snapshot", SnapshotStatement, SnapshotContent)

SnapshotItems ==
  {SnapshotItem,
   [SnapshotItem EXCEPT !.proof.form = "not_base64"],
   [SnapshotItem EXCEPT !.content.until = AsOf],
   [SnapshotItem EXCEPT !.content.ofThisProfile = FALSE],
   [SnapshotItem EXCEPT !.content.entries = <<[key |-> "k", version |-> "v2"]>>]}

Claims(onChange, capabilities) ==
  [c \in {"c1"} |-> [capabilities |-> capabilities, evidence |-> {"provider_outcome"},
      dependencies |-> {[key |-> "k", version |-> "v1", onChange |-> onChange]}]]

Reconciliation == Claims("any_change", {"external_reconciliation"})

Scenarios ==
  [s \in {"response_loss", "drill"} |->
     [mode |-> IF s = "drill" THEN "sandbox" ELSE "deterministic_simulation", claims |-> {"c1"},
      conditions |-> "planned"]]

SoundBundle == Envelope(BundleStatement, "verification_bundle")

Packet(pinned, policy, bundle, rest, claims, items) ==
  [pinned |-> pinned, policy |-> policy, minSequence |-> 2, asOf |-> AsOf,
   bundle |-> bundle, bundleFits |-> rest # "misfit", inventoryExact |-> rest # "inexact",
   opaqueLoads |-> TRUE, opaque |-> [d \in {"opaque"} |-> OpaqueContent],
   profile |-> IF rest = "no_profile" THEN "invalid" ELSE "valid",
   claims |-> claims, scenarios |-> Scenarios,
   evidence |-> {"provider_outcome", "authorization"}, items |-> items]

\* What the policy says of the evidence, against evidence and snapshots.
PolicyPackets ==
  {Packet(TRUE, p, SoundBundle, r, Reconciliation, <<a, e, BaselineItem, s>>) :
     p \in Policies, r \in {"exact", "no_profile"}, a \in {AttestationItem, Demonstration},
     e \in EvidenceItems, s \in SnapshotItems}

\* What the attestation says, in packets of other shapes as well.
AttestationPackets ==
  {Packet(TRUE, p, SoundBundle, "exact", Reconciliation, items) :
     p \in {SoundPolicy, WithEvidenceKey([EvidenceKey EXCEPT !.active = FALSE])},
     items \in UNION {{<<a, e, BaselineItem, s>>, <<a, e, s>>, <<a, e, e, s>>} :
                        a \in AttestationItems, e \in EvidenceItems,
                        s \in {SnapshotItem, [SnapshotItem EXCEPT !.content.until = AsOf]}}}

\* What the caller, the bundle and the inventory say.
BundlePackets ==
  {Packet(pinned, p, b, r, c, <<a, e, BaselineItem, s>>) :
     pinned \in BOOLEAN, p \in {SoundPolicy, [SoundPolicy EXCEPT !.sequence = 1]},
     b \in {SoundBundle} \cup Broken(SoundBundle), r \in {"exact", "misfit", "inexact"},
     c \in {Claims("manual_review", {"external_reconciliation"}),
            Claims("any_change", {"external_reconciliation", "human_takeover"})},
     a \in {AttestationItem, Demonstration}, e \in EvidenceItems,
     s \in {SnapshotItem,
            [SnapshotItem EXCEPT !.content.entries = <<[key |-> "k", version |-> "v2"]>>]}}

MCPackets == PolicyPackets \cup AttestationPackets \cup BundlePackets
=============================================================================

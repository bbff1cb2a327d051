------------------------- MODULE PacketVerification -------------------------
(***************************************************************************)
(* verify_bundle of tools/verify_bundle.py: one pass over a packet (the     *)
(* signed bundle, the artifacts it lists and their proofs) under a trust    *)
(* policy the caller supplies.  The pass accumulates errors, counts proofs  *)
(* and remembers whether some signature was left unchecked; the verdict is  *)
(* computed from these accumulators alone.                                  *)
(*                                                                          *)
(*   packet  [pinned, policy, minSequence, asOf, bundle, bundleFits,        *)
(*            inventoryExact, opaqueLoads, opaque, profile, claims,         *)
(*            scenarios, evidence, items]; profile is whether the profile   *)
(*            is usable, claims, scenarios and evidence what it says,       *)
(*            opaque is digest -> what an opaque evidence file says         *)
(*   claims  claim identifier -> [capabilities, evidence, dependencies]     *)
(*   scenarios identifier -> [mode, claims, conditions]                     *)
(*   item    [role, artifact, proofLoads, proof, content], where content is *)
(*           what the artifact says beyond its statement: an attestation of *)
(*           AttestationSemantics with [references, witnesses], an envelope *)
(*           of EvidenceArtifacts with [variant, counts], or a snapshot of  *)
(*           DependencyFreshness with [ofThisProfile].  witnesses is the    *)
(*           evidence that agrees with itself and equals the witness        *)
(*           recomputed from the profile, counts what the portable check    *)
(*           counts in the events and effects of the evidence               *)
(*   artifact [form, statement]                                             *)
(***************************************************************************)
EXTENDS TrustEvaluation, DependencyFreshness, AttestationSemantics

CONSTANT Packets   \* the packets and callers' inputs under consideration

EnvelopeForms == {"ok", "not_json", "non_finite", "schema_invalid", "not_base64",
                  "payload_not_json", "payload_non_finite"}
ArtifactForms == {"ok", "missing", "not_json", "schema_invalid"}

IsPolicy(policy) ==
  /\ policy.sequence \in Nat
  /\ \A key \in policy.keys :
       /\ key.from \in Int /\ key.until \in Int
       /\ \A grant \in key.authorizations : grant.maxAge \in Nat

IsEnvelope(envelope) ==
  /\ envelope.form \in EnvelopeForms /\ envelope.payload.time \in Int
  /\ DOMAIN envelope.quotes \subseteq QuotingErrors
  /\ \A e \in DOMAIN envelope.quotes :
       envelope.quotes[e] # {} /\ envelope.quotes[e] \subseteq SUBSET Phrases

ASSUME PacketAssumption ==
  \A p \in Packets :
    /\ p.pinned \in BOOLEAN /\ p.minSequence \in Nat /\ p.asOf \in Nat
    /\ IsPolicy(p.policy) /\ IsEnvelope(p.bundle)
    /\ p.profile \in {"valid", "missing", "invalid"}
    /\ Len(p.items) \in Nat /\ DOMAIN p.items = 1 .. Len(p.items)
    /\ \A i \in DOMAIN p.items :
         /\ IsEnvelope(p.items[i].proof) /\ p.items[i].artifact.form \in ArtifactForms
         /\ p.items[i].role = "dependency_snapshot" =>
              p.items[i].content.observed \in Int /\ p.items[i].content.until \in Int
    /\ p.profile = "valid" => \A c \in DOMAIN p.claims : p.claims[c].capabilities # {}

VARIABLES
  packet,          \* the inputs of the call
  phase,           \* where the pass stands
  cursor,          \* the item or attestation the pass looks at next
  errors,          \* pairs <<list, error>>, list one of ErrorLists
  attempted,       \* signature_attempted
  unchecked,       \* signature_not_checked
  requiredCount,   \* required_proof_count
  verifiedCount,   \* verified_proof_count
  verified,        \* verified_artifacts: [id, role], one per id
  attestations,    \* attestation_entries: items, in bundle order
  snapshots,       \* {} or {the dependency snapshot in use}
  freshness,       \* claim_freshness
  results,         \* claim_results
  verdict          \* {} or {the VerificationResult}

proofVars  == <<attempted, unchecked, requiredCount, verifiedCount>>
loadedVars == <<verified, attestations, snapshots>>
claimVars  == <<freshness, results, verdict>>
vars == <<packet, phase, cursor, errors, proofVars, loadedVars, claimVars>>

ErrorLists == {"conformance", "integrity", "signature", "issuerTrust", "freshness"}

Reported(list) == \E e \in errors : e[1] = list

Init ==
  /\ packet \in Packets
  /\ phase = "caller"
  /\ cursor = 1
  /\ errors = {}
  /\ attempted = FALSE /\ unchecked = FALSE
  /\ requiredCount = 1 /\ verifiedCount = 0
  /\ verified = {} /\ attestations = <<>> /\ snapshots = {}
  /\ freshness = <<>> /\ results = {} /\ verdict = {}

In(list, found) == {list} \X found

\* Seeded fault: a key nobody trusts counts as a forged signature.
ListOfDistrustAsForgery(error, says) ==
  IF "byte_mismatch" \in says THEN "integrity"
  ELSE IF error \in {"schema", "payload", "envelope"}
            \/ says \cap {"payload_type", "base64"} # {} THEN "conformance"
  ELSE IF says \cap {"bad_signature", "key_unknown"} # {} THEN "signature"
  ELSE "issuerTrust"

\* Which list _record_proof_errors puts a message in that says these phrases:
\* the first test that succeeds decides, wherever the phrase came from.
ListOf(error, says) ==
  IF "byte_mismatch" \in says THEN "integrity"
  ELSE IF error \in {"schema", "payload", "envelope"}
            \/ says \cap {"payload_type", "base64"} # {} THEN "conformance"
  ELSE IF "bad_signature" \in says THEN "signature"
  ELSE "issuerTrust"

ProofErrors(envelope, found) ==
  UNION {{<<ListOf(e, says), e>> : says \in Messages(envelope, e)} : e \in found}

\* Messages after which the signature is taken for unchecked.
LeavesUnchecked(envelope, found) ==
  \E e \in found : \E says \in Messages(envelope, e) :
    /\ "byte_mismatch" \notin says
    /\ \/ e = "schema"
       \/ "payload_type" \notin says /\ (e \in {"payload", "envelope"} \/ "base64" \in says)
       \/ ListOf(e, says) = "issuerTrust" /\ "key_unknown" \in says

\* Seeded fault: the caller's minimum sequence number is not compared.
CheckCallerWithoutRollback ==
  /\ phase = "caller"
  /\ LET untrusted == PolicyErrors(packet.policy, packet.asOf)
     IN  /\ errors' = In("conformance", When(~packet.pinned, "verifier_mismatch"))
                \cup In("issuerTrust", untrusted)
         /\ unchecked' = (untrusted # {})
  /\ phase' = "bundle"
  /\ UNCHANGED <<packet, cursor, attempted, requiredCount, verifiedCount, loadedVars, claimVars>>

CheckCaller ==
  /\ phase = "caller"
  /\ LET untrusted == PolicyErrors(packet.policy, packet.asOf)
     IN  /\ errors' = In("conformance", When(~packet.pinned, "verifier_mismatch"))
                \cup In("issuerTrust", untrusted
                      \cup When(packet.policy.sequence < packet.minSequence, "rollback"))
         /\ unchecked' = (untrusted # {})
  /\ phase' = "bundle"
  /\ UNCHANGED <<packet, cursor, attempted, requiredCount, verifiedCount, loadedVars, claimVars>>

\* The bundle's own envelope is only opened under a trusted policy, and its
\* predicate is only used when nothing was reported against conformance.
CheckBundle ==
  /\ phase = "bundle"
  /\ IF Reported("issuerTrust")
     THEN phase' = "decide" /\ UNCHANGED <<errors, attempted, unchecked, verifiedCount>>
     ELSE LET found == EnvelopeErrors(packet.bundle, {}, packet.policy,
                                      "verification_bundle", packet.asOf)
              misfit == When(found = {} /\ ~packet.bundleFits, "bundle_schema")
          IN  /\ errors' = errors \cup ProofErrors(packet.bundle, found)
                               \cup In("conformance", misfit)
              /\ attempted' = TRUE
              /\ unchecked' = (unchecked \/ LeavesUnchecked(packet.bundle, found))
              /\ verifiedCount' = IF found = {} THEN 1 ELSE 0
              /\ phase' = IF found \cup misfit = {} /\ ~Reported("conformance")
                          THEN "inventory" ELSE "decide"
  /\ UNCHANGED <<packet, cursor, requiredCount, loadedVars, claimVars>>

Items == packet.items
Digest(item) == item.artifact.statement.id
ProfileUsable == packet.profile = "valid"

CheckInventory ==
  /\ phase = "inventory"
  /\ errors' = errors
       \cup In("integrity",
               When(~packet.inventoryExact, "inventory")
                 \cup When(~packet.opaqueLoads, "opaque_artifact")
                 \cup When(packet.profile = "missing", "profile_missing")
                 \cup When(\E i, j \in DOMAIN Items :
                             i # j /\ Digest(Items[i]) = Digest(Items[j]),
                           "duplicate_digest"))
       \cup In("conformance", When(packet.profile = "invalid", "profile"))
  /\ requiredCount' = 1 + Len(Items)
  /\ phase' = "items"
  /\ UNCHANGED <<packet, cursor, attempted, unchecked, verifiedCount, loadedVars, claimVars>>

AtItem == phase = "items" /\ cursor <= Len(Items)
BytesLoad(item) == item.artifact.form # "missing" /\ item.proofLoads

\* Seeded fault: an item that cannot be loaded counts as verified.
LoadFailsCounted ==
  /\ AtItem
  /\ ~BytesLoad(Items[cursor])
  /\ errors' = errors \cup In("integrity", {"not_loaded"})
  /\ verifiedCount' = verifiedCount + 1
  /\ cursor' = cursor + 1
  /\ UNCHANGED <<packet, phase, attempted, unchecked, requiredCount, loadedVars, claimVars>>

\* Bytes that are absent, or that differ from their digest, end the item.
LoadFails ==
  /\ AtItem
  /\ ~BytesLoad(Items[cursor])
  /\ errors' = errors \cup In("integrity", {"not_loaded"})
  /\ cursor' = cursor + 1
  /\ UNCHANGED <<packet, phase, proofVars, loadedVars, claimVars>>

ParseFails ==
  /\ AtItem
  /\ BytesLoad(Items[cursor])
  /\ Items[cursor].artifact.form = "not_json"
  /\ errors' = errors \cup In("conformance", {"not_json"})
  /\ cursor' = cursor + 1
  /\ UNCHANGED <<packet, phase, proofVars, loadedVars, claimVars>>

ItemErrors(item) ==
  EnvelopeErrors(item.proof, {item.artifact.statement}, packet.policy, item.role, packet.asOf)

\* A later artifact with the same digest takes the place of an earlier one.
Keep(item) ==
  {v \in verified : v.id # Digest(item)} \cup {[id |-> Digest(item), role |-> item.role]}

CheckProof ==
  /\ AtItem
  /\ LET item   == Items[cursor]
         found  == ItemErrors(item)
         misfit == When(item.artifact.form = "schema_invalid", "artifact_schema")
         usable == found \cup misfit = {}
     IN  /\ BytesLoad(item)
         /\ item.artifact.form # "not_json"
         /\ errors' = errors \cup ProofErrors(item.proof, found) \cup In("conformance", misfit)
         /\ unchecked' = (unchecked \/ LeavesUnchecked(item.proof, found))
         /\ verifiedCount' = verifiedCount + (IF found = {} THEN 1 ELSE 0)
         /\ verified' = IF usable THEN Keep(item) ELSE verified
         /\ attestations' = IF usable /\ item.role = "exercise_attestation"
                            THEN Append(attestations, item.content) ELSE attestations
         /\ snapshots' = IF usable /\ item.role = "dependency_snapshot"
                         THEN {item.content} ELSE snapshots
  /\ attempted' = TRUE
  /\ cursor' = cursor + 1
  /\ UNCHANGED <<packet, phase, requiredCount, claimVars>>

Dependencies == [c \in DOMAIN packet.claims |-> packet.claims[c].dependencies]

\* Without a usable profile or snapshot no claim has a freshness.  A snapshot
\* with errors of its own makes every claim stale; one taken for another
\* profile is reported, and leaves the freshness of the claims as computed.
EvaluateFreshness ==
  /\ phase = "items"
  /\ cursor > Len(Items)
  /\ IF ~ProfileUsable \/ snapshots = {}
     THEN UNCHANGED <<errors, freshness>>
     ELSE \E snapshot \in snapshots :
            LET found == SnapshotErrors(snapshot, Dependencies, packet.asOf)
            IN  /\ errors' = errors \cup In("freshness",
                     found \cup When(~snapshot.ofThisProfile, "other_profile"))
                /\ freshness' = IF found = {} THEN ClaimFreshness(snapshot, Dependencies)
                                ELSE [c \in DOMAIN packet.claims |-> "STALE"]
  /\ phase' = "attestations"
  /\ cursor' = 1
  /\ UNCHANGED <<packet, proofVars, loadedVars, results, verdict>>

ProfileClaims    == IF ProfileUsable THEN packet.claims ELSE <<>>
ProfileScenarios == IF ProfileUsable THEN packet.scenarios ELSE <<>>

\* The evidence files of the packet that are signed items.  Artifacts of other
\* roles are no exercise evidence: to cite one is the error a missing file is.
EvidenceFiles ==
  {Items[i] : i \in {j \in DOMAIN Items :
     Items[j].role = "exercise_evidence" /\ Items[j].artifact.form = "ok"}}

FileOf(digest) == CHOOSE f \in EvidenceFiles : Digest(f) = digest

IsProven(digest) == [id |-> digest, role |-> "exercise_evidence"] \in verified

\* Seeded fault: evidence counts whatever became of its proof.
CandidatesUnproven(attestation) ==
  {k \in DOMAIN attestation.observations :
     LET o == attestation.observations[k] IN
     /\ o.requirement = "provider_outcome"
     /\ \E f \in EvidenceFiles : Digest(f) = o.artifact
     /\ FileOf(o.artifact).content.variant = "profile_aware"}

\* verify_portable_capabilities: the observations of the provider's outcome
\* that cite verified evidence of the profile-aware run.  The list is one of
\* observations, so two of the same file count as two.
Candidates(attestation) ==
  {k \in DOMAIN attestation.observations :
     LET o == attestation.observations[k] IN
     /\ o.requirement = "provider_outcome"
     /\ IsProven(o.artifact)
     /\ FileOf(o.artifact).artifact.statement.kind = "ExerciseEvidence"
     /\ FileOf(o.artifact).content.variant = "profile_aware"}

\* Measurements the attestation leaves out are not compared.
MeasuresAsCounted(attestation, digest) ==
  \A m \in DOMAIN attestation.measurements \cap DOMAIN FileOf(digest).content.counts :
    attestation.measurements[m] = FileOf(digest).content.counts[m]

\* Of several results or bindings the first one is looked at.
FirstBindings(attestation, claim) ==
  LET about == SelectSeq(attestation.results, LAMBDA r : r.claim = claim)
  IN  IF about = <<>> THEN <<>>
      ELSE SelectSeq(about[1].bindings, LAMBDA b : b.capability = "external_reconciliation")

BindsMeasurements(attestation, claim) ==
  LET bindings == FirstBindings(attestation, claim)
  IN  /\ bindings # <<>>
      /\ {"lost_effects", "duplicates", "reconciled"} \subseteq bindings[1].measurements

RanAsPlanned(attestation) ==
  /\ attestation.conditions = ProfileScenarios[attestation.scenario].conditions
  /\ attestation.faultsInside

\* Exactly one candidate, and its payload is the witness recomputed from the
\* profile's simulated scenario.
WitnessHolds(attestation) ==
  /\ attestation.scenario \in DOMAIN ProfileScenarios
  /\ ProfileScenarios[attestation.scenario].mode = "deterministic_simulation"
  /\ Cardinality(ProfileScenarios[attestation.scenario].claims) = 1
  /\ \E k \in DOMAIN attestation.observations :
       LET digest == attestation.observations[k].artifact IN
       /\ Candidates(attestation) = {k}
       /\ digest \in attestation.witnesses /\ MeasuresAsCounted(attestation, digest)
  /\ \A c \in ProfileScenarios[attestation.scenario].claims : BindsMeasurements(attestation, c)
  /\ RanAsPlanned(attestation)

PortableScenario(attestation) == attestation.scenario = "response_loss"

\* supported_by_claim
Support(attestation) ==
  IF PortableScenario(attestation) /\ WitnessHolds(attestation)
  THEN [c \in ProfileScenarios[attestation.scenario].claims |-> {"external_reconciliation"}]
  ELSE <<>>

Supported(attestation, claim) ==
  IF claim \in DOMAIN Support(attestation) THEN Support(attestation)[claim] ELSE {}

\* Evidence may also be an opaque artifact of the packet, without a signer of
\* its own.
SemanticsCall(attestation) ==
  [profile |-> [claims |-> ProfileClaims, scenarios |-> ProfileScenarios,
                evidence |-> packet.evidence],
   attestation |-> attestation, asOf |-> packet.asOf,
   files |-> [d \in DOMAIN packet.opaque \cup {Digest(f) : f \in EvidenceFiles} |->
                IF d \in DOMAIN packet.opaque THEN packet.opaque[d] ELSE FileOf(d).content],
   issuers |-> [d \in {e \in {Digest(f) : f \in EvidenceFiles} : IsProven(e)} |->
                  FileOf(d).artifact.statement.issuer],
   portable |-> {Support(attestation)},
   rebuilt |-> {}, rebuildFails |-> FALSE]

ClaimFreshnessOf(claim) ==
  IF claim \in DOMAIN freshness THEN freshness[claim] ELSE "UNKNOWN"

RequiredBy(claim) ==
  IF claim \in DOMAIN ProfileClaims THEN ProfileClaims[claim].capabilities ELSE {}

ClaimResult(attestation, result) ==
  [claim |-> result.claim, attestation |-> attestation,
   support |-> IF /\ result.outcome = "demonstrated"
                  /\ RequiredBy(result.claim) \subseteq Supported(attestation, result.claim)
                  /\ ClaimFreshnessOf(result.claim) = "CURRENT"
               THEN "SUPPORTED" ELSE "UNKNOWN"]

CheckAttestation ==
  /\ phase = "attestations"
  /\ cursor <= Len(attestations)
  /\ LET attestation == attestations[cursor]
     IN  /\ errors' = errors
              \cup In("integrity", When(attestation.references # "covered", "reference"))
              \cup In("conformance",
                      When(PortableScenario(attestation) /\ ~WitnessHolds(attestation),
                           "portable_check")
                        \cup When(ProfileUsable /\ SemanticErrors(SemanticsCall(attestation)) # {},
                                  "semantics"))
         /\ results' = results
              \cup {ClaimResult(attestation, r) : r \in Elements(attestation.results)}
  /\ cursor' = cursor + 1
  /\ UNCHANGED <<packet, phase, proofVars, loadedVars, freshness, verdict>>

EveryProofVerified ==
  verifiedCount = requiredCount /\ ~Reported("signature") /\ ~unchecked

\* Seeded fault: the flag is read the wrong way round.
SignatureStatusInverted ==
  CASE Reported("signature")       -> "INVALID"
    [] ~Reported("signature") /\ attempted /\ unchecked -> "VALID"
    [] OTHER                       -> "NOT_CHECKED"

\* Seeded fault: what is unchecked hides what is invalid.
SignatureStatusUncheckedFirst ==
  CASE unchecked                           -> "NOT_CHECKED"
    [] ~unchecked /\ Reported("signature") -> "INVALID"
    [] ~unchecked /\ ~Reported("signature") /\ attempted -> "VALID"
    [] OTHER                               -> "NOT_CHECKED"

SignatureStatus ==
  CASE Reported("signature")       -> "INVALID"
    [] ~Reported("signature") /\ attempted /\ ~unchecked -> "VALID"
    [] OTHER                       -> "NOT_CHECKED"

IssuerTrustStatus ==
  CASE Reported("issuerTrust")     -> "UNTRUSTED"
    [] ~Reported("issuerTrust") /\ EveryProofVerified -> "TRUSTED"
    [] OTHER                       -> "NOT_CHECKED"

\* Seeded fault: only the freshness of the claims decides.
GlobalFreshnessOfClaims ==
  LET values == {freshness[c] : c \in DOMAIN freshness}
  IN  CASE "STALE" \in values                               -> "STALE"
        [] values = {}                                      -> "UNKNOWN"
        [] "STALE" \notin values /\ "REVIEW_REQUIRED" \in values -> "REVIEW_REQUIRED"
        [] OTHER                                            -> "CURRENT"

GlobalFreshness ==
  LET values == {freshness[c] : c \in DOMAIN freshness}
  IN  CASE Reported("freshness") \/ "STALE" \in values -> "STALE"
        [] ~Reported("freshness") /\ values = {}       -> "UNKNOWN"
        [] ~Reported("freshness") /\ "STALE" \notin values
             /\ "REVIEW_REQUIRED" \in values           -> "REVIEW_REQUIRED"
        [] OTHER                                       -> "CURRENT"

\* The proof count is one of the integrity errors the outcome looks at.
Outcome ==
  IF errors = {} /\ EveryProofVerified /\ SignatureStatus = "VALID"
       /\ IssuerTrustStatus = "TRUSTED"
  THEN "PACKET_VERIFIED" ELSE "PACKET_REJECTED"

Decide ==
  /\ \/ phase = "decide"
     \/ phase = "attestations" /\ cursor > Len(attestations)
  /\ verdict' = {[outcome |-> Outcome, signature |-> SignatureStatus,
                  issuerTrust |-> IssuerTrustStatus, freshness |-> GlobalFreshness]}
  /\ errors' = errors \cup In("integrity", When(~EveryProofVerified, "proofs_missing"))
  /\ phase' = "done"
  /\ UNCHANGED <<packet, cursor, proofVars, loadedVars, freshness, results>>

Next ==
  \/ CheckCaller \/ CheckBundle \/ CheckInventory
  \/ LoadFails \/ ParseFails \/ CheckProof
  \/ EvaluateFreshness \/ CheckAttestation \/ Decide

\* One call on one thread: it runs until it returns.
Spec == Init /\ [][Next]_vars /\ WF_vars(Next)

-----------------------------------------------------------------------------
TypeOK ==
  /\ phase \in {"caller", "bundle", "inventory", "items", "attestations", "decide", "done"}
  /\ cursor \in 1 .. 1 + Len(Items)
  /\ \A e \in errors : e[1] \in ErrorLists
  /\ attempted \in BOOLEAN /\ unchecked \in BOOLEAN
  /\ requiredCount \in {1, 1 + Len(Items)}
  /\ verifiedCount \in 0 .. requiredCount
  /\ \A v \in verified : \E i \in DOMAIN Items : v.id = Digest(Items[i])
  /\ Len(attestations) <= Len(Items)
  /\ Cardinality(snapshots) <= 1 /\ Cardinality(verdict) <= 1

\* What a sound proof is, said of the envelope and the policy alone: the key
\* that made the signature is the one trusted key the envelope names, active
\* and current, the statement is the artifact's, timely, granted to the key
\* and not revoked.
SoundProof(proof, statement, purpose) ==
  LET policy == packet.policy
  IN  /\ proof.form = "ok" /\ proof.payloadType = purpose
      /\ proof.payload = statement
      /\ proof.signer = proof.keyId
      /\ statement.id \notin policy.revoked
      /\ statement.time # NoTime /\ statement.time <= packet.asOf
      /\ \E key \in policy.keys :
           /\ key.keyId = proof.keyId /\ key.active
           /\ CurrentAt(packet.asOf, key) /\ CurrentAt(statement.time, key)
           /\ statement.issuer \in {key.issuer, NoIssuer}
           /\ purpose = "human_evidence" => HumanErrors(statement, key.issuer) = {}
           /\ \E grant \in key.authorizations :
                /\ grant.purpose = purpose
                /\ statement.kind \in grant.kinds /\ statement.scope \in grant.scopes
                /\ packet.asOf <= statement.time + grant.maxAge

SoundCall ==
  /\ packet.pinned
  /\ PolicyErrors(packet.policy, packet.asOf) = {}
  /\ packet.policy.sequence >= packet.minSequence
  /\ SoundProof(packet.bundle, packet.bundle.payload, "verification_bundle")

SoundItem(item) ==
  /\ item.artifact.form = "ok" /\ item.proofLoads
  /\ SoundProof(item.proof, item.artifact.statement, item.role)

SoundPacket ==
  /\ SoundCall
  /\ packet.bundleFits /\ packet.inventoryExact /\ packet.opaqueLoads
  /\ ProfileUsable
  /\ \A i \in DOMAIN Items : SoundItem(Items[i])
  /\ \A i, j \in DOMAIN Items : i # j => Digest(Items[i]) # Digest(Items[j])

Verdict(v) == \E r \in verdict : r.outcome = v

\* PACKET_VERIFIED, which the verdict derives from error lists, a proof count
\* and a flag (verify_bundle.py:493-549), is never reported unless the caller's
\* pins, the policy, the bundle and every proof it requires are sound; nothing
\* the pass skipped (a predicate left closed, an item that did not load) can be
\* missing from the count.
VerifiedIsSound == Verdict("PACKET_VERIFIED") => SoundPacket

\* A packet is never rejected in silence: the outcome is PACKET_REJECTED only
\* with an error in the result, although the outcome also depends on flags
\* that no error list records (verify_bundle.py:501-549).
RejectionIsExplained == Verdict("PACKET_REJECTED") => errors # {}

\* SUPPORTED (verify_bundle.py:462-467) is written before the verdict, in
\* packets that will be rejected too.  It still never rests on unverified
\* bytes: the profile was usable, and a soundly proven snapshot leaves the
\* claim's dependencies as declared; when capabilities are required, soundly
\* proven exercise evidence equals the recomputed witness, and exactly one
\* observation of the provider's outcome cites it (portable_checks.py:235-251).
SupportRestsOnProofs ==
  \A r \in results : r.support = "SUPPORTED" =>
    /\ SoundCall /\ ProfileUsable
    /\ \E i \in DOMAIN Items :
         /\ Items[i].role = "dependency_snapshot" /\ SoundItem(Items[i])
         /\ Changed(Items[i].content, packet.claims[r.claim].dependencies) = {}
    /\ packet.claims[r.claim].capabilities # {} =>
         \E i \in DOMAIN Items :
           /\ Items[i].role = "exercise_evidence" /\ SoundItem(Items[i])
           /\ Digest(Items[i]) \in r.attestation.witnesses
           /\ \E k \in DOMAIN r.attestation.observations :
                {j \in DOMAIN r.attestation.observations :
                   /\ r.attestation.observations[j].requirement = "provider_outcome"
                   /\ r.attestation.observations[j].artifact = Digest(Items[i])} = {k}

\* Partial capabilities never make a claim SUPPORTED in a packet that is
\* verified ("the partial capability support of a portable packet does not
\* change the whole claim to SUPPORTED", profiles/transactional-action/
\* README.md:152, translated).  No line of verify_bundle says so: SUPPORTED needs the
\* capabilities of a simulated scenario, "demonstrated" is refused to a
\* simulation by validate_attestation, and its refusal rejects the packet.
PartialSupportIsNotSupport ==
  Verdict("PACKET_VERIFIED") => \A r \in results : r.support # "SUPPORTED"

\* The global freshness is CURRENT (verify_bundle.py:521-530) only if a soundly
\* proven snapshot, taken for this profile and valid now, observes every
\* dependency of every claim as declared: errors about the snapshot (380-394)
\* and the freshness of single claims cannot contradict it.
CurrentRestsOnASnapshot ==
  \A r \in verdict : r.freshness = "CURRENT" =>
    \E i \in DOMAIN Items : LET snapshot == Items[i].content IN
      /\ Items[i].role = "dependency_snapshot" /\ SoundItem(Items[i])
      /\ snapshot.ofThisProfile
      /\ snapshot.observed <= packet.asOf /\ packet.asOf < snapshot.until
      /\ \A c \in DOMAIN packet.claims :
           Changed(snapshot, packet.claims[c].dependencies) = {}

\* TRUSTED (verify_bundle.py:538-544) is an aggregate: it needs a current,
\* unrolled policy and a sound bundle, and, once the pass has opened the
\* predicate, a sound proof for every item it lists.  One failed or absent
\* proof prevents it, whatever the other items are.
TrustedCoversEveryProof ==
  \A r \in verdict : r.issuerTrust = "TRUSTED" =>
    /\ PolicyErrors(packet.policy, packet.asOf) = {}
    /\ packet.policy.sequence >= packet.minSequence
    /\ SoundProof(packet.bundle, packet.bundle.payload, "verification_bundle")
    /\ requiredCount > 1 =>
         \A i \in DOMAIN Items :
           BytesLoad(Items[i]) /\ SoundProof(Items[i].proof, Items[i].artifact.statement,
                                             Items[i].role)

\* The envelopes whose checks the pass has come to.
LookedAt ==
  (IF attempted THEN {packet.bundle} ELSE {})
    \cup {Items[i].proof : i \in {j \in DOMAIN Items :
            /\ requiredCount > 1
            /\ BytesLoad(Items[j]) /\ Items[j].artifact.form # "not_json"}}

\* The one trusted key the envelope names did not make its signature.
Forged(proof) ==
  /\ proof.form = "ok"
  /\ Cardinality(TrustedKeys(proof, packet.policy)) = 1
  /\ proof.signer # proof.keyId

\* Errors are told apart by their wording (verify_bundle.py:90-111), and INVALID
\* takes precedence over NOT_CHECKED (531-537).  A signature the named, trusted
\* key did not make is reported as INVALID however the envelope's other errors,
\* or other envelopes left unchecked, are worded and classified.
ForgeryIsInvalid ==
  \A r \in verdict : (\E proof \in LookedAt : Forged(proof)) => r.signature = "INVALID"

\* The converse holds only up to the wording: INVALID without a forgery takes a
\* message about a kind, a scope or a number that repeats the phrase
\* (verify_bundle.py:105 reads what trust.py:213 and 257-280 repeat).  Distrust,
\* unreadable envelopes and mismatches never read as a forgery by themselves.
InvalidMeansForgedOrQuoted ==
  \A r \in verdict : r.signature = "INVALID" =>
    \E proof \in LookedAt :
      \/ Forged(proof)
      \/ \E e \in {"kind", "scope", "non_finite"} \cap DOMAIN proof.quotes :
           \E quoted \in proof.quotes[e] : "bad_signature" \in quoted
=============================================================================

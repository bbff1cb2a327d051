---------------------- MODULE PacketVerificationProofs ----------------------
(***************************************************************************)
(* Proofs about the verdict of verify_bundle, for every packet and every    *)
(* policy: what no reported error, the proof count and the flags stand for. *)
(***************************************************************************)
EXTENDS PacketVerification, FiniteSetTheorems, TLAPS

\* A policy nothing is reported about has a nonempty validity for every key.
LEMMA TrustedPolicy ==
  ASSUME NEW policy, NEW asOf, IsPolicy(policy), PolicyErrors(policy, asOf) = {},
         NEW key \in policy.keys
  PROVE  key.from < key.until
<1>1. UNION {KeyErrors(k) : k \in policy.keys} = {}
  BY DEF PolicyErrors
<1>2. KeyErrors(key) = {}
  BY <1>1
<1>3. ~(key.until <= key.from)
  BY <1>2 DEF KeyErrors, When
<1> QED
  BY <1>3 DEF IsPolicy

\* A statement nothing is reported about is timely and granted to its key.
LEMMA SoundStatement ==
  ASSUME NEW envelope, NEW key, NEW policy, NEW purpose, NEW asOf \in Nat,
         StatementErrors(envelope, key, policy, purpose, asOf) = {},
         key.from \in Int, key.until \in Int, key.from < key.until,
         \A grant \in key.authorizations : grant.maxAge \in Nat,
         envelope.payload.time \in Int
  PROVE  LET statement == envelope.payload
         IN  /\ envelope.signer = envelope.keyId
             /\ statement.id \notin policy.revoked
             /\ statement.time # NoTime /\ statement.time <= asOf
             /\ key.active
             /\ CurrentAt(asOf, key) /\ CurrentAt(statement.time, key)
             /\ statement.issuer \in {key.issuer, NoIssuer}
             /\ purpose = "human_evidence" => HumanErrors(statement, key.issuer) = {}
             /\ \E grant \in key.authorizations :
                  /\ grant.purpose = purpose
                  /\ statement.kind \in grant.kinds /\ statement.scope \in grant.scopes
                  /\ asOf <= statement.time + grant.maxAge
<1> DEFINE statement == envelope.payload
           issuer == IF statement.issuer = NoIssuer THEN key.issuer ELSE statement.issuer
           granted == {a \in key.authorizations : a.purpose = purpose}
           grant == CHOOSE a \in granted : TRUE
<1>1. /\ When(~key.active, "key_revoked") = {}
      /\ AuthorizationErrors(statement, purpose, key, asOf) = {}
      /\ When(issuer # key.issuer, "issuer") = {}
      /\ (IF purpose = "human_evidence" THEN HumanErrors(statement, issuer) ELSE {}) = {}
      /\ TimeErrors(statement, key, asOf) = {}
      /\ When(key.from < key.until /\ ~CurrentAt(asOf, key), "key_not_current") = {}
      /\ When(statement.id \in policy.revoked, "subject_revoked") = {}
      /\ When(envelope.signer # envelope.keyId, "bad_signature") = {}
  BY DEF StatementErrors
<1>2. /\ envelope.signer = envelope.keyId /\ statement.id \notin policy.revoked
      /\ key.active /\ CurrentAt(asOf, key) /\ issuer = key.issuer
  BY <1>1 DEF When
<1>3. statement.issuer \in {key.issuer, NoIssuer}
  BY <1>2
<1>4. purpose = "human_evidence" => HumanErrors(statement, key.issuer) = {}
  BY <1>1, <1>2
<1>5. statement.time # NoTime
  BY <1>1 DEF TimeErrors
<1>6. ~(statement.time > asOf) /\ ~(statement.time < key.from) /\ ~(statement.time >= key.until)
  BY <1>1, <1>5 DEF TimeErrors, When
<1>7. statement.time <= asOf /\ CurrentAt(statement.time, key)
  BY <1>6 DEF CurrentAt
<1>8. granted # {}
  BY <1>1 DEF AuthorizationErrors
<1>9. grant \in granted
  BY <1>8
<1>10. /\ statement.kind \in grant.kinds /\ statement.scope \in grant.scopes
       /\ ~(asOf - statement.time > grant.maxAge)
  BY <1>1, <1>5, <1>8 DEF AuthorizationErrors, When
<1> HIDE DEF grant
<1>11. asOf <= statement.time + grant.maxAge
  BY <1>9, <1>10
<1> QED
  BY <1>2, <1>3, <1>4, <1>5, <1>7, <1>9, <1>10, <1>11

\* An envelope accepted under a trusted policy carries a sound proof of the
\* statement that was expected, or of any if none was.
LEMMA SoundEnvelope ==
  ASSUME NEW envelope, NEW expected, NEW purpose, NEW statement,
         packet \in Packets, PolicyErrors(packet.policy, packet.asOf) = {},
         IsEnvelope(envelope),
         EnvelopeErrors(envelope, expected, packet.policy, purpose, packet.asOf) = {},
         \/ expected = {} /\ statement = envelope.payload
         \/ expected = {statement}
  PROVE  SoundProof(envelope, statement, purpose)
<1> DEFINE policy == packet.policy
           asOf == packet.asOf
           keys == TrustedKeys(envelope, policy)
           key == CHOOSE k \in keys : TRUE
<1>1. asOf \in Nat /\ IsPolicy(policy)
  BY PacketAssumption
<1>2. envelope.form \notin {"not_json", "non_finite", "schema_invalid", "not_base64"}
  BY DEF EnvelopeErrors
<1>3. PayloadErrors(envelope, expected, policy, purpose, asOf) = {}
  BY <1>2 DEF EnvelopeErrors
<1>4. /\ envelope.payloadType = purpose
      /\ ~(expected # {} /\ envelope.payload \notin expected)
  BY <1>3 DEF PayloadErrors, When
<1>5. envelope.payload = statement
  BY <1>4
<1>6. envelope.form \notin {"payload_not_json", "payload_non_finite"}
  BY <1>3 DEF PayloadErrors
<1>7. envelope.form = "ok"
  BY <1>2, <1>6 DEF IsEnvelope, EnvelopeForms
<1>8. Cardinality(keys) = 1
  BY <1>3, <1>6 DEF PayloadErrors
<1>9. key \in keys
  <2>1. keys # {}
    BY <1>8, FS_EmptySet
  <2> QED
    BY <2>1
<1>10. StatementErrors(envelope, key, policy, purpose, asOf) = {}
  BY <1>3, <1>6, <1>8 DEF PayloadErrors
<1> HIDE DEF key
<1>11. key \in policy.keys /\ key.keyId = envelope.keyId
  BY <1>9 DEF TrustedKeys
<1>12. /\ key.from \in Int /\ key.until \in Int
       /\ \A grant \in key.authorizations : grant.maxAge \in Nat
  BY <1>1, <1>11 DEF IsPolicy
<1>13. key.from < key.until
  BY <1>1, <1>11, TrustedPolicy
<1>14. envelope.payload.time \in Int
  BY DEF IsEnvelope
<1> DEFINE granted(s) == \E grant \in key.authorizations :
             /\ grant.purpose = purpose
             /\ s.kind \in grant.kinds /\ s.scope \in grant.scopes
             /\ asOf <= s.time + grant.maxAge
<1>15. /\ envelope.signer = envelope.keyId
       /\ statement.id \notin policy.revoked
       /\ statement.time # NoTime /\ statement.time <= asOf
       /\ key.active
       /\ CurrentAt(asOf, key) /\ CurrentAt(statement.time, key)
       /\ statement.issuer \in {key.issuer, NoIssuer}
       /\ purpose = "human_evidence" => HumanErrors(statement, key.issuer) = {}
       /\ granted(statement)
  BY <1>1, <1>5, <1>10, <1>12, <1>13, <1>14, SoundStatement
<1> QED
  BY <1>4, <1>5, <1>7, <1>11, <1>15 DEF SoundProof

-----------------------------------------------------------------------------

PolicyTrusted ==
  /\ PolicyErrors(packet.policy, packet.asOf) = {}
  /\ packet.policy.sequence >= packet.minSequence

BundleProven == SoundProof(packet.bundle, packet.bundle.payload, "verification_bundle")

ItemProven(i) ==
  BytesLoad(Items[i]) /\ SoundProof(Items[i].proof, Items[i].artifact.statement, Items[i].role)

InventorySound ==
  /\ packet.inventoryExact /\ packet.opaqueLoads /\ ProfileUsable
  /\ \A i, j \in DOMAIN Items : i # j => Digest(Items[i]) # Digest(Items[j])

Opened == phase \in {"inventory", "items", "attestations"}

Types ==
  /\ packet \in Packets
  /\ phase \in {"caller", "bundle", "inventory", "items", "attestations", "decide", "done"}
  /\ cursor \in Nat \ {0}
  /\ requiredCount \in Nat /\ verifiedCount \in Nat
  /\ verdict # {} => phase = "done"

CountAgrees ==
  /\ phase \in {"caller", "bundle"} => verifiedCount = 0
  /\ phase \in {"caller", "bundle", "inventory"} => cursor = 1
  /\ phase = "inventory" => verifiedCount = 1
  /\ phase \in {"caller", "bundle", "inventory", "decide"} => requiredCount = 1
  /\ phase \in {"items", "attestations"} => requiredCount = 1 + Len(Items)
  /\ phase = "items" => cursor <= 1 + Len(Items) /\ verifiedCount <= cursor
  /\ requiredCount >= 1
  /\ verifiedCount > 0 => attempted

\* The count is complete only if every proof so far was sound.
CountCovers ==
  /\ phase = "bundle" /\ ~Reported("issuerTrust") => PolicyTrusted
  /\ Opened => PolicyTrusted /\ BundleProven
  /\ phase = "decide" /\ verifiedCount = 1 => PolicyTrusted /\ BundleProven
  /\ phase = "items" /\ verifiedCount = cursor => \A i \in 1 .. cursor - 1 : ItemProven(i)
  /\ phase = "attestations" /\ verifiedCount = 1 + Len(Items) =>
       \A i \in DOMAIN Items : ItemProven(i)

\* As long as nothing was reported everything looked at so far was sound; the
\* verdict is never reached early.
SilenceMeansSound ==
  errors = {} =>
    /\ phase = "bundle" \/ Opened => packet.pinned /\ PolicyTrusted
    /\ phase # "decide"
    /\ Opened => packet.bundleFits
    /\ phase \in {"items", "attestations"} => InventorySound
    /\ phase = "items" => \A i \in 1 .. cursor - 1 : SoundItem(Items[i])
    /\ phase = "attestations" => \A i \in DOMAIN Items : SoundItem(Items[i])

IInv ==
  /\ Types
  /\ CountAgrees
  /\ CountCovers
  /\ SilenceMeansSound
  /\ VerifiedIsSound
  /\ TrustedCoversEveryProof
  /\ RejectionIsExplained

-----------------------------------------------------------------------------

\* What is said of the packet alone does not change while it is verified.
LEMMA PacketOnly ==
  ASSUME packet' = packet
  PROVE  /\ PolicyTrusted' = PolicyTrusted /\ BundleProven' = BundleProven
         /\ InventorySound' = InventorySound
         /\ \A i : ItemProven(i)' = ItemProven(i) /\ SoundItem(Items[i])' = SoundItem(Items[i])
         /\ SoundPacket' = SoundPacket
         /\ Items' = Items
  BY DEF PolicyTrusted, BundleProven, InventorySound, ItemProven, SoundItem,
         SoundPacket, SoundCall, SoundProof, Items, ProfileUsable, Digest, BytesLoad

LEMMA InitIInv == Init => IInv
<1> SUFFICES ASSUME Init PROVE IInv
  OBVIOUS
<1>1. Types
  BY DEF Init, Types
<1>2. CountAgrees
  BY DEF Init, CountAgrees
<1>3. CountCovers
  BY DEF Init, CountCovers, Opened
<1>4. SilenceMeansSound
  BY DEF Init, SilenceMeansSound, Opened
<1>5. VerifiedIsSound /\ TrustedCoversEveryProof /\ RejectionIsExplained
  BY DEF Init, VerifiedIsSound, TrustedCoversEveryProof, RejectionIsExplained, Verdict
<1> QED
  BY <1>1, <1>2, <1>3, <1>4, <1>5 DEF IInv

\* Before the verdict there is nothing to say about it.
LEMMA NoVerdictYet ==
  ASSUME Types, phase # "done", verdict' = verdict
  PROVE  VerifiedIsSound' /\ TrustedCoversEveryProof' /\ RejectionIsExplained'
<1>1. verdict = {}
  BY DEF Types
<1>2. ~\E r : r \in verdict'
  BY <1>1
<1> QED
  BY <1>2 DEF VerifiedIsSound, TrustedCoversEveryProof, RejectionIsExplained, Verdict

\* What is put in a list is in it, under the name of that list.
LEMMA InFacts ==
  /\ \A list, found, e : e \in found => <<list, e>> \in In(list, found)
  /\ \A list, found, e : e \in In(list, found) => e[1] = list
<1>1. ASSUME NEW list, NEW found, NEW e \in found PROVE <<list, e>> \in In(list, found)
  BY DEF In
<1>2. ASSUME NEW list, NEW found, NEW e \in In(list, found) PROVE e[1] = list
  BY DEF In
<1> QED
  BY <1>1, <1>2

LEMMA CheckCallerKeepsIInv == IInv /\ CheckCaller => IInv'
<1> SUFFICES ASSUME IInv, CheckCaller PROVE IInv'
  OBVIOUS
<1> DEFINE untrusted == PolicyErrors(packet.policy, packet.asOf)
           rollback == When(packet.policy.sequence < packet.minSequence, "rollback")
           unpinned == When(~packet.pinned, "verifier_mismatch")
<1>1. /\ phase = "caller" /\ phase' = "bundle"
      /\ errors' = In("conformance", unpinned) \cup In("issuerTrust", untrusted \cup rollback)
      /\ packet' = packet /\ cursor' = cursor /\ attempted' = attempted
      /\ requiredCount' = requiredCount /\ verifiedCount' = verifiedCount
      /\ verdict' = verdict
  BY DEF CheckCaller, claimVars, loadedVars
<1>2. verdict = {}
  BY <1>1 DEF IInv, Types
<1>3. Types'
  BY <1>1 DEF IInv, Types
<1>4. CountAgrees'
  BY <1>1 DEF IInv, CountAgrees
<1>5. untrusted = {} /\ rollback = {} => PolicyTrusted
  <2>1. packet.policy.sequence \in Nat /\ packet.minSequence \in Nat
    BY PacketAssumption DEF IInv, Types, IsPolicy
  <2> QED
    BY <2>1 DEF When, PolicyTrusted
<1>6. unpinned = {} => packet.pinned
  BY DEF When
<1>7. CountCovers' /\ SilenceMeansSound'
  <2> HIDE DEF unpinned, untrusted, rollback
  <2>1. ~Reported("issuerTrust")' => untrusted = {} /\ rollback = {}
    <3>1. ASSUME NEW e \in untrusted \cup rollback PROVE Reported("issuerTrust")'
      <4>1. <<"issuerTrust", e>> \in errors'
        BY <1>1, InFacts
      <4> QED
        BY <4>1 DEF Reported
    <3> QED
      BY <3>1
  <2>2. errors' = {} => unpinned = {} /\ untrusted = {} /\ rollback = {}
    <3>1. ASSUME NEW e \in unpinned PROVE <<"conformance", e>> \in errors'
      BY <1>1, InFacts
    <3>2. ASSUME NEW e \in untrusted \cup rollback PROVE <<"issuerTrust", e>> \in errors'
      BY <1>1, InFacts
    <3> QED
      BY <3>1, <3>2
  <2> QED
    BY <1>1, <1>5, <1>6, <2>1, <2>2, PacketOnly DEF CountCovers, SilenceMeansSound, Opened
<1> QED
  BY <1>1, <1>2, <1>3, <1>4, <1>7, NoVerdictYet DEF IInv

\* Every error of a proof is put in some list.
LEMMA ErrorsAreReported ==
  ASSUME NEW envelope, NEW found, NEW e \in found, IsEnvelope(envelope)
  PROVE  ProofErrors(envelope, found) # {}
<1>1. Messages(envelope, e) # {}
  <2>1. CASE e \in DOMAIN envelope.quotes
    <3>1. PICK quoted : quoted \in envelope.quotes[e]
      BY <2>1 DEF IsEnvelope
    <3>2. ({e} \cap Phrases) \cup quoted \in Messages(envelope, e)
      BY <2>1, <3>1 DEF Messages
    <3> QED
      BY <3>2
  <2>2. CASE e \notin DOMAIN envelope.quotes
    BY <2>2 DEF Messages
  <2> QED
    BY <2>1, <2>2
<1>2. PICK says : says \in Messages(envelope, e)
  BY <1>1
<1>3. <<ListOf(e, says), e>> \in ProofErrors(envelope, found)
  BY <1>2 DEF ProofErrors
<1> QED
  BY <1>3

\* A step that looks at an envelope and reports nothing found nothing.
LEMMA SilentEnvelope ==
  ASSUME NEW envelope, NEW found, NEW misfit, IsEnvelope(envelope), errors' = {},
         errors' = errors \cup ProofErrors(envelope, found) \cup In("conformance", misfit)
  PROVE  errors = {} /\ found = {} /\ misfit = {}
<1>1. ASSUME NEW e \in found PROVE FALSE
  BY <1>1, ErrorsAreReported
<1>2. ASSUME NEW e \in misfit PROVE FALSE
  BY <1>2, InFacts
<1> QED
  BY <1>1, <1>2

LEMMA CheckBundleKeepsIInv == IInv /\ CheckBundle => IInv'
<1> SUFFICES ASSUME IInv, CheckBundle PROVE IInv'
  OBVIOUS
<1> DEFINE found == EnvelopeErrors(packet.bundle, {}, packet.policy, "verification_bundle",
                                   packet.asOf)
           misfit == When(found = {} /\ ~packet.bundleFits, "bundle_schema")
<1>1. /\ phase = "bundle" /\ packet' = packet /\ cursor' = cursor
      /\ requiredCount' = requiredCount /\ verdict' = verdict
  BY DEF CheckBundle, claimVars
<1>2. /\ packet \in Packets /\ IsEnvelope(packet.bundle)
      /\ cursor \in Nat \ {0} /\ requiredCount = 1 /\ verifiedCount = 0 /\ verdict = {}
  BY <1>1, PacketAssumption DEF IInv, Types, CountAgrees
<1>3. CASE Reported("issuerTrust")
  <2>1. /\ phase' = "decide" /\ errors' = errors /\ verifiedCount' = verifiedCount
        /\ attempted' = attempted
    BY <1>3 DEF CheckBundle
  <2>2. errors # {}
    BY <1>3 DEF Reported
  <2>3. Types' /\ CountAgrees'
    BY <1>1, <1>2, <2>1 DEF IInv, Types, CountAgrees
  <2>4. CountCovers' /\ SilenceMeansSound'
    BY <1>2, <2>1, <2>2 DEF CountCovers, SilenceMeansSound, Opened
  <2> QED
    BY <1>1, <1>2, <2>3, <2>4, NoVerdictYet DEF IInv
<1>4. CASE ~Reported("issuerTrust")
  <2>1. /\ errors' = errors \cup ProofErrors(packet.bundle, found) \cup In("conformance", misfit)
        /\ attempted' = TRUE
        /\ verifiedCount' = IF found = {} THEN 1 ELSE 0
        /\ phase' = IF found \cup misfit = {} /\ ~Reported("conformance")
                    THEN "inventory" ELSE "decide"
    BY <1>4 DEF CheckBundle
  <2>2. PolicyTrusted
    BY <1>1, <1>4 DEF IInv, CountCovers
  <2>3. found = {} => BundleProven
    <3> SUFFICES ASSUME found = {} PROVE BundleProven
      OBVIOUS
    <3> DEFINE statement == packet.bundle.payload
    <3>1. SoundProof(packet.bundle, statement, "verification_bundle")
      BY <1>2, <2>2, SoundEnvelope DEF PolicyTrusted
    <3> QED
      BY <3>1 DEF BundleProven
  <2>4. misfit = {} /\ found = {} => packet.bundleFits
    BY DEF When
  <2> HIDE DEF found, misfit
  <2>5. errors' = {} => errors = {} /\ found = {} /\ misfit = {} /\ phase' = "inventory"
    <3> SUFFICES ASSUME errors' = {}
                 PROVE  errors = {} /\ found = {} /\ misfit = {} /\ phase' = "inventory"
      OBVIOUS
    <3>1. errors = {} /\ found = {} /\ misfit = {}
      BY <1>2, <2>1, SilentEnvelope
    <3>2. ~Reported("conformance")
      BY <3>1 DEF Reported
    <3> QED
      BY <2>1, <3>1, <3>2
  <2>6. Types'
    BY <1>1, <1>2, <2>1 DEF Types
  <2>7. CountAgrees'
    <3>1. phase' = "inventory" => cursor' = 1 /\ verifiedCount' = 1
      BY <1>1, <2>1 DEF IInv, CountAgrees
    <3> QED
      BY <1>1, <1>2, <2>1, <3>1 DEF CountAgrees
  <2>8. CountCovers'
    <3>1. verifiedCount' = 1 \/ phase' = "inventory" => found = {}
      BY <2>1
    <3> QED
      BY <1>1, <2>1, <2>2, <2>3, <3>1, PacketOnly DEF CountCovers, Opened
  <2>9. SilenceMeansSound'
    BY <1>1, <2>2, <2>4, <2>5, PacketOnly DEF IInv, SilenceMeansSound, Opened
  <2> QED
    BY <1>1, <1>2, <2>6, <2>7, <2>8, <2>9, NoVerdictYet DEF IInv
<1> QED
  BY <1>3, <1>4

LEMMA CheckInventoryKeepsIInv == IInv /\ CheckInventory => IInv'
<1> SUFFICES ASSUME IInv, CheckInventory PROVE IInv'
  OBVIOUS
<1> DEFINE inexact == When(~packet.inventoryExact, "inventory")
           opaque == When(~packet.opaqueLoads, "opaque_artifact")
           missing == When(packet.profile = "missing", "profile_missing")
           twice == When(\E i, j \in DOMAIN Items :
                           i # j /\ Digest(Items[i]) = Digest(Items[j]), "duplicate_digest")
           invalid == When(packet.profile = "invalid", "profile")
<1>1. /\ phase = "inventory" /\ phase' = "items" /\ packet' = packet /\ cursor' = cursor
      /\ errors' = errors \cup In("integrity", inexact \cup opaque \cup missing \cup twice)
                          \cup In("conformance", invalid)
      /\ requiredCount' = 1 + Len(Items) /\ verifiedCount' = verifiedCount
      /\ attempted' = attempted /\ verdict' = verdict
  BY DEF CheckInventory, claimVars
<1>2. /\ packet \in Packets /\ Len(Items) \in Nat
      /\ packet.profile \in {"valid", "missing", "invalid"}
      /\ cursor = 1 /\ verifiedCount = 1 /\ verdict = {} /\ attempted
  BY <1>1, PacketAssumption DEF IInv, Types, CountAgrees, Items
<1>3. inexact = {} /\ opaque = {} /\ missing = {} /\ twice = {} /\ invalid = {}
        => InventorySound
  BY <1>2 DEF When, InventorySound, ProfileUsable
<1> HIDE DEF inexact, opaque, missing, twice, invalid
<1>4. errors' = {} => errors = {} /\ InventorySound
  <2>1. ASSUME NEW e \in inexact \cup opaque \cup missing \cup twice
        PROVE  <<"integrity", e>> \in errors'
    BY <1>1, InFacts
  <2>2. ASSUME NEW e \in invalid PROVE <<"conformance", e>> \in errors'
    BY <1>1, InFacts
  <2>3. errors' = {} =>
          inexact = {} /\ opaque = {} /\ missing = {} /\ twice = {} /\ invalid = {}
    BY <2>1, <2>2
  <2> QED
    BY <1>1, <1>3, <2>3
<1>5. Types' /\ CountAgrees'
  BY <1>1, <1>2, PacketOnly DEF IInv, Types, CountAgrees
<1>6. CountCovers'
  BY <1>1, <1>2, PacketOnly DEF IInv, CountCovers, Opened
<1>7. SilenceMeansSound'
  <2> SUFFICES ASSUME errors' = {} PROVE SilenceMeansSound'
    BY DEF SilenceMeansSound
  <2>1. packet.pinned /\ PolicyTrusted /\ packet.bundleFits
    BY <1>1, <1>4 DEF IInv, SilenceMeansSound, Opened
  <2>2. \A i \in 1 .. cursor' - 1 : SoundItem(Items[i])'
    BY <1>1, <1>2
  <2> QED
    BY <1>1, <1>4, <2>1, <2>2, PacketOnly DEF SilenceMeansSound, Opened
<1> QED
  BY <1>1, <1>5, <1>6, <1>7, NoVerdictYet DEF IInv

\* An item that ends early is reported and leaves the count behind.
LEMMA EndedItemKeepsIInv ==
  ASSUME IInv, AtItem, NEW list \in {"integrity", "conformance"}, NEW e,
         errors' = errors \cup In(list, {e}), cursor' = cursor + 1,
         UNCHANGED <<packet, phase, proofVars, loadedVars, claimVars>>
  PROVE  IInv'
<1>1. /\ phase = "items" /\ cursor <= Len(Items)
      /\ packet' = packet /\ phase' = phase /\ verdict' = verdict
      /\ requiredCount' = requiredCount /\ verifiedCount' = verifiedCount
      /\ attempted' = attempted
  BY DEF AtItem, proofVars, claimVars
<1>2. /\ packet \in Packets /\ Len(Items) \in Nat /\ cursor \in Nat \ {0}
      /\ verifiedCount \in Nat /\ verifiedCount <= cursor /\ verdict = {}
  BY <1>1, PacketAssumption DEF IInv, Types, CountAgrees, Items
<1>3. errors' # {}
  BY InFacts
<1>4. Types' /\ CountAgrees'
  BY <1>1, <1>2, PacketOnly DEF IInv, Types, CountAgrees
<1>5. CountCovers'
  <2>1. verifiedCount' # cursor'
    BY <1>1, <1>2
  <2> QED
    BY <1>1, <2>1, PacketOnly DEF IInv, CountCovers, Opened
<1>6. SilenceMeansSound'
  BY <1>3 DEF SilenceMeansSound
<1> QED
  BY <1>1, <1>4, <1>5, <1>6, NoVerdictYet DEF IInv

LEMMA CheckProofKeepsIInv == IInv /\ CheckProof => IInv'
<1> SUFFICES ASSUME IInv, CheckProof PROVE IInv'
  OBVIOUS
<1> DEFINE item == Items[cursor]
           found == ItemErrors(item)
           misfit == When(item.artifact.form = "schema_invalid", "artifact_schema")
<1>1. /\ phase = "items" /\ phase' = phase /\ cursor <= Len(Items)
      /\ BytesLoad(item) /\ item.artifact.form # "not_json"
      /\ packet' = packet /\ cursor' = cursor + 1 /\ attempted' = TRUE
      /\ errors' = errors \cup ProofErrors(item.proof, found) \cup In("conformance", misfit)
      /\ requiredCount' = requiredCount /\ verdict' = verdict
      /\ verifiedCount' = verifiedCount + (IF found = {} THEN 1 ELSE 0)
  BY DEF CheckProof, AtItem, claimVars
<1>2. /\ packet \in Packets /\ Len(Items) \in Nat /\ DOMAIN Items = 1 .. Len(Items)
      /\ cursor \in Nat \ {0} /\ verifiedCount \in Nat /\ verifiedCount <= cursor
      /\ verdict = {}
  BY <1>1, PacketAssumption DEF IInv, Types, CountAgrees, Items
<1>3. cursor \in DOMAIN Items
  BY <1>1, <1>2
<1>4. IsEnvelope(item.proof) /\ item.artifact.form \in ArtifactForms
  BY <1>2, <1>3, PacketAssumption DEF Items
<1>5. PolicyTrusted
  BY <1>1 DEF IInv, CountCovers, Opened
<1>6. found = {} => ItemProven(cursor)
  <2> SUFFICES ASSUME found = {} PROVE ItemProven(cursor)
    OBVIOUS
  <2>1. EnvelopeErrors(item.proof, {item.artifact.statement}, packet.policy, item.role,
                       packet.asOf) = {}
    BY DEF ItemErrors
  <2>2. SoundProof(item.proof, item.artifact.statement, item.role)
    BY <1>2, <1>4, <1>5, <2>1, SoundEnvelope DEF PolicyTrusted
  <2> QED
    BY <1>1, <2>2 DEF ItemProven
<1>7. found = {} /\ misfit = {} => SoundItem(item)
  BY <1>1, <1>4, <1>6 DEF When, ArtifactForms, BytesLoad, ItemProven, SoundItem
<1> HIDE DEF found, misfit
<1>8. errors' = {} => errors = {} /\ found = {} /\ misfit = {}
  BY <1>1, <1>4, SilentEnvelope
<1>9. Types' /\ CountAgrees'
  BY <1>1, <1>2, PacketOnly DEF IInv, Types, CountAgrees
<1>10. CountCovers'
  <2>1. verifiedCount' = cursor' => verifiedCount = cursor /\ found = {}
    BY <1>1, <1>2
  <2>2. verifiedCount' = cursor' => \A i \in 1 .. cursor : ItemProven(i)
    BY <1>1, <1>2, <1>6, <2>1 DEF IInv, CountCovers
  <2> QED
    BY <1>1, <1>2, <2>2, PacketOnly DEF IInv, CountCovers, Opened
<1>11. SilenceMeansSound'
  <2>1. errors' = {} => \A i \in 1 .. cursor : SoundItem(Items[i])
    BY <1>1, <1>2, <1>7, <1>8 DEF IInv, SilenceMeansSound
  <2> QED
    BY <1>1, <1>2, <1>8, <2>1, PacketOnly DEF IInv, SilenceMeansSound, Opened
<1> QED
  BY <1>1, <1>9, <1>10, <1>11, NoVerdictYet DEF IInv

LEMMA EvaluateFreshnessKeepsIInv == IInv /\ EvaluateFreshness => IInv'
<1> SUFFICES ASSUME IInv, EvaluateFreshness PROVE IInv'
  OBVIOUS
<1>1. /\ phase = "items" /\ phase' = "attestations" /\ cursor > Len(Items) /\ cursor' = 1
      /\ packet' = packet /\ verdict' = verdict
      /\ requiredCount' = requiredCount /\ verifiedCount' = verifiedCount
      /\ attempted' = attempted
  BY DEF EvaluateFreshness, proofVars
<1>2. /\ packet \in Packets /\ Len(Items) \in Nat /\ DOMAIN Items = 1 .. Len(Items)
      /\ cursor \in Nat \ {0} /\ verdict = {}
  BY <1>1, PacketAssumption DEF IInv, Types, Items
<1>3. cursor = 1 + Len(Items) /\ DOMAIN Items = 1 .. cursor - 1
  <2>1. cursor <= 1 + Len(Items)
    BY <1>1 DEF IInv, CountAgrees
  <2>2. cursor = 1 + Len(Items)
    BY <1>1, <1>2, <2>1
  <2>3. cursor - 1 = Len(Items)
    BY <1>2, <2>2
  <2> QED
    BY <1>2, <2>2, <2>3
<1>4. \E found : errors' = errors \cup In("freshness", found)
  <2>1. CASE ~ProfileUsable \/ snapshots = {}
    <3>1. errors' = errors \cup In("freshness", {})
      BY <2>1 DEF EvaluateFreshness, In
    <3> QED
      BY <3>1
  <2>2. CASE ~(~ProfileUsable \/ snapshots = {})
    BY <2>2 DEF EvaluateFreshness
  <2> QED
    BY <2>1, <2>2
<1>5. errors' = {} => errors = {}
  BY <1>4
<1>6. Types' /\ CountAgrees'
  BY <1>1, <1>2, PacketOnly DEF IInv, Types, CountAgrees
<1>7. CountCovers'
  BY <1>1, <1>3, PacketOnly DEF IInv, CountCovers, Opened
<1>8. SilenceMeansSound'
  BY <1>1, <1>3, <1>5, PacketOnly DEF IInv, SilenceMeansSound, Opened
<1> QED
  BY <1>1, <1>6, <1>7, <1>8, NoVerdictYet DEF IInv

LEMMA CheckAttestationKeepsIInv == IInv /\ CheckAttestation => IInv'
<1> SUFFICES ASSUME IInv, CheckAttestation PROVE IInv'
  OBVIOUS
<1>1. /\ phase = "attestations" /\ phase' = phase /\ cursor' = cursor + 1
      /\ packet' = packet /\ verdict' = verdict
      /\ requiredCount' = requiredCount /\ verifiedCount' = verifiedCount
      /\ attempted' = attempted
  BY DEF CheckAttestation, proofVars
<1>2. /\ packet \in Packets /\ cursor \in Nat \ {0} /\ verdict = {}
  BY <1>1 DEF IInv, Types
<1>3. \E found, more :
        errors' = errors \cup In("integrity", found) \cup In("conformance", more)
  BY DEF CheckAttestation
<1>4. errors' = {} => errors = {}
  BY <1>3
<1>5. Types' /\ CountAgrees'
  BY <1>1, <1>2, PacketOnly DEF IInv, Types, CountAgrees
<1>6. CountCovers'
  BY <1>1, PacketOnly DEF IInv, CountCovers, Opened
<1>7. SilenceMeansSound'
  BY <1>1, <1>4, PacketOnly DEF IInv, SilenceMeansSound, Opened
<1> QED
  BY <1>1, <1>5, <1>6, <1>7, NoVerdictYet DEF IInv

\* The verdict read off the accumulators says what they stand for.
LEMMA DecideKeepsIInv == IInv /\ Decide => IInv'
<1> SUFFICES ASSUME IInv, Decide PROVE IInv'
  OBVIOUS
<1> DEFINE result == [outcome |-> Outcome, signature |-> SignatureStatus,
                      issuerTrust |-> IssuerTrustStatus, freshness |-> GlobalFreshness]
           lacking == When(~EveryProofVerified, "proofs_missing")
<1>1. /\ phase \in {"decide", "attestations"} /\ phase' = "done" /\ packet' = packet
      /\ verdict' = {result} /\ cursor' = cursor
      /\ errors' = errors \cup In("integrity", lacking)
      /\ requiredCount' = requiredCount /\ verifiedCount' = verifiedCount
      /\ attempted' = attempted
  BY DEF Decide, proofVars
<1>2. /\ packet \in Packets /\ Len(Items) \in Nat /\ DOMAIN Items = 1 .. Len(Items)
      /\ requiredCount \in Nat /\ verifiedCount \in Nat /\ requiredCount >= 1
      /\ verifiedCount > 0 => attempted
  BY PacketAssumption DEF IInv, Types, CountAgrees, Items
<1>3. /\ result.outcome = Outcome /\ result.signature = SignatureStatus
      /\ result.issuerTrust = IssuerTrustStatus
  OBVIOUS
<1> HIDE DEF result
<1>4. EveryProofVerified =>
        /\ PolicyTrusted /\ BundleProven
        /\ requiredCount > 1 => \A i \in DOMAIN Items : ItemProven(i)
  <2> SUFFICES ASSUME EveryProofVerified
               PROVE  /\ PolicyTrusted /\ BundleProven
                      /\ requiredCount > 1 => \A i \in DOMAIN Items : ItemProven(i)
    OBVIOUS
  <2>1. verifiedCount = requiredCount
    BY DEF EveryProofVerified
  <2>2. CASE phase = "decide"
    BY <2>1, <2>2 DEF IInv, CountAgrees, CountCovers
  <2>3. CASE phase = "attestations"
    BY <2>1, <2>3 DEF IInv, CountAgrees, CountCovers, Opened
  <2> QED
    BY <1>1, <2>2, <2>3
<1>5. Outcome = "PACKET_VERIFIED" => SoundPacket
  <2> SUFFICES ASSUME Outcome = "PACKET_VERIFIED" PROVE SoundPacket
    OBVIOUS
  <2>1. errors = {} /\ EveryProofVerified
    BY DEF Outcome
  <2>2. phase = "attestations"
    BY <1>1, <2>1 DEF IInv, SilenceMeansSound
  <2>3. /\ packet.pinned /\ PolicyTrusted /\ packet.bundleFits /\ InventorySound
        /\ \A i \in DOMAIN Items : SoundItem(Items[i])
    BY <2>1, <2>2 DEF IInv, SilenceMeansSound, Opened
  <2> QED
    BY <1>4, <2>1, <2>3 DEF SoundPacket, SoundCall, PolicyTrusted, BundleProven,
                            InventorySound
<1>6. Outcome \in {"PACKET_VERIFIED", "PACKET_REJECTED"}
  BY DEF Outcome
<1>7. Outcome = "PACKET_REJECTED" => errors' # {}
  <2> SUFFICES ASSUME Outcome = "PACKET_REJECTED", errors = {}, EveryProofVerified
               PROVE  FALSE
    <3>1. ~EveryProofVerified => errors' # {}
      <4> SUFFICES ASSUME ~EveryProofVerified PROVE errors' # {}
        OBVIOUS
      <4>1. "proofs_missing" \in lacking
        BY DEF When
      <4> HIDE DEF lacking
      <4> QED
        BY <1>1, <4>1, InFacts
    <3>2. errors # {} => errors' # {}
      BY <1>1
    <3> QED
      BY <3>1, <3>2
  <2>1. ~Reported("signature") /\ ~Reported("issuerTrust")
    BY DEF Reported
  <2>2. verifiedCount > 0 /\ attempted /\ ~unchecked
    BY <1>2 DEF EveryProofVerified
  <2>3. SignatureStatus = "VALID"
    BY <2>1, <2>2 DEF SignatureStatus
  <2>4. IssuerTrustStatus = "TRUSTED"
    BY <2>1 DEF IssuerTrustStatus
  <2> QED
    BY <2>3, <2>4 DEF Outcome
<1>8. IssuerTrustStatus = "TRUSTED" => EveryProofVerified
  BY DEF IssuerTrustStatus
<1>9. VerifiedIsSound'
  BY <1>1, <1>3, <1>5, PacketOnly DEF VerifiedIsSound, Verdict
<1>10. RejectionIsExplained'
  BY <1>1, <1>3, <1>7 DEF RejectionIsExplained, Verdict
<1>11. TrustedCoversEveryProof'
  <2>1. IssuerTrustStatus = "TRUSTED" =>
          /\ PolicyTrusted' /\ BundleProven'
          /\ requiredCount' > 1 => \A i \in DOMAIN Items' : ItemProven(i)'
    BY <1>1, <1>4, <1>8, PacketOnly
  <2> QED
    BY <1>1, <1>3, <2>1 DEF TrustedCoversEveryProof, PolicyTrusted, BundleProven, ItemProven
<1>12. Types' /\ CountAgrees'
  BY <1>1, <1>2 DEF IInv, Types, CountAgrees
<1>13. CountCovers' /\ SilenceMeansSound'
  BY <1>1 DEF CountCovers, SilenceMeansSound, Opened
<1> QED
  BY <1>9, <1>10, <1>11, <1>12, <1>13 DEF IInv

LEMMA StutterKeepsIInv == IInv /\ UNCHANGED vars => IInv'
<1> SUFFICES ASSUME IInv, UNCHANGED vars PROVE IInv'
  OBVIOUS
<1>1. /\ packet' = packet /\ phase' = phase /\ cursor' = cursor /\ errors' = errors
      /\ attempted' = attempted /\ requiredCount' = requiredCount
      /\ verifiedCount' = verifiedCount /\ verdict' = verdict
  BY DEF vars, proofVars, claimVars
<1>2. Types' /\ CountAgrees'
  BY <1>1, PacketOnly DEF IInv, Types, CountAgrees
<1>3. CountCovers' /\ SilenceMeansSound'
  BY <1>1, PacketOnly DEF IInv, CountCovers, SilenceMeansSound, Opened, Reported
<1>4. VerifiedIsSound' /\ RejectionIsExplained'
  BY <1>1, PacketOnly DEF IInv, VerifiedIsSound, RejectionIsExplained, Verdict
<1>5. TrustedCoversEveryProof'
  BY <1>1 DEF IInv, TrustedCoversEveryProof, SoundProof, BytesLoad, Items
<1> QED
  BY <1>2, <1>3, <1>4, <1>5 DEF IInv

LEMMA NextKeepsIInv == IInv /\ [Next]_vars => IInv'
<1> SUFFICES ASSUME IInv, [Next]_vars PROVE IInv'
  OBVIOUS
<1>1. CASE CheckCaller
  BY <1>1, CheckCallerKeepsIInv
<1>2. CASE CheckBundle
  BY <1>2, CheckBundleKeepsIInv
<1>3. CASE CheckInventory
  BY <1>3, CheckInventoryKeepsIInv
<1>4. CASE LoadFails
  BY <1>4, EndedItemKeepsIInv DEF LoadFails
<1>5. CASE ParseFails
  BY <1>5, EndedItemKeepsIInv DEF ParseFails
<1>6. CASE CheckProof
  BY <1>6, CheckProofKeepsIInv
<1>7. CASE EvaluateFreshness
  BY <1>7, EvaluateFreshnessKeepsIInv
<1>8. CASE CheckAttestation
  BY <1>8, CheckAttestationKeepsIInv
<1>9. CASE Decide
  BY <1>9, DecideKeepsIInv
<1>10. CASE UNCHANGED vars
  BY <1>10, StutterKeepsIInv
<1> QED
  BY <1>1, <1>2, <1>3, <1>4, <1>5, <1>6, <1>7, <1>8, <1>9, <1>10 DEF Next

\* The invariant holds of every reachable state of verify_bundle.
THEOREM Invariance == Spec => []IInv
<1>1. Init => IInv
  BY InitIInv
<1>2. IInv /\ [Next]_vars => IInv'
  BY NextKeepsIInv
<1> QED
  BY <1>1, <1>2, PTL DEF Spec

\* verify_bundle.py:493-549: PACKET_VERIFIED is reported only of a packet whose
\* policy, bundle, inventory and every listed proof are sound.
THEOREM VerifiedOnlyIfSound == Spec => []VerifiedIsSound
<1>1. IInv => VerifiedIsSound
  BY DEF IInv
<1> QED
  BY Invariance, <1>1, PTL

\* verify_bundle.py:538-544: TRUSTED covers the policy, the bundle and every
\* proof the pass was to verify.
THEOREM TrustedOnlyIfEveryProof == Spec => []TrustedCoversEveryProof
<1>1. IInv => TrustedCoversEveryProof
  BY DEF IInv
<1> QED
  BY Invariance, <1>1, PTL

\* verify_bundle.py:501-549: every rejection leaves an error in the result.
THEOREM RejectionHasAnError == Spec => []RejectionIsExplained
<1>1. IInv => RejectionIsExplained
  BY DEF IInv
<1> QED
  BY Invariance, <1>1, PTL

-----------------------------------------------------------------------------
(* What the freshness and the support of claims rest on *)

SoundSnapshot(s) ==
  \E i \in DOMAIN Items :
    /\ Items[i].role = "dependency_snapshot" /\ SoundItem(Items[i]) /\ Items[i].content = s

\* Whatever was loaded came from an item with a sound proof.
LoadedIsProven ==
  /\ \A v \in verified :
       \E i \in DOMAIN Items :
         SoundItem(Items[i]) /\ v.id = Digest(Items[i]) /\ v.role = Items[i].role
  /\ \A s \in snapshots : SoundSnapshot(s)

\* A snapshot without errors of its own, and of this profile or reported.
Settles(s) ==
  /\ SnapshotErrors(s, Dependencies, packet.asOf) = {}
  /\ freshness = ClaimFreshness(s, Dependencies)
  /\ ~Reported("freshness") => s.ofThisProfile

FreshnessRests ==
  DOMAIN freshness # {} =>
    /\ ProfileUsable
    /\ DOMAIN freshness = DOMAIN packet.claims
    /\ \/ \A c \in DOMAIN freshness : freshness[c] = "STALE"
       \/ \E s \in snapshots : Settles(s)

Rests ==
  /\ phase = "caller" => errors = {}
  /\ phase = "bundle" /\ ~Reported("conformance") => packet.pinned
  /\ Opened => packet.pinned
  /\ phase \notin {"attestations", "done"} => DOMAIN freshness = {} /\ results = {}
  /\ LoadedIsProven
  /\ FreshnessRests
  /\ SupportRestsOnProofs
  /\ errors = {} => \A r \in results : r.support # "SUPPORTED"
  /\ PartialSupportIsNotSupport
  /\ CurrentRestsOnASnapshot

-----------------------------------------------------------------------------

LEMMA CurrentMeansUnchanged ==
  ASSUME NEW s, NEW dependencies
  PROVE  /\ Freshness(s, dependencies) \in {"STALE", "REVIEW_REQUIRED", "CURRENT"}
         /\ Freshness(s, dependencies) = "CURRENT" => Changed(s, dependencies) = {}
<1> DEFINE changed == Changed(s, dependencies)
<1>1. CASE \E d \in changed : d.onChange = "any_change"
  BY <1>1 DEF Freshness
<1>2. CASE changed # {} /\ \A d \in changed : d.onChange # "any_change"
  BY <1>2 DEF Freshness
<1>3. CASE changed = {}
  BY <1>3 DEF Freshness
<1> QED
  BY <1>1, <1>2, <1>3

LEMMA SoundSnapshotIsCurrent ==
  ASSUME NEW s, NEW claims, NEW asOf \in Int, s.observed \in Int, s.until \in Int,
         SnapshotErrors(s, claims, asOf) = {}
  PROVE  s.observed <= asOf /\ asOf < s.until
<1>1. s.readable
  BY DEF SnapshotErrors
<1>2. ~(s.observed > asOf)
  <2>1. s.observed > asOf => "future" \in SnapshotErrors(s, claims, asOf)
    BY <1>1 DEF SnapshotErrors
  <2> QED
    BY <2>1
<1>3. ~(s.until <= asOf)
  <2>1. s.until <= asOf => "stale" \in SnapshotErrors(s, claims, asOf)
    BY <1>1 DEF SnapshotErrors
  <2> QED
    BY <2>1
<1> QED
  BY <1>2, <1>3

\* What rests on the packet, and on accumulators a step leaves alone, stays.
LEMMA RestsStay ==
  ASSUME UNCHANGED <<packet, verified, snapshots, freshness, results>>,
         errors \subseteq errors'
  PROVE  /\ LoadedIsProven => LoadedIsProven'
         /\ FreshnessRests => FreshnessRests'
         /\ SupportRestsOnProofs => SupportRestsOnProofs'
<1>1. /\ \A item : SoundItem(item)' = SoundItem(item)
      /\ SoundCall' = SoundCall /\ Items' = Items /\ ProfileUsable' = ProfileUsable
      /\ Dependencies' = Dependencies
  BY DEF SoundItem, SoundCall, SoundProof, Items, ProfileUsable, Dependencies
<1>2. LoadedIsProven => LoadedIsProven'
  BY <1>1 DEF LoadedIsProven, SoundSnapshot, Digest
<1>3. Reported("freshness") => Reported("freshness")'
  BY DEF Reported
<1>4. FreshnessRests => FreshnessRests'
  <2>1. \A s : Settles(s) => Settles(s)'
    BY <1>1, <1>3 DEF Settles
  <2> QED
    BY <1>1, <2>1 DEF FreshnessRests
<1>5. SupportRestsOnProofs => SupportRestsOnProofs'
  BY <1>1 DEF SupportRestsOnProofs, Digest
<1> QED
  BY <1>2, <1>4, <1>5

\* Before the verdict nothing is claimed of it.
LEMMA RestsWithoutVerdict ==
  ASSUME verdict' = {}
  PROVE  PartialSupportIsNotSupport' /\ CurrentRestsOnASnapshot'
BY DEF PartialSupportIsNotSupport, CurrentRestsOnASnapshot, Verdict

LEMMA InitRests == Init => Rests
<1> SUFFICES ASSUME Init PROVE Rests
  OBVIOUS
<1>1. DOMAIN freshness = {} /\ results = {} /\ verdict = {} /\ verified = {} /\ snapshots = {}
  BY DEF Init
<1>2. LoadedIsProven /\ FreshnessRests /\ SupportRestsOnProofs
  BY <1>1 DEF LoadedIsProven, FreshnessRests, SupportRestsOnProofs
<1>3. PartialSupportIsNotSupport /\ CurrentRestsOnASnapshot
  BY <1>1 DEF PartialSupportIsNotSupport, CurrentRestsOnASnapshot, Verdict
<1> QED
  BY <1>1, <1>2, <1>3 DEF Init, Rests, Opened

\* A step that only adds errors, before the attestations are looked at.
LEMMA EarlyStepKeepsRests ==
  ASSUME IInv, Rests, phase \notin {"attestations", "done"},
         phase' \notin {"attestations", "done"},
         UNCHANGED <<packet, verified, snapshots, freshness, results, verdict>>,
         errors \subseteq errors', phase' # "caller",
         phase' = "bundle" /\ ~Reported("conformance")' => packet.pinned,
         Opened' => packet.pinned
  PROVE  Rests'
<1>1. verdict' = {}
  BY DEF IInv, Types
<1>2. LoadedIsProven' /\ FreshnessRests' /\ SupportRestsOnProofs'
  BY RestsStay DEF Rests
<1>3. DOMAIN freshness' = {} /\ results' = {}
  BY DEF Rests
<1> QED
  BY <1>1, <1>2, <1>3, RestsWithoutVerdict DEF Rests

LEMMA CheckCallerKeepsRests == IInv /\ Rests /\ CheckCaller => Rests'
<1> SUFFICES ASSUME IInv, Rests, CheckCaller PROVE Rests'
  OBVIOUS
<1>1. /\ phase = "caller" /\ phase' = "bundle"
      /\ UNCHANGED <<packet, verified, snapshots, freshness, results, verdict>>
  BY DEF CheckCaller, loadedVars, claimVars
<1>2. ~packet.pinned => Reported("conformance")'
  <2> SUFFICES ASSUME ~packet.pinned PROVE Reported("conformance")'
    OBVIOUS
  <2>1. "verifier_mismatch" \in When(~packet.pinned, "verifier_mismatch")
    BY DEF When
  <2>2. <<"conformance", "verifier_mismatch">> \in errors'
    BY <2>1, InFacts DEF CheckCaller
  <2> QED
    BY <2>2 DEF Reported
<1>3. errors \subseteq errors'
  BY <1>1 DEF Rests
<1> QED
  BY <1>1, <1>2, <1>3, EarlyStepKeepsRests DEF Opened

LEMMA CheckBundleKeepsRests == IInv /\ Rests /\ CheckBundle => Rests'
<1> SUFFICES ASSUME IInv, Rests, CheckBundle PROVE Rests'
  OBVIOUS
<1>1. /\ phase = "bundle" /\ phase' \in {"inventory", "decide"}
      /\ UNCHANGED <<packet, verified, snapshots, freshness, results, verdict>>
  BY DEF CheckBundle, loadedVars, claimVars
<1>2. phase' = "inventory" => ~Reported("conformance")
  BY DEF CheckBundle
<1>3. errors \subseteq errors'
  BY DEF CheckBundle
<1>4. phase' = "inventory" => packet.pinned
  BY <1>1, <1>2 DEF Rests
<1> QED
  BY <1>1, <1>3, <1>4, EarlyStepKeepsRests DEF Opened

LEMMA CheckInventoryKeepsRests == IInv /\ Rests /\ CheckInventory => Rests'
<1> SUFFICES ASSUME IInv, Rests, CheckInventory PROVE Rests'
  OBVIOUS
<1>1. /\ phase = "inventory" /\ phase' = "items" /\ errors \subseteq errors'
      /\ UNCHANGED <<packet, verified, snapshots, freshness, results, verdict>>
  BY DEF CheckInventory, loadedVars, claimVars
<1>2. packet.pinned
  BY <1>1 DEF Rests, Opened
<1> QED
  BY <1>1, <1>2, EarlyStepKeepsRests DEF Opened

LEMMA EndedItemKeepsRests ==
  ASSUME IInv, Rests, AtItem, NEW list, NEW found,
         errors' = errors \cup In(list, found),
         UNCHANGED <<packet, phase, proofVars, loadedVars, claimVars>>
  PROVE  Rests'
<1>1. /\ phase = "items" /\ phase' = "items" /\ errors \subseteq errors'
      /\ UNCHANGED <<packet, verified, snapshots, freshness, results, verdict>>
  BY DEF AtItem, loadedVars, claimVars
<1>2. packet.pinned
  BY <1>1 DEF Rests, Opened
<1> QED
  BY <1>1, <1>2, EarlyStepKeepsRests DEF Opened

LEMMA CheckProofKeepsRests == IInv /\ Rests /\ CheckProof => Rests'
<1> SUFFICES ASSUME IInv, Rests, CheckProof PROVE Rests'
  OBVIOUS
<1> DEFINE item == Items[cursor]
           found == ItemErrors(item)
           misfit == When(item.artifact.form = "schema_invalid", "artifact_schema")
<1>1. /\ phase = "items" /\ phase' = phase /\ cursor <= Len(Items) /\ errors \subseteq errors'
      /\ UNCHANGED <<packet, freshness, results, verdict>>
      /\ BytesLoad(item) /\ item.artifact.form # "not_json"
      /\ verified' = IF found \cup misfit = {} THEN Keep(item) ELSE verified
      /\ snapshots' = IF found \cup misfit = {} /\ item.role = "dependency_snapshot"
                      THEN {item.content} ELSE snapshots
  BY DEF CheckProof, AtItem, claimVars
<1>2. /\ packet \in Packets /\ Len(Items) \in Nat /\ DOMAIN Items = 1 .. Len(Items)
      /\ cursor \in Nat \ {0} /\ verdict = {} /\ packet.pinned
      /\ DOMAIN freshness = {} /\ results = {}
  BY <1>1, PacketAssumption DEF IInv, Rests, Types, Items, Opened
<1>3. cursor \in DOMAIN Items
  BY <1>1, <1>2
<1>4. IsEnvelope(item.proof) /\ item.artifact.form \in ArtifactForms
  BY <1>2, <1>3, PacketAssumption DEF Items
<1>5. PolicyTrusted
  BY <1>1 DEF IInv, CountCovers, Opened
<1>6. found \cup misfit = {} => SoundItem(item)
  <2> SUFFICES ASSUME found = {}, misfit = {} PROVE SoundItem(item)
    OBVIOUS
  <2>1. EnvelopeErrors(item.proof, {item.artifact.statement}, packet.policy, item.role,
                       packet.asOf) = {}
    BY DEF ItemErrors
  <2>2. SoundProof(item.proof, item.artifact.statement, item.role)
    BY <1>2, <1>4, <1>5, <2>1, SoundEnvelope DEF PolicyTrusted
  <2> QED
    BY <1>1, <1>4, <2>2 DEF When, ArtifactForms, BytesLoad, SoundItem
<1> HIDE DEF found, misfit
<1>7. Items' = Items /\ \A i : SoundItem(Items[i])' = SoundItem(Items[i])
  BY <1>1, PacketOnly
<1>8. ASSUME NEW v \in verified'
      PROVE  \E i \in DOMAIN Items :
               SoundItem(Items[i]) /\ v.id = Digest(Items[i]) /\ v.role = Items[i].role
  <2>1. CASE v \in verified
    BY <2>1 DEF Rests, LoadedIsProven
  <2>2. CASE v \notin verified
    <3>1. found \cup misfit = {} /\ v = [id |-> Digest(item), role |-> item.role]
      BY <1>1, <2>2 DEF Keep
    <3> QED
      BY <1>3, <1>6, <3>1
  <2> QED
    BY <2>1, <2>2
<1>9. ASSUME NEW s \in snapshots' PROVE SoundSnapshot(s)
  BY <1>1, <1>3, <1>6 DEF Rests, LoadedIsProven, SoundSnapshot
<1>10. LoadedIsProven'
  BY <1>7, <1>8, <1>9 DEF LoadedIsProven, SoundSnapshot, Digest
<1>11. FreshnessRests' /\ SupportRestsOnProofs'
  BY <1>1, <1>2 DEF FreshnessRests, SupportRestsOnProofs
<1>12. PartialSupportIsNotSupport' /\ CurrentRestsOnASnapshot'
  BY <1>1, <1>2, RestsWithoutVerdict
<1> QED
  BY <1>1, <1>2, <1>10, <1>11, <1>12 DEF Rests

LEMMA EvaluateFreshnessKeepsRests == IInv /\ Rests /\ EvaluateFreshness => Rests'
<1> SUFFICES ASSUME IInv, Rests, EvaluateFreshness PROVE Rests'
  OBVIOUS
<1>1. /\ phase = "items" /\ phase' = "attestations"
      /\ UNCHANGED <<packet, verified, snapshots, results, verdict>>
  BY DEF EvaluateFreshness, loadedVars
<1>2. verdict = {} /\ packet.pinned /\ DOMAIN freshness = {} /\ results = {}
  BY <1>1 DEF IInv, Rests, Types, Opened
<1>3. Items' = Items /\ ProfileUsable' = ProfileUsable /\ Dependencies' = Dependencies
      /\ \A i : SoundItem(Items[i])' = SoundItem(Items[i])
  BY <1>1, PacketOnly DEF ProfileUsable, Dependencies
<1>4. LoadedIsProven'
  BY <1>1, <1>3 DEF Rests, LoadedIsProven, SoundSnapshot, Digest
<1>5. FreshnessRests'
  <2>1. CASE ~ProfileUsable \/ snapshots = {}
    BY <1>2, <2>1 DEF EvaluateFreshness, FreshnessRests
  <2>2. CASE ~(~ProfileUsable \/ snapshots = {})
    <3>1. PICK s \in snapshots :
            LET found == SnapshotErrors(s, Dependencies, packet.asOf)
            IN  /\ errors' = errors \cup In("freshness",
                     found \cup When(~s.ofThisProfile, "other_profile"))
                /\ freshness' = IF found = {} THEN ClaimFreshness(s, Dependencies)
                                ELSE [c \in DOMAIN packet.claims |-> "STALE"]
      BY <2>2 DEF EvaluateFreshness
    <3>2. DOMAIN freshness' = DOMAIN packet.claims
      BY <3>1 DEF ClaimFreshness, Dependencies
    <3>3. ~s.ofThisProfile => Reported("freshness")'
      <4> SUFFICES ASSUME ~s.ofThisProfile PROVE Reported("freshness")'
        OBVIOUS
      <4>1. "other_profile" \in When(~s.ofThisProfile, "other_profile")
        BY DEF When
      <4>2. <<"freshness", "other_profile">> \in errors'
        BY <3>1, <4>1, InFacts
      <4> QED
        BY <4>2 DEF Reported
    <3>4. CASE SnapshotErrors(s, Dependencies, packet.asOf) = {}
      <4>1. Settles(s)'
        BY <1>1, <1>3, <3>1, <3>3, <3>4 DEF Settles
      <4> QED
        BY <1>1, <1>3, <2>2, <3>2, <4>1 DEF FreshnessRests
    <3>5. CASE SnapshotErrors(s, Dependencies, packet.asOf) # {}
      <4>1. freshness' = [c \in DOMAIN packet.claims |-> "STALE"]
        BY <3>1, <3>5
      <4> QED
        BY <1>1, <1>3, <2>2, <4>1 DEF FreshnessRests
    <3> QED
      BY <3>4, <3>5
  <2> QED
    BY <2>1, <2>2
<1>6. SupportRestsOnProofs'
  BY <1>1, <1>2 DEF SupportRestsOnProofs
<1>7. PartialSupportIsNotSupport' /\ CurrentRestsOnASnapshot'
  BY <1>1, <1>2, RestsWithoutVerdict
<1> QED
  BY <1>1, <1>2, <1>4, <1>5, <1>6, <1>7 DEF Rests

-----------------------------------------------------------------------------
(* A supported result *)

\* A claim is current only if a soundly proven snapshot leaves it unchanged.
LEMMA CurrentClaim ==
  ASSUME Rests, NEW claim, ClaimFreshnessOf(claim) = "CURRENT"
  PROVE  /\ ProfileUsable /\ claim \in DOMAIN packet.claims
         /\ \E i \in DOMAIN Items :
              /\ Items[i].role = "dependency_snapshot" /\ SoundItem(Items[i])
              /\ Changed(Items[i].content, packet.claims[claim].dependencies) = {}
<1>1. claim \in DOMAIN freshness /\ freshness[claim] = "CURRENT"
  BY DEF ClaimFreshnessOf
<1>2. ProfileUsable /\ claim \in DOMAIN packet.claims
  BY <1>1 DEF Rests, FreshnessRests
<1>3. PICK s \in snapshots : Settles(s)
  BY <1>1 DEF Rests, FreshnessRests
<1>4. Freshness(s, packet.claims[claim].dependencies) = "CURRENT"
  BY <1>1, <1>2, <1>3 DEF Settles, ClaimFreshness, Dependencies
<1>5. Changed(s, packet.claims[claim].dependencies) = {}
  BY <1>4, CurrentMeansUnchanged
<1>6. SoundSnapshot(s)
  BY DEF Rests, LoadedIsProven
<1> QED
  BY <1>2, <1>5, <1>6 DEF SoundSnapshot

\* One observation of the provider's outcome, and no more, cites the digest.
ObservedOnce(attestation, digest) ==
  \E k \in DOMAIN attestation.observations :
    {j \in DOMAIN attestation.observations :
       /\ attestation.observations[j].requirement = "provider_outcome"
       /\ attestation.observations[j].artifact = digest} = {k}

\* A witness that holds is soundly proven evidence that is observed once.
LEMMA WitnessIsProven ==
  ASSUME Rests, NEW attestation, WitnessHolds(attestation)
  PROVE  \E i \in DOMAIN Items :
           /\ Items[i].role = "exercise_evidence" /\ SoundItem(Items[i])
           /\ Digest(Items[i]) \in attestation.witnesses
           /\ ObservedOnce(attestation, Digest(Items[i]))
<1> DEFINE observed(k) == attestation.observations[k]
<1>1. PICK k \in DOMAIN attestation.observations :
        /\ Candidates(attestation) = {k}
        /\ observed(k).artifact \in attestation.witnesses
  BY DEF WitnessHolds
<1>2. /\ observed(k).requirement = "provider_outcome"
      /\ [id |-> observed(k).artifact, role |-> "exercise_evidence"] \in verified
  BY <1>1 DEF Candidates, IsProven
<1>3. PICK i \in DOMAIN Items : /\ SoundItem(Items[i])
                                /\ observed(k).artifact = Digest(Items[i])
                                /\ "exercise_evidence" = Items[i].role
  BY <1>2 DEF Rests, LoadedIsProven
<1>4. ObservedOnce(attestation, Digest(Items[i]))
  <2>1. ASSUME NEW j \in DOMAIN attestation.observations,
               observed(j).requirement = "provider_outcome",
               observed(j).artifact = observed(k).artifact
        PROVE  j \in Candidates(attestation)
    <3>1. k \in Candidates(attestation)
      BY <1>1
    <3> QED
      BY <2>1, <3>1 DEF Candidates
  <2> QED
    BY <1>1, <1>2, <1>3, <2>1 DEF ObservedOnce
<1> QED
  BY <1>1, <1>3, <1>4

\* What support presupposes, once the profile requires some capability.
LEMMA SupportNeedsWitness ==
  ASSUME NEW attestation, NEW claim, ProfileUsable, claim \in DOMAIN packet.claims,
         packet.claims[claim].capabilities # {},
         RequiredBy(claim) \subseteq Supported(attestation, claim)
  PROVE  PortableScenario(attestation) /\ WitnessHolds(attestation)
<1>1. RequiredBy(claim) # {}
  BY DEF RequiredBy, ProfileClaims
<1>2. Supported(attestation, claim) # {}
  BY <1>1
<1>3. claim \in DOMAIN Support(attestation)
  BY <1>2 DEF Supported
<1> QED
  BY <1>3 DEF Support

\* A claim is not demonstrated by a simulation.
LEMMA SimulationDemonstratesNothing ==
  ASSUME NEW attestation, NEW result \in Elements(attestation.results),
         WitnessHolds(attestation), result.outcome = "demonstrated"
  PROVE  SemanticErrors(SemanticsCall(attestation)) # {}
<1> DEFINE call == SemanticsCall(attestation)
           verifiedIds == VerifiedIds(call)
           replayedIds == ReplayedIds(call)
<1> SUFFICES ASSUME SemanticErrors(call) = {} PROVE FALSE
  OBVIOUS
<1>1. call.attestation = attestation /\ call.profile.scenarios = ProfileScenarios
  BY DEF SemanticsCall
<1>2. HeaderErrors(call) = {} /\ ResultErrors(call, verifiedIds, replayedIds, result) = {}
  <2>1. \A r \in Elements(call.attestation.results) :
          ResultErrors(call, verifiedIds, replayedIds, r) \subseteq SemanticErrors(call)
    BY DEF SemanticErrors
  <2>2. HeaderErrors(call) \subseteq SemanticErrors(call)
    BY DEF SemanticErrors
  <2> QED
    BY <1>1, <2>1, <2>2
<1>3. attestation.mode = "deterministic_simulation"
  <2>1. /\ attestation.scenario \in DOMAIN ProfileScenarios
        /\ ProfileScenarios[attestation.scenario].mode = "deterministic_simulation"
    BY DEF WitnessHolds
  <2>2. When(attestation.mode # ProfileScenarios[attestation.scenario].mode, "mode") = {}
    BY <1>1, <1>2, <2>1 DEF HeaderErrors
  <2> QED
    BY <2>1, <2>2 DEF When
<1>4. ClaimErrors(call, verifiedIds, replayedIds, result) = {}
  BY <1>2 DEF ResultErrors
<1>5. DemonstrationErrors(call, result) = {}
  BY <1>4 DEF ClaimErrors
<1> QED
  BY <1>1, <1>3, <1>5 DEF DemonstrationErrors, When

LEMMA CheckAttestationKeepsRests == IInv /\ Rests /\ CheckAttestation => Rests'
<1> SUFFICES ASSUME IInv, Rests, CheckAttestation PROVE Rests'
  OBVIOUS
<1> DEFINE attestation == attestations[cursor]
           portable == When(PortableScenario(attestation) /\ ~WitnessHolds(attestation),
                            "portable_check")
           semantics == When(ProfileUsable /\ SemanticErrors(SemanticsCall(attestation)) # {},
                             "semantics")
<1>1. /\ phase = "attestations" /\ phase' = phase /\ errors \subseteq errors'
      /\ UNCHANGED <<packet, verified, snapshots, freshness, verdict>>
      /\ In("conformance", portable \cup semantics) \subseteq errors'
      /\ results' = results \cup {ClaimResult(attestation, r) : r \in Elements(attestation.results)}
  BY DEF CheckAttestation, loadedVars
<1>2. /\ packet \in Packets /\ verdict = {} /\ packet.pinned
      /\ PolicyTrusted /\ BundleProven
  BY <1>1 DEF IInv, Rests, Types, CountCovers, Opened
<1>3. SoundCall
  BY <1>2 DEF SoundCall, PolicyTrusted, BundleProven
<1>4. ASSUME NEW r \in Elements(attestation.results),
             ClaimResult(attestation, r).support = "SUPPORTED"
      PROVE  /\ r.outcome = "demonstrated"
             /\ RequiredBy(r.claim) \subseteq Supported(attestation, r.claim)
             /\ ClaimFreshnessOf(r.claim) = "CURRENT"
             /\ ProfileUsable /\ r.claim \in DOMAIN packet.claims
             /\ PortableScenario(attestation) /\ WitnessHolds(attestation)
  <2>1. /\ r.outcome = "demonstrated"
        /\ RequiredBy(r.claim) \subseteq Supported(attestation, r.claim)
        /\ ClaimFreshnessOf(r.claim) = "CURRENT"
    BY <1>4 DEF ClaimResult
  <2>2. ProfileUsable /\ r.claim \in DOMAIN packet.claims
    BY <2>1, CurrentClaim
  <2>3. packet.claims[r.claim].capabilities # {}
    BY <1>2, <2>2, PacketAssumption DEF ProfileUsable
  <2> QED
    BY <2>1, <2>2, <2>3, SupportNeedsWitness
<1> HIDE DEF attestation
<1>5. /\ Items' = Items /\ SoundCall' = SoundCall /\ ProfileUsable' = ProfileUsable
      /\ \A item : SoundItem(item)' = SoundItem(item)
  BY <1>1 DEF SoundItem, SoundCall, SoundProof, Items, ProfileUsable
<1>6. SupportRestsOnProofs'
  <2> SUFFICES ASSUME NEW r \in results', r.support = "SUPPORTED"
               PROVE  /\ SoundCall /\ ProfileUsable
                      /\ \E i \in DOMAIN Items :
                           /\ Items[i].role = "dependency_snapshot" /\ SoundItem(Items[i])
                           /\ Changed(Items[i].content, packet.claims[r.claim].dependencies) = {}
                      /\ packet.claims[r.claim].capabilities # {} =>
                           \E i \in DOMAIN Items :
                             /\ Items[i].role = "exercise_evidence" /\ SoundItem(Items[i])
                             /\ Digest(Items[i]) \in r.attestation.witnesses
                             /\ ObservedOnce(r.attestation, Digest(Items[i]))
    BY <1>1, <1>5 DEF SupportRestsOnProofs, Digest, ObservedOnce
  <2>1. CASE r \in results
    BY <2>1 DEF Rests, SupportRestsOnProofs, ObservedOnce
  <2>2. CASE r \notin results
    <3>1. PICK q \in Elements(attestation.results) : r = ClaimResult(attestation, q)
      BY <1>1, <2>2
    <3>2. r.claim = q.claim /\ r.attestation = attestation
      BY <3>1 DEF ClaimResult
    <3>3. ClaimFreshnessOf(q.claim) = "CURRENT" /\ WitnessHolds(attestation)
      BY <1>4, <3>1
    <3>4. \E i \in DOMAIN Items :
            /\ Items[i].role = "dependency_snapshot" /\ SoundItem(Items[i])
            /\ Changed(Items[i].content, packet.claims[r.claim].dependencies) = {}
      BY <3>2, <3>3, CurrentClaim
    <3>5. \E i \in DOMAIN Items :
            /\ Items[i].role = "exercise_evidence" /\ SoundItem(Items[i])
            /\ Digest(Items[i]) \in r.attestation.witnesses
            /\ ObservedOnce(r.attestation, Digest(Items[i]))
      BY <3>2, <3>3, WitnessIsProven
    <3>6. ProfileUsable
      BY <1>4, <3>1
    <3> QED
      BY <1>3, <3>4, <3>5, <3>6
  <2> QED
    BY <2>1, <2>2
<1>7. ASSUME errors' = {}, NEW r \in results', r.support = "SUPPORTED" PROVE FALSE
  <2>1. errors = {}
    BY <1>1, <1>7
  <2>2. PICK q \in Elements(attestation.results) : r = ClaimResult(attestation, q)
    BY <1>1, <1>7, <2>1 DEF Rests
  <2>3. /\ q.outcome = "demonstrated" /\ ProfileUsable /\ WitnessHolds(attestation)
    BY <1>4, <1>7, <2>2
  <2>4. SemanticErrors(SemanticsCall(attestation)) # {}
    BY <2>3, SimulationDemonstratesNothing
  <2>5. "semantics" \in semantics
    BY <2>3, <2>4 DEF When
  <2> HIDE DEF semantics, portable
  <2>6. <<"conformance", "semantics">> \in In("conformance", portable \cup semantics)
    BY <2>5, InFacts
  <2> QED
    BY <1>1, <1>7, <2>6
<1>8. LoadedIsProven' /\ FreshnessRests'
  <2>1. LoadedIsProven'
    BY <1>1, <1>5 DEF Rests, LoadedIsProven, SoundSnapshot, Digest
  <2>2. Reported("freshness") => Reported("freshness")'
    BY <1>1 DEF Reported
  <2>3. \A s : Settles(s) => Settles(s)'
    BY <1>1, <2>2 DEF Settles, Dependencies
  <2> QED
    BY <1>1, <1>5, <2>1, <2>3 DEF Rests, FreshnessRests
<1>9. PartialSupportIsNotSupport' /\ CurrentRestsOnASnapshot'
  BY <1>1, <1>2, RestsWithoutVerdict
<1> QED
  BY <1>1, <1>2, <1>6, <1>7, <1>8, <1>9 DEF Rests

\* The freshness of the packet is current only if every claim is.
LEMMA CurrentPacket ==
  ASSUME IInv, Rests, GlobalFreshness = "CURRENT"
  PROVE  \E i \in DOMAIN Items : LET snapshot == Items[i].content IN
           /\ Items[i].role = "dependency_snapshot" /\ SoundItem(Items[i])
           /\ snapshot.ofThisProfile
           /\ snapshot.observed <= packet.asOf /\ packet.asOf < snapshot.until
           /\ \A c \in DOMAIN packet.claims :
                Changed(snapshot, packet.claims[c].dependencies) = {}
<1> DEFINE values == {freshness[c] : c \in DOMAIN freshness}
<1>1. ~Reported("freshness") /\ "STALE" \notin values
  <2>1. CASE Reported("freshness") \/ "STALE" \in values
    BY <2>1 DEF GlobalFreshness
  <2> QED
    BY <2>1
<1>2. values # {}
  <2>1. CASE values = {}
    BY <1>1, <2>1 DEF GlobalFreshness
  <2> QED
    BY <2>1
<1>3. "REVIEW_REQUIRED" \notin values
  <2>1. CASE "REVIEW_REQUIRED" \in values
    BY <1>1, <1>2, <2>1 DEF GlobalFreshness
  <2> QED
    BY <2>1
<1>4. DOMAIN freshness # {}
  BY <1>2
<1>5. /\ ProfileUsable /\ DOMAIN freshness = DOMAIN packet.claims
  BY <1>4 DEF Rests, FreshnessRests
<1>6. PICK s \in snapshots : Settles(s)
  BY <1>1, <1>4 DEF Rests, FreshnessRests
<1>7. /\ SnapshotErrors(s, Dependencies, packet.asOf) = {}
      /\ freshness = ClaimFreshness(s, Dependencies) /\ s.ofThisProfile
  BY <1>1, <1>6 DEF Settles
<1>8. ASSUME NEW c \in DOMAIN packet.claims
      PROVE  Changed(s, packet.claims[c].dependencies) = {}
  <2>1. freshness[c] = Freshness(s, packet.claims[c].dependencies)
    BY <1>7 DEF ClaimFreshness, Dependencies
  <2>2. freshness[c] \in values
    BY <1>5
  <2>3. freshness[c] = "CURRENT"
    BY <1>1, <1>3, <2>1, <2>2, CurrentMeansUnchanged
  <2> QED
    BY <2>1, <2>3, CurrentMeansUnchanged
<1>9. PICK i \in DOMAIN Items :
        Items[i].role = "dependency_snapshot" /\ SoundItem(Items[i]) /\ Items[i].content = s
  BY DEF Rests, LoadedIsProven, SoundSnapshot
<1>10. packet \in Packets /\ packet.asOf \in Int /\ s.observed \in Int /\ s.until \in Int
  BY <1>9, PacketAssumption DEF IInv, Types, Items
<1>11. s.observed <= packet.asOf /\ packet.asOf < s.until
  BY <1>7, <1>10, SoundSnapshotIsCurrent
<1> QED
  BY <1>7, <1>8, <1>9, <1>11

LEMMA DecideKeepsRests == IInv /\ Rests /\ Decide => Rests'
<1> SUFFICES ASSUME IInv, Rests, Decide PROVE Rests'
  OBVIOUS
<1> DEFINE result == [outcome |-> Outcome, signature |-> SignatureStatus,
                      issuerTrust |-> IssuerTrustStatus, freshness |-> GlobalFreshness]
<1>1. /\ phase \in {"decide", "attestations"} /\ phase' = "done" /\ errors \subseteq errors'
      /\ UNCHANGED <<packet, verified, snapshots, freshness, results>>
      /\ verdict' = {result}
  BY DEF Decide, loadedVars
<1>2. LoadedIsProven' /\ FreshnessRests' /\ SupportRestsOnProofs'
  BY <1>1, RestsStay DEF Rests
<1>3. errors' = {} => \A r \in results' : r.support # "SUPPORTED"
  BY <1>1 DEF Rests
<1>4. PartialSupportIsNotSupport'
  <2> SUFFICES ASSUME Outcome = "PACKET_VERIFIED"
               PROVE  \A r \in results : r.support # "SUPPORTED"
    BY <1>1 DEF PartialSupportIsNotSupport, Verdict
  <2>1. errors = {}
    BY DEF Outcome
  <2> QED
    BY <2>1 DEF Rests
<1>5. CurrentRestsOnASnapshot'
  <2>1. result.freshness = GlobalFreshness
    OBVIOUS
  <2> HIDE DEF result
  <2> SUFFICES ASSUME GlobalFreshness = "CURRENT"
               PROVE  (\E i \in DOMAIN Items : LET snapshot == Items[i].content IN
                         /\ Items[i].role = "dependency_snapshot" /\ SoundItem(Items[i])
                         /\ snapshot.ofThisProfile
                         /\ snapshot.observed <= packet.asOf /\ packet.asOf < snapshot.until
                         /\ \A c \in DOMAIN packet.claims :
                              Changed(snapshot, packet.claims[c].dependencies) = {})'
    BY <1>1, <2>1 DEF CurrentRestsOnASnapshot
  <2>2. /\ Items' = Items
        /\ \A i : SoundItem(Items[i])' = SoundItem(Items[i])
    BY <1>1, PacketOnly
  <2> QED
    BY <1>1, <2>2, CurrentPacket
<1> QED
  BY <1>1, <1>2, <1>3, <1>4, <1>5 DEF Rests, Opened

LEMMA StutterKeepsRests == IInv /\ Rests /\ UNCHANGED vars => Rests'
<1> SUFFICES ASSUME IInv, Rests, UNCHANGED vars PROVE Rests'
  OBVIOUS
<1>1. UNCHANGED <<packet, phase, errors, verified, snapshots, freshness, results, verdict>>
  BY DEF vars, loadedVars, claimVars
<1>2. LoadedIsProven' /\ FreshnessRests' /\ SupportRestsOnProofs'
  BY <1>1, RestsStay DEF Rests
<1>3. Items' = Items /\ \A i : SoundItem(Items[i])' = SoundItem(Items[i])
  BY <1>1, PacketOnly
<1>4. PartialSupportIsNotSupport' /\ CurrentRestsOnASnapshot'
  BY <1>1, <1>3 DEF Rests, PartialSupportIsNotSupport, CurrentRestsOnASnapshot, Verdict
<1> QED
  BY <1>1, <1>2, <1>4 DEF Rests, Opened, Reported

\* What freshness and support rest on is true of every reachable state.
THEOREM RestsInvariance == Spec => [](IInv /\ Rests)
<1>1. Init => IInv /\ Rests
  BY InitIInv, InitRests
<1>2. IInv /\ Rests /\ [Next]_vars => (IInv /\ Rests)'
  <2> SUFFICES ASSUME IInv, Rests, [Next]_vars PROVE Rests'
    BY NextKeepsIInv
  <2>1. CASE LoadFails
    BY <2>1, EndedItemKeepsRests DEF LoadFails
  <2>2. CASE ParseFails
    BY <2>2, EndedItemKeepsRests DEF ParseFails
  <2> QED
    BY <2>1, <2>2, CheckCallerKeepsRests, CheckBundleKeepsRests, CheckInventoryKeepsRests,
       CheckProofKeepsRests, EvaluateFreshnessKeepsRests, CheckAttestationKeepsRests,
       DecideKeepsRests, StutterKeepsRests DEF Next
<1> QED
  BY <1>1, <1>2, PTL DEF Spec

\* verify_bundle.py:456-467: a supported result rests on soundly proven evidence
\* and a soundly proven snapshot, in rejected packets too.
THEOREM SupportIsProven == Spec => []SupportRestsOnProofs
<1>1. Rests => SupportRestsOnProofs
  BY DEF Rests
<1> QED
  BY RestsInvariance, <1>1, PTL

\* verify_bundle.py:456-467 with validate_profile.py:691: no verified packet has
\* a supported claim.
THEOREM NoSupportWhenVerified == Spec => []PartialSupportIsNotSupport
<1>1. Rests => PartialSupportIsNotSupport
  BY DEF Rests
<1> QED
  BY RestsInvariance, <1>1, PTL

\* verify_bundle.py:521-530: current is said only under a soundly proven snapshot
\* of this profile that is valid now and in which nothing has changed.
THEOREM CurrentIsProven == Spec => []CurrentRestsOnASnapshot
<1>1. Rests => CurrentRestsOnASnapshot
  BY DEF Rests
<1> QED
  BY RestsInvariance, <1>1, PTL

-----------------------------------------------------------------------------
(* What a signature reported as invalid stands for *)

\* The envelopes looked at so far.
ItemSeen(j) ==
  /\ requiredCount > 1
  /\ BytesLoad(Items[j]) /\ Items[j].artifact.form # "not_json"
  /\ phase = "items" => j < cursor

Seen ==
  (IF attempted THEN {packet.bundle} ELSE {})
    \cup {Items[i].proof : i \in {j \in DOMAIN Items : ItemSeen(j)}}

\* What may put an error in the list of invalid signatures.
Suspect(proof) ==
  \/ Forged(proof)
  \/ \E e \in {"kind", "scope", "non_finite"} \cap DOMAIN proof.quotes :
       \E quoted \in proof.quotes[e] : "bad_signature" \in quoted

SignaturesAgree ==
  /\ Reported("signature") => \E proof \in Seen : Suspect(proof)
  /\ \A proof \in Seen : Forged(proof) => Reported("signature")

Signatures ==
  /\ Opened => attempted
  /\ SignaturesAgree
  /\ ForgeryIsInvalid
  /\ InvalidMeansForgedOrQuoted

\* The list of invalid signatures holds bad signatures, and messages about a
\* kind, a scope or a number that read like one.
LEMMA SignatureErrors ==
  ASSUME NEW envelope, NEW found, IsEnvelope(envelope),
         NEW x \in ProofErrors(envelope, found), x[1] = "signature"
  PROVE  \/ "bad_signature" \in found
         \/ \E e \in {"kind", "scope", "non_finite"} \cap DOMAIN envelope.quotes :
              \E quoted \in envelope.quotes[e] : "bad_signature" \in quoted
<1>1. PICK e \in found : x \in {<<ListOf(e, says), e>> : says \in Messages(envelope, e)}
  BY DEF ProofErrors
<1>2. PICK says \in Messages(envelope, e) : x = <<ListOf(e, says), e>>
  BY <1>1
<1>3. ListOf(e, says) = "signature"
  BY <1>2
<1>4. "bad_signature" \in says /\ e \notin {"schema", "payload", "envelope"}
  BY <1>3 DEF ListOf
<1>5. CASE e \in DOMAIN envelope.quotes
  <2>1. PICK quoted \in envelope.quotes[e] : says = ({e} \cap Phrases) \cup quoted
    BY <1>2, <1>5 DEF Messages
  <2>2. e \in {"kind", "scope", "non_finite"}
    BY <1>4, <1>5 DEF IsEnvelope, QuotingErrors
  <2>3. "bad_signature" \in quoted
    BY <1>4, <2>1, <2>2
  <2> QED
    BY <1>5, <2>2, <2>3
<1>6. CASE e \notin DOMAIN envelope.quotes
  <2>1. says = {e} \cap Phrases
    BY <1>2, <1>6 DEF Messages
  <2>2. e = "bad_signature"
    BY <1>4, <2>1
  <2> QED
    BY <2>2
<1> QED
  BY <1>5, <1>6

\* A bad signature is never taken for anything else.
LEMMA BadSignatureIsListed ==
  ASSUME NEW envelope, NEW found, IsEnvelope(envelope), "bad_signature" \in found
  PROVE  <<"signature", "bad_signature">> \in ProofErrors(envelope, found)
<1> DEFINE says == {"bad_signature"}
<1>1. "bad_signature" \notin DOMAIN envelope.quotes
  BY DEF IsEnvelope, QuotingErrors
<1>2. says \in Messages(envelope, "bad_signature")
  BY <1>1 DEF Messages, Phrases
<1>3. ListOf("bad_signature", says) = "signature"
  BY DEF ListOf
<1>4. <<"signature", "bad_signature">>
        \in {<<ListOf("bad_signature", m), "bad_signature">> : m \in Messages(envelope, "bad_signature")}
  BY <1>2, <1>3
<1> QED
  BY <1>4 DEF ProofErrors

\* A bad signature is an error of exactly the forged envelopes.
LEMMA BadSignature ==
  ASSUME NEW envelope, NEW expected, NEW purpose, IsEnvelope(envelope)
  PROVE  "bad_signature" \in EnvelopeErrors(envelope, expected, packet.policy, purpose,
                                            packet.asOf)
           <=> Forged(envelope)
<1> DEFINE policy == packet.policy
           asOf == packet.asOf
           keys == TrustedKeys(envelope, policy)
           key == CHOOSE k \in keys : TRUE
           statement == envelope.payload
           issuer == IF statement.issuer = NoIssuer THEN key.issuer ELSE statement.issuer
<1>1. "bad_signature" \in EnvelopeErrors(envelope, expected, policy, purpose, asOf)
        <=> /\ envelope.form \in {"ok", "payload_not_json", "payload_non_finite"}
            /\ "bad_signature" \in PayloadErrors(envelope, expected, policy, purpose, asOf)
  BY DEF EnvelopeErrors, IsEnvelope, EnvelopeForms
<1>2. envelope.form \in {"ok", "payload_not_json", "payload_non_finite"} =>
        ("bad_signature" \in PayloadErrors(envelope, expected, policy, purpose, asOf)
          <=> /\ envelope.form = "ok" /\ Cardinality(keys) = 1
              /\ "bad_signature" \in StatementErrors(envelope, key, policy, purpose, asOf))
  BY DEF PayloadErrors, When
<1> HIDE DEF key
<1>3. "bad_signature" \notin AuthorizationErrors(statement, purpose, key, asOf)
  BY DEF AuthorizationErrors, When
<1>4. "bad_signature" \notin HumanErrors(statement, issuer)
  BY DEF HumanErrors, When
<1>5. "bad_signature" \notin TimeErrors(statement, key, asOf)
  BY DEF TimeErrors, When
<1>6. "bad_signature" \in StatementErrors(envelope, key, policy, purpose, asOf)
        <=> envelope.signer # envelope.keyId
  BY <1>3, <1>4, <1>5 DEF StatementErrors, When
<1> QED
  BY <1>1, <1>2, <1>6 DEF Forged

\* What an envelope adds to the errors agrees with it.
LEMMA EnvelopeAgrees ==
  ASSUME NEW envelope, NEW expected, NEW purpose, NEW found, IsEnvelope(envelope),
         found = EnvelopeErrors(envelope, expected, packet.policy, purpose, packet.asOf)
  PROVE  /\ (\E x \in ProofErrors(envelope, found) : x[1] = "signature") => Suspect(envelope)
         /\ Forged(envelope) => \E x \in ProofErrors(envelope, found) : x[1] = "signature"
<1>1. "bad_signature" \in found <=> Forged(envelope)
  BY BadSignature
<1>2. ASSUME NEW x \in ProofErrors(envelope, found), x[1] = "signature" PROVE Suspect(envelope)
  BY <1>1, <1>2, SignatureErrors DEF Suspect
<1>3. ASSUME Forged(envelope)
      PROVE  <<"signature", "bad_signature">> \in ProofErrors(envelope, found)
  BY <1>1, <1>3, BadSignatureIsListed
<1> QED
  BY <1>2, <1>3

LEMMA NoSignatureVerdictYet ==
  ASSUME Types, phase # "done", verdict' = verdict
  PROVE  ForgeryIsInvalid' /\ InvalidMeansForgedOrQuoted'
<1>1. ~\E r : r \in verdict'
  BY DEF Types
<1> QED
  BY <1>1 DEF ForgeryIsInvalid, InvalidMeansForgedOrQuoted

\* A step that looks at no envelope, and reports nothing against a signature.
LEMMA SameEnvelopes ==
  ASSUME SignaturesAgree, packet' = packet, Seen' = Seen, errors \subseteq errors',
         \A e \in errors' : e[1] = "signature" => e \in errors
  PROVE  SignaturesAgree'
<1>1. Reported("signature")' <=> Reported("signature")
  BY DEF Reported
<1>2. \A proof : Forged(proof)' = Forged(proof) /\ Suspect(proof)' = Suspect(proof)
  BY DEF Forged, Suspect
<1> QED
  BY <1>1, <1>2 DEF SignaturesAgree

\* A step that looks at one more envelope and reports its errors.
LEMMA OneMoreEnvelope ==
  ASSUME SignaturesAgree, NEW envelope, NEW expected, NEW purpose, NEW found, NEW more,
         IsEnvelope(envelope), packet' = packet, Seen \subseteq Seen',
         Seen' \subseteq Seen \cup {envelope}, envelope \in Seen',
         found = EnvelopeErrors(envelope, expected, packet.policy, purpose, packet.asOf),
         errors' = errors \cup ProofErrors(envelope, found) \cup In("conformance", more)
  PROVE  SignaturesAgree'
<1>1. \A proof : Forged(proof)' = Forged(proof) /\ Suspect(proof)' = Suspect(proof)
  BY DEF Forged, Suspect
<1>2. ASSUME NEW e \in errors', e[1] = "signature" PROVE \E proof \in Seen' : Suspect(proof)
  <2>1. CASE e \in errors
    BY <1>2, <2>1 DEF Reported, SignaturesAgree
  <2>2. CASE e \in ProofErrors(envelope, found)
    BY <1>2, <2>2, EnvelopeAgrees
  <2>3. e \notin In("conformance", more)
    BY <1>2, InFacts
  <2> QED
    BY <2>1, <2>2, <2>3
<1>3. ASSUME NEW proof \in Seen', Forged(proof) PROVE \E e \in errors' : e[1] = "signature"
  <2>1. CASE proof \in Seen
    BY <1>3, <2>1 DEF Reported, SignaturesAgree
  <2>2. CASE proof = envelope
    BY <1>3, <2>2, EnvelopeAgrees
  <2> QED
    BY <2>1, <2>2
<1> QED
  BY <1>1, <1>2, <1>3 DEF SignaturesAgree, Reported

LEMMA InitSignatures == Init => Signatures
<1> SUFFICES ASSUME Init PROVE Signatures
  OBVIOUS
<1>1. Seen = {} /\ ~Reported("signature") /\ ~Opened
  BY DEF Init, Seen, ItemSeen, Reported, Opened
<1>2. ForgeryIsInvalid /\ InvalidMeansForgedOrQuoted
  BY DEF Init, ForgeryIsInvalid, InvalidMeansForgedOrQuoted
<1> QED
  BY <1>1, <1>2 DEF Signatures, SignaturesAgree

\* What was seen of the items depends on the packet and on how far the pass is.
LEMMA SameItemsSeen ==
  ASSUME UNCHANGED <<packet, attempted>>,
         \A j \in DOMAIN Items : ItemSeen(j)' <=> ItemSeen(j)
  PROVE  Seen' = Seen
BY DEF Seen, Items

\* A step of other checks, before the verdict.
LEMMA OtherStepKeepsSignatures ==
  ASSUME IInv, Signatures, phase # "done", UNCHANGED <<packet, attempted, verdict>>,
         \A j \in DOMAIN Items : ItemSeen(j)' <=> ItemSeen(j),
         errors \subseteq errors',
         \A e \in errors' : e[1] = "signature" => e \in errors,
         Opened' => Opened
  PROVE  Signatures'
<1>1. Seen' = Seen
  BY SameItemsSeen
<1>2. SignaturesAgree'
  BY <1>1, SameEnvelopes DEF Signatures
<1> QED
  BY <1>2, NoSignatureVerdictYet DEF IInv, Signatures

LEMMA CheckCallerKeepsSignatures ==
  IInv /\ Rests /\ Signatures /\ CheckCaller => Signatures'
<1> SUFFICES ASSUME IInv, Rests, Signatures, CheckCaller PROVE Signatures'
  OBVIOUS
<1>1. /\ phase = "caller" /\ phase' = "bundle" /\ errors = {}
      /\ UNCHANGED <<packet, attempted, requiredCount, verdict>>
  BY DEF CheckCaller, claimVars, Rests
<1>2. requiredCount = 1
  BY <1>1 DEF IInv, CountAgrees
<1>3. \E found, more : errors' = In("conformance", found) \cup In("issuerTrust", more)
  BY DEF CheckCaller
<1>4. \A e \in errors' : e[1] # "signature"
  BY <1>3, InFacts
<1> QED
  BY <1>1, <1>2, <1>4, OtherStepKeepsSignatures DEF ItemSeen, Opened

LEMMA CheckBundleKeepsSignatures == IInv /\ Signatures /\ CheckBundle => Signatures'
<1> SUFFICES ASSUME IInv, Signatures, CheckBundle PROVE Signatures'
  OBVIOUS
<1> DEFINE found == EnvelopeErrors(packet.bundle, {}, packet.policy, "verification_bundle",
                                   packet.asOf)
           misfit == When(found = {} /\ ~packet.bundleFits, "bundle_schema")
<1>1. /\ phase = "bundle" /\ phase' \in {"inventory", "decide"}
      /\ UNCHANGED <<packet, requiredCount, verdict>>
  BY DEF CheckBundle, claimVars
<1>2. requiredCount = 1 /\ IsEnvelope(packet.bundle)
  BY <1>1, PacketAssumption DEF IInv, Types, CountAgrees
<1>3. CASE Reported("issuerTrust")
  <2>1. phase' = "decide" /\ UNCHANGED <<errors, attempted>>
    BY <1>3 DEF CheckBundle
  <2> QED
    BY <1>1, <1>2, <2>1, OtherStepKeepsSignatures DEF ItemSeen, Opened
<1>4. CASE ~Reported("issuerTrust")
  <2>1. /\ errors' = errors \cup ProofErrors(packet.bundle, found) \cup In("conformance", misfit)
        /\ attempted' = TRUE
    BY <1>4 DEF CheckBundle
  <2>2. Seen \subseteq {packet.bundle} /\ Seen' = {packet.bundle}
    BY <1>1, <1>2, <2>1 DEF Seen, ItemSeen
  <2> HIDE DEF misfit
  <2>3. SignaturesAgree'
    BY <1>1, <1>2, <2>1, <2>2, OneMoreEnvelope DEF Signatures
  <2> QED
    BY <1>1, <2>1, <2>3, NoSignatureVerdictYet DEF IInv, Signatures
<1> QED
  BY <1>3, <1>4

\* The items come into view with the first of them, not before.
LEMMA CheckInventoryKeepsSignatures == IInv /\ Signatures /\ CheckInventory => Signatures'
<1> SUFFICES ASSUME IInv, Signatures, CheckInventory PROVE Signatures'
  OBVIOUS
<1>1. /\ phase = "inventory" /\ phase' = "items"
      /\ UNCHANGED <<packet, cursor, attempted, verdict>>
  BY DEF CheckInventory, claimVars
<1>2. /\ requiredCount = 1 /\ cursor = 1 /\ Len(Items) \in Nat /\ DOMAIN Items = 1 .. Len(Items)
  BY <1>1, PacketAssumption DEF IInv, Types, CountAgrees, Items
<1>3. \A j \in DOMAIN Items : ~ItemSeen(j) /\ ~ItemSeen(j)'
  BY <1>1, <1>2 DEF ItemSeen
<1>4. \E some, more : errors' = errors \cup In("integrity", some) \cup In("conformance", more)
  BY DEF CheckInventory
<1>5. \A e \in errors' : e[1] = "signature" => e \in errors
  BY <1>4, InFacts
<1>6. errors \subseteq errors'
  BY <1>4
<1> QED
  BY <1>1, <1>3, <1>5, <1>6, OtherStepKeepsSignatures DEF Opened

\* An item that ends the checks before its proof is not looked at.
LEMMA EndedItemKeepsSignatures ==
  ASSUME IInv, Signatures, AtItem, NEW list \in {"integrity", "conformance"}, NEW some,
         ~BytesLoad(Items[cursor]) \/ Items[cursor].artifact.form = "not_json",
         errors' = errors \cup In(list, some), cursor' = cursor + 1,
         UNCHANGED <<packet, phase, proofVars, loadedVars, claimVars>>
  PROVE  Signatures'
<1>1. phase = "items" /\ UNCHANGED <<packet, phase, attempted, requiredCount, verdict>>
  BY DEF AtItem, proofVars, claimVars
<1>2. /\ Len(Items) \in Nat /\ DOMAIN Items = 1 .. Len(Items) /\ cursor \in Nat
  BY PacketAssumption DEF IInv, Types, Items
<1>3. ASSUME NEW j \in DOMAIN Items PROVE ItemSeen(j)' <=> ItemSeen(j)
  <2>1. BytesLoad(Items[j])' = BytesLoad(Items[j]) /\ Items' = Items
    BY <1>1 DEF BytesLoad, Items
  <2>2. j < cursor + 1 <=> j < cursor \/ j = cursor
    BY <1>2
  <2> QED
    BY <1>1, <2>1, <2>2 DEF ItemSeen
<1>4. \A e \in errors' : e[1] = "signature" => e \in errors
  BY InFacts
<1> QED
  BY <1>1, <1>3, <1>4, OtherStepKeepsSignatures DEF Opened

LEMMA CheckProofKeepsSignatures == IInv /\ Signatures /\ CheckProof => Signatures'
<1> SUFFICES ASSUME IInv, Signatures, CheckProof PROVE Signatures'
  OBVIOUS
<1> DEFINE item == Items[cursor]
           found == ItemErrors(item)
           misfit == When(item.artifact.form = "schema_invalid", "artifact_schema")
<1>1. /\ phase = "items" /\ phase' = phase /\ cursor <= Len(Items)
      /\ BytesLoad(item) /\ item.artifact.form # "not_json"
      /\ packet' = packet /\ cursor' = cursor + 1 /\ attempted' = TRUE
      /\ errors' = errors \cup ProofErrors(item.proof, found) \cup In("conformance", misfit)
      /\ requiredCount' = requiredCount /\ verdict' = verdict
  BY DEF CheckProof, AtItem, claimVars
<1>2. /\ packet \in Packets /\ Len(Items) \in Nat /\ DOMAIN Items = 1 .. Len(Items)
      /\ cursor \in Nat \ {0} /\ requiredCount = 1 + Len(Items) /\ attempted
  BY <1>1, PacketAssumption DEF IInv, Types, CountAgrees, Items, Signatures, Opened
<1>3. cursor \in DOMAIN Items /\ requiredCount > 1
  BY <1>1, <1>2
<1>4. IsEnvelope(item.proof)
  BY <1>2, <1>3, PacketAssumption DEF Items
<1>5. ASSUME NEW j \in DOMAIN Items PROVE ItemSeen(j)' <=> ItemSeen(j) \/ j = cursor
  <2>1. BytesLoad(Items[j])' = BytesLoad(Items[j]) /\ Items' = Items
    BY <1>1 DEF BytesLoad, Items
  <2>2. j < cursor + 1 <=> j < cursor \/ j = cursor
    BY <1>2
  <2> QED
    BY <1>1, <1>3, <2>1, <2>2 DEF ItemSeen
<1>6. Items' = Items
  BY <1>1 DEF Items
<1>7. Seen' = Seen \cup {item.proof}
  BY <1>1, <1>2, <1>3, <1>5, <1>6 DEF Seen
<1>8. found = EnvelopeErrors(item.proof, {item.artifact.statement}, packet.policy, item.role,
                             packet.asOf)
  BY DEF ItemErrors
<1> HIDE DEF found, misfit, item
<1>9. SignaturesAgree'
  BY <1>1, <1>4, <1>7, <1>8, OneMoreEnvelope DEF Signatures
<1> QED
  BY <1>1, <1>9, NoSignatureVerdictYet DEF IInv, Signatures

LEMMA EvaluateFreshnessKeepsSignatures ==
  IInv /\ Signatures /\ EvaluateFreshness => Signatures'
<1> SUFFICES ASSUME IInv, Signatures, EvaluateFreshness PROVE Signatures'
  OBVIOUS
<1>1. /\ phase = "items" /\ phase' = "attestations" /\ cursor > Len(Items)
      /\ UNCHANGED <<packet, attempted, requiredCount, verdict>>
  BY DEF EvaluateFreshness, proofVars
<1>2. /\ Len(Items) \in Nat /\ DOMAIN Items = 1 .. Len(Items) /\ cursor \in Nat
  BY PacketAssumption DEF IInv, Types, Items
<1>3. ASSUME NEW j \in DOMAIN Items PROVE ItemSeen(j)' <=> ItemSeen(j)
  <2>1. BytesLoad(Items[j])' = BytesLoad(Items[j]) /\ Items' = Items
    BY <1>1 DEF BytesLoad, Items
  <2>2. j < cursor
    BY <1>1, <1>2
  <2> QED
    BY <1>1, <2>1, <2>2 DEF ItemSeen
<1>4. \E some : errors' = errors \cup In("freshness", some)
  <2>1. CASE ~ProfileUsable \/ snapshots = {}
    <3>1. errors' = errors \cup In("freshness", {})
      BY <2>1 DEF EvaluateFreshness, In
    <3> QED
      BY <3>1
  <2>2. CASE ~(~ProfileUsable \/ snapshots = {})
    BY <2>2 DEF EvaluateFreshness
  <2> QED
    BY <2>1, <2>2
<1>5. \A e \in errors' : e[1] = "signature" => e \in errors
  BY <1>4, InFacts
<1>6. errors \subseteq errors'
  BY <1>4
<1> QED
  BY <1>1, <1>3, <1>5, <1>6, OtherStepKeepsSignatures DEF Opened

LEMMA CheckAttestationKeepsSignatures ==
  IInv /\ Signatures /\ CheckAttestation => Signatures'
<1> SUFFICES ASSUME IInv, Signatures, CheckAttestation PROVE Signatures'
  OBVIOUS
<1>1. /\ phase = "attestations" /\ phase' = phase
      /\ UNCHANGED <<packet, attempted, requiredCount, verdict>>
  BY DEF CheckAttestation, proofVars
<1>2. \E some, more : errors' = errors \cup In("integrity", some) \cup In("conformance", more)
  BY DEF CheckAttestation
<1>3. \A e \in errors' : e[1] = "signature" => e \in errors
  BY <1>2, InFacts
<1>4. errors \subseteq errors'
  BY <1>2
<1>5. \A j \in DOMAIN Items : ItemSeen(j)' <=> ItemSeen(j)
  BY <1>1 DEF ItemSeen, BytesLoad, Items
<1> QED
  BY <1>1, <1>3, <1>4, <1>5, OtherStepKeepsSignatures DEF Opened

\* At the verdict every envelope the pass comes to has been seen.
LEMMA DecideKeepsSignatures == IInv /\ Signatures /\ Decide => Signatures'
<1> SUFFICES ASSUME IInv, Signatures, Decide PROVE Signatures'
  OBVIOUS
<1> DEFINE result == [outcome |-> Outcome, signature |-> SignatureStatus,
                      issuerTrust |-> IssuerTrustStatus, freshness |-> GlobalFreshness]
<1>1. /\ phase \in {"decide", "attestations"} /\ phase' = "done"
      /\ UNCHANGED <<packet, attempted, requiredCount>> /\ verdict' = {result}
      /\ \E some : errors' = errors \cup In("integrity", some)
  BY DEF Decide, proofVars
<1>2. /\ \A j \in DOMAIN Items : ItemSeen(j)' <=> ItemSeen(j)
      /\ Seen = LookedAt /\ LookedAt' = LookedAt
  <2>1. Seen = LookedAt
    BY <1>1 DEF Seen, ItemSeen, LookedAt
  <2>2. LookedAt' = LookedAt
    BY <1>1 DEF LookedAt, BytesLoad, Items
  <2>3. \A j \in DOMAIN Items : ItemSeen(j)' <=> ItemSeen(j)
    BY <1>1 DEF ItemSeen, BytesLoad, Items
  <2> QED
    BY <2>1, <2>2, <2>3
<1>3. Seen' = Seen
  BY <1>1, <1>2, SameItemsSeen
<1>4. \A e \in errors' : e[1] = "signature" => e \in errors
  BY <1>1, InFacts
<1>5. SignaturesAgree'
  BY <1>1, <1>3, <1>4, SameEnvelopes DEF Signatures
<1>6. result.signature = "INVALID" <=> Reported("signature")
  BY DEF SignatureStatus
<1> HIDE DEF result
<1>7. \A proof : Forged(proof)' = Forged(proof)
  BY <1>1 DEF Forged
<1>8. ForgeryIsInvalid'
  BY <1>1, <1>2, <1>6, <1>7 DEF Signatures, SignaturesAgree, ForgeryIsInvalid
<1>9. InvalidMeansForgedOrQuoted'
  BY <1>1, <1>2, <1>6, <1>7 DEF Signatures, SignaturesAgree, InvalidMeansForgedOrQuoted, Suspect
<1> QED
  BY <1>1, <1>5, <1>8, <1>9 DEF Signatures, Opened

LEMMA StutterKeepsSignatures == IInv /\ Signatures /\ UNCHANGED vars => Signatures'
<1> SUFFICES ASSUME IInv, Signatures, UNCHANGED vars PROVE Signatures'
  OBVIOUS
<1>1. UNCHANGED <<packet, phase, cursor, errors, attempted, requiredCount, verdict>>
  BY DEF vars, proofVars, claimVars
<1>2. Seen' = Seen /\ LookedAt' = LookedAt
  BY <1>1 DEF Seen, ItemSeen, LookedAt, BytesLoad, Items
<1>3. \A proof : Forged(proof)' = Forged(proof)
  BY <1>1 DEF Forged
<1>4. SignaturesAgree'
  BY <1>1, <1>2, SameEnvelopes DEF Signatures
<1>5. ForgeryIsInvalid' /\ InvalidMeansForgedOrQuoted'
  BY <1>1, <1>2, <1>3 DEF Signatures, ForgeryIsInvalid, InvalidMeansForgedOrQuoted
<1> QED
  BY <1>1, <1>4, <1>5 DEF Signatures, Opened

\* Signatures are reported as they are found, in every reachable state.
THEOREM SignaturesInvariance == Spec => []Signatures
<1>1. Init => Signatures
  BY InitSignatures
<1>2. IInv /\ Rests /\ Signatures /\ [Next]_vars => Signatures'
  <2> SUFFICES ASSUME IInv, Rests, Signatures, [Next]_vars PROVE Signatures'
    OBVIOUS
  <2>1. CASE LoadFails
    BY <2>1, EndedItemKeepsSignatures DEF LoadFails
  <2>2. CASE ParseFails
    BY <2>2, EndedItemKeepsSignatures DEF ParseFails, proofVars, loadedVars, claimVars
  <2> QED
    BY <2>1, <2>2, CheckCallerKeepsSignatures, CheckBundleKeepsSignatures,
       CheckInventoryKeepsSignatures, CheckProofKeepsSignatures,
       EvaluateFreshnessKeepsSignatures, CheckAttestationKeepsSignatures,
       DecideKeepsSignatures, StutterKeepsSignatures DEF Next
<1> QED
  BY RestsInvariance, <1>1, <1>2, PTL DEF Spec

\* verify_bundle.py:90-111 and 531-537: a signature that the named, trusted key
\* did not make is reported as INVALID, whatever the wording of other errors.
THEOREM ForgeryIsReported == Spec => []ForgeryIsInvalid
<1>1. Signatures => ForgeryIsInvalid
  BY DEF Signatures
<1> QED
  BY SignaturesInvariance, <1>1, PTL

\* verify_bundle.py:90-111 and 531-537: INVALID is said of a forgery, or of a
\* message about a kind, a scope or a number that repeats the phrase, and of
\* nothing else.
THEOREM InvalidOnlyIfForgedOrQuoted == Spec => []InvalidMeansForgedOrQuoted
<1>1. Signatures => InvalidMeansForgedOrQuoted
  BY DEF Signatures
<1> QED
  BY SignaturesInvariance, <1>1, PTL
=============================================================================

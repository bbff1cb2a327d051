--------------------------- MODULE TrustEvaluation ---------------------------
(***************************************************************************)
(* What tools/trust.py decides about a trust policy and about one DSSE      *)
(* envelope (validate_trust_policy, verify_dsse_envelope), as the sets of   *)
(* errors it reports.  Bytes are the statement they encode, a signature is  *)
(* the key that made it, a point of time is an integer.                     *)
(*                                                                          *)
(*   policy     [form, sequence, from, until, keys, revoked]                *)
(*   key        [keyId, active, matchesDigest, issuer, domain, from, until, *)
(*               authorizations]                                            *)
(*   authorization [purpose, kinds, scopes, maxAge]                         *)
(*   statement  [id, kind, issuer, evidenceType, subjects, scope, time]     *)
(*   envelope   [form, payloadType, payload, keyId, signer]; where the      *)
(*              wording of errors matters also [quotes], see Messages       *)
(***************************************************************************)
EXTENDS ErrorSets, Integers, FiniteSets

NoTime   == -1
NoIssuer == [id |-> "none", type |-> "none"]

\* Validity intervals include their start and exclude their end.
CurrentAt(time, interval) == interval.from <= time /\ time < interval.until

KeyErrors(key) ==
  When(key.until <= key.from, "key_interval")
    \cup When(~key.matchesDigest, "key_digest")
    \cup When(\E a, b \in key.authorizations : a # b /\ a.purpose = b.purpose,
              "duplicate_purpose")

\* A policy that does not fit its schema is not looked at any further.
PolicyErrors(policy, asOf) ==
  IF policy.form = "schema_invalid" THEN {"policy_schema"}
  ELSE When(policy.until <= policy.from, "policy_interval")
         \cup When(policy.from < policy.until /\ ~CurrentAt(asOf, policy),
                   "policy_not_current")
         \cup When(\E j, k \in policy.keys : j # k /\ j.keyId = k.keyId, "duplicate_key")
         \cup When(\E j, k \in policy.keys : j.issuer = k.issuer /\ j.domain # k.domain,
                   "several_domains")
         \cup UNION {KeyErrors(key) : key \in policy.keys}

SelfAttestable == {"participant_acknowledgement", "withdrawal_status"}

\* Participants speak for themselves in their own two statements, and nobody
\* speaks for himself in any other human evidence.
HumanErrors(statement, issuer) ==
  IF statement.evidenceType \in SelfAttestable
  THEN When(issuer.type # "human" \/ statement.subjects # {issuer.id}, "not_self_issued")
  ELSE When(issuer.type = "human", "human_issuer")
         \cup When(issuer.type # "human" /\ issuer.id \in statement.subjects,
                   "own_subject")

\* The statement's time against the evaluation time and the key's validity.
TimeErrors(statement, key, asOf) ==
  IF statement.time = NoTime THEN {"no_time"}
  ELSE When(statement.time > asOf, "future")
         \cup When(statement.time < key.from, "predates_key")
         \cup When(statement.time >= key.until, "outlives_key")

AuthorizationErrors(statement, purpose, key, asOf) ==
  LET granted == {a \in key.authorizations : a.purpose = purpose}
      grant   == CHOOSE a \in granted : TRUE
  IN  IF granted = {} THEN {"purpose"}
      ELSE When(statement.kind \notin grant.kinds, "kind")
             \cup When(statement.scope \notin grant.scopes, "scope")
             \cup When(statement.time # NoTime /\ asOf - statement.time > grant.maxAge,
                       "too_old")

StatementErrors(envelope, key, policy, purpose, asOf) ==
  LET statement == envelope.payload
      issuer == IF statement.issuer = NoIssuer THEN key.issuer ELSE statement.issuer
  IN  When(~key.active, "key_revoked")
        \cup AuthorizationErrors(statement, purpose, key, asOf)
        \cup When(issuer # key.issuer, "issuer")
        \cup (IF purpose = "human_evidence" THEN HumanErrors(statement, issuer) ELSE {})
        \cup TimeErrors(statement, key, asOf)
        \cup When(key.from < key.until /\ ~CurrentAt(asOf, key), "key_not_current")
        \cup When(statement.id \in policy.revoked, "subject_revoked")
        \cup When(envelope.signer # envelope.keyId, "bad_signature")

TrustedKeys(envelope, policy) == {k \in policy.keys : k.keyId = envelope.keyId}

\* Everything after base64 decoding: type and bytes are compared whatever
\* happens later, an unreadable payload or an unknown key ends the checks.
PayloadErrors(envelope, expected, policy, purpose, asOf) ==
  When(envelope.payloadType # purpose, "payload_type")
    \cup When(expected # {} /\ envelope.payload \notin expected, "byte_mismatch")
    \cup (CASE envelope.form = "payload_not_json"   -> {"payload"}
            [] envelope.form = "payload_non_finite" -> {"non_finite"}
            [] Cardinality(TrustedKeys(envelope, policy)) # 1 -> {"key_unknown"}
            [] OTHER -> StatementErrors(envelope,
                          CHOOSE k \in TrustedKeys(envelope, policy) : TRUE,
                          policy, purpose, asOf))

\* verify_dsse_envelope: {} exactly when it returns a VerifiedStatement.
\* expected is {} or the singleton of the statement the artifact encodes.
EnvelopeErrors(envelope, expected, policy, purpose, asOf) ==
  CASE envelope.form = "not_json"       -> {"envelope"}
    [] envelope.form = "non_finite"     -> {"non_finite"}
    [] envelope.form = "schema_invalid" -> {"schema"}
    [] envelope.form = "not_base64"     -> {"base64"}
    [] OTHER -> PayloadErrors(envelope, expected, policy, purpose, asOf)

-----------------------------------------------------------------------------
(***************************************************************************)
(* Errors are texts, and verify_bundle tells them apart by phrases in them. *)
(* Some texts repeat what the envelope says: a duplicate key or the path of *)
(* a number, a value that does not fit the schema, a kind or a scope that   *)
(* is not granted.  envelope.quotes maps such an error to the sets of       *)
(* phrases its messages repeat, one set for each message.                   *)
(***************************************************************************)
Phrases == {"byte_mismatch", "payload_type", "base64", "bad_signature", "key_unknown"}
QuotingErrors == {"envelope", "schema", "payload", "non_finite", "kind", "scope"}

\* The phrases in each message of an error: its own one, if it is one of the
\* errors known by a phrase, and those it repeats.
Messages(envelope, error) ==
  LET own == {error} \cap Phrases
  IN  IF error \in DOMAIN envelope.quotes
      THEN {own \cup quoted : quoted \in envelope.quotes[error]}
      ELSE {own}
=============================================================================

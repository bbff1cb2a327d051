---------------------------- MODULE PortableWitness ----------------------------
(***************************************************************************)
(* The portable check of the response-loss witness: the packet verifier     *)
(* does not run the runner but recounts the evidence, reconstructs the      *)
(* whole payload from the profile and compares.  The runner, which it has   *)
(* to agree with, writes parts of its attestation as constants.             *)
(* A context is what the scenario says beside its parameters: its mode, the *)
(* targets of its injects, the id of the fault, the shared dependencies and *)
(* the claims.  The seed is the set of lost responses it selects.           *)
(***************************************************************************)
EXTENDS Integers, Sequences, FiniteSets, FiniteSetsExt, SequencesExt, ErrorSets

-----------------------------------------------------------------------------
(* What build_artifacts writes into the attestation *)

RunnerContext ==
  [mode |-> "deterministic_simulation", injects |-> <<"refund-connector">>,
   fault |-> "response-loss-after-commit", shared |-> <<"refund-provider-status-api">>,
   claims |-> {"refund-provider-outage"}]

\* Beside the constants: the workload of the run, and three of its counts.
RunnerAttestation(workload, summary) ==
  [claims |-> RunnerContext.claims, injects |-> RunnerContext.injects,
   fault |-> RunnerContext.fault, shared |-> RunnerContext.shared,
   workload |-> workload,
   measurements |-> [lostResponses |-> summary.lostResponses,
                     duplicates |-> summary.duplicates, reconciled |-> summary.reconciled],
   binding |-> {"lostResponses", "duplicates", "reconciled"}]

-----------------------------------------------------------------------------
(* The reconstruction *)

Reconciliation(intent, effect) ==
  [intent |-> intent, event |-> "CONFIRMED_SUCCEEDED_FROM_RECONCILIATION", effect |-> effect]
EventOf(intent, event) == [intent |-> intent, event |-> event]

\* Seeded fault: the reconciliations follow in a block of their own.
ExpectedEventsDeferred(total, lost) ==
  [i \in 1 .. total |->
     EventOf(i, IF i \in lost THEN "OUTCOME_UNKNOWN" ELSE "CONFIRMED_SUCCEEDED_FROM_RESPONSE")]
    \o FlattenSeq([i \in 1 .. total |->
                     IF i \in lost THEN <<Reconciliation(i, i)>> ELSE << >>])

\* Intent after intent; a lost one is unknown and then reconciled.
ExpectedEvents(total, lost) ==
  FlattenSeq([i \in 1 .. total |->
    IF i \in lost THEN <<EventOf(i, "OUTCOME_UNKNOWN"), Reconciliation(i, i)>>
    ELSE <<EventOf(i, "CONFIRMED_SUCCEEDED_FROM_RESPONSE")>>])

ExpectedPayload(total, lost) ==
  [variant |-> "profile_aware",
   events |-> ExpectedEvents(total, lost),
   effects |-> [i \in 1 .. total |-> [effect |-> i, intent |-> i, key |-> i]],
   summary |-> [intents |-> total, effects |-> total, duplicates |-> 0,
                lostResponses |-> Cardinality(lost), reconciled |-> Cardinality(lost),
                unrecognized |-> 0]]

\* The conditions under which it is attempted.
ScenarioErrors(total, count, context) ==
  When(context.mode # "deterministic_simulation", "mode")
    \cup When(total < 1, "workload")
    \cup When(count < 1 \/ count > total, "loss_count")

-----------------------------------------------------------------------------
(* The recount *)

\* Where the events of a kind are, and the intents that events are about.
PositionsOf(events, event) == {k \in DOMAIN events : events[k].event = event}
IntentsAt(events, positions) == {events[k].intent : k \in positions}

\* How often an intent occurs at these positions.
Occurrences(events, positions, intent) ==
  Cardinality({k \in positions : events[k].intent = intent})

Recount(payload) ==
  LET unknown == PositionsOf(payload.events, "OUTCOME_UNKNOWN")
      reconciled == PositionsOf(payload.events, "CONFIRMED_SUCCEEDED_FROM_RECONCILIATION")
      responses == PositionsOf(payload.events, "CONFIRMED_SUCCEEDED_FROM_RESPONSE")
      recognized == IntentsAt(payload.events, responses \cup reconciled)
      paid == DOMAIN payload.effects
      intents == IntentsAt(payload.effects, paid)
  IN  [lostResponses |-> Cardinality(unknown), reconciled |-> Cardinality(reconciled),
       duplicates |-> Len(payload.effects) - Cardinality(intents),
       unrecognized |-> Cardinality({k \in paid : payload.effects[k].intent \notin recognized}),
       effects |-> Len(payload.effects), intents |-> Cardinality(intents)]

RecountErrors(payload) ==
  LET events == payload.events
      unknown == PositionsOf(events, "OUTCOME_UNKNOWN")
      reconciled == PositionsOf(events, "CONFIRMED_SUCCEEDED_FROM_RECONCILIATION")
      recount == Recount(payload)
  IN  When(Cardinality(unknown) # Cardinality(IntentsAt(events, unknown)), "repeats_unknown")
        \cup When(\E i \in IntentsAt(events, unknown \cup reconciled) :
                    Occurrences(events, unknown, i) # Occurrences(events, reconciled, i),
                  "not_reconciled")
        \cup When(\E j, k \in DOMAIN payload.effects :
                    j # k /\ payload.effects[j].effect = payload.effects[k].effect,
                  "duplicate_effect")
        \cup When(\E key \in DOMAIN recount : payload.summary[key] # recount[key], "summary")
        \cup When(recount.lostResponses < 1, "no_loss")
        \cup When(recount.duplicates # 0, "duplicates")
        \cup When(recount.unrecognized # 0, "unrecognized")

-----------------------------------------------------------------------------
(* The check *)

\* What the attestation says of the conditions is what the scenario says.
ContextErrors(total, count, context, attestation) ==
  When(attestation.workload # [total |-> total, lost |-> count], "workload_mismatch")
    \cup When(attestation.shared # context.shared, "shared_dependencies")
    \cup When(attestation.injects # context.injects, "fault_schedule")
    \cup When(/\ Len(attestation.injects) = Len(context.injects)
              /\ attestation.fault # context.fault, "fault_id")

\* Measurements that are not there are not missed; the binding is.
BindingErrors(context, attestation, recount) ==
  When(\E x \in DOMAIN attestation.measurements \cap DOMAIN recount :
         attestation.measurements[x] # recount[x], "measurement")
    \cup When(\/ ~(context.claims \subseteq attestation.claims)
              \/ ~({"lostResponses", "duplicates", "reconciled"} \subseteq attestation.binding),
              "binding")

\* The errors for the payloads that are trusted evidence of the provider's outcome.
PortableErrors(total, count, lost, context, attestation, payloads) ==
  LET candidates == {k \in DOMAIN payloads : payloads[k].variant = "profile_aware"}
  IN  IF Cardinality(context.claims) # 1 THEN {"claims"}
      ELSE IF Cardinality(candidates) # 1 THEN {"candidates"}
      ELSE LET payload == payloads[CHOOSE k \in candidates : TRUE]
               invalid == ScenarioErrors(total, count, context)
           IN  RecountErrors(payload)
                 \cup BindingErrors(context, attestation, Recount(payload))
                 \cup invalid
                 \cup ContextErrors(total, count, context, attestation)
                 \cup When(invalid = {} /\ payload # ExpectedPayload(total, lost), "witness")
=============================================================================

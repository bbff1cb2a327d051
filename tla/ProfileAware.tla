----------------------------- MODULE ProfileAware -----------------------------
(***************************************************************************)
(* The profile-aware variant of the response-loss game day                  *)
(* (run_profile_aware).  The workload is processed in order.  The key of a  *)
(* commit is the intent itself; a lost response leaves the outcome unknown  *)
(* and is reconciled by an authoritative lookup before anything else is     *)
(* submitted.                                                               *)
(***************************************************************************)
EXTENDS RefundProvider

CONSTANT WorkloadSize
ASSUME WorkloadSizeAssumption == WorkloadSize \in Nat

Intent == 1 .. WorkloadSize

VARIABLES
  faulted,     \* the intents whose response is lost
  cursor,      \* the intent being processed
  step,        \* where the loop body stands
  recognized,  \* the effects the workflow knows of
  reconciled,  \* how many unknown outcomes were reconciled
  events       \* the recorded event sequence

loopVars == <<faulted, cursor, step, recognized, reconciled, events>>
vars == <<byKey, effects, loopVars>>

Event == [intent : Intent,
          event : {"CONFIRMED_SUCCEEDED_FROM_RESPONSE", "OUTCOME_UNKNOWN",
                   "CONFIRMED_SUCCEEDED_FROM_RECONCILIATION"}]

TypeOK ==
  /\ effects \in Seq([intent : Intent, key : Intent])
  /\ DOMAIN byKey \subseteq Intent
  /\ \A k \in DOMAIN byKey : byKey[k] \in DOMAIN effects
  /\ faulted \subseteq Intent
  /\ cursor \in 1 .. WorkloadSize + 1
  /\ step \in {"submit", "unknown", "done", "assertion_failed"}
  /\ recognized \subseteq DOMAIN effects
  /\ reconciled \in Nat
  /\ events \in Seq(Event)

\* A run over a given set of faulted intents starts with a fresh provider.
StartRun ==
  /\ ProviderInit
  /\ cursor = 1
  /\ step = "submit"
  /\ recognized = {}
  /\ reconciled = 0
  /\ events = << >>

Init == faulted \in SUBSET Intent /\ StartRun

Record(intent, event) ==
  events' = Append(events, [intent |-> intent, event |-> event])

StableKey(intent) == intent

\* The response arrives: the effect it names is recognised.
SubmitAnswered ==
  /\ step = "submit"
  /\ cursor \in Intent \ faulted
  /\ Commit(cursor, StableKey(cursor))
  /\ recognized' = recognized \cup {EffectId(StableKey(cursor))}
  /\ Record(cursor, "CONFIRMED_SUCCEEDED_FROM_RESPONSE")
  /\ cursor' = cursor + 1
  /\ UNCHANGED <<faulted, step, reconciled>>

\* The provider commits and the response is lost.
SubmitLost ==
  /\ step = "submit"
  /\ cursor \in faulted
  /\ Commit(cursor, StableKey(cursor))
  /\ Record(cursor, "OUTCOME_UNKNOWN")
  /\ step' = "unknown"
  /\ UNCHANGED <<faulted, cursor, recognized, reconciled>>

\* Seeded fault: the unknown outcome is retried under a key of its own.
RetryWithoutReconciling ==
  /\ step = "unknown"
  /\ Commit(cursor, WorkloadSize + cursor)
  /\ recognized' = recognized \cup {EffectId(WorkloadSize + cursor)}
  /\ reconciled' = reconciled + 1
  /\ Record(cursor, "CONFIRMED_SUCCEEDED_FROM_RECONCILIATION")
  /\ cursor' = cursor + 1
  /\ step' = "submit"
  /\ UNCHANGED faulted

\* Seeded fault: the unknown outcome is dropped.
MoveOnWithoutReconciling ==
  /\ step = "unknown"
  /\ reconciled' = reconciled + 1
  /\ cursor' = cursor + 1
  /\ step' = "submit"
  /\ UNCHANGED <<byKey, effects, faulted, recognized, events>>

\* The unknown outcome is looked up; the lookup must be singular.
Reconcile ==
  /\ step = "unknown"
  /\ LET observed == LookupByIntent(cursor) IN
     IF \E e \in observed : observed = {e}
     THEN /\ recognized' = recognized \cup observed
          /\ reconciled' = reconciled + 1
          /\ Record(cursor, "CONFIRMED_SUCCEEDED_FROM_RECONCILIATION")
          /\ cursor' = cursor + 1
          /\ step' = "submit"
     ELSE /\ step' = "assertion_failed"
          /\ UNCHANGED <<recognized, reconciled, events, cursor>>
  /\ UNCHANGED <<byKey, effects, faulted>>

Finish ==
  /\ step = "submit"
  /\ cursor = WorkloadSize + 1
  /\ step' = "done"
  /\ UNCHANGED <<byKey, effects, faulted, cursor, recognized, reconciled, events>>

Next == SubmitAnswered \/ SubmitLost \/ Reconcile \/ Finish

\* The loop is sequential code that runs to its end.
Spec == Init /\ [][Next]_vars /\ WF_vars(Next)

-----------------------------------------------------------------------------

(***************************************************************************)
(* At no time does an intent have two external effects, whatever responses  *)
(* are lost, and the reconciliation never finds none or several: the        *)
(* AssertionError of the loop is unreachable.                               *)
(***************************************************************************)
AtMostOneEffect ==
  /\ \A a, b \in DOMAIN effects : effects[a].intent = effects[b].intent => a = b
  /\ step # "assertion_failed"

(***************************************************************************)
(* When the run completes every intent has an effect, the workflow has      *)
(* recognised every effect, and as many unknown outcomes were reconciled as *)
(* responses were lost.                                                     *)
(***************************************************************************)
SettledAtCompletion ==
  step = "done" =>
    /\ \A i \in Intent : LookupByIntent(i) # {}
    /\ recognized = DOMAIN effects
    /\ reconciled = Cardinality(faulted)

(***************************************************************************)
(* While the ledger holds an effect the workflow has not recognised, no     *)
(* further external effect is created: the ambiguity is reconciled first.   *)
(***************************************************************************)
ReconcileBeforeNextEffect ==
  [][DOMAIN effects \ recognized # {} => effects' = effects]_vars

\* What the workflow knows of an intent, read off the ledger and its records.
Paid == [i \in Intent |-> Cardinality(LookupByIntent(i))]
Outcome == [i \in Intent |->
              IF LookupByIntent(i) = {} THEN "open"
              ELSE IF LookupByIntent(i) \subseteq recognized THEN "settled"
              ELSE "unknown"]

E1 == INSTANCE ExactlyOnce WITH paid <- Paid, outcome <- Outcome

(***************************************************************************)
(* The variant implements the exactly-once workflow, liveness included.     *)
(***************************************************************************)
ImplementsExactlyOnce == E1!Spec
=============================================================================

-------------------------- MODULE ConventionalRetry --------------------------
(***************************************************************************)
(* The baseline of the response-loss game day (run_conventional_retry): a   *)
(* timeout is taken for a failure and the intent is submitted again under   *)
(* an attempt-scoped key, without asking the provider what happened.        *)
(***************************************************************************)
EXTENDS RefundProvider

CONSTANT WorkloadSize   \* a natural number

Intent == 1 .. WorkloadSize
Attempt == {1, 2}

VARIABLES
  faulted,     \* the intents whose first response is lost
  cursor,      \* the intent being processed
  step,        \* where the loop body stands
  recognized,  \* the effects the workflow knows of
  events       \* the recorded event sequence

loopVars == <<faulted, cursor, step, recognized, events>>
vars == <<byKey, effects, loopVars>>

Key == [intent : Intent, attempt : Attempt]
Event == [intent : Intent,
          event : {"TIMEOUT_INTERPRETED_AS_FAILURE", "RETRIED_WITH_NEW_ATTEMPT_KEY"}]

TypeOK ==
  /\ effects \in Seq([intent : Intent, key : Key])
  /\ DOMAIN byKey \subseteq Key
  /\ \A k \in DOMAIN byKey : byKey[k] \in DOMAIN effects
  /\ faulted \subseteq Intent
  /\ cursor \in 1 .. WorkloadSize + 1
  /\ step \in {"submit", "retry", "done"}
  /\ recognized \subseteq DOMAIN effects
  /\ events \in Seq(Event)

StartRun ==
  /\ ProviderInit
  /\ cursor = 1
  /\ step = "submit"
  /\ recognized = {}
  /\ events = << >>

Init == faulted \in SUBSET Intent /\ StartRun

Record(intent, event) ==
  events' = Append(events, [intent |-> intent, event |-> event])

\* Seeded fault: the key does not tell one attempt from the next.
IntentScopedKey(intent, attempt) == [intent |-> intent, attempt |-> 1]

AttemptKey(intent, attempt) == [intent |-> intent, attempt |-> attempt]

\* The first attempt is answered.
SubmitAnswered ==
  /\ step = "submit"
  /\ cursor \in Intent \ faulted
  /\ Commit(cursor, AttemptKey(cursor, 1))
  /\ recognized' = recognized \cup {EffectId(AttemptKey(cursor, 1))}
  /\ cursor' = cursor + 1
  /\ UNCHANGED <<faulted, step, events>>

\* The first attempt commits, its response is lost and taken for a failure.
SubmitLost ==
  /\ step = "submit"
  /\ cursor \in faulted
  /\ Commit(cursor, AttemptKey(cursor, 1))
  /\ Record(cursor, "TIMEOUT_INTERPRETED_AS_FAILURE")
  /\ step' = "retry"
  /\ UNCHANGED <<faulted, cursor, recognized>>

\* The second attempt commits under a key of its own and is answered.
Retry ==
  /\ step = "retry"
  /\ Commit(cursor, AttemptKey(cursor, 2))
  /\ Record(cursor, "RETRIED_WITH_NEW_ATTEMPT_KEY")
  /\ recognized' = recognized \cup {EffectId(AttemptKey(cursor, 2))}
  /\ cursor' = cursor + 1
  /\ step' = "submit"
  /\ UNCHANGED faulted

Finish ==
  /\ step = "submit"
  /\ cursor = WorkloadSize + 1
  /\ step' = "done"
  /\ UNCHANGED <<byKey, effects, faulted, cursor, recognized, events>>

Next == SubmitAnswered \/ SubmitLost \/ Retry \/ Finish

\* The loop is sequential code that runs to its end.
Spec == Init /\ [][Next]_vars /\ WF_vars(Next)

-----------------------------------------------------------------------------

Processed == 1 .. cursor - 1

(***************************************************************************)
(* Every processed intent whose response was lost is paid exactly twice and *)
(* every other processed intent exactly once; the attempt in flight during  *)
(* a retry is paid already.                                                 *)
(***************************************************************************)
EveryLossPaysTwice ==
  \A i \in Intent :
    Cardinality(LookupByIntent(i)) =
      (IF i \in Processed THEN 1 ELSE 0)
        + (IF i \in faulted /\ (i \in Processed \/ (i = cursor /\ step = "retry"))
           THEN 1 ELSE 0)

(***************************************************************************)
(* The effects the workflow does not know of are the first attempts whose   *)
(* responses were lost, and a run never makes up for them later.            *)
(***************************************************************************)
UnrecognizedAreLostAttempts ==
  DOMAIN effects \ recognized =
    {e \in DOMAIN effects : /\ effects[e].key.attempt = 1
                            /\ effects[e].intent \in faulted}
=============================================================================

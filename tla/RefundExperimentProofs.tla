------------------------ MODULE RefundExperimentProofs ------------------------
(***************************************************************************)
(* Proofs about the response-loss game day, for every workload, loss count  *)
(* and selection of lost responses: first the profile-aware run, then the   *)
(* conventional run, then the experiment that compares them and what the    *)
(* portable check makes of its evidence, and last the provider on its own,  *)
(* under arbitrary callers.                                                 *)
(***************************************************************************)
EXTENDS RefundExperiment, ProviderClients, FiniteSetTheorems, FunctionTheorems,
        WellFoundedInduction, TLAPS

\* The workload is a natural number.
LEMMA WorkloadSizeNat == WorkloadSize \in Nat
BY ParametersAssumption DEF WorkloadSize

\* One more intent behind the cursor is one more loss exactly if it is faulted.
LEMMA FaultedUpTo ==
  ASSUME NEW c \in Intent
  PROVE  /\ Cardinality(faulted \cap 1 .. c - 1) \in Nat
         /\ Cardinality(faulted \cap 1 .. c) =
              Cardinality(faulted \cap 1 .. c - 1) + (IF c \in faulted THEN 1 ELSE 0)
<1> DEFINE S == faulted \cap 1 .. c - 1
<1>1. c \in Nat \ {0}
  BY DEF Intent
<1>2. IsFiniteSet(S)
  <2>1. IsFiniteSet(1 .. c - 1)
    BY <1>1, FS_Interval
  <2> QED
    BY <2>1, FS_Subset
<1>3. c \notin S
  BY <1>1
<1>4. Cardinality(S) \in Nat
  BY <1>2, FS_CardinalityType
<1>5. CASE c \in faulted
  <2>1. faulted \cap 1 .. c = S \cup {c}
    BY <1>1, <1>5
  <2> HIDE DEF S
  <2>2. Cardinality(S \cup {c}) = Cardinality(S) + 1
    BY <1>2, <1>3, FS_AddElement
  <2>3. Cardinality(faulted \cap 1 .. c) = Cardinality(S) + 1
    BY <2>1, <2>2
  <2> QED
    BY <1>4, <1>5, <2>3 DEF S
<1>6. CASE c \notin faulted
  <2>1. faulted \cap 1 .. c = S
    BY <1>1, <1>6
  <2> HIDE DEF S
  <2>2. Cardinality(faulted \cap 1 .. c) = Cardinality(S) + 0
    BY <1>4, <2>1
  <2> QED
    BY <1>4, <1>6, <2>2 DEF S
<1> QED
  BY <1>5, <1>6

LEMMA SameCardinality == \A S : PA!Cardinality(S) = Cardinality(S)
BY DEF PA!Cardinality, Cardinality

LEMMA SameIntent == PA!Intent = Intent
BY DEF PA!Intent, Intent

-----------------------------------------------------------------------------
(* The profile-aware run.  The invariant says what the loop has built so    *)
(* far: effect e belongs to intent e under key e, there is one for every    *)
(* processed intent and for the one whose outcome is unknown, and exactly   *)
(* the processed ones are recognised.                                       *)

Committed == IF paStep = "unknown" THEN paCursor ELSE paCursor - 1

LedgerFollowsCursor ==
  /\ Len(paEffects) = Committed
  /\ \A e \in DOMAIN paEffects : paEffects[e] = [intent |-> e, key |-> e]

IndexFollowsLedger ==
  /\ DOMAIN paByKey = DOMAIN paEffects
  /\ \A k \in DOMAIN paByKey : paByKey[k] = k

StepAgrees ==
  /\ paStep = "unknown" => paCursor \in faulted
  /\ paStep = "done" => paCursor = WorkloadSize + 1
  /\ paStep # "assertion_failed"

AwareIInv ==
  /\ PA!TypeOK
  /\ LedgerFollowsCursor
  /\ IndexFollowsLedger
  /\ paRecognized = 1 .. paCursor - 1
  /\ paReconciled = Cardinality(faulted \cap 1 .. paCursor - 1)
  /\ StepAgrees

-----------------------------------------------------------------------------

\* Initially nothing is committed and the cursor is at the first intent.
LEMMA AwareInitIInv == PA!Init => AwareIInv
<1> SUFFICES ASSUME PA!Init PROVE AwareIInv
  OBVIOUS
<1> USE WorkloadSizeNat
<1>1. PA!TypeOK
  BY DEF PA!Init, PA!StartRun, PA!ProviderInit, PA!TypeOK, PA!Intent, Intent, PA!Event
<1>2. LedgerFollowsCursor
  BY DEF PA!Init, PA!StartRun, PA!ProviderInit, LedgerFollowsCursor, Committed
<1>3. IndexFollowsLedger
  BY DEF PA!Init, PA!StartRun, PA!ProviderInit, IndexFollowsLedger
<1>4. paRecognized = 1 .. paCursor - 1
  BY DEF PA!Init, PA!StartRun
<1>5. StepAgrees
  BY DEF PA!Init, PA!StartRun, StepAgrees
<1>6. paReconciled = Cardinality(faulted \cap 1 .. paCursor - 1)
  <2>1. faulted \cap 1 .. paCursor - 1 = {}
    BY DEF PA!Init, PA!StartRun
  <2> QED
    BY <2>1, FS_EmptySet DEF PA!Init, PA!StartRun
<1> QED
  BY <1>1, <1>2, <1>3, <1>4, <1>5, <1>6 DEF AwareIInv

\* A commit for the intent at the cursor appends effect number cursor, under
\* the key cursor, and indexes it.
LEMMA CommitAtCursor ==
  ASSUME AwareIInv, paStep = "submit", paCursor \in Intent,
         PA!Commit(paCursor, PA!StableKey(paCursor))
  PROVE  /\ PA!EffectId(PA!StableKey(paCursor)) = paCursor
         /\ paEffects' \in Seq([intent : Intent, key : Intent])
         /\ Len(paEffects') = paCursor
         /\ DOMAIN paEffects' = 1 .. paCursor
         /\ \A e \in 1 .. paCursor : paEffects'[e] = [intent |-> e, key |-> e]
         /\ DOMAIN paByKey' = 1 .. paCursor
         /\ \A k \in 1 .. paCursor : paByKey'[k] = k
<1> USE WorkloadSizeNat
<1>1. /\ paCursor \in Nat \ {0}
      /\ paEffects \in Seq([intent : Intent, key : Intent])
      /\ Len(paEffects) = paCursor - 1
      /\ DOMAIN paEffects = 1 .. paCursor - 1
      /\ DOMAIN paByKey = 1 .. paCursor - 1
      /\ \A k \in 1 .. paCursor - 1 : paByKey[k] = k
  <2>1. paCursor \in Nat \ {0}
    BY DEF PA!Intent, Intent
  <2>2. paEffects \in Seq([intent : Intent, key : Intent])
    BY SameIntent DEF AwareIInv, PA!TypeOK
  <2>3. Len(paEffects) = paCursor - 1
    BY DEF AwareIInv, LedgerFollowsCursor, Committed
  <2>4. DOMAIN paEffects = 1 .. paCursor - 1
    BY <2>2, <2>3
  <2>5. /\ DOMAIN paByKey = 1 .. paCursor - 1
        /\ \A k \in 1 .. paCursor - 1 : paByKey[k] = k
    BY <2>4 DEF AwareIInv, IndexFollowsLedger
  <2> QED
    BY <2>1, <2>2, <2>3, <2>4, <2>5
<1>2. PA!EffectId(paCursor) = paCursor
  BY <1>1 DEF PA!EffectId
<1>3. paEffects' = Append(paEffects, [intent |-> paCursor, key |-> paCursor])
  BY <1>1 DEF PA!Commit, PA!StableKey
<1>4. /\ paEffects' \in Seq([intent : Intent, key : Intent])
      /\ Len(paEffects') = paCursor
      /\ DOMAIN paEffects' = 1 .. paCursor
  BY <1>1, <1>3
<1>5. \A e \in 1 .. paCursor : paEffects'[e] = [intent |-> e, key |-> e]
  <2> SUFFICES ASSUME NEW e \in 1 .. paCursor
               PROVE  paEffects'[e] = [intent |-> e, key |-> e]
    OBVIOUS
  <2>1. CASE e = paCursor
    BY <1>1, <1>3, <2>1
  <2>2. CASE e # paCursor
    <3>1. e \in 1 .. Len(paEffects)
      BY <1>1, <2>2
    <3>2. paEffects'[e] = paEffects[e]
      BY <1>1, <1>3, <3>1
    <3> QED
      BY <1>1, <3>1, <3>2 DEF AwareIInv, LedgerFollowsCursor
  <2> QED
    BY <2>1, <2>2
<1>6. paByKey' = [k \in 1 .. paCursor |-> PA!EffectId(k)]
  <2>1. (1 .. paCursor - 1) \cup {paCursor} = 1 .. paCursor
    BY <1>1
  <2> QED
    BY <1>1, <2>1 DEF PA!Commit, PA!StableKey
<1>7. \A k \in 1 .. paCursor : PA!EffectId(k) = k
  BY <1>1, <1>2 DEF PA!EffectId
<1> QED
  BY <1>2, <1>4, <1>5, <1>6, <1>7 DEF PA!StableKey

\* While an outcome is unknown the lookup finds exactly the effect of the
\* intent at the cursor.
LEMMA LookupIsSingular ==
  ASSUME AwareIInv, paStep = "unknown"
  PROVE  /\ paCursor \in Intent
         /\ PA!LookupByIntent(paCursor) = {paCursor}
<1>1. paCursor \in Intent /\ DOMAIN paEffects = 1 .. paCursor
  BY WorkloadSizeNat
  DEF AwareIInv, PA!TypeOK, StepAgrees, LedgerFollowsCursor, Committed, PA!Intent, Intent
<1>2. \A e \in DOMAIN paEffects : paEffects[e].intent = e
  BY DEF AwareIInv, LedgerFollowsCursor
<1> QED
  BY <1>1, <1>2 DEF PA!LookupByIntent, PA!Intent, Intent

\* No step of the loop leaves the inductive invariant.
LEMMA AwareStepIInv == AwareIInv /\ [PA!Next]_(PA!vars) => AwareIInv'
<1> SUFFICES ASSUME AwareIInv, [PA!Next]_(PA!vars) PROVE AwareIInv'
  OBVIOUS
<1> USE WorkloadSizeNat
<1>1. CASE PA!SubmitAnswered
  <2>1. /\ paCursor \in Intent \ faulted
        /\ paStep = "submit" /\ paStep' = "submit"
        /\ paCursor' = paCursor + 1
        /\ UNCHANGED <<faulted, paReconciled>>
        /\ PA!Commit(paCursor, PA!StableKey(paCursor))
    BY <1>1, SameIntent DEF PA!SubmitAnswered
  <2>2. /\ PA!EffectId(PA!StableKey(paCursor)) = paCursor
        /\ paEffects' \in Seq([intent : Intent, key : Intent])
        /\ Len(paEffects') = paCursor
        /\ DOMAIN paEffects' = 1 .. paCursor
        /\ \A e \in 1 .. paCursor : paEffects'[e] = [intent |-> e, key |-> e]
        /\ DOMAIN paByKey' = 1 .. paCursor
        /\ \A k \in 1 .. paCursor : paByKey'[k] = k
    BY <2>1, CommitAtCursor
  <2>3. paRecognized' = 1 .. paCursor' - 1
    BY <1>1, <2>1, <2>2 DEF PA!SubmitAnswered, AwareIInv, PA!Intent, Intent
  <2>4. PA!TypeOK'
    <3>1. paEvents' \in Seq(PA!Event)
      BY <1>1, <2>1 DEF PA!SubmitAnswered, PA!Record, AwareIInv, PA!TypeOK, PA!Event
    <3> QED
      BY <2>1, <2>2, <2>3, <3>1 DEF AwareIInv, PA!TypeOK, PA!Intent, Intent
  <2>5. LedgerFollowsCursor' /\ IndexFollowsLedger'
    BY <2>1, <2>2 DEF LedgerFollowsCursor, IndexFollowsLedger, Committed, PA!Intent, Intent
  <2>6. (paReconciled = Cardinality(faulted \cap 1 .. paCursor - 1))'
    <3>1. Cardinality(faulted \cap 1 .. paCursor - 1) \in Nat
      BY DEF AwareIInv, PA!TypeOK
    <3> QED
      BY <2>1, <3>1, FaultedUpTo DEF AwareIInv, PA!Intent, Intent
  <2>7. StepAgrees'
    BY <2>1 DEF StepAgrees
  <2> QED
    BY <2>3, <2>4, <2>5, <2>6, <2>7 DEF AwareIInv
<1>2. CASE PA!SubmitLost
  <2>1. /\ paCursor \in faulted /\ paCursor \in Intent
        /\ paStep = "submit" /\ paStep' = "unknown"
        /\ UNCHANGED <<faulted, paCursor, paRecognized, paReconciled>>
        /\ PA!Commit(paCursor, PA!StableKey(paCursor))
    BY <1>2, SameIntent DEF PA!SubmitLost, AwareIInv, PA!TypeOK
  <2>2. /\ paEffects' \in Seq([intent : Intent, key : Intent])
        /\ Len(paEffects') = paCursor
        /\ DOMAIN paEffects' = 1 .. paCursor
        /\ \A e \in 1 .. paCursor : paEffects'[e] = [intent |-> e, key |-> e]
        /\ DOMAIN paByKey' = 1 .. paCursor
        /\ \A k \in 1 .. paCursor : paByKey'[k] = k
    BY <2>1, CommitAtCursor
  <2>3. PA!TypeOK'
    <3>1. paEvents' \in Seq(PA!Event)
      BY <1>2, <2>1 DEF PA!SubmitLost, PA!Record, AwareIInv, PA!TypeOK, PA!Event
    <3> QED
      BY <2>1, <2>2, <3>1 DEF AwareIInv, PA!TypeOK, PA!Intent, Intent
  <2>4. LedgerFollowsCursor' /\ IndexFollowsLedger'
    BY <2>1, <2>2 DEF LedgerFollowsCursor, IndexFollowsLedger, Committed
  <2>5. StepAgrees'
    BY <2>1 DEF StepAgrees
  <2> QED
    BY <2>1, <2>3, <2>4, <2>5, SameCardinality DEF AwareIInv
<1>3. CASE PA!Reconcile
  <2>1. /\ paStep = "unknown" /\ paCursor \in faulted
        /\ paCursor \in Intent
        /\ PA!LookupByIntent(paCursor) = {paCursor}
    BY <1>3, LookupIsSingular DEF PA!Reconcile, AwareIInv, StepAgrees
  <2>2. /\ paStep' = "submit"
        /\ paCursor' = paCursor + 1
        /\ paRecognized' = paRecognized \cup {paCursor}
        /\ paReconciled' = paReconciled + 1
        /\ PA!Record(paCursor, "CONFIRMED_SUCCEEDED_FROM_RECONCILIATION")
        /\ UNCHANGED <<paByKey, paEffects, faulted>>
    BY <1>3, <2>1 DEF PA!Reconcile
  <2>3. paRecognized' = 1 .. paCursor' - 1
    BY <2>1, <2>2 DEF AwareIInv, PA!Intent, Intent
  <2>4. Len(paEffects) = paCursor
    BY <2>1 DEF AwareIInv, LedgerFollowsCursor, Committed
  <2>5. PA!TypeOK'
    <3>1. paEvents' \in Seq(PA!Event)
      BY <2>1, <2>2 DEF PA!Record, AwareIInv, PA!TypeOK, PA!Event
    <3>2. DOMAIN paEffects = 1 .. paCursor
      BY <2>4, SameIntent DEF AwareIInv, PA!TypeOK
    <3> QED
      BY <2>1, <2>2, <2>3, <3>1, <3>2 DEF AwareIInv, PA!TypeOK, PA!Intent, Intent
  <2>6. LedgerFollowsCursor' /\ IndexFollowsLedger'
    BY <2>1, <2>2, <2>4
    DEF AwareIInv, LedgerFollowsCursor, IndexFollowsLedger, Committed, PA!Intent, Intent
  <2>7. (paReconciled = Cardinality(faulted \cap 1 .. paCursor - 1))'
    BY <2>1, <2>2, FaultedUpTo DEF AwareIInv, PA!Intent, Intent
  <2>8. StepAgrees'
    BY <2>2 DEF StepAgrees
  <2> QED
    BY <2>3, <2>5, <2>6, <2>7, <2>8 DEF AwareIInv
<1>4. CASE PA!Finish
  BY <1>4 DEF PA!Finish, AwareIInv, PA!TypeOK, LedgerFollowsCursor, IndexFollowsLedger,
              Committed, StepAgrees
<1>5. CASE UNCHANGED PA!vars
  BY <1>5 DEF PA!vars, PA!loopVars, AwareIInv, PA!TypeOK, LedgerFollowsCursor,
              IndexFollowsLedger, Committed, StepAgrees
<1> QED
  BY <1>1, <1>2, <1>3, <1>4, <1>5 DEF PA!Next

(***************************************************************************)
(* Every reachable state of every run satisfies the inductive invariant.    *)
(***************************************************************************)
THEOREM AwareInvariance == PA!Spec => []AwareIInv
<1> QED
  BY AwareInitIInv, AwareStepIInv, PTL DEF PA!Spec

(***************************************************************************)
(* The variables of the run keep their types.                               *)
(***************************************************************************)
THEOREM AwareTypeCorrect == PA!Spec => []PA!TypeOK
<1>1. AwareIInv => PA!TypeOK
  BY DEF AwareIInv
<1> QED
  BY <1>1, AwareInvariance, PTL

\* No intent has two effects, and the reconciliation assertion holds.
LEMMA AwarePaidOnce == AwareIInv => PA!AtMostOneEffect
BY DEF AwareIInv, LedgerFollowsCursor, StepAgrees, PA!AtMostOneEffect

\* A completed run has paid every intent, recognised every effect and reconciled
\* as many outcomes as responses were lost.
LEMMA AwareSettled == AwareIInv => PA!SettledAtCompletion
<1> SUFFICES ASSUME AwareIInv, paStep = "done"
             PROVE  /\ \A i \in Intent : PA!LookupByIntent(i) # {}
                    /\ paRecognized = DOMAIN paEffects
                    /\ paReconciled = Cardinality(faulted)
  BY SameCardinality DEF PA!SettledAtCompletion, PA!Intent, Intent
<1>1. paCursor = WorkloadSize + 1 /\ DOMAIN paEffects = Intent
  BY WorkloadSizeNat
  DEF AwareIInv, PA!TypeOK, StepAgrees, LedgerFollowsCursor, Committed, PA!Intent, Intent
<1>2. \A i \in Intent : paEffects[i].intent = i
  <2>1. LedgerFollowsCursor
    BY DEF AwareIInv
  <2> QED
    BY <1>1, <2>1 DEF LedgerFollowsCursor
<1>3. \A i \in Intent : i \in PA!LookupByIntent(i)
  BY <1>1, <1>2 DEF PA!LookupByIntent
<1>4. 1 .. paCursor - 1 = Intent
  BY <1>1, WorkloadSizeNat DEF PA!Intent, Intent
<1>5. faulted \cap 1 .. paCursor - 1 = faulted
  BY <1>4, SameIntent DEF AwareIInv, PA!TypeOK
<1> QED
  BY <1>1, <1>3, <1>4, <1>5, SameCardinality DEF AwareIInv

\* No step creates an effect while one is not recognised.
LEMMA AwareStepReconcilesFirst ==
  ASSUME AwareIInv, PA!Next, DOMAIN paEffects \ paRecognized # {}
  PROVE  paEffects' = paEffects
<1>1. paStep = "unknown"
  BY DEF AwareIInv, PA!TypeOK, LedgerFollowsCursor, Committed
<1> QED
  BY <1>1 DEF PA!Next, PA!SubmitAnswered, PA!SubmitLost, PA!Reconcile, PA!Finish

(***************************************************************************)
(* The profile-aware run on its own, under any set of lost responses:       *)
(* nothing is paid twice, a completed run is settled, and an ambiguity is   *)
(* reconciled before the next effect.                                       *)
(***************************************************************************)
THEOREM AwareRunIsSafe ==
  PA!Spec => /\ [](PA!AtMostOneEffect /\ PA!SettledAtCompletion)
             /\ PA!ReconcileBeforeNextEffect
<1>1. AwareIInv => PA!AtMostOneEffect /\ PA!SettledAtCompletion
  BY AwarePaidOnce, AwareSettled
<1>2. AwareIInv /\ [PA!Next]_(PA!vars)
        => [DOMAIN paEffects \ paRecognized # {} => paEffects' = paEffects]_(PA!vars)
  BY AwareStepReconcilesFirst DEF PA!vars
<1> QED
  BY <1>1, <1>2, AwareInvariance, PTL DEF PA!Spec, PA!ReconcileBeforeNextEffect

-----------------------------------------------------------------------------

\* In terms of the cursor: what has been paid, and what is known of it.
LEMMA MappedState ==
  ASSUME AwareIInv
  PROVE  /\ PA!Paid = [i \in Intent |-> IF i <= Committed THEN 1 ELSE 0]
         /\ PA!Outcome = [i \in Intent |-> IF i > Committed THEN "open"
                                        ELSE IF i < paCursor THEN "settled"
                                        ELSE "unknown"]
<1>1. /\ PA!TypeOK /\ LedgerFollowsCursor /\ StepAgrees
      /\ paRecognized = 1 .. paCursor - 1
  BY DEF AwareIInv
<1>2. DOMAIN paEffects = 1 .. Committed /\ Committed \in Int /\ paCursor \in Nat
  BY <1>1, WorkloadSizeNat DEF PA!TypeOK, LedgerFollowsCursor, Committed
<1>3. ASSUME NEW i \in Intent
      PROVE  PA!LookupByIntent(i) = IF i <= Committed THEN {i} ELSE {}
  BY <1>1, <1>2 DEF LedgerFollowsCursor, PA!LookupByIntent, PA!Intent, Intent
<1>4. ASSUME NEW i \in Intent
      PROVE  Cardinality(PA!LookupByIntent(i)) = IF i <= Committed THEN 1 ELSE 0
  <2>1. CASE i <= Committed
    BY <1>3, <2>1, FS_Singleton
  <2>2. CASE ~(i <= Committed)
    BY <1>3, <2>2, FS_EmptySet
  <2> QED
    BY <2>1, <2>2
<1>5. ASSUME NEW i \in Intent
      PROVE  PA!Outcome[i] = IF i > Committed THEN "open"
                          ELSE IF i < paCursor THEN "settled" ELSE "unknown"
  BY <1>1, <1>2, <1>3 DEF PA!Outcome, PA!Intent, Intent
<1> QED
  BY <1>4, <1>5, SameCardinality DEF PA!Paid, PA!Outcome, PA!Intent, Intent

\* The initial states of the variant are initial states of the workflow.
LEMMA InitRefines == PA!Init => PA!E1!Init
<1> SUFFICES ASSUME PA!Init PROVE PA!E1!Init
  OBVIOUS
<1>1. AwareIInv /\ Committed = 0 /\ paCursor = 1
  BY AwareInitIInv DEF PA!Init, PA!StartRun, Committed
<1> QED
  BY <1>1, MappedState DEF PA!E1!Init, PA!Intent, Intent

\* A step of the variant is a payment, a settlement or nothing at all.
LEMMA StepRefines ==
  AwareIInv /\ AwareIInv' /\ [PA!Next]_(PA!vars) => [PA!E1!Next]_(PA!E1!vars)
<1> SUFFICES ASSUME AwareIInv, AwareIInv', [PA!Next]_(PA!vars)
             PROVE  [PA!E1!Next]_(PA!E1!vars)
  OBVIOUS
<1> DEFINE PaidAt(n) == [i \in Intent |-> IF i <= n THEN 1 ELSE 0]
           OutcomeAt(n, c) == [i \in Intent |-> IF i > n THEN "open"
                                 ELSE IF i < c THEN "settled" ELSE "unknown"]
<1>1. /\ PA!Paid = PaidAt(Committed) /\ PA!Paid' = PaidAt(Committed')
      /\ PA!Outcome = OutcomeAt(Committed, paCursor)
      /\ PA!Outcome' = OutcomeAt(Committed', paCursor')
  <2>1. PA!Paid = PaidAt(Committed) /\ PA!Outcome = OutcomeAt(Committed, paCursor)
    BY MappedState
  <2>2. (PA!Paid = PaidAt(Committed) /\ PA!Outcome = OutcomeAt(Committed, paCursor))'
    BY MappedState, PTL
  <2> QED
    BY <2>1, <2>2
<1>2. paCursor \in Nat /\ paCursor' \in Nat
  BY WorkloadSizeNat DEF AwareIInv, PA!TypeOK
<1>3. ASSUME NEW c \in Intent
      PROVE  /\ PaidAt(c) = [PaidAt(c - 1) EXCEPT ![c] = PaidAt(c - 1)[c] + 1]
             /\ OutcomeAt(c, c + 1) = [OutcomeAt(c - 1, c) EXCEPT ![c] = "settled"]
             /\ OutcomeAt(c, c) = [OutcomeAt(c - 1, c) EXCEPT ![c] = "unknown"]
             /\ OutcomeAt(c, c + 1) = [OutcomeAt(c, c) EXCEPT ![c] = "settled"]
  <2>1. \A i \in Intent : /\ i \in Int /\ c \in Int
                          /\ i <= c <=> (i <= c - 1 \/ i = c)
                          /\ i > c - 1 <=> (i > c \/ i = c)
                          /\ i < c + 1 <=> (i < c \/ i = c)
                          /\ ~(c <= c - 1) /\ ~(c > c)
    BY DEF PA!Intent, Intent
  <2>2. PaidAt(c) = [PaidAt(c - 1) EXCEPT ![c] = PaidAt(c - 1)[c] + 1]
    <3>1. PaidAt(c - 1)[c] = 0
      BY <2>1
    <3>2. PaidAt(c) = [PaidAt(c - 1) EXCEPT ![c] = 1]
      BY <2>1
    <3> HIDE DEF PaidAt
    <3> QED
      BY <3>1, <3>2
  <2>3. OutcomeAt(c, c + 1) = [OutcomeAt(c - 1, c) EXCEPT ![c] = "settled"]
    BY <2>1
  <2>4. OutcomeAt(c, c) = [OutcomeAt(c - 1, c) EXCEPT ![c] = "unknown"]
    BY <2>1
  <2>5. OutcomeAt(c, c + 1) = [OutcomeAt(c, c) EXCEPT ![c] = "settled"]
    BY <2>1
  <2> QED
    BY <2>2, <2>3, <2>4, <2>5
<1> HIDE DEF PaidAt, OutcomeAt
<1>4. CASE PA!SubmitAnswered
  <2>1. /\ paCursor \in Intent /\ Committed = paCursor - 1
        /\ paCursor' = paCursor + 1 /\ Committed' = paCursor
    BY <1>2, <1>4, SameIntent DEF PA!SubmitAnswered, Committed
  <2>2. PA!Outcome[paCursor] = "open" /\ \A j \in Intent : PA!Outcome[j] # "unknown"
    BY <1>1, <1>2, <2>1 DEF PA!Intent, Intent, OutcomeAt
  <2>3. PA!Paid' = [PA!Paid EXCEPT ![paCursor] = PA!Paid[paCursor] + 1]
    BY <1>1, <1>3, <2>1
  <2>4. PA!Outcome' = [PA!Outcome EXCEPT ![paCursor] = "settled"]
    BY <1>1, <1>3, <2>1
  <2>5. PA!E1!Pay(paCursor)
    BY <2>2, <2>3, <2>4, SameIntent DEF PA!E1!Pay
  <2> QED
    BY <2>1, <2>5, SameIntent DEF PA!E1!Next
<1>5. CASE PA!SubmitLost
  <2>1. /\ paCursor \in Intent /\ Committed = paCursor - 1
        /\ paCursor' = paCursor /\ Committed' = paCursor
    BY <1>2, <1>5, SameIntent DEF PA!SubmitLost, Committed, AwareIInv, PA!TypeOK
  <2>2. PA!Outcome[paCursor] = "open" /\ \A j \in Intent : PA!Outcome[j] # "unknown"
    BY <1>1, <1>2, <2>1 DEF PA!Intent, Intent, OutcomeAt
  <2>3. PA!Paid' = [PA!Paid EXCEPT ![paCursor] = PA!Paid[paCursor] + 1]
    BY <1>1, <1>3, <2>1
  <2>4. PA!Outcome' = [PA!Outcome EXCEPT ![paCursor] = "unknown"]
    BY <1>1, <1>3, <2>1
  <2>5. PA!E1!Pay(paCursor)
    BY <2>2, <2>3, <2>4, SameIntent DEF PA!E1!Pay
  <2> QED
    BY <2>1, <2>5, SameIntent DEF PA!E1!Next
<1>6. CASE PA!Reconcile
  <2>1. /\ paCursor \in Intent /\ Committed = paCursor
        /\ paCursor' = paCursor + 1 /\ Committed' = paCursor
    <3>1. paStep = "unknown"
      BY <1>6 DEF PA!Reconcile
    <3>2. paCursor \in Intent /\ PA!LookupByIntent(paCursor) = {paCursor}
      BY <3>1, LookupIsSingular
    <3>3. paCursor' = paCursor + 1 /\ paStep' = "submit"
      BY <1>6, <3>2 DEF PA!Reconcile
    <3> QED
      BY <1>2, <3>1, <3>2, <3>3 DEF Committed
  <2>2. PA!Outcome[paCursor] = "unknown"
    BY <1>1, <1>2, <2>1 DEF PA!Intent, Intent, OutcomeAt
  <2>3. PA!Paid' = PA!Paid
    BY <1>1, <2>1
  <2>4. PA!Outcome' = [PA!Outcome EXCEPT ![paCursor] = "settled"]
    BY <1>1, <1>3, <2>1
  <2>5. PA!E1!Settle(paCursor)
    BY <2>2, <2>3, <2>4 DEF PA!E1!Settle
  <2> QED
    BY <2>1, <2>5, SameIntent DEF PA!E1!Next
<1>7. CASE PA!Finish \/ UNCHANGED PA!vars
  <2>1. paCursor' = paCursor /\ Committed' = Committed
    BY <1>7 DEF PA!Finish, PA!vars, PA!loopVars, Committed
  <2> QED
    BY <1>1, <2>1 DEF PA!E1!vars
<1> QED
  BY <1>4, <1>5, <1>6, <1>7 DEF PA!Next

(***************************************************************************)
(* The variant implements the safety part of the exactly-once workflow: its *)
(* states map to states of ExactlyOnce and its steps to steps or stutters.  *)
(***************************************************************************)
THEOREM RefinesExactlyOnce == PA!Spec => PA!E1!Init /\ [][PA!E1!Next]_(PA!E1!vars)
<1> QED
  BY InitRefines, StepRefines, AwareInvariance, PTL DEF PA!Spec

-----------------------------------------------------------------------------
(* The conventional-retry run.                                              *)

\* Losses of the first responses the baseline has put behind it.
LossesBehind == Cardinality(faulted \cap 1 .. crCursor - 1)

\* How often an intent is to have been paid.
Payments(i) ==
  (IF i \in CR!Processed THEN 1 ELSE 0)
    + (IF i \in faulted /\ (i \in CR!Processed \/ (i = crCursor /\ crStep = "retry"))
       THEN 1 ELSE 0)

\* A key of the index belongs to an intent behind the cursor, or is the first
\* attempt of the one being retried: the key of the next commit is always new.
KeysArePast ==
  \A k \in DOMAIN crByKey :
    \/ k.intent < crCursor
    \/ k.intent = crCursor /\ crStep = "retry" /\ k.attempt = 1

\* What the baseline has paid and knows of grows with the intents behind it.
LedgerGrowsWithLosses ==
  /\ Len(crEffects) = crCursor - 1 + (IF crStep = "retry" THEN 1 ELSE 0) + LossesBehind
  /\ Cardinality(crRecognized) = crCursor - 1

RetryFollowsLoss ==
  /\ crStep = "retry" => crCursor \in faulted
  /\ crStep = "done" => crCursor = WorkloadSize + 1

BaselineIInv ==
  /\ CR!TypeOK
  /\ KeysArePast
  /\ LedgerGrowsWithLosses
  /\ RetryFollowsLoss
  /\ BaselinePaysLossesTwice

LEMMA BaselineNames ==
  /\ CR!Intent = Intent
  /\ \A S : CR!Cardinality(S) = Cardinality(S)
BY DEF CR!Intent, Intent, CR!Cardinality, Cardinality

LEMMA BaselineInitIInv == CR!StartRun /\ faulted \subseteq Intent => BaselineIInv
<1> SUFFICES ASSUME CR!StartRun, faulted \subseteq Intent PROVE BaselineIInv
  OBVIOUS
<1> USE WorkloadSizeNat, BaselineNames
<1>1. /\ crCursor = 1 /\ crStep = "submit" /\ crRecognized = {} /\ crEvents = << >>
      /\ crEffects = << >> /\ DOMAIN crByKey = {}
  BY DEF CR!StartRun, CR!ProviderInit
<1>2. CR!TypeOK
  BY <1>1 DEF CR!TypeOK, Intent
<1>3. LossesBehind = 0
  <2>1. faulted \cap 1 .. crCursor - 1 = {}
    BY <1>1
  <2> QED
    BY <2>1, FS_EmptySet DEF LossesBehind
<1>4. LedgerGrowsWithLosses
  BY <1>1, <1>3, FS_EmptySet DEF LedgerGrowsWithLosses
<1>5. BaselinePaysLossesTwice
  <2>1. ASSUME NEW i \in Intent PROVE CR!LookupByIntent(i) = {} /\ i \notin CR!Processed
    BY <1>1 DEF CR!LookupByIntent, CR!Processed
  <2>2. CR!EveryLossPaysTwice
    BY <1>1, <2>1, FS_EmptySet DEF CR!EveryLossPaysTwice
  <2>3. CR!UnrecognizedAreLostAttempts
    BY <1>1 DEF CR!UnrecognizedAreLostAttempts
  <2> QED
    BY <2>2, <2>3 DEF BaselinePaysLossesTwice
<1> QED
  BY <1>1, <1>2, <1>4, <1>5 DEF BaselineIInv, KeysArePast, RetryFollowsLoss

\* A commit under a new key appends one effect, found by the lookup of its
\* intent and by no other.
LEMMA BaselineCommit ==
  ASSUME BaselineIInv, crCursor \in Intent, NEW a \in {1, 2},
         CR!AttemptKey(crCursor, a) \notin DOMAIN crByKey,
         CR!Commit(crCursor, CR!AttemptKey(crCursor, a))
  PROVE  LET new == Len(crEffects) + 1 IN
         /\ CR!EffectId(CR!AttemptKey(crCursor, a)) = new
         /\ crEffects' \in Seq([intent : Intent, key : CR!Key])
         /\ Len(crEffects') = new
         /\ DOMAIN crEffects' = DOMAIN crEffects \cup {new} /\ new \notin DOMAIN crEffects
         /\ \A e \in DOMAIN crEffects : crEffects'[e] = crEffects[e]
         /\ crEffects'[new].intent = crCursor /\ crEffects'[new].key.attempt = a
         /\ DOMAIN crByKey' = DOMAIN crByKey \cup {CR!AttemptKey(crCursor, a)}
         /\ DOMAIN crByKey' \subseteq CR!Key
         /\ \A k \in DOMAIN crByKey' : crByKey'[k] \in DOMAIN crEffects'
         /\ \A i \in Intent :
              Cardinality(CR!LookupByIntent(i)') =
                Cardinality(CR!LookupByIntent(i)) + (IF i = crCursor THEN 1 ELSE 0)
<1> DEFINE new == Len(crEffects) + 1
           key == CR!AttemptKey(crCursor, a)
           effect == [intent |-> crCursor, key |-> key]
<1> USE BaselineNames
<1>1. key \in CR!Key /\ key.attempt = a
  BY DEF CR!AttemptKey, CR!Key, CR!Attempt
<1>2. /\ crEffects \in Seq([intent : Intent, key : CR!Key])
      /\ DOMAIN crByKey \subseteq CR!Key
      /\ \A k \in DOMAIN crByKey : crByKey[k] \in DOMAIN crEffects
  BY DEF BaselineIInv, CR!TypeOK
<1> HIDE DEF key
<1>3. /\ crEffects' = Append(crEffects, effect)
      /\ crByKey' = [k \in DOMAIN crByKey \cup {key} |-> CR!EffectId(k)]
      /\ CR!EffectId(key) = new
      /\ \A k \in DOMAIN crByKey : CR!EffectId(k) = crByKey[k]
  BY DEF CR!Commit, CR!EffectId, key
<1>4. effect \in [intent : Intent, key : CR!Key]
  BY <1>1
<1>5. effect.intent = crCursor /\ effect.key.attempt = a
  BY <1>1
<1> HIDE DEF effect
<1>6. /\ crEffects' \in Seq([intent : Intent, key : CR!Key])
      /\ Len(crEffects') = new
      /\ DOMAIN crEffects' = DOMAIN crEffects \cup {new}
      /\ new \notin DOMAIN crEffects
      /\ \A e \in DOMAIN crEffects : crEffects'[e] = crEffects[e]
      /\ crEffects'[new] = effect
  BY <1>2, <1>3, <1>4
<1> HIDE DEF new
<1>7. /\ DOMAIN crByKey' = DOMAIN crByKey \cup {key}
      /\ \A k \in DOMAIN crByKey' : crByKey'[k] \in DOMAIN crEffects'
  BY <1>2, <1>3, <1>6
<1>8. ASSUME NEW i \in Intent
      PROVE  Cardinality(CR!LookupByIntent(i)') =
               Cardinality(CR!LookupByIntent(i)) + (IF i = crCursor THEN 1 ELSE 0)
  <2>1. IsFiniteSet(CR!LookupByIntent(i)) /\ new \notin CR!LookupByIntent(i)
    <3>1. DOMAIN crEffects = 1 .. Len(crEffects) /\ Len(crEffects) \in Int
      BY <1>2
    <3>2. IsFiniteSet(1 .. Len(crEffects))
      BY <3>1, FS_Interval
    <3>3. CR!LookupByIntent(i) \in SUBSET (DOMAIN crEffects)
      BY DEF CR!LookupByIntent
    <3> QED
      BY <1>6, <3>1, <3>2, <3>3, FS_Subset
  <2>2. CASE i = crCursor
    <3>1. CR!LookupByIntent(i)' = CR!LookupByIntent(i) \cup {new}
      BY <1>5, <1>6, <2>2 DEF CR!LookupByIntent
    <3> QED
      BY <2>1, <2>2, <3>1, FS_AddElement
  <2>3. CASE i # crCursor
    <3>1. CR!LookupByIntent(i)' = CR!LookupByIntent(i)
      BY <1>5, <1>6, <2>3 DEF CR!LookupByIntent
    <3>2. Cardinality(CR!LookupByIntent(i)) \in Nat
      BY <2>1, FS_CardinalityType
    <3> QED
      BY <2>3, <3>1, <3>2
  <2> QED
    BY <2>2, <2>3
<1> QED
  BY <1>1, <1>2, <1>3, <1>5, <1>6, <1>7, <1>8 DEF new, key

\* The bookkeeping the next two steps share: one effect more is recognised.
LEMMA RecognizeOneMore ==
  ASSUME BaselineIInv, NEW e, e \notin DOMAIN crEffects
  PROVE  Cardinality(crRecognized \cup {e}) = Cardinality(crRecognized) + 1
<1>1. crEffects \in Seq([intent : CR!Intent, key : CR!Key])
      /\ crRecognized \in SUBSET (DOMAIN crEffects)
  BY DEF BaselineIInv, CR!TypeOK
<1>2. IsFiniteSet(DOMAIN crEffects)
  <2>1. DOMAIN crEffects = 1 .. Len(crEffects) /\ Len(crEffects) \in Int
    BY <1>1
  <2> QED
    BY <2>1, FS_Interval
<1>3. IsFiniteSet(crRecognized) /\ e \notin crRecognized
  BY <1>1, <1>2, FS_Subset
<1> QED
  BY <1>3, FS_AddElement

LEMMA BaselineAnsweredIInv ==
  ASSUME BaselineIInv, CR!SubmitAnswered PROVE BaselineIInv'
<1> USE WorkloadSizeNat, BaselineNames
<1> DEFINE new == Len(crEffects) + 1
           key == CR!AttemptKey(crCursor, 1)
<1>1. /\ crStep = "submit" /\ crStep' = "submit"
      /\ crCursor \in Intent /\ crCursor \notin faulted /\ crCursor \in Nat \ {0}
      /\ CR!Commit(crCursor, key)
      /\ crRecognized' = crRecognized \cup {CR!EffectId(key)}
      /\ crCursor' = crCursor + 1
      /\ UNCHANGED <<faulted, crEvents>>
  BY DEF CR!SubmitAnswered, Intent
<1>2. key \notin DOMAIN crByKey
  BY <1>1 DEF BaselineIInv, KeysArePast, CR!AttemptKey
<1>3. /\ CR!EffectId(key) = new
      /\ crEffects' \in Seq([intent : Intent, key : CR!Key])
      /\ Len(crEffects') = new
      /\ DOMAIN crEffects' = DOMAIN crEffects \cup {new} /\ new \notin DOMAIN crEffects
      /\ \A e \in DOMAIN crEffects : crEffects'[e] = crEffects[e]
      /\ crEffects'[new].intent = crCursor /\ crEffects'[new].key.attempt = 1
      /\ DOMAIN crByKey' = DOMAIN crByKey \cup {key}
      /\ DOMAIN crByKey' \subseteq CR!Key
      /\ \A k \in DOMAIN crByKey' : crByKey'[k] \in DOMAIN crEffects'
      /\ \A i \in Intent :
           Cardinality(CR!LookupByIntent(i)') =
             Cardinality(CR!LookupByIntent(i)) + (IF i = crCursor THEN 1 ELSE 0)
  BY <1>1, <1>2, BaselineCommit
<1>4. key.intent = crCursor
  BY DEF CR!AttemptKey
<1> HIDE DEF new, key
<1>5. CR!TypeOK'
  BY <1>1, <1>3 DEF BaselineIInv, CR!TypeOK, Intent
<1>6. KeysArePast'
  <2>1. ASSUME NEW k \in DOMAIN crByKey' PROVE k.intent < crCursor'
    BY <1>1, <1>3, <1>4, <2>1 DEF BaselineIInv, KeysArePast, CR!TypeOK, CR!Key, Intent
  <2> QED
    BY <2>1 DEF KeysArePast
<1>7. LedgerGrowsWithLosses'
  <2>1. LossesBehind' = LossesBehind /\ LossesBehind \in Nat
    BY <1>1, FaultedUpTo DEF LossesBehind, BaselineIInv, LedgerGrowsWithLosses
  <2>2. Cardinality(crRecognized') = crCursor
    BY <1>1, <1>3, RecognizeOneMore DEF BaselineIInv, LedgerGrowsWithLosses
  <2> QED
    BY <1>1, <1>3, <2>1, <2>2 DEF BaselineIInv, LedgerGrowsWithLosses, new
<1>8. RetryFollowsLoss'
  BY <1>1 DEF RetryFollowsLoss
<1>9. CR!EveryLossPaysTwice'
  <2>1. CR!EveryLossPaysTwice
    BY DEF BaselineIInv, BaselinePaysLossesTwice
  <2>2. ASSUME NEW i \in Intent
        PROVE  Cardinality(CR!LookupByIntent(i)') = Payments(i)'
    BY <1>1, <1>3, <2>1 DEF CR!EveryLossPaysTwice, Payments, CR!Processed, Intent
  <2> QED
    BY <2>2 DEF CR!EveryLossPaysTwice, Payments
<1>10. CR!UnrecognizedAreLostAttempts'
  BY <1>1, <1>3 DEF BaselineIInv, BaselinePaysLossesTwice, CR!UnrecognizedAreLostAttempts
<1> QED
  BY <1>5, <1>6, <1>7, <1>8, <1>9, <1>10 DEF BaselineIInv, BaselinePaysLossesTwice

LEMMA BaselineLostIInv ==
  ASSUME BaselineIInv, CR!SubmitLost PROVE BaselineIInv'
<1> USE WorkloadSizeNat, BaselineNames
<1> DEFINE new == Len(crEffects) + 1
           key == CR!AttemptKey(crCursor, 1)
<1>1. /\ crStep = "submit" /\ crStep' = "retry"
      /\ crCursor \in Intent /\ crCursor \in faulted
      /\ CR!Commit(crCursor, key)
      /\ CR!Record(crCursor, "TIMEOUT_INTERPRETED_AS_FAILURE")
      /\ UNCHANGED <<faulted, crCursor, crRecognized>>
  BY DEF CR!SubmitLost, BaselineIInv, CR!TypeOK
<1>2. key \notin DOMAIN crByKey
  BY <1>1 DEF BaselineIInv, KeysArePast, CR!AttemptKey, Intent
<1>3. /\ crEffects' \in Seq([intent : Intent, key : CR!Key])
      /\ Len(crEffects') = new
      /\ DOMAIN crEffects' = DOMAIN crEffects \cup {new} /\ new \notin DOMAIN crEffects
      /\ \A e \in DOMAIN crEffects : crEffects'[e] = crEffects[e]
      /\ crEffects'[new].intent = crCursor /\ crEffects'[new].key.attempt = 1
      /\ DOMAIN crByKey' = DOMAIN crByKey \cup {key}
      /\ DOMAIN crByKey' \subseteq CR!Key
      /\ \A k \in DOMAIN crByKey' : crByKey'[k] \in DOMAIN crEffects'
      /\ \A i \in Intent :
           Cardinality(CR!LookupByIntent(i)') =
             Cardinality(CR!LookupByIntent(i)) + (IF i = crCursor THEN 1 ELSE 0)
  BY <1>1, <1>2, BaselineCommit
<1>4. key.intent = crCursor /\ key.attempt = 1
  BY DEF CR!AttemptKey
<1> HIDE DEF new, key
<1>5. CR!TypeOK'
  <2>1. crEvents' \in Seq(CR!Event)
    BY <1>1 DEF CR!Record, BaselineIInv, CR!TypeOK, CR!Event
  <2> QED
    BY <1>1, <1>3, <2>1 DEF BaselineIInv, CR!TypeOK
<1>6. KeysArePast'
  BY <1>1, <1>3, <1>4 DEF BaselineIInv, KeysArePast
<1>7. LedgerGrowsWithLosses'
  <2>1. LossesBehind' = LossesBehind /\ LossesBehind \in Nat
    BY <1>1, FaultedUpTo DEF LossesBehind
  <2>2. crCursor \in Nat
    BY <1>1 DEF Intent
  <2> QED
    BY <1>1, <1>3, <2>1, <2>2 DEF BaselineIInv, LedgerGrowsWithLosses, new
<1>8. RetryFollowsLoss'
  BY <1>1 DEF RetryFollowsLoss
<1>9. CR!EveryLossPaysTwice'
  <2>1. CR!EveryLossPaysTwice
    BY DEF BaselineIInv, BaselinePaysLossesTwice
  <2>2. ASSUME NEW i \in Intent
        PROVE  Cardinality(CR!LookupByIntent(i)') = Payments(i)'
    BY <1>1, <1>3, <2>1 DEF CR!EveryLossPaysTwice, Payments, CR!Processed, Intent
  <2> QED
    BY <2>2 DEF CR!EveryLossPaysTwice, Payments
<1>10. CR!UnrecognizedAreLostAttempts'
  <2>1. crRecognized \subseteq DOMAIN crEffects
    BY DEF BaselineIInv, CR!TypeOK
  <2> QED
    BY <1>1, <1>3, <2>1
    DEF BaselineIInv, BaselinePaysLossesTwice, CR!UnrecognizedAreLostAttempts
<1> QED
  BY <1>5, <1>6, <1>7, <1>8, <1>9, <1>10 DEF BaselineIInv, BaselinePaysLossesTwice

LEMMA BaselineRetryIInv ==
  ASSUME BaselineIInv, CR!Retry PROVE BaselineIInv'
<1> USE WorkloadSizeNat, BaselineNames
<1> DEFINE new == Len(crEffects) + 1
           key == CR!AttemptKey(crCursor, 2)
<1>1. /\ crStep = "retry" /\ crStep' = "submit"
      /\ crCursor \in Intent /\ crCursor \in faulted /\ crCursor \in Nat \ {0}
      /\ CR!Commit(crCursor, key)
      /\ CR!Record(crCursor, "RETRIED_WITH_NEW_ATTEMPT_KEY")
      /\ crRecognized' = crRecognized \cup {CR!EffectId(key)}
      /\ crCursor' = crCursor + 1
      /\ UNCHANGED faulted
  BY DEF CR!Retry, BaselineIInv, CR!TypeOK, RetryFollowsLoss, Intent
<1>2. key \notin DOMAIN crByKey
  BY <1>1 DEF BaselineIInv, KeysArePast, CR!AttemptKey
<1>3. /\ CR!EffectId(key) = new
      /\ crEffects' \in Seq([intent : Intent, key : CR!Key])
      /\ Len(crEffects') = new
      /\ DOMAIN crEffects' = DOMAIN crEffects \cup {new} /\ new \notin DOMAIN crEffects
      /\ \A e \in DOMAIN crEffects : crEffects'[e] = crEffects[e]
      /\ crEffects'[new].intent = crCursor /\ crEffects'[new].key.attempt = 2
      /\ DOMAIN crByKey' = DOMAIN crByKey \cup {key}
      /\ DOMAIN crByKey' \subseteq CR!Key
      /\ \A k \in DOMAIN crByKey' : crByKey'[k] \in DOMAIN crEffects'
      /\ \A i \in Intent :
           Cardinality(CR!LookupByIntent(i)') =
             Cardinality(CR!LookupByIntent(i)) + (IF i = crCursor THEN 1 ELSE 0)
  BY <1>1, <1>2, BaselineCommit
<1>4. key.intent = crCursor
  BY DEF CR!AttemptKey
<1> HIDE DEF new, key
<1>5. CR!TypeOK'
  <2>1. crEvents' \in Seq(CR!Event)
    BY <1>1 DEF CR!Record, BaselineIInv, CR!TypeOK, CR!Event
  <2> QED
    BY <1>1, <1>3, <2>1 DEF BaselineIInv, CR!TypeOK, Intent
<1>6. KeysArePast'
  <2>1. ASSUME NEW k \in DOMAIN crByKey' PROVE k.intent < crCursor'
    <3>1. k.intent \in Nat
      BY <1>3, <2>1 DEF CR!Key, Intent
    <3>2. k.intent <= crCursor
      BY <1>1, <1>3, <1>4, <2>1, <3>1 DEF BaselineIInv, KeysArePast
    <3> QED
      BY <1>1, <3>1, <3>2
  <2> QED
    BY <2>1 DEF KeysArePast
<1>7. LedgerGrowsWithLosses'
  <2>1. LossesBehind' = LossesBehind + 1 /\ LossesBehind \in Nat
    <3>1. crCursor' - 1 = crCursor
      BY <1>1
    <3>2. LossesBehind' = Cardinality(faulted \cap 1 .. crCursor)
      BY <1>1, <3>1 DEF LossesBehind
    <3> QED
      BY <1>1, <3>2, FaultedUpTo DEF LossesBehind
  <2>2. Cardinality(crRecognized') = crCursor
    BY <1>1, <1>3, RecognizeOneMore DEF BaselineIInv, LedgerGrowsWithLosses
  <2> QED
    BY <1>1, <1>3, <2>1, <2>2 DEF BaselineIInv, LedgerGrowsWithLosses, new
<1>8. RetryFollowsLoss'
  BY <1>1 DEF RetryFollowsLoss
<1>9. CR!EveryLossPaysTwice'
  <2>1. CR!EveryLossPaysTwice
    BY DEF BaselineIInv, BaselinePaysLossesTwice
  <2>2. ASSUME NEW i \in Intent
        PROVE  Cardinality(CR!LookupByIntent(i)') = Payments(i)'
    <3>1. Payments(i)' = Payments(i) + (IF i = crCursor THEN 1 ELSE 0)
      BY <1>1 DEF Payments, CR!Processed, Intent
    <3> QED
      BY <1>3, <2>1, <3>1 DEF CR!EveryLossPaysTwice, Payments
  <2> QED
    BY <2>2 DEF CR!EveryLossPaysTwice, Payments
<1>10. CR!UnrecognizedAreLostAttempts'
  BY <1>1, <1>3 DEF BaselineIInv, BaselinePaysLossesTwice, CR!UnrecognizedAreLostAttempts
<1> QED
  BY <1>5, <1>6, <1>7, <1>8, <1>9, <1>10 DEF BaselineIInv, BaselinePaysLossesTwice

LEMMA BaselineStepIInv == ASSUME BaselineIInv, CR!Next PROVE BaselineIInv'
<1>1. CASE CR!Finish
  <2>1. UNCHANGED <<crByKey, crEffects, faulted, crCursor, crRecognized, crEvents>>
        /\ crStep = "submit" /\ crStep' = "done" /\ crCursor = WorkloadSize + 1
    BY <1>1 DEF CR!Finish
  <2>2. CR!TypeOK'
    BY <2>1 DEF BaselineIInv, CR!TypeOK
  <2>3. BaselinePaysLossesTwice'
    BY <2>1 DEF BaselineIInv, BaselinePaysLossesTwice, CR!EveryLossPaysTwice,
       CR!UnrecognizedAreLostAttempts, CR!Processed, CR!LookupByIntent
  <2> QED
    BY <2>1, <2>2, <2>3
    DEF BaselineIInv, KeysArePast, LedgerGrowsWithLosses, LossesBehind, RetryFollowsLoss
<1> QED
  BY <1>1, BaselineAnsweredIInv, BaselineLostIInv, BaselineRetryIInv DEF CR!Next

-----------------------------------------------------------------------------
(* Counting duplicates.                                                     *)

\* A non-empty set of naturals has a least element.
LEMMA LeastNatural ==
  ASSUME NEW S \in SUBSET Nat, S # {}
  PROVE  \E m \in S : \A n \in S : m <= n
<1> DEFINE Less == {ss \in Nat \X Nat : ss[1] < ss[2]}
<1>1. IsWellFoundedOn(Less, Nat)
  BY NatLessThanWellFounded DEF OpToRel
<1>2. \A m, n \in Nat : n < m => <<n, m>> \in Less
  OBVIOUS
<1> HIDE DEF Less
<1>3. PICK m \in S : \A n \in S : <<n, m>> \notin Less
  BY <1>1, WFMin
<1>4. \A n \in S : ~(n < m)
  BY <1>2, <1>3
<1> QED
  BY <1>4

\* What the runner counts intent by intent, as the sum of the effects beyond the
\* first of each, is how many effects there are more than intents paid.
LEMMA DuplicatesAreTheExcess ==
  ASSUME NEW E, NEW n \in Nat, DOMAIN E = 1 .. n
  PROVE  DuplicateCount(E) = n - Cardinality({E[e].intent : e \in DOMAIN E})
<1> DEFINE T == {E[e].intent : e \in DOMAIN E}
           count(i) == Cardinality({e \in DOMAIN E : E[e].intent = i})
           extra(i) == Max({0, count(i) - 1})
           Of(s) == {e \in DOMAIN E : E[e].intent \in s}
           pick(s) == CHOOSE x \in s : TRUE
           Sum(h) == [s \in SUBSET T |->
                        IF s = {} THEN 0 ELSE extra(pick(s)) + h[s \ {pick(s)}]]
           excess == [s \in SUBSET T |-> Cardinality(Of(s)) - Cardinality(s)]
           sum == CHOOSE h : h = Sum(h)
<1>1. DuplicateCount(E) = sum[T]
  BY DEF DuplicateCount, MapThenSumSet, MapThenFoldSet
<1>2. IsFiniteSet(DOMAIN E) /\ Cardinality(DOMAIN E) = n
  BY FS_Interval
<1>3. \A s : /\ IsFiniteSet(Of(s)) /\ Cardinality(Of(s)) \in Nat
             /\ Of(s) \subseteq DOMAIN E
  BY <1>2, FS_Subset, FS_CardinalityType
<1>4. IsFiniteSet(T)
  <2> DEFINE intentOf == [e \in DOMAIN E |-> E[e].intent]
  <2>1. intentOf \in Surjection(DOMAIN E, T)
    BY DEF Surjection
  <2> QED
    BY <1>2, <2>1, FS_Surjection
<1>5. \A s \in SUBSET T : IsFiniteSet(s) /\ Cardinality(s) \in Nat
  BY <1>4, FS_Subset, FS_CardinalityType
<1>6. \A i \in T : extra(i) = count(i) - 1 /\ count(i) \in Nat
  <2> SUFFICES ASSUME NEW i \in T PROVE extra(i) = count(i) - 1 /\ count(i) \in Nat
    OBVIOUS
  <2> DEFINE mine == {e \in DOMAIN E : E[e].intent = i}
  <2>1. IsFiniteSet(mine) /\ mine # {}
    BY <1>2, FS_Subset
  <2>2. Cardinality(mine) \in Nat /\ Cardinality(mine) # 0
    BY <2>1, FS_CardinalityType, FS_EmptySet
  <2>3. ASSUME NEW k \in Nat PROVE Max({0, k}) = k
    BY <2>3 DEF Max
  <2>4. count(i) = Cardinality(mine)
    OBVIOUS
  <2> HIDE DEF mine, count
  <2>5. count(i) - 1 \in Nat
    BY <2>2, <2>4
  <2> QED
    BY <2>2, <2>3, <2>4, <2>5
<1>7. ASSUME NEW s \in SUBSET T, NEW x \in s
      PROVE  Cardinality(Of(s)) = count(x) + Cardinality(Of(s \ {x}))
  <2> DEFINE mine == {e \in DOMAIN E : E[e].intent = x}
  <2>1. Of(s) = mine \cup Of(s \ {x}) /\ mine \cap Of(s \ {x}) = {}
    OBVIOUS
  <2>2. IsFiniteSet(mine) /\ IsFiniteSet(Of(s \ {x}))
    BY <1>2, FS_Subset
  <2>3. Cardinality(mine) \in Nat /\ Cardinality(Of(s \ {x})) \in Nat
    BY <2>2, FS_CardinalityType
  <2>4. count(x) = Cardinality(mine)
    OBVIOUS
  <2> HIDE DEF mine, Of, count
  <2>5. Cardinality(mine \cup Of(s \ {x})) =
          Cardinality(mine) + Cardinality(Of(s \ {x})) - Cardinality({})
    BY <2>1, <2>2, FS_Union
  <2> QED
    BY <2>1, <2>3, <2>4, <2>5, FS_EmptySet
<1> HIDE DEF extra, count, T
<1>8. ASSUME NEW s \in SUBSET T, s # {}
      PROVE  excess[s] = extra(pick(s)) + excess[s \ {pick(s)}]
  <2>1. pick(s) \in s
    BY <1>8
  <2> HIDE DEF pick, Of
  <2>2. Cardinality(s \ {pick(s)}) = Cardinality(s) - 1
    BY <1>5, <2>1, FS_RemoveElement
  <2>3. Cardinality(Of(s)) = count(pick(s)) + Cardinality(Of(s \ {pick(s)}))
    BY <1>7, <2>1
  <2>4. extra(pick(s)) = count(pick(s)) - 1 /\ count(pick(s)) \in Nat
    BY <1>6, <2>1
  <2>5. /\ Cardinality(s) \in Nat /\ Cardinality(Of(s \ {pick(s)})) \in Nat
        /\ s \ {pick(s)} \in SUBSET T
    BY <1>3, <1>5
  <2>6. /\ excess[s] = Cardinality(Of(s)) - Cardinality(s)
        /\ excess[s \ {pick(s)}] =
             Cardinality(Of(s \ {pick(s)})) - Cardinality(s \ {pick(s)})
    BY <2>5
  <2> HIDE DEF excess
  <2> QED
    BY <2>2, <2>3, <2>4, <2>5, <2>6
<1>9. excess[{}] = 0
  <2>1. Of({}) = {}
    OBVIOUS
  <2> QED
    BY <2>1, FS_EmptySet
<1> HIDE DEF Of
<1>10. excess = Sum(excess)
  <2>1. \A s \in SUBSET T : excess[s] = Sum(excess)[s]
    BY <1>8, <1>9
  <2>2. DOMAIN excess = SUBSET T /\ DOMAIN Sum(excess) = SUBSET T
    OBVIOUS
  <2>3. /\ excess = [s \in SUBSET T |-> excess[s]]
        /\ Sum(excess) = [s \in SUBSET T |-> Sum(excess)[s]]
    OBVIOUS
  <2> HIDE DEF excess, Sum
  <2> QED
    BY <2>1, <2>3
<1> HIDE DEF excess
<1>11. sum = Sum(sum)
  <2> HIDE DEF Sum
  <2> QED
    BY <1>10
<1> HIDE DEF sum
<1>12. \A s \in SUBSET T : sum[s] = IF s = {} THEN 0
                                    ELSE extra(pick(s)) + sum[s \ {pick(s)}]
  BY <1>11
<1> HIDE DEF Sum
<1>13. \A s \in SUBSET T : sum[s] = excess[s]
  <2> DEFINE Wrong == {s \in SUBSET T : sum[s] # excess[s]}
             Sizes == {Cardinality(s) : s \in Wrong}
  <2> SUFFICES ASSUME Wrong # {} PROVE FALSE
    OBVIOUS
  <2>1. Sizes \in SUBSET Nat /\ Sizes # {}
    BY <1>5
  <2>2. PICK m \in Sizes : \A k \in Sizes : m <= k
    BY <2>1, LeastNatural
  <2>3. PICK s \in Wrong : m = Cardinality(s)
    BY <2>2
  <2>4. s # {}
    BY <1>9, <1>12, <2>3
  <2>5. pick(s) \in s
    BY <2>4
  <2> HIDE DEF pick
  <2>6. sum[s \ {pick(s)}] # excess[s \ {pick(s)}] /\ s \ {pick(s)} \in SUBSET T
    BY <1>8, <1>12, <2>3, <2>4, <2>5
  <2>7. Cardinality(s \ {pick(s)}) = Cardinality(s) - 1
    BY <1>5, <2>3, <2>5, FS_RemoveElement
  <2>8. Cardinality(s) - 1 \in Sizes
    BY <2>6, <2>7
  <2>9. Cardinality(s) \in Nat
    BY <1>5, <2>3
  <2>10. m <= Cardinality(s) - 1
    BY <2>2, <2>8
  <2> QED
    BY <2>3, <2>9, <2>10
<1>14. excess[T] = n - Cardinality(T)
  <2>1. Of(T) = DOMAIN E
    BY DEF Of, T
  <2> QED
    BY <1>2, <2>1 DEF excess
<1> QED
  BY <1>1, <1>13, <1>14 DEF T

-----------------------------------------------------------------------------
(* The experiment.                                                          *)

AwareSummary ==
  [intents |-> WorkloadSize, effects |-> WorkloadSize, duplicates |-> 0,
   lostResponses |-> lossCount, reconciled |-> lossCount, unrecognized |-> 0]

BaselineSummary ==
  [intents |-> WorkloadSize, effects |-> WorkloadSize + lossCount, duplicates |-> lossCount,
   lostResponses |-> lossCount, reconciled |-> 0, unrecognized |-> lossCount]

Started == {"profile_aware", "conventional_retry", "compared"}

\* Where each run stands in a phase, and what has been summarised by then.
PhaseAgrees ==
  /\ phase \notin Started =>
       /\ phase \in {"select", "rejected"} /\ faulted = {}
       /\ DOMAIN summary = {} /\ PA!StartRun /\ CR!StartRun
  /\ phase \in Started =>
       lossCount \in 0 .. WorkloadSize /\ Cardinality(faulted) = lossCount
  /\ phase = "profile_aware" => paStep # "done" /\ DOMAIN summary = {} /\ CR!StartRun
  /\ phase = "conventional_retry" =>
       /\ paStep = "done" /\ crStep # "done"
       /\ DOMAIN summary = {"profile_aware"} /\ summary["profile_aware"] = AwareSummary
  /\ phase = "compared" =>
       /\ paStep = "done" /\ crStep = "done"
       /\ DOMAIN summary = {"profile_aware", "conventional_retry"}
       /\ summary["profile_aware"] = AwareSummary
       /\ summary["conventional_retry"] = BaselineSummary

ExperimentIInv ==
  /\ lossCount \in LossCounts /\ faulted \subseteq Intent
  /\ AwareIInv /\ BaselineIInv /\ PhaseAgrees

\* What a loop that has passed the whole workload leaves to be summarised.
LEMMA AwareCompletes ==
  ASSUME AwareIInv, paCursor = WorkloadSize + 1, paStep = "submit", faulted \subseteq Intent
  PROVE  /\ Len(paEffects) = WorkloadSize /\ DuplicateCount(paEffects) = 0
         /\ paReconciled = Cardinality(faulted)
         /\ Cardinality(DOMAIN paEffects \ paRecognized) = 0
<1> USE WorkloadSizeNat
<1>1. /\ Len(paEffects) = WorkloadSize
      /\ paEffects \in Seq([intent : PA!Intent, key : PA!Intent])
      /\ paRecognized = 1 .. WorkloadSize
      /\ \A e \in DOMAIN paEffects : paEffects[e] = [intent |-> e, key |-> e]
  BY DEF AwareIInv, LedgerFollowsCursor, Committed, PA!TypeOK
<1>2. DOMAIN paEffects = 1 .. WorkloadSize
  BY <1>1
<1>3. {paEffects[e].intent : e \in DOMAIN paEffects} = 1 .. WorkloadSize
  BY <1>1, <1>2
<1>4. DuplicateCount(paEffects) = 0
  <2>1. Cardinality(1 .. WorkloadSize) = WorkloadSize
    BY FS_Interval
  <2>2. DuplicateCount(paEffects) =
          WorkloadSize - Cardinality({paEffects[e].intent : e \in DOMAIN paEffects})
    BY <1>2, DuplicatesAreTheExcess
  <2>3. Cardinality({paEffects[e].intent : e \in DOMAIN paEffects}) = WorkloadSize
    BY <1>3, <2>1
  <2> QED
    BY <2>2, <2>3
<1>5. paReconciled = Cardinality(faulted)
  <2>1. 1 .. paCursor - 1 = Intent
    BY DEF Intent
  <2>2. faulted \cap 1 .. paCursor - 1 = faulted
    BY <2>1
  <2> QED
    BY <2>2 DEF AwareIInv
<1>6. Cardinality(DOMAIN paEffects \ paRecognized) = 0
  <2>1. DOMAIN paEffects \ paRecognized = {}
    BY <1>1, <1>2
  <2> QED
    BY <2>1, FS_EmptySet
<1> QED
  BY <1>1, <1>4, <1>5, <1>6

LEMMA BaselineCompletes ==
  ASSUME BaselineIInv, crCursor = WorkloadSize + 1, crStep = "submit",
         faulted \subseteq Intent
  PROVE  /\ Len(crEffects) = WorkloadSize + Cardinality(faulted)
         /\ DuplicateCount(crEffects) = Cardinality(faulted)
         /\ Cardinality(DOMAIN crEffects \ crRecognized) = Cardinality(faulted)
<1> USE WorkloadSizeNat, BaselineNames
<1>1. /\ crEffects \in Seq([intent : Intent, key : CR!Key])
      /\ crRecognized \in SUBSET (DOMAIN crEffects)
      /\ Cardinality(crRecognized) = WorkloadSize
      /\ Len(crEffects) = WorkloadSize + LossesBehind
  <2>1. crCursor - 1 = WorkloadSize /\ crStep # "retry"
    OBVIOUS
  <2>2. IsFiniteSet(faulted \cap 1 .. crCursor - 1)
    <3>1. IsFiniteSet(1 .. crCursor - 1)
      BY <2>1, FS_Interval
    <3> QED
      BY <3>1, FS_Intersection
  <2>3. LossesBehind \in Nat
    BY <2>2, FS_CardinalityType DEF LossesBehind
  <2> QED
    BY <2>1, <2>3 DEF BaselineIInv, CR!TypeOK, LedgerGrowsWithLosses
<1>2. LossesBehind = Cardinality(faulted)
  <2>1. 1 .. crCursor - 1 = Intent
    BY DEF Intent
  <2>2. faulted \cap 1 .. crCursor - 1 = faulted
    BY <2>1
  <2> QED
    BY <2>2 DEF LossesBehind
<1>3. Cardinality(faulted) \in Nat
  <2>1. IsFiniteSet(Intent) /\ faulted \in SUBSET Intent
    BY FS_Interval DEF Intent
  <2> QED
    BY <2>1, FS_Subset, FS_CardinalityType
<1>4. DOMAIN crEffects = 1 .. Len(crEffects) /\ Len(crEffects) \in Nat
  BY <1>1
<1>5. {crEffects[e].intent : e \in DOMAIN crEffects} = Intent
  <2>1. ASSUME NEW i \in Intent PROVE \E e \in DOMAIN crEffects : crEffects[e].intent = i
    <3>1. i \in CR!Processed
      BY <2>1 DEF CR!Processed, Intent
    <3>2. Cardinality(CR!LookupByIntent(i)) # 0
      BY <3>1 DEF BaselineIInv, BaselinePaysLossesTwice, CR!EveryLossPaysTwice
    <3>3. CR!LookupByIntent(i) # {}
      BY <3>2, FS_EmptySet
    <3> QED
      BY <3>3 DEF CR!LookupByIntent
  <2>2. \A e \in DOMAIN crEffects : crEffects[e] \in [intent : Intent, key : CR!Key]
    <3> DEFINE Effect == [intent : Intent, key : CR!Key]
    <3>1. crEffects \in Seq(Effect)
      BY <1>1
    <3> HIDE DEF Effect
    <3>2. \A e \in DOMAIN crEffects : crEffects[e] \in Effect
      BY <1>4, <3>1
    <3> QED
      BY <3>2 DEF Effect
  <2>3. \A e \in DOMAIN crEffects : crEffects[e].intent \in Intent
    BY <2>2
  <2> QED
    BY <2>1, <2>3
<1>6. DuplicateCount(crEffects) = Len(crEffects) - Cardinality(Intent)
  BY <1>4, <1>5, DuplicatesAreTheExcess
<1>7. Cardinality(Intent) = WorkloadSize
  BY FS_Interval DEF Intent
<1>8. Cardinality(DOMAIN crEffects \ crRecognized) = Len(crEffects) - WorkloadSize
  <2>1. IsFiniteSet(DOMAIN crEffects) /\ Cardinality(DOMAIN crEffects) = Len(crEffects)
    BY <1>4, FS_Interval
  <2>2. DOMAIN crEffects \cap crRecognized = crRecognized
    BY <1>1
  <2>3. Cardinality(DOMAIN crEffects \ crRecognized) =
          Cardinality(DOMAIN crEffects) - Cardinality(DOMAIN crEffects \cap crRecognized)
    BY <2>1, FS_Difference
  <2> QED
    BY <1>1, <2>1, <2>2, <2>3
<1> QED
  BY <1>1, <1>2, <1>3, <1>6, <1>7, <1>8

\* The slice of the ranking has the length asked for.
LEMMA SliceIsExact ==
  ASSUME lossCount \in Int, LossCountInRange(lossCount)
  PROVE  lossCount \in 0 .. WorkloadSize /\ SliceLength(lossCount) = lossCount
<1>1. lossCount \in 0 .. WorkloadSize
  BY WorkloadSizeNat DEF LossCountInRange
<1>2. ASSUME NEW a \in Int, NEW b \in Int, a <= b PROVE Min({a, b}) = a
  BY <1>2 DEF Min
<1> QED
  BY <1>1, <1>2, WorkloadSizeNat DEF SliceLength

\* A run keeps its invariant when neither it nor the losses are touched.
LEMMA BaselineUntouched ==
  ASSUME BaselineIInv, UNCHANGED <<crVars, faulted>> PROVE BaselineIInv'
BY DEF crVars, BaselineIInv, CR!TypeOK, KeysArePast, LedgerGrowsWithLosses, LossesBehind,
       RetryFollowsLoss, BaselinePaysLossesTwice, CR!EveryLossPaysTwice,
       CR!UnrecognizedAreLostAttempts, CR!Processed, CR!LookupByIntent

LEMMA AwareUntouched ==
  ASSUME AwareIInv, UNCHANGED <<paVars, faulted>> PROVE AwareIInv'
<1>1. UNCHANGED PA!vars
  BY DEF paVars, PA!vars, PA!loopVars
<1> QED
  BY <1>1, AwareStepIInv

LEMMA StartUntouched ==
  /\ PA!StartRun /\ UNCHANGED paVars => PA!StartRun'
  /\ CR!StartRun /\ UNCHANGED crVars => CR!StartRun'
BY DEF paVars, crVars, PA!StartRun, PA!ProviderInit, CR!StartRun, CR!ProviderInit

LEMMA ExperimentInit == Init => ExperimentIInv
<1> SUFFICES ASSUME Init PROVE ExperimentIInv
  OBVIOUS
<1>1. /\ phase = "select" /\ lossCount \in LossCounts /\ faulted = {}
      /\ DOMAIN summary = {} /\ PA!StartRun /\ CR!StartRun
  BY DEF Init
<1>2. PA!Init
  BY <1>1 DEF PA!Init
<1>3. AwareIInv /\ BaselineIInv
  BY <1>1, <1>2, AwareInitIInv, BaselineInitIInv
<1> QED
  BY <1>1, <1>3 DEF ExperimentIInv, PhaseAgrees, Started

LEMMA SelectIInv == ASSUME ExperimentIInv, SelectFaulted PROVE ExperimentIInv'
<1>1. /\ phase = "select" /\ phase' = "profile_aware"
      /\ faulted' \in SUBSET Intent /\ Cardinality(faulted') = SliceLength(lossCount)
      /\ LossCountInRange(lossCount)
      /\ UNCHANGED <<lossCount, summary, paVars, crVars>>
  BY DEF SelectFaulted
<1>2. /\ PA!StartRun /\ CR!StartRun /\ DOMAIN summary = {}
      /\ lossCount \in Int /\ lossCount \in LossCounts
  BY <1>1, ParametersAssumption DEF ExperimentIInv, PhaseAgrees, Started
<1>3. PA!StartRun' /\ CR!StartRun'
  BY <1>1, <1>2, StartUntouched
<1>4. AwareIInv'
  <2>1. PA!Init'
    BY <1>1, <1>3, SameIntent DEF PA!Init
  <2>2. (PA!Init => AwareIInv)'
    BY AwareInitIInv, PTL
  <2> QED
    BY <2>1, <2>2
<1>5. BaselineIInv'
  <2>1. (CR!StartRun /\ faulted \subseteq Intent => BaselineIInv)'
    BY BaselineInitIInv, PTL
  <2> QED
    BY <1>1, <1>3, <2>1
<1>6. (lossCount \in 0 .. WorkloadSize /\ Cardinality(faulted) = lossCount)'
  BY <1>1, <1>2, SliceIsExact
<1>7. paStep' # "done" /\ DOMAIN summary' = {}
  BY <1>1, <1>2, <1>3 DEF PA!StartRun
<1> QED
  BY <1>1, <1>2, <1>3, <1>4, <1>5, <1>6, <1>7 DEF ExperimentIInv, PhaseAgrees, Started

LEMMA RejectIInv == ASSUME ExperimentIInv, RejectLossCount PROVE ExperimentIInv'
<1>1. /\ phase = "select" /\ phase' = "rejected"
      /\ UNCHANGED <<lossCount, faulted, summary, paVars, crVars>>
  BY DEF RejectLossCount
<1>2. AwareIInv' /\ BaselineIInv'
  BY <1>1, AwareUntouched, BaselineUntouched DEF ExperimentIInv
<1>3. /\ PA!StartRun' /\ CR!StartRun' /\ faulted' = {} /\ DOMAIN summary' = {}
  BY <1>1, StartUntouched DEF ExperimentIInv, PhaseAgrees, Started
<1> QED
  BY <1>1, <1>2, <1>3 DEF ExperimentIInv, PhaseAgrees, Started

LEMMA AwareStepOfExperiment ==
  ASSUME ExperimentIInv, ProfileAwareStep PROVE ExperimentIInv'
<1>1. /\ phase = "profile_aware" /\ PA!Next /\ UNCHANGED <<lossCount, crVars>>
      /\ CR!StartRun /\ DOMAIN summary = {} /\ AwareIInv /\ faulted \subseteq Intent
      /\ lossCount \in 0 .. WorkloadSize /\ Cardinality(faulted) = lossCount
  BY DEF ProfileAwareStep, ExperimentIInv, PhaseAgrees, Started
<1>2. faulted' = faulted
  BY <1>1 DEF PA!Next, PA!SubmitAnswered, PA!SubmitLost, PA!Reconcile, PA!Finish
<1>3. AwareIInv' /\ BaselineIInv' /\ CR!StartRun'
  BY <1>1, <1>2, AwareStepIInv, BaselineUntouched, StartUntouched DEF ExperimentIInv
<1>4. CASE paStep' = "done"
  <2>1. /\ phase' = "conventional_retry"
        /\ Summarize("profile_aware", paEffects, paRecognized, paReconciled)
    BY <1>4 DEF ProfileAwareStep
  <2>2. paStep = "submit" /\ paCursor = WorkloadSize + 1
    BY <1>1, <1>4
    DEF PA!Next, PA!SubmitAnswered, PA!SubmitLost, PA!Reconcile, PA!Finish,
        ExperimentIInv, PhaseAgrees
  <2>3. /\ Len(paEffects) = WorkloadSize /\ DuplicateCount(paEffects) = 0
        /\ paReconciled = lossCount
        /\ Cardinality(DOMAIN paEffects \ paRecognized) = 0
    BY <1>1, <2>2, AwareCompletes
  <2>4. DOMAIN summary' = {"profile_aware"} /\ summary'["profile_aware"] = AwareSummary
    BY <1>1, <2>1, <2>3 DEF Summarize, AwareSummary
  <2>5. crStep' # "done"
    BY <1>3 DEF CR!StartRun
  <2> QED
    BY <1>1, <1>2, <1>3, <1>4, <2>1, <2>4, <2>5
    DEF ExperimentIInv, PhaseAgrees, Started, AwareSummary
<1>5. CASE paStep' # "done"
  <2>1. UNCHANGED <<phase, summary>>
    BY <1>5 DEF ProfileAwareStep
  <2> QED
    BY <1>1, <1>2, <1>3, <1>5, <2>1 DEF ExperimentIInv, PhaseAgrees, Started
<1> QED
  BY <1>4, <1>5

LEMMA BaselineStepOfExperiment ==
  ASSUME ExperimentIInv, ConventionalStep PROVE ExperimentIInv'
<1>1. /\ phase = "conventional_retry" /\ CR!Next /\ UNCHANGED <<lossCount, paVars>>
      /\ paStep = "done" /\ crStep # "done" /\ BaselineIInv /\ faulted \subseteq Intent
      /\ DOMAIN summary = {"profile_aware"} /\ summary["profile_aware"] = AwareSummary
      /\ lossCount \in 0 .. WorkloadSize /\ Cardinality(faulted) = lossCount
  BY DEF ConventionalStep, ExperimentIInv, PhaseAgrees, Started
<1>2. faulted' = faulted /\ paStep' = "done"
  BY <1>1 DEF CR!Next, CR!SubmitAnswered, CR!SubmitLost, CR!Retry, CR!Finish, paVars
<1>3. AwareIInv' /\ BaselineIInv'
  BY <1>1, <1>2, AwareUntouched, BaselineStepIInv DEF ExperimentIInv
<1>4. AwareSummary' = AwareSummary
  BY <1>1 DEF AwareSummary
<1>5. CASE crStep' = "done"
  <2>1. /\ phase' = "compared"
        /\ Summarize("conventional_retry", crEffects, crRecognized, 0)
    BY <1>5 DEF ConventionalStep
  <2>2. crStep = "submit" /\ crCursor = WorkloadSize + 1
    BY <1>1, <1>5 DEF CR!Next, CR!SubmitAnswered, CR!SubmitLost, CR!Retry, CR!Finish
  <2>3. /\ Len(crEffects) = WorkloadSize + lossCount
        /\ DuplicateCount(crEffects) = lossCount
        /\ Cardinality(DOMAIN crEffects \ crRecognized) = lossCount
    BY <1>1, <2>2, BaselineCompletes
  <2>4. /\ DOMAIN summary' = {"profile_aware", "conventional_retry"}
        /\ summary'["profile_aware"] = AwareSummary
        /\ summary'["conventional_retry"] = BaselineSummary
    BY <1>1, <2>1, <2>3 DEF Summarize, BaselineSummary
  <2>5. BaselineSummary' = BaselineSummary
    BY <1>1 DEF BaselineSummary
  <2> QED
    BY <1>1, <1>2, <1>3, <1>4, <1>5, <2>1, <2>4, <2>5
    DEF ExperimentIInv, PhaseAgrees, Started
<1>6. CASE crStep' # "done"
  <2>1. UNCHANGED <<phase, summary>>
    BY <1>6 DEF ConventionalStep
  <2> QED
    BY <1>1, <1>2, <1>3, <1>4, <1>6, <2>1 DEF ExperimentIInv, PhaseAgrees, Started
<1> QED
  BY <1>5, <1>6

(***************************************************************************)
(* In every state of an experiment both runs satisfy their invariants, and  *)
(* the phase says where they stand and what has been summarised.            *)
(***************************************************************************)
THEOREM Invariance == Spec => []ExperimentIInv
<1>1. ASSUME ExperimentIInv, [Next]_vars PROVE ExperimentIInv'
  <2>1. CASE UNCHANGED vars
    <3>1. UNCHANGED <<phase, lossCount, faulted, summary, paVars, crVars>>
      BY <2>1 DEF vars
    <3>2. AwareIInv' /\ BaselineIInv'
      BY <1>1, <3>1, AwareUntouched, BaselineUntouched DEF ExperimentIInv
    <3>3. PhaseAgrees'
      BY <1>1, <3>1, StartUntouched
      DEF ExperimentIInv, PhaseAgrees, Started, paVars, crVars, AwareSummary,
          BaselineSummary
    <3> QED
      BY <1>1, <3>1, <3>2, <3>3 DEF ExperimentIInv
  <2> QED
    BY <1>1, <2>1, SelectIInv, RejectIInv, AwareStepOfExperiment, BaselineStepOfExperiment
    DEF Next
<1> QED
  BY <1>1, ExperimentInit, PTL DEF Spec

(***************************************************************************)
(* The variables of the experiment and of both runs keep their types; no    *)
(* figure of a summary is ever negative.                                    *)
(***************************************************************************)
THEOREM TypeCorrect == Spec => []TypeOK
<1>1. ASSUME ExperimentIInv PROVE TypeOK
  <2>1. PA!TypeOK /\ CR!TypeOK
    BY <1>1 DEF ExperimentIInv, AwareIInv, BaselineIInv
  <2>2. phase \in Started => AwareSummary \in Summary /\ BaselineSummary \in Summary
    <3>1. phase \in Started => lossCount \in Nat /\ WorkloadSize + lossCount \in Nat
      BY <1>1, WorkloadSizeNat DEF ExperimentIInv, PhaseAgrees
    <3> QED
      BY <3>1, WorkloadSizeNat DEF AwareSummary, BaselineSummary, Summary
  <2>3. /\ DOMAIN summary \subseteq {"profile_aware", "conventional_retry"}
        /\ \A v \in DOMAIN summary : summary[v] \in Summary
    BY <1>1, <2>2 DEF ExperimentIInv, PhaseAgrees, Started
  <2>4. phase \in {"select", "rejected"} \cup Started
    BY <1>1 DEF ExperimentIInv, PhaseAgrees
  <2> QED
    BY <1>1, <2>1, <2>3, <2>4 DEF TypeOK, ExperimentIInv, Started
<1> QED
  BY <1>1, Invariance, PTL

(***************************************************************************)
(* In an experiment no intent of the profile-aware run (run_profile_aware)  *)
(* ever has two effects and its reconciliation assertion never fails, for   *)
(* every workload and selection of losses.                                  *)
(***************************************************************************)
THEOREM NeverPaysTwice == Spec => []AwarePaysOnce
<1>1. ExperimentIInv => AwarePaysOnce
  BY AwarePaidOnce DEF ExperimentIInv, AwarePaysOnce
<1> QED
  BY <1>1, Invariance, PTL

(***************************************************************************)
(* The completed profile-aware run has paid every intent, recognised every  *)
(* effect, and reconciled as many outcomes as responses were lost.          *)
(***************************************************************************)
THEOREM CompletedRunIsSettled == Spec => []AwareSettles
<1>1. ExperimentIInv => AwareSettles
  BY AwareSettled DEF ExperimentIInv, AwareSettles
<1> QED
  BY <1>1, Invariance, PTL

(***************************************************************************)
(* In an experiment the profile-aware run creates no external effect while  *)
(* one is not recognised.                                                   *)
(***************************************************************************)
THEOREM AmbiguityBlocksNewEffects == Spec => AwareReconcilesFirst
<1>1. ExperimentIInv /\ [Next]_vars
        => [DOMAIN paEffects \ paRecognized # {} => paEffects' = paEffects]_vars
  <2> SUFFICES ASSUME ExperimentIInv, Next, DOMAIN paEffects \ paRecognized # {}
               PROVE  paEffects' = paEffects
    BY DEF vars
  <2>1. CASE ProfileAwareStep
    BY <2>1, AwareStepReconcilesFirst DEF ProfileAwareStep, ExperimentIInv
  <2>2. CASE SelectFaulted \/ RejectLossCount \/ ConventionalStep
    BY <2>2 DEF SelectFaulted, RejectLossCount, ConventionalStep, paVars
  <2> QED
    BY <2>1, <2>2 DEF Next
<1> QED
  BY <1>1, Invariance, PTL DEF Spec, AwareReconcilesFirst

(***************************************************************************)
(* At any point of the baseline's run (run_conventional_retry) every lost   *)
(* response behind it was paid twice, every other intent once, and what it  *)
(* does not know of are the lost first attempts: for every workload and     *)
(* every set of losses.                                                     *)
(***************************************************************************)
THEOREM BaselinePaysEveryLossTwice == Spec => []BaselinePaysLossesTwice
<1>1. ExperimentIInv => BaselinePaysLossesTwice
  BY DEF ExperimentIInv, BaselineIInv
<1> QED
  BY <1>1, Invariance, PTL

(***************************************************************************)
(* The comparison of the two summaries (run_experiment) measures the        *)
(* injected losses and nothing else, for every workload, loss count and     *)
(* selection.                                                               *)
(***************************************************************************)
THEOREM ComparisonMeasuresTheLosses == Spec => []GapsMeasureTheLosses
<1>1. ASSUME ExperimentIInv PROVE GapsMeasureTheLosses
  <2> SUFFICES ASSUME phase = "compared"
               PROVE  /\ DuplicateGap = lossCount
                      /\ UnrecognizedGap = lossCount
                      /\ DetectedGaps = {} <=> lossCount = 0
                      /\ summary["profile_aware"] = AwareSummary
                      /\ summary["conventional_retry"].effects = WorkloadSize + lossCount
    BY DEF GapsMeasureTheLosses, AwareSummary
  <2>1. /\ lossCount \in Nat
        /\ summary["profile_aware"] = AwareSummary
        /\ summary["conventional_retry"] = BaselineSummary
    BY <1>1, WorkloadSizeNat DEF ExperimentIInv, PhaseAgrees, Started
  <2>2. DuplicateGap = lossCount /\ UnrecognizedGap = lossCount
    BY <2>1 DEF DuplicateGap, UnrecognizedGap, AwareSummary, BaselineSummary
  <2>3. DetectedGaps = {} <=> lossCount = 0
    BY <2>1, <2>2 DEF DetectedGaps
  <2> QED
    BY <2>1, <2>2, <2>3 DEF BaselineSummary
<1> QED
  BY <1>1, Invariance, PTL

-----------------------------------------------------------------------------
(* The evidence.  Beside what the run has paid, the invariant says what it  *)
(* has recorded: block after block what the portable check rebuilds, and    *)
(* every event of every processed intent once.                              *)

\* What the portable check expects of one intent.
Block(i) ==
  IF i \in faulted THEN <<EventOf(i, "OUTCOME_UNKNOWN"), Reconciliation(i, i)>>
  ELSE <<EventOf(i, "CONFIRMED_SUCCEEDED_FROM_RESPONSE")>>

\* A function that holds for each intent the blocks up to its own.
Flattens(f, blocks) ==
  /\ DOMAIN f = DOMAIN blocks
  /\ \A i \in DOMAIN blocks : f[i] = IF i = 1 THEN blocks[i] ELSE f[i - 1] \o blocks[i]

Blocks == [i \in Intent |-> Block(i)]

\* An event with the effect the artifact adds to it.
Told(e) ==
  IF e.event = "CONFIRMED_SUCCEEDED_FROM_RECONCILIATION" THEN Reconciliation(e.intent, e.intent)
  ELSE e

EventsFollowBlocks ==
  \A f : Flattens(f, Blocks) =>
    [n \in DOMAIN paEvents |-> Told(paEvents[n])] =
      (IF paCursor = 1 THEN << >> ELSE f[paCursor - 1])
        \o (IF paStep = "unknown" THEN <<EventOf(paCursor, "OUTCOME_UNKNOWN")>> ELSE << >>)

\* What has happened to an intent so far.
Happened ==
  [i \in Intent |->
    IF i \notin faulted
    THEN IF i < paCursor THEN {"CONFIRMED_SUCCEEDED_FROM_RESPONSE"} ELSE {}
    ELSE IF i < paCursor THEN {"OUTCOME_UNKNOWN", "CONFIRMED_SUCCEEDED_FROM_RECONCILIATION"}
    ELSE IF i = paCursor /\ paStep = "unknown" THEN {"OUTCOME_UNKNOWN"} ELSE {}]

EventsOnce ==
  /\ \A j, k \in DOMAIN paEvents : paEvents[j] = paEvents[k] => j = k
  /\ \A k \in DOMAIN paEvents : paEvents[k].event \in Happened[paEvents[k].intent]
  /\ \A i \in Intent : \A what \in Happened[i] :
       \E k \in DOMAIN paEvents : paEvents[k] = EventOf(i, what)

EvidenceIInv == EventsFollowBlocks /\ EventsOnce

EvidenceEvent ==
  {EventOf(i, what) : i \in Intent, what \in {"OUTCOME_UNKNOWN", "CONFIRMED_SUCCEEDED_FROM_RESPONSE"}}
    \cup {Reconciliation(i, i) : i \in Intent}

\* One line of evidence after another: an event more is a line more.
LEMMA OneMoreEvent ==
  ASSUME NEW S, NEW s \in Seq(S), NEW e \in S
  PROVE  [n \in DOMAIN Append(s, e) |-> Told(Append(s, e)[n])] =
           [n \in DOMAIN s |-> Told(s[n])] \o <<Told(e)>>
<1> DEFINE t == [n \in DOMAIN s |-> Told(s[n])]
           R == {Told(x) : x \in S}
<1>1. t \in Seq(R) /\ Len(t) = Len(s)
  BY DEF Told
<1>2. DOMAIN Append(s, e) = 1 .. Len(s) + 1
  OBVIOUS
<1>3. ASSUME NEW n \in 1 .. Len(s) + 1
      PROVE  Told(Append(s, e)[n]) = (t \o <<Told(e)>>)[n]
  <2>1. CASE n = Len(s) + 1
    BY <1>1, <2>1
  <2>2. CASE n # Len(s) + 1
    <3>1. n \in 1 .. Len(s) /\ Append(s, e)[n] = s[n] /\ t[n] = Told(s[n])
      BY <2>2
    <3> HIDE DEF t
    <3>2. (t \o <<Told(e)>>)[n] = t[n]
      BY <1>1, <3>1
    <3> QED
      BY <3>1, <3>2
  <2> QED
    BY <2>1, <2>2
<1> HIDE DEF t
<1>4. t \o <<Told(e)>> = [n \in 1 .. Len(s) + 1 |-> (t \o <<Told(e)>>)[n]]
  BY <1>1
<1>5. [n \in DOMAIN Append(s, e) |-> Told(Append(s, e)[n])] =
        [n \in 1 .. Len(s) + 1 |-> (t \o <<Told(e)>>)[n]]
  BY <1>2, <1>3
<1> QED
  BY <1>4, <1>5 DEF t

\* The blocks of the intents up to one of them are a sequence.
LEMMA FlattenedIsSeq ==
  ASSUME NEW f, Flattens(f, Blocks)
  PROVE  \A i \in Intent : f[i] \in Seq(EvidenceEvent)
<1> DEFINE Wrong == {i \in Intent : f[i] \notin Seq(EvidenceEvent)}
<1> SUFFICES ASSUME Wrong # {} PROVE FALSE
  OBVIOUS
<1>1. Wrong \in SUBSET Nat
  BY WorkloadSizeNat DEF Intent
<1>2. PICK m \in Wrong : \A n \in Wrong : m <= n
  BY <1>1, LeastNatural
<1>3. Block(m) \in Seq(EvidenceEvent)
  <2>1. CASE m \in faulted
    BY <2>1 DEF Block, EvidenceEvent
  <2>2. CASE m \notin faulted
    BY <2>2 DEF Block, EvidenceEvent
  <2> QED
    BY <2>1, <2>2
<1>4. f[m] = IF m = 1 THEN Block(m) ELSE f[m - 1] \o Block(m)
  BY DEF Flattens, Blocks
<1>5. m # 1 => m - 1 \in Intent /\ m - 1 \notin Wrong
  BY <1>1, <1>2, WorkloadSizeNat DEF Intent
<1>6. m # 1 => f[m - 1] \in Seq(EvidenceEvent)
  BY <1>5
<1>7. f[m] \in Seq(EvidenceEvent)
  BY <1>3, <1>4, <1>6
<1> QED
  BY <1>7

\* A run that starts has recorded nothing.
LEMMA EvidenceStart == PA!StartRun => EvidenceIInv
<1> SUFFICES ASSUME PA!StartRun PROVE EvidenceIInv
  OBVIOUS
<1>1. paCursor = 1 /\ paStep = "submit" /\ paEvents = << >>
  BY DEF PA!StartRun
<1>2. EventsFollowBlocks
  BY <1>1 DEF EventsFollowBlocks
<1>3. EventsOnce
  BY <1>1, WorkloadSizeNat DEF EventsOnce, Happened, Intent
<1> QED
  BY <1>2, <1>3 DEF EvidenceIInv

\* Recording what has not happened to the intent before.
LEMMA OnceMore ==
  ASSUME PA!TypeOK, EventsOnce, NEW c \in Intent, NEW what,
         EventOf(c, what) \in PA!Event, what \notin Happened[c],
         paEvents' = Append(paEvents, EventOf(c, what)),
         Happened' = [i \in Intent |-> Happened[i] \cup (IF i = c THEN {what} ELSE {})]
  PROVE  EventsOnce'
<1> DEFINE e == EventOf(c, what)
<1>1. /\ paEvents \in Seq(PA!Event) /\ e \in PA!Event
      /\ e.intent = c /\ e.event = what
  BY SameIntent DEF PA!TypeOK, EventOf
<1>2. /\ DOMAIN paEvents = 1 .. Len(paEvents) /\ Len(paEvents) \in Nat
      /\ DOMAIN paEvents' = 1 .. Len(paEvents) + 1
      /\ \A k \in DOMAIN paEvents : paEvents'[k] = paEvents[k] /\ k \in DOMAIN paEvents'
      /\ paEvents'[Len(paEvents) + 1] = e
  BY <1>1
<1>3. \A k \in DOMAIN paEvents :
        paEvents[k].event \in Happened[paEvents[k].intent] /\ paEvents[k].intent \in Intent
  <2>1. \A k \in DOMAIN paEvents : paEvents[k] \in PA!Event
    BY <1>1
  <2> QED
    BY <2>1, SameIntent DEF EventsOnce, PA!Event
<1>4. \A k \in DOMAIN paEvents : paEvents[k] # e
  BY <1>1, <1>3
<1> HIDE DEF e
<1>5. \A j, k \in DOMAIN paEvents' : paEvents'[j] = paEvents'[k] => j = k
  BY <1>2, <1>4 DEF EventsOnce
<1>6. \A k \in DOMAIN paEvents' : paEvents'[k].event \in Happened'[paEvents'[k].intent]
  BY <1>1, <1>2, <1>3
<1>7. ASSUME NEW i \in Intent, NEW w \in Happened'[i]
      PROVE  \E k \in DOMAIN paEvents' : paEvents'[k] = EventOf(i, w)
  <2>1. CASE w \in Happened[i]
    BY <1>2, <2>1 DEF EventsOnce
  <2>2. CASE i = c /\ w = what
    BY <1>2, <2>2 DEF e
  <2> QED
    BY <2>1, <2>2
<1> QED
  BY <1>5, <1>6, <1>7 DEF EventsOnce

\* Recording an event appends what the check expects of it.
LEMMA TellOneMore ==
  ASSUME PA!TypeOK, NEW e \in PA!Event, paEvents' = Append(paEvents, e)
  PROVE  [n \in DOMAIN paEvents' |-> Told(paEvents'[n])] =
           [n \in DOMAIN paEvents |-> Told(paEvents[n])] \o <<Told(e)>>
<1>1. paEvents \in Seq(PA!Event)
  BY DEF PA!TypeOK
<1> QED
  BY <1>1, OneMoreEvent

\* The blocks up to the next intent.
LEMMA FlattenOneMore ==
  ASSUME NEW f, Flattens(f, Blocks), NEW c \in Intent
  PROVE  /\ f[c] = (IF c = 1 THEN << >> ELSE f[c - 1]) \o Block(c)
         /\ (IF c = 1 THEN << >> ELSE f[c - 1]) \in Seq(EvidenceEvent)
<1>1. f[c] = IF c = 1 THEN Block(c) ELSE f[c - 1] \o Block(c)
  BY DEF Flattens, Blocks
<1>2. Block(c) \in Seq(EvidenceEvent)
  <2>1. CASE c \in faulted
    BY <2>1 DEF Block, EvidenceEvent
  <2>2. CASE c \notin faulted
    BY <2>2 DEF Block, EvidenceEvent
  <2> QED
    BY <2>1, <2>2
<1>3. CASE c = 1
  BY <1>1, <1>2, <1>3
<1>4. CASE c # 1
  <2>1. c - 1 \in Intent
    BY <1>4, WorkloadSizeNat DEF Intent
  <2> QED
    BY <1>1, <1>4, <2>1, FlattenedIsSeq
<1> QED
  BY <1>3, <1>4

\* Two more, one after the other.
LEMMA AppendTwo ==
  ASSUME NEW S, NEW p \in Seq(S), NEW a \in S, NEW b \in S
  PROVE  (p \o <<a>>) \o <<b>> = p \o <<a, b>>
<1> DEFINE l == (p \o <<a>>) \o <<b>>
           r == p \o <<a, b>>
<1>1. l \in Seq(S) /\ r \in Seq(S) /\ Len(l) = Len(p) + 2 /\ Len(r) = Len(p) + 2
  OBVIOUS
<1>2. ASSUME NEW n \in 1 .. Len(p) + 2 PROVE l[n] = r[n]
  <2>1. CASE n \in 1 .. Len(p)
    BY <2>1
  <2>2. CASE n = Len(p) + 1
    BY <2>2
  <2>3. CASE n = Len(p) + 2
    BY <2>3
  <2> QED
    BY <2>1, <2>2, <2>3
<1> HIDE DEF l, r
<1>3. l = [n \in 1 .. Len(p) + 2 |-> l[n]] /\ r = [n \in 1 .. Len(p) + 2 |-> r[n]]
  BY <1>1
<1>4. l = r
  BY <1>2, <1>3
<1> QED
  BY <1>4 DEF l, r

LEMMA EvidenceStep == AwareIInv /\ EvidenceIInv /\ [PA!Next]_(PA!vars) => EvidenceIInv'
<1> SUFFICES ASSUME AwareIInv, EvidenceIInv, [PA!Next]_(PA!vars) PROVE EvidenceIInv'
  OBVIOUS
<1> DEFINE Lines == [n \in DOMAIN paEvents |-> Told(paEvents[n])]
           Prefix(f, c) == IF c = 1 THEN << >> ELSE f[c - 1]
<1>0. /\ PA!TypeOK /\ EventsOnce /\ paCursor \in 1 .. WorkloadSize + 1
      /\ WorkloadSize \in Nat
  BY WorkloadSizeNat DEF AwareIInv, EvidenceIInv, PA!TypeOK
<1>1. CASE PA!SubmitAnswered
  <2> DEFINE what == "CONFIRMED_SUCCEEDED_FROM_RESPONSE"
  <2>1. /\ paCursor \in Intent \ faulted /\ paStep = "submit" /\ paStep' = "submit"
        /\ paCursor' = paCursor + 1 /\ faulted' = faulted
        /\ paEvents' = Append(paEvents, EventOf(paCursor, what))
    BY <1>1, SameIntent DEF PA!SubmitAnswered, PA!Record, EventOf
  <2>2. EventOf(paCursor, what) \in PA!Event
    BY <2>1, SameIntent DEF EventOf, PA!Event
  <2>3. EventsOnce'
    <3>1. what \notin Happened[paCursor]
      BY <2>1 DEF Happened, Intent
    <3>2. Happened' = [i \in Intent |-> Happened[i] \cup (IF i = paCursor THEN {what} ELSE {})]
      BY <1>0, <2>1 DEF Happened, Intent
    <3> QED
      BY <1>0, <2>1, <2>2, <3>1, <3>2, OnceMore
  <2>4. EventsFollowBlocks'
    <3>1. Blocks' = Blocks
      BY <2>1 DEF Blocks, Block
    <3> SUFFICES ASSUME NEW f, Flattens(f, Blocks)
                 PROVE  Lines' = Prefix(f, paCursor + 1) \o << >>
      BY <2>1, <3>1 DEF EventsFollowBlocks
    <3>2. Lines = Prefix(f, paCursor) \o << >>
      BY <2>1 DEF EvidenceIInv, EventsFollowBlocks
    <3>3. /\ f[paCursor] = Prefix(f, paCursor) \o Block(paCursor)
          /\ Prefix(f, paCursor) \in Seq(EvidenceEvent)
          /\ f[paCursor] \in Seq(EvidenceEvent)
      BY <2>1, FlattenOneMore, FlattenedIsSeq
    <3>4. Lines' = Lines \o <<Told(EventOf(paCursor, what))>>
      BY <1>0, <2>1, <2>2, TellOneMore
    <3>5. /\ Told(EventOf(paCursor, what)) = EventOf(paCursor, what)
          /\ Block(paCursor) = <<EventOf(paCursor, what)>>
      BY <2>1 DEF Told, EventOf, Block
    <3>6. Prefix(f, paCursor + 1) = f[paCursor]
      BY <2>1 DEF Intent
    <3> HIDE DEF Lines, Prefix
    <3>7. Lines = Prefix(f, paCursor)
      BY <3>2, <3>3
    <3>8. f[paCursor] \o << >> = f[paCursor]
      BY <3>3
    <3> QED
      BY <3>3, <3>4, <3>5, <3>6, <3>7, <3>8
  <2> QED
    BY <2>3, <2>4 DEF EvidenceIInv
<1>2. CASE PA!SubmitLost
  <2> DEFINE what == "OUTCOME_UNKNOWN"
  <2>1. /\ paCursor \in Intent /\ paCursor \in faulted
        /\ paStep = "submit" /\ paStep' = "unknown"
        /\ paCursor' = paCursor /\ faulted' = faulted
        /\ paEvents' = Append(paEvents, EventOf(paCursor, what))
    BY <1>2, SameIntent DEF PA!SubmitLost, PA!Record, EventOf, AwareIInv, PA!TypeOK
  <2>2. EventOf(paCursor, what) \in PA!Event
    BY <2>1, SameIntent DEF EventOf, PA!Event
  <2>3. EventsOnce'
    <3>1. what \notin Happened[paCursor]
      BY <2>1 DEF Happened, Intent
    <3>2. Happened' = [i \in Intent |-> Happened[i] \cup (IF i = paCursor THEN {what} ELSE {})]
      BY <1>0, <2>1 DEF Happened, Intent
    <3> QED
      BY <1>0, <2>1, <2>2, <3>1, <3>2, OnceMore
  <2>4. EventsFollowBlocks'
    <3>1. Blocks' = Blocks
      BY <2>1 DEF Blocks, Block
    <3> SUFFICES ASSUME NEW f, Flattens(f, Blocks)
                 PROVE  Lines' = Prefix(f, paCursor) \o <<EventOf(paCursor, what)>>
      BY <2>1, <3>1 DEF EventsFollowBlocks
    <3>2. Lines = Prefix(f, paCursor) \o << >>
      BY <2>1 DEF EvidenceIInv, EventsFollowBlocks
    <3>3. Prefix(f, paCursor) \in Seq(EvidenceEvent)
      BY <2>1, FlattenOneMore
    <3>4. Lines' = Lines \o <<Told(EventOf(paCursor, what))>>
      BY <1>0, <2>1, <2>2, TellOneMore
    <3>5. Told(EventOf(paCursor, what)) = EventOf(paCursor, what)
      BY DEF Told, EventOf
    <3> HIDE DEF Lines, Prefix
    <3>6. Lines = Prefix(f, paCursor)
      BY <3>2, <3>3
    <3> QED
      BY <3>4, <3>5, <3>6
  <2> QED
    BY <2>3, <2>4 DEF EvidenceIInv
<1>3. CASE PA!Reconcile
  <2> DEFINE what == "CONFIRMED_SUCCEEDED_FROM_RECONCILIATION"
  <2>1. /\ paStep = "unknown" /\ paCursor \in faulted /\ paCursor \in Intent
        /\ PA!LookupByIntent(paCursor) = {paCursor}
    BY <1>3, LookupIsSingular DEF PA!Reconcile, AwareIInv, StepAgrees
  <2>2. /\ paStep' = "submit" /\ paCursor' = paCursor + 1 /\ faulted' = faulted
        /\ paEvents' = Append(paEvents, EventOf(paCursor, what))
    BY <1>3, <2>1 DEF PA!Reconcile, PA!Record, EventOf
  <2>3. EventOf(paCursor, what) \in PA!Event
    BY <2>1, SameIntent DEF EventOf, PA!Event
  <2>4. EventsOnce'
    <3>1. what \notin Happened[paCursor]
      BY <2>1 DEF Happened, Intent
    <3>2. Happened' = [i \in Intent |-> Happened[i] \cup (IF i = paCursor THEN {what} ELSE {})]
      BY <1>0, <2>1, <2>2 DEF Happened, Intent
    <3> QED
      BY <1>0, <2>1, <2>2, <2>3, <3>1, <3>2, OnceMore
  <2>5. EventsFollowBlocks'
    <3>1. Blocks' = Blocks
      BY <2>2 DEF Blocks, Block
    <3> SUFFICES ASSUME NEW f, Flattens(f, Blocks)
                 PROVE  Lines' = Prefix(f, paCursor + 1) \o << >>
      BY <2>2, <3>1 DEF EventsFollowBlocks
    <3> DEFINE p == Prefix(f, paCursor)
               unknown == EventOf(paCursor, "OUTCOME_UNKNOWN")
               told == Reconciliation(paCursor, paCursor)
    <3>2. Lines = p \o <<unknown>>
      BY <2>1 DEF EvidenceIInv, EventsFollowBlocks
    <3>3. f[paCursor] = p \o Block(paCursor) /\ p \in Seq(EvidenceEvent)
          /\ f[paCursor] \in Seq(EvidenceEvent)
      BY <2>1, FlattenOneMore, FlattenedIsSeq
    <3>4. Lines' = Lines \o <<Told(EventOf(paCursor, what))>>
      BY <1>0, <2>2, <2>3, TellOneMore
    <3>5. Told(EventOf(paCursor, what)) = told /\ Block(paCursor) = <<unknown, told>>
      BY <2>1 DEF Told, EventOf, Block
    <3>6. Prefix(f, paCursor + 1) = f[paCursor]
      BY <2>1 DEF Intent
    <3>7. unknown \in EvidenceEvent /\ told \in EvidenceEvent
      BY <2>1 DEF EvidenceEvent
    <3> HIDE DEF Lines, Prefix, p, unknown, told
    <3>8. (p \o <<unknown>>) \o <<told>> = p \o <<unknown, told>>
      BY <3>3, <3>7, AppendTwo
    <3>9. f[paCursor] \o << >> = f[paCursor]
      BY <3>3
    <3> QED
      BY <3>2, <3>3, <3>4, <3>5, <3>6, <3>8, <3>9
  <2> QED
    BY <2>4, <2>5 DEF EvidenceIInv
<1>4. CASE PA!Finish \/ UNCHANGED PA!vars
  <2>1. /\ UNCHANGED <<faulted, paCursor, paEvents>>
        /\ paStep' = "unknown" <=> paStep = "unknown"
    BY <1>4 DEF PA!Finish, PA!vars, PA!loopVars
  <2> QED
    BY <2>1 DEF EvidenceIInv, EventsFollowBlocks, EventsOnce, Blocks, Block, Happened
<1> QED
  BY <1>1, <1>2, <1>3, <1>4 DEF PA!Next

\* In the experiment the run's evidence is touched by the run's own steps only; the
\* selection finds a run that has recorded nothing.
LEMMA EvidenceOfExperiment ==
  /\ Init => EvidenceIInv
  /\ ExperimentIInv /\ EvidenceIInv /\ [Next]_vars => EvidenceIInv'
<1>1. Init => EvidenceIInv
  BY EvidenceStart DEF Init
<1>2. ASSUME ExperimentIInv, EvidenceIInv, [Next]_vars PROVE EvidenceIInv'
  <2>1. CASE SelectFaulted
    <3>1. PA!StartRun'
      BY <1>2, <2>1, StartUntouched DEF ExperimentIInv, PhaseAgrees, Started, SelectFaulted
    <3>2. (PA!StartRun => EvidenceIInv)'
      BY EvidenceStart, PTL
    <3> QED
      BY <3>1, <3>2
  <2>2. CASE ProfileAwareStep
    BY <1>2, <2>2, EvidenceStep DEF ExperimentIInv, ProfileAwareStep
  <2>3. CASE RejectLossCount \/ ConventionalStep \/ UNCHANGED vars
    <3>1. UNCHANGED <<paVars, faulted>>
      BY <2>3 DEF RejectLossCount, ConventionalStep, vars, CR!Next, CR!SubmitAnswered,
                  CR!SubmitLost, CR!Retry, CR!Finish
    <3>2. UNCHANGED PA!vars
      BY <3>1 DEF paVars, PA!vars, PA!loopVars
    <3> QED
      BY <1>2, <3>2, EvidenceStep DEF ExperimentIInv
  <2> QED
    BY <1>2, <2>1, <2>2, <2>3 DEF Next
<1> QED
  BY <1>1, <1>2

\* FlattenSeq, as a function that holds the concatenation of the first members.
LEMMA FlattenSeqFlattens ==
  ASSUME NEW blocks, NEW n \in Nat \ {0}, DOMAIN blocks = 1 .. n, Len(blocks) = n
  PROVE  \E f : Flattens(f, blocks) /\ FlattenSeq(blocks) = f[n]
<1> DEFINE Fold(m, h) == [i \in 1 .. m |-> IF i = 1 THEN blocks[i] ELSE h[i - 1] \o blocks[i]]
           Missing == {m \in Nat : ~\E h : h = Fold(m, h)}
           flatten == CHOOSE h : h = Fold(n, h)
<1>1. Missing = {}
  <2> SUFFICES ASSUME Missing # {} PROVE FALSE
    OBVIOUS
  <2>1. PICK m \in Missing : \A k \in Missing : m <= k
    BY LeastNatural
  <2>2. CASE m = 0
    <3> DEFINE none == [i \in 1 .. 0 |-> 0]
    <3>1. none = Fold(0, none)
      OBVIOUS
    <3> QED
      BY <2>1, <2>2, <3>1
  <2>3. CASE m # 0
    <3>1. m - 1 \in Nat /\ m - 1 \notin Missing
      <4>1. m \in Nat
        OBVIOUS
      <4> HIDE DEF Missing
      <4> QED
        BY <2>1, <2>3, <4>1
    <3>2. PICK h : h = Fold(m - 1, h)
      BY <3>1
    <3> DEFINE g == [i \in 1 .. m |-> IF i = m THEN (IF m = 1 THEN blocks[m]
                                                     ELSE h[m - 1] \o blocks[m])
                                      ELSE h[i]]
    <3>3. ASSUME NEW i \in 1 .. m
          PROVE  g[i] = IF i = 1 THEN blocks[i] ELSE g[i - 1] \o blocks[i]
      <4>1. CASE i = m
        <5>1. m # 1 => g[m - 1] = h[m - 1]
          BY <2>3
        <5> QED
          BY <4>1, <5>1
      <4>2. CASE i # m
        <5>1. i \in 1 .. m - 1 /\ g[i] = h[i] /\ (i # 1 => g[i - 1] = h[i - 1])
          BY <4>2
        <5>2. h[i] = IF i = 1 THEN blocks[i] ELSE h[i - 1] \o blocks[i]
          BY <3>2, <5>1
        <5> QED
          BY <5>1, <5>2
      <4> QED
        BY <4>1, <4>2
    <3>4. g = [i \in 1 .. m |-> g[i]]
      OBVIOUS
    <3> HIDE DEF g
    <3>5. g = Fold(m, g)
      BY <3>3, <3>4
    <3> QED
      BY <2>1, <3>5
  <2> QED
    BY <2>2, <2>3
<1>2. \E h : h = Fold(n, h)
  <2> HIDE DEF Fold
  <2> QED
    BY <1>1
<1>3. FlattenSeq(blocks) = flatten[n]
  BY DEF FlattenSeq
<1>4. flatten = Fold(n, flatten)
  <2> HIDE DEF Fold
  <2> QED
    BY <1>2
<1> HIDE DEF flatten
<1>5. Flattens(flatten, blocks)
  BY <1>4 DEF Flattens
<1> QED
  BY <1>3, <1>5

(***************************************************************************)
(* In every state of an experiment the invariants of both runs hold, and    *)
(* the profile-aware run has recorded what the portable check expects of    *)
(* the intents behind it, each event once.                                  *)
(***************************************************************************)
THEOREM EvidenceInvariance == Spec => []EvidenceIInv
<1>1. Spec => [](ExperimentIInv)
  BY Invariance
<1>2. Init => EvidenceIInv
  BY EvidenceOfExperiment
<1>3. ExperimentIInv /\ EvidenceIInv /\ [Next]_vars => EvidenceIInv'
  BY EvidenceOfExperiment
<1> QED
  BY <1>1, <1>2, <1>3, PTL DEF Spec

\* What is left when an experiment has been compared.
LEMMA Compared ==
  ASSUME ExperimentIInv, EvidenceIInv, phase = "compared"
  PROVE  /\ WorkloadSize \in Nat /\ lossCount \in 0 .. WorkloadSize
         /\ faulted \subseteq Intent /\ Cardinality(faulted) = lossCount
         /\ summary["profile_aware"] = AwareSummary
         /\ DOMAIN paEffects = Intent /\ Len(paEffects) = WorkloadSize
         /\ \A e \in Intent : paEffects[e] = [intent |-> e, key |-> e]
         /\ paEvents \in Seq(PA!Event) /\ paStep = "done" /\ paCursor = WorkloadSize + 1
         /\ Happened = [i \in Intent |->
              IF i \in faulted THEN {"OUTCOME_UNKNOWN", "CONFIRMED_SUCCEEDED_FROM_RECONCILIATION"}
              ELSE {"CONFIRMED_SUCCEEDED_FROM_RESPONSE"}]
<1>1. /\ WorkloadSize \in Nat /\ lossCount \in 0 .. WorkloadSize
      /\ faulted \subseteq Intent /\ Cardinality(faulted) = lossCount
      /\ summary["profile_aware"] = AwareSummary
      /\ paStep = "done" /\ paCursor = WorkloadSize + 1
  BY WorkloadSizeNat DEF ExperimentIInv, PhaseAgrees, Started, AwareIInv, StepAgrees
<1>2. /\ paEffects \in Seq([intent : Intent, key : Intent])
      /\ paEvents \in Seq(PA!Event)
      /\ Len(paEffects) = WorkloadSize
      /\ \A e \in DOMAIN paEffects : paEffects[e] = [intent |-> e, key |-> e]
  BY <1>1, SameIntent DEF ExperimentIInv, AwareIInv, PA!TypeOK, LedgerFollowsCursor, Committed
<1>3. DOMAIN paEffects = Intent
  BY <1>2 DEF Intent
<1>4. Happened = [i \in Intent |->
        IF i \in faulted THEN {"OUTCOME_UNKNOWN", "CONFIRMED_SUCCEEDED_FROM_RECONCILIATION"}
        ELSE {"CONFIRMED_SUCCEEDED_FROM_RESPONSE"}]
  BY <1>1 DEF Happened, Intent
<1> QED
  BY <1>1, <1>2, <1>3, <1>4

\* The events of the artifact are the recorded ones, told with their effects.
LEMMA EvidenceTellsTheEvents ==
  ASSUME ExperimentIInv, EvidenceIInv, phase = "compared"
  PROVE  AwareEvidence.events = [n \in DOMAIN paEvents |-> Told(paEvents[n])]
<1>1. ASSUME NEW n \in DOMAIN paEvents
      PROVE  (CHOOSE e \in DOMAIN paEffects : paEffects[e].intent = paEvents[n].intent)
                = paEvents[n].intent
  <2>1. paEvents[n] \in PA!Event
    BY Compared
  <2>2. paEvents[n].intent \in DOMAIN paEffects
    BY <2>1, Compared, SameIntent DEF PA!Event
  <2>3. \A e \in DOMAIN paEffects : paEffects[e].intent = e
    BY Compared
  <2> QED
    BY <2>2, <2>3
<1>2. AwareEvidence.events = [n \in DOMAIN paEvents |->
        IF paEvents[n].event = "CONFIRMED_SUCCEEDED_FROM_RECONCILIATION"
        THEN Reconciliation(paEvents[n].intent,
               CHOOSE e \in DOMAIN paEffects : paEffects[e].intent = paEvents[n].intent)
        ELSE paEvents[n]]
  BY DEF AwareEvidence, Payload
<1> QED
  BY <1>1, <1>2 DEF Told

LEMMA AwareEvidenceIsExpected ==
  ASSUME ExperimentIInv, EvidenceIInv, phase = "compared", WorkloadSize # 0
  PROVE  AwareEvidence = ExpectedPayload(WorkloadSize, faulted)
<1>1. AwareEvidence.events = ExpectedEvents(WorkloadSize, faulted)
  <2>1. /\ DOMAIN Blocks = 1 .. WorkloadSize /\ Len(Blocks) = WorkloadSize
        /\ WorkloadSize \in Nat \ {0} /\ WorkloadSize \in Intent
    BY WorkloadSizeNat DEF Blocks, Intent
  <2>2. ExpectedEvents(WorkloadSize, faulted) = FlattenSeq(Blocks)
    BY DEF ExpectedEvents, Blocks, Block, Intent
  <2>3. PICK f : Flattens(f, Blocks) /\ FlattenSeq(Blocks) = f[WorkloadSize]
    BY <2>1, FlattenSeqFlattens
  <2>4. [n \in DOMAIN paEvents |-> Told(paEvents[n])] =
          (IF paCursor = 1 THEN << >> ELSE f[paCursor - 1])
            \o (IF paStep = "unknown" THEN <<EventOf(paCursor, "OUTCOME_UNKNOWN")>> ELSE << >>)
    BY <2>3 DEF EvidenceIInv, EventsFollowBlocks
  <2>5. paCursor # 1 /\ paCursor - 1 = WorkloadSize /\ paStep # "unknown"
    BY <2>1, Compared
  <2>6. [n \in DOMAIN paEvents |-> Told(paEvents[n])] = f[WorkloadSize] \o << >>
    BY <2>4, <2>5
  <2>7. f[WorkloadSize] \o << >> = f[WorkloadSize]
    BY <2>1, <2>3, FlattenedIsSeq
  <2> QED
    BY <2>2, <2>3, <2>6, <2>7, EvidenceTellsTheEvents
<1>2. AwareEvidence.effects =
        [i \in 1 .. WorkloadSize |-> [effect |-> i, intent |-> i, key |-> i]]
  <2>1. AwareEvidence.effects = [e \in DOMAIN paEffects |->
          [effect |-> e, intent |-> paEffects[e].intent, key |-> paEffects[e].key]]
    BY DEF AwareEvidence, Payload
  <2>2. DOMAIN paEffects = 1 .. WorkloadSize
        /\ \A e \in 1 .. WorkloadSize : paEffects[e] = [intent |-> e, key |-> e]
    BY Compared DEF Intent
  <2> QED
    BY <2>1, <2>2
<1>3. AwareEvidence.summary =
        [intents |-> WorkloadSize, effects |-> WorkloadSize, duplicates |-> 0,
         lostResponses |-> Cardinality(faulted), reconciled |-> Cardinality(faulted),
         unrecognized |-> 0]
  BY Compared DEF AwareEvidence, Payload, AwareSummary
<1>4. AwareEvidence =
        [variant |-> "profile_aware", events |-> AwareEvidence.events,
         effects |-> AwareEvidence.effects, summary |-> AwareEvidence.summary]
  BY DEF AwareEvidence, Payload
<1> QED
  BY <1>1, <1>2, <1>3, <1>4 DEF ExpectedPayload

\* The positions of the events of a kind stand for the intents it has happened to.
LEMMA PositionsStandForIntents ==
  ASSUME ExperimentIInv, EvidenceIInv, phase = "compared", NEW what,
         NEW A, A = {i \in Intent : what \in Happened[i]}
  PROVE  LET events == AwareEvidence.events
             positions == PositionsOf(events, what)
         IN  /\ IntentsAt(events, positions) = A
             /\ Cardinality(positions) = Cardinality(A)
             /\ \A i \in A : Occurrences(events, positions, i) = 1
<1> DEFINE events == AwareEvidence.events
           positions == PositionsOf(events, what)
           intentOf == [k \in positions |-> events[k].intent]
<1>1. /\ DOMAIN events = DOMAIN paEvents
      /\ \A k \in DOMAIN paEvents : /\ events[k].event = paEvents[k].event
                                    /\ events[k].intent = paEvents[k].intent
  BY EvidenceTellsTheEvents DEF Told, Reconciliation
<1>2. \A k \in DOMAIN paEvents : /\ paEvents[k].intent \in Intent
                                 /\ paEvents[k] = EventOf(paEvents[k].intent, paEvents[k].event)
  <2>1. \A k \in DOMAIN paEvents : paEvents[k] \in PA!Event
    BY Compared
  <2> QED
    BY <2>1, SameIntent DEF PA!Event, EventOf
<1>3. \A k \in positions : /\ k \in DOMAIN paEvents /\ events[k].intent = paEvents[k].intent
                           /\ paEvents[k] = EventOf(events[k].intent, what)
                           /\ events[k].intent \in A
  BY <1>1, <1>2 DEF PositionsOf, EvidenceIInv, EventsOnce
<1>4. \A i \in A : \E k \in positions : events[k].intent = i
  <2> SUFFICES ASSUME NEW i \in A PROVE \E k \in positions : events[k].intent = i
    OBVIOUS
  <2>1. PICK k \in DOMAIN paEvents : paEvents[k] = EventOf(i, what)
    BY DEF EvidenceIInv, EventsOnce
  <2>2. paEvents[k].event = what /\ paEvents[k].intent = i
    BY <2>1 DEF EventOf
  <2> QED
    BY <1>1, <2>2 DEF PositionsOf
<1>5. \A j, k \in positions : events[j].intent = events[k].intent => j = k
  BY <1>3 DEF EvidenceIInv, EventsOnce
<1> HIDE DEF events, positions
<1>6. IntentsAt(events, positions) = A
  BY <1>3, <1>4 DEF IntentsAt
<1>7. Cardinality(positions) = Cardinality(A)
  <2>1. intentOf \in Bijection(positions, A)
    BY <1>3, <1>4, <1>5 DEF Bijection, Injection, Surjection, IsInjective
  <2>2. IsFiniteSet(Intent)
    BY WorkloadSizeNat, FS_Interval DEF Intent
  <2>3. IsFiniteSet(A)
    BY <2>2, FS_Subset
  <2>4. ExistsBijection(A, positions)
    BY <2>1, Fun_ExistsBijSymmetric DEF ExistsBijection
  <2> QED
    BY <2>3, <2>4, FS_Bijection DEF ExistsBijection
<1>8. ASSUME NEW i \in A PROVE Occurrences(events, positions, i) = 1
  <2>1. PICK k \in positions : events[k].intent = i
    BY <1>4
  <2>2. {j \in positions : events[j].intent = i} = {k}
    BY <1>5, <2>1
  <2> QED
    BY <2>2, FS_Singleton DEF Occurrences
<1> QED
  BY <1>6, <1>7, <1>8 DEF events, positions

\* By then the baseline has paid once more for every lost response.
LEMMA BaselineLedgerOfTheComparison ==
  ASSUME ExperimentIInv, phase = "compared"
  PROVE  DOMAIN crEffects = 1 .. WorkloadSize + lossCount
<1>1. /\ crStep = "done" /\ crCursor = WorkloadSize + 1
      /\ Len(crEffects) = crCursor - 1 + LossesBehind
      /\ crEffects \in Seq([intent : CR!Intent, key : CR!Key])
      /\ faulted \subseteq Intent /\ Cardinality(faulted) = lossCount
  BY DEF ExperimentIInv, PhaseAgrees, Started, BaselineIInv, RetryFollowsLoss,
         LedgerGrowsWithLosses, CR!TypeOK
<1>2. LossesBehind = lossCount
  <2>1. 1 .. crCursor - 1 = Intent
    BY <1>1, WorkloadSizeNat DEF Intent
  <2>2. faulted \cap 1 .. crCursor - 1 = faulted
    BY <1>1, <2>1
  <2> QED
    BY <1>1, <2>2 DEF LossesBehind
<1> QED
  BY <1>1, <1>2, WorkloadSizeNat

\* The recount of a run finds nothing wrong with it but that nothing was lost.
LEMMA RecountOfTheRun ==
  ASSUME ExperimentIInv, EvidenceIInv, phase = "compared"
  PROVE  /\ Recount(AwareEvidence) = AwareSummary
         /\ RecountErrors(AwareEvidence) = When(lossCount < 1, "no_loss")
<1> DEFINE events == AwareEvidence.events
           paid == AwareEvidence.effects
           unknown == PositionsOf(events, "OUTCOME_UNKNOWN")
           reconciled == PositionsOf(events, "CONFIRMED_SUCCEEDED_FROM_RECONCILIATION")
           responses == PositionsOf(events, "CONFIRMED_SUCCEEDED_FROM_RESPONSE")
           recognized == IntentsAt(events, responses \cup reconciled)
           intents == IntentsAt(paid, DOMAIN paid)
<1>1. /\ IntentsAt(events, unknown) = faulted /\ Cardinality(unknown) = lossCount
      /\ \A i \in faulted : Occurrences(events, unknown, i) = 1
  <2>1. faulted = {i \in Intent : "OUTCOME_UNKNOWN" \in Happened[i]}
    BY Compared
  <2> QED
    BY <2>1, PositionsStandForIntents, Compared
<1>2. /\ IntentsAt(events, reconciled) = faulted /\ Cardinality(reconciled) = lossCount
      /\ \A i \in faulted : Occurrences(events, reconciled, i) = 1
  <2>1. faulted = {i \in Intent : "CONFIRMED_SUCCEEDED_FROM_RECONCILIATION" \in Happened[i]}
    BY Compared
  <2> QED
    BY <2>1, PositionsStandForIntents, Compared
<1>3. IntentsAt(events, responses) = Intent \ faulted
  <2>1. Intent \ faulted = {i \in Intent : "CONFIRMED_SUCCEEDED_FROM_RESPONSE" \in Happened[i]}
    BY Compared
  <2> QED
    BY <2>1, PositionsStandForIntents
<1>4. /\ DOMAIN paid = Intent /\ Len(paid) = WorkloadSize
      /\ \A e \in Intent : paid[e].effect = e /\ paid[e].intent = e
  <2>1. paid = [e \in DOMAIN paEffects |->
          [effect |-> e, intent |-> paEffects[e].intent, key |-> paEffects[e].key]]
    BY DEF AwareEvidence, Payload
  <2>2. paid = [e \in 1 .. WorkloadSize |->
          [effect |-> e, intent |-> paEffects[e].intent, key |-> paEffects[e].key]]
    BY <2>1, Compared DEF Intent
  <2>3. WorkloadSize \in Nat
    BY WorkloadSizeNat
  <2> HIDE DEF paid
  <2>4. Len(paid) = WorkloadSize /\ DOMAIN paid = Intent
    BY <2>2, <2>3 DEF Intent
  <2> QED
    BY <2>1, <2>4, Compared
<1> HIDE DEF events, paid, unknown, reconciled, responses
<1>5. recognized = Intent
  BY <1>2, <1>3, Compared DEF IntentsAt
<1>6. intents = Intent /\ Cardinality(Intent) = WorkloadSize
  <2>1. intents = Intent
    BY <1>4 DEF IntentsAt
  <2>2. Cardinality(1 .. WorkloadSize) = WorkloadSize
    BY WorkloadSizeNat, FS_Interval
  <2> QED
    BY <2>1, <2>2 DEF Intent
<1>7. IntentsAt(events, unknown \cup reconciled) = faulted
  BY <1>1, <1>2 DEF IntentsAt
<1>8. {k \in DOMAIN paid : paid[k].intent \notin recognized} = {}
  BY <1>4, <1>5
<1> HIDE DEF recognized, intents
<1>9. Recount(AwareEvidence) =
        [lostResponses |-> Cardinality(unknown), reconciled |-> Cardinality(reconciled),
         duplicates |-> Len(paid) - Cardinality(intents),
         unrecognized |-> Cardinality({k \in DOMAIN paid : paid[k].intent \notin recognized}),
         effects |-> Len(paid), intents |-> Cardinality(intents)]
  BY DEF Recount, events, paid, unknown, reconciled, responses, recognized, intents
<1>10. Recount(AwareEvidence) = AwareSummary
  <2>1. Cardinality({k \in DOMAIN paid : paid[k].intent \notin recognized}) = 0
    BY <1>8, FS_EmptySet
  <2>2. Cardinality(intents) = WorkloadSize /\ Len(paid) - Cardinality(intents) = 0
    BY <1>4, <1>6, WorkloadSizeNat
  <2> QED
    BY <1>1, <1>2, <1>4, <1>9, <2>1, <2>2 DEF AwareSummary
<1>11. RecountErrors(AwareEvidence) = When(lossCount < 1, "no_loss")
  <2>1. RecountErrors(AwareEvidence) =
          When(Cardinality(unknown) # Cardinality(IntentsAt(events, unknown)), "repeats_unknown")
            \cup When(\E i \in IntentsAt(events, unknown \cup reconciled) :
                        Occurrences(events, unknown, i) # Occurrences(events, reconciled, i),
                      "not_reconciled")
            \cup When(\E j, k \in DOMAIN paid : j # k /\ paid[j].effect = paid[k].effect,
                      "duplicate_effect")
            \cup When(\E key \in DOMAIN AwareSummary :
                        AwareEvidence.summary[key] # AwareSummary[key], "summary")
            \cup When(AwareSummary.lostResponses < 1, "no_loss")
            \cup When(AwareSummary.duplicates # 0, "duplicates")
            \cup When(AwareSummary.unrecognized # 0, "unrecognized")
    BY <1>10 DEF RecountErrors, events, paid, unknown, reconciled
  <2>2. Cardinality(unknown) = Cardinality(IntentsAt(events, unknown))
    BY <1>1, Compared
  <2>3. \A i \in IntentsAt(events, unknown \cup reconciled) :
          Occurrences(events, unknown, i) = Occurrences(events, reconciled, i)
    BY <1>1, <1>2, <1>7
  <2>4. ~\E j, k \in DOMAIN paid : j # k /\ paid[j].effect = paid[k].effect
    BY <1>4
  <2>5. AwareEvidence.summary = AwareSummary
    BY Compared DEF AwareEvidence, Payload
  <2>6. /\ AwareSummary.lostResponses = lossCount
        /\ AwareSummary.duplicates = 0 /\ AwareSummary.unrecognized = 0
    BY DEF AwareSummary
  <2> QED
    BY <2>1, <2>2, <2>3, <2>4, <2>5, <2>6 DEF When
<1> QED
  BY <1>10, <1>11

\* The attestation of a run says what the portable check recounts.
LEMMA BindingOfTheRun ==
  ASSUME ExperimentIInv, EvidenceIInv, phase = "compared", NEW context
  PROVE  BindingErrors(context, Attested, Recount(AwareEvidence)) =
           When(~(context.claims \subseteq RunnerContext.claims), "binding")
<1>1. /\ Attested.measurements =
           [lostResponses |-> lossCount, duplicates |-> 0, reconciled |-> lossCount]
      /\ Attested.claims = RunnerContext.claims
      /\ Attested.binding = {"lostResponses", "duplicates", "reconciled"}
  BY Compared DEF Attested, RunnerAttestation, AwareSummary
<1>2. \A x \in DOMAIN Attested.measurements : Attested.measurements[x] = AwareSummary[x]
  BY <1>1 DEF AwareSummary
<1>3. Recount(AwareEvidence) = AwareSummary
  BY RecountOfTheRun
<1> QED
  BY <1>1, <1>2, <1>3 DEF BindingErrors, When

\* What it says of the conditions is true of a profile that says the same.
LEMMA ContextOfTheRun ==
  ASSUME ExperimentIInv, EvidenceIInv, phase = "compared", NEW context
  PROVE  ContextErrors(WorkloadSize, lossCount, context, Attested) = {}
           <=> /\ context.shared = RunnerContext.shared
               /\ context.injects = RunnerContext.injects
               /\ context.fault = RunnerContext.fault
<1>1. /\ Attested.workload = [total |-> WorkloadSize, lost |-> lossCount]
      /\ Attested.shared = RunnerContext.shared /\ Attested.injects = RunnerContext.injects
      /\ Attested.fault = RunnerContext.fault
  BY Compared DEF Attested, RunnerAttestation
<1> QED
  BY <1>1 DEF ContextErrors, When

(***************************************************************************)
(* The portable check (verify_portable_capabilities), a second              *)
(* implementation of the run, accepts what the runner produces exactly if a *)
(* response was lost and the profile says what the runner takes for granted,*)
(* and never the baseline's evidence: for every workload, every selection   *)
(* of losses and every profile.                                             *)
(***************************************************************************)
THEOREM WitnessIsExact == Spec => []WitnessIsTheRun
<1>1. ASSUME ExperimentIInv, EvidenceIInv PROVE WitnessIsTheRun
  <2> DEFINE errors(context, payloads) ==
               PortableErrors(WorkloadSize, lossCount, faulted, context, Attested, payloads)
             relabelled == [BaselineEvidence EXCEPT !.variant = "profile_aware"]
  <2> SUFFICES ASSUME phase = "compared", NEW context \in Contexts
               PROVE  /\ errors(context, <<AwareEvidence, BaselineEvidence>>) = {}
                           <=> lossCount >= 1 /\ context = RunnerContext
                      /\ errors(context, <<relabelled>>) # {}
    BY DEF WitnessIsTheRun
  <2>1. WorkloadSize \in Nat /\ lossCount \in 0 .. WorkloadSize
    BY <1>1, Compared
  <2>2. ScenarioErrors(WorkloadSize, lossCount, context) = {}
          <=> context.mode = RunnerContext.mode /\ lossCount >= 1
    BY <2>1 DEF ScenarioErrors, When, RunnerContext
  <2>3. lossCount >= 1 => AwareEvidence = ExpectedPayload(WorkloadSize, faulted)
    BY <1>1, <2>1, AwareEvidenceIsExpected
  <2>4. errors(context, <<AwareEvidence, BaselineEvidence>>) = {}
          <=> /\ Cardinality(context.claims) = 1
              /\ RecountErrors(AwareEvidence) = {}
              /\ BindingErrors(context, Attested, Recount(AwareEvidence)) = {}
              /\ ScenarioErrors(WorkloadSize, lossCount, context) = {}
              /\ ContextErrors(WorkloadSize, lossCount, context, Attested) = {}
    <3> DEFINE payloads == <<AwareEvidence, BaselineEvidence>>
               candidates == {k \in DOMAIN payloads : payloads[k].variant = "profile_aware"}
    <3>1. AwareEvidence.variant = "profile_aware" /\ BaselineEvidence.variant = "conventional_retry"
      BY DEF AwareEvidence, BaselineEvidence, Payload
    <3>2. DOMAIN payloads = {1, 2} /\ payloads[1] = AwareEvidence /\ payloads[2] = BaselineEvidence
      OBVIOUS
    <3> HIDE DEF payloads
    <3>3. candidates = {1}
      BY <3>1, <3>2
    <3>4. Cardinality(candidates) = 1 /\ payloads[CHOOSE k \in candidates : TRUE] = AwareEvidence
      BY <3>2, <3>3, FS_Singleton
    <3>5. lossCount >= 1 =>
            When(/\ ScenarioErrors(WorkloadSize, lossCount, context) = {}
                 /\ AwareEvidence # ExpectedPayload(WorkloadSize, faulted), "witness") = {}
      BY <2>3 DEF When
    <3>6. ScenarioErrors(WorkloadSize, lossCount, context) = {} => lossCount >= 1
      BY <2>2
    <3> HIDE DEF candidates
    <3> QED
      BY <3>4, <3>5, <3>6 DEF PortableErrors, candidates, payloads
  <2>5. errors(context, <<AwareEvidence, BaselineEvidence>>) = {}
          <=> lossCount >= 1 /\ context = RunnerContext
    <3>1. RecountErrors(AwareEvidence) = {} <=> lossCount >= 1
      BY <1>1, <2>1, RecountOfTheRun DEF When
    <3>2. BindingErrors(context, Attested, Recount(AwareEvidence)) = {}
            <=> context.claims \subseteq RunnerContext.claims
      BY <1>1, BindingOfTheRun DEF When
    <3>3. Cardinality(context.claims) = 1 /\ context.claims \subseteq RunnerContext.claims
            <=> context.claims = RunnerContext.claims
      <4>1. RunnerContext.claims = {"refund-provider-outage"}
        BY DEF RunnerContext
      <4>2. Cardinality(RunnerContext.claims) = 1
        BY <4>1, FS_Singleton
      <4>3. context.claims \subseteq RunnerContext.claims
              <=> context.claims = {} \/ context.claims = RunnerContext.claims
        BY <4>1
      <4>4. Cardinality({}) = 0
        BY FS_EmptySet
      <4> QED
        BY <4>2, <4>3, <4>4
    <3>4. context = RunnerContext
            <=> /\ context.mode = RunnerContext.mode
                /\ context.injects = RunnerContext.injects
                /\ context.fault = RunnerContext.fault
                /\ context.shared = RunnerContext.shared
                /\ context.claims = RunnerContext.claims
      <4>1. context = [mode |-> context.mode, injects |-> context.injects,
                       fault |-> context.fault, shared |-> context.shared,
                       claims |-> context.claims]
        BY ParametersAssumption
      <4> QED
        BY <4>1 DEF RunnerContext
    <3> HIDE DEF errors
    <3> QED
      BY <1>1, <2>2, <2>4, <3>1, <3>2, <3>3, <3>4, ContextOfTheRun
  <2>6. errors(context, <<relabelled>>) # {}
    <3>1. relabelled.variant = "profile_aware" /\ relabelled.effects = BaselineEvidence.effects
      BY DEF BaselineEvidence, Payload
    <3>2. lossCount >= 1 => relabelled # ExpectedPayload(WorkloadSize, faulted)
      <4>1. DOMAIN BaselineEvidence.effects = 1 .. WorkloadSize + lossCount
        BY <1>1, <2>1, BaselineLedgerOfTheComparison DEF BaselineEvidence, Payload
      <4>2. DOMAIN ExpectedPayload(WorkloadSize, faulted).effects = 1 .. WorkloadSize
        BY DEF ExpectedPayload
      <4>3. lossCount >= 1 => WorkloadSize + lossCount \notin 1 .. WorkloadSize
                              /\ WorkloadSize + lossCount \in 1 .. WorkloadSize + lossCount
        BY <2>1
      <4> QED
        BY <3>1, <4>1, <4>2, <4>3
    <3> DEFINE payloads == <<relabelled>>
               candidates == {k \in DOMAIN payloads : payloads[k].variant = "profile_aware"}
    <3> HIDE DEF relabelled
    <3>3. DOMAIN payloads = {1} /\ payloads[1] = relabelled
      OBVIOUS
    <3> HIDE DEF payloads
    <3>4. candidates = {1}
      BY <3>1, <3>3
    <3>5. payloads[CHOOSE k \in candidates : TRUE] = relabelled
      BY <3>3, <3>4
    <3>6. ScenarioErrors(WorkloadSize, lossCount, context) = {} =>
            "witness" \in When(/\ ScenarioErrors(WorkloadSize, lossCount, context) = {}
                               /\ relabelled # ExpectedPayload(WorkloadSize, faulted), "witness")
      BY <2>2, <3>2 DEF When
    <3> HIDE DEF candidates
    <3> QED
      BY <3>5, <3>6 DEF PortableErrors, candidates, payloads
  <2> QED
    BY <2>5, <2>6
<1> QED
  BY <1>1, Invariance, EvidenceInvariance, PTL

-----------------------------------------------------------------------------
(* The provider under arbitrary callers, for any intents and keys, finite   *)
(* or not (byKey and effects are a provider of its own, not those of the    *)
(* runs).  The invariant says that the index of keys and the ledger are     *)
(* inverse to each other, that whoever called left an indexed key, and that *)
(* whoever is in the ledger called.                                         *)

Calls == answers \cup lost

IndexInvertsLedger ==
  /\ \A k \in DOMAIN byKey :
       byKey[k] \in DOMAIN effects /\ effects[byKey[k]].key = k
  /\ \A e \in DOMAIN effects :
       effects[e].key \in DOMAIN byKey /\ byKey[effects[e].key] = e

CallsAreIndexed ==
  /\ \A c \in Calls : c.key \in DOMAIN byKey
  /\ \A r \in answers : byKey[r.key] = r.effect

EffectsWereCalled ==
  \A e \in DOMAIN effects :
    \E c \in Calls : c.intent = effects[e].intent /\ c.key = effects[e].key

ClientsIInv == ClientsTypeOK /\ IndexInvertsLedger /\ CallsAreIndexed /\ EffectsWereCalled

-----------------------------------------------------------------------------

LEMMA ClientsInitIInv == ClientsInit => ClientsIInv
BY DEF ClientsInit, ProviderInit, ClientsIInv, ClientsTypeOK, IndexInvertsLedger, CallsAreIndexed,
       EffectsWereCalled, Calls

\* A commit under a known key changes nothing; under a new key it appends one
\* effect and indexes it.
LEMMA CommitCases ==
  ASSUME ClientsIInv, NEW i \in ClientIntent, NEW k \in ClientKey, Commit(i, k)
  PROVE  \/ /\ k \in DOMAIN byKey /\ effects' = effects
            /\ DOMAIN byKey' = DOMAIN byKey
            /\ \A j \in DOMAIN byKey : byKey'[j] = byKey[j]
            /\ EffectId(k) = byKey[k]
         \/ /\ k \notin DOMAIN byKey
            /\ effects' = Append(effects, [intent |-> i, key |-> k])
            /\ DOMAIN byKey' = DOMAIN byKey \cup {k}
            /\ \A j \in DOMAIN byKey : byKey'[j] = byKey[j]
            /\ byKey'[k] = Len(effects) + 1 /\ EffectId(k) = Len(effects) + 1
<1>1. CASE k \in DOMAIN byKey
  BY <1>1 DEF Commit, EffectId
<1>2. CASE k \notin DOMAIN byKey
  <2>1. byKey' = [j \in DOMAIN byKey \cup {k} |-> EffectId(j)]
    BY DEF Commit
  <2>2. \A j \in DOMAIN byKey : EffectId(j) = byKey[j]
    BY DEF EffectId
  <2> QED
    BY <1>2, <2>1, <2>2 DEF Commit, EffectId
<1> QED
  BY <1>1, <1>2

\* What a commit does to the ledger and the index, whatever became of the
\* response.
LEMMA CommitKeepsIndex ==
  ASSUME ClientsIInv, NEW i \in ClientIntent, NEW k \in ClientKey, Commit(i, k)
  PROVE  /\ effects' \in Seq([intent : ClientIntent, key : ClientKey])
         /\ DOMAIN byKey' \subseteq ClientKey /\ k \in DOMAIN byKey'
         /\ IndexInvertsLedger'
         /\ DOMAIN byKey \subseteq DOMAIN byKey'
         /\ DOMAIN effects \subseteq DOMAIN effects'
         /\ \A j \in DOMAIN byKey : byKey'[j] = byKey[j]
         /\ EffectId(k) = byKey'[k] /\ byKey'[k] \in DOMAIN effects'
         /\ \A e \in DOMAIN effects' :
              \/ e \in DOMAIN effects /\ effects'[e] = effects[e]
              \/ effects'[e] = [intent |-> i, key |-> k]
<1> USE DEF ClientsIInv, ClientsTypeOK, IndexInvertsLedger
<1>1. CASE k \in DOMAIN byKey
  BY <1>1, CommitCases
<1>2. CASE k \notin DOMAIN byKey
  <2> DEFINE new == [intent |-> i, key |-> k]
  <2>1. /\ effects' = Append(effects, new)
        /\ DOMAIN byKey' = DOMAIN byKey \cup {k}
        /\ \A j \in DOMAIN byKey : byKey'[j] = byKey[j]
        /\ byKey'[k] = Len(effects) + 1 /\ EffectId(k) = Len(effects) + 1
    BY <1>2, CommitCases
  <2>2. new \in [intent : ClientIntent, key : ClientKey]
    OBVIOUS
  <2>3. /\ effects' \in Seq([intent : ClientIntent, key : ClientKey])
        /\ DOMAIN effects' = DOMAIN effects \cup {Len(effects) + 1}
        /\ \A e \in DOMAIN effects : effects'[e] = effects[e]
        /\ effects'[Len(effects) + 1] = new
        /\ Len(effects) + 1 \notin DOMAIN effects
    BY <2>1, <2>2
  <2>4. new.key = k
    OBVIOUS
  <2> HIDE DEF new
  <2>5. IndexInvertsLedger'
    BY <1>2, <2>1, <2>3, <2>4
  <2> QED
    BY <2>1, <2>3, <2>5 DEF new
<1> QED
  BY <1>1, <1>2

LEMMA AnsweredIInv ==
  ASSUME ClientsIInv, NEW i \in ClientIntent, NEW k \in ClientKey, CallAnswered(i, k)
  PROVE  ClientsIInv'
<1> DEFINE answer == [intent |-> i, key |-> k, effect |-> EffectId(k)]
<1>1. Commit(i, k) /\ answers' = answers \cup {answer} /\ lost' = lost
  BY DEF CallAnswered
<1>2. Calls' = Calls \cup {answer}
  BY <1>1 DEF Calls
<1>3. answer.intent = i /\ answer.key = k /\ answer.effect = EffectId(k)
  OBVIOUS
<1>4. ClientsTypeOK'
  <2>1. answer \in [intent : ClientIntent, key : ClientKey, effect : DOMAIN effects']
    BY <1>1, CommitKeepsIndex
  <2>2. \A r \in answers :
          r \in [intent : ClientIntent, key : ClientKey, effect : DOMAIN effects']
    BY <1>1, CommitKeepsIndex DEF ClientsIInv, ClientsTypeOK
  <2> HIDE DEF answer
  <2> QED
    BY <1>1, <2>1, <2>2, CommitKeepsIndex DEF ClientsIInv, ClientsTypeOK, IndexInvertsLedger
<1> HIDE DEF answer
<1>5. CallsAreIndexed'
  BY <1>1, <1>2, <1>3, CommitKeepsIndex DEF ClientsIInv, CallsAreIndexed, Calls
<1>6. EffectsWereCalled'
  <2>1. ASSUME NEW e \in DOMAIN effects'
        PROVE  \E c \in Calls' :
                 c.intent = effects'[e].intent /\ c.key = effects'[e].key
    BY <1>1, <1>2, <1>3, CommitKeepsIndex DEF ClientsIInv, EffectsWereCalled
  <2> QED
    BY <2>1 DEF EffectsWereCalled
<1> QED
  BY <1>1, <1>4, <1>5, <1>6, CommitKeepsIndex DEF ClientsIInv

LEMMA LostIInv ==
  ASSUME ClientsIInv, NEW i \in ClientIntent, NEW k \in ClientKey, CallLost(i, k)
  PROVE  ClientsIInv'
<1> DEFINE call == [intent |-> i, key |-> k]
<1>1. Commit(i, k) /\ answers' = answers /\ lost' = lost \cup {call}
  BY DEF CallLost
<1>2. Calls' = Calls \cup {call}
  BY <1>1 DEF Calls
<1>3. call.intent = i /\ call.key = k /\ call \in [intent : ClientIntent, key : ClientKey]
  OBVIOUS
<1> HIDE DEF call
<1>4. ClientsTypeOK'
  <2>1. \A r \in answers :
          r \in [intent : ClientIntent, key : ClientKey, effect : DOMAIN effects']
    BY <1>1, CommitKeepsIndex DEF ClientsIInv, ClientsTypeOK
  <2> QED
    BY <1>1, <1>3, <2>1, CommitKeepsIndex DEF ClientsIInv, ClientsTypeOK, IndexInvertsLedger
<1>5. CallsAreIndexed'
  BY <1>1, <1>2, <1>3, CommitKeepsIndex DEF ClientsIInv, CallsAreIndexed, Calls
<1>6. EffectsWereCalled'
  <2>1. ASSUME NEW e \in DOMAIN effects'
        PROVE  \E c \in Calls' :
                 c.intent = effects'[e].intent /\ c.key = effects'[e].key
    BY <1>1, <1>2, <1>3, CommitKeepsIndex DEF ClientsIInv, EffectsWereCalled
  <2> QED
    BY <2>1 DEF EffectsWereCalled
<1> QED
  BY <1>1, <1>4, <1>5, <1>6, CommitKeepsIndex DEF ClientsIInv

\* Index, ledger and callers agree in every execution.
THEOREM ClientsInvariance == ClientsSpec => []ClientsIInv
<1>1. ASSUME ClientsIInv, [ClientsNext]_clientVars PROVE ClientsIInv'
  <2>1. CASE ClientsNext
    BY <1>1, <2>1, AnsweredIInv, LostIInv DEF ClientsNext
  <2>2. CASE UNCHANGED clientVars
    BY <1>1, <2>2 DEF clientVars, ClientsIInv, ClientsTypeOK, IndexInvertsLedger, CallsAreIndexed,
       EffectsWereCalled, Calls
  <2> QED
    BY <1>1, <2>1, <2>2
<1> QED
  BY <1>1, ClientsInitIInv, PTL DEF ClientsSpec

-----------------------------------------------------------------------------

\* A key stands for one effect for good.
THEOREM KeyStandsForOneEffect == ClientsSpec => []OneEffectPerKey
<1>1. ClientsIInv => OneEffectPerKey
  BY DEF ClientsIInv, OneEffectPerKey, IndexInvertsLedger, CallsAreIndexed
<1> QED
  BY <1>1, ClientsInvariance, PTL

\* A lost call took effect, and unless somebody else used its key the lookup by
\* intent finds the effect.
THEOREM LostCallsCanBeReconciled == ClientsSpec => []LostCallIsReconcilable
<1>1. ASSUME ClientsIInv PROVE LostCallIsReconcilable
  <2> SUFFICES ASSUME NEW c \in lost,
                      \A i \in ClientIntent \ {c.intent} : c.key \notin KeysOf(i)
               PROVE  \E e \in LookupByIntent(c.intent) : effects[e].key = c.key
    BY DEF LostCallIsReconcilable
  <2>1. PICK e \in DOMAIN effects : effects[e].key = c.key
    BY <1>1 DEF ClientsIInv, CallsAreIndexed, IndexInvertsLedger, Calls
  <2>2. PICK d \in Calls : d.intent = effects[e].intent /\ d.key = c.key
    BY <1>1, <2>1 DEF ClientsIInv, EffectsWereCalled
  <2>3. d.key \in KeysOf(d.intent) /\ d.intent \in ClientIntent
    BY <1>1, <2>2 DEF KeysOf, Calls, ClientsIInv, ClientsTypeOK
  <2>4. effects[e].intent = c.intent
    BY <2>2, <2>3
  <2> QED
    BY <2>1, <2>4 DEF LookupByIntent
<1> QED
  BY <1>1, ClientsInvariance, PTL
=============================================================================

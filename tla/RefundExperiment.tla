--------------------------- MODULE RefundExperiment ---------------------------
(***************************************************************************)
(* The whole response-loss experiment (run_experiment): the workload is     *)
(* built, the faulted intents are selected, both variants process the same  *)
(* workload with the same losses, each against a provider of its own, and   *)
(* their summaries are compared.                                            *)
(***************************************************************************)
EXTENDS PortableWitness

CONSTANTS
  InitialBacklog, ArrivalRate, SimulationDuration,  \* scenario parameters
  LossCounts,  \* values of response_loss_count, within the workload or not
  Contexts     \* what else a profile may say of the scenario

ASSUME ParametersAssumption ==
  /\ {InitialBacklog, ArrivalRate, SimulationDuration} \subseteq Nat
  /\ LossCounts \subseteq Int
  /\ \A context \in Contexts :
       context = [mode |-> context.mode, injects |-> context.injects, fault |-> context.fault,
                  shared |-> context.shared, claims |-> context.claims]

\* The intents waiting at the start and those that arrive during the run.
WorkloadSize == InitialBacklog + ArrivalRate * SimulationDuration
Intent == 1 .. WorkloadSize

VARIABLES
  phase,      \* what the experiment is doing
  lossCount,  \* response_loss_count of the scenario
  faulted,    \* the selected intents
  summary     \* the summaries of the variants that have completed

\* The state of the profile-aware run and of the conventional run.
VARIABLES paByKey, paEffects, paCursor, paStep, paRecognized, paReconciled, paEvents
VARIABLES crByKey, crEffects, crCursor, crStep, crRecognized, crEvents

paVars == <<paByKey, paEffects, paCursor, paStep, paRecognized, paReconciled, paEvents>>
crVars == <<crByKey, crEffects, crCursor, crStep, crRecognized, crEvents>>
vars == <<phase, lossCount, faulted, summary, paVars, crVars>>

PA == INSTANCE ProfileAware WITH
        byKey <- paByKey, effects <- paEffects, cursor <- paCursor, step <- paStep,
        recognized <- paRecognized, reconciled <- paReconciled, events <- paEvents

CR == INSTANCE ConventionalRetry WITH
        byKey <- crByKey, effects <- crEffects, cursor <- crCursor, step <- crStep,
        recognized <- crRecognized, events <- crEvents

Summary == [intents : Nat, effects : Nat, duplicates : Nat, lostResponses : Nat,
            reconciled : Nat, unrecognized : Nat]

TypeOK ==
  /\ phase \in {"select", "profile_aware", "conventional_retry", "compared", "rejected"}
  /\ lossCount \in LossCounts
  /\ faulted \subseteq Intent
  /\ DOMAIN summary \subseteq {"profile_aware", "conventional_retry"}
  /\ \A v \in DOMAIN summary : summary[v] \in Summary
  /\ PA!TypeOK
  /\ CR!TypeOK

Init ==
  /\ phase = "select"
  /\ lossCount \in LossCounts
  /\ faulted = {}
  /\ summary = << >>
  /\ PA!StartRun
  /\ CR!StartRun

\* Seeded fault: losing every response is refused.
LossCountOffByOne(count) == count >= 0 /\ count < WorkloadSize

LossCountInRange(count) == count >= 0 /\ count <= WorkloadSize

\* How many items the slice ranked[:count] holds, count negative included.
SliceLength(count) ==
  IF count < 0 THEN Max({0, WorkloadSize + count}) ELSE Min({count, WorkloadSize})

\* The first lossCount intents of a ranking by digest: some set of that size.
SelectFaulted ==
  /\ phase = "select"
  /\ LossCountInRange(lossCount)
  /\ faulted' \in {S \in SUBSET Intent : Cardinality(S) = SliceLength(lossCount)}
  /\ phase' = "profile_aware"
  /\ UNCHANGED <<lossCount, summary, paVars, crVars>>

\* A count outside the workload is a ValueError before anything is committed.
RejectLossCount ==
  /\ phase = "select"
  /\ ~LossCountInRange(lossCount)
  /\ phase' = "rejected"
  /\ UNCHANGED <<lossCount, faulted, summary, paVars, crVars>>

\* Seeded fault: duplicates are counted per idempotency key.
DuplicatesPerKey(effects) ==
  LET count(k) == Cardinality({e \in DOMAIN effects : effects[e].key = k})
  IN  MapThenSumSet(LAMBDA k : Max({0, count(k) - 1}),
                    {effects[e].key : e \in DOMAIN effects})

\* The effects beyond the first of each intent.
DuplicateCount(effects) ==
  LET count(i) == Cardinality({e \in DOMAIN effects : effects[e].intent = i})
  IN  MapThenSumSet(LAMBDA i : Max({0, count(i) - 1}),
                    {effects[e].intent : e \in DOMAIN effects})

\* The unknown outcomes are counted as they are reconciled.
Summarize(variant, effects, recognized, reconciled) ==
  summary' = [v \in DOMAIN summary \cup {variant} |->
    IF v # variant THEN summary[v]
    ELSE [intents |-> WorkloadSize,
          effects |-> Len(effects),
          duplicates |-> DuplicateCount(effects),
          lostResponses |-> Cardinality(faulted),
          reconciled |-> reconciled,
          unrecognized |-> Cardinality(DOMAIN effects \ recognized)]]

ProfileAwareStep ==
  /\ phase = "profile_aware"
  /\ PA!Next
  /\ IF paStep' = "done"
     THEN /\ phase' = "conventional_retry"
          /\ Summarize("profile_aware", paEffects, paRecognized, paReconciled)
     ELSE UNCHANGED <<phase, summary>>
  /\ UNCHANGED <<lossCount, crVars>>

ConventionalStep ==
  /\ phase = "conventional_retry"
  /\ CR!Next
  /\ IF crStep' = "done"
     THEN /\ phase' = "compared"
          /\ Summarize("conventional_retry", crEffects, crRecognized, 0)
     ELSE UNCHANGED <<phase, summary>>
  /\ UNCHANGED <<lossCount, paVars>>

Next == SelectFaulted \/ RejectLossCount \/ ProfileAwareStep \/ ConventionalStep

\* One sequential program that runs to its end.
Spec == Init /\ [][Next]_vars /\ WF_vars(Next)

DuplicateGap ==
  summary["conventional_retry"].duplicates - summary["profile_aware"].duplicates

UnrecognizedGap == summary["conventional_retry"].unrecognized

\* The material gaps the artifact reports as detected.
DetectedGaps ==
  {g \in {"attempt_scoped_idempotency", "recognition_divergence"} :
     IF g = "attempt_scoped_idempotency" THEN DuplicateGap > 0 ELSE UnrecognizedGap > 0}

\* The payloads of the evidence.  The effect an event names is the one the lookup
\* of its intent finds; the effects of the ledger are numbered in order.
Payload(variant, effects, events) ==
  [variant |-> variant,
   events |-> [n \in DOMAIN events |->
     IF events[n].event = "CONFIRMED_SUCCEEDED_FROM_RECONCILIATION"
     THEN Reconciliation(events[n].intent,
            CHOOSE e \in DOMAIN effects : effects[e].intent = events[n].intent)
     ELSE events[n]],
   effects |-> [e \in DOMAIN effects |->
     [effect |-> e, intent |-> effects[e].intent, key |-> effects[e].key]],
   summary |-> summary[variant]]

AwareEvidence == Payload("profile_aware", paEffects, paEvents)
BaselineEvidence == Payload("conventional_retry", crEffects, crEvents)

Attested ==
  RunnerAttestation([total |-> WorkloadSize, lost |-> Cardinality(faulted)],
                    summary["profile_aware"])

-----------------------------------------------------------------------------

(***************************************************************************)
(* The comparison measures the injected losses and nothing else: per lost   *)
(* response the baseline pays once too often and loses sight of one effect, *)
(* the profile-aware variant neither, and a gap is detected exactly when a  *)
(* response was lost.                                                       *)
(***************************************************************************)
GapsMeasureTheLosses ==
  phase = "compared" =>
    /\ DuplicateGap = lossCount
    /\ UnrecognizedGap = lossCount
    /\ DetectedGaps = {} <=> lossCount = 0
    /\ summary["profile_aware"] =
         [intents |-> WorkloadSize, effects |-> WorkloadSize, duplicates |-> 0,
          lostResponses |-> lossCount, reconciled |-> lossCount, unrecognized |-> 0]
    /\ summary["conventional_retry"].effects = WorkloadSize + lossCount

(***************************************************************************)
(* Whatever was selected to be lost, the profile-aware run never pays an    *)
(* intent twice and its reconciliation is always singular.                  *)
(***************************************************************************)
AwarePaysOnce == PA!AtMostOneEffect

(***************************************************************************)
(* When the profile-aware run ends, and from then on, every intent is paid, *)
(* every effect recognised and every lost response reconciled.              *)
(***************************************************************************)
AwareSettles == PA!SettledAtCompletion

(***************************************************************************)
(* The profile-aware run creates no effect while one is not recognised.     *)
(***************************************************************************)
AwareReconcilesFirst ==
  [][DOMAIN paEffects \ paRecognized # {} => paEffects' = paEffects]_vars

(***************************************************************************)
(* At any point of the baseline's run each lost response it has dealt with  *)
(* has been paid exactly twice and no other intent more than once, and the  *)
(* effects it does not know of are the first attempts that were lost.       *)
(***************************************************************************)
BaselinePaysLossesTwice == CR!EveryLossPaysTwice /\ CR!UnrecognizedAreLostAttempts

(***************************************************************************)
(* The portable check, which rebuilds the whole evidence without the runner,*)
(* accepts what a run produces exactly if a response was lost in it and the *)
(* profile describes the scenario as the runner hard-codes it; the evidence *)
(* of the baseline never passes for the profile-aware one.                  *)
(***************************************************************************)
WitnessIsTheRun ==
  phase = "compared" => \A context \in Contexts :
    LET errors(payloads) ==
          PortableErrors(WorkloadSize, lossCount, faulted, context, Attested, payloads)
    IN  /\ errors(<<AwareEvidence, BaselineEvidence>>) = {}
             <=> lossCount >= 1 /\ context = RunnerContext
        /\ errors(<<[BaselineEvidence EXCEPT !.variant = "profile_aware"]>>) # {}

(***************************************************************************)
(* A loss count outside the workload is refused; every other experiment     *)
(* runs to its comparison.                                                  *)
(***************************************************************************)
ExperimentCompletes ==
  <>(IF lossCount \in 0 .. WorkloadSize THEN phase = "compared" ELSE phase = "rejected")
=============================================================================

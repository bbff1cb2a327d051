# Delegation resilience: TLA+ models, checks and proofs

This directory holds the formal models kept beside the code of *delegation-resilience*. Line numbers refer
to the sources at the modelled commit; `PROJECT.json` maps every definition to the lines it stands for.

## 1. Inventory

The repository is a Python program in three layers, all of them sequential processes that work on files.

| Component | Source | State it keeps | Operations | Hard behaviour |
|---|---|---|---|---|
| Refund provider | `runner.py` 35-64 | effects ledger, idempotency index | `commit`, `lookup_by_intent` | responses lost after the commit, keys reused |
| Profile-aware variant | `runner.py` 126-186 | cursor, recognised effects, events | submit, reconcile | ambiguity must be resolved before the next effect |
| Conventional variant | `runner.py` 189-247 | cursor, recognised effects, events | submit, retry | retry under a new key pays twice |
| Response-loss experiment | `runner.py` 83-123, 250-307 | workload, lost intents, summaries | select, run both, compare | the comparison must measure the losses only |
| Topology validation | `shared_fate.py` 37-112, copy of the search in `validate_profile.py` 57-80 | search marks, call stack, errors | `_dependency_cycle`, `validate_topology` | recursion with state shared across roots, shadowed identifiers |
| Failure propagation | `shared_fate.py` 115-141 | unavailable set, changed flag | `propagate_failure` | fixpoint independent of listing order |
| Shared-fate experiment | `shared_fate.py` 144-396 | fault results, groups, degraded flow | `run_experiment` | partial shared fate, guard bypass, zero commits for several reasons |
| Trust evaluation | `trust.py` | none | `validate_trust_policy`, `verify_dsse_envelope` | half-open intervals, scopes, self-issued statements |
| Packet verification | `verify_bundle.py` | error lists, proof count, flags, accepted artifacts | `verify_bundle` | verdict computed from accumulators, early continues |
| Dependency freshness | `portable_checks.py` 377-431 | none | `dependency_freshness` | per-claim and global freshness |
| Portable witness | `portable_checks.py` 102-374 | none | `verify_portable_capabilities` | a second implementation of the refund run, compared with the first one's artifacts |
| Drill preflight | `human_drill.py` | none; the consumer keeps high-watermarks | `evaluate_readiness` | replayed, stale, equivocal statements over several runs |
| Evidence files | `artifact_validation.py` | none | `validate_human_evidence`, `validate_exercise_evidence` | a manifest or an observation that says more than the file it cites |
| Profile/attestation validation | `validate_profile.py` | none | `validate_profile`, `validate_attestation` | adverse and satisfying observations side by side, replays, second copies of other modules' checks |
| Assurance graph | `assurance_graph.py` | indexes by identifier, errors | `validate_graph` | items that shadow one another, reasons worked out from indexes, invalidation followed one level |
| Packet builder, file output | `portable_bundle.py`, `runner.py` 576-614, `sign_artifact.py` | files | compute, write, verify | files written in place one by one, crashes between them, inputs that have gone stale |
| Loading, schemas, verifier identity | `data_loading.py`, `schema_validation.py`, `verifier_manifest.py` | none | parsing, JSON Schema, digests | pure I/O |

How they interact: `run_experiment` of the refund game day calls both variants, each with a provider of its
own. `run_experiment` of the shared-fate game day calls validation and propagation. `verify_bundle` calls trust
evaluation once for the policy and once per proof, then freshness, the portable witness and the attestation
validator, which opens the evidence files. `evaluate_readiness` calls trust evaluation for each piece of evidence,
opens the file each one cites and reads the high-watermarks file of the consumer. The packet builder starts from
the files the runner has left on disk. There are no threads and no callbacks; concurrency exists where people,
devices and repeated invocations meet (lost responses, replayed statements, amended manifests, a build that dies,
a profile edited between two builds).

## 2. Modules

| Module | Models | Kind |
|---|---|---|
| `RefundProvider` | the provider's state and operations | component, used by the next three |
| `ProviderClients` | the provider under any caller | specification |
| `ExactlyOnce` | what the profile-aware workflow promises: paid once, then settled | abstract specification |
| `ProfileAware` | the profile-aware loop | specification |
| `ConventionalRetry` | the baseline loop | component |
| `RefundExperiment`, `MCRefundExperiment`, `RefundExperimentProofs` | both variants composed (INSTANCE) and compared; proofs about the provider, each variant, the comparison and the portable check | composition, theorems |
| `PortableWitness` | the portable check's reconstruction of the run, and what it compares | operators, used by `RefundExperiment` |
| `DependencyGraph` | acyclicity and the transitive closure of a failure | reference definitions |
| `CycleDetection` | the recursive search, one frame per call | component |
| `TopologyValidation` | `validate_topology` around the search | composition |
| `FailurePropagation` | the propagation loop | specification |
| `ListedComponents` | the components of a topology, by their position in its list | definitions |
| `ValidatedPropagation`, `MCValidatedPropagation`, `ValidatedPropagationProofs` | `propagate_failure` as called: search, validation and loop (INSTANCE); proofs about all three | composition, theorems |
| `SharedFate`, `MCSharedFate`, `SharedFateProofs` | the experiment over arbitrary scenarios, malformed ones included; its proofs | specification, theorems |
| `TrustEvaluation`, `DependencyFreshness` | pure functions as sets of errors | operators |
| `EvidenceArtifacts` | `validate_human_evidence` and `validate_exercise_evidence` as sets of kinds of errors | operators |
| `ErrorSets` | an error that is reported under a condition | operator |
| `AttestationSemantics` | `validate_attestation` as a set of kinds of errors | operators |
| `AttestationValidation`, `MCAttestationValidation`, `AttestationValidationProofs` | `validate_attestation` as it runs, loop by loop; its proofs | specification, theorems |
| `PacketVerification`, `MCPacketVerification`, `PacketVerificationProofs` | `verify_bundle`, composed with trust, freshness and attestation; its proofs | composition, theorems |
| `PreflightChecks` | `evaluate_readiness` as the set of kinds of missing prerequisites | operators |
| `DrillProtocol`, `MCDrillProtocol`, `DrillProtocolProofs` | preflights over time, with participants, facilitator and consumer; its proofs | composition, theorems |
| `ArtifactPipeline`, `MCArtifactPipeline`, `ArtifactPipelineProofs` | the runner and the packet builder writing and verifying files, with crashes and edits; its proofs | specification, theorems |
| `AssuranceGraph`, `MCAssuranceGraph`, `AssuranceGraphProofs` | `validate_graph` loop by loop; its proofs | specification, theorems |

Correspondence of state and actions. In `ProfileAware` and `ConventionalRetry` one action is one pass through a
branch of the loop body up to the point where the response is lost or received; `cursor` is the loop variable,
`step` says whether the exception handler is about to run. The provider's commit happens before the response is
lost, as in lines 45-56. In `CycleDetection` a frame of `frames` is an active call of `visit`, `mark` is the
dictionary `state`, and the nodes of the frames are the list `stack`. In `FailurePropagation` `position` is the
place of the inner loop, so a pass is several steps. `SharedFate` uses validation and propagation by contract
(`DependencyGraph`): `ValidatedPropagation` shows that the loops, called as the code calls them, meet it. In
`PacketVerification` each action is one stage of `verify_bundle`; the item loop takes one step per item, with the
two `continue`s as actions of their own (`LoadFails`, `ParseFails`). `WitnessHolds` is the portable check inside a
packet: its candidates are the *observations* of the provider's outcome that cite verified evidence of the
profile-aware run (`Candidates`), so a baseline beside it does not count and a piece of
evidence observed twice counts twice.
An attestation is judged by the operators of `AttestationSemantics`, applied to the claims and scenarios of the packet's
profile. `AttestationValidation` takes one
step per observation and per claim result: the second loop reads the two sets of identifiers the first one filled. `DrillProtocol` is mostly external
behaviour: `evaluate_readiness` keeps no state, so the model adds the people who sign, the facilitator who
assembles a manifest from anything signed so far, and the consumer who keeps the high-watermarks file as
`HUMAN_DRILL.md` describes it (never replacing a withdrawal). In `ArtifactPipeline` a command computes its output
from what it finds and then opens and writes one file per action, in the order of the code; a death of the command
leaves the open file torn, and an edit of the profile may fall anywhere in between. `AssuranceGraph` takes one step
per listed source, node and edge.

Abstractions. Amounts, timestamps' syntax and layout are left out. A signature is the key that made it,
bytes are the statement they encode, an error is its kind. Wording is left out as well, with one exception:
`verify_bundle` tells errors apart by phrases in their text (`verify_bundle.py:90-111`), and some texts repeat what the
envelope says (a kind or a scope that is not granted, a value that does not fit the schema, a duplicate key). A message
is therefore the set of those phrases that occur in it, its own and the ones it repeats (`Messages`, from the
envelope's `quotes`), and `ListOf` and `LeavesUnchecked` decide by phrases as the code does. JSON Schema results and file loading
are fields of the inputs (`form`, `fits`, `proofLoads`, `opaqueLoads`). The files evidence cites are a function from
digests to envelopes, and what such a file says is compared with what the manifest or the observation says of it; the
path checks of `load_local_artifact` are I/O. A decision or a status a participant records is the value of the
statement signed. In `ArtifactPipeline` the content of a file is what it was computed from. A human capability is one
error (`human_capability`): the code reports it unconditionally (727-732) and the checks up to line 866 only add to
it. The run of a built-in game-day runner inside the validator is the input `rebuilt`.

## 3. Runs

| Run | Question | Bounds | Distinct states |
|---|---|---|---|
| `provider_clients` | what idempotency alone promises | 2 intents, 3 keys | 86k |
| `profile_aware` | refinement of the exactly-once workflow, completion included | workload 5, all 32 sets of losses | 304 |
| `refund_experiment` | is every intent paid once and every ambiguity reconciled first; exact damage of the baseline; do the gaps measure the losses; is the portable check exact | workload 1 + 1 * 4, loss counts -1..6, 128 contexts of the portable check | 586 |
| `validated_propagation` | is the search exact, are exactly the DAGs accepted, is the result the exact closure in any order | all graphs of 3 components, 3 items over 2 repeated ids, unlisted and repeated references; all DAGs of 4 components, all targets | 349k |
| `shared_fate` | what a report may claim | 7 components, 26.2k scenarios | 107k |
| `shared_fate_gap` | a finding, see below | as above | violated |
| `packet_verification` | what each status stands for | 3-4 items, the repository's packet (both variants as evidence) and its relatives, single and combined defects | 95k |
| `attestation_validation` | what an accepted attestation may claim | up to 2 observations (12 natures) and results, 2 replays, altered bindings, measurements and conditions | 57k |
| `drill_statements` | preflights over time | 1 operator, 2 runs, 3 sequence numbers, 2 manifests, 4 statements | 110k |
| `drill_operators` | unanimity and independent vouching | 2 operators, 21 backgrounds, 2 policies | 38k |
| `artifact_pipeline` | may a packet mix builds; when does a packet come to verify; does a rerun repair | 5 versions of the profile, 2 edits, 3 commands that write | 2.63M |
| `assurance_graph` | does a verified graph hide anything | up to 3 edges, 2 sources, repeated ids, 2 claims | 1.6M |

Why the bounds are enough. The loops of the refund runs treat intents alike and interact through the ledger only;
a workload of five contains every pattern of neighbouring losses, and the theorems of section 4 hold for every
size. Four components are the least in which a chain can be listed against the direction of propagation over
several passes beside an independent component. Three listed nodes with repeated references have all shapes of
back, forward and cross edges the search tells apart. A duplicate identifier needs two items; a third makes
shadowing and a cycle coexist. `verify_bundle` treats items independently except for the duplicate digest and
the accumulators, which two equal evidence items reach. The packet the repository builds, with the evidence of both
variants, verifies in the model as in the code, with the partial support of `external_reconciliation`; a packet without
support that verifies, and packets rejected for none or two candidates, are there too. Envelopes whose messages repeat
a phrase are combined with a policy that grants another scope, with forged and unknown keys, and with damaged ones. In the drill, a replay needs an old and a new statement,
an equivocation two of the same number, a relapse a third after a withdrawal: three numbers and four statements.
A mixed packet needs two builds over two versions, so two commands after a first checkout and two edits; the third
command is the one that repairs. A reason can be hidden by an edge that repeats the identifier of another, an
inherited invalidation takes two edges and a third shadows one of them. `MaxSequence`, `MaxContext`, `MaxSigned`,
`MaxEdits` and `MaxRuns` are the only bounds inside guards; `drill_operators` also has the constraint
`SimpleIfDeficient`, which follows a background with a deficient piece of evidence only under the first manifest and with statements
that consent.

Deadlock is checked for the provider and the drill, which never stop. The other specifications model calls that
return, so their configurations switch it off; where the code loops, termination is checked as a liveness property
instead (`ImplementsExactlyOnce`, `ExperimentCompletes`, `CallEnds`).

Fairness is weak fairness of the whole next-state relation in the specifications of sequential calls: a process
that is running keeps running. It is the weakest assumption under which a call returns. The provider's clients,
the drill and the artifact pipeline have none: nobody is obliged to call, sign, decide or run a command again.
`RerunRepairs` is therefore about what is true once both commands have run.

### What the properties say

* Provider: a key stands for one effect for good (`OneEffectPerKey`), a lost call is found by the lookup
  (`LostCallIsReconcilable`).
* Profile-aware: one effect per intent, reconciliation before the next effect, every effect recognised at the
  end; the run implements `ExactlyOnce`, liveness included. The refinement maps an intent to how often the ledger
  holds it and to open / unknown / settled by whether the workflow recognises what the ledger holds.
* Conventional: each lost response is paid exactly twice and nothing else is; the first of the two effects is never
  recognised (`BaselinePaysLossesTwice`); the two gaps report exactly that (`GapsMeasureTheLosses`).
* Portable witness: the portable check accepts what a run produced exactly if a response was lost in it and the profile
  describes the scenario as the runner hard-codes it; the baseline's evidence never passes for the profile-aware one
  (`WitnessIsTheRun`).
* Topologies: a silent search means an acyclic graph, a reported cycle is one; a topology passes exactly if it
  is a well-formed DAG, shadowed items included; the call as a whole ends (`CallEnds`) and returns the transitive
  closure of a topology it accepts (`ReturnsDisabledSet`).
* Shared fate: an unauthorised commit always fails the claim; a halt needs an execution path to be halted; a
  report without shared fate bounds the critical roles lost by the number of faults. Scenarios that make the runner
  raise (mode, topology, roles, targets, parameters, guard mode, claim) are among those checked.
* Packets: `PACKET_VERIFIED` implies a sound packet, stated independently of the counters; rejection always comes
  with an error; `SUPPORTED` rests on verified bytes, observed once, even in rejected packets; `TRUSTED` covers every
  proof the pass required; `CURRENT` rests on a proven snapshot of this profile. A signature its named key did not make
  is always reported as `INVALID` (`ForgeryIsInvalid`). The converse holds up to the wording only: a genuinely signed
  statement whose kind, scope or numbers repeat the phrase "signature is invalid" in a message is reported as `INVALID`
  as well, and nothing else is (`InvalidMeansForgedOrQuoted`). A verified packet never says `SUPPORTED` (`PartialSupportIsNotSupport`): the witness needs a simulated
  scenario and the validator refuses "demonstrated" to a simulation. The rule exists in the documentation and
  emerges from two modules; no line of `verify_bundle` states it.
* Attestations: a capability of an accepted attestation was recomputed, by the portable check or by a replay with the
  same conditions, verdict, measurements and evidence bytes (`CapabilitiesAreRecomputed`); one adverse observation of
  a cited requirement blocks it, and what an observation cites is a file that shows it, shows nothing else, and is
  about this scenario at this time (`AdverseEvidenceBlocks`).
* Drill: a withdrawal is final within a run; a sequence number stands for one statement; reliance never goes
  back; a ready report has everybody's consent to the manifest as it is, and independent evidence, in the words of the files and not of the manifest
  (`ReadyIsIndependentlyVouched`).
* Artifacts: a packet that verifies is one build of one version, whatever died or was edited on the way
  (`VerifiedPacketIsOneBuild`); a packet comes to verify only in a step of a builder and then is all this builder writes,
  from the profile it started with (`PacketAppearsWithItsBuild`): no crash, edit or run brings a packet back; running
  both commands again repairs any damage (`RerunRepairs`).
* Assurance graph: a verified graph reports every claim with every reason its listed edges give, although the reasons
  come from indexes that keep the first item of each identifier (`VerifiedGraphHidesNothing`); its sources are the
  files on disk, whichever of them an identifier stands for (`VerifiedSourcesAreOnDisk`).

### Findings and observations

One run is expected to end in a violation; it compares the code with its own text.

* `shared_fate_gap`: the gap `fallback-shares-control-plane-idp` is detected whenever no fallback is left
  (`shared_fate.py:374`); its text says the fallback shares the failed boundary with primary execution,
  authorization, outcome lookup and handover, some of which may be available.

Met while modelling, and part of the models: in a packet whose predicate is left closed (pins mismatch, bundle
schema) only the bundle's own proof is required, so `TRUSTED` then speaks of the bundle alone; a payload with a
non-finite number is classified under issuer trust and leaves `checks.signature` at `VALID` although the
signature was not looked at (the packet is rejected in each case). An error whose text repeats a phrase of another is
filed under that other one. An unknown `authorization_guard_mode` is refused only on the branch that uses it
(`GuardModeUnknown`), a missing one always; parameters that are no numbers and a profile without the claim
`refund-provider-outage` end the shared-fate runner with an exception after the whole analysis (`ExerciseRaises`), and
the profile validator has no such checks, while its check of `sharedDependencies` (`validate_profile.py:277-284`) has no
counterpart in the runner. A declined acknowledgement cannot be recorded
in the high-watermarks.

The packet builder makes good inputs of stale ones. It binds whatever evidence and attestation it finds to the profile
as it stands and signs the result, so a baseline of another version, an attestation of a version that differs in
wording only, or one whose tail was cut off and is still well formed, end in a packet that verifies; it is the runner's
own `--verify` that is red then. `VerifiedPacketIsOneBuild` says what is left of the promise.

The portable check recounts effects after it has compared the artifact with its own reconstruction; the recount can
find nothing the comparison has not. The response-loss runner has the fault, the target, the shared dependencies
and the claim as literals; the declared `sharedDependencies` are validated and never read by the shared-fate runner.

In the assurance graph an invalidation reaches a claim directly or through the evidence that supports it, and no
further; a dependency that shares fate with itself counts as shared. The document asks inferred relations to stay
explicitly inferred, and the code does not compare `assurance` with `provenance.mode`. An edge of unknown type with
a known target is a `KeyError`. In an attestation, an adverse assertion inside a file that is cited for another
requirement blocks nothing unless it is listed as an observation.

## 4. Proofs

Eight modules hold theorems, for every value of the constants. With them every invariant and every action property
that a run checks on a small instance is also proved. The assumptions are named in the modules that declare the
constants, and TLC evaluates each of them on the instances it checks. Most are the types of the constants
(`WorkloadSizeAssumption`, `ComponentCountAssumption`, `GraphsAssumption`, `ProtocolAssumption`,
`RequiredCountAssumption`, `PacketAssumption`, `ComponentAssumption`, `ScenarioAssumption`, `PipelineAssumption`,
`FamiliesAssumption`). Some say more:

* `TopologiesAssumption`: a topology is a list of items, each with an identifier and a list of references, repeated
  or unlisted ones included. This is the shape the JSON Schema leaves.
* `ParametersAssumption`: backlog, rate and duration are naturals, the loss count is any integer, and a profile says
  five things of the scenario.
* `CallsAssumption`: observations and results are lists, times are integers, and at most one attestation is rebuilt
  (`_deterministic_replay_artifacts`, `validate_profile.py:296-321`, runs the game day of the scenario once).
* `PacketAssumption`: beside types, that every claim of a profile that passed its schema requires some capability
  (`minItems` in `recovery-claim.schema.json`), and that only the errors whose text repeats something of the envelope
  do so (`QuotingErrors`).
* `PipelineAssumption`: beside types, that the portable check accepts no conditions the runner refuses, as the two
  modules do (`portable_checks.py:48-52`, `runner.py:106-107`).

*Provider.* The idempotency index inverts the ledger: a key is in the index exactly if some effect has it, and
it points to the only one (`IndexInvertsLedger`, hence `KeyStandsForOneEffect`). A caller whose response was lost has
therefore left an effect the lookup by intent finds (`LostCallsCanBeReconciled`).

*Profile-aware.* The inductive invariant says that the ledger is a function of the cursor: entry `e` is the
effect of intent `e` under key `e`, and the ledger is as long as the number of intents committed, the one in the
exception handler included (`LedgerFollowsCursor`); the index agrees with it (`IndexFollowsLedger`); recognised
effects and the reconciliation count follow the cursor too (`StepAgrees`). `AtMostOneEffect` is not inductive:
it does not say why the next key is new. From the invariant follow `AwareRunIsSafe`, the step simulation
`RefinesExactlyOnce`, and for the run inside an experiment `NeverPaysTwice`, `CompletedRunIsSettled` and
`AmbiguityBlocksNewEffects`.

*Baseline and comparison.* The baseline's keys belong to intents behind the cursor, or to the first attempt of the one
being retried (`KeysArePast`), so each attempt commits; the ledger is as long as the intents behind the cursor
plus the losses among them (`LedgerGrowsWithLosses`). `BaselinePaysLossesTwice` itself is part of the invariant. The
summary counts duplicates intent by intent, as a fold over the set of paid intents; `DuplicatesAreTheExcess`
shows for every ledger that this is the number of effects less the number of intents. The phase of the experiment
fixes where both runs stand and what their summaries say (`PhaseAgrees`), and `ComparisonMeasuresTheLosses` follows.

*Portable witness.* A second invariant is about the record instead of the ledger: the events so far are, block after
block, what the portable check rebuilds for the intents behind the cursor (`EventsFollowBlocks`), and each event of
such an intent occurs once (`EventsOnce`). The first gives equality with the reconstruction at the end; the second
says what the recount by kind of event finds (`PositionsStandForIntents`). `WitnessIsExact` then reads off the
errors which profiles pass; the baseline's evidence fails on the length of its ledger. The reconstruction is a
concatenation of a sequence of blocks; the library defines it by a recursive function, whose existence the proof shows
on the initial segments (`FlattenSeqFlattens`).

*Search, validation and propagation.* The search keeps the classical reading of its marks: the frames are a path of
the graph and hold the active nodes (`StackIsPath`, `ActiveIsOnStack`), whatever a frame has gone by is finished
(`PassedAreFinished`), and the finished nodes refer to finished nodes only (`FinishedIsClosed`). That alone does not
exclude a cycle among finished nodes, so the invariant has in addition that every non-empty set of finished nodes
has a member that refers to none of them (`FinishedIsAcyclic`). A silent search has finished every node, hence
`NoCycleIsMissed`; a reported cycle is the upper part of the stack (`ReportedCyclesExist`). Around the search,
shadowing and unlisted references are errors of their own, and without them the graph searched is the topology
(`AcceptanceIsExact`, `CycleErrorIsExact`).
In the propagation the disabled set lies between the targets and their closure, and if the current pass has changed
nothing, every component it has passed is disabled or depends on nothing disabled (`PassedAreSettled`). At the end of
an unchanged pass the set is closed upwards, hence contains the least closed set: `PropagationIsExact`.
`RefinesPropagation` says that the validation hands over what the loop starts from and that from there on every
step of the call is a step of the loop.

*Attestations.* The two loops of the validator carry identifiers from one to the other; the invariant says that what
they have collected is what the specification of the whole call gives for the observations passed
(`LoopsComputeTheSemantics`). An accepted attestation has no repeated identifiers, so the sound, satisfied or
replayed observation an identifier stands for is unique, and from there on `AdverseEvidenceAlwaysBlocks` and
`CapabilitiesAreAlwaysRecomputed` are about single observations and bindings.

*Shared fate.* The invariant says what each phase has established: validation passed, the set disabled is the closure
of the targets (`Established`), no examined target that takes two critical roles down was passed over
(`GroupsAreComplete`), and a run that ended without a report had a reason (`RaisedForAReason`). `DamageIsBounded` needs
a fact about graphs besides: what the targets disable together, one of them disables alone (`DisabledByOne`), so each
role lost is the only one some target takes down.

*Drill.* `RelianceIsUnequivocal` and `RelianceNeverGoesBack` compare what any two ready reports of a run relied on,
with any number of preflights between them. The invariant replaces that history by one fact about the present:
for whatever was relied on, the consumer's high-watermarks file of the run holds that very statement, one with a
higher number, or a withdrawal of the participant (`ReliedAreDominated`). The unequivocal part is itself needed for the induction.
`WithdrawalStays` needs no invariant: it follows from what a preflight asks of the file it reads. The two theorems
about readiness unfold what it takes for the set of missing prerequisites to be empty, and use that a statement's
identifier determines it (`SignedAreStatements`) and that a file without errors says what was claimed of it
(`ValidMeansFavourable`).

*Packets.* The verdict knows accumulators only. The invariant ties them to the packet in two ways: as long as
no error is recorded, everything the pass has looked at was sound (`SilenceMeansSound`); and the proof count has
kept up with the cursor only if every proof so far was sound (`CountCovers`). The second part is needed because
`TRUSTED` is reported in packets with errors of other kinds, where silence says nothing. A third part (`Rests`) keeps
for every artifact accepted as support, and for the snapshot, the proof it rests on; from it follow `SupportIsProven`,
`NoSupportWhenVerified` and `CurrentIsProven`. A fourth (`Signatures`) is about the envelopes seen so far: the list of
signature errors is empty only if none of them is forged, and if it is not, one of them is forged or quotes the phrase
(`SignaturesAgree`). Its lemmas are about the classification: a bad signature is an error of exactly the forged
envelopes (`BadSignature`), no wording moves it to another list (`BadSignatureIsListed`), and what else gets there
repeats the phrase (`SignatureErrors`). From it follow `ForgeryIsReported` and `InvalidOnlyIfForgedOrQuoted`.

*Artifacts.* Whatever the bundle file holds complete is the bundle of some build (`IsBuilt`), so an inventory that
matches the disk pins all twelve files to that build. A command's remaining output follows from what it started from
(`OutputFollows`), and what was completed since the last edit is current as long as no later command disturbs it
(`FreshIsCurrent`). For `PacketsAppearBuilt` the order of writing matters: the bundle is the builder's first file, so
when the packet comes to verify the bundle on disk is the one this builder wrote, and pins the rest.

*Assurance graph.* As long as no error is recorded, each index holds exactly the items its loop has passed: nothing
was shadowed, for a shadowed item is an error. At the end the reasons from the indexes are the reasons from the lists
(`NothingIsHidden`).

Model-checked only: what must eventually happen, `ExperimentCompletes`, `CallEnds` and the part of
`ImplementsExactlyOnce` that says so. Fairness and ENABLED are beyond the provers; the safety part of
the refinement is `RefinesExactlyOnce`.

## 5. Not modelled, and the plan

Not modelled, and why:

* Parsing, JSON Schema, path safety, cryptography and digests: libraries and I/O, inputs of the models.
* Formatting of reports and attestations (`build_artifacts`): layout. What the portable check compares is modelled.
* The shared-fate game day's copy of writing and verifying artifacts: the same two functions as in `runner.py` over
  files nothing else is built from.
* `validate_profile`'s other cross references: each is the lookup of an identifier in a set, independent of the others.
* Exercise evidence in a packet is a signed item of that role or an opaque artifact; a signed item of another role that an
  observation cites fails as a missing file does. The schema check of the result itself (`verify_bundle.py:604-613`) can
  only turn a verified packet into a rejected one.
* Agreement of the profile validator and the shared-fate runner: what both check is the same comparison written twice.
* The preflight's comparison of roles, channel and safeguard subjects with the manifest (`human_drill.py:400-426`, 568,
  600): without it the model calls more preflights ready than the code does, so what holds of readiness there holds here.
* `sign_artifact.py` and `export_verifier.py`: they sign and copy single files; command lines.
* The runtime-state schema (no code moves through its states), and the byte copy of the runner kept as packet evidence.

What is left, in this order:

1. Measures that decrease with every step of the experiment and of a validated call: the part of termination that
   is a property of steps.
2. The contract between `SharedFate` and `ValidatedPropagation` as a theorem: what the experiment takes as the
   closure is what the loop returns.
3. Type correctness of the specifications whose invariants include it without a theorem of its own.

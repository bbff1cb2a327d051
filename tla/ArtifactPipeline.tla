--------------------------- MODULE ArtifactPipeline ---------------------------
(***************************************************************************)
(* The files of the refund game day and of the portable packet, and the     *)
(* commands that write and verify them: the runner computes its artifacts   *)
(* from the profile, the packet builder re-digests and signs what it finds  *)
(* on disk.  Both write one file after the other, in place, without a lock  *)
(* or a rename; a command may die between two files or inside one, and the  *)
(* profile may be edited at any time.                                       *)
(* Content is abstracted to what it was computed from.  A digest of content *)
(* is that content, a proof is what it signs.  The evidence depends on the  *)
(* profile through the conditions of its scenario only.                     *)
(***************************************************************************)
EXTENDS Naturals, Sequences

CONSTANTS
  Profile,       \* versions of profile.yaml, with the scenario and its claim
  ConditionsOf,  \* workload, losses and seed a version gives the scenario
  Runnable,      \* conditions the runner accepts
  Witnessing,    \* conditions the portable check accepts: some response is lost
  MaxEdits,      \* bound on the edits of the profile
  MaxRuns        \* bound on the commands that write

ASSUME PipelineAssumption ==
  /\ Witnessing \subseteq Runnable
  /\ MaxEdits \in Nat /\ MaxRuns \in Nat

VARIABLES
  profile,  \* the profile as it stands
  disk,     \* the generated files
  job,      \* the command that is writing, if any
  fresh,    \* history: commands completed, in order, since the last edit
  edits, runs

vars == <<profile, disk, job, fresh, edits, runs>>

-----------------------------------------------------------------------------
(* Files and their content *)

\* In the order the commands write them.
GameDayFiles == <<"report", "aware", "baseline", "attestation">>

\* Seeded fault: the bundle is written when the artifacts it lists are.
PacketFilesBundleLast ==
  <<"policy", "packed_profile", "packed_attestation", "attestation_proof",
    "packed_aware", "aware_proof", "packed_baseline", "baseline_proof", "packed_runner",
    "snapshot", "snapshot_proof", "bundle">>

PacketFiles ==
  <<"bundle", "policy", "packed_profile", "packed_attestation", "attestation_proof",
    "packed_aware", "aware_proof", "packed_baseline", "baseline_proof", "packed_runner",
    "snapshot", "snapshot_proof">>

Absent == [kind |-> "absent"]
Torn   == [kind |-> "torn"]     \* truncated, and not yet or never written again

Report(c)   == [kind |-> "report", conditions |-> c]
Evidence(variant, c) == [kind |-> "evidence", variant |-> variant, conditions |-> c]
Source == [kind |-> "source"]   \* runner.py
Policy == [kind |-> "policy"]
Packed(p)   == [kind |-> "profile", profile |-> p]
Proof(content) == [kind |-> "proof", signs |-> content]
Snapshot(p) == [kind |-> "snapshot", profile |-> p]
Attestation(p, c, aware, baseline, whole) ==
  [kind |-> "attestation", profile |-> p, conditions |-> c, aware |-> aware,
   baseline |-> baseline, whole |-> whole]

\* What the runner computes from a profile.
Run(p) ==
  LET c == ConditionsOf[p]
  IN  [report |-> Report(c), aware |-> Evidence("aware", c),
       baseline |-> Evidence("baseline", c),
       attestation |-> Attestation(p, c, Evidence("aware", c), Evidence("baseline", c), TRUE)]

\* What the builder makes of a profile, two pieces of evidence and an attestation:
\* the attestation is bound to this profile and this evidence, whatever it was
\* made for, and the bundle lists the digest of everything but the policy.
Build(p, aware, baseline, attestation) ==
  LET bound == [attestation EXCEPT !.profile = p, !.aware = aware, !.baseline = baseline]
      contents ==
        [packed_profile |-> Packed(p),
         packed_attestation |-> bound, attestation_proof |-> Proof(bound),
         packed_aware |-> aware, aware_proof |-> Proof(aware),
         packed_baseline |-> baseline, baseline_proof |-> Proof(baseline),
         packed_runner |-> Source,
         snapshot |-> Snapshot(p), snapshot_proof |-> Proof(Snapshot(p))]
  IN  [contents |-> contents, bundle |-> [kind |-> "bundle", inventory |-> contents]]

Artifacts == {PacketFiles[k] : k \in DOMAIN PacketFiles} \ {"bundle", "policy"}

\* The twelve files of a packet, by name.
PacketOf(build) ==
  [f \in {PacketFiles[k] : k \in DOMAIN PacketFiles} |->
     IF f = "bundle" THEN build.bundle
     ELSE IF f = "policy" THEN Policy ELSE build.contents[f]]

Built == PacketOf(Build(profile, disk.aware, disk.baseline, disk.attestation))

-----------------------------------------------------------------------------
(* The commands that verify *)

Holds(expected) == \A f \in DOMAIN expected : disk[f] = expected[f]

\* runner --verify: every artifact is there and has the bytes it would be given.
RunnerVerifies ==
  /\ ConditionsOf[profile] \in Runnable
  /\ Holds(Run(profile))

\* The builder can load the evidence and the attestation it starts from.
InputsLoad ==
  /\ disk.aware.kind = "evidence"
  /\ disk.baseline.kind = "evidence"
  /\ disk.attestation.kind = "attestation"

\* portable_bundle --verify: the same, against the files of the game day as they are.
BuilderVerifies == InputsLoad /\ Holds(Built)

\* Seeded fault: an artifact need not have the digest the bundle lists.
InventoryHoldsUnchecked ==
  /\ disk.bundle.kind = "bundle"
  /\ \A f \in Artifacts : disk[f].kind \notin {"absent", "torn"}

InventoryHolds ==
  /\ disk.bundle.kind = "bundle"
  /\ \A f \in Artifacts : disk[f] = disk.bundle.inventory[f]

ProofsHold ==
  /\ disk.attestation_proof = Proof(disk.packed_attestation)
  /\ disk.aware_proof = Proof(disk.packed_aware)
  /\ disk.baseline_proof = Proof(disk.packed_baseline)
  /\ disk.snapshot_proof = Proof(disk.snapshot)

\* The attestation and the snapshot are about this profile, and the evidence and
\* the conditions are those recomputed from it; the baseline is any evidence.
ClaimHolds ==
  LET p == disk.packed_profile.profile
      attestation == disk.packed_attestation
  IN  /\ ConditionsOf[p] \in Witnessing
      /\ attestation.profile = p
      /\ disk.snapshot.profile = p
      /\ attestation.conditions = ConditionsOf[p]
      /\ attestation.aware = disk.packed_aware
      /\ attestation.baseline = disk.packed_baseline
      /\ disk.packed_aware = Evidence("aware", ConditionsOf[p])

\* verify_bundle reports PACKET_VERIFIED.
PacketVerifies == disk.policy = Policy /\ InventoryHolds /\ ProofsHold /\ ClaimHolds

\* The steps of the workflow that look at these files.
Green == RunnerVerifies /\ BuilderVerifies /\ PacketVerifies

-----------------------------------------------------------------------------
(* The commands that write, and what disturbs them *)

NoJob == [tool |-> "none", next |-> 1, output |-> << >>, source |-> {}, open |-> FALSE]

FilesOf(tool) ==
  IF tool = "runner" THEN GameDayFiles ELSE IF tool = "builder" THEN PacketFiles ELSE << >>

File == {GameDayFiles[k] : k \in DOMAIN GameDayFiles}
          \cup {PacketFiles[k] : k \in DOMAIN PacketFiles}

Nothing == [f \in File |-> Absent]

\* A checkout of the repository, or of one whose artifacts were never generated.
Init ==
  /\ profile \in Profile
  /\ \/ disk = Nothing
     \/ /\ ConditionsOf[profile] \in Runnable
        /\ LET run == Run(profile)
               packet == PacketOf(Build(profile, run.aware, run.baseline, run.attestation))
           IN  disk = [f \in File |-> IF f \in DOMAIN run THEN run[f] ELSE packet[f]]
  /\ job = NoJob
  /\ fresh = << >>
  /\ edits = 0
  /\ runs = 0

Edit(p) ==
  /\ edits < MaxEdits
  /\ p # profile
  /\ profile' = p
  /\ edits' = edits + 1
  /\ fresh' = << >>
  /\ UNCHANGED <<disk, job, runs>>

CanStart == job = NoJob /\ runs < MaxRuns

\* Seeded fault: a command resumes at the first file that does not exist.
FirstMissing(files) ==
  CHOOSE k \in 1 .. Len(files) + 1 :
    /\ k <= Len(files) => disk[files[k]] = Absent
    /\ \A j \in 1 .. k - 1 : disk[files[j]] # Absent

\* The file a command begins with: it writes all of them, in order.
FirstToWrite(files) == 1

Start(tool, output) ==
  /\ CanStart
  /\ job' = [tool |-> tool, next |-> FirstToWrite(FilesOf(tool)), output |-> output,
             source |-> {profile}, open |-> FALSE]
  /\ runs' = runs + 1
  /\ UNCHANGED <<profile, disk, edits>>

StartRun ==
  /\ ConditionsOf[profile] \in Runnable
  /\ Start("runner", Run(profile))
  /\ fresh' = << >>

\* Loss counts outside the workload raise before anything is written.
RefuseRun ==
  /\ CanStart
  /\ ConditionsOf[profile] \notin Runnable
  /\ runs' = runs + 1
  /\ UNCHANGED <<profile, disk, job, fresh, edits>>

StartBuild ==
  /\ InputsLoad
  /\ Start("builder", Built)
  /\ fresh' = IF fresh = << >> THEN << >> ELSE <<"runner">>

\* A missing or torn input ends the builder before anything is written.
RefuseBuild ==
  /\ CanStart
  /\ ~InputsLoad
  /\ runs' = runs + 1
  /\ UNCHANGED <<profile, disk, job, fresh, edits>>

\* The file the command is at.
Current == FilesOf(job.tool)[job.next]
AllWritten == job.next > Len(FilesOf(job.tool))

\* write_bytes truncates the file ...
OpenFile ==
  /\ ~AllWritten
  /\ ~job.open
  /\ disk' = [disk EXCEPT ![Current] = Torn]
  /\ job' = [job EXCEPT !.open = TRUE]
  /\ UNCHANGED <<profile, fresh, edits, runs>>

\* ... and then writes it.
WriteFile ==
  /\ job.open
  /\ disk' = [disk EXCEPT ![Current] = job.output[Current]]
  /\ job' = [job EXCEPT !.open = FALSE, !.next = job.next + 1]
  /\ UNCHANGED <<profile, fresh, edits, runs>>

\* The history records a run of the runner on the profile as it is now, and a
\* build after such a run.
Finish ==
  /\ job # NoJob
  /\ AllWritten
  /\ fresh' = IF /\ job.source = {profile}
                 /\ fresh = (IF job.tool = "builder" THEN <<"runner">> ELSE << >>)
              THEN Append(fresh, job.tool) ELSE fresh
  /\ job' = NoJob
  /\ UNCHANGED <<profile, disk, edits, runs>>

\* The command dies.  Of the file being written nothing usable is left, or, of
\* the attestation, a beginning that still loads: its last lists cut short.
Crash ==
  /\ job # NoJob
  /\ job' = NoJob
  /\ \/ disk' = disk
     \/ /\ job.open
        /\ Current = "attestation"
        /\ disk' = [disk EXCEPT !.attestation = [job.output.attestation EXCEPT !.whole = FALSE]]
  /\ UNCHANGED <<profile, fresh, edits, runs>>

Next ==
  \/ \E p \in Profile : Edit(p)
  \/ StartRun \/ RefuseRun \/ StartBuild \/ RefuseBuild
  \/ OpenFile \/ WriteFile \/ Finish \/ Crash

Spec == Init /\ [][Next]_vars

-----------------------------------------------------------------------------

TypeOK ==
  /\ profile \in Profile
  /\ DOMAIN disk = File
  /\ edits \in 0 .. MaxEdits /\ runs \in 0 .. MaxRuns
  /\ job.tool \in {"none", "runner", "builder"}
  /\ fresh \in {<< >>, <<"runner">>, <<"runner", "builder">>}

(***************************************************************************)
(* A packet that verifies is the output of one build, made of the profile,  *)
(* the evidence and the attestation it carries: whatever commands died on   *)
(* the way, files of two builds never verify together.                      *)
(***************************************************************************)
VerifiedPacketIsOneBuild ==
  PacketVerifies =>
    Holds(PacketOf(Build(disk.packed_profile.profile, disk.packed_aware,
                         disk.packed_baseline, disk.packed_attestation)))

(***************************************************************************)
(* A packet comes to verify only in a step of a builder, and then all its   *)
(* files are what this builder writes, from the profile it started with.    *)
(* Nothing else brings a packet back: not the next command writing over     *)
(* what a crash has torn, not an edit undone, not the runner.               *)
(***************************************************************************)
PacketAppearsWithItsBuild ==
  [][~PacketVerifies /\ PacketVerifies' =>
       /\ job.tool = "builder"
       /\ \A f \in DOMAIN job.output : disk'[f] = job.output[f]
       /\ job.source = {disk'.packed_profile.profile}]_vars

(***************************************************************************)
(* Running the two commands again, in order and to their end, repairs       *)
(* whatever crashes and edits have left behind: no damage survives a        *)
(* complete run after it.                                                   *)
(***************************************************************************)
RerunRepairs ==
  /\ fresh # << >> => RunnerVerifies
  /\ Len(fresh) = 2 /\ ConditionsOf[profile] \in Witnessing => Green
=============================================================================

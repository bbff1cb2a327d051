----------------------- MODULE ArtifactPipelineProofs -----------------------
(***************************************************************************)
(* Proofs about the artifact pipeline, for any versions of the profile, any *)
(* conditions and any number of edits, commands and crashes.  A bundle on   *)
(* disk always is one the builder computed; what a command has written so   *)
(* far is its output; and while the history says that the files are fresh,  *)
(* nothing has touched what they were computed from.                        *)
(***************************************************************************)
EXTENDS ArtifactPipeline, SequenceTheorems, TLAPS

GameDayFile == {"report", "aware", "baseline", "attestation"}

\* A bundle that the builder computed, from what its own inventory lists.
IsBuilt(b) ==
  b = Build(b.inventory.packed_profile.profile, b.inventory.packed_aware,
            b.inventory.packed_baseline, b.inventory.packed_attestation).bundle

\* The files of one packet, built from what it carries.
IsPacket(output) ==
  output = PacketOf(Build(output.packed_profile.profile, output.packed_aware,
                          output.packed_baseline, output.packed_attestation))

Written == {FilesOf(job.tool)[k] : k \in 1 .. job.next - 1}

JobShape ==
  \/ job = NoJob
  \/ /\ job = [tool |-> job.tool, next |-> job.next, output |-> job.output,
               source |-> job.source, open |-> job.open]
     /\ job.tool \in {"runner", "builder"}
     /\ job.next \in 1 .. Len(FilesOf(job.tool)) + 1
     /\ job.open \in BOOLEAN
     /\ job.open => job.next \in 1 .. Len(FilesOf(job.tool))

\* A running command writes the output of one build or run, and leaves it.
OutputFollows ==
  /\ job.tool = "runner" => \E p \in Profile :
       job.source = {p} /\ ConditionsOf[p] \in Runnable /\ job.output = Run(p)
  /\ job.tool = "builder" =>
       /\ IsBuilt(job.output.bundle) /\ DOMAIN job.output = File \ GameDayFile
       /\ IsPacket(job.output) /\ job.source = {job.output.packed_profile.profile}
  /\ job # NoJob => \A f \in Written : disk[f] = job.output[f]

\* What the history calls fresh is so, and is not being overwritten.
FreshIsCurrent ==
  /\ job.tool = "runner" => fresh = << >>
  /\ fresh # << >> => RunnerVerifies
  /\ job.tool = "builder" => fresh \in {<< >>, <<"runner">>}
  /\ job.tool = "builder" /\ fresh # << >> => job.output = Built
  /\ fresh = <<"runner", "builder">> => BuilderVerifies

IInv ==
  /\ profile \in Profile
  /\ DOMAIN disk = File
  /\ JobShape
  /\ fresh \in {<< >>, <<"runner">>, <<"runner", "builder">>}
  /\ disk.bundle.kind = "bundle" => IsBuilt(disk.bundle)
  /\ OutputFollows
  /\ FreshIsCurrent

-----------------------------------------------------------------------------
(* Facts about the files and about builds *)

\* The runner's files, one after the other.
LEMMA RunnerFiles ==
  /\ Len(FilesOf("runner")) = 4
  /\ \A k \in 1 .. 4 : FilesOf("runner")[k] \in GameDayFile /\ FilesOf("runner")[k] \in File
  /\ \A f \in GameDayFile : f \in File /\ \E k \in 1 .. 4 : FilesOf("runner")[k] = f
  /\ \A j, k \in 1 .. 4 : FilesOf("runner")[j] = FilesOf("runner")[k] => j = k
BY DEF FilesOf, GameDayFiles, GameDayFile, File

\* The builder's twelve, none of which is the runner's.
LEMMA BuilderFiles ==
  /\ Len(FilesOf("builder")) = 12
  /\ \A k \in 1 .. 12 : FilesOf("builder")[k] \in File \ GameDayFile
  /\ \A f \in File \ GameDayFile : \E k \in 1 .. 12 : FilesOf("builder")[k] = f
  /\ \A j, k \in 1 .. 12 : FilesOf("builder")[j] = FilesOf("builder")[k] => j = k
  /\ "bundle" \in File \ GameDayFile
BY DEF FilesOf, PacketFiles, GameDayFiles, GameDayFile, File

\* Binding what is bound already changes nothing.
LEMMA BuildIsBuilt ==
  ASSUME NEW p, NEW a, NEW b, NEW t
  PROVE  IsBuilt(Build(p, a, b, t).bundle)
BY DEF IsBuilt, Build, Packed

LEMMA PacketIsPacket ==
  ASSUME NEW p, NEW a, NEW b, NEW t
  PROVE  /\ IsPacket(PacketOf(Build(p, a, b, t)))
         /\ PacketOf(Build(p, a, b, t)).packed_profile.profile = p
<1> DEFINE packet == PacketOf(Build(p, a, b, t))
           bound == [t EXCEPT !.profile = p, !.aware = a, !.baseline = b]
<1>1. /\ packet.packed_profile = Packed(p) /\ packet.packed_aware = a
      /\ packet.packed_baseline = b /\ packet.packed_attestation = bound
  BY DEF PacketOf, PacketFiles, Build
<1>2. Packed(p).profile = p
  BY DEF Packed
<1>3. Build(p, a, b, bound) = Build(p, a, b, t)
  BY DEF Build
<1> QED
  BY <1>1, <1>2, <1>3 DEF IsPacket

\* What both lists of files have in common.
LEMMA FileFacts ==
  ASSUME NEW tool \in {"runner", "builder"}
  PROVE  /\ Len(FilesOf(tool)) \in Nat \ {0}
         /\ \A k \in 1 .. Len(FilesOf(tool)) : FilesOf(tool)[k] \in File
         /\ \A j, k \in 1 .. Len(FilesOf(tool)) : FilesOf(tool)[j] = FilesOf(tool)[k] => j = k
<1>1. CASE tool = "runner"
  BY <1>1, RunnerFiles
<1>2. CASE tool = "builder"
  <2>1. /\ Len(FilesOf("builder")) = 12
        /\ \A k \in 1 .. 12 : FilesOf("builder")[k] \in File
        /\ \A j, k \in 1 .. 12 : FilesOf("builder")[j] = FilesOf("builder")[k] => j = k
    BY BuilderFiles
  <2>2. 12 \in Nat \ {0}
    OBVIOUS
  <2> QED
    BY <1>2, <2>1, <2>2, Zenon
<1>3. tool = "runner" \/ tool = "builder"
  OBVIOUS
<1> QED
  BY <1>1, <1>2, <1>3

LEMMA RunDomain ==
  ASSUME NEW p
  PROVE  /\ DOMAIN Run(p) = GameDayFile
         /\ Run(p).aware.kind = "evidence"
         /\ Run(p).baseline.kind = "evidence"
         /\ Run(p).attestation.kind = "attestation"
BY DEF Run, GameDayFile, Evidence, Attestation

LEMMA PacketDomain ==
  ASSUME NEW b
  PROVE  /\ DOMAIN PacketOf(b) = File \ GameDayFile
         /\ PacketOf(b).bundle = b.bundle
BY DEF PacketOf, PacketFiles, GameDayFiles, GameDayFile, File

\* What the files of a packet hold.
LEMMA PacketFields ==
  ASSUME NEW b
  PROVE  /\ Artifacts = File \ (GameDayFile \cup {"bundle", "policy"})
         /\ \A f \in Artifacts : PacketOf(b)[f] = b.contents[f]
         /\ PacketOf(b)["policy"] = Policy
         /\ {"packed_profile", "packed_attestation", "attestation_proof", "packed_aware",
             "aware_proof", "packed_baseline", "baseline_proof", "snapshot",
             "snapshot_proof"} \subseteq Artifacts
BY DEF PacketOf, PacketFiles, GameDayFiles, GameDayFile, File, Artifacts

\* The three histories, and how one follows the other.
LEMMA Histories ==
  /\ Append(<< >>, "runner") = <<"runner">>
  /\ Append(<<"runner">>, "builder") = <<"runner", "builder">>
  /\ Len(<< >>) = 0 /\ Len(<<"runner">>) = 1 /\ Len(<<"runner", "builder">>) = 2
<1> DEFINE done == Append(<<"runner">>, "builder")
<1>1. /\ done \in Seq({"runner", "builder"}) /\ Len(done) = 2
      /\ done[1] = "runner" /\ done[2] = "builder"
  BY AppendProperties
<1>2. done = <<"runner", "builder">>
  <2>1. <<"runner", "builder">> \in Seq({"runner", "builder"})
    OBVIOUS
  <2> HIDE DEF done
  <2> QED
    BY <1>1, <2>1, SeqEqual
<1>3. Append(<< >>, "runner") = <<"runner">>
  OBVIOUS
<1> QED
  BY <1>2, <1>3

\* A command that is not the runner leaves the files of the game day alone, and
\* with them everything that is computed from them.
LEMMA GameDayUndisturbed ==
  ASSUME UNCHANGED profile, \A f \in GameDayFile : disk'[f] = disk[f]
  PROVE  /\ RunnerVerifies' <=> RunnerVerifies
         /\ InputsLoad' <=> InputsLoad
         /\ Built' = Built
<1>1. "aware" \in GameDayFile /\ "baseline" \in GameDayFile /\ "attestation" \in GameDayFile
  BY DEF GameDayFile
<1>2. RunnerVerifies' <=> RunnerVerifies
  BY RunDomain DEF RunnerVerifies, Holds
<1>3. disk'.aware = disk.aware /\ disk'.baseline = disk.baseline
        /\ disk'.attestation = disk.attestation
  BY <1>1
<1> QED
  BY <1>2, <1>3 DEF InputsLoad, Built

-----------------------------------------------------------------------------
(* The inductive invariant *)

LEMMA InitIInv == Init => IInv
<1> SUFFICES ASSUME Init PROVE IInv
  OBVIOUS
<1>1. DOMAIN disk = File
  BY DEF Init, Nothing
<1>2. job = NoJob /\ job.tool = "none" /\ fresh = << >>
  BY DEF Init, NoJob
<1>3. ASSUME disk.bundle.kind = "bundle" PROVE IsBuilt(disk.bundle)
  <2>1. disk # Nothing
    BY <1>3, BuilderFiles DEF Nothing, Absent
  <2>2. PICK b : /\ IsBuilt(b.bundle)
                 /\ disk = [f \in File |-> IF f \in DOMAIN Run(profile)
                                          THEN Run(profile)[f] ELSE PacketOf(b)[f]]
    BY <2>1, BuildIsBuilt DEF Init
  <2>3. disk["bundle"] = PacketOf(b)["bundle"]
    BY <2>2, BuilderFiles, RunDomain
  <2> QED
    BY <2>2, <2>3, PacketDomain
<1> QED
  BY <1>1, <1>2, <1>3 DEF Init, IInv, JobShape, OutputFollows, FreshIsCurrent

\* Editing the profile makes everything stale, and touches nothing else.
LEMMA EditIInv == ASSUME IInv, NEW p \in Profile, Edit(p) PROVE IInv'
BY DEF Edit, IInv, JobShape, OutputFollows, FreshIsCurrent, Written

LEMMA RefuseIInv == ASSUME IInv, RefuseRun \/ RefuseBuild PROVE IInv'
BY DEF RefuseRun, RefuseBuild, IInv, JobShape, OutputFollows, FreshIsCurrent, Written,
       RunnerVerifies, BuilderVerifies, InputsLoad, Built, Holds

LEMMA StartRunIInv == ASSUME IInv, StartRun PROVE IInv'
<1>1. /\ job' = [tool |-> "runner", next |-> 1, output |-> Run(profile),
                 source |-> {profile}, open |-> FALSE]
      /\ UNCHANGED <<profile, disk>> /\ fresh' = << >>
      /\ ConditionsOf[profile] \in Runnable
  BY DEF StartRun, Start, FirstToWrite
<1>2. job'.tool = "runner" /\ job'.next = 1 /\ Written' = {}
  BY <1>1 DEF Written
<1>3. JobShape'
  BY <1>1, FileFacts DEF JobShape
<1>4. OutputFollows'
  BY <1>1, <1>2 DEF OutputFollows, IInv
<1>5. FreshIsCurrent'
  BY <1>1 DEF FreshIsCurrent
<1> QED
  BY <1>1, <1>3, <1>4, <1>5 DEF IInv

LEMMA StartBuildIInv == ASSUME IInv, StartBuild PROVE IInv'
<1>1. /\ job' = [tool |-> "builder", next |-> 1, output |-> Built,
                 source |-> {profile}, open |-> FALSE]
      /\ UNCHANGED <<profile, disk>> /\ fresh' \in {<< >>, <<"runner">>}
      /\ fresh' # << >> => fresh # << >>
  <2>1. fresh' = IF fresh = << >> THEN << >> ELSE <<"runner">>
    BY DEF StartBuild
  <2> QED
    BY <2>1 DEF StartBuild, Start, FirstToWrite, IInv
<1>2. job'.tool = "builder" /\ job'.next = 1 /\ Written' = {}
  BY <1>1 DEF Written
<1>3. JobShape'
  BY <1>1, FileFacts DEF JobShape
<1>4. OutputFollows'
  <2>1. /\ IsBuilt(Built.bundle) /\ DOMAIN Built = File \ GameDayFile
        /\ IsPacket(Built) /\ Built.packed_profile.profile = profile
    <3> DEFINE b == Build(profile, disk.aware, disk.baseline, disk.attestation)
    <3>1. Built = PacketOf(b) /\ PacketOf(b).bundle = b.bundle
          /\ DOMAIN PacketOf(b) = File \ GameDayFile
      BY PacketDomain DEF Built
    <3>2. IsBuilt(b.bundle)
      BY BuildIsBuilt
    <3>3. IsPacket(PacketOf(b)) /\ PacketOf(b).packed_profile.profile = profile
      BY PacketIsPacket
    <3> HIDE DEF b
    <3> QED
      BY <3>1, <3>2, <3>3
  <2> QED
    BY <1>1, <1>2, <2>1 DEF OutputFollows
<1>5. RunnerVerifies' <=> RunnerVerifies
  BY <1>1, GameDayUndisturbed
<1>6. Built' = Built
  BY <1>1, GameDayUndisturbed
<1>7. FreshIsCurrent'
  BY <1>1, <1>5, <1>6 DEF FreshIsCurrent, IInv
<1> QED
  BY <1>1, <1>3, <1>4, <1>7 DEF IInv

\* A running command is at one of its files, apart from those it has written.
LEMMA CurrentFacts ==
  ASSUME IInv, job # NoJob, ~AllWritten
  PROVE  /\ job.tool \in {"runner", "builder"}
         /\ Current \in File
         /\ job.next \in 1 .. Len(FilesOf(job.tool))
         /\ \A f \in Written : f # Current
         /\ job.tool = "runner" => Current \in GameDayFile /\ Current # "bundle"
         /\ job.tool = "builder" => Current \notin GameDayFile
<1>1. job.tool \in {"runner", "builder"} /\ job.next \in 1 .. Len(FilesOf(job.tool))
  BY FileFacts DEF IInv, JobShape, AllWritten
<1>2. Current \in File /\ \A f \in Written : f # Current
  BY <1>1, FileFacts DEF Current, Written
<1>3. job.tool = "runner" => Current \in GameDayFile
  BY <1>1, RunnerFiles DEF Current
<1>4. job.tool = "builder" => Current \notin GameDayFile
  BY <1>1, BuilderFiles DEF Current
<1> QED
  BY <1>1, <1>2, <1>3, <1>4, BuilderFiles

\* Truncating a file damages nothing that is called written or fresh.
LEMMA OpenIInv == ASSUME IInv, OpenFile PROVE IInv'
<1>1. job # NoJob /\ ~AllWritten
  BY DEF OpenFile, AllWritten, FilesOf, NoJob
<1>2. /\ job' = [job EXCEPT !.open = TRUE]
      /\ DOMAIN disk' = File /\ disk'[Current] = Torn
      /\ \A f \in File : f # Current => disk'[f] = disk[f]
      /\ UNCHANGED <<profile, fresh>>
  BY <1>1, CurrentFacts DEF OpenFile, IInv
<1>3. /\ job'.tool = job.tool /\ job'.next = job.next /\ job'.output = job.output
      /\ job'.source = job.source /\ job' # NoJob /\ Written' = Written
  BY <1>1, <1>2 DEF IInv, JobShape, NoJob, Written
<1>4. JobShape'
  BY <1>1, <1>2, CurrentFacts DEF IInv, JobShape
<1>5. disk'.bundle.kind = "bundle" => IsBuilt(disk'.bundle)
  BY <1>2, BuilderFiles DEF IInv, Torn
<1>6. \A f \in Written : f \in File /\ f # Current
  BY <1>1, CurrentFacts, FileFacts DEF Written
<1>7. OutputFollows'
  BY <1>1, <1>2, <1>3, <1>6 DEF OutputFollows, IInv
<1>8. FreshIsCurrent'
  <2>1. CASE job.tool = "runner"
    BY <1>2, <1>3, <2>1 DEF FreshIsCurrent, IInv
  <2>2. CASE job.tool = "builder"
    <3>1. \A f \in GameDayFile : disk'[f] = disk[f]
      BY <1>1, <1>2, <2>2, CurrentFacts, RunnerFiles
    <3>2. (RunnerVerifies' <=> RunnerVerifies) /\ Built' = Built
      BY <1>2, <3>1, GameDayUndisturbed
    <3> QED
      BY <1>2, <1>3, <2>2, <3>2 DEF FreshIsCurrent, IInv
  <2> QED
    BY <1>1, <2>1, <2>2, CurrentFacts
<1> QED
  BY <1>2, <1>4, <1>5, <1>7, <1>8 DEF IInv

\* A file written in full holds the command's output, like those before it.
LEMMA WriteIInv == ASSUME IInv, WriteFile PROVE IInv'
<1>1. job # NoJob /\ ~AllWritten
  BY FileFacts DEF WriteFile, AllWritten, NoJob, IInv, JobShape
<1>2. /\ job' = [job EXCEPT !.open = FALSE, !.next = job.next + 1]
      /\ DOMAIN disk' = File /\ disk'[Current] = job.output[Current]
      /\ \A f \in File : f # Current => disk'[f] = disk[f]
      /\ UNCHANGED <<profile, fresh>>
  BY <1>1, CurrentFacts DEF WriteFile, IInv
<1>3. /\ job'.tool = job.tool /\ job'.next = job.next + 1 /\ job'.output = job.output
      /\ job'.source = job.source /\ job' # NoJob /\ job'.open = FALSE
  BY <1>1, <1>2, CurrentFacts DEF IInv, JobShape, NoJob
<1>4. Written' = Written \cup {Current}
  BY <1>1, <1>3, CurrentFacts DEF Written, Current
<1>5. JobShape'
  <2>1. Len(FilesOf(job.tool)) \in Nat /\ job.next \in 1 .. Len(FilesOf(job.tool))
    BY <1>1, CurrentFacts, FileFacts
  <2>2. job.next + 1 \in 1 .. Len(FilesOf(job.tool)) + 1
    BY <2>1
  <2>3. job = [tool |-> job.tool, next |-> job.next, output |-> job.output,
               source |-> job.source, open |-> job.open]
    BY <1>1 DEF IInv, JobShape
  <2>4. job' = [tool |-> job'.tool, next |-> job'.next, output |-> job'.output,
                source |-> job'.source, open |-> job'.open]
    BY <1>2, <2>3
  <2> QED
    BY <1>1, <1>3, <2>2, <2>4, CurrentFacts DEF JobShape
<1>6. disk'.bundle.kind = "bundle" => IsBuilt(disk'.bundle)
  <2>1. CASE Current = "bundle"
    BY <1>1, <1>2, <2>1, CurrentFacts DEF IInv, OutputFollows
  <2>2. CASE Current # "bundle"
    BY <1>2, <2>2, BuilderFiles DEF IInv
  <2> QED
    BY <2>1, <2>2
<1>7. \A f \in Written : f \in File /\ f # Current
  BY <1>1, CurrentFacts, FileFacts DEF Written
<1>8. OutputFollows'
  BY <1>1, <1>2, <1>3, <1>4, <1>7 DEF OutputFollows, IInv
<1>9. FreshIsCurrent'
  <2>1. CASE job.tool = "runner"
    BY <1>2, <1>3, <2>1 DEF FreshIsCurrent, IInv
  <2>2. CASE job.tool = "builder"
    <3>1. \A f \in GameDayFile : disk'[f] = disk[f]
      BY <1>1, <1>2, <2>2, CurrentFacts, RunnerFiles
    <3>2. (RunnerVerifies' <=> RunnerVerifies) /\ Built' = Built
      BY <1>2, <3>1, GameDayUndisturbed
    <3> QED
      BY <1>2, <1>3, <2>2, <3>2 DEF FreshIsCurrent, IInv
  <2> QED
    BY <1>1, <2>1, <2>2, CurrentFacts
<1> QED
  BY <1>2, <1>5, <1>6, <1>8, <1>9 DEF IInv

\* A command that has written everything leaves the files its output names.
LEMMA FinishIInv == ASSUME IInv, Finish PROVE IInv'
<1>1. /\ job # NoJob /\ job' = NoJob /\ UNCHANGED <<profile, disk>>
      /\ job.tool \in {"runner", "builder"}
      /\ job.next = Len(FilesOf(job.tool)) + 1
  BY FileFacts DEF Finish, AllWritten, IInv, JobShape
<1>2. Holds(job.output)
  <2>1. CASE job.tool = "runner"
    <3>1. Written = GameDayFile
      BY <1>1, <2>1, RunnerFiles DEF Written
    <3> QED
      BY <1>1, <2>1, <3>1, RunDomain DEF Holds, IInv, OutputFollows
  <2>2. CASE job.tool = "builder"
    <3>1. job.next - 1 = 12 /\ Len(FilesOf(job.tool)) = 12
      BY <1>1, <2>2, BuilderFiles
    <3>2. Written = {FilesOf("builder")[k] : k \in 1 .. 12}
      BY <2>2, <3>1, Zenon DEF Written
    <3>3. Written = File \ GameDayFile
      BY <3>2, BuilderFiles
    <3> QED
      BY <1>1, <2>2, <3>3 DEF Holds, IInv, OutputFollows
  <2> QED
    BY <1>1, <2>1, <2>2
<1>3. OutputFollows'
  BY <1>1 DEF OutputFollows, NoJob
<1>4. JobShape'
  BY <1>1 DEF JobShape
<1>5. RunnerVerifies' <=> RunnerVerifies
  BY <1>1 DEF RunnerVerifies, Holds
<1>6. BuilderVerifies' <=> BuilderVerifies
  BY <1>1 DEF BuilderVerifies, InputsLoad, Built, Holds
<1>7. CASE fresh' = fresh
  <2>1. FreshIsCurrent'
    BY <1>1, <1>5, <1>6, <1>7 DEF FreshIsCurrent, IInv, NoJob
  <2> QED
    BY <1>1, <1>3, <1>4, <1>7, <2>1 DEF IInv
<1>8. CASE fresh' # fresh /\ job.tool = "runner"
  <2>1. fresh' = <<"runner">> /\ job.source = {profile}
    BY <1>8, Histories DEF Finish
  <2>2. RunnerVerifies
    BY <1>2, <1>8, <2>1 DEF RunnerVerifies, IInv, OutputFollows
  <2>3. FreshIsCurrent'
    BY <1>1, <1>5, <2>1, <2>2 DEF FreshIsCurrent, NoJob
  <2> QED
    BY <1>1, <1>3, <1>4, <2>1, <2>3 DEF IInv
<1>9. CASE fresh' # fresh /\ job.tool = "builder"
  <2>1. fresh = <<"runner">> /\ fresh' = <<"runner", "builder">>
    BY <1>9, Histories DEF Finish
  <2>2. RunnerVerifies /\ job.output = Built
    BY <1>9, <2>1 DEF IInv, FreshIsCurrent
  <2>3. BuilderVerifies
    BY <1>2, <2>2, RunDomain DEF BuilderVerifies, InputsLoad, RunnerVerifies, Holds, GameDayFile
  <2>4. FreshIsCurrent'
    BY <1>1, <1>5, <1>6, <2>1, <2>2, <2>3 DEF FreshIsCurrent, NoJob
  <2> QED
    BY <1>1, <1>3, <1>4, <2>1, <2>4 DEF IInv
<1> QED
  BY <1>1, <1>3, <1>4, <1>7, <1>8, <1>9 DEF IInv

\* A command that dies leaves at most the attestation of the game day damaged.
LEMMA CrashIInv == ASSUME IInv, Crash PROVE IInv'
<1>1. job' = NoJob /\ UNCHANGED <<profile, fresh>>
  BY DEF Crash
<1>2. JobShape' /\ OutputFollows'
  BY <1>1 DEF JobShape, OutputFollows, NoJob
<1>3. CASE disk' = disk
  <2>1. /\ RunnerVerifies' <=> RunnerVerifies
        /\ BuilderVerifies' <=> BuilderVerifies
    BY <1>1, <1>3 DEF RunnerVerifies, BuilderVerifies, InputsLoad, Built, Holds
  <2>2. FreshIsCurrent'
    BY <1>1, <2>1 DEF FreshIsCurrent, IInv, NoJob
  <2> QED
    BY <1>1, <1>2, <1>3, <2>2 DEF IInv
<1>4. CASE /\ Current = "attestation" /\ job.open
           /\ \E d : disk' = [disk EXCEPT !.attestation = d]
  <2>1. job # NoJob /\ ~AllWritten
    BY <1>4, FileFacts DEF AllWritten, NoJob, IInv, JobShape
  <2>2. job.tool = "runner"
    BY <1>4, <2>1, CurrentFacts DEF GameDayFile
  <2>3. fresh' = << >>
    BY <1>1, <2>2 DEF IInv, FreshIsCurrent
  <2>4. disk'["bundle"] = disk["bundle"] /\ DOMAIN disk' = File
    BY <1>4, BuilderFiles DEF IInv
  <2>5. FreshIsCurrent'
    BY <1>1, <2>3 DEF FreshIsCurrent, NoJob
  <2> QED
    BY <1>1, <1>2, <2>3, <2>4, <2>5 DEF IInv
<1> QED
  BY <1>3, <1>4 DEF Crash

LEMMA StutterIInv == ASSUME IInv, UNCHANGED vars PROVE IInv'
BY DEF vars, IInv, JobShape, OutputFollows, FreshIsCurrent, Written,
       RunnerVerifies, BuilderVerifies, InputsLoad, Built, Holds

\* The files of a packet and the history stay consistent in every execution.
THEOREM Invariance == Spec => []IInv
<1>1. ASSUME IInv, [Next]_vars PROVE IInv'
  BY <1>1, EditIInv, StartRunIInv, RefuseIInv, StartBuildIInv, OpenIInv, WriteIInv,
     FinishIInv, CrashIInv, StutterIInv DEF Next
<1> QED
  BY <1>1, InitIInv, PTL DEF Spec

-----------------------------------------------------------------------------
(* What it implies *)

\* Files of two builds never verify together.
LEMMA OneBuild == IInv => VerifiedPacketIsOneBuild
<1> SUFFICES ASSUME IInv, PacketVerifies PROVE
      Holds(PacketOf(Build(disk.packed_profile.profile, disk.packed_aware,
                           disk.packed_baseline, disk.packed_attestation)))
  BY DEF VerifiedPacketIsOneBuild
<1> DEFINE b == Build(disk.packed_profile.profile, disk.packed_aware,
                      disk.packed_baseline, disk.packed_attestation)
<1>1. IsBuilt(disk.bundle) /\ \A f \in Artifacts : disk[f] = disk.bundle.inventory[f]
  BY DEF PacketVerifies, InventoryHolds, IInv
<1>2. /\ "packed_profile" \in Artifacts /\ "packed_aware" \in Artifacts
      /\ "packed_baseline" \in Artifacts /\ "packed_attestation" \in Artifacts
      /\ Artifacts = (File \ GameDayFile) \ {"bundle", "policy"}
  BY PacketFields
<1>3. disk.bundle = b.bundle
  BY <1>1, <1>2 DEF IsBuilt
<1>4. \A f \in DOMAIN PacketOf(b) : disk[f] = PacketOf(b)[f]
  <2>1. disk.policy = Policy
    BY DEF PacketVerifies
  <2>2. \A f \in Artifacts : disk[f] = b.contents[f]
    BY <1>1, <1>3 DEF Build
  <2>3. \A f \in DOMAIN PacketOf(b) : f = "bundle" \/ f = "policy" \/ f \in Artifacts
    BY <1>2, PacketDomain
  <2>4. /\ PacketOf(b)["bundle"] = b.bundle /\ PacketOf(b)["policy"] = Policy
        /\ \A f \in Artifacts : PacketOf(b)[f] = b.contents[f]
    BY PacketDomain, PacketFields
  <2>5. ASSUME NEW f \in DOMAIN PacketOf(b) PROVE disk[f] = PacketOf(b)[f]
    BY <1>3, <2>1, <2>2, <2>3, <2>4
  <2> QED
    BY <2>5
<1> QED
  BY <1>4 DEF Holds

THEOREM PacketsAreNotMixed == Spec => []VerifiedPacketIsOneBuild
BY Invariance, OneBuild, PTL

\* A packet all of whose files are those of one build is that build's.
ItsBundleDecides ==
  \A output : IsPacket(output) /\ PacketVerifies /\ disk.bundle = output.bundle =>
    /\ \A f \in File \ GameDayFile : disk[f] = output[f]
    /\ disk.packed_profile.profile = output.packed_profile.profile

LEMMA BundleDecides == ItsBundleDecides
<1> SUFFICES ASSUME NEW output, IsPacket(output), PacketVerifies,
                    disk.bundle = output.bundle
             PROVE  /\ \A f \in File \ GameDayFile : disk[f] = output[f]
                    /\ disk.packed_profile.profile = output.packed_profile.profile
  BY DEF ItsBundleDecides
<1> DEFINE b == Build(output.packed_profile.profile, output.packed_aware,
                      output.packed_baseline, output.packed_attestation)
<1>1. output = PacketOf(b)
  BY DEF IsPacket
<1> HIDE DEF b
<1>2. /\ output["policy"] = Policy /\ disk["policy"] = Policy
      /\ \A f \in Artifacts : output[f] = b.contents[f]
  BY <1>1, PacketFields DEF PacketVerifies
<1>3. b.bundle.inventory = b.contents
  BY DEF b, Build
<1>4. disk.bundle = b.bundle
  BY <1>1, PacketDomain
<1>5. \A f \in Artifacts : disk[f] = output[f]
  BY <1>2, <1>3, <1>4 DEF PacketVerifies, InventoryHolds
<1>6. \A f \in File \ GameDayFile : f \in {"bundle", "policy"} \/ f \in Artifacts
  BY PacketFields
<1>7. \A f \in File \ GameDayFile : disk[f] = output[f]
  BY <1>2, <1>5, <1>6
<1>8. "packed_profile" \in Artifacts
  BY PacketFields
<1> QED
  BY <1>5, <1>7, <1>8

\* Whether a packet verifies is a matter of its own files.
LEMMA PacketUndisturbed ==
  ASSUME \A f \in File \ GameDayFile : disk'[f] = disk[f]
  PROVE  PacketVerifies' <=> PacketVerifies
<1>1. \A f \in Artifacts \cup {"bundle", "policy"} : disk'[f] = disk[f]
  BY PacketFields, BuilderFiles DEF File, PacketFiles, GameDayFile
<1>2. \A f \in {"packed_profile", "packed_attestation", "attestation_proof", "packed_aware",
                 "aware_proof", "packed_baseline", "baseline_proof", "snapshot",
                 "snapshot_proof", "bundle", "policy"} : disk'[f] = disk[f]
  BY <1>1, PacketFields
<1>3. (InventoryHolds' <=> InventoryHolds) /\ (ProofsHold' <=> ProofsHold)
  BY <1>1, <1>2 DEF InventoryHolds, ProofsHold
<1>4. ClaimHolds' <=> ClaimHolds
  BY <1>2 DEF ClaimHolds
<1> QED
  BY <1>2, <1>3, <1>4 DEF PacketVerifies

Appears ==
  ~PacketVerifies /\ PacketVerifies' =>
    /\ job.tool = "builder"
    /\ \A f \in DOMAIN job.output : disk'[f] = job.output[f]
    /\ job.source = {disk'.packed_profile.profile}

\* The bundle is the first file of a build, so a packet that verifies while a
\* builder writes is listed by the bundle this builder has written.
LEMMA WriterOfPacket ==
  ASSUME IInv, IInv', OpenFile \/ WriteFile PROVE Appears
<1>1. /\ job # NoJob /\ ~AllWritten /\ job.tool \in {"runner", "builder"}
      /\ \/ job' = [job EXCEPT !.open = TRUE] /\ disk'[Current] = Torn
         \/ job' = [job EXCEPT !.open = FALSE, !.next = job.next + 1]
      /\ \A f \in File : f # Current => disk'[f] = disk[f]
  <2>1. job # NoJob /\ ~AllWritten
    BY FileFacts DEF OpenFile, WriteFile, AllWritten, FilesOf, NoJob, IInv, JobShape
  <2> QED
    BY <2>1, CurrentFacts DEF OpenFile, WriteFile, IInv
<1>2. CASE job.tool = "runner"
  <2>1. \A f \in File \ GameDayFile : disk'[f] = disk[f]
    BY <1>1, <1>2, CurrentFacts
  <2> QED
    BY <2>1, PacketUndisturbed DEF Appears
<1>3. CASE job.tool = "builder"
  <2> SUFFICES ASSUME PacketVerifies'
               PROVE  /\ \A f \in DOMAIN job.output : disk'[f] = job.output[f]
                      /\ job.source = {disk'.packed_profile.profile}
    BY <1>3 DEF Appears
  <2>1. /\ job'.tool = "builder" /\ job'.output = job.output /\ job'.source = job.source
        /\ job' # NoJob /\ job.next \in Nat \ {0}
    <3>1. job = [tool |-> job.tool, next |-> job.next, output |-> job.output,
                 source |-> job.source, open |-> job.open]
      BY <1>1 DEF IInv, JobShape
    <3>2. job.next \in Nat \ {0}
      BY <1>1, CurrentFacts, FileFacts
    <3>3. /\ job'.tool = job.tool /\ job'.output = job.output /\ job'.source = job.source
      BY <1>1, <3>1
    <3> QED
      BY <1>3, <3>2, <3>3 DEF NoJob
  <2>2. /\ IsPacket(job.output) /\ job.source = {job.output.packed_profile.profile}
        /\ DOMAIN job.output = File \ GameDayFile
    BY <1>3 DEF IInv, OutputFollows
  <2>3. FilesOf("builder")[1] = "bundle"
    BY DEF FilesOf, PacketFiles
  <2>4. job'.next # 1
    <3>1. CASE disk'[Current] = Torn /\ job' = [job EXCEPT !.open = TRUE]
      <4>1. SUFFICES ASSUME job.next = 1 PROVE FALSE
        BY <1>1, <1>3, <3>1 DEF IInv, JobShape
      <4>2. disk'["bundle"] = Torn
        BY <1>3, <2>3, <3>1, <4>1 DEF Current
      <4> QED
        BY <4>2 DEF PacketVerifies, InventoryHolds, Torn
    <3>2. CASE job' = [job EXCEPT !.open = FALSE, !.next = job.next + 1]
      BY <1>1, <1>3, <2>1, <3>2 DEF IInv, JobShape
    <3> QED
      BY <1>1, <3>1, <3>2
  <2>5. "bundle" \in Written'
    <3>1. job'.next \in Nat \ {0, 1}
      BY <2>1, <2>4, FileFacts DEF IInv, JobShape
    <3> QED
      BY <2>1, <2>3, <3>1 DEF Written
  <2>6. disk'.bundle = job.output.bundle
    BY <2>1, <2>5 DEF IInv, OutputFollows
  <2>7. /\ \A f \in File \ GameDayFile : disk'[f] = job.output[f]
        /\ disk'.packed_profile.profile = job.output.packed_profile.profile
    <3>1. ItsBundleDecides'
      BY BundleDecides, PTL
    <3> QED
      BY <2>2, <2>6, <3>1 DEF ItsBundleDecides
  <2> QED
    BY <2>2, <2>7
<1> QED
  BY <1>1, <1>2, <1>3

\* No other step touches the files of a packet.
LEMMA OthersDoNot ==
  ASSUME IInv, [Next]_vars, ~OpenFile, ~WriteFile PROVE Appears
<1>1. CASE Crash
  <2>1. \A f \in File \ GameDayFile : disk'[f] = disk[f]
    BY <1>1, BuilderFiles DEF Crash, IInv, GameDayFile
  <2> QED
    BY <2>1, PacketUndisturbed DEF Appears
<1>2. CASE ~Crash
  <2>1. disk' = disk
    BY <1>2 DEF Next, vars, Edit, StartRun, RefuseRun, StartBuild, RefuseBuild, Start, Finish
  <2> QED
    BY <2>1, PacketUndisturbed DEF Appears
<1> QED
  BY <1>1, <1>2

\* A packet comes to verify only as the complete output of one build, from the
\* profile this build started with.
THEOREM PacketsAppearBuilt == Spec => PacketAppearsWithItsBuild
<1>1. IInv /\ IInv' /\ [Next]_vars => [Appears]_vars
  BY WriterOfPacket, OthersDoNot
<1>2. [Appears]_vars => [~PacketVerifies /\ PacketVerifies' =>
                           /\ job.tool = "builder"
                           /\ \A f \in DOMAIN job.output : disk'[f] = job.output[f]
                           /\ job.source = {disk'.packed_profile.profile}]_vars
  BY DEF Appears
<1> QED
  BY <1>1, <1>2, Invariance, PTL DEF Spec, PacketAppearsWithItsBuild

\* Files that are all as the runner and then the builder leave them are what the
\* verifying commands accept.
LEMMA CurrentIsGreen ==
  ASSUME ConditionsOf[profile] \in Witnessing, Holds(Run(profile)),
         Holds(PacketOf(Build(profile, Run(profile).aware, Run(profile).baseline,
                              Run(profile).attestation)))
  PROVE  Green
<1> DEFINE p == profile
           fromRun == PacketOf(Build(p, Run(p).aware, Run(p).baseline, Run(p).attestation))
<1>1. ASSUME Holds(Run(p)) PROVE Built = fromRun
  BY <1>1, RunDomain DEF Holds, GameDayFile, Built
<1>2. ASSUME Holds(Run(p)) PROVE InputsLoad
  BY <1>2, RunDomain DEF Holds, GameDayFile, InputsLoad
<1>3. ASSUME Holds(fromRun)
      PROVE  /\ disk.packed_profile = Packed(p) /\ disk.snapshot = Snapshot(p)
             /\ \A f \in Artifacts : disk[f] = fromRun[f]
             /\ disk.bundle = fromRun.bundle /\ disk.policy = Policy
  <2>1. \A f \in File \ GameDayFile : disk[f] = fromRun[f]
    BY <1>3, PacketDomain DEF Holds
  <2>2. {"bundle", "policy", "packed_profile", "snapshot"} \subseteq File \ GameDayFile
    BY DEF File, GameDayFile, PacketFiles, GameDayFiles
  <2>3. fromRun.packed_profile = Packed(p) /\ fromRun.snapshot = Snapshot(p)
    BY PacketFields DEF Build
  <2>4. \A f \in Artifacts : f \in File \ GameDayFile
    BY PacketFields
  <2> QED
    BY <2>1, <2>2, <2>3, <2>4, PacketFields
<1> QED
  <2>1. RunnerVerifies /\ BuilderVerifies
    BY <1>1, <1>2, PipelineAssumption DEF RunnerVerifies, BuilderVerifies
  <2> DEFINE b == Build(p, Run(p).aware, Run(p).baseline, Run(p).attestation)
  <2>0. \A f \in Artifacts : disk[f] = b.contents[f]
    BY <1>3, PacketFields
  <2>2. InventoryHolds
    BY <1>3, <2>0, PacketDomain DEF InventoryHolds, Build
  <2>3. ProofsHold
    <3>1. /\ disk.attestation_proof = b.contents.attestation_proof
          /\ disk.packed_attestation = b.contents.packed_attestation
          /\ disk.aware_proof = b.contents.aware_proof
          /\ disk.packed_aware = b.contents.packed_aware
          /\ disk.baseline_proof = b.contents.baseline_proof
          /\ disk.packed_baseline = b.contents.packed_baseline
          /\ disk.snapshot_proof = b.contents.snapshot_proof
          /\ disk.snapshot = b.contents.snapshot
      BY <2>0, PacketFields
    <3> QED
      BY <3>1 DEF ProofsHold, Build
  <2>4. ClaimHolds
    <3>1. /\ disk.packed_attestation = b.contents.packed_attestation
          /\ disk.packed_aware = b.contents.packed_aware
          /\ disk.packed_baseline = b.contents.packed_baseline
          /\ disk.packed_profile = b.contents.packed_profile
          /\ disk.snapshot = b.contents.snapshot
      BY <2>0, PacketFields
    <3>2. /\ b.contents.packed_profile.profile = p
          /\ b.contents.packed_attestation =
               Attestation(p, ConditionsOf[p], Run(p).aware, Run(p).baseline, TRUE)
          /\ b.contents.packed_aware = Run(p).aware
          /\ b.contents.packed_baseline = Run(p).baseline
          /\ b.contents.snapshot.profile = p
          /\ Run(p).aware = Evidence("aware", ConditionsOf[p])
      BY DEF Build, Packed, Snapshot, Run, Attestation
    <3> HIDE DEF b
    <3> QED
      BY <3>1, <3>2 DEF ClaimHolds, Attestation
  <2> QED
    BY <1>3, <2>1, <2>2, <2>3, <2>4 DEF Green, PacketVerifies

\* After the two commands, run in order and to their end, nothing is damaged.
LEMMA Repaired == IInv => RerunRepairs
<1> SUFFICES ASSUME IInv PROVE RerunRepairs
  OBVIOUS
<1>1. fresh # << >> => RunnerVerifies
  BY DEF IInv, FreshIsCurrent
<1>2. ASSUME Len(fresh) = 2, ConditionsOf[profile] \in Witnessing PROVE Green
  <2>1. fresh = <<"runner", "builder">>
    BY <1>2, Histories DEF IInv
  <2>2. RunnerVerifies /\ BuilderVerifies
    BY <2>1 DEF IInv, FreshIsCurrent
  <2>3. Holds(Run(profile)) /\ Holds(Built)
    BY <2>2 DEF RunnerVerifies, BuilderVerifies
  <2>4. Built = PacketOf(Build(profile, Run(profile).aware, Run(profile).baseline,
                               Run(profile).attestation))
    BY <2>3, RunDomain DEF Holds, GameDayFile, Built
  <2> QED
    BY <1>2, <2>3, <2>4, CurrentIsGreen
<1> QED
  BY <1>1, <1>2 DEF RerunRepairs

THEOREM DamageIsRepaired == Spec => []RerunRepairs
BY Invariance, Repaired, PTL
=============================================================================

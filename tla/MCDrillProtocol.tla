--------------------------- MODULE MCDrillProtocol ---------------------------
(***************************************************************************)
(* DrillProtocol with complete evidence and with single deficiencies of it. *)
(***************************************************************************)
EXTENDS DrillProtocol

CONSTANTS p1, p2

OneOperator  == {p1}
TwoOperators == {p1, p2}

MCBoundaries == {"identity", "network"}
MCSafeguards == {"briefing_consent"}

Evidence(type, subjects, covers, issuer, domain) ==
  [type |-> type, subjects |-> subjects, object |-> "drill", covers |-> covers,
   artifact |-> <<type, subjects>>, issuer |-> issuer, domain |-> domain, proven |-> TRUE]

Complete ==
  {Evidence("facilitator_assignment", {"fay"}, {}, "registrar", "d1"),
   Evidence("abort_authority_assignment", {"abe"}, {}, "registrar", "d1"),
   Evidence("channel_independence", {"channel"}, MCBoundaries, "auditor", "d2"),
   Evidence("participant_safeguard", Participant, MCSafeguards, "registrar", "d1")}
    \cup {Evidence(t, {p}, {}, "registrar", "d1") :
            t \in {"qualification", "authority", "operational_access"}, p \in Participant}

\* The files as the entries of the manifest want them.
FileFor(e) ==
  [kind |-> "human", scenario |-> ScenarioId, environment |-> "sandbox", type |-> e.type,
   subjects |-> e.subjects, object |-> "drill", covers |-> e.covers,
   finding |-> "satisfied", observed |-> 1, until |-> 9]

Files ==
  [d \in {e.artifact : e \in Complete} |->
     FileFor(CHOOSE e \in Complete : e.artifact = d)]

Sound == [fits |-> TRUE, facilitator |-> "fay", abortAuthority |-> "abe", controls |-> TRUE,
          minSequence |-> 2, environment |-> "sandbox", evidence |-> Complete,
          files |-> Files, asOf |-> 5]

\* Every piece of evidence of one type changed, or the file it refers to.
Changing(type, Change(_)) ==
  [Sound EXCEPT !.evidence = {IF e.type = type THEN Change(e) ELSE e : e \in Complete}]

ChangingFile(type, Change(_)) ==
  [Sound EXCEPT !.files = [d \in DOMAIN Files |->
                             IF d[1] = type THEN Change(Files[d]) ELSE Files[d]]]

Without(type) == [Sound EXCEPT !.evidence = {e \in Complete : e.type # type}]

Deficient ==
  {[Sound EXCEPT !.fits = FALSE], [Sound EXCEPT !.controls = FALSE],
   [Sound EXCEPT !.abortAuthority = "fay"], [Sound EXCEPT !.abortAuthority = p1],
   [Sound EXCEPT !.minSequence = 3], [Sound EXCEPT !.environment = "other_sandbox"],
   Without("qualification"), Without("facilitator_assignment"),
   Without("channel_independence"), Without("participant_safeguard"),
   [Sound EXCEPT !.files = [d \in DOMAIN Files \ {<<"authority", {p1}>>} |-> Files[d]]],
   ChangingFile("authority", LAMBDA f : [f EXCEPT !.finding = "contradicted"]),
   ChangingFile("authority", LAMBDA f : [f EXCEPT !.until = 5]),
   ChangingFile("qualification", LAMBDA f : [f EXCEPT !.observed = 6]),
   ChangingFile("qualification", LAMBDA f : [f EXCEPT !.subjects = {p1}]),
   ChangingFile("operational_access", LAMBDA f : [f EXCEPT !.type = "authority"]),
   ChangingFile("channel_independence", LAMBDA f : [f EXCEPT !.covers = {"identity"}]),
   Changing("operational_access", LAMBDA e : [e EXCEPT !.proven = FALSE]),
   Changing("qualification", LAMBDA e : [e EXCEPT !.issuer = p1]),
   Changing("channel_independence", LAMBDA e : [e EXCEPT !.domain = "d1"])}

SoundBackgrounds == {Sound}
AllBackgrounds   == {Sound} \cup Deficient

SoundPolicies == {[sequence |-> 2, current |-> TRUE, minimumDomains |-> 2]}
AllPolicies   == SoundPolicies \cup {[sequence |-> 2, current |-> FALSE, minimumDomains |-> 2]}

\* Bounds the state space: with a deficiency no preflight may be ready, and only
\* statements that could make one ready are of interest, under one manifest.
SimpleIfDeficient ==
  \/ background = Sound /\ policy \in SoundPolicies
  \/ context = 1 /\ \A s \in signed : s.value \in {"acknowledged", "active"}
=============================================================================

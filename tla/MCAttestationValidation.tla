----------------------- MODULE MCAttestationValidation -----------------------
(***************************************************************************)
(* AttestationValidation for a profile with a technical claim, a claim that *)
(* needs humans as well, a simulated and a sandbox scenario.  Attestations  *)
(* vary in up to two observations, in what a result binds and cites and in  *)
(* the context of the call; header and body have single defects.            *)
(***************************************************************************)
EXTENDS AttestationValidation

Profile ==
  [claims |-> [c \in {"technical", "mission"} |->
     IF c = "technical"
     THEN [capabilities |-> {"external_reconciliation"}, evidence |-> {"e1"}]
     ELSE [capabilities |-> {"external_reconciliation", "mission_recovery", "human_takeover"},
           evidence |-> {"e1", "e2"}]],
   scenarios |-> [s \in {"simulation", "sandbox"} |->
     IF s = "simulation"
     THEN [mode |-> "deterministic_simulation", claims |-> {"technical", "mission"}]
     ELSE [mode |-> "sandbox", claims |-> {"mission"}]],
   evidence |-> {"e1", "e2"}]

Binding(capability, measurements, evidence) ==
  [capability |-> capability, measurements |-> measurements, evidence |-> evidence]

Reconciles == Binding("external_reconciliation", {"m1"}, {"e1"})
Recovers   == Binding("mission_recovery", {"m2"}, {"e2"})

Replay ==
  [conditions |-> "planned", artifacts |-> [u \in {"outcome.json"} |-> "outcome"],
   measurements |-> [m \in {"m1", "m2"} |-> 0],
   bindings |-> [c \in {"technical", "mission"} |->
     IF c = "technical" THEN {Reconciles} ELSE {Reconciles, Recovers}]]

\* The files at hand.  One is made by the runner, one by hand and says the same;
\* one contradicts it, one says both, and the others are not for this purpose.
Evidence(scenario, issuer, findings, until) ==
  [kind |-> "exercise", scenario |-> scenario, environment |-> "sandbox-1",
   issuer |-> issuer, observed |-> 2, until |-> until,
   assertions |-> [i \in 1 .. 2 * Len(findings) |->
     [requirement |-> IF i % 2 = 1 THEN "e1" ELSE "e2", finding |-> findings[(i + 1) \div 2]]]]

Files ==
  [scenario \in {"simulation", "sandbox", "unknown"} |->
    [d \in {"outcome", "self_made", "adverse", "both", "stale", "foreign", "third_party", "other"} |->
     CASE d \in {"outcome", "self_made"} -> Evidence(scenario, "runner", <<"satisfied">>, 9)
       [] d = "adverse"     -> Evidence(scenario, "runner", <<"contradicted">>, 9)
       [] d = "both"        -> Evidence(scenario, "runner", <<"satisfied", "contradicted">>, 9)
       [] d = "stale"       -> Evidence(scenario, "runner", <<"satisfied">>, 5)
       [] d = "foreign"     -> Evidence("elsewhere", "runner", <<"satisfied">>, 9)
       [] d = "third_party" -> Evidence(scenario, "lab", <<"satisfied">>, 9)
       [] d = "other"       -> [kind |-> "other"]]]

\* What an observation may be: the file it refers to, under the name the replay
\* uses or another one, and what it says of it.
Natures == {"outcome", "renamed", "adverse", "contrary", "self_made", "both", "stale",
            "foreign", "third_party", "other", "absent", "later"}

Observation(id, requirement, nature) ==
  [id |-> id, requirement |-> requirement,
   finding |-> IF nature = "adverse" THEN "contradicted" ELSE "satisfied",
   observed |-> IF nature = "later" THEN 3 ELSE 2,
   artifact |-> CASE nature \in {"renamed", "later"} -> "outcome"
                  [] nature = "contrary"            -> "adverse"
                  [] OTHER                          -> nature,
   uri |-> IF nature = "renamed" THEN "copy.json" ELSE "outcome.json"]

FewNatures == {"outcome", "self_made", "adverse", "contrary"}

ObservationsOf(ids, natures) ==
  {Observation(id, r, n) : id \in ids, r \in {"e1", "e2"}, n \in natures}

ObservationLists ==
  {<<o>> : o \in ObservationsOf({"o1"}, Natures)}
    \cup {<<o, p>> : o \in ObservationsOf({"o1"}, Natures),
                    p \in ObservationsOf({"o1", "o2"}, FewNatures)}

Result(claim, outcome, bindings, evidence) ==
  [claim |-> claim, outcome |-> outcome, bindings |-> bindings,
   capabilities |-> {b.capability : b \in Elements(bindings)},
   measurements |-> {"m1", "m2"}, evidence |-> evidence]

BindingLists ==
  {<<>>, <<Reconciles>>, <<Reconciles, Recovers>>,
   <<Binding("external_reconciliation", {"m2"}, {"e1"})>>,
   <<Binding("external_reconciliation", {"m1"}, {"e1", "e2"})>>,
   <<Binding("mission_recovery", {"m1"}, {"e1"})>>,
   <<Binding("human_takeover", {"m1"}, {"e1"})>>}

ResultsUnderTest ==
  {Result(c, o, b, e) : c \in {"technical", "mission"},
     o \in {"demonstrated", "not_demonstrated"}, b \in BindingLists, e \in {{"e1"}, {"e1", "e2"}}}

PlainResult == Result("technical", "not_demonstrated", <<Reconciles>>, {"e1"})

Attestation(scenario, conditions, value, observations, results) ==
  [ofProfile |-> TRUE, scenario |-> scenario, environment |-> "sandbox-1",
   issuer |-> "runner", mode |-> Profile.scenarios[scenario].mode,
   started |-> 1, completed |-> 2, issued |-> 3, until |-> 9, uniqueIds |-> TRUE,
   componentsLoad |-> TRUE, participation |-> TRUE, faultsInside |-> TRUE,
   conditions |-> conditions, measurements |-> [m \in {"m1", "m2"} |-> value],
   observations |-> observations, results |-> results]

CallOf(attestation, portable) ==
  [profile |-> Profile, attestation |-> attestation, asOf |-> 5,
   files |-> Files[attestation.scenario],
   issuers |-> IF portable = {} THEN <<>> ELSE [d \in {"third_party"} |-> "lab"],
   portable |-> portable,
   rebuilt |-> IF attestation.scenario = "simulation" THEN {Replay} ELSE {},
   rebuildFails |-> FALSE]

Supports == [c \in {"technical"} |-> {"external_reconciliation"}]

\* The portable check supports a capability of the simulated scenario only.
Contexts(observations, results) ==
  {CallOf(Attestation("simulation", "planned", 0, observations, results), {}),
   CallOf(Attestation("simulation", "other", 0, observations, results), {}),
   CallOf(Attestation("simulation", "planned", 1, observations, results), {}),
   CallOf(Attestation("simulation", "planned", 0, observations, results), {Supports}),
   CallOf(Attestation("sandbox", "planned", 0, observations, results), {}),
   CallOf(Attestation("sandbox", "planned", 0, observations, results), {<<>>})}

Plain ==
  CallOf(Attestation("simulation", "planned", 0, <<Observation("o1", "e1", "outcome")>>,
                     <<PlainResult>>), {})

Defective ==
  {[Plain EXCEPT !.attestation.ofProfile = FALSE],
   [Plain EXCEPT !.attestation.scenario = "unknown"],
   [Plain EXCEPT !.attestation.mode = "tabletop"],
   [Plain EXCEPT !.attestation.until = 5],
   [Plain EXCEPT !.attestation.issued = 1],
   [Plain EXCEPT !.attestation.uniqueIds = FALSE],
   [Plain EXCEPT !.attestation.componentsLoad = FALSE],
   [Plain EXCEPT !.attestation.participation = FALSE],
   [Plain EXCEPT !.attestation.faultsInside = FALSE],
   [Plain EXCEPT !.attestation.results = <<PlainResult, PlainResult>>],
   [Plain EXCEPT !.attestation.results = <<[PlainResult EXCEPT !.claim = "unknown"], PlainResult>>],
   [Plain EXCEPT !.rebuilt = {}, !.rebuildFails = TRUE]}

\* Every result over few observations, every list of observations under few
\* results.
FewObservations ==
  {<<Observation("o1", "e1", n), Observation("o2", "e2", n)>> :
     n \in {"outcome", "self_made"}} \cup {<<Observation("o1", "e1", "outcome")>>}

FewResults ==
  {PlainResult, [PlainResult EXCEPT !.outcome = "demonstrated"],
   Result("mission", "not_demonstrated", <<Reconciles, Recovers>>, {"e1", "e2"})}

MCCalls ==
  Defective
    \cup (UNION {Contexts(o, <<r>>) : o \in FewObservations, r \in ResultsUnderTest})
    \cup UNION {Contexts(o, <<r>>) : o \in ObservationLists, r \in FewResults}
=============================================================================

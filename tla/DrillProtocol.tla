---------------------------- MODULE DrillProtocol ----------------------------
(***************************************************************************)
(* The facilitated takeover drill around its preflight: participants sign   *)
(* acknowledgements and statuses, the facilitator assembles a manifest from *)
(* any of them, old ones included, the consumer keeps high-watermarks, and  *)
(* evaluate_readiness (PreflightChecks) decides on what it is given.  The   *)
(* preflight keeps no state; what it refuses over time rests on the         *)
(* consumer's file and on the bindings inside the statements.               *)
(* The people and the consumer's file are external: they act as the checks  *)
(* of the code and game_days/refund/HUMAN_DRILL.md expect.                  *)
(***************************************************************************)
EXTENDS PreflightChecks

CONSTANTS
  Participant,    \* the operators of the drill
  Run,            \* identifiers of drill runs, each with its challenge
  MaxSequence,    \* bound on statementSequence
  MaxContext,     \* bound on the versions of the manifest
  MaxSigned,      \* bound on the statements a participant signs
  Backgrounds,    \* the manifest fields other than binding and statements
  Policies        \* the trust policies a preflight may be given

ASSUME ProtocolAssumption ==
  /\ MaxSequence \in Nat /\ MaxContext \in Nat \ {0} /\ MaxSigned \in Nat
  /\ \A b \in Backgrounds :
       /\ b.minSequence \in Nat /\ b.asOf \in Int /\ IsFiniteSet(b.evidence)
       /\ \A d \in DOMAIN b.files :
            b.files[d].kind = "human" => b.files[d].observed \in Int /\ b.files[d].until \in Int
  /\ \A q \in Policies : q.sequence \in Nat /\ q.minimumDomains \in Nat

VARIABLES
  background,  \* what the manifest declares beside statements
  run,         \* the current run
  context,     \* version of the manifest
  signed,      \* statements participants have signed
  held,        \* the consumer's high-watermarks
  policy,      \* the trust policy given to the preflight
  report,      \* what the last preflight reported: [ready, statements]
  relied       \* statuses the ready reports of this run rested on

vars == <<background, run, context, signed, held, policy, report, relied>>

NotReady == [ready |-> FALSE, statements |-> {}]

Values == {"acknowledged", "declined", "active", "withdrawn"}

Binding == [run |-> run, context |-> context]

Watermarks(r) == [run |-> r, policySequence |-> policy.sequence, statements |-> <<>>]

Init ==
  /\ background \in Backgrounds
  /\ run \in Run
  /\ context = 1
  /\ signed = {}
  /\ policy \in Policies
  /\ held = Watermarks(run)
  /\ report = NotReady
  /\ relied = {}

SignedBy(p) == {s \in signed : s.participant = p}

Latest(p) ==
  IF SignedBy(p) = {} THEN 0
  ELSE CHOOSE n \in {s.sequence : s \in SignedBy(p)} : \A s \in SignedBy(p) : s.sequence <= n

\* A participant signs with the next sequence number or, from a restarted or
\* a second device, once more with the last one.
Sign(p, value, sequence) ==
  /\ Cardinality(SignedBy(p)) < MaxSigned
  /\ sequence \in {Latest(p), Latest(p) + 1} \cap (1 .. MaxSequence)
  /\ signed' = signed \cup {[participant |-> p, value |-> value, sequence |-> sequence,
                             binding |-> Binding, id |-> <<p, sequence, value, run, context>>]}
  /\ UNCHANGED <<background, run, context, held, policy, report, relied>>

\* The facilitator changes the manifest; its digest is a new context.
Amend ==
  /\ context < MaxContext
  /\ context' = context + 1
  /\ report' = NotReady
  /\ UNCHANGED <<background, run, signed, held, policy, relied>>

\* A new run has a challenge of its own and starts from empty high-watermarks.
StartRun(r) ==
  /\ r \notin {run} \cup {s.binding.run : s \in signed}
  /\ run' = r
  /\ held' = Watermarks(r)
  /\ report' = NotReady
  /\ relied' = {}
  /\ UNCHANGED <<background, context, signed, policy>>

Store(statements) ==
  LET news == [p \in {s.participant : s \in statements} |->
                 CHOOSE s \in statements : s.participant = p]
  IN  [held EXCEPT !.statements =
         [p \in DOMAIN news \cup DOMAIN held.statements |->
            IF p \in DOMAIN news THEN news[p] ELSE held.statements[p]]]

\* The consumer learns of a status on the participant's own channel and keeps
\* the first, a newer one, or a withdrawal.  A withdrawal is never replaced.
Observe(s) ==
  /\ s.value \in {"active", "withdrawn"}
  /\ s.binding.run = run
  /\ \/ s.participant \notin DOMAIN held.statements
     \/ /\ s.participant \in DOMAIN held.statements
        /\ held.statements[s.participant].value = "active"
        /\ s.value = "withdrawn" \/ s.sequence > held.statements[s.participant].sequence
  /\ held' = Store({s})
  /\ UNCHANGED <<background, run, context, signed, policy, report, relied>>

Manifest(acknowledgements, statuses) ==
  [fits |-> background.fits, participants |-> Participant,
   facilitator |-> background.facilitator, abortAuthority |-> background.abortAuthority,
   controls |-> background.controls, binding |-> Binding,
   environment |-> background.environment, evidence |-> background.evidence,
   files |-> background.files, asOf |-> background.asOf,
   acknowledgements |-> acknowledgements, statuses |-> statuses]

Prerequisites(acknowledgements, statuses) ==
  Missing(Manifest(acknowledgements, statuses), {policy}, {background.minSequence}, {held})

\* A preflight on any manifest that can be put together from what was signed.
\* The consumer stores the statuses it accepts in the same step.
PreflightReady(acknowledgements, statuses) ==
  /\ Prerequisites(acknowledgements, statuses) = {}
  /\ report' = [ready |-> TRUE, statements |-> acknowledgements \cup statuses]
  /\ relied' = relied \cup statuses
  /\ held' = Store(statuses)
  /\ UNCHANGED <<background, run, context, signed, policy>>

PreflightNotReady(acknowledgements, statuses) ==
  /\ Prerequisites(acknowledgements, statuses) # {}
  /\ report' = NotReady
  /\ UNCHANGED <<background, run, context, signed, held, policy, relied>>

\* At most one statement of each participant for each of the two lists.
Selections(values) ==
  {S \in SUBSET {s \in signed : s.value \in values} :
     \A s, t \in S : s.participant = t.participant => s = t}

Next ==
  \/ \E p \in Participant, value \in Values, n \in 1 .. MaxSequence : Sign(p, value, n)
  \/ Amend
  \/ \E r \in Run : StartRun(r)
  \/ \E s \in signed : Observe(s)
  \/ \E A \in Selections({"acknowledged", "declined"}), S \in Selections({"active", "withdrawn"}) :
       PreflightReady(A, S) \/ PreflightNotReady(A, S)

Spec == Init /\ [][Next]_vars
-----------------------------------------------------------------------------
TypeOK ==
  /\ background \in Backgrounds /\ policy \in Policies
  /\ run \in Run /\ context \in 1 .. MaxContext
  /\ \A s \in signed : s.participant \in Participant /\ s.value \in Values
                         /\ s.sequence \in 1 .. MaxSequence
  /\ held.run = run /\ DOMAIN held.statements \subseteq Participant
  /\ report.ready \in BOOLEAN /\ report.statements \subseteq signed
  /\ relied \subseteq signed

Withdrawn(p) == p \in DOMAIN held.statements /\ held.statements[p].value = "withdrawn"

\* Once the consumer has seen a participant withdraw, no preflight of that run
\* becomes ready again, whatever newer active statements are signed and
\* presented (human_drill.py:701-704).
WithdrawalIsFinal ==
  [][(\E p \in Participant : Withdrawn(p)) /\ run' = run => (report'.ready => report.ready)]_vars

\* Across all ready preflights of a run, a participant's sequence number stands
\* for one statement: a second statement with the same number, from an amended
\* manifest or another device, is never relied on (human_drill.py:713-719).
RelianceIsUnequivocal ==
  \A s, t \in relied :
    s.participant = t.participant /\ s.sequence = t.sequence => s = t

\* A ready preflight never falls back to an older status of a participant than
\* an earlier ready preflight of the run rested on (human_drill.py:709-712).
RelianceNeverGoesBack ==
  [][\A s \in relied' \ relied, t \in relied :
       run' = run /\ s.participant = t.participant => s.sequence > t.sequence]_vars

\* A ready report is everyone's: for the manifest and run as they are now,
\* each participant consented and then, not before, declared to be active.
ReadyIsUnanimous ==
  report.ready =>
    \A p \in Participant : \E a, s \in report.statements :
      /\ a.participant = p /\ a.value = "acknowledged" /\ a.binding = Binding
      /\ s.participant = p /\ s.value = "active" /\ s.binding = Binding
      /\ a.sequence <= s.sequence

\* Evidence by issuers outside the drill.
Outside ==
  {e \in background.evidence :
     e.proven /\ e.issuer \notin Participant
       \cup {background.facilitator, background.abortAuthority}}

\* A file that, read on its own, speaks in favour, of this drill and today.
Favourable(file, type) ==
  /\ file.kind = "human" /\ file.type = type /\ file.finding = "satisfied"
  /\ file.scenario = ScenarioId /\ file.environment = background.environment
  /\ file.observed <= background.asOf /\ background.asOf < file.until

Favouring(type) ==
  {f \in {background.files[e.artifact] :
           e \in {d \in Outside : d.artifact \in DOMAIN background.files}} :
     Favourable(f, type)}

\* A ready report rests on evidence nobody of the drill vouched for himself:
\* proven by issuers in as many independence domains as the policy asks, under
\* a current policy not older than the consumer's minimum, and it is the files
\* that say, whatever the manifest says of them, that each operator is
\* qualified, authorized and given access, and the channel independent
\* (human_drill.py:262-281, 771-782; artifact_validation.py:91-167).
ReadyIsIndependentlyVouched ==
  report.ready =>
    /\ policy.current /\ policy.sequence >= background.minSequence
    /\ Cardinality({e.domain : e \in Outside}) >= policy.minimumDomains
    /\ \A p \in Participant, t \in {"qualification", "authority", "operational_access"} :
         \E f \in Favouring(t) : p \in f.subjects
    /\ Boundaries \subseteq UNION {f.covers : f \in Favouring("channel_independence")}
=============================================================================

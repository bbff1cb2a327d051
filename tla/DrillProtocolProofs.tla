------------------------- MODULE DrillProtocolProofs -------------------------
(***************************************************************************)
(* Proofs about the takeover drill, for every set of participants and runs, *)
(* every background and policy and any number of signed statements.  What   *)
(* the preflights of a run rested on stays below the consumer's             *)
(* high-watermarks (ReliedAreDominated); that, and that a statement's       *)
(* digest identifies it, is the inductive invariant.                        *)
(***************************************************************************)
EXTENDS DrillProtocol, FiniteSetTheorems, TLAPS

Statement(p, value, n, r, c) ==
  [participant |-> p, value |-> value, sequence |-> n,
   binding |-> [run |-> r, context |-> c], id |-> <<p, n, value, r, c>>]

SignedAreStatements ==
  \A s \in signed :
    \E p \in Participant, value \in Values, n \in 1 .. MaxSequence, r \in Run, c \in Nat :
      s = Statement(p, value, n, r, c)

HeldAreSigned ==
  /\ DOMAIN held = {"run", "policySequence", "statements"}
  /\ \A p \in DOMAIN held.statements :
       held.statements[p] \in signed /\ held.statements[p].participant = p

\* What was relied on is what the consumer holds, or a withdrawal or a newer
\* status of the same participant has taken its place.
Dominates(h, t) == h = t \/ h.value = "withdrawn" \/ h.sequence > t.sequence

ReliedAreDominated ==
  \A t \in relied :
    /\ t.participant \in DOMAIN held.statements
    /\ Dominates(held.statements[t.participant], t)

IInv ==
  /\ TypeOK
  /\ SignedAreStatements
  /\ HeldAreSigned
  /\ ReliedAreDominated
  /\ RelianceIsUnequivocal

-----------------------------------------------------------------------------

\* Nothing is missing only if nothing is missing in any of the four parts.
LEMMA ReadyParts ==
  ASSUME NEW A, NEW S, Prerequisites(A, S) = {}
  PROVE  LET M == Manifest(A, S)
         IN  /\ GateMissing({policy}, {background.minSequence}, {held}) = {}
             /\ EvidenceMissing(M, {policy}) = {}
             /\ ParticipantMissing(M, {policy}, {held}) = {}
             /\ DomainsMissing(M, {policy}) = {}
<1> DEFINE M == Manifest(A, S)
<1>1. Missing(M, {policy}, {background.minSequence}, {held}) = {}
  BY DEF Prerequisites
<1>2. M.fits
  BY <1>1 DEF Missing
<1> QED
  BY <1>1, <1>2 DEF Missing

ListAccepted(M, T, accepted) == StatementsMissing(M, {policy}, T, accepted) = {}

OneOfEach(T, accepted) ==
  /\ \A s \in T : s.participant \in Participant /\ s.value = accepted
  /\ \A s, t \in T : s.participant = t.participant => s = t
  /\ \A p \in Participant : \E s \in T :
       s.participant = p /\ s.value = accepted /\ s.binding = Binding

\* When nothing is missing each list holds exactly one accepted statement of
\* each participant, made for the current run and manifest.
LEMMA ReadyStatements ==
  ASSUME NEW A, NEW S, NEW T, NEW accepted,
         ListAccepted(Manifest(A, S), T, accepted)
  PROVE  OneOfEach(T, accepted)
<1> DEFINE M == Manifest(A, S)
           usable == {s \in T : {policy} # {} /\ s.participant \in M.participants
                                  /\ s.value = accepted}
           verified == {s.participant : s \in {u \in usable : u.binding = M.binding}}
<1>0. M.participants = Participant /\ M.binding = Binding
  BY DEF Manifest
<1>1. /\ When(\E s \in T : s.participant \notin M.participants, "unknown_participant") = {}
      /\ When(\E s \in T : s.participant \in M.participants /\ s.value # accepted,
                "statement") = {}
      /\ When(\E s, t \in T : s # t /\ s.participant = t.participant,
                "statements_not_unique") = {}
      /\ When({policy} # {} /\ ~(M.participants \subseteq verified),
                "statement_absent") = {}
  BY DEF ListAccepted, StatementsMissing
<1>2. ~(\E s \in T : s.participant \notin M.participants)
  BY <1>1 DEF When
<1>3. ~(\E s \in T : s.participant \in M.participants /\ s.value # accepted)
  BY <1>1 DEF When
<1>4. ~(\E s, t \in T : s # t /\ s.participant = t.participant)
  BY <1>1 DEF When
<1>5. ~({policy} # {} /\ ~(M.participants \subseteq verified))
  BY <1>1 DEF When
<1>6. Participant \subseteq verified
  BY <1>0, <1>5
<1>7. \A p \in Participant : \E s \in T :
        s.participant = p /\ s.value = accepted /\ s.binding = Binding
  BY <1>0, <1>6
<1> HIDE DEF M
<1> QED
  BY <1>0, <1>2, <1>3, <1>4, <1>7 DEF OneOfEach

\* When nothing is missing the two lists are complete, the high-watermarks hold
\* a status of every participant, none of them a withdrawal, and no presented
\* status is older or another one under the same number.
LEMMA ReadyPreflight ==
  ASSUME NEW A, NEW S, Prerequisites(A, S) = {}
  PROVE  /\ OneOfEach(A, "acknowledged")
         /\ OneOfEach(S, "active")
         /\ DOMAIN held.statements = Participant
         /\ \A s \in S :
              LET k == held.statements[s.participant]
              IN  /\ k.value # "withdrawn"
                  /\ ~(s.sequence < k.sequence)
                  /\ s.sequence = k.sequence => s.id = k.id
         /\ \A a \in A, s \in S :
              a.participant = s.participant => ~(s.sequence < a.sequence)
<1> DEFINE M == Manifest(A, S)
<1>0. M.participants = Participant /\ M.acknowledgements = A /\ M.statuses = S
  BY DEF Manifest
<1>1. ParticipantMissing(M, {policy}, {held}) = {}
  BY ReadyParts
<1> HIDE DEF M
<1>2. ListAccepted(M, A, "acknowledged") /\ ListAccepted(M, S, "active")
  BY <1>0, <1>1 DEF ParticipantMissing, ListAccepted
<1>3. OneOfEach(A, "acknowledged") /\ OneOfEach(S, "active")
  BY <1>2, ReadyStatements DEF M
<1>4. DOMAIN held.statements = Participant
  <2>1. When({policy} # {} /\ UNION {DOMAIN h.statements : h \in {held}} # M.participants,
               "watermark_cover") = {}
    BY <1>1 DEF ParticipantMissing
  <2>2. UNION {DOMAIN h.statements : h \in {held}} = Participant
    BY <1>0, <2>1 DEF When
  <2> QED
    BY <2>2
<1>5. ASSUME NEW s \in S
      PROVE  LET k == held.statements[s.participant]
             IN  /\ k.value # "withdrawn"
                 /\ ~(s.sequence < k.sequence)
                 /\ s.sequence = k.sequence => s.id = k.id
  <2> DEFINE k == held.statements[s.participant]
             known == {h.statements[s.participant] :
                         h \in {g \in {held} : s.participant \in DOMAIN g.statements}}
  <2>1. s.participant \in Participant /\ s.value = "active"
    BY <1>3 DEF OneOfEach
  <2>2. WatermarkMissing({held}, s) = {}
    <3>1. UNION {WatermarkMissing({held}, u) :
                   u \in {t \in M.statuses : t.participant \in M.participants
                                                /\ t.value = "active"}} = {}
      BY <1>1 DEF ParticipantMissing
    <3>2. s \in {t \in M.statuses : t.participant \in M.participants /\ t.value = "active"}
      BY <1>0, <2>1
    <3> QED
      BY <3>1, <3>2
  <2>3. k \in known
    BY <1>4, <2>1
  <2>4. ~(\E l \in known : l.value = "withdrawn")
    BY <2>2 DEF WatermarkMissing, When
  <2>5. ~(\E l \in known : l.value # "withdrawn" /\ s.sequence < l.sequence)
    BY <2>2 DEF WatermarkMissing, When
  <2>6. ~(\E l \in known : l.value # "withdrawn" /\ s.sequence = l.sequence /\ s.id # l.id)
    BY <2>2 DEF WatermarkMissing, When
  <2> QED
    BY <2>3, <2>4, <2>5, <2>6
<1>6. ASSUME NEW a \in A, NEW s \in S, a.participant = s.participant
      PROVE  ~(s.sequence < a.sequence)
  <2>1. When(\E x \in M.acknowledgements, y \in M.statuses :
                 /\ {policy} # {} /\ x.participant = y.participant
                 /\ x.value = "acknowledged" /\ y.value = "active"
                 /\ y.sequence < x.sequence,
               "status_predates_acknowledgement") = {}
    BY <1>1 DEF ParticipantMissing
  <2> QED
    BY <1>0, <1>3, <1>6, <2>1 DEF When, OneOfEach
<1> QED
  BY <1>3, <1>4, <1>5, <1>6

-----------------------------------------------------------------------------

\* A withdrawal the consumer has seen rules out a ready preflight.
LEMMA WithdrawnIsNotReady ==
  ASSUME NEW A, NEW S, Prerequisites(A, S) = {}, NEW p \in Participant, Withdrawn(p)
  PROVE  FALSE
<1>1. PICK s \in S : s.participant = p
  BY ReadyPreflight DEF OneOfEach
<1> QED
  BY <1>1, ReadyPreflight DEF Withdrawn

\* Withdrawal is final: once the consumer has seen a participant withdraw, no
\* preflight of that run becomes ready again, for any number of participants,
\* statements and versions of the manifest (human_drill.py:701-704).
THEOREM WithdrawalStays == Spec => WithdrawalIsFinal
<1>1. [Next]_vars
        => [(\E p \in Participant : Withdrawn(p)) /\ run' = run
              => (report'.ready => report.ready)]_vars
  <2> SUFFICES ASSUME Next, NEW p \in Participant, Withdrawn(p)
               PROVE  report'.ready => report.ready
    BY DEF vars
  <2>1. ASSUME NEW q \in Participant, NEW value \in Values, NEW n \in 1 .. MaxSequence,
               Sign(q, value, n)
        PROVE  report'.ready => report.ready
    BY <2>1 DEF Sign
  <2>2. CASE Amend
    BY <2>2 DEF Amend, NotReady
  <2>3. ASSUME NEW r \in Run, StartRun(r) PROVE report'.ready => report.ready
    BY <2>3 DEF StartRun, NotReady
  <2>4. ASSUME NEW s \in signed, Observe(s) PROVE report'.ready => report.ready
    BY <2>4 DEF Observe
  <2>5. ASSUME NEW A, NEW S, PreflightReady(A, S) PROVE report'.ready => report.ready
    BY <2>5, WithdrawnIsNotReady DEF PreflightReady
  <2>6. ASSUME NEW A, NEW S, PreflightNotReady(A, S) PROVE report'.ready => report.ready
    BY <2>6 DEF PreflightNotReady, NotReady
  <2> QED
    BY <2>1, <2>2, <2>3, <2>4, <2>5, <2>6 DEF Next
<1> QED
  BY <1>1, PTL DEF Spec, WithdrawalIsFinal

-----------------------------------------------------------------------------

\* The digest of a statement identifies it.
LEMMA SignedFacts ==
  ASSUME SignedAreStatements
  PROVE  /\ \A s \in signed : /\ s.participant \in Participant /\ s.value \in Values
                              /\ s.sequence \in 1 .. MaxSequence
         /\ \A s, t \in signed : s.id = t.id => s = t
<1>1. ASSUME NEW s \in signed
      PROVE  /\ s.participant \in Participant /\ s.value \in Values
             /\ s.sequence \in 1 .. MaxSequence
             /\ s = Statement(s.id[1], s.id[3], s.id[2], s.id[4], s.id[5])
  <2>1. PICK p \in Participant, value \in Values, n \in 1 .. MaxSequence, r \in Run, c \in Nat :
          s = Statement(p, value, n, r, c)
    BY DEF SignedAreStatements
  <2>2. s.participant = p /\ s.value = value /\ s.sequence = n
    BY <2>1 DEF Statement
  <2>3. s.id = <<p, n, value, r, c>>
    BY <2>1 DEF Statement
  <2>4. s.id[1] = p /\ s.id[2] = n /\ s.id[3] = value /\ s.id[4] = r /\ s.id[5] = c
    BY <2>3
  <2> QED
    BY <2>1, <2>2, <2>4
<1>2. ASSUME NEW s \in signed, NEW t \in signed, s.id = t.id PROVE s = t
  BY <1>1, <1>2
<1> QED
  BY <1>1, <1>2

\* Storing statements of different participants replaces theirs and no others.
LEMMA StoreReplaces ==
  ASSUME HeldAreSigned, NEW T, \A s, t \in T : s.participant = t.participant => s = t
  PROVE  LET after == Store(T)
             news == {s.participant : s \in T}
         IN  /\ DOMAIN after = {"run", "policySequence", "statements"}
             /\ after.run = held.run
             /\ DOMAIN after.statements = news \cup DOMAIN held.statements
             /\ \A s \in T : after.statements[s.participant] = s
             /\ \A p \in DOMAIN held.statements \ news :
                  after.statements[p] = held.statements[p]
<1> DEFINE after == Store(T)
           news == {s.participant : s \in T}
           chosen == [p \in news |-> CHOOSE s \in T : s.participant = p]
           statements == [p \in DOMAIN chosen \cup DOMAIN held.statements |->
                            IF p \in DOMAIN chosen THEN chosen[p] ELSE held.statements[p]]
<1>1. after = [held EXCEPT !.statements = statements]
  BY DEF Store
<1>2. \A s \in T : chosen[s.participant] = s
  <2> SUFFICES ASSUME NEW s \in T PROVE chosen[s.participant] = s
    OBVIOUS
  <2>1. \E t \in T : t.participant = s.participant
    OBVIOUS
  <2>2. chosen[s.participant] \in T /\ chosen[s.participant].participant = s.participant
    BY <2>1
  <2> QED
    BY <2>2
<1>3. /\ DOMAIN statements = news \cup DOMAIN held.statements
      /\ \A s \in T : statements[s.participant] = s
      /\ \A p \in DOMAIN held.statements \ news : statements[p] = held.statements[p]
  BY <1>2
<1> HIDE DEF statements
<1>4. /\ DOMAIN after = {"run", "policySequence", "statements"}
      /\ after.run = held.run /\ after.statements = statements
  BY <1>1 DEF HeldAreSigned
<1> QED
  BY <1>3, <1>4

-----------------------------------------------------------------------------

\* A status a ready preflight rests on is one relied on before or newer than
\* every one of the same participant that was.
LEMMA ReadyIsNewer ==
  ASSUME IInv, NEW A, NEW S \in SUBSET signed, Prerequisites(A, S) = {},
         NEW s \in S, NEW t \in relied, s.participant = t.participant
  PROVE  s = t \/ s.sequence > t.sequence
<1> DEFINE k == held.statements[s.participant]
<1>1. /\ s \in signed /\ t \in signed /\ k \in signed
      /\ k.value # "withdrawn" /\ ~(s.sequence < k.sequence)
      /\ s.sequence = k.sequence => s.id = k.id
  BY ReadyPreflight DEF IInv, TypeOK, HeldAreSigned, ReliedAreDominated
<1>2. k = t \/ k.sequence > t.sequence
  BY <1>1 DEF IInv, ReliedAreDominated, Dominates
<1> HIDE DEF k
<1>3. s.sequence \in Int /\ t.sequence \in Int /\ k.sequence \in Int
  BY <1>1, SignedFacts DEF IInv
<1>4. s.sequence = k.sequence => s = k
  BY <1>1, SignedFacts DEF IInv
<1> QED
  BY <1>1, <1>2, <1>3, <1>4

\* Storing what was presented keeps everything relied on dominated.
LEMMA PreflightReadyKeepsIInv ==
  ASSUME IInv, NEW A \in SUBSET signed, NEW S \in SUBSET signed, PreflightReady(A, S)
  PROVE  IInv'
<1>1. /\ Prerequisites(A, S) = {}
      /\ report' = [ready |-> TRUE, statements |-> A \cup S]
      /\ relied' = relied \cup S /\ held' = Store(S)
      /\ UNCHANGED <<background, run, context, signed, policy>>
  BY DEF PreflightReady
<1>2. /\ \A s \in S : s.participant \in Participant
      /\ \A s, t \in S : s.participant = t.participant => s = t
  BY <1>1, ReadyPreflight DEF OneOfEach
<1> DEFINE news == {s.participant : s \in S}
<1>3. /\ DOMAIN held' = {"run", "policySequence", "statements"}
      /\ held'.run = held.run
      /\ DOMAIN held'.statements = news \cup DOMAIN held.statements
      /\ \A s \in S : held'.statements[s.participant] = s
      /\ \A p \in DOMAIN held.statements \ news :
           held'.statements[p] = held.statements[p]
  BY <1>1, <1>2, StoreReplaces DEF IInv
<1>4. TypeOK'
  BY <1>1, <1>2, <1>3 DEF IInv, TypeOK
<1>5. SignedAreStatements'
  BY <1>1 DEF IInv, SignedAreStatements
<1>6. HeldAreSigned'
  <2> SUFFICES ASSUME NEW p \in DOMAIN held'.statements
               PROVE  /\ held'.statements[p] \in signed
                      /\ held'.statements[p].participant = p
    BY <1>1, <1>3 DEF HeldAreSigned
  <2>1. CASE p \in news
    BY <1>3, <2>1
  <2>2. CASE p \in DOMAIN held.statements \ news
    BY <1>3, <2>2 DEF IInv, HeldAreSigned
  <2> QED
    BY <1>3, <2>1, <2>2
<1>7. ReliedAreDominated'
  <2> SUFFICES ASSUME NEW t \in relied'
               PROVE  /\ t.participant \in DOMAIN held'.statements
                      /\ Dominates(held'.statements[t.participant], t)
    BY DEF ReliedAreDominated, Dominates
  <2>1. CASE t \in S
    BY <1>3, <2>1 DEF Dominates
  <2>2. CASE t \in relied /\ t.participant \in news
    <3>1. PICK s \in S : s.participant = t.participant
      BY <2>2
    <3>2. s = t \/ s.sequence > t.sequence
      BY <1>1, <2>2, <3>1, ReadyIsNewer
    <3> QED
      BY <1>3, <3>1, <3>2 DEF Dominates
  <2>3. CASE t \in relied /\ t.participant \notin news
    BY <1>3, <2>3 DEF IInv, ReliedAreDominated, Dominates
  <2> QED
    BY <1>1, <2>1, <2>2, <2>3
<1>8. RelianceIsUnequivocal'
  <2>1. ASSUME NEW s \in S, NEW t \in relied,
               s.participant = t.participant, s.sequence = t.sequence
        PROVE  s = t
    <3>1. s.sequence \in Int
      BY SignedFacts DEF IInv
    <3>2. s = t \/ s.sequence > t.sequence
      BY <1>1, <2>1, ReadyIsNewer
    <3> QED
      BY <2>1, <3>1, <3>2
  <2> QED
    BY <1>1, <1>2, <2>1 DEF IInv, RelianceIsUnequivocal
<1> QED
  BY <1>4, <1>5, <1>6, <1>7, <1>8 DEF IInv

\* The consumer only ever replaces a status by a newer one or a withdrawal.
LEMMA ObserveKeepsIInv ==
  ASSUME IInv, NEW s \in signed, Observe(s)
  PROVE  IInv'
<1>1. /\ \/ s.participant \notin DOMAIN held.statements
         \/ /\ s.participant \in DOMAIN held.statements
            /\ held.statements[s.participant].value = "active"
            /\ s.value = "withdrawn" \/ s.sequence > held.statements[s.participant].sequence
      /\ held' = Store({s})
      /\ UNCHANGED <<background, run, context, signed, policy, report, relied>>
  BY DEF Observe
<1>2. /\ DOMAIN held' = {"run", "policySequence", "statements"}
      /\ held'.run = held.run
      /\ DOMAIN held'.statements = {s.participant} \cup DOMAIN held.statements
      /\ held'.statements[s.participant] = s
      /\ \A p \in DOMAIN held.statements \ {s.participant} :
           held'.statements[p] = held.statements[p]
  BY <1>1, StoreReplaces DEF IInv
<1>3. TypeOK'
  BY <1>1, <1>2, SignedFacts DEF IInv, TypeOK
<1>4. SignedAreStatements'
  BY <1>1 DEF IInv, SignedAreStatements
<1>5. HeldAreSigned'
  <2> SUFFICES ASSUME NEW p \in DOMAIN held'.statements
               PROVE  /\ held'.statements[p] \in signed
                      /\ held'.statements[p].participant = p
    BY <1>1, <1>2 DEF HeldAreSigned
  <2>1. CASE p = s.participant
    BY <1>2, <2>1
  <2>2. CASE p \in DOMAIN held.statements \ {s.participant}
    BY <1>2, <2>2 DEF IInv, HeldAreSigned
  <2> QED
    BY <1>2, <2>1, <2>2
<1>6. ReliedAreDominated'
  <2> SUFFICES ASSUME NEW t \in relied
               PROVE  /\ t.participant \in DOMAIN held'.statements
                      /\ Dominates(held'.statements[t.participant], t)
    BY <1>1 DEF ReliedAreDominated, Dominates
  <2>1. /\ t.participant \in DOMAIN held.statements
        /\ Dominates(held.statements[t.participant], t)
    BY DEF IInv, ReliedAreDominated
  <2>2. CASE t.participant # s.participant
    BY <1>2, <2>1, <2>2 DEF Dominates
  <2>3. CASE t.participant = s.participant
    <3> DEFINE k == held.statements[s.participant]
    <3>1. k \in signed /\ t \in signed
      BY <2>1, <2>3 DEF IInv, HeldAreSigned, TypeOK
    <3>2. s.sequence \in Int /\ t.sequence \in Int /\ k.sequence \in Int
      BY <3>1, SignedFacts DEF IInv
    <3>3. k.value = "active" /\ (s.value = "withdrawn" \/ s.sequence > k.sequence)
      BY <1>1, <2>1, <2>3
    <3>4. k = t \/ k.sequence > t.sequence
      BY <2>1, <2>3, <3>3 DEF Dominates
    <3> HIDE DEF k
    <3> QED
      BY <1>2, <2>3, <3>2, <3>3, <3>4 DEF Dominates
  <2> QED
    BY <2>2, <2>3
<1>7. RelianceIsUnequivocal'
  BY <1>1 DEF IInv, RelianceIsUnequivocal
<1> QED
  BY <1>3, <1>4, <1>5, <1>6, <1>7 DEF IInv

LEMMA InitIInv == Init => IInv
<1> SUFFICES ASSUME Init PROVE IInv
  OBVIOUS
<1>1. /\ signed = {} /\ relied = {} /\ context = 1
      /\ run \in Run /\ background \in Backgrounds /\ policy \in Policies
      /\ held = [run |-> run, policySequence |-> policy.sequence, statements |-> <<>>]
      /\ report = [ready |-> FALSE, statements |-> {}]
  BY DEF Init, Watermarks, NotReady
<1>2. DOMAIN held.statements = {} /\ held.run = run
      /\ DOMAIN held = {"run", "policySequence", "statements"}
  BY <1>1
<1>3. TypeOK
  BY <1>1, <1>2, ProtocolAssumption DEF TypeOK
<1>4. SignedAreStatements
  BY <1>1 DEF SignedAreStatements
<1>5. HeldAreSigned
  BY <1>2 DEF HeldAreSigned
<1>6. ReliedAreDominated
  BY <1>1 DEF ReliedAreDominated
<1>7. RelianceIsUnequivocal
  BY <1>1 DEF RelianceIsUnequivocal
<1> QED
  BY <1>3, <1>4, <1>5, <1>6, <1>7 DEF IInv

\* A new statement is one more signed; nothing held or relied on changes.
LEMMA SignKeepsIInv ==
  ASSUME IInv, NEW p \in Participant, NEW value \in Values, NEW n \in 1 .. MaxSequence,
         Sign(p, value, n)
  PROVE  IInv'
<1> DEFINE new == Statement(p, value, n, run, context)
<1>1. /\ signed' = signed \cup {new}
      /\ UNCHANGED <<background, run, context, held, policy, report, relied>>
  BY DEF Sign, Binding, Statement
<1>2. /\ new.participant = p /\ new.value = value /\ new.sequence = n
  BY DEF Statement
<1>3. run \in Run /\ context \in Nat
  BY ProtocolAssumption DEF IInv, TypeOK
<1>4. SignedAreStatements'
  BY <1>1, <1>3 DEF IInv, SignedAreStatements
<1> HIDE DEF new
<1>5. TypeOK'
  BY <1>1, <1>2 DEF IInv, TypeOK
<1>6. HeldAreSigned'
  BY <1>1 DEF IInv, HeldAreSigned
<1>7. ReliedAreDominated' /\ RelianceIsUnequivocal'
  BY <1>1 DEF IInv, ReliedAreDominated, RelianceIsUnequivocal, Dominates
<1> QED
  BY <1>4, <1>5, <1>6, <1>7 DEF IInv

LEMMA NextKeepsIInv == IInv /\ [Next]_vars => IInv'
<1> SUFFICES ASSUME IInv, [Next]_vars PROVE IInv'
  OBVIOUS
<1>1. ASSUME NEW p \in Participant, NEW value \in Values, NEW n \in 1 .. MaxSequence,
             Sign(p, value, n)
      PROVE  IInv'
  BY <1>1, SignKeepsIInv
<1>2. CASE Amend
  <2>1. /\ context < MaxContext /\ context' = context + 1
        /\ report' = [ready |-> FALSE, statements |-> {}]
        /\ UNCHANGED <<background, run, signed, held, policy, relied>>
    BY <1>2 DEF Amend, NotReady
  <2>2. TypeOK'
    BY <2>1, ProtocolAssumption DEF IInv, TypeOK
  <2>3. SignedAreStatements' /\ HeldAreSigned'
    BY <2>1 DEF IInv, SignedAreStatements, HeldAreSigned
  <2>4. ReliedAreDominated' /\ RelianceIsUnequivocal'
    BY <2>1 DEF IInv, ReliedAreDominated, RelianceIsUnequivocal, Dominates
  <2> QED
    BY <2>2, <2>3, <2>4 DEF IInv
<1>3. ASSUME NEW r \in Run, StartRun(r) PROVE IInv'
  <2>1. /\ run' = r /\ relied' = {}
        /\ held' = [run |-> r, policySequence |-> policy.sequence, statements |-> <<>>]
        /\ report' = [ready |-> FALSE, statements |-> {}]
        /\ UNCHANGED <<background, context, signed, policy>>
    BY <1>3 DEF StartRun, Watermarks, NotReady
  <2>2. /\ DOMAIN held'.statements = {} /\ held'.run = r
        /\ DOMAIN held' = {"run", "policySequence", "statements"}
    BY <2>1
  <2>3. TypeOK'
    BY <2>1, <2>2 DEF IInv, TypeOK
  <2>4. SignedAreStatements' /\ HeldAreSigned'
    BY <2>1, <2>2 DEF IInv, SignedAreStatements, HeldAreSigned
  <2>5. ReliedAreDominated' /\ RelianceIsUnequivocal'
    BY <2>1 DEF ReliedAreDominated, RelianceIsUnequivocal
  <2> QED
    BY <2>3, <2>4, <2>5 DEF IInv
<1>4. ASSUME NEW s \in signed, Observe(s) PROVE IInv'
  BY <1>4, ObserveKeepsIInv
<1>5. ASSUME NEW A \in SUBSET signed, NEW S \in SUBSET signed, PreflightReady(A, S)
      PROVE  IInv'
  BY <1>5, PreflightReadyKeepsIInv
<1>6. ASSUME NEW A, NEW S, PreflightNotReady(A, S) PROVE IInv'
  <2>1. /\ report' = [ready |-> FALSE, statements |-> {}]
        /\ UNCHANGED <<background, run, context, signed, held, policy, relied>>
    BY <1>6 DEF PreflightNotReady, NotReady
  <2>2. TypeOK'
    BY <2>1 DEF IInv, TypeOK
  <2>3. SignedAreStatements' /\ HeldAreSigned'
    BY <2>1 DEF IInv, SignedAreStatements, HeldAreSigned
  <2>4. ReliedAreDominated' /\ RelianceIsUnequivocal'
    BY <2>1 DEF IInv, ReliedAreDominated, RelianceIsUnequivocal, Dominates
  <2> QED
    BY <2>2, <2>3, <2>4 DEF IInv
<1>7. CASE UNCHANGED vars
  <2>1. TypeOK'
    BY <1>7 DEF vars, IInv, TypeOK
  <2>2. SignedAreStatements' /\ HeldAreSigned'
    BY <1>7 DEF vars, IInv, SignedAreStatements, HeldAreSigned
  <2>3. ReliedAreDominated' /\ RelianceIsUnequivocal'
    BY <1>7 DEF vars, IInv, ReliedAreDominated, RelianceIsUnequivocal, Dominates
  <2> QED
    BY <2>1, <2>2, <2>3 DEF IInv
<1>8. \A V : Selections(V) \subseteq SUBSET signed
  BY DEF Selections
<1> QED
  BY <1>1, <1>2, <1>3, <1>4, <1>5, <1>6, <1>7, <1>8 DEF Next

THEOREM Invariance == Spec => []IInv
  BY InitIInv, NextKeepsIInv, PTL DEF Spec

\* Every reachable state is well typed.
THEOREM TypeCorrect == Spec => []TypeOK
<1>1. IInv => TypeOK
  BY DEF IInv
<1> QED
  BY <1>1, Invariance, PTL

\* Across the ready preflights of a run a participant's sequence number stands
\* for one statement: equivocation is never relied on (human_drill.py:713-719).
THEOREM NoEquivocation == Spec => []RelianceIsUnequivocal
<1>1. IInv => RelianceIsUnequivocal
  BY DEF IInv
<1> QED
  BY <1>1, Invariance, PTL

\* What later preflights of a run rest on is newer than what earlier ones did:
\* a replayed old status is never relied on again (human_drill.py:709-712).
THEOREM NoReplay == Spec => RelianceNeverGoesBack
<1>1. IInv /\ [Next]_vars
        => [\A s \in relied' \ relied, t \in relied :
              run' = run /\ s.participant = t.participant => s.sequence > t.sequence]_vars
  <2> SUFFICES ASSUME IInv, Next, NEW s \in relied' \ relied, NEW t \in relied,
                      s.participant = t.participant
               PROVE  s.sequence > t.sequence
    BY DEF vars
  <2>1. ASSUME NEW A \in SUBSET signed, NEW S \in SUBSET signed, PreflightReady(A, S)
        PROVE  s.sequence > t.sequence
    BY <2>1, ReadyIsNewer DEF PreflightReady
  <2>2. PICK A \in Selections({"acknowledged", "declined"}),
             S \in Selections({"active", "withdrawn"}) : PreflightReady(A, S)
    BY DEF Next, Sign, Amend, StartRun, Observe, PreflightNotReady
  <2> QED
    BY <2>1, <2>2 DEF Selections
<1> QED
  BY <1>1, Invariance, PTL DEF Spec, RelianceNeverGoesBack

-----------------------------------------------------------------------------

\* A ready report is everyone's: each participant consented to the manifest and
\* run as they are now, and declared to be active not before that, for every
\* set of participants (human_drill.py:626-737, 763-769).
THEOREM ReadinessIsUnanimous == Spec => []ReadyIsUnanimous
<1>1. Init => ReadyIsUnanimous
  BY DEF Init, NotReady, ReadyIsUnanimous
<1>2. IInv /\ ReadyIsUnanimous /\ [Next]_vars => ReadyIsUnanimous'
  <2> SUFFICES ASSUME IInv, ReadyIsUnanimous, [Next]_vars, report'.ready
               PROVE  ReadyIsUnanimous'
    BY DEF ReadyIsUnanimous
  <2>1. CASE UNCHANGED <<report, run, context>>
    BY <2>1 DEF ReadyIsUnanimous, Binding
  <2>2. ASSUME NEW A \in SUBSET signed, NEW S \in SUBSET signed, PreflightReady(A, S)
        PROVE  ReadyIsUnanimous'
    <3>1. /\ OneOfEach(A, "acknowledged") /\ OneOfEach(S, "active")
          /\ \A a \in A, s \in S :
               a.participant = s.participant => ~(s.sequence < a.sequence)
      BY <2>2, ReadyPreflight DEF PreflightReady
    <3>2. report'.statements = A \cup S /\ Binding' = Binding
      BY <2>2 DEF PreflightReady, Binding
    <3> SUFFICES ASSUME NEW p \in Participant
                 PROVE  \E a, s \in A \cup S :
                          /\ a.participant = p /\ a.value = "acknowledged" /\ a.binding = Binding
                          /\ s.participant = p /\ s.value = "active" /\ s.binding = Binding
                          /\ a.sequence <= s.sequence
      BY <3>2 DEF ReadyIsUnanimous
    <3>3. PICK a \in A : a.participant = p /\ a.value = "acknowledged" /\ a.binding = Binding
      BY <3>1 DEF OneOfEach
    <3>4. PICK s \in S : s.participant = p /\ s.value = "active" /\ s.binding = Binding
      BY <3>1 DEF OneOfEach
    <3>5. a.sequence \in Int /\ s.sequence \in Int
      BY SignedFacts DEF IInv
    <3>6. a.sequence <= s.sequence
      BY <3>1, <3>3, <3>4, <3>5
    <3> QED
      BY <3>3, <3>4, <3>6
  <2>3. CASE Amend \/ (\E r \in Run : StartRun(r)) \/ (\E A, S : PreflightNotReady(A, S))
    BY <2>3 DEF Amend, StartRun, PreflightNotReady, NotReady
  <2>4. CASE (\E p \in Participant, value \in Values, n \in 1 .. MaxSequence : Sign(p, value, n))
               \/ (\E s \in signed : Observe(s)) \/ UNCHANGED vars
    BY <2>1, <2>4 DEF Sign, Observe, vars
  <2>5. \A V : Selections(V) \subseteq SUBSET signed
    BY DEF Selections
  <2> QED
    BY <2>2, <2>3, <2>4, <2>5 DEF Next
<1> QED
  BY <1>1, <1>2, Invariance, PTL DEF Spec

\* When nothing is missing all evidence is valid and issued outside the drill.
LEMMA ReadyEvidence ==
  ASSUME NEW A, NEW S, Prerequisites(A, S) = {}
  PROVE  LET M == Manifest(A, S)
         IN  /\ Trusted(M, {policy}) = Outside
             /\ ValidEvidence(M) = Outside
             /\ \A t \in {"qualification", "authority", "operational_access"} :
                  Participant \subseteq Vouched(Outside, t)
             /\ Boundaries \subseteq Covered(Outside, "channel_independence")
<1> DEFINE M == Manifest(A, S)
           V == ValidEvidence(M)
           personal == {"qualification", "authority", "operational_access"}
<1>0. /\ M.participants = Participant /\ M.evidence = background.evidence
      /\ Protected(M) = Participant \cup {background.facilitator, background.abortAuthority}
  BY DEF Manifest, Protected
<1>1. EvidenceMissing(M, {policy}) = {}
  BY ReadyParts
<1> HIDE DEF M
<1>2. /\ When(\E t \in personal : ~(M.participants \subseteq Vouched(V, t)),
              "personal_evidence") = {}
      /\ When(~(Boundaries \subseteq Covered(V, "channel_independence")), "independence") = {}
      /\ When(V # M.evidence, "evidence") = {}
      /\ When({policy} # {} /\ V # Trusted(M, {policy}), "trust_proof") = {}
  BY <1>1 DEF EvidenceMissing
<1> HIDE DEF V
<1>3. V = M.evidence
  BY <1>2 DEF When
<1>4. V = Trusted(M, {policy})
  BY <1>2 DEF When
<1>5. ~(\E t \in personal : ~(M.participants \subseteq Vouched(V, t)))
  BY <1>2 DEF When
<1>6. Boundaries \subseteq Covered(V, "channel_independence")
  BY <1>2 DEF When
<1>7. Trusted(M, {policy}) = Outside
  BY <1>0, <1>3 DEF Trusted, Outside, V
<1> QED
  BY <1>0, <1>4, <1>5, <1>6, <1>7 DEF M, V

\* A valid entry rests on a file that says the same.
LEMMA ValidMeansFavourable ==
  ASSUME IInv, NEW A, NEW S, NEW e \in ValidEvidence(Manifest(A, S))
  PROVE  /\ e.artifact \in DOMAIN background.files
         /\ Favourable(background.files[e.artifact], e.type)
         /\ background.files[e.artifact].subjects = e.subjects
         /\ e.covers \subseteq background.files[e.artifact].covers
<1> DEFINE M == Manifest(A, S)
           file == background.files[e.artifact]
           expected == [scenario |-> ScenarioId, environment |-> M.environment, asOf |-> M.asOf,
                        type |-> e.type, subjects |-> e.subjects, object |-> e.object,
                        covers |-> e.covers]
<1>1. /\ M.files = background.files /\ M.environment = background.environment
      /\ M.asOf = background.asOf
  BY DEF Manifest
<1>2. HumanEvidenceErrors(M.files, e.artifact, expected) = {}
  BY DEF ValidEvidence
<1>3. /\ e.artifact \in DOMAIN background.files /\ file.kind = "human"
      /\ HumanEnvelopeErrors(file, expected) = {}
  BY <1>1, <1>2 DEF HumanEvidenceErrors
<1>4. /\ expected.scenario = ScenarioId /\ expected.environment = background.environment
      /\ expected.asOf = background.asOf /\ expected.type = e.type
      /\ expected.subjects = e.subjects /\ expected.covers = e.covers
  BY <1>1
<1> HIDE DEF expected, M, file
<1>5. /\ When(file.scenario # expected.scenario, "evidence_scenario") = {}
      /\ When(file.environment # expected.environment, "evidence_environment") = {}
      /\ When(file.until <= expected.asOf, "evidence_stale") = {}
      /\ When(file.observed > expected.asOf, "evidence_in_future") = {}
      /\ When(file.type # expected.type, "evidence_type") = {}
      /\ When(file.subjects # expected.subjects, "evidence_subjects") = {}
      /\ When(~(expected.covers \subseteq file.covers), "evidence_covers") = {}
      /\ When(file.finding # "satisfied", "evidence_finding") = {}
  BY <1>3 DEF HumanEnvelopeErrors, ContextErrors, EvidenceTimeErrors
<1>6. /\ file.scenario = ScenarioId /\ file.environment = background.environment
      /\ ~(file.until <= background.asOf) /\ ~(file.observed > background.asOf)
      /\ file.type = e.type /\ file.subjects = e.subjects
      /\ e.covers \subseteq file.covers /\ file.finding = "satisfied"
  BY <1>4, <1>5 DEF When
<1>7. background.asOf \in Int /\ file.observed \in Int /\ file.until \in Int
  BY <1>3, ProtocolAssumption DEF IInv, TypeOK, file
<1> QED
  BY <1>3, <1>6, <1>7 DEF Favourable, file

LEMMA DomainsAreFinite ==
  ASSUME IInv
  PROVE  Cardinality({e.domain : e \in Outside}) \in Nat
<1> DEFINE T == {e.domain : e \in Outside}
           f == [e \in Outside |-> e.domain]
<1>1. IsFiniteSet(Outside)
  BY ProtocolAssumption, FS_Subset DEF IInv, TypeOK, Outside
<1>2. f \in Surjection(Outside, T)
  BY DEF Surjection
<1> HIDE DEF f
<1>3. IsFiniteSet(T)
  BY <1>1, <1>2, FS_Surjection
<1> QED
  BY <1>3, FS_CardinalityType

\* A ready preflight is vouched for from outside, under a policy in force.
LEMMA ReadyIsVouched ==
  ASSUME IInv, NEW A, NEW S, Prerequisites(A, S) = {}
  PROVE  /\ policy.current /\ policy.sequence >= background.minSequence
         /\ Cardinality({e.domain : e \in Outside}) >= policy.minimumDomains
         /\ \A p \in Participant, t \in {"qualification", "authority", "operational_access"} :
              \E f \in Favouring(t) : p \in f.subjects
         /\ Boundaries \subseteq UNION {f.covers : f \in Favouring("channel_independence")}
<1> DEFINE M == Manifest(A, S)
<1>1. /\ GateMissing({policy}, {background.minSequence}, {held}) = {}
      /\ DomainsMissing(M, {policy}) = {}
  BY ReadyParts
<1>2. /\ Trusted(M, {policy}) = Outside
      /\ \A t \in {"qualification", "authority", "operational_access"} :
           Participant \subseteq Vouched(Outside, t)
      /\ Boundaries \subseteq Covered(Outside, "channel_independence")
  BY ReadyEvidence
<1>3. \A e \in Outside :
        LET file == background.files[e.artifact]
        IN  file \in Favouring(e.type) /\ file.subjects = e.subjects /\ e.covers \subseteq file.covers
  <2>1. Outside = ValidEvidence(M)
    BY ReadyEvidence
  <2> QED
    BY <2>1, ValidMeansFavourable DEF Favouring
<1> HIDE DEF M
<1>4. policy.sequence \in Nat /\ background.minSequence \in Nat /\ policy.minimumDomains \in Nat
  BY ProtocolAssumption DEF IInv, TypeOK
<1>5. policy.current
  BY <1>1 DEF GateMissing, When
<1>6. policy.sequence >= background.minSequence
  <2>1. ~(\E p \in {policy}, m \in {background.minSequence} : p.sequence < m)
    BY <1>1 DEF GateMissing, When
  <2> QED
    BY <1>4, <2>1
<1>7. Cardinality({e.domain : e \in Outside}) >= policy.minimumDomains
  <2>1. ~(\E p \in {policy} :
            Cardinality({e.domain : e \in Trusted(M, {policy})}) < p.minimumDomains)
    BY <1>1 DEF DomainsMissing, When
  <2>2. ~(Cardinality({e.domain : e \in Outside}) < policy.minimumDomains)
    BY <1>2, <2>1
  <2> QED
    BY <1>4, <2>2, DomainsAreFinite
<1>8. \A p \in Participant, t \in {"qualification", "authority", "operational_access"} :
        \E f \in Favouring(t) : p \in f.subjects
  <2> SUFFICES ASSUME NEW p \in Participant,
                      NEW t \in {"qualification", "authority", "operational_access"}
               PROVE  \E f \in Favouring(t) : p \in f.subjects
    OBVIOUS
  <2>1. PICK e \in Outside : e.type = t /\ p \in e.subjects
    BY <1>2 DEF Vouched, OfType
  <2> QED
    BY <1>3, <2>1
<1>9. Boundaries \subseteq UNION {f.covers : f \in Favouring("channel_independence")}
  <2> SUFFICES ASSUME NEW b \in Boundaries
               PROVE  \E f \in Favouring("channel_independence") : b \in f.covers
    OBVIOUS
  <2>1. PICK e \in Outside : e.type = "channel_independence" /\ b \in e.covers
    BY <1>2 DEF Covered, OfType
  <2> QED
    BY <1>3, <2>1
<1> QED
  BY <1>5, <1>6, <1>7, <1>8, <1>9

\* A ready report rests on evidence that nobody of the drill vouched for
\* himself, from as many independence domains as the policy asks, and on what
\* its files say, for every set of backgrounds and policies
\* (human_drill.py:262-281, 771-782; artifact_validation.py:91-167).
THEOREM ReadinessIsVouched == Spec => []ReadyIsIndependentlyVouched
<1>1. Init => ReadyIsIndependentlyVouched
  BY DEF Init, NotReady, ReadyIsIndependentlyVouched
<1>2. IInv /\ ReadyIsIndependentlyVouched /\ [Next]_vars => ReadyIsIndependentlyVouched'
  <2> SUFFICES ASSUME IInv, ReadyIsIndependentlyVouched, [Next]_vars, report'.ready
               PROVE  ReadyIsIndependentlyVouched'
    BY DEF ReadyIsIndependentlyVouched
  <2>1. CASE UNCHANGED <<report, background, policy>>
    BY <2>1 DEF ReadyIsIndependentlyVouched, Outside, Favouring, Favourable
  <2>2. ASSUME NEW A, NEW S, PreflightReady(A, S) PROVE ReadyIsIndependentlyVouched'
    <3>1. background' = background /\ policy' = policy
      BY <2>2 DEF PreflightReady
    <3>2. Outside' = Outside /\ \A t : Favouring(t)' = Favouring(t)
      BY <3>1 DEF Outside, Favouring, Favourable
    <3> QED
      BY <2>2, <3>1, <3>2, ReadyIsVouched DEF PreflightReady, ReadyIsIndependentlyVouched
  <2>3. CASE Amend \/ (\E r \in Run : StartRun(r)) \/ (\E A, S : PreflightNotReady(A, S))
    BY <2>3 DEF Amend, StartRun, PreflightNotReady, NotReady
  <2>4. CASE (\E p \in Participant, value \in Values, n \in 1 .. MaxSequence : Sign(p, value, n))
               \/ (\E s \in signed : Observe(s)) \/ UNCHANGED vars
    BY <2>1, <2>4 DEF Sign, Observe, vars
  <2> QED
    BY <2>2, <2>3, <2>4 DEF Next
<1> QED
  BY <1>1, <1>2, Invariance, PTL DEF Spec
=============================================================================

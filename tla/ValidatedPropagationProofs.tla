---------------------- MODULE ValidatedPropagationProofs ----------------------
(***************************************************************************)
(* Proofs about a call of propagate_failure: the search for a cycle, the    *)
(* validation built on it and the propagation through what passes, for      *)
(* every topology, every listing order and every set of fault targets.      *)
(*                                                                          *)
(* Search: the frames are a path of the graph, its nodes are the active     *)
(* ones, whatever a frame has gone by is finished, and the finished nodes   *)
(* are closed under references and hold no cycle.                           *)
(* Propagation: the set the loop builds stays inside every closed set that  *)
(* holds the targets; and while a pass has changed nothing, no component it *)
(* has gone by depends on that set.                                         *)
(***************************************************************************)
EXTENDS ValidatedPropagation, FiniteSetTheorems, FunctionTheorems, SequenceTheorems, TLAPS

\* What each node lists, as a function.
Refs == [n \in Node |-> RefsOf(n)]

Frame == [node : Node, next : Nat \ {0}]

SearchTyped ==
  /\ DOMAIN graph \subseteq Node /\ \A n \in DOMAIN graph : graph[n] \in Seq(Node)
  /\ roots \subseteq DOMAIN graph
  /\ frames \in Seq(Frame)
  /\ \A k \in DOMAIN frames : frames[k].next <= 1 + Len(Refs[frames[k].node])
  /\ mark \in [Node -> {"new", "active", "finished"}]
  /\ cycle \in Seq(Node)

\* The active nodes are those on the stack, and each is on it once.
ActiveIsOnStack ==
  /\ \A k \in DOMAIN frames : mark[frames[k].node] = "active"
  /\ \A n \in Node : mark[n] = "active" => \E k \in DOMAIN frames : frames[k].node = n
  /\ \A j, k \in DOMAIN frames : frames[j].node = frames[k].node => j = k

\* Each frame waits for the one above it, at the reference it has just passed.
StackIsPath ==
  \A k \in DOMAIN frames : k < Len(frames) =>
    /\ frames[k].next >= 2
    /\ Refs[frames[k].node][frames[k].next - 1] = frames[k + 1].node

Finished == {n \in Node : mark[n] = "finished"}

\* What a frame has gone by is finished, except what it waits for.
PassedAreFinished ==
  \A k \in DOMAIN frames : \A j \in 1 .. frames[k].next - 1 :
    \/ Refs[frames[k].node][j] \in Finished
    \/ k < Len(frames) /\ j = frames[k].next - 1

FinishedIsClosed == \A n \in Finished : Successors[n] \subseteq Finished

FinishedIsAcyclic ==
  \A S \in SUBSET Finished : S # {} => \E c \in S : Successors[c] \cap S = {}

\* A node of the graph nobody has seen is still to be tried as a root.
UnseenAreRoots == \A n \in DOMAIN graph : mark[n] = "new" => n \in roots

CycleOnlyAtTheEnd ==
  /\ phase \in {"structure", "search"} => cycle = << >>
  /\ phase = "structure" => StartSearch
  /\ phase \in {"done", "reported"} /\ cycle = << >> => frames = << >> /\ roots = {}

SearchIInv ==
  /\ SearchTyped
  /\ ActiveIsOnStack
  /\ StackIsPath
  /\ PassedAreFinished
  /\ FinishedIsClosed
  /\ FinishedIsAcyclic
  /\ UnseenAreRoots
  /\ CycleOnlyAtTheEnd
  /\ ReportedCycleIsReal

-----------------------------------------------------------------------------
(* The data of the search.                                                  *)

LEMMA RefsTyped ==
  ASSUME SearchTyped
  PROVE  /\ Refs \in [Node -> Seq(Node)]
         /\ \A n \in Node : /\ Successors[n] = {Refs[n][k] : k \in 1 .. Len(Refs[n])}
                           /\ Successors[n] \subseteq Node
<1>1. \A n \in Node : RefsOf(n) \in Seq(Node)
  BY DEF SearchTyped, RefsOf
<1>2. Refs \in [Node -> Seq(Node)]
  BY <1>1 DEF Refs
<1>3. \A n \in Node : Refs[n] = RefsOf(n) /\ DOMAIN RefsOf(n) = 1 .. Len(Refs[n])
  BY <1>1 DEF Refs
<1> QED
  BY <1>1, <1>2, <1>3 DEF Successors

LEMMA GraphFixed ==
  ASSUME UNCHANGED graph PROVE Refs' = Refs /\ Successors' = Successors
BY DEF Refs, Successors, RefsOf

LEMMA TopTyped ==
  ASSUME SearchTyped, frames # << >>
  PROVE  /\ Len(frames) \in Nat \ {0} /\ DOMAIN frames = 1 .. Len(frames)
         /\ Top = frames[Len(frames)] /\ Top \in Frame
         /\ Top.next <= 1 + Len(Refs[Top.node])
         /\ Len(Refs[Top.node]) \in Nat
         /\ Exhausted <=> Top.next > Len(Refs[Top.node])
         /\ NextRef = Refs[Top.node][Top.next]
         /\ ~Exhausted => /\ Top.next \in 1 .. Len(Refs[Top.node])
                          /\ NextRef \in Node /\ NextRef \in Successors[Top.node]
<1>1. Len(frames) \in Nat \ {0} /\ DOMAIN frames = 1 .. Len(frames)
  BY DEF SearchTyped
<1>2. Top = frames[Len(frames)] /\ Top \in Frame
  BY <1>1 DEF Top, SearchTyped
<1>3. Top.next <= 1 + Len(Refs[Top.node])
  BY <1>1 DEF Top, SearchTyped
<1>4. Top.node \in Node /\ Top.next \in Nat \ {0}
  BY <1>2 DEF Frame
<1>5. Refs[Top.node] = RefsOf(Top.node) /\ Refs[Top.node] \in Seq(Node)
  BY <1>4, RefsTyped DEF Refs
<1>6. Len(Refs[Top.node]) \in Nat
  BY <1>5
<1>7. Exhausted <=> Top.next > Len(Refs[Top.node])
  BY <1>5 DEF Exhausted
<1>8. NextRef = Refs[Top.node][Top.next]
  BY <1>5 DEF NextRef
<1>9. ~Exhausted => /\ Top.next \in 1 .. Len(Refs[Top.node])
                    /\ NextRef \in Node /\ NextRef \in Successors[Top.node]
  BY <1>4, <1>5, <1>6, <1>7, <1>8, RefsTyped
<1> QED
  BY <1>1, <1>2, <1>3, <1>6, <1>7, <1>8, <1>9

\* The stack with its top frame moved on by one reference.
LEMMA AdvancedTyped ==
  ASSUME SearchTyped, frames # << >>
  PROVE  /\ Advanced \in Seq(Frame) /\ Len(Advanced) = Len(frames)
         /\ \A k \in 1 .. Len(frames) : k < Len(frames) => Advanced[k] = frames[k]
         /\ Advanced[Len(frames)] = [node |-> Top.node, next |-> Top.next + 1]
<1>1. Len(frames) \in Nat \ {0} /\ Top \in Frame /\ frames \in Seq(Frame)
  BY TopTyped DEF SearchTyped
<1>2. [Top EXCEPT !.next = Top.next + 1] = [node |-> Top.node, next |-> Top.next + 1]
  BY <1>1 DEF Frame
<1>3. [node |-> Top.node, next |-> Top.next + 1] \in Frame
  BY <1>1 DEF Frame
<1> QED
  BY <1>1, <1>2, <1>3 DEF Advanced

\* A non-empty set of naturals has a least element.
LEMMA LeastNatural ==
  ASSUME NEW S \in SUBSET Nat, S # {}
  PROVE  \E m \in S : \A n \in S : m <= n
<1> DEFINE Less == {ss \in Nat \X Nat : ss[1] < ss[2]}
<1>1. IsWellFoundedOn(Less, Nat)
  BY NatLessThanWellFounded DEF OpToRel
<1>2. \A m, n \in Nat : n < m => <<n, m>> \in Less
  OBVIOUS
<1> HIDE DEF Less
<1>3. PICK m \in S : \A n \in S : <<n, m>> \notin Less
  BY <1>1, WFMin
<1>4. \A n \in S : ~(n < m)
  BY <1>2, <1>3
<1> QED
  BY <1>4

\* Sorting the keys always gives the outer loop a next one.
LEMMA FirstRootTyped ==
  ASSUME SearchTyped, roots # {} PROVE FirstRoot \in roots /\ FirstRoot \in Node
<1>1. roots \in SUBSET Nat /\ roots \subseteq Node
  BY GraphsAssumption DEF SearchTyped
<1>2. \E r \in roots : \A q \in roots : r <= q
  BY <1>1, LeastNatural
<1> QED
  BY <1>1, <1>2 DEF FirstRoot

-----------------------------------------------------------------------------
(* The steps of the search.                                                 *)

\* A step that leaves graph, cycle and the finished nodes alone keeps what is
\* said of them.
LEMMA FinishedUnchanged ==
  ASSUME SearchIInv, UNCHANGED <<graph, cycle>>, Finished' = Finished
  PROVE  FinishedIsClosed' /\ FinishedIsAcyclic' /\ ReportedCycleIsReal'
<1>1. Successors' = Successors
  BY GraphFixed
<1>2. FinishedIsClosed'
  BY <1>1 DEF SearchIInv, FinishedIsClosed
<1>3. FinishedIsAcyclic'
  BY <1>1 DEF SearchIInv, FinishedIsAcyclic
<1>4. ReportedCycleIsReal'
  BY <1>1 DEF SearchIInv, ReportedCycleIsReal
<1> QED
  BY <1>2, <1>3, <1>4

LEMMA EnterRootIInv == ASSUME SearchIInv, EnterRoot PROVE SearchIInv'
<1>1. /\ phase = "search" /\ frames = << >> /\ roots # {} /\ mark[FirstRoot] = "new"
      /\ mark' = [mark EXCEPT ![FirstRoot] = "active"]
      /\ frames' = <<[node |-> FirstRoot, next |-> 1]>>
      /\ roots' = roots \ {FirstRoot}
      /\ UNCHANGED <<graph, phase, cycle>>
  BY DEF EnterRoot
<1>2. SearchTyped /\ FirstRoot \in roots /\ FirstRoot \in Node
  BY <1>1, FirstRootTyped DEF SearchIInv
<1>3. Refs' = Refs
  BY <1>1, GraphFixed
<1>4. [node |-> FirstRoot, next |-> 1] \in Frame
  BY <1>2 DEF Frame
<1>5. /\ frames' \in Seq(Frame) /\ Len(frames') = 1 /\ DOMAIN frames' = {1}
      /\ frames'[1].node = FirstRoot /\ frames'[1].next = 1
  BY <1>1, <1>4
<1>6. SearchTyped'
  <2>1. mark' \in [Node -> {"new", "active", "finished"}]
    BY <1>1, <1>2 DEF SearchTyped
  <2>2. 1 <= 1 + Len(Refs[FirstRoot])
    BY <1>2, RefsTyped
  <2> QED
    BY <1>1, <1>2, <1>3, <1>5, <2>1, <2>2 DEF SearchTyped
<1>7. ActiveIsOnStack'
  BY <1>1, <1>2, <1>5 DEF ActiveIsOnStack, SearchIInv, SearchTyped
<1>8. StackIsPath' /\ PassedAreFinished'
  BY <1>5 DEF StackIsPath, PassedAreFinished
<1>9. Finished' = Finished
  BY <1>1, <1>2 DEF Finished, SearchTyped
<1>10. UnseenAreRoots'
  BY <1>1, <1>2 DEF UnseenAreRoots, SearchIInv, SearchTyped
<1>11. CycleOnlyAtTheEnd'
  BY <1>1 DEF CycleOnlyAtTheEnd, SearchIInv
<1> QED
  BY <1>1, <1>6, <1>7, <1>8, <1>9, <1>10, <1>11, FinishedUnchanged DEF SearchIInv

LEMMA SkipRootIInv == ASSUME SearchIInv, SkipRoot PROVE SearchIInv'
<1>1. /\ phase = "search" /\ frames = << >> /\ mark[FirstRoot] = "finished"
      /\ roots' = roots \ {FirstRoot}
      /\ UNCHANGED <<graph, phase, frames, mark, cycle>>
  BY DEF SkipRoot
<1>2. Refs' = Refs
  BY <1>1, GraphFixed
<1>3. Finished' = Finished
  BY <1>1 DEF Finished
<1>4. SearchTyped'
  BY <1>1, <1>2 DEF SearchIInv, SearchTyped
<1>5. ActiveIsOnStack' /\ StackIsPath' /\ PassedAreFinished'
  BY <1>1, <1>2 DEF SearchIInv, ActiveIsOnStack, StackIsPath, PassedAreFinished
<1>6. UnseenAreRoots' /\ CycleOnlyAtTheEnd'
  BY <1>1 DEF SearchIInv, UnseenAreRoots, CycleOnlyAtTheEnd
<1> QED
  BY <1>1, <1>3, <1>4, <1>5, <1>6, FinishedUnchanged DEF SearchIInv

\* The frames below the top one, and how far the top one has got.
LEMMA AdvancedIsPassed ==
  ASSUME SearchIInv, frames # << >>, ~Exhausted
  PROVE  /\ \A k \in DOMAIN frames : k < Len(frames) =>
              /\ Advanced[k] = frames[k] /\ Advanced[k].next >= 2
              /\ k + 1 \in DOMAIN frames
              /\ Refs[Advanced[k].node][Advanced[k].next - 1] = Advanced[k + 1].node
         /\ \A k \in DOMAIN frames : /\ Advanced[k].node = frames[k].node
                                     /\ Advanced[k].next <= 1 + Len(Refs[Advanced[k].node])
         /\ Advanced[Len(frames)].next >= 2
         /\ Refs[Advanced[Len(frames)].node][Advanced[Len(frames)].next - 1] = NextRef
         /\ \A k \in DOMAIN frames : \A j \in 1 .. Advanced[k].next - 1 :
              \/ Refs[Advanced[k].node][j] \in Finished
              \/ j = Advanced[k].next - 1
<1> DEFINE n == Len(frames)
<1>1. /\ SearchTyped /\ n \in Nat \ {0} /\ DOMAIN frames = 1 .. n
      /\ Top = frames[n] /\ Top.node \in Node /\ Top.next \in Nat \ {0}
      /\ Top.next \in 1 .. Len(Refs[Top.node]) /\ Len(Refs[Top.node]) \in Nat
      /\ NextRef = Refs[Top.node][Top.next]
  BY TopTyped DEF SearchIInv, Frame
<1>2. /\ \A k \in 1 .. n : k < n => Advanced[k] = frames[k]
      /\ Advanced[n].node = Top.node /\ Advanced[n].next = Top.next + 1
  BY <1>1, AdvancedTyped
<1>3. \A k \in 1 .. n : Advanced[k].node = frames[k].node
  BY <1>1, <1>2
<1>4. ASSUME NEW k \in 1 .. n PROVE frames[k].next \in Nat \ {0}
  <2>1. frames[k] \in Frame
    BY <1>1 DEF SearchTyped
  <2> QED
    BY <2>1 DEF Frame
<1>5. ASSUME NEW k \in 1 .. n, k < n
      PROVE  /\ Advanced[k] = frames[k] /\ Advanced[k].next >= 2 /\ k + 1 \in 1 .. n
             /\ Refs[Advanced[k].node][Advanced[k].next - 1] = Advanced[k + 1].node
  BY <1>1, <1>2, <1>3, <1>5 DEF SearchIInv, StackIsPath
<1>6. ASSUME NEW k \in 1 .. n PROVE Advanced[k].next <= 1 + Len(Refs[Advanced[k].node])
  <2>1. CASE k < n
    BY <1>1, <1>2, <2>1 DEF SearchTyped
  <2>2. CASE k = n
    BY <1>1, <1>2, <2>2
  <2> QED
    BY <2>1, <2>2
<1>7. Advanced[n].next >= 2 /\ Refs[Advanced[n].node][Advanced[n].next - 1] = NextRef
  BY <1>1, <1>2
<1>8. ASSUME NEW k \in 1 .. n, NEW j \in 1 .. Advanced[k].next - 1
      PROVE  \/ Refs[Advanced[k].node][j] \in Finished
             \/ j = Advanced[k].next - 1
  <2>1. CASE k < n
    BY <1>1, <1>2, <1>4, <1>8, <2>1 DEF SearchIInv, PassedAreFinished
  <2>2. CASE k = n
    BY <1>1, <1>2, <1>8, <2>2 DEF SearchIInv, PassedAreFinished
  <2> QED
    BY <2>1, <2>2
<1> QED
  BY <1>1, <1>3, <1>5, <1>6, <1>7, <1>8

LEMMA EnterIInv == ASSUME SearchIInv, Enter PROVE SearchIInv'
<1> DEFINE n == Len(frames)
           new == [node |-> NextRef, next |-> 1]
<1>1. /\ phase = "search" /\ frames # << >> /\ ~Exhausted /\ mark[NextRef] = "new"
      /\ mark' = [mark EXCEPT ![NextRef] = "active"]
      /\ frames' = Append(Advanced, new)
      /\ UNCHANGED <<graph, phase, roots, cycle>>
  BY DEF Enter
<1>2. /\ SearchTyped /\ n \in Nat \ {0} /\ DOMAIN frames = 1 .. n /\ NextRef \in Node
  BY <1>1, TopTyped DEF SearchIInv
<1>3. Refs' = Refs
  BY <1>1, GraphFixed
<1>4. new \in Frame /\ new.node = NextRef /\ new.next = 1
  BY <1>2 DEF Frame
<1> HIDE DEF new
<1>5. /\ frames' \in Seq(Frame) /\ Len(frames') = n + 1 /\ DOMAIN frames' = 1 .. n + 1
      /\ \A k \in 1 .. n : frames'[k] = Advanced[k]
      /\ frames'[n + 1] = new
  BY <1>1, <1>2, <1>4, AdvancedTyped
<1>6. SearchTyped'
  <2>1. mark' \in [Node -> {"new", "active", "finished"}]
    BY <1>1, <1>2 DEF SearchTyped
  <2>2. \A k \in DOMAIN frames' : frames'[k].next <= 1 + Len(Refs[frames'[k].node])
    BY <1>1, <1>2, <1>4, <1>5, RefsTyped, AdvancedIsPassed
  <2> QED
    BY <1>1, <1>2, <1>3, <1>5, <2>1, <2>2 DEF SearchTyped
<1>7. ASSUME NEW k \in 1 .. n
      PROVE  /\ frames'[k].node = frames[k].node
             /\ frames[k].node \in Node /\ frames[k].node # NextRef
  <2>1. frames[k] \in Frame
    BY <1>2 DEF SearchTyped
  <2> QED
    BY <1>1, <1>2, <1>5, <2>1, AdvancedIsPassed DEF SearchIInv, ActiveIsOnStack, Frame
<1>8. ActiveIsOnStack'
  <2>1. \A k \in 1 .. n : mark'[frames'[k].node] = "active"
    <3>1. \A k \in 1 .. n : mark[frames[k].node] = "active"
      BY <1>2 DEF SearchIInv, ActiveIsOnStack
    <3>2. mark \in [Node -> {"new", "active", "finished"}]
      BY <1>2 DEF SearchTyped
    <3> QED
      BY <1>1, <1>7, <3>1, <3>2
  <2>2. ASSUME NEW m \in Node, mark'[m] = "active"
        PROVE  \E k \in DOMAIN frames' : frames'[k].node = m
    <3>1. CASE m = NextRef
      BY <1>2, <1>4, <1>5, <3>1
    <3>2. CASE m # NextRef
      <4>1. PICK k \in 1 .. n : frames[k].node = m
        BY <1>1, <1>2, <2>2, <3>2 DEF SearchIInv, ActiveIsOnStack, SearchTyped
      <4> QED
        BY <1>2, <1>5, <1>7, <4>1
    <3> QED
      BY <3>1, <3>2
  <2>3. \A j, k \in DOMAIN frames' : frames'[j].node = frames'[k].node => j = k
    BY <1>2, <1>4, <1>5, <1>7 DEF SearchIInv, ActiveIsOnStack
  <2>4. mark'[NextRef] = "active"
    BY <1>1, <1>2 DEF SearchTyped
  <2> QED
    BY <1>2, <1>4, <1>5, <2>1, <2>2, <2>3, <2>4 DEF ActiveIsOnStack
<1>9. StackIsPath'
  BY <1>1, <1>2, <1>3, <1>4, <1>5, AdvancedIsPassed DEF StackIsPath
<1>10. Finished' = Finished
  BY <1>1, <1>2 DEF Finished, SearchTyped
<1>11. PassedAreFinished'
  BY <1>1, <1>2, <1>3, <1>4, <1>5, <1>10, AdvancedIsPassed DEF PassedAreFinished
<1>12. UnseenAreRoots'
  BY <1>1, <1>2 DEF UnseenAreRoots, SearchIInv, SearchTyped
<1>13. CycleOnlyAtTheEnd'
  BY <1>1 DEF CycleOnlyAtTheEnd, SearchIInv
<1> QED
  BY <1>1, <1>6, <1>8, <1>9, <1>10, <1>11, <1>12, <1>13, FinishedUnchanged DEF SearchIInv

LEMMA SkipFinishedIInv == ASSUME SearchIInv, SkipFinished PROVE SearchIInv'
<1> DEFINE n == Len(frames)
<1>1. /\ phase = "search" /\ frames # << >> /\ ~Exhausted /\ mark[NextRef] = "finished"
      /\ frames' = Advanced
      /\ UNCHANGED <<graph, phase, roots, mark, cycle>>
  BY DEF SkipFinished
<1>2. /\ SearchTyped /\ n \in Nat \ {0} /\ DOMAIN frames = 1 .. n /\ NextRef \in Finished
      /\ frames' \in Seq(Frame) /\ Len(frames') = n /\ DOMAIN frames' = 1 .. n
  BY <1>1, TopTyped, AdvancedTyped DEF SearchIInv, Finished
<1>3. Refs' = Refs /\ Finished' = Finished
  BY <1>1, GraphFixed DEF Finished
<1>4. SearchTyped'
  BY <1>1, <1>2, <1>3, AdvancedIsPassed DEF SearchTyped
<1>5. ActiveIsOnStack'
  BY <1>1, <1>2, AdvancedIsPassed DEF SearchIInv, ActiveIsOnStack
<1>6. StackIsPath'
  BY <1>1, <1>2, <1>3, AdvancedIsPassed DEF StackIsPath
<1>7. PassedAreFinished'
  <2> SUFFICES ASSUME NEW k \in 1 .. n, NEW j \in 1 .. Advanced[k].next - 1,
                      ~(k < n /\ j = Advanced[k].next - 1)
               PROVE  Refs[Advanced[k].node][j] \in Finished
    BY <1>1, <1>2, <1>3 DEF PassedAreFinished
  <2>1. CASE j # Advanced[k].next - 1
    BY <1>1, <1>2, <2>1, AdvancedIsPassed
  <2>2. CASE k = n /\ j = Advanced[k].next - 1
    BY <1>1, <1>2, <2>2, AdvancedIsPassed
  <2> QED
    BY <1>2, <2>1, <2>2
<1>8. UnseenAreRoots' /\ CycleOnlyAtTheEnd'
  BY <1>1 DEF UnseenAreRoots, CycleOnlyAtTheEnd, SearchIInv
<1> QED
  BY <1>1, <1>3, <1>4, <1>5, <1>6, <1>7, <1>8, FinishedUnchanged DEF SearchIInv

LEMMA LeaveIInv == ASSUME SearchIInv, Leave PROVE SearchIInv'
<1> DEFINE n == Len(frames)
           node == Top.node
<1>1. /\ phase = "search" /\ frames # << >> /\ Exhausted
      /\ mark' = [mark EXCEPT ![node] = "finished"]
      /\ frames' = SubSeq(frames, 1, n - 1)
      /\ UNCHANGED <<graph, phase, roots, cycle>>
  BY DEF Leave
<1>2. /\ SearchTyped /\ n \in Nat \ {0} /\ DOMAIN frames = 1 .. n
      /\ Top = frames[n] /\ node \in Node /\ mark[node] = "active"
      /\ Top.next = 1 + Len(Refs[node]) /\ Len(Refs[node]) \in Nat
  BY <1>1, TopTyped DEF SearchIInv, Frame, ActiveIsOnStack
<1>3. Refs' = Refs /\ Successors' = Successors
  BY <1>1, GraphFixed
<1> HIDE DEF node
<1>4. /\ frames' \in Seq(Frame) /\ Len(frames') = n - 1 /\ DOMAIN frames' = 1 .. n - 1
      /\ \A k \in 1 .. n - 1 : frames'[k] = frames[k]
  BY <1>1, <1>2 DEF SearchTyped
<1>5. Finished' = Finished \cup {node} /\ node \notin Finished
  BY <1>1, <1>2 DEF Finished, SearchTyped
<1>6. Successors[node] \subseteq Finished
  <2>1. frames[n].node = node /\ frames[n].next - 1 = Len(Refs[node])
    BY <1>2 DEF node
  <2>2. \A j \in 1 .. frames[n].next - 1 : Refs[frames[n].node][j] \in Finished
    BY <1>2 DEF SearchIInv, PassedAreFinished
  <2> QED
    BY <1>2, <2>1, <2>2, RefsTyped
<1>7. \A k \in 1 .. n - 1 : frames[k].node \in Node /\ frames[k].node # node
  <2>1. \A k \in 1 .. n - 1 : frames[k] \in Frame
    BY <1>2 DEF SearchTyped
  <2> QED
    BY <1>2, <2>1 DEF SearchIInv, ActiveIsOnStack, Frame, node
<1>8. SearchTyped'
  <2>1. mark' \in [Node -> {"new", "active", "finished"}]
    BY <1>1, <1>2 DEF SearchTyped
  <2> QED
    BY <1>1, <1>2, <1>3, <1>4, <2>1 DEF SearchTyped
<1>9. ActiveIsOnStack'
  <2>1. ASSUME NEW m \in Node, mark'[m] = "active"
        PROVE  \E k \in 1 .. n - 1 : frames'[k].node = m
    <3>1. m # node /\ mark[m] = "active"
      BY <1>1, <1>2, <2>1 DEF SearchTyped
    <3>2. PICK k \in 1 .. n : frames[k].node = m
      BY <1>2, <3>1 DEF SearchIInv, ActiveIsOnStack
    <3>3. k \in 1 .. n - 1
      BY <1>2, <3>1, <3>2 DEF node
    <3> QED
      BY <1>4, <3>2, <3>3
  <2>2. \A k \in 1 .. n - 1 : mark'[frames'[k].node] = "active"
    <3>1. \A k \in 1 .. n - 1 : mark[frames[k].node] = "active"
      BY <1>2 DEF SearchIInv, ActiveIsOnStack
    <3>2. mark \in [Node -> {"new", "active", "finished"}]
      BY <1>2 DEF SearchTyped
    <3> QED
      BY <1>1, <1>4, <1>7, <3>1, <3>2
  <2>3. \A j, k \in 1 .. n - 1 : frames'[j].node = frames'[k].node => j = k
    BY <1>2, <1>4 DEF SearchIInv, ActiveIsOnStack
  <2> QED
    BY <1>4, <2>1, <2>2, <2>3 DEF ActiveIsOnStack
<1>10. StackIsPath'
  BY <1>2, <1>3, <1>4 DEF SearchIInv, StackIsPath
<1>11. PassedAreFinished'
  <2> SUFFICES ASSUME NEW k \in 1 .. n - 1, NEW j \in 1 .. frames[k].next - 1,
                      ~(k < n - 1 /\ j = frames[k].next - 1)
               PROVE  Refs[frames[k].node][j] \in Finished \cup {node}
    BY <1>2, <1>3, <1>4, <1>5 DEF PassedAreFinished
  <2>1. k \in 1 .. n /\ k < n
    BY <1>2
  <2>2. \/ Refs[frames[k].node][j] \in Finished
        \/ k = n - 1 /\ j = frames[k].next - 1
    <3>1. \/ Refs[frames[k].node][j] \in Finished
          \/ j = frames[k].next - 1
      BY <1>2, <2>1 DEF SearchIInv, PassedAreFinished
    <3>2. n \in Nat
      BY <1>2
    <3> HIDE DEF n
    <3>3. k # n - 1 => k < n - 1
      BY <3>2
    <3> QED
      BY <3>1, <3>3
  <2>3. Refs[frames[k].node][frames[k].next - 1] = frames[k + 1].node
    BY <1>2, <2>1 DEF SearchIInv, StackIsPath
  <2>4. k = n - 1 => frames[k + 1].node = node
    BY <1>2 DEF node
  <2> QED
    BY <2>2, <2>3, <2>4
<1>12. FinishedIsClosed'
  BY <1>3, <1>5, <1>6 DEF SearchIInv, FinishedIsClosed
<1>13. FinishedIsAcyclic'
  <2> SUFFICES ASSUME NEW S \in SUBSET (Finished \cup {node}), S # {}
               PROVE  \E c \in S : Successors[c] \cap S = {}
    BY <1>3, <1>5 DEF FinishedIsAcyclic
  <2>1. CASE S \ {node} = {}
    BY <1>5, <1>6, <2>1
  <2>2. CASE S \ {node} # {}
    <3>1. PICK c \in S \ {node} : Successors[c] \cap (S \ {node}) = {}
      BY <2>2 DEF SearchIInv, FinishedIsAcyclic
    <3>2. node \notin Successors[c]
      BY <1>5 DEF SearchIInv, FinishedIsClosed
    <3> QED
      BY <3>1, <3>2
  <2> QED
    BY <2>1, <2>2
<1>14. UnseenAreRoots'
  BY <1>1, <1>2 DEF UnseenAreRoots, SearchIInv, SearchTyped
<1>15. CycleOnlyAtTheEnd' /\ ReportedCycleIsReal'
  BY <1>1 DEF CycleOnlyAtTheEnd, ReportedCycleIsReal, SearchIInv
<1> QED
  BY <1>8, <1>9, <1>10, <1>11, <1>12, <1>13, <1>14, <1>15 DEF SearchIInv

LEMMA ReturnNoneIInv == ASSUME SearchIInv, ReturnNone PROVE SearchIInv'
<1>1. /\ phase = "search" /\ frames = << >> /\ roots = {} /\ phase' = "done"
      /\ UNCHANGED <<graph, roots, frames, mark, cycle>>
  BY DEF ReturnNone
<1>2. Refs' = Refs /\ Finished' = Finished
  BY <1>1, GraphFixed DEF Finished
<1>3. SearchTyped'
  BY <1>1, <1>2 DEF SearchIInv, SearchTyped
<1>4. ActiveIsOnStack' /\ StackIsPath' /\ PassedAreFinished'
  BY <1>1, <1>2 DEF SearchIInv, ActiveIsOnStack, StackIsPath, PassedAreFinished
<1>5. UnseenAreRoots' /\ CycleOnlyAtTheEnd'
  BY <1>1 DEF SearchIInv, UnseenAreRoots, CycleOnlyAtTheEnd
<1> QED
  BY <1>1, <1>2, <1>3, <1>4, <1>5, FinishedUnchanged DEF SearchIInv

\* The part of the stack from the node on, and the node again, is a cycle.
LEMMA ReportCycleIInv == ASSUME SearchIInv, ReportCycle PROVE SearchIInv'
<1> DEFINE n == Len(frames)
           first == CHOOSE k \in DOMAIN frames : frames[k].node = NextRef
           size == n - first + 1
<1>1. /\ phase = "search" /\ frames # << >> /\ ~Exhausted /\ mark[NextRef] = "active"
      /\ cycle' = ReportedCycle /\ phase' = "done"
      /\ UNCHANGED <<graph, roots, frames, mark>>
  BY DEF ReportCycle
<1>2. /\ SearchTyped /\ n \in Nat \ {0} /\ DOMAIN frames = 1 .. n
      /\ NextRef \in Node /\ Top = frames[n] /\ NextRef \in Successors[Top.node]
  BY <1>1, TopTyped DEF SearchIInv
<1>3. Refs' = Refs /\ Successors' = Successors /\ Finished' = Finished
  BY <1>1, GraphFixed DEF Finished
<1>4. first \in 1 .. n /\ frames[first].node = NextRef
  BY <1>1, <1>2 DEF SearchIInv, ActiveIsOnStack
<1>5. cycle' = [k \in 1 .. size + 1 |->
                  IF k <= size THEN frames[first + k - 1].node ELSE NextRef]
  BY <1>1 DEF ReportedCycle
<1> HIDE DEF first
<1>6. size \in Nat \ {0}
  BY <1>2, <1>4
<1>7. \A k \in 1 .. n : frames[k] \in Frame
  BY <1>2 DEF SearchTyped
<1>8. ASSUME NEW k \in 1 .. size + 1
      PROVE  (IF k <= size THEN frames[first + k - 1].node ELSE NextRef) \in Node
  BY <1>2, <1>4, <1>7 DEF Frame
<1>9. cycle' \in Seq(Node) /\ Len(cycle') = size + 1
  BY <1>5, <1>6, <1>8
<1>10. SearchTyped'
  BY <1>1, <1>3, <1>9 DEF SearchIInv, SearchTyped
<1>11. ActiveIsOnStack' /\ StackIsPath' /\ PassedAreFinished'
  BY <1>1, <1>3 DEF SearchIInv, ActiveIsOnStack, StackIsPath, PassedAreFinished
<1>12. FinishedIsClosed' /\ FinishedIsAcyclic' /\ UnseenAreRoots'
  BY <1>1, <1>3 DEF SearchIInv, FinishedIsClosed, FinishedIsAcyclic, UnseenAreRoots
<1>13. cycle' # << >>
  BY <1>6, <1>9
<1>14. CycleOnlyAtTheEnd'
  BY <1>1, <1>13 DEF CycleOnlyAtTheEnd
<1>15. /\ \A k \in 1 .. size : cycle'[k] = frames[first + k - 1].node
       /\ cycle'[size + 1] = NextRef
  BY <1>5, <1>6
<1>16. ASSUME NEW k \in 1 .. size PROVE cycle'[k + 1] \in Successors[cycle'[k]]
  <2> DEFINE m == first + k - 1
  <2>1. m \in 1 .. n /\ cycle'[k] = frames[m].node
    BY <1>2, <1>4, <1>15
  <2>2. CASE k = size
    BY <1>2, <1>4, <1>6, <1>15, <2>1, <2>2
  <2>3. CASE k # size
    <3>1. m < n /\ cycle'[k + 1] = frames[m + 1].node
      <4>1. k + 1 \in 1 .. size /\ m < n /\ first + (k + 1) - 1 = m + 1
        BY <1>2, <1>4, <1>6, <2>3
      <4>2. cycle'[k + 1] = frames[first + (k + 1) - 1].node
        BY <1>15, <4>1
      <4> QED
        BY <4>1, <4>2
    <3>2. /\ frames[m].next >= 2
          /\ Refs[frames[m].node][frames[m].next - 1] = frames[m + 1].node
      BY <1>2, <2>1, <3>1 DEF SearchIInv, StackIsPath
    <3>3. /\ frames[m].node \in Node /\ frames[m].next \in Nat
          /\ frames[m].next <= 1 + Len(Refs[frames[m].node])
      BY <1>2, <1>7, <2>1 DEF SearchTyped, Frame
    <3>4. Len(Refs[frames[m].node]) \in Nat
      BY <1>2, <3>3, RefsTyped
    <3>5. frames[m].next - 1 \in 1 .. Len(Refs[frames[m].node])
      BY <3>2, <3>3, <3>4
    <3>6. Refs[frames[m].node][frames[m].next - 1] \in Successors[frames[m].node]
      BY <1>2, <3>3, <3>5, RefsTyped
    <3> QED
      BY <2>1, <3>1, <3>2, <3>6
  <2> QED
    BY <2>2, <2>3
<1>17. \A j, k \in 1 .. size : cycle'[j] = cycle'[k] => j = k
  <2> SUFFICES ASSUME NEW j \in 1 .. size, NEW k \in 1 .. size, cycle'[j] = cycle'[k]
               PROVE  j = k
    OBVIOUS
  <2>1. first + j - 1 \in 1 .. n /\ first + k - 1 \in 1 .. n
    BY <1>2, <1>4
  <2>2. first + j - 1 = first + k - 1
    BY <1>2, <1>15, <2>1 DEF SearchIInv, ActiveIsOnStack
  <2> QED
    BY <1>2, <1>4, <2>2
<1>18. Len(cycle') >= 2 /\ cycle'[1] = cycle'[Len(cycle')]
  BY <1>2, <1>4, <1>6, <1>9, <1>15
<1>19. ReportedCycleIsReal'
  <2>1. Len(cycle') - 1 = size
    BY <1>6, <1>9
  <2> QED
    BY <1>3, <1>16, <1>17, <1>18, <2>1 DEF ReportedCycleIsReal
<1> QED
  BY <1>10, <1>11, <1>12, <1>14, <1>19 DEF SearchIInv

LEMMA SearchStep == ASSUME SearchIInv, Next PROVE SearchIInv'
BY EnterRootIInv, SkipRootIInv, EnterIInv, SkipFinishedIInv, ReportCycleIInv, LeaveIInv,
   ReturnNoneIInv DEF Next

\* When the search is over without a cycle every node of the graph is finished.
LEMMA SilentMeansAcyclic ==
  ASSUME SearchIInv, phase \in {"done", "reported"}, cycle = << >>
  PROVE  Acyclic(Node, Successors)
<1>1. frames = << >> /\ roots = {} /\ SearchTyped
  BY DEF SearchIInv, CycleOnlyAtTheEnd
<1>2. DOMAIN graph \subseteq Finished
  <2> SUFFICES ASSUME NEW n \in DOMAIN graph PROVE mark[n] = "finished"
    BY <1>1 DEF Finished, SearchTyped
  <2>1. mark[n] # "new"
    BY <1>1 DEF SearchIInv, UnseenAreRoots
  <2>2. mark[n] # "active"
    BY <1>1 DEF SearchIInv, ActiveIsOnStack, SearchTyped
  <2> QED
    BY <1>1, <2>1, <2>2 DEF SearchTyped
<1> SUFFICES ASSUME NEW S \in SUBSET Node, S # {}
             PROVE  \E c \in S : Successors[c] \cap S = {}
  BY DEF Acyclic
<1>3. CASE S \subseteq DOMAIN graph
  BY <1>2, <1>3 DEF SearchIInv, FinishedIsAcyclic
<1>4. CASE ~(S \subseteq DOMAIN graph)
  <2>1. PICK c \in S : c \notin DOMAIN graph
    BY <1>4
  <2>2. Successors[c] = {}
    BY <2>1 DEF Successors, RefsOf
  <2> QED
    BY <2>1, <2>2
<1> QED
  BY <1>3, <1>4

\* Every node of a reported cycle refers to another one of it.
LEMMA CycleMeansCyclic ==
  ASSUME SearchIInv, cycle # << >> PROVE ~Acyclic(Node, Successors)
<1> DEFINE size == Len(cycle) - 1
           S == {cycle[k] : k \in 1 .. size}
<1>1. /\ cycle \in Seq(Node) /\ size \in Nat \ {0} /\ cycle[1] = cycle[size + 1]
      /\ \A k \in 1 .. size : cycle[k + 1] \in Successors[cycle[k]]
  BY DEF SearchIInv, SearchTyped, ReportedCycleIsReal
<1>2. \A k \in 1 .. size : cycle[k + 1] \in S
  <2> SUFFICES ASSUME NEW k \in 1 .. size PROVE cycle[k + 1] \in S
    OBVIOUS
  <2>1. CASE k = size
    BY <1>1, <2>1
  <2>2. CASE k # size
    <3>1. k + 1 \in 1 .. size
      BY <1>1, <2>2
    <3> QED
      BY <3>1
  <2> QED
    BY <2>1, <2>2
<1>3. S \in SUBSET Node /\ S # {}
  <2>1. \A k \in 1 .. size : cycle[k] \in Node
    BY <1>1
  <2>2. \E k \in 1 .. size : cycle[k] \in S
    <3> HIDE DEF S, size
    <3>1. 1 \in 1 .. size
      BY <1>1
    <3> QED
      BY <3>1 DEF S
  <2> QED
    BY <2>1, <2>2
<1>4. \A c \in S : Successors[c] \cap S # {}
  BY <1>1, <1>2
<1> QED
  BY <1>3, <1>4 DEF Acyclic

-----------------------------------------------------------------------------
(* The items of a topology and the graph made of them.                      *)

Item == [id : Node, refs : Seq(Node)]

LEMMA ItemTyped ==
  ASSUME items \in Seq(Item), NEW k \in DOMAIN items
  PROVE  /\ items[k].id \in Node /\ items[k].id \in Ids
         /\ items[k].refs \in Seq(Node) /\ RefSet(k) \subseteq Node
         /\ RefSet(k) = {items[k].refs[j] : j \in 1 .. Len(items[k].refs)}
<1>1. items[k] \in Item
  OBVIOUS
<1>2. items[k].id \in Node /\ items[k].refs \in Seq(Node)
  BY <1>1 DEF Item
<1>3. items[k].id \in Ids
  BY DEF Ids
<1> QED
  BY <1>2, <1>3 DEF RefSet

\* Item k is the last of its id.
IsLast(k) == k \in DOMAIN items /\ \A j \in k + 1 .. Len(items) : items[j].id # items[k].id

LEMMA LastItem ==
  ASSUME items \in Seq(Item), NEW n \in Ids
  PROVE  \E k \in DOMAIN items : IsLast(k) /\ items[k].id = n
<1> DEFINE Distances == {Len(items) - k : k \in {j \in DOMAIN items : items[j].id = n}}
<1>1. Distances \in SUBSET Nat /\ Distances # {}
  BY DEF Ids
<1>2. PICK d \in Distances : \A e \in Distances : d <= e
  BY <1>1, LeastNatural
<1>3. PICK k \in DOMAIN items : items[k].id = n /\ d = Len(items) - k
  BY <1>2
<1>4. \A j \in DOMAIN items : items[j].id = n => Len(items) - j \in Distances
  OBVIOUS
<1> HIDE DEF Distances
<1>5. Len(items) \in Nat /\ DOMAIN items = 1 .. Len(items)
  OBVIOUS
<1>6. ASSUME NEW j \in k + 1 .. Len(items) PROVE items[j].id # n
  BY <1>2, <1>3, <1>4, <1>5
<1> QED
  BY <1>3, <1>6 DEF IsLast

LEMMA GraphOfItems ==
  ASSUME items \in Seq(Item)
  PROVE  /\ DOMAIN GraphOf(items) = Ids
         /\ \A k : IsLast(k) => GraphOf(items)[items[k].id] = items[k].refs
         /\ \A n \in Ids : GraphOf(items)[n] \in Seq(Node)
<1>1. DOMAIN GraphOf(items) = Ids
  BY DEF GraphOf, Ids
<1>2. ASSUME NEW k, IsLast(k) PROVE GraphOf(items)[items[k].id] = items[k].refs
  <2> DEFINE n == items[k].id
             P(m) == m \in DOMAIN items /\ items[m].id = n /\ \A j \in m + 1 .. Len(items) : items[j].id # n
             c == CHOOSE m \in DOMAIN items :
                    items[m].id = n /\ \A j \in m + 1 .. Len(items) : items[j].id # n
  <2>1. k \in DOMAIN items /\ n \in Ids
    BY <1>2 DEF IsLast, Ids
  <2>2. GraphOf(items)[n] = items[c].refs
    BY <2>1 DEF GraphOf, Ids
  <2>3. c \in DOMAIN items /\ items[c].id = n /\ \A j \in c + 1 .. Len(items) : items[j].id # n
    BY <1>2, <2>1 DEF IsLast
  <2> HIDE DEF c
  <2>4. c = k
    <3>1. Len(items) \in Nat /\ DOMAIN items = 1 .. Len(items)
      OBVIOUS
    <3>2. ~(c < k) /\ ~(k < c)
      BY <1>2, <2>1, <2>3, <3>1 DEF IsLast
    <3> QED
      BY <2>1, <2>3, <3>1, <3>2
  <2> QED
    BY <2>2, <2>4
<1>3. ASSUME NEW n \in Ids PROVE GraphOf(items)[n] \in Seq(Node)
  BY <1>2, LastItem, ItemTyped
<1> QED
  BY <1>1, <1>2, <1>3

\* What the graph refers to: the references of the last item of each id.
LEMMA SuccessorsOfLast ==
  ASSUME items \in Seq(Item), graph = GraphOf(items)
  PROVE  /\ \A k : IsLast(k) => Successors[items[k].id] = RefSet(k)
         /\ \A n \in Node \ Ids : Successors[n] = {}
<1>1. ASSUME NEW k, IsLast(k) PROVE Successors[items[k].id] = RefSet(k)
  <2>1. k \in DOMAIN items
    BY <1>1 DEF IsLast
  <2>2. RefsOf(items[k].id) = items[k].refs /\ items[k].id \in Node
    BY <1>1, <2>1, ItemTyped, GraphOfItems DEF RefsOf
  <2> QED
    BY <2>1, <2>2, ItemTyped DEF Successors, RefSet
<1>2. ASSUME NEW n \in Node \ Ids PROVE Successors[n] = {}
  BY GraphOfItems DEF Successors, RefsOf
<1> QED
  BY <1>1, <1>2

-----------------------------------------------------------------------------
(* Counting, which is how the code finds repetitions.                       *)

\* A list has as many elements as entries exactly if no entry is repeated.
LEMMA DistinctEntries ==
  ASSUME NEW T, NEW s \in Seq(T)
  PROVE  Cardinality({s[k] : k \in 1 .. Len(s)}) = Len(s)
           <=> \A i, j \in 1 .. Len(s) : s[i] = s[j] => i = j
<1> DEFINE n == Len(s)
           V == {s[k] : k \in 1 .. n}
<1>1. n \in Nat /\ s \in [1 .. n -> V] /\ \A v \in V : \E k \in 1 .. n : s[k] = v
  OBVIOUS
<1> HIDE DEF n, V
<1>2. s \in Surjection(1 .. n, V)
  BY <1>1, Fun_IsSurj
<1>3. IsFiniteSet(1 .. n) /\ Cardinality(1 .. n) = n
  BY <1>1, FS_Interval
<1>4. Cardinality(V) = n <=> s \in Injection(1 .. n, V)
  BY <1>2, <1>3, FS_Surjection
<1>5. s \in Injection(1 .. n, V) <=> \A i, j \in 1 .. n : s[i] = s[j] => i = j
  BY <1>1, Fun_IsInj, Fun_InjectionProperties
<1> QED
  BY <1>4, <1>5 DEF n, V

\* The items of an id, counted, are more than one exactly if two items have it.
LEMMA RepeatedId ==
  ASSUME items \in Seq(Item)
  PROVE  (\E n \in Ids : Cardinality({k \in DOMAIN items : items[k].id = n}) > 1)
           <=> \E j, k \in DOMAIN items : j # k /\ items[j].id = items[k].id
<1> DEFINE Of(n) == {k \in DOMAIN items : items[k].id = n}
<1>1. IsFiniteSet(DOMAIN items)
  BY FS_Interval
<1>2. ASSUME NEW n PROVE IsFiniteSet(Of(n)) /\ Cardinality(Of(n)) \in Nat
  BY <1>1, FS_Subset, FS_CardinalityType
<1>3. \A n, k : k \in Of(n) <=> k \in DOMAIN items /\ items[k].id = n
  OBVIOUS
<1> HIDE DEF Of
<1>4. ASSUME NEW n, Cardinality(Of(n)) > 1
      PROVE  \E j, k \in DOMAIN items : j # k /\ items[j].id = items[k].id
  <2>1. Cardinality({}) = 0 /\ \A k : Cardinality({k}) = 1
    BY FS_EmptySet, FS_Singleton
  <2>2. PICK k \in Of(n) : TRUE
    <3>1. CASE Of(n) = {}
      <4>1. Cardinality(Of(n)) = 0
        BY <2>1, <3>1, Zenon
      <4> QED
        BY <1>4, <4>1
    <3> QED
      BY <3>1
  <2>4. Of(n) # {k}
    <3> SUFFICES ASSUME Of(n) = {k} PROVE FALSE
      OBVIOUS
    <3>1. Cardinality(Of(n)) = 1
      BY <2>1, Zenon
    <3> QED
      BY <1>4, <3>1
  <2>5. PICK j \in Of(n) : j # k
    BY <2>2, <2>4
  <2> QED
    BY <1>3, <2>2, <2>5
<1>5. ASSUME NEW j \in DOMAIN items, NEW k \in DOMAIN items, j # k, items[j].id = items[k].id
      PROVE  items[k].id \in Ids /\ Cardinality(Of(items[k].id)) > 1
  <2>1. IsFiniteSet({k}) /\ Cardinality({k}) = 1 /\ j \notin {k}
    BY <1>5, FS_Singleton
  <2>2. Cardinality({k} \cup {j}) = Cardinality({k}) + 1
    BY <2>1, FS_AddElement, Zenon
  <2>3. {k} \cup {j} \in SUBSET Of(items[k].id)
    BY <1>3, <1>5
  <2>4. 2 <= Cardinality(Of(items[k].id))
    BY <1>2, <2>1, <2>2, <2>3, FS_Subset
  <2> QED
    BY <1>2, <2>4, ItemTyped
<1>6. (\E n \in Ids : Cardinality(Of(n)) > 1)
        <=> \E j, k \in DOMAIN items : j # k /\ items[j].id = items[k].id
  BY <1>4, <1>5
<1> QED
  BY <1>6 DEF Of

LEMMA WellFormedMeans ==
  ASSUME items \in Seq(Item)
  PROVE  /\ Cardinality(Ids) = Len(items)
              <=> ~\E j, k \in DOMAIN items : j # k /\ items[j].id = items[k].id
         /\ \A k \in DOMAIN items :
              Len(items[k].refs) = Cardinality(RefSet(k))
                <=> \A i, j \in DOMAIN items[k].refs : items[k].refs[i] = items[k].refs[j] => i = j
<1>1. Cardinality(Ids) = Len(items)
        <=> ~\E j, k \in DOMAIN items : j # k /\ items[j].id = items[k].id
  <2> DEFINE s == [k \in 1 .. Len(items) |-> items[k].id]
  <2>1. s \in Seq(Node) /\ Len(s) = Len(items) /\ \A k \in 1 .. Len(items) : s[k] = items[k].id
    BY ItemTyped
  <2> HIDE DEF s
  <2>2. DOMAIN items = 1 .. Len(items)
    OBVIOUS
  <2>3. {s[k] : k \in 1 .. Len(s)} = Ids
    BY <2>1, <2>2 DEF Ids
  <2>4. Cardinality(Ids) = Len(items) <=> \A i, j \in 1 .. Len(s) : s[i] = s[j] => i = j
    BY <2>1, <2>3, DistinctEntries
  <2> QED
    BY <2>1, <2>2, <2>4
<1>2. ASSUME NEW k \in DOMAIN items
      PROVE  Len(items[k].refs) = Cardinality(RefSet(k))
               <=> \A i, j \in DOMAIN items[k].refs :
                     items[k].refs[i] = items[k].refs[j] => i = j
  <2> DEFINE s == items[k].refs
  <2>1. /\ s \in Seq(Node) /\ DOMAIN s = 1 .. Len(s)
        /\ RefSet(k) = {s[j] : j \in 1 .. Len(s)}
    BY ItemTyped
  <2> HIDE DEF s
  <2>2. Cardinality(RefSet(k)) = Len(s) <=> \A i, j \in 1 .. Len(s) : s[i] = s[j] => i = j
    BY <2>1, DistinctEntries
  <2> QED
    BY <2>1, <2>2 DEF s
<1> QED
  BY <1>1, <1>2

LEMMA StructuralErrorsMean ==
  ASSUME items \in Seq(Item)
  PROVE  /\ StructuralErrors = {}
              <=> WellFormed /\ \A k \in DOMAIN items : items[k].id \notin RefSet(k)
         /\ [kind |-> "cycle"] \notin StructuralErrors
<1> DEFINE DuplicateIds ==
             {[kind |-> "duplicate_id", id |-> n] :
                n \in {m \in Ids : Cardinality({k \in DOMAIN items : items[k].id = m}) > 1}}
           DuplicateRefs ==
             {[kind |-> "duplicate_refs", id |-> items[k].id] :
                k \in {m \in DOMAIN items : Len(items[m].refs) # Cardinality(RefSet(m))}}
           MissingRefs ==
             UNION {{[kind |-> "missing_ref", id |-> items[k].id] : r \in RefSet(k) \ Ids} :
                      k \in DOMAIN items}
           SelfRefs ==
             {[kind |-> "self_ref", id |-> items[k].id] :
                k \in {m \in DOMAIN items : items[m].id \in RefSet(m)}}
<1>1. StructuralErrors = DuplicateIds \cup DuplicateRefs \cup MissingRefs \cup SelfRefs
  BY DEF StructuralErrors
<1>2. DuplicateIds = {} <=> Cardinality(Ids) = Len(items)
  <2>1. DuplicateIds = {}
          <=> ~\E n \in Ids : Cardinality({k \in DOMAIN items : items[k].id = n}) > 1
    OBVIOUS
  <2> QED
    BY <2>1, RepeatedId, WellFormedMeans
<1>3. DuplicateRefs = {}
        <=> \A k \in DOMAIN items : \A i, j \in DOMAIN items[k].refs :
              items[k].refs[i] = items[k].refs[j] => i = j
  <2>1. DuplicateRefs = {}
          <=> \A k \in DOMAIN items : Len(items[k].refs) = Cardinality(RefSet(k))
    OBVIOUS
  <2> QED
    BY <2>1, WellFormedMeans
<1>4. MissingRefs = {} <=> \A k \in DOMAIN items : RefSet(k) \subseteq Ids
  <2>1. ASSUME NEW k \in DOMAIN items, NEW r \in RefSet(k) \ Ids
        PROVE  [kind |-> "missing_ref", id |-> items[k].id] \in MissingRefs
    <3>1. [kind |-> "missing_ref", id |-> items[k].id]
            \in {[kind |-> "missing_ref", id |-> items[k].id] : q \in RefSet(k) \ Ids}
      OBVIOUS
    <3> QED
      BY <3>1
  <2>2. ASSUME NEW e \in MissingRefs
        PROVE  \E k \in DOMAIN items : ~(RefSet(k) \subseteq Ids)
    OBVIOUS
  <2> HIDE DEF MissingRefs
  <2> QED
    BY <2>1, <2>2
<1>5. SelfRefs = {} <=> \A k \in DOMAIN items : items[k].id \notin RefSet(k)
  OBVIOUS
<1>6. [kind |-> "cycle"] \notin StructuralErrors
  <2>1. /\ \A e \in DuplicateIds : e.kind # "cycle"
        /\ \A e \in DuplicateRefs : e.kind # "cycle"
        /\ \A e \in SelfRefs : e.kind # "cycle"
    <3>1. \A e \in DuplicateIds : e.kind # "cycle"
      <4>1. \A M : \A e \in {[kind |-> "duplicate_id", id |-> n] : n \in M} : e.kind # "cycle"
        OBVIOUS
      <4> QED
        BY <4>1, Zenon
    <3>2. \A e \in DuplicateRefs : e.kind # "cycle"
      OBVIOUS
    <3>3. \A e \in SelfRefs : e.kind # "cycle"
      OBVIOUS
    <3> QED
      BY <3>1, <3>2, <3>3
  <2>2. \A e \in MissingRefs : e.kind # "cycle"
    OBVIOUS
  <2>3. [kind |-> "cycle"].kind = "cycle"
    OBVIOUS
  <2> HIDE DEF DuplicateIds, DuplicateRefs, MissingRefs, SelfRefs
  <2> QED
    BY <1>1, <2>1, <2>2, <2>3
<1> HIDE DEF DuplicateIds, DuplicateRefs, MissingRefs, SelfRefs
<1> QED
  BY <1>1, <1>2, <1>3, <1>4, <1>5, <1>6 DEF WellFormed

-----------------------------------------------------------------------------
(* The validation as a whole.                                               *)

CycleErrors == IF cycle # << >> THEN {[kind |-> "cycle"]} ELSE {}

TopologyIInv ==
  /\ SearchIInv
  /\ items \in Seq(Item)
  /\ graph = GraphOf(items)
  /\ phase \in {"structure", "search", "done", "reported"}
  /\ phase = "structure" => errors = {}
  /\ phase \in {"search", "done"} => items # << >> /\ errors = StructuralErrors
  /\ phase = "reported" =>
       errors = IF items = << >> THEN {[kind |-> "empty"]}
                ELSE StructuralErrors \cup CycleErrors

LEMMA InitTopologyIInv == ASSUME TopologyInit PROVE TopologyIInv
<1>1. /\ items \in Seq(Item) /\ errors = {} /\ phase = "structure" /\ graph = GraphOf(items)
      /\ roots = DOMAIN graph /\ frames = << >> /\ mark = [n \in Node |-> "new"]
      /\ cycle = << >>
  BY TopologiesAssumption DEF TopologyInit, StartSearch, Item
<1>2. SearchTyped
  BY <1>1, GraphOfItems, ItemTyped DEF SearchTyped, Ids
<1>3. ActiveIsOnStack /\ StackIsPath /\ PassedAreFinished
  BY <1>1 DEF ActiveIsOnStack, StackIsPath, PassedAreFinished
<1>4. Finished = {}
  BY <1>1 DEF Finished
<1>5. FinishedIsClosed /\ FinishedIsAcyclic
  BY <1>4 DEF FinishedIsClosed, FinishedIsAcyclic
<1>6. UnseenAreRoots /\ CycleOnlyAtTheEnd /\ ReportedCycleIsReal
  BY <1>1 DEF UnseenAreRoots, CycleOnlyAtTheEnd, StartSearch, ReportedCycleIsReal
<1> QED
  BY <1>1, <1>2, <1>3, <1>5, <1>6 DEF TopologyIInv, SearchIInv

\* A step outside the search leaves it where it is.
LEMMA SearchAtRest ==
  ASSUME SearchIInv, UNCHANGED <<graph, roots, frames, mark, cycle>>, CycleOnlyAtTheEnd'
  PROVE  SearchIInv'
<1>1. Refs' = Refs /\ Finished' = Finished
  BY GraphFixed DEF Finished
<1>2. SearchTyped'
  BY <1>1 DEF SearchIInv, SearchTyped
<1>3. ActiveIsOnStack' /\ StackIsPath' /\ PassedAreFinished' /\ UnseenAreRoots'
  BY <1>1 DEF SearchIInv, ActiveIsOnStack, StackIsPath, PassedAreFinished, UnseenAreRoots
<1> QED
  BY <1>1, <1>2, <1>3, FinishedUnchanged DEF SearchIInv

LEMMA StepTopologyIInv == ASSUME TopologyIInv, TopologyNext PROVE TopologyIInv'
<1>1. CASE RejectEmpty
  <2>1. CycleOnlyAtTheEnd'
    <3>1. DOMAIN graph = {} /\ StartSearch
      BY <1>1, GraphOfItems DEF RejectEmpty, TopologyIInv, SearchIInv, CycleOnlyAtTheEnd, Ids
    <3> QED
      BY <1>1, <3>1 DEF RejectEmpty, CycleOnlyAtTheEnd, StartSearch
  <2>2. SearchIInv'
    BY <1>1, <2>1, SearchAtRest DEF RejectEmpty, TopologyIInv
  <2> QED
    BY <1>1, <2>2 DEF RejectEmpty, TopologyIInv
<1>2. CASE CheckStructure
  <2>1. SearchIInv'
    BY <1>2, SearchAtRest DEF CheckStructure, TopologyIInv, SearchIInv, CycleOnlyAtTheEnd
  <2>2. StructuralErrors' = StructuralErrors
    BY <1>2 DEF CheckStructure, StructuralErrors, Ids, RefSet
  <2> QED
    BY <1>2, <2>1, <2>2 DEF CheckStructure, TopologyIInv
<1>3. CASE Search
  <2>1. SearchIInv'
    BY <1>3, SearchStep DEF Search, TopologyIInv
  <2>2. StructuralErrors' = StructuralErrors
    BY <1>3 DEF Search, StructuralErrors, Ids, RefSet
  <2>3. phase = "search" /\ phase' \in {"search", "done"} /\ UNCHANGED graph
    BY <1>3 DEF Search, Next, EnterRoot, SkipRoot, Enter, SkipFinished, ReportCycle, Leave,
                ReturnNone
  <2> QED
    BY <1>3, <2>1, <2>2, <2>3 DEF Search, TopologyIInv
<1>4. CASE Report
  <2>1. SearchIInv'
    BY <1>4, SearchAtRest DEF Report, TopologyIInv, SearchIInv, CycleOnlyAtTheEnd
  <2>2. StructuralErrors' = StructuralErrors
    BY <1>4 DEF Report, StructuralErrors, Ids, RefSet
  <2> QED
    BY <1>4, <2>1, <2>2 DEF Report, TopologyIInv, CycleErrors
<1> QED
  BY <1>1, <1>2, <1>3, <1>4 DEF TopologyNext

LEMMA StutterTopologyIInv == ASSUME TopologyIInv, UNCHANGED topologyVars PROVE TopologyIInv'
<1>1. UNCHANGED <<graph, phase, roots, frames, mark, cycle, items, errors>>
  BY DEF topologyVars, vars
<1>2. SearchIInv'
  BY <1>1, SearchAtRest DEF TopologyIInv, SearchIInv, CycleOnlyAtTheEnd, StartSearch
<1>3. StructuralErrors' = StructuralErrors
  BY <1>1 DEF StructuralErrors, Ids, RefSet
<1> QED
  BY <1>1, <1>2, <1>3 DEF TopologyIInv, CycleErrors

-----------------------------------------------------------------------------
(* What the errors of a finished validation say.                            *)

\* The dependencies of the dictionary of components: the last item of an id.
LastDeclared ==
  [n \in Node |-> UNION {RefSet(k) : k \in {m \in DOMAIN items :
     items[m].id = n /\ \A j \in DOMAIN items : items[j].id = n => j <= m}}]

\* An acyclicity carries over to a relation that holds no more.
LEMMA AcyclicMonotone ==
  ASSUME NEW D, NEW E, Acyclic(Node, D), \A n \in Node : E[n] \subseteq D[n]
  PROVE  Acyclic(Node, E)
<1> SUFFICES ASSUME NEW S \in SUBSET Node, S # {} PROVE \E c \in S : E[c] \cap S = {}
  BY DEF Acyclic
<1>1. PICK c \in S : D[c] \cap S = {}
  BY DEF Acyclic
<1> QED
  BY <1>1

LEMMA DictionaryIsSearched ==
  ASSUME items \in Seq(Item), graph = GraphOf(items)
  PROVE  /\ \A n \in Node : LastDeclared[n] = Successors[n]
         /\ \A n \in Node : Successors[n] \subseteq Declared[n]
<1>1. DOMAIN items = 1 .. Len(items) /\ Len(items) \in Nat
  OBVIOUS
<1>2. ASSUME NEW n \in Node \ Ids
      PROVE  LastDeclared[n] = Successors[n] /\ Successors[n] \subseteq Declared[n]
  <2>1. \A k \in DOMAIN items : items[k].id # n
    BY DEF Ids
  <2> QED
    BY <2>1, SuccessorsOfLast DEF LastDeclared, Declared
<1>3. ASSUME NEW n \in Node, n \in Ids
      PROVE  LastDeclared[n] = Successors[n] /\ Successors[n] \subseteq Declared[n]
  <2>1. PICK k \in DOMAIN items : IsLast(k) /\ items[k].id = n
    BY <1>3, LastItem
  <2>2. Successors[n] = RefSet(k)
    BY <2>1, SuccessorsOfLast
  <2>3. {m \in DOMAIN items : items[m].id = n /\ \A j \in DOMAIN items : items[j].id = n => j <= m}
          = {k}
    BY <1>1, <2>1 DEF IsLast
  <2>4. LastDeclared[n] = RefSet(k)
    BY <2>3 DEF LastDeclared
  <2>5. RefSet(k) \subseteq Declared[n]
    BY <2>1 DEF Declared
  <2> QED
    BY <2>2, <2>4, <2>5
<1> QED
  BY <1>2, <1>3

\* With ids that do not repeat nothing is shadowed.
LEMMA NothingShadowed ==
  ASSUME items \in Seq(Item), graph = GraphOf(items), WellFormed
  PROVE  \A n \in Node : Declared[n] = Successors[n]
<1>1. \A j, k \in DOMAIN items : items[j].id = items[k].id => j = k
  BY WellFormedMeans DEF WellFormed
<1>2. ASSUME NEW n \in Node PROVE Declared[n] \subseteq Successors[n]
  <2> SUFFICES ASSUME NEW k \in DOMAIN items, items[k].id = n
               PROVE  RefSet(k) \subseteq Successors[n]
    BY DEF Declared
  <2>1. IsLast(k)
    BY <1>1 DEF IsLast
  <2> QED
    BY <2>1, SuccessorsOfLast
<1> QED
  BY <1>2, DictionaryIsSearched

LEMMA CycleErrorIsRight == TopologyIInv => CycleErrorMeansCyclic
<1> SUFFICES ASSUME TopologyIInv, phase = "reported"
             PROVE  [kind |-> "cycle"] \in errors <=> ~Acyclic(Node, LastDeclared)
  BY DEF CycleErrorMeansCyclic, LastDeclared
<1>1. SearchIInv /\ items \in Seq(Item) /\ graph = GraphOf(items)
  BY DEF TopologyIInv
<1>2. Acyclic(Node, LastDeclared) <=> cycle = << >>
  <2>1. Acyclic(Node, LastDeclared) <=> Acyclic(Node, Successors)
    BY <1>1, DictionaryIsSearched, AcyclicMonotone
  <2> QED
    BY <1>1, <2>1, SilentMeansAcyclic, CycleMeansCyclic
<1>3. CASE items = << >>
  <2>1. LastDeclared = [n \in Node |-> {}]
    BY <1>3 DEF LastDeclared
  <2>2. Acyclic(Node, LastDeclared)
    BY <2>1 DEF Acyclic
  <2>3. [kind |-> "cycle"] \notin errors
    BY <1>3 DEF TopologyIInv
  <2> QED
    BY <2>2, <2>3
<1>4. CASE items # << >>
  <2>1. errors = StructuralErrors \cup CycleErrors
    BY <1>4 DEF TopologyIInv
  <2> QED
    BY <1>1, <1>2, <2>1, StructuralErrorsMean DEF CycleErrors
<1> QED
  BY <1>3, <1>4

LEMMA AcceptanceIsRight == TopologyIInv => AcceptsExactlyDags
<1> SUFFICES ASSUME TopologyIInv, phase = "reported"
             PROVE  errors = {} <=> items # << >> /\ WellFormed /\ Acyclic(Node, Declared)
  BY DEF AcceptsExactlyDags
<1>1. SearchIInv /\ items \in Seq(Item) /\ graph = GraphOf(items)
  BY DEF TopologyIInv
<1>2. errors = {} <=> /\ items # << >> /\ WellFormed
                      /\ \A k \in DOMAIN items : items[k].id \notin RefSet(k)
                      /\ cycle = << >>
  BY <1>1, StructuralErrorsMean DEF TopologyIInv, CycleErrors
<1>3. cycle = << >> <=> Acyclic(Node, Successors)
  BY <1>1, SilentMeansAcyclic, CycleMeansCyclic
<1>4. ASSUME WellFormed PROVE Acyclic(Node, Successors) <=> Acyclic(Node, Declared)
  BY <1>1, <1>4, NothingShadowed, AcyclicMonotone
<1>5. ASSUME Acyclic(Node, Declared), NEW k \in DOMAIN items
      PROVE  items[k].id \notin RefSet(k)
  <2>1. items[k].id \in Node /\ RefSet(k) \subseteq Declared[items[k].id]
    BY <1>1, ItemTyped DEF Declared
  <2>2. Declared[items[k].id] \cap {items[k].id} = {}
    BY <1>5, <2>1 DEF Acyclic
  <2> QED
    BY <2>1, <2>2
<1> QED
  BY <1>2, <1>3, <1>4, <1>5

-----------------------------------------------------------------------------
(* The propagation.  Its state in terms of the call: the dependencies are   *)
(* PositionRefs, the fault targets targets, the phase progress.             *)

Started == progress \in {"pass", "done"}

\* The targets are in, and nothing beyond a closed set that holds them is.
BetweenTargetsAndClosure ==
  Started => /\ targets \subseteq unavailable
             /\ \A S \in SUBSET Component :
                  targets \subseteq S /\ ClosedUpwards(Component, PositionRefs, S)
                    => unavailable \subseteq S

\* Components an unchanged pass has gone by need no second look.
PassedAreSettled ==
  Started /\ ~changed =>
    \A c \in 1 .. position - 1 : PositionRefs[c] \cap unavailable # {} => c \in unavailable

PropagationIInv ==
  /\ Propagation!TypeOK
  /\ progress = "check" => unavailable = {} /\ position = 1 /\ ~changed
  /\ progress = "rejected" => unavailable = {}
  /\ progress = "done" => position = ComponentCount + 1 /\ ~changed
  /\ BetweenTargetsAndClosure
  /\ PassedAreSettled

\* A component that depends on the disabled set is in every closed set.
LEMMA DependentIsInClosure ==
  ASSUME NEW c \in Component, PositionRefs[c] \cap unavailable # {},
         NEW S \in SUBSET Component, ClosedUpwards(Component, PositionRefs, S),
         unavailable \subseteq S
  PROVE  c \in S
  BY DEF ClosedUpwards

LEMMA SameComponents ==
  /\ Propagation!Component = Component
  /\ \A d, f : Propagation!Disabled(Component, d, f) = Disabled(Component, d, f)
  /\ \A d : Propagation!Acyclic(Component, d) <=> Acyclic(Component, d)
BY DEF Propagation!Component, Component, Propagation!Disabled, Disabled,
       Propagation!ClosedUpwards, ClosedUpwards, Propagation!Acyclic, Acyclic

\* No step of the propagation leaves its invariant.
LEMMA PropagationStep ==
  ASSUME PropagationIInv, [Propagation!Next]_(Propagation!vars)
  PROVE  PropagationIInv'
<1> USE ComponentCountAssumption, SameComponents DEF Component
<1>1. PositionRefs' = PositionRefs /\ targets' = targets
  BY DEF Propagation!vars, Propagation!Next, Propagation!RejectTargets,
         Propagation!StartPropagation, Propagation!Disable, Propagation!LeaveAlone,
         Propagation!RepeatPass, Propagation!Return
<1>2. CASE Propagation!RejectTargets
  BY <1>1, <1>2 DEF Propagation!RejectTargets, PropagationIInv, Propagation!TypeOK,
                    BetweenTargetsAndClosure, PassedAreSettled, Started
<1>3. CASE Propagation!StartPropagation
  <2>1. Propagation!TypeOK'
    BY <1>1, <1>3 DEF Propagation!StartPropagation, PropagationIInv, Propagation!TypeOK
  <2>2. BetweenTargetsAndClosure'
    BY <1>1, <1>3 DEF Propagation!StartPropagation, BetweenTargetsAndClosure
  <2>3. PassedAreSettled'
    BY <1>1, <1>3 DEF Propagation!StartPropagation, PropagationIInv, PassedAreSettled
  <2> QED
    BY <1>3, <2>1, <2>2, <2>3 DEF Propagation!StartPropagation, PropagationIInv
<1>4. CASE Propagation!Disable
  <2>0. /\ progress = "pass" /\ position \in Component \ unavailable
        /\ PositionRefs[position] \cap unavailable # {}
        /\ unavailable' = unavailable \cup {position} /\ changed' = TRUE
        /\ position' = position + 1 /\ UNCHANGED progress
    BY <1>4 DEF Propagation!Disable, Propagation!DependsOnUnavailable
  <2>1. Propagation!TypeOK'
    BY <1>1, <2>0 DEF PropagationIInv, Propagation!TypeOK
  <2>2. BetweenTargetsAndClosure'
    <3>1. targets \subseteq unavailable'
      BY <2>0 DEF PropagationIInv, BetweenTargetsAndClosure, Started
    <3>2. ASSUME NEW S \in SUBSET Component, targets \subseteq S,
                 ClosedUpwards(Component, PositionRefs, S)
          PROVE  unavailable' \subseteq S
      <4>1. unavailable \subseteq S
        BY <2>0, <3>2 DEF PropagationIInv, BetweenTargetsAndClosure, Started
      <4>2. position \in S
        BY <2>0, <3>2, <4>1, DependentIsInClosure
      <4> QED
        BY <2>0, <4>1, <4>2
    <3> QED
      BY <1>1, <3>1, <3>2 DEF BetweenTargetsAndClosure, ClosedUpwards
  <2>3. PassedAreSettled'
    BY <2>0 DEF PassedAreSettled
  <2> QED
    BY <2>0, <2>1, <2>2, <2>3 DEF PropagationIInv
<1>5. CASE Propagation!LeaveAlone
  <2>0. /\ progress = "pass" /\ position \in Component
        /\ position \in unavailable \/ PositionRefs[position] \cap unavailable = {}
        /\ position' = position + 1 /\ UNCHANGED <<progress, unavailable, changed>>
    BY <1>5 DEF Propagation!LeaveAlone, Propagation!DependsOnUnavailable
  <2>1. Propagation!TypeOK'
    BY <1>1, <2>0 DEF PropagationIInv, Propagation!TypeOK
  <2>2. BetweenTargetsAndClosure'
    BY <1>1, <2>0 DEF PropagationIInv, BetweenTargetsAndClosure, Started, ClosedUpwards
  <2>3. PassedAreSettled'
    <3> SUFFICES ASSUME ~changed, NEW c \in 1 .. position,
                        PositionRefs[c] \cap unavailable # {}
                 PROVE  c \in unavailable
      BY <1>1, <2>0 DEF PropagationIInv, Propagation!TypeOK, PassedAreSettled
    <3>1. CASE c = position
      BY <2>0, <3>1
    <3>2. CASE c # position
      <4>1. c \in 1 .. position - 1
        BY <3>2 DEF PropagationIInv, Propagation!TypeOK
      <4> QED
        BY <2>0, <4>1 DEF PropagationIInv, PassedAreSettled, Started
    <3> QED
      BY <3>1, <3>2
  <2> QED
    BY <2>0, <2>1, <2>2, <2>3 DEF PropagationIInv
<1>6. CASE Propagation!RepeatPass
  <2>0. /\ progress = "pass" /\ position' = 1 /\ changed' = FALSE
        /\ UNCHANGED <<progress, unavailable>>
    BY <1>6 DEF Propagation!RepeatPass
  <2>1. Propagation!TypeOK'
    <3>1. 1 \in 1 .. ComponentCount + 1
      OBVIOUS
    <3> QED
      BY <1>1, <2>0, <3>1 DEF PropagationIInv, Propagation!TypeOK
  <2>2. BetweenTargetsAndClosure'
    BY <1>1, <2>0 DEF PropagationIInv, BetweenTargetsAndClosure, Started, ClosedUpwards
  <2>3. PassedAreSettled'
    BY <2>0 DEF PassedAreSettled
  <2> QED
    BY <2>0, <2>1, <2>2, <2>3 DEF PropagationIInv
<1>7. CASE Propagation!Return
  <2>0. /\ progress = "pass" /\ position = ComponentCount + 1 /\ ~changed
        /\ progress' = "done" /\ UNCHANGED <<unavailable, position, changed>>
    BY <1>7 DEF Propagation!Return
  <2>1. BetweenTargetsAndClosure'
    BY <1>1, <2>0 DEF PropagationIInv, BetweenTargetsAndClosure, Started, ClosedUpwards
  <2>2. PassedAreSettled'
    BY <1>1, <2>0 DEF PropagationIInv, PassedAreSettled, Started
  <2> QED
    BY <1>1, <2>0, <2>1, <2>2 DEF PropagationIInv, Propagation!TypeOK
<1>8. CASE UNCHANGED Propagation!vars
  BY <1>1, <1>8 DEF Propagation!vars, PropagationIInv, Propagation!TypeOK,
     BetweenTargetsAndClosure, PassedAreSettled, Started, ClosedUpwards
<1> QED
  BY <1>2, <1>3, <1>4, <1>5, <1>6, <1>7, <1>8 DEF Propagation!Next

\* What the loop leaves behind is the closure of the targets.
LEMMA ClosureReached ==
  ASSUME PropagationIInv
  PROVE  /\ unavailable \subseteq Disabled(Component, PositionRefs, targets)
              \/ progress = "check"
         /\ progress = "done" => unavailable = Disabled(Component, PositionRefs, targets)
<1> USE ComponentCountAssumption, SameComponents
<1>1. CASE Started
  <2>1. targets \subseteq unavailable /\ unavailable \in SUBSET Component
    BY <1>1 DEF PropagationIInv, Propagation!TypeOK, BetweenTargetsAndClosure
  <2>2. unavailable \subseteq Disabled(Component, PositionRefs, targets)
    BY <1>1, <2>1 DEF PropagationIInv, BetweenTargetsAndClosure, Disabled
  <2>3. ASSUME progress = "done"
        PROVE  ClosedUpwards(Component, PositionRefs, unavailable)
    BY <1>1, <2>3 DEF PropagationIInv, PassedAreSettled, ClosedUpwards, Component
  <2>4. progress = "done" => Disabled(Component, PositionRefs, targets) \subseteq unavailable
    BY <2>1, <2>3 DEF Disabled
  <2> QED
    BY <2>2, <2>4
<1>2. CASE ~Started
  BY <1>2 DEF Started, PropagationIInv, Propagation!TypeOK
<1> QED
  BY <1>1, <1>2

-----------------------------------------------------------------------------
(* The call as a whole.                                                     *)

Propagating == progress \in {"check", "pass", "done", "rejected"}

CallIInv ==
  /\ TopologyIInv
  /\ progress \in {"validating", "refused", "accepted", "check", "pass", "done", "rejected"}
  /\ progress = "validating" => unavailable = {} /\ position = 1 /\ changed = FALSE
  /\ progress # "validating" => phase = "reported"
  /\ Propagating => errors = {} /\ Len(items) = ComponentCount /\ PropagationIInv

\* An accepted topology of ComponentCount items is one propagate_failure is
\* specified for: known references and no cycle.
LEMMA AcceptedIsAcyclic ==
  ASSUME TopologyIInv, phase = "reported", errors = {}, Len(items) = ComponentCount
  PROVE  /\ DOMAIN items = Component
         /\ PositionRefs \in [Component -> SUBSET Component]
         /\ Acyclic(Component, PositionRefs)
<1>1. items \in Seq(Item) /\ DOMAIN items = Component
  BY DEF TopologyIInv, Component
<1>2. PositionRefs \in [Component -> SUBSET Component]
  BY <1>1 DEF PositionRefs
<1>3. Acyclic(Node, Declared)
  BY AcceptanceIsRight DEF AcceptsExactlyDags
<1>4. ASSUME NEW S \in SUBSET Component, S # {}
      PROVE  \E c \in S : PositionRefs[c] \cap S = {}
  <2> DEFINE T == {items[k].id : k \in S}
  <2>1. T \in SUBSET Node /\ T # {}
    BY <1>1, <1>4, ItemTyped
  <2>2. PICK n \in T : Declared[n] \cap T = {}
    BY <1>3, <2>1 DEF Acyclic
  <2>3. PICK k \in S : items[k].id = n
    BY <2>2
  <2>4. RefSet(k) \subseteq Declared[n]
    BY <1>1, <1>4, <2>1, <2>3 DEF Declared
  <2>5. PositionRefs[k] = {j \in DOMAIN items : items[j].id \in RefSet(k)}
    BY <1>1, <1>4, <2>3 DEF PositionRefs
  <2>6. ASSUME NEW j \in S PROVE j \notin PositionRefs[k]
    BY <2>2, <2>4, <2>5, <2>6
  <2> QED
    BY <2>3, <2>6
<1> QED
  BY <1>1, <1>2, <1>4 DEF Acyclic

LEMMA InitCallIInv == CallInit => CallIInv
BY InitTopologyIInv DEF CallInit, CallIInv, Propagating

\* Once the validation has reported, it takes no step any more.
LEMMA ReportedIsFinal == phase = "reported" => ~TopologyNext
BY DEF TopologyNext, RejectEmpty, CheckStructure, Search, Report, Next, EnterRoot, SkipRoot,
       Enter, SkipFinished, ReportCycle, Leave, ReturnNone

\* No step of the call leaves its invariant.
LEMMA StepCallIInv == ASSUME CallIInv, [CallNext]_callVars PROVE CallIInv'
<1>1. CASE Validate
  <2>1. TopologyNext /\ UNCHANGED <<progress, targets, unavailable, position, changed>>
    BY <1>1 DEF Validate, propagationVars
  <2>2. TopologyIInv'
    BY <2>1, StepTopologyIInv DEF CallIInv
  <2>3. progress = "validating"
    BY <2>1, ReportedIsFinal DEF CallIInv
  <2> QED
    BY <2>1, <2>2, <2>3 DEF CallIInv, Propagating
<1>2. CASE Refuse
  <2>1. TopologyIInv'
    BY <1>2, StutterTopologyIInv DEF Refuse, CallIInv
  <2> QED
    BY <1>2, <2>1 DEF Refuse, CallIInv, Propagating, topologyVars, vars
<1>3. CASE AcceptOnly
  <2>1. TopologyIInv'
    BY <1>3, StutterTopologyIInv DEF AcceptOnly, CallIInv
  <2> QED
    BY <1>3, <2>1 DEF AcceptOnly, CallIInv, Propagating, topologyVars, vars
<1>4. CASE Accept
  <2>1. TopologyIInv' /\ UNCHANGED <<items, errors, phase>>
    BY <1>4, StutterTopologyIInv DEF Accept, CallIInv, topologyVars, vars
  <2>2. /\ progress' = "check" /\ targets' \in SUBSET (Component \cup {Propagation!Missing})
        /\ phase = "reported" /\ errors = {} /\ Len(items) = ComponentCount
        /\ unavailable' = {} /\ position' = 1 /\ changed' = FALSE
    BY <1>4 DEF Accept, CallIInv
  <2>3. PositionRefs' = PositionRefs
    BY <2>1 DEF PositionRefs, RefSet
  <2>4. Propagation!TypeOK'
    <3>1. PositionRefs \in [Component -> SUBSET Component]
      BY <2>2, AcceptedIsAcyclic DEF CallIInv
    <3>2. 1 \in 1 .. ComponentCount + 1
      BY ComponentCountAssumption
    <3> QED
      BY <2>2, <2>3, <3>1, <3>2, SameComponents DEF Propagation!TypeOK
  <2>5. PropagationIInv'
    BY <2>2, <2>4 DEF PropagationIInv, BetweenTargetsAndClosure, PassedAreSettled, Started
  <2> QED
    BY <2>1, <2>2, <2>5 DEF CallIInv
<1>5. CASE Propagate
  <2>1. TopologyIInv' /\ UNCHANGED <<items, errors, phase>> /\ Propagation!Next
    BY <1>5, StutterTopologyIInv DEF Propagate, CallIInv, topologyVars, vars
  <2>2. progress \in {"check", "pass"} /\ progress' \in {"pass", "done", "rejected"}
    BY <2>1 DEF Propagation!Next, Propagation!RejectTargets, Propagation!StartPropagation,
       Propagation!Disable, Propagation!LeaveAlone, Propagation!RepeatPass, Propagation!Return
  <2>3. PropagationIInv'
    BY <2>1, <2>2, PropagationStep DEF CallIInv, Propagating
  <2> QED
    BY <2>1, <2>2, <2>3 DEF CallIInv, Propagating
<1>6. CASE UNCHANGED callVars
  <2>1. UNCHANGED topologyVars /\ UNCHANGED <<items, errors, phase>>
    BY <1>6 DEF callVars, topologyVars, vars
  <2>2. UNCHANGED <<progress, targets, unavailable, position, changed>>
    BY <1>6 DEF callVars, propagationVars
  <2>3. TopologyIInv'
    BY <2>1, StutterTopologyIInv DEF CallIInv
  <2>4. UNCHANGED Propagation!vars
    BY <2>1, <2>2 DEF Propagation!vars, PositionRefs, RefSet
  <2>5. Propagating => PropagationIInv'
    BY <2>4, PropagationStep DEF CallIInv
  <2> QED
    BY <2>1, <2>2, <2>3, <2>5 DEF CallIInv, Propagating
<1> QED
  BY <1>1, <1>2, <1>3, <1>4, <1>5, <1>6 DEF CallNext

(***************************************************************************)
(* Every reachable state of every call satisfies the inductive invariant.   *)
(***************************************************************************)
THEOREM Invariance == CallSpec => []CallIInv
<1> QED
  BY InitCallIInv, StepCallIInv, PTL DEF CallSpec

(***************************************************************************)
(* The variables of the search and of the propagation keep their types.     *)
(***************************************************************************)
THEOREM TypeCorrect == CallSpec => [](SearchTyped /\ (Propagating => Propagation!TypeOK))
<1>1. CallIInv => SearchTyped /\ (Propagating => Propagation!TypeOK)
  BY DEF CallIInv, TopologyIInv, SearchIInv, PropagationIInv
<1> QED
  BY <1>1, Invariance, PTL

(***************************************************************************)
(* A cycle _dependency_cycle returns is one, for every graph.               *)
(***************************************************************************)
THEOREM ReportedCyclesExist == CallSpec => []ReportedCycleIsReal
<1>1. CallIInv => ReportedCycleIsReal
  BY DEF CallIInv, TopologyIInv, SearchIInv
<1> QED
  BY <1>1, Invariance, PTL

(***************************************************************************)
(* _dependency_cycle finds a cycle wherever there is one, for every graph.  *)
(***************************************************************************)
THEOREM NoCycleIsMissed == CallSpec => []SilentOnlyIfAcyclic
<1>1. CallIInv => SilentOnlyIfAcyclic
  BY SilentMeansAcyclic DEF CallIInv, TopologyIInv, SilentOnlyIfAcyclic
<1> QED
  BY <1>1, Invariance, PTL

(***************************************************************************)
(* validate_topology accepts the well-formed acyclic topologies and no      *)
(* others, for topologies of any length with any identifiers repeated.      *)
(***************************************************************************)
THEOREM AcceptanceIsExact == CallSpec => []AcceptsExactlyDags
<1>1. CallIInv => AcceptsExactlyDags
  BY AcceptanceIsRight DEF CallIInv
<1> QED
  BY <1>1, Invariance, PTL

(***************************************************************************)
(* The cycle error is about the dictionary of components, whatever else is  *)
(* wrong with the topology.                                                 *)
(***************************************************************************)
THEOREM CycleErrorIsExact == CallSpec => []CycleErrorMeansCyclic
<1>1. CallIInv => CycleErrorMeansCyclic
  BY CycleErrorIsRight DEF CallIInv
<1> QED
  BY <1>1, Invariance, PTL

(***************************************************************************)
(* Nothing is declared unavailable that the failure does not disable.       *)
(***************************************************************************)
THEOREM NothingFalselyDisabled ==
  CallSpec => [](Propagating => Propagation!OnlyDependentsDisabled)
<1>1. CallIInv /\ Propagating => Propagation!OnlyDependentsDisabled
  BY ClosureReached, SameComponents
  DEF CallIInv, PropagationIInv, Propagation!OnlyDependentsDisabled
<1> QED
  BY <1>1, Invariance, PTL

(***************************************************************************)
(* propagate_failure returns the least set that holds the fault targets and *)
(* everything that depends on it, for every topology that passes the        *)
(* validation and every order it lists the components in.                   *)
(***************************************************************************)
THEOREM PropagationIsExact == CallSpec => []ReturnsDisabledSet
<1>1. CallIInv => ReturnsDisabledSet
  BY ClosureReached, SameComponents
  DEF CallIInv, Propagating, ReturnsDisabledSet, Propagation!ReturnsDisabledSet
<1> QED
  BY <1>1, Invariance, PTL

(***************************************************************************)
(* The validation hands over what FailurePropagation starts from, and from  *)
(* there on every step of the call is a step of FailurePropagation: the     *)
(* composition implements the specification of the loop.                    *)
(***************************************************************************)
THEOREM RefinesPropagation ==
  CallSpec => /\ [](progress = "check" => Propagation!Init)
              /\ [][Propagating => [Propagation!Next]_(Propagation!vars)]_callVars
<1>1. ASSUME CallIInv, progress = "check" PROVE Propagation!Init
  <2>1. /\ phase = "reported" /\ errors = {} /\ Len(items) = ComponentCount
        /\ unavailable = {} /\ position = 1 /\ Propagation!TypeOK /\ ~changed
    BY <1>1 DEF CallIInv, Propagating, PropagationIInv
  <2>2. changed = FALSE
    BY <2>1 DEF Propagation!TypeOK
  <2>3. PositionRefs \in [Component -> SUBSET Component] /\ Acyclic(Component, PositionRefs)
    BY <1>1, <2>1, AcceptedIsAcyclic DEF CallIInv
  <2> QED
    BY <1>1, <2>1, <2>2, <2>3, SameComponents DEF Propagation!Init, Propagation!TypeOK
<1>2. ASSUME CallIInv, [CallNext]_callVars
      PROVE  Propagating => [Propagation!Next]_(Propagation!vars)
  <2> SUFFICES ASSUME Propagating PROVE [Propagation!Next]_(Propagation!vars)
    OBVIOUS
  <2>1. phase = "reported" /\ progress # "validating"
    BY <1>2 DEF CallIInv, Propagating
  <2>2. Propagate \/ UNCHANGED callVars
    BY <1>2, <2>1, ReportedIsFinal DEF CallNext, Validate, Refuse, AcceptOnly, Accept
  <2>3. CASE Propagate
    BY <2>3 DEF Propagate
  <2>4. CASE UNCHANGED callVars
    BY <2>4 DEF callVars, topologyVars, vars, propagationVars, Propagation!vars,
                PositionRefs, RefSet
  <2> QED
    BY <2>2, <2>3, <2>4
<1> QED
  BY <1>1, <1>2, Invariance, PTL DEF CallSpec
=============================================================================

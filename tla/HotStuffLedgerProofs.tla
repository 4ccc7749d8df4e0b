------------------------ MODULE HotStuffLedgerProofs ------------------------
(***************************************************************************)
(* The lock and the ledger of HotStuff.  The views on a certified chain    *)
(* ascend, so the lock stays below the highest QC, nothing above the lock  *)
(* is delivered and no block is delivered twice.  A system that has given  *)
(* up views 1 and 2 without a QC never votes again.                        *)
(***************************************************************************)
EXTENDS HotStuffProofs

-----------------------------------------------------------------------------
(* The invariant of the order of views *)

\* Among the replicas that had certified b's parent when b was made, those that
\* vote for b, its proposer aside, have found that b's view is the later one.
Witnessed(b, C) ==
    QCOf(b) # InitialQC =>
        \E Q \in SUBSET Voters(C, PrevID(b)) :
            /\ SuperMajority(Q)
            /\ \A q \in Q : q \in Voters(C, b) /\ q # ProposerOf(b)
                                => QCOf(b).view < ViewOf(b)

\* A leader that proposes on a block of its own proposes in a later view.
OwnParent(b) ==
    QCOf(b) # InitialQC /\ ProposerOf(PrevID(b)) = ProposerOf(b)
        => QCOf(b).view < ViewOf(b)

\* The proper ancestors of b have earlier views.
Descends(b) == \A h \in 1..(Len(b) - 1) : ViewOf(AtHeight(b, h)) < ViewOf(b)

\* The views on the chain of every certified block ascend.
OrderOK(P, C) ==
    \A b \in P : /\ Witnessed(b, C)
                 /\ OwnParent(b)
                 /\ SuperMajority(Voters(C, b)) => Descends(b)

\* No block was delivered twice, and what was delivered is at or below the
\* pruning level.
DeliveredOK(bc) ==
    /\ \A i \in DOMAIN bc.committed : ViewOf(bc.committed[i]) <= bc.lowestLevel
    /\ \A i, j \in DOMAIN bc.committed : bc.committed[i] = bc.committed[j] => i = j

\* The ledger is below the lock, and the lock below the highest QC.
LedgerOK(s) ==
    /\ s.preferredView = 0 \/ s.preferredView < s.highQC.view
    /\ s.bc.lowestLevel <= s.preferredView
    /\ DeliveredOK(s.bc)

\* A replica that has voted for a block of view 3 or later keeps the block and
\* its parent until it is in the view of the block.
VoterOK(s, r, C) ==
    \A v \in C : v.voter = r =>
        /\ v.view <= s.pm.curView + 1
        /\ v.view >= 3 => HasParent(s.bc, v.id) \/ v.view <= s.pm.curView

\* A step forgets blocks only when it enters a later view.
Moves(s, t) ==
    /\ t.pm.curView >= s.pm.curView
    /\ \A x \in s.bc.vertices : x \in t.bc.vertices \/ t.pm.curView > s.pm.curView

LedgerStep(s, t) == LedgerOK(t) /\ Moves(s, t)

\* Steps of a handler compose.
LEMMA LedgerStepTransitive ==
    ASSUME NEW s \in HotStuffState, NEW t \in HotStuffState, NEW u \in HotStuffState,
           LedgerStep(s, t), LedgerStep(t, u)
    PROVE  LedgerStep(s, u)
  <1>1. s.pm.curView \in Nat /\ t.pm.curView \in Nat /\ u.pm.curView \in Nat
    BY StateType, Zenon
  <1>2. u.pm.curView >= s.pm.curView
    BY <1>1 DEF LedgerStep, Moves
  <1>3. \A x \in s.bc.vertices : x \in u.bc.vertices \/ u.pm.curView > s.pm.curView
    BY <1>1 DEF LedgerStep, Moves
  <1> QED
    BY <1>2, <1>3, Zenon DEF LedgerStep, Moves

\* What does not touch the lock, the pruning level and the ledger and drops no
\* block is such a step.
Keeps(s, t) ==
    /\ t.preferredView = s.preferredView
    /\ t.bc.lowestLevel = s.bc.lowestLevel
    /\ t.bc.committed = s.bc.committed
    /\ s.bc.vertices \subseteq t.bc.vertices

\* Such a step keeps the ledger below the lock.
LEMMA KeepsLedger ==
    ASSUME NEW s \in HotStuffState, NEW t \in HotStuffState,
           LedgerOK(s), Grows(s, t), Keeps(s, t)
    PROVE  LedgerStep(s, t)
  <1>1. /\ s.preferredView \in Nat /\ s.highQC.view \in Nat /\ t.highQC.view \in Nat
        /\ t.highQC.view >= s.highQC.view /\ t.pm.curView >= s.pm.curView
    BY StateType, Zenon DEF Grows
  <1>2. LedgerOK(t)
    BY <1>1 DEF LedgerOK, Keeps, DeliveredOK
  <1>3. Moves(s, t)
    BY <1>1, Zenon DEF Moves, Keeps
  <1> QED
    BY <1>2, <1>3, Zenon DEF LedgerStep

\* A replica's votes stay covered.
LEMMA VoterMoves ==
    ASSUME NEW C \in SUBSET Vote, NEW r, NEW s \in HotStuffState, NEW t \in HotStuffState,
           VoterOK(s, r, C), Moves(s, t)
    PROVE  VoterOK(t, r, C)
  <1> SUFFICES ASSUME NEW v \in C, v.voter = r
               PROVE  /\ v.view <= t.pm.curView + 1
                      /\ v.view >= 3 => HasParent(t.bc, v.id) \/ v.view <= t.pm.curView
    BY Zenon DEF VoterOK
  <1>1. s.pm.curView \in Nat /\ t.pm.curView \in Nat /\ v.view \in Nat
    BY StateType, Zenon DEF Vote
  <1>2. v.view <= s.pm.curView + 1 /\ t.pm.curView >= s.pm.curView
    BY Zenon DEF VoterOK, Moves
  <1>3. v.view >= 3 => HasParent(s.bc, v.id) \/ v.view <= s.pm.curView
    BY Zenon DEF VoterOK
  <1>4. CASE t.pm.curView > s.pm.curView
    BY <1>1, <1>2, <1>4
  <1>5. CASE ~(t.pm.curView > s.pm.curView)
    <2>1. HasParent(s.bc, v.id) => HasParent(t.bc, v.id)
      BY <1>5, Zenon DEF Moves, HasParent
    <2> QED
      BY <1>1, <1>2, <1>3, <2>1
  <1> QED
    BY <1>4, <1>5, Zenon

-----------------------------------------------------------------------------
(* Commits *)

\* The ancestors of a block at different heights differ.
LEMMA HeightOf ==
    ASSUME NEW b \in Block, NEW h \in 1..Len(b)
    PROVE  Len(AtHeight(b, h)) = h
  <1>1. b \in Seq(Header) /\ Len(b) \in Nat
    BY BlockType, Zenon DEF Block, BlockID
  <1>2. \A i \in 1..h : b[i] \in Header
    BY <1>1
  <1> QED
    BY <1>1, <1>2 DEF AtHeight

\* What CommitBlock delivers is above the old pruning level and not above the
\* new one, and no two blocks of it are the same.
LEMMA CommittedOrder ==
    ASSUME Counting, NEW bc \in BlockChainState, NEW b \in Block, Descends(b)
    PROVE  LET d == CommittedBlocks(bc, b)
           IN  /\ d \in Seq(Block)
               /\ \A i \in 1..Len(d) : /\ ViewOf(d[i]) > bc.lowestLevel
                                       /\ ViewOf(d[i]) <= ViewOf(b)
               /\ \A i, j \in 1..Len(d) : d[i] = d[j] => i = j
  <1> DEFINE H == CommitHeights(bc, b)
             n == Cardinality(H)
             L == Len(b)
             d == CommittedBlocks(bc, b)
  <1>1. n \in Nat /\ \A i \in 1..n : L + 1 - i \in H
    BY DeliveredHeights, Zenon
  <1>2. L \in Nat \ {0} /\ ViewOf(b) \in Nat
    BY BlockType, Zenon
  <1>3. \A h \in H : /\ h \in 1..L
                     /\ ViewOf(AtHeight(b, h)) > bc.lowestLevel
    BY <1>2 DEF CommitHeights
  <1>4. d = [i \in 1..n |-> AtHeight(b, L + 1 - i)]
    BY Zenon DEF CommittedBlocks
  <1> HIDE DEF H, n, L, d
  <1>5. \A h \in 1..L : /\ AtHeight(b, h) \in Block
                        /\ Len(AtHeight(b, h)) = h
                        /\ ViewOf(AtHeight(b, h)) <= ViewOf(b)
    <2> TAKE h \in 1..L
    <2>1. AtHeight(b, h) \in Block /\ AtHeight(b, L) = b /\ Len(AtHeight(b, h)) = h
      BY Ancestors, HeightOf, Zenon DEF L
    <2>2. CASE h = L
      BY <1>2, <2>1, <2>2
    <2>3. CASE h # L
      <3>1. h \in 1..(L - 1)
        BY <1>2, <2>3
      <3>2. ViewOf(AtHeight(b, h)) < ViewOf(b) /\ ViewOf(AtHeight(b, h)) \in Nat
        BY <2>1, <3>1, BlockType, Zenon DEF Descends, L
      <3> QED
        BY <1>2, <2>1, <3>2
    <2> QED
      BY <2>2, <2>3, Zenon
  <1>6. \A i \in 1..n : L + 1 - i \in 1..L /\ L + 1 - i \in H
    BY <1>1, <1>3, Zenon
  <1>7. d \in [1..n -> Block]
    BY <1>4, <1>5, <1>6, Zenon
  <1>8. d \in Seq(Block) /\ Len(d) = n
    BY <1>1, <1>7
  <1>9. \A i \in 1..n : ViewOf(d[i]) > bc.lowestLevel /\ ViewOf(d[i]) <= ViewOf(b)
    BY <1>3, <1>4, <1>5, <1>6, Zenon
  <1>10. \A i, j \in 1..n : d[i] = d[j] => i = j
    <2> SUFFICES ASSUME NEW i \in 1..n, NEW j \in 1..n, d[i] = d[j]
                 PROVE  i = j
      BY Zenon
    <2>1. Len(d[i]) = L + 1 - i /\ Len(d[j]) = L + 1 - j
      BY <1>4, <1>5, <1>6, Zenon
    <2> QED
      BY <1>1, <1>2, <2>1
  <1> QED
    BY <1>8, <1>9, <1>10, Zenon DEF d

\* CommitBlock delivers no block a second time.
LEMMA CommitLedger ==
    ASSUME Counting, NEW bc \in BlockChainState, DeliveredOK(bc), NEW b \in Block,
           Descends(b), ViewOf(b) >= bc.lowestLevel
    PROVE  DeliveredOK(CommitBlock(bc, b))
  <1> DEFINE c == bc.committed
             d == CommittedBlocks(bc, b)
             l == bc.lowestLevel
             v == ViewOf(b)
             e == c \o d
  <1>1. /\ d \in Seq(Block)
        /\ \A i \in 1..Len(d) : ViewOf(d[i]) > l /\ ViewOf(d[i]) <= v
        /\ \A i, j \in 1..Len(d) : d[i] = d[j] => i = j
    BY CommittedOrder, Zenon
  <1>2. c \in Seq(Block) /\ l \in Nat /\ v \in Nat /\ l <= v
    BY BlockType, Zenon DEF BlockChainState
  <1>3. CommitBlock(bc, b).committed = e /\ CommitBlock(bc, b).lowestLevel = v
    BY Zenon DEF CommitBlock
  <1>4. /\ \A i \in DOMAIN c : ViewOf(c[i]) <= l
        /\ \A i, j \in DOMAIN c : c[i] = c[j] => i = j
    BY Zenon DEF DeliveredOK
  <1> HIDE DEF c, d, l, v, e
  <1>5. /\ Len(c) \in Nat /\ DOMAIN c = 1..Len(c)
        /\ Len(d) \in Nat
    BY <1>1, <1>2
  <1>6. /\ e \in Seq(Block) /\ DOMAIN e = 1..(Len(c) + Len(d))
        /\ \A i \in 1..(Len(c) + Len(d)) :
                e[i] = IF i <= Len(c) THEN c[i] ELSE d[i - Len(c)]
    BY <1>1, <1>2 DEF e
  <1>7. \A i \in DOMAIN e : \/ i \in DOMAIN c /\ e[i] = c[i]
                            \/ i > Len(c) /\ i - Len(c) \in 1..Len(d) /\ e[i] = d[i - Len(c)]
    BY <1>5, <1>6
  <1>8. \A i \in DOMAIN c : ViewOf(c[i]) \in Nat
    BY <1>2, <1>5, BlockType
  <1>9. \A i \in 1..Len(d) : ViewOf(d[i]) \in Nat
    BY <1>1, BlockType
  <1>10. \A i \in DOMAIN e : ViewOf(e[i]) <= v
    BY <1>1, <1>2, <1>4, <1>7, <1>8, <1>9
  <1>11. \A i \in DOMAIN c : \A j \in 1..Len(d) : c[i] # d[j]
    BY <1>1, <1>2, <1>4, <1>8, <1>9
  <1>12. \A i, j \in DOMAIN e : e[i] = e[j] => i = j
    <2> SUFFICES ASSUME NEW i \in DOMAIN e, NEW j \in DOMAIN e, e[i] = e[j]
                 PROVE  i = j
      BY Zenon
    <2>0. i \in Nat /\ j \in Nat
      BY <1>5, <1>6
    <2>1. CASE i \in DOMAIN c /\ e[i] = c[i]
      BY <1>4, <1>7, <1>11, <2>1, Zenon
    <2>2. CASE i > Len(c) /\ i - Len(c) \in 1..Len(d) /\ e[i] = d[i - Len(c)]
      <3>1. j > Len(c) /\ j - Len(c) \in 1..Len(d) /\ e[j] = d[j - Len(c)]
        BY <1>7, <1>11, <2>2, Zenon
      <3>2. i - Len(c) = j - Len(c)
        BY <1>1, <2>2, <3>1, Zenon
      <3> QED
        BY <1>5, <2>0, <3>2
    <2> QED
      BY <1>7, <2>1, <2>2, Zenon
  <1> QED
    BY <1>3, <1>10, <1>12, Zenon DEF DeliveredOK

-----------------------------------------------------------------------------
(* Handlers *)

\* The parent of a certified block has an earlier view.
LEMMA ParentBelow ==
    ASSUME NEW P, NEW C, ChainOK(P, C), OrderOK(P, C),
           NEW b \in P, SuperMajority(Voters(C, b)), PrevID(b) \in P
    PROVE  ViewOf(PrevID(b)) < ViewOf(b)
  <1>1. b \in Block /\ PrevID(b) \in Block
    BY Zenon DEF ChainOK
  <1>2. Len(b) \in Nat \ {0} /\ b \in Seq(Header)
    BY <1>1, BlockType, Zenon DEF Block, BlockID
  <1>3. Len(b) # 1
    <2> SUFFICES ASSUME Len(b) = 1 PROVE FALSE
      BY Zenon
    <2>1. PrevID(b) = << >>
      BY <1>2 DEF PrevID
    <2> QED
      BY <1>1, <2>1, Zenon DEF Block, ZeroID
  <1>4. Len(b) - 1 \in 1..(Len(b) - 1)
    <2> DEFINE L == Len(b)
    <2>1. L \in Nat \ {0} /\ L # 1
      BY <1>2, <1>3, Zenon
    <2> HIDE DEF L
    <2>2. L - 1 \in 1..(L - 1)
      BY <2>1
    <2> QED
      BY <2>2, Zenon DEF L
  <1>5. Descends(b)
    BY Zenon DEF OrderOK
  <1> QED
    BY <1>4, <1>5, Zenon DEF Descends, AtHeight, PrevID

\* AdoptCertificate: the lock rises to the parent of the certified block, the
\* highest QC to the QC, and the view to the one after it; the grandparent that is
\* committed is below the lock.
LEMMA AdoptLedger ==
    ASSUME NEW P, NEW C, ChainOK(P, C), OrderOK(P, C), NEW r,
           NEW s, ReplicaOK(s, r, P, C), LedgerOK(s),
           NEW qc \in QC, Backed(qc, P, C),
           qc.view >= s.pm.curView, CanUpdatePreferredView(s, qc)
    PROVE  LET t == AdoptCertificate(UpdatePreferredView(s, qc), r, qc)
           IN  LedgerStep(s, t) /\ t.pm.curView = qc.view + 1
  <1> DEFINE s1 == UpdatePreferredView(s, qc)
             s2 == [s1 EXCEPT !.pm = AdvanceView(@, r, qc.view)]
             s3 == UpdateHighQC(s2, qc)
             t  == Commit(s3, qc)
             p  == PrevID(qc.id)
             g  == PrevID(p)
  <1>1. /\ s \in HotStuffState /\ s.pm \in PacemakerState /\ s.pm.curView \in Nat
        /\ s.bc \in BlockChainState /\ s.bc.lowestLevel \in Nat
        /\ s.preferredView \in Nat /\ s.highQC \in QC /\ s.highQC.view \in Nat
        /\ qc.view \in Nat
    <2>1. s \in HotStuffState
      BY Zenon DEF ReplicaOK
    <2> QED
      BY <2>1, StateType, Zenon DEF QC
  <1>2. s.bc.vertices \subseteq P /\ P \subseteq Block /\ StoreOK(s.bc, P, C)
    BY Zenon DEF ReplicaOK, StoreOK, ChainOK
  <1>3. s1.preferredView = IF qc.view > 2 /\ ViewOf(p) > s.preferredView
                           THEN ViewOf(p) ELSE s.preferredView
    BY <1>1, Zenon DEF UpdatePreferredView, HotStuffState
  <1>4. s1.pm = s.pm /\ s1.bc = s.bc /\ s1.highQC = s.highQC
    BY <1>1, Zenon DEF UpdatePreferredView, HotStuffState
  <1>5. ASSUME qc.view > 2
        PROVE  p \in s.bc.vertices /\ ViewOf(p) \in Nat /\ ViewOf(p) < qc.view
    <2>1. qc.id \in s.bc.vertices /\ p \in s.bc.vertices
      BY <1>1, <1>5 DEF CanUpdatePreferredView, HasParent
    <2>2. qc # InitialQC
      BY <1>5 DEF InitialQC
    <2>3. qc.view = ViewOf(qc.id) /\ SuperMajority(Voters(C, qc.id))
      BY <2>2, Zenon DEF Backed
    <2>4. qc.id \in P /\ p \in P
      BY <1>2, <2>1, Zenon
    <2> QED
      BY <1>2, <2>1, <2>3, <2>4, ParentBelow, BlockType, Zenon
  <1>6. /\ s1.preferredView \in Nat
        /\ s1.preferredView >= s.preferredView
        /\ s1.preferredView = s.preferredView \/ s1.preferredView < qc.view
        /\ qc.view > 2 => ViewOf(p) <= s1.preferredView
    <2>1. CASE qc.view > 2
      BY <1>1, <1>3, <1>5, <2>1
    <2>2. CASE ~(qc.view > 2)
      BY <1>1, <1>3, <2>2
    <2> QED
      BY <2>1, <2>2, Zenon
  <1>7. s1 \in HotStuffState
    BY <1>1, <1>6, <1>3, Zenon DEF UpdatePreferredView, HotStuffState
  <1> HIDE DEF s1
  <1>8. /\ s2.pm.curView = qc.view + 1 /\ s2.bc = s.bc
        /\ s2.preferredView = s1.preferredView /\ s2.highQC = s.highQC
    <2>1. AdvanceView(s1.pm, r, qc.view).curView = qc.view + 1
      BY <1>1, <1>4, AdvanceViewTo
    <2>2. /\ s2.pm = AdvanceView(s1.pm, r, qc.view) /\ s2.bc = s1.bc
          /\ s2.preferredView = s1.preferredView /\ s2.highQC = s1.highQC
      BY <1>7, Zenon DEF HotStuffState
    <2> QED
      BY <1>4, <2>1, <2>2, Zenon
  <1>9. DOMAIN s2 = DOMAIN s1 /\ DOMAIN s1 = DOMAIN s
    BY <1>1, <1>7, Zenon DEF HotStuffState
  <1>10. "bc" \in DOMAIN s /\ "pm" \in DOMAIN s /\ "highQC" \in DOMAIN s
    BY <1>1, Zenon DEF HotStuffState
  <1> HIDE DEF s2
  <1>11. /\ s3.pm.curView = qc.view + 1 /\ s3.bc = s.bc
         /\ s3.preferredView = s1.preferredView
         /\ s3.highQC.view \in Nat
         /\ s3.highQC.view >= qc.view /\ s3.highQC.view >= s.highQC.view
         /\ DOMAIN s3 = DOMAIN s
    <2>1. CASE qc.view > s2.highQC.view
      <3>1. s3 = [s2 EXCEPT !.highQC = qc]
        BY <2>1, Zenon DEF UpdateHighQC
      <3>2. s3.highQC = qc
        BY <1>9, <1>10, <3>1, Zenon
      <3>3. s3.pm = s2.pm /\ s3.bc = s2.bc /\ s3.preferredView = s2.preferredView
            /\ DOMAIN s3 = DOMAIN s
        BY <1>9, <3>1
      <3> HIDE DEF s3
      <3> QED
        BY <1>1, <1>8, <2>1, <3>2, <3>3
    <2>2. CASE ~(qc.view > s2.highQC.view)
      <3>1. s3 = s2
        BY <2>2, Zenon DEF UpdateHighQC
      <3> HIDE DEF s3
      <3> QED
        BY <1>1, <1>8, <1>9, <2>2, <3>1
    <2> QED
      BY <2>1, <2>2, Zenon
  <1> HIDE DEF s3
  <1>12. /\ s3.preferredView = 0 \/ s3.preferredView < s3.highQC.view
         /\ s.bc.lowestLevel <= s3.preferredView
    BY <1>1, <1>6, <1>11 DEF LedgerOK
  <1>13. CASE ~(qc.view >= 3 /\ CommitRule(s3, qc))
    <2>1. t = s3
      BY <1>13, Zenon DEF Commit
    <2>2. LedgerOK(t)
      BY <1>11, <1>12, <2>1, Zenon DEF LedgerOK
    <2>3. Moves(s, t) /\ t.pm.curView = qc.view + 1
      BY <1>1, <1>11, <2>1 DEF Moves
    <2> QED
      BY <2>2, <2>3, Zenon DEF LedgerStep, AdoptCertificate, s1, s2, s3
  <1>14. CASE qc.view >= 3 /\ CommitRule(s3, qc)
    <2>1. /\ p \in s.bc.vertices /\ g \in s.bc.vertices
          /\ ViewOf(g) + 1 = ViewOf(p) /\ ViewOf(p) + 1 = qc.view
      BY <1>11, <1>14, Zenon DEF CommitRule, HasParent
    <2>2. g \in Block /\ ViewOf(g) \in Nat /\ ViewOf(g) >= s.bc.lowestLevel
          /\ g \in P /\ p \in P /\ p \in Block
      BY <1>2, <2>1, BlockType, Zenon DEF StoreOK
    <2>3. Descends(g)
      <3>1. Backed(QCOf(p), P, C) /\ QCOf(p).id = g
        BY <2>2, BlockType, Zenon DEF ChainOK
      <3>2. g # ZeroID
        BY <2>2, Zenon DEF Block
      <3>3. SuperMajority(Voters(C, g))
        BY <3>1, <3>2 DEF Backed, InitialQC
      <3> QED
        BY <2>2, <3>3, Zenon DEF OrderOK
    <2> DEFINE bc == CommitBlock(s.bc, g)
    <2>4. DeliveredOK(bc)
      BY <1>1, <2>2, <2>3, CommitLedger, Zenon DEF LedgerOK, ChainOK
    <2>5. bc.lowestLevel = ViewOf(g)
      BY Zenon DEF CommitBlock
    <2>6. t = [s3 EXCEPT !.bc = bc]
      BY <1>11, <1>14, Zenon DEF Commit
    <2> HIDE DEF bc
    <2>7. /\ t.bc = bc /\ t.pm = s3.pm /\ t.preferredView = s3.preferredView
          /\ t.highQC = s3.highQC
      BY <1>10, <1>11, <2>6
    <2> HIDE DEF t, p, g
    <2>8. bc.lowestLevel <= s3.preferredView
      <3>1. ViewOf(p) <= s3.preferredView /\ ViewOf(p) \in Nat
        BY <1>5, <1>6, <1>11, <1>14, <1>1
      <3> QED
        BY <1>6, <1>11, <2>1, <2>2, <2>5, <3>1
    <2>9. LedgerOK(t)
      BY <1>12, <2>4, <2>7, <2>8, Zenon DEF LedgerOK
    <2>10. t.pm.curView = qc.view + 1
      BY <1>11, <2>7, Zenon
    <2>11. Moves(s, t)
      BY <1>1, <2>10 DEF Moves
    <2> QED
      BY <2>9, <2>10, <2>11, Zenon DEF LedgerStep, AdoptCertificate, s1, s2, s3, t
  <1> QED
    BY <1>13, <1>14, Zenon

\* The handlers other than AdoptCertificate touch neither lock nor ledger.
LEMMA HandlersKeep ==
    ASSUME NEW s \in HotStuffState
    PROVE  /\ \A qc : Keeps(s, BufferQC(s, qc)) /\ Keeps(s, UpdateHighQC(s, qc))
           /\ \A v : Keeps(s, [s EXCEPT !.bc = AddVote(@, v)])
           /\ \A b : Keeps(s, [s EXCEPT !.bc = AddBlock(@, b)])
           /\ \A Q : Keeps(s, [s EXCEPT !.bufferedQCs = Q])
           /\ \A pm : Keeps(s, [s EXCEPT !.pm = pm])
           /\ \A p : Keeps(s, [s EXCEPT !.pending = p])
           /\ \A v : Keeps(s, [s EXCEPT !.localTmo = v])
           /\ \A b : Keeps(s, BufferBlock(s, b)) /\ Keeps(s, NextBuffered(s, b))
           /\ \A b, nested : Keeps(s, Return(s, b, nested))
  <1>1. \A qc : Keeps(s, BufferQC(s, qc)) /\ Keeps(s, UpdateHighQC(s, qc))
    BY Zenon DEF Keeps, BufferQC, UpdateHighQC, HotStuffState
  <1>2. s.bc \in BlockChainState
    BY Zenon DEF HotStuffState
  <1>3. ASSUME NEW bc, bc.lowestLevel = s.bc.lowestLevel, bc.committed = s.bc.committed,
               s.bc.vertices \subseteq bc.vertices
        PROVE  Keeps(s, [s EXCEPT !.bc = bc])
    BY <1>3, Zenon DEF Keeps, HotStuffState
  <1>4. \A v : Keeps(s, [s EXCEPT !.bc = AddVote(@, v)])
    <2> TAKE v
    <2>1. /\ AddVote(s.bc, v).lowestLevel = s.bc.lowestLevel
          /\ AddVote(s.bc, v).committed = s.bc.committed
          /\ s.bc.vertices \subseteq AddVote(s.bc, v).vertices
      BY <1>2, Zenon DEF AddVote, BlockChainState
    <2> QED
      BY <1>3, <2>1, Zenon
  <1>5. \A b : Keeps(s, [s EXCEPT !.bc = AddBlock(@, b)])
    <2> TAKE b
    <2>1. /\ AddBlock(s.bc, b).lowestLevel = s.bc.lowestLevel
          /\ AddBlock(s.bc, b).committed = s.bc.committed
          /\ s.bc.vertices \subseteq AddBlock(s.bc, b).vertices
      BY <1>2, Zenon DEF AddBlock, BlockChainState
    <2> QED
      BY <1>3, <2>1, Zenon
  <1>6. /\ \A Q : Keeps(s, [s EXCEPT !.bufferedQCs = Q])
        /\ \A pm : Keeps(s, [s EXCEPT !.pm = pm])
        /\ \A p : Keeps(s, [s EXCEPT !.pending = p])
        /\ \A v : Keeps(s, [s EXCEPT !.localTmo = v])
        /\ \A B : Keeps(s, [s EXCEPT !.bufferedBlocks = B])
        /\ Keeps(s, s)
    BY Zenon DEF Keeps, HotStuffState
  <1>7. \A b : Keeps(s, BufferBlock(s, b)) /\ Keeps(s, NextBuffered(s, b))
    BY <1>6, Zenon DEF BufferBlock, NextBuffered
  <1>8. \A b, nested : Keeps(s, Return(s, b, nested))
    BY <1>6, Zenon DEF Return, UnbufferBlock
  <1> QED
    BY <1>1, <1>4, <1>5, <1>6, <1>7, <1>8, Zenon

\* A correct step that touches neither is a step of the ledger.
LEMMA KeepsStep ==
    ASSUME NEW P, NEW C, NEW r, NEW s, ReplicaOK(s, r, P, C), LedgerOK(s),
           NEW t, StepOK(s, t, r, P, C), Keeps(s, t)
    PROVE  LedgerStep(s, t)
  BY KeepsLedger, Zenon DEF ReplicaOK, StepOK

\* Correct steps compose.
LEMMA LedgerSteps ==
    ASSUME NEW P, NEW C, NEW r, NEW s, NEW t, NEW u, ReplicaOK(s, r, P, C),
           StepOK(s, t, r, P, C), LedgerStep(s, t),
           StepOK(t, u, r, P, C), LedgerStep(t, u)
    PROVE  LedgerStep(s, u)
  BY LedgerStepTransitive, Zenon DEF ReplicaOK, StepOK

\* processCertificate.
LEMMA ProcessCertificateLedger ==
    ASSUME NEW P, NEW C, ChainOK(P, C), OrderOK(P, C), NEW r,
           NEW s, ReplicaOK(s, r, P, C), LedgerOK(s),
           NEW qc \in QC, Backed(qc, P, C)
    PROVE  LedgerStep(s, ProcessCertificate(s, r, qc))
  <1>1. s \in HotStuffState /\ s.pm.curView \in Nat /\ qc.view \in Nat
    BY StateType, Zenon DEF ReplicaOK, QC
  <1>2. CASE qc.view < s.pm.curView
    <2>1. StepOK(s, s, r, P, C) /\ Keeps(s, s)
      BY StepOKReflexive, Zenon DEF Keeps
    <2>2. LedgerStep(s, s)
      BY <2>1, KeepsStep, Zenon
    <2> QED
      BY <1>2, <2>2, Zenon DEF ProcessCertificate
  <1>3. CASE ~(qc.view < s.pm.curView) /\ ~CanUpdatePreferredView(s, qc)
    <2>1. StepOK(s, BufferQC(s, qc), r, P, C) /\ Keeps(s, BufferQC(s, qc))
      BY <1>1, BufferQCOK, HandlersKeep, Zenon
    <2>2. LedgerStep(s, BufferQC(s, qc))
      BY <2>1, KeepsStep, Zenon
    <2> QED
      BY <1>3, <2>2, Zenon DEF ProcessCertificate
  <1>4. CASE ~(qc.view < s.pm.curView) /\ CanUpdatePreferredView(s, qc)
    <2>1. LedgerStep(s, AdoptCertificate(UpdatePreferredView(s, qc), r, qc))
      BY <1>1, <1>4, AdoptLedger
    <2> QED
      BY <1>4, <2>1, Zenon DEF ProcessCertificate
  <1> QED
    BY <1>2, <1>3, <1>4, Zenon

\* ProcessVote.
LEMMA ProcessVoteLedger ==
    ASSUME NEW P, NEW C, ChainOK(P, C), OrderOK(P, C), NEW r,
           NEW s, ReplicaOK(s, r, P, C), LedgerOK(s), NEW vote \in C
    PROVE  LedgerStep(s, ProcessVote(s, r, vote))
  <1> DEFINE s1 == [s EXCEPT !.bc = AddVote(@, vote)]
             qc == QCFrom(vote)
  <1>1. StoreOK(s.bc, P, C) /\ s \in HotStuffState
    BY Zenon DEF ReplicaOK
  <1>2. /\ StoreOK(AddVote(s.bc, vote), P, C)
        /\ AddVote(s.bc, vote).lowestLevel = s.bc.lowestLevel
        /\ AddVote(s.bc, vote).committed = s.bc.committed
        /\ qc \in QC
        /\ IsBuilt(s.bc, vote) => Backed(qc, P, C)
    BY <1>1, AddVoteOK, Zenon
  <1>3. /\ AddVote(s.bc, vote).lowestLevel >= s.bc.lowestLevel
        /\ Extends(AddVote(s.bc, vote).committed, s.bc.committed)
    BY <1>1, <1>2, StateType, ExtendsReflexive
  <1>4. StepOK(s, s1, r, P, C)
    BY <1>2, <1>3, SetStore, Zenon DEF StepOK
  <1>5. LedgerStep(s, s1)
    <2>1. Keeps(s, s1)
      BY <1>1, HandlersKeep, Zenon
    <2> HIDE DEF s1
    <2> QED
      BY <1>4, <2>1, KeepsStep, Zenon
  <1>6. ProcessVote(s, r, vote) = IF ~IsBuilt(s.bc, vote) THEN s1
                                  ELSE IF ~HasBlock(s1.bc, qc.id) THEN BufferQC(s1, qc)
                                  ELSE ProcessCertificate(s1, r, qc)
    BY Zenon DEF ProcessVote
  <1> HIDE DEF s1, qc
  <1>7. ReplicaOK(s1, r, P, C) /\ LedgerOK(s1) /\ s1 \in HotStuffState
    BY <1>4, <1>5, Zenon DEF StepOK, LedgerStep, ReplicaOK
  <1>8. ASSUME IsBuilt(s.bc, vote)
        PROVE  /\ LedgerStep(s, BufferQC(s1, qc))
               /\ LedgerStep(s, ProcessCertificate(s1, r, qc))
    <2>1. /\ StepOK(s1, BufferQC(s1, qc), r, P, C)
          /\ StepOK(s1, ProcessCertificate(s1, r, qc), r, P, C)
      BY <1>2, <1>7, <1>8, BufferQCOK, ProcessCertificateOK, Zenon
    <2>2. Keeps(s1, BufferQC(s1, qc))
      BY <1>7, HandlersKeep, Zenon
    <2>3. LedgerStep(s1, BufferQC(s1, qc))
      BY <1>7, <2>1, <2>2, KeepsStep, Zenon
    <2>4. LedgerStep(s1, ProcessCertificate(s1, r, qc))
      BY <1>2, <1>7, <1>8, ProcessCertificateLedger, Zenon
    <2> QED
      BY <1>4, <1>5, <2>1, <2>3, <2>4, LedgerSteps, Zenon
  <1> QED
    BY <1>5, <1>6, <1>8, Zenon

\* The QC of a proposed block.
LEMMA ProcessBlockQCLedger ==
    ASSUME NEW P, NEW C, ChainOK(P, C), OrderOK(P, C), NEW r,
           NEW s, ReplicaOK(s, r, P, C), LedgerOK(s), NEW b \in P
    PROVE  LedgerStep(s, ProcessBlockQC(s, r, b))
  <1> DEFINE s1 == UpdateHighQC(s, QCOf(b))
  <1>1. QCOf(b) \in QC /\ Backed(QCOf(b), P, C) /\ s \in HotStuffState
    BY BlockType, Zenon DEF ChainOK, ReplicaOK
  <1>2. StepOK(s, s1, r, P, C) /\ Keeps(s, s1)
    BY <1>1, UpdateHighQCOK, HandlersKeep, Zenon DEF StepOK
  <1>3. ProcessBlockQC(s, r, b) = IF ProposerOf(b) = r THEN s1
                                  ELSE ProcessCertificate(s1, r, QCOf(b))
    BY Zenon DEF ProcessBlockQC
  <1> HIDE DEF s1
  <1>4. LedgerStep(s, s1)
    BY <1>2, KeepsStep, Zenon
  <1>5. ReplicaOK(s1, r, P, C) /\ LedgerOK(s1)
    BY <1>2, <1>4, Zenon DEF StepOK, LedgerStep
  <1>6. /\ StepOK(s1, ProcessCertificate(s1, r, QCOf(b)), r, P, C)
        /\ LedgerStep(s1, ProcessCertificate(s1, r, QCOf(b)))
    BY <1>1, <1>5, ProcessCertificateOK, ProcessCertificateLedger, Zenon
  <1>7. LedgerStep(s, ProcessCertificate(s1, r, QCOf(b)))
    BY <1>2, <1>4, <1>6, LedgerSteps, Zenon
  <1> QED
    BY <1>3, <1>4, <1>7, Zenon

\* AddBlock of a proposed block, and the QC buffered for it.
LEMMA StoreBlockLedger ==
    ASSUME NEW P, NEW C, ChainOK(P, C), OrderOK(P, C), NEW r,
           NEW s, ReplicaOK(s, r, P, C), LedgerOK(s), NEW b \in P
    PROVE  LedgerStep(s, StoreBlock(s, r, b))
  <1> DEFINE s1 == [s EXCEPT !.bc = AddBlock(@, b)]
             qc == CHOOSE q \in s1.bufferedQCs : q.id = b
             s2 == ProcessCertificate(s1, r, qc)
             s3 == [s2 EXCEPT !.bufferedQCs = {q \in @ : q.id # b}]
  <1>1. StoreOK(s.bc, P, C) /\ s \in HotStuffState
    BY Zenon DEF ReplicaOK
  <1>2. /\ StoreOK(AddBlock(s.bc, b), P, C)
        /\ AddBlock(s.bc, b).lowestLevel = s.bc.lowestLevel
        /\ AddBlock(s.bc, b).committed = s.bc.committed
    BY <1>1, AddBlockOK
  <1>3. /\ AddBlock(s.bc, b).lowestLevel >= s.bc.lowestLevel
        /\ Extends(AddBlock(s.bc, b).committed, s.bc.committed)
    BY <1>1, <1>2, StateType, ExtendsReflexive
  <1>4. StepOK(s, s1, r, P, C) /\ Keeps(s, s1)
    BY <1>1, <1>2, <1>3, SetStore, HandlersKeep, Zenon DEF StepOK
  <1>5. StoreBlock(s, r, b) = IF \E q \in s1.bufferedQCs : q.id = b THEN s3 ELSE s1
    BY Zenon DEF StoreBlock
  <1> HIDE DEF s1
  <1>6. LedgerStep(s, s1)
    BY <1>4, KeepsStep, Zenon
  <1>7. ASSUME \E q \in s1.bufferedQCs : q.id = b
        PROVE  LedgerStep(s, s3)
    <2>1. ReplicaOK(s1, r, P, C) /\ LedgerOK(s1)
      BY <1>4, <1>6, Zenon DEF StepOK, LedgerStep
    <2>2. qc \in s1.bufferedQCs
      BY <1>7, Zenon
    <2> HIDE DEF qc
    <2>3. qc \in QC /\ Backed(qc, P, C)
      <3>1. s1.bufferedQCs \subseteq QC
        BY <2>1, Zenon DEF ReplicaOK, HotStuffState
      <3> QED
        BY <2>1, <2>2, <3>1, Zenon DEF ReplicaOK
    <2>4. StepOK(s1, s2, r, P, C) /\ LedgerStep(s1, s2)
      BY <2>1, <2>3, ProcessCertificateOK, ProcessCertificateLedger, Zenon
    <2> HIDE DEF s2
    <2>5. ReplicaOK(s2, r, P, C) /\ LedgerOK(s2) /\ s2 \in HotStuffState
      BY <2>4, Zenon DEF StepOK, LedgerStep, ReplicaOK
    <2>6. StepOK(s2, s3, r, P, C) /\ Keeps(s2, s3)
      BY <2>5, UnbufferQCOK, HandlersKeep
    <2> HIDE DEF s3
    <2>7. LedgerStep(s2, s3)
      BY <2>5, <2>6, KeepsStep, Zenon
    <2>8. StepOK(s, s2, r, P, C) /\ LedgerStep(s, s2)
      BY <1>4, <1>6, <2>4, LedgerSteps, StepOKTransitive, Zenon
    <2> QED
      BY <2>6, <2>7, <2>8, LedgerSteps, Zenon
  <1> QED
    BY <1>5, <1>6, <1>7, Zenon

\* ProcessRemoteTmo.
LEMMA ProcessRemoteTmoLedger ==
    ASSUME NEW P, NEW C, ChainOK(P, C), OrderOK(P, C), NEW r,
           NEW s, ReplicaOK(s, r, P, C), LedgerOK(s),
           NEW tmo \in TMO, Backed(tmo.highQC, P, C)
    PROVE  LedgerStep(s, ProcessRemoteTmo(s, r, tmo))
  <1> DEFINE s1 == ProcessCertificate(s, r, tmo.highQC)
             s2 == [s1 EXCEPT !.pm = AddTmo(@, tmo.view, tmo.node)]
             s3 == [s2 EXCEPT !.pm = AdvanceView(@, r, tmo.view)]
  <1>1. tmo.view \in Nat /\ tmo.node \in Replica /\ tmo.highQC \in QC
    BY Zenon DEF TMO
  <1>2. StepOK(s, s1, r, P, C) /\ LedgerStep(s, s1)
    BY <1>1, ProcessCertificateOK, ProcessCertificateLedger, Zenon
  <1>3. ProcessRemoteTmo(s, r, tmo) = IF TCIsBuilt(s1.pm, tmo.view, tmo.node)
                                      THEN s3 ELSE s2
    BY Zenon DEF ProcessRemoteTmo, ProcessTC
  <1> HIDE DEF s1
  <1>4. ReplicaOK(s1, r, P, C) /\ LedgerOK(s1) /\ s1 \in HotStuffState
    BY <1>2, Zenon DEF StepOK, LedgerStep, ReplicaOK
  <1>5. StepOK(s1, s2, r, P, C) /\ Keeps(s1, s2)
    <2>1. PacemakerOK(s1.pm, r, P)
      BY <1>4, Zenon DEF ReplicaOK
    <2>2. /\ PacemakerOK(AddTmo(s1.pm, tmo.view, tmo.node), r, P)
          /\ AddTmo(s1.pm, tmo.view, tmo.node).curView >= s1.pm.curView
      BY <1>1, <2>1, AddTmoOK, Zenon
    <2> QED
      BY <1>4, <2>2, SetPacemaker, HandlersKeep, Zenon DEF StepOK
  <1> HIDE DEF s2
  <1>6. LedgerStep(s1, s2)
    BY <1>4, <1>5, KeepsStep, Zenon
  <1>7. ReplicaOK(s2, r, P, C) /\ LedgerOK(s2) /\ s2 \in HotStuffState
    BY <1>5, <1>6, Zenon DEF StepOK, LedgerStep, ReplicaOK
  <1>8. StepOK(s2, s3, r, P, C) /\ Keeps(s2, s3)
    BY <1>1, <1>7, EnterView, HandlersKeep, Zenon
  <1> HIDE DEF s3
  <1>9. LedgerStep(s2, s3)
    BY <1>7, <1>8, KeepsStep, Zenon
  <1>10. StepOK(s, s2, r, P, C) /\ LedgerStep(s, s2)
    BY <1>2, <1>5, <1>6, LedgerSteps, StepOKTransitive, Zenon
  <1>11. LedgerStep(s, s3)
    BY <1>8, <1>9, <1>10, LedgerSteps, Zenon
  <1> QED
    BY <1>3, <1>10, <1>11, Zenon

-----------------------------------------------------------------------------
(* The order of views *)

\* With two replicas or more, two super majorities have two members in common.
LEMMA TwoInCommon ==
    ASSUME Counting, NEW A \in SUBSET Replica, NEW B \in SUBSET Replica,
           SuperMajority(A), SuperMajority(B), N > 1, NEW x
    PROVE  \E q \in A \intersect B : q # x
  <1> DEFINE a == Cardinality(A)
             b == Cardinality(B)
             i == Cardinality(A \intersect B)
             u == Cardinality(A \union B)
             m == (N * 2) \div 3
  <1>1. /\ IsFiniteSet(A) /\ IsFiniteSet(B) /\ IsFiniteSet(A \intersect B)
        /\ a \in Nat /\ b \in Nat /\ i \in Nat /\ u \in Nat /\ u <= N
    <2>1. A \intersect B \in SUBSET Replica /\ A \union B \in SUBSET Replica
      BY Zenon
    <2> QED
      BY <2>1, VotersFinite, Zenon
  <1>2. u = a + b - i
    BY <1>1, Zenon DEF Counting, UnionSize
  <1>3. a > m /\ b > m
    BY Zenon DEF SuperMajority
  <1>4. m \in Nat /\ 3 * m + 3 > N * 2
    BY NAssumption
  <1> SUFFICES ASSUME A \intersect B \subseteq {x} PROVE FALSE
    BY Zenon
  <1>5. i <= 1
    <2>1. IsFiniteSet({x}) /\ Cardinality({x}) = 1
      BY Zenon DEF Counting, SmallSize
    <2> QED
      BY <2>1, Zenon DEF Counting, SubsetSize
  <1> HIDE DEF a, b, i, u, m
  <1> QED
    BY <1>1, <1>2, <1>3, <1>4, <1>5, NAssumption

\* A certified block has a later view than its parent.
LEMMA CertifiedOrder ==
    ASSUME NEW P, NEW C, ChainOK(P, C), NEW b \in P, Witnessed(b, C), OwnParent(b),
           SuperMajority(Voters(C, b)), QCOf(b) # InitialQC
    PROVE  QCOf(b).view < ViewOf(b)
  <1>1. CASE ProposerOf(PrevID(b)) = ProposerOf(b)
    BY <1>1, Zenon DEF OwnParent
  <1>2. CASE ProposerOf(PrevID(b)) # ProposerOf(b)
    <2>1. b \in Block /\ PrevID(b) \in Block /\ C \in SUBSET Vote
      <3>1. b \in Block /\ Backed(QCOf(b), P, C) /\ QCOf(b).id = PrevID(b)
        BY BlockType, Zenon DEF ChainOK
      <3> QED
        BY <3>1, Zenon DEF ChainOK, Backed
    <2>2. ProposerOf(b) \in 1..N /\ ProposerOf(PrevID(b)) \in 1..N
      BY <2>1, BlockType, Zenon DEF Replica
    <2>3. N > 1
      BY <1>2, <2>2, NAssumption
    <2>4. PICK Q \in SUBSET Voters(C, PrevID(b)) :
                /\ SuperMajority(Q)
                /\ \A q \in Q : q \in Voters(C, b) /\ q # ProposerOf(b)
                                    => QCOf(b).view < ViewOf(b)
      BY Zenon DEF Witnessed
    <2>5. Q \in SUBSET Replica /\ Voters(C, b) \in SUBSET Replica
      BY <2>1, VotersInReplica, Zenon
    <2>6. PICK q \in Q \intersect Voters(C, b) : q # ProposerOf(b)
      BY <2>3, <2>4, <2>5, TwoInCommon DEF ChainOK
    <2> QED
      BY <2>4, <2>6, Zenon
  <1> QED
    BY <1>1, <1>2, Zenon

\* Where a block has become certified, the views on its chain ascend.
LEMMA NewlyCertified ==
    ASSUME NEW P, NEW C, ChainOK(P, C), OrderOK(P, C),
           NEW D, ChainOK(P, D), NEW b \in P, Witnessed(b, D), OwnParent(b),
           SuperMajority(Voters(D, b))
    PROVE  Descends(b)
  <1> DEFINE p == PrevID(b)
             L == Len(b)
  <1>1. /\ b \in Block /\ L \in Nat \ {0} /\ ViewOf(b) \in Nat
        /\ Backed(QCOf(b), P, C) /\ QCOf(b).id = p
    BY BlockType, Zenon DEF ChainOK
  <1>2. /\ Len(p) = L - 1
        /\ \A h \in 1..(L - 1) : AtHeight(p, h) = AtHeight(b, h)
    BY <1>1, ParentChain, Zenon
  <1>3. CASE QCOf(b) = InitialQC
    <2>1. L - 1 = 0
      <3>1. p = << >>
        BY <1>1, <1>3 DEF InitialQC, ZeroID
      <3>2. Len(p) = 0
        BY <3>1
      <3> QED
        BY <1>2, <3>2, Zenon
    <2> HIDE DEF L
    <2>2. 1..(L - 1) = {}
      BY <1>1, <2>1
    <2> QED
      BY <2>2, Zenon DEF Descends, L
  <1>4. CASE QCOf(b) # InitialQC
    <2>1. p \in P /\ QCOf(b).view = ViewOf(p) /\ SuperMajority(Voters(C, p))
      BY <1>1, <1>4, Zenon DEF Backed
    <2>2. ViewOf(p) < ViewOf(b)
      BY <1>4, <2>1, CertifiedOrder, Zenon
    <2>3. Descends(p) /\ p \in Block /\ ViewOf(p) \in Nat
      BY <2>1, BlockType, Zenon DEF OrderOK, ChainOK
    <2> SUFFICES ASSUME NEW h \in 1..(L - 1) PROVE ViewOf(AtHeight(b, h)) < ViewOf(b)
      BY Zenon DEF Descends
    <2> HIDE DEF p, L
    <2>4. CASE h = L - 1
      <3>1. AtHeight(p, Len(p)) = p
        BY <1>1, <1>2, <2>3, <2>4, Ancestors, Zenon
      <3> QED
        BY <1>2, <2>2, <2>4, <3>1, Zenon
    <2>5. CASE h # L - 1
      <3>1. h \in 1..(Len(p) - 1) /\ h \in 1..Len(p)
        BY <1>1, <1>2, <2>5
      <3>2. AtHeight(p, h) \in Block
        BY <2>3, <3>1, Ancestors, Zenon
      <3>3. ViewOf(AtHeight(p, h)) < ViewOf(p) /\ ViewOf(AtHeight(p, h)) \in Nat
        BY <2>3, <3>1, <3>2, BlockType, Zenon DEF Descends
      <3>4. AtHeight(p, h) = AtHeight(b, h)
        BY <1>2, Zenon
      <3> QED
        BY <1>1, <2>2, <2>3, <3>3, <3>4
    <2> QED
      BY <2>4, <2>5, Zenon
  <1> QED
    BY <1>3, <1>4, Zenon

\* A replica that has voted for the parent of b and now votes for b, of another
\* proposer, is led by b's QC to a view that is not later than b's.
LEMMA VotedLater ==
    ASSUME NEW P, NEW C, ChainOK(P, C), NEW r,
           NEW s, ReplicaOK(s, r, P, C), VoterOK(s, r, C),
           NEW b \in P, \A a \in P : ViewOf(a) = ViewOf(b) => a = b,
           QCOf(b) # InitialQC, r \in Voters(C, PrevID(b)), ProposerOf(b) # r,
           ViewOf(b) >= ProcessBlockQC(s, r, b).pm.curView
    PROVE  QCOf(b).view < ViewOf(b)
  <1> DEFINE qc == QCOf(b)
             w  == qc.view
             v  == ViewOf(b)
             s1 == UpdateHighQC(s, qc)
             t  == ProcessBlockQC(s, r, b)
  <1>1. /\ b \in Block /\ v \in Nat /\ qc \in QC /\ w \in Nat /\ qc.id = PrevID(b)
        /\ Backed(qc, P, C)
    BY BlockType, Zenon DEF ChainOK, QC
  <1>2. qc.id \in P /\ w = ViewOf(qc.id)
    BY <1>1, Zenon DEF Backed
  <1>3. /\ s \in HotStuffState /\ s.pm.curView \in Nat
        /\ StepOK(s, s1, r, P, C) /\ s1.pm = s.pm /\ s1.bc = s.bc
    <2>1. s \in HotStuffState /\ StepOK(s, s1, r, P, C)
      BY <1>1, UpdateHighQCOK, Zenon DEF StepOK, ReplicaOK
    <2>2. s1.pm = s.pm /\ s1.bc = s.bc
      BY <2>1, Zenon DEF UpdateHighQC, HotStuffState
    <2> QED
      BY <2>1, <2>2, StateType, Zenon
  <1>4. t = ProcessCertificate(s1, r, qc)
    BY Zenon DEF ProcessBlockQC
  <1>5. ReplicaOK(s1, r, P, C) /\ s1 \in HotStuffState
    BY <1>3, Zenon DEF StepOK, ReplicaOK
  <1> HIDE DEF s1, t
  <1>6. /\ t.pm.curView \in Nat /\ t.pm.curView >= s.pm.curView
    <2>1. StepOK(s1, t, r, P, C)
      BY <1>1, <1>4, <1>5, ProcessCertificateOK, Zenon
    <2>2. t \in HotStuffState /\ t.pm.curView >= s1.pm.curView
      BY <2>1, Zenon DEF StepOK, ReplicaOK, Grows
    <2> QED
      BY <1>3, <2>2, StateType, Zenon
  <1>7. v >= t.pm.curView
    BY Zenon DEF t
  <1>8. PICK x \in C : x.voter = r /\ x.id = PrevID(b)
    BY Zenon DEF Voters
  <1>9. x.view = w
    BY <1>1, <1>2, <1>8, Zenon DEF ChainOK
  <1>10. w >= 3 => HasParent(s.bc, PrevID(b)) \/ w <= s.pm.curView
    BY <1>8, <1>9, Zenon DEF VoterOK
  <1>11. w # v
    <2> SUFFICES ASSUME w = v PROVE FALSE
      BY Zenon
    <2>1. qc.id = b
      BY <1>2, Zenon
    <2> QED
      BY <1>1, <2>1, NotOwnParent, Zenon
  <1> SUFFICES ASSUME ~(w < v) PROVE FALSE
    BY Zenon
  <1> HIDE DEF qc, w, v
  <1>12. v < w /\ s.pm.curView <= w /\ s.pm.curView < w
    BY <1>1, <1>3, <1>6, <1>7, <1>11
  <1>13. CanUpdatePreferredView(s1, qc)
    BY <1>1, <1>3, <1>10, <1>12 DEF CanUpdatePreferredView, w
  <1>14. t = AdoptCertificate(UpdatePreferredView(s1, qc), r, qc)
    <2>1. ~(qc.view < s1.pm.curView)
      BY <1>1, <1>3, <1>12 DEF w
    <2> QED
      BY <1>4, <1>13, <2>1, Zenon DEF ProcessCertificate
  <1>15. t.pm.curView = w + 1
    BY <1>1, <1>3, <1>5, <1>12, <1>13, <1>14, AdoptView, Zenon DEF w
  <1> QED
    BY <1>1, <1>7, <1>12, <1>15

\* Votes for other blocks make no difference to the voters of a block.
LEMMA VotersOfOthers ==
    ASSUME NEW C, NEW v, NEW id
    PROVE  /\ Voters(C, id) \subseteq Voters(C \union {v}, id)
           /\ \A q \in Voters(C \union {v}, id) :
                q \in Voters(C, id) \/ (v.id = id /\ q = v.voter)
  BY Zenon DEF Voters

\* A vote keeps the order of views.
LEMMA CastOrder ==
    ASSUME NEW P, NEW C, ChainOK(P, C), OrderOK(P, C), NEW r \in Replica,
           NEW s, ReplicaOK(s, r, P, C), VoterOK(s, r, C),
           NEW b \in P, \A a \in P : ViewOf(a) = ViewOf(b) => a = b,
           ViewOf(b) >= ProcessBlockQC(s, r, b).pm.curView
    PROVE  OrderOK(P, C \union {MakeVote(ViewOf(b), r, b)})
  <1> DEFINE v == MakeVote(ViewOf(b), r, b)
             D == C \union {v}
  <1>1. ChainOK(P, D)
    BY CastOK, Zenon
  <1>2. v.id = b /\ v.voter = r
    BY Zenon DEF MakeVote
  <1> HIDE DEF v
  <1>3. \A id : Voters(C, id) \subseteq Voters(D, id)
    BY VotersOfOthers, Zenon
  <1>4. \A id : \A q \in Voters(D, id) : q \in Voters(C, id) \/ (id = b /\ q = r)
    BY <1>2, VotersOfOthers, Zenon
  <1> HIDE DEF D
  <1>5. ASSUME NEW x \in P PROVE Witnessed(x, D)
    <2> SUFFICES ASSUME QCOf(x) # InitialQC
                 PROVE  \E Q \in SUBSET Voters(D, PrevID(x)) :
                            /\ SuperMajority(Q)
                            /\ \A q \in Q : q \in Voters(D, x) /\ q # ProposerOf(x)
                                                => QCOf(x).view < ViewOf(x)
      BY Zenon DEF Witnessed
    <2>1. PICK Q \in SUBSET Voters(C, PrevID(x)) :
                /\ SuperMajority(Q)
                /\ \A q \in Q : q \in Voters(C, x) /\ q # ProposerOf(x)
                                    => QCOf(x).view < ViewOf(x)
      BY Zenon DEF OrderOK, Witnessed
    <2>2. Q \in SUBSET Voters(D, PrevID(x))
      BY <1>3, Zenon
    <2>3. ASSUME NEW q \in Q, q \in Voters(D, x), q # ProposerOf(x)
          PROVE  QCOf(x).view < ViewOf(x)
      <3>1. CASE q \in Voters(C, x)
        BY <2>1, <2>3, <3>1, Zenon
      <3>2. CASE x = b /\ q = r
        <4>1. r \in Voters(C, PrevID(b)) /\ ProposerOf(b) # r /\ QCOf(b) # InitialQC
          BY <2>3, <3>2, Zenon
        <4> QED
          BY <3>2, <4>1, VotedLater, Zenon
      <3> QED
        BY <1>4, <2>3, <3>1, <3>2, Zenon
    <2> QED
      BY <2>1, <2>2, <2>3, Zenon
  <1>6. ASSUME NEW x \in P, SuperMajority(Voters(D, x)) PROVE Descends(x)
    <2>1. OwnParent(x) /\ Witnessed(x, D)
      BY <1>5, Zenon DEF OrderOK
    <2> QED
      BY <1>1, <1>6, <2>1, NewlyCertified, Zenon
  <1>7. OrderOK(P, D)
    BY <1>5, <1>6, Zenon DEF OrderOK
  <1> QED
    BY <1>7, Zenon DEF D, v

\* A new block keeps the order of views.
LEMMA ProposeOrder ==
    ASSUME NEW P, NEW C, ChainOK(P, C), OrderOK(P, C), NEW b,
           ChainOK(P \union {b}, C), Backed(QCOf(b), P, C), b \notin P,
           \A a \in P : ProposerOf(a) = ProposerOf(b) => ViewOf(a) < ViewOf(b)
    PROVE  OrderOK(P \union {b}, C)
  <1>1. /\ b \in Block /\ QCOf(b).id = PrevID(b)
        /\ C \in SUBSET Vote
    BY BlockType, Zenon DEF ChainOK
  <1>2. Voters(C, b) = {}
    BY Zenon DEF ChainOK, Voters
  <1>3. ~SuperMajority(Voters(C, b))
    <2>1. Cardinality({}) = 0 /\ (N * 2) \div 3 \in Nat
      BY NAssumption DEF ChainOK, Counting, SmallSize
    <2> QED
      BY <1>2, <2>1 DEF SuperMajority
  <1>4. Witnessed(b, C)
    <2> SUFFICES ASSUME QCOf(b) # InitialQC
                 PROVE  \E Q \in SUBSET Voters(C, PrevID(b)) :
                            /\ SuperMajority(Q)
                            /\ \A q \in Q : q \in Voters(C, b) /\ q # ProposerOf(b)
                                                => QCOf(b).view < ViewOf(b)
      BY Zenon DEF Witnessed
    <2>1. SuperMajority(Voters(C, PrevID(b)))
      BY <1>1, Zenon DEF Backed
    <2> QED
      BY <1>2, <2>1, Zenon
  <1>5. OwnParent(b)
    BY <1>1, Zenon DEF OwnParent, Backed
  <1> QED
    BY <1>3, <1>4, <1>5, Zenon DEF OrderOK

-----------------------------------------------------------------------------
(* Steps *)

\* The new conjuncts of the inductive invariant.
LedgerInv ==
    /\ OrderOK(proposals, cast)
    /\ \A r \in Replica : LedgerOK(hs[r]) /\ VoterOK(hs[r], r, cast)

\* ProcessBlock of a proposed block, with the vote it casts.
LEMMA ProcessBlockLedger ==
    ASSUME NEW P, ChainOK(P, cast), OrderOK(P, cast), NEW r \in Replica,
           NEW s, ReplicaOK(s, r, P, cast), LedgerOK(s), VoterOK(s, r, cast),
           NEW b \in P, \A a \in P : ViewOf(a) = ViewOf(b) => a = b,
           NEW nested, ProcessBlock(r, s, b, nested)
    PROVE  /\ OrderOK(P, cast')
           /\ \A v \in cast' \ cast : v.voter = r
           /\ \E t : /\ hs' = [hs EXCEPT ![r] = t]
                     /\ LedgerOK(t) /\ VoterOK(t, r, cast')
  <1> DEFINE s1   == ProcessBlockQC(s, r, b)
             s2   == StoreBlock(s1, r, b)
             vote == MakeVote(ViewOf(b), r, b)
             s3   == ProcessVote(s2, r, vote)
  <1>1. \/ /\ hs' = [hs EXCEPT ![r] = Return(BufferBlock(s, b), b, nested)]
           /\ UNCHANGED cast
        \/ /\ hs' = [hs EXCEPT ![r] = Return(s1, b, nested)]
           /\ UNCHANGED cast
        \/ /\ hs' = [hs EXCEPT ![r] = Return(s2, b, nested)]
           /\ UNCHANGED cast
        \/ /\ cast' = cast \union {vote}
           /\ ViewOf(b) <= s.pm.curView + 1 /\ ViewOf(b) >= s1.pm.curView
           /\ VotingRule(s2, b)
           /\ \/ hs' = [hs EXCEPT ![r] = Return(NextBuffered(s3, b), b, nested)]
              \/ hs' = [hs EXCEPT ![r] = Return(NextBuffered(s2, b), b, nested)]
    BY Zenon DEF ProcessBlock
  <1>2. /\ StepOK(s, s1, r, P, cast) /\ LedgerStep(s, s1)
        /\ ReplicaOK(s1, r, P, cast) /\ LedgerOK(s1)
    BY ProcessBlockQCOK, ProcessBlockQCLedger, Zenon DEF StepOK, LedgerStep
  <1> HIDE DEF s2
  <1>3. /\ StepOK(s, s2, r, P, cast) /\ LedgerStep(s, s2)
        /\ ReplicaOK(s2, r, P, cast) /\ LedgerOK(s2)
    <2> HIDE DEF s1
    <2>1. StepOK(s1, s2, r, P, cast) /\ LedgerStep(s1, s2)
      BY <1>2, StoreBlockOK, StoreBlockLedger, Zenon DEF s2
    <2>2. StepOK(s, s2, r, P, cast) /\ LedgerStep(s, s2)
      BY <1>2, <2>1, LedgerSteps, StepOKTransitive, Zenon
    <2> QED
      BY <2>2, Zenon DEF StepOK, LedgerStep
  <1> HIDE DEF s3
  <1>4. \A C, t : ChainOK(P, C) /\ ReplicaOK(t, r, P, C) /\ LedgerOK(t)
                    /\ VoterOK(t, r, C)
                => LET u == Return(t, b, nested)
                       w == NextBuffered(t, b)
                   IN  /\ LedgerOK(u) /\ VoterOK(u, r, C)
                       /\ LedgerOK(w) /\ VoterOK(w, r, C) /\ ReplicaOK(w, r, P, C)
    <2> SUFFICES ASSUME NEW C, NEW t, ChainOK(P, C), ReplicaOK(t, r, P, C), LedgerOK(t),
                        VoterOK(t, r, C)
                 PROVE  LET u == Return(t, b, nested)
                            w == NextBuffered(t, b)
                        IN  /\ LedgerOK(u) /\ VoterOK(u, r, C)
                            /\ LedgerOK(w) /\ VoterOK(w, r, C) /\ ReplicaOK(w, r, P, C)
      BY Zenon
    <2> DEFINE u == Return(t, b, nested)
               w == NextBuffered(t, b)
    <2>1. /\ t \in HotStuffState /\ C \in SUBSET Vote
          /\ StepOK(t, u, r, P, C) /\ StepOK(t, w, r, P, C)
          /\ Keeps(t, u) /\ Keeps(t, w)
      BY ReturnOK, NextBufferedOK, HandlersKeep, Zenon DEF ReplicaOK, ChainOK
    <2> HIDE DEF u, w
    <2>2. LedgerStep(t, u) /\ LedgerStep(t, w)
      BY <2>1, KeepsStep, Zenon
    <2>3. u \in HotStuffState /\ w \in HotStuffState /\ ReplicaOK(w, r, P, C)
      BY <2>1, Zenon DEF StepOK, ReplicaOK
    <2>4. VoterOK(u, r, C) /\ VoterOK(w, r, C)
      BY <2>1, <2>2, <2>3, VoterMoves, Zenon DEF LedgerStep
    <2> QED
      BY <2>2, <2>3, <2>4, Zenon DEF LedgerStep, u, w
  <1>5. cast \in SUBSET Vote /\ s \in HotStuffState
    BY Zenon DEF ChainOK, ReplicaOK
  <1>6. \A t : /\ StepOK(s, t, r, P, cast) /\ LedgerStep(s, t)
               /\ hs' = [hs EXCEPT ![r] = Return(t, b, nested)]
               /\ cast' = cast
               => /\ OrderOK(P, cast')
                  /\ \A v \in cast' \ cast : v.voter = r
                  /\ \E u : /\ hs' = [hs EXCEPT ![r] = u]
                            /\ LedgerOK(u) /\ VoterOK(u, r, cast')
    <2> SUFFICES ASSUME NEW t, StepOK(s, t, r, P, cast), LedgerStep(s, t),
                        hs' = [hs EXCEPT ![r] = Return(t, b, nested)], cast' = cast
                 PROVE  \E u : /\ hs' = [hs EXCEPT ![r] = u]
                               /\ LedgerOK(u) /\ VoterOK(u, r, cast')
      BY Zenon
    <2>1. t \in HotStuffState /\ ReplicaOK(t, r, P, cast) /\ LedgerOK(t) /\ Moves(s, t)
      BY Zenon DEF StepOK, ReplicaOK, LedgerStep
    <2>2. VoterOK(t, r, cast)
      BY <1>5, <2>1, VoterMoves, Zenon
    <2>3. LedgerOK(Return(t, b, nested)) /\ VoterOK(Return(t, b, nested), r, cast)
      BY <1>4, <2>1, <2>2, Zenon
    <2>4. VoterOK(Return(t, b, nested), r, cast')
      BY <2>3, Zenon
    <2> QED
      BY <2>3, <2>4, Zenon
  <1>7. CASE /\ hs' = [hs EXCEPT ![r] = Return(BufferBlock(s, b), b, nested)]
             /\ UNCHANGED cast
    <2>1. StepOK(s, BufferBlock(s, b), r, P, cast) /\ Keeps(s, BufferBlock(s, b))
      BY <1>5, BufferBlockOK, HandlersKeep, Zenon
    <2>2. LedgerStep(s, BufferBlock(s, b))
      BY <2>1, KeepsStep, Zenon
    <2> QED
      BY <1>6, <1>7, <2>1, <2>2, Zenon
  <1> HIDE DEF s1
  <1>8. CASE /\ hs' = [hs EXCEPT ![r] = Return(s1, b, nested)]
             /\ UNCHANGED cast
    BY <1>2, <1>6, <1>8, Zenon
  <1>9. CASE /\ hs' = [hs EXCEPT ![r] = Return(s2, b, nested)]
             /\ UNCHANGED cast
    BY <1>3, <1>6, <1>9, Zenon
  <1>10. CASE /\ cast' = cast \union {vote}
              /\ ViewOf(b) <= s.pm.curView + 1 /\ ViewOf(b) >= s1.pm.curView
              /\ VotingRule(s2, b)
              /\ \/ hs' = [hs EXCEPT ![r] = Return(NextBuffered(s3, b), b, nested)]
                 \/ hs' = [hs EXCEPT ![r] = Return(NextBuffered(s2, b), b, nested)]
    <2>1. ChainOK(P, cast') /\ vote \in cast' /\ cast' \in SUBSET Vote
      BY <1>10, CastOK, Zenon DEF ChainOK
    <2>2. OrderOK(P, cast')
      BY <1>10, CastOrder, Zenon DEF s1
    <2>3. vote.voter = r /\ vote.id = b /\ vote.view = ViewOf(b)
      BY Zenon DEF MakeVote
    <2> HIDE DEF vote
    <2>4. \A v \in cast' \ cast : v.voter = r
      BY <1>10, <2>3, Zenon
    <2>5. ReplicaOK(s2, r, P, cast')
      BY <1>3, <1>10, <2>1, ReplicaMonotone, Zenon DEF ChainOK
    <2>6. VoterOK(s2, r, cast')
      <3>1. VoterOK(s2, r, cast) /\ s2 \in HotStuffState
        BY <1>3, <1>5, VoterMoves, Zenon DEF LedgerStep, ReplicaOK
      <3>2. ViewOf(b) <= s2.pm.curView + 1
        <4>1. s2.pm.curView >= s.pm.curView
          BY <1>3, Zenon DEF LedgerStep, Moves
        <4>2. ViewOf(b) \in Nat /\ s.pm.curView \in Nat /\ s2.pm.curView \in Nat
          BY <1>5, <3>1, StateType, BlockType, Zenon DEF ChainOK
        <4> QED
          BY <1>10, <4>1, <4>2
      <3>3. ViewOf(b) >= 3 => HasParent(s2.bc, b)
        BY <1>10, BlockType DEF VotingRule, ChainOK
      <3> QED
        BY <1>10, <2>3, <3>1, <3>2, <3>3, Zenon DEF VoterOK
    <2>7. /\ StepOK(s2, s3, r, P, cast') /\ LedgerStep(s2, s3)
          /\ ReplicaOK(s3, r, P, cast') /\ LedgerOK(s3)
      <3>1. StepOK(s2, s3, r, P, cast') /\ LedgerStep(s2, s3)
        BY <1>3, <2>1, <2>2, <2>5, ProcessVoteOK, ProcessVoteLedger, Zenon DEF s3
      <3> QED
        BY <3>1, Zenon DEF StepOK, LedgerStep
    <2>8. VoterOK(s3, r, cast')
      BY <2>1, <2>5, <2>6, <2>7, VoterMoves, Zenon DEF LedgerStep, ReplicaOK
    <2>9. \A t : ReplicaOK(t, r, P, cast') /\ LedgerOK(t) /\ VoterOK(t, r, cast')
                 => LET u == Return(NextBuffered(t, b), b, nested)
                    IN  LedgerOK(u) /\ VoterOK(u, r, cast')
      BY <1>4, <2>1, Zenon
    <2>10. \E t : /\ hs' = [hs EXCEPT ![r] = t]
                  /\ LedgerOK(t) /\ VoterOK(t, r, cast')
      BY <1>3, <1>10, <2>5, <2>6, <2>7, <2>8, <2>9, Zenon
    <2> QED
      BY <2>2, <2>4, <2>10, Zenon
  <1> QED
    BY <1>1, <1>7, <1>8, <1>9, <1>10, Zenon

\* A step of replica r to state t, with the votes it adds.
LEMMA LedgerReplicaStep ==
    ASSUME IInv, LedgerInv, NEW r \in Replica, NEW t, hs' = [hs EXCEPT ![r] = t],
           LedgerOK(t), VoterOK(t, r, cast'),
           OrderOK(proposals', cast'), \A v \in cast' \ cast : v.voter = r
    PROVE  LedgerInv'
  <1>1. hs'[r] = t /\ \A q \in Replica \ {r} : hs'[q] = hs[q]
    BY Zenon DEF IInv
  <1>2. ASSUME NEW q \in Replica PROVE LedgerOK(hs'[q]) /\ VoterOK(hs'[q], q, cast')
    <2>1. CASE q = r
      BY <1>1, <2>1, Zenon
    <2>2. CASE q # r
      <3>1. hs'[q] = hs[q] /\ LedgerOK(hs[q]) /\ VoterOK(hs[q], q, cast)
        BY <1>1, <2>2, Zenon DEF LedgerInv
      <3>2. VoterOK(hs[q], q, cast')
        BY <2>2, <3>1, Zenon DEF VoterOK
      <3> QED
        BY <3>1, <3>2, Zenon
    <2> QED
      BY <2>1, <2>2, Zenon
  <1> QED
    BY <1>2, Zenon DEF LedgerInv

\* A step that neither proposes nor votes.
LEMMA LedgerQuietStep ==
    ASSUME IInv, LedgerInv, NEW r \in Replica, NEW t, hs' = [hs EXCEPT ![r] = t],
           StepOK(hs[r], t, r, proposals, cast), LedgerStep(hs[r], t),
           UNCHANGED <<proposals, cast>>
    PROVE  LedgerInv'
  <1>1. proposals' = proposals /\ cast' = cast
    BY Zenon
  <1>2. /\ hs[r] \in HotStuffState /\ t \in HotStuffState /\ cast \in SUBSET Vote
        /\ VoterOK(hs[r], r, cast) /\ LedgerOK(t) /\ Moves(hs[r], t)
    BY Zenon DEF IInv, ChainOK, ReplicaOK, StepOK, LedgerStep, LedgerInv
  <1>3. VoterOK(t, r, cast)
    BY <1>2, VoterMoves, Zenon
  <1>4. VoterOK(t, r, cast') /\ OrderOK(proposals', cast')
        /\ \A v \in cast' \ cast : v.voter = r
    BY <1>1, <1>3, Zenon DEF LedgerInv
  <1> QED
    BY <1>2, <1>4, LedgerReplicaStep, Zenon

\* A step that processes block b, proposed in this step or before.
LEMMA LedgerBlockStep ==
    ASSUME IInv, LedgerInv, NEW r \in Replica, NEW s, NEW b \in proposals', NEW nested,
           ProcessBlock(r, s, b, nested),
           ReplicaOK(s, r, proposals', cast), LedgerOK(s), VoterOK(s, r, cast),
           ChainOK(proposals', cast), OrderOK(proposals', cast), NoEquivocation'
    PROVE  LedgerInv'
  <1>1. \A a \in proposals' : ViewOf(a) = ViewOf(b) => a = b
    BY Zenon DEF NoEquivocation
  <1>2. /\ OrderOK(proposals', cast')
        /\ \A v \in cast' \ cast : v.voter = r
        /\ \E t : /\ hs' = [hs EXCEPT ![r] = t]
                  /\ LedgerOK(t) /\ VoterOK(t, r, cast')
    BY <1>1, ProcessBlockLedger, Zenon
  <1> QED
    BY <1>2, LedgerReplicaStep, Zenon

\* What holds at every replica.
LEMMA AtReplica ==
    ASSUME IInv, LedgerInv, NEW r \in Replica
    PROVE  /\ ChainOK(proposals, cast) /\ OrderOK(proposals, cast)
           /\ ReplicaOK(hs[r], r, proposals, cast) /\ hs[r] \in HotStuffState
           /\ LedgerOK(hs[r]) /\ VoterOK(hs[r], r, cast)
           /\ cast \in SUBSET Vote
  BY Zenon DEF IInv, LedgerInv, ChainOK

\* The block of a new view.
LEMMA ProcessNewViewLedger ==
    ASSUME IInv, LedgerInv, NEW r \in Replica, ProcessNewView(r)
    PROVE  LedgerInv'
  <1> DEFINE b == MakeBlock(Head(hs[r].pm.newViews), hs[r].highQC, r, hs[r].proposedNo)
             P == proposals \union {b}
             s == TakeNewView(hs[r])
  <1>1. /\ hs[r].pm.newViews # << >>
        /\ proposals' = P
        /\ ProcessBlock(r, s, b, FALSE)
    BY Zenon DEF ProcessNewView, MakeProposal
  <1>2. /\ ChainOK(P, cast)
        /\ b \in Block /\ ProposerOf(b) = r
        /\ \A a \in proposals : ViewOf(a) # ViewOf(b)
        /\ ReplicaOK(s, r, P, cast)
        /\ Grows(hs[r], s)
    BY <1>1, ProposeOK, Zenon
  <1>3. /\ ReplicaOK(hs[r], r, proposals, cast) /\ hs[r] \in HotStuffState
        /\ LedgerOK(hs[r]) /\ VoterOK(hs[r], r, cast) /\ cast \in SUBSET Vote
        /\ ChainOK(proposals, cast) /\ OrderOK(proposals, cast)
    BY AtReplica, Zenon
  <1>4. ViewOf(b) = hs[r].pm.newViews[1] /\ QCOf(b) = hs[r].highQC
    <2> DEFINE nv == hs[r].pm.newViews
    <2>1. nv \in Seq(Nat) /\ hs[r].highQC \in QC /\ hs[r].proposedNo \in Nat
      BY <1>3, StateType, Zenon DEF HotStuffState, PacemakerState
    <2>2. Head(nv) = nv[1] /\ Head(nv) \in Nat
      BY <1>1, <2>1
    <2>3. \A v \in Nat : LET x == MakeBlock(v, hs[r].highQC, r, hs[r].proposedNo)
                         IN  ViewOf(x) = v /\ QCOf(x) = hs[r].highQC
      BY <2>1, MakeBlockProperties, Zenon
    <2> QED
      BY <2>2, <2>3, Zenon
  <1>5. 1 \in 1..Len(hs[r].pm.newViews)
    <2>1. hs[r].pm.newViews \in Seq(Nat)
      BY <1>3, StateType, Zenon DEF PacemakerState
    <2> QED
      BY <1>1, <2>1
  <1> HIDE DEF b, P, s
  <1>6. OrderOK(P, cast)
    <2>1. b \notin proposals /\ P = proposals \union {b}
      BY <1>2, Zenon DEF P
    <2>2. Backed(QCOf(b), proposals, cast)
      BY <1>3, <1>4, Zenon DEF ReplicaOK
    <2>3. \A a \in proposals : ProposerOf(a) = ProposerOf(b) => ViewOf(a) < ViewOf(b)
      BY <1>2, <1>3, <1>4, <1>5, Zenon DEF ReplicaOK, PacemakerOK
    <2> QED
      BY <1>2, <1>3, <2>1, <2>2, <2>3, ProposeOrder, Zenon
  <1>7. Keeps(hs[r], s) /\ s \in HotStuffState
    <2>1. Tail(hs[r].pm.newViews) \in Seq(Nat)
      <3>1. hs[r].pm.newViews \in Seq(Nat)
        BY <1>3, StateType, Zenon DEF PacemakerState
      <3> QED
        BY <1>1, <3>1
    <2> QED
      BY <1>3, <2>1, TakeNewViewType, Zenon DEF Keeps, s
  <1>8. LedgerOK(s) /\ VoterOK(s, r, cast)
    <2>1. LedgerStep(hs[r], s)
      BY <1>2, <1>3, <1>7, KeepsLedger, Zenon
    <2> QED
      BY <1>3, <1>7, <2>1, VoterMoves, Zenon DEF LedgerStep
  <1>9. NoEquivocation' /\ b \in proposals'
    BY <1>1, <1>2, Zenon DEF IInv, NoEquivocation, P
  <1> QED
    BY <1>1, <1>2, <1>6, <1>8, <1>9, LedgerBlockStep, Zenon

\* The block of another replica.
LEMMA HandleBlockLedger ==
    ASSUME IInv, LedgerInv, NEW r \in Replica, HandleBlock(r)
    PROVE  LedgerInv'
  <1>1. PICK m \in blockMsgs : ProcessBlock(r, hs[r], m[2], FALSE)
    BY Zenon DEF HandleBlock
  <1>2. proposals' = proposals
    BY Zenon DEF HandleBlock
  <1>3. m[2] \in proposals' /\ NoEquivocation'
    BY <1>1, <1>2, Zenon DEF IInv, MessagesOK, NoEquivocation
  <1>4. /\ ChainOK(proposals', cast) /\ OrderOK(proposals', cast)
        /\ ReplicaOK(hs[r], r, proposals', cast)
        /\ LedgerOK(hs[r]) /\ VoterOK(hs[r], r, cast)
    BY <1>2, AtReplica, Zenon
  <1> QED
    BY <1>1, <1>3, <1>4, LedgerBlockStep, Zenon

\* The nested call for a buffered block.
LEMMA ProcessPendingLedger ==
    ASSUME IInv, LedgerInv, NEW r \in Replica, ProcessPending(r)
    PROVE  LedgerInv'
  <1> DEFINE s == [hs[r] EXCEPT !.pending = ZeroID]
             b == hs[r].pending
  <1>1. b # ZeroID /\ ProcessBlock(r, s, b, TRUE) /\ proposals' = proposals
    BY Zenon DEF ProcessPending
  <1>2. /\ ChainOK(proposals, cast) /\ OrderOK(proposals, cast)
        /\ ReplicaOK(hs[r], r, proposals, cast) /\ hs[r] \in HotStuffState
        /\ LedgerOK(hs[r]) /\ VoterOK(hs[r], r, cast) /\ cast \in SUBSET Vote
    BY AtReplica, Zenon
  <1>3. b \in proposals' /\ NoEquivocation'
    BY <1>1, <1>2, Zenon DEF ReplicaOK, IInv, NoEquivocation
  <1>4. StepOK(hs[r], s, r, proposals, cast) /\ Keeps(hs[r], s)
    BY <1>2, SetPending, HandlersKeep, Zenon
  <1> HIDE DEF s, b
  <1>5. LedgerStep(hs[r], s) /\ ReplicaOK(s, r, proposals, cast) /\ s \in HotStuffState
    BY <1>2, <1>4, KeepsStep, Zenon DEF StepOK, ReplicaOK
  <1>6. LedgerOK(s) /\ VoterOK(s, r, cast)
    BY <1>2, <1>5, VoterMoves, Zenon DEF LedgerStep
  <1>7. /\ ChainOK(proposals', cast) /\ OrderOK(proposals', cast)
        /\ ReplicaOK(s, r, proposals', cast)
    BY <1>1, <1>2, <1>5, Zenon
  <1> QED
    BY <1>1, <1>3, <1>6, <1>7, LedgerBlockStep, Zenon

\* The steps that change no replica.
LEMMA MessageLedger ==
    ASSUME LedgerInv, UNCHANGED <<hs, proposals, cast>>
    PROVE  LedgerInv'
  <1>1. hs' = hs /\ proposals' = proposals /\ cast' = cast
    BY Zenon
  <1> QED
    BY <1>1, Zenon DEF LedgerInv

\* The first transaction.
LEMMA HandleTxnLedger ==
    ASSUME IInv, LedgerInv, NEW r \in Replica, HandleTxn(r)
    PROVE  LedgerInv'
  <1> DEFINE t == [hs[r] EXCEPT !.pm = AdvanceView(@, r, 0)]
  <1>1. hs' = [hs EXCEPT ![r] = t] /\ UNCHANGED <<proposals, cast>>
    BY Zenon DEF HandleTxn
  <1>2. /\ ChainOK(proposals, cast) /\ ReplicaOK(hs[r], r, proposals, cast)
        /\ hs[r] \in HotStuffState /\ LedgerOK(hs[r])
    BY AtReplica, Zenon
  <1>3. StepOK(hs[r], t, r, proposals, cast) /\ Keeps(hs[r], t)
    BY <1>2, EnterView, HandlersKeep, Zenon
  <1> HIDE DEF t
  <1>4. LedgerStep(hs[r], t)
    BY <1>2, <1>3, KeepsStep, Zenon
  <1> QED
    BY <1>1, <1>3, <1>4, LedgerQuietStep, Zenon

\* A vote that the event loop takes.
LEMMA VoteEventLedger ==
    ASSUME IInv, LedgerInv, NEW r \in Replica, VoteEvent(r)
    PROVE  LedgerInv'
  <1>1. PICK vote \in heldVotes : hs' = [hs EXCEPT ![r] = ProcessVote(@, r, vote)]
    BY Zenon DEF VoteEvent
  <1>2. /\ ChainOK(proposals, cast) /\ OrderOK(proposals, cast)
        /\ ReplicaOK(hs[r], r, proposals, cast) /\ LedgerOK(hs[r])
    BY AtReplica, Zenon
  <1>3. vote \in cast /\ UNCHANGED <<proposals, cast>>
    BY <1>1, Zenon DEF VoteEvent, IInv, MessagesOK
  <1> DEFINE t == ProcessVote(hs[r], r, vote)
  <1>4. StepOK(hs[r], t, r, proposals, cast) /\ LedgerStep(hs[r], t)
    BY <1>2, <1>3, ProcessVoteOK, ProcessVoteLedger, Zenon
  <1>5. hs' = [hs EXCEPT ![r] = t]
    BY <1>1, Zenon
  <1> HIDE DEF t
  <1> QED
    BY <1>3, <1>4, <1>5, LedgerQuietStep, Zenon

\* A timeout that the event loop takes.
LEMMA TmoEventLedger ==
    ASSUME IInv, LedgerInv, NEW r \in Replica, TmoEvent(r)
    PROVE  LedgerInv'
  <1>1. PICK m \in heldTmos : hs' = [hs EXCEPT ![r] = ProcessRemoteTmo(@, r, m[2])]
    BY Zenon DEF TmoEvent
  <1>2. /\ ChainOK(proposals, cast) /\ OrderOK(proposals, cast)
        /\ ReplicaOK(hs[r], r, proposals, cast) /\ LedgerOK(hs[r])
    BY AtReplica, Zenon
  <1>3. m[2] \in TMO /\ Backed(m[2].highQC, proposals, cast)
    BY <1>1, Zenon DEF IInv, MessagesOK
  <1>4. UNCHANGED <<proposals, cast>>
    BY Zenon DEF TmoEvent
  <1> DEFINE t == ProcessRemoteTmo(hs[r], r, m[2])
  <1>5. StepOK(hs[r], t, r, proposals, cast) /\ LedgerStep(hs[r], t)
    BY <1>2, <1>3, ProcessRemoteTmoOK, ProcessRemoteTmoLedger, Zenon
  <1>6. hs' = [hs EXCEPT ![r] = t]
    BY <1>1, Zenon
  <1> HIDE DEF t
  <1> QED
    BY <1>4, <1>5, <1>6, LedgerQuietStep, Zenon

\* The view timer.
LEMMA TimerFiresLedger ==
    ASSUME IInv, LedgerInv, NEW r \in Replica, TimerFires(r)
    PROVE  LedgerInv'
  <1> DEFINE v == hs[r].pm.curView
             t == [hs[r] EXCEPT !.localTmo = v]
  <1>1. hs' = [hs EXCEPT ![r] = t] /\ UNCHANGED <<proposals, cast>>
    BY Zenon DEF TimerFires
  <1>2. /\ ReplicaOK(hs[r], r, proposals, cast) /\ hs[r] \in HotStuffState
        /\ LedgerOK(hs[r])
    BY AtReplica, Zenon
  <1>3. v \in Nat \union {NoTimeout}
    BY <1>2, StateType, Zenon
  <1> HIDE DEF v
  <1>4. StepOK(hs[r], t, r, proposals, cast) /\ Keeps(hs[r], t)
    BY <1>2, <1>3, SetLocalTmo, HandlersKeep, Zenon
  <1> HIDE DEF t
  <1>5. LedgerStep(hs[r], t)
    BY <1>2, <1>4, KeepsStep, Zenon
  <1> QED
    BY <1>1, <1>4, <1>5, LedgerQuietStep, Zenon

\* The replica's own timeout.
LEMMA ProcessLocalTmoLedger ==
    ASSUME IInv, LedgerInv, NEW r \in Replica, ProcessLocalTmo(r)
    PROVE  LedgerInv'
  <1> DEFINE view == hs[r].localTmo
             s0   == [hs[r] EXCEPT !.localTmo = NoTimeout]
             s1   == [hs[r] EXCEPT !.localTmo = NoTimeout, !.pm = AdvanceView(@, r, view)]
             tmo  == [view |-> view + 1, node |-> r, highQC |-> s1.highQC]
             t    == ProcessRemoteTmo(s1, r, tmo)
  <1>1. view # NoTimeout /\ hs' = [hs EXCEPT ![r] = t]
    BY Zenon DEF ProcessLocalTmo
  <1>2. UNCHANGED <<proposals, cast>>
    BY Zenon DEF ProcessLocalTmo
  <1>3. /\ ChainOK(proposals, cast) /\ OrderOK(proposals, cast)
        /\ ReplicaOK(hs[r], r, proposals, cast) /\ hs[r] \in HotStuffState
        /\ LedgerOK(hs[r])
    BY AtReplica, Zenon
  <1>4. view \in Nat
    BY <1>1, <1>3, Zenon DEF HotStuffState
  <1>5. StepOK(hs[r], s0, r, proposals, cast) /\ Keeps(hs[r], s0)
    BY <1>3, SetLocalTmo, HandlersKeep, Zenon
  <1>6. s1 = [s0 EXCEPT !.pm = AdvanceView(@, r, view)]
    BY <1>3, Zenon DEF HotStuffState
  <1> HIDE DEF view, s0, s1, tmo, t
  <1>7. LedgerStep(hs[r], s0) /\ ReplicaOK(s0, r, proposals, cast) /\ s0 \in HotStuffState
    BY <1>3, <1>5, KeepsStep, Zenon DEF StepOK, ReplicaOK
  <1>8. StepOK(s0, s1, r, proposals, cast) /\ Keeps(s0, s1)
    <2>1. /\ StepOK(s0, [s0 EXCEPT !.pm = AdvanceView(@, r, view)], r, proposals, cast)
          /\ Keeps(s0, [s0 EXCEPT !.pm = AdvanceView(@, r, view)])
      BY <1>3, <1>4, <1>7, EnterView, HandlersKeep, Zenon
    <2> QED
      BY <1>6, <2>1, Zenon
  <1>9. LedgerStep(s0, s1) /\ ReplicaOK(s1, r, proposals, cast) /\ s1 \in HotStuffState
    BY <1>7, <1>8, KeepsStep, Zenon DEF StepOK, ReplicaOK, LedgerStep
  <1>10. tmo \in TMO /\ Backed(tmo.highQC, proposals, cast)
    <2>1. s1.highQC \in QC /\ Backed(s1.highQC, proposals, cast)
      BY <1>9, StateType, Zenon DEF ReplicaOK
    <2> QED
      BY <1>4, <2>1 DEF tmo, TMO
  <1>11. StepOK(s1, t, r, proposals, cast) /\ LedgerStep(s1, t)
    BY <1>3, <1>9, <1>10, ProcessRemoteTmoOK, ProcessRemoteTmoLedger, Zenon DEF t, LedgerStep
  <1>12. StepOK(hs[r], s1, r, proposals, cast) /\ LedgerStep(hs[r], s1)
    BY <1>3, <1>5, <1>7, <1>8, <1>9, StepOKTransitive, LedgerSteps, Zenon
  <1>13. StepOK(hs[r], t, r, proposals, cast) /\ LedgerStep(hs[r], t)
    BY <1>3, <1>11, <1>12, StepOKTransitive, LedgerSteps, Zenon
  <1> QED
    BY <1>1, <1>2, <1>13, LedgerQuietStep, Zenon

-----------------------------------------------------------------------------
(* The theorems that hold whatever the timers do *)

\* Every step keeps the order of views and the ledgers.
LEMMA NextLedger ==
    ASSUME IInv, LedgerInv, [Next]_vars
    PROVE  LedgerInv'
  <1>1. CASE Next
    <2>1. PICK r \in Replica : \/ HandleTxn(r) \/ ProcessNewView(r) \/ HandleBlock(r)
                               \/ ProcessPending(r) \/ HandleVote(r) \/ VoteEvent(r)
                               \/ HandleTmo(r) \/ TmoEvent(r)
                               \/ TimerFires(r) \/ ProcessLocalTmo(r)
      BY <1>1, Zenon DEF Next
    <2>2. HandleVote(r) \/ HandleTmo(r) => UNCHANGED <<hs, proposals, cast>>
      BY Zenon DEF HandleVote, HandleTmo
    <2> QED
      BY <2>1, <2>2, MessageLedger, HandleTxnLedger, ProcessNewViewLedger,
         HandleBlockLedger, ProcessPendingLedger, VoteEventLedger, TmoEventLedger,
         TimerFiresLedger, ProcessLocalTmoLedger, Zenon
  <1>2. CASE UNCHANGED vars
    <2>1. UNCHANGED <<hs, proposals, cast>>
      BY <1>2, Zenon DEF vars
    <2> QED
      BY <2>1, MessageLedger, Zenon
  <1> QED
    BY <1>1, <1>2, Zenon

\* A new replica has delivered nothing.
LEMMA InitLedger == Init => LedgerInv
  <1> SUFFICES ASSUME Init PROVE LedgerInv
    BY Zenon
  <1>1. \A r \in Replica : hs[r] = NewHotStuff
    BY Zenon DEF Init
  <1>2. DOMAIN << >> = {}
    OBVIOUS
  <1>3. LedgerOK(NewHotStuff)
    BY <1>2 DEF LedgerOK, DeliveredOK, NewHotStuff, NewBlockchain
  <1>4. OrderOK({}, {}) /\ \A r \in Replica : VoterOK(NewHotStuff, r, {})
    BY Zenon DEF OrderOK, VoterOK
  <1> QED
    BY <1>1, <1>3, <1>4, Zenon DEF Init, LedgerInv

-----------------------------------------------------------------------------
(* The theorems *)

\* The facts about finite sets that the lemmas rest on are used from here on only.
INSTANCE FiniteSetTheorems

\* What the lemmas assume about the sizes of finite sets holds.
LEMMA CountingHolds == Counting
  <1>1. SubsetSize
    BY FS_CardinalityType, FS_Subset, Zenon DEF SubsetSize
  <1>2. UnionSize
    BY FS_Union, Zenon DEF UnionSize
  <1>3. IntervalSize
    BY FS_Interval, Zenon DEF IntervalSize
  <1>4. SmallSize
    BY FS_EmptySet, FS_Singleton, Zenon DEF SmallSize
  <1> QED
    BY <1>1, <1>2, <1>3, <1>4, Zenon DEF Counting

\* Two super majorities have more than a third of the replicas in common: a
\* replica besides the (N - 1) \div 3 that may be faulty (SuperMajority, quorum.go).
THEOREM QuorumIntersection ==
    ASSUME NEW A \in SUBSET Replica, NEW B \in SUBSET Replica,
           SuperMajority(A), SuperMajority(B)
    PROVE  Cardinality(A \intersect B) > (N - 1) \div 3
  BY CountingHolds, QuorumsMeet, Zenon

\* The invariant holds in every state.
LEMMA Invariance == Spec => []IInv
  <1>1. Init => IInv
    BY CountingHolds, InitOK, Zenon
  <1>2. IInv /\ [Next]_vars => IInv'
    BY NextIInv, Zenon
  <1> QED
    BY <1>1, <1>2, PTL DEF Spec

\* Every state of every replica and every message has its type: the handlers of
\* hotstuff.go, pacemaker.go and replica.go keep the state well formed.
THEOREM TypeCorrect == Spec => []TypeOK
  <1>1. IInv => TypeOK
    BY Zenon DEF IInv, TypeOK, ChainOK, MessagesOK
  <1> QED
    BY Invariance, <1>1, PTL

\* A leader proposes at most one block per view (pacemaker.go:35, replica.go:246),
\* so the whole system has at most one block per view.
THEOREM OneBlockPerView == Spec => []NoEquivocation
  <1>1. IInv => NoEquivocation
    BY Zenon DEF IInv
  <1> QED
    BY Invariance, <1>1, PTL

\* The voters of a block, as the properties and as the lemmas write them.
LEMMA SameVoters == \A id : VotersOf(id) = Voters(cast, id)
  BY Zenon DEF VotersOf, Voters

\* Every QC that a replica holds, buffers, proposes on or sends with a timeout has
\* the votes of a super majority for a block of its view (quorum.go, hotstuff.go).
THEOREM CertificatesAreBacked == Spec => []QCsAreBacked
  <1>1. ASSUME IInv PROVE QCsAreBacked
    <2> SUFFICES ASSUME NEW qc \in QCs
                 PROVE  \/ qc = InitialQC
                        \/ /\ qc.id \in proposals
                           /\ qc.view = ViewOf(qc.id)
                           /\ SuperMajority(VotersOf(qc.id))
      BY Zenon DEF QCsAreBacked
    <2>1. \/ \E r \in Replica : qc = hs[r].highQC \/ qc \in hs[r].bufferedQCs
          \/ \E b \in proposals : qc = QCOf(b)
          \/ \E m \in tmoMsgs \union heldTmos : qc = m[2].highQC
      BY Zenon DEF QCs
    <2>2. Backed(qc, proposals, cast)
      BY <1>1, <2>1, Zenon DEF IInv, ReplicaOK, ChainOK, MessagesOK
    <2> QED
      BY <2>2, SameVoters, Zenon DEF Backed
  <1> QED
    BY Invariance, <1>1, PTL

\* Every block that a replica delivers (CommitBlock, blockchain.go:76), the
\* ancestors delivered with it included, has the votes of a super majority.
THEOREM OnlyCertifiedDelivered == Spec => []DeliveredIsCertified
  <1>1. ASSUME IInv PROVE DeliveredIsCertified
    <2> SUFFICES ASSUME NEW r \in Replica, NEW i \in DOMAIN hs[r].bc.committed
                 PROVE  SuperMajority(VotersOf(hs[r].bc.committed[i]))
      BY Zenon DEF DeliveredIsCertified
    <2>1. SuperMajority(Voters(cast, hs[r].bc.committed[i]))
      BY <1>1, Zenon DEF IInv, ReplicaOK, StoreOK
    <2> QED
      BY <2>1, SameVoters, Zenon
  <1> QED
    BY Invariance, <1>1, PTL

\* No step takes a replica's view, lock, highest QC, pruning level or ledger back
\* (pacemaker.go:28, hotstuff.go:234, 324, blockchain.go:76).
THEOREM NoReplicaGoesBack == Spec => NeverBack
  <1>1. IInv /\ [Next]_vars =>
            [\A r \in Replica :
                /\ hs'[r].pm.curView >= hs[r].pm.curView
                /\ hs'[r].preferredView >= hs[r].preferredView
                /\ hs'[r].highQC.view >= hs[r].highQC.view
                /\ hs'[r].bc.lowestLevel >= hs[r].bc.lowestLevel
                /\ Extends(hs'[r].bc.committed, hs[r].bc.committed)]_vars
    BY NextIInv, Zenon DEF Grows
  <1> QED
    BY Invariance, <1>1, PTL DEF Spec, NeverBack

\* The order of views and the ledgers are invariant.
LEMMA LedgerInvariance == Spec => [](IInv /\ LedgerInv)
  <1>1. IInv /\ LedgerInv /\ [Next]_vars => LedgerInv'
    BY NextLedger, Zenon
  <1> QED
    BY InitLedger, Invariance, <1>1, PTL DEF Spec

\* Whatever the timers, the lost messages and the order of the others: a replica's
\* lock stays below its highest QC (hotstuff.go:194, 337), so a leader never
\* proposes on a block that is older than its own lock.
THEOREM LockStaysBelow == Spec => []LockBelowHighQC
  <1>1. LedgerInv => LockBelowHighQC
    BY Zenon DEF LedgerInv, LedgerOK, LockBelowHighQC
  <1> QED
    BY LedgerInvariance, <1>1, PTL

\* What a replica has committed (hotstuff.go:316) is at or below its lock.
THEOREM LedgerBelowLock == Spec => []DeliveredBelowLock
  <1>1. LedgerInv => DeliveredBelowLock
    BY Zenon DEF LedgerInv, LedgerOK, DeliveredBelowLock
  <1> QED
    BY LedgerInvariance, <1>1, PTL

\* CommitBlock (blockchain.go:76) delivers no block twice, even where forks make
\* replicas deliver conflicting blocks.
THEOREM NothingTwice == Spec => []DeliveredOnce
  <1>1. LedgerInv => DeliveredOnce
    BY Zenon DEF LedgerInv, LedgerOK, DeliveredOK, DeliveredOnce
  <1> QED
    BY LedgerInvariance, <1>1, PTL

\* Once every replica has left view 2 without a QC, no replica ever votes again
\* and no QC is ever made (hotstuff.go:288-294): the stall cannot be left, whatever
\* messages are still on their way and however many timers fire.
THEOREM TheStallIsForEver == Spec => StalledForever
  <1>1. Init => StallInv
    BY Zenon DEF Init, StallInv
  <1>2. IInv /\ StallInv /\ [Next]_vars => StallInv'
    BY NextStall, Zenon
  <1>3. IInv /\ StallInv /\ [Next]_vars => [Stalled => Stalled' /\ cast' = cast]_vars
    BY StalledStep, Zenon
  <1> QED
    BY Invariance, <1>1, <1>2, <1>3, PTL DEF Spec, StalledForever

=============================================================================

------------------------ MODULE HotStuffSteadyProofs ------------------------
(***************************************************************************)
(* HotStuff as long as no timer fires, for every number of replicas and    *)
(* views and whatever messages are lost or overtake each other: there is   *)
(* one chain with one block per view, every replica delivers it from the   *)
(* first block on, and no block that arrives early is dropped.             *)
(***************************************************************************)
EXTENDS HotStuffSteadyStoreProofs

-----------------------------------------------------------------------------
(* Votes and whole blocks *)

\* ProcessVote at the leader of the next view.
LEMMA VoteSteady ==
    ASSUME NEW P, NEW C, SteadyChain(P, C), NEW r \in Replica, NEW s, ReplicaOK(s, r, P, C),
           Steady(s, r, P), NEW vote \in C, FindLeaderFor(vote.view + 1) = r
    PROVE  LET t == ProcessVote(s, r, vote)
           IN  /\ Steady(t, r, P)
               /\ t.bufferedBlocks = s.bufferedBlocks
               /\ \A x \in s.bc.vertices : x \in t.bc.vertices \/ ViewOf(x) < t.pm.curView
  <1> DEFINE s1 == [s EXCEPT !.bc = AddVote(@, vote)]
             qc == QCFrom(vote)
             v  == s.pm.curView
             t  == ProcessVote(s, r, vote)
  <1>1. /\ s \in HotStuffState /\ v \in Nat /\ ChainOK(P, C) /\ s.bc.vertices \subseteq P
        /\ vote.id \in P /\ vote.view = ViewOf(vote.id) /\ ViewOf(vote.id) \in Nat
    <2>1. ChainOK(P, C)
      BY Zenon DEF SteadyChain
    <2>2. vote.id \in P /\ vote.view = ViewOf(vote.id)
      BY <2>1, Zenon DEF ChainOK
    <2> QED
      BY <2>1, <2>2, StateType, ChainAt, Zenon DEF ReplicaOK, StoreOK
  <1>2. /\ StoreOK(AddVote(s.bc, vote), P, C) /\ qc \in QC
        /\ AddVote(s.bc, vote).lowestLevel = s.bc.lowestLevel
        /\ AddVote(s.bc, vote).committed = s.bc.committed
        /\ IsBuilt(s.bc, vote) => Backed(qc, P, C)
    BY <1>1, AddVoteOK DEF ReplicaOK
  <1>3. ReplicaOK(s1, r, P, C) /\ s1 \in HotStuffState
    <2>1. s.bc.lowestLevel \in Nat /\ s.bc.committed \in Seq(Block)
      BY <1>1, StateType, Zenon
    <2>2. /\ AddVote(s.bc, vote).lowestLevel >= s.bc.lowestLevel
          /\ Extends(AddVote(s.bc, vote).committed, s.bc.committed)
      BY <1>2, <2>1, ExtendsReflexive
    <2>3. ReplicaOK(s1, r, P, C)
      BY <1>2, <2>2, SetStore, Zenon
    <2> QED
      BY <2>3, Zenon DEF ReplicaOK
  <1>4. Alike(s, s1)
    BY <1>1, AlikeHandlers, Zenon
  <1>5. /\ Steady(s1, r, P) /\ s1.pm.curView = v /\ s1.bc.vertices = s.bc.vertices
        /\ s1.bufferedBlocks = s.bufferedBlocks
    <2>1. Steady(s1, r, P)
      BY <1>1, <1>3, <1>4, AlikeSteady
    <2>2. s1.bufferedBlocks = s.bufferedBlocks
      BY <1>1, Zenon DEF HotStuffState
    <2> QED
      BY <1>4, <2>1, <2>2, Zenon DEF Alike
  <1>6. qc.view = ViewOf(vote.id) /\ qc.id = vote.id
    BY <1>1, Zenon DEF QCFrom
  <1>7. qc # InitialQC
    <2>1. vote.id \in Block
      BY <1>1, ChainAt, Zenon
    <2>2. Len(vote.id) \in Nat \ {0} /\ Len(ZeroID) = 0
      BY <2>1, BlockType, Zenon DEF ZeroID
    <2> QED
      BY <1>6, <2>2 DEF InitialQC
  <1>8. qc.view <= 2 => IsLeader(r, qc.view + 1)
    <2>1. ASSUME qc.view <= 2 PROVE IsLeader(r, qc.view + 1)
      <3>1. qc.view + 1 \in Nat /\ qc.view + 1 <= 3 /\ FindLeaderFor(qc.view + 1) = r
        BY <1>1, <1>6, <2>1
      <3> QED
        BY <3>1, EarlyLeader, Zenon
    <2> QED
      BY <2>1, Zenon
  <1>9. t = IF ~IsBuilt(s.bc, vote) THEN s1
            ELSE IF ~HasBlock(s1.bc, qc.id) THEN BufferQC(s1, qc)
            ELSE ProcessCertificate(s1, r, qc)
    BY Zenon DEF ProcessVote
  <1> HIDE DEF s1, qc, t
  <1>10. CASE t = s1
    BY <1>5, <1>10, Zenon DEF t
  <1>11. CASE t = BufferQC(s1, qc) /\ IsBuilt(s.bc, vote)
    <2>1. Steady(t, r, P) /\ t.pm = s1.pm /\ t.bc = s1.bc
      BY <1>2, <1>3, <1>5, <1>7, <1>8, <1>11, BufferQCSteady DEF Steady
    <2>2. t.bufferedBlocks = s1.bufferedBlocks
      BY <1>3, <1>11, Zenon DEF BufferQC, HotStuffState
    <2> QED
      BY <1>5, <2>1, <2>2, Zenon DEF t
  <1>12. CASE IsBuilt(s.bc, vote) /\ HasBlock(s1.bc, qc.id)
    <2>1. vote.id \in s1.bc.vertices /\ t = ProcessCertificate(s1, r, qc)
      BY <1>6, <1>9, <1>12, Zenon DEF HasBlock
    <2>2. qc.view <= v + 1 /\ (qc.view <= 2 => qc.view <= v)
      BY <1>5, <1>6, <2>1, Zenon DEF Steady, InStep
    <2>3. CASE qc.view < v
      BY <1>5, <1>10, <2>1, <2>3, Zenon DEF ProcessCertificate
    <2>4. CASE qc.view >= v /\ ~CanUpdatePreferredView(s1, qc)
      <3>1. ~(qc.view < v)
        BY <1>1, <1>6, <2>4
      <3> QED
        BY <1>5, <1>11, <1>12, <2>1, <2>4, <3>1, Zenon DEF ProcessCertificate
    <2>5. CASE qc.view >= v /\ CanUpdatePreferredView(s1, qc)
      <3>1. qc.view = v /\ ~(qc.view < s1.pm.curView) /\ qc.view = s1.pm.curView
        <4>1. qc.view # v + 1
          <5>1. SUFFICES ASSUME qc.view = v + 1 PROVE FALSE
            BY Zenon
          <5>2. PrevID(vote.id) \notin s1.bc.vertices
            BY <1>5, <1>6, <2>1, <5>1, Zenon DEF Steady, Early
          <5>3. ~(qc.view <= 2)
            BY <1>1, <2>2, <5>1
          <5> QED
            BY <1>6, <2>5, <5>2, <5>3, Zenon DEF CanUpdatePreferredView, HasParent
        <4> QED
          BY <1>1, <1>5, <1>6, <2>2, <2>5, <4>1
      <3>2. t = AdoptCertificate(UpdatePreferredView(s1, qc), r, qc)
        BY <2>1, <2>5, <3>1, Zenon DEF ProcessCertificate
      <3>3. InStep(s1, r, P) /\ LedgerAt(s1, P) /\ Kept(s1, P)
        BY <1>5, Zenon DEF Steady
      <3>4. /\ qc \in QC /\ Backed(qc, P, C) /\ qc.view = s1.pm.curView
            /\ CanUpdatePreferredView(s1, qc) /\ ReplicaOK(s1, r, P, C)
        BY <1>2, <1>3, <1>12, <2>5, <3>1, Zenon
      <3>5. /\ InStep(t, r, P) /\ LedgerAt(t, P) /\ Early(t) /\ Kept(t, P)
            /\ t.bufferedBlocks = s1.bufferedBlocks
            /\ \A x \in s1.bc.vertices : x \in t.bc.vertices \/ ViewOf(x) < t.pm.curView
        <4>1. Adopted(s1, AdoptCertificate(UpdatePreferredView(s1, qc), r, qc),
                      r, P, P, qc.view)
          BY <1>7, <1>8, <3>3, <3>4, OwnQCSteady, Zenon
        <4> QED
          BY <3>2, <4>1, Zenon DEF Adopted
      <3> QED
        BY <1>5, <3>5, Zenon DEF Steady, t
    <2> QED
      BY <1>1, <1>6, <2>3, <2>4, <2>5
  <1> QED
    BY <1>9, <1>10, <1>11, <1>12, Zenon

\* The block that the replica is to process next is not part of the invariant,
\* apart from its view.
LEMMA PendingSteady ==
    ASSUME NEW s, NEW t, NEW r, NEW P, Steady(s, r, P), t.pm = s.pm, t.bc = s.bc,
           t.highQC = s.highQC, t.bufferedQCs = s.bufferedQCs, t.localTmo = s.localTmo,
           t.pending # ZeroID => ViewOf(t.pending) <= s.pm.curView + 1
    PROVE  Steady(t, r, P)
  <1>1. InStep(t, r, P)
    BY Zenon DEF Steady, InStep
  <1>2. LedgerAt(t, P) /\ Early(t) /\ Kept(t, P)
    BY Zenon DEF Steady, LedgerAt, Early, Kept
  <1> QED
    BY <1>1, <1>2, Zenon DEF Steady

\* The end of ProcessBlock for a block that is not ahead of the current view.
LEMMA NextBufferedSteady ==
    ASSUME NEW P, NEW C, NEW r, NEW s, ReplicaOK(s, r, P, C), Steady(s, r, P),
           NEW b \in Block, ViewOf(b) <= s.pm.curView
    PROVE  LET t == NextBuffered(s, b)
           IN  /\ Steady(t, r, P)
               /\ t.bufferedBlocks = s.bufferedBlocks /\ t.bc = s.bc /\ t.pm = s.pm
  <1> DEFINE t == NextBuffered(s, b)
             x == CHOOSE x \in s.bufferedBlocks : ViewOf(x) = ViewOf(b) + 1
  <1>1. s \in HotStuffState /\ s.pm.curView \in Nat /\ ViewOf(b) \in Nat
    BY StateType, BlockType, Zenon DEF ReplicaOK
  <1>2. CASE ~\E y \in s.bufferedBlocks : ViewOf(y) = ViewOf(b) + 1
    BY <1>2, Zenon DEF NextBuffered
  <1>3. CASE \E y \in s.bufferedBlocks : ViewOf(y) = ViewOf(b) + 1
    <2>1. t = [s EXCEPT !.pending = x]
      BY <1>3, Zenon DEF NextBuffered
    <2>2. ViewOf(x) = ViewOf(b) + 1
      BY <1>3, Zenon
    <2> HIDE DEF x, t
    <2>3. ViewOf(x) <= s.pm.curView + 1
      BY <1>1, <2>2
    <2>4. /\ t.pm = s.pm /\ t.bc = s.bc /\ t.highQC = s.highQC /\ t.pending = x
          /\ t.bufferedQCs = s.bufferedQCs /\ t.bufferedBlocks = s.bufferedBlocks
          /\ t.localTmo = s.localTmo
      BY <1>1, <2>1, Zenon DEF HotStuffState
    <2>5. Steady(t, r, P)
      BY <2>3, <2>4, PendingSteady, Zenon
    <2> QED
      BY <2>4, <2>5, Zenon DEF t
  <1> QED
    BY <1>2, <1>3, Zenon

\* A buffered block stays until it is stored or its view is over.
KeepsBlocks(s, t) ==
    \A x \in s.bufferedBlocks : \/ x \in t.bufferedBlocks
                                \/ x \in t.bc.vertices
                                \/ ViewOf(x) < t.pm.curView

\* The return from ProcessBlock(b), nested or not, when b is stored or stale.
LEMMA ReturnSteady ==
    ASSUME NEW P, NEW C, SteadyChain(P, C), NEW r, NEW u, ReplicaOK(u, r, P, C),
           Steady(u, r, P), NEW b \in P, NEW nested,
           b \in u.bc.vertices \/ ViewOf(b) < u.pm.curView
    PROVE  LET t == Return(u, b, nested)
           IN  Steady(t, r, P) /\ KeepsBlocks(u, t)
  <1> DEFINE t == Return(u, b, nested)
  <1>1. u \in HotStuffState /\ ChainOK(P, C) /\ u.bufferedBlocks \subseteq P
    BY Zenon DEF ReplicaOK, SteadyChain
  <1>2. t \in HotStuffState
    BY <1>1, ReturnOK, Zenon DEF StepOK, ReplicaOK
  <1>3. Alike(u, t)
    BY <1>1, AlikeHandlers, Zenon
  <1>4. \A x \in u.bufferedBlocks : x \in t.bufferedBlocks \/ ViewOf(x) = ViewOf(b)
    BY <1>1, Zenon DEF Return, UnbufferBlock, HotStuffState
  <1> HIDE DEF t
  <1>5. Steady(t, r, P)
    BY <1>1, <1>2, <1>3, AlikeSteady, Zenon
  <1>6. \A x \in u.bufferedBlocks : ViewOf(x) = ViewOf(b) => x = b
    BY <1>1, Zenon DEF SteadyChain
  <1>7. KeepsBlocks(u, t)
    BY <1>3, <1>4, <1>6, Zenon DEF KeepsBlocks, Alike
  <1> QED
    BY <1>5, <1>7, Zenon DEF t

\* A block that is more than a view ahead is buffered.
LEMMA BufferSteady ==
    ASSUME NEW P, NEW C, SteadyChain(P, C), NEW r, NEW s, ReplicaOK(s, r, P, C),
           NEW b \in P, Before(s, r, P, b), ViewOf(b) > s.pm.curView + 1
    PROVE  LET t == BufferBlock(s, b)
           IN  Steady(t, r, P) /\ KeepsBlocks(s, t)
  <1> DEFINE t == BufferBlock(s, b)
  <1>1. /\ s \in HotStuffState /\ ChainOK(P, C) /\ s.bufferedBlocks \subseteq P
        /\ ViewOf(b) \in Nat /\ s.pm.curView \in Nat
    BY StateType, ChainAt, Zenon DEF ReplicaOK, SteadyChain
  <1>2. t \in HotStuffState
    BY <1>1, BufferBlockOK, Zenon DEF StepOK, ReplicaOK
  <1>3. Alike(s, t)
    BY <1>1, AlikeHandlers, Zenon
  <1>4. /\ \A x \in s.bufferedBlocks : x \in t.bufferedBlocks \/ ViewOf(x) = ViewOf(b)
        /\ b \in t.bufferedBlocks
    BY <1>1, Zenon DEF BufferBlock, HotStuffState
  <1> HIDE DEF t
  <1>5. ViewOf(b) > s.pm.curView
    BY <1>1
  <1>6. Kept(s, P)
    BY <1>5, Zenon DEF Before, Kept
  <1>7. Steady(t, r, P)
    BY <1>1, <1>2, <1>3, <1>6, AlikeSteady, Zenon DEF Before, Steady
  <1>8. \A x \in s.bufferedBlocks : ViewOf(x) = ViewOf(b) => x = b
    BY <1>1, Zenon DEF SteadyChain
  <1>9. KeepsBlocks(s, t)
    BY <1>4, <1>8, Zenon DEF KeepsBlocks
  <1> QED
    BY <1>7, <1>9, Zenon DEF t

\* A block that a replica votes for is not ahead of the current view.
LEMMA VotedInView ==
    ASSUME NEW P, NEW C, SteadyChain(P, C), NEW r, NEW s \in HotStuffState, Steady(s, r, P),
           NEW b \in P, b \in s.bc.vertices, VotingRule(s, b)
    PROVE  ViewOf(b) <= s.pm.curView
  <1>1. s.pm.curView \in Nat /\ ViewOf(b) \in Nat
    BY StateType, ChainAt, Zenon
  <1>2. CASE ViewOf(b) <= 2
    BY <1>2, Zenon DEF Steady, InStep
  <1>3. CASE ~(ViewOf(b) <= 2)
    <2>1. PrevID(b) \in s.bc.vertices
      BY <1>3, Zenon DEF VotingRule, HasParent
    <2>2. ViewOf(b) # s.pm.curView + 1
      BY <2>1, Zenon DEF Steady, Early
    <2>3. ViewOf(b) <= s.pm.curView + 1
      BY Zenon DEF Steady, InStep
    <2> QED
      BY <1>1, <2>2, <2>3
  <1> QED
    BY <1>2, <1>3, Zenon

\* ProcessBlock as a whole.
LEMMA ProcessBlockSteady ==
    ASSUME NEW P, SteadyChain(P, cast), NEW r \in Replica, NEW s, ReplicaOK(s, r, P, cast),
           NEW b \in P, Before(s, r, P, b), NEW nested,
           nested => ViewOf(b) <= s.pm.curView + 1, ProcessBlock(r, s, b, nested)
    PROVE  \E t : /\ hs' = [hs EXCEPT ![r] = t]
                  /\ Steady(t, r, P) /\ KeepsBlocks(s, t)
  <1> DEFINE w    == ViewOf(b)
             v    == s.pm.curView
             s1   == ProcessBlockQC(s, r, b)
             s2   == StoreBlock(s1, r, b)
             vote == MakeVote(ViewOf(b), r, b)
             D    == cast \union {vote}
             Moves(u) == hs' = [hs EXCEPT ![r] = Return(u, b, nested)]
  <1>0. \/ w > v + 1 /\ Moves(BufferBlock(s, b))
        \/ /\ w <= v + 1
           /\ w < s1.pm.curView \/ ~IsLeader(ProposerOf(b), w)
           /\ Moves(s1)
        \/ /\ w <= v + 1 /\ w >= s1.pm.curView
           /\ ~VotingRule(s2, b) /\ Moves(s2)
        \/ /\ w <= v + 1 /\ w >= s1.pm.curView /\ VotingRule(s2, b)
           /\ \/ /\ FindLeaderFor(w + 1) = r
                 /\ Moves(NextBuffered(ProcessVote(s2, r, vote), b))
              \/ FindLeaderFor(w + 1) # r /\ Moves(NextBuffered(s2, b))
    BY Zenon DEF ProcessBlock
  <1> HIDE DEF s1, s2, vote, D, Moves
  <1>1. s \in HotStuffState /\ ChainOK(P, cast) /\ v \in Nat /\ w \in Nat /\ b \in Block
    BY StateType, ChainAt, Zenon DEF ReplicaOK, SteadyChain
  <1>2. CASE w > v + 1
    <2>1. ~nested /\ ~(w <= v + 1)
      BY <1>1, <1>2
    <2>2. Moves(BufferBlock(s, b))
      BY <1>0, <2>1, Zenon
    <2>3. hs' = [hs EXCEPT ![r] = BufferBlock(s, b)]
      BY <2>1, <2>2, Zenon DEF Moves, Return
    <2>4. Steady(BufferBlock(s, b), r, P) /\ KeepsBlocks(s, BufferBlock(s, b))
      BY <1>2, BufferSteady, Zenon
    <2> QED
      BY <2>3, <2>4, Zenon
  <1>3. CASE ~(w > v + 1)
    <2>1. w <= v + 1
      BY <1>1, <1>3
    <2>2. ReplicaOK(s1, r, P, cast) /\ s1 \in HotStuffState /\ s1.pm.curView \in Nat
      BY <1>1, ProcessBlockQCOK, StateType, Zenon DEF StepOK, ReplicaOK, s1
    <2>3. /\ Before(s1, r, P, b) /\ w <= s1.pm.curView + 1
          /\ w = s1.pm.curView + 1 => /\ PrevID(b) \notin s1.bc.vertices
                                      /\ QCOf(b) \in s1.bufferedQCs
                                      /\ ViewOf(b) >= 3
          /\ s1.bufferedBlocks = s.bufferedBlocks
      BY <2>1, BlockQCSteady DEF s1
    <2>4. IsLeader(ProposerOf(b), w)
      BY Zenon DEF SteadyChain
    <2>5. ASSUME NEW u, NEW C, SteadyChain(P, C), ReplicaOK(u, r, P, C), Steady(u, r, P),
                 b \in u.bc.vertices \/ ViewOf(b) < u.pm.curView,
                 u.bufferedBlocks = s.bufferedBlocks,
                 Moves(u)
          PROVE  \E t : hs' = [hs EXCEPT ![r] = t] /\ Steady(t, r, P) /\ KeepsBlocks(s, t)
      <3>1. Steady(Return(u, b, nested), r, P) /\ KeepsBlocks(u, Return(u, b, nested))
        BY <2>5, ReturnSteady, Zenon
      <3>2. KeepsBlocks(s, Return(u, b, nested))
        BY <2>5, <3>1, Zenon DEF KeepsBlocks
      <3> QED
        BY <2>5, <3>1, <3>2, Zenon DEF Moves
    <2>6. CASE w < s1.pm.curView
      <3>1. Moves(s1)
        <4>1. ~(w >= s1.pm.curView)
          BY <1>1, <2>2, <2>6
        <4> QED
          BY <1>0, <1>3, <4>1, Zenon
      <3>2. Steady(s1, r, P)
        BY <2>3, <2>6, Zenon DEF Before, Steady
      <3> QED
        BY <2>2, <2>3, <2>5, <2>6, <3>1, <3>2, Zenon
    <2>7. CASE ~(w < s1.pm.curView)
      <3>1. w >= s1.pm.curView
        BY <1>1, <2>2, <2>7
      <3>2. ReplicaOK(s2, r, P, cast) /\ s2 \in HotStuffState
        BY <1>1, <2>2, StoreBlockOK, Zenon DEF StepOK, ReplicaOK, s2
      <3>3. Steady(s2, r, P) /\ b \in s2.bc.vertices /\ s2.bufferedBlocks = s1.bufferedBlocks
        BY <2>2, <2>3, <3>1, StoreSteady DEF s2
      <3>4. CASE ~VotingRule(s2, b)
        <4>1. Moves(s2)
          BY <1>0, <1>3, <2>4, <2>7, <3>4, Zenon
        <4> QED
          BY <2>3, <2>5, <3>2, <3>3, <4>1, Zenon
      <3>5. CASE VotingRule(s2, b)
        <4>1. w <= s2.pm.curView /\ s2.pm.curView \in Nat
          BY <3>2, <3>3, <3>5, VotedInView, StateType, Zenon
        <4>2. CASE FindLeaderFor(w + 1) # r
          <5> DEFINE u == NextBuffered(s2, b)
          <5>1. Moves(u)
            BY <1>0, <1>3, <2>4, <2>7, <3>5, <4>2, Zenon
          <5>2. ReplicaOK(u, r, P, cast)
            BY <1>1, <3>2, NextBufferedOK, Zenon DEF StepOK
          <5>3. Steady(u, r, P) /\ u.bufferedBlocks = s2.bufferedBlocks /\ u.bc = s2.bc
            BY <1>1, <3>2, <3>3, <4>1, NextBufferedSteady
          <5> HIDE DEF u
          <5> QED
            BY <2>3, <2>5, <3>3, <5>1, <5>2, <5>3, Zenon
        <4>3. CASE FindLeaderFor(w + 1) = r
          <5> DEFINE s3 == ProcessVote(s2, r, vote)
                     u  == NextBuffered(s3, b)
          <5>1. Moves(u)
            BY <1>0, <1>3, <2>4, <2>7, <3>5, <4>3, Zenon
          <5>2. ChainOK(P, D) /\ D \in SUBSET Vote /\ cast \subseteq D
            BY <1>1, CastOK, Zenon DEF ChainOK, D, vote
          <5>3. SteadyChain(P, D)
            BY <5>2, Zenon DEF SteadyChain
          <5>4. ReplicaOK(s2, r, P, D)
            BY <3>2, <5>2, ReplicaMonotone, Zenon DEF ChainOK
          <5>5. vote \in D /\ vote.view = w
            BY Zenon DEF MakeVote, vote, D
          <5>6. /\ Steady(s3, r, P) /\ s3.bufferedBlocks = s2.bufferedBlocks
                /\ b \in s3.bc.vertices \/ w < s3.pm.curView
            BY <3>3, <4>3, <5>3, <5>4, <5>5, VoteSteady
          <5>7. ReplicaOK(s3, r, P, D) /\ Grows(s2, s3) /\ s3.pm.curView \in Nat
            BY <5>2, <5>4, <5>5, ProcessVoteOK, StateType, Zenon DEF StepOK, ReplicaOK
          <5> HIDE DEF s3
          <5>8. w <= s3.pm.curView
            BY <1>1, <4>1, <5>7 DEF Grows
          <5>9. ReplicaOK(u, r, P, D)
            BY <5>2, <5>7, NextBufferedOK, Zenon DEF StepOK
          <5>10. /\ Steady(u, r, P) /\ u.bufferedBlocks = s3.bufferedBlocks
                 /\ u.bc = s3.bc /\ u.pm = s3.pm
            BY <1>1, <5>6, <5>7, <5>8, NextBufferedSteady
          <5> HIDE DEF u
          <5> QED
            BY <2>3, <2>5, <3>3, <5>1, <5>3, <5>6, <5>9, <5>10, Zenon
        <4> QED
          BY <4>2, <4>3, Zenon
      <3> QED
        BY <3>4, <3>5, Zenon
    <2> QED
      BY <2>6, <2>7, Zenon
  <1> QED
    BY <1>2, <1>3, Zenon

-----------------------------------------------------------------------------
(* The steps *)

\* What the invariants say about a replica.
LEMMA AtSteady ==
    ASSUME IInv, SteadyInv
    PROVE  /\ SteadyChain(proposals, cast) /\ ChainOK(proposals, cast)
           /\ \A r \in Replica : /\ ReplicaOK(hs[r], r, proposals, cast)
                                 /\ hs[r] \in HotStuffState
                                 /\ Steady(hs[r], r, proposals)
  BY Zenon DEF IInv, SteadyInv, SteadyChain, ProposalsOK, NoEquivocation

\* A replica between two handlers is ready for any block.
LEMMA SteadyBefore ==
    ASSUME NEW s, NEW r, NEW P, Steady(s, r, P), NEW b
    PROVE  Before(s, r, P, b)
  BY Zenon DEF Steady, Before, Kept

\* What no step does, besides breaking the invariant: losing a buffered block.
BlocksKept == \A r \in Replica : KeepsBlocks(hs[r], hs'[r])

\* A step of replica r that proposes nothing.
LEMMA SteadyQuietStep ==
    ASSUME IInv, SteadyInv, NEW r \in Replica, NEW t, hs' = [hs EXCEPT ![r] = t],
           Steady(t, r, proposals), KeepsBlocks(hs[r], t),
           UNCHANGED <<proposals, tmoMsgs, heldTmos>>
    PROVE  SteadyInv' /\ BlocksKept
  <1>1. proposals' = proposals /\ tmoMsgs' = tmoMsgs /\ heldTmos' = heldTmos
    BY Zenon
  <1>2. hs'[r] = t /\ \A q \in Replica \ {r} : hs'[q] = hs[q]
    BY Zenon DEF IInv
  <1>3. \A q \in Replica : KeepsBlocks(hs[q], hs[q])
    BY Zenon DEF KeepsBlocks
  <1>4. BlocksKept
    BY <1>2, <1>3, Zenon DEF BlocksKept
  <1>5. \A q \in Replica : Steady(hs'[q], q, proposals')
    BY <1>1, <1>2, Zenon DEF SteadyInv
  <1> QED
    BY <1>1, <1>4, <1>5, Zenon DEF SteadyInv

\* A block that arrives.
LEMMA HandleBlockSteady ==
    ASSUME IInv, SteadyInv, NEW r \in Replica, HandleBlock(r)
    PROVE  SteadyInv' /\ BlocksKept
  <1>1. PICK m \in blockMsgs : ProcessBlock(r, hs[r], m[2], FALSE)
    BY Zenon DEF HandleBlock
  <1>2. UNCHANGED <<proposals, tmoMsgs, heldTmos>>
    BY Zenon DEF HandleBlock
  <1>3. m[2] \in proposals
    BY <1>1, Zenon DEF IInv, MessagesOK
  <1>4. /\ SteadyChain(proposals, cast) /\ ReplicaOK(hs[r], r, proposals, cast)
        /\ Before(hs[r], r, proposals, m[2])
    BY AtSteady, SteadyBefore, Zenon
  <1>5. FALSE => ViewOf(m[2]) <= hs[r].pm.curView + 1
    BY Zenon
  <1>6. PICK t : hs' = [hs EXCEPT ![r] = t] /\ Steady(t, r, proposals) /\ KeepsBlocks(hs[r], t)
    BY <1>1, <1>3, <1>4, <1>5, ProcessBlockSteady, Zenon
  <1> QED
    BY <1>2, <1>6, SteadyQuietStep, Zenon

\* The nested call for a buffered block.
LEMMA ProcessPendingSteady ==
    ASSUME IInv, SteadyInv, NEW r \in Replica, ProcessPending(r)
    PROVE  SteadyInv' /\ BlocksKept
  <1> DEFINE o == hs[r]
             s == [o EXCEPT !.pending = ZeroID]
             b == o.pending
  <1>1. b # ZeroID /\ ProcessBlock(r, s, b, TRUE)
    BY Zenon DEF ProcessPending
  <1>2. UNCHANGED <<proposals, tmoMsgs, heldTmos>>
    BY Zenon DEF ProcessPending
  <1>3. /\ SteadyChain(proposals, cast) /\ ReplicaOK(o, r, proposals, cast)
        /\ ChainOK(proposals, cast) /\ o \in HotStuffState /\ Steady(o, r, proposals)
    BY AtSteady, Zenon
  <1> HIDE DEF o
  <1>4. b \in proposals /\ ViewOf(b) <= o.pm.curView + 1
    BY <1>1, <1>3, Zenon DEF ReplicaOK, Steady, InStep
  <1>5. ReplicaOK(s, r, proposals, cast)
    BY <1>3, SetPending, Zenon DEF StepOK
  <1>6. /\ s.pm = o.pm /\ s.bc = o.bc /\ s.highQC = o.highQC
        /\ s.bufferedQCs = o.bufferedQCs /\ s.localTmo = o.localTmo
        /\ s.bufferedBlocks = o.bufferedBlocks /\ s.pending = ZeroID
    BY <1>3, Zenon DEF HotStuffState
  <1> HIDE DEF s, b
  <1>7. Steady(s, r, proposals)
    BY <1>3, <1>6, PendingSteady, Zenon
  <1>8. Before(s, r, proposals, b) /\ ViewOf(b) <= s.pm.curView + 1
    BY <1>4, <1>6, <1>7, SteadyBefore, Zenon
  <1>9. PICK t : hs' = [hs EXCEPT ![r] = t] /\ Steady(t, r, proposals) /\ KeepsBlocks(s, t)
    BY <1>1, <1>3, <1>4, <1>5, <1>8, ProcessBlockSteady, Zenon
  <1>10. KeepsBlocks(hs[r], t)
    BY <1>6, <1>9, Zenon DEF KeepsBlocks, o
  <1> QED
    BY <1>2, <1>9, <1>10, SteadyQuietStep, Zenon

\* A vote that the event loop takes.
LEMMA VoteEventSteady ==
    ASSUME IInv, SteadyInv, NEW r \in Replica, VoteEvent(r)
    PROVE  SteadyInv' /\ BlocksKept
  <1>1. PICK vote \in heldVotes : /\ FindLeaderFor(vote.view + 1) = r
                                  /\ hs' = [hs EXCEPT ![r] = ProcessVote(@, r, vote)]
    BY Zenon DEF VoteEvent
  <1> DEFINE t == ProcessVote(hs[r], r, vote)
  <1>2. UNCHANGED <<proposals, tmoMsgs, heldTmos>> /\ hs' = [hs EXCEPT ![r] = t]
    BY <1>1, Zenon DEF VoteEvent
  <1>3. /\ SteadyChain(proposals, cast) /\ ReplicaOK(hs[r], r, proposals, cast)
        /\ Steady(hs[r], r, proposals)
    BY AtSteady, Zenon
  <1>4. vote \in cast
    BY <1>1, Zenon DEF IInv, MessagesOK
  <1>5. Steady(t, r, proposals) /\ t.bufferedBlocks = hs[r].bufferedBlocks
    <2>1. FindLeaderFor(vote.view + 1) = r
      BY <1>1, Zenon
    <2> QED
      BY <1>3, <1>4, <2>1, VoteSteady
  <1> HIDE DEF t
  <1>6. KeepsBlocks(hs[r], t)
    BY <1>5, Zenon DEF KeepsBlocks
  <1> QED
    BY <1>2, <1>5, <1>6, SteadyQuietStep, Zenon

\* The first transaction.
LEMMA HandleTxnSteady ==
    ASSUME IInv, SteadyInv, NEW r \in Replica, HandleTxn(r)
    PROVE  SteadyInv' /\ BlocksKept
  <1> DEFINE s == hs[r]
             t == [s EXCEPT !.pm = AdvanceView(@, r, 0)]
             P == proposals
  <1>1. /\ hs' = [hs EXCEPT ![r] = t] /\ UNCHANGED <<proposals, tmoMsgs, heldTmos>>
        /\ s.pm.curView = 0 /\ IsLeader(r, 1)
    BY Zenon DEF HandleTxn
  <1>2. /\ SteadyChain(P, cast) /\ ReplicaOK(s, r, P, cast)
        /\ s \in HotStuffState /\ Steady(s, r, P)
    BY AtSteady, Zenon
  <1>3. t.pm.curView = 1
    <2>1. s.pm \in PacemakerState /\ 0 >= s.pm.curView /\ 0 + 1 = 1
      BY <1>1, <1>2, StateType
    <2>2. AdvanceView(s.pm, r, 0).curView = 0 + 1
      BY <2>1, AdvanceViewTo, Zenon
    <2>3. t.pm = AdvanceView(s.pm, r, 0)
      BY <1>2, Zenon DEF HotStuffState
    <2> QED
      BY <2>1, <2>2, <2>3, Zenon
  <1>4. /\ t.bc = s.bc /\ t.highQC = s.highQC /\ t.pending = s.pending
        /\ t.bufferedQCs = s.bufferedQCs /\ t.localTmo = s.localTmo
        /\ t.bufferedBlocks = s.bufferedBlocks
    BY <1>2, Zenon DEF HotStuffState
  <1>5. s.highQC.view \in Nat /\ s.bc.vertices \subseteq P
    BY <1>2, StateType, Zenon DEF ReplicaOK, StoreOK
  <1>6. \A x \in P : ViewOf(x) \in Nat /\ ViewOf(x) >= 2
    <2> SUFFICES ASSUME NEW x \in P PROVE ViewOf(x) \in Nat /\ ViewOf(x) >= 2
      BY Zenon
    <2>1. ViewOf(x) \in Nat /\ ViewOf(x) >= 1
      BY <1>2, ChainAt, Zenon
    <2>2. ViewOf(x) # 1
      <3>1. SUFFICES ASSUME ViewOf(x) = 1 PROVE FALSE
        BY Zenon
      <3>2. ViewOf(x) <= s.pm.curView
        BY <1>1, <1>2, <3>1, NoBlockYet, Zenon
      <3> QED
        BY <1>1, <3>1, <3>2
    <2> QED
      BY <2>1, <2>2
  <1> HIDE DEF t, P
  <1>7. s.bc.vertices = {}
    <2>1. \A x \in s.bc.vertices : /\ ViewOf(x) \in Nat /\ ViewOf(x) >= 2
                                   /\ ViewOf(x) <= 0 + 1
      BY <1>1, <1>2, <1>5, <1>6, Zenon DEF Steady, InStep
    <2>2. \A x \in s.bc.vertices : FALSE
      BY <2>1
    <2> QED
      BY <2>2, Zenon
  <1>8. InStep(t, r, P)
    <2>1. t.highQC.view + 1 >= t.pm.curView
      BY <1>3, <1>4, <1>5
    <2>2. t.pending # ZeroID => ViewOf(t.pending) <= t.pm.curView + 1
      <3>1. t.pending # ZeroID => t.pending \in P /\ ViewOf(t.pending) <= 0 + 1
        BY <1>1, <1>2, <1>4, Zenon DEF ReplicaOK, Steady, InStep
      <3> QED
        BY <1>3, <1>6, <3>1
    <2>3. /\ \A q \in t.bufferedQCs : q # InitialQC /\ (q.view <= 2 => IsLeader(r, q.view + 1))
          /\ t.localTmo = NoTimeout
      BY <1>2, <1>4, Zenon DEF Steady, InStep
    <2> QED
      BY <1>1, <1>3, <1>4, <1>7, <2>1, <2>2, <2>3, Zenon DEF InStep
  <1>9. LedgerAt(t, P)
    <2>1. s.bc.lowestLevel = 0 /\ Len(s.bc.committed) = 0
      BY <1>1, <1>2 DEF Steady, LedgerAt
    <2> QED
      BY <1>3, <1>4, <2>1 DEF LedgerAt
  <1>10. Early(t) /\ Kept(t, P)
    BY <1>3, <1>4, <1>6, <1>7 DEF Early, Kept
  <1>11. Steady(t, r, P) /\ KeepsBlocks(s, t)
    BY <1>4, <1>8, <1>9, <1>10, Zenon DEF Steady, KeepsBlocks
  <1> QED
    BY <1>1, <1>11, SteadyQuietStep, Zenon DEF P

\* A leader that takes view v from its queue is in view v, holds the QC of view
\* v - 1, and v is later than all views that have a block.
LEMMA NewViewIsNext ==
    ASSUME IInv, SteadyInv, NEW r \in Replica, NEW v \in Nat, IsLeader(r, v),
           v >= 1, v <= hs[r].pm.curView,
           \A x \in proposals : ProposerOf(x) = r => ViewOf(x) < v
    PROVE  /\ \A x \in proposals : ViewOf(x) < v
           /\ hs[r].highQC.view + 1 = v /\ hs[r].pm.curView = v
           /\ \A q \in Replica : hs[q].pm.curView <= v
           /\ \A q \in Replica \ {r} : hs[q].pm.curView = v => v > 2
  <1> DEFINE P == proposals
  <1>1. /\ SteadyChain(P, cast)
        /\ \A q \in Replica : /\ ReplicaOK(hs[q], q, P, cast) /\ hs[q] \in HotStuffState
                              /\ Steady(hs[q], q, P)
    BY AtSteady, Zenon
  <1>2. ASSUME NEW x \in P PROVE ViewOf(x) \in Nat /\ ViewOf(x) < v
    <2>1. ViewOf(x) \in Nat
      BY <1>1, ChainAt, Zenon
    <2>2. SUFFICES ASSUME ViewOf(x) >= v PROVE FALSE
      BY <2>1
    <2>3. v \in 1..ViewOf(x)
      BY <2>1, <2>2
    <2>4. AtHeight(x, v) \in P /\ ViewOf(AtHeight(x, v)) = v
      BY <1>1, <2>3, ChainAt, Zenon
    <2>5. ProposerOf(AtHeight(x, v)) \in Replica /\ IsLeader(ProposerOf(AtHeight(x, v)), v)
      BY <1>1, <2>4, BlockType, ChainAt, Zenon DEF SteadyChain
    <2>6. ProposerOf(AtHeight(x, v)) = r
      BY <2>5, UniqueLeader, Zenon
    <2> QED
      BY <2>4, <2>6
  <1>3. ASSUME NEW q \in Replica
        PROVE  /\ hs[q].pm.curView <= v
               /\ hs[q].pm.curView >= v => hs[q].highQC.view + 1 = v /\ hs[q].pm.curView = v
    <2> DEFINE s == hs[q]
    <2>1. Steady(s, q, P) /\ ReplicaOK(s, q, P, cast) /\ s \in HotStuffState
      BY <1>1, Zenon
    <2> HIDE DEF s
    <2>2. /\ s.highQC.view \in Nat /\ s.pm.curView \in Nat
          /\ s.highQC.view + 1 >= s.pm.curView /\ Backed(s.highQC, P, cast)
      BY <2>1, StateType, Zenon DEF Steady, InStep, ReplicaOK
    <2>3. s.highQC.view < v
      <3>1. CASE s.highQC = InitialQC
        BY <3>1 DEF InitialQC
      <3>2. CASE s.highQC # InitialQC
        BY <1>2, <2>2, <3>2, Zenon DEF Backed
      <3> QED
        BY <3>1, <3>2, Zenon
    <2>4. s.pm.curView <= v /\ (s.pm.curView >= v => s.highQC.view + 1 = v /\ s.pm.curView = v)
      BY <2>2, <2>3
    <2> QED
      BY <2>4, Zenon DEF s
  <1>4. \A q \in Replica : hs[q].pm.curView <= v
    BY <1>3, Zenon
  <1>5. hs[r].highQC.view + 1 = v /\ hs[r].pm.curView = v
    BY <1>3, Zenon
  <1>6. ASSUME NEW q \in Replica \ {r}, hs[q].pm.curView = v PROVE v > 2
    <2>1. SUFFICES ASSUME v \in 1..2 PROVE FALSE
      OBVIOUS
    <2>2. IsLeader(q, v) \/ \E x \in P : ViewOf(x) = v
      <3> DEFINE s == hs[q]
      <3>1. Steady(s, q, P) /\ s.pm.curView = v
        BY <1>1, <1>6, Zenon
      <3> HIDE DEF s
      <3> QED
        BY <2>1, <3>1, Zenon DEF Steady, InStep
    <2>3. ~\E x \in P : ViewOf(x) = v
      BY <1>2
    <2>4. q = r
      BY <2>2, <2>3, UniqueLeader, Zenon
    <2> QED
      BY <2>4, Zenon
  <1> QED
    BY <1>2, <1>4, <1>5, <1>6, Zenon

\* A new block does not disturb the replicas that are not past its view.
LEMMA SteadyMonotone ==
    ASSUME NEW s, NEW r, NEW P, NEW b, InStep(s, r, P), LedgerAt(s, P)
    PROVE  /\ InStep(s, r, P \union {b}) /\ LedgerAt(s, P \union {b})
           /\ Kept(s, P) /\ (\/ ViewOf(b) > s.pm.curView
                             \/ ViewOf(b) = s.pm.curView /\ ViewOf(b) > 2)
                => Kept(s, P \union {b})
           /\ Kept(s, P) => Kept(s, (P \union {b}) \ {b})
  <1>1. InStep(s, r, P \union {b})
    BY Zenon DEF InStep
  <1>2. LedgerAt(s, P \union {b})
    BY Zenon DEF LedgerAt
  <1> QED
    BY <1>1, <1>2, Zenon DEF Kept

\* A leader proposes.
LEMMA ProcessNewViewSteady ==
    ASSUME IInv, SteadyInv, NEW r \in Replica, ProcessNewView(r)
    PROVE  SteadyInv' /\ BlocksKept
  <1> DEFINE v == Head(hs[r].pm.newViews)
             b == MakeBlock(v, hs[r].highQC, r, hs[r].proposedNo)
             s == TakeNewView(hs[r])
             P == proposals
             Q == proposals \union {b}
             nv == hs[r].pm.newViews
  <1>1. /\ proposals' = Q /\ QCOf(b) = hs[r].highQC /\ ProposerOf(b) = r
        /\ ChainOK(proposals', cast) /\ ReplicaOK(s, r, proposals', cast)
        /\ ProcessBlock(r, s, b, FALSE)
    BY NewBlock, Zenon
  <1>2. UNCHANGED <<tmoMsgs, heldTmos>> /\ nv # << >>
    BY Zenon DEF ProcessNewView
  <1>3. /\ SteadyChain(P, cast) /\ ChainOK(P, cast)
        /\ \A q \in Replica : /\ ReplicaOK(hs[q], q, P, cast) /\ hs[q] \in HotStuffState
                              /\ Steady(hs[q], q, P)
    BY AtSteady, Zenon
  <1>4. /\ nv \in Seq(Nat) /\ hs[r].highQC \in QC /\ hs[r].proposedNo \in Nat
        /\ v \in Nat /\ Tail(nv) \in Seq(Nat) /\ v = nv[1] /\ 1 \in 1..Len(nv)
    <2>1. nv \in Seq(Nat) /\ hs[r].highQC \in QC /\ hs[r].proposedNo \in Nat
      BY <1>3, StateType, Zenon DEF HotStuffState, PacemakerState
    <2>2. Len(nv) \in Nat /\ Len(nv) # 0
      BY <1>2, <2>1
    <2>3. v = nv[1] /\ 1 \in 1..Len(nv)
      BY <1>2, <2>1, <2>2
    <2>4. Tail(nv) \in Seq(Nat)
      <3> HIDE DEF nv
      <3> QED
        BY <2>1, <2>2
    <2>5. v \in Nat
      <3>1. nv[1] \in Nat
        <4> HIDE DEF nv
        <4> QED
          BY <2>1, <2>3
      <3> QED
        BY <2>3, <3>1, Zenon
    <2> QED
      BY <2>1, <2>3, <2>4, <2>5, Zenon
  <1>5. b \in Block /\ ViewOf(b) = v /\ QCOf(b) = hs[r].highQC
    BY <1>4, MakeBlockProperties
  <1>6. /\ v >= 1 /\ IsLeader(r, v) /\ v <= hs[r].pm.curView
        /\ \A x \in P : ProposerOf(x) = r => ViewOf(x) < v
    <2> DEFINE pm == hs[r].pm
    <2>1. PacemakerOK(pm, r, P)
      BY <1>3, Zenon DEF ReplicaOK
    <2>2. v = pm.newViews[1] /\ 1 \in 1..Len(pm.newViews)
      BY <1>4, Zenon
    <2> HIDE DEF v, pm
    <2>3. /\ v >= 1 /\ IsLeader(r, v) /\ v <= pm.curView
          /\ \A x \in P : ProposerOf(x) = r => ViewOf(x) < v
      BY <2>1, <2>2, Zenon DEF PacemakerOK
    <2> QED
      BY <2>3, Zenon DEF pm
  <1> HIDE DEF b, v, nv
  <1>7. /\ hs[r].highQC.view + 1 = v /\ hs[r].pm.curView = v
        /\ \A q \in Replica : hs[q].pm.curView <= v
        /\ \A q \in Replica \ {r} : hs[q].pm.curView = v => v > 2
    BY <1>4, <1>6, NewViewIsNext
  <1>8. OneChain(Q)
    <2>1. Backed(QCOf(b), P, cast) /\ QCOf(b).view + 1 = ViewOf(b)
      BY <1>3, <1>5, <1>7, Zenon DEF ReplicaOK
    <2> QED
      BY <1>3, <1>5, <2>1, ProposeChain, Zenon DEF SteadyChain
  <1>9. SteadyChain(Q, cast)
    <2>1. ProposalsOK' /\ NoEquivocation'
      BY ProcessNewViewOK, Zenon DEF IInv
    <2>2. (\A x \in Q : ViewOf(x) >= 1 /\ IsLeader(ProposerOf(x), ViewOf(x)))
      BY <1>1, <2>1, Zenon DEF ProposalsOK
    <2>3. \A x, y \in Q : ViewOf(x) = ViewOf(y) => x = y
      BY <1>1, <2>1, Zenon DEF NoEquivocation
    <2>4. ChainOK(Q, cast)
      BY <1>1, Zenon
    <2> QED
      BY <1>8, <2>2, <2>3, <2>4, Zenon DEF SteadyChain
  <1>10. ASSUME NEW q \in Replica \ {r} PROVE Steady(hs[q], q, Q)
    <2>1. InStep(hs[q], q, P) /\ LedgerAt(hs[q], P) /\ Early(hs[q]) /\ Kept(hs[q], P)
      BY <1>3, Zenon DEF Steady
    <2>2. hs[q].pm.curView \in Nat
      BY <1>3, StateType, Zenon
    <2>3. ViewOf(b) > hs[q].pm.curView \/ (ViewOf(b) = hs[q].pm.curView /\ ViewOf(b) > 2)
      <3> DEFINE w == hs[q].pm.curView
      <3>1. v \in Nat /\ w \in Nat /\ w <= v /\ (w = v => v > 2)
        BY <1>4, <1>7, <2>2, Zenon
      <3> HIDE DEF w
      <3>2. v > w \/ (v = w /\ v > 2)
        BY <3>1
      <3> QED
        BY <1>5, <3>2, Zenon DEF w
    <2> QED
      BY <2>1, <2>3, SteadyMonotone, Zenon DEF Steady
  <1>11. Before(s, r, Q, b) /\ s.bufferedBlocks = hs[r].bufferedBlocks
    <2>1. /\ s \in HotStuffState /\ s.pm.curView = hs[r].pm.curView /\ s.bc = hs[r].bc
          /\ s.highQC = hs[r].highQC /\ s.bufferedQCs = hs[r].bufferedQCs
          /\ s.pending = hs[r].pending /\ s.bufferedBlocks = hs[r].bufferedBlocks
      BY <1>3, <1>4, TakeNewViewType, Zenon DEF nv
    <2>2. s.localTmo = hs[r].localTmo
      BY <1>3, Zenon DEF TakeNewView, HotStuffState
    <2> HIDE DEF s
    <2>3. Alike(hs[r], s)
      <3> DEFINE o == hs[r]
      <3>1. o.highQC.view \in Nat
        BY <1>3, StateType, Zenon
      <3> HIDE DEF o
      <3>2. Alike(o, s)
        BY <2>1, <2>2, <3>1 DEF Alike, o
      <3> QED
        BY <3>2, Zenon DEF o
    <2>4. InStep(s, r, P) /\ LedgerAt(s, P) /\ Early(s) /\ Kept(s, P)
      BY <1>3, <2>1, <2>3, AlikeSteady, Zenon DEF Steady
    <2>5. InStep(s, r, Q) /\ LedgerAt(s, Q) /\ Kept(s, Q \ {b})
      BY <2>4, SteadyMonotone, Zenon
    <2>6. ~(ViewOf(b) < s.pm.curView)
      <3>1. ViewOf(b) = v /\ s.pm.curView = v
        BY <1>5, <1>7, <2>1, Zenon
      <3> QED
        BY <1>4, <3>1
    <2> QED
      BY <2>1, <2>4, <2>5, <2>6, Zenon DEF Before
  <1> HIDE DEF s
  <1>12. PICK t : hs' = [hs EXCEPT ![r] = t] /\ Steady(t, r, Q) /\ KeepsBlocks(s, t)
    <2>1. ReplicaOK(s, r, Q, cast) /\ b \in Q /\ ProcessBlock(r, s, b, FALSE)
      BY <1>1, Zenon
    <2>2. FALSE => ViewOf(b) <= s.pm.curView + 1
      BY Zenon
    <2> HIDE DEF Q
    <2> QED
      BY <1>9, <1>11, <2>1, <2>2, ProcessBlockSteady, Zenon
  <1>13. hs'[r] = t /\ \A q \in Replica \ {r} : hs'[q] = hs[q]
    BY <1>12, Zenon DEF IInv
  <1>14. \A q \in Replica : Steady(hs'[q], q, proposals')
    BY <1>1, <1>10, <1>12, <1>13, Zenon
  <1>15. BlocksKept
    BY <1>11, <1>12, <1>13, Zenon DEF BlocksKept, KeepsBlocks
  <1>16. OneChain(proposals') /\ tmoMsgs' = {} /\ heldTmos' = {}
    BY <1>1, <1>2, <1>8, Zenon DEF SteadyInv
  <1> QED
    BY <1>14, <1>15, <1>16, Zenon DEF SteadyInv

\* The invariant is inductive as long as no timer fires.
LEMMA NextSteady ==
    ASSUME NoTimers, IInv, SteadyInv, [Next]_vars
    PROVE  SteadyInv' /\ BlocksKept
  <1>1. CASE UNCHANGED hs /\ UNCHANGED <<proposals, tmoMsgs, heldTmos>>
    <2>1. hs' = hs /\ proposals' = proposals /\ tmoMsgs' = tmoMsgs /\ heldTmos' = heldTmos
      BY <1>1, Zenon
    <2> QED
      BY <2>1, Zenon DEF SteadyInv, BlocksKept, KeepsBlocks
  <1>2. CASE UNCHANGED vars
    BY <1>1, <1>2, Zenon DEF vars
  <1>3. ASSUME NEW r \in Replica, HandleVote(r) PROVE SteadyInv' /\ BlocksKept
    BY <1>1, <1>3, Zenon DEF HandleVote
  <1>4. ASSUME NEW r \in Replica, HandleTmo(r) \/ TmoEvent(r) PROVE FALSE
    BY <1>4, Zenon DEF HandleTmo, TmoEvent, SteadyInv
  <1>5. ASSUME NEW r \in Replica, TimerFires(r) PROVE FALSE
    BY <1>5, Zenon DEF TimerFires, NoTimers
  <1>6. ASSUME NEW r \in Replica, ProcessLocalTmo(r) PROVE FALSE
    BY <1>6, Zenon DEF ProcessLocalTmo, SteadyInv, Steady, InStep
  <1> QED
    BY <1>2, <1>3, <1>4, <1>5, <1>6, HandleTxnSteady, ProcessNewViewSteady,
       HandleBlockSteady, ProcessPendingSteady, VoteEventSteady, Zenon DEF Next

\* It holds initially.
LEMMA InitSteady == Init => SteadyInv
  <1> SUFFICES ASSUME Init PROVE SteadyInv
    BY Zenon
  <1> DEFINE s == NewHotStuff
  <1>1. /\ proposals = {} /\ tmoMsgs = {} /\ heldTmos = {}
        /\ \A r \in Replica : hs[r] = s
    BY Zenon DEF Init
  <1>2. /\ s.pm.curView = 0 /\ s.highQC.view = 0 /\ s.bc.vertices = {}
        /\ s.bc.lowestLevel = 0 /\ s.bc.committed = << >> /\ s.bufferedQCs = {}
        /\ s.pending = ZeroID /\ s.localTmo = NoTimeout
    BY Zenon DEF NewHotStuff, NewPacemaker, NewBlockchain, InitialQC
  <1> HIDE DEF s
  <1>3. ASSUME NEW r PROVE Steady(s, r, {})
    <2>1. InStep(s, r, {})
      BY <1>2 DEF InStep
    <2>2. LedgerAt(s, {})
      BY <1>2 DEF LedgerAt
    <2>3. Early(s) /\ Kept(s, {})
      BY <1>2, Zenon DEF Early, Kept
    <2> QED
      BY <2>1, <2>2, <2>3, Zenon DEF Steady
  <1> QED
    BY <1>1, <1>3, Zenon DEF SteadyInv, OneChain

-----------------------------------------------------------------------------
(* Results *)

\* What a replica has delivered: the block of view i is the i-th.
LEMMA DeliveredAt ==
    ASSUME IInv, SteadyInv, NEW r \in Replica
    PROVE  LET c == hs[r].bc.committed
           IN  /\ c \in Seq(Block) /\ Len(c) \in Nat /\ DOMAIN c = 1..Len(c)
               /\ \A i \in 1..Len(c) : c[i] \in proposals /\ ViewOf(c[i]) = i
  <1>1. hs[r] \in HotStuffState /\ Steady(hs[r], r, proposals)
    BY AtSteady, Zenon
  <1>2. hs[r].bc.committed \in Seq(Block)
    BY <1>1, StateType, Zenon
  <1> QED
    BY <1>1, <1>2 DEF Steady, LedgerAt

\* Two sequences of which one starts with the other.
LEMMA PrefixExtends ==
    ASSUME NEW a \in Seq(Block), NEW b \in Seq(Block), Len(a) <= Len(b),
           \A i \in 1..Len(a) : b[i] = a[i]
    PROVE  Extends(b, a)
  <1> DEFINE m == Len(a)
             n == Len(b)
             c == SubSeq(b, 1, m)
  <1>1. m \in Nat /\ n \in Nat /\ m <= n
    OBVIOUS
  <1> HIDE DEF m, n
  <1>2. \A i \in 1..m : i \in 1..n
    BY <1>1
  <1>3. c \in Seq(Block) /\ Len(c) = m /\ \A i \in 1..m : c[i] = b[i]
    <2>1. \A i \in 1..m : b[i] \in Block
      BY <1>2 DEF n
    <2>2. c = [i \in 1..m |-> b[i]]
      BY <1>1, <1>2 DEF n
    <2> QED
      BY <1>1, <2>1, <2>2
  <1>4. c = a
    BY <1>3 DEF m
  <1> QED
    BY <1>1, <1>4, Zenon DEF Extends, m, n

\* All replicas deliver the same blocks in the same order.
LEMMA SteadyOrder ==
    ASSUME IInv, SteadyInv
    PROVE  UniqueOrder
  <1>1. ASSUME NEW r \in Replica, NEW q \in Replica,
               Len(hs[r].bc.committed) <= Len(hs[q].bc.committed)
        PROVE  Extends(hs[q].bc.committed, hs[r].bc.committed)
    <2> DEFINE a == hs[r].bc.committed
               b == hs[q].bc.committed
    <2>1. /\ a \in Seq(Block) /\ Len(a) \in Nat
          /\ \A i \in 1..Len(a) : a[i] \in proposals /\ ViewOf(a[i]) = i
      BY DeliveredAt, Zenon
    <2>2. /\ b \in Seq(Block) /\ Len(b) \in Nat
          /\ \A i \in 1..Len(b) : b[i] \in proposals /\ ViewOf(b[i]) = i
      BY DeliveredAt, Zenon
    <2>3. \A x, y \in proposals : ViewOf(x) = ViewOf(y) => x = y
      BY Zenon DEF IInv, NoEquivocation
    <2>4. Len(a) <= Len(b)
      BY <1>1, Zenon
    <2> HIDE DEF a, b
    <2>5. \A i \in 1..Len(a) : b[i] = a[i]
      <3>1. \A i \in 1..Len(a) : i \in 1..Len(b)
        BY <2>1, <2>2, <2>4
      <3> QED
        BY <2>1, <2>2, <2>3, <3>1
    <2>6. Extends(b, a)
      BY <2>1, <2>2, <2>4, <2>5, PrefixExtends, Zenon
    <2> QED
      BY <2>6, Zenon DEF a, b
  <1>2. \A r \in Replica : Len(hs[r].bc.committed) \in Nat
    BY DeliveredAt, Zenon
  <1>3. ASSUME NEW r \in Replica, NEW q \in Replica
        PROVE  \/ Len(hs[r].bc.committed) <= Len(hs[q].bc.committed)
               \/ Len(hs[q].bc.committed) <= Len(hs[r].bc.committed)
    <2> DEFINE m == Len(hs[r].bc.committed)
               n == Len(hs[q].bc.committed)
    <2>1. m \in Nat /\ n \in Nat
      BY <1>2, Zenon
    <2> HIDE DEF m, n
    <2>2. m <= n \/ n <= m
      BY <2>1
    <2> QED
      BY <2>2, Zenon DEF m, n
  <1> QED
    BY <1>1, <1>3, Zenon DEF UniqueOrder

\* No replica delivers a block without all of its ancestors.
LEMMA SteadyPrefix ==
    ASSUME IInv, SteadyInv
    PROVE  PrefixFinalized
  <1> SUFFICES ASSUME NEW r \in Replica, NEW i \in DOMAIN hs[r].bc.committed,
                      NEW h \in 1..Len(hs[r].bc.committed[i])
               PROVE  \E j \in DOMAIN hs[r].bc.committed :
                          hs[r].bc.committed[j] = AtHeight(hs[r].bc.committed[i], h)
    BY Zenon DEF PrefixFinalized
  <1> DEFINE c == hs[r].bc.committed
             b == c[i]
  <1>1. /\ c \in Seq(Block) /\ Len(c) \in Nat /\ DOMAIN c = 1..Len(c)
        /\ \A k \in 1..Len(c) : c[k] \in proposals /\ ViewOf(c[k]) = k
    BY DeliveredAt, Zenon
  <1> HIDE DEF c
  <1>2. i \in 1..Len(c) /\ b \in proposals /\ ViewOf(b) = i /\ h \in 1..Len(b)
    BY <1>1, Zenon DEF c
  <1>3. SteadyChain(proposals, cast)
    BY AtSteady, Zenon
  <1> HIDE DEF b
  <1>4. Len(b) = i /\ AtHeight(b, h) \in proposals /\ ViewOf(AtHeight(b, h)) = h
    BY <1>2, <1>3, Zenon DEF SteadyChain, OneChain
  <1>5. h \in 1..Len(c)
    BY <1>1, <1>2, <1>4
  <1>6. c[h] = AtHeight(b, h)
    BY <1>1, <1>3, <1>4, <1>5, Zenon DEF SteadyChain
  <1> QED
    BY <1>1, <1>5, <1>6, Zenon DEF b, c

\* All delivered blocks are on one chain.
LEMMA SteadySingleChain ==
    ASSUME IInv, SteadyInv
    PROVE  SingleChain
  <1>1. SteadyChain(proposals, cast)
    BY AtSteady, Zenon
  <1>2. ASSUME NEW a \in proposals, NEW b \in proposals, ViewOf(a) <= ViewOf(b)
        PROVE  Extends(b, a)
    <2>1. /\ Len(a) = ViewOf(a) /\ Len(b) = ViewOf(b) /\ ViewOf(a) \in Nat
          /\ ViewOf(b) \in Nat /\ ViewOf(a) >= 1
      BY <1>1, ChainAt, Zenon DEF SteadyChain, OneChain
    <2>2. ViewOf(a) \in 1..ViewOf(b)
      BY <1>2, <2>1
    <2>3. AtHeight(b, ViewOf(a)) \in proposals /\ ViewOf(AtHeight(b, ViewOf(a))) = ViewOf(a)
      BY <1>1, <2>2, ChainAt, Zenon
    <2>4. AtHeight(b, ViewOf(a)) = a
      BY <1>1, <2>3, Zenon DEF SteadyChain
    <2> QED
      BY <1>2, <2>1, <2>4, Zenon DEF Extends, AtHeight
  <1>3. ASSUME NEW a \in proposals, NEW b \in proposals PROVE ~Conflict(a, b)
    <2>1. ViewOf(a) \in Nat /\ ViewOf(b) \in Nat
      BY <1>1, ChainAt, Zenon
    <2>2. ViewOf(a) <= ViewOf(b) \/ ViewOf(b) <= ViewOf(a)
      BY <2>1
    <2> QED
      BY <1>2, <2>2, Zenon DEF Conflict
  <1>4. \A r \in Replica : \A i \in DOMAIN hs[r].bc.committed :
          hs[r].bc.committed[i] \in proposals
    <2> SUFFICES ASSUME NEW r \in Replica, NEW i \in DOMAIN hs[r].bc.committed
                 PROVE  hs[r].bc.committed[i] \in proposals
      BY Zenon
    <2> DEFINE c == hs[r].bc.committed
    <2>1. DOMAIN c = 1..Len(c) /\ \A k \in 1..Len(c) : c[k] \in proposals
      BY DeliveredAt, Zenon
    <2> QED
      BY <2>1, Zenon
  <1> QED
    BY <1>3, <1>4, Zenon DEF SingleChain

-----------------------------------------------------------------------------
(* The theorems *)

\* The facts about finite sets that the lemmas rest on are used from here on only.
INSTANCE FiniteSetTheorems

\* What the lemmas assume about the sizes of finite sets holds.
LEMMA CountingHolds == Counting
  <1>1. SubsetSize
    BY FS_CardinalityType, FS_Subset, Zenon DEF SubsetSize
  <1>2. UnionSize
    BY FS_Union, Zenon DEF UnionSize
  <1>3. IntervalSize
    BY FS_Interval, Zenon DEF IntervalSize
  <1>4. SmallSize
    BY FS_EmptySet, FS_Singleton, Zenon DEF SmallSize
  <1> QED
    BY <1>1, <1>2, <1>3, <1>4, Zenon DEF Counting

\* The invariant holds in every state.
LEMMA Invariance == Spec => []IInv
  <1>1. Init => IInv
    BY CountingHolds, InitOK, Zenon
  <1>2. IInv /\ [Next]_vars => IInv'
    BY NextIInv, Zenon
  <1> QED
    BY <1>1, <1>2, PTL DEF Spec

\* As long as no timer fires, there is one chain and every replica is in step.
LEMMA SteadyInvariance ==
    ASSUME NoTimers
    PROVE  Spec => [](IInv /\ SteadyInv)
  <1>1. Init => SteadyInv
    BY InitSteady, Zenon
  <1>2. IInv /\ SteadyInv /\ [Next]_vars => SteadyInv'
    BY NextSteady, Zenon
  <1> QED
    BY <1>1, <1>2, Invariance, PTL DEF Spec

\* All replicas deliver the same blocks in the same order as long as no timer
\* fires, for any number of replicas and views, whatever is lost or reordered.
THEOREM OneOrder ==
    ASSUME NoTimers
    PROVE  Spec => []UniqueOrder
  <1>1. IInv /\ SteadyInv => UniqueOrder
    BY SteadyOrder, Zenon
  <1> QED
    BY <1>1, SteadyInvariance, PTL

\* And no replica delivers a block without all of its ancestors.
THEOREM NoGapWithoutTimers ==
    ASSUME NoTimers
    PROVE  Spec => []PrefixFinalized
  <1>1. IInv /\ SteadyInv => PrefixFinalized
    BY SteadyPrefix, Zenon
  <1> QED
    BY <1>1, SteadyInvariance, PTL

\* And no two finalized blocks are on different branches.
THEOREM NoForkWithoutTimers ==
    ASSUME NoTimers
    PROVE  Spec => []SingleChain
  <1>1. IInv /\ SteadyInv => SingleChain
    BY SteadySingleChain, Zenon
  <1> QED
    BY <1>1, SteadyInvariance, PTL

\* And no block that arrived early is dropped before it is stored or stale.
THEOREM EarlyBlocksKept ==
    ASSUME NoTimers
    PROVE  Spec => BufferedBlocksKept
  <1>1. IInv /\ SteadyInv /\ [Next]_vars => BlocksKept
    BY NextSteady, Zenon
  <1>2. BlocksKept =>
          \A r \in Replica : \A b \in hs[r].bufferedBlocks :
            \/ b \in hs'[r].bufferedBlocks
            \/ b \in hs'[r].bc.vertices
            \/ ViewOf(b) < hs'[r].pm.curView
    BY Zenon DEF BlocksKept, KeepsBlocks
  <1> QED
    BY <1>1, <1>2, SteadyInvariance, PTL DEF Spec, BufferedBlocksKept

=============================================================================

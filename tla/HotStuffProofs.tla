--------------------------- MODULE HotStuffProofs ---------------------------
(***************************************************************************)
(* The inductive invariant of HotStuff, for every number of replicas and   *)
(* views: there is one block per view, every QC is backed by votes, only   *)
(* certified blocks are delivered, and no replica goes back; and what a    *)
(* step can do once views 1 and 2 were given up.  HotStuffLedgerProofs     *)
(* draws the conclusions.                                                  *)
(***************************************************************************)
EXTENDS HotStuff, BlockChainProofs

-----------------------------------------------------------------------------
(* The invariant of a replica *)

\* A replica knows proposed blocks and backed QCs only.
ReplicaOK(s, r, P, C) ==
    /\ s \in HotStuffState
    /\ PacemakerOK(s.pm, r, P)
    /\ StoreOK(s.bc, P, C)
    /\ Backed(s.highQC, P, C)
    /\ \A qc \in s.bufferedQCs : Backed(qc, P, C)
    /\ s.bufferedBlocks \subseteq P
    /\ s.pending = ZeroID \/ s.pending \in P

\* What a step of a replica may change: everything grows.
Grows(s, t) ==
    /\ t.pm.curView >= s.pm.curView
    /\ t.preferredView >= s.preferredView
    /\ t.highQC.view >= s.highQC.view
    /\ t.bc.lowestLevel >= s.bc.lowestLevel
    /\ Extends(t.bc.committed, s.bc.committed)

\* The types of the parts of a replica's state.
LEMMA StateType ==
    ASSUME NEW s \in HotStuffState
    PROVE  /\ s.pm \in PacemakerState /\ s.pm.curView \in Nat
           /\ s.bc \in BlockChainState /\ s.bc.lowestLevel \in Nat
           /\ s.bc.committed \in Seq(Block)
           /\ s.preferredView \in Nat
           /\ s.highQC \in QC /\ s.highQC.view \in Nat
  <1>1. /\ s.pm \in PacemakerState /\ s.bc \in BlockChainState
        /\ s.preferredView \in Nat /\ s.highQC \in QC
    BY Zenon DEF HotStuffState
  <1> QED
    BY <1>1, Zenon DEF PacemakerState, BlockChainState, QC

\* Grows is a preorder on replica states.
LEMMA GrowsReflexive ==
    ASSUME NEW s \in HotStuffState
    PROVE  Grows(s, s)
  BY StateType, ExtendsReflexive DEF Grows

\* Grows is transitive.
LEMMA GrowsTransitive ==
    ASSUME NEW s \in HotStuffState, NEW t \in HotStuffState, NEW u \in HotStuffState,
           Grows(s, t), Grows(t, u)
    PROVE  Grows(s, u)
  <1>1. /\ s.bc.committed \in Seq(Block)
        /\ t.bc.committed \in Seq(Block)
        /\ u.bc.committed \in Seq(Block)
    BY StateType, Zenon
  <1>2. Extends(t.bc.committed, s.bc.committed) /\ Extends(u.bc.committed, t.bc.committed)
    BY Zenon DEF Grows
  <1>3. Extends(u.bc.committed, s.bc.committed)
    BY <1>1, <1>2, ExtendsTransitive, Zenon
  <1>4. \A x \in {s, t, u} : /\ x.pm.curView \in Nat
                             /\ x.preferredView \in Nat
                             /\ x.highQC.view \in Nat
                             /\ x.bc.lowestLevel \in Nat
    BY StateType, Zenon
  <1> QED
    BY <1>3, <1>4 DEF Grows

-----------------------------------------------------------------------------
(* One field at a time *)

\* Replacing the pacemaker by a later one.
LEMMA SetPacemaker ==
    ASSUME NEW P, NEW C, NEW r, NEW s, ReplicaOK(s, r, P, C),
           NEW pm, PacemakerOK(pm, r, P), pm.curView >= s.pm.curView
    PROVE  LET t == [s EXCEPT !.pm = pm]
           IN  ReplicaOK(t, r, P, C) /\ Grows(s, t) /\ t.bc = s.bc
  <1> DEFINE t == [s EXCEPT !.pm = pm]
  <1>1. s \in HotStuffState /\ pm \in PacemakerState
    BY Zenon DEF ReplicaOK, PacemakerOK
  <1>2. /\ t \in HotStuffState
        /\ t.pm = pm /\ t.bc = s.bc /\ t.preferredView = s.preferredView
        /\ t.highQC = s.highQC /\ t.bufferedQCs = s.bufferedQCs
        /\ t.bufferedBlocks = s.bufferedBlocks /\ t.pending = s.pending
    BY <1>1, Zenon DEF HotStuffState
  <1> HIDE DEF t
  <1>3. ReplicaOK(t, r, P, C)
    BY <1>2, Zenon DEF ReplicaOK
  <1>4. Grows(s, s)
    BY <1>1, GrowsReflexive, Zenon
  <1>5. Grows(s, t)
    BY <1>2, <1>4, Zenon DEF Grows
  <1> QED
    BY <1>2, <1>3, <1>5, Zenon DEF t

\* Replacing the block store by one that has delivered more.
LEMMA SetStore ==
    ASSUME NEW P, NEW C, NEW r, NEW s, ReplicaOK(s, r, P, C),
           NEW bc, StoreOK(bc, P, C), bc.lowestLevel >= s.bc.lowestLevel,
           Extends(bc.committed, s.bc.committed)
    PROVE  LET t == [s EXCEPT !.bc = bc]
           IN  ReplicaOK(t, r, P, C) /\ Grows(s, t) /\ t.bc = bc
  <1> DEFINE t == [s EXCEPT !.bc = bc]
  <1>1. s \in HotStuffState /\ bc \in BlockChainState
    BY Zenon DEF ReplicaOK, StoreOK
  <1>2. /\ t \in HotStuffState
        /\ t.pm = s.pm /\ t.bc = bc /\ t.preferredView = s.preferredView
        /\ t.highQC = s.highQC /\ t.bufferedQCs = s.bufferedQCs
        /\ t.bufferedBlocks = s.bufferedBlocks /\ t.pending = s.pending
    BY <1>1, Zenon DEF HotStuffState
  <1> HIDE DEF t
  <1>3. ReplicaOK(t, r, P, C)
    BY <1>2, Zenon DEF ReplicaOK
  <1>4. Grows(s, s)
    BY <1>1, GrowsReflexive, Zenon
  <1>5. Grows(s, t)
    BY <1>2, <1>4, Zenon DEF Grows
  <1> QED
    BY <1>2, <1>3, <1>5, Zenon DEF t

\* updateHighQC only raises the highest QC.
LEMMA UpdateHighQCOK ==
    ASSUME NEW P, NEW C, NEW r, NEW s, ReplicaOK(s, r, P, C),
           NEW qc \in QC, Backed(qc, P, C)
    PROVE  LET t == UpdateHighQC(s, qc)
           IN  ReplicaOK(t, r, P, C) /\ Grows(s, t) /\ t.bc = s.bc
  <1> DEFINE t == UpdateHighQC(s, qc)
  <1>1. s \in HotStuffState /\ s.highQC.view \in Nat /\ qc.view \in Nat
    BY StateType, Zenon DEF ReplicaOK, QC
  <1>2. Grows(s, s)
    BY <1>1, GrowsReflexive, Zenon
  <1>3. CASE qc.view > s.highQC.view
    <2>1. /\ t \in HotStuffState
          /\ t.pm = s.pm /\ t.bc = s.bc /\ t.preferredView = s.preferredView
          /\ t.highQC = qc /\ t.bufferedQCs = s.bufferedQCs
          /\ t.bufferedBlocks = s.bufferedBlocks /\ t.pending = s.pending
      BY <1>1, <1>3, Zenon DEF HotStuffState, UpdateHighQC
    <2> HIDE DEF t
    <2>2. ReplicaOK(t, r, P, C)
      BY <2>1, Zenon DEF ReplicaOK
    <2>3. Grows(s, t)
      BY <1>1, <1>2, <1>3, <2>1 DEF Grows
    <2> QED
      BY <2>1, <2>2, <2>3, Zenon DEF t
  <1>4. CASE ~(qc.view > s.highQC.view)
    BY <1>2, <1>4, Zenon DEF UpdateHighQC
  <1> QED
    BY <1>3, <1>4, Zenon

\* A change of the buffers alone.
LEMMA SetBuffers ==
    ASSUME NEW P, NEW C, NEW r, NEW s, ReplicaOK(s, r, P, C), ChainOK(P, C),
           NEW Q \in SUBSET QC, \A qc \in Q : Backed(qc, P, C),
           NEW B \in SUBSET P, NEW p, p = ZeroID \/ p \in P
    PROVE  LET t == [s EXCEPT !.bufferedQCs = Q, !.bufferedBlocks = B, !.pending = p]
           IN  ReplicaOK(t, r, P, C) /\ Grows(s, t) /\ t.bc = s.bc
  <1> DEFINE t == [s EXCEPT !.bufferedQCs = Q, !.bufferedBlocks = B, !.pending = p]
  <1>1. s \in HotStuffState /\ P \subseteq Block
    BY Zenon DEF ReplicaOK, ChainOK
  <1>2. p \in BlockID
    <2>1. ZeroID \in BlockID
      BY DEF ZeroID, BlockID
    <2> QED
      BY <1>1, <2>1, Zenon DEF Block
  <1>3. /\ t \in HotStuffState
        /\ t.pm = s.pm /\ t.bc = s.bc /\ t.preferredView = s.preferredView
        /\ t.highQC = s.highQC /\ t.bufferedQCs = Q
        /\ t.bufferedBlocks = B /\ t.pending = p
    BY <1>1, <1>2, Zenon DEF HotStuffState
  <1> HIDE DEF t
  <1>4. ReplicaOK(t, r, P, C)
    BY <1>3, Zenon DEF ReplicaOK
  <1>5. Grows(s, s)
    BY <1>1, GrowsReflexive, Zenon
  <1>6. Grows(s, t)
    BY <1>3, <1>5, Zenon DEF Grows
  <1> QED
    BY <1>3, <1>4, <1>6, Zenon DEF t

-----------------------------------------------------------------------------
(* Certificates *)

\* The correctness of a replica's next state, and that it is not a step back.
StepOK(s, t, r, P, C) == ReplicaOK(t, r, P, C) /\ Grows(s, t)

\* Steps of a handler compose.
LEMMA StepOKTransitive ==
    ASSUME NEW P, NEW C, NEW r, NEW s, NEW t, NEW u, ReplicaOK(s, r, P, C),
           StepOK(s, t, r, P, C), StepOK(t, u, r, P, C)
    PROVE  StepOK(s, u, r, P, C)
  BY GrowsTransitive, Zenon DEF StepOK, ReplicaOK

\* A handler may do nothing.
LEMMA StepOKReflexive ==
    ASSUME NEW P, NEW C, NEW r, NEW s, ReplicaOK(s, r, P, C)
    PROVE  StepOK(s, s, r, P, C)
  BY GrowsReflexive, Zenon DEF StepOK, ReplicaOK

\* AdvanceView at a replica.
LEMMA EnterView ==
    ASSUME NEW P, NEW C, ChainOK(P, C), NEW r, NEW s, ReplicaOK(s, r, P, C),
           NEW view \in Nat
    PROVE  LET t == [s EXCEPT !.pm = AdvanceView(@, r, view)]
           IN  StepOK(s, t, r, P, C) /\ t.bc = s.bc
  <1>1. \A b \in P : ViewOf(b) \in Nat
    BY BlockType, Zenon DEF ChainOK
  <1>2. PacemakerOK(s.pm, r, P)
    BY Zenon DEF ReplicaOK
  <1>3. /\ PacemakerOK(AdvanceView(s.pm, r, view), r, P)
        /\ AdvanceView(s.pm, r, view).curView >= s.pm.curView
    BY <1>1, <1>2, AdvanceViewOK, Zenon
  <1> QED
    BY <1>3, SetPacemaker DEF StepOK

\* Buffering a QC that is backed.
LEMMA BufferQCOK ==
    ASSUME NEW P, NEW C, ChainOK(P, C), NEW r, NEW s, ReplicaOK(s, r, P, C),
           NEW qc \in QC, Backed(qc, P, C)
    PROVE  StepOK(s, BufferQC(s, qc), r, P, C)
  <1> DEFINE Q == {q \in s.bufferedQCs : q.id # qc.id} \union {qc}
  <1>1. s \in HotStuffState /\ s.bufferedQCs \subseteq QC
    BY Zenon DEF ReplicaOK, HotStuffState
  <1>2. Q \in SUBSET QC /\ \A q \in Q : Backed(q, P, C)
    BY <1>1, Zenon DEF ReplicaOK
  <1>3. s.bufferedBlocks \in SUBSET P /\ (s.pending = ZeroID \/ s.pending \in P)
    BY Zenon DEF ReplicaOK
  <1>4. BufferQC(s, qc) = [s EXCEPT !.bufferedQCs = Q]
    BY Zenon DEF BufferQC
  <1> HIDE DEF Q
  <1>5. BufferQC(s, qc) = [s EXCEPT !.bufferedQCs = Q,
                                    !.bufferedBlocks = s.bufferedBlocks,
                                    !.pending = s.pending]
    BY <1>1, <1>4, Zenon DEF HotStuffState
  <1>6. LET t == [s EXCEPT !.bufferedQCs = Q, !.bufferedBlocks = s.bufferedBlocks,
                           !.pending = s.pending]
        IN  ReplicaOK(t, r, P, C) /\ Grows(s, t)
    BY <1>2, <1>3, SetBuffers, Zenon
  <1> QED
    BY <1>5, <1>6, Zenon DEF StepOK

\* updatePreferredView only raises the lock.
LEMMA UpdatePreferredViewOK ==
    ASSUME NEW P, NEW C, ChainOK(P, C), NEW r, NEW s, ReplicaOK(s, r, P, C),
           NEW qc \in QC, CanUpdatePreferredView(s, qc)
    PROVE  LET t == UpdatePreferredView(s, qc)
           IN  StepOK(s, t, r, P, C) /\ t.bc = s.bc
  <1> DEFINE t == UpdatePreferredView(s, qc)
             v == ViewOf(PrevID(qc.id))
  <1>1. s \in HotStuffState /\ s.preferredView \in Nat /\ s.bc.vertices \subseteq P
        /\ P \subseteq Block
    BY StateType, Zenon DEF ReplicaOK, StoreOK, ChainOK
  <1>2. Grows(s, s)
    BY <1>1, GrowsReflexive, Zenon
  <1>3. CASE qc.view > 2 /\ v > s.preferredView
    <2>1. PrevID(qc.id) \in s.bc.vertices
      <3>1. ~(qc.view <= 2)
        BY <1>3 DEF QC
      <3> QED
        BY <3>1, Zenon DEF CanUpdatePreferredView, HasParent
    <2>2. v \in Nat
      BY <1>1, <2>1, BlockType, Zenon
    <2>3. t = [s EXCEPT !.preferredView = v]
      BY <1>3, Zenon DEF UpdatePreferredView
    <2> HIDE DEF t, v
    <2>4. /\ t \in HotStuffState
          /\ t.pm = s.pm /\ t.bc = s.bc /\ t.preferredView = v
          /\ t.highQC = s.highQC /\ t.bufferedQCs = s.bufferedQCs
          /\ t.bufferedBlocks = s.bufferedBlocks /\ t.pending = s.pending
      BY <1>1, <2>2, <2>3, Zenon DEF HotStuffState
    <2>5. ReplicaOK(t, r, P, C)
      BY <2>4, Zenon DEF ReplicaOK
    <2>6. Grows(s, t)
      BY <1>1, <1>2, <1>3, <2>2, <2>4 DEF Grows, v
    <2> QED
      BY <2>4, <2>5, <2>6, Zenon DEF StepOK, t
  <1>4. CASE ~(qc.view > 2 /\ v > s.preferredView)
    <2>1. t = s
      BY <1>4, Zenon DEF UpdatePreferredView
    <2> QED
      BY <1>2, <2>1, Zenon DEF StepOK
  <1> QED
    BY <1>3, <1>4, Zenon

\* Committing the grandparent of a certified block.
LEMMA CommitOK ==
    ASSUME NEW P, NEW C, ChainOK(P, C), NEW r, NEW s, ReplicaOK(s, r, P, C), NEW qc
    PROVE  StepOK(s, Commit(s, qc), r, P, C)
  <1>1. CASE qc.view >= 3 /\ CommitRule(s, qc)
    <2> DEFINE p == PrevID(qc.id)
               g == PrevID(p)
    <2>1. p \in s.bc.vertices /\ g \in s.bc.vertices
      BY <1>1, Zenon DEF CommitRule, HasParent
    <2>2. StoreOK(s.bc, P, C) /\ s.bc.vertices \subseteq P /\ P \subseteq Block
      BY Zenon DEF ReplicaOK, StoreOK, ChainOK
    <2>3. SuperMajority(Voters(C, g))
      <3>1. Backed(QCOf(p), P, C)
        BY <2>1, <2>2, Zenon DEF ChainOK
      <3>2. QCOf(p).id = g /\ g # ZeroID
        BY <2>1, <2>2, BlockType, Zenon DEF Block
      <3> QED
        BY <3>1, <3>2 DEF Backed, InitialQC
    <2>4. /\ StoreOK(CommitBlock(s.bc, g), P, C)
          /\ CommitBlock(s.bc, g).lowestLevel >= s.bc.lowestLevel
          /\ Extends(CommitBlock(s.bc, g).committed, s.bc.committed)
      BY <2>1, <2>2, <2>3, CommitBlockOK, Zenon
    <2>5. Commit(s, qc) = [s EXCEPT !.bc = CommitBlock(s.bc, g)]
      BY <1>1, Zenon DEF Commit
    <2> QED
      BY <2>4, <2>5, SetStore DEF StepOK
  <1>2. CASE ~(qc.view >= 3 /\ CommitRule(s, qc))
    BY <1>2, StepOKReflexive, Zenon DEF Commit
  <1> QED
    BY <1>1, <1>2, Zenon

\* processCertificate of a backed QC.
LEMMA ProcessCertificateOK ==
    ASSUME NEW P, NEW C, ChainOK(P, C), NEW r, NEW s, ReplicaOK(s, r, P, C),
           NEW qc \in QC, Backed(qc, P, C)
    PROVE  StepOK(s, ProcessCertificate(s, r, qc), r, P, C)
  <1>1. CASE qc.view < s.pm.curView
    BY <1>1, StepOKReflexive, Zenon DEF ProcessCertificate
  <1>2. CASE ~(qc.view < s.pm.curView) /\ ~CanUpdatePreferredView(s, qc)
    BY <1>2, BufferQCOK, Zenon DEF ProcessCertificate
  <1>3. CASE ~(qc.view < s.pm.curView) /\ CanUpdatePreferredView(s, qc)
    <2> DEFINE s1 == UpdatePreferredView(s, qc)
               s2 == [s1 EXCEPT !.pm = AdvanceView(@, r, qc.view)]
               s3 == UpdateHighQC(s2, qc)
               s4 == Commit(s3, qc)
    <2>0. qc.view \in Nat
      BY Zenon DEF QC
    <2>1. StepOK(s, s1, r, P, C)
      BY <1>3, UpdatePreferredViewOK, Zenon
    <2>2. StepOK(s1, s2, r, P, C)
      BY <2>0, <2>1, EnterView, Zenon DEF StepOK
    <2>3. StepOK(s2, s3, r, P, C)
      BY <2>2, UpdateHighQCOK, Zenon DEF StepOK
    <2>4. StepOK(s3, s4, r, P, C)
      BY <2>3, CommitOK, Zenon DEF StepOK
    <2>5. ProcessCertificate(s, r, qc) = s4
      BY <1>3, Zenon DEF ProcessCertificate, AdoptCertificate
    <2> HIDE DEF s1, s2, s3, s4
    <2>6. ReplicaOK(s1, r, P, C) /\ ReplicaOK(s2, r, P, C) /\ ReplicaOK(s3, r, P, C)
      BY <2>1, <2>2, <2>3, Zenon DEF StepOK
    <2>7. StepOK(s, s2, r, P, C)
      BY <2>1, <2>2, StepOKTransitive, Zenon
    <2>8. StepOK(s, s3, r, P, C)
      BY <2>3, <2>7, StepOKTransitive, Zenon
    <2> QED
      BY <2>4, <2>5, <2>8, StepOKTransitive, Zenon
  <1> QED
    BY <1>1, <1>2, <1>3, Zenon

-----------------------------------------------------------------------------
(* Votes, blocks and timeouts *)

\* ProcessVote of a vote that was cast.
LEMMA ProcessVoteOK ==
    ASSUME NEW P, NEW C, ChainOK(P, C), NEW r, NEW s, ReplicaOK(s, r, P, C),
           NEW vote \in C
    PROVE  StepOK(s, ProcessVote(s, r, vote), r, P, C)
  <1> DEFINE s1 == [s EXCEPT !.bc = AddVote(@, vote)]
             qc == QCFrom(vote)
  <1>1. StoreOK(s.bc, P, C) /\ s \in HotStuffState
    BY Zenon DEF ReplicaOK
  <1>2. /\ StoreOK(AddVote(s.bc, vote), P, C)
        /\ AddVote(s.bc, vote).lowestLevel = s.bc.lowestLevel
        /\ AddVote(s.bc, vote).committed = s.bc.committed
        /\ qc \in QC
        /\ IsBuilt(s.bc, vote) => Backed(qc, P, C)
    BY <1>1, AddVoteOK, Zenon
  <1>3. /\ AddVote(s.bc, vote).lowestLevel >= s.bc.lowestLevel
        /\ Extends(AddVote(s.bc, vote).committed, s.bc.committed)
    BY <1>1, <1>2, StateType, ExtendsReflexive
  <1>4. StepOK(s, s1, r, P, C)
    BY <1>2, <1>3, SetStore, Zenon DEF StepOK
  <1>5. ReplicaOK(s1, r, P, C)
    BY <1>4, Zenon DEF StepOK
  <1>6. ProcessVote(s, r, vote) = IF ~IsBuilt(s.bc, vote) THEN s1
                                  ELSE IF ~HasBlock(s1.bc, qc.id) THEN BufferQC(s1, qc)
                                  ELSE ProcessCertificate(s1, r, qc)
    BY Zenon DEF ProcessVote
  <1> HIDE DEF s1, qc
  <1>7. CASE ~IsBuilt(s.bc, vote)
    BY <1>4, <1>6, <1>7, Zenon
  <1>8. CASE IsBuilt(s.bc, vote)
    <2>1. /\ StepOK(s1, BufferQC(s1, qc), r, P, C)
          /\ StepOK(s1, ProcessCertificate(s1, r, qc), r, P, C)
      BY <1>2, <1>5, <1>8, BufferQCOK, ProcessCertificateOK, Zenon
    <2>2. /\ StepOK(s, BufferQC(s1, qc), r, P, C)
          /\ StepOK(s, ProcessCertificate(s1, r, qc), r, P, C)
      BY <1>4, <2>1, StepOKTransitive, Zenon
    <2> QED
      BY <1>6, <1>8, <2>2, Zenon
  <1> QED
    BY <1>7, <1>8, Zenon

\* The QC of a proposed block.
LEMMA ProcessBlockQCOK ==
    ASSUME NEW P, NEW C, ChainOK(P, C), NEW r, NEW s, ReplicaOK(s, r, P, C), NEW b \in P
    PROVE  StepOK(s, ProcessBlockQC(s, r, b), r, P, C)
  <1> DEFINE s1 == UpdateHighQC(s, QCOf(b))
  <1>1. QCOf(b) \in QC /\ Backed(QCOf(b), P, C)
    BY BlockType, Zenon DEF ChainOK
  <1>2. StepOK(s, s1, r, P, C)
    BY <1>1, UpdateHighQCOK, Zenon DEF StepOK
  <1>3. ReplicaOK(s1, r, P, C)
    BY <1>2, Zenon DEF StepOK
  <1>4. ProcessBlockQC(s, r, b) = IF ProposerOf(b) = r THEN s1
                                  ELSE ProcessCertificate(s1, r, QCOf(b))
    BY Zenon DEF ProcessBlockQC
  <1> HIDE DEF s1
  <1>5. StepOK(s1, ProcessCertificate(s1, r, QCOf(b)), r, P, C)
    BY <1>1, <1>3, ProcessCertificateOK, Zenon
  <1>6. StepOK(s, ProcessCertificate(s1, r, QCOf(b)), r, P, C)
    BY <1>2, <1>5, StepOKTransitive, Zenon
  <1> QED
    BY <1>2, <1>4, <1>6, Zenon

\* Dropping QCs from the buffer.
LEMMA UnbufferQCOK ==
    ASSUME NEW P, NEW C, ChainOK(P, C), NEW r, NEW s, ReplicaOK(s, r, P, C), NEW b
    PROVE  StepOK(s, [s EXCEPT !.bufferedQCs = {q \in @ : q.id # b}], r, P, C)
  <1> DEFINE Q == {q \in s.bufferedQCs : q.id # b}
             t == [s EXCEPT !.bufferedQCs = Q]
  <1>1. s \in HotStuffState /\ s.bufferedQCs \subseteq QC
    BY Zenon DEF ReplicaOK, HotStuffState
  <1>2. Q \in SUBSET QC /\ \A q \in Q : Backed(q, P, C)
    BY <1>1, Zenon DEF ReplicaOK
  <1>3. s.bufferedBlocks \in SUBSET P /\ (s.pending = ZeroID \/ s.pending \in P)
    BY Zenon DEF ReplicaOK
  <1> HIDE DEF Q
  <1>4. t = [s EXCEPT !.bufferedQCs = Q, !.bufferedBlocks = s.bufferedBlocks,
                      !.pending = s.pending]
    BY <1>1, Zenon DEF HotStuffState
  <1>5. LET u == [s EXCEPT !.bufferedQCs = Q, !.bufferedBlocks = s.bufferedBlocks,
                           !.pending = s.pending]
        IN  ReplicaOK(u, r, P, C) /\ Grows(s, u)
    BY <1>2, <1>3, SetBuffers, Zenon
  <1>6. StepOK(s, t, r, P, C)
    BY <1>4, <1>5, Zenon DEF StepOK
  <1> QED
    BY <1>6, Zenon DEF Q

\* AddBlock of a proposed block, and the QC buffered for it.
LEMMA StoreBlockOK ==
    ASSUME NEW P, NEW C, ChainOK(P, C), NEW r, NEW s, ReplicaOK(s, r, P, C), NEW b \in P
    PROVE  StepOK(s, StoreBlock(s, r, b), r, P, C)
  <1> DEFINE s1 == [s EXCEPT !.bc = AddBlock(@, b)]
             qc == CHOOSE q \in s1.bufferedQCs : q.id = b
             s2 == ProcessCertificate(s1, r, qc)
             s3 == [s2 EXCEPT !.bufferedQCs = {q \in @ : q.id # b}]
  <1>1. StoreOK(s.bc, P, C) /\ s \in HotStuffState
    BY Zenon DEF ReplicaOK
  <1>2. /\ StoreOK(AddBlock(s.bc, b), P, C)
        /\ AddBlock(s.bc, b).lowestLevel = s.bc.lowestLevel
        /\ AddBlock(s.bc, b).committed = s.bc.committed
    BY <1>1, AddBlockOK
  <1>3. /\ AddBlock(s.bc, b).lowestLevel >= s.bc.lowestLevel
        /\ Extends(AddBlock(s.bc, b).committed, s.bc.committed)
    BY <1>1, <1>2, StateType, ExtendsReflexive
  <1>4. StepOK(s, s1, r, P, C)
    BY <1>2, <1>3, SetStore, Zenon DEF StepOK
  <1>5. StoreBlock(s, r, b) = IF \E q \in s1.bufferedQCs : q.id = b THEN s3 ELSE s1
    BY Zenon DEF StoreBlock
  <1>6. ASSUME \E q \in s1.bufferedQCs : q.id = b
        PROVE  StepOK(s, s3, r, P, C)
    <2> HIDE DEF s1
    <2>1. ReplicaOK(s1, r, P, C)
      BY <1>4, Zenon DEF StepOK
    <2>2. qc \in s1.bufferedQCs
      BY <1>6, Zenon
    <2> HIDE DEF qc
    <2>3. qc \in QC /\ Backed(qc, P, C)
      <3>1. s1.bufferedQCs \subseteq QC
        BY <2>1, Zenon DEF ReplicaOK, HotStuffState
      <3> QED
        BY <2>1, <2>2, <3>1, Zenon DEF ReplicaOK
    <2>4. StepOK(s1, s2, r, P, C)
      BY <2>1, <2>3, ProcessCertificateOK, Zenon
    <2>5. ReplicaOK(s2, r, P, C)
      BY <2>4, Zenon DEF StepOK
    <2> HIDE DEF s2
    <2>6. StepOK(s2, s3, r, P, C)
      BY <2>5, UnbufferQCOK
    <2> HIDE DEF s3
    <2>7. StepOK(s, s2, r, P, C)
      BY <1>4, <2>4, StepOKTransitive, Zenon
    <2> QED
      BY <2>6, <2>7, StepOKTransitive, Zenon
  <1> QED
    BY <1>4, <1>5, <1>6, Zenon

\* The buffered blocks, and the pending block.
LEMMA SetBufferedBlocks ==
    ASSUME NEW P, NEW C, ChainOK(P, C), NEW r, NEW s, ReplicaOK(s, r, P, C),
           NEW B \in SUBSET P
    PROVE  StepOK(s, [s EXCEPT !.bufferedBlocks = B], r, P, C)
  <1>1. s \in HotStuffState /\ s.bufferedQCs \in SUBSET QC
    BY Zenon DEF ReplicaOK, HotStuffState
  <1>2. /\ \A q \in s.bufferedQCs : Backed(q, P, C)
        /\ s.bufferedBlocks \in SUBSET P
        /\ s.pending = ZeroID \/ s.pending \in P
    BY Zenon DEF ReplicaOK
  <1>3. [s EXCEPT !.bufferedBlocks = B] =
            [s EXCEPT !.bufferedQCs = s.bufferedQCs, !.bufferedBlocks = B,
                      !.pending = s.pending]
    BY <1>1, Zenon DEF HotStuffState
  <1>4. LET t == [s EXCEPT !.bufferedQCs = s.bufferedQCs, !.bufferedBlocks = B,
                      !.pending = s.pending]
        IN  ReplicaOK(t, r, P, C) /\ Grows(s, t)
    BY <1>1, <1>2, SetBuffers, Zenon
  <1> QED
    BY <1>3, <1>4, Zenon DEF StepOK

\* Choosing the buffered block to process next.
LEMMA SetPending ==
    ASSUME NEW P, NEW C, ChainOK(P, C), NEW r, NEW s, ReplicaOK(s, r, P, C),
           NEW p, p = ZeroID \/ p \in P
    PROVE  StepOK(s, [s EXCEPT !.pending = p], r, P, C)
  <1>1. s \in HotStuffState /\ s.bufferedQCs \in SUBSET QC
    BY Zenon DEF ReplicaOK, HotStuffState
  <1>2. /\ \A q \in s.bufferedQCs : Backed(q, P, C)
        /\ s.bufferedBlocks \in SUBSET P
        /\ s.pending = ZeroID \/ s.pending \in P
    BY Zenon DEF ReplicaOK
  <1>3. [s EXCEPT !.pending = p] =
            [s EXCEPT !.bufferedQCs = s.bufferedQCs,
                      !.bufferedBlocks = s.bufferedBlocks, !.pending = p]
    BY <1>1, Zenon DEF HotStuffState
  <1>4. LET t == [s EXCEPT !.bufferedQCs = s.bufferedQCs,
                      !.bufferedBlocks = s.bufferedBlocks, !.pending = p]
        IN  ReplicaOK(t, r, P, C) /\ Grows(s, t)
    BY <1>1, <1>2, SetBuffers, Zenon
  <1> QED
    BY <1>3, <1>4, Zenon DEF StepOK

\* Buffering a proposed block.
LEMMA BufferBlockOK ==
    ASSUME NEW P, NEW C, ChainOK(P, C), NEW r, NEW s, ReplicaOK(s, r, P, C), NEW b \in P
    PROVE  StepOK(s, BufferBlock(s, b), r, P, C)
  <1> DEFINE B == {x \in s.bufferedBlocks : ViewOf(x) # ViewOf(b)} \union {b}
  <1>1. B \in SUBSET P
    BY Zenon DEF ReplicaOK
  <1>2. BufferBlock(s, b) = [s EXCEPT !.bufferedBlocks = B]
    BY Zenon DEF BufferBlock
  <1> HIDE DEF B
  <1>3. StepOK(s, [s EXCEPT !.bufferedBlocks = B], r, P, C)
    BY <1>1, SetBufferedBlocks, Zenon
  <1> QED
    BY <1>2, <1>3, Zenon

\* The deletion of the buffer entry after a nested call.
LEMMA ReturnOK ==
    ASSUME NEW P, NEW C, ChainOK(P, C), NEW r, NEW s, ReplicaOK(s, r, P, C),
           NEW b, NEW nested
    PROVE  StepOK(s, Return(s, b, nested), r, P, C)
  <1> DEFINE B == {x \in s.bufferedBlocks : ViewOf(x) # ViewOf(b)}
  <1>1. B \in SUBSET P
    BY Zenon DEF ReplicaOK
  <1>2. UnbufferBlock(s, b) = [s EXCEPT !.bufferedBlocks = B]
    BY Zenon DEF UnbufferBlock
  <1> HIDE DEF B
  <1>3. StepOK(s, [s EXCEPT !.bufferedBlocks = B], r, P, C)
    BY <1>1, SetBufferedBlocks, Zenon
  <1>4. StepOK(s, s, r, P, C)
    BY StepOKReflexive, Zenon
  <1> QED
    BY <1>2, <1>3, <1>4, Zenon DEF Return

\* The buffered block of the next view was proposed.
LEMMA NextBufferedOK ==
    ASSUME NEW P, NEW C, ChainOK(P, C), NEW r, NEW s, ReplicaOK(s, r, P, C), NEW b
    PROVE  StepOK(s, NextBuffered(s, b), r, P, C)
  <1> DEFINE x == CHOOSE x \in s.bufferedBlocks : ViewOf(x) = ViewOf(b) + 1
  <1>1. CASE \E y \in s.bufferedBlocks : ViewOf(y) = ViewOf(b) + 1
    <2>1. x \in P
      BY <1>1, Zenon DEF ReplicaOK
    <2>2. NextBuffered(s, b) = [s EXCEPT !.pending = x]
      BY <1>1, Zenon DEF NextBuffered
    <2> HIDE DEF x
    <2>3. StepOK(s, [s EXCEPT !.pending = x], r, P, C)
      BY <2>1, SetPending, Zenon
    <2> QED
      BY <2>2, <2>3, Zenon
  <1>2. CASE ~\E y \in s.bufferedBlocks : ViewOf(y) = ViewOf(b) + 1
    BY <1>2, StepOKReflexive, Zenon DEF NextBuffered
  <1> QED
    BY <1>1, <1>2, Zenon

\* ProcessRemoteTmo of a timeout whose QC is backed.
LEMMA ProcessRemoteTmoOK ==
    ASSUME NEW P, NEW C, ChainOK(P, C), NEW r, NEW s, ReplicaOK(s, r, P, C),
           NEW tmo \in TMO, Backed(tmo.highQC, P, C)
    PROVE  StepOK(s, ProcessRemoteTmo(s, r, tmo), r, P, C)
  <1> DEFINE s1 == ProcessCertificate(s, r, tmo.highQC)
             s2 == [s1 EXCEPT !.pm = AddTmo(@, tmo.view, tmo.node)]
             s3 == [s2 EXCEPT !.pm = AdvanceView(@, r, tmo.view)]
  <1>1. tmo.view \in Nat /\ tmo.node \in Replica /\ tmo.highQC \in QC
    BY Zenon DEF TMO
  <1>2. StepOK(s, s1, r, P, C)
    BY <1>1, ProcessCertificateOK, Zenon
  <1>3. ProcessRemoteTmo(s, r, tmo) = IF TCIsBuilt(s1.pm, tmo.view, tmo.node)
                                      THEN s3 ELSE s2
    BY Zenon DEF ProcessRemoteTmo, ProcessTC
  <1> HIDE DEF s1
  <1>4. StepOK(s1, s2, r, P, C)
    <2>1. ReplicaOK(s1, r, P, C) /\ PacemakerOK(s1.pm, r, P)
      BY <1>2, Zenon DEF StepOK, ReplicaOK
    <2>2. /\ PacemakerOK(AddTmo(s1.pm, tmo.view, tmo.node), r, P)
          /\ AddTmo(s1.pm, tmo.view, tmo.node).curView >= s1.pm.curView
      BY <1>1, <2>1, AddTmoOK, Zenon
    <2> QED
      BY <2>1, <2>2, SetPacemaker, Zenon DEF StepOK
  <1> HIDE DEF s2
  <1>5. StepOK(s2, s3, r, P, C)
    BY <1>1, <1>4, EnterView, Zenon DEF StepOK
  <1> HIDE DEF s3
  <1>6. StepOK(s, s2, r, P, C)
    BY <1>2, <1>4, StepOKTransitive, Zenon
  <1>7. StepOK(s, s3, r, P, C)
    BY <1>5, <1>6, StepOKTransitive, Zenon
  <1> QED
    BY <1>3, <1>6, <1>7, Zenon


-----------------------------------------------------------------------------
(* The inductive invariant *)

\* The blocks come from the leaders of their views, one per view.
ProposalsOK ==
    \A b \in proposals : ViewOf(b) >= 1 /\ IsLeader(ProposerOf(b), ViewOf(b))

\* Messages carry what was proposed, cast and certified.
MessagesOK ==
    /\ blockMsgs \subseteq Replica \X proposals
    /\ voteMsgs \subseteq cast /\ heldVotes \subseteq cast
    /\ tmoMsgs \subseteq Replica \X TMO /\ heldTmos \subseteq Replica \X TMO
    /\ \A m \in tmoMsgs \union heldTmos : Backed(m[2].highQC, proposals, cast)

IInv ==
    /\ ChainOK(proposals, cast)
    /\ ProposalsOK
    /\ NoEquivocation
    /\ hs \in [Replica -> HotStuffState]
    /\ \A r \in Replica : ReplicaOK(hs[r], r, proposals, cast)
    /\ MessagesOK

-----------------------------------------------------------------------------
(* Steps *)

\* Blocks of other proposers and more votes do not disturb a replica.
LEMMA ReplicaMonotone ==
    ASSUME NEW P, NEW Q, P \subseteq Q, NEW C, NEW D \in SUBSET Vote, C \subseteq D,
           NEW r, NEW s, ReplicaOK(s, r, P, C), \A b \in Q \ P : ProposerOf(b) # r,
           Counting
    PROVE  ReplicaOK(s, r, Q, D)
  <1>1. PacemakerOK(s.pm, r, Q)
    BY Zenon DEF ReplicaOK, PacemakerOK
  <1>2. StoreOK(s.bc, Q, D)
    BY StoreMonotone, Zenon DEF ReplicaOK
  <1>3. Backed(s.highQC, Q, D) /\ \A qc \in s.bufferedQCs : Backed(qc, Q, D)
    BY BackedMonotone, Zenon DEF ReplicaOK
  <1> QED
    BY <1>1, <1>2, <1>3, Zenon DEF ReplicaOK

\* A vote for a proposed block.
LEMMA CastOK ==
    ASSUME NEW P, NEW C, ChainOK(P, C), NEW r \in Replica, NEW b \in P
    PROVE  ChainOK(P, C \union {MakeVote(ViewOf(b), r, b)})
  <1> DEFINE vote == MakeVote(ViewOf(b), r, b)
             D == C \union {vote}
  <1>1. b \in Block /\ b \in BlockID /\ ViewOf(b) \in Nat
    BY BlockType, Zenon DEF ChainOK, Block
  <1>2. vote \in Vote /\ vote.id = b /\ vote.view = ViewOf(b)
    BY <1>1, Zenon DEF MakeVote, Vote
  <1> HIDE DEF vote
  <1>3. D \in SUBSET Vote /\ C \subseteq D
    BY <1>2, Zenon DEF ChainOK
  <1>4. \A v \in D : v.id \in P /\ v.view = ViewOf(v.id)
    BY <1>2, Zenon DEF ChainOK
  <1> HIDE DEF D
  <1>5. \A x \in P : Backed(QCOf(x), P, D)
    BY <1>3, BackedMonotone, Zenon DEF ChainOK
  <1>6. ChainOK(P, D)
    BY <1>3, <1>4, <1>5, Zenon DEF ChainOK
  <1> QED
    BY <1>6, Zenon DEF D, vote

\* ProcessBlock of a proposed block, with the vote it casts.
LEMMA ProcessBlockOK ==
    ASSUME NEW P, ChainOK(P, cast), NEW r \in Replica, NEW s, ReplicaOK(s, r, P, cast),
           NEW b \in P, NEW nested, ProcessBlock(r, s, b, nested)
    PROVE  /\ ChainOK(P, cast')
           /\ cast \subseteq cast'
           /\ voteMsgs' \subseteq voteMsgs \union cast'
           /\ \E t : hs' = [hs EXCEPT ![r] = t] /\ StepOK(s, t, r, P, cast')
  <1> DEFINE s1   == ProcessBlockQC(s, r, b)
             s2   == StoreBlock(s1, r, b)
             vote == MakeVote(ViewOf(b), r, b)
  <1>1. \/ /\ hs' = [hs EXCEPT ![r] = Return(BufferBlock(s, b), b, nested)]
           /\ UNCHANGED <<cast, voteMsgs>>
        \/ /\ hs' = [hs EXCEPT ![r] = Return(s1, b, nested)]
           /\ UNCHANGED <<cast, voteMsgs>>
        \/ /\ hs' = [hs EXCEPT ![r] = Return(s2, b, nested)]
           /\ UNCHANGED <<cast, voteMsgs>>
        \/ /\ cast' = cast \union {vote}
           /\ \/ /\ hs' = [hs EXCEPT ![r] =
                        Return(NextBuffered(ProcessVote(s2, r, vote), b), b, nested)]
                 /\ UNCHANGED voteMsgs
              \/ /\ hs' = [hs EXCEPT ![r] = Return(NextBuffered(s2, b), b, nested)]
                 /\ voteMsgs' = voteMsgs \union {vote}
    BY Zenon DEF ProcessBlock
  <1>2. StepOK(s, s1, r, P, cast) /\ ReplicaOK(s1, r, P, cast)
    BY ProcessBlockQCOK, Zenon DEF StepOK
  <1>3. StepOK(s1, s2, r, P, cast) /\ ReplicaOK(s2, r, P, cast)
    BY <1>2, StoreBlockOK, Zenon DEF StepOK
  <1> HIDE DEF s1, s2
  <1>4. StepOK(s, s2, r, P, cast)
    BY <1>2, <1>3, StepOKTransitive, Zenon
  <1>5. \A t : (/\ StepOK(s, t, r, P, cast)
                /\ hs' = [hs EXCEPT ![r] = Return(t, b, nested)]
                /\ cast' = cast /\ voteMsgs' = voteMsgs)
               => /\ ChainOK(P, cast')
                  /\ cast \subseteq cast'
                  /\ voteMsgs' \subseteq voteMsgs \union cast'
                  /\ \E u : hs' = [hs EXCEPT ![r] = u] /\ StepOK(s, u, r, P, cast')
    <2> SUFFICES ASSUME NEW t, StepOK(s, t, r, P, cast),
                        hs' = [hs EXCEPT ![r] = Return(t, b, nested)],
                        cast' = cast, voteMsgs' = voteMsgs
                 PROVE  /\ ChainOK(P, cast')
                        /\ cast \subseteq cast'
                        /\ voteMsgs' \subseteq voteMsgs \union cast'
                        /\ \E u : hs' = [hs EXCEPT ![r] = u] /\ StepOK(s, u, r, P, cast')
      BY Zenon
    <2> DEFINE u == Return(t, b, nested)
    <2>1. ReplicaOK(t, r, P, cast)
      BY Zenon DEF StepOK
    <2>2. StepOK(t, u, r, P, cast)
      BY <2>1, ReturnOK, Zenon
    <2> HIDE DEF u
    <2>3. StepOK(s, u, r, P, cast)
      BY <2>2, StepOKTransitive, Zenon
    <2>4. StepOK(s, u, r, P, cast')
      BY <2>3, Zenon
    <2>5. hs' = [hs EXCEPT ![r] = u]
      BY Zenon DEF u
    <2>6. ChainOK(P, cast') /\ cast \subseteq cast' /\ voteMsgs' \subseteq voteMsgs \union cast'
      BY Zenon
    <2> QED
      BY <2>4, <2>5, <2>6, Zenon
  <1>6. CASE /\ hs' = [hs EXCEPT ![r] = Return(BufferBlock(s, b), b, nested)]
             /\ UNCHANGED <<cast, voteMsgs>>
    <2>1. StepOK(s, BufferBlock(s, b), r, P, cast)
      BY BufferBlockOK, Zenon
    <2>2. cast' = cast /\ voteMsgs' = voteMsgs
      BY <1>6, Zenon
    <2> QED
      BY <1>5, <1>6, <2>1, <2>2, Zenon
  <1>7. CASE /\ hs' = [hs EXCEPT ![r] = Return(s1, b, nested)]
             /\ UNCHANGED <<cast, voteMsgs>>
    <2>1. cast' = cast /\ voteMsgs' = voteMsgs
      BY <1>7, Zenon
    <2> QED
      BY <1>2, <1>5, <1>7, <2>1, Zenon
  <1>8. CASE /\ hs' = [hs EXCEPT ![r] = Return(s2, b, nested)]
             /\ UNCHANGED <<cast, voteMsgs>>
    <2>1. cast' = cast /\ voteMsgs' = voteMsgs
      BY <1>8, Zenon
    <2> QED
      BY <1>4, <1>5, <1>8, <2>1, Zenon
  <1>9. CASE /\ cast' = cast \union {vote}
             /\ \/ /\ hs' = [hs EXCEPT ![r] =
                        Return(NextBuffered(ProcessVote(s2, r, vote), b), b, nested)]
                   /\ UNCHANGED voteMsgs
                \/ /\ hs' = [hs EXCEPT ![r] = Return(NextBuffered(s2, b), b, nested)]
                   /\ voteMsgs' = voteMsgs \union {vote}
    <2>1. ChainOK(P, cast') /\ vote \in cast' /\ cast \subseteq cast'
      BY <1>9, CastOK, Zenon
    <2>2. cast' \in SUBSET Vote
      BY <2>1, Zenon DEF ChainOK
    <2>3. voteMsgs' \subseteq voteMsgs \union cast'
      BY <1>9, <2>1, Zenon
    <2> HIDE DEF vote
    <2>4. ReplicaOK(s, r, P, cast') /\ ReplicaOK(s2, r, P, cast')
      BY <1>3, <2>1, <2>2, ReplicaMonotone, Zenon DEF ChainOK
    <2>5. StepOK(s, s2, r, P, cast')
      BY <1>4, <2>4, Zenon DEF StepOK
    <2> DEFINE s3 == ProcessVote(s2, r, vote)
    <2>6. StepOK(s, s3, r, P, cast')
      <3>1. StepOK(s2, s3, r, P, cast')
        BY <2>1, <2>4, ProcessVoteOK, Zenon
      <3> HIDE DEF s3
      <3> QED
        BY <2>4, <2>5, <3>1, StepOKTransitive, Zenon
    <2> HIDE DEF s3
    <2>7. \A t : StepOK(s, t, r, P, cast') =>
                    StepOK(s, Return(NextBuffered(t, b), b, nested), r, P, cast')
      <3> SUFFICES ASSUME NEW t, StepOK(s, t, r, P, cast')
                   PROVE  StepOK(s, Return(NextBuffered(t, b), b, nested), r, P, cast')
        BY Zenon
      <3> DEFINE u == NextBuffered(t, b)
      <3>1. ReplicaOK(t, r, P, cast')
        BY Zenon DEF StepOK
      <3>2. StepOK(t, u, r, P, cast')
        BY <2>1, <3>1, NextBufferedOK, Zenon
      <3> HIDE DEF u
      <3>3. ReplicaOK(u, r, P, cast')
        BY <3>2, Zenon DEF StepOK
      <3>4. StepOK(u, Return(u, b, nested), r, P, cast')
        BY <2>1, <3>3, ReturnOK, Zenon
      <3>5. StepOK(s, u, r, P, cast')
        BY <2>4, <3>2, StepOKTransitive, Zenon
      <3>6. StepOK(s, Return(u, b, nested), r, P, cast')
        BY <2>4, <3>4, <3>5, StepOKTransitive, Zenon
      <3> QED
        BY <3>6, Zenon DEF u
    <2> QED
      BY <1>9, <2>1, <2>3, <2>5, <2>6, <2>7, Zenon DEF s3
  <1> QED
    BY <1>1, <1>6, <1>7, <1>8, <1>9, Zenon

\* A step of replica r to state t, with the blocks, votes and messages it adds.
LEMMA ReplicaStep ==
    ASSUME IInv, NEW r \in Replica, NEW t, hs' = [hs EXCEPT ![r] = t],
           StepOK(hs[r], t, r, proposals', cast'),
           ChainOK(proposals', cast'),
           proposals \subseteq proposals', cast \subseteq cast',
           \A b \in proposals' \ proposals : ProposerOf(b) = r,
           ProposalsOK', NoEquivocation', MessagesOK'
    PROVE  IInv' /\ \A q \in Replica : Grows(hs[q], hs'[q])
  <1>1. hs \in [Replica -> HotStuffState]
    BY Zenon DEF IInv
  <1>2. t \in HotStuffState /\ ReplicaOK(t, r, proposals', cast') /\ Grows(hs[r], t)
    BY Zenon DEF StepOK, ReplicaOK
  <1>3. /\ hs' \in [Replica -> HotStuffState]
        /\ hs'[r] = t
        /\ \A q \in Replica \ {r} : hs'[q] = hs[q]
    BY <1>1, <1>2, Zenon
  <1>4. ASSUME NEW q \in Replica
        PROVE  ReplicaOK(hs'[q], q, proposals', cast') /\ Grows(hs[q], hs'[q])
    <2>1. CASE q = r
      BY <1>2, <1>3, <2>1, Zenon
    <2>2. CASE q # r
      <3>1. ReplicaOK(hs[q], q, proposals, cast) /\ hs'[q] = hs[q]
        BY <1>3, <2>2, Zenon DEF IInv
      <3>2. cast' \in SUBSET Vote
        BY Zenon DEF ChainOK
      <3>3. \A b \in proposals' \ proposals : ProposerOf(b) # q
        BY <2>2, Zenon
      <3>4. ReplicaOK(hs[q], q, proposals', cast')
        BY <3>1, <3>2, <3>3, ReplicaMonotone, Zenon DEF ChainOK
      <3>5. Grows(hs[q], hs[q])
        BY <1>1, GrowsReflexive, Zenon
      <3> QED
        BY <3>1, <3>4, <3>5, Zenon
    <2> QED
      BY <2>1, <2>2, Zenon
  <1> QED
    BY <1>3, <1>4, Zenon DEF IInv

\* A step that neither proposes nor votes.
LEMMA QuietStep ==
    ASSUME IInv, NEW r \in Replica, NEW t, hs' = [hs EXCEPT ![r] = t],
           StepOK(hs[r], t, r, proposals, cast),
           UNCHANGED <<proposals, cast>>, MessagesOK'
    PROVE  IInv' /\ \A q \in Replica : Grows(hs[q], hs'[q])
  <1>1. proposals' = proposals /\ cast' = cast
    BY Zenon
  <1>2. ChainOK(proposals', cast') /\ StepOK(hs[r], t, r, proposals', cast')
    BY <1>1, Zenon DEF IInv
  <1>3. ProposalsOK' /\ NoEquivocation'
    BY <1>1, Zenon DEF IInv, ProposalsOK, NoEquivocation
  <1>4. /\ proposals \subseteq proposals' /\ cast \subseteq cast'
        /\ \A b \in proposals' \ proposals : ProposerOf(b) = r
    BY <1>1, Zenon
  <1> QED
    BY <1>2, <1>3, <1>4, ReplicaStep, Zenon

\* A new replica knows nothing.
LEMMA InitialReplica ==
    ASSUME NEW r
    PROVE  ReplicaOK(NewHotStuff, r, {}, {})
  <1>1. InitialQC \in QC
    BY DEF InitialQC, QC, ZeroID, BlockID
  <1>2. NewPacemaker \in PacemakerState /\ NewPacemaker.newViews = << >>
    BY DEF NewPacemaker, PacemakerState
  <1>3. NewBlockchain \in BlockChainState /\ NewBlockchain.vertices = {}
        /\ NewBlockchain.votes = {} /\ NewBlockchain.committed = << >>
    BY DEF NewBlockchain, BlockChainState
  <1>4. ZeroID \in BlockID
    BY DEF ZeroID, BlockID
  <1>5. NewHotStuff \in HotStuffState
    BY <1>1, <1>2, <1>3, <1>4, Zenon DEF NewHotStuff, HotStuffState
  <1>6. PacemakerOK(NewPacemaker, r, {})
    <2>1. 1..Len(<< >>) = {}
      OBVIOUS
    <2> QED
      BY <1>2, <2>1, Zenon DEF PacemakerOK
  <1>7. StoreOK(NewBlockchain, {}, {})
    <2>1. DOMAIN << >> = {}
      OBVIOUS
    <2> QED
      BY <1>3, <2>1, Zenon DEF StoreOK
  <1> QED
    BY <1>5, <1>6, <1>7, Zenon DEF ReplicaOK, NewHotStuff, Backed

\* The initial states satisfy the invariant.
LEMMA InitOK ==
    ASSUME Counting, Init
    PROVE  IInv
  <1>1. \A r \in Replica : hs[r] = NewHotStuff /\ ReplicaOK(NewHotStuff, r, {}, {})
    BY InitialReplica, Zenon DEF Init
  <1>2. NewHotStuff \in HotStuffState \/ Replica = {}
    BY <1>1, Zenon DEF ReplicaOK
  <1>3. hs \in [Replica -> HotStuffState]
    BY <1>1, <1>2, Zenon DEF Init, ReplicaOK
  <1>4. ChainOK(proposals, cast) /\ ProposalsOK /\ NoEquivocation /\ MessagesOK
    BY Zenon DEF Init, ChainOK, ProposalsOK, NoEquivocation, MessagesOK
  <1>5. \A r \in Replica : ReplicaOK(hs[r], r, proposals, cast)
    BY <1>1, Zenon DEF Init
  <1> QED
    BY <1>3, <1>4, <1>5, Zenon DEF IInv

\* A step that processes block b, proposed in this step (P grows) or before.
LEMMA BlockStep ==
    ASSUME IInv, NEW r \in Replica, NEW s, NEW b \in proposals', NEW nested,
           ProcessBlock(r, s, b, nested),
           ReplicaOK(s, r, proposals', cast), Grows(hs[r], s),
           ChainOK(proposals', cast), proposals \subseteq proposals',
           \A x \in proposals' \ proposals : ProposerOf(x) = r,
           ProposalsOK', NoEquivocation',
           blockMsgs' \subseteq Replica \X proposals',
           UNCHANGED <<tmoMsgs, heldVotes, heldTmos>>
    PROVE  IInv' /\ \A q \in Replica : Grows(hs[q], hs'[q])
  <1>1. /\ ChainOK(proposals', cast')
        /\ cast \subseteq cast'
        /\ voteMsgs' \subseteq voteMsgs \union cast'
        /\ \E t : hs' = [hs EXCEPT ![r] = t] /\ StepOK(s, t, r, proposals', cast')
    BY ProcessBlockOK, Zenon DEF IInv
  <1>2. PICK t : hs' = [hs EXCEPT ![r] = t] /\ StepOK(s, t, r, proposals', cast')
    BY <1>1, Zenon
  <1>3. /\ hs[r] \in HotStuffState /\ s \in HotStuffState /\ t \in HotStuffState
        /\ Grows(s, t)
    BY <1>2, Zenon DEF IInv, ReplicaOK, StepOK
  <1>4. Grows(hs[r], t)
    BY <1>3, GrowsTransitive, Zenon
  <1>5. StepOK(hs[r], t, r, proposals', cast')
    BY <1>2, <1>4, Zenon DEF StepOK
  <1>6. cast' \in SUBSET Vote
    BY <1>1, Zenon DEF ChainOK
  <1>7. MessagesOK'
    <2>1. voteMsgs' \subseteq cast' /\ heldVotes' \subseteq cast'
      BY <1>1, Zenon DEF IInv, MessagesOK
    <2>2. tmoMsgs' \subseteq Replica \X TMO /\ heldTmos' \subseteq Replica \X TMO
      BY Zenon DEF IInv, MessagesOK
    <2>3. \A m \in tmoMsgs' \union heldTmos' : Backed(m[2].highQC, proposals', cast')
      BY <1>1, <1>6, BackedMonotone DEF IInv, MessagesOK, ChainOK
    <2> QED
      BY <2>1, <2>2, <2>3, Zenon DEF MessagesOK
  <1> QED
    BY <1>1, <1>2, <1>5, <1>7, ReplicaStep, Zenon

\* A replica's state stays one when its pacemaker and block counter are replaced.
LEMMA SetProposed ==
    ASSUME NEW h \in HotStuffState, NEW n \in Nat, NEW pm \in PacemakerState
    PROVE  [h EXCEPT !.pm = pm, !.proposedNo = n] \in HotStuffState
  <1> DEFINE u == [h EXCEPT !.pm = pm]
  <1>1. u \in HotStuffState
    BY Zenon DEF HotStuffState
  <1>2. [h EXCEPT !.pm = pm, !.proposedNo = n] = [u EXCEPT !.proposedNo = n]
    BY Zenon DEF HotStuffState
  <1> HIDE DEF u
  <1>3. [u EXCEPT !.proposedNo = n] \in HotStuffState
    BY <1>1, Zenon DEF HotStuffState
  <1> QED
    BY <1>2, <1>3, Zenon

\* Taking a view from newViewChan and counting the block made for it.
LEMMA TakeNewViewType ==
    ASSUME NEW h \in HotStuffState, Tail(h.pm.newViews) \in Seq(Nat)
    PROVE  /\ TakeNewView(h) \in HotStuffState
           /\ TakeNewView(h).pm \in PacemakerState
           /\ TakeNewView(h).pm.curView = h.pm.curView
           /\ TakeNewView(h).pm.newViews = Tail(h.pm.newViews)
           /\ TakeNewView(h).bc = h.bc
           /\ TakeNewView(h).preferredView = h.preferredView
           /\ TakeNewView(h).highQC = h.highQC
           /\ TakeNewView(h).bufferedQCs = h.bufferedQCs
           /\ TakeNewView(h).bufferedBlocks = h.bufferedBlocks
           /\ TakeNewView(h).pending = h.pending
  <1> DEFINE q == Tail(h.pm.newViews)
             n == h.proposedNo + 1
             s == TakeNewView(h)
  <1> DEFINE pm == [h.pm EXCEPT !.newViews = q]
  <1>1. h.pm \in PacemakerState
    BY Zenon DEF HotStuffState
  <1>0. q \in Seq(Nat) /\ n \in Nat
    BY DEF HotStuffState
  <1>2. pm = [h.pm EXCEPT !.newViews = q] /\ s = [h EXCEPT !.pm = pm, !.proposedNo = n]
    BY Zenon DEF TakeNewView, HotStuffState, PacemakerState
  <1> HIDE DEF s, pm, q, n
  <1>3. pm \in PacemakerState /\ pm.curView = h.pm.curView /\ pm.newViews = q
    <2> DEFINE S == Seq(Nat)
               T == SUBSET (Nat \X Replica)
    <2>1. PacemakerState = [curView : Nat, newViews : S, timeouts : T] /\ q \in S
      BY <1>0, Zenon DEF PacemakerState
    <2> HIDE DEF S, T
    <2> QED
      BY <1>1, <1>2, <2>1, Zenon
  <1>4. s \in HotStuffState
    <2>1. [h EXCEPT !.pm = pm, !.proposedNo = n] \in HotStuffState
      BY <1>0, <1>3, SetProposed, Zenon
    <2> QED
      BY <1>2, <2>1, Zenon
  <1>5. /\ s.pm = pm
        /\ s.bc = h.bc /\ s.preferredView = h.preferredView
        /\ s.highQC = h.highQC /\ s.bufferedQCs = h.bufferedQCs
        /\ s.bufferedBlocks = h.bufferedBlocks /\ s.pending = h.pending
    BY <1>2, Zenon DEF HotStuffState
  <1> QED
    BY <1>3, <1>4, <1>5, Zenon DEF s, q

\* The state in which ProcessNewView processes its own block.
LEMMA ProposeOK ==
    ASSUME IInv, NEW r \in Replica, hs[r].pm.newViews # << >>,
           NEW b, b = MakeBlock(Head(hs[r].pm.newViews), hs[r].highQC, r, hs[r].proposedNo),
           NEW P, P = proposals \union {b}
    PROVE  /\ ChainOK(P, cast)
           /\ b \in Block /\ ProposerOf(b) = r
           /\ ViewOf(b) >= 1 /\ IsLeader(r, ViewOf(b))
           /\ \A a \in proposals : ViewOf(a) # ViewOf(b)
           /\ ReplicaOK(TakeNewView(hs[r]), r, P, cast)
           /\ Grows(hs[r], TakeNewView(hs[r]))
  <1> DEFINE h  == hs[r]
             s  == TakeNewView(h)
             nv == h.pm.newViews
             tl == Tail(nv)
  <1>1. /\ h \in HotStuffState /\ ReplicaOK(h, r, proposals, cast)
        /\ PacemakerOK(h.pm, r, proposals) /\ h.pm \in PacemakerState
        /\ h.highQC \in QC /\ h.proposedNo \in Nat /\ Backed(h.highQC, proposals, cast)
    <2>1. h \in HotStuffState /\ ReplicaOK(h, r, proposals, cast)
      BY Zenon DEF IInv
    <2> HIDE DEF h
    <2> QED
      BY <2>1, Zenon DEF ReplicaOK, PacemakerOK, HotStuffState
  <1>2. nv \in Seq(Nat) /\ nv # << >> /\ h.pm.curView \in Nat
    BY <1>1, Zenon DEF PacemakerState
  <1> HIDE DEF h
  <1>3. /\ Len(nv) \in Nat \ {0} /\ Head(nv) = nv[1] /\ nv[1] \in Nat
        /\ tl \in Seq(Nat) /\ Len(tl) = Len(nv) - 1
        /\ \A i \in 1..Len(tl) : tl[i] = nv[i + 1]
    BY <1>2
  <1> HIDE DEF tl
  <1>4. /\ b \in Block /\ ViewOf(b) = nv[1] /\ ProposerOf(b) = r /\ QCOf(b) = h.highQC
    <2>1. b = MakeBlock(nv[1], h.highQC, r, h.proposedNo)
      BY <1>3, Zenon DEF h
    <2>2. nv[1] \in Nat /\ h.highQC \in QC /\ h.proposedNo \in Nat
      BY <1>1, <1>3, Zenon
    <2>3. \A v \in Nat, qc \in QC, no \in Nat :
            /\ MakeBlock(v, qc, r, no) \in Block
            /\ ViewOf(MakeBlock(v, qc, r, no)) = v
            /\ ProposerOf(MakeBlock(v, qc, r, no)) = r
            /\ QCOf(MakeBlock(v, qc, r, no)) = qc
      BY MakeBlockProperties
    <2> QED
      BY <2>1, <2>2, <2>3
  <1>5. nv[1] >= 1 /\ nv[1] <= h.pm.curView /\ IsLeader(r, nv[1])
    <2>1. 1 \in 1..Len(nv)
      BY <1>3
    <2> QED
      BY <1>1, <2>1, Zenon DEF PacemakerOK
  <1>6. cast \in SUBSET Vote /\ ChainOK(proposals, cast)
    BY Zenon DEF IInv, ChainOK
  <1>7. ChainOK(P, cast)
    <2>1. P \subseteq Block /\ \A v \in cast : v.id \in P /\ v.view = ViewOf(v.id)
      BY <1>4, <1>6, Zenon DEF ChainOK
    <2>2. \A x \in P : Backed(QCOf(x), proposals, cast)
      BY <1>1, <1>4, <1>6, Zenon DEF ChainOK
    <2>3. \A x \in P : Backed(QCOf(x), P, cast)
      BY <1>6, <2>2, BackedMonotone, Zenon DEF ChainOK
    <2> QED
      BY <1>6, <2>1, <2>3, Zenon DEF ChainOK
  <1>8. \A a \in proposals : ViewOf(a) # ViewOf(b)
    <2> SUFFICES ASSUME NEW a \in proposals, ViewOf(a) = ViewOf(b) PROVE FALSE
      BY Zenon
    <2>1. ProposerOf(a) \in Replica /\ IsLeader(ProposerOf(a), nv[1])
      BY <1>4, <1>6, BlockType, Zenon DEF IInv, ProposalsOK, ChainOK
    <2>2. ProposerOf(a) = r
      BY <1>3, <1>5, <2>1, UniqueLeader, Zenon
    <2>3. ViewOf(a) < nv[1]
      <3>1. 1 \in 1..Len(nv)
        BY <1>3
      <3> QED
        BY <1>1, <2>2, <3>1, Zenon DEF PacemakerOK
    <2>4. ViewOf(a) = nv[1] /\ nv[1] \in Nat
      BY <1>3, <1>4, Zenon
    <2> QED
      BY <2>3, <2>4
  <1>9. /\ s \in HotStuffState
        /\ s.pm.curView = h.pm.curView /\ s.pm.newViews = tl /\ s.pm \in PacemakerState
        /\ s.bc = h.bc /\ s.preferredView = h.preferredView
        /\ s.highQC = h.highQC /\ s.bufferedQCs = h.bufferedQCs
        /\ s.bufferedBlocks = h.bufferedBlocks /\ s.pending = h.pending
    <2>1. h \in HotStuffState /\ Tail(h.pm.newViews) \in Seq(Nat)
      BY <1>1, <1>3, Zenon DEF tl
    <2> QED
      BY <2>1, TakeNewViewType, Zenon DEF tl
  <1> HIDE DEF s
  <1>10. PacemakerOK(s.pm, r, P)
    <2>1. \A i \in 1..Len(tl) : i + 1 \in 1..Len(nv) /\ tl[i] = nv[i + 1]
      <3> DEFINE n == Len(nv)
                 k == Len(tl)
      <3>1. n \in Nat \ {0} /\ k = n - 1
        BY <1>3, Zenon
      <3> HIDE DEF n, k
      <3>2. \A i \in 1..k : i + 1 \in 1..n
        BY <3>1
      <3> QED
        BY <1>3, <3>2, Zenon DEF n, k
    <2>2. \A i \in 1..Len(tl) : /\ tl[i] <= h.pm.curView
                                /\ tl[i] >= 1
                                /\ IsLeader(r, tl[i])
      BY <1>1, <2>1, Zenon DEF PacemakerOK
    <2>3. \A i, j \in 1..Len(tl) : i < j => tl[i] < tl[j]
      <3>1. \A i, j \in 1..Len(tl) : i < j => i + 1 < j + 1
        BY <1>3
      <3> QED
        BY <1>1, <2>1, <3>1, Zenon DEF PacemakerOK
    <2>4. \A a \in proposals : ProposerOf(a) = r =>
            /\ ViewOf(a) <= h.pm.curView
            /\ \A i \in 1..Len(tl) : ViewOf(a) < tl[i]
      BY <1>1, <2>1, Zenon DEF PacemakerOK
    <2>5. \A i \in 1..Len(tl) : ViewOf(b) < tl[i]
      <3>1. 1 \in 1..Len(nv) /\ \A i \in 1..Len(tl) : 1 < i + 1
        BY <1>3
      <3>2. \A i \in 1..Len(tl) : nv[1] < nv[i + 1]
        BY <1>1, <2>1, <3>1, Zenon DEF PacemakerOK
      <3> QED
        BY <1>4, <2>1, <3>2, Zenon
    <2>6. \A a \in P : ProposerOf(a) = r =>
            /\ ViewOf(a) <= h.pm.curView
            /\ \A i \in 1..Len(tl) : ViewOf(a) < tl[i]
      BY <1>4, <1>5, <2>4, <2>5, Zenon
    <2> QED
      BY <1>9, <2>2, <2>3, <2>6, Zenon DEF PacemakerOK
  <1>11. ReplicaOK(s, r, P, cast)
    <2>1. StoreOK(s.bc, P, cast)
      BY <1>1, <1>6, <1>9, StoreMonotone, Zenon DEF ReplicaOK, ChainOK
    <2>2. Backed(s.highQC, P, cast) /\ \A qc \in s.bufferedQCs : Backed(qc, P, cast)
      BY <1>1, <1>6, <1>9, BackedMonotone, Zenon DEF ReplicaOK, ChainOK
    <2>3. /\ s \in HotStuffState
          /\ s.bufferedBlocks \subseteq P
          /\ s.pending = ZeroID \/ s.pending \in P
      BY <1>1, <1>9, Zenon DEF ReplicaOK
    <2> QED
      BY <1>10, <2>1, <2>2, <2>3, Zenon DEF ReplicaOK
  <1>12. Grows(h, s)
    <2>1. Grows(h, h)
      BY <1>1, GrowsReflexive, Zenon
    <2> QED
      BY <1>9, <2>1, Zenon DEF Grows
  <1> QED
    BY <1>4, <1>5, <1>7, <1>8, <1>11, <1>12, Zenon DEF h, s

-----------------------------------------------------------------------------
(* The steps *)

\* AdvanceView enters the view after that of a QC that is not too old.
LEMMA AdvanceViewTo ==
    ASSUME NEW pm \in PacemakerState, NEW r, NEW view \in Nat, view >= pm.curView
    PROVE  AdvanceView(pm, r, view).curView = view + 1
  <1>1. pm.curView \in Nat
    BY Zenon DEF PacemakerState
  <1>2. ~(view < pm.curView)
    BY <1>1
  <1> QED
    BY <1>2, Zenon DEF AdvanceView, PacemakerState

\* AdoptCertificate enters the view after that of the QC.
LEMMA AdoptView ==
    ASSUME NEW s \in HotStuffState, NEW r, NEW qc \in QC, qc.view >= s.pm.curView
    PROVE  AdoptCertificate(UpdatePreferredView(s, qc), r, qc).pm.curView = qc.view + 1
  <1> DEFINE s1 == UpdatePreferredView(s, qc)
             s2 == [s1 EXCEPT !.pm = AdvanceView(@, r, qc.view)]
             s3 == UpdateHighQC(s2, qc)
             t  == Commit(s3, qc)
  <1>1. s.pm \in PacemakerState /\ qc.view \in Nat /\ "pm" \in DOMAIN s
    BY StateType, Zenon DEF HotStuffState, QC
  <1>2. s1.pm = s.pm /\ DOMAIN s1 = DOMAIN s
    BY Zenon DEF UpdatePreferredView, HotStuffState
  <1> HIDE DEF s1
  <1>3. s2.pm = AdvanceView(s.pm, r, qc.view)
    BY <1>1, <1>2, Zenon
  <1> HIDE DEF s2
  <1>4. s3.pm = s2.pm
    BY DEF UpdateHighQC
  <1> HIDE DEF s3
  <1>5. t.pm = s3.pm
    BY DEF Commit
  <1>6. t.pm.curView = qc.view + 1
    BY <1>1, <1>3, <1>4, <1>5, AdvanceViewTo
  <1> QED
    BY <1>6, Zenon DEF AdoptCertificate, s1, s2, s3

\* The chain below the parent of b is the chain below b.
LEMMA ParentChain ==
    ASSUME NEW b \in Block
    PROVE  /\ Len(PrevID(b)) = Len(b) - 1
           /\ \A h \in 1..(Len(b) - 1) : AtHeight(PrevID(b), h) = AtHeight(b, h)
  <1> DEFINE L == Len(b)
             p == PrevID(b)
  <1>1. b \in Seq(Header) /\ L \in Nat \ {0}
    BY BlockType, Zenon DEF Block, BlockID
  <1>2. \A k \in 0..L : /\ SubSeq(b, 1, k) \in Seq(Header)
                        /\ Len(SubSeq(b, 1, k)) = k
                        /\ \A i \in 1..k : SubSeq(b, 1, k)[i] = b[i]
    <2> TAKE k \in 0..L
    <2>1. \A i \in 1..k : b[i] \in Header
      BY <1>1
    <2> QED
      BY <1>1, <2>1
  <1>3. p = SubSeq(b, 1, L - 1) /\ L - 1 \in 0..L
    BY <1>1 DEF PrevID
  <1>4. p \in Seq(Header) /\ Len(p) = L - 1 /\ \A i \in 1..(L - 1) : p[i] = b[i]
    BY <1>2, <1>3, Zenon
  <1> HIDE DEF p, L
  <1>5. ASSUME NEW h \in 1..(L - 1) PROVE SubSeq(p, 1, h) = SubSeq(b, 1, h)
    <2>1. h \in 0..L /\ \A i \in 1..h : i \in 1..(L - 1)
      BY <1>1
    <2>2. \A i \in 1..h : p[i] \in Header
      BY <1>4, <2>1
    <2>3. /\ SubSeq(p, 1, h) \in Seq(Header) /\ Len(SubSeq(p, 1, h)) = h
          /\ \A i \in 1..h : SubSeq(p, 1, h)[i] = p[i]
      BY <2>1, <2>2
    <2>4. /\ SubSeq(b, 1, h) \in Seq(Header) /\ Len(SubSeq(b, 1, h)) = h
          /\ \A i \in 1..h : SubSeq(b, 1, h)[i] = b[i]
      BY <1>2, <2>1, Zenon
    <2>5. \A i \in 1..h : SubSeq(p, 1, h)[i] = SubSeq(b, 1, h)[i]
      BY <1>4, <2>1, <2>3, <2>4, Zenon
    <2> QED
      BY <2>3, <2>4, <2>5
  <1> QED
    BY <1>4, <1>5, Zenon DEF AtHeight, L, p

\* A block that is not its own parent.
LEMMA NotOwnParent ==
    ASSUME NEW b \in Block
    PROVE  PrevID(b) # b
  BY ParentChain, BlockType

\* A new block carries the highest QC of its proposer.
LEMMA NewBlock ==
    ASSUME IInv, NEW r \in Replica, ProcessNewView(r)
    PROVE  LET b == MakeBlock(Head(hs[r].pm.newViews), hs[r].highQC, r, hs[r].proposedNo)
           IN  /\ proposals' = proposals \union {b}
               /\ QCOf(b) = hs[r].highQC /\ ProposerOf(b) = r
               /\ ChainOK(proposals', cast)
               /\ ReplicaOK(TakeNewView(hs[r]), r, proposals', cast)
               /\ ProcessBlock(r, TakeNewView(hs[r]), b, FALSE)
               /\ TakeNewView(hs[r]).highQC = hs[r].highQC
               /\ TakeNewView(hs[r]).pm.curView = hs[r].pm.curView
  <1> DEFINE b  == MakeBlock(Head(hs[r].pm.newViews), hs[r].highQC, r, hs[r].proposedNo)
             P  == proposals \union {b}
             nv == hs[r].pm.newViews
  <1>1. /\ nv # << >> /\ proposals' = P
        /\ ProcessBlock(r, TakeNewView(hs[r]), b, FALSE)
    BY Zenon DEF ProcessNewView, MakeProposal
  <1>2. hs[r] \in HotStuffState
    BY Zenon DEF IInv
  <1>3. /\ nv \in Seq(Nat) /\ hs[r].highQC \in QC /\ hs[r].proposedNo \in Nat
        /\ hs[r].pm \in PacemakerState
    BY <1>2, StateType, Zenon DEF HotStuffState, PacemakerState
  <1>4. Head(nv) \in Nat /\ Tail(nv) \in Seq(Nat)
    BY <1>1, <1>3
  <1>5. \A v \in Nat : LET x == MakeBlock(v, hs[r].highQC, r, hs[r].proposedNo)
                       IN  QCOf(x) = hs[r].highQC /\ ProposerOf(x) = r
    <2>1. \A v \in Nat, qc \in QC, no \in Nat :
            QCOf(MakeBlock(v, qc, r, no)) = qc /\ ProposerOf(MakeBlock(v, qc, r, no)) = r
      BY MakeBlockProperties
    <2> QED
      BY <1>3, <2>1, Zenon
  <1>6. QCOf(b) = hs[r].highQC /\ ProposerOf(b) = r
    BY <1>4, <1>5, Zenon
  <1>7. ChainOK(P, cast) /\ ReplicaOK(TakeNewView(hs[r]), r, P, cast)
    BY <1>1, ProposeOK, Zenon
  <1>8. /\ TakeNewView(hs[r]).highQC = hs[r].highQC
        /\ TakeNewView(hs[r]).pm.curView = hs[r].pm.curView
    BY <1>2, <1>3, Zenon DEF TakeNewView, HotStuffState, PacemakerState
  <1> QED
    BY <1>1, <1>6, <1>7, <1>8, Zenon

\* proposeBlock makes the only block of its view.
LEMMA ProcessNewViewOK ==
    ASSUME IInv, NEW r \in Replica, ProcessNewView(r)
    PROVE  IInv' /\ \A q \in Replica : Grows(hs[q], hs'[q])
  <1> DEFINE b == MakeBlock(Head(hs[r].pm.newViews), hs[r].highQC, r, hs[r].proposedNo)
             P == proposals \union {b}
             s == TakeNewView(hs[r])
  <1>1. /\ hs[r].pm.newViews # << >>
        /\ proposals' = P
        /\ blockMsgs' = blockMsgs \union {<<to, b>> : to \in Replica \ {r}}
        /\ ProcessBlock(r, s, b, FALSE)
        /\ UNCHANGED <<tmoMsgs, heldVotes, heldTmos>>
    BY Zenon DEF ProcessNewView, MakeProposal
  <1>2. /\ ChainOK(P, cast)
        /\ b \in Block /\ ProposerOf(b) = r
        /\ ViewOf(b) >= 1 /\ IsLeader(r, ViewOf(b))
        /\ \A a \in proposals : ViewOf(a) # ViewOf(b)
        /\ ReplicaOK(s, r, P, cast)
        /\ Grows(hs[r], s)
    BY <1>1, ProposeOK, Zenon
  <1>3. P = proposals \union {b}
    BY Zenon
  <1> HIDE DEF b, P, s
  <1>4. ProposalsOK'
    BY <1>1, <1>2, <1>3, Zenon DEF IInv, ProposalsOK
  <1>5. NoEquivocation'
    BY <1>1, <1>2, <1>3, Zenon DEF IInv, NoEquivocation
  <1>6. blockMsgs' \subseteq Replica \X proposals'
    <2>1. b \in proposals' /\ proposals \subseteq proposals'
      BY <1>1, <1>3, Zenon
    <2>2. blockMsgs \subseteq Replica \X proposals'
      BY <2>1, Zenon DEF IInv, MessagesOK
    <2> QED
      BY <1>1, <2>1, <2>2
  <1>7. /\ b \in proposals' /\ proposals \subseteq proposals'
        /\ \A x \in proposals' \ proposals : ProposerOf(x) = r
    BY <1>1, <1>2, <1>3, Zenon
  <1>8. ReplicaOK(s, r, proposals', cast) /\ ChainOK(proposals', cast)
    BY <1>1, <1>2, Zenon
  <1> QED
    BY <1>1, <1>2, <1>4, <1>5, <1>6, <1>7, <1>8, BlockStep, Zenon

\* The block of another replica.
LEMMA HandleBlockOK ==
    ASSUME IInv, NEW r \in Replica, HandleBlock(r)
    PROVE  IInv' /\ \A q \in Replica : Grows(hs[q], hs'[q])
  <1>1. PICK m \in blockMsgs : /\ blockMsgs' = blockMsgs \ {m}
                               /\ ProcessBlock(r, hs[r], m[2], FALSE)
    BY Zenon DEF HandleBlock
  <1>2. proposals' = proposals /\ UNCHANGED <<tmoMsgs, heldVotes, heldTmos>>
    BY Zenon DEF HandleBlock
  <1>3. m[2] \in proposals' /\ blockMsgs' \subseteq Replica \X proposals'
    BY <1>1, <1>2, Zenon DEF IInv, MessagesOK
  <1>4. /\ ReplicaOK(hs[r], r, proposals', cast) /\ ChainOK(proposals', cast)
        /\ Grows(hs[r], hs[r])
    BY <1>2, GrowsReflexive, Zenon DEF IInv
  <1>5. ProposalsOK' /\ NoEquivocation'
    BY <1>2, Zenon DEF IInv, ProposalsOK, NoEquivocation
  <1>6. proposals \subseteq proposals' /\ \A x \in proposals' \ proposals : ProposerOf(x) = r
    BY <1>2, Zenon
  <1> QED
    BY <1>1, <1>2, <1>3, <1>4, <1>5, <1>6, BlockStep, Zenon

\* The nested call for a buffered block.
LEMMA ProcessPendingOK ==
    ASSUME IInv, NEW r \in Replica, ProcessPending(r)
    PROVE  IInv' /\ \A q \in Replica : Grows(hs[q], hs'[q])
  <1> DEFINE s == [hs[r] EXCEPT !.pending = ZeroID]
             b == hs[r].pending
  <1>1. /\ b # ZeroID /\ ProcessBlock(r, s, b, TRUE)
        /\ proposals' = proposals /\ blockMsgs' = blockMsgs
        /\ UNCHANGED <<tmoMsgs, heldVotes, heldTmos>>
    BY Zenon DEF ProcessPending
  <1>2. ReplicaOK(hs[r], r, proposals, cast) /\ ChainOK(proposals, cast)
    BY Zenon DEF IInv
  <1>3. b \in proposals'
    BY <1>1, <1>2, Zenon DEF ReplicaOK
  <1>4. StepOK(hs[r], s, r, proposals, cast)
    BY <1>2, SetPending, Zenon
  <1>5. /\ ReplicaOK(s, r, proposals', cast) /\ ChainOK(proposals', cast)
        /\ Grows(hs[r], s)
    BY <1>1, <1>2, <1>4, Zenon DEF StepOK
  <1> HIDE DEF s, b
  <1>6. ProposalsOK' /\ NoEquivocation'
    BY <1>1, Zenon DEF IInv, ProposalsOK, NoEquivocation
  <1>7. blockMsgs' \subseteq Replica \X proposals'
    BY <1>1, Zenon DEF IInv, MessagesOK
  <1>8. proposals \subseteq proposals' /\ \A x \in proposals' \ proposals : ProposerOf(x) = r
    BY <1>1, Zenon
  <1> QED
    BY <1>1, <1>3, <1>5, <1>6, <1>7, <1>8, BlockStep, Zenon

\* The first transaction takes the leader of view 1 to view 1.
LEMMA HandleTxnOK ==
    ASSUME IInv, NEW r \in Replica, HandleTxn(r)
    PROVE  IInv' /\ \A q \in Replica : Grows(hs[q], hs'[q])
  <1> DEFINE t == [hs[r] EXCEPT !.pm = AdvanceView(@, r, 0)]
  <1>1. hs' = [hs EXCEPT ![r] = t] /\ UNCHANGED <<proposals, cast>>
    BY Zenon DEF HandleTxn
  <1>2. ReplicaOK(hs[r], r, proposals, cast) /\ ChainOK(proposals, cast)
    BY Zenon DEF IInv
  <1>3. StepOK(hs[r], t, r, proposals, cast)
    BY <1>2, EnterView, Zenon
  <1>4. MessagesOK'
    BY Zenon DEF HandleTxn, IInv, MessagesOK
  <1> HIDE DEF t
  <1> QED
    BY <1>1, <1>3, <1>4, QuietStep, Zenon

\* A step that changes messages only.
LEMMA MessageStep ==
    ASSUME IInv, UNCHANGED <<hs, proposals, cast>>, MessagesOK'
    PROVE  IInv' /\ \A q \in Replica : Grows(hs[q], hs'[q])
  <1>1. hs' = hs /\ proposals' = proposals /\ cast' = cast
    BY Zenon
  <1>2. IInv'
    BY <1>1, Zenon DEF IInv, ProposalsOK, NoEquivocation
  <1>3. \A q \in Replica : Grows(hs[q], hs'[q])
    BY <1>1, GrowsReflexive, Zenon DEF IInv
  <1> QED
    BY <1>2, <1>3, Zenon

\* A vote that arrives.
LEMMA HandleVoteOK ==
    ASSUME IInv, NEW r \in Replica, HandleVote(r)
    PROVE  IInv' /\ \A q \in Replica : Grows(hs[q], hs'[q])
  <1>1. MessagesOK'
    BY Zenon DEF HandleVote, IInv, MessagesOK
  <1>2. UNCHANGED <<hs, proposals, cast>>
    BY Zenon DEF HandleVote
  <1> QED
    BY <1>1, <1>2, MessageStep, Zenon

\* A timeout that arrives.
LEMMA HandleTmoOK ==
    ASSUME IInv, NEW r \in Replica, HandleTmo(r)
    PROVE  IInv' /\ \A q \in Replica : Grows(hs[q], hs'[q])
  <1>1. MessagesOK'
    BY Zenon DEF HandleTmo, IInv, MessagesOK
  <1>2. UNCHANGED <<hs, proposals, cast>>
    BY Zenon DEF HandleTmo
  <1> QED
    BY <1>1, <1>2, MessageStep, Zenon

\* A vote that the event loop takes.
LEMMA VoteEventOK ==
    ASSUME IInv, NEW r \in Replica, VoteEvent(r)
    PROVE  IInv' /\ \A q \in Replica : Grows(hs[q], hs'[q])
  <1>1. PICK vote \in heldVotes : /\ heldVotes' = heldVotes \ {vote}
                                 /\ hs' = [hs EXCEPT ![r] = ProcessVote(@, r, vote)]
    BY Zenon DEF VoteEvent
  <1>2. ReplicaOK(hs[r], r, proposals, cast) /\ ChainOK(proposals, cast) /\ vote \in cast
    BY Zenon DEF IInv, MessagesOK
  <1> DEFINE t == ProcessVote(hs[r], r, vote)
  <1>3. StepOK(hs[r], t, r, proposals, cast)
    BY <1>2, ProcessVoteOK, Zenon
  <1>4. hs' = [hs EXCEPT ![r] = t] /\ UNCHANGED <<proposals, cast>>
    <2>1. UNCHANGED <<proposals, cast>>
      BY Zenon DEF VoteEvent
    <2> QED
      BY <1>1, <2>1, Zenon
  <1>5. MessagesOK'
    BY <1>1, Zenon DEF VoteEvent, IInv, MessagesOK
  <1> HIDE DEF t
  <1> QED
    BY <1>3, <1>4, <1>5, QuietStep, Zenon

\* A timeout that the event loop takes.
LEMMA TmoEventOK ==
    ASSUME IInv, NEW r \in Replica, TmoEvent(r)
    PROVE  IInv' /\ \A q \in Replica : Grows(hs[q], hs'[q])
  <1>1. PICK m \in heldTmos : /\ heldTmos' = heldTmos \ {m}
                             /\ hs' = [hs EXCEPT ![r] = ProcessRemoteTmo(@, r, m[2])]
    BY Zenon DEF TmoEvent
  <1>2. /\ ReplicaOK(hs[r], r, proposals, cast) /\ ChainOK(proposals, cast)
        /\ m[2] \in TMO /\ Backed(m[2].highQC, proposals, cast)
    BY Zenon DEF IInv, MessagesOK
  <1> DEFINE t == ProcessRemoteTmo(hs[r], r, m[2])
  <1>3. StepOK(hs[r], t, r, proposals, cast)
    BY <1>2, ProcessRemoteTmoOK, Zenon
  <1>4. hs' = [hs EXCEPT ![r] = t] /\ UNCHANGED <<proposals, cast>>
    <2>1. UNCHANGED <<proposals, cast>>
      BY Zenon DEF TmoEvent
    <2> QED
      BY <1>1, <2>1, Zenon
  <1>5. MessagesOK'
    BY <1>1, Zenon DEF TmoEvent, IInv, MessagesOK
  <1> HIDE DEF t
  <1> QED
    BY <1>3, <1>4, <1>5, QuietStep, Zenon

\* The view that the timer's goroutine has read is no part of the other state.
LEMMA SetLocalTmo ==
    ASSUME NEW P, NEW C, NEW r, NEW s, ReplicaOK(s, r, P, C),
           NEW v \in Nat \union {NoTimeout}
    PROVE  StepOK(s, [s EXCEPT !.localTmo = v], r, P, C)
  <1> DEFINE t == [s EXCEPT !.localTmo = v]
  <1>1. s \in HotStuffState
    BY Zenon DEF ReplicaOK
  <1>2. /\ t \in HotStuffState
        /\ t.pm = s.pm /\ t.bc = s.bc /\ t.preferredView = s.preferredView
        /\ t.highQC = s.highQC /\ t.bufferedQCs = s.bufferedQCs
        /\ t.bufferedBlocks = s.bufferedBlocks /\ t.pending = s.pending
    BY <1>1, Zenon DEF HotStuffState
  <1> HIDE DEF t
  <1>3. ReplicaOK(t, r, P, C)
    BY <1>2, Zenon DEF ReplicaOK
  <1>4. Grows(s, s)
    BY <1>1, GrowsReflexive, Zenon
  <1>5. Grows(s, t)
    BY <1>2, <1>4, Zenon DEF Grows
  <1> QED
    BY <1>3, <1>5, Zenon DEF StepOK, t

\* The view timer.
LEMMA TimerFiresOK ==
    ASSUME IInv, NEW r \in Replica, TimerFires(r)
    PROVE  IInv' /\ \A q \in Replica : Grows(hs[q], hs'[q])
  <1> DEFINE v == hs[r].pm.curView
             t == [hs[r] EXCEPT !.localTmo = v]
  <1>1. hs' = [hs EXCEPT ![r] = t] /\ UNCHANGED <<proposals, cast>>
    BY Zenon DEF TimerFires
  <1>2. ReplicaOK(hs[r], r, proposals, cast) /\ hs[r] \in HotStuffState
    BY Zenon DEF IInv
  <1>3. v \in Nat \union {NoTimeout}
    BY <1>2, StateType, Zenon
  <1>4. MessagesOK'
    BY Zenon DEF TimerFires, IInv, MessagesOK
  <1> HIDE DEF v
  <1>5. StepOK(hs[r], t, r, proposals, cast)
    BY <1>2, <1>3, SetLocalTmo, Zenon
  <1> HIDE DEF t
  <1> QED
    BY <1>1, <1>4, <1>5, QuietStep, Zenon

\* The replica's own timeout carries its highest QC, which is backed.
LEMMA ProcessLocalTmoOK ==
    ASSUME IInv, NEW r \in Replica, ProcessLocalTmo(r)
    PROVE  IInv' /\ \A q \in Replica : Grows(hs[q], hs'[q])
  <1> DEFINE view == hs[r].localTmo
             s0   == [hs[r] EXCEPT !.localTmo = NoTimeout]
             s1   == [hs[r] EXCEPT !.localTmo = NoTimeout, !.pm = AdvanceView(@, r, view)]
             tmo  == [view |-> view + 1, node |-> r, highQC |-> s1.highQC]
             t    == ProcessRemoteTmo(s1, r, tmo)
  <1>1. /\ view # NoTimeout
        /\ tmoMsgs' = tmoMsgs \union {<<to, tmo>> : to \in Replica \ {r}}
        /\ hs' = [hs EXCEPT ![r] = t]
    BY Zenon DEF ProcessLocalTmo
  <1>2. /\ proposals' = proposals /\ cast' = cast
        /\ blockMsgs' = blockMsgs /\ voteMsgs' = voteMsgs
        /\ heldVotes' = heldVotes /\ heldTmos' = heldTmos
    BY Zenon DEF ProcessLocalTmo
  <1>3. /\ ReplicaOK(hs[r], r, proposals, cast) /\ hs[r] \in HotStuffState
        /\ ChainOK(proposals, cast)
    BY Zenon DEF IInv
  <1>4. view \in Nat
    BY <1>1, <1>3, Zenon DEF HotStuffState
  <1>5. StepOK(hs[r], s0, r, proposals, cast)
    BY <1>3, SetLocalTmo, Zenon
  <1>6. s1 = [s0 EXCEPT !.pm = AdvanceView(@, r, view)]
    BY <1>3, Zenon DEF HotStuffState
  <1> HIDE DEF view, s0, s1, tmo, t
  <1>7. StepOK(s0, [s0 EXCEPT !.pm = AdvanceView(@, r, view)], r, proposals, cast)
    <2>1. ReplicaOK(s0, r, proposals, cast)
      BY <1>5, Zenon DEF StepOK
    <2> QED
      BY <1>3, <1>4, <2>1, EnterView, Zenon
  <1>8. StepOK(s0, s1, r, proposals, cast) /\ ReplicaOK(s1, r, proposals, cast)
    BY <1>6, <1>7, Zenon DEF StepOK
  <1>9. tmo \in TMO /\ tmo.highQC = s1.highQC /\ Backed(tmo.highQC, proposals, cast)
    <2>1. s1.highQC \in QC /\ Backed(s1.highQC, proposals, cast)
      BY <1>8, StateType, Zenon DEF ReplicaOK
    <2> QED
      BY <1>4, <2>1 DEF tmo, TMO
  <1>10. StepOK(s1, t, r, proposals, cast)
    BY <1>3, <1>8, <1>9, ProcessRemoteTmoOK, Zenon DEF t
  <1>11. StepOK(hs[r], t, r, proposals, cast)
    <2>1. StepOK(hs[r], s1, r, proposals, cast)
      BY <1>3, <1>5, <1>8, StepOKTransitive, Zenon
    <2> QED
      BY <1>3, <1>10, <2>1, StepOKTransitive, Zenon
  <1>12. MessagesOK'
    <2>1. tmoMsgs' \subseteq Replica \X TMO
      BY <1>1, <1>9 DEF IInv, MessagesOK
    <2>2. \A m \in tmoMsgs' \union heldTmos' : Backed(m[2].highQC, proposals, cast)
      <3> SUFFICES ASSUME NEW m \in tmoMsgs' \union heldTmos'
                   PROVE  Backed(m[2].highQC, proposals, cast)
        BY Zenon
      <3>1. CASE m \in tmoMsgs \union heldTmos
        BY <3>1, Zenon DEF IInv, MessagesOK
      <3>2. CASE m \notin tmoMsgs \union heldTmos
        <4>1. PICK to \in Replica : m = <<to, tmo>>
          BY <1>1, <1>2, <3>2, Zenon
        <4>2. m[2] = tmo
          BY <4>1, Zenon
        <4> QED
          BY <1>9, <4>2, Zenon
      <3> QED
        BY <3>1, <3>2, Zenon
    <2> QED
      BY <1>2, <2>1, <2>2, Zenon DEF IInv, MessagesOK
  <1>13. UNCHANGED <<proposals, cast>>
    BY <1>2, Zenon
  <1> QED
    BY <1>1, <1>11, <1>12, <1>13, QuietStep, Zenon

-----------------------------------------------------------------------------
(* Every step *)

\* Every step keeps the invariant and takes no replica back.
LEMMA NextIInv ==
    ASSUME IInv, [Next]_vars
    PROVE  IInv' /\ \A q \in Replica : Grows(hs[q], hs'[q])
  <1>1. CASE Next
    <2>1. PICK r \in Replica : \/ HandleTxn(r) \/ ProcessNewView(r) \/ HandleBlock(r)
                               \/ ProcessPending(r) \/ HandleVote(r) \/ VoteEvent(r)
                               \/ HandleTmo(r) \/ TmoEvent(r)
                               \/ TimerFires(r) \/ ProcessLocalTmo(r)
      BY <1>1, Zenon DEF Next
    <2> QED
      BY <2>1, HandleTxnOK, ProcessNewViewOK, HandleBlockOK, ProcessPendingOK,
         HandleVoteOK, VoteEventOK, HandleTmoOK, TmoEventOK, TimerFiresOK, ProcessLocalTmoOK, Zenon
  <1>2. CASE UNCHANGED vars
    <2>1. /\ hs' = hs /\ proposals' = proposals /\ blockMsgs' = blockMsgs
          /\ cast' = cast /\ voteMsgs' = voteMsgs /\ tmoMsgs' = tmoMsgs
          /\ heldVotes' = heldVotes /\ heldTmos' = heldTmos
      BY <1>2, Zenon DEF vars
    <2>2. MessagesOK' /\ UNCHANGED <<hs, proposals, cast>>
      BY <2>1, Zenon DEF IInv, MessagesOK
    <2> QED
      BY <2>2, MessageStep, Zenon
  <1> QED
    BY <1>1, <1>2, Zenon

-----------------------------------------------------------------------------
(* The stall *)

\* What a leader proposes on is not above its highest QC, and a vote of view 3 or
\* later is for a block with a certified parent.
StallInv ==
    /\ \A b \in proposals : QCOf(b).view <= hs[ProposerOf(b)].highQC.view
    /\ \A v \in cast : v.view >= 3 => QCOf(v.id) # InitialQC

\* From view 3 on votingRule accepts only blocks whose parent was proposed.
LEMMA VoteNeedsParent ==
    ASSUME NEW P, NEW C, ChainOK(P, C), NEW r \in Replica, NEW s, ReplicaOK(s, r, P, C),
           NEW b \in P, VotingRule(StoreBlock(ProcessBlockQC(s, r, b), r, b), b),
           ViewOf(b) >= 3
    PROVE  QCOf(b) # InitialQC
  <1> DEFINE s1 == ProcessBlockQC(s, r, b)
             s2 == StoreBlock(s1, r, b)
  <1>1. ReplicaOK(s1, r, P, C)
    BY ProcessBlockQCOK, Zenon DEF StepOK
  <1>2. ReplicaOK(s2, r, P, C)
    <2> HIDE DEF s1
    <2> QED
      BY <1>1, StoreBlockOK, Zenon DEF StepOK
  <1> HIDE DEF s2
  <1>3. b \in Block /\ ViewOf(b) \in Nat /\ QCOf(b).id = PrevID(b) /\ P \subseteq Block
    BY BlockType, Zenon DEF ChainOK
  <1>4. PrevID(b) \in P
    <2>1. VotingRule(s2, b)
      BY Zenon DEF s2
    <2> QED
      BY <1>2, <1>3, <2>1 DEF VotingRule, HasParent, ReplicaOK, StoreOK
  <1> QED
    BY <1>3, <1>4 DEF InitialQC, Block

\* The certificates that can exist while no block carries one are those of views
\* 1 and 2.
LEMMA StalledCertificates ==
    ASSUME NEW P, NEW C, ChainOK(P, C), \A v \in C : v.view <= 2,
           NEW qc, Backed(qc, P, C)
    PROVE  qc.view \in Nat /\ qc.view <= 2
  <1>1. CASE qc = InitialQC
    BY <1>1 DEF InitialQC
  <1>2. CASE qc # InitialQC
    <2>1. qc.view = ViewOf(qc.id) /\ SuperMajority(Voters(C, qc.id))
      BY <1>2, Zenon DEF Backed
    <2>2. Voters(C, qc.id) # {}
      <3>1. Cardinality({}) = 0 /\ N \in Nat
        BY NAssumption, Zenon DEF ChainOK, Counting, SmallSize
      <3>2. ~SuperMajority({})
        BY <3>1 DEF SuperMajority
      <3> QED
        BY <2>1, <3>2, Zenon
    <2>3. PICK v \in C : v.id = qc.id
      BY <2>2, Zenon DEF Voters
    <2> QED
      BY <2>1, <2>3, Zenon DEF ChainOK, Vote
  <1> QED
    BY <1>1, <1>2, Zenon


\* A replica past view 2 ignores such certificates, whoever brings them.
LEMMA StalledHandlers ==
    ASSUME NEW s \in HotStuffState, s.pm.curView > 2, NEW r
    PROVE  /\ \A qc : qc.view \in Nat /\ qc.view <= 2 => ProcessCertificate(s, r, qc) = s
           /\ \A v : v.view \in Nat /\ v.view <= 2
                        => ProcessVote(s, r, v).highQC = s.highQC
           /\ \A b : QCOf(b) = InitialQC => ProcessBlockQC(s, r, b) = s
           /\ \A b : (\A q \in s.bufferedQCs : q.view \in Nat /\ q.view <= 2)
                        => StoreBlock(s, r, b).highQC = s.highQC
           /\ \A m : m.highQC.view \in Nat /\ m.highQC.view <= 2
                        => ProcessRemoteTmo(s, r, m).highQC = s.highQC
           /\ \A b : /\ BufferBlock(s, b).highQC = s.highQC
                     /\ NextBuffered(s, b).highQC = s.highQC
           /\ \A b, nested : Return(s, b, nested).highQC = s.highQC
  <1>1. s.pm.curView \in Nat /\ s.highQC.view \in Nat
    BY StateType, Zenon
  <1>2. \A t : t.pm.curView = s.pm.curView =>
            \A qc : qc.view \in Nat /\ qc.view <= 2 => ProcessCertificate(t, r, qc) = t
    BY <1>1 DEF ProcessCertificate
  <1>3. \A qc : BufferQC(s, qc).highQC = s.highQC
    BY Zenon DEF BufferQC, HotStuffState
  <1>4. \A v : v.view \in Nat /\ v.view <= 2 => ProcessVote(s, r, v).highQC = s.highQC
    <2> SUFFICES ASSUME NEW v, v.view \in Nat, v.view <= 2
                 PROVE  ProcessVote(s, r, v).highQC = s.highQC
      BY Zenon
    <2> DEFINE s1 == [s EXCEPT !.bc = AddVote(@, v)]
               qc == QCFrom(v)
    <2>1. s1.pm.curView = s.pm.curView /\ s1.highQC = s.highQC
      BY Zenon DEF HotStuffState
    <2>2. qc.view \in Nat /\ qc.view <= 2
      BY Zenon DEF QCFrom
    <2>3. BufferQC(s1, qc).highQC = s.highQC
      BY Zenon DEF BufferQC, HotStuffState
    <2>4. ProcessCertificate(s1, r, qc) = s1
      <3> HIDE DEF s1, qc
      <3> QED
        BY <1>2, <2>1, <2>2, Zenon
    <2>5. ProcessVote(s, r, v) \in {s1, BufferQC(s1, qc), ProcessCertificate(s1, r, qc)}
      BY Zenon DEF ProcessVote
    <2> HIDE DEF s1, qc
    <2> QED
      BY <2>1, <2>3, <2>4, <2>5, Zenon
  <1>5. \A b : QCOf(b) = InitialQC => ProcessBlockQC(s, r, b) = s
    <2> SUFFICES ASSUME NEW b, QCOf(b) = InitialQC PROVE ProcessBlockQC(s, r, b) = s
      BY Zenon
    <2>1. QCOf(b).view = 0
      BY DEF InitialQC
    <2>2. UpdateHighQC(s, QCOf(b)) = s
      BY <1>1, <2>1 DEF UpdateHighQC
    <2>3. ProcessCertificate(s, r, QCOf(b)) = s
      BY <1>2, <2>1
    <2> QED
      BY <2>2, <2>3, Zenon DEF ProcessBlockQC
  <1>6. \A b : (\A q \in s.bufferedQCs : q.view \in Nat /\ q.view <= 2)
                        => StoreBlock(s, r, b).highQC = s.highQC
    <2> SUFFICES ASSUME NEW b, \A q \in s.bufferedQCs : q.view \in Nat /\ q.view <= 2
                 PROVE  StoreBlock(s, r, b).highQC = s.highQC
      BY Zenon
    <2> DEFINE s1 == [s EXCEPT !.bc = AddBlock(@, b)]
               qc == CHOOSE q \in s1.bufferedQCs : q.id = b
               s2 == ProcessCertificate(s1, r, qc)
    <2>1. /\ s1.pm.curView = s.pm.curView /\ s1.highQC = s.highQC
          /\ s1.bufferedQCs = s.bufferedQCs
      BY Zenon DEF HotStuffState
    <2>2. \A t : t = s1 => [t EXCEPT !.bufferedQCs = {q \in @ : q.id # b}].highQC = s.highQC
      BY Zenon DEF HotStuffState
    <2>3. CASE \E q \in s1.bufferedQCs : q.id = b
      <3>1. qc \in s.bufferedQCs
        BY <2>1, <2>3, Zenon
      <3>2. s2 = s1
        <4> HIDE DEF s1, qc
        <4> QED
          BY <1>2, <2>1, <3>1, Zenon
      <3>3. StoreBlock(s, r, b) = [s2 EXCEPT !.bufferedQCs = {q \in @ : q.id # b}]
        BY <2>3, Zenon DEF StoreBlock
      <3> HIDE DEF s2, s1, qc
      <3> QED
        BY <2>2, <3>2, <3>3
    <2>4. CASE ~\E q \in s1.bufferedQCs : q.id = b
      BY <2>1, <2>4, Zenon DEF StoreBlock
    <2> QED
      BY <2>3, <2>4, Zenon
  <1>7. \A m : m.highQC.view \in Nat /\ m.highQC.view <= 2
                        => ProcessRemoteTmo(s, r, m).highQC = s.highQC
    <2> SUFFICES ASSUME NEW m, m.highQC.view \in Nat, m.highQC.view <= 2
                 PROVE  ProcessRemoteTmo(s, r, m).highQC = s.highQC
      BY Zenon
    <2> DEFINE s2 == [s EXCEPT !.pm = AddTmo(@, m.view, m.node)]
    <2>1. ProcessCertificate(s, r, m.highQC) = s
      BY <1>2, Zenon
    <2>2. s2.highQC = s.highQC /\ ProcessTC(s2, r, m.view).highQC = s.highQC
      BY Zenon DEF HotStuffState, ProcessTC
    <2>3. ProcessRemoteTmo(s, r, m) \in {s2, ProcessTC(s2, r, m.view)}
      BY <2>1, Zenon DEF ProcessRemoteTmo
    <2> HIDE DEF s2
    <2> QED
      BY <2>2, <2>3, Zenon
  <1>8. \A b : /\ BufferBlock(s, b).highQC = s.highQC
               /\ NextBuffered(s, b).highQC = s.highQC
    BY Zenon DEF BufferBlock, NextBuffered, HotStuffState
  <1>9. \A b, nested : Return(s, b, nested).highQC = s.highQC
    BY Zenon DEF Return, UnbufferBlock, HotStuffState
  <1> QED
    BY <1>2, <1>4, <1>5, <1>6, <1>7, <1>8, <1>9, Zenon

\* The highest QC of a stalled replica stays the initial one while it processes a
\* block, and it casts no vote.
LEMMA ProcessBlockStalled ==
    ASSUME NEW P, ChainOK(P, cast), NEW r \in Replica, NEW s, ReplicaOK(s, r, P, cast),
           NEW b \in P, NEW nested, ProcessBlock(r, s, b, nested),
           s.pm.curView > 2, QCOf(b) = InitialQC, \A v \in cast : v.view <= 2
    PROVE  /\ cast' = cast
           /\ \E t : hs' = [hs EXCEPT ![r] = t] /\ t.highQC = s.highQC
  <1> DEFINE s2 == StoreBlock(s, r, b)
  <1>1. s \in HotStuffState /\ s.pm.curView \in Nat
    BY StateType, Zenon DEF ReplicaOK
  <1>2. ProcessBlockQC(s, r, b) = s
    BY <1>1, StalledHandlers, Zenon
  <1>3. ~(ViewOf(b) >= s.pm.curView /\ VotingRule(s2, b))
    <2>1. ViewOf(b) \in Nat
      BY BlockType, Zenon DEF ChainOK
    <2>2. ~(ViewOf(b) >= 3 /\ VotingRule(StoreBlock(ProcessBlockQC(s, r, b), r, b), b))
      BY VoteNeedsParent, Zenon
    <2> QED
      BY <1>1, <1>2, <2>1, <2>2
  <1>4. /\ cast' = cast
        /\ \/ hs' = [hs EXCEPT ![r] = Return(BufferBlock(s, b), b, nested)]
           \/ hs' = [hs EXCEPT ![r] = Return(s, b, nested)]
           \/ hs' = [hs EXCEPT ![r] = Return(s2, b, nested)]
    BY <1>2, <1>3, Zenon DEF ProcessBlock
  <1>5. s2.highQC = s.highQC /\ BufferBlock(s, b).highQC = s.highQC
    <2>1. \A q \in s.bufferedQCs : q.view \in Nat /\ q.view <= 2
      BY StalledCertificates, Zenon DEF ReplicaOK
    <2>2. StoreBlock(s, r, b).highQC = s.highQC
      <3>1. (\A q \in s.bufferedQCs : q.view \in Nat /\ q.view <= 2)
                => StoreBlock(s, r, b).highQC = s.highQC
        BY <1>1, StalledHandlers
      <3> QED
        BY <2>1, <3>1, Zenon
    <2>3. BufferBlock(s, b).highQC = s.highQC
      BY <1>1, StalledHandlers, Zenon
    <2> QED
      BY <2>2, <2>3, Zenon
  <1>6. \A t \in HotStuffState : Return(t, b, nested).highQC = t.highQC
    BY Zenon DEF Return, UnbufferBlock, HotStuffState
  <1>7. s2 \in HotStuffState /\ BufferBlock(s, b) \in HotStuffState
    BY StoreBlockOK, BufferBlockOK, Zenon DEF StepOK, ReplicaOK
  <1> HIDE DEF s2
  <1> QED
    BY <1>1, <1>4, <1>5, <1>6, <1>7, Zenon

\* What a step adds to the votes.
LEMMA NewVotes ==
    ASSUME NEW P, ChainOK(P, cast), NEW r \in Replica, NEW s, ReplicaOK(s, r, P, cast),
           NEW b \in P, NEW nested, ProcessBlock(r, s, b, nested)
    PROVE  \A v \in cast' \ cast : v.view >= 3 => QCOf(v.id) # InitialQC
  <1> DEFINE vote == MakeVote(ViewOf(b), r, b)
             s2   == StoreBlock(ProcessBlockQC(s, r, b), r, b)
  <1>1. cast' = cast \/ (cast' = cast \union {vote} /\ VotingRule(s2, b))
    BY Zenon DEF ProcessBlock
  <1>2. vote.view = ViewOf(b) /\ vote.id = b
    BY Zenon DEF MakeVote
  <1>3. VotingRule(s2, b) /\ ViewOf(b) >= 3 => QCOf(b) # InitialQC
    BY VoteNeedsParent, Zenon
  <1> HIDE DEF vote, s2
  <1> QED
    BY <1>1, <1>2, <1>3, Zenon

\* Every step keeps what the stall rests on.
LEMMA NextStall ==
    ASSUME IInv, StallInv, [Next]_vars
    PROVE  StallInv'
  <1>1. \A q \in Replica : Grows(hs[q], hs'[q])
    BY NextIInv, Zenon
  <1>2. /\ \A b \in proposals' \ proposals :
                ProposerOf(b) \in Replica /\ QCOf(b) = hs[ProposerOf(b)].highQC
        /\ \A v \in cast' \ cast : v.view >= 3 => QCOf(v.id) # InitialQC
    <2>1. CASE proposals' = proposals /\ cast' = cast
      BY <2>1, Zenon
    <2>2. ASSUME NEW r \in Replica, ProcessNewView(r)
          PROVE  /\ \A b \in proposals' \ proposals :
                        ProposerOf(b) \in Replica /\ QCOf(b) = hs[ProposerOf(b)].highQC
                 /\ \A v \in cast' \ cast : v.view >= 3 => QCOf(v.id) # InitialQC
      <3> DEFINE b == MakeBlock(Head(hs[r].pm.newViews), hs[r].highQC, r, hs[r].proposedNo)
      <3>1. /\ proposals' = proposals \union {b}
            /\ QCOf(b) = hs[r].highQC /\ ProposerOf(b) = r
            /\ ChainOK(proposals', cast)
            /\ ReplicaOK(TakeNewView(hs[r]), r, proposals', cast)
            /\ ProcessBlock(r, TakeNewView(hs[r]), b, FALSE)
        BY <2>2, NewBlock, Zenon
      <3> HIDE DEF b
      <3>2. b \in proposals' /\ \A x \in proposals' \ proposals : x = b
        <4>1. proposals' = proposals \union {b}
          BY <3>1, Zenon
        <4> QED
          BY <4>1, Zenon
      <3>3. \A v \in cast' \ cast : v.view >= 3 => QCOf(v.id) # InitialQC
        BY <3>1, <3>2, NewVotes, Zenon
      <3> QED
        BY <3>1, <3>2, <3>3, Zenon
    <2>3. ASSUME NEW r \in Replica, HandleBlock(r) \/ ProcessPending(r)
          PROVE  /\ proposals' = proposals
                 /\ \A v \in cast' \ cast : v.view >= 3 => QCOf(v.id) # InitialQC
      <3>1. PICK b \in proposals : \E s, nested :
                ProcessBlock(r, s, b, nested) /\ ReplicaOK(s, r, proposals, cast)
        <4>1. CASE HandleBlock(r)
          <5>1. PICK m \in blockMsgs : ProcessBlock(r, hs[r], m[2], FALSE)
            BY <4>1, Zenon DEF HandleBlock
          <5>2. m[2] \in proposals /\ ReplicaOK(hs[r], r, proposals, cast)
            BY <5>1, Zenon DEF IInv, MessagesOK
          <5> QED
            BY <5>1, <5>2, Zenon
        <4>2. CASE ProcessPending(r)
          <5> DEFINE s == [hs[r] EXCEPT !.pending = ZeroID]
          <5>1. hs[r].pending # ZeroID /\ ProcessBlock(r, s, hs[r].pending, TRUE)
            BY <4>2, Zenon DEF ProcessPending
          <5>2. hs[r].pending \in proposals /\ ReplicaOK(s, r, proposals, cast)
            BY <5>1, SetPending, Zenon DEF IInv, ReplicaOK, StepOK
          <5> HIDE DEF s
          <5> QED
            BY <5>1, <5>2, Zenon
        <4> QED
          BY <2>3, <4>1, <4>2, Zenon
      <3>2. proposals' = proposals
        BY <2>3, Zenon DEF HandleBlock, ProcessPending
      <3> QED
        BY <3>1, <3>2, NewVotes, Zenon DEF IInv
    <2>4. \/ proposals' = proposals /\ cast' = cast
          \/ \E r \in Replica : ProcessNewView(r)
          \/ \E r \in Replica : HandleBlock(r) \/ ProcessPending(r)
      BY Zenon DEF Next, HandleTxn, HandleVote, VoteEvent, HandleTmo, TmoEvent, TimerFires,
             ProcessLocalTmo, vars
    <2> QED
      BY <2>1, <2>2, <2>3, <2>4, Zenon
  <1>3. ASSUME NEW b \in proposals' PROVE QCOf(b).view <= hs'[ProposerOf(b)].highQC.view
    <2> DEFINE q == ProposerOf(b)
    <2>1. q \in Replica /\ QCOf(b).view \in Nat
      <3>1. IInv'
        BY NextIInv, Zenon
      <3>2. b \in Block
        BY <3>1, Zenon DEF IInv, ChainOK
      <3> QED
        BY <3>2, BlockType, Zenon DEF QC
    <2>2. QCOf(b).view <= hs[q].highQC.view
      <3>1. CASE b \in proposals
        BY <3>1, Zenon DEF StallInv
      <3>2. CASE b \notin proposals
        BY <1>2, <2>1, <3>2
      <3> QED
        BY <3>1, <3>2, Zenon
    <2>3. hs'[q].highQC.view >= hs[q].highQC.view
      BY <1>1, <2>1, Zenon DEF Grows
    <2>4. hs'[q].highQC.view \in Nat /\ hs[q].highQC.view \in Nat
      BY <2>1, NextIInv, StateType, Zenon DEF IInv
    <2> HIDE DEF q
    <2>5. QCOf(b).view <= hs'[q].highQC.view
      BY <2>1, <2>2, <2>3, <2>4
    <2> QED
      BY <2>5, Zenon DEF q
  <1> QED
    BY <1>2, <1>3, Zenon DEF StallInv


\* A stalled system stays stalled, and nobody votes.
LEMMA StalledStep ==
    ASSUME IInv, StallInv, [Next]_vars, Stalled
    PROVE  Stalled' /\ cast' = cast
  <1>1. /\ hs \in [Replica -> HotStuffState]
        /\ \A r \in Replica : /\ hs[r].highQC = InitialQC /\ hs[r].pm.curView > 2
                              /\ ReplicaOK(hs[r], r, proposals, cast)
        /\ ChainOK(proposals, cast)
    BY Zenon DEF Stalled, IInv
  <1>2. \A b \in proposals : QCOf(b) = InitialQC
    <2> SUFFICES ASSUME NEW b \in proposals PROVE QCOf(b) = InitialQC
      BY Zenon
    <2>1. b \in Block /\ Backed(QCOf(b), proposals, cast)
      BY <1>1, Zenon DEF ChainOK
    <2>2. ProposerOf(b) \in Replica /\ QCOf(b).view \in Nat
      BY <2>1, BlockType, Zenon DEF QC
    <2>3. QCOf(b).view <= 0
      <3>1. QCOf(b).view <= hs[ProposerOf(b)].highQC.view
        BY Zenon DEF StallInv
      <3> QED
        BY <1>1, <2>2, <3>1 DEF InitialQC
    <2>4. QCOf(b).id \in proposals /\ QCOf(b).view = ViewOf(QCOf(b).id)
            => QCOf(b).view >= 1
      BY Zenon DEF IInv, ProposalsOK
    <2> QED
      BY <2>1, <2>2, <2>3, <2>4 DEF Backed
  <1>3. \A v \in cast : v.view \in Nat /\ v.view <= 2
    BY <1>1, <1>2 DEF StallInv, ChainOK, Vote
  <1>4. \A q \in Replica : Grows(hs[q], hs'[q])
    BY NextIInv, Zenon
  <1>5. SUFFICES cast' = cast /\ \A q \in Replica : hs'[q].highQC = InitialQC
    <2>1. \A q \in Replica : hs'[q].pm.curView >= hs[q].pm.curView
      BY <1>4, Zenon DEF Grows
    <2>2. \A q \in Replica : hs'[q].pm.curView \in Nat /\ hs[q].pm.curView \in Nat
      BY <1>1, NextIInv, StateType, Zenon DEF IInv
    <2>3. \A q \in Replica : hs'[q].pm.curView > 2
      BY <1>1, <2>1, <2>2
    <2> QED
      BY <1>5, <2>3, Zenon DEF Stalled
  <1>6. ASSUME NEW r \in Replica, NEW t, hs' = [hs EXCEPT ![r] = t], t.highQC = InitialQC
        PROVE  \A q \in Replica : hs'[q].highQC = InitialQC
    BY <1>1, <1>6, Zenon
  <1>7. ASSUME NEW r \in Replica, NEW s, NEW b \in proposals', NEW nested,
               ProcessBlock(r, s, b, nested), QCOf(b) = InitialQC,
               s.highQC = InitialQC, s.pm.curView > 2,
               ChainOK(proposals', cast), ReplicaOK(s, r, proposals', cast)
        PROVE  cast' = cast /\ \A q \in Replica : hs'[q].highQC = InitialQC
    <2>1. /\ cast' = cast
          /\ \E t : hs' = [hs EXCEPT ![r] = t] /\ t.highQC = s.highQC
      BY <1>3, <1>7, ProcessBlockStalled
    <2> QED
      BY <1>6, <1>7, <2>1, Zenon
  <1>8. ASSUME NEW s \in HotStuffState, s.pm.curView > 2, s.highQC = InitialQC, NEW r
         PROVE  /\ \A v : v.view \in Nat /\ v.view <= 2
                            => ProcessVote(s, r, v).highQC = InitialQC
                /\ \A m : m.highQC.view \in Nat /\ m.highQC.view <= 2
                            => ProcessRemoteTmo(s, r, m).highQC = InitialQC
    <2>1. /\ \A v : v.view \in Nat /\ v.view <= 2
                        => ProcessVote(s, r, v).highQC = s.highQC
          /\ \A m : m.highQC.view \in Nat /\ m.highQC.view <= 2
                        => ProcessRemoteTmo(s, r, m).highQC = s.highQC
      BY <1>8, StalledHandlers, Zenon
    <2> QED
      BY <1>8, <2>1, Zenon
  <1>9. ASSUME NEW r \in Replica, HandleTxn(r)
        PROVE  cast' = cast /\ \A q \in Replica : hs'[q].highQC = InitialQC
    <2> DEFINE t == [hs[r] EXCEPT !.pm = AdvanceView(@, r, 0)]
    <2>1. hs' = [hs EXCEPT ![r] = t] /\ cast' = cast
      BY <1>9, Zenon DEF HandleTxn
    <2>2. t.highQC = InitialQC
      BY <1>1, Zenon DEF HotStuffState
    <2> HIDE DEF t
    <2> QED
      BY <1>6, <2>1, <2>2, Zenon
  <1>10. ASSUME NEW r \in Replica, ProcessNewView(r)
        PROVE  cast' = cast /\ \A q \in Replica : hs'[q].highQC = InitialQC
    <2> DEFINE b == MakeBlock(Head(hs[r].pm.newViews), hs[r].highQC, r, hs[r].proposedNo)
    <2>1. /\ proposals' = proposals \union {b} /\ QCOf(b) = hs[r].highQC
          /\ ChainOK(proposals', cast)
          /\ ReplicaOK(TakeNewView(hs[r]), r, proposals', cast)
          /\ ProcessBlock(r, TakeNewView(hs[r]), b, FALSE)
          /\ TakeNewView(hs[r]).highQC = hs[r].highQC
          /\ TakeNewView(hs[r]).pm.curView = hs[r].pm.curView
      BY <1>10, NewBlock, Zenon
    <2> HIDE DEF b
    <2>2. b \in proposals' /\ QCOf(b) = InitialQC
      BY <1>1, <2>1, Zenon
    <2> QED
      BY <1>1, <1>7, <2>1, <2>2, Zenon
  <1>11. ASSUME NEW r \in Replica, HandleBlock(r)
         PROVE  cast' = cast /\ \A q \in Replica : hs'[q].highQC = InitialQC
    <2>1. PICK m \in blockMsgs : ProcessBlock(r, hs[r], m[2], FALSE)
      BY <1>11, Zenon DEF HandleBlock
    <2>2. proposals' = proposals /\ m[2] \in proposals
      BY <1>11, <2>1, Zenon DEF HandleBlock, IInv, MessagesOK
    <2> QED
      BY <1>1, <1>2, <1>7, <2>1, <2>2, Zenon
  <1>12. ASSUME NEW r \in Replica, ProcessPending(r)
         PROVE  cast' = cast /\ \A q \in Replica : hs'[q].highQC = InitialQC
    <2> DEFINE s == [hs[r] EXCEPT !.pending = ZeroID]
    <2>1. hs[r].pending # ZeroID /\ ProcessBlock(r, s, hs[r].pending, TRUE)
          /\ proposals' = proposals
      BY <1>12, Zenon DEF ProcessPending
    <2>2. hs[r].pending \in proposals /\ ReplicaOK(s, r, proposals, cast)
      BY <1>1, <2>1, SetPending, Zenon DEF ReplicaOK, StepOK
    <2>3. s.highQC = InitialQC /\ s.pm.curView = hs[r].pm.curView
      BY <1>1, Zenon DEF HotStuffState
    <2> HIDE DEF s
    <2> QED
      BY <1>1, <1>2, <1>7, <2>1, <2>2, <2>3, Zenon
  <1>13. ASSUME NEW r \in Replica, VoteEvent(r)
         PROVE  cast' = cast /\ \A q \in Replica : hs'[q].highQC = InitialQC
    <2>1. PICK v \in heldVotes : hs' = [hs EXCEPT ![r] = ProcessVote(@, r, v)]
      BY <1>13, Zenon DEF VoteEvent
    <2>2. v \in cast /\ cast' = cast
      BY <1>13, <2>1, Zenon DEF VoteEvent, IInv, MessagesOK
    <2>3. ProcessVote(hs[r], r, v).highQC = InitialQC
      <3>1. /\ hs[r] \in HotStuffState /\ hs[r].pm.curView > 2
            /\ hs[r].highQC = InitialQC /\ v.view \in Nat /\ v.view <= 2
        BY <1>1, <1>3, <2>2, Zenon
      <3> QED
        BY <1>8, <3>1, Zenon
    <2> QED
      BY <1>6, <2>1, <2>2, <2>3, Zenon
  <1>14. \A qc : Backed(qc, proposals, cast) => qc.view \in Nat /\ qc.view <= 2
    BY <1>1, <1>3, StalledCertificates, Zenon
  <1>15. ASSUME NEW r \in Replica, TmoEvent(r)
         PROVE  cast' = cast /\ \A q \in Replica : hs'[q].highQC = InitialQC
    <2>1. PICK m \in heldTmos : hs' = [hs EXCEPT ![r] = ProcessRemoteTmo(@, r, m[2])]
      BY <1>15, Zenon DEF TmoEvent
    <2>2. Backed(m[2].highQC, proposals, cast) /\ cast' = cast
      BY <1>15, <2>1, Zenon DEF TmoEvent, IInv, MessagesOK
    <2>3. ProcessRemoteTmo(hs[r], r, m[2]).highQC = InitialQC
      <3>1. /\ hs[r] \in HotStuffState /\ hs[r].pm.curView > 2
            /\ hs[r].highQC = InitialQC
            /\ m[2].highQC.view \in Nat /\ m[2].highQC.view <= 2
        BY <1>1, <1>14, <2>2, Zenon
      <3> QED
        BY <1>8, <3>1, Zenon
    <2> QED
      BY <1>6, <2>1, <2>2, <2>3, Zenon
  <1>16. ASSUME NEW r \in Replica, TimerFires(r)
         PROVE  cast' = cast /\ \A q \in Replica : hs'[q].highQC = InitialQC
    <2> DEFINE t == [hs[r] EXCEPT !.localTmo = hs[r].pm.curView]
    <2>1. hs' = [hs EXCEPT ![r] = t] /\ cast' = cast
      BY <1>16, Zenon DEF TimerFires
    <2>2. t.highQC = InitialQC
      BY <1>1, Zenon DEF HotStuffState
    <2> HIDE DEF t
    <2> QED
      BY <1>6, <2>1, <2>2, Zenon
  <1>17. ASSUME NEW r \in Replica, ProcessLocalTmo(r)
         PROVE  cast' = cast /\ \A q \in Replica : hs'[q].highQC = InitialQC
    <2> DEFINE view == hs[r].localTmo
               s0   == [hs[r] EXCEPT !.localTmo = NoTimeout]
               s1   == [hs[r] EXCEPT !.localTmo = NoTimeout, !.pm = AdvanceView(@, r, view)]
               tmo  == [view |-> view + 1, node |-> r, highQC |-> s1.highQC]
    <2>1. /\ view # NoTimeout /\ cast' = cast
          /\ hs' = [hs EXCEPT ![r] = ProcessRemoteTmo(s1, r, tmo)]
      BY <1>17, Zenon DEF ProcessLocalTmo
    <2>2. view \in Nat /\ hs[r] \in HotStuffState
      BY <1>1, <2>1, Zenon DEF HotStuffState
    <2>3. s1.highQC = InitialQC /\ tmo.highQC = s1.highQC
      BY <1>1, Zenon DEF HotStuffState
    <2>4. s1 = [s0 EXCEPT !.pm = AdvanceView(@, r, view)]
      BY <2>2, Zenon DEF HotStuffState
    <2>5. ReplicaOK(s0, r, proposals, cast) /\ s0.pm.curView = hs[r].pm.curView
      BY <1>1, SetLocalTmo, Zenon DEF StepOK, HotStuffState
    <2> HIDE DEF s0, s1, tmo, view
    <2>6. StepOK(s0, s1, r, proposals, cast)
      <3>1. StepOK(s0, [s0 EXCEPT !.pm = AdvanceView(@, r, view)], r, proposals, cast)
        BY <1>1, <2>2, <2>5, EnterView, Zenon
      <3> QED
        BY <2>4, <3>1, Zenon
    <2>7. s1 \in HotStuffState /\ s1.pm.curView > 2
      <3>1. /\ s1 \in HotStuffState /\ s0 \in HotStuffState
            /\ s1.pm.curView >= s0.pm.curView
        BY <2>5, <2>6, Zenon DEF StepOK, ReplicaOK, Grows
      <3>2. s1.pm.curView \in Nat /\ s0.pm.curView \in Nat
        BY <3>1, StateType, Zenon
      <3> QED
        BY <1>1, <2>5, <3>1, <3>2
    <2>8. tmo.highQC.view \in Nat /\ tmo.highQC.view <= 2
      BY <2>3 DEF InitialQC
    <2>9. ProcessRemoteTmo(s1, r, tmo).highQC = InitialQC
      BY <1>8, <2>3, <2>7, <2>8, Zenon
    <2> QED
      BY <1>6, <2>1, <2>9, Zenon
  <1>18. \/ \E r \in Replica : \/ HandleTxn(r) \/ ProcessNewView(r) \/ HandleBlock(r)
                               \/ ProcessPending(r) \/ VoteEvent(r) \/ TmoEvent(r)
                               \/ TimerFires(r) \/ ProcessLocalTmo(r)
         \/ hs' = hs /\ cast' = cast
    BY Zenon DEF Next, HandleVote, HandleTmo, vars
  <1> QED
    BY <1>1, <1>9, <1>10, <1>11, <1>12, <1>13, <1>15, <1>16, <1>17, <1>18, Zenon

=============================================================================

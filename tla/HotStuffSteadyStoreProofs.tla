--------------------- MODULE HotStuffSteadyStoreProofs ----------------------
(***************************************************************************)
(* What certificates and new blocks do to a replica of HotStuff as long as *)
(* no timer fires: the invariant of HotStuffSteadyProofs, and the lemmas   *)
(* about the handlers up to the vote.                                      *)
(***************************************************************************)
EXTENDS HotStuffProofs

-----------------------------------------------------------------------------
(* The invariant *)

\* The block of view v is at height v of one chain.
OneChain(P) ==
    \A b \in P : /\ Len(b) = ViewOf(b)
                 /\ QCOf(b).view + 1 = ViewOf(b)
                 /\ \A h \in 1..Len(b) : /\ AtHeight(b, h) \in P
                                         /\ ViewOf(AtHeight(b, h)) = h

\* The proposed blocks, one per view and made by its leader.
SteadyChain(P, C) ==
    /\ ChainOK(P, C)
    /\ OneChain(P)
    /\ \A b \in P : ViewOf(b) >= 1 /\ IsLeader(ProposerOf(b), ViewOf(b))
    /\ \A a, b \in P : ViewOf(a) = ViewOf(b) => a = b

\* The replica has stored the blocks of X of the views that it has left, and that
\* of view 1 or 2 when it is in that view, and has not pruned more than it should.
Kept(s, X) ==
    \A x \in X : \/ x \in s.bc.vertices
                 \/ ViewOf(x) < s.bc.lowestLevel
                 \/ ViewOf(x) > s.pm.curView
                 \/ ViewOf(x) = s.pm.curView /\ ViewOf(x) > 2

\* The view is that after the highest QC or that of the highest QC; the replica
\* stores blocks of the next view at most; it buffers QCs of views 1 and 2 only
\* if it makes them; it is in view 1 or 2 because it leads the view or has seen
\* its block; and its timer has not fired.
InStep(s, r, P) ==
    /\ s.highQC.view + 1 >= s.pm.curView
    /\ \A x \in s.bc.vertices : /\ ViewOf(x) <= s.pm.curView + 1
                                /\ ViewOf(x) <= 2 => ViewOf(x) <= s.pm.curView
    /\ \A q \in s.bufferedQCs : /\ q # InitialQC
                                /\ q.view <= 2 => IsLeader(r, q.view + 1)
    /\ s.pm.curView \in 1..2 => \/ IsLeader(r, s.pm.curView)
                                \/ \E x \in P : ViewOf(x) = s.pm.curView
    /\ s.pending # ZeroID => ViewOf(s.pending) <= s.pm.curView + 1
    /\ s.localTmo = NoTimeout

\* A stored block of the next view waits for its parent, and its QC is buffered.
Early(s) ==
    \A x \in s.bc.vertices : ViewOf(x) = s.pm.curView + 1
        => PrevID(x) \notin s.bc.vertices /\ QCOf(x) \in s.bufferedQCs

\* The replica has delivered the blocks of all views but the last three.
LedgerAt(s, P) ==
    /\ s.bc.lowestLevel = IF s.pm.curView >= 4 THEN s.pm.curView - 3 ELSE 0
    /\ Len(s.bc.committed) = s.bc.lowestLevel
    /\ \A i \in 1..Len(s.bc.committed) : /\ s.bc.committed[i] \in P
                                         /\ ViewOf(s.bc.committed[i]) = i

\* A replica between two handlers, and inside one (block b not yet stored).
Steady(s, r, P) == InStep(s, r, P) /\ LedgerAt(s, P) /\ Early(s) /\ Kept(s, P)
Adopting(s, r, P, b) == InStep(s, r, P) /\ LedgerAt(s, P) /\ Kept(s, P \ {b})

SteadyInv ==
    /\ OneChain(proposals)
    /\ tmoMsgs = {} /\ heldTmos = {}
    /\ \A r \in Replica : Steady(hs[r], r, proposals)

-----------------------------------------------------------------------------
(* The chain *)

\* A block's parent is the block of the view before, and view 1 has none.
LEMMA ChainAt ==
    ASSUME NEW P, NEW C, SteadyChain(P, C), NEW b \in P
    PROVE  /\ b \in Block /\ ViewOf(b) \in Nat /\ ViewOf(b) >= 1
           /\ QCOf(b).view = ViewOf(b) - 1 /\ QCOf(b).id = PrevID(b)
           /\ QCOf(b) \in QC /\ Backed(QCOf(b), P, C)
           /\ ViewOf(b) = 1 => QCOf(b) = InitialQC
           /\ ViewOf(b) >= 2 => /\ QCOf(b) # InitialQC
                                /\ PrevID(b) \in P
                                /\ ViewOf(PrevID(b)) = ViewOf(b) - 1
           /\ \A u \in 1..ViewOf(b) : AtHeight(b, u) \in P /\ ViewOf(AtHeight(b, u)) = u
  <1>1. /\ b \in Block /\ ViewOf(b) \in Nat /\ ViewOf(b) >= 1
        /\ QCOf(b) \in QC /\ QCOf(b).view \in Nat /\ QCOf(b).id = PrevID(b)
        /\ Backed(QCOf(b), P, C)
    BY BlockType, Zenon DEF SteadyChain, ChainOK, QC
  <1>2. QCOf(b).view + 1 = ViewOf(b)
    BY Zenon DEF SteadyChain, OneChain
  <1>3. QCOf(b).view = ViewOf(b) - 1
    BY <1>1, <1>2
  <1>4. QCOf(b) # InitialQC => QCOf(b).id \in P /\ QCOf(b).view = ViewOf(QCOf(b).id)
    BY <1>1, Zenon DEF Backed
  <1>5. ViewOf(b) = 1 => QCOf(b) = InitialQC
    <2>1. QCOf(b).id \in P => ViewOf(QCOf(b).id) >= 1
      BY Zenon DEF SteadyChain
    <2> QED
      BY <1>1, <1>3, <1>4, <2>1
  <1>6. ViewOf(b) >= 2 => QCOf(b) # InitialQC
    BY <1>1, <1>3 DEF InitialQC
  <1>7. \A u \in 1..ViewOf(b) : AtHeight(b, u) \in P /\ ViewOf(AtHeight(b, u)) = u
    BY Zenon DEF SteadyChain, OneChain
  <1> QED
    BY <1>1, <1>3, <1>4, <1>5, <1>6, <1>7, Zenon

\* A new block on the block of the view before.
LEMMA ProposeChain ==
    ASSUME NEW P, NEW C, ChainOK(P, C), OneChain(P), NEW b \in Block,
           Backed(QCOf(b), P, C), QCOf(b).view + 1 = ViewOf(b)
    PROVE  OneChain(P \union {b})
  <1> DEFINE Q == P \union {b}
             L == Len(b)
             p == PrevID(b)
  <1>1. /\ L \in Nat \ {0} /\ QCOf(b).id = p /\ AtHeight(b, L) = b
        /\ QCOf(b).view \in Nat /\ ViewOf(b) \in Nat
    <2>1. /\ L \in Nat \ {0} /\ QCOf(b).id = p /\ QCOf(b) \in QC /\ ViewOf(b) \in Nat
      BY BlockType, Zenon
    <2> DEFINE l == L
    <2> HIDE DEF l
    <2>2. l \in 1..l
      BY <2>1 DEF l
    <2>3. AtHeight(b, L) = b
      BY <2>2, Ancestors, Zenon DEF l
    <2> QED
      BY <2>1, <2>3, Zenon DEF QC
  <1>2. Len(p) = L - 1 /\ \A h \in 1..(L - 1) : AtHeight(p, h) = AtHeight(b, h)
    BY ParentChain, Zenon
  <1>3. L = ViewOf(b) /\ \A h \in 1..(L - 1) : AtHeight(b, h) \in P /\ ViewOf(AtHeight(b, h)) = h
    <2>1. CASE QCOf(b) = InitialQC
      <3>1. p = << >> /\ QCOf(b).view = 0
        BY <1>1, <2>1 DEF InitialQC, ZeroID
      <3>2. Len(p) = 0
        BY <3>1, Zenon
      <3> HIDE DEF L, p
      <3>3. L = 1
        BY <1>1, <1>2, <3>2
      <3>4. 1..(L - 1) = {}
        BY <3>3
      <3> QED
        BY <1>1, <3>1, <3>3, <3>4
    <2>2. CASE QCOf(b) # InitialQC
      <3>1. p \in P /\ QCOf(b).view = ViewOf(p)
        BY <1>1, <2>2, Zenon DEF Backed
      <3>2. Len(p) = ViewOf(p) /\ \A h \in 1..Len(p) : AtHeight(p, h) \in P /\ ViewOf(AtHeight(p, h)) = h
        BY <3>1, Zenon DEF OneChain
      <3> HIDE DEF L, p
      <3>3. L = ViewOf(b)
        BY <1>1, <1>2, <3>1, <3>2
      <3> QED
        BY <1>2, <3>2, <3>3, Zenon
    <2> QED
      BY <2>1, <2>2, Zenon
  <1> HIDE DEF L, p
  <1>4. \A h \in 1..L : AtHeight(b, h) \in Q /\ ViewOf(AtHeight(b, h)) = h
    <2> TAKE h \in 1..L
    <2>1. CASE h = L
      BY <1>1, <1>3, <2>1, Zenon
    <2>2. CASE h # L
      <3>1. h \in 1..(L - 1)
        BY <1>1, <2>2
      <3> QED
        BY <1>3, <3>1, Zenon
    <2> QED
      BY <2>1, <2>2, Zenon
  <1>5. \A x \in P : /\ Len(x) = ViewOf(x)
                     /\ QCOf(x).view + 1 = ViewOf(x)
                     /\ \A h \in 1..Len(x) : AtHeight(x, h) \in Q /\ ViewOf(AtHeight(x, h)) = h
    BY Zenon DEF OneChain
  <1> HIDE DEF Q
  <1>6. /\ Len(b) = ViewOf(b)
        /\ \A h \in 1..Len(b) : AtHeight(b, h) \in Q /\ ViewOf(AtHeight(b, h)) = h
    BY <1>3, <1>4, Zenon DEF L
  <1>7. \A x \in Q : x \in P \/ x = b
    BY Zenon DEF Q
  <1>8. OneChain(Q)
    BY <1>5, <1>6, <1>7, Zenon DEF OneChain
  <1> QED
    BY <1>8, Zenon DEF Q

\* Two QCs for the same block are the same.
LEMMA SameQC ==
    ASSUME NEW P, NEW C, NEW q \in QC, NEW qc \in QC, Backed(q, P, C), Backed(qc, P, C),
           q # InitialQC, qc # InitialQC, q.id = qc.id
    PROVE  q = qc
  BY DEF QC, Backed

\* In the first views the two answers of the election agree, whatever the hash.
LEMMA EarlyLeader ==
    ASSUME NEW r \in Replica, NEW view \in Nat, view <= 3
    PROVE  IsLeader(r, view) <=> FindLeaderFor(view) = r
  BY NAssumption, MasterAssumption
     DEF Replica, IsLeader, FindLeaderFor, RotationIsLeader, RotationFindLeaderFor

-----------------------------------------------------------------------------
(* Handlers that adopt no QC *)

\* Nothing that the invariant is about has changed.
Alike(s, t) ==
    /\ t.pm.curView = s.pm.curView
    /\ t.highQC.view >= s.highQC.view
    /\ t.bc.vertices = s.bc.vertices
    /\ t.bc.lowestLevel = s.bc.lowestLevel
    /\ t.bc.committed = s.bc.committed
    /\ t.bufferedQCs = s.bufferedQCs
    /\ t.pending = s.pending
    /\ t.localTmo = s.localTmo

\* Such a step keeps the invariant.
LEMMA AlikeSteady ==
    ASSUME NEW s \in HotStuffState, NEW t \in HotStuffState, Alike(s, t), NEW r, NEW P
    PROVE  /\ InStep(s, r, P) => InStep(t, r, P)
           /\ LedgerAt(s, P) => LedgerAt(t, P)
           /\ Early(s) => Early(t)
           /\ Kept(s, P) => Kept(t, P)
           /\ Steady(s, r, P) => Steady(t, r, P)
  <1>1. s.highQC.view \in Nat /\ t.highQC.view \in Nat /\ s.pm.curView \in Nat
    BY StateType, Zenon
  <1>2. s.highQC.view + 1 >= s.pm.curView => t.highQC.view + 1 >= t.pm.curView
    BY <1>1 DEF Alike
  <1>3. InStep(s, r, P) => InStep(t, r, P)
    BY <1>2, Zenon DEF Alike, InStep
  <1>4. LedgerAt(s, P) => LedgerAt(t, P)
    BY Zenon DEF Alike, LedgerAt
  <1>5. Early(s) => Early(t)
    BY Zenon DEF Alike, Early
  <1>6. Kept(s, P) => Kept(t, P)
    BY Zenon DEF Alike, Kept
  <1> QED
    BY <1>3, <1>4, <1>5, <1>6, Zenon DEF Steady

\* The handlers of which this is so.
LEMMA AlikeHandlers ==
    ASSUME NEW s \in HotStuffState
    PROVE  /\ \A qc \in QC : Alike(s, UpdateHighQC(s, qc))
           /\ \A v : Alike(s, [s EXCEPT !.bc = AddVote(@, v)])
           /\ \A b : Alike(s, BufferBlock(s, b))
           /\ \A b, nested : Alike(s, Return(s, b, nested))
  <1>1. s.highQC.view \in Nat /\ s.bc \in BlockChainState
    BY StateType, Zenon
  <1>2. \A qc \in QC : Alike(s, UpdateHighQC(s, qc))
    BY <1>1 DEF Alike, UpdateHighQC, HotStuffState, QC
  <1>3. \A v : Alike(s, [s EXCEPT !.bc = AddVote(@, v)])
    <2> TAKE v
    <2>1. /\ AddVote(s.bc, v).vertices = s.bc.vertices
          /\ AddVote(s.bc, v).lowestLevel = s.bc.lowestLevel
          /\ AddVote(s.bc, v).committed = s.bc.committed
      BY <1>1, Zenon DEF AddVote, BlockChainState
    <2> QED
      BY <1>1, <2>1 DEF Alike, HotStuffState
  <1>4. \A b : Alike(s, BufferBlock(s, b))
    BY <1>1 DEF Alike, BufferBlock, HotStuffState
  <1>5. \A b, nested : Alike(s, Return(s, b, nested))
    BY <1>1 DEF Alike, Return, UnbufferBlock, HotStuffState
  <1> QED
    BY <1>2, <1>3, <1>4, <1>5, Zenon

\* A QC that is buffered: of view 3 or later, or one that the replica has made.
LEMMA BufferQCSteady ==
    ASSUME NEW P, NEW C, NEW r, NEW s, ReplicaOK(s, r, P, C),
           NEW qc \in QC, Backed(qc, P, C), qc # InitialQC,
           qc.view <= 2 => IsLeader(r, qc.view + 1)
    PROVE  LET t == BufferQC(s, qc)
           IN  /\ InStep(s, r, P) => InStep(t, r, P)
               /\ LedgerAt(s, P) => LedgerAt(t, P)
               /\ InStep(s, r, P) /\ Early(s) => Early(t)
               /\ \A X : Kept(s, X) => Kept(t, X)
               /\ t.pm = s.pm /\ t.bc = s.bc /\ qc \in t.bufferedQCs
               /\ \A q \in s.bufferedQCs : InStep(s, r, P) => q \in t.bufferedQCs
  <1> DEFINE t == BufferQC(s, qc)
  <1>1. s \in HotStuffState /\ s.bufferedQCs \subseteq QC
    BY Zenon DEF ReplicaOK, HotStuffState
  <1>2. /\ t.pm = s.pm /\ t.bc = s.bc /\ t.highQC = s.highQC /\ t.pending = s.pending
        /\ t.localTmo = s.localTmo
        /\ t.bufferedQCs = {q \in s.bufferedQCs : q.id # qc.id} \union {qc}
    BY <1>1, Zenon DEF BufferQC, HotStuffState
  <1> HIDE DEF t
  <1>3. InStep(s, r, P) => InStep(t, r, P)
    <2> SUFFICES ASSUME InStep(s, r, P) PROVE InStep(t, r, P)
      BY Zenon
    <2>1. \A q \in t.bufferedQCs : q # InitialQC /\ (q.view <= 2 => IsLeader(r, q.view + 1))
      BY <1>2, Zenon DEF InStep
    <2> QED
      BY <1>2, <2>1, Zenon DEF InStep
  <1>4. LedgerAt(s, P) => LedgerAt(t, P)
    BY <1>2, Zenon DEF LedgerAt
  <1>5. \A q \in s.bufferedQCs : InStep(s, r, P) => q \in t.bufferedQCs
    <2> SUFFICES ASSUME NEW q \in s.bufferedQCs, InStep(s, r, P) PROVE q \in t.bufferedQCs
      BY Zenon
    <2>1. q # InitialQC /\ q \in QC /\ Backed(q, P, C)
      BY <1>1, Zenon DEF InStep, ReplicaOK
    <2>2. q.id = qc.id => q = qc
      BY <2>1, SameQC, Zenon
    <2> QED
      BY <1>2, <2>2, Zenon
  <1>6. InStep(s, r, P) /\ Early(s) => Early(t)
    BY <1>2, <1>5, Zenon DEF Early
  <1>7. \A X : Kept(s, X) => Kept(t, X)
    BY <1>2, Zenon DEF Kept
  <1> QED
    BY <1>2, <1>3, <1>4, <1>5, <1>6, <1>7, Zenon DEF t

-----------------------------------------------------------------------------
(* Adopting a QC *)

\* The store after a QC: CommitBlock is called if the commit rule allows it.
StoreAfter(s, qc) ==
    IF qc.view >= 3 /\ CommitRule(s, qc) THEN CommitBlock(s.bc, PrevID(PrevID(qc.id)))
    ELSE s.bc

\* What AdoptCertificate changes.
LEMMA AdoptFields ==
    ASSUME NEW s \in HotStuffState, NEW r, NEW qc \in QC, qc.view >= s.pm.curView
    PROVE  LET t == AdoptCertificate(UpdatePreferredView(s, qc), r, qc)
           IN  /\ t.pm.curView = qc.view + 1
               /\ t.highQC.view >= qc.view
               /\ t.bufferedQCs = s.bufferedQCs
               /\ t.bufferedBlocks = s.bufferedBlocks
               /\ t.pending = s.pending
               /\ t.localTmo = s.localTmo
               /\ t.bc = StoreAfter(s, qc)
  <1> DEFINE s1 == UpdatePreferredView(s, qc)
             s2 == [s1 EXCEPT !.pm = AdvanceView(@, r, qc.view)]
             s3 == UpdateHighQC(s2, qc)
             t  == Commit(s3, qc)
             Rest(x) == /\ x.bufferedQCs = s.bufferedQCs
                        /\ x.bufferedBlocks = s.bufferedBlocks
                        /\ x.pending = s.pending /\ x.localTmo = s.localTmo
                        /\ DOMAIN x = DOMAIN s
  <1>1. AdoptCertificate(s1, r, qc) = t
    BY Zenon DEF AdoptCertificate
  <1>2. t.pm.curView = qc.view + 1
    BY <1>1, AdoptView, Zenon
  <1>3. /\ {"pm", "bc", "highQC"} \subseteq DOMAIN s
        /\ s.highQC.view \in Nat /\ qc.view \in Nat
    BY StateType, Zenon DEF HotStuffState, QC
  <1>4. Rest(s1) /\ s1.bc = s.bc /\ s1.highQC = s.highQC
    BY Zenon DEF UpdatePreferredView, HotStuffState
  <1> HIDE DEF s1
  <1>5. Rest(s2) /\ s2.bc = s.bc /\ s2.highQC = s.highQC
    BY <1>4
  <1> HIDE DEF s2
  <1>6. Rest(s3) /\ s3.bc = s.bc /\ s3.highQC.view >= qc.view
    BY <1>3, <1>5 DEF UpdateHighQC
  <1> HIDE DEF s3
  <1>7. CommitRule(s3, qc) <=> CommitRule(s, qc)
    BY <1>6, Zenon DEF CommitRule
  <1>8. t = IF qc.view >= 3 /\ CommitRule(s, qc)
            THEN [s3 EXCEPT !.bc = CommitBlock(s.bc, PrevID(PrevID(qc.id)))] ELSE s3
    BY <1>6, <1>7, Zenon DEF Commit
  <1> HIDE DEF t
  <1>9. /\ Rest(t) /\ t.highQC = s3.highQC
        /\ t.bc = StoreAfter(s, qc)
    BY <1>3, <1>6, <1>8 DEF StoreAfter
  <1>10. t = AdoptCertificate(UpdatePreferredView(s, qc), r, qc)
    BY <1>1, Zenon DEF s1
  <1> QED
    BY <1>2, <1>6, <1>9, <1>10, Zenon

\* The commit of the block one above the pruning level delivers this block only.
LEMMA CommitOne ==
    ASSUME NEW P, NEW C, SteadyChain(P, C), NEW bc \in BlockChainState,
           NEW g \in P, g \in bc.vertices, ViewOf(g) = bc.lowestLevel + 1
    PROVE  LET c == CommitBlock(bc, g).committed
               n == Len(bc.committed)
           IN  /\ Len(c) = n + 1
               /\ \A i \in 1..n : c[i] = bc.committed[i]
               /\ c[n + 1] = g
  <1> DEFINE L == Len(g)
             H == CommitHeights(bc, g)
             d == CommittedBlocks(bc, g)
             l == bc.lowestLevel
  <1>1. /\ g \in Block /\ l \in Nat /\ L = l + 1 /\ bc.committed \in Seq(Block)
        /\ \A h \in 1..L : ViewOf(AtHeight(g, h)) = h
    BY Zenon DEF SteadyChain, ChainOK, OneChain, BlockChainState
  <1>2. AtHeight(g, L) = g
    <2>1. L \in 1..Len(g)
      <3> HIDE DEF L
      <3>1. L \in 1..L
        BY <1>1
      <3> QED
        BY <3>1, Zenon DEF L
    <2> QED
      BY <1>1, <2>1, Ancestors, Zenon
  <1>3. H = {L}
    <2> HIDE DEF L, l
    <2>1. H = {h \in 1..L : \A i \in h..L : AtHeight(g, i) \in bc.vertices
                                            /\ ViewOf(AtHeight(g, i)) > l}
      BY Zenon DEF CommitHeights, L, l
    <2>2. L \in H
      BY <1>1, <1>2, <2>1
    <2>3. ASSUME NEW h \in H PROVE h = L
      <3>1. h \in 1..L /\ h \in h..L
        BY <1>1, <2>1
      <3>2. ViewOf(AtHeight(g, h)) > l /\ ViewOf(AtHeight(g, h)) = h
        BY <1>1, <2>1, <3>1, Zenon
      <3> QED
        BY <1>1, <3>1, <3>2
    <2> QED
      BY <2>2, <2>3, Zenon
  <1>4. Cardinality(H) = 1
    BY <1>3, Zenon DEF SteadyChain, ChainOK, Counting, SmallSize
  <1>5. d = [i \in 1..1 |-> AtHeight(g, L + 1 - i)]
    BY <1>4, Zenon DEF CommittedBlocks
  <1>6. L + 1 - 1 = L
    <2> HIDE DEF L, l
    <2> QED
      BY <1>1
  <1>7. d \in Seq(Block) /\ Len(d) = 1 /\ d[1] = g
    <2> HIDE DEF L, d
    <2>1. DOMAIN d = 1..1 /\ d[1] = g /\ d = [i \in 1..1 |-> d[i]]
      BY <1>2, <1>5, <1>6
    <2>2. \A i \in 1..1 : d[i] \in Block
      BY <1>1, <2>1
    <2>3. d \in [1..1 -> Block]
      BY <2>1, <2>2, Zenon
    <2> QED
      BY <2>1, <2>3
  <1>8. CommitBlock(bc, g).committed = bc.committed \o d
    BY Zenon DEF CommitBlock
  <1> HIDE DEF d
  <1>9. ASSUME NEW c \in Seq(Block), NEW e \in Seq(Block), Len(e) = 1
        PROVE  /\ Len(c \o e) = Len(c) + 1
               /\ \A i \in 1..Len(c) : (c \o e)[i] = c[i]
               /\ (c \o e)[Len(c) + 1] = e[1]
    <2> DEFINE n == Len(c)
    <2>1. n \in Nat
      OBVIOUS
    <2>2. /\ Len(c \o e) = n + Len(e)
          /\ \A i \in 1..(n + Len(e)) : (c \o e)[i] = IF i <= n THEN c[i] ELSE e[i - n]
      OBVIOUS
    <2> HIDE DEF n
    <2>3. \A i \in 1..n : (c \o e)[i] = c[i]
      BY <1>9, <2>1, <2>2
    <2>4. n + 1 \in 1..(n + 1) /\ ~(n + 1 <= n) /\ n + 1 - n = 1
      BY <2>1
    <2>5. (c \o e)[n + 1] = e[1]
      BY <1>9, <2>1, <2>2, <2>4
    <2> QED
      BY <1>9, <2>2, <2>3, <2>5, Zenon DEF n
  <1>10. /\ Len(bc.committed \o d) = Len(bc.committed) + 1
         /\ \A i \in 1..Len(bc.committed) : (bc.committed \o d)[i] = bc.committed[i]
         /\ (bc.committed \o d)[Len(bc.committed) + 1] = d[1]
    BY <1>1, <1>7, <1>9, Zenon
  <1> QED
    BY <1>7, <1>8, <1>10, Zenon

\* A store of which all views but the last two are delivered.
StoreAt(bc, s, P, X, v) ==
    /\ bc.vertices \subseteq s.bc.vertices
    /\ bc.lowestLevel = IF v >= 3 THEN v - 2 ELSE 0
    /\ Len(bc.committed) = bc.lowestLevel
    /\ \A i \in 1..Len(bc.committed) : bc.committed[i] \in P /\ ViewOf(bc.committed[i]) = i
    /\ \A x \in X : x \in bc.vertices \/ ViewOf(x) < bc.lowestLevel \/ ViewOf(x) > v
    /\ \A x \in s.bc.vertices : x \in bc.vertices \/ ViewOf(x) < bc.lowestLevel

\* The store after the QC of the current view: that of view 3 or later commits
\* the block two views before, and no other block.
LEMMA AdoptStore ==
    ASSUME NEW P, NEW C, SteadyChain(P, C), NEW r, NEW s, ReplicaOK(s, r, P, C),
           LedgerAt(s, P), NEW X \in SUBSET P, Kept(s, X),
           NEW qc \in QC, Backed(qc, P, C), qc.view = s.pm.curView,
           CanUpdatePreferredView(s, qc), \A x \in P \ X : ViewOf(x) > qc.view
    PROVE  StoreAt(StoreAfter(s, qc), s, P, X, qc.view)
  <1> DEFINE v == qc.view
             b == qc.id
             p == PrevID(b)
             g == PrevID(p)
             bc == StoreAfter(s, qc)
  <1>1. /\ s \in HotStuffState /\ v \in Nat /\ s.pm.curView = v
        /\ s.bc \in BlockChainState /\ s.bc.lowestLevel \in Nat
        /\ \A x \in P : ViewOf(x) \in Nat
    BY StateType, ChainAt, Zenon DEF ReplicaOK, QC
  <1>2. CASE v < 3
    <2>1. bc = s.bc
      BY <1>1, <1>2 DEF StoreAfter
    <2>2. s.bc.lowestLevel = 0
      BY <1>1, <1>2 DEF LedgerAt
    <2>3. Len(bc.committed) = 0
      BY <2>1, <2>2, Zenon DEF LedgerAt
    <2>4. \A x \in X : x \in s.bc.vertices \/ ViewOf(x) < 0 \/ ViewOf(x) > v
      BY <1>1, <1>2, <2>2 DEF Kept
    <2> HIDE DEF bc, v
    <2>5. bc.lowestLevel = IF v >= 3 THEN v - 2 ELSE 0
      BY <1>1, <1>2, <2>1, <2>2
    <2>6. \A i \in 1..Len(bc.committed) : bc.committed[i] \in P /\ ViewOf(bc.committed[i]) = i
      BY <2>3
    <2>7. \A x \in X : x \in bc.vertices \/ ViewOf(x) < bc.lowestLevel \/ ViewOf(x) > v
      BY <2>1, <2>2, <2>4, Zenon
    <2>8. StoreAt(bc, s, P, X, v)
      BY <2>1, <2>2, <2>3, <2>5, <2>6, <2>7, Zenon DEF StoreAt
    <2> QED
      BY <2>8, Zenon DEF bc, v
  <1>3. CASE v >= 3
    <2>1. b \in P /\ ViewOf(b) = v /\ b \in s.bc.vertices /\ p \in s.bc.vertices
      <3>1. qc # InitialQC
        BY <1>3 DEF InitialQC
      <3>2. HasParent(s.bc, b)
        BY <1>1, <1>3 DEF CanUpdatePreferredView
      <3> QED
        BY <3>1, <3>2, Zenon DEF Backed, HasParent
    <2>2. p \in P /\ ViewOf(p) = v - 1
      BY <1>1, <1>3, <2>1, ChainAt
    <2>3. g \in P /\ ViewOf(g) = v - 2
      <3>1. ViewOf(p) >= 2
        BY <1>1, <1>3, <2>2
      <3>2. g \in P /\ ViewOf(g) = ViewOf(p) - 1
        BY <2>2, <3>1, ChainAt, Zenon
      <3> QED
        BY <1>1, <2>2, <3>2
    <2> HIDE DEF v, p, g, b
    <2>4. s.bc.lowestLevel = v - 3
      BY <1>1, <1>3 DEF LedgerAt
    <2>5. g \in X
      BY <1>1, <1>3, <2>3 DEF v
    <2>6. g \in s.bc.vertices
      BY <1>1, <1>3, <2>3, <2>4, <2>5 DEF Kept
    <2>7. CommitRule(s, qc)
      BY <1>1, <1>3, <2>1, <2>2, <2>3, <2>6 DEF CommitRule, HasParent, g, p, b, v
    <2>8. bc = CommitBlock(s.bc, g)
      BY <1>3, <2>7, Zenon DEF v, p, b, g, StoreAfter
    <2>9. /\ bc.lowestLevel = v - 2
          /\ bc.vertices = {x \in s.bc.vertices : ViewOf(x) >= v - 2}
      BY <2>3, <2>8 DEF CommitBlock
    <2>10. ViewOf(g) = s.bc.lowestLevel + 1
      BY <1>1, <2>3, <2>4
    <2> DEFINE n == Len(s.bc.committed)
    <2>11. /\ Len(bc.committed) = n + 1 /\ bc.committed[n + 1] = g
           /\ \A i \in 1..n : bc.committed[i] = s.bc.committed[i]
      BY <1>1, <2>3, <2>6, <2>8, <2>10, CommitOne
    <2>12. n = v - 3 /\ \A i \in 1..n : s.bc.committed[i] \in P /\ ViewOf(s.bc.committed[i]) = i
      BY <2>4, Zenon DEF LedgerAt
    <2> HIDE DEF n, bc
    <2>13. Len(bc.committed) = bc.lowestLevel
      BY <1>1, <2>9, <2>11, <2>12
    <2>14. ASSUME NEW i \in 1..Len(bc.committed)
           PROVE  bc.committed[i] \in P /\ ViewOf(bc.committed[i]) = i
      <3>1. i \in 1..n \/ i = n + 1
        BY <1>1, <1>3, <2>11, <2>12
      <3>2. ViewOf(g) = n + 1
        BY <1>1, <2>3, <2>12
      <3> QED
        BY <2>3, <2>11, <2>12, <3>1, <3>2, Zenon
    <2>15. ASSUME NEW x \in X
           PROVE  x \in bc.vertices \/ ViewOf(x) < bc.lowestLevel \/ ViewOf(x) > v
      <3>1. ViewOf(x) = v => x = b
        BY <2>1, Zenon DEF SteadyChain
      <3>2. x \in s.bc.vertices \/ ViewOf(x) < v - 3 \/ ViewOf(x) > v \/ ViewOf(x) = v
        BY <1>1, <2>4, Zenon DEF Kept
      <3>3. ViewOf(x) \in Nat
        BY <1>1, Zenon
      <3>4. x \in s.bc.vertices => x \in bc.vertices \/ ViewOf(x) < v - 2
        BY <1>1, <2>9, <3>3
      <3>5. ViewOf(x) < v - 3 => ViewOf(x) < v - 2
        BY <1>1, <3>3
      <3> QED
        BY <2>1, <2>9, <3>1, <3>2, <3>4, <3>5, Zenon
    <2>16. bc.vertices \subseteq s.bc.vertices
      BY <2>9, Zenon
    <2>17. bc.lowestLevel = IF v >= 3 THEN v - 2 ELSE 0
      BY <1>3, <2>9, Zenon
    <2>18. \A x \in s.bc.vertices : x \in bc.vertices \/ ViewOf(x) < bc.lowestLevel
      <3>1. \A x \in s.bc.vertices : ViewOf(x) \in Nat
        BY <1>1, Zenon DEF ReplicaOK, StoreOK
      <3> QED
        BY <1>1, <2>9, <3>1
    <2>19. StoreAt(bc, s, P, X, v)
      BY <2>13, <2>14, <2>15, <2>16, <2>17, <2>18, Zenon DEF StoreAt
    <2> QED
      BY <2>19, Zenon DEF bc, v
  <1> HIDE DEF bc
  <1> QED
    BY <1>1, <1>2, <1>3 DEF bc

\* A replica before and after it adopts the QC of view v.
Adopted(s, t, r, P, X, v) ==
    /\ InStep(t, r, P) /\ LedgerAt(t, P) /\ Early(t) /\ Kept(t, X)
    /\ t.pm.curView = v + 1
    /\ t.bufferedQCs = s.bufferedQCs /\ t.bufferedBlocks = s.bufferedBlocks
    /\ t.bc.vertices \subseteq s.bc.vertices
    /\ \A x \in s.bc.vertices : x \in t.bc.vertices \/ ViewOf(x) < t.pm.curView

\* A replica that adopts the QC of its current view.
LEMMA AdoptSteady ==
    ASSUME NEW P, NEW C, SteadyChain(P, C), NEW r, NEW s, ReplicaOK(s, r, P, C),
           InStep(s, r, P), LedgerAt(s, P), NEW X \in SUBSET P, Kept(s, X),
           NEW qc \in QC, Backed(qc, P, C), qc.view = s.pm.curView,
           CanUpdatePreferredView(s, qc), \A x \in P \ X : ViewOf(x) > qc.view,
           \A x \in X : ViewOf(x) = qc.view + 1 => ViewOf(x) > 2,
           qc.view + 1 \in 1..2 => \/ IsLeader(r, qc.view + 1)
                                   \/ \E x \in P : ViewOf(x) = qc.view + 1
    PROVE  Adopted(s, AdoptCertificate(UpdatePreferredView(s, qc), r, qc), r, P, X, qc.view)
  <1> DEFINE v == qc.view
             t == AdoptCertificate(UpdatePreferredView(s, qc), r, qc)
  <1>1. /\ s \in HotStuffState /\ v \in Nat /\ s.pm.curView = v /\ v >= s.pm.curView
        /\ \A x \in P : ViewOf(x) \in Nat
    BY StateType, ChainAt DEF ReplicaOK, QC
  <1>2. StoreOK(s.bc, P, C) /\ s.bc.vertices \subseteq P
    BY Zenon DEF ReplicaOK, StoreOK
  <1>3. /\ t.pm.curView = v + 1 /\ t.highQC.view >= v
        /\ t.bufferedQCs = s.bufferedQCs /\ t.bufferedBlocks = s.bufferedBlocks
        /\ t.pending = s.pending /\ t.localTmo = s.localTmo
        /\ t.bc = StoreAfter(s, qc)
    BY <1>1, AdoptFields
  <1>4. /\ t.bc.vertices \subseteq s.bc.vertices
        /\ t.bc.lowestLevel = IF v >= 3 THEN v - 2 ELSE 0
        /\ Len(t.bc.committed) = t.bc.lowestLevel
        /\ \A i \in 1..Len(t.bc.committed) : /\ t.bc.committed[i] \in P
                                             /\ ViewOf(t.bc.committed[i]) = i
        /\ \A x \in X : x \in t.bc.vertices \/ ViewOf(x) < t.bc.lowestLevel \/ ViewOf(x) > v
        /\ \A x \in s.bc.vertices : x \in t.bc.vertices \/ ViewOf(x) < t.bc.lowestLevel
    <2>1. StoreAt(t.bc, s, P, X, v)
      BY <1>3, AdoptStore, Zenon
    <2> HIDE DEF t, v
    <2> QED
      BY <2>1, Zenon DEF StoreAt
  <1> HIDE DEF t
  <1>5. t.highQC.view \in Nat
    <2>1. ReplicaOK(t, r, P, C)
      <3>1. ~(qc.view < s.pm.curView) /\ ChainOK(P, C)
        BY <1>1 DEF SteadyChain
      <3>2. t = ProcessCertificate(s, r, qc)
        BY <3>1, Zenon DEF t, ProcessCertificate
      <3> QED
        BY <3>1, <3>2, ProcessCertificateOK, Zenon DEF StepOK
    <2> QED
      BY <2>1, StateType, Zenon DEF ReplicaOK
  <1> HIDE DEF v
  <1>6. \A x \in t.bc.vertices : /\ ViewOf(x) <= v + 1
                                 /\ ViewOf(x) <= 2 => ViewOf(x) <= v
                                 /\ ViewOf(x) \in Nat
    BY <1>1, <1>2, <1>4, Zenon DEF InStep
  <1>7. InStep(t, r, P)
    <2>1. t.highQC.view + 1 >= t.pm.curView
      BY <1>1, <1>3, <1>5
    <2>2. \A x \in t.bc.vertices : /\ ViewOf(x) <= t.pm.curView + 1
                                   /\ ViewOf(x) <= 2 => ViewOf(x) <= t.pm.curView
      BY <1>1, <1>3, <1>6
    <2>3. t.pm.curView \in 1..2 => \/ IsLeader(r, t.pm.curView)
                                   \/ \E x \in P : ViewOf(x) = t.pm.curView
      BY <1>3, Zenon DEF v
    <2>4. t.pending # ZeroID => ViewOf(t.pending) <= t.pm.curView + 1
      <3>1. t.pending # ZeroID => t.pending \in P
        BY <1>3, Zenon DEF ReplicaOK
      <3>2. t.pending # ZeroID => ViewOf(t.pending) <= v + 1
        BY <1>1, <1>3, Zenon DEF InStep
      <3> QED
        BY <1>1, <1>3, <3>1, <3>2
    <2>5. /\ \A q \in t.bufferedQCs : q # InitialQC /\ (q.view <= 2 => IsLeader(r, q.view + 1))
          /\ t.localTmo = NoTimeout
      BY <1>3, Zenon DEF InStep
    <2> QED
      BY <2>1, <2>2, <2>3, <2>4, <2>5, Zenon DEF InStep
  <1>8. LedgerAt(t, P)
    <2>1. t.bc.lowestLevel = IF t.pm.curView >= 4 THEN t.pm.curView - 3 ELSE 0
      BY <1>1, <1>3, <1>4
    <2> QED
      BY <1>4, <2>1, Zenon DEF LedgerAt
  <1>9. Early(t)
    <2>1. \A x \in t.bc.vertices : ViewOf(x) # t.pm.curView + 1
      BY <1>1, <1>3, <1>6
    <2> QED
      BY <2>1, Zenon DEF Early
  <1>10. Kept(t, X)
    <2>1. ASSUME NEW x \in X, ViewOf(x) > v
          PROVE  ViewOf(x) > t.pm.curView \/ (ViewOf(x) = t.pm.curView /\ ViewOf(x) > 2)
      <3>1. ViewOf(x) \in Nat
        BY <1>1, Zenon
      <3>2. ViewOf(x) = v + 1 => ViewOf(x) > 2
        BY Zenon DEF v
      <3> QED
        BY <1>1, <1>3, <2>1, <3>1, <3>2
    <2> QED
      BY <1>4, <2>1, Zenon DEF Kept
  <1>11. \A x \in s.bc.vertices : x \in t.bc.vertices \/ ViewOf(x) < t.pm.curView
    <2>1. ASSUME NEW x \in s.bc.vertices, ViewOf(x) < t.bc.lowestLevel
          PROVE  ViewOf(x) < t.pm.curView
      <3>1. ViewOf(x) \in Nat
        BY <1>1, <1>2, Zenon
      <3> QED
        BY <1>1, <1>3, <1>4, <2>1, <3>1
    <2> QED
      BY <1>4, <2>1, Zenon
  <1>12. Adopted(s, t, r, P, X, v)
    BY <1>3, <1>4, <1>7, <1>8, <1>9, <1>10, <1>11, Zenon DEF Adopted
  <1> QED
    BY <1>12, Zenon DEF t, v

-----------------------------------------------------------------------------
(* The handlers of blocks *)

\* The parent of the block of the current view is stored.
LEMMA ParentStored ==
    ASSUME NEW P, NEW C, SteadyChain(P, C), NEW s \in HotStuffState, LedgerAt(s, P),
           NEW X, Kept(s, X), NEW b \in P, ViewOf(b) = s.pm.curView, ViewOf(b) >= 2,
           PrevID(b) \in X
    PROVE  PrevID(b) \in s.bc.vertices
  <1> DEFINE v == s.pm.curView
             u == ViewOf(PrevID(b))
             l == s.bc.lowestLevel
  <1>1. v \in Nat /\ u = v - 1 /\ v >= 2
    BY StateType, ChainAt, Zenon
  <1>2. l = IF v >= 4 THEN v - 3 ELSE 0
    BY Zenon DEF LedgerAt
  <1>3. PrevID(b) \in s.bc.vertices \/ u < l \/ u > v \/ u = v
    BY Zenon DEF Kept
  <1> HIDE DEF u, v, l
  <1>4. ~(u < l) /\ ~(u > v) /\ u # v
    BY <1>1, <1>2
  <1> QED
    BY <1>3, <1>4, Zenon

\* A leader has not been in the later views that it leads, so they have no block.
LEMMA NoBlockYet ==
    ASSUME NEW P, NEW C, SteadyChain(P, C), NEW r \in Replica, NEW s, ReplicaOK(s, r, P, C),
           NEW x \in P, IsLeader(r, ViewOf(x))
    PROVE  ViewOf(x) <= s.pm.curView
  <1>1. ViewOf(x) \in Nat /\ ProposerOf(x) \in Replica /\ IsLeader(ProposerOf(x), ViewOf(x))
    BY ChainAt, BlockType, Zenon DEF SteadyChain
  <1>2. ProposerOf(x) = r
    BY <1>1, UniqueLeader, Zenon
  <1> QED
    BY <1>2, Zenon DEF ReplicaOK, PacemakerOK

\* The QC of the current view, at the replica that made it.
LEMMA OwnQCSteady ==
    ASSUME NEW P, NEW C, SteadyChain(P, C), NEW r \in Replica, NEW s, ReplicaOK(s, r, P, C),
           InStep(s, r, P), LedgerAt(s, P), Kept(s, P),
           NEW qc \in QC, Backed(qc, P, C), qc # InitialQC, qc.view = s.pm.curView,
           qc.view <= 2 => IsLeader(r, qc.view + 1), CanUpdatePreferredView(s, qc)
    PROVE  Adopted(s, AdoptCertificate(UpdatePreferredView(s, qc), r, qc), r, P, P, qc.view)
  <1>1. qc.view \in Nat /\ qc.view >= 1 /\ s.pm.curView \in Nat
    BY StateType, Zenon DEF Backed, SteadyChain, QC, ReplicaOK
  <1>2. ASSUME NEW x \in P, ViewOf(x) = qc.view + 1, ~(ViewOf(x) > 2) PROVE FALSE
    <2>1. ViewOf(x) \in Nat
      BY ChainAt, Zenon
    <2>2. qc.view <= 2
      BY <1>1, <1>2, <2>1
    <2>3. IsLeader(r, ViewOf(x))
      BY <1>2, <2>2, Zenon
    <2>4. ViewOf(x) <= s.pm.curView
      BY <2>3, NoBlockYet, Zenon
    <2> QED
      BY <1>1, <1>2, <2>4
  <1>3. qc.view + 1 \in 1..2 => IsLeader(r, qc.view + 1)
    BY <1>1
  <1>4. P \in SUBSET P /\ \A x \in P \ P : ViewOf(x) > qc.view
    BY Zenon
  <1> QED
    BY <1>2, <1>3, <1>4, AdoptSteady, Zenon

\* A replica before it processes block b, which it may not have stored yet.
Before(s, r, P, b) ==
    /\ InStep(s, r, P) /\ LedgerAt(s, P) /\ Early(s) /\ Kept(s, P \ {b})
    /\ ViewOf(b) < s.pm.curView => Kept(s, P)

\* ProcessBlock up to the second reading of the current view.
LEMMA BlockQCSteady ==
    ASSUME NEW P, NEW C, SteadyChain(P, C), NEW r \in Replica, NEW s, ReplicaOK(s, r, P, C),
           NEW b \in P, Before(s, r, P, b), ViewOf(b) <= s.pm.curView + 1
    PROVE  LET t == ProcessBlockQC(s, r, b)
           IN  /\ Before(t, r, P, b)
               /\ ViewOf(b) <= t.pm.curView + 1
               /\ ViewOf(b) = t.pm.curView + 1 => /\ PrevID(b) \notin t.bc.vertices
                                                  /\ QCOf(b) \in t.bufferedQCs
                                                  /\ ViewOf(b) >= 3
               /\ t.bufferedBlocks = s.bufferedBlocks
  <1> DEFINE w  == ViewOf(b)
             v  == s.pm.curView
             qc == QCOf(b)
             s0 == UpdateHighQC(s, qc)
             t  == ProcessBlockQC(s, r, b)
  <1>1. /\ s \in HotStuffState /\ v \in Nat /\ w \in Nat /\ w >= 1 /\ w <= v + 1
        /\ qc \in QC /\ Backed(qc, P, C) /\ qc.view = w - 1 /\ qc.id = PrevID(b)
        /\ b \in Block /\ ChainOK(P, C)
    BY StateType, ChainAt, Zenon DEF ReplicaOK, SteadyChain
  <1>2. ReplicaOK(s0, r, P, C) /\ s0 \in HotStuffState /\ s0.bufferedBlocks = s.bufferedBlocks
    <2>1. ReplicaOK(s0, r, P, C)
      BY <1>1, UpdateHighQCOK, Zenon
    <2>2. s0.bufferedBlocks = s.bufferedBlocks
      BY <1>1, Zenon DEF UpdateHighQC, HotStuffState
    <2> QED
      BY <2>1, <2>2, Zenon DEF ReplicaOK
  <1>3. Alike(s, s0)
    BY <1>1, AlikeHandlers, Zenon
  <1>4. Before(s0, r, P, b) /\ s0.pm.curView = v
    <2>1. /\ InStep(s0, r, P) /\ LedgerAt(s0, P) /\ Early(s0)
          /\ \A X : Kept(s, X) => Kept(s0, X)
      BY <1>1, <1>2, <1>3, AlikeSteady, Zenon DEF Before
    <2>2. s0.pm.curView = v
      BY <1>3, Zenon DEF Alike
    <2> QED
      BY <2>1, <2>2, Zenon DEF Before
  <1>5. CASE t = s0 /\ w <= v
    <2>1. w # v + 1 /\ w <= v + 1
      BY <1>1, <1>5
    <2> QED
      BY <1>2, <1>4, <1>5, <2>1, Zenon
  <1>6. CASE ProposerOf(b) = r
    <2>1. t = s0
      BY <1>6, Zenon DEF ProcessBlockQC
    <2>2. w <= v
      BY <1>6, Zenon DEF ReplicaOK, PacemakerOK
    <2> QED
      BY <1>5, <2>1, <2>2, Zenon
  <1>7. CASE ProposerOf(b) # r /\ w <= v
    <2>1. t = s0
      BY <1>1, <1>4, <1>7 DEF ProcessBlockQC, ProcessCertificate
    <2> QED
      BY <1>5, <1>7, <2>1, Zenon
  <1>8. CASE ProposerOf(b) # r /\ w = v + 1
    <2>1. qc.view = v /\ ~(qc.view < s0.pm.curView) /\ qc.view = s0.pm.curView
      BY <1>1, <1>4, <1>8
    <2>2. t = IF ~CanUpdatePreferredView(s0, qc) THEN BufferQC(s0, qc)
              ELSE AdoptCertificate(UpdatePreferredView(s0, qc), r, qc)
      BY <1>8, <2>1, Zenon DEF ProcessBlockQC, ProcessCertificate
    <2>3. CASE ~CanUpdatePreferredView(s0, qc)
      <3>1. t = BufferQC(s0, qc) /\ v > 2 /\ ~HasParent(s0.bc, qc.id)
        BY <1>1, <2>1, <2>2, <2>3 DEF CanUpdatePreferredView
      <3>2. qc # InitialQC /\ PrevID(b) \in P /\ ViewOf(PrevID(b)) = v
        BY <1>1, <1>8, <3>1, ChainAt
      <3>3. qc.view <= 2 => IsLeader(r, qc.view + 1)
        BY <1>1, <2>1, <3>1
      <3>4. PrevID(b) \notin s0.bc.vertices
        <4>1. SUFFICES ASSUME PrevID(b) \in s0.bc.vertices PROVE FALSE
          BY Zenon
        <4>2. v >= 2 /\ v - 1 # v + 1
          BY <1>1, <3>1
        <4>3. PrevID(PrevID(b)) \in P /\ ViewOf(PrevID(PrevID(b))) = v - 1
          BY <3>2, <4>2, ChainAt
        <4>4. PrevID(PrevID(b)) \in P \ {b}
          BY <1>8, <4>2, <4>3, Zenon
        <4>5. PrevID(PrevID(b)) \in s0.bc.vertices
          BY <1>2, <1>4, <3>2, <4>2, <4>4, ParentStored, Zenon DEF Before
        <4> QED
          BY <1>1, <3>1, <4>1, <4>5, Zenon DEF HasParent
      <3>5. /\ InStep(t, r, P) /\ LedgerAt(t, P) /\ Early(t)
            /\ \A X : Kept(s0, X) => Kept(t, X)
            /\ t.pm = s0.pm /\ t.bc = s0.bc /\ qc \in t.bufferedQCs
        <4>1. qc \in QC /\ Backed(qc, P, C)
          BY <1>1, Zenon
        <4>2. InStep(s0, r, P) /\ LedgerAt(s0, P) /\ Early(s0)
          BY <1>4, Zenon DEF Before
        <4> DEFINE u == BufferQC(s0, qc)
        <4>3. /\ InStep(u, r, P) /\ LedgerAt(u, P) /\ Early(u)
              /\ \A X : Kept(s0, X) => Kept(u, X)
              /\ u.pm = s0.pm /\ u.bc = s0.bc /\ qc \in u.bufferedQCs
          <5> HIDE DEF s0, qc
          <5> QED
            BY <1>2, <3>2, <3>3, <4>1, <4>2, BufferQCSteady
        <4>4. t = u
          BY <3>1, Zenon
        <4> HIDE DEF u, t
        <4> QED
          BY <4>3, <4>4, Zenon
      <3>6. t.bufferedBlocks = s.bufferedBlocks
        BY <1>2, <3>1, Zenon DEF BufferQC, HotStuffState
      <3>7. w >= 3 /\ w <= v + 1
        BY <1>1, <1>8, <3>1
      <3> HIDE DEF t, s0
      <3>8. Before(t, r, P, b)
        BY <1>4, <3>5, Zenon DEF Before
      <3> QED
        BY <1>4, <3>4, <3>5, <3>6, <3>7, <3>8, Zenon DEF t
    <2>4. CASE CanUpdatePreferredView(s0, qc)
      <3> DEFINE X == P \ {b}
      <3>1. t = AdoptCertificate(UpdatePreferredView(s0, qc), r, qc)
        BY <2>2, <2>4, Zenon
      <3>2. X \in SUBSET P /\ (\A x \in P \ X : ViewOf(x) > qc.view)
        BY <1>1, <1>8, <2>1
      <3>3. \A x \in X : ViewOf(x) = qc.view + 1 => ViewOf(x) > 2
        BY <1>8, <2>1, Zenon DEF SteadyChain
      <3>4. qc.view + 1 \in 1..2 => \/ IsLeader(r, qc.view + 1)
                                     \/ \E x \in P : ViewOf(x) = qc.view + 1
        BY <1>8, <2>1, Zenon
      <3>5. InStep(s0, r, P) /\ LedgerAt(s0, P) /\ Kept(s0, X)
        BY <1>4, Zenon DEF Before
      <3> HIDE DEF X, t, s0
      <3>6. /\ InStep(t, r, P) /\ LedgerAt(t, P) /\ Early(t) /\ Kept(t, X)
            /\ t.pm.curView = qc.view + 1 /\ t.bufferedBlocks = s0.bufferedBlocks
        <4>1. Adopted(s0, t, r, P, X, qc.view)
          BY <1>1, <1>2, <2>1, <2>4, <3>1, <3>2, <3>3, <3>4, <3>5, AdoptSteady, Zenon
        <4> QED
          BY <4>1, Zenon DEF Adopted
      <3>7. t.pm.curView = w /\ ~(w < w) /\ w <= w + 1 /\ w # w + 1
        BY <1>1, <1>8, <2>1, <3>6
      <3>8. Before(t, r, P, b)
        BY <3>6, <3>7, Zenon DEF Before, X
      <3> QED
        BY <1>2, <3>6, <3>7, <3>8, Zenon DEF t
    <2> QED
      BY <2>3, <2>4, Zenon
  <1>9. w <= v \/ w = v + 1
    BY <1>1
  <1> QED
    BY <1>6, <1>7, <1>8, <1>9, Zenon

\* AddBlock at a replica that may store the block.
LEMMA AddBlockSteady ==
    ASSUME NEW P, NEW C, SteadyChain(P, C), NEW r \in Replica, NEW s, ReplicaOK(s, r, P, C),
           NEW b \in P, Before(s, r, P, b),
           ViewOf(b) >= s.pm.curView, ViewOf(b) <= s.pm.curView + 1,
           ViewOf(b) = s.pm.curView + 1 => ViewOf(b) >= 3
    PROVE  LET t == [s EXCEPT !.bc = AddBlock(@, b)]
           IN  /\ InStep(t, r, P) /\ LedgerAt(t, P) /\ Kept(t, P)
               /\ t.pm = s.pm /\ t.bc.vertices = s.bc.vertices \union {b}
               /\ t.bufferedQCs = s.bufferedQCs /\ t.bufferedBlocks = s.bufferedBlocks
  <1> DEFINE w == ViewOf(b)
             v == s.pm.curView
             t == [s EXCEPT !.bc = AddBlock(@, b)]
  <1>1. /\ s \in HotStuffState /\ v \in Nat /\ w \in Nat
        /\ s.bc \in BlockChainState /\ s.bc.lowestLevel \in Nat
    BY StateType, ChainAt, Zenon DEF ReplicaOK
  <1>2. ~(w < s.bc.lowestLevel)
    <2>1. s.bc.lowestLevel = IF v >= 4 THEN v - 3 ELSE 0
      BY Zenon DEF Before, LedgerAt
    <2> HIDE DEF v, w
    <2> QED
      BY <1>1, <2>1 DEF v, w
  <1>3. /\ AddBlock(s.bc, b).vertices = s.bc.vertices \union {b}
        /\ AddBlock(s.bc, b).lowestLevel = s.bc.lowestLevel
        /\ AddBlock(s.bc, b).committed = s.bc.committed
    BY <1>1, <1>2, Zenon DEF AddBlock, BlockChainState
  <1>4. /\ t.pm = s.pm /\ t.highQC = s.highQC /\ t.bufferedQCs = s.bufferedQCs
        /\ t.bufferedBlocks = s.bufferedBlocks /\ t.pending = s.pending
        /\ t.localTmo = s.localTmo
        /\ t.bc.vertices = s.bc.vertices \union {b}
        /\ t.bc.lowestLevel = s.bc.lowestLevel /\ t.bc.committed = s.bc.committed
    BY <1>1, <1>3, Zenon DEF HotStuffState
  <1> HIDE DEF t
  <1>5. InStep(t, r, P)
    <2>1. w <= 2 => w <= v
      BY <1>1
    <2>2. \A x \in t.bc.vertices : /\ ViewOf(x) <= t.pm.curView + 1
                                   /\ ViewOf(x) <= 2 => ViewOf(x) <= t.pm.curView
      BY <1>4, <2>1, Zenon DEF Before, InStep
    <2> QED
      BY <1>4, <2>2, Zenon DEF Before, InStep
  <1>6. LedgerAt(t, P)
    BY <1>4, Zenon DEF Before, LedgerAt
  <1>7. Kept(t, P)
    BY <1>4, Zenon DEF Before, Kept
  <1> QED
    BY <1>4, <1>5, <1>6, <1>7, Zenon DEF t

\* Deleting the buffered QC of a block.
LEMMA UnbufferQCSteady ==
    ASSUME NEW s \in HotStuffState, NEW b, NEW r, NEW P
    PROVE  LET t == [s EXCEPT !.bufferedQCs = {q \in @ : q.id # b}]
           IN  /\ InStep(s, r, P) => InStep(t, r, P)
               /\ LedgerAt(s, P) => LedgerAt(t, P)
               /\ Kept(s, P) => Kept(t, P)
               /\ t.pm = s.pm /\ t.bc = s.bc /\ t.bufferedBlocks = s.bufferedBlocks
               /\ t.bufferedQCs = {q \in s.bufferedQCs : q.id # b}
  <1> DEFINE t == [s EXCEPT !.bufferedQCs = {q \in @ : q.id # b}]
  <1>1. /\ t.pm = s.pm /\ t.bc = s.bc /\ t.bufferedBlocks = s.bufferedBlocks
        /\ t.bufferedQCs = {q \in s.bufferedQCs : q.id # b}
        /\ t.highQC = s.highQC /\ t.pending = s.pending /\ t.localTmo = s.localTmo
    BY Zenon DEF HotStuffState
  <1> HIDE DEF t
  <1>2. InStep(s, r, P) => InStep(t, r, P)
    BY <1>1, Zenon DEF InStep
  <1>3. LedgerAt(s, P) => LedgerAt(t, P)
    BY <1>1, Zenon DEF LedgerAt
  <1>4. Kept(s, P) => Kept(t, P)
    BY <1>1, Zenon DEF Kept
  <1> QED
    BY <1>1, <1>2, <1>3, <1>4, Zenon DEF t

\* ProcessBlock from AddBlock to the vote: the block is stored.
LEMMA StoreSteady ==
    ASSUME NEW P, NEW C, SteadyChain(P, C), NEW r \in Replica, NEW s, ReplicaOK(s, r, P, C),
           NEW b \in P, Before(s, r, P, b),
           ViewOf(b) >= s.pm.curView, ViewOf(b) <= s.pm.curView + 1,
           ViewOf(b) = s.pm.curView + 1 => /\ PrevID(b) \notin s.bc.vertices
                                           /\ QCOf(b) \in s.bufferedQCs
                                           /\ ViewOf(b) >= 3
    PROVE  LET t == StoreBlock(s, r, b)
           IN  /\ Steady(t, r, P)
               /\ ViewOf(b) <= t.pm.curView + 1
               /\ b \in t.bc.vertices
               /\ t.bufferedBlocks = s.bufferedBlocks
  <1> DEFINE w  == ViewOf(b)
             v  == s.pm.curView
             s1 == [s EXCEPT !.bc = AddBlock(@, b)]
             qc == CHOOSE q \in s1.bufferedQCs : q.id = b
             s2 == ProcessCertificate(s1, r, qc)
             t  == StoreBlock(s, r, b)
  <1>1. /\ s \in HotStuffState /\ v \in Nat /\ w \in Nat /\ w >= 1 /\ b \in Block
        /\ ChainOK(P, C) /\ QCOf(b).id = PrevID(b) /\ s.bufferedQCs \subseteq QC
        /\ s.bc.vertices \subseteq P
    BY StateType, ChainAt, Zenon DEF ReplicaOK, SteadyChain, HotStuffState, StoreOK
  <1>2. /\ InStep(s1, r, P) /\ LedgerAt(s1, P) /\ Kept(s1, P)
        /\ s1.pm = s.pm /\ s1.bc.vertices = s.bc.vertices \union {b}
        /\ s1.bufferedQCs = s.bufferedQCs /\ s1.bufferedBlocks = s.bufferedBlocks
    BY AddBlockSteady
  <1>3. ReplicaOK(s1, r, P, C) /\ s1 \in HotStuffState
    <2>1. /\ StoreOK(AddBlock(s.bc, b), P, C)
          /\ AddBlock(s.bc, b).lowestLevel = s.bc.lowestLevel
          /\ AddBlock(s.bc, b).committed = s.bc.committed
      BY <1>1, AddBlockOK DEF ReplicaOK
    <2>2. s.bc.lowestLevel \in Nat /\ s.bc.committed \in Seq(Block)
      BY <1>1, StateType, Zenon
    <2>3. /\ AddBlock(s.bc, b).lowestLevel >= s.bc.lowestLevel
          /\ Extends(AddBlock(s.bc, b).committed, s.bc.committed)
      BY <2>1, <2>2, ExtendsReflexive
    <2>4. ReplicaOK(s1, r, P, C)
      BY <2>1, <2>3, SetStore, Zenon
    <2> QED
      BY <2>4, Zenon DEF ReplicaOK
  <1>4. \A x \in s.bc.vertices : ViewOf(x) = v + 1
            => PrevID(x) \notin s.bc.vertices /\ QCOf(x) \in s.bufferedQCs
    BY Zenon DEF Before, Early
  <1>5. t = IF \E q \in s1.bufferedQCs : q.id = b
            THEN [s2 EXCEPT !.bufferedQCs = {q \in @ : q.id # b}] ELSE s1
    BY Zenon DEF StoreBlock
  <1>6. b # PrevID(b)
    BY <1>1, NotOwnParent, Zenon
  <1> HIDE DEF s1, t
  <1>7. CASE ~\E q \in s1.bufferedQCs : q.id = b
    <2>1. t = s1
      BY <1>5, <1>7, Zenon
    <2>2. ASSUME NEW x \in s1.bc.vertices, ViewOf(x) = v + 1
          PROVE  PrevID(x) \notin s1.bc.vertices /\ QCOf(x) \in s1.bufferedQCs
      <3>1. CASE x = b
        BY <1>2, <1>6, <2>2, <3>1, Zenon
      <3>2. CASE x # b
        <4>1. x \in s.bc.vertices /\ QCOf(x).id = PrevID(x)
          BY <1>1, <1>2, <2>2, <3>2, ChainAt, Zenon
        <4>2. PrevID(x) \notin s.bc.vertices /\ QCOf(x) \in s.bufferedQCs
          BY <1>4, <2>2, <4>1, Zenon
        <4> QED
          BY <1>2, <1>7, <4>1, <4>2, Zenon
      <3> QED
        BY <3>1, <3>2, Zenon
    <2>3. Early(s1)
      BY <1>2, <2>2, Zenon DEF Early
    <2> QED
      BY <1>2, <2>1, <2>3, Zenon DEF Steady, t
  <1>8. CASE \E q \in s1.bufferedQCs : q.id = b
    <2>1. qc \in s1.bufferedQCs /\ qc.id = b
      BY <1>8, Zenon
    <2> HIDE DEF qc
    <2>2. /\ qc \in QC /\ Backed(qc, P, C) /\ qc # InitialQC
          /\ qc.view <= 2 => IsLeader(r, qc.view + 1)
      BY <1>1, <1>2, <2>1, Zenon DEF InStep, ReplicaOK
    <2>3. qc.view = w
      BY <2>1, <2>2, Zenon DEF Backed
    <2>4. t = [s2 EXCEPT !.bufferedQCs = {q \in @ : q.id # b}]
      BY <1>5, <1>8, Zenon DEF qc
    <2>5. s2 \in HotStuffState
      BY <1>1, <1>3, <2>2, ProcessCertificateOK, Zenon DEF StepOK, ReplicaOK
    <2>6. CASE w = v
      <3>1. CanUpdatePreferredView(s1, qc)
        <4>1. CASE w <= 2
          BY <2>3, <4>1, Zenon DEF CanUpdatePreferredView
        <4>2. CASE w > 2
          <5>1. w >= 2
            BY <1>1, <4>2
          <5>2. PrevID(b) \in P
            BY <5>1, ChainAt, Zenon
          <5>3. PrevID(b) \in s1.bc.vertices
            BY <1>2, <1>3, <2>6, <5>1, <5>2, ParentStored, Zenon
          <5> QED
            BY <1>2, <2>1, <5>3, Zenon DEF CanUpdatePreferredView, HasParent
        <4> QED
          BY <1>1, <4>1, <4>2
      <3>2. qc.view = s1.pm.curView /\ ~(qc.view < s1.pm.curView)
        BY <1>1, <1>2, <2>3, <2>6
      <3>3. s2 = AdoptCertificate(UpdatePreferredView(s1, qc), r, qc)
        BY <3>1, <3>2, Zenon DEF ProcessCertificate
      <3> HIDE DEF s2
      <3>4. /\ InStep(s2, r, P) /\ LedgerAt(s2, P) /\ Kept(s2, P)
            /\ s2.pm.curView = w + 1 /\ s2.bufferedBlocks = s1.bufferedBlocks
            /\ s2.bc.vertices \subseteq s1.bc.vertices
        <4>1. Adopted(s1, s2, r, P, P, qc.view)
          BY <1>2, <1>3, <2>2, <3>1, <3>2, <3>3, OwnQCSteady, Zenon
        <4> QED
          BY <2>3, <4>1, Zenon DEF Adopted
      <3>5. /\ InStep(t, r, P) /\ LedgerAt(t, P) /\ Kept(t, P)
            /\ t.pm = s2.pm /\ t.bc = s2.bc /\ t.bufferedBlocks = s2.bufferedBlocks
        BY <2>4, <2>5, <3>4, UnbufferQCSteady
      <3>6. \A x \in t.bc.vertices : ViewOf(x) # t.pm.curView + 1
        <4>1. \A x \in s1.bc.vertices : ViewOf(x) <= v + 1
          BY <1>2, Zenon DEF InStep
        <4>2. \A x \in s1.bc.vertices : ViewOf(x) \in Nat
          BY <1>1, <1>2, ChainAt, Zenon
        <4>3. t.pm.curView + 1 = v + 1 + 1
          BY <2>6, <3>4, <3>5, Zenon
        <4> HIDE DEF v
        <4>4. \A x \in s1.bc.vertices : ViewOf(x) # v + 1 + 1
          BY <1>1, <4>1, <4>2
        <4> QED
          BY <3>4, <3>5, <4>3, <4>4, Zenon
      <3>7. Early(t)
        BY <3>6, Zenon DEF Early
      <3>8. b \in t.bc.vertices /\ w <= t.pm.curView + 1
        <4> DEFINE c == t.pm.curView
                   l == t.bc.lowestLevel
        <4>1. c = w + 1
          BY <3>4, <3>5, Zenon
        <4>2. l = IF c >= 4 THEN c - 3 ELSE 0
          BY <3>5, Zenon DEF LedgerAt
        <4>3. b \in t.bc.vertices \/ w < l \/ w > c \/ w = c
          BY <3>5, Zenon DEF Kept
        <4> HIDE DEF w, c, l
        <4>4. ~(w < l) /\ ~(w > c) /\ w # c /\ w <= c + 1
          BY <1>1, <4>1, <4>2
        <4> QED
          BY <4>3, <4>4, Zenon DEF c
      <3> QED
        BY <1>2, <3>4, <3>5, <3>7, <3>8, Zenon DEF Steady, t
    <2>7. CASE w = v + 1
      <3>1. PrevID(b) \notin s1.bc.vertices /\ QCOf(b) \in s1.bufferedQCs /\ w > 2
        BY <1>1, <1>2, <1>6, <2>7
      <3>2. ~CanUpdatePreferredView(s1, qc) /\ ~(qc.view < s1.pm.curView)
        BY <1>1, <1>2, <2>1, <2>3, <2>7, <3>1 DEF CanUpdatePreferredView, HasParent
      <3>3. s2 = BufferQC(s1, qc)
        BY <3>2, Zenon DEF ProcessCertificate
      <3>4. s2.bufferedBlocks = s1.bufferedBlocks
        BY <1>3, <3>3, Zenon DEF BufferQC, HotStuffState
      <3> HIDE DEF s2
      <3>5. /\ InStep(s2, r, P) /\ LedgerAt(s2, P) /\ Kept(s2, P)
            /\ s2.pm = s1.pm /\ s2.bc = s1.bc /\ QCOf(b) \in s2.bufferedQCs
        BY <1>2, <1>3, <2>2, <3>1, <3>3, BufferQCSteady
      <3>6. /\ InStep(t, r, P) /\ LedgerAt(t, P) /\ Kept(t, P)
            /\ t.pm = s2.pm /\ t.bc = s2.bc /\ t.bufferedBlocks = s2.bufferedBlocks
            /\ t.bufferedQCs = {q \in s2.bufferedQCs : q.id # b}
        BY <2>4, <2>5, <3>5, UnbufferQCSteady
      <3>7. \A x \in t.bc.vertices : ViewOf(x) = t.pm.curView + 1 => x = b
        BY <1>1, <1>2, <2>7, <3>5, <3>6, Zenon DEF SteadyChain
      <3>8. Early(t)
        BY <1>1, <1>6, <3>1, <3>5, <3>6, <3>7, Zenon DEF Early
      <3> QED
        BY <1>2, <3>4, <3>5, <3>6, <3>8, Zenon DEF Steady, t
    <2> QED
      BY <1>1, <2>6, <2>7
  <1> QED
    BY <1>7, <1>8, Zenon

=============================================================================

----------------------------- MODULE TchsProofs -----------------------------
(***************************************************************************)
(* Safety of two-chain HotStuff for every number of replicas and views:    *)
(* every QC is backed by votes, certified blocks follow each other without *)
(* gaps, all blocks that are delivered lie on a single chain, and a view   *)
(* without a certified block stops the protocol.                           *)
(*                                                                         *)
(* The first half shows what the handlers preserve: after each of them a   *)
(* replica knows proposed blocks and certified QCs only, has delivered     *)
(* nothing but blocks of two-chains, and has not gone back to an earlier   *)
(* view.                                                                   *)
(***************************************************************************)
EXTENDS Tchs, BlockChainProofs

-----------------------------------------------------------------------------
(* The forest *)

\* A container that is created is empty and belongs to no stored block.
LEMMA GetOrCreateOK ==
    ASSUME NEW f, IsForest(f), NEW id \in BlockID, NEW level \in Nat
    PROVE  LET g == GetOrCreate(f, id, level)
           IN  /\ IsForest(g)
               /\ DOMAIN g.vertices = DOMAIN f.vertices \union {id}
               /\ Vertices(g) = Vertices(f)
  <1> DEFINE g == GetOrCreate(f, id, level)
             c == [level |-> level, full |-> FALSE, children |-> {}]
             list == Append(AtLevel(f, level), id)
  <1>1. CASE id \in DOMAIN f.vertices
    BY <1>1, Zenon DEF GetOrCreate
  <1>2. CASE id \notin DOMAIN f.vertices
    <2>1. g = [f EXCEPT !.vertices = Put(f.vertices, id, c),
                        !.verticesAtLevel = Put(f.verticesAtLevel, level, list)]
      BY <1>2, Zenon DEF GetOrCreate
    <2>2. c \in Container /\ c.full = FALSE
      BY Zenon DEF Container
    <2>3. list \in Seq(BlockID)
      <3>1. AtLevel(f, level) \in Seq(BlockID)
        BY DEF AtLevel, IsForest
      <3> QED
        BY <3>1
    <2> HIDE DEF g, c, list
    <2>4. /\ DOMAIN g = {"vertices", "verticesAtLevel", "LowestLevel"}
          /\ g.vertices = Put(f.vertices, id, c)
          /\ g.verticesAtLevel = Put(f.verticesAtLevel, level, list)
          /\ g.LowestLevel = f.LowestLevel
      BY <2>1, Zenon DEF IsForest
    <2>5. /\ DOMAIN g.vertices = DOMAIN f.vertices \union {id}
          /\ \A x \in DOMAIN f.vertices : g.vertices[x] = f.vertices[x]
          /\ g.vertices[id] = c
      BY <1>2, <2>4, Zenon DEF Put
    <2>6. /\ DOMAIN g.verticesAtLevel = DOMAIN f.verticesAtLevel \union {level}
          /\ \A l \in DOMAIN g.verticesAtLevel : g.verticesAtLevel[l] \in Seq(BlockID)
      BY <2>3, <2>4, Zenon DEF Put, IsForest
    <2>7. IsForest(g)
      BY <2>2, <2>4, <2>5, <2>6, Zenon DEF IsForest
    <2>8. Vertices(g) = Vertices(f)
      BY <1>2, <2>2, <2>5, Zenon DEF Vertices
    <2> QED
      BY <2>5, <2>7, <2>8, Zenon DEF g
  <1> QED
    BY <1>1, <1>2, Zenon

\* A container may change its content or its children.
LEMMA SetContainer ==
    ASSUME NEW f, IsForest(f), NEW id \in DOMAIN f.vertices, NEW c \in Container
    PROVE  LET g == [f EXCEPT !.vertices[id] = c]
           IN  /\ IsForest(g)
               /\ Vertices(g) \subseteq Vertices(f) \union {id}
               /\ c.full = f.vertices[id].full => Vertices(g) = Vertices(f)
  <1> DEFINE g == [f EXCEPT !.vertices[id] = c]
             vs == [f.vertices EXCEPT ![id] = c]
  <1>1. /\ DOMAIN g = {"vertices", "verticesAtLevel", "LowestLevel"}
        /\ g.vertices = vs
        /\ g.verticesAtLevel = f.verticesAtLevel
        /\ g.LowestLevel = f.LowestLevel
    BY Zenon DEF IsForest
  <1>2. /\ DOMAIN vs = DOMAIN f.vertices
        /\ vs[id] = c
        /\ \A x \in DOMAIN vs : x # id => vs[x] = f.vertices[x]
    BY Zenon
  <1> HIDE DEF g, vs
  <1>3. IsForest(g)
    BY <1>1, <1>2, Zenon DEF IsForest
  <1>4. /\ Vertices(g) \subseteq Vertices(f) \union {id}
        /\ c.full = f.vertices[id].full => Vertices(g) = Vertices(f)
    BY <1>1, <1>2, Zenon DEF Vertices
  <1> QED
    BY <1>3, <1>4, Zenon DEF g

\* registerWithParent stores no block.
LEMMA RegisterOK ==
    ASSUME NEW f, IsForest(f), NEW b \in Block
    PROVE  LET g == RegisterWithParent(f, b)
           IN  IsForest(g) /\ Vertices(g) = Vertices(f)
  <1> DEFINE g == GetOrCreate(f, PrevID(b), QCOf(b).view)
             p == PrevID(b)
             c == [g.vertices[p] EXCEPT !.children = @ \union {b}]
  <1>1. p \in BlockID /\ QCOf(b).view \in Nat
    BY BlockType, Zenon DEF QC
  <1>2. /\ IsForest(g)
        /\ p \in DOMAIN g.vertices
        /\ Vertices(g) = Vertices(f)
    BY <1>1, GetOrCreateOK
  <1>3. [g EXCEPT !.vertices[p].children = @ \union {b}] = [g EXCEPT !.vertices[p] = c]
    BY Zenon
  <1>4. c \in Container /\ c.full = g.vertices[p].full
    BY <1>2, Zenon DEF IsForest, Container
  <1> HIDE DEF g, c
  <1>5. LET h == [g EXCEPT !.vertices[p] = c]
        IN  IsForest(h) /\ Vertices(h) = Vertices(g)
    BY <1>2, <1>4, SetContainer, Zenon
  <1>6. \/ RegisterWithParent(f, b) = f
        \/ RegisterWithParent(f, b) = [g EXCEPT !.vertices[p].children = @ \union {b}]
    BY Zenon DEF RegisterWithParent, g
  <1> QED
    BY <1>2, <1>3, <1>5, <1>6, Zenon

\* AddVertex stores at most the block that is added.
LEMMA AddVertexOK ==
    ASSUME NEW f, IsForest(f), NEW b \in Block
    PROVE  LET g == AddVertex(f, b)
           IN  IsForest(g) /\ Vertices(g) \subseteq Vertices(f) \union {b}
  <1> DEFINE g == GetOrCreate(f, b, ViewOf(b))
             c == [g.vertices[b] EXCEPT !.full = TRUE]
             h == [g EXCEPT !.vertices[b] = c]
  <1>1. b \in BlockID /\ ViewOf(b) \in Nat
    BY BlockType, Zenon DEF Block
  <1>2. /\ IsForest(g)
        /\ b \in DOMAIN g.vertices
        /\ Vertices(g) = Vertices(f)
    BY <1>1, GetOrCreateOK
  <1>3. [g EXCEPT !.vertices[b].full = TRUE] = h
    BY Zenon
  <1>4. c \in Container
    BY <1>2, Zenon DEF IsForest, Container
  <1>5. \/ AddVertex(f, b) = f
        \/ AddVertex(f, b) = RegisterWithParent(h, b)
    BY <1>3, Zenon DEF AddVertex
  <1> HIDE DEF g, c
  <1>6. IsForest(h) /\ Vertices(h) \subseteq Vertices(g) \union {b}
    BY <1>2, <1>4, SetContainer, Zenon
  <1> HIDE DEF h
  <1>7. /\ IsForest(RegisterWithParent(h, b))
        /\ Vertices(RegisterWithParent(h, b)) = Vertices(h)
    BY <1>6, RegisterOK, Zenon
  <1> QED
    BY <1>2, <1>5, <1>6, <1>7, Zenon

\* PruneUpToLevel stores no block, and what it reports as forked was stored.
LEMMA PruneOK ==
    ASSUME NEW f, IsForest(f), NEW level \in Nat
    PROVE  LET g == PruneUpToLevel(f, level)
           IN  /\ IsForest(g)
               /\ Vertices(g) \subseteq Vertices(f)
               /\ Forked(f, level) \subseteq Vertices(f)
  <1> DEFINE g == PruneUpToLevel(f, level)
  <1>1. /\ DOMAIN g = {"vertices", "verticesAtLevel", "LowestLevel"}
        /\ g.vertices = [id \in DOMAIN f.vertices \ Pruned(f, level) |-> f.vertices[id]]
        /\ g.verticesAtLevel = [l \in {k \in DOMAIN f.verticesAtLevel : k >= level} |->
                                    f.verticesAtLevel[l]]
        /\ g.LowestLevel = level
    BY Zenon DEF PruneUpToLevel
  <1>2. /\ DOMAIN g.vertices \subseteq DOMAIN f.vertices
        /\ \A id \in DOMAIN g.vertices : g.vertices[id] = f.vertices[id]
        /\ DOMAIN g.verticesAtLevel \subseteq DOMAIN f.verticesAtLevel
        /\ \A l \in DOMAIN g.verticesAtLevel : g.verticesAtLevel[l] = f.verticesAtLevel[l]
    BY <1>1, Zenon
  <1> HIDE DEF g
  <1>3. IsForest(g)
    BY <1>1, <1>2, Zenon DEF IsForest
  <1>4. Vertices(g) \subseteq Vertices(f)
    BY <1>2, Zenon DEF Vertices
  <1>5. Forked(f, level) \subseteq Vertices(f)
    BY Zenon DEF Forked, HasVertex, Vertices
  <1> QED
    BY <1>3, <1>4, <1>5, Zenon DEF g

-----------------------------------------------------------------------------
(* The invariant of a replica *)

\* The QC names no block, or a block of P with the votes of a super majority in
\* C and a view that is not below the view of that block.
Certifies(qc, P, C) ==
    \/ qc.id = ZeroID
    \/ /\ qc.id \in P
       /\ qc.view >= ViewOf(qc.id)
       /\ SuperMajority(Voters(C, qc.id))

\* The parent and the grandparent of b are blocks of P, and the grandparent is
\* two views below b.
Linked(b, P) ==
    /\ PrevID(b) \in P
    /\ PrevID(PrevID(b)) \in P
    /\ ViewOf(PrevID(PrevID(b))) + 2 = ViewOf(b)

\* The chain of b has a block in each view from 2 on.
Ladder(b, P) ==
    \A u \in 2..ViewOf(b) : \E a \in P : ViewOf(a) = u /\ Extends(b, a)

\* What holds of the set P of proposed blocks and the set C of votes: there is
\* one block per view, made by the leader of the view; its QC certifies its
\* parent, a block of an earlier view, and has a view not below the one before
\* the block's own; a block of view 3 or later gets a vote only if it is linked,
\* and the votes of a super majority only if its chain has no gap.
TwoChainOK(P, C) ==
    /\ Counting
    /\ P \subseteq Block
    /\ C \subseteq Vote
    /\ \A b \in P : /\ ViewOf(b) >= 1 /\ IsLeader(ProposerOf(b), ViewOf(b))
                    /\ QCOf(b).view + 1 >= ViewOf(b)
                    /\ Certifies(QCOf(b), P, C)
                    /\ PrevID(b) = ZeroID \/ ViewOf(PrevID(b)) < ViewOf(b)
                    /\ SuperMajority(Voters(C, b)) => Ladder(b, P)
    /\ \A a, b \in P : ViewOf(a) = ViewOf(b) => a = b
    /\ \A v \in C : /\ v.id \in P /\ v.view = ViewOf(v.id)
                    /\ ViewOf(v.id) >= 3 => Linked(v.id, P)

\* Block d lies below a certified block whose parent is in the view before.
OnTwoChain(d, P, C) ==
    \E b \in P : /\ Extends(PrevID(b), d)
                 /\ ViewOf(PrevID(b)) + 1 = ViewOf(b)
                 /\ SuperMajority(Voters(C, b))

\* A BlockChain holds blocks of P and votes of C, and everything that it has
\* delivered lies on a two-chain.
ForestStoreOK(bc, P, C) ==
    /\ DOMAIN bc = {"forest", "votes", "committed", "forked"}
    /\ IsForest(bc.forest) /\ Vertices(bc.forest) \subseteq P
    /\ bc.votes \subseteq BlockID \X Replica
    /\ \A p \in bc.votes : p[2] \in Voters(C, p[1])
    /\ bc.committed \in Seq(Block)
    /\ \A i \in DOMAIN bc.committed : OnTwoChain(bc.committed[i], P, C)
    /\ bc.forked \subseteq Block

\* The blocks that the other replicas have proposed.
Others(r, P) == {b \in P : ProposerOf(b) # r}

\* A replica knows proposed blocks and certified QCs only, and processes its own
\* blocks at once.
ReplicaOK(s, r, P, C) ==
    /\ DOMAIN s = {"pm", "bc", "preferredView", "highQC", "shared", "bufferedQCs",
                   "bufferedBlocks", "pending", "localTmo", "proposedNo", "panicked"}
    /\ PacemakerOK(s.pm, r, P)
    /\ ForestStoreOK(s.bc, P, C)
    /\ s.preferredView \in Nat
    /\ s.highQC \in QC /\ Certifies(s.highQC, P, C)
    /\ s.bufferedQCs \subseteq QC /\ \A qc \in s.bufferedQCs : Certifies(qc, P, C)
    /\ s.bufferedBlocks \subseteq Others(r, P)
    /\ s.pending \in Others(r, P) \union {ZeroID}
    /\ s.localTmo \in Nat \union {NoTimeout}
    /\ s.proposedNo \in Nat

\* A handler leaves a correct replica, in the same view or a later one.
StepOK(s, t, r, P, C) == ReplicaOK(t, r, P, C) /\ t.pm.curView >= s.pm.curView

\* The current view is a number.
LEMMA CurView ==
    ASSUME NEW P, NEW C, NEW r, NEW s, ReplicaOK(s, r, P, C)
    PROVE  s.pm \in PacemakerState /\ s.pm.curView \in Nat
  BY Zenon DEF ReplicaOK, PacemakerOK, PacemakerState

\* A handler may do nothing.
LEMMA StepOKReflexive ==
    ASSUME NEW P, NEW C, NEW r, NEW s, ReplicaOK(s, r, P, C)
    PROVE  StepOK(s, s, r, P, C)
  BY CurView DEF StepOK

\* Steps of a handler compose.
LEMMA StepOKTransitive ==
    ASSUME NEW P, NEW C, NEW r, NEW s, NEW t, NEW u, ReplicaOK(s, r, P, C),
           StepOK(s, t, r, P, C), StepOK(t, u, r, P, C)
    PROVE  StepOK(s, u, r, P, C)
  BY CurView DEF StepOK

\* Replacing the pacemaker by a later one.
LEMMA SetPacemaker ==
    ASSUME NEW P, NEW C, NEW r, NEW s, ReplicaOK(s, r, P, C),
           NEW pm, PacemakerOK(pm, r, P), pm.curView >= s.pm.curView
    PROVE  LET t == [s EXCEPT !.pm = pm]
           IN  StepOK(s, t, r, P, C) /\ t.bc = s.bc /\ t.pm = pm
  <1> DEFINE t == [s EXCEPT !.pm = pm]
  <1>1. /\ DOMAIN t = DOMAIN s
        /\ t.pm = pm /\ t.bc = s.bc /\ t.preferredView = s.preferredView
        /\ t.highQC = s.highQC /\ t.bufferedQCs = s.bufferedQCs
        /\ t.bufferedBlocks = s.bufferedBlocks /\ t.pending = s.pending
        /\ t.localTmo = s.localTmo /\ t.proposedNo = s.proposedNo
    BY Zenon DEF ReplicaOK
  <1> HIDE DEF t
  <1>2. ReplicaOK(t, r, P, C)
    BY <1>1, Zenon DEF ReplicaOK
  <1> QED
    BY <1>1, <1>2, Zenon DEF StepOK, t

\* Replacing the block store.
LEMMA SetStore ==
    ASSUME NEW P, NEW C, NEW r, NEW s, ReplicaOK(s, r, P, C),
           NEW bc, ForestStoreOK(bc, P, C)
    PROVE  LET t == [s EXCEPT !.bc = bc]
           IN  StepOK(s, t, r, P, C) /\ t.bc = bc /\ t.pm = s.pm
  <1> DEFINE t == [s EXCEPT !.bc = bc]
  <1>1. /\ DOMAIN t = DOMAIN s
        /\ t.pm = s.pm /\ t.bc = bc /\ t.preferredView = s.preferredView
        /\ t.highQC = s.highQC /\ t.bufferedQCs = s.bufferedQCs
        /\ t.bufferedBlocks = s.bufferedBlocks /\ t.pending = s.pending
        /\ t.localTmo = s.localTmo /\ t.proposedNo = s.proposedNo
    BY Zenon DEF ReplicaOK
  <1> HIDE DEF t
  <1>2. ReplicaOK(t, r, P, C)
    BY <1>1, Zenon DEF ReplicaOK
  <1> QED
    BY <1>1, <1>2, CurView DEF StepOK, t

-----------------------------------------------------------------------------
(* Certificates *)

\* Replacing the QCs that a replica holds.
LEMMA SetQCs ==
    ASSUME NEW P, NEW C, NEW r, NEW s, ReplicaOK(s, r, P, C), NEW t,
           DOMAIN t = DOMAIN s,
           t.pm = s.pm, t.bc = s.bc, t.preferredView = s.preferredView,
           t.bufferedBlocks = s.bufferedBlocks, t.pending = s.pending,
           t.localTmo = s.localTmo, t.proposedNo = s.proposedNo,
           t.highQC \in QC, Certifies(t.highQC, P, C),
           t.bufferedQCs \subseteq QC, \A q \in t.bufferedQCs : Certifies(q, P, C)
    PROVE  StepOK(s, t, r, P, C)
  BY CurView DEF StepOK, ReplicaOK

\* updateHighQC.
LEMMA UpdateHighQCOK ==
    ASSUME NEW P, NEW C, NEW r, NEW s, ReplicaOK(s, r, P, C),
           NEW qc \in QC, Certifies(qc, P, C)
    PROVE  LET t == UpdateHighQC(s, qc)
           IN  StepOK(s, t, r, P, C) /\ t.bc = s.bc /\ t.pm = s.pm
  <1>1. CASE qc.view > s.highQC.view
    <2> DEFINE t == [s EXCEPT !.highQC = qc, !.shared = FALSE]
    <2>1. UpdateHighQC(s, qc) = t
      BY <1>1, Zenon DEF UpdateHighQC
    <2>2. /\ DOMAIN t = DOMAIN s
          /\ t.pm = s.pm /\ t.bc = s.bc /\ t.preferredView = s.preferredView
          /\ t.bufferedBlocks = s.bufferedBlocks /\ t.pending = s.pending
          /\ t.localTmo = s.localTmo /\ t.proposedNo = s.proposedNo
          /\ t.highQC = qc /\ t.bufferedQCs = s.bufferedQCs
      BY Zenon DEF ReplicaOK
    <2>3. s.bufferedQCs \subseteq QC /\ \A q \in s.bufferedQCs : Certifies(q, P, C)
      BY Zenon DEF ReplicaOK
    <2> HIDE DEF t
    <2>4. StepOK(s, t, r, P, C)
      BY <2>2, <2>3, SetQCs, Zenon
    <2> QED
      BY <2>1, <2>2, <2>4, Zenon
  <1>2. CASE ~(qc.view > s.highQC.view)
    BY <1>2, StepOKReflexive, Zenon DEF UpdateHighQC
  <1> QED
    BY <1>1, <1>2, Zenon

\* Buffering a QC that certifies a block.
LEMMA BufferQCOK ==
    ASSUME NEW P, NEW C, NEW r, NEW s, ReplicaOK(s, r, P, C),
           NEW qc \in QC, Certifies(qc, P, C), NEW isHigh
    PROVE  LET t == BufferQC(s, qc, isHigh)
           IN  StepOK(s, t, r, P, C) /\ t.bc = s.bc /\ t.pm = s.pm
  <1> DEFINE Q == {q \in s.bufferedQCs : q.id # qc.id} \union {qc}
             x == isHigh \/ (s.shared /\ s.highQC.id # qc.id)
             t == [s EXCEPT !.bufferedQCs = Q, !.shared = x]
  <1>1. BufferQC(s, qc, isHigh) = t
    BY Zenon DEF BufferQC
  <1>2. Q \subseteq QC /\ \A q \in Q : Certifies(q, P, C)
    BY Zenon DEF ReplicaOK
  <1> HIDE DEF Q, x
  <1>3. /\ DOMAIN t = DOMAIN s
        /\ t.pm = s.pm /\ t.bc = s.bc /\ t.preferredView = s.preferredView
        /\ t.bufferedBlocks = s.bufferedBlocks /\ t.pending = s.pending
        /\ t.localTmo = s.localTmo /\ t.proposedNo = s.proposedNo
        /\ t.highQC = s.highQC /\ t.bufferedQCs = Q
    BY Zenon DEF ReplicaOK
  <1>4. s.highQC \in QC /\ Certifies(s.highQC, P, C)
    BY Zenon DEF ReplicaOK
  <1> HIDE DEF t
  <1>5. StepOK(s, t, r, P, C)
    BY <1>2, <1>3, <1>4, SetQCs, Zenon
  <1> QED
    BY <1>1, <1>3, <1>5, Zenon

\* Deleting a buffered QC.
LEMMA UnbufferQCOK ==
    ASSUME NEW P, NEW C, NEW r, NEW s, ReplicaOK(s, r, P, C), NEW id
    PROVE  LET t == UnbufferQC(s, id)
           IN  StepOK(s, t, r, P, C) /\ t.bc = s.bc /\ t.pm = s.pm
  <1> DEFINE Q == {q \in s.bufferedQCs : q.id # id}
             x == s.shared /\ s.highQC.id # id
             t == [s EXCEPT !.bufferedQCs = Q, !.shared = x]
  <1>1. UnbufferQC(s, id) = t
    BY Zenon DEF UnbufferQC
  <1>2. Q \subseteq QC /\ \A q \in Q : Certifies(q, P, C)
    BY Zenon DEF ReplicaOK
  <1> HIDE DEF Q, x
  <1>3. /\ DOMAIN t = DOMAIN s
        /\ t.pm = s.pm /\ t.bc = s.bc /\ t.preferredView = s.preferredView
        /\ t.bufferedBlocks = s.bufferedBlocks /\ t.pending = s.pending
        /\ t.localTmo = s.localTmo /\ t.proposedNo = s.proposedNo
        /\ t.highQC = s.highQC /\ t.bufferedQCs = Q
    BY Zenon DEF ReplicaOK
  <1>4. s.highQC \in QC /\ Certifies(s.highQC, P, C)
    BY Zenon DEF ReplicaOK
  <1> HIDE DEF t
  <1>5. StepOK(s, t, r, P, C)
    BY <1>2, <1>3, <1>4, SetQCs, Zenon
  <1> QED
    BY <1>1, <1>3, <1>5, Zenon

\* updatePreferredView.
LEMMA UpdatePreferredViewOK ==
    ASSUME NEW P, NEW C, NEW r, NEW s, ReplicaOK(s, r, P, C), NEW qc \in QC
    PROVE  LET t == UpdatePreferredView(s, qc)
           IN  StepOK(s, t, r, P, C) /\ t.bc = s.bc /\ t.pm = s.pm
  <1>1. CASE qc.view >= 2 /\ qc.view > s.preferredView
    <2> DEFINE t == [s EXCEPT !.preferredView = qc.view]
    <2>1. UpdatePreferredView(s, qc) = t
      BY <1>1, Zenon DEF UpdatePreferredView
    <2>2. /\ DOMAIN t = DOMAIN s
          /\ t.pm = s.pm /\ t.bc = s.bc /\ t.preferredView = qc.view
          /\ t.highQC = s.highQC /\ t.bufferedQCs = s.bufferedQCs
          /\ t.bufferedBlocks = s.bufferedBlocks /\ t.pending = s.pending
          /\ t.localTmo = s.localTmo /\ t.proposedNo = s.proposedNo
      BY Zenon DEF ReplicaOK
    <2>3. qc.view \in Nat
      BY Zenon DEF QC
    <2> HIDE DEF t
    <2>4. ReplicaOK(t, r, P, C)
      BY <2>2, <2>3, Zenon DEF ReplicaOK
    <2> QED
      BY <2>1, <2>2, <2>4, CurView DEF StepOK
  <1>2. CASE ~(qc.view >= 2 /\ qc.view > s.preferredView)
    BY <1>2, StepOKReflexive, Zenon DEF UpdatePreferredView
  <1> QED
    BY <1>1, <1>2, Zenon

\* AdvanceView enters the view after the given one, unless it is over.
LEMMA EnterView ==
    ASSUME NEW P, NEW C, TwoChainOK(P, C), NEW r, NEW s, ReplicaOK(s, r, P, C),
           NEW view \in Nat
    PROVE  LET t == [s EXCEPT !.pm = AdvanceView(@, r, view)]
           IN  /\ StepOK(s, t, r, P, C) /\ t.bc = s.bc
               /\ view >= s.pm.curView => t.pm.curView = view + 1
  <1>1. \A b \in P : ViewOf(b) \in Nat
    BY BlockType, Zenon DEF TwoChainOK
  <1>2. PacemakerOK(s.pm, r, P)
    BY Zenon DEF ReplicaOK
  <1>3. /\ PacemakerOK(AdvanceView(s.pm, r, view), r, P)
        /\ AdvanceView(s.pm, r, view).curView >= s.pm.curView
    BY <1>1, <1>2, AdvanceViewOK, Zenon
  <1>4. view >= s.pm.curView => AdvanceView(s.pm, r, view).curView = view + 1
    <2>1. s.pm \in PacemakerState /\ s.pm.curView \in Nat
      BY CurView, Zenon
    <2> QED
      BY <2>1 DEF AdvanceView, PacemakerState
  <1> HIDE DEF AdvanceView
  <1> QED
    BY <1>3, <1>4, SetPacemaker

\* processCertificate enters the view after the QC's, if the certified block is
\* known and that view is not over.
LEMMA ProcessCertificateOK ==
    ASSUME NEW P, NEW C, TwoChainOK(P, C), NEW r, NEW s, ReplicaOK(s, r, P, C),
           NEW qc \in QC, Certifies(qc, P, C), NEW isHigh
    PROVE  LET t == ProcessCertificate(s, r, qc, isHigh)
           IN  /\ StepOK(s, t, r, P, C) /\ t.bc = s.bc
               /\ qc.view >= s.pm.curView /\ CanUpdatePreferredView(s, qc)
                    => t.pm.curView = qc.view + 1
  <1>0. qc.view \in Nat /\ s.pm.curView \in Nat
    BY CurView, Zenon DEF QC
  <1>1. CASE qc.view < s.pm.curView
    BY <1>0, <1>1, StepOKReflexive DEF ProcessCertificate
  <1>2. CASE ~(qc.view < s.pm.curView) /\ ~CanUpdatePreferredView(s, qc)
    <2>1. ProcessCertificate(s, r, qc, isHigh) = BufferQC(s, qc, isHigh)
      BY <1>2, Zenon DEF ProcessCertificate
    <2> QED
      BY <1>2, <2>1, BufferQCOK
  <1>3. CASE ~(qc.view < s.pm.curView) /\ CanUpdatePreferredView(s, qc)
    <2> DEFINE s1 == UpdatePreferredView(s, qc)
               s2 == UpdateHighQC(s1, qc)
               s3 == [s2 EXCEPT !.pm = AdvanceView(@, r, qc.view)]
    <2>1. ProcessCertificate(s, r, qc, isHigh) = s3
      BY <1>3, Zenon DEF ProcessCertificate
    <2>2. StepOK(s, s1, r, P, C) /\ s1.bc = s.bc /\ s1.pm = s.pm
      BY UpdatePreferredViewOK
    <2> HIDE DEF s1
    <2>3. StepOK(s1, s2, r, P, C) /\ s2.bc = s1.bc /\ s2.pm = s1.pm
      BY <2>2, UpdateHighQCOK DEF StepOK
    <2> HIDE DEF s2
    <2>4. /\ StepOK(s2, s3, r, P, C) /\ s3.bc = s2.bc
          /\ qc.view >= s2.pm.curView => s3.pm.curView = qc.view + 1
      BY <1>0, <2>3, EnterView DEF StepOK
    <2> HIDE DEF s3
    <2>5. StepOK(s, s3, r, P, C)
      BY <2>2, <2>3, <2>4, Zenon DEF StepOK
    <2> QED
      BY <2>1, <2>2, <2>3, <2>4, <2>5, Zenon
  <1> QED
    BY <1>1, <1>2, <1>3, Zenon

-----------------------------------------------------------------------------
(* Votes *)

\* Quorum.Add: a QC that is built certifies its block.
LEMMA AddVoteForestOK ==
    ASSUME NEW P, NEW C, TwoChainOK(P, C), NEW bc, ForestStoreOK(bc, P, C),
           NEW vote \in C
    PROVE  /\ ForestStoreOK(AddVote(bc, vote), P, C)
           /\ QCFrom(vote) \in QC
           /\ IsBuilt(bc, vote) => Certifies(QCFrom(vote), P, C)
  <1> DEFINE t == AddVote(bc, vote)
  <1>1. vote \in Vote /\ vote.id \in P /\ vote.view = ViewOf(vote.id)
    BY Zenon DEF TwoChainOK
  <1>2. /\ <<vote.id, vote.voter>> \in BlockID \X Replica
        /\ vote.voter \in Voters(C, vote.id)
    BY <1>1, Zenon DEF Vote, Voters
  <1>3. /\ DOMAIN t = DOMAIN bc
        /\ t.forest = bc.forest /\ t.committed = bc.committed /\ t.forked = bc.forked
        /\ t.votes \subseteq bc.votes \union {<<vote.id, vote.voter>>}
    BY Zenon DEF AddVote, ForestStoreOK
  <1> HIDE DEF t
  <1>4. /\ t.votes \subseteq BlockID \X Replica
        /\ \A p \in t.votes : p[2] \in Voters(C, p[1])
    BY <1>2, <1>3 DEF ForestStoreOK
  <1>5. ForestStoreOK(t, P, C)
    BY <1>3, <1>4, Zenon DEF ForestStoreOK
  <1>6. QCFrom(vote) \in QC /\ QCFrom(vote).id = vote.id /\ QCFrom(vote).view = vote.view
    BY <1>1, Zenon DEF QCFrom, QC, Vote
  <1>7. ASSUME IsBuilt(bc, vote) PROVE Certifies(QCFrom(vote), P, C)
    <2>1. SuperMajority(VotersFor(t.votes, vote.id))
      BY <1>7, Zenon DEF IsBuilt, t
    <2>2. VotersFor(t.votes, vote.id) \subseteq Voters(C, vote.id)
      BY <1>4, Zenon DEF VotersFor
    <2>3. Voters(C, vote.id) \in SUBSET Replica
      BY VotersInReplica, Zenon DEF TwoChainOK
    <2>4. SuperMajority(Voters(C, vote.id))
      BY <2>1, <2>2, <2>3, SuperMajorityMonotone, Zenon DEF TwoChainOK
    <2>5. vote.view >= ViewOf(vote.id)
      BY <1>1, BlockType DEF TwoChainOK
    <2> QED
      BY <1>1, <1>6, <2>4, <2>5, Zenon DEF Certifies
  <1> QED
    BY <1>5, <1>6, <1>7, Zenon DEF t

\* ProcessVote of a vote that was cast.
LEMMA ProcessVoteOK ==
    ASSUME NEW P, NEW C, TwoChainOK(P, C), NEW r, NEW s, ReplicaOK(s, r, P, C),
           NEW vote \in C
    PROVE  StepOK(s, ProcessVote(s, r, vote), r, P, C)
  <1> DEFINE s1 == [s EXCEPT !.bc = AddVote(@, vote)]
             qc == QCFrom(vote)
  <1>1. ForestStoreOK(s.bc, P, C)
    BY Zenon DEF ReplicaOK
  <1>2. /\ ForestStoreOK(AddVote(s.bc, vote), P, C)
        /\ qc \in QC
        /\ IsBuilt(s.bc, vote) => Certifies(qc, P, C)
    BY <1>1, AddVoteForestOK, Zenon
  <1>3. StepOK(s, s1, r, P, C)
    BY <1>2, SetStore, Zenon
  <1>4. ReplicaOK(s1, r, P, C)
    BY <1>3, Zenon DEF StepOK
  <1>5. \/ ProcessVote(s, r, vote) = s1
        \/ /\ IsBuilt(s.bc, vote)
           /\ \/ ProcessVote(s, r, vote) = BufferQC(s1, qc, FALSE)
              \/ ProcessVote(s, r, vote) = ProcessCertificate(s1, r, qc, FALSE)
    BY Zenon DEF ProcessVote
  <1> HIDE DEF s1, qc
  <1>6. IsBuilt(s.bc, vote) => /\ StepOK(s1, BufferQC(s1, qc, FALSE), r, P, C)
                               /\ StepOK(s1, ProcessCertificate(s1, r, qc, FALSE), r, P, C)
    BY <1>2, <1>4, BufferQCOK, ProcessCertificateOK, Zenon
  <1> QED
    BY <1>3, <1>5, <1>6, StepOKTransitive, Zenon

-----------------------------------------------------------------------------
(* Blocks *)

\* A block extends its ancestors, and its parent.
LEMMA ExtendsAncestors ==
    ASSUME NEW b \in Block
    PROVE  /\ \A h \in 1..Len(b) : AtHeight(b, h) \in Block /\ Extends(b, AtHeight(b, h))
           /\ Extends(b, PrevID(b))
  <1>1. b \in Seq(Header) /\ Len(b) \in Nat \ {0}
    BY BlockType, Zenon DEF Block, BlockID
  <1>2. \A h \in 0..Len(b) : Len(SubSeq(b, 1, h)) = h
    <2> TAKE h \in 0..Len(b)
    <2>1. \A i \in 1..h : b[i] \in Header
      BY <1>1
    <2> QED
      BY <1>1, <2>1
  <1>3. \A h \in 0..Len(b) : Extends(b, SubSeq(b, 1, h))
    BY <1>1, <1>2 DEF Extends
  <1>4. \A h \in 1..Len(b) : AtHeight(b, h) \in Block
    BY Ancestors, Zenon
  <1>5. Len(b) - 1 \in 0..Len(b)
    BY <1>1
  <1> QED
    BY <1>1, <1>3, <1>4, <1>5 DEF AtHeight, PrevID

\* CommitBlock delivers the block and ancestors of it.
LEMMA DeliveredBelow ==
    ASSUME Counting, NEW bc, NEW b \in Block
    PROVE  LET delivered == CommittedBlocks(bc, b)
           IN  /\ delivered \in Seq(Block)
               /\ \A i \in DOMAIN delivered : Extends(b, delivered[i])
  <1> DEFINE H == CommitHeights(bc, b)
             delivered == CommittedBlocks(bc, b)
  <1>1. /\ Cardinality(H) \in Nat
        /\ \A i \in 1..Cardinality(H) : Len(b) + 1 - i \in H
    BY DeliveredHeights, Zenon
  <1>2. H \subseteq 1..Len(b)
    BY Zenon DEF CommitHeights
  <1>3. delivered = [i \in 1..Cardinality(H) |-> AtHeight(b, Len(b) + 1 - i)]
    BY Zenon DEF CommittedBlocks
  <1> HIDE DEF H, delivered
  <1>4. \A i \in 1..Cardinality(H) : /\ AtHeight(b, Len(b) + 1 - i) \in Block
                                     /\ Extends(b, AtHeight(b, Len(b) + 1 - i))
    BY <1>1, <1>2, ExtendsAncestors, Zenon
  <1>5. delivered \in [1..Cardinality(H) -> Block]
    BY <1>3, <1>4, Zenon
  <1>6. delivered \in Seq(Block)
    BY <1>1, <1>5
  <1> QED
    BY <1>3, <1>4, <1>6, Zenon DEF delivered

\* The views of a linked block, its parent and its grandparent follow each other,
\* and the parent is certified.
LEMMA LinkedParent ==
    ASSUME NEW P, NEW C, TwoChainOK(P, C), NEW b \in P, Linked(b, P)
    PROVE  LET p == PrevID(b)
           IN  /\ ViewOf(p) + 1 = ViewOf(b)
               /\ ViewOf(PrevID(p)) + 1 = ViewOf(p)
               /\ SuperMajority(Voters(C, p))
  <1> DEFINE p == PrevID(b)
             g == PrevID(p)
  <1>1. /\ b \in Block /\ p \in Block /\ g \in Block /\ p \in P
        /\ ViewOf(b) \in Nat /\ ViewOf(p) \in Nat /\ ViewOf(g) \in Nat
    BY BlockType, Zenon DEF TwoChainOK, Linked
  <1>2. p # ZeroID /\ g # ZeroID
    BY <1>1, Zenon DEF Block
  <1>3. ViewOf(p) < ViewOf(b) /\ ViewOf(g) < ViewOf(p) /\ ViewOf(g) + 2 = ViewOf(b)
    BY <1>1, <1>2, Zenon DEF TwoChainOK, Linked
  <1>4. Certifies(QCOf(b), P, C) /\ QCOf(b).id = p
    BY <1>1, BlockType, Zenon DEF TwoChainOK
  <1>5. SuperMajority(Voters(C, p))
    BY <1>2, <1>4, Zenon DEF Certifies
  <1> QED
    BY <1>1, <1>3, <1>5

\* commitRule holds for linked blocks only.
LEMMA CommitRuleLinks ==
    ASSUME NEW P, NEW C, TwoChainOK(P, C), NEW r, NEW s, ReplicaOK(s, r, P, C),
           NEW b \in P, DirectChild(b), CommitRule(s, b)
    PROVE  Linked(b, P)
  <1>1. /\ PrevID(b) \in Vertices(s.bc.forest)
        /\ PrevID(PrevID(b)) \in Vertices(s.bc.forest)
        /\ ViewOf(PrevID(PrevID(b))) + 1 = QCOf(b).view
    BY Zenon DEF CommitRule, HasParent, Store
  <1>2. PrevID(b) \in P /\ PrevID(PrevID(b)) \in P
    BY <1>1, Zenon DEF ReplicaOK, ForestStoreOK
  <1>3. ViewOf(PrevID(PrevID(b))) \in Nat
    BY <1>2, BlockType, Zenon DEF TwoChainOK
  <1> QED
    BY <1>1, <1>2, <1>3 DEF DirectChild, Linked

\* AddBlock.
LEMMA StoreBlockOK ==
    ASSUME NEW P, NEW C, TwoChainOK(P, C), NEW r, NEW s, ReplicaOK(s, r, P, C), NEW b \in P
    PROVE  LET t == StoreBlock(s, b)
           IN  /\ StepOK(s, t, r, P, C) /\ t.pm = s.pm
               /\ Vertices(t.bc.forest) \subseteq Vertices(s.bc.forest) \union {b}
  <1> DEFINE f == AddVertex(s.bc.forest, b)
             bc == [s.bc EXCEPT !.forest = f]
  <1>1. ForestStoreOK(s.bc, P, C) /\ b \in Block
    BY Zenon DEF ReplicaOK, TwoChainOK
  <1>2. IsForest(f) /\ Vertices(f) \subseteq Vertices(s.bc.forest) \union {b}
    BY <1>1, AddVertexOK, Zenon DEF ForestStoreOK
  <1>3. StoreBlock(s, b) = [s EXCEPT !.bc = bc]
    BY Zenon DEF StoreBlock
  <1> HIDE DEF f
  <1>4. /\ DOMAIN bc = DOMAIN s.bc
        /\ bc.forest = f /\ bc.votes = s.bc.votes
        /\ bc.committed = s.bc.committed /\ bc.forked = s.bc.forked
    BY <1>1, Zenon DEF ForestStoreOK
  <1> HIDE DEF bc
  <1>5. ForestStoreOK(bc, P, C)
    BY <1>1, <1>2, <1>4, Zenon DEF ForestStoreOK
  <1> QED
    BY <1>2, <1>3, <1>4, <1>5, SetStore

\* CommitBlock of the grandparent of a linked block delivers blocks that lie on
\* the two-chain of its parent.
LEMMA CommitInForestOK ==
    ASSUME NEW P, NEW C, TwoChainOK(P, C), NEW r, NEW s, ReplicaOK(s, r, P, C),
           NEW b \in P, Linked(b, P)
    PROVE  LET t == CommitInForest(s, PrevID(PrevID(b)))
           IN  /\ StepOK(s, t, r, P, C) /\ t.pm = s.pm
               /\ Vertices(t.bc.forest) \subseteq Vertices(s.bc.forest)
  <1> DEFINE g == PrevID(PrevID(b))
             level == ViewOf(g)
             delivered == CommittedBlocks(Store(s.bc), g)
             f == PruneUpToLevel(s.bc.forest, level)
             V == {p \in s.bc.votes : \A i \in DOMAIN delivered : p[1] # delivered[i]}
             F == s.bc.forked \union Forked(s.bc.forest, level)
             D == s.bc.committed \o delivered
             bc == [s.bc EXCEPT !.forest = f, !.votes = V, !.committed = D, !.forked = F]
  <1>1. ForestStoreOK(s.bc, P, C) /\ g \in Block /\ level \in Nat
    BY BlockType, Zenon DEF ReplicaOK, Linked, TwoChainOK
  <1>2. CASE PrunePanics(s.bc.forest, level)
    <2> DEFINE t == [s EXCEPT !.panicked = TRUE]
    <2>1. CommitInForest(s, g) = t
      BY <1>2, Zenon DEF CommitInForest
    <2>2. /\ DOMAIN t = DOMAIN s
          /\ t.pm = s.pm /\ t.bc = s.bc /\ t.preferredView = s.preferredView
          /\ t.highQC = s.highQC /\ t.bufferedQCs = s.bufferedQCs
          /\ t.bufferedBlocks = s.bufferedBlocks /\ t.pending = s.pending
          /\ t.localTmo = s.localTmo /\ t.proposedNo = s.proposedNo
      BY Zenon DEF ReplicaOK
    <2> HIDE DEF t
    <2>3. StepOK(s, t, r, P, C)
      BY <2>2, SetQCs, Zenon DEF ReplicaOK
    <2> QED
      BY <2>1, <2>2, <2>3, Zenon
  <1>3. CASE ~PrunePanics(s.bc.forest, level)
    <2>1. /\ IsForest(f) /\ Vertices(f) \subseteq Vertices(s.bc.forest)
          /\ Forked(s.bc.forest, level) \subseteq Vertices(s.bc.forest)
      BY <1>1, PruneOK, Zenon DEF ForestStoreOK
    <2>2. F \subseteq Block /\ Vertices(f) \subseteq P
      BY <1>1, <2>1, Zenon DEF ForestStoreOK, TwoChainOK
    <2>3. delivered \in Seq(Block) /\ \A i \in DOMAIN delivered : Extends(g, delivered[i])
      BY <1>1, DeliveredBelow, Zenon DEF TwoChainOK
    <2>4. \A i \in DOMAIN delivered : OnTwoChain(delivered[i], P, C)
      <3>1. /\ PrevID(b) \in P
            /\ ViewOf(g) + 1 = ViewOf(PrevID(b))
            /\ SuperMajority(Voters(C, PrevID(b)))
        BY LinkedParent, Zenon DEF Linked
      <3> QED
        BY <2>3, <3>1, Zenon DEF OnTwoChain
    <2>5. CommitInForest(s, g) = [s EXCEPT !.bc = bc]
      BY <1>3, Zenon DEF CommitInForest
    <2> HIDE DEF f, F, delivered
    <2>6. D \in Seq(Block) /\ \A i \in DOMAIN D : OnTwoChain(D[i], P, C)
      <3>1. /\ s.bc.committed \in Seq(Block)
            /\ \A i \in DOMAIN s.bc.committed : OnTwoChain(s.bc.committed[i], P, C)
        BY <1>1, Zenon DEF ForestStoreOK
      <3>2. /\ D \in Seq(Block)
            /\ Len(D) = Len(s.bc.committed) + Len(delivered)
            /\ \A i \in 1..Len(D) : D[i] = IF i <= Len(s.bc.committed)
                                          THEN s.bc.committed[i]
                                          ELSE delivered[i - Len(s.bc.committed)]
        <4> DEFINE c == s.bc.committed
        <4>1. c \in Seq(Block) /\ delivered \in Seq(Block) /\ D = c \o delivered
          BY <2>3, <3>1, Zenon
        <4> HIDE DEF c, D
        <4>2. /\ c \o delivered \in Seq(Block)
              /\ Len(c \o delivered) = Len(c) + Len(delivered)
              /\ \A i \in 1..(Len(c) + Len(delivered)) :
                    (c \o delivered)[i] = IF i <= Len(c) THEN c[i] ELSE delivered[i - Len(c)]
          BY <4>1
        <4> QED
          BY <4>1, <4>2, Zenon DEF c
      <3>3. /\ Len(s.bc.committed) \in Nat /\ DOMAIN s.bc.committed = 1..Len(s.bc.committed)
            /\ Len(delivered) \in Nat /\ DOMAIN delivered = 1..Len(delivered)
            /\ DOMAIN D = 1..Len(D)
        BY <2>3, <3>1, <3>2
      <3> HIDE DEF D
      <3>4. \A i \in 1..Len(D) : \/ i \in DOMAIN s.bc.committed /\ D[i] = s.bc.committed[i]
                                 \/ \E j \in DOMAIN delivered : D[i] = delivered[j]
        <4> TAKE i \in 1..Len(D)
        <4>1. CASE i <= Len(s.bc.committed)
          BY <3>2, <3>3, <4>1
        <4>2. CASE ~(i <= Len(s.bc.committed))
          <5>1. i - Len(s.bc.committed) \in DOMAIN delivered
            BY <3>2, <3>3, <4>2
          <5> QED
            BY <3>2, <4>2, <5>1, Zenon
        <4> QED
          BY <4>1, <4>2, Zenon
      <3> QED
        BY <2>4, <3>1, <3>2, <3>3, <3>4, Zenon
    <2>7. V \subseteq s.bc.votes
      BY Zenon
    <2> HIDE DEF V, D
    <2>8. /\ DOMAIN bc = DOMAIN s.bc
          /\ bc.forest = f /\ bc.votes = V /\ bc.committed = D /\ bc.forked = F
      BY <1>1, Zenon DEF ForestStoreOK
    <2> HIDE DEF bc
    <2>9. ForestStoreOK(bc, P, C)
      BY <1>1, <2>1, <2>2, <2>6, <2>7, <2>8, Zenon DEF ForestStoreOK
    <2> QED
      BY <2>1, <2>5, <2>8, <2>9, SetStore
  <1> QED
    BY <1>2, <1>3, Zenon

\* Processing the QC that was buffered for a block.
LEMMA ProcessBufferedQCOK ==
    ASSUME NEW P, NEW C, TwoChainOK(P, C), NEW r, NEW s, ReplicaOK(s, r, P, C), NEW b
    PROVE  LET t == ProcessBufferedQC(s, r, b)
           IN  StepOK(s, t, r, P, C) /\ t.bc = s.bc
  <1>1. CASE \E q \in s.bufferedQCs : q.id = b
    <2> DEFINE q == CHOOSE x \in s.bufferedQCs : x.id = b
               isHigh == s.shared /\ s.highQC.id = b
               t == ProcessCertificate(s, r, q, isHigh)
    <2>1. q \in s.bufferedQCs
      BY <1>1, Zenon
    <2>2. ProcessBufferedQC(s, r, b) = UnbufferQC(t, b)
      BY <1>1, Zenon DEF ProcessBufferedQC
    <2> HIDE DEF q, isHigh
    <2>3. q \in QC /\ Certifies(q, P, C)
      BY <2>1, Zenon DEF ReplicaOK
    <2>4. StepOK(s, t, r, P, C) /\ t.bc = s.bc
      BY <2>3, ProcessCertificateOK
    <2> HIDE DEF t
    <2>5. StepOK(t, UnbufferQC(t, b), r, P, C) /\ UnbufferQC(t, b).bc = t.bc
      BY <2>4, UnbufferQCOK DEF StepOK
    <2> QED
      BY <2>2, <2>4, <2>5, StepOKTransitive, Zenon
  <1>2. CASE ~(\E q \in s.bufferedQCs : q.id = b)
    BY <1>2, StepOKReflexive, Zenon DEF ProcessBufferedQC
  <1> QED
    BY <1>1, <1>2, Zenon

\* Replacing the blocks that a replica keeps for later.
LEMMA SetBlocks ==
    ASSUME NEW P, NEW C, NEW r, NEW s, ReplicaOK(s, r, P, C),
           NEW B \in SUBSET Others(r, P), NEW p \in Others(r, P) \union {ZeroID}
    PROVE  LET t == [s EXCEPT !.bufferedBlocks = B, !.pending = p]
           IN  StepOK(s, t, r, P, C) /\ t.pm = s.pm
  <1> DEFINE t == [s EXCEPT !.bufferedBlocks = B, !.pending = p]
  <1>1. /\ DOMAIN t = DOMAIN s
        /\ t.pm = s.pm /\ t.bc = s.bc /\ t.preferredView = s.preferredView
        /\ t.highQC = s.highQC /\ t.bufferedQCs = s.bufferedQCs
        /\ t.bufferedBlocks = B /\ t.pending = p
        /\ t.localTmo = s.localTmo /\ t.proposedNo = s.proposedNo
    BY Zenon DEF ReplicaOK
  <1> HIDE DEF t
  <1>2. ReplicaOK(t, r, P, C)
    BY <1>1, Zenon DEF ReplicaOK
  <1> QED
    BY <1>1, <1>2, CurView DEF StepOK, t

\* Buffering a block of another replica.
LEMMA BufferBlockOK ==
    ASSUME NEW P, NEW C, NEW r, NEW s, ReplicaOK(s, r, P, C), NEW b \in Others(r, P)
    PROVE  StepOK(s, BufferBlock(s, b), r, P, C)
  <1> DEFINE B == {x \in s.bufferedBlocks : ViewOf(x) # ViewOf(b)} \union {b}
             t == [s EXCEPT !.bufferedBlocks = B, !.pending = s.pending]
  <1>1. B \in SUBSET Others(r, P) /\ s.pending \in Others(r, P) \union {ZeroID}
    BY Zenon DEF ReplicaOK
  <1>2. BufferBlock(s, b) = [s EXCEPT !.bufferedBlocks = B]
    BY Zenon DEF BufferBlock
  <1> HIDE DEF B
  <1>3. BufferBlock(s, b) = t
    BY <1>2, Zenon DEF ReplicaOK
  <1>4. StepOK(s, t, r, P, C)
    BY <1>1, SetBlocks, Zenon
  <1> QED
    BY <1>3, <1>4, Zenon

\* The block that was buffered for the next view comes next.
LEMMA NextBufferedOK ==
    ASSUME NEW P, NEW C, NEW r, NEW s, ReplicaOK(s, r, P, C), NEW b
    PROVE  StepOK(s, NextBuffered(s, b), r, P, C)
  <1>1. CASE \E x \in s.bufferedBlocks : ViewOf(x) = ViewOf(b) + 1
    <2> DEFINE p == CHOOSE x \in s.bufferedBlocks : ViewOf(x) = ViewOf(b) + 1
               t == [s EXCEPT !.bufferedBlocks = s.bufferedBlocks, !.pending = p]
    <2>1. p \in s.bufferedBlocks
      BY <1>1, Zenon
    <2>2. NextBuffered(s, b) = [s EXCEPT !.pending = p]
      BY <1>1, Zenon DEF NextBuffered
    <2> HIDE DEF p
    <2>3. NextBuffered(s, b) = t
      BY <2>2, Zenon DEF ReplicaOK
    <2>4. s.bufferedBlocks \in SUBSET Others(r, P) /\ p \in Others(r, P) \union {ZeroID}
      BY <2>1, Zenon DEF ReplicaOK
    <2>5. StepOK(s, t, r, P, C)
      BY <2>4, SetBlocks, Zenon
    <2> QED
      BY <2>3, <2>5, Zenon
  <1>2. CASE ~(\E x \in s.bufferedBlocks : ViewOf(x) = ViewOf(b) + 1)
    BY <1>2, StepOKReflexive, Zenon DEF NextBuffered
  <1> QED
    BY <1>1, <1>2, Zenon

-----------------------------------------------------------------------------
(* Timeouts *)

\* ProcessRemoteTmo with processTC.
LEMMA ProcessRemoteTmoOK ==
    ASSUME NEW P, NEW C, TwoChainOK(P, C), NEW r, NEW s, ReplicaOK(s, r, P, C),
           NEW tmo \in TMO
    PROVE  StepOK(s, ProcessRemoteTmo(s, r, tmo), r, P, C)
  <1> DEFINE s1 == [s EXCEPT !.pm = AddTmo(@, tmo.view, tmo.node)]
             s2 == [s1 EXCEPT !.pm = AdvanceView(@, r, tmo.view)]
  <1>1. tmo.view \in Nat /\ tmo.node \in Replica
    BY Zenon DEF TMO
  <1>2. PacemakerOK(s.pm, r, P)
    BY Zenon DEF ReplicaOK
  <1>3. /\ PacemakerOK(AddTmo(s.pm, tmo.view, tmo.node), r, P)
        /\ AddTmo(s.pm, tmo.view, tmo.node).curView >= s.pm.curView
    BY <1>1, <1>2, AddTmoOK, Zenon
  <1>4. StepOK(s, s1, r, P, C)
    BY <1>3, SetPacemaker, Zenon
  <1>5. ProcessRemoteTmo(s, r, tmo) = s1 \/ ProcessRemoteTmo(s, r, tmo) = s2
    BY Zenon DEF ProcessRemoteTmo
  <1> HIDE DEF s1
  <1>6. StepOK(s1, s2, r, P, C)
    BY <1>1, <1>4, EnterView, Zenon DEF StepOK
  <1> QED
    BY <1>4, <1>5, <1>6, StepOKTransitive, Zenon

-----------------------------------------------------------------------------
(* More blocks and votes *)

\* More votes and blocks keep a QC certified and a block on its two-chain.
LEMMA CertifiesMonotone ==
    ASSUME Counting,
           NEW P, NEW Q, P \subseteq Q, NEW C, NEW D \in SUBSET Vote, C \subseteq D
    PROVE  /\ \A qc : Certifies(qc, P, C) => Certifies(qc, Q, D)
           /\ \A d : OnTwoChain(d, P, C) => OnTwoChain(d, Q, D)
  <1>1. \A id : SuperMajority(Voters(C, id)) => SuperMajority(Voters(D, id))
    BY VotersMonotone, Zenon
  <1> QED
    BY <1>1, Zenon DEF Certifies, OnTwoChain

\* Blocks of other proposers and more votes do not disturb a replica.
LEMMA ReplicaMonotone ==
    ASSUME Counting,
           NEW P, NEW Q, P \subseteq Q, NEW C, NEW D \in SUBSET Vote, C \subseteq D,
           NEW r, NEW s, ReplicaOK(s, r, P, C), \A b \in Q \ P : ProposerOf(b) # r
    PROVE  ReplicaOK(s, r, Q, D)
  <1>1. PacemakerOK(s.pm, r, Q)
    BY Zenon DEF ReplicaOK, PacemakerOK
  <1>2. \A id : Voters(C, id) \subseteq Voters(D, id)
    BY Zenon DEF Voters
  <1>3. ForestStoreOK(s.bc, Q, D)
    <2>1. ForestStoreOK(s.bc, P, C)
      BY Zenon DEF ReplicaOK
    <2>2. \A d : OnTwoChain(d, P, C) => OnTwoChain(d, Q, D)
      BY CertifiesMonotone, Zenon
    <2>3. \A p \in s.bc.votes : p[2] \in Voters(D, p[1])
      BY <1>2, <2>1, Zenon DEF ForestStoreOK
    <2> QED
      BY <2>1, <2>2, <2>3, Zenon DEF ForestStoreOK
  <1>4. Certifies(s.highQC, Q, D) /\ \A qc \in s.bufferedQCs : Certifies(qc, Q, D)
    BY CertifiesMonotone, Zenon DEF ReplicaOK
  <1>5. Others(r, P) \subseteq Others(r, Q)
    BY Zenon DEF Others
  <1> QED
    BY <1>1, <1>3, <1>4, <1>5, Zenon DEF ReplicaOK

\* Only blocks that somebody has voted for have a super majority.
LEMMA CertifiedHasVote ==
    ASSUME Counting, NEW C, NEW id, SuperMajority(Voters(C, id))
    PROVE  \E v \in C : v.id = id
  <1> SUFFICES ASSUME ~(\E v \in C : v.id = id) PROVE FALSE
    BY Zenon
  <1>1. Voters(C, id) = {}
    BY Zenon DEF Voters
  <1>2. Cardinality({}) = 0 /\ (N * 2) \div 3 \in Nat
    BY NAssumption DEF Counting, SmallSize
  <1> QED
    BY <1>1, <1>2 DEF SuperMajority

\* A vote for a block that is linked, or of one of the first two views.
LEMMA CastOK ==
    ASSUME NEW P, NEW C, TwoChainOK(P, C), NEW r \in Replica, NEW b \in P,
           ViewOf(b) >= 3 => Linked(b, P)
    PROVE  TwoChainOK(P, C \union {MakeVote(ViewOf(b), r, b)})
  <1> DEFINE vote == MakeVote(ViewOf(b), r, b)
             D == C \union {vote}
  <1>1. b \in Block /\ b \in BlockID /\ ViewOf(b) \in Nat /\ P \subseteq Block
    BY BlockType, Zenon DEF TwoChainOK, Block
  <1>2. vote \in Vote /\ vote.id = b /\ vote.view = ViewOf(b)
    BY <1>1, Zenon DEF MakeVote, Vote
  <1> HIDE DEF vote
  <1>3. D \in SUBSET Vote /\ C \subseteq D
    BY <1>2, Zenon DEF TwoChainOK
  <1>4. \A v \in D : /\ v.id \in P /\ v.view = ViewOf(v.id)
                     /\ ViewOf(v.id) >= 3 => Linked(v.id, P)
    BY <1>2, Zenon DEF TwoChainOK
  <1>5. \A x : x # b => Voters(D, x) = Voters(C, x)
    BY <1>2, Zenon DEF Voters
  <1> HIDE DEF D
  <1>6. \A x \in P : Certifies(QCOf(x), P, D)
    BY <1>3, CertifiesMonotone, Zenon DEF TwoChainOK
  <1>7. Ladder(b, P)
    <2> SUFFICES ASSUME NEW u \in 2..ViewOf(b)
                 PROVE  \E a \in P : ViewOf(a) = u /\ Extends(b, a)
      BY Zenon DEF Ladder
    <2>1. CASE u = ViewOf(b)
      <3>1. Extends(b, b)
        BY <1>1, ExtendsReflexive, Zenon DEF BlockID
      <3> QED
        BY <2>1, <3>1, Zenon
    <2>2. CASE u # ViewOf(b)
      <3> DEFINE p == PrevID(b)
      <3>1. Linked(b, P)
        BY <1>1, <2>2
      <3>2. p \in P /\ ViewOf(p) + 1 = ViewOf(b) /\ SuperMajority(Voters(C, p))
        BY <3>1, LinkedParent, Zenon DEF Linked
      <3>3. p \in Block /\ ViewOf(p) \in Nat
        BY <1>1, <3>2, BlockType, Zenon
      <3>4. Extends(b, p)
        BY <1>1, ExtendsAncestors, Zenon
      <3> HIDE DEF p
      <3>5. Ladder(p, P) /\ u \in 2..ViewOf(p)
        BY <1>1, <2>2, <3>2, <3>3 DEF TwoChainOK
      <3>6. PICK a \in P : ViewOf(a) = u /\ Extends(p, a)
        BY <3>5, Zenon DEF Ladder
      <3>7. a \in Seq(Header) /\ p \in Seq(Header) /\ b \in Seq(Header)
        BY <1>1, <3>3, Zenon DEF Block, BlockID
      <3>8. Extends(b, a)
        BY <3>4, <3>6, <3>7, ExtendsTransitive, Zenon
      <3> QED
        BY <3>6, <3>8, Zenon
    <2> QED
      BY <2>1, <2>2, Zenon
  <1>8. \A x \in P : SuperMajority(Voters(D, x)) => Ladder(x, P)
    BY <1>5, <1>7, Zenon DEF TwoChainOK
  <1>9. TwoChainOK(P, D)
    BY <1>3, <1>4, <1>6, <1>8, Zenon DEF TwoChainOK
  <1> QED
    BY <1>9, Zenon DEF D, vote

-----------------------------------------------------------------------------
(* ProcessBlock *)

\* The QC of a block enters the view after the QC's, unless the certified block
\* is unknown.  The proposer processes no certificate.
LEMMA ProcessBlockQCOK ==
    ASSUME NEW P, NEW C, TwoChainOK(P, C), NEW r, NEW s, ReplicaOK(s, r, P, C), NEW b \in P
    PROVE  LET t == ProcessBlockQC(s, r, b)
           IN  /\ StepOK(s, t, r, P, C) /\ t.bc = s.bc
               /\ ProposerOf(b) = r => t.pm = s.pm
               /\ (/\ ProposerOf(b) # r
                   /\ QCOf(b).view >= s.pm.curView
                   /\ PrevID(b) \in Vertices(s.bc.forest)) => t.pm.curView = QCOf(b).view + 1
  <1> DEFINE qc == QCOf(b)
             s1 == UpdateHighQC(s, qc)
             isHigh == qc.view > s.highQC.view
             t == ProcessCertificate(s1, r, qc, isHigh)
  <1>1. qc \in QC /\ Certifies(qc, P, C) /\ qc.id = PrevID(b)
    BY BlockType, Zenon DEF TwoChainOK
  <1>2. StepOK(s, s1, r, P, C) /\ s1.bc = s.bc /\ s1.pm = s.pm
    BY <1>1, UpdateHighQCOK
  <1>3. ProcessBlockQC(s, r, b) = IF ProposerOf(b) = r THEN s1 ELSE t
    BY Zenon DEF ProcessBlockQC
  <1> HIDE DEF qc, s1, isHigh
  <1>4. /\ StepOK(s1, t, r, P, C) /\ t.bc = s1.bc
        /\ qc.view >= s1.pm.curView /\ CanUpdatePreferredView(s1, qc)
             => t.pm.curView = qc.view + 1
    BY <1>1, <1>2, ProcessCertificateOK DEF StepOK
  <1> HIDE DEF t
  <1>5. PrevID(b) \in Vertices(s.bc.forest) => CanUpdatePreferredView(s1, qc)
    BY <1>1, <1>2, Zenon DEF CanUpdatePreferredView, HasBlock, Store
  <1>6. StepOK(s, t, r, P, C)
    BY <1>2, <1>4, StepOKTransitive, Zenon
  <1> QED
    BY <1>2, <1>3, <1>4, <1>5, <1>6, Zenon DEF qc

\* A replica votes for a block of view 3 or later only if the block is linked: a
\* QC with the view of the block or a later one, if its block is known, has taken
\* the replica past the block, and if it is unknown votingRule fails; any other
\* QC has the view before the block's, and commitRule must hold (tchs.go:81-98).
LEMMA VoteIsLinked ==
    ASSUME NEW P, NEW C, TwoChainOK(P, C), NEW r, NEW s, ReplicaOK(s, r, P, C), NEW b \in P,
           ProposerOf(b) = r => QCOf(b).view + 1 = s.pm.curView,
           ViewOf(b) >= 3,
           NEW s1, s1 = ProcessBlockQC(s, r, b), ~(ViewOf(b) < s1.pm.curView),
           NEW s2, s2 = StoreBlock(s1, b), ~(DirectChild(b) /\ ~CommitRule(s2, b)),
           NEW s4, ~DirectChild(b) => s4 = ProcessBufferedQC(s2, r, b), VotingRule(s4, b)
    PROVE  Linked(b, P)
  <1>1. /\ b \in Block /\ ViewOf(b) \in Nat /\ QCOf(b).view \in Nat
        /\ QCOf(b).view + 1 >= ViewOf(b)
    BY BlockType, Zenon DEF TwoChainOK, QC
  <1>2. /\ StepOK(s, s1, r, P, C) /\ s1.bc = s.bc
        /\ ProposerOf(b) = r => s1.pm = s.pm
        /\ (/\ ProposerOf(b) # r
            /\ QCOf(b).view >= s.pm.curView
            /\ PrevID(b) \in Vertices(s.bc.forest)) => s1.pm.curView = QCOf(b).view + 1
    BY ProcessBlockQCOK
  <1>3. /\ ReplicaOK(s1, r, P, C)
        /\ s.pm.curView \in Nat /\ s1.pm.curView \in Nat /\ s1.pm.curView >= s.pm.curView
    BY <1>2, CurView, Zenon DEF StepOK
  <1>4. /\ StepOK(s1, s2, r, P, C)
        /\ Vertices(s2.bc.forest) \subseteq Vertices(s1.bc.forest) \union {b}
    BY <1>3, StoreBlockOK, Zenon
  <1>5. ReplicaOK(s2, r, P, C)
    BY <1>4, Zenon DEF StepOK
  <1>6. CASE DirectChild(b)
    BY <1>5, <1>6, CommitRuleLinks, Zenon
  <1>7. CASE ~DirectChild(b)
    <2>1. QCOf(b).view >= ViewOf(b)
      BY <1>1, <1>7 DEF DirectChild
    <2>2. ProposerOf(b) # r
      BY <1>1, <1>2, <1>3, <2>1
    <2>3. PrevID(b) \notin Vertices(s.bc.forest)
      BY <1>1, <1>2, <1>3, <2>1, <2>2
    <2>4. PrevID(b) # b
      <3>1. b \in Seq(Header) /\ Len(b) \in Nat \ {0}
        BY <1>1, BlockType, Zenon DEF Block, BlockID
      <3> DEFINE k == Len(b) - 1
      <3>2. k \in Nat /\ k < Len(b) /\ \A i \in 1..k : b[i] \in Header
        BY <3>1
      <3>3. PrevID(b) = SubSeq(b, 1, k)
        BY Zenon DEF PrevID
      <3> HIDE DEF k
      <3>4. Len(SubSeq(b, 1, k)) = k
        BY <3>1, <3>2
      <3> QED
        BY <3>1, <3>2, <3>3, <3>4
    <2>5. s4.bc = s2.bc
      BY <1>5, <1>7, ProcessBufferedQCOK
    <2>6. PrevID(b) \in Vertices(s4.bc.forest)
      BY <1>1 DEF VotingRule, HasParent, Store
    <2> QED
      BY <1>2, <1>4, <2>3, <2>4, <2>5, <2>6, Zenon
  <1> QED
    BY <1>6, <1>7, Zenon

\* What ProcessBlock of block b in state s does: the replica makes a step, and if
\* it votes, then for b, which is not below its view.
BlockProcessed(r, s, b, P) ==
    /\ TwoChainOK(P, cast')
    /\ cast \subseteq cast'
    /\ voteMsgs' \subseteq voteMsgs \union cast'
    /\ \A v \in cast' \ cast : /\ v.id = b
                               /\ ViewOf(b) >= s.pm.curView
                               /\ ViewOf(b) >= 3 => Linked(b, P)
    /\ \E t : th' = [th EXCEPT ![r] = t] /\ StepOK(s, t, r, P, cast')

\* A step of ProcessBlock without a vote.
LEMMA NoVote ==
    ASSUME NEW P, TwoChainOK(P, cast), NEW r, NEW s, NEW b, NEW t, StepOK(s, t, r, P, cast),
           th' = [th EXCEPT ![r] = t], cast' = cast, voteMsgs' = voteMsgs
    PROVE  BlockProcessed(r, s, b, P)
  <1>1. /\ TwoChainOK(P, cast') /\ cast \subseteq cast'
        /\ voteMsgs' \subseteq voteMsgs \union cast' /\ cast' \ cast = {}
    BY Zenon
  <1>2. StepOK(s, t, r, P, cast')
    BY Zenon
  <1> QED
    BY <1>1, <1>2, Zenon DEF BlockProcessed

\* ProcessBlock of a proposed block.
LEMMA ProcessBlockOK ==
    ASSUME NEW P, TwoChainOK(P, cast), NEW r \in Replica, NEW s, ReplicaOK(s, r, P, cast),
           NEW b \in P, ProposerOf(b) = r => QCOf(b).view + 1 = s.pm.curView,
           ProcessBlock(r, s, b)
    PROVE  BlockProcessed(r, s, b, P)
  <1> DEFINE s1   == ProcessBlockQC(s, r, b)
             s2   == StoreBlock(s1, b)
             s3   == IF DirectChild(b) THEN CommitInForest(s2, PrevID(PrevID(b))) ELSE s2
             s4   == ProcessBufferedQC(s3, r, b)
             vote == MakeVote(ViewOf(b), r, b)
             early    == ViewOf(b) > s.pm.curView + 1
             rejected == ViewOf(b) < s1.pm.curView \/ ~IsLeader(ProposerOf(b), ViewOf(b))
             noCommit == DirectChild(b) /\ ~CommitRule(s2, b)
  <1>1. \/ /\ early /\ th' = [th EXCEPT ![r] = BufferBlock(s, b)]
           /\ cast' = cast /\ voteMsgs' = voteMsgs
        \/ /\ th' = [th EXCEPT ![r] = s1]
           /\ cast' = cast /\ voteMsgs' = voteMsgs
        \/ /\ th' = [th EXCEPT ![r] = s2]
           /\ cast' = cast /\ voteMsgs' = voteMsgs
        \/ /\ ~noCommit
           /\ th' = [th EXCEPT ![r] = IF s3.panicked THEN s3 ELSE s4]
           /\ cast' = cast /\ voteMsgs' = voteMsgs
        \/ /\ ~rejected /\ ~noCommit /\ VotingRule(s4, b)
           /\ cast' = cast \union {vote}
           /\ \/ /\ th' = [th EXCEPT ![r] = NextBuffered(ProcessVote(s4, r, vote), b)]
                 /\ voteMsgs' = voteMsgs
              \/ /\ th' = [th EXCEPT ![r] = NextBuffered(s4, b)]
                 /\ voteMsgs' = voteMsgs \union {vote}
    BY Zenon DEF ProcessBlock
  <1>2. StepOK(s, s1, r, P, cast) /\ ReplicaOK(s1, r, P, cast)
    BY ProcessBlockQCOK, Zenon DEF StepOK
  <1>3. StepOK(s, s2, r, P, cast) /\ ReplicaOK(s2, r, P, cast)
    <2> HIDE DEF s1
    <2>1. StepOK(s1, s2, r, P, cast)
      BY <1>2, StoreBlockOK, Zenon
    <2> HIDE DEF s2
    <2> QED
      BY <1>2, <2>1, StepOKTransitive, Zenon DEF StepOK
  <1>4. ASSUME ~noCommit
        PROVE  StepOK(s, s3, r, P, cast) /\ StepOK(s, s4, r, P, cast)
    <2> HIDE DEF s1, s2
    <2>1. StepOK(s, s3, r, P, cast)
      <3>1. CASE DirectChild(b)
        <4>1. Linked(b, P)
          BY <1>3, <1>4, <3>1, CommitRuleLinks, Zenon
        <4>2. StepOK(s2, CommitInForest(s2, PrevID(PrevID(b))), r, P, cast)
          BY <1>3, <4>1, CommitInForestOK, Zenon
        <4> QED
          BY <1>3, <3>1, <4>2, StepOKTransitive, Zenon
      <3>2. CASE ~DirectChild(b)
        BY <1>3, <3>2, Zenon
      <3> QED
        BY <3>1, <3>2, Zenon
    <2> HIDE DEF s3
    <2>2. ReplicaOK(s3, r, P, cast)
      BY <2>1, Zenon DEF StepOK
    <2>3. StepOK(s3, s4, r, P, cast)
      BY <2>2, ProcessBufferedQCOK, Zenon
    <2> QED
      BY <2>1, <2>3, StepOKTransitive, Zenon
  <1>5. CASE /\ early /\ th' = [th EXCEPT ![r] = BufferBlock(s, b)]
             /\ cast' = cast /\ voteMsgs' = voteMsgs
    <2>1. b \in Others(r, P)
      <3>1. /\ QCOf(b).view + 1 >= ViewOf(b) /\ QCOf(b).view \in Nat
            /\ ViewOf(b) \in Nat /\ s.pm.curView \in Nat
        BY BlockType, CurView, Zenon DEF TwoChainOK, QC
      <3> QED
        BY <1>5, <3>1 DEF Others
    <2>2. StepOK(s, BufferBlock(s, b), r, P, cast)
      BY <2>1, BufferBlockOK, Zenon
    <2> QED
      BY <1>5, <2>2, NoVote, Zenon
  <1>6. CASE /\ th' = [th EXCEPT ![r] = s1]
             /\ cast' = cast /\ voteMsgs' = voteMsgs
    BY <1>2, <1>6, NoVote, Zenon
  <1>7. CASE /\ th' = [th EXCEPT ![r] = s2]
             /\ cast' = cast /\ voteMsgs' = voteMsgs
    BY <1>3, <1>7, NoVote, Zenon
  <1>8. CASE /\ ~noCommit
             /\ th' = [th EXCEPT ![r] = IF s3.panicked THEN s3 ELSE s4]
             /\ cast' = cast /\ voteMsgs' = voteMsgs
    <2> DEFINE t == IF s3.panicked THEN s3 ELSE s4
    <2>1. StepOK(s, t, r, P, cast)
      BY <1>4, <1>8, Zenon
    <2> HIDE DEF t
    <2>2. th' = [th EXCEPT ![r] = t]
      BY <1>8, Zenon DEF t
    <2> QED
      BY <1>8, <2>1, <2>2, NoVote, Zenon
  <1>9. CASE /\ ~rejected /\ ~noCommit /\ VotingRule(s4, b)
             /\ cast' = cast \union {vote}
             /\ \/ /\ th' = [th EXCEPT ![r] = NextBuffered(ProcessVote(s4, r, vote), b)]
                   /\ voteMsgs' = voteMsgs
                \/ /\ th' = [th EXCEPT ![r] = NextBuffered(s4, b)]
                   /\ voteMsgs' = voteMsgs \union {vote}
    <2>1. ViewOf(b) >= 3 => Linked(b, P)
      <3>1. ~DirectChild(b) => s4 = ProcessBufferedQC(s2, r, b)
        BY Zenon
      <3>2. s1 = ProcessBlockQC(s, r, b) /\ s2 = StoreBlock(s1, b)
        BY Zenon
      <3> HIDE DEF s1, s2, s3, s4
      <3> QED
        BY <1>9, <3>1, <3>2, VoteIsLinked, Zenon
    <2>2. ViewOf(b) >= s.pm.curView
      <3> DEFINE x == s1.pm.curView
                 y == s.pm.curView
                 z == ViewOf(b)
      <3>1. x >= y /\ x \in Nat /\ y \in Nat /\ z \in Nat
        BY <1>2, CurView, BlockType, Zenon DEF StepOK, TwoChainOK
      <3>2. ~(z < x)
        BY <1>9, Zenon
      <3> HIDE DEF x, y, z
      <3>3. z >= y
        BY <3>1, <3>2
      <3> QED
        BY <3>3, Zenon DEF y, z
    <2>3. StepOK(s, s4, r, P, cast)
      BY <1>4, <1>9, Zenon
    <2> HIDE DEF s1, s2, s3, s4
    <2>4. /\ TwoChainOK(P, cast') /\ vote \in cast' /\ cast \subseteq cast'
          /\ voteMsgs' \subseteq voteMsgs \union cast'
      BY <1>9, <2>1, CastOK, Zenon
    <2>5. \A v \in cast' \ cast : v.id = b
      <3>1. vote.id = b
        BY Zenon DEF MakeVote
      <3> HIDE DEF vote
      <3>2. \A v \in cast' \ cast : v = vote
        BY <1>9, Zenon
      <3> QED
        BY <3>1, <3>2, Zenon
    <2> HIDE DEF vote
    <2>6. cast' \in SUBSET Vote
      BY <2>4, Zenon DEF TwoChainOK
    <2>7. /\ ReplicaOK(s, r, P, cast') /\ ReplicaOK(s4, r, P, cast')
          /\ StepOK(s, s4, r, P, cast')
      BY <2>3, <2>4, <2>6, ReplicaMonotone, Zenon DEF StepOK, TwoChainOK
    <2> DEFINE s5 == ProcessVote(s4, r, vote)
    <2>8. StepOK(s, s5, r, P, cast')
      <3>1. StepOK(s4, s5, r, P, cast')
        BY <2>4, <2>7, ProcessVoteOK, Zenon
      <3> HIDE DEF s5
      <3> QED
        BY <2>7, <3>1, StepOKTransitive, Zenon
    <2> HIDE DEF s5
    <2>9. \A t : StepOK(s, t, r, P, cast') => StepOK(s, NextBuffered(t, b), r, P, cast')
      <3> SUFFICES ASSUME NEW t, StepOK(s, t, r, P, cast')
                   PROVE  StepOK(s, NextBuffered(t, b), r, P, cast')
        BY Zenon
      <3>1. StepOK(t, NextBuffered(t, b), r, P, cast')
        BY NextBufferedOK, Zenon DEF StepOK
      <3> HIDE DEF NextBuffered
      <3> QED
        BY <2>7, <3>1, StepOKTransitive, Zenon
    <2>10. \E t : th' = [th EXCEPT ![r] = t] /\ StepOK(s, t, r, P, cast')
      BY <1>9, <2>7, <2>8, <2>9, Zenon DEF s5
    <2> QED
      BY <2>1, <2>2, <2>4, <2>5, <2>10, Zenon DEF BlockProcessed
  <1> QED
    BY <1>1, <1>5, <1>6, <1>7, <1>8, <1>9, Zenon

-----------------------------------------------------------------------------
(* The inductive invariant *)

\* Messages carry what was proposed and cast, and no replica is sent its own
\* block.
MessagesOK ==
    /\ blockMsgs \subseteq Replica \X proposals
    /\ \A m \in blockMsgs : ProposerOf(m[2]) # m[1]
    /\ voteMsgs \subseteq cast /\ heldVotes \subseteq cast
    /\ tmoMsgs \subseteq Replica \X TMO /\ heldTmos \subseteq Replica \X TMO
    /\ fired \subseteq Replica \X Nat

IInv ==
    /\ TwoChainOK(proposals, cast)
    /\ DOMAIN th = Replica
    /\ \A r \in Replica : ReplicaOK(th[r], r, proposals, cast)
    /\ MessagesOK

\* What a step does: no replica goes back to an earlier view, no vote is taken
\* back, and a block that gets a vote is not below the view of some replica and,
\* from view 3 on, has the certified block of the view before as its parent.
Advances ==
    /\ \A q \in Replica : th'[q].pm.curView >= th[q].pm.curView
    /\ cast \subseteq cast'
    /\ \A v \in cast' \ cast :
        /\ \E q \in Replica : ViewOf(v.id) >= th[q].pm.curView
        /\ ViewOf(v.id) >= 3 => /\ ViewOf(PrevID(v.id)) + 1 = ViewOf(v.id)
                                /\ SuperMajority(Voters(cast, PrevID(v.id)))

\* A new replica knows nothing.
LEMMA InitialReplica ==
    ASSUME NEW r
    PROVE  ReplicaOK(NewTchs, r, {}, {})
  <1>1. InitialQC \in QC /\ InitialQC.id = ZeroID
    BY DEF InitialQC, QC, ZeroID, BlockID
  <1>2. NewPacemaker \in PacemakerState /\ NewPacemaker.newViews = << >>
    BY DEF NewPacemaker, PacemakerState
  <1>3. PacemakerOK(NewPacemaker, r, {})
    <2>1. 1..Len(<< >>) = {}
      OBVIOUS
    <2> QED
      BY <1>2, <2>1, Zenon DEF PacemakerOK
  <1>4. IsForest(NewLevelledForest) /\ Vertices(NewLevelledForest) = {}
    <2>1. DOMAIN << >> = {}
      OBVIOUS
    <2>2. /\ DOMAIN NewLevelledForest = {"vertices", "verticesAtLevel", "LowestLevel"}
          /\ NewLevelledForest.vertices = << >> /\ NewLevelledForest.verticesAtLevel = << >>
          /\ NewLevelledForest.LowestLevel = 0
      BY Zenon DEF NewLevelledForest
    <2> QED
      BY <2>1, <2>2 DEF IsForest, Vertices
  <1> DEFINE bc == [forest |-> NewLevelledForest, votes |-> {},
                    committed |-> << >>, forked |-> {}]
  <1>5. ForestStoreOK(bc, {}, {})
    <2>1. /\ DOMAIN bc = {"forest", "votes", "committed", "forked"}
          /\ bc.forest = NewLevelledForest /\ bc.votes = {}
          /\ bc.committed = << >> /\ bc.forked = {}
      BY Zenon
    <2>2. << >> \in Seq(Block) /\ DOMAIN << >> = {}
      OBVIOUS
    <2> HIDE DEF bc
    <2> QED
      BY <1>4, <2>1, <2>2, Zenon DEF ForestStoreOK
  <1> HIDE DEF bc
  <1>6. /\ DOMAIN NewTchs = {"pm", "bc", "preferredView", "highQC", "shared", "bufferedQCs",
                   "bufferedBlocks", "pending", "localTmo", "proposedNo", "panicked"}
        /\ NewTchs.pm = NewPacemaker /\ NewTchs.bc = bc /\ NewTchs.preferredView = 0
        /\ NewTchs.highQC = InitialQC /\ NewTchs.bufferedQCs = {}
        /\ NewTchs.bufferedBlocks = {} /\ NewTchs.pending = ZeroID
        /\ NewTchs.localTmo = NoTimeout /\ NewTchs.proposedNo = 0
    BY Zenon DEF NewTchs, bc
  <1> QED
    BY <1>1, <1>3, <1>5, <1>6 DEF ReplicaOK, Certifies

\* The initial states satisfy the invariant.
LEMMA InitOK ==
    ASSUME Counting, Init
    PROVE  IInv
  <1>1. DOMAIN th = Replica /\ \A r \in Replica : th[r] = NewTchs
    BY Zenon DEF Init
  <1>2. \A r \in Replica : ReplicaOK(th[r], r, proposals, cast)
    BY <1>1, InitialReplica, Zenon DEF Init
  <1>3. TwoChainOK(proposals, cast) /\ MessagesOK
    BY Zenon DEF Init, TwoChainOK, MessagesOK
  <1> QED
    BY <1>1, <1>2, <1>3, Zenon DEF IInv

\* A step of replica r to state t, with the blocks and votes it adds.
LEMMA ReplicaStep ==
    ASSUME IInv, NEW r \in Replica, NEW t, th' = [th EXCEPT ![r] = t],
           StepOK(th[r], t, r, proposals', cast'),
           TwoChainOK(proposals', cast'),
           proposals \subseteq proposals', cast \subseteq cast',
           \A b \in proposals' \ proposals : ProposerOf(b) = r,
           MessagesOK'
    PROVE  IInv' /\ \A q \in Replica : th'[q].pm.curView >= th[q].pm.curView
  <1>1. DOMAIN th = Replica
    BY Zenon DEF IInv
  <1>2. ReplicaOK(t, r, proposals', cast') /\ t.pm.curView >= th[r].pm.curView
    BY Zenon DEF StepOK
  <1>3. DOMAIN th' = Replica /\ th'[r] = t /\ \A q \in Replica \ {r} : th'[q] = th[q]
    BY <1>1, Zenon
  <1>4. ASSUME NEW q \in Replica
        PROVE  /\ ReplicaOK(th'[q], q, proposals', cast')
               /\ th'[q].pm.curView >= th[q].pm.curView
    <2>1. CASE q = r
      BY <1>2, <1>3, <2>1, Zenon
    <2>2. CASE q # r
      <3>1. ReplicaOK(th[q], q, proposals, cast) /\ th'[q] = th[q]
        BY <1>3, <2>2, Zenon DEF IInv
      <3>2. cast' \in SUBSET Vote
        BY Zenon DEF TwoChainOK
      <3>3. \A b \in proposals' \ proposals : ProposerOf(b) # q
        BY <2>2, Zenon
      <3>4. ReplicaOK(th[q], q, proposals', cast')
        BY <3>1, <3>2, <3>3, ReplicaMonotone, Zenon DEF TwoChainOK
      <3>5. th[q].pm.curView \in Nat
        BY <3>1, CurView, Zenon
      <3> QED
        BY <3>1, <3>4, <3>5
    <2> QED
      BY <2>1, <2>2, Zenon
  <1> QED
    BY <1>3, <1>4, Zenon DEF IInv

\* A step that neither proposes nor votes.
LEMMA QuietStep ==
    ASSUME IInv, NEW r \in Replica, NEW t, th' = [th EXCEPT ![r] = t],
           StepOK(th[r], t, r, proposals, cast),
           proposals' = proposals, cast' = cast, MessagesOK'
    PROVE  IInv' /\ Advances
  <1>1. TwoChainOK(proposals', cast') /\ StepOK(th[r], t, r, proposals', cast')
    BY Zenon DEF IInv
  <1>2. /\ proposals \subseteq proposals' /\ cast \subseteq cast' /\ cast' \ cast = {}
        /\ \A b \in proposals' \ proposals : ProposerOf(b) = r
    BY Zenon
  <1>3. IInv' /\ \A q \in Replica : th'[q].pm.curView >= th[q].pm.curView
    BY <1>1, <1>2, ReplicaStep, Zenon
  <1> QED
    BY <1>2, <1>3, Zenon DEF Advances

\* A step that processes block b, proposed in this step or before.
LEMMA BlockStep ==
    ASSUME IInv, NEW r \in Replica, NEW s, NEW b \in proposals', ProcessBlock(r, s, b),
           ReplicaOK(s, r, proposals', cast), s.pm.curView = th[r].pm.curView,
           ProposerOf(b) = r => QCOf(b).view + 1 = s.pm.curView,
           TwoChainOK(proposals', cast), proposals \subseteq proposals',
           \A x \in proposals' \ proposals : ProposerOf(x) = r,
           blockMsgs' \subseteq Replica \X proposals',
           \A m \in blockMsgs' : ProposerOf(m[2]) # m[1],
           tmoMsgs' = tmoMsgs, heldVotes' = heldVotes, heldTmos' = heldTmos, fired' = fired
    PROVE  IInv' /\ Advances
  <1>1. BlockProcessed(r, s, b, proposals')
    BY ProcessBlockOK, Zenon
  <1>2. PICK t : th' = [th EXCEPT ![r] = t] /\ StepOK(s, t, r, proposals', cast')
    BY <1>1, Zenon DEF BlockProcessed
  <1>3. StepOK(th[r], t, r, proposals', cast')
    BY <1>2, Zenon DEF StepOK
  <1>4. /\ TwoChainOK(proposals', cast') /\ cast \subseteq cast'
        /\ voteMsgs' \subseteq voteMsgs \union cast'
        /\ \A v \in cast' \ cast : /\ v.id = b
                                   /\ ViewOf(b) >= s.pm.curView
                                   /\ ViewOf(b) >= 3 => Linked(b, proposals')
    BY <1>1, Zenon DEF BlockProcessed
  <1>5. MessagesOK'
    BY <1>4, Zenon DEF IInv, MessagesOK
  <1>6. IInv' /\ \A q \in Replica : th'[q].pm.curView >= th[q].pm.curView
    BY <1>2, <1>3, <1>4, <1>5, ReplicaStep, Zenon
  <1>7. Linked(b, proposals') => /\ ViewOf(PrevID(b)) + 1 = ViewOf(b)
                                 /\ SuperMajority(Voters(cast, PrevID(b)))
    BY LinkedParent, Zenon
  <1>8. \A v \in cast' \ cast :
        /\ ViewOf(v.id) >= th[r].pm.curView
        /\ ViewOf(v.id) >= 3 => /\ ViewOf(PrevID(v.id)) + 1 = ViewOf(v.id)
                                /\ SuperMajority(Voters(cast, PrevID(v.id)))
    BY <1>4, <1>7, Zenon
  <1> QED
    BY <1>4, <1>6, <1>8, Zenon DEF Advances

-----------------------------------------------------------------------------
(* Proposing *)

\* A view that waits for its proposal is later than every certified block: the
\* chain of a certified block has a block in each view from 2 on, and the leader
\* of the waiting view has made none for it.
LEMMA CertifiedBelow ==
    ASSUME IInv, NEW r \in Replica, NEW nv, nv = th[r].pm.newViews, nv # << >>,
           NEW c \in proposals, SuperMajority(Voters(cast, c))
    PROVE  ViewOf(c) < nv[1]
  <1>1. ReplicaOK(th[r], r, proposals, cast) /\ TwoChainOK(proposals, cast)
    BY Zenon DEF IInv
  <1>2. PacemakerOK(th[r].pm, r, proposals) /\ th[r].pm \in PacemakerState
    BY <1>1, Zenon DEF ReplicaOK, PacemakerOK
  <1>3. nv \in Seq(Nat)
    BY <1>2, Zenon DEF PacemakerState
  <1>4. 1 \in 1..Len(nv) /\ nv[1] \in Nat
    BY <1>3
  <1>5. nv[1] >= 1 /\ IsLeader(r, nv[1])
    BY <1>2, <1>4, Zenon DEF PacemakerOK
  <1>6. \A a \in proposals : /\ ViewOf(a) \in Nat /\ ViewOf(a) >= 1
                             /\ ProposerOf(a) \in Replica
                             /\ IsLeader(ProposerOf(a), ViewOf(a))
    BY <1>1, BlockType, Zenon DEF TwoChainOK
  <1> SUFFICES ASSUME ViewOf(c) >= nv[1] PROVE FALSE
    BY <1>4, <1>6
  <1>7. Ladder(c, proposals)
    BY <1>1, Zenon DEF TwoChainOK
  <1>8. \E a \in proposals : ViewOf(a) >= nv[1] /\ IsLeader(r, ViewOf(a))
    <2>1. CASE nv[1] >= 2
      <3>1. nv[1] \in 2..ViewOf(c)
        BY <1>4, <1>6, <2>1
      <3>2. PICK a \in proposals : ViewOf(a) = nv[1]
        BY <1>7, <3>1, Zenon DEF Ladder
      <3> QED
        BY <1>4, <1>5, <3>2
    <2>2. CASE nv[1] = 1 /\ ViewOf(c) = 1
      BY <1>5, <2>2, Zenon
    <2>3. CASE nv[1] = 1 /\ ViewOf(c) >= 2
      <3>1. 2 \in 2..ViewOf(c)
        BY <1>6, <2>3
      <3>2. PICK a \in proposals : ViewOf(a) = 2
        BY <1>7, <3>1, Zenon DEF Ladder
      <3>3. IsLeader(r, 2)
        BY <1>5, <2>3 DEF IsLeader, RotationIsLeader
      <3> QED
        BY <2>3, <3>2, <3>3
    <2>4. nv[1] >= 2 \/ nv[1] = 1
      BY <1>4, <1>5
    <2>5. ViewOf(c) = 1 \/ ViewOf(c) >= 2
      BY <1>6
    <2> QED
      BY <2>1, <2>2, <2>3, <2>4, <2>5, Zenon
  <1>9. PICK a \in proposals : ViewOf(a) >= nv[1] /\ IsLeader(r, ViewOf(a))
    BY <1>8, Zenon
  <1>10. ProposerOf(a) = r
    BY <1>6, <1>9, UniqueLeader, Zenon
  <1>11. ViewOf(a) < nv[1]
    BY <1>2, <1>4, <1>10, Zenon DEF PacemakerOK
  <1> QED
    BY <1>4, <1>6, <1>9, <1>11

\* Taking the first waiting view: no block has been made for it.
LEMMA TakeViewOK ==
    ASSUME IInv, NEW r \in Replica, NEW nv, nv = th[r].pm.newViews, nv # << >>,
           NEW b \in Block, ViewOf(b) = nv[1], ProposerOf(b) = r
    PROVE  LET pm == [th[r].pm EXCEPT !.newViews = Tail(@)]
           IN  /\ PacemakerOK(pm, r, proposals \union {b})
               /\ pm.curView = th[r].pm.curView
               /\ nv[1] \in Nat /\ nv[1] >= 1 /\ nv[1] <= pm.curView /\ Head(nv) = nv[1]
               /\ IsLeader(r, nv[1])
               /\ \A a \in proposals : ViewOf(a) # ViewOf(b)
  <1> DEFINE pm == [th[r].pm EXCEPT !.newViews = Tail(@)]
             tl == Tail(nv)
             old == th[r].pm
  <1>1. PacemakerOK(old, r, proposals) /\ old \in PacemakerState /\ TwoChainOK(proposals, cast)
    BY Zenon DEF IInv, ReplicaOK, PacemakerOK
  <1>2. nv \in Seq(Nat) /\ old.curView \in Nat /\ old.newViews = nv
    BY <1>1, Zenon DEF PacemakerState
  <1>3. /\ Len(nv) \in Nat \ {0} /\ Head(nv) = nv[1] /\ nv[1] \in Nat
        /\ tl \in Seq(Nat) /\ Len(tl) = Len(nv) - 1
        /\ \A i \in 1..Len(tl) : tl[i] = nv[i + 1]
    BY <1>2
  <1> HIDE DEF tl, old
  <1>4. /\ pm \in PacemakerState
        /\ pm.curView = old.curView /\ pm.newViews = tl
    <2> DEFINE S == Seq(Nat)
               T == SUBSET (Nat \X Replica)
    <2>1. PacemakerState = [curView : Nat, newViews : S, timeouts : T] /\ tl \in S
      BY <1>3, Zenon DEF PacemakerState
    <2>2. pm = [old EXCEPT !.newViews = tl]
      BY <1>2, Zenon DEF old, tl
    <2> HIDE DEF S, T, pm
    <2> QED
      BY <1>1, <2>1, <2>2, Zenon
  <1> HIDE DEF pm
  <1>5. nv[1] >= 1 /\ nv[1] <= old.curView /\ IsLeader(r, nv[1]) /\ 1 \in 1..Len(nv)
    <2>1. 1 \in 1..Len(nv)
      BY <1>3
    <2> QED
      BY <1>1, <1>2, <2>1, Zenon DEF PacemakerOK
  <1>6. \A a \in proposals : ViewOf(a) # ViewOf(b)
    <2> SUFFICES ASSUME NEW a \in proposals, ViewOf(a) = ViewOf(b) PROVE FALSE
      BY Zenon
    <2>1. ProposerOf(a) \in Replica /\ IsLeader(ProposerOf(a), nv[1])
      BY <1>1, BlockType, Zenon DEF TwoChainOK
    <2>2. ProposerOf(a) = r
      BY <1>3, <1>5, <2>1, UniqueLeader, Zenon
    <2>3. ViewOf(a) < nv[1]
      BY <1>1, <1>2, <1>5, <2>2, Zenon DEF PacemakerOK
    <2> QED
      BY <1>3, <2>3
  <1>7. PacemakerOK(pm, r, proposals \union {b})
    <2>1. \A i \in 1..Len(tl) : i + 1 \in 1..Len(nv) /\ tl[i] = nv[i + 1]
      <3> DEFINE n == Len(nv)
                 k == Len(tl)
      <3>1. n \in Nat \ {0} /\ k = n - 1
        BY <1>3, Zenon
      <3> HIDE DEF n, k
      <3>2. \A i \in 1..k : i + 1 \in 1..n
        BY <3>1
      <3> QED
        BY <1>3, <3>2, Zenon DEF n, k
    <2>2. \A i \in 1..Len(tl) : /\ tl[i] <= old.curView
                                /\ tl[i] >= 1
                                /\ IsLeader(r, tl[i])
      BY <1>1, <1>2, <2>1, Zenon DEF PacemakerOK
    <2>3. \A i, j \in 1..Len(tl) : i < j => tl[i] < tl[j]
      <3>1. \A i, j \in 1..Len(tl) : i < j => i + 1 < j + 1
        BY <1>3
      <3> QED
        BY <1>1, <1>2, <2>1, <3>1, Zenon DEF PacemakerOK
    <2>4. \A a \in proposals : ProposerOf(a) = r =>
            /\ ViewOf(a) <= old.curView
            /\ \A i \in 1..Len(tl) : ViewOf(a) < tl[i]
      BY <1>1, <1>2, <2>1, Zenon DEF PacemakerOK
    <2>5. \A i \in 1..Len(tl) : ViewOf(b) < tl[i]
      <3>1. \A i \in 1..Len(tl) : 1 < i + 1
        BY <1>3
      <3>2. \A i \in 1..Len(tl) : nv[1] < nv[i + 1]
        BY <1>1, <1>2, <1>5, <2>1, <3>1, Zenon DEF PacemakerOK
      <3> QED
        BY <2>1, <3>2, Zenon
    <2>6. \A a \in proposals \union {b} : ProposerOf(a) = r =>
            /\ ViewOf(a) <= old.curView
            /\ \A i \in 1..Len(tl) : ViewOf(a) < tl[i]
      BY <1>5, <2>4, <2>5, Zenon
    <2> QED
      BY <1>4, <2>2, <2>3, <2>6, Zenon DEF PacemakerOK
  <1> QED
    BY <1>3, <1>4, <1>5, <1>6, <1>7, Zenon DEF pm, old

\* What forkChoice certifies when a replica takes a view that waits: the highest
\* certified block, with the view before the current one.
LEMMA ForkChoiceOK ==
    ASSUME IInv, NEW r \in Replica, th[r].pm.newViews # << >>,
           NEW qc, qc = [th[r].highQC EXCEPT !.view = th[r].pm.curView - 1]
    PROVE  /\ qc \in QC /\ qc.view = th[r].pm.curView - 1
           /\ Certifies(qc, proposals, cast)
           /\ qc.id = ZeroID \/ ViewOf(qc.id) < th[r].pm.newViews[1]
  <1> DEFINE h  == th[r]
             nv == h.pm.newViews
  <1>1. /\ ReplicaOK(h, r, proposals, cast) /\ TwoChainOK(proposals, cast)
        /\ PacemakerOK(h.pm, r, proposals) /\ h.pm \in PacemakerState
        /\ h.highQC \in QC /\ Certifies(h.highQC, proposals, cast)
    BY Zenon DEF IInv, ReplicaOK, PacemakerOK
  <1>2. nv \in Seq(Nat) /\ h.pm.curView \in Nat
    BY <1>1, Zenon DEF PacemakerState
  <1>3. 1 \in 1..Len(nv) /\ nv[1] \in Nat
    BY <1>2
  <1>4. nv[1] >= 1 /\ nv[1] <= h.pm.curView
    BY <1>1, <1>3, Zenon DEF PacemakerOK
  <1>5. qc \in QC /\ qc.view = h.pm.curView - 1 /\ qc.id = h.highQC.id
    <2> DEFINE w == nv[1]
               c == h.pm.curView
    <2>1. w \in Nat /\ w >= 1 /\ w <= c /\ c \in Nat
      BY <1>2, <1>3, <1>4, Zenon
    <2> HIDE DEF w, c
    <2>2. c - 1 \in Nat
      BY <2>1
    <2> QED
      BY <1>1, <2>2, Zenon DEF QC, c
  <1>6. CASE qc.id = ZeroID
    BY <1>5, <1>6, Zenon DEF Certifies
  <1>7. CASE qc.id # ZeroID
    <2>1. qc.id \in proposals /\ SuperMajority(Voters(cast, qc.id))
      BY <1>1, <1>5, <1>7, Zenon DEF Certifies
    <2>2. ViewOf(qc.id) < nv[1] /\ ViewOf(qc.id) \in Nat
      BY <1>1, <2>1, CertifiedBelow, BlockType, Zenon DEF TwoChainOK
    <2>3. qc.view >= ViewOf(qc.id)
      BY <1>2, <1>3, <1>4, <1>5, <2>2
    <2> QED
      BY <1>5, <2>1, <2>2, <2>3, Zenon DEF Certifies
  <1> QED
    BY <1>6, <1>7, Zenon

\* Block b of replica r for the first of the waiting views nv, and the pacemaker
\* pm without the view.
NewBlock(b, r, nv, qc, pm) ==
    /\ b \in Block /\ ViewOf(b) = nv[1] /\ ProposerOf(b) = r
    /\ PrevID(b) = qc.id /\ QCOf(b) = qc
    /\ PacemakerOK(pm, r, proposals \union {b})
    /\ pm.curView = th[r].pm.curView
    /\ nv[1] >= 1 /\ nv[1] <= pm.curView /\ IsLeader(r, nv[1])
    /\ \A a \in proposals : ViewOf(a) # ViewOf(b)

\* The block made for the first waiting view.
LEMMA NewBlockOK ==
    ASSUME IInv, NEW r \in Replica, th[r].pm.newViews # << >>, NEW qc \in QC, NEW no \in Nat
    PROVE  NewBlock(MakeBlock(Head(th[r].pm.newViews), qc, r, no), r, th[r].pm.newViews, qc,
                    [th[r].pm EXCEPT !.newViews = Tail(@)])
  <1> DEFINE nv == th[r].pm.newViews
             pm == [th[r].pm EXCEPT !.newViews = Tail(@)]
             v == nv[1]
             b == MakeBlock(v, qc, r, no)
  <1>1. nv \in Seq(Nat)
    BY Zenon DEF IInv, ReplicaOK, PacemakerOK, PacemakerState
  <1>2. 1 \in 1..Len(nv)
    BY <1>1
  <1>3. v \in Nat /\ Head(nv) = v
    BY <1>1, <1>2
  <1>4. nv # << >> /\ nv = th[r].pm.newViews /\ v = nv[1]
    BY Zenon
  <1> HIDE DEF v, nv
  <1>5. /\ b \in Block /\ ViewOf(b) = v /\ ProposerOf(b) = r
        /\ PrevID(b) = qc.id /\ QCOf(b) = qc
    <2>1. \A w \in Nat : LET x == MakeBlock(w, qc, r, no)
                         IN  /\ x \in Block /\ ViewOf(x) = w /\ ProposerOf(x) = r
                             /\ PrevID(x) = qc.id /\ QCOf(x) = qc
      BY MakeBlockProperties
    <2>2. v \in Nat
      BY <1>3, Zenon
    <2> QED
      BY <2>1, <2>2, Zenon
  <1> HIDE DEF b
  <1>6. /\ PacemakerOK(pm, r, proposals \union {b})
        /\ pm.curView = th[r].pm.curView
        /\ nv[1] >= 1 /\ nv[1] <= pm.curView /\ IsLeader(r, nv[1])
        /\ \A a \in proposals : ViewOf(a) # ViewOf(b)
    BY <1>4, <1>5, TakeViewOK, Zenon
  <1> HIDE DEF pm
  <1>7. NewBlock(b, r, nv, qc, pm)
    BY <1>4, <1>5, <1>6, Zenon DEF NewBlock
  <1> QED
    BY <1>3, <1>7, Zenon DEF b, pm, nv

\* What taking a view and forkChoice change in the state h of a replica: the
\* pacemaker, the highest certificate and the number of blocks.
Taken(h, s, pm, qc) ==
    /\ DOMAIN s = DOMAIN h
    /\ s.pm = pm /\ s.bc = h.bc /\ s.preferredView = h.preferredView
    /\ s.bufferedBlocks = h.bufferedBlocks /\ s.pending = h.pending
    /\ s.localTmo = h.localTmo /\ s.proposedNo = h.proposedNo + 1
    /\ s.highQC = qc
    /\ \A q \in s.bufferedQCs : q \in h.bufferedQCs \/ q = qc

\* forkChoice sets the view of the highest certificate, and of the buffered
\* certificate that is the same one.
LEMMA ForkChoiceFields ==
    ASSUME NEW u
    PROVE  \E B : /\ ForkChoice(u) = [u EXCEPT !.highQC = [u.highQC EXCEPT !.view = u.pm.curView - 1],
                                              !.bufferedQCs = B]
                 /\ \A q \in B : \/ q \in u.bufferedQCs
                                  \/ q = [u.highQC EXCEPT !.view = u.pm.curView - 1]
  <1> DEFINE qc == [u.highQC EXCEPT !.view = u.pm.curView - 1]
             B == IF u.shared THEN {q \in u.bufferedQCs : q.id # qc.id} \union {qc}
                              ELSE u.bufferedQCs
  <1>1. ForkChoice(u) = [u EXCEPT !.highQC = qc, !.bufferedQCs = B]
    BY Zenon DEF ForkChoice
  <1> HIDE DEF qc
  <1>2. \A q \in B : q \in u.bufferedQCs \/ q = qc
    BY Zenon
  <1> HIDE DEF B
  <1> QED
    BY <1>1, <1>2, Zenon DEF qc

\* Taking a view that waits.
LEMMA TakenOK ==
    ASSUME IInv, NEW r \in Replica, NEW h, h = th[r],
           NEW s, s = ForkChoice([h EXCEPT !.pm.newViews = Tail(@), !.proposedNo = @ + 1]),
           NEW pm, pm = [h.pm EXCEPT !.newViews = Tail(@)],
           NEW qc, qc = [h.highQC EXCEPT !.view = h.pm.curView - 1]
    PROVE  Taken(h, s, pm, qc)
  <1> DEFINE no == h.proposedNo + 1
  <1>1. ReplicaOK(h, r, proposals, cast) /\ h.pm \in PacemakerState
    BY Zenon DEF IInv, ReplicaOK, PacemakerOK
  <1> DEFINE u == [h EXCEPT !.pm.newViews = Tail(@), !.proposedNo = @ + 1]
  <1>2. /\ DOMAIN u = DOMAIN h
        /\ u.pm = pm /\ u.bc = h.bc /\ u.preferredView = h.preferredView
        /\ u.bufferedBlocks = h.bufferedBlocks /\ u.pending = h.pending
        /\ u.localTmo = h.localTmo /\ u.proposedNo = no
        /\ u.highQC = h.highQC /\ u.bufferedQCs = h.bufferedQCs
    BY <1>1, Zenon DEF ReplicaOK
  <1>3. pm.curView = h.pm.curView
    BY <1>1, Zenon DEF PacemakerState
  <1>4. s = ForkChoice(u)
    BY Zenon
  <1> HIDE DEF u, no
  <1>5. [u.highQC EXCEPT !.view = u.pm.curView - 1] = qc
    BY <1>2, <1>3, Zenon
  <1>6. PICK B : /\ s = [u EXCEPT !.highQC = qc, !.bufferedQCs = B]
                 /\ \A q \in B : q \in u.bufferedQCs \/ q = qc
    BY <1>4, <1>5, ForkChoiceFields, Zenon
  <1>7. DOMAIN u = {"pm", "bc", "preferredView", "highQC", "shared", "bufferedQCs",
                    "bufferedBlocks", "pending", "localTmo", "proposedNo", "panicked"}
    BY <1>1, <1>2, Zenon DEF ReplicaOK
  <1>8. /\ DOMAIN s = DOMAIN u
        /\ s.pm = u.pm /\ s.bc = u.bc /\ s.preferredView = u.preferredView
        /\ s.bufferedBlocks = u.bufferedBlocks /\ s.pending = u.pending
        /\ s.localTmo = u.localTmo /\ s.proposedNo = u.proposedNo
        /\ s.highQC = qc /\ s.bufferedQCs = B
    BY <1>6, <1>7, Zenon
  <1> QED
    BY <1>2, <1>6, <1>8, Zenon DEF Taken, no

\* The block that a leader makes in a view that waits: the only one of its view,
\* on a certified block of an earlier view.
LEMMA ProposeOK ==
    ASSUME IInv, NEW r \in Replica, th[r].pm.newViews # << >>,
           NEW s, Taken(th[r], s, [th[r].pm EXCEPT !.newViews = Tail(@)],
                        [th[r].highQC EXCEPT !.view = th[r].pm.curView - 1])
    PROVE  LET b == MakeBlock(Head(th[r].pm.newViews), s.highQC, r, s.proposedNo)
               P == proposals \union {b}
           IN  /\ TwoChainOK(P, cast)
               /\ ProposerOf(b) = r
               /\ QCOf(b).view + 1 = s.pm.curView
               /\ ReplicaOK(s, r, P, cast)
               /\ s.pm.curView = th[r].pm.curView
  <1> DEFINE h  == th[r]
             nv == h.pm.newViews
             pm == [th[r].pm EXCEPT !.newViews = Tail(@)]
             qc == [th[r].highQC EXCEPT !.view = th[r].pm.curView - 1]
             no == h.proposedNo + 1
             b  == MakeBlock(Head(nv), s.highQC, r, s.proposedNo)
             P  == proposals \union {b}
  <1>1. /\ ReplicaOK(h, r, proposals, cast) /\ TwoChainOK(proposals, cast)
        /\ h.pm \in PacemakerState /\ h.pm.curView \in Nat /\ h.proposedNo \in Nat
    BY Zenon DEF IInv, ReplicaOK, PacemakerOK, PacemakerState
  <1>2. /\ qc \in QC /\ qc.view = h.pm.curView - 1
        /\ Certifies(qc, proposals, cast)
        /\ qc.id = ZeroID \/ ViewOf(qc.id) < nv[1]
    BY ForkChoiceOK, Zenon
  <1>3. /\ DOMAIN s = DOMAIN h
        /\ s.pm = pm /\ s.bc = h.bc /\ s.preferredView = h.preferredView
        /\ s.bufferedBlocks = h.bufferedBlocks /\ s.pending = h.pending
        /\ s.localTmo = h.localTmo /\ s.proposedNo = no
        /\ s.highQC = qc
        /\ \A q \in s.bufferedQCs : q \in h.bufferedQCs \/ q = qc
    BY Zenon DEF Taken
  <1> HIDE DEF qc, pm
  <1>4. no \in Nat
    BY <1>1
  <1>5. b = MakeBlock(Head(nv), qc, r, no)
    BY <1>3, Zenon
  <1>6. NewBlock(b, r, nv, qc, pm)
    <2>1. NewBlock(MakeBlock(Head(nv), qc, r, no), r, nv, qc, pm)
      BY <1>2, <1>4, NewBlockOK, Zenon DEF pm
    <2> HIDE DEF b
    <2> QED
      BY <1>5, <2>1, Zenon
  <1> HIDE DEF b, nv, no
  <1>7. /\ b \in Block /\ ViewOf(b) = nv[1] /\ ProposerOf(b) = r
        /\ PrevID(b) = qc.id /\ QCOf(b) = qc
        /\ PacemakerOK(pm, r, P)
        /\ pm.curView = h.pm.curView
        /\ nv[1] >= 1 /\ nv[1] <= pm.curView
        /\ IsLeader(r, nv[1])
        /\ \A a \in proposals : ViewOf(a) # ViewOf(b)
    BY <1>6, Zenon DEF NewBlock
  <1> HIDE DEF h
  <1>8. /\ QCOf(b).view \in Nat /\ QCOf(b).view + 1 = s.pm.curView
         /\ s.pm.curView = h.pm.curView
    <2> DEFINE k == h.pm.curView
               v == qc.view
    <2>1. k \in Nat /\ v \in Nat /\ v = k - 1
      BY <1>1, <1>2, Zenon DEF QC
    <2>2. QCOf(b).view = v /\ s.pm.curView = k
      BY <1>3, <1>7, Zenon
    <2> HIDE DEF k, v
    <2>3. v + 1 = k
      BY <2>1
    <2> QED
      BY <2>1, <2>2, <2>3, Zenon DEF k
  <1>9. Counting /\ cast \in SUBSET Vote /\ proposals \subseteq P
    BY <1>1, Zenon DEF TwoChainOK
  <1>10. TwoChainOK(P, cast)
    <2>1. ~SuperMajority(Voters(cast, b))
      <3>1. \A v \in cast : v.id \in proposals
        BY <1>1, Zenon DEF TwoChainOK
      <3>2. b \notin proposals
        BY <1>7, Zenon
      <3>3. ~(\E v \in cast : v.id = b)
        BY <3>1, <3>2, Zenon
      <3> QED
        BY <1>9, <3>3, CertifiedHasVote, Zenon
    <2>2. \A q : Certifies(q, proposals, cast) => Certifies(q, P, cast)
      BY <1>9, CertifiesMonotone, Zenon
    <2>3. QCOf(b).view + 1 >= ViewOf(b)
      BY <1>3, <1>7, <1>8, Zenon
    <2>4. \A x : (Linked(x, proposals) => Linked(x, P)) /\ (Ladder(x, proposals) => Ladder(x, P))
      BY <1>9, Zenon DEF Linked, Ladder
    <2>5. \A x \in P : /\ ViewOf(x) >= 1 /\ IsLeader(ProposerOf(x), ViewOf(x))
                       /\ QCOf(x).view + 1 >= ViewOf(x)
                       /\ Certifies(QCOf(x), P, cast)
                       /\ PrevID(x) = ZeroID \/ ViewOf(PrevID(x)) < ViewOf(x)
                       /\ SuperMajority(Voters(cast, x)) => Ladder(x, P)
      <3> TAKE x \in P
      <3>1. CASE x \in proposals
        BY <1>1, <2>2, <2>4, <3>1, Zenon DEF TwoChainOK
      <3>2. CASE x = b
        BY <1>2, <1>7, <2>1, <2>2, <2>3, <3>2, Zenon
      <3> QED
        BY <3>1, <3>2, Zenon
    <2>6. \A x, y \in P : ViewOf(x) = ViewOf(y) => x = y
      <3>1. \A x, y \in proposals : ViewOf(x) = ViewOf(y) => x = y
        BY <1>1, Zenon DEF TwoChainOK
      <3>2. \A x \in P : x \in proposals \/ x = b
        BY Zenon
      <3> TAKE x, y \in P
      <3> HAVE ViewOf(x) = ViewOf(y)
      <3>3. CASE x = b
        BY <1>7, <3>2, <3>3, Zenon
      <3>4. CASE y = b
        BY <1>7, <3>2, <3>4, Zenon
      <3> QED
        BY <3>1, <3>2, <3>3, <3>4, Zenon
    <2>7. \A v \in cast : /\ v.id \in P /\ v.view = ViewOf(v.id)
                          /\ ViewOf(v.id) >= 3 => Linked(v.id, P)
      BY <1>1, <1>9, <2>4, Zenon DEF TwoChainOK
    <2>8. P \subseteq Block /\ cast \subseteq Vote
      BY <1>1, <1>7, Zenon DEF TwoChainOK
    <2> QED
      BY <1>9, <2>5, <2>6, <2>7, <2>8, Zenon DEF TwoChainOK
  <1>11. ReplicaOK(s, r, P, cast)
    <2>1. \A q : Certifies(q, proposals, cast) => Certifies(q, P, cast)
      BY <1>9, CertifiesMonotone, Zenon
    <2>2. ForestStoreOK(s.bc, P, cast)
      <3>1. ForestStoreOK(h.bc, proposals, cast)
        BY <1>1, Zenon DEF ReplicaOK
      <3>2. \A d : OnTwoChain(d, proposals, cast) => OnTwoChain(d, P, cast)
        BY <1>9, CertifiesMonotone, Zenon
      <3>3. ForestStoreOK(h.bc, P, cast)
        BY <1>9, <3>1, <3>2, Zenon DEF ForestStoreOK
      <3> QED
        BY <1>3, <3>3, Zenon
    <2>3. /\ s.highQC \in QC /\ Certifies(s.highQC, P, cast)
          /\ s.bufferedQCs \subseteq QC /\ \A q \in s.bufferedQCs : Certifies(q, P, cast)
      <3>1. h.bufferedQCs \subseteq QC /\ \A q \in h.bufferedQCs : Certifies(q, proposals, cast)
        BY <1>1, Zenon DEF ReplicaOK
      <3> QED
        BY <1>2, <1>3, <2>1, <3>1, Zenon
    <2>4. s.bufferedBlocks \subseteq Others(r, P) /\ s.pending \in Others(r, P) \union {ZeroID}
      BY <1>1, <1>3, <1>9, Zenon DEF ReplicaOK, Others
    <2>5. /\ DOMAIN h = {"pm", "bc", "preferredView", "highQC", "shared", "bufferedQCs",
                         "bufferedBlocks", "pending", "localTmo", "proposedNo", "panicked"}
          /\ h.preferredView \in Nat /\ h.localTmo \in Nat \union {NoTimeout}
      BY <1>1, Zenon DEF ReplicaOK
    <2>6. PacemakerOK(s.pm, r, P) /\ s.proposedNo \in Nat
      BY <1>3, <1>4, <1>7, Zenon
    <2> QED
      BY <1>3, <2>2, <2>3, <2>4, <2>5, <2>6, Zenon DEF ReplicaOK
  <1>12. /\ TwoChainOK(P, cast) /\ ProposerOf(b) = r /\ QCOf(b).view + 1 = s.pm.curView
         /\ ReplicaOK(s, r, P, cast) /\ s.pm.curView = h.pm.curView
    BY <1>7, <1>8, <1>10, <1>11, Zenon
  <1> QED
    BY <1>12, Zenon DEF P, b, nv, h

-----------------------------------------------------------------------------
(* The steps *)

\* proposeBlock makes the only block of its view.
LEMMA ProcessNewViewOK ==
    ASSUME IInv, NEW r \in Replica, ProcessNewView(r)
    PROVE  IInv' /\ Advances
  <1> DEFINE h == th[r]
             pm == [th[r].pm EXCEPT !.newViews = Tail(@)]
             qc == [th[r].highQC EXCEPT !.view = th[r].pm.curView - 1]
             s == ForkChoice([th[r] EXCEPT !.pm.newViews = Tail(@), !.proposedNo = @ + 1])
             b == MakeBlock(Head(th[r].pm.newViews), s.highQC, r, s.proposedNo)
             P == proposals \union {b}
  <1>1. /\ th[r].pm.newViews # << >>
        /\ proposals' = P
        /\ blockMsgs' = blockMsgs \union {<<to, b>> : to \in Replica \ {r}}
        /\ ProcessBlock(r, s, b)
    BY Zenon DEF ProcessNewView
  <1>2. tmoMsgs' = tmoMsgs /\ heldVotes' = heldVotes /\ heldTmos' = heldTmos /\ fired' = fired
    BY Zenon DEF ProcessNewView
  <1>3. /\ TwoChainOK(P, cast)
        /\ ProposerOf(b) = r
        /\ QCOf(b).view + 1 = s.pm.curView
        /\ ReplicaOK(s, r, P, cast)
        /\ s.pm.curView = th[r].pm.curView
    <2>1. Taken(h, s, pm, qc)
      BY TakenOK, Zenon
    <2> HIDE DEF s
    <2> QED
      BY <1>1, <2>1, ProposeOK, Zenon
  <1>4. P = proposals \union {b}
    BY Zenon
  <1> HIDE DEF b, P, s
  <1>5. /\ b \in proposals' /\ proposals \subseteq proposals'
        /\ \A x \in proposals' \ proposals : ProposerOf(x) = r
    BY <1>1, <1>3, <1>4, Zenon
  <1>6. blockMsgs' \subseteq Replica \X proposals'
    BY <1>1, <1>5 DEF IInv, MessagesOK
  <1>7. \A m \in blockMsgs' : ProposerOf(m[2]) # m[1]
    <2> TAKE m \in blockMsgs'
    <2>1. CASE m \in blockMsgs
      BY <2>1, Zenon DEF IInv, MessagesOK
    <2>2. CASE m \notin blockMsgs
      <3>1. PICK to \in Replica \ {r} : m = <<to, b>>
        BY <1>1, <2>2, Zenon
      <3>2. m[1] = to /\ m[2] = b
        BY <3>1, Zenon
      <3> QED
        BY <1>3, <3>2, Zenon
    <2> QED
      BY <2>1, <2>2, Zenon
  <1>8. ReplicaOK(s, r, proposals', cast) /\ TwoChainOK(proposals', cast)
    BY <1>1, <1>3, Zenon
  <1> QED
    BY <1>1, <1>2, <1>3, <1>5, <1>6, <1>7, <1>8, BlockStep, Zenon

\* The block of another replica.
LEMMA HandleBlockOK ==
    ASSUME IInv, NEW r \in Replica, HandleBlock(r)
    PROVE  IInv' /\ Advances
  <1>1. PICK m \in blockMsgs : /\ m[1] = r
                               /\ blockMsgs' = blockMsgs \ {m}
                               /\ ProcessBlock(r, th[r], m[2])
    BY Zenon DEF HandleBlock
  <1>2. /\ proposals' = proposals
        /\ tmoMsgs' = tmoMsgs /\ heldVotes' = heldVotes /\ heldTmos' = heldTmos /\ fired' = fired
    BY Zenon DEF HandleBlock
  <1>3. /\ m[2] \in proposals' /\ ProposerOf(m[2]) # r
        /\ blockMsgs' \subseteq Replica \X proposals'
        /\ \A x \in blockMsgs' : ProposerOf(x[2]) # x[1]
    BY <1>1, <1>2, Zenon DEF IInv, MessagesOK
  <1>4. ReplicaOK(th[r], r, proposals', cast) /\ TwoChainOK(proposals', cast)
    BY <1>2, Zenon DEF IInv
  <1>5. proposals \subseteq proposals' /\ \A x \in proposals' \ proposals : ProposerOf(x) = r
    BY <1>2, Zenon
  <1> QED
    BY <1>1, <1>2, <1>3, <1>4, <1>5, BlockStep, Zenon

\* The nested call for a buffered block.
LEMMA ProcessPendingOK ==
    ASSUME IInv, NEW r \in Replica, ProcessPending(r)
    PROVE  IInv' /\ Advances
  <1> DEFINE h == th[r]
             s == [h EXCEPT !.pending = ZeroID]
             b == h.pending
             B == h.bufferedBlocks
  <1>1. b # ZeroID /\ ProcessBlock(r, s, b)
    BY Zenon DEF ProcessPending
  <1>2. /\ proposals' = proposals /\ blockMsgs' = blockMsgs
        /\ tmoMsgs' = tmoMsgs /\ heldVotes' = heldVotes /\ heldTmos' = heldTmos /\ fired' = fired
    BY Zenon DEF ProcessPending
  <1>3. ReplicaOK(h, r, proposals, cast) /\ TwoChainOK(proposals, cast)
    BY Zenon DEF IInv
  <1>4. b \in Others(r, proposals) /\ B \in SUBSET Others(r, proposals)
    BY <1>1, <1>3, Zenon DEF ReplicaOK
  <1>5. s = [h EXCEPT !.bufferedBlocks = B, !.pending = ZeroID]
    BY <1>3, Zenon DEF ReplicaOK
  <1>6. s.pm = h.pm
    BY <1>3, Zenon DEF ReplicaOK
  <1>7. ReplicaOK(s, r, proposals', cast) /\ s.pm.curView = h.pm.curView
    <2> DEFINE t == [h EXCEPT !.bufferedBlocks = B, !.pending = ZeroID]
    <2>1. ZeroID \in Others(r, proposals) \union {ZeroID}
      BY Zenon
    <2> HIDE DEF B, h
    <2>2. StepOK(h, t, r, proposals, cast)
      BY <1>3, <1>4, <2>1, SetBlocks, Zenon
    <2> QED
      BY <1>2, <1>5, <1>6, <2>2, Zenon DEF StepOK
  <1>8. b \in proposals' /\ ProposerOf(b) # r /\ TwoChainOK(proposals', cast)
    BY <1>2, <1>3, <1>4, Zenon DEF Others
  <1>9. /\ blockMsgs' \subseteq Replica \X proposals'
        /\ \A m \in blockMsgs' : ProposerOf(m[2]) # m[1]
    BY <1>2, Zenon DEF IInv, MessagesOK
  <1>10. proposals \subseteq proposals' /\ \A x \in proposals' \ proposals : ProposerOf(x) = r
    BY <1>2, Zenon
  <1> HIDE DEF s, b
  <1> QED
    BY <1>1, <1>2, <1>7, <1>8, <1>9, <1>10, BlockStep, Zenon

\* The first transaction takes the leader of view 1 to view 1.
LEMMA HandleTxnOK ==
    ASSUME IInv, NEW r \in Replica, HandleTxn(r)
    PROVE  IInv' /\ Advances
  <1> DEFINE t == [th[r] EXCEPT !.pm = AdvanceView(@, r, 0)]
  <1>1. th' = [th EXCEPT ![r] = t] /\ proposals' = proposals /\ cast' = cast
    BY Zenon DEF HandleTxn, history
  <1>2. ReplicaOK(th[r], r, proposals, cast) /\ TwoChainOK(proposals, cast)
    BY Zenon DEF IInv
  <1>3. StepOK(th[r], t, r, proposals, cast)
    BY <1>2, EnterView, Zenon
  <1>4. MessagesOK'
    BY Zenon DEF HandleTxn, IInv, MessagesOK, history, network
  <1> HIDE DEF t
  <1> QED
    BY <1>1, <1>3, <1>4, QuietStep, Zenon

\* A step that changes messages only.
LEMMA MessageStep ==
    ASSUME IInv, th' = th, proposals' = proposals, cast' = cast, MessagesOK'
    PROVE  IInv' /\ Advances
  <1>1. IInv'
    BY Zenon DEF IInv
  <1>2. \A q \in Replica : th'[q].pm.curView >= th[q].pm.curView
    BY CurView DEF IInv
  <1> QED
    BY <1>1, <1>2, Zenon DEF Advances

\* A vote that arrives.
LEMMA HandleVoteOK ==
    ASSUME IInv, NEW r \in Replica, HandleVote(r)
    PROVE  IInv' /\ Advances
  <1>1. MessagesOK'
    BY Zenon DEF HandleVote, IInv, MessagesOK, history
  <1>2. th' = th /\ proposals' = proposals /\ cast' = cast
    BY Zenon DEF HandleVote, history
  <1> QED
    BY <1>1, <1>2, MessageStep, Zenon

\* A timeout that arrives.
LEMMA HandleTmoOK ==
    ASSUME IInv, NEW r \in Replica, HandleTmo(r)
    PROVE  IInv' /\ Advances
  <1>1. MessagesOK'
    BY Zenon DEF HandleTmo, IInv, MessagesOK, history
  <1>2. th' = th /\ proposals' = proposals /\ cast' = cast
    BY Zenon DEF HandleTmo, history
  <1> QED
    BY <1>1, <1>2, MessageStep, Zenon

\* A vote that the event loop takes.
LEMMA VoteEventOK ==
    ASSUME IInv, NEW r \in Replica, VoteEvent(r)
    PROVE  IInv' /\ Advances
  <1>1. PICK vote \in heldVotes : /\ heldVotes' = heldVotes \ {vote}
                                 /\ th' = [th EXCEPT ![r] = ProcessVote(@, r, vote)]
    BY Zenon DEF VoteEvent
  <1>2. ReplicaOK(th[r], r, proposals, cast) /\ TwoChainOK(proposals, cast) /\ vote \in cast
    BY Zenon DEF IInv, MessagesOK
  <1> DEFINE t == ProcessVote(th[r], r, vote)
  <1>3. StepOK(th[r], t, r, proposals, cast)
    BY <1>2, ProcessVoteOK, Zenon
  <1>4. proposals' = proposals /\ cast' = cast
    BY Zenon DEF VoteEvent, history
  <1>5. th' = [th EXCEPT ![r] = t]
    BY <1>1, Zenon
  <1>6. MessagesOK'
    BY <1>1, Zenon DEF VoteEvent, IInv, MessagesOK, history
  <1> HIDE DEF t
  <1> QED
    BY <1>3, <1>4, <1>5, <1>6, QuietStep, Zenon

\* A timeout that the event loop takes.
LEMMA TmoEventOK ==
    ASSUME IInv, NEW r \in Replica, TmoEvent(r)
    PROVE  IInv' /\ Advances
  <1>1. PICK m \in heldTmos : /\ heldTmos' = heldTmos \ {m}
                             /\ th' = [th EXCEPT ![r] = ProcessRemoteTmo(@, r, m[2])]
    BY Zenon DEF TmoEvent
  <1>2. ReplicaOK(th[r], r, proposals, cast) /\ TwoChainOK(proposals, cast) /\ m[2] \in TMO
    BY Zenon DEF IInv, MessagesOK
  <1> DEFINE t == ProcessRemoteTmo(th[r], r, m[2])
  <1>3. StepOK(th[r], t, r, proposals, cast)
    BY <1>2, ProcessRemoteTmoOK, Zenon
  <1>4. proposals' = proposals /\ cast' = cast
    BY Zenon DEF TmoEvent, history
  <1>5. th' = [th EXCEPT ![r] = t]
    BY <1>1, Zenon
  <1>6. MessagesOK'
    BY <1>1, Zenon DEF TmoEvent, IInv, MessagesOK, history
  <1> HIDE DEF t
  <1> QED
    BY <1>3, <1>4, <1>5, <1>6, QuietStep, Zenon

\* The view that the timer's goroutine has read is no part of the other state.
LEMMA SetLocalTmo ==
    ASSUME NEW P, NEW C, NEW r, NEW s, ReplicaOK(s, r, P, C),
           NEW v \in Nat \union {NoTimeout}
    PROVE  StepOK(s, [s EXCEPT !.localTmo = v], r, P, C)
  <1> DEFINE t == [s EXCEPT !.localTmo = v]
  <1>1. /\ DOMAIN t = DOMAIN s
        /\ t.pm = s.pm /\ t.bc = s.bc /\ t.preferredView = s.preferredView
        /\ t.highQC = s.highQC /\ t.bufferedQCs = s.bufferedQCs
        /\ t.bufferedBlocks = s.bufferedBlocks /\ t.pending = s.pending
        /\ t.localTmo = v /\ t.proposedNo = s.proposedNo
    BY Zenon DEF ReplicaOK
  <1> HIDE DEF t
  <1>2. ReplicaOK(t, r, P, C)
    BY <1>1, Zenon DEF ReplicaOK
  <1>3. t.pm.curView >= s.pm.curView
    BY <1>1, CurView
  <1> QED
    BY <1>2, <1>3, Zenon DEF StepOK, t

\* The view timer.
LEMMA TimerFiresOK ==
    ASSUME IInv, NEW r \in Replica, TimerFires(r)
    PROVE  IInv' /\ Advances
  <1> DEFINE v == th[r].pm.curView
             t == [th[r] EXCEPT !.localTmo = v]
  <1>1. th' = [th EXCEPT ![r] = t] /\ proposals' = proposals /\ cast' = cast
    BY Zenon DEF TimerFires
  <1>2. ReplicaOK(th[r], r, proposals, cast)
    BY Zenon DEF IInv
  <1>3. v \in Nat
    BY <1>2, CurView, Zenon
  <1>4. MessagesOK'
    BY <1>3 DEF TimerFires, IInv, MessagesOK, network
  <1> HIDE DEF v
  <1>5. StepOK(th[r], t, r, proposals, cast)
    BY <1>2, <1>3, SetLocalTmo, Zenon
  <1> HIDE DEF t
  <1> QED
    BY <1>1, <1>4, <1>5, QuietStep, Zenon

\* ProcessLocalTmo: the next view is skipped and the others are told.
LEMMA ProcessLocalTmoOK ==
    ASSUME IInv, NEW r \in Replica, ProcessLocalTmo(r)
    PROVE  IInv' /\ Advances
  <1> DEFINE h   == th[r]
             tmo == [view |-> h.localTmo + 1, node |-> r]
             s0  == [h EXCEPT !.localTmo = NoTimeout]
             s1  == [h EXCEPT !.localTmo = NoTimeout, !.pm = AdvanceView(@, r, tmo.view)]
             t   == ProcessRemoteTmo(s1, r, tmo)
  <1>1. /\ h.localTmo # NoTimeout
        /\ tmoMsgs' = tmoMsgs \union {<<to, tmo>> : to \in Replica \ {r}}
        /\ th' = [th EXCEPT ![r] = t]
    BY Zenon DEF ProcessLocalTmo
  <1>2. /\ proposals' = proposals /\ cast' = cast /\ fired' = fired
        /\ blockMsgs' = blockMsgs /\ voteMsgs' = voteMsgs
        /\ heldVotes' = heldVotes /\ heldTmos' = heldTmos
    BY Zenon DEF ProcessLocalTmo, history
  <1>3. ReplicaOK(h, r, proposals, cast) /\ TwoChainOK(proposals, cast)
    BY Zenon DEF IInv
  <1>4. h.localTmo \in Nat
    BY <1>1, <1>3, Zenon DEF ReplicaOK
  <1>5. tmo \in TMO /\ tmo.view \in Nat
    BY <1>4 DEF TMO
  <1>6. StepOK(h, s0, r, proposals, cast)
    BY <1>3, SetLocalTmo, Zenon
  <1> HIDE DEF tmo
  <1>7. s1 = [s0 EXCEPT !.pm = AdvanceView(@, r, tmo.view)]
    BY <1>3, Zenon DEF ReplicaOK
  <1> HIDE DEF h, s0, s1, t
  <1>8. ReplicaOK(s0, r, proposals, cast)
    BY <1>6, Zenon DEF StepOK
  <1>9. StepOK(s0, s1, r, proposals, cast)
    BY <1>3, <1>5, <1>7, <1>8, EnterView, Zenon
  <1>10. StepOK(h, s1, r, proposals, cast) /\ ReplicaOK(s1, r, proposals, cast)
    BY <1>3, <1>6, <1>9, StepOKTransitive, Zenon DEF StepOK
  <1>11. StepOK(s1, t, r, proposals, cast)
    BY <1>3, <1>5, <1>10, ProcessRemoteTmoOK, Zenon DEF t
  <1>12. StepOK(h, t, r, proposals, cast)
    BY <1>3, <1>10, <1>11, StepOKTransitive, Zenon
  <1>13. MessagesOK'
    <2>1. tmoMsgs' \subseteq Replica \X TMO
      BY <1>1, <1>5 DEF IInv, MessagesOK
    <2> QED
      BY <1>2, <2>1, Zenon DEF IInv, MessagesOK
  <1> QED
    BY <1>1, <1>2, <1>12, <1>13, QuietStep, Zenon DEF h

-----------------------------------------------------------------------------
(* The invariant *)

\* Every step keeps the invariant.
LEMMA NextIInv ==
    ASSUME IInv, [Next]_vars
    PROVE  IInv' /\ Advances
  <1>1. CASE Next
    <2>1. PICK r \in Replica : \/ HandleTxn(r) \/ ProcessNewView(r) \/ HandleBlock(r)
                               \/ ProcessPending(r) \/ HandleVote(r) \/ VoteEvent(r)
                               \/ HandleTmo(r) \/ TmoEvent(r)
                               \/ TimerFires(r) \/ ProcessLocalTmo(r)
      BY <1>1, Zenon DEF Next
    <2> QED
      BY <2>1, HandleTxnOK, ProcessNewViewOK, HandleBlockOK, ProcessPendingOK,
         HandleVoteOK, VoteEventOK, HandleTmoOK, TmoEventOK, TimerFiresOK, ProcessLocalTmoOK, Zenon
  <1>2. CASE UNCHANGED vars
    <2>1. /\ th' = th /\ proposals' = proposals /\ blockMsgs' = blockMsgs
          /\ cast' = cast /\ voteMsgs' = voteMsgs /\ tmoMsgs' = tmoMsgs
          /\ heldVotes' = heldVotes /\ heldTmos' = heldTmos /\ fired' = fired
      BY <1>2, Zenon DEF vars, history, network
    <2>2. MessagesOK'
      BY <2>1, Zenon DEF IInv, MessagesOK
    <2> QED
      BY <2>1, <2>2, MessageStep, Zenon
  <1> QED
    BY <1>1, <1>2, Zenon

\* Two blocks on the chain of a third do not conflict.
LEMMA CommonExtension ==
    ASSUME NEW S, NEW s \in Seq(S), NEW t \in Seq(S), NEW u \in Seq(S),
           Extends(u, s), Extends(u, t), Len(s) <= Len(t)
    PROVE  Extends(t, s)
  <1> DEFINE m == Len(s)
             n == Len(t)
  <1>1. m \in Nat /\ n \in Nat /\ Len(u) \in Nat /\ m <= n /\ n <= Len(u)
    BY DEF Extends
  <1>2. SubSeq(u, 1, m) = s /\ SubSeq(u, 1, n) = t
    BY Zenon DEF Extends
  <1>3. \A i \in 1..n : u[i] \in S
    BY <1>1
  <1>4. \A i \in 1..m : t[i] \in S
    BY <1>1
  <1>5. Len(s) = m
    BY Zenon
  <1> HIDE DEF m, n
  <1>6. \A i \in 1..n : t[i] = u[i]
    <2>1. \A i \in 1..(n - 1 + 1) : SubSeq(u, 1, n)[i] = u[1 + i - 1]
      BY <1>1, <1>3
    <2> QED
      BY <1>1, <1>2, <2>1
  <1>7. \A i \in 1..m : s[i] = u[i]
    <2>1. \A i \in 1..m : u[i] \in S
      BY <1>1, <1>3
    <2>2. \A i \in 1..(m - 1 + 1) : SubSeq(u, 1, m)[i] = u[1 + i - 1]
      BY <1>1, <2>1
    <2> QED
      BY <1>1, <1>2, <2>2
  <1>8. /\ SubSeq(t, 1, m) \in Seq(S)
        /\ Len(SubSeq(t, 1, m)) = m
        /\ \A i \in 1..m : SubSeq(t, 1, m)[i] = t[i]
    BY <1>1, <1>4
  <1>9. SubSeq(t, 1, m) = s
    <2>1. \A i \in 1..m : SubSeq(t, 1, m)[i] = s[i]
      BY <1>1, <1>6, <1>7, <1>8
    <2> QED
      BY <1>5, <1>8, <2>1
  <1> QED
    BY <1>1, <1>5, <1>9, Zenon DEF Extends, n

\* Of two blocks on two-chains, the one on the earlier chain is on the later
\* chain too.
LEMMA TwoChainsMeet ==
    ASSUME NEW P, NEW C, TwoChainOK(P, C), NEW d \in Block, NEW e \in Block,
           NEW a \in P, Extends(PrevID(a), d), ViewOf(PrevID(a)) + 1 = ViewOf(a),
           NEW b \in P, Extends(PrevID(b), e), SuperMajority(Voters(C, b)),
           ViewOf(a) <= ViewOf(b)
    PROVE  ~Conflict(d, e)
  <1>1. /\ a \in Block /\ b \in Block /\ ViewOf(a) \in Nat /\ ViewOf(b) \in Nat
        /\ PrevID(a) \in BlockID /\ PrevID(b) \in BlockID /\ QCOf(a).id = PrevID(a)
    BY BlockType, Zenon DEF TwoChainOK
  <1>2. /\ a \in Seq(Header) /\ b \in Seq(Header) /\ d \in Seq(Header) /\ e \in Seq(Header)
        /\ PrevID(a) \in Seq(Header) /\ PrevID(b) \in Seq(Header)
    BY <1>1, Zenon DEF Block, BlockID
  <1>3. Len(d) \in Nat \ {0} /\ Len(e) \in Nat \ {0}
    BY BlockType, Zenon
  <1>4. PrevID(a) # ZeroID
    <2>1. Len(d) <= Len(PrevID(a)) /\ Len(<< >>) = 0
      BY Zenon DEF Extends
    <2> QED
      BY <1>3, <2>1 DEF ZeroID
  <1>5. PrevID(a) \in P
    BY <1>1, <1>4, Zenon DEF TwoChainOK, Certifies
  <1>6. ViewOf(PrevID(a)) >= 1 /\ ViewOf(PrevID(a)) \in Nat
    BY <1>5, BlockType, Zenon DEF TwoChainOK
  <1>7. ViewOf(a) \in 2..ViewOf(b)
    BY <1>1, <1>6
  <1>8. Ladder(b, P)
    BY Zenon DEF TwoChainOK
  <1>9. PICK c \in P : ViewOf(c) = ViewOf(a) /\ Extends(b, c)
    BY <1>7, <1>8, Zenon DEF Ladder
  <1>10. c = a
    BY <1>9, Zenon DEF TwoChainOK
  <1>11. Extends(a, PrevID(a)) /\ Extends(b, PrevID(b)) /\ Extends(b, a)
    BY <1>1, <1>9, <1>10, ExtendsAncestors, Zenon
  <1>12. Extends(a, d)
    BY <1>2, <1>11, ExtendsTransitive, Zenon
  <1>13. Extends(b, d)
    BY <1>2, <1>11, <1>12, ExtendsTransitive, Zenon
  <1>14. Extends(b, e)
    BY <1>2, <1>11, ExtendsTransitive, Zenon
  <1>15. Len(d) <= Len(e) \/ Len(e) <= Len(d)
    BY <1>3
  <1>16. Extends(e, d) \/ Extends(d, e)
    BY <1>2, <1>13, <1>14, <1>15, CommonExtension, Zenon
  <1> QED
    BY <1>16, Zenon DEF Conflict

-----------------------------------------------------------------------------
(* The theorems *)

\* The facts about finite sets that the lemmas rest on are used from here on only.
INSTANCE FiniteSetTheorems

\* What the lemmas assume about the sizes of finite sets holds.
LEMMA CountingHolds == Counting
  <1>1. SubsetSize
    BY FS_CardinalityType, FS_Subset, Zenon DEF SubsetSize
  <1>2. UnionSize
    BY FS_Union, Zenon DEF UnionSize
  <1>3. IntervalSize
    BY FS_Interval, Zenon DEF IntervalSize
  <1>4. SmallSize
    BY FS_EmptySet, FS_Singleton, Zenon DEF SmallSize
  <1> QED
    BY <1>1, <1>2, <1>3, <1>4, Zenon DEF Counting

\* The invariant holds in every state.
LEMMA Invariance == Spec => []IInv
  <1>1. Init => IInv
    BY CountingHolds, InitOK, Zenon
  <1>2. IInv /\ [Next]_vars => IInv'
    BY NextIInv, Zenon
  <1> QED
    BY <1>1, <1>2, PTL DEF Spec

\* Every field of every replica and every message has its type: the handlers of
\* tchs.go, pacemaker.go, forest.go and replica.go keep the state well formed.
THEOREM TypeCorrect == Spec => []TypeOK
  <1>1. ASSUME IInv PROVE TypeOK
    <2>1. proposals \subseteq Block /\ cast \subseteq Vote
      BY <1>1, Zenon DEF IInv, TwoChainOK
    <2>2. /\ blockMsgs \subseteq Replica \X Block /\ fired \subseteq Replica \X Nat
          /\ voteMsgs \subseteq Vote /\ heldVotes \subseteq Vote
          /\ tmoMsgs \subseteq Replica \X TMO /\ heldTmos \subseteq Replica \X TMO
      BY <1>1, <2>1, Zenon DEF IInv, MessagesOK
    <2>3. ASSUME NEW r \in Replica
          PROVE  /\ th[r].pm \in PacemakerState
                 /\ IsForest(th[r].bc.forest)
                 /\ th[r].bc.votes \subseteq BlockID \X Replica
                 /\ th[r].bc.committed \in Seq(Block)
                 /\ th[r].bc.forked \subseteq Block
                 /\ th[r].preferredView \in Nat
                 /\ th[r].highQC \in QC
                 /\ th[r].bufferedQCs \subseteq QC
                 /\ th[r].bufferedBlocks \subseteq Block
                 /\ th[r].pending \in BlockID
                 /\ th[r].localTmo \in Nat \union {NoTimeout}
                 /\ th[r].proposedNo \in Nat
      <3> DEFINE s == th[r]
      <3>1. ReplicaOK(s, r, proposals, cast)
        BY <1>1, Zenon DEF IInv
      <3>2. Others(r, proposals) \subseteq Block
        BY <2>1, Zenon DEF Others
      <3>3. Block \subseteq BlockID /\ ZeroID \in BlockID
        BY DEF Block, BlockID, ZeroID
      <3> HIDE DEF s
      <3>4. s.pm \in PacemakerState /\ ForestStoreOK(s.bc, proposals, cast)
        BY <3>1, Zenon DEF ReplicaOK, PacemakerOK
      <3>5. s.bufferedBlocks \subseteq Block /\ s.pending \in BlockID
        BY <3>1, <3>2, <3>3, Zenon DEF ReplicaOK
      <3> QED
        BY <3>1, <3>4, <3>5, Zenon DEF ReplicaOK, ForestStoreOK, s
    <2> QED
      BY <2>1, <2>2, <2>3, Zenon DEF TypeOK
  <1> QED
    BY Invariance, <1>1, PTL

\* The voters of a block, as the properties and as the lemmas write them.
LEMMA SameVoters == \A id : VotersOf(id) = Voters(cast, id)
  BY Zenon DEF VotersOf, Voters

\* However often forkChoice overwrites the view of a QC (tchs.go:220), every QC
\* that a replica holds or that a block carries certifies a proposed block and
\* has no view below the view of that block.
THEOREM CertificatesAreBacked == Spec => []QCsAreBacked
  <1>1. ASSUME IInv PROVE QCsAreBacked
    <2> SUFFICES ASSUME NEW qc \in QCs
                 PROVE  \/ qc.id = ZeroID
                        \/ /\ qc.id \in proposals
                           /\ qc.view >= ViewOf(qc.id)
                           /\ SuperMajority(VotersOf(qc.id))
      BY Zenon DEF QCsAreBacked
    <2>1. \/ \E r \in Replica : qc = th[r].highQC \/ qc \in th[r].bufferedQCs
          \/ \E b \in proposals : qc = QCOf(b)
      BY Zenon DEF QCs
    <2>2. Certifies(qc, proposals, cast)
      BY <1>1, <2>1, Zenon DEF IInv, ReplicaOK, TwoChainOK
    <2> QED
      BY <2>2, SameVoters, Zenon DEF Certifies
  <1> QED
    BY Invariance, <1>1, PTL

\* Every block that a replica delivers (tchs.go:93, blockchain.go:76) lies below a
\* block with the votes of a super majority whose parent is in the view before.
THEOREM DeliveredOnTwoChains == Spec => []DeliveredOnTwoChain
  <1>1. ASSUME IInv PROVE DeliveredOnTwoChain
    <2> SUFFICES ASSUME NEW r \in Replica, NEW i \in DOMAIN th[r].bc.committed
                 PROVE  \E b \in proposals :
                            /\ Extends(PrevID(b), th[r].bc.committed[i])
                            /\ ViewOf(PrevID(b)) + 1 = ViewOf(b)
                            /\ SuperMajority(VotersOf(b))
      BY Zenon DEF DeliveredOnTwoChain
    <2>1. OnTwoChain(th[r].bc.committed[i], proposals, cast)
      BY <1>1, Zenon DEF IInv, ReplicaOK, ForestStoreOK
    <2> QED
      BY <2>1, SameVoters, Zenon DEF OnTwoChain
  <1> QED
    BY Invariance, <1>1, PTL

\* A block of view 3 or later gets a super majority only on the certified block
\* of the view before, whatever its QC claims (tchs.go:89-93).
THEOREM NoGaps == Spec => []CertifiedWithoutGaps
  <1>1. ASSUME IInv PROVE CertifiedWithoutGaps
    <2> SUFFICES ASSUME NEW b \in proposals, ViewOf(b) >= 3, SuperMajority(VotersOf(b))
                 PROVE  /\ ViewOf(PrevID(b)) + 1 = ViewOf(b)
                        /\ SuperMajority(VotersOf(PrevID(b)))
      BY Zenon DEF CertifiedWithoutGaps
    <2>1. SuperMajority(Voters(cast, b)) /\ TwoChainOK(proposals, cast)
      BY <1>1, SameVoters, Zenon DEF IInv
    <2>2. PICK v \in cast : v.id = b
      BY <2>1, CertifiedHasVote, Zenon DEF TwoChainOK
    <2>3. Linked(b, proposals)
      BY <2>1, <2>2, Zenon DEF TwoChainOK
    <2>4. ViewOf(PrevID(b)) + 1 = ViewOf(b) /\ SuperMajority(Voters(cast, PrevID(b)))
      BY <2>1, <2>3, LinkedParent, Zenon
    <2> QED
      BY <2>4, SameVoters, Zenon
  <1> QED
    BY Invariance, <1>1, PTL

\* "Rules dictate that all finalized blocks remain in a single chain."
\* (README.md, What is cBFT?)  Whatever the timers do, no two blocks that replicas
\* of two-chain HotStuff deliver conflict.
SingleChain ==
    \A r, q \in Replica :
        \A i \in DOMAIN th[r].bc.committed, j \in DOMAIN th[q].bc.committed :
            ~Conflict(th[r].bc.committed[i], th[q].bc.committed[j])

\* No two blocks that replicas of two-chain HotStuff deliver conflict, whatever
\* the timers and the messages do: a gap in the views stops the votes
\* (tchs.go:89-93), so every certified chain runs through all the views.
THEOREM DeliveredOnOneChain == Spec => []SingleChain
  <1>1. ASSUME IInv PROVE SingleChain
    <2> SUFFICES ASSUME NEW r \in Replica, NEW q \in Replica,
                        NEW i \in DOMAIN th[r].bc.committed,
                        NEW j \in DOMAIN th[q].bc.committed
                 PROVE  ~Conflict(th[r].bc.committed[i], th[q].bc.committed[j])
      BY Zenon DEF SingleChain
    <2> DEFINE d == th[r].bc.committed[i]
               e == th[q].bc.committed[j]
    <2>1. TwoChainOK(proposals, cast)
      BY <1>1, Zenon DEF IInv
    <2>2. \A p \in Replica : th[p].bc.committed \in Seq(Block)
      BY <1>1, Zenon DEF IInv, ReplicaOK, ForestStoreOK
    <2>3. d \in Block /\ e \in Block
      BY <2>2
    <2>4. OnTwoChain(d, proposals, cast) /\ OnTwoChain(e, proposals, cast)
      BY <1>1, Zenon DEF IInv, ReplicaOK, ForestStoreOK
    <2> HIDE DEF d, e
    <2>5. PICK a \in proposals : /\ Extends(PrevID(a), d)
                                 /\ ViewOf(PrevID(a)) + 1 = ViewOf(a)
                                 /\ SuperMajority(Voters(cast, a))
      BY <2>4, Zenon DEF OnTwoChain
    <2>6. PICK b \in proposals : /\ Extends(PrevID(b), e)
                                 /\ ViewOf(PrevID(b)) + 1 = ViewOf(b)
                                 /\ SuperMajority(Voters(cast, b))
      BY <2>4, Zenon DEF OnTwoChain
    <2>7. ViewOf(a) \in Nat /\ ViewOf(b) \in Nat
      BY <2>1, BlockType, Zenon DEF TwoChainOK
    <2>8. CASE ViewOf(a) <= ViewOf(b)
      BY <2>1, <2>3, <2>5, <2>6, <2>8, TwoChainsMeet, Zenon DEF d, e
    <2>9. CASE ViewOf(b) <= ViewOf(a)
      <3>1. ~Conflict(e, d)
        BY <2>1, <2>3, <2>5, <2>6, <2>9, TwoChainsMeet, Zenon
      <3> QED
        BY <3>1, Zenon DEF Conflict, d, e
    <2> QED
      BY <2>7, <2>8, <2>9
  <1> QED
    BY Invariance, <1>1, PTL

\* Once every replica is past a view for which no block has got a super majority,
\* no vote is ever cast again (tchs.go:89-93, 220, 300).
THEOREM SkippedViewsStall == Spec => SkipStalls
  <1>1. ASSUME IInv, [Next]_vars
        PROVE  \A v \in 3..(MaxView + 1) : Skipped(v) => Skipped(v)' /\ cast' = cast
    <2> SUFFICES ASSUME NEW v \in 3..(MaxView + 1), Skipped(v)
                 PROVE  Skipped(v)' /\ cast' = cast
      BY Zenon
    <2>1. IInv' /\ Advances /\ v \in Nat /\ v >= 3
      BY <1>1, NextIInv, BoundAssumption
    <2>2. TwoChainOK(proposals, cast)
      BY <1>1, Zenon DEF IInv
    <2>3. \A b : SuperMajority(Voters(cast, b)) =>
                    /\ b \in proposals /\ ViewOf(b) \in Nat /\ ViewOf(b) < v - 1
      <3> SUFFICES ASSUME NEW b, SuperMajority(Voters(cast, b))
                   PROVE  b \in proposals /\ ViewOf(b) \in Nat /\ ViewOf(b) < v - 1
        BY Zenon
      <3>1. PICK x \in cast : x.id = b
        BY <2>2, CertifiedHasVote, Zenon DEF TwoChainOK
      <3>2. b \in proposals /\ ViewOf(b) \in Nat
        BY <2>2, <3>1, BlockType, Zenon DEF TwoChainOK
      <3>3. ~(ViewOf(b) >= v - 1)
        BY <3>2, SameVoters, Zenon DEF Skipped
      <3> QED
        BY <2>1, <3>2, <3>3
    <2>4. \A q \in Replica : th[q].pm.curView >= v /\ th[q].pm.curView \in Nat
      BY <1>1, CurView, Zenon DEF Skipped, IInv
    <2>5. cast' = cast
      <3> SUFFICES ASSUME NEW x \in cast' \ cast PROVE FALSE
        BY <2>1, Zenon DEF Advances
      <3>1. PICK q \in Replica : ViewOf(x.id) >= th[q].pm.curView
        BY <2>1, Zenon DEF Advances
      <3>2. ViewOf(x.id) \in Nat
        BY <2>1, BlockType, Zenon DEF IInv, TwoChainOK
      <3>3. ViewOf(x.id) >= v
        BY <2>1, <2>4, <3>1, <3>2
      <3>4. /\ ViewOf(PrevID(x.id)) + 1 = ViewOf(x.id)
            /\ SuperMajority(Voters(cast, PrevID(x.id)))
        <4>1. ViewOf(x.id) >= 3
          BY <2>1, <3>2, <3>3
        <4> QED
          BY <2>1, <4>1, Zenon DEF Advances
      <3>5. ViewOf(PrevID(x.id)) \in Nat /\ ViewOf(PrevID(x.id)) < v - 1
        BY <2>3, <3>4, Zenon
      <3> QED
        BY <2>1, <3>2, <3>3, <3>4, <3>5
    <2>6. \A q \in Replica : th'[q].pm.curView >= v
      <3>1. \A q \in Replica : th'[q].pm.curView \in Nat
        BY <2>1, CurView, Zenon DEF IInv
      <3> QED
        BY <2>1, <2>4, <3>1 DEF Advances
    <2>7. \A b \in proposals' : ViewOf(b) >= v - 1 => ~SuperMajority(VotersOf(b)')
      <3>1. \A b : VotersOf(b)' = Voters(cast, b)
        BY <2>5, Zenon DEF VotersOf, Voters
      <3> QED
        BY <2>1, <2>3, <3>1
    <2> QED
      BY <2>5, <2>6, <2>7, Zenon DEF Skipped
  <1>2. IInv /\ [Next]_vars =>
            [\A v \in 3..(MaxView + 1) : Skipped(v) => Skipped(v)' /\ cast' = cast]_vars
    BY <1>1, Zenon
  <1> QED
    BY Invariance, <1>2, PTL DEF Spec, SkipStalls

=============================================================================

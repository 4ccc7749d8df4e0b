-------------------------- MODULE BlockChainProofs --------------------------
(***************************************************************************)
(* Facts about leaders, quorums, blocks, the block store and the queue of  *)
(* new views, for every number of replicas.                                *)
(***************************************************************************)
EXTENDS Pacemaker, TLAPS

-----------------------------------------------------------------------------
(* Counting *)

\* A subset of a finite set is finite and no larger.
SubsetSize ==
    \A T : IsFiniteSet(T) =>
        /\ Cardinality(T) \in Nat
        /\ \A S \in SUBSET T : IsFiniteSet(S) /\ Cardinality(S) <= Cardinality(T)

\* The size of a union.
UnionSize ==
    \A S, T : IsFiniteSet(S) /\ IsFiniteSet(T) =>
        Cardinality(S \union T) = Cardinality(S) + Cardinality(T) - Cardinality(S \intersect T)

\* The size of an interval.
IntervalSize ==
    \A m, n \in Int : /\ IsFiniteSet(m..n)
                      /\ Cardinality(m..n) = IF m > n THEN 0 ELSE n - m + 1

\* The size of a set of at most one element.
SmallSize ==
    /\ Cardinality({}) = 0
    /\ \A x : IsFiniteSet({x}) /\ Cardinality({x}) = 1

\* What the proofs use about finite sets.  The lemmas take it as a hypothesis, so
\* that they do not depend on a library of facts about finite sets; the modules that
\* state the theorems prove it (CountingHolds) before the first of them.
Counting == SubsetSize /\ UnionSize /\ IntervalSize /\ SmallSize

-----------------------------------------------------------------------------
(* Leaders *)

\* The two answers of the election agree: a replica considers itself the leader
\* of a view exactly if the votes of the view before are sent to it.
THEOREM LeaderAgreement ==
    ASSUME NEW r \in Replica, NEW view \in Nat, Sha1(view + 1) \in Nat
    PROVE  IsLeader(r, view) <=> FindLeaderFor(view) = r
  BY NAssumption, MasterAssumption
     DEF Replica, IsLeader, FindLeaderFor, RotationIsLeader, RotationFindLeaderFor

\* A view has at most one leader, whatever the hash.
LEMMA UniqueLeader ==
    ASSUME NEW r \in Replica, NEW q \in Replica, NEW view \in Nat,
           IsLeader(r, view), IsLeader(q, view)
    PROVE  r = q
  BY NAssumption, MasterAssumption DEF Replica, IsLeader, RotationIsLeader

-----------------------------------------------------------------------------
(* Quorums *)

\* The replicas are finitely many.
LEMMA ReplicaFinite ==
    ASSUME Counting
    PROVE  IsFiniteSet(Replica) /\ Cardinality(Replica) = N
  BY NAssumption DEF Replica, Counting, IntervalSize

\* The voters of a block are finitely many.
LEMMA VotersFinite ==
    ASSUME Counting, NEW A \in SUBSET Replica
    PROVE  IsFiniteSet(A) /\ Cardinality(A) \in Nat /\ Cardinality(A) <= N
  BY ReplicaFinite, Zenon DEF Counting, SubsetSize

\* More votes do not undo a super majority.
LEMMA SuperMajorityMonotone ==
    ASSUME Counting, NEW A, NEW B \in SUBSET Replica, A \subseteq B, SuperMajority(A)
    PROVE  SuperMajority(B)
  <1>1. IsFiniteSet(B) /\ Cardinality(B) \in Nat
    BY VotersFinite, Zenon
  <1>2. Cardinality(A) \in Nat /\ Cardinality(A) <= Cardinality(B)
    BY <1>1, Zenon DEF Counting, SubsetSize
  <1>3. (N * 2) \div 3 \in Nat
    BY NAssumption
  <1> QED
    BY <1>1, <1>2, <1>3 DEF SuperMajority

\* Two super majorities have more than a third of the replicas in common: a
\* replica besides the (N - 1) \div 3 that may be faulty.
LEMMA QuorumsMeet ==
    ASSUME Counting, NEW A \in SUBSET Replica, NEW B \in SUBSET Replica,
           SuperMajority(A), SuperMajority(B)
    PROVE  Cardinality(A \intersect B) > (N - 1) \div 3
  <1> DEFINE a == Cardinality(A)
             b == Cardinality(B)
             i == Cardinality(A \intersect B)
             u == Cardinality(A \union B)
             m == (N * 2) \div 3
             f == (N - 1) \div 3
  <1>1. /\ IsFiniteSet(A) /\ IsFiniteSet(B)
        /\ a \in Nat /\ b \in Nat /\ i \in Nat /\ u \in Nat /\ u <= N
    <2>1. A \intersect B \in SUBSET Replica /\ A \union B \in SUBSET Replica
      BY Zenon
    <2> QED
      BY <2>1, VotersFinite, Zenon
  <1>2. u = a + b - i
    BY <1>1, Zenon DEF Counting, UnionSize
  <1>3. a > m /\ b > m
    BY Zenon DEF SuperMajority
  <1>4. m \in Nat /\ 3 * m + 3 > N * 2
    BY NAssumption
  <1>5. f \in Nat /\ 3 * f <= N - 1
    BY NAssumption
  <1> HIDE DEF a, b, i, u, m, f
  <1>6. i > f
    BY <1>1, <1>2, <1>3, <1>4, <1>5, NAssumption
  <1> QED
    BY <1>6, Zenon DEF i, f

-----------------------------------------------------------------------------
(* Blocks *)

\* The accessors of a block, and its parent.
LEMMA BlockType ==
    ASSUME NEW b \in Block
    PROVE  /\ Len(b) \in Nat \ {0}
           /\ b[Len(b)] \in Header
           /\ ViewOf(b) \in Nat
           /\ ProposerOf(b) \in Replica
           /\ PrevID(b) \in BlockID
           /\ QCOf(b) \in QC
           /\ QCOf(b).id = PrevID(b)
  <1>1. b \in Seq(Header) /\ b # << >>
    BY Zenon DEF Block, BlockID, ZeroID
  <1>2. Len(b) \in Nat \ {0}
    BY <1>1
  <1>3. \A i \in 1..Len(b) : b[i] \in Header
    BY <1>1
  <1>4. SubSeq(b, 1, Len(b) - 1) \in Seq(Header)
    BY <1>2, <1>3
  <1>5. b[Len(b)] \in Header
    BY <1>2, <1>3
  <1> QED
    BY <1>2, <1>4, <1>5, Zenon
       DEF ViewOf, ProposerOf, PrevID, QCOf, QC, Header, BlockID

\* What MakeBlock makes.
LEMMA MakeBlockProperties ==
    ASSUME NEW view \in Nat, NEW qc \in QC, NEW r \in Replica, NEW no \in Nat
    PROVE  LET b == MakeBlock(view, qc, r, no)
           IN  /\ b \in Block
               /\ ViewOf(b) = view
               /\ ProposerOf(b) = r
               /\ PrevID(b) = qc.id
               /\ QCOf(b) = qc
  <1> DEFINE h == [view |-> view, qcView |-> qc.view, proposer |-> r, no |-> no]
             b == Append(qc.id, h)
  <1>1. h \in Header /\ qc.id \in Seq(Header) /\ qc = [view |-> qc.view, id |-> qc.id]
    BY Zenon DEF Header, QC, BlockID
  <1>2. b \in Seq(Header) /\ b # << >> /\ Len(b) = Len(qc.id) + 1 /\ b[Len(b)] = h
    BY <1>1
  <1>3. SubSeq(b, 1, Len(b) - 1) = qc.id
    <2>1. Len(qc.id) \in Nat /\ Len(b) - 1 = Len(qc.id)
      BY <1>1, <1>2
    <2>2. \A i \in 1..Len(qc.id) : b[i] = qc.id[i] /\ b[i] \in Header
      BY <1>1
    <2>3. /\ SubSeq(b, 1, Len(qc.id)) \in Seq(Header)
          /\ Len(SubSeq(b, 1, Len(qc.id))) = Len(qc.id)
          /\ \A i \in 1..Len(qc.id) : SubSeq(b, 1, Len(qc.id))[i] = qc.id[i]
      BY <2>1, <2>2
    <2> QED
      BY <1>1, <2>1, <2>3
  <1>4. MakeBlock(view, qc, r, no) = b
    BY Zenon DEF MakeBlock
  <1> HIDE DEF b
  <1>5. h.view = view /\ h.proposer = r /\ h.qcView = qc.view
    BY Zenon
  <1> HIDE DEF h
  <1> QED
    BY <1>1, <1>2, <1>3, <1>4, <1>5, Zenon
       DEF Block, BlockID, ZeroID, ViewOf, ProposerOf, PrevID, QCOf

\* The chain below a block: its ancestor at height h, whose parent is the
\* ancestor at height h - 1.
LEMMA Ancestors ==
    ASSUME NEW b \in Block, NEW h \in 1..Len(b)
    PROVE  /\ AtHeight(b, h) \in Block
           /\ AtHeight(b, Len(b)) = b
           /\ h < Len(b) => PrevID(AtHeight(b, h + 1)) = AtHeight(b, h)
  <1>1. b \in Seq(Header) /\ Len(b) \in Nat \ {0}
    BY BlockType, Zenon DEF Block, BlockID
  <1>2. \A k \in 1..Len(b) : /\ SubSeq(b, 1, k) \in Seq(Header)
                             /\ Len(SubSeq(b, 1, k)) = k
                             /\ \A i \in 1..k : SubSeq(b, 1, k)[i] = b[i]
    <2> TAKE k \in 1..Len(b)
    <2>1. \A i \in 1..k : b[i] \in Header
      BY <1>1
    <2> QED
      BY <1>1, <2>1
  <1>3. AtHeight(b, h) \in Block
    BY <1>1, <1>2 DEF AtHeight, Block, BlockID, ZeroID
  <1>4. AtHeight(b, Len(b)) = b
    BY <1>1 DEF AtHeight
  <1>5. ASSUME h < Len(b) PROVE PrevID(AtHeight(b, h + 1)) = AtHeight(b, h)
    <2> DEFINE c == SubSeq(b, 1, h + 1)
    <2>1. c \in Seq(Header) /\ Len(c) = h + 1 /\ \A i \in 1..(h + 1) : c[i] = b[i]
      BY <1>1, <1>2, <1>5
    <2>2. \A i \in 1..h : c[i] \in Header
      BY <2>1
    <2> HIDE DEF c
    <2>3. /\ SubSeq(c, 1, h) \in Seq(Header) /\ Len(SubSeq(c, 1, h)) = h
          /\ \A i \in 1..h : SubSeq(c, 1, h)[i] = c[i]
      BY <2>2, <1>1
    <2>4. SubSeq(c, 1, h) = SubSeq(b, 1, h)
      BY <2>1, <2>3, <1>2
    <2> QED
      BY <2>1, <2>4, <1>1 DEF c, PrevID, AtHeight
  <1> QED
    BY <1>3, <1>4, <1>5, Zenon

\* Extends is a partial order on sequences.
LEMMA ExtendsReflexive ==
    ASSUME NEW S, NEW s \in Seq(S)
    PROVE  Extends(s, s)
  BY DEF Extends

\* Extends is transitive.
LEMMA ExtendsTransitive ==
    ASSUME NEW S, NEW s \in Seq(S), NEW t \in Seq(S), NEW u \in Seq(S),
           Extends(t, s), Extends(u, t)
    PROVE  Extends(u, s)
  <1>1. Len(s) \in Nat /\ Len(t) \in Nat /\ Len(u) \in Nat
    OBVIOUS
  <1>2. Len(s) <= Len(t) /\ Len(t) <= Len(u)
        /\ SubSeq(t, 1, Len(s)) = s /\ SubSeq(u, 1, Len(t)) = t
    BY Zenon DEF Extends
  <1>3. /\ \A i \in 1..Len(s) : t[i] \in S /\ u[i] \in S
        /\ \A i \in 1..Len(t) : u[i] \in S
    BY <1>1, <1>2
  <1>4. \A i \in 1..Len(s) : s[i] = t[i]
    <2>1. \A i \in 1..(Len(s) - 1 + 1) : SubSeq(t, 1, Len(s))[i] = t[1 + i - 1]
      BY <1>1, <1>3
    <2> QED
      BY <1>1, <1>2, <2>1
  <1>5. \A i \in 1..Len(t) : t[i] = u[i]
    <2>1. \A i \in 1..(Len(t) - 1 + 1) : SubSeq(u, 1, Len(t))[i] = u[1 + i - 1]
      BY <1>1, <1>3
    <2> QED
      BY <1>1, <1>2, <2>1
  <1>6. /\ SubSeq(u, 1, Len(s)) \in Seq(S)
        /\ Len(SubSeq(u, 1, Len(s))) = Len(s)
        /\ \A i \in 1..Len(s) : SubSeq(u, 1, Len(s))[i] = u[i]
    BY <1>1, <1>3
  <1>7. SubSeq(u, 1, Len(s)) = s
    BY <1>1, <1>2, <1>4, <1>5, <1>6
  <1> QED
    BY <1>1, <1>2, <1>7 DEF Extends

-----------------------------------------------------------------------------
(* The store *)

\* The replicas that voted for block id, according to the set C of votes.
Voters(C, id) == {v.voter : v \in {x \in C : x.id = id}}

\* A QC certifies a block of P by votes of C, or is the initial one.
Backed(qc, P, C) ==
    \/ qc = InitialQC
    \/ /\ qc.id \in P
       /\ qc.view = ViewOf(qc.id)
       /\ SuperMajority(Voters(C, qc.id))

\* P is a set of blocks and C a set of votes for them, and the QC in each block
\* is backed by C.  Finite sets can be counted.
ChainOK(P, C) ==
    /\ Counting
    /\ P \subseteq Block
    /\ C \subseteq Vote
    /\ \A v \in C : v.id \in P /\ v.view = ViewOf(v.id)
    /\ \A b \in P : Backed(QCOf(b), P, C)

\* A store holds blocks of P at or above its pruning level and votes of C, and
\* everything it has delivered is certified by votes of C.
StoreOK(bc, P, C) ==
    /\ bc \in BlockChainState
    /\ bc.vertices \subseteq P
    /\ \A v \in bc.vertices : ViewOf(v) >= bc.lowestLevel
    /\ \A p \in bc.votes : p[2] \in Voters(C, p[1])
    /\ \A i \in DOMAIN bc.committed : SuperMajority(Voters(C, bc.committed[i]))

\* Voters are replicas.
LEMMA VotersInReplica ==
    ASSUME NEW C \in SUBSET Vote, NEW id
    PROVE  Voters(C, id) \in SUBSET Replica
  BY Zenon DEF Voters, Vote

\* More votes keep a super majority.
LEMMA VotersMonotone ==
    ASSUME Counting, NEW C, NEW D \in SUBSET Vote, C \subseteq D, NEW id,
           SuperMajority(Voters(C, id))
    PROVE  SuperMajority(Voters(D, id))
  <1>1. Voters(C, id) \subseteq Voters(D, id)
    BY Zenon DEF Voters
  <1> QED
    BY <1>1, VotersInReplica, SuperMajorityMonotone, Zenon

\* More blocks and votes keep a QC backed and a store correct.
LEMMA BackedMonotone ==
    ASSUME NEW P, NEW Q, P \subseteq Q, NEW C, NEW D \in SUBSET Vote, C \subseteq D,
           NEW qc, Backed(qc, P, C), Counting
    PROVE  Backed(qc, Q, D)
  BY VotersMonotone, Zenon DEF Backed

\* More blocks and votes keep a store correct.
LEMMA StoreMonotone ==
    ASSUME NEW P, NEW Q, P \subseteq Q, NEW C, NEW D \in SUBSET Vote, C \subseteq D,
           NEW bc, StoreOK(bc, P, C), Counting
    PROVE  StoreOK(bc, Q, D)
  <1>1. \A id : Voters(C, id) \subseteq Voters(D, id)
    BY Zenon DEF Voters
  <1> QED
    BY <1>1, VotersMonotone, Zenon DEF StoreOK

\* Quorum.Add: the store stays correct, and the QC it builds is backed.
LEMMA AddVoteOK ==
    ASSUME NEW P, NEW C, ChainOK(P, C), NEW bc, StoreOK(bc, P, C), NEW vote \in C
    PROVE  /\ StoreOK(AddVote(bc, vote), P, C)
           /\ AddVote(bc, vote).lowestLevel = bc.lowestLevel
           /\ AddVote(bc, vote).committed = bc.committed
           /\ QCFrom(vote) \in QC
           /\ IsBuilt(bc, vote) => Backed(QCFrom(vote), P, C)
  <1> DEFINE bc1 == AddVote(bc, vote)
  <1>1. vote \in Vote /\ vote.id \in P /\ vote.view = ViewOf(vote.id)
    BY Zenon DEF ChainOK
  <1>2. <<vote.id, vote.voter>> \in BlockID \X Replica
    BY <1>1, Zenon DEF Vote
  <1>3. vote.voter \in Voters(C, vote.id)
    BY Zenon DEF Voters
  <1>4. bc1 \in BlockChainState
    BY <1>2, Zenon DEF AddVote, StoreOK, BlockChainState
  <1>5. /\ bc1.vertices = bc.vertices
        /\ bc1.lowestLevel = bc.lowestLevel
        /\ bc1.committed = bc.committed
        /\ bc1.votes \subseteq bc.votes \union {<<vote.id, vote.voter>>}
    BY Zenon DEF AddVote, StoreOK, BlockChainState
  <1>6. \A p \in bc1.votes : p[2] \in Voters(C, p[1])
    BY <1>3, <1>5 DEF StoreOK
  <1>7. StoreOK(bc1, P, C)
    BY <1>4, <1>5, <1>6, Zenon DEF StoreOK
  <1>8. QCFrom(vote) \in QC /\ QCFrom(vote).id = vote.id /\ QCFrom(vote).view = vote.view
    BY <1>1, Zenon DEF QCFrom, QC, Vote
  <1>9. ASSUME IsBuilt(bc, vote) PROVE Backed(QCFrom(vote), P, C)
    <2>1. SuperMajority(VotersFor(bc1.votes, vote.id))
      BY <1>9, Zenon DEF IsBuilt
    <2>2. VotersFor(bc1.votes, vote.id) \subseteq Voters(C, vote.id)
      BY <1>6, Zenon DEF VotersFor
    <2>3. Voters(C, vote.id) \in SUBSET Replica
      BY VotersInReplica, Zenon DEF ChainOK
    <2>4. SuperMajority(Voters(C, vote.id))
      BY <2>1, <2>2, <2>3, SuperMajorityMonotone, Zenon DEF ChainOK
    <2> QED
      BY <1>1, <1>8, <2>4, Zenon DEF Backed
  <1> QED
    BY <1>5, <1>7, <1>8, <1>9, Zenon

\* AddBlock keeps the store correct and delivers nothing.
LEMMA AddBlockOK ==
    ASSUME NEW P, NEW C, ChainOK(P, C), NEW bc, StoreOK(bc, P, C), NEW b \in P
    PROVE  /\ StoreOK(AddBlock(bc, b), P, C)
           /\ AddBlock(bc, b).lowestLevel = bc.lowestLevel
           /\ AddBlock(bc, b).committed = bc.committed
  <1>1. b \in Block /\ ViewOf(b) \in Nat /\ bc.lowestLevel \in Nat
    BY BlockType, Zenon DEF ChainOK, StoreOK, BlockChainState
  <1>2. CASE ViewOf(b) < bc.lowestLevel
    BY <1>2, Zenon DEF AddBlock
  <1>3. CASE ~(ViewOf(b) < bc.lowestLevel)
    <2>1. AddBlock(bc, b) = [bc EXCEPT !.vertices = @ \union {b}]
      BY <1>3, Zenon DEF AddBlock
    <2>2. ViewOf(b) >= bc.lowestLevel
      BY <1>1, <1>3
    <2>3. AddBlock(bc, b) \in BlockChainState
      BY <1>1, <2>1 DEF StoreOK, BlockChainState
    <2>4. /\ AddBlock(bc, b).vertices = bc.vertices \union {b}
          /\ AddBlock(bc, b).lowestLevel = bc.lowestLevel
          /\ AddBlock(bc, b).votes = bc.votes
          /\ AddBlock(bc, b).committed = bc.committed
      BY <2>1, Zenon DEF StoreOK, BlockChainState
    <2> QED
      BY <2>2, <2>3, <2>4, Zenon DEF StoreOK
  <1> QED
    BY <1>2, <1>3, Zenon

\* The loop of CommitBlock visits an upper part of the chain of b: the heights
\* of the blocks it delivers are those it visits.
LEMMA DeliveredHeights ==
    ASSUME Counting, NEW bc, NEW b \in Block
    PROVE  LET H == CommitHeights(bc, b)
           IN  /\ Cardinality(H) \in Nat
               /\ \A i \in 1..Cardinality(H) : Len(b) + 1 - i \in H
  <1> DEFINE H == CommitHeights(bc, b)
             L == Len(b)
  <1>1. L \in Nat
    BY BlockType, Zenon
  <1>2. H \subseteq 1..L /\ \A h \in H : \A k \in h..L : k \in H
    BY <1>1 DEF CommitHeights
  <1> HIDE DEF H, L
  <1>3. IsFiniteSet(H) /\ Cardinality(H) \in Nat
    <2>1. IsFiniteSet(1..L)
      BY <1>1 DEF Counting, IntervalSize
    <2> QED
      BY <1>2, <2>1, Zenon DEF Counting, SubsetSize
  <1>4. ASSUME NEW i \in 1..Cardinality(H), L + 1 - i \notin H
        PROVE  FALSE
    <2> DEFINE j == L + 1 - i
    <2>1. j \in Int /\ i \in Nat
      BY <1>1, <1>3
    <2>2. \A h \in H : h \in (j + 1)..L
      BY <1>1, <1>2, <1>4, <2>1
    <2>3. IsFiniteSet((j + 1)..L) /\ Cardinality((j + 1)..L) = i - 1
      <3>1. j + 1 \in Int /\ L \in Int
        BY <1>1, <2>1
      <3>2. /\ IsFiniteSet((j + 1)..L)
            /\ Cardinality((j + 1)..L) = IF j + 1 > L THEN 0 ELSE L - (j + 1) + 1
        BY <3>1, Zenon DEF Counting, IntervalSize
      <3>3. (IF j + 1 > L THEN 0 ELSE L - (j + 1) + 1) = i - 1
        BY <1>1, <1>3
      <3> QED
        BY <3>2, <3>3
    <2>4. Cardinality(H) <= Cardinality((j + 1)..L)
      BY <2>2, <2>3, Zenon DEF Counting, SubsetSize
    <2> QED
      BY <1>1, <1>3, <2>1, <2>3, <2>4
  <1> QED
    BY <1>3, <1>4, Zenon DEF H, L

\* CommitBlock of a certified stored block: everything that is delivered is
\* certified, because the child of each delivered ancestor is stored and carries
\* its QC.  The pruning level and the ledger only grow.
LEMMA CommitBlockOK ==
    ASSUME NEW P, NEW C, ChainOK(P, C), NEW bc, StoreOK(bc, P, C),
           NEW b \in bc.vertices, SuperMajority(Voters(C, b))
    PROVE  /\ StoreOK(CommitBlock(bc, b), P, C)
           /\ CommitBlock(bc, b).lowestLevel >= bc.lowestLevel
           /\ Extends(CommitBlock(bc, b).committed, bc.committed)
  <1> DEFINE H == CommitHeights(bc, b)
             delivered == CommittedBlocks(bc, b)
             bc1 == CommitBlock(bc, b)
  <1>1. b \in Block /\ ViewOf(b) \in Nat /\ Len(b) \in Nat
    BY BlockType, Zenon DEF ChainOK, StoreOK
  <1>2. /\ Cardinality(H) \in Nat
        /\ \A i \in 1..Cardinality(H) : Len(b) + 1 - i \in H
    BY <1>1, DeliveredHeights, Zenon DEF ChainOK
  <1>3. \A h \in H : AtHeight(b, h) \in Block /\ SuperMajority(Voters(C, AtHeight(b, h)))
    <2> TAKE h \in H
    <2>1. h \in 1..Len(b) /\ \A i \in h..Len(b) : AtHeight(b, i) \in bc.vertices
      BY Zenon DEF CommitHeights
    <2>2. /\ AtHeight(b, h) \in Block
          /\ AtHeight(b, Len(b)) = b
          /\ h < Len(b) => PrevID(AtHeight(b, h + 1)) = AtHeight(b, h)
      BY <1>1, <2>1, Ancestors, Zenon
    <2>3. CASE h = Len(b)
      BY <2>2, <2>3, Zenon
    <2>4. CASE h < Len(b)
      <3> DEFINE c == AtHeight(b, h + 1)
      <3>1. c \in P
        BY <1>1, <2>1, <2>4 DEF StoreOK
      <3> HIDE DEF c
      <3>2. Backed(QCOf(c), P, C) /\ c \in Block
        BY <3>1, Zenon DEF ChainOK
      <3>3. QCOf(c).id = AtHeight(b, h)
        BY <2>2, <2>4, <3>2, BlockType, Zenon DEF c
      <3>4. QCOf(c) # InitialQC
        BY <2>2, <3>3 DEF InitialQC, Block
      <3> QED
        BY <2>2, <3>2, <3>3, <3>4, Zenon DEF Backed
    <2> QED
      BY <1>1, <2>1, <2>3, <2>4
  <1>4. /\ delivered \in Seq(Block)
        /\ \A i \in DOMAIN delivered : SuperMajority(Voters(C, delivered[i]))
    <2>1. delivered = [i \in 1..Cardinality(H) |-> AtHeight(b, Len(b) + 1 - i)]
      BY Zenon DEF CommittedBlocks
    <2>2. \A i \in 1..Cardinality(H) : /\ AtHeight(b, Len(b) + 1 - i) \in Block
                                       /\ SuperMajority(Voters(C, AtHeight(b, Len(b) + 1 - i)))
      BY <1>2, <1>3, Zenon
    <2> HIDE DEF H, delivered
    <2>3. delivered \in [1..Cardinality(H) -> Block]
      BY <2>1, <2>2, Zenon
    <2>4. delivered \in Seq(Block)
      BY <2>3, <1>2
    <2> QED
      BY <2>1, <2>2, <2>4, Zenon
  <1>5. /\ bc \in BlockChainState
        /\ bc.committed \in Seq(Block)
        /\ \A i \in DOMAIN bc.committed : SuperMajority(Voters(C, bc.committed[i]))
        /\ ViewOf(b) >= bc.lowestLevel
    BY Zenon DEF StoreOK, BlockChainState
  <1>6. /\ bc1.vertices = {v \in bc.vertices : ViewOf(v) >= ViewOf(b)}
        /\ bc1.lowestLevel = ViewOf(b)
        /\ bc1.votes \subseteq bc.votes
        /\ bc1.committed = bc.committed \o delivered
        /\ bc1.forked = bc.forked \union ForkedBlocks(bc, b)
        /\ bc1 = [vertices |-> bc1.vertices, lowestLevel |-> bc1.lowestLevel,
                  votes |-> bc1.votes, committed |-> bc1.committed, forked |-> bc1.forked]
    BY Zenon DEF CommitBlock
  <1> HIDE DEF H, delivered, bc1
  <1>7. ForkedBlocks(bc, b) \subseteq Block
    BY <1>5, Zenon DEF ForkedBlocks, BlockChainState
  <1>8. /\ bc1.committed \in Seq(Block)
        /\ Len(bc1.committed) = Len(bc.committed) + Len(delivered)
        /\ \A i \in 1..(Len(bc.committed) + Len(delivered)) : bc1.committed[i] =
                IF i <= Len(bc.committed) THEN bc.committed[i]
                ELSE delivered[i - Len(bc.committed)]
    BY <1>4, <1>5, <1>6
  <1>9. /\ Len(bc.committed) \in Nat /\ DOMAIN bc.committed = 1..Len(bc.committed)
        /\ Len(delivered) \in Nat /\ DOMAIN delivered = 1..Len(delivered)
        /\ DOMAIN bc1.committed = 1..Len(bc1.committed)
    BY <1>4, <1>5, <1>8
  <1>10. \A i \in DOMAIN bc1.committed : SuperMajority(Voters(C, bc1.committed[i]))
    <2> TAKE i \in DOMAIN bc1.committed
    <2>1. CASE i <= Len(bc.committed)
      BY <1>5, <1>8, <1>9, <2>1
    <2>2. CASE i > Len(bc.committed)
      <3>1. i - Len(bc.committed) \in 1..Len(delivered)
        BY <1>8, <1>9, <2>2
      <3>2. bc1.committed[i] = delivered[i - Len(bc.committed)]
        <4>1. i \in 1..(Len(bc.committed) + Len(delivered)) /\ ~(i <= Len(bc.committed))
          BY <1>8, <1>9, <2>2
        <4> QED
          BY <1>8, <4>1, Zenon
      <3> QED
        BY <3>1, <3>2, <1>4, <1>9, Zenon
    <2> QED
      BY <2>1, <2>2, <1>9
  <1>11. bc1 \in BlockChainState
    BY <1>1, <1>5, <1>6, <1>7, <1>8, Zenon DEF BlockChainState
  <1>12. StoreOK(bc1, P, C)
    BY <1>5, <1>6, <1>10, <1>11, Zenon DEF StoreOK
  <1>13. Extends(bc1.committed, bc.committed)
    <2>1. \A i \in 1..Len(bc.committed) : /\ bc1.committed[i] = bc.committed[i]
                                          /\ bc1.committed[i] \in Block
      BY <1>5, <1>8, <1>9
    <2>2. /\ SubSeq(bc1.committed, 1, Len(bc.committed)) \in Seq(Block)
          /\ Len(SubSeq(bc1.committed, 1, Len(bc.committed))) = Len(bc.committed)
          /\ \A i \in 1..Len(bc.committed) :
                SubSeq(bc1.committed, 1, Len(bc.committed))[i] = bc.committed[i]
      BY <1>9, <2>1
    <2>3. SubSeq(bc1.committed, 1, Len(bc.committed)) = bc.committed
      BY <1>5, <2>2
    <2> QED
      BY <1>8, <1>9, <2>3 DEF Extends
  <1> QED
    BY <1>5, <1>6, <1>12, <1>13, Zenon DEF bc1

-----------------------------------------------------------------------------
(* Views *)

\* The views waiting in newViewChan are led by r, were entered one after the
\* other, and are later than those of all blocks that r has proposed.
PacemakerOK(pm, r, P) ==
    /\ pm \in PacemakerState
    /\ \A i \in 1..Len(pm.newViews) : /\ pm.newViews[i] <= pm.curView
                                      /\ pm.newViews[i] >= 1
                                      /\ IsLeader(r, pm.newViews[i])
    /\ \A i, j \in 1..Len(pm.newViews) : i < j => pm.newViews[i] < pm.newViews[j]
    /\ \A b \in P : ProposerOf(b) = r =>
            /\ ViewOf(b) <= pm.curView
            /\ \A i \in 1..Len(pm.newViews) : ViewOf(b) < pm.newViews[i]

\* AdvanceView queues a view that is later than all views queued before.
LEMMA AdvanceViewOK ==
    ASSUME NEW P, NEW r, NEW pm, PacemakerOK(pm, r, P), NEW view \in Nat,
           \A b \in P : ViewOf(b) \in Nat
    PROVE  /\ PacemakerOK(AdvanceView(pm, r, view), r, P)
           /\ AdvanceView(pm, r, view).curView >= pm.curView
  <1> DEFINE pm1 == AdvanceView(pm, r, view)
  <1>1. /\ pm \in PacemakerState /\ pm.curView \in Nat
        /\ pm.newViews \in Seq(Nat) /\ Len(pm.newViews) \in Nat
        /\ \A i \in 1..Len(pm.newViews) : pm.newViews[i] \in Nat
    <2>1. pm \in PacemakerState /\ pm.curView \in Nat /\ pm.newViews \in Seq(Nat)
      BY Zenon DEF PacemakerOK, PacemakerState
    <2> QED
      BY <2>1
  <1>2. CASE view < pm.curView
    BY <1>1, <1>2 DEF AdvanceView
  <1>3. CASE ~(view < pm.curView) /\ ~IsLeader(r, view + 1)
    <2>0. pm1 = [pm EXCEPT !.curView = view + 1, !.newViews = @]
      BY <1>3, Zenon DEF AdvanceView
    <2>1. /\ pm1 \in PacemakerState
          /\ pm1.curView = view + 1 /\ pm1.newViews = pm.newViews
      <3> HIDE DEF pm1
      <3>1. view + 1 \in Nat
        OBVIOUS
      <3> QED
        BY <1>1, <2>0, <3>1, Zenon DEF PacemakerState
    <2> HIDE DEF pm1
    <2>2. PacemakerOK(pm1, r, P)
      <3> DEFINE nv == pm.newViews
                 n == Len(nv)
      <3>1. /\ \A i \in 1..n : nv[i] \in Nat /\ nv[i] <= pm.curView
            /\ \A b \in P : ProposerOf(b) = r => ViewOf(b) <= pm.curView
        BY <1>1, Zenon DEF PacemakerOK
      <3>2. /\ \A i \in 1..n : nv[i] >= 1 /\ IsLeader(r, nv[i])
            /\ \A i, j \in 1..n : i < j => nv[i] < nv[j]
            /\ \A b \in P : ProposerOf(b) = r => \A i \in 1..n : ViewOf(b) < nv[i]
        BY Zenon DEF PacemakerOK
      <3>3. pm1.newViews = nv /\ Len(pm1.newViews) = n
        BY <2>1, Zenon
      <3> HIDE DEF nv, n
      <3>4. \A i \in 1..n : nv[i] <= view + 1
        BY <1>1, <1>3, <3>1
      <3>5. \A b \in P : ProposerOf(b) = r => ViewOf(b) <= view + 1
        <4> TAKE b \in P
        <4> HAVE ProposerOf(b) = r
        <4> DEFINE v == ViewOf(b)
        <4>1. v \in Nat /\ v <= pm.curView
          BY <3>1, BlockType, Zenon
        <4> HIDE DEF v
        <4>2. v <= view + 1
          BY <1>1, <1>3, <4>1
        <4> QED
          BY <4>2, Zenon DEF v
      <3> QED
        BY <2>1, <3>2, <3>3, <3>4, <3>5, Zenon DEF PacemakerOK
    <2> QED
      BY <1>1, <1>3, <2>1, <2>2 DEF pm1
  <1>4. CASE ~(view < pm.curView) /\ IsLeader(r, view + 1)
    <2> DEFINE nv == Append(pm.newViews, view + 1)
    <2>1. /\ nv \in Seq(Nat) /\ Len(nv) = Len(pm.newViews) + 1
          /\ \A i \in 1..Len(pm.newViews) : nv[i] = pm.newViews[i]
          /\ nv[Len(pm.newViews) + 1] = view + 1
      BY <1>1
    <2>0. pm1 = [pm EXCEPT !.curView = view + 1, !.newViews = Append(@, view + 1)]
      BY <1>4, Zenon DEF AdvanceView
    <2>2. /\ pm1 \in PacemakerState
          /\ pm1.curView = view + 1 /\ pm1.newViews = nv
      <3> HIDE DEF pm1
      <3>1. view + 1 \in Nat
        OBVIOUS
      <3> QED
        BY <1>1, <2>0, <2>1, <3>1, Zenon DEF PacemakerState
    <2> HIDE DEF pm1, nv
    <2>3. \A i \in 1..Len(nv) : \/ i = Len(pm.newViews) + 1 /\ nv[i] = view + 1
                                \/ i \in 1..Len(pm.newViews) /\ nv[i] = pm.newViews[i]
      <3> DEFINE n == Len(pm.newViews)
      <3>1. n \in Nat /\ Len(nv) = n + 1
        BY <1>1, <2>1, Zenon
      <3> HIDE DEF n
      <3>2. \A i \in 1..Len(nv) : i = n + 1 \/ i \in 1..n
        BY <3>1
      <3> QED
        BY <2>1, <3>2, Zenon DEF n
    <2>4. \A i \in 1..Len(pm.newViews) : /\ pm.newViews[i] <= view
                                         /\ pm.newViews[i] >= 1
                                         /\ IsLeader(r, pm.newViews[i])
      <3> TAKE i \in 1..Len(pm.newViews)
      <3> DEFINE w == pm.newViews[i]
                 c == pm.curView
      <3>1. w \in Nat /\ w <= c /\ w >= 1 /\ IsLeader(r, w)
        BY <1>1, Zenon DEF PacemakerOK
      <3>2. c \in Nat /\ ~(view < c)
        BY <1>1, <1>4, Zenon
      <3> HIDE DEF w, c
      <3>3. w <= view
        BY <3>1, <3>2
      <3> QED
        BY <3>1, <3>3, Zenon DEF w
    <2>5. \A i \in 1..Len(nv) : nv[i] <= view + 1 /\ nv[i] >= 1 /\ IsLeader(r, nv[i])
      <3> TAKE i \in 1..Len(nv)
      <3>1. CASE nv[i] = view + 1
        <4>1. IsLeader(r, nv[i])
          BY <1>4, <3>1, Zenon
        <4> QED
          BY <3>1, <4>1
      <3>2. CASE i \in 1..Len(pm.newViews) /\ nv[i] = pm.newViews[i]
        <4>1. nv[i] \in Nat /\ nv[i] <= view /\ nv[i] >= 1
          BY <1>1, <2>4, <3>2, Zenon
        <4>2. IsLeader(r, nv[i])
          BY <2>4, <3>2, Zenon
        <4> QED
          BY <4>1, <4>2
      <3> QED
        BY <2>3, <3>1, <3>2, Zenon
    <2>6. \A i, j \in 1..Len(nv) : i < j => nv[i] < nv[j]
      <3> SUFFICES ASSUME NEW i \in 1..Len(nv), NEW j \in 1..Len(nv), i < j
                   PROVE  nv[i] < nv[j]
        BY Zenon
      <3>1. i \in 1..Len(pm.newViews) /\ nv[i] = pm.newViews[i]
        <4>1. Len(pm.newViews) \in Nat /\ Len(nv) = Len(pm.newViews) + 1
          BY <1>1, <2>1, Zenon
        <4>2. i \in 1..Len(pm.newViews)
          BY <4>1
        <4> QED
          BY <2>1, <4>2, Zenon
      <3>2. CASE j = Len(pm.newViews) + 1
        <4>1. nv[j] = view + 1
          BY <2>1, <3>2, Zenon
        <4>2. nv[i] \in Nat /\ nv[i] <= view
          BY <1>1, <2>4, <3>1, Zenon
        <4> QED
          BY <4>1, <4>2
      <3>3. CASE j \in 1..Len(pm.newViews)
        BY <2>1, <3>1, <3>3, Zenon DEF PacemakerOK
      <3> QED
        BY <2>3, <3>2, <3>3, Zenon
    <2>7. \A b \in P : ProposerOf(b) = r =>
            /\ ViewOf(b) <= view + 1
            /\ \A i \in 1..Len(nv) : ViewOf(b) < nv[i]
      <3> SUFFICES ASSUME NEW b \in P, ProposerOf(b) = r
                   PROVE  /\ ViewOf(b) <= view + 1
                          /\ \A i \in 1..Len(nv) : ViewOf(b) < nv[i]
        BY Zenon
      <3>1. /\ ViewOf(b) <= pm.curView
            /\ \A i \in 1..Len(pm.newViews) : ViewOf(b) < pm.newViews[i]
        BY Zenon DEF PacemakerOK
      <3>2. ViewOf(b) \in Nat /\ ViewOf(b) < view + 1
        BY <1>1, <1>4, <3>1
      <3> QED
        BY <2>3, <3>1, <3>2
    <2>8. PacemakerOK(pm1, r, P)
      BY <2>2, <2>5, <2>6, <2>7, Zenon DEF PacemakerOK
    <2> QED
      BY <1>1, <1>4, <2>2, <2>8 DEF pm1
  <1> QED
    BY <1>2, <1>3, <1>4, Zenon

\* Recording a timeout changes no view.
LEMMA AddTmoOK ==
    ASSUME NEW P, NEW r, NEW pm, PacemakerOK(pm, r, P),
           NEW view \in Nat, NEW node \in Replica
    PROVE  /\ PacemakerOK(AddTmo(pm, view, node), r, P)
           /\ AddTmo(pm, view, node).curView >= pm.curView
  <1> DEFINE pm1 == AddTmo(pm, view, node)
  <1>1. pm \in PacemakerState /\ pm.curView \in Nat
    BY Zenon DEF PacemakerOK, PacemakerState
  <1>2. /\ pm1 \in PacemakerState
        /\ pm1.curView = pm.curView /\ pm1.newViews = pm.newViews
    BY <1>1 DEF AddTmo, PacemakerState
  <1> HIDE DEF pm1
  <1>3. PacemakerOK(pm1, r, P)
    BY <1>2, Zenon DEF PacemakerOK
  <1> QED
    BY <1>1, <1>2, <1>3 DEF pm1

=============================================================================

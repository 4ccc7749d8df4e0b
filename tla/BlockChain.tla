----------------------------- MODULE BlockChain -----------------------------
(***************************************************************************)
(* A replica's block store and vote aggregation (blockchain/blockchain.go, *)
(* quorum.go and the part of leveled_forrest.go that blockchain.go uses).  *)
(*                                                                         *)
(* The state of a BlockChain is a record bc; each method is an operator    *)
(* from the record before the call to the record after it.  The forest is  *)
(* the set of its full vertices: what a protocol can observe through       *)
(* GetBlockByID and GetParentBlock.                                        *)
(***************************************************************************)
EXTENDS Blocks, FiniteSets

\* vertices and lowestLevel: LevelledForest; votes: Quorum.votes as a set of
\* pairs; committed and forked: what CommitBlock has returned so far, in the
\* order in which the protocol puts it on the committedBlocks and forkedBlocks
\* channels.
BlockChainState ==
    [vertices    : SUBSET Block,
     lowestLevel : Nat,
     votes       : SUBSET (BlockID \X Replica),
     committed   : Seq(Block),
     forked      : SUBSET Block]

\* NewBlockchain.
NewBlockchain ==
    [vertices |-> {}, lowestLevel |-> 0, votes |-> {},
     committed |-> << >>, forked |-> {}]

-----------------------------------------------------------------------------
(* Quorum *)

\* superMajority: size > total*2/3, in Go's integer arithmetic.
SuperMajority(voters) == Cardinality(voters) > (N * 2) \div 3

\* The signers of Quorum.votes[id].
VotersFor(votes, id) == {r \in Replica : <<id, r>> \in votes}

\* Quorum.Add: once a block has its super majority further votes are ignored.
AddVote(bc, vote) ==
    IF SuperMajority(VotersFor(bc.votes, vote.id))
    THEN bc
    ELSE [bc EXCEPT !.votes = @ \union {<<vote.id, vote.voter>>}]

\* Mutant: two thirds of the votes are enough.
IsBuiltAtTwoThirds(bc, vote) ==
    /\ Cardinality(VotersFor(bc.votes, vote.id)) < (N * 2) \div 3
    /\ Cardinality(VotersFor(AddVote(bc, vote).votes, vote.id)) >= (N * 2) \div 3

\* isBuilt: this vote completes the super majority and Add returns a QC.
IsBuilt(bc, vote) ==
    /\ ~SuperMajority(VotersFor(bc.votes, vote.id))
    /\ SuperMajority(VotersFor(AddVote(bc, vote).votes, vote.id))

\* The QC that Add builds.
QCFrom(vote) == [view |-> vote.view, id |-> vote.id]

-----------------------------------------------------------------------------
(* Forest *)

\* AddBlock and AddVertex: a vertex below the pruning level is ignored.
AddBlock(bc, b) ==
    IF ViewOf(b) < bc.lowestLevel
    THEN bc
    ELSE [bc EXCEPT !.vertices = @ \union {b}]

\* GetBlockByID and GetParentBlock return no error.
HasBlock(bc, id) == id \in bc.vertices
HasParent(bc, id) == id \in bc.vertices /\ PrevID(id) \in bc.vertices

\* The ancestor of b at height h of its chain; b itself is at height Len(b).
AtHeight(b, h) == SubSeq(b, 1, h)

\* Mutant: the block at the pruning level is visited again.
CommitHeightsFromLevel(bc, b) ==
    {h \in 1..Len(b) : \A i \in h..Len(b) :
        /\ AtHeight(b, i) \in bc.vertices
        /\ ViewOf(AtHeight(b, i)) >= bc.lowestLevel}

\* Mutant: the first block is taken for the genesis block.
CommitHeightsAboveFirst(bc, b) ==
    {h \in 2..Len(b) : \A i \in h..Len(b) :
        /\ AtHeight(b, i) \in bc.vertices
        /\ ViewOf(AtHeight(b, i)) > bc.lowestLevel}

\* The heights that the loop of CommitBlock visits: from b down its chain, for
\* as long as the blocks are stored and above the pruning level.
CommitHeights(bc, b) ==
    {h \in 1..Len(b) : \A i \in h..Len(b) :
        /\ AtHeight(b, i) \in bc.vertices
        /\ ViewOf(AtHeight(b, i)) > bc.lowestLevel}

\* committedBlocks of CommitBlock: b first, then its ancestors, newest first.
CommittedBlocks(bc, b) ==
    [i \in 1..Cardinality(CommitHeights(bc, b)) |-> AtHeight(b, Len(b) + 1 - i)]

\* committedLevels of PruneUpToLevel: the levels of b's proper ancestors, for as
\* long as they are stored.
CommittedLevels(bc, b) ==
    {ViewOf(AtHeight(b, h)) : h \in
        {k \in 1..(Len(b) - 1) : \A i \in k..(Len(b) - 1) :
            AtHeight(b, i) \in bc.vertices}}

\* forkedBlocks of PruneUpToLevel: what is pruned at a level that is not
\* committed.  Level 1 never counts as forked.
ForkedBlocks(bc, b) ==
    {v \in bc.vertices : /\ ViewOf(v) < ViewOf(b)
                         /\ ViewOf(v) > 1
                         /\ ViewOf(v) \notin CommittedLevels(bc, b)}

\* Mutant: two more levels are kept.
CommitBlockKeepTwo(bc, b) ==
    LET delivered == CommittedBlocks(bc, b)
    IN  [vertices    |-> {v \in bc.vertices : ViewOf(v) >= ViewOf(b) - 2},
         lowestLevel |-> ViewOf(b) - 2,
         votes       |-> {p \in bc.votes :
                            \A i \in DOMAIN delivered : p[1] # delivered[i]},
         committed   |-> bc.committed \o delivered,
         forked      |-> bc.forked \union ForkedBlocks(bc, b)]

\* CommitBlock with PruneUpToLevel: deliver, drop the votes, prune.
CommitBlock(bc, b) ==
    LET delivered == CommittedBlocks(bc, b)
    IN  [vertices    |-> {v \in bc.vertices : ViewOf(v) >= ViewOf(b)},
         lowestLevel |-> ViewOf(b),
         votes       |-> {p \in bc.votes :
                            \A i \in DOMAIN delivered : p[1] # delivered[i]},
         committed   |-> bc.committed \o delivered,
         forked      |-> bc.forked \union ForkedBlocks(bc, b)]

=============================================================================

----------------------------- MODULE Streamlet ------------------------------
(***************************************************************************)
(* N replicas running the Streamlet protocol of streamlet/streamlet.go.    *)
(* The code of lbft/lbft.go differs from it in names only.                 *)
(*                                                                         *)
(* Blocks, votes and timeouts are broadcast, and blocks and votes echoed:  *)
(* the network is the set of what was sent, and a replica may receive any  *)
(* of it, never, once or several times and in any order.                   *)
(*                                                                         *)
(* A handler of the event loop is one atomic step.  ProcessBlock and       *)
(* processCertificate call each other, so they are recursive operators     *)
(* from the state of a replica to its state afterwards; "out" collects     *)
(* what the handler sends.                                                 *)
(***************************************************************************)
EXTENDS Pacemaker

CONSTANTS
    MaxView,        \* bound: the last view in which a block is proposed
    TimeoutViews    \* bound: the views in which each replica's timer may fire

ASSUME BoundAssumption ==
    /\ MaxView \in Nat
    /\ TimeoutViews \in [Replica -> SUBSET Nat]

VARIABLES
    sl,     \* the state of each replica
    blocks, \* every block that was broadcast or echoed
    votes,  \* every vote that was broadcast or echoed
    tmos    \* <<sender, view>> for every timeout that was broadcast

vars == <<sl, blocks, votes, tmos>>

NoMessages == [blocks |-> {}, votes |-> {}]

\* Streamlet with its Pacemaker and BlockChain.  Every level of notarizedChain
\* holds one block: updateNotarizedChain appends a new level each time.
\* bufferedQCs and bufferedNotarizedBlock hold the blocks that their QCs certify;
\* the QC of a block has the block's view.  echoedVote is left out: nothing is
\* ever put into it.  advancing: the views of the AdvanceView goroutines that
\* processTC has started.  panicked: the process has stopped.
StreamletState ==
    [pm                     : PacemakerState,
     bc                     : BlockChainState,
     notarizedChain         : Seq(Block),
     bufferedBlocks         : SUBSET Block,
     bufferedQCs            : SUBSET Block,
     bufferedNotarizedBlock : SUBSET Block,
     echoedBlock            : SUBSET Block,
     advancing              : SUBSET Nat,
     proposedNo             : Nat,
     panicked               : BOOLEAN,
     out                    : [blocks : SUBSET Block, votes : SUBSET Vote]]

\* NewStreamlet: every replica enters view 1 at once.
NewStreamlet(r) ==
    [pm                     |-> AdvanceView(NewPacemaker, r, 0),
     bc                     |-> NewBlockchain,
     notarizedChain         |-> << >>,
     bufferedBlocks         |-> {},
     bufferedQCs            |-> {},
     bufferedNotarizedBlock |-> {},
     echoedBlock            |-> {},
     advancing              |-> {},
     proposedNo             |-> 0,
     panicked               |-> FALSE,
     out                    |-> NoMessages]

Init ==
    /\ sl = [r \in Replica |-> NewStreamlet(r)]
    /\ blocks = {}
    /\ votes = {}
    /\ tmos = {}

-----------------------------------------------------------------------------
(* Buffers: maps from the ID of the parent to a block *)

\* Mutant: the parent is put into the buffer.
PutParent(buffer, b) == buffer \union {PrevID(b)}

\* buffer[block.PrevID] = block.
PutByParent(buffer, b) == {x \in buffer : PrevID(x) # PrevID(b)} \union {b}

\* The block in buffer[id], and delete(buffer, id).
WaitsFor(buffer, id) == \E x \in buffer : PrevID(x) = id
WaitingFor(buffer, id) == CHOOSE x \in buffer : PrevID(x) = id
DropWaiting(buffer, id) == {x \in buffer : PrevID(x) # id}

Panic(s) == [s EXCEPT !.panicked = TRUE]

-----------------------------------------------------------------------------
(* Certificates *)

LastNotarized(s) == s.notarizedChain[Len(s.notarizedChain)]
IsNotarized(s, id) == \E i \in DOMAIN s.notarizedChain : s.notarizedChain[i] = id

\* The parent is not notarized.  Any block is taken for the first one.
NotExtending(s, b) == s.notarizedChain # << >> /\ ~IsNotarized(s, PrevID(b))

\* The loop of updateNotarizedChain has no lower end when the chain is shorter
\* than three blocks: "i >= 0 || i >= height-3" holds for i = -1.
LoopPanics(s, b) == NotExtending(s, b) /\ Len(s.notarizedChain) < 3

\* commitRule: the last three blocks have consecutive views; whether each is the
\* parent of the next is not tested.
CommitRule(s) ==
    LET c == s.notarizedChain
        h == Len(c)
    IN  /\ h >= 3
        /\ ViewOf(c[h - 2]) + 1 = ViewOf(c[h - 1])
        /\ ViewOf(c[h - 1]) + 1 = ViewOf(c[h])

\* Commit the second of the last three blocks, and forget which of the committed
\* blocks were echoed.
Commit(s) ==
    LET b == s.notarizedChain[Len(s.notarizedChain) - 1]
        delivered == CommittedBlocks(s.bc, b)
    IN  [s EXCEPT !.bc = CommitBlock(@, b),
                  !.echoedBlock = @ \ {delivered[i] : i \in DOMAIN delivered}]

\* updateNotarizedChain without an error, and the AdvanceView after it.
Notarize(s, r, b) ==
    [s EXCEPT !.notarizedChain = Append(@, b),
              !.pm = AdvanceView(@, r, ViewOf(b))]

\* votingRule indexes an empty notarizedChain.
VotingPanics(s, b) == ViewOf(b) > 2 /\ s.notarizedChain = << >>

\* votingRule: the block extends the last notarized block.
VotingRule(s, b) == ViewOf(b) <= 2 \/ PrevID(b) = LastNotarized(s)

RECURSIVE ProcessBlock(_, _, _), ProcessCertificate(_, _, _)

\* The end of processCertificate: the block and the QC that waited for the block.
ProcessWaiting(s, r, b) ==
    LET s1 == IF WaitsFor(s.bufferedBlocks, b)
              THEN [ProcessBlock(s, r, WaitingFor(s.bufferedBlocks, b)) EXCEPT
                        !.bufferedBlocks = DropWaiting(@, b)]
              ELSE s
        q  == WaitingFor(s1.bufferedNotarizedBlock, b)
    IN  IF s1.panicked \/ ~WaitsFor(s1.bufferedNotarizedBlock, b)
        THEN s1
        ELSE [ProcessCertificate(s1, r, q) EXCEPT !.bufferedQCs = @ \ {q}]

\* processCertificate at replica r, with the QC of block b.
ProcessCertificate(s, r, b) ==
    IF ViewOf(b) < s.pm.curView THEN s
    ELSE IF ~HasBlock(s.bc, b)
         THEN IF ViewOf(b) > 1 THEN [s EXCEPT !.bufferedQCs = @ \union {b}] ELSE s
    ELSE IF LoopPanics(s, b) THEN Panic(s)
    ELSE IF NotExtending(s, b)
         THEN [s EXCEPT !.bufferedNotarizedBlock = PutByParent(@, b)]
    ELSE LET s1 == Notarize(s, r, b)
         IN  IF ViewOf(b) < 3 \/ ~CommitRule(s1) THEN s1
             ELSE ProcessWaiting(Commit(s1), r, b)

-----------------------------------------------------------------------------
(* Votes and blocks *)

\* ProcessVote at replica r.  The vote is echoed unless its block, or a vote for
\* it, was echoed before: both are recorded in echoedBlock.
ProcessVote(s, r, vote) ==
    LET s1 == IF vote.id \in s.echoedBlock
              THEN s
              ELSE [s EXCEPT !.echoedBlock = @ \union {vote.id},
                             !.out.votes = @ \union {vote}]
        s2 == [s1 EXCEPT !.bc = AddVote(@, vote)]
    IN  IF IsBuilt(s.bc, vote) THEN ProcessCertificate(s2, r, vote.id) ELSE s2

\* ProcessBlock from the vote on.
VoteFor(s, r, b) ==
    LET vote == MakeVote(ViewOf(b), r, b)
        s1 == ProcessVote(s, r, vote)
        s2 == [s1 EXCEPT !.out.votes = @ \union {vote}]
        s3 == IF b \in s2.bufferedQCs THEN ProcessCertificate(s2, r, b) ELSE s2
    IN  IF s1.panicked THEN s1
        ELSE IF s3.panicked \/ ~WaitsFor(s3.bufferedBlocks, b) THEN s3
        ELSE ProcessBlock(s3, r, WaitingFor(s3.bufferedBlocks, b))

\* ProcessBlock from the echo to AddBlock.
EchoAndStore(s, b) ==
    [s EXCEPT !.bc = AddBlock(@, b),
              !.echoedBlock = @ \union {b},
              !.out.blocks = IF b \in s.echoedBlock THEN @ ELSE @ \union {b}]

\* Mutant: a block that is stored is processed again.
IgnoresStale(s, b) == ViewOf(b) < s.pm.curView

\* The block is stored already, or its view is over.
Ignores(s, b) == HasBlock(s.bc, b) \/ ViewOf(b) < s.pm.curView

\* Mutant: the block of view 2 needs no parent either.
NeedsParentLate(s, b) == ~HasBlock(s.bc, PrevID(b)) /\ ViewOf(b) > 2

\* The parent is not stored; only the block of view 1 needs none.
NeedsParent(s, b) == ~HasBlock(s.bc, PrevID(b)) /\ ViewOf(b) > 1

\* ProcessBlock at replica r.
ProcessBlock(s, r, b) ==
    IF Ignores(s, b) THEN s
    ELSE IF NeedsParent(s, b)
         THEN [s EXCEPT !.bufferedBlocks = PutByParent(@, b)]
    ELSE IF ~IsLeader(ProposerOf(b), ViewOf(b)) THEN s
    ELSE LET s1 == EchoAndStore(s, b)
         IN  IF VotingPanics(s1, b) THEN Panic(s1)
             ELSE IF VotingRule(s1, b) THEN VoteFor(s1, r, b)
             ELSE [s1 EXCEPT !.bufferedBlocks = PutByParent(@, b)]

-----------------------------------------------------------------------------
(* The steps of a replica *)

\* Replica r is in state s after a handler; what it sent is on the network.
Finish(r, s) ==
    /\ sl' = [sl EXCEPT ![r] = [s EXCEPT !.out = NoMessages]]
    /\ blocks' = blocks \union s.out.blocks
    /\ votes' = votes \union s.out.votes

\* forkChoice: the last notarized block, or the genesis block.
ForkChoice(s) == IF s.notarizedChain = << >> THEN ZeroID ELSE LastNotarized(s)

\* processNewView and proposeBlock with MakeProposal (MakePProposal): the block
\* carries a QC without view and signatures that only names its parent.
ProcessNewView(r) ==
    /\ sl[r].pm.newViews # << >>
    /\ LET view == Head(sl[r].pm.newViews)
           s == [sl[r] EXCEPT !.pm.newViews = Tail(@), !.proposedNo = @ + 1]
           b == MakeBlock(view, [view |-> 0, id |-> ForkChoice(s)], r, s.proposedNo)
       IN  /\ view <= MaxView
           /\ Finish(r, ProcessBlock([s EXCEPT !.out.blocks = {b}], r, b))
    /\ UNCHANGED tmos

\* HandleBlock and the event loop's Block case.
HandleBlock(r) ==
    /\ \E b \in blocks : Finish(r, ProcessBlock(sl[r], r, b))
    /\ UNCHANGED tmos

\* HandleVote, which drops votes of earlier views, and the event loop's Vote case.
\* A vote whose view ends between the two is counted for a block that is ignored
\* and a QC that is dropped by then: it changes nothing that is read again.
HandleVote(r) ==
    /\ \E vote \in votes : /\ vote.view >= sl[r].pm.curView
                           /\ Finish(r, ProcessVote(sl[r], r, vote))
    /\ UNCHANGED tmos

\* ProcessRemoteTmo and processTC: the view is advanced in a goroutine.
ProcessRemoteTmo(s, view, node) ==
    LET s1 == [s EXCEPT !.pm = AddTmo(@, view, node)]
    IN  IF TCIsBuilt(s.pm, view, node)
        THEN [s1 EXCEPT !.advancing = @ \union {view}]
        ELSE s1

\* HandleTmo and the event loop's TMO case.
HandleTmo(r) ==
    /\ \E m \in tmos :
        /\ m[1] # r
        /\ m[2] >= sl[r].pm.curView
        /\ sl' = [sl EXCEPT ![r] = ProcessRemoteTmo(@, m[2], m[1])]
    /\ UNCHANGED <<blocks, votes, tmos>>

\* The goroutine that processTC has started.
Advance(r) ==
    /\ \E view \in sl[r].advancing :
        sl' = [sl EXCEPT ![r].pm = AdvanceView(@, r, view),
                         ![r].advancing = @ \ {view}]
    /\ UNCHANGED <<blocks, votes, tmos>>

\* ListenLocalEvent: the timer fires; ProcessLocalTmo.  The view stays the same
\* and the timer starts again.  A timeout for a view that has ended meanwhile is a
\* message that was sent before and arrives late.
ProcessLocalTmo(r) ==
    LET view == sl[r].pm.curView
    IN  /\ view \in TimeoutViews[r]
        /\ <<r, view>> \notin tmos
        /\ tmos' = tmos \union {<<r, view>>}
        /\ sl' = [sl EXCEPT ![r] = ProcessRemoteTmo(@, view, r)]
        /\ UNCHANGED <<blocks, votes>>

Next ==
    \E r \in Replica :
        /\ ~sl[r].panicked
        /\ \/ ProcessNewView(r)
           \/ HandleBlock(r)
           \/ HandleVote(r)
           \/ HandleTmo(r)
           \/ Advance(r)
           \/ ProcessLocalTmo(r)

Spec == Init /\ [][Next]_vars

-----------------------------------------------------------------------------
(* Properties *)

\* Every field of every replica and every message has its type.
TypeOK ==
    /\ sl \in [Replica -> StreamletState]
    /\ blocks \subseteq Block
    /\ votes \subseteq Vote
    /\ tmos \subseteq Replica \X Nat

\* The replicas that have voted for a block.
VotersOf(id) == {v.voter : v \in {x \in votes : x.id = id}}


\* There is at most one block per view in the whole system, although a TC's
\* goroutine advances the view beside the event loop (streamlet.go:217).
NoEquivocation == \A a, b \in blocks : ViewOf(a) = ViewOf(b) => a = b

\* No replica delivers a block twice.
DeliveredOnce ==
    \A r \in Replica : \A i, j \in DOMAIN sl[r].bc.committed :
        sl[r].bc.committed[i] = sl[r].bc.committed[j] => i = j

\* Every delivered block has the votes of a super majority, the blocks delivered
\* along with a descendant and those whose own QC came too early and was dropped
\* (streamlet.go:230, 286) included.
DeliveredIsCertified ==
    \A r \in Replica : \A i \in DOMAIN sl[r].bc.committed :
        SuperMajority(VotersOf(sl[r].bc.committed[i]))

\* View 1 is over everywhere, and no replica has stored a block.
FirstViewLost == \A r \in Replica : sl[r].pm.curView >= 2 /\ sl[r].bc.vertices = {}

\* A system that has given up on view 1 never gets a vote: the parent of every
\* further block is the genesis block, which is never stored, and a block of a
\* later view waits for its parent for ever (streamlet.go:73, 205).
LostForever == [][FirstViewLost => FirstViewLost' /\ votes' = votes]_vars

\* A replica votes for a block when it stores the block or never: one that
\* votingRule refuses is buffered "for future processing", but ProcessBlock
\* returns at once for a stored block (streamlet.go:64, 97).
NoSecondChance ==
    [][\A r \in Replica : \A b \in sl[r].bc.vertices :
        r \notin VotersOf(b) => r \notin VotersOf(b)']_vars

-----------------------------------------------------------------------------
(* What the documentation and the comments of the code say, and the code does
   not do *)

\* "Rules dictate that all finalized blocks remain in a single chain."
\* (README.md, What is cBFT?)
SingleChain ==
    \A r, q \in Replica :
        \A i \in DOMAIN sl[r].bc.committed, j \in DOMAIN sl[q].bc.committed :
            ~Conflict(sl[r].bc.committed[i], sl[q].bc.committed[j])

\* "if the view of the block is higher than the the current view, buffer the block
\* and process it when entering that view" (streamlet.go:61): a block that comes
\* before the votes for its ancestors does not stop the process.
NoPanic == \A r \in Replica : ~sl[r].panicked

=============================================================================

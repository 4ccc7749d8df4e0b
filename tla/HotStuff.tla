------------------------------ MODULE HotStuff ------------------------------
(***************************************************************************)
(* N replicas running the chained HotStuff protocol of hotstuff/hotstuff.go*)
(* inside the event loop of replica/replica.go, over a network that may    *)
(* delay, reorder and lose messages (a message that is never delivered is  *)
(* a lost one).                                                            *)
(*                                                                         *)
(* Three goroutines of a replica change its state: the event loop (blocks, *)
(* votes, timeouts and views of other replicas), ListenLocalEvent (the     *)
(* view timer, whose ProcessLocalTmo does not go through the event loop)   *)
(* and the transaction handler (which kicks off view 1).  A handler is one *)
(* atomic step, with three exceptions: HandleVote and HandleTmo test the   *)
(* view before they pass the message to the event loop, which handles it   *)
(* later; the timer's view is read in a step of its own; and a buffered    *)
(* block is processed in the next step of the event loop instead of in a   *)
(* nested call.                                                            *)
(***************************************************************************)
EXTENDS Pacemaker

CONSTANTS
    MaxView,        \* bound: the last view in which a block is proposed
    TimeoutViews    \* bound: the views in which each replica's timer may fire

ASSUME BoundAssumption ==
    /\ MaxView \in Nat
    /\ TimeoutViews \in [Replica -> SUBSET Nat]

VARIABLES
    hs,         \* the state of each replica
    proposals,  \* history: every block that was broadcast
    blockMsgs,  \* <<receiver, block>>, in flight
    cast,       \* history: every vote that was made
    voteMsgs,   \* votes in flight, to the leader of the next view
    tmoMsgs,    \* <<receiver, timeout>>, in flight
    heldVotes,  \* votes that HandleVote is passing to the event loop
    heldTmos    \* <<receiver, timeout>>, that HandleTmo is passing to it

vars == <<hs, proposals, blockMsgs, cast, voteMsgs, tmoMsgs, heldVotes, heldTmos>>

TMO == [view : Nat, node : Replica, highQC : QC]

\* No timer has fired that ProcessLocalTmo has not handled.
NoTimeout == -1

\* HotStuff, with its Pacemaker and BlockChain.  lastVotedView is left out: no
\* caller of updateLastVotedView exists, so it is 0 and its test never fails.
\* pending is the buffered block that the event loop processes next, if any;
\* localTmo the view that the timer's goroutine has read.
HotStuffState ==
    [pm             : PacemakerState,
     bc             : BlockChainState,
     preferredView  : Nat,
     highQC         : QC,
     bufferedQCs    : SUBSET QC,
     bufferedBlocks : SUBSET Block,
     pending        : BlockID,
     localTmo       : Nat \union {NoTimeout},
     proposedNo     : Nat]

\* NewHotStuff.
NewHotStuff ==
    [pm             |-> NewPacemaker,
     bc             |-> NewBlockchain,
     preferredView  |-> 0,
     highQC         |-> InitialQC,
     bufferedQCs    |-> {},
     bufferedBlocks |-> {},
     pending        |-> ZeroID,
     localTmo       |-> NoTimeout,
     proposedNo     |-> 0]

Init ==
    /\ hs = [r \in Replica |-> NewHotStuff]
    /\ proposals = {}
    /\ blockMsgs = {}
    /\ cast = {}
    /\ voteMsgs = {}
    /\ tmoMsgs = {}
    /\ heldVotes = {}
    /\ heldTmos = {}

-----------------------------------------------------------------------------
(* Certificates *)

\* Mutant: the QC of a late block replaces a higher one.
UpdateHighQCAlways(s, qc) == [s EXCEPT !.highQC = qc]

\* updateHighQC.
UpdateHighQC(s, qc) ==
    IF qc.view > s.highQC.view THEN [s EXCEPT !.highQC = qc] ELSE s

\* bufferedQCs[qc.BlockID] = qc.
BufferQC(s, qc) ==
    [s EXCEPT !.bufferedQCs = {q \in @ : q.id # qc.id} \union {qc}]

\* updatePreferredView returns no error.
CanUpdatePreferredView(s, qc) == qc.view <= 2 \/ HasParent(s.bc, qc.id)

\* Mutant: the comparison is the wrong way round.
LowerPreferredView(s, qc) ==
    IF qc.view > 2 /\ ViewOf(PrevID(qc.id)) < s.preferredView
    THEN [s EXCEPT !.preferredView = ViewOf(PrevID(qc.id))]
    ELSE s

\* Mutant: the certified block itself is locked.
LockCertified(s, qc) ==
    IF qc.view > 2 /\ qc.view > s.preferredView
    THEN [s EXCEPT !.preferredView = qc.view]
    ELSE s

\* updatePreferredView: lock the parent of the certified block.
UpdatePreferredView(s, qc) ==
    IF qc.view > 2 /\ ViewOf(PrevID(qc.id)) > s.preferredView
    THEN [s EXCEPT !.preferredView = ViewOf(PrevID(qc.id))]
    ELSE s

\* commitRule: the certified block, its parent and its grandparent are stored
\* and have consecutive views.  The grandparent is committed.
CommitRule(s, qc) ==
    /\ HasParent(s.bc, qc.id)
    /\ HasParent(s.bc, PrevID(qc.id))
    /\ ViewOf(PrevID(PrevID(qc.id))) + 1 = ViewOf(PrevID(qc.id))
    /\ ViewOf(PrevID(qc.id)) + 1 = qc.view

Commit(s, qc) ==
    IF qc.view >= 3 /\ CommitRule(s, qc)
    THEN [s EXCEPT !.bc = CommitBlock(@, PrevID(PrevID(qc.id)))]
    ELSE s

\* The part of processCertificate after the lock has been updated.
AdoptCertificate(s, r, qc) ==
    Commit(UpdateHighQC([s EXCEPT !.pm = AdvanceView(@, r, qc.view)], qc), qc)

\* processCertificate at replica r: a certificate of an earlier view is ignored,
\* one whose block or parent is unknown is buffered.
ProcessCertificate(s, r, qc) ==
    IF qc.view < s.pm.curView THEN s
    ELSE IF ~CanUpdatePreferredView(s, qc) THEN BufferQC(s, qc)
    ELSE AdoptCertificate(UpdatePreferredView(s, qc), r, qc)

-----------------------------------------------------------------------------
(* Votes and blocks *)

\* ProcessVote at replica r.
ProcessVote(s, r, vote) ==
    LET s1 == [s EXCEPT !.bc = AddVote(@, vote)]
        qc == QCFrom(vote)
    IN  IF ~IsBuilt(s.bc, vote) THEN s1
        ELSE IF ~HasBlock(s1.bc, qc.id) THEN BufferQC(s1, qc)
        ELSE ProcessCertificate(s1, r, qc)

\* Mutant: the block of view 3 needs no parent either.
VotingRuleFirstThree(s, b) ==
    \/ ViewOf(b) <= 3
    \/ HasParent(s.bc, b) /\ ViewOf(PrevID(b)) >= s.preferredView

\* votingRule; its error (an unknown parent) also means no vote.
VotingRule(s, b) ==
    \/ ViewOf(b) <= 2
    \/ HasParent(s.bc, b) /\ ViewOf(PrevID(b)) >= s.preferredView

\* ProcessBlock up to the second reading of the current view: the block's QC.
\* The proposer does not process the certificate of its own block.
ProcessBlockQC(s, r, b) ==
    LET s1 == UpdateHighQC(s, QCOf(b))
    IN  IF ProposerOf(b) = r THEN s1 ELSE ProcessCertificate(s1, r, QCOf(b))

\* Mutant: a buffered QC moves the view and the highest QC, and commits nothing.
StoreBlockOnly(s, r, b) ==
    LET s1 == [s EXCEPT !.bc = AddBlock(@, b)]
        qc == CHOOSE q \in s1.bufferedQCs : q.id = b
        s2 == UpdateHighQC([s1 EXCEPT !.pm = AdvanceView(@, r, qc.view)], qc)
    IN  IF \E q \in s1.bufferedQCs : q.id = b
        THEN [s2 EXCEPT !.bufferedQCs = {q \in @ : q.id # b}]
        ELSE s1

\* ProcessBlock from AddBlock to the vote: store the block and process the QC
\* that was buffered for it.
StoreBlock(s, r, b) ==
    LET s1 == [s EXCEPT !.bc = AddBlock(@, b)]
        qc == CHOOSE q \in s1.bufferedQCs : q.id = b
        s2 == ProcessCertificate(s1, r, qc)
    IN  IF \E q \in s1.bufferedQCs : q.id = b
        THEN [s2 EXCEPT !.bufferedQCs = {q \in @ : q.id # b}]
        ELSE s1

\* Mutant: there is room for one block.
BufferBlockOnly(s, b) == [s EXCEPT !.bufferedBlocks = {b}]

\* bufferedBlocks[block.View-1] = block, and its deletion.
BufferBlock(s, b) ==
    [s EXCEPT !.bufferedBlocks = {x \in @ : ViewOf(x) # ViewOf(b)} \union {b}]
UnbufferBlock(s, b) ==
    [s EXCEPT !.bufferedBlocks = {x \in @ : ViewOf(x) # ViewOf(b)}]

\* Mutant: buffered blocks are never processed.
NoNextBuffered(s, b) == s

\* The end of ProcessBlock: the block buffered for the next view comes next.
NextBuffered(s, b) ==
    IF \E x \in s.bufferedBlocks : ViewOf(x) = ViewOf(b) + 1
    THEN [s EXCEPT !.pending = CHOOSE x \in s.bufferedBlocks :
                                        ViewOf(x) = ViewOf(b) + 1]
    ELSE s

\* A nested call of ProcessBlock deletes the buffer entry when it returns, even
\* if the call has just buffered the block again.
Return(s, b, nested) == IF nested THEN UnbufferBlock(s, b) ELSE s

\* ProcessBlock(b) at replica r in state s.
ProcessBlock(r, s, b, nested) ==
    LET s1   == ProcessBlockQC(s, r, b)
        s2   == StoreBlock(s1, r, b)
        vote == MakeVote(ViewOf(b), r, b)
    IN  \/ \* more than one view ahead: buffered
           /\ ViewOf(b) > s.pm.curView + 1
           /\ hs' = [hs EXCEPT ![r] = Return(BufferBlock(s, b), b, nested)]
           /\ UNCHANGED <<cast, voteMsgs>>
        \/ \* a stale proposal, or one of a replica that does not lead the view
           /\ ViewOf(b) <= s.pm.curView + 1
           /\ ViewOf(b) < s1.pm.curView \/ ~IsLeader(ProposerOf(b), ViewOf(b))
           /\ hs' = [hs EXCEPT ![r] = Return(s1, b, nested)]
           /\ UNCHANGED <<cast, voteMsgs>>
        \/ \* stored, but the voting rule says no
           /\ ViewOf(b) <= s.pm.curView + 1
           /\ ViewOf(b) >= s1.pm.curView /\ IsLeader(ProposerOf(b), ViewOf(b))
           /\ ~VotingRule(s2, b)
           /\ hs' = [hs EXCEPT ![r] = Return(s2, b, nested)]
           /\ UNCHANGED <<cast, voteMsgs>>
        \/ \* voted for; the vote goes to the leader of the next view
           /\ ViewOf(b) <= s.pm.curView + 1
           /\ ViewOf(b) >= s1.pm.curView /\ IsLeader(ProposerOf(b), ViewOf(b))
           /\ VotingRule(s2, b)
           /\ cast' = cast \union {vote}
           /\ IF FindLeaderFor(ViewOf(b) + 1) = r
              THEN /\ hs' = [hs EXCEPT ![r] =
                        Return(NextBuffered(ProcessVote(s2, r, vote), b), b, nested)]
                   /\ UNCHANGED voteMsgs
              ELSE /\ hs' = [hs EXCEPT ![r] = Return(NextBuffered(s2, b), b, nested)]
                   /\ voteMsgs' = voteMsgs \union {vote}

-----------------------------------------------------------------------------
(* Timeouts *)

\* processTC; its test of the view is also that of AdvanceView.
ProcessTC(s, r, view) == [s EXCEPT !.pm = AdvanceView(@, r, view)]

\* ProcessRemoteTmo at replica r.
ProcessRemoteTmo(s, r, tmo) ==
    LET s1 == ProcessCertificate(s, r, tmo.highQC)
        s2 == [s1 EXCEPT !.pm = AddTmo(@, tmo.view, tmo.node)]
    IN  IF TCIsBuilt(s1.pm, tmo.view, tmo.node) THEN ProcessTC(s2, r, tmo.view) ELSE s2

-----------------------------------------------------------------------------
(* The steps of a replica *)

\* handleTxn at the leader of view 1: kick off the protocol.
HandleTxn(r) ==
    /\ hs[r].pm.curView = 0
    /\ IsLeader(r, 1)
    /\ hs' = [hs EXCEPT ![r].pm = AdvanceView(@, r, 0)]
    /\ UNCHANGED <<proposals, blockMsgs, cast, voteMsgs, tmoMsgs, heldVotes, heldTmos>>

\* The event loop takes a view from newViewChan; its block has a number of its
\* own (the payload and the time that make the ID of a block unique).
TakeNewView(s) == [s EXCEPT !.pm.newViews = Tail(@), !.proposedNo = @ + 1]

\* MakeProposal and MakePProposal; forkChoice of a correct replica is its highQC.
MakeProposal(s, r, view) == MakeBlock(view, s.highQC, r, s.proposedNo)

\* processNewView and proposeBlock: make a block on the highest QC, broadcast it
\* and process it.
ProcessNewView(r) ==
    /\ hs[r].pending = ZeroID
    /\ hs[r].pm.newViews # << >>
    /\ LET view == Head(hs[r].pm.newViews)
           b    == MakeProposal(hs[r], r, view)
       IN  /\ view <= MaxView
           /\ proposals' = proposals \union {b}
           /\ blockMsgs' = blockMsgs \union {<<to, b>> : to \in Replica \ {r}}
           /\ ProcessBlock(r, TakeNewView(hs[r]), b, FALSE)
    /\ UNCHANGED <<tmoMsgs, heldVotes, heldTmos>>

\* The goroutine that runs the message handlers of replica r, one after the
\* other, is not waiting for the event loop.
HandlerIdle(r) ==
    /\ \A vote \in heldVotes : FindLeaderFor(vote.view + 1) # r
    /\ \A m \in heldTmos : m[1] # r

\* HandleBlock and the event loop's Block case.
HandleBlock(r) ==
    /\ HandlerIdle(r)
    /\ hs[r].pending = ZeroID
    /\ \E m \in blockMsgs :
        /\ m[1] = r
        /\ blockMsgs' = blockMsgs \ {m}
        /\ ProcessBlock(r, hs[r], m[2], FALSE)
    /\ UNCHANGED <<proposals, tmoMsgs, heldVotes, heldTmos>>

\* The nested ProcessBlock of a buffered block.
ProcessPending(r) ==
    /\ hs[r].pending # ZeroID
    /\ ProcessBlock(r, [hs[r] EXCEPT !.pending = ZeroID], hs[r].pending, TRUE)
    /\ UNCHANGED <<proposals, blockMsgs, tmoMsgs, heldVotes, heldTmos>>

\* HandleVote drops votes of earlier views.
HandleVote(r) ==
    /\ HandlerIdle(r)
    /\ \E vote \in voteMsgs :
        /\ FindLeaderFor(vote.view + 1) = r
        /\ vote.view >= hs[r].pm.curView
        /\ voteMsgs' = voteMsgs \ {vote}
        /\ heldVotes' = heldVotes \union {vote}
    /\ UNCHANGED <<hs, proposals, blockMsgs, cast, tmoMsgs, heldTmos>>

\* The event loop's Vote case; the view of the vote may be over by now.
VoteEvent(r) ==
    /\ hs[r].pending = ZeroID
    /\ \E vote \in heldVotes :
        /\ FindLeaderFor(vote.view + 1) = r
        /\ heldVotes' = heldVotes \ {vote}
        /\ hs' = [hs EXCEPT ![r] = ProcessVote(@, r, vote)]
    /\ UNCHANGED <<proposals, blockMsgs, cast, voteMsgs, tmoMsgs, heldTmos>>

\* HandleTmo drops timeouts of earlier views.
HandleTmo(r) ==
    /\ HandlerIdle(r)
    /\ \E m \in tmoMsgs :
        /\ m[1] = r
        /\ m[2].view >= hs[r].pm.curView
        /\ tmoMsgs' = tmoMsgs \ {m}
        /\ heldTmos' = heldTmos \union {m}
    /\ UNCHANGED <<hs, proposals, blockMsgs, cast, voteMsgs, heldVotes>>

\* The event loop's TMO case.
TmoEvent(r) ==
    /\ hs[r].pending = ZeroID
    /\ \E m \in heldTmos :
        /\ m[1] = r
        /\ heldTmos' = heldTmos \ {m}
        /\ hs' = [hs EXCEPT ![r] = ProcessRemoteTmo(@, r, m[2])]
    /\ UNCHANGED <<proposals, blockMsgs, cast, voteMsgs, tmoMsgs, heldVotes>>

\* ListenLocalEvent: the timer fires and the current view is read.
TimerFires(r) ==
    /\ hs[r].localTmo = NoTimeout
    /\ hs[r].pm.curView \in TimeoutViews[r]
    /\ hs' = [hs EXCEPT ![r].localTmo = hs[r].pm.curView]
    /\ UNCHANGED <<proposals, blockMsgs, cast, voteMsgs, tmoMsgs, heldVotes, heldTmos>>

\* ProcessLocalTmo with the view that was read, which the event loop may have
\* left in the meantime.
ProcessLocalTmo(r) ==
    /\ hs[r].localTmo # NoTimeout
    /\ LET view == hs[r].localTmo
           s1   == [hs[r] EXCEPT !.localTmo = NoTimeout,
                                 !.pm = AdvanceView(@, r, view)]
           tmo  == [view |-> view + 1, node |-> r, highQC |-> s1.highQC]
       IN  /\ tmoMsgs' = tmoMsgs \union {<<to, tmo>> : to \in Replica \ {r}}
           /\ hs' = [hs EXCEPT ![r] = ProcessRemoteTmo(s1, r, tmo)]
    /\ UNCHANGED <<proposals, blockMsgs, cast, voteMsgs, heldVotes, heldTmos>>

Next ==
    \E r \in Replica :
        \/ HandleTxn(r)
        \/ ProcessNewView(r)
        \/ HandleBlock(r)
        \/ ProcessPending(r)
        \/ HandleVote(r)
        \/ VoteEvent(r)
        \/ HandleTmo(r)
        \/ TmoEvent(r)
        \/ TimerFires(r)
        \/ ProcessLocalTmo(r)

Spec == Init /\ [][Next]_vars

\* A step that replica r takes without its timer.
Step(r) ==
    \/ HandleTxn(r)
    \/ ProcessNewView(r)
    \/ HandleBlock(r)
    \/ ProcessPending(r)
    \/ HandleVote(r)
    \/ VoteEvent(r)
    \/ HandleTmo(r)
    \/ TmoEvent(r)
    \/ ProcessLocalTmo(r)

\* Fairness: as long as some goroutine of some replica can go on, one of them does,
\* and no message is lost.  A timer need not fire: AdvanceView resets it.
Fairness == WF_vars(\E r \in Replica : Step(r))

FairSpec == Spec /\ Fairness

-----------------------------------------------------------------------------
(* Properties *)

\* Every field of every replica and every message has its type.
TypeOK ==
    /\ hs \in [Replica -> HotStuffState]
    /\ proposals \subseteq Block
    /\ blockMsgs \subseteq Replica \X Block
    /\ cast \subseteq Vote
    /\ voteMsgs \subseteq Vote
    /\ tmoMsgs \subseteq Replica \X TMO
    /\ heldVotes \subseteq Vote
    /\ heldTmos \subseteq Replica \X TMO

\* There is at most one block per view in the whole system: a leader never
\* proposes twice in a view, however timers, certificates and views queued in
\* newViewChan interleave (pacemaker.go:35, replica.go:246).
NoEquivocation ==
    \A a, b \in proposals : ViewOf(a) = ViewOf(b) => a = b

\* The replicas that have voted for block id.
VotersOf(id) == {v.voter : v \in {x \in cast : x.id = id}}

\* Every QC that a replica holds or that is on its way.
QCs ==
    (UNION {{hs[r].highQC} \union hs[r].bufferedQCs : r \in Replica})
        \union {QCOf(b) : b \in proposals}
        \union {m[2].highQC : m \in tmoMsgs \union heldTmos}

\* Every QC names a proposed block and its view, and a super majority of
\* replicas has voted for that block.
QCsAreBacked ==
    \A qc \in QCs :
        \/ qc = InitialQC
        \/ /\ qc.id \in proposals
           /\ qc.view = ViewOf(qc.id)
           /\ SuperMajority(VotersOf(qc.id))

\* No replica delivers a block twice.
DeliveredOnce ==
    \A r \in Replica : \A i, j \in DOMAIN hs[r].bc.committed :
        hs[r].bc.committed[i] = hs[r].bc.committed[j] => i = j

\* Every delivered block has the votes of a super majority, and so have the
\* blocks delivered along with it because they are its ancestors.
DeliveredIsCertified ==
    \A r \in Replica : \A i \in DOMAIN hs[r].bc.committed :
        SuperMajority(VotersOf(hs[r].bc.committed[i]))

\* A replica's lock stays below its highest QC, whichever of blocks, votes and
\* timeouts brought the two.  Otherwise a leader could propose a block that its
\* own votingRule, and that of every replica with the same lock, refuses for ever
\* (hotstuff.go:194, 295, 337).
LockBelowHighQC ==
    \A r \in Replica : \/ hs[r].preferredView = 0
                       \/ hs[r].preferredView < hs[r].highQC.view

\* Nothing is delivered before the replica is locked on it or on a descendant.
DeliveredBelowLock ==
    \A r \in Replica : hs[r].bc.lowestLevel <= hs[r].preferredView

\* A step takes no replica back: to an earlier view, lock, QC or pruning level,
\* or to a ledger that does not extend its ledger.
NeverBack ==
    [][\A r \in Replica :
        /\ hs'[r].pm.curView >= hs[r].pm.curView
        /\ hs'[r].preferredView >= hs[r].preferredView
        /\ hs'[r].highQC.view >= hs[r].highQC.view
        /\ hs'[r].bc.lowestLevel >= hs[r].bc.lowestLevel
        /\ Extends(hs'[r].bc.committed, hs[r].bc.committed)]_vars

\* As long as messages arrive and no timer fires, every replica delivers blocks:
\* no order of blocks and votes, and no buffering, loses the protocol's thread.
Progress == <>(\A r \in Replica : hs[r].bc.committed # << >>)

\* Every replica has left view 2 and knows no QC.
Stalled == \A r \in Replica : hs[r].highQC = InitialQC /\ hs[r].pm.curView > 2

\* A system in which views 1 and 2 were given up without a QC never gets a vote:
\* every further block has the zero parent, votingRule wants a stored parent from
\* view 3 on (hotstuff.go:288-294), and nothing but QCs ever changes highQC.
StalledForever == [][Stalled => Stalled' /\ cast' = cast]_vars

-----------------------------------------------------------------------------
(* What the documentation and the comments of the code say.  None of it holds
   when timers fire; all of it holds as long as none does. *)

\* No timer ever fires.
NoTimers == \A r \in Replica : TimeoutViews[r] = {}

\* "Rules dictate that all finalized blocks remain in a single chain."
\* (README.md, What is cBFT?)
SingleChain ==
    \A r, q \in Replica :
        \A i \in DOMAIN hs[r].bc.committed, j \in DOMAIN hs[q].bc.committed :
            ~Conflict(hs[r].bc.committed[i], hs[q].bc.committed[j])

\* "Once a block is finalized, the entire prefix of the chain is also finalized."
\* (README.md, What is cBFT?)
PrefixFinalized ==
    \A r \in Replica : \A i \in DOMAIN hs[r].bc.committed :
        LET b == hs[r].bc.committed[i]
        IN  \A h \in 1..Len(b) : \E j \in DOMAIN hs[r].bc.committed :
                hs[r].bc.committed[j] = AtHeight(b, h)

\* Transactions get "a unique order in the global ledger" (README.md, What is
\* cBFT?): of two replicas, one has delivered what the other has, in the same
\* order, and possibly more.
UniqueOrder ==
    \A r, q \in Replica :
        \/ Extends(hs[r].bc.committed, hs[q].bc.committed)
        \/ Extends(hs[q].bc.committed, hs[r].bc.committed)

\* "buffer the block" (hotstuff.go:63): a block that arrived early is kept until
\* it is stored or its view is over.
BufferedBlocksKept ==
    [][\A r \in Replica : \A b \in hs[r].bufferedBlocks :
        \/ b \in hs'[r].bufferedBlocks
        \/ b \in hs'[r].bc.vertices
        \/ ViewOf(b) < hs'[r].pm.curView]_vars

=============================================================================

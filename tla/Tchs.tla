-------------------------------- MODULE Tchs --------------------------------
(***************************************************************************)
(* N replicas running the two-chain HotStuff of tchs/tchs.go.  The code of *)
(* fasthostuff/fhs.go differs from it in names only.  The replicas run in  *)
(* the event loop of replica/replica.go, as those of module HotStuff do,   *)
(* and store their blocks in a LevelledForest.                             *)
(*                                                                         *)
(* forkChoice overwrites the view of the highest QC, through the pointer,  *)
(* with the view before the current one.  A QC can therefore carry a later *)
(* view than the block that it certifies.                                  *)
(***************************************************************************)
EXTENDS Pacemaker, LevelledForest

CONSTANTS
    MaxView,        \* bound: the last view in which a block is proposed
    TimeoutViews    \* bound: the views in which each replica's timer may fire

ASSUME BoundAssumption ==
    /\ MaxView \in Nat
    /\ TimeoutViews \in [Replica -> SUBSET Nat]

VARIABLES
    th,         \* the state of each replica
    proposals,  \* history: every block that was broadcast
    cast,       \* history: every vote that was made
    fired,      \* history: <<replica, view>> for every timer that fired
    blockMsgs,  \* <<receiver, block>>, in flight
    voteMsgs,   \* votes in flight, to the leader of the next view
    tmoMsgs,    \* <<receiver, timeout>>, in flight
    heldVotes,  \* votes that HandleVote is passing to the event loop
    heldTmos    \* <<receiver, timeout>>, that HandleTmo is passing to it

history == <<proposals, cast, fired>>
network == <<blockMsgs, voteMsgs, tmoMsgs, heldVotes, heldTmos>>
vars == <<th, history, network>>

\* The HighQC of a timeout is left out: ProcessRemoteTmo does not read it.
TMO == [view : Nat, node : Replica]

\* No timer has fired that ProcessLocalTmo has not handled.
NoTimeout == -1

\* Tchs with its Pacemaker and BlockChain (forest, Quorum.votes, and what was
\* put on the committedBlocks and forkedBlocks channels).  lastVotedView stays 0.
\* shared: highQC and bufferedQCs[highQC.BlockID] are one object.  panicked: the
\* process has stopped.
NewTchs ==
    [pm             |-> NewPacemaker,
     bc             |-> [forest |-> NewLevelledForest, votes |-> {},
                         committed |-> << >>, forked |-> {}],
     preferredView  |-> 0,
     highQC         |-> InitialQC,
     shared         |-> FALSE,
     bufferedQCs    |-> {},
     bufferedBlocks |-> {},
     pending        |-> ZeroID,
     localTmo       |-> NoTimeout,
     proposedNo     |-> 0,
     panicked       |-> FALSE]

Init ==
    /\ th = [r \in Replica |-> NewTchs]
    /\ proposals = {}
    /\ cast = {}
    /\ fired = {}
    /\ blockMsgs = {}
    /\ voteMsgs = {}
    /\ tmoMsgs = {}
    /\ heldVotes = {}
    /\ heldTmos = {}

-----------------------------------------------------------------------------
(* The BlockChain on its forest *)

\* What BlockChain's methods read of the forest.
Store(bc) == [vertices |-> Vertices(bc.forest), lowestLevel |-> bc.forest.LowestLevel]

\* CommitBlock: deliver, drop the votes, prune.
CommitInForest(s, b) ==
    LET delivered == CommittedBlocks(Store(s.bc), b)
        level     == ViewOf(b)
    IN  IF PrunePanics(s.bc.forest, level)
        THEN [s EXCEPT !.panicked = TRUE]
        ELSE [s EXCEPT
                !.bc.forest    = PruneUpToLevel(@, level),
                !.bc.votes     = {p \in @ : \A i \in DOMAIN delivered : p[1] # delivered[i]},
                !.bc.committed = @ \o delivered,
                !.bc.forked    = @ \union Forked(s.bc.forest, level)]

-----------------------------------------------------------------------------
(* Certificates *)

\* updateHighQC, with an object that is not in bufferedQCs.
UpdateHighQC(s, qc) ==
    IF qc.view > s.highQC.view
    THEN [s EXCEPT !.highQC = qc, !.shared = FALSE]
    ELSE s

\* bufferedQCs[qc.BlockID] = qc; isHigh: this object is the highest QC.
BufferQC(s, qc, isHigh) ==
    [s EXCEPT !.bufferedQCs = {q \in @ : q.id # qc.id} \union {qc},
              !.shared = isHigh \/ (@ /\ s.highQC.id # qc.id)]

\* delete(bufferedQCs, id).
UnbufferQC(s, id) ==
    [s EXCEPT !.bufferedQCs = {q \in @ : q.id # id},
              !.shared = @ /\ s.highQC.id # id]

\* updatePreferredView returns no error: the certified block is stored.
CanUpdatePreferredView(s, qc) == qc.view < 2 \/ HasBlock(Store(s.bc), qc.id)

\* updatePreferredView: lock the certified block, by the view of its QC.
UpdatePreferredView(s, qc) ==
    IF qc.view >= 2 /\ qc.view > s.preferredView
    THEN [s EXCEPT !.preferredView = qc.view]
    ELSE s

\* processCertificate at replica r.
ProcessCertificate(s, r, qc, isHigh) ==
    IF qc.view < s.pm.curView THEN s
    ELSE IF ~CanUpdatePreferredView(s, qc) THEN BufferQC(s, qc, isHigh)
    ELSE [UpdateHighQC(UpdatePreferredView(s, qc), qc) EXCEPT
            !.pm = AdvanceView(@, r, qc.view)]

-----------------------------------------------------------------------------
(* Votes and blocks *)

\* ProcessVote at replica r.
ProcessVote(s, r, vote) ==
    LET s1 == [s EXCEPT !.bc = AddVote(@, vote)]
        qc == QCFrom(vote)
    IN  IF ~IsBuilt(s.bc, vote) THEN s1
        ELSE IF ~HasBlock(Store(s1.bc), qc.id) THEN BufferQC(s1, qc, FALSE)
        ELSE ProcessCertificate(s1, r, qc, FALSE)

\* votingRule; its error (an unknown parent) also means no vote.
VotingRule(s, b) ==
    \/ ViewOf(b) <= 2
    \/ HasParent(Store(s.bc), b) /\ ViewOf(PrevID(b)) >= s.preferredView

\* Mutant: the views need not be consecutive.
CommitRuleAnyView(s, b) == HasParent(Store(s.bc), PrevID(b))

\* commitRule: the block that b's QC certifies and its parent are stored, and the
\* parent is one view below the view of the QC.
CommitRule(s, b) ==
    /\ HasParent(Store(s.bc), PrevID(b))
    /\ ViewOf(PrevID(PrevID(b))) + 1 = QCOf(b).view

\* The commit rule applies to b.
DirectChild(b) == QCOf(b).view >= 2 /\ QCOf(b).view + 1 = ViewOf(b)

\* ProcessBlock up to the second reading of the current view.  The proposer does
\* not process the certificate of its own block.
ProcessBlockQC(s, r, b) ==
    LET qc == QCOf(b)
        s1 == UpdateHighQC(s, qc)
    IN  IF ProposerOf(b) = r
        THEN s1
        ELSE ProcessCertificate(s1, r, qc, qc.view > s.highQC.view)

\* AddBlock.
StoreBlock(s, b) == [s EXCEPT !.bc.forest = AddVertex(@, b)]

\* Process the QC that was buffered for b.
ProcessBufferedQC(s, r, b) ==
    IF \E q \in s.bufferedQCs : q.id = b
    THEN UnbufferQC(ProcessCertificate(s, r, CHOOSE q \in s.bufferedQCs : q.id = b,
                                       s.shared /\ s.highQC.id = b), b)
    ELSE s

\* bufferedBlocks[block.View-1] = block; nothing is ever deleted.
BufferBlock(s, b) ==
    [s EXCEPT !.bufferedBlocks = {x \in @ : ViewOf(x) # ViewOf(b)} \union {b}]

\* Mutant: buffered blocks are never processed.
NoNextBuffered(s, b) == s

\* The end of ProcessBlock: the block buffered for the next view comes next.
NextBuffered(s, b) ==
    IF \E x \in s.bufferedBlocks : ViewOf(x) = ViewOf(b) + 1
    THEN [s EXCEPT !.pending = CHOOSE x \in s.bufferedBlocks :
                                        ViewOf(x) = ViewOf(b) + 1]
    ELSE s

\* ProcessBlock(b) at replica r in state s.
ProcessBlock(r, s, b) ==
    LET s1   == ProcessBlockQC(s, r, b)
        s2   == StoreBlock(s1, b)
        s3   == IF DirectChild(b) THEN CommitInForest(s2, PrevID(PrevID(b))) ELSE s2
        s4   == ProcessBufferedQC(s3, r, b)
        vote == MakeVote(ViewOf(b), r, b)
        early    == ViewOf(b) > s.pm.curView + 1
        rejected == ViewOf(b) < s1.pm.curView \/ ~IsLeader(ProposerOf(b), ViewOf(b))
        noCommit == DirectChild(b) /\ ~CommitRule(s2, b)
    IN  \/ \* more than one view ahead: buffered
           /\ early
           /\ th' = [th EXCEPT ![r] = BufferBlock(s, b)]
           /\ UNCHANGED <<cast, voteMsgs>>
        \/ \* a stale proposal, or one of a replica that does not lead the view
           /\ ~early /\ rejected
           /\ th' = [th EXCEPT ![r] = s1]
           /\ UNCHANGED <<cast, voteMsgs>>
        \/ \* stored, but it commits nothing: there is no vote
           /\ ~early /\ ~rejected /\ noCommit
           /\ th' = [th EXCEPT ![r] = s2]
           /\ UNCHANGED <<cast, voteMsgs>>
        \/ \* the voting rule says no
           /\ ~early /\ ~rejected /\ ~noCommit
           /\ s3.panicked \/ ~VotingRule(s4, b)
           /\ th' = [th EXCEPT ![r] = IF s3.panicked THEN s3 ELSE s4]
           /\ UNCHANGED <<cast, voteMsgs>>
        \/ \* voted for; the vote goes to the leader of the next view
           /\ ~early /\ ~rejected /\ ~noCommit
           /\ ~s3.panicked /\ VotingRule(s4, b)
           /\ cast' = cast \union {vote}
           /\ IF FindLeaderFor(ViewOf(b) + 1) = r
              THEN /\ th' = [th EXCEPT ![r] = NextBuffered(ProcessVote(s4, r, vote), b)]
                   /\ UNCHANGED voteMsgs
              ELSE /\ th' = [th EXCEPT ![r] = NextBuffered(s4, b)]
                   /\ voteMsgs' = voteMsgs \union {vote}

-----------------------------------------------------------------------------
(* Timeouts *)

\* ProcessRemoteTmo and processTC at replica r.
ProcessRemoteTmo(s, r, tmo) ==
    LET s1 == [s EXCEPT !.pm = AddTmo(@, tmo.view, tmo.node)]
    IN  IF TCIsBuilt(s.pm, tmo.view, tmo.node)
        THEN [s1 EXCEPT !.pm = AdvanceView(@, r, tmo.view)]
        ELSE s1

-----------------------------------------------------------------------------
(* The steps of a replica *)

\* handleTxn at the leader of view 1: kick off the protocol.
HandleTxn(r) ==
    /\ th[r].pm.curView = 0
    /\ IsLeader(r, 1)
    /\ th' = [th EXCEPT ![r].pm = AdvanceView(@, r, 0)]
    /\ UNCHANGED <<history, network>>

\* Mutant: the view two before the current one.
ForkChoiceTwoBack(s) ==
    LET qc == [s.highQC EXCEPT !.view = s.pm.curView - 2]
    IN  [s EXCEPT !.highQC = qc,
                  !.bufferedQCs = IF s.shared
                                  THEN {q \in @ : q.id # qc.id} \union {qc}
                                  ELSE @]

\* forkChoice: the highest QC, whose view becomes the one before the current
\* view, in bufferedQCs too if it is the same object.
ForkChoice(s) ==
    LET qc == [s.highQC EXCEPT !.view = s.pm.curView - 1]
    IN  [s EXCEPT !.highQC = qc,
                  !.bufferedQCs = IF s.shared
                                  THEN {q \in @ : q.id # qc.id} \union {qc}
                                  ELSE @]

\* processNewView and proposeBlock with MakeProposal (MakePProposal): make a
\* block on forkChoice, broadcast it and process it.
ProcessNewView(r) ==
    /\ th[r].pending = ZeroID
    /\ th[r].pm.newViews # << >>
    /\ LET view == Head(th[r].pm.newViews)
           s    == ForkChoice([th[r] EXCEPT !.pm.newViews = Tail(@), !.proposedNo = @ + 1])
           b    == MakeBlock(view, s.highQC, r, s.proposedNo)
       IN  /\ view <= MaxView
           /\ proposals' = proposals \union {b}
           /\ blockMsgs' = blockMsgs \union {<<to, b>> : to \in Replica \ {r}}
           /\ ProcessBlock(r, s, b)
    /\ UNCHANGED <<fired, tmoMsgs, heldVotes, heldTmos>>

\* The goroutine that runs the message handlers of replica r, one after the
\* other, is not waiting for the event loop.
HandlerIdle(r) ==
    /\ \A vote \in heldVotes : FindLeaderFor(vote.view + 1) # r
    /\ \A m \in heldTmos : m[1] # r

\* HandleBlock and the event loop's Block case.
HandleBlock(r) ==
    /\ HandlerIdle(r)
    /\ th[r].pending = ZeroID
    /\ \E m \in blockMsgs :
        /\ m[1] = r
        /\ blockMsgs' = blockMsgs \ {m}
        /\ ProcessBlock(r, th[r], m[2])
    /\ UNCHANGED <<proposals, fired, tmoMsgs, heldVotes, heldTmos>>

\* The nested ProcessBlock of a buffered block.
ProcessPending(r) ==
    /\ th[r].pending # ZeroID
    /\ ProcessBlock(r, [th[r] EXCEPT !.pending = ZeroID], th[r].pending)
    /\ UNCHANGED <<proposals, fired, blockMsgs, tmoMsgs, heldVotes, heldTmos>>

\* HandleVote drops votes of earlier views.
HandleVote(r) ==
    /\ HandlerIdle(r)
    /\ \E vote \in voteMsgs :
        /\ FindLeaderFor(vote.view + 1) = r
        /\ vote.view >= th[r].pm.curView
        /\ voteMsgs' = voteMsgs \ {vote}
        /\ heldVotes' = heldVotes \union {vote}
    /\ UNCHANGED <<th, history, blockMsgs, tmoMsgs, heldTmos>>

\* The event loop's Vote case; the view of the vote may be over by now.
VoteEvent(r) ==
    /\ th[r].pending = ZeroID
    /\ \E vote \in heldVotes :
        /\ FindLeaderFor(vote.view + 1) = r
        /\ heldVotes' = heldVotes \ {vote}
        /\ th' = [th EXCEPT ![r] = ProcessVote(@, r, vote)]
    /\ UNCHANGED <<history, blockMsgs, voteMsgs, tmoMsgs, heldTmos>>

\* HandleTmo drops timeouts of earlier views.
HandleTmo(r) ==
    /\ HandlerIdle(r)
    /\ \E m \in tmoMsgs :
        /\ m[1] = r
        /\ m[2].view >= th[r].pm.curView
        /\ tmoMsgs' = tmoMsgs \ {m}
        /\ heldTmos' = heldTmos \union {m}
    /\ UNCHANGED <<th, history, blockMsgs, voteMsgs, heldVotes>>

\* The event loop's TMO case.
TmoEvent(r) ==
    /\ th[r].pending = ZeroID
    /\ \E m \in heldTmos :
        /\ m[1] = r
        /\ heldTmos' = heldTmos \ {m}
        /\ th' = [th EXCEPT ![r] = ProcessRemoteTmo(@, r, m[2])]
    /\ UNCHANGED <<history, blockMsgs, voteMsgs, tmoMsgs, heldVotes>>

\* ListenLocalEvent: the timer fires and the current view is read.
TimerFires(r) ==
    /\ th[r].localTmo = NoTimeout
    /\ th[r].pm.curView \in TimeoutViews[r]
    /\ th' = [th EXCEPT ![r].localTmo = th[r].pm.curView]
    /\ fired' = fired \union {<<r, th[r].pm.curView>>}
    /\ UNCHANGED <<proposals, cast, network>>

\* ProcessLocalTmo with the view that was read: skip the next view, and tell the
\* others to give up on it.  The replica's own timeout is outdated by then.
ProcessLocalTmo(r) ==
    /\ th[r].localTmo # NoTimeout
    /\ LET tmo == [view |-> th[r].localTmo + 1, node |-> r]
           s   == [th[r] EXCEPT !.localTmo = NoTimeout,
                                !.pm = AdvanceView(@, r, tmo.view)]
       IN  /\ tmoMsgs' = tmoMsgs \union {<<to, tmo>> : to \in Replica \ {r}}
           /\ th' = [th EXCEPT ![r] = ProcessRemoteTmo(s, r, tmo)]
    /\ UNCHANGED <<history, blockMsgs, voteMsgs, heldVotes, heldTmos>>

\* The steps of the replicas whose process has not stopped.
Next ==
    \E r \in Replica :
        /\ ~th[r].panicked
        /\ \/ HandleTxn(r)
           \/ ProcessNewView(r)
           \/ HandleBlock(r)
           \/ ProcessPending(r)
           \/ HandleVote(r)
           \/ VoteEvent(r)
           \/ HandleTmo(r)
           \/ TmoEvent(r)
           \/ TimerFires(r)
           \/ ProcessLocalTmo(r)

Spec == Init /\ [][Next]_vars

-----------------------------------------------------------------------------
(* Properties *)

\* Every field of every replica and every message has its type.
TypeOK ==
    /\ \A r \in Replica :
        /\ th[r].pm \in PacemakerState
        /\ IsForest(th[r].bc.forest)
        /\ th[r].bc.votes \subseteq BlockID \X Replica
        /\ th[r].bc.committed \in Seq(Block)
        /\ th[r].bc.forked \subseteq Block
        /\ th[r].preferredView \in Nat
        /\ th[r].highQC \in QC
        /\ th[r].bufferedQCs \subseteq QC
        /\ th[r].bufferedBlocks \subseteq Block
        /\ th[r].pending \in BlockID
        /\ th[r].localTmo \in Nat \union {NoTimeout}
        /\ th[r].proposedNo \in Nat
    /\ proposals \subseteq Block
    /\ blockMsgs \subseteq Replica \X Block
    /\ cast \subseteq Vote
    /\ fired \subseteq Replica \X Nat
    /\ voteMsgs \subseteq Vote
    /\ heldVotes \subseteq Vote
    /\ tmoMsgs \subseteq Replica \X TMO
    /\ heldTmos \subseteq Replica \X TMO

\* PruneUpToLevel takes the first container of each level that it visits for a
\* stored block (leveled_forrest.go:62).  Containers of unknown parents sit at the
\* level of the QC's view, which forkChoice has moved, and never get there first.
NoPanic == \A r \in Replica : ~th[r].panicked

\* The forest of replica r, seen through HasVertex.
StoreOf(r) == INSTANCE VertexStore WITH
                vertices    <- Vertices(th[r].bc.forest),
                lowestLevel <- th[r].bc.forest.LowestLevel



\* The replicas that have voted for block id.
VotersOf(id) == {v.voter : v \in {x \in cast : x.id = id}}

\* Every QC that a replica holds or that a block carries.
QCs ==
    (UNION {{th[r].highQC} \union th[r].bufferedQCs : r \in Replica})
        \union {QCOf(b) : b \in proposals}

\* However often a QC's view has been overwritten (tchs.go:220), the QC names a
\* block for which a super majority has voted and a view that is not below the
\* view of that block.
QCsAreBacked ==
    \A qc \in QCs : \/ qc.id = ZeroID
                    \/ /\ qc.id \in proposals
                       /\ qc.view >= ViewOf(qc.id)
                       /\ SuperMajority(VotersOf(qc.id))

\* A block is delivered only on a child in the next view that a super majority
\* has voted for, or together with a later block on its chain.
DeliveredOnTwoChain ==
    \A r \in Replica : \A i \in DOMAIN th[r].bc.committed :
        \E b \in proposals :
            /\ Extends(PrevID(b), th[r].bc.committed[i])
            /\ ViewOf(PrevID(b)) + 1 = ViewOf(b)
            /\ SuperMajority(VotersOf(b))

\* A super majority votes for a block of view 3 or later only if its parent is the
\* certified block of the view before, whatever view its QC claims: commitRule
\* stands between a block and its votes (tchs.go:89-93).
CertifiedWithoutGaps ==
    \A b \in proposals :
        ViewOf(b) >= 3 /\ SuperMajority(VotersOf(b)) =>
            /\ ViewOf(PrevID(b)) + 1 = ViewOf(b)
            /\ SuperMajority(VotersOf(PrevID(b)))

\* Every replica has reached view v and no block of view v - 1 or later has got
\* the votes of a super majority.
Skipped(v) ==
    /\ \A r \in Replica : th[r].pm.curView >= v
    /\ \A b \in proposals : ViewOf(b) >= v - 1 => ~SuperMajority(VotersOf(b))

\* Once a view from 2 on has gone by without a certified block, the protocol has
\* stopped for good: forkChoice gives the QC of every further block the view
\* before the block's own, commitRule does not find a parent in the view before
\* that, and ProcessBlock returns before it votes (tchs.go:89-93, 220, 300).
SkipStalls ==
    [][\A v \in 3..(MaxView + 1) : Skipped(v) => Skipped(v)' /\ cast' = cast]_vars

\* No replica has anything left to do: no message that its handlers would accept
\* is on its way and no view within the bound waits for a proposal.
Quiet ==
    /\ blockMsgs = {} /\ heldVotes = {} /\ heldTmos = {}
    /\ \A vote \in voteMsgs : vote.view < th[FindLeaderFor(vote.view + 1)].pm.curView
    /\ \A m \in tmoMsgs : m[2].view < th[m[1]].pm.curView
    /\ \A r \in Replica :
        /\ th[r].pm.curView > 0
        /\ th[r].pending = ZeroID
        /\ th[r].pm.newViews = << >> \/ Head(th[r].pm.newViews) > MaxView

\* The system comes to rest without a timer only after every replica has
\* delivered a block: no order of blocks and votes, no buffering and no
\* overwritten QC loses the protocol's thread.
DeliversBeforeRest ==
    Quiet /\ fired = {} => \A r \in Replica : th[r].bc.committed # << >>

=============================================================================

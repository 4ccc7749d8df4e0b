---------------------------- MODULE ReplicaLoop -----------------------------
(***************************************************************************)
(* The goroutines of one replica, the channels between them and the mutex  *)
(* of its pacemaker (replica/replica.go, pacemaker/pacemaker.go,           *)
(* node/node.go).  A step is what a goroutine does between two operations  *)
(* on a channel, on the mutex or on isStarted.                             *)
(*                                                                         *)
(* What a handler of the protocol computes is left to HotStuff.tla; here   *)
(* it is a sequence of certificates, each of which may advance the view    *)
(* and commit blocks.                                                      *)
(***************************************************************************)
EXTENDS Naturals, Sequences

CONSTANTS
    Kinds,          \* the kinds of messages the replica receives
    Transactions,   \* does it receive transactions?
    IsFirstLeader,  \* does it lead view 1?
    ViewCapacity,   \* capacity of newViewChan
    BlockCapacity,  \* capacity of committedBlocks
    MaxView,        \* bound: no view after MaxView is entered
    MaxCommit       \* bound: blocks committed by one certificate

ASSUME LoopAssumption ==
    /\ Kinds \subseteq {"block", "vote", "tmo"}
    /\ Transactions \in BOOLEAN /\ IsFirstLeader \in BOOLEAN
    /\ ViewCapacity \in Nat \ {0} /\ BlockCapacity \in Nat \ {0}
    /\ MaxView \in Nat \ {0} /\ MaxCommit \in Nat

\* handle and txn of the node; Start, ListenLocalEvent and ListenCommittedBlocks
\* of the replica.
Goroutine == {"handle", "txn", "main", "listener", "committer"}

\* The goroutines that run the protocol.
Processor == {"main", "listener"}

\* The goroutines that advance the view.
Caller == Processor \union {"txn"}

Nobody == "nobody"

\* The places where a goroutine may be.
Place == {"off", "wait", "loop", "idle", "filterVote", "filterTmo", "start", "store",
          "signal", "post", "kickoff", "process", "advance", "push", "commit", "deliver",
          "propose", "select", "relay", "report"}

VARIABLES
    pc,             \* where each goroutine is
    view,           \* the view that each goroutine works with, 0 if none
    ret,            \* where AdvanceView returns to
    commits,        \* how many blocks each goroutine has yet to deliver
    isStarted,
    curView,        \* Pacemaker.curView
    mu,             \* who holds Pacemaker.mu
    newViewChan,
    committedBlocks,\* number of blocks in committedBlocks and forkedBlocks
    handled         \* the last view that the event loop took from eventChan

\* All variables but pc.
data == <<view, ret, commits, isStarted, curView, mu, newViewChan, committedBlocks, handled>>
vars == <<pc, data>>

Init ==
    /\ pc = [g \in Goroutine |->
                CASE g = "main" -> "wait"
                  [] g \in {"handle", "txn"} -> "idle"
                  [] OTHER -> "off"]
    /\ view = [g \in Goroutine |-> 0]
    /\ ret = [g \in Caller |-> IF g = "txn" THEN "idle" ELSE "process"]
    /\ commits = [g \in Processor |-> 0]
    /\ isStarted = FALSE
    /\ curView = 0
    /\ mu = Nobody
    /\ newViewChan = << >>
    /\ committedBlocks = 0
    /\ handled = 0

Goto(g, from, to) == pc[g] = from /\ pc' = [pc EXCEPT ![g] = to]

-----------------------------------------------------------------------------
(* The pacemaker *)

\* Mutant: AdvanceView does not look at the current view again.
AdvanceUnchecked(g) ==
    /\ mu = Nobody
    /\ Goto(g, "advance", "push")
    /\ curView' = view[g] + 1
    /\ mu' = g
    /\ UNCHANGED <<view, ret, commits, isStarted, newViewChan, committedBlocks, handled>>

\* AdvanceView locks; the rest of it is skipped when the view is over.
Advance(g) ==
    /\ mu = Nobody
    /\ \/ /\ view[g] < curView
          /\ Goto(g, "advance", ret[g])
          /\ view' = [view EXCEPT ![g] = 0]
          /\ UNCHANGED <<curView, mu>>
       \/ /\ view[g] >= curView
          /\ Goto(g, "advance", "push")
          /\ curView' = view[g] + 1
          /\ mu' = g
          /\ UNCHANGED view
    /\ UNCHANGED <<ret, commits, isStarted, newViewChan, committedBlocks, handled>>

\* AdvanceView sends the new view, waiting for room if need be, and unlocks.
Push(g) ==
    /\ Len(newViewChan) < ViewCapacity
    /\ Goto(g, "push", ret[g])
    /\ newViewChan' = Append(newViewChan, view[g] + 1)
    /\ mu' = Nobody
    /\ view' = [view EXCEPT ![g] = 0]
    /\ UNCHANGED <<ret, commits, isStarted, curView, committedBlocks, handled>>

-----------------------------------------------------------------------------
(* Handlers of the protocol, on the event loop and on the listener *)

\* A certificate (a QC or a TC) of the current view or a later one: GetCurView, then
\* AdvanceView, from which processCertificate goes on to commit blocks.
Certify(g) ==
    /\ mu = Nobody
    /\ Goto(g, "process", "advance")
    /\ \E v \in curView..(MaxView - 1) : view' = [view EXCEPT ![g] = v]
    /\ \E n \in 0..MaxCommit : commits' = [commits EXCEPT ![g] = n]
    /\ ret' = [ret EXCEPT ![g] = "commit"]
    /\ UNCHANGED <<isStarted, curView, mu, newViewChan, committedBlocks, handled>>

\* An event may hold several certificates (a block with the buffered blocks that
\* follow it).  ProcessLocalTmo holds one: once it has worked on its highest QC, the TC
\* is of an earlier view.
AfterCertificate(g) == IF g = "main" THEN "process" ELSE "select"

\* Mutant: the commit rule is not looked at.
CommitAlways(g) ==
    /\ mu = Nobody
    /\ Goto(g, "commit", "deliver")
    /\ UNCHANGED data

\* processCertificate calls GetCurView again if it commits blocks.
Commit(g) ==
    /\ \/ commits[g] = 0 /\ Goto(g, "commit", AfterCertificate(g))
       \/ commits[g] > 0 /\ mu = Nobody /\ Goto(g, "commit", "deliver")
    /\ UNCHANGED data

\* It puts the committed and the forked blocks on their channels.
Deliver(g) ==
    /\ committedBlocks < BlockCapacity
    /\ Goto(g, "deliver", IF commits[g] = 1 THEN AfterCertificate(g) ELSE "deliver")
    /\ commits' = [commits EXCEPT ![g] = @ - 1]
    /\ committedBlocks' = committedBlocks + 1
    /\ UNCHANGED <<view, ret, isStarted, curView, mu, newViewChan, handled>>

\* The handler returns.
Done(g) ==
    /\ Goto(g, "process", IF g = "main" THEN "loop" ELSE "select")
    /\ UNCHANGED data

-----------------------------------------------------------------------------
(* startSignal, on the goroutines of messages and of transactions *)

\* The goroutine's next place once the replica is started.
AfterStart(g) == IF g = "txn" THEN "kickoff" ELSE "post"

\* isStarted.Load.
CheckStarted(g) ==
    /\ Goto(g, "start", IF isStarted THEN AfterStart(g) ELSE "store")
    /\ UNCHANGED data

\* isStarted.Store(true).
Store(g) ==
    /\ Goto(g, "store", "signal")
    /\ isStarted' = TRUE
    /\ UNCHANGED <<view, ret, commits, curView, mu, newViewChan, committedBlocks, handled>>

\* Mutant: the signal is lost.
SignalLost(g) ==
    /\ pc["main"] = "wait"
    /\ Goto(g, "signal", AfterStart(g))
    /\ UNCHANGED data

\* r.start <- true: Start receives it, once, and launches the two listeners.
Signal(g) ==
    /\ pc[g] = "signal"
    /\ pc["main"] = "wait"
    /\ pc' = [pc EXCEPT ![g] = AfterStart(g), !["main"] = "loop",
                        !["listener"] = "select", !["committer"] = "select"]
    /\ UNCHANGED data

-----------------------------------------------------------------------------
(* Messages and transactions *)

\* handle takes a message from MessageChan and calls its handler.  HandleTmo does
\* not send the start signal.
Receive ==
    /\ \E kind \in Kinds :
        Goto("handle", "idle", CASE kind = "block" -> "start"
                                 [] kind = "vote"  -> "filterVote"
                                 [] kind = "tmo"   -> "filterTmo")
    /\ UNCHANGED data

\* HandleVote and HandleTmo drop a message of an earlier view.
Filter ==
    /\ mu = Nobody
    /\ \E v \in 0..MaxView :
        \/ Goto("handle", "filterVote", IF v < curView THEN "idle" ELSE "start")
        \/ Goto("handle", "filterTmo", IF v < curView THEN "idle" ELSE "post")
    /\ UNCHANGED data

\* The handler's message goes over eventChan to the event loop.
Post ==
    /\ pc["handle"] = "post"
    /\ pc["main"] = "loop"
    /\ pc' = [pc EXCEPT !["handle"] = "idle", !["main"] = "process"]
    /\ UNCHANGED data

\* txn takes a transaction from TxChan and calls handleTxn.
ReceiveTxn ==
    /\ Transactions
    /\ Goto("txn", "idle", "start")
    /\ UNCHANGED data

\* handleTxn: the first leader leaves view 0.
KickOff ==
    /\ mu = Nobody
    /\ Goto("txn", "kickoff", IF curView = 0 /\ IsFirstLeader THEN "advance" ELSE "idle")
    /\ view' = [view EXCEPT !["txn"] = 0]
    /\ UNCHANGED <<ret, commits, isStarted, curView, mu, newViewChan, committedBlocks, handled>>

-----------------------------------------------------------------------------
(* The two listeners *)

\* Mutant: the view only resets the timer.
TakeViewOnly ==
    /\ newViewChan # << >>
    /\ Goto("listener", "select", "select")
    /\ newViewChan' = Tail(newViewChan)
    /\ UNCHANGED <<view, ret, commits, isStarted, curView, mu, committedBlocks, handled>>

\* ListenLocalEvent takes a view ...
TakeView ==
    /\ newViewChan # << >>
    /\ Goto("listener", "select", "relay")
    /\ view' = [view EXCEPT !["listener"] = Head(newViewChan)]
    /\ newViewChan' = Tail(newViewChan)
    /\ UNCHANGED <<ret, commits, isStarted, curView, mu, committedBlocks, handled>>

\* ... and passes it to the event loop.  From view 2 on a leader proposes what
\* Phalanx supplies.
Relay ==
    /\ pc["listener"] = "relay"
    /\ pc["main"] = "loop"
    /\ \E place \in {"process"} \union (IF view["listener"] > 1 THEN {"propose"} ELSE {}) :
        pc' = [pc EXCEPT !["listener"] = "select", !["main"] = place]
    /\ handled' = view["listener"]
    /\ view' = [view EXCEPT !["listener"] = 0]
    /\ UNCHANGED <<ret, commits, isStarted, curView, mu, newViewChan, committedBlocks>>

\* MakePProposal asks Phalanx for a batch again and again; here it gets one, and
\* the block is made, broadcast and processed.
MakePProposal ==
    /\ Goto("main", "propose", "process")
    /\ UNCHANGED data

\* The timer fires: the current view is read and ProcessLocalTmo called, which
\* advances the view and then works on the timeout.
TimerFires ==
    /\ mu = Nobody
    /\ curView < MaxView
    /\ Goto("listener", "select", "advance")
    /\ view' = [view EXCEPT !["listener"] = curView]
    /\ ret' = [ret EXCEPT !["listener"] = "process"]
    /\ UNCHANGED <<commits, isStarted, curView, mu, newViewChan, committedBlocks, handled>>

\* ListenCommittedBlocks takes a block ...
TakeBlock ==
    /\ committedBlocks > 0
    /\ Goto("committer", "select", "report")
    /\ committedBlocks' = committedBlocks - 1
    /\ UNCHANGED <<view, ret, commits, isStarted, curView, mu, newViewChan, handled>>

\* ... and logs it with the current view, for which it needs the mutex.
Report ==
    /\ mu = Nobody
    /\ Goto("committer", "report", "select")
    /\ UNCHANGED data

-----------------------------------------------------------------------------
(* The replica *)

Process(g) == Certify(g) \/ Advance(g) \/ Push(g) \/ Commit(g) \/ Deliver(g) \/ Done(g)
StartSignal(g) == CheckStarted(g) \/ Store(g) \/ Signal(g)

Handle    == StartSignal("handle") \/ Filter \/ Post
Txn       == StartSignal("txn") \/ KickOff \/ Advance("txn") \/ Push("txn")
Main      == Process("main")
Listener  == Process("listener") \/ TakeView \/ Relay
Committer == TakeBlock \/ Report

Next ==
    \/ Handle \/ Txn \/ Main \/ Listener \/ Committer
    \/ Receive \/ ReceiveTxn \/ TimerFires \/ MakePProposal

Spec == Init /\ [][Next]_vars

\* Every goroutine that can go on again and again does so: Go's channels serve
\* waiting senders in order and its mutex does not starve anybody.  Messages,
\* transactions, timers and the batches of Phalanx need not come.
Fairness ==
    /\ SF_vars(Handle) /\ SF_vars(Txn) /\ SF_vars(Main)
    /\ SF_vars(Listener) /\ SF_vars(Committer)

FairSpec == Spec /\ Fairness

-----------------------------------------------------------------------------
(* Properties *)

\* Every variable has its type, and the channels have their capacities (replica.go:86,
\* pacemaker.go:20).
TypeOK ==
    /\ pc \in [Goroutine -> Place]
    /\ view \in [Goroutine -> 0..MaxView]
    /\ ret \in [Caller -> {"idle", "process", "commit"}]
    /\ commits \in [Processor -> 0..MaxCommit]
    /\ isStarted \in BOOLEAN
    /\ curView \in 0..MaxView
    /\ mu \in Goroutine \union {Nobody}
    /\ newViewChan \in Seq(1..MaxView) /\ Len(newViewChan) <= ViewCapacity
    /\ committedBlocks \in 0..BlockCapacity
    /\ handled \in 0..MaxView

\* The views on their way to the event loop: in the listener's hands, in the
\* channel, and the one that AdvanceView is sending.
InHand  == IF pc["listener"] = "relay" THEN <<view["listener"]>> ELSE << >>
Sending == IF mu = Nobody THEN << >> ELSE <<curView>>
Queue   == InHand \o newViewChan \o Sending

VQ == INSTANCE ViewQueue WITH queue <- Queue

\* Whichever goroutines advance the view (replica.go:209, 291, 328), the event loop
\* gets every view once and in the order in which they were entered.
ViewsInOrder == VQ!Spec

\* AdvanceView sends on a full channel while its reader is busy.
SendStuck == mu # Nobody /\ Len(newViewChan) = ViewCapacity /\ pc["listener"] # "select"

\* Phalanx always supplies a batch in the end, so that MakePProposal does not keep
\* the event loop for ever (hotstuff.go:182).
BatchesCome == []<>(pc["main"] # "propose")

\* Every view that is entered reaches the event loop and resets the timer ("reset
\* timer for the next view", pacemaker.go:39), unless Phalanx stops supplying batches
\* or AdvanceView, holding the mutex, waits for a listener that may wait for the event
\* loop (replica.go:287).
ViewsReachLoop ==
    []~SendStuck /\ BatchesCome => \A v \in 1..MaxView : curView = v ~> handled >= v

\* "handle receives messages from message channel and calls handle function"
\* (node.go:181): it never stops doing so.
MessagesHandled == []<>(pc["handle"] = "idle")

\* Two goroutines have found the replica not started.
DoubleStart == pc["handle"] \in {"store", "signal"} /\ pc["txn"] \in {"store", "signal"}

\* In a replica that is started sooner or later, the goroutine of the messages does
\* not get stuck, unless the start signal is sent twice (replica.go:310-318) or
\* AdvanceView or MakePProposal waits as above.  A timeout that is the first message,
\* for which HandleTmo sends no start signal (replica.go:140-146), waits no longer
\* than for the signal of a transaction.
HandlerNotStuck ==
    <>isStarted /\ [](~DoubleStart /\ ~SendStuck) /\ BatchesCome => MessagesHandled

=============================================================================

------------------------- MODULE ReplicaLoopProofs --------------------------
(***************************************************************************)
(* The goroutines of a replica hand its views to the event loop the way    *)
(* ViewQueue says, for all capacities of the channels, and keep within     *)
(* these capacities.                                                       *)
(***************************************************************************)
EXTENDS ReplicaLoop, TLAPS

\* Until the start signal there are no listeners.
Dormant == pc["main"] = "wait" => pc["listener"] = "off" /\ pc["committer"] = "off"

\* Who sends a view holds the mutex, and the view is the one it has just entered.
LoopInv ==
    /\ pc \in [Goroutine -> Place]
    /\ view \in [Goroutine -> Nat]
    /\ ret \in [Caller -> {"idle", "process", "commit"}]
    /\ curView \in Nat
    /\ mu \in Goroutine \union {Nobody}
    /\ newViewChan \in Seq(Nat)
    /\ \A g \in Goroutine : pc[g] = "push" <=> mu = g
    /\ mu # Nobody => curView = view[mu] + 1
    /\ Dormant

\* The variables that a step of the queue may change.
queueVars == <<curView, Queue, handled>>

-----------------------------------------------------------------------------
(* The queue as a concatenation *)

\* The three parts of the queue are sequences of views.
LEMMA QueueParts ==
    ASSUME LoopInv
    PROVE  /\ InHand \in Seq(Nat) /\ newViewChan \in Seq(Nat) /\ Sending \in Seq(Nat)
           /\ InHand \o newViewChan \in Seq(Nat)
           /\ Queue \in Seq(Nat)
<1>1. view["listener"] \in Nat /\ curView \in Nat
  BY Zenon DEF LoopInv, Goroutine
<1>2. InHand \in Seq(Nat)
  BY <1>1 DEF InHand
<1>3. Sending \in Seq(Nat)
  BY <1>1 DEF Sending
<1>4. newViewChan \in Seq(Nat)
  BY Zenon DEF LoopInv
<1>5. InHand \o newViewChan \in Seq(Nat)
  BY <1>2, <1>4
<1> QED
  BY <1>2, <1>3, <1>4, <1>5 DEF Queue

\* Concatenation is associative.
LEMMA ConcatAssociative ==
    ASSUME NEW a \in Seq(Nat), NEW b \in Seq(Nat), NEW c \in Seq(Nat)
    PROVE  (a \o b) \o c = a \o (b \o c)
  OBVIOUS

\* Appending is concatenation with a sequence of one element.
LEMMA AppendConcat ==
    ASSUME NEW S, NEW s \in Seq(S), NEW e \in S
    PROVE  Append(s, e) = s \o <<e>>
  OBVIOUS

\* A first element in front of a sequence is its head, and the sequence its tail.
LEMMA HeadConcat ==
    ASSUME NEW S, NEW s \in Seq(S), NEW e \in S
    PROVE  /\ <<e>> \o s # << >>
           /\ Head(<<e>> \o s) = e
           /\ Tail(<<e>> \o s) = s
  OBVIOUS

\* A sequence that is not empty is its head in front of its tail.
LEMMA HeadThenTail ==
    ASSUME NEW S, NEW s \in Seq(S), s # << >>
    PROVE  <<Head(s)>> \o Tail(s) = s
  OBVIOUS

-----------------------------------------------------------------------------
(* The steps of the goroutines *)

\* What a step keeps: the invariant, and the queue unless it is a step of the queue.
StepOK == LoopInv' /\ (VQ!Next \/ UNCHANGED queueVars)

\* A step that only moves goroutines, none of them to or from a send or a relay,
\* does not touch the queue.
LEMMA QuietStep ==
    ASSUME LoopInv,
           pc' \in [Goroutine -> Place], view' \in [Goroutine -> Nat],
           ret' \in [Caller -> {"idle", "process", "commit"}],
           UNCHANGED <<curView, mu, newViewChan, handled>>,
           \A g \in Goroutine : /\ pc'[g] = "push" <=> pc[g] = "push"
                                /\ pc[g] = "push" => view'[g] = view[g]
                                /\ pc'[g] = "relay" <=> pc[g] = "relay"
                                /\ pc[g] = "relay" => view'[g] = view[g],
           Dormant'
    PROVE  StepOK
<1>1. LoopInv'
  BY Zenon DEF LoopInv
<1>2. InHand' = InHand
  BY Zenon DEF InHand, Goroutine
<1>3. Sending' = Sending
  BY Zenon DEF Sending
<1> QED
  BY <1>1, <1>2, <1>3, Zenon DEF StepOK, queueVars, Queue

\* A goroutine that goes to another place leaves the others where they are.
LEMMA Moved ==
    ASSUME LoopInv, NEW g \in Goroutine, NEW to \in Place \ {"wait"},
           pc[g] # "off", pc' = [pc EXCEPT ![g] = to]
    PROVE  /\ pc' \in [Goroutine -> Place]
           /\ pc'[g] = to
           /\ \A h \in Goroutine \ {g} : pc'[h] = pc[h]
           /\ Dormant'
<1>1. /\ pc' \in [Goroutine -> Place] /\ pc'[g] = to
      /\ \A h \in Goroutine \ {g} : pc'[h] = pc[h]
  BY Zenon DEF LoopInv
<1> QED
  BY <1>1, Zenon DEF LoopInv, Dormant, Goroutine

\* A goroutine that works with another view leaves the views of the others alone.
LEMMA ViewSet ==
    ASSUME LoopInv, NEW g \in Goroutine, NEW v \in Nat, view' = [view EXCEPT ![g] = v]
    PROVE  /\ view' \in [Goroutine -> Nat]
           /\ view'[g] = v
           /\ \A h \in Goroutine \ {g} : view'[h] = view[h]
  BY Zenon DEF LoopInv

\* AdvanceView that finds the view over changes nothing; otherwise the new view
\* joins the queue.
LEMMA AdvanceOK ==
    ASSUME LoopInv, NEW g \in {"main", "listener", "txn"}, Advance(g)
    PROVE  StepOK
<1>0. g \in Goroutine /\ view[g] \in Nat /\ curView \in Nat /\ pc \in [Goroutine -> Place]
  BY Zenon DEF LoopInv, Goroutine
<1>1. CASE view[g] < curView
  <2>1. pc[g] = "advance" /\ pc' = [pc EXCEPT ![g] = ret[g]]
        /\ view' = [view EXCEPT ![g] = 0]
        /\ UNCHANGED <<ret, curView, mu, newViewChan, handled>>
    BY <1>0, <1>1 DEF Advance, Goto
  <2>2. ret[g] \in Place \ {"wait"} /\ ret[g] \in {"idle", "process", "commit"}
    BY Zenon DEF LoopInv, Caller, Processor, Place
  <2>3. pc' \in [Goroutine -> Place] /\ view' \in [Goroutine -> Nat]
    BY <1>0, <2>1, <2>2, Moved, ViewSet, Zenon
  <2>4. /\ pc'[g] = ret[g]
        /\ \A h \in Goroutine \ {g} : pc'[h] = pc[h] /\ view'[h] = view[h]
        /\ Dormant'
    BY <1>0, <2>1, <2>2, Moved, ViewSet, Zenon
  <2> QED
    BY <1>0, <2>1, <2>2, <2>3, <2>4, QuietStep, Zenon DEF LoopInv
<1>2. CASE view[g] >= curView
  <2>1. /\ mu = Nobody /\ pc[g] = "advance" /\ pc' = [pc EXCEPT ![g] = "push"]
        /\ curView' = view[g] + 1 /\ mu' = g
        /\ UNCHANGED <<view, ret, newViewChan, handled>>
    BY <1>0, <1>2 DEF Advance, Goto
  <2>2. g # Nobody /\ Nobody \notin Goroutine
    BY Zenon DEF Goroutine, Nobody
  <2>3. LoopInv'
    <3>1. /\ pc' \in [Goroutine -> Place] /\ pc'[g] = "push" /\ Dormant'
          /\ \A h \in Goroutine \ {g} : pc'[h] = pc[h]
      BY <1>0, <2>1, Moved, Zenon DEF Place
    <3>2. \A h \in Goroutine : pc'[h] = "push" <=> mu' = h
      BY <2>1, <2>2, <3>1, Zenon DEF LoopInv
    <3>3. curView' \in Nat /\ curView' = view'[mu'] + 1
      BY <1>0, <2>1
    <3> QED
      BY <1>0, <2>1, <3>1, <3>2, <3>3, Zenon DEF LoopInv
  <2>4. InHand' = InHand
    BY <1>0, <2>1, Zenon DEF InHand, Goroutine
  <2>5. Sending = << >> /\ Sending' = <<curView'>>
    BY <2>1, <2>2, Zenon DEF Sending
  <2>6. /\ InHand \o newViewChan \in Seq(Nat)
        /\ Queue = InHand \o newViewChan
    BY <2>5, QueueParts DEF Queue
  <2>7. Queue' = (InHand \o newViewChan) \o <<curView'>>
    BY <2>1, <2>4, <2>5, Zenon DEF Queue
  <2>8. curView' \in Nat /\ curView' > curView
    BY <1>0, <1>2, <2>1
  <2>9. Queue' = Append(Queue, curView')
    BY <2>6, <2>7, <2>8, AppendConcat, Zenon
  <2> QED
    BY <2>1, <2>3, <2>8, <2>9, Zenon DEF StepOK, VQ!Next, VQ!Advance
<1> QED
  BY <1>0, <1>1, <1>2

\* Sending the view moves it within the queue.
LEMMA PushOK ==
    ASSUME LoopInv, NEW g \in {"main", "listener", "txn"}, Push(g)
    PROVE  StepOK
<1>1. /\ g \in Goroutine /\ pc[g] = "push" /\ pc' = [pc EXCEPT ![g] = ret[g]]
      /\ newViewChan' = Append(newViewChan, view[g] + 1) /\ mu' = Nobody
      /\ view' = [view EXCEPT ![g] = 0] /\ UNCHANGED <<ret, curView, handled>>
  BY Zenon DEF Push, Goto, Goroutine
<1>2. ret[g] \in Place \ {"wait"} /\ ret[g] \in {"idle", "process", "commit"}
  BY Zenon DEF LoopInv, Caller, Processor, Place
<1>3. mu = g /\ g # Nobody /\ Nobody \notin Goroutine
  BY <1>1, Zenon DEF LoopInv, Goroutine, Nobody
<1>4. curView = view[g] + 1 /\ curView \in Nat
  BY <1>3, Zenon DEF LoopInv
<1>5. newViewChan' = newViewChan \o <<curView>> /\ newViewChan' \in Seq(Nat)
  BY <1>1, <1>4, AppendConcat DEF LoopInv
<1>6. LoopInv'
  <2>1. /\ pc' \in [Goroutine -> Place] /\ pc'[g] = ret[g] /\ Dormant'
        /\ \A h \in Goroutine \ {g} : pc'[h] = pc[h]
        /\ view' \in [Goroutine -> Nat]
    BY <1>1, <1>2, Moved, ViewSet, Zenon
  <2>2. \A h \in Goroutine : pc'[h] = "push" <=> mu' = h
    BY <1>1, <1>2, <1>3, <2>1, Zenon DEF LoopInv
  <2> QED
    BY <1>1, <1>4, <1>5, <2>1, <2>2, Zenon DEF LoopInv
<1>7. InHand' = InHand
  BY <1>1, <1>2, Zenon DEF InHand, Goroutine, LoopInv
<1>8. Sending = <<curView>> /\ Sending' = << >>
  BY <1>1, <1>3, Zenon DEF Sending
<1>9. Queue' = InHand \o newViewChan'
  <2>1. InHand \o newViewChan' \in Seq(Nat)
    BY <1>5, QueueParts
  <2> QED
    BY <1>7, <1>8, <2>1 DEF Queue
<1>10. Queue = InHand \o (newViewChan \o <<curView>>)
  <2>1. Queue = (InHand \o newViewChan) \o Sending
    BY Zenon DEF Queue
  <2>2. InHand \in Seq(Nat) /\ newViewChan \in Seq(Nat) /\ Sending \in Seq(Nat)
    BY QueueParts, Zenon
  <2>3. (InHand \o newViewChan) \o Sending = InHand \o (newViewChan \o Sending)
    BY <2>2, ConcatAssociative, Zenon
  <2> QED
    BY <1>8, <2>1, <2>3, Zenon
<1> QED
  BY <1>1, <1>5, <1>6, <1>9, <1>10, Zenon DEF StepOK, queueVars

\* ListenLocalEvent that takes a view moves it within the queue.
LEMMA TakeViewOK ==
    ASSUME LoopInv, TakeView
    PROVE  StepOK
<1>1. /\ "listener" \in Goroutine /\ "relay" \in Place \ {"wait"}
      /\ newViewChan # << >> /\ pc["listener"] = "select"
      /\ pc' = [pc EXCEPT !["listener"] = "relay"]
      /\ view' = [view EXCEPT !["listener"] = Head(newViewChan)]
      /\ newViewChan' = Tail(newViewChan)
      /\ UNCHANGED <<ret, curView, mu, handled>>
  BY Zenon DEF TakeView, Goto, Goroutine, Place
<1>2. Head(newViewChan) \in Nat /\ newViewChan' \in Seq(Nat)
  BY <1>1 DEF LoopInv
<1>3. /\ pc' \in [Goroutine -> Place] /\ pc'["listener"] = "relay" /\ Dormant'
      /\ \A h \in Goroutine \ {"listener"} : pc'[h] = pc[h]
  BY <1>1, Moved, Zenon
<1>4. /\ view' \in [Goroutine -> Nat] /\ view'["listener"] = Head(newViewChan)
      /\ \A h \in Goroutine \ {"listener"} : view'[h] = view[h]
  BY <1>1, <1>2, ViewSet, Zenon
<1>5. mu # "listener"
  BY <1>1, Zenon DEF LoopInv
<1>6. LoopInv'
  BY <1>1, <1>2, <1>3, <1>4, <1>5, Zenon DEF LoopInv
<1>7. InHand = << >> /\ InHand' = <<Head(newViewChan)>>
  BY <1>1, <1>3, <1>4, Zenon DEF InHand
<1>8. InHand' \o newViewChan' = InHand \o newViewChan
  BY <1>1, <1>7, QueueParts, HeadThenTail
<1>9. Sending' = Sending
  BY <1>1, Zenon DEF Sending
<1> QED
  BY <1>1, <1>6, <1>8, <1>9, Zenon DEF StepOK, queueVars, Queue

\* The event loop gets the oldest view of the queue.
LEMMA RelayOK ==
    ASSUME LoopInv, Relay
    PROVE  StepOK
<1>0. PICK place \in {"process", "propose"} :
        pc' = [pc EXCEPT !["listener"] = "select", !["main"] = place]
  BY Zenon DEF Relay
<1>1. /\ "listener" \in Goroutine /\ "main" \in Goroutine
      /\ pc["listener"] = "relay" /\ pc["main"] = "loop"
      /\ pc' = [pc EXCEPT !["listener"] = "select", !["main"] = place]
      /\ handled' = view["listener"]
      /\ view' = [view EXCEPT !["listener"] = 0]
      /\ UNCHANGED <<ret, curView, mu, newViewChan>>
  BY <1>0, Zenon DEF Relay, Goroutine
<1>2. /\ pc' \in [Goroutine -> Place]
      /\ pc'["listener"] = "select" /\ pc'["main"] = place
      /\ \A h \in Goroutine \ {"listener", "main"} : pc'[h] = pc[h]
      /\ Dormant'
  BY <1>1, Zenon DEF LoopInv, Place, Dormant
<1>3. /\ view' \in [Goroutine -> Nat]
      /\ \A h \in Goroutine \ {"listener"} : view'[h] = view[h]
  BY <1>1, ViewSet, Zenon
<1>4. mu # "listener"
  BY <1>1, Zenon DEF LoopInv
<1>5. \A h \in Goroutine : pc'[h] = "push" <=> pc[h] = "push"
  BY <1>1, <1>2, Zenon
<1>6. LoopInv'
  BY <1>1, <1>2, <1>3, <1>4, <1>5, Zenon DEF LoopInv
<1>7. InHand = <<view["listener"]>> /\ InHand' = << >> /\ Sending' = Sending
  BY <1>1, <1>2, Zenon DEF InHand, Sending
<1>8. /\ newViewChan \in Seq(Nat) /\ Sending \in Seq(Nat)
      /\ newViewChan \o Sending \in Seq(Nat) /\ view["listener"] \in Nat
  BY <1>1, QueueParts DEF LoopInv
<1>9. Queue' = newViewChan \o Sending
  BY <1>1, <1>7, <1>8 DEF Queue
<1>10. Queue = <<view["listener"]>> \o (newViewChan \o Sending)
  BY <1>7, <1>8, QueueParts DEF Queue
<1>11. Queue # << >> /\ handled' = Head(Queue) /\ Queue' = Tail(Queue)
  BY <1>1, <1>8, <1>9, <1>10, HeadConcat, Zenon
<1> QED
  BY <1>1, <1>6, <1>11, Zenon DEF StepOK, VQ!Next, VQ!Take

\* A step of one goroutine that neither sends nor relays.
LEMMA MoveOK ==
    ASSUME LoopInv, NEW g \in Goroutine, NEW to \in Place \ {"push", "relay", "wait"},
           pc[g] \notin {"push", "relay", "off"}, pc' = [pc EXCEPT ![g] = to],
           view' \in [Goroutine -> Nat],
           \A h \in Goroutine \ {g} : view'[h] = view[h],
           ret' \in [Caller -> {"idle", "process", "commit"}],
           UNCHANGED <<curView, mu, newViewChan, handled>>
    PROVE  StepOK
<1>1. /\ pc' \in [Goroutine -> Place] /\ pc'[g] = to /\ Dormant'
      /\ \A h \in Goroutine \ {g} : pc'[h] = pc[h]
  BY Moved, Zenon
<1> QED
  BY <1>1, QuietStep, Zenon

\* The same, when the goroutine keeps its view.
LEMMA StayOK ==
    ASSUME LoopInv, NEW g \in Goroutine, NEW to \in Place \ {"push", "relay", "wait"},
           pc[g] \notin {"push", "relay", "off"}, pc' = [pc EXCEPT ![g] = to],
           UNCHANGED <<view, ret, curView, mu, newViewChan, handled>>
    PROVE  StepOK
  BY MoveOK, Zenon DEF LoopInv

\* The handlers of the protocol keep the queue, on both goroutines that run them.
LEMMA ProcessOK ==
    ASSUME LoopInv, NEW g \in Processor, Process(g)
    PROVE  StepOK
<1>0. /\ g \in Goroutine /\ g \in {"main", "listener", "txn"}
      /\ AfterCertificate(g) \in Place \ {"push", "relay", "wait"}
  BY Zenon DEF Processor, Goroutine, AfterCertificate, Place
<1>1. CASE Certify(g)
  <2>1. PICK v \in curView..(MaxView - 1) : view' = [view EXCEPT ![g] = v]
    BY <1>1, Zenon DEF Certify
  <2>2. v \in Nat
    BY <2>1, LoopAssumption DEF LoopInv, LoopAssumption
  <2>3. /\ view' \in [Goroutine -> Nat]
        /\ \A h \in Goroutine \ {g} : view'[h] = view[h]
    BY <1>0, <2>1, <2>2, ViewSet, Zenon
  <2>4. ret' \in [Caller -> {"idle", "process", "commit"}]
    BY <1>1, Zenon DEF Certify, LoopInv
  <2> QED
    BY <1>0, <1>1, <2>3, <2>4, MoveOK, Zenon DEF Certify, Goto, Place
<1>2. CASE Commit(g)
  <2>1. CASE Goto(g, "commit", AfterCertificate(g))
    BY <1>0, <1>2, <2>1, StayOK, Zenon DEF Commit, Goto, data, Place
  <2>2. CASE Goto(g, "commit", "deliver")
    BY <1>0, <1>2, <2>2, StayOK, Zenon DEF Commit, Goto, data, Place
  <2> QED
    BY <1>2, <2>1, <2>2, Zenon DEF Commit
<1>3. CASE Deliver(g)
  BY <1>0, <1>3, StayOK, Zenon DEF Deliver, Goto, data, Place
<1>4. CASE Done(g)
  BY <1>0, <1>4, StayOK, Zenon DEF Done, Goto, data, Place
<1> QED
  BY <1>0, <1>1, <1>2, <1>3, <1>4, AdvanceOK, PushOK, Zenon DEF Process

\* The start signal leaves the queue alone.
LEMMA StartSignalOK ==
    ASSUME LoopInv, NEW g \in {"handle", "txn"}, StartSignal(g)
    PROVE  StepOK
<1>0. g \in Goroutine /\ AfterStart(g) \in Place \ {"push", "relay", "wait"}
  BY Zenon DEF Goroutine, AfterStart, Place
<1>1. CASE CheckStarted(g)
  <2>1. (IF isStarted THEN AfterStart(g) ELSE "store") \in Place \ {"push", "relay", "wait"}
    BY <1>0, Zenon DEF Place
  <2> QED
    BY <1>0, <1>1, <2>1, StayOK, Zenon DEF CheckStarted, Goto, data
<1>2. CASE Store(g)
  BY <1>0, <1>2, StayOK, Zenon DEF Store, Goto, data, Place
<1>3. CASE Signal(g)
  <2>1. /\ pc[g] = "signal" /\ pc["main"] = "wait"
        /\ pc' = [pc EXCEPT ![g] = AfterStart(g), !["main"] = "loop",
                            !["listener"] = "select", !["committer"] = "select"]
        /\ UNCHANGED <<view, ret, curView, mu, newViewChan, handled>>
    BY <1>3, Zenon DEF Signal, data
  <2>2. pc["listener"] = "off" /\ pc["committer"] = "off"
    BY <2>1, Zenon DEF LoopInv, Dormant
  <2>3. /\ pc' \in [Goroutine -> Place]
        /\ pc'[g] = AfterStart(g) /\ pc'["main"] = "loop"
        /\ pc'["listener"] = "select" /\ pc'["committer"] = "select"
        /\ \A h \in Goroutine \ {g, "main", "listener", "committer"} : pc'[h] = pc[h]
    BY <1>0, <2>1, Zenon DEF LoopInv, Place, Goroutine
  <2>4. /\ Dormant' /\ view' \in [Goroutine -> Nat]
        /\ ret' \in [Caller -> {"idle", "process", "commit"}]
    BY <2>1, <2>3, Zenon DEF Dormant, LoopInv
  <2> QED
    BY <1>0, <2>1, <2>2, <2>3, <2>4, QuietStep, Zenon
<1> QED
  BY <1>1, <1>2, <1>3, Zenon DEF StartSignal

\* Messages, transactions, timers and blocks leave the queue alone.
LEMMA InputOK ==
    ASSUME LoopInv,
           \/ Receive \/ Filter \/ Post \/ ReceiveTxn \/ KickOff \/ TimerFires
           \/ MakePProposal \/ Committer
    PROVE  StepOK
<1>0. /\ "handle" \in Goroutine /\ "txn" \in Goroutine /\ "listener" \in Goroutine
      /\ "committer" \in Goroutine /\ "main" \in Goroutine
  BY Zenon DEF Goroutine
<1>1. CASE Receive
  <2>1. PICK kind \in Kinds :
            Goto("handle", "idle", CASE kind = "block" -> "start"
                                     [] kind = "vote"  -> "filterVote"
                                     [] kind = "tmo"   -> "filterTmo")
    BY <1>1, Zenon DEF Receive
  <2>2. kind \in {"block", "vote", "tmo"}
    BY <2>1, LoopAssumption, Zenon DEF LoopAssumption
  <2>3. \E to \in {"start", "filterVote", "filterTmo"} : Goto("handle", "idle", to)
    BY <2>1, <2>2, Zenon
  <2> QED
    BY <1>0, <1>1, <2>3, StayOK, Zenon DEF Receive, Goto, data, Place
<1>2. CASE Filter
  <2>1. \E from \in {"filterVote", "filterTmo"}, to \in {"idle", "start", "post"} :
            Goto("handle", from, to)
    BY <1>2, Zenon DEF Filter
  <2> QED
    BY <1>0, <1>2, <2>1, StayOK, Zenon DEF Filter, Goto, data, Place
<1>3. CASE Post
  <2>1. /\ pc["handle"] = "post" /\ pc["main"] = "loop"
        /\ pc' = [pc EXCEPT !["handle"] = "idle", !["main"] = "process"]
        /\ UNCHANGED <<view, ret, curView, mu, newViewChan, handled>>
    BY <1>3, Zenon DEF Post, data
  <2>2. /\ pc' \in [Goroutine -> Place]
        /\ pc'["handle"] = "idle" /\ pc'["main"] = "process"
        /\ \A h \in Goroutine \ {"handle", "main"} : pc'[h] = pc[h]
    BY <1>0, <2>1, Zenon DEF LoopInv, Place
  <2>3. /\ Dormant' /\ view' \in [Goroutine -> Nat]
        /\ ret' \in [Caller -> {"idle", "process", "commit"}]
    BY <2>1, <2>2, Zenon DEF Dormant, LoopInv
  <2> QED
    BY <1>0, <2>1, <2>2, <2>3, QuietStep, Zenon
<1>4. CASE ReceiveTxn
  BY <1>0, <1>4, StayOK, Zenon DEF ReceiveTxn, Goto, data, Place
<1>5. CASE KickOff
  <2>1. /\ view' \in [Goroutine -> Nat]
        /\ \A h \in Goroutine \ {"txn"} : view'[h] = view[h]
    BY <1>0, <1>5, ViewSet, Zenon DEF KickOff
  <2>2. \E to \in {"advance", "idle"} : Goto("txn", "kickoff", to)
    BY <1>5, Zenon DEF KickOff
  <2> QED
    BY <1>0, <1>5, <2>1, <2>2, MoveOK, Zenon DEF KickOff, Goto, Place, LoopInv
<1>6. CASE TimerFires
  <2>1. /\ view' \in [Goroutine -> Nat]
        /\ \A h \in Goroutine \ {"listener"} : view'[h] = view[h]
    BY <1>0, <1>6, ViewSet, Zenon DEF TimerFires, LoopInv
  <2>2. ret' \in [Caller -> {"idle", "process", "commit"}]
    BY <1>6, Zenon DEF TimerFires, LoopInv
  <2> QED
    BY <1>0, <1>6, <2>1, <2>2, MoveOK, Zenon DEF TimerFires, Goto, Place
<1>7. CASE Committer
  <2>1. CASE TakeBlock
    BY <1>0, <2>1, StayOK, Zenon DEF TakeBlock, Goto, Place
  <2>2. CASE Report
    BY <1>0, <2>2, StayOK, Zenon DEF Report, Goto, data, Place
  <2> QED
    BY <1>7, <2>1, <2>2, Zenon DEF Committer
<1>8. CASE MakePProposal
  BY <1>0, <1>8, StayOK, Zenon DEF MakePProposal, Goto, data, Place
<1> QED
  BY <1>1, <1>2, <1>3, <1>4, <1>5, <1>6, <1>7, <1>8, Zenon

\* Every step of the replica is a step of the queue, or leaves it alone.
LEMMA NextOK ==
    ASSUME LoopInv, [Next]_vars
    PROVE  StepOK
<1>1. CASE UNCHANGED vars
  <2>1. /\ UNCHANGED <<pc, view, ret, curView, mu, newViewChan, handled>>
    BY <1>1, Zenon DEF vars, data
  <2> QED
    BY <2>1, QuietStep, Zenon DEF LoopInv, Dormant
<1>2. CASE Handle
  BY <1>2, StartSignalOK, InputOK, Zenon DEF Handle
<1>3. CASE Txn
  BY <1>3, StartSignalOK, InputOK, AdvanceOK, PushOK, Zenon DEF Txn
<1>4. CASE Main
  BY <1>4, ProcessOK, Zenon DEF Main, Processor
<1>5. CASE Listener
  BY <1>5, ProcessOK, TakeViewOK, RelayOK, Zenon DEF Listener, Processor
<1>6. CASE Committer \/ Receive \/ ReceiveTxn \/ TimerFires \/ MakePProposal
  BY <1>6, InputOK, Zenon
<1> QED
  BY <1>1, <1>2, <1>3, <1>4, <1>5, <1>6, Zenon DEF Next

-----------------------------------------------------------------------------
(* The theorem *)

\* For all capacities of the channels and whatever goroutines advance the view, the
\* event loop of a replica gets every view once and in the order in which the
\* pacemaker entered them.
THEOREM LoopImplementsViewQueue == Spec => ViewsInOrder
<1>1. Init => LoopInv
  BY DEF Init, LoopInv, Dormant, Goroutine, Caller, Processor, Nobody, Place
<1>2. Init => VQ!Init
  <2> SUFFICES ASSUME Init PROVE VQ!Init
    BY Zenon
  <2>1. InHand = << >> /\ newViewChan = << >> /\ Sending = << >>
    BY Zenon DEF Init, InHand, Sending, Goroutine
  <2>2. Queue = << >>
    BY <2>1 DEF Queue
  <2> QED
    BY <2>2, Zenon DEF Init, VQ!Init
<1>3. LoopInv /\ [Next]_vars => LoopInv'
  BY NextOK, Zenon DEF StepOK
<1>4. LoopInv /\ [Next]_vars => [VQ!Next]_<<curView, Queue, handled>>
  BY NextOK, Zenon DEF StepOK, queueVars
<1> QED
  BY <1>1, <1>2, <1>3, <1>4, PTL DEF Spec, ViewsInOrder, VQ!Spec

-----------------------------------------------------------------------------
(* The types *)

\* The types of the variables that LoopInv does not bound, and why they last: only a
\* view below the last one is advanced from, and who delivers has a block to deliver.
Bounds ==
    /\ view \in [Goroutine -> 0..MaxView]
    /\ commits \in [Processor -> 0..MaxCommit]
    /\ isStarted \in BOOLEAN
    /\ curView \in 0..MaxView
    /\ newViewChan \in Seq(1..MaxView) /\ Len(newViewChan) <= ViewCapacity
    /\ committedBlocks \in 0..BlockCapacity
    /\ handled \in 0..MaxView
    /\ \A g \in Caller : pc[g] = "advance" => view[g] < MaxView
    /\ \A g \in Processor : pc[g] = "deliver" => commits[g] > 0

\* The bounds do not depend on the places other than "advance" and "deliver".
LEMMA BoundsKept ==
    ASSUME Bounds, UNCHANGED <<view, commits, curView, newViewChan, committedBlocks, handled>>,
           isStarted' \in BOOLEAN,
           \A g \in Caller : pc'[g] = "advance" => pc[g] = "advance",
           \A g \in Processor : pc'[g] = "deliver" => pc[g] = "deliver"
    PROVE  Bounds'
  BY Zenon DEF Bounds

\* A goroutine that moves elsewhere does not disturb the bounds.
LEMMA GotoKeeps ==
    ASSUME LoopInv, Bounds, NEW g \in Goroutine, NEW from, NEW to \in Place \ {"advance", "deliver"},
           Goto(g, from, to), isStarted' \in BOOLEAN,
           UNCHANGED <<view, commits, curView, newViewChan, committedBlocks, handled>>
    PROVE  Bounds'
<1>1. Caller \subseteq Goroutine /\ Processor \subseteq Goroutine
  BY Zenon DEF Caller, Processor, Goroutine
<1>2. \A h \in Goroutine : pc'[h] = IF h = g THEN to ELSE pc[h]
  BY Zenon DEF Goto, LoopInv
<1> QED
  BY <1>1, <1>2, BoundsKept, Zenon

\* A goroutine that works with another view does not disturb the bounds if it may
\* advance from it.
LEMMA ViewBound ==
    ASSUME LoopInv, Bounds, NEW g \in Goroutine, NEW from, NEW to \in Place \ {"deliver"},
           Goto(g, from, to),
           NEW v \in 0..MaxView, view' = [view EXCEPT ![g] = v],
           to = "advance" => v < MaxView,
           commits' \in [Processor -> 0..MaxCommit],
           \A h \in Processor \ {g} : commits'[h] = commits[h],
           curView' \in 0..MaxView,
           newViewChan' \in Seq(1..MaxView), Len(newViewChan') <= ViewCapacity,
           UNCHANGED <<isStarted, committedBlocks, handled>>
    PROVE  Bounds'
<1>1. Caller \subseteq Goroutine /\ Processor \subseteq Goroutine
  BY Zenon DEF Caller, Processor, Goroutine
<1>2. \A h \in Goroutine : pc'[h] = IF h = g THEN to ELSE pc[h]
  BY Zenon DEF Goto, LoopInv
<1>3. view' \in [Goroutine -> 0..MaxView] /\ view'[g] = v
      /\ \A h \in Goroutine \ {g} : view'[h] = view[h]
  BY Zenon DEF Bounds
<1>4. \A h \in Caller : pc'[h] = "advance" => view'[h] < MaxView
  BY <1>1, <1>2, <1>3, Zenon DEF Bounds
<1>5. \A h \in Processor : pc'[h] = "deliver" => commits'[h] > 0
  BY <1>1, <1>2, Zenon DEF Bounds
<1> QED
  BY <1>3, <1>4, <1>5, Zenon DEF Bounds

\* AdvanceView enters a view that is in bounds.
LEMMA AdvanceBound ==
    ASSUME LoopInv, Bounds, NEW g \in Caller, Advance(g)
    PROVE  Bounds'
<1>0. /\ g \in Goroutine /\ view[g] \in 0..MaxView /\ curView \in 0..MaxView /\ MaxView \in Nat
      /\ ret[g] \in Place \ {"advance", "deliver"}
      /\ UNCHANGED <<commits, isStarted, newViewChan, committedBlocks, handled>>
  BY LoopAssumption, Zenon DEF LoopInv, Bounds, Goroutine, Caller, Processor, LoopAssumption, Place, Advance
<1>a. /\ commits' \in [Processor -> 0..MaxCommit]
      /\ \A h \in Processor \ {g} : commits'[h] = commits[h]
      /\ newViewChan' \in Seq(1..MaxView) /\ Len(newViewChan') <= ViewCapacity
  BY <1>0, Zenon DEF Bounds
<1>1. CASE view[g] < curView
  <2>1. Goto(g, "advance", ret[g]) /\ view' = [view EXCEPT ![g] = 0] /\ curView' = curView
    BY <1>0, <1>1 DEF Advance
  <2>2. 0 \in 0..MaxView
    BY <1>0
  <2> QED
    BY <1>0, <1>a, <2>1, <2>2, ViewBound, Zenon
<1>2. CASE view[g] >= curView
  <2>1. Goto(g, "advance", "push") /\ view' = view /\ curView' = view[g] + 1
    BY <1>0, <1>2 DEF Advance
  <2>2. view[g] < MaxView
    BY <2>1, Zenon DEF Goto, Bounds
  <2>3. curView' \in 0..MaxView
    BY <1>0, <2>1, <2>2
  <2>4. Caller \subseteq Goroutine /\ Processor \subseteq Goroutine
    BY Zenon DEF Caller, Processor, Goroutine
  <2>5. \A h \in Goroutine : pc'[h] = IF h = g THEN "push" ELSE pc[h]
    BY <2>1, Zenon DEF Goto, LoopInv
  <2> QED
    BY <1>0, <2>1, <2>3, <2>4, <2>5, Zenon DEF Bounds
<1> QED
  BY <1>0, <1>1, <1>2

\* The view that AdvanceView sends is the current one.
LEMMA PushBound ==
    ASSUME LoopInv, Bounds, NEW g \in Caller, Push(g)
    PROVE  Bounds'
<1>0. /\ g \in Goroutine /\ curView \in 0..MaxView /\ MaxView \in Nat
      /\ ret[g] \in Place \ {"advance", "deliver"}
      /\ UNCHANGED <<commits, isStarted, curView, committedBlocks, handled>>
      /\ Goto(g, "push", ret[g]) /\ view' = [view EXCEPT ![g] = 0]
      /\ newViewChan' = Append(newViewChan, view[g] + 1)
      /\ Len(newViewChan) < ViewCapacity
      /\ ViewCapacity \in Nat
  BY LoopAssumption, Zenon DEF LoopInv, Bounds, Goroutine, Caller, Processor, LoopAssumption, Place, Push
<1>1. mu = g /\ g # Nobody
  BY <1>0, Zenon DEF LoopInv, Goto, Goroutine, Nobody
<1>2. curView = view[g] + 1 /\ view[g] \in Nat
  BY <1>0, <1>1, Zenon DEF LoopInv
<1>3. view[g] + 1 \in 1..MaxView
  BY <1>0, <1>2
<1>4. newViewChan \in Seq(1..MaxView)
  BY Zenon DEF Bounds
<1>5. newViewChan' \in Seq(1..MaxView) /\ Len(newViewChan') = Len(newViewChan) + 1
  BY <1>0, <1>3, <1>4
<1>6. Len(newViewChan') <= ViewCapacity /\ 0 \in 0..MaxView
  BY <1>0, <1>4, <1>5
<1>7. /\ commits' \in [Processor -> 0..MaxCommit] /\ curView' \in 0..MaxView
      /\ \A h \in Processor \ {g} : commits'[h] = commits[h]
  BY <1>0, Zenon DEF Bounds
<1> QED
  BY <1>0, <1>5, <1>6, <1>7, ViewBound, Zenon


\* The handlers of the protocol keep the bounds.
LEMMA ProcessBound ==
    ASSUME LoopInv, Bounds, NEW g \in Processor, Process(g)
    PROVE  Bounds'
<1>0. /\ g \in Goroutine /\ g \in Caller /\ MaxView \in Nat /\ MaxCommit \in Nat
      /\ AfterCertificate(g) \in Place \ {"advance", "deliver"}
      /\ Caller \subseteq Goroutine /\ Processor \subseteq Goroutine
      /\ commits[g] \in 0..MaxCommit /\ curView \in 0..MaxView
  BY LoopAssumption, Zenon
     DEF Processor, Goroutine, Caller, AfterCertificate, Place, LoopAssumption, Bounds
<1>1. CASE Certify(g)
  <2>1. PICK v \in curView..(MaxView - 1) : view' = [view EXCEPT ![g] = v]
    BY <1>1, Zenon DEF Certify
  <2>2. v \in 0..MaxView /\ v < MaxView
    BY <1>0, <2>1
  <2>3. PICK n \in 0..MaxCommit : commits' = [commits EXCEPT ![g] = n]
    BY <1>1, Zenon DEF Certify
  <2>4. /\ commits' \in [Processor -> 0..MaxCommit]
        /\ \A h \in Processor \ {g} : commits'[h] = commits[h]
    BY <2>3, Zenon DEF Bounds
  <2>5. /\ curView' \in 0..MaxView /\ UNCHANGED <<isStarted, committedBlocks, handled>>
        /\ newViewChan' \in Seq(1..MaxView) /\ Len(newViewChan') <= ViewCapacity
        /\ Goto(g, "process", "advance")
    BY <1>1, Zenon DEF Certify, Bounds
  <2>6. "advance" \in Place \ {"deliver"}
    BY Zenon DEF Place
  <2> QED
    BY <1>0, <2>1, <2>2, <2>4, <2>5, <2>6, ViewBound, Zenon
<1>2. CASE Commit(g)
  <2>0. UNCHANGED data /\ isStarted' \in BOOLEAN
    BY <1>2, Zenon DEF Commit, data, Bounds
  <2>1. CASE Goto(g, "commit", AfterCertificate(g))
    BY <1>0, <2>0, <2>1, GotoKeeps, Zenon DEF data
  <2>2. CASE commits[g] > 0 /\ Goto(g, "commit", "deliver")
    <3>1. \A h \in Goroutine : pc'[h] = IF h = g THEN "deliver" ELSE pc[h]
      BY <2>2, Zenon DEF Goto, LoopInv
    <3> QED
      BY <1>0, <2>0, <2>2, <3>1, Zenon DEF Bounds, data
  <2> QED
    BY <1>2, <2>1, <2>2, Zenon DEF Commit
<1>3. CASE Deliver(g)
  <2>0. /\ committedBlocks < BlockCapacity /\ committedBlocks' = committedBlocks + 1
        /\ commits' = [commits EXCEPT ![g] = commits[g] - 1]
        /\ pc[g] = "deliver"
        /\ pc' = [pc EXCEPT ![g] = IF commits[g] = 1 THEN AfterCertificate(g) ELSE "deliver"]
        /\ UNCHANGED <<view, isStarted, curView, newViewChan, handled>>
    BY <1>3, Zenon DEF Deliver, Goto
  <2>1. commits[g] > 0
    BY <2>0, Zenon DEF Bounds
  <2>2. commits[g] - 1 \in 0..MaxCommit /\ (commits[g] # 1 => commits[g] - 1 > 0)
    BY <1>0, <2>1
  <2>3. /\ commits' \in [Processor -> 0..MaxCommit] /\ commits'[g] = commits[g] - 1
        /\ \A h \in Processor \ {g} : commits'[h] = commits[h]
    BY <2>0, <2>2, Zenon DEF Bounds
  <2>4. committedBlocks' \in 0..BlockCapacity
    BY <2>0, LoopAssumption DEF Bounds, LoopAssumption
  <2>5. /\ \A h \in Goroutine \ {g} : pc'[h] = pc[h]
        /\ pc'[g] = IF commits[g] = 1 THEN AfterCertificate(g) ELSE "deliver"
    BY <1>0, <2>0, Zenon DEF LoopInv
  <2>6. \A h \in Caller : pc'[h] = "advance" => view'[h] < MaxView
    BY <1>0, <2>0, <2>5, Zenon DEF Bounds
  <2>7. \A h \in Processor : pc'[h] = "deliver" => commits'[h] > 0
    <3> SUFFICES ASSUME NEW h \in Processor, pc'[h] = "deliver" PROVE commits'[h] > 0
      BY Zenon
    <3>1. CASE h = g
      BY <1>0, <2>2, <2>3, <2>5, <3>1, Zenon
    <3>2. CASE h # g
      BY <1>0, <2>3, <2>5, <3>2, Zenon DEF Bounds
    <3> QED
      BY <3>1, <3>2, Zenon
  <2> QED
    BY <2>0, <2>3, <2>4, <2>6, <2>7, Zenon DEF Bounds
<1>4. CASE Done(g)
  <2>1. (IF g = "main" THEN "loop" ELSE "select") \in Place \ {"advance", "deliver"}
    BY Zenon DEF Place
  <2>2. isStarted' \in BOOLEAN
    BY <1>4, Zenon DEF Done, data, Bounds
  <2> QED
    BY <1>0, <1>4, <2>1, <2>2, GotoKeeps, Zenon DEF Done, data
<1> QED
  BY <1>0, <1>1, <1>2, <1>3, <1>4, AdvanceBound, PushBound, Zenon DEF Process

\* The start signal keeps the bounds.
LEMMA StartSignalBound ==
    ASSUME LoopInv, Bounds, NEW g \in {"handle", "txn"}, StartSignal(g)
    PROVE  Bounds'
<1>0. g \in Goroutine /\ AfterStart(g) \in Place \ {"advance", "deliver"}
  BY Zenon DEF Goroutine, AfterStart, Place
<1>1. CASE CheckStarted(g)
  <2>1. (IF isStarted THEN AfterStart(g) ELSE "store") \in Place \ {"advance", "deliver"}
    BY <1>0, Zenon DEF Place
  <2>2. isStarted' \in BOOLEAN
    BY <1>1, Zenon DEF CheckStarted, data, Bounds
  <2> QED
    BY <1>0, <1>1, <2>1, <2>2, GotoKeeps, Zenon DEF CheckStarted, data
<1>2. CASE Store(g)
  <2>1. isStarted' \in BOOLEAN /\ "signal" \in Place \ {"advance", "deliver"}
    BY <1>2, Zenon DEF Store, Place
  <2> QED
    BY <1>0, <1>2, <2>1, GotoKeeps, Zenon DEF Store
<1>3. CASE Signal(g)
  <2>1. pc' = [pc EXCEPT ![g] = AfterStart(g), !["main"] = "loop",
                         !["listener"] = "select", !["committer"] = "select"]
    BY <1>3, Zenon DEF Signal
  <2>2. \A h \in Goroutine : pc'[h] \in {AfterStart(g), "loop", "select", pc[h]}
    BY <1>0, <2>1, Zenon DEF LoopInv, Goroutine
  <2>3. Caller \subseteq Goroutine /\ Processor \subseteq Goroutine
    BY Zenon DEF Caller, Processor, Goroutine
  <2>4. UNCHANGED data /\ isStarted' \in BOOLEAN
    BY <1>3, Zenon DEF Signal, data, Bounds
  <2> QED
    BY <1>0, <2>2, <2>3, <2>4, BoundsKept, Zenon DEF data
<1> QED
  BY <1>1, <1>2, <1>3, Zenon DEF StartSignal


\* Messages, transactions, timers and blocks keep the bounds.
LEMMA InputBound ==
    ASSUME LoopInv, Bounds,
           \/ Receive \/ Filter \/ Post \/ ReceiveTxn \/ KickOff \/ TimerFires
           \/ MakePProposal \/ Committer
    PROVE  Bounds'
<1>0. /\ "handle" \in Goroutine /\ "txn" \in Goroutine /\ "listener" \in Goroutine
      /\ "committer" \in Goroutine /\ "main" \in Goroutine
      /\ Caller \subseteq Goroutine /\ Processor \subseteq Goroutine
      /\ MaxView \in Nat /\ MaxView > 0 /\ curView \in 0..MaxView
      /\ {"start", "filterVote", "filterTmo", "idle", "post", "process", "report", "select"}
            \subseteq Place \ {"advance", "deliver"}
      /\ UNCHANGED data => isStarted' \in BOOLEAN
  BY LoopAssumption DEF Goroutine, Caller, Processor, LoopAssumption, Bounds, Place, data
<1>1. CASE Receive
  <2>1. PICK kind \in Kinds :
            Goto("handle", "idle", CASE kind = "block" -> "start"
                                     [] kind = "vote"  -> "filterVote"
                                     [] kind = "tmo"   -> "filterTmo")
    BY <1>1, Zenon DEF Receive
  <2>2. kind \in {"block", "vote", "tmo"}
    BY <2>1, LoopAssumption, Zenon DEF LoopAssumption
  <2>3. \E to \in {"start", "filterVote", "filterTmo"} : Goto("handle", "idle", to)
    BY <2>1, <2>2, Zenon
  <2> QED
    BY <1>0, <1>1, <2>3, GotoKeeps, Zenon DEF Receive, data
<1>2. CASE Filter
  <2>1. \E from \in {"filterVote", "filterTmo"}, to \in {"idle", "start", "post"} :
            Goto("handle", from, to)
    BY <1>2, Zenon DEF Filter
  <2> QED
    BY <1>0, <1>2, <2>1, GotoKeeps, Zenon DEF Filter, data
<1>3. CASE Post
  <2>1. pc' = [pc EXCEPT !["handle"] = "idle", !["main"] = "process"]
        /\ UNCHANGED data /\ isStarted' \in BOOLEAN
    BY <1>0, <1>3, Zenon DEF Post
  <2>2. \A h \in Goroutine : pc'[h] \in {"idle", "process", pc[h]}
    BY <1>0, <2>1, Zenon DEF LoopInv
  <2> QED
    BY <1>0, <2>1, <2>2, BoundsKept, Zenon DEF data
<1>4. CASE ReceiveTxn
  BY <1>0, <1>4, GotoKeeps, Zenon DEF ReceiveTxn, data
<1>5. CASE KickOff
  <2>1. PICK to \in {"advance", "idle"} : Goto("txn", "kickoff", to)
    BY <1>5, Zenon DEF KickOff
  <2>2. /\ view' = [view EXCEPT !["txn"] = 0]
        /\ UNCHANGED <<commits, isStarted, curView, newViewChan, committedBlocks, handled>>
    BY <1>5, Zenon DEF KickOff
  <2>3. /\ commits' \in [Processor -> 0..MaxCommit] /\ curView' \in 0..MaxView
        /\ \A h \in Processor \ {"txn"} : commits'[h] = commits[h]
        /\ newViewChan' \in Seq(1..MaxView) /\ Len(newViewChan') <= ViewCapacity
    BY <2>2, Zenon DEF Bounds
  <2>4. to \in Place \ {"deliver"} /\ 0 \in 0..MaxView /\ 0 < MaxView
    BY <1>0, <2>1 DEF Place
  <2> QED
    BY <1>0, <2>1, <2>2, <2>3, <2>4, ViewBound, Zenon
<1>6. CASE TimerFires
  <2>1. /\ Goto("listener", "select", "advance") /\ curView < MaxView
        /\ view' = [view EXCEPT !["listener"] = curView]
        /\ UNCHANGED <<commits, isStarted, curView, newViewChan, committedBlocks, handled>>
    BY <1>6, Zenon DEF TimerFires
  <2>3. /\ commits' \in [Processor -> 0..MaxCommit] /\ curView' \in 0..MaxView
        /\ \A h \in Processor \ {"listener"} : commits'[h] = commits[h]
        /\ newViewChan' \in Seq(1..MaxView) /\ Len(newViewChan') <= ViewCapacity
    BY <2>1, Zenon DEF Bounds
  <2>4. "advance" \in Place \ {"deliver"}
    BY Zenon DEF Place
  <2> QED
    BY <1>0, <2>1, <2>3, <2>4, ViewBound, Zenon
<1>7. CASE Committer
  <2>1. CASE TakeBlock
    <3>1. /\ Goto("committer", "select", "report") /\ committedBlocks > 0
          /\ committedBlocks' = committedBlocks - 1
          /\ UNCHANGED <<view, commits, isStarted, curView, newViewChan, handled>>
      BY <2>1, Zenon DEF TakeBlock
    <3>2. committedBlocks' \in 0..BlockCapacity
      BY <3>1, LoopAssumption DEF Bounds, LoopAssumption
    <3>3. \A h \in Goroutine : pc'[h] \in {"report", pc[h]}
      BY <1>0, <3>1, Zenon DEF Goto, LoopInv
    <3> QED
      BY <1>0, <3>1, <3>2, <3>3, Zenon DEF Bounds
  <2>2. CASE Report
    BY <1>0, <2>2, GotoKeeps, Zenon DEF Report, data
  <2> QED
    BY <1>7, <2>1, <2>2, Zenon DEF Committer
<1>8. CASE MakePProposal
  BY <1>0, <1>8, GotoKeeps, Zenon DEF MakePProposal, data
<1> QED
  BY <1>1, <1>2, <1>3, <1>4, <1>5, <1>6, <1>7, <1>8, Zenon

\* The listener keeps the bounds: the views that it takes were sent by AdvanceView.
LEMMA RelayBound ==
    ASSUME LoopInv, Bounds, TakeView \/ Relay
    PROVE  Bounds'
<1>0. /\ "listener" \in Goroutine /\ "main" \in Goroutine /\ MaxView \in Nat
      /\ Caller \subseteq Goroutine /\ Processor \subseteq Goroutine
      /\ ViewCapacity \in Nat /\ newViewChan \in Seq(1..MaxView)
      /\ Len(newViewChan) <= ViewCapacity /\ view["listener"] \in 0..MaxView
  BY LoopAssumption, Zenon DEF Goroutine, Caller, Processor, LoopAssumption, Bounds
<1>1. CASE TakeView
  <2>1. /\ newViewChan # << >> /\ Goto("listener", "select", "relay")
        /\ view' = [view EXCEPT !["listener"] = Head(newViewChan)]
        /\ newViewChan' = Tail(newViewChan)
        /\ UNCHANGED <<commits, isStarted, curView, committedBlocks, handled>>
    BY <1>1, Zenon DEF TakeView
  <2>2. /\ Head(newViewChan) \in 1..MaxView /\ newViewChan' \in Seq(1..MaxView)
        /\ Len(newViewChan') = Len(newViewChan) - 1 /\ Len(newViewChan) \in Nat
    BY <1>0, <2>1
  <2>3. Head(newViewChan) \in 0..MaxView /\ Len(newViewChan') <= ViewCapacity
    BY <1>0, <2>2
  <2>4. /\ commits' \in [Processor -> 0..MaxCommit] /\ curView' \in 0..MaxView
        /\ \A h \in Processor \ {"listener"} : commits'[h] = commits[h]
        /\ "relay" \in Place \ {"deliver"} /\ "relay" # "advance"
    BY <2>1, Zenon DEF Bounds, Place
  <2> QED
    BY <1>0, <2>1, <2>2, <2>3, <2>4, ViewBound, Zenon
<1>2. CASE Relay
  <2>1. PICK place \in {"process", "propose"} :
          pc' = [pc EXCEPT !["listener"] = "select", !["main"] = place]
    BY <1>2, Zenon DEF Relay
  <2>2. /\ handled' = view["listener"] /\ view' = [view EXCEPT !["listener"] = 0]
        /\ UNCHANGED <<commits, isStarted, curView, newViewChan, committedBlocks>>
    BY <1>2, Zenon DEF Relay
  <2>3. \A h \in Goroutine : pc'[h] \in {"select", "process", "propose", pc[h]}
    BY <1>0, <2>1, Zenon DEF LoopInv
  <2>4. /\ view' \in [Goroutine -> 0..MaxView]
        /\ \A h \in Goroutine : view'[h] = view[h] \/ view'[h] = 0
    BY <1>0, <2>2 DEF Bounds
  <2>5. MaxView > 0
    BY LoopAssumption DEF LoopAssumption
  <2>6. \A h \in Caller : pc'[h] = "advance" => view'[h] < MaxView
    BY <1>0, <2>3, <2>4, <2>5, Zenon DEF Bounds
  <2> QED
    BY <1>0, <2>2, <2>3, <2>4, <2>6, Zenon DEF Bounds
<1> QED
  BY <1>1, <1>2, Zenon

\* Every step keeps the bounds.
LEMMA NextBound ==
    ASSUME LoopInv, Bounds, [Next]_vars
    PROVE  Bounds'
<1>0. "txn" \in Caller /\ "main" \in Processor /\ "listener" \in Processor
  BY Zenon DEF Caller, Processor
<1>1. CASE UNCHANGED vars
  BY <1>1, Zenon DEF vars, data, Bounds
<1>2. CASE Handle
  BY <1>2, StartSignalBound, InputBound, Zenon DEF Handle
<1>3. CASE Txn
  BY <1>0, <1>3, StartSignalBound, InputBound, AdvanceBound, PushBound, Zenon DEF Txn
<1>4. CASE Main
  BY <1>0, <1>4, ProcessBound, Zenon DEF Main
<1>5. CASE Listener
  BY <1>0, <1>5, ProcessBound, RelayBound, Zenon DEF Listener
<1>6. CASE Committer \/ Receive \/ ReceiveTxn \/ TimerFires \/ MakePProposal
  BY <1>6, InputBound, Zenon
<1> QED
  BY <1>1, <1>2, <1>3, <1>4, <1>5, <1>6, Zenon DEF Next

\* No interleaving of the goroutines overfills a channel, delivers a block that is not
\* there or takes a variable out of its type, for all capacities.
THEOREM TypeCorrect == Spec => []TypeOK
<1>1. Init => LoopInv /\ Bounds
  <2> SUFFICES ASSUME Init PROVE LoopInv /\ Bounds
    BY Zenon
  <2>1. LoopInv
    BY DEF Init, LoopInv, Dormant, Goroutine, Caller, Processor, Nobody, Place
  <2>2. /\ \A g \in Caller : pc[g] # "advance"
        /\ \A g \in Processor : pc[g] # "deliver"
    BY Zenon DEF Init, Goroutine, Caller, Processor
  <2>3. 0 \in 0..MaxView /\ 0 \in 0..MaxCommit /\ 0 \in 0..BlockCapacity /\ 0 <= ViewCapacity
    BY LoopAssumption DEF LoopAssumption
  <2>4. newViewChan \in Seq(1..MaxView) /\ Len(newViewChan) = 0
    BY DEF Init
  <2> QED
    BY <2>1, <2>2, <2>3, <2>4, Zenon DEF Init, Bounds
<1>2. LoopInv /\ Bounds /\ [Next]_vars => (LoopInv /\ Bounds)'
  BY NextOK, NextBound, Zenon DEF StepOK
<1>3. LoopInv /\ Bounds => TypeOK
  BY Zenon DEF LoopInv, Bounds, TypeOK
<1> QED
  BY <1>1, <1>2, <1>3, PTL DEF Spec


=============================================================================

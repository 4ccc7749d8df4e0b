------------------------------ MODULE Network -------------------------------
(***************************************************************************)
(* The way of the messages that one node sends to the others: the socket   *)
(* with its injected faults (socket/socket.go), the transports             *)
(* (transport/transport.go, scheme tcp) and the receiving goroutines       *)
(* (node/node.go).                                                         *)
(*                                                                         *)
(* Send is called by several goroutines of the node at once: the event     *)
(* loop, and those that BroadcastCommand, BroadcastPCM and UnicastPCM      *)
(* start.  The maps of the faults are not locked: a write that coincides   *)
(* with another access either has its effect or ends the process, which    *)
(* is how Go reports it.                                                   *)
(*                                                                         *)
(* Not in the model: Drop, MulticastQuorum, Close, Forward and Retry,      *)
(* which nothing calls, and connections that break.                        *)
(***************************************************************************)
EXTENDS Naturals, Sequences, FiniteSets

CONSTANTS
    Goroutine,      \* the goroutines of the node that call Send or Broadcast
    Dest,           \* the other nodes
    Sends,          \* bound: how often each goroutine calls Send or Broadcast
    MaxFaults,      \* bound: how many faults are injected
    Attempts,       \* how often Send dials before it gives up: 100
    QueueSize,      \* the capacity of a transport's channels: 10240
    ChanBufferSize, \* the capacity of MessageChan
    CrashEnds       \* whether config.Crash > 0: a crash is for some time only

ASSUME NetworkAssumption ==
    /\ IsFiniteSet(Goroutine) /\ Sends \in [Goroutine -> Nat]
    /\ MaxFaults \in Nat
    /\ Attempts \in Nat \ {0}
    /\ QueueSize \in Nat \ {0}
    /\ ChanBufferSize \in Nat \ {0}
    /\ CrashEnds \in BOOLEAN

\* The k-th message of goroutine g.
Message == UNION {{g} \X (1..Sends[g]) : g \in Goroutine}

VARIABLES
    sender,     \* the goroutines of the node that sends
    socket,     \* its socket
    transports, \* the transports its socket has made
    delayed,    \* <<transport, message>>: the goroutines that Slow makes Send start
    stopped,    \* its process has ended
    receiver,   \* the other nodes
    handled,    \* what their handlers were called with, in this order
    faults,     \* how many faults were injected
    faulty,     \* history: the nodes whose messages a fault may have reached
    slowed      \* history: some message was delayed

vars == <<sender, socket, transports, delayed, stopped, receiver, handled, faults,
          faulty, slowed>>

\* place: before the next destination in todo, dialling with the transport conn, or
\* at the channel of the transport conn.
Goroutines ==
    [calls : Nat,
     todo  : SUBSET Dest,
     place : {"next", "dial", "send"},
     conn  : Nat,
     tries : Nat]

\* nodes: the transport to each node, 0 if there is none; the timers that will
\* end faults are counted.
Socket ==
    [nodes       : [Dest -> Nat],
     crash       : BOOLEAN,
     crashTimers : Nat,
     slow        : [Dest -> BOOLEAN],
     slowTimers  : [Dest -> Nat],
     flaky       : [Dest -> BOOLEAN],
     flakyTimers : [Dest -> Nat]]

\* send: the channel that the goroutine started by Dial empties.
Transport == [to : Dest, send : Seq(Message)]

\* listening: NewSocket was called; recv: the transport's channel; held: what
\* the goroutine in node.recv is about to put into MessageChan; silent: the node is
\* Byzantine with the strategy "silence".
Receiver ==
    [listening   : BOOLEAN,
     recv        : Seq(Message),
     held        : Seq(Message),
     messageChan : Seq(Message),
     crash       : BOOLEAN,
     crashTimers : Nat,
     silent      : BOOLEAN]

\* NewSocket at the node that sends; the others may start later.
Init ==
    /\ sender = [g \in Goroutine |-> [calls |-> 0, todo |-> {}, place |-> "next",
                                      conn |-> 0, tries |-> 0]]
    /\ socket = [nodes |-> [d \in Dest |-> 0], crash |-> FALSE, crashTimers |-> 0,
                 slow |-> [d \in Dest |-> FALSE], slowTimers |-> [d \in Dest |-> 0],
                 flaky |-> [d \in Dest |-> FALSE], flakyTimers |-> [d \in Dest |-> 0]]
    /\ transports = << >>
    /\ delayed = {}
    /\ stopped = FALSE
    /\ \E silent \in SUBSET Dest :
        /\ receiver = [d \in Dest |-> [listening |-> FALSE, recv |-> << >>,
                                       held |-> << >>, messageChan |-> << >>,
                                       crash |-> FALSE, crashTimers |-> 0,
                                       silent |-> d \in silent]]
        /\ faulty = silent
    /\ handled = [d \in Dest |-> << >>]
    /\ faults = 0
    /\ slowed = FALSE

-----------------------------------------------------------------------------
(* Sending *)

\* The message that goroutine g is sending.
Current(g) == <<g, sender[g].calls>>

\* Goroutine g calls Broadcast or, for a single destination, Send.
Call(g, to) ==
    /\ ~stopped
    /\ sender[g].todo = {}
    /\ sender[g].calls < Sends[g]
    /\ sender' = [sender EXCEPT ![g].calls = @ + 1, ![g].todo = to]
    /\ UNCHANGED <<socket, transports, delayed, stopped, receiver, handled, faults,
                   faulty, slowed>>

Broadcast(g) == Call(g, Dest)
Unicast(g) == \E d \in Dest : Call(g, {d})

\* Goroutine g is done with destination d; Broadcast goes on with another one.
Done(g, d) ==
    [sender[g] EXCEPT !.todo = @ \ {d}, !.place = "next", !.conn = 0, !.tries = 0]

\* The process ends: what it has not put on a connection is lost.
Stop ==
    /\ stopped' = TRUE
    /\ sender' = [g \in Goroutine |-> [sender[g] EXCEPT !.todo = {}, !.place = "next",
                                                       !.conn = 0, !.tries = 0]]
    /\ transports' = [t \in DOMAIN transports |-> [transports[t] EXCEPT !.send = << >>]]
    /\ delayed' = {}
    /\ faulty' = Dest
    /\ UNCHANGED <<socket, receiver, handled, slowed>>

\* Mutant: a delayed message is also sent at once.
TransmitTwice(g, t, d) ==
    /\ sender' = [sender EXCEPT ![g].place = "send", ![g].conn = t, ![g].tries = 0]
    /\ delayed' = IF socket.slow[d] THEN delayed \union {<<t, Current(g)>>} ELSE delayed
    /\ slowed' = (slowed \/ socket.slow[d])

\* Mutant: every message is sent by a goroutine of its own.
TransmitLater(g, t, d) ==
    /\ sender' = [sender EXCEPT ![g] = Done(g, d)]
    /\ delayed' = delayed \union {<<t, Current(g)>>}
    /\ UNCHANGED slowed

\* The end of Send, from the test of slow[to] up to t.Send.
Transmit(g, t, d) ==
    \/ /\ socket.slow[d]
       /\ sender' = [sender EXCEPT ![g] = Done(g, d)]
       /\ delayed' = delayed \union {<<t, Current(g)>>}
       /\ slowed' = TRUE
    \/ /\ ~socket.slow[d]
       /\ sender' = [sender EXCEPT ![g].place = "send", ![g].conn = t, ![g].tries = 0]
       /\ UNCHANGED <<delayed, slowed>>

\* Send returns early: the node has crashed or the destination is flaky.
SendDrops(g) ==
    /\ sender[g].place = "next"
    /\ \E d \in sender[g].todo :
        /\ socket.crash \/ socket.flaky[d]
        /\ sender' = [sender EXCEPT ![g] = Done(g, d)]
    /\ UNCHANGED <<socket, transports, delayed, stopped, receiver, handled, faults,
                   faulty, slowed>>

\* Send finds the transport.
SendFinds(g) ==
    /\ sender[g].place = "next"
    /\ \E d \in sender[g].todo :
        /\ ~socket.crash
        /\ socket.nodes[d] # 0
        /\ Transmit(g, socket.nodes[d], d)
    /\ UNCHANGED <<socket, transports, stopped, receiver, handled, faults, faulty>>

\* Send finds no transport and makes one; two goroutines may do so at once.
SendMakes(g) ==
    /\ sender[g].place = "next"
    /\ \E d \in sender[g].todo :
        /\ ~socket.crash
        /\ socket.nodes[d] = 0
        /\ transports' = Append(transports, [to |-> d, send |-> << >>])
    /\ sender' = [sender EXCEPT ![g].place = "dial", ![g].tries = 0,
                                ![g].conn = Len(transports')]
    /\ UNCHANGED <<socket, delayed, stopped, receiver, handled, faults, faulty, slowed>>

\* Mutant: the transport is not kept.
RememberNothing(d, t) == socket

\* The last transport that was dialled replaces the others.
Remember(d, t) == [socket EXCEPT !.nodes[d] = t]

\* Dial succeeds: the destination listens.
Dial(g) ==
    LET t == sender[g].conn
        d == transports[t].to
    IN  /\ sender[g].place = "dial"
        /\ receiver[d].listening
        /\ socket' = Remember(d, t)
        /\ Transmit(g, t, d)
        /\ UNCHANGED <<transports, stopped, receiver, handled, faults, faulty>>

\* Dial fails: Retry tries again, and Send panics after the last attempt.
DialFails(g) ==
    /\ sender[g].place = "dial"
    /\ ~receiver[transports[sender[g].conn].to].listening
    /\ \/ /\ sender[g].tries + 1 < Attempts
          /\ sender' = [sender EXCEPT ![g].tries = @ + 1]
          /\ UNCHANGED <<socket, transports, delayed, stopped, receiver, handled,
                         faults, faulty, slowed>>
       \/ /\ sender[g].tries + 1 >= Attempts
          /\ Stop
          /\ UNCHANGED faults

\* Mutant: there is room for one more.
HasRoomForOneMore(t) == Len(transports[t].send) <= QueueSize

\* transport.Send, which waits while the channel is full.
HasRoom(t) == Len(transports[t].send) < QueueSize
Enqueue(t, m) == transports' = [transports EXCEPT ![t].send = Append(@, m)]

Put(g) ==
    /\ sender[g].place = "send"
    /\ HasRoom(sender[g].conn)
    /\ Enqueue(sender[g].conn, Current(g))
    /\ sender' = [sender EXCEPT ![g] = Done(g, transports[sender[g].conn].to)]
    /\ UNCHANGED <<socket, delayed, stopped, receiver, handled, faults, faulty, slowed>>

\* The delay of a message is over; a crash in the meantime does not stop it.
PutDelayed ==
    /\ \E x \in delayed : /\ HasRoom(x[1])
                          /\ Enqueue(x[1], x[2])
                          /\ delayed' = delayed \ {x}
    /\ UNCHANGED <<sender, socket, stopped, receiver, handled, faults, faulty, slowed>>

-----------------------------------------------------------------------------
(* Receiving *)

\* NewSocket and Listen at destination d.
Listen(d) ==
    /\ ~receiver[d].listening
    /\ receiver' = [receiver EXCEPT ![d].listening = TRUE]
    /\ UNCHANGED <<sender, socket, transports, delayed, stopped, handled, faults, faulty,
                   slowed>>

\* The goroutines that Dial and Listen start, and the connection between them:
\* messages arrive in the order in which they were sent.
Carry(t) ==
    /\ t \in DOMAIN transports
    /\ transports[t].send # << >>
    /\ LET d == transports[t].to
       IN  /\ Len(receiver[d].recv) < QueueSize
           /\ receiver' = [receiver EXCEPT ![d].recv = Append(@, Head(transports[t].send))]
    /\ transports' = [transports EXCEPT ![t].send = Tail(@)]
    /\ UNCHANGED <<sender, socket, delayed, stopped, handled, faults, faulty, slowed>>


\* socket.Recv and node.recv: a crashed and a silent node throw the message away.
Receive(d) ==
    /\ receiver[d].recv # << >>
    /\ receiver[d].held = << >>
    /\ receiver' = [receiver EXCEPT
            ![d].recv = Tail(@),
            ![d].held = IF receiver[d].crash \/ receiver[d].silent
                        THEN << >> ELSE <<Head(receiver[d].recv)>>]
    /\ UNCHANGED <<sender, socket, transports, delayed, stopped, handled, faults, faulty,
                   slowed>>

\* node.recv puts the message into MessageChan, which may be full.
PassOn(d) ==
    /\ receiver[d].held # << >>
    /\ Len(receiver[d].messageChan) < ChanBufferSize
    /\ receiver' = [receiver EXCEPT ![d].held = << >>,
                                    ![d].messageChan = @ \o receiver[d].held]
    /\ UNCHANGED <<sender, socket, transports, delayed, stopped, handled, faults, faulty,
                   slowed>>

\* node.handle calls the handler.
Handle(d) ==
    /\ receiver[d].messageChan # << >>
    /\ receiver' = [receiver EXCEPT ![d].messageChan = Tail(@)]
    /\ handled' = [handled EXCEPT ![d] = Append(@, Head(receiver[d].messageChan))]
    /\ UNCHANGED <<sender, socket, transports, delayed, stopped, faults, faulty, slowed>>

-----------------------------------------------------------------------------
(* Injected faults *)

\* Some goroutine is in Send, which reads the maps of the faults.
Sending == \E g \in Goroutine : sender[g].todo # {}

\* One more fault is injected, by a request to the HTTP server of a node.
Inject ==
    /\ faults < MaxFaults
    /\ faults' = faults + 1

Started == IF CrashEnds THEN 1 ELSE 0

\* handleCrash and Crash, here and at destination d; the timer that ends a crash
\* ends every crash.
Crash ==
    /\ ~stopped
    /\ Inject
    /\ socket' = [socket EXCEPT !.crash = TRUE, !.crashTimers = @ + Started]
    /\ faulty' = Dest
    /\ UNCHANGED <<sender, transports, delayed, stopped, receiver, handled, slowed>>

CrashAt(d) ==
    /\ receiver[d].listening
    /\ Inject
    /\ receiver' = [receiver EXCEPT ![d].crash = TRUE, ![d].crashTimers = @ + Started]
    /\ faulty' = faulty \union {d}
    /\ UNCHANGED <<sender, socket, transports, delayed, stopped, handled, slowed>>

CrashOver ==
    /\ ~stopped
    /\ socket.crashTimers > 0
    /\ socket' = [socket EXCEPT !.crash = FALSE, !.crashTimers = @ - 1]
    /\ UNCHANGED <<sender, transports, delayed, stopped, receiver, handled, faults,
                   faulty, slowed>>

CrashOverAt(d) ==
    /\ receiver[d].crashTimers > 0
    /\ receiver' = [receiver EXCEPT ![d].crash = FALSE, ![d].crashTimers = @ - 1]
    /\ UNCHANGED <<sender, socket, transports, delayed, stopped, handled, faults, faulty,
                   slowed>>

\* A write to the map slow or flaky: it has its effect or, if another goroutine is
\* at the map, may end the process.
Write(new, reached, busy) ==
    /\ ~stopped
    /\ \/ /\ socket' = new
          /\ faulty' = faulty \union reached
          /\ UNCHANGED <<sender, transports, delayed, stopped, receiver, handled, slowed>>
       \/ /\ busy
          /\ Stop

More(timers) == [d \in Dest |-> timers[d] + 1]

\* Some timer, or a timer other than the one of d that fires, may fire now.
AnyTimer(timers) == \E d \in Dest : timers[d] > 0
OtherTimer(timers, d) == timers[d] > 1 \/ \E e \in Dest \ {d} : timers[e] > 0

\* handleSlow and Slow for all nodes, with delays that may be 0.
Slow ==
    /\ Inject
    /\ \E slow \in [Dest -> BOOLEAN] :
        Write([socket EXCEPT !.slow = slow, !.slowTimers = More(@)], {},
              Sending \/ AnyTimer(socket.slowTimers))

SlowOver(d) ==
    /\ socket.slowTimers[d] > 0
    /\ Write([socket EXCEPT !.slow[d] = FALSE, !.slowTimers[d] = @ - 1], {},
             Sending \/ OtherTimer(socket.slowTimers, d))
    /\ UNCHANGED faults

\* handleFlaky and Flaky for all nodes.
Flaky ==
    /\ Inject
    /\ Write([socket EXCEPT !.flaky = [d \in Dest |-> TRUE], !.flakyTimers = More(@)],
             Dest, Sending \/ AnyTimer(socket.flakyTimers))

\* Mutant: the destination stays flaky.
FlakyOnly(d) == [socket EXCEPT !.flakyTimers[d] = @ - 1]

NotFlaky(d) == [socket EXCEPT !.flaky[d] = FALSE, !.flakyTimers[d] = @ - 1]

FlakyOver(d) ==
    /\ socket.flakyTimers[d] > 0
    /\ Write(NotFlaky(d), {}, Sending \/ OtherTimer(socket.flakyTimers, d))
    /\ UNCHANGED faults

-----------------------------------------------------------------------------

Next ==
    \/ \E g \in Goroutine : \/ Broadcast(g)
                            \/ Unicast(g)
                            \/ SendDrops(g)
                            \/ SendFinds(g)
                            \/ SendMakes(g)
                            \/ Dial(g)
                            \/ DialFails(g)
                            \/ Put(g)
    \/ PutDelayed
    \/ \E t \in DOMAIN transports : Carry(t)
    \/ \E d \in Dest : \/ Listen(d)
                       \/ Receive(d)
                       \/ PassOn(d)
                       \/ Handle(d)
                       \/ CrashAt(d)
                       \/ CrashOverAt(d)
                       \/ SlowOver(d)
                       \/ FlakyOver(d)
    \/ Crash
    \/ CrashOver
    \/ Slow
    \/ Flaky

Spec == Init /\ [][Next]_vars

\* Every goroutine that can go on does; no request and no start of a node has to
\* happen.  A goroutine makes one transport per message at most.
MaxTransports == Cardinality(Message) * Cardinality(Dest)
Fairness ==
    /\ \A g \in Goroutine :
        WF_vars(SendDrops(g) \/ SendFinds(g) \/ SendMakes(g) \/ Dial(g) \/ DialFails(g)
                \/ Put(g))
    /\ WF_vars(PutDelayed)
    /\ \A t \in 1..MaxTransports : WF_vars(Carry(t))
    /\ \A d \in Dest : /\ WF_vars(Receive(d))
                       /\ WF_vars(PassOn(d))
                       /\ WF_vars(Handle(d))

FairSpec == Spec /\ Fairness

-----------------------------------------------------------------------------
(* Properties *)

\* Every goroutine, socket, transport, channel and counter has its type, and no
\* channel holds more than its capacity.
TypeOK ==
    /\ sender \in [Goroutine -> Goroutines]
    /\ \A g \in Goroutine : sender[g].calls <= Sends[g]
    /\ socket \in Socket
    /\ transports \in Seq(Transport)
    /\ \A t \in DOMAIN transports : Len(transports[t].send) <= QueueSize
    /\ delayed \subseteq (DOMAIN transports) \X Message
    /\ stopped \in BOOLEAN
    /\ receiver \in [Dest -> Receiver]
    /\ \A d \in Dest : /\ Len(receiver[d].recv) <= QueueSize
                       /\ Len(receiver[d].held) <= 1
                       /\ Len(receiver[d].messageChan) <= ChanBufferSize
    /\ handled \in [Dest -> Seq(Message)]
    /\ faults \in 0..MaxFaults
    /\ faulty \subseteq Dest
    /\ slowed \in BOOLEAN

Elements(s) == {s[i] : i \in DOMAIN s}

\* What is on its way, wherever it is.
InFlight ==
    (UNION {sender[g].todo \X {Current(g)} : g \in Goroutine})
        \union {<<transports[x[1]].to, x[2]>> : x \in delayed}
        \union (UNION {{transports[t].to} \X Elements(transports[t].send) :
                        t \in DOMAIN transports})
        \union (UNION {{d} \X (Elements(receiver[d].recv) \union Elements(receiver[d].held)
                                \union Elements(receiver[d].messageChan)) : d \in Dest})

Handled == UNION {{d} \X Elements(handled[d]) : d \in Dest}

\* The network is what the protocols are modelled on: messages overtake each
\* other, but none is handled twice, and none is lost unless a crash, a flaky
\* socket, a silent node or the end of the process is to blame, whichever
\* goroutines dial at once and whatever is delayed (socket.go:69-146).
AsChannel == INSTANCE Channel WITH
    Destination <- Dest, inFlight <- InFlight, handled <- Handled, faulty <- faulty
ImplementsChannel == AsChannel!Spec

\* The transports made to a node, the replaced ones with them.
To(d) == {t \in DOMAIN transports : transports[t].to = d}

\* Two messages of one goroutine are handled in the order in which it sent them,
\* as long as no message was delayed and no two goroutines dialled the same node
\* at once, of which one loses its transport (socket.go:87-105, 123).
InOrder ==
    \A d \in Dest :
        \/ slowed
        \/ \E t, u \in To(d) : t # u
        \/ \A i, j \in DOMAIN handled[d] :
            i < j /\ handled[d][i][1] = handled[d][j][1]
                => handled[d][i][2] < handled[d][j][2]

\* Each goroutine dials a node once at most: every transport to it was made by a
\* goroutine of its own, so that transports that were replaced do not pile up
\* (socket.go:97-104).
TransportsBounded ==
    \A d \in Dest : \E dialler \in [To(d) -> Goroutine] :
        \A t, u \in To(d) : t # u => dialler[t] # dialler[u]

\* Once the timers have fired nothing is left of a fault, however requests and
\* timers overlap (socket.go:188-215).
FaultsEnd ==
    /\ CrashEnds /\ socket.crashTimers = 0 => ~socket.crash
    /\ \A d \in Dest :
        /\ socket.slowTimers[d] = 0 => ~socket.slow[d]
        /\ socket.flakyTimers[d] = 0 => ~socket.flaky[d]
        /\ CrashEnds /\ receiver[d].crashTimers = 0 => ~receiver[d].crash


=============================================================================

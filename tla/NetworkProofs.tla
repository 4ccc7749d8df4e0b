--------------------------- MODULE NetworkProofs ----------------------------
(***************************************************************************)
(* Network implements Channel, for any number of goroutines, nodes and     *)
(* faults.  A message on its way to a node is in exactly one of six        *)
(* places, or has been handled, and every step moves or loses one message  *)
(* or all those of a process that ends.  Transports do not pile up, and    *)
(* messages over a single one stay in order.                               *)
(***************************************************************************)
EXTENDS Network, TLAPS

\* A goroutine that sends has called Send, and its transport leads to a node it is
\* sending to.
Connected ==
    \A g \in Goroutine :
        /\ sender[g].todo # {} => sender[g].calls > 0
        /\ sender[g].place # "next" =>
            /\ sender[g].conn \in DOMAIN transports
            /\ transports[sender[g].conn].to \in sender[g].todo

\* The transports in socket.nodes lead to the right nodes.
NodesLead ==
    \A d \in Dest : socket.nodes[d] # 0 =>
        /\ socket.nodes[d] \in DOMAIN transports
        /\ transports[socket.nodes[d]].to = d

TypeInv == TypeOK /\ Connected /\ NodesLead

-----------------------------------------------------------------------------

\* The message that a goroutine is sending is a message.
LEMMA CurrentIsMessage ==
    ASSUME NEW g \in Goroutine, sender \in [Goroutine -> Goroutines],
           sender[g].calls > 0, sender[g].calls <= Sends[g]
    PROVE  Current(g) \in Message
<1>1. Sends[g] \in Nat /\ sender[g].calls \in Nat
  BY NetworkAssumption, Zenon DEF NetworkAssumption, Goroutines
<1>2. sender[g].calls \in 1..Sends[g]
  BY <1>1
<1>3. {g} \X (1..Sends[g]) \in {{h} \X (1..Sends[h]) : h \in Goroutine}
  BY Zenon
<1>4. <<g, sender[g].calls>> \in {g} \X (1..Sends[g])
  BY <1>2, Zenon
<1> QED
  BY <1>3, <1>4, Zenon DEF Current, Message

\* A change of the channel of transport t.
LEMMA SendSet ==
    ASSUME transports \in Seq(Transport), NEW t \in DOMAIN transports,
           NEW s \in Seq(Message)
    PROVE  /\ [transports EXCEPT ![t].send = s] \in Seq(Transport)
           /\ DOMAIN [transports EXCEPT ![t].send = s] = DOMAIN transports
           /\ \A u \in DOMAIN transports :
                /\ [transports EXCEPT ![t].send = s][u].to = transports[u].to
                /\ [transports EXCEPT ![t].send = s][u].send
                        = IF u = t THEN s ELSE transports[u].send
<1>1. DOMAIN transports = 1..Len(transports) /\ transports[t] \in Transport
  OBVIOUS
<1>2. [transports[t] EXCEPT !.send = s] \in Transport
  BY <1>1, Zenon DEF Transport
<1>3. [transports EXCEPT ![t] = [transports[t] EXCEPT !.send = s]] \in Seq(Transport)
  BY <1>1, <1>2
<1>4. \A u \in DOMAIN transports : transports[u] \in Transport
  BY <1>1
<1> QED
  BY <1>1, <1>3, <1>4, Zenon DEF Transport


\* What the type invariant says of goroutine g.
LEMMA SenderType ==
    ASSUME TypeInv, NEW g \in Goroutine
    PROVE  /\ sender[g] \in Goroutines
           /\ sender[g].calls \in Nat /\ sender[g].todo \in SUBSET Dest
           /\ sender[g].place \in {"next", "dial", "send"}
           /\ sender[g].conn \in Nat /\ sender[g].tries \in Nat
           /\ sender[g].calls <= Sends[g] /\ Sends[g] \in Nat
           /\ sender[g].todo # {} => Current(g) \in Message
  BY CurrentIsMessage, NetworkAssumption, Zenon
  DEF TypeInv, TypeOK, Connected, Goroutines, NetworkAssumption

\* What the type invariant says of transport t.
LEMMA TransportType ==
    ASSUME TypeInv, NEW t \in DOMAIN transports
    PROVE  /\ DOMAIN transports = 1..Len(transports) /\ Len(transports) \in Nat
           /\ transports[t] \in Transport
           /\ transports[t].to \in Dest /\ transports[t].send \in Seq(Message)
           /\ Len(transports[t].send) <= QueueSize
<1>1. transports \in Seq(Transport) /\ Len(transports[t].send) <= QueueSize
  BY Zenon DEF TypeInv, TypeOK
<1>2. DOMAIN transports = 1..Len(transports) /\ Len(transports) \in Nat
  BY <1>1
<1>3. transports[t] \in Transport
  BY <1>1, <1>2
<1> QED
  BY <1>1, <1>2, <1>3, Zenon DEF Transport

\* What the type invariant says of destination d.
LEMMA ReceiverType ==
    ASSUME TypeInv, NEW d \in Dest
    PROVE  /\ receiver[d] \in Receiver
           /\ receiver[d].listening \in BOOLEAN /\ receiver[d].crash \in BOOLEAN
           /\ receiver[d].silent \in BOOLEAN /\ receiver[d].crashTimers \in Nat
           /\ receiver[d].recv \in Seq(Message) /\ receiver[d].held \in Seq(Message)
           /\ receiver[d].messageChan \in Seq(Message)
           /\ Len(receiver[d].recv) <= QueueSize
           /\ Len(receiver[d].held) <= 1
           /\ Len(receiver[d].messageChan) <= ChanBufferSize
  BY Zenon DEF TypeInv, TypeOK, Receiver

\* A new state of goroutine g keeps the types.
LEMMA SenderSet ==
    ASSUME TypeInv, NEW g \in Goroutine, NEW s \in Goroutines, s.calls <= Sends[g],
           s.todo # {} => s.calls > 0,
           s.place # "next" => s.conn \in DOMAIN transports' /\ transports'[s.conn].to \in s.todo,
           DOMAIN transports \subseteq DOMAIN transports',
           \A t \in DOMAIN transports : transports'[t].to = transports[t].to,
           sender' = [sender EXCEPT ![g] = s]
    PROVE  /\ sender' \in [Goroutine -> Goroutines]
           /\ \A h \in Goroutine : sender'[h].calls <= Sends[h]
           /\ Connected'
<1>1. sender \in [Goroutine -> Goroutines]
  BY Zenon DEF TypeInv, TypeOK
<1>2. /\ sender' \in [Goroutine -> Goroutines]
      /\ \A h \in Goroutine : sender'[h] = IF h = g THEN s ELSE sender[h]
  BY <1>1, Zenon
<1>3. \A h \in Goroutine : sender'[h].calls <= Sends[h]
  BY <1>2, SenderType, Zenon
<1>4. \A h \in Goroutine :
        /\ sender'[h].todo # {} => sender'[h].calls > 0
        /\ sender'[h].place # "next" =>
            /\ sender'[h].conn \in DOMAIN transports'
            /\ transports'[sender'[h].conn].to \in sender'[h].todo
  <2> SUFFICES ASSUME NEW h \in Goroutine
               PROVE  /\ sender'[h].todo # {} => sender'[h].calls > 0
                      /\ sender'[h].place # "next" =>
                          /\ sender'[h].conn \in DOMAIN transports'
                          /\ transports'[sender'[h].conn].to \in sender'[h].todo
    BY Zenon
  <2>1. CASE h = g
    BY <1>2, <2>1, Zenon
  <2>2. CASE h # g
    BY <1>2, <2>2, Zenon DEF TypeInv, Connected
  <2> QED
    BY <2>1, <2>2, Zenon
<1> QED
  BY <1>2, <1>3, <1>4, Zenon DEF Connected

-----------------------------------------------------------------------------
(* The types *)

\* Init has the types.
LEMMA InitTypes == Init => TypeInv
<1> SUFFICES ASSUME Init PROVE TypeInv
  BY Zenon
<1>1. sender \in [Goroutine -> Goroutines] /\ \A g \in Goroutine : sender[g].calls <= Sends[g]
  BY NetworkAssumption DEF Init, Goroutines, NetworkAssumption
<1>2. socket \in Socket
  BY Zenon DEF Init, Socket
<1>3. transports \in Seq(Transport) /\ DOMAIN transports = {}
  BY DEF Init
<1>4. receiver \in [Dest -> Receiver]
  BY DEF Init, Receiver
<1>5. \A d \in Dest : /\ Len(receiver[d].recv) <= QueueSize
                      /\ Len(receiver[d].held) <= 1
                      /\ Len(receiver[d].messageChan) <= ChanBufferSize
  BY NetworkAssumption DEF Init, NetworkAssumption
<1>6. handled \in [Dest -> Seq(Message)]
  BY DEF Init
<1>7. faults \in 0..MaxFaults /\ faulty \subseteq Dest
  BY NetworkAssumption DEF Init, NetworkAssumption
<1>10. slowed \in BOOLEAN /\ stopped \in BOOLEAN
  BY Zenon DEF Init
<1>8. delayed \subseteq (DOMAIN transports) \X Message
  BY Zenon DEF Init
<1>9. Connected /\ NodesLead
  BY Zenon DEF Init, Connected, NodesLead
<1> QED
  BY <1>1, <1>2, <1>3, <1>4, <1>5, <1>6, <1>7, <1>8, <1>9, <1>10, Zenon DEF TypeInv, TypeOK

\* Call keeps the types.
LEMMA CallTypes ==
    ASSUME TypeInv, NEW g \in Goroutine, NEW to \in SUBSET Dest, Call(g, to)
    PROVE  TypeInv'
<1> DEFINE s == [sender[g] EXCEPT !.calls = @ + 1, !.todo = to]
<1>1. s \in Goroutines /\ s.calls = sender[g].calls + 1 /\ s.todo = to
        /\ s.place = sender[g].place /\ s.conn = sender[g].conn
  <2>1. sender[g] \in Goroutines /\ sender[g].calls + 1 \in Nat
    BY SenderType
  <2> QED
    BY <2>1, Zenon DEF Goroutines
<1>2. sender' = [sender EXCEPT ![g] = s]
  BY Zenon DEF Call, TypeInv, TypeOK
<1>3. s.calls <= Sends[g] /\ s.calls > 0
  BY <1>1, SenderType DEF Call
<1>4. s.place = "next"
  BY <1>1, Zenon DEF Call, TypeInv, Connected
<1>5. /\ sender' \in [Goroutine -> Goroutines]
      /\ \A h \in Goroutine : sender'[h].calls <= Sends[h]
      /\ Connected'
  <2> HIDE DEF s
  <2> QED
    BY <1>1, <1>2, <1>3, <1>4, SenderSet, Zenon DEF Call
<1> QED
  BY <1>5, Zenon DEF Call, TypeInv, TypeOK, NodesLead

\* The state of a goroutine that is done with d.
LEMMA DoneTypes ==
    ASSUME TypeInv, NEW g \in Goroutine, NEW d
    PROVE  /\ Done(g, d) \in Goroutines
           /\ Done(g, d).calls = sender[g].calls
           /\ Done(g, d).todo = sender[g].todo \ {d}
           /\ Done(g, d).place = "next"
           /\ Done(g, d).todo # {} => Done(g, d).calls > 0
<1>1. sender[g].todo # {} => sender[g].calls > 0
  BY Zenon DEF TypeInv, Connected
<1> QED
  BY <1>1, SenderType, Zenon DEF Done, Goroutines

\* The end of Send keeps the types.
LEMMA TransmitTypes ==
    ASSUME TypeInv, NEW g \in Goroutine, NEW t \in DOMAIN transports,
           transports[t].to \in sender[g].todo, Transmit(g, t, transports[t].to),
           socket' \in Socket, NodesLead',
           UNCHANGED <<transports, stopped, receiver, handled, faults, faulty>>
    PROVE  TypeInv'
<1> DEFINE d == transports[t].to
           s == [sender[g] EXCEPT !.place = "send", !.conn = t, !.tries = 0]
<1>1. t \in Nat
  BY TransportType
<1>2. CASE socket.slow[d]
  <2>1. sender' = [sender EXCEPT ![g] = Done(g, d)]
    BY <1>2, Zenon DEF Transmit
  <2>2. /\ sender' \in [Goroutine -> Goroutines]
        /\ \A h \in Goroutine : sender'[h].calls <= Sends[h]
        /\ Connected'
    BY <2>1, DoneTypes, SenderType, SenderSet, Zenon
  <2>3. delayed' = delayed \union {<<t, Current(g)>>} /\ slowed' \in BOOLEAN
    BY <1>2, Zenon DEF Transmit
  <2>4. Current(g) \in Message
    BY SenderType, Zenon
  <2>5. delayed' \subseteq (DOMAIN transports) \X Message
    BY <2>3, <2>4 DEF TypeInv, TypeOK
  <2> QED
    BY <2>2, <2>3, <2>5, Zenon DEF TypeInv, TypeOK
<1>3. CASE ~socket.slow[d]
  <2>1. s \in Goroutines /\ s.calls = sender[g].calls /\ s.todo = sender[g].todo
          /\ s.place = "send" /\ s.conn = t
    BY <1>1, SenderType, Zenon DEF Goroutines
  <2>2. sender' = [sender EXCEPT ![g] = s] /\ UNCHANGED <<delayed, slowed>>
    BY <1>3, Zenon DEF Transmit, TypeInv, TypeOK
  <2>3. s.todo # {} => s.calls > 0
    BY <2>1, Zenon DEF TypeInv, Connected
  <2>4. /\ sender' \in [Goroutine -> Goroutines]
        /\ \A h \in Goroutine : sender'[h].calls <= Sends[h]
        /\ Connected'
    <3> HIDE DEF s
    <3> QED
      BY <2>1, <2>2, <2>3, SenderType, SenderSet, Zenon
  <2> QED
    BY <2>2, <2>4, Zenon DEF TypeInv, TypeOK
<1> QED
  BY <1>2, <1>3, Zenon

\* SendDrops keeps the types.
LEMMA SendDropsTypes ==
    ASSUME TypeInv, NEW g \in Goroutine, SendDrops(g)
    PROVE  TypeInv'
<1>1. PICK d \in sender[g].todo : sender' = [sender EXCEPT ![g] = Done(g, d)]
  BY Zenon DEF SendDrops
<1>2. UNCHANGED <<socket, transports, delayed, stopped, receiver, handled, faults, faulty, slowed>>
  BY Zenon DEF SendDrops
<1>3. /\ sender' \in [Goroutine -> Goroutines]
      /\ \A h \in Goroutine : sender'[h].calls <= Sends[h]
      /\ Connected'
  BY <1>1, <1>2, DoneTypes, SenderType, SenderSet, Zenon
<1> QED
  BY <1>2, <1>3, Zenon DEF TypeInv, TypeOK, NodesLead

\* SendFinds keeps the types.
LEMMA SendFindsTypes ==
    ASSUME TypeInv, NEW g \in Goroutine, SendFinds(g)
    PROVE  TypeInv'
<1>1. PICK d \in sender[g].todo : socket.nodes[d] # 0 /\ Transmit(g, socket.nodes[d], d)
  BY Zenon DEF SendFinds
<1>2. d \in Dest
  BY SenderType, Zenon
<1>3. socket.nodes[d] \in DOMAIN transports /\ transports[socket.nodes[d]].to = d
  BY <1>1, <1>2, Zenon DEF TypeInv, NodesLead
<1>4. socket' \in Socket /\ NodesLead'
  BY Zenon DEF SendFinds, TypeInv, TypeOK, NodesLead
<1> QED
  BY <1>1, <1>3, <1>4, TransmitTypes, Zenon DEF SendFinds

\* SendMakes keeps the types.
LEMMA SendMakesTypes ==
    ASSUME TypeInv, NEW g \in Goroutine, SendMakes(g)
    PROVE  TypeInv'
<1>1. PICK d \in sender[g].todo : transports' = Append(transports, [to |-> d, send |-> << >>])
  BY Zenon DEF SendMakes
<1> DEFINE n == [to |-> d, send |-> << >>]
           s == [sender[g] EXCEPT !.place = "dial", !.tries = 0, !.conn = Len(transports')]
<1>2. d \in Dest /\ n \in Transport /\ n.to = d /\ n.send = << >>
  BY SenderType DEF Transport
<1>3. transports \in Seq(Transport)
  BY Zenon DEF TypeInv, TypeOK
<1>4. /\ transports' \in Seq(Transport)
      /\ Len(transports') = Len(transports) + 1
      /\ DOMAIN transports' = 1..(Len(transports) + 1)
      /\ DOMAIN transports = 1..Len(transports)
      /\ Len(transports) \in Nat
      /\ transports'[Len(transports')] = n
      /\ \A t \in DOMAIN transports : transports'[t] = transports[t]
  <2> HIDE DEF n
  <2> QED
    BY <1>1, <1>2, <1>3 DEF n
<1>5. DOMAIN transports \subseteq DOMAIN transports' /\ Len(transports') \in DOMAIN transports'
  BY <1>4
<1>6. s \in Goroutines /\ s.calls = sender[g].calls /\ s.todo = sender[g].todo
        /\ s.place = "dial" /\ s.conn = Len(transports')
  <2>1. sender[g] \in Goroutines /\ Len(transports') \in Nat
    BY <1>4, SenderType
  <2> QED
    BY <2>1, Zenon DEF Goroutines
<1>7. sender' = [sender EXCEPT ![g] = s] /\ UNCHANGED socket
  BY Zenon DEF SendMakes, TypeInv, TypeOK
<1>8. s.todo # {} => s.calls > 0
  BY <1>6, Zenon DEF TypeInv, Connected
<1>9. transports'[s.conn].to \in s.todo
  BY <1>2, <1>4, <1>6, Zenon
<1>10. \A t \in DOMAIN transports : transports'[t].to = transports[t].to
  BY <1>4, Zenon
<1>11. /\ sender' \in [Goroutine -> Goroutines]
       /\ \A h \in Goroutine : sender'[h].calls <= Sends[h]
       /\ Connected'
  <2> HIDE DEF s
  <2> QED
    BY <1>5, <1>6, <1>7, <1>8, <1>9, <1>10, SenderType, SenderSet, Zenon
<1>12. \A t \in DOMAIN transports' : Len(transports'[t].send) <= QueueSize
  <2> SUFFICES ASSUME NEW t \in DOMAIN transports' PROVE Len(transports'[t].send) <= QueueSize
    BY Zenon
  <2>1. CASE t = Len(transports')
    BY <1>2, <1>4, <2>1, NetworkAssumption DEF NetworkAssumption
  <2>2. CASE t \in DOMAIN transports
    BY <1>4, <2>2, Zenon DEF TypeInv, TypeOK
  <2> QED
    BY <1>4, <2>1, <2>2
<1>13. delayed' \subseteq (DOMAIN transports') \X Message
  BY <1>5, Zenon DEF SendMakes, TypeInv, TypeOK
<1>14. NodesLead'
  BY <1>4, <1>5, <1>7, Zenon DEF TypeInv, NodesLead
<1> QED
  BY <1>4, <1>11, <1>12, <1>13, <1>14, Zenon DEF SendMakes, TypeInv, TypeOK

\* Dial keeps the types.
LEMMA DialTypes ==
    ASSUME TypeInv, NEW g \in Goroutine, Dial(g)
    PROVE  TypeInv'
<1> DEFINE t == sender[g].conn
           d == transports[t].to
<1>1. sender[g].place = "dial" /\ socket' = Remember(d, t) /\ Transmit(g, t, d)
        /\ UNCHANGED <<transports, stopped, receiver, handled, faults, faulty>>
  BY Zenon DEF Dial
<1>2. t \in DOMAIN transports /\ d \in sender[g].todo
  BY <1>1, Zenon DEF TypeInv, Connected
<1>3. t \in Nat /\ d \in Dest /\ socket \in Socket
  BY <1>2, SenderType, Zenon DEF TypeInv, TypeOK
<1> HIDE DEF t
<1>4. socket' \in Socket /\ \A e \in Dest : socket'.nodes[e] = IF e = d THEN t ELSE socket.nodes[e]
  BY <1>1, <1>3, Zenon DEF Remember, Socket
<1>5. NodesLead'
  BY <1>1, <1>2, <1>3, <1>4, Zenon DEF TypeInv, NodesLead
<1> QED
  BY <1>1, <1>2, <1>4, <1>5, TransmitTypes, Zenon

\* Stop keeps the types.
LEMMA StopTypes ==
    ASSUME TypeInv, Stop, faults' \in 0..MaxFaults
    PROVE  TypeInv'
<1> DEFINE s(g) == [sender[g] EXCEPT !.todo = {}, !.place = "next", !.conn = 0, !.tries = 0]
           w(t) == [transports[t] EXCEPT !.send = << >>]
<1>1. sender' = [g \in Goroutine |-> s(g)] /\ transports' = [t \in DOMAIN transports |-> w(t)]
  BY Zenon DEF Stop
<1>2. \A g \in Goroutine : s(g) \in Goroutines /\ s(g).calls = sender[g].calls
                              /\ s(g).todo = {} /\ s(g).place = "next"
  BY SenderType, Zenon DEF Goroutines
<1>3. \A t \in DOMAIN transports : /\ w(t) \in Transport /\ w(t).to = transports[t].to
                                   /\ w(t).send = << >>
  <2> SUFFICES ASSUME NEW t \in DOMAIN transports
               PROVE  /\ w(t) \in Transport /\ w(t).to = transports[t].to
                      /\ w(t).send = << >>
    BY Zenon
  <2>1. transports[t] \in Transport /\ << >> \in Seq(Message)
    BY TransportType
  <2> QED
    BY <2>1, Zenon DEF Transport
<1> HIDE DEF s, w
<1>4. sender' \in [Goroutine -> Goroutines] /\ \A g \in Goroutine : sender'[g].calls <= Sends[g]
  BY <1>1, <1>2, SenderType, Zenon
<1>5. Connected'
  BY <1>1, <1>2, Zenon DEF Connected
<1>6. transports \in Seq(Transport)
  BY Zenon DEF TypeInv, TypeOK
<1>7. DOMAIN transports' = DOMAIN transports /\ DOMAIN transports = 1..Len(transports)
        /\ Len(transports) \in Nat
  BY <1>1, <1>6
<1>8. transports' \in Seq(Transport)
  BY <1>1, <1>3, <1>7
<1>9. \A t \in DOMAIN transports' : Len(transports'[t].send) <= QueueSize
  BY <1>1, <1>3, <1>7, NetworkAssumption DEF NetworkAssumption
<1>10. NodesLead'
  <2>1. \A t \in DOMAIN transports : transports'[t].to = transports[t].to
    BY <1>1, <1>3, Zenon
  <2>2. socket' = socket
    BY Zenon DEF Stop
  <2> QED
    BY <1>7, <2>1, <2>2, Zenon DEF TypeInv, NodesLead
<1>11. delayed' \subseteq (DOMAIN transports') \X Message
  BY Zenon DEF Stop
<1>12. stopped' \in BOOLEAN /\ faulty' \subseteq Dest
  BY Zenon DEF Stop
<1> QED
  BY <1>4, <1>5, <1>8, <1>9, <1>10, <1>11, <1>12, Zenon DEF Stop, TypeInv, TypeOK

\* DialFails keeps the types.
LEMMA DialFailsTypes ==
    ASSUME TypeInv, NEW g \in Goroutine, DialFails(g)
    PROVE  TypeInv'
<1>1. CASE Stop /\ UNCHANGED faults
  BY <1>1, StopTypes, Zenon DEF TypeInv, TypeOK
<1>2. CASE /\ sender' = [sender EXCEPT ![g].tries = @ + 1]
           /\ UNCHANGED <<socket, transports, delayed, stopped, receiver, handled,
                          faults, faulty, slowed>>
  <2> DEFINE s == [sender[g] EXCEPT !.tries = @ + 1]
  <2>1. s \in Goroutines /\ s.calls = sender[g].calls /\ s.todo = sender[g].todo
          /\ s.place = sender[g].place /\ s.conn = sender[g].conn
    <3>1. sender[g] \in Goroutines /\ sender[g].tries + 1 \in Nat
      BY SenderType
    <3> QED
      BY <3>1, Zenon DEF Goroutines
  <2>2. sender' = [sender EXCEPT ![g] = s]
    BY <1>2, Zenon DEF TypeInv, TypeOK
  <2>3. /\ s.todo # {} => s.calls > 0
        /\ s.place # "next" => s.conn \in DOMAIN transports' /\ transports'[s.conn].to \in s.todo
    BY <1>2, <2>1, Zenon DEF TypeInv, Connected
  <2>4. /\ sender' \in [Goroutine -> Goroutines]
        /\ \A h \in Goroutine : sender'[h].calls <= Sends[h]
        /\ Connected'
    <3> HIDE DEF s
    <3> QED
      BY <1>2, <2>1, <2>2, <2>3, SenderType, SenderSet, Zenon
  <2> QED
    BY <1>2, <2>4, Zenon DEF TypeInv, TypeOK, NodesLead
<1> QED
  BY <1>1, <1>2, Zenon DEF DialFails

\* A message that is put into the channel of transport t.
LEMMA EnqueueTypes ==
    ASSUME TypeInv, NEW t \in DOMAIN transports, NEW m \in Message,
           HasRoom(t), Enqueue(t, m)
    PROVE  /\ transports' \in Seq(Transport)
           /\ DOMAIN transports' = DOMAIN transports
           /\ \A u \in DOMAIN transports :
                /\ transports'[u].to = transports[u].to
                /\ transports'[u].send = IF u = t THEN Append(transports[t].send, m)
                                                  ELSE transports[u].send
                /\ Len(transports'[u].send) <= QueueSize
<1> DEFINE s == Append(transports[t].send, m)
<1>1. s \in Seq(Message) /\ Len(s) = Len(transports[t].send) + 1 /\ Len(transports[t].send) \in Nat
  BY TransportType
<1>2. transports' = [transports EXCEPT ![t].send = s] /\ Len(s) <= QueueSize
  BY <1>1, NetworkAssumption DEF Enqueue, HasRoom, NetworkAssumption
<1> HIDE DEF s
<1>3. /\ transports' \in Seq(Transport)
      /\ DOMAIN transports' = DOMAIN transports
      /\ \A u \in DOMAIN transports :
            /\ transports'[u].to = transports[u].to
            /\ transports'[u].send = IF u = t THEN s ELSE transports[u].send
  BY <1>1, <1>2, SendSet DEF TypeInv, TypeOK
<1>4. \A u \in DOMAIN transports : Len(transports'[u].send) <= QueueSize
  BY <1>2, <1>3, TransportType, Zenon
<1> QED
  BY <1>3, <1>4, Zenon DEF s

\* Put keeps the types.
LEMMA PutTypes ==
    ASSUME TypeInv, NEW g \in Goroutine, Put(g)
    PROVE  TypeInv'
<1> DEFINE t == sender[g].conn
           d == transports[t].to
<1>1. /\ sender[g].place = "send" /\ HasRoom(t) /\ Enqueue(t, Current(g))
      /\ sender' = [sender EXCEPT ![g] = Done(g, d)]
      /\ UNCHANGED <<socket, delayed, stopped, receiver, handled, faults, faulty, slowed>>
  BY Zenon DEF Put
<1>2. t \in DOMAIN transports /\ d \in sender[g].todo
  BY <1>1, Zenon DEF TypeInv, Connected
<1>3. Current(g) \in Message
  BY <1>2, SenderType, Zenon
<1> HIDE DEF t
<1>4. /\ transports' \in Seq(Transport)
      /\ DOMAIN transports' = DOMAIN transports
      /\ \A u \in DOMAIN transports : /\ transports'[u].to = transports[u].to
                                      /\ Len(transports'[u].send) <= QueueSize
  BY <1>1, <1>2, <1>3, EnqueueTypes, Zenon
<1>5. /\ sender' \in [Goroutine -> Goroutines]
      /\ \A h \in Goroutine : sender'[h].calls <= Sends[h]
      /\ Connected'
  BY <1>1, <1>4, DoneTypes, SenderType, SenderSet, Zenon
<1>6. NodesLead'
  BY <1>1, <1>4, Zenon DEF TypeInv, NodesLead
<1> QED
  BY <1>1, <1>4, <1>5, <1>6, Zenon DEF TypeInv, TypeOK

\* A step that changes neither the goroutines nor where the transports lead.
LEMMA ConnectedStays ==
    ASSUME TypeInv, UNCHANGED <<sender, socket>>, DOMAIN transports' = DOMAIN transports,
           \A u \in DOMAIN transports : transports'[u].to = transports[u].to
    PROVE  Connected' /\ NodesLead'
  BY Zenon DEF TypeInv, Connected, NodesLead

\* PutDelayed keeps the types.
LEMMA PutDelayedTypes ==
    ASSUME TypeInv, PutDelayed
    PROVE  TypeInv'
<1>1. PICK x \in delayed : HasRoom(x[1]) /\ Enqueue(x[1], x[2]) /\ delayed' = delayed \ {x}
  BY Zenon DEF PutDelayed
<1>2. x[1] \in DOMAIN transports /\ x[2] \in Message
  BY Zenon DEF TypeInv, TypeOK
<1>3. /\ transports' \in Seq(Transport)
      /\ DOMAIN transports' = DOMAIN transports
      /\ \A u \in DOMAIN transports : /\ transports'[u].to = transports[u].to
                                      /\ Len(transports'[u].send) <= QueueSize
  BY <1>1, <1>2, EnqueueTypes, Zenon
<1>4. delayed' \subseteq (DOMAIN transports') \X Message
  BY <1>1, <1>3, Zenon DEF TypeInv, TypeOK
<1> QED
  BY <1>3, <1>4, ConnectedStays, Zenon DEF PutDelayed, TypeInv, TypeOK

\* A new state of destination d.
LEMMA ReceiverSet ==
    ASSUME TypeInv, NEW d \in Dest, NEW r \in Receiver, receiver' = [receiver EXCEPT ![d] = r],
           Len(r.recv) <= QueueSize, Len(r.held) <= 1, Len(r.messageChan) <= ChanBufferSize
    PROVE  /\ receiver' \in [Dest -> Receiver]
           /\ \A e \in Dest : receiver'[e] = IF e = d THEN r ELSE receiver[e]
           /\ \A e \in Dest : /\ Len(receiver'[e].recv) <= QueueSize
                              /\ Len(receiver'[e].held) <= 1
                              /\ Len(receiver'[e].messageChan) <= ChanBufferSize
<1>1. receiver \in [Dest -> Receiver]
  BY Zenon DEF TypeInv, TypeOK
<1>2. /\ receiver' \in [Dest -> Receiver]
      /\ \A e \in Dest : receiver'[e] = IF e = d THEN r ELSE receiver[e]
  BY <1>1, Zenon
<1> QED
  BY <1>2, ReceiverType, Zenon

\* The crash of destination d has an end, and d is to blame if it throws messages away.
ReceiverOK(r, d, blamed) ==
    /\ CrashEnds /\ r.crashTimers = 0 => ~r.crash
    /\ r.crash \/ r.silent => d \in blamed

\* Listen, CrashAt and CrashOverAt change the flags of a destination only.
LEMMA FlagTypes ==
    ASSUME TypeInv, NEW d \in Dest, Listen(d) \/ CrashAt(d) \/ CrashOverAt(d),
           \A e \in Dest : ReceiverOK(receiver[e], e, faulty)
    PROVE  /\ TypeInv' /\ faulty \subseteq faulty'
           /\ \A e \in Dest : /\ receiver'[e].recv = receiver[e].recv
                              /\ receiver'[e].held = receiver[e].held
                              /\ receiver'[e].messageChan = receiver[e].messageChan
                              /\ ReceiverOK(receiver'[e], e, faulty')
<1>1. PICK r \in Receiver :
        /\ receiver' = [receiver EXCEPT ![d] = r]
        /\ r.recv = receiver[d].recv /\ r.held = receiver[d].held
        /\ r.messageChan = receiver[d].messageChan /\ ReceiverOK(r, d, faulty')
  <2>1. receiver[d] \in Receiver /\ Started \in Nat
    BY ReceiverType, Zenon DEF Started
  <2>2. CASE Listen(d)
    <3> DEFINE r == [receiver[d] EXCEPT !.listening = TRUE]
    <3>1. /\ r \in Receiver /\ r.recv = receiver[d].recv /\ r.held = receiver[d].held
          /\ r.messageChan = receiver[d].messageChan /\ r.silent = receiver[d].silent
          /\ r.crash = receiver[d].crash /\ r.crashTimers = receiver[d].crashTimers
      BY <2>1, Zenon DEF Receiver
    <3>2. receiver' = [receiver EXCEPT ![d] = r] /\ faulty' = faulty
      BY <2>2, Zenon DEF Listen, TypeInv, TypeOK
    <3>3. ReceiverOK(r, d, faulty')
      BY <3>1, <3>2, Zenon DEF ReceiverOK
    <3> QED
      BY <3>1, <3>2, <3>3, Zenon
  <2>3. CASE CrashAt(d)
    <3> DEFINE r == [receiver[d] EXCEPT !.crash = TRUE, !.crashTimers = @ + Started]
    <3>1. /\ receiver[d].crashTimers + Started \in Nat
          /\ CrashEnds => receiver[d].crashTimers + Started # 0
      BY <2>1, ReceiverType DEF Started
    <3>2. /\ r \in Receiver /\ r.recv = receiver[d].recv /\ r.held = receiver[d].held
          /\ r.messageChan = receiver[d].messageChan
          /\ r.crashTimers = receiver[d].crashTimers + Started
      BY <2>1, <3>1, Zenon DEF Receiver
    <3>3. receiver' = [receiver EXCEPT ![d] = r] /\ d \in faulty'
      BY <2>3, Zenon DEF CrashAt, TypeInv, TypeOK
    <3>4. ReceiverOK(r, d, faulty')
      BY <3>1, <3>2, <3>3, Zenon DEF ReceiverOK
    <3> QED
      BY <3>2, <3>3, <3>4, Zenon
  <2>4. CASE CrashOverAt(d)
    <3> DEFINE r == [receiver[d] EXCEPT !.crash = FALSE, !.crashTimers = @ - 1]
    <3>1. receiver[d].crashTimers - 1 \in Nat
      BY <2>4, ReceiverType DEF CrashOverAt
    <3>2. /\ r \in Receiver /\ r.recv = receiver[d].recv /\ r.held = receiver[d].held
          /\ r.messageChan = receiver[d].messageChan /\ r.silent = receiver[d].silent
          /\ ~r.crash
      BY <2>1, <3>1, Zenon DEF Receiver
    <3>3. receiver' = [receiver EXCEPT ![d] = r] /\ faulty' = faulty
      BY <2>4, Zenon DEF CrashOverAt, TypeInv, TypeOK
    <3>4. ReceiverOK(r, d, faulty')
      BY <3>2, <3>3, Zenon DEF ReceiverOK
    <3> QED
      BY <3>2, <3>3, <3>4, Zenon
  <2> QED
    BY <2>2, <2>3, <2>4, Zenon
<1>2. /\ receiver' \in [Dest -> Receiver]
      /\ \A e \in Dest : receiver'[e] = IF e = d THEN r ELSE receiver[e]
      /\ \A e \in Dest : /\ Len(receiver'[e].recv) <= QueueSize
                         /\ Len(receiver'[e].held) <= 1
                         /\ Len(receiver'[e].messageChan) <= ChanBufferSize
  BY <1>1, ReceiverType, ReceiverSet, Zenon
<1>3. UNCHANGED <<sender, socket, transports, delayed, stopped, handled, slowed>>
  BY Zenon DEF Listen, CrashAt, CrashOverAt
<1>4. faults' \in 0..MaxFaults /\ faulty' \subseteq Dest /\ faulty \subseteq faulty'
  BY NetworkAssumption DEF Listen, CrashAt, CrashOverAt, Inject, TypeInv, TypeOK, NetworkAssumption
<1>5. TypeInv'
  BY <1>2, <1>3, <1>4, ConnectedStays, Zenon DEF TypeInv, TypeOK
<1>6. \A e \in Dest \ {d} : ReceiverOK(receiver'[e], e, faulty')
  BY <1>2, <1>4, Zenon DEF ReceiverOK
<1> QED
  BY <1>1, <1>2, <1>4, <1>5, <1>6, Zenon

\* Carry keeps the types.
LEMMA CarryTypes ==
    ASSUME TypeInv, NEW t \in DOMAIN transports, Carry(t)
    PROVE  /\ TypeInv'
           /\ DOMAIN transports' = DOMAIN transports
           /\ \A u \in DOMAIN transports :
                /\ transports'[u].to = transports[u].to
                /\ transports'[u].send = IF u = t THEN Tail(transports[t].send)
                                                  ELSE transports[u].send
           /\ \A e \in Dest :
                /\ receiver'[e].recv = IF e = transports[t].to
                                       THEN Append(receiver[e].recv, Head(transports[t].send))
                                       ELSE receiver[e].recv
                /\ receiver'[e].held = receiver[e].held
                /\ receiver'[e].messageChan = receiver[e].messageChan
                /\ receiver'[e].crash = receiver[e].crash
                /\ receiver'[e].crashTimers = receiver[e].crashTimers
                /\ receiver'[e].silent = receiver[e].silent
<1> DEFINE d == transports[t].to
           m == Head(transports[t].send)
           q == Append(receiver[d].recv, m)
           r == [receiver[d] EXCEPT !.recv = q]
           s == Tail(transports[t].send)
<1>1. d \in Dest /\ transports[t].send \in Seq(Message) /\ transports[t].send # << >>
        /\ Len(transports[t].send) <= QueueSize
  BY TransportType, Zenon DEF Carry
<1>2. /\ m \in Message /\ s \in Seq(Message) /\ Len(s) = Len(transports[t].send) - 1
      /\ Len(transports[t].send) \in Nat
  BY <1>1
<1>3. q \in Seq(Message) /\ Len(q) = Len(receiver[d].recv) + 1 /\ Len(receiver[d].recv) \in Nat
  BY <1>1, <1>2, ReceiverType
<1>4. Len(q) <= QueueSize /\ Len(s) <= QueueSize
  BY <1>1, <1>2, <1>3, NetworkAssumption DEF Carry, NetworkAssumption
<1>5. receiver' = [receiver EXCEPT ![d] = r] /\ transports' = [transports EXCEPT ![t].send = s]
  BY <1>1, Zenon DEF Carry, TypeInv, TypeOK
<1> HIDE DEF d, m, q, s
<1>6. /\ r \in Receiver /\ r.recv = q /\ r.held = receiver[d].held
      /\ r.messageChan = receiver[d].messageChan /\ r.crash = receiver[d].crash
      /\ r.silent = receiver[d].silent /\ r.crashTimers = receiver[d].crashTimers
  BY <1>1, <1>3, ReceiverType, Zenon DEF Receiver
<1> HIDE DEF r
<1>7. /\ receiver' \in [Dest -> Receiver]
      /\ \A e \in Dest : receiver'[e] = IF e = d THEN r ELSE receiver[e]
      /\ \A e \in Dest : /\ Len(receiver'[e].recv) <= QueueSize
                         /\ Len(receiver'[e].held) <= 1
                         /\ Len(receiver'[e].messageChan) <= ChanBufferSize
  BY <1>1, <1>4, <1>5, <1>6, ReceiverType, ReceiverSet, Zenon
<1>8. /\ transports' \in Seq(Transport)
      /\ DOMAIN transports' = DOMAIN transports
      /\ \A u \in DOMAIN transports :
            /\ transports'[u].to = transports[u].to
            /\ transports'[u].send = IF u = t THEN s ELSE transports[u].send
  BY <1>2, <1>5, SendSet DEF TypeInv, TypeOK
<1>9. \A u \in DOMAIN transports' : Len(transports'[u].send) <= QueueSize
  BY <1>4, <1>8, TransportType, Zenon
<1>10. UNCHANGED <<sender, socket, delayed, stopped, handled, faults, faulty, slowed>>
  BY Zenon DEF Carry
<1>11. TypeInv'
  BY <1>7, <1>8, <1>9, <1>10, ConnectedStays, Zenon DEF TypeInv, TypeOK
<1> QED
  BY <1>6, <1>7, <1>8, <1>11, Zenon DEF d, m, q, s

\* Receive keeps the types.
LEMMA ReceiveTypes ==
    ASSUME TypeInv, NEW d \in Dest, Receive(d)
    PROVE  /\ TypeInv'
           /\ receiver[d].recv # << >> /\ receiver[d].held = << >>
           /\ receiver'[d].recv = Tail(receiver[d].recv)
           /\ receiver'[d].held = IF receiver[d].crash \/ receiver[d].silent
                                  THEN << >> ELSE <<Head(receiver[d].recv)>>
           /\ receiver'[d].messageChan = receiver[d].messageChan
           /\ receiver'[d].crash = receiver[d].crash
           /\ receiver'[d].crashTimers = receiver[d].crashTimers
           /\ receiver'[d].silent = receiver[d].silent
           /\ \A e \in Dest \ {d} : receiver'[e] = receiver[e]
<1> DEFINE q == Tail(receiver[d].recv)
           h == IF receiver[d].crash \/ receiver[d].silent
                THEN << >> ELSE <<Head(receiver[d].recv)>>
           r == [receiver[d] EXCEPT !.recv = q, !.held = h]
<1>1. receiver[d].recv \in Seq(Message) /\ receiver[d].recv # << >> /\ receiver[d].held = << >>
  BY ReceiverType, Zenon DEF Receive
<1>2. /\ Head(receiver[d].recv) \in Message /\ q \in Seq(Message)
      /\ Len(q) = Len(receiver[d].recv) - 1 /\ Len(receiver[d].recv) \in Nat
  BY <1>1
<1>3. h \in Seq(Message) /\ Len(h) <= 1
  BY <1>2
<1>4. Len(q) <= QueueSize
  BY <1>2, ReceiverType, NetworkAssumption DEF NetworkAssumption
<1>5. receiver' = [receiver EXCEPT ![d] = r]
  BY Zenon DEF Receive, TypeInv, TypeOK
<1> HIDE DEF q, h
<1>6. /\ r \in Receiver /\ r.recv = q /\ r.held = h
      /\ r.messageChan = receiver[d].messageChan /\ r.crash = receiver[d].crash
      /\ r.silent = receiver[d].silent /\ r.crashTimers = receiver[d].crashTimers
  BY <1>2, <1>3, ReceiverType, Zenon DEF Receiver
<1> HIDE DEF r
<1>7. /\ receiver' \in [Dest -> Receiver]
      /\ \A e \in Dest : receiver'[e] = IF e = d THEN r ELSE receiver[e]
      /\ \A e \in Dest : /\ Len(receiver'[e].recv) <= QueueSize
                         /\ Len(receiver'[e].held) <= 1
                         /\ Len(receiver'[e].messageChan) <= ChanBufferSize
  BY <1>3, <1>4, <1>5, <1>6, ReceiverType, ReceiverSet, Zenon
<1>8. UNCHANGED <<sender, socket, transports, delayed, stopped, handled, faults, faulty, slowed>>
  BY Zenon DEF Receive
<1>9. TypeInv'
  BY <1>7, <1>8, ConnectedStays, Zenon DEF TypeInv, TypeOK
<1> QED
  BY <1>1, <1>6, <1>7, <1>9, Zenon DEF q, h

\* PassOn keeps the types.
LEMMA PassOnTypes ==
    ASSUME TypeInv, NEW d \in Dest, PassOn(d)
    PROVE  /\ TypeInv'
           /\ receiver[d].held # << >> /\ Len(receiver[d].held) = 1
           /\ receiver'[d].recv = receiver[d].recv
           /\ receiver'[d].held = << >>
           /\ receiver'[d].messageChan = Append(receiver[d].messageChan, receiver[d].held[1])
           /\ receiver'[d].crash = receiver[d].crash
           /\ receiver'[d].crashTimers = receiver[d].crashTimers
           /\ receiver'[d].silent = receiver[d].silent
           /\ \A e \in Dest \ {d} : receiver'[e] = receiver[e]
<1> DEFINE q == Append(receiver[d].messageChan, receiver[d].held[1])
           r == [receiver[d] EXCEPT !.held = << >>, !.messageChan = q]
<1>1. /\ receiver[d].held \in Seq(Message) /\ receiver[d].messageChan \in Seq(Message)
      /\ receiver[d].held # << >> /\ Len(receiver[d].held) <= 1
      /\ Len(receiver[d].messageChan) < ChanBufferSize
  BY ReceiverType, Zenon DEF PassOn
<1>2. Len(receiver[d].held) = 1 /\ receiver[d].held[1] \in Message
  <2>1. Len(receiver[d].held) \in Nat /\ Len(receiver[d].held) # 0
    BY <1>1
  <2>2. Len(receiver[d].held) = 1
    <3> DEFINE n == Len(receiver[d].held)
    <3>1. n \in Nat /\ n # 0 /\ n <= 1
      BY <1>1, <2>1, Zenon
    <3> HIDE DEF n
    <3>2. n = 1
      BY <3>1
    <3> QED
      BY <3>2, Zenon DEF n
  <2> QED
    BY <1>1, <2>2
<1>3. receiver[d].messageChan \o receiver[d].held = q
  <2>1. receiver[d].held = <<receiver[d].held[1]>>
    BY <1>1, <1>2
  <2> QED
    <3> DEFINE m == receiver[d].messageChan
               e == receiver[d].held[1]
    <3>1. m \in Seq(Message) /\ e \in Message
      BY <1>1, <1>2, Zenon
    <3> HIDE DEF m, e
    <3>2. m \o <<e>> = Append(m, e)
      BY <3>1
    <3> QED
      BY <2>1, <3>2, Zenon DEF m, e
<1>4. q \in Seq(Message) /\ Len(q) = Len(receiver[d].messageChan) + 1
        /\ Len(receiver[d].messageChan) \in Nat
  BY <1>1, <1>2
<1>11. Len(q) <= ChanBufferSize
  BY <1>1, <1>4, NetworkAssumption DEF NetworkAssumption
<1> HIDE DEF q
<1>5. receiver' = [receiver EXCEPT ![d] = r]
  BY <1>3, Zenon DEF PassOn, TypeInv, TypeOK
<1>6. /\ r \in Receiver /\ r.messageChan = q /\ r.held = << >>
      /\ r.recv = receiver[d].recv /\ r.crash = receiver[d].crash
      /\ r.silent = receiver[d].silent /\ r.crashTimers = receiver[d].crashTimers
  <2>1. receiver[d] \in Receiver /\ << >> \in Seq(Message)
    BY ReceiverType
  <2> QED
    BY <1>4, <2>1, Zenon DEF Receiver
<1> HIDE DEF r
<1>7. /\ receiver' \in [Dest -> Receiver]
      /\ \A e \in Dest : receiver'[e] = IF e = d THEN r ELSE receiver[e]
      /\ \A e \in Dest : /\ Len(receiver'[e].recv) <= QueueSize
                         /\ Len(receiver'[e].held) <= 1
                         /\ Len(receiver'[e].messageChan) <= ChanBufferSize
  <2>1. Len(r.recv) <= QueueSize /\ Len(r.held) <= 1
    BY <1>6, ReceiverType
  <2> QED
    BY <1>5, <1>6, <1>11, <2>1, ReceiverSet, Zenon
<1>8. UNCHANGED <<sender, socket, transports, delayed, stopped, handled, faults, faulty, slowed>>
  BY Zenon DEF PassOn
<1>9. TypeInv'
  BY <1>7, <1>8, ConnectedStays, Zenon DEF TypeInv, TypeOK
<1> QED
  BY <1>1, <1>2, <1>6, <1>7, <1>9, Zenon DEF q

\* Handle keeps the types.
LEMMA HandleTypes ==
    ASSUME TypeInv, NEW d \in Dest, Handle(d)
    PROVE  /\ TypeInv'
           /\ receiver[d].messageChan # << >>
           /\ receiver'[d].recv = receiver[d].recv
           /\ receiver'[d].held = receiver[d].held
           /\ receiver'[d].messageChan = Tail(receiver[d].messageChan)
           /\ receiver'[d].crash = receiver[d].crash
           /\ receiver'[d].crashTimers = receiver[d].crashTimers
           /\ receiver'[d].silent = receiver[d].silent
           /\ \A e \in Dest \ {d} : receiver'[e] = receiver[e]
<1> DEFINE q == Tail(receiver[d].messageChan)
           m == Head(receiver[d].messageChan)
           r == [receiver[d] EXCEPT !.messageChan = q]
<1>1. receiver[d].messageChan \in Seq(Message) /\ receiver[d].messageChan # << >>
  BY ReceiverType, Zenon DEF Handle
<1>2. /\ m \in Message /\ q \in Seq(Message)
      /\ Len(q) = Len(receiver[d].messageChan) - 1 /\ Len(receiver[d].messageChan) \in Nat
  BY <1>1
<1>3. Len(q) <= ChanBufferSize
  BY <1>2, ReceiverType, NetworkAssumption DEF NetworkAssumption
<1>4. receiver' = [receiver EXCEPT ![d] = r]
  BY Zenon DEF Handle, TypeInv, TypeOK
<1> HIDE DEF q
<1>5. /\ r \in Receiver /\ r.messageChan = q /\ r.held = receiver[d].held
      /\ r.recv = receiver[d].recv /\ r.crash = receiver[d].crash
      /\ r.silent = receiver[d].silent /\ r.crashTimers = receiver[d].crashTimers
  BY <1>2, ReceiverType, Zenon DEF Receiver
<1> HIDE DEF r
<1>6. /\ receiver' \in [Dest -> Receiver]
      /\ \A e \in Dest : receiver'[e] = IF e = d THEN r ELSE receiver[e]
      /\ \A e \in Dest : /\ Len(receiver'[e].recv) <= QueueSize
                         /\ Len(receiver'[e].held) <= 1
                         /\ Len(receiver'[e].messageChan) <= ChanBufferSize
  BY <1>3, <1>4, <1>5, ReceiverType, ReceiverSet, Zenon
<1>7. handled' \in [Dest -> Seq(Message)]
  <2>1. handled \in [Dest -> Seq(Message)] /\ Append(handled[d], m) \in Seq(Message)
    BY <1>2 DEF TypeInv, TypeOK
  <2> QED
    BY <2>1, Zenon DEF Handle
<1>8. UNCHANGED <<sender, socket, transports, delayed, stopped, faults, faulty, slowed>>
  BY Zenon DEF Handle
<1>9. TypeInv'
  BY <1>6, <1>7, <1>8, ConnectedStays, Zenon DEF TypeInv, TypeOK
<1> QED
  BY <1>1, <1>5, <1>6, <1>9, Zenon DEF q

\* What the type invariant says of the socket.
LEMMA SocketType ==
    ASSUME TypeInv
    PROVE  /\ socket \in Socket /\ socket.nodes \in [Dest -> Nat]
           /\ socket.crash \in BOOLEAN /\ socket.crashTimers \in Nat
           /\ socket.slow \in [Dest -> BOOLEAN] /\ socket.slowTimers \in [Dest -> Nat]
           /\ socket.flaky \in [Dest -> BOOLEAN] /\ socket.flakyTimers \in [Dest -> Nat]
           /\ Started \in Nat
  BY Zenon DEF TypeInv, TypeOK, Socket, Started

\* The faults of the socket have an end, and a node is to blame for each.
SocketOK(s, blamed) ==
    /\ CrashEnds /\ s.crashTimers = 0 => ~s.crash
    /\ \A d \in Dest : /\ s.slowTimers[d] = 0 => ~s.slow[d]
                       /\ s.flakyTimers[d] = 0 => ~s.flaky[d]
    /\ s.crash => blamed = Dest
    /\ \A d \in Dest : s.flaky[d] => d \in blamed

\* Crash leaves a socket, with the same transports, whose faults have an end.
LEMMA CrashSocket ==
    ASSUME TypeInv, Crash, SocketOK(socket, faulty)
    PROVE  socket' \in Socket /\ socket'.nodes = socket.nodes /\ SocketOK(socket', faulty')
<1>1. /\ socket' = [socket EXCEPT !.crash = TRUE, !.crashTimers = @ + Started]
      /\ faulty' = Dest
  BY Zenon DEF Crash
<1>2. socket.crashTimers + Started \in Nat /\ (CrashEnds => socket.crashTimers + Started # 0)
  BY SocketType DEF Started
<1>3. /\ socket' \in Socket /\ socket'.nodes = socket.nodes /\ socket'.crash = TRUE
      /\ socket'.crashTimers = socket.crashTimers + Started
      /\ socket'.slow = socket.slow /\ socket'.slowTimers = socket.slowTimers
      /\ socket'.flaky = socket.flaky /\ socket'.flakyTimers = socket.flakyTimers
  BY <1>1, <1>2, SocketType, Zenon DEF Socket
<1> QED
  BY <1>1, <1>2, <1>3, Zenon DEF SocketOK

\* The same for the end of a crash.
LEMMA CrashOverSocket ==
    ASSUME TypeInv, CrashOver, SocketOK(socket, faulty)
    PROVE  socket' \in Socket /\ socket'.nodes = socket.nodes /\ SocketOK(socket', faulty')
<1>1. /\ socket' = [socket EXCEPT !.crash = FALSE, !.crashTimers = @ - 1]
      /\ faulty' = faulty
  BY Zenon DEF CrashOver
<1>2. socket.crashTimers - 1 \in Nat
  BY SocketType DEF CrashOver
<1>3. /\ socket' \in Socket /\ socket'.nodes = socket.nodes /\ socket'.crash = FALSE
      /\ socket'.slow = socket.slow /\ socket'.slowTimers = socket.slowTimers
      /\ socket'.flaky = socket.flaky /\ socket'.flakyTimers = socket.flakyTimers
  BY <1>1, <1>2, SocketType, Zenon DEF Socket
<1> QED
  BY <1>1, <1>3, Zenon DEF SocketOK

\* The same for Slow.
LEMMA SlowSocket ==
    ASSUME TypeInv, SocketOK(socket, faulty), NEW slow \in [Dest -> BOOLEAN],
           socket' = [socket EXCEPT !.slow = slow, !.slowTimers = More(@)], faulty' = faulty
    PROVE  socket' \in Socket /\ socket'.nodes = socket.nodes /\ SocketOK(socket', faulty')
<1>1. /\ More(socket.slowTimers) \in [Dest -> Nat]
      /\ \A d \in Dest : More(socket.slowTimers)[d] # 0
  BY SocketType DEF More
<1>2. socket \in Socket
  BY SocketType, Zenon
<1>3. /\ socket' \in Socket /\ socket'.nodes = socket.nodes /\ socket'.crash = socket.crash
      /\ socket'.crashTimers = socket.crashTimers /\ socket'.slowTimers = More(socket.slowTimers)
      /\ socket'.flaky = socket.flaky /\ socket'.flakyTimers = socket.flakyTimers
  BY <1>1, <1>2, Zenon DEF Socket
<1> QED
  BY <1>1, <1>3, Zenon DEF SocketOK

\* The same for the end of Slow for d.
LEMMA SlowOverSocket ==
    ASSUME TypeInv, SocketOK(socket, faulty), NEW d \in Dest, socket.slowTimers[d] > 0,
           socket' = [socket EXCEPT !.slow[d] = FALSE, !.slowTimers[d] = @ - 1], faulty' = faulty
    PROVE  socket' \in Socket /\ socket'.nodes = socket.nodes /\ SocketOK(socket', faulty')
<1> DEFINE f == [socket.slow EXCEPT ![d] = FALSE]
           n == [socket.slowTimers EXCEPT ![d] = @ - 1]
<1>1. /\ f \in [Dest -> BOOLEAN] /\ n \in [Dest -> Nat]
      /\ \A e \in Dest : e # d => f[e] = socket.slow[e] /\ n[e] = socket.slowTimers[e]
      /\ ~f[d]
  BY SocketType
<1>2. socket' = [socket EXCEPT !.slow = f, !.slowTimers = n] /\ socket \in Socket
  BY SocketType, Zenon DEF Socket
<1> HIDE DEF f, n
<1>3. /\ socket' \in Socket /\ socket'.nodes = socket.nodes /\ socket'.crash = socket.crash
      /\ socket'.crashTimers = socket.crashTimers /\ socket'.slow = f /\ socket'.slowTimers = n
      /\ socket'.flaky = socket.flaky /\ socket'.flakyTimers = socket.flakyTimers
  BY <1>1, <1>2, Zenon DEF Socket
<1> QED
  BY <1>1, <1>3, Zenon DEF SocketOK

\* The same for Flaky.
LEMMA FlakySocket ==
    ASSUME TypeInv, SocketOK(socket, faulty), faulty' = faulty \union Dest,
           socket' = [socket EXCEPT !.flaky = [d \in Dest |-> TRUE], !.flakyTimers = More(@)]
    PROVE  socket' \in Socket /\ socket'.nodes = socket.nodes /\ SocketOK(socket', faulty')
<1>1. /\ More(socket.flakyTimers) \in [Dest -> Nat]
      /\ \A d \in Dest : More(socket.flakyTimers)[d] # 0
  BY SocketType DEF More
<1>2. socket \in Socket /\ [d \in Dest |-> TRUE] \in [Dest -> BOOLEAN] /\ faulty' = Dest
  BY SocketType, Zenon DEF TypeInv, TypeOK
<1>3. /\ socket' \in Socket /\ socket'.nodes = socket.nodes /\ socket'.crash = socket.crash
      /\ socket'.crashTimers = socket.crashTimers /\ socket'.slow = socket.slow
      /\ socket'.slowTimers = socket.slowTimers /\ socket'.flakyTimers = More(socket.flakyTimers)
  BY <1>1, <1>2, Zenon DEF Socket
<1> QED
  BY <1>1, <1>2, <1>3, Zenon DEF SocketOK

\* The same for the end of Flaky for d.
LEMMA FlakyOverSocket ==
    ASSUME TypeInv, SocketOK(socket, faulty), NEW d \in Dest, socket.flakyTimers[d] > 0,
           socket' = NotFlaky(d), faulty' = faulty
    PROVE  socket' \in Socket /\ socket'.nodes = socket.nodes /\ SocketOK(socket', faulty')
<1> DEFINE f == [socket.flaky EXCEPT ![d] = FALSE]
           n == [socket.flakyTimers EXCEPT ![d] = @ - 1]
<1>1. /\ f \in [Dest -> BOOLEAN] /\ n \in [Dest -> Nat]
      /\ \A e \in Dest : e # d => f[e] = socket.flaky[e] /\ n[e] = socket.flakyTimers[e]
      /\ ~f[d]
  BY SocketType
<1>2. socket' = [socket EXCEPT !.flaky = f, !.flakyTimers = n] /\ socket \in Socket
  BY SocketType, Zenon DEF Socket, NotFlaky
<1> HIDE DEF f, n
<1>3. /\ socket' \in Socket /\ socket'.nodes = socket.nodes /\ socket'.crash = socket.crash
      /\ socket'.crashTimers = socket.crashTimers /\ socket'.flaky = f /\ socket'.flakyTimers = n
      /\ socket'.slow = socket.slow /\ socket'.slowTimers = socket.slowTimers
  BY <1>1, <1>2, Zenon DEF Socket
<1> QED
  BY <1>1, <1>3, Zenon DEF SocketOK

\* A fault of the socket begins or ends.
SocketFault ==
    Crash \/ CrashOver \/ Slow \/ Flaky \/ \E d \in Dest : SlowOver(d) \/ FlakyOver(d)

\* Such a step keeps the types, and changes the socket only or ends the process.
LEMMA SocketFaultTypes ==
    ASSUME TypeInv, SocketOK(socket, faulty), SocketFault
    PROVE  /\ TypeInv' /\ SocketOK(socket', faulty') /\ faulty \subseteq faulty'
           /\ \/ Stop
              \/ UNCHANGED <<sender, transports, delayed, receiver, handled>>
<1> DEFINE Kept ==
        /\ socket' \in Socket /\ socket'.nodes = socket.nodes /\ SocketOK(socket', faulty')
        /\ UNCHANGED <<sender, transports, delayed, stopped, receiver, handled, slowed>>
        /\ faulty \subseteq faulty' /\ faulty' \subseteq Dest
<1>1. faults' \in 0..MaxFaults
  <2>1. Inject \/ UNCHANGED faults
    BY Zenon DEF SocketFault, Crash, CrashOver, Slow, Flaky, SlowOver, FlakyOver
  <2> QED
    BY <2>1, NetworkAssumption DEF Inject, TypeInv, TypeOK, NetworkAssumption
<1>2. CASE Stop
  <2>1. socket' = socket /\ faulty' = Dest
    BY <1>2, Zenon DEF Stop
  <2> QED
    BY <1>1, <1>2, <2>1, StopTypes, Zenon DEF SocketOK, TypeInv, TypeOK
<1>3. CASE ~Stop
  <2>1. Kept
    <3>0. faulty \subseteq Dest
      BY Zenon DEF TypeInv, TypeOK
    <3>1. CASE Crash
      BY <3>0, <3>1, CrashSocket, Zenon DEF Crash
    <3>2. CASE CrashOver
      BY <3>0, <3>2, CrashOverSocket, Zenon DEF CrashOver
    <3>3. CASE Slow
      <4>1. PICK slow \in [Dest -> BOOLEAN] :
              Write([socket EXCEPT !.slow = slow, !.slowTimers = More(@)], {},
                    Sending \/ AnyTimer(socket.slowTimers))
        BY <3>3, Zenon DEF Slow
      <4>2. /\ socket' = [socket EXCEPT !.slow = slow, !.slowTimers = More(@)]
            /\ faulty' = faulty
            /\ UNCHANGED <<sender, transports, delayed, stopped, receiver, handled, slowed>>
        BY <1>3, <4>1, Zenon DEF Write
      <4> QED
        BY <3>0, <4>2, SlowSocket, Zenon
    <3>4. CASE Flaky
      <4>1. /\ socket' = [socket EXCEPT !.flaky = [d \in Dest |-> TRUE], !.flakyTimers = More(@)]
            /\ faulty' = faulty \union Dest
            /\ UNCHANGED <<sender, transports, delayed, stopped, receiver, handled, slowed>>
        BY <1>3, <3>4, Zenon DEF Flaky, Write
      <4> QED
        BY <3>0, <4>1, FlakySocket, Zenon
    <3>5. ASSUME NEW d \in Dest, SlowOver(d)
          PROVE  Kept
      <4>1. /\ socket.slowTimers[d] > 0
            /\ socket' = [socket EXCEPT !.slow[d] = FALSE, !.slowTimers[d] = @ - 1]
            /\ faulty' = faulty
            /\ UNCHANGED <<sender, transports, delayed, stopped, receiver, handled, slowed>>
        BY <1>3, <3>5, Zenon DEF SlowOver, Write
      <4> QED
        BY <3>0, <4>1, SlowOverSocket, Zenon
    <3>6. ASSUME NEW d \in Dest, FlakyOver(d)
          PROVE  Kept
      <4>1. /\ socket.flakyTimers[d] > 0
            /\ socket' = NotFlaky(d)
            /\ faulty' = faulty
            /\ UNCHANGED <<sender, transports, delayed, stopped, receiver, handled, slowed>>
        BY <1>3, <3>6, Zenon DEF FlakyOver, Write
      <4> QED
        BY <3>0, <4>1, FlakyOverSocket, Zenon
    <3> QED
      BY <3>1, <3>2, <3>3, <3>4, <3>5, <3>6, Zenon DEF SocketFault
  <2>2. Connected' /\ NodesLead'
    BY <2>1, Zenon DEF TypeInv, Connected, NodesLead
  <2> QED
    BY <1>1, <2>1, <2>2, Zenon DEF TypeInv, TypeOK
<1> QED
  BY <1>2, <1>3, Zenon

-----------------------------------------------------------------------------
(* The faults *)

\* The types, and that every fault ends and has a node to blame: TypeOK and
\* FaultsEnd follow.
FaultInv ==
    /\ TypeInv
    /\ SocketOK(socket, faulty)
    /\ \A d \in Dest : ReceiverOK(receiver[d], d, faulty)

\* A step that leaves the faults of the nodes alone.
LEMMA SameFaults ==
    ASSUME FaultInv, TypeInv', faulty \subseteq faulty',
           UNCHANGED socket \/ SocketOK(socket', faulty'),
           \A d \in Dest : /\ receiver'[d].crash = receiver[d].crash
                           /\ receiver'[d].crashTimers = receiver[d].crashTimers
                           /\ receiver'[d].silent = receiver[d].silent
    PROVE  FaultInv'
<1>1. SocketOK(socket', faulty')
  <2>1. faulty \subseteq Dest /\ faulty' \subseteq Dest
    BY Zenon DEF FaultInv, TypeInv, TypeOK
  <2> QED
    BY <2>1, Zenon DEF FaultInv, SocketOK
<1>2. \A d \in Dest : ReceiverOK(receiver'[d], d, faulty')
  BY Zenon DEF FaultInv, ReceiverOK
<1> QED
  BY <1>1, <1>2, Zenon DEF FaultInv

\* Sending keeps the invariant.
LEMMA SendFaults ==
    ASSUME FaultInv, NEW g \in Goroutine,
           \/ Broadcast(g) \/ Unicast(g) \/ SendDrops(g) \/ SendFinds(g) \/ SendMakes(g)
           \/ Dial(g) \/ DialFails(g) \/ Put(g)
    PROVE  FaultInv'
<1>0. TypeInv /\ faulty \subseteq Dest
  BY Zenon DEF FaultInv, TypeInv, TypeOK
<1>1. CASE Broadcast(g) \/ Unicast(g)
  <2>1. PICK to \in SUBSET Dest : Call(g, to)
    BY <1>1, Zenon DEF Broadcast, Unicast
  <2> QED
    BY <1>0, <2>1, CallTypes, SameFaults, Zenon DEF Call
<1>2. CASE SendDrops(g)
  BY <1>0, <1>2, SendDropsTypes, SameFaults, Zenon DEF SendDrops
<1>3. CASE SendFinds(g)
  BY <1>0, <1>3, SendFindsTypes, SameFaults, Zenon DEF SendFinds
<1>4. CASE SendMakes(g)
  BY <1>0, <1>4, SendMakesTypes, SameFaults, Zenon DEF SendMakes
<1>5. CASE Dial(g)
  <2>1. TypeInv' /\ UNCHANGED <<receiver, faulty>>
    BY <1>0, <1>5, DialTypes, Zenon DEF Dial
  <2>2. \E d, t : socket' = [socket EXCEPT !.nodes[d] = t]
    BY <1>5, Zenon DEF Dial, Remember
  <2>3. /\ socket'.crash = socket.crash /\ socket'.crashTimers = socket.crashTimers
        /\ socket'.slow = socket.slow /\ socket'.slowTimers = socket.slowTimers
        /\ socket'.flaky = socket.flaky /\ socket'.flakyTimers = socket.flakyTimers
    BY <1>0, <2>2, SocketType, Zenon DEF Socket
  <2>4. SocketOK(socket', faulty')
    BY <2>1, <2>3, Zenon DEF FaultInv, SocketOK
  <2> QED
    BY <2>1, <2>4, SameFaults, Zenon
<1>6. CASE DialFails(g)
  BY <1>0, <1>6, DialFailsTypes, SameFaults, Zenon DEF DialFails, Stop
<1>7. CASE Put(g)
  BY <1>0, <1>7, PutTypes, SameFaults, Zenon DEF Put
<1> QED
  BY <1>1, <1>2, <1>3, <1>4, <1>5, <1>6, <1>7, Zenon

\* The other steps keep the invariant.
LEMMA ReceiveFaults ==
    ASSUME FaultInv,
           \/ PutDelayed
           \/ \E t \in DOMAIN transports : Carry(t)
           \/ \E d \in Dest : \/ Listen(d) \/ Receive(d) \/ PassOn(d) \/ Handle(d)
                              \/ CrashAt(d) \/ CrashOverAt(d)
           \/ SocketFault
    PROVE  FaultInv'
<1>0. TypeInv /\ SocketOK(socket, faulty) /\ \A d \in Dest : ReceiverOK(receiver[d], d, faulty)
  BY Zenon DEF FaultInv
<1>1. CASE PutDelayed
  BY <1>0, <1>1, PutDelayedTypes, SameFaults, Zenon DEF PutDelayed
<1>2. ASSUME NEW t \in DOMAIN transports, Carry(t) PROVE FaultInv'
  <2>1. UNCHANGED <<socket, faulty>>
    BY <1>2, Zenon DEF Carry
  <2> QED
    BY <1>0, <1>2, <2>1, CarryTypes, SameFaults, Zenon
<1>3. ASSUME NEW d \in Dest, Receive(d) \/ PassOn(d) \/ Handle(d) PROVE FaultInv'
  <2>1. UNCHANGED <<socket, faulty>>
    BY <1>3, Zenon DEF Receive, PassOn, Handle
  <2>2. /\ TypeInv'
        /\ \A e \in Dest : /\ receiver'[e].crash = receiver[e].crash
                           /\ receiver'[e].crashTimers = receiver[e].crashTimers
                           /\ receiver'[e].silent = receiver[e].silent
    BY <1>0, <1>3, ReceiveTypes, PassOnTypes, HandleTypes, Zenon
  <2> QED
    BY <2>1, <2>2, SameFaults, Zenon
<1>4. ASSUME NEW d \in Dest, Listen(d) \/ CrashAt(d) \/ CrashOverAt(d) PROVE FaultInv'
  <2>1. UNCHANGED socket
    BY <1>4, Zenon DEF Listen, CrashAt, CrashOverAt
  <2>2. /\ TypeInv' /\ faulty \subseteq faulty'
        /\ \A e \in Dest : ReceiverOK(receiver'[e], e, faulty')
    BY <1>0, <1>4, FlagTypes, Zenon
  <2>3. SocketOK(socket', faulty')
    BY <1>0, <2>1, <2>2, Zenon DEF SocketOK, TypeInv, TypeOK
  <2> QED
    BY <2>2, <2>3, Zenon DEF FaultInv
<1>5. CASE SocketFault
  <2>1. /\ TypeInv' /\ SocketOK(socket', faulty') /\ faulty \subseteq faulty'
        /\ Stop \/ UNCHANGED receiver
    BY <1>0, <1>5, SocketFaultTypes, Zenon
  <2>2. UNCHANGED receiver
    BY <2>1, Zenon DEF Stop
  <2> QED
    BY <2>1, <2>2, SameFaults, Zenon
<1> QED
  BY <1>1, <1>2, <1>3, <1>4, <1>5, Zenon

\* FaultInv is inductive.
LEMMA FaultInvInductive == FaultInv /\ [Next]_vars => FaultInv'
<1> SUFFICES ASSUME FaultInv, [Next]_vars PROVE FaultInv'
  BY Zenon
<1>1. CASE Next
  BY <1>1, SendFaults, ReceiveFaults, Zenon DEF Next, SocketFault
<1>2. CASE UNCHANGED vars
  BY <1>2, Zenon DEF vars, FaultInv, TypeInv, TypeOK, Connected, NodesLead, SocketOK, ReceiverOK
<1> QED
  BY <1>1, <1>2, Zenon

\* Init has it.
LEMMA InitFaults == Init => FaultInv
<1> SUFFICES ASSUME Init PROVE FaultInv
  BY Zenon
<1>1. SocketOK(socket, faulty)
  BY Zenon DEF Init, SocketOK
<1>2. PICK silent \in SUBSET Dest :
        /\ receiver = [d \in Dest |-> [listening |-> FALSE, recv |-> << >>,
                                       held |-> << >>, messageChan |-> << >>,
                                       crash |-> FALSE, crashTimers |-> 0,
                                       silent |-> d \in silent]]
        /\ faulty = silent
  BY Zenon DEF Init
<1>3. ASSUME NEW d \in Dest PROVE ~receiver[d].crash /\ (receiver[d].silent <=> d \in silent)
  BY <1>2, Zenon
<1>4. \A d \in Dest : ReceiverOK(receiver[d], d, faulty)
  BY <1>2, <1>3, Zenon DEF ReceiverOK
<1> QED
  BY <1>1, <1>4, InitTypes, Zenon DEF FaultInv

\* FaultInv holds in every reachable state.
THEOREM FaultInvHolds == Spec => []FaultInv
  BY InitFaults, FaultInvInductive, PTL DEF Spec

\* Goroutines, socket, transports and channels have their types and no channel is
\* overfull, however many goroutines send to however many nodes, whatever the
\* capacities are (transport.go:55-70, node.go:80-100).
THEOREM TypeCorrect == Spec => []TypeOK
<1>1. FaultInv => TypeOK
  BY Zenon DEF FaultInv, TypeInv
<1> QED
  BY <1>1, FaultInvHolds, PTL

\* Once the timers have fired nothing is left of a fault, for any number of faults
\* and of nodes (socket.go:188-215).
THEOREM FaultsHaveAnEnd == Spec => []FaultsEnd
<1>1. FaultInv => FaultsEnd
  BY Zenon DEF FaultInv, SocketOK, ReceiverOK, FaultsEnd
<1> QED
  BY <1>1, FaultInvHolds, PTL

-----------------------------------------------------------------------------
(* The refinement of Channel *)

Pairs == Dest \X Message

\* Where a message on its way to a node can be.
Todo ==
    {x \in Pairs : \E g \in Goroutine : x[1] \in sender[g].todo /\ x[2] = Current(g)}
Delayed ==
    {x \in Pairs : \E y \in delayed : x[1] = transports[y[1]].to /\ x[2] = y[2]}
Sent ==
    {x \in Pairs : \E t \in DOMAIN transports :
        x[1] = transports[t].to /\ x[2] \in Elements(transports[t].send)}
Arrived == {x \in Pairs : x[2] \in Elements(receiver[x[1]].recv)}
Held == {x \in Pairs : x[2] \in Elements(receiver[x[1]].held)}
Waiting == {x \in Pairs : x[2] \in Elements(receiver[x[1]].messageChan)}
Ended == {x \in Pairs : x[2] \in Elements(handled[x[1]])}

Flying == Todo \union Delayed \union Sent \union Arrived \union Held \union Waiting

\* A message is in one place.
Apart ==
    /\ Todo \intersect (Delayed \union Sent \union Arrived \union Held \union Waiting
                            \union Ended) = {}
    /\ Delayed \intersect (Sent \union Arrived \union Held \union Waiting \union Ended) = {}
    /\ Sent \intersect (Arrived \union Held \union Waiting \union Ended) = {}
    /\ Arrived \intersect (Held \union Waiting \union Ended) = {}
    /\ Held \intersect (Waiting \union Ended) = {}
    /\ Waiting \intersect Ended = {}

NoRepeat(s) == \A i, j \in DOMAIN s : s[i] = s[j] => i = j

\* A message is in its place once.
DelayedOnce ==
    \A x, y \in delayed :
        transports[x[1]].to = transports[y[1]].to /\ x[2] = y[2] => x = y
SentOnce ==
    /\ \A t \in DOMAIN transports : NoRepeat(transports[t].send)
    /\ \A t, u \in DOMAIN transports :
        t # u /\ transports[t].to = transports[u].to =>
            Elements(transports[t].send) \intersect Elements(transports[u].send) = {}
ReceivedOnce ==
    \A d \in Dest : NoRepeat(receiver[d].recv) /\ NoRepeat(receiver[d].messageChan)
Single == DelayedOnce /\ SentOnce /\ ReceivedOnce

\* A message that is known was sent: what a goroutine sends next is new.
Known ==
    \A x \in Flying \union Ended : x[2][2] <= sender[x[2][1]].calls

Inv == FaultInv /\ Apart /\ Single /\ Known

-----------------------------------------------------------------------------
(* Sequences *)

\* What Append adds to a channel.
LEMMA ElementsAppend ==
    ASSUME NEW S, NEW s \in Seq(S), NEW m \in S
    PROVE  /\ Elements(Append(s, m)) = Elements(s) \union {m}
           /\ NoRepeat(s) /\ m \notin Elements(s) => NoRepeat(Append(s, m))
<1> DEFINE a == Append(s, m)
<1>1. /\ Len(s) \in Nat /\ DOMAIN s = 1..Len(s) /\ DOMAIN a = 1..(Len(s) + 1)
      /\ \A i \in 1..Len(s) : a[i] = s[i]
      /\ a[Len(s) + 1] = m
  OBVIOUS
<1> HIDE DEF a
<1>2. \A i \in DOMAIN a : i \in DOMAIN s \/ i = Len(s) + 1
  BY <1>1
<1>3. Elements(a) = Elements(s) \union {m}
  BY <1>1, <1>2 DEF Elements
<1>4. ASSUME NoRepeat(s), m \notin Elements(s), NEW i \in DOMAIN a, NEW j \in DOMAIN a,
             a[i] = a[j]
      PROVE  i = j
  BY <1>1, <1>2, <1>4, Zenon DEF Elements, NoRepeat
<1> QED
  BY <1>3, <1>4, Zenon DEF a, NoRepeat

\* What Tail takes from a channel.
LEMMA ElementsTail ==
    ASSUME NEW S, NEW s \in Seq(S), s # << >>, NoRepeat(s)
    PROVE  /\ Head(s) \in Elements(s) /\ Head(s) \in S
           /\ Elements(Tail(s)) = Elements(s) \ {Head(s)}
           /\ NoRepeat(Tail(s))
<1> DEFINE a == Tail(s)
<1>1. /\ Len(s) \in Nat /\ Len(s) >= 1 /\ DOMAIN s = 1..Len(s) /\ Len(a) = Len(s) - 1
      /\ DOMAIN a = 1..(Len(s) - 1)
      /\ \A i \in 1..(Len(s) - 1) : a[i] = s[i + 1]
      /\ Head(s) = s[1] /\ Head(s) \in S
  OBVIOUS
<1> HIDE DEF a
<1>2. 1 \in DOMAIN s
  BY <1>1
<1>3. \A i \in DOMAIN a : i + 1 \in DOMAIN s /\ i + 1 # 1 /\ a[i] = s[i + 1]
  BY <1>1
<1>4. \A i \in DOMAIN s : i # 1 => i - 1 \in DOMAIN a /\ a[i - 1] = s[i]
  BY <1>1
<1>5. Elements(a) \subseteq Elements(s) \ {Head(s)}
  BY <1>1, <1>2, <1>3 DEF Elements, NoRepeat
<1>6. Elements(s) \ {Head(s)} \subseteq Elements(a)
  BY <1>1, <1>4 DEF Elements
<1>7. NoRepeat(a)
  <2> SUFFICES ASSUME NEW i \in DOMAIN a, NEW j \in DOMAIN a, a[i] = a[j] PROVE i = j
    BY Zenon DEF NoRepeat
  <2>1. i + 1 = j + 1
    BY <1>3, Zenon DEF NoRepeat
  <2> QED
    BY <1>1, <2>1
<1> QED
  BY <1>1, <1>2, <1>5, <1>6, <1>7, Zenon DEF a, Elements

\* The elements of a short sequence.
LEMMA ElementsShort ==
    /\ Elements(<< >>) = {}
    /\ \A m : Elements(<<m>>) = {m}
    /\ NoRepeat(<< >>)
  BY DEF Elements, NoRepeat

\* The elements of a channel have the type of its messages.
LEMMA ElementsType ==
    ASSUME NEW S, NEW s \in Seq(S)
    PROVE  Elements(s) \subseteq S
<1>1. \A i \in DOMAIN s : s[i] \in S
  OBVIOUS
<1> QED
  BY <1>1, Zenon DEF Elements

-----------------------------------------------------------------------------
(* The places *)

\* Flying and Ended are what Network says is in flight and handled.
LEMMA PlacesOfInFlight == TypeInv => InFlight = Flying /\ Handled = Ended
<1> SUFFICES ASSUME TypeInv PROVE InFlight = Flying /\ Handled = Ended
  BY Zenon
<1>1. UNION {sender[g].todo \X {Current(g)} : g \in Goroutine} = Todo
  <2>1. \A g \in Goroutine : \A d \in sender[g].todo : d \in Dest /\ Current(g) \in Message
    BY SenderType, Zenon
  <2>2. UNION {sender[g].todo \X {Current(g)} : g \in Goroutine} \subseteq Todo
    BY <2>1 DEF Todo, Pairs
  <2>3. ASSUME NEW x \in Todo
        PROVE  x \in UNION {sender[g].todo \X {Current(g)} : g \in Goroutine}
    <3>1. PICK g \in Goroutine : x[1] \in sender[g].todo /\ x[2] = Current(g)
      BY Zenon DEF Todo
    <3>2. x \in sender[g].todo \X {Current(g)}
      BY <3>1, Zenon DEF Todo, Pairs
    <3> QED
      BY <3>2, Zenon
  <2> QED
    BY <2>2, <2>3, Zenon
<1>2. {<<transports[x[1]].to, x[2]>> : x \in delayed} = Delayed
  <2>1. \A y \in delayed : transports[y[1]].to \in Dest /\ y[2] \in Message
    BY TransportType, Zenon DEF TypeInv, TypeOK
  <2>2. {<<transports[x[1]].to, x[2]>> : x \in delayed} \subseteq Delayed
    BY <2>1 DEF Delayed, Pairs
  <2>3. ASSUME NEW x \in Delayed
        PROVE  x \in {<<transports[y[1]].to, y[2]>> : y \in delayed}
    BY DEF Delayed, Pairs
  <2> QED
    BY <2>2, <2>3, Zenon
<1>3. UNION {{transports[t].to} \X Elements(transports[t].send) : t \in DOMAIN transports} = Sent
  <2>1. \A t \in DOMAIN transports :
          transports[t].to \in Dest /\ Elements(transports[t].send) \subseteq Message
    BY TransportType, ElementsType, Zenon
  <2>2. UNION {{transports[t].to} \X Elements(transports[t].send) : t \in DOMAIN transports}
            \subseteq Sent
    BY <2>1 DEF Sent, Pairs
  <2>3. ASSUME NEW x \in Sent
        PROVE  x \in UNION {{transports[t].to} \X Elements(transports[t].send) :
                              t \in DOMAIN transports}
    <3>1. PICK t \in DOMAIN transports :
            x[1] = transports[t].to /\ x[2] \in Elements(transports[t].send)
      BY Zenon DEF Sent
    <3>2. x \in {transports[t].to} \X Elements(transports[t].send)
      BY <3>1, Zenon DEF Sent, Pairs
    <3> QED
      BY <3>2, Zenon
  <2> QED
    BY <2>2, <2>3, Zenon
<1>4. UNION {{d} \X (Elements(receiver[d].recv) \union Elements(receiver[d].held)
                        \union Elements(receiver[d].messageChan)) : d \in Dest}
        = Arrived \union Held \union Waiting
  <2> DEFINE E(d) == Elements(receiver[d].recv) \union Elements(receiver[d].held)
                        \union Elements(receiver[d].messageChan)
  <2>1. \A d \in Dest : E(d) \subseteq Message
    BY ReceiverType, ElementsType, Zenon
  <2>2. \A x \in Pairs : x \in Arrived \union Held \union Waiting <=> x[2] \in E(x[1])
    BY Zenon DEF Arrived, Held, Waiting
  <2>3. Arrived \union Held \union Waiting \subseteq Pairs
    BY Zenon DEF Arrived, Held, Waiting
  <2> HIDE DEF E
  <2>4. UNION {{d} \X E(d) : d \in Dest} \subseteq Arrived \union Held \union Waiting
    BY <2>1, <2>2 DEF Pairs
  <2>5. ASSUME NEW x \in Arrived \union Held \union Waiting
        PROVE  x \in UNION {{d} \X E(d) : d \in Dest}
    <3>1. x \in Pairs /\ x[2] \in E(x[1])
      BY <2>2, <2>3, Zenon
    <3>2. x[1] \in Dest /\ x \in {x[1]} \X E(x[1])
      BY <3>1, Zenon DEF Pairs
    <3> QED
      BY <3>2, Zenon
  <2>6. UNION {{d} \X E(d) : d \in Dest} = Arrived \union Held \union Waiting
    BY <2>4, <2>5, Zenon
  <2> QED
    BY <2>6, Zenon DEF E
<1>5. Handled = Ended
  <2>1. \A d \in Dest : Elements(handled[d]) \subseteq Message
    BY ElementsType, Zenon DEF TypeInv, TypeOK
  <2>2. Handled \subseteq Ended
    BY <2>1 DEF Handled, Ended, Pairs
  <2>3. ASSUME NEW x \in Ended PROVE x \in Handled
    <3>1. x[1] \in Dest /\ x \in {x[1]} \X Elements(handled[x[1]])
      BY Zenon DEF Ended, Pairs
    <3> QED
      BY <3>1, Zenon DEF Handled
  <2> QED
    BY <2>2, <2>3, Zenon
<1> QED
  BY <1>1, <1>2, <1>3, <1>4, <1>5, Zenon DEF InFlight, Flying

\* The places that a step leaves alone, and those that hold a message less.
LEMMA SameTodo ==
    ASSUME \A g \in Goroutine : sender'[g].todo = sender[g].todo
                                    /\ sender'[g].calls = sender[g].calls
    PROVE  Todo' = Todo
<1>1. Pairs' = Pairs
  BY Zenon DEF Pairs, Message
<1> QED
  BY <1>1, Zenon DEF Todo, Current

\* A goroutine is done with one destination.
LEMMA LessTodo ==
    ASSUME TypeInv, NEW g \in Goroutine, NEW d \in sender[g].todo,
           sender' = [sender EXCEPT ![g] = Done(g, d)]
    PROVE  /\ Todo' = Todo \ {<<d, Current(g)>>}
           /\ <<d, Current(g)>> \in Todo /\ d \in Dest /\ Current(g) \in Message
           /\ \A h \in Goroutine : sender'[h].calls = sender[h].calls
<1>1. d \in Dest /\ Current(g) \in Message /\ sender \in [Goroutine -> Goroutines]
  BY SenderType, Zenon DEF TypeInv, TypeOK
<1>2. \A h \in Goroutine :
        /\ sender'[h].calls = sender[h].calls
        /\ sender'[h].todo = IF h = g THEN sender[g].todo \ {d} ELSE sender[h].todo
  <2>1. sender'[g] = Done(g, d) /\ \A h \in Goroutine \ {g} : sender'[h] = sender[h]
    BY <1>1, Zenon
  <2>2. Done(g, d).calls = sender[g].calls /\ Done(g, d).todo = sender[g].todo \ {d}
    BY <1>1, DoneTypes, Zenon
  <2> TAKE h \in Goroutine
  <2>3. CASE h = g
    BY <2>1, <2>2, <2>3, Zenon
  <2>4. CASE h # g
    BY <2>1, <2>4
  <2> QED
    BY <2>3, <2>4, Zenon
<1>3. Pairs' = Pairs /\ <<d, Current(g)>> \in Pairs
  BY <1>1, Zenon DEF Pairs, Message
<1>4. \A h \in Goroutine : Current(h)' = Current(h) /\ (Current(h) = Current(g) => h = g)
  BY <1>2, Zenon DEF Current
<1>5. \A x \in Pairs : x = <<d, Current(g)>> <=> x[1] = d /\ x[2] = Current(g)
  BY DEF Pairs
<1>6. ASSUME NEW x \in Pairs
      PROVE  x \in Todo' <=> x \in Todo /\ x # <<d, Current(g)>>
  <2>1. x \in Todo' <=> \E h \in Goroutine : x[1] \in sender'[h].todo /\ x[2] = Current(h)
    BY <1>3, <1>4, Zenon DEF Todo
  <2>2. x \in Todo <=> \E h \in Goroutine : x[1] \in sender[h].todo /\ x[2] = Current(h)
    BY Zenon DEF Todo
  <2> QED
    BY <1>2, <1>4, <1>5, <2>1, <2>2
<1>7. <<d, Current(g)>> \in Todo
  BY <1>3, Zenon DEF Todo
<1> QED
  BY <1>1, <1>2, <1>3, <1>6, <1>7, Zenon DEF Todo

\* The same goroutines wait, and the transports lead where they did.
LEMMA SameDelayed ==
    ASSUME TypeInv, delayed' = delayed,
           \A t \in DOMAIN transports : transports'[t].to = transports[t].to
    PROVE  /\ Delayed' = Delayed
           /\ DelayedOnce => DelayedOnce'
<1>1. Pairs' = Pairs
  BY Zenon DEF Pairs, Message
<1>2. \A y \in delayed : y[1] \in DOMAIN transports
  BY Zenon DEF TypeInv, TypeOK
<1> QED
  BY <1>1, <1>2 DEF Delayed, DelayedOnce

\* The same messages are in the channels of the transports; there may be new ones.
LEMMA SameSent ==
    ASSUME DOMAIN transports \subseteq DOMAIN transports',
           \A t \in DOMAIN transports : transports'[t] = transports[t],
           \A t \in DOMAIN transports' \ DOMAIN transports : transports'[t].send = << >>
    PROVE  /\ Sent' = Sent
           /\ SentOnce => SentOnce'
<1>1. Pairs' = Pairs
  BY Zenon DEF Pairs, Message
<1>2. \A t \in DOMAIN transports' \ DOMAIN transports :
        Elements(transports'[t].send) = {} /\ NoRepeat(transports'[t].send)
  BY ElementsShort, Zenon
<1>3. Sent' = Sent
  BY <1>1, <1>2, Zenon DEF Sent
<1>4. ASSUME SentOnce PROVE SentOnce'
  <2>1. \A t \in DOMAIN transports' : NoRepeat(transports'[t].send)
    BY <1>2, <1>4, Zenon DEF SentOnce
  <2>2. \A t, u \in DOMAIN transports' :
          t # u /\ transports'[t].to = transports'[u].to =>
            Elements(transports'[t].send) \intersect Elements(transports'[u].send) = {}
    BY <1>2, <1>4, Zenon DEF SentOnce
  <2> QED
    BY <2>1, <2>2, Zenon DEF SentOnce
<1> QED
  BY <1>3, <1>4, Zenon

\* The same messages are in the channels of the other nodes.
LEMMA SameReceived ==
    ASSUME \A d \in Dest : /\ receiver'[d].recv = receiver[d].recv
                           /\ receiver'[d].held = receiver[d].held
                           /\ receiver'[d].messageChan = receiver[d].messageChan
    PROVE  /\ Arrived' = Arrived /\ Held' = Held /\ Waiting' = Waiting
           /\ ReceivedOnce => ReceivedOnce'
<1>1. Pairs' = Pairs /\ \A x \in Pairs : x[1] \in Dest
  BY Zenon DEF Pairs, Message
<1> QED
  BY <1>1, Zenon DEF Arrived, Held, Waiting, ReceivedOnce

\* The same messages have been handled.
LEMMA SameEnded ==
    ASSUME handled' = handled
    PROVE  Ended' = Ended
<1>1. Pairs' = Pairs
  BY Zenon DEF Pairs, Message
<1> QED
  BY <1>1, Zenon DEF Ended

\* A message is put into the channel of transport t.
LEMMA MoreSent ==
    ASSUME TypeInv, SentOnce, NEW t \in DOMAIN transports, NEW m \in Message,
           HasRoom(t), Enqueue(t, m), <<transports[t].to, m>> \notin Sent
    PROVE  /\ Sent' = Sent \union {<<transports[t].to, m>>}
           /\ SentOnce'
           /\ \A u \in DOMAIN transports : transports'[u].to = transports[u].to
<1> DEFINE d == transports[t].to
<1>1. /\ DOMAIN transports' = DOMAIN transports
      /\ \A u \in DOMAIN transports :
            /\ transports'[u].to = transports[u].to
            /\ transports'[u].send = IF u = t THEN Append(transports[t].send, m)
                                              ELSE transports[u].send
  BY EnqueueTypes, Zenon
<1>2. transports[t].send \in Seq(Message) /\ d \in Dest
  BY TransportType, Zenon
<1>3. Pairs' = Pairs /\ <<d, m>> \in Pairs
  BY <1>2, Zenon DEF Pairs, Message
<1>4. \A u \in DOMAIN transports : transports[u].to = d => m \notin Elements(transports[u].send)
  BY <1>3, Zenon DEF Sent
<1>5. /\ Elements(transports'[t].send) = Elements(transports[t].send) \union {m}
      /\ NoRepeat(transports'[t].send)
  BY <1>1, <1>2, <1>4, ElementsAppend DEF SentOnce
<1>6. \A u \in DOMAIN transports :
        u # t => Elements(transports'[u].send) = Elements(transports[u].send)
                    /\ NoRepeat(transports'[u].send)
  BY <1>1, Zenon DEF SentOnce
<1>7. \A x \in Pairs : x = <<d, m>> <=> x[1] = d /\ x[2] = m
  BY DEF Pairs
<1>8. ASSUME NEW x \in Pairs
      PROVE  x \in Sent' <=> x \in Sent \/ x = <<d, m>>
  <2>1. x \in Sent' <=> \E u \in DOMAIN transports :
                          x[1] = transports[u].to /\ x[2] \in Elements(transports'[u].send)
    BY <1>1, <1>3, Zenon DEF Sent
  <2>2. x \in Sent <=> \E u \in DOMAIN transports :
                          x[1] = transports[u].to /\ x[2] \in Elements(transports[u].send)
    BY Zenon DEF Sent
  <2> QED
    BY <1>5, <1>6, <1>7, <2>1, <2>2, Zenon
<1>9. Sent' = Sent \union {<<d, m>>}
  BY <1>3, <1>8, Zenon DEF Sent
<1>10. \A u, v \in DOMAIN transports' :
         u # v /\ transports'[u].to = transports'[v].to =>
            Elements(transports'[u].send) \intersect Elements(transports'[v].send) = {}
  BY <1>1, <1>4, <1>5, <1>6 DEF SentOnce
<1> QED
  BY <1>1, <1>5, <1>6, <1>9, <1>10, Zenon DEF SentOnce

\* The first message in the channel of transport t arrives at its destination.
LEMMA LessSent ==
    ASSUME TypeInv, SentOnce, ReceivedOnce, NEW t \in DOMAIN transports, Carry(t),
           Sent \intersect Arrived = {}
    PROVE  \E x \in Sent :
             /\ Sent' = Sent \ {x} /\ Arrived' = Arrived \union {x}
             /\ Held' = Held /\ Waiting' = Waiting
             /\ SentOnce' /\ ReceivedOnce'
<1> DEFINE d == transports[t].to
           m == Head(transports[t].send)
<1>1. /\ DOMAIN transports' = DOMAIN transports
      /\ \A u \in DOMAIN transports :
            /\ transports'[u].to = transports[u].to
            /\ transports'[u].send = IF u = t THEN Tail(transports[t].send)
                                              ELSE transports[u].send
      /\ \A e \in Dest :
            /\ receiver'[e].recv = IF e = d THEN Append(receiver[e].recv, m)
                                            ELSE receiver[e].recv
            /\ receiver'[e].held = receiver[e].held
            /\ receiver'[e].messageChan = receiver[e].messageChan
  BY CarryTypes
<1>2. transports[t].send \in Seq(Message) /\ d \in Dest /\ transports[t].send # << >>
        /\ receiver[d].recv \in Seq(Message)
  BY TransportType, ReceiverType, Zenon DEF Carry
<1>3. /\ m \in Elements(transports[t].send) /\ m \in Message
      /\ Elements(transports'[t].send) = Elements(transports[t].send) \ {m}
      /\ NoRepeat(transports'[t].send)
  BY <1>1, <1>2, ElementsTail DEF SentOnce
<1>4. Pairs' = Pairs /\ <<d, m>> \in Pairs /\ \A x \in Pairs : x[1] \in Dest
  BY <1>2, <1>3, Zenon DEF Pairs, Message
<1> HIDE DEF m
<1>5. <<d, m>> \in Sent /\ m \notin Elements(receiver[d].recv)
  <2>1. <<d, m>> \in Sent
    BY <1>3, <1>4, Zenon DEF Sent
  <2> QED
    BY <1>4, <2>1 DEF Arrived
<1>6. \A x \in Pairs : x = <<d, m>> <=> x[1] = d /\ x[2] = m
  BY DEF Pairs
<1>7. \A u \in DOMAIN transports :
        u # t => /\ Elements(transports'[u].send) = Elements(transports[u].send)
                 /\ NoRepeat(transports'[u].send)
                 /\ transports[u].to = d => m \notin Elements(transports[u].send)
  BY <1>1, <1>3, Zenon DEF SentOnce
<1>8. Sent' = Sent \ {<<d, m>>}
  <2>1. ASSUME NEW x \in Pairs
        PROVE  x \in Sent' <=> x \in Sent /\ x # <<d, m>>
    <3>1. x \in Sent' <=> \E u \in DOMAIN transports :
                            x[1] = transports[u].to /\ x[2] \in Elements(transports'[u].send)
      BY <1>1, <1>4, Zenon DEF Sent
    <3>2. x \in Sent <=> \E u \in DOMAIN transports :
                            x[1] = transports[u].to /\ x[2] \in Elements(transports[u].send)
      BY Zenon DEF Sent
    <3> QED
      BY <1>3, <1>6, <1>7, <3>1, <3>2, Zenon
  <2> QED
    BY <1>4, <2>1, Zenon DEF Sent
<1>9. SentOnce'
  <2>1. \A u, v \in DOMAIN transports' :
          u # v /\ transports'[u].to = transports'[v].to =>
             Elements(transports'[u].send) \intersect Elements(transports'[v].send) = {}
    BY <1>1, <1>3, <1>7 DEF SentOnce
  <2> QED
    BY <1>1, <1>3, <1>7, <2>1, Zenon DEF SentOnce
<1>10. /\ Elements(receiver'[d].recv) = Elements(receiver[d].recv) \union {m}
       /\ NoRepeat(receiver'[d].recv)
  BY <1>1, <1>2, <1>3, <1>5, ElementsAppend DEF ReceivedOnce
<1>11. Arrived' = Arrived \union {<<d, m>>}
  <2>1. \A x \in Pairs : x \in Arrived' <=> x \in Arrived \/ x = <<d, m>>
    BY <1>1, <1>4, <1>6, <1>10 DEF Arrived
  <2> QED
    BY <1>4, <2>1, Zenon DEF Arrived
<1>12. Held' = Held /\ Waiting' = Waiting
  BY <1>1, <1>4, Zenon DEF Held, Waiting
<1>13. ReceivedOnce'
  BY <1>1, <1>10, Zenon DEF ReceivedOnce
<1> QED
  BY <1>5, <1>8, <1>9, <1>11, <1>12, <1>13, Zenon

\* The first message in the channel of the transport of d is taken out of it.
LEMMA LessArrived ==
    ASSUME TypeInv, ReceivedOnce, NEW d \in Dest, Receive(d)
    PROVE  \E x \in Arrived :
             /\ x[1] = d
             /\ Arrived' = Arrived \ {x}
             /\ Held' = IF receiver[d].crash \/ receiver[d].silent THEN Held
                                                                   ELSE Held \union {x}
             /\ Waiting' = Waiting /\ ReceivedOnce'
<1> DEFINE m == Head(receiver[d].recv)
<1>1. /\ receiver[d].recv # << >> /\ receiver[d].held = << >>
      /\ receiver'[d].recv = Tail(receiver[d].recv)
      /\ receiver'[d].held = IF receiver[d].crash \/ receiver[d].silent THEN << >> ELSE <<m>>
      /\ receiver'[d].messageChan = receiver[d].messageChan
      /\ \A e \in Dest \ {d} : receiver'[e] = receiver[e]
  BY ReceiveTypes, Zenon
<1>2. /\ m \in Elements(receiver[d].recv) /\ m \in Message
      /\ Elements(receiver'[d].recv) = Elements(receiver[d].recv) \ {m}
      /\ NoRepeat(receiver'[d].recv)
  BY <1>1, ReceiverType, ElementsTail DEF ReceivedOnce
<1> HIDE DEF m
<1>3. Pairs' = Pairs /\ <<d, m>> \in Pairs /\ \A x \in Pairs : x[1] \in Dest
  BY <1>2, Zenon DEF Pairs, Message
<1>4. \A x \in Pairs : x = <<d, m>> <=> x[1] = d /\ x[2] = m
  BY DEF Pairs
<1>5. <<d, m>> \in Arrived
  BY <1>2, <1>3, Zenon DEF Arrived
<1>6. Arrived' = Arrived \ {<<d, m>>}
  <2>1. \A x \in Pairs : x \in Arrived' <=> x \in Arrived /\ x # <<d, m>>
    BY <1>1, <1>2, <1>3, <1>4, Zenon DEF Arrived
  <2> QED
    BY <1>3, <2>1, Zenon DEF Arrived
<1>7. Held' = IF receiver[d].crash \/ receiver[d].silent THEN Held ELSE Held \union {<<d, m>>}
  <2>1. /\ Elements(receiver[d].held) = {}
        /\ Elements(receiver'[d].held)
             = IF receiver[d].crash \/ receiver[d].silent THEN {} ELSE {m}
    BY <1>1, ElementsShort, Zenon
  <2>2. \A x \in Pairs :
          x \in Held' <=> x \in Held \/ (~(receiver[d].crash \/ receiver[d].silent) /\ x = <<d, m>>)
    BY <1>1, <1>3, <1>4, <2>1, Zenon DEF Held
  <2> QED
    BY <1>3, <2>2, Zenon DEF Held
<1>8. Waiting' = Waiting /\ ReceivedOnce'
  BY <1>1, <1>2, <1>3, Zenon DEF Waiting, ReceivedOnce
<1> QED
  BY <1>5, <1>6, <1>7, <1>8, Zenon

\* The message that node.recv holds is put into MessageChan.
LEMMA LessHeld ==
    ASSUME TypeInv, ReceivedOnce, NEW d \in Dest, PassOn(d), Held \intersect Waiting = {}
    PROVE  \E x \in Held :
             /\ Held' = Held \ {x} /\ Waiting' = Waiting \union {x}
             /\ Arrived' = Arrived /\ ReceivedOnce'
<1> DEFINE m == receiver[d].held[1]
<1>1. /\ Len(receiver[d].held) = 1
      /\ receiver'[d].recv = receiver[d].recv
      /\ receiver'[d].held = << >>
      /\ receiver'[d].messageChan = Append(receiver[d].messageChan, m)
      /\ \A e \in Dest \ {d} : receiver'[e] = receiver[e]
  BY PassOnTypes, Zenon
<1>2. receiver[d].held \in Seq(Message) /\ receiver[d].messageChan \in Seq(Message)
  BY ReceiverType, Zenon
<1>3. Elements(receiver[d].held) = {m} /\ m \in Message /\ Elements(receiver'[d].held) = {}
  <2>1. DOMAIN receiver[d].held = {1}
    BY <1>1, <1>2
  <2>2. Elements(receiver[d].held) = {m}
    BY <2>1, Zenon DEF Elements
  <2> QED
    BY <1>1, <1>2, <2>2, ElementsShort, ElementsType, Zenon
<1> HIDE DEF m
<1>4. Pairs' = Pairs /\ <<d, m>> \in Pairs /\ \A x \in Pairs : x[1] \in Dest
  BY <1>3, Zenon DEF Pairs, Message
<1>5. \A x \in Pairs : x = <<d, m>> <=> x[1] = d /\ x[2] = m
  BY DEF Pairs
<1>6. <<d, m>> \in Held /\ m \notin Elements(receiver[d].messageChan)
  <2>1. <<d, m>> \in Held
    BY <1>3, <1>4, Zenon DEF Held
  <2> QED
    BY <1>4, <2>1 DEF Waiting
<1>7. /\ Elements(receiver'[d].messageChan) = Elements(receiver[d].messageChan) \union {m}
      /\ NoRepeat(receiver'[d].messageChan)
  BY <1>1, <1>2, <1>3, <1>6, ElementsAppend DEF ReceivedOnce
<1>8. Held' = Held \ {<<d, m>>}
  <2>1. \A x \in Pairs : x \in Held' <=> x \in Held /\ x # <<d, m>>
    BY <1>1, <1>3, <1>4, <1>5, Zenon DEF Held
  <2> QED
    BY <1>4, <2>1, Zenon DEF Held
<1>9. Waiting' = Waiting \union {<<d, m>>}
  <2>1. \A x \in Pairs : x \in Waiting' <=> x \in Waiting \/ x = <<d, m>>
    BY <1>1, <1>4, <1>5, <1>7, Zenon DEF Waiting
  <2> QED
    BY <1>4, <2>1, Zenon DEF Waiting
<1>10. Arrived' = Arrived /\ ReceivedOnce'
  BY <1>1, <1>4, <1>7, Zenon DEF Arrived, ReceivedOnce
<1> QED
  BY <1>6, <1>8, <1>9, <1>10, Zenon

\* The first message in MessageChan is handled.
LEMMA LessWaiting ==
    ASSUME TypeInv, ReceivedOnce, NEW d \in Dest, Handle(d)
    PROVE  \E x \in Waiting :
             /\ Waiting' = Waiting \ {x} /\ Ended' = Ended \union {x}
             /\ Arrived' = Arrived /\ Held' = Held /\ ReceivedOnce'
<1> DEFINE m == Head(receiver[d].messageChan)
<1>1. /\ receiver[d].messageChan # << >>
      /\ receiver'[d].recv = receiver[d].recv
      /\ receiver'[d].held = receiver[d].held
      /\ receiver'[d].messageChan = Tail(receiver[d].messageChan)
      /\ \A e \in Dest \ {d} : receiver'[e] = receiver[e]
  BY HandleTypes, Zenon
<1>2. /\ m \in Elements(receiver[d].messageChan) /\ m \in Message
      /\ Elements(receiver'[d].messageChan) = Elements(receiver[d].messageChan) \ {m}
      /\ NoRepeat(receiver'[d].messageChan)
  BY <1>1, ReceiverType, ElementsTail DEF ReceivedOnce
<1>3. handled' = [handled EXCEPT ![d] = Append(@, m)] /\ handled \in [Dest -> Seq(Message)]
  BY Zenon DEF Handle, TypeInv, TypeOK
<1> HIDE DEF m
<1>4. Pairs' = Pairs /\ <<d, m>> \in Pairs /\ \A x \in Pairs : x[1] \in Dest
  BY <1>2, Zenon DEF Pairs, Message
<1>5. \A x \in Pairs : x = <<d, m>> <=> x[1] = d /\ x[2] = m
  BY DEF Pairs
<1>6. /\ Elements(handled'[d]) = Elements(handled[d]) \union {m}
      /\ \A e \in Dest : e # d => handled'[e] = handled[e]
  BY <1>2, <1>3, ElementsAppend
<1>7. <<d, m>> \in Waiting
  BY <1>2, <1>4, Zenon DEF Waiting
<1>8. Waiting' = Waiting \ {<<d, m>>}
  <2>1. \A x \in Pairs : x \in Waiting' <=> x \in Waiting /\ x # <<d, m>>
    BY <1>1, <1>2, <1>4, <1>5, Zenon DEF Waiting
  <2> QED
    BY <1>4, <2>1, Zenon DEF Waiting
<1>9. Ended' = Ended \union {<<d, m>>}
  <2>1. \A x \in Pairs : x \in Ended' <=> x \in Ended \/ x = <<d, m>>
    BY <1>4, <1>5, <1>6 DEF Ended
  <2> QED
    BY <1>4, <2>1, Zenon DEF Ended
<1>10. Arrived' = Arrived /\ Held' = Held /\ ReceivedOnce'
  BY <1>1, <1>2, <1>4, Zenon DEF Arrived, Held, ReceivedOnce
<1> QED
  BY <1>7, <1>8, <1>9, <1>10, Zenon

\* A message on its way or handled was sent by a goroutine.
LEMMA SentByGoroutine ==
    \A x \in Flying \union Ended : x[2][1] \in Goroutine /\ x[2][2] \in Nat
<1>1. \A x \in Flying \union Ended : x[2] \in Message
  BY Zenon DEF Flying, Ended, Todo, Delayed, Sent, Arrived, Held, Waiting, Pairs
<1>2. ASSUME NEW m \in Message PROVE m[1] \in Goroutine /\ m[2] \in Nat
  <2>1. PICK g \in Goroutine : m \in {g} \X (1..Sends[g])
    BY Zenon DEF Message
  <2>2. Sends[g] \in Nat
    BY NetworkAssumption, Zenon DEF NetworkAssumption
  <2> QED
    BY <2>1, <2>2
<1> QED
  BY <1>1, <1>2, Zenon

-----------------------------------------------------------------------------
(* The steps *)

\* A step keeps the invariant and is a step of the channel, or none.
StepOK == Inv' /\ (AsChannel!Next \/ UNCHANGED AsChannel!chan)

\* A step that sends and handles nothing: messages are moved, or lost to a fault.
LEMMA MovesOrLoses ==
    ASSUME Inv, FaultInv', Apart', Single', Flying' \subseteq Flying, Ended' = Ended,
           faulty \subseteq faulty', \A x \in Flying \ Flying' : x[1] \in faulty',
           \A g \in Goroutine : sender'[g].calls = sender[g].calls
    PROVE  StepOK
<1>1. Known'
  BY SentByGoroutine DEF Inv, Known
<1>2. InFlight = Flying /\ Handled = Ended /\ InFlight' = Flying' /\ Handled' = Ended'
  <2>1. TypeInv /\ TypeInv'
    BY Zenon DEF Inv, FaultInv
  <2>2. TypeInv' => (InFlight = Flying /\ Handled = Ended)'
    BY PlacesOfInFlight, PTL
  <2> QED
    BY <2>1, <2>2, PlacesOfInFlight, Zenon
<1>3. AsChannel!Fault
  BY <1>2, Zenon DEF AsChannel!Fault
<1> QED
  BY <1>1, <1>3, Zenon DEF StepOK, Inv, AsChannel!Next

\* A step that moves no message.
LEMMA NothingMoves ==
    ASSUME Inv, FaultInv', faulty \subseteq faulty', handled' = handled, delayed' = delayed,
           \A g \in Goroutine : sender'[g].todo = sender[g].todo
                                    /\ sender'[g].calls = sender[g].calls,
           DOMAIN transports \subseteq DOMAIN transports',
           \A t \in DOMAIN transports : transports'[t] = transports[t],
           \A t \in DOMAIN transports' \ DOMAIN transports : transports'[t].send = << >>,
           \A d \in Dest : /\ receiver'[d].recv = receiver[d].recv
                           /\ receiver'[d].held = receiver[d].held
                           /\ receiver'[d].messageChan = receiver[d].messageChan
    PROVE  StepOK
<1>1. /\ Todo' = Todo /\ Delayed' = Delayed /\ Sent' = Sent /\ Arrived' = Arrived
      /\ Held' = Held /\ Waiting' = Waiting /\ Ended' = Ended
  BY SameTodo, SameDelayed, SameSent, SameReceived, SameEnded, Zenon DEF Inv, FaultInv
<1>2. Single'
  BY SameDelayed, SameSent, SameReceived, Zenon DEF Inv, FaultInv, Single
<1>3. Apart'
  BY <1>1, Zenon DEF Inv, Apart
<1>4. Flying' = Flying
  BY <1>1, Zenon DEF Flying
<1> QED
  BY <1>1, <1>2, <1>3, <1>4, MovesOrLoses, Zenon

\* A message that is not sent is lost to the crash of the node or to a flaky socket.
LEMMA SendDropsStep ==
    ASSUME Inv, FaultInv', NEW g \in Goroutine, SendDrops(g)
    PROVE  StepOK
<1>1. PICK d \in sender[g].todo : /\ socket.crash \/ socket.flaky[d]
                                  /\ sender' = [sender EXCEPT ![g] = Done(g, d)]
  BY Zenon DEF SendDrops
<1>2. UNCHANGED <<socket, transports, delayed, stopped, receiver, handled, faults, faulty, slowed>>
  BY Zenon DEF SendDrops
<1> DEFINE x == <<d, Current(g)>>
<1>3. /\ Todo' = Todo \ {x} /\ x \in Todo /\ x[1] \in Dest
      /\ \A h \in Goroutine : sender'[h].calls = sender[h].calls
  BY <1>1, LessTodo, Zenon DEF Inv, FaultInv
<1>4. x[1] \in faulty'
  <2>1. SocketOK(socket, faulty)
    BY Zenon DEF Inv, FaultInv
  <2> QED
    BY <1>1, <1>2, <1>3, <2>1, Zenon DEF SocketOK
<1> HIDE DEF x
<1>5. /\ Delayed' = Delayed /\ Sent' = Sent /\ Arrived' = Arrived
      /\ Held' = Held /\ Waiting' = Waiting /\ Ended' = Ended /\ Single'
  BY <1>2, SameDelayed, SameSent, SameReceived, SameEnded, Zenon DEF Inv, FaultInv, Single
<1>6. Apart' /\ Flying' \subseteq Flying /\ \A y \in Flying \ Flying' : y[1] \in faulty'
  BY <1>3, <1>4, <1>5, Zenon DEF Inv, Apart, Flying
<1> QED
  BY <1>2, <1>3, <1>5, <1>6, MovesOrLoses, Zenon

\* The end of Send: the message is delayed, or still to be put into the channel.
LEMMA TransmitStep ==
    ASSUME Inv, FaultInv', NEW g \in Goroutine, NEW t \in DOMAIN transports,
           transports[t].to \in sender[g].todo, Transmit(g, t, transports[t].to),
           UNCHANGED <<transports, receiver, handled, faulty>>
    PROVE  StepOK
<1> DEFINE d == transports[t].to
           x == <<d, Current(g)>>
<1>0. TypeInv
  BY Zenon DEF Inv, FaultInv
<1>1. CASE socket.slow[d]
  <2>1. /\ sender' = [sender EXCEPT ![g] = Done(g, d)]
        /\ delayed' = delayed \union {<<t, Current(g)>>}
    BY <1>1, Zenon DEF Transmit
  <2>2. /\ Todo' = Todo \ {x} /\ x \in Todo /\ x \in Pairs
        /\ \A h \in Goroutine : sender'[h].calls = sender[h].calls
    BY <1>0, <2>1, LessTodo, Zenon DEF Todo
  <2>3. Sent' = Sent /\ Arrived' = Arrived /\ Held' = Held /\ Waiting' = Waiting
          /\ Ended' = Ended /\ SentOnce' /\ ReceivedOnce'
    BY SameSent, SameReceived, SameEnded, Zenon DEF Inv, Single
  <2>4. \A y \in delayed : ~(transports[y[1]].to = d /\ y[2] = Current(g))
    BY <2>2 DEF Inv, Apart, Delayed
  <2>5. Delayed' = Delayed \union {x}
    <3>1. Pairs' = Pairs /\ \A z \in Pairs : z = x <=> z[1] = d /\ z[2] = Current(g)
      BY DEF Pairs, Message
    <3>2. \A z \in Pairs : z \in Delayed' <=> z \in Delayed \/ z = x
      <4> SUFFICES ASSUME NEW z \in Pairs PROVE z \in Delayed' <=> z \in Delayed \/ z = x
        BY Zenon
      <4>1. z \in Delayed' <=> \E y \in delayed' : z[1] = transports[y[1]].to /\ z[2] = y[2]
        BY <3>1, Zenon DEF Delayed
      <4>2. z \in Delayed <=> \E y \in delayed : z[1] = transports[y[1]].to /\ z[2] = y[2]
        BY Zenon DEF Delayed
      <4>3. z = x <=> z[1] = transports[t].to /\ z[2] = Current(g)
        BY <3>1, Zenon
      <4> DEFINE c == <<t, Current(g)>>
      <4>4. c[1] = t /\ c[2] = Current(g) /\ delayed' = delayed \union {c}
        BY <2>1, Zenon
      <4> HIDE DEF x, c
      <4> QED
        BY <4>1, <4>2, <4>3, <4>4, Zenon
    <3> QED
      BY <2>2, <3>1, <3>2, Zenon DEF Delayed
  <2>6. DelayedOnce'
    BY <2>1, <2>4 DEF Inv, Single, DelayedOnce
  <2> HIDE DEF x
  <2>7. Apart' /\ Flying' = Flying
    BY <2>2, <2>3, <2>5 DEF Inv, Apart, Flying
  <2> QED
    BY <2>2, <2>3, <2>6, <2>7, MovesOrLoses, Zenon DEF Single
<1>2. CASE ~socket.slow[d]
  <2>1. /\ sender' = [sender EXCEPT ![g].place = "send", ![g].conn = t, ![g].tries = 0]
        /\ delayed' = delayed
    BY <1>2, Zenon DEF Transmit
  <2>2. \A h \in Goroutine : /\ sender'[h].todo = sender[h].todo
                             /\ sender'[h].calls = sender[h].calls
    BY <1>0, <2>1, Zenon DEF TypeInv, TypeOK, Goroutines
  <2> QED
    BY <2>1, <2>2, NothingMoves, Zenon
<1> QED
  BY <1>1, <1>2, Zenon

\* Send finds a transport.
LEMMA SendFindsStep ==
    ASSUME Inv, FaultInv', NEW g \in Goroutine, SendFinds(g)
    PROVE  StepOK
<1>1. PICK d \in sender[g].todo : socket.nodes[d] # 0 /\ Transmit(g, socket.nodes[d], d)
  BY Zenon DEF SendFinds
<1>2. d \in Dest
  BY SenderType, Zenon DEF Inv, FaultInv
<1>3. socket.nodes[d] \in DOMAIN transports /\ transports[socket.nodes[d]].to = d
  BY <1>1, <1>2, Zenon DEF Inv, FaultInv, TypeInv, NodesLead
<1> QED
  BY <1>1, <1>3, TransmitStep, Zenon DEF SendFinds

\* Send makes a transport.
LEMMA SendMakesStep ==
    ASSUME Inv, FaultInv', NEW g \in Goroutine, SendMakes(g)
    PROVE  StepOK
<1>0. TypeInv
  BY Zenon DEF Inv, FaultInv
<1>1. PICK d \in sender[g].todo : transports' = Append(transports, [to |-> d, send |-> << >>])
  BY Zenon DEF SendMakes
<1>2. d \in Dest /\ [to |-> d, send |-> << >>] \in Transport /\ transports \in Seq(Transport)
  BY <1>0, SenderType DEF Transport, TypeInv, TypeOK
<1>3. /\ DOMAIN transports \subseteq DOMAIN transports'
      /\ \A t \in DOMAIN transports : transports'[t] = transports[t]
      /\ \A t \in DOMAIN transports' \ DOMAIN transports : transports'[t].send = << >>
  <2>1. /\ DOMAIN transports' = 1..(Len(transports) + 1)
        /\ DOMAIN transports = 1..Len(transports) /\ Len(transports) \in Nat
        /\ transports'[Len(transports) + 1] = [to |-> d, send |-> << >>]
        /\ \A t \in 1..Len(transports) : transports'[t] = transports[t]
    BY <1>1, <1>2
  <2>2. \A t \in DOMAIN transports' \ DOMAIN transports : t = Len(transports) + 1
    BY <2>1
  <2> QED
    BY <2>1, <2>2
<1>4. \A h \in Goroutine : /\ sender'[h].todo = sender[h].todo
                           /\ sender'[h].calls = sender[h].calls
  BY <1>0, Zenon DEF SendMakes, TypeInv, TypeOK, Goroutines
<1> QED
  BY <1>3, <1>4, NothingMoves, Zenon DEF SendMakes

\* Dial connects a transport.
LEMMA DialStep ==
    ASSUME Inv, FaultInv', NEW g \in Goroutine, Dial(g)
    PROVE  StepOK
<1>1. sender[g].place = "dial" /\ Transmit(g, sender[g].conn, transports[sender[g].conn].to)
  BY Zenon DEF Dial
<1>2. /\ sender[g].conn \in DOMAIN transports
      /\ transports[sender[g].conn].to \in sender[g].todo
  BY <1>1, Zenon DEF Inv, FaultInv, TypeInv, Connected
<1> QED
  BY <1>1, <1>2, TransmitStep, Zenon DEF Dial

\* The process ends, and with it what it has not put on a connection.
LEMMA StopStep ==
    ASSUME Inv, FaultInv', Stop
    PROVE  StepOK
<1>0. TypeInv
  BY Zenon DEF Inv, FaultInv
<1>1. Pairs' = Pairs
  BY Zenon DEF Pairs, Message
<1>2. \A g \in Goroutine : sender'[g].todo = {} /\ sender'[g].calls = sender[g].calls
  BY <1>0, SenderType, Zenon DEF Stop, Goroutines
<1>3. /\ DOMAIN transports' = DOMAIN transports
      /\ \A t \in DOMAIN transports : transports'[t].send = << >>
  BY <1>0, TransportType, Zenon DEF Stop, Transport
<1>4. \A t \in DOMAIN transports' : /\ Elements(transports'[t].send) = {}
                                    /\ NoRepeat(transports'[t].send)
  BY <1>3, ElementsShort, Zenon
<1>5. Todo' = {} /\ Delayed' = {} /\ Sent' = {}
  <2>1. Todo' = {}
    BY <1>2, Zenon DEF Todo
  <2>2. Delayed' = {}
    BY Zenon DEF Stop, Delayed
  <2>3. Sent' = {}
    BY <1>4, Zenon DEF Sent
  <2> QED
    BY <2>1, <2>2, <2>3, Zenon
<1>6. Arrived' = Arrived /\ Held' = Held /\ Waiting' = Waiting /\ Ended' = Ended /\ ReceivedOnce'
  BY SameReceived, SameEnded, Zenon DEF Stop, Inv, Single
<1>7. DelayedOnce' /\ SentOnce'
  BY <1>4, Zenon DEF Stop, DelayedOnce, SentOnce
<1>8. Apart' /\ Flying' \subseteq Flying
  BY <1>5, <1>6, Zenon DEF Inv, Apart, Flying
<1>9. \A x \in Flying : x[1] \in Dest
  BY Zenon DEF Flying, Todo, Delayed, Sent, Arrived, Held, Waiting, Pairs
<1>10. faulty' = Dest /\ faulty \subseteq Dest
  BY <1>0, Zenon DEF Stop, TypeInv, TypeOK
<1> QED
  BY <1>2, <1>6, <1>7, <1>8, <1>9, <1>10, MovesOrLoses, Zenon DEF Single

\* Dial fails, and the process ends after the last attempt.
LEMMA DialFailsStep ==
    ASSUME Inv, FaultInv', NEW g \in Goroutine, DialFails(g)
    PROVE  StepOK
<1>1. CASE Stop
  BY <1>1, StopStep, Zenon
<1>2. CASE /\ sender' = [sender EXCEPT ![g].tries = @ + 1]
           /\ UNCHANGED <<socket, transports, delayed, stopped, receiver, handled,
                          faults, faulty, slowed>>
  <2>1. \A h \in Goroutine : /\ sender'[h].todo = sender[h].todo
                             /\ sender'[h].calls = sender[h].calls
    BY <1>2 DEF Inv, FaultInv, TypeInv, TypeOK, Goroutines
  <2> QED
    BY <1>2, <2>1, NothingMoves, Zenon
<1> QED
  BY <1>1, <1>2, Zenon DEF DialFails

\* A message is put into the channel of its transport.
LEMMA PutStep ==
    ASSUME Inv, FaultInv', NEW g \in Goroutine, Put(g)
    PROVE  StepOK
<1> DEFINE t == sender[g].conn
           d == transports[t].to
           x == <<d, Current(g)>>
<1>0. TypeInv
  BY Zenon DEF Inv, FaultInv
<1>1. /\ sender[g].place = "send" /\ HasRoom(t) /\ Enqueue(t, Current(g))
      /\ sender' = [sender EXCEPT ![g] = Done(g, d)]
      /\ UNCHANGED <<socket, delayed, stopped, receiver, handled, faults, faulty, slowed>>
  BY Zenon DEF Put
<1>2. t \in DOMAIN transports /\ d \in sender[g].todo
  BY <1>0, <1>1, Zenon DEF TypeInv, Connected
<1>3. /\ Todo' = Todo \ {x} /\ x \in Todo /\ Current(g) \in Message
      /\ \A h \in Goroutine : sender'[h].calls = sender[h].calls
  BY <1>0, <1>1, <1>2, LessTodo, Zenon
<1>4. x \notin Sent
  BY <1>3, Zenon DEF Inv, Apart
<1>5. /\ Sent' = Sent \union {x} /\ SentOnce'
      /\ \A u \in DOMAIN transports : transports'[u].to = transports[u].to
  BY <1>0, <1>1, <1>2, <1>3, <1>4, MoreSent, Zenon DEF Inv, Single
<1> HIDE DEF x
<1>6. /\ Delayed' = Delayed /\ Arrived' = Arrived /\ Held' = Held /\ Waiting' = Waiting
      /\ Ended' = Ended /\ DelayedOnce' /\ ReceivedOnce'
  BY <1>0, <1>1, <1>5, SameDelayed, SameReceived, SameEnded, SMTT(30) DEF Inv, Single
<1>7. Apart' /\ Flying' = Flying
  <2>1. Apart'
    BY <1>3, <1>5, <1>6 DEF Inv, Apart
  <2>2. Flying' = Flying
    BY <1>3, <1>5, <1>6, Zenon DEF Flying
  <2> QED
    BY <2>1, <2>2, Zenon
<1> QED
  BY <1>1, <1>3, <1>5, <1>6, <1>7, MovesOrLoses, Zenon DEF Single

\* A delayed message is put into the channel of its transport.
LEMMA PutDelayedStep ==
    ASSUME Inv, FaultInv', PutDelayed
    PROVE  StepOK
<1>0. TypeInv
  BY Zenon DEF Inv, FaultInv
<1>1. PICK y \in delayed : HasRoom(y[1]) /\ Enqueue(y[1], y[2]) /\ delayed' = delayed \ {y}
  BY Zenon DEF PutDelayed
<1>2. y[1] \in DOMAIN transports /\ y[2] \in Message
  BY <1>0, Zenon DEF TypeInv, TypeOK
<1> DEFINE d == transports[y[1]].to
           x == <<d, y[2]>>
<1>3. d \in Dest /\ Pairs' = Pairs /\ x \in Pairs
  BY <1>0, <1>2, TransportType, Zenon DEF Pairs, Message
<1>4. x \in Delayed
  BY <1>3, Zenon DEF Delayed
<1>5. x \notin Sent
  BY <1>4, Zenon DEF Inv, Apart
<1>6. /\ Sent' = Sent \union {x} /\ SentOnce'
      /\ \A u \in DOMAIN transports : transports'[u].to = transports[u].to
  BY <1>0, <1>1, <1>2, <1>5, MoreSent, Zenon DEF Inv, Single
<1>7. \A z \in delayed : z[1] \in DOMAIN transports
  BY <1>0, Zenon DEF TypeInv, TypeOK
<1>8. Delayed' = Delayed \ {x}
  <2>1. ASSUME NEW z \in Pairs PROVE z \in Delayed' <=> z \in Delayed /\ z # x
    <3>1. z \in Delayed' <=> \E w \in delayed' : z[1] = transports[w[1]].to /\ z[2] = w[2]
      BY <1>1, <1>3, <1>6, <1>7, Zenon DEF Delayed
    <3>2. z \in Delayed <=> \E w \in delayed : z[1] = transports[w[1]].to /\ z[2] = w[2]
      BY Zenon DEF Delayed
    <3>3. z = x <=> z[1] = transports[y[1]].to /\ z[2] = y[2]
      BY DEF Pairs
    <3> HIDE DEF x
    <3> QED
      BY <1>1, <3>1, <3>2, <3>3, Zenon DEF Inv, Single, DelayedOnce
  <2> QED
    BY <1>3, <2>1, Zenon DEF Delayed
<1>9. DelayedOnce'
  BY <1>1, <1>6, <1>7 DEF Inv, Single, DelayedOnce
<1> HIDE DEF x
<1>10. /\ UNCHANGED <<sender, receiver, handled, faulty>>
  BY Zenon DEF PutDelayed
<1>11. /\ Todo' = Todo /\ Arrived' = Arrived /\ Held' = Held /\ Waiting' = Waiting
       /\ Ended' = Ended /\ ReceivedOnce'
  BY <1>10, SameTodo, SameReceived, SameEnded, Zenon DEF Inv, Single
<1>12. Apart' /\ Flying' = Flying
  <2>1. Apart'
    BY <1>4, <1>6, <1>8, <1>11 DEF Inv, Apart
  <2>2. Flying' = Flying
    BY <1>4, <1>6, <1>8, <1>11, Zenon DEF Flying
  <2> QED
    BY <2>1, <2>2, Zenon
<1> QED
  BY <1>6, <1>9, <1>10, <1>11, <1>12, MovesOrLoses, Zenon DEF Single

\* A message arrives at its destination.
LEMMA CarryStep ==
    ASSUME Inv, FaultInv', NEW t \in DOMAIN transports, Carry(t)
    PROVE  StepOK
<1>0. TypeInv
  BY Zenon DEF Inv, FaultInv
<1>1. PICK x \in Sent : /\ Sent' = Sent \ {x} /\ Arrived' = Arrived \union {x}
                        /\ Held' = Held /\ Waiting' = Waiting
                        /\ SentOnce' /\ ReceivedOnce'
  <2>1. Sent \intersect Arrived = {}
    BY Zenon DEF Inv, Apart
  <2> QED
    BY <1>0, <2>1, LessSent, Zenon DEF Inv, Single
<1>2. UNCHANGED <<sender, delayed, handled, faulty>>
  BY Zenon DEF Carry
<1>3. \A u \in DOMAIN transports : transports'[u].to = transports[u].to
  BY <1>0, CarryTypes, Zenon
<1>4. Todo' = Todo /\ Delayed' = Delayed /\ Ended' = Ended /\ DelayedOnce'
  BY <1>0, <1>2, <1>3, SameTodo, SameDelayed, SameEnded, Zenon DEF Inv, Single
<1>5. Apart' /\ Flying' = Flying
  BY <1>1, <1>4 DEF Inv, Apart, Flying
<1> QED
  BY <1>1, <1>2, <1>4, <1>5, MovesOrLoses, Zenon DEF Single

\* A message is taken out of the channel of the transport, to be held or, by a node
\* that is to blame, thrown away.
LEMMA ReceiveStep ==
    ASSUME Inv, FaultInv', NEW d \in Dest, Receive(d)
    PROVE  StepOK
<1>0. TypeInv
  BY Zenon DEF Inv, FaultInv
<1>1. PICK x \in Arrived :
        /\ x[1] = d
        /\ Arrived' = Arrived \ {x}
        /\ Held' = IF receiver[d].crash \/ receiver[d].silent THEN Held ELSE Held \union {x}
        /\ Waiting' = Waiting /\ ReceivedOnce'
  BY <1>0, LessArrived, Zenon DEF Inv, Single
<1>2. UNCHANGED <<sender, transports, delayed, handled, faulty>>
  BY Zenon DEF Receive
<1>3. Todo' = Todo /\ Delayed' = Delayed /\ Sent' = Sent /\ Ended' = Ended
        /\ DelayedOnce' /\ SentOnce'
  BY <1>0, <1>2, SameTodo, SameDelayed, SameSent, SameEnded, Zenon DEF Inv, Single
<1>4. receiver[d].crash \/ receiver[d].silent => x[1] \in faulty'
  <2>1. ReceiverOK(receiver[d], d, faulty)
    BY Zenon DEF Inv, FaultInv
  <2> QED
    BY <1>1, <1>2, <2>1, Zenon DEF ReceiverOK
<1>5. Apart' /\ Flying' \subseteq Flying /\ \A y \in Flying \ Flying' : y[1] \in faulty'
  <2>1. Held' = Held \/ Held' = Held \union {x}
    BY <1>1, Zenon
  <2>2. ~(receiver[d].crash \/ receiver[d].silent) => Held' = Held \union {x}
    BY <1>1, Zenon
  <2>3. Apart'
    BY <1>1, <1>3, <2>1 DEF Inv, Apart
  <2>4. Flying' \subseteq Flying
    BY <1>1, <1>3, <2>1, Zenon DEF Flying
  <2>5. \A y \in Flying \ Flying' : y = x /\ Held' # Held \union {x}
    BY <1>1, <1>3, <2>1, Zenon DEF Flying
  <2> QED
    BY <1>4, <2>2, <2>3, <2>4, <2>5, Zenon
<1> QED
  BY <1>1, <1>2, <1>3, <1>5, MovesOrLoses, Zenon DEF Single

\* A message is put into MessageChan.
LEMMA PassOnStep ==
    ASSUME Inv, FaultInv', NEW d \in Dest, PassOn(d)
    PROVE  StepOK
<1>0. TypeInv
  BY Zenon DEF Inv, FaultInv
<1>1. PICK x \in Held : /\ Held' = Held \ {x} /\ Waiting' = Waiting \union {x}
                        /\ Arrived' = Arrived /\ ReceivedOnce'
  <2>1. Held \intersect Waiting = {}
    BY Zenon DEF Inv, Apart
  <2> QED
    BY <1>0, <2>1, LessHeld, Zenon DEF Inv, Single
<1>2. UNCHANGED <<sender, transports, delayed, handled, faulty>>
  BY Zenon DEF PassOn
<1>3. Todo' = Todo /\ Delayed' = Delayed /\ Sent' = Sent /\ Ended' = Ended
        /\ DelayedOnce' /\ SentOnce'
  BY <1>0, <1>2, SameTodo, SameDelayed, SameSent, SameEnded, Zenon DEF Inv, Single
<1>4. Apart' /\ Flying' = Flying
  BY <1>1, <1>3 DEF Inv, Apart, Flying
<1> QED
  BY <1>1, <1>2, <1>3, <1>4, MovesOrLoses, Zenon DEF Single

\* A message that was waiting once only is handled.
LEMMA HandleStep ==
    ASSUME Inv, FaultInv', NEW d \in Dest, Handle(d)
    PROVE  StepOK
<1>0. TypeInv /\ TypeInv'
  BY Zenon DEF Inv, FaultInv
<1>1. PICK x \in Waiting : /\ Waiting' = Waiting \ {x} /\ Ended' = Ended \union {x}
                           /\ Arrived' = Arrived /\ Held' = Held /\ ReceivedOnce'
  BY <1>0, LessWaiting, Zenon DEF Inv, Single
<1>2. UNCHANGED <<sender, transports, delayed, faulty>>
  BY Zenon DEF Handle
<1>3. Todo' = Todo /\ Delayed' = Delayed /\ Sent' = Sent /\ DelayedOnce' /\ SentOnce'
  BY <1>0, <1>2, SameTodo, SameDelayed, SameSent, Zenon DEF Inv, Single
<1>4. Apart' /\ Flying' = Flying \ {x} /\ x \in Flying
  BY <1>1, <1>3 DEF Inv, Apart, Flying
<1>5. Known'
  BY <1>1, <1>2, <1>4, Zenon DEF Inv, Known
<1>6. InFlight = Flying /\ Handled = Ended /\ InFlight' = Flying' /\ Handled' = Ended'
  <2>1. TypeInv' => (InFlight = Flying /\ Handled = Ended)'
    BY PlacesOfInFlight, PTL
  <2> QED
    BY <1>0, <2>1, PlacesOfInFlight, Zenon
<1>7. AsChannel!Handle
  BY <1>1, <1>2, <1>4, <1>6, Zenon DEF AsChannel!Handle
<1> QED
  BY <1>1, <1>3, <1>4, <1>5, <1>7, Zenon DEF StepOK, Inv, Single, AsChannel!Next

\* A goroutine calls Send or Broadcast with a message that is nowhere yet.
LEMMA CallStep ==
    ASSUME Inv, FaultInv', NEW g \in Goroutine, NEW to \in SUBSET Dest, Call(g, to)
    PROVE  StepOK
<1> DEFINE m == <<g, sender[g].calls + 1>>
<1>0. TypeInv /\ TypeInv'
  BY Zenon DEF Inv, FaultInv
<1>1. /\ UNCHANGED <<transports, delayed, receiver, handled, faulty>>
      /\ sender[g].todo = {} /\ sender[g].calls < Sends[g]
      /\ sender' = [sender EXCEPT ![g].calls = @ + 1, ![g].todo = to]
  BY Zenon DEF Call
<1>2. \A h \in Goroutine :
        /\ sender'[h].calls = IF h = g THEN sender[g].calls + 1 ELSE sender[h].calls
        /\ sender'[h].todo = IF h = g THEN to ELSE sender[h].todo
  BY <1>0, <1>1 DEF TypeInv, TypeOK, Goroutines
<1>3. sender[g].calls \in Nat /\ sender[g].calls + 1 \in 1..Sends[g]
  BY <1>0, <1>1, SenderType
<1>4. m \in Message
  <2>1. m \in {g} \X (1..Sends[g])
    BY <1>3, Zenon
  <2>2. {g} \X (1..Sends[g]) \in {{h} \X (1..Sends[h]) : h \in Goroutine}
    BY Zenon
  <2> QED
    BY <2>1, <2>2, Zenon DEF Message
<1>5. Pairs' = Pairs /\ \A d \in Dest : <<d, m>> \in Pairs
  BY <1>4, Zenon DEF Pairs, Message
<1>6. \A d \in Dest : <<d, m>> \notin Flying \union Ended
  <2> SUFFICES ASSUME NEW d \in Dest, <<d, m>> \in Flying \union Ended PROVE FALSE
    BY Zenon
  <2>1. <<d, m>>[2][2] <= sender[<<d, m>>[2][1]].calls
    BY Zenon DEF Inv, Known
  <2> QED
    BY <1>3, <2>1
<1>7. Todo' = Todo \union (to \X {m})
  <2>1. ASSUME NEW x \in Pairs PROVE x \in Todo' <=> x \in Todo \/ x \in to \X {m}
    <3>1. x \in Todo' <=> \E h \in Goroutine : x[1] \in sender'[h].todo /\ x[2] = Current(h)'
      BY <1>5, Zenon DEF Todo
    <3>2. x \in Todo <=> \E h \in Goroutine : x[1] \in sender[h].todo /\ x[2] = Current(h)
      BY Zenon DEF Todo
    <3>3. \A h \in Goroutine : Current(h)' = IF h = g THEN m ELSE Current(h)
      BY <1>2, Zenon DEF Current
    <3>4. x \in to \X {m} <=> x[1] \in to /\ x[2] = m
      BY Zenon DEF Pairs
    <3>5. /\ sender'[g].todo = to /\ sender[g].todo = {} /\ Current(g)' = m
          /\ \A h \in Goroutine \ {g} :
                sender'[h].todo = sender[h].todo /\ Current(h)' = Current(h)
      BY <1>1, <1>2, <3>3, Zenon
    <3> HIDE DEF m
    <3>6. x \in Todo' <=> \/ x[1] \in to /\ x[2] = m
                         \/ \E h \in Goroutine \ {g} :
                                x[1] \in sender[h].todo /\ x[2] = Current(h)
      BY <3>1, <3>5, Zenon
    <3>7. x \in Todo <=> \E h \in Goroutine \ {g} :
                           x[1] \in sender[h].todo /\ x[2] = Current(h)
      BY <3>2, <3>5, Zenon
    <3> QED
      BY <3>4, <3>6, <3>7, Zenon
  <2> HIDE DEF m
  <2>2. to \X {m} \subseteq Pairs
    BY <1>4, Zenon DEF Pairs
  <2> QED
    BY <1>5, <2>1, <2>2, Zenon DEF Todo
<1>8. /\ Delayed' = Delayed /\ Sent' = Sent /\ Arrived' = Arrived
      /\ Held' = Held /\ Waiting' = Waiting /\ Ended' = Ended /\ Single'
  BY <1>0, <1>1, SameDelayed, SameSent, SameReceived, SameEnded, Zenon DEF Inv, Single
<1>9. Flying' = Flying \union (to \X {m})
  BY <1>7, <1>8, Zenon DEF Flying
<1>10. \A x \in to \X {m} : x \notin Flying \union Ended
  BY <1>6
<1>11. Apart'
  <2> DEFINE new == to \X {m}
  <2>1. Todo' = Todo \union new /\ \A x \in new : x \notin Flying \union Ended
    BY <1>7, <1>10, Zenon
  <2> HIDE DEF new
  <2> QED
    BY <1>8, <2>1, Zenon DEF Inv, Apart, Flying
<1>12. Known'
  <2> SUFFICES ASSUME NEW x \in Flying' \union Ended' PROVE x[2][2] <= sender'[x[2][1]].calls
    BY Zenon DEF Known
  <2>1. CASE x \in to \X {m}
    BY <1>2, <1>3, <2>1
  <2>2. CASE x \in Flying \union Ended
    <3>2. x[2][1] \in Goroutine /\ x[2][2] \in Nat
      BY <2>2, SentByGoroutine, Zenon
    <3>3. x[2][2] <= sender[x[2][1]].calls /\ sender[x[2][1]].calls \in Nat
      BY <1>0, <2>2, <3>2, SenderType, Zenon DEF Inv, Known
    <3> QED
      BY <1>2, <1>3, <3>2, <3>3, SMTT(30)
  <2> QED
    BY <1>8, <1>9, <2>1, <2>2, Zenon
<1>13. InFlight = Flying /\ Handled = Ended /\ InFlight' = Flying' /\ Handled' = Ended'
  <2>1. TypeInv' => (InFlight = Flying /\ Handled = Ended)'
    BY PlacesOfInFlight, PTL
  <2> QED
    BY <1>0, <2>1, PlacesOfInFlight, Zenon
<1>14. AsChannel!Send
  <2> HIDE DEF m
  <2> QED
    BY <1>1, <1>4, <1>6, <1>8, <1>9, <1>13, Zenon DEF AsChannel!Send
<1> QED
  BY <1>8, <1>11, <1>12, <1>14, Zenon DEF StepOK, Inv, AsChannel!Next

\* Every step keeps the invariant and is one of the channel.
LEMMA EveryStep ==
    ASSUME Inv, [Next]_vars
    PROVE  StepOK
<1>1. FaultInv'
  BY FaultInvInductive, Zenon DEF Inv
<1>2. ASSUME NEW g \in Goroutine,
             \/ Broadcast(g) \/ Unicast(g) \/ SendDrops(g) \/ SendFinds(g) \/ SendMakes(g)
             \/ Dial(g) \/ DialFails(g) \/ Put(g)
      PROVE  StepOK
  <2>1. CASE Broadcast(g) \/ Unicast(g)
    <3>1. PICK to \in SUBSET Dest : Call(g, to)
      BY <2>1, Zenon DEF Broadcast, Unicast
    <3> QED
      BY <1>1, <3>1, CallStep, Zenon
  <2> QED
    BY <1>1, <1>2, <2>1, SendDropsStep, SendFindsStep, SendMakesStep, DialStep, DialFailsStep,
       PutStep, Zenon
<1>3. CASE PutDelayed
  BY <1>1, <1>3, PutDelayedStep, Zenon
<1>4. ASSUME NEW t \in DOMAIN transports, Carry(t) PROVE StepOK
  BY <1>1, <1>4, CarryStep, Zenon
<1>5. ASSUME NEW d \in Dest, Receive(d) \/ PassOn(d) \/ Handle(d) PROVE StepOK
  BY <1>1, <1>5, ReceiveStep, PassOnStep, HandleStep, Zenon
<1>6. ASSUME NEW d \in Dest, Listen(d) \/ CrashAt(d) \/ CrashOverAt(d) PROVE StepOK
  <2>1. /\ faulty \subseteq faulty'
        /\ \A e \in Dest : /\ receiver'[e].recv = receiver[e].recv
                           /\ receiver'[e].held = receiver[e].held
                           /\ receiver'[e].messageChan = receiver[e].messageChan
    BY <1>6, FlagTypes, Zenon DEF Inv, FaultInv
  <2>2. UNCHANGED <<sender, transports, delayed, handled>>
    BY <1>6, Zenon DEF Listen, CrashAt, CrashOverAt
  <2> QED
    BY <1>1, <2>1, <2>2, NothingMoves, SMTT(30)
<1>7. CASE SocketFault
  <2>1. /\ faulty \subseteq faulty'
        /\ Stop \/ UNCHANGED <<sender, transports, delayed, receiver, handled>>
    BY <1>7, SocketFaultTypes, Zenon DEF Inv, FaultInv
  <2> QED
    BY <1>1, <2>1, StopStep, NothingMoves, Zenon
<1>8. CASE UNCHANGED vars
  BY <1>1, <1>8, NothingMoves, Zenon DEF vars
<1> QED
  BY <1>2, <1>3, <1>4, <1>5, <1>6, <1>7, <1>8, Zenon DEF Next, SocketFault

\* At the start no message is anywhere.
LEMMA InitPlaces == Init => Inv /\ AsChannel!Init
<1> SUFFICES ASSUME Init PROVE Inv /\ AsChannel!Init
  BY Zenon
<1>1. FaultInv /\ TypeInv
  BY InitFaults, Zenon DEF FaultInv
<1>0. /\ \A g \in Goroutine : sender[g].todo = {}
      /\ delayed = {} /\ DOMAIN transports = {}
      /\ \A d \in Dest : /\ receiver[d].recv = << >> /\ receiver[d].held = << >>
                          /\ receiver[d].messageChan = << >> /\ handled[d] = << >>
  <2>1. \A g \in Goroutine : sender[g].todo = {}
    BY Zenon DEF Init
  <2>2. delayed = {} /\ DOMAIN transports = {}
    BY DEF Init
  <2>3. \A d \in Dest : /\ receiver[d].recv = << >> /\ receiver[d].held = << >>
                         /\ receiver[d].messageChan = << >>
    BY DEF Init
  <2>4. \A d \in Dest : handled[d] = << >>
    BY Zenon DEF Init
  <2> QED
    BY <2>1, <2>2, <2>3, <2>4, Zenon
<1>2. Flying = {} /\ Ended = {}
  <2>1. Todo = {} /\ Delayed = {} /\ Sent = {}
    BY <1>0, Zenon DEF Todo, Delayed, Sent
  <2>3. Arrived = {} /\ Held = {} /\ Waiting = {} /\ Ended = {}
    BY <1>0, ElementsShort, Zenon DEF Arrived, Held, Waiting, Ended, Pairs
  <2> QED
    BY <2>1, <2>3, Zenon DEF Flying
<1>3. Apart /\ Known
  BY <1>2, Zenon DEF Flying, Apart, Known
<1>4. Single
  BY <1>0, ElementsShort, Zenon DEF Single, DelayedOnce, SentOnce, ReceivedOnce
<1>5. InFlight = {} /\ Handled = {} /\ faulty \subseteq Dest
  BY <1>1, <1>2, PlacesOfInFlight, Zenon DEF TypeInv, TypeOK
<1> QED
  BY <1>1, <1>3, <1>4, <1>5, Zenon DEF Inv, AsChannel!Init

\* The network is a channel that loses messages only where a fault is to blame and
\* never delivers one twice, for any number of goroutines that dial at once, of nodes
\* and of overlapping faults (socket.go:69-215).
THEOREM NetworkImplementsChannel == Spec => ImplementsChannel
<1>1. Init => Inv /\ AsChannel!Init
  BY InitPlaces, Zenon
<1>2. Inv /\ [Next]_vars => Inv' /\ [AsChannel!Next]_(AsChannel!chan)
  BY EveryStep, Zenon DEF StepOK
<1> QED
  BY <1>1, <1>2, PTL DEF Spec, ImplementsChannel, AsChannel!Spec

-----------------------------------------------------------------------------
(* How many transports there are *)

\* As long as socket.nodes has no transport to a node, those that were made are still
\* being dialled, each by a goroutine of its own; afterwards no more are made.
DialInv ==
    /\ stopped => \A g \in Goroutine : sender[g].todo = {}
    /\ \A d \in Dest : ~stopped /\ socket.nodes[d] = 0 =>
        \A t \in To(d) : \E g \in Goroutine : sender[g].place = "dial" /\ sender[g].conn = t
    /\ TransportsBounded

\* A step that makes no transport, and abandons none that is not in socket.nodes.
LEMMA DialKept ==
    ASSUME DialInv, DOMAIN transports' = DOMAIN transports,
           \A t \in DOMAIN transports : transports'[t].to = transports[t].to,
           stopped => stopped',
           stopped' => \A g \in Goroutine : sender'[g].todo = {},
           \A d \in Dest : ~stopped' /\ socket'.nodes[d] = 0 => socket.nodes[d] = 0,
           \A g \in Goroutine : sender[g].place = "dial" =>
                \/ stopped'
                \/ sender'[g].place = "dial" /\ sender'[g].conn = sender[g].conn
                \/ socket'.nodes[transports[sender[g].conn].to] # 0
    PROVE  DialInv'
<1>1. \A d \in Dest : To(d)' = To(d)
  BY Zenon DEF To
<1>2. TransportsBounded'
  BY <1>1 DEF DialInv, TransportsBounded
<1>3. ASSUME NEW d \in Dest, ~stopped', socket'.nodes[d] = 0, NEW t \in To(d)'
      PROVE  \E g \in Goroutine : sender'[g].place = "dial" /\ sender'[g].conn = t
  <2>1. t \in To(d) /\ transports[t].to = d /\ socket.nodes[d] = 0 /\ ~stopped
    BY <1>1, <1>3, Zenon DEF To
  <2>2. PICK g \in Goroutine : sender[g].place = "dial" /\ sender[g].conn = t
    BY <2>1, Zenon DEF DialInv
  <2> QED
    BY <1>3, <2>1, <2>2, Zenon
<1> QED
  BY <1>2, <1>3, Zenon DEF DialInv

\* A goroutine that makes a transport is one of those that dial: there are no more
\* transports than goroutines.
LEMMA SendMakesDial ==
    ASSUME TypeInv, DialInv, NEW g \in Goroutine, SendMakes(g)
    PROVE  DialInv'
<1>1. PICK d \in sender[g].todo :
        /\ socket.nodes[d] = 0
        /\ transports' = Append(transports, [to |-> d, send |-> << >>])
  BY Zenon DEF SendMakes
<1>2. d \in Dest /\ [to |-> d, send |-> << >>] \in Transport /\ transports \in Seq(Transport)
  BY SenderType DEF Transport, TypeInv, TypeOK
<1> DEFINE n == Len(transports) + 1
<1>3. /\ DOMAIN transports' = 1..n /\ Len(transports') = n
      /\ DOMAIN transports = 1..Len(transports) /\ Len(transports) \in Nat
      /\ transports'[n].to = d
      /\ \A t \in 1..Len(transports) : transports'[t] = transports[t]
  BY <1>1, <1>2
<1>4. n \notin DOMAIN transports /\ DOMAIN transports' = (DOMAIN transports) \union {n}
  BY <1>3
<1>5. /\ To(d)' = To(d) \union {n}
      /\ \A e \in Dest \ {d} : To(e)' = To(e)
  <2> HIDE DEF n
  <2> QED
    BY <1>3, <1>4, Zenon DEF To
<1>6. ~stopped /\ stopped' = stopped /\ socket' = socket /\ sender[g].place = "next"
  BY <1>1, Zenon DEF SendMakes, DialInv
<1>7. sender' = [sender EXCEPT ![g].place = "dial", ![g].tries = 0, ![g].conn = n]
  BY <1>3, Zenon DEF SendMakes
<1> HIDE DEF n
<1>8. /\ sender'[g].place = "dial" /\ sender'[g].conn = n
      /\ \A h \in Goroutine \ {g} : sender'[h] = sender[h]
  BY <1>7, Zenon DEF TypeInv, TypeOK, Goroutines
<1>9. ASSUME NEW e \in Dest, socket.nodes[e] = 0, NEW t \in To(e)'
      PROVE  \E h \in Goroutine : sender'[h].place = "dial" /\ sender'[h].conn = t
  <2>1. CASE t = n
    BY <1>8, <2>1, Zenon
  <2>2. CASE t # n
    <3>1. t \in To(e)
      BY <1>5, <1>9, <2>2, Zenon
    <3>2. PICK h \in Goroutine : sender[h].place = "dial" /\ sender[h].conn = t
      BY <1>6, <1>9, <3>1, Zenon DEF DialInv
    <3>3. h # g
      BY <1>6, <3>2, Zenon
    <3> QED
      BY <1>8, <3>2, <3>3, Zenon
  <2> QED
    BY <2>1, <2>2, Zenon
<1>10. \E f \in [To(d)' -> Goroutine] : \A t, u \in To(d)' : t # u => f[t] # f[u]
  <2> DEFINE S == To(d)'
             f == [t \in S |-> CHOOSE h \in Goroutine : /\ sender'[h].place = "dial"
                                                        /\ sender'[h].conn = t]
  <2>1. \A t \in S : f[t] \in Goroutine /\ sender'[f[t]].conn = t
    BY <1>1, <1>2, <1>9, Zenon
  <2>2. f \in [S -> Goroutine] /\ \A t, u \in S : t # u => f[t] # f[u]
    BY <2>1
  <2> HIDE DEF f, S
  <2>3. \E h \in [S -> Goroutine] : \A t, u \in S : t # u => h[t] # h[u]
    BY <2>2, Zenon
  <2> QED
    BY <2>3, Zenon DEF S
<1>11. TransportsBounded'
  <2> SUFFICES ASSUME NEW e \in Dest
               PROVE  \E f \in [To(e)' -> Goroutine] :
                        \A t, u \in To(e)' : t # u => f[t] # f[u]
    BY Zenon DEF TransportsBounded
  <2>1. CASE e = d
    BY <1>10, <2>1
  <2>2. CASE e # d
    <3>1. To(e)' = To(e)
      BY <1>5, <2>2, Zenon
    <3>2. \E f \in [To(e) -> Goroutine] : \A t, u \in To(e) : t # u => f[t] # f[u]
      BY Zenon DEF DialInv, TransportsBounded
    <3> QED
      BY <3>1, <3>2, Zenon
  <2> QED
    BY <2>1, <2>2, Zenon
<1> QED
  BY <1>6, <1>9, <1>11, Zenon DEF DialInv


\* The steps that neither dial nor make transports do not disturb them.
LEMMA OthersDial ==
    ASSUME DialInv, UNCHANGED <<sender, stopped>>, socket'.nodes = socket.nodes,
           DOMAIN transports' = DOMAIN transports,
           \A t \in DOMAIN transports : transports'[t].to = transports[t].to
    PROVE  DialInv'
<1>1. stopped' => \A g \in Goroutine : sender'[g].todo = {}
  BY Zenon DEF DialInv
<1> QED
  BY <1>1, DialKept, Zenon

\* The process that ends dials no more.
LEMMA StopDial ==
    ASSUME TypeInv, DialInv, Stop
    PROVE  DialInv'
<1>1. stopped' /\ socket' = socket
  BY Zenon DEF Stop
<1>2. \A g \in Goroutine : sender'[g].todo = {}
  BY SenderType, Zenon DEF Stop, Goroutines
<1>3. /\ DOMAIN transports' = DOMAIN transports
      /\ \A t \in DOMAIN transports : transports'[t].to = transports[t].to
  BY TransportType, Zenon DEF Stop, Transport
<1> QED
  BY <1>1, <1>2, <1>3, DialKept, Zenon

\* A step of one goroutine that does not dial, or whose transport is in socket.nodes
\* afterwards.
LEMMA GoroutineDial ==
    ASSUME TypeInv, DialInv, NEW g \in Goroutine, NEW s,
           sender' = [sender EXCEPT ![g] = s],
           stopped' = stopped, stopped => s.todo = {},
           DOMAIN transports' = DOMAIN transports,
           \A t \in DOMAIN transports : transports'[t].to = transports[t].to,
           \A d \in Dest : socket'.nodes[d] = 0 => socket.nodes[d] = 0,
           sender[g].place = "dial" =>
                \/ s.place = "dial" /\ s.conn = sender[g].conn
                \/ socket'.nodes[transports[sender[g].conn].to] # 0
    PROVE  DialInv'
<1>1. sender'[g] = s /\ \A h \in Goroutine \ {g} : sender'[h] = sender[h]
  BY Zenon DEF TypeInv, TypeOK
<1>2. stopped' => \A h \in Goroutine : sender'[h].todo = {}
  BY <1>1, Zenon DEF DialInv
<1> QED
  BY <1>1, <1>2, DialKept, Zenon

\* The end of Send.
LEMMA TransmitDial ==
    ASSUME TypeInv, DialInv, NEW g \in Goroutine, NEW t \in DOMAIN transports,
           transports[t].to \in sender[g].todo, Transmit(g, t, transports[t].to),
           UNCHANGED <<transports, stopped>>,
           \A d \in Dest : socket'.nodes[d] = 0 => socket.nodes[d] = 0,
           sender[g].place = "dial" => socket'.nodes[transports[sender[g].conn].to] # 0
    PROVE  DialInv'
<1> DEFINE d == transports[t].to
           s == [sender[g] EXCEPT !.place = "send", !.conn = t, !.tries = 0]
<1>0. ~stopped
  BY Zenon DEF DialInv
<1>1. CASE sender' = [sender EXCEPT ![g] = Done(g, d)]
  BY <1>0, <1>1, GoroutineDial, Zenon
<1>2. CASE sender' = [sender EXCEPT ![g].place = "send", ![g].conn = t, ![g].tries = 0]
  <2>1. sender' = [sender EXCEPT ![g] = s]
    BY <1>2, Zenon DEF TypeInv, TypeOK
  <2> HIDE DEF s
  <2> QED
    BY <1>0, <2>1, GoroutineDial, Zenon
<1> QED
  BY <1>1, <1>2, Zenon DEF Transmit

\* Every step keeps DialInv.
LEMMA NextDial ==
    ASSUME FaultInv, DialInv, [Next]_vars
    PROVE  DialInv'
<1>0. TypeInv
  BY Zenon DEF FaultInv
<1>1. ASSUME NEW g \in Goroutine, Broadcast(g) \/ Unicast(g) PROVE DialInv'
  <2>1. PICK to \in SUBSET Dest : Call(g, to)
    BY <1>1, Zenon DEF Broadcast, Unicast
  <2> DEFINE s == [sender[g] EXCEPT !.calls = @ + 1, !.todo = to]
  <2>2. /\ ~stopped /\ sender' = [sender EXCEPT ![g] = s]
        /\ UNCHANGED <<socket, transports, stopped>>
    BY <1>0, <2>1, Zenon DEF Call, TypeInv, TypeOK
  <2>3. s.place = sender[g].place /\ s.conn = sender[g].conn
    BY <1>0, SenderType, Zenon DEF Goroutines
  <2> HIDE DEF s
  <2> QED
    BY <1>0, <2>2, <2>3, GoroutineDial, Zenon
<1>2. ASSUME NEW g \in Goroutine, SendDrops(g) PROVE DialInv'
  <2>1. PICK d \in sender[g].todo : sender' = [sender EXCEPT ![g] = Done(g, d)]
    BY <1>2, Zenon DEF SendDrops
  <2>2. ~stopped /\ sender[g].place = "next" /\ UNCHANGED <<socket, transports, stopped>>
    BY <1>2, <2>1, Zenon DEF SendDrops, DialInv
  <2> QED
    BY <1>0, <2>1, <2>2, GoroutineDial, Zenon
<1>3. ASSUME NEW g \in Goroutine, SendFinds(g) PROVE DialInv'
  <2>1. PICK d \in sender[g].todo : socket.nodes[d] # 0 /\ Transmit(g, socket.nodes[d], d)
    BY <1>3, Zenon DEF SendFinds
  <2>2. d \in Dest
    BY <1>0, SenderType, Zenon
  <2>3. socket.nodes[d] \in DOMAIN transports /\ transports[socket.nodes[d]].to = d
    BY <1>0, <2>1, <2>2, Zenon DEF TypeInv, NodesLead
  <2>4. sender[g].place = "next" /\ UNCHANGED <<socket, transports, stopped>>
    BY <1>3, Zenon DEF SendFinds
  <2> QED
    BY <1>0, <2>1, <2>3, <2>4, TransmitDial, Zenon
<1>4. ASSUME NEW g \in Goroutine, Dial(g) PROVE DialInv'
  <2> DEFINE t == sender[g].conn
             d == transports[t].to
  <2>1. /\ sender[g].place = "dial" /\ Transmit(g, t, d)
        /\ socket' = [socket EXCEPT !.nodes[d] = t] /\ UNCHANGED <<transports, stopped>>
    BY <1>4, Zenon DEF Dial, Remember
  <2>2. t \in DOMAIN transports /\ d \in sender[g].todo
    BY <1>0, <2>1, Zenon DEF TypeInv, Connected
  <2>3. t \in Nat \ {0} /\ d \in Dest
    BY <1>0, <2>2, TransportType
  <2> HIDE DEF t, d
  <2>4. \A e \in Dest : socket'.nodes[e] = IF e = d THEN t ELSE socket.nodes[e]
    BY <1>0, <2>1, <2>3, Zenon DEF TypeInv, TypeOK, Socket
  <2>5. /\ \A e \in Dest : socket'.nodes[e] = 0 => socket.nodes[e] = 0
        /\ socket'.nodes[d] # 0
    BY <2>3, <2>4, Zenon
  <2> QED
    BY <1>0, <2>1, <2>2, <2>5, TransmitDial, Zenon DEF t, d
<1>5. ASSUME NEW g \in Goroutine, DialFails(g) PROVE DialInv'
  <2>1. CASE Stop
    BY <1>0, <2>1, StopDial, Zenon
  <2>2. CASE /\ sender' = [sender EXCEPT ![g].tries = @ + 1]
             /\ UNCHANGED <<socket, transports, delayed, stopped, receiver, handled,
                            faults, faulty, slowed>>
    <3> DEFINE s == [sender[g] EXCEPT !.tries = @ + 1]
    <3>1. sender' = [sender EXCEPT ![g] = s]
      BY <1>0, <2>2, Zenon DEF TypeInv, TypeOK
    <3>2. s.place = sender[g].place /\ s.conn = sender[g].conn /\ s.todo = sender[g].todo
      BY <1>0, SenderType, Zenon DEF Goroutines
    <3>3. stopped => s.todo = {}
      BY <3>2, Zenon DEF DialInv
    <3> HIDE DEF s
    <3> QED
      BY <1>0, <2>2, <3>1, <3>2, <3>3, GoroutineDial, Zenon
  <2> QED
    BY <1>5, <2>1, <2>2, Zenon DEF DialFails
<1>6. ASSUME NEW g \in Goroutine, Put(g) PROVE DialInv'
  <2> DEFINE t == sender[g].conn
             d == transports[t].to
  <2>1. /\ sender[g].place = "send" /\ HasRoom(t) /\ Enqueue(t, Current(g))
        /\ sender' = [sender EXCEPT ![g] = Done(g, d)] /\ UNCHANGED <<socket, stopped>>
    BY <1>6, Zenon DEF Put
  <2>2. t \in DOMAIN transports /\ d \in sender[g].todo
    BY <1>0, <2>1, Zenon DEF TypeInv, Connected
  <2>3. /\ DOMAIN transports' = DOMAIN transports /\ ~stopped
        /\ \A u \in DOMAIN transports : transports'[u].to = transports[u].to
    BY <1>0, <2>1, <2>2, SenderType, EnqueueTypes DEF DialInv
  <2> QED
    BY <1>0, <2>1, <2>3, GoroutineDial, Zenon
<1>7. CASE PutDelayed
  <2>1. PICK x \in delayed : HasRoom(x[1]) /\ Enqueue(x[1], x[2])
    BY <1>7, Zenon DEF PutDelayed
  <2>2. x[1] \in DOMAIN transports /\ x[2] \in Message
    BY <1>0, Zenon DEF TypeInv, TypeOK
  <2>3. /\ DOMAIN transports' = DOMAIN transports
        /\ \A u \in DOMAIN transports : transports'[u].to = transports[u].to
    BY <1>0, <2>1, <2>2, EnqueueTypes, Zenon
  <2> QED
    BY <1>7, <2>3, OthersDial, Zenon DEF PutDelayed
<1>8. ASSUME NEW t \in DOMAIN transports, Carry(t) PROVE DialInv'
  BY <1>0, <1>8, CarryTypes, OthersDial, Zenon DEF Carry
<1>9. ASSUME NEW d \in Dest, \/ Receive(d) \/ PassOn(d) \/ Handle(d)
                             \/ Listen(d) \/ CrashAt(d) \/ CrashOverAt(d)
      PROVE  DialInv'
  <2>1. UNCHANGED <<sender, stopped, socket, transports>>
    BY <1>9, Zenon DEF Receive, PassOn, Handle, Listen, CrashAt, CrashOverAt
  <2> QED
    BY <2>1, OthersDial, Zenon
<1>10. CASE SocketFault
  <2>1. CASE Stop
    BY <1>0, <2>1, StopDial, Zenon
  <2>2. CASE ~Stop
    <3>1. /\ UNCHANGED <<sender, transports>> /\ TypeInv'
      BY <1>10, <2>2, SocketFaultTypes, Zenon DEF FaultInv
    <3>2. stopped' = stopped /\ socket'.nodes = socket.nodes
      BY <1>0, <1>10, <2>2, Zenon DEF SocketFault, Crash, CrashOver, Slow, SlowOver, Flaky, FlakyOver,
                               NotFlaky, Write, TypeInv, TypeOK, Socket
    <3> QED
      BY <3>1, <3>2, OthersDial, Zenon
  <2> QED
    BY <2>1, <2>2, Zenon
<1>11. CASE UNCHANGED vars
  BY <1>11, OthersDial, Zenon DEF vars
<1> QED
  BY <1>0, <1>1, <1>2, <1>3, <1>4, <1>5, <1>6, <1>7, <1>8, <1>9, <1>10, <1>11, SendMakesDial, Zenon
  DEF Next, SocketFault

\* There are never more transports to a node than goroutines that send, for any
\* number of goroutines that dial at once, of destinations that do not listen yet and
\* of processes that give up (socket.go:87-105).
THEOREM TransportsDoNotPileUp == Spec => []TransportsBounded
<1>1. Init => DialInv
  <2> SUFFICES ASSUME Init PROVE DialInv
    BY Zenon
  <2>1. ~stopped /\ DOMAIN transports = {}
    BY DEF Init
  <2>2. \A d \in Dest : To(d) = {}
    BY <2>1, Zenon DEF To
  <2>3. TransportsBounded
    <3> SUFFICES ASSUME NEW d \in Dest
                 PROVE  \E f \in [{} -> Goroutine] : \A t, u \in {} : t # u => f[t] # f[u]
      BY <2>2, Zenon DEF TransportsBounded
    <3> WITNESS [t \in {} |-> CHOOSE g \in Goroutine : TRUE] \in [{} -> Goroutine]
    <3> QED
      BY Zenon
  <2> QED
    BY <2>1, <2>2, <2>3, Zenon DEF DialInv
<1>2. FaultInv /\ DialInv /\ [Next]_vars => DialInv'
  BY NextDial, Zenon
<1>3. DialInv => TransportsBounded
  BY Zenon DEF DialInv
<1> QED
  BY <1>1, <1>2, <1>3, FaultInvHolds, PTL DEF Spec


-----------------------------------------------------------------------------
(* The order of the messages of a goroutine *)

\* The messages of A come before those of B, goroutine by goroutine.
Before(A, B) == \A x \in A, y \in B : x[1] = y[1] => x[2] < y[2]

\* The messages in a channel are in order.
Ordered(s) == \A i, j \in DOMAIN s : i < j /\ s[i][1] = s[j][1] => s[i][2] < s[j][2]

\* The messages in five channels, of which each is emptied into the one before it, are
\* in order.
InLine(h, m, l, r, q) ==
    /\ Ordered(h) /\ Ordered(m) /\ Ordered(l) /\ Ordered(r) /\ Ordered(q)
    /\ Before(Elements(h), Elements(m) \union Elements(l) \union Elements(r) \union Elements(q))
    /\ Before(Elements(m), Elements(l) \union Elements(r) \union Elements(q))
    /\ Before(Elements(l), Elements(r) \union Elements(q))
    /\ Before(Elements(r), Elements(q))

\* Two transports lead to node d.
Several(d) == \E t, u \in To(d) : t # u

\* What was handled at node d, waits there and is on its way there is in order.
Orderly(d) ==
    /\ To(d) = {} => /\ handled[d] = << >> /\ receiver[d].messageChan = << >>
                     /\ receiver[d].held = << >> /\ receiver[d].recv = << >>
    /\ \A t \in To(d) : InLine(handled[d], receiver[d].messageChan, receiver[d].held,
                               receiver[d].recv, transports[t].send)

OrderInv ==
    /\ slowed \/ delayed = {}
    /\ \A d \in Dest : slowed \/ Several(d) \/ Orderly(d)

\* A message at the end of a channel, after those that are in it.
LEMMA OrderedAppend ==
    ASSUME NEW s \in Seq(Message), NEW e \in Message, Ordered(s), Before(Elements(s), {e})
    PROVE  Ordered(Append(s, e)) /\ Elements(Append(s, e)) = Elements(s) \union {e}
<1> DEFINE a == Append(s, e)
           n == Len(s)
<1>1. /\ n \in Nat /\ DOMAIN s = 1..n /\ DOMAIN a = 1..(n + 1)
      /\ \A i \in 1..n : a[i] = s[i]
      /\ a[n + 1] = e
  OBVIOUS
<1> HIDE DEF a, n
<1>2. ASSUME NEW i \in DOMAIN a, NEW j \in DOMAIN a, i < j, a[i][1] = a[j][1]
      PROVE  a[i][2] < a[j][2]
  <2>1. i \in DOMAIN s /\ a[i] = s[i] /\ s[i] \in Elements(s)
    BY <1>1, <1>2 DEF Elements
  <2>2. CASE j = n + 1
    BY <1>1, <1>2, <2>1, <2>2, Zenon DEF Before
  <2>3. CASE j # n + 1
    <3>1. j \in DOMAIN s /\ a[j] = s[j]
      BY <1>1, <2>3
    <3> QED
      BY <1>2, <2>1, <3>1, Zenon DEF Ordered
  <2> QED
    BY <2>2, <2>3, Zenon
<1> QED
  BY <1>2, ElementsAppend DEF a, Ordered

\* The rest of a channel comes after the message that is taken from it.
LEMMA OrderedTail ==
    ASSUME NEW s \in Seq(Message), s # << >>, Ordered(s)
    PROVE  /\ Ordered(Tail(s)) /\ Before({Head(s)}, Elements(Tail(s)))
           /\ Elements(s) = {Head(s)} \union Elements(Tail(s)) /\ Head(s) \in Message
           /\ Tail(s) \in Seq(Message)
<1> DEFINE a == Tail(s)
           n == Len(s)
<1>1. /\ n \in Nat /\ n >= 1 /\ DOMAIN s = 1..n /\ DOMAIN a = 1..(n - 1)
      /\ \A i \in 1..(n - 1) : a[i] = s[i + 1]
      /\ Head(s) = s[1] /\ Head(s) \in Message /\ a \in Seq(Message)
  OBVIOUS
<1> HIDE DEF a, n
<1>2. 1 \in DOMAIN s
  BY <1>1
<1>3. \A i \in DOMAIN a : i + 1 \in DOMAIN s /\ 1 < i + 1 /\ a[i] = s[i + 1]
  BY <1>1
<1>4. \A i \in DOMAIN s : i # 1 => i - 1 \in DOMAIN a /\ a[i - 1] = s[i]
  BY <1>1
<1>5. ASSUME NEW i \in DOMAIN a, NEW j \in DOMAIN a, i < j, a[i][1] = a[j][1]
      PROVE  a[i][2] < a[j][2]
  <2>1. i + 1 < j + 1
    BY <1>1, <1>5
  <2> QED
    BY <1>3, <1>5, <2>1, Zenon DEF Ordered
<1>6. Before({Head(s)}, Elements(a))
  BY <1>1, <1>2, <1>3 DEF Before, Elements, Ordered
<1>7. Elements(s) = {Head(s)} \union Elements(a)
  <2>1. Head(s) = s[1]
    BY <1>1, Zenon
  <2>2. \A i \in DOMAIN a : \E j \in DOMAIN s : a[i] = s[j]
    BY <1>3, Zenon
  <2>3. \A i \in DOMAIN s : s[i] = s[1] \/ \E j \in DOMAIN a : s[i] = a[j]
    BY <1>4, Zenon
  <2> QED
    BY <1>2, <2>1, <2>2, <2>3 DEF Elements
<1> QED
  BY <1>1, <1>5, <1>6, <1>7, Zenon DEF a, Ordered

\* An empty channel, and one with a single message, are in order.
LEMMA OrderedShort ==
    /\ Ordered(<< >>) /\ Elements(<< >>) = {}
    /\ \A m : Ordered(<<m>>) /\ Elements(<<m>>) = {m}
  BY ElementsShort DEF Ordered

\* A message goes from the second channel to the end of the first.
LEMMA LineHandle ==
    ASSUME NEW h \in Seq(Message), NEW m \in Seq(Message), NEW l, NEW r, NEW q,
           InLine(h, m, l, r, q), m # << >>
    PROVE  InLine(Append(h, Head(m)), Tail(m), l, r, q)
<1> DEFINE e == Head(m)
           n == Tail(m)
           a == Append(h, e)
<1>1. /\ Ordered(n) /\ Before({e}, Elements(n)) /\ Elements(m) = {e} \union Elements(n)
      /\ e \in Message
  BY OrderedTail, Zenon DEF InLine
<1> HIDE DEF e, n
<1>2. Before(Elements(h), {e})
  BY <1>1, Zenon DEF InLine, Before
<1>3. Ordered(a) /\ Elements(a) = Elements(h) \union {e}
  BY <1>1, <1>2, OrderedAppend, Zenon DEF InLine
<1> HIDE DEF a
<1>4. InLine(a, n, l, r, q)
  BY <1>1, <1>3, Zenon DEF InLine, Before
<1> QED
  BY <1>4, Zenon DEF a, e, n

\* The only message of the third channel goes to the end of the second.
LEMMA LinePassOn ==
    ASSUME NEW h, NEW m \in Seq(Message), NEW e \in Message, NEW r, NEW q,
           InLine(h, m, <<e>>, r, q)
    PROVE  InLine(h, Append(m, e), << >>, r, q)
<1> DEFINE a == Append(m, e)
           l == <<e>>
           z == << >>
<1>1. Elements(l) = {e} /\ Elements(z) = {} /\ Ordered(z)
  BY OrderedShort, Zenon
<1>2. InLine(h, m, l, r, q)
  BY Zenon
<1> HIDE DEF l, z
<1>3. Before(Elements(m), {e})
  BY <1>1, <1>2, Zenon DEF InLine, Before
<1>4. Ordered(a) /\ Elements(a) = Elements(m) \union {e}
  BY <1>2, <1>3, OrderedAppend, Zenon DEF InLine
<1> HIDE DEF a
<1>5. InLine(h, a, z, r, q)
  BY <1>1, <1>2, <1>4, Zenon DEF InLine, Before
<1> QED
  BY <1>5, Zenon DEF a, z

\* A message goes from the fourth channel to the empty third one, or gets lost.
LEMMA LineReceive ==
    ASSUME NEW h, NEW m, NEW r \in Seq(Message), NEW q, NEW l \in {<< >>, <<Head(r)>>},
           InLine(h, m, << >>, r, q), r # << >>
    PROVE  InLine(h, m, l, Tail(r), q)
<1> DEFINE e == Head(r)
           n == Tail(r)
           z == << >>
<1>1. /\ Ordered(n) /\ Before({e}, Elements(n)) /\ Elements(r) = {e} \union Elements(n)
  BY OrderedTail, Zenon DEF InLine
<1>2. Ordered(l) /\ Elements(l) \subseteq {e} /\ Elements(z) = {}
  BY OrderedShort, Zenon
<1>3. InLine(h, m, z, r, q)
  BY Zenon
<1> HIDE DEF e, n, z
<1>4. InLine(h, m, l, n, q)
  BY <1>1, <1>2, <1>3, Zenon DEF InLine, Before
<1> QED
  BY <1>4, Zenon DEF n

\* A message goes from the last channel to the end of the fourth.
LEMMA LineCarry ==
    ASSUME NEW h, NEW m, NEW l, NEW r \in Seq(Message), NEW q \in Seq(Message),
           InLine(h, m, l, r, q), q # << >>
    PROVE  InLine(h, m, l, Append(r, Head(q)), Tail(q))
<1> DEFINE e == Head(q)
           n == Tail(q)
           a == Append(r, e)
<1>1. /\ Ordered(n) /\ Before({e}, Elements(n)) /\ Elements(q) = {e} \union Elements(n)
      /\ e \in Message
  BY OrderedTail, Zenon DEF InLine
<1> HIDE DEF e, n
<1>2. Before(Elements(r), {e})
  BY <1>1, Zenon DEF InLine, Before
<1>3. Ordered(a) /\ Elements(a) = Elements(r) \union {e}
  BY <1>1, <1>2, OrderedAppend, Zenon DEF InLine
<1> HIDE DEF a
<1>4. InLine(h, m, l, a, n)
  BY <1>1, <1>3, Zenon DEF InLine, Before
<1> QED
  BY <1>4, Zenon DEF a, e, n

\* A message that comes after all others goes to the end of the last channel.
LEMMA LinePut ==
    ASSUME NEW h, NEW m, NEW l, NEW r, NEW q \in Seq(Message), NEW e \in Message,
           InLine(h, m, l, r, q),
           Before(Elements(h) \union Elements(m) \union Elements(l) \union Elements(r)
                    \union Elements(q), {e})
    PROVE  InLine(h, m, l, r, Append(q, e))
<1> DEFINE a == Append(q, e)
<1>1. Before(Elements(q), {e})
  BY Zenon DEF Before
<1>2. Ordered(a) /\ Elements(a) = Elements(q) \union {e}
  BY <1>1, OrderedAppend, Zenon DEF InLine
<1> HIDE DEF a
<1>3. InLine(h, m, l, r, a)
  BY <1>2, Zenon DEF InLine, Before
<1> QED
  BY <1>3, Zenon DEF a


\* A step that moves no message to node d and none at it.
LEMMA SameOrderly ==
    ASSUME NEW d \in Dest, Orderly(d), handled'[d] = handled[d],
           receiver'[d].messageChan = receiver[d].messageChan,
           receiver'[d].held = receiver[d].held, receiver'[d].recv = receiver[d].recv,
           DOMAIN transports' = DOMAIN transports,
           \A t \in DOMAIN transports :
                /\ transports'[t].to = transports[t].to
                /\ transports[t].to = d => transports'[t].send = transports[t].send
    PROVE  Orderly(d)'
<1>1. To(d)' = To(d) /\ \A t \in To(d) : t \in DOMAIN transports /\ transports[t].to = d
  BY Zenon DEF To
<1>2. \A t \in To(d) : transports'[t].send = transports[t].send
  BY <1>1, Zenon
<1> QED
  BY <1>1, <1>2, Zenon DEF Orderly

\* What is known of a message to node d that a goroutine has sent and that is not the
\* one it is sending: it was sent before.
LEMMA SentBefore ==
    ASSUME Inv, NEW d \in Dest, NEW g \in Goroutine, d \in sender[g].todo,
           NEW t \in To(d)
    PROVE  Before(Elements(handled[d]) \union Elements(receiver[d].messageChan)
                    \union Elements(receiver[d].held) \union Elements(receiver[d].recv)
                    \union Elements(transports[t].send), {Current(g)})
<1> DEFINE All == Elements(handled[d]) \union Elements(receiver[d].messageChan)
                    \union Elements(receiver[d].held) \union Elements(receiver[d].recv)
                    \union Elements(transports[t].send)
<1>0. TypeInv /\ t \in DOMAIN transports /\ transports[t].to = d
  BY Zenon DEF Inv, FaultInv, To
<1>1. ASSUME NEW x \in All, x[1] = g PROVE x[2] < sender[g].calls
  <2>1. x \in Message
    <3>1. /\ handled[d] \in Seq(Message) /\ receiver[d].messageChan \in Seq(Message)
          /\ receiver[d].held \in Seq(Message) /\ receiver[d].recv \in Seq(Message)
          /\ transports[t].send \in Seq(Message)
      BY <1>0, ReceiverType, TransportType, Zenon DEF TypeInv, TypeOK
    <3> QED
      BY <3>1, ElementsType, Zenon
  <2> DEFINE p == <<d, x>>
  <2>2. p \in Pairs /\ p[1] = d /\ p[2] = x
    BY <2>1, Zenon DEF Pairs
  <2> HIDE DEF p
  <2>3. p \in Sent \union Arrived \union Held \union Waiting \union Ended
    BY <1>0, <1>1, <2>2, Zenon DEF Sent, Arrived, Held, Waiting, Ended
  <2>4. p \notin Todo /\ p \in Flying \union Ended
    BY <2>3, Zenon DEF Inv, Apart, Flying
  <2>5. x # Current(g)
    BY <2>2, <2>4, Zenon DEF Todo
  <2>6. p[2][2] <= sender[p[2][1]].calls /\ p[2][1] \in Goroutine /\ p[2][2] \in Nat
    BY <2>4, SentByGoroutine, Zenon DEF Inv, Known
  <2>7. x[2] <= sender[g].calls /\ x[2] \in Nat /\ sender[g].calls \in Nat
    BY <1>0, <1>1, <2>2, <2>6, SenderType, Zenon
  <2>8. x = <<x[1], x[2]>>
    <3>1. PICK h \in Goroutine : x \in {h} \X (1..Sends[h])
      BY <2>1, Zenon DEF Message
    <3> QED
      BY <3>1
  <2>9. x[2] # sender[g].calls
    BY <1>1, <2>5, <2>8, Zenon DEF Current
  <2> QED
    BY <2>7, <2>9
<1> HIDE DEF All
<1>2. Before(All, {Current(g)})
  BY <1>1 DEF Before, Current
<1> QED
  BY <1>2, Zenon DEF All

\* A message is put at the end of the channel of the only transport to its node.
LEMMA PutOrderly ==
    ASSUME Inv, NEW g \in Goroutine, Put(g), NEW d \in Dest, Orderly(d), ~Several(d)
    PROVE  Orderly(d)'
<1> DEFINE t == sender[g].conn
<1>0. TypeInv
  BY Zenon DEF Inv, FaultInv
<1>1. /\ sender[g].place = "send" /\ HasRoom(t) /\ Enqueue(t, Current(g))
      /\ UNCHANGED <<receiver, handled>>
  BY Zenon DEF Put
<1>2. t \in DOMAIN transports /\ transports[t].to \in sender[g].todo
  BY <1>0, <1>1, Zenon DEF TypeInv, Connected
<1>3. Current(g) \in Message
  BY <1>0, <1>2, SenderType, Zenon
<1> HIDE DEF t
<1>4. /\ DOMAIN transports' = DOMAIN transports
      /\ \A u \in DOMAIN transports :
            /\ transports'[u].to = transports[u].to
            /\ transports'[u].send = IF u = t THEN Append(transports[t].send, Current(g))
                                              ELSE transports[u].send
  BY <1>0, <1>1, <1>2, <1>3, EnqueueTypes, Zenon
<1>5. CASE transports[t].to # d
  <2>1. \A u \in DOMAIN transports : transports[u].to = d
            => transports'[u].send = transports[u].send
    BY <1>4, <1>5, Zenon
  <2> QED
    BY <1>1, <1>4, <2>1, SameOrderly, Zenon
<1>6. CASE transports[t].to = d
  <2>1. t \in To(d) /\ To(d)' = To(d) /\ \A u \in To(d) : u = t
    BY <1>2, <1>4, <1>6, Zenon DEF To, Several
  <2>2. transports'[t].send = Append(transports[t].send, Current(g))
    BY <1>2, <1>4, Zenon
  <2>3. transports[t].send \in Seq(Message)
    BY <1>0, <1>2, TransportType, Zenon
  <2>4. InLine(handled[d], receiver[d].messageChan, receiver[d].held, receiver[d].recv,
               transports[t].send)
    BY <2>1, Zenon DEF Orderly
  <2>5. InLine(handled[d], receiver[d].messageChan, receiver[d].held, receiver[d].recv,
               Append(transports[t].send, Current(g)))
    BY <1>2, <1>3, <1>6, <2>1, <2>3, <2>4, SentBefore, LinePut, Zenon
  <2> QED
    BY <1>1, <2>1, <2>2, <2>5, Zenon DEF Orderly
<1> QED
  BY <1>5, <1>6, Zenon

\* A message arrives behind those that have come before.
LEMMA CarryOrderly ==
    ASSUME Inv, NEW t \in DOMAIN transports, Carry(t), NEW d \in Dest, Orderly(d), ~Several(d)
    PROVE  Orderly(d)'
<1>0. TypeInv /\ handled' = handled /\ transports[t].send # << >>
  BY Zenon DEF Inv, FaultInv, Carry
<1>1. /\ DOMAIN transports' = DOMAIN transports
      /\ \A u \in DOMAIN transports :
            /\ transports'[u].to = transports[u].to
            /\ transports'[u].send = IF u = t THEN Tail(transports[t].send)
                                              ELSE transports[u].send
      /\ \A e \in Dest :
            /\ receiver'[e].recv = IF e = transports[t].to
                                   THEN Append(receiver[e].recv, Head(transports[t].send))
                                   ELSE receiver[e].recv
            /\ receiver'[e].held = receiver[e].held
            /\ receiver'[e].messageChan = receiver[e].messageChan
  BY <1>0, CarryTypes, Zenon
<1>2. CASE transports[t].to # d
  <2>1. /\ receiver'[d].recv = receiver[d].recv
        /\ \A u \in DOMAIN transports : transports[u].to = d
                => transports'[u].send = transports[u].send
    BY <1>1, <1>2, Zenon
  <2> QED
    BY <1>0, <1>1, <2>1, SameOrderly, Zenon
<1>3. CASE transports[t].to = d
  <2>1. t \in To(d) /\ To(d)' = To(d) /\ \A u \in To(d) : u = t
    BY <1>1, <1>3 DEF To, Several
  <2>2. /\ transports'[t].send = Tail(transports[t].send)
        /\ receiver'[d].recv = Append(receiver[d].recv, Head(transports[t].send))
    BY <1>1, <1>3, Zenon
  <2>3. transports[t].send \in Seq(Message) /\ receiver[d].recv \in Seq(Message)
    BY <1>0, TransportType, ReceiverType, Zenon
  <2>4. InLine(handled[d], receiver[d].messageChan, receiver[d].held, receiver[d].recv,
               transports[t].send)
    BY <2>1, Zenon DEF Orderly
  <2>5. InLine(handled[d], receiver[d].messageChan, receiver[d].held,
               Append(receiver[d].recv, Head(transports[t].send)), Tail(transports[t].send))
    BY <1>0, <2>3, <2>4, LineCarry, Zenon
  <2>6. /\ receiver'[d].held = receiver[d].held
        /\ receiver'[d].messageChan = receiver[d].messageChan /\ handled'[d] = handled[d]
    BY <1>0, <1>1, Zenon
  <2> QED
    BY <2>1, <2>2, <2>5, <2>6, Zenon DEF Orderly
<1> QED
  BY <1>2, <1>3, Zenon


\* The steps of the node that receives: a message is taken out of the transport, passed
\* on to MessageChan, and handled.
LEMMA ReceiverOrderly ==
    ASSUME Inv, NEW e \in Dest, Receive(e) \/ PassOn(e) \/ Handle(e),
           NEW d \in Dest, Orderly(d)
    PROVE  Orderly(d)'
<1>0. TypeInv /\ transports' = transports /\ To(d)' = To(d)
  BY Zenon DEF Inv, FaultInv, Receive, PassOn, Handle, To
<1>1. CASE d # e
  <2>1. receiver'[d] = receiver[d]
    BY <1>0, <1>1, ReceiveTypes, PassOnTypes, HandleTypes, Zenon
  <2>2. handled'[d] = handled[d]
    BY <1>0, <1>1, Zenon DEF Receive, PassOn, Handle, TypeInv, TypeOK
  <2> QED
    BY <1>0, <2>1, <2>2, SameOrderly, Zenon
<1>2. CASE d = e
  <2> DEFINE h == handled[d]
             m == receiver[d].messageChan
             l == receiver[d].held
             r == receiver[d].recv
  <2>0. /\ h \in Seq(Message) /\ m \in Seq(Message) /\ l \in Seq(Message) /\ r \in Seq(Message)
    BY <1>0, ReceiverType, Zenon DEF TypeInv, TypeOK
  <2>1. ASSUME NEW t \in To(d)
        PROVE  InLine(h, m, l, r, transports[t].send)
    BY <2>1, Zenon DEF Orderly
  <2>2. CASE Receive(d)
    <3>1. /\ r # << >> /\ l = << >> /\ receiver'[d].recv = Tail(r)
          /\ receiver'[d].held \in {<< >>, <<Head(r)>>}
          /\ receiver'[d].messageChan = m /\ handled'[d] = h
      <4>1. handled' = handled
        BY <2>2, Zenon DEF Receive
      <4> QED
        BY <1>0, <2>2, <4>1, ReceiveTypes, Zenon
    <3>2. To(d) # {}
      BY <3>1, Zenon DEF Orderly
    <3>3. ASSUME NEW t \in To(d)
          PROVE  InLine(h, m, receiver'[d].held, Tail(r), transports[t].send)
      <4>1. InLine(h, m, << >>, r, transports[t].send)
        BY <2>1, <3>1, <3>3, Zenon
      <4> HIDE DEF h, m, l, r
      <4> QED
        BY <2>0, <3>1, <4>1, LineReceive, Zenon
    <3> QED
      BY <1>0, <3>1, <3>2, <3>3, Zenon DEF Orderly
  <2>3. CASE PassOn(d)
    <3>1. /\ l # << >> /\ Len(l) = 1 /\ receiver'[d].recv = r /\ receiver'[d].held = << >>
          /\ receiver'[d].messageChan = Append(m, l[1]) /\ handled'[d] = h
      <4>1. handled' = handled
        BY <2>3, Zenon DEF PassOn
      <4> QED
        BY <1>0, <2>3, <4>1, PassOnTypes, Zenon
    <3>2. To(d) # {}
      BY <3>1, Zenon DEF Orderly
    <3>3. l = <<l[1]>> /\ l[1] \in Message
      <4> HIDE DEF l
      <4> QED
        BY <2>0, <3>1
    <3>4. ASSUME NEW t \in To(d)
          PROVE  InLine(h, Append(m, l[1]), << >>, r, transports[t].send)
      <4>1. InLine(h, m, <<l[1]>>, r, transports[t].send)
        BY <2>1, <3>3, <3>4, Zenon
      <4> HIDE DEF h, m, l, r
      <4> QED
        BY <2>0, <3>3, <4>1, LinePassOn, Zenon
    <3> QED
      BY <1>0, <3>1, <3>2, <3>4, Zenon DEF Orderly
  <2>4. CASE Handle(d)
    <3>1. /\ m # << >> /\ receiver'[d].recv = r /\ receiver'[d].held = l
          /\ receiver'[d].messageChan = Tail(m)
      BY <1>0, <2>4, HandleTypes, Zenon
    <3>2. handled'[d] = Append(h, Head(m))
      BY <1>0, <2>4, Zenon DEF Handle, TypeInv, TypeOK
    <3>3. To(d) # {}
      BY <3>1, Zenon DEF Orderly
    <3>4. ASSUME NEW t \in To(d)
          PROVE  InLine(Append(h, Head(m)), Tail(m), l, r, transports[t].send)
      <4>1. InLine(h, m, l, r, transports[t].send)
        BY <2>1, <3>4, Zenon
      <4> HIDE DEF h, m, l, r
      <4> QED
        BY <2>0, <3>1, <4>1, LineHandle, Zenon
    <3> QED
      BY <1>0, <3>1, <3>2, <3>3, <3>4, Zenon DEF Orderly
  <2> QED
    BY <1>2, <2>2, <2>3, <2>4, Zenon
<1> QED
  BY <1>1, <1>2, Zenon

\* A new transport is empty.
LEMMA SendMakesOrderly ==
    ASSUME Inv, NEW g \in Goroutine, SendMakes(g),
           NEW d \in Dest, Orderly(d), ~Several(d)'
    PROVE  Orderly(d)' /\ To(d) \subseteq To(d)'
<1>0. TypeInv
  BY Zenon DEF Inv, FaultInv
<1>1. PICK e \in sender[g].todo : transports' = Append(transports, [to |-> e, send |-> << >>])
  BY Zenon DEF SendMakes
<1>2. e \in Dest /\ [to |-> e, send |-> << >>] \in Transport /\ transports \in Seq(Transport)
  BY <1>0, SenderType DEF Transport, TypeInv, TypeOK
<1> DEFINE n == Len(transports) + 1
<1>3. /\ DOMAIN transports' = 1..n
      /\ DOMAIN transports = 1..Len(transports) /\ Len(transports) \in Nat
      /\ transports'[n].to = e /\ transports'[n].send = << >>
      /\ \A t \in 1..Len(transports) : transports'[t] = transports[t]
  BY <1>1, <1>2
<1>4. n \notin DOMAIN transports /\ DOMAIN transports' = (DOMAIN transports) \union {n}
  BY <1>3
<1>5. UNCHANGED <<receiver, handled>>
  BY Zenon DEF SendMakes
<1> HIDE DEF n
<1>6. To(d)' = IF d = e THEN To(d) \union {n} ELSE To(d)
  BY <1>3, <1>4, Zenon DEF To
<1>7. n \notin To(d) /\ \A t \in To(d) : transports'[t] = transports[t]
  BY <1>3, <1>4, Zenon DEF To
<1>8. CASE d # e
  BY <1>5, <1>6, <1>7, <1>8, Zenon DEF Orderly
<1>9. CASE d = e
  <2>1. To(d) = {} /\ To(d)' = {n}
    BY <1>6, <1>7, <1>9, Zenon DEF Several
  <2>2. /\ handled'[d] = << >> /\ receiver'[d].messageChan = << >>
        /\ receiver'[d].held = << >> /\ receiver'[d].recv = << >>
    BY <1>5, <2>1, Zenon DEF Orderly
  <2>3. InLine(<< >>, << >>, << >>, << >>, << >>)
    BY OrderedShort, Zenon DEF InLine, Before
  <2> QED
    BY <1>3, <2>1, <2>2, <2>3, Zenon DEF Orderly
<1> QED
  BY <1>6, <1>8, <1>9, Zenon

\* The process that ends leaves its channels empty.
LEMMA StopOrderly ==
    ASSUME Inv, Stop, NEW d \in Dest, Orderly(d)
    PROVE  Orderly(d)'
<1>0. TypeInv /\ UNCHANGED <<receiver, handled>>
  BY Zenon DEF Inv, FaultInv, Stop
<1>1. /\ DOMAIN transports' = DOMAIN transports
      /\ \A t \in DOMAIN transports : /\ transports'[t].to = transports[t].to
                                      /\ transports'[t].send = << >>
  BY <1>0, TransportType, Zenon DEF Stop, Transport
<1>2. To(d)' = To(d) /\ \A t \in To(d) : transports'[t].send = << >>
  BY <1>1, Zenon DEF To
<1>3. ASSUME NEW h, NEW m, NEW l, NEW r, NEW q, InLine(h, m, l, r, q)
      PROVE  InLine(h, m, l, r, << >>)
  <2> DEFINE z == << >>
  <2>1. Ordered(z) /\ Elements(z) = {}
    BY OrderedShort, Zenon
  <2> HIDE DEF z
  <2>2. InLine(h, m, l, r, z)
    BY <1>3, <2>1, Zenon DEF InLine, Before
  <2> QED
    BY <2>2, Zenon DEF z
<1> QED
  BY <1>0, <1>2, <1>3, Zenon DEF Orderly


\* What a step keeps of the order.
StepOrder ==
    /\ slowed => slowed'
    /\ slowed' \/ delayed' = {}
    /\ \A d \in Dest : To(d) \subseteq To(d)'
    /\ \A d \in Dest : Orderly(d) /\ ~Several(d)' /\ ~slowed' => Orderly(d)'

\* That is enough for the invariant.
LEMMA StepOrderInv ==
    ASSUME OrderInv, StepOrder
    PROVE  OrderInv'
<1> SUFFICES ASSUME NEW d \in Dest PROVE slowed' \/ Several(d)' \/ Orderly(d)'
  BY Zenon DEF OrderInv, StepOrder
<1>1. Several(d) => Several(d)'
  BY Zenon DEF StepOrder, Several
<1> QED
  BY <1>1, Zenon DEF OrderInv, StepOrder

\* A step that moves no message, or delays one.
LEMMA QuietOrder ==
    ASSUME OrderInv, UNCHANGED <<transports, handled>>, slowed => slowed',
           slowed' \/ delayed' = delayed,
           \A d \in Dest : /\ receiver'[d].messageChan = receiver[d].messageChan
                           /\ receiver'[d].held = receiver[d].held
                           /\ receiver'[d].recv = receiver[d].recv
    PROVE  StepOrder
<1>1. \A d \in Dest : To(d)' = To(d)
  BY Zenon DEF To
<1>2. \A d \in Dest : Orderly(d) => Orderly(d)'
  BY SameOrderly, Zenon
<1>3. slowed' \/ delayed' = {}
  BY Zenon DEF OrderInv
<1> QED
  BY <1>1, <1>2, <1>3, Zenon DEF StepOrder

\* Every step keeps the order.
LEMMA NextOrder ==
    ASSUME Inv, OrderInv, [Next]_vars
    PROVE  StepOrder
<1>0. TypeInv /\ slowed \in BOOLEAN
  BY Zenon DEF Inv, FaultInv, TypeInv, TypeOK
<1>1. CASE Stop /\ slowed' = slowed
  <2>1. /\ DOMAIN transports' = DOMAIN transports /\ delayed' = {}
        /\ \A t \in DOMAIN transports : transports'[t].to = transports[t].to
    BY <1>0, <1>1, TransportType, Zenon DEF Stop, Transport
  <2>2. \A d \in Dest : To(d)' = To(d)
    BY <2>1, Zenon DEF To
  <2> QED
    BY <1>1, <2>1, <2>2, StopOrderly, Zenon DEF StepOrder
<1>2. ASSUME NEW g \in Goroutine,
             \/ Broadcast(g) \/ Unicast(g) \/ SendDrops(g) \/ SendFinds(g) \/ Dial(g)
      PROVE  StepOrder
  <2>1. /\ UNCHANGED <<transports, receiver, handled>>
        /\ slowed' \/ UNCHANGED <<delayed, slowed>>
    BY <1>2, Zenon DEF Broadcast, Unicast, Call, SendDrops, SendFinds, Dial, Transmit
  <2> QED
    BY <2>1, QuietOrder
<1>3. ASSUME NEW g \in Goroutine, DialFails(g) PROVE StepOrder
  <2>1. CASE Stop
    BY <1>1, <2>1, Zenon DEF Stop
  <2>2. CASE UNCHANGED <<transports, delayed, receiver, handled, slowed>>
    BY <2>2, QuietOrder, Zenon
  <2> QED
    BY <1>3, <2>1, <2>2, Zenon DEF DialFails
<1>4. ASSUME NEW g \in Goroutine, SendMakes(g) PROVE StepOrder
  <2>1. UNCHANGED <<delayed, slowed>>
    BY <1>4, Zenon DEF SendMakes
  <2>2. ASSUME NEW d \in Dest PROVE To(d) \subseteq To(d)'
    <3>1. PICK e \in sender[g].todo :
                transports' = Append(transports, [to |-> e, send |-> << >>])
      BY <1>4, Zenon DEF SendMakes
    <3>2. e \in Dest /\ [to |-> e, send |-> << >>] \in Transport /\ transports \in Seq(Transport)
      BY <1>0, SenderType DEF Transport, TypeInv, TypeOK
    <3>3. /\ DOMAIN transports \subseteq DOMAIN transports'
          /\ \A t \in DOMAIN transports : transports'[t] = transports[t]
      BY <3>1, <3>2
    <3> QED
      BY <3>3, Zenon DEF To
  <2> QED
    BY <1>4, <2>1, <2>2, SendMakesOrderly, Zenon DEF StepOrder, OrderInv
<1>5. ASSUME NEW g \in Goroutine, Put(g) PROVE StepOrder
  <2>1. UNCHANGED <<delayed, slowed>> /\ HasRoom(sender[g].conn)
          /\ Enqueue(sender[g].conn, Current(g)) /\ sender[g].place = "send"
    BY <1>5, Zenon DEF Put
  <2>2. sender[g].conn \in DOMAIN transports /\ transports[sender[g].conn].to \in sender[g].todo
    BY <1>0, <2>1, Zenon DEF TypeInv, Connected
  <2>3. /\ DOMAIN transports' = DOMAIN transports
        /\ \A u \in DOMAIN transports : transports'[u].to = transports[u].to
    BY <1>0, <2>1, <2>2, SenderType, EnqueueTypes, Zenon
  <2>4. \A d \in Dest : To(d)' = To(d)
    BY <2>3, Zenon DEF To
  <2>5. \A d \in Dest : ~Several(d)' => ~Several(d)
    BY <2>4, Zenon DEF Several
  <2> QED
    BY <1>5, <2>1, <2>4, <2>5, PutOrderly, Zenon DEF StepOrder, OrderInv
<1>6. CASE PutDelayed
  <2>1. delayed # {} /\ slowed' = slowed
    BY <1>6, Zenon DEF PutDelayed
  <2>2. slowed /\ slowed'
    BY <2>1, Zenon DEF OrderInv
  <2>3. PICK x \in delayed : HasRoom(x[1]) /\ Enqueue(x[1], x[2])
    BY <1>6, Zenon DEF PutDelayed
  <2>4. x[1] \in DOMAIN transports /\ x[2] \in Message
    BY <1>0, Zenon DEF TypeInv, TypeOK
  <2>5. /\ DOMAIN transports' = DOMAIN transports
        /\ \A u \in DOMAIN transports : transports'[u].to = transports[u].to
    BY <1>0, <2>3, <2>4, EnqueueTypes, Zenon
  <2> QED
    BY <2>2, <2>5, Zenon DEF StepOrder, To
<1>7. ASSUME NEW t \in DOMAIN transports, Carry(t) PROVE StepOrder
  <2>1. UNCHANGED <<delayed, slowed>>
    BY <1>7, Zenon DEF Carry
  <2>2. /\ DOMAIN transports' = DOMAIN transports
        /\ \A u \in DOMAIN transports : transports'[u].to = transports[u].to
    BY <1>0, <1>7, CarryTypes, Zenon
  <2>3. \A d \in Dest : To(d)' = To(d)
    BY <2>2, Zenon DEF To
  <2>4. \A d \in Dest : ~Several(d)' => ~Several(d)
    BY <2>3, Zenon DEF Several
  <2> QED
    BY <1>7, <2>1, <2>3, <2>4, CarryOrderly, Zenon DEF StepOrder, OrderInv
<1>8. ASSUME NEW e \in Dest, Receive(e) \/ PassOn(e) \/ Handle(e) PROVE StepOrder
  <2>1. UNCHANGED <<transports, delayed, slowed>>
    BY <1>8, Zenon DEF Receive, PassOn, Handle
  <2>2. \A d \in Dest : To(d)' = To(d)
    BY <2>1, Zenon DEF To
  <2> QED
    BY <1>8, <2>1, <2>2, ReceiverOrderly, Zenon DEF StepOrder, OrderInv
<1>9. ASSUME NEW e \in Dest, Listen(e) \/ CrashAt(e) \/ CrashOverAt(e) PROVE StepOrder
  <2>1. UNCHANGED <<transports, delayed, handled, slowed>>
    BY <1>9, Zenon DEF Listen, CrashAt, CrashOverAt
  <2>2. \A d \in Dest : /\ receiver'[d].recv = receiver[d].recv
                        /\ receiver'[d].held = receiver[d].held
                        /\ receiver'[d].messageChan = receiver[d].messageChan
    BY <1>9, FlagTypes, Zenon DEF Inv, FaultInv
  <2> QED
    BY <2>1, <2>2, QuietOrder, Zenon
<1>10. CASE SocketFault
  <2>1. slowed' = slowed
    BY <1>10, Zenon DEF SocketFault, Crash, CrashOver, Slow, SlowOver, Flaky, FlakyOver, Write, Stop
  <2>2. Stop \/ UNCHANGED <<transports, delayed, receiver, handled>>
    BY <1>10, SocketFaultTypes, Zenon DEF Inv, FaultInv
  <2> QED
    BY <1>1, <2>1, <2>2, QuietOrder, Zenon
<1>11. CASE UNCHANGED vars
  BY <1>11, QuietOrder, Zenon DEF vars
<1> QED
  BY <1>2, <1>3, <1>4, <1>5, <1>6, <1>7, <1>8, <1>9, <1>10, <1>11, Zenon DEF Next, SocketFault

\* Where only one transport was made to a node and no message was delayed, the messages
\* of every goroutine are handled in the order in which it sent them, for any number of
\* goroutines and nodes and whatever gets lost in between (socket.go:69-146).
THEOREM MessagesInOrder == Spec => []InOrder
<1>1. Init => OrderInv
  <2> SUFFICES ASSUME Init PROVE OrderInv
    BY Zenon
  <2>1. delayed = {} /\ DOMAIN transports = {}
    BY DEF Init
  <2>2. \A d \in Dest : To(d) = {}
    BY <2>1, Zenon DEF To
  <2>3. \A d \in Dest : /\ receiver[d].recv = << >> /\ receiver[d].held = << >>
                         /\ receiver[d].messageChan = << >>
    BY DEF Init
  <2>4. \A d \in Dest : handled[d] = << >>
    BY Zenon DEF Init
  <2> QED
    BY <2>1, <2>2, <2>3, <2>4, Zenon DEF OrderInv, Orderly
<1>2. Inv /\ OrderInv /\ [Next]_vars => Inv' /\ OrderInv'
  BY EveryStep, NextOrder, StepOrderInv, Zenon DEF StepOK
<1>3. Inv /\ OrderInv => InOrder
  <2> SUFFICES ASSUME Inv, OrderInv, NEW d \in Dest, ~slowed, ~Several(d)
               PROVE  Ordered(handled[d])
    BY Zenon DEF InOrder, Ordered, Several
  <2>2. Orderly(d)
    BY Zenon DEF OrderInv
  <2>3. CASE To(d) = {}
    BY <2>2, <2>3, OrderedShort, Zenon DEF Orderly
  <2>4. CASE To(d) # {}
    BY <2>2, <2>4, Zenon DEF Orderly, InLine
  <2> QED
    BY <2>3, <2>4, Zenon
<1>4. Init => Inv
  BY InitPlaces, Zenon
<1> QED
  BY <1>1, <1>2, <1>3, <1>4, PTL DEF Spec


=============================================================================

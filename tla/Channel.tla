------------------------------ MODULE Channel -------------------------------
(***************************************************************************)
(* What the modules of the protocols take a node's network to be: a set of *)
(* messages in flight.  A message may overtake any other, is handled at    *)
(* most once, and is lost only on its way to a destination that a fault    *)
(* affects.                                                                *)
(***************************************************************************)
CONSTANTS
    Message,        \* what is sent
    Destination     \* where it is sent

VARIABLES
    inFlight,   \* <<destination, message>> for each message sent and not handled
    handled,    \* <<destination, message>> for each message handled
    faulty      \* the destinations to which messages may be lost

chan == <<inFlight, handled, faulty>>

\* The only step that adds a message to the network; no message is sent twice.
Send ==
    \E to \in SUBSET Destination, m \in Message :
        /\ \A d \in Destination : <<d, m>> \notin inFlight \union handled
        /\ inFlight' = inFlight \union (to \X {m})
        /\ UNCHANGED <<handled, faulty>>

Handle ==
    \E x \in inFlight : /\ inFlight' = inFlight \ {x}
                        /\ handled' = handled \union {x}
                        /\ UNCHANGED faulty

\* A fault begins, or messages are lost to one that has begun.
Fault ==
    /\ faulty \subseteq faulty'
    /\ inFlight' \subseteq inFlight
    /\ \A x \in inFlight \ inFlight' : x[1] \in faulty'
    /\ UNCHANGED handled

Init == inFlight = {} /\ handled = {} /\ faulty \subseteq Destination

Next == Send \/ Handle \/ Fault

Spec == Init /\ [][Next]_chan

=============================================================================

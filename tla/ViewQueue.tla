----------------------------- MODULE ViewQueue ------------------------------
(***************************************************************************)
(* What the pacemaker promises to the event loop of a replica, and what    *)
(* HotStuff.tla takes for granted: entering a view and queueing it for the *)
(* event loop is one step, and the event loop handles the views in the     *)
(* order in which they were entered.                                       *)
(***************************************************************************)
EXTENDS Naturals, Sequences

VARIABLES
    curView,    \* the view the replica is in
    queue,      \* the views that were entered and not handled yet
    handled     \* the view that was handled last

Init == curView = 0 /\ queue = << >> /\ handled = 0

\* A view is over: the next one, or a later one, is entered.
Advance ==
    /\ curView' \in Nat /\ curView' > curView
    /\ queue' = Append(queue, curView')
    /\ UNCHANGED handled

\* The event loop handles the oldest view.
Take ==
    /\ queue # << >>
    /\ handled' = Head(queue)
    /\ queue' = Tail(queue)
    /\ UNCHANGED curView

Next == Advance \/ Take

Spec == Init /\ [][Next]_<<curView, queue, handled>>

=============================================================================

----------------------------- MODULE MCNetwork ------------------------------
(***************************************************************************)
(* An instance of Network for TLC: the event loop of a node and one of the *)
(* goroutines that send for Phalanx.                                       *)
(***************************************************************************)
EXTENDS Network

\* The event loop sends twice, so that messages can overtake each other.
MCSends == [g \in Goroutine |-> IF g = "loop" THEN 2 ELSE 1]

=============================================================================

---------------------------- MODULE MCHotStuff ------------------------------
(***************************************************************************)
(* Instances of HotStuff for TLC: who leads which view, whose timer may    *)
(* fire in which views, and the schedules that lead to behaviours too deep *)
(* for an exhaustive search.                                               *)
(***************************************************************************)
EXTENDS HotStuff

\* The first eight bytes of the SHA-1 of "5", ..., "10", modulo 12: enough to
\* give 2, 3 or 4 replicas the leaders that the code gives them in views 4 to 9.
\* With 4 replicas these are 3, 3, 2, 2, 1 and 4.
MCSha1(n) ==
    CASE n = 5 -> 2 [] n = 6 -> 2 [] n = 7 -> 9 [] n = 8 -> 9 [] n = 9 -> 0
      [] n = 10 -> 11

-----------------------------------------------------------------------------
(* Timers *)

NoTimeouts == [r \in Replica |-> {}]

\* All replicas give up on views 1 and 2.
EarlyTimeouts == [r \in Replica |-> {1, 2}]

\* Replica 1 has left view 1 before the block of view 1 reaches it.
GapTimeouts == [NoTimeouts EXCEPT ![1] = {0, 1}]

\* Timeout messages are lost: what replica 1 does, it does alone.
LostTmos == tmoMsgs \subseteq tmoMsgs'
AloneSpec == Init /\ [][Next /\ LostTmos]_vars

-----------------------------------------------------------------------------
(* A schedule for the commit of two conflicting blocks.  Replicas 1 and 4 leave
   view 3 before they learn that its block is certified, so they never lock the
   block of view 2, which replica 3 goes on to commit.  Replica 2, which has
   seen nothing after view 2, leads views 6 and 7 and builds on the block of
   view 1. *)

ForkTimeouts ==
    [r \in Replica |-> CASE r = 2 -> {2, 3, 4, 5}
                         [] r = 3 -> {}
                         [] OTHER -> {3, 4, 5}]

\* The views whose blocks reach a replica; the other blocks are lost.
ForkReach ==
    [r \in Replica |-> CASE r = 2 -> {1, 2, 6, 7, 8}
                         [] r = 3 -> {1, 2, 3, 4}
                         [] OTHER -> 1..MaxView]

\* The timer of replica r fires now: r has received the block of the view, or
\* will not receive it.
Due(r) ==
    LET view == hs[r].pm.curView
    IN  /\ view \in TimeoutViews[r]
        /\ view \in ForkReach[r] =>
            \E b \in proposals : ViewOf(b) = view /\ <<r, b>> \notin blockMsgs

\* Timers come first, one replica after the other, and timeout messages are lost.
ForkSchedule ==
    LET late == {r \in Replica : Due(r) \/ hs[r].localTmo # NoTimeout}
    IN  /\ LostTmos
        /\ \A m \in blockMsgs \ blockMsgs' : ViewOf(m[2]) \in ForkReach[m[1]]
        /\ \A r \in Replica : hs'[r].localTmo # NoTimeout => Due(r)
        /\ late # {} =>
            LET r == CHOOSE r \in late : TRUE
            IN  hs'[r].localTmo # hs[r].localTmo

ForkSpec == Init /\ [][Next /\ ForkSchedule]_vars

=============================================================================

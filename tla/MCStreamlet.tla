---------------------------- MODULE MCStreamlet -----------------------------
(***************************************************************************)
(* Instances of Streamlet for TLC: who leads which view, and whose timer   *)
(* may fire in which views.                                                *)
(***************************************************************************)
EXTENDS Streamlet

\* The first eight bytes of the SHA-1 of "5", ..., "10", modulo 12: enough to
\* give 2, 3 or 4 replicas the leaders that the code gives them in views 4 to 9.
MCSha1(n) ==
    CASE n = 5 -> 2 [] n = 6 -> 2 [] n = 7 -> 9 [] n = 8 -> 9 [] n = 9 -> 0
      [] n = 10 -> 11

NoTimeouts == [r \in Replica |-> {}]

\* Any replica may give up on either of the first two views.
FirstTimeouts == [r \in Replica |-> {1, 2}]

\* Any replica may give up on any of the first three views.
EarlyTimeouts == [r \in Replica |-> {1, 2, 3}]

\* Replica r has something to do other than to wait for its timer.
Busy(r) ==
    LET s == sl[r]
    IN  \/ s.pm.newViews # << >> /\ Head(s.pm.newViews) <= MaxView
        \/ s.advancing # {}
        \/ \E b \in blocks : /\ ViewOf(b) >= s.pm.curView
                             /\ b \notin s.bc.vertices \union s.bufferedBlocks
        \/ \E v \in votes : /\ v.view >= s.pm.curView
                            /\ AddVote(s.bc, v) # s.bc
        \/ \E m \in tmos : m[2] >= s.pm.curView /\ AddTmo(s.pm, m[2], m[1]) # s.pm

\* Replica 1 comes last: the others handle what there is to handle, one after the
\* other, before it receives their blocks and votes in any order.
LastSchedule ==
    LET busy == {q \in Replica \ {1} : Busy(q)}
    IN  /\ busy # {} => sl'[1] = sl[1]
        /\ \A r \in Replica \ {1} :
            sl'[r] = sl[r] \/ tmos' # tmos \/ \A q \in busy : q >= r

LastSpec == Init /\ [][Next /\ LastSchedule]_vars

=============================================================================

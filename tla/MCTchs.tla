------------------------------- MODULE MCTchs -------------------------------
(***************************************************************************)
(* Instances of Tchs for TLC: who leads which view, and whose timer may    *)
(* fire in which views.                                                    *)
(***************************************************************************)
EXTENDS Tchs

\* The first eight bytes of the SHA-1 of "5", ..., "10", modulo 12: enough to
\* give 2, 3 or 4 replicas the leaders that the code gives them in views 4 to 9.
MCSha1(n) ==
    CASE n = 5 -> 2 [] n = 6 -> 2 [] n = 7 -> 9 [] n = 8 -> 9 [] n = 9 -> 0
      [] n = 10 -> 11

NoTimeouts == [r \in Replica |-> {}]

\* Any replica may give up on any of the first three views.
SkipTimeouts == [r \in Replica |-> {1, 2, 3}]

=============================================================================

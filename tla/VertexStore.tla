----------------------------- MODULE VertexStore ----------------------------
(***************************************************************************)
(* What a protocol expects of the store behind its BlockChain: a set of    *)
(* blocks with a pruning level.  The blocks that were stored and are not   *)
(* below the level are there, and no others are.                           *)
(***************************************************************************)
EXTENDS Blocks, FiniteSets

VARIABLES vertices, lowestLevel

Init == vertices = {} /\ lowestLevel = 0

\* The blocks of vs that a store with the given pruning level keeps.
Kept(vs, level) == {v \in vs : ViewOf(v) >= level}

\* One call of ProcessBlock: at most one block is added, then the level may rise.
Next ==
    /\ lowestLevel' >= lowestLevel
    /\ Kept(vertices, lowestLevel') \subseteq vertices'
    /\ vertices' \subseteq Kept(vertices \union vertices', lowestLevel')
    /\ Cardinality(vertices' \ vertices) <= 1

Spec == Init /\ [][Next]_<<vertices, lowestLevel>>

=============================================================================

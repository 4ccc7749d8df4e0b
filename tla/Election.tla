------------------------------ MODULE Election ------------------------------
(***************************************************************************)
(* Leader election (election/rotation.go, election/static.go).             *)
(*                                                                         *)
(* A protocol asks two separate questions: "am I (or is this proposer) the *)
(* leader of view v" (IsLeader) and "whom do I send my vote to"            *)
(* (FindLeaderFor).  The code computes the two answers in two functions;   *)
(* nothing but their agreement makes votes reach the next proposer.        *)
(***************************************************************************)
EXTENDS Integers

CONSTANTS
    N,          \* number of replicas: config.GetConfig().N()
    Master,     \* config.GetConfig().Master; 0 selects the rotation
    Sha1(_)     \* the first eight bytes of the SHA-1 of a decimal number

ASSUME NAssumption == N \in Nat \ {0}
ASSUME MasterAssumption == Master \in 0..N

\* identity.NodeID: the nodes are numbered from one.
Replica == 1..N

\* Rotation.IsLeader: node N leads the first three views, later views go to
\* the node the hash of view + 1 selects.
RotationIsLeader(id, view) ==
    IF view <= 3 THEN id >= N ELSE Sha1(view + 1) % N = id - 1

\* Rotation.FindLeaderFor.
RotationFindLeaderFor(view) ==
    IF view <= 3 THEN N ELSE (Sha1(view + 1) % N) + 1

\* The election a replica was built with: Static when Master is given.
IsLeader(id, view) ==
    IF Master = 0 THEN RotationIsLeader(id, view) ELSE id = Master

FindLeaderFor(view) ==
    IF Master = 0 THEN RotationFindLeaderFor(view) ELSE Master

=============================================================================

--------------------------- MODULE MCReplicaLoop ----------------------------
(***************************************************************************)
(* Instances of ReplicaLoop for TLC.                                       *)
(***************************************************************************)
EXTENDS ReplicaLoop

AllKinds == {"block", "vote", "tmo"}
OnlyBlocks == {"block"}

=============================================================================

------------------------------- MODULE Blocks -------------------------------
(***************************************************************************)
(* Blocks, quorum certificates and votes (blockchain/block.go, quorum.go). *)
(*                                                                         *)
(* A block's ID is a hash over its view, its QC, its proposer, the ID of   *)
(* its parent and its payload, so it commits to the whole chain below it.  *)
(* The hash is taken to be injective: a block, and its ID, is the sequence *)
(* of the headers on that chain, and the empty sequence is the zero        *)
(* Identifier that the initial highQC carries.                             *)
(***************************************************************************)
EXTENDS Election, Sequences

\* One header: the fields the hash covers.  "no" stands for the payload: the
\* batches of two proposals of one replica differ, and no is the value of the
\* proposer's proposedNo counter when it made the block.
Header == [view : Nat, qcView : Nat, proposer : Replica, no : Nat]

BlockID == Seq(Header)
ZeroID  == << >>
Block   == BlockID \ {ZeroID}

\* block.View, block.Proposer and block.PrevID.
ViewOf(b)     == b[Len(b)].view
ProposerOf(b) == b[Len(b)].proposer
PrevID(b)     == SubSeq(b, 1, Len(b) - 1)

\* QC: the view and the ID of the certified block.  Leader, Signers and AggSig
\* are left out: signatures of correct replicas always verify.
QC == [view : Nat, id : BlockID]
InitialQC == [view |-> 0, id |-> ZeroID]

\* block.QC: MakeProposal passes qc.BlockID as the parent, so a block's QC
\* certifies its parent.
QCOf(b) == [view |-> b[Len(b)].qcView, id |-> PrevID(b)]

Vote == [view : Nat, voter : Replica, id : BlockID]

\* MakeBlock and MakePBlock.
MakeBlock(view, qc, proposer, no) ==
    Append(qc.id, [view |-> view, qcView |-> qc.view,
                   proposer |-> proposer, no |-> no])

\* MakeVote.
MakeVote(view, voter, id) == [view |-> view, voter |-> voter, id |-> id]

\* b extends a: a is b or one of b's ancestors.  Two blocks that do not extend
\* each other conflict (README, "What is cBFT?").
Extends(b, a) == Len(a) <= Len(b) /\ SubSeq(b, 1, Len(a)) = a
Conflict(a, b) == ~Extends(a, b) /\ ~Extends(b, a)

=============================================================================

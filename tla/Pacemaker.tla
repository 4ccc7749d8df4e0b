------------------------------ MODULE Pacemaker -----------------------------
(***************************************************************************)
(* View synchronisation (pacemaker/pacemaker.go, timeoutController.go).    *)
(* The state of a Pacemaker is a record pm, each method an operator on it. *)
(***************************************************************************)
EXTENDS BlockChain

\* newViews is newViewChan together with the relay of ListenLocalEvent: the
\* views that were entered and that the event loop has not handled yet, in the
\* order in which they were entered.  Views that another replica leads are left
\* out, because processNewView returns at once for them (replica.go:240).
\* timeouts is TimeoutController.timeouts as a set of pairs.
PacemakerState ==
    [curView  : Nat,
     newViews : Seq(Nat),
     timeouts : SUBSET (Nat \X Replica)]

NewPacemaker == [curView |-> 0, newViews |-> << >>, timeouts |-> {}]

\* Mutant: a replica may enter its current view again.
AdvanceViewAgain(pm, r, view) ==
    IF view + 1 < pm.curView
    THEN pm
    ELSE [pm EXCEPT !.curView  = view + 1,
                    !.newViews = IF IsLeader(r, view + 1)
                                 THEN Append(@, view + 1)
                                 ELSE @]

\* AdvanceView, called at replica r: enter view + 1 unless the replica is
\* already past view.
AdvanceView(pm, r, view) ==
    IF view < pm.curView
    THEN pm
    ELSE [pm EXCEPT !.curView  = view + 1,
                    !.newViews = IF IsLeader(r, view + 1)
                                 THEN Append(@, view + 1)
                                 ELSE @]

TimedOut(timeouts, view) == {r \in Replica : <<view, r>> \in timeouts}

\* ProcessRemoteTmo and TimeoutController.AddTmo.
AddTmo(pm, view, node) ==
    IF view < pm.curView \/ SuperMajority(TimedOut(pm.timeouts, view))
    THEN pm
    ELSE [pm EXCEPT !.timeouts = @ \union {<<view, node>>}]

\* isBuilt: this timeout completes the super majority and a TC is returned.
TCIsBuilt(pm, view, node) ==
    /\ view >= pm.curView
    /\ ~SuperMajority(TimedOut(pm.timeouts, view))
    /\ SuperMajority(TimedOut(AddTmo(pm, view, node).timeouts, view))

=============================================================================

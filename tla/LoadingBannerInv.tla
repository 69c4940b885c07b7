-------------------------- MODULE LoadingBannerInv --------------------------
(***************************************************************************)
(* The inductive invariant of LoadingBanner.  Until the join nothing in    *)
(* the program destroys or closes a window, so the removal walk never      *)
(* runs; after it nothing starts a thread again.                           *)
(***************************************************************************)
EXTENDS LoadingBanner, Sequences

WindowUp ==
    /\ win \in [Nodes -> W!Window]
    /\ branches \in [W!Places -> Seq(Nodes)]
    /\ live \subseteq Nodes
    /\ ~changing /\ pc \in {"main", "polling", "handler"}
    /\ \A n \in Nodes : ~win[n].marked /\ ~win[n].closed
    /\ banner # NoNode => banner \in live
    /\ frame \notin {"dispatch", "create"} => branches[Roots] # <<>>

\* What is on screen was published, and the label was read last.
ShownOK ==
    /\ shown.progress <= ProgressOf
    /\ frame # "label" => shown.label >= shown.progress - 1

Inv ==
    /\ TypeOK
    /\ frame = "dispatch" <=> run = "none"
    /\ IF flagLoading THEN WindowUp ELSE run = "ended" /\ ~joinable
    /\ ShownOK
=============================================================================

----------------------------- MODULE MCWidgets ------------------------------
(* Widgets of the same class, and names, are interchangeable.              *)
EXTENDS Widgets, TLC

MCSymmetry == Permutations(Widgets) \cup Permutations(Names)
=============================================================================

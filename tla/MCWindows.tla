----------------------------- MODULE MCWindows -----------------------------
(* Windows on a few addresses.  The addresses are interchangeable, so the   *)
(* safety runs use their symmetry; the runs with temporal formulas do not.  *)
EXTENDS WindowsInv, TLC

Symmetric == Permutations(Nodes)
=============================================================================

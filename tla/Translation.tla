----------------------------- MODULE Translation ------------------------------
(***************************************************************************)
(* What the command line and the translation unit share: the source files  *)
(* of TrInput, and how Compiler::Translate ends (inc/hir/Compeval.hpp).    *)
(***************************************************************************)
EXTENDS Integers, Sequences

CONSTANTS Units,       \* sequences of source files to translate
          NoFile       \* a path at which no file can be read
IsSource(file) == file # NoFile => file \in STRING
ASSUME UnitsAssumption ==
  \A u \in Units : Len(u) \in Nat /\ \A i \in 1 .. Len(u) : IsSource(u[i])

VARIABLES files,       \* input_.src_files: for each the text behind the path
          result       \* "idle", "running", or how Translate ended

Outcomes == {"ok", "failed", "ub", "terminated", "trapped"}
=============================================================================

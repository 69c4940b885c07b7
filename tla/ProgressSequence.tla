-------------------------- MODULE ProgressSequence --------------------------
(***************************************************************************)
(* caf::ProgressSequence: a list of labelled steps that a thread of its    *)
(* own runs in order, publishing after each the progress and the label     *)
(* through two atomics that the user interface reads at any time.          *)
(***************************************************************************)
EXTENDS Integers

CONSTANTS
    Steps,    \* how many steps the sequence was built with
    Full      \* kDone, progress 1.0, in units of the model

ASSUME SequenceAssumption == Steps \in Nat \ {0} /\ Full \in Nat \ {0}

VARIABLES
    progress, label,  \* the atomics; a label is the number of its step, 0 is ""
    prog, lbl,        \* the thread's copies, which the steps write to
    at,               \* the step the thread runs next, or is publishing
    run,              \* what the thread does next
    joinable,         \* the std::thread object owns a thread
    erred             \* history: the first step that reported kError, or 0

seqVars == <<progress, label, prog, lbl, at, run, joinable, erred>>

kError == -1
Clamp(x) == IF x < 0 THEN 0 ELSE IF x > Full THEN Full ELSE x

\* Slip: full progress is not enough.
IsDoneStrict == progress > Full
IsDone == progress >= Full

\* The steps whose results the two atomics hold.
ProgressOf == IF run = "label" THEN at ELSE at - 1
LabelOf == at - 1

SequenceInit ==
    /\ progress = 0 /\ label = 0 /\ prog = 0 /\ lbl = 0
    /\ at = 1 /\ run = "none" /\ joinable = FALSE /\ erred = 0

Dispatch ==
    /\ run = "none"
    /\ run' = "start" /\ joinable' = TRUE
    /\ UNCHANGED <<progress, label, prog, lbl, at, erred>>

\* Run, before its loop: the thread loads both atomics.
Start ==
    /\ run = "start"
    /\ prog' = progress /\ lbl' = label
    /\ run' = "step"
    /\ UNCHANGED <<progress, label, at, joinable, erred>>

\* A step sets its copy of the progress to anything, one unit out of range
\* included, and its label or none.
RunStep ==
    /\ run = "step" /\ at <= Steps
    /\ prog' \in kError..Full + 1
    /\ lbl' \in {lbl, at}
    /\ erred' = IF erred = 0 /\ prog' = kError THEN at ELSE erred
    /\ run' = "progress"
    /\ UNCHANGED <<progress, label, at, joinable>>

\* Slip: what the step left is published as it is.
StoreProgressRaw ==
    /\ run = "progress"
    /\ progress' = prog
    /\ run' = "label"
    /\ UNCHANGED <<label, prog, lbl, at, joinable, erred>>

StoreProgress ==
    /\ run = "progress"
    /\ progress' = Clamp(prog)
    /\ run' = "label"
    /\ UNCHANGED <<label, prog, lbl, at, joinable, erred>>

StoreLabel ==
    /\ run = "label"
    /\ label' = lbl
    /\ at' = at + 1 /\ run' = "step"
    /\ UNCHANGED <<progress, prog, lbl, joinable, erred>>

End ==
    /\ run = "step" /\ at > Steps
    /\ run' = "ended"
    /\ UNCHANGED <<progress, label, prog, lbl, at, joinable, erred>>

\* std::thread::join blocks until the thread has ended.
Join ==
    /\ run = "ended" /\ joinable
    /\ joinable' = FALSE
    /\ UNCHANGED <<progress, label, prog, lbl, at, run, erred>>

Thread == Start \/ RunStep \/ StoreProgress \/ StoreLabel \/ End

SequenceTypeOK ==
    /\ progress \in 0..Full /\ prog \in kError..Full + 1
    /\ label \in 0..Steps /\ lbl \in 0..Steps
    /\ at \in 1..Steps + 1 /\ erred \in 0..Steps
    /\ run \in {"none", "start", "step", "progress", "label", "ended"}
    /\ run \in {"progress", "label"} => at <= Steps
    /\ joinable \in BOOLEAN

\* ProgressSequence.hpp:53, Run: after a step reported kError the sequence exits
\* early, so no later step runs.
ErrorExits == erred # 0 /\ run \in {"progress", "label"} => at = erred
=============================================================================

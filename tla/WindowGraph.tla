---------------------------- MODULE WindowGraph ----------------------------
(***************************************************************************)
(* What caf::sys::Windows promises its users, without lists and walks:     *)
(* a window exists from Create until the removal that follows its Destroy; *)
(* removal happens in one sweep between two rounds of event handling, the  *)
(* sweep takes every doomed window and no other, and nothing disappears at *)
(* any other time.                                                         *)
(***************************************************************************)
CONSTANT Nodes

VARIABLES
    exist,      \* the windows for which Exists holds
    doomed,     \* those that are, or are below, a destroyed window
    sweeping    \* the removal that opens ProcessEvents is under way

vars == <<exist, doomed, sweeping>>

Init == exist = {} /\ doomed = {} /\ sweeping = FALSE

\* A window created below a doomed one shares its fate.
Create(n, below) ==
    /\ n \notin exist
    /\ below => doomed # {}
    /\ exist' = exist \cup {n}
    /\ doomed' = IF below THEN doomed \cup {n} ELSE doomed
    /\ UNCHANGED sweeping

Destroy(S) ==
    /\ ~sweeping /\ S # {}
    /\ doomed' = doomed \cup S
    /\ UNCHANGED <<exist, sweeping>>

StartSweep ==
    /\ ~sweeping /\ doomed # {}
    /\ sweeping' = TRUE
    /\ UNCHANGED <<exist, doomed>>

Free(n) ==
    /\ sweeping /\ n \in doomed
    /\ exist' = exist \ {n} /\ doomed' = doomed \ {n}
    /\ UNCHANGED sweeping

EndSweep ==
    /\ sweeping /\ doomed = {}
    /\ sweeping' = FALSE
    /\ UNCHANGED <<exist, doomed>>

Sweep == StartSweep \/ EndSweep \/ \E n \in Nodes : Free(n)
Next ==
    \/ \E n \in Nodes, below \in BOOLEAN : Create(n, below)
    \/ \E S \in SUBSET exist : Destroy(S)
    \/ Sweep

Spec == Init /\ [][Next]_vars
FairSpec == Spec /\ WF_vars(Sweep)
=============================================================================

--------------------------- MODULE LoadingBanner ---------------------------
(***************************************************************************)
(* The frame loop of caf::demo::ExLoadingBanner: it starts a loading       *)
(* sequence, shows a window with its progress, joins the thread once it is *)
(* done and then destroys the window, which ends the loop.  It composes    *)
(* ProgressSequence, whose thread runs beside it, and Windows, whose calls *)
(* are part of the loop.                                                   *)
(***************************************************************************)
EXTENDS ProgressSequence

CONSTANTS Nodes, Roots, NoNode, MaxEvents, ClientOps, CallbackOps

VARIABLES
    branches, win, live, changing, dirty, pc, stack, removed,  \* of Windows
    frame,         \* where the main thread is
    banner,        \* the window pointer that Create returned
    flagLoading,   \* flag_loading
    shown          \* history: the steps whose progress and label are on screen

W == INSTANCE Windows

ASSUME BannerAssumption == W!WindowsAssumption

windowVars == <<branches, win, live, changing, dirty, pc, stack, removed>>
ownVars == <<frame, banner, flagLoading, shown>>
vars == <<seqVars, windowVars, ownVars>>

Init ==
    /\ SequenceInit /\ W!Init
    /\ frame = "dispatch" /\ banner = NoNode
    /\ flagLoading = TRUE
    /\ shown = [progress |-> 0, label |-> 0]

GoTo(place) == frame' = place

\* Leaving the function destroys the std::thread: joinable, that terminates.
Leave == GoTo(IF joinable THEN "terminated" ELSE "returned")

StartLoading ==
    /\ frame = "dispatch"
    /\ Dispatch
    /\ GoTo("create")
    /\ UNCHANGED <<windowVars, banner, flagLoading, shown>>

CreateBanner ==
    /\ frame = "create"
    /\ W!Create(Roots)
    /\ banner' \in live' \ live
    /\ GoTo("init")
    /\ UNCHANGED <<seqVars, flagLoading, shown>>

\* imgui::Init succeeds, or the function returns at once.
InitImgui ==
    /\ frame = "init"
    /\ GoTo("top") \/ Leave
    /\ UNCHANGED <<seqVars, windowVars, banner, flagLoading, shown>>

\* Slip: full progress is taken for the join.
TopImpatient ==
    /\ frame = "top"
    /\ IF branches[Roots] = <<>>
       THEN Leave /\ UNCHANGED windowVars
       ELSE /\ IF IsDone THEN W!Destroy(banner) ELSE UNCHANGED windowVars
            /\ GoTo("process")
    /\ UNCHANGED <<seqVars, banner, flagLoading, shown>>

\* The loop's condition, and the destruction of the banner after the join.
LoopTop ==
    /\ frame = "top"
    /\ IF branches[Roots] = <<>>
       THEN Leave /\ UNCHANGED windowVars
       ELSE /\ IF flagLoading THEN UNCHANGED windowVars ELSE W!Destroy(banner)
            /\ GoTo("process")
    /\ UNCHANGED <<seqVars, banner, flagLoading, shown>>

CallProcessEvents ==
    /\ frame = "process"
    /\ W!ProcessEvents
    /\ GoTo("events")
    /\ UNCHANGED <<seqVars, banner, flagLoading, shown>>

\* The pass runs to its end.  The banner's handler and its deallocation
\* callback talk to Dear ImGui only.
InProcessEvents ==
    /\ frame = "events"
    /\ W!Removal \/ W!Polling
    /\ GoTo(IF pc' = "main" THEN "join" ELSE "events")
    /\ UNCHANGED <<seqVars, banner, flagLoading, shown>>

\* Slip: the thread is done, so it need not be joined.
FlagWithoutJoin ==
    /\ frame = "join"
    /\ flagLoading' = (flagLoading /\ ~IsDone)
    /\ GoTo("show")
    /\ UNCHANGED <<seqVars, windowVars, banner, shown>>

\* joinable() && IsDone(): if so join() follows, else the frame goes on.
TestDone ==
    /\ frame = "join"
    /\ GoTo(IF flagLoading /\ joinable /\ IsDone THEN "joining" ELSE "show")
    /\ UNCHANGED <<seqVars, windowVars, banner, flagLoading, shown>>

JoinLoading ==
    /\ frame = "joining"
    /\ Join
    /\ flagLoading' = FALSE
    /\ GoTo("show")
    /\ UNCHANGED <<windowVars, banner, shown>>

\* The progress bar reads one atomic, the text below it, later, the other.
ShowProgress ==
    /\ frame = "show"
    /\ IF W!IsAvailable(banner)
       THEN GoTo("label") /\ shown' = [shown EXCEPT !.progress = ProgressOf]
       ELSE GoTo("top") /\ UNCHANGED shown
    /\ UNCHANGED <<seqVars, windowVars, banner, flagLoading>>

\* Slip: the label is cached by the first frame that has one.
ShowLabelOnce ==
    /\ frame = "label"
    /\ shown' = IF shown.label = 0 THEN [shown EXCEPT !.label = LabelOf] ELSE shown
    /\ GoTo("top")
    /\ UNCHANGED <<seqVars, windowVars, banner, flagLoading>>

ShowLabel ==
    /\ frame = "label"
    /\ shown' = [shown EXCEPT !.label = LabelOf]
    /\ GoTo("top")
    /\ UNCHANGED <<seqVars, windowVars, banner, flagLoading>>

ThreadStep == Thread /\ UNCHANGED <<windowVars, ownVars>>
EventArrives == W!Arrive(banner) /\ UNCHANGED <<seqVars, ownVars>>

MainStep ==
    \/ StartLoading \/ CreateBanner \/ InitImgui
    \/ LoopTop \/ CallProcessEvents \/ InProcessEvents
    \/ TestDone \/ JoinLoading
    \/ ShowProgress \/ ShowLabel

Stopped == frame \in {"returned", "terminated"}
Done == Stopped /\ UNCHANGED vars

Next == MainStep \/ ThreadStep \/ EventArrives \/ Done

\* The system schedules both threads, and the steps return.
Spec == Init /\ [][Next]_vars
FairSpec == Spec /\ WF_vars(MainStep) /\ WF_vars(ThreadStep)

-----------------------------------------------------------------------------
TypeOK ==
    /\ SequenceTypeOK
    /\ frame \in {"dispatch", "create", "init", "top", "process", "events", "join",
                  "joining", "show", "label", "returned", "terminated"}
    /\ banner \in Nodes \cup {NoNode}
    /\ flagLoading \in BOOLEAN
    /\ shown \in [progress : 0..Steps, label : 0..Steps]

\* The banner is up until every step has been executed and the thread joined,
\* although IsDone may hold long before and does not check it.
BannerOutlivesLoading ==
    banner # NoNode /\ ~W!IsAvailable(banner) => run = "ended" /\ ~joinable

\* Once the loop is entered the function is never left with a thread that is
\* still joinable, which would terminate the program.
LoopJoinsFirst == [][frame = "top" => frame' # "terminated"]_vars

\* Progress and label are published and read one after the other: a frame may
\* show a label older than its progress, by one step and no more.
LabelCloseBehind == frame = "top" => shown.label >= shown.progress - 1

\* If the loop runs and the sequence ends with progress 1, the banner is taken
\* down and the function returns.
LoadingEnds ==
    frame = "top" /\ run = "ended" /\ progress = Full ~> frame = "returned"
=============================================================================

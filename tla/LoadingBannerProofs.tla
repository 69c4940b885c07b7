------------------------ MODULE LoadingBannerProofs ------------------------
(***************************************************************************)
(* Proofs about the loading banner: for any number of steps, any results   *)
(* of the steps and any interleaving of the thread with the frame loop.    *)
(***************************************************************************)
EXTENDS LoadingBannerInv, TLAPS

LEMMA InitInv == Init => Inv
<1> SUFFICES ASSUME Init PROVE Inv
  OBVIOUS
<1> USE SequenceAssumption
<1>1. TypeOK
  <2>1. -1 \in -1..Full + 1 /\ 0 \in -1..Full + 1 /\ 0 \in 0..Full /\ 0 \in 0..Steps
        /\ 1 \in 1..Steps + 1
    OBVIOUS
  <2>2. SequenceTypeOK
    BY <2>1 DEF Init, SequenceInit, SequenceTypeOK, kError
  <2>3. shown \in [progress : 0..Steps, label : 0..Steps]
    BY <2>1 DEF Init
  <2>4. QED
    BY <2>2, <2>3 DEF Init, TypeOK
<1>2. W!NewWindow \in W!Window /\ ~W!NewWindow.marked /\ ~W!NewWindow.closed
  BY BannerAssumption DEF W!NewWindow, W!Window, W!WindowsAssumption
<1>3. branches \in [W!Places -> Seq(Nodes)]
  BY DEF Init, W!Init
<1>4. WindowUp
  BY <1>2, <1>3 DEF Init, W!Init, WindowUp
<1>5. ShownOK
  BY DEF Init, SequenceInit, ShownOK, ProgressOf
<1>6. QED
  BY <1>1, <1>4, <1>5 DEF Init, SequenceInit, Inv

\* An event queued or taken changes the queue of one window and nothing else.
LEMMA QueueOnly ==
  ASSUME NEW w \in [Nodes -> W!Window], NEW n \in Nodes, NEW q \in 0..MaxEvents
  PROVE  LET x == [w EXCEPT ![n].queue = q]
         IN  /\ x \in [Nodes -> W!Window]
             /\ \A m \in Nodes : x[m].marked = w[m].marked /\ x[m].closed = w[m].closed
<1> DEFINE r == [w[n] EXCEPT !.queue = q]
<1>1. r \in W!Window /\ r.marked = w[n].marked /\ r.closed = w[n].closed
  BY DEF W!Window
<1>2. [w EXCEPT ![n].queue = q] = [w EXCEPT ![n] = r]
  OBVIOUS
<1> HIDE DEF r
<1>3. QED
  BY <1>1, <1>2

(* The thread.                                                              *)

LEMMA ThreadInv == Inv /\ ThreadStep => Inv'
<1> SUFFICES ASSUME Inv, ThreadStep PROVE Inv'
  OBVIOUS
<1> USE SequenceAssumption
<1>1. /\ UNCHANGED <<windowVars, ownVars>> /\ Thread
      /\ TypeOK /\ SequenceTypeOK
  BY DEF ThreadStep, Inv, TypeOK
<1>2. UNCHANGED <<branches, win, live, changing, dirty, pc, stack, removed,
                  frame, banner, flagLoading, shown>>
  BY <1>1 DEF windowVars, ownVars
<1>3. UNCHANGED <<joinable>> /\ run # "none" /\ run' # "none" /\ run # "ended"
  BY <1>1 DEF Thread, Start, RunStep, StoreProgress, StoreLabel, End
<1>4. SequenceTypeOK' /\ ProgressOf' \in {ProgressOf, ProgressOf + 1}
  BY <1>1 DEF SequenceTypeOK, Thread, Start, RunStep, StoreProgress, StoreLabel, End,
     ProgressOf, kError, Clamp
<1>5. TypeOK'
  BY <1>1, <1>2, <1>4 DEF TypeOK
<1>6. WindowUp'
  BY <1>2, <1>3 DEF Inv, WindowUp
<1>7. ShownOK'
  <2>1. ProgressOf \in Int /\ shown.progress \in Int /\ shown.progress <= ProgressOf
    BY <1>1 DEF TypeOK, SequenceTypeOK, ProgressOf, Inv, ShownOK
  <2>2. shown.progress <= ProgressOf'
    BY <1>4, <2>1
  <2>3. QED
    BY <1>2, <2>2 DEF Inv, ShownOK
<1>8. QED
  BY <1>2, <1>3, <1>5, <1>6, <1>7 DEF Inv

(* Steps that leave the sequence alone.                                     *)

LEMMA EventInv == Inv /\ EventArrives => Inv'
<1> SUFFICES ASSUME Inv, EventArrives PROVE Inv'
  OBVIOUS
<1>1. /\ UNCHANGED <<progress, label, prog, lbl, at, run, joinable, erred>>
      /\ UNCHANGED <<frame, banner, flagLoading, shown>>
      /\ UNCHANGED <<branches, live, changing, dirty, pc, stack, removed>>
      /\ win' = [win EXCEPT ![banner].queue = @ + 1] /\ win[banner].queue < MaxEvents
  BY DEF EventArrives, seqVars, ownVars, W!Arrive, W!flags, W!control
<1>2. TypeOK' /\ ShownOK'
  BY <1>1 DEF Inv, TypeOK, SequenceTypeOK, ShownOK, ProgressOf
<1>3. ASSUME WindowUp PROVE WindowUp'
  <2>1. /\ win' \in [Nodes -> W!Window]
        /\ \A n \in Nodes : win'[n].marked = win[n].marked /\ win'[n].closed = win[n].closed
    <3>1. banner \in Nodes /\ MaxEvents \in Nat /\ win[banner].queue \in 0..MaxEvents
      <4>1. banner \in W!Places /\ banner # Roots
        BY DEF EventArrives, W!Arrive, W!Allocated, W!Subtree, W!SubtreeOf
      <4>2. banner \in Nodes
        BY <4>1 DEF W!Places
      <4>3. QED
        BY <1>3, <4>2, BannerAssumption DEF WindowUp, W!Window, W!WindowsAssumption
    <3>2. win[banner].queue + 1 \in 0..MaxEvents
      BY <1>1, <3>1
    <3>3. QED
      BY <1>1, <1>3, <3>1, <3>2, QueueOnly DEF WindowUp
  <2>2. QED
    BY <1>1, <1>3, <2>1 DEF WindowUp
<1>4. QED
  BY <1>1, <1>2, <1>3 DEF Inv

LEMMA StartInv == Inv /\ StartLoading => Inv'
<1> SUFFICES ASSUME Inv, StartLoading PROVE Inv'
  OBVIOUS
<1>1. /\ frame = "dispatch" /\ frame' = "create" /\ run' = "start" /\ joinable' = TRUE
      /\ run = "none"
      /\ UNCHANGED <<progress, label, prog, lbl, at, erred, banner, flagLoading, shown>>
      /\ UNCHANGED <<branches, win, live, changing, dirty, pc, stack, removed>>
  BY DEF StartLoading, Dispatch, GoTo, windowVars
<1>2. flagLoading /\ WindowUp /\ WindowUp'
  BY <1>1 DEF Inv, WindowUp
<1>3. TypeOK' /\ ShownOK'
  BY <1>1 DEF Inv, TypeOK, SequenceTypeOK, ShownOK, ProgressOf
<1>4. QED
  BY <1>1, <1>2, <1>3 DEF Inv

LEMMA CreateInv == Inv /\ CreateBanner => Inv'
<1> SUFFICES ASSUME Inv, CreateBanner PROVE Inv'
  OBVIOUS
<1>1. /\ frame = "create" /\ frame' = "init" /\ banner' \in live' \ live
      /\ UNCHANGED <<progress, label, prog, lbl, at, run, joinable, erred>>
      /\ UNCHANGED <<flagLoading, shown, changing, dirty, pc, stack, removed>>
  BY DEF CreateBanner, GoTo, seqVars, W!Create, W!flags, W!control
<1>2. PICK n \in Nodes \ W!Allocated :
         /\ branches' = [branches EXCEPT ![Roots] = Append(@, n), ![n] = <<>>]
         /\ win' = [win EXCEPT ![n] = W!NewWindow]
         /\ live' = live \cup {n}
  BY DEF CreateBanner, W!Create
<1>3. banner' = n
  BY <1>1, <1>2
<1>4. TypeOK' /\ ShownOK'
  BY <1>1, <1>3 DEF Inv, TypeOK, SequenceTypeOK, ShownOK, ProgressOf
<1>5. ASSUME WindowUp PROVE WindowUp'
  <2>1. W!NewWindow \in W!Window /\ ~W!NewWindow.marked /\ ~W!NewWindow.closed
    BY BannerAssumption DEF W!NewWindow, W!Window, W!WindowsAssumption
  <2>2. win' \in [Nodes -> W!Window] /\ \A m \in Nodes : ~win'[m].marked /\ ~win'[m].closed
    BY <1>2, <1>5, <2>1 DEF WindowUp
  <2>3. Roots \in W!Places /\ n # Roots /\ branches \in [W!Places -> Seq(Nodes)]
    BY <1>5, BannerAssumption DEF WindowUp, W!Places, W!WindowsAssumption
  <2>4. branches[Roots] \in Seq(Nodes)
    BY <2>3
  <2>5. Append(branches[Roots], n) \in Seq(Nodes) /\ Append(branches[Roots], n) # <<>>
    BY <2>4
  <2>6. branches' \in [W!Places -> Seq(Nodes)] /\ branches'[Roots] # <<>>
    <3>1. branches' = [[branches EXCEPT ![Roots] = Append(branches[Roots], n)] EXCEPT ![n] = <<>>]
      BY <1>2
    <3>2. <<>> \in Seq(Nodes)
      OBVIOUS
    <3>3. QED
      BY <2>3, <2>5, <3>1, <3>2
  <2>7. QED
    BY <1>1, <1>2, <1>3, <1>5, <2>2, <2>6 DEF WindowUp
<1>6. QED
  BY <1>1, <1>4, <1>5 DEF Inv

(* The frame loop: what each place does to the windows.                     *)

\* Places of the frame loop between which only shown, frame and the thread
\* handle change.
LEMMA QuietInv == Inv /\ (InitImgui \/ TestDone \/ ShowProgress \/ ShowLabel) => Inv'
<1> SUFFICES ASSUME Inv, InitImgui \/ TestDone \/ ShowProgress \/ ShowLabel PROVE Inv'
  OBVIOUS
<1>1. /\ UNCHANGED <<progress, label, prog, lbl, at, run, joinable, erred>>
      /\ UNCHANGED <<branches, win, live, changing, dirty, pc, stack, removed>>
      /\ UNCHANGED <<banner, flagLoading>>
      /\ frame \notin {"dispatch", "create"} /\ frame' \notin {"dispatch", "create"}
      /\ frame' \in {"top", "returned", "terminated", "joining", "show", "label"}
  BY DEF InitImgui, TestDone, ShowProgress, ShowLabel, seqVars, windowVars, GoTo, Leave
<1>2. TypeOK /\ SequenceTypeOK /\ SequenceTypeOK' /\ shown.progress <= ProgressOf
  BY <1>1 DEF Inv, TypeOK, SequenceTypeOK, ShownOK
<1>3. /\ ProgressOf' = ProgressOf /\ ProgressOf \in 0..Steps /\ LabelOf \in 0..Steps
      /\ LabelOf >= ProgressOf - 1
  BY <1>1, <1>2, SequenceAssumption DEF SequenceTypeOK, ProgressOf, LabelOf
<1>4. /\ shown' \in [progress : 0..Steps, label : 0..Steps]
      /\ shown'.progress <= ProgressOf
      /\ frame' # "label" => shown'.label >= shown'.progress - 1
  <2>1. CASE UNCHANGED shown /\ frame # "label"
    BY <2>1, <1>2 DEF Inv, ShownOK, TypeOK
  <2>2. CASE shown' = [shown EXCEPT !.progress = ProgressOf] /\ frame' = "label"
    BY <2>2, <1>2, <1>3 DEF TypeOK
  <2>3. CASE shown' = [shown EXCEPT !.label = LabelOf]
    <3>1. shown.progress \in Int /\ shown'.progress = shown.progress /\ shown'.label = LabelOf
      BY <2>3, <1>2 DEF TypeOK
    <3>2. shown' \in [progress : 0..Steps, label : 0..Steps]
      BY <2>3, <1>2, <1>3 DEF TypeOK
    <3>3. QED
      BY <1>2, <1>3, <3>1, <3>2
  <2>4. QED
    BY <2>1, <2>2, <2>3 DEF InitImgui, TestDone, ShowProgress, ShowLabel, GoTo
<1>5. TypeOK' /\ ShownOK'
  BY <1>1, <1>2, <1>3, <1>4 DEF TypeOK, ShownOK
<1>6. WindowUp => WindowUp'
  BY <1>1 DEF WindowUp
<1>7. QED
  BY <1>1, <1>5, <1>6 DEF Inv

LEMMA JoinInv == Inv /\ JoinLoading => Inv'
<1> SUFFICES ASSUME Inv, JoinLoading PROVE Inv'
  OBVIOUS
<1>1. /\ frame = "joining" /\ frame' = "show" /\ run = "ended" /\ joinable' = FALSE
      /\ flagLoading' = FALSE
      /\ UNCHANGED <<progress, label, prog, lbl, at, run, erred, banner, shown>>
  BY DEF JoinLoading, Join, GoTo
<1>2. TypeOK' /\ ShownOK'
  BY <1>1 DEF Inv, TypeOK, SequenceTypeOK, ShownOK, ProgressOf
<1>3. QED
  BY <1>1, <1>2 DEF Inv

\* While the flag is up neither Destroy nor the removal walk is possible.
LEMMA FrameInv == Inv /\ (LoopTop \/ CallProcessEvents \/ InProcessEvents) => Inv'
<1> SUFFICES ASSUME Inv, LoopTop \/ CallProcessEvents \/ InProcessEvents PROVE Inv'
  OBVIOUS
<1>1. /\ UNCHANGED <<progress, label, prog, lbl, at, run, joinable, erred>>
      /\ UNCHANGED <<banner, flagLoading, shown>>
      /\ frame \in {"top", "process", "events"}
      /\ frame' \in {"process", "events", "join", "returned", "terminated"}
  BY DEF LoopTop, CallProcessEvents, InProcessEvents, seqVars, GoTo, Leave
<1>2. TypeOK' /\ ShownOK'
  BY <1>1 DEF Inv, TypeOK, SequenceTypeOK, ShownOK, ProgressOf
<1>3. ASSUME flagLoading, WindowUp PROVE WindowUp'
  <2>1. CASE LoopTop
    <3>1. UNCHANGED <<branches, win, live, changing, dirty, pc, stack, removed>>
      BY <1>3, <2>1 DEF LoopTop, windowVars
    <3>2. QED
      BY <1>1, <1>3, <3>1 DEF WindowUp
  <2>2. CASE CallProcessEvents
    <3>1. /\ pc' = "polling" /\ changing' = changing
          /\ UNCHANGED <<branches, win, live>>
      BY <1>3, <2>2 DEF CallProcessEvents, W!ProcessEvents, WindowUp, W!graph
    <3>2. QED
      BY <1>1, <1>3, <3>1 DEF WindowUp
  <2>3. CASE InProcessEvents
    <3>1. W!Polling
      BY <1>3, <2>3 DEF InProcessEvents, WindowUp, W!Removal, W!ApplyNext, W!ApplyDone,
         W!RemoveNext, W!RunDealloc, W!DeallocReturns
    <3>2. /\ UNCHANGED <<branches, live, changing>> /\ pc' \in {"main", "polling", "handler"}
          /\ \/ UNCHANGED win
             \/ W!HasEvent(W!Top.node) /\ W!TakeEvent(W!Top.node)
      <4>1. CASE W!HandleEvent
        BY <4>1 DEF W!HandleEvent, W!flags
      <4>2. CASE W!PollNext \/ W!PollReturns \/ W!HandlerReturns \/ W!Drained
        BY <1>3, <4>2 DEF W!PollNext, W!PollReturns, W!HandlerReturns, W!Drained, W!flags,
           W!graph, WindowUp
      <4>3. QED
        BY <3>1, <4>1, <4>2 DEF W!Polling
    <3>3. /\ win' \in [Nodes -> W!Window]
          /\ \A n \in Nodes : win'[n].marked = win[n].marked /\ win'[n].closed = win[n].closed
      <4>1. CASE UNCHANGED win
        BY <1>3, <4>1 DEF WindowUp
      <4>2. CASE W!HasEvent(W!Top.node) /\ W!TakeEvent(W!Top.node)
        <5>1. CASE W!Top.node \in Nodes
          <6>1. win[W!Top.node].queue \in 0..MaxEvents /\ MaxEvents \in Nat
            BY <1>3, <5>1, BannerAssumption DEF WindowUp, W!Window, W!WindowsAssumption
          <6>2. win[W!Top.node].queue - 1 \in 0..MaxEvents
            BY <4>2, <6>1 DEF W!HasEvent
          <6>3. QED
            BY <1>3, <4>2, <5>1, <6>2, QueueOnly DEF WindowUp, W!TakeEvent
        <5>2. CASE W!Top.node \notin Nodes
          <6>1. win' = win
            BY <1>3, <4>2, <5>2 DEF WindowUp, W!TakeEvent
          <6>2. QED
            BY <1>3, <6>1 DEF WindowUp
        <5>3. QED
          BY <5>1, <5>2
      <4>3. QED
        BY <3>2, <4>1, <4>2
    <3>4. QED
      BY <1>1, <1>3, <3>2, <3>3 DEF WindowUp
  <2>4. QED
    BY <2>1, <2>2, <2>3
<1>4. QED
  BY <1>1, <1>2, <1>3 DEF Inv

LEMMA StepInv == Inv /\ [Next]_vars => Inv'
<1> SUFFICES ASSUME Inv, [Next]_vars PROVE Inv'
  OBVIOUS
<1>1. CASE MainStep
  BY <1>1, StartInv, CreateInv, QuietInv, JoinInv, FrameInv DEF MainStep
<1>2. CASE ThreadStep
  BY <1>2, ThreadInv
<1>3. CASE EventArrives
  BY <1>3, EventInv
<1>4. CASE UNCHANGED vars
  <2>1. /\ UNCHANGED <<progress, label, prog, lbl, at, run, joinable, erred>>
        /\ UNCHANGED <<branches, win, live, changing, dirty, pc, stack, removed>>
        /\ UNCHANGED <<frame, banner, flagLoading, shown>>
    BY <1>4 DEF vars, seqVars, windowVars, ownVars
  <2>2. QED
    BY <2>1 DEF Inv, TypeOK, SequenceTypeOK, WindowUp, ShownOK, ProgressOf
<1>5. QED
  BY <1>1, <1>2, <1>3, <1>4 DEF Next, Done

\* Until the join the banner stays up whatever its events and the thread do,
\* and from the join on the thread has ended.
THEOREM BannerInvariant == Spec => []Inv
  BY InitInv, StepInv, PTL DEF Spec

\* Progress stays within its bounds although steps report anything.
THEOREM BannerTypes == Spec => []TypeOK
<1>1. Inv => TypeOK
  BY DEF Inv
<1>2. QED
  BY BannerInvariant, <1>1, PTL

\* The window is not taken down before every step ran and the thread is joined.
THEOREM BannerStaysUp == Spec => []BannerOutlivesLoading
<1>1. Inv => BannerOutlivesLoading
  BY DEF Inv, WindowUp, BannerOutlivesLoading, W!IsAvailable, W!Exists
<1>2. QED
  BY BannerInvariant, <1>1, PTL

\* However the thread's two stores and the frame's two reads interleave, the
\* label on screen is at most one step older than the progress.
THEOREM LabelNeverFarBehind == Spec => []LabelCloseBehind
<1>1. Inv => LabelCloseBehind
  BY DEF Inv, ShownOK, LabelCloseBehind
<1>2. QED
  BY BannerInvariant, <1>1, PTL

\* The loop is never left with a joinable thread.
THEOREM LoopJoins == Spec => LoopJoinsFirst
<1>1. Inv /\ [Next]_vars => [frame = "top" => frame' # "terminated"]_vars
  <2> SUFFICES ASSUME Inv, Next, frame = "top" PROVE frame' # "terminated"
    OBVIOUS
  <2>1. CASE LoopTop
    <3>1. branches[Roots] = <<>> => ~flagLoading
      BY DEF Inv, WindowUp
    <3>2. QED
      BY <2>1, <3>1 DEF Inv, LoopTop, Leave, GoTo
  <2>2. CASE ThreadStep \/ EventArrives
    BY <2>2 DEF ThreadStep, EventArrives, ownVars
  <2>3. QED
    BY <2>1, <2>2 DEF Next, MainStep, StartLoading, CreateBanner, InitImgui,
       CallProcessEvents, InProcessEvents, TestDone, JoinLoading, ShowProgress, ShowLabel,
       Done, Stopped
<1>2. QED
  BY BannerInvariant, <1>1, PTL DEF Spec, LoopJoinsFirst
=============================================================================

------------------------------ MODULE Windows ------------------------------
(***************************************************************************)
(* The static windowing system of the CAF framework (caf::sys::Windows): a *)
(* forest of window nodes, two-phase destruction, and the event pass that  *)
(* first frees what was marked and then polls every window.                *)
(*                                                                         *)
(* The library is single threaded, but user code runs inside it: event     *)
(* handlers during the polling walk, deallocation callbacks during the     *)
(* removal walk, and the application's main loop between two passes.  The  *)
(* walks keep list iterators on the C++ stack; here they are the frames of *)
(* "stack" (innermost first), so what user code does to the graph while a  *)
(* walk is suspended is visible.  last_window_, curr_window_ and curr_event_ *)
(* are only handed out to the application and are left out.                *)
(***************************************************************************)
EXTENDS Naturals, Sequences, FiniteSets

CONSTANTS
    Nodes,        \* addresses at which a window node may be allocated
    Roots,        \* stands for windows_, the list of detached windows
    NoNode,       \* nullptr
    MaxEvents,    \* bound on the events the OS queues for one window
    ClientOps,    \* operations the application calls from its loop and handlers
    CallbackOps   \* operations it calls from a deallocation callback

ASSUME WindowsAssumption ==
    /\ Roots \notin Nodes /\ NoNode \notin Nodes
    /\ MaxEvents \in Nat
    /\ IsFiniteSet(Nodes)

VARIABLES
    branches,     \* node_base_branches__ of every node, and windows_ at Roots
    win,          \* the other members of every node
    live,         \* live_windows_
    changing,     \* graph_changing_
    dirty,        \* graph_dirty_
    pc,           \* whose code is running
    stack,        \* frames of the walk in progress, innermost first
    removed       \* history: the last pass freed a window

vars == <<branches, win, live, changing, dirty, pc, stack, removed>>
graph == <<branches, win, live>>
flags == <<changing, dirty>>
control == <<pc, stack, removed>>

Places == Nodes \cup {Roots}
Lists == UNION {[1..k -> Nodes] : k \in 0..Cardinality(Nodes)}
Elements(s) == {s[i] : i \in DOMAIN s}

Window == [marked : BOOLEAN, closed : BOOLEAN, frozen : BOOLEAN,
           freezer : Nodes \cup {NoNode}, freezerFreed : BOOLEAN,
           frozenEvent : {"temporary", "default", "ignore", "client"},
           queue : 0..MaxEvents, deallocs : 0..2]

Frame == [walk : {"apply", "remove", "branches", "drain", "frozen"},
          node : Places, at : Nat]

\* A node as its constructor leaves it.  The default frozen event captured the
\* address of the temporary that Create moved into the list, not the node's.
\* freezerFreed and deallocs are history: the freezer was freed since Freeze
\* stored it, and how often the deallocation callback ran.
NewWindow ==
    [marked |-> FALSE, closed |-> FALSE, frozen |-> FALSE,
     freezer |-> NoNode, freezerFreed |-> FALSE,
     frozenEvent |-> "temporary", queue |-> 0, deallocs |-> 0]

\* apply(): the node and everything below it, the least set that holds n and
\* is closed under the branches b.
ClosedSets(b, n) ==
    {S \in SUBSET Places : n \in S /\ \A x \in S : Elements(b[x]) \subseteq S}
SubtreeOf(b, n) ==
    LET sets == ClosedSets(b, n)
    IN  {m \in Places : \A S \in sets : m \in S}
Subtree(n) == SubtreeOf(branches, n)

\* The nodes whose memory is owned by some list of the graph.
Allocated == Subtree(Roots) \ {Roots}

Exists(n) == n \in live
IsAvailable(n) == Exists(n) /\ ~win[n].marked /\ ~win[n].closed
IsGraphDirty == changing \/ dirty

\* The members of every node once the nodes of "gone" are freed.
FreedFrom(w, gone) ==
    [n \in Nodes |->
        IF n \in gone THEN NewWindow
        ELSE IF w[n].freezer \in gone THEN [w[n] EXCEPT !.freezerFreed = TRUE]
        ELSE w[n]]

\* t is list s after std::list::remove_if took the members of "gone" out.
IsRemainder(t, s, gone) ==
    /\ Elements(t) = Elements(s) \ gone
    /\ \A i, j \in DOMAIN t : i < j =>
         \E k, l \in DOMAIN s : k < l /\ s[k] = t[i] /\ s[l] = t[j]

-----------------------------------------------------------------------------
(* User code.  It runs between two passes, in event handlers and, with its  *)
(* own set of operations, in deallocation callbacks.  It only passes        *)
(* pointers for which Exists holds.                                         *)

Calls(op) ==
    \/ pc \in {"main", "handler"} /\ op \in ClientOps
    \/ pc = "callback" /\ op \in CallbackOps

Usable == live \cap Allocated

Create(parent) ==
    /\ Calls(IF parent = Roots THEN "Create" ELSE "CreateSub")
    /\ \E n \in Nodes \ Allocated :
         /\ branches' = [branches EXCEPT ![parent] = Append(@, n), ![n] = <<>>]
         /\ win' = [win EXCEPT ![n] = NewWindow]
         /\ live' = live \cup {n}
    /\ UNCHANGED <<flags, control>>

\* Slips: what the code would do with a plausible mistake, to test that the
\* properties can fail.  Here: the window is freed at once.
DestroyAtOnce(node) ==
    /\ Calls("Destroy")
    /\ branches' = [n \in Places |->
                      IF n \in Subtree(node) THEN <<>>
                      ELSE SelectSeq(branches[n], LAMBDA c : c # node)]
    /\ win' = FreedFrom(win, Subtree(node))
    /\ live' = live \ Subtree(node)
    /\ UNCHANGED <<flags, control>>

\* Slip: the removal walk is not announced.
DestroyUnannounced(node) ==
    /\ Calls("Destroy")
    /\ win' = [n \in Nodes |->
                 [win[n] EXCEPT !.marked = @ \/ n \in Subtree(node)]]
    /\ UNCHANGED <<branches, live, flags, control>>

Destroy(node) ==
    /\ Calls("Destroy")
    /\ win' = [n \in Nodes |->
                 [win[n] EXCEPT !.marked = @ \/ n \in Subtree(node)]]
    /\ changing' = TRUE
    /\ UNCHANGED <<branches, live, dirty, control>>

\* Slip: the default frozen event is not bound again.
FreezeUnbound(node, freezer) ==
    /\ Calls("Freeze")
    /\ win' = [win EXCEPT ![node] = [@ EXCEPT !.frozen = TRUE, !.freezer = freezer]]
    /\ UNCHANGED <<branches, live, flags, control>>

Freeze(node, freezer) ==
    /\ Calls("Freeze")
    /\ win' = [win EXCEPT ![node] = [@ EXCEPT !.frozen = TRUE,
                 !.freezer = freezer, !.freezerFreed = FALSE,
                 !.frozenEvent = "default"]]
    /\ UNCHANGED <<branches, live, flags, control>>

\* Freeze(false, freezer): an unfrozen window may keep a freezer.
Unfreeze(node, freezer) ==
    /\ Calls("Freeze")
    /\ win' = [win EXCEPT ![node] = [@ EXCEPT !.frozen = FALSE,
                 !.freezer = freezer, !.freezerFreed = FALSE,
                 !.frozenEvent = "ignore"]]
    /\ UNCHANGED <<branches, live, flags, control>>

SetFrozenEvent(node) ==
    /\ Calls("SetFrozenEvent")
    /\ win' = [win EXCEPT ![node].frozenEvent = "client"]
    /\ UNCHANGED <<branches, live, flags, control>>

Close(node) ==
    /\ Calls("Close")
    /\ win' = [win EXCEPT ![node].closed = TRUE]
    /\ UNCHANGED <<branches, live, flags, control>>

UserStep ==
    \/ \E parent \in Usable \cup {Roots} : Create(parent)
    \/ \E node \in Usable : Destroy(node)
    \/ \E node \in Usable, freezer \in Usable \cup {NoNode} :
          Freeze(node, freezer) \/ Unfreeze(node, freezer)
    \/ \E node \in Usable : SetFrozenEvent(node)
    \/ \E node \in Usable : Close(node)

\* The OS queues an event.  Events that arrive during a pass are seen by it or
\* by the next one; queueing them all before the pass gives the same choices.
Arrive(n) ==
    /\ pc = "main" /\ n \in Allocated /\ ~win[n].closed
    /\ win[n].queue < MaxEvents
    /\ win' = [win EXCEPT ![n].queue = @ + 1]
    /\ UNCHANGED <<branches, live, flags, control>>

-----------------------------------------------------------------------------
(* Frames.  A forward loop counts in "at" the children it is done with.  A  *)
(* reverse loop keeps there the base of its reverse iterator: 0 is end(),   *)
(* k is the k-th child, and the element is the one before the base.         *)

Top == stack[1]
Children == branches[Top.node]
NewFrame(walk, node) == [walk |-> walk, node |-> node, at |-> 0]

\* The position of the child that a loop turns to next, or is suspended at.
Item(f) ==
    IF f.walk # "remove" THEN f.at + 1
    ELSE IF f.at = 0 THEN Len(branches[f.node])
    ELSE f.at - 1

\* A call for the next child, and the return that moves the caller's loop on.
CallNext(walk) == stack' = <<NewFrame(walk, Children[Item(Top)])>> \o stack
Advance(f) == [f EXCEPT !.at = Item(f)]
Return == stack' = <<Advance(stack[2])>> \o Tail(Tail(stack))

\* Slip: the reverse loop stops one short.
ReverseDoneEarly(f) == IF f.at = 0 THEN branches[f.node] = <<>> ELSE f.at <= 2
ForwardDone(f) == f.at >= Len(branches[f.node])
ReverseDone(f) == IF f.at = 0 THEN branches[f.node] = <<>> ELSE f.at = 1

(* ProcessEvents and the removal walk.                                      *)

\* Slip: the flag is not cleared when the walk starts.
ProcessEventsStaleFlag ==
    /\ pc = "main"
    /\ removed' = FALSE
    /\ pc' = IF changing THEN "removing" ELSE "polling"
    /\ stack' = <<NewFrame(IF changing THEN "apply" ELSE "branches", Roots)>>
    /\ UNCHANGED <<graph, flags>>

\* The removal walk starts if something was destroyed, else the polling walk.
ProcessEvents ==
    /\ pc = "main"
    /\ removed' = FALSE
    /\ IF changing
       THEN /\ pc' = "removing"
            /\ stack' = <<NewFrame("apply", Roots)>>
            /\ UNCHANGED flags
       ELSE /\ pc' = "polling"
            /\ stack' = <<NewFrame("branches", Roots)>>
            /\ dirty' = FALSE
            /\ UNCHANGED changing
    /\ UNCHANGED graph

\* Slip: a marked child is searched, never removed.
ApplyNextUnconditional ==
    /\ pc = "removing" /\ Top.walk = "apply" /\ ~ForwardDone(Top)
    /\ CallNext("apply")
    /\ UNCHANGED <<graph, flags, pc, removed>>

\* Slip: what is below an unmarked child is not searched.
ApplyNextShallow ==
    /\ pc = "removing" /\ Top.walk = "apply" /\ ~ForwardDone(Top)
    /\ IF win[Children[Item(Top)]].marked
       THEN CallNext("remove")
       ELSE stack' = <<Advance(Top)>> \o Tail(stack)
    /\ UNCHANGED <<graph, flags, pc, removed>>

\* ApplyWindowRemoval, loop body: the child is removed if marked, else searched.
ApplyNext ==
    /\ pc = "removing" /\ Top.walk = "apply" /\ ~ForwardDone(Top)
    /\ CallNext(IF win[Children[Item(Top)]].marked THEN "remove" ELSE "apply")
    /\ UNCHANGED <<graph, flags, pc, removed>>

\* ApplyWindowRemoval, after the loop: remove_if frees the marked children.
ApplyDone ==
    /\ pc = "removing" /\ Top.walk = "apply" /\ ForwardDone(Top)
    /\ LET gone == {c \in Elements(Children) : win[c].marked}
           freed == UNION {Subtree(c) : c \in gone}
       IN  /\ \E rest \in Lists :
                /\ IsRemainder(rest, Children, gone)
                /\ branches' = [n \in Places |->
                                  IF n \in freed THEN <<>>
                                  ELSE IF n = Top.node THEN rest
                                  ELSE branches[n]]
           /\ win' = FreedFrom(win, freed)
           /\ removed' = (removed \/ freed # {})
    /\ IF Top.node = Roots
       THEN /\ changing' = FALSE /\ dirty' = TRUE
            /\ pc' = "polling"
            /\ stack' = <<NewFrame("branches", Roots)>>
       ELSE Return /\ UNCHANGED <<flags, pc>>
    /\ UNCHANGED <<live>>

\* RemoveSubwindows / RemoveWindows, loop body over the branches in reverse.
RemoveNext ==
    /\ pc = "removing" /\ Top.walk = "remove" /\ ~ReverseDone(Top)
    /\ CallNext("remove")
    /\ UNCHANGED <<graph, flags, pc, removed>>

\* cbOnDealloc_ is called once the subwindows are gone.
RunDealloc ==
    /\ pc = "removing" /\ Top.walk = "remove" /\ ReverseDone(Top)
    /\ win' = [win EXCEPT ![Top.node].deallocs = IF @ < 2 THEN @ + 1 ELSE @]
    /\ pc' = "callback"
    /\ UNCHANGED <<branches, live, flags, stack, removed>>

\* After the callback: Close, prune (a root keeps its branches until remove_if)
\* and the erasure from live_windows_.
DeallocReturns ==
    /\ pc = "callback"
    /\ LET n == Top.node
           prunes == stack[2].node # Roots
           freed == IF prunes THEN Subtree(n) \ {n} ELSE {}
       IN  /\ branches' = [m \in Places |->
                IF m \in freed \/ (prunes /\ m = n) THEN <<>> ELSE branches[m]]
           /\ win' = FreedFrom([win EXCEPT ![n].closed = TRUE], freed)
           /\ live' = live \ {n}
           /\ removed' = (removed \/ freed # {})
    /\ pc' = "removing"
    /\ Return
    /\ UNCHANGED flags

-----------------------------------------------------------------------------
(* The polling walk: every window's queue is emptied, then its branches are *)
(* walked.  Whether a window is frozen is read once, before its queue.      *)

PollNext ==
    /\ pc = "polling" /\ Top.walk = "branches" /\ ~ForwardDone(Top)
    /\ CallNext(IF win[Children[Item(Top)]].frozen THEN "frozen" ELSE "drain")
    /\ UNCHANGED <<graph, flags, pc, removed>>

PollReturns ==
    /\ pc = "polling" /\ Top.walk = "branches" /\ ForwardDone(Top)
    /\ IF Len(stack) = 1
       THEN pc' = "main" /\ stack' = <<>>
       ELSE Return /\ UNCHANGED pc
    /\ UNCHANGED <<graph, flags, removed>>

\* Slip: the queue of an open window never drains.
HasEventUnchecked(n) == ~win[n].closed

\* SFML's pollEvent: a closed window has no events.
HasEvent(n) == win[n].queue > 0 /\ ~win[n].closed
TakeEvent(n) == win' = [win EXCEPT ![n].queue = @ - 1]

\* PollEvent returned an event: the handlers, or the frozen event, run.  The
\* default frozen event asks the OS to focus the freezer if it Exists, and
\* changes nothing of the graph.
HandleEvent ==
    /\ pc = "polling" /\ Top.walk \in {"drain", "frozen"} /\ HasEvent(Top.node)
    /\ TakeEvent(Top.node)
    /\ pc' = IF Top.walk = "drain" \/ win[Top.node].frozenEvent = "client"
             THEN "handler" ELSE "polling"
    /\ UNCHANGED <<branches, live, flags, stack, removed>>

HandlerReturns ==
    /\ pc = "handler"
    /\ pc' = "polling"
    /\ UNCHANGED <<graph, flags, stack, removed>>

Drained ==
    /\ pc = "polling" /\ Top.walk \in {"drain", "frozen"} /\ ~HasEvent(Top.node)
    /\ stack' = <<NewFrame("branches", Top.node)>> \o Tail(stack)
    /\ UNCHANGED <<graph, flags, pc, removed>>

-----------------------------------------------------------------------------

Init ==
    /\ branches = [n \in Places |-> <<>>]
    /\ win = [n \in Nodes |-> NewWindow]
    /\ live = {}
    /\ changing = FALSE /\ dirty = FALSE
    /\ pc = "main" /\ stack = <<>> /\ removed = FALSE

Removal == ApplyNext \/ ApplyDone \/ RemoveNext \/ RunDealloc \/ DeallocReturns
Polling == PollNext \/ PollReturns \/ HandleEvent \/ HandlerReturns \/ Drained
LibraryStep == ProcessEvents \/ Removal \/ Polling

Next == LibraryStep \/ UserStep \/ \E n \in Nodes : Arrive(n)

\* The application's loop keeps calling ProcessEvents, and its handlers and
\* callbacks return.
Spec == Init /\ [][Next]_vars
FairSpec == Spec /\ WF_vars(LibraryStep)

-----------------------------------------------------------------------------
(* Properties.                                                              *)

TypeOK ==
    /\ branches \in [Places -> Seq(Nodes)]
    /\ win \in [Nodes -> Window]
    /\ live \subseteq Nodes
    /\ changing \in BOOLEAN /\ dirty \in BOOLEAN /\ removed \in BOOLEAN
    /\ pc \in {"main", "removing", "callback", "polling", "handler"}
    /\ stack \in Seq(Frame)

Removing == pc \in {"removing", "callback"}

\* The list iterators that the suspended loops of a walk hold stay valid
\* whatever user code did in between: every frame's node is allocated, and the
\* caller's loop still stands at the node the callee works on.
IteratorsValid ==
    \A i \in DOMAIN stack :
        /\ stack[i].node \in Allocated \cup {Roots}
        /\ i > 1 => /\ Item(stack[i]) \in DOMAIN branches[stack[i].node]
                   /\ branches[stack[i].node][Item(stack[i])] = stack[i - 1].node

\* Exists never vouches for freed memory, and outside the removal walk it knows
\* every window of the graph.
ExistsExact ==
    /\ live \subseteq Allocated
    /\ ~Removing => live = Allocated

\* A window's deallocation callback runs when the window still exists and
\* nothing below it does.
SubwindowsGoFirst ==
    pc = "callback" => live \cap Subtree(Top.node) = {Top.node}

\* No Destroy request is forgotten: a marked window that is still there between
\* two removal walks has the next walk pending.
RequestsKept ==
    (\E n \in Allocated : win[n].marked) /\ ~Removing => changing

\* After a pass IsGraphDirty's flag tells whether the pass freed windows, so an
\* application that revalidates its pointers when it is set misses none.
DirtyTellsRemoval == ~Removing => (dirty <=> removed)

\* A frozen window never runs the frozen event its constructor bound, which
\* holds the address of a temporary that is gone.
FrozenEventBound == \A n \in Nodes : win[n].frozen => win[n].frozenEvent # "temporary"

\* Windows.cpp:237, DefaultFrozenEvent: focus is requested to the freezer window
\* if it exists - the window Freeze was given, not a later one at its address.
FocusReachesFreezer ==
    \A n \in Allocated :
        win[n].frozen /\ Exists(win[n].freezer) => ~win[n].freezerFreed

\* Memory is freed by the removal walk only, for windows whose deallocation
\* callback ran exactly once and that no longer Exist.
FreedOnceTidied ==
    [][\A n \in Nodes : n \in Allocated /\ n \notin Allocated' =>
            Removing /\ win[n].deallocs = 1 /\ n \notin live]_vars

\* Every destroyed window is freed.
DestroyTakesEffect == \A n \in Nodes : win[n].marked ~> ~win[n].marked

\* What the class promises, see WindowGraph.
Doomed == {n \in live : \E m \in Allocated : win[m].marked /\ n \in Subtree(m)}
Promise == INSTANCE WindowGraph
    WITH exist <- live, doomed <- Doomed, sweeping <- Removing
KeepsPromise == Promise!FairSpec

=============================================================================

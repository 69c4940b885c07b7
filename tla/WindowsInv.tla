----------------------------- MODULE WindowsInv -----------------------------
(***************************************************************************)
(* The inductive invariant of Windows: what the removal walk relies on     *)
(* while its loops are suspended.  Deallocation callbacks may open         *)
(* detached windows and freeze, but neither destroy windows nor open       *)
(* subwindows: with those the walk breaks (see the run windows_reentrant). *)
(***************************************************************************)
EXTENDS Windows

TameCallbacks == CallbackOps \cap {"Destroy", "CreateSub"} = {}

\* The graph is a forest of lists, and unused addresses own nothing.
SinglePlace ==
    \A p, q \in Places :
        \A i \in DOMAIN branches[p], j \in DOMAIN branches[q] :
            branches[p][i] = branches[q][j] => p = q /\ i = j
FreeEmpty == \A n \in Nodes \ Allocated : branches[n] = <<>>

\* The positions a removal loop is done with.
Done(f) ==
    {j \in DOMAIN branches[f.node] :
        \/ f.walk = "apply" /\ j <= f.at
        \/ f.walk = "remove" /\ f.at # 0 /\ f.at <= j}
\* Taken down by RemoveWindows; removed from a list that is not yet filtered.
Gone(c) == c \notin live /\ branches[c] = <<>>
Dead(c) == c \notin live /\ \A d \in Elements(branches[c]) : Gone(d)

FrameOK(f) ==
    /\ f.node \in live \cup {Roots}
    /\ f.at <= Len(branches[f.node])
    /\ f.walk = "apply" /\ f.node # Roots => ~win[f.node].marked
    /\ f.walk = "apply" =>
         \A j \in Done(f) : win[branches[f.node][j]].marked => Dead(branches[f.node][j])
    /\ f.walk = "remove" => \A j \in Done(f) : Gone(branches[f.node][j])

\* A frame's node is the child at which its caller's loop is suspended.
Linked(s) ==
    \A i \in 1..Len(s) - 1 :
        /\ Item(s[i + 1]) \in DOMAIN branches[s[i + 1].node]
        /\ branches[s[i + 1].node][Item(s[i + 1])] = s[i].node
        /\ s[i].walk = "apply" => s[i + 1].walk = "apply"
        /\ s[i].walk = "remove" /\ s[i + 1].walk = "apply" => win[s[i].node].marked
Shape(s) ==
    /\ \A i \in 1..Len(s) : s[i].node = Roots <=> i = Len(s)
    /\ s # <<>> => s[Len(s)].walk \in {"apply", "branches"}
    /\ \A i, j \in 1..Len(s) : s[i].node = s[j].node => i = j
Walks(s) ==
    \A i \in 1..Len(s) :
        IF Removing THEN s[i].walk \in {"apply", "remove"}
        ELSE s[i].walk \in {"branches", "drain", "frozen"}

StackOK ==
    /\ Shape(stack) /\ Linked(stack) /\ Walks(stack)
    /\ \A i \in 1..Len(stack) : FrameOK(stack[i])
    /\ pc = "main" <=> stack = <<>>
    /\ pc = "callback" => stack[1].walk = "remove" /\ ReverseDone(stack[1])

\* Windows that no longer Exist and are not freed yet have been removed by a
\* loop that is still suspended, or hang below a root that was.
Removed(f) == {branches[f.node][j] : j \in Done(f)}
Accounted ==
    IF Removing
    THEN \A n \in Allocated \ live : \E i \in 1..Len(stack) :
            \/ n \in Removed(stack[i]) /\ (stack[i].walk = "apply" => win[n].marked)
            \/ stack[i].node = Roots /\ \E c \in Removed(stack[i]) :
                   win[c].marked /\ n \in Elements(branches[c])
    ELSE Allocated \subseteq live

IInv ==
    /\ TypeOK /\ SinglePlace /\ FreeEmpty /\ StackOK
    /\ live \subseteq Allocated /\ Accounted

-----------------------------------------------------------------------------
(* What the walk adds to that: how far it has searched, whose callbacks ran, *)
(* and what the flags tell.                                                 *)

\* The search has left no marked window behind: what it is done with in a list
\* is marked itself, to be filtered out, or holds no marked window at all.
Clean(c) == \A m \in Subtree(c) : ~win[m].marked
Searched ==
    \A i \in 1..Len(stack) : stack[i].walk = "apply" =>
        \A c \in Removed(stack[i]) : win[c].marked \/ Clean(c)

\* Only windows that are doomed are being removed.
Condemned ==
    \A i \in 1..Len(stack) : stack[i].walk = "remove" => stack[i].node \in Doomed

\* The callback of a window has run once if the window is removed or its
\* callback is running, else it has not run.
InCallback(n) == pc = "callback" /\ n = Top.node
Tidied ==
    \A n \in Allocated :
        win[n].deallocs = IF n \in live /\ ~InCallback(n) THEN 0 ELSE 1

\* The flags between two removals, and what a removal was started for.
Marks == \E n \in Allocated : win[n].marked
Pending ==
    IF Removing THEN changing /\ (removed \/ Marks)
    ELSE (changing <=> Marks) /\ (dirty <=> removed)

SInv == IInv /\ Searched /\ Condemned /\ Tidied /\ Pending
=============================================================================

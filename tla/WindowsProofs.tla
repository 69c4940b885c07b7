--------------------------- MODULE WindowsProofs ---------------------------
(***************************************************************************)
(* Proofs about Windows, for every set of addresses, every bound on the    *)
(* events and every choice of the operations user code calls, as long as   *)
(* deallocation callbacks are tame.                                        *)
(***************************************************************************)
EXTENDS WindowsInv, TLAPS

(* Lists of nodes and the graph they make.                                  *)

LEMMA TwoOrMore == \A k \in Nat \ {0} : k # 1 => k >= 2
  OBVIOUS

GraphType == [Places -> Seq(Nodes)]

LEMMA ElementFacts ==
    ASSUME NEW S, NEW s \in Seq(S)
    PROVE  /\ Elements(s) \subseteq S
           /\ \A i \in 1..Len(s) : s[i] \in Elements(s)
           /\ DOMAIN s = 1..Len(s) /\ Len(s) \in Nat
           /\ (Elements(s) = {} <=> s = <<>>)
<1>1. DOMAIN s = 1..Len(s) /\ Len(s) \in Nat
  OBVIOUS
<1>2. Elements(s) \subseteq S /\ \A i \in 1..Len(s) : s[i] \in Elements(s)
  BY DEF Elements
<1>3. s = <<>> => Elements(s) = {}
  BY DEF Elements
<1>4. ASSUME s # <<>> PROVE Elements(s) # {}
  <2>1. 1 \in 1..Len(s)
    BY <1>4
  <2>2. QED
    BY <1>2, <2>1
<1>5. QED
  BY <1>1, <1>2, <1>3, <1>4

\* A subtree holds its root and is closed under branches.
LEMMA SubtreeClosed ==
    ASSUME NEW b \in GraphType, NEW n \in Places
    PROVE  /\ n \in SubtreeOf(b, n) /\ SubtreeOf(b, n) \subseteq Places
           /\ \A x \in SubtreeOf(b, n) : Elements(b[x]) \subseteq SubtreeOf(b, n)
<1>1. n \in SubtreeOf(b, n) /\ SubtreeOf(b, n) \subseteq Places
  BY DEF SubtreeOf, ClosedSets
<1>2. ASSUME NEW x \in SubtreeOf(b, n), NEW y \in Elements(b[x])
      PROVE  y \in SubtreeOf(b, n)
  <2>1. x \in Places
    BY <1>1
  <2>2. b[x] \in Seq(Nodes)
    BY <2>1 DEF GraphType
  <2>3. y \in Places
    BY <2>2, ElementFacts DEF Places
  <2>4. ASSUME NEW S \in ClosedSets(b, n) PROVE y \in S
    <3>1. x \in S
      BY <1>2 DEF SubtreeOf
    <3>2. QED
      BY <1>2, <3>1 DEF ClosedSets
  <2>5. QED
    BY <2>3, <2>4 DEF SubtreeOf
<1>3. QED
  BY <1>1, <1>2

\* It is the least such set.
LEMMA SubtreeLeast ==
    ASSUME NEW b, NEW n, NEW S \in SUBSET Places, n \in S,
           \A x \in S : Elements(b[x]) \subseteq S
    PROVE  SubtreeOf(b, n) \subseteq S
  BY DEF SubtreeOf, ClosedSets

\* Filtering a list keeps its elements but the filtered ones, each at one place.
LEMMA RemainderFacts ==
    ASSUME NEW s \in Seq(Nodes), NEW gone, NEW t \in Lists, IsRemainder(t, s, gone),
           \A i, j \in DOMAIN s : s[i] = s[j] => i = j
    PROVE  /\ t \in Seq(Nodes) /\ Elements(t) = Elements(s) \ gone
           /\ \A i, j \in DOMAIN t : t[i] = t[j] => i = j
<1>1. t \in Seq(Nodes)
  BY DEF Lists
<1>2. ASSUME NEW i \in DOMAIN t, NEW j \in DOMAIN t, i < j PROVE t[i] # t[j]
  <2>1. PICK k, l \in DOMAIN s : k < l /\ s[k] = t[i] /\ s[l] = t[j]
    BY <1>2 DEF IsRemainder
  <2>2. DOMAIN s = 1..Len(s) /\ Len(s) \in Nat
    BY ElementFacts
  <2>3. k # l
    BY <2>1, <2>2
  <2>4. QED
    BY <2>1, <2>3
<1>3. DOMAIN t = 1..Len(t) /\ Len(t) \in Nat
  BY <1>1, ElementFacts
<1>4. \A i, j \in DOMAIN t : i = j \/ i < j \/ j < i
  BY <1>3
<1>5. \A i, j \in DOMAIN t : t[i] = t[j] => i = j
  BY <1>2, <1>4
<1>6. QED
  BY <1>1, <1>5 DEF IsRemainder

-----------------------------------------------------------------------------
(* Stacks.                                                                  *)

\* A call pushes a frame for a window.
LEMMA Pushed ==
    ASSUME NEW s \in Seq(Frame), NEW f \in Frame
    PROVE  LET t == <<f>> \o s
           IN  /\ t \in Seq(Frame) /\ Len(t) = Len(s) + 1 /\ t[1] = f
               /\ \A i \in 2..Len(t) : t[i] = s[i - 1]
  OBVIOUS

\* A return pops a frame and moves its caller on.
LEMMA Returned ==
    ASSUME NEW s \in Seq(Frame), Len(s) >= 2, NEW f \in Frame
    PROVE  LET t == <<f>> \o Tail(Tail(s))
           IN  /\ t \in Seq(Frame) /\ Len(t) = Len(s) - 1 /\ t[1] = f
               /\ \A i \in 2..Len(t) : t[i] = s[i + 1]
<1> DEFINE v == Tail(s)
           u == Tail(v)
<1>1. v \in Seq(Frame) /\ Len(v) = Len(s) - 1 /\ \A i \in 1..Len(v) : v[i] = s[i + 1]
  OBVIOUS
<1> HIDE DEF v
<1>2. u \in Seq(Frame) /\ Len(u) = Len(v) - 1 /\ \A i \in 1..Len(u) : u[i] = v[i + 1]
  BY <1>1
<1> HIDE DEF u
<1>3. Len(u) = Len(s) - 2 /\ \A i \in 1..Len(u) : u[i] = s[i + 2]
  BY <1>1, <1>2
<1>4. QED
  BY <1>2, <1>3, Pushed DEF u, v

\* A frame is replaced by another one.
LEMMA Replaced ==
    ASSUME NEW s \in Seq(Frame), s # <<>>, NEW f \in Frame
    PROVE  LET t == <<f>> \o Tail(s)
           IN  /\ t \in Seq(Frame) /\ Len(t) = Len(s) /\ t[1] = f
               /\ \A i \in 2..Len(t) : t[i] = s[i]
<1> DEFINE u == Tail(s)
<1>1. u \in Seq(Frame) /\ Len(u) = Len(s) - 1 /\ \A i \in 1..Len(u) : u[i] = s[i + 1]
  OBVIOUS
<1> HIDE DEF u
<1>2. QED
  BY <1>1, Pushed DEF u

-----------------------------------------------------------------------------
(* The helpers return values of the right type.                             *)

LEMMA WindowTypes ==
    /\ NewWindow \in Window
    /\ \A w \in [Nodes -> Window] : \A gone : FreedFrom(w, gone) \in [Nodes -> Window]
    /\ Lists \subseteq Seq(Nodes)
<1>1. NewWindow \in Window
  BY WindowsAssumption DEF NewWindow, Window
<1>2. ASSUME NEW w \in [Nodes -> Window], NEW gone
      PROVE  FreedFrom(w, gone) \in [Nodes -> Window]
  <2>1. ASSUME NEW n \in Nodes PROVE [w[n] EXCEPT !.freezerFreed = TRUE] \in Window
    BY DEF Window
  <2>2. QED
    BY <1>1, <2>1 DEF FreedFrom
<1>3. Lists \subseteq Seq(Nodes)
  BY DEF Lists
<1>4. QED
  BY <1>1, <1>2, <1>3

LEMMA NewFrameFacts ==
    ASSUME NEW walk \in {"apply", "remove", "branches", "drain", "frozen"},
           NEW n \in Places
    PROVE  /\ NewFrame(walk, n) \in Frame /\ NewFrame(walk, n).walk = walk
           /\ NewFrame(walk, n).node = n /\ NewFrame(walk, n).at = 0
  BY DEF NewFrame, Frame

\* The innermost frame, when a walk is under way.
LEMMA TopFacts ==
    ASSUME IInv, pc # "main"
    PROVE  /\ stack \in Seq(Frame) /\ stack # <<>> /\ Len(stack) \in Nat \ {0}
           /\ branches \in GraphType /\ Children \in Seq(Nodes)
           /\ Top \in Frame /\ FrameOK(Top) /\ Top.node \in Places
           /\ Top.node = Roots <=> Len(stack) = 1
           /\ Top.walk \notin {"apply", "branches"} => Top.node # Roots
<1>1. stack \in Seq(Frame) /\ stack # <<>> /\ Len(stack) \in Nat \ {0}
  BY DEF IInv, TypeOK, StackOK
<1>2. Top \in Frame /\ 1 \in 1..Len(stack)
  BY <1>1 DEF Top
<1>3. Top.node \in Places /\ branches \in GraphType
  BY <1>2 DEF IInv, TypeOK, Frame, GraphType
<1>4. Children \in Seq(Nodes)
  BY <1>3 DEF GraphType, Children
<1>5. FrameOK(Top)
  BY <1>2 DEF IInv, StackOK, Top
<1>6. Shape(stack)
  BY DEF IInv, StackOK
<1>7. Top.node = Roots <=> Len(stack) = 1
  BY <1>2, <1>6 DEF Shape, Top
<1>8. Len(stack) = 1 => Top.walk \in {"apply", "branches"}
  BY <1>1, <1>6 DEF Shape, Top
<1>9. QED
  BY <1>1, <1>2, <1>3, <1>4, <1>5, <1>7, <1>8

\* What a list of the graph holds is allocated.
LEMMA ChildAllocated ==
    ASSUME IInv, NEW p \in Allocated \cup {Roots}, NEW c \in Elements(branches[p])
    PROVE  c \in Nodes /\ c \in Allocated /\ p \in Places
<1>1. branches \in GraphType /\ Roots \in Places
  BY DEF IInv, TypeOK, GraphType, Places
<1>2. p \in Subtree(Roots) /\ p \in Places
  BY <1>1, SubtreeClosed DEF Allocated, Subtree
<1>3. c \in Subtree(Roots)
  BY <1>1, <1>2, SubtreeClosed DEF Subtree
<1>4. c \in Nodes
  BY <1>1, <1>2, ElementFacts DEF GraphType
<1>5. QED
  BY <1>2, <1>3, <1>4, WindowsAssumption DEF Allocated

\* A loop that is not done stands at a child it has not dealt with.
LEMMA ItemFacts ==
    ASSUME IInv, NEW f \in Frame, f.at <= Len(branches[f.node]),
           IF f.walk = "remove" THEN ~ReverseDone(f) ELSE ~ForwardDone(f)
    PROVE  /\ Item(f) \in DOMAIN branches[f.node] /\ Item(f) \notin Done(f)
<1>1. branches[f.node] \in Seq(Nodes) /\ f.at \in Nat
  BY DEF IInv, TypeOK, Frame
<1> DEFINE s == branches[f.node]
<1>2. DOMAIN s = 1..Len(s) /\ Len(s) \in Nat /\ (s # <<>> => Len(s) # 0)
  BY <1>1
<1>3. CASE f.walk # "remove"
  BY <1>1, <1>2, <1>3 DEF Item, ForwardDone, Done
<1>4. CASE f.walk = "remove" /\ f.at = 0
  BY <1>1, <1>2, <1>4 DEF Item, ReverseDone, Done
<1>5. CASE f.walk = "remove" /\ f.at # 0
  BY <1>1, <1>2, <1>5 DEF Item, ReverseDone, Done
<1>6. QED
  BY <1>3, <1>4, <1>5

\* What a suspended loop is done with as removed no longer Exists.
LEMMA RemovedFacts ==
    ASSUME IInv, NEW i \in 1..Len(stack), NEW c \in Removed(stack[i]),
           stack[i].walk = "apply" => win[c].marked
    PROVE  /\ Dead(c) /\ c \in Nodes /\ c \in Elements(branches[stack[i].node])
           /\ stack[i].walk = "remove" => Gone(c)
<1>1. stack \in Seq(Frame) /\ stack[i] \in Frame /\ FrameOK(stack[i])
  BY DEF IInv, TypeOK, StackOK
<1>2. branches[stack[i].node] \in Seq(Nodes)
  BY <1>1 DEF IInv, TypeOK, Frame
<1>3. PICK j \in Done(stack[i]) : c = branches[stack[i].node][j]
  BY DEF Removed
<1>4. stack[i].walk \in {"apply", "remove"} /\ j \in DOMAIN branches[stack[i].node]
  BY <1>3 DEF Done
<1>5. c \in Elements(branches[stack[i].node]) /\ c \in Nodes
  BY <1>2, <1>3, <1>4, ElementFacts DEF Elements
<1>6. stack[i].walk = "remove" => Gone(c)
  BY <1>1, <1>3 DEF FrameOK
<1>7. stack[i].walk = "apply" => Dead(c)
  BY <1>1, <1>3 DEF FrameOK
<1>8. Gone(c) => Dead(c)
  BY DEF Gone, Dead, Elements
<1>9. QED
  BY <1>4, <1>5, <1>6, <1>7, <1>8

LEMMA ChildLive ==
    ASSUME IInv, pc \in {"removing", "polling"},
           Item(Top) \in DOMAIN Children, Item(Top) \notin Done(Top)
    PROVE  Children[Item(Top)] \in live /\ Children[Item(Top)] \in Nodes
<1> DEFINE c == Children[Item(Top)]
<1>1. /\ stack \in Seq(Frame) /\ stack # <<>> /\ Len(stack) \in Nat \ {0}
      /\ FrameOK(Top) /\ Top.node \in Places /\ Children \in Seq(Nodes)
  BY TopFacts
<1>2. Top.node \in Allocated \cup {Roots} /\ c \in Elements(branches[Top.node])
  BY <1>1 DEF FrameOK, IInv, Elements, Children
<1>3. c \in Nodes /\ c \in Allocated
  BY <1>2, ChildAllocated
<1>4. CASE pc = "polling"
  BY <1>3, <1>4 DEF IInv, Accounted, Removing
<1>5. CASE pc = "removing"
  <2> SUFFICES ASSUME c \notin live PROVE FALSE
    BY <1>3
  <2>1. PICK i \in 1..Len(stack) :
            \/ c \in Removed(stack[i]) /\ (stack[i].walk = "apply" => win[c].marked)
            \/ stack[i].node = Roots /\ \E k \in Removed(stack[i]) :
                   win[k].marked /\ c \in Elements(branches[k])
    BY <1>3, <1>5 DEF IInv, Accounted, Removing
  <2>2. stack[i] \in Frame /\ stack[i].node \in Places
    <3>1. stack[i] \in Frame
      BY <1>1
    <3>2. QED
      BY <3>1 DEF Frame
  <2>3. CASE c \in Removed(stack[i])
    <3>1. PICK j \in Done(stack[i]) : c = branches[stack[i].node][j]
      BY <2>3 DEF Removed
    <3>2. j \in DOMAIN branches[stack[i].node]
      BY DEF Done
    <3>3. stack[i].node = Top.node /\ j = Item(Top)
      BY <1>1, <2>2, <3>1, <3>2 DEF IInv, SinglePlace, Children
    <3>4. i = 1
      BY <1>1, <3>3 DEF IInv, StackOK, Shape, Top
    <3>5. QED
      BY <3>1, <3>3, <3>4 DEF Top
  <2>4. CASE stack[i].node = Roots /\ \E k \in Removed(stack[i]) :
                   win[k].marked /\ c \in Elements(branches[k])
    <3>1. PICK k \in Removed(stack[i]) : win[k].marked /\ c \in Elements(branches[k])
      BY <2>4
    <3>2. k \in Nodes /\ k \notin live
      BY <3>1, RemovedFacts DEF Dead
    <3>3. PICK l \in DOMAIN branches[k] : c = branches[k][l]
      BY <3>1 DEF Elements
    <3>4. k = Top.node
      BY <1>1, <3>2, <3>3 DEF IInv, SinglePlace, Children, Places
    <3>5. QED
      BY <1>1, <3>2, <3>4, WindowsAssumption DEF FrameOK
  <2>5. QED
    BY <2>1, <2>3, <2>4
<1>6. QED
  BY <1>3, <1>4, <1>5

-----------------------------------------------------------------------------
(* Steps that leave the graph alone and call for the next child.            *)

LEMMA CallNextInv ==
    ASSUME IInv, pc \in {"removing", "polling"},
           NEW walk \in {"apply", "remove", "drain", "frozen"},
           IF Top.walk = "remove" THEN ~ReverseDone(Top) ELSE ~ForwardDone(Top),
           pc = "removing" => walk \in {"apply", "remove"},
           pc = "polling" => walk \in {"drain", "frozen"},
           walk = "apply" => Top.walk = "apply" /\ ~win[Children[Item(Top)]].marked,
           walk = "remove" /\ Top.walk = "apply" => win[Children[Item(Top)]].marked,
           CallNext(walk), UNCHANGED <<graph, flags, pc, removed>>
    PROVE  IInv'
<1> DEFINE c == Children[Item(Top)]
           f == NewFrame(walk, c)
<1>1. /\ stack \in Seq(Frame) /\ stack # <<>> /\ Len(stack) \in Nat \ {0}
      /\ Top \in Frame /\ FrameOK(Top) /\ Top.node \in Places
      /\ Top = stack[1] /\ Children \in Seq(Nodes)
      /\ Children = branches[Top.node]
  BY TopFacts DEF Top, Children
<1>2. Item(Top) \in DOMAIN Children /\ Item(Top) \notin Done(Top)
  BY <1>1, ItemFacts DEF FrameOK
<1>3. c \in live /\ c \in Nodes /\ c # Roots
  BY <1>2, ChildLive, WindowsAssumption
<1>4. f \in Frame /\ f.walk = walk /\ f.node = c /\ f.at = 0
  BY <1>3, NewFrameFacts DEF Places
<1>5. stack' = <<f>> \o stack
  BY DEF CallNext
<1> HIDE DEF f
<1>6. /\ stack' \in Seq(Frame) /\ Len(stack') = Len(stack) + 1 /\ stack'[1] = f
      /\ \A i \in 2..Len(stack') : stack'[i] = stack[i - 1]
  BY <1>1, <1>4, <1>5, Pushed
<1>7. /\ branches' = branches /\ win' = win /\ live' = live
      /\ changing' = changing /\ dirty' = dirty /\ pc' = pc /\ removed' = removed
  BY DEF graph, flags
<1>8. \A i \in 1..Len(stack) : stack[i].node # c
  <2> SUFFICES ASSUME NEW i \in 1..Len(stack), stack[i].node = c PROVE FALSE
    OBVIOUS
  <2>1. i # Len(stack)
    BY <1>3 DEF IInv, StackOK, Shape
  <2>2. i \in 1..Len(stack) - 1 /\ i + 1 \in 1..Len(stack)
    BY <1>1, <2>1
  <2>3. /\ Item(stack[i + 1]) \in DOMAIN branches[stack[i + 1].node]
        /\ branches[stack[i + 1].node][Item(stack[i + 1])] = c
    BY <2>2 DEF IInv, StackOK, Linked
  <2>4. stack[i + 1] \in Frame
    BY <1>1, <2>2
  <2>5. stack[i + 1].node \in Places
    BY <2>4 DEF Frame
  <2>6. stack[i + 1].node = Top.node
    BY <1>1, <1>2, <2>3, <2>5 DEF IInv, SinglePlace
  <2>7. i + 1 = 1
    BY <1>1, <2>2, <2>6 DEF IInv, StackOK, Shape
  <2>8. QED
    BY <2>7, <1>1
<1>9. \A i \in 1..Len(stack') : i = 1 \/ (i \in 2..Len(stack') /\ i - 1 \in 1..Len(stack))
  BY <1>1, <1>6
<1>10. Shape(stack')
  <2>1. ASSUME NEW i \in 1..Len(stack')
        PROVE  stack'[i].node = Roots <=> i = Len(stack')
    <3>1. CASE i = 1
      BY <1>1, <1>3, <1>4, <1>6, <3>1
    <3>2. CASE i # 1
      <4>1. i \in 2..Len(stack') /\ i - 1 \in 1..Len(stack)
        BY <1>9, <3>2
      <4>2. stack[i - 1].node = Roots <=> i - 1 = Len(stack)
        BY <4>1 DEF IInv, StackOK, Shape
      <4>3. QED
        BY <1>1, <1>6, <4>1, <4>2
    <3>3. QED
      BY <3>1, <3>2
  <2>2. stack'[Len(stack')] = stack[Len(stack)]
    BY <1>1, <1>6
  <2>3. stack[Len(stack)].walk \in {"apply", "branches"}
    BY <1>1 DEF IInv, StackOK, Shape
  <2>4. ASSUME NEW i \in 1..Len(stack'), NEW j \in 1..Len(stack'),
               stack'[i].node = stack'[j].node
        PROVE  i = j
    <3>1. CASE i = 1 /\ j # 1
      BY <1>4, <1>6, <1>8, <1>9, <2>4, <3>1
    <3>2. CASE i # 1 /\ j = 1
      BY <1>4, <1>6, <1>8, <1>9, <2>4, <3>2
    <3>3. CASE i # 1 /\ j # 1
      <4>1. /\ i - 1 \in 1..Len(stack) /\ j - 1 \in 1..Len(stack)
            /\ stack[i - 1].node = stack[j - 1].node
        BY <1>6, <1>9, <2>4, <3>3
      <4>2. i - 1 = j - 1
        BY <4>1 DEF IInv, StackOK, Shape
      <4>3. QED
        BY <4>2
    <3>4. QED
      BY <3>1, <3>2, <3>3
  <2>5. QED
    BY <2>1, <2>2, <2>3, <2>4 DEF Shape
<1>11. ASSUME NEW g PROVE Item(g)' = Item(g) /\ Done(g)' = Done(g)
  BY <1>7 DEF Item, Done
<1>12. Linked(stack)'
  <2>1. ASSUME NEW i \in 1..Len(stack') - 1
        PROVE  /\ Item(stack'[i + 1]) \in DOMAIN branches[stack'[i + 1].node]
               /\ branches[stack'[i + 1].node][Item(stack'[i + 1])] = stack'[i].node
               /\ stack'[i].walk = "apply" => stack'[i + 1].walk = "apply"
               /\ stack'[i].walk = "remove" /\ stack'[i + 1].walk = "apply"
                    => win[stack'[i].node].marked
    <3>1. CASE i = 1
      <4>1. stack'[2] = Top /\ stack'[1] = f
        BY <1>1, <1>6
      <4>2. QED
        BY <1>1, <1>2, <1>4, <3>1, <4>1
    <3>2. CASE i # 1
      <4>1. i - 1 \in 1..Len(stack) - 1 /\ stack'[i] = stack[i - 1] /\ stack'[i + 1] = stack[i]
        BY <1>1, <1>6, <3>2
      <4>2. (i - 1) + 1 = i
        OBVIOUS
      <4>3. QED
        BY <4>1, <4>2 DEF IInv, StackOK, Linked
    <3>3. QED
      BY <3>1, <3>2
  <2>2. QED
    BY <1>7, <2>1 DEF Linked, Item
<1>13. \A i \in 1..Len(stack') : FrameOK(stack[i])'
  <2> TAKE i \in 1..Len(stack')
  <2>1. CASE i = 1
    <3>1. stack'[i] = f
      BY <1>6, <2>1
    <3>2. Len(branches[c]) \in Nat /\ branches[c] \in Seq(Nodes)
      BY <1>3 DEF IInv, TypeOK, Places
    <3>3. Done(f) = {}
      <4>1. \A j \in DOMAIN branches[c] : j \in Nat /\ j # 0 /\ ~(j <= 0)
        BY <3>2
      <4>2. QED
        BY <1>4, <4>1 DEF Done
    <3>4. FrameOK(f)
      BY <1>3, <1>4, <3>2, <3>3 DEF FrameOK
    <3>5. QED
      BY <1>7, <3>1, <3>4 DEF FrameOK, Done, Dead, Gone
  <2>2. CASE i # 1
    <3>1. stack'[i] = stack[i - 1] /\ i - 1 \in 1..Len(stack)
      BY <1>6, <1>9, <2>2
    <3>2. FrameOK(stack[i - 1])
      BY <3>1 DEF IInv, StackOK
    <3>3. QED
      BY <1>7, <3>1, <3>2 DEF FrameOK, Done, Dead, Gone
  <2>3. QED
    BY <2>1, <2>2
<1>14. Walks(stack)'
  <2>1. Removing' = Removing /\ (Removing <=> pc = "removing")
    BY <1>7 DEF Removing
  <2>2. ASSUME NEW i \in 1..Len(stack')
        PROVE  IF Removing THEN stack'[i].walk \in {"apply", "remove"}
               ELSE stack'[i].walk \in {"branches", "drain", "frozen"}
    <3>1. CASE i = 1
      BY <1>4, <1>6, <2>1, <3>1
    <3>2. CASE i # 1
      BY <1>6, <1>9, <3>2 DEF IInv, StackOK, Walks
    <3>3. QED
      BY <3>1, <3>2
  <2>3. QED
    BY <2>1, <2>2 DEF Walks
<1>15. StackOK'
  <2>1. stack' # <<>>
    BY <1>1, <1>6
  <2>2. QED
    BY <1>7, <1>10, <1>12, <1>13, <1>14, <2>1 DEF StackOK, Shape
<1>16. Accounted'
  <2>1. CASE ~Removing
    BY <1>7, <2>1 DEF IInv, Accounted, Removing, Allocated, Subtree
  <2>2. CASE Removing
    <3>1. ASSUME NEW n \in Allocated \ live
          PROVE  \E i \in 1..Len(stack') :
            \/ n \in Removed(stack'[i]) /\ (stack'[i].walk = "apply" => win[n].marked)
            \/ stack'[i].node = Roots /\ \E d \in Removed(stack'[i]) :
                   win[d].marked /\ n \in Elements(branches[d])
      <4>1. PICK i \in 1..Len(stack) :
            \/ n \in Removed(stack[i]) /\ (stack[i].walk = "apply" => win[n].marked)
            \/ stack[i].node = Roots /\ \E d \in Removed(stack[i]) :
                   win[d].marked /\ n \in Elements(branches[d])
        BY <2>2, <3>1 DEF IInv, Accounted
      <4>2. i + 1 \in 1..Len(stack') /\ stack'[i + 1] = stack[i]
        BY <1>1, <1>6
      <4>3. QED
        BY <4>1, <4>2
    <3>2. QED
      BY <1>7, <2>2, <3>1 DEF Accounted, Removing, Removed, Done, Allocated, Subtree
  <2>3. QED
    BY <2>1, <2>2
<1>17. TypeOK'
  BY <1>6, <1>7 DEF IInv, TypeOK
<1>18. QED
  BY <1>7, <1>15, <1>16, <1>17
  DEF IInv, SinglePlace, FreeEmpty, Allocated, Subtree

-----------------------------------------------------------------------------
(* Steps that return from a frame.                                          *)

\* The caller's loop is then done with one more child.
LEMMA AdvanceFacts ==
    ASSUME IInv, NEW f \in Frame, Item(f) \in DOMAIN branches[f.node]
    PROVE  /\ Advance(f) \in Frame /\ Advance(f).node = f.node
           /\ Advance(f).walk = f.walk /\ Advance(f).at = Item(f)
           /\ Done(Advance(f)) \subseteq Done(f) \cup {Item(f)}
           /\ Done(f) \subseteq Done(Advance(f))
           /\ f.walk \in {"apply", "remove"} => Item(f) \in Done(Advance(f))
<1> DEFINE s == branches[f.node]
           g == Advance(f)
<1>1. s \in Seq(Nodes) /\ f.at \in Nat /\ DOMAIN s = 1..Len(s) /\ Len(s) \in Nat
  BY DEF IInv, TypeOK, Frame
<1>2. Item(f) \in Nat \ {0} /\ Item(f) <= Len(s)
  BY <1>1
<1>3. g = [walk |-> f.walk, node |-> f.node, at |-> Item(f)]
  BY DEF Advance, Frame
<1>4. g \in Frame
  BY <1>2, <1>3 DEF Frame
<1>5. CASE f.walk = "remove"
  <2>1. Item(f) = IF f.at = 0 THEN Len(s) ELSE f.at - 1
    BY <1>5 DEF Item
  <2>2. Done(f) = {j \in DOMAIN s : f.at # 0 /\ f.at <= j}
    BY <1>5 DEF Done
  <2>3. Done(g) = {j \in DOMAIN s : Item(f) <= j}
    BY <1>2, <1>3, <1>5 DEF Done
  <2> HIDE DEF s, g
  <2>4. /\ Done(g) \subseteq Done(f) \cup {Item(f)} /\ Done(f) \subseteq Done(g)
        /\ Item(f) \in Done(g)
    BY <1>1, <1>2, <2>1, <2>2, <2>3 DEF s
  <2>5. QED
    BY <1>3, <1>4, <2>4 DEF g
<1>6. CASE f.walk = "apply"
  <2>1. Item(f) = f.at + 1
    BY <1>6 DEF Item
  <2>2. Done(f) = {j \in DOMAIN s : j <= f.at}
    BY <1>6 DEF Done
  <2>3. Done(g) = {j \in DOMAIN s : j <= f.at + 1}
    BY <1>3, <1>6, <2>1 DEF Done
  <2> HIDE DEF s, g
  <2>4. /\ Done(g) \subseteq Done(f) \cup {Item(f)} /\ Done(f) \subseteq Done(g)
        /\ Item(f) \in Done(g)
    BY <1>1, <1>2, <2>1, <2>2, <2>3 DEF s
  <2>5. QED
    BY <1>3, <1>4, <2>4 DEF g
<1>7. CASE f.walk \notin {"apply", "remove"}
  BY <1>3, <1>4, <1>7 DEF Done
<1>8. QED
  BY <1>5, <1>6, <1>7

\* What is dead stays dead while windows are only taken away.
LEMMA DeadStays ==
    ASSUME IInv, live' \subseteq live,
           \A n \in Nodes \ live : branches'[n] \in {branches[n], <<>>},
           NEW c \in Nodes
    PROVE  (Dead(c) => Dead(c)') /\ (Gone(c) => Gone(c)')
<1>1. branches[c] \in Seq(Nodes)
  BY DEF IInv, TypeOK, Places
<1>2. Elements(branches[c]) \subseteq Nodes
  BY <1>1, ElementFacts
<1>3. \A d \in Nodes : Gone(d) => Gone(d)'
  BY DEF Gone
<1>4. ASSUME Dead(c) PROVE Dead(c)'
  <2>1. c \notin live' /\ branches'[c] \in {branches[c], <<>>}
    BY <1>4 DEF Dead
  <2>2. Elements(branches'[c]) \subseteq Elements(branches[c])
    BY <2>1 DEF Elements
  <2>3. \A d \in Elements(branches'[c]) : Gone(d)'
    BY <1>2, <1>3, <1>4, <2>2 DEF Dead
  <2>4. QED
    BY <2>1, <2>3 DEF Dead
<1>5. QED
  BY <1>3, <1>4

\* A return drops the innermost frame, and its caller is done with one more.
LEMMA ReturnFrames ==
    ASSUME IInv, pc # "main", Len(stack) >= 2, Return
    PROVE  /\ stack' \in Seq(Frame) /\ Len(stack') \in Nat /\ Len(stack') = Len(stack) - 1
           /\ stack'[1] = Advance(stack[2])
           /\ \A i \in 2..Len(stack') : stack'[i] = stack[i + 1]
           /\ \A i \in 1..Len(stack') :
                 /\ i + 1 \in 2..Len(stack) /\ i + 1 \in 1..Len(stack)
                 /\ stack'[i].node = stack[i + 1].node /\ stack'[i].walk = stack[i + 1].walk
                 /\ Done(stack'[i]) \subseteq
                      Done(stack[i + 1]) \cup (IF i = 1 THEN {Item(stack[2])} ELSE {})
           /\ Item(stack[2]) \in DOMAIN branches[stack[2].node]
           /\ branches[stack[2].node][Item(stack[2])] = Top.node
<1> DEFINE f == stack[2]
           g == Advance(f)
<1>1. /\ stack \in Seq(Frame) /\ Len(stack) \in Nat \ {0} /\ Top = stack[1]
      /\ f \in Frame /\ 2 \in 1..Len(stack)
  BY TopFacts DEF Top
<1>2. /\ Item(f) \in DOMAIN branches[f.node]
      /\ branches[f.node][Item(f)] = Top.node
      /\ Top.walk = "apply" => f.walk = "apply"
  <2>1. 1 \in 1..Len(stack) - 1
    BY <1>1
  <2>2. QED
    BY <1>1, <2>1 DEF IInv, StackOK, Linked
<1>3. /\ g \in Frame /\ g.node = f.node /\ g.walk = f.walk /\ g.at = Item(f)
      /\ Done(g) \subseteq Done(f) \cup {Item(f)} /\ Done(f) \subseteq Done(g)
  BY <1>1, <1>2, AdvanceFacts
<1>4. stack' = <<g>> \o Tail(Tail(stack))
  BY DEF Return
<1> HIDE DEF g
<1>5. /\ stack' \in Seq(Frame) /\ Len(stack') = Len(stack) - 1 /\ stack'[1] = g
      /\ \A i \in 2..Len(stack') : stack'[i] = stack[i + 1]
  BY <1>1, <1>3, <1>4, Returned
<1>6. \A i \in 1..Len(stack') :
          /\ i + 1 \in 2..Len(stack) /\ i + 1 \in 1..Len(stack)
          /\ stack'[i].node = stack[i + 1].node /\ stack'[i].walk = stack[i + 1].walk
          /\ i # 1 => stack'[i] = stack[i + 1]
  BY <1>1, <1>3, <1>5
<1>7. \A i \in 1..Len(stack') : Done(stack'[i]) \subseteq
         Done(stack[i + 1]) \cup (IF i = 1 THEN {Item(stack[2])} ELSE {})
  <2> TAKE i \in 1..Len(stack')
  <2>1. CASE i = 1
    BY <1>3, <1>5, <2>1
  <2>2. CASE i # 1
    BY <1>6, <2>2
  <2>3. QED
    BY <2>1, <2>2
<1>8. Len(stack') \in Nat
  BY <1>1, <1>5
<1>9. stack'[1] = Advance(stack[2])
  BY <1>5 DEF g
<1>10. QED
  BY <1>2, <1>5, <1>6, <1>7, <1>8, <1>9

\* A return keeps the stack in order if the step takes windows away from no
\* list that is still being walked, and leaves the node it returns from as the
\* caller expects it.
LEMMA ReturnKeepsStack ==
    ASSUME IInv, pc # "main", Len(stack) >= 2, Return,
           live' \subseteq live, branches' \in GraphType,
           \A n \in Nodes \ live : branches'[n] \in {branches[n], <<>>},
           \A n \in Nodes : win'[n].marked => win[n].marked,
           \A i \in 2..Len(stack) :
              /\ branches'[stack[i].node] = branches[stack[i].node]
              /\ stack[i].node \in live' \cup {Roots}
              /\ stack[i].node # Roots =>
                   win'[stack[i].node].marked = win[stack[i].node].marked,
           Removing' = Removing, pc' \in {"removing", "polling"},
           NEW top \in Nodes, top = Top.node,
           stack[2].walk = "apply" /\ win[top].marked => Dead(top)',
           stack[2].walk = "remove" => Gone(top)'
    PROVE  /\ StackOK' /\ stack' \in Seq(Frame) /\ Len(stack') = Len(stack) - 1
           /\ stack'[1] = Advance(stack[2])
           /\ \A i \in 2..Len(stack') : stack'[i] = stack[i + 1]
           /\ Item(stack[2]) \in DOMAIN branches[stack[2].node]
           /\ branches[stack[2].node][Item(stack[2])] = top
<1> DEFINE f == stack[2]
           g == Advance(f)
<1>1. /\ stack \in Seq(Frame) /\ Len(stack) \in Nat \ {0} /\ Top = stack[1]
      /\ f \in Frame /\ 2 \in 1..Len(stack)
  BY TopFacts DEF Top
<1>2. /\ Item(f) \in DOMAIN branches[f.node]
      /\ branches[f.node][Item(f)] = Top.node
      /\ Top.walk = "apply" => f.walk = "apply"
  <2>1. 1 \in 1..Len(stack) - 1
    BY <1>1
  <2>2. QED
    BY <1>1, <2>1 DEF IInv, StackOK, Linked
<1>3. /\ g \in Frame /\ g.node = f.node /\ g.walk = f.walk /\ g.at = Item(f)
      /\ Done(g) \subseteq Done(f) \cup {Item(f)} /\ Done(f) \subseteq Done(g)
  BY <1>1, <1>2, AdvanceFacts
<1>4. stack'[1] = g
  BY ReturnFrames
<1> HIDE DEF g
<1>5. /\ stack' \in Seq(Frame) /\ Len(stack') = Len(stack) - 1 /\ stack'[1] = g
      /\ \A i \in 2..Len(stack') : stack'[i] = stack[i + 1]
  BY <1>4, ReturnFrames
<1>6. \A i \in 1..Len(stack') :
          /\ i + 1 \in 2..Len(stack) /\ i + 1 \in 1..Len(stack)
          /\ stack'[i].node = stack[i + 1].node /\ stack'[i].walk = stack[i + 1].walk
          /\ i # 1 => stack'[i] = stack[i + 1]
  BY <1>1, <1>5, ReturnFrames
<1>7. Shape(stack')
  <2>1. \A i \in 1..Len(stack') : stack'[i].node = Roots <=> i = Len(stack')
    <3> TAKE i \in 1..Len(stack')
    <3>1. stack[i + 1].node = Roots <=> i + 1 = Len(stack)
      BY <1>6 DEF IInv, StackOK, Shape
    <3>2. QED
      BY <1>1, <1>5, <1>6, <3>1
  <2>2. Len(stack') \in 1..Len(stack') /\ Len(stack') + 1 = Len(stack)
    BY <1>1, <1>5
  <2>3. stack'[Len(stack')].walk \in {"apply", "branches"}
    BY <1>1, <1>6, <2>2 DEF IInv, StackOK, Shape
  <2>4. ASSUME NEW i \in 1..Len(stack'), NEW j \in 1..Len(stack'),
               stack'[i].node = stack'[j].node
        PROVE  i = j
    <3>1. i + 1 = j + 1
      BY <1>6, <2>4 DEF IInv, StackOK, Shape
    <3>2. QED
      BY <3>1
  <2>5. QED
    BY <2>1, <2>3, <2>4 DEF Shape
<1>8. Linked(stack)'
  <2>1. ASSUME NEW i \in 1..Len(stack') - 1, NEW h, h = stack'[i + 1]
        PROVE  /\ Item(h)' \in DOMAIN branches'[h.node]
               /\ branches'[h.node][Item(h)'] = stack'[i].node
               /\ stack'[i].walk = "apply" => h.walk = "apply"
               /\ stack'[i].walk = "remove" /\ h.walk = "apply"
                    => win'[stack'[i].node].marked
    <3>1. /\ i \in 1..Len(stack') /\ i + 1 \in 1..Len(stack') /\ i + 1 # 1
          /\ i + 1 \in 1..Len(stack) - 1 /\ i + 2 \in 2..Len(stack)
          /\ (i + 1) + 1 = i + 2
      BY <1>1, <1>5
    <3>2. h = stack[i + 2] /\ branches'[h.node] = branches[h.node]
      BY <1>6, <2>1, <3>1
    <3>3. Item(h)' = Item(h)
      BY <3>2 DEF Item
    <3>4. /\ Item(h) \in DOMAIN branches[h.node]
          /\ branches[h.node][Item(h)] = stack[i + 1].node
          /\ stack[i + 1].walk = "apply" => h.walk = "apply"
          /\ stack[i + 1].walk = "remove" /\ h.walk = "apply"
               => win[stack[i + 1].node].marked
      BY <3>1, <3>2 DEF IInv, StackOK, Linked
    <3>5. /\ stack'[i].node = stack[i + 1].node /\ stack'[i].walk = stack[i + 1].walk
          /\ win'[stack[i + 1].node].marked = win[stack[i + 1].node].marked
      <4>1. i + 1 # Len(stack) /\ i + 1 \in 1..Len(stack)
        BY <1>1, <3>1
      <4>2. stack[i + 1].node # Roots
        BY <4>1 DEF IInv, StackOK, Shape
      <4>3. QED
        BY <1>6, <3>1, <4>2
    <3>6. QED
      BY <3>1, <3>2, <3>3, <3>4, <3>5
  <2>2. QED
    BY <2>1 DEF Linked, Item
<1>9. \A i \in 1..Len(stack') : FrameOK(stack[i])'
  <2> TAKE i \in 1..Len(stack')
  <2> DEFINE o == stack[i + 1]
  <2>0. PICK h : h = stack'[i]
    OBVIOUS
  <2>1. /\ o \in Frame /\ o.node \in Places /\ FrameOK(o)
        /\ h.node = o.node /\ h.walk = o.walk
        /\ branches'[o.node] = branches[o.node] /\ o.node \in live' \cup {Roots}
    <3>1. o \in Frame
      BY <1>1, <1>6
    <3>2. QED
      BY <1>6, <2>0, <3>1 DEF Frame, IInv, StackOK
  <2>2. branches[o.node] \in Seq(Nodes)
    BY <2>1 DEF IInv, TypeOK
  <2>3. h.at <= Len(branches'[h.node])
    <3>1. CASE i = 1
      BY <1>2, <1>3, <1>5, <2>0, <2>1, <2>2, <3>1
    <3>2. CASE i # 1
      BY <1>6, <2>0, <2>1, <3>2 DEF FrameOK
    <3>3. QED
      BY <3>1, <3>2
  <2>4. Done(h)' = Done(h) /\ Done(h) \subseteq DOMAIN branches[o.node]
    BY <2>1 DEF Done
  <2>5. ASSUME NEW j \in Done(h)
        PROVE  j \in Done(o) \/ (i = 1 /\ branches[o.node][j] = top)
    <3>1. CASE i = 1
      BY <1>2, <1>3, <1>5, <2>0, <2>5, <3>1
    <3>2. CASE i # 1
      BY <1>6, <2>0, <2>5, <3>2
    <3>3. QED
      BY <3>1, <3>2
  <2>6. \A j \in Done(h) : branches[o.node][j] \in Nodes
    BY <2>2, <2>4
  <2>7. ASSUME h.walk = "apply", NEW j \in Done(h), NEW c, c = branches[o.node][j],
               win'[c].marked
        PROVE  Dead(c)'
    <3>1. win[c].marked /\ c \in Nodes
      BY <2>6, <2>7
    <3>2. CASE j \in Done(o)
      <4>1. Dead(c)
        BY <2>1, <2>7, <3>1, <3>2 DEF FrameOK
      <4>2. QED
        BY <3>1, <4>1, DeadStays
    <3>3. CASE i = 1 /\ c = top
      BY <1>3, <1>5, <2>0, <2>7, <3>1, <3>3
    <3>4. QED
      BY <2>5, <2>7, <3>2, <3>3
  <2>8. ASSUME h.walk = "remove", NEW j \in Done(h), NEW c, c = branches[o.node][j]
        PROVE  Gone(c)'
    <3>1. c \in Nodes
      BY <2>6, <2>8
    <3>2. CASE j \in Done(o)
      <4>1. Gone(c)
        BY <2>1, <2>8, <3>1, <3>2 DEF FrameOK
      <4>2. QED
        BY <3>1, <4>1, DeadStays
    <3>3. CASE i = 1 /\ c = top
      BY <1>3, <1>5, <2>0, <2>8, <3>3
    <3>4. QED
      BY <2>5, <2>8, <3>2, <3>3
  <2>9. h.walk = "apply" /\ h.node # Roots => ~win'[h.node].marked
    BY <2>1 DEF FrameOK, Places
  <2>10. h.node \in live' \cup {Roots}
    BY <2>1
  <2>11. /\ h.node = o.node /\ branches'[h.node] = branches[o.node]
         /\ Done(h)' = Done(h)
    BY <2>1, <2>4
  <2>12. QED
    BY <2>0, <2>3, <2>7, <2>8, <2>9, <2>10, <2>11 DEF FrameOK
<1>10. Walks(stack)'
  <2>1. \A i \in 1..Len(stack') : IF Removing THEN stack'[i].walk \in {"apply", "remove"}
               ELSE stack'[i].walk \in {"branches", "drain", "frozen"}
    BY <1>6 DEF IInv, StackOK, Walks
  <2>2. QED
    BY <2>1 DEF Walks
<1>11. stack' # <<>> /\ pc' # "main" /\ pc' # "callback"
  BY <1>1, <1>5
<1>12. StackOK'
  BY <1>7, <1>8, <1>9, <1>10, <1>11 DEF StackOK, Shape
<1>13. QED
  BY <1>2, <1>5, <1>12 DEF g

-----------------------------------------------------------------------------
(* Steps that free windows.                                                 *)

LEMMA OneParent ==
    ASSUME SinglePlace, NEW x \in Places, NEW z \in Places,
           NEW y \in Elements(branches[x]), y \in Elements(branches[z])
    PROVE  x = z
  BY DEF SinglePlace, Elements

\* Freeing the set F, all of it taken from the list of p, leaves a forest with
\* the rest of the windows.
LEMMA FreeKeepsForest ==
    ASSUME IInv, branches' \in GraphType,
           NEW p \in Allocated \cup {Roots}, NEW F \in SUBSET Nodes, p \notin F,
           \A x \in Places : x \notin F /\ x # p => branches'[x] = branches[x],
           \A x \in F : branches'[x] = <<>> /\ Elements(branches[x]) \subseteq F,
           Elements(branches'[p]) \subseteq Elements(branches[p]),
           Elements(branches[p]) \subseteq Elements(branches'[p]) \cup F,
           \A i, j \in DOMAIN branches'[p] : branches'[p][i] = branches'[p][j] => i = j,
           \A x \in Places \ F : Elements(branches'[x]) \cap F = {}
    PROVE  Allocated' = Allocated \ F /\ SinglePlace' /\ FreeEmpty'
<1> DEFINE old == SubtreeOf(branches, Roots)
           new == SubtreeOf(branches', Roots)
<1>1. branches \in GraphType /\ Roots \in Places /\ p \in Places /\ Roots \notin F
  BY SubtreeClosed, WindowsAssumption
  DEF IInv, TypeOK, GraphType, Places, Allocated, Subtree
<1>2. /\ Roots \in old /\ old \subseteq Places
      /\ \A x \in old : Elements(branches[x]) \subseteq old
  BY <1>1, SubtreeClosed
<1>3. /\ Roots \in new /\ new \subseteq Places
      /\ \A x \in new : Elements(branches'[x]) \subseteq new
  BY <1>1, SubtreeClosed
<1>4. \A x \in Places : Elements(branches'[x]) \subseteq Elements(branches[x])
  BY DEF Elements
<1>5. new \subseteq old \ F
  <2> DEFINE S == old \ F
  <2>1. S \in SUBSET Places /\ Roots \in S
    BY <1>1, <1>2
  <2>2. \A x \in S : Elements(branches'[x]) \subseteq S
    BY <1>2, <1>4
  <2> HIDE DEF S
  <2>3. new \subseteq S
    BY <2>1, <2>2, SubtreeLeast
  <2>4. QED
    BY <2>3 DEF S
<1>6. old \subseteq new \cup F
  <2> DEFINE S == new \cup F
  <2>1. S \in SUBSET Places /\ Roots \in S
    BY <1>3 DEF Places
  <2>2. ASSUME NEW x \in S PROVE Elements(branches[x]) \subseteq S
    <3>1. CASE x \in F
      BY <3>1
    <3>2. CASE x \notin F /\ x = p
      BY <1>3, <3>2
    <3>3. CASE x \notin F /\ x # p
      BY <1>3, <3>3
    <3>4. QED
      BY <3>1, <3>2, <3>3
  <2> HIDE DEF S
  <2>3. old \subseteq S
    BY <2>1, <2>2, SubtreeLeast
  <2>4. QED
    BY <2>3 DEF S
<1>7. Allocated' = Allocated \ F
  BY <1>1, <1>5, <1>6 DEF Allocated, Subtree
<1>8. SinglePlace'
  <2> SUFFICES ASSUME NEW x \in Places, NEW z \in Places,
                      NEW i \in DOMAIN branches'[x], NEW j \in DOMAIN branches'[z],
                      branches'[x][i] = branches'[z][j]
               PROVE  x = z /\ i = j
    BY DEF SinglePlace
  <2>1. /\ branches'[x][i] \in Elements(branches[x])
        /\ branches'[x][i] \in Elements(branches[z])
    BY <1>4, SMTT(20) DEF Elements
  <2>2. x = z
    BY <2>1, OneParent DEF IInv
  <2>3. CASE x = p
    BY <2>2, <2>3
  <2>4. CASE x # p /\ x \notin F
    BY <2>2, <2>4 DEF IInv, SinglePlace
  <2>5. CASE x \in F
    BY <2>5
  <2>6. QED
    BY <2>2, <2>3, <2>4, <2>5
<1>9. FreeEmpty'
  <2> SUFFICES ASSUME NEW n \in Nodes \ Allocated' PROVE branches'[n] = <<>>
    BY DEF FreeEmpty
  <2>1. CASE n \in F
    BY <2>1
  <2>2. CASE n \notin F
    <3>1. n \notin Allocated /\ n # p /\ n \in Places
      BY <1>7, <2>2, WindowsAssumption DEF Places
    <3>2. QED
      BY <2>2, <3>1 DEF IInv, FreeEmpty
  <2>3. QED
    BY <2>1, <2>2
<1>10. QED
  BY <1>7, <1>8, <1>9

\* What a suspended loop has removed stays accounted for after a return.
LEMMA ReturnKeepsRemoved ==
    ASSUME IInv, Len(stack) >= 2, Len(stack') = Len(stack) - 1,
           stack'[1] = Advance(stack[2]),
           \A i \in 2..Len(stack') : stack'[i] = stack[i + 1],
           Item(stack[2]) \in DOMAIN branches[stack[2].node],
           NEW i \in 2..Len(stack),
           branches'[stack[i].node] = branches[stack[i].node]
    PROVE  /\ i - 1 \in 1..Len(stack') /\ Removed(stack[i]) \subseteq Removed(stack[i - 1])'
           /\ stack'[i - 1].walk = stack[i].walk /\ stack'[i - 1].node = stack[i].node
<1>1. /\ stack \in Seq(Frame) /\ Len(stack) \in Nat /\ 2 \in 1..Len(stack)
      /\ stack[2] \in Frame /\ i \in 1..Len(stack)
  BY DEF IInv, TypeOK
<1>2. i - 1 \in 1..Len(stack')
  BY <1>1
<1>3. /\ Done(stack[i]) \subseteq Done(stack'[i - 1])
      /\ stack'[i - 1].walk = stack[i].walk /\ stack'[i - 1].node = stack[i].node
  <2>1. CASE i = 2
    BY <1>1, <2>1, AdvanceFacts
  <2>2. CASE i # 2
    <3>1. i - 1 \in 2..Len(stack') /\ (i - 1) + 1 = i
      BY <1>1, <2>2
    <3>2. stack'[i - 1] = stack[i]
      BY <3>1
    <3>3. QED
      BY <3>2
  <2>3. QED
    BY <2>1, <2>2
<1>4. PICK g : g = stack'[i - 1]
  OBVIOUS
<1>5. Done(g)' = Done(g)
  BY <1>3, <1>4 DEF Done
<1>6. QED
  BY <1>2, <1>3, <1>4, <1>5 DEF Removed

\* A removed window and its children make up its subtree.
LEMMA DeadSubtree ==
    ASSUME IInv, NEW c \in Nodes,
           \A d \in Elements(branches[c]) : d \notin live /\ branches[d] = <<>>
    PROVE  /\ Subtree(c) \subseteq {c} \cup Elements(branches[c])
           /\ c \in Subtree(c) /\ Elements(branches[c]) \subseteq Subtree(c)
           /\ Subtree(c) \subseteq Nodes
<1> DEFINE S == {c} \cup Elements(branches[c])
<1>1. branches \in GraphType /\ c \in Places /\ branches[c] \in Seq(Nodes)
  BY DEF IInv, TypeOK, GraphType, Places
<1>2. S \subseteq Nodes
  BY <1>1, ElementFacts
<1>3. S \in SUBSET Places /\ c \in S
  BY <1>2 DEF Places
<1>4. \A x \in S : Elements(branches[x]) \subseteq S
  BY DEF Elements
<1> HIDE DEF S
<1>5. SubtreeOf(branches, c) \subseteq S
  BY <1>3, <1>4, SubtreeLeast
<1>6. c \in Subtree(c) /\ Elements(branches[c]) \subseteq Subtree(c)
  BY <1>1, SubtreeClosed DEF Subtree
<1>7. QED
  BY <1>2, <1>5, <1>6 DEF S, Subtree

\* What the steps of the removal walk that free windows have in common: the
\* windows of F leave the list of the node whose frame is innermost or hang
\* below it, none of them Exists, and the rest of the graph stays.
Frees(F) ==
    /\ F \subseteq Nodes /\ F \cap live = {} /\ Top.node \notin F
    /\ branches' \in GraphType /\ win' \in [Nodes -> Window]
    /\ \A x \in F : branches'[x] = <<>> /\ Elements(branches[x]) \subseteq F
    /\ \A x \in Places \ F :
          /\ Elements(branches'[x]) = Elements(branches[x]) \ F
          /\ x # Top.node => branches'[x] = branches[x]
    /\ Allocated' = Allocated \ F /\ SinglePlace' /\ FreeEmpty'
    /\ \A n \in F : ~win'[n].marked
    /\ \A n \in Nodes \ F : /\ win'[n].marked = win[n].marked
                           /\ win'[n].deallocs = win[n].deallocs
    /\ removed' = (removed \/ F # {})

\* Freeing windows changes nothing but the record of freed freezers elsewhere.
LEMMA FreedFacts ==
    ASSUME NEW w \in [Nodes -> Window], NEW gone
    PROVE  /\ FreedFrom(w, gone) \in [Nodes -> Window]
           /\ \A n \in Nodes : n \in gone => ~FreedFrom(w, gone)[n].marked
           /\ \A n \in Nodes : n \notin gone =>
                 /\ FreedFrom(w, gone)[n].marked = w[n].marked
                 /\ FreedFrom(w, gone)[n].deallocs = w[n].deallocs
<1>1. ASSUME NEW r \in Window
      PROVE  /\ [r EXCEPT !.freezerFreed = TRUE].marked = r.marked
             /\ [r EXCEPT !.freezerFreed = TRUE].deallocs = r.deallocs
  BY DEF Window
<1>2. ~NewWindow.marked
  BY DEF NewWindow
<1>3. \A n \in Nodes : w[n] \in Window
  OBVIOUS
<1>4. QED
  BY <1>1, <1>2, <1>3, WindowTypes DEF FreedFrom

\* The filtering that ends a removal loop frees the marked windows of its list.
LEMMA ApplyDoneFrees ==
    ASSUME IInv, ApplyDone
    PROVE  \E F : /\ Frees(F)
                 /\ \A c \in Elements(Children) : win[c].marked => c \in F
<1> DEFINE p == Top.node
           gone == {c \in Elements(Children) : win[c].marked}
           freed == UNION {Subtree(c) : c \in gone}
<1>1. /\ stack \in Seq(Frame) /\ stack # <<>> /\ Len(stack) \in Nat \ {0}
      /\ branches \in GraphType /\ Children \in Seq(Nodes) /\ Children = branches[p]
      /\ Top \in Frame /\ FrameOK(Top) /\ p \in Places
      /\ p = Roots <=> Len(stack) = 1
      /\ Top.walk = "apply" /\ ForwardDone(Top) /\ pc = "removing" /\ Top = stack[1]
  BY TopFacts DEF ApplyDone, Children, Top
<1>2. p \in live \cup {Roots} /\ p \in Allocated \cup {Roots}
  BY <1>1 DEF FrameOK, IInv
<1>3. PICK rest \in Lists :
        /\ IsRemainder(rest, Children, gone)
        /\ branches' = [n \in Places |->
                          IF n \in freed THEN <<>>
                          ELSE IF n = p THEN rest ELSE branches[n]]
  BY DEF ApplyDone
<1>4. win' = FreedFrom(win, freed) /\ live' = live /\ removed' = (removed \/ freed # {})
  BY DEF ApplyDone
<1>5. \A c \in gone : Dead(c) /\ c \in Nodes
  <2> TAKE c \in gone
  <2>1. PICK j \in DOMAIN Children : c = Children[j]
    BY DEF Elements
  <2>2. j \in Done(Top)
    BY <1>1, <2>1, ElementFacts DEF Done, ForwardDone, Frame
  <2>3. QED
    BY <1>1, <2>1, <2>2, ElementFacts DEF FrameOK
<1>6. \A c \in gone : /\ Subtree(c) \subseteq {c} \cup Elements(branches[c])
                      /\ c \in Subtree(c) /\ Elements(branches[c]) \subseteq Subtree(c)
                      /\ Subtree(c) \subseteq Nodes
  BY <1>5, DeadSubtree DEF Dead, Gone
<1>7. gone \subseteq freed /\ freed \subseteq Nodes
  BY <1>6
<1>8. \A x \in freed : x \in gone \/ \E c \in gone : x \in Elements(branches[c])
  BY <1>6
<1>9. freed \cap live = {} /\ p \notin freed
  BY <1>2, <1>5, <1>7, <1>8, WindowsAssumption DEF Dead, Gone
<1>10. \A x \in freed : Elements(branches[x]) \subseteq freed
  <2> TAKE x \in freed
  <2>1. CASE x \in gone
    BY <1>6, <2>1
  <2>2. CASE \E c \in gone : x \in Elements(branches[c])
    BY <1>5, <2>2 DEF Dead, Gone, Elements
  <2>3. QED
    BY <1>8, <2>1, <2>2
<1>11. /\ rest \in Seq(Nodes) /\ Elements(rest) = Elements(Children) \ gone
       /\ \A i, j \in DOMAIN rest : rest[i] = rest[j] => i = j
  <2>1. \A i, j \in DOMAIN Children : Children[i] = Children[j] => i = j
    BY <1>1 DEF IInv, SinglePlace
  <2>2. QED
    BY <1>1, <1>3, <2>1, RemainderFacts
<1> HIDE DEF gone, freed
<1>12. /\ branches' \in GraphType /\ branches'[p] = rest
       /\ \A x \in freed : branches'[x] = <<>>
       /\ \A x \in Places : x \notin freed /\ x # p => branches'[x] = branches[x]
  BY <1>1, <1>3, <1>7, <1>9, <1>11 DEF GraphType, Places
<1>13. \A x \in Places \ freed : Elements(branches'[x]) \cap freed = {}
  <2> SUFFICES ASSUME NEW x \in Places \ freed, NEW y \in Elements(branches'[x]), y \in freed
               PROVE  FALSE
    OBVIOUS
  <2>1. y \in Elements(branches[x])
    BY <1>1, <1>11, <1>12
  <2>2. CASE y \in gone
    <3>1. y \in Elements(branches[p])
      BY <1>1, <2>2 DEF gone
    <3>2. x = p
      BY <1>1, <2>1, <3>1, OneParent DEF IInv
    <3>3. QED
      BY <1>11, <1>12, <2>2, <3>2
  <2>3. CASE \E c \in gone : y \in Elements(branches[c])
    <3>1. PICK c \in gone : y \in Elements(branches[c])
      BY <2>3
    <3>2. c \in Places /\ c \in freed
      BY <1>5, <1>7 DEF Places
    <3>3. x = c
      BY <2>1, <3>1, <3>2, OneParent DEF IInv
    <3>4. QED
      BY <3>2, <3>3
  <2>4. QED
    BY <1>8, <2>2, <2>3
<1>14. Allocated' = Allocated \ freed /\ SinglePlace' /\ FreeEmpty'
  <2>1. /\ Elements(branches'[p]) \subseteq Elements(branches[p])
        /\ Elements(branches[p]) \subseteq Elements(branches'[p]) \cup freed
    BY <1>1, <1>7, <1>11, <1>12
  <2>2. \A i, j \in DOMAIN branches'[p] : branches'[p][i] = branches'[p][j] => i = j
    BY <1>11, <1>12
  <2>3. freed \in SUBSET Nodes
    BY <1>7
  <2>4. QED
    BY <1>2, <1>9, <1>10, <1>12, <1>13, <2>1, <2>2, <2>3, FreeKeepsForest
<1>15. \A x \in Places \ freed : Elements(branches'[x]) = Elements(branches[x]) \ freed
  <2> TAKE x \in Places \ freed
  <2>1. CASE x = p
    BY <1>1, <1>7, <1>11, <1>12, <1>13, <2>1
  <2>2. CASE x # p
    BY <1>12, <1>13, <2>2
  <2>3. QED
    BY <2>1, <2>2
<1>16. /\ win' \in [Nodes -> Window]
       /\ \A n \in freed : ~win'[n].marked
       /\ \A n \in Nodes \ freed : /\ win'[n].marked = win[n].marked
                                   /\ win'[n].deallocs = win[n].deallocs
  <2>1. win \in [Nodes -> Window]
    BY DEF IInv, TypeOK
  <2>2. QED
    BY <1>4, <1>7, <2>1, FreedFacts
<1>17. Frees(freed)
  BY <1>4, <1>7, <1>9, <1>10, <1>12, <1>14, <1>15, <1>16 DEF Frees
<1>18. \A c \in Elements(Children) : win[c].marked => c \in freed
  BY <1>7 DEF gone
<1>19. QED
  BY <1>17, <1>18

LEMMA ApplyDoneInv == IInv /\ ApplyDone => IInv'
<1> SUFFICES ASSUME IInv, ApplyDone PROVE IInv'
  OBVIOUS
<1> DEFINE p == Top.node
<1>1. /\ stack \in Seq(Frame) /\ stack # <<>> /\ Len(stack) \in Nat \ {0}
      /\ branches \in GraphType /\ Children \in Seq(Nodes) /\ Children = branches[p]
      /\ Top \in Frame /\ FrameOK(Top) /\ p \in Places
      /\ p = Roots <=> Len(stack) = 1
      /\ Top.walk = "apply" /\ ForwardDone(Top) /\ pc = "removing" /\ Top = stack[1]
  BY TopFacts DEF ApplyDone, Children, Top
<1>2. p \in live \cup {Roots} /\ p \in Allocated \cup {Roots}
  BY <1>1 DEF FrameOK, IInv
<1>3. PICK freed : /\ Frees(freed)
                   /\ \A c \in Elements(Children) : win[c].marked => c \in freed
  BY ApplyDoneFrees
<1>4. live' = live /\ removed' \in BOOLEAN
  BY DEF ApplyDone
<1>5. /\ freed \subseteq Nodes /\ freed \cap live = {} /\ p \notin freed
      /\ \A x \in freed : Elements(branches[x]) \subseteq freed
  BY <1>3 DEF Frees
<1>6. /\ branches' \in GraphType
      /\ \A x \in freed : branches'[x] = <<>>
      /\ \A x \in Places : x \notin freed /\ x # p => branches'[x] = branches[x]
  BY <1>3 DEF Frees
<1>7. Allocated' = Allocated \ freed /\ SinglePlace' /\ FreeEmpty'
  BY <1>3 DEF Frees
<1>8. live' \subseteq Allocated'
  BY <1>4, <1>5, <1>7 DEF IInv
<1>9. /\ win' \in [Nodes -> Window]
      /\ \A n \in Nodes : win'[n].marked => win[n].marked
      /\ \A n \in Nodes \ freed : win'[n].marked = win[n].marked
  BY <1>3 DEF Frees
<1>10. \A n \in Allocated' \ live : n \in Allocated /\ n \notin freed /\ n \in Nodes
  BY <1>1, <1>7, SubtreeClosed DEF Allocated, Subtree, Places
<1>11. \A n \in Removed(Top) : win[n].marked => n \in freed
  BY <1>1, <1>3 DEF Removed, Done, Elements
<1>12. CASE p = Roots
  <2>1. /\ changing' = FALSE /\ dirty' = TRUE /\ pc' = "polling"
        /\ stack' = <<NewFrame("branches", Roots)>>
    BY <1>12 DEF ApplyDone
  <2> DEFINE f == NewFrame("branches", Roots)
  <2>2. f \in Frame /\ f.walk = "branches" /\ f.node = Roots /\ f.at = 0
    BY NewFrameFacts DEF Places
  <2> HIDE DEF f
  <2>3. /\ stack' \in Seq(Frame) /\ Len(stack') = 1 /\ stack'[1] = f
        /\ \A i \in 1..Len(stack') : stack'[i] = f /\ i = 1
    BY <2>1, <2>2 DEF f
  <2>4. FrameOK(f)'
    <3>1. Len(branches'[Roots]) \in Nat
      BY <1>6 DEF GraphType, Places
    <3>2. QED
      BY <2>2, <3>1 DEF FrameOK
  <2>5. Shape(stack') /\ Linked(stack)' /\ Walks(stack)'
    BY <2>1, <2>2, <2>3 DEF Shape, Linked, Walks, Removing
  <2>6. \A i \in 1..Len(stack') : FrameOK(stack[i])'
    BY <2>3, <2>4
  <2>7. StackOK'
    BY <2>1, <2>3, <2>5, <2>6 DEF StackOK, Shape
  <2>8. Allocated' \subseteq live
    <3> SUFFICES ASSUME NEW n \in Allocated' \ live PROVE FALSE
      OBVIOUS
    <3>1. n \in Allocated /\ n \notin freed
      BY <1>10
    <3>2. PICK i \in 1..Len(stack) :
            \/ n \in Removed(stack[i]) /\ (stack[i].walk = "apply" => win[n].marked)
            \/ stack[i].node = Roots /\ \E d \in Removed(stack[i]) :
                   win[d].marked /\ n \in Elements(branches[d])
      BY <1>1, <3>1 DEF IInv, Accounted, Removing
    <3>3. stack[i] = Top
      <4>1. Len(stack) = 1
        BY <1>1, <1>12
      <4>2. i = 1
        BY <4>1
      <4>3. QED
        BY <1>1, <4>2
    <3>4. CASE n \in Removed(Top) /\ win[n].marked
      BY <1>11, <3>1, <3>4
    <3>5. CASE \E d \in Removed(Top) : win[d].marked /\ n \in Elements(branches[d])
      BY <1>5, <1>11, <3>1, <3>5
    <3>6. QED
      BY <1>1, <3>2, <3>3, <3>4, <3>5
  <2>9. Accounted'
    BY <1>4, <2>1, <2>8 DEF Accounted, Removing
  <2>10. TypeOK'
    BY <1>4, <1>6, <1>9, <2>1, <2>3 DEF IInv, TypeOK, GraphType
  <2>11. QED
    BY <1>7, <1>8, <2>7, <2>9, <2>10 DEF IInv
<1>13. CASE p # Roots
  <2>1. Return /\ UNCHANGED <<changing, dirty, pc>> /\ Len(stack) >= 2
    <3>1. Len(stack) # 1
      BY <1>1, <1>13
    <3>2. Len(stack) >= 2
      BY <1>1, <3>1, TwoOrMore
    <3>3. QED
      BY <1>13, <3>2 DEF ApplyDone, flags
  <2>2. p \in Nodes /\ p \in live
    BY <1>1, <1>2, <1>13 DEF Places
  <2>3. ~win[p].marked
    BY <1>1, <1>13 DEF FrameOK
  <2>4. stack[2].walk = "apply"
    <3>1. 1 \in 1..Len(stack) - 1
      BY <1>1, <2>1
    <3>2. QED
      BY <1>1, <3>1 DEF IInv, StackOK, Linked
  <2>5. \A i \in 2..Len(stack) :
          /\ branches'[stack[i].node] = branches[stack[i].node]
          /\ stack[i].node \in live' \cup {Roots}
          /\ stack[i].node # Roots =>
               win'[stack[i].node].marked = win[stack[i].node].marked
    <3> TAKE i \in 2..Len(stack)
    <3>1. i \in 1..Len(stack) /\ 1 \in 1..Len(stack) /\ i # 1
      BY <1>1
    <3>2. stack[i].node # p
      BY <1>1, <3>1 DEF IInv, StackOK, Shape
    <3>3. stack[i].node \in live \cup {Roots}
      BY <3>1 DEF IInv, StackOK, FrameOK
    <3>4. stack[i].node \in Places
      BY <3>3 DEF IInv, TypeOK, Places
    <3>5. stack[i].node \notin freed
      BY <1>5, <3>3, WindowsAssumption
    <3>6. QED
      BY <1>4, <1>6, <1>9, <3>2, <3>3, <3>4, <3>5 DEF Places
  <2>6. \A n \in Nodes \ live : branches'[n] \in {branches[n], <<>>}
    <3> TAKE n \in Nodes \ live
    <3>1. n \in Places /\ n # p
      BY <2>2 DEF Places
    <3>2. CASE n \in freed
      BY <1>6, <3>2
    <3>3. CASE n \notin freed
      BY <1>6, <3>1, <3>3
    <3>4. QED
      BY <3>2, <3>3
  <2>7. Removing' = Removing /\ pc' \in {"removing", "polling"} /\ pc # "main" /\ Removing
    BY <1>1, <2>1 DEF Removing
  <2>8. /\ StackOK' /\ stack' \in Seq(Frame) /\ Len(stack') = Len(stack) - 1
        /\ stack'[1] = Advance(stack[2])
        /\ \A i \in 2..Len(stack') : stack'[i] = stack[i + 1]
        /\ Item(stack[2]) \in DOMAIN branches[stack[2].node]
    BY <1>4, <1>6, <1>9, <2>1, <2>2, <2>3, <2>4, <2>5, <2>6, <2>7, ReturnKeepsStack
  <2>9. Accounted'
    <3> SUFFICES ASSUME NEW n \in Allocated' \ live
                 PROVE  \E i \in 1..Len(stack') :
            \/ n \in Removed(stack[i])' /\ (stack'[i].walk = "apply" => win'[n].marked)
            \/ stack'[i].node = Roots /\ \E d \in Removed(stack[i])' :
                   win'[d].marked /\ n \in Elements(branches'[d])
      BY <1>4, <2>7 DEF Accounted
    <3>1. n \in Allocated /\ n \notin freed /\ n \in Nodes
      BY <1>10
    <3>2. PICK i \in 1..Len(stack) :
            \/ n \in Removed(stack[i]) /\ (stack[i].walk = "apply" => win[n].marked)
            \/ stack[i].node = Roots /\ \E d \in Removed(stack[i]) :
                   win[d].marked /\ n \in Elements(branches[d])
      BY <2>7, <3>1 DEF IInv, Accounted
    <3>3. i # 1
      BY <1>1, <1>11, <1>13, <3>1, <3>2
    <3>4. i \in 2..Len(stack)
      BY <1>1, <3>3
    <3>5. /\ i - 1 \in 1..Len(stack') /\ Removed(stack[i]) \subseteq Removed(stack[i - 1])'
          /\ stack'[i - 1].walk = stack[i].walk /\ stack'[i - 1].node = stack[i].node
      BY <2>1, <2>5, <2>8, <3>4, ReturnKeepsRemoved
    <3>6. CASE n \in Removed(stack[i]) /\ (stack[i].walk = "apply" => win[n].marked)
      BY <1>9, <3>1, <3>5, <3>6
    <3>7. CASE stack[i].node = Roots /\ \E d \in Removed(stack[i]) :
                   win[d].marked /\ n \in Elements(branches[d])
      <4>1. PICK d \in Removed(stack[i]) : win[d].marked /\ n \in Elements(branches[d])
        BY <3>7
      <4>2. d \in Nodes /\ d \notin live
        BY <4>1, RemovedFacts DEF Dead
      <4>3. d \notin freed /\ d # p
        BY <1>5, <2>2, <3>1, <4>1, <4>2
      <4>4. win'[d].marked /\ branches'[d] = branches[d]
        BY <1>6, <1>9, <4>1, <4>2, <4>3 DEF Places
      <4>5. QED
        BY <3>5, <3>7, <4>1, <4>4
    <3>8. QED
      BY <3>2, <3>6, <3>7
  <2>10. TypeOK'
    BY <1>4, <1>6, <1>9, <2>1, <2>8 DEF IInv, TypeOK, GraphType
  <2>11. QED
    BY <1>7, <1>8, <2>8, <2>9, <2>10 DEF IInv
<1>14. QED
  BY <1>12, <1>13

\* While a deallocation callback runs, nothing is left below its window.
LEMMA CallbackTop ==
    ASSUME IInv, pc = "callback"
    PROVE  /\ Top = stack[1] /\ Top.walk = "remove" /\ ReverseDone(Top) /\ FrameOK(Top)
           /\ stack \in Seq(Frame) /\ Len(stack) \in Nat \ {0} /\ Len(stack) >= 2
           /\ branches \in GraphType /\ branches[Top.node] \in Seq(Nodes)
           /\ Top.node \in Nodes /\ Top.node \in live /\ Top.node \in Allocated
           /\ Top.node \in Places /\ Top.node # Roots
           /\ \A c \in Elements(branches[Top.node]) : c \in Nodes /\ Gone(c)
<1> DEFINE n == Top.node
<1>1. /\ stack \in Seq(Frame) /\ Len(stack) \in Nat \ {0} /\ Top = stack[1]
      /\ branches \in GraphType /\ n \in Places /\ n # Roots /\ Len(stack) >= 2
      /\ Top.walk = "remove" /\ ReverseDone(Top) /\ FrameOK(Top)
  <2>1. /\ stack[1].walk = "remove" /\ ReverseDone(stack[1])
    BY DEF IInv, StackOK
  <2>2. QED
    BY <2>1, TopFacts, TwoOrMore DEF Top
<1>2. n \in Nodes /\ n \in live /\ n \in Allocated
  BY <1>1 DEF FrameOK, IInv, Places
<1>3. branches[n] \in Seq(Nodes) /\ Elements(branches[n]) \subseteq Nodes
  BY <1>1, ElementFacts DEF GraphType
<1>4. \A c \in Elements(branches[n]) : Gone(c)
  <2> TAKE c \in Elements(branches[n])
  <2>1. PICK j \in DOMAIN branches[n] : c = branches[n][j]
    BY DEF Elements
  <2>2. j \in 1..Len(branches[n]) /\ branches[n] # <<>>
    BY <1>3, <2>1
  <2>3. Top.at = 1
    BY <1>1, <2>2 DEF ReverseDone
  <2>4. j \in Done(Top)
    BY <1>1, <2>1, <2>2, <2>3 DEF Done
  <2>5. QED
    BY <1>1, <2>1, <2>4 DEF FrameOK
<1>5. QED
  BY <1>1, <1>2, <1>3, <1>4

\* Closing a window changes nothing else of it.
LEMMA ClosedWindow ==
    ASSUME NEW v \in Window
    PROVE  LET q == [v EXCEPT !.closed = TRUE]
           IN  /\ q \in Window /\ q.marked = v.marked /\ q.deallocs = v.deallocs
               /\ q.frozen = v.frozen /\ q.frozenEvent = v.frozenEvent
BY DEF Window

\* The end of the removal of a window that is no root frees what hangs below it.
LEMMA DeallocReturnsFrees ==
    ASSUME IInv, DeallocReturns
    PROVE  Frees(IF stack[2].node # Roots THEN Elements(branches[Top.node]) ELSE {})
<1> DEFINE n == Top.node
           prunes == stack[2].node # Roots
           freed == IF prunes THEN Subtree(n) \ {n} ELSE {}
<1>1. /\ branches \in GraphType /\ n \in Places /\ n # Roots
      /\ n \in Nodes /\ n \in live /\ n \in Allocated
      /\ branches[n] \in Seq(Nodes) /\ Elements(branches[n]) \subseteq Nodes
      /\ \A c \in Elements(branches[n]) : Gone(c)
  BY CallbackTop DEF DeallocReturns
<1>2. /\ branches' = [m \in Places |->
            IF m \in freed \/ (prunes /\ m = n) THEN <<>> ELSE branches[m]]
      /\ win' = FreedFrom([win EXCEPT ![n].closed = TRUE], freed)
      /\ removed' = (removed \/ freed # {})
  BY DEF DeallocReturns
<1>3. /\ Subtree(n) \subseteq {n} \cup Elements(branches[n])
      /\ Elements(branches[n]) \subseteq Subtree(n) /\ n \notin Elements(branches[n])
  BY <1>1, DeadSubtree DEF Gone
<1>4. freed = IF prunes THEN Elements(branches[n]) ELSE {}
  BY <1>3
<1> HIDE DEF freed
<1>5. /\ freed \subseteq Nodes /\ freed \subseteq Elements(branches[n])
      /\ freed \cap live = {} /\ n \notin freed
      /\ \A x \in freed : branches[x] = <<>>
  BY <1>1, <1>3, <1>4 DEF Gone
<1>6. /\ branches' \in GraphType
      /\ branches'[n] = IF prunes THEN <<>> ELSE branches[n]
      /\ \A x \in freed : branches'[x] = <<>>
      /\ \A x \in Places : x \notin freed /\ x # n => branches'[x] = branches[x]
  BY <1>1, <1>2, <1>5 DEF GraphType, Places
<1>7. \A x \in Places \ freed : Elements(branches'[x]) \cap freed = {}
  <2> SUFFICES ASSUME NEW x \in Places \ freed, NEW y \in Elements(branches'[x]), y \in freed
               PROVE  FALSE
    OBVIOUS
  <2>1. y \in Elements(branches[x])
    BY <1>6 DEF Elements
  <2>2. x = n
    BY <1>1, <1>5, <2>1, OneParent DEF IInv
  <2>3. prunes
    BY <1>4
  <2>4. QED
    BY <1>6, <2>2, <2>3 DEF Elements
<1>8. \A x \in freed : branches'[x] = <<>> /\ Elements(branches[x]) \subseteq freed
  BY <1>5, <1>6 DEF Elements
<1>9. /\ Elements(branches'[n]) \subseteq Elements(branches[n])
      /\ Elements(branches[n]) \subseteq Elements(branches'[n]) \cup freed
  BY <1>4, <1>6 DEF Elements
<1>10. Allocated' = Allocated \ freed /\ SinglePlace' /\ FreeEmpty'
  <2>1. \A i, j \in DOMAIN branches'[n] : branches'[n][i] = branches'[n][j] => i = j
    BY <1>1, <1>6 DEF IInv, SinglePlace
  <2>2. n \in Allocated \cup {Roots} /\ freed \in SUBSET Nodes
    BY <1>1, <1>5
  <2>3. QED
    BY <1>5, <1>6, <1>7, <1>8, <1>9, <2>1, <2>2, FreeKeepsForest
<1>11. \A x \in Places \ freed : Elements(branches'[x]) = Elements(branches[x]) \ freed
  <2> TAKE x \in Places \ freed
  <2>1. CASE x = n
    BY <1>7, <1>9, <2>1
  <2>2. CASE x # n
    BY <1>6, <1>7, <2>2
  <2>3. QED
    BY <2>1, <2>2
<1>12. /\ win' \in [Nodes -> Window]
       /\ \A m \in freed : ~win'[m].marked
       /\ \A m \in Nodes \ freed : /\ win'[m].marked = win[m].marked
                                   /\ win'[m].deallocs = win[m].deallocs
  <2> DEFINE w == [win EXCEPT ![n].closed = TRUE]
  <2>1. win \in [Nodes -> Window]
    BY DEF IInv, TypeOK
  <2>2. w \in [Nodes -> Window]
        /\ \A m \in Nodes : w[m].marked = win[m].marked /\ w[m].deallocs = win[m].deallocs
    <3> DEFINE q == [win[n] EXCEPT !.closed = TRUE]
    <3>1. q \in Window /\ q.marked = win[n].marked /\ q.deallocs = win[n].deallocs
      <4>1. win[n] \in Window
        BY <1>1, <2>1
      <4>2. QED
        BY <4>1, ClosedWindow
    <3> HIDE DEF q
    <3>2. w = [win EXCEPT ![n] = q]
      BY DEF q
    <3> HIDE DEF w
    <3>3. QED
      BY <1>1, <2>1, <3>1, <3>2
  <2> HIDE DEF w
  <2>3. win' = FreedFrom(w, freed)
    BY <1>2 DEF w
  <2>4. QED
    BY <1>5, <2>2, <2>3, FreedFacts
<1>13. Frees(freed)
  BY <1>2, <1>5, <1>6, <1>8, <1>10, <1>11, <1>12 DEF Frees
<1>14. QED
  BY <1>4, <1>13

LEMMA DeallocReturnsInv == IInv /\ DeallocReturns => IInv'
<1> SUFFICES ASSUME IInv, DeallocReturns PROVE IInv'
  OBVIOUS
<1> DEFINE n == Top.node
           prunes == stack[2].node # Roots
           freed == IF prunes THEN Elements(branches[n]) ELSE {}
<1>1. /\ stack \in Seq(Frame) /\ Len(stack) \in Nat \ {0} /\ Top = stack[1]
      /\ branches \in GraphType /\ n \in Places /\ n # Roots /\ Len(stack) >= 2
      /\ Top.walk = "remove" /\ ReverseDone(Top) /\ pc = "callback" /\ FrameOK(Top)
  BY CallbackTop DEF DeallocReturns
<1>2. n \in Nodes /\ n \in live /\ n \in Allocated
  BY <1>1, CallbackTop
<1>3. live' = live \ {n} /\ pc' = "removing" /\ Return /\ UNCHANGED flags
  BY DEF DeallocReturns
<1>4. branches[n] \in Seq(Nodes) /\ Elements(branches[n]) \subseteq Nodes
  BY <1>1, CallbackTop
<1>5. \A c \in Elements(branches[n]) : Gone(c)
  BY <1>1, CallbackTop
<1>6. Frees(freed)
  BY DeallocReturnsFrees
<1>7. /\ freed \subseteq Nodes /\ freed \subseteq Elements(branches[n])
      /\ freed \cap live = {} /\ n \notin freed
  BY <1>6 DEF Frees
<1>8. /\ branches' \in GraphType
      /\ prunes => branches'[n] = <<>>
      /\ Elements(branches'[n]) = Elements(branches[n]) \ freed
      /\ \A x \in freed : branches'[x] = <<>>
      /\ \A x \in Places : x \notin freed /\ x # n => branches'[x] = branches[x]
  <2>1. /\ branches' \in GraphType
        /\ Elements(branches'[n]) = Elements(branches[n]) \ freed
        /\ \A x \in freed : branches'[x] = <<>>
        /\ \A x \in Places : x \notin freed /\ x # n => branches'[x] = branches[x]
    BY <1>1, <1>6, <1>7 DEF Frees
  <2>2. branches'[n] \in Seq(Nodes)
    BY <1>1, <2>1 DEF GraphType
  <2>3. prunes => branches'[n] = <<>>
    BY <2>1, <2>2, ElementFacts
  <2>4. QED
    BY <2>1, <2>3
<1> HIDE DEF freed
<1>9. Allocated' = Allocated \ freed /\ SinglePlace' /\ FreeEmpty' /\ removed' \in BOOLEAN
  BY <1>6 DEF Frees
<1>10. live' \subseteq Allocated' /\ live' \subseteq live
  BY <1>3, <1>7, <1>9 DEF IInv
<1>11. /\ win' \in [Nodes -> Window]
       /\ \A m \in Nodes : win'[m].marked => win[m].marked
       /\ \A m \in Nodes \ freed : win'[m].marked = win[m].marked
  BY <1>6 DEF Frees
<1>12. \A i \in 2..Len(stack) :
          /\ branches'[stack[i].node] = branches[stack[i].node]
          /\ stack[i].node \in live' \cup {Roots}
          /\ stack[i].node # Roots =>
               win'[stack[i].node].marked = win[stack[i].node].marked
  <2> TAKE i \in 2..Len(stack)
  <2>1. i \in 1..Len(stack) /\ 1 \in 1..Len(stack) /\ i # 1
    BY <1>1
  <2>2. stack[i].node # n
    BY <1>1, <2>1 DEF IInv, StackOK, Shape
  <2>3. stack[i].node \in live \cup {Roots}
    BY <2>1 DEF IInv, StackOK, FrameOK
  <2>4. stack[i].node \in Places
    BY <2>3 DEF IInv, TypeOK, Places
  <2>5. stack[i].node \notin freed
    BY <1>7, <2>3, WindowsAssumption
  <2>6. QED
    BY <1>3, <1>8, <1>11, <2>2, <2>3, <2>4, <2>5 DEF Places
<1>13. \A m \in Nodes \ live : branches'[m] \in {branches[m], <<>>}
  BY <1>2, <1>8 DEF Places
<1>14. PICK t \in Nodes : t = n
  BY <1>2
<1>15. Dead(t)' /\ (prunes => Gone(t)')
  <2>1. \A d \in Elements(branches[n]) : Gone(d)'
    BY <1>4, <1>5, <1>10, <1>13, DeadStays
  <2>2. Elements(branches'[t]) \subseteq Elements(branches[n])
    BY <1>8, <1>14 DEF Elements
  <2>3. t \notin live'
    BY <1>3, <1>14
  <2>4. prunes => branches'[t] = <<>>
    BY <1>8, <1>14
  <2>5. QED
    BY <2>1, <2>2, <2>3, <2>4 DEF Dead, Gone
<1>16. /\ stack[2].walk = "apply" => win[n].marked
       /\ stack[2].walk = "remove" => prunes
       /\ ~prunes => stack[2].walk = "apply"
       /\ stack[2].walk \in {"apply", "remove"}
       /\ stack[2].node \in Places /\ branches[stack[2].node][Item(stack[2])] = n
  <2>1. 1 \in 1..Len(stack) - 1 /\ 2 \in 1..Len(stack) /\ stack # <<>>
    BY <1>1
  <2>2. /\ stack[2].walk = "apply" => win[n].marked
        /\ branches[stack[2].node][Item(stack[2])] = n
    BY <1>1, <2>1 DEF IInv, StackOK, Linked
  <2>3. stack[2].walk \in {"apply", "remove"}
    BY <1>1, <2>1 DEF IInv, StackOK, Walks, Removing
  <2>4. ~prunes => 2 = Len(stack)
    BY <2>1 DEF IInv, StackOK, Shape
  <2>5. ~prunes => stack[2].walk \in {"apply", "branches"}
    BY <2>1, <2>4 DEF IInv, StackOK, Shape
  <2>6. stack[2] \in Frame
    BY <1>1, <2>1
  <2>7. QED
    BY <2>2, <2>3, <2>5, <2>6 DEF Frame
<1>17. Removing' = Removing /\ pc' \in {"removing", "polling"} /\ pc # "main" /\ Removing
  BY <1>1, <1>3 DEF Removing
<1>18. /\ StackOK' /\ stack' \in Seq(Frame) /\ Len(stack') = Len(stack) - 1
       /\ stack'[1] = Advance(stack[2])
       /\ \A i \in 2..Len(stack') : stack'[i] = stack[i + 1]
       /\ Item(stack[2]) \in DOMAIN branches[stack[2].node]
  BY <1>1, <1>3, <1>8, <1>10, <1>11, <1>12, <1>13, <1>14, <1>15, <1>16, <1>17,
     ReturnKeepsStack
<1>19. Accounted'
  <2>1. t \in Removed(stack[1])'
    <3>1. PICK g : g = stack'[1]
      OBVIOUS
    <3>2. stack[2] \in Frame /\ 2 \in 2..Len(stack)
      BY <1>1
    <3>3. Item(stack[2]) \in Done(g) /\ g.node = stack[2].node
      BY <1>16, <1>18, <3>1, <3>2, AdvanceFacts
    <3>4. branches'[g.node] = branches[g.node]
      BY <1>12, <3>2, <3>3
    <3>5. Done(g)' = Done(g)
      BY <3>4 DEF Done
    <3>6. Removed(g)' = {branches[g.node][j] : j \in Done(g)}
      BY <3>4, <3>5 DEF Removed
    <3>7. t \in Removed(g)'
      BY <1>14, <1>16, <3>3, <3>6
    <3>8. QED
      BY <3>1, <3>7 DEF Removed, Done
  <2>2. /\ stack'[1].walk = stack[2].walk /\ stack'[1].node = stack[2].node
        /\ 1 \in 1..Len(stack')
    <3>1. stack[2] \in Frame
      BY <1>1
    <3>2. QED
      BY <1>1, <1>18, <3>1, AdvanceFacts
  <2>3. win'[t].marked = win[n].marked
    BY <1>2, <1>7, <1>11, <1>14
  <2> SUFFICES ASSUME NEW m \in Allocated' \ live'
               PROVE  \E i \in 1..Len(stack') :
            \/ m \in Removed(stack[i])' /\ (stack'[i].walk = "apply" => win'[m].marked)
            \/ stack'[i].node = Roots /\ \E d \in Removed(stack[i])' :
                   win'[d].marked /\ m \in Elements(branches'[d])
    BY <1>17 DEF Accounted
  <2>4. m \in Allocated /\ m \notin freed /\ m \in Nodes
    BY <1>1, <1>9, SubtreeClosed DEF Allocated, Subtree, Places
  <2>5. CASE m = t
    BY <1>16, <2>1, <2>2, <2>3, <2>5
  <2>6. CASE m # t
    <3>1. PICK i \in 1..Len(stack) :
            \/ m \in Removed(stack[i]) /\ (stack[i].walk = "apply" => win[m].marked)
            \/ stack[i].node = Roots /\ \E d \in Removed(stack[i]) :
                   win[d].marked /\ m \in Elements(branches[d])
      BY <1>3, <1>14, <1>17, <2>4, <2>6 DEF IInv, Accounted
    <3>2. CASE i = 1
      <4>1. m \in Removed(Top)
        BY <1>1, <3>1, <3>2
      <4>2. m \in Elements(branches[n])
        BY <4>1 DEF Removed, Done, Elements
      <4>3. ~prunes
        BY <2>4, <4>2 DEF freed
      <4>4. /\ stack'[1].node = Roots /\ win'[t].marked
            /\ m \in Elements(branches'[t])
        BY <1>8, <1>14, <1>16, <2>2, <2>3, <2>4, <4>2, <4>3
      <4>5. QED
        BY <2>1, <2>2, <4>4
    <3>3. CASE i # 1
      <4>1. i \in 2..Len(stack)
        BY <1>1, <3>3
      <4>2. /\ i - 1 \in 1..Len(stack') /\ Removed(stack[i]) \subseteq Removed(stack[i - 1])'
            /\ stack'[i - 1].walk = stack[i].walk /\ stack'[i - 1].node = stack[i].node
        BY <1>1, <1>12, <1>18, <4>1, ReturnKeepsRemoved
      <4>3. CASE m \in Removed(stack[i]) /\ (stack[i].walk = "apply" => win[m].marked)
        BY <1>11, <2>4, <4>2, <4>3
      <4>4. CASE stack[i].node = Roots /\ \E d \in Removed(stack[i]) :
                   win[d].marked /\ m \in Elements(branches[d])
        <5>1. PICK d \in Removed(stack[i]) : win[d].marked /\ m \in Elements(branches[d])
          BY <4>4
        <5>2. d \in Nodes /\ d \notin live
          BY <5>1, RemovedFacts DEF Dead
        <5>3. d \notin freed /\ d # n
          BY <1>2, <1>5, <1>7, <5>1, <5>2 DEF Elements, Gone
        <5>4. win'[d].marked /\ branches'[d] = branches[d]
          BY <1>8, <1>11, <5>1, <5>2, <5>3 DEF Places
        <5>5. QED
          BY <4>2, <4>4, <5>1, <5>4
      <4>5. QED
        BY <3>1, <4>3, <4>4
    <3>4. QED
      BY <3>2, <3>3
  <2>7. QED
    BY <2>5, <2>6
<1>20. TypeOK'
  <2>1. changing' = changing /\ dirty' = dirty
    BY <1>3 DEF flags
  <2>2. QED
    BY <1>3, <1>8, <1>9, <1>10, <1>11, <1>18, <2>1 DEF IInv, TypeOK, GraphType
<1>21. QED
  BY <1>9, <1>10, <1>18, <1>19, <1>20 DEF IInv

-----------------------------------------------------------------------------
(* Every step of Windows keeps IInv, and what follows for the users of the *)
(* window graph.                                                           *)

(* Calls from the walks' loops.                                             *)

LEMMA ApplyNextInv == IInv /\ ApplyNext => IInv'
<1> SUFFICES ASSUME IInv, ApplyNext PROVE IInv'
  OBVIOUS
<1> DEFINE walk == IF win[Children[Item(Top)]].marked THEN "remove" ELSE "apply"
<1>1. /\ pc = "removing" /\ Top.walk = "apply" /\ ~ForwardDone(Top) /\ CallNext(walk)
      /\ UNCHANGED <<graph, flags, pc, removed>>
  BY DEF ApplyNext
<1>2. /\ walk \in {"apply", "remove", "drain", "frozen"} /\ walk \in {"apply", "remove"}
      /\ walk = "apply" => ~win[Children[Item(Top)]].marked
      /\ walk = "remove" => win[Children[Item(Top)]].marked
  OBVIOUS
<1> HIDE DEF walk
<1>3. QED
  BY <1>1, <1>2, CallNextInv

LEMMA RemoveNextInv == IInv /\ RemoveNext => IInv'
<1> SUFFICES ASSUME IInv, RemoveNext PROVE IInv'
  OBVIOUS
<1>1. /\ pc = "removing" /\ Top.walk = "remove" /\ ~ReverseDone(Top)
      /\ CallNext("remove") /\ UNCHANGED <<graph, flags, pc, removed>>
  BY DEF RemoveNext
<1>2. QED
  BY <1>1, CallNextInv

LEMMA PollNextInv == IInv /\ PollNext => IInv'
<1> SUFFICES ASSUME IInv, PollNext PROVE IInv'
  OBVIOUS
<1> DEFINE walk == IF win[Children[Item(Top)]].frozen THEN "frozen" ELSE "drain"
<1>1. /\ pc = "polling" /\ Top.walk = "branches" /\ ~ForwardDone(Top) /\ CallNext(walk)
      /\ UNCHANGED <<graph, flags, pc, removed>>
  BY DEF PollNext
<1>2. walk \in {"drain", "frozen"}
  OBVIOUS
<1> HIDE DEF walk
<1>3. QED
  BY <1>1, <1>2, CallNextInv

-----------------------------------------------------------------------------
(* The remaining steps of the polling walk, and the start of a pass.        *)

\* A walk starts with one frame, at the list of the detached windows.
LEMMA LoneFrame ==
    ASSUME branches \in GraphType, NEW walk \in {"apply", "branches"},
           branches' = branches, live' = live, win' = win,
           stack' = <<NewFrame(walk, Roots)>>,
           pc' = IF walk = "apply" THEN "removing" ELSE "polling"
    PROVE  stack' \in Seq(Frame) /\ StackOK'
<1> DEFINE f == NewFrame(walk, Roots)
<1>1. f \in Frame /\ f.walk = walk /\ f.node = Roots /\ f.at = 0
  BY NewFrameFacts DEF Places
<1> HIDE DEF f
<1>2. /\ stack' \in Seq(Frame) /\ Len(stack') = 1 /\ stack'[1] = f /\ stack' # <<>>
      /\ \A i \in 1..Len(stack') : stack'[i] = f /\ i = 1
  BY <1>1 DEF f
<1>3. branches'[Roots] \in Seq(Nodes)
  BY DEF GraphType, Places
<1>4. Done(f)' = {}
  <2>1. \A j \in DOMAIN branches'[Roots] : j \in Nat /\ j # 0 /\ ~(j <= 0)
    BY <1>3
  <2>2. QED
    BY <1>1, <2>1 DEF Done
<1>5. FrameOK(f)'
  BY <1>1, <1>3, <1>4 DEF FrameOK
<1>6. Shape(stack') /\ Linked(stack)' /\ Walks(stack)'
  BY <1>1, <1>2 DEF Shape, Linked, Walks, Removing
<1>7. \A i \in 1..Len(stack') : FrameOK(stack[i])'
  BY <1>2, <1>5
<1>8. QED
  BY <1>2, <1>6, <1>7 DEF StackOK, Shape

LEMMA ProcessEventsInv == IInv /\ ProcessEvents => IInv'
<1> SUFFICES ASSUME IInv, ProcessEvents PROVE IInv'
  OBVIOUS
<1> DEFINE walk == IF changing THEN "apply" ELSE "branches"
<1>1. /\ branches' = branches /\ win' = win /\ live' = live /\ removed' = FALSE
      /\ changing' \in BOOLEAN /\ dirty' \in BOOLEAN /\ ~Removing
      /\ stack' = <<NewFrame(walk, Roots)>>
      /\ pc' = IF walk = "apply" THEN "removing" ELSE "polling"
  BY DEF ProcessEvents, graph, flags, IInv, TypeOK, Removing
<1>2. walk \in {"apply", "branches"} /\ branches \in GraphType
  BY DEF IInv, TypeOK, GraphType
<1> HIDE DEF walk
<1>3. stack' \in Seq(Frame) /\ StackOK'
  BY <1>1, <1>2, LoneFrame
<1>4. Allocated \subseteq live
  BY <1>1 DEF IInv, Accounted
<1>5. Allocated' = Allocated
  BY <1>1 DEF Allocated, Subtree
<1>6. Accounted'
  BY <1>1, <1>4, <1>5 DEF Accounted
<1>7. TypeOK'
  BY <1>1, <1>3 DEF IInv, TypeOK
<1>8. QED
  BY <1>1, <1>3, <1>5, <1>6, <1>7 DEF IInv, SinglePlace, FreeEmpty

LEMMA PollReturnsInv == IInv /\ PollReturns => IInv'
<1> SUFFICES ASSUME IInv, PollReturns PROVE IInv'
  OBVIOUS
<1>1. /\ branches' = branches /\ win' = win /\ live' = live /\ removed' = removed
      /\ changing' = changing /\ dirty' = dirty /\ pc = "polling"
      /\ Allocated' = Allocated /\ ~Removing
  BY DEF PollReturns, graph, flags, Allocated, Subtree, Removing
<1>2. Allocated \subseteq live
  BY <1>1 DEF IInv, Accounted
<1>3. /\ stack \in Seq(Frame) /\ Len(stack) \in Nat \ {0} /\ branches \in GraphType
      /\ Top = stack[1] /\ Top.node \in Places
      /\ Top.node = Roots <=> Len(stack) = 1
  BY <1>1, TopFacts DEF Top
<1>4. stack' \in Seq(Frame) /\ StackOK' /\ ~Removing'
  <2>1. CASE Len(stack) = 1
    <3>1. pc' = "main" /\ stack' = <<>>
      BY <2>1 DEF PollReturns
    <3>2. stack' \in Seq(Frame) /\ Len(stack') = 0 /\ ~Removing'
      BY <3>1 DEF Removing
    <3>3. QED
      BY <3>1, <3>2 DEF StackOK, Shape, Linked, Walks
  <2>2. CASE Len(stack) # 1
    <3>1. Return /\ pc' = pc /\ Len(stack) >= 2
      BY <1>3, <2>2, TwoOrMore DEF PollReturns
    <3>2. PICK top \in Nodes : top = Top.node
      BY <1>3, <2>2 DEF Places
    <3>3. 2 \in 1..Len(stack) /\ \A i \in 2..Len(stack) : i \in 1..Len(stack)
      BY <1>3, <3>1
    <3>4. stack[2].walk \notin {"apply", "remove"}
      BY <1>1, <3>3 DEF IInv, StackOK, Walks
    <3>5. \A i \in 2..Len(stack) : stack[i].node \in live \cup {Roots}
      BY <3>3 DEF IInv, StackOK, FrameOK
    <3>6. Removing' = Removing
      BY <3>1 DEF Removing
    <3>7. branches' \in GraphType /\ \A n \in Nodes \ live : branches'[n] \in {branches[n], <<>>}
      BY <1>1, <1>3
    <3>8. QED
      BY <1>1, <3>1, <3>2, <3>4, <3>5, <3>6, <3>7, ReturnKeepsStack
  <2>3. QED
    BY <2>1, <2>2
<1>5. pc' \in {"main", "polling"}
  BY <1>1 DEF PollReturns
<1>6. Accounted'
  BY <1>1, <1>2, <1>4 DEF Accounted
<1>7. TypeOK'
  BY <1>1, <1>4, <1>5 DEF IInv, TypeOK
<1>8. QED
  BY <1>1, <1>4, <1>6, <1>7 DEF IInv, SinglePlace, FreeEmpty

LEMMA DrainedInv == IInv /\ Drained => IInv'
<1> SUFFICES ASSUME IInv, Drained PROVE IInv'
  OBVIOUS
<1> DEFINE f == NewFrame("branches", Top.node)
<1>1. /\ branches' = branches /\ win' = win /\ live' = live /\ removed' = removed
      /\ changing' = changing /\ dirty' = dirty /\ pc = "polling" /\ pc' = pc
      /\ Allocated' = Allocated /\ ~Removing /\ ~Removing' /\ Top.walk \in {"drain", "frozen"}
  BY DEF Drained, graph, flags, Allocated, Subtree, Removing
<1>2. Allocated \subseteq live
  BY <1>1 DEF IInv, Accounted
<1>3. /\ stack \in Seq(Frame) /\ stack # <<>> /\ Len(stack) \in Nat \ {0}
      /\ branches \in GraphType /\ Top = stack[1] /\ Top.node \in Places
      /\ Top.node # Roots /\ FrameOK(Top)
  BY <1>1, TopFacts DEF Top
<1>4. f \in Frame /\ f.walk = "branches" /\ f.node = Top.node /\ f.at = 0
  BY <1>3, NewFrameFacts
<1>5. stack' = <<f>> \o Tail(stack)
  BY DEF Drained
<1> HIDE DEF f
<1>6. /\ stack' \in Seq(Frame) /\ Len(stack') = Len(stack) /\ stack'[1] = f
      /\ \A i \in 2..Len(stack') : stack'[i] = stack[i]
  BY <1>3, <1>4, <1>5, Replaced
<1>7. \A i \in 1..Len(stack') :
         stack'[i].node = stack[i].node /\ (i # 1 => stack'[i] = stack[i])
  BY <1>3, <1>4, <1>6
<1>8. Shape(stack')
  <2>1. Len(stack) # 1
    BY <1>1, <1>3 DEF IInv, StackOK, Shape
  <2>2. Len(stack') \in 2..Len(stack')
    BY <1>3, <1>6, <2>1
  <2>3. stack'[Len(stack')].walk \in {"apply", "branches"}
    BY <1>3, <1>6, <2>2 DEF IInv, StackOK, Shape
  <2>4. QED
    BY <1>6, <1>7, <2>3 DEF IInv, StackOK, Shape
<1>9. Linked(stack')
  <2> SUFFICES ASSUME NEW i \in 1..Len(stack') - 1
               PROVE  /\ Item(stack'[i + 1]) \in DOMAIN branches[stack'[i + 1].node]
                      /\ branches[stack'[i + 1].node][Item(stack'[i + 1])] = stack'[i].node
                      /\ stack'[i].walk = "apply" => stack'[i + 1].walk = "apply"
                      /\ stack'[i].walk = "remove" /\ stack'[i + 1].walk = "apply"
                           => win[stack'[i].node].marked
    BY DEF Linked
  <2>1. i \in 1..Len(stack) - 1 /\ i \in 1..Len(stack') /\ stack'[i + 1] = stack[i + 1]
    BY <1>3, <1>6, <1>7
  <2>2. /\ Item(stack[i + 1]) \in DOMAIN branches[stack[i + 1].node]
        /\ branches[stack[i + 1].node][Item(stack[i + 1])] = stack[i].node
        /\ stack[i].walk = "apply" => stack[i + 1].walk = "apply"
        /\ stack[i].walk = "remove" /\ stack[i + 1].walk = "apply"
             => win[stack[i].node].marked
    BY <2>1 DEF IInv, StackOK, Linked
  <2>3. i = 1 => stack'[i].walk = "branches"
    BY <1>4, <1>6
  <2>4. i # 1 => stack'[i] = stack[i]
    BY <1>7, <2>1
  <2>5. stack'[i].node = stack[i].node
    BY <1>7, <2>1
  <2>6. QED
    BY <2>1, <2>2, <2>3, <2>4, <2>5
<1>10. \A i \in 1..Len(stack') : FrameOK(stack'[i])
  <2>1. Len(branches[Top.node]) \in Nat
    BY <1>3 DEF GraphType
  <2>2. FrameOK(f)
    BY <1>3, <1>4, <2>1 DEF FrameOK
  <2>3. QED
    BY <1>6, <1>7, <2>2 DEF IInv, StackOK
<1>11. Walks(stack')
  <2>1. \A i \in 1..Len(stack') : stack'[i].walk \in {"branches", "drain", "frozen"}
    BY <1>1, <1>4, <1>6, <1>7 DEF IInv, StackOK, Walks
  <2>2. QED
    BY <1>1, <2>1 DEF Walks
<1>12. stack' # <<>>
  BY <1>3, <1>6
<1>13. StackOK'
  <2>1. Linked(stack)'
    BY <1>1, <1>9 DEF Linked, Item
  <2>2. \A i \in 1..Len(stack') : FrameOK(stack[i])'
    BY <1>1, <1>10 DEF FrameOK, Done, Dead, Gone
  <2>3. Walks(stack)'
    BY <1>1, <1>11 DEF Walks, Removing
  <2>4. QED
    BY <1>1, <1>8, <1>12, <2>1, <2>2, <2>3 DEF StackOK, Shape
<1>14. Accounted'
  BY <1>1, <1>2 DEF Accounted
<1>15. TypeOK'
  BY <1>1, <1>6 DEF IInv, TypeOK
<1>16. QED
  BY <1>1, <1>13, <1>14, <1>15 DEF IInv, SinglePlace, FreeEmpty

-----------------------------------------------------------------------------
(* Steps that change members of the nodes only.                             *)

LEMMA MembersInv ==
    ASSUME IInv, UNCHANGED <<branches, live, stack>>, TypeOK', Removing' = Removing,
           Removing => \A n \in Nodes : win'[n].marked = win[n].marked,
           pc' = "main" <=> pc = "main",
           pc' = "callback" => stack[1].walk = "remove" /\ ReverseDone(stack[1])
    PROVE  IInv'
<1>1. /\ Allocated' = Allocated
      /\ \A c : Gone(c)' = Gone(c) /\ Dead(c)' = Dead(c)
      /\ \A f : Item(f)' = Item(f) /\ Done(f)' = Done(f) /\ Removed(f)' = Removed(f)
  BY DEF Allocated, Subtree, Gone, Dead, Item, Done, Removed
<1>2. stack \in Seq(Frame) /\ \A i \in 1..Len(stack) : stack[i].node \in Places
  <2>1. stack \in Seq(Frame) /\ \A i \in 1..Len(stack) : stack[i] \in Frame
    BY DEF IInv, TypeOK
  <2>2. QED
    BY <2>1 DEF Frame
<1>3. \A i \in 1..Len(stack) : ~Removing => stack[i].walk \notin {"apply", "remove"}
  BY DEF IInv, StackOK, Walks
<1>4. ASSUME NEW i \in 1..Len(stack) PROVE FrameOK(stack[i])'
  <2>1. FrameOK(stack[i])
    BY DEF IInv, StackOK
  <2>2. CASE Removing
    <3>1. \A j \in Done(stack[i]) : branches[stack[i].node][j] \in Nodes
      <4>1. branches[stack[i].node] \in Seq(Nodes)
        BY <1>2 DEF IInv, TypeOK
      <4>2. \A j \in Done(stack[i]) : j \in DOMAIN branches[stack[i].node]
        BY DEF Done
      <4>3. QED
        BY <4>1, <4>2
    <3>2. QED
      BY <1>1, <1>2, <2>1, <2>2, <3>1 DEF FrameOK, Places
  <2>3. CASE ~Removing
    BY <1>3, <2>1, <2>3 DEF FrameOK
  <2>4. QED
    BY <2>2, <2>3
<1>5. Linked(stack)'
  <2>1. ASSUME NEW i \in 1..Len(stack) - 1
        PROVE  /\ Item(stack[i + 1]) \in DOMAIN branches[stack[i + 1].node]
               /\ branches[stack[i + 1].node][Item(stack[i + 1])] = stack[i].node
               /\ stack[i].walk = "apply" => stack[i + 1].walk = "apply"
               /\ stack[i].walk = "remove" /\ stack[i + 1].walk = "apply"
                    => win'[stack[i].node].marked
    <3>1. /\ Item(stack[i + 1]) \in DOMAIN branches[stack[i + 1].node]
          /\ branches[stack[i + 1].node][Item(stack[i + 1])] = stack[i].node
          /\ stack[i].walk = "apply" => stack[i + 1].walk = "apply"
          /\ stack[i].walk = "remove" /\ stack[i + 1].walk = "apply"
               => win[stack[i].node].marked
      BY DEF IInv, StackOK, Linked
    <3>2. i \in 1..Len(stack) /\ i # Len(stack) /\ i + 1 \in 1..Len(stack)
      BY <1>2
    <3>3. stack[i].node \in Nodes
      BY <1>2, <3>2 DEF IInv, StackOK, Shape, Places
    <3>4. CASE Removing
      BY <3>1, <3>3, <3>4
    <3>5. CASE ~Removing
      BY <1>3, <3>1, <3>2, <3>5
    <3>6. QED
      BY <3>4, <3>5
  <2>2. QED
    BY <1>1, <2>1 DEF Linked, Item
<1>6. Shape(stack)' /\ Walks(stack)'
  BY DEF IInv, StackOK, Shape, Walks
<1>7. pc' = "callback" => stack'[1].walk = "remove" /\ ReverseDone(stack[1])'
  BY DEF ReverseDone
<1>8. StackOK'
  BY <1>4, <1>5, <1>6, <1>7 DEF StackOK, IInv
<1>9. Accounted'
  <2>1. CASE ~Removing
    BY <1>1, <2>1 DEF IInv, Accounted
  <2>2. CASE Removing
    <3> SUFFICES ASSUME NEW n \in Allocated \ live
                 PROVE  \E i \in 1..Len(stack) :
            \/ n \in Removed(stack[i]) /\ (stack[i].walk = "apply" => win'[n].marked)
            \/ stack[i].node = Roots /\ \E d \in Removed(stack[i]) :
                   win'[d].marked /\ n \in Elements(branches[d])
      BY <1>1, <2>2 DEF Accounted, Removed, Done
    <3>1. PICK i \in 1..Len(stack) :
            \/ n \in Removed(stack[i]) /\ (stack[i].walk = "apply" => win[n].marked)
            \/ stack[i].node = Roots /\ \E d \in Removed(stack[i]) :
                   win[d].marked /\ n \in Elements(branches[d])
      BY <2>2 DEF IInv, Accounted
    <3>2. \A d \in Removed(stack[i]) : d \in Nodes
      <4>1. branches[stack[i].node] \in Seq(Nodes)
        BY <1>2 DEF IInv, TypeOK
      <4>2. \A j \in Done(stack[i]) : j \in DOMAIN branches[stack[i].node]
        BY DEF Done
      <4>3. QED
        BY <4>1, <4>2 DEF Removed
    <3>3. QED
      BY <2>2, <3>1, <3>2
  <2>3. QED
    BY <2>1, <2>2
<1>10. QED
  BY <1>1, <1>8, <1>9 DEF IInv, SinglePlace, FreeEmpty

\* User code changes members only.
LEMMA UserInv ==
    ASSUME IInv, TameCallbacks, NEW node \in Usable,
           \/ Destroy(node) \/ SetFrozenEvent(node) \/ Close(node)
           \/ \E freezer \in Usable \cup {NoNode} :
                 Freeze(node, freezer) \/ Unfreeze(node, freezer)
    PROVE  IInv'
<1>1. /\ win \in [Nodes -> Window] /\ node \in Nodes /\ live \subseteq Nodes
      /\ changing \in BOOLEAN /\ win[node] \in Window
  BY DEF IInv, TypeOK, Usable
<1>2. CASE Destroy(node)
  <2>1. \A n \in Nodes : [win[n] EXCEPT !.marked = @ \/ n \in Subtree(node)] \in Window
    BY <1>1 DEF Window
  <2>2. win' \in [Nodes -> Window]
    BY <1>2, <2>1 DEF Destroy
  <2>3. UNCHANGED <<branches, live, stack, pc, dirty, removed>> /\ changing' = TRUE
    BY <1>2 DEF Destroy, control
  <2>4. TypeOK'
    BY <2>2, <2>3 DEF IInv, TypeOK
  <2>5. pc \in {"main", "handler"}
    BY <1>2 DEF Destroy, Calls, TameCallbacks
  <2>6. QED
    BY <2>3, <2>4, <2>5, MembersInv DEF Removing
<1>3. ASSUME NEW w \in Window, w.marked = win[node].marked, win' = [win EXCEPT ![node] = w],
             UNCHANGED <<branches, live, flags, control>>
      PROVE  IInv'
  <2>1. UNCHANGED <<branches, live, stack, pc, dirty, removed, changing>>
    BY <1>3 DEF flags, control
  <2>2. win' \in [Nodes -> Window] /\ \A n \in Nodes : win'[n].marked = win[n].marked
    BY <1>1, <1>3
  <2>3. TypeOK'
    BY <2>1, <2>2 DEF IInv, TypeOK
  <2>4. pc' = "callback" => stack[1].walk = "remove" /\ ReverseDone(stack[1])
    BY <2>1 DEF IInv, StackOK
  <2>5. QED
    BY <2>1, <2>2, <2>3, <2>4, MembersInv DEF Removing
<1>4. CASE \E freezer \in Usable \cup {NoNode} : Freeze(node, freezer)
  <2>1. PICK freezer \in Usable \cup {NoNode} : Freeze(node, freezer)
    BY <1>4
  <2> DEFINE w == [win[node] EXCEPT !.frozen = TRUE, !.freezer = freezer,
                     !.freezerFreed = FALSE, !.frozenEvent = "default"]
  <2>2. w \in Window /\ w.marked = win[node].marked
    BY <1>1 DEF Window, Usable
  <2>3. win' = [win EXCEPT ![node] = w] /\ UNCHANGED <<branches, live, flags, control>>
    BY <2>1 DEF Freeze
  <2> HIDE DEF w
  <2>4. QED
    BY <1>3, <2>2, <2>3
<1>5. CASE \E freezer \in Usable \cup {NoNode} : Unfreeze(node, freezer)
  <2>1. PICK freezer \in Usable \cup {NoNode} : Unfreeze(node, freezer)
    BY <1>5
  <2> DEFINE w == [win[node] EXCEPT !.frozen = FALSE, !.freezer = freezer,
                     !.freezerFreed = FALSE, !.frozenEvent = "ignore"]
  <2>2. w \in Window /\ w.marked = win[node].marked
    BY <1>1 DEF Window, Usable
  <2>3. win' = [win EXCEPT ![node] = w] /\ UNCHANGED <<branches, live, flags, control>>
    BY <2>1 DEF Unfreeze
  <2> HIDE DEF w
  <2>4. QED
    BY <1>3, <2>2, <2>3
<1>6. CASE SetFrozenEvent(node)
  <2> DEFINE w == [win[node] EXCEPT !.frozenEvent = "client"]
  <2>1. w \in Window /\ w.marked = win[node].marked
    BY <1>1 DEF Window
  <2>2. win' = [win EXCEPT ![node] = w] /\ UNCHANGED <<branches, live, flags, control>>
    BY <1>6 DEF SetFrozenEvent
  <2> HIDE DEF w
  <2>3. QED
    BY <1>3, <2>1, <2>2
<1>7. CASE Close(node)
  <2> DEFINE w == [win[node] EXCEPT !.closed = TRUE]
  <2>1. w \in Window /\ w.marked = win[node].marked
    BY <1>1 DEF Window
  <2>2. win' = [win EXCEPT ![node] = w] /\ UNCHANGED <<branches, live, flags, control>>
    BY <1>7 DEF Close
  <2> HIDE DEF w
  <2>3. QED
    BY <1>3, <2>1, <2>2
<1>8. QED
  BY <1>2, <1>4, <1>5, <1>6, <1>7

\* So do events, their handlers, and the start of a deallocation callback.
LEMMA EventInv ==
    ASSUME IInv,
           \/ \E n \in Nodes : Arrive(n)
           \/ HandleEvent \/ HandlerReturns \/ RunDealloc
    PROVE  IInv'
<1>1. win \in [Nodes -> Window] /\ MaxEvents \in Nat
  BY WindowsAssumption DEF IInv, TypeOK
<1>2. ASSUME win' \in [Nodes -> Window], \A n \in Nodes : win'[n].marked = win[n].marked,
             UNCHANGED <<branches, live, flags, stack, removed>>,
             pc' \in {"main", "removing", "callback", "polling", "handler"},
             pc' = "main" <=> pc = "main", Removing' = Removing,
             pc' = "callback" => stack[1].walk = "remove" /\ ReverseDone(stack[1])
      PROVE  IInv'
  <2>1. TypeOK'
    BY <1>2 DEF IInv, TypeOK, flags
  <2>2. QED
    BY <1>2, <2>1, MembersInv
<1>3. ASSUME NEW n \in Nodes, Arrive(n) PROVE IInv'
  <2>1. /\ pc = "main" /\ win[n].queue < MaxEvents /\ pc' = pc
        /\ win' = [win EXCEPT ![n].queue = @ + 1]
        /\ UNCHANGED <<branches, live, flags, stack, removed>>
    BY <1>3 DEF Arrive, control
  <2>2. win[n] \in Window /\ win[n].queue \in 0..MaxEvents
    BY <1>1 DEF Window
  <2>3. win[n].queue + 1 \in 0..MaxEvents
    BY <1>1, <2>1, <2>2
  <2>4. [win[n] EXCEPT !.queue = @ + 1] \in Window
    BY <2>2, <2>3 DEF Window
  <2>5. win' \in [Nodes -> Window] /\ \A m \in Nodes : win'[m].marked = win[m].marked
    BY <1>1, <2>1, <2>4 DEF Window
  <2>6. QED
    BY <1>2, <2>1, <2>5 DEF Removing
<1>4. CASE HandleEvent
  <2> DEFINE n == Top.node
  <2>1. /\ pc = "polling" /\ Top.walk \in {"drain", "frozen"} /\ win[n].queue > 0
        /\ pc' \in {"handler", "polling"}
        /\ win' = [win EXCEPT ![n].queue = @ - 1]
        /\ UNCHANGED <<branches, live, flags, stack, removed>>
    BY <1>4 DEF HandleEvent, HasEvent, TakeEvent
  <2>2. n \in Nodes
    BY <2>1, TopFacts DEF Places
  <2> HIDE DEF n
  <2>3. win[n] \in Window /\ win[n].queue \in 0..MaxEvents
    BY <1>1, <2>2 DEF Window
  <2>4. win[n].queue - 1 \in 0..MaxEvents
    BY <1>1, <2>1, <2>3
  <2>5. [win[n] EXCEPT !.queue = @ - 1] \in Window
    BY <2>3, <2>4 DEF Window
  <2>6. win' \in [Nodes -> Window] /\ \A m \in Nodes : win'[m].marked = win[m].marked
    BY <1>1, <2>1, <2>2, <2>5 DEF Window
  <2>7. QED
    BY <1>2, <2>1, <2>6 DEF Removing
<1>5. CASE HandlerReturns
  <2>1. /\ pc = "handler" /\ pc' = "polling" /\ win' = win
        /\ UNCHANGED <<branches, live, flags, stack, removed>>
    BY <1>5 DEF HandlerReturns, graph
  <2>2. QED
    BY <1>1, <1>2, <2>1 DEF Removing
<1>6. CASE RunDealloc
  <2> DEFINE n == Top.node
             k == IF win[n].deallocs < 2 THEN win[n].deallocs + 1 ELSE win[n].deallocs
  <2>1. /\ pc = "removing" /\ Top.walk = "remove" /\ ReverseDone(Top) /\ pc' = "callback"
        /\ win' = [win EXCEPT ![n].deallocs = k]
        /\ UNCHANGED <<branches, live, flags, stack, removed>>
    BY <1>6 DEF RunDealloc
  <2>2. n \in Nodes
    BY <2>1, TopFacts DEF Places
  <2>3. win[n] \in Window /\ win[n].deallocs \in 0..2
    BY <1>1, <2>2 DEF Window
  <2>4. k \in 0..2
    BY <2>3
  <2> HIDE DEF n, k
  <2>5. [win[n] EXCEPT !.deallocs = k] \in Window
    BY <2>3, <2>4 DEF Window
  <2>6. win' \in [Nodes -> Window] /\ \A m \in Nodes : win'[m].marked = win[m].marked
    BY <1>1, <2>1, <2>2, <2>5 DEF Window
  <2>7. QED
    BY <1>2, <2>1, <2>6 DEF Removing, Top
<1>7. QED
  BY <1>3, <1>4, <1>5, <1>6

-----------------------------------------------------------------------------
(* Create: a new window at the end of a list no removal loop is reversing.  *)

\* What Create does: n joins the end of the list of parent.
Adds(parent, n) ==
    /\ n \in Nodes \ Allocated /\ n \notin live /\ n # Roots
    /\ parent \in Allocated \cup {Roots} /\ parent \in live \cup {Roots} /\ n # parent
    /\ branches' \in GraphType /\ branches[n] = <<>>
    /\ branches'[parent] = Append(branches[parent], n)
    /\ Elements(branches'[parent]) = Elements(branches[parent]) \cup {n}
    /\ \A x \in Places : x # parent => branches'[x] = branches[x]
    /\ \A x \in Places : n \notin Elements(branches[x])
    /\ Allocated' = Allocated \cup {n} /\ live' = live \cup {n}
    /\ win' = [win EXCEPT ![n] = NewWindow]

LEMMA CreateAdds ==
    ASSUME IInv, NEW parent \in Usable \cup {Roots}, Create(parent)
    PROVE  \E n : Adds(parent, n)
<1>1. PICK n \in Nodes \ Allocated :
        /\ branches' = [branches EXCEPT ![parent] = Append(@, n), ![n] = <<>>]
        /\ win' = [win EXCEPT ![n] = NewWindow]
        /\ live' = live \cup {n}
  BY DEF Create
<1>3. /\ branches \in GraphType /\ stack \in Seq(Frame) /\ win \in [Nodes -> Window]
      /\ live \subseteq Nodes /\ live \subseteq Allocated
  BY DEF IInv, TypeOK, GraphType
<1>4. /\ parent \in Allocated \cup {Roots} /\ parent \in live \cup {Roots}
      /\ parent \in Places /\ n # parent /\ n \in Places /\ n # Roots /\ n \notin live
  BY <1>1, <1>3, WindowsAssumption DEF Usable, Places
<1>5. branches[n] = <<>>
  BY <1>1 DEF IInv, FreeEmpty
<1> DEFINE s == branches[parent]
<1>6. s \in Seq(Nodes) /\ Len(s) \in Nat /\ DOMAIN s = 1..Len(s)
  BY <1>3, <1>4 DEF GraphType
<1>7. /\ branches' \in GraphType /\ branches'[parent] = Append(s, n)
      /\ \A x \in Places : x # parent => branches'[x] = branches[x]
  <2>1. Append(s, n) \in Seq(Nodes) /\ <<>> \in Seq(Nodes)
    BY <1>6
  <2> HIDE DEF s
  <2>2. branches' = [branches EXCEPT ![parent] = Append(s, n), ![n] = <<>>]
    BY <1>1 DEF s
  <2>3. QED
    BY <1>3, <1>4, <1>5, <2>1, <2>2 DEF GraphType
<1>8. /\ DOMAIN branches'[parent] = 1..Len(s) + 1 /\ Len(branches'[parent]) = Len(s) + 1
      /\ branches'[parent][Len(s) + 1] = n
      /\ \A i \in 1..Len(s) : branches'[parent][i] = s[i]
  BY <1>6, <1>7
<1> HIDE DEF s
<1>9. \A i \in DOMAIN branches'[parent] :
         i \in 1..Len(s) \/ (i = Len(s) + 1 /\ branches'[parent][i] = n)
  BY <1>6, <1>8
<1>10. Elements(branches'[parent]) = Elements(branches[parent]) \cup {n}
  <2>1. Len(s) + 1 \in DOMAIN branches'[parent]
    BY <1>6, <1>8
  <2>2. \A i \in 1..Len(s) : i \in DOMAIN branches'[parent]
    BY <1>6, <1>8
  <2>3. Elements(branches'[parent]) \subseteq Elements(s) \cup {n}
    BY <1>6, <1>8, <1>9 DEF Elements
  <2>4. Elements(s) \subseteq Elements(branches'[parent])
    BY <1>6, <1>8, <2>2 DEF Elements
  <2>5. n \in Elements(branches'[parent])
    BY <1>8, <2>1 DEF Elements
  <2>6. QED
    BY <2>3, <2>4, <2>5 DEF s
<1>11. \A x \in Places : n \notin Elements(branches[x])
  <2> SUFFICES ASSUME NEW x \in Places, n \in Elements(branches[x]) PROVE FALSE
    OBVIOUS
  <2>1. CASE x \in Allocated \cup {Roots}
    BY <1>1, <2>1, ChildAllocated
  <2>2. CASE x \notin Allocated \cup {Roots}
    BY <2>2 DEF IInv, FreeEmpty, Places, Elements
  <2>3. QED
    BY <2>1, <2>2
<1>12. Allocated' = Allocated \cup {n}
  <2> DEFINE old == SubtreeOf(branches, Roots)
             new == SubtreeOf(branches', Roots)
             S == old \cup {n}
  <2>1. /\ Roots \in old /\ old \subseteq Places
        /\ \A x \in old : Elements(branches[x]) \subseteq old
    BY <1>3, SubtreeClosed DEF Places
  <2>2. /\ Roots \in new /\ new \subseteq Places
        /\ \A x \in new : Elements(branches'[x]) \subseteq new
    BY <1>7, SubtreeClosed DEF Places
  <2>3. parent \in old
    BY <1>4, <2>1 DEF Allocated, Subtree
  <2>4. new \subseteq S
    <3>1. S \in SUBSET Places /\ Roots \in S
      BY <1>4, <2>1
    <3>2. \A x \in S : Elements(branches'[x]) \subseteq S
      <4> TAKE x \in S
      <4>1. CASE x = n
        BY <1>4, <1>5, <1>7, <4>1 DEF Elements
      <4>2. CASE x = parent
        BY <1>10, <2>1, <2>3, <4>2
      <4>3. CASE x # n /\ x # parent
        BY <1>7, <2>1, <4>3
      <4>4. QED
        BY <4>1, <4>2, <4>3
    <3> HIDE DEF S
    <3>3. QED
      BY <3>1, <3>2, SubtreeLeast
  <2>5. old \subseteq new
    <3>1. \A x \in new : Elements(branches[x]) \subseteq new
      BY <1>7, <1>10, <2>2
    <3> HIDE DEF new
    <3>2. QED
      BY <2>2, <3>1, SubtreeLeast
  <2>6. n \in new
    BY <1>10, <2>2, <2>3, <2>5
  <2>7. new = old \cup {n}
    BY <2>4, <2>5, <2>6
  <2>8. QED
    BY <1>4, <2>7 DEF Allocated, Subtree
<1>13. Adds(parent, n)
  BY <1>1, <1>4, <1>5, <1>7, <1>10, <1>11, <1>12 DEF Adds, s
<1>14. QED
  BY <1>13

\* A suspended loop does not notice a window that joins its list at the end.
LEMMA AddsKeepsFrames ==
    ASSUME IInv, TameCallbacks, NEW parent \in Usable \cup {Roots}, Create(parent),
           NEW n, Adds(parent, n), NEW i \in 1..Len(stack), NEW f, f = stack[i]
    PROVE  /\ DOMAIN branches[f.node] \subseteq DOMAIN branches'[f.node]
           /\ \A j \in DOMAIN branches[f.node] :
                 branches'[f.node][j] = branches[f.node][j]
           /\ f.at <= Len(branches'[f.node])
           /\ Item(f)' = Item(f) /\ Done(f)' = Done(f) /\ Removed(f)' = Removed(f)
           /\ f.walk = "remove" => (ReverseDone(f)' <=> ReverseDone(f))
<1>1. /\ branches \in GraphType /\ stack \in Seq(Frame) /\ parent \in Places
      /\ live \subseteq Allocated
  BY DEF IInv, TypeOK, GraphType, Usable, Places
<1> DEFINE s == branches[parent]
<1>2. s \in Seq(Nodes) /\ Len(s) \in Nat /\ DOMAIN s = 1..Len(s)
  BY <1>1 DEF GraphType
<1>3. /\ branches'[parent] = Append(s, n) /\ n \in Nodes
      /\ \A x \in Places : x # parent => branches'[x] = branches[x]
  BY DEF Adds
<1>4. /\ DOMAIN branches'[parent] = 1..Len(s) + 1 /\ Len(branches'[parent]) = Len(s) + 1
      /\ \A k \in 1..Len(s) : branches'[parent][k] = s[k]
  BY <1>2, <1>3
<1> HIDE DEF s
<1>5. f \in Frame /\ f.at \in Nat /\ f.node \in Places /\ FrameOK(f)
  <2>1. f \in Frame /\ FrameOK(f)
    BY <1>1 DEF IInv, StackOK
  <2>2. QED
    BY <2>1 DEF Frame
<1>6. f.walk = "remove" => f.node # parent
  <2> SUFFICES ASSUME f.walk = "remove" PROVE f.node # parent
    OBVIOUS
  <2>1. pc = "callback"
    BY DEF IInv, StackOK, Walks, Removing, Create, Calls
  <2>2. parent = Roots
    BY <2>1 DEF Create, Calls, TameCallbacks
  <2>3. stack # <<>>
    BY <1>1
  <2>4. stack[i].node # Roots
    BY <2>3 DEF IInv, StackOK, Shape
  <2>5. QED
    BY <2>2, <2>4
<1>7. CASE f.node # parent
  <2>1. branches'[f.node] = branches[f.node]
    BY <1>3, <1>5, <1>7
  <2>2. QED
    BY <1>5, <2>1 DEF FrameOK, Item, Done, Removed, ReverseDone
<1>8. CASE f.node = parent
  <2>1. f.walk # "remove"
    BY <1>6, <1>8
  <2>2. branches[f.node] = s /\ f.at <= Len(s)
    BY <1>5, <1>8 DEF s, FrameOK
  <2>3. /\ DOMAIN branches[f.node] \subseteq DOMAIN branches'[f.node]
          /\ \A j \in DOMAIN branches[f.node] : branches'[f.node][j] = branches[f.node][j]
    BY <1>2, <1>4, <1>8, <2>2
  <2>4. f.at <= Len(branches'[f.node])
    BY <1>2, <1>4, <1>5, <1>8, <2>2
  <2>5. Item(f)' = Item(f)
    BY <2>1 DEF Item
  <2>6. \A j \in DOMAIN branches'[f.node] : j <= f.at => j \in DOMAIN branches[f.node]
    BY <1>2, <1>4, <1>5, <1>8, <2>2
  <2>7. Done(f)' = Done(f)
    BY <2>1, <2>3, <2>6 DEF Done
  <2>8. Removed(f)' = Removed(f)
    <3>1. \A j \in Done(f) : j \in DOMAIN branches[f.node]
      BY DEF Done
    <3>2. QED
      BY <2>3, <2>7, <3>1 DEF Removed
  <2>9. QED
    BY <2>1, <2>3, <2>4, <2>5, <2>7, <2>8
<1>9. QED
  BY <1>7, <1>8

LEMMA CreateInv ==
    ASSUME IInv, TameCallbacks, NEW parent \in Usable \cup {Roots}, Create(parent)
    PROVE  IInv'
<1>1. PICK n : Adds(parent, n)
  BY CreateAdds
<1>2. /\ changing' = changing /\ dirty' = dirty /\ pc' = pc /\ stack' = stack
      /\ removed' = removed /\ Removing' = Removing
  BY DEF Create, flags, control, Removing
<1>3. /\ branches \in GraphType /\ stack \in Seq(Frame) /\ win \in [Nodes -> Window]
      /\ live \subseteq Nodes /\ live \subseteq Allocated
  BY DEF IInv, TypeOK, GraphType
<1>4. /\ n \in Nodes /\ n \notin Allocated /\ n \notin live /\ n # Roots /\ n \in Places
      /\ parent \in Allocated \cup {Roots} /\ parent \in live \cup {Roots}
      /\ parent \in Places /\ n # parent
      /\ live' = live \cup {n} /\ win' = [win EXCEPT ![n] = NewWindow]
  BY <1>1, <1>3 DEF Adds, Places
<1> DEFINE s == branches[parent]
<1>6. s \in Seq(Nodes) /\ Len(s) \in Nat /\ DOMAIN s = 1..Len(s)
  BY <1>3, <1>4 DEF GraphType
<1>7. /\ branches' \in GraphType /\ branches'[parent] = Append(s, n)
      /\ \A x \in Places : x # parent => branches'[x] = branches[x]
  BY <1>1 DEF Adds
<1>8. /\ DOMAIN branches'[parent] = 1..Len(s) + 1 /\ Len(branches'[parent]) = Len(s) + 1
      /\ branches'[parent][Len(s) + 1] = n
      /\ \A i \in 1..Len(s) : branches'[parent][i] = s[i]
  BY <1>6, <1>7
<1> HIDE DEF s
<1>9. \A i \in DOMAIN branches'[parent] :
         i \in 1..Len(s) \/ (i = Len(s) + 1 /\ branches'[parent][i] = n)
  BY <1>6, <1>8
<1>11. \A x \in Places : n \notin Elements(branches[x])
  BY <1>1 DEF Adds
<1>12. Allocated' = Allocated \cup {n}
  BY <1>1 DEF Adds
<1>13. SinglePlace'
  <2>1. ASSUME NEW p \in Places, NEW i \in DOMAIN branches'[p]
        PROVE  \/ i \in DOMAIN branches[p] /\ branches'[p][i] = branches[p][i]
                                           /\ branches'[p][i] # n
               \/ p = parent /\ i = Len(s) + 1 /\ branches'[p][i] = n
    <3>1. CASE p = parent
      <4>1. CASE i \in 1..Len(s)
        <5>1. i \in DOMAIN branches[p] /\ branches'[p][i] = branches[p][i]
          BY <1>6, <1>8, <3>1, <4>1 DEF s
        <5>2. QED
          BY <1>11, <5>1 DEF Elements
      <4>2. QED
        BY <1>9, <3>1, <4>1
    <3>2. CASE p # parent
      BY <1>7, <1>11, <3>2 DEF Elements
    <3>3. QED
      BY <3>1, <3>2
  <2> SUFFICES ASSUME NEW p \in Places, NEW q \in Places,
                      NEW i \in DOMAIN branches'[p], NEW j \in DOMAIN branches'[q],
                      branches'[p][i] = branches'[q][j]
               PROVE  p = q /\ i = j
    BY DEF SinglePlace
  <2>2. CASE branches'[p][i] = n
    BY <2>1, <2>2
  <2>3. CASE branches'[p][i] # n
    BY <2>1, <2>3 DEF IInv, SinglePlace
  <2>4. QED
    BY <2>2, <2>3
<1>14. FreeEmpty'
  <2> SUFFICES ASSUME NEW x \in Nodes \ Allocated' PROVE branches'[x] = <<>>
    BY DEF FreeEmpty
  <2>1. x \notin Allocated /\ x # parent /\ x \in Places
    BY <1>4, <1>12, WindowsAssumption DEF Places
  <2>2. QED
    BY <1>7, <2>1 DEF IInv, FreeEmpty
<1>15. \A i \in 1..Len(stack) :
          /\ stack[i] \in Frame /\ stack[i].node \in Places /\ FrameOK(stack[i])
          /\ stack[i].node \in live \cup {Roots} /\ stack[i].node # n
  <2> TAKE i \in 1..Len(stack)
  <2>1. stack[i] \in Frame /\ FrameOK(stack[i])
    BY <1>3 DEF IInv, StackOK
  <2>2. QED
    BY <1>4, <2>1 DEF FrameOK, Frame
<1>17. ASSUME NEW i \in 1..Len(stack), NEW f, f = stack[i]
       PROVE  /\ DOMAIN branches[f.node] \subseteq DOMAIN branches'[f.node]
              /\ \A j \in DOMAIN branches[f.node] :
                    branches'[f.node][j] = branches[f.node][j]
              /\ f.at <= Len(branches'[f.node])
              /\ Item(f)' = Item(f) /\ Done(f)' = Done(f) /\ Removed(f)' = Removed(f)
              /\ f.walk = "remove" => (ReverseDone(f)' <=> ReverseDone(f))
  BY <1>1, <1>17, AddsKeepsFrames
<1>18. \A x \in Nodes \ live : x # n => branches'[x] = branches[x] /\ x \notin live'
  BY <1>4, <1>7, WindowsAssumption DEF Places
<1>19. \A x \in Nodes : x # n => win'[x] = win[x]
  BY <1>4, <1>3
<1>20. \A x \in Places : branches[x] \in Seq(Nodes) /\ Elements(branches[x]) \subseteq Nodes \ {n}
  BY <1>3, <1>11, ElementFacts DEF GraphType
<1>21. ASSUME NEW c \in Nodes, c # n
       PROVE  (Gone(c) => Gone(c)') /\ (Dead(c) => Dead(c)')
  <2>1. \A d \in Nodes : d # n /\ Gone(d) => Gone(d)'
    BY <1>18 DEF Gone
  <2>2. ASSUME Dead(c) PROVE Dead(c)'
    <3>1. c \in Nodes \ live /\ c \in Places
      BY <2>2 DEF Dead, Places
    <3>2. branches'[c] = branches[c] /\ c \notin live'
      BY <1>18, <1>21, <3>1
    <3>3. \A d \in Elements(branches[c]) : d \in Nodes /\ d # n /\ Gone(d)
      BY <1>20, <2>2, <3>1 DEF Dead
    <3>4. QED
      BY <2>1, <3>2, <3>3 DEF Dead
  <2>3. QED
    BY <1>21, <2>1, <2>2
<1>22. \A i \in 1..Len(stack') : FrameOK(stack[i])'
  <2> TAKE i \in 1..Len(stack')
  <2>1. PICK f : f = stack[i]
    OBVIOUS
  <2>2. /\ f \in Frame /\ f.node \in Places /\ f.node # n /\ FrameOK(f) /\ i \in 1..Len(stack)
        /\ f.node \in live \cup {Roots}
    BY <1>2, <1>15, <2>1
  <2>3. /\ \A j \in DOMAIN branches[f.node] : branches'[f.node][j] = branches[f.node][j]
        /\ f.at <= Len(branches'[f.node]) /\ Done(f)' = Done(f)
    BY <1>17, <2>1, <2>2
  <2>4. ASSUME NEW j \in Done(f), NEW c, c = branches[f.node][j]
        PROVE  /\ c \in Nodes /\ c # n /\ branches'[f.node][j] = c /\ win'[c] = win[c]
               /\ (Gone(c) => Gone(c)') /\ (Dead(c) => Dead(c)')
    <3>1. j \in DOMAIN branches[f.node]
      BY DEF Done
    <3>2. c \in Elements(branches[f.node])
      BY <2>4, <3>1 DEF Elements
    <3>3. c \in Nodes /\ c # n
      BY <1>20, <2>2, <3>2
    <3>4. QED
      BY <1>19, <1>21, <2>3, <2>4, <3>1, <3>3
  <2>5. f.node # Roots => win'[f.node] = win[f.node]
    BY <1>19, <2>2 DEF Places
  <2>6. ASSUME NEW j \in Done(f), NEW c, c = branches'[f.node][j]
        PROVE  /\ f.walk = "apply" /\ win'[c].marked => Dead(c)'
               /\ f.walk = "remove" => Gone(c)'
    <3>1. PICK d : d = branches[f.node][j]
      OBVIOUS
    <3>2. d = c /\ win'[c] = win[c] /\ (Gone(c) => Gone(c)') /\ (Dead(c) => Dead(c)')
      BY <2>4, <2>6, <3>1
    <3>3. /\ f.walk = "apply" /\ win[c].marked => Dead(c)
          /\ f.walk = "remove" => Gone(c)
      BY <2>2, <3>1, <3>2 DEF FrameOK
    <3>4. QED
      BY <3>2, <3>3
  <2>7. f.node \in live' \cup {Roots}
    BY <1>4, <2>2
  <2>8. f.walk = "apply" /\ f.node # Roots => ~win'[f.node].marked
    BY <2>2, <2>5 DEF FrameOK
  <2>9. stack'[i] = f
    BY <1>2, <2>1
  <2>10. QED
    BY <2>3, <2>6, <2>7, <2>8, <2>9 DEF FrameOK, Dead, Gone
<1>23. Linked(stack)'
  <2>1. ASSUME NEW i \in 1..Len(stack) - 1, NEW h, h = stack[i + 1]
        PROVE  /\ Item(h)' \in DOMAIN branches'[h.node]
               /\ branches'[h.node][Item(h)'] = stack[i].node
               /\ stack[i].walk = "apply" => h.walk = "apply"
               /\ stack[i].walk = "remove" /\ h.walk = "apply" => win'[stack[i].node].marked
    <3>1. i + 1 \in 1..Len(stack) /\ i \in 1..Len(stack) /\ i # Len(stack)
      BY <1>3
    <3>2. stack[i].node \in Nodes /\ stack[i].node # n
      BY <1>15, <3>1 DEF IInv, StackOK, Shape, Places
    <3>3. /\ Item(h) \in DOMAIN branches[h.node]
          /\ branches[h.node][Item(h)] = stack[i].node
          /\ stack[i].walk = "apply" => h.walk = "apply"
          /\ stack[i].walk = "remove" /\ h.walk = "apply" => win[stack[i].node].marked
      BY <2>1 DEF IInv, StackOK, Linked
    <3>4. /\ DOMAIN branches[h.node] \subseteq DOMAIN branches'[h.node]
          /\ \A j \in DOMAIN branches[h.node] : branches'[h.node][j] = branches[h.node][j]
          /\ Item(h)' = Item(h)
      <4>1. PICK k \in 1..Len(stack) : k = i + 1
        BY <3>1
      <4>2. h = stack[k]
        BY <2>1, <4>1
      <4>3. QED
        BY <1>17, <4>2
    <3>5. win'[stack[i].node] = win[stack[i].node]
      BY <1>19, <3>2
    <3>6. QED
      BY <3>3, <3>4, <3>5
  <2>2. ASSUME NEW i \in 1..Len(stack) - 1
        PROVE  (/\ Item(stack[i + 1]) \in DOMAIN branches[stack[i + 1].node]
                /\ branches[stack[i + 1].node][Item(stack[i + 1])] = stack[i].node
                /\ stack[i].walk = "apply" => stack[i + 1].walk = "apply"
                /\ stack[i].walk = "remove" /\ stack[i + 1].walk = "apply"
                     => win[stack[i].node].marked)'
    <3>1. PICK h : h = stack[i + 1]
      OBVIOUS
    <3>2. stack'[i + 1] = h /\ stack'[i] = stack[i]
      BY <1>2, <3>1
    <3>3. QED
      BY <2>1, <3>1, <3>2 DEF Item
  <2>3. Len(stack') = Len(stack)
    BY <1>2
  <2>4. QED
    BY <2>2, <2>3 DEF Linked
<1>24. StackOK'
  <2>1. Shape(stack') /\ Walks(stack)'
    BY <1>2 DEF IInv, StackOK, Shape, Walks
  <2>2. ASSUME pc = "callback" PROVE stack[1].walk = "remove" /\ ReverseDone(stack[1])'
    <3>1. stack[1].walk = "remove" /\ ReverseDone(stack[1]) /\ stack # <<>>
      BY <2>2 DEF IInv, StackOK
    <3>2. PICK f : f = stack[1]
      OBVIOUS
    <3>3. 1 \in 1..Len(stack)
      BY <1>3, <3>1
    <3>4. ReverseDone(f)' <=> ReverseDone(f)
      BY <1>17, <3>1, <3>2, <3>3
    <3>5. QED
      BY <1>2, <3>1, <3>2, <3>4 DEF ReverseDone
  <2>3. pc' = "callback" => stack'[1].walk = "remove" /\ ReverseDone(stack[1])'
    BY <1>2, <2>2
  <2>4. pc' = "main" <=> stack' = <<>>
    BY <1>2 DEF IInv, StackOK
  <2>5. QED
    BY <1>22, <1>23, <2>1, <2>3, <2>4 DEF StackOK, Shape
<1>25. Accounted'
  <2>1. CASE ~Removing
    BY <1>4, <1>2, <1>12, <2>1 DEF IInv, Accounted
  <2>2. CASE Removing
    <3> SUFFICES ASSUME NEW m \in Allocated' \ live'
                 PROVE  \E i \in 1..Len(stack) :
            \/ m \in Removed(stack[i])' /\ (stack[i].walk = "apply" => win'[m].marked)
            \/ stack[i].node = Roots /\ \E d \in Removed(stack[i])' :
                   win'[d].marked /\ m \in Elements(branches'[d])
      BY <1>2, <2>2 DEF Accounted
    <3>1. m \in Allocated \ live /\ m # n /\ m \in Nodes
      BY <1>4, <1>3, <1>12, SubtreeClosed DEF Allocated, Subtree, Places
    <3>2. PICK i \in 1..Len(stack) :
            \/ m \in Removed(stack[i]) /\ (stack[i].walk = "apply" => win[m].marked)
            \/ stack[i].node = Roots /\ \E d \in Removed(stack[i]) :
                   win[d].marked /\ m \in Elements(branches[d])
      BY <2>2, <3>1 DEF IInv, Accounted
    <3>3. PICK f : f = stack[i]
      OBVIOUS
    <3>4. Removed(f)' = Removed(f)
      BY <1>17, <3>3
    <3>5. Removed(stack[i])' = Removed(stack[i])
      <4>1. stack'[i] = f
        BY <1>2, <3>3
      <4>2. QED
        BY <3>3, <3>4, <4>1, ZenonT(40) DEF Removed, Done
    <3>6. CASE m \in Removed(stack[i]) /\ (stack[i].walk = "apply" => win[m].marked)
      BY <1>19, <3>1, <3>5, <3>6
    <3>7. CASE stack[i].node = Roots /\ \E d \in Removed(stack[i]) :
                   win[d].marked /\ m \in Elements(branches[d])
      <4>1. PICK d \in Removed(stack[i]) : win[d].marked /\ m \in Elements(branches[d])
        BY <3>7
      <4>2. d \in Nodes /\ d \notin live /\ d \in Elements(branches[stack[i].node])
        BY <4>1, RemovedFacts DEF Dead
      <4>3. d # n
        BY <1>15, <1>20, <4>2
      <4>4. win'[d] = win[d] /\ branches'[d] = branches[d]
        BY <1>18, <1>19, <4>2, <4>3
      <4>5. QED
        BY <3>5, <3>7, <4>1, <4>4
    <3>8. QED
      BY <3>2, <3>6, <3>7
  <2>3. QED
    BY <2>1, <2>2
<1>26. TypeOK'
  <2>1. win' \in [Nodes -> Window]
    BY <1>4, <1>3, WindowTypes
  <2>2. QED
    BY <1>4, <1>2, <1>3, <1>7, <2>1 DEF IInv, TypeOK, GraphType
<1>27. QED
  BY <1>4, <1>3, <1>12, <1>13, <1>14, <1>24, <1>25, <1>26 DEF IInv

-----------------------------------------------------------------------------
(* The invariant.                                                           *)

LEMMA InitInv == Init => IInv
<1> SUFFICES ASSUME Init PROVE IInv
  OBVIOUS
<1>1. branches = [n \in Places |-> <<>>] /\ live = {} /\ pc = "main" /\ stack = <<>>
  BY DEF Init
<1>2. /\ branches \in GraphType /\ Roots \in Places
      /\ \A x \in Places : Elements(branches[x]) = {} /\ DOMAIN branches[x] = {}
  BY <1>1 DEF Elements, GraphType, Places
<1>3. Allocated = {}
  <2>1. {Roots} \in SUBSET Places /\ Roots \in {Roots}
    BY <1>2
  <2>2. \A x \in {Roots} : Elements(branches[x]) \subseteq {Roots}
    BY <1>2
  <2>3. SubtreeOf(branches, Roots) \subseteq {Roots}
    BY <2>1, <2>2, SubtreeLeast
  <2>4. QED
    BY <2>3 DEF Allocated, Subtree
<1>4. TypeOK
  <2>1. win = [n \in Nodes |-> NewWindow] /\ NewWindow \in Window
    BY WindowTypes DEF Init
  <2>2. win \in [Nodes -> Window]
    BY <2>1
  <2>3. stack \in Seq(Frame)
    BY <1>1
  <2>4. changing = FALSE /\ dirty = FALSE /\ removed = FALSE
    BY DEF Init
  <2>5. QED
    BY <1>1, <1>2, <2>2, <2>3, <2>4 DEF TypeOK, GraphType
<1>5. SinglePlace /\ FreeEmpty
  BY <1>1, <1>2 DEF SinglePlace, FreeEmpty, Places
<1>6. Len(stack) = 0
  BY <1>1
<1>7. StackOK
  BY <1>1, <1>6 DEF StackOK, Shape, Linked, Walks
<1>8. Accounted
  BY <1>1, <1>3 DEF Accounted, Removing
<1>9. QED
  BY <1>1, <1>4, <1>5, <1>7, <1>8 DEF IInv

LEMMA StepInv == TameCallbacks /\ IInv /\ [Next]_vars => IInv'
<1> SUFFICES ASSUME TameCallbacks, IInv, [Next]_vars PROVE IInv'
  OBVIOUS
<1>1. CASE LibraryStep
  BY <1>1, ProcessEventsInv, ApplyNextInv, ApplyDoneInv, RemoveNextInv, DeallocReturnsInv,
     PollNextInv, PollReturnsInv, DrainedInv, EventInv DEF LibraryStep, Removal, Polling
<1>2. CASE UserStep
  <2>1. CASE \E parent \in Usable \cup {Roots} : Create(parent)
    BY <2>1, CreateInv
  <2>2. CASE \E node \in Usable, freezer \in Usable \cup {NoNode} :
               Freeze(node, freezer) \/ Unfreeze(node, freezer)
    BY <2>2, UserInv
  <2>3. CASE \E node \in Usable : Destroy(node) \/ SetFrozenEvent(node) \/ Close(node)
    BY <2>3, UserInv
  <2>4. QED
    BY <1>2, <2>1, <2>2, <2>3 DEF UserStep
<1>3. CASE \E n \in Nodes : Arrive(n)
  BY <1>3, EventInv
<1>4. CASE UNCHANGED vars
  <2>1. /\ UNCHANGED <<branches, live, stack, win, changing, dirty, pc, removed>>
        /\ TypeOK' /\ Removing' = Removing
    BY <1>4 DEF vars, IInv, TypeOK, Removing
  <2>2. pc' = "callback" => stack[1].walk = "remove" /\ ReverseDone(stack[1])
    BY <2>1 DEF IInv, StackOK
  <2>3. QED
    BY <2>1, <2>2, MembersInv
<1>5. QED
  BY <1>1, <1>2, <1>3, <1>4 DEF Next

\* Whatever tame callbacks, handlers and the application do, the removal and
\* polling walks keep the graph and their own loops in order.
THEOREM Invariant == ASSUME TameCallbacks PROVE Spec => []IInv
<1>1. IInv /\ [Next]_vars => IInv'
  BY StepInv
<1>2. QED
  BY InitInv, <1>1, PTL DEF Spec

\* Every variable keeps its type; an event count never goes below zero.
THEOREM TypeCorrect == ASSUME TameCallbacks PROVE Spec => []TypeOK
<1>1. IInv => TypeOK
  BY DEF IInv
<1>2. QED
  BY Invariant, <1>1, PTL

\* Exists, the framework's test of a window pointer, never answers for a window
\* that was freed, and between two removals answers for every other.
THEOREM ExistsSound == ASSUME TameCallbacks PROVE Spec => []ExistsExact
<1>1. IInv => ExistsExact
  BY DEF IInv, Accounted, ExistsExact
<1>2. QED
  BY Invariant, <1>1, PTL

\* No loop of a walk is left with an iterator into a freed or changed place,
\* although handlers and callbacks run while it is suspended.
THEOREM IteratorsHold == ASSUME TameCallbacks PROVE Spec => []IteratorsValid
<1>1. ASSUME IInv PROVE IteratorsValid
  <2>1. stack \in Seq(Frame) /\ live \subseteq Allocated
    BY <1>1 DEF IInv, TypeOK
  <2>2. ASSUME NEW i \in DOMAIN stack
        PROVE  /\ stack[i].node \in Allocated \cup {Roots}
               /\ i > 1 => /\ Item(stack[i]) \in DOMAIN branches[stack[i].node]
                          /\ branches[stack[i].node][Item(stack[i])] = stack[i - 1].node
    <3>1. stack[i].node \in Allocated \cup {Roots}
      BY <1>1, <2>1 DEF IInv, StackOK, FrameOK
    <3>2. ASSUME i > 1
          PROVE  /\ Item(stack[i]) \in DOMAIN branches[stack[i].node]
                 /\ branches[stack[i].node][Item(stack[i])] = stack[i - 1].node
      <4>1. PICK k \in 1..Len(stack) - 1 : k = i - 1
        BY <2>1, <3>2
      <4>2. k + 1 = i
        BY <2>1, <4>1
      <4>3. QED
        BY <1>1, <4>1, <4>2 DEF IInv, StackOK, Linked
    <3>3. QED
      BY <3>1, <3>2
  <2>3. QED
    BY <2>2 DEF IteratorsValid
<1>2. QED
  BY Invariant, <1>1, PTL

\* A deallocation callback finds its own window existing and none below it.
THEOREM SubwindowsFirst == ASSUME TameCallbacks PROVE Spec => []SubwindowsGoFirst
<1>1. ASSUME IInv, pc = "callback" PROVE live \cap Subtree(Top.node) = {Top.node}
  <2>1. /\ Top.node \in Nodes /\ Top.node \in live
        /\ \A d \in Elements(branches[Top.node]) : Gone(d)
    BY <1>1, CallbackTop
  <2>2. /\ Subtree(Top.node) \subseteq {Top.node} \cup Elements(branches[Top.node])
        /\ Top.node \in Subtree(Top.node)
    BY <1>1, <2>1, DeadSubtree DEF Gone
  <2>3. QED
    BY <2>1, <2>2 DEF Gone
<1>2. IInv => SubwindowsGoFirst
  BY <1>1 DEF SubwindowsGoFirst
<1>3. QED
  BY Invariant, <1>2, PTL
-----------------------------------------------------------------------------
(* Frozen windows.  No assumption on callbacks: this rests on the members   *)
(* of the windows alone.                                                    *)

Bound(w) == \A n \in Nodes : w[n].frozen => w[n].frozenEvent # "temporary"

\* What a step does to one window at a time.
LEMMA OneWindow ==
    ASSUME NEW w \in [Nodes -> Window], NEW x, NEW v,
           x \in Nodes => v \in Window /\ (v.frozen => v.frozenEvent # "temporary"),
           Bound(w)
    PROVE  [w EXCEPT ![x] = v] \in [Nodes -> Window] /\ Bound([w EXCEPT ![x] = v])
<1> DEFINE u == [w EXCEPT ![x] = v]
<1>1. \A n \in Nodes : u[n] = IF n = x THEN v ELSE w[n]
  OBVIOUS
<1>2. u \in [Nodes -> Window]
  OBVIOUS
<1>3. ASSUME NEW n \in Nodes, u[n].frozen PROVE u[n].frozenEvent # "temporary"
  <2>1. CASE n = x
    BY <1>1, <1>3, <2>1
  <2>2. CASE n # x
    BY <1>1, <1>3, <2>2 DEF Bound
  <2>3. QED
    BY <2>1, <2>2
<1>4. QED
  BY <1>2, <1>3 DEF Bound

\* Freeing windows leaves their places as the constructor does, unfrozen.
LEMMA FreedBound ==
    ASSUME NEW w \in [Nodes -> Window], Bound(w), NEW gone
    PROVE  FreedFrom(w, gone) \in [Nodes -> Window] /\ Bound(FreedFrom(w, gone))
<1>1. FreedFrom(w, gone) \in [Nodes -> Window]
  BY WindowTypes
<1>2. ASSUME NEW n \in Nodes, FreedFrom(w, gone)[n].frozen
      PROVE  FreedFrom(w, gone)[n].frozenEvent # "temporary"
  <2>1. CASE n \in gone
    BY <1>2, <2>1 DEF FreedFrom, NewWindow
  <2>2. CASE n \notin gone
    BY <1>2, <2>2 DEF FreedFrom, Bound, Window
  <2>3. QED
    BY <2>1, <2>2
<1>3. QED
  BY <1>1, <1>2 DEF Bound

\* A frozen window never runs the frozen event that its constructor bound to a
\* temporary, whatever handlers and callbacks do: Freeze binds it again.
THEOREM FrozenEventsBound == Spec => []FrozenEventBound
<1> DEFINE J == win \in [Nodes -> Window] /\ Bound(win)
<1>1. Init => J
  BY WindowTypes DEF Init, Bound, NewWindow
<1>2. J /\ [Next]_vars => J'
  <2> SUFFICES ASSUME J, [Next]_vars PROVE J'
    OBVIOUS
  <2>1. ASSUME NEW parent, Create(parent) PROVE J'
    <3>1. PICK n \in Nodes : win' = [win EXCEPT ![n] = NewWindow]
      BY <2>1 DEF Create
    <3>2. NewWindow \in Window /\ ~NewWindow.frozen
      BY WindowTypes DEF NewWindow
    <3>3. QED
      BY <3>1, <3>2, OneWindow
  <2>2. ASSUME NEW node, Destroy(node) PROVE J'
    <3> DEFINE v(n) == [win[n] EXCEPT !.marked = @ \/ n \in Subtree(node)]
    <3>1. win' = [n \in Nodes |-> v(n)]
      BY <2>2 DEF Destroy
    <3>2. ASSUME NEW n \in Nodes
          PROVE  v(n) \in Window /\ v(n).frozen = win[n].frozen
                   /\ v(n).frozenEvent = win[n].frozenEvent
      BY DEF Window
    <3> HIDE DEF v
    <3>3. QED
      BY <3>1, <3>2 DEF Bound
  <2>3. ASSUME NEW node \in Nodes, NEW freezer \in Nodes \cup {NoNode}, Freeze(node, freezer)
        PROVE  J'
    <3> DEFINE v == [win[node] EXCEPT !.frozen = TRUE, !.freezer = freezer,
                       !.freezerFreed = FALSE, !.frozenEvent = "default"]
    <3>1. v \in Window /\ v.frozenEvent # "temporary" /\ win' = [win EXCEPT ![node] = v]
      BY <2>3 DEF Freeze, Window
    <3>2. QED
      BY <3>1, OneWindow
  <2>4. ASSUME NEW node \in Nodes, NEW freezer \in Nodes \cup {NoNode}, Unfreeze(node, freezer)
        PROVE  J'
    <3> DEFINE v == [win[node] EXCEPT !.frozen = FALSE, !.freezer = freezer,
                       !.freezerFreed = FALSE, !.frozenEvent = "ignore"]
    <3>1. v \in Window /\ v.frozenEvent # "temporary" /\ win' = [win EXCEPT ![node] = v]
      BY <2>4 DEF Unfreeze, Window
    <3>2. QED
      BY <3>1, OneWindow
  <2>5. ASSUME NEW node \in Nodes, SetFrozenEvent(node) PROVE J'
    <3> DEFINE v == [win[node] EXCEPT !.frozenEvent = "client"]
    <3>1. v \in Window /\ v.frozenEvent # "temporary" /\ win' = [win EXCEPT ![node] = v]
      BY <2>5 DEF SetFrozenEvent, Window
    <3>2. QED
      BY <3>1, OneWindow
  <2>6. ASSUME NEW n \in Nodes, NEW v \in Window, v.frozen = win[n].frozen,
               v.frozenEvent = win[n].frozenEvent, win' = [win EXCEPT ![n] = v]
        PROVE  J'
    BY <2>6, OneWindow DEF Bound
  <2>7. ASSUME NEW node \in Nodes, Close(node) PROVE J'
    <3>1. [win[node] EXCEPT !.closed = TRUE] \in Window
      BY DEF Window
    <3>2. QED
      BY <2>6, <2>7, <3>1 DEF Close, Window
  <2>8. ASSUME NEW n \in Nodes, Arrive(n) PROVE J'
    <3>1. [win[n] EXCEPT !.queue = @ + 1] \in Window
      BY <2>8, WindowsAssumption DEF Arrive, Window
    <3>2. QED
      BY <2>6, <2>8, <3>1 DEF Arrive, Window
  <2>9. CASE RunDealloc
    <3> DEFINE v == [win[Top.node] EXCEPT !.deallocs = IF @ < 2 THEN @ + 1 ELSE @]
    <3>1. CASE Top.node \in Nodes
      <4>1. v \in Window /\ v.frozen = win[Top.node].frozen
                /\ v.frozenEvent = win[Top.node].frozenEvent
        BY <3>1 DEF Window
      <4>2. win' = [win EXCEPT ![Top.node] = v]
        BY <2>9, <3>1 DEF RunDealloc
      <4>3. QED
        BY <2>6, <3>1, <4>1, <4>2
    <3>2. CASE Top.node \notin Nodes
      BY <2>9, <3>2 DEF RunDealloc, Bound
    <3>3. QED
      BY <3>1, <3>2
  <2>10. CASE DeallocReturns
    <3> DEFINE n == Top.node
               w == [win EXCEPT ![n].closed = TRUE]
               freed == IF stack[2].node # Roots THEN Subtree(n) \ {n} ELSE {}
    <3>1. win' = FreedFrom(w, freed)
      BY <2>10 DEF DeallocReturns
    <3>2. w \in [Nodes -> Window] /\ Bound(w)
      <4> DEFINE v == [win[n] EXCEPT !.closed = TRUE]
      <4>1. n \in Nodes => v \in Window /\ v.frozen = win[n].frozen
                             /\ v.frozenEvent = win[n].frozenEvent
        BY ClosedWindow
      <4>2. w = [win EXCEPT ![n] = v]
        OBVIOUS
      <4> HIDE DEF v
      <4>3. n \in Nodes => (v.frozen => v.frozenEvent # "temporary")
        BY <4>1 DEF Bound
      <4>4. QED
        BY <4>1, <4>2, <4>3, OneWindow
    <3>3. QED
      BY <3>1, <3>2, FreedBound
  <2>11. CASE ApplyDone
    BY <2>11, FreedBound DEF ApplyDone
  <2>12. CASE HandleEvent
    <3> DEFINE v == [win[Top.node] EXCEPT !.queue = @ - 1]
    <3>1. CASE Top.node \in Nodes
      <4>1. v \in Window /\ v.frozen = win[Top.node].frozen
                /\ v.frozenEvent = win[Top.node].frozenEvent
        BY <2>12, <3>1, WindowsAssumption DEF HandleEvent, HasEvent, Window
      <4>2. win' = [win EXCEPT ![Top.node] = v]
        BY <2>12, <3>1 DEF HandleEvent, TakeEvent
      <4>3. QED
        BY <2>6, <3>1, <4>1, <4>2
    <3>2. CASE Top.node \notin Nodes
      BY <2>12, <3>2 DEF HandleEvent, TakeEvent, Bound
    <3>3. QED
      BY <3>1, <3>2
  <2>13. CASE UserStep
    <3>1. Usable \subseteq Nodes
      BY DEF Usable, Allocated, Subtree, SubtreeOf, Places
    <3>2. QED
      BY <2>1, <2>2, <2>3, <2>4, <2>5, <2>7, <2>13, <3>1 DEF UserStep
  <2>14. ASSUME win' = win PROVE J'
    BY <2>14
  <2>15. CASE LibraryStep
    BY <2>9, <2>10, <2>11, <2>12, <2>14, <2>15
       DEF LibraryStep, Removal, Polling, ProcessEvents, ApplyNext, RemoveNext, PollNext,
           PollReturns, HandlerReturns, Drained, graph
  <2>16. CASE UNCHANGED vars
    BY <2>14, <2>16 DEF vars
  <2>17. QED
    BY <2>8, <2>13, <2>15, <2>16 DEF Next
<1>3. J => FrozenEventBound
  BY DEF Bound, FrozenEventBound
<1>4. QED
  BY <1>1, <1>2, <1>3, PTL DEF Spec

-----------------------------------------------------------------------------
(* The removal walk finds every destroyed window and frees nothing else,   *)
(* and so Windows implements WindowGraph.                                  *)

(* Subtrees of a graph b, and of what a step makes of it, c.                *)

LEMMA SubtreeOfNode ==
    ASSUME NEW b \in GraphType, NEW n \in Nodes
    PROVE  SubtreeOf(b, n) \subseteq Nodes
<1>1. Nodes \in SUBSET Places
  BY DEF Places
<1>2. \A x \in Nodes : Elements(b[x]) \subseteq Nodes
  BY ElementFacts DEF GraphType, Places
<1>3. QED
  BY <1>1, <1>2, SubtreeLeast

\* What is below a node below n is below n.
LEMMA SubtreeBelow ==
    ASSUME NEW b \in GraphType, NEW n \in Places, NEW m \in SubtreeOf(b, n)
    PROVE  SubtreeOf(b, m) \subseteq SubtreeOf(b, n)
<1> DEFINE S == SubtreeOf(b, n)
<1>1. S \in SUBSET Places /\ m \in S /\ \A x \in S : Elements(b[x]) \subseteq S
  BY SubtreeClosed
<1> HIDE DEF S
<1>2. SubtreeOf(b, m) \subseteq S
  BY <1>1, SubtreeLeast
<1>3. QED
  BY <1>2 DEF S

\* A subtree is its root and the subtrees of the root's children.
LEMMA SubtreeSplit ==
    ASSUME NEW b \in GraphType, NEW n \in Places
    PROVE  SubtreeOf(b, n) \subseteq {n} \cup UNION {SubtreeOf(b, d) : d \in Elements(b[n])}
<1> DEFINE S == {n} \cup UNION {SubtreeOf(b, d) : d \in Elements(b[n])}
<1>1. \A d \in Elements(b[n]) : d \in Places
  BY ElementFacts DEF GraphType, Places
<1>2. S \in SUBSET Places /\ n \in S
  BY <1>1, SubtreeClosed
<1>3. ASSUME NEW x \in S PROVE Elements(b[x]) \subseteq S
  <2>1. CASE x = n
    BY <1>1, <2>1, SubtreeClosed
  <2>2. CASE \E d \in Elements(b[n]) : x \in SubtreeOf(b, d)
    BY <1>1, <2>2, SubtreeClosed
  <2>3. QED
    BY <1>3, <2>1, <2>2
<1> HIDE DEF S
<1>4. SubtreeOf(b, n) \subseteq S
  BY <1>2, <1>3, SubtreeLeast
<1>5. QED
  BY <1>4 DEF S

\* Cutting out F, a set that holds what hangs below its members.
LEMMA SubtreeCut ==
    ASSUME NEW b \in GraphType, NEW c \in GraphType, NEW F \in SUBSET Nodes,
           \A x \in F : c[x] = <<>> /\ Elements(b[x]) \subseteq F,
           \A x \in Places \ F : Elements(c[x]) = Elements(b[x]) \ F,
           NEW n \in Places
    PROVE  /\ SubtreeOf(c, n) \subseteq SubtreeOf(b, n)
           /\ SubtreeOf(b, n) \subseteq SubtreeOf(c, n) \cup F
           /\ n \in F => SubtreeOf(b, n) \subseteq F
<1>1. \A x \in Places : Elements(c[x]) \subseteq Elements(b[x])
  BY DEF Elements
<1>2. SubtreeOf(c, n) \subseteq SubtreeOf(b, n)
  <2> DEFINE S == SubtreeOf(b, n)
  <2>1. S \in SUBSET Places /\ n \in S /\ \A x \in S : Elements(b[x]) \subseteq S
    BY SubtreeClosed
  <2> HIDE DEF S
  <2>2. SubtreeOf(c, n) \subseteq S
    BY <1>1, <2>1, SubtreeLeast
  <2>3. QED
    BY <2>2 DEF S
<1>3. SubtreeOf(b, n) \subseteq SubtreeOf(c, n) \cup F
  <2> DEFINE S == SubtreeOf(c, n) \cup F
  <2>1. S \in SUBSET Places /\ n \in S
    BY SubtreeClosed DEF Places
  <2>2. ASSUME NEW x \in S PROVE Elements(b[x]) \subseteq S
    <3>1. CASE x \in F
      BY <3>1
    <3>2. CASE x \notin F
      BY <2>1, <2>2, <3>2, SubtreeClosed
    <3>3. QED
      BY <3>1, <3>2
  <2> HIDE DEF S
  <2>3. SubtreeOf(b, n) \subseteq S
    BY <2>1, <2>2, SubtreeLeast
  <2>4. QED
    BY <2>3 DEF S
<1>4. ASSUME n \in F PROVE SubtreeOf(b, n) \subseteq F
  <2>1. F \in SUBSET Places
    BY DEF Places
  <2>2. QED
    BY <1>4, <2>1, SubtreeLeast
<1>5. QED
  BY <1>2, <1>3, <1>4

\* Putting a new node in the list of p.
LEMMA SubtreeGrown ==
    ASSUME NEW b \in GraphType, NEW c \in GraphType, NEW p \in Places, NEW n \in Nodes,
           n # p, Elements(b[n]) = {}, Elements(c[p]) = Elements(b[p]) \cup {n},
           \A x \in Places : x # p => c[x] = b[x],
           NEW m \in Places
    PROVE  /\ SubtreeOf(b, m) \subseteq SubtreeOf(c, m)
           /\ SubtreeOf(c, m) \subseteq SubtreeOf(b, m) \cup {n}
           /\ p \in SubtreeOf(b, m) => n \in SubtreeOf(c, m)
           /\ n \in SubtreeOf(c, m) => n \in SubtreeOf(b, m) \/ p \in SubtreeOf(b, m)
           /\ SubtreeOf(c, n) = {n}
<1>1. /\ \A x \in Places : Elements(b[x]) \subseteq Elements(c[x])
      /\ \A x \in Places : x # p => Elements(c[x]) = Elements(b[x])
      /\ n \in Places
  BY DEF Places
<1>2. SubtreeOf(b, m) \subseteq SubtreeOf(c, m)
  <2> DEFINE S == SubtreeOf(c, m)
  <2>1. S \in SUBSET Places /\ m \in S /\ \A x \in S : Elements(c[x]) \subseteq S
    BY SubtreeClosed
  <2> HIDE DEF S
  <2>2. SubtreeOf(b, m) \subseteq S
    BY <1>1, <2>1, SubtreeLeast
  <2>3. QED
    BY <2>2 DEF S
<1>3. p \in SubtreeOf(b, m) => n \in SubtreeOf(c, m)
  BY <1>2, SubtreeClosed
<1>4. /\ SubtreeOf(c, m) \subseteq SubtreeOf(b, m) \cup {n}
      /\ p \notin SubtreeOf(b, m) => SubtreeOf(c, m) \subseteq SubtreeOf(b, m)
  <2> DEFINE T == SubtreeOf(b, m)
             S == IF p \in T THEN T \cup {n} ELSE T
  <2>1. T \in SUBSET Places /\ m \in T /\ \A x \in T : Elements(b[x]) \subseteq T
    BY SubtreeClosed
  <2> HIDE DEF T
  <2>2. S \in SUBSET Places /\ m \in S
    BY <1>1, <2>1
  <2>3. ASSUME NEW x \in S PROVE Elements(c[x]) \subseteq S
    <3>1. CASE x = n
      BY <1>1, <3>1
    <3>2. CASE x # n /\ x = p
      BY <2>1, <2>3, <3>2
    <3>3. CASE x # n /\ x # p
      BY <1>1, <2>1, <2>3, <3>3
    <3>4. QED
      BY <3>1, <3>2, <3>3
  <2> HIDE DEF S
  <2>4. SubtreeOf(c, m) \subseteq S
    BY <2>2, <2>3, SubtreeLeast
  <2>5. QED
    BY <2>4 DEF S, T
<1>5. SubtreeOf(c, n) = {n}
  <2>1. {n} \in SUBSET Places /\ \A x \in {n} : Elements(c[x]) \subseteq {n}
    BY <1>1
  <2>2. SubtreeOf(c, n) \subseteq {n}
    BY <2>1, SubtreeLeast
  <2>3. QED
    BY <1>1, <2>2, SubtreeClosed
<1>6. QED
  BY <1>2, <1>3, <1>4, <1>5

\* Windows hang below allocated windows only.
LEMMA AllocatedBelow ==
    ASSUME IInv, NEW m \in Allocated
    PROVE  m \in Nodes /\ m \in Subtree(m) /\ Subtree(m) \subseteq Allocated
<1>1. branches \in GraphType /\ Roots \in Places
  BY DEF IInv, TypeOK, GraphType, Places
<1>2. m \in SubtreeOf(branches, Roots) /\ m # Roots /\ m \in Nodes
  BY <1>1, SubtreeClosed DEF Allocated, Subtree, Places
<1>3. SubtreeOf(branches, m) \subseteq SubtreeOf(branches, Roots)
  BY <1>1, <1>2, SubtreeBelow
<1>4. SubtreeOf(branches, m) \subseteq Nodes /\ m \in SubtreeOf(branches, m)
  BY <1>1, <1>2, SubtreeOfNode, SubtreeClosed DEF Places
<1>5. QED
  BY <1>2, <1>3, <1>4, WindowsAssumption DEF Allocated, Subtree

-----------------------------------------------------------------------------
(* Steps that leave the graph, and what is marked in it, alone.             *)

SameGraph ==
    /\ UNCHANGED <<branches, live>>
    /\ \A n \in Nodes : win'[n].marked = win[n].marked

LEMMA SameGraphFacts ==
    ASSUME IInv, SameGraph
    PROVE  /\ Allocated' = Allocated /\ Doomed' = Doomed /\ Marks' = Marks
           /\ \A f : Done(f)' = Done(f) /\ Removed(f)' = Removed(f)
           /\ \A c \in Nodes : Clean(c)' = Clean(c)
<1>1. branches' = branches /\ live' = live
  BY DEF SameGraph
<1>2. Allocated' = Allocated /\ \A m : Subtree(m)' = Subtree(m)
  BY <1>1 DEF Allocated, Subtree
<1>3. \A m \in Allocated : m \in Nodes /\ win'[m].marked = win[m].marked
  BY AllocatedBelow DEF SameGraph
<1>4. Doomed' = Doomed
  BY <1>1, <1>2, <1>3 DEF Doomed
<1>5. Marks' = Marks
  BY <1>2, <1>3 DEF Marks
<1>6. \A f : Done(f)' = Done(f) /\ Removed(f)' = Removed(f)
  BY <1>1 DEF Done, Removed
<1>7. ASSUME NEW c \in Nodes PROVE Clean(c)' = Clean(c)
  <2>1. \A m \in Subtree(c) : m \in Nodes
    BY SubtreeOfNode DEF Subtree, IInv, TypeOK, GraphType
  <2>2. QED
    BY <1>2, <2>1 DEF Clean, SameGraph
<1>8. QED
  BY <1>2, <1>4, <1>5, <1>6, <1>7

\* What a frame's loop is done with are windows.
LEMMA RemovedNodes ==
    ASSUME IInv, NEW i \in 1..Len(stack), NEW c \in Removed(stack[i])
    PROVE  c \in Nodes /\ c \in Elements(branches[stack[i].node])
<1>1. stack[i] \in Frame
  BY DEF IInv, TypeOK
<1>2. branches[stack[i].node] \in Seq(Nodes)
  BY <1>1 DEF Frame, IInv, TypeOK
<1>3. PICK j \in Done(stack[i]) : c = branches[stack[i].node][j]
  BY DEF Removed
<1>4. j \in DOMAIN branches[stack[i].node]
  BY DEF Done
<1>5. QED
  BY <1>2, <1>3, <1>4, ElementFacts DEF Elements

\* A step that is nothing to the removal walk.
Quiet ==
    /\ SameGraph /\ UNCHANGED <<changing, dirty, removed>>
    /\ \A n \in Nodes : win'[n].deallocs = win[n].deallocs
    /\ \/ UNCHANGED <<pc, stack>>
       \/ ~Removing /\ ~Removing'

\* Outside a removal no frame searches or removes.
LEMMA IdleStack ==
    ASSUME IInv, ~Removing
    PROVE  Searched /\ Condemned
  BY DEF IInv, StackOK, Walks, Searched, Condemned

LEMMA QuietSweep == SInv /\ Quiet /\ IInv' => SInv'
<1> SUFFICES ASSUME SInv, Quiet, IInv' PROVE SInv'
  OBVIOUS
<1>1. /\ IInv /\ Searched /\ Condemned /\ Tidied /\ Pending
      /\ SameGraph /\ changing' = changing /\ dirty' = dirty /\ removed' = removed
      /\ live' = live /\ branches' = branches
      /\ \A n \in Nodes : win'[n].deallocs = win[n].deallocs
      /\ \A n \in Nodes : win'[n].marked = win[n].marked
  BY DEF SInv, Quiet, SameGraph
<1>2. /\ Allocated' = Allocated /\ Doomed' = Doomed /\ Marks' = Marks
      /\ \A f : Done(f)' = Done(f)
      /\ \A c \in Nodes : Clean(c)' = Clean(c)
  BY <1>1, SameGraphFacts
<1>3. Removing' = Removing
  BY DEF Quiet, Removing
<1>4. Pending'
  BY <1>1, <1>2, <1>3 DEF Pending
<1>5. \A n \in Nodes : InCallback(n)' = InCallback(n)
  BY DEF Quiet, Removing, InCallback, Top
<1>6. Tidied'
  BY <1>1, <1>2, <1>5, AllocatedBelow DEF Tidied
<1>7. Searched' /\ Condemned'
  <2>1. CASE pc' = pc /\ stack' = stack
    <3>1. Condemned'
      BY <1>1, <1>2, <2>1 DEF Condemned
    <3>2. ASSUME NEW i \in 1..Len(stack), stack[i].walk = "apply", NEW c \in Removed(stack[i])
          PROVE  win'[c].marked \/ Clean(c)'
      BY <1>1, <1>2, <3>2, RemovedNodes DEF Searched
    <3>3. Searched'
      BY <1>1, <1>2, <2>1, <3>2 DEF Searched, Removed, Done
    <3>4. QED
      BY <3>1, <3>3
  <2>2. CASE ~Removing'
    <3>1. (IInv /\ ~Removing => Searched /\ Condemned)'
      BY IdleStack, PTL
    <3>2. QED
      BY <2>2, <3>1
  <2>3. QED
    BY <2>1, <2>2 DEF Quiet
<1>8. QED
  BY <1>4, <1>6, <1>7 DEF SInv

-----------------------------------------------------------------------------
(* The removal walk.                                                        *)

\* A child of the node whose loop is innermost is a window of the graph.
LEMMA ChildFacts ==
    ASSUME IInv, pc = "removing",
           IF Top.walk = "remove" THEN ~ReverseDone(Top) ELSE ~ForwardDone(Top)
    PROVE  /\ Children[Item(Top)] \in Nodes /\ Children[Item(Top)] \in live
           /\ Children[Item(Top)] \in Allocated
           /\ Children[Item(Top)] \in Elements(branches[Top.node]) /\ Top.node \in Places
<1>1. /\ Top \in Frame /\ FrameOK(Top) /\ Top.node \in Places
      /\ Children = branches[Top.node]
  BY TopFacts DEF Children
<1>2. Item(Top) \in DOMAIN Children /\ Item(Top) \notin Done(Top)
  BY <1>1, ItemFacts DEF FrameOK
<1>3. Children[Item(Top)] \in live /\ Children[Item(Top)] \in Nodes
  BY <1>2, ChildLive
<1>4. QED
  BY <1>1, <1>2, <1>3 DEF IInv, Elements

\* Every mark dooms its window, and what is below a doomed window is doomed.
LEMMA DoomedFacts ==
    ASSUME IInv
    PROVE  /\ \A m \in Allocated : win[m].marked /\ m \in live => m \in Doomed
           /\ \A p \in Doomed : Elements(branches[p]) \cap live \subseteq Doomed
           /\ Doomed \subseteq live
<1>1. \A m \in Allocated : win[m].marked /\ m \in live => m \in Doomed
  BY AllocatedBelow DEF Doomed
<1>2. ASSUME NEW p \in Doomed, NEW c \in Elements(branches[p]), c \in live
      PROVE  c \in Doomed
  <2>1. PICK m \in Allocated : win[m].marked /\ p \in Subtree(m)
    BY DEF Doomed
  <2>2. m \in Places /\ branches \in GraphType
    BY AllocatedBelow DEF Places, IInv, TypeOK, GraphType
  <2>3. c \in Subtree(m)
    BY <1>2, <2>1, <2>2, SubtreeClosed DEF Subtree
  <2>4. QED
    BY <1>2, <2>1, <2>3 DEF Doomed
<1>3. QED
  BY <1>1, <1>2 DEF Doomed

LEMMA CallSweep ==
    ASSUME SInv, pc = "removing", NEW walk \in {"apply", "remove"},
           IF Top.walk = "remove" THEN ~ReverseDone(Top) ELSE ~ForwardDone(Top),
           walk = "remove" => Children[Item(Top)] \in Doomed,
           CallNext(walk), UNCHANGED <<graph, flags, pc, removed>>
    PROVE  SameGraph /\ Searched' /\ Condemned' /\ Tidied' /\ Pending'
<1> DEFINE c == Children[Item(Top)]
           f == NewFrame(walk, c)
<1>1. /\ IInv /\ Searched /\ Condemned /\ Tidied /\ Pending
      /\ branches' = branches /\ live' = live /\ win' = win /\ changing' = changing
      /\ dirty' = dirty /\ pc' = pc /\ removed' = removed /\ SameGraph
  BY DEF SInv, graph, flags, SameGraph
<1>2. stack \in Seq(Frame) /\ Len(stack) \in Nat \ {0}
  BY <1>1, TopFacts
<1>3. c \in Nodes
  BY <1>1, ChildFacts
<1>4. f \in Frame /\ f.walk = walk /\ f.node = c /\ f.at = 0
  BY <1>3, NewFrameFacts DEF Places
<1>5. stack' = <<f>> \o stack
  BY DEF CallNext
<1> HIDE DEF f, c
<1>6. /\ Len(stack') = Len(stack) + 1 /\ stack'[1] = f
      /\ \A i \in 2..Len(stack') : stack'[i] = stack[i - 1]
  BY <1>2, <1>4, <1>5, Pushed
<1>7. \A i \in 1..Len(stack') :
         \/ i = 1 /\ stack'[i] = f
         \/ i - 1 \in 1..Len(stack) /\ stack'[i] = stack[i - 1]
  BY <1>2, <1>6
<1>8. /\ Allocated' = Allocated /\ Doomed' = Doomed /\ Marks' = Marks
      /\ \A g : Removed(g)' = Removed(g)
      /\ \A m \in Nodes : Clean(m)' = Clean(m)
  BY <1>1, SameGraphFacts
<1>9. Removed(f) = {}
  <2>1. branches[c] \in Seq(Nodes)
    BY <1>1, <1>3 DEF IInv, TypeOK, Places
  <2>2. \A j \in DOMAIN branches[c] : j \in Nat /\ j # 0 /\ ~(j <= 0)
    BY <2>1
  <2>3. QED
    BY <1>4, <2>2 DEF Done, Removed
<1>10. Searched'
  <2> SUFFICES ASSUME NEW i \in 1..Len(stack'), stack'[i].walk = "apply",
                      NEW d \in Removed(stack[i])'
               PROVE  win'[d].marked \/ Clean(d)'
    BY DEF Searched
  <2>1. PICK g : g = stack'[i]
    OBVIOUS
  <2>2. d \in Removed(g)
    <3>1. Removed(stack[i])' = Removed(g)
      BY <1>1, <2>1 DEF Removed, Done
    <3>2. QED
      BY <3>1
  <2>3. i - 1 \in 1..Len(stack) /\ g = stack[i - 1]
    BY <1>7, <1>9, <2>1, <2>2
  <2>4. win[d].marked \/ Clean(d)
    BY <1>1, <2>1, <2>2, <2>3 DEF Searched
  <2>5. d \in Nodes
    BY <1>1, <2>2, <2>3, RemovedNodes
  <2>6. QED
    BY <1>1, <1>8, <2>4, <2>5
<1>11. Condemned'
  <2> SUFFICES ASSUME NEW i \in 1..Len(stack'), stack'[i].walk = "remove"
               PROVE  stack'[i].node \in Doomed
    BY <1>8 DEF Condemned
  <2>1. QED
    BY <1>1, <1>4, <1>7 DEF Condemned, c
<1>12. Tidied'
  <2>1. \A n : ~InCallback(n) /\ ~InCallback(n)'
    BY <1>1 DEF InCallback
  <2>2. QED
    BY <1>1, <1>8, <2>1 DEF Tidied
<1>13. Pending'
  BY <1>1, <1>8 DEF Pending, Removing
<1>14. QED
  BY <1>1, <1>10, <1>11, <1>12, <1>13

LEMMA ApplyNextSweep == SInv /\ ApplyNext => SameGraph /\ SInv'
<1> SUFFICES ASSUME SInv, ApplyNext PROVE SameGraph /\ SInv'
  OBVIOUS
<1> DEFINE c == Children[Item(Top)]
           walk == IF win[c].marked THEN "remove" ELSE "apply"
<1>1. /\ IInv /\ pc = "removing" /\ Top.walk = "apply" /\ ~ForwardDone(Top) /\ CallNext(walk)
      /\ UNCHANGED <<graph, flags, pc, removed>>
  BY DEF ApplyNext, SInv
<1>2. walk \in {"apply", "remove"} /\ (walk = "remove" => c \in Doomed)
  BY <1>1, ChildFacts, DoomedFacts
<1> HIDE DEF walk
<1>3. SameGraph /\ Searched' /\ Condemned' /\ Tidied' /\ Pending'
  BY <1>1, <1>2, CallSweep
<1>4. IInv'
  BY <1>1, ApplyNextInv
<1>5. QED
  BY <1>3, <1>4 DEF SInv

LEMMA RemoveNextSweep == SInv /\ RemoveNext => SameGraph /\ SInv'
<1> SUFFICES ASSUME SInv, RemoveNext PROVE SameGraph /\ SInv'
  OBVIOUS
<1>1. /\ IInv /\ pc = "removing" /\ Top.walk = "remove" /\ ~ReverseDone(Top)
      /\ CallNext("remove") /\ UNCHANGED <<graph, flags, pc, removed>>
  BY DEF RemoveNext, SInv
<1>2. Top.node \in Doomed
  <2>1. Top = stack[1] /\ 1 \in 1..Len(stack)
    BY <1>1, TopFacts DEF Top
  <2>2. QED
    BY <1>1, <2>1 DEF SInv, Condemned
<1>3. Children[Item(Top)] \in Doomed
  BY <1>1, <1>2, ChildFacts, DoomedFacts
<1>4. SameGraph /\ Searched' /\ Condemned' /\ Tidied' /\ Pending'
  BY <1>1, <1>3, CallSweep
<1>5. IInv'
  BY <1>1, RemoveNextInv
<1>6. QED
  BY <1>4, <1>5 DEF SInv

LEMMA RunDeallocSweep == SInv /\ RunDealloc => SameGraph /\ SInv'
<1> SUFFICES ASSUME SInv, RunDealloc PROVE SameGraph /\ SInv'
  OBVIOUS
<1> DEFINE n == Top.node
           k == IF win[n].deallocs < 2 THEN win[n].deallocs + 1 ELSE win[n].deallocs
<1>1. /\ IInv /\ Searched /\ Condemned /\ Tidied /\ Pending
      /\ pc = "removing" /\ Top.walk = "remove" /\ pc' = "callback"
      /\ win' = [win EXCEPT ![n].deallocs = k]
      /\ branches' = branches /\ live' = live /\ stack' = stack /\ removed' = removed
      /\ changing' = changing /\ dirty' = dirty
  BY DEF RunDealloc, SInv, flags
<1>2. n \in Nodes /\ n \in live
  BY <1>1, TopFacts DEF FrameOK, Places
<1>3. win \in [Nodes -> Window] /\ n \in Allocated
  BY <1>1, <1>2 DEF IInv, TypeOK
<1>4. win[n].deallocs = 0
  BY <1>1, <1>2, <1>3 DEF Tidied, InCallback
<1>5. k = 1
  BY <1>4
<1> HIDE DEF n, k
<1>6. /\ \A m \in Nodes : win'[m].marked = win[m].marked
      /\ \A m \in Nodes : win'[m].deallocs = IF m = n THEN 1 ELSE win[m].deallocs
  BY <1>1, <1>2, <1>3, <1>5 DEF Window
<1>7. SameGraph
  BY <1>1, <1>6 DEF SameGraph
<1>8. /\ Allocated' = Allocated /\ Doomed' = Doomed /\ Marks' = Marks
      /\ \A f : Removed(f)' = Removed(f)
      /\ \A c \in Nodes : Clean(c)' = Clean(c)
  BY <1>1, <1>7, SameGraphFacts
<1>9. Tidied'
  <2>1. \A m : ~InCallback(m) /\ (InCallback(m)' <=> m = n)
    BY <1>1 DEF InCallback, n, Top
  <2>2. \A m \in Allocated : win'[m].deallocs = IF m \in live /\ m # n THEN 0 ELSE 1
    BY <1>1, <1>6, <2>1, AllocatedBelow DEF Tidied
  <2>3. QED
    BY <1>1, <1>8, <2>1, <2>2 DEF Tidied
<1>10. Searched'
  <2>1. ASSUME NEW i \in 1..Len(stack), stack[i].walk = "apply", NEW c \in Removed(stack[i])
        PROVE  win'[c].marked \/ Clean(c)'
    BY <1>1, <1>6, <1>8, <2>1, RemovedNodes DEF Searched
  <2>2. QED
    BY <1>1, <1>8, <2>1 DEF Searched, Removed, Done
<1>11. Condemned'
  BY <1>1, <1>8 DEF Condemned
<1>12. Pending'
  BY <1>1, <1>8 DEF Pending, Removing
<1>13. IInv'
  BY <1>1, EventInv
<1>14. QED
  BY <1>7, <1>9, <1>10, <1>11, <1>12, <1>13 DEF SInv

-----------------------------------------------------------------------------
(* Steps that free windows.                                                 *)

\* Freeing takes no doomed window that Exists, and dooms none.
LEMMA FreedGraph ==
    ASSUME IInv, NEW F, Frees(F), live' \subseteq live
    PROVE  /\ Doomed' = Doomed \cap live'
           /\ \A c \in Nodes \ F : Clean(c) => Clean(c)'
           /\ F = {} => Marks' = Marks
<1>1. /\ F \in SUBSET Nodes /\ F \cap live = {} /\ branches' \in GraphType
      /\ \A x \in F : branches'[x] = <<>> /\ Elements(branches[x]) \subseteq F
      /\ \A x \in Places \ F : Elements(branches'[x]) = Elements(branches[x]) \ F
      /\ Allocated' = Allocated \ F
      /\ \A n \in F : ~win'[n].marked
      /\ \A n \in Nodes \ F : win'[n].marked = win[n].marked
  BY DEF Frees
<1>2. branches \in GraphType
  BY DEF IInv, TypeOK, GraphType
<1>3. ASSUME NEW m \in Nodes
      PROVE  /\ Subtree(m)' \subseteq Subtree(m) /\ Subtree(m) \subseteq Subtree(m)' \cup F
             /\ m \in F => Subtree(m) \subseteq F
             /\ Subtree(m) \subseteq Nodes
  BY <1>1, <1>2, SubtreeCut, SubtreeOfNode DEF Subtree, Places
<1>4. Doomed' \subseteq Doomed \cap live'
  <2> SUFFICES ASSUME NEW x \in Doomed' PROVE x \in Doomed /\ x \in live'
    OBVIOUS
  <2>1. x \in live' /\ \E m \in Allocated' : win'[m].marked /\ x \in Subtree(m)'
    BY DEF Doomed
  <2>2. PICK m \in Allocated' : win'[m].marked /\ x \in Subtree(m)'
    BY <2>1
  <2>3. m \in Allocated /\ m \notin F /\ m \in Nodes
    BY <1>1, AllocatedBelow
  <2>4. win[m].marked /\ x \in Subtree(m)
    BY <1>1, <1>3, <2>2, <2>3
  <2>5. QED
    BY <2>1, <2>3, <2>4 DEF Doomed
<1>5. Doomed \cap live' \subseteq Doomed'
  <2> SUFFICES ASSUME NEW x \in Doomed, x \in live' PROVE x \in Doomed'
    OBVIOUS
  <2>1. x \in live /\ \E m \in Allocated : win[m].marked /\ x \in Subtree(m)
    BY DEF Doomed
  <2>2. PICK m \in Allocated : win[m].marked /\ x \in Subtree(m)
    BY <2>1
  <2>3. m \in Nodes /\ x \notin F
    BY <1>1, <2>1, AllocatedBelow
  <2>4. m \notin F /\ x \in Subtree(m)'
    BY <1>3, <2>2, <2>3
  <2>5. m \in Allocated' /\ win'[m].marked
    BY <1>1, <2>2, <2>3, <2>4
  <2>6. QED
    BY <2>4, <2>5 DEF Doomed
<1>6. ASSUME NEW c \in Nodes \ F, Clean(c) PROVE Clean(c)'
  <2>1. \A m \in Subtree(c)' : m \in Nodes /\ ~win[m].marked
    BY <1>3, <1>6 DEF Clean
  <2>2. \A m \in Subtree(c)' : ~win'[m].marked
    BY <1>1, <2>1
  <2>3. QED
    BY <2>2 DEF Clean
<1>7. F = {} => Marks' = Marks
  BY <1>1, AllocatedBelow DEF Marks
<1>8. QED
  BY <1>4, <1>5, <1>6, <1>7

\* Returning from a frame after freeing windows keeps the suspended search and
\* removal loops right, if the node returned from is marked or holds no mark.
LEMMA FreedStack ==
    ASSUME SInv, NEW F, Frees(F), pc # "main", Len(stack) >= 2, Return,
           live' \subseteq live, live \ {Top.node} \subseteq live',
           NEW top \in Nodes, top = Top.node,
           stack[2].walk = "apply" => win'[top].marked \/ Clean(top)'
    PROVE  Searched' /\ Condemned'
<1>1. /\ IInv /\ Searched /\ Condemned
      /\ F \subseteq Nodes /\ F \cap live = {}
      /\ \A x \in Places \ F : x # Top.node => branches'[x] = branches[x]
      /\ \A x \in Places \ F : Elements(branches'[x]) = Elements(branches[x]) \ F
      /\ \A n \in Nodes \ F : win'[n].marked = win[n].marked
  BY DEF SInv, Frees
<1>2. /\ stack \in Seq(Frame) /\ Len(stack) \in Nat \ {0} /\ Top = stack[1]
  BY <1>1, TopFacts DEF Top
<1>3. /\ Len(stack') = Len(stack) - 1
      /\ \A i \in 1..Len(stack') :
            /\ i + 1 \in 2..Len(stack) /\ i + 1 \in 1..Len(stack)
            /\ stack'[i].node = stack[i + 1].node /\ stack'[i].walk = stack[i + 1].walk
            /\ Done(stack'[i]) \subseteq
                 Done(stack[i + 1]) \cup (IF i = 1 THEN {Item(stack[2])} ELSE {})
      /\ branches[stack[2].node][Item(stack[2])] = top
  BY <1>1, ReturnFrames
<1>4. ASSUME NEW i \in 1..Len(stack')
      PROVE  /\ stack[i + 1].node \in Places \ F /\ stack[i + 1].node # Top.node
             /\ stack[i + 1].node \in live' \cup {Roots}
             /\ branches'[stack[i + 1].node] = branches[stack[i + 1].node]
  <2>1. PICK j \in 2..Len(stack) : j = i + 1
    BY <1>3
  <2>2. j \in 1..Len(stack) /\ 1 \in 1..Len(stack) /\ j # 1
    BY <1>2
  <2>3. stack[j].node # Top.node
    BY <1>1, <1>2, <2>2 DEF IInv, StackOK, Shape
  <2>4. stack[j].node \in live \cup {Roots}
    BY <1>1, <2>2 DEF IInv, StackOK, FrameOK
  <2>5. stack[j] \in Frame
    BY <1>2, <2>2
  <2>6. stack[j].node \in Places
    BY <2>5 DEF Frame
  <2>7. stack[j].node \notin F
    BY <1>1, <2>4, WindowsAssumption
  <2>8. QED
    BY <1>1, <2>1, <2>3, <2>4, <2>6, <2>7
<1>5. Searched'
  <2> SUFFICES ASSUME NEW i \in 1..Len(stack'), stack'[i].walk = "apply",
                      NEW c \in Removed(stack[i])'
               PROVE  win'[c].marked \/ Clean(c)'
    BY DEF Searched
  <2>1. PICK g, o : g = stack'[i] /\ o = stack[i + 1]
    OBVIOUS
  <2>2. /\ g.node = o.node /\ o.walk = "apply" /\ branches'[g.node] = branches[o.node]
        /\ Done(g) \subseteq Done(o) \cup (IF i = 1 THEN {Item(stack[2])} ELSE {})
    BY <1>3, <1>4, <2>1
  <2>3. Removed(stack[i])' = {branches[o.node][j] : j \in Done(g)}
    <3>1. Removed(stack[i])' = {branches'[g.node][j] : j \in Done(g)'}
      BY <2>1 DEF Removed, Done
    <3>2. Done(g)' = Done(g)
      BY <2>2 DEF Done
    <3>3. QED
      BY <2>2, <3>1, <3>2
  <2>4. PICK j \in Done(g) : c = branches[o.node][j]
    BY <2>3
  <2>5. CASE j \in Done(o)
    <3>1. c \in Removed(o)
      BY <2>4, <2>5 DEF Removed
    <3>2. c \in Nodes /\ c \in Elements(branches[o.node]) /\ (win[c].marked \/ Clean(c))
      <4>1. PICK k \in 1..Len(stack) : k = i + 1
        BY <1>3
      <4>2. QED
        BY <1>1, <2>1, <2>2, <3>1, <4>1, RemovedNodes DEF Searched
    <3>3. c \notin F
      <4>1. Elements(branches'[o.node]) = Elements(branches[o.node])
        BY <2>2
      <4>2. o.node \in Places \ F
        BY <1>4, <2>1
      <4>3. QED
        BY <1>1, <3>2, <4>1, <4>2
    <3>4. Clean(c) => Clean(c)'
      BY <1>1, <3>2, <3>3, FreedGraph
    <3>5. QED
      BY <1>1, <3>2, <3>3, <3>4
  <2>6. CASE j \notin Done(o)
    <3>1. i = 1 /\ j = Item(stack[2])
      BY <2>2, <2>6
    <3>2. o = stack[2]
      BY <2>1, <3>1
    <3>3. c = top
      BY <1>3, <2>4, <3>1, <3>2
    <3>4. QED
      BY <2>2, <3>2, <3>3
  <2>7. QED
    BY <2>5, <2>6
<1>6. Condemned'
  <2> SUFFICES ASSUME NEW i \in 1..Len(stack'), stack'[i].walk = "remove"
               PROVE  stack'[i].node \in Doomed'
    BY DEF Condemned
  <2>1. PICK j \in 1..Len(stack) : j = i + 1
    BY <1>3
  <2>2. stack'[i].node = stack[j].node /\ stack[j].walk = "remove"
    BY <1>3, <2>1
  <2>3. stack[j].node \in Doomed
    BY <1>1, <2>1, <2>2 DEF Condemned
  <2>4. stack[j].node \in live'
    <3>1. stack[j].node \in live
      BY <1>1, <2>3, DoomedFacts
    <3>2. QED
      BY <1>4, <2>1, <3>1
  <2>5. QED
    BY <1>1, <2>2, <2>3, <2>4, FreedGraph
<1>7. QED
  BY <1>5, <1>6

\* When a search is done, what it leaves in its list holds no mark.
LEMMA SearchDone ==
    ASSUME SInv, ApplyDone, NEW F, Frees(F),
           \A c \in Elements(Children) : win[c].marked => c \in F,
           NEW p, p = Top.node
    PROVE  /\ p \in Nodes => Clean(p)'
           /\ p = Roots => ~Marks'
<1>1. /\ IInv /\ Searched /\ pc = "removing" /\ Top.walk = "apply" /\ ForwardDone(Top)
      /\ live' = live
  BY DEF SInv, ApplyDone
<1>2. /\ stack \in Seq(Frame) /\ Len(stack) \in Nat \ {0} /\ Top = stack[1]
      /\ Top \in Frame /\ FrameOK(Top) /\ p \in Places /\ Children \in Seq(Nodes)
      /\ Children = branches[p]
  BY <1>1, TopFacts DEF Top, Children
<1>3. /\ branches' \in GraphType /\ p \notin F
      /\ Elements(branches'[p]) = Elements(branches[p]) \ F
      /\ \A n \in Nodes \ F : win'[n].marked = win[n].marked
      /\ \A n \in F : ~win'[n].marked
  BY <1>2 DEF Frees
<1>4. \A d \in Elements(branches[p]) : d \in Removed(Top) /\ d \in Nodes
  <2> TAKE d \in Elements(branches[p])
  <2>1. PICK j \in DOMAIN branches[p] : d = branches[p][j]
    BY DEF Elements
  <2>2. j \in Done(Top)
    BY <1>1, <1>2, <2>1, ElementFacts DEF Done, ForwardDone, Frame
  <2>3. QED
    BY <1>2, <2>1, <2>2, ElementFacts DEF Removed
<1>5. ASSUME NEW d \in Elements(branches'[p]) PROVE d \in Nodes /\ Clean(d)'
  <2>1. d \in Elements(branches[p]) /\ d \notin F /\ d \in Nodes /\ d \in Removed(Top)
    BY <1>3, <1>4
  <2>2. ~win[d].marked
    BY <1>2, <2>1
  <2>3. Clean(d)
    <3>1. 1 \in 1..Len(stack)
      BY <1>2
    <3>2. QED
      BY <1>1, <1>2, <2>1, <2>2, <3>1 DEF Searched
  <2>4. QED
    BY <1>1, <2>1, <2>3, FreedGraph
<1>6. ASSUME NEW n \in Subtree(p)', n # p PROVE ~win'[n].marked
  <2>1. Subtree(p)' = SubtreeOf(branches', p)
    BY DEF Subtree
  <2>2. PICK d \in Elements(branches'[p]) : n \in SubtreeOf(branches', d)
    BY <1>2, <1>3, <1>6, <2>1, SubtreeSplit
  <2>3. Clean(d)'
    BY <1>5
  <2>4. QED
    BY <2>2, <2>3 DEF Clean, Subtree
<1>7. ASSUME p \in Nodes PROVE Clean(p)'
  <2>1. ~win[p].marked
    BY <1>1, <1>2, <1>7, WindowsAssumption DEF FrameOK
  <2>2. ~win'[p].marked
    BY <1>3, <1>7, <2>1
  <2>3. \A n \in Subtree(p)' : ~win'[n].marked
    BY <1>6, <2>2
  <2>4. QED
    BY <2>3 DEF Clean
<1>8. ASSUME p = Roots PROVE ~Marks'
  <2>1. \A n \in Allocated' : n \in Subtree(p)' /\ n # p
    BY <1>8 DEF Allocated, Subtree
  <2>2. QED
    BY <1>6, <2>1 DEF Marks
<1>9. QED
  BY <1>7, <1>8

LEMMA ApplyDoneSweep ==
    ASSUME SInv, ApplyDone
    PROVE  /\ SInv' /\ Doomed' = Doomed /\ live' = live
           /\ Top.node = Roots => Doomed = {} /\ ~Removing'
           /\ Top.node # Roots => Removing'
<1>1. /\ IInv /\ Searched /\ Condemned /\ Tidied /\ Pending
      /\ pc = "removing" /\ Top.walk = "apply" /\ live' = live
  BY DEF SInv, ApplyDone
<1>2. PICK F : Frees(F) /\ \A c \in Elements(Children) : win[c].marked => c \in F
  BY <1>1, ApplyDoneFrees
<1>3. PICK p : p = Top.node
  OBVIOUS
<1>4. (p \in Nodes => Clean(p)') /\ (p = Roots => ~Marks')
  BY <1>2, <1>3, SearchDone
<1>5. Doomed' = Doomed /\ (F = {} => Marks' = Marks)
  BY <1>1, <1>2, DoomedFacts, FreedGraph
<1>6. IInv'
  BY <1>1, ApplyDoneInv
<1>7. /\ p \in Places /\ Len(stack) \in Nat \ {0} /\ (p = Roots <=> Len(stack) = 1)
  BY <1>1, <1>3, TopFacts
<1>8. Tidied'
  <2>1. pc' # "callback"
    BY <1>1 DEF ApplyDone
  <2>2. /\ Allocated' = Allocated \ F
        /\ \A n \in Nodes \ F : win'[n].deallocs = win[n].deallocs
    BY <1>2 DEF Frees
  <2>3. \A n \in Allocated' : win'[n].deallocs = IF n \in live THEN 0 ELSE 1
    BY <1>1, <2>2, AllocatedBelow DEF Tidied, InCallback
  <2>4. QED
    BY <1>1, <2>1, <2>3 DEF Tidied, InCallback
<1>9. removed' = (removed \/ F # {}) /\ changing /\ (removed \/ Marks)
  BY <1>1, <1>2 DEF Frees, Pending, Removing
<1>10. CASE p = Roots
  <2>1. changing' = FALSE /\ dirty' = TRUE /\ pc' = "polling"
    BY <1>3, <1>10 DEF ApplyDone
  <2>2. ~Marks' /\ removed' /\ ~Removing'
    BY <1>4, <1>5, <1>9, <1>10, <2>1 DEF Removing
  <2>3. Pending'
    BY <2>1, <2>2 DEF Pending
  <2>4. Searched' /\ Condemned'
    <3>1. (IInv /\ ~Removing => Searched /\ Condemned)'
      BY IdleStack, PTL
    <3>2. QED
      BY <1>6, <2>2, <3>1
  <2>5. Doomed = {}
    BY <1>5, <2>2 DEF Doomed, Marks
  <2>6. QED
    BY <1>1, <1>3, <1>5, <1>6, <1>8, <1>10, <2>2, <2>3, <2>4, <2>5 DEF SInv
<1>11. CASE p # Roots
  <2>1. /\ Return /\ pc' = pc /\ changing' = changing /\ Len(stack) >= 2 /\ p \in Nodes
    BY <1>3, <1>7, <1>11, TwoOrMore DEF ApplyDone, flags, Places
  <2>2. Removing /\ Removing'
    BY <1>1, <2>1 DEF Removing
  <2>3. Pending'
    BY <1>5, <1>9, <2>1, <2>2 DEF Pending
  <2>4. Searched' /\ Condemned'
    BY <1>1, <1>2, <1>3, <1>4, <2>1, FreedStack
  <2>5. QED
    BY <1>1, <1>3, <1>5, <1>6, <1>8, <1>11, <2>2, <2>3, <2>4 DEF SInv
<1>12. QED
  BY <1>10, <1>11

LEMMA DeallocReturnsSweep ==
    ASSUME SInv, DeallocReturns
    PROVE  /\ SInv' /\ Top.node \in Doomed /\ Doomed' = Doomed \ {Top.node}
           /\ live' = live \ {Top.node} /\ Removing /\ Removing'
<1>1. /\ IInv /\ Searched /\ Condemned /\ Tidied /\ Pending
      /\ pc = "callback" /\ pc' = "removing" /\ Return /\ changing' = changing
  BY DEF SInv, DeallocReturns, flags
<1>2. PICK n \in Nodes : n = Top.node
  BY <1>1, CallbackTop
<1>3. /\ Top = stack[1] /\ Top.walk = "remove" /\ stack \in Seq(Frame)
      /\ Len(stack) \in Nat \ {0} /\ Len(stack) >= 2 /\ n \in live
  BY <1>1, <1>2, CallbackTop
<1>4. live' = live \ {n} /\ Removing /\ Removing'
  BY <1>1, <1>2 DEF DeallocReturns, Removing
<1>5. PICK F : Frees(F)
  BY <1>1, DeallocReturnsFrees
<1>6. n \in Doomed
  <2>1. 1 \in 1..Len(stack)
    BY <1>3
  <2>2. QED
    BY <1>1, <1>2, <1>3, <2>1 DEF Condemned
<1>7. Doomed' = Doomed \ {n} /\ (F = {} => Marks' = Marks)
  BY <1>1, <1>4, <1>5, DoomedFacts, FreedGraph
<1>8. IInv'
  BY <1>1, DeallocReturnsInv
<1>9. Searched' /\ Condemned'
  <2>1. stack[2].walk = "apply" => win[n].marked
    <3>1. 1 \in 1..Len(stack) - 1
      BY <1>3
    <3>2. QED
      BY <1>1, <1>2, <1>3, <3>1 DEF IInv, StackOK, Linked
  <2>2. win'[n].marked = win[n].marked
    BY <1>2, <1>5 DEF Frees
  <2>3. stack[2].walk = "apply" => win'[n].marked \/ Clean(n)'
    BY <2>1, <2>2
  <2>4. QED
    BY <1>1, <1>2, <1>3, <1>4, <1>5, <2>3, FreedStack
<1>10. Tidied'
  <2>1. /\ Allocated' = Allocated \ F
        /\ \A m \in Nodes \ F : win'[m].deallocs = win[m].deallocs
    BY <1>5 DEF Frees
  <2>2. \A m : ~InCallback(m)' /\ (InCallback(m) <=> m = n)
    BY <1>1, <1>2 DEF InCallback
  <2>3. \A m \in Allocated' : win'[m].deallocs = IF m \in live \ {n} THEN 0 ELSE 1
    BY <1>1, <2>1, <2>2, AllocatedBelow DEF Tidied
  <2>4. QED
    BY <1>4, <2>2, <2>3 DEF Tidied
<1>11. Pending'
  <2>1. removed' = (removed \/ F # {})
    BY <1>5 DEF Frees
  <2>2. changing /\ (removed \/ Marks)
    BY <1>1, <1>4 DEF Pending
  <2>3. changing' /\ (removed' \/ Marks')
    BY <1>1, <1>7, <2>1, <2>2
  <2>4. QED
    BY <1>4, <2>3 DEF Pending
<1>12. QED
  BY <1>2, <1>4, <1>6, <1>7, <1>8, <1>9, <1>10, <1>11 DEF SInv

-----------------------------------------------------------------------------
(* User code and the start of a pass.                                       *)

\* A new window is doomed if its parent is.
LEMMA CreateSweep ==
    ASSUME SInv, TameCallbacks, NEW parent \in Usable \cup {Roots}, Create(parent)
    PROVE  /\ SInv' /\ Removing' = Removing
           /\ \E n \in Nodes :
                 /\ n \notin live /\ live' = live \cup {n}
                 /\ Doomed' = IF parent \in Doomed THEN Doomed \cup {n} ELSE Doomed
<1>1. /\ IInv /\ Searched /\ Condemned /\ Tidied /\ Pending
      /\ changing' = changing /\ dirty' = dirty /\ pc' = pc /\ stack' = stack
      /\ removed' = removed /\ Removing' = Removing
  BY DEF SInv, Create, flags, control, Removing
<1>2. PICK n : Adds(parent, n)
  BY <1>1, CreateAdds
<1>3. /\ branches \in GraphType /\ win \in [Nodes -> Window] /\ parent \in Places
      /\ parent \in live \cup {Roots} /\ n # parent
      /\ n \in Nodes /\ n \notin Allocated /\ n \notin live /\ live' = live \cup {n}
      /\ branches' \in GraphType /\ branches[n] = <<>> /\ Allocated' = Allocated \cup {n}
      /\ Elements(branches'[parent]) = Elements(branches[parent]) \cup {n}
      /\ \A x \in Places : x # parent => branches'[x] = branches[x]
      /\ \A x \in Places : n \notin Elements(branches[x])
      /\ win' = [win EXCEPT ![n] = NewWindow]
  BY <1>1, <1>2 DEF Adds, IInv, TypeOK, GraphType, Usable, Places
<1>4. /\ ~win'[n].marked /\ win'[n].deallocs = 0
      /\ \A m \in Nodes : m # n => win'[m] = win[m]
  BY <1>3 DEF NewWindow
<1>5. ASSUME NEW m \in Places
      PROVE  /\ Subtree(m) \subseteq Subtree(m)'
             /\ Subtree(m)' \subseteq Subtree(m) \cup {n}
             /\ parent \in Subtree(m) => n \in Subtree(m)'
             /\ n \in Subtree(m)' => n \in Subtree(m) \/ parent \in Subtree(m)
  <2>1. Elements(branches[n]) = {}
    BY <1>3 DEF Elements
  <2>2. QED
    BY <1>3, <2>1, SubtreeGrown DEF Subtree
<1>6. \A m \in Allocated : /\ m \in Nodes /\ m \in Places /\ m # n
                           /\ Subtree(m) \subseteq Allocated /\ Roots \notin Subtree(m)
  BY <1>1, <1>3, AllocatedBelow DEF Allocated, Places
<1>7. \A x \in live : x \in Doomed' <=> x \in Doomed
  <2> TAKE x \in live
  <2>1. ASSUME NEW m \in Allocated
        PROVE  /\ x \in Subtree(m)' <=> x \in Subtree(m)
               /\ win'[m].marked = win[m].marked
    BY <1>3, <1>4, <1>5, <1>6
  <2>2. (\E m \in Allocated' : win'[m].marked /\ x \in Subtree(m)')
          <=> (\E m \in Allocated : win[m].marked /\ x \in Subtree(m))
    BY <1>3, <1>4, <2>1
  <2>3. QED
    BY <1>3, <2>2 DEF Doomed
<1>8. n \in Doomed' <=> parent \in Doomed
  <2>1. ASSUME NEW m \in Allocated
        PROVE  /\ n \in Subtree(m)' <=> parent \in Subtree(m)
               /\ win'[m].marked = win[m].marked
    BY <1>3, <1>4, <1>5, <1>6
  <2>2. (\E m \in Allocated' : win'[m].marked /\ n \in Subtree(m)')
          <=> (\E m \in Allocated : win[m].marked /\ parent \in Subtree(m))
    BY <1>3, <1>4, <2>1
  <2>3. (\E m \in Allocated : win[m].marked /\ parent \in Subtree(m)) => parent \in live
    BY <1>3, <1>6
  <2>4. QED
    BY <1>3, <2>2, <2>3 DEF Doomed
<1>9. Doomed' = IF parent \in Doomed THEN Doomed \cup {n} ELSE Doomed
  <2>1. Doomed' \subseteq live \cup {n} /\ Doomed \subseteq live
    BY <1>3 DEF Doomed
  <2>2. \A x : x \in Doomed' <=> x \in Doomed \/ (x = n /\ parent \in Doomed)
    BY <1>3, <1>7, <1>8, <2>1
  <2>3. QED
    BY <2>2
<1>10. ASSUME NEW c \in Nodes, Clean(c) PROVE Clean(c)'
  <2>1. Subtree(c)' \subseteq Subtree(c) \cup {n} /\ Subtree(c) \subseteq Nodes
    BY <1>3, <1>5, SubtreeOfNode DEF Subtree, Places
  <2>2. \A m \in Subtree(c)' : ~win'[m].marked
    BY <1>4, <1>10, <2>1 DEF Clean
  <2>3. QED
    BY <2>2 DEF Clean
<1>11. Searched'
  <2> SUFFICES ASSUME NEW i \in 1..Len(stack), stack[i].walk = "apply",
                      NEW d \in Removed(stack[i])'
               PROVE  win'[d].marked \/ Clean(d)'
    BY <1>1 DEF Searched
  <2>1. PICK f : f = stack[i]
    OBVIOUS
  <2>2. d \in Removed(f)
    <3>1. Removed(f)' = Removed(f)
      BY <1>1, <1>2, <2>1, AddsKeepsFrames
    <3>2. Removed(stack[i])' = Removed(f)'
      BY <1>1, <2>1 DEF Removed, Done
    <3>3. QED
      BY <3>1, <3>2
  <2>3. d \in Nodes /\ d \in Elements(branches[f.node]) /\ (win[d].marked \/ Clean(d))
    BY <1>1, <2>1, <2>2, RemovedNodes DEF Searched
  <2>4. d # n
    <3>1. stack[i] \in Frame
      BY <1>1 DEF IInv, TypeOK
    <3>2. QED
      BY <1>3, <2>1, <2>3, <3>1 DEF Frame
  <2>5. QED
    BY <1>4, <1>10, <2>3, <2>4
<1>12. Condemned'
  <2>1. Doomed \subseteq Doomed'
    BY <1>9
  <2>2. QED
    BY <1>1, <2>1 DEF Condemned
<1>13. Tidied'
  <2>1. ~InCallback(n)
    <3>1. pc = "callback" => Top.node \in live
      BY <1>1, CallbackTop
    <3>2. QED
      BY <1>3, <3>1 DEF InCallback
  <2>2. \A m : InCallback(m)' <=> InCallback(m)
    BY <1>1 DEF InCallback, Top
  <2>3. \A m \in Allocated' :
           win'[m].deallocs = IF m \in live' /\ ~InCallback(m) THEN 0 ELSE 1
    BY <1>1, <1>3, <1>4, <1>6, <2>1 DEF Tidied
  <2>4. QED
    BY <2>2, <2>3 DEF Tidied
<1>14. Marks' = Marks
  BY <1>3, <1>4, <1>6 DEF Marks
<1>15. Pending'
  BY <1>1, <1>14 DEF Pending
<1>16. IInv'
  BY <1>1, CreateInv
<1>17. QED
  BY <1>1, <1>3, <1>9, <1>11, <1>12, <1>13, <1>15, <1>16 DEF SInv

\* Destroy dooms a window and all below it.
LEMMA DestroySweep ==
    ASSUME SInv, TameCallbacks, NEW node \in Usable, Destroy(node)
    PROVE  /\ SInv' /\ ~Removing /\ ~Removing' /\ live' = live
           /\ Subtree(node) \subseteq live /\ Subtree(node) # {}
           /\ Doomed' = Doomed \cup Subtree(node)
<1>1. /\ IInv /\ Searched /\ Condemned /\ Tidied /\ Pending
      /\ branches' = branches /\ live' = live /\ changing' = TRUE /\ dirty' = dirty
      /\ pc' = pc /\ stack' = stack /\ removed' = removed
      /\ pc \in {"main", "handler"}
      /\ win' = [n \in Nodes |-> [win[n] EXCEPT !.marked = @ \/ n \in Subtree(node)]]
  BY DEF SInv, Destroy, control, Calls, TameCallbacks
<1>2. ~Removing /\ ~Removing'
  BY <1>1 DEF Removing
<1>3. node \in Allocated /\ live = Allocated
  BY <1>1, <1>2 DEF Usable, IInv, Accounted
<1>4. node \in Subtree(node) /\ Subtree(node) \subseteq Allocated
  BY <1>1, <1>3, AllocatedBelow
<1>5. \A m \in Nodes : win[m] \in Window
  BY <1>1 DEF IInv, TypeOK
<1>6. \A m \in Nodes : /\ win'[m].marked = (win[m].marked \/ m \in Subtree(node))
                       /\ win'[m].deallocs = win[m].deallocs
  BY <1>1, <1>5 DEF Window
<1>7. /\ Allocated' = Allocated /\ \A m : Subtree(m)' = Subtree(m)
      /\ \A m \in Allocated : m \in Nodes
  BY <1>1, AllocatedBelow DEF Allocated, Subtree
<1>8. \A m \in Subtree(node) : Subtree(m) \subseteq Subtree(node)
  <2>1. branches \in GraphType /\ node \in Places
    BY <1>1, <1>3, <1>7 DEF IInv, TypeOK, GraphType, Places
  <2>2. QED
    BY <2>1, SubtreeBelow DEF Subtree
<1>9. Doomed' = Doomed \cup Subtree(node)
  <2>1. ASSUME NEW x \in Doomed' PROVE x \in Doomed \cup Subtree(node)
    <3>1. x \in live /\ \E m \in Allocated : win'[m].marked /\ x \in Subtree(m)
      BY <1>1, <1>7 DEF Doomed
    <3>2. PICK m \in Allocated : win'[m].marked /\ x \in Subtree(m)
      BY <3>1
    <3>3. CASE win[m].marked
      BY <3>1, <3>2, <3>3 DEF Doomed
    <3>4. CASE m \in Subtree(node)
      BY <1>8, <3>2, <3>4
    <3>5. QED
      BY <1>6, <1>7, <3>2, <3>3, <3>4
  <2>2. ASSUME NEW x \in Doomed PROVE x \in Doomed'
    <3>1. x \in live /\ \E m \in Allocated : win[m].marked /\ x \in Subtree(m)
      BY DEF Doomed
    <3>2. \E m \in Allocated' : win'[m].marked /\ x \in Subtree(m)'
      BY <1>6, <1>7, <3>1
    <3>3. QED
      BY <1>1, <3>1, <3>2 DEF Doomed
  <2>3. ASSUME NEW x \in Subtree(node) PROVE x \in Doomed'
    <3>1. win'[node].marked /\ node \in Allocated' /\ x \in Subtree(node)' /\ x \in live'
      BY <1>1, <1>3, <1>4, <1>6, <1>7
    <3>2. QED
      BY <3>1 DEF Doomed
  <2>4. QED
    BY <2>1, <2>2, <2>3
<1>10. IInv'
  BY <1>1, UserInv
<1>11. Searched' /\ Condemned'
  <2>1. (IInv /\ ~Removing => Searched /\ Condemned)'
    BY IdleStack, PTL
  <2>2. QED
    BY <1>2, <1>10, <2>1
<1>12. Tidied'
  <2>1. \A m : InCallback(m)' <=> InCallback(m)
    BY <1>1 DEF InCallback, Top
  <2>2. QED
    BY <1>1, <1>6, <1>7, <2>1 DEF Tidied
<1>13. Pending'
  <2>1. Marks'
    BY <1>3, <1>4, <1>6, <1>7 DEF Marks
  <2>2. QED
    BY <1>1, <1>2, <2>1 DEF Pending
<1>14. QED
  BY <1>1, <1>2, <1>3, <1>4, <1>9, <1>10, <1>11, <1>12, <1>13 DEF SInv

\* A pass starts with a removal exactly if a window is doomed.
LEMMA ProcessEventsSweep ==
    ASSUME SInv, ProcessEvents
    PROVE  /\ SInv' /\ Doomed' = Doomed /\ live' = live /\ ~Removing
           /\ Removing' => Doomed # {}
<1>1. /\ IInv /\ Searched /\ Condemned /\ Tidied /\ Pending
      /\ pc = "main" /\ branches' = branches /\ live' = live /\ win' = win
      /\ changing' = changing /\ removed' = FALSE /\ SameGraph
      /\ pc' = IF changing THEN "removing" ELSE "polling"
      /\ stack' = <<NewFrame(IF changing THEN "apply" ELSE "branches", Roots)>>
      /\ dirty' = IF changing THEN dirty ELSE FALSE
  BY DEF SInv, ProcessEvents, graph, flags, SameGraph
<1>2. /\ Allocated' = Allocated /\ Doomed' = Doomed /\ Marks' = Marks
  BY <1>1, SameGraphFacts
<1>3. ~Removing /\ (Removing' <=> changing) /\ (changing <=> Marks)
  BY <1>1 DEF Removing, Pending
<1>4. IInv'
  BY <1>1, ProcessEventsInv
<1>5. Marks => Doomed # {}
  <2>1. live = Allocated
    BY <1>1, <1>3 DEF IInv, Accounted
  <2>2. QED
    BY <1>1, <2>1, DoomedFacts DEF Marks
<1>6. Pending'
  BY <1>1, <1>2, <1>3 DEF Pending
<1>7. Tidied'
  BY <1>1, <1>2 DEF Tidied, InCallback
<1>8. Searched' /\ Condemned'
  <2>1. PICK f : f = NewFrame(IF changing THEN "apply" ELSE "branches", Roots)
    OBVIOUS
  <2>2. /\ f.walk = (IF changing THEN "apply" ELSE "branches") /\ f.at = 0
        /\ f.node = Roots
    BY <2>1 DEF NewFrame
  <2>3. stack' = <<f>>
    BY <1>1, <2>1
  <2>4. Len(stack') = 1 /\ \A i \in 1..Len(stack') : stack'[i] = f
    BY <2>3
  <2>5. Condemned'
    BY <2>2, <2>4 DEF Condemned
  <2>6. Done(f)' = {}
    <3>1. branches'[Roots] \in Seq(Nodes)
      BY <1>4 DEF IInv, TypeOK, Places
    <3>2. \A j \in DOMAIN branches'[Roots] : ~(j <= 0)
      BY <3>1
    <3>3. QED
      BY <2>2, <3>2 DEF Done
  <2>7. \A i \in 1..Len(stack') : Removed(stack[i])' = {}
    BY <2>4, <2>6 DEF Removed, Done
  <2>8. Searched'
    BY <2>7 DEF Searched
  <2>9. QED
    BY <2>5, <2>8
<1>9. QED
  BY <1>1, <1>2, <1>3, <1>4, <1>5, <1>6, <1>7, <1>8 DEF SInv

-----------------------------------------------------------------------------
(* The walk and the flags.                                                  *)

\* Polling, and what user code does to a window's own members, is Quiet.
LEMMA PollingQuiet ==
    ASSUME SInv,
           \/ PollNext \/ PollReturns \/ HandlerReturns \/ Drained \/ HandleEvent
           \/ UNCHANGED vars
    PROVE  Quiet
<1>1. win \in [Nodes -> Window]
  BY DEF SInv, IInv, TypeOK
<1>2. CASE PollNext \/ PollReturns \/ HandlerReturns \/ Drained
  <2>1. /\ UNCHANGED <<branches, live, win, changing, dirty, removed>>
        /\ ~Removing /\ ~Removing'
    BY <1>2 DEF PollNext, PollReturns, HandlerReturns, Drained, graph, flags, Removing
  <2>2. QED
    BY <2>1 DEF Quiet, SameGraph
<1>3. CASE HandleEvent
  <2>1. /\ UNCHANGED <<branches, live, changing, dirty, removed>>
        /\ ~Removing /\ ~Removing'
        /\ win' = [win EXCEPT ![Top.node].queue = @ - 1]
    BY <1>3 DEF HandleEvent, TakeEvent, flags, Removing
  <2>2. \A n \in Nodes : win'[n].marked = win[n].marked /\ win'[n].deallocs = win[n].deallocs
    BY <1>1, <2>1 DEF Window
  <2>3. QED
    BY <2>1, <2>2 DEF Quiet, SameGraph
<1>4. CASE UNCHANGED vars
  BY <1>4 DEF vars, Quiet, SameGraph
<1>5. QED
  BY <1>2, <1>3, <1>4

LEMMA MembersQuiet ==
    ASSUME SInv, NEW node \in Nodes,
           \/ \E freezer \in Usable \cup {NoNode} : Freeze(node, freezer) \/ Unfreeze(node, freezer)
           \/ SetFrozenEvent(node) \/ Close(node) \/ Arrive(node)
    PROVE  Quiet
<1>1. win \in [Nodes -> Window]
  BY DEF SInv, IInv, TypeOK
<1>2. UNCHANGED <<branches, live, changing, dirty, pc, stack, removed>>
  BY DEF Freeze, Unfreeze, SetFrozenEvent, Close, Arrive, flags, control
<1>3. \A n \in Nodes : win'[n].marked = win[n].marked /\ win'[n].deallocs = win[n].deallocs
  <2>1. ASSUME NEW freezer, Freeze(node, freezer)
        PROVE  \A n \in Nodes : win'[n].marked = win[n].marked /\ win'[n].deallocs = win[n].deallocs
    BY <1>1, <2>1 DEF Freeze, Window
  <2>2. ASSUME NEW freezer, Unfreeze(node, freezer)
        PROVE  \A n \in Nodes : win'[n].marked = win[n].marked /\ win'[n].deallocs = win[n].deallocs
    BY <1>1, <2>2 DEF Unfreeze, Window
  <2>3. CASE SetFrozenEvent(node)
    BY <1>1, <2>3 DEF SetFrozenEvent, Window
  <2>4. CASE Close(node)
    BY <1>1, <2>4 DEF Close, Window
  <2>5. CASE Arrive(node)
    BY <1>1, <2>5 DEF Arrive, Window
  <2>6. QED
    BY <2>1, <2>2, <2>3, <2>4, <2>5
<1>4. QED
  BY <1>2, <1>3 DEF Quiet, SameGraph

LEMMA InitSweep == Init => SInv
<1> SUFFICES ASSUME Init PROVE SInv
  OBVIOUS
<1>1. IInv
  BY InitInv
<1>2. /\ ~Removing /\ live = {} /\ changing = FALSE /\ dirty = FALSE /\ removed = FALSE
  BY DEF Init, Removing
<1>3. Allocated = {}
  BY <1>1, <1>2 DEF IInv, Accounted
<1>4. Tidied /\ Pending
  BY <1>2, <1>3 DEF Tidied, Pending, Marks
<1>5. QED
  BY <1>1, <1>2, <1>4, IdleStack DEF SInv

\* What a step means to WindowGraph: one of its steps, or none.
Stutters == Doomed' = Doomed /\ live' = live /\ Removing' = Removing
Keeps ==
    \/ Stutters
    \/ \E n \in Nodes :
          /\ n \notin live /\ live' = live \cup {n} /\ Removing' = Removing
          /\ Doomed' = Doomed \/ (Doomed # {} /\ Doomed' = Doomed \cup {n})
    \/ \E S \in SUBSET live :
          /\ S # {} /\ ~Removing /\ ~Removing' /\ live' = live /\ Doomed' = Doomed \cup S
    \/ /\ ~Removing /\ Removing' /\ Doomed # {} /\ Doomed' = Doomed /\ live' = live
    \/ \E n \in Nodes :
          /\ n \in Doomed /\ Removing /\ Removing'
          /\ live' = live \ {n} /\ Doomed' = Doomed \ {n}
    \/ /\ Removing /\ ~Removing' /\ Doomed = {} /\ Doomed' = Doomed /\ live' = live

LEMMA QuietKeeps == SInv /\ Quiet => Stutters
<1> SUFFICES ASSUME SInv, Quiet PROVE Stutters
  OBVIOUS
<1>1. Doomed' = Doomed /\ live' = live
  BY SameGraphFacts DEF Quiet, SInv, SameGraph
<1>2. Removing' = Removing
  BY DEF Quiet, Removing
<1>3. QED
  BY <1>1, <1>2 DEF Stutters

LEMMA StepSweep == TameCallbacks /\ SInv /\ [Next]_vars => SInv' /\ Keeps
<1> SUFFICES ASSUME TameCallbacks, SInv, [Next]_vars PROVE SInv' /\ Keeps
  OBVIOUS
<1>1. IInv /\ IInv'
  BY StepInv DEF SInv
<1>2. ASSUME Quiet PROVE SInv' /\ Keeps
  BY <1>1, <1>2, QuietSweep, QuietKeeps DEF Keeps
<1>3. ASSUME SameGraph, Removing' = Removing PROVE Keeps
  <2>1. Doomed' = Doomed /\ live' = live
    BY <1>1, <1>3, SameGraphFacts DEF SameGraph
  <2>2. QED
    BY <1>3, <2>1 DEF Keeps, Stutters
<1>4. CASE ProcessEvents
  <2>1. SInv' /\ Doomed' = Doomed /\ live' = live /\ ~Removing /\ (Removing' => Doomed # {})
    BY <1>4, ProcessEventsSweep
  <2>2. ~Removing' => Stutters
    BY <2>1 DEF Stutters, Removing
  <2>3. QED
    BY <2>1, <2>2 DEF Keeps
<1>5. CASE ApplyNext
  <2>1. Removing' = Removing
    BY <1>5 DEF ApplyNext, Removing
  <2>2. QED
    BY <1>3, <1>5, <2>1, ApplyNextSweep
<1>6. CASE ApplyDone
  <2>1. Removing
    BY <1>6 DEF ApplyDone, Removing
  <2>2. QED
    BY <1>6, <2>1, ApplyDoneSweep DEF Keeps, Stutters
<1>7. CASE RemoveNext
  <2>1. Removing' = Removing
    BY <1>7 DEF RemoveNext, Removing
  <2>2. QED
    BY <1>3, <1>7, <2>1, RemoveNextSweep
<1>8. CASE RunDealloc
  <2>1. Removing' = Removing
    BY <1>8 DEF RunDealloc, Removing
  <2>2. QED
    BY <1>3, <1>8, <2>1, RunDeallocSweep
<1>9. CASE DeallocReturns
  <2>1. Top.node \in Nodes
    BY <1>1, <1>9, CallbackTop DEF DeallocReturns
  <2>2. QED
    BY <1>9, <2>1, DeallocReturnsSweep DEF Keeps
<1>10. CASE Polling \/ UNCHANGED vars
  BY <1>2, <1>10, PollingQuiet DEF Polling
<1>11. ASSUME NEW parent \in Usable \cup {Roots}, Create(parent) PROVE SInv' /\ Keeps
  <2>1. SInv' /\ Removing' = Removing
    BY <1>11, CreateSweep
  <2>2. PICK n \in Nodes :
           /\ n \notin live /\ live' = live \cup {n}
           /\ Doomed' = IF parent \in Doomed THEN Doomed \cup {n} ELSE Doomed
    BY <1>11, CreateSweep
  <2>3. Doomed' = Doomed \/ (Doomed # {} /\ Doomed' = Doomed \cup {n})
    BY <2>2
  <2>4. \E k \in Nodes :
           /\ k \notin live /\ live' = live \cup {k} /\ Removing' = Removing
           /\ Doomed' = Doomed \/ (Doomed # {} /\ Doomed' = Doomed \cup {k})
    BY <2>1, <2>2, <2>3
  <2>5. QED
    BY <2>1, <2>4, Zenon DEF Keeps
<1>12. ASSUME NEW node \in Usable, Destroy(node) PROVE SInv' /\ Keeps
  <2>1. /\ SInv' /\ ~Removing /\ ~Removing' /\ live' = live
        /\ Subtree(node) \in SUBSET live /\ Subtree(node) # {}
        /\ Doomed' = Doomed \cup Subtree(node)
    BY <1>12, DestroySweep
  <2>2. QED
    BY <2>1 DEF Keeps
<1>13. CASE UserStep
  <2>1. Usable \subseteq Nodes
    BY <1>1 DEF Usable, IInv, TypeOK
  <2>2. QED
    BY <1>2, <1>11, <1>12, <1>13, <2>1, MembersQuiet DEF UserStep
<1>14. CASE \E n \in Nodes : Arrive(n)
  BY <1>2, <1>14, MembersQuiet
<1>15. QED
  BY <1>4, <1>5, <1>6, <1>7, <1>8, <1>9, <1>10, <1>13, <1>14 DEF Next, LibraryStep, Removal

\* The removal walk finds every destroyed window, removes nothing else, and
\* runs each callback once; the flags tell what it did.
THEOREM SweepInvariant == ASSUME TameCallbacks PROVE Spec => []SInv
<1>1. SInv /\ [Next]_vars => SInv'
  BY StepSweep
<1>2. QED
  BY InitSweep, <1>1, PTL DEF Spec

\* No Destroy request is forgotten: whenever a marked window is still there and
\* no removal is under way, graph_changing_ makes the next pass remove it.
THEOREM RequestsAreKept == ASSUME TameCallbacks PROVE Spec => []RequestsKept
<1>1. SInv => RequestsKept
  BY DEF SInv, Pending, Marks, RequestsKept
<1>2. QED
  BY SweepInvariant, <1>1, PTL

\* After a pass graph_dirty_ is set exactly if the pass freed windows.
THEOREM DirtyIsTrue == ASSUME TameCallbacks PROVE Spec => []DirtyTellsRemoval
<1>1. SInv => DirtyTellsRemoval
  BY DEF SInv, Pending, DirtyTellsRemoval
<1>2. QED
  BY SweepInvariant, <1>1, PTL

\* Windows does what WindowGraph promises: windows disappear in sweeps only, and
\* a sweep takes every doomed window and no other.
THEOREM KeepsItsPromise == ASSUME TameCallbacks PROVE Spec => Promise!Spec
<1>1. Init => Promise!Init
  <2> SUFFICES ASSUME Init PROVE Promise!Init
    OBVIOUS
  <2>1. live = {} /\ Removing = FALSE
    BY DEF Init, Removing
  <2>2. Doomed = {}
    BY <2>1 DEF Doomed
  <2>3. QED
    BY <2>1, <2>2 DEF Promise!Init
<1>2. Keeps => [Promise!Next]_(Promise!vars)
  <2> SUFFICES ASSUME Keeps PROVE [Promise!Next]_(Promise!vars)
    OBVIOUS
  <2>1. CASE Stutters
    BY <2>1 DEF Stutters, Promise!vars
  <2>2. ASSUME NEW n \in Nodes, n \notin live, live' = live \cup {n}, Removing' = Removing,
               Doomed' = Doomed \/ (Doomed # {} /\ Doomed' = Doomed \cup {n})
        PROVE  Promise!Next
    <3>1. Promise!Create(n, FALSE) \/ Promise!Create(n, TRUE)
      BY <2>2 DEF Promise!Create
    <3>2. QED
      BY <3>1 DEF Promise!Next
  <2>3. ASSUME NEW S \in SUBSET live, S # {}, ~Removing, ~Removing', live' = live,
               Doomed' = Doomed \cup S
        PROVE  Promise!Next
    BY <2>3 DEF Promise!Next, Promise!Destroy, Removing
  <2>4. CASE ~Removing /\ Removing' /\ Doomed # {} /\ Doomed' = Doomed /\ live' = live
    BY <2>4 DEF Promise!Next, Promise!Sweep, Promise!StartSweep, Removing
  <2>5. ASSUME NEW n \in Nodes, n \in Doomed, Removing, Removing',
               live' = live \ {n}, Doomed' = Doomed \ {n}
        PROVE  Promise!Next
    BY <2>5 DEF Promise!Next, Promise!Sweep, Promise!Free, Removing
  <2>6. CASE Removing /\ ~Removing' /\ Doomed = {} /\ Doomed' = Doomed /\ live' = live
    BY <2>6 DEF Promise!Next, Promise!Sweep, Promise!EndSweep, Removing
  <2>7. QED
    BY <2>1, <2>2, <2>3, <2>4, <2>5, <2>6 DEF Keeps
<1>3. SInv /\ [Next]_vars => [Promise!Next]_(Promise!vars)
  BY StepSweep, <1>2
<1>4. QED
  BY <1>1, <1>3, SweepInvariant, PTL DEF Spec, Promise!Spec

\* Memory is freed by the removal walk only, for windows whose deallocation
\* callback ran exactly once and that no longer Exist.
THEOREM TidiedBeforeFreed == ASSUME TameCallbacks PROVE Spec => FreedOnceTidied
<1> DEFINE A == \A n \in Nodes : n \in Allocated /\ n \notin Allocated' =>
                  Removing /\ win[n].deallocs = 1 /\ n \notin live
<1>1. SInv /\ [Next]_vars => A
  <2> SUFFICES ASSUME SInv, [Next]_vars PROVE A
    OBVIOUS
  <2>1. IInv /\ Tidied
    BY DEF SInv
  <2>2. ASSUME NEW F, Frees(F), Removing PROVE A
    BY <2>1, <2>2 DEF Frees, Tidied
  <2>3. CASE ApplyDone
    <3>1. \E F : Frees(F)
      BY <2>1, <2>3, ApplyDoneFrees
    <3>2. QED
      BY <2>2, <2>3, <3>1 DEF ApplyDone, Removing
  <2>4. CASE DeallocReturns
    <3>1. \E F : Frees(F)
      BY <2>1, <2>4, DeallocReturnsFrees
    <3>2. QED
      BY <2>2, <2>4, <3>1 DEF DeallocReturns, Removing
  <2>5. ASSUME NEW parent \in Usable \cup {Roots}, Create(parent) PROVE A
    <3>1. Allocated \subseteq Allocated'
      BY <2>1, <2>5, CreateAdds DEF Adds
    <3>2. QED
      BY <3>1
  <2>6. ASSUME branches' = branches PROVE A
    BY <2>6 DEF Allocated, Subtree
  <2>7. CASE LibraryStep
    BY <2>3, <2>4, <2>6, <2>7
       DEF LibraryStep, Removal, Polling, ProcessEvents, ApplyNext, RemoveNext, RunDealloc,
           PollNext, PollReturns, HandleEvent, HandlerReturns, Drained, graph
  <2>8. CASE UserStep
    BY <2>5, <2>6, <2>8 DEF UserStep, Destroy, Freeze, Unfreeze, SetFrozenEvent, Close
  <2>9. CASE UNCHANGED vars \/ \E n \in Nodes : Arrive(n)
    BY <2>6, <2>9 DEF vars, Arrive
  <2>10. QED
    BY <2>7, <2>8, <2>9 DEF Next
<1>2. Spec => [][A]_vars
  BY SweepInvariant, <1>1, PTL DEF Spec
<1>3. QED
  BY <1>2 DEF FreedOnceTidied
=============================================================================

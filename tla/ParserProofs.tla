---------------------------- MODULE ParserProofs ----------------------------
(***************************************************************************)
(* Proofs about the parser, for any tokens the lexer can make: whatever it *)
(* accepts, every node of the tree it answers is right.                    *)
(***************************************************************************)
EXTENDS Parser, FiniteSetTheorems, SequenceTheorems, WellFoundedInduction, TLAPS

Positions == 1 .. (Len(toks) + 1)
\* The tokens are those of a text: none has the type of a node.
NodeTypes == {"Eofile", "Arguments", "VariableDeclaration"}
Lexed == Len(toks) \in Nat /\ \A i \in 1 .. Len(toks) : toks[i].type \notin NodeTypes

Kinds == {FunctionalStmt, PragmaticStmt, PragmaticDesc, DirectiveDesc}

\* Parse answers what the bodies of the rules say.  Every rule calls others
\* further on in the tokens, or at the same token in the order of the rules, so
\* that there is one answer to every goal at a position.
Recursion ==
  /\ \A c \in Positions :
       /\ \A level \in 1 .. Len(Levels) + 1 : ParseBinary(level, c) = ParseBinaryRule(level, c)
       /\ ParsePrefix(c) = ParsePrefixRule(c) /\ ParseSubexpr(c) = ParseSubexprRule(c)
       /\ ProcBlock(c) = ProcBlockRule(c) /\ EnumHeader(c) = EnumHeaderRule(c)
       /\ \A kind \in Kinds : Statement(kind, c) = StatementRule(kind, c)
       /\ \A last, history, scopes :
            FindSeperatedParen(c, last, history, scopes) = FindSeperatedParenRule(c, last, history, scopes)
  /\ \A acc : acc.at \in Positions =>
       /\ \A level \in DOMAIN Levels : FoldBinary(level, acc) = FoldBinaryRule(level, acc)
       /\ FoldResolution(acc) = FoldResolutionRule(acc) /\ FoldPostfix(acc) = FoldPostfixRule(acc)
       /\ \A kind \in Kinds, end \in Nat : Statements(kind, end, acc) = StatementsRule(kind, end, acc)
       /\ \A words : ParseIfBranches(acc, words) = ParseIfBranchesRule(acc, words)
       /\ Initializers(acc) = InitializersRule(acc) /\ EnumEntries(acc) = EnumEntriesRule(acc)
  /\ \A acc : \A scopes \in Seq(Nat \X Nat) :
       MethodParameters(acc, scopes) = MethodParametersRule(acc, scopes)

-----------------------------------------------------------------------------
(* Induction from the last token back to the first.                        *)

\* A set of numbers has a least one.
LEMMA LeastNumber ==
  ASSUME NEW T \in SUBSET Nat, T # {}
  PROVE  \E x \in T : \A y \in T : x <= y
<1>1. PICK n : n \in T
  OBVIOUS
<1> DEFINE S == 0 .. n
           below == {0 .. x : x \in T \cap S}
<1>2. IsFiniteSet(S) /\ FiniteSubsetsOf(S) = SUBSET S
  <2>1. IsFiniteSet(0 .. n)
    BY <1>1, FS_Interval
  <2>2. QED
    BY <2>1, FS_FiniteSubsetsOfFinite
<1>3. IsWellFoundedOn(StrictSubsetOrdering(S), SUBSET S)
  BY <1>2, FS_StrictSubsetOrderingWellFounded
<1>4. below \subseteq SUBSET S /\ below # {}
  BY <1>1
<1>5. PICK X \in below : \A Y \in below : ~(<<Y, X>> \in StrictSubsetOrdering(S))
  <2> HIDE DEF below, S
  <2>1. QED
    BY <1>3, <1>4, WFMin
<1>6. PICK x \in T \cap S : X = 0 .. x
  BY <1>5
<1>7. ASSUME NEW y \in T, y < x PROVE FALSE
  <2>1. 0 .. y \in below
    BY <1>1, <1>6, <1>7
  <2>2. (0 .. y) \subseteq X /\ (0 .. y) # X /\ X \in SUBSET S /\ (0 .. y) \in SUBSET S
    BY <1>1, <1>6, <1>7
  <2>3. <<0 .. y, X>> \in StrictSubsetOrdering(S)
    BY <2>2 DEF StrictSubsetOrdering
  <2>4. QED
    BY <1>5, <2>1, <2>3
<1>8. QED
  BY <1>6, <1>7

LEMMA FromTheEnd ==
  ASSUME NEW n \in Nat, NEW S,
         \A p \in 1 .. n : (\A k \in (p + 1) .. n : k \in S) => p \in S
  PROVE  \A p \in 1 .. n : p \in S
<1> SUFFICES ASSUME NEW q \in 1 .. n, q \notin S PROVE FALSE
  OBVIOUS
<1> DEFINE T == {d \in 0 .. n : n - d \in 1 .. n /\ n - d \notin S}
<1>1. T \in SUBSET Nat /\ T # {}
  <2>1. n - q \in T
    OBVIOUS
  <2>2. QED
    BY <2>1
<1>2. PICK d \in T : \A e \in T : d <= e
  BY <1>1, LeastNumber
<1>3. \A k \in ((n - d) + 1) .. n : k \in S
  <2> SUFFICES ASSUME NEW k \in ((n - d) + 1) .. n, k \notin S PROVE FALSE
    OBVIOUS
  <2>1. n - k \in T /\ ~(d <= n - k)
    OBVIOUS
  <2>2. QED
    BY <1>2, <2>1
<1>4. QED
  BY <1>2, <1>3

-----------------------------------------------------------------------------
(* Cursors.                                                                *)

LEMMA TokenAt ==
  ASSUME Lexed, NEW c \in Positions
  PROVE  /\ After(c) \in Positions /\ At(c) \notin {"Arguments", "VariableDeclaration"}
         /\ At(c) # "Eofile" => c \in 1 .. Len(toks) /\ After(c) = c + 1 /\ At(c) = toks[c].type
BY DEF Lexed, Positions, At, After, Advance, NodeTypes

LEMMA AdvanceFits ==
  ASSUME Lexed, NEW c \in Positions, NEW n \in Nat \ {0}
  PROVE  /\ Advance(c, n) \in Positions /\ Advance(c, n) >= c
         /\ c <= Len(toks) => Advance(c, n) > c
BY DEF Lexed, Positions, Advance

-----------------------------------------------------------------------------
(* Right trees.                                                            *)

Operand(n) == n.from < n.to /\ (n.type \in BinaryOps \cup {"Subexpression"} => n.kids # <<>>)
(* A node is right for what is checked of it, and for the evaluator: an    *)
(* operand is its token, an operator has its operands, and what a return   *)
(* statement or a definition holds is an expression.                       *)
Fits(n) ==
  /\ n = Node(n.type, n.from, n.to, n.kids) /\ n.from \in Nat /\ n.to \in Nat
  /\ Tiles(n) /\ Binds(n)
  /\ n.type \in AnOperand => n.from \in 1 .. Len(toks) /\ toks[n.from].type = n.type
  /\ n.type \in BinaryOps /\ n.kids # <<>> => Len(n.kids) = 2
  /\ n.type \in BinaryOps \cup {"Subexpression", "return"} =>
       \A i \in 1 .. Len(n.kids) : Operand(n.kids[i])
  /\ n.type = "VariableDeclaration" =>
       n.kids # <<>> /\ (Last(n.kids).kids # <<>> => Operand(Last(n.kids).kids[1]))

Forest(T) == \A n \in T : Fits(n) /\ n.kids \in Seq(T)
Tree(n) == \E T : n \in T /\ Forest(T)
Trees(kids) == \E S : kids \in Seq(S) /\ \A s \in S : Tree(s)

LEMMA NodeFields ==
  \A type, from, to, kids :
    /\ Node(type, from, to, kids).type = type /\ Node(type, from, to, kids).from = from
    /\ Node(type, from, to, kids).to = to /\ Node(type, from, to, kids).kids = kids
BY DEF Node

LEMMA TreeFits == ASSUME NEW n, Tree(n) PROVE Fits(n) /\ Trees(n.kids)
BY DEF Tree, Forest, Trees

\* A node above trees is a tree.
LEMMA Grow ==
  ASSUME NEW n, Fits(n), Trees(n.kids)
  PROVE  Tree(n)
<1>1. PICK S : n.kids \in Seq(S) /\ \A s \in S : Tree(s)
  BY DEF Trees
<1> DEFINE W(s) == CHOOSE T : s \in T /\ Forest(T)
           T == {n} \cup UNION {W(s) : s \in S}
<1>2. \A s \in S : s \in W(s) /\ Forest(W(s))
  <2> SUFFICES ASSUME NEW s \in S PROVE s \in W(s) /\ Forest(W(s))
    OBVIOUS
  <2>1. \E X : s \in X /\ Forest(X)
    BY <1>1 DEF Tree
  <2> HIDE DEF Forest
  <2>2. QED
    BY <2>1, Zenon
<1> HIDE DEF W
<1>3. \A s \in S : W(s) \subseteq T /\ s \in T
  BY <1>2
<1>4. \A A, B, s : A \subseteq B /\ s \in Seq(A) => s \in Seq(B)
  OBVIOUS
<1>5. n.kids \in Seq(T)
  <2>1. S \subseteq T
    BY <1>3
  <2> HIDE DEF T
  <2>2. QED
    BY <1>1, <1>4, <2>1
<1>6. \A m \in T : Fits(m) /\ m.kids \in Seq(T)
  <2> SUFFICES ASSUME NEW m \in T PROVE Fits(m) /\ m.kids \in Seq(T)
    OBVIOUS
  <2>1. CASE m = n
    BY <1>5, <2>1
  <2>2. ASSUME NEW s \in S, m \in W(s) PROVE Fits(m) /\ m.kids \in Seq(T)
    <3>1. Fits(m) /\ m.kids \in Seq(W(s))
      BY <1>2, <2>2 DEF Forest
    <3>2. W(s) \subseteq T
      BY <1>3
    <3> HIDE DEF T
    <3>3. QED
      BY <1>4, <3>1, <3>2
  <2>3. QED
    BY <2>1, <2>2
<1>7. n \in T
  OBVIOUS
<1> HIDE DEF T
<1>8. QED
  BY <1>6, <1>7 DEF Tree, Forest

LEMMA TreesOf == ASSUME NEW S, NEW kids \in Seq(S), \A s \in S : Tree(s) PROVE Trees(kids)
BY DEF Trees

LEMMA NoTrees == Trees(<<>>)
<1> DEFINE S == {}
<1>1. <<>> \in Seq(S) /\ \A s \in S : Tree(s)
  OBVIOUS
<1> HIDE DEF S
<1>2. QED
  BY <1>1, TreesOf

LEMMA MoreTrees ==
  ASSUME NEW kids, NEW n, Trees(kids), Tree(n)
  PROVE  Trees(Append(kids, n)) /\ Append(kids, n) # <<>> /\ Last(Append(kids, n)) = n
<1>1. PICK S : kids \in Seq(S) /\ \A s \in S : Tree(s)
  BY DEF Trees
<1>2. Append(kids, n) \in Seq(S \cup {n}) /\ Len(Append(kids, n)) = Len(kids) + 1
      /\ Append(kids, n)[Len(kids) + 1] = n /\ Len(kids) \in Nat
  BY <1>1
<1>3. \A s \in S \cup {n} : Tree(s)
  BY <1>1
<1>4. QED
  BY <1>2, <1>3 DEF Trees, Last

LEMMA FewTrees ==
  ASSUME NEW a, Tree(a)
  PROVE  /\ Trees(<<a>>)
         /\ \A b : Tree(b) => Trees(<<a, b>>)
         /\ \A b, c : Tree(b) /\ Tree(c) => Trees(<<a, b, c>>)
<1>1. Trees(<<a>>)
  <2> DEFINE S == {a}
  <2>1. <<a>> \in Seq(S) /\ \A s \in S : Tree(s)
    OBVIOUS
  <2> HIDE DEF S
  <2>2. QED
    BY <2>1, TreesOf
<1>2. ASSUME NEW b, Tree(b) PROVE Trees(<<a, b>>)
  <2> DEFINE S == {a, b}
  <2>1. <<a, b>> \in Seq(S) /\ \A s \in S : Tree(s)
    BY <1>2
  <2> HIDE DEF S
  <2>2. QED
    BY <2>1, TreesOf
<1>3. ASSUME NEW b, NEW c, Tree(b), Tree(c) PROVE Trees(<<a, b, c>>)
  <2> DEFINE S == {a, b, c}
  <2>1. <<a, b, c>> \in Seq(S) /\ \A s \in S : Tree(s)
    BY <1>3
  <2> HIDE DEF S
  <2>2. QED
    BY <2>1, TreesOf
<1>4. QED
  BY <1>1, <1>2, <1>3

-----------------------------------------------------------------------------
(* The operators.                                                          *)

LEMMA UpToTwelve ==
  \A i \in 1 .. 12 : i = 1 \/ i = 2 \/ i = 3 \/ i = 4 \/ i = 5 \/ i = 6 \/ i = 7 \/ i = 8
                   \/ i = 9 \/ i = 10 \/ i = 11 \/ i = 12
OBVIOUS

LEMMA PrioritiesAre ==
  /\ \A t : t \in CppPriority[1] <=> t = ","
  /\ \A t : t \in CppPriority[2] <=> t = "="
  /\ \A t : t \in CppPriority[3] <=> t = "||"
  /\ \A t : t \in CppPriority[4] <=> t = "&&"
  /\ \A t : t \in CppPriority[5] <=> t = "|"
  /\ \A t : t \in CppPriority[6] <=> t = "^"
  /\ \A t : t \in CppPriority[7] <=> t = "&"
  /\ \A t : t \in CppPriority[8] <=> t = "==" \/ t = "!="
  /\ \A t : t \in CppPriority[9] <=> t = "<" \/ t = ">" \/ t = "<=" \/ t = ">="
  /\ \A t : t \in CppPriority[10] <=> t = "<<" \/ t = ">>"
  /\ \A t : t \in CppPriority[11] <=> t = "+" \/ t = "-"
  /\ \A t : t \in CppPriority[12] <=> t = "*" \/ t = "/" \/ t = "%"
  /\ Len(CppPriority) = 12 /\ DOMAIN CppPriority = 1 .. 12
BY DEF CppPriority

LEMMA BinaryOpsAre ==
  \A t : t \in BinaryOps <=> \/ t = "," \/ t = "=" \/ t = "||" \/ t = "&&" \/ t = "|"
                            \/ t = "^" \/ t = "&" \/ t = "==" \/ t = "!=" \/ t = "<"
                            \/ t = ">" \/ t = "<=" \/ t = ">=" \/ t = "<<" \/ t = ">>"
                            \/ t = "+" \/ t = "-" \/ t = "*" \/ t = "/" \/ t = "%"
<1>1. \A t : t \in BinaryOps <=> \E i \in 1 .. 12 : t \in CppPriority[i]
  <2>1. DOMAIN CppPriority = 1 .. 12
    BY DEF CppPriority
  <2>2. QED
    BY <2>1 DEF BinaryOps
<1>2. \A i \in {1, 2, 3, 4, 5, 6, 7, 8, 9, 10, 11, 12} : i \in 1 .. 12
  OBVIOUS
<1>3. \A t : (\E i \in 1 .. 12 : t \in CppPriority[i]) <=>
         \/ t \in CppPriority[1] \/ t \in CppPriority[2] \/ t \in CppPriority[3] \/ t \in CppPriority[4]
         \/ t \in CppPriority[5] \/ t \in CppPriority[6] \/ t \in CppPriority[7] \/ t \in CppPriority[8]
         \/ t \in CppPriority[9] \/ t \in CppPriority[10] \/ t \in CppPriority[11]
         \/ t \in CppPriority[12]
  BY <1>2, UpToTwelve
<1>4. QED
  BY <1>1, <1>3, PrioritiesAre

\* How tightly the operators of a level bind.
Prio == <<1, 2, 3, 4, 5, 6, 7, 8, 9, 10, 10, 11, 12, 13>>
LEMMA PrioAre ==
  /\ Prio[1] = 1 /\ Prio[2] = 2 /\ Prio[3] = 3 /\ Prio[4] = 4 /\ Prio[5] = 5 /\ Prio[6] = 6
  /\ Prio[7] = 7 /\ Prio[8] = 8 /\ Prio[9] = 9 /\ Prio[10] = 10 /\ Prio[11] = 10
  /\ Prio[12] = 11 /\ Prio[13] = 12 /\ Prio[14] = 13
BY DEF Prio

LEMMA LevelsAre ==
  /\ \A t : t \in Levels[1] <=> t = ","
  /\ \A t : t \in Levels[2] <=> t = "="
  /\ \A t : t \in Levels[3] <=> t = "||"
  /\ \A t : t \in Levels[4] <=> t = "&&"
  /\ \A t : t \in Levels[5] <=> t = "|"
  /\ \A t : t \in Levels[6] <=> t = "^"
  /\ \A t : t \in Levels[7] <=> t = "&"
  /\ \A t : t \in Levels[8] <=> t = "==" \/ t = "!="
  /\ \A t : t \in Levels[9] <=> t = "<" \/ t = ">" \/ t = "<=" \/ t = ">="
  /\ \A t : t \in Levels[10] <=> t = "<=>"
  /\ \A t : t \in Levels[11] <=> t = "<<" \/ t = ">>"
  /\ \A t : t \in Levels[12] <=> t = "+" \/ t = "-"
  /\ \A t : t \in Levels[13] <=> t = "*" \/ t = "/" \/ t = "%"
  /\ Len(Levels) = 13 /\ DOMAIN Levels = 1 .. 13
BY DEF Levels

LEMMA WhichPriority ==
  ASSUME NEW t, NEW i \in 1 .. 12
  PROVE  t \in CppPriority[i] <=>
         \/ i = 1 /\ t \in {","}
         \/ i = 2 /\ t \in {"="}
         \/ i = 3 /\ t \in {"||"}
         \/ i = 4 /\ t \in {"&&"}
         \/ i = 5 /\ t \in {"|"}
         \/ i = 6 /\ t \in {"^"}
         \/ i = 7 /\ t \in {"&"}
         \/ i = 8 /\ t \in {"==", "!="}
         \/ i = 9 /\ t \in {"<", ">", "<=", ">="}
         \/ i = 10 /\ t \in {"<<", ">>"}
         \/ i = 11 /\ t \in {"+", "-"}
         \/ i = 12 /\ t \in {"*", "/", "%"}
<1>1. \/ i = 1 \/ i = 2 \/ i = 3 \/ i = 4 \/ i = 5 \/ i = 6 \/ i = 7 \/ i = 8
      \/ i = 9 \/ i = 10 \/ i = 11 \/ i = 12
  OBVIOUS
<1>2. CASE i = 1
  BY <1>2, PrioritiesAre
<1>3. CASE i = 2
  BY <1>3, PrioritiesAre
<1>4. CASE i = 3
  BY <1>4, PrioritiesAre
<1>5. CASE i = 4
  BY <1>5, PrioritiesAre
<1>6. CASE i = 5
  BY <1>6, PrioritiesAre
<1>7. CASE i = 6
  BY <1>7, PrioritiesAre
<1>8. CASE i = 7
  BY <1>8, PrioritiesAre
<1>9. CASE i = 8
  BY <1>9, PrioritiesAre
<1>10. CASE i = 9
  BY <1>10, PrioritiesAre
<1>11. CASE i = 10
  BY <1>11, PrioritiesAre
<1>12. CASE i = 11
  BY <1>12, PrioritiesAre
<1>13. CASE i = 12
  BY <1>13, PrioritiesAre
<1>14. QED
  BY <1>1, <1>2, <1>3, <1>4, <1>5, <1>6, <1>7, <1>8, <1>9, <1>10, <1>11, <1>12, <1>13

LEMMA WhichLevel ==
  ASSUME NEW t, NEW level \in 1 .. 13, t \in Levels[level]
  PROVE
         \/ level = 1 /\ t \in {","}
         \/ level = 2 /\ t \in {"="}
         \/ level = 3 /\ t \in {"||"}
         \/ level = 4 /\ t \in {"&&"}
         \/ level = 5 /\ t \in {"|"}
         \/ level = 6 /\ t \in {"^"}
         \/ level = 7 /\ t \in {"&"}
         \/ level = 8 /\ t \in {"==", "!="}
         \/ level = 9 /\ t \in {"<", ">", "<=", ">="}
         \/ level = 10 /\ t \in {"<=>"}
         \/ level = 11 /\ t \in {"<<", ">>"}
         \/ level = 12 /\ t \in {"+", "-"}
         \/ level = 13 /\ t \in {"*", "/", "%"}
<1>1. \/ level = 1 \/ level = 2 \/ level = 3 \/ level = 4 \/ level = 5 \/ level = 6 \/ level = 7
      \/ level = 8 \/ level = 9 \/ level = 10 \/ level = 11 \/ level = 12 \/ level = 13
  OBVIOUS
<1>2. CASE level = 1
  BY <1>2, LevelsAre
<1>3. CASE level = 2
  BY <1>3, LevelsAre
<1>4. CASE level = 3
  BY <1>4, LevelsAre
<1>5. CASE level = 4
  BY <1>5, LevelsAre
<1>6. CASE level = 5
  BY <1>6, LevelsAre
<1>7. CASE level = 6
  BY <1>7, LevelsAre
<1>8. CASE level = 7
  BY <1>8, LevelsAre
<1>9. CASE level = 8
  BY <1>9, LevelsAre
<1>10. CASE level = 9
  BY <1>10, LevelsAre
<1>11. CASE level = 10
  BY <1>11, LevelsAre
<1>12. CASE level = 11
  BY <1>12, LevelsAre
<1>13. CASE level = 12
  BY <1>13, LevelsAre
<1>14. CASE level = 13
  BY <1>14, LevelsAre
<1>15. QED
  BY <1>1, <1>2, <1>3, <1>4, <1>5, <1>6, <1>7, <1>8, <1>9, <1>10, <1>11, <1>12, <1>13, <1>14

LEMMA NotTheEnd ==
  ASSUME NEW level \in 1 .. 13, NEW t, t \in Levels[level]
  PROVE  t # "Eofile"
<1>1. \/ level = 1 /\ t \in {","}
      \/ level = 2 /\ t \in {"="}
      \/ level = 3 /\ t \in {"||"}
      \/ level = 4 /\ t \in {"&&"}
      \/ level = 5 /\ t \in {"|"}
      \/ level = 6 /\ t \in {"^"}
      \/ level = 7 /\ t \in {"&"}
      \/ level = 8 /\ t \in {"==", "!="}
      \/ level = 9 /\ t \in {"<", ">", "<=", ">="}
      \/ level = 10 /\ t \in {"<=>"}
      \/ level = 11 /\ t \in {"<<", ">>"}
      \/ level = 12 /\ t \in {"+", "-"}
      \/ level = 13 /\ t \in {"*", "/", "%"}
  BY WhichLevel
<1>2. QED
  BY <1>1

LEMMA OneLevel ==
  ASSUME NEW level \in 1 .. 13, NEW t, t \in Levels[level], NEW i \in 1 .. 12, level # 10
  PROVE  t \in CppPriority[i] <=> i = Prio[level]
<1>1. t \in CppPriority[i] <=>
         \/ i = 1 /\ t \in {","}
         \/ i = 2 /\ t \in {"="}
         \/ i = 3 /\ t \in {"||"}
         \/ i = 4 /\ t \in {"&&"}
         \/ i = 5 /\ t \in {"|"}
         \/ i = 6 /\ t \in {"^"}
         \/ i = 7 /\ t \in {"&"}
         \/ i = 8 /\ t \in {"==", "!="}
         \/ i = 9 /\ t \in {"<", ">", "<=", ">="}
         \/ i = 10 /\ t \in {"<<", ">>"}
         \/ i = 11 /\ t \in {"+", "-"}
         \/ i = 12 /\ t \in {"*", "/", "%"}
  BY WhichPriority
<1>2.
         \/ level = 1 /\ t \in {","}
         \/ level = 2 /\ t \in {"="}
         \/ level = 3 /\ t \in {"||"}
         \/ level = 4 /\ t \in {"&&"}
         \/ level = 5 /\ t \in {"|"}
         \/ level = 6 /\ t \in {"^"}
         \/ level = 7 /\ t \in {"&"}
         \/ level = 8 /\ t \in {"==", "!="}
         \/ level = 9 /\ t \in {"<", ">", "<=", ">="}
         \/ level = 10 /\ t \in {"<=>"}
         \/ level = 11 /\ t \in {"<<", ">>"}
         \/ level = 12 /\ t \in {"+", "-"}
         \/ level = 13 /\ t \in {"*", "/", "%"}
  BY WhichLevel
<1>3. CASE level = 1
  <2>1. /\ level # 2 /\ level # 3 /\ level # 4 /\ level # 5 /\ level # 6 /\ level # 7
        /\ level # 8 /\ level # 9 /\ level # 10 /\ level # 11 /\ level # 12 /\ level # 13
    BY <1>3
  <2>2. t \in {","}
    BY <1>2, <2>1, Zenon
  <2>3. QED
    BY <1>1, <1>3, <2>2, PrioAre, Zenon
<1>4. CASE level = 2
  <2>1. t \in {"="}
    BY <1>2, <1>4
  <2>2. QED
    BY <1>1, <1>4, <2>1, PrioAre
<1>5. CASE level = 3
  <2>1. t \in {"||"}
    BY <1>2, <1>5
  <2>2. QED
    BY <1>1, <1>5, <2>1, PrioAre
<1>6. CASE level = 4
  <2>1. t \in {"&&"}
    BY <1>2, <1>6
  <2>2. QED
    BY <1>1, <1>6, <2>1, PrioAre
<1>7. CASE level = 5
  <2>1. t \in {"|"}
    BY <1>2, <1>7
  <2>2. QED
    BY <1>1, <1>7, <2>1, PrioAre
<1>8. CASE level = 6
  <2>1. t \in {"^"}
    BY <1>2, <1>8
  <2>2. QED
    BY <1>1, <1>8, <2>1, PrioAre
<1>9. CASE level = 7
  <2>1. t \in {"&"}
    BY <1>2, <1>9
  <2>2. QED
    BY <1>1, <1>9, <2>1, PrioAre
<1>10. CASE level = 8
  <2>1. t \in {"==", "!="}
    BY <1>2, <1>10
  <2>2. QED
    BY <1>1, <1>10, <2>1, PrioAre
<1>11. CASE level = 9
  <2>1. t \in {"<", ">", "<=", ">="}
    BY <1>2, <1>11
  <2>2. QED
    BY <1>1, <1>11, <2>1, PrioAre
<1>12. CASE level = 11
  <2>1. t \in {"<<", ">>"}
    BY <1>2, <1>12
  <2>2. QED
    BY <1>1, <1>12, <2>1, PrioAre
<1>13. CASE level = 12
  <2>1. t \in {"+", "-"}
    BY <1>2, <1>13
  <2>2. QED
    BY <1>1, <1>13, <2>1, PrioAre
<1>14. CASE level = 13
  <2>1. t \in {"*", "/", "%"}
    BY <1>2, <1>14
  <2>2. QED
    BY <1>1, <1>14, <2>1, PrioAre
<1>15. QED
  BY <1>3, <1>4, <1>5, <1>6, <1>7, <1>8, <1>9, <1>10, <1>11, <1>12, <1>13, <1>14

LEMMA LevelPriority ==
  ASSUME NEW level \in 1 .. 13, NEW n, n.type \in Levels[level]
  PROVE  IF level = 10 THEN n.type \notin BinaryOps
         ELSE n.type \in BinaryOps /\ PriorityOf(n) = Prio[level]
<1>1. level = 10 => n.type \notin BinaryOps
  BY BinaryOpsAre, LevelsAre
<1>2. ASSUME level # 10 PROVE n.type \in BinaryOps /\ PriorityOf(n) = Prio[level]
  <2>1. \A i \in 1 .. 12 : n.type \in CppPriority[i] <=> i = Prio[level]
    BY <1>2, OneLevel
  <2>2. Prio[level] \in 1 .. 12
    BY <1>2, PrioAre
  <2>3. QED
    BY <2>1, <2>2, PrioritiesAre DEF PriorityOf, BinaryOps
<1>3. QED
  BY <1>1, <1>2

LEMMA Priorities ==
  /\ \A n : n.type \notin BinaryOps => PriorityOf(n) = 13
  /\ \A level \in 1 .. 13 : Prio[level] <= Prio[level + 1] /\ Prio[level] \in Nat
  /\ \A level \in (1 .. 13) \ {10} : Prio[level] < Prio[level + 1]
  /\ Prio[14] = 13 /\ Prio[2] = 2 /\ Prio[3] = 3
<1>1. Len(CppPriority) = 12
  BY DEF CppPriority
<1>2. \A n : n.type \notin BinaryOps => PriorityOf(n) = 13
  BY <1>1 DEF PriorityOf
<1>3. QED
  BY <1>2 DEF Prio

LEMMA PriorityIsInt == \A n : PriorityOf(n) \in 1 .. 13
<1> SUFFICES ASSUME NEW n PROVE PriorityOf(n) \in 1 .. 13
  OBVIOUS
<1>1. Len(CppPriority) = 12 /\ DOMAIN CppPriority = 1 .. 12
  BY DEF CppPriority
<1>2. n.type \in BinaryOps => \E i \in 1 .. 12 : n.type \in CppPriority[i]
  BY <1>1 DEF BinaryOps
<1>3. QED
  BY <1>1, <1>2 DEF PriorityOf

Bracketed == {"Subexpression", "SquareSubexpr", "CurlySubexpr"}
Calls == {"FunctionCall", "IndexOperator", "ListingOperator"}
Special ==
  AnOperand \cup BinaryOps \cup {"ResolutionOp", "MemberAccess"} \cup PrefixOperator \cup Calls
  \cup Bracketed \cup {"Arguments", "return", "VariableDeclaration"}

-----------------------------------------------------------------------------
(* Nodes of expressions.                                                   *)

\* The node k covers the tokens from a up to b.
Covers(k, a, b) == k.from = a /\ k.to = b /\ a < b /\ Tree(k) /\ Operand(k)

LEMMA OtherTypes ==
  \A t : t = "RootNamespace" \/ t = "Arguments" \/ t = "return" \/ t = "VariableDeclaration"
         => t \notin BinaryOps
BY BinaryOpsAre

LEMMA Apart ==
  ASSUME NEW t
  PROVE  /\ t \in BinaryOps => t \notin AnOperand /\ t \notin Special \ BinaryOps
         /\ t \in AnOperand => t \notin Special \ AnOperand
         /\ t \in PrefixOperator <=> t \in {"!", "~"} \/ t \in {"++", "--"}
BY BinaryOpsAre DEF AnOperand, Special, Calls, Bracketed, PrefixOperator

LEMMA PlainTree ==
  ASSUME NEW type, type \notin Special, NEW from \in Nat, NEW to \in Nat, NEW kids, Trees(kids)
  PROVE  Tree(Node(type, from, to, kids))
<1> DEFINE n == Node(type, from, to, kids)
<1>1. n.type = type /\ n.from = from /\ n.to = to /\ n.kids = kids
  BY NodeFields
<1>2. Fits(n)
  BY <1>1 DEF Fits, Tiles, Binds, Special, Calls, Bracketed, PrefixOperator
<1>3. QED
  BY <1>1, <1>2, Grow

LEMMA LeafTree ==
  ASSUME Lexed, NEW c \in Positions
  PROVE  Tree(Leaf(c)) /\ (At(c) \in AnOperand => Covers(Leaf(c), c, After(c)) /\ PriorityOf(Leaf(c)) = 13)
<1> DEFINE n == Leaf(c)
<1>1. n.type = At(c) /\ n.from = c /\ n.to = After(c) /\ n.kids = <<>> /\ n = Node(At(c), c, After(c), <<>>)
  BY NodeFields DEF Leaf
<1>2. c \in Nat /\ After(c) \in Nat /\ At(c) \notin {"Arguments", "VariableDeclaration"}
  BY TokenAt DEF Positions
<1>3. At(c) \in AnOperand => c \in 1 .. Len(toks) /\ After(c) = c + 1 /\ At(c) = toks[c].type
  BY TokenAt DEF AnOperand
<1>4. Len(<<>>) = 0
  OBVIOUS
<1> HIDE DEF n
<1>5. Fits(n)
  BY <1>1, <1>2, <1>3, <1>4 DEF Fits, Tiles, Binds
<1>6. Tree(n)
  BY <1>1, <1>5, Grow, NoTrees
<1>7. At(c) \in AnOperand => Covers(n, c, After(c)) /\ PriorityOf(n) = 13
  <2> SUFFICES ASSUME At(c) \in AnOperand PROVE Covers(n, c, After(c)) /\ PriorityOf(n) = 13
    OBVIOUS
  <2>1. n.type \notin BinaryOps \cup {"Subexpression"}
    <3>1. At(c) \notin BinaryOps
      BY Apart
    <3>2. At(c) # "Subexpression"
      BY DEF AnOperand
    <3>3. QED
      BY <1>1, <3>1, <3>2
  <2>2. PriorityOf(n) = 13
    BY <2>1, Priorities
  <2>3. n.from < n.to
    BY <1>1, <1>2, <1>3
  <2>4. QED
    BY <1>1, <1>6, <2>1, <2>2, <2>3 DEF Covers, Operand
<1>8. QED
  BY <1>6, <1>7 DEF n

\* Where the token of an operator lies beside its only operand.
Beside(type, a, d, from, to) ==
  \/ type \in {"!", "~"} /\ from = a + 1 /\ to = d
  \/ type \in {"++", "--"} /\ ((from = a /\ to + 1 = d) \/ (from = a + 1 /\ to = d))
  \/ type \in Bracketed \cup {"Arguments"} /\ from = a + 1 /\ to + 1 = d

\* A node above one or two operands.
LEMMA OneOperand ==
  ASSUME NEW type, NEW a \in Nat, NEW d \in Nat, a < d, NEW k, NEW from \in Nat, NEW to \in Nat,
         Covers(k, from, to), Beside(type, a, d, from, to)
  PROVE  Covers(Node(type, a, d, <<k>>), a, d) /\ PriorityOf(Node(type, a, d, <<k>>)) = 13
<1> DEFINE n == Node(type, a, d, <<k>>)
<1>1. n.type = type /\ n.from = a /\ n.to = d /\ n.kids = <<k>>
  BY NodeFields
<1>2. <<k>>[1] = k /\ <<k>> # <<>> /\ Len(<<k>>) = 1
  OBVIOUS
<1>3. type \notin BinaryOps /\ type \notin AnOperand
      /\ type \notin {"return", "VariableDeclaration", "ResolutionOp", "MemberAccess"} \cup Calls
  BY BinaryOpsAre DEF AnOperand, Bracketed, Calls, Beside
<1>4. k.from = from /\ k.to = to /\ from < to /\ Operand(k)
  BY DEF Covers
<1> HIDE DEF n
<1>5. Tiles(n)
  <2>1. CASE type \in {"!", "~"} /\ from = a + 1 /\ to = d
    BY <1>1, <1>2, <1>3, <1>4, <2>1 DEF Tiles, Bracketed, Calls
  <2>2. CASE type \in {"++", "--"} /\ ((from = a /\ to + 1 = d) \/ (from = a + 1 /\ to = d))
    BY <1>1, <1>2, <1>3, <1>4, <2>2 DEF Tiles, Bracketed, Calls
  <2>3. CASE type \in Bracketed \cup {"Arguments"} /\ from = a + 1 /\ to + 1 = d
    BY <1>1, <1>2, <1>3, <1>4, <2>3 DEF Tiles, Bracketed, Calls
  <2>4. QED
    BY <2>1, <2>2, <2>3 DEF Beside
<1>6. Fits(n)
  <2>1. n = Node(n.type, n.from, n.to, n.kids)
    BY <1>1 DEF n
  <2>2. QED
    BY <1>1, <1>2, <1>3, <1>4, <1>5, <2>1 DEF Fits, Binds
<1>7. Tree(n)
  <2>1. Trees(<<k>>)
    BY FewTrees DEF Covers
  <2>2. QED
    BY <1>1, <1>6, <2>1, Grow
<1>8. PriorityOf(n) = 13
  BY <1>1, <1>3, Priorities
<1>9. QED
  BY <1>1, <1>2, <1>3, <1>7, <1>8 DEF Covers, Operand, n

LEMMA TwoOperands ==
  ASSUME NEW type \in {"ResolutionOp", "MemberAccess"}, NEW a \in Nat, NEW b \in Nat, NEW d \in Nat,
         NEW l, NEW r, Covers(l, a, b), Covers(r, b + 1, d)
  PROVE  Covers(Node(type, a, d, <<l, r>>), a, d) /\ PriorityOf(Node(type, a, d, <<l, r>>)) = 13
<1> DEFINE n == Node(type, a, d, <<l, r>>)
<1>1. n.type = type /\ n.from = a /\ n.to = d /\ n.kids = <<l, r>>
  BY NodeFields
<1>2. <<l, r>>[1] = l /\ <<l, r>>[2] = r /\ <<l, r>> # <<>>
  OBVIOUS
<1>3. type \notin BinaryOps /\ type \notin AnOperand
  BY BinaryOpsAre DEF AnOperand
<1>4. l.from = a /\ l.to = b /\ a < b /\ r.from = b + 1 /\ r.to = d /\ b + 1 < d
  BY DEF Covers
<1>5. Fits(n)
  BY <1>1, <1>2, <1>3, <1>4 DEF Fits, Tiles, Binds
<1>6. Tree(n)
  <2>1. Trees(<<l, r>>)
    BY FewTrees DEF Covers
  <2>2. QED
    BY <1>1, <1>5, <2>1, Grow
<1>7. PriorityOf(n) = 13
  BY <1>1, <1>3, Priorities
<1>8. QED
  BY <1>1, <1>3, <1>4, <1>6, <1>7 DEF Covers, Operand

LEMMA CallTree ==
  ASSUME NEW type \in Calls, NEW a \in Nat, NEW b \in Nat, NEW d \in Nat,
         NEW l, NEW r, Covers(l, a, b), r.from = b, r.to = d, b < d, Tree(r)
  PROVE  Covers(Node(type, a, d, <<l, r>>), a, d) /\ PriorityOf(Node(type, a, d, <<l, r>>)) = 13
<1> DEFINE n == Node(type, a, d, <<l, r>>)
<1>1. n.type = type /\ n.from = a /\ n.to = d /\ n.kids = <<l, r>>
  BY NodeFields
<1>2. <<l, r>>[1] = l /\ <<l, r>>[2] = r /\ <<l, r>> # <<>>
  OBVIOUS
<1>3. type \notin BinaryOps /\ type \notin AnOperand
  BY BinaryOpsAre DEF AnOperand, Calls
<1>4. l.from = a /\ l.to = b /\ a < b
  BY DEF Covers
<1>5. Fits(n)
  BY <1>1, <1>2, <1>3, <1>4 DEF Fits, Tiles, Binds, Calls
<1>6. Tree(n)
  <2>1. Trees(<<l, r>>)
    BY FewTrees DEF Covers
  <2>2. QED
    BY <1>1, <1>5, <2>1, Grow
<1>7. PriorityOf(n) = 13
  BY <1>1, <1>3, Priorities
<1>8. QED
  BY <1>1, <1>3, <1>4, <1>6, <1>7 DEF Covers, Operand, Calls

LEMMA BinaryTree ==
  ASSUME NEW level \in 1 .. 13, NEW type \in Levels[level],
         NEW a \in Nat, NEW b \in Nat, NEW d \in Nat, toks[b].type = type,
         NEW l, NEW r, Covers(l, a, b), Covers(r, b + 1, d),
         IF level = 2 THEN PriorityOf(l) >= Prio[3] /\ PriorityOf(r) >= Prio[2]
         ELSE PriorityOf(l) >= Prio[level] /\ PriorityOf(r) >= Prio[level + 1]
  PROVE  LET n == Node(type, a, d, <<l, r>>)
         IN Covers(n, a, d) /\ PriorityOf(n) >= Prio[level]
<1> DEFINE n == Node(type, a, d, <<l, r>>)
<1>1. n.type = type /\ n.from = a /\ n.to = d /\ n.kids = <<l, r>>
  BY NodeFields
<1>2. <<l, r>>[1] = l /\ <<l, r>>[2] = r /\ <<l, r>> # <<>> /\ Len(<<l, r>>) = 2
  OBVIOUS
<1>3. \A i \in 1 .. 2 : <<l, r>>[i] \in {l, r}
  OBVIOUS
<1>4. l.from = a /\ l.to = b /\ a < b /\ r.from = b + 1 /\ r.to = d /\ b + 1 < d /\ Operand(l) /\ Operand(r)
  BY DEF Covers
<1>5. IF level = 10 THEN n.type \notin BinaryOps
      ELSE n.type \in BinaryOps /\ PriorityOf(n) = Prio[level]
  BY <1>1, LevelPriority
<1>6. type \notin AnOperand /\ type \notin Special \ BinaryOps /\ (type = "=" <=> level = 2)
  <2>1. level = 10 => type = "<=>"
    BY LevelsAre
  <2>2. level # 10 => type \in BinaryOps
    BY <1>1, <1>5
  <2>3. type = "<=>" => type \notin AnOperand /\ type \notin Special \ BinaryOps
    BY DEF AnOperand, Special, Calls, Bracketed, PrefixOperator
  <2>4. type = "=" <=> level = 2
    <3>1. level = 2 => type = "="
      BY LevelsAre
    <3>2. type = "=" => level = 2
      BY WhichLevel
    <3>3. QED
      BY <3>1, <3>2
  <2>5. QED
    BY <2>1, <2>2, <2>3, <2>4, Apart
<1> HIDE DEF n
<1>7. Tiles(n)
  <2>1. type \notin {"Arguments", "!", "~", "++", "--", "ResolutionOp", "MemberAccess"}
        /\ type \notin Calls /\ type \notin Bracketed
    BY <1>6, BinaryOpsAre DEF Special, Calls, Bracketed, PrefixOperator
  <2>2. QED
    BY <1>1, <1>2, <1>4, <1>6, <2>1 DEF Tiles, Calls, Bracketed
<1>8. Binds(n)
  <2>1. level # 10 => Prio[level] < Prio[level + 1] /\ Prio[level] \in Nat /\ Prio[level + 1] \in Nat
    BY Priorities, PrioAre
  <2>2. PriorityOf(l) \in Int /\ PriorityOf(r) \in Int /\ PriorityOf(n) \in Int
    BY PriorityIsInt
  <2>3. Prio[2] = 2 /\ Prio[3] = 3
    BY PrioAre
  <2>4. CASE level = 10
    BY <1>5, <2>4 DEF Binds
  <2>5. CASE level = 2
    BY <1>1, <1>2, <1>5, <1>6, <2>2, <2>3, <2>5 DEF Binds
  <2>6. CASE level # 10 /\ level # 2
    BY <1>1, <1>2, <1>5, <1>6, <2>1, <2>2, <2>6 DEF Binds
  <2>7. QED
    BY <2>4, <2>5, <2>6
<1>9. Fits(n)
  <2>1. n = Node(type, a, d, <<l, r>>)
    BY DEF n
  <2>2. type \notin {"return", "VariableDeclaration"}
    BY <1>6, BinaryOpsAre DEF Special
  <2>3. \A i \in 1 .. Len(<<l, r>>) : Operand(<<l, r>>[i])
    BY <1>2, <1>3, <1>4
  <2>4. QED
    BY <1>1, <1>2, <1>6, <1>7, <1>8, <2>1, <2>2, <2>3 DEF Fits
<1>10. Tree(n)
  <2>1. Trees(<<l, r>>)
    BY FewTrees DEF Covers
  <2>2. QED
    BY <1>1, <1>9, <2>1, Grow
<1>11. PriorityOf(n) >= Prio[level]
  BY <1>5, Priorities, PrioAre
<1>12. Covers(n, a, d)
  BY <1>1, <1>2, <1>4, <1>10 DEF Covers, Operand
<1>13. QED
  BY <1>11, <1>12 DEF n

-----------------------------------------------------------------------------
(* Expressions: what a rule answers at a position, if it does for every    *)
(* later one.                                                              *)

\* r is an expression that begins at c and binds at least as tightly as q.
Expr(r, c, q) ==
  r.res = "ok" => r.at \in Positions /\ Covers(r.ast, c, r.at) /\ PriorityOf(r.ast) >= q
Extends(F(_), p, q) ==
  \A c \in 1 .. p : \A l : l.res = "ok" /\ l.at = p /\ Expr(l, c, q) => Expr(F(l), c, q)

SubexprSound(p) ==
  At(p) \in LScope /\ ParseSubexpr(p).res = "ok" =>
    LET end == ParseSubexpr(p).at
    IN /\ end \in Positions
       /\ \E e : /\ ParseSubexpr(p) = Ok(end, Node(Subexpression[At(p)], p, end, <<e>>))
                 /\ Covers(e, p + 1, end - 1)
ExprSound(p) ==
  /\ SubexprSound(p)
  /\ Extends(FoldResolution, p, 13)
  /\ Extends(FoldPostfix, p, 13)
  /\ Expr(ParsePrefix(p), p, 13)
  /\ \A level \in (1 .. 13) \ {Assignment} :
       \A c \in 1 .. p : \A l : l.res = "ok" /\ l.at = p /\ Expr(l, c, Prio[level])
                                  => Expr(FoldBinary(level, l), c, Prio[level])
  /\ \A level \in 1 .. 14 : Expr(ParseBinary(level, p), p, Prio[level])
LaterExprs(p) == \A k \in Positions : k > p => ExprSound(k)

LEMMA Results ==
  \A at, ast : Ok(at, ast).res = "ok" /\ Ok(at, ast).at = at /\ Ok(at, ast).ast = ast
               /\ Fail.res # "ok" /\ UB.res # "ok"
BY DEF Ok, Fail, UB

LEMMA SubexprStep ==
  ASSUME Recursion, Lexed, NEW p \in Positions, LaterExprs(p)
  PROVE  SubexprSound(p)
<1> SUFFICES ASSUME At(p) \in LScope, ParseSubexpr(p).res = "ok"
             PROVE  LET end == ParseSubexpr(p).at
                    IN /\ end \in Positions
                       /\ \E e : /\ ParseSubexpr(p) = Ok(end, Node(Subexpression[At(p)], p, end, <<e>>))
                                 /\ Covers(e, p + 1, end - 1)
  BY DEF SubexprSound
<1> DEFINE e == ParseBinary(1, p + 1)
<1>1. p \in 1 .. Len(toks) /\ After(p) = p + 1 /\ p + 1 \in Positions /\ p \in Nat
  <2>1. At(p) # "Eofile"
    BY DEF LScope
  <2>2. QED
    BY <2>1, TokenAt DEF Positions, Lexed
<1>2. ParseSubexpr(p) = ParseSubexprRule(p)
  BY DEF Recursion
<1>3. Expr(e, p + 1, Prio[1])
  BY <1>1 DEF LaterExprs, ExprSound, Positions
<1>4. ParseSubexprRule(p) =
        IF e.res = "ok"
        THEN Expect(e.at, {Closing[At(p)]},
                    Ok(After(e.at), Node(Subexpression[At(p)], p, After(e.at), <<e.ast>>)))
        ELSE e
  BY <1>1 DEF ParseSubexprRule, ParseListFold, Then
<1> HIDE DEF e
<1>5. e.res = "ok" /\ At(e.at) = Closing[At(p)]
      /\ ParseSubexpr(p) = Ok(After(e.at), Node(Subexpression[At(p)], p, After(e.at), <<e.ast>>))
  BY <1>2, <1>4, Results DEF Expect
<1>6. e.at \in Positions /\ Covers(e.ast, p + 1, e.at)
  BY <1>3, <1>5 DEF Expr
<1>7. After(e.at) = e.at + 1 /\ After(e.at) \in Positions
  <2>1. Closing[At(p)] # "Eofile"
    BY DEF Closing, LScope
  <2>2. QED
    BY <1>5, <1>6, <2>1, TokenAt
<1>8. ParseSubexpr(p).at = e.at + 1 /\ e.at \in Nat
  BY <1>5, <1>6, <1>7, Results DEF Positions
<1>9. QED
  BY <1>5, <1>6, <1>7, <1>8

\* What an operand in brackets is, and the arguments made of one.
LEMMA InBrackets ==
  ASSUME Lexed, NEW p \in Positions, At(p) \in LScope, SubexprSound(p)
  PROVE  /\ Expr(ParseSubexpr(p), p, 13)
         /\ ParseSubexpr(p).res = "ok" =>
              LET r == ParseSubexpr(p)
                  a == [r.ast EXCEPT !.type = "Arguments"]
              IN r.at \in Positions /\ a.from = p /\ a.to = r.at /\ p < r.at /\ Tree(a)
<1> SUFFICES ASSUME ParseSubexpr(p).res = "ok"
             PROVE  LET r == ParseSubexpr(p)
                        a == [r.ast EXCEPT !.type = "Arguments"]
                    IN /\ r.at \in Positions /\ a.from = p /\ a.to = r.at /\ p < r.at /\ Tree(a)
                       /\ Covers(r.ast, p, r.at) /\ PriorityOf(r.ast) = 13
  BY PriorityIsInt DEF Expr
<1> DEFINE end == ParseSubexpr(p).at
           type == Subexpression[At(p)]
<1>1. end \in Positions
  BY DEF SubexprSound
<1>2. PICK e : ParseSubexpr(p) = Ok(end, Node(type, p, end, <<e>>)) /\ Covers(e, p + 1, end - 1)
  BY DEF SubexprSound
<1>3. ParseSubexpr(p).ast = Node(type, p, end, <<e>>)
  BY <1>2, Results
<1>4. type \in Bracketed
  BY DEF Subexpression, Bracketed, LScope
<1>5. p \in Nat /\ end \in Nat /\ p < end /\ p + 1 \in Nat /\ end - 1 \in Nat
  BY <1>1, <1>2 DEF Positions, Covers, Lexed
<1> HIDE DEF end, type
<1>6. \A t \in Bracketed \cup {"Arguments"} :
        Covers(Node(t, p, end, <<e>>), p, end) /\ PriorityOf(Node(t, p, end, <<e>>)) = 13
  <2> SUFFICES ASSUME NEW t \in Bracketed \cup {"Arguments"}
               PROVE  Covers(Node(t, p, end, <<e>>), p, end) /\ PriorityOf(Node(t, p, end, <<e>>)) = 13
    OBVIOUS
  <2>1. (p + 1) \in Nat /\ (end - 1) + 1 = end
    BY <1>5
  <2>2. Beside(t, p, end, p + 1, end - 1)
    BY <2>1 DEF Beside
  <2>3. QED
    BY <1>2, <1>5, <2>1, <2>2, OneOperand
<1>7. [Node(type, p, end, <<e>>) EXCEPT !.type = "Arguments"] = Node("Arguments", p, end, <<e>>)
  BY DEF Node
<1>8. Covers(Node("Arguments", p, end, <<e>>), p, end)
  BY <1>6
<1>9. QED
  BY <1>1, <1>3, <1>4, <1>5, <1>6, <1>7, <1>8 DEF Covers, end

LEMMA OperandStep ==
  ASSUME Recursion, Lexed, NEW p \in Positions, SubexprSound(p)
  PROVE  Expr(ParsePrimaryOperand(p), p, 13)
<1>1. CASE At(p) \in AnOperand
  <2>1. ParsePrimaryOperand(p) = Ok(After(p), Leaf(p))
    BY <1>1 DEF ParsePrimaryOperand
  <2>2. QED
    BY <1>1, <2>1, Results, LeafTree, TokenAt, PriorityIsInt DEF Expr
<1>2. CASE At(p) \notin AnOperand /\ At(p) \in LScope
  BY <1>2, InBrackets DEF ParsePrimaryOperand
<1>3. CASE At(p) \notin AnOperand /\ At(p) \notin LScope
  BY <1>3, Results DEF ParsePrimaryOperand, Expr
<1>4. QED
  BY <1>1, <1>2, <1>3

LEMMA FoldResolutionStep ==
  ASSUME Recursion, Lexed, NEW p \in Positions, LaterExprs(p)
  PROVE  Extends(FoldResolution, p, 13)
<1> SUFFICES ASSUME NEW c \in 1 .. p, NEW l, l.res = "ok", l.at = p, Expr(l, c, 13)
             PROVE  Expr(FoldResolution(l), c, 13)
  BY DEF Extends
<1> DEFINE r == ParsePrimaryOperand(p + 1)
           m == Ok(r.at, Node("ResolutionOp", l.ast.from, r.ast.to, <<l.ast, r.ast>>))
<1>1. FoldResolution(l) = FoldResolutionRule(l)
  BY DEF Recursion
<1>2. CASE At(p) # "::"
  BY <1>1, <1>2 DEF FoldResolutionRule
<1>3. CASE At(p) = "::"
  <2>1. After(p) = p + 1 /\ p + 1 \in Positions /\ p \in Nat /\ c \in Nat
    <3>1. At(p) # "Eofile"
      BY <1>3
    <3>2. After(p) = p + 1 /\ After(p) \in Positions
      BY <3>1, TokenAt
    <3>3. p \in Nat /\ c \in Nat
      BY DEF Positions, Lexed
    <3>4. QED
      BY <3>2, <3>3
  <2>2. FoldResolutionRule(l) = IF r.res = "ok" THEN FoldResolution(m) ELSE r
    BY <1>3, <2>1 DEF FoldResolutionRule, Then
  <2>3. Expr(r, p + 1, 13)
    <3>1. SubexprSound(p + 1)
      BY <2>1 DEF LaterExprs, ExprSound
    <3>2. QED
      BY <2>1, <3>1, OperandStep
  <2> HIDE DEF r
  <2>4. CASE r.res = "ok"
    <3>1. Covers(l.ast, c, p) /\ Covers(r.ast, p + 1, r.at) /\ r.at \in Positions /\ r.at \in Nat
          /\ r.at > p /\ c \in 1 .. r.at
      BY <2>1, <2>3, <2>4 DEF Expr, Covers, Positions, Lexed
    <3>2. l.ast.from = c /\ r.ast.to = r.at
      BY <3>1 DEF Covers
    <3>3. Covers(m.ast, c, r.at) /\ PriorityOf(m.ast) = 13 /\ m.at = r.at /\ m.res = "ok"
      <4>1. m.ast = Node("ResolutionOp", c, r.at, <<l.ast, r.ast>>) /\ m.at = r.at /\ m.res = "ok"
        BY <3>2, Results
      <4> HIDE DEF m
      <4>2. QED
        BY <2>1, <3>1, <4>1, TwoOperands
    <3> HIDE DEF m
    <3>4. Expr(m, c, 13)
      BY <3>1, <3>3 DEF Expr
    <3>5. ExprSound(r.at)
      BY <3>1 DEF LaterExprs
    <3>6. Extends(FoldResolution, r.at, 13)
      BY <3>5 DEF ExprSound
    <3>7. Expr(FoldResolution(m), c, 13)
      BY <3>1, <3>3, <3>4, <3>6 DEF Extends
    <3>8. QED
      BY <1>1, <2>2, <2>4, <3>7
  <2>5. QED
    BY <1>1, <2>2, <2>4 DEF Expr
<1>4. QED
  BY <1>2, <1>3

LEMMA ResolutionStep ==
  ASSUME Recursion, Lexed, NEW p \in Positions, SubexprSound(p), LaterExprs(p)
  PROVE  Expr(ParseResolution(p), p, 13)
<1> DEFINE l == IF At(p) = "::" THEN Ok(After(p), Node("RootNamespace", p, After(p), <<>>))
                ELSE ParsePrimaryOperand(p)
<1>1. ParseResolution(p) = IF At(p) \notin PrimarySpecifier THEN Fail
                           ELSE IF l.res = "ok" THEN FoldResolution(l) ELSE l
  BY DEF ParseResolution, Then
<1>2. Expr(l, p, 13)
  <2>1. CASE At(p) = "::"
    <3>1. After(p) = p + 1 /\ p + 1 \in Positions /\ p \in Nat
      BY <2>1, TokenAt DEF Positions, Lexed
    <3>2. l = Ok(p + 1, Node("RootNamespace", p, p + 1, <<>>))
      BY <2>1, <3>1
    <3>3. "RootNamespace" \notin Special /\ "RootNamespace" \notin BinaryOps
      <4>1. "RootNamespace" \notin BinaryOps
        BY OtherTypes
      <4>2. QED
        BY <4>1 DEF Special, AnOperand, Calls, Bracketed, PrefixOperator
    <3>4. Covers(Node("RootNamespace", p, p + 1, <<>>), p, p + 1)
      <4>1. Tree(Node("RootNamespace", p, p + 1, <<>>))
        BY <3>1, <3>3, PlainTree, NoTrees
      <4>2. QED
        BY <3>1, <3>3, <4>1, NodeFields DEF Covers, Operand
    <3>5. PriorityOf(Node("RootNamespace", p, p + 1, <<>>)) = 13
      <4> DEFINE n == Node("RootNamespace", p, p + 1, <<>>)
      <4>1. n.type = "RootNamespace"
        BY NodeFields
      <4> HIDE DEF n
      <4>2. PriorityOf(n) = 13
        BY <3>3, <4>1, Priorities
      <4>3. QED
        BY <4>2 DEF n
    <3>6. QED
      BY <3>1, <3>2, <3>4, <3>5, Results DEF Expr
  <2>2. CASE At(p) # "::"
    BY <2>2, OperandStep
  <2>3. QED
    BY <2>1, <2>2
<1> HIDE DEF l
<1>3. CASE l.res = "ok" /\ At(p) \in PrimarySpecifier
  <2>1. l.at \in Positions /\ l.at > p /\ p \in 1 .. l.at
    BY <1>2, <1>3 DEF Expr, Covers, Positions, Lexed
  <2>2. Extends(FoldResolution, l.at, 13)
    BY <2>1 DEF LaterExprs, ExprSound
  <2>3. Expr(FoldResolution(l), p, 13)
    BY <1>2, <1>3, <2>1, <2>2 DEF Extends
  <2>4. QED
    BY <1>1, <1>3, <2>3
<1>4. CASE ~(l.res = "ok" /\ At(p) \in PrimarySpecifier)
  BY <1>1, <1>4, Results DEF Expr
<1>5. QED
  BY <1>3, <1>4

LEMMA ArgumentsStep ==
  ASSUME Recursion, Lexed, NEW p \in Positions, At(p) \in LScope, SubexprSound(p)
  PROVE  LET a == ParseArguments(p)
         IN a.res = "ok" => a.at \in Positions /\ a.ast.from = p /\ a.ast.to = a.at /\ p < a.at /\ Tree(a.ast)
<1>1. After(p) = p + 1 /\ p + 1 \in Positions /\ p \in Nat
  <2>1. At(p) # "Eofile"
    BY DEF LScope
  <2>2. QED
    BY <2>1, TokenAt DEF Positions, Lexed
<1>2. CASE At(p + 1) = Closing[At(p)]
  <2>1. After(p + 1) = p + 2 /\ p + 2 \in Positions
    <3>1. Closing[At(p)] # "Eofile"
      BY DEF Closing, LScope
    <3>2. QED
      BY <1>1, <1>2, <3>1, TokenAt DEF Positions, Lexed
  <2>2. ParseArguments(p) = Ok(p + 2, Node("Arguments", p, p + 2, <<>>))
    BY <1>1, <1>2, <2>1 DEF ParseArguments
  <2> DEFINE n == Node("Arguments", p, p + 2, <<>>)
  <2>3. n.type = "Arguments" /\ n.from = p /\ n.to = p + 2 /\ n.kids = <<>> /\ Len(<<>>) = 0
    BY NodeFields
  <2>4. "Arguments" \notin BinaryOps /\ "Arguments" \notin AnOperand
    <3>1. "Arguments" \notin BinaryOps
      BY OtherTypes
    <3>2. QED
      BY <3>1 DEF AnOperand
  <2>5. Fits(n)
    BY <1>1, <2>3, <2>4 DEF Fits, Tiles, Binds
  <2>6. Tree(n)
    BY <2>3, <2>5, Grow, NoTrees
  <2>7. QED
    BY <1>1, <2>1, <2>2, <2>3, <2>6, Results
<1>3. CASE At(p + 1) # Closing[At(p)]
  <2> DEFINE s == ParseSubexpr(p)
             a == [s.ast EXCEPT !.type = "Arguments"]
  <2>1. ParseArguments(p) = IF s.res = "ok" THEN Ok(s.at, a) ELSE s
    BY <1>1, <1>3 DEF ParseArguments, Then
  <2>2. s.res = "ok" => s.at \in Positions /\ a.from = p /\ a.to = s.at /\ p < s.at /\ Tree(a)
    BY InBrackets
  <2> HIDE DEF s, a
  <2>3. QED
    BY <2>1, <2>2, Results
<1>4. QED
  BY <1>2, <1>3

LEMMA FoldPostfixStep ==
  ASSUME Recursion, Lexed, NEW p \in Positions, SubexprSound(p), LaterExprs(p)
  PROVE  Extends(FoldPostfix, p, 13)
<1> SUFFICES ASSUME NEW c \in 1 .. p, NEW l, l.res = "ok", l.at = p, Expr(l, c, 13)
             PROVE  Expr(FoldPostfix(l), c, 13)
  BY DEF Extends
<1>1. FoldPostfix(l) = FoldPostfixRule(l)
  BY DEF Recursion
<1>2. Covers(l.ast, c, p) /\ l.ast.from = c /\ c \in Nat /\ p \in Nat /\ c < p
  BY DEF Expr, Covers, Positions, Lexed
<1>3. ASSUME NEW type, NEW d \in Positions, d > p, NEW kids,
             Covers(Node(type, c, d, kids), c, d), PriorityOf(Node(type, c, d, kids)) = 13
      PROVE  Expr(FoldPostfix(Ok(d, Node(type, c, d, kids))), c, 13)
  <2> DEFINE m == Ok(d, Node(type, c, d, kids))
  <2>1. m.res = "ok" /\ m.at = d /\ m.ast = Node(type, c, d, kids)
    BY Results
  <2> HIDE DEF m
  <2>2. Expr(m, c, 13) /\ c \in 1 .. d
    BY <1>2, <1>3, <2>1 DEF Expr, Positions, Lexed
  <2>3. Extends(FoldPostfix, d, 13)
    BY <1>3 DEF LaterExprs, ExprSound
  <2>4. Expr(FoldPostfix(m), c, 13)
    BY <2>1, <2>2, <2>3 DEF Extends
  <2>5. QED
    BY <2>4 DEF m
<1>4. CASE At(p) \in {"++", "--"}
  <2>1. After(p) = p + 1 /\ p + 1 \in Positions
    <3>1. At(p) # "Eofile"
      BY <1>4
    <3>2. After(p) = p + 1 /\ After(p) \in Positions
      BY <3>1, TokenAt
    <3>3. QED
      BY <3>2
  <2>2. FoldPostfixRule(l) = FoldPostfix(Ok(p + 1, Node(At(p), c, p + 1, <<l.ast>>)))
    BY <1>2, <1>4, <2>1 DEF FoldPostfixRule, LScope
  <2>3. Covers(Node(At(p), c, p + 1, <<l.ast>>), c, p + 1)
        /\ PriorityOf(Node(At(p), c, p + 1, <<l.ast>>)) = 13
    <3>1. p + 1 \in Nat /\ c < p + 1
      BY <1>2
    <3>2. ASSUME NEW type \in {"++", "--"}
          PROVE  Covers(Node(type, c, p + 1, <<l.ast>>), c, p + 1)
                 /\ PriorityOf(Node(type, c, p + 1, <<l.ast>>)) = 13
      <4> DEFINE d == p + 1
      <4>1. d \in Nat /\ c \in Nat /\ p \in Nat /\ c < d /\ p + 1 = d /\ Covers(l.ast, c, p)
        BY <1>2, <3>1
      <4> HIDE DEF d
      <4>2. Beside(type, c, d, c, p)
        BY <4>1 DEF Beside
      <4>3. Covers(Node(type, c, d, <<l.ast>>), c, d) /\ PriorityOf(Node(type, c, d, <<l.ast>>)) = 13
        BY <4>1, <4>2, OneOperand
      <4>4. QED
        BY <4>3 DEF d
    <3>3. QED
      BY <1>4, <3>2
  <2>4. p + 1 > p
    BY <1>2
  <2>5. QED
    BY <1>1, <1>3, <2>1, <2>2, <2>3, <2>4
<1>5. CASE At(p) \in LScope
  <2> DEFINE a == ParseArguments(p)
  <2>1. FoldPostfixRule(l) =
          IF a.res = "ok"
          THEN FoldPostfix(Ok(a.at, Node(Call[At(p)], c, a.ast.to, <<l.ast, a.ast>>))) ELSE a
    BY <1>2, <1>5 DEF FoldPostfixRule, Then, LScope
  <2>2. a.res = "ok" => a.at \in Positions /\ a.ast.from = p /\ a.ast.to = a.at /\ p < a.at /\ Tree(a.ast)
    BY <1>5, ArgumentsStep
  <2> HIDE DEF a
  <2>3. CASE a.res = "ok"
    <3>1. Call[At(p)] \in Calls
      BY <1>5 DEF Call, Calls, LScope
    <3>2. a.at \in Nat /\ a.at > p
      BY <1>2, <2>2, <2>3 DEF Positions, Lexed
    <3> DEFINE n == Node(Call[At(p)], c, a.at, <<l.ast, a.ast>>)
    <3>3. Covers(n, c, a.at) /\ PriorityOf(n) = 13
      BY <1>2, <2>2, <2>3, <3>1, <3>2, CallTree
    <3>4. Expr(FoldPostfix(Ok(a.at, n)), c, 13)
      BY <1>3, <2>2, <2>3, <3>2, <3>3
    <3>5. QED
      BY <1>1, <2>1, <2>2, <2>3, <3>4
  <2>4. QED
    BY <1>1, <2>1, <2>3 DEF Expr
<1>6. CASE At(p) = "."
  <2> DEFINE r == ParseResolution(p + 1)
  <2>1. After(p) = p + 1 /\ p + 1 \in Positions /\ p + 1 > p
    <3>1. At(p) # "Eofile"
      BY <1>6
    <3>2. After(p) = p + 1 /\ After(p) \in Positions
      BY <3>1, TokenAt
    <3>3. p + 1 > p
      BY <1>2
    <3>4. QED
      BY <3>2, <3>3
  <2>2. FoldPostfixRule(l) =
          IF r.res = "ok"
          THEN FoldPostfix(Ok(r.at, Node("MemberAccess", c, r.ast.to, <<l.ast, r.ast>>))) ELSE r
    BY <1>2, <1>6, <2>1 DEF FoldPostfixRule, Then, LScope
  <2>3. Expr(r, p + 1, 13)
    <3>1. \A k \in Positions : k > p + 1 => k > p
      BY <1>2 DEF Positions, Lexed
    <3>2. SubexprSound(p + 1)
      BY <2>1 DEF LaterExprs, ExprSound
    <3>3. LaterExprs(p + 1)
      BY <3>1 DEF LaterExprs
    <3>4. QED
      BY <2>1, <3>2, <3>3, ResolutionStep
  <2> HIDE DEF r
  <2>4. CASE r.res = "ok"
    <3>1. r.at \in Positions /\ r.at \in Nat /\ r.at > p /\ Covers(r.ast, p + 1, r.at) /\ r.ast.to = r.at
      BY <1>2, <2>3, <2>4 DEF Expr, Covers, Positions, Lexed
    <3> DEFINE n == Node("MemberAccess", c, r.at, <<l.ast, r.ast>>)
    <3>2. Covers(n, c, r.at) /\ PriorityOf(n) = 13
      BY <1>2, <3>1, TwoOperands
    <3>3. Expr(FoldPostfix(Ok(r.at, n)), c, 13)
      BY <1>3, <3>1, <3>2
    <3>4. QED
      BY <1>1, <2>2, <2>4, <3>1, <3>3
  <2>5. QED
    BY <1>1, <2>2, <2>4 DEF Expr
<1>7. CASE At(p) \notin {"++", "--", "."} \cup LScope
  <2>1. FoldPostfixRule(l) = l
    BY <1>7 DEF FoldPostfixRule
  <2>2. QED
    BY <1>1, <2>1
<1>8. QED
  BY <1>4, <1>5, <1>6, <1>7

LEMMA PostfixStep ==
  ASSUME Recursion, Lexed, NEW p \in Positions, SubexprSound(p), LaterExprs(p)
  PROVE  Expr(ParsePostfix(p), p, 13)
<1> DEFINE l == ParseResolution(p)
<1>1. ParsePostfix(p) = IF l.res = "ok" THEN FoldPostfix(l) ELSE l
  BY DEF ParsePostfix, Then
<1>2. Expr(l, p, 13)
  BY ResolutionStep
<1> HIDE DEF l
<1>3. CASE l.res = "ok"
  <2>1. l.at \in Positions /\ l.at > p /\ p \in 1 .. l.at
    BY <1>2, <1>3 DEF Expr, Covers, Positions, Lexed
  <2>2. Extends(FoldPostfix, l.at, 13)
    BY <2>1 DEF LaterExprs, ExprSound
  <2>3. Expr(FoldPostfix(l), p, 13)
    BY <1>2, <1>3, <2>1, <2>2 DEF Extends
  <2>4. QED
    BY <1>1, <1>3, <2>3
<1>4. CASE l.res # "ok"
  BY <1>1, <1>4 DEF Expr
<1>5. QED
  BY <1>3, <1>4

LEMMA PrefixStep ==
  ASSUME Recursion, Lexed, NEW p \in Positions, SubexprSound(p), LaterExprs(p)
  PROVE  Expr(ParsePrefix(p), p, 13)
<1>1. ParsePrefix(p) = ParsePrefixRule(p)
  BY DEF Recursion
<1>2. CASE At(p) \notin PrefixOperator
  BY <1>1, <1>2, PostfixStep DEF ParsePrefixRule
<1>3. CASE At(p) \in PrefixOperator
  <2> DEFINE r == ParsePrefix(p + 1)
  <2>1. After(p) = p + 1 /\ p + 1 \in Positions /\ p \in Nat /\ p + 1 > p
    <3>1. At(p) # "Eofile"
      BY <1>3 DEF PrefixOperator
    <3>2. QED
      BY <3>1, TokenAt DEF Positions, Lexed
  <2>2. ParsePrefixRule(p) = IF r.res = "ok" THEN Ok(r.at, Node(At(p), p, r.ast.to, <<r.ast>>)) ELSE r
    BY <1>3, <2>1 DEF ParsePrefixRule, Then
  <2>3. Expr(r, p + 1, 13)
    BY <2>1 DEF LaterExprs, ExprSound
  <2> HIDE DEF r
  <2>4. CASE r.res = "ok"
    <3>1. r.at \in Positions /\ r.at \in Nat /\ p < r.at /\ Covers(r.ast, p + 1, r.at) /\ r.ast.to = r.at
      BY <2>1, <2>3, <2>4 DEF Expr, Covers, Positions, Lexed
    <3>2. ASSUME NEW type, type \in {"!", "~"} \/ type \in {"++", "--"}
          PROVE  Covers(Node(type, p, r.at, <<r.ast>>), p, r.at)
                 /\ PriorityOf(Node(type, p, r.at, <<r.ast>>)) = 13
      <4>1. p + 1 \in Nat
        BY <2>1
      <4>2. Beside(type, p, r.at, p + 1, r.at)
        BY <3>2 DEF Beside
      <4>3. QED
        BY <2>1, <3>1, <4>1, <4>2, OneOperand
    <3>3. At(p) \in {"!", "~"} \/ At(p) \in {"++", "--"}
      BY <1>3 DEF PrefixOperator
    <3> DEFINE n == Node(At(p), p, r.at, <<r.ast>>)
    <3>4. Covers(n, p, r.at) /\ PriorityOf(n) = 13
      BY <3>2, <3>3
    <3> HIDE DEF n
    <3>5. Expr(Ok(r.at, n), p, 13)
      BY <3>1, <3>4, Results DEF Expr
    <3>6. QED
      BY <1>1, <2>2, <2>4, <3>1, <3>5 DEF n
  <2>5. QED
    BY <1>1, <2>2, <2>4 DEF Expr
<1>4. QED
  BY <1>2, <1>3

\* Two operands of a level, joined by the operator between them.
LEMMA BinaryStep ==
  ASSUME Lexed, NEW level \in 1 .. 13, NEW p \in Positions, At(p) \in Levels[level],
         NEW c \in 1 .. p, NEW l, l.res = "ok", l.at = p, NEW r, r.res = "ok",
         IF level = Assignment THEN Expr(l, c, Prio[3]) /\ Expr(r, p + 1, Prio[2])
         ELSE Expr(l, c, Prio[level]) /\ Expr(r, p + 1, Prio[level + 1])
  PROVE  /\ Binary(l, r).res = "ok" /\ Binary(l, r).at = r.at /\ r.at \in Positions /\ r.at > p
         /\ c \in 1 .. r.at /\ Expr(Binary(l, r), c, Prio[level])
<1>1. Covers(l.ast, c, p) /\ Covers(r.ast, p + 1, r.at) /\ r.at \in Positions
  BY DEF Expr
<1>2. /\ IF level = 2 THEN PriorityOf(l.ast) >= Prio[3] /\ PriorityOf(r.ast) >= Prio[2]
         ELSE PriorityOf(l.ast) >= Prio[level] /\ PriorityOf(r.ast) >= Prio[level + 1]
  BY DEF Expr, Assignment
<1>3. p \in Nat /\ c \in Nat /\ r.at \in Nat /\ r.at > p /\ c \in 1 .. r.at
      /\ l.ast.from = c /\ r.ast.to = r.at
  BY <1>1 DEF Covers, Positions, Lexed
<1>4. toks[p].type = At(p)
  <2>1. At(p) # "Eofile"
    BY NotTheEnd
  <2>2. QED
    BY <2>1, TokenAt
<1> DEFINE n == Node(At(p), c, r.at, <<l.ast, r.ast>>)
<1>5. Covers(n, c, r.at) /\ PriorityOf(n) >= Prio[level]
  BY <1>1, <1>2, <1>3, <1>4, BinaryTree
<1>6. Binary(l, r) = Ok(r.at, n)
  BY <1>3 DEF Binary
<1> HIDE DEF n
<1>7. QED
  BY <1>1, <1>3, <1>5, <1>6, Results DEF Expr

LEMMA FoldBinaryStep ==
  ASSUME Recursion, Lexed, NEW p \in Positions, LaterExprs(p),
         NEW level \in (1 .. 13) \ {Assignment},
         NEW c \in 1 .. p, NEW l, l.res = "ok", l.at = p, Expr(l, c, Prio[level])
  PROVE  Expr(FoldBinary(level, l), c, Prio[level])
<1> DEFINE r == ParseBinary(level + 1, p + 1)
<1>1. FoldBinary(level, l) = FoldBinaryRule(level, l)
  BY LevelsAre DEF Recursion
<1>2. CASE At(p) \notin Levels[level]
  BY <1>1, <1>2 DEF FoldBinaryRule
<1>3. CASE At(p) \in Levels[level]
  <2>1. After(p) = p + 1 /\ p + 1 \in Positions /\ p \in Nat /\ p + 1 > p
    <3>1. At(p) # "Eofile"
      BY <1>3, NotTheEnd
    <3>2. QED
      BY <3>1, TokenAt DEF Positions, Lexed
  <2>2. FoldBinaryRule(level, l) = IF r.res = "ok" THEN FoldBinary(level, Binary(l, r)) ELSE r
    BY <1>3, <2>1 DEF FoldBinaryRule, Then
  <2>3. Expr(r, p + 1, Prio[level + 1])
    <3>1. level + 1 \in 1 .. 14
      OBVIOUS
    <3>2. QED
      BY <2>1, <3>1 DEF LaterExprs, ExprSound
  <2> HIDE DEF r
  <2>4. CASE r.res = "ok"
    <3>1. /\ Binary(l, r).res = "ok" /\ Binary(l, r).at = r.at /\ r.at \in Positions /\ r.at > p
          /\ c \in 1 .. r.at /\ Expr(Binary(l, r), c, Prio[level])
      BY <1>3, <2>3, <2>4, BinaryStep
    <3>2. Expr(FoldBinary(level, Binary(l, r)), c, Prio[level])
      BY <3>1 DEF LaterExprs, ExprSound
    <3>3. QED
      BY <1>1, <2>2, <2>4, <3>2
  <2>5. QED
    BY <1>1, <2>2, <2>4 DEF Expr
<1>4. QED
  BY <1>2, <1>3

LEMMA AssignmentStep ==
  ASSUME Recursion, Lexed, NEW p \in Positions, LaterExprs(p),
         NEW c \in 1 .. p, NEW l, l.res = "ok", l.at = p, Expr(l, c, Prio[3])
  PROVE  Expr(ParseAssignment(l), c, Prio[2])
<1> DEFINE r == ParseBinary(2, p + 1)
<1>1. CASE At(p) \notin Levels[2]
  <2>1. Prio[2] <= Prio[3] /\ Prio[2] \in Int /\ Prio[3] \in Int
    BY PrioAre
  <2>2. Expr(l, c, Prio[2])
    BY <2>1, PriorityIsInt DEF Expr
  <2>3. QED
    BY <1>1, <2>2 DEF ParseAssignment, Assignment
<1>2. CASE At(p) \in Levels[2]
  <2>1. After(p) = p + 1 /\ p + 1 \in Positions /\ p \in Nat /\ p + 1 > p
    <3>1. At(p) # "Eofile"
      BY <1>2, NotTheEnd
    <3>2. QED
      BY <3>1, TokenAt DEF Positions, Lexed
  <2>2. ParseAssignment(l) = IF r.res = "ok" THEN Binary(l, r) ELSE r
    BY <1>2, <2>1 DEF ParseAssignment, Then, Assignment
  <2>3. Expr(r, p + 1, Prio[2])
    BY <2>1 DEF LaterExprs, ExprSound
  <2> HIDE DEF r
  <2>4. CASE r.res = "ok"
    BY <1>2, <2>2, <2>3, <2>4, BinaryStep DEF Assignment
  <2>5. QED
    BY <2>2, <2>4 DEF Expr
<1>3. QED
  BY <1>1, <1>2

LEMMA LevelStep ==
  ASSUME Recursion, Lexed, NEW p \in Positions, LaterExprs(p), NEW level \in 1 .. 13,
         Expr(ParseBinary(level + 1, p), p, Prio[level + 1])
  PROVE  Expr(ParseBinary(level, p), p, Prio[level])
<1> DEFINE l == ParseBinary(level + 1, p)
<1>1. Len(Levels) = 13
  BY LevelsAre
<1>2. ParseBinary(level, p) = ParseBinaryRule(level, p)
  <2>1. level \in 1 .. Len(Levels) + 1
    BY <1>1
  <2>2. QED
    BY <2>1 DEF Recursion
<1>3. ParseBinaryRule(level, p) =
        IF At(p) \notin PrimarySpecifier THEN Fail
        ELSE IF l.res = "ok" THEN IF level = Assignment THEN ParseAssignment(l) ELSE FoldBinary(level, l)
             ELSE l
  BY <1>1 DEF ParseBinaryRule, Then
<1>4. Expr(l, p, Prio[level + 1])
  OBVIOUS
<1> HIDE DEF l
<1>5. CASE At(p) \in PrimarySpecifier /\ l.res = "ok"
  <2>1. l.at \in Positions /\ l.at > p /\ p \in 1 .. l.at
    BY <1>4, <1>5 DEF Expr, Covers, Positions, Lexed
  <2>2. LaterExprs(l.at) /\ ExprSound(l.at)
    BY <2>1 DEF LaterExprs, Positions, Lexed
  <2>3. CASE level = Assignment
    <3>1. level = 2 /\ level + 1 = 3
      BY <2>3 DEF Assignment
    <3>2. Expr(ParseAssignment(l), p, Prio[2])
      BY <1>4, <1>5, <2>1, <2>2, <3>1, AssignmentStep
    <3>3. QED
      BY <1>2, <1>3, <1>5, <2>3, <3>1, <3>2
  <2>4. CASE level # Assignment
    <3>1. Prio[level] <= Prio[level + 1] /\ Prio[level] \in Int /\ Prio[level + 1] \in Int
      BY PrioAre
    <3>2. Expr(l, p, Prio[level])
      BY <1>4, <3>1, PriorityIsInt DEF Expr
    <3>3. Expr(FoldBinary(level, l), p, Prio[level])
      BY <1>5, <2>1, <2>2, <2>4, <3>2 DEF ExprSound
    <3>4. QED
      BY <1>2, <1>3, <1>5, <2>4, <3>3
  <2>5. QED
    BY <2>3, <2>4
<1>6. CASE ~(At(p) \in PrimarySpecifier /\ l.res = "ok")
  BY <1>2, <1>3, <1>6, Results DEF Expr
<1>7. QED
  BY <1>5, <1>6

LEMMA BinaryLevels ==
  ASSUME Recursion, Lexed, NEW p \in Positions, LaterExprs(p), Expr(ParsePrefix(p), p, 13),
         NEW level \in 1 .. 14
  PROVE  Expr(ParseBinary(level, p), p, Prio[level])
<1> DEFINE S == {k \in 1 .. 14 : Expr(ParseBinary(k, p), p, Prio[k])}
<1>1. 14 \in S
  <2>1. ParseBinary(14, p) = ParsePrefix(p)
    <3>1. Len(Levels) = 13
      BY LevelsAre
    <3>2. 14 \in 1 .. Len(Levels) + 1 /\ 14 > Len(Levels)
      BY <3>1
    <3>3. ParseBinary(14, p) = ParseBinaryRule(14, p)
      BY <3>2 DEF Recursion
    <3>4. QED
      BY <3>2, <3>3 DEF ParseBinaryRule
  <2>2. QED
    BY <2>1, PrioAre
<1>2. \A k \in 1 .. 14 : (\A j \in (k + 1) .. 14 : j \in S) => k \in S
  <2> SUFFICES ASSUME NEW k \in 1 .. 14, \A j \in (k + 1) .. 14 : j \in S PROVE k \in S
    OBVIOUS
  <2>1. CASE k = 14
    BY <1>1, <2>1
  <2>2. CASE k # 14
    <3>1. k \in 1 .. 13 /\ k + 1 \in S
      BY <2>2
    <3>2. Expr(ParseBinary(k + 1, p), p, Prio[k + 1])
      BY <3>1
    <3>3. Expr(ParseBinary(k, p), p, Prio[k])
      BY <3>1, <3>2, LevelStep
    <3>4. QED
      BY <3>3
  <2>3. QED
    BY <2>1, <2>2
<1> HIDE DEF S
<1>3. \A k \in 1 .. 14 : k \in S
  BY <1>2, FromTheEnd
<1>4. QED
  BY <1>3 DEF S

LEMMA ExprStep ==
  ASSUME Recursion, Lexed, NEW p \in Positions, LaterExprs(p)
  PROVE  ExprSound(p)
<1>1. SubexprSound(p)
  BY SubexprStep
<1>2. Extends(FoldResolution, p, 13) /\ Extends(FoldPostfix, p, 13) /\ Expr(ParsePrefix(p), p, 13)
  BY <1>1, FoldResolutionStep, FoldPostfixStep, PrefixStep
<1>3. \A level \in (1 .. 13) \ {Assignment} :
        \A c \in 1 .. p : \A l : l.res = "ok" /\ l.at = p /\ Expr(l, c, Prio[level])
                                   => Expr(FoldBinary(level, l), c, Prio[level])
  BY FoldBinaryStep
<1>4. \A level \in 1 .. 14 : Expr(ParseBinary(level, p), p, Prio[level])
  BY <1>2, BinaryLevels
<1>5. QED
  BY <1>1, <1>2, <1>3, <1>4 DEF ExprSound

\* An expression the parser accepts covers the tokens it took, and every node of
\* it tiles and binds.
THEOREM ExpressionsAreRight ==
  ASSUME Recursion, Lexed
  PROVE  \A p \in Positions : ExprSound(p)
<1> DEFINE n == Len(toks) + 1
           S == {p \in Positions : ExprSound(p)}
<1>1. n \in Nat /\ Positions = 1 .. n
  BY DEF Lexed, Positions
<1>2. \A p \in 1 .. n : (\A k \in (p + 1) .. n : k \in S) => p \in S
  <2> SUFFICES ASSUME NEW p \in 1 .. n, \A k \in (p + 1) .. n : k \in S PROVE p \in S
    OBVIOUS
  <2>1. LaterExprs(p)
    BY <1>1 DEF LaterExprs
  <2>2. QED
    BY <1>1, <2>1, ExprStep
<1> HIDE DEF S
<1>3. \A p \in 1 .. n : p \in S
  BY <1>1, <1>2, FromTheEnd
<1>4. QED
  BY <1>1, <1>3 DEF S

-----------------------------------------------------------------------------
(* Parts of declarations.                                                  *)

Sound(r, c) == r.res = "ok" => r.at \in Positions /\ r.at > c /\ Tree(r.ast)
Weak(r, c) == r.res = "ok" => r.at \in Positions /\ r.at >= c /\ Tree(r.ast)

\* Nodes of which nothing is checked, and which may collect any children.
PlainTypes ==
  {"any", "MethodVoid", "NONE", "Modifiers", "MethodParameter", "MethodParameterList",
   "MethodSignature", "MethodReturnType", "MethodDefinition", "MainDefinition",
   "ClassDefinition", "LibraryDefinition", "ProcessDefinition", "VariableDefinition",
   "MethodDeclaration", "ClassDeclaration", "LibraryDeclaration", "ProcessDeclaration",
   "ImportDeclaration", "MainDeclaration", "LibraryTypeAlias", "TypeAlias",
   "LibraryNamespaceInclusion", "NamespaceInclusion", "NamespaceObjectInclusion",
   "IfStatement", "while", "if", "elif", "else", "EnumDefinition", "EnumEntry", "EnumBlock",
   "EnumDeclaration", "Program"}
Plain(n) == Tree(n) /\ n.type \in PlainTypes

LEMMA PlainIsNotSpecial == \A t \in PlainTypes : t \notin Special
<1>1. \A t : t \in BinaryOps => t \notin PlainTypes
  <2>1. \A t \in PlainTypes : t \notin BinaryOps
    <3> SUFFICES ASSUME NEW t \in PlainTypes PROVE t \notin BinaryOps
      OBVIOUS
    <3>1. t \notin {",", "=", "||", "&&", "|", "^", "&", "==", "!=", "<"}
      BY DEF PlainTypes
    <3>2. t \notin {">", "<=", ">=", "<<", ">>", "+", "-", "*", "/", "%"}
      BY DEF PlainTypes
    <3> HIDE DEF PlainTypes
    <3>3. QED
      BY <3>1, <3>2, BinaryOpsAre
  <2>2. QED
    BY <2>1
<1>2. \A t \in PlainTypes : t \notin AnOperand
  BY DEF PlainTypes, AnOperand
<1>3. \A t \in PlainTypes : t \notin {"ResolutionOp", "MemberAccess"} \cup PrefixOperator \cup Calls
                              \cup Bracketed \cup {"Arguments", "return", "VariableDeclaration"}
  BY DEF PlainTypes, PrefixOperator, Calls, Bracketed
<1>4. QED
  BY <1>1, <1>2, <1>3 DEF Special

LEMMA PlainNode ==
  ASSUME NEW type \in PlainTypes, NEW from \in Nat, NEW to \in Nat, NEW kids, Trees(kids)
  PROVE  /\ Plain(Node(type, from, to, kids)) /\ Plain(Bare(type, kids))
         /\ Tree(Node(type, from, to, kids)) /\ Tree(Bare(type, kids))
BY PlainTree, PlainIsNotSpecial, NodeFields DEF Plain, Bare

LEMMA Extract ==
  ASSUME NEW acc, Plain(acc.ast), NEW r, Tree(r.ast)
  PROVE  /\ ExtractAndAdvance(acc, r).res = "ok" /\ ExtractAndAdvance(acc, r).at = r.at
         /\ Plain(ExtractAndAdvance(acc, r).ast)
<1> DEFINE n == acc.ast
           m == [n EXCEPT !.kids = Append(@, r.ast)]
<1>1. n = Node(n.type, n.from, n.to, n.kids) /\ n.from \in Nat /\ n.to \in Nat /\ Trees(n.kids)
      /\ n.type \in PlainTypes
  BY TreeFits DEF Fits, Plain
<1>2. m = Node(n.type, n.from, n.to, Append(n.kids, r.ast))
  <2>1. \A type, from, to, kids, more :
          [Node(type, from, to, kids) EXCEPT !.kids = Append(@, more)] = Node(type, from, to, Append(kids, more))
    BY DEF Node
  <2> HIDE DEF n
  <2>2. m = Node(n.type, n.from, n.to, Append(n.kids, r.ast))
    <3>1. [Node(n.type, n.from, n.to, n.kids) EXCEPT !.kids = Append(@, r.ast)]
            = Node(n.type, n.from, n.to, Append(n.kids, r.ast))
      BY <2>1
    <3>2. QED
      BY <1>1, <3>1
  <2>3. QED
    BY <2>2
<1>3. Trees(Append(n.kids, r.ast))
  BY <1>1, MoreTrees
<1>4. ExtractAndAdvance(acc, r) = Ok(r.at, m)
  BY DEF ExtractAndAdvance
<1> HIDE DEF n, m
<1>5. Plain(m)
  BY <1>1, <1>2, <1>3, PlainNode
<1>6. QED
  BY <1>4, <1>5, Results

LEMMA Beyond ==
  ASSUME Lexed, NEW c \in Positions, NEW x \in Positions, x >= c, NEW n \in Nat \ {0}
  PROVE  /\ Advance(x, n) \in Positions /\ Advance(x, n) >= x /\ Advance(x, n) >= c
         /\ After(x) \in Positions /\ After(x) >= x /\ After(x) >= c
         /\ c <= Len(toks) => Advance(x, n) > c /\ After(x) > c
BY DEF Lexed, Positions, Advance, After

LEMMA PositionsAreNumbers == Lexed => \A c \in Positions : c \in Nat /\ c \in Int
BY DEF Lexed, Positions

LEMMA ModifiersEndStep ==
  ASSUME Lexed, NEW c \in Positions
  PROVE  ModifiersEnd(c) \in c .. (Len(toks) + 1)
<1> DEFINE T == {e \in c .. (Len(toks) + 1) : At(e) \notin Modifier}
<1>1. T \in SUBSET Nat /\ T # {}
  <2>1. Len(toks) + 1 \in c .. (Len(toks) + 1) /\ Len(toks) + 1 > Len(toks)
    BY DEF Lexed, Positions
  <2>2. At(Len(toks) + 1) \notin Modifier
    BY <2>1 DEF At, Modifier
  <2>3. T \in SUBSET Nat
    BY DEF Positions
  <2>4. QED
    BY <2>1, <2>2, <2>3
<1>2. PICK e \in T : \A k \in T : e <= k
  BY <1>1, LeastNumber
<1>3. e \in c .. (Len(toks) + 1) /\ At(e) \notin Modifier
  BY <1>2
<1>4. \A k \in c .. (e - 1) : At(k) \in Modifier
  <2> SUFFICES ASSUME NEW k \in c .. (e - 1), At(k) \notin Modifier PROVE FALSE
    OBVIOUS
  <2>1. k \in T /\ ~(e <= k)
    BY <1>3 DEF Lexed, Positions
  <2>2. QED
    BY <1>2, <2>1
<1> HIDE DEF T
<1>5. \E x \in c .. (Len(toks) + 1) : At(x) \notin Modifier /\ \A k \in c .. (x - 1) : At(k) \in Modifier
  BY <1>3, <1>4
<1>6. QED
  BY <1>5 DEF ModifiersEnd

LEMMA ModifiersStep ==
  ASSUME Lexed, NEW c \in Positions
  PROVE  /\ ParseModifiers(c).res = "ok" /\ ParseModifiers(c).at \in Positions
         /\ ParseModifiers(c).at >= c /\ Tree(ParseModifiers(c).ast)
         /\ ParseOptionalModifiers(c).res = "ok" /\ ParseOptionalModifiers(c).at \in Positions
         /\ ParseOptionalModifiers(c).at >= c /\ Tree(ParseOptionalModifiers(c).ast)
<1> DEFINE e == ModifiersEnd(c)
           leaves == [k \in 1 .. (e - c) |-> Leaf(c + k - 1)]
           S == {Leaf(k) : k \in Positions}
<1>1. e \in c .. (Len(toks) + 1) /\ c \in Nat /\ e \in Nat /\ e \in Positions
  BY ModifiersEndStep DEF Lexed, Positions
<1> HIDE DEF e
<1>2. leaves \in Seq(S)
  <2>1. \A k \in 1 .. (e - c) : c + k - 1 \in Positions
    BY <1>1 DEF Lexed, Positions
  <2>2. \A k \in 1 .. (e - c) : Leaf(c + k - 1) \in S
    BY <2>1
  <2>3. e - c \in Nat
    BY <1>1
  <2> HIDE DEF S
  <2>4. leaves \in [1 .. (e - c) -> S]
    BY <2>2
  <2>5. QED
    BY <2>3, <2>4
<1>3. \A s \in S : Tree(s)
  BY LeafTree
<1> HIDE DEF S
<1>4. Trees(leaves)
  BY <1>2, <1>3, TreesOf
<1>5. ParseModifiers(c) = Ok(e, Bare("Modifiers", leaves))
  BY DEF ParseModifiers, e
<1> HIDE DEF leaves
<1>6. "Modifiers" \in PlainTypes
  BY DEF PlainTypes
<1>7. Tree(Bare("Modifiers", leaves)) /\ Tree(Node("Modifiers", c, c, <<>>))
  BY <1>1, <1>4, <1>6, PlainNode, NoTrees
<1>8. /\ ParseModifiers(c).res = "ok" /\ ParseModifiers(c).at \in Positions
      /\ ParseModifiers(c).at >= c /\ Tree(ParseModifiers(c).ast)
  BY <1>1, <1>5, <1>7, Results
<1>9. CASE At(c) \in Modifier
  BY <1>8, <1>9 DEF ParseOptionalModifiers
<1>10. CASE At(c) \notin Modifier
  BY <1>1, <1>7, <1>8, <1>10, Results DEF ParseOptionalModifiers
<1>11. QED
  BY <1>8, <1>9, <1>10

LEMMA PrimaryExprStep ==
  ASSUME Recursion, Lexed, NEW c \in Positions
  PROVE  Expr(ParsePrimaryExpr(c), c, 1)
<1>1. Expr(ParseBinary(1, c), c, Prio[1])
  BY ExpressionsAreRight DEF ExprSound
<1>2. QED
  BY <1>1, PrioAre, Results DEF ParsePrimaryExpr, ParseListFold, Expr

\* The expression of a statement ends before its ;
LEMMA PrimaryStatementStep ==
  ASSUME Recursion, Lexed, NEW c \in Positions
  PROVE  /\ Sound(ParsePrimaryStatement(c), c)
         /\ ParsePrimaryStatement(c).res = "ok" => Operand(ParsePrimaryStatement(c).ast)
<1> DEFINE e == ParsePrimaryExpr(c)
           s == ParsePrimaryStatement(c)
<1>1. Expr(e, c, 1)
  BY PrimaryExprStep
<1>2. s =
        IF At(c) \in Primary
        THEN IF e.res = "ok" THEN IF At(e.at) \in {";"} THEN Ok(After(e.at), e.ast) ELSE Fail ELSE e
        ELSE Fail
  BY DEF ParsePrimaryStatement, Expect, Then
<1> HIDE DEF e
<1>3. e.res = "ok" => /\ e.at \in Positions /\ e.at > c /\ Tree(e.ast) /\ Operand(e.ast)
                      /\ After(e.at) \in Positions /\ After(e.at) > c
  <2> SUFFICES ASSUME e.res = "ok"
               PROVE  /\ e.at \in Positions /\ e.at > c /\ Tree(e.ast) /\ Operand(e.ast)
                      /\ After(e.at) \in Positions /\ After(e.at) > c
    OBVIOUS
  <2>1. e.at \in Positions /\ e.at > c /\ Tree(e.ast) /\ Operand(e.ast)
    BY <1>1 DEF Expr, Covers
  <2>2. After(e.at) \in Positions /\ After(e.at) >= e.at
    BY <2>1, Beyond, PositionsAreNumbers
  <2>3. QED
    BY <2>1, <2>2, PositionsAreNumbers
<1> HIDE DEF s
<1>4. CASE At(c) \in Primary /\ e.res = "ok" /\ At(e.at) \in {";"}
  <2>1. s = Ok(After(e.at), e.ast)
    BY <1>2, <1>4
  <2>2. s.res = "ok" /\ s.at = After(e.at) /\ s.ast = e.ast
    BY <2>1, Results
  <2>3. Sound(s, c) /\ Operand(s.ast)
    BY <1>3, <1>4, <2>2 DEF Sound
  <2>4. QED
    BY <2>3 DEF s
<1>5. CASE ~(At(c) \in Primary /\ e.res = "ok" /\ At(e.at) \in {";"})
  <2>1. s.res # "ok"
    BY <1>2, <1>5, Results
  <2>2. Sound(s, c)
    BY <2>1 DEF Sound
  <2>3. QED
    BY <2>1, <2>2 DEF s
<1>6. QED
  BY <1>4, <1>5

LEMMA AnyType ==
  /\ Tree(Bare("any", <<>>)) /\ Tree(Bare("MethodVoid", <<>>)) /\ Tree(Bare("NONE", <<>>))
  /\ Trees(VoidParameter) /\ Tree(Bare("MethodParameterList", VoidParameter))
<1>1. "any" \in PlainTypes /\ "MethodVoid" \in PlainTypes /\ "NONE" \in PlainTypes
      /\ "MethodParameter" \in PlainTypes /\ "MethodParameterList" \in PlainTypes /\ 0 \in Nat
  BY DEF PlainTypes
<1>2. Tree(Bare("any", <<>>)) /\ Tree(Bare("MethodVoid", <<>>)) /\ Tree(Bare("NONE", <<>>))
  BY <1>1, NoTrees, PlainNode
<1>3. Tree(Bare("MethodParameter", <<Bare("MethodVoid", <<>>)>>))
  BY <1>1, <1>2, FewTrees, PlainNode
<1>4. Trees(VoidParameter)
  BY <1>3, FewTrees DEF VoidParameter
<1>5. QED
  BY <1>1, <1>2, <1>4, PlainNode

LEMMA IdentifierStep ==
  ASSUME Recursion, Lexed, NEW c \in Positions
  PROVE  Sound(ParsePrimaryPreIdentifier(c), c) /\ Sound(ParsePrimaryPostIdentifier(c), c)
<1> DEFINE e == ParsePrimaryExpr(c)
           behind == IF At(e.at) = ":" THEN After(e.at) ELSE e.at
<1>1. Expr(e, c, 1)
  BY PrimaryExprStep
<1>2. CASE At(c) = "@"
  <2>1. After(c) \in Positions /\ After(c) > c
    BY <1>2, TokenAt, PositionsAreNumbers
  <2>2. ParsePrimaryPreIdentifier(c) = Ok(After(c), Bare("any", <<>>))
        /\ ParsePrimaryPostIdentifier(c) = Ok(After(c), Bare("any", <<>>))
    BY <1>2 DEF ParsePrimaryPreIdentifier, ParsePrimaryPostIdentifier
  <2>3. QED
    BY <2>1, <2>2, Results, AnyType DEF Sound
<1>3. CASE At(c) # "@"
  <2>1. ParsePrimaryPreIdentifier(c) =
          IF At(c) \in Primary
          THEN IF e.res = "ok" THEN IF At(e.at) \in {"@"} THEN Ok(After(e.at), e.ast) ELSE Fail ELSE e
          ELSE Fail
    BY <1>3 DEF ParsePrimaryPreIdentifier, Expect, Then
  <2>2. ParsePrimaryPostIdentifier(c) =
          IF At(c) \in Primary
          THEN IF e.res = "ok" THEN IF At(e.at) \in {":", ";"} THEN Ok(behind, e.ast) ELSE Fail ELSE e
          ELSE Fail
    BY <1>3 DEF ParsePrimaryPostIdentifier, Expect, Then
  <2> HIDE DEF e
  <2>3. e.res = "ok" => /\ e.at \in Positions /\ e.at > c /\ Tree(e.ast)
                        /\ After(e.at) \in Positions /\ After(e.at) > c
    <3> SUFFICES ASSUME e.res = "ok"
                 PROVE  /\ e.at \in Positions /\ e.at > c /\ Tree(e.ast)
                        /\ After(e.at) \in Positions /\ After(e.at) > c
      OBVIOUS
    <3>1. e.at \in Positions /\ e.at > c /\ Tree(e.ast)
      BY <1>1 DEF Expr, Covers
    <3>2. After(e.at) \in Positions /\ After(e.at) >= e.at
      BY <3>1, Beyond, PositionsAreNumbers
    <3>3. QED
      BY <3>1, <3>2, PositionsAreNumbers
  <2>4. e.res = "ok" => behind \in Positions /\ behind > c
    BY <2>3
  <2> HIDE DEF behind
  <2>5. Sound(ParsePrimaryPreIdentifier(c), c)
    BY <2>1, <2>3, Results DEF Sound
  <2>6. Sound(ParsePrimaryPostIdentifier(c), c)
    <3> DEFINE s == ParsePrimaryPostIdentifier(c)
    <3>1. s = Fail \/ (s = e /\ e.res # "ok") \/ (s = Ok(behind, e.ast) /\ e.res = "ok")
      BY <2>2
    <3> HIDE DEF s
    <3>2. Sound(s, c)
      BY <2>3, <2>4, <3>1, Results DEF Sound
    <3>3. QED
      BY <3>2 DEF s
  <2>7. QED
    BY <2>5, <2>6
<1>4. QED
  BY <1>2, <1>3

LEMMA FindScopeStep ==
  ASSUME Lexed, NEW c \in Positions, NEW open, FindScope(c, open) # 0
  PROVE  At(c) = open /\ FindScope(c, open) \in (c + 2) .. (Len(toks) + 1)
<1> DEFINE closing == {i \in (c + 1) .. Len(toks) : At(i) \in RScope}
           i == CHOOSE k \in closing : \A m \in closing : k <= m
<1>1. At(c) = open /\ closing # {} /\ FindScope(c, open) = i + 1
  BY DEF FindScope
<1>2. closing \in SUBSET Nat
  BY DEF Lexed, Positions
<1>3. \E k \in closing : \A m \in closing : k <= m
  BY <1>1, <1>2, LeastNumber
<1>4. i \in closing
  BY <1>3
<1>5. i \in (c + 1) .. Len(toks)
  BY <1>4
<1> HIDE DEF i
<1>6. At(c) = open /\ FindScope(c, open) = i + 1
  BY <1>1
<1> HIDE DEF closing
<1>7. QED
  BY <1>5, <1>6 DEF Lexed, Positions

LEMMA ConditionStep ==
  ASSUME Recursion, Lexed, NEW c \in Positions
  PROVE  Sound(ParseConditionalSubExpression(c), c)
<1> DEFINE e == ParsePrimaryExpr(After(c))
           end == FindScope(c, "(")
<1>1. Expr(e, After(c), 1)
  BY TokenAt, PrimaryExprStep
<1>2. end # 0 => end \in Positions /\ end > c
  BY FindScopeStep, PositionsAreNumbers DEF Positions, Lexed
<1>3. ParseConditionalSubExpression(c) =
        IF end = 0 \/ At(After(c)) \notin Primary THEN Fail
        ELSE IF e.res = "ok" THEN Ok(end, e.ast) ELSE e
  BY DEF ParseConditionalSubExpression, Then
<1> HIDE DEF e, end
<1>4. e.res = "ok" => Tree(e.ast)
  BY <1>1 DEF Expr, Covers
<1>5. CASE end # 0 /\ At(After(c)) \in Primary /\ e.res = "ok"
  BY <1>2, <1>3, <1>4, <1>5, Results DEF Sound
<1>6. CASE ~(end # 0 /\ At(After(c)) \in Primary /\ e.res = "ok")
  BY <1>3, <1>6, Results DEF Sound
<1>7. QED
  BY <1>5, <1>6

\* Scopes between the parentheses at c.
Scopes(c) == Nat \X ((c + 1) .. (Len(toks) + 1))
ScopesSound(i) ==
  \A c \in 1 .. i : \A last \in Nat, scopes \in Seq(Scopes(c)) : \A history :
    FindSeperatedParen(i, last, history, scopes) \in Seq(Scopes(c))

LEMMA ScopesStep ==
  ASSUME Recursion, Lexed, NEW i \in Positions, \A k \in Positions : k > i => ScopesSound(k)
  PROVE  ScopesSound(i)
<1> SUFFICES ASSUME NEW c \in 1 .. i, NEW last \in Nat, NEW history, NEW scopes \in Seq(Scopes(c))
             PROVE  FindSeperatedParen(i, last, history, scopes) \in Seq(Scopes(c))
  BY DEF ScopesSound
<1> DEFINE r == FindSeperatedParen(i, last, history, scopes)
           S == Scopes(c)
<1>1. r = FindSeperatedParenRule(i, last, history, scopes)
  BY DEF Recursion
<1>2. i \in Nat /\ c \in Nat
  BY DEF Positions, Lexed
<1>3. ASSUME At(i) # "Eofile", NEW l \in Nat, NEW h, NEW s \in Seq(S)
      PROVE  FindSeperatedParen(i + 1, l, h, s) \in Seq(S)
  <2>1. i + 1 \in Positions /\ i + 1 > i /\ c \in 1 .. (i + 1)
    BY <1>2, <1>3, TokenAt DEF Positions, Lexed
  <2>2. ScopesSound(i + 1)
    BY <2>1
  <2>3. QED
    BY <1>3, <2>1, <2>2 DEF ScopesSound
<1>4. \A a \in Nat, b \in (c + 1) .. (Len(toks) + 1) : <<a, b>> \in S
  BY DEF Scopes
<1>5. i + 1 \in (c + 1) .. (Len(toks) + 1) \/ At(i) = "Eofile"
  BY <1>2, TokenAt DEF Positions, Lexed
<1>6. Len(toks) + 1 \in (c + 1) .. (Len(toks) + 1) \/ At(i) = "Eofile"
  BY <1>2, TokenAt DEF Positions, Lexed
<1>7. <<>> \in Seq(S) /\ scopes \in Seq(S) /\ \A s \in Seq(S), x \in S : Append(s, x) \in Seq(S)
  OBVIOUS
<1> HIDE DEF S
<1>8. CASE At(i) = "Eofile"
  BY <1>1, <1>7, <1>8 DEF FindSeperatedParenRule, LScope, RScope, S
<1>9. CASE At(i) \in LScope
  <2>1. At(i) # "Eofile"
    BY <1>9 DEF LScope
  <2>2. r = FindSeperatedParen(i + 1, last, Append(history, At(i)), scopes)
    BY <1>1, <1>9 DEF FindSeperatedParenRule, LScope, RScope
  <2> HIDE DEF r
  <2>3. r \in Seq(S)
    BY <1>3, <1>7, <2>1, <2>2
  <2>4. QED
    BY <2>3 DEF r, S
<1>10. CASE At(i) = "," /\ history = <<>>
  <2>1. r = FindSeperatedParen(i + 1, i, history, Append(scopes, <<last, i + 1>>))
    BY <1>1, <1>10 DEF FindSeperatedParenRule, LScope, RScope
  <2> HIDE DEF r
  <2>2. Append(scopes, <<last, i + 1>>) \in Seq(S)
    BY <1>4, <1>5, <1>7, <1>10
  <2>3. r \in Seq(S)
    BY <1>2, <1>3, <1>10, <2>1, <2>2
  <2>4. QED
    BY <2>3 DEF r, S
<1>11. CASE At(i) \in RScope /\ history # <<>>
  <2>1. At(i) # "Eofile"
    BY <1>11 DEF RScope
  <2>2. r = IF At(i) = Closing[Last(history)] THEN FindSeperatedParen(i + 1, last, Front(history), scopes)
            ELSE Append(scopes, <<i, Len(toks) + 1>>)
    BY <1>1, <1>11 DEF FindSeperatedParenRule, LScope, RScope
  <2> HIDE DEF r
  <2>3. Append(scopes, <<i, Len(toks) + 1>>) \in Seq(S)
    BY <1>2, <1>4, <1>6, <1>7, <2>1
  <2>4. FindSeperatedParen(i + 1, last, Front(history), scopes) \in Seq(S)
    BY <1>3, <1>7, <2>1
  <2>5. r \in Seq(S)
    BY <2>2, <2>3, <2>4
  <2>6. QED
    BY <2>5 DEF r, S
<1>12. CASE At(i) = ")" /\ history = <<>>
  <2>1. r = Append(scopes, <<last, i + 1>>)
    BY <1>1, <1>12 DEF FindSeperatedParenRule, LScope, RScope
  <2> HIDE DEF r
  <2>2. r \in Seq(S)
    BY <1>4, <1>5, <1>7, <1>12, <2>1
  <2>3. QED
    BY <2>2 DEF r, S
<1>13. CASE /\ At(i) # "Eofile" /\ At(i) \notin LScope /\ ~(At(i) = "," /\ history = <<>>)
            /\ ~(At(i) \in RScope /\ history # <<>>) /\ ~(At(i) = ")" /\ history = <<>>)
  <2>1. r = FindSeperatedParen(i + 1, last, history, scopes)
    BY <1>1, <1>13 DEF FindSeperatedParenRule
  <2> HIDE DEF r
  <2>2. r \in Seq(S)
    BY <1>3, <1>7, <1>13, <2>1
  <2>3. QED
    BY <2>2 DEF r, S
<1>14. QED
  BY <1>8, <1>9, <1>10, <1>11, <1>12, <1>13

LEMMA ScopesAreInside ==
  ASSUME Recursion, Lexed
  PROVE  \A i \in Positions : ScopesSound(i)
<1> DEFINE n == Len(toks) + 1
           S == {p \in Positions : ScopesSound(p)}
<1>1. n \in Nat /\ Positions = 1 .. n
  BY DEF Lexed, Positions
<1>2. \A p \in 1 .. n : (\A k \in (p + 1) .. n : k \in S) => p \in S
  <2> SUFFICES ASSUME NEW p \in 1 .. n, \A k \in (p + 1) .. n : k \in S PROVE p \in S
    OBVIOUS
  <2>1. \A k \in Positions : k > p => ScopesSound(k)
    BY <1>1
  <2>2. QED
    BY <1>1, <2>1, ScopesStep
<1> HIDE DEF S
<1>3. \A p \in 1 .. n : p \in S
  BY <1>1, <1>2, FromTheEnd
<1>4. QED
  BY <1>1, <1>3 DEF S

LEMMA ParameterStep ==
  ASSUME Recursion, Lexed, NEW scope, scope[1] \in Nat, MethodParameter(scope).res = "ok"
  PROVE  Tree(MethodParameter(scope).ast)
<1> DEFINE p == scope[1] + 1
           r == MethodParameter(scope)
<1>1. "MethodParameter" \in PlainTypes /\ "Modifiers" \in PlainTypes /\ 0 \in Nat
  BY DEF PlainTypes
<1>2. p \in Nat /\ p <= Len(toks) /\ p \in Positions
  <2>1. p > Len(toks) => r = UB
    BY DEF MethodParameter
  <2> HIDE DEF r
  <2>2. r.res = "ok"
    BY DEF r
  <2>3. ~(p > Len(toks))
    BY <2>1, <2>2, Results
  <2>4. QED
    BY <2>3 DEF Positions, Lexed
<1>3. CASE At(p) = "Ident"
  <2> DEFINE m == Bare("Modifiers", <<Bare("NONE", <<>>)>>)
  <2>1. Tree(m)
    BY <1>1, AnyType, FewTrees, PlainNode
  <2>2. r = Ok(p, Node("MethodParameter", p, p, <<m, Bare("any", <<>>), Leaf(p)>>))
    BY <1>2, <1>3 DEF MethodParameter
  <2> HIDE DEF m, r, p
  <2>3. Tree(Leaf(p)) /\ Tree(Bare("any", <<>>))
    BY <1>2, LeafTree, AnyType
  <2>4. Trees(<<m, Bare("any", <<>>), Leaf(p)>>)
    BY <2>1, <2>3, FewTrees
  <2>5. Tree(r.ast)
    BY <1>1, <1>2, <2>2, <2>4, PlainNode, Results
  <2>6. QED
    BY <2>5 DEF r
<1>4. CASE At(p) # "Ident"
  <2> DEFINE m == ParseOptionalModifiers(p)
             w == IF At(m.at) \in Primary \cup {"@"} THEN ParsePrimaryPreIdentifier(m.at) ELSE Fail
  <2>1. r = Fail \/ r = TypedParameter(p)
    BY <1>2, <1>4 DEF MethodParameter
  <2>2. TypedParameter(p) =
          IF w.res = "ok"
          THEN IF At(w.at) \in {"Ident"}
               THEN Ok(After(w.at), Bare("MethodParameter", <<m.ast, w.ast, Leaf(w.at)>>)) ELSE Fail
          ELSE w
    BY DEF TypedParameter, Expect, Then
  <2>3. m.at \in Positions /\ Tree(m.ast)
    BY <1>2, ModifiersStep
  <2> HIDE DEF m
  <2>4. w.res = "ok" => w.at \in Positions /\ Tree(w.ast)
    BY <2>3, IdentifierStep, Results DEF Sound
  <2> HIDE DEF w, r, p
  <2>5. r.res = "ok"
    BY DEF r
  <2>6. w.res = "ok" /\ r = Ok(After(w.at), Bare("MethodParameter", <<m.ast, w.ast, Leaf(w.at)>>))
    BY <2>1, <2>2, <2>5, Results
  <2>7. Trees(<<m.ast, w.ast, Leaf(w.at)>>)
    BY <2>3, <2>4, <2>6, LeafTree, FewTrees
  <2>8. Tree(r.ast)
    BY <1>1, <2>6, <2>7, PlainNode, Results
  <2>9. QED
    BY <2>8 DEF r
<1>5. QED
  BY <1>3, <1>4

LEMMA ParametersStep ==
  ASSUME Recursion, Lexed
  PROVE  \A scopes \in Seq(Nat \X Nat) : \A acc :
           acc.res = "ok" /\ Plain(acc.ast) /\ MethodParameters(acc, scopes).res = "ok"
             => Tree(MethodParameters(acc, scopes).ast)
<1> DEFINE Bad(s) == \E acc : /\ acc.res = "ok" /\ Plain(acc.ast) /\ MethodParameters(acc, s).res = "ok"
                              /\ ~Tree(MethodParameters(acc, s).ast)
           T == {n \in Nat : \E s \in Seq(Nat \X Nat) : n = Len(s) /\ Bad(s)}
<1> SUFFICES ASSUME NEW s0 \in Seq(Nat \X Nat), Bad(s0) PROVE FALSE
  OBVIOUS
<1>1. T \in SUBSET Nat /\ T # {}
  <2>1. Len(s0) \in T
    OBVIOUS
  <2>2. QED
    BY <2>1
<1>2. PICK n \in T : \A k \in T : n <= k
  BY <1>1, LeastNumber
<1>3. PICK s \in Seq(Nat \X Nat) : n = Len(s) /\ Bad(s)
  BY <1>2
<1>4. PICK acc : /\ acc.res = "ok" /\ Plain(acc.ast) /\ MethodParameters(acc, s).res = "ok"
                 /\ ~Tree(MethodParameters(acc, s).ast)
  BY <1>3
<1>5. MethodParameters(acc, s) = MethodParametersRule(acc, s)
  BY <1>3 DEF Recursion
<1>6. CASE s = <<>>
  <2>1. MethodParameters(acc, s) = acc
    BY <1>5, <1>6 DEF MethodParametersRule
  <2>2. QED
    BY <1>4, <2>1 DEF Plain
<1>7. CASE s # <<>>
  <2> DEFINE r == MethodParameter(Head(s))
             next == ExtractAndAdvance(acc, r)
  <2>1. MethodParametersRule(acc, s) =
          IF r.res = "ok" THEN MethodParameters(next, Tail(s)) ELSE r
    BY <1>7 DEF MethodParametersRule, Then
  <2>2. Head(s) \in Nat \X Nat /\ Tail(s) \in Seq(Nat \X Nat) /\ Len(Tail(s)) = Len(s) - 1 /\ Len(s) \in Nat
    BY <1>3, <1>7
  <2>3. Head(s)[1] \in Nat
    BY <2>2
  <2>4. r.res = "ok" => Tree(r.ast)
    BY <2>3, ParameterStep
  <2> HIDE DEF r
  <2>5. r.res = "ok"
    BY <1>4, <1>5, <2>1
  <2>6. next.res = "ok" /\ Plain(next.ast)
    BY <1>4, <2>4, <2>5, Extract
  <2> HIDE DEF next
  <2>7. Bad(Tail(s))
    BY <1>4, <1>5, <2>1, <2>5, <2>6
  <2>8. Len(Tail(s)) \in T /\ ~(n <= Len(Tail(s)))
    <3>1. Len(Tail(s)) \in Nat /\ Len(Tail(s)) < n /\ n \in Nat
      BY <1>3, <2>2
    <3> HIDE DEF Bad
    <3>2. Len(Tail(s)) \in T
      BY <2>2, <2>7, <3>1
    <3> HIDE DEF T
    <3>3. QED
      BY <3>1, <3>2
  <2>9. QED
    BY <1>2, <2>8
<1>8. QED
  BY <1>6, <1>7

LEMMA MethodParametersStep ==
  ASSUME Recursion, Lexed, NEW c \in Positions, At(c) = "("
  PROVE  Sound(ParseMethodParameters(c), c)
<1> DEFINE scopes == FindSeperatedParen(c + 1, c, <<>>, <<>>)
           params == MethodParameters(Ok(c, Bare("MethodParameterList", <<>>)), scopes)
           r == ParseMethodParameters(c)
           S == Scopes(c)
<1>1. c \in Nat /\ c + 1 \in Positions /\ c \in 1 .. (c + 1) /\ After(c) = c + 1
      /\ Advance(c, 2) \in Positions /\ Advance(c, 2) > c /\ Advance(c, 2) \in Nat
  <2>1. c \in Nat /\ After(c) = c + 1 /\ c \in 1 .. Len(toks) /\ c + 1 \in Positions
    BY TokenAt DEF Positions, Lexed
  <2>2. Advance(c, 2) \in Positions /\ Advance(c, 2) > c
    BY <2>1, Beyond
  <2>3. Advance(c, 2) \in Nat /\ c \in 1 .. (c + 1)
    BY <2>1, <2>2, PositionsAreNumbers DEF Positions
  <2>4. QED
    BY <2>1, <2>2, <2>3
<1>2. scopes \in Seq(S)
  <2>1. ScopesSound(c + 1)
    BY <1>1, ScopesAreInside
  <2>2. <<>> \in Seq(Scopes(c))
    OBVIOUS
  <2>3. QED
    BY <1>1, <2>1, <2>2 DEF ScopesSound
<1>3. r = IF At(c + 1) = ")"
          THEN Ok(Advance(c, 2), Node("MethodParameterList", c, Advance(c, 2), VoidParameter))
          ELSE IF scopes = <<>> THEN UB
          ELSE IF params.res = "ok" THEN Ok(Last(scopes)[2], params.ast) ELSE params
  BY <1>1 DEF ParseMethodParameters, Then
<1>4. "MethodParameterList" \in PlainTypes /\ 0 \in Nat
  BY DEF PlainTypes
<1>5. params.res = "ok" => Tree(params.ast)
  <2>1. S \subseteq Nat \X Nat
    BY <1>1 DEF Scopes, Lexed
  <2>2. scopes \in Seq(Nat \X Nat)
    <3>1. \A A, B, x : A \subseteq B /\ x \in Seq(A) => x \in Seq(B)
      OBVIOUS
    <3> HIDE DEF S, scopes
    <3>2. QED
      BY <1>2, <2>1, <3>1
  <2> DEFINE acc == Ok(c, Bare("MethodParameterList", <<>>))
  <2>3. acc.res = "ok" /\ Plain(acc.ast)
    BY <1>4, NoTrees, PlainNode, Results
  <2> HIDE DEF acc, scopes
  <2>4. params = MethodParameters(acc, scopes)
    BY DEF acc
  <2> HIDE DEF params
  <2>5. QED
    BY <2>2, <2>3, <2>4, ParametersStep
<1>6. scopes # <<>> => Last(scopes)[2] \in Positions /\ Last(scopes)[2] > c
  <2>1. scopes # <<>> => Last(scopes) \in S
    <3> HIDE DEF S, scopes
    <3>1. QED
      BY <1>2 DEF Last
  <2>2. QED
    BY <1>1, <2>1 DEF Scopes, Positions, Lexed
<1> HIDE DEF scopes, params, r
<1>7. CASE At(c + 1) = ")"
  <2>1. Tree(Node("MethodParameterList", c, Advance(c, 2), VoidParameter))
    BY <1>1, <1>4, AnyType, PlainNode
  <2>2. Sound(r, c)
    BY <1>1, <1>3, <1>7, <2>1, Results DEF Sound
  <2>3. QED
    BY <2>2 DEF r
<1>8. CASE At(c + 1) # ")"
  <2>1. r = UB \/ (r = params /\ params.res # "ok")
        \/ (r = Ok(Last(scopes)[2], params.ast) /\ scopes # <<>> /\ params.res = "ok")
    BY <1>3, <1>8
  <2>2. Sound(r, c)
    BY <1>5, <1>6, <2>1, Results DEF Sound
  <2>3. QED
    BY <2>2 DEF r
<1>9. QED
  BY <1>7, <1>8

LEMMA ReturnStep ==
  ASSUME Recursion, Lexed, NEW c \in Positions
  PROVE  Sound(ParseMethodReturnParameters(c), c)
<1> DEFINE m == IF At(c) \in Modifier THEN ParseModifiers(c) ELSE Ok(c, Bare("NONE", <<>>))
           w == ParsePrimaryPostIdentifier(m.at)
           n == Bare("MethodReturnType", IF At(c) \in Modifier THEN <<m.ast, w.ast>> ELSE <<w.ast>>)
           r == ParseMethodReturnParameters(c)
<1>1. r = IF At(m.at) \in Primary THEN IF w.res = "ok" THEN Ok(w.at, n) ELSE w ELSE Fail
  BY DEF ParseMethodReturnParameters, Expect, Then
<1>2. m.at \in Positions /\ m.at >= c /\ Tree(m.ast)
  <2>1. c >= c
    BY PositionsAreNumbers
  <2>2. QED
    BY <2>1, ModifiersStep, Results, AnyType
<1> HIDE DEF m
<1>3. w.res = "ok" => w.at \in Positions /\ w.at > c /\ Tree(w.ast)
  BY <1>2, IdentifierStep, PositionsAreNumbers DEF Sound
<1> HIDE DEF w
<1>4. w.res = "ok" => Tree(n)
  <2>1. "MethodReturnType" \in PlainTypes /\ 0 \in Nat
    BY DEF PlainTypes
  <2>2. w.res = "ok" => Trees(IF At(c) \in Modifier THEN <<m.ast, w.ast>> ELSE <<w.ast>>)
    BY <1>2, <1>3, FewTrees
  <2>3. QED
    BY <2>1, <2>2, PlainNode
<1> HIDE DEF n, r
<1>5. Sound(r, c)
  BY <1>1, <1>3, <1>4, Results DEF Sound
<1>6. QED
  BY <1>5 DEF r

LEMMA SignatureTree ==
  ASSUME NEW params, NEW ret, Tree(params), Tree(ret)
  PROVE  Tree(Signature(params, ret)) /\ Tree(Bare("MethodSignature", <<params, ret>>))
<1>1. "MethodSignature" \in PlainTypes /\ "MethodReturnType" \in PlainTypes /\ 0 \in Nat
  BY DEF PlainTypes
<1>2. Tree(Bare("MethodReturnType", <<ret>>))
  BY <1>1, FewTrees, PlainNode
<1> DEFINE type == Bare("MethodReturnType", <<ret>>)
<1> HIDE DEF type
<1>3. Trees(<<params, type>>) /\ Trees(<<params, ret>>)
  BY <1>2, FewTrees DEF type
<1>4. QED
  BY <1>1, <1>3, PlainNode DEF Signature, type

LEMMA ReturnedStep ==
  ASSUME Recursion, Lexed, NEW c \in Positions, NEW params, Tree(params)
  PROVE  /\ Weak(Returned(c, params, LAMBDA r : Leaf(r.at)), c)
         /\ Weak(Returned(c, params, LAMBDA r : r.ast), c)
<1> DEFINE q == ParseMethodReturnParameters(c)
           any == Bare("any", <<>>)
<1>1. After(c) \in Positions /\ After(c) >= c /\ c >= c
  BY Beyond, PositionsAreNumbers
<1>2. Sound(q, c)
  BY ReturnStep
<1>3. Tree(Signature(params, any))
  BY AnyType, SignatureTree
<1>4. ASSUME NEW r, NEW x, q.res = "ok" => Tree(x),
             \/ r = Ok(After(c), Signature(params, any))
             \/ r = Ok(c, Signature(params, any))
             \/ r = IF q.res = "ok" THEN Ok(q.at, Bare("MethodSignature", <<params, x>>)) ELSE q
      PROVE  Weak(r, c)
  <2> HIDE DEF q, any
  <2>1. CASE r = Ok(After(c), Signature(params, any))
    BY <1>1, <1>3, <2>1, Results DEF Weak
  <2>2. CASE r = Ok(c, Signature(params, any))
    BY <1>1, <1>3, <2>2, Results DEF Weak
  <2>3. CASE r = IF q.res = "ok" THEN Ok(q.at, Bare("MethodSignature", <<params, x>>)) ELSE q
    <3>1. CASE q.res = "ok"
      <4>1. Tree(Bare("MethodSignature", <<params, x>>))
        BY <1>4, <3>1, SignatureTree
      <4>2. q.at \in Positions /\ q.at >= c
        BY <1>2, <3>1, PositionsAreNumbers DEF Sound
      <4>3. QED
        BY <2>3, <3>1, <4>1, <4>2, Results DEF Weak
    <3>2. CASE q.res # "ok"
      BY <2>3, <3>2 DEF Weak
    <3>3. QED
      BY <3>1, <3>2
  <2>4. QED
    BY <1>4, <2>1, <2>2, <2>3
<1>5. Weak(Returned(c, params, LAMBDA r : Leaf(r.at)), c)
  <2> DEFINE ret == Returned(c, params, LAMBDA r : Leaf(r.at))
  <2>1. \/ ret = Ok(After(c), Signature(params, any))
        \/ ret = Ok(c, Signature(params, any))
        \/ ret = IF q.res = "ok" THEN Ok(q.at, Bare("MethodSignature", <<params, Leaf(q.at)>>)) ELSE q
    <3>1. CASE At(c) = ":"
      BY <3>1 DEF Returned, Then
    <3>2. CASE At(c) = ";"
      BY <3>2 DEF Returned, Then
    <3>3. CASE At(c) # ":" /\ At(c) # ";"
      BY <3>3 DEF Returned, Then
    <3>4. QED
      BY <3>1, <3>2, <3>3
  <2>2. q.res = "ok" => Tree(Leaf(q.at))
    BY <1>2, LeafTree DEF Sound
  <2> HIDE DEF ret, q, any
  <2>3. QED
    BY <1>4, <2>1, <2>2 DEF ret
<1>6. Weak(Returned(c, params, LAMBDA r : r.ast), c)
  <2> DEFINE ret == Returned(c, params, LAMBDA r : r.ast)
  <2>1. \/ ret = Ok(After(c), Signature(params, any))
        \/ ret = Ok(c, Signature(params, any))
        \/ ret = IF q.res = "ok" THEN Ok(q.at, Bare("MethodSignature", <<params, q.ast>>)) ELSE q
    <3>1. CASE At(c) = ":"
      BY <3>1 DEF Returned, Then
    <3>2. CASE At(c) = ";"
      BY <3>2 DEF Returned, Then
    <3>3. CASE At(c) # ":" /\ At(c) # ";"
      BY <3>3 DEF Returned, Then
    <3>4. QED
      BY <3>1, <3>2, <3>3
  <2>2. q.res = "ok" => Tree(q.ast)
    BY <1>2 DEF Sound
  <2> HIDE DEF ret, q, any
  <2>3. QED
    BY <1>4, <2>1, <2>2 DEF ret
<1>7. QED
  BY <1>5, <1>6

LEMMA WeakOk ==
  ASSUME NEW x \in Positions, NEW c, x >= c, NEW ast, Tree(ast)
  PROVE  Weak(Ok(x, ast), c)
BY Results DEF Weak

LEMMA WeakLater ==
  ASSUME Lexed, NEW c \in Positions, NEW d \in Positions, d >= c, NEW r, Weak(r, d)
  PROVE  Weak(r, c)
BY PositionsAreNumbers DEF Weak

LEMMA NotOk == ASSUME NEW r, r.res # "ok", NEW c PROVE Weak(r, c) /\ Sound(r, c)
BY DEF Weak, Sound

LEMMA MethodSignatureStep ==
  ASSUME Recursion, Lexed, NEW c \in Positions
  PROVE  Weak(ParseMethodSignature(c), c)
<1> DEFINE void == Bare("MethodVoid", <<>>)
           noParams == Bare("MethodParameterList", VoidParameter)
           p == ParseMethodParameters(c)
           r == ParseMethodSignature(c)
<1>1. After(c) \in Positions /\ After(c) >= c /\ c >= c
  BY Beyond, PositionsAreNumbers
<1>2. Tree(void) /\ Tree(noParams) /\ Tree(Signature(noParams, void))
  BY AnyType, SignatureTree
<1>3. CASE At(c) = ":"
  <2>1. r = Ok(c, Signature(noParams, void))
    BY <1>3 DEF ParseMethodSignature
  <2> HIDE DEF r, noParams, void
  <2>2. Weak(r, c)
    BY <1>1, <1>2, <2>1, WeakOk
  <2>3. QED
    BY <2>2 DEF r
<1>4. CASE At(c) = ">"
  <2> DEFINE q == Returned(After(c), noParams, LAMBDA x : Leaf(x.at))
  <2>1. r = q
    BY <1>4 DEF ParseMethodSignature
  <2>2. Weak(q, After(c))
    BY <1>1, <1>2, ReturnedStep
  <2> HIDE DEF r, q
  <2>3. Weak(r, c)
    BY <1>1, <2>1, <2>2, WeakLater
  <2>4. QED
    BY <2>3 DEF r
<1>5. CASE At(c) = "("
  <2>1. Sound(p, c)
    BY <1>5, MethodParametersStep
  <2>2. r = IF p.res = "ok"
            THEN CASE At(p.at) = ";" -> Ok(p.at, Signature(p.ast, void))
                   [] At(p.at) = ":" -> Ok(After(p.at), Signature(p.ast, void))
                   [] At(p.at) = ">" -> Returned(After(p.at), p.ast, LAMBDA x : x.ast)
                   [] OTHER -> Fail
            ELSE p
    BY <1>5 DEF ParseMethodSignature, Then
  <2> HIDE DEF p, r, void, noParams
  <2>3. ASSUME p.res = "ok" PROVE Weak(r, c)
    <3>1. p.at \in Positions /\ p.at >= c /\ Tree(p.ast) /\ p.at \in Nat
      BY <2>1, <2>3, PositionsAreNumbers DEF Sound
    <3>2. After(p.at) \in Positions /\ After(p.at) >= c
      BY <3>1, Beyond, PositionsAreNumbers
    <3>3. Tree(Signature(p.ast, void))
      BY <1>2, <3>1, SignatureTree
    <3>4. CASE At(p.at) = ";"
      <4>1. r = Ok(p.at, Signature(p.ast, void))
        BY <2>2, <2>3, <3>4
      <4>2. QED
        BY <3>1, <3>3, <4>1, WeakOk
    <3>5. CASE At(p.at) = ":"
      <4>1. r = Ok(After(p.at), Signature(p.ast, void))
        BY <2>2, <2>3, <3>5
      <4>2. QED
        BY <3>2, <3>3, <4>1, WeakOk
    <3>6. CASE At(p.at) = ">"
      <4> DEFINE q == Returned(After(p.at), p.ast, LAMBDA x : x.ast)
      <4>1. r = q
        BY <2>2, <2>3, <3>6
      <4>2. Weak(q, After(p.at))
        BY <3>1, <3>2, ReturnedStep
      <4> HIDE DEF q
      <4>3. QED
        BY <3>2, <4>1, <4>2, WeakLater
    <3>7. CASE At(p.at) \notin {";", ":", ">"}
      <4>1. r = Fail
        BY <2>2, <2>3, <3>7
      <4>2. QED
        BY <4>1, Results, NotOk
    <3>8. QED
      BY <3>4, <3>5, <3>6, <3>7
  <2>4. Weak(r, c)
    BY <2>2, <2>3, NotOk
  <2>5. QED
    BY <2>4 DEF r
<1>6. CASE At(c) \notin {":", ">", "("}
  <2>1. r = Fail
    BY <1>6 DEF ParseMethodSignature
  <2> HIDE DEF r
  <2>2. Weak(r, c)
    BY <2>1, Results, NotOk
  <2>3. QED
    BY <2>2 DEF r
<1>7. QED
  BY <1>3, <1>4, <1>5, <1>6

-----------------------------------------------------------------------------
(* Statements and declarations: what a rule answers at a position, if it   *)
(* does for every later one.                                               *)

Acc(acc, p) == acc.res = "ok" /\ acc.at = p /\ Plain(acc.ast)
StmtSound(p) ==
  /\ \A kind \in Kinds : Sound(Statement(kind, p), p)
  /\ Sound(ProcBlock(p), p)
  /\ Weak(EnumHeader(p), p) /\ (EnumHeader(p).res = "ok" => Plain(EnumHeader(p).ast))
  /\ \A acc : Acc(acc, p) =>
       /\ \A kind \in Kinds, end \in Nat : Weak(Statements(kind, end, acc), p)
       /\ \A words \in SUBSET {"elif", "else"} : Weak(ParseIfBranches(acc, words), p)
       /\ Weak(Initializers(acc), p) /\ Weak(EnumEntries(acc), p)
LaterStmts(p) == \A k \in Positions : k > p => StmtSound(k)

LEMMA SoundOk ==
  ASSUME NEW x \in Positions, NEW c, x > c, NEW ast, Tree(ast)
  PROVE  Sound(Ok(x, ast), c)
BY Results DEF Sound

LEMMA SoundFrom ==
  ASSUME Lexed, NEW c \in Positions, NEW d \in Positions, NEW r
  PROVE  /\ Sound(r, d) /\ d >= c => Sound(r, c) /\ Weak(r, c)
         /\ Weak(r, d) /\ d >= c => Weak(r, c)
         /\ Weak(r, d) /\ d > c => Sound(r, c)
BY PositionsAreNumbers DEF Sound, Weak

LEMMA AccOk ==
  ASSUME NEW p \in Positions, NEW type \in PlainTypes, NEW from \in Nat, NEW to \in Nat
  PROVE  Acc(Ok(p, Bare(type, <<>>)), p) /\ Acc(Ok(p, Node(type, from, to, <<>>)), p)
BY Results, PlainNode, NoTrees DEF Acc

LEMMA DeclaredStep ==
  ASSUME Lexed, NEW c \in Positions, NEW type \in PlainTypes, NEW kids, Trees(kids), NEW r, Sound(r, c)
  PROVE  Sound(Declared(type, c, kids, r), c)
<1> DEFINE n == Node(type, c, r.at, Append(kids, r.ast))
           d == Declared(type, c, kids, r)
<1>1. d = IF r.res = "ok" THEN Ok(r.at, n) ELSE r
  BY DEF Declared, Then
<1> HIDE DEF d
<1>2. CASE r.res = "ok"
  <2>1. r.at \in Positions /\ r.at > c /\ Tree(r.ast) /\ r.at \in Nat /\ c \in Nat
    BY <1>2, PositionsAreNumbers DEF Sound
  <2>2. Tree(n)
    BY <2>1, MoreTrees, PlainNode
  <2> HIDE DEF n
  <2>3. Sound(d, c)
    BY <1>1, <1>2, <2>1, <2>2, SoundOk
  <2>4. QED
    BY <2>3 DEF d
<1>3. CASE r.res # "ok"
  <2>1. Sound(d, c)
    BY <1>1, <1>3, NotOk
  <2>2. QED
    BY <2>1 DEF d
<1>4. QED
  BY <1>2, <1>3

LEMMA UndefinedStep ==
  ASSUME Lexed, NEW c \in Positions, NEW type \in PlainTypes, NEW kids, Trees(kids),
         NEW end \in Positions, end > c
  PROVE  Sound(Undefined(type, c, kids, end), c)
<1>1. c \in Nat /\ end \in Nat
  BY PositionsAreNumbers
<1>2. QED
  BY <1>1, PlainNode, SoundOk DEF Undefined

LEMMA BlockStep ==
  ASSUME Recursion, Lexed, NEW c \in Positions, LaterStmts(c), NEW x \in Positions, x >= c,
         NEW kind \in Kinds, NEW type \in PlainTypes
  PROVE  /\ At(x) = "{" => Sound(Statements(kind, 0, Ok(After(x), Bare(type, <<>>))), x)
         /\ Sound(FoundBlock(kind, type, x), x)
<1> DEFINE acc == Ok(After(x), Bare(type, <<>>))
<1>1. ASSUME At(x) = "{", NEW end \in Nat PROVE Sound(Statements(kind, end, acc), x)
  <2>1. After(x) = x + 1 /\ x + 1 \in Positions /\ x + 1 > x /\ x + 1 > c
    <3>1. x \in Nat /\ c \in Nat
      BY PositionsAreNumbers
    <3>2. After(x) = x + 1 /\ After(x) \in Positions
      BY <1>1, TokenAt
    <3>3. QED
      BY <3>1, <3>2
  <2>2. Acc(acc, x + 1)
    <3>1. 0 \in Nat
      OBVIOUS
    <3>2. QED
      BY <2>1, <3>1, AccOk
  <2>3. StmtSound(x + 1)
    BY <2>1 DEF LaterStmts
  <2> HIDE DEF acc
  <2>4. Weak(Statements(kind, end, acc), x + 1)
    BY <1>1, <2>2, <2>3 DEF StmtSound
  <2>5. QED
    BY <2>1, <2>4, SoundFrom
<1>2. At(x) = "{" => Sound(Statements(kind, 0, acc), x)
  <2>1. 0 \in Nat
    OBVIOUS
  <2> HIDE DEF acc
  <2>2. QED
    BY <1>1, <2>1
<1>3. Sound(FoundBlock(kind, type, x), x)
  <2> DEFINE end == FindScope(x, "{")
  <2>1. FoundBlock(kind, type, x) = IF end = 0 THEN Fail ELSE Statements(kind, end - 1, acc)
    BY DEF FoundBlock
  <2>2. end # 0 => At(x) = "{" /\ end - 1 \in Nat
    <3>1. x \in Nat
      BY PositionsAreNumbers
    <3>2. end # 0 => end \in (x + 2) .. (Len(toks) + 1)
      BY FindScopeStep
    <3>3. end # 0 => At(x) = "{"
      BY FindScopeStep
    <3> HIDE DEF end
    <3>4. end # 0 => end - 1 \in Nat
      BY <3>1, <3>2 DEF Lexed
    <3>5. QED
      BY <3>3, <3>4
  <2> HIDE DEF end, acc
  <2>3. QED
    BY <1>1, <2>1, <2>2, NotOk, Results
<1>4. QED
  BY <1>2, <1>3

LEMMA DefinitionSteps ==
  ASSUME Recursion, Lexed, NEW c \in Positions, LaterStmts(c), NEW x \in Positions, x >= c
  PROVE  /\ Sound(ParseMethodDef(x), x) /\ Sound(ParseMainDef(x), x)
         /\ Sound(ParseClassDef(x), x) /\ Sound(ParseLibDef(x), x)
<1>1. /\ FunctionalStmt \in Kinds /\ PragmaticStmt \in Kinds
      /\ "MethodDefinition" \in PlainTypes /\ "MainDefinition" \in PlainTypes
      /\ "ClassDefinition" \in PlainTypes /\ "LibraryDefinition" \in PlainTypes
  BY DEF Kinds, PlainTypes
<1>2. Sound(ParseMethodDef(x), x)
  BY <1>1, BlockStep, NotOk, Results DEF ParseMethodDef, Expect
<1>3. Sound(ParseMainDef(x), x)
  BY <1>1, BlockStep DEF ParseMainDef
<1>4. ASSUME NEW r, Sound(r, x) PROVE Sound(Unended(r), x)
  <2> DEFINE end == IF At(r.at) = ";" THEN After(r.at) ELSE r.at
  <2>1. Unended(r) = IF r.res = "ok" THEN Ok(end, r.ast) ELSE r
    BY DEF Unended, Then
  <2>2. ASSUME r.res = "ok" PROVE end \in Positions /\ end > x /\ Tree(r.ast)
    <3>1. r.at \in Positions /\ r.at > x /\ Tree(r.ast)
      BY <1>4, <2>2 DEF Sound
    <3>2. r.at \in Nat /\ x \in Nat
      BY <3>1, PositionsAreNumbers
    <3>3. After(r.at) \in Positions /\ After(r.at) >= r.at
      BY <3>1, <3>2, Beyond
    <3>4. After(r.at) \in Nat
      BY <3>3, PositionsAreNumbers
    <3>5. end = After(r.at) \/ end = r.at
      OBVIOUS
    <3> HIDE DEF end
    <3>6. QED
      BY <3>1, <3>2, <3>3, <3>4, <3>5
  <2> HIDE DEF end
  <2>3. QED
    BY <2>1, <2>2, NotOk, SoundOk
<1>5. Sound(ParseClassDef(x), x) /\ Sound(ParseLibDef(x), x)
  BY <1>1, <1>4, BlockStep DEF ParseClassDef, ParseLibDef
<1>6. QED
  BY <1>2, <1>3, <1>5

LEMMA Inside ==
  ASSUME Lexed, NEW c \in Positions, c <= Len(toks)
  PROVE  /\ c \in Nat /\ After(c) \in Positions /\ After(c) > c
         /\ \A n \in Nat \ {0} : Advance(c, n) \in Positions /\ Advance(c, n) > c
         /\ \A x \in Positions : x >= c =>
              /\ x \in Nat /\ After(x) \in Positions /\ After(x) > c /\ After(x) >= x
              /\ \A n \in Nat \ {0} : Advance(x, n) \in Positions /\ Advance(x, n) > c
BY DEF Lexed, Positions, Advance, After

LEMMA Onward ==
  ASSUME Lexed, NEW c \in Positions, c <= Len(toks), NEW x \in Positions, x >= c
  PROVE  /\ c \in Nat /\ x \in Nat
         /\ After(x) \in Positions /\ After(x) \in Nat /\ After(x) > c /\ After(x) >= c
         /\ \A n \in Nat \ {0} :
              Advance(x, n) \in Positions /\ Advance(x, n) \in Nat /\ Advance(x, n) > c /\ Advance(x, n) >= c
         /\ Advance(x, 2) \in Positions /\ Advance(x, 2) \in Nat /\ Advance(x, 2) > c /\ Advance(x, 2) >= c
         /\ Advance(x, 3) \in Positions /\ Advance(x, 3) \in Nat /\ Advance(x, 3) > c /\ Advance(x, 3) >= c
BY DEF Lexed, Positions, Advance, After

LEMMA ReturnTree ==
  /\ Tree(Bare("return", <<>>))
  /\ \A e : Tree(e) /\ Operand(e) => Tree(Bare("return", <<e>>))
<1>1. ASSUME NEW kids, Trees(kids), \A i \in 1 .. Len(kids) : Operand(kids[i])
      PROVE  Tree(Bare("return", kids))
  <2> DEFINE n == Bare("return", kids)
  <2>1. n.type = "return" /\ n.from = 0 /\ n.to = 0 /\ n.kids = kids /\ n = Node("return", 0, 0, kids)
    BY NodeFields DEF Bare
  <2>2. "return" \notin BinaryOps
    BY OtherTypes
  <2> HIDE DEF n
  <2>3. n.type \notin BinaryOps \cup {"ResolutionOp", "MemberAccess", "!", "~", "++", "--", "FunctionCall",
          "IndexOperator", "ListingOperator", "Subexpression", "SquareSubexpr", "CurlySubexpr",
          "Arguments", "VariableDeclaration"}
        /\ n.type \notin AnOperand
    BY <2>1, <2>2 DEF AnOperand
  <2>4. Tiles(n) /\ Binds(n)
    BY <2>3 DEF Tiles, Binds
  <2>5. Fits(n)
    BY <1>1, <2>1, <2>3, <2>4 DEF Fits
  <2>6. Tree(n)
    BY <1>1, <2>1, <2>5, Grow
  <2>7. QED
    BY <2>6 DEF n
<1>2. Tree(Bare("return", <<>>))
  <2>1. \A i \in 1 .. Len(<<>>) : Operand(<<>>[i])
    OBVIOUS
  <2>2. QED
    BY <1>1, <2>1, NoTrees
<1>3. ASSUME NEW e, Tree(e), Operand(e) PROVE Tree(Bare("return", <<e>>))
  <2>1. \A i \in 1 .. Len(<<e>>) : Operand(<<e>>[i])
    BY <1>3
  <2>2. QED
    BY <1>1, <1>3, <2>1, FewTrees
<1>4. QED
  BY <1>2, <1>3

LEMMA ReturnStmtStep ==
  ASSUME Recursion, Lexed, NEW c \in Positions, c <= Len(toks)
  PROVE  Sound(ParseReturnStmt(c), c)
<1> DEFINE e == ParsePrimaryStatement(After(c))
<1>1. After(c) \in Positions /\ After(c) > c /\ Advance(c, 2) \in Positions /\ Advance(c, 2) > c
  BY Inside
<1>2. Sound(e, After(c)) /\ (e.res = "ok" => Operand(e.ast))
  BY <1>1, PrimaryStatementStep
<1>3. CASE At(After(c)) = ";"
  BY <1>1, <1>3, ReturnTree, SoundOk DEF ParseReturnStmt
<1>4. CASE At(After(c)) # ";"
  <2>1. ParseReturnStmt(c) = IF e.res = "ok" THEN Ok(e.at, Bare("return", <<e.ast>>)) ELSE e
    BY <1>4 DEF ParseReturnStmt, Then
  <2> HIDE DEF e
  <2>2. Sound(e, c)
    BY <1>1, <1>2, SoundFrom, PositionsAreNumbers
  <2>3. e.res = "ok" => e.at \in Positions /\ e.at > c /\ Tree(Bare("return", <<e.ast>>))
    BY <1>2, <2>2, ReturnTree DEF Sound
  <2>4. QED
    BY <2>1, <2>3, NotOk, SoundOk
<1>5. QED
  BY <1>3, <1>4

LEMMA VariableTree ==
  ASSUME NEW from \in Nat, NEW to \in Nat, NEW kids, Trees(kids), kids # <<>>,
         Last(kids).kids # <<>> => Operand(Last(kids).kids[1])
  PROVE  Tree(Node("VariableDeclaration", from, to, kids))
<1> DEFINE n == Node("VariableDeclaration", from, to, kids)
<1>1. n.type = "VariableDeclaration" /\ n.from = from /\ n.to = to /\ n.kids = kids
      /\ n = Node("VariableDeclaration", from, to, kids)
  BY NodeFields
<1>2. "VariableDeclaration" \notin BinaryOps
  BY OtherTypes
<1> HIDE DEF n
<1>3. n.type \notin BinaryOps \cup {"ResolutionOp", "MemberAccess", "!", "~", "++", "--", "FunctionCall",
        "IndexOperator", "ListingOperator", "Subexpression", "SquareSubexpr", "CurlySubexpr",
        "Arguments", "return"}
      /\ n.type \notin AnOperand
  BY <1>1, <1>2 DEF AnOperand
<1>4. Tiles(n) /\ Binds(n)
  BY <1>3 DEF Tiles, Binds
<1>5. Fits(n)
  BY <1>1, <1>3, <1>4 DEF Fits
<1>6. Tree(n)
  BY <1>1, <1>5, Grow
<1>7. QED
  BY <1>6 DEF n

LEMMA VariableNamedStep ==
  ASSUME Recursion, Lexed, NEW c \in Positions, c <= Len(toks), NEW m, Tree(m.ast),
         NEW w, w.at \in Positions, w.at >= c, Tree(w.ast)
  PROVE  Sound(VariableNamed(c, m, w), c)
<1> DEFINE colon == After(w.at)
           kids == <<m.ast, w.ast, Leaf(w.at)>>
           d == ParsePrimaryStatement(After(colon))
           def == Node("VariableDefinition", After(colon), d.at, <<d.ast>>)
           defined == Node("VariableDeclaration", c, d.at, Append(kids, def))
           bare == Node("VariableDeclaration", c, After(colon), kids)
           r == VariableNamed(c, m, w)
<1>1. VariableDefinition(After(colon)) = IF d.res = "ok" THEN Ok(d.at, def) ELSE d
  BY DEF VariableDefinition, Then
<1>2. r = Fail \/ r = Ok(After(colon), bare)
      \/ r = Declared("VariableDeclaration", c, kids, VariableDefinition(After(colon)))
  <2>1. CASE At(w.at) # "Ident"
    BY <2>1 DEF VariableNamed
  <2>2. CASE At(w.at) = "Ident" /\ At(colon) = ":"
    BY <2>2 DEF VariableNamed
  <2>3. CASE At(w.at) = "Ident" /\ At(colon) = ";"
    BY <2>3 DEF VariableNamed, Undefined
  <2>4. CASE At(w.at) = "Ident" /\ At(colon) \notin {":", ";"}
    BY <2>4 DEF VariableNamed
  <2> HIDE DEF r, colon, kids, bare
  <2>5. QED
    BY <2>1, <2>2, <2>3, <2>4, Zenon
<1>3. w.at \in Nat /\ c \in Nat /\ Tree(Leaf(w.at))
  BY LeafTree, PositionsAreNumbers
<1>4. colon \in Positions /\ colon > c /\ colon >= c /\ colon \in Nat
  <2>1. colon \in Positions /\ colon > c
    BY Inside
  <2> HIDE DEF colon
  <2>2. colon \in Nat
    BY <2>1, PositionsAreNumbers
  <2>3. QED
    BY <1>3, <2>1, <2>2
<1> HIDE DEF colon
<1>5. After(colon) \in Positions /\ After(colon) > c /\ After(colon) \in Nat
  BY <1>3, <1>4, Inside, PositionsAreNumbers
<1>6. Trees(kids) /\ kids # <<>> /\ Last(kids) = Leaf(w.at)
  <2>1. Trees(kids)
    BY <1>3, FewTrees
  <2>2. QED
    BY <2>1 DEF Last
<1>7. Leaf(w.at).kids = <<>>
  BY NodeFields DEF Leaf
<1> HIDE DEF kids
<1>8. Tree(bare)
  BY <1>3, <1>5, <1>6, <1>7, VariableTree
<1>9. Sound(d, After(colon)) /\ (d.res = "ok" => Operand(d.ast))
  BY <1>5, PrimaryStatementStep
<1> HIDE DEF d
<1>10. ASSUME d.res = "ok" PROVE d.at \in Positions /\ d.at > c /\ Tree(defined)
  <2>1. d.at \in Positions /\ d.at > c /\ Tree(d.ast) /\ d.at \in Nat /\ Operand(d.ast)
    <3>1. d.at \in Positions /\ d.at > After(colon) /\ Tree(d.ast) /\ Operand(d.ast)
      BY <1>9, <1>10 DEF Sound
    <3>2. d.at \in Nat
      BY <3>1, PositionsAreNumbers
    <3>3. QED
      BY <1>3, <1>5, <3>1, <3>2
  <2>2. Tree(def)
    <3>1. "VariableDefinition" \in PlainTypes
      BY DEF PlainTypes
    <3>2. QED
      BY <1>5, <2>1, <3>1, FewTrees, PlainNode
  <2>3. def.kids = <<d.ast>> /\ <<d.ast>>[1] = d.ast
    BY NodeFields
  <2> HIDE DEF def
  <2>4. Trees(Append(kids, def)) /\ Append(kids, def) # <<>> /\ Last(Append(kids, def)) = def
    BY <1>6, <2>2, MoreTrees
  <2>5. Tree(defined)
    BY <1>3, <2>1, <2>3, <2>4, VariableTree
  <2>6. QED
    BY <2>1, <2>5
<1>11. Declared("VariableDeclaration", c, kids, VariableDefinition(After(colon)))
        = IF d.res = "ok" THEN Ok(d.at, defined) ELSE d
  BY <1>1, Results DEF Declared, Then
<1> HIDE DEF defined, bare, r
<1>12. Sound(r, c)
  BY <1>2, <1>5, <1>8, <1>10, <1>11, SoundOk, NotOk, Results
<1>13. QED
  BY <1>12 DEF r

LEMMA VariableDeclStep ==
  ASSUME Recursion, Lexed, NEW c \in Positions, c <= Len(toks)
  PROVE  Sound(ParseVariableDecl(c), c)
<1> DEFINE m == ParseOptionalModifiers(c)
           w == ParsePrimaryPreIdentifier(After(m.at))
<1>1. ParseVariableDecl(c) =
        IF At(m.at) \in {"def"} THEN IF w.res = "ok" THEN VariableNamed(c, m, w) ELSE w ELSE Fail
  BY DEF ParseVariableDecl, Expect, Then
<1>2. m.at \in Positions /\ m.at >= c /\ Tree(m.ast)
  BY ModifiersStep
<1> HIDE DEF m
<1>3. After(m.at) \in Positions /\ After(m.at) > c
  BY <1>2, Inside
<1>4. Sound(w, After(m.at))
  BY <1>3, IdentifierStep
<1> HIDE DEF w
<1>5. w.res = "ok" => w.at \in Positions /\ w.at >= c /\ Tree(w.ast)
  BY <1>3, <1>4, PositionsAreNumbers DEF Sound
<1>6. w.res = "ok" => Sound(VariableNamed(c, m, w), c)
  BY <1>2, <1>5, VariableNamedStep
<1>7. QED
  BY <1>1, <1>6, NotOk, Results

LEMMA ClosedStep ==
  ASSUME Lexed, NEW c \in Positions, NEW r, Sound(r, c)
  PROVE  Sound(Closed(r), c)
<1>1. \/ Closed(r) = r /\ r.res # "ok"
      \/ Closed(r) = Fail
      \/ Closed(r) = Ok(After(r.at), r.ast) /\ r.res = "ok"
  BY DEF Closed, Then, Expect
<1>2. r.res = "ok" => After(r.at) \in Positions /\ After(r.at) > c /\ Tree(r.ast)
  <2>1. \A x \in Positions : x \in Nat /\ After(x) \in Positions /\ After(x) >= x
    BY Beyond, PositionsAreNumbers
  <2>2. QED
    BY <2>1, PositionsAreNumbers DEF Sound
<1>3. QED
  BY <1>1, <1>2, SoundOk, NotOk, Results

\* Types of declarations, of which nothing is checked.
LEMMA DeclarationTypes ==
  /\ "MethodDeclaration" \in PlainTypes /\ "ClassDeclaration" \in PlainTypes
  /\ "LibraryDeclaration" \in PlainTypes /\ "ProcessDeclaration" \in PlainTypes
  /\ "ImportDeclaration" \in PlainTypes /\ "MainDeclaration" \in PlainTypes
  /\ "EnumDeclaration" \in PlainTypes /\ "ProcessDefinition" \in PlainTypes
  /\ "MethodSignature" \in PlainTypes /\ "Modifiers" \in PlainTypes /\ 0 \in Nat
BY DEF PlainTypes

\* A definition further on, declared at c.
LEMMA DeclareLater ==
  ASSUME Lexed, NEW c \in Positions, NEW x \in Positions, x >= c, NEW type \in PlainTypes,
         NEW kids, Trees(kids), NEW r, Sound(r, x)
  PROVE  Sound(Declared(type, c, kids, r), c)
BY SoundFrom, DeclaredStep

LEMMA MethodSignedStep ==
  ASSUME Recursion, Lexed, NEW c \in Positions, c <= Len(toks), LaterStmts(c),
         NEW m, Tree(m.ast), NEW ident \in Positions, ident > c, ident <= Len(toks),
         NEW s, s.at \in Positions, s.at > ident, Tree(s.ast)
  PROVE  Sound(MethodSigned(c, m, ident, s), c)
<1> DEFINE colon == IF At(s.at - 1) = ":" THEN s.at - 1 ELSE s.at
           kids == <<m.ast, Leaf(ident), s.ast>>
           d == ParseMethodDef(After(colon))
           r == MethodSigned(c, m, ident, s)
<1>1. \/ r = Declared("MethodDeclaration", c, kids, Closed(d))
      \/ r = Undefined("MethodDeclaration", c, kids, After(colon))
      \/ r = Fail
  <2>1. CASE At(colon) = ":"
    BY <2>1 DEF MethodSigned
  <2>2. CASE At(colon) = ";"
    BY <2>2 DEF MethodSigned
  <2>3. CASE At(colon) # ":" /\ At(colon) # ";"
    BY <2>3 DEF MethodSigned
  <2>4. QED
    BY <2>1, <2>2, <2>3
<1>2. colon = s.at - 1 \/ colon = s.at
  OBVIOUS
<1> HIDE DEF colon
<1>3. colon \in Positions /\ colon > c /\ colon >= c /\ c \in Nat
  BY <1>2 DEF Positions, Lexed
<1>4. After(colon) \in Positions /\ After(colon) > c /\ After(colon) >= c
  BY <1>3, Onward
<1>5. Trees(kids)
  BY LeafTree, FewTrees
<1> HIDE DEF kids
<1>6. Sound(d, After(colon))
  BY <1>4, DefinitionSteps
<1> HIDE DEF d
<1>7. Sound(Declared("MethodDeclaration", c, kids, Closed(d)), c)
  BY <1>4, <1>5, <1>6, ClosedStep, DeclareLater, DeclarationTypes
<1>8. Sound(Undefined("MethodDeclaration", c, kids, After(colon)), c)
  BY <1>4, <1>5, UndefinedStep, DeclarationTypes
<1> HIDE DEF r
<1>9. Sound(r, c)
  BY <1>1, <1>7, <1>8, NotOk, Results
<1>10. QED
  BY <1>9 DEF r

LEMMA MethodDeclStep ==
  ASSUME Recursion, Lexed, NEW c \in Positions, c <= Len(toks), LaterStmts(c)
  PROVE  Sound(ParseMethodDecl(c), c)
<1> DEFINE m == ParseOptionalModifiers(c)
           ident == Advance(m.at, 2)
           sig == IF At(After(ident)) \in {":", ";"}
                  THEN Ok(After(ident), Node("MethodSignature", After(ident), After(ident), <<>>))
                  ELSE ParseMethodSignature(After(ident))
<1>1. ParseMethodDecl(c) =
        IF At(After(m.at)) = "@" /\ At(ident) = "Ident"
        THEN IF sig.res = "ok" THEN MethodSigned(c, m, ident, sig) ELSE sig
        ELSE Fail
  BY DEF ParseMethodDecl, Then
<1>2. m.at \in Positions /\ m.at >= c /\ Tree(m.ast)
  BY ModifiersStep
<1> HIDE DEF m
<1>3. ident \in Positions /\ ident > c
  BY <1>2, Inside
<1> HIDE DEF ident
<1>4. CASE At(ident) = "Ident" /\ sig.res = "ok"
  <2>1. ident \in Nat /\ ident <= Len(toks) /\ After(ident) = ident + 1 /\ After(ident) \in Positions
    <3>1. At(ident) # "Eofile"
      BY <1>4
    <3>2. ident \in 1 .. Len(toks) /\ After(ident) = ident + 1 /\ After(ident) \in Positions
      BY <1>3, <3>1, TokenAt
    <3>3. QED
      BY <3>2 DEF Lexed
  <2>2. After(ident) \in Nat /\ After(ident) >= After(ident)
    BY <2>1
  <2>3. Weak(sig, After(ident))
    <3>1. Tree(Node("MethodSignature", After(ident), After(ident), <<>>))
      BY <2>2, DeclarationTypes, NoTrees, PlainNode
    <3>2. Weak(Ok(After(ident), Node("MethodSignature", After(ident), After(ident), <<>>)), After(ident))
      BY <2>1, <2>2, <3>1, WeakOk
    <3>3. QED
      BY <2>1, <3>2, MethodSignatureStep
  <2> HIDE DEF sig
  <2>4. sig.at \in Positions /\ sig.at > ident /\ Tree(sig.ast)
    BY <1>4, <2>1, <2>3, PositionsAreNumbers DEF Weak
  <2>5. Sound(MethodSigned(c, m, ident, sig), c)
    BY <1>2, <1>3, <2>1, <2>4, MethodSignedStep
  <2>6. QED
    BY <1>1, <1>4, <2>5, NotOk, Results
<1>5. CASE ~(At(ident) = "Ident" /\ sig.res = "ok")
  <2> HIDE DEF sig
  <2>1. QED
    BY <1>1, <1>5, NotOk, Results
<1>6. QED
  BY <1>4, <1>5

LEMMA ClassDeclStep ==
  ASSUME Recursion, Lexed, NEW c \in Positions, c <= Len(toks), LaterStmts(c)
  PROVE  Sound(ParseClassDecl(c), c)
<1> DEFINE m == ParseOptionalModifiers(c)
           ident == Advance(m.at, 2)
           kids == <<m.ast, Leaf(ident)>>
           d == ParseClassDef(Advance(ident, 2))
           r == ParseClassDecl(c)
<1>1. \/ r = Fail
      \/ r = Declared("ClassDeclaration", c, kids, d)
      \/ r = Undefined("ClassDeclaration", c, kids, Advance(ident, 2))
  <2>1. CASE At(After(m.at)) # "@" \/ At(ident) # "Ident"
    BY <2>1 DEF ParseClassDecl
  <2>2. CASE At(After(m.at)) = "@" /\ At(ident) = "Ident" /\ At(After(ident)) = ":"
    BY <2>2 DEF ParseClassDecl
  <2>3. CASE At(After(m.at)) = "@" /\ At(ident) = "Ident" /\ At(After(ident)) = ";"
    BY <2>3 DEF ParseClassDecl
  <2>4. CASE /\ At(After(m.at)) = "@" /\ At(ident) = "Ident"
             /\ At(After(ident)) # ":" /\ At(After(ident)) # ";"
    BY <2>4 DEF ParseClassDecl
  <2>5. QED
    BY <2>1, <2>2, <2>3, <2>4
<1>2. m.at \in Positions /\ m.at >= c /\ Tree(m.ast)
  BY ModifiersStep
<1> HIDE DEF m
<1>3. ident \in Positions /\ ident > c
  BY <1>2, Inside
<1> HIDE DEF ident
<1>4. Advance(ident, 2) \in Positions /\ Advance(ident, 2) > c /\ Advance(ident, 2) >= c
  <2>1. ident >= c
    BY <1>3, PositionsAreNumbers
  <2>2. Advance(ident, 2) \in Positions /\ Advance(ident, 2) > c
    BY <1>3, <2>1, Inside
  <2>3. QED
    BY <2>2, PositionsAreNumbers
<1>5. Trees(kids)
  BY <1>2, <1>3, LeafTree, FewTrees
<1> HIDE DEF kids
<1>6. Sound(d, Advance(ident, 2))
  BY <1>4, DefinitionSteps
<1> HIDE DEF d, r
<1>7. Sound(Declared("ClassDeclaration", c, kids, d), c)
  BY <1>4, <1>5, <1>6, DeclareLater, DeclarationTypes
<1>8. Sound(Undefined("ClassDeclaration", c, kids, Advance(ident, 2)), c)
  BY <1>4, <1>5, UndefinedStep, DeclarationTypes
<1>9. Sound(r, c)
  BY <1>1, <1>7, <1>8, NotOk, Results
<1>10. QED
  BY <1>9 DEF r

LEMMA NamedBlockStep ==
  ASSUME Recursion, Lexed, NEW c \in Positions, c <= Len(toks), NEW m, Tree(m.ast),
         NEW ident \in Positions, ident >= c, NEW type \in PlainTypes,
         NEW x \in Positions, x >= c, NEW d, Sound(d, x)
  PROVE  /\ Sound(Declared(type, c, <<m.ast>>, d), c)
         /\ Sound(Declared(type, c, <<m.ast, Leaf(ident)>>, d), c)
         /\ Sound(Undefined(type, c, <<m.ast, Leaf(ident)>>, Advance(ident, 2)), c)
<1>1. Trees(<<m.ast>>) /\ Trees(<<m.ast, Leaf(ident)>>)
  BY LeafTree, FewTrees
<1>2. Advance(ident, 2) \in Positions /\ Advance(ident, 2) > c
  BY Onward
<1>3. Sound(Declared(type, c, <<m.ast>>, d), c)
  BY <1>1, DeclareLater
<1>4. Sound(Declared(type, c, <<m.ast, Leaf(ident)>>, d), c)
  BY <1>1, DeclareLater
<1>5. QED
  BY <1>1, <1>2, <1>3, <1>4, UndefinedStep

LEMMA LibDeclStep ==
  ASSUME Recursion, Lexed, NEW c \in Positions, c <= Len(toks), LaterStmts(c)
  PROVE  Sound(ParseLibDecl(c), c)
<1> DEFINE m == ParseOptionalModifiers(c)
           ident == Advance(m.at, 2)
           type == "LibraryDeclaration"
           r == ParseLibDecl(c)
<1>1. \/ r = Declared(type, c, <<m.ast>>, ParseLibDef(ident))
      \/ r = Undefined(type, c, <<m.ast, Leaf(ident)>>, Advance(ident, 2))
      \/ r = Declared(type, c, <<m.ast, Leaf(ident)>>, ParseLibDef(Advance(ident, 2)))
  BY DEF ParseLibDecl, NamedBlock
<1>2. m.at \in Positions /\ m.at >= c /\ Tree(m.ast)
  BY ModifiersStep
<1> HIDE DEF m
<1>3. ident \in Positions /\ ident > c /\ ident >= c
  BY <1>2, Onward
<1> HIDE DEF ident
<1>4. Advance(ident, 2) \in Positions /\ Advance(ident, 2) >= c
  BY <1>3, Onward
<1>5. type \in PlainTypes
  BY DeclarationTypes
<1>6. Sound(ParseLibDef(ident), ident) /\ Sound(ParseLibDef(Advance(ident, 2)), Advance(ident, 2))
  BY <1>3, <1>4, DefinitionSteps
<1> HIDE DEF type, r
<1>7. /\ Sound(Declared(type, c, <<m.ast>>, ParseLibDef(ident)), c)
      /\ Sound(Undefined(type, c, <<m.ast, Leaf(ident)>>, Advance(ident, 2)), c)
  BY <1>2, <1>3, <1>5, <1>6, NamedBlockStep
<1>8. Sound(Declared(type, c, <<m.ast, Leaf(ident)>>, ParseLibDef(Advance(ident, 2))), c)
  BY <1>2, <1>3, <1>4, <1>5, <1>6, NamedBlockStep
<1>9. Sound(r, c)
  BY <1>1, <1>7, <1>8
<1>10. QED
  BY <1>9 DEF r

LEMMA ProcDefStep ==
  ASSUME Recursion, Lexed, NEW c \in Positions, LaterStmts(c), NEW x \in Positions, x > c
  PROVE  Sound(ParseProcDef(x), x)
<1> DEFINE s == Statement(PragmaticDesc, x)
           r == ParseProcDef(x)
<1>1. r = IF At(x) = "{" THEN ProcBlock(After(x))
          ELSE IF s.res = "ok" THEN Ok(s.at, Bare("ProcessDefinition", <<s.ast>>)) ELSE s
  BY DEF ParseProcDef, Then
<1>2. PragmaticDesc \in Kinds
  BY DEF Kinds
<1>3. Sound(s, x)
  BY <1>2 DEF LaterStmts, StmtSound
<1>4. At(x) = "{" => After(x) = x + 1 /\ After(x) \in Positions
  BY TokenAt
<1>5. x \in Nat /\ c \in Nat
  BY PositionsAreNumbers
<1>6. At(x) = "{" => After(x) > x /\ After(x) > c /\ After(x) >= x
  <2>1. x + 1 > x /\ x + 1 > c /\ x + 1 >= x
    BY <1>5
  <2>2. QED
    BY <1>4, <2>1, Zenon
<1>7. At(x) = "{" => Sound(ProcBlock(After(x)), After(x))
  BY <1>4, <1>6 DEF LaterStmts, StmtSound
<1>8. At(x) = "{" => Sound(ProcBlock(After(x)), x)
  BY <1>4, <1>6, <1>7, SoundFrom
<1> HIDE DEF s, r
<1>9. ASSUME s.res = "ok" PROVE Sound(Ok(s.at, Bare("ProcessDefinition", <<s.ast>>)), x)
  <2>1. s.at \in Positions /\ s.at > x /\ Tree(s.ast)
    BY <1>3, <1>9 DEF Sound
  <2>2. Tree(Bare("ProcessDefinition", <<s.ast>>))
    BY <2>1, DeclarationTypes, FewTrees, PlainNode
  <2>3. QED
    BY <2>1, <2>2, SoundOk
<1>10. Sound(r, x)
  BY <1>1, <1>8, <1>9, NotOk
<1>11. QED
  BY <1>10 DEF r

LEMMA ProcDeclStep ==
  ASSUME Recursion, Lexed, NEW c \in Positions, c <= Len(toks), LaterStmts(c)
  PROVE  Sound(ParseProcDecl(c), c)
<1> DEFINE m == ParseOptionalModifiers(c)
           ident == Advance(m.at, 2)
           type == "ProcessDeclaration"
           r == ParseProcDecl(c)
<1>1. \/ r = Declared(type, c, <<m.ast>>, ParseProcDef(ident))
      \/ r = Undefined(type, c, <<m.ast, Leaf(ident)>>, Advance(ident, 2))
      \/ r = Declared(type, c, <<m.ast, Leaf(ident)>>, ParseProcDef(Advance(ident, 2)))
  BY DEF ParseProcDecl, NamedBlock
<1>2. m.at \in Positions /\ m.at >= c /\ Tree(m.ast)
  BY ModifiersStep
<1> HIDE DEF m
<1>3. ident \in Positions /\ ident > c /\ ident >= c
  BY <1>2, Onward
<1> HIDE DEF ident
<1>4. Advance(ident, 2) \in Positions /\ Advance(ident, 2) >= c /\ Advance(ident, 2) > c
  BY <1>3, Onward
<1>5. type \in PlainTypes
  BY DeclarationTypes
<1>6. Sound(ParseProcDef(ident), ident) /\ Sound(ParseProcDef(Advance(ident, 2)), Advance(ident, 2))
  BY <1>3, <1>4, ProcDefStep
<1> HIDE DEF type, r
<1>7. /\ Sound(Declared(type, c, <<m.ast>>, ParseProcDef(ident)), c)
      /\ Sound(Undefined(type, c, <<m.ast, Leaf(ident)>>, Advance(ident, 2)), c)
  BY <1>2, <1>3, <1>5, <1>6, NamedBlockStep
<1>8. Sound(Declared(type, c, <<m.ast, Leaf(ident)>>, ParseProcDef(Advance(ident, 2))), c)
  BY <1>2, <1>3, <1>4, <1>5, <1>6, NamedBlockStep
<1>9. Sound(r, c)
  BY <1>1, <1>7, <1>8
<1>10. QED
  BY <1>9 DEF r

LEMMA ImportDeclStep ==
  ASSUME Lexed, NEW c \in Positions, c <= Len(toks)
  PROVE  Sound(ParseImportDecl(c), c)
<1> DEFINE kids == <<Leaf(After(c))>>
<1>1. c >= c
  BY PositionsAreNumbers
<1>2. After(c) \in Positions /\ Advance(c, 3) \in Positions /\ Advance(c, 3) > c
  BY <1>1, Onward
<1>3. Trees(kids)
  BY <1>2, LeafTree, FewTrees
<1>4. ParseImportDecl(c) = Fail \/ ParseImportDecl(c) = Undefined("ImportDeclaration", c, kids, Advance(c, 3))
  BY DEF ParseImportDecl
<1> HIDE DEF kids
<1>5. QED
  BY <1>2, <1>3, <1>4, DeclarationTypes, UndefinedStep, NotOk, Results

LEMMA MainDeclStep ==
  ASSUME Recursion, Lexed, NEW c \in Positions, c <= Len(toks), LaterStmts(c)
  PROVE  Sound(ParseMainDecl(c), c)
<1> DEFINE sig == IF At(After(c)) = ":" THEN Ok(Advance(c, 2), Bare("MethodSignature", <<>>))
                  ELSE ParseMethodSignature(After(c))
           d == Closed(ParseMainDef(sig.at))
<1>1. ParseMainDecl(c) =
        IF sig.res = "ok" THEN Declared("MainDeclaration", c, <<sig.ast>>, d) ELSE sig
  BY DEF ParseMainDecl, Then
<1>2. c >= c
  BY PositionsAreNumbers
<1>3. After(c) \in Positions /\ After(c) > c /\ Advance(c, 2) \in Positions /\ Advance(c, 2) > c
  BY <1>2, Onward
<1>4. Sound(sig, c)
  <2>1. Tree(Bare("MethodSignature", <<>>))
    BY DeclarationTypes, NoTrees, PlainNode
  <2>2. Sound(Ok(Advance(c, 2), Bare("MethodSignature", <<>>)), c)
    BY <1>3, <2>1, SoundOk
  <2>3. Sound(ParseMethodSignature(After(c)), c)
    BY <1>3, MethodSignatureStep, SoundFrom
  <2>4. QED
    BY <2>2, <2>3
<1> HIDE DEF sig
<1>5. ASSUME sig.res = "ok" PROVE Sound(Declared("MainDeclaration", c, <<sig.ast>>, d), c)
  <2>1. sig.at \in Positions /\ sig.at > c /\ Tree(sig.ast)
    BY <1>4, <1>5 DEF Sound
  <2>2. sig.at >= c
    BY <2>1, PositionsAreNumbers
  <2>3. Sound(d, sig.at)
    BY <2>1, <2>2, DefinitionSteps, ClosedStep
  <2> HIDE DEF d
  <2>4. Trees(<<sig.ast>>)
    BY <2>1, FewTrees
  <2>5. QED
    BY <2>1, <2>2, <2>3, <2>4, DeclarationTypes, DeclareLater
<1>6. QED
  BY <1>1, <1>5, NotOk

LEMMA UsingDeclStep ==
  ASSUME Recursion, Lexed, NEW c \in Positions, c <= Len(toks)
  PROVE  Sound(ParseUsingDecl(c), c)
<1> DEFINE of(type, kids, at) == Declared(type, c, kids, ParsePrimaryStatement(at))
           alias == <<Leaf(Advance(c, 2))>>
           r == ParseUsingDecl(c)
<1>1. \/ r = of("LibraryTypeAlias", alias, Advance(c, 5))
      \/ r = of("TypeAlias", alias, Advance(c, 4))
      \/ r = of("LibraryNamespaceInclusion", <<>>, Advance(c, 2))
      \/ r = of("NamespaceInclusion", <<>>, Advance(c, 2))
      \/ r = of("NamespaceObjectInclusion", <<>>, After(c))
  <2>1. CASE At(After(c)) = "@"
    BY <2>1 DEF ParseUsingDecl
  <2>2. CASE At(After(c)) = "lib"
    BY <2>2 DEF ParseUsingDecl
  <2>3. CASE At(After(c)) = "namespace"
    BY <2>3 DEF ParseUsingDecl
  <2>4. CASE At(After(c)) # "@" /\ At(After(c)) # "lib" /\ At(After(c)) # "namespace"
    BY <2>4 DEF ParseUsingDecl
  <2>5. QED
    BY <2>1, <2>2, <2>3, <2>4
<1>2. c >= c
  BY PositionsAreNumbers
<1>3. After(c) \in Positions /\ After(c) >= c
      /\ \A n \in Nat \ {0} : Advance(c, n) \in Positions /\ Advance(c, n) >= c
  BY <1>2, Onward
<1>4. Trees(alias) /\ Trees(<<>>)
  <2>1. Advance(c, 2) \in Positions
    BY <1>3
  <2>2. QED
    BY <2>1, LeafTree, FewTrees, NoTrees
<1>5. /\ "LibraryTypeAlias" \in PlainTypes /\ "TypeAlias" \in PlainTypes
      /\ "LibraryNamespaceInclusion" \in PlainTypes /\ "NamespaceInclusion" \in PlainTypes
      /\ "NamespaceObjectInclusion" \in PlainTypes
  BY DEF PlainTypes
<1>6. ASSUME NEW type \in PlainTypes, NEW kids, Trees(kids), NEW x \in Positions, x >= c
      PROVE  Sound(of(type, kids, x), c)
  <2>1. Sound(ParsePrimaryStatement(x), x)
    BY PrimaryStatementStep
  <2>2. QED
    BY <1>6, <2>1, DeclareLater
<1>7. /\ Advance(c, 5) \in Positions /\ Advance(c, 5) >= c /\ Advance(c, 4) \in Positions
      /\ Advance(c, 4) >= c /\ Advance(c, 2) \in Positions /\ Advance(c, 2) >= c
  BY <1>3
<1> HIDE DEF of, alias, r
<1>8. Sound(r, c)
  BY <1>1, <1>3, <1>4, <1>5, <1>6, <1>7
<1>9. QED
  BY <1>8 DEF r

LEMMA BranchStep ==
  ASSUME Recursion, Lexed, NEW c \in Positions, LaterStmts(c), At(c) \in {"if", "elif", "else"}
  PROVE  Sound(Branch(c), c)
<1>1. c <= Len(toks)
  BY DEF Lexed, Positions, At
<1>2. c \in Nat /\ c >= c
  BY PositionsAreNumbers
<1>3. At(c) \in PlainTypes
  BY DEF PlainTypes
<1>4. After(c) \in Positions /\ After(c) > c /\ After(c) >= c
  BY <1>1, <1>2, Onward
<1>5. ASSUME NEW kids, Trees(kids), NEW x \in Positions, x >= c PROVE Sound(Block(c, kids, x), c)
  <2>1. Sound(ParseMethodDef(x), x)
    BY <1>5, DefinitionSteps
  <2>2. QED
    BY <1>3, <1>5, <2>1, DeclareLater DEF Block
<1> DEFINE b == ParseConditionalSubExpression(After(c))
           r == Branch(c)
<1>6. \/ r = Block(c, <<>>, After(c))
      \/ r = IF b.res = "ok" THEN Block(c, <<b.ast>>, b.at) ELSE b
  BY DEF Branch, Then
<1>7. Sound(b, After(c))
  BY <1>4, ConditionStep
<1> HIDE DEF b, r
<1>8. b.res = "ok" => Sound(Block(c, <<b.ast>>, b.at), c)
  <2> SUFFICES ASSUME b.res = "ok" PROVE Sound(Block(c, <<b.ast>>, b.at), c)
    OBVIOUS
  <2>1. b.at \in Positions /\ b.at > After(c) /\ Tree(b.ast)
    BY <1>7 DEF Sound
  <2>2. After(c) \in Nat /\ b.at \in Nat
    BY <1>4, <2>1, PositionsAreNumbers
  <2>3. b.at >= c
    BY <1>2, <1>4, <2>1, <2>2
  <2>4. Trees(<<b.ast>>)
    BY <2>1, FewTrees
  <2>5. QED
    BY <1>5, <2>1, <2>3, <2>4
<1>9. Sound(Block(c, <<>>, After(c)), c)
  BY <1>4, <1>5, NoTrees
<1>10. Sound(r, c)
  BY <1>6, <1>8, <1>9, NotOk
<1>11. QED
  BY <1>10 DEF r

LEMMA IfDeclStep ==
  ASSUME Recursion, Lexed, NEW c \in Positions, LaterStmts(c), At(c) \in {"if", "elif", "else"}
  PROVE  Sound(ParseIfDecl(c), c)
<1> DEFINE b == Branch(c)
           start == Ok(c, Bare("IfStatement", <<>>))
           first == ExtractAndAdvance(start, b)
           branches == ParseIfBranches(first, {"elif", "else"})
           r == ParseIfDecl(c)
<1>1. r = IF b.res = "ok"
          THEN IF At(first.at) = ";" THEN Ok(After(first.at), first.ast) ELSE branches
          ELSE b
  BY DEF ParseIfDecl, FirstBranch, Then
<1>2. Sound(b, c)
  BY BranchStep
<1>3. Plain(start.ast)
  <2>1. "IfStatement" \in PlainTypes /\ 0 \in Nat
    BY DEF PlainTypes
  <2>2. Plain(Bare("IfStatement", <<>>))
    BY <2>1, NoTrees, PlainNode
  <2>3. QED
    BY <2>2, Results
<1> HIDE DEF b, start, r
<1>4. ASSUME b.res = "ok"
      PROVE  Sound(Ok(After(first.at), first.ast), c) /\ Sound(branches, c)
  <2>1. b.at \in Positions /\ b.at > c /\ Tree(b.ast)
    BY <1>2, <1>4 DEF Sound
  <2>2. first.res = "ok" /\ first.at = b.at /\ Plain(first.ast)
    BY <1>3, <2>1, Extract
  <2> HIDE DEF first
  <2>3. Acc(first, b.at)
    BY <2>2 DEF Acc
  <2>4. Weak(branches, b.at)
    <3>1. {"elif", "else"} \in SUBSET {"elif", "else"}
      OBVIOUS
    <3>2. StmtSound(b.at)
      BY <2>1 DEF LaterStmts
    <3>3. QED
      BY <2>3, <3>1, <3>2 DEF StmtSound
  <2> HIDE DEF branches
  <2>5. After(b.at) \in Positions /\ After(b.at) > c
    <3>1. After(b.at) \in Positions /\ After(b.at) >= b.at /\ b.at >= b.at
      BY <2>1, Beyond, PositionsAreNumbers
    <3>2. After(b.at) \in Nat /\ b.at \in Nat /\ c \in Nat
      BY <2>1, <3>1, PositionsAreNumbers
    <3>3. QED
      BY <2>1, <3>1, <3>2
  <2>6. Sound(Ok(After(first.at), first.ast), c)
    BY <2>2, <2>5, SoundOk DEF Plain
  <2>7. QED
    BY <2>1, <2>4, <2>6, SoundFrom
<1> HIDE DEF first, branches
<1>5. Sound(r, c)
  BY <1>1, <1>4, NotOk
<1>6. QED
  BY <1>5 DEF r

LEMMA WhileDeclStep ==
  ASSUME Recursion, Lexed, NEW c \in Positions, c <= Len(toks), LaterStmts(c)
  PROVE  Sound(ParseWhileDecl(c), c)
<1> DEFINE e == ParseConditionalSubExpression(After(c))
           d == Closed(ParseMethodDef(e.at))
           r == ParseWhileDecl(c)
<1>1. r = IF e.res = "ok" THEN Declared("while", c, <<e.ast>>, d) ELSE e
  BY DEF ParseWhileDecl, Then
<1>2. c \in Nat /\ c >= c
  BY PositionsAreNumbers
<1>3. After(c) \in Positions /\ After(c) > c /\ After(c) \in Nat
  BY <1>2, Onward
<1>4. Sound(e, After(c))
  BY <1>3, ConditionStep
<1> HIDE DEF e, r
<1>5. ASSUME e.res = "ok" PROVE Sound(Declared("while", c, <<e.ast>>, d), c)
  <2>1. e.at \in Positions /\ e.at > After(c) /\ Tree(e.ast)
    BY <1>4, <1>5 DEF Sound
  <2>2. e.at \in Nat
    BY <2>1, PositionsAreNumbers
  <2>3. e.at >= c
    BY <1>2, <1>3, <2>1, <2>2
  <2>4. Sound(d, e.at)
    BY <2>1, <2>3, DefinitionSteps, ClosedStep
  <2> HIDE DEF d
  <2>5. Trees(<<e.ast>>) /\ "while" \in PlainTypes
    BY <2>1, FewTrees DEF PlainTypes
  <2>6. QED
    BY <2>1, <2>3, <2>4, <2>5, DeclareLater
<1>6. Sound(r, c)
  BY <1>1, <1>5, NotOk
<1>7. QED
  BY <1>6 DEF r

\* What collects children from c on.
Gathers(a, c) == a.res = "ok" => a.at \in Positions /\ a.at >= c /\ Plain(a.ast)

LEMMA GathersIsWeak == ASSUME NEW c, NEW a, Gathers(a, c) PROVE Weak(a, c)
BY DEF Gathers, Weak, Plain

LEMMA AlsoStep ==
  ASSUME Lexed, NEW c \in Positions, NEW a, a.res = "ok", Gathers(a, c),
         NEW x \in Positions, x >= c, NEW r, Weak(r, x)
  PROVE  Gathers(Also(a, r), c)
<1> DEFINE g == Also(a, r)
<1>1. g = IF r.res = "ok" THEN ExtractAndAdvance(a, r) ELSE r
  BY DEF Also, Then
<1> HIDE DEF g
<1>2. ASSUME r.res = "ok" PROVE Gathers(ExtractAndAdvance(a, r), c)
  <2>1. r.at \in Positions /\ r.at >= x /\ Tree(r.ast)
    BY <1>2 DEF Weak
  <2>2. r.at \in Nat /\ x \in Nat /\ c \in Nat
    BY <2>1, PositionsAreNumbers
  <2>3. r.at >= c
    BY <2>1, <2>2
  <2>4. Plain(a.ast)
    BY DEF Gathers
  <2>5. QED
    BY <2>1, <2>3, <2>4, Extract DEF Gathers
<1>3. Gathers(g, c)
  BY <1>1, <1>2 DEF Gathers
<1>4. QED
  BY <1>3 DEF g

LEMMA ForPartsStep ==
  ASSUME Recursion, Lexed, NEW c \in Positions, c <= Len(toks), LaterStmts(c),
         NEW x \in Positions, x >= c, NEW a, a.res = "ok", Gathers(a, x)
  PROVE  Gathers(ForInit(a), x) /\ Gathers(ForCondition(a), x) /\ Gathers(ForIncrement(a), x)
         /\ Gathers(ForBody(a), x)
<1>1. a.at \in Positions /\ a.at >= x /\ Plain(a.ast)
  BY DEF Gathers
<1>2. a.at \in Nat /\ x \in Nat /\ c \in Nat
  BY <1>1, PositionsAreNumbers
<1>3. a.at >= c
  BY <1>1, <1>2
<1>4. After(a.at) \in Positions /\ After(a.at) >= c
  BY <1>1, <1>3, Onward
<1>5. After(a.at) >= x
  BY <1>1, Beyond
<1>6. ASSUME NEW k \in Positions, k >= x PROVE Gathers(Also(a, ParsePrimaryExpr(k)), x)
  <2>1. Expr(ParsePrimaryExpr(k), k, 1)
    BY PrimaryExprStep
  <2>2. Weak(ParsePrimaryExpr(k), k)
    BY <2>1, PositionsAreNumbers DEF Expr, Weak, Covers
  <2>3. QED
    BY <1>6, <2>2, AlsoStep
<1>7. Gathers(ForInit(a), x)
  <2>1. CASE At(a.at) = "def"
    <3>1. a.at \in 1 .. Len(toks)
      BY <1>1, <2>1, TokenAt
    <3>2. Sound(ParseVariableDecl(a.at), a.at)
      BY <1>1, <3>1, VariableDeclStep
    <3>3. Weak(ParseVariableDecl(a.at), a.at)
      BY <1>1, <1>2, <3>2, SoundFrom
    <3>4. QED
      BY <1>1, <2>1, <3>3, AlsoStep DEF ForInit
  <2>2. QED
    BY <2>1 DEF ForInit
<1>8. Gathers(ForCondition(a), x)
  BY <1>1, <1>6 DEF ForCondition
<1>9. Gathers(ForIncrement(a), x)
  BY <1>4, <1>5, <1>6 DEF ForIncrement
<1>10. Gathers(ForBody(a), x)
  <2>1. Sound(ParseMethodDef(After(a.at)), After(a.at))
    BY <1>4, DefinitionSteps
  <2>2. Weak(ParseMethodDef(After(a.at)), After(a.at))
    BY <1>4, <2>1, SoundFrom, PositionsAreNumbers
  <2>3. Gathers(Also(a, ParseMethodDef(After(a.at))), x)
    BY <1>4, <1>5, <2>2, AlsoStep
  <2>4. QED
    BY <2>3, Results DEF ForBody, Expect, Gathers
<1>11. QED
  BY <1>7, <1>8, <1>9, <1>10

LEMMA NodeOver ==
  ASSUME NEW e, e = Node(e.type, e.from, e.to, e.kids), NEW p, NEW q
  PROVE  [e EXCEPT !.from = p, !.to = q] = Node(e.type, p, q, e.kids)
<1> DEFINE f == [e EXCEPT !.from = p, !.to = q]
           g == Node(e.type, p, q, e.kids)
           fields == {"type", "from", "to", "kids"}
<1>1. DOMAIN e = fields
  BY DEF Node
<1>2. DOMAIN f = fields /\ f = [x \in fields |-> f[x]]
  BY <1>1
<1>3. DOMAIN g = fields /\ g = [x \in fields |-> g[x]]
  BY DEF Node
<1>4. f["type"] = e.type /\ f["from"] = p /\ f["to"] = q /\ f["kids"] = e.kids
  BY <1>1
<1>5. g["type"] = e.type /\ g["from"] = p /\ g["to"] = q /\ g["kids"] = e.kids
  BY DEF Node
<1> HIDE DEF f, g
<1>6. f = g
  BY <1>2, <1>3, <1>4, <1>5
<1>7. QED
  BY <1>6 DEF f, g

LEMMA ForDeclStep ==
  ASSUME Recursion, Lexed, NEW c \in Positions, c <= Len(toks), LaterStmts(c)
  PROVE  Sound(ParseForDecl(c), c)
<1> DEFINE x == Advance(c, 2)
           a == Ok(x, Bare("NONE", <<>>))
           i == ForInit(a)
           head == IF i.res = "ok" THEN ForCondition(i) ELSE i
           inc == IF head.res = "ok" THEN ForIncrement(head) ELSE head
           b == IF inc.res = "ok" THEN ForBody(inc) ELSE inc
           n == [b.ast EXCEPT !.from = c, !.to = b.at]
           r == ParseForDecl(c)
<1>1. r = Fail \/ r = IF b.res = "ok" THEN Ok(b.at, n) ELSE b
  BY DEF ParseForDecl, Expect, Then
<1>2. c \in Nat /\ c >= c
  BY PositionsAreNumbers
<1>3. x \in Positions /\ x > c /\ x >= c /\ x \in Nat
  BY <1>2, Onward
<1> HIDE DEF x
<1>4. a.res = "ok" /\ Gathers(a, x)
  <2>1. "NONE" \in PlainTypes /\ 0 \in Nat
    BY DEF PlainTypes
  <2>2. Plain(Bare("NONE", <<>>))
    BY <2>1, NoTrees, PlainNode
  <2>3. QED
    BY <1>3, <2>2, Results DEF Gathers
<1> HIDE DEF a
<1>5. Gathers(i, x)
  BY <1>3, <1>4, ForPartsStep
<1> HIDE DEF i
<1>6. Gathers(head, x)
  BY <1>3, <1>5, ForPartsStep
<1> HIDE DEF head
<1>7. Gathers(inc, x)
  BY <1>3, <1>6, ForPartsStep
<1> HIDE DEF inc
<1>8. Gathers(b, x)
  BY <1>3, <1>7, ForPartsStep
<1> HIDE DEF b
<1>9. ASSUME b.res = "ok" PROVE Sound(Ok(b.at, n), c)
  <2>1. b.at \in Positions /\ b.at >= x /\ Plain(b.ast)
    BY <1>8, <1>9 DEF Gathers
  <2>2. b.at \in Nat /\ b.at > c
    <3>1. b.at \in Nat
      BY <2>1, PositionsAreNumbers
    <3>2. QED
      BY <1>2, <1>3, <2>1, <3>1
  <2> DEFINE k == b.ast
  <2>3. k = Node(k.type, k.from, k.to, k.kids) /\ Trees(k.kids) /\ k.type \in PlainTypes
    BY <2>1, TreeFits DEF Fits, Plain
  <2>4. n = Node(k.type, c, b.at, k.kids)
    <3>1. b.ast = Node(b.ast.type, b.ast.from, b.ast.to, b.ast.kids)
      BY <2>3
    <3>2. [b.ast EXCEPT !.from = c, !.to = b.at] = Node(b.ast.type, c, b.at, b.ast.kids)
      BY <3>1, NodeOver, Zenon
    <3>3. QED
      BY <3>2, Zenon
  <2> HIDE DEF k, n
  <2>5. Tree(n)
    BY <1>2, <2>2, <2>3, <2>4, PlainNode
  <2>6. QED
    BY <2>1, <2>2, <2>5, SoundOk
<1> HIDE DEF n, r
<1>10. Sound(r, c)
  BY <1>1, <1>9, NotOk, Results
<1>11. QED
  BY <1>10 DEF r

LEMMA EnumDefStep ==
  ASSUME Recursion, Lexed, NEW c \in Positions, LaterStmts(c), NEW x \in Positions, x > c
  PROVE  Weak(ParseEnumDef(x), x)
<1> DEFINE h == EnumHeader(x)
           start == Ok(After(h.at), Bare("EnumBlock", <<>>))
           b == EnumEntries(start)
           r == ParseEnumDef(x)
<1>1. r = IF h.res = "ok" THEN IF b.res = "ok" THEN ExtractAndAdvance(h, b) ELSE b ELSE h
  BY DEF ParseEnumDef, ParseEnumBlock, Then
<1>2. Weak(h, x) /\ (h.res = "ok" => Plain(h.ast))
  BY DEF LaterStmts, StmtSound
<1> HIDE DEF h, r
<1>3. ASSUME h.res = "ok", b.res = "ok" PROVE Weak(ExtractAndAdvance(h, b), x)
  <2>1. h.at \in Positions /\ h.at >= x /\ Plain(h.ast)
    BY <1>2, <1>3 DEF Weak
  <2>2. h.at \in Nat /\ x \in Nat /\ c \in Nat
    BY <2>1, PositionsAreNumbers
  <2>3. After(h.at) \in Positions /\ After(h.at) >= h.at
    BY <2>1, <2>2, Beyond
  <2>4. After(h.at) \in Nat
    BY <2>3, PositionsAreNumbers
  <2>5. After(h.at) > c /\ After(h.at) >= x
    BY <2>1, <2>2, <2>3, <2>4
  <2>6. Acc(start, After(h.at))
    <3>1. "EnumBlock" \in PlainTypes /\ 0 \in Nat
      BY DEF PlainTypes
    <3>2. QED
      BY <2>3, <3>1, AccOk
  <2> HIDE DEF start
  <2>7. Weak(b, After(h.at))
    BY <2>3, <2>5, <2>6 DEF LaterStmts, StmtSound
  <2> HIDE DEF b
  <2>8. b.at \in Positions /\ b.at >= After(h.at) /\ Tree(b.ast)
    BY <1>3, <2>7 DEF Weak
  <2>9. b.at \in Nat
    BY <2>8, PositionsAreNumbers
  <2>10. b.at >= x
    BY <2>2, <2>4, <2>5, <2>8, <2>9
  <2>11. QED
    BY <2>1, <2>8, <2>10, Extract DEF Weak, Plain
<1> HIDE DEF b
<1>4. Weak(r, x)
  BY <1>1, <1>2, <1>3, NotOk
<1>5. QED
  BY <1>4 DEF r

LEMMA EnumDeclStep ==
  ASSUME Recursion, Lexed, NEW c \in Positions, c <= Len(toks), LaterStmts(c)
  PROVE  Sound(ParseEnumDecl(c), c)
<1> DEFINE ident == Advance(c, 2)
           kids == <<Node("Modifiers", c, c, <<>>), Leaf(ident)>>
           x == Advance(ident, 2)
           type == "EnumDeclaration"
           r == ParseEnumDecl(c)
<1>1. r = Fail \/ r = Declared(type, c, kids, ParseEnumDef(x)) \/ r = Undefined(type, c, kids, x)
  <2>1. CASE At(After(c)) # "@" \/ At(ident) # "Ident"
    BY <2>1 DEF ParseEnumDecl
  <2>2. CASE At(After(c)) = "@" /\ At(ident) = "Ident" /\ At(After(ident)) = ":"
    BY <2>2 DEF ParseEnumDecl
  <2>3. CASE At(After(c)) = "@" /\ At(ident) = "Ident" /\ At(After(ident)) = ";"
    BY <2>3 DEF ParseEnumDecl
  <2>4. CASE /\ At(After(c)) = "@" /\ At(ident) = "Ident"
             /\ At(After(ident)) # ":" /\ At(After(ident)) # ";"
    BY <2>4 DEF ParseEnumDecl
  <2>5. QED
    BY <2>1, <2>2, <2>3, <2>4
<1>2. c \in Nat /\ c >= c
  BY PositionsAreNumbers
<1>3. ident \in Positions /\ ident >= c
  BY <1>2, Onward
<1> HIDE DEF ident
<1>4. x \in Positions /\ x > c
  BY <1>3, Onward
<1>5. Trees(kids)
  BY <1>2, <1>3, DeclarationTypes, NoTrees, PlainNode, LeafTree, FewTrees
<1> HIDE DEF kids, x
<1>6. Weak(ParseEnumDef(x), x)
  BY <1>4, EnumDefStep
<1>7. Sound(ParseEnumDef(x), c)
  BY <1>4, <1>6, SoundFrom
<1>8. type \in PlainTypes
  BY DeclarationTypes
<1> HIDE DEF type, r
<1>9. Sound(r, c)
  BY <1>1, <1>4, <1>5, <1>7, <1>8, DeclaredStep, UndefinedStep, NotOk, Results
<1>10. QED
  BY <1>9 DEF r

LEMMA DeclarationStep ==
  ASSUME Recursion, Lexed, NEW c \in Positions, c <= Len(toks), LaterStmts(c), NEW word
  PROVE  /\ word = "if" /\ At(c) = "if" => Sound(Declaration(word, c), c)
         /\ word \in {"while", "for", "return", "using", "import", "main", "enum", "def", "fn", "class",
                      "lib", "proc"} => Sound(Declaration(word, c), c)
<1>1. CASE word = "if" /\ At(c) = "if"
  BY <1>1, IfDeclStep DEF Declaration
<1>2. CASE word = "while"
  BY <1>2, WhileDeclStep DEF Declaration
<1>3. CASE word = "for"
  BY <1>3, ForDeclStep DEF Declaration
<1>4. CASE word = "return"
  BY <1>4, ReturnStmtStep DEF Declaration
<1>5. CASE word = "using"
  BY <1>5, UsingDeclStep DEF Declaration
<1>6. CASE word = "import"
  BY <1>6, ImportDeclStep DEF Declaration
<1>7. CASE word = "main"
  BY <1>7, MainDeclStep DEF Declaration
<1>8. CASE word = "enum"
  BY <1>8, EnumDeclStep DEF Declaration
<1>9. CASE word = "def"
  BY <1>9, VariableDeclStep DEF Declaration
<1>10. CASE word = "fn"
  BY <1>10, MethodDeclStep DEF Declaration
<1>11. CASE word = "class"
  BY <1>11, ClassDeclStep DEF Declaration
<1>12. CASE word = "lib"
  BY <1>12, LibDeclStep DEF Declaration
<1>13. CASE word = "proc"
  BY <1>13, ProcDeclStep DEF Declaration
<1>14. QED
  BY <1>1, <1>2, <1>3, <1>4, <1>5, <1>6, <1>7, <1>8, <1>9, <1>10, <1>11, <1>12, <1>13

LEMMA KindsAre ==
  ASSUME NEW kind \in Kinds
  PROVE  /\ "Eofile" \notin kind.first
         /\ kind.direct \subseteq {"if", "while", "for", "return", "using", "import", "main", "enum"}
         /\ kind.modified \subseteq {"def", "fn", "class", "lib", "proc"}
<1>1. "Eofile" \notin Modifier \cup Declarative /\ "Eofile" \notin AnOperand \cup PrefixOperator \cup {"("}
  BY DEF Modifier, Declarative, AnOperand, PrefixOperator
<1>2. "Eofile" \notin DirectiveFirstSet /\ "Eofile" \notin Pragmatic /\ "Eofile" \notin PragmaticFirstSet
  BY <1>1 DEF DirectiveFirstSet, Pragmatic, Primary, PragmaticFirstSet
<1>3. kind = FunctionalStmt \/ kind = PragmaticStmt \/ kind = PragmaticDesc \/ kind = DirectiveDesc
  BY DEF Kinds
<1>4. "Eofile" \notin kind.first
  BY <1>2, <1>3 DEF FunctionalStmt, PragmaticStmt, PragmaticDesc, DirectiveDesc
<1>5. kind.direct \subseteq {"if", "while", "for", "return", "using", "import", "main", "enum"}
  BY <1>3 DEF FunctionalStmt, PragmaticStmt, PragmaticDesc, DirectiveDesc
<1>6. kind.modified \subseteq {"def", "fn", "class", "lib", "proc"}
  BY <1>3 DEF FunctionalStmt, PragmaticStmt, PragmaticDesc, DirectiveDesc
<1>7. QED
  BY <1>4, <1>5, <1>6

LEMMA StatementStep ==
  ASSUME Recursion, Lexed, NEW c \in Positions, LaterStmts(c), NEW kind \in Kinds
  PROVE  Sound(Statement(kind, c), c)
<1> DEFINE word == At(ModifiersEnd(c))
           r == Statement(kind, c)
<1>1. r = StatementRule(kind, c)
  BY DEF Recursion
<1>2. \/ r = Fail
      \/ r = ParsePrimaryStatement(c)
      \/ At(c) \in kind.first /\ At(c) \in kind.direct /\ r = Declaration(At(c), c)
      \/ At(c) \in kind.first /\ word \in kind.modified /\ r = Declaration(word, c)
  BY <1>1 DEF StatementRule
<1>3. Sound(ParsePrimaryStatement(c), c)
  BY PrimaryStatementStep
<1> HIDE DEF r, word
<1>4. ASSUME At(c) \in kind.first PROVE c <= Len(toks)
  <2>1. At(c) # "Eofile"
    BY <1>4, KindsAre
  <2>2. c \in 1 .. Len(toks)
    BY <2>1, TokenAt
  <2>3. QED
    BY <2>2 DEF Lexed
<1>5. ASSUME At(c) \in kind.first, At(c) \in kind.direct PROVE Sound(Declaration(At(c), c), c)
  <2>1. At(c) \in {"if", "while", "for", "return", "using", "import", "main", "enum"}
    BY <1>5, KindsAre
  <2>2. QED
    BY <1>4, <1>5, <2>1, DeclarationStep
<1>6. ASSUME At(c) \in kind.first, word \in kind.modified PROVE Sound(Declaration(word, c), c)
  <2>1. word \in {"def", "fn", "class", "lib", "proc"}
    BY <1>6, KindsAre
  <2>2. QED
    BY <1>4, <1>6, <2>1, DeclarationStep
<1>7. Sound(r, c)
  BY <1>2, <1>3, <1>5, <1>6, NotOk, Results
<1>8. QED
  BY <1>7 DEF r

\* One more child, and the rest of the loop behind it.
LEMMA CollectStep ==
  ASSUME Lexed, NEW p \in Positions, NEW acc, Acc(acc, p), NEW r, Sound(r, p), r.res = "ok"
  PROVE  /\ Acc(ExtractAndAdvance(acc, r), r.at)
         /\ r.at \in Positions /\ r.at > p /\ r.at >= p
<1>1. r.at \in Positions /\ r.at > p /\ Tree(r.ast)
  BY DEF Sound
<1>2. r.at \in Nat /\ p \in Nat
  BY <1>1, PositionsAreNumbers
<1>3. r.at >= p
  BY <1>1, <1>2
<1>4. QED
  BY <1>1, <1>3, Extract DEF Acc

LEMMA AccStep ==
  ASSUME Lexed, NEW p \in Positions, NEW acc, Acc(acc, p)
  PROVE  Weak(acc, p) /\ Weak(Ok(After(acc.at), acc.ast), p)
<1>1. acc.at = p /\ Tree(acc.ast) /\ p >= p /\ After(p) \in Positions /\ After(p) >= p
  BY Beyond, PositionsAreNumbers DEF Acc, Plain
<1>2. QED
  BY <1>1, WeakOk DEF Weak

LEMMA StatementsStep ==
  ASSUME Recursion, Lexed, NEW p \in Positions, LaterStmts(p), NEW acc, Acc(acc, p),
         NEW kind \in Kinds, NEW end \in Nat
  PROVE  Weak(Statements(kind, end, acc), p)
<1> DEFINE s == Statement(kind, p)
           rest == Statements(kind, end, ExtractAndAdvance(acc, s))
           r == Statements(kind, end, acc)
<1>1. acc.at = p
  BY DEF Acc
<1>2. r = StatementsRule(kind, end, acc)
  BY <1>1 DEF Recursion
<1>3. r = Ok(After(acc.at), acc.ast) \/ r = IF s.res = "ok" THEN rest ELSE s
  BY <1>1, <1>2 DEF StatementsRule, Then
<1>4. Sound(s, p)
  BY StatementStep
<1>5. Weak(Ok(After(acc.at), acc.ast), p)
  BY AccStep
<1> HIDE DEF s, r
<1>6. ASSUME s.res = "ok" PROVE Weak(rest, p)
  <2>1. Acc(ExtractAndAdvance(acc, s), s.at) /\ s.at \in Positions /\ s.at > p /\ s.at >= p
    BY <1>4, <1>6, CollectStep
  <2>2. Weak(rest, s.at)
    BY <2>1 DEF LaterStmts, StmtSound
  <2> HIDE DEF rest
  <2>3. QED
    BY <2>1, <2>2, WeakLater
<1> HIDE DEF rest
<1>7. Weak(r, p)
  BY <1>3, <1>5, <1>6, NotOk
<1>8. QED
  BY <1>7 DEF r

LEMMA IfBranchesStep ==
  ASSUME Recursion, Lexed, NEW p \in Positions, LaterStmts(p), NEW acc, Acc(acc, p),
         NEW words \in SUBSET {"elif", "else"}
  PROVE  Weak(ParseIfBranches(acc, words), p)
<1> DEFINE b == Branch(p)
           left == IF At(p) = "else" THEN {} ELSE words
           rest == ParseIfBranches(ExtractAndAdvance(acc, b), left)
           r == ParseIfBranches(acc, words)
<1>1. acc.at = p
  BY DEF Acc
<1>2. r = ParseIfBranchesRule(acc, words)
  BY <1>1 DEF Recursion
<1>3. r = IF At(p) \notin words THEN acc ELSE IF b.res = "ok" THEN rest ELSE b
  BY <1>1, <1>2 DEF ParseIfBranchesRule, Then
<1>4. At(p) \in words => Sound(b, p)
  <2>1. At(p) \in words => At(p) \in {"if", "elif", "else"}
    OBVIOUS
  <2>2. QED
    BY <2>1, BranchStep
<1>5. Weak(acc, p)
  BY AccStep
<1>6. left \in SUBSET {"elif", "else"}
  OBVIOUS
<1> HIDE DEF b, r, left
<1>7. ASSUME At(p) \in words, b.res = "ok" PROVE Weak(rest, p)
  <2>1. Acc(ExtractAndAdvance(acc, b), b.at) /\ b.at \in Positions /\ b.at > p /\ b.at >= p
    BY <1>4, <1>7, CollectStep
  <2>2. Weak(rest, b.at)
    BY <1>6, <2>1 DEF LaterStmts, StmtSound
  <2> HIDE DEF rest
  <2>3. QED
    BY <2>1, <2>2, WeakLater
<1> HIDE DEF rest
<1>8. Weak(r, p)
  BY <1>3, <1>5, <1>7, NotOk
<1>9. QED
  BY <1>8 DEF r

LEMMA ProcBlockStep ==
  ASSUME Recursion, Lexed, NEW p \in Positions, LaterStmts(p)
  PROVE  Sound(ProcBlock(p), p)
<1> DEFINE s == Statement(PragmaticDesc, p)
           r == ProcBlock(p)
<1>1. r = ProcBlockRule(p)
  BY DEF Recursion
<1>2. r = Fail \/ r = IF s.res = "ok" THEN ProcBlock(s.at) ELSE s
  BY <1>1 DEF ProcBlockRule, Expect, Then
<1>3. Sound(s, p)
  BY StatementStep DEF Kinds
<1> HIDE DEF s, r
<1>4. ASSUME s.res = "ok" PROVE Sound(ProcBlock(s.at), p)
  <2>1. s.at \in Positions /\ s.at > p
    BY <1>3, <1>4 DEF Sound
  <2>2. s.at \in Nat /\ p \in Nat
    BY <2>1, PositionsAreNumbers
  <2>3. s.at >= p
    BY <2>1, <2>2
  <2>4. Sound(ProcBlock(s.at), s.at)
    BY <2>1 DEF LaterStmts, StmtSound
  <2>5. QED
    BY <2>1, <2>3, <2>4, SoundFrom
<1>5. Sound(r, p)
  BY <1>2, <1>4, NotOk, Results
<1>6. QED
  BY <1>5 DEF r

LEMMA EnumHeaderStep ==
  ASSUME Recursion, Lexed, NEW p \in Positions, LaterStmts(p)
  PROVE  Weak(EnumHeader(p), p) /\ (EnumHeader(p).res = "ok" => Plain(EnumHeader(p).ast))
<1> DEFINE w == ParsePrimaryPreIdentifier(p)
           x == Advance(w.at, 2)
           start == Ok(p, Bare("EnumDefinition", <<>>))
           r == EnumHeader(p)
<1>1. r = EnumHeaderRule(p)
  BY DEF Recursion
<1>2. r = start \/ r = IF w.res = "ok" THEN EnumHeader(x) ELSE w
  BY <1>1 DEF EnumHeaderRule, Then
<1>3. start.res = "ok" /\ start.at = p /\ Plain(start.ast)
  <2>1. "EnumDefinition" \in PlainTypes /\ 0 \in Nat
    BY DEF PlainTypes
  <2>2. QED
    BY <2>1, AccOk DEF Acc
<1>4. Sound(w, p)
  BY IdentifierStep
<1> HIDE DEF w, r, start
<1>5. ASSUME w.res = "ok"
      PROVE  Weak(EnumHeader(x), p) /\ (EnumHeader(x).res = "ok" => Plain(EnumHeader(x).ast))
  <2>1. w.at \in Positions /\ w.at > p
    BY <1>4, <1>5 DEF Sound
  <2>2. 2 \in Nat \ {0} /\ w.at \in Nat /\ p \in Nat
    BY <2>1, PositionsAreNumbers
  <2>3. x \in Positions /\ x >= w.at
    BY <2>1, <2>2, AdvanceFits
  <2> HIDE DEF x
  <2>4. x \in Nat
    BY <2>3, PositionsAreNumbers
  <2>5. x > p /\ x >= p
    BY <2>1, <2>2, <2>3, <2>4
  <2>6. Weak(EnumHeader(x), x) /\ (EnumHeader(x).res = "ok" => Plain(EnumHeader(x).ast))
    BY <2>3, <2>5 DEF LaterStmts, StmtSound
  <2>7. QED
    BY <2>3, <2>5, <2>6, WeakLater
<1> HIDE DEF x
<1>6. p >= p
  BY PositionsAreNumbers
<1>7. Weak(start, p)
  BY <1>3, <1>6 DEF Weak, Plain
<1>8. Weak(r, p)
  BY <1>2, <1>5, <1>7, NotOk
<1>9. r.res = "ok" => Plain(r.ast)
  BY <1>2, <1>3, <1>5
<1>10. QED
  BY <1>8, <1>9 DEF r

LEMMA InitializersStep ==
  ASSUME Recursion, Lexed, NEW p \in Positions, LaterStmts(p), NEW acc, Acc(acc, p)
  PROVE  Weak(Initializers(acc), p)
<1> DEFINE e == ParsePrimaryPostIdentifier(After(p))
           rest == Initializers(ExtractAndAdvance(acc, e))
           r == Initializers(acc)
<1>1. acc.at = p
  BY DEF Acc
<1>2. r = InitializersRule(acc)
  BY <1>1 DEF Recursion
<1>3. r = Ok(After(acc.at), acc.ast) \/ r = Fail \/ r = IF e.res = "ok" THEN rest ELSE e
  BY <1>1, <1>2 DEF InitializersRule, Expect, Then
<1>4. After(p) \in Positions /\ After(p) >= p
  BY Beyond, PositionsAreNumbers
<1>5. Sound(e, After(p))
  BY <1>4, IdentifierStep
<1> HIDE DEF e, r
<1>6. Sound(e, p)
  BY <1>4, <1>5, SoundFrom
<1>7. Weak(Ok(After(acc.at), acc.ast), p)
  BY AccStep
<1>8. ASSUME e.res = "ok" PROVE Weak(rest, p)
  <2>1. Acc(ExtractAndAdvance(acc, e), e.at) /\ e.at \in Positions /\ e.at > p /\ e.at >= p
    BY <1>6, <1>8, CollectStep
  <2>2. Weak(rest, e.at)
    BY <2>1 DEF LaterStmts, StmtSound
  <2> HIDE DEF rest
  <2>3. QED
    BY <2>1, <2>2, WeakLater
<1> HIDE DEF rest
<1>9. Weak(r, p)
  BY <1>3, <1>7, <1>8, NotOk, Results
<1>10. QED
  BY <1>9 DEF r

LEMMA EnumEntriesStep ==
  ASSUME Recursion, Lexed, NEW p \in Positions, LaterStmts(p), NEW acc, Acc(acc, p)
  PROVE  Weak(EnumEntries(acc), p)
<1> DEFINE name == After(p)
           start == Ok(After(name), Node("EnumEntry", name, After(name), <<>>))
           e == Initializers(start)
           rest == EnumEntries(ExtractAndAdvance(acc, e))
           r == EnumEntries(acc)
<1>1. acc.at = p
  BY DEF Acc
<1>2. r = EnumEntriesRule(acc)
  BY <1>1 DEF Recursion
<1>3. \/ r = Ok(After(acc.at), acc.ast) \/ r = Fail
      \/ At(p) = "@" /\ r = IF e.res = "ok" THEN rest ELSE e
  BY <1>1, <1>2 DEF EnumEntriesRule, Expect, Then
<1>4. Weak(Ok(After(acc.at), acc.ast), p)
  BY AccStep
<1>5. ASSUME At(p) = "@" PROVE Sound(e, p)
  <2>1. At(p) # "Eofile"
    BY <1>5
  <2>2. p \in 1 .. Len(toks)
    BY <2>1, TokenAt
  <2>3. p <= Len(toks) /\ p >= p
    BY <2>2 DEF Lexed
  <2>4. name \in Positions /\ name >= p /\ name \in Nat
    BY <2>3, Onward
  <2> HIDE DEF name
  <2>5. After(name) \in Positions /\ After(name) > p /\ After(name) \in Nat
    BY <2>3, <2>4, Onward
  <2>6. Acc(start, After(name))
    <3>1. "EnumEntry" \in PlainTypes
      BY DEF PlainTypes
    <3>2. QED
      BY <2>4, <2>5, <3>1, AccOk
  <2> HIDE DEF start
  <2>7. Weak(e, After(name))
    BY <2>5, <2>6 DEF LaterStmts, StmtSound
  <2>8. QED
    BY <2>5, <2>7, SoundFrom
<1> HIDE DEF e, r
<1>6. ASSUME At(p) = "@", e.res = "ok" PROVE Weak(rest, p)
  <2>1. Acc(ExtractAndAdvance(acc, e), e.at) /\ e.at \in Positions /\ e.at > p /\ e.at >= p
    BY <1>5, <1>6, CollectStep
  <2>2. Weak(rest, e.at)
    BY <2>1 DEF LaterStmts, StmtSound
  <2> HIDE DEF rest
  <2>3. QED
    BY <2>1, <2>2, WeakLater
<1> HIDE DEF rest
<1>7. Weak(r, p)
  BY <1>3, <1>4, <1>6, NotOk, Results
<1>8. QED
  BY <1>7 DEF r

\* Whatever a rule of a statement answers is a right tree, from every position on.
THEOREM StatementsAreRight ==
  ASSUME Recursion, Lexed
  PROVE  \A p \in Positions : StmtSound(p)
<1> DEFINE n == Len(toks) + 1
           S == {p \in Positions : StmtSound(p)}
<1>1. n \in Nat /\ Positions = 1 .. n
  BY DEF Lexed, Positions
<1>2. ASSUME NEW p \in 1 .. n, \A k \in (p + 1) .. n : k \in S
      PROVE  p \in S
  <2>1. p \in Positions
    BY <1>1
  <2>2. LaterStmts(p)
    <3> SUFFICES ASSUME NEW k \in Positions, k > p PROVE StmtSound(k)
      BY DEF LaterStmts
    <3>1. k \in (p + 1) .. n
      BY <1>1
    <3>2. QED
      BY <1>2, <3>1
  <2>3. StmtSound(p)
    <3>1. \A kind \in Kinds : Sound(Statement(kind, p), p)
      BY <2>1, <2>2, StatementStep
    <3>2. Sound(ProcBlock(p), p)
      BY <2>1, <2>2, ProcBlockStep
    <3>3. Weak(EnumHeader(p), p) /\ (EnumHeader(p).res = "ok" => Plain(EnumHeader(p).ast))
      BY <2>1, <2>2, EnumHeaderStep
    <3>4. \A acc : Acc(acc, p) => \A kind \in Kinds, end \in Nat : Weak(Statements(kind, end, acc), p)
      BY <2>1, <2>2, StatementsStep
    <3>5. \A acc : Acc(acc, p) => \A words \in SUBSET {"elif", "else"} : Weak(ParseIfBranches(acc, words), p)
      BY <2>1, <2>2, IfBranchesStep
    <3>6. \A acc : Acc(acc, p) => Weak(Initializers(acc), p) /\ Weak(EnumEntries(acc), p)
      BY <2>1, <2>2, InitializersStep, EnumEntriesStep
    <3>7. QED
      BY <3>1, <3>2, <3>3, <3>4, <3>5, <3>6 DEF StmtSound
  <2>4. QED
    BY <2>1, <2>3
<1> HIDE DEF S, n
<1>3. \A p \in 1 .. n : p \in S
  BY <1>1, <1>2, FromTheEnd
<1>4. QED
  BY <1>1, <1>3 DEF S

\* The tree of every file the parser accepts is right at every node: an operator
\* node covers its operands and its own token, and none of its operands binds
\* more loosely than it does.
THEOREM ProgramsAreRight ==
  Recursion /\ Lexed => (ParseSyntax.res = "ok" => Tree(ParseSyntax.ast))
<1> SUFFICES ASSUME Recursion, Lexed PROVE ParseSyntax.res = "ok" => Tree(ParseSyntax.ast)
  OBVIOUS
<1> DEFINE acc == Ok(1, Bare("Program", <<>>))
           end == Len(toks) + 1
           r == Statements(DirectiveDesc, end, acc)
<1>1. 1 \in Positions /\ end \in Nat /\ 0 \in Nat
  BY DEF Lexed, Positions
<1>2. Acc(acc, 1)
  <2>1. "Program" \in PlainTypes
    BY DEF PlainTypes
  <2>2. QED
    BY <1>1, <2>1, AccOk
<1>3. DirectiveDesc \in Kinds
  BY DEF Kinds
<1>4. StmtSound(1)
  BY <1>1, StatementsAreRight
<1>5. ParseSyntax = r
  BY DEF ParseSyntax
<1> HIDE DEF acc, end
<1>6. Weak(r, 1)
  BY <1>1, <1>2, <1>3, <1>4 DEF StmtSound
<1> HIDE DEF r
<1>7. QED
  BY <1>5, <1>6 DEF Weak
=============================================================================

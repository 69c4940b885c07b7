------------------------------ MODULE TkCursor -------------------------------
(***************************************************************************)
(* What the parser and the translation unit share: the sanitized tokens of *)
(* one source file with the cursor on them (inc/frontend/TkCursor.hpp) and *)
(* the nodes of the syntax tree (inc/frontend/ast.hpp), with what makes a  *)
(* node of it right.                                                       *)
(*                                                                         *)
(* A cursor is an index of toks; Len(toks) + 1 is its end.  The tree keeps *)
(* of a node its type, the range of its tokens and its children: the type  *)
(* of a leaf is the type of its token (GetAstFromTk), and a node built     *)
(* without a range has the range 0 .. 0.                                   *)
(***************************************************************************)
EXTENDS Integers, Sequences

CONSTANT toks      \* the tokens the parser is given: records with a type

At(c) == IF c > Len(toks) THEN "Eofile" ELSE toks[c].type
Advance(c, n) == IF c + n > Len(toks) THEN Len(toks) + 1 ELSE c + n
After(c) == Advance(c, 1)

Node(type, from, to, kids) == [type |-> type, from |-> from, to |-> to, kids |-> kids]
Bare(type, kids) == Node(type, 0, 0, kids)
Leaf(c) == Node(At(c), c, After(c), <<>>)

------------------------------------------------------------------------------
(* Operands, and the binary operators in levels, the loosest first.        *)

AnOperand ==
  {"LitCstr", "LitInt", "LitUint", "LitReal", "LitBool", "LitByte", "Ident", "int", "uint",
   "real", "bool", "char", "byte", "cstr", "str", "ptr", "list", "array", "true", "false",
   "none", "void"}
(* (LevelsSwapped has & and ^ the wrong way round.)                        *)
LevelsSwapped ==
  << {","}, {"="}, {"||"}, {"&&"}, {"|"}, {"&"}, {"^"}, {"==", "!="}, {">", ">=", "<", "<="},
     {"<=>"}, {"<<", ">>"}, {"+", "-"}, {"*", "/", "%"} >>
Levels ==
  << {","}, {"="}, {"||"}, {"&&"}, {"|"}, {"^"}, {"&"}, {"==", "!="}, {">", ">=", "<", "<="},
     {"<=>"}, {"<<", ">>"}, {"+", "-"}, {"*", "/", "%"} >>

------------------------------------------------------------------------------
(* Right nodes.                                                            *)

(* C++ ranks the binary operators so; the lexer makes no token of <=>      *)
CppPriority ==
  << {","}, {"="}, {"||"}, {"&&"}, {"|"}, {"^"}, {"&"}, {"==", "!="}, {"<", ">", "<=", ">="},
     {"<<", ">>"}, {"+", "-"}, {"*", "/", "%"} >>
BinaryOps == UNION {CppPriority[i] : i \in DOMAIN CppPriority}
PriorityOf(node) ==
  IF node.type \in BinaryOps THEN CHOOSE i \in DOMAIN CppPriority : node.type \in CppPriority[i]
  ELSE Len(CppPriority) + 1

(* An operator node covers exactly the tokens of its operands, of which    *)
(* none is empty, and its own token between, before or behind them, and a  *)
(* bracketed one its brackets.  A name that is not looked at may be any    *)
(* token, and then it has no operands.                                     *)
Tiles(n) ==
  LET l == n.kids[1]
      r == n.kids[2]
      covers(k) == k.from < k.to
  IN /\ n.type \in AnOperand => n.to = n.from + 1
     /\ n.type = "Arguments" /\ n.kids = <<>> => n.to = n.from + 2
     /\ n.kids # <<>> =>
          /\ n.type \in BinaryOps \cup {"ResolutionOp", "MemberAccess"} =>
               l.from = n.from /\ covers(l) /\ r.from = l.to + 1 /\ covers(r) /\ r.to = n.to
          /\ n.type \in BinaryOps => toks[l.to].type = n.type
          /\ n.type \in {"!", "~"} => l.from = n.from + 1 /\ covers(l) /\ l.to = n.to
          /\ n.type \in {"++", "--"} =>
               covers(l) /\ l.to - l.from + 1 = n.to - n.from /\ l.from - n.from \in {0, 1}
          /\ n.type \in {"FunctionCall", "IndexOperator", "ListingOperator"} =>
               l.from = n.from /\ covers(l) /\ r.from = l.to /\ covers(r) /\ r.to = n.to
          /\ n.type \in {"Subexpression", "SquareSubexpr", "CurlySubexpr", "Arguments"} =>
               l.from = n.from + 1 /\ covers(l) /\ l.to + 1 = n.to

(* The operand of an operator never holds, outside brackets, an operator   *)
(* that binds more loosely, and one that binds as tightly only on the side *)
(* its associativity says.                                                 *)
Binds(n) ==
  n.type \in BinaryOps /\ n.kids # <<>> =>
    LET l == PriorityOf(n.kids[1])
        r == PriorityOf(n.kids[2])
    IN IF n.type = "=" THEN l > PriorityOf(n) /\ r >= PriorityOf(n)
       ELSE l >= PriorityOf(n) /\ r > PriorityOf(n)
=============================================================================

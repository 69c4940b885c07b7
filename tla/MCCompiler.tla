----------------------------- MODULE MCCompiler ------------------------------
(***************************************************************************)
(* The compiler on three families of sources: every short text over        *)
(* characters that begin, end or join tokens; expressions with the value   *)
(* an independent reading of their syntax gives them; and programs that    *)
(* hold each kind of statement and declaration.                            *)
(***************************************************************************)
EXTENDS Compiler, FiniteSets

------------------------------------------------------------------------------
(* Short texts.                                                            *)

Characters == {"a", "0", "u", "b", ".", "\"", "\\", "/", Backtick, "<", "=", " ", "\n", ";"}
Texts(n) == [1 .. n -> Characters]
Spelled(chars) == FoldLeft(LAMBDA acc, ch : acc \o ch, "", chars)
ShortTexts == {Spelled(chars) : chars \in UNION {Texts(n) : n \in 1 .. 3}}

------------------------------------------------------------------------------
(* Arithmetic: trees with a single operator below another, on either side, *)
(* and trees of three operators.  Parentheses are written only where the   *)
(* priorities of C ask for them.                                           *)

Num(n) == [op |-> "", n |-> n]
Bin(op, l, r) == [op |-> op, l |-> l, r |-> r]
ArithOps == {"+", "-", "*", "/", "%"}
Nums == {Num(n) : n \in {0, 2, 3}}
Pairs == {Bin(op, l, r) : op \in ArithOps, l \in Nums, r \in Nums}
Trees == Pairs
         \cup {Bin(op, e, n) : op \in ArithOps, e \in Pairs, n \in Nums}
         \cup {Bin(op, n, e) : op \in ArithOps, e \in Pairs, n \in Nums}
         \cup {Bin(op, Bin(p, Num(3), Num(2)), Bin(q, Num(2), Num(3))) :
                 op \in ArithOps, p \in ArithOps, q \in ArithOps}

Tight(op) == IF op \in {"*", "/", "%"} THEN 2 ELSE IF op \in {"+", "-"} THEN 1 ELSE 3
RECURSIVE Spell(_, _), Meaning(_)
Spell(e, least) ==
  IF e.op = "" THEN (CASE e.n = 0 -> "0" [] e.n = 2 -> "2" [] e.n = 3 -> "3")
  ELSE LET bare == Spell(e.l, Tight(e.op)) \o e.op \o Spell(e.r, Tight(e.op) + 1)
       IN IF Tight(e.op) < least THEN "(" \o bare \o ")" ELSE bare

(* The integer a tree stands for, or why there is none.                    *)
NoMeaning == [ok |-> FALSE]
Defined(n) == [ok |-> TRUE, n |-> n]
Toward0(x, y) == LET q == (IF x < 0 THEN -x ELSE x) \div (IF y < 0 THEN -y ELSE y)
                 IN IF (x < 0) # (y < 0) THEN -q ELSE q
Meaning(e) ==
  IF e.op = "" THEN Defined(e.n)
  ELSE LET l == Meaning(e.l)
           r == Meaning(e.r)
       IN IF ~l.ok \/ ~r.ok THEN NoMeaning
          ELSE CASE e.op = "+" -> Defined(l.n + r.n)
                 [] e.op = "-" -> Defined(l.n - r.n)
                 [] e.op = "*" -> Defined(l.n * r.n)
                 [] r.n = 0 -> NoMeaning
                 [] e.op = "/" -> Defined(Toward0(l.n, r.n))
                 [] e.op = "%" -> Defined(l.n - r.n * Toward0(l.n, r.n))

Arithmetics == {[text |-> "return " \o Spell(e, 0) \o ";", means |-> Meaning(e)] : e \in Trees}

(* Sources of other shapes with the value they return, or with none: a     *)
(* name that is not defined, defined twice or only later, and a value that *)
(* is not an int, which is all a return statement takes.                   *)
Returning == {
  [text |-> "return 0;", means |-> Defined(0)],
  [text |-> "  return\t( 3 -\n 2 ) ;\n", means |-> Defined(1)],
  [text |-> "/'3'/return'4'\n 2;'5", means |-> Defined(2)],
  [text |-> "/'3'/return 2/'4'/;'5\n", means |-> Defined(2)],
  [text |-> "def @a: 2; def int@b: a*3; return b-a;", means |-> Defined(4)],
  [text |-> "def @a:2; fn@f(): { return 3; }; return a;", means |-> Defined(2)],
  [text |-> "return 1+(2<3);", means |-> Defined(2)],
  [text |-> "return 0-63-1;", means |-> Defined(-64)],
  [text |-> "return (0-63-1)/2+63;", means |-> Defined(31)],
  [text |-> "return a;", means |-> NoMeaning],
  [text |-> "return 2<3;", means |-> NoMeaning],
  [text |-> "return \"a\";", means |-> NoMeaning],
  [text |-> "def @a: 2; def @a: 3; return a;", means |-> NoMeaning],
  [text |-> "def @a: b; def @b: 2; return a;", means |-> NoMeaning]}
Meanings == Arithmetics \cup Returning

(* Sources the evaluator refuses or has no outcome for, though C gives a   *)
(* value to some: a literal or a result that no int holds, literals and    *)
(* operators that it does not know, and what the parser lets be left out.  *)
Unevaluated == {
  "return 99;", "return 63+1;", "return 3*3*3*3;", "return (0-63-1)/(0-1);", "return 3.2;",
  "return !1;", "return;", "def @a; return 2;"}

------------------------------------------------------------------------------
(* Operators next to each other: every pair, and the other operators of an *)
(* expression around every binary one.                                     *)

Mixtures ==
  {"return a" \o p \o "b" \o q \o "c;" : p \in BinaryOps, q \in BinaryOps}
  \cup {"return !a.b " \o p \o " ~c(1,2)[d]++ " \o p \o " (e);" : p \in BinaryOps}
  \cup {"x::y{1}() " \o p \o " ::z;" : p \in BinaryOps}

(* Statements and declarations, after the tests of the parser, whole and   *)
(* without their last token.                                               *)
Programs == {
  "(1+2)*a;", "def@Foo;", "const def str@Foo: 42;", "private static def a::b@c: {1,2};", "def 1;",
  "fn@add;", "fn@add();", "fn@add>;", "fn@add()>;", "fn@add(a,b);", "fn@add(@a,@b)>int;",
  "fn@add(const int@a, ref@b)>const int: { return a+b; };", "fn@add: { def@c:1; c=2; };",
  "fn@f>int:{ if (a) { b; } elif (c) { d; } else { e; } };", "fn@f:{ if (a(b)) { c; } };",
  "fn@f:{ while (a) { b; }; };", "fn@f:{ for (def@i:0; i<2; i++) { b; } };",
  "fn@f:{ using a; import b; class @C; };",
  "class @Foo;", "class @Foo:{ def@a:1; fn@b; };", "class @Foo:{ fn@b:{ a; }; };",
  "const static lib@MathLib;", "lib@MathLib:{ const def str@Foo: 42; using @MyInteger: int; };",
  "proc@P;",
  "main:{ return 0; };", "main(argc, argv)>int:{ a; };", "main;",
  "using @MyInteger: int;", "using lib my_math_lib;", "using namespace my_ns;", "using my_ns::Foo;",
  "using @MyAdd: lib my_math_lib::add;", "using @+: int;", "using @(: int;", "lib@*: ;", "import foo;", "import 1;",
  "enum @E;", "enum @E:{ }", "enum @E:{ @a; @b:1; }", "enum @E:{ @c:1:2; }", "enum @E: int@a: { @b; }",
  "enum @E:{ using @c: { @d; }; }", "static proc@P;", "static proc@P: main: { a; };",
  "static proc@P:{ using @A: int; };", "const;", "1", ";", "def@é;", "def int@a;", "fn@f(a", "fn@f:{ for (def@i:0; ; i++) { } };",
  "def@a: \"b\"; def@c: a;"}

(* Sequences of files.                                                     *)
Several == {
  <<>>, <<"">>, <<NoFile>>, <<"return 2;", NoFile>>, <<"return 2;", "return 3;">>,
  <<"return 2;", "def @a: 1;", NoFile>>, <<"def @a: 1; return a;", "return a+1;">>,
  <<"def @a: 1; return a;", "def @a: 2;">>, <<"return 1;", "", "return 3;">>}

Sources == {<<t>> : t \in ShortTexts \cup Mixtures \cup Programs \cup Unevaluated
                          \cup {m.text : m \in Meanings}}
         \cup Several

------------------------------------------------------------------------------
(* Command lines: two arbitrary arguments, and up to three behind the      *)
(* command, where the paths are a source that returns, one that does not   *)
(* parse, one that cannot be read, and one with the name of a command.     *)
Files == [a |-> "return 2;", b |-> ";", comp |-> NoFile, help |-> NoFile, link |-> NoFile]
Paths == {Plain("a"), Plain("b"), Plain("comp")}
Arguments ==
  Paths \cup {Plain("help"), Plain("link"), Short("c"), Short("O"), Short(" "), Short(""), Short("q"),
              Long("comp"), Long("out-dir"), Long("no-overwrite"), Long("driver-io-verbose"), Long("")}
Behind == Paths \cup {Short("O"), Short("D"), Short("q"), Long("aux-dir"), Long("")}
UpTo(n, S) == UNION {[1 .. i -> S] : i \in 0 .. n}
Lines == UpTo(2, Arguments)
         \cup {before \o <<Plain("comp")>> \o behind :
                before \in {<<>>, <<Long("no-overwrite")>>, <<Long("driver-io-silent")>>},
                behind \in UpTo(3, Behind)}

------------------------------------------------------------------------------
(* From text to value: once a source of Meanings has been translated, it   *)
(* has returned the int it stands for, and one that stands for none (a     *)
(* division by zero, a name without a value, a value that is no int) has   *)
(* returned nothing.  It is checked for + - * / and % on ints that stay in *)
(* range, with the priorities and parentheses of C; && || ^ << and >>,     *)
(* whose bodies are copies of that of division (AnyValue.hpp:1121-1418),   *)
(* are not among them.                                                     *)
ReturnsItsMeaning ==
  \A m \in Meanings : files = <<m.text>> =>
    /\ output # Uninitialized => m.means.ok /\ output = m.means.n
    /\ result # "running" /\ m.means.ok => output # Uninitialized
=============================================================================

------------------------------- MODULE Program --------------------------------
(***************************************************************************)
(* The program cnd: CommandLine, whose translation is TrUnit.  What the    *)
(* parser answers and what expressions evaluate to are taken from two      *)
(* sets; Compiler is the program with the parser and the evaluator that    *)
(* cnd has.                                                                *)
(***************************************************************************)
EXTENDS TrUnit, CommandLine

compilerVars == <<lexVars, toks, at, stage, tree, stmt, vars, output>>
programVars == <<compilerVars, unit, cliVars>>

ProgramInit == Fresh /\ CliInit

Main == CliMain /\ UNCHANGED compilerVars
Compile(parsed, value) == Running(parsed, value) /\ Translates
Ended ==
  /\ phase = "ended" \/ (phase = "api" /\ result # "running")
  /\ UNCHANGED programVars
ProgramNext(Answers, Values) ==
  Main \/ (\E parsed \in Answers, value \in Values : Compile(parsed, value)) \/ Ended
ProgramSpec(Answers, Values) == ProgramInit /\ [][ProgramNext(Answers, Values)]_programVars

------------------------------------------------------------------------------
(* Types: the heads stay in what they read, each stage works on what the   *)
(* one before it left, and values keep to the width of their kind.         *)
TypeOK ==
  /\ at \in 1 .. (Len(files) + 1)
  /\ stage \in {"read", "lex", "parse", "eval"}
  /\ lexing \in {"run", "done", "failed", "ub"} /\ head \in 1 .. (Len(text) + 1)
  /\ stmt \in 1 .. (Len(tree.kids) + 1)
  /\ \A v \in DOMAIN vars : IsValue(vars[v])
  /\ output \in {Uninitialized} \cup (Lowest("I32") .. Highest("I32"))
  /\ result \in {"idle", "running"} \cup Outcomes
  /\ phase \in {"api", "main", "comp", "translating", "ended"}
  /\ exit \in {"none", "0", "1", "ub"} /\ (phase = "ended") = (exit # "none")
  /\ arg \in 1 .. (Len(argv) + 1) /\ verbosity \in {"std", "silent"}
  /\ flags \in Seq(ParsedFlags)

(* The nodes of the program at hand, from its root to the depth its tokens *)
(* allow, one generation after the other.                                  *)
Children(ns) == UNION {{n.kids[i] : i \in DOMAIN n.kids} : n \in ns}
Nodes ==
  LET generation[d \in 0 .. Len(toks) + 1] ==
        IF d = 0 THEN {tree} ELSE Children(generation[d - 1])
  IN IF stage = "eval" THEN UNION {generation[d] : d \in DOMAIN generation} ELSE {}

(* Folding a chain of operators neither drops a token nor takes one twice, *)
(* and a tree never groups operators other than C++ does.                  *)
ExpressionsTile == \A n \in Nodes : Tiles(n)
OperatorsBind == \A n \in Nodes : Binds(n)

(* What is left to do: arguments, the translation, its files, the stages   *)
(* of the file at hand, and what is left of its text or its statements.    *)
StagesLeft == [read |-> 3, lex |-> 2, parse |-> 1, eval |-> 0]
ArgumentsLeft ==
  CASE phase \in {"main", "comp"} -> Len(argv) + 3 - arg
    [] phase \in {"api", "translating"} -> 1
    [] phase = "ended" -> 0
StageLeft ==
  CASE stage = "lex" -> 2 * (Len(text) + 1 - head) + (IF lexing = "run" THEN 1 ELSE 0)
    [] stage = "eval" -> Len(tree.kids) + 1 - stmt
    [] OTHER -> 0
Work ==
  <<ArgumentsLeft, IF result = "running" THEN 1 ELSE 0, Len(files) + 1 - at,
    StagesLeft[stage], StageLeft>>
Precedes(a, b) == \E i \in DOMAIN a : a[i] < b[i] /\ \A j \in 1 .. (i - 1) : a[j] = b[j]

(* Every run of the program ends: each step takes an argument, text, a     *)
(* stage, a statement or a file that returned, and never gives one back.   *)
ProgramProgresses ==
  [][(\A i \in DOMAIN Work : Work'[i] >= 0) /\ Precedes(Work', Work)]_programVars
=============================================================================

------------------------------ MODULE Compiler -------------------------------
(***************************************************************************)
(* The program cnd with its parser and its evaluator: the rules of Parser  *)
(* and the body of EvalPrimaryExpr, calling themselves.                    *)
(***************************************************************************)
EXTENDS Program

RECURSIVE Parses(_)
Grammar == INSTANCE Parser WITH Parse <- Parses
Parses(goal) == Grammar!Production(goal)

RECURSIVE EvalPrimaryExpr(_)
EvalPrimaryExpr(ast) ==
  EvalPrimaryExprRule(ast, EvalPrimaryExpr(ast.kids[1]), EvalPrimaryExpr(ast.kids[2]))

Translating == Compile(Grammar!ParseSyntax, EvalPrimaryExpr(ThisExpression))
CompilerNext == Main \/ Translating \/ Ended
CompilerSpec == ProgramInit /\ [][CompilerNext]_programVars
=============================================================================

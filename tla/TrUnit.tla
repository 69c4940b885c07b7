------------------------------- MODULE TrUnit --------------------------------
(***************************************************************************)
(* hir::TrUnit (inc/hir/Compeval.hpp), the evaluation of a translation     *)
(* unit by Compiler::Translate.  Evaluate takes the source files in turn:  *)
(* a file is read, lexed, sanitized and parsed, then its statements are    *)
(* evaluated one by one in the global namespace.  What the parser answers  *)
(* and what an expression evaluates to are parameters here; Compiler says  *)
(* what they are.                                                          *)
(***************************************************************************)
EXTENDS Translation, Lexer, AnyValue

CONSTANT Uninitialized  \* what output_.return_value holds before it is set

VARIABLES toks,        \* the tokens of the file at hand, sanitized
          at,          \* the file at hand
          stage,       \* what is done with it: "read", "lex", "parse", "eval"
          tree,        \* its program
          stmt,        \* the child of the program that is evaluated next
          vars,        \* global.vars
          output       \* output_.return_value
INSTANCE TkCursor
unitVars == <<files, at, stage, tree, stmt, vars, output, result>>

NoTree == Bare("NONE", <<>>)

(* Nothing has been done yet; CommandLine gives the files.                 *)
Fresh ==
  /\ at = 1 /\ stage = "read"
  /\ LexIdle /\ toks = <<>>
  /\ tree = NoTree /\ stmt = 1
  /\ vars = <<>>
  /\ output = Uninitialized

Finish(how) == result' = how /\ UNCHANGED <<files, at, stage, tree, stmt, vars, output>>

------------------------------------------------------------------------------
(* ParseSourceFile.                                                        *)

(* ReadSourceFile: the last character of an empty file is looked at.       *)
ReadSourceFile ==
  /\ stage = "read"
  /\ UNCHANGED toks
  /\ IF at > Len(files) THEN Finish("ok") /\ UNCHANGED lexVars
     ELSE IF files[at] = NoFile THEN Finish("failed") /\ UNCHANGED lexVars
     ELSE IF Len(files[at]) = 0 THEN Finish("ub") /\ UNCHANGED lexVars
     ELSE /\ StartLex(files[at])
          /\ stage' = "lex"
          /\ UNCHANGED <<files, at, tree, stmt, vars, output, result>>

LexStep == stage = "lex" /\ Process /\ UNCHANGED <<toks, unitVars>>

SanitizeTokens ==
  /\ stage = "lex"
  /\ lexing # "run"
  /\ UNCHANGED lexVars
  /\ IF lexing # "done" THEN Finish(lexing) /\ UNCHANGED toks
     ELSE /\ toks' = Sanitize(tokens)
          /\ stage' = "parse"
          /\ UNCHANGED <<files, at, tree, stmt, vars, output, result>>

ParseTokens(parsed) ==
  /\ stage = "parse"
  /\ UNCHANGED <<lexVars, toks>>
  /\ CASE parsed.res = "ok" ->
            /\ tree' = parsed.ast
            /\ stmt' = 1
            /\ stage' = "eval"
            /\ UNCHANGED <<files, at, vars, output, result>>
       [] parsed.res = "fail" -> Finish("failed")
       [] OTHER -> Finish("ub")

------------------------------------------------------------------------------
(* Expressions.                                                            *)

Literal(node) == SubSeq(text, toks[node.from].lo, toks[node.from].hi - 1)

Unresolved == Value("Fail", "name")
ResolveVariable(ident) == IF ident \in DOMAIN vars THEN vars[ident] ELSE Unresolved

(* EvalPrimaryExpr is noexcept: it terminates the program where an         *)
(* operator throws.  Nothing is promised of a run with an overflow.        *)
Fatal == {"Throw", "Trap", "Undefined"}
Outcome(value) ==
  CASE value.kind = "Throw" -> "terminated"
    [] value.kind = "Trap" -> "trapped"
    [] value.kind = "Undefined" -> "ub"
    [] OTHER -> "failed"

(* ComputeBinop evaluates both operands before it looks at either; v is    *)
(* what the operator makes of their values.                                *)
ComputeBinop(l, r, v) ==
  IF l.kind \in Fatal THEN l
  ELSE IF r.kind \in Fatal THEN r
  ELSE IF l.kind = "Fail" THEN l
  ELSE IF r.kind = "Fail" THEN r
  ELSE IF v.kind = "Error" THEN Value("Fail", v.data) ELSE v

(* The body of EvalPrimaryExpr, where l and r are what it makes of the     *)
(* first two children of ast.                                              *)
EvalPrimaryExprRule(ast, l, r) ==
  CASE ast.type = "LitBool" -> BoolFromLiteral(Literal(ast))
    [] ast.type = "LitInt" -> I32FromLiteral(Literal(ast))
    [] ast.type = "LitCstr" -> CStrFromLiteral(Literal(ast))
    [] ast.type = "+" -> ComputeBinop(l, r, Add(l, r))
    [] ast.type = "-" -> ComputeBinop(l, r, Sub(l, r))
    [] ast.type = "*" -> ComputeBinop(l, r, Mul(l, r))
    [] ast.type = "/" -> ComputeBinop(l, r, Div(l, r))
    [] ast.type = "%" -> ComputeBinop(l, r, Mod(l, r))
    [] ast.type = "&&" -> ComputeBinop(l, r, And(l, r))
    [] ast.type = "||" -> ComputeBinop(l, r, Or(l, r))
    [] ast.type = "^" -> ComputeBinop(l, r, Xor(l, r))
    [] ast.type = "<<" -> ComputeBinop(l, r, Lsh(l, r))
    [] ast.type = ">>" -> ComputeBinop(l, r, Rsh(l, r))
    [] ast.type = "==" -> ComputeBinop(l, r, Eq(l, r))
    [] ast.type = "!=" -> ComputeBinop(l, r, Neq(l, r))
    [] ast.type = "<" -> ComputeBinop(l, r, Lt(l, r))
    [] ast.type = ">" -> ComputeBinop(l, r, Gt(l, r))
    [] ast.type = "<=" -> ComputeBinop(l, r, Lte(l, r))
    [] ast.type = ">=" -> ComputeBinop(l, r, Gte(l, r))
    [] ast.type = "Ident" -> ResolveVariable(Literal(ast))
    [] ast.type = "Subexpression" -> l
    [] OTHER -> Value("Fail", "expression")

------------------------------------------------------------------------------
(* EvalSourceFile, one statement per step.                                 *)

Evaluating == stage = "eval" /\ UNCHANGED <<lexVars, toks>>
ThisStmt == tree.kids[stmt]
EvaluatesTo(type) == Evaluating /\ stmt <= Len(tree.kids) /\ ThisStmt.type = type
Proceed == stmt' = stmt + 1 /\ UNCHANGED <<files, at, stage, tree, result>>

(* EvalPragmaticVariableDefinition takes the last two children of the      *)
(* declaration for the name and the definition.                            *)
EvalPragmaticVariableDefinition(value) ==
  LET kids == ThisStmt.kids
      ident == kids[Len(kids) - 1]
      definition == Last(kids)
  IN /\ EvaluatesTo("VariableDeclaration")
     /\ IF ident.from = 0 THEN Finish("ub")
        ELSE IF Literal(ident) \in DOMAIN vars THEN Finish("failed")
        ELSE IF definition.kids = <<>> THEN Finish("ub")
        ELSE IF value.kind \in Fatal \cup {"Fail"} THEN Finish(Outcome(value))
        ELSE /\ vars' = [v \in DOMAIN vars \cup {Literal(ident)} |->
                           IF v \in DOMAIN vars THEN vars[v] ELSE value]
             /\ UNCHANGED output
             /\ Proceed

(* EvalPragmaticReturnStmt stores the value and ends without a result: its *)
(* caller reads what is there as a success, or as an error that is none.   *)
(* After the success EvalSourceFile answers false, and Evaluate goes on    *)
(* with the next file.                                                     *)
(* (NextFileAgain forgets to go on.)                                       *)
NextFileAgain == stage' = "read" /\ UNCHANGED <<files, at, tree, stmt, vars, result>>
NextFile ==
  /\ at' = at + 1
  /\ stage' = "read"
  /\ UNCHANGED <<files, tree, stmt, vars, result>>
EvalPragmaticReturnStmt(value) ==
  /\ EvaluatesTo("return")
  /\ IF ThisStmt.kids = <<>> THEN Finish("ub")
     ELSE IF value.kind # "I32" THEN Finish(Outcome(value))
     ELSE \/ /\ output' = value.data
             /\ NextFile
          \/ /\ output' = value.data
             /\ result' = "ub"
             /\ UNCHANGED <<files, at, stage, tree, stmt, vars>>

SkipStatement ==
  /\ Evaluating
  /\ stmt <= Len(tree.kids)
  /\ ThisStmt.type \notin {"return", "VariableDeclaration"}
  /\ UNCHANGED <<vars, output>>
  /\ Proceed

(* EvalSourceFile answers true, and Evaluate takes that for the end.       *)
EndOfFile ==
  /\ Evaluating
  /\ stmt > Len(tree.kids)
  /\ Finish("ok")

Running(parsed, value) ==
  /\ result = "running"
  /\ \/ ReadSourceFile \/ LexStep \/ SanitizeTokens \/ ParseTokens(parsed)
     \/ EvalPragmaticVariableDefinition(value) \/ EvalPragmaticReturnStmt(value)
     \/ SkipStatement \/ EndOfFile

(* The expression of the statement at hand that is evaluated.              *)
ThisExpression == IF ThisStmt.type = "return" THEN ThisStmt.kids[1] ELSE Last(ThisStmt.kids).kids[1]
=============================================================================

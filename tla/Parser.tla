------------------------------- MODULE Parser --------------------------------
(***************************************************************************)
(* The recursive descent of trtools::parser (inc/frontend/parser.hpp) over *)
(* the sanitized tokens of one source file.                                *)
(*                                                                         *)
(* Parse(goal) is what a nested call or the rest of a loop answers, where  *)
(* a goal is the name of a rule and its arguments.  The body of a rule is  *)
(* its Rule, written with Parse for what it calls; Production finds the    *)
(* body of a goal.  Compiler ties the knot: its Parse is Production.       *)
(***************************************************************************)
EXTENDS TkCursor, SequencesExt

CONSTANT Parse(_)

ParseBinary(level, c) == Parse(<<"ParseBinary", level, c>>)
FoldBinary(level, l) == Parse(<<"FoldBinary", level, l>>)
ParsePrefix(c) == Parse(<<"ParsePrefix", c>>)
ParseSubexpr(c) == Parse(<<"ParseSubexpr", c>>)
FoldResolution(l) == Parse(<<"FoldResolution", l>>)
FoldPostfix(l) == Parse(<<"FoldPostfix", l>>)
FindSeperatedParen(i, last, history, scopes) ==
  Parse(<<"FindSeperatedParen", i, last, history, scopes>>)
MethodParameters(acc, scopes) == Parse(<<"MethodParameters", acc, scopes>>)
Statement(kind, c) == Parse(<<"Statement", kind, c>>)
Statements(kind, end, acc) == Parse(<<"Statements", kind, end, acc>>)
ParseIfBranches(acc, words) == Parse(<<"ParseIfBranches", acc, words>>)
ProcBlock(c) == Parse(<<"ProcBlock", c>>)
EnumHeader(c) == Parse(<<"EnumHeader", c>>)
Initializers(acc) == Parse(<<"Initializers", acc>>)
EnumEntries(acc) == Parse(<<"EnumEntries", acc>>)

------------------------------------------------------------------------------
(* Classes of tokens (grammar/traitsof_eTk.tpp).                           *)

Modifier == {"private", "public", "const", "static", "ref"}
Declarative ==
  {"def", "fn", "class", "main", "import", "namespace", "using", "lib", "dll", "if", "elif",
   "else", "cxif", "cxelif", "cxelse", "switch", "case", "default", "while", "for", "return",
   "break", "continue", "template", "enum"}
LScope == {"(", "[", "{"}
RScope == {")", "]", "}"}
Closing == [open \in LScope |-> CASE open = "(" -> ")" [] open = "[" -> "]" [] OTHER -> "}"]
PrefixOperator == {"!", "~", "--", "++"}
Primary == AnOperand \cup PrefixOperator \cup {"("}
PrimarySpecifier == AnOperand \cup PrefixOperator \cup LScope \cup {"::"}
Pragmatic == Modifier \cup Declarative
DirectiveFirstSet == Pragmatic \cup Primary
PragmaticFirstSet == DirectiveFirstSet \ {"lib"}

------------------------------------------------------------------------------
(* Results.  A result is a node with the cursor to go on from, a failure,  *)
(* or "ub" where the code runs off the end of a function or reads past the *)
(* last token.                                                             *)

Ok(c, node) == [res |-> "ok", at |-> c, ast |-> node]
Fail == [res |-> "fail"]
UB == [res |-> "ub"]
Then(r, F(_)) == IF r.res = "ok" THEN F(r) ELSE r
(* ExtractAndAdvance: the node of r becomes the last child of that of acc. *)
ExtractAndAdvance(acc, r) == Ok(r.at, [acc.ast EXCEPT !.kids = Append(@, r.ast)])
(* Goes on behind c if the token there is one of the given types.          *)
Expect(c, types, r) == IF At(c) \in types THEN r ELSE Fail

------------------------------------------------------------------------------
(* Expressions.                                                            *)

Assignment == 2

(* ParseGenericBinaryLeftAssociative, ParseSummation and ParseProduction:  *)
(* a chain of operands of the next level, reduced from the left; the head  *)
(* of the result is the end of its node.                                   *)
(* (BinaryShort ends its node where the right operand begins.)             *)
BinaryShort(l, r) ==
  Ok(r.at, Node(At(l.at), l.ast.from, r.ast.from, <<l.ast, r.ast>>))
Binary(l, r) == Ok(r.at, Node(At(l.at), l.ast.from, r.ast.to, <<l.ast, r.ast>>))
FoldBinaryRule(level, l) ==
  IF At(l.at) \notin Levels[level] THEN l
  ELSE Then(ParseBinary(level + 1, After(l.at)),
            LAMBDA r : FoldBinary(level, Binary(l, r)))
(* ParseAssignment reduces its chain from the right.                       *)
ParseAssignment(l) ==
  IF At(l.at) \notin Levels[Assignment] THEN l
  ELSE Then(ParseBinary(Assignment, After(l.at)), LAMBDA r : Binary(l, r))
ParseBinaryRule(level, c) ==
  IF level > Len(Levels) THEN ParsePrefix(c)
  ELSE IF At(c) \notin PrimarySpecifier THEN Fail
  ELSE Then(ParseBinary(level + 1, c),
            LAMBDA l : IF level = Assignment THEN ParseAssignment(l) ELSE FoldBinary(level, l))
ParseListFold(c) == ParseBinary(1, c)

ParsePrimaryOperand(c) ==
  IF At(c) \in AnOperand THEN Ok(After(c), Leaf(c))
  ELSE IF At(c) \in LScope THEN ParseSubexpr(c)
  ELSE Fail
(* ParseParenSubexpr, ParseSquareSubexpr, ParseCurlySubexpr.               *)
Subexpression ==
  [open \in LScope |-> CASE open = "(" -> "Subexpression"
                         [] open = "[" -> "SquareSubexpr"
                         [] OTHER -> "CurlySubexpr"]
ParseSubexprRule(c) ==
  Then(ParseListFold(After(c)),
       LAMBDA e : Expect(e.at, {Closing[At(c)]},
                         Ok(After(e.at), Node(Subexpression[At(c)], c, After(e.at), <<e.ast>>))))

(* ParseResolution: a leading :: is an operand of its own, which nothing   *)
(* joins to the name behind it.                                            *)
FoldResolutionRule(l) ==
  IF At(l.at) # "::" THEN l
  ELSE Then(ParsePrimaryOperand(After(l.at)),
            LAMBDA r : FoldResolution(
              Ok(r.at, Node("ResolutionOp", l.ast.from, r.ast.to, <<l.ast, r.ast>>))))
ParseResolution(c) ==
  IF At(c) \notin PrimarySpecifier THEN Fail
  ELSE Then(IF At(c) = "::" THEN Ok(After(c), Node("RootNamespace", c, After(c), <<>>))
            ELSE ParsePrimaryOperand(c),
            LAMBDA l : FoldResolution(l))

(* ParsePostfix: calls, subscripts and listings, member accesses, ++ and   *)
(* -- in the order they are written, the first one innermost.  It leaves   *)
(* no . for the loop of ParseAccess.                                       *)
Call == [open \in LScope |-> CASE open = "(" -> "FunctionCall"
                               [] open = "[" -> "IndexOperator"
                               [] OTHER -> "ListingOperator"]
ParseArguments(c) ==
  LET close == After(After(c))
  IN IF At(After(c)) = Closing[At(c)] THEN Ok(close, Node("Arguments", c, close, <<>>))
     ELSE Then(ParseSubexpr(c), LAMBDA a : Ok(a.at, [a.ast EXCEPT !.type = "Arguments"]))
FoldPostfixRule(l) ==
  LET c == l.at
      On(type, r) == FoldPostfix(Ok(r.at, Node(type, l.ast.from, r.ast.to, <<l.ast, r.ast>>)))
  IN CASE At(c) \in {"++", "--"} ->
            FoldPostfix(Ok(After(c), Node(At(c), l.ast.from, After(c), <<l.ast>>)))
       [] At(c) \in LScope -> Then(ParseArguments(c), LAMBDA a : On(Call[At(c)], a))
       [] At(c) = "." -> Then(ParseResolution(After(c)), LAMBDA r : On("MemberAccess", r))
       [] OTHER -> l
ParsePostfix(c) == Then(ParseResolution(c), LAMBDA l : FoldPostfix(l))
ParsePrefixRule(c) ==
  IF At(c) \notin PrefixOperator THEN ParsePostfix(c)
  ELSE Then(ParsePrefix(After(c)), LAMBDA r : Ok(r.at, Node(At(c), c, r.ast.to, <<r.ast>>)))

(* ParsePrimaryExpr reports any other start, but returns nothing.          *)
ParsePrimaryExpr(c) ==
  IF At(c) \in AnOperand \cup PrefixOperator \cup LScope THEN ParseListFold(c) ELSE UB
ParsePrimaryStatement(c) ==
  Expect(c, Primary,
    Then(ParsePrimaryExpr(c), LAMBDA e : Expect(e.at, {";"}, Ok(After(e.at), e.ast))))

------------------------------------------------------------------------------
(* Scopes.                                                                 *)

(* FindScopeImpl: the end of the scope opened at c, 0 if there is none.    *)
(* Inside a nested scope the closing token is asked of the opening token   *)
(* at c instead of the one met, so a scope that holds another is refused.  *)
FindScope(c, open) ==
  LET closing == {i \in (c + 1) .. Len(toks) : At(i) \in RScope}
      i == CHOOSE k \in closing : \A m \in closing : k <= m
  IN IF /\ At(c) = open
        /\ closing # {}
        /\ At(i) = Closing[open]
        /\ \A k \in (c + 1) .. i : At(k) \notin LScope
     THEN i + 1 ELSE 0

(* FindSeperatedScopeImpl: the scopes between the parentheses at c and its *)
(* commas, each from the separator before it to behind the one after it.   *)
(* A list that is never closed runs off the end of the function: <<>>.     *)
FindSeperatedParenRule(i, last, history, scopes) ==
  LET go(h) == FindSeperatedParen(i + 1, last, h, scopes)
  IN CASE At(i) = "Eofile" -> <<>>
       [] At(i) \in LScope -> go(Append(history, At(i)))
       [] At(i) = "," /\ history = <<>> ->
            FindSeperatedParen(i + 1, i, history, Append(scopes, <<last, i + 1>>))
       [] At(i) \in RScope /\ history # <<>> ->
            IF At(i) = Closing[Last(history)] THEN go(Front(history))
            ELSE Append(scopes, <<i, Len(toks) + 1>>)
       [] At(i) = ")" /\ history = <<>> -> Append(scopes, <<last, i + 1>>)
       [] OTHER -> go(history)

------------------------------------------------------------------------------
(* Parts of declarations.                                                  *)

ModifiersEnd(c) == CHOOSE e \in c .. (Len(toks) + 1) :
  At(e) \notin Modifier /\ \A k \in c .. (e - 1) : At(k) \in Modifier
ParseModifiers(c) ==
  LET e == ModifiersEnd(c)
  IN Ok(e, Bare("Modifiers", [k \in 1 .. (e - c) |-> Leaf(c + k - 1)]))
ParseOptionalModifiers(c) ==
  IF At(c) \in Modifier THEN ParseModifiers(c) ELSE Ok(c, Node("Modifiers", c, c, <<>>))

ParsePrimaryPreIdentifier(c) ==
  IF At(c) = "@" THEN Ok(After(c), Bare("any", <<>>))
  ELSE Expect(c, Primary,
         Then(ParsePrimaryExpr(c), LAMBDA e : Expect(e.at, {"@"}, Ok(After(e.at), e.ast))))
(* ParsePrimaryPostIdentifier goes behind a colon, but stays on a ;        *)
ParsePrimaryPostIdentifier(c) ==
  IF At(c) = "@" THEN Ok(After(c), Bare("any", <<>>))
  ELSE Expect(c, Primary,
         Then(ParsePrimaryExpr(c),
              LAMBDA e : Expect(e.at, {":", ";"},
                                Ok(IF At(e.at) = ":" THEN After(e.at) ELSE e.at, e.ast))))

(* ParseConditionalSubExpression goes on behind the scope wherever the     *)
(* expression in it ended.                                                 *)
ParseConditionalSubExpression(c) ==
  LET end == FindScope(c, "(")
  IN IF end = 0 \/ At(After(c)) \notin Primary THEN Fail
     ELSE Then(ParsePrimaryExpr(After(c)), LAMBDA e : Ok(end, e.ast))

(* ParseMethodParameters.  A parameter that begins with an identifier is   *)
(* that identifier, of type any, whatever else it holds.                   *)
TypedParameter(p) ==
  LET m == ParseOptionalModifiers(p)
  IN Then(Expect(m.at, Primary \cup {"@"}, ParsePrimaryPreIdentifier(m.at)),
          LAMBDA w : Expect(w.at, {"Ident"},
            Ok(After(w.at), Bare("MethodParameter", <<m.ast, w.ast, Leaf(w.at)>>))))
MethodParameter(scope) ==
  LET p == scope[1] + 1
  IN IF p > Len(toks) THEN UB
     ELSE IF At(p) = "Ident"
          THEN Ok(p, Node("MethodParameter", p, p,
                          <<Bare("Modifiers", <<Bare("NONE", <<>>)>>), Bare("any", <<>>), Leaf(p)>>))
     ELSE IF \E k \in p .. (scope[2] - 2) : At(k) = "@" THEN TypedParameter(p)
     ELSE Fail
VoidParameter == <<Bare("MethodParameter", <<Bare("MethodVoid", <<>>)>>)>>
MethodParametersRule(acc, scopes) ==
  IF scopes = <<>> THEN acc
  ELSE Then(MethodParameter(Head(scopes)),
            LAMBDA r : MethodParameters(ExtractAndAdvance(acc, r), Tail(scopes)))
ParseMethodParameters(c) ==
  LET scopes == FindSeperatedParen(c + 1, c, <<>>, <<>>)
      params == MethodParameters(Ok(c, Bare("MethodParameterList", <<>>)), scopes)
  IN IF At(After(c)) = ")"
     THEN Ok(Advance(c, 2), Node("MethodParameterList", c, Advance(c, 2), VoidParameter))
     ELSE IF scopes = <<>> THEN UB
     ELSE Then(params, LAMBDA r : Ok(Last(scopes)[2], r.ast))

(* ParseMethodReturnParameters and the part of ParseMethodSignature that   *)
(* follows a >.  Without parameters the return type becomes the token      *)
(* behind it (the head of the result, not its tree).                       *)
Signature(params, ret) == Bare("MethodSignature", <<params, Bare("MethodReturnType", <<ret>>)>>)
ParseMethodReturnParameters(c) ==
  LET m == IF At(c) \in Modifier THEN ParseModifiers(c) ELSE Ok(c, Bare("NONE", <<>>))
  IN Expect(m.at, Primary,
       Then(ParsePrimaryPostIdentifier(m.at),
            LAMBDA w : Ok(w.at, Bare("MethodReturnType",
                                     IF At(c) \in Modifier THEN <<m.ast, w.ast>> ELSE <<w.ast>>))))
Returned(c, params, typed(_)) ==
  CASE At(c) = ":" -> Ok(After(c), Signature(params, Bare("any", <<>>)))
    [] At(c) = ";" -> Ok(c, Signature(params, Bare("any", <<>>)))
    [] OTHER -> Then(ParseMethodReturnParameters(c),
                     LAMBDA r : Ok(r.at, Bare("MethodSignature", <<params, typed(r)>>)))
ParseMethodSignature(c) ==
  LET void == Bare("MethodVoid", <<>>)
      noParams == Bare("MethodParameterList", VoidParameter)
  IN CASE At(c) = ":" -> Ok(c, Signature(noParams, void))
       [] At(c) = ">" -> Returned(After(c), noParams, LAMBDA r : Leaf(r.at))
       [] At(c) = "(" ->
            Then(ParseMethodParameters(c),
                 LAMBDA p : CASE At(p.at) = ";" -> Ok(p.at, Signature(p.ast, void))
                              [] At(p.at) = ":" -> Ok(After(p.at), Signature(p.ast, void))
                              [] At(p.at) = ">" -> Returned(After(p.at), p.ast, LAMBDA r : r.ast)
                              [] OTHER -> Fail)
       [] OTHER -> Fail

------------------------------------------------------------------------------
(* Statements and declarations.                                            *)

(* What may begin a statement of a function body (ParseFunctionalStmt), of *)
(* a class or library (ParsePragmaticStmt), of a process                   *)
(* (ParsePragmaticDesc) and of a file (ParseDirectiveDesc): the keywords   *)
(* that take no modifiers, those that do, and whether an expression may.   *)
FunctionalStmt ==
  [direct |-> {"if", "while", "for", "return", "using", "import"},
   modified |-> {"def", "fn", "class"}, first |-> DirectiveFirstSet]
PragmaticStmt ==
  [direct |-> {"using", "main", "import", "enum", "return"},
   modified |-> {"def", "fn", "class", "lib"}, first |-> Pragmatic]
PragmaticDesc ==
  [direct |-> {"using", "main", "import", "enum"},
   modified |-> {"def", "fn", "class"}, first |-> PragmaticFirstSet]
DirectiveDesc ==
  [direct |-> {"using", "main", "import", "enum", "return"},
   modified |-> {"def", "fn", "class", "lib", "proc"}, first |-> DirectiveFirstSet]

(* The statements of a block up to end; with end 0, up to its }.           *)
StatementsRule(kind, end, acc) ==
  IF IF end = 0 THEN At(acc.at) = "}" ELSE acc.at = end THEN Ok(After(acc.at), acc.ast)
  ELSE Then(Statement(kind, acc.at), LAMBDA s : Statements(kind, end, ExtractAndAdvance(acc, s)))
(* ParseMainDef, ParseClassDef and ParseLibDef look for the } first.       *)
FoundBlock(kind, type, c) ==
  IF FindScope(c, "{") = 0 THEN Fail
  ELSE Statements(kind, FindScope(c, "{") - 1, Ok(After(c), Bare(type, <<>>)))
ParseMethodDef(c) ==
  Expect(c, {"{"}, Statements(FunctionalStmt, 0, Ok(After(c), Bare("MethodDefinition", <<>>))))
ParseMainDef(c) == FoundBlock(FunctionalStmt, "MainDefinition", c)
Unended(r) == Then(r, LAMBDA d : Ok(IF At(d.at) = ";" THEN After(d.at) ELSE d.at, d.ast))
ParseClassDef(c) == Unended(FoundBlock(PragmaticStmt, "ClassDefinition", c))
ParseLibDef(c) == Unended(FoundBlock(PragmaticStmt, "LibraryDefinition", c))

(* The node of a declaration begins at its modifiers and ends at its ;     *)
Declared(type, c, kids, r) == Then(r, LAMBDA d : Ok(d.at, Node(type, c, d.at, Append(kids, d.ast))))
Undefined(type, c, kids, end) == Ok(end, Node(type, c, end, kids))

ParseReturnStmt(c) ==
  IF At(After(c)) = ";" THEN Ok(Advance(c, 2), Bare("return", <<>>))
  ELSE Then(ParsePrimaryStatement(After(c)), LAMBDA e : Ok(e.at, Bare("return", <<e.ast>>)))

VariableDefinition(c) ==
  Then(ParsePrimaryStatement(c),
       LAMBDA d : Ok(d.at, Node("VariableDefinition", c, d.at, <<d.ast>>)))
VariableNamed(c, m, w) ==
  LET colon == After(w.at)
      kids == <<m.ast, w.ast, Leaf(w.at)>>
  IN IF At(w.at) # "Ident" THEN Fail
     ELSE CASE At(colon) = ":" ->
                 Declared("VariableDeclaration", c, kids, VariableDefinition(After(colon)))
            [] At(colon) = ";" -> Undefined("VariableDeclaration", c, kids, After(colon))
            [] OTHER -> Fail
ParseVariableDecl(c) ==
  LET m == ParseOptionalModifiers(c)
  IN Expect(m.at, {"def"},
       Then(ParsePrimaryPreIdentifier(After(m.at)), LAMBDA w : VariableNamed(c, m, w)))

(* The block of a main, a method or a loop ends with a ;                   *)
Closed(r) == Then(r, LAMBDA d : Expect(d.at, {";"}, Ok(After(d.at), d.ast)))

(* The signature of a function may already be behind its colon.            *)
MethodSigned(c, m, ident, s) ==
  LET colon == IF At(s.at - 1) = ":" THEN s.at - 1 ELSE s.at
      kids == <<m.ast, Leaf(ident), s.ast>>
  IN CASE At(colon) = ":" ->
            Declared("MethodDeclaration", c, kids, Closed(ParseMethodDef(After(colon))))
       [] At(colon) = ";" -> Undefined("MethodDeclaration", c, kids, After(colon))
       [] OTHER -> Fail
ParseMethodDecl(c) ==
  LET m == ParseOptionalModifiers(c)
      ident == Advance(m.at, 2)
      sig == IF At(After(ident)) \in {":", ";"}
             THEN Ok(After(ident), Node("MethodSignature", After(ident), After(ident), <<>>))
             ELSE ParseMethodSignature(After(ident))
  IN IF At(After(m.at)) = "@" /\ At(ident) = "Ident"
     THEN Then(sig, LAMBDA s : MethodSigned(c, m, ident, s)) ELSE Fail

ParseClassDecl(c) ==
  LET m == ParseOptionalModifiers(c)
      ident == Advance(m.at, 2)
      kids == <<m.ast, Leaf(ident)>>
  IN IF At(After(m.at)) # "@" \/ At(ident) # "Ident" THEN Fail
     ELSE CASE At(After(ident)) = ":" ->
                 Declared("ClassDeclaration", c, kids, ParseClassDef(Advance(ident, 2)))
            [] At(After(ident)) = ";" -> Undefined("ClassDeclaration", c, kids, Advance(ident, 2))
            [] OTHER -> Fail

(* ParseLibDecl and ParseProcDecl go on when the @, the name or the colon  *)
(* is another token.                                                       *)
NamedBlock(type, c, def(_)) ==
  LET m == ParseOptionalModifiers(c)
      ident == Advance(m.at, 2)
      kids == <<m.ast, Leaf(ident)>>
  IN IF At(After(m.at)) = ":" THEN Declared(type, c, <<m.ast>>, def(ident))
     ELSE IF At(After(ident)) = ";" THEN Undefined(type, c, kids, Advance(ident, 2))
     ELSE Declared(type, c, kids, def(Advance(ident, 2)))
ParseLibDecl(c) == NamedBlock("LibraryDeclaration", c, ParseLibDef)

(* ParseProcDef: the block of a process is left only by a failure, since   *)
(* its loop ends at the end of the file instead of at the }.               *)
ProcBlockRule(c) ==
  Expect(c, PragmaticFirstSet, Then(Statement(PragmaticDesc, c), LAMBDA s : ProcBlock(s.at)))
ParseProcDef(c) ==
  IF At(c) = "{" THEN ProcBlock(After(c))
  ELSE Then(Statement(PragmaticDesc, c),
            LAMBDA s : Ok(s.at, Bare("ProcessDefinition", <<s.ast>>)))
ParseProcDecl(c) == NamedBlock("ProcessDeclaration", c, ParseProcDef)

ParseImportDecl(c) ==
  IF At(After(c)) = "Ident" /\ At(Advance(c, 2)) = ";"
  THEN Undefined("ImportDeclaration", c, <<Leaf(After(c))>>, Advance(c, 3))
  ELSE Fail

ParseMainDecl(c) ==
  LET sig == IF At(After(c)) = ":" THEN Ok(Advance(c, 2), Bare("MethodSignature", <<>>))
             ELSE ParseMethodSignature(After(c))
  IN Then(sig, LAMBDA s : Declared("MainDeclaration", c, <<s.ast>>, Closed(ParseMainDef(s.at))))

(* ParseUsingDecl: the name and the colon of an alias are not looked at.   *)
ParseUsingDecl(c) ==
  LET of(type, kids, at) == Declared(type, c, kids, ParsePrimaryStatement(at))
      alias == <<Leaf(Advance(c, 2))>>
  IN CASE At(After(c)) = "@" ->
            IF At(Advance(c, 4)) = "lib" THEN of("LibraryTypeAlias", alias, Advance(c, 5))
            ELSE of("TypeAlias", alias, Advance(c, 4))
       [] At(After(c)) = "lib" -> of("LibraryNamespaceInclusion", <<>>, Advance(c, 2))
       [] At(After(c)) = "namespace" -> of("NamespaceInclusion", <<>>, Advance(c, 2))
       [] OTHER -> of("NamespaceObjectInclusion", <<>>, After(c))

(* ParseIfDecl.  A branch is a keyword, but for else a condition, and a    *)
(* block.  A ; ends the statement, but only behind the first branch.       *)
Block(c, kids, at) == Declared(At(c), c, kids, ParseMethodDef(at))
Branch(c) ==
  IF At(c) = "else" THEN Block(c, <<>>, After(c))
  ELSE Then(ParseConditionalSubExpression(After(c)), LAMBDA b : Block(c, <<b.ast>>, b.at))
ParseIfBranchesRule(acc, words) ==
  IF At(acc.at) \notin words THEN acc
  ELSE Then(Branch(acc.at),
            LAMBDA b : ParseIfBranches(ExtractAndAdvance(acc, b),
                                       IF At(acc.at) = "else" THEN {} ELSE words))
FirstBranch(c, b) ==
  LET first == ExtractAndAdvance(Ok(c, Bare("IfStatement", <<>>)), b)
  IN IF At(first.at) = ";" THEN Ok(After(first.at), first.ast)
     ELSE ParseIfBranches(first, {"elif", "else"})
ParseIfDecl(c) == Then(Branch(c), LAMBDA b : FirstBranch(c, b))

ParseWhileDecl(c) ==
  Then(ParseConditionalSubExpression(After(c)), LAMBDA e :
    Declared("while", c, <<e.ast>>, Closed(ParseMethodDef(e.at))))

Also(acc, r) == Then(r, LAMBDA x : ExtractAndAdvance(acc, x))
ForInit(a) == IF At(a.at) = "def" THEN Also(a, ParseVariableDecl(a.at)) ELSE a
ForCondition(a) == Also(a, ParsePrimaryExpr(a.at))
ForIncrement(a) == IF At(a.at) # ";" THEN a ELSE Also(a, ParsePrimaryExpr(After(a.at)))
ForBody(a) == Expect(a.at, {")"}, Also(a, ParseMethodDef(After(a.at))))
ParseForDecl(c) ==
  LET head == Then(ForInit(Ok(Advance(c, 2), Bare("NONE", <<>>))), ForCondition)
      body == Then(Then(head, ForIncrement), ForBody)
  IN Expect(After(c), {"("},
       Then(body, LAMBDA b : Ok(b.at, [b.ast EXCEPT !.from = c, !.to = b.at])))

(* ParseEnumDef reads the associations and forgets them; ParseEnumBlock    *)
(* goes behind neither the entry nor the block of a category (using), and  *)
(* fails at the token it stays on.                                         *)
EnumHeaderRule(c) ==
  IF At(c) = "{" THEN Ok(c, Bare("EnumDefinition", <<>>))
  ELSE Then(ParsePrimaryPreIdentifier(c), LAMBDA w : EnumHeader(Advance(w.at, 2)))
InitializersRule(acc) ==
  IF At(acc.at) = ";" THEN Ok(After(acc.at), acc.ast)
  ELSE Expect(acc.at, {":"},
         Then(ParsePrimaryPostIdentifier(After(acc.at)),
              LAMBDA e : Initializers(ExtractAndAdvance(acc, e))))
EnumEntriesRule(acc) ==
  LET name == After(acc.at)
  IN IF At(acc.at) = "}" THEN Ok(After(acc.at), acc.ast)
     ELSE Expect(acc.at, {"@"},
            Then(Initializers(Ok(After(name), Node("EnumEntry", name, After(name), <<>>))),
                 LAMBDA e : EnumEntries(ExtractAndAdvance(acc, e))))
ParseEnumBlock(c) == EnumEntries(Ok(After(c), Bare("EnumBlock", <<>>)))
ParseEnumDef(c) ==
  Then(EnumHeader(c), LAMBDA h :
    Then(ParseEnumBlock(h.at), LAMBDA b : ExtractAndAdvance(h, b)))
ParseEnumDecl(c) ==
  LET ident == Advance(c, 2)
      kids == <<Node("Modifiers", c, c, <<>>), Leaf(ident)>>
  IN IF At(After(c)) # "@" \/ At(ident) # "Ident" THEN Fail
     ELSE CASE At(After(ident)) = ":" ->
                 Declared("EnumDeclaration", c, kids, ParseEnumDef(Advance(ident, 2)))
            [] At(After(ident)) = ";" -> Undefined("EnumDeclaration", c, kids, Advance(ident, 2))
            [] OTHER -> Fail

Declaration(word, c) ==
  CASE word = "if" -> ParseIfDecl(c)
    [] word = "while" -> ParseWhileDecl(c)
    [] word = "for" -> ParseForDecl(c)
    [] word = "return" -> ParseReturnStmt(c)
    [] word = "using" -> ParseUsingDecl(c)
    [] word = "import" -> ParseImportDecl(c)
    [] word = "main" -> ParseMainDecl(c)
    [] word = "enum" -> ParseEnumDecl(c)
    [] word = "def" -> ParseVariableDecl(c)
    [] word = "fn" -> ParseMethodDecl(c)
    [] word = "class" -> ParseClassDecl(c)
    [] word = "lib" -> ParseLibDecl(c)
    [] word = "proc" -> ParseProcDecl(c)
StatementRule(kind, c) ==
  LET word == At(ModifiersEnd(c))
  IN IF At(c) \notin kind.first THEN Fail
     ELSE IF At(c) \in Primary THEN ParsePrimaryStatement(c)
     ELSE IF At(c) \in kind.direct THEN Declaration(At(c), c)
     ELSE IF word \in kind.modified THEN Declaration(word, c)
     ELSE Fail

(* ParseSyntax: the program of a file.                                     *)
ParseSyntax == Statements(DirectiveDesc, Len(toks) + 1, Ok(1, Bare("Program", <<>>)))

------------------------------------------------------------------------------
Production(goal) ==
  LET rule == goal[1]
  IN CASE rule = "ParseBinary" -> ParseBinaryRule(goal[2], goal[3])
       [] rule = "FoldBinary" -> FoldBinaryRule(goal[2], goal[3])
       [] rule = "ParsePrefix" -> ParsePrefixRule(goal[2])
       [] rule = "ParseSubexpr" -> ParseSubexprRule(goal[2])
       [] rule = "FoldResolution" -> FoldResolutionRule(goal[2])
       [] rule = "FoldPostfix" -> FoldPostfixRule(goal[2])
       [] rule = "FindSeperatedParen" -> FindSeperatedParenRule(goal[2], goal[3], goal[4], goal[5])
       [] rule = "MethodParameters" -> MethodParametersRule(goal[2], goal[3])
       [] rule = "Statement" -> StatementRule(goal[2], goal[3])
       [] rule = "Statements" -> StatementsRule(goal[2], goal[3], goal[4])
       [] rule = "ParseIfBranches" -> ParseIfBranchesRule(goal[2], goal[3])
       [] rule = "ProcBlock" -> ProcBlockRule(goal[2])
       [] rule = "EnumHeader" -> EnumHeaderRule(goal[2])
       [] rule = "Initializers" -> InitializersRule(goal[2])
       [] rule = "EnumEntries" -> EnumEntriesRule(goal[2])
=============================================================================

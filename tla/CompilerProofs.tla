--------------------------- MODULE CompilerProofs ---------------------------
(***************************************************************************)
(* Proofs about the program cnd, for texts and command lines of any        *)
(* length.  First with a parser that answers anything and expressions that *)
(* evaluate to anything: the tokens tile the text, in the first view,      *)
(* which holds the NUL, and in the later ones; the files translated are    *)
(* those the line names; the variables have their types; every step leaves *)
(* less to do.  Then with the parser of cnd, whose trees are right at      *)
(* every node (ParserProofs), and with its evaluator, whose values stay in *)
(* the range of their kind.                                                *)
(***************************************************************************)
EXTENDS Program, FiniteSetTheorems, SequenceTheorems, WellFoundedInduction, TLAPS

(* Numbers.                                                                *)

\* A set of numbers has a least one.
LEMMA LeastNumber ==
  ASSUME NEW T \in SUBSET Nat, T # {}
  PROVE  \E x \in T : \A y \in T : x <= y
<1>1. PICK n : n \in T
  OBVIOUS
<1> DEFINE S == 0 .. n
           below == {0 .. x : x \in T \cap S}
<1>2. IsFiniteSet(S) /\ FiniteSubsetsOf(S) = SUBSET S
  <2>1. IsFiniteSet(0 .. n)
    BY <1>1, FS_Interval
  <2>2. QED
    BY <2>1, FS_FiniteSubsetsOfFinite
<1>3. IsWellFoundedOn(StrictSubsetOrdering(S), SUBSET S)
  BY <1>2, FS_StrictSubsetOrderingWellFounded
<1>4. below \subseteq SUBSET S /\ below # {}
  BY <1>1
<1>5. PICK X \in below : \A Y \in below : ~(<<Y, X>> \in StrictSubsetOrdering(S))
  <2> HIDE DEF below, S
  <2>1. QED
    BY <1>3, <1>4, WFMin
<1>6. PICK x \in T \cap S : X = 0 .. x
  BY <1>5
<1>7. ASSUME NEW y \in T, y < x PROVE FALSE
  <2>1. 0 .. y \in below
    BY <1>1, <1>6, <1>7
  <2>2. (0 .. y) \subseteq X /\ (0 .. y) # X /\ X \in SUBSET S /\ (0 .. y) \in SUBSET S
    BY <1>1, <1>6, <1>7
  <2>3. <<0 .. y, X>> \in StrictSubsetOrdering(S)
    BY <2>2 DEF StrictSubsetOrdering
  <2>4. QED
    BY <1>5, <2>1, <2>3
<1>8. QED
  BY <1>6, <1>7

\* A set of numbers up to n has a greatest one.
LEMMA GreatestNumber ==
  ASSUME NEW n \in Nat, NEW T \in SUBSET (1 .. n), T # {}
  PROVE  Max(T) \in T
<1> DEFINE U == {k \in Nat : n - k \in T}
<1>1. U \in SUBSET Nat /\ U # {}
  <2>1. PICK x : x \in T
    OBVIOUS
  <2>2. n - x \in Nat /\ n - (n - x) = x
    BY <2>1
  <2>3. QED
    BY <2>1, <2>2
<1>2. PICK u \in U : \A v \in U : u <= v
  <2> HIDE DEF U
  <2>1. QED
    BY <1>1, LeastNumber
<1>3. u \in Nat /\ n - u \in T
  BY <1>2
<1>4. \A y \in T : n - u >= y
  <2> SUFFICES ASSUME NEW y \in T PROVE n - u >= y
    OBVIOUS
  <2>1. y \in Nat /\ n - y \in Nat /\ n - (n - y) = y
    OBVIOUS
  <2>2. n - y \in U
    BY <2>1
  <2> HIDE DEF U
  <2>3. u <= n - y
    BY <1>2, <2>2
  <2>4. QED
    BY <1>3, <2>1, <2>3
<1> HIDE DEF U
<1>5. QED
  BY <1>3, <1>4 DEF Max

-----------------------------------------------------------------------------
(* The lexer.                                                              *)

TokenTypes ==
  {"Newline", "Whitespace", "LineComment", "BlockComment", "LitCstr", "LitBool", "LitUint",
   "LitByte", "LitReal", "LitInt", "Ident", "<<="}
  \cup Keywords \cup LongPunctuators \cup ShortPunctuators
Tokens == [type : TokenTypes, lo : Int, hi : Int]
HeadFits == Len(text) \in Nat /\ head \in 1 .. (Len(text) + 1)
LexInv ==
  /\ HeadFits /\ tokens \in Seq(Tokens) /\ lexing \in {"run", "done", "failed", "ub"}
  /\ tokens = <<>> => head = 1
  /\ LexTiles
LexAdvances == text' = text /\ (head' > head \/ (head' = head /\ lexing' # "run"))

\* A token that begins at the read head and ends in the text.
EndsInText(tk) == tk \in Tokens /\ tk.lo = head /\ tk.hi \in (head + 1) .. (Len(text) + 1)

\* A character of a class without the NUL lies in the text.
LEMMA InText ==
  ASSUME HeadFits, NEW i \in Nat, Char(i) # Nul
  PROVE  i <= Len(text)
BY DEF HeadFits, Char

LEMMA Views == ASSUME HeadFits PROVE ViewEnd \in {Len(text) + 1, Len(text) + 2}
BY DEF HeadFits, ViewEnd

\* Where the characters stop that a loop of the lexer passes.
LEMMA FirstStop ==
  ASSUME HeadFits, NEW i \in 1 .. ViewEnd, NEW P
  PROVE  \E j \in i .. ViewEnd :
           /\ j = ViewEnd \/ Char(j) \notin P
           /\ \A k \in i .. (j - 1) : Char(k) \in P
<1> DEFINE T == {j \in i .. ViewEnd : j = ViewEnd \/ Char(j) \notin P}
<1>1. ViewEnd \in Nat
  BY Views DEF HeadFits
<1>2. T \in SUBSET Nat /\ ViewEnd \in T
  BY <1>1
<1>3. PICK j \in T : \A k \in T : j <= k
  <2> HIDE DEF T
  <2>1. QED
    BY <1>2, LeastNumber
<1>4. \A k \in i .. (j - 1) : Char(k) \in P
  BY <1>1, <1>3
<1>5. QED
  BY <1>3, <1>4

\* The run of characters of a class ends in the view, and in the text unless the
\* class holds the NUL.
LEMMA RunEnds ==
  ASSUME HeadFits, NEW i \in 1 .. (Len(text) + 1), NEW class, Nul \notin class
  PROVE  /\ RunEnd(i, class) \in i .. (Len(text) + 1)
         /\ Char(i) \in class => RunEnd(i, class) > i
<1>1. i \in 1 .. ViewEnd
  BY Views DEF HeadFits
<1> DEFINE j == RunEnd(i, class)
<1>2. /\ j \in i .. ViewEnd
      /\ j = ViewEnd \/ Char(j) \notin class
      /\ \A k \in i .. (j - 1) : Char(k) \in class
  BY <1>1, FirstStop DEF RunEnd
<1>3. j <= Len(text) + 1
  <2>1. SUFFICES ASSUME j > Len(text) + 1 PROVE FALSE
    BY <1>2, Views DEF HeadFits
  <2>2. Char(Len(text) + 1) \in class
    BY <1>2, <2>1, Views DEF HeadFits
  <2>3. Char(Len(text) + 1) = Nul
    BY DEF HeadFits, Char
  <2>4. QED
    BY <2>2, <2>3
<1>4. Char(i) \in class => j > i
  <2>1. SUFFICES ASSUME Char(i) \in class, j = i PROVE FALSE
    BY <1>2, Views DEF HeadFits
  <2>2. i = ViewEnd
    BY <1>2, <2>1
  <2>3. i <= Len(text)
    BY <2>1, InText
  <2>4. QED
    BY <2>2, <2>3, Views DEF HeadFits
<1>5. QED
  BY <1>2, <1>3, <1>4, Views DEF HeadFits

-----------------------------------------------------------------------------
(* The tokens.                                                             *)

LEMMA NulHasNoClass ==
  /\ Nul \notin IsSrcCharNumeric /\ Nul \notin IsSrcCharAlnumus
  /\ Nul \notin IsSrcCharNewline /\ Nul \notin IsSrcCharWhitespace
BY DEF Nul, IsSrcCharNumeric, IsSrcCharAlnumus, IsSrcCharAlphaUnderscore, IsSrcCharAlpha,
       IsSrcCharNewline, IsSrcCharWhitespace, IsSrcCharSpace

LEMMA TokenFits ==
  ASSUME HeadFits, NEW type \in TokenTypes, NEW i \in (head + 1) .. (Len(text) + 1)
  PROVE  EndsInText(Tk(type, i))
BY DEF EndsInText, Tk, Tokens, HeadFits

LEMMA RunToken ==
  ASSUME HeadFits, NEW class, Nul \notin class, Char(head) \in class, NEW type \in TokenTypes
  PROVE  EndsInText(Tk(type, RunEnd(head, class)))
<1>1. head \in 1 .. (Len(text) + 1)
  BY DEF HeadFits
<1>2. RunEnd(head, class) \in (head + 1) .. (Len(text) + 1)
  BY <1>1, RunEnds DEF HeadFits
<1>3. QED
  BY <1>1, <1>2 DEF EndsInText, Tk, Tokens, HeadFits

LEMMA NumberFits ==
  ASSUME HeadFits, Char(head) \in IsSrcCharNumeric
  PROVE  EndsInText(LexNumber)
<1> DEFINE digits == RunEnd(head, IsSrcCharNumeric)
           fraction == RunEnd(digits + 1, IsSrcCharNumeric)
           Ends(i) == i \in (head + 1) .. (Len(text) + 1)
<1>1. head \in Nat /\ head >= 1 /\ Len(text) \in Nat
  BY DEF HeadFits
<1>2. digits \in (head + 1) .. (Len(text) + 1)
  BY <1>1, RunEnds, NulHasNoClass DEF HeadFits
<1>3. \A i \in Nat : Char(i) \in {"b", "u", "c", ".", "f", "r"} => i <= Len(text)
  BY InText DEF Nul
<1>4. ASSUME Char(digits) = "." PROVE Ends(fraction) /\ (Char(fraction) \in {"f", "r"} => Ends(fraction + 1))
  <2> HIDE DEF digits
  <2>1. digits + 1 \in 1 .. (Len(text) + 1)
    BY <1>1, <1>2, <1>3, <1>4
  <2>2. \A i \in 1 .. (Len(text) + 1) : RunEnd(i, IsSrcCharNumeric) \in i .. (Len(text) + 1)
    BY RunEnds, NulHasNoClass
  <2>3. fraction \in (digits + 1) .. (Len(text) + 1)
    BY <2>1, <2>2
  <2> HIDE DEF fraction
  <2>4. QED
    BY <1>1, <1>2, <1>3, <2>3
<1>5. Char(digits) \in {"u", "c"} => Ends(digits + 1)
  BY <1>1, <1>2, <1>3
<1>6. Char(head + 1) = "b" => Ends(head + 2)
  BY <1>1, <1>3
<1>7. \A type \in TokenTypes : \A i : Ends(i) => EndsInText(Tk(type, i))
  BY TokenFits
<1> HIDE DEF digits, fraction, Ends
<1>8. \/ Char(head + 1) = "b" /\ LexNumber = Tk("LitBool", head + 2)
      \/ Char(digits) = "u" /\ LexNumber = Tk("LitUint", digits + 1)
      \/ Char(digits) = "c" /\ LexNumber = Tk("LitByte", digits + 1)
      \/ Char(digits) = "." /\ LexNumber = Tk("LitReal", IF Char(fraction) \in {"f", "r"} THEN fraction + 1 ELSE fraction)
      \/ LexNumber = Tk("LitInt", digits)
  BY DEF LexNumber, digits, fraction
<1>9. Ends(digits)
  BY <1>2 DEF Ends
<1>10. \A type \in {"LitBool", "LitUint", "LitByte", "LitReal", "LitInt"} : type \in TokenTypes
  BY DEF TokenTypes
<1>11. QED
  BY <1>4, <1>5, <1>6, <1>7, <1>8, <1>9, <1>10

LEMMA IdentifierFits ==
  ASSUME HeadFits, Char(head) \in IsSrcCharAlphaUnderscore
  PROVE  EndsInText(LexIdentifier)
<1>1. Char(head) \in IsSrcCharAlnumus
  BY DEF IsSrcCharAlnumus
<1>2. \A type \in TokenTypes : EndsInText(Tk(type, RunEnd(head, IsSrcCharAlnumus)))
  BY <1>1, RunToken, NulHasNoClass
<1>3. "Ident" \in TokenTypes /\ Keywords \subseteq TokenTypes
  BY DEF TokenTypes
<1>4. QED
  BY <1>2, <1>3, Zenon DEF LexIdentifier

LEMMA PunctuatorFits ==
  ASSUME HeadFits, Char(head) \in ShortPunctuators
  PROVE  EndsInText(LexPunctuator)
<1>1. head \in Nat /\ head >= 1 /\ Len(text) \in Nat
  BY DEF HeadFits
<1>2. head <= Len(text)
  BY <1>1, InText DEF ShortPunctuators, Nul
<1>3. Char(head) \in TokenTypes /\ LongPunctuators \subseteq TokenTypes /\ "<<=" \in TokenTypes
  BY DEF TokenTypes
<1>4. Spelling(head, 2) \in LongPunctuators => head < Len(text)
  <2>1. SUFFICES ASSUME head = Len(text), Spelling(head, 2) \in LongPunctuators PROVE FALSE
    BY <1>1, <1>2
  <2>2. Spelling(head, 2) = Char(head)
    BY <1>1, <2>1 DEF Spelling, Char
  <2>3. QED
    BY <2>1, <2>2 DEF LongPunctuators, ShortPunctuators
<1>5. Char(head + 2) = "=" => head + 2 <= Len(text)
  <2>1. \A i \in Nat : Char(i) = "=" => i <= Len(text)
    BY InText DEF Nul
  <2>2. QED
    BY <1>1, <2>1
<1>6. CASE Spelling(head, 2) = "<<" /\ Char(head + 2) = "="
  <2>1. LexPunctuator = Tk("<<=", head + 3) /\ head + 3 \in (head + 1) .. (Len(text) + 1)
    BY <1>1, <1>5, <1>6 DEF LexPunctuator
  <2>2. QED
    BY <1>3, <2>1, TokenFits
<1>7. CASE ~(Spelling(head, 2) = "<<" /\ Char(head + 2) = "=") /\ Spelling(head, 2) \in LongPunctuators
  <2>1. LexPunctuator = Tk(Spelling(head, 2), head + 2) /\ head + 2 \in (head + 1) .. (Len(text) + 1)
    BY <1>1, <1>2, <1>4, <1>7 DEF LexPunctuator
  <2>2. QED
    BY <1>3, <1>7, <2>1, TokenFits
<1>8. CASE ~(Spelling(head, 2) = "<<" /\ Char(head + 2) = "=") /\ Spelling(head, 2) \notin LongPunctuators
  <2>1. LexPunctuator = Tk(Char(head), head + 1) /\ head + 1 \in (head + 1) .. (Len(text) + 1)
    BY <1>1, <1>2, <1>8 DEF LexPunctuator
  <2>2. QED
    BY <1>3, <2>1, TokenFits
<1>9. QED
  BY <1>6, <1>7, <1>8

LEMMA LiteralFits ==
  ASSUME HeadFits, ClosingMarks # {}
  PROVE  EndsInText(LexEscapedCharSequence)
<1>1. head \in Nat /\ head >= 1 /\ Len(text) \in Nat
  BY DEF HeadFits
<1>2. ClosingMarks \in SUBSET Nat /\ ClosingMarks \subseteq (head + 1) .. Len(text)
  BY <1>1 DEF ClosingMarks
<1> DEFINE first == CHOOSE i \in ClosingMarks : \A j \in ClosingMarks : i <= j
<1>3. first \in ClosingMarks
  BY <1>2, LeastNumber
<1>4. LexEscapedCharSequence = Tk("LitCstr", first + 1)
  BY DEF LexEscapedCharSequence
<1> HIDE DEF first
<1>5. first + 1 \in (head + 1) .. (Len(text) + 1) /\ "LitCstr" \in TokenTypes
  BY <1>1, <1>2, <1>3 DEF TokenTypes
<1>6. QED
  BY <1>4, <1>5, TokenFits

LEMMA BlockFits ==
  ASSUME HeadFits, BlockEnds # {}
  PROVE  EndsInText(LexBlockComment)
<1>1. head \in Nat /\ head >= 1 /\ Len(text) \in Nat
  BY DEF HeadFits
<1>2. BlockEnds \in SUBSET Nat /\ BlockEnds \subseteq (head + 2) .. (Len(text) - 1)
  BY <1>1 DEF BlockEnds
<1> DEFINE first == CHOOSE i \in BlockEnds : \A j \in BlockEnds : i <= j
<1>3. first \in BlockEnds
  BY <1>2, LeastNumber
<1>4. LexBlockComment = Tk("BlockComment", first + 2)
  BY DEF LexBlockComment
<1> HIDE DEF first
<1>5. first + 2 \in (head + 1) .. (Len(text) + 1) /\ "BlockComment" \in TokenTypes
  BY <1>1, <1>2, <1>3 DEF TokenTypes
<1>6. QED
  BY <1>4, <1>5, TokenFits

LEMMA LineFits ==
  ASSUME HeadFits, Char(head) = Backtick, ~(LineCommentEnd > Len(text) + 1)
  PROVE  EndsInText(Tk("LineComment", LineCommentEnd))
<1>1. head \in Nat /\ head >= 1 /\ Len(text) \in Nat
  BY DEF HeadFits
<1>2. head <= Len(text)
  BY <1>1, InText DEF Backtick, Nul
<1>3. ViewEnd \in Nat /\ head + 1 <= ViewEnd
  BY <1>1, <1>2, Views
<1> DEFINE T == {j \in (head + 1) .. ViewEnd : j = ViewEnd \/ Char(j) \in IsSrcCharNewline}
<1>4. T \in SUBSET Nat /\ ViewEnd \in T
  BY <1>1, <1>3
<1>5. PICK j \in T : \A k \in T : j <= k
  <2> HIDE DEF T
  <2>1. QED
    BY <1>4, LeastNumber
<1>6. \A k \in (head + 1) .. (j - 1) : Char(k) \notin IsSrcCharNewline
  BY <1>1, <1>3, <1>5
<1>7. LineCommentEnd \in (head + 1) .. ViewEnd
  BY <1>5, <1>6 DEF LineCommentEnd
<1>8. QED
  BY <1>1, <1>3, <1>7 DEF EndsInText, Tk, Tokens, TokenTypes

-----------------------------------------------------------------------------
(* The loop.                                                               *)

\* A token that begins at the read head and ends behind it tiles the text with
\* those before it.
LEMMA PushKeeps ==
  ASSUME LexInv, NEW tk, EndsInText(tk), Push(tk)
  PROVE  LexInv' /\ LexAdvances
<1>1. /\ tokens \in Seq(Tokens) /\ tk \in Tokens /\ head' = tk.hi /\ text' = text
      /\ tokens' = Append(tokens, tk) /\ Len(text) \in Nat /\ head \in Nat /\ Len(tokens) \in Nat
      /\ tk.lo = head /\ tk.hi \in (head + 1) .. (Len(text) + 1)
  BY DEF LexInv, HeadFits, EndsInText, Push
<1>2. /\ tokens' \in Seq(Tokens) /\ Len(tokens') = Len(tokens) + 1 /\ tokens' # <<>>
      /\ tokens'[Len(tokens) + 1] = tk
      /\ \A i \in 1 .. Len(tokens) : tokens'[i] = tokens[i]
  BY <1>1, AppendProperties
<1>3. HeadFits'
  BY <1>1 DEF HeadFits
<1>4. \A i \in DOMAIN tokens' :
        /\ tokens'[i].lo < tokens'[i].hi
        /\ tokens'[i].lo = IF i = 1 THEN 1 ELSE tokens'[i - 1].hi
  <2> SUFFICES ASSUME NEW i \in 1 .. (Len(tokens) + 1)
               PROVE  /\ tokens'[i].lo < tokens'[i].hi
                      /\ tokens'[i].lo = IF i = 1 THEN 1 ELSE tokens'[i - 1].hi
    BY <1>2
  <2>1. CASE i \in 1 .. Len(tokens)
    <3>1. tokens'[i] = tokens[i] /\ (i # 1 => tokens'[i - 1] = tokens[i - 1])
      BY <1>1, <1>2, <2>1
    <3>2. /\ tokens[i].lo < tokens[i].hi
          /\ tokens[i].lo = IF i = 1 THEN 1 ELSE tokens[i - 1].hi
      BY <1>1, <2>1 DEF LexInv, LexTiles
    <3>3. QED
      BY <3>1, <3>2
  <2>2. CASE i = Len(tokens) + 1
    <3>1. tokens'[i] = tk /\ (i # 1 => tokens # <<>> /\ tokens'[i - 1] = tokens[Len(tokens)])
      BY <1>1, <1>2, <2>2
    <3>2. i = 1 => head = 1
      BY <1>1, <2>2 DEF LexInv
    <3>3. i # 1 => head = tokens[Len(tokens)].hi
      BY <3>1 DEF LexInv, LexTiles
    <3>4. QED
      BY <1>1, <3>1, <3>2, <3>3
  <2>3. QED
    BY <1>1, <2>1, <2>2
<1>5. tokens' # <<>> => head' = tokens'[Len(tokens')].hi
  BY <1>1, <1>2
<1>6. lexing' \in {"run", "done"} /\ (lexing' = "done" => head' = Len(text') + 1)
  BY <1>1 DEF Push
<1>7. LexAdvances
  BY <1>1 DEF LexAdvances
<1>8. QED
  BY <1>2, <1>3, <1>4, <1>5, <1>6, <1>7 DEF LexInv, LexTiles

LEMMA StopKeeps ==
  ASSUME LexInv, NEW how \in {"failed", "ub"}, Stop(how)
  PROVE  LexInv' /\ LexAdvances
BY DEF LexInv, HeadFits, LexTiles, Stop, LexAdvances

LEMMA ProcessKeeps ==
  ASSUME LexInv, Process
  PROVE  LexInv' /\ LexAdvances
<1>1. HeadFits
  BY DEF LexInv
<1>2. CASE Newline
  BY <1>1, <1>2, RunToken, NulHasNoClass, PushKeeps DEF Newline, TokenTypes
<1>3. CASE Whitespace
  <2>1. Char(head) \in IsSrcCharWhitespace
    BY <1>3 DEF Whitespace, IsSrcCharWhitespace
  <2>2. QED
    BY <1>1, <1>3, <2>1, RunToken, NulHasNoClass, PushKeeps DEF Whitespace, TokenTypes
<1>4. CASE Identifier
  BY <1>1, <1>4, IdentifierFits, PushKeeps DEF Identifier
<1>5. CASE Number
  BY <1>1, <1>5, NumberFits, PushKeeps DEF Number
<1>6. CASE EscapedCharSequence
  BY <1>1, <1>6, LiteralFits, PushKeeps, StopKeeps DEF EscapedCharSequence
<1>7. CASE LineComment
  BY <1>1, <1>7, LineFits, PushKeeps, StopKeeps DEF LineComment
<1>8. CASE BlockComment
  BY <1>1, <1>8, BlockFits, PushKeeps, StopKeeps DEF BlockComment
<1>9. CASE Punctuator
  BY <1>1, <1>9, PunctuatorFits, PushKeeps, StopKeeps DEF Punctuator
<1>10. CASE Unknown
  BY <1>10, StopKeeps DEF Unknown
<1>11. QED
  BY <1>2, <1>3, <1>4, <1>5, <1>6, <1>7, <1>8, <1>9, <1>10 DEF Process

-----------------------------------------------------------------------------
\* Nothing has been lexed.
LEMMA NoTokens ==
  ASSUME tokens = <<>>, head = 1, Len(text) = 0, lexing = "done"
  PROVE  LexInv
<1>1. tokens \in Seq(Tokens) /\ DOMAIN tokens = {}
  BY EmptySeq
<1>2. QED
  BY <1>1 DEF LexInv, HeadFits, LexTiles

\* Nothing of the text before is left.
LEMMA StartKeeps ==
  ASSUME NEW t, Len(t) \in Nat, StartLex(t)
  PROVE  LexInv'
<1>1. text' = t /\ head' = 1 /\ tokens' = <<>> /\ lexing' = "run"
  BY DEF StartLex
<1>2. \A seq : seq = <<>> => seq \in Seq(Tokens) /\ DOMAIN seq = {}
  BY EmptySeq
<1>3. HeadFits'
  <2>1. Len(text') \in Nat
    BY <1>1
  <2>2. 1 \in 1 .. (Len(text') + 1)
    BY <2>1
  <2>3. QED
    BY <1>1, <2>1, <2>2 DEF HeadFits
<1>4. LexTiles'
  BY <1>1, <1>2 DEF LexTiles
<1>5. QED
  BY <1>1, <1>2, <1>3, <1>4 DEF LexInv

-----------------------------------------------------------------------------
(* The command line.                                                       *)

\* Every plain argument before the read one is behind the command, and it is a
\* source exactly if it is among the flags.
Sources(c) == {i \in (c + 1) .. (arg - 1) : argv[i].form = "plain" /\ argv[i - 1] \notin TakesValue}
SameSources(given, taken) ==
  \/ given = {} /\ taken = {}
  \/ \E g \in DOMAIN flags, s \in DOMAIN argv :
       given = {g} /\ taken = {s} /\ flags[g].value = argv[s].name
Matched(c) == SameSources(Parsed("Sources"), Sources(c))
ReadFrom(c) ==
  /\ c \in 1 .. (arg - 1) /\ argv[c] = Plain("comp")
  /\ \A i \in 1 .. (c - 1) : argv[i].form # "plain"
  /\ argv[arg - 1].form = "plain"
  /\ Matched(c)
Reading == \E c \in DOMAIN argv : ReadFrom(c)

CliTypes ==
  /\ argv \in Seq(Argument) /\ arg \in 1 .. (Len(argv) + 1) /\ flags \in Seq(ParsedFlags)
  /\ phase \in {"api", "main", "comp", "translating", "ended"}
BeforeCommand ==
  /\ \A i \in 1 .. (arg - 1) : argv[i].form # "plain"
  /\ \A i \in DOMAIN flags : flags[i].id # "Sources"
Translated == Reading /\ arg = Len(argv) + 1 /\ files = InputFiles
CliInv ==
  /\ CliTypes
  /\ phase = "main" => BeforeCommand
  /\ phase = "comp" => Reading
  /\ phase \in {"main", "comp"} => result = "idle"
  /\ phase \in {"translating", "ended"} /\ result # "idle" => Translated
  /\ phase # "ended" => exit = "none"
  /\ phase = "ended" => result # "running"
  /\ exit = "0" => result = "ok"
  /\ exit = "1" => result \in {"idle", "failed"}
  /\ phase = "ended" => (result = "ok" => exit = "0") /\ (result = "failed" => exit = "1")

\* The tables of flags.
MainFlag(f) ==
  /\ f.id \in FlagIds \ {"Sources"} /\ f.interp \in {"Cmd", "Opt"}
  /\ f.id = "ModeComp" => f.long = "comp"
CompFlag(f) ==
  /\ f.id \in FlagIds /\ f.interp \in {"Single", "Positional", "VarDef"}
  /\ f.interp = "Positional" <=> f.id = "Sources"
  /\ f.interp = "Single" => Short(f.short) \in TakesValue /\ Long(f.long) \in TakesValue

LEMMA MainFlags ==
  DOMAIN MainParserFlags = 1 .. 8 /\ \A i \in 1 .. 8 : MainFlag(MainParserFlags[i])
<1>1. DOMAIN MainParserFlags = 1 .. 8
  BY DEF MainParserFlags
<1>2. MainFlag(MainParserFlags[1])
  <2> DEFINE f == Flag("ModeComp", "Cmd", "c", "comp")
  <2>1. MainParserFlags[1] = f
    BY DEF MainParserFlags
  <2>2. MainFlag(f)
    BY DEF MainFlag, Flag, FlagIds
  <2>3. QED
    BY <2>1, <2>2
<1>3. MainFlag(MainParserFlags[2])
  <2> DEFINE f == Flag("ModeDev", "Cmd", "z", "dev")
  <2>1. MainParserFlags[2] = f
    BY DEF MainParserFlags
  <2>2. MainFlag(f)
    BY DEF MainFlag, Flag, FlagIds
  <2>3. QED
    BY <2>1, <2>2
<1>4. MainFlag(MainParserFlags[3])
  <2> DEFINE f == Flag("ModeHelp", "Cmd", "h", "help")
  <2>1. MainParserFlags[3] = f
    BY DEF MainParserFlags
  <2>2. MainFlag(f)
    BY DEF MainFlag, Flag, FlagIds
  <2>3. QED
    BY <2>1, <2>2
<1>5. MainFlag(MainParserFlags[4])
  <2> DEFINE f == Flag("ModeVersion", "Cmd", "v", "version")
  <2>1. MainParserFlags[4] = f
    BY DEF MainParserFlags
  <2>2. MainFlag(f)
    BY DEF MainFlag, Flag, FlagIds
  <2>3. QED
    BY <2>1, <2>2
<1>6. MainFlag(MainParserFlags[5])
  <2> DEFINE f == Flag("DriverIoSilent", "Opt", " ", "driver-io-silent")
  <2>1. MainParserFlags[5] = f
    BY DEF MainParserFlags
  <2>2. MainFlag(f)
    BY DEF MainFlag, Flag, FlagIds
  <2>3. QED
    BY <2>1, <2>2
<1>7. MainFlag(MainParserFlags[6])
  <2> DEFINE f == Flag("DriverIoVerbose", "Opt", " ", "driver-io-verbose")
  <2>1. MainParserFlags[6] = f
    BY DEF MainParserFlags
  <2>2. MainFlag(f)
    BY DEF MainFlag, Flag, FlagIds
  <2>3. QED
    BY <2>1, <2>2
<1>8. MainFlag(MainParserFlags[7])
  <2> DEFINE f == Flag("DriverIoDebug", "Opt", " ", "driver-io-debug")
  <2>1. MainParserFlags[7] = f
    BY DEF MainParserFlags
  <2>2. MainFlag(f)
    BY DEF MainFlag, Flag, FlagIds
  <2>3. QED
    BY <2>1, <2>2
<1>9. MainFlag(MainParserFlags[8])
  <2> DEFINE f == Flag("NoOverwrite", "Opt", " ", "no-overwrite")
  <2>1. MainParserFlags[8] = f
    BY DEF MainParserFlags
  <2>2. MainFlag(f)
    BY DEF MainFlag, Flag, FlagIds
  <2>3. QED
    BY <2>1, <2>2
<1>10. \A i \in 1 .. 8 : i = 1 \/ i = 2 \/ i = 3 \/ i = 4 \/ i = 5 \/ i = 6 \/ i = 7 \/ i = 8
  OBVIOUS
<1>11. QED
  BY <1>1, <1>2, <1>3, <1>4, <1>5, <1>6, <1>7, <1>8, <1>9, <1>10

LEMMA CompFlags ==
  DOMAIN CompModeFlags = 1 .. 4 /\ \A i \in 1 .. 4 : CompFlag(CompModeFlags[i])
<1>1. DOMAIN CompModeFlags = 1 .. 4
  BY DEF CompModeFlags
<1>2. CompFlag(CompModeFlags[1])
  <2> DEFINE f == Flag("OutDir", "Single", "O", "out-dir")
  <2>1. CompModeFlags[1] = f
    BY DEF CompModeFlags
  <2>2. CompFlag(f)
    BY DEF CompFlag, Flag, FlagIds, TakesValue
  <2>3. QED
    BY <2>1, <2>2
<1>3. CompFlag(CompModeFlags[2])
  <2> DEFINE f == Flag("AuxDir", "Single", "A", "aux-dir")
  <2>1. CompModeFlags[2] = f
    BY DEF CompModeFlags
  <2>2. CompFlag(f)
    BY DEF CompFlag, Flag, FlagIds, TakesValue
  <2>3. QED
    BY <2>1, <2>2
<1>4. CompFlag(CompModeFlags[3])
  <2> DEFINE f == Flag("Sources", "Positional", " ", "")
  <2>1. CompModeFlags[3] = f
    BY DEF CompModeFlags
  <2>2. CompFlag(f)
    BY DEF CompFlag, Flag, FlagIds, TakesValue
  <2>3. QED
    BY <2>1, <2>2
<1>5. CompFlag(CompModeFlags[4])
  <2> DEFINE f == Flag("Define", "VarDef", "D", "define")
  <2>1. CompModeFlags[4] = f
    BY DEF CompModeFlags
  <2>2. CompFlag(f)
    BY DEF CompFlag, Flag, FlagIds, TakesValue
  <2>3. QED
    BY <2>1, <2>2
<1>6. \A i \in 1 .. 4 : i = 1 \/ i = 2 \/ i = 3 \/ i = 4
  OBVIOUS
<1>7. QED
  BY <1>1, <1>2, <1>3, <1>4, <1>5, <1>6

LEMMA TakeOne ==
  ASSUME flags \in Seq(ParsedFlags), NEW flag, flag.id \in FlagIds, NEW value \in FlagValues,
         NEW n, Take(flag, value, n)
  PROVE  /\ flags' \in Seq(ParsedFlags) /\ DOMAIN flags' = 1 .. (Len(flags) + 1)
         /\ Len(flags) \in Nat /\ DOMAIN flags = 1 .. Len(flags)
         /\ \A i \in DOMAIN flags : flags'[i] = flags[i]
         /\ flags'[Len(flags) + 1].id = flag.id /\ flags'[Len(flags) + 1].value = value
         /\ arg' = arg + n /\ phase' = phase /\ exit' = exit
<1> DEFINE f == [id |-> flag.id, value |-> value]
<1>1. f \in ParsedFlags
  BY DEF ParsedFlags
<1>2. flags' = Append(flags, f) /\ arg' = arg + n /\ phase' = phase /\ exit' = exit
  BY DEF Take
<1> HIDE DEF f
<1>3. /\ flags' \in Seq(ParsedFlags) /\ Len(flags') = Len(flags) + 1
      /\ flags'[Len(flags) + 1] = f /\ \A i \in 1 .. Len(flags) : flags'[i] = flags[i]
  <2>1. \A seq \in Seq(ParsedFlags) :
          /\ Append(seq, f) \in Seq(ParsedFlags) /\ Len(Append(seq, f)) = Len(seq) + 1
          /\ Append(seq, f)[Len(seq) + 1] = f
          /\ \A i \in 1 .. Len(seq) : Append(seq, f)[i] = seq[i]
    BY <1>1, AppendProperties
  <2>2. QED
    BY <1>2, <2>1
<1>4. f.id = flag.id /\ f.value = value
  BY DEF f
<1>5. DOMAIN flags' = 1 .. Len(flags') /\ DOMAIN flags = 1 .. Len(flags) /\ Len(flags) \in Nat
  BY <1>3, LenProperties
<1>6. QED
  BY <1>2, <1>3, <1>4, <1>5

LEMMA NamesAreValues == "" \in FlagValues /\ \A name \in STRING : name \in FlagValues
BY DEF FlagValues

\* A flag at hand that the argument names, or that takes it.
LEMMA AtHand ==
  ASSUME phase \in {"main", "comp"}
  PROVE  /\ DOMAIN FlagsAtHand = 1 .. (IF phase = "main" THEN 8 ELSE 4)
         /\ \A i \in DOMAIN FlagsAtHand :
              IF phase = "main" THEN MainFlag(FlagsAtHand[i]) ELSE CompFlag(FlagsAtHand[i])
BY MainFlags, CompFlags DEF FlagsAtHand

LEMMA NamedFlag ==
  ASSUME phase \in {"main", "comp"}, NEW a, Named(a) # {}
  PROVE  Max(Named(a)) \in Named(a) /\ Max(Named(a)) \in DOMAIN FlagsAtHand
<1> DEFINE n == IF phase = "main" THEN 8 ELSE 4
<1>1. n \in Nat /\ Named(a) \in SUBSET (1 .. n)
  BY AtHand DEF Named
<1>2. Max(Named(a)) \in Named(a)
  BY <1>1, GreatestNumber
<1>3. QED
  BY <1>2 DEF Named

\* A flag with a value, at the argument after the command, is one that takes one.
LEMMA ValueTaken ==
  ASSUME phase \in {"main", "comp"}, NEW a \in Argument, a.form # "plain",
         NEW i \in Named(a), FlagsAtHand[i].interp = "Single"
  PROVE  phase = "comp" /\ a \in TakesValue /\ FlagsAtHand[i].id # "Sources"
<1>1. i \in DOMAIN FlagsAtHand /\ a.name = IF a.form = "long" THEN FlagsAtHand[i].long ELSE FlagsAtHand[i].short
  BY DEF Named
<1>2. phase = "comp"
  BY <1>1, AtHand DEF MainFlag
<1>3. CompFlag(FlagsAtHand[i])
  BY <1>1, <1>2, AtHand
<1>4. a = [form |-> a.form, name |-> a.name] /\ a.form \in {"short", "long"}
  BY DEF Argument
<1>5. a = Short(FlagsAtHand[i].short) \/ a = Long(FlagsAtHand[i].long)
  BY <1>1, <1>4 DEF Short, Long
<1>6. QED
  BY <1>2, <1>3, <1>5 DEF CompFlag

\* What is plain is not a flag.
LEMMA PlainTakesNone == \A a : a.form = "plain" => a \notin TakesValue
BY DEF TakesValue, Short, Long

LEMMA ExitKeeps ==
  ASSUME CliInv, Parsing, NEW code \in {"1", "ub"}, Exit(code)
  PROVE  CliInv'
<1>1. /\ phase \in {"main", "comp"} /\ result = "idle" /\ result' = result /\ argv' = argv
      /\ arg' = arg /\ flags' = flags /\ phase' = "ended" /\ exit' = code
  BY DEF CliInv, Parsing, Exit, unit
<1>2. CliTypes'
  BY <1>1 DEF CliInv, CliTypes
<1>3. QED
  BY <1>1, <1>2 DEF CliInv

\* A flag taken that is not a source: the sources read are the same.
LEMMA SourcesStay ==
  ASSUME CliTypes, Parsing, phase = "comp", Reading, arg < Len(argv),
         argv[arg] \in TakesValue, argv[arg].form # "plain", argv[arg + 1].form = "plain",
         NEW flag, flag.id \in FlagIds \ {"Sources"}, NEW value \in FlagValues, Take(flag, value, 2)
  PROVE  Reading'
<1>1. /\ flags' \in Seq(ParsedFlags) /\ DOMAIN flags' = 1 .. (Len(flags) + 1)
      /\ Len(flags) \in Nat /\ DOMAIN flags = 1 .. Len(flags)
      /\ \A i \in DOMAIN flags : flags'[i] = flags[i]
      /\ flags'[Len(flags) + 1].id = flag.id
      /\ arg' = arg + 2
  BY TakeOne DEF CliTypes
<1>2. argv' = argv /\ arg \in Nat /\ Len(argv) \in Nat /\ DOMAIN argv = 1 .. Len(argv)
  BY LenProperties DEF Parsing, CliTypes
<1>3. PICK c \in DOMAIN argv : ReadFrom(c)
  BY DEF Reading
<1>4. Parsed("Sources")' = Parsed("Sources")
  <2>1. flags'[Len(flags) + 1].id # "Sources"
    BY <1>1
  <2>2. \A i \in DOMAIN flags' : flags'[i].id = "Sources" <=> i \in DOMAIN flags /\ flags[i].id = "Sources"
    BY <1>1, <2>1
  <2>3. QED
    BY <1>1, <2>2 DEF Parsed
<1>5. Sources(c)' = Sources(c)
  <2>1. \A i : i \in (c + 1) .. (arg' - 1) <=> i \in (c + 1) .. (arg - 1) \/ i = arg \/ i = arg + 1
    <3>1. c \in Nat /\ c <= arg - 1 /\ arg' - 1 = arg + 1
      BY <1>1, <1>2, <1>3 DEF ReadFrom
    <3>2. QED
      BY <1>2, <3>1
  <2>2. Sources(c)' = {i \in (c + 1) .. (arg' - 1) : argv[i].form = "plain" /\ argv[i - 1] \notin TakesValue}
    BY <1>2 DEF Sources, TakesValue, Short, Long
  <2>3. (arg + 1) - 1 = arg
    BY <1>2
  <2>4. QED
    BY <2>1, <2>2, <2>3 DEF Sources
<1>6. Matched(c)'
  <2>1. Matched(c)
    BY <1>3 DEF ReadFrom
  <2>2. \A g \in DOMAIN flags : g \in DOMAIN flags' /\ flags'[g].value = flags[g].value
    BY <1>1
  <2>3. QED
    BY <1>2, <1>4, <1>5, <2>1, <2>2 DEF Matched, SameSources
<1>7. argv'[arg' - 1].form = "plain" /\ c \in 1 .. (arg' - 1)
  BY <1>1, <1>2, <1>3 DEF ReadFrom
<1>8. ReadFrom(c)'
  BY <1>2, <1>3, <1>6, <1>7 DEF ReadFrom, Plain
<1>9. QED
  BY <1>2, <1>8 DEF Reading

LEMMA FlagKeeps ==
  ASSUME CliInv, ParseFlag
  PROVE  CliInv'
<1>1. /\ Parsing /\ phase \in {"main", "comp"} /\ arg <= Len(argv) /\ ThisArg.form # "plain" /\ CliTypes
      /\ result = "idle" /\ exit = "none" /\ argv' = argv /\ result' = result
  BY DEF CliInv, ParseFlag, Parsing, unit
<1>2. /\ arg \in DOMAIN argv /\ DOMAIN argv = 1 .. Len(argv) /\ Len(argv) \in Nat /\ arg \in Nat
      /\ ThisArg \in Argument /\ ThisArg = argv[arg]
  BY <1>1, LenProperties DEF CliTypes, ThisArg
<1> DEFINE flag == FlagsAtHand[Max(Named(ThisArg))]
<1>3. CASE \E code \in {"1", "ub"} : Exit(code)
  BY <1>1, <1>3, ExitKeeps
<1>4. CASE Named(ThisArg) # {} /\ flag.interp = "Opt" /\ Take(flag, "", 1)
  <2>1. Max(Named(ThisArg)) \in DOMAIN FlagsAtHand
    BY <1>1, <1>4, NamedFlag
  <2>2. phase = "main" /\ flag.id \in FlagIds \ {"Sources"}
    BY <1>1, <1>4, <2>1, AtHand DEF MainFlag, CompFlag
  <2> HIDE DEF flag
  <2>3. /\ flags' \in Seq(ParsedFlags) /\ DOMAIN flags' = 1 .. (Len(flags) + 1)
        /\ Len(flags) \in Nat /\ DOMAIN flags = 1 .. Len(flags)
        /\ \A i \in DOMAIN flags : flags'[i] = flags[i]
        /\ flags'[Len(flags) + 1].id = flag.id
        /\ arg' = arg + 1 /\ phase' = phase /\ exit' = exit
    BY <1>1, <1>4, <2>2, TakeOne, NamesAreValues DEF CliTypes
  <2>4. CliTypes'
    <3>1. arg' \in 1 .. (Len(argv') + 1)
      BY <1>1, <1>2, <2>3
    <3>2. QED
      BY <1>1, <2>2, <2>3, <3>1 DEF CliTypes
  <2>5. BeforeCommand
    BY <2>2 DEF CliInv
  <2>6. \A i \in 1 .. (arg' - 1) : argv'[i].form # "plain"
    <3>1. \A i \in 1 .. (arg' - 1) : i \in 1 .. (arg - 1) \/ i = arg
      BY <1>2, <2>3
    <3>2. QED
      BY <1>1, <1>2, <2>5, <3>1 DEF BeforeCommand
  <2>7. \A i \in DOMAIN flags' : flags'[i].id # "Sources"
    <3>1. flags'[Len(flags) + 1].id # "Sources"
      BY <2>2, <2>3
    <3>2. \A i \in DOMAIN flags' : i \in DOMAIN flags \/ i = Len(flags) + 1
      BY <2>3
    <3>3. QED
      BY <2>3, <2>5, <3>1, <3>2 DEF BeforeCommand
  <2>8. QED
    BY <1>1, <2>2, <2>3, <2>4, <2>6, <2>7 DEF CliInv, BeforeCommand
<1>5. CASE /\ Named(ThisArg) # {} /\ flag.interp = "Single" /\ arg < Len(argv)
           /\ argv[arg + 1].form = "plain" /\ Take(flag, argv[arg + 1].name, 2)
  <2>1. Max(Named(ThisArg)) \in Named(ThisArg) /\ Max(Named(ThisArg)) \in DOMAIN FlagsAtHand
    BY <1>1, <1>5, NamedFlag
  <2>2. phase = "comp" /\ ThisArg \in TakesValue /\ flag.id # "Sources"
    BY <1>1, <1>2, <1>5, <2>1, ValueTaken
  <2>3. flag.id \in FlagIds
    BY <2>1, <2>2, AtHand DEF CompFlag
  <2> HIDE DEF flag
  <2>4. arg + 1 \in DOMAIN argv /\ argv[arg + 1].name \in STRING
    <3>1. arg + 1 \in DOMAIN argv
      BY <1>2, <1>5
    <3>2. argv[arg + 1] \in Argument
      BY <1>1, <3>1 DEF CliTypes
    <3>3. QED
      BY <3>1, <3>2 DEF Argument
  <2>5. Reading'
    BY <1>1, <1>2, <1>5, <2>2, <2>3, <2>4, SourcesStay, NamesAreValues DEF CliInv
  <2>6. flags' \in Seq(ParsedFlags) /\ arg' = arg + 2 /\ phase' = phase /\ exit' = exit
    BY <1>1, <1>5, <2>3, <2>4, TakeOne, NamesAreValues DEF CliTypes
  <2>7. CliTypes'
    BY <1>1, <1>2, <1>5, <2>6 DEF CliTypes
  <2>8. QED
    BY <1>1, <2>2, <2>5, <2>6, <2>7 DEF CliInv
<1>6. QED
  BY <1>1, <1>2, <1>3, <1>4, <1>5 DEF ParseFlag

LEMMA PositionalKeeps ==
  ASSUME CliInv, ParsePositional
  PROVE  CliInv'
<1>1. /\ Parsing /\ phase \in {"main", "comp"} /\ arg <= Len(argv) /\ ThisArg.form = "plain" /\ CliTypes
      /\ result = "idle" /\ exit = "none" /\ argv' = argv /\ result' = result
  BY DEF CliInv, ParsePositional, Parsing, unit
<1>2. /\ arg \in DOMAIN argv /\ DOMAIN argv = 1 .. Len(argv) /\ Len(argv) \in Nat /\ arg \in Nat
      /\ ThisArg \in Argument /\ ThisArg = argv[arg]
  BY <1>1, LenProperties DEF CliTypes, ThisArg
<1>3. PICK k \in Of("Positional") : Parsed(FlagsAtHand[k].id) = {} /\ Take(FlagsAtHand[k], ThisArg.name, 1)
  BY DEF ParsePositional
<1> DEFINE flag == FlagsAtHand[k]
<1>4. phase = "comp" /\ flag.id = "Sources"
  BY <1>1, <1>3, AtHand DEF Of, MainFlag, CompFlag
<1>5. flag.id \in FlagIds /\ ThisArg.name \in STRING
  BY <1>2, <1>4 DEF FlagIds, Argument
<1>6. Take(flag, ThisArg.name, 1) /\ Parsed("Sources") = {}
  BY <1>3, <1>4
<1> HIDE DEF flag
<1>7. /\ flags' \in Seq(ParsedFlags) /\ DOMAIN flags' = 1 .. (Len(flags) + 1)
      /\ Len(flags) \in Nat /\ DOMAIN flags = 1 .. Len(flags)
      /\ \A i \in DOMAIN flags : flags'[i] = flags[i]
      /\ flags'[Len(flags) + 1].id = flag.id /\ flags'[Len(flags) + 1].value = ThisArg.name
      /\ arg' = arg + 1 /\ phase' = phase /\ exit' = exit
  BY <1>1, <1>5, <1>6, TakeOne, NamesAreValues DEF CliTypes
<1>8. CliTypes'
  <2>1. arg' \in 1 .. (Len(argv') + 1)
    BY <1>1, <1>2, <1>7
  <2>2. QED
    BY <1>1, <1>4, <1>7, <2>1 DEF CliTypes
<1>9. PICK c \in DOMAIN argv : ReadFrom(c)
  BY <1>4 DEF CliInv, Reading
<1>10. Parsed("Sources")' = {Len(flags) + 1}
  <2>1. \A i \in DOMAIN flags' : flags'[i].id = "Sources" <=> i = Len(flags) + 1
    <3>1. \A i \in DOMAIN flags : flags[i].id # "Sources"
      BY <1>6 DEF Parsed
    <3>2. \A i \in DOMAIN flags' : i \in DOMAIN flags \/ i = Len(flags) + 1
      BY <1>7
    <3>3. QED
      BY <1>4, <1>7, <3>1, <3>2
  <2>2. Len(flags) + 1 \in DOMAIN flags'
    BY <1>7
  <2>3. QED
    BY <2>1, <2>2 DEF Parsed
<1>11. Sources(c)' = {arg}
  <2>1. Sources(c) = {}
    BY <1>6, <1>9 DEF ReadFrom, Matched, SameSources
  <2>2. \A i : i \in (c + 1) .. (arg' - 1) <=> i \in (c + 1) .. (arg - 1) \/ i = arg
    <3>1. c \in Nat /\ c <= arg - 1 /\ arg' - 1 = arg
      BY <1>2, <1>7, <1>9 DEF ReadFrom
    <3>2. QED
      BY <1>2, <3>1
  <2>3. Sources(c)' = {i \in (c + 1) .. (arg' - 1) : argv[i].form = "plain" /\ argv[i - 1] \notin TakesValue}
    BY <1>1 DEF Sources, TakesValue, Short, Long
  <2>4. argv[arg].form = "plain" /\ argv[arg - 1] \notin TakesValue
    BY <1>1, <1>2, <1>9, PlainTakesNone DEF ReadFrom
  <2>5. QED
    BY <2>1, <2>2, <2>3, <2>4 DEF Sources
<1>12. Matched(c)'
  <2>1. /\ Len(flags) + 1 \in DOMAIN flags' /\ arg \in DOMAIN argv'
        /\ flags'[Len(flags) + 1].value = argv'[arg].name
    BY <1>1, <1>2, <1>7
  <2>2. QED
    BY <1>10, <1>11, <2>1 DEF Matched, SameSources
<1>13. argv'[arg' - 1].form = "plain" /\ c \in 1 .. (arg' - 1)
  BY <1>1, <1>2, <1>7, <1>9 DEF ReadFrom
<1>14. ReadFrom(c)'
  BY <1>1, <1>9, <1>12, <1>13 DEF ReadFrom, Plain
<1>15. Reading'
  BY <1>1, <1>14 DEF Reading
<1>16. QED
  BY <1>1, <1>4, <1>7, <1>8, <1>15 DEF CliInv

LEMMA CommandKeeps ==
  ASSUME CliInv, ParseCommand
  PROVE  CliInv'
<1>1. /\ Parsing /\ phase \in {"main", "comp"} /\ arg <= Len(argv) /\ ThisArg.form = "plain" /\ CliTypes
      /\ result = "idle" /\ exit = "none" /\ argv' = argv /\ result' = result
  BY DEF CliInv, ParseCommand, Parsing, unit
<1>2. /\ arg \in DOMAIN argv /\ DOMAIN argv = 1 .. Len(argv) /\ Len(argv) \in Nat /\ arg \in Nat /\ arg >= 1
      /\ ThisArg \in Argument /\ ThisArg = argv[arg]
  BY <1>1, LenProperties DEF CliTypes, ThisArg
<1>3. CASE Exit("1")
  BY <1>1, <1>3, ExitKeeps
<1>4. CASE /\ \E i \in Of("Cmd") : FlagsAtHand[i].long = ThisArg.name /\ FlagsAtHand[i].id = "ModeComp"
           /\ arg' = arg + 1 /\ phase' = "comp" /\ UNCHANGED <<flags, exit>>
  <2>1. PICK i \in Of("Cmd") : FlagsAtHand[i].long = ThisArg.name /\ FlagsAtHand[i].id = "ModeComp"
    BY <1>4
  <2>2. phase = "main" /\ ThisArg.name = "comp"
    BY <1>1, <2>1, AtHand DEF Of, MainFlag, CompFlag
  <2>3. argv[arg] = Plain("comp")
    BY <1>1, <1>2, <2>2 DEF Plain, Argument
  <2>4. BeforeCommand
    BY <2>2 DEF CliInv
  <2>5. PICK c \in DOMAIN argv : c = arg
    BY <1>2
  <2>6. arg' - 1 = c /\ arg' \in 1 .. (Len(argv) + 1) /\ c \in 1 .. (arg' - 1)
    BY <1>2, <1>4, <2>5
  <2>7. Parsed("Sources")' = {}
    BY <1>4, <2>4 DEF BeforeCommand, Parsed
  <2>8. Sources(c)' = {}
    <3>1. (c + 1) .. (arg' - 1) = {}
      BY <1>2, <2>6
    <3>2. QED
      BY <3>1 DEF Sources
  <2>9. Matched(c)'
    BY <2>7, <2>8 DEF Matched, SameSources
  <2>10. ReadFrom(c)'
    BY <1>1, <1>2, <2>3, <2>4, <2>5, <2>6, <2>9 DEF ReadFrom, BeforeCommand, Plain
  <2>11. CliTypes'
    BY <1>1, <1>4, <2>6 DEF CliTypes
  <2>12. Reading'
    BY <1>1, <2>10 DEF Reading
  <2>13. QED
    BY <1>1, <1>4, <2>11, <2>12 DEF CliInv
<1>5. QED
  BY <1>3, <1>4 DEF ParseCommand

LEMMA NoCommandKeeps ==
  ASSUME CliInv, NoCommand
  PROVE  CliInv'
BY ExitKeeps DEF NoCommand

LEMMA TranslateKeeps ==
  ASSUME CliInv, Translate
  PROVE  CliInv'
<1>1. /\ phase = "comp" /\ arg > Len(argv) /\ files' = InputFiles /\ result' = "running" /\ phase' = "translating"
      /\ argv' = argv /\ arg' = arg /\ flags' = flags /\ exit' = exit /\ exit = "none" /\ CliTypes /\ Reading
  BY DEF CliInv, Translate
<1>2. arg = Len(argv) + 1
  BY <1>1, LenProperties DEF CliTypes
<1>3. CliTypes'
  BY <1>1 DEF CliTypes
<1>4. Reading'
  <2>1. argv' = argv /\ arg' = arg /\ flags' = flags /\ Reading
    BY <1>1
  <2>2. QED
    BY <2>1 DEF Reading, ReadFrom, Matched, SameSources, Parsed, Sources, Plain, TakesValue, Short, Long
<1>5. files' = InputFiles'
  BY <1>1 DEF InputFiles, Parsed, Nth
<1>6. QED
  BY <1>1, <1>2, <1>3, <1>4, <1>5 DEF CliInv, Translated

LEMMA OtherKeeps ==
  ASSUME CliInv, HandlePostCompilation \/ Translates \/ UNCHANGED <<unit, cliVars>>
  PROVE  CliInv'
<1>1. files' = files /\ argv' = argv /\ arg' = arg /\ flags' = flags
  BY DEF HandlePostCompilation, Translates, unit, cliVars
<1>2. Reading => Reading'
  BY <1>1 DEF Reading, ReadFrom, Matched, SameSources, Parsed, Sources, Plain, TakesValue, Short, Long
<1>3. InputFiles' = InputFiles
  BY <1>1 DEF InputFiles, Parsed, Nth
<1>4. Translated => Translated'
  BY <1>1, <1>2, <1>3 DEF Translated
<1>5. CASE HandlePostCompilation
  <2>1. phase = "translating" /\ phase' = "ended" /\ result' = result /\ result # "running"
        /\ exit' = CASE result = "ok" -> "0" [] result = "failed" -> "1" [] OTHER -> "ub"
    BY <1>5 DEF HandlePostCompilation, unit
  <2>2. (exit' = "0" <=> result = "ok") /\ (exit' = "1" <=> result = "failed")
    BY <2>1
  <2>3. CliTypes'
    BY <1>1, <2>1 DEF CliInv, CliTypes
  <2>4. QED
    BY <1>4, <2>1, <2>2, <2>3 DEF CliInv
<1>6. CASE Translates
  <2>1. phase' = phase /\ exit' = exit /\ result = "running" /\ result' # "idle"
    BY <1>6 DEF Translates, cliVars, Outcomes
  <2>2. CliTypes'
    BY <1>1, <2>1 DEF CliInv, CliTypes
  <2>3. exit \notin {"0", "1"}
    BY <2>1 DEF CliInv
  <2>4. QED
    BY <1>4, <2>1, <2>2, <2>3 DEF CliInv
<1>7. CASE UNCHANGED <<unit, cliVars>>
  <2>1. phase' = phase /\ exit' = exit /\ result' = result
    BY <1>7 DEF unit, cliVars
  <2>2. CliTypes' /\ (BeforeCommand => BeforeCommand')
    BY <1>1, <2>1 DEF CliInv, CliTypes, BeforeCommand
  <2>3. QED
    BY <1>2, <1>4, <2>1, <2>2 DEF CliInv
<1>8. QED
  BY <1>5, <1>6, <1>7

LEMMA CliInitHolds == CliInit => CliInv
<1> SUFFICES ASSUME CliInit PROVE CliInv
  OBVIOUS
<1>1. argv \in Seq(Argument)
  <2>1. <<>> \in Seq(Argument)
    BY EmptySeq
  <2>2. QED
    BY <2>1, CommandLinesAssumption DEF CliInit
<1>2. arg \in 1 .. (Len(argv) + 1)
  BY <1>1, LenProperties DEF CliInit
<1>3. flags \in Seq(ParsedFlags) /\ DOMAIN flags = {}
  BY EmptySeq DEF CliInit
<1>4. CliTypes
  BY <1>1, <1>2, <1>3 DEF CliInit, CliTypes
<1>5. BeforeCommand
  BY <1>3 DEF CliInit, BeforeCommand
<1>6. QED
  BY <1>4, <1>5 DEF CliInit, CliInv

\* Of a single file, the first is that file.
LEMMA OneFile ==
  ASSUME NEW g \in Int
  PROVE  Cardinality({g}) = 1 /\ Nth(1, {g}) = g
<1>1. Cardinality({g}) = 1
  BY FS_Singleton
<1>2. {j \in {g} : j < g} = {}
  OBVIOUS
<1>3. Cardinality({j \in {g} : j < g}) = 1 - 1
  BY <1>2, FS_EmptySet
<1>4. QED
  BY <1>1, <1>3 DEF Nth

LEMMA FilesAreNamed ==
  ASSUME CliTypes, Translated
  PROVE  /\ argv[Command] = Plain("comp")
         /\ files = [k \in 1 .. Cardinality(NamedSources) |-> Disk[argv[Nth(k, NamedSources)].name]]
<1>1. PICK c \in DOMAIN argv : ReadFrom(c)
  BY DEF Translated, Reading
<1>2. /\ DOMAIN argv = 1 .. Len(argv) /\ Len(argv) \in Nat /\ arg = Len(argv) + 1
      /\ DOMAIN flags = 1 .. Len(flags) /\ Len(flags) \in Nat
  BY LenProperties DEF CliTypes, Translated
<1>3. argv[c] = Plain("comp") /\ argv[c].form = "plain" /\ \A i \in 1 .. (c - 1) : argv[i].form # "plain"
  BY <1>1 DEF ReadFrom, Plain
<1>4. Command = c
  <2>1. \A d \in DOMAIN argv : argv[d].form = "plain" /\ (\A i \in 1 .. (d - 1) : argv[i].form # "plain") => d = c
    <3> SUFFICES ASSUME NEW d \in DOMAIN argv, argv[d].form = "plain",
                        \A i \in 1 .. (d - 1) : argv[i].form # "plain"
                 PROVE  d = c
      OBVIOUS
    <3>1. ~(d < c)
      <4>1. d < c => d \in 1 .. (c - 1)
        BY <1>2
      <4>2. QED
        BY <1>3, <4>1
    <3>2. ~(c < d)
      <4>1. c < d => c \in 1 .. (d - 1)
        BY <1>2
      <4>2. QED
        BY <1>3, <4>1
    <3>3. QED
      BY <1>2, <3>1, <3>2
  <2>2. QED
    BY <1>3, <2>1 DEF Command
<1>5. NamedSources = Sources(c)
  <2>1. \A i : i \in (c + 1) .. (arg - 1) <=> i \in DOMAIN argv /\ i > c
    BY <1>2
  <2>2. QED
    BY <1>4, <2>1 DEF NamedSources, Sources
<1>6. CASE Parsed("Sources") = {} /\ Sources(c) = {}
  <2>1. InputFiles = [k \in 1 .. Cardinality({}) |-> Disk[flags[Nth(k, {})].value]]
    BY <1>6 DEF InputFiles
  <2>2. 1 .. Cardinality({}) = {}
    BY FS_EmptySet
  <2>3. [k \in 1 .. Cardinality({}) |-> Disk[flags[Nth(k, {})].value]]
          = [k \in 1 .. Cardinality({}) |-> Disk[argv[Nth(k, {})].name]]
    BY <2>2
  <2>4. QED
    BY <1>3, <1>4, <1>5, <1>6, <2>1, <2>3 DEF Translated
<1>7. ASSUME NEW g \in DOMAIN flags, NEW s \in DOMAIN argv,
             Parsed("Sources") = {g}, Sources(c) = {s}, flags[g].value = argv[s].name
      PROVE  files = [k \in 1 .. Cardinality(NamedSources) |-> Disk[argv[Nth(k, NamedSources)].name]]
  <2>1. Cardinality({g}) = 1 /\ Nth(1, {g}) = g /\ Cardinality({s}) = 1 /\ Nth(1, {s}) = s
    <3>1. g \in Int /\ s \in Int
      BY <1>2
    <3>2. QED
      BY <3>1, OneFile
  <2>2. InputFiles = [k \in 1 .. 1 |-> Disk[flags[Nth(k, {g})].value]]
    BY <1>7, <2>1 DEF InputFiles
  <2>3. \A k \in 1 .. 1 : Disk[flags[Nth(k, {g})].value] = Disk[argv[Nth(k, {s})].name]
    <3>1. \A k \in 1 .. 1 : k = 1
      OBVIOUS
    <3>2. QED
      BY <1>7, <2>1, <3>1
  <2>4. [k \in 1 .. 1 |-> Disk[flags[Nth(k, {g})].value]] = [k \in 1 .. 1 |-> Disk[argv[Nth(k, {s})].name]]
    BY <2>3
  <2>5. QED
    BY <1>5, <1>7, <2>1, <2>2, <2>4 DEF Translated
<1>8. QED
  BY <1>1, <1>3, <1>4, <1>6, <1>7 DEF ReadFrom, Matched, SameSources

\* Whatever the arguments are, what the parser of flags has taken for sources is
\* what the line has named so far (Parser::Parse).
THEOREM CommandLineInvariant == CliSpec => []CliInv
<1>1. CliInv /\ [CliNext]_<<unit, cliVars>> => CliInv'
  BY FlagKeeps, PositionalKeeps, CommandKeeps, TranslateKeeps, OtherKeeps, NoCommandKeeps
     DEF CliNext, CliMain
<1>2. QED
  BY CliInitHolds, <1>1, PTL DEF CliSpec

\* What is translated is what the line names (Parser::Parse,
\* ConfigTranslationInput), whatever the arguments are.
THEOREM NamedIsTranslated == CliSpec => []TranslatesWhatIsNamed
<1>1. CliInv => TranslatesWhatIsNamed
  BY FilesAreNamed DEF CliInv, TranslatesWhatIsNamed
<1>2. QED
  BY CommandLineInvariant, <1>1, PTL

\* The exit code of the command comp tells how the translation ended (CliMain).
THEOREM ExitIsTrue == CliSpec => []ExitTells
<1>1. CliInv => ExitTells
  BY DEF CliInv, ExitTells
<1>2. QED
  BY CommandLineInvariant, <1>1, PTL

-----------------------------------------------------------------------------
(* The program.                                                            *)

\* What the provers do not know of strings: they are sequences of characters, and
\* the empty one has none.
Strings == "" \in STRING /\ Len("") = 0 /\ \E C : STRING \subseteq Seq(C)
\* What a parser answers is a tree with children, or none.
Answering(Answers) == \A p \in Answers : p.res = "ok" => Len(p.ast.kids) \in Nat
\* What an expression evaluates to is a value of a variable, or none.
Evaluated(Values) == \A v \in Values : v.kind \in Fatal \cup {"Fail"} \/ IsValue(v)

FilesFit == Len(files) \in Nat /\ \A i \in 1 .. Len(files) : IsSource(files[i])
NamesFit == \A i \in DOMAIN argv : argv[i].form = "plain" => IsSource(Disk[argv[i].name])
StageFits ==
  /\ at \in 1 .. (Len(files) + 1) /\ stage \in {"read", "lex", "parse", "eval"}
  /\ stage # "read" => at <= Len(files)
  /\ result = "idle" => at = 1 /\ stage = "read"
  /\ Len(tree.kids) \in Nat /\ stmt \in 1 .. (Len(tree.kids) + 1)
ValuesFit ==
  /\ \A v \in DOMAIN vars : IsValue(vars[v])
  /\ output \in {Uninitialized} \cup (Lowest("I32") .. Highest("I32"))
CliRest ==
  /\ result \in {"idle", "running"} \cup Outcomes
  /\ exit \in {"none", "0", "1", "ub"} /\ (phase = "ended" => exit # "none")
  /\ verbosity \in {"std", "silent"}
ProgramInv ==
  /\ CliInv /\ CliRest /\ NamesFit
  /\ LexInv /\ FilesFit /\ StageFits /\ ValuesFit

\* The lexicographic order of what is left.
Smaller(a1, a2, a3, a4, a5, b1, b2, b3, b4, b5) ==
  \/ a1 < b1
  \/ a1 = b1 /\ a2 < b2
  \/ a1 = b1 /\ a2 = b2 /\ a3 < b3
  \/ a1 = b1 /\ a2 = b2 /\ a3 = b3 /\ a4 < b4
  \/ a1 = b1 /\ a2 = b2 /\ a3 = b3 /\ a4 = b4 /\ a5 < b5

LEMMA Lexicographic ==
  ASSUME NEW a1 \in Int, NEW a2 \in Int, NEW a3 \in Int, NEW a4 \in Int, NEW a5 \in Int,
         NEW b1 \in Int, NEW b2 \in Int, NEW b3 \in Int, NEW b4 \in Int, NEW b5 \in Int,
         Smaller(a1, a2, a3, a4, a5, b1, b2, b3, b4, b5)
  PROVE  Precedes(<<a1, a2, a3, a4, a5>>, <<b1, b2, b3, b4, b5>>)
<1> DEFINE a == <<a1, a2, a3, a4, a5>>
           b == <<b1, b2, b3, b4, b5>>
<1>1. DOMAIN a = 1 .. 5 /\ a[1] = a1 /\ a[2] = a2 /\ a[3] = a3 /\ a[4] = a4 /\ a[5] = a5
  OBVIOUS
<1>2. b[1] = b1 /\ b[2] = b2 /\ b[3] = b3 /\ b[4] = b4 /\ b[5] = b5
  OBVIOUS
<1> HIDE DEF a, b
<1>3. \A j : /\ j \notin 1 .. (1 - 1)
              /\ (j \in 1 .. (2 - 1) => j = 1)
              /\ (j \in 1 .. (3 - 1) => j \in {1, 2})
              /\ (j \in 1 .. (4 - 1) => j \in {1, 2, 3})
              /\ (j \in 1 .. (5 - 1) => j \in {1, 2, 3, 4})
  OBVIOUS
<1>4. a1 < b1 => Precedes(a, b)
  BY <1>1, <1>2, <1>3 DEF Precedes
<1>5. a1 = b1 /\ a2 < b2 => Precedes(a, b)
  BY <1>1, <1>2, <1>3 DEF Precedes
<1>6. a1 = b1 /\ a2 = b2 /\ a3 < b3 => Precedes(a, b)
  BY <1>1, <1>2, <1>3 DEF Precedes
<1>7. a1 = b1 /\ a2 = b2 /\ a3 = b3 /\ a4 < b4 => Precedes(a, b)
  BY <1>1, <1>2, <1>3 DEF Precedes
<1>8. a1 = b1 /\ a2 = b2 /\ a3 = b3 /\ a4 = b4 /\ a5 < b5 => Precedes(a, b)
  BY <1>1, <1>2, <1>3 DEF Precedes
<1>9. Precedes(a, b)
  BY <1>4, <1>5, <1>6, <1>7, <1>8 DEF Smaller
<1>10. QED
  BY <1>9 DEF a, b

\* Each part of what is left is a number.
WorkFits ==
  /\ ArgumentsLeft \in Nat /\ Len(files) + 1 - at \in Nat
  /\ StagesLeft[stage] \in 0 .. 3 /\ StageLeft \in Nat
LEMMA WorkIsNat == ProgramInv => WorkFits
<1> SUFFICES ASSUME ProgramInv PROVE WorkFits
  OBVIOUS
<1>1. ArgumentsLeft \in Nat
  <2>1. Len(argv) \in Nat /\ arg \in 1 .. (Len(argv) + 1)
        /\ phase \in {"api", "main", "comp", "translating", "ended"}
    BY LenProperties DEF ProgramInv, CliInv, CliTypes
  <2>2. QED
    BY <2>1 DEF ArgumentsLeft
<1>2. Len(files) + 1 - at \in Nat
  BY DEF ProgramInv, FilesFit, StageFits
<1>3. StagesLeft[stage] \in 0 .. 3
  BY DEF ProgramInv, StageFits, StagesLeft
<1>4. StageLeft \in Nat
  <2>1. /\ Len(text) \in Nat /\ head \in 1 .. (Len(text) + 1)
        /\ Len(tree.kids) \in Nat /\ stmt \in 1 .. (Len(tree.kids) + 1)
    BY DEF ProgramInv, LexInv, HeadFits, StageFits
  <2>2. 2 * (Len(text) + 1 - head) \in Nat /\ Len(tree.kids) + 1 - stmt \in Nat
    BY <2>1
  <2>3. 2 * (Len(text) + 1 - head) + (IF lexing = "run" THEN 1 ELSE 0) \in Nat
    BY <2>2
  <2>4. QED
    BY <2>2, <2>3 DEF StageLeft
<1>5. QED
  BY <1>1, <1>2, <1>3, <1>4 DEF WorkFits

LEMMA WorkStaysNat == ProgramInv' => WorkFits'
BY WorkIsNat, PTL

LEMMA NothingNegative ==
  ASSUME ProgramInv'
  PROVE  \A i \in DOMAIN Work : Work'[i] >= 0
<1> DEFINE b == IF result' = "running" THEN 1 ELSE 0
<1>1. /\ ArgumentsLeft' \in Nat /\ (Len(files) + 1 - at)' \in Nat
      /\ (StagesLeft[stage])' \in 0 .. 3 /\ StageLeft' \in Nat /\ b \in Nat
  BY WorkStaysNat DEF WorkFits
<1>2. DOMAIN Work = 1 .. 5
  BY DEF Work
<1>3. Work' = <<ArgumentsLeft', b, (Len(files) + 1 - at)', (StagesLeft[stage])', StageLeft'>>
  BY DEF Work
<1> HIDE DEF b
<1>4. /\ Work'[1] = ArgumentsLeft' /\ Work'[2] = b /\ Work'[3] = (Len(files) + 1 - at)'
      /\ Work'[4] = (StagesLeft[stage])' /\ Work'[5] = StageLeft'
  BY <1>3
<1>5. \A i \in 1 .. 5 : i = 1 \/ i = 2 \/ i = 3 \/ i = 4 \/ i = 5
  OBVIOUS
<1>6. QED
  BY <1>1, <1>2, <1>4, <1>5

\* What is left becomes less: of the arguments, or of the translation.
LEMMA WorkDecreases ==
  ASSUME ProgramInv, ProgramInv',
         \/ ArgumentsLeft' < ArgumentsLeft
         \/ /\ ArgumentsLeft' = ArgumentsLeft /\ result = "running" /\ files' = files
            /\ \/ result' # "running"
               \/ at' > at
               \/ at' = at /\ StagesLeft'[stage'] < StagesLeft[stage]
               \/ at' = at /\ stage' = stage /\ StageLeft' < StageLeft
  PROVE  Precedes(Work', Work)
<1> DEFINE b == IF result = "running" THEN 1 ELSE 0
           c == IF result' = "running" THEN 1 ELSE 0
           d == Len(files) + 1 - at
           e == Len(files') + 1 - at'
           f == StagesLeft[stage]
           g == StagesLeft'[stage']
<1>1. /\ ArgumentsLeft \in Int /\ b \in Int /\ d \in Int /\ f \in Int /\ StageLeft \in Int
      /\ ArgumentsLeft' \in Int /\ c \in Int /\ e \in Int /\ g \in Int /\ StageLeft' \in Int
  BY WorkIsNat, WorkStaysNat DEF WorkFits, StagesLeft
<1>2. \/ ArgumentsLeft' < ArgumentsLeft
      \/ ArgumentsLeft' = ArgumentsLeft /\ c < b
      \/ ArgumentsLeft' = ArgumentsLeft /\ c = b /\ e < d
      \/ ArgumentsLeft' = ArgumentsLeft /\ c = b /\ e = d /\ g < f
      \/ ArgumentsLeft' = ArgumentsLeft /\ c = b /\ e = d /\ g = f /\ StageLeft' < StageLeft
  <2>1. /\ at \in Int /\ at' \in Int /\ Len(files) \in Int
    BY DEF ProgramInv, StageFits, FilesFit
  <2>2. files' = files /\ at' > at => e < d
    BY <2>1
  <2>3. stage' = stage => g = f
    BY DEF StagesLeft
  <2>4. files' = files /\ at' = at => e = d
    OBVIOUS
  <2> HIDE DEF d, e, f, g
  <2>5. QED
    BY <2>2, <2>3, <2>4 DEF f, g
<1>3. Work = <<ArgumentsLeft, b, d, f, StageLeft>> /\ Work' = <<ArgumentsLeft', c, e, g, StageLeft'>>
  BY DEF Work, StagesLeft
<1> HIDE DEF b, c, d, e, f, g
<1>4. Smaller(ArgumentsLeft', c, e, g, StageLeft', ArgumentsLeft, b, d, f, StageLeft)
  BY <1>2 DEF Smaller
<1>5. Precedes(<<ArgumentsLeft', c, e, g, StageLeft'>>, <<ArgumentsLeft, b, d, f, StageLeft>>)
  BY <1>1, <1>4, Lexicographic
<1>6. QED
  BY <1>3, <1>5

-----------------------------------------------------------------------------
(* Steps of the command line.                                              *)

\* The parser of flags ends, or goes on behind what it has taken.
LEMMA ParseShape ==
  ASSUME ParseFlag \/ ParsePositional \/ NoCommand
  PROVE  /\ Parsing
         /\ \/ \E code \in {"1", "ub"} : Exit(code) /\ (LeaveMain \/ UNCHANGED verbosity)
            \/ \E flag, value, n : n \in {1, 2} /\ Take(flag, value, n)
<1>1. CASE ParsePositional
  BY <1>1 DEF ParsePositional
<1>2. CASE NoCommand
  BY <1>2 DEF NoCommand
<1>3. CASE ParseFlag
  BY <1>3 DEF ParseFlag
<1>4. QED
  BY <1>1, <1>2, <1>3

LEMMA CliMainKeeps ==
  ASSUME CliInv, CliRest, CliMain
  PROVE  /\ CliRest' /\ argv' = argv /\ ArgumentsLeft' < ArgumentsLeft
         /\ (files' = files /\ result' = result) \/ Translate
<1>1. /\ Len(argv) \in Nat /\ arg \in 1 .. (Len(argv) + 1)
      /\ phase \in {"api", "main", "comp", "translating", "ended"}
  BY LenProperties DEF CliInv, CliTypes
<1>2. LeaveMain => verbosity' \in {"silent", verbosity}
  BY DEF LeaveMain
<1>3. Parsing => phase \in {"main", "comp"} /\ files' = files /\ result' = result /\ argv' = argv
  BY DEF Parsing, unit
<1>4. ASSUME Parsing, NEW code \in {"1", "ub"}, Exit(code), LeaveMain \/ UNCHANGED verbosity
      PROVE  CliRest' /\ ArgumentsLeft' < ArgumentsLeft
  <2>1. phase' = "ended" /\ exit' = code
    BY <1>4 DEF Exit
  <2>2. ArgumentsLeft' = 0 /\ ArgumentsLeft = Len(argv) + 3 - arg
    BY <1>3, <1>4, <2>1 DEF ArgumentsLeft
  <2>3. QED
    BY <1>1, <1>2, <1>3, <1>4, <2>1, <2>2 DEF CliRest
<1>5. ASSUME Parsing, NEW flag, NEW value, NEW n \in {1, 2}, Take(flag, value, n)
      PROVE  CliRest' /\ ArgumentsLeft' < ArgumentsLeft
  <2>1. phase' = phase /\ exit' = exit /\ verbosity' = verbosity /\ arg' = arg + n
    BY <1>5 DEF Take
  <2>2. ArgumentsLeft' = Len(argv) + 3 - (arg + n) /\ ArgumentsLeft = Len(argv) + 3 - arg
    BY <1>3, <1>5, <2>1 DEF ArgumentsLeft
  <2>3. QED
    BY <1>1, <1>3, <1>5, <2>1, <2>2 DEF CliRest
<1>6. CASE ParseFlag \/ ParsePositional \/ NoCommand
  BY <1>3, <1>4, <1>5, <1>6, ParseShape
<1>7. CASE ParseCommand
  <2>1. Parsing /\ LeaveMain
    BY <1>7 DEF ParseCommand
  <2>2. Exit("1") \/ (arg' = arg + 1 /\ phase' = "comp" /\ UNCHANGED <<flags, exit>>)
    BY <1>7 DEF ParseCommand
  <2>3. CASE Exit("1")
    BY <1>3, <1>4, <2>1, <2>3
  <2>4. CASE arg' = arg + 1 /\ phase' = "comp" /\ UNCHANGED <<flags, exit>>
    <3>1. ArgumentsLeft' = Len(argv) + 3 - (arg + 1) /\ ArgumentsLeft = Len(argv) + 3 - arg
      BY <1>3, <2>1, <2>4 DEF ArgumentsLeft
    <3>2. QED
      BY <1>1, <1>2, <1>3, <2>1, <2>4, <3>1 DEF CliRest
  <2>5. QED
    BY <2>2, <2>3, <2>4
<1>8. CASE Translate
  <2>1. /\ phase = "comp" /\ arg > Len(argv) /\ result' = "running" /\ phase' = "translating"
        /\ UNCHANGED <<argv, arg, flags, verbosity, exit>>
    BY <1>8 DEF Translate
  <2>2. ArgumentsLeft' = 1 /\ ArgumentsLeft = Len(argv) + 3 - arg
    BY <2>1 DEF ArgumentsLeft
  <2>3. QED
    BY <1>1, <1>8, <2>1, <2>2 DEF CliRest
<1>9. CASE HandlePostCompilation
  <2>1. /\ phase = "translating" /\ phase' = "ended"
        /\ files' = files /\ result' = result /\ argv' = argv /\ verbosity' = verbosity
        /\ exit' \in {"0", "1", "ub"}
    BY <1>9 DEF HandlePostCompilation, unit
  <2>2. ArgumentsLeft' = 0 /\ ArgumentsLeft = 1
    BY <2>1 DEF ArgumentsLeft
  <2>3. QED
    BY <2>1, <2>2 DEF CliRest
<1>10. QED
  BY <1>6, <1>7, <1>8, <1>9 DEF CliMain
\* The files named on the line are sources.
LEMMA InputFilesFit ==
  ASSUME CliTypes, Reading, NamesFit
  PROVE  Len(InputFiles) \in Nat /\ \A i \in 1 .. Len(InputFiles) : IsSource(InputFiles[i])
<1>1. PICK c \in DOMAIN argv : ReadFrom(c)
  BY DEF Reading
<1>2. /\ DOMAIN argv = 1 .. Len(argv) /\ Len(argv) \in Nat /\ arg \in 1 .. (Len(argv) + 1)
      /\ DOMAIN flags = 1 .. Len(flags) /\ Len(flags) \in Nat
  BY LenProperties DEF CliTypes
<1>3. CASE Parsed("Sources") = {}
  <2>1. Cardinality({}) = 0
    BY FS_EmptySet
  <2>2. InputFiles = [k \in 1 .. 0 |-> Disk[flags[Nth(k, {})].value]]
    BY <1>3, <2>1 DEF InputFiles
  <2>3. Len(InputFiles) = 0
    BY <2>2
  <2>4. QED
    BY <2>3
<1>4. ASSUME NEW g \in DOMAIN flags, NEW s \in DOMAIN argv,
             Parsed("Sources") = {g}, Sources(c) = {s}, flags[g].value = argv[s].name
      PROVE  Len(InputFiles) \in Nat /\ \A i \in 1 .. Len(InputFiles) : IsSource(InputFiles[i])
  <2>1. g \in Int
    BY <1>2
  <2>2. Cardinality({g}) = 1 /\ Nth(1, {g}) = g
    BY <2>1, OneFile
  <2>3. InputFiles = [k \in 1 .. 1 |-> Disk[flags[Nth(k, {g})].value]]
    BY <1>4, <2>2 DEF InputFiles
  <2>4. Len(InputFiles) = 1 /\ InputFiles[1] = Disk[argv[s].name]
    BY <1>4, <2>2, <2>3
  <2>5. argv[s].form = "plain"
    BY <1>4 DEF Sources
  <2>6. IsSource(Disk[argv[s].name])
    BY <2>5 DEF NamesFit
  <2>7. \A i \in 1 .. 1 : i = 1
    OBVIOUS
  <2>8. QED
    BY <2>4, <2>6, <2>7
<1>5. QED
  BY <1>1, <1>3, <1>4 DEF ReadFrom, Matched, SameSources

LEMMA CliMainKeepsInv ==
  ASSUME CliInv, CliMain
  PROVE  CliInv'
BY FlagKeeps, PositionalKeeps, CommandKeeps, TranslateKeeps, OtherKeeps, NoCommandKeeps DEF CliMain

LEMMA MainKeeps ==
  ASSUME ProgramInv, Main
  PROVE  ProgramInv' /\ Precedes(Work', Work)
<1>1. /\ CliInv /\ CliRest /\ NamesFit /\ LexInv /\ FilesFit /\ StageFits /\ ValuesFit /\ CliMain
      /\ text' = text /\ head' = head /\ tokens' = tokens /\ lexing' = lexing
      /\ at' = at /\ stage' = stage /\ tree' = tree /\ stmt' = stmt /\ vars' = vars /\ output' = output
  BY DEF ProgramInv, Main, compilerVars, lexVars
<1>2. CliInv' /\ CliRest' /\ argv' = argv /\ ArgumentsLeft' < ArgumentsLeft
  BY <1>1, CliMainKeepsInv, CliMainKeeps
<1>3. NamesFit'
  BY <1>1, <1>2 DEF NamesFit
<1>4. LexInv'
  BY <1>1 DEF LexInv, HeadFits, LexTiles
<1>5. ValuesFit'
  BY <1>1 DEF ValuesFit
<1>6. FilesFit' /\ StageFits'
  <2>1. CASE Translate
    <3>1. /\ phase = "comp" /\ files' = InputFiles /\ result' = "running"
      BY <2>1 DEF Translate
    <3>2. result = "idle" /\ Reading /\ CliTypes
      BY <1>1, <3>1 DEF CliInv
    <3>3. FilesFit'
      BY <1>1, <3>1, <3>2, InputFilesFit DEF FilesFit
    <3>4. Len(files') \in Nat /\ at = 1 /\ stage = "read"
      BY <1>1, <3>2, <3>3 DEF FilesFit, StageFits
    <3>5. StageFits'
      BY <1>1, <3>1, <3>4 DEF StageFits
    <3>6. QED
      BY <3>3, <3>5
  <2>2. CASE files' = files /\ result' = result
    BY <1>1, <2>2 DEF FilesFit, StageFits
  <2>3. QED
    BY <1>1, <2>1, <2>2, CliMainKeeps
<1>7. ProgramInv'
  BY <1>2, <1>3, <1>4, <1>5, <1>6 DEF ProgramInv
<1>8. QED
  BY <1>2, <1>7, WorkDecreases

-----------------------------------------------------------------------------
(* Steps of the translation.                                               *)

UnitFits == LexInv /\ StageFits /\ ValuesFit
UnitStep ==
  \/ result' # "running"
  \/ at' > at
  \/ at' = at /\ StagesLeft'[stage'] < StagesLeft[stage]
  \/ at' = at /\ stage' = stage /\ StageLeft' < StageLeft

LEMMA FinishKeeps ==
  ASSUME UnitFits, UNCHANGED lexVars, NEW how \in Outcomes, Finish(how)
  PROVE  UnitFits' /\ UnitStep
<1>1. how # "idle" /\ how # "running"
  BY DEF Outcomes
<1>2. LexInv'
  BY DEF UnitFits, lexVars, LexInv, HeadFits, LexTiles
<1>3. StageFits' /\ ValuesFit' /\ result' = how
  BY <1>1 DEF UnitFits, Finish, StageFits, ValuesFit
<1>4. QED
  BY <1>1, <1>2, <1>3 DEF UnitFits, UnitStep

LEMMA ReadKeeps ==
  ASSUME Strings, UnitFits, FilesFit, result = "running", ReadSourceFile
  PROVE  UnitFits' /\ UnitStep
<1>1. stage = "read" /\ at \in 1 .. (Len(files) + 1) /\ Len(files) \in Nat
  BY DEF ReadSourceFile, UnitFits, StageFits, FilesFit
<1>2. CASE UNCHANGED lexVars /\ \E how \in {"ok", "failed", "ub"} : Finish(how)
  BY <1>2, FinishKeeps DEF Outcomes
<1>3. CASE /\ at <= Len(files) /\ files[at] # NoFile /\ StartLex(files[at]) /\ stage' = "lex"
           /\ UNCHANGED <<files, at, tree, stmt, vars, output, result>>
  <2>1. at \in 1 .. Len(files)
    BY <1>1, <1>3
  <2>2. Len(files[at]) \in Nat
    <3>1. files[at] \in STRING
      BY <1>3, <2>1 DEF FilesFit, IsSource
    <3>2. PICK C : STRING \subseteq Seq(C)
      BY Zenon DEF Strings
    <3>3. QED
      BY <3>1, <3>2
  <2>3. LexInv'
    BY <1>3, <2>2, StartKeeps
  <2>4. StageFits' /\ ValuesFit'
    BY <1>3, <2>1 DEF UnitFits, StageFits, ValuesFit
  <2>5. StagesLeft'[stage'] < StagesLeft[stage]
    BY <1>1, <1>3 DEF StagesLeft
  <2>6. QED
    BY <1>3, <2>3, <2>4, <2>5 DEF UnitFits, UnitStep
<1>4. \/ UNCHANGED lexVars /\ \E how \in {"ok", "failed", "ub"} : Finish(how)
      \/ /\ at <= Len(files) /\ files[at] # NoFile /\ StartLex(files[at]) /\ stage' = "lex"
         /\ UNCHANGED <<files, at, tree, stmt, vars, output, result>>
  BY <1>1 DEF ReadSourceFile
<1>5. QED
  BY <1>2, <1>3, <1>4

LEMMA LexStepKeeps ==
  ASSUME UnitFits, LexStep
  PROVE  UnitFits' /\ UnitStep
<1>1. /\ stage = "lex" /\ Process /\ LexInv /\ StageFits /\ ValuesFit
      /\ files' = files /\ at' = at /\ stage' = stage /\ tree' = tree /\ stmt' = stmt
      /\ vars' = vars /\ output' = output /\ result' = result
  BY DEF LexStep, unitVars, UnitFits
<1>2. LexInv' /\ LexAdvances
  BY <1>1, ProcessKeeps
<1>3. StageFits' /\ ValuesFit'
  BY <1>1 DEF StageFits, ValuesFit
<1>4. StageLeft' < StageLeft
  <2>1. lexing = "run"
    BY <1>1 DEF Process
  <2>2. /\ Len(text) \in Nat /\ head \in 1 .. (Len(text) + 1) /\ head' \in 1 .. (Len(text) + 1)
        /\ text' = text /\ (head' > head \/ (head' = head /\ lexing' # "run"))
    BY <1>1, <1>2 DEF LexInv, HeadFits, LexAdvances
  <2>3. /\ StageLeft = 2 * (Len(text) + 1 - head) + 1
        /\ StageLeft' = 2 * (Len(text) + 1 - head') + (IF lexing' = "run" THEN 1 ELSE 0)
    BY <1>1, <2>1, <2>2 DEF StageLeft
  <2>4. QED
    BY <2>2, <2>3
<1>5. QED
  BY <1>1, <1>2, <1>3, <1>4 DEF UnitFits, UnitStep

LEMMA SanitizeKeeps ==
  ASSUME UnitFits, SanitizeTokens
  PROVE  UnitFits' /\ UnitStep
<1>1. stage = "lex" /\ lexing # "run" /\ UNCHANGED lexVars /\ lexing \in {"run", "done", "failed", "ub"}
  BY DEF SanitizeTokens, UnitFits, LexInv
<1>2. CASE Finish(lexing) /\ lexing # "done"
  BY <1>1, <1>2, FinishKeeps DEF Outcomes
<1>3. CASE stage' = "parse" /\ UNCHANGED <<files, at, tree, stmt, vars, output, result>>
  <2>1. LexInv'
    BY <1>1 DEF UnitFits, lexVars, LexInv, HeadFits, LexTiles
  <2>2. StageFits' /\ ValuesFit'
    BY <1>1, <1>3 DEF UnitFits, StageFits, ValuesFit
  <2>3. StagesLeft'[stage'] < StagesLeft[stage]
    BY <1>1, <1>3 DEF StagesLeft
  <2>4. QED
    BY <1>3, <2>1, <2>2, <2>3 DEF UnitFits, UnitStep
<1>4. QED
  BY <1>1, <1>2, <1>3 DEF SanitizeTokens

LEMMA ParseTokensKeeps ==
  ASSUME NEW Answers, Answering(Answers), NEW p \in Answers, UnitFits, ParseTokens(p)
  PROVE  UnitFits' /\ UnitStep
<1>1. stage = "parse" /\ UNCHANGED lexVars
  BY DEF ParseTokens
<1>2. CASE \E how \in {"failed", "ub"} : Finish(how)
  BY <1>1, <1>2, FinishKeeps DEF Outcomes
<1>3. CASE /\ p.res = "ok" /\ tree' = p.ast /\ stmt' = 1 /\ stage' = "eval"
           /\ UNCHANGED <<files, at, vars, output, result>>
  <2>1. LexInv'
    BY <1>1 DEF UnitFits, lexVars, LexInv, HeadFits, LexTiles
  <2>2. Len(p.ast.kids) \in Nat
    BY <1>3 DEF Answering
  <2>3. StageFits' /\ ValuesFit'
    BY <1>1, <1>3, <2>2 DEF UnitFits, StageFits, ValuesFit
  <2>4. StagesLeft'[stage'] < StagesLeft[stage]
    BY <1>1, <1>3 DEF StagesLeft
  <2>5. QED
    BY <1>3, <2>1, <2>3, <2>4 DEF UnitFits, UnitStep
<1>4. QED
  BY <1>2, <1>3 DEF ParseTokens

\* The next statement of the file is at hand.
LEMMA ProceedKeeps ==
  ASSUME UnitFits, Evaluating, stmt <= Len(tree.kids), Proceed, ValuesFit'
  PROVE  UnitFits' /\ UnitStep
<1>1. /\ stage = "eval" /\ UNCHANGED lexVars /\ stmt' = stmt + 1
      /\ UNCHANGED <<files, at, stage, tree, result>> /\ StageFits
  BY DEF Evaluating, Proceed, UnitFits
<1>2. LexInv'
  BY <1>1 DEF UnitFits, lexVars, LexInv, HeadFits, LexTiles
<1>3. Len(tree.kids) \in Nat /\ stmt \in 1 .. Len(tree.kids)
  BY DEF UnitFits, StageFits
<1>4. StageFits'
  BY <1>1, <1>3 DEF StageFits
<1>5. StageLeft = Len(tree.kids) + 1 - stmt /\ StageLeft' = Len(tree.kids) + 1 - (stmt + 1)
  BY <1>1 DEF StageLeft
<1>6. StageLeft' < StageLeft
  <2>1. \A n \in Nat : \A s \in 1 .. n : n + 1 - (s + 1) < n + 1 - s
    OBVIOUS
  <2>2. QED
    BY <1>3, <1>5, <2>1
<1>7. QED
  BY <1>1, <1>2, <1>4, <1>6 DEF UnitFits, UnitStep

LEMMA DefinitionKeeps ==
  ASSUME NEW Values, Evaluated(Values), NEW v \in Values, UnitFits, EvalPragmaticVariableDefinition(v)
  PROVE  UnitFits' /\ UnitStep
<1>1. Evaluating /\ stmt <= Len(tree.kids) /\ UNCHANGED lexVars
  BY DEF EvalPragmaticVariableDefinition, EvaluatesTo, Evaluating
<1>2. CASE \E how \in {"ub", "failed", Outcome(v)} : Finish(how)
  <2>1. {"ub", "failed", Outcome(v)} \subseteq Outcomes
    BY DEF Outcomes, Outcome
  <2>2. QED
    BY <1>1, <1>2, <2>1, FinishKeeps
<1> DEFINE ident == Literal(ThisStmt.kids[Len(ThisStmt.kids) - 1])
<1> HIDE DEF ident
<1>3. CASE /\ v.kind \notin Fatal \cup {"Fail"} /\ output' = output /\ Proceed
           /\ vars' = [x \in DOMAIN vars \cup {ident} |-> IF x \in DOMAIN vars THEN vars[x] ELSE v]
  <2>1. IsValue(v)
    BY <1>3 DEF Evaluated
  <2>2. \A x \in DOMAIN vars' : vars'[x] = v \/ (x \in DOMAIN vars /\ vars'[x] = vars[x])
    BY <1>3
  <2>3. \A x \in DOMAIN vars' : IsValue(vars'[x])
    BY <2>1, <2>2 DEF UnitFits, ValuesFit
  <2>4. ValuesFit'
    BY <1>3, <2>3 DEF UnitFits, ValuesFit
  <2>5. QED
    BY <1>1, <1>3, <2>4, ProceedKeeps
<1>4. \/ \E how \in {"ub", "failed", Outcome(v)} : Finish(how)
      \/ /\ v.kind \notin Fatal \cup {"Fail"} /\ output' = output /\ Proceed
         /\ vars' = [x \in DOMAIN vars \cup {ident} |-> IF x \in DOMAIN vars THEN vars[x] ELSE v]
  BY DEF EvalPragmaticVariableDefinition, ident
<1>5. QED
  BY <1>2, <1>3, <1>4

LEMMA ReturnKeeps ==
  ASSUME NEW Values, Evaluated(Values), NEW v \in Values, UnitFits, result = "running",
         EvalPragmaticReturnStmt(v)
  PROVE  UnitFits' /\ UnitStep
<1>1. stage = "eval" /\ UNCHANGED lexVars
  BY DEF EvalPragmaticReturnStmt, EvaluatesTo, Evaluating
<1>2. CASE \E how \in {"ub", Outcome(v)} : Finish(how)
  <2>1. {"ub", Outcome(v)} \subseteq Outcomes
    BY DEF Outcomes, Outcome
  <2>2. QED
    BY <1>1, <1>2, <2>1, FinishKeeps
<1>3. ASSUME v.kind = "I32", output' = v.data,
             NextFile \/ (result' = "ub" /\ UNCHANGED <<files, at, stage, tree, stmt, vars>>)
      PROVE  UnitFits' /\ UnitStep
  <2>1. v.data \in Lowest("I32") .. Highest("I32")
    <3>1. IsValue(v)
      BY <1>3 DEF Evaluated, Fatal
    <3>2. "I32" \in Integral
      BY DEF Integral, Bits
    <3>3. QED
      BY <1>3, <3>1, <3>2 DEF IsValue
  <2>2. vars' = vars
    BY <1>3 DEF NextFile
  <2>3. ValuesFit'
    BY <1>3, <2>1, <2>2 DEF UnitFits, ValuesFit
  <2>4. LexInv'
    BY <1>1 DEF UnitFits, lexVars, LexInv, HeadFits, LexTiles
  <2>5. StageFits' /\ UnitStep
    <3>1. CASE NextFile
      <4>1. /\ at' = at + 1 /\ stage' = "read" /\ files' = files /\ tree' = tree /\ stmt' = stmt
            /\ result' = result
        BY <3>1 DEF NextFile
      <4>2. at \in Nat /\ at <= Len(files) /\ at + 1 \in 1 .. (Len(files) + 1)
        BY <1>1 DEF UnitFits, StageFits
      <4>3. QED
        BY <4>1, <4>2 DEF UnitFits, StageFits, UnitStep
    <3>2. CASE result' = "ub" /\ UNCHANGED <<files, at, stage, tree, stmt, vars>>
      BY <3>2 DEF UnitFits, StageFits, UnitStep
    <3>3. QED
      BY <1>3, <3>1, <3>2
  <2>6. QED
    BY <2>3, <2>4, <2>5 DEF UnitFits
<1>4. QED
  BY <1>2, <1>3 DEF EvalPragmaticReturnStmt

LEMMA SkipKeeps ==
  ASSUME UnitFits, SkipStatement
  PROVE  UnitFits' /\ UnitStep
<1>1. Evaluating /\ stmt <= Len(tree.kids) /\ Proceed /\ vars' = vars /\ output' = output
  BY DEF SkipStatement
<1>2. ValuesFit'
  BY <1>1 DEF UnitFits, ValuesFit
<1>3. QED
  BY <1>1, <1>2, ProceedKeeps

LEMMA EndKeeps ==
  ASSUME UnitFits, EndOfFile
  PROVE  UnitFits' /\ UnitStep
BY FinishKeeps DEF EndOfFile, Evaluating, Outcomes

LEMMA CompileKeeps ==
  ASSUME NEW Answers, NEW Values, Answering(Answers), Evaluated(Values), Strings,
         NEW p \in Answers, NEW v \in Values, ProgramInv, Compile(p, v)
  PROVE  ProgramInv' /\ Precedes(Work', Work)
<1>1. /\ result = "running" /\ result' \in {"running"} \cup Outcomes /\ files' = files /\ Translates
      /\ UNCHANGED cliVars
  BY DEF Compile, Running, Translates
<1>2. UnitFits /\ FilesFit
  BY DEF ProgramInv, UnitFits
<1>3. UnitFits' /\ UnitStep
  BY <1>1, <1>2, ReadKeeps, LexStepKeeps, SanitizeKeeps, ParseTokensKeeps, DefinitionKeeps,
     ReturnKeeps, SkipKeeps, EndKeeps DEF Compile, Running
<1>4. CliInv'
  BY <1>1, OtherKeeps DEF ProgramInv
<1>5. CliRest' /\ NamesFit' /\ FilesFit'
  BY <1>1 DEF ProgramInv, CliRest, NamesFit, FilesFit, cliVars
<1>6. ProgramInv'
  BY <1>3, <1>4, <1>5 DEF ProgramInv, UnitFits
<1>7. ArgumentsLeft' = ArgumentsLeft
  BY <1>1 DEF ArgumentsLeft, cliVars
<1>8. /\ at \in Int /\ at' \in Int /\ Len(files) \in Int
  BY <1>2, <1>3 DEF UnitFits, StageFits, FilesFit
<1>9. QED
  BY <1>1, <1>3, <1>6, <1>7, <1>8, WorkDecreases DEF UnitStep

-----------------------------------------------------------------------------
(* The theorems.                                                           *)

LEMMA ProgramInitHolds ==
  ASSUME Strings, ProgramInit
  PROVE  ProgramInv
<1>1. CliInit /\ CliInv
  BY CliInitHolds DEF ProgramInit
<1>2. /\ at = 1 /\ stage = "read" /\ LexIdle /\ tree = NoTree /\ stmt = 1
      /\ vars = <<>> /\ output = Uninitialized
  BY DEF ProgramInit, Fresh
<1>3. tokens = <<>> /\ head = 1 /\ Len(text) = 0 /\ lexing = "done"
  BY <1>2 DEF LexIdle, Strings
<1>4. LexInv
  BY <1>3, NoTokens
<1>5. CliRest
  BY <1>1 DEF CliInit, CliRest
<1>6. FilesFit /\ NamesFit
  <2>1. CASE files \in Units /\ argv = <<>>
    <3>1. FilesFit
      BY <2>1, UnitsAssumption DEF FilesFit
    <3>2. DOMAIN argv = {}
      BY <2>1
    <3>3. QED
      BY <3>1, <3>2 DEF NamesFit
  <2>2. CASE files = <<>> /\ argv \in CommandLines
    <3>1. Len(files) = 0 /\ 1 .. 0 = {}
      BY <2>2
    <3>2. QED
      BY <2>2, <3>1, DiskAssumption DEF FilesFit, NamesFit
  <2>3. QED
    BY <1>1, <2>1, <2>2 DEF CliInit
<1>7. Len(tree.kids) = 0
  BY <1>2 DEF NoTree, Bare, Node
<1>8. StageFits
  BY <1>2, <1>6, <1>7 DEF StageFits, FilesFit
<1>9. DOMAIN vars = {}
  BY <1>2
<1>10. ValuesFit
  BY <1>2, <1>9 DEF ValuesFit
<1>11. QED
  BY <1>1, <1>4, <1>5, <1>6, <1>8, <1>10 DEF ProgramInv

LEMMA ProgramKeeps ==
  ASSUME NEW Answers, NEW Values, Answering(Answers), Evaluated(Values), Strings,
         ProgramInv, [ProgramNext(Answers, Values)]_programVars
  PROVE  ProgramInv' /\ (UNCHANGED programVars \/ Precedes(Work', Work))
<1>1. CASE Main
  BY <1>1, MainKeeps
<1>2. ASSUME NEW p \in Answers, NEW v \in Values, Compile(p, v)
      PROVE  ProgramInv' /\ Precedes(Work', Work)
  BY <1>2, CompileKeeps
<1>3. CASE UNCHANGED programVars
  <2>1. CliInv'
    BY <1>3, OtherKeeps DEF ProgramInv, programVars
  <2>2. CliRest' /\ NamesFit' /\ FilesFit' /\ StageFits' /\ ValuesFit'
    BY <1>3 DEF ProgramInv, programVars, compilerVars, unit, cliVars, CliRest, NamesFit, FilesFit,
                StageFits, ValuesFit
  <2>3. LexInv'
    BY <1>3 DEF ProgramInv, programVars, compilerVars, lexVars, LexInv, HeadFits, LexTiles
  <2>4. QED
    BY <1>3, <2>1, <2>2, <2>3 DEF ProgramInv
<1>4. QED
  BY <1>1, <1>2, <1>3 DEF ProgramNext, Ended

\* What the program keeps to, whatever its parser answers and its expressions
\* evaluate to (CliMain, TrUnit).
THEOREM ProgramInvariant ==
  ASSUME NEW Answers, NEW Values, Answering(Answers), Evaluated(Values), Strings
  PROVE  ProgramSpec(Answers, Values) => []ProgramInv
<1>1. ProgramInit => ProgramInv
  BY ProgramInitHolds
<1>2. ProgramInv /\ [ProgramNext(Answers, Values)]_programVars => ProgramInv'
  BY ProgramKeeps
<1>3. QED
  BY <1>1, <1>2, PTL DEF ProgramSpec

\* The tokens of a text lie in it one behind the other without a gap, and cover a
\* text that is lexed to its end (Lexer::Process), whatever files are translated.
THEOREM TokensTile ==
  ASSUME NEW Answers, NEW Values, Answering(Answers), Evaluated(Values), Strings
  PROVE  ProgramSpec(Answers, Values) => []LexTiles
<1>1. ProgramInv => LexTiles
  BY DEF ProgramInv, LexInv
<1>2. QED
  BY ProgramInvariant, <1>1, PTL

\* The variables of the program have their types (TrUnit, CliMain).
THEOREM ProgramTypes ==
  ASSUME NEW Answers, NEW Values, Answering(Answers), Evaluated(Values), Strings
  PROVE  ProgramSpec(Answers, Values) => []TypeOK
<1>1. ProgramInv => TypeOK
  BY DEF ProgramInv, CliInv, CliTypes, CliRest, LexInv, HeadFits, StageFits, ValuesFit, TypeOK
<1>2. QED
  BY ProgramInvariant, <1>1, PTL

\* Every run of the program ends: what is left of its arguments, files, stages,
\* text and statements becomes less with every step (CliMain, TrUnit::Evaluate,
\* Lexer::Process).
THEOREM ProgramEnds ==
  ASSUME NEW Answers, NEW Values, Answering(Answers), Evaluated(Values), Strings
  PROVE  ProgramSpec(Answers, Values) => ProgramProgresses
<1>1. ASSUME ProgramInv, [ProgramNext(Answers, Values)]_programVars
      PROVE  [(\A i \in DOMAIN Work : Work'[i] >= 0) /\ Precedes(Work', Work)]_programVars
  <2>1. ProgramInv' /\ (UNCHANGED programVars \/ Precedes(Work', Work))
    BY <1>1, ProgramKeeps
  <2>2. \A i \in DOMAIN Work : Work'[i] >= 0
    BY <2>1, NothingNegative
  <2>3. QED
    BY <2>1, <2>2
<1>2. QED
  BY ProgramInvariant, <1>1, PTL DEF ProgramSpec, ProgramProgresses
-----------------------------------------------------------------------------
(* The values.                                                             *)

\* What the provers do not know of powers.
PowersOfTwo == \A n \in Nat : 2 ^ n \in Nat \ {0}
\* What an operator answers: a value, or none.
Answered(v) == v.kind \in {"Error", "Throw", "Trap", "Undefined"} \/ IsValue(v)

LEMMA Kinds ==
  /\ Integral = {"I8", "I16", "I32", "I64", "U8", "U16", "U32", "U64", "Bool"}
  /\ \A kind \in Integral : Bits[kind] \in Nat \ {0}
  /\ Bits["Bool"] = 1
BY WidthAssumption DEF Integral, Bits

LEMMA Bounds ==
  ASSUME PowersOfTwo, NEW kind \in Integral
  PROVE  /\ 2 ^ Bits[kind] \in Nat \ {0} /\ Lowest(kind) \in Int
         /\ Highest(kind) = Lowest(kind) + 2 ^ Bits[kind] - 1
<1>1. Bits[kind] \in Nat \ {0} /\ Bits[kind] - 1 \in Nat
  BY Kinds
<1>2. 2 ^ Bits[kind] \in Nat \ {0} /\ 2 ^ (Bits[kind] - 1) \in Nat \ {0}
  BY <1>1 DEF PowersOfTwo
<1>3. QED
  BY <1>2 DEF Lowest, Highest

LEMMA Booleans == Lowest("Bool") = 0 /\ Highest("Bool") = 1 /\ "Bool" \in Integral
<1>1. 2 ^ 1 = 2
  OBVIOUS
<1>2. Lowest("Bool") = 0
  BY DEF Lowest, Signed
<1>3. 2 ^ Bits["Bool"] = 2
  BY <1>1, Kinds
<1>4. QED
  BY <1>2, <1>3, Kinds DEF Highest

LEMMA TruthIsValue == \A n \in {0, 1} : IsValue(Value("Bool", n)) /\ Value("Bool", n).kind = "Bool"
BY Booleans DEF IsValue, Value

\* The conversion to a kind gives a number of that kind, whatever number it is of.
LEMMA ConvertFits ==
  ASSUME PowersOfTwo, NEW kind \in Integral, NEW n \in Int
  PROVE  Convert(kind, n) \in Lowest(kind) .. Highest(kind)
<1>1. CASE kind = "Bool"
  BY <1>1, Booleans DEF Convert
<1>2. CASE kind # "Bool"
  <2> DEFINE low == Lowest(kind)
             m == 2 ^ Bits[kind]
  <2>1. low \in Int /\ m \in Nat \ {0} /\ Highest(kind) = low + m - 1
    BY Bounds
  <2>2. Convert(kind, n) = ((n - low) % m) + low
    BY <1>2 DEF Convert
  <2> HIDE DEF low, m
  <2>3. (n - low) % m \in 0 .. (m - 1)
    BY <2>1
  <2>4. Convert(kind, n) \in low .. Highest(kind)
    BY <2>1, <2>2, <2>3
  <2>5. QED
    BY <2>4 DEF low
<1>3. QED
  BY <1>1, <1>2

LEMMA CommonKind == \A a, b \in Integral : CommonType(a, b) \in Integral
<1> SUFFICES ASSUME NEW a \in Integral, NEW b \in Integral PROVE CommonType(a, b) \in Integral
  OBVIOUS
<1>1. \A kind : Rank(kind) \in 1 .. 4
  <2> SUFFICES ASSUME NEW kind PROVE Rank(kind) \in 1 .. 4
    OBVIOUS
  <2>1. DOMAIN ConversionOrder = 1 .. 4 /\ ConversionOrder[2] = "U32"
        /\ ConversionOrder[3] = "I64" /\ ConversionOrder[4] = "U64"
    BY DEF ConversionOrder
  <2>2. kind \in {"U32", "I64", "U64"} => \E i \in 1 .. 4 : ConversionOrder[i] = kind
    BY <2>1
  <2>3. QED
    BY <2>1, <2>2 DEF Rank
<1>2. \A i \in 1 .. 4 : ConversionOrder[i] \in {"I32", "U32", "I64", "U64"}
  <2>1. \A i \in 1 .. 4 : i = 1 \/ i = 2 \/ i = 3 \/ i = 4
    OBVIOUS
  <2>2. QED
    BY <2>1 DEF ConversionOrder
<1>3. QED
  BY <1>1, <1>2, Kinds DEF CommonType

LEMMA ExactIsValue ==
  ASSUME PowersOfTwo, NEW l, l.kind \in Integral, NEW common \in Integral, NEW n \in Int
  PROVE  Exact(l, common, n) = Undefined \/ IsValue(Exact(l, common, n))
<1>1. ResultKind(l.kind) \in Integral
  BY Kinds DEF ResultKind
<1>2. Convert(common, n) \in Int
  BY ConvertFits
<1>3. Convert(ResultKind(l.kind), Convert(common, n))
        \in Lowest(ResultKind(l.kind)) .. Highest(ResultKind(l.kind))
  BY <1>1, <1>2, ConvertFits
<1>4. QED
  BY <1>1, <1>3 DEF IsValue, Exact, Value

LEMMA TruncatedIsInt ==
  ASSUME NEW x \in Int, NEW y \in Int, y # 0
  PROVE  Truncated(x, y) \in Int
<1>1. Abs(x) \in Nat /\ Abs(y) \in Nat \ {0}
  BY DEF Abs
<1>2. Abs(x) \div Abs(y) \in Int
  BY <1>1
<1>3. QED
  BY <1>2 DEF Truncated

\* The operands of an arithmetic operator that is carried out.
LEMMA Operands ==
  ASSUME PowersOfTwo, NEW l, NEW r, IsValue(l), IsValue(r),
         l.kind \in Integral, r.kind \in Integral, NEW common, common = CommonType(l.kind, r.kind)
  PROVE  /\ common \in Integral
         /\ Convert(common, l.data) \in Int /\ Convert(common, r.data) \in Int
<1>1. common \in Integral
  BY CommonKind
<1>2. l.data \in Int /\ r.data \in Int
  BY DEF IsValue
<1>3. QED
  BY <1>1, <1>2, ConvertFits

\* Every operator answers a number of the kind it says, whatever the width of the
\* integers is, or no number at all: unsigned it wraps, and a signed overflow, of
\* which C++ says nothing, is told from every number (AnyValue), so that no
\* variable and no value returned is ever out of its range.
THEOREM OperatorsStayInRange ==
  ASSUME PowersOfTwo, NEW l, NEW r, IsValue(l), IsValue(r)
  PROVE  /\ Answered(Add(l, r)) /\ Answered(Sub(l, r)) /\ Answered(Mul(l, r))
         /\ Answered(Div(l, r)) /\ Answered(Mod(l, r))
         /\ Answered(And(l, r)) /\ Answered(Or(l, r)) /\ Answered(Xor(l, r))
         /\ Answered(Lsh(l, r)) /\ Answered(Rsh(l, r))
         /\ Answered(Eq(l, r)) /\ Answered(Neq(l, r)) /\ Answered(Lt(l, r))
         /\ Answered(Gt(l, r)) /\ Answered(Lte(l, r)) /\ Answered(Gte(l, r))
<1> DEFINE common == CommonType(l.kind, r.kind)
           x == Convert(common, l.data)
           y == Convert(common, r.data)
<1>1. Answered(Error) /\ Answered(Throw) /\ Answered(Trap) /\ Answered(Undefined)
  BY DEF Answered, Error, Throw, Trap, Undefined, Value
<1>2. l.kind \in Integral /\ r.kind \in Integral => common \in Integral /\ x \in Int /\ y \in Int
  BY Operands
<1> HIDE DEF common, x, y
<1>3. ASSUME l.kind \in Integral, r.kind \in Integral, NEW n \in Int
      PROVE  Answered(Exact(l, common, n))
  BY <1>1, <1>2, <1>3, ExactIsValue DEF Answered
<1>4. Answered(Add(l, r))
  <2>1. \/ Add(l, r) \in {Error, Throw}
        \/ l.kind \in Integral /\ r.kind \in Integral /\ Add(l, r) = Exact(l, common, x + y)
    BY DEF Add, Arithmetic, common, x, y
  <2>2. QED
    BY <1>1, <1>2, <1>3, <2>1
<1>5. Answered(Sub(l, r))
  <2>1. \/ Sub(l, r) \in {Error, Throw}
        \/ l.kind \in Integral /\ r.kind \in Integral /\ Sub(l, r) = Exact(l, common, x - y)
    BY DEF Sub, Arithmetic, common, x, y
  <2>2. QED
    BY <1>1, <1>2, <1>3, <2>1
<1>6. Answered(Mul(l, r))
  <2>1. \/ Mul(l, r) \in {Error, Throw}
        \/ l.kind \in Integral /\ r.kind \in Integral /\ Mul(l, r) = Exact(l, common, x * y)
    BY DEF Mul, Arithmetic, common, x, y
  <2>2. x \in Int /\ y \in Int => x * y \in Int
    OBVIOUS
  <2>3. QED
    BY <1>1, <1>2, <1>3, <2>1, <2>2
<1>7. Answered(Div(l, r))
  <2>1. \/ Div(l, r) \in {Error, Throw, Trap}
        \/ /\ l.kind \in Integral /\ r.kind \in Integral /\ y # 0
           /\ Div(l, r) = Exact(l, common, Truncated(x, y))
    BY DEF Div, Arithmetic, Dividing, Untenable, common, x, y
  <2>2. QED
    BY <1>1, <1>2, <1>3, <2>1, TruncatedIsInt
<1>8. Answered(Mod(l, r))
  <2>1. \/ Mod(l, r) \in {Error, Throw, Trap}
        \/ /\ l.kind \in Integral /\ r.kind \in Integral /\ y # 0
           /\ Mod(l, r) = Exact(l, common, x - y * Truncated(x, y))
    BY DEF Mod, Arithmetic, Dividing, Untenable, common, x, y
  <2>2. \A t \in Int : x \in Int /\ y \in Int => x - y * t \in Int
    OBVIOUS
  <2>3. QED
    BY <1>1, <1>2, <1>3, <2>1, <2>2, TruncatedIsInt
<1>9. /\ Answered(And(l, r)) /\ Answered(Or(l, r)) /\ Answered(Xor(l, r))
      /\ Answered(Lsh(l, r)) /\ Answered(Rsh(l, r))
  BY <1>7 DEF And, Or, Xor, Lsh, Rsh
<1> DEFINE Truths == {Value("Bool", 0), Value("Bool", 1)}
<1>10. \A v \in Truths : Answered(v)
  BY TruthIsValue DEF Answered
<1>11. /\ Lt(l, r) \in Truths \cup {Error, Throw} /\ Gt(l, r) \in Truths \cup {Error, Throw}
       /\ Lte(l, r) \in Truths \cup {Error, Throw} /\ Gte(l, r) \in Truths \cup {Error, Throw}
       /\ Eq(l, r) \in Truths \cup {Error, Throw}
  BY DEF Lt, Gt, Lte, Gte, Eq, Comparison
<1>12. Neq(l, r) \in Truths \cup {Throw}
  <2>1. Error.kind # "Bool" /\ Throw.kind # "Bool" /\ Value("Bool", 0).data = 0 /\ Value("Bool", 1).data = 1
    BY DEF Error, Throw, Value
  <2>2. Eq(l, r).kind = "Bool" => Eq(l, r) \in Truths
    BY <1>11, <2>1
  <2>3. QED
    BY <2>1, <2>2 DEF Neq
<1>13. QED
  BY <1>1, <1>4, <1>5, <1>6, <1>7, <1>8, <1>9, <1>10, <1>11, <1>12
-----------------------------------------------------------------------------
(* Functions that are defined from the index 0 on.                         *)

\* Induction over the numbers up to n.
LEMMA UpTo ==
  ASSUME NEW n \in Nat, NEW S, 0 \in S, \A i \in 0 .. n - 1 : i \in S => i + 1 \in S
  PROVE  0 .. n \subseteq S
<1> DEFINE T == (0 .. n) \ S
<1> SUFFICES ASSUME T # {} PROVE FALSE
  OBVIOUS
<1>1. PICK x \in T : \A y \in T : x <= y
  <2>1. T \in SUBSET Nat
    OBVIOUS
  <2> HIDE DEF T
  <2>2. QED
    BY <2>1, LeastNumber
<1>2. x - 1 \in 0 .. n - 1 /\ x - 1 \in S
  BY <1>1
<1>3. QED
  BY <1>1, <1>2

\* f starts at a, and each of its values is made of the one before it.
Iteration(f, n, a, step) ==
  f = [i \in 0 .. n |-> IF i = 0 THEN a ELSE step[<<i, f[i - 1]>>]]

LEMMA IterationExists ==
  ASSUME NEW n \in Nat, NEW S, NEW a \in S, NEW step \in [(1 .. n) \X S -> S]
  PROVE  \E f \in [0 .. n -> S] : Iteration(f, n, a, step)
<1> DEFINE K == {k \in 0 .. n : \E f \in [0 .. k -> S] : Iteration(f, k, a, step)}
<1>1. 0 \in K
  <2> DEFINE f == [i \in 0 .. 0 |-> a]
  <2>1. f = [i \in 0 .. 0 |-> IF i = 0 THEN a ELSE step[<<i, f[i - 1]>>]]
    OBVIOUS
  <2>2. Iteration(f, 0, a, step) /\ f \in [0 .. 0 -> S]
    BY <2>1 DEF Iteration
  <2> HIDE DEF f
  <2>3. QED
    BY <2>2
<1>2. ASSUME NEW k \in 0 .. n - 1, k \in K PROVE k + 1 \in K
  <2>1. PICK f \in [0 .. k -> S] : Iteration(f, k, a, step)
    BY <1>2
  <2> DEFINE h == [i \in 0 .. k + 1 |-> IF i = k + 1 THEN step[<<k + 1, f[k]>>] ELSE f[i]]
  <2>2. h \in [0 .. k + 1 -> S]
    <3>1. f[k] \in S /\ k + 1 \in 1 .. n
      BY <1>2
    <3>2. step[<<k + 1, f[k]>>] \in S
      BY <3>1
    <3>3. QED
      BY <3>2
  <2>3. \A i \in 0 .. k : f[i] = IF i = 0 THEN a ELSE step[<<i, f[i - 1]>>]
    BY <2>1 DEF Iteration
  <2>4. \A i \in 0 .. k + 1 : h[i] = IF i = 0 THEN a ELSE step[<<i, h[i - 1]>>]
    <3>1. h[k + 1] = step[<<k + 1, f[k]>>] /\ \A i \in 0 .. k : h[i] = f[i]
      BY <1>2
    <3> HIDE DEF h
    <3>2. \A i \in 0 .. k : i # 0 => i - 1 \in 0 .. k
      BY <1>2
    <3>3. k + 1 # 0 /\ (k + 1) - 1 = k /\ k \in 0 .. k
      BY <1>2
    <3>4. \A i \in 0 .. k + 1 : i \in 0 .. k \/ i = k + 1
      BY <1>2
    <3>5. QED
      BY <2>3, <3>1, <3>2, <3>3, <3>4
  <2>5. Iteration(h, k + 1, a, step)
    BY <2>4 DEF Iteration
  <2>6. k + 1 \in 0 .. n
    BY <1>2
  <2> HIDE DEF h
  <2>7. QED
    BY <2>2, <2>5, <2>6
<1>3. 0 .. n \subseteq K
  <2> HIDE DEF K
  <2>1. QED
    BY <1>1, <1>2, UpTo
<1>4. n \in K
  <2> HIDE DEF K
  <2>1. QED
    BY <1>3
<1>5. QED
  BY <1>4

-----------------------------------------------------------------------------
(* The tokens the parser is given.                                         *)

Kept(f, tks) ==
  f = [i \in 0 .. Len(tks) |->
         IF i = 0 THEN <<>>
         ELSE IF tks[i].type \in Redundant THEN f[i - 1]
         ELSE Append(f[i - 1], tks[i])]

LEMMA KeptExists ==
  ASSUME NEW S, NEW tks \in Seq(S)
  PROVE  \E f : Kept(f, tks)
<1> DEFINE n == Len(tks)
           step == [p \in (1 .. n) \X Seq(S) |->
                      IF tks[p[1]].type \in Redundant THEN p[2] ELSE Append(p[2], tks[p[1]])]
<1>1. n \in Nat /\ \A i \in 1 .. n : tks[i] \in S
  OBVIOUS
<1>2. step \in [(1 .. n) \X Seq(S) -> Seq(S)]
  <2> SUFFICES ASSUME NEW p \in (1 .. n) \X Seq(S)
               PROVE  (IF tks[p[1]].type \in Redundant THEN p[2] ELSE Append(p[2], tks[p[1]])) \in Seq(S)
    OBVIOUS
  <2>1. p[2] \in Seq(S) /\ tks[p[1]] \in S
    BY <1>1
  <2>2. QED
    BY <2>1
<1>3. <<>> \in Seq(S)
  OBVIOUS
<1> HIDE DEF n
<1>4. PICK f \in [0 .. n -> Seq(S)] : Iteration(f, n, <<>>, step)
  <2> HIDE DEF step
  <2>1. QED
    BY <1>1, <1>2, <1>3, IterationExists
<1>5. \A i \in 1 .. n : f[i - 1] \in Seq(S) /\ <<i, f[i - 1]>> \in (1 .. n) \X Seq(S)
  BY <1>1
<1>6. \A p \in (1 .. n) \X Seq(S) :
        step[p] = IF tks[p[1]].type \in Redundant THEN p[2] ELSE Append(p[2], tks[p[1]])
  OBVIOUS
<1> HIDE DEF step
<1>7. f = [i \in 0 .. n |-> IF i = 0 THEN <<>> ELSE step[<<i, f[i - 1]>>]]
  BY <1>4 DEF Iteration
<1>8. \A i \in 1 .. n : step[<<i, f[i - 1]>>] = IF tks[i].type \in Redundant THEN f[i - 1]
                                               ELSE Append(f[i - 1], tks[i])
  BY <1>5, <1>6
<1>9. \A i \in 0 .. n : i = 0 \/ i \in 1 .. n
  BY <1>1
<1>10. f = [i \in 0 .. n |-> IF i = 0 THEN <<>>
                            ELSE IF tks[i].type \in Redundant THEN f[i - 1]
                            ELSE Append(f[i - 1], tks[i])]
  BY <1>7, <1>8, <1>9, Zenon
<1>11. Kept(f, tks)
  BY <1>10 DEF Kept, n
<1>12. QED
  BY <1>11

\* Sanitizing makes no tokens.
LEMMA SanitizedTokens ==
  ASSUME NEW S, NEW tks \in Seq(S)
  PROVE  Sanitize(tks) \in Seq(S)
<1> DEFINE f == CHOOSE g : Kept(g, tks)
           K == {i \in 0 .. Len(tks) : f[i] \in Seq(S)}
<1>1. Kept(f, tks)
  <2>1. \E g : Kept(g, tks)
    BY KeptExists
  <2>2. QED
    BY <2>1, Zenon
<1>2. Sanitize(tks) = f[Len(tks)]
  BY DEF Sanitize, Kept
<1> HIDE DEF f
<1>3. Len(tks) \in Nat /\ \A i \in 1 .. Len(tks) : tks[i] \in S
  OBVIOUS
<1>4. \A i \in 0 .. Len(tks) :
        f[i] = IF i = 0 THEN <<>> ELSE IF tks[i].type \in Redundant THEN f[i - 1]
               ELSE Append(f[i - 1], tks[i])
  BY <1>1 DEF Kept
<1>5. 0 \in K
  <2>1. 0 \in 0 .. Len(tks)
    BY <1>3
  <2>2. f[0] = <<>>
    BY <1>4, <2>1
  <2>3. <<>> \in Seq(S)
    OBVIOUS
  <2>4. f[0] \in Seq(S)
    BY <2>2, <2>3
  <2>5. QED
    BY <2>1, <2>4
<1>6. ASSUME NEW i \in 0 .. Len(tks) - 1, i \in K PROVE i + 1 \in K
  <2>1. i + 1 \in 0 .. Len(tks) /\ i + 1 \in 1 .. Len(tks) /\ (i + 1) - 1 = i /\ i + 1 # 0
    BY <1>3
  <2>2. f[i + 1] = IF tks[i + 1].type \in Redundant THEN f[i] ELSE Append(f[i], tks[i + 1])
    BY <1>4, <2>1
  <2>3. f[i] \in Seq(S) /\ tks[i + 1] \in S
    BY <1>3, <1>6, <2>1
  <2>4. f[i + 1] \in Seq(S)
    BY <2>2, <2>3
  <2>5. QED
    BY <2>1, <2>4
<1>7. 0 .. Len(tks) \subseteq K
  <2> HIDE DEF K
  <2>1. QED
    BY <1>3, <1>5, <1>6, UpTo
<1>8. QED
  BY <1>2, <1>3, <1>7

-----------------------------------------------------------------------------
(* The parser.                                                             *)

CONSTANT Parses(_, _)     \* what is parsed at a goal, given the tokens
Parse(goal) == Parses(toks, goal)
Grammar == INSTANCE ParserProofs

\* The program with the parser that its grammar describes.
ParsingSpec(Values) == ProgramSpec({Grammar!ParseSyntax}, Values)

\* No token has the type of a node.
LEMMA TokensAreLexed == toks \in Seq(Tokens) => Grammar!Lexed
<1> SUFFICES ASSUME toks \in Seq(Tokens) PROVE Grammar!Lexed
  OBVIOUS
<1>1. Len(toks) \in Nat /\ \A i \in 1 .. Len(toks) : toks[i].type \in TokenTypes
  <2>1. Len(toks) \in Nat /\ \A i \in 1 .. Len(toks) : toks[i] \in Tokens
    OBVIOUS
  <2>2. QED
    BY <2>1 DEF Tokens
<1>2. \A type \in TokenTypes : type \notin Grammar!NodeTypes
  <2>1. \A type \in Keywords \cup LongPunctuators : type \notin Grammar!NodeTypes
    BY DEF Keywords, LongPunctuators, Grammar!NodeTypes
  <2>2. \A type \in ShortPunctuators : type \notin Grammar!NodeTypes
    BY Zenon DEF ShortPunctuators, Grammar!NodeTypes
  <2>3. QED
    BY <2>1, <2>2 DEF TokenTypes, Grammar!NodeTypes
<1>3. QED
  BY <1>1, <1>2 DEF Grammar!Lexed

LEMMA ParsedIsRight ==
  ASSUME Grammar!Recursion, toks \in Seq(Tokens), Grammar!ParseSyntax.res = "ok"
  PROVE  Grammar!Tree(Grammar!ParseSyntax.ast)
BY TokensAreLexed, Grammar!ProgramsAreRight

\* What is right with the tokens at hand stays so while they stay.
LEMMA SameTiles ==
  ASSUME toks' = toks
  PROVE  \A n : Grammar!Tiles(n)' <=> Grammar!Tiles(n)
BY DEF Grammar!Tiles

LEMMA SameTree ==
  ASSUME toks' = toks, tree' = tree, Grammar!Tree(tree)
  PROVE  Grammar!Tree(tree)'
<1>1. \A n : Grammar!Fits(n)' <=> Grammar!Fits(n)
  BY SameTiles DEF Grammar!Fits
<1>2. QED
  BY <1>1 DEF Grammar!Tree, Grammar!Forest

LEMMA SameNodes == \A n : (Tiles(n) <=> Grammar!Tiles(n)) /\ (Binds(n) <=> Grammar!Binds(n))
<1>1. AnOperand = Grammar!AnOperand /\ CppPriority = Grammar!CppPriority
  BY Zenon DEF AnOperand, Grammar!AnOperand, CppPriority, Grammar!CppPriority
<1>2. BinaryOps = Grammar!BinaryOps
  BY <1>1, Zenon DEF BinaryOps, Grammar!BinaryOps
<1>3. \A n : PriorityOf(n) = Grammar!PriorityOf(n)
  BY Zenon DEF PriorityOf, Grammar!PriorityOf, BinaryOps, Grammar!BinaryOps, CppPriority,
               Grammar!CppPriority
<1>4. \A n : Tiles(n) <=> Grammar!Tiles(n)
  BY <1>1, <1>2 DEF Tiles, Grammar!Tiles
<1>5. \A n : Binds(n) <=> Grammar!Binds(n)
  BY <1>2, <1>3 DEF Binds, Grammar!Binds
<1>6. QED
  BY <1>4, <1>5

\* The tokens are tokens, and what is evaluated is a right tree of them.
ParsedInv == toks \in Seq(Tokens) /\ (stage = "eval" => Grammar!Tree(tree))

LEMMA ParserAnswers ==
  ASSUME Grammar!Recursion, toks \in Seq(Tokens)
  PROVE  Answering({Grammar!ParseSyntax})
<1> SUFFICES ASSUME Grammar!ParseSyntax.res = "ok" PROVE Len(Grammar!ParseSyntax.ast.kids) \in Nat
  BY DEF Answering
<1>1. PICK T : Grammar!ParseSyntax.ast \in T /\ Grammar!Forest(T)
  BY ParsedIsRight DEF Grammar!Tree
<1>2. Grammar!ParseSyntax.ast.kids \in Seq(T)
  BY <1>1 DEF Grammar!Forest
<1>3. QED
  BY <1>2

LEMMA TreeIsTaken ==
  ASSUME toks' = toks, NEW n, tree' = n, Grammar!Tree(n)
  PROVE  Grammar!Tree(tree)'
<1>1. \A m : Grammar!Fits(m)' <=> Grammar!Fits(m)
  BY SameTiles DEF Grammar!Fits
<1>2. QED
  BY <1>1 DEF Grammar!Tree, Grammar!Forest

\* Where neither the tokens nor the tree change, or nothing is evaluated.
LEMMA TreeStays ==
  ASSUME ParsedInv, toks' = toks, stage' # "eval" \/ (tree' = tree /\ stage' = stage)
  PROVE  ParsedInv'
BY SameTree DEF ParsedInv

LEMMA ParsedKeeps ==
  ASSUME Grammar!Recursion, ProgramInv, ParsedInv, NEW v, Compile(Grammar!ParseSyntax, v)
  PROVE  ParsedInv'
<1> DEFINE p == Grammar!ParseSyntax
<1>0. tokens \in Seq(Tokens) /\ toks \in Seq(Tokens)
  BY DEF ProgramInv, LexInv, ParsedInv
<1>1. \A how : Finish(how) => tree' = tree /\ stage' = stage
  BY DEF Finish
<1>2. CASE ReadSourceFile
  BY <1>1, <1>2, TreeStays DEF ReadSourceFile
<1>3. CASE LexStep
  BY <1>3, TreeStays DEF LexStep, unitVars
<1>4. CASE SanitizeTokens
  <2>1. CASE toks' = toks
    BY <1>1, <1>4, <2>1, TreeStays DEF SanitizeTokens
  <2>2. CASE toks' = Sanitize(tokens) /\ stage' = "parse"
    BY <1>0, <2>2, SanitizedTokens DEF ParsedInv
  <2>3. QED
    BY <1>4, <2>1, <2>2 DEF SanitizeTokens
<1>5. CASE ParseTokens(p)
  <2>1. toks' = toks
    BY <1>5 DEF ParseTokens
  <2>2. CASE p.res = "ok"
    <3>1. Grammar!Tree(p.ast) /\ tree' = p.ast /\ stage' = "eval"
      BY <1>0, <1>5, <2>2, ParsedIsRight DEF ParseTokens
    <3> HIDE DEF p
    <3>2. Grammar!Tree(tree)'
      BY <2>1, <3>1, TreeIsTaken
    <3>3. QED
      BY <1>0, <2>1, <3>2 DEF ParsedInv
  <2>3. CASE p.res # "ok"
    <3>1. tree' = tree /\ stage' = stage
      BY <1>1, <1>5, <2>3 DEF ParseTokens
    <3>2. QED
      BY <2>1, <3>1, TreeStays
  <2>4. QED
    BY <2>2, <2>3
<1>6. CASE EvalPragmaticVariableDefinition(v)
  <2>1. toks' = toks
    BY <1>6 DEF EvalPragmaticVariableDefinition, EvaluatesTo, Evaluating
  <2>2. Proceed => tree' = tree /\ stage' = stage
    BY DEF Proceed
  <2>3. QED
    BY <1>1, <1>6, <2>1, <2>2, TreeStays DEF EvalPragmaticVariableDefinition
<1>7. CASE EvalPragmaticReturnStmt(v)
  <2>1. toks' = toks
    BY <1>7 DEF EvalPragmaticReturnStmt, EvaluatesTo, Evaluating
  <2>2. NextFile => stage' # "eval"
    BY DEF NextFile
  <2>3. QED
    BY <1>1, <1>7, <2>1, <2>2, TreeStays DEF EvalPragmaticReturnStmt
<1>8. CASE SkipStatement
  BY <1>8, TreeStays DEF SkipStatement, Evaluating, Proceed
<1>9. CASE EndOfFile
  BY <1>1, <1>9, TreeStays DEF EndOfFile, Evaluating
<1>10. QED
  BY <1>2, <1>3, <1>4, <1>5, <1>6, <1>7, <1>8, <1>9 DEF Compile, Running

LEMMA ParsingKeeps ==
  ASSUME NEW Values, Evaluated(Values), Strings, Grammar!Recursion, ProgramInv, ParsedInv,
         [ProgramNext({Grammar!ParseSyntax}, Values)]_programVars
  PROVE  ProgramInv' /\ ParsedInv'
<1>1. toks \in Seq(Tokens)
  BY DEF ParsedInv
<1>2. Answering({Grammar!ParseSyntax})
  BY <1>1, ParserAnswers
<1>3. CASE Main
  <2>1. ProgramInv'
    BY <1>3, MainKeeps
  <2>2. ParsedInv'
    BY <1>3, TreeStays DEF Main, compilerVars
  <2>3. QED
    BY <2>1, <2>2
<1>4. ASSUME NEW v \in Values, Compile(Grammar!ParseSyntax, v)
      PROVE  ProgramInv' /\ ParsedInv'
  <2>1. ParsedInv'
    BY <1>4, ParsedKeeps
  <2>2. ProgramInv'
    <3> DEFINE p == Grammar!ParseSyntax
    <3>1. p \in {p} /\ Answering({p}) /\ Compile(p, v)
      BY <1>2, <1>4
    <3> HIDE DEF p
    <3>2. QED
      BY <1>4, <3>1, CompileKeeps
  <2>3. QED
    BY <2>1, <2>2
<1>5. CASE UNCHANGED programVars
  <2>1. ProgramInv'
    BY <1>5, ProgramKeeps, <1>2
  <2>2. ParsedInv'
    BY <1>5, TreeStays DEF programVars, compilerVars
  <2>3. QED
    BY <2>1, <2>2
<1>6. QED
  BY <1>3, <1>4, <1>5 DEF ProgramNext, Ended

THEOREM ParsingInvariant ==
  ASSUME NEW Values, Evaluated(Values), Strings
  PROVE  ParsingSpec(Values) /\ []Grammar!Recursion => [](ProgramInv /\ ParsedInv)
<1>1. ProgramInit => ProgramInv /\ ParsedInv
  <2> SUFFICES ASSUME ProgramInit PROVE ProgramInv /\ ParsedInv
    OBVIOUS
  <2>1. toks = <<>> /\ stage = "read"
    BY DEF ProgramInit, Fresh
  <2>2. QED
    BY <2>1, ProgramInitHolds DEF ParsedInv
<1>2. /\ Grammar!Recursion /\ ProgramInv /\ ParsedInv
      /\ [ProgramNext({Grammar!ParseSyntax}, Values)]_programVars
      => ProgramInv' /\ ParsedInv'
  BY ParsingKeeps
<1>3. QED
  BY <1>1, <1>2, PTL DEF ParsingSpec, ProgramSpec

Generations(f, n, root) == f = [d \in 0 .. n |-> IF d = 0 THEN {root} ELSE Children(f[d - 1])]

LEMMA GenerationsExist ==
  ASSUME NEW n \in Nat, NEW root, NEW T, root \in T, Grammar!Forest(T)
  PROVE  \E f : Generations(f, n, root)
<1> DEFINE step == [p \in (1 .. n) \X SUBSET T |-> Children(p[2])]
<1>1. \A ns \in SUBSET T : Children(ns) \in SUBSET T
  BY DEF Grammar!Forest, Children
<1>2. step \in [(1 .. n) \X SUBSET T -> SUBSET T]
  BY <1>1
<1>3. {root} \in SUBSET T
  OBVIOUS
<1>4. \A p \in (1 .. n) \X SUBSET T : step[p] = Children(p[2])
  OBVIOUS
<1> HIDE DEF step
<1>5. PICK f \in [0 .. n -> SUBSET T] : Iteration(f, n, {root}, step)
  BY <1>2, <1>3, IterationExists
<1>6. f = [d \in 0 .. n |-> IF d = 0 THEN {root} ELSE step[<<d, f[d - 1]>>]]
  BY <1>5 DEF Iteration
<1>7. \A d \in 1 .. n : step[<<d, f[d - 1]>>] = Children(f[d - 1])
  <2> SUFFICES ASSUME NEW d \in 1 .. n PROVE step[<<d, f[d - 1]>>] = Children(f[d - 1])
    OBVIOUS
  <2>1. f[d - 1] \in SUBSET T
    BY <1>5
  <2>2. QED
    BY <1>4, <2>1
<1>8. \A d \in 0 .. n : d = 0 \/ d \in 1 .. n
  OBVIOUS
<1>9. f = [d \in 0 .. n |-> IF d = 0 THEN {root} ELSE Children(f[d - 1])]
  BY <1>6, <1>7, <1>8, Zenon
<1>10. QED
  BY <1>9 DEF Generations

\* The nodes at hand belong to a forest of right nodes.
LEMMA NodesAreRight ==
  ASSUME ParsedInv
  PROVE  \A n \in Nodes : Tiles(n) /\ Binds(n)
<1> SUFFICES ASSUME stage = "eval" PROVE \A n \in Nodes : Tiles(n) /\ Binds(n)
  BY DEF Nodes
<1>1. PICK T : tree \in T /\ Grammar!Forest(T)
  BY DEF ParsedInv, Grammar!Tree
<1> DEFINE last == Len(toks) + 1
           f == CHOOSE g : Generations(g, last, tree)
           S == {d \in 0 .. last : f[d] \subseteq T}
<1>2. last \in Nat
  BY DEF ParsedInv
<1>3. Nodes = UNION {f[d] : d \in DOMAIN f}
  BY DEF Nodes, Generations
<1> HIDE DEF last
<1>4. Generations(f, last, tree)
  <2>1. \E g : Generations(g, last, tree)
    BY <1>1, <1>2, GenerationsExist
  <2>2. QED
    BY <2>1, Zenon
<1> HIDE DEF f
<1>5. DOMAIN f = 0 .. last /\ \A d \in 0 .. last : f[d] = IF d = 0 THEN {tree} ELSE Children(f[d - 1])
  BY <1>4 DEF Generations
<1>6. 0 \in S
  BY <1>1, <1>2, <1>5
<1>7. ASSUME NEW d \in 0 .. last - 1, d \in S PROVE d + 1 \in S
  <2>1. d + 1 \in 0 .. last /\ d + 1 # 0 /\ (d + 1) - 1 = d
    BY <1>2
  <2>2. f[d + 1] = Children(f[d]) /\ f[d] \subseteq T
    BY <1>5, <1>7, <2>1
  <2>3. Children(f[d]) \subseteq T
    BY <1>1, <2>2 DEF Grammar!Forest, Children
  <2>4. QED
    BY <2>1, <2>2, <2>3
<1>8. 0 .. last \subseteq S
  <2> HIDE DEF S
  <2>1. QED
    BY <1>2, <1>6, <1>7, UpTo
<1>9. Nodes \subseteq T
  BY <1>3, <1>5, <1>8
<1>10. \A n \in T : Grammar!Tiles(n) /\ Grammar!Binds(n)
  BY <1>1 DEF Grammar!Forest, Grammar!Fits
<1>11. QED
  BY <1>9, <1>10, SameNodes

\* Whatever files are translated, folding chains of operators neither drops a token
\* nor takes one twice: every operator node covers its operands and its own token
\* (parser.hpp), whatever expressions evaluate to.
THEOREM ExpressionsAreTiled ==
  ASSUME NEW Values, Evaluated(Values), Strings
  PROVE  ParsingSpec(Values) /\ []Grammar!Recursion => []ExpressionsTile
<1>1. ParsedInv => ExpressionsTile
  BY NodesAreRight DEF ExpressionsTile
<1>2. QED
  BY <1>1, ParsingInvariant, PTL

\* No tree of a file that is accepted groups its operators other than C++ does
\* (parser.hpp), whatever expressions evaluate to.
THEOREM OperatorsAreBound ==
  ASSUME NEW Values, Evaluated(Values), Strings
  PROVE  ParsingSpec(Values) /\ []Grammar!Recursion => []OperatorsBind
<1>1. ParsedInv => OperatorsBind
  BY NodesAreRight DEF OperatorsBind
<1>2. QED
  BY <1>1, ParsingInvariant, PTL

-----------------------------------------------------------------------------
(* The literals.                                                           *)

\* A token lies in the text, and a number is made of digits.
Readable(tk) ==
  /\ tk \in Tokens /\ tk.lo \in 1 .. Len(text) /\ tk.hi \in (tk.lo + 1) .. (Len(text) + 1)
  /\ tk.type = "LitInt" => \A k \in tk.lo .. (tk.hi - 1) : Char(k) \in IsSrcCharNumeric
TokensReadable == \A i \in DOMAIN tokens : Readable(tokens[i])

LEMMA SameReadable ==
  ASSUME text' = text
  PROVE  \A tk : Readable(tk)' <=> Readable(tk)
BY DEF Readable, Char

LEMMA DigitsRun ==
  ASSUME HeadFits
  PROVE  \A k \in head .. (RunEnd(head, IsSrcCharNumeric) - 1) : Char(k) \in IsSrcCharNumeric
<1>1. head \in 1 .. ViewEnd
  BY Views DEF HeadFits
<1> DEFINE P == IsSrcCharNumeric
<1> HIDE DEF P
<1>2. \A k \in head .. (RunEnd(head, P) - 1) : Char(k) \in P
  BY <1>1, FirstStop DEF RunEnd
<1>3. QED
  BY <1>2 DEF P

\* A step of the lexer stops, or pushes a token of which only digits make a LitInt.
LEMMA WhatIsPushed ==
  ASSUME HeadFits, Process
  PROVE  \/ tokens' = tokens /\ text' = text
         \/ \E type, end :
              /\ Push(Tk(type, end))
              /\ type = "LitInt" => end = RunEnd(head, IsSrcCharNumeric)
<1> DEFINE Pushed == \E type, end : /\ Push(Tk(type, end))
                                    /\ type = "LitInt" => end = RunEnd(head, IsSrcCharNumeric)
<1>1. \A type, end : Push(Tk(type, end)) /\ type # "LitInt" => Pushed
  OBVIOUS
<1>2. CASE \E how : Stop(how)
  BY <1>2 DEF Stop
<1>3. CASE Newline \/ Whitespace \/ LineComment \/ BlockComment \/ EscapedCharSequence
  <2> DEFINE plain == {"Newline", "Whitespace", "LineComment", "BlockComment", "LitCstr"}
  <2>1. (\E how : Stop(how)) \/ \E type \in plain : \E end : Push(Tk(type, end))
    BY <1>3 DEF Newline, Whitespace, LineComment, BlockComment, EscapedCharSequence,
                LexBlockComment, LexEscapedCharSequence
  <2>2. \A type \in plain : type # "LitInt"
    OBVIOUS
  <2> HIDE DEF plain, Pushed
  <2>3. Pushed \/ \E how : Stop(how)
    BY <1>1, <2>1, <2>2
  <2>4. QED
    BY <1>2, <2>3 DEF Pushed
<1>4. CASE Identifier
  <2>1. \E type \in Keywords \cup {"Ident"} : \E end : Push(Tk(type, end))
    BY <1>4, Zenon DEF Identifier, LexIdentifier
  <2>2. \A type \in Keywords \cup {"Ident"} : type # "LitInt"
    BY DEF Keywords
  <2>3. Pushed
    <3> HIDE DEF Pushed
    <3>1. QED
      BY <1>1, <2>1, <2>2
  <2>4. QED
    BY <2>3
<1>5. CASE Number
  <2>1. \/ \E type \in {"LitBool", "LitUint", "LitByte", "LitReal"} : \E end : Push(Tk(type, end))
        \/ Push(Tk("LitInt", RunEnd(head, IsSrcCharNumeric)))
    BY <1>5 DEF Number, LexNumber
  <2>2. \A type \in {"LitBool", "LitUint", "LitByte", "LitReal"} : type # "LitInt"
    OBVIOUS
  <2>3. Pushed
    BY <1>1, <2>1, <2>2
  <2>4. QED
    BY <2>3
<1>6. CASE Punctuator
  <2> DEFINE types == {"<<="} \cup LongPunctuators \cup ShortPunctuators
  <2>1. \A type \in types : type # "LitInt"
    BY Zenon DEF LongPunctuators, ShortPunctuators
  <2>2. (\E how : Stop(how)) \/ \E type \in types : \E end : Push(Tk(type, end))
    <3>1. (\E how : Stop(how)) \/ (Char(head) \in ShortPunctuators /\ Push(LexPunctuator))
      BY <1>6 DEF Punctuator
    <3>2. Char(head) \in ShortPunctuators => \E type \in types : \E end : LexPunctuator = Tk(type, end)
      <4>1. \/ LexPunctuator = Tk("<<=", head + 3)
            \/ \E type \in LongPunctuators : LexPunctuator = Tk(type, head + 2)
            \/ LexPunctuator = Tk(Char(head), head + 1)
        BY DEF LexPunctuator
      <4>2. QED
        BY <4>1
    <3>3. QED
      BY <3>1, <3>2
  <2> HIDE DEF types, Pushed
  <2>3. Pushed \/ \E how : Stop(how)
    BY <1>1, <2>1, <2>2
  <2>4. QED
    BY <1>2, <2>3 DEF Pushed
<1>7. CASE Unknown
  BY <1>2, <1>7 DEF Unknown
<1>8. QED
  BY <1>3, <1>4, <1>5, <1>6, <1>7 DEF Process

LEMMA ProcessReads ==
  ASSUME LexInv, TokensReadable, Process
  PROVE  TokensReadable'
<1>1. HeadFits /\ LexInv' /\ LexAdvances
  BY ProcessKeeps DEF LexInv
<1>2. text' = text /\ \A tk : Readable(tk)' <=> Readable(tk)
  BY <1>1, SameReadable DEF LexAdvances
<1>3. CASE tokens' = tokens
  BY <1>2, <1>3 DEF TokensReadable
<1>4. ASSUME NEW type, NEW end, Push(Tk(type, end)), type = "LitInt" => end = RunEnd(head, IsSrcCharNumeric)
      PROVE  TokensReadable'
  <2> DEFINE tk == Tk(type, end)
  <2>1. tk.type = type /\ tk.lo = head /\ tk.hi = end
    BY DEF Tk
  <2> HIDE DEF tk
  <2>2. tokens' = Append(tokens, tk) /\ head' = end /\ tokens \in Seq(Tokens) /\ tokens' \in Seq(Tokens)
    BY <1>1, <1>4, <2>1 DEF Push, LexInv, tk
  <2>3. /\ DOMAIN tokens' = 1 .. (Len(tokens) + 1) /\ tokens'[Len(tokens) + 1] = tk
        /\ \A i \in 1 .. Len(tokens) : tokens'[i] = tokens[i]
    BY <2>2
  <2>4. tk \in Tokens /\ tk.lo < tk.hi
    <3>1. Len(tokens) + 1 \in DOMAIN tokens'
      BY <2>2, <2>3
    <3>2. tokens'[Len(tokens) + 1] \in Tokens
      BY <2>2, <3>1
    <3>3. tokens'[Len(tokens) + 1].lo < tokens'[Len(tokens) + 1].hi
      BY <1>1, <3>1 DEF LexInv, LexTiles
    <3>4. QED
      BY <2>3, <3>2, <3>3
  <2>5. tk.lo \in 1 .. Len(text) /\ tk.hi \in (tk.lo + 1) .. (Len(text) + 1)
    <3>1. Len(text) \in Nat /\ head \in 1 .. (Len(text) + 1) /\ end \in 1 .. (Len(text) + 1)
      BY <1>1, <1>2, <2>2 DEF LexInv, HeadFits
    <3>2. head < end
      BY <2>1, <2>4
    <3>3. QED
      BY <2>1, <3>1, <3>2
  <2>6. type = "LitInt" => \A k \in head .. (end - 1) : Char(k) \in IsSrcCharNumeric
    BY <1>1, <1>4, DigitsRun
  <2>7. Readable(tk)
    BY <2>1, <2>4, <2>5, <2>6 DEF Readable
  <2>8. \A i \in DOMAIN tokens' : Readable(tokens'[i])
    <3>1. DOMAIN tokens = 1 .. Len(tokens) /\ Len(tokens) \in Nat
      BY <2>2
    <3>2. QED
      BY <2>3, <2>7, <3>1 DEF TokensReadable
  <2>9. QED
    BY <1>2, <2>8 DEF TokensReadable
<1>5. QED
  BY <1>1, <1>3, <1>4, WhatIsPushed

Read(f, digits) ==
  f = [i \in 0 .. Len(digits) |->
         IF i = 0 THEN 0 ELSE 10 * f[i - 1] + DigitValue[SubSeq(digits, i, i)]]

LEMMA DigitsAreNumbers == \A d \in IsSrcCharNumeric : DigitValue[d] \in Nat
BY DEF IsSrcCharNumeric, DigitValue

\* What digits are read as is a number.
LEMMA DecimalIsNumber ==
  ASSUME NEW digits, Len(digits) \in Nat,
         \A i \in 1 .. Len(digits) : SubSeq(digits, i, i) \in IsSrcCharNumeric
  PROVE  Decimal(digits) \in Nat
<1> DEFINE n == Len(digits)
           step == [p \in (1 .. n) \X Nat |-> 10 * p[2] + DigitValue[SubSeq(digits, p[1], p[1])]]
           f == CHOOSE g : Read(g, digits)
           K == {i \in 0 .. n : f[i] \in Nat}
<1>1. \A i \in 1 .. n : DigitValue[SubSeq(digits, i, i)] \in Nat
  BY DigitsAreNumbers
<1>2. \E g : Read(g, digits)
  <2>1. step \in [(1 .. n) \X Nat -> Nat]
    <3> SUFFICES ASSUME NEW p \in (1 .. n) \X Nat
                 PROVE  10 * p[2] + DigitValue[SubSeq(digits, p[1], p[1])] \in Nat
      OBVIOUS
    <3>1. p[2] \in Nat /\ DigitValue[SubSeq(digits, p[1], p[1])] \in Nat
      BY <1>1
    <3>2. QED
      BY <3>1
  <2>2. \A p \in (1 .. n) \X Nat : step[p] = 10 * p[2] + DigitValue[SubSeq(digits, p[1], p[1])]
    OBVIOUS
  <2>3. n \in Nat /\ 0 \in Nat
    OBVIOUS
  <2> HIDE DEF step, n
  <2>4. PICK g \in [0 .. n -> Nat] : Iteration(g, n, 0, step)
    BY <2>1, <2>3, IterationExists
  <2>5. \A i \in 1 .. n : <<i, g[i - 1]>> \in (1 .. n) \X Nat
    BY <2>3
  <2>6. \A i \in 1 .. n : step[<<i, g[i - 1]>>] = 10 * g[i - 1] + DigitValue[SubSeq(digits, i, i)]
    BY <2>2, <2>5
  <2>7. g = [i \in 0 .. n |-> IF i = 0 THEN 0 ELSE step[<<i, g[i - 1]>>]]
    BY <2>4 DEF Iteration
  <2>8. \A i \in 0 .. n : i = 0 \/ i \in 1 .. n
    BY <2>3
  <2>9. g = [i \in 0 .. n |-> IF i = 0 THEN 0 ELSE 10 * g[i - 1] + DigitValue[SubSeq(digits, i, i)]]
    BY <2>6, <2>7, <2>8, Zenon
  <2>10. Read(g, digits)
    BY <2>9 DEF Read, n
  <2>11. QED
    BY <2>10
<1>3. Decimal(digits) = f[n]
  BY DEF Decimal, Read
<1>4. Read(f, digits)
  BY <1>2, Zenon
<1> HIDE DEF f
<1>5. \A i \in 0 .. n : f[i] = IF i = 0 THEN 0 ELSE 10 * f[i - 1] + DigitValue[SubSeq(digits, i, i)]
  BY <1>4 DEF Read
<1>6. 0 \in K
  BY <1>5
<1>7. ASSUME NEW i \in 0 .. n - 1, i \in K PROVE i + 1 \in K
  <2>1. i + 1 \in 0 .. n /\ i + 1 \in 1 .. n /\ i + 1 # 0 /\ (i + 1) - 1 = i
    OBVIOUS
  <2>2. f[i + 1] = 10 * f[i] + DigitValue[SubSeq(digits, i + 1, i + 1)]
    BY <1>5, <2>1
  <2>3. f[i] \in Nat /\ DigitValue[SubSeq(digits, i + 1, i + 1)] \in Nat
    BY <1>1, <1>7, <2>1
  <2>4. f[i + 1] \in Nat
    BY <2>2, <2>3
  <2>5. QED
    BY <2>1, <2>4
<1>8. 0 .. n \subseteq K
  <2>1. n \in Nat
    OBVIOUS
  <2> HIDE DEF K, n
  <2>2. QED
    BY <1>6, <1>7, <2>1, UpTo
<1>9. QED
  BY <1>3, <1>8

LEMMA LiteralDigits ==
  ASSUME Strings, text \in STRING, NEW tk, Readable(tk), tk.type = "LitInt"
  PROVE  Decimal(SubSeq(text, tk.lo, tk.hi - 1)) \in Nat
<1> DEFINE lit == SubSeq(text, tk.lo, tk.hi - 1)
           lo == tk.lo
           hi == tk.hi
<1>1. PICK C : STRING \subseteq Seq(C)
  BY Zenon DEF Strings
<1>2. text \in Seq(C)
  BY <1>1
<1>3. /\ lo \in 1 .. Len(text) /\ hi \in (lo + 1) .. (Len(text) + 1)
      /\ \A k \in lo .. (hi - 1) : Char(k) \in IsSrcCharNumeric
  BY DEF Readable
<1>4. \A k \in lo .. (hi - 1) : SubSeq(text, k, k) \in IsSrcCharNumeric
  BY <1>2, <1>3 DEF Char
<1> HIDE DEF lo, hi
<1>5. lo \in Int /\ hi - 1 \in Int /\ \A i \in lo .. (hi - 1) : text[i] \in C
  BY <1>2, <1>3
<1>6. lit = SubSeq(text, lo, hi - 1)
  BY DEF lo, hi
<1> HIDE DEF lit
<1>7. Len(lit) = hi - lo
  <2>1. Len(SubSeq(text, lo, hi - 1)) = IF lo <= hi - 1 THEN (hi - 1) - lo + 1 ELSE 0
    BY <1>5, SubSeqProperties
  <2>2. QED
    BY <1>3, <1>6, <2>1
<1>8. ASSUME NEW i \in 1 .. Len(lit) PROVE SubSeq(lit, i, i) \in IsSrcCharNumeric
  <2>1. /\ lo \in 1 .. Len(text) /\ hi - 1 \in 1 .. Len(text) /\ i \in 1 .. (hi - 1) - lo + 1
        /\ lo + i - 1 \in lo .. (hi - 1)
    BY <1>2, <1>3, <1>7
  <2>2. SubSeq(SubSeq(text, lo, hi - 1), i, i) = SubSeq(text, lo + i - 1, lo + i - 1)
    BY <1>2, <2>1, SubSeqOfSubSeq
  <2>3. QED
    BY <1>4, <1>6, <2>1, <2>2
<1>9. Len(lit) \in Nat
  BY <1>3, <1>7
<1>10. QED
  BY <1>8, <1>9, DecimalIsNumber DEF lit

-----------------------------------------------------------------------------
(* The evaluator.                                                          *)

CONSTANT Evaluates(_, _, _, _)   \* what a node evaluates to, given text, tokens and variables
EvalPrimaryExpr(ast) == Evaluates(text, toks, vars, ast)

\* Evaluates answers what the body of EvalPrimaryExpr says.  It calls itself for
\* operands that cover fewer tokens, so that there is one answer to every expression.
Evaluation ==
  \A n : Grammar!Tree(n) /\ Grammar!Operand(n) =>
    EvalPrimaryExpr(n) = EvalPrimaryExprRule(n, EvalPrimaryExpr(n.kids[1]), EvalPrimaryExpr(n.kids[2]))

\* A value of a variable, or none.
Sound(v) == v.kind \in Fatal \cup {"Fail"} \/ IsValue(v)

LEMMA NoValueIsSound == \A x : Sound(Value("Fail", x))
BY DEF Sound, Value

LEMMA BinopIsSound ==
  ASSUME NEW l, NEW r, NEW v, Sound(l), Sound(r), IsValue(l) /\ IsValue(r) => Answered(v)
  PROVE  Sound(ComputeBinop(l, r, v))
<1>1. CASE l.kind \in Fatal \cup {"Fail"} \/ r.kind \in Fatal \cup {"Fail"}
  BY <1>1 DEF ComputeBinop, Sound
<1>2. CASE l.kind \notin Fatal \cup {"Fail"} /\ r.kind \notin Fatal \cup {"Fail"}
  <2>1. Answered(v)
    BY <1>2 DEF Sound
  <2>2. ComputeBinop(l, r, v) = IF v.kind = "Error" THEN Value("Fail", v.data) ELSE v
    BY <1>2 DEF ComputeBinop
  <2>3. v.kind # "Error" => Sound(v)
    BY <2>1 DEF Answered, Sound, Fatal
  <2>4. QED
    BY <2>2, <2>3, NoValueIsSound
<1>3. QED
  BY <1>1, <1>2

LEMMA LiteralsAreSound ==
  ASSUME PowersOfTwo, NEW lit
  PROVE  /\ Sound(BoolFromLiteral(lit)) /\ Sound(CStrFromLiteral(lit))
         /\ Decimal(lit) \in Nat => Sound(I32FromLiteral(lit))
<1>1. Sound(BoolFromLiteral(lit))
  BY TruthIsValue, NoValueIsSound DEF BoolFromLiteral, Unreadable, Sound
<1>2. Sound(CStrFromLiteral(lit))
  <2>1. "CStr" \notin Integral
    BY Kinds
  <2>2. QED
    BY <2>1 DEF CStrFromLiteral, Value, Sound, IsValue
<1>3. ASSUME Decimal(lit) \in Nat PROVE Sound(I32FromLiteral(lit))
  <2>1. "I32" \in Integral /\ Highest("I32") \in Int /\ Lowest("I32") \in Int /\ Lowest("I32") <= 0
    <3>1. "I32" \in Integral /\ Bits["I32"] - 1 \in Nat
      BY Kinds
    <3>2. 2 ^ Bits["I32"] \in Nat /\ 2 ^ (Bits["I32"] - 1) \in Nat
      BY <3>1, Kinds DEF PowersOfTwo
    <3>3. Lowest("I32") = -(2 ^ (Bits["I32"] - 1))
      BY DEF Lowest, Signed
    <3>4. QED
      BY <3>1, <3>2, <3>3 DEF Highest
  <2>2. CASE Decimal(lit) > Highest("I32")
    BY <2>2, NoValueIsSound DEF I32FromLiteral, Unreadable
  <2>3. CASE ~(Decimal(lit) > Highest("I32"))
    <3>1. Decimal(lit) \in Lowest("I32") .. Highest("I32")
      BY <1>3, <2>1, <2>3
    <3>2. I32FromLiteral(lit) = Value("I32", Decimal(lit))
      BY <2>3 DEF I32FromLiteral
    <3>3. QED
      BY <2>1, <3>1, <3>2 DEF Sound, IsValue, Value
  <2>4. QED
    BY <2>2, <2>3
<1>4. QED
  BY <1>1, <1>2, <1>3

\* The operators EvalPrimaryExpr carries out.
Computed ==
  {"+", "-", "*", "/", "%", "&&", "||", "^", "<<", ">>", "==", "!=", "<", ">", "<=", ">="}

LEMMA RuleIsSound ==
  ASSUME PowersOfTwo, ValuesFit, NEW n, NEW l, NEW r,
         n.type = "LitInt" => Decimal(Literal(n)) \in Nat,
         n.type \in Computed => Sound(l) /\ Sound(r),
         n.type = "Subexpression" => Sound(l)
  PROVE  Sound(EvalPrimaryExprRule(n, l, r))
<1> DEFINE v == EvalPrimaryExprRule(n, l, r)
<1>1. CASE n.type \in Computed
  <2>1. IsValue(l) /\ IsValue(r) =>
          /\ Answered(Add(l, r)) /\ Answered(Sub(l, r)) /\ Answered(Mul(l, r))
          /\ Answered(Div(l, r)) /\ Answered(Mod(l, r))
          /\ Answered(And(l, r)) /\ Answered(Or(l, r)) /\ Answered(Xor(l, r))
          /\ Answered(Lsh(l, r)) /\ Answered(Rsh(l, r))
          /\ Answered(Eq(l, r)) /\ Answered(Neq(l, r)) /\ Answered(Lt(l, r))
          /\ Answered(Gt(l, r)) /\ Answered(Lte(l, r)) /\ Answered(Gte(l, r))
    BY OperatorsStayInRange
  <2>2. \E x \in {Add(l, r), Sub(l, r), Mul(l, r), Div(l, r), Mod(l, r), And(l, r), Or(l, r),
                  Xor(l, r), Lsh(l, r), Rsh(l, r), Eq(l, r), Neq(l, r), Lt(l, r), Gt(l, r),
                  Lte(l, r), Gte(l, r)} : v = ComputeBinop(l, r, x)
    BY <1>1 DEF EvalPrimaryExprRule, Computed
  <2> HIDE DEF v
  <2>3. PICK x : v = ComputeBinop(l, r, x) /\ (IsValue(l) /\ IsValue(r) => Answered(x))
    BY <2>1, <2>2
  <2>4. Sound(l) /\ Sound(r)
    BY <1>1
  <2>5. Sound(v)
    BY <2>3, <2>4, BinopIsSound
  <2>6. QED
    BY <2>5 DEF v
<1>2. CASE n.type \notin Computed
  <2>1. \/ v = BoolFromLiteral(Literal(n)) \/ v = CStrFromLiteral(Literal(n))
        \/ n.type = "LitInt" /\ v = I32FromLiteral(Literal(n))
        \/ v = ResolveVariable(Literal(n))
        \/ n.type = "Subexpression" /\ v = l
        \/ v = Value("Fail", "expression")
    BY <1>2 DEF EvalPrimaryExprRule, Computed
  <2>2. Sound(ResolveVariable(Literal(n)))
    BY NoValueIsSound DEF ResolveVariable, Unresolved, ValuesFit, Sound
  <2> HIDE DEF v
  <2>3. Sound(v)
    BY <2>1, <2>2, LiteralsAreSound, NoValueIsSound
  <2>4. QED
    BY <2>3 DEF v
<1>3. QED
  BY <1>1, <1>2

\* A tree has trees below it, and the operands of an expression are narrower.
LEMMA Below ==
  ASSUME NEW n, Grammar!Tree(n)
  PROVE  /\ n.from \in Nat /\ n.to \in Nat
         /\ \A i \in 1 .. Len(n.kids) : Grammar!Tree(n.kids[i])
         /\ n.type = "LitInt" => n.from \in 1 .. Len(toks) /\ toks[n.from].type = "LitInt"
<1>1. PICK T : n \in T /\ Grammar!Forest(T)
  BY DEF Grammar!Tree
<1>2. Grammar!Fits(n) /\ n.kids \in Seq(T)
  BY <1>1 DEF Grammar!Forest
<1>3. \A i \in 1 .. Len(n.kids) : n.kids[i] \in T
  BY <1>2
<1>4. \A i \in 1 .. Len(n.kids) : Grammar!Tree(n.kids[i])
  BY <1>1, <1>3 DEF Grammar!Tree
<1>5. "LitInt" \in Grammar!AnOperand
  BY DEF Grammar!AnOperand
<1>6. QED
  BY <1>2, <1>4, <1>5 DEF Grammar!Fits

LEMMA Narrower ==
  ASSUME NEW n, Grammar!Tree(n), Grammar!Operand(n), NEW k,
         \/ n.type \in Computed /\ k \in {n.kids[1], n.kids[2]}
         \/ n.type = "Subexpression" /\ k = n.kids[1]
  PROVE  Grammar!Tree(k) /\ Grammar!Operand(k) /\ k.to - k.from < n.to - n.from
<1>1. PICK T : n \in T /\ Grammar!Forest(T)
  BY DEF Grammar!Tree
<1>2. Grammar!Fits(n) /\ n.kids \in Seq(T)
  BY <1>1 DEF Grammar!Forest
<1>3. \A type \in Computed : type \in Grammar!BinaryOps
  <2>1. \A type \in Computed : type \in BinaryOps
    <3>1. DOMAIN CppPriority = 1 .. 12
      BY DEF CppPriority
    <3>2. /\ CppPriority[3] = {"||"} /\ CppPriority[4] = {"&&"} /\ CppPriority[6] = {"^"}
          /\ CppPriority[8] = {"==", "!="} /\ CppPriority[9] = {"<", ">", "<=", ">="}
          /\ CppPriority[10] = {"<<", ">>"} /\ CppPriority[11] = {"+", "-"}
          /\ CppPriority[12] = {"*", "/", "%"}
      BY DEF CppPriority
    <3>3. \A i \in 1 .. 12 : CppPriority[i] \subseteq BinaryOps
      BY <3>1 DEF BinaryOps
    <3>4. /\ CppPriority[3] \subseteq BinaryOps /\ CppPriority[4] \subseteq BinaryOps
          /\ CppPriority[6] \subseteq BinaryOps /\ CppPriority[8] \subseteq BinaryOps
          /\ CppPriority[9] \subseteq BinaryOps /\ CppPriority[10] \subseteq BinaryOps
          /\ CppPriority[11] \subseteq BinaryOps /\ CppPriority[12] \subseteq BinaryOps
      BY <3>3
    <3>5. QED
      BY <3>2, <3>4 DEF Computed
  <2>2. BinaryOps = Grammar!BinaryOps
    BY Zenon DEF BinaryOps, Grammar!BinaryOps, CppPriority, Grammar!CppPriority
  <2>3. QED
    BY <2>1, <2>2
<1>4. n.kids # <<>>
  BY <1>3 DEF Grammar!Operand
<1>5. n.type \in Computed => Len(n.kids) = 2
  BY <1>2, <1>3, <1>4 DEF Grammar!Fits
<1>6. Len(n.kids) \in Nat \ {0}
  BY <1>2, <1>4
<1>7. \E i \in 1 .. Len(n.kids) : k = n.kids[i]
  BY <1>5, <1>6
<1>8. Grammar!Operand(k)
  BY <1>2, <1>3, <1>7 DEF Grammar!Fits
<1>9. Grammar!Tree(k) /\ k.from \in Nat /\ k.to \in Nat /\ n.from \in Nat /\ n.to \in Nat
  BY <1>7, Below
<1>10. k.to - k.from < n.to - n.from
  <2>1. Grammar!Tiles(n)
    BY <1>2 DEF Grammar!Fits
  <2>2. CASE n.type = "Subexpression" /\ k = n.kids[1]
    <3>1. k.from = n.from + 1 /\ k.to + 1 = n.to
      BY <1>4, <2>1, <2>2 DEF Grammar!Tiles
    <3>2. QED
      BY <1>9, <3>1
  <2>3. CASE n.type \in Computed /\ k \in {n.kids[1], n.kids[2]}
    <3> DEFINE l == n.kids[1]
               r == n.kids[2]
    <3>1. n.type \in Grammar!BinaryOps \cup {"ResolutionOp", "MemberAccess"}
      BY <1>3, <2>3
    <3>2. l.from = n.from /\ l.from < l.to /\ r.from = l.to + 1 /\ r.from < r.to /\ r.to = n.to
      BY <1>4, <2>1, <3>1 DEF Grammar!Tiles
    <3>3. l.from \in Nat /\ l.to \in Nat /\ r.from \in Nat /\ r.to \in Nat
      <4>1. 1 \in 1 .. Len(n.kids) /\ 2 \in 1 .. Len(n.kids)
        BY <1>5, <2>3
      <4>2. Grammar!Tree(l) /\ Grammar!Tree(r)
        BY <4>1, Below
      <4>3. QED
        BY <4>2, Below
    <3>4. k = l \/ k = r
      BY <2>3
    <3> HIDE DEF l, r
    <3>5. QED
      BY <3>2, <3>3, <3>4
  <2>4. QED
    BY <2>2, <2>3
<1>11. QED
  BY <1>8, <1>9, <1>10

\* Every expression evaluates to a value in its range, or to none.
LEMMA ExpressionsAreSound ==
  ASSUME PowersOfTwo, Strings, Evaluation, ValuesFit, text \in STRING,
         \A i \in DOMAIN toks : Readable(toks[i]), toks \in Seq(Tokens)
  PROVE  \A n : Grammar!Tree(n) /\ Grammar!Operand(n) => Sound(EvalPrimaryExpr(n))
<1> DEFINE Wrong(n) == Grammar!Tree(n) /\ Grammar!Operand(n) /\ ~Sound(EvalPrimaryExpr(n))
           W == {w \in Nat : \E n : Wrong(n) /\ n.to - n.from = w}
<1>1. \A n : Wrong(n) => n.to - n.from \in Nat
  BY Below DEF Grammar!Operand
<1> SUFFICES ASSUME W # {} PROVE FALSE
  BY <1>1
<1>2. PICK w \in W : \A x \in W : w <= x
  <2>1. W \in SUBSET Nat
    OBVIOUS
  <2> HIDE DEF W
  <2>2. QED
    BY <2>1, LeastNumber
<1>3. PICK n : Wrong(n) /\ n.to - n.from = w
  BY <1>2
<1>4. \A k : Wrong(k) => ~(k.to - k.from < n.to - n.from)
  <2> SUFFICES ASSUME NEW k, Wrong(k) PROVE ~(k.to - k.from < n.to - n.from)
    OBVIOUS
  <2>1. k.to - k.from \in W
    BY <1>1
  <2>2. w \in Nat /\ w <= k.to - k.from /\ k.to - k.from \in Nat
    BY <1>1, <1>2, <2>1
  <2> HIDE DEF Wrong, W
  <2>3. QED
    BY <1>3, <2>2
<1> HIDE DEF W
<1> DEFINE l == EvalPrimaryExpr(n.kids[1])
           r == EvalPrimaryExpr(n.kids[2])
<1>5. n.type = "LitInt" => Decimal(Literal(n)) \in Nat
  <2> SUFFICES ASSUME n.type = "LitInt" PROVE Decimal(Literal(n)) \in Nat
    OBVIOUS
  <2>1. n.from \in DOMAIN toks /\ toks[n.from].type = "LitInt"
    BY <1>3, Below
  <2>2. Readable(toks[n.from])
    BY <2>1
  <2>3. QED
    BY <2>1, <2>2, LiteralDigits DEF Literal
<1>6. n.type \in Computed => Sound(l) /\ Sound(r)
  BY <1>3, <1>4, Narrower
<1>7. n.type = "Subexpression" => Sound(l)
  BY <1>3, <1>4, Narrower
<1>8. EvalPrimaryExpr(n) = EvalPrimaryExprRule(n, l, r)
  BY <1>3 DEF Evaluation
<1> HIDE DEF l, r
<1>9. Sound(EvalPrimaryExprRule(n, l, r))
  BY <1>5, <1>6, <1>7, RuleIsSound
<1>10. QED
  BY <1>3, <1>8, <1>9

-----------------------------------------------------------------------------
(* The program with its parser and its evaluator.                          *)

\* What CompilerSpec of Compiler is, for any Parses and Evaluates that answer what
\* the bodies of their rules say.
CompilingSpec == ProgramSpec({Grammar!ParseSyntax}, {EvalPrimaryExpr(ThisExpression)})

\* The text is a string, and its tokens and those of the parser can be read in it.
ReadableInv ==
  /\ text \in STRING /\ TokensReadable
  /\ stage \in {"parse", "eval"} => \A i \in DOMAIN toks : Readable(toks[i])

LEMMA ReadableStays ==
  ASSUME ReadableInv, UNCHANGED lexVars, toks' = toks,
         stage' \in {"parse", "eval"} => stage \in {"parse", "eval"}
  PROVE  ReadableInv'
<1>1. text' = text /\ tokens' = tokens
  BY DEF lexVars
<1>2. \A tk : Readable(tk)' <=> Readable(tk)
  BY <1>1, SameReadable
<1>3. QED
  BY <1>1, <1>2 DEF ReadableInv, TokensReadable

LEMMA SanitizedIsReadable ==
  ASSUME LexInv, TokensReadable
  PROVE  \A i \in DOMAIN Sanitize(tokens) : Readable(Sanitize(tokens)[i])
<1> DEFINE S == {tk \in Tokens : Readable(tk)}
<1>1. tokens \in Seq(S)
  <2>1. tokens \in Seq(Tokens) /\ \A i \in DOMAIN tokens : tokens[i] \in S
    BY DEF LexInv, TokensReadable
  <2> HIDE DEF S
  <2>2. QED
    BY <2>1
<1>2. Sanitize(tokens) \in Seq(S)
  <2> HIDE DEF S
  <2>1. QED
    BY <1>1, SanitizedTokens
<1>3. QED
  BY <1>2

LEMMA ReadableKeeps ==
  ASSUME ProgramInv, ReadableInv, NEW p, NEW v, Compile(p, v)
  PROVE  ReadableInv'
<1>0. LexInv /\ FilesFit /\ StageFits
  BY DEF ProgramInv
<1>1. \A how : Finish(how) => stage' = stage
  BY DEF Finish
<1>2. CASE ReadSourceFile
  <2>1. CASE UNCHANGED lexVars /\ stage' = stage
    BY <1>2, <2>1, ReadableStays DEF ReadSourceFile
  <2>2. CASE at <= Len(files) /\ files[at] # NoFile /\ StartLex(files[at]) /\ stage' = "lex"
    <3>1. at \in 1 .. Len(files)
      BY <1>0, <2>2 DEF StageFits, FilesFit
    <3>2. files[at] \in STRING
      BY <1>0, <2>2, <3>1 DEF FilesFit, IsSource
    <3>3. text' \in STRING /\ tokens' = <<>> /\ stage' = "lex"
      BY <2>2, <3>2 DEF StartLex
    <3>4. DOMAIN tokens' = {}
      BY <3>3, EmptySeq
    <3>5. QED
      BY <3>3, <3>4 DEF ReadableInv, TokensReadable
  <2>3. QED
    BY <1>0, <1>1, <1>2, <2>1, <2>2 DEF ReadSourceFile, StageFits, FilesFit
<1>3. CASE LexStep
  <2>1. stage = "lex" /\ stage' = stage /\ Process
    BY <1>3 DEF LexStep, unitVars
  <2>2. TokensReadable' /\ text' = text
    BY <1>0, <2>1, ProcessReads, ProcessKeeps DEF ReadableInv, LexAdvances
  <2>3. QED
    BY <2>1, <2>2 DEF ReadableInv
<1>4. CASE SanitizeTokens
  <2>1. UNCHANGED lexVars
    BY <1>4 DEF SanitizeTokens
  <2>2. CASE toks' = toks /\ stage' = stage
    BY <2>1, <2>2, ReadableStays
  <2>3. CASE toks' = Sanitize(tokens)
    <3>1. text' = text /\ tokens' = tokens
      BY <2>1 DEF lexVars
    <3>2. \A tk : Readable(tk)' <=> Readable(tk)
      BY <3>1, SameReadable
    <3>3. \A i \in DOMAIN toks' : Readable(toks'[i])
      BY <1>0, <2>3, SanitizedIsReadable DEF ReadableInv
    <3>4. QED
      BY <3>1, <3>2, <3>3 DEF ReadableInv, TokensReadable
  <2>4. QED
    BY <1>1, <1>4, <2>2, <2>3 DEF SanitizeTokens
<1>5. CASE ParseTokens(p)
  BY <1>1, <1>5, ReadableStays DEF ParseTokens
<1>6. CASE Evaluating
  BY <1>6, ReadableStays DEF Evaluating
<1>7. QED
  BY <1>2, <1>3, <1>4, <1>5, <1>6
  DEF Compile, Running, EvalPragmaticVariableDefinition, EvalPragmaticReturnStmt, EvaluatesTo,
      SkipStatement, EndOfFile

-----------------------------------------------------------------------------
(* What a statement evaluates.                                             *)

LEMMA UsedIsSound ==
  ASSUME PowersOfTwo, Strings, Evaluation, ProgramInv, ParsedInv, ReadableInv,
         \/ EvaluatesTo("return") /\ ThisStmt.kids # <<>>
         \/ EvaluatesTo("VariableDeclaration") /\ Last(ThisStmt.kids).kids # <<>>
  PROVE  Sound(EvalPrimaryExpr(ThisExpression))
<1>1. stage = "eval" /\ stmt <= Len(tree.kids) /\ toks \in Seq(Tokens)
  BY DEF EvaluatesTo, Evaluating, ParsedInv
<1>2. PICK T : tree \in T /\ Grammar!Forest(T)
  BY <1>1 DEF ParsedInv, Grammar!Tree
<1>3. ThisStmt \in T
  <2>1. tree.kids \in Seq(T)
    BY <1>2 DEF Grammar!Forest
  <2>2. stmt \in 1 .. Len(tree.kids)
    BY <1>1 DEF ProgramInv, StageFits
  <2>3. QED
    BY <2>1, <2>2 DEF ThisStmt
<1>4. Grammar!Fits(ThisStmt) /\ ThisStmt.kids \in Seq(T)
  BY <1>2, <1>3 DEF Grammar!Forest
<1> DEFINE e == ThisExpression
<1>5. e \in T /\ Grammar!Operand(e)
  <2>1. CASE EvaluatesTo("return") /\ ThisStmt.kids # <<>>
    <3>1. ThisStmt.type = "return" /\ e = ThisStmt.kids[1] /\ 1 \in 1 .. Len(ThisStmt.kids)
      BY <1>4, <2>1 DEF EvaluatesTo, ThisExpression
    <3>2. e \in T
      BY <1>4, <3>1
    <3>3. Grammar!Operand(e)
      BY <1>4, <3>1 DEF Grammar!Fits
    <3>4. QED
      BY <3>2, <3>3
  <2>2. CASE EvaluatesTo("VariableDeclaration") /\ Last(ThisStmt.kids).kids # <<>>
    <3> DEFINE d == Last(ThisStmt.kids)
    <3>1. ThisStmt.type = "VariableDeclaration" /\ e = d.kids[1] /\ d.kids # <<>>
      BY <2>2 DEF EvaluatesTo, ThisExpression
    <3>2. ThisStmt.kids # <<>> /\ Grammar!Operand(e)
      BY <1>4, <3>1 DEF Grammar!Fits, Last, Grammar!Last
    <3>3. d \in T
      BY <1>4, <3>2 DEF Last
    <3>4. d.kids \in Seq(T)
      BY <1>2, <3>3 DEF Grammar!Forest
    <3> HIDE DEF d
    <3>5. e \in T
      BY <3>1, <3>4
    <3>6. QED
      BY <3>2, <3>5
  <2>3. QED
    BY <2>1, <2>2
<1>6. Grammar!Tree(e)
  BY <1>2, <1>5 DEF Grammar!Tree
<1>7. ValuesFit /\ text \in STRING /\ \A i \in DOMAIN toks : Readable(toks[i])
  BY <1>1 DEF ProgramInv, ReadableInv
<1>8. QED
  BY <1>1, <1>5, <1>6, <1>7, ExpressionsAreSound

\* A step that looks at no expression does not tell its value from another one.
LEMMA SomeSoundValue ==
  ASSUME PowersOfTwo, Strings, Evaluation, ProgramInv, ParsedInv, ReadableInv,
         NEW p, Compile(p, EvalPrimaryExpr(ThisExpression))
  PROVE  \E x : Sound(x) /\ Compile(p, x)
<1> DEFINE v == EvalPrimaryExpr(ThisExpression)
           w == Value("Fail", "literal")
<1>1. Sound(w)
  BY NoValueIsSound
<1> HIDE DEF w
<1>2. CASE \/ EvaluatesTo("return") /\ ThisStmt.kids # <<>>
           \/ EvaluatesTo("VariableDeclaration") /\ Last(ThisStmt.kids).kids # <<>>
  BY <1>2, UsedIsSound
<1> HIDE DEF v
<1>3. CASE ~ \/ EvaluatesTo("return") /\ ThisStmt.kids # <<>>
             \/ EvaluatesTo("VariableDeclaration") /\ Last(ThisStmt.kids).kids # <<>>
  <2>1. EvalPragmaticVariableDefinition(v) => EvalPragmaticVariableDefinition(w)
    BY <1>3 DEF EvalPragmaticVariableDefinition
  <2>2. EvalPragmaticReturnStmt(v) => EvalPragmaticReturnStmt(w)
    BY <1>3 DEF EvalPragmaticReturnStmt
  <2>3. Compile(p, v)
    BY DEF v
  <2>4. Compile(p, w)
    BY <2>1, <2>2, <2>3 DEF Compile, Running
  <2>5. QED
    BY <1>1, <2>4
<1>4. QED
  BY <1>2, <1>3

CompilingInv == ProgramInv /\ ParsedInv /\ ReadableInv

LEMMA CompilingKeeps ==
  ASSUME PowersOfTwo, Strings, Grammar!Recursion, Evaluation, CompilingInv,
         [ProgramNext({Grammar!ParseSyntax}, {EvalPrimaryExpr(ThisExpression)})]_programVars
  PROVE  CompilingInv' /\ (UNCHANGED programVars \/ Precedes(Work', Work))
<1>1. ProgramInv /\ ParsedInv /\ ReadableInv /\ toks \in Seq(Tokens)
  BY DEF CompilingInv, ParsedInv
<1>2. Answering({Grammar!ParseSyntax})
  BY <1>1, ParserAnswers
<1>3. CASE Main
  <2>1. ProgramInv' /\ Precedes(Work', Work)
    BY <1>1, <1>3, MainKeeps
  <2>2. ParsedInv' /\ ReadableInv'
    BY <1>1, <1>3, TreeStays, ReadableStays DEF Main, compilerVars
  <2>3. QED
    BY <2>1, <2>2 DEF CompilingInv
<1>4. CASE Compile(Grammar!ParseSyntax, EvalPrimaryExpr(ThisExpression))
  <2>1. ParsedInv' /\ ReadableInv'
    BY <1>1, <1>4, ParsedKeeps, ReadableKeeps
  <2>2. PICK x : Sound(x) /\ Compile(Grammar!ParseSyntax, x)
    BY <1>1, <1>4, SomeSoundValue
  <2>3. Evaluated({x})
    BY <2>2 DEF Evaluated, Sound
  <2>4. ProgramInv' /\ Precedes(Work', Work)
    <3> DEFINE p == Grammar!ParseSyntax
    <3>1. p \in {p} /\ Answering({p}) /\ Compile(p, x) /\ x \in {x}
      BY <1>2, <2>2
    <3> HIDE DEF p
    <3>2. QED
      BY <1>1, <2>3, <3>1, CompileKeeps
  <2>5. QED
    BY <2>1, <2>4 DEF CompilingInv
<1>5. CASE UNCHANGED programVars
  <2>1. ProgramInv'
    <3>1. Evaluated({})
      BY DEF Evaluated
    <3>2. QED
      BY <1>1, <1>2, <1>5, <3>1, ProgramKeeps
  <2>2. ParsedInv' /\ ReadableInv'
    BY <1>1, <1>5, TreeStays, ReadableStays DEF programVars, compilerVars
  <2>3. QED
    BY <1>5, <2>1, <2>2 DEF CompilingInv
<1>6. QED
  BY <1>3, <1>4, <1>5 DEF ProgramNext, Ended

\* The program takes the steps of the command line, and for the translation steps
\* that the command line allows: what holds of the command line holds of the program.
THEOREM ProgramIsCommandLine ==
  ASSUME NEW Answers, NEW Values
  PROVE  ProgramSpec(Answers, Values) => CliSpec
<1>1. ProgramInit => CliInit
  BY DEF ProgramInit
<1>2. [ProgramNext(Answers, Values)]_programVars => [CliNext]_<<unit, cliVars>>
  <2>1. Main => CliNext
    BY DEF Main, CliNext
  <2>2. \A p, v : Compile(p, v) => CliNext
    BY DEF Compile, CliNext
  <2>3. UNCHANGED programVars => UNCHANGED <<unit, cliVars>>
    BY DEF programVars
  <2>4. Ended => UNCHANGED programVars
    BY DEF Ended
  <2>5. QED
    BY <2>1, <2>2, <2>3, <2>4 DEF ProgramNext
<1>3. QED
  BY <1>1, <1>2, PTL DEF ProgramSpec, CliSpec

\* What the program with its parser and its evaluator keeps to.
THEOREM CompilerInvariant ==
  ASSUME PowersOfTwo, Strings
  PROVE  CompilingSpec /\ []Grammar!Recursion /\ []Evaluation => []CompilingInv
<1>1. ProgramInit => CompilingInv
  <2> SUFFICES ASSUME ProgramInit PROVE CompilingInv
    OBVIOUS
  <2>1. toks = <<>> /\ stage = "read" /\ tokens = <<>> /\ text \in STRING
    <3>1. toks = <<>> /\ stage = "read" /\ LexIdle
      BY DEF ProgramInit, Fresh
    <3>2. tokens = <<>> /\ text = ""
      BY <3>1, Zenon DEF LexIdle
    <3>3. "" \in STRING
      BY Zenon DEF Strings
    <3>4. text \in STRING
      BY <3>2, <3>3, Zenon
    <3>5. QED
      BY <3>1, <3>2, <3>4, Zenon
  <2>2. ParsedInv /\ DOMAIN tokens = {}
    BY <2>1, EmptySeq DEF ParsedInv
  <2>3. ReadableInv
    BY <2>1, <2>2 DEF ReadableInv, TokensReadable
  <2>4. QED
    BY <2>2, <2>3, ProgramInitHolds DEF CompilingInv
<1>2. /\ Grammar!Recursion /\ Evaluation /\ CompilingInv
      /\ [ProgramNext({Grammar!ParseSyntax}, {EvalPrimaryExpr(ThisExpression)})]_programVars
      => CompilingInv'
  BY CompilingKeeps
<1>3. QED
  BY <1>1, <1>2, PTL DEF CompilingSpec, ProgramSpec

\* The compiler, whatever it is given to translate: every value is of its type, the
\* lexer loses nothing of a text, every operator node covers its operands and groups
\* them as C++ does, what is translated is what the line names, and the exit code
\* tells how that ended (CliMain, TrUnit, Lexer::Process, parser.hpp).
THEOREM CompilerIsRight ==
  ASSUME PowersOfTwo, Strings
  PROVE  CompilingSpec /\ []Grammar!Recursion /\ []Evaluation =>
           [](TypeOK /\ LexTiles /\ ExpressionsTile /\ OperatorsBind
              /\ TranslatesWhatIsNamed /\ ExitTells)
<1>1. CompilingInv => ProgramInv /\ ParsedInv
  BY DEF CompilingInv
<1>2. ProgramInv => TypeOK
  BY DEF ProgramInv, CliInv, CliTypes, CliRest, LexInv, HeadFits, StageFits, ValuesFit, TypeOK
<1>3. ProgramInv => LexTiles
  BY DEF ProgramInv, LexInv
<1>4. ParsedInv => ExpressionsTile /\ OperatorsBind
  BY NodesAreRight DEF ExpressionsTile, OperatorsBind
<1>5. ProgramInv => TranslatesWhatIsNamed
  BY FilesAreNamed DEF ProgramInv, CliInv, TranslatesWhatIsNamed
<1>6. ProgramInv => ExitTells
  BY DEF ProgramInv, CliInv, ExitTells
<1>7. QED
  BY <1>1, <1>2, <1>3, <1>4, <1>5, <1>6, CompilerInvariant, PTL

\* Every run of the compiler ends, whatever its expressions evaluate to (CliMain,
\* TrUnit::Evaluate).
THEOREM CompilerEnds ==
  ASSUME PowersOfTwo, Strings
  PROVE  CompilingSpec /\ []Grammar!Recursion /\ []Evaluation => ProgramProgresses
<1>1. ASSUME Grammar!Recursion, Evaluation, CompilingInv,
             [ProgramNext({Grammar!ParseSyntax}, {EvalPrimaryExpr(ThisExpression)})]_programVars
      PROVE  [(\A i \in DOMAIN Work : Work'[i] >= 0) /\ Precedes(Work', Work)]_programVars
  <2>1. CompilingInv' /\ (UNCHANGED programVars \/ Precedes(Work', Work))
    BY <1>1, CompilingKeeps
  <2>2. ProgramInv'
    BY <2>1 DEF CompilingInv
  <2>3. \A i \in DOMAIN Work : Work'[i] >= 0
    BY <2>2, NothingNegative
  <2>4. QED
    BY <2>1, <2>3
<1>2. QED
  BY CompilerInvariant, <1>1, PTL DEF CompilingSpec, ProgramSpec, ProgramProgresses
=============================================================================

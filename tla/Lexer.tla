-------------------------------- MODULE Lexer --------------------------------
(***************************************************************************)
(* trtools::Lexer (inc/frontend/lexer.hpp): the text of one source file is *)
(* cut into tokens, one iteration of the loop of Process per step.         *)
(*                                                                         *)
(* A text is a TLA+ string, of which SubSeq(text, i, i) is the i-th        *)
(* character.  The buffer the compiler lexes holds a NUL after the text;   *)
(* text files that hold a NUL themselves are not modelled.  The type of a  *)
(* keyword or operator token is its spelling: kKwDef is "def" and kAnd,    *)
(* the token of two ampersands, is "&&".                                   *)
(***************************************************************************)
EXTENDS Integers, Sequences

VARIABLES text,     \* the text that is being lexed
          head,     \* read_head_, as the index of its first character
          tokens,   \* the tokens pushed so far: type, first index, end index
          lexing    \* "run", "done", "failed", or "ub"
lexVars == <<text, head, tokens, lexing>>

------------------------------------------------------------------------------
(* Characters: grammar/traitsof_eSrcChar.tpp.                              *)

IsSrcCharAlpha ==
  {"a", "b", "c", "d", "e", "f", "g", "h", "i", "j", "k", "l", "m", "n", "o", "p", "q", "r",
   "s", "t", "u", "v", "w", "x", "y", "z", "A", "B", "C", "D", "E", "F", "G", "H", "I", "J",
   "K", "L", "M", "N", "O", "P", "Q", "R", "S", "T", "U", "V", "W", "X", "Y", "Z"}
IsSrcCharNumeric == {"0", "1", "2", "3", "4", "5", "6", "7", "8", "9"}
IsSrcCharAlphaUnderscore == IsSrcCharAlpha \cup {"_"}
IsSrcCharAlnumus == IsSrcCharAlphaUnderscore \cup IsSrcCharNumeric
IsSrcCharSpace == {" ", "\t"}
IsSrcCharNewline == {"\n", "\r", "\f"}   \* and the vertical tab, which TLA+ cannot spell
IsSrcCharWhitespace == IsSrcCharSpace \cup IsSrcCharNewline
(* TLA+ cannot spell the backtick; the apostrophe stands for it.  (The     *)
(* apostrophe itself is a punctuator no token starts with, like \.)         *)
Backtick == "'"
IsSrcCharPunctuator ==
  {"!", "@", "#", "$", "%", "^", "&", "*", "-", "+", "=", "{", "}", "[", "]", "|", "\\", ";",
   ":", "\"", "<", ">", "?", "/", "~", Backtick, ".", ",", "(", ")", "_"}

(* The words of GetTkFromKeyword an identifier can spell; the operators    *)
(* and # directives of that table hold characters no identifier has.       *)
Keywords ==
  {"def", "fn", "class", "main", "import", "namespace", "using", "lib", "dll", "enum", "proc",
   "if", "elif", "else", "cxif", "cxelif", "cxelse", "switch", "case", "default", "while",
   "for", "return", "break", "continue", "int", "uint", "real", "bool", "char", "byte",
   "cstr", "str", "ptr", "list", "array", "true", "false", "none", "void", "in", "as", "cin",
   "cout", "native", "const", "ref", "private", "public", "static", "any", "auto", "type",
   "value", "template"}

------------------------------------------------------------------------------
(* The view that is lexed.  The first view is the whole buffer with its    *)
(* NUL; every later one is built from a bare pointer (the constructors of  *)
(* LexerCursor), so it ends before the NUL.                                *)

ViewEnd == IF tokens = <<>> THEN Len(text) + 2 ELSE Len(text) + 1
Nul == ""
Char(i) == IF i <= Len(text) THEN SubSeq(text, i, i) ELSE Nul
Spelling(i, n) == SubSeq(text, i, IF i + n - 1 > Len(text) THEN Len(text) ELSE i + n - 1)

(* The index that ends the run of characters of a class starting at i.     *)
RunEnd(i, class) ==
  CHOOSE j \in i .. ViewEnd :
    /\ j = ViewEnd \/ Char(j) \notin class
    /\ \A k \in i .. (j - 1) : Char(k) \in class

Tk(type, end) == [type |-> type, lo |-> head, hi |-> end]

------------------------------------------------------------------------------
(* The tokens.                                                             *)

(* LexNumber: 0b and 1b are bits; digits may be followed by u, by c, or by *)
(* a fraction with f or r; a number before an ellipsis keeps its digits.   *)
LexNumber ==
  LET digits == RunEnd(head, IsSrcCharNumeric)
      fraction == RunEnd(digits + 1, IsSrcCharNumeric)
  IN CASE Char(head) \in {"0", "1"} /\ Char(head + 1) = "b" -> Tk("LitBool", head + 2)
       [] Char(digits) = "u" -> Tk("LitUint", digits + 1)
       [] Char(digits) = "c" -> Tk("LitByte", digits + 1)
       [] Char(digits) = "." /\ Spelling(digits, 3) # "..." ->
            Tk("LitReal", IF Char(fraction) \in {"f", "r"} THEN fraction + 1 ELSE fraction)
       [] OTHER -> Tk("LitInt", digits)

LexIdentifier ==
  LET end == RunEnd(head, IsSrcCharAlnumus)
      word == SubSeq(text, head, end - 1)
  IN Tk(IF word \in Keywords THEN word ELSE "Ident", end)

(* LexPunctuator: two characters are tried before one.  The test for >>=   *)
(* asks the second character to be both > and =, so >>= is >> and then =.  *)
LongPunctuators ==
  {"==", "++", "+=", "--", "-=", "*=", "/=", "%=", "&=", "&&", "|=", "||", "^=", "<<", "<=",
   ">>", ">=", "!=", "::"}
ShortPunctuators ==
  {"=", "+", "-", "*", "/", "%", "&", "|", "^", "<", ">", "!", "~", "@", "#", "$", "?", ":",
   ";", ",", ".", "(", ")", "[", "]", "{", "}"}
LexPunctuator ==
  LET long == Spelling(head, 2)
  IN IF long = "<<" /\ Char(head + 2) = "=" THEN Tk("<<=", head + 3)
     ELSE IF long \in LongPunctuators THEN Tk(long, head + 2)
     ELSE Tk(Char(head), head + 1)

(* LexEscapedCharSequence: the index of the quotation mark that closes the *)
(* literal opened at head.  A mark after one backslash is escaped; after   *)
(* two it closes, whatever stands before them.                             *)
Closes(i) ==
  /\ Char(i) = "\""
  /\ Char(i - 1) # "\\" \/ (i > head + 1 /\ Char(i - 2) = "\\")
ClosingMarks == {i \in (head + 1) .. Len(text) : Closes(i)}
LexEscapedCharSequence ==
  Tk("LitCstr", (CHOOSE i \in ClosingMarks : \A j \in ClosingMarks : i <= j) + 1)

(* LexLineComment ends before a newline.  In the first view the NUL        *)
(* belongs to the comment, and the read head leaves the buffer.            *)
LineCommentEnd ==
  CHOOSE j \in (head + 1) .. ViewEnd :
    /\ j = ViewEnd \/ Char(j) \in IsSrcCharNewline
    /\ \A k \in (head + 1) .. (j - 1) : Char(k) \notin IsSrcCharNewline

(* LexBlockComment: from /` to the first `/ after it.                      *)
BlockEnds == {i \in (head + 2) .. (Len(text) - 1) : Spelling(i, 2) = Backtick \o "/"}
LexBlockComment ==
  Tk("BlockComment", (CHOOSE i \in BlockEnds : \A j \in BlockEnds : i <= j) + 2)

------------------------------------------------------------------------------
(* A variant of Push whose line comments take the newline with them.       *)
PushSwallowing(tk) ==
  /\ tokens' = Append(tokens, tk)
  /\ head' = IF tk.type = "LineComment" THEN tk.hi + 1 ELSE tk.hi
  /\ lexing' = IF tk.hi >= Len(text) THEN "done" ELSE "run"
  /\ UNCHANGED text
Push(tk) ==
  /\ tokens' = Append(tokens, tk)
  /\ head' = tk.hi
  /\ lexing' = IF tk.hi > Len(text) THEN "done" ELSE "run"
  /\ UNCHANGED text
Stop(how) == lexing' = how /\ UNCHANGED <<text, head, tokens>>

(* One iteration of the loop of Process, by the character at the read head *)
Newline ==
  /\ Char(head) \in IsSrcCharNewline
  /\ Push(Tk("Newline", RunEnd(head, IsSrcCharNewline)))
Whitespace ==
  /\ Char(head) \in IsSrcCharSpace
  /\ Push(Tk("Whitespace", RunEnd(head, IsSrcCharWhitespace)))
Identifier == Char(head) \in IsSrcCharAlphaUnderscore /\ Push(LexIdentifier)
Number == Char(head) \in IsSrcCharNumeric /\ Push(LexNumber)
EscapedCharSequence ==
  /\ Char(head) = "\""
  /\ IF ClosingMarks = {} THEN Stop("ub") ELSE Push(LexEscapedCharSequence)
LineComment ==
  /\ Char(head) = Backtick
  /\ IF LineCommentEnd > Len(text) + 1 THEN Stop("ub") ELSE Push(Tk("LineComment", LineCommentEnd))
BlockComment ==
  /\ Spelling(head, 2) = "/" \o Backtick
  /\ IF BlockEnds = {} THEN Stop("failed") ELSE Push(LexBlockComment)
Punctuator ==
  /\ Char(head) \in IsSrcCharPunctuator \ {"\"", Backtick, "_"}
  /\ Spelling(head, 2) # "/" \o Backtick
  /\ IF Char(head) \in ShortPunctuators THEN Push(LexPunctuator) ELSE Stop("failed")
Unknown ==
  /\ Char(head) \notin IsSrcCharAlnumus \cup IsSrcCharWhitespace \cup IsSrcCharPunctuator
  /\ Stop("failed")

Process ==
  /\ lexing = "run"
  /\ \/ Newline \/ Whitespace \/ Identifier \/ Number \/ EscapedCharSequence
     \/ LineComment \/ BlockComment \/ Punctuator \/ Unknown

(* Before the first text.                                                  *)
LexIdle == text = "" /\ head = 1 /\ tokens = <<>> /\ lexing = "done"

(* Lex starts the loop; Process refuses a text that is empty.              *)
StartLex(t) ==
  /\ text' = t
  /\ head' = 1
  /\ tokens' = <<>>
  /\ lexing' = "run"

(* The tokens lie in the text one behind the other without a gap, from its *)
(* first character to the read head, none is empty, and a text that is     *)
(* lexed to its end is covered: lexing loses and repeats no character.     *)
LexTiles ==
  /\ \A i \in DOMAIN tokens :
       /\ tokens[i].lo < tokens[i].hi
       /\ tokens[i].lo = IF i = 1 THEN 1 ELSE tokens[i - 1].hi
  /\ tokens # <<>> => head = tokens[Len(tokens)].hi
  /\ lexing = "done" => head = Len(text) + 1

(* Sanitize drops the comments and the white space.                        *)
Redundant == {"LineComment", "BlockComment", "Whitespace", "Newline"}
Sanitize(tks) ==
  LET kept[i \in 0 .. Len(tks)] ==
        IF i = 0 THEN <<>>
        ELSE IF tks[i].type \in Redundant THEN kept[i - 1]
        ELSE Append(kept[i - 1], tks[i])
  IN kept[Len(tks)]
=============================================================================

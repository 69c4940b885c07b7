----------------------------- MODULE TextEditor ------------------------------
(***************************************************************************)
(* cidr::ui::TextEditor (src/UserInterface/TextEditor.cpp): the text, the  *)
(* cursor and the selection of one open file, the keys and mouse buttons   *)
(* that change them, and the undo buffer.                                  *)
(*                                                                         *)
(* A text is a sequence of lines, a line a sequence of characters, each of *)
(* them one or several glyphs of the code.  Coordinates are those of the   *)
(* code: a line and a column, both from 0, where a tab fills the columns   *)
(* up to the next tab stop.  Colours, scrolling and what is drawn are left *)
(* out, with word and line selections, whose coordinates a drag of the     *)
(* mouse reaches too.  The program opens a file in a new editor, and sets  *)
(* neither breakpoints nor error markers nor read-only mode.               *)
(***************************************************************************)
EXTENDS Integers, Sequences, SequencesExt

CONSTANTS Characters,     \* characters that are typed
          Blank, Tab,     \* the space and the tab
          TabSize,        \* mTabSize
          Files,          \* texts of files that may be opened
          Clips,          \* texts the clipboard of the system may hold
          AutoIndentation,\* mAutoIndentation of the language of the file
          Pages,          \* GetPageSize() - 4 for heights of the window
          MaxEdits,       \* bound on the keys that edit, undo or redo
          MaxMoves        \* bound on the others, and the mouse buttons
Coordinates == [line : Nat, column : Nat]
Texts == Seq(Seq(Characters \cup {Blank, Tab}))

(* A text has a line, be it an empty one.                                  *)
ASSUME TabAssumption == TabSize \in Nat \ {0} /\ Tab \notin Characters
ASSUME PageAssumption == Pages \subseteq Int
ASSUME TextAssumption == Files \cup Clips \subseteq Texts \ {<<>>}

VARIABLES mLines,           \* the text
          mState,           \* mSelectionStart, mSelectionEnd, mCursorPosition
          interactive,      \* mInteractiveStart, mInteractiveEnd
          mUndoBuffer, mUndoIndex,
          mOverwrite,
          clipboard,
          past,             \* history: the text at each place of the undo buffer
          exact,            \* history: nothing was done that the buffer records wrongly
          edits, moves      \* what the bounds bound
vars == <<mLines, mState, interactive, mUndoBuffer, mUndoIndex, mOverwrite, clipboard,
          past, exact, edits, moves>>
history == <<mUndoBuffer, mUndoIndex, past, exact>>
settings == <<mOverwrite, clipboard>>

------------------------------------------------------------------------------
(* Coordinates.                                                            *)

At(line, column) == [line |-> line, column |-> column]
Before(a, b) == a.line < b.line \/ (a.line = b.line /\ a.column < b.column)

Line(lines, l) == lines[l + 1]
NextColumn(column, char) ==
  IF char = Tab THEN (column \div TabSize) * TabSize + TabSize ELSE column + 1
GetCharacterColumn(line, index) ==
  LET column[i \in 0 .. index] == IF i = 0 THEN 0 ELSE NextColumn(column[i - 1], line[i])
  IN column[index]
GetLineMaxColumn(line) == GetCharacterColumn(line, Len(line))
(* The first index whose column is not before the given one.               *)
GetCharacterIndex(lines, c) ==
  LET line == Line(lines, c.line)
      reached == {i \in 0 .. Len(line) : GetCharacterColumn(line, i) >= c.column}
  IN IF reached = {} THEN Len(line) ELSE CHOOSE i \in reached : \A j \in reached : i <= j
OnBoundary(lines, c) ==
  GetCharacterColumn(Line(lines, c.line), GetCharacterIndex(lines, c)) = c.column
SanitizeCoordinates(lines, c) ==
  LET last == Len(lines) - 1
      max(l) == GetLineMaxColumn(Line(lines, l))
  IN IF c.line > last THEN At(last, max(last))
     ELSE IF c.column > max(c.line) THEN At(c.line, max(c.line)) ELSE c

------------------------------------------------------------------------------
(* Texts.                                                                  *)

Nothing == << <<>> >>
NewLine == << <<>>, <<>> >>
Prefix(lines, c) == SubSeq(Line(lines, c.line), 1, GetCharacterIndex(lines, c))
Suffix(lines, c) ==
  LET line == Line(lines, c.line) IN SubSeq(line, GetCharacterIndex(lines, c) + 1, Len(line))

GetText(lines, a, b) ==
  LET last == Prefix(lines, b)
  IN IF a.line = b.line THEN << SubSeq(last, GetCharacterIndex(lines, a) + 1, Len(last)) >>
     ELSE <<Suffix(lines, a)>> \o SubSeq(lines, a.line + 2, b.line) \o <<last>>
(* (DeleteNextToo removes one line more.)                                  *)
DeleteNextToo(lines, a, b) ==
  SubSeq(lines, 1, a.line) \o <<Prefix(lines, a) \o Suffix(lines, b)>>
    \o SubSeq(lines, b.line + 3, Len(lines))
DeleteRange(lines, a, b) ==
  SubSeq(lines, 1, a.line) \o <<Prefix(lines, a) \o Suffix(lines, b)>>
    \o SubSeq(lines, b.line + 2, Len(lines))
(* (InsertBehind leaves the rest of the line on the first one.)            *)
InsertBehind(lines, c, text) ==
  LET joined == << Prefix(lines, c) \o text[1] >> \o Tail(text)
  IN SubSeq(lines, 1, c.line) \o [joined EXCEPT ![1] = @ \o Suffix(lines, c)]
       \o SubSeq(lines, c.line + 2, Len(lines))
InsertTextAt(lines, c, text) ==
  LET joined == << Prefix(lines, c) \o text[1] >> \o Tail(text)
      n == Len(text)
  IN SubSeq(lines, 1, c.line) \o [joined EXCEPT ![n] = @ \o Suffix(lines, c)]
       \o SubSeq(lines, c.line + 2, Len(lines))
(* Where InsertTextAt leaves aWhere: every character counts one column.    *)
InsertionEnd(c, text) ==
  LET n == Len(text) IN At(c.line + n - 1, Len(text[n]) + (IF n = 1 THEN c.column ELSE 0))

------------------------------------------------------------------------------
(* The selection.                                                          *)

GetActualCursorCoordinates == SanitizeCoordinates(mLines, mState.cursor)
HasSelection == Before(mState.start, mState.end)
(* (SelectAsGiven does not bring the ends into the text.)                  *)
SelectAsGiven(lines, a, b, cursor) ==
  [start |-> IF Before(b, a) THEN b ELSE a, end |-> IF Before(b, a) THEN a ELSE b,
   cursor |-> cursor]
SetSelection(lines, a, b, cursor) ==
  LET s == SanitizeCoordinates(lines, a)
      e == SanitizeCoordinates(lines, b)
  IN [start |-> IF Before(e, s) THEN e ELSE s, end |-> IF Before(e, s) THEN s ELSE e,
      cursor |-> cursor]
GetSelectedText == GetText(mLines, mState.start, mState.end)
(* DeleteSelection: the text and the state behind it.                      *)
Remaining == IF HasSelection THEN DeleteRange(mLines, mState.start, mState.end) ELSE mLines
Collapsed ==
  LET left == SanitizeCoordinates(Remaining, mState.start)
  IN IF HasSelection THEN SetSelection(Remaining, left, left, left) ELSE mState

------------------------------------------------------------------------------
(* The undo buffer.  A record holds the text that was added, that was      *)
(* removed, where, and the states before and behind the change.            *)

Change(where, to, text) == [start |-> where, end |-> to, text |-> text]
NoChange == Change(At(0, 0), At(0, 0), Nothing)
SelectionRemoved ==
  IF HasSelection THEN Change(mState.start, mState.end, GetSelectedText) ELSE NoChange

(* (AppendUndo keeps the records of what was undone.)                      *)
AppendUndo(added, removed, after) ==
  /\ mUndoBuffer' = Append(mUndoBuffer,
                           [added |-> added, removed |-> removed, before |-> mState, after |-> after])
  /\ mUndoIndex' = mUndoIndex + 1
  /\ past' = Append(SubSeq(past, 1, mUndoIndex + 1), mLines')
AddUndo(added, removed, after) ==
  /\ mUndoBuffer' = Append(SubSeq(mUndoBuffer, 1, mUndoIndex),
                           [added |-> added, removed |-> removed, before |-> mState, after |-> after])
  /\ mUndoIndex' = mUndoIndex + 1
  /\ past' = Append(SubSeq(past, 1, mUndoIndex + 1), mLines')
Recorded(rightly) == exact' = (exact /\ rightly)

Revert(lines, undone, redone) ==
  LET without == IF undone.text = Nothing THEN lines ELSE DeleteRange(lines, undone.start, undone.end)
  IN IF redone.text = Nothing THEN without ELSE InsertTextAt(without, redone.start, redone.text)

(* (UndoInOrder puts the removed text back before it takes the added one.) *)
UndoInOrder ==
  LET record == mUndoBuffer[mUndoIndex]
      restored == IF record.removed.text = Nothing THEN mLines
                  ELSE InsertTextAt(mLines, record.removed.start, record.removed.text)
  IN /\ mUndoIndex > 0
     /\ mLines' = Revert(restored, record.added, NoChange)
     /\ mState' = record.before
     /\ mUndoIndex' = mUndoIndex - 1
     /\ UNCHANGED <<interactive, mUndoBuffer, settings, past, exact>>
Undo ==
  LET record == mUndoBuffer[mUndoIndex]
  IN /\ mUndoIndex > 0
     /\ mLines' = Revert(mLines, record.added, record.removed)
     /\ mState' = record.before
     /\ mUndoIndex' = mUndoIndex - 1
     /\ UNCHANGED <<interactive, mUndoBuffer, settings, past, exact>>
Redo ==
  LET record == mUndoBuffer[mUndoIndex + 1]
  IN /\ mUndoIndex < Len(mUndoBuffer)
     /\ mLines' = Revert(mLines, record.removed, record.added)
     /\ mState' = record.after
     /\ mUndoIndex' = mUndoIndex + 1
     /\ UNCHANGED <<interactive, mUndoBuffer, settings, past, exact>>

------------------------------------------------------------------------------
(* EnterCharacter.                                                         *)

(* The line with its tab, or up to TabSize of its spaces, taken away.      *)
Unindented(line) ==
  IF line # <<>> /\ line[1] = Tab THEN Tail(line)
  ELSE LET kept(n) == n = Len(line) \/ n = TabSize \/ line[n + 1] # Blank
       IN SubSeq(line, 1 + CHOOSE n \in 0 .. Len(line) :
                             kept(n) /\ \A m \in 0 .. n - 1 : ~kept(m), Len(line))

(* Tab on a selection of several lines.                                    *)
Indent(shift) ==
  LET first == mState.start.line
      whole == mState.end.column # 0
      last == IF whole THEN mState.end.line ELSE mState.end.line - 1
      indented == [i \in DOMAIN mLines |->
        IF i - 1 \notin first .. last THEN mLines[i]
        ELSE IF shift THEN Unindented(mLines[i]) ELSE <<Tab>> \o mLines[i]]
      end(lines) == At(last, GetLineMaxColumn(Line(lines, last)))
      change(lines) == Change(At(first, 0), end(lines), GetText(lines, At(first, 0), end(lines)))
  IN /\ HasSelection /\ mState.start.line # mState.end.line
     /\ indented # mLines
     /\ mLines' = indented
     /\ mState' = [mState EXCEPT !.start = At(first, 0), !.end = IF whole THEN end(indented) ELSE @]
     /\ AddUndo(change(indented), change(mLines), mState)
     /\ Recorded(SetSelection(indented, mState.start, mState.end, mState.cursor) = mState)
     /\ UNCHANGED <<interactive, settings>>

Indentation(line) ==
  LET rest == SelectInSeq(line, LAMBDA char : char \notin {Blank, Tab})
  IN IF rest = 0 THEN line ELSE SubSeq(line, 1, rest - 1)

(* The rest of EnterCharacter, and of Paste, finds the text and the state  *)
(* that DeleteSelection left, and the actual cursor.                       *)
EnterNewLine(lines, state, coord) ==
  \E indentation \in {IF AutoIndentation THEN Indentation(Line(lines, coord.line)) ELSE <<>>} :
    LET cursor == At(coord.line + 1, GetLineMaxColumn(indentation))
        after == [state EXCEPT !.cursor = cursor]
    IN /\ mLines' = InsertTextAt(lines, coord, << <<>>, indentation >>)
       /\ mState' = after
       /\ AddUndo(Change(coord, cursor, NewLine), SelectionRemoved, after)
       /\ Recorded(indentation = <<>>)
       /\ UNCHANGED <<interactive, settings>>

EnterCharacter(char, lines, state, coord) ==
  \E index \in {GetCharacterIndex(lines, coord)}, line \in {Line(lines, coord.line)},
     selected \in {SelectionRemoved} :
    LET overwriting == mOverwrite /\ index < Len(line)
        behind == IF overwriting THEN index + 1 ELSE index
        typed == SubSeq(line, 1, index) \o <<char>> \o SubSeq(line, behind + 1, Len(line))
        cursor == At(coord.line, GetCharacterColumn(typed, index + 1))
        after == [state EXCEPT !.cursor = cursor]
        removed == Change(state.cursor, At(coord.line, GetCharacterColumn(line, index + 1)),
                          ReplaceAt(selected.text, Len(selected.text),
                                    Append(Last(selected.text), line[index + 1])))
    IN /\ ~(char = Tab /\ HasSelection /\ mState.start.line # mState.end.line)
       /\ mLines' = ReplaceAt(lines, coord.line + 1, typed)
       /\ mState' = after
       /\ AddUndo(Change(coord, cursor, << <<char>> >>),
                  IF overwriting THEN removed ELSE selected, after)
       /\ Recorded(~(overwriting /\ HasSelection))
       /\ UNCHANGED <<interactive, settings>>

------------------------------------------------------------------------------
(* Delete, Backspace, Cut, Copy and Paste.                                 *)

RemoveSelection ==
  /\ HasSelection
  /\ mLines' = Remaining
  /\ mState' = Collapsed
  /\ AddUndo(NoChange, SelectionRemoved, Collapsed)
  /\ UNCHANGED <<interactive, mOverwrite, exact>>

(* The line behind l is joined to it.                                      *)
JoinLines(l, cursor) ==
  LET where == At(l, GetLineMaxColumn(Line(mLines, l)))
      after == [mState EXCEPT !.cursor = cursor]
  IN /\ mLines' = DeleteRange(mLines, where, At(l + 1, 0))
     /\ mState' = after
     /\ AddUndo(NoChange, Change(where, At(l + 1, 0), NewLine), after)
     /\ UNCHANGED <<interactive, settings, exact>>

(* With the cursor inside the last tab of a line the code reads the length  *)
(* of a character behind the line (TextEditor.cpp:1671, undefined), and     *)
(* whatever it reads finds nothing there to erase.                          *)
Delete ==
  LET pos == GetActualCursorCoordinates
      line == Line(mLines, pos.line)
      index == GetCharacterIndex(mLines, pos)
      end == At(pos.line, pos.column + 1)
      after == [mState EXCEPT !.cursor = pos]
  IN \/ RemoveSelection /\ UNCHANGED clipboard
     \/ /\ ~HasSelection
        /\ pos.column = GetLineMaxColumn(line)
        /\ IF pos.line = Len(mLines) - 1
           THEN mState' = after /\ UNCHANGED <<mLines, interactive, settings, history>>
           ELSE JoinLines(pos.line, pos)
     \/ /\ ~HasSelection
        /\ pos.column # GetLineMaxColumn(line)
        /\ mLines' = IF index < Len(line)
                     THEN ReplaceAt(mLines, pos.line + 1, RemoveAt(line, index + 1)) ELSE mLines
        /\ mState' = after
        /\ AddUndo(NoChange, Change(pos, end, GetText(mLines, pos, end)), after)
        /\ Recorded(OnBoundary(mLines, pos))
        /\ UNCHANGED <<interactive, settings>>

Backspace ==
  LET pos == GetActualCursorCoordinates
      line == Line(mLines, pos.line)
      index == GetCharacterIndex(mLines, pos)
      start == At(pos.line, pos.column - 1)
      after == [mState EXCEPT !.cursor = start]
  IN \/ RemoveSelection /\ UNCHANGED clipboard
     \/ /\ ~HasSelection /\ pos.column = 0
        /\ IF pos.line = 0
           THEN /\ mState' = [mState EXCEPT !.cursor = pos]
                /\ UNCHANGED <<mLines, interactive, settings, history>>
           ELSE JoinLines(pos.line - 1,
                          At(pos.line - 1, GetLineMaxColumn(Line(mLines, pos.line - 1))))
     \/ /\ ~HasSelection /\ pos.column # 0
        /\ mLines' = ReplaceAt(mLines, pos.line + 1, RemoveAt(line, index))
        /\ mState' = after
        /\ AddUndo(NoChange, Change(start, pos, << <<line[index]>> >>), after)
        /\ Recorded(line[index] # Tab)
        /\ UNCHANGED <<interactive, settings>>

Copy ==
  /\ clipboard' = IF HasSelection THEN GetSelectedText
                  ELSE <<Line(mLines, GetActualCursorCoordinates.line)>>
  /\ UNCHANGED <<mLines, mState, interactive, mOverwrite, history>>
Cut == RemoveSelection /\ clipboard' = GetSelectedText

Paste(lines, state, coord) ==
  \E pasted \in {InsertTextAt(lines, coord, clipboard)}, pos \in {InsertionEnd(coord, clipboard)} :
  \E after \in {SetSelection(pasted, pos, pos, pos)} :
    /\ clipboard # Nothing
    /\ mLines' = pasted
    /\ mState' = after
    /\ AddUndo(Change(coord, SanitizeCoordinates(pasted, pos), clipboard), SelectionRemoved, after)
    /\ Recorded(~Contains(Last(clipboard), Tab) /\ OnBoundary(lines, coord))
    /\ UNCHANGED <<interactive, settings>>

Insert ==
  \E lines \in {Remaining}, state \in {Collapsed} :
  \E coord \in {SanitizeCoordinates(lines, state.cursor)} :
    \/ EnterNewLine(lines, state, coord)
    \/ \E char \in Characters \cup {Tab} : EnterCharacter(char, lines, state, coord)
    \/ Paste(lines, state, coord)

------------------------------------------------------------------------------
(* Moving the cursor.                                                      *)

(* The ends of the interactive selection after a move to the left or up,   *)
(* and after one to the right or down.                                     *)
ExtendedBack(old, new) ==
  IF old = interactive.start THEN [interactive EXCEPT !.start = new]
  ELSE IF old = interactive.end THEN [interactive EXCEPT !.end = new]
  ELSE [start |-> new, end |-> old]
ExtendedOn(old, new) ==
  IF old = interactive.end THEN [interactive EXCEPT !.end = new]
  ELSE IF old = interactive.start THEN [interactive EXCEPT !.start = new]
  ELSE [start |-> old, end |-> new]

Select(range, cursor) ==
  /\ interactive' = range
  /\ mState' = SetSelection(mLines, range.start, range.end, cursor)
  /\ UNCHANGED <<mLines, settings, history>>
MoveTo(cursor, select, extended) ==
  Select(IF select THEN extended ELSE [start |-> cursor, end |-> cursor], cursor)

(* The arrow keys with an amount of 1, and Page Up and Page Down with the  *)
(* lines of the window less 4, a negative amount in a low window.          *)
MoveUp(amount, select) ==
  LET old == mState.cursor
      new == [old EXCEPT !.line = IF amount > @ THEN 0 ELSE @ - amount]
  IN new # old /\ MoveTo(new, select, ExtendedBack(old, new))
MoveDown(amount, select) ==
  LET old == mState.cursor
      moved == IF old.line + amount < Len(mLines) THEN old.line + amount ELSE Len(mLines) - 1
      new == [old EXCEPT !.line = IF moved < 0 THEN 0 ELSE moved]
  IN new # old /\ MoveTo(new, select, ExtendedOn(old, new))

MoveLeft(select) ==
  LET actual == GetActualCursorCoordinates
      index == GetCharacterIndex(mLines, actual)
      new == IF index > 0
             THEN At(actual.line, GetCharacterColumn(Line(mLines, actual.line), index - 1))
             ELSE IF actual.line > 0
             THEN At(actual.line - 1, GetLineMaxColumn(Line(mLines, actual.line - 1)))
             ELSE At(0, 0)
  IN MoveTo(new, select, ExtendedBack(mState.cursor, new))
MoveRight(select) ==
  LET old == mState.cursor
      index == GetCharacterIndex(mLines, old)
      atEnd == index = Len(Line(mLines, old.line))
      new == IF atEnd THEN At(old.line + 1, 0)
             ELSE At(old.line, GetCharacterColumn(Line(mLines, old.line), index + 1))
  IN /\ old.line < Len(mLines)
     /\ atEnd => old.line < Len(mLines) - 1
     /\ MoveTo(new, select, ExtendedOn(old, new))

MoveTop(select) ==
  LET old == mState.cursor
  IN old # At(0, 0) /\ MoveTo(At(0, 0), select, [start |-> At(0, 0), end |-> old])
MoveBottom(select) ==
  LET new == At(Len(mLines) - 1, 0)
  IN MoveTo(new, select, [start |-> GetActualCursorCoordinates, end |-> new])
MoveHome(select) ==
  LET old == mState.cursor
      new == [old EXCEPT !.column = 0]
  IN new # old /\ MoveTo(new, select, ExtendedBack(old, new))
MoveEnd(select) ==
  LET old == mState.cursor
      new == [old EXCEPT !.column =
                IF old.line < Len(mLines) THEN GetLineMaxColumn(Line(mLines, old.line)) ELSE 0]
  IN new # old /\ MoveTo(new, select, ExtendedOn(old, new))

SelectAll ==
  /\ mState' = SetSelection(mLines, At(0, 0), At(Len(mLines), 0), mState.cursor)
  /\ UNCHANGED <<mLines, interactive, settings, history>>

(* The mouse points between two characters, or to the end of the text.     *)
ScreenPosToCoordinates ==
  UNION {{At(l, GetCharacterColumn(Line(mLines, l), i)) : i \in 0 .. Len(Line(mLines, l))} :
         l \in 0 .. Len(mLines) - 1}
Click(pos) == MoveTo(pos, FALSE, interactive)
Drag(pos) == Select([interactive EXCEPT !.end = pos], pos)

ToggleOverwrite ==
  mOverwrite' = ~mOverwrite /\ UNCHANGED <<mLines, mState, interactive, clipboard, history>>

------------------------------------------------------------------------------
(* A file is opened, the text is clicked and perhaps dragged over, and     *)
(* keys are pressed.                                                       *)

Init ==
  /\ mLines \in Files
  /\ \E click \in ScreenPosToCoordinates, pos \in ScreenPosToCoordinates :
       /\ interactive = [start |-> click, end |-> pos]
       /\ mState = SetSelection(mLines, click, pos, pos)
  /\ mUndoBuffer = <<>> /\ mUndoIndex = 0
  /\ mOverwrite = FALSE
  /\ clipboard \in Clips
  /\ past = <<mLines>> /\ exact = TRUE
  /\ edits = 0 /\ moves = 0

Move ==
  \/ SelectAll \/ Copy \/ ToggleOverwrite
  \/ \E select \in BOOLEAN :
       \/ \E amount \in {1} \cup Pages : MoveUp(amount, select) \/ MoveDown(amount, select)
       \/ MoveLeft(select) \/ MoveRight(select)
       \/ MoveTop(select) \/ MoveBottom(select)
       \/ MoveHome(select) \/ MoveEnd(select)
  \/ \E pos \in ScreenPosToCoordinates : Click(pos) \/ Drag(pos)
EditText ==
  \/ Insert \/ (\E shift \in BOOLEAN : Indent(shift))
  \/ Delete \/ Backspace \/ Cut \/ Undo \/ Redo

Next ==
  \/ moves < MaxMoves /\ moves' = moves + 1 /\ UNCHANGED edits /\ Move
  \/ edits < MaxEdits /\ edits' = edits + 1 /\ UNCHANGED moves /\ EditText
Spec == Init /\ [][Next]_vars

------------------------------------------------------------------------------
(* Properties.                                                             *)

(* Every variable has its type: the text never loses its last line         *)
(* (assert, TextEditor.cpp:543 and 569), and the undo buffer has one       *)
(* record for every text of the history but the first.                     *)
TypeOK ==
  /\ Len(mLines) > 0 /\ mLines \in Texts
  /\ mState \in [start : Coordinates, end : Coordinates, cursor : Coordinates]
  /\ interactive \in [start : Coordinates, end : Coordinates]
  /\ mUndoIndex \in 0 .. Len(mUndoBuffer)
  /\ Len(past) = Len(mUndoBuffer) + 1
  /\ clipboard \in Texts
  /\ mOverwrite \in BOOLEAN /\ exact \in BOOLEAN

(* Whatever was typed, deleted, cut, pasted, indented, undone and redone,  *)
(* in whatever order and with whatever selection, the text is the one that *)
(* was there at this place of the undo buffer -- unless one of the six     *)
(* operations was used whose record is wrong: pasting a tab or inside a    *)
(* tab, where InsertTextAt counts one column, backspace on a tab, delete   *)
(* with the cursor inside a tab, a new line that copies an indentation,    *)
(* overwriting with a selection, and taking the tabs from lines that get   *)
(* shorter than the selection, to which redo returns.                      *)
HistoryExact == exact => mLines = past[mUndoIndex + 1]

Named(range, lines) ==
  ~Before(range.end, range.start) /\ range.end.line < Len(lines)

(* What undo and redo would do next names lines of the text, in order      *)
(* (asserts of DeleteRange, TextEditor.cpp:208, and of UndoRecord), also   *)
(* after the operations whose records are wrong: they never index past the *)
(* text.                                                                   *)
RecordsFit ==
  /\ TypeOK
  /\ LET fits(undone, redone) ==
           LET left == IF undone.text = Nothing THEN mLines
                       ELSE DeleteRange(mLines, undone.start, undone.end)
           IN /\ undone.text = Nothing \/ Named(undone, mLines)
              /\ redone.text = Nothing \/ redone.start.line < Len(left)
     IN /\ mUndoIndex > 0 =>
             fits(mUndoBuffer[mUndoIndex].added, mUndoBuffer[mUndoIndex].removed)
        /\ mUndoIndex < Len(mUndoBuffer) =>
             fits(mUndoBuffer[mUndoIndex + 1].removed, mUndoBuffer[mUndoIndex + 1].added)

(* The selection that Copy, Cut and typing read lies in the text and is    *)
(* ordered (assert of DeleteSelection, TextEditor.cpp:1408), although the  *)
(* cursor may be below the last line, undo brings old selections back and  *)
(* deleting leaves an empty one behind where it was.                       *)
SelectionInText ==
  /\ ~Before(mState.end, mState.start)
  /\ HasSelection => Named(mState, mLines)

(* What is cut can be put back: the selected text, inserted where the      *)
(* cursor is left, makes the text it was -- unless redo has brought back a *)
(* selection behind the end of its line.                                   *)
CutPutsBack ==
  exact /\ HasSelection =>
    InsertTextAt(Remaining, SanitizeCoordinates(Remaining, Collapsed.cursor), GetSelectedText)
      = mLines

(* An edit touches no line but those of the selection and the cursor's,    *)
(* and the line before and behind it.                                      *)
EditsStayLocal ==
  [][LET cursor == GetActualCursorCoordinates.line
         first == IF HasSelection THEN mState.start.line ELSE cursor
         last == IF HasSelection THEN mState.end.line ELSE cursor
         behind == Len(mLines) - last - 2
     IN mUndoIndex' > mUndoIndex /\ mUndoBuffer' # mUndoBuffer =>
          /\ first > 1 => SubSeq(mLines', 1, first - 1) = SubSeq(mLines, 1, first - 1)
          /\ behind > 0 => SubSeq(mLines', Len(mLines') - behind + 1, Len(mLines'))
                             = SubSeq(mLines, Len(mLines) - behind + 1, Len(mLines))]_vars
=============================================================================

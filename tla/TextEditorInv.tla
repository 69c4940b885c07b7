---------------------------- MODULE TextEditorInv ----------------------------
(***************************************************************************)
(* The inductive invariant of TextEditor.  One part counts lines and holds *)
(* whatever was done: every record fits the texts of the two places of the *)
(* undo buffer it lies between.  The other compares texts and holds while  *)
(* "exact" does: undoing and redoing a record turn these texts into each   *)
(* other.                                                                  *)
(***************************************************************************)
EXTENDS TextEditor

Alphabet == Characters \cup {Blank, Tab}
States == [start : Coordinates, end : Coordinates, cursor : Coordinates]
Changes == [start : Coordinates, end : Coordinates, text : Texts \ {<<>>}]
Records == [added : Changes, removed : Changes, before : States, after : States]

\* A state that may be given to a text of n lines.
Selected(s) == Before(s.start, s.end)
StateFits(s, n) == ~Before(s.end, s.start) /\ (Selected(s) => s.end.line < n)

\* Taking "undone" out of n lines and putting "redone" in names lines that are
\* there, and leaves m lines at least.
Taken(c) == IF c.text = Nothing THEN 0 ELSE c.end.line - c.start.line
ChangeFits(undone, redone, n, m) ==
  /\ undone.text = Nothing \/ (~Before(undone.end, undone.start) /\ undone.end.line < n)
  /\ redone.text = Nothing \/ redone.start.line < n - Taken(undone)
  /\ m <= n - Taken(undone) + Len(redone.text) - 1
RecordFits(record, n, m) ==
  /\ ChangeFits(record.removed, record.added, n, m)
  /\ ChangeFits(record.added, record.removed, m, n)
  /\ StateFits(record.before, n) /\ StateFits(record.after, m)

\* The lines there are at least at each place of the buffer.  They may be more
\* than its records were made of: undo and redo of an overwritten selection add
\* lines each time.
RoomFor(room) ==
  /\ room[mUndoIndex] <= Len(mLines)
  /\ \A i \in 1 .. Len(mUndoBuffer) : RecordFits(mUndoBuffer[i], room[i - 1], room[i])
Room == \E room \in [0 .. Len(mUndoBuffer) -> Nat] : RoomFor(room)

Types ==
  /\ TypeOK
  /\ mUndoBuffer \in Seq(Records) /\ past \in Seq(Texts \ {<<>>})
  /\ clipboard # <<>>

\* A selection begins and ends before the end of its lines.
InColumns(s, lines) ==
  Selected(s) => /\ s.start.column <= GetLineMaxColumn(Line(lines, s.start.line))
                 /\ s.end.column <= GetLineMaxColumn(Line(lines, s.end.line))

\* A record between the texts "old" and "new".
Tells(record, old, new) ==
  /\ Revert(old, record.removed, record.added) = new
  /\ Revert(new, record.added, record.removed) = old
  /\ InColumns(record.before, old) /\ InColumns(record.after, new)

Exact ==
  /\ mLines = past[mUndoIndex + 1]
  /\ InColumns(mState, mLines)
  /\ \A i \in 1 .. Len(mUndoBuffer) : Tells(mUndoBuffer[i], past[i], past[i + 1])

Inv == Types /\ StateFits(mState, Len(mLines)) /\ Room /\ (exact => Exact)
=============================================================================

CONSTANTS
    a = a
    space = space
    tab = tab
    Characters = {a}
    Blank = space
    Tab = tab
    TabSize = 2
    Files <- MCFiles
    Clips <- MCClips
    AutoIndentation = TRUE
    Pages <- MCPages
    MaxEdits = 3
    MaxMoves = 1

SPECIFICATION Spec
CHECK_DEADLOCK FALSE

INVARIANTS
    HistoryExact
    RecordsFit
    SelectionInText
    CutPutsBack

PROPERTIES
    EditsStayLocal

CONSTANTS
    Width = 7
    NoFile = NoFile
    Uninitialized = Uninitialized
    Units <- Sources
    CommandLines <- Lines
    Disk <- Files

SPECIFICATION CompilerSpec

INVARIANTS
    TypeOK
    LexTiles
    ExpressionsTile
    OperatorsBind
    ReturnsItsMeaning
    TranslatesWhatIsNamed
    ExitTells

PROPERTIES
    ProgramProgresses

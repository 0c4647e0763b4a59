CONSTANTS
    Char <- MCChar
    Dot = "."
    Slash = "/"
    NUL = "NUL"
    Sizes <- MCSizes
    Texts <- MCTexts
    MaxAsked = 6
    MaxStray = 1
SPECIFICATION Spec
INVARIANTS
    TypeOK
    ShowsPrefix
    LossTells
    StrayIsPrintf
PROPERTY IsBoundedText

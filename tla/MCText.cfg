CONSTANTS
    SystemCalls <- MCSystemCalls
    Explanations <- MCExplanations
    Footnotes <- MCFootnotes
    Errors <- MCErrors
    Translations <- MCTranslations
    Sizes = {1, 2, 5, 8, 9, 10, 11, 12, 13, 14, 15, 16, 18, 22, 30}
    Space = " "
    Lead = "<"
    Trail = ">"
    NUL = "NUL"
    Widths = {5, 9}
    Indents <- MCIndents
    MAX_LINE_LENGTH = 6
SPECIFICATION Spec
INVARIANTS
    TypeOK
    ExplanationGivesWay
    NothingLost
    LinesFilled

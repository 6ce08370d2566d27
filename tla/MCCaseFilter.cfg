CONSTANTS
    Rows = {row1, row2}
    Letters <- MCLetters
    LowerCase <- MCLowerCase
    Texts <- MCTexts
SPECIFICATION Spec
INVARIANT VerbatimMatchShown
PROPERTY NarrowingOnly

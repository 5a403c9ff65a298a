CONSTANTS
    Cells <- SomeCells
    Displayed <- SomeDisplayed
    KeyValues = {4, 5}
    MaxTableRows = 2
    BlobLimits = {1, 4}
    NoBlobLimit = NoBlobLimit
    JsMax = 3
    I64Max = 7
    U64Max = 15
    Blank = Blank
SPECIFICATION Spec
INVARIANTS ShownCellsBindBack IdentityInsertCleared
PROPERTIES EditsAreExact InsertsAsGiven FetchesTheValue
CHECK_DEADLOCK FALSE

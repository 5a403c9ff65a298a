\* Batches of up to two statements with comments, literals and terminators in
\* odd places, and longer texts of one token after the other.  The short ones are
\* answered by up to two sets of up to three rows, against a ceiling of two; a
\* query of three rows is read in pages, of sizes from none to more than the
\* ceiling allows.  A request ends.
CONSTANTS
    Batches <- SomeBatches
    FewLength = 3
    MaxAnswered = 2
    MaxSets = 2
    MaxSetRows = 3
    Total = 3
    Orders <- SomeOrders
    PageSizes = {0, 1, 2, 4}
    MaxRows = 2
    U32Max = 4
    NoLimit = NoLimit
SPECIFICATION FairSpec
INVARIANTS ScannerReadsAsServer AdditionsAreRead Ceiling NothingLostUnmarked OwnFaultsOnly PagesTile
PROPERTY PagingEnds
CHECK_DEADLOCK FALSE

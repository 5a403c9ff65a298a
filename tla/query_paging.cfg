\* Queries that go on with comments, terminators and other queries.
CONSTANTS
    Batches <- QueryBatches
    FewLength = 0
    MaxAnswered = 2
    MaxSets = 1
    MaxSetRows = 2
    Total = 3
    Orders <- SomeOrders
    PageSizes = {1}
    MaxRows = 2
    U32Max = 7
    NoLimit = NoLimit
SPECIFICATION Spec
INVARIANT PagedRequestIsPaged
CHECK_DEADLOCK FALSE

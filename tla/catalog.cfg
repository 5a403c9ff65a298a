\* A schema of a parent and a child table, read once and edited once while
\* another client changes it.  A request and an edit end.
CONSTANTS
    None = None
    Tables = {1, 2}
    Shapes <- SomeShapes
    FirstTables <- SomeCatalogs
    Majors = {13, 18}
    NewColumns <- SomeColumns
    NewKeys <- SomeKeys
    ContextTables = 1
    MaxChanges = 1
SPECIFICATION Spec
CHECK_DEADLOCK FALSE
INVARIANTS SnapshotTruthful DialectUnderstood EditsAsAsked

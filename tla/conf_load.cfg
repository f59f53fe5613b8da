SPECIFICATION Spec
CONSTANTS
    Lines <- AllLines
    Tables <- TwoTables
    BufSize = 10
    MaxLines = 3
    MaxBlocks = 4
    Failing = {"section", "keyval"}
INVARIANTS TypeOK HeldOnce ScanStays
PROPERTIES LosesOnlyReplaced ImplementsConfFile
CHECK_DEADLOCK FALSE

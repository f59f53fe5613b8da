SPECIFICATION Spec
CONSTANTS
    Lines <- AllLines
    Tables <- TwoTables
    BufSize = 10
    MaxLines = 3
    MaxBlocks = 4
    Failing = {"section", "keyval"}
PROPERTY ExcessIgnored
CHECK_DEADLOCK FALSE

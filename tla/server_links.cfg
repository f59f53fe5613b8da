SPECIFICATION FairSpec
CONSTANTS
    MaxLinks = 2
    MaxFds = 2
    MaxBytes = 1
    MaxTasks = 4
    MaxOrders = 2
    Orders <- RunAndStop
    HaltTasks = 2
    BUFSIZE = 1
    ProcessTypes = {"echo"}
    Talking = {1}
    Closing = {1}
    Aborting = {1}
    Breaking = {1}
    Failing <- SomeFail
    Cancelling = {1, 3}
    ArgIsAddress = TRUE
INVARIANTS
    TypeOK
    AcceptDue
    NoDescriptorLeak
CHECK_DEADLOCK FALSE
PROPERTIES
    SoleTaskUnmarks
    AllAccepted
    WindsDown

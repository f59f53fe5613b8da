SPECIFICATION FairSpec
CONSTANTS
    MaxLinks = 1
    MaxFds = 1
    MaxBytes = 2
    MaxTasks = 5
    MaxOrders = 1
    Orders <- RunAndStop
    HaltTasks = 0
    BUFSIZE = 1
    ProcessTypes = {"null", "echo"}
    Talking = {1}
    Closing = {}
    Aborting = {}
    Breaking = {}
    Failing = {}
    Cancelling = {}
    ArgIsAddress = TRUE
PROPERTIES
    DataServed
CHECK_DEADLOCK FALSE

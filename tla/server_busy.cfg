SPECIFICATION Spec
CONSTANTS
    MaxLinks = 1
    MaxFds = 1
    MaxBytes = 2
    MaxTasks = 5
    MaxOrders = 1
    Orders <- RunAndStop
    HaltTasks = 0
    BUFSIZE = 1
    ProcessTypes = {"null"}
    Talking = {1}
    Closing = {1}
    Aborting = {}
    Breaking = {}
    Failing = {}
    Cancelling = {}
    ArgIsAddress = TRUE
INVARIANTS
    BusyHasTask
CHECK_DEADLOCK FALSE

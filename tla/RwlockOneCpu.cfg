CONSTANTS
    Readers = {r1}
    Writers = {w1}
    Cpus = 1
    Values = {1}
    MaxJiffies = 1
CHECK_DEADLOCK FALSE
SPECIFICATION FairSpec
PROPERTIES HandlerReturns

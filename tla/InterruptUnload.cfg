CONSTANTS
    Procs = {p1}
    MaxOpens = 2
SPECIFICATION Spec
INVARIANTS TimerStopped

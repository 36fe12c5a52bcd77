\* Enough expiries, rounds and writes for every item to be pending while it
\* runs and while rmmod is under way; a clock that wraps.
SPECIFICATION Spec
CONSTANTS
    Procs = {p1, p2}
    MaxOpens = 3
    MaxRounds = 2
    MaxWrites = 2
    MaxFires = 3
    MaxExpiries = 3
    WorkCpus = {c1, c2}
    MaxRuns = 4
    Writers = {w1}
    Viewers = {v1}
    MaxIrqs = 3
    Rearms = 2
    CpuCount = 2
    Width = 16
    Later = 3
    Future = 2
INVARIANTS TypeOK OnlyKnownLeaks RunsWereAskedFor ShownTogether HandlersRight
PROPERTY NoneWaitsForever

CONSTANTS
    Procs = {p1, p2, p3}
    MAX_RETRIES = 3
    NoOwner = NoOwner
SPECIFICATION FairSpec
INVARIANTS TypeOK CriticalExclusive SecondTrylockSucceeds NoLockLeaked
PROPERTIES ReadReturns

\* Two processes on the spinlock; two readers and a writer of the rwlock, with
\* a CPU each; two processes on the ioctl device, with a string that fits and one
\* as long as the array.
SPECIFICATION MCSpec
CONSTANTS
    Procs = {p1, p2}
    Values = {1, 2}
    MaxOps = 3
    Readers = {r1, r2}
    Writers = {w1}
    Cpus = 3
    RwValues = {1}
    MaxJiffies = 1
    IntValues = {0, 1}
    Lengths = {1, 3}
    DEFAULT_VALUE = 0
    DEFAULT_LENGTH = 2
    MAX_STRING_SIZE = 3
INVARIANTS TypeOK SnapshotConsistent OpenFilesPin
PROPERTIES ImplementsCountedRegister ImplementsAtomicDevice HandlerReturns

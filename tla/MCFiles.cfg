\* Two writers and a viewer, on counters that wrap at 4 and on a log of two
\* entries that overflows; a command beside the first test; two readers and a
\* writer of the hello file; two stores of up to two bytes; two processes on
\* two files of two bytes; a run of the ioctl program beside another process,
\* with a string that fits and one as long as the array.
SPECIFICATION MCSpec
CONSTANTS
    Users = {u1, u2}
    Procs = {u1, u2}
    Viewers = {v1}
    Commander = c0
    Ops = {"inc", "sub", "xchg", "cmpxchg", "unknown", "ref_get", "ref_put", "large_add",
           "test_and_change", "set_bit", "clear"}
    Args = {3}
    Half = 4
    MaxOps = 3
    MAX_LOG_ENTRIES = 2
    InitialEntries = 1
    MaxAdds = 4
    Loader = l0
    ArraySize = 2
    MaxCommands = 1
    QUEUE_SIZE = 2
    Chars = {1}
    StringSize = 3
    Names = {"testfile", "other"}
    Dentries = {d1, d2}
    Inodes = {i1, i2}
    Size = 2
    IntValues = {0, 1}
    Lengths = {1, 3}
    DEFAULT_VALUE = 0
    DEFAULT_LENGTH = 2
    MAX_STRING_SIZE = 3
    Testers = {u1}
    TestValue = 1
    TestLength = 1
INVARIANTS
    MCTypeOK AtomicsAgree LogInOrder AllFreedOnce OutlivesCalls
    UndisturbedIsWhole TextTerminated ReferencesAddUp TestAnswersRight

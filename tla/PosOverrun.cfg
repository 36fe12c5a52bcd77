\* Two writers race for the last slot; the reader follows log_count.
SPECIFICATION Spec
CONSTANTS
    Writers = {w1, w2}
    Readers = {r1}
    MAX_LOG_ENTRIES = 2
    InitialEntries = 1
    MaxAdds = 4
INVARIANTS EntryInLog

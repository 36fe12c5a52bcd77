CONSTANTS
    MaxFires = 1
SPECIFICATION Spec
INVARIANTS EntryRemoved

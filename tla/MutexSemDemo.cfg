\* Two mutex readers and a status reader; two readers for one permit.
SPECIFICATION MCSpec
CONSTANTS
    MutexReaders = {101, 102}
    SemReaders = {11, 12}
    StatusReaders = {21}
    MAX_RESOURCES = 1
    MaxData = 4
    MaxId = 3
INVARIANTS TypeOK CopyStaysCurrent NoLostUpdate PermitsConserved UsersWithinPool
PROPERTIES WaiterServed

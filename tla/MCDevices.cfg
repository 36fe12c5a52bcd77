\* A run of the netlink test beside another client; two clients of the shared
\* memory; two processes on a mapped device of two pages, one of which maps it
\* one page in, so that a fault finds a page and a fault goes past the end; two
\* submitters of requests on three sectors.
SPECIFICATION Spec
CONSTANTS
    Testers = {t1}
    Others = {o1}
    OtherTypes = {"HELLO", "other"}
    Kernel = k0
    SocketRoom = 2
    MaxHellos = 2
    Procs = {p1, p2}
    Messages = {m1, m2}
    MaxCount = 3
    Callers = {p1, p2}
    NPages = 2
    Pgoffs = {1}
    Mappers = {p1}
    MaxCalls = 2
    Sectors = 3
    Tags = {w1}
    Shapes <- BlockShapes
INVARIANTS
    TypeOK AnswersRight TransfersWhole OrderlyUnload NetlinkRight MappedDeviceRight
PROPERTIES CallsReturn

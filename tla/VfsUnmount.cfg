\* Two processes on the mounted file system; the first unmount of a file that
\* lookup made up shows it.
SPECIFICATION Spec
CONSTANTS
    Procs = {p1, p2}
    Names = {"testfile", "other"}
    Dentries = {d1, d2}
    Inodes = {i1, i2}
    Size = 2
INVARIANTS InodesCleanedUp

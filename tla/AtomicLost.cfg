CONSTANTS
    Writers = {w1, w2}
    Viewers = {}
    Ops = {"ref_get", "ref_put"}
    Args = {0}
    Half = 5
    MaxOps = 4
SPECIFICATION Spec
INVARIANTS RefUpdatesKept

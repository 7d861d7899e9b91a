CONSTANTS
    Path <- MCPath
    Root = "/"
    Up <- MCUp
    c1 = c1
    c2 = c2
    Client = {c1, c2}
    MaxRev = 4
    MaxIno = 4
    MaxRefs = 1
    SoftLimit = 1
    Case <- MCCase
SPECIFICATION Spec
CHECK_DEADLOCK FALSE
INVARIANTS TableSound Mirror
PROPERTIES LocalWins RemovedOnlyIfGone RoundReconciles

CONSTANTS
    Path <- MCPath
    Root = "/"
    Up <- MCUp
    c1 = c1
    c2 = c2
    Client = {c1, c2}
    MaxRev = 3
    MaxIno = 4
    MaxRefs = 1
    SoftLimit = 1
    Case <- MCProgress
SPECIFICATION FairSpec
CHECK_DEADLOCK FALSE
PROPERTIES CatchesUp

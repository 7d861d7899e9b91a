CONSTANTS
    c1 = c1
    c2 = c2
    Ino = {1}
    Remote = {}
    Client <- TwoClients
    MaxContent = 2
    MaxGen = 2
    MaxSignals = 1
    HasBudget = FALSE
    Calls = {"create", "open", "write", "setattr", "fsync", "unlink", "poll", "requeue", "flush"}
SPECIFICATION Spec
SYMMETRY ClientSymmetry
INVARIANTS CacheIsCurrent DirtyHasBytes NothingForgotten
PROPERTIES UploadNotTruncated
CHECK_DEADLOCK FALSE

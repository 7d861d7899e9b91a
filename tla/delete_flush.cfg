CONSTANTS
    Path = {p, q}
    Client = {c1, c2}
    Flusher <- Flushers
    MaxQueued = 3
SPECIFICATION FairSpec
INVARIANTS NoDeleteLost ZeroMeansDone WaitsOnlyWhenRefused
PROPERTIES ShutdownEnds DeletesAreTried
CHECK_DEADLOCK FALSE

CONSTANTS
    p1 = p1
    p2 = p2
    p3 = p3
    t1 = t1
    t2 = t2
    f1 = f1
    f2 = f2
    Monitor = Monitor
    NONE = NONE
    Thread <- MCThread
    Target <- MCTarget
    Mount <- MCMount
    File <- MCFile
    Client = {1, 2}
    MaxFailed = 1
    Case <- MCCase
SPECIFICATION FairSpec
CHECK_DEADLOCK FALSE
INVARIANTS RegistrySound NothingDiscarded NoSilentLoss
PROPERTIES RequestsEnd ImplementsVolumes

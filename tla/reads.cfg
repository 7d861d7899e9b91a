CONSTANTS
    r1 = r1
    r2 = r2
    w1 = w1
    w2 = w2
    h8 = h8
    h3 = h3
    h2 = h2
    InitialWindow = 2
    MaxWindow = 4
    SeekWindow = 2
    ForwardSkip = 2
    Hash = {h8, h3, h2}
    SizeOf <- MCSizeOf
    Capacity = 4
    Mount = {"m1", "m2"}
    Task <- MCTask
    MaxPopulates = 1
    Caller = {r1, r2, w1}
    Terms <- MCTerms
    MaxPlans = 1
    Opener = {"o1", "o2"}
    Version = {1, 2}
    Ino = {1, 2}
    Reader = {r1, r2}
    Worker = {w1, w2}
    MaxRead = 3
    MaxChunk = 3
    MaxAttempts = 2
    Case <- MCCase
SPECIFICATION Spec
CHECK_DEADLOCK FALSE
INVARIANTS ReadsExact CacheSound PlansSound HttpIsCurrent
PROPERTIES ReadersAreServed

CONSTANTS
    c1 = c1
    c2 = c2
    Ino = {1, 2}
    Remote = {1, 2}
    Client <- OneClient
    MaxContent = 1
    MaxGen = 1
    MaxSignals = 2
    HasBudget = TRUE
    Calls = {"open", "unlink", "setattr"}
SPECIFICATION FairSpec
PROPERTIES CallsReturn UnattendedSettles
CHECK_DEADLOCK FALSE

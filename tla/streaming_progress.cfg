CONSTANTS
    c1 = c1
    c2 = c2
    Client <- TwoClients
    Handle = {1, 2}
    MaxWrites = 2
    Remote = {FALSE}
    Events = {"link", "worker_fails", "ghost", "shadowed"}
SPECIFICATION FairSpec
PROPERTIES CallsReturn
CHECK_DEADLOCK FALSE

CONSTANTS
    c1 = c1
    c2 = c2
    Client <- TwoClients
    Handle = {1, 2}
    MaxWrites = 2
    Remote = {TRUE, FALSE}
    Events = {"unlink", "drain", "worker_fails"}
SPECIFICATION Spec
SYMMETRY ClientSymmetry
INVARIANTS CommittedIsStored WritersSound CleanIsCommitted NoResurrection DrainKeepsAll
CHECK_DEADLOCK FALSE

CONSTANTS
    a = a
    b = b
    d = d
    c1 = c1
    c2 = c2
    NoPath = NoPath
    Path = {a, b, d}
    Client = {c1, c2}
    Ino = {1, 2, 3}
    Flusher <- Flushers
    MaxContent = 2
    MaxGen = 2
    Case <- MCCase
SPECIFICATION Spec
INVARIANTS InSync NamesSound
CHECK_DEADLOCK FALSE

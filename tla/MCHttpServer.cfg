CONSTANTS
    Conns = {c1, c2, c3}
    Threads = 2
    Timeout = 0
SYMMETRY Symmetry
SPECIFICATION Spec
INVARIANTS TypeOK OneActivity ManagedIsLive NoneEscapes ClosedOnce CleanExit
PROPERTIES ReplyStable

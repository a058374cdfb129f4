CONSTANTS
    Conns = {c1, c2}
    Threads = 2
    Timeout = 1
SPECIFICATION Spec
PROPERTY NotTimedOutWhenAccepted

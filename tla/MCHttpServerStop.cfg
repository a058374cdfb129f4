CONSTANTS
    Conns = {c1, c2}
    Threads = 2
    Timeout = 0
SPECIFICATION FairSpec
PROPERTY StopAlwaysTerminates

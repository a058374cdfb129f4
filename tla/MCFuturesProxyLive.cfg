CONSTANTS
    Threads = {t1, t2}
    Requests = {r1, r2}
    Clients = {c1, c2, c3, c4}
    Apis <- OneKind
    NoThread = NoThread
    NoRequest = NoRequest
    NoClient = NoClient
    RetryTimes = 1
    CallTimes = 1
SPECIFICATION FairSpec
PROPERTY Replied

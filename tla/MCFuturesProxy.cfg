CONSTANTS
    Threads = {t1, t2}
    Requests = {r1, r2}
    Clients = {c1, c2, c3, c4}
    Apis <- TwoKinds
    NoThread = NoThread
    NoRequest = NoRequest
    NoClient = NoClient
    RetryTimes = 2
    CallTimes = 1
SYMMETRY Symmetry
SPECIFICATION Spec
INVARIANTS TypeOK Exclusive PooledIsClean OwnAnswer AtMostOnce OrdersAuthorised
    ReplyIsTrue OrderReplyIsFinal
PROPERTY ImplementsOrderService

CONSTANTS
    Threads = {t1}
    Requests = {r1, r2}
    Clients = {c1, c2}
    Apis <- AllApis
    NoThread = NoThread
    NoRequest = NoRequest
    NoClient = NoClient
    RetryTimes = 1
    CallTimes = 1
SYMMETRY Symmetry
SPECIFICATION Spec
INVARIANT PoolBounded
PROPERTY ImplementsOrderService

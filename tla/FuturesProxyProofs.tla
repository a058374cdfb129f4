------------------------- MODULE FuturesProxyProofs -------------------------
(***************************************************************************)
(* The safety properties of FuturesProxy hold for any number of threads,   *)
(* requests and clients, any set of handlers and any retry counts.         *)
(***************************************************************************)
EXTENDS FuturesProxy, FiniteSetTheorems, TLAPS

\* The requests that pass the checks a handler makes before it calls a server.
Accepted == {q \in RequestRecord : Immediate(q) = {}}

\* Request r passed those checks and the validation of its session.
Authorised(r) == req[r] \in Accepted /\ (Handler(r).validate => req[r].valid)

\* Connection c carries nothing.
Clean(c) == (\A m \in sent : m.chan # c) /\ (\A a \in answers : a.chan # c)

\* The attempt thread t made last.
Last(t) == Budget(cur[t], svc[t]) - tries[t]

\* What a thread has, at each place of its handler.
ThreadOK(t) ==
    /\ pc[t] = "idle" <=> cur[t] = NoRequest
    /\ pc[t] \in {"idle", "get"} <=> cl[t] = NoClient
    /\ pc[t] # "idle" =>
          /\ req[cur[t]] \in Accepted /\ reply[cur[t]] = "none"
          /\ svc[t] = "trade" => Authorised(cur[t])
          /\ \A u \in Threads : u # t => cur[u] # cur[t]
    /\ pc[t] \in {"call", "wait", "free"} => tries[t] <= Budget(cur[t], svc[t])
    /\ pc[t] \in {"wait", "free"} => tries[t] < Budget(cur[t], svc[t])
ThreadInv == \A t \in Threads : ThreadOK(t)

\* A pool's mutex is held by the thread that constructs a client.
MutexInv ==
    \A s \in Services, t \in Threads :
        m_clients_mutex[s] = t <=> pc[t] = "new" /\ svc[t] = s

\* A request that was not received has no reply.
AbsentInv == \A r \in Requests : req[r] = Absent => reply[r] = "none"

\* A client nobody uses has no connection that could carry anything.
UnusedIsClean == \A c \in Clients : Unused(c) => Clean(c)

\* What the connection of a client in use carries: nothing, unless its user
\* waits or the connection is to be replaced; a waiting thread's connection
\* carries its last attempt, or the one answer to it, and nothing else.
ClientOK(t) ==
    /\ pc[t] \in {"new", "free"} => Clean(cl[t])
    /\ pc[t] = "free" => m_is_inited[cl[t]]
    /\ pc[t] = "call" /\ m_is_inited[cl[t]] => Clean(cl[t])
    /\ pc[t] = "wait" =>
          /\ m_is_inited[cl[t]]
          /\ \A m \in sent : m.chan = cl[t] =>
                /\ m.req = cur[t] /\ m.svc = svc[t] /\ m.n = Last(t)
                /\ \A a \in answers : a.chan # cl[t]
          /\ \A a \in answers : a.chan = cl[t] =>
                /\ a.req = cur[t] /\ a.svc = svc[t] /\ a.n = Last(t)
                /\ \A b \in answers : b.chan = cl[t] => b = a
ClientInv == \A t \in Threads : ClientOK(t)

\* The same attempt.
Same(k, m) == k.req = m.req /\ k.svc = m.svc /\ k.n = m.n

\* A message is an attempt that was made, is there once, and is not executed.
MessageInv ==
    /\ \A m \in sent :
          /\ req[m.req] # Absent
          /\ m.n \in 1 .. Budget(m.req, m.svc)
          /\ m.svc = "trade" => Authorised(m.req) /\ m.n \notin executed[m.req]
    /\ \A m, k \in sent : Same(m, k) => m = k
    /\ \A a \in answers :
          /\ req[a.req] # Absent
          /\ \A m \in sent : ~Same(m, a)
          /\ a.svc = "trade" => (a.ok <=> a.n \in executed[a.req])
          /\ a.svc = "authen" /\ a.ok => req[a.req].valid

\* Only what was authorised has been executed, within the budget.
ExecutedInv ==
    \A r \in Requests : executed[r] # {} =>
        Authorised(r) /\ executed[r] \subseteq 1 .. Budget(r, "trade")

\* How far the attempts of a thread's request can have got: none of a call that
\* is still to be made, none after the last, and after an answer the last one is
\* settled.
ProgressOK(t) ==
    pc[t] # "idle" =>
        /\ svc[t] = "authen" \/ pc[t] \in {"get", "new"} =>
              /\ executed[cur[t]] = {}
              /\ \A m \in sent \cup answers : m.req = cur[t] => m.svc # "trade"
        /\ svc[t] = "authen" /\ pc[t] \in {"get", "new"} =>
              \A m \in sent \cup answers : m.req # cur[t]
        /\ pc[t] \in {"call", "wait", "free"} =>
              /\ \A m \in sent \cup answers :
                    m.req = cur[t] /\ m.svc = svc[t] => m.n <= Last(t)
              /\ svc[t] = "trade" => \A n \in executed[cur[t]] : n <= Last(t)
        /\ pc[t] = "free" =>
              /\ \A m \in sent : m.req = cur[t] /\ m.svc = svc[t] => m.n # Last(t)
              /\ svc[t] = "trade" => (verdict[t] <=> Last(t) \in executed[cur[t]])
              /\ svc[t] = "authen" /\ verdict[t] => req[cur[t]].valid
ProgressInv == \A t \in Threads : ProgressOK(t)

\* The inductive invariant.
Inv ==
    /\ TypeOK /\ ThreadInv /\ MutexInv /\ AbsentInv /\ Exclusive
    /\ PooledIsClean /\ UnusedIsClean /\ ClientInv
    /\ MessageInv /\ ExecutedInv /\ ProgressInv /\ ReplyIsTrue /\ OrderReplyIsFinal

-----------------------------------------------------------------------------

\* ReplyIsTrue and OrderReplyIsFinal for one request.
TrueOK(r) ==
    /\ reply[r] = "SUCCESS" /\ Handler(r).remote => executed[r] # {}
    /\ reply[r] \in {"REQ_ERR", "SESSION_ERR"}
          => executed[r] = {} /\ \A m \in sent : m.req = r => m.svc # "trade"
FinalOK(r) ==
    CallTimes = 1 => (IsOrder(r) /\ reply[r] \notin {"none", "INFO_BUSY"} =>
        /\ \A m \in sent : m.req = r => m.svc # "trade"
        /\ executed[r] # {} => reply[r] = "SUCCESS")

\* The shape of an entry of Handlers.
HandlerRecord ==
    [session : BOOLEAN, signed : BOOLEAN, validate : BOOLEAN, remote : BOOLEAN,
     rpc : [tries : Nat, order : BOOLEAN], err : {"RETURN_ERR", "TRADE_ERR"},
     local : SUBSET {"SUCCESS", "INFO_BUSY", "UNKNOWN"}]

\* What the proofs use of an entry: its types; a handler that calls the trade
\* server replies nothing locally; a call that changes orders is tried CallTimes
\* times and made with a validated session only.
WellFormed(h) ==
    /\ h \in HandlerRecord
    /\ h.remote <=> h.local = {}
    /\ h.rpc.order => h.rpc.tries = CallTimes /\ h.session /\ h.validate /\ h.remote

\* Every entry of Handlers is well formed.
LEMMA HandlersFacts == \A a \in AllApis : WellFormed(Handlers[a])
<1> USE TimesAssumption DEF WellFormed, HandlerRecord
<1>1. WellFormed(Validated(Read)) /\ WellFormed(Trusting(Read))
      BY DEF Validated, Trusting, Remote, Read
<1>2. WellFormed(Validated(Write)) /\ WellFormed(Remote(TRUE, TRUE, Write, "TRADE_ERR"))
      BY DEF Validated, Remote, Write
<1>3. /\ WellFormed(Local(TRUE, {"SUCCESS"})) /\ WellFormed(Local(FALSE, {"SUCCESS"}))
      /\ WellFormed(Local(FALSE, {"SUCCESS", "INFO_BUSY", "UNKNOWN"}))
      BY DEF Local, NoRpc
<1> HIDE DEF WellFormed, HandlerRecord
<1>4. /\ WellFormed(QueryMyFuturesAssets) /\ WellFormed(QueryUserStatus)
      /\ WellFormed(QueryPendingOrders) /\ WellFormed(QueryHoldingOrders)
      /\ WellFormed(QueryOrderDetail) /\ WellFormed(QueryTransactionRecord)
      /\ WellFormed(QueryHistoryOrders) /\ WellFormed(TradeConfirmInfo)
      /\ WellFormed(QuerySymbolTradeInfo)
      BY <1>1, Zenon
      DEF QueryMyFuturesAssets, QueryUserStatus, QueryPendingOrders,
          QueryHoldingOrders, QueryOrderDetail, QueryTransactionRecord,
          QueryHistoryOrders, TradeConfirmInfo, QuerySymbolTradeInfo, GetAccInfo,
          GetUserAccountStatus, GetActiveOrder, GetPosition, GetOrderByNo,
          GetFundInOutRecord, GetHisOrder, GetFuturesQuoteFeeInfo
<1>5. WellFormed(FuturesTrade) /\ WellFormed(CancelPendingOrder)
      BY <1>2, Zenon DEF FuturesTrade, CancelPendingOrder, AddOrder, DeleteOrder
<1>6. /\ WellFormed(QueryFuturesAccountConfig) /\ WellFormed(SymbolTypeRecommend)
      /\ WellFormed(SymbolListByType) /\ WellFormed(QuerySymbolByName)
      /\ WellFormed(QueryFifthOrder) /\ WellFormed(QuerySymbolQuotations)
      /\ WellFormed(FuturesGraph) /\ WellFormed(FuturesKLine)
      BY <1>3, Zenon
      DEF QueryFuturesAccountConfig, SymbolTypeRecommend, SymbolListByType,
          QuerySymbolByName, QueryFifthOrder, QuerySymbolQuotations, FuturesGraph,
          FuturesKLine
<1>q. QED
      BY <1>4, <1>5, <1>6 DEF AllApis, Handlers

\* "none" is no handler.
LEMMA AbsentIsNoRequest == Absent \notin RequestRecord
  BY ApisAssumption DEF Absent, RequestRecord, AllApis, Handlers

\* What Accepted is.
LEMMA AcceptedFacts ==
  /\ Accepted \subseteq RequestRecord /\ Absent \notin Accepted
  /\ \A q \in RequestRecord : Immediate(q) = {} => q \in Accepted
  BY AbsentIsNoRequest DEF Accepted

\* What a handler may reply at once.
LEMMA ImmediateFacts ==
  ASSUME NEW q \in RequestRecord
  PROVE  /\ Immediate(q) \subseteq Codes
         /\ "SUCCESS" \in Immediate(q) => ~Handlers[q.api].remote
<1>1. q.api \in AllApis /\ WellFormed(Handlers[q.api])
      BY HandlersFacts, ApisAssumption DEF RequestRecord
<1>q. QED
      BY <1>1 DEF WellFormed, HandlerRecord, Immediate, Codes

\* An accepted request for an order carries a session, and a good signature if
\* its handler asks for one.
LEMMA AcceptedOrder ==
  ASSUME NEW q \in Accepted, Handlers[q.api].rpc.order
  PROVE  q.session /\ (Handlers[q.api].signed => q.signed) /\ Handlers[q.api].validate
<1>1. q.api \in AllApis /\ WellFormed(Handlers[q.api])
      BY HandlersFacts, ApisAssumption DEF RequestRecord, Accepted
<1>q. QED
      BY <1>1 DEF WellFormed, HandlerRecord, Immediate, Accepted, RequestRecord

\* The handler of a received request, and its retry counts.
LEMMA HandlerOf ==
  ASSUME TypeOK, NEW r \in Requests, req[r] # Absent
  PROVE  WellFormed(Handler(r)) /\ \A s \in Services : Budget(r, s) \in Nat
  BY HandlersFacts, ApisAssumption, TimesAssumption
  DEF TypeOK, RequestRecord, Handler, Budget, WellFormed, HandlerRecord

\* What a busy thread works with.
BusyFacts(t) ==
    /\ pc[t] # "idle" /\ svc[t] \in Services
    /\ cur[t] \in Requests /\ req[cur[t]] \in Accepted /\ req[cur[t]] # Absent
    /\ reply[cur[t]] = "none" /\ WellFormed(Handler(cur[t]))
    /\ RetryTimes \in Nat /\ Handler(cur[t]).rpc.tries \in Nat
    /\ Handler(cur[t]).err \in {"RETURN_ERR", "TRADE_ERR"}
    /\ Budget(cur[t], svc[t]) \in Nat
    /\ pc[t] # "get" => cl[t] \in Clients

\* A thread past idle is busy with such a request.
LEMMA Busy ==
  ASSUME Inv, NEW t \in Threads, pc[t] # "idle"
  PROVE  BusyFacts(t)
<1>1. cur[t] \in Requests /\ req[cur[t]] \in Accepted /\ reply[cur[t]] = "none"
      BY DEF Inv, TypeOK, ThreadInv, ThreadOK
<1>2. svc[t] \in Services /\ (pc[t] # "get" => cl[t] \in Clients)
      BY DEF Inv, TypeOK, ThreadInv, ThreadOK
<1>3. req[cur[t]] # Absent
      BY <1>1, AcceptedFacts
<1>4. WellFormed(Handler(cur[t])) /\ Budget(cur[t], svc[t]) \in Nat
      BY <1>1, <1>2, <1>3, HandlerOf DEF Inv
<1>q. QED
      BY <1>1, <1>2, <1>3, <1>4, TimesAssumption
      DEF BusyFacts, WellFormed, HandlerRecord

\* Closing the connection of c: the messages stay, none is on c any more.
LEMMA OrphanedFacts ==
  ASSUME TypeOK, NEW c \in Clients
  PROVE  /\ Orphaned(c) \subseteq Message
         /\ \A k \in Orphaned(c) : k.chan # c /\ \E m \in sent : Same(m, k)
         /\ \A k \in Orphaned(c) : k.chan = NoClient \/ k \in sent
         /\ (\A m, j \in sent : Same(m, j) => m = j)
               => \A k, l \in Orphaned(c) : Same(k, l) => k = l
<1>1. /\ Orphaned(c) \subseteq Message
      /\ \A k \in Orphaned(c) : k.chan # c /\ \E m \in sent : Same(m, k)
      BY NoneAssumption DEF Orphaned, TypeOK, Message, Same
<1>2. ASSUME \A m, j \in sent : Same(m, j) => m = j,
             NEW k \in Orphaned(c), NEW l \in Orphaned(c), Same(k, l)
      PROVE  k = l
      BY <1>2 DEF Orphaned, TypeOK, Message, Same
<1>3. ASSUME NEW k \in Orphaned(c), k.chan # NoClient PROVE k \in sent
  <2>1. PICK m \in sent : k = [req |-> m.req, svc |-> m.svc, n |-> m.n,
                               chan |-> IF m.chan = c THEN NoClient ELSE m.chan]
        BY DEF Orphaned
  <2>2. m = [req |-> m.req, svc |-> m.svc, n |-> m.n, chan |-> m.chan]
        BY DEF TypeOK, Message
  <2>q. QED
        BY <1>3, <2>1, <2>2
<1>q. QED
      BY <1>1, <1>2, <1>3

-----------------------------------------------------------------------------
(* What a step of thread t leaves alone *)

\* The other threads' places in their handlers.
LEMMA OtherThread ==
  ASSUME Inv, NEW t \in Threads, BusyFacts(t), NEW u \in Threads, u # t,
         UNCHANGED <<req, pc[u], cur[u], svc[u], cl[u], tries[u]>>,
         cur' \in [Threads -> Requests \cup {NoRequest}],
         \A v \in Threads : cur'[v] = cur[v] \/ cur'[v] = NoRequest,
         \A r \in Requests : r # cur[t] => reply'[r] = reply[r]
  PROVE  ThreadOK(u)'
<1>1. ThreadOK(u) /\ ThreadOK(t) /\ cur[u] \in Requests \cup {NoRequest}
      BY DEF Inv, ThreadInv, TypeOK
<1>2. pc[u] # "idle" => cur[u] # cur[t] /\ cur[u] # NoRequest /\ cur[u] \in Requests
      BY <1>1 DEF ThreadOK, BusyFacts
<1>q. QED
      BY <1>1, <1>2 DEF ThreadOK, Authorised, Budget, Handler

\* What their connections carry.
LEMMA OtherClient ==
  ASSUME Inv, NEW u \in Threads,
         UNCHANGED <<req, pc[u], cur[u], svc[u], cl[u], tries[u]>>,
         cl[u] \in Clients => m_is_inited'[cl[u]] = m_is_inited[cl[u]],
         \A m \in sent' : m.chan = cl[u] => m \in sent \/ cl[u] = NoClient,
         \A a \in answers' : a.chan = cl[u] => a \in answers
  PROVE  ClientOK(u)'
<1>1. ClientOK(u) /\ (pc[u] \notin {"idle", "get"} => cl[u] \in Clients /\ cl[u] # NoClient)
      BY NoneAssumption DEF Inv, ClientInv, ThreadInv, ThreadOK, TypeOK
<1>q. QED
      BY <1>1 DEF ClientOK, Clean, Last, Budget, Handler

\* How far their requests are.
LEMMA OtherProgress ==
  ASSUME Inv, NEW u \in Threads,
         UNCHANGED <<req, pc[u], cur[u], svc[u], tries[u], verdict[u]>>,
         executed'[cur[u]] = executed[cur[u]],
         \A m \in sent' : m.req = cur[u] => \E k \in sent : Same(k, m),
         \A a \in answers' : a.req = cur[u] => a \in answers
  PROVE  ProgressOK(u)'
<1>1. ProgressOK(u)
      BY DEF Inv, ProgressInv
<1>q. QED
      BY <1>1 DEF ProgressOK, Same, Last, Budget, Handler

\* What was said to a client about request r.
LEMMA OtherReply ==
  ASSUME Inv, NEW r \in Requests,
         UNCHANGED <<req, reply[r], executed>>,
         \A m \in sent' : m.req = r => reply[r] = "none" \/ \E k \in sent : Same(k, m)
  PROVE  TrueOK(r)' /\ FinalOK(r)'
<1>1. TrueOK(r) /\ FinalOK(r)
      BY DEF Inv, ReplyIsTrue, OrderReplyIsFinal, TrueOK, FinalOK
<1>q. QED
      BY <1>1 DEF TrueOK, FinalOK, IsOrder, Handler, Same

\* A step that does not touch the network leaves all that is said of it.
LEMMA NetFrame ==
  ASSUME Inv, UNCHANGED <<req, reply, sent, answers, executed>>
  PROVE  MessageInv' /\ ExecutedInv' /\ ReplyIsTrue' /\ OrderReplyIsFinal' /\ AbsentInv'
  BY DEF Inv, MessageInv, ExecutedInv, ReplyIsTrue, OrderReplyIsFinal,
         AbsentInv,
         IsOrder, Authorised, Budget, Handler

\* Fewer messages, or the same on no connection, are as good.
LEMMA FewerMessages ==
  ASSUME Inv, UNCHANGED <<req, executed>>, answers' \subseteq answers,
         \A m \in sent' : \E k \in sent : Same(k, m),
         \A m, k \in sent' : Same(m, k) => m = k
  PROVE  MessageInv'
<1>1. MessageInv
      BY DEF Inv
<1>2. ASSUME NEW m \in sent'
      PROVE  /\ req[m.req] # Absent
             /\ m.n \in 1 .. Budget(m.req, m.svc)
             /\ m.svc = "trade" => Authorised(m.req) /\ m.n \notin executed[m.req]
             /\ \A a \in answers : ~Same(m, a)
      BY <1>1 DEF MessageInv, Same
<1>3. \A r, s : Budget(r, s)' = Budget(r, s) /\ (Authorised(r)' <=> Authorised(r))
      BY DEF Budget, Authorised, Handler
<1>q. QED
      BY <1>1, <1>2, <1>3 DEF MessageInv

-----------------------------------------------------------------------------
(* One lemma per action *)

\* A pooled client is taken: it is clean, and nobody else can have it.
LEMMA GetClientPtrStep ==
  ASSUME Inv, NEW t \in Threads, GetClientPtr(t)
  PROVE  Inv'
<1>b. BusyFacts(t)
      BY Busy DEF GetClientPtr
<1>1. TypeOK'
      BY <1>b DEF Inv, TypeOK, BusyFacts, Codes, Message, GetClientPtr, netVars
<1>2. ThreadInv'
  <2>1. ThreadOK(t)'
        BY <1>b, NoneAssumption
        DEF Inv, TypeOK, ThreadInv, ThreadOK, BusyFacts, Authorised, Budget,
            Handler, GetClientPtr, netVars
  <2>2. ASSUME NEW u \in Threads, u # t PROVE ThreadOK(u)'
        BY <1>b, <1>1, <2>2, OtherThread DEF Inv, TypeOK, GetClientPtr, netVars
  <2>q. QED
        BY <2>1, <2>2 DEF ThreadInv
<1>3. MutexInv'
      BY <1>b, NoneAssumption
      DEF Inv, TypeOK, ThreadInv, ThreadOK, MutexInv, BusyFacts, GetClientPtr,
          netVars
<1>4. Exclusive'
      BY <1>b, NoneAssumption
      DEF Inv, TypeOK, ThreadInv, ThreadOK, Exclusive, Unused, BusyFacts,
          Services, GetClientPtr, netVars
<1>5. PooledIsClean'
      BY <1>b, NoneAssumption
      DEF Inv, TypeOK, Exclusive, PooledIsClean, ClientInv, ClientOK, Clean,
          BusyFacts, Unused, Services, GetClientPtr, netVars
<1>6. UnusedIsClean'
      BY <1>b, NoneAssumption
      DEF Inv, TypeOK, ThreadInv, ThreadOK, Exclusive, PooledIsClean,
          UnusedIsClean, Unused, ClientInv, ClientOK, Clean, BusyFacts,
          Services, GetClientPtr, netVars
<1>7. ClientInv'
  <2>1. ClientOK(t)'
        BY <1>b, NoneAssumption
        DEF Inv, TypeOK, PooledIsClean, UnusedIsClean, ClientInv, ClientOK,
            Clean, BusyFacts, Last, Budget, Handler, GetClientPtr, netVars
  <2>2. ASSUME NEW u \in Threads, u # t PROVE ClientOK(u)'
    <3>1. cl[u] # cl[t] \/ cl[u] = NoClient
          BY <2>2 DEF Inv, Exclusive
    <3>q. QED
          BY <1>b, <2>2, <3>1, OtherClient, NoneAssumption
          DEF Inv, TypeOK, BusyFacts, GetClientPtr, netVars
  <2>q. QED
        BY <2>1, <2>2 DEF ClientInv
<1>8. MessageInv' /\ ExecutedInv' /\ ReplyIsTrue' /\ OrderReplyIsFinal' /\ AbsentInv'
      BY NetFrame DEF GetClientPtr, netVars
<1>9. ProgressInv'
  <2>1. ProgressOK(t)'
    <3>1. pc[t] = "get" /\ ProgressOK(t)
          BY DEF Inv, ProgressInv, GetClientPtr
    <3>2. /\ executed[cur[t]] = {}
          /\ \A m \in sent \cup answers : m.req = cur[t] => m.svc # svc[t] /\ m.svc # "trade"
          BY <1>b, <3>1 DEF ProgressOK, BusyFacts, Services
    <3>3. pc'[t] = "call" /\ UNCHANGED <<cur, svc, sent, answers, executed>>
          BY DEF Inv, TypeOK, GetClientPtr, netVars
    <3>q. QED
          BY <3>2, <3>3 DEF ProgressOK
  <2>2. ASSUME NEW u \in Threads, u # t PROVE ProgressOK(u)'
    <3>1. cur[u] # cur[t]
          BY <1>b, <2>2 DEF Inv, ThreadInv, ThreadOK, BusyFacts
    <3>q. QED
          BY <1>b, <2>2, <3>1, OtherProgress
          DEF Inv, TypeOK, BusyFacts, Same, GetClientPtr, netVars
  <2>q. QED
        BY <2>1, <2>2 DEF ProgressInv
<1>q. QED
      BY <1>1, <1>2, <1>3, <1>4, <1>5, <1>6, <1>7, <1>8, <1>9 DEF Inv

\* A client is constructed in memory nobody uses, under the pool's mutex.
LEMMA NewClientPtrStep ==
  ASSUME Inv, NEW t \in Threads, NewClientPtr(t)
  PROVE  Inv'
<1>b. BusyFacts(t)
      BY Busy DEF NewClientPtr
<1>1. TypeOK'
      BY <1>b DEF Inv, TypeOK, BusyFacts, Codes, Message, NewClientPtr, netVars
<1>2. ThreadInv'
  <2>1. ThreadOK(t)'
        BY <1>b, NoneAssumption
        DEF Inv, TypeOK, ThreadInv, ThreadOK, BusyFacts, Authorised, Budget,
            Handler, NewClientPtr, netVars
  <2>2. ASSUME NEW u \in Threads, u # t PROVE ThreadOK(u)'
        BY <1>b, <1>1, <2>2, OtherThread DEF Inv, TypeOK, NewClientPtr, netVars
  <2>q. QED
        BY <2>1, <2>2 DEF ThreadInv
<1>3. MutexInv'
      BY <1>b, NoneAssumption
      DEF Inv, TypeOK, ThreadInv, ThreadOK, MutexInv, BusyFacts, NewClientPtr,
          netVars
<1>4. Exclusive'
      BY <1>b, NoneAssumption
      DEF Inv, TypeOK, ThreadInv, ThreadOK, Exclusive, Unused, BusyFacts,
          Services, NewClientPtr, netVars
<1>5. PooledIsClean'
      BY <1>b, NoneAssumption
      DEF Inv, TypeOK, Exclusive, PooledIsClean, ClientInv, ClientOK, Clean,
          BusyFacts, Unused, Services, NewClientPtr, netVars
<1>6. UnusedIsClean'
      BY <1>b, NoneAssumption
      DEF Inv, TypeOK, ThreadInv, ThreadOK, Exclusive, PooledIsClean,
          UnusedIsClean, Unused, ClientInv, ClientOK, Clean, BusyFacts,
          Services, NewClientPtr, netVars
<1>7. ClientInv'
  <2>1. ClientOK(t)'
        BY <1>b, NoneAssumption
        DEF Inv, TypeOK, PooledIsClean, UnusedIsClean, ClientInv, ClientOK,
            Clean, BusyFacts, Last, Budget, Handler, NewClientPtr, netVars
  <2>2. ASSUME NEW u \in Threads, u # t PROVE ClientOK(u)'
    <3>1. cl[u] # cl[t] \/ cl[u] = NoClient
          BY <2>2 DEF Inv, Exclusive
    <3>q. QED
      <4>1. PICK c \in Clients : Unused(c) /\ m_is_inited' = [m_is_inited EXCEPT ![c] = FALSE]
            BY DEF NewClientPtr
      <4>2. cl[u] \in Clients => m_is_inited'[cl[u]] = m_is_inited[cl[u]]
            BY <4>1 DEF Inv, TypeOK, Unused
      <4>3. UNCHANGED <<req, pc[u], cur[u], svc[u], cl[u], tries[u], sent, answers>>
            BY <2>2 DEF Inv, TypeOK, NewClientPtr, netVars
      <4>q. QED
            BY <4>2, <4>3, OtherClient
  <2>q. QED
        BY <2>1, <2>2 DEF ClientInv
<1>8. MessageInv' /\ ExecutedInv' /\ ReplyIsTrue' /\ OrderReplyIsFinal' /\ AbsentInv'
      BY NetFrame DEF NewClientPtr, netVars
<1>9. ProgressInv'
  <2>1. ProgressOK(t)'
    <3>1. pc[t] = "get" /\ pc'[t] = "new" /\ UNCHANGED <<cur, svc, netVars>>
          BY DEF Inv, TypeOK, NewClientPtr
    <3>2. ProgressOK(t)
          BY DEF Inv, ProgressInv
    <3>q. QED
          BY <3>1, <3>2 DEF ProgressOK, netVars
  <2>2. ASSUME NEW u \in Threads, u # t PROVE ProgressOK(u)'
    <3>1. cur[u] # cur[t]
          BY <1>b, <2>2 DEF Inv, ThreadInv, ThreadOK, BusyFacts
    <3>q. QED
          BY <1>b, <2>2, <3>1, OtherProgress
          DEF Inv, TypeOK, BusyFacts, Same, NewClientPtr, netVars
  <2>q. QED
        BY <2>1, <2>2 DEF ProgressInv
<1>q. QED
      BY <1>1, <1>2, <1>3, <1>4, <1>5, <1>6, <1>7, <1>8, <1>9 DEF Inv

\* The constructor ends, connected or not; the mutex is free again.
LEMMA NewClientConnectedStep ==
  ASSUME Inv, NEW t \in Threads, NewClientConnected(t)
  PROVE  Inv'
<1>b. BusyFacts(t)
      BY Busy DEF NewClientConnected
<1>1. TypeOK'
      BY <1>b
      DEF Inv, TypeOK, BusyFacts, Codes, Message, NewClientConnected, netVars
<1>2. ThreadInv'
  <2>1. ThreadOK(t)'
    <3>1. /\ pc[t] = "new" /\ pc'[t] = "call" /\ UNCHANGED <<req, reply, cur, svc, cl>>
          /\ tries'[t] = Budget(cur[t], svc[t])
          BY DEF Inv, TypeOK, NewClientConnected
    <3>2. Budget(cur[t], svc[t])' = Budget(cur[t], svc[t])
          BY <3>1 DEF Budget, Handler
    <3>3. /\ cur[t] # NoRequest /\ cl[t] # NoClient
          /\ svc[t] = "trade" => Authorised(cur[t])
          /\ \A u \in Threads : u # t => cur[u] # cur[t]
          BY <1>b, <3>1, NoneAssumption DEF Inv, ThreadInv, ThreadOK, BusyFacts
    <3>4. Authorised(cur[t])' <=> Authorised(cur[t])
          BY <3>1 DEF Authorised, Handler
    <3>5. tries'[t] \in Nat /\ tries'[t] <= Budget(cur[t], svc[t])
          BY <1>b, <3>1 DEF BusyFacts
    <3>q. QED
          BY <1>b, <3>1, <3>2, <3>3, <3>4, <3>5 DEF ThreadOK, BusyFacts
  <2>2. ASSUME NEW u \in Threads, u # t PROVE ThreadOK(u)'
        BY <1>b, <1>1, <2>2, OtherThread
        DEF Inv, TypeOK, NewClientConnected, netVars
  <2>q. QED
        BY <2>1, <2>2 DEF ThreadInv
<1>3. MutexInv'
      BY <1>b, NoneAssumption
      DEF Inv, TypeOK, ThreadInv, ThreadOK, MutexInv, BusyFacts,
          NewClientConnected, netVars
<1>4. Exclusive'
      BY <1>b, NoneAssumption
      DEF Inv, TypeOK, ThreadInv, ThreadOK, Exclusive, Unused, BusyFacts,
          Services, NewClientConnected, netVars
<1>5. PooledIsClean'
      BY <1>b, NoneAssumption
      DEF Inv, TypeOK, Exclusive, PooledIsClean, ClientInv, ClientOK, Clean,
          BusyFacts, Unused, Services, NewClientConnected, netVars
<1>6. UnusedIsClean'
      BY <1>b, NoneAssumption
      DEF Inv, TypeOK, ThreadInv, ThreadOK, Exclusive, PooledIsClean,
          UnusedIsClean, Unused, ClientInv, ClientOK, Clean, BusyFacts,
          Services, NewClientConnected, netVars
<1>7. ClientInv'
  <2>1. ClientOK(t)'
        BY <1>b, NoneAssumption
        DEF Inv, TypeOK, PooledIsClean, UnusedIsClean, ClientInv, ClientOK,
            Clean, BusyFacts, Last, Budget, Handler, NewClientConnected,
            netVars
  <2>2. ASSUME NEW u \in Threads, u # t PROVE ClientOK(u)'
    <3>1. cl[u] # cl[t] \/ cl[u] = NoClient
          BY <2>2 DEF Inv, Exclusive
    <3>q. QED
          BY <1>b, <2>2, <3>1, OtherClient, NoneAssumption
          DEF Inv, TypeOK, BusyFacts, NewClientConnected, netVars
  <2>q. QED
        BY <2>1, <2>2 DEF ClientInv
<1>8. MessageInv' /\ ExecutedInv' /\ ReplyIsTrue' /\ OrderReplyIsFinal' /\ AbsentInv'
      BY NetFrame DEF NewClientConnected, netVars
<1>9. ProgressInv'
  <2>1. ProgressOK(t)'
    <3>1. pc[t] = "new" /\ ProgressOK(t)
          BY DEF Inv, ProgressInv, NewClientConnected
    <3>2. /\ executed[cur[t]] = {}
          /\ \A m \in sent \cup answers : m.req = cur[t] => m.svc # svc[t] /\ m.svc # "trade"
          BY <1>b, <3>1 DEF ProgressOK, BusyFacts, Services
    <3>3. pc'[t] = "call" /\ UNCHANGED <<cur, svc, sent, answers, executed>>
          BY DEF Inv, TypeOK, NewClientConnected, netVars
    <3>q. QED
          BY <3>2, <3>3 DEF ProgressOK
  <2>2. ASSUME NEW u \in Threads, u # t PROVE ProgressOK(u)'
    <3>1. cur[u] # cur[t]
          BY <1>b, <2>2 DEF Inv, ThreadInv, ThreadOK, BusyFacts
    <3>q. QED
          BY <1>b, <2>2, <3>1, OtherProgress
          DEF Inv, TypeOK, BusyFacts, Same, NewClientConnected, netVars
  <2>q. QED
        BY <2>1, <2>2 DEF ProgressInv
<1>q. QED
      BY <1>1, <1>2, <1>3, <1>4, <1>5, <1>6, <1>7, <1>8, <1>9 DEF Inv

\* An exception: the connection may still carry the attempt, but it is marked
\* to be replaced.
LEMMA CallThrowsStep ==
  ASSUME Inv, NEW t \in Threads, CallThrows(t)
  PROVE  Inv'
<1>b. BusyFacts(t)
      BY Busy DEF CallThrows
<1>1. TypeOK'
      BY <1>b DEF Inv, TypeOK, BusyFacts, Codes, Message, CallThrows, netVars
<1>2. ThreadInv'
  <2>1. ThreadOK(t)'
        BY <1>b, NoneAssumption
        DEF Inv, TypeOK, ThreadInv, ThreadOK, BusyFacts, Authorised, Budget,
            Handler, CallThrows, netVars
  <2>2. ASSUME NEW u \in Threads, u # t PROVE ThreadOK(u)'
        BY <1>b, <1>1, <2>2, OtherThread DEF Inv, TypeOK, CallThrows, netVars
  <2>q. QED
        BY <2>1, <2>2 DEF ThreadInv
<1>3. MutexInv'
      BY <1>b, NoneAssumption
      DEF Inv, TypeOK, ThreadInv, ThreadOK, MutexInv, BusyFacts, CallThrows,
          netVars
<1>4. Exclusive'
      BY <1>b, NoneAssumption
      DEF Inv, TypeOK, ThreadInv, ThreadOK, Exclusive, Unused, BusyFacts,
          Services, CallThrows, netVars
<1>5. PooledIsClean'
      BY <1>b, NoneAssumption
      DEF Inv, TypeOK, Exclusive, PooledIsClean, ClientInv, ClientOK, Clean,
          BusyFacts, Unused, Services, CallThrows, netVars
<1>6. UnusedIsClean'
      BY <1>b, NoneAssumption
      DEF Inv, TypeOK, ThreadInv, ThreadOK, Exclusive, PooledIsClean,
          UnusedIsClean, Unused, ClientInv, ClientOK, Clean, BusyFacts,
          Services, CallThrows, netVars
<1>7. ClientInv'
  <2>1. ClientOK(t)'
        BY <1>b, NoneAssumption
        DEF Inv, TypeOK, PooledIsClean, UnusedIsClean, ClientInv, ClientOK,
            Clean, BusyFacts, Last, Budget, Handler, CallThrows, netVars
  <2>2. ASSUME NEW u \in Threads, u # t PROVE ClientOK(u)'
    <3>1. cl[u] # cl[t] \/ cl[u] = NoClient
          BY <2>2 DEF Inv, Exclusive
    <3>q. QED
          BY <1>b, <2>2, <3>1, OtherClient, NoneAssumption
          DEF Inv, TypeOK, BusyFacts, CallThrows, netVars
  <2>q. QED
        BY <2>1, <2>2 DEF ClientInv
<1>8. MessageInv' /\ ExecutedInv' /\ ReplyIsTrue' /\ OrderReplyIsFinal' /\ AbsentInv'
      BY NetFrame DEF CallThrows, netVars
<1>9. ProgressInv'
  <2>1. ProgressOK(t)'
    <3>1. pc[t] = "wait" /\ pc'[t] = "call" /\ UNCHANGED <<cur, svc, netVars>>
          BY DEF Inv, TypeOK, CallThrows
    <3>2. Last(t)' = Last(t)
          BY DEF Last, Budget, Handler, CallThrows
    <3>3. ProgressOK(t)
          BY DEF Inv, ProgressInv
    <3>q. QED
          BY <3>1, <3>2, <3>3 DEF ProgressOK, netVars
  <2>2. ASSUME NEW u \in Threads, u # t PROVE ProgressOK(u)'
    <3>1. cur[u] # cur[t]
          BY <1>b, <2>2 DEF Inv, ThreadInv, ThreadOK, BusyFacts
    <3>q. QED
          BY <1>b, <2>2, <3>1, OtherProgress
          DEF Inv, TypeOK, BusyFacts, Same, CallThrows, netVars
  <2>q. QED
        BY <2>1, <2>2 DEF ProgressInv
<1>q. QED
      BY <1>1, <1>2, <1>3, <1>4, <1>5, <1>6, <1>7, <1>8, <1>9 DEF Inv

\* The answer that is read is the one to the last attempt, which is settled.
LEMMA CallReturnsStep ==
  ASSUME Inv, NEW t \in Threads, CallReturns(t)
  PROVE  Inv'
<1>b. BusyFacts(t)
      BY Busy DEF CallReturns
<1>1. TypeOK'
      BY <1>b DEF Inv, TypeOK, Answer, CallReturns, poolVars
<1>2. ThreadInv'
  <2>1. ThreadOK(t)'
        BY <1>b, NoneAssumption
        DEF Inv, TypeOK, ThreadInv, ThreadOK, BusyFacts, Authorised, Budget,
            Handler, CallReturns, poolVars
  <2>2. ASSUME NEW u \in Threads, u # t PROVE ThreadOK(u)'
        BY <1>b, <1>1, <2>2, OtherThread DEF Inv, TypeOK, CallReturns, poolVars
  <2>q. QED
        BY <2>1, <2>2 DEF ThreadInv
<1>3. MutexInv'
      BY <1>b, NoneAssumption
      DEF Inv, TypeOK, ThreadInv, ThreadOK, MutexInv, BusyFacts, CallReturns,
          poolVars
<1>4. Exclusive'
      BY <1>b, NoneAssumption
      DEF Inv, TypeOK, ThreadInv, ThreadOK, Exclusive, Unused, BusyFacts,
          Services, CallReturns, poolVars
<1>5. PooledIsClean'
      BY <1>b, NoneAssumption
      DEF Inv, TypeOK, Exclusive, PooledIsClean, ClientInv, ClientOK, Clean,
          BusyFacts, Unused, Services, CallReturns, poolVars
<1>6. UnusedIsClean'
      BY <1>b, NoneAssumption
      DEF Inv, TypeOK, ThreadInv, ThreadOK, Exclusive, PooledIsClean,
          UnusedIsClean, Unused, ClientInv, ClientOK, Clean, BusyFacts,
          Services, CallReturns, poolVars
<1>7. ClientInv'
  <2>1. ClientOK(t)'
        BY <1>b, NoneAssumption
        DEF Inv, TypeOK, PooledIsClean, UnusedIsClean, ClientInv, ClientOK,
            Clean, BusyFacts, Last, Budget, Handler, CallReturns, poolVars
  <2>2. ASSUME NEW u \in Threads, u # t PROVE ClientOK(u)'
    <3>1. cl[u] # cl[t] \/ cl[u] = NoClient
          BY <2>2 DEF Inv, Exclusive
    <3>q. QED
          BY <1>b, <2>2, <3>1, OtherClient, NoneAssumption
          DEF Inv, TypeOK, BusyFacts, CallReturns, poolVars
  <2>q. QED
        BY <2>1, <2>2 DEF ClientInv
<1>8. MessageInv'
      BY FewerMessages DEF Inv, MessageInv, Same, CallReturns
<1>a. ExecutedInv' /\ AbsentInv'
      BY <1>b
      DEF Inv, TypeOK, ExecutedInv, AbsentInv, Authorised, BusyFacts, Budget,
          Handler, CallReturns, poolVars
<1>c. ReplyIsTrue'
      BY <1>b
      DEF Inv, TypeOK, ThreadInv, ThreadOK, ReplyIsTrue, ProgressInv,
          ProgressOK, Handler, BusyFacts, CallReturns, poolVars
<1>d. OrderReplyIsFinal'
      BY <1>b
      DEF Inv, TypeOK, ThreadInv, ThreadOK, OrderReplyIsFinal, IsOrder,
          ExecutedInv, ProgressInv, ProgressOK, Handler, BusyFacts,
          CallReturns, poolVars
<1>9. ProgressInv'
  <2>1. ProgressOK(t)'
    <3>1. PICK a \in answers : a.chan = cl[t] /\ verdict'[t] = a.ok /\ answers' = answers \ {a}
          BY DEF Inv, TypeOK, CallReturns
    <3>2. /\ pc[t] = "wait" /\ pc'[t] = "free"
          /\ UNCHANGED <<req, cur, svc, tries, sent, executed>> /\ Last(t)' = Last(t)
          BY DEF Inv, TypeOK, Last, Budget, Handler, CallReturns
    <3>3. a.req = cur[t] /\ a.svc = svc[t] /\ a.n = Last(t)
          BY <3>1, <3>2 DEF Inv, ClientInv, ClientOK
    <3>4. /\ \A m \in sent : ~Same(m, a)
          /\ a.svc = "trade" => (a.ok <=> a.n \in executed[a.req])
          /\ a.svc = "authen" /\ a.ok => req[a.req].valid
          BY <3>1 DEF Inv, MessageInv
    <3>5. ProgressOK(t)
          BY DEF Inv, ProgressInv
    <3>6. /\ \A m \in sent : m.req = cur[t] /\ m.svc = svc[t] => m.n # Last(t)
          /\ svc[t] = "trade" => (verdict'[t] <=> Last(t) \in executed[cur[t]])
          /\ svc[t] = "authen" /\ verdict'[t] => req[cur[t]].valid
          BY <3>1, <3>3, <3>4 DEF Same
    <3>q. QED
          BY <3>1, <3>2, <3>5, <3>6 DEF ProgressOK
  <2>2. ASSUME NEW u \in Threads, u # t PROVE ProgressOK(u)'
    <3>1. cur[u] # cur[t]
          BY <1>b, <2>2 DEF Inv, ThreadInv, ThreadOK, BusyFacts
    <3>q. QED
          BY <1>b, <2>2, <3>1, OtherProgress
          DEF Inv, TypeOK, BusyFacts, Same, CallReturns, poolVars
  <2>q. QED
        BY <2>1, <2>2 DEF ProgressInv
<1>q. QED
      BY <1>1, <1>2, <1>3, <1>4, <1>5, <1>6, <1>7, <1>8, <1>a, <1>c, <1>d,
         <1>9
      DEF Inv

\* A round without a request: what was on the connection is orphaned.
LEMMA CallNotSentStep ==
  ASSUME Inv, NEW t \in Threads, CallNotSent(t)
  PROVE  Inv'
<1>b. BusyFacts(t)
      BY Busy DEF CallNotSent
<1>o. \A m \in sent' : \E k \in sent : Same(k, m)
      BY <1>b, OrphanedFacts DEF Inv, BusyFacts, Same, InitSent, CallNotSent
<1>l. /\ pc[t] = "call" /\ pc'[t] = "call"
      /\ Last(t) \in Nat /\ Last(t)' = Last(t) + 1
      BY <1>b
      DEF Inv, TypeOK, ThreadInv, ThreadOK, BusyFacts, Last, Budget, Handler,
          CallNotSent
<1>1. TypeOK'
      BY <1>b, OrphanedFacts
      DEF Inv, TypeOK, BusyFacts, Codes, Message, CallNotSent, InitSent,
          InitAnswers, Unread
<1>2. ThreadInv'
  <2>1. ThreadOK(t)'
        BY <1>b, NoneAssumption, OrphanedFacts
        DEF Inv, TypeOK, ThreadInv, ThreadOK, BusyFacts, Authorised, Budget,
            Handler, CallNotSent, InitSent, InitAnswers, Unread
  <2>2. ASSUME NEW u \in Threads, u # t PROVE ThreadOK(u)'
        BY <1>b, <1>1, <2>2, OtherThread
        DEF Inv, TypeOK, CallNotSent, InitSent, InitAnswers, Unread
  <2>q. QED
        BY <2>1, <2>2 DEF ThreadInv
<1>3. MutexInv'
      BY <1>b, NoneAssumption
      DEF Inv, TypeOK, ThreadInv, ThreadOK, MutexInv, BusyFacts, CallNotSent,
          InitSent, InitAnswers, Unread
<1>4. Exclusive'
      BY <1>b, NoneAssumption
      DEF Inv, TypeOK, ThreadInv, ThreadOK, Exclusive, Unused, BusyFacts,
          Services, CallNotSent, InitSent, InitAnswers, Unread
<1>5. PooledIsClean'
      BY <1>b, NoneAssumption, OrphanedFacts
      DEF Inv, TypeOK, Exclusive, PooledIsClean, ClientInv, ClientOK, Clean,
          BusyFacts, Unused, Services, CallNotSent, InitSent, InitAnswers,
          Unread
<1>6. UnusedIsClean'
      BY <1>b, NoneAssumption, OrphanedFacts
      DEF Inv, TypeOK, ThreadInv, ThreadOK, Exclusive, PooledIsClean,
          UnusedIsClean, Unused, ClientInv, ClientOK, Clean, BusyFacts,
          Services, CallNotSent, InitSent, InitAnswers, Unread
<1>7. ClientInv'
  <2>1. ClientOK(t)'
        BY <1>b, NoneAssumption, OrphanedFacts
        DEF Inv, TypeOK, PooledIsClean, UnusedIsClean, ClientInv, ClientOK,
            Clean, BusyFacts, Last, Budget, Handler, CallNotSent, InitSent,
            InitAnswers, Unread
  <2>2. ASSUME NEW u \in Threads, u # t PROVE ClientOK(u)'
    <3>1. cl[u] # cl[t] \/ cl[u] = NoClient
          BY <2>2 DEF Inv, Exclusive
    <3>q. QED
      <4>1. \A m \in sent' : m.chan = cl[u] => m \in sent \/ cl[u] = NoClient
            BY <1>b, <3>1, OrphanedFacts
            DEF Inv, BusyFacts, InitSent, CallNotSent
      <4>2. \A a \in answers' : a.chan = cl[u] => a \in answers
            BY DEF InitAnswers, CallNotSent, Unread
      <4>q. QED
            BY <1>b, <2>2, <3>1, <4>1, <4>2, OtherClient, NoneAssumption
            DEF Inv, TypeOK, BusyFacts, CallNotSent, poolVars
  <2>q. QED
        BY <2>1, <2>2 DEF ClientInv
<1>8. MessageInv'
  <2>1. \A m, k \in sent' : Same(m, k) => m = k
        BY <1>b, OrphanedFacts
        DEF Inv, MessageInv, BusyFacts, InitSent, CallNotSent
  <2>2. UNCHANGED <<req, executed>> /\ answers' \subseteq answers
        BY DEF InitAnswers, CallNotSent, Unread
  <2>q. QED
        BY <1>o, <2>1, <2>2, FewerMessages
<1>a. ExecutedInv' /\ AbsentInv'
      BY DEF Inv, ExecutedInv, AbsentInv, Authorised, Budget, Handler,
             CallNotSent
<1>c. ReplyIsTrue' /\ OrderReplyIsFinal'
  <2>1. ASSUME NEW r \in Requests PROVE TrueOK(r)' /\ FinalOK(r)'
        BY <1>o, OtherReply DEF BusyFacts, CallNotSent
  <2>q. QED
        BY <2>1 DEF ReplyIsTrue, OrderReplyIsFinal, TrueOK, FinalOK
<1>9. ProgressInv'
  <2>1. ProgressOK(t)'
    <3>1. ProgressOK(t) /\ executed[cur[t]] \subseteq Nat
          BY <1>b DEF Inv, TypeOK, ProgressInv, BusyFacts
    <3>2. \A m \in sent \cup answers : m.n \in Nat
          BY DEF Inv, TypeOK, Message, Answer
    <3>3. answers' \subseteq answers /\ UNCHANGED <<cur, svc, executed>>
          BY DEF InitAnswers, Unread, CallNotSent
    <3>q. QED
          BY <1>b, <1>l, <1>o, <3>1, <3>2, <3>3 DEF ProgressOK, BusyFacts, Same
  <2>2. ASSUME NEW u \in Threads, u # t PROVE ProgressOK(u)'
    <3>1. cur[u] # cur[t]
          BY <1>b, <2>2 DEF Inv, ThreadInv, ThreadOK, BusyFacts
    <3>q. QED
          BY <1>b, <2>2, <3>1, OtherProgress, OrphanedFacts
          DEF Inv, TypeOK, BusyFacts, Same, CallNotSent, InitSent,
              InitAnswers, Unread
  <2>q. QED
        BY <2>1, <2>2 DEF ProgressInv
<1>q. QED
      BY <1>1, <1>2, <1>3, <1>4, <1>5, <1>6, <1>7, <1>8, <1>a, <1>c, <1>9
      DEF Inv

\* A round with a request: its attempt is new, and alone on the connection.
LEMMA CallSendStep ==
  ASSUME Inv, NEW t \in Threads, CallSend(t)
  PROVE  Inv'
<1>b. BusyFacts(t)
      BY Busy DEF CallSend
<1>l. /\ pc[t] = "call" /\ pc'[t] = "wait"
      /\ Last(t) \in Nat /\ Last(t)' = Last(t) + 1 /\ Last(t) < Budget(cur[t], svc[t])
      BY <1>b
      DEF Inv, TypeOK, ThreadInv, ThreadOK, BusyFacts, Last, Budget, Handler,
          CallSend
<1>m. PICK msg : /\ msg = [req |-> cur[t], svc |-> svc[t], n |-> Last(t) + 1, chan |-> cl[t]]
                 /\ sent' = InitSent(cl[t]) \cup {msg}
      BY DEF Last, CallSend
<1>o. \A m \in sent' : (\E k \in sent : Same(k, m)) \/ m = msg
  <2>1. \A m \in InitSent(cl[t]) : \E k \in sent : Same(k, m)
        BY <1>b, <1>l, OrphanedFacts DEF Inv, BusyFacts, Same, InitSent
  <2>q. QED
        BY <1>m, <2>1
<1>1. TypeOK'
  <2>1. msg \in Message /\ InitSent(cl[t]) \subseteq Message
        BY <1>b, <1>l, <1>m, OrphanedFacts
        DEF Inv, TypeOK, BusyFacts, Message, InitSent
  <2>2. tries' \in [Threads -> Nat]
        BY DEF Inv, TypeOK, CallSend
  <2>q. QED
        BY <1>b, <1>m, <2>1, <2>2
        DEF Inv, TypeOK, BusyFacts, InitAnswers, Unread, CallSend
<1>2. ThreadInv'
  <2>1. ThreadOK(t)'
    <3>1. /\ pc[t] = "call" /\ pc'[t] = "wait" /\ UNCHANGED <<req, reply, cur, svc, cl>>
          /\ tries'[t] = tries[t] - 1
          BY DEF Inv, TypeOK, CallSend
    <3>2. Budget(cur[t], svc[t])' = Budget(cur[t], svc[t])
          BY <3>1 DEF Budget, Handler
    <3>3. /\ cur[t] # NoRequest /\ cl[t] # NoClient
          /\ svc[t] = "trade" => Authorised(cur[t])
          /\ \A u \in Threads : u # t => cur[u] # cur[t]
          BY <1>b, <3>1, NoneAssumption DEF Inv, ThreadInv, ThreadOK, BusyFacts
    <3>4. Authorised(cur[t])' <=> Authorised(cur[t])
          BY <3>1 DEF Authorised, Handler
    <3>5. tries'[t] \in Nat /\ tries'[t] < Budget(cur[t], svc[t])
          BY <1>b, <3>1
          DEF Inv, TypeOK, ThreadInv, ThreadOK, CallSend, BusyFacts
    <3>q. QED
          BY <1>b, <3>1, <3>2, <3>3, <3>4, <3>5 DEF ThreadOK, BusyFacts
  <2>2. ASSUME NEW u \in Threads, u # t PROVE ThreadOK(u)'
        BY <1>b, <1>1, <2>2, OtherThread
        DEF Inv, TypeOK, CallSend, InitSent, InitAnswers, Unread
  <2>q. QED
        BY <2>1, <2>2 DEF ThreadInv
<1>3. MutexInv'
      BY <1>b, NoneAssumption
      DEF Inv, TypeOK, ThreadInv, ThreadOK, MutexInv, BusyFacts, CallSend,
          InitSent, InitAnswers, Unread
<1>4. Exclusive'
      BY <1>b, NoneAssumption
      DEF Inv, TypeOK, ThreadInv, ThreadOK, Exclusive, Unused, BusyFacts,
          Services, CallSend, InitSent, InitAnswers, Unread
<1>5. PooledIsClean'
      BY <1>b, NoneAssumption, OrphanedFacts
      DEF Inv, TypeOK, Exclusive, PooledIsClean, ClientInv, ClientOK, Clean,
          BusyFacts, Unused, Services, CallSend, InitSent, InitAnswers, Unread
<1>6. UnusedIsClean'
      BY <1>b, NoneAssumption, OrphanedFacts
      DEF Inv, TypeOK, ThreadInv, ThreadOK, Exclusive, PooledIsClean,
          UnusedIsClean, Unused, ClientInv, ClientOK, Clean, BusyFacts,
          Services, CallSend, InitSent, InitAnswers, Unread
<1>7. ClientInv'
  <2>1. ClientOK(t)'
    <3>1. Clean(cl[t]) \/ ~m_is_inited[cl[t]]
          BY <1>l DEF Inv, ClientInv, ClientOK
    <3>2. /\ \A m \in InitSent(cl[t]) : m.chan # cl[t]
          /\ \A a \in answers' : a.chan # cl[t]
          BY <1>b, <3>1, OrphanedFacts
          DEF Inv, BusyFacts, Clean, InitSent, InitAnswers, Unread, CallSend
    <3>3. m_is_inited'[cl[t]] /\ UNCHANGED <<cl, cur, svc>>
          BY <1>b DEF Inv, TypeOK, BusyFacts, CallSend
    <3>q. QED
          BY <1>l, <1>m, <3>2, <3>3 DEF ClientOK
  <2>2. ASSUME NEW u \in Threads, u # t PROVE ClientOK(u)'
    <3>1. cl[u] # cl[t] \/ cl[u] = NoClient
          BY <2>2 DEF Inv, Exclusive
    <3>q. QED
      <4>1. \A m \in sent' : m.chan = cl[u] => m \in sent \/ cl[u] = NoClient
            BY <1>b, <3>1, <1>m, OrphanedFacts
            DEF Inv, BusyFacts, InitSent, CallSend
      <4>2. \A a \in answers' : a.chan = cl[u] => a \in answers
            BY DEF InitAnswers, CallSend, Unread
      <4>q. QED
            BY <1>b, <2>2, <3>1, <4>1, <4>2, OtherClient, NoneAssumption
            DEF Inv, TypeOK, BusyFacts, CallSend, poolVars
  <2>q. QED
        BY <2>1, <2>2 DEF ClientInv
<1>8. MessageInv'
  <2>1. /\ \A m \in sent \cup answers : m.req = cur[t] /\ m.svc = svc[t] => m.n <= Last(t)
        /\ svc[t] = "trade" => \A n \in executed[cur[t]] : n <= Last(t)
        BY <1>b, <1>l DEF Inv, ProgressInv, ProgressOK, BusyFacts
  <2>2. /\ \A m, k \in InitSent(cl[t]) : Same(m, k) => m = k
        /\ \A m \in InitSent(cl[t]) : \E k \in sent : Same(k, m)
    <3>1. TypeOK /\ cl[t] \in Clients /\ \A m, k \in sent : Same(m, k) => m = k
          BY <1>b, <1>l DEF Inv, MessageInv, BusyFacts
    <3>2. \A m \in sent : Same(m, m)
          BY DEF Same
    <3>q. QED
          BY <3>1, <3>2, OrphanedFacts DEF InitSent
  <2>3. answers' \subseteq answers /\ UNCHANGED <<req, executed>>
        BY DEF InitAnswers, Unread, CallSend
  <2>4. \A m \in sent \cup answers : m.n \in Nat
        BY DEF Inv, TypeOK, Message, Answer
  <2>5. \A k \in sent \cup answers : ~Same(k, msg)
        BY <1>l, <1>m, <2>1, <2>4 DEF Same
  <2>6. ASSUME NEW m \in sent'
        PROVE  /\ req[m.req] # Absent
               /\ m.n \in 1 .. Budget(m.req, m.svc)
               /\ m.svc = "trade" => Authorised(m.req) /\ m.n \notin executed[m.req]
    <3>1. CASE m = msg
          BY <1>b, <1>l, <1>m, <2>1, <3>1
          DEF Inv, ThreadInv, ThreadOK, BusyFacts
    <3>2. CASE \E k \in sent : Same(k, m)
          BY <3>2 DEF Inv, MessageInv, Same
    <3>q. QED
          BY <1>o, <2>6, <3>1, <3>2
  <2>7. \A m, k \in sent' : Same(m, k) => m = k
        BY <1>m, <2>2, <2>5 DEF Same
  <2>8. \A a \in answers' : \A m \in sent' : ~Same(m, a)
        BY <1>o, <2>3, <2>5 DEF Inv, MessageInv, Same
  <2>q. QED
        BY <2>3, <2>6, <2>7, <2>8
        DEF Inv, MessageInv, Authorised, Budget, Handler
<1>a. ExecutedInv' /\ AbsentInv'
      BY DEF Inv, ExecutedInv, AbsentInv, Authorised, Budget, Handler, CallSend
<1>c. ReplyIsTrue' /\ OrderReplyIsFinal'
  <2>1. ASSUME NEW r \in Requests PROVE TrueOK(r)' /\ FinalOK(r)'
        BY <1>b, <1>m, <1>o, OtherReply DEF BusyFacts, CallSend
  <2>q. QED
        BY <2>1 DEF ReplyIsTrue, OrderReplyIsFinal, TrueOK, FinalOK
<1>9. ProgressInv'
  <2>1. ProgressOK(t)'
    <3>1. ProgressOK(t) /\ executed[cur[t]] \subseteq Nat
          BY <1>b DEF Inv, TypeOK, ProgressInv, BusyFacts
    <3>2. \A m \in sent \cup answers : m.n \in Nat
          BY DEF Inv, TypeOK, Message, Answer
    <3>3. answers' \subseteq answers /\ UNCHANGED <<cur, svc, executed>>
          BY DEF InitAnswers, Unread, CallSend
    <3>q. QED
          BY <1>b, <1>l, <1>o, <1>m, <3>1, <3>2, <3>3
          DEF ProgressOK, BusyFacts, Same
  <2>2. ASSUME NEW u \in Threads, u # t PROVE ProgressOK(u)'
    <3>1. cur[u] # cur[t]
          BY <1>b, <2>2 DEF Inv, ThreadInv, ThreadOK, BusyFacts
    <3>q. QED
          BY <1>b, <2>2, <3>1, OtherProgress, OrphanedFacts
          DEF Inv, TypeOK, BusyFacts, Same, CallSend, InitSent, InitAnswers,
              Unread
  <2>q. QED
        BY <2>1, <2>2 DEF ProgressInv
<1>q. QED
      BY <1>1, <1>2, <1>3, <1>4, <1>5, <1>6, <1>7, <1>8, <1>a, <1>c, <1>9
      DEF Inv

\* The rounds are used up: the connection is closed, a late execution possible.
LEMMA GiveUpStep ==
  ASSUME Inv, NEW t \in Threads, GiveUp(t)
  PROVE  Inv'
<1>b. BusyFacts(t)
      BY Busy DEF GiveUp
<1>o. \A m \in sent' : \E k \in sent : Same(k, m)
      BY <1>b, OrphanedFacts DEF Inv, BusyFacts, Same, GiveUp
<1>1. TypeOK'
      BY <1>b, OrphanedFacts
      DEF Inv, TypeOK, BusyFacts, Codes, Message, GiveUp, Finish, Unread,
          poolVars
<1>2. ThreadInv'
  <2>1. ThreadOK(t)'
        BY <1>b, NoneAssumption, OrphanedFacts
        DEF Inv, TypeOK, ThreadInv, ThreadOK, BusyFacts, Authorised, Budget,
            Handler, GiveUp, Finish, Unread, poolVars
  <2>2. ASSUME NEW u \in Threads, u # t PROVE ThreadOK(u)'
        BY <1>b, <1>1, <2>2, OtherThread
        DEF Inv, TypeOK, GiveUp, Finish, Unread, poolVars
  <2>q. QED
        BY <2>1, <2>2 DEF ThreadInv
<1>3. MutexInv'
      BY <1>b, NoneAssumption
      DEF Inv, TypeOK, ThreadInv, ThreadOK, MutexInv, BusyFacts, GiveUp,
          Finish, Unread, poolVars
<1>4. Exclusive'
      BY <1>b, NoneAssumption
      DEF Inv, TypeOK, ThreadInv, ThreadOK, Exclusive, Unused, BusyFacts,
          Services, GiveUp, Finish, Unread, poolVars
<1>5. PooledIsClean'
      BY <1>b, NoneAssumption, OrphanedFacts
      DEF Inv, TypeOK, Exclusive, PooledIsClean, ClientInv, ClientOK, Clean,
          BusyFacts, Unused, Services, GiveUp, Finish, Unread, poolVars
<1>6. UnusedIsClean'
      BY <1>b, NoneAssumption, OrphanedFacts
      DEF Inv, TypeOK, ThreadInv, ThreadOK, Exclusive, PooledIsClean,
          UnusedIsClean, Unused, ClientInv, ClientOK, Clean, BusyFacts,
          Services, GiveUp, Finish, Unread, poolVars
<1>7. ClientInv'
  <2>1. ClientOK(t)'
        BY <1>b, NoneAssumption, OrphanedFacts
        DEF Inv, TypeOK, PooledIsClean, UnusedIsClean, ClientInv, ClientOK,
            Clean, BusyFacts, Last, Budget, Handler, GiveUp, Finish, Unread,
            poolVars
  <2>2. ASSUME NEW u \in Threads, u # t PROVE ClientOK(u)'
    <3>1. cl[u] # cl[t] \/ cl[u] = NoClient
          BY <2>2 DEF Inv, Exclusive
    <3>q. QED
      <4>1. \A m \in sent' : m.chan = cl[u] => m \in sent \/ cl[u] = NoClient
            BY <1>b, <3>1, OrphanedFacts DEF Inv, BusyFacts, GiveUp
      <4>2. \A a \in answers' : a.chan = cl[u] => a \in answers
            BY DEF GiveUp, Unread
      <4>q. QED
            BY <1>b, <2>2, <3>1, <4>1, <4>2, OtherClient, NoneAssumption
            DEF Inv, TypeOK, BusyFacts, Finish, GiveUp, poolVars
  <2>q. QED
        BY <2>1, <2>2 DEF ClientInv
<1>8. MessageInv'
  <2>1. \A m, k \in sent' : Same(m, k) => m = k
        BY <1>b, OrphanedFacts DEF Inv, MessageInv, BusyFacts, GiveUp
  <2>2. UNCHANGED <<req, executed>> /\ answers' \subseteq answers
        BY DEF GiveUp, Unread
  <2>q. QED
        BY <1>o, <2>1, <2>2, FewerMessages
<1>a. ExecutedInv' /\ AbsentInv'
      BY <1>b
      DEF Inv, TypeOK, ExecutedInv, AbsentInv, Authorised, BusyFacts, Budget,
          Handler, Finish, netVars, GiveUp
<1>c. ReplyIsTrue' /\ OrderReplyIsFinal'
  <2>1. ASSUME NEW r \in Requests, r # cur[t] PROVE TrueOK(r)' /\ FinalOK(r)'
        BY <1>b, <2>1, <1>o, OtherReply
        DEF Inv, TypeOK, BusyFacts, Finish, netVars, Same, GiveUp
  <2>2. ASSUME NEW r \in Requests, r = cur[t] PROVE TrueOK(r)' /\ FinalOK(r)'
    <3>1. /\ reply'[cur[t]] = IF svc[t] = "authen" THEN "SESSION_ERR" ELSE "INFO_BUSY"
          /\ UNCHANGED <<req, executed>>
          BY <1>b DEF Inv, TypeOK, BusyFacts, Finish, GiveUp
    <3>2. svc[t] = "authen" =>
             executed[cur[t]] = {} /\ \A m \in sent : m.req = cur[t] => m.svc # "trade"
          BY <1>b DEF Inv, ProgressInv, ProgressOK, BusyFacts
    <3>3. \A m \in sent' : svc[t] = "authen" /\ m.req = cur[t] => m.svc # "trade"
          BY <1>o, <3>2 DEF Same
    <3>q. QED
          BY <2>2, <3>1, <3>2, <3>3 DEF TrueOK, FinalOK
  <2>q. QED
        BY <1>b, <2>1, <2>2
        DEF ReplyIsTrue, OrderReplyIsFinal, TrueOK, FinalOK, BusyFacts
<1>9. ProgressInv'
  <2>1. ProgressOK(t)'
        BY DEF Inv, TypeOK, ProgressOK, Finish, GiveUp
  <2>2. ASSUME NEW u \in Threads, u # t PROVE ProgressOK(u)'
    <3>1. cur[u] # cur[t]
          BY <1>b, <2>2 DEF Inv, ThreadInv, ThreadOK, BusyFacts
    <3>q. QED
          BY <1>b, <2>2, <3>1, OtherProgress, OrphanedFacts
          DEF Inv, TypeOK, BusyFacts, Same, GiveUp, Finish, Unread, poolVars
  <2>q. QED
        BY <2>1, <2>2 DEF ProgressInv
<1>q. QED
      BY <1>1, <1>2, <1>3, <1>4, <1>5, <1>6, <1>7, <1>8, <1>a, <1>c, <1>9
      DEF Inv

\* The client goes back, clean; the verdict decides what the handler does.
LEMMA FreeClientPtrStep ==
  ASSUME Inv, NEW t \in Threads, FreeClientPtr(t)
  PROVE  Inv'
<1>b. BusyFacts(t)
      BY Busy DEF FreeClientPtr
<1> DEFINE goesOn == /\ svc[t] = "authen" /\ verdict[t] /\ svc'[t] = "trade" /\ pc'[t] = "get"
                     /\ UNCHANGED <<reply, cur>>
           code == IF svc[t] = "authen" THEN "SESSION_ERR"
                   ELSE IF verdict[t] THEN "SUCCESS" ELSE Handler(cur[t]).err
           ends == /\ pc'[t] = "idle" /\ cur'[t] = NoRequest
                   /\ reply' = [reply EXCEPT ![cur[t]] = code]
                   /\ svc[t] = "authen" => ~verdict[t]
<1>l. /\ pc[t] = "free" /\ cl'[t] = NoClient
      /\ UNCHANGED <<req, sent, answers, executed, tries, verdict>>
      /\ goesOn \/ ends
      BY DEF Inv, TypeOK, Finish, FreeClientPtr, netVars
<1>p. /\ svc[t] = "authen" =>
            /\ executed[cur[t]] = {}
            /\ \A m \in sent \cup answers : m.req = cur[t] => m.svc # "trade"
      /\ \A m \in sent : m.req = cur[t] /\ m.svc = svc[t] => m.n # Last(t)
      /\ svc[t] = "trade" => (verdict[t] <=> Last(t) \in executed[cur[t]])
      /\ svc[t] = "authen" /\ verdict[t] => req[cur[t]].valid
      BY <1>l DEF Inv, ProgressInv, ProgressOK
<1>1. TypeOK'
  <2>1. code \in Codes
        BY <1>b DEF BusyFacts, Codes
  <2>2. reply' \in [Requests -> Codes \cup {"none"}]
        BY <1>l, <2>1 DEF Inv, TypeOK
  <2>3. /\ pc' \in [Threads -> {"idle", "get", "new", "call", "wait", "free"}]
        /\ cur' \in [Threads -> Requests \cup {NoRequest}]
        /\ svc' \in [Threads -> Services]
        BY DEF Inv, TypeOK, Services, Finish, FreeClientPtr
  <2>q. QED
        BY <1>b, <2>2, <2>3 DEF Inv, TypeOK, BusyFacts, FreeClientPtr, netVars
<1>2. ThreadInv'
  <2>1. ThreadOK(t)'
    <3>1. CASE goesOn
      <4>1. Authorised(cur[t])
            BY <1>b, <1>p, <3>1 DEF Authorised, BusyFacts
      <4>2. ThreadOK(t)
            BY DEF Inv, ThreadInv
      <4>3. cur[t] # NoRequest /\ \A u \in Threads : u # t => cur[u] # cur[t]
            BY <1>l, <4>2 DEF ThreadOK
      <4>4. Authorised(cur[t])' /\ cur'[t] # NoRequest
            BY <1>l, <3>1, <4>1, <4>3 DEF Authorised, Handler
      <4>q. QED
            BY <1>b, <1>l, <3>1, <4>3, <4>4 DEF ThreadOK, BusyFacts, Authorised
    <3>2. CASE ends
          BY <1>l, <3>2 DEF ThreadOK
    <3>q. QED
          BY <1>l, <3>1, <3>2
  <2>2. ASSUME NEW u \in Threads, u # t PROVE ThreadOK(u)'
        BY <1>b, <1>1, <2>2, OtherThread
        DEF Inv, TypeOK, FreeClientPtr, Finish, netVars
  <2>q. QED
        BY <2>1, <2>2 DEF ThreadInv
<1>3. MutexInv'
      BY <1>b, NoneAssumption
      DEF Inv, TypeOK, ThreadInv, ThreadOK, MutexInv, BusyFacts,
          FreeClientPtr, Finish, netVars
<1>4. Exclusive'
      BY <1>b, NoneAssumption
      DEF Inv, TypeOK, ThreadInv, ThreadOK, Exclusive, Unused, BusyFacts,
          Services, FreeClientPtr, Finish, netVars
<1>5. PooledIsClean'
      BY <1>b, NoneAssumption
      DEF Inv, TypeOK, Exclusive, PooledIsClean, ClientInv, ClientOK, Clean,
          BusyFacts, Unused, Services, FreeClientPtr, Finish, netVars
<1>6. UnusedIsClean'
      BY <1>b, NoneAssumption
      DEF Inv, TypeOK, ThreadInv, ThreadOK, Exclusive, PooledIsClean,
          UnusedIsClean, Unused, ClientInv, ClientOK, Clean, BusyFacts,
          Services, FreeClientPtr, Finish, netVars
<1>7. ClientInv'
  <2>1. ClientOK(t)'
        BY <1>l DEF ClientOK
  <2>2. ASSUME NEW u \in Threads, u # t PROVE ClientOK(u)'
    <3>1. cl[u] # cl[t] \/ cl[u] = NoClient
          BY <2>2 DEF Inv, Exclusive
    <3>q. QED
      <4>1. UNCHANGED <<req, pc[u], cur[u], svc[u], cl[u], tries[u],
                        m_is_inited, sent, answers>>
            BY <2>2 DEF Inv, TypeOK, Finish, FreeClientPtr, netVars
      <4>q. QED
            BY <4>1, OtherClient
  <2>q. QED
        BY <2>1, <2>2 DEF ClientInv
<1>8. MessageInv'
  <2>1. UNCHANGED <<req, sent, answers, executed>>
        BY DEF FreeClientPtr, netVars
  <2>q. QED
        BY <2>1, FewerMessages DEF Inv, MessageInv, Same
<1>a. ExecutedInv' /\ AbsentInv'
      BY <1>b
      DEF Inv, TypeOK, ExecutedInv, AbsentInv, Authorised, BusyFacts, Budget,
          Handler, Finish, netVars, FreeClientPtr
<1>c. ReplyIsTrue' /\ OrderReplyIsFinal'
  <2>1. ASSUME NEW r \in Requests, r # cur[t] PROVE TrueOK(r)' /\ FinalOK(r)'
        BY <1>b, <2>1, OtherReply
        DEF Inv, TypeOK, BusyFacts, Finish, netVars, Same, FreeClientPtr
  <2>2. ASSUME NEW r \in Requests, r = cur[t] PROVE TrueOK(r)' /\ FinalOK(r)'
    <3>1. CASE goesOn
          BY <1>b, <1>l, <2>2, <3>1 DEF TrueOK, FinalOK, BusyFacts
    <3>2. CASE ends /\ svc[t] = "authen"
      <4>1. reply'[r] = "SESSION_ERR"
            BY <2>2, <3>2 DEF Inv, TypeOK
      <4>q. QED
            BY <1>l, <1>p, <2>2, <3>2, <4>1 DEF TrueOK, FinalOK
    <3>3. CASE ends /\ svc[t] = "trade"
      <4>1. reply'[r] = IF verdict[t] THEN "SUCCESS" ELSE Handler(r).err
            BY <2>2, <3>3 DEF Inv, TypeOK
      <4>2. TrueOK(r)'
            BY <1>b, <1>l, <1>p, <2>2, <3>3, <4>1 DEF TrueOK, BusyFacts, Handler
      <4>3. ASSUME CallTimes = 1, IsOrder(r)
            PROVE  Budget(r, "trade") = 1 /\ Last(t) = 1
            BY <1>b, <1>l, <2>2, <3>3, <4>3
            DEF Inv, TypeOK, ThreadInv, ThreadOK, BusyFacts, WellFormed, IsOrder, Budget, Last
      <4>4. ASSUME CallTimes = 1, IsOrder(r)
            PROVE  /\ \A m \in sent : m.req = r => m.svc # "trade"
                   /\ executed[r] # {} => verdict[t]
        <5>1. \A m \in sent : m.req = r /\ m.svc = "trade" => m.n = 1
              BY <4>3, <4>4 DEF Inv, MessageInv
        <5>2. executed[r] # {} => 1 \in executed[r]
              BY <4>3, <4>4 DEF Inv, ExecutedInv
        <5>q. QED
              BY <1>p, <2>2, <3>3, <4>3, <4>4, <5>1, <5>2
      <4>5. FinalOK(r)'
            BY <1>l, <4>1, <4>4 DEF FinalOK, IsOrder, Handler
      <4>q. QED
            BY <4>2, <4>5
    <3>q. QED
          BY <1>b, <1>l, <3>1, <3>2, <3>3 DEF BusyFacts, Services
  <2>q. QED
        BY <1>b, <2>1, <2>2
        DEF ReplyIsTrue, OrderReplyIsFinal, TrueOK, FinalOK, BusyFacts
<1>9. ProgressInv'
  <2>1. ProgressOK(t)'
        BY <1>l, <1>p DEF ProgressOK
  <2>2. ASSUME NEW u \in Threads, u # t PROVE ProgressOK(u)'
    <3>1. cur[u] # cur[t]
          BY <1>b, <2>2 DEF Inv, ThreadInv, ThreadOK, BusyFacts
    <3>q. QED
          BY <1>b, <2>2, <3>1, OtherProgress
          DEF Inv, TypeOK, BusyFacts, Same, FreeClientPtr, Finish, netVars
  <2>q. QED
        BY <2>1, <2>2 DEF ProgressInv
<1>q. QED
      BY <1>1, <1>2, <1>3, <1>4, <1>5, <1>6, <1>7, <1>8, <1>a, <1>c, <1>9
      DEF Inv

\* A step that receives request r: nothing that concerns the others changes.
ReceiveFacts(r, q) ==
    /\ r \in Requests /\ q \in RequestRecord /\ req[r] = Absent /\ reply[r] = "none"
    /\ req' = [req EXCEPT ![r] = q]
    /\ q # Absent
    /\ executed[r] = {}
    /\ \A m \in sent \cup answers : m.req # r
    /\ \A u \in Threads : cur[u] # r
    /\ \A p \in Requests : p # r => req'[p] = req[p]

\* A request that is received has left no trace yet.
LEMMA ReceivedIsNew ==
  ASSUME Inv, NEW r \in Requests, NEW q \in RequestRecord, req[r] = Absent,
         req' = [req EXCEPT ![r] = q]
  PROVE  ReceiveFacts(r, q)
<1>1. \A p \in Requests : req[p] \in Accepted => req[p] # Absent
      BY AcceptedFacts
<1>2. \A u \in Threads : cur[u] # r
  <2> SUFFICES ASSUME NEW u \in Threads, cur[u] = r PROVE FALSE
      OBVIOUS
  <2>1. ThreadOK(u) /\ NoRequest # r
        BY NoneAssumption DEF Inv, ThreadInv
  <2>q. QED
        BY <1>1, <2>1 DEF ThreadOK
<1>3. executed[r] = {}
      BY <1>1 DEF Inv, ExecutedInv, Authorised
<1>4. \A m \in sent \cup answers : m.req # r
      BY DEF Inv, MessageInv
<1>5. reply[r] = "none" /\ \A p \in Requests : p # r => req'[p] = req[p]
      BY DEF Inv, TypeOK, AbsentInv
<1>q. QED
      BY <1>2, <1>3, <1>4, <1>5, AbsentIsNoRequest DEF ReceiveFacts

\* What it leaves of the network's invariants.
LEMMA ReceiveNet ==
  ASSUME Inv, NEW r, NEW q, ReceiveFacts(r, q), UNCHANGED netVars
  PROVE  MessageInv' /\ ExecutedInv'
<1>1. \A m \in sent \cup answers : m.req \in Requests /\ m.req # r
      BY DEF Inv, TypeOK, Message, Answer, ReceiveFacts
<1>2. MessageInv'
      BY <1>1
      DEF Inv, MessageInv, Authorised, Budget, Handler, ReceiveFacts, netVars
<1>3. ExecutedInv'
      BY DEF Inv, ExecutedInv, Authorised, Budget, Handler, ReceiveFacts,
             netVars
<1>q. QED
      BY <1>2, <1>3

\* A thread that does not receive it keeps its place.
LEMMA ReceiveOther ==
  ASSUME Inv, NEW r, NEW q, ReceiveFacts(r, q), UNCHANGED netVars,
         NEW u \in Threads, UNCHANGED <<pc[u], cur[u], svc[u], cl[u], tries[u], verdict[u]>>,
         UNCHANGED m_is_inited
  PROVE  ClientOK(u)' /\ ProgressOK(u)'
<1>1. ClientOK(u) /\ ProgressOK(u) /\ (pc[u] # "idle" => BusyFacts(u))
      BY Busy DEF Inv, ClientInv, ProgressInv
<1>2. pc[u] # "idle" => req'[cur[u]] = req[cur[u]]
      BY <1>1 DEF ReceiveFacts, BusyFacts
<1>3. pc[u] # "idle" => Last(u)' = Last(u)
      BY <1>2 DEF Last, Budget, Handler
<1>4. ClientOK(u)'
      BY <1>1, <1>3 DEF ClientOK, Clean, netVars
<1>5. ProgressOK(u)'
      BY <1>1, <1>2, <1>3 DEF ProgressOK, netVars
<1>q. QED
      BY <1>4, <1>5

\* A handler replies without a server: nothing can have been done.
LEMMA HandleLocallyStep ==
  ASSUME Inv, NEW t \in Threads, NEW r \in Requests, NEW q \in RequestRecord,
         HandleLocally(t, r, q)
  PROVE  Inv'
<1>r. ReceiveFacts(r, q)
      BY ReceivedIsNew DEF HandleLocally
<1>c. PICK code \in Immediate(q) : reply' = [reply EXCEPT ![r] = code]
      BY DEF HandleLocally
<1>i. code \in Codes /\ (code = "SUCCESS" => ~Handlers[q.api].remote)
      BY ImmediateFacts
<1>u. UNCHANGED <<threadVars, poolVars, netVars>>
      BY DEF HandleLocally
<1>1. TypeOK'
      BY <1>r, <1>c, <1>i, <1>u
      DEF Inv, TypeOK, ReceiveFacts, threadVars, poolVars, netVars
<1>2. ThreadInv'
  <2> SUFFICES ASSUME NEW u \in Threads PROVE ThreadOK(u)'
      BY DEF ThreadInv
  <2>1. ThreadOK(u) /\ (pc[u] # "idle" => BusyFacts(u))
        BY Busy DEF Inv, ThreadInv
  <2>2. pc[u] # "idle" => req'[cur[u]] = req[cur[u]] /\ reply'[cur[u]] = reply[cur[u]]
        BY <1>r, <1>c, <2>1 DEF Inv, TypeOK, ReceiveFacts, BusyFacts
  <2>q. QED
        BY <1>u, <2>1, <2>2
        DEF ThreadOK, Authorised, Budget, Handler, threadVars
<1>3. MutexInv' /\ Exclusive' /\ PooledIsClean' /\ UnusedIsClean'
      BY <1>u
      DEF Inv, MutexInv, Exclusive, PooledIsClean, UnusedIsClean, Unused,
          Clean,
                  threadVars, poolVars, netVars
<1>4. ClientInv' /\ ProgressInv'
      BY <1>r, <1>u, ReceiveOther
      DEF ClientInv, ProgressInv, threadVars, poolVars
<1>5. MessageInv' /\ ExecutedInv'
      BY <1>r, <1>u, ReceiveNet
<1>6. AbsentInv'
      BY <1>r, <1>c DEF Inv, TypeOK, AbsentInv, ReceiveFacts
<1>7. ReplyIsTrue' /\ OrderReplyIsFinal'
  <2>1. ASSUME NEW p \in Requests, p # r PROVE TrueOK(p)' /\ FinalOK(p)'
    <3>1. TrueOK(p) /\ FinalOK(p)
          BY DEF Inv, ReplyIsTrue, OrderReplyIsFinal, TrueOK, FinalOK
    <3>2. reply'[p] = reply[p] /\ req'[p] = req[p]
          BY <1>r, <1>c, <2>1 DEF Inv, TypeOK, ReceiveFacts
    <3>q. QED
          BY <1>u, <3>1, <3>2 DEF TrueOK, FinalOK, IsOrder, Handler, netVars
  <2>2. TrueOK(r)' /\ FinalOK(r)'
    <3>1. reply'[r] = code /\ req'[r] = q
          BY <1>r, <1>c DEF Inv, TypeOK, ReceiveFacts
    <3>q. QED
          BY <1>r, <1>i, <1>u, <3>1
          DEF TrueOK, FinalOK, Handler, ReceiveFacts, netVars
  <2>q. QED
        BY <2>1, <2>2 DEF ReplyIsTrue, OrderReplyIsFinal, TrueOK, FinalOK
<1>q. QED
      BY <1>1, <1>2, <1>3, <1>4, <1>5, <1>6, <1>7 DEF Inv

\* A handler starts with a request that nothing was done for.
LEMMA HandleRemotelyStep ==
  ASSUME Inv, NEW t \in Threads, NEW r \in Requests, NEW q \in RequestRecord,
         HandleRemotely(t, r, q)
  PROVE  Inv'
<1>r. ReceiveFacts(r, q)
      BY ReceivedIsNew DEF HandleRemotely
<1>q1. q \in Accepted
      BY AcceptedFacts DEF HandleRemotely
<1>u. UNCHANGED <<reply, cl, tries, verdict, poolVars, netVars>>
      BY DEF HandleRemotely
<1>1. TypeOK'
      BY <1>r, <1>u
      DEF Inv, TypeOK, ReceiveFacts, Services, HandleRemotely, poolVars,
          netVars
<1>t. /\ pc[t] = "idle" /\ pc'[t] = "get" /\ cur'[t] = r /\ req'[r] = q
      /\ svc'[t] = (IF Handlers[q.api].validate THEN "authen" ELSE "trade")
      /\ \A u \in Threads : u # t =>
            pc'[u] = pc[u] /\ cur'[u] = cur[u] /\ svc'[u] = svc[u]
      BY DEF Inv, TypeOK, HandleRemotely
<1>2. ThreadInv'
  <2>1. ThreadOK(t)'
    <3>1. ThreadOK(t)
          BY DEF Inv, ThreadInv
    <3>q. QED
          BY <1>r, <1>q1, <1>u, <1>t, <3>1, NoneAssumption
          DEF ThreadOK, ReceiveFacts, Authorised, Handler
  <2>2. ASSUME NEW u \in Threads, u # t PROVE ThreadOK(u)'
    <3>1. ThreadOK(u) /\ (pc[u] # "idle" => BusyFacts(u))
          BY Busy DEF Inv, ThreadInv
    <3>2. pc[u] # "idle" => req'[cur[u]] = req[cur[u]] /\ cur[u] # r
          BY <1>r, <3>1 DEF ReceiveFacts, BusyFacts
    <3>3. \A v \in Threads : cur'[v] = cur[v] \/ cur'[v] = r
          BY <1>t
    <3>q. QED
          BY <1>u, <1>t, <2>2, <3>1, <3>2, <3>3
          DEF ThreadOK, Authorised, Budget, Handler
  <2>q. QED
        BY <2>1, <2>2 DEF ThreadInv
<1>3. MutexInv'
      BY <1>u, <1>t DEF Inv, TypeOK, MutexInv, poolVars
<1>4. Exclusive' /\ PooledIsClean' /\ UnusedIsClean'
      BY <1>u DEF Inv, Exclusive, PooledIsClean, UnusedIsClean, Unused, Clean,
                  poolVars, netVars
<1>5. ClientInv' /\ ProgressInv'
  <2>1. ClientOK(t)' /\ ProgressOK(t)'
        BY <1>r, <1>u, <1>t DEF ClientOK, ProgressOK, ReceiveFacts, netVars
  <2>2. ASSUME NEW u \in Threads, u # t PROVE ClientOK(u)' /\ ProgressOK(u)'
        BY <1>r, <1>u, <1>t, <2>2, ReceiveOther DEF poolVars
  <2>q. QED
        BY <2>1, <2>2 DEF ClientInv, ProgressInv
<1>6. MessageInv' /\ ExecutedInv'
      BY <1>r, <1>u, ReceiveNet
<1>7. AbsentInv'
      BY <1>r, <1>u DEF Inv, AbsentInv, ReceiveFacts
<1>8. ReplyIsTrue' /\ OrderReplyIsFinal'
  <2>1. ASSUME NEW p \in Requests PROVE TrueOK(p)' /\ FinalOK(p)'
    <3>1. TrueOK(p) /\ FinalOK(p)
          BY DEF Inv, ReplyIsTrue, OrderReplyIsFinal, TrueOK, FinalOK
    <3>2. p # r => req'[p] = req[p]
          BY <1>r DEF ReceiveFacts
    <3>q. QED
          BY <1>r, <1>u, <3>1, <3>2
          DEF TrueOK, FinalOK, IsOrder, Handler, ReceiveFacts, netVars
  <2>q. QED
        BY <2>1 DEF ReplyIsTrue, OrderReplyIsFinal, TrueOK, FinalOK
<1>q. QED
      BY <1>1, <1>2, <1>3, <1>4, <1>5, <1>6, <1>7, <1>8 DEF Inv

\* A lost request leaves less to be said.
LEMMA LoseStep ==
  ASSUME Inv, NEW m \in sent, Lose(m)
  PROVE  Inv'
<1>u. sent' \subseteq sent /\ UNCHANGED <<req, reply, threadVars, poolVars, answers, executed>>
      BY DEF Lose
<1>1. TypeOK' /\ ThreadInv' /\ MutexInv' /\ AbsentInv' /\ Exclusive'
      BY <1>u
      DEF Inv, TypeOK, ThreadInv, ThreadOK, MutexInv, AbsentInv, Exclusive,
                  Authorised, Budget, Handler, threadVars, poolVars
<1>2. PooledIsClean' /\ UnusedIsClean'
      BY <1>u
      DEF Inv, PooledIsClean, UnusedIsClean, Unused, Clean, threadVars,
          poolVars
<1>3. ClientInv' /\ ProgressInv'
      BY <1>u, OtherClient, OtherProgress
      DEF Inv, ClientInv, ProgressInv, Same, threadVars, poolVars
<1>4. MessageInv' /\ ExecutedInv'
      BY <1>u DEF Inv, MessageInv, ExecutedInv, Authorised, Budget, Handler
<1>5. ReplyIsTrue' /\ OrderReplyIsFinal'
      BY <1>u DEF Inv, ReplyIsTrue, OrderReplyIsFinal, IsOrder, Handler
<1>q. QED
      BY <1>1, <1>2, <1>3, <1>4, <1>5 DEF Inv

\* A server executes an attempt, once; its answer takes the attempt's place on
\* the connection, if that still exists.
LEMMA ExecuteStep ==
  ASSUME Inv, NEW m \in sent, NEW ok \in BOOLEAN, Execute(m, ok)
  PROVE  Inv'
<1>u. UNCHANGED <<req, reply, threadVars, poolVars>> /\ sent' = sent \ {m}
      BY DEF Execute
<1>m. m \in Message /\ m.req \in Requests /\ m.n \in Nat
      BY DEF Inv, TypeOK, Message
<1>a. ASSUME NEW a \in answers', a \notin answers
      PROVE  /\ a.req = m.req /\ a.svc = m.svc /\ a.n = m.n /\ a.ok = ok
             /\ a.chan = m.chan /\ m.chan \in Clients /\ a \in Answer
             /\ a = [req |-> m.req, svc |-> m.svc, n |-> m.n, chan |-> m.chan, ok |-> ok]
      BY <1>a, <1>m DEF Execute, Answer, Message
<1>e. /\ executed' \in [Requests -> SUBSET Nat]
      /\ \A r \in Requests :
            executed'[r] = IF m.svc = "trade" /\ ok /\ r = m.req
                           THEN executed[r] \cup {m.n} ELSE executed[r]
      BY <1>m DEF Inv, TypeOK, Execute
<1>n. /\ req[m.req] # Absent /\ m.n \in 1 .. Budget(m.req, m.svc)
      /\ m.svc = "trade" => Authorised(m.req) /\ m.n \notin executed[m.req]
      /\ \A a \in answers : ~Same(m, a)
      /\ \A k \in sent' : k \in sent /\ ~Same(k, m)
      BY <1>u DEF Inv, MessageInv
<1>1. TypeOK'
  <2>1. answers' \subseteq Answer
        BY <1>a DEF Inv, TypeOK
  <2>q. QED
        BY <1>u, <1>e, <2>1 DEF Inv, TypeOK, threadVars, poolVars
<1>2. ThreadInv' /\ MutexInv' /\ AbsentInv' /\ Exclusive'
      BY <1>u DEF Inv, ThreadInv, ThreadOK, MutexInv, AbsentInv, Exclusive,
                  Authorised, Budget, Handler, threadVars, poolVars
<1>3. PooledIsClean' /\ UnusedIsClean'
  <2>1. \A c \in Clients : Clean(c) => Clean(c)'
        BY <1>u, <1>a DEF Clean
  <2>2. \A s \in Services : \A c \in m_client_set[s] : c \in Clients
        BY DEF Inv, TypeOK
  <2>q. QED
        BY <1>u, <2>1, <2>2
        DEF Inv, PooledIsClean, UnusedIsClean, Unused, Clean, threadVars, poolVars
<1>4. ClientInv'
  <2> SUFFICES ASSUME NEW u \in Threads PROVE ClientOK(u)'
      BY DEF ClientInv
  <2>1. ClientOK(u) /\ UNCHANGED <<pc, cl, cur, svc, m_is_inited>> /\ Last(u)' = Last(u)
        BY <1>u DEF Inv, ClientInv, Last, Budget, Handler, threadVars, poolVars
  <2>2. CASE m.chan = cl[u]
    <3>1. pc[u] \in {"new", "free"} => FALSE
          BY <2>1, <2>2 DEF ClientOK, Clean
    <3>2. pc[u] = "call" => ~m_is_inited[cl[u]]
          BY <2>1, <2>2 DEF ClientOK, Clean
    <3>3. pc[u] = "wait" =>
             /\ m.req = cur[u] /\ m.svc = svc[u] /\ m.n = Last(u)
             /\ \A a \in answers : a.chan # cl[u]
             /\ \A k \in sent : k.chan = cl[u] => Same(k, m)
          BY <2>1, <2>2 DEF ClientOK, Same
    <3>4. pc[u] = "wait" =>
             /\ \A k \in sent' : k.chan # cl[u]
             /\ \A a \in answers' : a.chan = cl[u] =>
                  /\ a.req = cur[u] /\ a.svc = svc[u] /\ a.n = Last(u)
                  /\ \A b \in answers' : b.chan = cl[u] => b = a
          BY <1>n, <1>a, <3>3
    <3>q. QED
          BY <2>1, <3>1, <3>2, <3>4 DEF ClientOK
  <2>3. CASE m.chan # cl[u]
    <3>1. \A a \in answers' : a.chan = cl[u] => a \in answers
          BY <1>a, <2>3
    <3>q. QED
          BY <1>u, <2>1, <3>1 DEF ClientOK, Clean
  <2>q. QED
        BY <2>2, <2>3
<1>5. MessageInv'
  <2>1. \A k \in sent' : k.svc = "trade" => k.n \notin executed'[k.req]
        BY <1>n, <1>e DEF Inv, TypeOK, MessageInv, Message, Same
  <2>2. ASSUME NEW a \in answers'
        PROVE  /\ req[a.req] # Absent
               /\ \A k \in sent' : ~Same(k, a)
               /\ a.svc = "trade" => (a.ok <=> a.n \in executed'[a.req])
               /\ a.svc = "authen" /\ a.ok => req[a.req].valid
    <3>1. CASE a \in answers
      <4>1. a.req \in Requests /\ ~Same(m, a)
            BY <1>n, <3>1 DEF Inv, TypeOK, Answer
      <4>2. a.svc = "trade" => (a.n \in executed'[a.req] <=> a.n \in executed[a.req])
            BY <1>e, <4>1 DEF Same
      <4>q. QED
            BY <1>n, <3>1, <4>2 DEF Inv, MessageInv
    <3>2. CASE a \notin answers
      <4>1. /\ a.req = m.req /\ a.svc = m.svc /\ a.n = m.n /\ a.ok = ok
            BY <1>a, <3>2
      <4>2. m.svc = "trade" => (ok <=> m.n \in executed'[m.req])
            BY <1>e, <1>m, <1>n
      <4>3. m.svc = "authen" /\ ok => req[m.req].valid
            BY DEF Execute
      <4>q. QED
            BY <1>n, <4>1, <4>2, <4>3 DEF Same
    <3>q. QED
          BY <3>1, <3>2
  <2>q. QED
        BY <1>u, <1>n, <2>1, <2>2
        DEF Inv, MessageInv, Authorised, Budget, Handler
<1>6. ExecutedInv'
  <2> SUFFICES ASSUME NEW r \in Requests, executed'[r] # {}
               PROVE  Authorised(r)' /\ executed'[r] \subseteq 1 .. Budget(r, "trade")'
      BY DEF ExecutedInv
  <2>1. Authorised(r) /\ executed'[r] \subseteq 1 .. Budget(r, "trade")
        BY <1>e, <1>n DEF Inv, ExecutedInv
  <2>q. QED
        BY <1>u, <2>1 DEF Authorised, Budget, Handler
<1>7. ReplyIsTrue' /\ OrderReplyIsFinal'
  <2>1. ASSUME NEW r \in Requests PROVE TrueOK(r)' /\ FinalOK(r)'
    <3>1. TrueOK(r) /\ FinalOK(r)
          BY DEF Inv, ReplyIsTrue, OrderReplyIsFinal, TrueOK, FinalOK
    <3>2. executed[r] \subseteq executed'[r]
          BY <1>e
    <3>3. (\A k \in sent : k.req = r => k.svc # "trade") => executed'[r] = executed[r]
          BY <1>e
    <3>q. QED
          BY <1>u, <3>1, <3>2, <3>3 DEF TrueOK, FinalOK, IsOrder, Handler
  <2>q. QED
        BY <2>1 DEF ReplyIsTrue, OrderReplyIsFinal, TrueOK, FinalOK
<1>8. ProgressInv'
  <2> SUFFICES ASSUME NEW u \in Threads, pc[u] # "idle" PROVE ProgressOK(u)'
      BY <1>u DEF ProgressInv, ProgressOK, threadVars
  <2>1. /\ ProgressOK(u) /\ BusyFacts(u) /\ Last(u)' = Last(u)
        /\ UNCHANGED <<req, pc, cur, svc, verdict>>
        BY <1>u, Busy DEF Inv, ProgressInv, Last, Budget, Handler, threadVars
  <2>2. \A k \in sent' \cup answers' : \E j \in sent \cup answers : Same(j, k)
        BY <1>u, <1>a DEF Same
  <2>3. m.req = cur[u] /\ m.svc = "trade" =>
           svc[u] = "trade" /\ pc[u] \in {"call", "wait", "free"} /\ m.n <= Last(u)
        BY <2>1 DEF ProgressOK, BusyFacts, Inv, TypeOK, Services
  <2>4. \A n \in executed'[cur[u]] : n \in executed[cur[u]] \/ (m.req = cur[u] /\ m.svc = "trade" /\ n = m.n)
        BY <1>e, <2>1 DEF BusyFacts
  <2>5. pc[u] = "free" /\ svc[u] = "trade" =>
           (Last(u) \in executed'[cur[u]] <=> Last(u) \in executed[cur[u]])
        BY <1>e, <2>1 DEF ProgressOK, BusyFacts
  <2>q. QED
        BY <1>u, <2>1, <2>2, <2>3, <2>4, <2>5 DEF ProgressOK, Same
<1>q. QED
      BY <1>1, <1>2, <1>3, <1>4, <1>5, <1>6, <1>7, <1>8 DEF Inv

-----------------------------------------------------------------------------
(* The theorems *)

\* Nothing has happened yet.
LEMMA InitInv == Init => Inv
<1> SUFFICES ASSUME Init PROVE Inv
    OBVIOUS
<1>1. TypeOK
      BY DEF Init, TypeOK, Services
<1>2. ThreadInv /\ MutexInv /\ AbsentInv
      BY NoneAssumption
      DEF Init, ThreadInv, ThreadOK, MutexInv, AbsentInv, Services
<1>3. Exclusive /\ PooledIsClean /\ UnusedIsClean /\ ClientInv
      BY DEF Init, Exclusive, PooledIsClean, UnusedIsClean, ClientInv,
             ClientOK, Clean,
             Services
<1>4. MessageInv /\ ExecutedInv /\ ProgressInv /\ ReplyIsTrue /\ OrderReplyIsFinal
      BY DEF Init, MessageInv, ExecutedInv, ProgressInv, ProgressOK,
             ReplyIsTrue,
             OrderReplyIsFinal
<1>q. QED
      BY <1>1, <1>2, <1>3, <1>4 DEF Inv

\* Every step keeps the invariant.
LEMMA NextInv == Inv /\ [Next]_vars => Inv'
<1> SUFFICES ASSUME Inv, [Next]_vars PROVE Inv'
    OBVIOUS
<1>1. ASSUME NEW t \in Threads, Receive(t) PROVE Inv'
      BY <1>1, HandleLocallyStep, HandleRemotelyStep DEF Receive
<1>2. ASSUME NEW t \in Threads, Step(t) PROVE Inv'
      BY <1>2, GetClientPtrStep, NewClientPtrStep, NewClientConnectedStep,
         CallSendStep,
         CallNotSentStep, CallReturnsStep, CallThrowsStep, FreeClientPtrStep, GiveUpStep
      DEF Step
<1>3. ASSUME Server PROVE Inv'
      BY <1>3, ExecuteStep, LoseStep DEF Server
<1>4. ASSUME UNCHANGED vars PROVE Inv'
  <2> USE <1>4 DEF vars, threadVars, poolVars, netVars
  <2>1. TypeOK' /\ MutexInv' /\ AbsentInv' /\ Exclusive'
        BY DEF Inv, TypeOK, MutexInv, AbsentInv, Exclusive
  <2>2. ThreadInv'
        BY DEF Inv, ThreadInv, ThreadOK, Authorised, Budget, Handler
  <2>3. PooledIsClean' /\ UnusedIsClean'
        BY DEF Inv, PooledIsClean, UnusedIsClean, Unused, Clean
  <2>4. ClientInv' /\ ProgressInv'
        BY OtherClient, OtherProgress DEF ClientInv, ProgressInv, Same
  <2>5. MessageInv' /\ ExecutedInv' /\ ReplyIsTrue' /\ OrderReplyIsFinal'
        BY NetFrame
  <2>q. QED
        BY <2>1, <2>2, <2>3, <2>4, <2>5 DEF Inv
<1>q. QED
      BY <1>1, <1>2, <1>3, <1>4 DEF Next, Terminated

\* The inductive invariant holds in every reachable state.
THEOREM Invariance == Spec => []Inv
  BY InitInv, NextInv, PTL DEF Spec

\* Every variable of the proxy keeps its type.
THEOREM TypeCorrect == Spec => []TypeOK
<1>1. Inv => TypeOK
      BY DEF Inv
<1>q. QED
      BY <1>1, Invariance, PTL

\* ClientPool: a client is in one pool or with one thread.
THEOREM ExclusiveClients == Spec => []Exclusive
<1>1. Inv => Exclusive
      BY DEF Inv
<1>q. QED
      BY <1>1, Invariance, PTL

\* FreeClientPtr gives back only connections on which nothing is owed.
THEOREM CleanPools == Spec => []PooledIsClean
<1>1. Inv => PooledIsClean
      BY DEF Inv
<1>q. QED
      BY <1>1, Invariance, PTL

\* The retry loops never take a late answer for the answer to their call.
THEOREM AnswersAreOwn == Spec => []OwnAnswer
<1>1. ASSUME Inv PROVE OwnAnswer
  <2> SUFFICES ASSUME NEW t \in Threads, pc[t] = "wait",
                      NEW a \in answers, a.chan = cl[t]
               PROVE  /\ a.req = cur[t] /\ a.svc = svc[t]
                      /\ a.n + tries[t] = Budget(cur[t], svc[t])
      BY DEF OwnAnswer
  <2>1. a.req = cur[t] /\ a.svc = svc[t] /\ a.n = Last(t)
        BY <1>1 DEF Inv, ClientInv, ClientOK
  <2>2. tries[t] \in Nat /\ Budget(cur[t], svc[t]) \in Nat
        BY <1>1, Busy DEF Inv, TypeOK, BusyFacts
  <2>q. QED
        BY <2>1, <2>2 DEF Last
<1>q. QED
      BY <1>1, Invariance, PTL

\* AddOrder and DeleteOrder take effect at most CallTimes times for a request.
THEOREM OrdersAtMostOnce == Spec => []AtMostOnce
<1>1. ASSUME Inv PROVE AtMostOnce
  <2> SUFFICES ASSUME NEW r \in Requests, IsOrder(r)
               PROVE  Cardinality(executed[r]) <= CallTimes
      BY DEF AtMostOnce
  <2>1. Budget(r, "trade") = CallTimes /\ CallTimes \in Nat
        BY <1>1, HandlerOf, TimesAssumption DEF Inv, IsOrder, WellFormed, Budget
  <2>2. executed[r] \subseteq 1 .. CallTimes
        BY <1>1, <2>1 DEF Inv, ExecutedInv
  <2>3. IsFiniteSet(1 .. CallTimes) /\ Cardinality(1 .. CallTimes) = CallTimes
        BY <2>1, FS_Interval
  <2>q. QED
        BY <2>2, <2>3, FS_Subset
<1>q. QED
      BY <1>1, Invariance, PTL

\* FuturesTrade and CancelPendingOrder act for validated sessions only.
THEOREM OrdersAreAuthorised == Spec => []OrdersAuthorised
<1>1. ASSUME Inv PROVE OrdersAuthorised
  <2> SUFFICES ASSUME NEW r \in Requests, IsOrder(r), executed[r] # {}
               PROVE  /\ req[r].session /\ req[r].valid
                      /\ Handler(r).signed => req[r].signed
      BY DEF OrdersAuthorised
  <2>1. Authorised(r)
        BY <1>1 DEF Inv, ExecutedInv
  <2>q. QED
        BY <2>1, AcceptedOrder DEF Authorised, IsOrder, Handler
<1>q. QED
      BY <1>1, Invariance, PTL

\* A handler's reply says what the trade server did, as far as it can know.
THEOREM RepliesAreTrue == Spec => []ReplyIsTrue
<1>1. Inv => ReplyIsTrue
      BY DEF Inv
<1>q. QED
      BY <1>1, Invariance, PTL

\* With FLAGS_rpc_call_times = 1 the reply to an order is final.
THEOREM OrderRepliesAreFinal == Spec => []OrderReplyIsFinal
<1>1. Inv => OrderReplyIsFinal
      BY DEF Inv
<1>q. QED
      BY <1>1, Invariance, PTL

-----------------------------------------------------------------------------
(* The proxy implements OrderService *)

\* The state of OrderService, of one request.
Done(r) == IF IsOrder(r) THEN executed[r] ELSE {}

\* The refinement mapping.
asked     == [r \in Requests |-> Kind(r)]
performed == [r \in Requests |-> Done(r)]

\* An authorised order is one the user is entitled to.
LEMMA AuthorisedKind ==
    ASSUME NEW r \in Requests, Authorised(r), IsOrder(r)
    PROVE  Kind(r) = "order"
  BY AcceptedOrder DEF Authorised, IsOrder, Kind, Handler

\* A step that leaves requests, replies and what was executed alone.
LEMMA Stutters ==
    ASSUME UNCHANGED <<req, reply, executed>>
    PROVE  UNCHANGED Service!vars
  BY DEF Service!vars, Kind, IsOrder, Handler

\* Only Ask changes what a request is.
LEMMA AskRefines ==
    ASSUME Inv, NEW t \in Threads, NEW r \in Requests, NEW q \in RequestRecord,
           HandleLocally(t, r, q) \/ HandleRemotely(t, r, q)
    PROVE  \E k \in Service!Kinds : Service!Ask(r, k)
<1>1. /\ req[r] = Absent /\ req' = [req EXCEPT ![r] = q]
      /\ req \in [Requests -> RequestRecord \cup {Absent}]
      /\ reply \in [Requests -> Codes \cup {"none"}]
      /\ UNCHANGED executed
      BY DEF Inv, TypeOK, HandleLocally, HandleRemotely, netVars
<1>2. q # Absent /\ req'[r] = q /\ \A s \in Requests : s # r => req'[s] = req[s]
      BY <1>1, AbsentIsNoRequest
<1>3. executed[r] = {}
      BY <1>1, AbsentIsNoRequest DEF Inv, ExecutedInv, Authorised, Accepted
<1>4. asked[r] = "none" /\ Kind(r)' \in Service!Kinds
      BY <1>1, <1>2 DEF asked, Kind, Service!Kinds
<1>5. asked' = [asked EXCEPT ![r] = Kind(r)']
      BY <1>2 DEF asked, Kind, Handler
<1>6. performed' = performed
  <2>1. \A s \in Requests : Done(s)' = Done(s)
        BY <1>1, <1>2, <1>3 DEF Done, IsOrder, Handler
  <2>q. QED
        BY <2>1 DEF performed
<1>7. CASE HandleRemotely(t, r, q)
      BY <1>4, <1>5, <1>6, <1>7
      DEF HandleRemotely, Service!Ask, asked, performed, Done
<1>8. CASE HandleLocally(t, r, q)
  <2>1. PICK code \in Immediate(q) : reply' = [reply EXCEPT ![r] = code]
        BY <1>8 DEF HandleLocally
  <2>2. code \in Service!Truthful(Kind(r)', {})
    <3>1. code \in Codes
          BY <2>1, ImmediateFacts
    <3>2. q.api \in AllApis /\ WellFormed(Handlers[q.api])
          BY ApisAssumption, HandlersFacts DEF RequestRecord
    <3>3. Handlers[q.api].rpc.order =>
             /\ code \in Service!Refusals
             /\ ~q.session \/ (Handlers[q.api].signed /\ ~q.signed)
          BY <2>1, <3>2 DEF Immediate, WellFormed, Service!Refusals
    <3>q. QED
          BY <1>2, <3>1, <3>3
          DEF Service!Truthful, Service!Refusals, Kind, Handler
  <2>q. QED
        BY <1>4, <1>5, <1>6, <2>1, <2>2
        DEF Service!Ask, asked, performed, Done
<1>q. QED
      BY <1>7, <1>8

\* A handler that ends answers what OrderService allows.
LEMMA AnswerRefines ==
    ASSUME Inv, NEW t \in Threads, pc[t] # "idle", NEW code \in Codes,
           Finish(t, code), UNCHANGED <<req, executed>>, Inv',
           Kind(cur[t]) = "forged" => code \in Service!Refusals
    PROVE  Service!Answer(cur[t], code) /\ cur[t] \in Requests
<1> DEFINE r == cur[t]
<1>1. r \in Requests /\ req[r] # Absent /\ reply[r] = "none"
      BY Busy, AbsentIsNoRequest
      DEF Inv, ThreadInv, ThreadOK, BusyFacts, Accepted
<1>2. reply' = [reply EXCEPT ![r] = code] /\ reply'[r] = code
      BY <1>1 DEF Finish, Inv, TypeOK
<1>3. asked[r] = Kind(r) /\ performed[r] = Done(r) /\ asked[r] # "none"
      BY <1>1 DEF asked, performed, Kind
<1>4. asked' = asked /\ performed' = performed
      BY DEF asked, performed, Kind, Done, IsOrder, Handler
<1>5. Kind(r) = "order" => IsOrder(r) /\ Handler(r).remote
      BY <1>1, HandlerOf DEF Inv, Kind, IsOrder, WellFormed
<1>6. code \in Service!Truthful(Kind(r), Done(r))
  <2>1. Kind(r) = "order" /\ code = "SUCCESS" => executed[r] # {}
        BY <1>1, <1>2, <1>5 DEF Inv, ReplyIsTrue, Handler
  <2>2. code \in Service!Refusals => executed[r] = {}
        BY <1>1, <1>2 DEF Inv, ReplyIsTrue, Service!Refusals
  <2>3. Kind(r) = "order" /\ code \in Service!Errors /\ CallTimes = 1 => executed[r] = {}
        BY <1>1, <1>2, <1>5
        DEF Inv, OrderReplyIsFinal, IsOrder, Handler, Service!Errors
  <2>q. QED
        BY <1>5, <2>1, <2>2, <2>3
        DEF Service!Truthful, Done
<1>q. QED
      BY <1>1, <1>2, <1>3, <1>4, <1>6 DEF Service!Answer, asked, performed, Done

\* The trade server executes a request: an order is performed, the rest stutters.
LEMMA PerformRefines ==
    ASSUME Inv, NEW m \in sent, NEW ok \in BOOLEAN, Execute(m, ok)
    PROVE  (\E n \in 1 .. CallTimes : Service!Perform(m.req, n))
           \/ UNCHANGED Service!vars
<1> DEFINE r == m.req
<1>1. r \in Requests /\ UNCHANGED <<req, reply>>
      /\ executed \in [Requests -> SUBSET Nat]
      BY DEF Inv, TypeOK, Message, Execute
<1>2. CASE m.svc = "trade" /\ ok /\ IsOrder(r)
  <2>1. executed' = [executed EXCEPT ![r] = @ \cup {m.n}]
        BY <1>2 DEF Execute
  <2>2. Authorised(r) /\ m.n \in 1 .. Budget(r, "trade") /\ m.n \notin executed[r]
        BY <1>2 DEF Inv, MessageInv
  <2>3. Budget(r, "trade") = CallTimes
        BY <1>1, <1>2, HandlerOf DEF Inv, IsOrder, WellFormed, Budget
  <2>4. asked[r] = "order" /\ performed[r] = executed[r]
        BY <1>1, <1>2, <2>2, AuthorisedKind DEF asked, performed, Done
  <2>5. reply[r] \in Service!Unsettled
    <3>1. reply[r] \in Codes \cup {"none"} /\ reply[r] \notin {"REQ_ERR", "SESSION_ERR"}
          BY <1>1, <1>2 DEF Inv, TypeOK, ReplyIsTrue
    <3>2. CallTimes = 1 => reply[r] \in {"none", "INFO_BUSY"}
          BY <1>1, <1>2 DEF Inv, OrderReplyIsFinal
    <3>q. QED
          BY <3>1, <3>2 DEF Service!Unsettled, Service!Refusals
  <2>6. asked' = asked
        BY <1>1 DEF asked, Kind, Handler
  <2>7. performed' = [performed EXCEPT ![r] = @ \cup {m.n}]
    <3>1. Done(r)' = executed[r] \cup {m.n}
          BY <1>1, <1>2, <2>1 DEF Done, IsOrder, Handler
    <3>2. \A s \in Requests : s # r => Done(s)' = Done(s)
          BY <1>1, <2>1 DEF Done, IsOrder, Handler
    <3>q. QED
          BY <1>1, <2>4, <3>1, <3>2 DEF performed
  <2>q. QED
        BY <1>1, <2>2, <2>3, <2>4, <2>5, <2>6, <2>7
        DEF Service!Perform, asked, performed, Done
<1>3. CASE ~(m.svc = "trade" /\ ok /\ IsOrder(r))
  <2>1. \A s \in Requests : Done(s)' = Done(s)
        BY <1>1, <1>3 DEF Done, Execute, IsOrder, Handler
  <2>2. asked' = asked /\ performed' = performed
        BY <1>1, <2>1 DEF asked, performed, Kind, Handler
  <2>q. QED
        BY <1>1, <2>2 DEF Service!vars, asked, performed, Done
<1>q. QED
      BY <1>2, <1>3

\* A handler that ends after an answer of a server.
LEMMA FreeRefines ==
    ASSUME Inv, Inv', NEW t \in Threads, FreeClientPtr(t)
    PROVE  (\E r \in Requests, code \in Codes : Service!Answer(r, code))
           \/ UNCHANGED Service!vars
<1>1. pc[t] # "idle" /\ UNCHANGED <<req, executed>>
      BY DEF FreeClientPtr, netVars
<1>2. cur[t] \in Requests /\ svc[t] \in Services
      BY <1>1, Busy DEF BusyFacts, Inv, TypeOK
<1>3. CASE svc[t] = "authen" /\ verdict[t]
      BY <1>3, Stutters DEF FreeClientPtr, netVars, Finish
<1>4. CASE svc[t] = "authen" /\ ~verdict[t]
  <2>1. Finish(t, "SESSION_ERR") /\ "SESSION_ERR" \in Codes
        BY <1>4 DEF FreeClientPtr, Codes
  <2>q. QED
        BY <1>1, <2>1, AnswerRefines DEF Service!Refusals
<1>5. CASE svc[t] = "trade"
  <2> DEFINE code == IF verdict[t] THEN "SUCCESS" ELSE Handler(cur[t]).err
  <2>1. Finish(t, code)
        BY <1>5 DEF FreeClientPtr
  <2>2. code \in Codes
        BY <1>1, Busy, HandlerOf
        DEF Inv, Codes, WellFormed, HandlerRecord, BusyFacts, ThreadInv, ThreadOK, Accepted
  <2>3. Kind(cur[t]) # "forged"
        BY <1>1, <1>2, <1>5, AuthorisedKind
        DEF Inv, ThreadInv, ThreadOK, Kind, IsOrder
  <2>q. QED
        BY <1>1, <2>1, <2>2, <2>3, AnswerRefines
<1>q. QED
      BY <1>2, <1>3, <1>4, <1>5 DEF Services

\* A handler that ends without an answer of a server.
LEMMA GiveUpRefines ==
    ASSUME Inv, Inv', NEW t \in Threads, GiveUp(t)
    PROVE  \E r \in Requests, code \in Codes : Service!Answer(r, code)
<1> DEFINE code == IF svc[t] = "authen" THEN "SESSION_ERR" ELSE "INFO_BUSY"
<1>1. pc[t] # "idle" /\ UNCHANGED <<req, executed>> /\ Finish(t, code) /\ code \in Codes
      BY DEF GiveUp, Codes
<1>2. cur[t] \in Requests /\ svc[t] \in Services
      BY <1>1, Busy DEF BusyFacts, Inv, TypeOK
<1>3. svc[t] = "trade" => Kind(cur[t]) # "forged"
      BY <1>1, <1>2, AuthorisedKind DEF Inv, ThreadInv, ThreadOK, Kind, IsOrder
<1>4. Kind(cur[t]) = "forged" => code \in Service!Refusals
      BY <1>2, <1>3 DEF Service!Refusals, Services
<1>q. QED
      BY <1>1, <1>4, AnswerRefines

\* The initial states of the proxy are initial states of OrderService.
LEMMA InitRefines == Init => Service!Init
  BY DEF Init, Service!Init, Kind, IsOrder

\* Every step of the proxy is a step of OrderService or leaves it alone.
LEMMA NextRefines == Inv /\ Inv' /\ [Next]_vars => [Service!Next]_(Service!vars)
<1> SUFFICES ASSUME Inv, Inv', [Next]_vars
             PROVE  Service!Next \/ UNCHANGED Service!vars
    OBVIOUS
<1>1. ASSUME NEW t \in Threads, Receive(t) PROVE Service!Next
      BY <1>1, AskRefines DEF Receive, Service!Next
<1>2. ASSUME NEW t \in Threads, Step(t) PROVE Service!Next \/ UNCHANGED Service!vars
  <2>1. CASE FreeClientPtr(t)
        BY <2>1, FreeRefines DEF Service!Next
  <2>2. CASE GiveUp(t)
        BY <2>2, GiveUpRefines DEF Service!Next
  <2>3. CASE UNCHANGED <<req, reply, executed>>
        BY <2>3, Stutters
  <2>q. QED
        BY <1>2, <2>1, <2>2, <2>3
        DEF Step, GetClientPtr, NewClientPtr, NewClientConnected, CallSend,
            CallNotSent, CallReturns, CallThrows, netVars
<1>3. ASSUME Server PROVE Service!Next \/ UNCHANGED Service!vars
  <2>1. ASSUME NEW m \in sent, NEW ok \in BOOLEAN, Execute(m, ok)
        PROVE  Service!Next \/ UNCHANGED Service!vars
        BY <2>1, PerformRefines DEF Service!Next, Inv, TypeOK, Message
  <2>2. ASSUME NEW m \in sent, Lose(m) PROVE UNCHANGED Service!vars
        BY <2>2, Stutters DEF Lose
  <2>q. QED
        BY <1>3, <2>1, <2>2 DEF Server
<1>4. CASE UNCHANGED vars
      BY <1>4, Stutters DEF vars, netVars
<1>q. QED
      BY <1>1, <1>2, <1>3, <1>4 DEF Next, Terminated

\* The handlers, pools and retry loops implement OrderService: for any number of
\* threads, clients and requests a user sees orders performed only if he is
\* entitled to them, at most CallTimes times, and settled by what he is told.
THEOREM Implementation == Spec => ImplementsOrderService
<1>1. Init => Service!Init
      BY InitRefines
<1>2. Inv /\ Inv' /\ [Next]_vars => [Service!Next]_(Service!vars)
      BY NextRefines
<1>q. QED
      BY <1>1, <1>2, Invariance, PTL DEF Spec, ImplementsOrderService, Service!Spec

-----------------------------------------------------------------------------
(* The size of a pool *)

\* PoolBounded for one pool; a set that is not finite has no cardinality.
BoundedOK(s) ==
    IsFiniteSet(Owned(s)) /\ Cardinality(Owned(s)) <= Cardinality(Threads)

\* A pool that only loses clients stays within its bound.
LEMMA FewerOwned ==
  ASSUME NEW s \in Services, BoundedOK(s), Owned(s)' \subseteq Owned(s)
  PROVE  BoundedOK(s)'
<1>1. IsFiniteSet(Owned(s)') /\ Cardinality(Owned(s)') <= Cardinality(Owned(s))
      BY FS_Subset DEF BoundedOK
<1>2. /\ Cardinality(Owned(s)') \in Nat /\ Cardinality(Owned(s)) \in Nat
      /\ Cardinality(Threads) \in Nat
      BY <1>1, FS_CardinalityType, ThreadsAssumption DEF BoundedOK
<1>q. QED
      BY <1>1, <1>2 DEF BoundedOK

\* Threads that hold one client each hold at most as many as they are.
LEMMA HeldBound ==
  ASSUME NEW H \in SUBSET Threads, NEW f, NEW C, C = {f[t] : t \in H}
  PROVE  IsFiniteSet(C) /\ Cardinality(C) <= Cardinality(Threads)
<1> DEFINE g == [t \in H |-> f[t]]
<1>1. IsFiniteSet(H) /\ Cardinality(H) <= Cardinality(Threads)
      BY ThreadsAssumption, FS_Subset
<1>2. g \in Surjection(H, C)
      BY DEF Surjection
<1>3. IsFiniteSet(C) /\ Cardinality(C) <= Cardinality(H)
      BY <1>1, <1>2, FS_Surjection
<1>4. /\ Cardinality(C) \in Nat /\ Cardinality(H) \in Nat /\ Cardinality(Threads) \in Nat
      BY <1>1, <1>3, FS_CardinalityType, ThreadsAssumption
<1>q. QED
      BY <1>1, <1>3, <1>4

\* GetClientPtr constructs a client only when it finds the pool empty; every
\* other step moves clients between a pool and its users, or drops them.
LEMMA BoundedStep ==
  ASSUME Inv, [Next]_vars, NEW s \in Services, BoundedOK(s)
  PROVE  BoundedOK(s)'
<1>1. ASSUME NEW t \in Threads, Receive(t) PROVE Owned(s)' \subseteq Owned(s)
      BY <1>1 DEF Receive, HandleLocally, HandleRemotely, Owned, Inv, TypeOK, ThreadInv,
                  ThreadOK, threadVars, poolVars
<1>2. ASSUME NEW t \in Threads, GetClientPtr(t) PROVE Owned(s)' \subseteq Owned(s)
      BY <1>2 DEF GetClientPtr, Owned, Inv, TypeOK
<1>3. ASSUME NEW t \in Threads, NewClientPtr(t) PROVE BoundedOK(s)'
  <2>1. CASE s = svc[t]
    <3> DEFINE H == {u \in Threads : svc'[u] = s /\ cl'[u] # NoClient}
    <3>1. m_client_set'[s] = {}
          BY <1>3, <2>1 DEF NewClientPtr
    <3>2. Owned(s)' = {cl'[u] : u \in H}
          BY <3>1 DEF Owned
    <3>3. H \in SUBSET Threads
          OBVIOUS
    <3> HIDE DEF H
    <3>q. QED
          BY <3>2, <3>3, HeldBound DEF BoundedOK
  <2>2. CASE s # svc[t]
    <3>1. Owned(s)' \subseteq Owned(s)
          BY <1>3, <2>2 DEF NewClientPtr, Owned, Inv, TypeOK
    <3>q. QED
          BY <3>1, FewerOwned
  <2>q. QED
        BY <2>1, <2>2
<1>4. ASSUME NEW t \in Threads, NewClientConnected(t) \/ CallSend(t) \/ CallNotSent(t)
                                   \/ CallReturns(t) \/ CallThrows(t)
      PROVE  Owned(s)' \subseteq Owned(s)
      BY <1>4 DEF NewClientConnected, CallSend, CallNotSent, CallReturns, CallThrows,
                  Owned, poolVars
<1>5. ASSUME NEW t \in Threads, FreeClientPtr(t) PROVE Owned(s)' \subseteq Owned(s)
  <2>1. cl[t] # NoClient
        BY <1>5 DEF FreeClientPtr, Inv, ThreadInv, ThreadOK
  <2>2. /\ cl' = [cl EXCEPT ![t] = NoClient]
        /\ m_client_set' = [m_client_set EXCEPT ![svc[t]] = @ \cup {cl[t]}]
        /\ \A u \in Threads : u # t => svc'[u] = svc[u]
        BY <1>5 DEF FreeClientPtr, Finish, Inv, TypeOK
  <2>q. QED
        BY <2>1, <2>2 DEF Owned, Inv, TypeOK
<1>6. ASSUME NEW t \in Threads, GiveUp(t) PROVE Owned(s)' \subseteq Owned(s)
      BY <1>6 DEF GiveUp, Finish, Owned, Inv, TypeOK, poolVars
<1>7. ASSUME Server PROVE Owned(s)' \subseteq Owned(s)
      BY <1>7 DEF Server, Execute, Lose, Owned, threadVars, poolVars
<1>8. ASSUME UNCHANGED vars PROVE Owned(s)' \subseteq Owned(s)
      BY <1>8 DEF vars, threadVars, poolVars, Owned
<1>q. QED
      BY <1>1, <1>2, <1>3, <1>4, <1>5, <1>6, <1>7, <1>8, FewerOwned
      DEF Next, Step, Terminated

\* ClientPool: however often threads give clients up and construct new ones, a
\* pool and its users never have more connections to a server than there are
\* server threads.
THEOREM PoolsAreBounded == Spec => []PoolBounded
<1> DEFINE Bounded == \A s \in Services : BoundedOK(s)
<1>1. ASSUME Init PROVE Bounded
  <2>1. ASSUME NEW s \in Services PROVE Owned(s) = {}
        BY <1>1 DEF Init, Owned, Services
  <2>2. /\ IsFiniteSet({}) /\ Cardinality({}) = 0
        /\ Cardinality(Threads) \in Nat
        BY FS_EmptySet, FS_CardinalityType, ThreadsAssumption
  <2>q. QED
        BY <2>1, <2>2 DEF BoundedOK
<1>2. Inv /\ Bounded /\ [Next]_vars => Bounded'
      BY BoundedStep
<1>3. Bounded => PoolBounded
      BY DEF BoundedOK, PoolBounded
<1> HIDE DEF Bounded
<1>q. QED
      BY <1>1, <1>2, <1>3, Invariance, PTL DEF Spec
=============================================================================

---------------------------- MODULE FuturesProxy ----------------------------
(***************************************************************************)
(* The back end of the proxy: server threads run the handlers of           *)
(* FuturesProxy, which take thrift clients from two ClientPools - one for  *)
(* the authentication server, one for the trade server - and call the      *)
(* servers through the retry loops of AuthenServerWrapper and              *)
(* SPTradeInfoWrapper.                                                     *)
(*                                                                         *)
(* The servers and the network are external.  A request that was sent may  *)
(* be lost, or executed at any later time, also after the caller gave up   *)
(* waiting; its answer comes back on the TCP connection the request was    *)
(* sent on, if that still exists.  A caller may get an exception (a        *)
(* timeout, a reset) whatever the server did or will do.                   *)
(*                                                                         *)
(* A member of Clients is the memory of one wrapper object together with   *)
(* its current TCP connection.  Each of Requests is handled at most once.  *)
(***************************************************************************)
EXTENDS FuturesApi, FiniteSets

CONSTANTS
    Threads, Requests, Clients,
    Apis,                         \* the handlers the requests are for
    NoThread, NoRequest, NoClient

ASSUME ApisAssumption == Apis \subseteq AllApis
ASSUME NoneAssumption ==
    NoThread \notin Threads /\ NoRequest \notin Requests /\ NoClient \notin Clients
\* FLAGS_server_thread_num threads.
ASSUME ThreadsAssumption == IsFiniteSet(Threads)

Services == {"authen", "trade"}

VARIABLES
    req,             \* what each request says, once a thread has received it
    reply,           \* status_no of each request's reply
    pc, cur, svc,    \* per thread: where it is, its request, the server it uses
    cl,              \* per thread: the client it holds
    tries,           \* per thread: retry_time
    verdict,         \* per thread: the server's err_no was SUCCESS
    m_client_set,    \* per pool
    m_clients_mutex, \* per pool
    m_is_inited,     \* per client
    sent,            \* requests on their way to, or in, a server
    answers,         \* answers in the receive buffer of a client's socket
    executed         \* per request: the attempts the trade server performed

threadVars == <<pc, cur, svc, cl, tries, verdict>>
poolVars   == <<m_client_set, m_clients_mutex, m_is_inited>>
netVars    == <<sent, answers, executed>>
vars       == <<req, reply, threadVars, poolVars, netVars>>

\* A request as the handler sees it; valid is what the authentication server
\* knows of its session.
RequestRecord ==
    [api : Apis, session : BOOLEAN, signed : BOOLEAN, valid : BOOLEAN]

Absent == [api |-> "none", session |-> FALSE, signed |-> FALSE, valid |-> FALSE]

Message == [req : Requests, svc : Services, n : Nat, chan : Clients \cup {NoClient}]
Answer  == [req : Requests, svc : Services, n : Nat, chan : Clients, ok : BOOLEAN]

-----------------------------------------------------------------------------

Handler(r) == Handlers[req[r].api]

\* The rounds of the retry loop for a call to service s on behalf of r.
Budget(r, s) == IF s = "authen" THEN RetryTimes ELSE Handler(r).rpc.tries

\* Faulty Immediate: a bad signature returns without FillStatusInfo.
ImmediateUnset(q) ==
    LET h == Handlers[q.api]
    IN  IF h.session /\ ~q.session THEN {"REQ_ERR"}
        ELSE IF h.signed /\ ~q.signed THEN {"UNKNOWN"}
        ELSE h.local

\* The codes a handler may reply with before it calls a server; {} when it
\* goes on to call one.
Immediate(q) ==
    LET h == Handlers[q.api]
    IN  IF h.session /\ ~q.session THEN {"REQ_ERR"}
        ELSE IF h.signed /\ ~q.signed THEN {"SESSION_ERR"}
        ELSE h.local

\* Thread t ends its handler with this code.
Finish(t, code) ==
    /\ reply' = [reply EXCEPT ![cur[t]] = code]
    /\ pc' = [pc EXCEPT ![t] = "idle"]
    /\ cur' = [cur EXCEPT ![t] = NoRequest]

\* The connection of client c is closed: requests on it are not answered any
\* more, unread answers are gone.
Orphaned(c) ==
    {[req |-> m.req, svc |-> m.svc, n |-> m.n,
      chan |-> IF m.chan = c THEN NoClient ELSE m.chan] : m \in sent}
Unread(c)   == {a \in answers : a.chan # c}

\* No shared_ptr refers to c.
Unused(c) ==
    /\ \A s \in Services : c \notin m_client_set[s]
    /\ \A t \in Threads : cl[t] # c

-----------------------------------------------------------------------------
(* FuturesProxy *)

\* A request that is answered without calling a server.
HandleLocally(t, r, q) ==
    /\ pc[t] = "idle" /\ req[r] = Absent
    /\ req' = [req EXCEPT ![r] = q]
    /\ \E code \in Immediate(q) : reply' = [reply EXCEPT ![r] = code]
    /\ UNCHANGED <<threadVars, poolVars, netVars>>

\* A request that needs a server: ValidateSession first, if the handler does.
HandleRemotely(t, r, q) ==
    /\ pc[t] = "idle" /\ req[r] = Absent
    /\ Immediate(q) = {}
    /\ req' = [req EXCEPT ![r] = q]
    /\ pc' = [pc EXCEPT ![t] = "get"]
    /\ cur' = [cur EXCEPT ![t] = r]
    /\ svc' = [svc EXCEPT ![t] = IF Handlers[q.api].validate THEN "authen"
                                                             ELSE "trade"]
    /\ UNCHANGED <<reply, cl, tries, verdict, poolVars, netVars>>

\* Faulty FreeClientPtr: the server's err_no is not looked at.
FreeClientPtrSuccess(t) ==
    LET s == svc[t]
    IN  /\ pc[t] = "free" /\ m_clients_mutex[s] = NoThread
        /\ m_client_set' = [m_client_set EXCEPT ![s] = @ \cup {cl[t]}]
        /\ cl' = [cl EXCEPT ![t] = NoClient]
        /\ \/ /\ s = "authen"
              /\ svc' = [svc EXCEPT ![t] = "trade"]
              /\ pc' = [pc EXCEPT ![t] = "get"]
              /\ UNCHANGED <<reply, cur>>
           \/ s = "trade" /\ Finish(t, "SUCCESS") /\ UNCHANGED svc
        /\ UNCHANGED <<req, tries, verdict, m_clients_mutex, m_is_inited, netVars>>

\* rpc_ret is true: the client goes back to the pool (FreeClientPtr), and the
\* handler goes on after ValidateSession or replies.
FreeClientPtr(t) ==
    LET s == svc[t]
        h == Handler(cur[t])
    IN  /\ pc[t] = "free" /\ m_clients_mutex[s] = NoThread
        /\ m_client_set' = [m_client_set EXCEPT ![s] = @ \cup {cl[t]}]
        /\ cl' = [cl EXCEPT ![t] = NoClient]
        /\ \/ /\ s = "authen" /\ verdict[t]
              /\ svc' = [svc EXCEPT ![t] = "trade"]
              /\ pc' = [pc EXCEPT ![t] = "get"]
              /\ UNCHANGED <<reply, cur>>
           \/ /\ s = "authen" /\ ~verdict[t]
              /\ Finish(t, "SESSION_ERR") /\ UNCHANGED svc
           \/ /\ s = "trade"
              /\ Finish(t, IF verdict[t] THEN "SUCCESS" ELSE h.err)
              /\ UNCHANGED svc
        /\ UNCHANGED <<req, tries, verdict, m_clients_mutex, m_is_inited, netVars>>

\* Faulty GiveUp: the failed client is given back to its pool.
GiveUpAndFree(t) ==
    /\ pc[t] = "call" /\ tries[t] = 0
    /\ m_clients_mutex[svc[t]] = NoThread
    /\ m_client_set' = [m_client_set EXCEPT ![svc[t]] = @ \cup {cl[t]}]
    /\ cl' = [cl EXCEPT ![t] = NoClient]
    /\ Finish(t, IF svc[t] = "authen" THEN "SESSION_ERR" ELSE "INFO_BUSY")
    /\ UNCHANGED <<req, svc, tries, verdict, m_clients_mutex, m_is_inited, netVars>>

\* Faulty GiveUp: a call without an answer is reported like one that failed.
GiveUpAsError(t) ==
    /\ pc[t] = "call" /\ tries[t] = 0
    /\ cl' = [cl EXCEPT ![t] = NoClient]
    /\ Finish(t, IF svc[t] = "authen" THEN "SESSION_ERR" ELSE Handler(cur[t]).err)
    /\ sent' = Orphaned(cl[t]) /\ answers' = Unread(cl[t])
    /\ UNCHANGED <<req, svc, tries, verdict, poolVars, executed>>

\* rpc_ret is false: the client is not given back, its destructor closes the
\* connection.  A session that could not be validated is UNKNOWN.
GiveUp(t) ==
    /\ pc[t] = "call" /\ tries[t] = 0
    /\ cl' = [cl EXCEPT ![t] = NoClient]
    /\ Finish(t, IF svc[t] = "authen" THEN "SESSION_ERR" ELSE "INFO_BUSY")
    /\ sent' = Orphaned(cl[t]) /\ answers' = Unread(cl[t])
    /\ UNCHANGED <<req, svc, tries, verdict, poolVars, executed>>

-----------------------------------------------------------------------------
(* ClientPool *)

\* Faulty GetClientPtr: the client stays in the set.
GetClientPtrShared(t) ==
    LET s == svc[t]
    IN  /\ pc[t] = "get" /\ m_clients_mutex[s] = NoThread
        /\ \E c \in m_client_set[s] : cl' = [cl EXCEPT ![t] = c]
        /\ tries' = [tries EXCEPT ![t] = Budget(cur[t], s)]
        /\ pc' = [pc EXCEPT ![t] = "call"]
        /\ UNCHANGED <<req, reply, cur, svc, verdict, poolVars, netVars>>

\* GetClientPtr takes any pooled client.
GetClientPtr(t) ==
    LET s == svc[t]
    IN  /\ pc[t] = "get" /\ m_clients_mutex[s] = NoThread
        /\ \E c \in m_client_set[s] :
              /\ m_client_set' = [m_client_set EXCEPT ![s] = @ \ {c}]
              /\ cl' = [cl EXCEPT ![t] = c]
        /\ tries' = [tries EXCEPT ![t] = Budget(cur[t], s)]
        /\ pc' = [pc EXCEPT ![t] = "call"]
        /\ UNCHANGED <<req, reply, cur, svc, verdict, m_clients_mutex,
                       m_is_inited, netVars>>

\* Faulty NewClientPtr: a client is constructed although one is pooled.
NewClientPtrAlways(t) ==
    LET s == svc[t]
    IN  /\ pc[t] = "get" /\ m_clients_mutex[s] = NoThread
        /\ m_clients_mutex' = [m_clients_mutex EXCEPT ![s] = t]
        /\ \E c \in Clients :
              /\ Unused(c)
              /\ cl' = [cl EXCEPT ![t] = c]
              /\ m_is_inited' = [m_is_inited EXCEPT ![c] = FALSE]
        /\ pc' = [pc EXCEPT ![t] = "new"]
        /\ UNCHANGED <<req, reply, cur, svc, tries, verdict, m_client_set, netVars>>

\* GetClientPtr on an empty pool constructs a client, holding the mutex ...
NewClientPtr(t) ==
    LET s == svc[t]
    IN  /\ pc[t] = "get" /\ m_clients_mutex[s] = NoThread
        /\ m_client_set[s] = {}
        /\ m_clients_mutex' = [m_clients_mutex EXCEPT ![s] = t]
        /\ \E c \in Clients :
              /\ Unused(c)
              /\ cl' = [cl EXCEPT ![t] = c]
              /\ m_is_inited' = [m_is_inited EXCEPT ![c] = FALSE]
        /\ pc' = [pc EXCEPT ![t] = "new"]
        /\ UNCHANGED <<req, reply, cur, svc, tries, verdict, m_client_set, netVars>>

\* Faulty NewClientConnected: the mutex is not released.
NewClientConnectedLocked(t) ==
    /\ pc[t] = "new"
    /\ \E ok \in BOOLEAN : m_is_inited' = [m_is_inited EXCEPT ![cl[t]] = ok]
    /\ tries' = [tries EXCEPT ![t] = Budget(cur[t], svc[t])]
    /\ pc' = [pc EXCEPT ![t] = "call"]
    /\ UNCHANGED <<req, reply, cur, svc, cl, verdict, m_client_set,
                   m_clients_mutex, netVars>>

\* ... while the constructor of the wrapper connects, or fails to.
NewClientConnected(t) ==
    LET s == svc[t]
    IN  /\ pc[t] = "new"
        /\ \E ok \in BOOLEAN : m_is_inited' = [m_is_inited EXCEPT ![cl[t]] = ok]
        /\ m_clients_mutex' = [m_clients_mutex EXCEPT ![s] = NoThread]
        /\ tries' = [tries EXCEPT ![t] = Budget(cur[t], s)]
        /\ pc' = [pc EXCEPT ![t] = "call"]
        /\ UNCHANGED <<req, reply, cur, svc, cl, verdict, m_client_set, netVars>>

-----------------------------------------------------------------------------
(* The wrappers: a round of the retry loop *)

\* What InitClient does to the network: nothing on an initialised client, else
\* the old connection is replaced.
InitSent(c)    == IF m_is_inited[c] THEN sent ELSE Orphaned(c)
InitAnswers(c) == IF m_is_inited[c] THEN answers ELSE Unread(c)

\* InitClient succeeds and the request is sent.
CallSend(t) ==
    LET c == cl[t]
        n == Budget(cur[t], svc[t]) - tries[t] + 1
    IN  /\ pc[t] = "call" /\ tries[t] > 0
        /\ tries' = [tries EXCEPT ![t] = @ - 1]
        /\ m_is_inited' = [m_is_inited EXCEPT ![c] = TRUE]
        /\ sent' = InitSent(c)
               \cup {[req |-> cur[t], svc |-> svc[t], n |-> n, chan |-> c]}
        /\ answers' = InitAnswers(c)
        /\ pc' = [pc EXCEPT ![t] = "wait"]
        /\ UNCHANGED <<req, reply, cur, svc, cl, verdict, m_client_set,
                       m_clients_mutex, executed>>

\* Faulty CallNotSent: one round more, retry_time becomes negative.
CallNotSentOneMore(t) ==
    LET c == cl[t]
    IN  /\ pc[t] = "call"
        /\ tries' = [tries EXCEPT ![t] = @ - 1]
        /\ m_is_inited' = [m_is_inited EXCEPT ![c] = FALSE]
        /\ sent' = InitSent(c) /\ answers' = InitAnswers(c)
        /\ UNCHANGED <<req, reply, pc, cur, svc, cl, verdict, m_client_set,
                       m_clients_mutex, executed>>

\* InitClient fails, or the request cannot be sent: the round is used up.
CallNotSent(t) ==
    LET c == cl[t]
    IN  /\ pc[t] = "call" /\ tries[t] > 0
        /\ tries' = [tries EXCEPT ![t] = @ - 1]
        /\ m_is_inited' = [m_is_inited EXCEPT ![c] = FALSE]
        /\ sent' = InitSent(c) /\ answers' = InitAnswers(c)
        /\ UNCHANGED <<req, reply, pc, cur, svc, cl, verdict, m_client_set,
                       m_clients_mutex, executed>>

\* The call returns: the next answer on the connection is the result.
CallReturns(t) ==
    /\ pc[t] = "wait"
    /\ \E a \in answers :
          /\ a.chan = cl[t]
          /\ verdict' = [verdict EXCEPT ![t] = a.ok]
          /\ answers' = answers \ {a}
    /\ pc' = [pc EXCEPT ![t] = "free"]
    /\ UNCHANGED <<req, reply, cur, svc, cl, tries, poolVars, sent, executed>>

\* Faulty CallThrows: the client stays initialised and its connection is reused.
CallThrowsKeeps(t) ==
    /\ pc[t] = "wait"
    /\ pc' = [pc EXCEPT ![t] = "call"]
    /\ UNCHANGED <<req, reply, cur, svc, cl, tries, verdict, poolVars, netVars>>

\* The call throws (a timeout, a reset): the client is not initialised any more.
CallThrows(t) ==
    /\ pc[t] = "wait"
    /\ m_is_inited' = [m_is_inited EXCEPT ![cl[t]] = FALSE]
    /\ pc' = [pc EXCEPT ![t] = "call"]
    /\ UNCHANGED <<req, reply, cur, svc, cl, tries, verdict, m_client_set,
                   m_clients_mutex, netVars>>

-----------------------------------------------------------------------------
(* The servers (external) *)

\* A server executes a request.  The authentication server accepts valid
\* sessions only; the trade server performs the call or reports an error.
Execute(m, ok) ==
    /\ m \in sent
    /\ m.svc = "authen" => (ok => req[m.req].valid)
    /\ sent' = sent \ {m}
    /\ answers' = answers \cup
          {[req |-> m.req, svc |-> m.svc, n |-> m.n, chan |-> c, ok |-> ok] :
              c \in Clients \cap {m.chan}}
    /\ executed' = IF m.svc = "trade" /\ ok
                   THEN [executed EXCEPT ![m.req] = @ \cup {m.n}] ELSE executed
    /\ UNCHANGED <<req, reply, threadVars, poolVars>>

\* A request is lost with its connection or a server that fails.
Lose(m) ==
    /\ m \in sent
    /\ sent' = sent \ {m}
    /\ UNCHANGED <<req, reply, threadVars, poolVars, answers, executed>>

-----------------------------------------------------------------------------

Init ==
    /\ req = [r \in Requests |-> Absent]
    /\ reply = [r \in Requests |-> "none"]
    /\ pc = [t \in Threads |-> "idle"]
    /\ cur = [t \in Threads |-> NoRequest]
    /\ svc = [t \in Threads |-> "trade"]
    /\ cl = [t \in Threads |-> NoClient]
    /\ tries = [t \in Threads |-> 0]
    /\ verdict = [t \in Threads |-> FALSE]
    /\ m_client_set = [s \in Services |-> {}]
    /\ m_clients_mutex = [s \in Services |-> NoThread]
    /\ m_is_inited = [c \in Clients |-> FALSE]
    /\ sent = {} /\ answers = {}
    /\ executed = [r \in Requests |-> {}]

Receive(t) ==
    \E r \in Requests, q \in RequestRecord :
        HandleLocally(t, r, q) \/ HandleRemotely(t, r, q)

\* What thread t does once it has a request.
Step(t) ==
    \/ GetClientPtr(t) \/ NewClientPtr(t) \/ NewClientConnected(t)
    \/ CallSend(t) \/ CallNotSent(t) \/ CallReturns(t) \/ CallThrows(t)
    \/ FreeClientPtr(t) \/ GiveUp(t)

Server ==
    \/ \E m \in sent, ok \in BOOLEAN : Execute(m, ok)
    \/ \E m \in sent : Lose(m)

\* All requests are handled and nothing is on its way.
Terminated ==
    /\ sent = {} /\ \A r \in Requests : reply[r] # "none"
    /\ UNCHANGED vars

Next == (\E t \in Threads : Receive(t) \/ Step(t)) \/ Server \/ Terminated

Spec == Init /\ [][Next]_vars

\* Threads run, calls end at the latest with their timeouts, and whoever waits
\* for a pool's mutex gets it in the end.  Servers promise nothing.
FairSpec == Spec /\ \A t \in Threads : SF_vars(Step(t))

-----------------------------------------------------------------------------
(* Properties *)

\* Every variable has its type.
TypeOK ==
    /\ req \in [Requests -> RequestRecord \cup {Absent}]
    /\ reply \in [Requests -> Codes \cup {"none"}]
    /\ pc \in [Threads -> {"idle", "get", "new", "call", "wait", "free"}]
    /\ cur \in [Threads -> Requests \cup {NoRequest}]
    /\ svc \in [Threads -> Services]
    /\ cl \in [Threads -> Clients \cup {NoClient}]
    /\ tries \in [Threads -> Nat]
    /\ verdict \in [Threads -> BOOLEAN]
    /\ m_client_set \in [Services -> SUBSET Clients]
    /\ m_clients_mutex \in [Services -> Threads \cup {NoThread}]
    /\ m_is_inited \in [Clients -> BOOLEAN]
    /\ sent \subseteq Message /\ answers \subseteq Answer
    /\ executed \in [Requests -> SUBSET Nat]

\* A client has one user: it is in one pool, or held by one thread.
Exclusive ==
    /\ \A t, u \in Threads : t # u /\ cl[t] # NoClient => cl[t] # cl[u]
    /\ \A t \in Threads, s \in Services : cl[t] \notin m_client_set[s]
    /\ m_client_set["authen"] \cap m_client_set["trade"] = {}

\* A pooled client is connected and owes nothing: no answer to an earlier call
\* is in its socket or can still arrive there.
PooledIsClean ==
    \A s \in Services : \A c \in m_client_set[s] :
        /\ m_is_inited[c]
        /\ \A m \in sent : m.chan # c
        /\ \A a \in answers : a.chan # c

\* A call returns the answer to itself: what a waiting thread can read is the
\* answer to its own request from the server it asked, never a late answer to
\* an earlier call on the same client.
OwnAnswer ==
    \A t \in Threads : pc[t] = "wait" =>
        \A a \in answers : a.chan = cl[t]
            => /\ a.req = cur[t] /\ a.svc = svc[t]
               /\ a.n + tries[t] = Budget(cur[t], svc[t])

\* Requests for orders.
IsOrder(r) == req[r] # Absent /\ Handler(r).rpc.order

\* The calls that place or delete an order are made once (CallTimes), whatever
\* is lost or late on the way.
AtMostOnce ==
    \A r \in Requests : IsOrder(r) => Cardinality(executed[r]) <= CallTimes

\* An order is placed or deleted only on behalf of a session the authentication
\* server accepted, and placed only with a correct signature.
OrdersAuthorised ==
    \A r \in Requests : IsOrder(r) /\ executed[r] # {} =>
        /\ req[r].session /\ req[r].valid
        /\ Handler(r).signed => req[r].signed

\* The replies are true: success means that the trade server did it; a refused
\* request or session means that it did not and will not.
ReplyIsTrue ==
    \A r \in Requests :
        /\ reply[r] = "SUCCESS" /\ Handler(r).remote => executed[r] # {}
        /\ reply[r] \in {"REQ_ERR", "SESSION_ERR"}
              => executed[r] = {} /\ \A m \in sent : m.req = r => m.svc # "trade"

\* With one call per order the other replies are final too: after a success or
\* a trade error nothing of the order is still on its way, and after an error
\* it was not done.
OrderReplyIsFinal ==
    CallTimes = 1 =>
        \A r \in Requests : IsOrder(r) /\ reply[r] \notin {"none", "INFO_BUSY"} =>
            /\ \A m \in sent : m.req = r => m.svc # "trade"
            /\ executed[r] # {} => reply[r] = "SUCCESS"

\* A pool never keeps more connections than there are server threads.
Owned(s) == m_client_set[s] \cup {cl[t] : t \in {u \in Threads :
                                     svc[u] = s /\ cl[u] # NoClient}}
PoolBounded ==
    \A s \in Services : Cardinality(Owned(s)) <= Cardinality(Threads)

\* What the user is entitled to, and what was done for him.
Kind(r) ==
    IF req[r] = Absent THEN "none"
    ELSE IF ~Handler(r).rpc.order THEN "query"
    ELSE IF /\ req[r].session /\ req[r].valid
            /\ Handler(r).signed => req[r].signed THEN "order"
    ELSE "forged"

Service == INSTANCE OrderService WITH
    Calls     <- CallTimes,
    asked     <- [r \in Requests |-> Kind(r)],
    performed <- [r \in Requests |-> IF IsOrder(r) THEN executed[r] ELSE {}],
    answer    <- reply

\* Threads, pools, retries and lost calls cannot be told from OrderService: the
\* handlers perform an order only for who is entitled to it and before they
\* settle it, and answer what is true at that moment.
ImplementsOrderService == Service!Spec

\* Every request that was received is answered, whatever the servers do.
Replied == \A r \in Requests : (req[r] # Absent) ~> (reply[r] # "none")
=============================================================================

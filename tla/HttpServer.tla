----------------------------- MODULE HttpServer -----------------------------
(***************************************************************************)
(* The HTTP front end of the proxy: ServerBase (the accept loop and the    *)
(* shutdown), ConnectionManager (the set of live connections, its mutex    *)
(* and its monitor thread) and Connection (the read / handle / write cycle *)
(* on one socket), composed the way server_base/*.cc composes them.        *)
(*                                                                         *)
(* All completion handlers run on a pool of threads that share one         *)
(* io_service.  The handlers of one connection are serialised by its       *)
(* strand: no two of them run at once, but a completion and a DoClose that *)
(* are both queued run in either order.  Handlers are one action each,     *)
(* split only where another thread can step in between: HandleRead while   *)
(* the request handler runs, HandleNewConnection inside                    *)
(* ConnectionManager::Start and before the next accept, ServerStop between *)
(* closing the acceptor and StopAll, and the monitor's scan.               *)
(*                                                                         *)
(* A member of Conns is the memory of one Connection object.  The object   *)
(* is destroyed when nothing refers to it any more (shared_from_this) and  *)
(* the same memory may then hold a later connection, so the number of      *)
(* connections over time is unbounded and only the number of simultaneous  *)
(* ones is |Conns|.                                                        *)
(***************************************************************************)
EXTENDS Integers, FiniteSets

CONSTANTS
    Conns,     \* Connection objects that may exist at the same time
    Threads,   \* threads that run the io_service (server_thread_num + 1)
    Timeout    \* idle time after which the monitor kills (330 s in the code)

ASSUME TimeoutAssumption == Timeout \in Nat

VARIABLES
    sock,          \* m_socket: "none" before the accept, "open", "closed"
    rd,            \* the async_read_some of the connection, see Ops
    wr,            \* the async_write of the connection, see Ops
    hnd,           \* TRUE while HandleRead is inside HandleRequest
    closeq,        \* number of DoClose calls posted on the strand
    m_is_long_connection,
    m_reply,       \* the status of the reply object
    age,           \* now - m_active_time, saturating at Timeout + 1
    m_connections, \* the managed connections
    m_connection_mutex,
    mon,           \* the monitor thread: "sleep", "scan", "done"
    todo,          \* what its scan has not looked at yet
    doomed,        \* what it has found timed out and not stopped yet
    acceptor,      \* "open" or "closed"
    accept,        \* the async_accept and its handler, see AcceptStates
    m_new_connection,
    stop,          \* ServerStop: "no", "closing", "stopped"
    run            \* "running", "returned" (destructors run), "joined"

connVars == <<sock, rd, wr, hnd, closeq, m_is_long_connection, m_reply, age>>
mgrVars  == <<m_connections, m_connection_mutex, mon, todo, doomed>>
srvVars  == <<acceptor, accept, m_new_connection, stop, run>>
vars     == <<connVars, mgrVars, srvVars>>

\* An asynchronous operation: not started, started, or completed with its
\* handler queued ("ok" or "err").
Ops == {"idle", "pending", "ok", "err"}

\* async_accept: waiting for a peer, completed ("ready" / "failed"), its handler
\* past the is_open check ("start"), between Connection::Start and the insertion
\* ("insert"), about to accept again ("rearm"), or no accept outstanding.
AcceptStates == {"armed", "ready", "failed", "start", "insert", "rearm", "idle"}

\* reply::status_type: ok, or one of the others, which Connection treats alike.
Status == {"ok", "error"}

-----------------------------------------------------------------------------

\* Connection::Connection.  m_active_time is the time of construction, that
\* is of the StartAcceptConnection call, not of the accept.
Construct(c) ==
    /\ sock' = [sock EXCEPT ![c] = "none"]
    /\ rd' = [rd EXCEPT ![c] = "idle"]
    /\ wr' = [wr EXCEPT ![c] = "idle"]
    /\ hnd' = [hnd EXCEPT ![c] = FALSE]
    /\ closeq' = [closeq EXCEPT ![c] = 0]
    /\ m_is_long_connection' = [m_is_long_connection EXCEPT ![c] = FALSE]
    /\ m_reply' = [m_reply EXCEPT ![c] = "ok"]
    /\ age' = [age EXCEPT ![c] = 0]

\* No shared_ptr to c is left: not in the manager, not the accept target, no
\* handler queued or running.
Unreferenced(c) ==
    /\ c # m_new_connection /\ c \notin m_connections
    /\ rd[c] = "idle" /\ wr[c] = "idle" /\ ~hnd[c] /\ closeq[c] = 0

\* Handlers in progress occupy a thread of the io_service each.
BusyThreads ==
    Cardinality({c \in Conns : hnd[c]})
    + (IF accept \in {"start", "insert", "rearm"} THEN 1 ELSE 0)
    + (IF stop = "closing" THEN 1 ELSE 0)

\* A queued handler can be dispatched.
FreeThread == run = "running" /\ BusyThreads < Threads

LockFree == m_connection_mutex = "free"

\* What async_read_some or async_write on c's socket becomes: an operation on
\* a closed socket completes at once with an error.
Started(c) == IF sock[c] = "open" THEN "pending" ELSE "err"

\* Faulty UpdateActiveTime: the clock is rounded up, the last activity lies in
\* the future.
UpdateActiveTimeAhead(c) == age' = [age EXCEPT ![c] = -1]

\* Connection::IsTimeOut and UpdateActivieTime.
IsTimeOut(c) == age[c] > Timeout
UpdateActiveTime(c) == age' = [age EXCEPT ![c] = 0]

\* Connection::Stop posts DoClose on the strand.
PostClose(S) == closeq' = [c \in Conns |-> IF c \in S THEN closeq[c] + 1
                                                      ELSE closeq[c]]

\* Faulty ManagerStop: erase_num is ignored.
ManagerStopAlways(c) ==
    /\ LockFree
    /\ m_connections' = m_connections \ {c}
    /\ PostClose({c})

\* ConnectionManager::Stop, called from the handlers of c.
ManagerStop(c) ==
    /\ LockFree
    /\ m_connections' = m_connections \ {c}
    /\ PostClose({c} \cap m_connections)

\* Connection::RequestKeepAlive: what the request's headers say.
RequestKeepAlive == BOOLEAN

-----------------------------------------------------------------------------
(* Connection *)

\* Faulty DoClose: the reply is cleared with the socket, while a write may use it.
DoCloseClearing(c) ==
    /\ FreeThread /\ ~hnd[c] /\ closeq[c] > 0
    /\ closeq' = [closeq EXCEPT ![c] = @ - 1]
    /\ sock' = [sock EXCEPT ![c] = "closed"]
    /\ rd' = [rd EXCEPT ![c] = IF @ = "pending" THEN "err" ELSE @]
    /\ wr' = [wr EXCEPT ![c] = IF @ = "pending" THEN "err" ELSE @]
    /\ m_reply' = [m_reply EXCEPT ![c] = "error"]
    /\ UNCHANGED <<hnd, m_is_long_connection, age, mgrVars, srvVars>>

\* DoClose on the strand: outstanding operations complete with
\* operation_aborted; completions already queued keep their result.
DoClose(c) ==
    /\ FreeThread /\ ~hnd[c] /\ closeq[c] > 0
    /\ closeq' = [closeq EXCEPT ![c] = @ - 1]
    /\ sock' = [sock EXCEPT ![c] = "closed"]
    /\ rd' = [rd EXCEPT ![c] = IF @ = "pending" THEN "err" ELSE @]
    /\ wr' = [wr EXCEPT ![c] = IF @ = "pending" THEN "err" ELSE @]
    /\ UNCHANGED <<hnd, m_is_long_connection, m_reply, age, mgrVars, srvVars>>

\* HandleRead without an error, the request is incomplete: read on.
HandleReadPartial(c) ==
    /\ FreeThread /\ ~hnd[c] /\ rd[c] = "ok"
    /\ UpdateActiveTime(c)
    /\ rd' = [rd EXCEPT ![c] = Started(c)]
    /\ UNCHANGED <<sock, wr, hnd, closeq, m_is_long_connection, m_reply,
                   mgrVars, srvVars>>

\* HandleRead without an error, the request does not parse: answer 400.
HandleReadBad(c) ==
    /\ FreeThread /\ ~hnd[c] /\ rd[c] = "ok"
    /\ UpdateActiveTime(c)
    /\ rd' = [rd EXCEPT ![c] = "idle"]
    /\ m_reply' = [m_reply EXCEPT ![c] = "error"]
    /\ wr' = [wr EXCEPT ![c] = Started(c)]
    /\ UNCHANGED <<sock, hnd, closeq, m_is_long_connection, mgrVars, srvVars>>

\* HandleRead without an error, the request is complete: enter HandleRequest.
HandleReadRequest(c) ==
    /\ FreeThread /\ ~hnd[c] /\ rd[c] = "ok"
    /\ UpdateActiveTime(c)
    /\ rd' = [rd EXCEPT ![c] = "idle"]
    /\ \E keep \in RequestKeepAlive :
          m_is_long_connection' = [m_is_long_connection EXCEPT ![c] = @ \/ keep]
    /\ hnd' = [hnd EXCEPT ![c] = TRUE]
    /\ UNCHANGED <<sock, wr, closeq, m_reply, mgrVars, srvVars>>

\* Faulty Reply: the next read is started at once, as the code commented out in
\* HandleRead would do.
ReplyAndRead(c) ==
    /\ hnd[c]
    /\ hnd' = [hnd EXCEPT ![c] = FALSE]
    /\ \E s \in Status : m_reply' = [m_reply EXCEPT ![c] = s]
    /\ wr' = [wr EXCEPT ![c] = Started(c)]
    /\ rd' = [rd EXCEPT ![c] = Started(c)]
    /\ UNCHANGED <<sock, closeq, m_is_long_connection, age, mgrVars, srvVars>>

\* The rest of HandleRead: HandleRequest returns having filled m_reply (an error
\* when no handler is registered or the uri cannot be decoded), Reply starts the
\* write.
Reply(c) ==
    /\ hnd[c]
    /\ hnd' = [hnd EXCEPT ![c] = FALSE]
    /\ \E s \in Status : m_reply' = [m_reply EXCEPT ![c] = s]
    /\ wr' = [wr EXCEPT ![c] = Started(c)]
    /\ UNCHANGED <<sock, rd, closeq, m_is_long_connection, age, mgrVars, srvVars>>

\* Faulty HandleReadError: the error is logged and nothing else.
HandleReadErrorIgnored(c) ==
    /\ FreeThread /\ ~hnd[c] /\ rd[c] = "err"
    /\ rd' = [rd EXCEPT ![c] = "idle"]
    /\ UNCHANGED <<sock, wr, hnd, closeq, m_is_long_connection, m_reply, age,
                   mgrVars, srvVars>>

\* HandleRead with an error, aborted or not.
HandleReadError(c) ==
    /\ FreeThread /\ ~hnd[c] /\ rd[c] = "err"
    /\ rd' = [rd EXCEPT ![c] = "idle"]
    /\ ManagerStop(c)
    /\ UNCHANGED <<sock, wr, hnd, m_is_long_connection, m_reply, age,
                   m_connection_mutex, mon, todo, doomed, srvVars>>

\* HandleWrite without an error on a connection to be kept: read the next
\* request.
HandleWriteNext(c) ==
    /\ FreeThread /\ ~hnd[c] /\ wr[c] = "ok"
    /\ m_reply[c] = "ok" /\ m_is_long_connection[c]
    /\ wr' = [wr EXCEPT ![c] = "idle"]
    /\ rd' = [rd EXCEPT ![c] = Started(c)]
    /\ UNCHANGED <<sock, hnd, closeq, m_is_long_connection, m_reply, age,
                   mgrVars, srvVars>>

\* HandleWrite in every other case: an error, a status other than ok, or a
\* connection that is not kept alive.
HandleWriteStop(c) ==
    /\ FreeThread /\ ~hnd[c]
    /\ \/ wr[c] = "err"
       \/ wr[c] = "ok" /\ ~(m_reply[c] = "ok" /\ m_is_long_connection[c])
    /\ wr' = [wr EXCEPT ![c] = "idle"]
    /\ ManagerStop(c)
    /\ UNCHANGED <<sock, rd, hnd, m_is_long_connection, m_reply, age,
                   m_connection_mutex, mon, todo, doomed, srvVars>>

-----------------------------------------------------------------------------
(* The peers and the network (external) *)

\* Bytes arrive, or the peer closes or resets.
PeerSend(c) ==
    /\ rd[c] = "pending" /\ run = "running"
    /\ \E res \in {"ok", "err"} : rd' = [rd EXCEPT ![c] = res]
    /\ UNCHANGED <<sock, wr, hnd, closeq, m_is_long_connection, m_reply, age,
                   mgrVars, srvVars>>

\* The reply has been written out, or the write failed.
WriteCompletes(c) ==
    /\ wr[c] = "pending" /\ run = "running"
    /\ \E res \in {"ok", "err"} : wr' = [wr EXCEPT ![c] = res]
    /\ UNCHANGED <<sock, rd, hnd, closeq, m_is_long_connection, m_reply, age,
                   mgrVars, srvVars>>

\* The bound on simultaneous connections: memory for the next one is left.
RoomForNext == \E c \in Conns : Unreferenced(c)

\* A peer connects: the accept completes and the socket is open.
PeerConnect ==
    /\ accept = "armed" /\ acceptor = "open" /\ run = "running"
    /\ RoomForNext
    /\ accept' = "ready"
    /\ sock' = [sock EXCEPT ![m_new_connection] = "open"]
    /\ UNCHANGED <<rd, wr, hnd, closeq, m_is_long_connection, m_reply, age,
                   mgrVars, acceptor, m_new_connection, stop, run>>

\* The accept fails on an open acceptor (out of descriptors, aborted peer), or
\* because the acceptor has been closed.
AcceptFails ==
    /\ accept = "armed" /\ run = "running"
    /\ accept' = "failed"
    /\ UNCHANGED <<connVars, mgrVars, acceptor, m_new_connection, stop, run>>

\* Time passes.
Tick ==
    /\ \E c \in Conns : age[c] <= Timeout
    /\ age' = [c \in Conns |-> IF age[c] <= Timeout THEN age[c] + 1 ELSE age[c]]
    /\ UNCHANGED <<sock, rd, wr, hnd, closeq, m_is_long_connection, m_reply,
                   mgrVars, srvVars>>

-----------------------------------------------------------------------------
(* ServerBase and ConnectionManager *)

\* HandleNewConnection after the acceptor was closed, or with an error:
\* neither path accepts again.
HandleNewConnectionEnd ==
    /\ FreeThread
    /\ \/ accept \in {"ready", "failed"} /\ acceptor = "closed"
       \/ accept = "failed"
    /\ accept' = "idle"
    /\ UNCHANGED <<connVars, mgrVars, acceptor, m_new_connection, stop, run>>

\* HandleNewConnection without an error, the acceptor was open when checked.
HandleNewConnection ==
    /\ FreeThread
    /\ accept = "ready" /\ acceptor = "open"
    /\ accept' = "start"
    /\ UNCHANGED <<connVars, mgrVars, acceptor, m_new_connection, stop, run>>

\* ConnectionManager::Start takes the mutex and Connection::Start issues the
\* first read ...
ManagerStart ==
    /\ accept = "start" /\ LockFree
    /\ m_connection_mutex' = "accept"
    /\ rd' = [rd EXCEPT ![m_new_connection] = Started(m_new_connection)]
    /\ accept' = "insert"
    /\ UNCHANGED <<sock, wr, hnd, closeq, m_is_long_connection, m_reply, age,
                   m_connections, mon, todo, doomed, acceptor, m_new_connection, stop,
                   run>>

\* Faulty ManagerStartInsert: the connection is started and not inserted.
ManagerStartForgets ==
    /\ accept = "insert"
    /\ m_connection_mutex' = "free"
    /\ accept' = "rearm"
    /\ UNCHANGED <<connVars, m_connections, mon, todo, doomed, acceptor,
                   m_new_connection, stop, run>>

\* ... and the connection is inserted under the same mutex.
ManagerStartInsert ==
    /\ accept = "insert"
    /\ m_connections' = m_connections \cup {m_new_connection}
    /\ m_connection_mutex' = "free"
    /\ accept' = "rearm"
    /\ UNCHANGED <<connVars, mon, todo, doomed, acceptor, m_new_connection, stop, run>>

\* Faulty ManagerStartGone: a peer that is gone is taken for a failed accept.
ManagerStartGoneEnds ==
    /\ accept = "start" /\ LockFree
    /\ PostClose({m_new_connection})
    /\ accept' = "idle"
    /\ UNCHANGED <<sock, rd, wr, hnd, m_is_long_connection, m_reply, age,
                   mgrVars, acceptor, m_new_connection, stop, run>>

\* The peer is gone already: remote_endpoint throws, Connection::Start returns
\* false and ConnectionManager::Start stops the connection.
ManagerStartGone ==
    /\ accept = "start" /\ LockFree
    /\ PostClose({m_new_connection})
    /\ accept' = "rearm"
    /\ UNCHANGED <<sock, rd, wr, hnd, m_is_long_connection, m_reply, age,
                   mgrVars, acceptor, m_new_connection, stop, run>>

\* StartAcceptConnection: a new Connection replaces m_new_connection.
StartAcceptConnection ==
    /\ accept = "rearm"
    /\ \E c \in Conns :
          /\ Unreferenced(c)
          /\ Construct(c)
          /\ m_new_connection' = c
    /\ accept' = "armed"
    /\ UNCHANGED <<mgrVars, acceptor, stop, run>>

\* A stop signal: ServerStop closes the acceptor ...
ServerStop ==
    /\ FreeThread /\ stop = "no"
    /\ stop' = "closing"
    /\ acceptor' = "closed"
    /\ UNCHANGED <<connVars, mgrVars, accept, m_new_connection, run>>

\* Faulty StopAll: the set is cleared, the connections are not stopped.
StopAllForgets ==
    /\ stop = "closing" /\ LockFree
    /\ stop' = "stopped"
    /\ m_connections' = {}
    /\ UNCHANGED <<connVars, m_connection_mutex, mon, todo, doomed, acceptor, accept,
                   m_new_connection, run>>

\* ... and ConnectionManager::StopAll stops and forgets all connections.
StopAll ==
    /\ stop = "closing" /\ LockFree
    /\ stop' = "stopped"
    /\ PostClose(m_connections)
    /\ m_connections' = {}
    /\ UNCHANGED <<sock, rd, wr, hnd, m_is_long_connection, m_reply, age,
                   m_connection_mutex, mon, todo, doomed, acceptor, accept,
                   m_new_connection, run>>

\* io_service::run returns when no operation, no queued handler and no signal
\* wait is left; the destructors then set m_is_stopping.
OutOfWork ==
    /\ stop = "stopped" /\ accept = "idle"
    /\ \A c \in Conns :
          rd[c] = "idle" /\ wr[c] = "idle" /\ ~hnd[c] /\ closeq[c] = 0

RunReturns ==
    /\ run = "running" /\ OutOfWork
    /\ run' = "returned"
    /\ UNCHANGED <<connVars, mgrVars, acceptor, accept, m_new_connection, stop>>

\* ~ConnectionManager joins the monitor thread.
MonitorJoined ==
    /\ run = "returned" /\ mon = "done"
    /\ run' = "joined"
    /\ UNCHANGED <<connVars, mgrVars, acceptor, accept, m_new_connection, stop>>

\* MonitorThread: wake up and lock ...
MonitorLock ==
    /\ mon = "sleep" /\ LockFree
    /\ m_connection_mutex' = "monitor"
    /\ mon' = "scan"
    /\ todo' = m_connections
    /\ UNCHANGED <<connVars, m_connections, doomed, srvVars>>

\* ... look at each connection.  m_active_time is read without a lock: it may
\* be set again before the connection is stopped ...
MonitorCheck(c) ==
    /\ mon = "scan" /\ doomed = {} /\ c \in todo
    /\ todo' = todo \ {c}
    /\ doomed' = {c} \cap {d \in Conns : IsTimeOut(d)}
    /\ UNCHANGED <<connVars, m_connections, m_connection_mutex, mon, srvVars>>

\* Faulty MonitorKill: a connection is erased and not stopped.
MonitorKillErases ==
    /\ doomed # {}
    /\ m_connections' = m_connections \ doomed
    /\ doomed' = {}
    /\ UNCHANGED <<connVars, m_connection_mutex, mon, todo, srvVars>>

\* ... erase and stop the ones that timed out ...
MonitorKill ==
    /\ doomed # {}
    /\ m_connections' = m_connections \ doomed
    /\ PostClose(doomed)
    /\ doomed' = {}
    /\ UNCHANGED <<sock, rd, wr, hnd, m_is_long_connection, m_reply, age,
                   m_connection_mutex, mon, todo, srvVars>>

\* Faulty MonitorUnlock: the connections are checked once, without the loop.
MonitorUnlockOnce ==
    /\ mon = "scan" /\ todo = {} /\ doomed = {}
    /\ m_connection_mutex' = "free"
    /\ mon' = "done"
    /\ UNCHANGED <<connVars, m_connections, todo, doomed, srvVars>>

\* Faulty MonitorUnlock: m_is_stopping is never looked at.
MonitorUnlockForever ==
    /\ mon = "scan" /\ todo = {} /\ doomed = {}
    /\ m_connection_mutex' = "free"
    /\ mon' = "sleep"
    /\ UNCHANGED <<connVars, m_connections, todo, doomed, srvVars>>

\* ... unlock, and sleep again unless m_is_stopping is set.
MonitorUnlock ==
    /\ mon = "scan" /\ todo = {} /\ doomed = {}
    /\ m_connection_mutex' = "free"
    /\ mon' = IF run = "running" THEN "sleep" ELSE "done"
    /\ UNCHANGED <<connVars, m_connections, todo, doomed, srvVars>>

-----------------------------------------------------------------------------

\* The ServerBase constructor: listening, the first accept outstanding.
Init ==
    /\ sock = [c \in Conns |-> "none"]
    /\ rd = [c \in Conns |-> "idle"]
    /\ wr = [c \in Conns |-> "idle"]
    /\ hnd = [c \in Conns |-> FALSE]
    /\ closeq = [c \in Conns |-> 0]
    /\ m_is_long_connection = [c \in Conns |-> FALSE]
    /\ m_reply = [c \in Conns |-> "ok"]
    /\ age = [c \in Conns |-> 0]
    /\ m_connections = {} /\ m_connection_mutex = "free"
    /\ mon = "sleep" /\ todo = {} /\ doomed = {}
    /\ acceptor = "open" /\ accept = "armed"
    /\ m_new_connection \in Conns
    /\ stop = "no" /\ run = "running"

\* The completion handlers of c.
HandleRead(c) ==
    \/ HandleReadPartial(c) \/ HandleReadBad(c)
    \/ HandleReadRequest(c) \/ HandleReadError(c)

HandleWrite(c) == HandleWriteNext(c) \/ HandleWriteStop(c)

\* The accept handler.
Accept ==
    \/ HandleNewConnectionEnd \/ HandleNewConnection \/ ManagerStart
    \/ ManagerStartInsert \/ ManagerStartGone \/ StartAcceptConnection

Monitor ==
    \/ MonitorLock \/ MonitorKill \/ MonitorUnlock
    \/ \E c \in Conns : MonitorCheck(c)

\* The process has ended.
Terminated == run = "joined" /\ UNCHANGED vars

Next ==
    \/ \E c \in Conns : \/ DoClose(c) \/ HandleRead(c) \/ Reply(c) \/ HandleWrite(c)
                       \/ PeerSend(c) \/ WriteCompletes(c)
    \/ Accept \/ PeerConnect \/ AcceptFails
    \/ Monitor \/ Tick
    \/ ServerStop \/ StopAll \/ RunReturns \/ MonitorJoined
    \/ Terminated

\* Time passes, the request handler returns (its calls have timeouts), and a
\* thread in the middle of a handler goes on.  The io_service runs its queued
\* handlers first in, first out and a mutex is not withheld for ever, so a
\* handler that is dispatchable again and again is dispatched: strong fairness.
\* Peers promise nothing, and no signal need ever arrive; the operations on a
\* closed acceptor do complete.
Fairness ==
    /\ WF_vars(Tick)
    /\ \A c \in Conns : /\ WF_vars(Reply(c)) /\ SF_vars(DoClose(c))
                       /\ SF_vars(HandleRead(c) \/ HandleWrite(c))
    /\ SF_vars(Accept) /\ WF_vars(acceptor = "closed" /\ AcceptFails)
    /\ SF_vars(Monitor)
    /\ SF_vars(StopAll) /\ WF_vars(RunReturns \/ MonitorJoined)

Spec == Init /\ [][Next]_vars
FairSpec == Spec /\ Fairness

-----------------------------------------------------------------------------
(* Properties *)

\* Every variable has its type.
TypeOK ==
    /\ sock \in [Conns -> {"none", "open", "closed"}]
    /\ rd \in [Conns -> Ops] /\ wr \in [Conns -> Ops]
    /\ hnd \in [Conns -> BOOLEAN]
    /\ closeq \in [Conns -> Nat]
    /\ m_is_long_connection \in [Conns -> BOOLEAN]
    /\ m_reply \in [Conns -> Status]
    /\ age \in [Conns -> 0 .. Timeout + 1]
    /\ m_connections \subseteq Conns
    /\ m_connection_mutex \in {"free", "accept", "monitor"}
    /\ mon \in {"sleep", "scan", "done"} 
    /\ todo \subseteq Conns /\ doomed \subseteq Conns
    /\ acceptor \in {"open", "closed"} /\ accept \in AcceptStates
    /\ m_new_connection \in Conns
    /\ stop \in {"no", "closing", "stopped"}
    /\ run \in {"running", "returned", "joined"}

\* The number of things going on in connection c.
Reading(c)  == rd[c] # "idle"
Writing(c)  == wr[c] # "idle"
Active(c)   == Reading(c) \/ Writing(c) \/ hnd[c]

\* Connection's buffers (m_buffer, m_request, m_reply) are used by one thing
\* at a time: a read, the request handler or a write, never two of them,
\* although the three are issued by different handlers.
OneActivity ==
    \A c \in Conns :
        /\ ~(Reading(c) /\ Writing(c))
        /\ ~(Reading(c) /\ hnd[c])
        /\ ~(Writing(c) /\ hnd[c])

\* A managed connection always has an activity whose completion will lead to
\* it again, its socket is open and no close is queued: the set never holds a
\* connection that nobody will ever remove.
ManagedIsLive ==
    \A c \in m_connections : Active(c) /\ sock[c] = "open" /\ closeq[c] = 0

\* A connection that is doing something on an open socket is known to the
\* manager (or being inserted under the mutex), or its close is on the way:
\* none escapes from StopAll and the monitor.
NoneEscapes ==
    \A c \in Conns :
        Active(c) /\ sock[c] = "open" /\ closeq[c] = 0
            => \/ c \in m_connections
               \/ accept = "insert" /\ c = m_new_connection

\* Erasing from m_connections decides who stops a connection: however the
\* monitor, StopAll and the connection's own error paths race, DoClose is
\* posted at most once, and never again after the socket was closed.
ClosedOnce ==
    \A c \in Conns :
        closeq[c] <= 1 /\ (sock[c] = "closed" => closeq[c] = 0)

\* When run() has returned, no accepted connection is left open except the
\* one that was accepted while the server was shutting down.
CleanExit ==
    run # "running"
        => /\ m_connections = {}
           /\ \A c \in Conns : sock[c] = "open" => c = m_new_connection

\* reply.h: the reply object must not be changed until the write that uses its
\* buffers has completed.
ReplyStable ==
    [][\A c \in Conns : wr[c] = "pending" => m_reply'[c] = m_reply[c]]_vars

\* A connection that was dropped from the manager, by whomever, is closed.
StoppedIsClosed ==
    \A c \in Conns :
        (Active(c) /\ c \notin m_connections /\ accept # "insert")
            ~> (sock[c] # "open")

\* The monitor ends an idle connection: one that is past the timeout is used
\* again or removed from the manager.
IdleIsKilled ==
    \A c \in Conns :
        (c \in m_connections /\ IsTimeOut(c))
            ~> (~IsTimeOut(c) \/ c \notin m_connections)

\* A stop that did not race with an accept ends the process.
StopTerminates ==
    (stop = "stopped" /\ accept = "idle" /\ m_connections = {})
        ~> (run = "joined")

\* server_base.cc and connection_manager.h: StopAll stops all connections so
\* that the server can shut down - after a stop signal the process ends.
StopAlwaysTerminates == (stop = "stopped") ~> (run = "joined")

\* A peer that was accepted does not keep the server from accepting the next
\* one, whatever becomes of it: while it is not being stopped, the accept loop
\* comes back to async_accept.
AcceptsAgain ==
    (accept = "ready" /\ acceptor = "open")
        ~> (accept = "armed" \/ acceptor = "closed")

\* The monitor kills a connection as timed out when nothing happened on it for
\* Timeout: a connection is not timed out at the moment its peer connects.
NotTimedOutWhenAccepted ==
    [][\A c \in Conns :
          sock[c] = "none" /\ sock'[c] = "open" => ~IsTimeOut(c)]_vars
=============================================================================

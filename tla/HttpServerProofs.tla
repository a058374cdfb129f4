-------------------------- MODULE HttpServerProofs --------------------------
(***************************************************************************)
(* The safety properties of HttpServer hold for every set of connections,  *)
(* every number of threads and every timeout.                              *)
(***************************************************************************)
EXTENDS HttpServer, TLAPS

\* Who holds m_connection_mutex, and what the monitor has still to look at.
LockInv ==
    /\ m_connection_mutex = "accept" <=> accept = "insert"
    /\ m_connection_mutex = "monitor" <=> mon = "scan"
    /\ todo \subseteq m_connections /\ doomed \subseteq m_connections
    /\ todo \cap doomed = {} /\ (mon # "scan" => todo = {} /\ doomed = {})

\* The connection object the accept loop works on.
AcceptInv ==
    LET c == m_new_connection
    IN  /\ accept # "rearm" => closeq[c] = 0 /\ c \notin m_connections
        /\ accept \in {"armed", "failed"} => sock[c] = "none"
        /\ accept \in {"ready", "start", "insert"} => sock[c] = "open"
        /\ accept \notin {"insert", "rearm"} => ~Active(c)
        /\ accept = "insert" => Active(c)

\* Every open socket is managed, about to be closed, or held by the accept loop.
Tracked ==
    \A c \in Conns :
        sock[c] = "open"
            => \/ c \in m_connections \/ closeq[c] > 0
               \/ c = m_new_connection
                    /\ accept \in {"ready", "start", "insert", "idle"}

\* A connection with nothing going on that was never accepted.
IdleBeforeOpen ==
    \A c \in Conns : sock[c] = "none" => ~Active(c) /\ closeq[c] = 0

\* run() stays returned.
ExitInv == run # "running" => OutOfWork

\* The inductive invariant.
Inv ==
    /\ TypeOK /\ OneActivity /\ ManagedIsLive /\ ClosedOnce
    /\ LockInv /\ AcceptInv /\ Tracked /\ IdleBeforeOpen /\ ExitInv

-----------------------------------------------------------------------------

\* The ServerBase constructor establishes the invariant.
LEMMA InitInv == Init => Inv
  BY TimeoutAssumption
  DEF Init, Inv, TypeOK, OneActivity, ManagedIsLive, ClosedOnce, LockInv, AcceptInv,
      Tracked, IdleBeforeOpen, ExitInv, Active, Reading, Writing, Ops, Status,
      AcceptStates

\* The handlers of a connection and what its peer does preserve the invariant.
LEMMA ConnectionStep ==
  ASSUME Inv, NEW c \in Conns,
         \/ DoClose(c) \/ HandleRead(c) \/ Reply(c) \/ HandleWrite(c)
         \/ PeerSend(c) \/ WriteCompletes(c)
  PROVE  Inv'
<1> USE TimeoutAssumption
    DEF Inv, TypeOK, OneActivity, ManagedIsLive, ClosedOnce, LockInv, AcceptInv,
        Tracked, IdleBeforeOpen, ExitInv, OutOfWork, Active, Reading, Writing,
        Ops, Status, AcceptStates, connVars, mgrVars, srvVars
<1>1. CASE DoClose(c)
      BY <1>1 DEF DoClose
<1>2. CASE HandleReadPartial(c)
      BY <1>2 DEF HandleReadPartial, UpdateActiveTime, Started
<1>3. CASE HandleReadBad(c)
      BY <1>3 DEF HandleReadBad, UpdateActiveTime, Started
<1>4. CASE HandleReadRequest(c)
      BY <1>4 DEF HandleReadRequest, UpdateActiveTime, RequestKeepAlive
<1>5. CASE HandleReadError(c)
      BY <1>5 DEF HandleReadError, ManagerStop, PostClose, LockFree
<1>6. CASE Reply(c)
      BY <1>6 DEF Reply, Started
<1>7. CASE HandleWriteNext(c)
      BY <1>7 DEF HandleWriteNext, Started
<1>8. CASE HandleWriteStop(c)
      BY <1>8 DEF HandleWriteStop, ManagerStop, PostClose, LockFree
<1>9. CASE PeerSend(c)
      BY <1>9 DEF PeerSend
<1>10. CASE WriteCompletes(c)
      BY <1>10 DEF WriteCompletes
<1>q. QED
      BY <1>1, <1>2, <1>3, <1>4, <1>5, <1>6, <1>7, <1>8, <1>9, <1>10
      DEF HandleRead, HandleWrite

\* The accept loop preserves the invariant.
LEMMA AcceptStep ==
  ASSUME Inv, Accept \/ PeerConnect \/ AcceptFails
  PROVE  Inv'
<1> USE TimeoutAssumption
    DEF Inv, TypeOK, OneActivity, ManagedIsLive, ClosedOnce, LockInv, AcceptInv,
        Tracked, IdleBeforeOpen, ExitInv, OutOfWork, Active, Reading, Writing,
        Ops, Status, AcceptStates, connVars, mgrVars, srvVars
<1>1. CASE PeerConnect
      BY <1>1 DEF PeerConnect
<1>2. CASE AcceptFails
      BY <1>2 DEF AcceptFails
<1>3. CASE HandleNewConnectionEnd
      BY <1>3 DEF HandleNewConnectionEnd
<1>4. CASE HandleNewConnection
      BY <1>4 DEF HandleNewConnection
<1>5. CASE ManagerStart
      BY <1>5 DEF ManagerStart, LockFree, Started
<1>6. CASE ManagerStartInsert
      BY <1>6 DEF ManagerStartInsert
<1>7. CASE ManagerStartGone
      BY <1>7 DEF ManagerStartGone, LockFree, PostClose
<1>8. CASE StartAcceptConnection
      BY <1>8 DEF StartAcceptConnection, Unreferenced, Construct
<1>q. QED
      BY <1>1, <1>2, <1>3, <1>4, <1>5, <1>6, <1>7, <1>8 DEF Accept

\* The monitor thread, the clock and the shutdown preserve the invariant.
LEMMA ServerStep ==
  ASSUME Inv,
         \/ Monitor \/ Tick \/ ServerStop \/ StopAll \/ RunReturns
         \/ MonitorJoined \/ Terminated
  PROVE  Inv'
<1> USE TimeoutAssumption
    DEF Inv, TypeOK, OneActivity, ManagedIsLive, ClosedOnce, LockInv, AcceptInv,
        Tracked, IdleBeforeOpen, ExitInv, OutOfWork, Active, Reading, Writing,
        Ops, Status, AcceptStates, connVars, mgrVars, srvVars
<1>1. CASE MonitorLock
      BY <1>1 DEF MonitorLock, LockFree
<1>2. ASSUME NEW c \in Conns, MonitorCheck(c) PROVE Inv'
      BY <1>2 DEF MonitorCheck, IsTimeOut
<1>3. CASE MonitorUnlock
      BY <1>3 DEF MonitorUnlock
<1>4. CASE Tick
      BY <1>4 DEF Tick
<1>5. CASE ServerStop
      BY <1>5 DEF ServerStop
<1>6. CASE StopAll
      BY <1>6 DEF StopAll, LockFree, PostClose
<1>7. CASE RunReturns
      BY <1>7 DEF RunReturns
<1>8. CASE MonitorJoined
      BY <1>8 DEF MonitorJoined
<1>9. CASE Terminated
      BY <1>9 DEF Terminated, vars
<1>10. CASE MonitorKill
      BY <1>10 DEF MonitorKill, PostClose
<1>q. QED
      BY <1>1, <1>2, <1>3, <1>4, <1>5, <1>6, <1>7, <1>8, <1>9, <1>10 DEF Monitor

-----------------------------------------------------------------------------

\* The invariant holds in every state of the server.
THEOREM Invariance == Spec => []Inv
<1>1. Inv /\ [Next]_vars => Inv'
  <2> SUFFICES ASSUME Inv, [Next]_vars PROVE Inv'
      OBVIOUS
  <2>1. CASE Next
        BY <2>1, ConnectionStep, AcceptStep, ServerStep DEF Next
  <2>2. CASE UNCHANGED vars
        BY <2>2
        DEF vars, connVars, mgrVars, srvVars, Inv, TypeOK, OneActivity,
            ManagedIsLive, ClosedOnce, LockInv, AcceptInv, Tracked,
            IdleBeforeOpen, ExitInv, OutOfWork, Active, Reading, Writing
  <2>q. QED
        BY <2>1, <2>2
<1>q. QED
      BY InitInv, <1>1, PTL DEF Spec

\* Every variable keeps its type.
THEOREM TypeCorrect == Spec => []TypeOK
<1>1. Inv => TypeOK
      BY DEF Inv
<1>q. QED
      BY Invariance, <1>1, PTL

\* The buffers of a connection have one user at a time.
THEOREM OneActivityCorrect == Spec => []OneActivity
<1>1. Inv => OneActivity
      BY DEF Inv
<1>q. QED
      BY Invariance, <1>1, PTL

\* What is in m_connections is alive and will be removed.
THEOREM ManagerCorrect == Spec => []ManagedIsLive
<1>1. Inv => ManagedIsLive
      BY DEF Inv
<1>q. QED
      BY Invariance, <1>1, PTL

\* What is alive on an open socket is in m_connections, being inserted or being
\* closed, so StopAll and the monitor reach it.
THEOREM NoneEscapesCorrect == Spec => []NoneEscapes
<1>1. Inv => NoneEscapes
      BY DEF Inv, TypeOK, NoneEscapes, Tracked, AcceptInv, AcceptStates
<1>q. QED
      BY Invariance, <1>1, PTL

\* A connection is closed at most once, whoever stops it.
THEOREM ClosedOnceCorrect == Spec => []ClosedOnce
<1>1. Inv => ClosedOnce
      BY DEF Inv
<1>q. QED
      BY Invariance, <1>1, PTL

\* When run() returns nothing is left open.
THEOREM CleanExitCorrect == Spec => []CleanExit
<1>1. Inv => CleanExit
      BY DEF Inv, TypeOK, ManagedIsLive, Tracked, ExitInv, OutOfWork, CleanExit,
             Active, Reading, Writing
<1>q. QED
      BY Invariance, <1>1, PTL

\* No step changes the reply object of a connection while a write uses it.
THEOREM ReplyStableCorrect == Spec => ReplyStable
<1> DEFINE Stable == \A c \in Conns : wr[c] = "pending" => m_reply'[c] = m_reply[c]
<1>1. Inv /\ [Next]_vars => [Stable]_vars
  <2> SUFFICES ASSUME Inv, Next PROVE Stable
      OBVIOUS
  <2> USE DEF Inv, TypeOK, OneActivity, Reading, Writing, connVars, mgrVars, srvVars
  <2>1. ASSUME NEW c \in Conns,
               DoClose(c) \/ HandleRead(c) \/ Reply(c) \/ HandleWrite(c)
               \/ PeerSend(c) \/ WriteCompletes(c)
        PROVE  Stable
        BY <2>1 DEF DoClose, HandleRead, HandleReadPartial, HandleReadBad,
                    HandleReadRequest, HandleReadError, Reply, HandleWrite,
                    HandleWriteNext, HandleWriteStop, PeerSend, WriteCompletes
  <2>2. CASE Accept \/ PeerConnect \/ AcceptFails
        BY <2>2 DEF Accept, PeerConnect, AcceptFails, HandleNewConnectionEnd,
                    HandleNewConnection, ManagerStart, ManagerStartInsert,
                    ManagerStartGone, StartAcceptConnection, Unreferenced, Construct
  <2>3. CASE \/ Monitor \/ Tick \/ ServerStop \/ StopAll \/ RunReturns
             \/ MonitorJoined \/ Terminated
        BY <2>3 DEF Monitor, MonitorLock, MonitorCheck, MonitorKill, MonitorUnlock,
                    Tick, ServerStop, StopAll, RunReturns, MonitorJoined,
                    Terminated, vars
  <2>q. QED
        BY <2>1, <2>2, <2>3 DEF Next
<1>q. QED
      BY Invariance, <1>1, PTL DEF Spec, ReplyStable
=============================================================================

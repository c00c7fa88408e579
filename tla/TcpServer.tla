------------------------------ MODULE TcpServer ------------------------------
(***************************************************************************)
(* yvent::TcpServer with its Acceptor and EventLoopThreadPool: connections *)
(* are accepted on the base loop, live on a loop of the pool and are       *)
(* erased from connections_ on the base loop again.                        *)
(*                                                                         *)
(* A loop is what TaskQueue promises: a queue of tasks that its thread     *)
(* runs in order; runInLoop() on the same loop is a direct call.  A        *)
(* connection is reduced to its state_, see TcpConnection; it closes in    *)
(* the connection callback of enableRead() or at any time after it.        *)
(***************************************************************************)
EXTENDS Naturals, Sequences, FiniteSets

CONSTANTS
    Conns,     \* the connections clients make, each accepted once
    PoolSizes  \* the sizes of the pool; 0: all on the base loop

ASSUME PoolSizesAssumption == PoolSizes \subseteq Nat

Base == 0

VARIABLES
    threadNum_,      \* EventLoopThreadPool::threadNum_
    queue,           \* per loop: its queued tasks
    connections_,    \* the connections in TcpServer::connections_
    inserting,       \* newConnection() of this connection is about to insert it
    nextEventLoop_,  \* EventLoopThreadPool::nextEventLoop_
    loopOf,          \* loop_ of a connection; Base before it is accepted
    state            \* state_ of a connection; "none" before it is accepted

vars == <<threadNum_, queue, connections_, inserting, nextEventLoop_, loopOf, state>>

\* loops_ of the pool, numbered from 1.
PoolLoops == 1..threadNum_
Loops == {Base} \cup PoolLoops

Init ==
    /\ threadNum_ \in PoolSizes
    /\ queue = [l \in Loops |-> <<>>]
    /\ connections_ = {}
    /\ inserting = {}
    /\ nextEventLoop_ = 0
    /\ loopOf = [c \in Conns |-> Base]
    /\ state = [c \in Conns |-> "none"]

-----------------------------------------------------------------------------
Post(l, op, c) == queue' = [queue EXCEPT ![l] = Append(@, <<op, c>>)]

\* Wrong: the index wraps before it reaches the last loop of the pool.
NextIndex_WrapsEarly ==
    IF nextEventLoop_ + 2 < threadNum_ THEN nextEventLoop_ + 1 ELSE 0

\* getNextEventLoop(): round robin, ...
NextIndex == IF threadNum_ = 0 THEN 0 ELSE (nextEventLoop_ + 1) % threadNum_

\* ... or the base loop if there is no pool.
NextLoop == IF threadNum_ = 0 THEN Base ELSE nextEventLoop_ + 1

\* What the application's connection callback leaves of the connection: open,
\* or closed by forceClose().
AfterCallback == {"kConnected", "kDisconnected"}

\* Acceptor::handleRead() and TcpServer::newConnection() with a pool:
\* enableRead() is queued on the loop of the connection ...
AcceptToPool(c) ==
    /\ state[c] = "none"
    /\ inserting = {}
    /\ threadNum_ > 0
    /\ nextEventLoop_' = NextIndex
    /\ loopOf' = [loopOf EXCEPT ![c] = NextLoop]
    /\ state' = [state EXCEPT ![c] = "kConnecting"]
    /\ Post(NextLoop, "enableRead", c)
    /\ inserting' = {c}
    /\ UNCHANGED <<threadNum_, connections_>>

\* Wrong: connections share a name, so the new one replaces the others.
Insert_SameName(c) ==
    /\ c \in inserting
    /\ connections_' = {c}
    /\ inserting' = {}
    /\ UNCHANGED <<threadNum_, queue, nextEventLoop_, loopOf, state>>

\* ... and the connection inserted, while that loop may already run.
Insert(c) ==
    /\ c \in inserting
    /\ connections_' = connections_ \cup {c}
    /\ inserting' = {}
    /\ UNCHANGED <<threadNum_, queue, nextEventLoop_, loopOf, state>>

\* The same without a pool: enableRead() and its callback run at once, and a
\* connection closed there is erased before it is inserted.
AcceptOnBase(c) ==
    /\ state[c] = "none"
    /\ inserting = {}
    /\ threadNum_ = 0
    /\ nextEventLoop_' = NextIndex
    /\ \E s \in AfterCallback : state' = [state EXCEPT ![c] = s]
    /\ inserting' = {c}
    /\ UNCHANGED <<threadNum_, queue, connections_, loopOf>>

\* Wrong: a connection is erased on the loop it lives on.
HandleClose_OnOwnLoop(c) ==
    /\ connections_' = connections_ \ {c}
    /\ UNCHANGED queue

\* TcpServer::handleClose(): the erase runs on the base loop.
HandleClose(c) ==
    IF loopOf[c] = Base
    THEN connections_' = connections_ \ {c} /\ UNCHANGED queue
    ELSE Post(Base, "erase", c) /\ UNCHANGED connections_

-----------------------------------------------------------------------------
(* A loop of the pool.                                                     *)

Runs(l, op, c) == queue[l] # <<>> /\ Head(queue[l]) = <<op, c>>

\* enableRead(); a connection closed in the callback queues its erase.
EnableRead(l, c) ==
    /\ l # Base
    /\ Runs(l, "enableRead", c)
    /\ \E s \in AfterCallback :
        /\ state' = [state EXCEPT ![c] = s]
        /\ queue' = [k \in Loops |->
                        IF k = l THEN Tail(queue[l])
                        ELSE IF k = Base /\ s = "kDisconnected"
                        THEN Append(queue[Base], <<"erase", c>>)
                        ELSE queue[k]]
    /\ UNCHANGED <<threadNum_, connections_, inserting, nextEventLoop_, loopOf>>

\* TcpConnection::handleClose(), for whatever reason, on its loop.  The base
\* loop does nothing else inside newConnection().
Close(c) ==
    /\ state[c] = "kConnected"
    /\ loopOf[c] = Base => inserting = {}
    /\ state' = [state EXCEPT ![c] = "kDisconnected"]
    /\ HandleClose(c)
    /\ UNCHANGED <<threadNum_, inserting, nextEventLoop_, loopOf>>

\* handleCloseInLoop()
HandleCloseInLoop(c) ==
    /\ inserting = {}
    /\ Runs(Base, "erase", c)
    /\ queue' = [queue EXCEPT ![Base] = Tail(@)]
    /\ connections_' = connections_ \ {c}
    /\ UNCHANGED <<threadNum_, inserting, nextEventLoop_, loopOf, state>>

LoopStep(c) ==
    \/ Insert(c) \/ HandleCloseInLoop(c)
    \/ \E l \in PoolLoops : EnableRead(l, c)

Next ==
    \E c \in Conns : AcceptToPool(c) \/ AcceptOnBase(c) \/ Close(c) \/ LoopStep(c)

Spec == Init /\ [][Next]_vars

\* Loops run their queued tasks.  No client has to connect, none to leave.
FairSpec == Spec /\ \A c \in Conns : WF_vars(LoopStep(c))

-----------------------------------------------------------------------------
(* Properties.                                                             *)

(***************************************************************************)
(* The server holds on to every connection that is not closed: it is in    *)
(* connections_, or about to be put there, so it is not destroyed while    *)
(* its loop uses it (the destructor asserts kDisconnected).  The enableRead *)
(* task of a connection may run, and the connection close, before          *)
(* newConnection() gets to the insertion.                                  *)
(***************************************************************************)
OpenIsHeld ==
    \A c \in Conns :
        state[c] \in {"kConnecting", "kConnected"} => c \in connections_ \cup inserting

(***************************************************************************)
(* Accepted connections are spread evenly: no loop of the pool has got two *)
(* connections more than another one (getNextEventLoop()).                 *)
(***************************************************************************)
Accepted(l) == {c \in Conns : state[c] # "none" /\ loopOf[c] = l}

RoundRobin ==
    \A k, l \in PoolLoops : Cardinality(Accepted(k)) <= Cardinality(Accepted(l)) + 1

Open(c) == state[c] \in {"kConnecting", "kConnected"}

(***************************************************************************)
(* A connection that was open either stays open or leaves connections_ for *)
(* good: its erase runs after its insertion, on the same loop.  Not so for *)
(* a connection that the base loop closes before newConnection() inserts   *)
(* it, without a pool, in its connection callback: that one is never open  *)
(* outside newConnection(), and its entry stays in connections_.           *)
(***************************************************************************)
ClosedIsErased ==
    \A c \in Conns : <>Open(c) => ([]<>Open(c) \/ <>[](c \notin connections_))
=============================================================================

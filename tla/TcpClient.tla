------------------------------ MODULE TcpClient ------------------------------
(***************************************************************************)
(* yvent::TcpClient with its Connector: one descriptor that first belongs  *)
(* to the Connector, which waits for connect() to finish, and then to a    *)
(* TcpConnection, both on the same loop and the same epoll set.            *)
(*                                                                         *)
(* An iteration of the loop polls, dispatches what was reported, with the  *)
(* callbacks of other channels in between, and then runs queued tasks.     *)
(* The connection is reduced to its state_ and to who points to it; see    *)
(* TcpConnection for the rest.  A failed assertion does not stop the       *)
(* model: it goes on as a build with NDEBUG does.                          *)
(***************************************************************************)
EXTENDS Naturals, Sequences

CONSTANTS
    Threads,          \* threads of the application other than the loop thread
    MaxTasks          \* bound: forceClose() is called below this queue length

ASSUME ClientAssumption == MaxTasks \in Nat

VARIABLES
    client,       \* the TcpClient exists
    startTask,    \* the task of TcpClient::start() is queued
    started_,     \* Connector::started_
    connected_,   \* Connector::connected_
    events_,      \* Connector::channel_.events_
    chState,      \* Connector::channel_.state_
    epoll,        \* whose channel epoll has for cfd_: "none", "connector", "connection"
    reported,     \* a channel of cfd_ is in activeChannels_, still to be handled
    sock,         \* "new", "connecting", "established" or "failed"
    soError,      \* SO_ERROR of the socket is not 0
    peerFin,      \* the peer closed its end
    atOnce,       \* history: connect() succeeded or failed at once
    connection_,  \* TcpClient::connection_ is not null
    saved,        \* the application keeps a TcpConnectionPtr for the loop thread
    call,         \* per thread: "out" without a TcpConnectionPtr, "idle" with one,
                  \* or inside forceClose() or shutdown(), see below
    tasks,        \* the queued tasks of the connection, each with a pointer to it
    state_,       \* state_ of the TcpConnection; "none" before there is one
    inCallback,   \* connectionCallback_ of newConnection() is running
    mishap,       \* history: what the properties make exceptions for, see below
    told,         \* history: what the callbacks told the application
    closes,       \* history: calls of ::close(cfd_)
    diedOpen      \* history: ~TcpConnection() ran in another state than kDisconnected

(***************************************************************************)
(* A thread that passed the test of forceClose() is at "forceClose", about *)
(* to queue the task; in shutdown() it is at "store" after the test of     *)
(* state_ and at "shutdown" after the store.                               *)
(*                                                                         *)
(* mishap collects two things that the code lets happen:                   *)
(*   "stored"  shutdown() on another thread stored kDisconnecting after    *)
(*             the loop had closed the connection;                         *)
(*   "stale"   the callback of another channel closed the connection, or   *)
(*             destroyed the client, while an event of cfd_ was waiting in *)
(*             activeChannels_.                                            *)
(***************************************************************************)
channelVars == <<events_, chState>>
connectorVars == <<startTask, started_, connected_, channelVars>>
pollVars == <<epoll, reported>>
socketVars == <<sock, soError, peerFin, atOnce>>
refVars == <<connection_, saved, call, tasks>>
storyVars == <<mishap, told>>
deathVars == <<closes, diedOpen>>
connVars == <<refVars, state_, inCallback, storyVars, deathVars>>
vars == <<client, connectorVars, pollVars, socketVars, connVars>>

Init ==
    /\ client = TRUE
    /\ startTask = FALSE /\ started_ = FALSE /\ connected_ = FALSE
    /\ events_ = {} /\ chState = "kNew" /\ epoll = "none" /\ reported = FALSE
    /\ sock = "new" /\ soError = FALSE /\ peerFin = FALSE /\ atOnce = FALSE
    /\ connection_ = FALSE /\ saved = FALSE
    /\ call = [th \in Threads |-> "out"] /\ tasks = <<>>
    /\ state_ = "none" /\ inCallback = FALSE
    /\ mishap = {} /\ told = <<>>
    /\ closes = 0 /\ diedOpen = FALSE

-----------------------------------------------------------------------------
(* Connector.                                                              *)

Start ==
    /\ client /\ ~startTask /\ ~started_
    /\ startTask' = TRUE
    /\ UNCHANGED <<client, started_, connected_, channelVars, pollVars, socketVars, connVars>>

\* Wrong: the Connector keeps its channel in epoll.
DisableAll_Forgotten(added) == UNCHANGED <<channelVars, epoll>>

\* channel_.disableAll() followed by the EPOLL_CTL_ADD of another channel for
\* the same descriptor, if added: a channel that was never registered is
\* registered here, with no events, and the other one then fails with EEXIST.
DisableAll(added) ==
    /\ events_' = {}
    /\ chState' = IF chState = "kNew" THEN "kAdded" ELSE "kDeleted"
    /\ epoll' = IF chState = "kNew" THEN "connector" ELSE added

\* Wrong: connected_ is not set.
HandOver_Forgotten == UNCHANGED connected_

\* connected_ = true: cfd_ belongs to the TcpConnection from here on.
HandOver == connected_' = TRUE

\* The test of SO_ERROR.
Failed(err) == err

(***************************************************************************)
(* Connector::handleWrite() and, if SO_ERROR is 0, TcpClient::             *)
(* newConnection() up to the application's connectionCallback_.            *)
(***************************************************************************)
HandleWrite(err) ==
    /\ soError' = FALSE
    /\ IF Failed(err)
       THEN /\ DisableAll("none")
            /\ told' = Append(told, "error")
            /\ UNCHANGED <<connected_, connection_, state_, inCallback>>
       ELSE /\ DisableAll("connection")
            /\ HandOver
            /\ connection_' = TRUE
            /\ state_' = "kConnected"
            /\ inCallback' = TRUE
            /\ told' = Append(told, "up")

\* channel_.enableWrite() of a channel that is not registered yet.
AwaitConnect ==
    /\ events_' = {"OUT"}
    /\ chState' = "kAdded"
    /\ epoll' = "connector"

\* Connector::start(): connect() goes on, or it is over at once, with an error
\* that is then not left in SO_ERROR.
RunStart ==
    /\ startTask /\ ~inCallback /\ ~reported
    /\ startTask' = FALSE
    /\ started_' = TRUE
    /\ sock' \in {"connecting", "established", "failed"}
    /\ atOnce' = (sock' # "connecting")
    /\ IF atOnce'
       THEN HandleWrite(FALSE)
       ELSE /\ AwaitConnect
            /\ UNCHANGED <<soError, connected_, connection_, state_, inCallback, told>>
    /\ UNCHANGED <<client, reported, peerFin, saved, call, tasks, mishap, deathVars>>

-----------------------------------------------------------------------------
(* Poll::poll() and the dispatch of activeChannels_.                       *)

\* epoll_wait reports the channel that is registered for cfd_.
PollReturns ==
    /\ ~inCallback /\ ~reported
    /\ \/ epoll = "connector" /\ "OUT" \in events_ /\ sock # "connecting"
       \/ epoll = "connection" /\ peerFin
    /\ reported' = TRUE
    /\ UNCHANGED <<client, connectorVars, epoll, socketVars, connVars>>

\* The channel of the Connector: it was reported writable.
ConnectorEvent ==
    /\ ~inCallback
    /\ reported /\ epoll = "connector"
    /\ reported' = FALSE
    /\ HandleWrite(soError)
    /\ UNCHANGED <<client, startTask, started_, sock, peerFin, atOnce, saved, call, tasks,
                   mishap, deathVars>>

-----------------------------------------------------------------------------
(* The connection.                                                         *)

\* Somebody holds a TcpConnectionPtr.
Referenced ==
    connection_ \/ saved \/ tasks # <<>> \/ \E th \in Threads : call[th] # "out"

\* ~TcpConnection() runs in the step that gives up the last reference, and
\* closes the descriptor.  Others tells how often somebody else closes it.
Deaths(others) ==
    IF Referenced /\ ~Referenced'
    THEN /\ closes' = closes + others + 1
         /\ diedOpen' = (diedOpen \/ state_' # "kDisconnected")
    ELSE closes' = closes + others /\ UNCHANGED diedOpen

\* Wrong: the connection is released before it is marked as closed.
Closed_NotMarked == state_

\* What handleClose() stores.
Closed == "kDisconnected"

(***************************************************************************)
(* TcpConnection::handleClose() and TcpClient::closeConnection(), which    *)
(* tells the application, which may keep the pointer it is told or drop    *)
(* those it has and does not use.                                          *)
(* After "stored" the client may be gone: its closeCallback_ is followed   *)
(* as if the memory were still there.                                      *)
(***************************************************************************)
HandleClose ==
    /\ state_' = Closed
    /\ epoll' = "none"
    /\ mishap' = mishap \cup (IF reported' THEN {"stale"} ELSE {})
    /\ connection_' = FALSE
    /\ told' = Append(told, "down")
    /\ \/ saved' \in {saved, TRUE} /\ UNCHANGED call
       \/ /\ saved' = FALSE
          /\ call' = [th \in Threads |-> IF call[th] = "idle" THEN "out" ELSE call[th]]
    /\ UNCHANGED <<client, connectorVars, socketVars, inCallback>>
    /\ Deaths(0)

\* TcpConnection::handleRead() at the end of the peer's data.  The handler of
\* a channel that is gone is a use after free, which is not followed.
HandleReadEof ==
    /\ ~inCallback
    /\ reported /\ epoll # "connector"
    /\ reported' = FALSE
    /\ IF Referenced
       THEN UNCHANGED tasks /\ HandleClose
       ELSE UNCHANGED <<client, connectorVars, epoll, socketVars, connVars>>

\* Wrong: forceCloseInLoop() does not look at state_ again.
StillOpen_Unchecked == TRUE

\* The test of forceCloseInLoop().
StillOpen == state_ # "kDisconnected"

\* The loop gets to its tasks.
Runs(op) ==
    /\ ~inCallback /\ ~reported
    /\ tasks # <<>> /\ Head(tasks) = op
    /\ tasks' = Tail(tasks)
    /\ UNCHANGED reported

\* The task is destroyed, and with it its pointer; nothing else happens.
TaskDone ==
    /\ UNCHANGED <<client, connectorVars, epoll, socketVars, connection_, saved, call, state_,
                   inCallback, storyVars>>
    /\ Deaths(0)

\* forceCloseInLoop()
RunForceClose ==
    /\ Runs("forceClose")
    /\ IF StillOpen THEN HandleClose ELSE TaskDone

\* shutdownInLoop(): its FIN is TcpConnection's.
RunShutdown ==
    /\ Runs("shutdown")
    /\ TaskDone

-----------------------------------------------------------------------------
(* The application on the loop thread: in the callback of newConnection(), *)
(* with a pointer it saved, in a callback of any other channel, or in the  *)
(* messageCallback_ of a registered connection.                            *)

InUserCode ==
    \/ saved
    \/ inCallback /\ connection_
    \/ ~inCallback /\ ~reported /\ epoll = "connection"

\* It keeps a copy of the pointer, ...
UserSaves ==
    /\ InUserCode
    /\ saved' = TRUE
    /\ UNCHANGED <<client, connectorVars, pollVars, socketVars, connection_, call, tasks, state_,
                   inCallback, storyVars, deathVars>>

\* ... drops it, ...
UserDrops ==
    /\ saved
    /\ saved' = FALSE
    /\ UNCHANGED <<client, connectorVars, pollVars, socketVars, connection_, call, tasks, state_,
                   inCallback, storyVars>>
    /\ Deaths(0)

\* ... gives a thread one, ...
UserShares(th) ==
    /\ InUserCode
    /\ call[th] = "out"
    /\ call' = [call EXCEPT ![th] = "idle"]
    /\ UNCHANGED <<client, connectorVars, pollVars, socketVars, connection_, saved, tasks, state_,
                   inCallback, storyVars, deathVars>>

\* ... calls shutdown(), ...
UserShutdown ==
    /\ InUserCode
    /\ state_ = "kConnected"
    /\ state_' = "kDisconnecting"
    /\ UNCHANGED <<client, connectorVars, pollVars, socketVars, refVars, inCallback, storyVars,
                   deathVars>>

\* ... or forceClose().
UserForceClose ==
    /\ InUserCode
    /\ state_ # "kDisconnected"
    /\ UNCHANGED <<reported, tasks>>
    /\ HandleClose

\* connectionCallback_ returns to newConnection().
CallbackReturns ==
    /\ inCallback
    /\ inCallback' = FALSE
    /\ UNCHANGED <<client, connectorVars, pollVars, socketVars, refVars, state_, storyVars,
                   deathVars>>

-----------------------------------------------------------------------------
(* Calls by other threads: the test of state_, the store of shutdown(),    *)
(* the queued task, with the loop free to run in between.                  *)

Goes(th, from, to) ==
    /\ call[th] = from
    /\ call' = [call EXCEPT ![th] = to]
    /\ UNCHANGED <<client, connectorVars, pollVars, socketVars, connection_, saved, inCallback,
                   told>>

ForceCloseTest(th) ==
    /\ Goes(th, "idle", "forceClose")
    /\ state_ # "kDisconnected"
    /\ Len(tasks) < MaxTasks
    /\ UNCHANGED <<tasks, state_, mishap, deathVars>>

ShutdownTest(th) ==
    /\ Goes(th, "idle", "store")
    /\ state_ = "kConnected"
    /\ UNCHANGED <<tasks, state_, mishap, deathVars>>

ShutdownStore(th) ==
    /\ Goes(th, "store", "shutdown")
    /\ state_' = "kDisconnecting"
    /\ mishap' = mishap \cup (IF state_ = "kDisconnected" THEN {"stored"} ELSE {})
    /\ UNCHANGED <<tasks, deathVars>>

\* loop_->runInLoop() off the loop thread.
Post(th) ==
    /\ call[th] \in {"forceClose", "shutdown"}
    /\ Goes(th, call[th], "idle")
    /\ tasks' = Append(tasks, call[th])
    /\ UNCHANGED <<state_, mishap, deathVars>>

\* A thread drops its pointer.
Release(th) ==
    /\ Goes(th, "idle", "out")
    /\ UNCHANGED <<tasks, state_, mishap>>
    /\ Deaths(0)

(***************************************************************************)
(* ~TcpClient(): connection_ is released, and the Connector closes cfd_    *)
(* unless it handed it over; closing takes it out of epoll.  The client of *)
(* an open connection is destroyed only when nobody else points to the     *)
(* connection, whose closeCallback_ would call the destroyed client.       *)
(***************************************************************************)
Destroy ==
    /\ client /\ ~startTask /\ ~inCallback
    /\ client' = FALSE
    /\ epoll' = "none"
    /\ mishap' = mishap \cup (IF reported THEN {"stale"} ELSE {})
    /\ connection_' = FALSE
    /\ UNCHANGED <<connectorVars, reported, socketVars, saved, call, tasks, state_, inCallback,
                   told>>
    /\ connection_ => ~Referenced'
    /\ Deaths(IF connected_ THEN 0 ELSE 1)

-----------------------------------------------------------------------------
(* The kernel and the peer.                                                *)

ConnectSucceeds ==
    /\ sock = "connecting"
    /\ sock' = "established"
    /\ UNCHANGED <<client, connectorVars, pollVars, soError, peerFin, atOnce, connVars>>

ConnectFails ==
    /\ sock = "connecting"
    /\ sock' = "failed"
    /\ soError' = TRUE
    /\ UNCHANGED <<client, connectorVars, pollVars, peerFin, atOnce, connVars>>

PeerCloses ==
    /\ sock = "established" /\ ~peerFin
    /\ peerFin' = TRUE
    /\ UNCHANGED <<client, connectorVars, pollVars, sock, soError, atOnce, connVars>>

Next ==
    \/ Start \/ RunStart \/ PollReturns \/ ConnectorEvent \/ HandleReadEof
    \/ RunForceClose \/ RunShutdown
    \/ UserSaves \/ UserDrops \/ UserShutdown \/ UserForceClose \/ CallbackReturns
    \/ Destroy
    \/ \E th \in Threads :
          \/ UserShares(th) \/ ForceCloseTest(th) \/ ShutdownTest(th) \/ ShutdownStore(th)
          \/ Post(th) \/ Release(th)
    \/ ConnectSucceeds \/ ConnectFails \/ PeerCloses

Spec == Init /\ [][Next]_vars

-----------------------------------------------------------------------------
(* Properties.                                                             *)

(***************************************************************************)
(* The descriptor changes hands in epoll too: the channel of the client's  *)
(* connection is the one registered for it, the Connector's having been    *)
(* removed before (disableAll() in Connector::handleWrite()).  The         *)
(* exception is a connect() that succeeds at once: disableAll() then       *)
(* registers the Connector's channel, without events, which the assertion  *)
(* of Poll::updateChannel() forbids, and the connection's EPOLL_CTL_ADD    *)
(* fails.                                                                  *)
(***************************************************************************)
HandedOver == connection_ => epoll = "connection" \/ atOnce

(***************************************************************************)
(* cfd_ is closed exactly once: never twice, by the Connector as well as   *)
(* by the TcpConnection, and not forgotten when both are gone, whatever    *)
(* shutdown() and stale events did to the connection before.               *)
(***************************************************************************)
ClosedOnce ==
    /\ closes <= 1
    /\ ~client /\ ~Referenced => closes = 1

(***************************************************************************)
(* The application is told a consistent story: that connect() failed, or   *)
(* connected and then disconnected.  It hears "disconnected" again, and    *)
(* the assertion of closeConnection() that connection_ is set fails, only  *)
(* after one of the two mishaps.  "Connected" is true, unless connect()    *)
(* failed at once, with an errno that SO_ERROR does not repeat.            *)
(***************************************************************************)
ToldInOrder ==
    /\ told \in {<<>>, <<"error">>} \/ (told[1] = "up" /\ \A i \in 2..Len(told) : told[i] = "down")
    /\ Len(told) > 2 => mishap # {}
    /\ told # <<>> /\ ~atOnce => (told[1] = "up" <=> sock = "established")

(***************************************************************************)
(* The assertion of ~TcpConnection(), that a connection dies kDisconnected,*)
(* fails in ~TcpClient(), which does not close its connection, or after a  *)
(* shutdown() of another thread that stored kDisconnecting on a closed     *)
(* connection.  Nothing else, stale events included, gives up the last     *)
(* reference to an open connection.                                        *)
(***************************************************************************)
DiesClosed == diedOpen => ~client \/ "stored" \in mishap
=============================================================================

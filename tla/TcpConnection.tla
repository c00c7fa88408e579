---------------------------- MODULE TcpConnection ----------------------------
(***************************************************************************)
(* yvent::TcpConnection with its Channel, on one loop: the handlers the    *)
(* loop thread runs, the application callbacks they nest, and the calls of *)
(* send(), shutdown() and forceClose() made by other threads.              *)
(*                                                                         *)
(* The loop is what TaskQueue promises: tasks run one at a time, in the    *)
(* order they were queued, and interleave with the dispatch of channels.   *)
(* runInLoop() on the loop thread is a direct call, so callbacks nest: the *)
(* variable stack holds the loop thread's frames, innermost first.  A      *)
(* handler runs in one step up to the next application callback; in such a *)
(* step it reads or writes state_ at one point only, state_ being all it   *)
(* shares with other threads beside the task queue.                        *)
(*                                                                         *)
(* Bytes are abstract units.  A callback that is not set behaves like one  *)
(* that returns at once.  The content and the descriptor of a file being   *)
(* sent are WebServer's.                                                   *)
(***************************************************************************)
EXTENDS Naturals, Sequences, FiniteSets

CONSTANTS
    Threads,          \* threads other than the loop thread
    Messages,         \* messages, each taken by send() at most once
    MsgLen,           \* bytes of a message
    FileSize,         \* bytes of a file given to setSendFd()
    MaxFiles,         \* bound: calls of setSendFd()
    MaxInbound,       \* bound: unread chunks of the peer's data
    MaxTasks          \* bound: forceClose() is called below this queue length

ASSUME SizesAssumption ==
    /\ MsgLen \in Nat \ {0}
    /\ FileSize \in Nat \ {0}
    /\ MaxFiles \in Nat
    /\ MaxInbound \in Nat
    /\ MaxTasks \in Nat

VARIABLES
    state_,      \* TcpConnection::state_
    events_,     \* channel_.events_
    chState,     \* channel_.state_
    closes,      \* history: calls of handleClose()
    mishap,      \* history: what the properties make exceptions for, see below
    outBuffer_,  \* the readable bytes of outBuffer_
    fileLeft,    \* sbuf_.st_size
    fin,         \* ::shutdown(SHUT_WR) was called
    wire,        \* message bytes the kernel accepted, in order
    stream,      \* history: message bytes sendInLoop() took charge of
    inbound,     \* chunks of the peer's data waiting in the socket
    peer,        \* "open", "fin" or "reset"
    sockErr,     \* the socket has a pending error
    stack,       \* frames of the loop thread, see below
    revents,     \* what handleEvents() still has to handle
    tasks,       \* tasks of the loop that concern this connection
    call,        \* per foreign thread: the call it is in the middle of, Idle, or
                 \* Out while it holds no TcpConnectionPtr
    unsent,      \* history: messages send() has not taken yet
    files,       \* history: Len(stream) at each call of setSendFd()
    owner        \* TcpServer's entry: "holds", "erasing" (queued), "gone"

connVars == <<state_, events_, chState, closes, mishap>>
outVars  == <<outBuffer_, fileLeft, fin, wire, stream>>
sockVars == <<inbound, peer, sockErr>>
loopVars == <<stack, revents, tasks>>
appVars  == <<call, unsent, files, owner>>
vars == <<connVars, outVars, sockVars, loopVars, appVars>>

(***************************************************************************)
(* The frames of stack: "events", in handleEvents(); "user", in an         *)
(* application callback; "closing", handleClose() after                    *)
(* connectionCallback_; "sent", sendInLoop() after writeCompleteCallback_. *)
(*                                                                         *)
(* mishap collects two things that the code lets happen:                   *)
(*   "stored"  shutdown() on another thread stored kDisconnecting after    *)
(*             the loop had closed the connection;                         *)
(*   "stale"   the callback of another channel closed the connection while *)
(*             its own events were waiting in activeChannels_.             *)
(***************************************************************************)
Idle == <<"idle">>
Out == <<"out">>

\* The tasks that the connection's methods queue, and enableRead() queued by
\* TcpServer::newConnection().
Task == ({"send"} \X Messages) \cup {<<"enableRead">>, <<"shutdown">>, <<"forceClose">>}

Bytes(m) == [i \in 1..MsgLen |-> <<m, i>>]

Init ==
    /\ state_ = "kConnecting" /\ events_ = {} /\ chState = "kNew"
    /\ closes = 0 /\ mishap = {}
    /\ outBuffer_ = <<>> /\ fileLeft = 0 /\ fin = FALSE
    /\ wire = <<>> /\ stream = <<>>
    /\ inbound = 0 /\ peer = "open" /\ sockErr = FALSE
    /\ stack = <<>> /\ revents = {} /\ tasks = << <<"enableRead">> >>
    /\ call = [th \in Threads |-> Out] /\ unsent = Messages /\ files = <<>> /\ owner = "holds"

-----------------------------------------------------------------------------
(* Channel and socket.                                                     *)

isWriting == "OUT" \in events_

\* Channel::update() and Poll::updateChannel(): an emptied channel is deleted,
\* and no EPOLL_CTL_MOD brings a deleted one back.
SetEvents(ev) ==
    /\ events_' = ev
    /\ chState' = IF chState = "kNew" THEN "kAdded"
                  ELSE IF ev = {} THEN "kDeleted" ELSE chState

\* How many of k bytes ::write() or ::sendfile() may take.  0 stands for -1:
\* EAGAIN, or the error of a socket that was shut down or reset.
Takes(k) == IF fin \/ peer = "reset" THEN {0} ELSE 0..k

-----------------------------------------------------------------------------
(* Handlers, each returning to the frames given as rest.                   *)

\* Wrong: sendInLoop() gives up once shutdown() was called.
AcceptsOutput_OnlyConnected == state_ = "kConnected"

\* sendInLoop() gives up only on a closed connection.
AcceptsOutput == state_ # "kDisconnected"

\* Wrong: data is written directly past what outBuffer_ still holds.
WritesDirectly_PastBuffer == TRUE

WritesDirectly == ~isWriting /\ outBuffer_ = <<>>

\* Wrong: the rest of a message is buffered without asking for EPOLLOUT.
KeepRest_NotArmed(rest) ==
    outBuffer_' = outBuffer_ \o rest /\ UNCHANGED <<events_, chState>>

\* The last if of sendInLoop() when bytes are left over.
KeepRest(rest) ==
    /\ outBuffer_' = outBuffer_ \o rest
    /\ IF isWriting THEN UNCHANGED <<events_, chState>> ELSE SetEvents(events_ \cup {"OUT"})

\* sendInLoop(): write what the socket takes, buffer the rest; a message
\* written at once calls writeCompleteCallback_, which returns to "sent".
SendInLoop(m, rest) ==
    IF ~AcceptsOutput
    THEN stack' = rest /\ UNCHANGED <<events_, chState, outVars>>
    ELSE \E n \in IF WritesDirectly THEN Takes(MsgLen) ELSE {0} :
         /\ stream' = stream \o Bytes(m)
         /\ wire' = wire \o SubSeq(Bytes(m), 1, n)
         /\ IF n = MsgLen
            THEN stack' = <<"user", "sent">> \o rest /\ UNCHANGED <<outBuffer_, events_, chState>>
            ELSE stack' = rest /\ KeepRest(SubSeq(Bytes(m), n + 1, MsgLen))
         /\ UNCHANGED <<fileLeft, fin>>

\* Wrong: SHUT_WR waits for outBuffer_ to drain, but not for a file.
ShutdownInLoop_BufferOnly == fin' = (fin \/ outBuffer_ = <<>>)

\* shutdownInLoop(): nothing while output is pending; handleWrite() calls it
\* again.
ShutdownInLoop == fin' = (fin \/ ~isWriting)

\* handleClose() up to connectionCallback_.
HandleClose(rest) ==
    /\ state_' = "kDisconnected"
    /\ SetEvents({})
    /\ closes' = closes + 1
    /\ mishap' = mishap \cup (IF revents' \cap {"read", "close"} = {} THEN {} ELSE {"stale"})
    /\ stack' = <<"user", "closing">> \o rest

\* Wrong: closeCallback_ is never called.
CloseCallback_Unset == UNCHANGED owner

\* closeCallback_, with which TcpServer queues the erase on its loop.
CloseCallback == owner' = IF owner = "holds" THEN "erasing" ELSE owner

\* An application callback returns: to the loop, to handleEvents(), or to the
\* rest of sendInLoop(), where a pending file still has to be sent, or of
\* handleClose().
Returns ==
    /\ stack # <<>> /\ Head(stack) \in {"user", "sent", "closing"}
    /\ stack' = Tail(stack)
    /\ IF Head(stack) = "sent" /\ fileLeft # 0
       THEN KeepRest(<<>>) ELSE UNCHANGED <<outBuffer_, events_, chState>>
    /\ IF Head(stack) = "closing" THEN CloseCallback ELSE UNCHANGED owner
    /\ UNCHANGED <<state_, closes, mishap, fileLeft, fin, wire, stream, sockVars,
                   revents, tasks, call, unsent, files>>

-----------------------------------------------------------------------------
(* Tasks.                                                                  *)

Runs(op) ==
    /\ stack = <<>>
    /\ tasks # <<>>
    /\ Head(tasks)[1] = op
    /\ tasks' = Tail(tasks)

\* enableRead(), queued by TcpServer::newConnection().
EnableRead ==
    /\ Runs("enableRead")
    /\ state_' = "kConnected"
    /\ SetEvents(events_ \cup {"IN"})
    /\ stack' = <<"user">>
    /\ UNCHANGED <<closes, mishap, outVars, sockVars, revents, appVars>>

RunSend ==
    /\ Runs("send")
    /\ SendInLoop(Head(tasks)[2], <<>>)
    /\ UNCHANGED <<state_, closes, mishap, sockVars, revents, appVars>>

RunShutdown ==
    /\ Runs("shutdown")
    /\ ShutdownInLoop
    /\ UNCHANGED <<connVars, outBuffer_, fileLeft, wire, stream, sockVars, stack,
                   revents, appVars>>

\* Wrong: forceCloseInLoop() does not look at state_ again.
StillOpen_Unchecked == TRUE

\* The test of forceCloseInLoop().
StillOpen == state_ # "kDisconnected"

RunForceClose ==
    /\ Runs("forceClose")
    /\ IF StillOpen THEN UNCHANGED revents /\ HandleClose(<<>>)
                    ELSE UNCHANGED <<connVars, stack, revents>>
    /\ UNCHANGED <<outVars, sockVars, appVars>>

RunTask == EnableRead \/ RunSend \/ RunShutdown \/ RunForceClose

-----------------------------------------------------------------------------
(* Poll::poll() and Channel::handleEvents().                               *)

(***************************************************************************)
(* What handleEvents() does for a set of epoll flags: "close" is EPOLLHUP  *)
(* without EPOLLIN, "error" EPOLLERR, "read" EPOLLIN, "write" EPOLLOUT.    *)
(* Linux reports EPOLLIN with every EPOLLHUP of a TCP socket; the model    *)
(* also reports EPOLLHUP alone, which handleEvents() provides for.         *)
(***************************************************************************)
Readable == inbound > 0 \/ peer # "open"
HungUp == peer = "reset" \/ (peer = "fin" /\ fin)

Reportable ==
    {r \in SUBSET {"close", "error", "read", "write"} :
        /\ r # {}
        /\ "close" \in r => HungUp
        /\ "error" \in r <=> sockErr
        /\ Readable <=> ("read" \in r \/ "close" \in r)
        /\ ~("read" \in r /\ "close" \in r)
        /\ "write" \in r => isWriting
        /\ isWriting /\ (fin \/ peer = "reset") => "write" \in r}

\* epoll_wait reports the channel.  Another one may precede it in
\* activeChannels_: its callback is application code too.
PollReturns ==
    /\ stack = <<>>
    /\ chState = "kAdded"
    /\ revents' \in Reportable
    /\ stack' \in {<<"events">>, <<"user", "events">>}
    /\ UNCHANGED <<connVars, outVars, sockVars, tasks, appVars>>

\* handleEvents() looks at revents_ in this order.
Stage == [close |-> 1, error |-> 2, read |-> 3, write |-> 4]

At(e) ==
    /\ stack = <<"events">>
    /\ e \in revents
    /\ \A f \in revents : Stage[e] <= Stage[f]
    /\ revents' = revents \ {e}

HangUp ==
    /\ At("close")
    /\ HandleClose(stack)
    /\ UNCHANGED <<outVars, sockVars, tasks, appVars>>

\* handleError(): getsockopt(SO_ERROR) clears the pending error.
HandleError ==
    /\ At("error")
    /\ sockErr' = FALSE
    /\ UNCHANGED <<connVars, outVars, inbound, peer, stack, tasks, appVars>>

\* handleRead() with data: messageCallback_.
HandleReadData ==
    /\ At("read")
    /\ inbound > 0
    /\ inbound' = 0
    /\ stack' = <<"user">> \o stack
    /\ UNCHANGED <<connVars, outVars, peer, sockErr, tasks, appVars>>

\* handleRead() with an error: only logged.
HandleReadError ==
    /\ At("read")
    /\ inbound = 0
    /\ sockErr
    /\ sockErr' = FALSE
    /\ UNCHANGED <<connVars, outVars, inbound, peer, stack, tasks, appVars>>

\* Wrong: the end of the peer's data is taken for an empty read.
EndOfData_Ignored == UNCHANGED <<connVars, stack>>

EndOfData == HandleClose(stack)

\* handleRead() at the end of the peer's data.
HandleReadEof ==
    /\ At("read")
    /\ inbound = 0 /\ ~sockErr /\ peer # "open"
    /\ EndOfData
    /\ UNCHANGED <<outVars, sockVars, tasks, appVars>>

\* Wrong: a shutdown() that found output pending is forgotten.
Drained_NoShutdown == SetEvents(events_ \ {"OUT"}) /\ UNCHANGED fin

\* handleWrite() once all output is gone: disableWrite() and, if shutdown()
\* was waiting, shutdownInLoop(), which finds the channel not writing.
Drained ==
    /\ SetEvents(events_ \ {"OUT"})
    /\ fin' = (fin \/ state_ = "kDisconnecting")

\* handleWrite() with bytes in outBuffer_.
HandleWriteBuffer ==
    /\ At("write")
    /\ isWriting
    /\ outBuffer_ # <<>>
    /\ \E n \in Takes(Len(outBuffer_)) :
        /\ wire' = wire \o SubSeq(outBuffer_, 1, n)
        /\ outBuffer_' = SubSeq(outBuffer_, n + 1, Len(outBuffer_))
        /\ IF n = Len(outBuffer_) /\ fileLeft = 0
           THEN Drained /\ stack' = <<"user">> \o stack
           ELSE UNCHANGED <<events_, chState, fin, stack>>
    /\ UNCHANGED <<state_, closes, mishap, fileLeft, stream, sockVars, tasks, appVars>>

\* handleWrite() with a file to send.
HandleWriteFile ==
    /\ At("write")
    /\ isWriting
    /\ outBuffer_ = <<>> /\ fileLeft # 0
    /\ \E n \in Takes(fileLeft) :
        /\ fileLeft' = fileLeft - n
        /\ IF n = fileLeft THEN Drained ELSE UNCHANGED <<events_, chState, fin>>
    /\ UNCHANGED <<state_, closes, mishap, outBuffer_, wire, stream, sockVars, stack,
                   tasks, appVars>>

\* handleWrite() with nothing to do: closed by an earlier stage.
HandleWriteNothing ==
    /\ At("write")
    /\ ~isWriting \/ (outBuffer_ = <<>> /\ fileLeft = 0)
    /\ UNCHANGED <<connVars, outVars, sockVars, stack, tasks, appVars>>

EventsReturn ==
    /\ stack = <<"events">>
    /\ revents = {}
    /\ stack' = <<>>
    /\ UNCHANGED <<connVars, outVars, sockVars, revents, tasks, appVars>>

HandleEvents ==
    \/ HangUp \/ HandleError
    \/ HandleReadData \/ HandleReadError \/ HandleReadEof
    \/ HandleWriteBuffer \/ HandleWriteFile \/ HandleWriteNothing
    \/ EventsReturn

-----------------------------------------------------------------------------
(* The application on the loop thread, in any of its callbacks.  A call of *)
(* send(), shutdown() or forceClose() whose test of state_ fails changes   *)
(* nothing.                                                                *)

InUserCode == stack # <<>> /\ Head(stack) = "user"

UserSend(m) ==
    /\ InUserCode
    /\ m \in unsent
    /\ state_ = "kConnected"
    /\ unsent' = unsent \ {m}
    /\ SendInLoop(m, stack)
    /\ UNCHANGED <<state_, closes, mishap, sockVars, revents, tasks, call, files, owner>>

\* setSendFd(): the file goes out after the next send().
UserSetSendFd ==
    /\ InUserCode
    /\ Len(files) < MaxFiles
    /\ files' = Append(files, Len(stream))
    /\ fileLeft' = FileSize
    /\ UNCHANGED <<connVars, outBuffer_, fin, wire, stream, sockVars, loopVars, call,
                   unsent, owner>>

\* Wrong: shutdown() does not look at state_.
MayShutdown_Always == TRUE

\* The test of shutdown().
MayShutdown == state_ = "kConnected"

UserShutdown ==
    /\ InUserCode
    /\ MayShutdown
    /\ state_' = "kDisconnecting"
    /\ ShutdownInLoop
    /\ UNCHANGED <<events_, chState, closes, mishap, outBuffer_, fileLeft, wire,
                   stream, sockVars, loopVars, appVars>>

UserForceClose ==
    /\ InUserCode
    /\ state_ # "kDisconnected"
    /\ UNCHANGED revents
    /\ HandleClose(stack)
    /\ UNCHANGED <<outVars, sockVars, tasks, appVars>>

\* The application gives a thread a copy of the TcpConnectionPtr.
UserShares(th) ==
    /\ InUserCode
    /\ call[th] = Out
    /\ call' = [call EXCEPT ![th] = Idle]
    /\ UNCHANGED <<connVars, outVars, sockVars, loopVars, unsent, files, owner>>

-----------------------------------------------------------------------------
(* Calls by other threads: the test of state_, then the queued task, with  *)
(* the loop free to run in between.  A call whose test fails changes       *)
(* nothing.                                                                *)

Begins(th, c) ==
    /\ call[th] = Idle
    /\ call' = [call EXCEPT ![th] = c]
    /\ UNCHANGED <<connVars, outVars, sockVars, loopVars, files, owner>>

ForeignSend(th, m) ==
    /\ m \in unsent
    /\ state_ = "kConnected"
    /\ unsent' = unsent \ {m}
    /\ Begins(th, <<"send", m>>)

ForeignForceClose(th) ==
    /\ state_ # "kDisconnected"
    /\ Len(tasks) < MaxTasks
    /\ Begins(th, <<"forceClose">>)
    /\ UNCHANGED unsent

\* shutdown(): the test of state_ ...
ForeignShutdownTest(th) ==
    /\ MayShutdown
    /\ Begins(th, <<"store">>)
    /\ UNCHANGED unsent

\* ... and the store.
ForeignShutdownStore(th) ==
    /\ call[th] = <<"store">>
    /\ state_' = "kDisconnecting"
    /\ mishap' = mishap \cup (IF state_ = "kDisconnected" THEN {"stored"} ELSE {})
    /\ call' = [call EXCEPT ![th] = <<"shutdown">>]
    /\ UNCHANGED <<events_, chState, closes, outVars, sockVars, loopVars,
                   unsent, files, owner>>

\* loop_->runInLoop() off the loop thread.
ForeignPost(th) ==
    /\ call[th] \in Task
    /\ tasks' = Append(tasks, call[th])
    /\ call' = [call EXCEPT ![th] = Idle]
    /\ UNCHANGED <<connVars, outVars, sockVars, stack, revents, unsent, files,
                   owner>>

\* The thread destroys its TcpConnectionPtr.
ForeignRelease(th) ==
    /\ call[th] = Idle
    /\ call' = [call EXCEPT ![th] = Out]
    /\ UNCHANGED <<connVars, outVars, sockVars, loopVars, unsent, files, owner>>

\* TcpServer::handleCloseInLoop(), on the server's loop.
ServerErases ==
    /\ owner = "erasing"
    /\ owner' = "gone"
    /\ UNCHANGED <<connVars, outVars, sockVars, loopVars, call, unsent, files>>

-----------------------------------------------------------------------------
(* The peer sends, closes its side or resets the connection.               *)

PeerStep ==
    /\ \/ /\ peer = "open" /\ inbound < MaxInbound
          /\ inbound' = inbound + 1
          /\ UNCHANGED <<peer, sockErr>>
       \/ /\ peer = "open"
          /\ peer' = "fin"
          /\ UNCHANGED <<inbound, sockErr>>
       \/ /\ peer # "reset"
          /\ peer' = "reset" /\ sockErr' = TRUE
          /\ UNCHANGED inbound
    /\ UNCHANGED <<connVars, outVars, loopVars, appVars>>

-----------------------------------------------------------------------------
UserStep ==
    \/ \E m \in Messages : UserSend(m)
    \/ UserSetSendFd \/ UserShutdown \/ UserForceClose
    \/ \E th \in Threads : UserShares(th)

ForeignStep(th) ==
    \/ \E m \in Messages : ForeignSend(th, m)
    \/ ForeignForceClose(th) \/ ForeignShutdownTest(th)
    \/ ForeignShutdownStore(th) \/ ForeignPost(th) \/ ForeignRelease(th)

Next ==
    \/ RunTask \/ PollReturns \/ HandleEvents \/ Returns \/ UserStep
    \/ \E th \in Threads : ForeignStep(th)
    \/ ServerErases \/ PeerStep

Spec == Init /\ [][Next]_vars

\* A write that makes progress: the peer is reading.
WriteProgress ==
    (HandleWriteBuffer \/ HandleWriteFile) /\ <<wire, fileLeft>>' # <<wire, fileLeft>>

(***************************************************************************)
(* Fairness.  Callbacks return and a foreign call, once begun, completes;  *)
(* every iteration of the loop polls and runs the queued tasks, so neither *)
(* starves the other (SF); an output channel is reported writable and      *)
(* writes bytes again and again as long as the socket is sound (SF: the    *)
(* peer reads); threads let go of their pointers.                          *)
(***************************************************************************)
FairSpec ==
    /\ Spec
    /\ WF_vars(Returns \/ HandleEvents)
    /\ SF_vars(RunTask)
    /\ SF_vars(PollReturns)
    /\ SF_vars(PollReturns /\ "write" \in revents')
    /\ SF_vars(WriteProgress)
    /\ WF_vars(ServerErases)
    /\ \A th \in Threads :
        WF_vars(ForeignShutdownStore(th) \/ ForeignPost(th) \/ ForeignRelease(th))

-----------------------------------------------------------------------------
(* Properties.                                                             *)

(***************************************************************************)
(* No byte handed to sendInLoop() is lost, doubled or overtaken: what the  *)
(* socket took, then what outBuffer_ holds, is what was handed over, in    *)
(* that order, through direct writes, partial writes, writes nested in     *)
(* writeCompleteCallback_ and handleWrite().                               *)
(***************************************************************************)
StreamIntact == wire \o outBuffer_ = stream

(***************************************************************************)
(* What send() took is not dropped on its way: a message that passed its   *)
(* test of state_ is in the caller's hands, in a queued task or with       *)
(* sendInLoop(), even if shutdown() is called meanwhile; only handleClose()*)
(* discards it.                                                            *)
(***************************************************************************)
SendsKept ==
    closes = 0 =>
        \A m \in Messages \ unsent :
            \/ \E th \in Threads : call[th] = <<"send", m>>
            \/ \E i \in 1..Len(tasks) : tasks[i] = <<"send", m>>
            \/ \E i \in 1..Len(stream) : stream[i] = <<m, 1>>

(***************************************************************************)
(* Buffered output is never forgotten: until the connection is closed,     *)
(* bytes in outBuffer_ keep EPOLLOUT enabled on a registered channel, for  *)
(* handleWrite() is the only one who would send them.                      *)
(***************************************************************************)
OutputArmed ==
    outBuffer_ # <<>> /\ closes = 0 => isWriting /\ chState = "kAdded"

\* setSendFd() was called and no sendInLoop() since, to ask for EPOLLOUT.
FileUnasked == files # <<>> /\ files[Len(files)] = Len(stream)

\* The loop is in a writeCompleteCallback_ that sendInLoop() called: only after
\* it does sendInLoop() ask for EPOLLOUT if a file is to be sent.
InWriteComplete == \E i \in 1..Len(stack) : stack[i] = "sent"

(***************************************************************************)
(* The FIN follows the data: while the connection is open, ::shutdown() is *)
(* called only once every byte that sendInLoop() took is written out, and  *)
(* the file of setSendFd() too (shutdownInLoop() and handleWrite()).  The  *)
(* FIN overtakes a file in two cases: no send() has followed setSendFd()   *)
(* yet, or shutdown() is called inside the writeCompleteCallback_ of a     *)
(* send() written at once, before that send() has asked for EPOLLOUT.      *)
(***************************************************************************)
FinAfterData ==
    [][fin' # fin /\ closes = 0 =>
        /\ wire' = stream'
        /\ fileLeft' # 0 => FileUnasked \/ InWriteComplete]_vars

(***************************************************************************)
(* The assertion of handleClose(), and more: a connection is closed, and   *)
(* its owner told so, at most once, and while it is kConnected or          *)
(* kDisconnecting, however many forceClose() other threads have queued.    *)
(* The exceptions are the two of mishap: a shutdown() of another thread    *)
(* that reopened state_ for a later forceClose(), and an event of its own  *)
(* that was reported before the callback of another channel closed it.     *)
(***************************************************************************)
ClosesOnce ==
    [][closes' # closes =>
        mishap # {} \/ (closes = 0 /\ state_ \in {"kConnected", "kDisconnecting"})]_vars

\* Nobody holds a TcpConnectionPtr: ~TcpConnection() has run.
Unreferenced ==
    /\ owner = "gone"
    /\ tasks = <<>>
    /\ \A th \in Threads : call[th] = Out
    /\ \A i \in 1..Len(stack) : stack[i] = "events"

\* The assertion of ~TcpConnection(): a connection dies kDisconnected, unless
\* a shutdown() on another thread overwrote that between its test and its store.
DtorAssertion == Unreferenced => state_ = "kDisconnected" \/ "stored" \in mishap

\* The end of the peer's data, or its reset, closes the connection.
PeerGoneSeen == peer # "open" ~> closes > 0

\* shutdown() gets its FIN out, whatever output was pending, or the
\* connection is closed.
ShutdownCompletes == state_ = "kDisconnecting" ~> (fin \/ closes > 0)

\* A closed connection is destroyed: the owner and the task queue let go of it.
ClosedIsReleased == closes > 0 ~> Unreferenced
=============================================================================

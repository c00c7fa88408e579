# yvent: a verification project in TLA+

yvent is a small C++ network library after the Reactor pattern: an event loop
per thread, epoll, an eventfd to wake a loop from other threads, a timerfd for
timers, TCP connections that live on one loop, a server that spreads them over
a pool of loop threads, a client, an HTTP server on top, and two examples, a
chat and a web server for files. The modules in this directory model its control: every state change, guard, early return and
the order in which they happen. Data is abstracted to what the properties tell
apart.

## Inventory

| Part | State | Operations | Interacts through |
|---|---|---|---|
| EventLoop | `quit_`, `tasks_` under `mutex_`, `runningTasks_`, the eventfd, `activeChannels_` | `loop`, `quit`, `runInLoop`, `addTask`, `runTasks`, `handleRead` | other threads push tasks and write the eventfd; channels call back |
| Poll, Channel | epoll set; per channel `events_`, `revents_`, `state_` (`kNew`, `kAdded`, `kDeleted`) | `poll`, `updateChannel`, `handleEvents` | raw pointers in epoll and in `activeChannels_` |
| EventLoopThread, EventLoopThreadPool | `loop_`, `start_`, `mutex_`, `cond_`; `loops_`, `nextEventLoop_` | `starLoop`, `threadFunc`, destructor; `start`, `getNextEventLoop` | a pointer to an EventLoop on another thread's stack |
| TcpConnection | `state_`, `channel_`, `inBuffer_`, `outBuffer_`, `sbuf_` | `enableRead`, `send`, `shutdown`, `forceClose`, `setSendFd`, `handleRead/Write/Close/Error` | nested application callbacks, tasks queued by other threads, `shared_ptr`s |
| TcpServer, Acceptor | `connections_`, `nextConnId_` | `newConnection`, `handleClose`, `handleCloseInLoop`, `handleRead` | tasks between the base loop and the loops of the pool |
| TcpClient, Connector | `connection_`; `started_`, `connected_`, `channel_` | `start`, `newConnection`, `closeConnection`, `handleWrite` | one descriptor handed from Connector to TcpConnection |
| TimerQueue, Timer | `timers_`, the timerfd; `when_`, `interval_`, `canceled_` | `addTimer`, `cancelTimer`, `setTimer`, `handleRead`, `getExpired`, destructor | timer callbacks that add and cancel timers |
| Buffer | a vector and two indexes | `append`, `prepend`, `retrieve...`, `makeSpace`, `readFd` | used by connections and by HTTP |
| HttpServer, HttpContext, HttpRequest | parse state, the request so far | `onMessage`, `parseRequest`, `setMethod`, `setPath`, `onRequest`, `reset` | chunks of bytes of any size |
| HttpResponse | the header, `closeConnection_` | `appendToBuffer` | filled in by the application's callback |
| chat example, LenHeaderCodec | `connections_` of the server | `onConnection`, `onMessage`, `send` | length-prefixed messages over a stream cut anywhere |
| WebServer example | `location_`; `sendFd_` and `sbuf_` of the connection | `onRequest` | hands an open file to `setSendFd()`, `handleWrite()` sends it |
| Logging, InetAddr, Socket | none that matters to control | formatting and system calls | |

What is hard here: a wakeup or a `quit()` that falls between two steps of the
loop; a condition variable notified without its mutex; `state_` tested and
stored in two steps while the loop closes the connection; callbacks that close
the very connection, or cancel the very timer, that is being handled; partial
writes and writes nested in callbacks; the FIN and the data before it; erasing
a connection on another loop before it was inserted; descriptors with two
successive owners; messages and requests cut anywhere by TCP; a header in a
buffer and a file behind it. `PROJECT.json` lists these hazards with their lines and the
properties that catch them.

What makes each part correct:

* EventLoop: no queued task and no `quit()` is slept on; tasks run once and in
  order.
* EventLoopThread: the loop it hands out lives until somebody quits it, and the
  destructor ends.
* TcpConnection: the byte stream is intact, the FIN comes last, a connection is
  closed exactly once and then destroyed.
* TcpServer: open connections are held, closed ones erased.
* TcpClient: one owner of the descriptor at a time, consistent callbacks.
* TimerQueue: the timerfd covers every timer, each timer has one owner up to
  the destruction of the queue, none runs after its cancellation.
* Buffer: a queue of bytes. HttpServer: the right responses in the right order
  for every chunking, and the request that was sent, its path decoded.
* Chat: messages come out of the stream as they went in, and everybody hears
  the others in the server's order.
* WebServer: every header is followed by its file, whole, and the file is
  closed.

## Modules

| Module | Models | Composition |
|---|---|---|
| `TaskQueue` | abstract: what a loop promises, a FIFO of tasks | |
| `EventLoop` | EventLoop with its eventfd and other threads | implements `TaskQueue` with `pending <- batch \o tasks_` |
| `EventLoopThread` | owner, thread function and destructor | extends `EventLoop`: the thread's steps and the loop's steps interleave |
| `TcpConnection` | one connection on its loop | the loop is what `TaskQueue` promises |
| `TcpServer` | Acceptor, TcpServer, choice of the loop | loops as in `TaskQueue`, connections reduced to `state_` |
| `TcpClient` | TcpClient and Connector | the poll, stale events and tasks of the loop; the connection reduced to `state_` and references |
| `TimerQueue` | TimerQueue and Timer | |
| `ByteQueue` | abstract: a queue of bytes | |
| `Buffer` | Buffer | implements `ByteQueue` with the readable bytes |
| `HttpRequest` | the percent-decoding of `setPath()`, with a reference definition | |
| `HttpServer` | HttpServer, HttpContext, HttpRequest | extends `HttpRequest` |
| `ChatServer` | LenHeaderCodec, the chat's server and clients | connections are what `TcpConnection` shows: bytes in order |
| `WebServer` | the WebServer example with the output side of its connection | requests as `HttpServer` delivers them, one at a time |
| `MC...` | the modules that the configurations run | |
| `EventLoopProofs` | theorems about `EventLoop` and its composition with a thread | extends `EventLoopThread` |
| `TcpConnectionProofs`, `TimerQueueProofs`, `BufferProofs`, `TcpServerProofs`, `TcpClientProofs`, `HttpServerProofs` | theorems about the module in their name | each extends that module |
| `ExamplesProofs` | theorems about `WebServer` and `ChatServer` | extends both; the chat's names begin with `Chat` where they would clash |

State variables keep the names of the members they stand for (`state_`,
`tasks_`, `connections_`); variables without a trailing underscore are program
counters, the kernel's part of the state, or history that only properties read.
Operators named `X_Something` and commented "Wrong:" are defective variants of
`X`: they document which mistake each property catches.

### How the actions correspond to the code

* **EventLoop.** `addTask()` on a foreign thread is `PostTask` (the push under
  `mutex_`) and `PostWakeup` (the write to the eventfd); on the loop thread it
  is the single step `AddTaskInLoop`, since only the loop thread reads
  `runningTasks_` there. `runTasks()` is `BeginRunTasks`, `SwapTasks`, then
  `RunTask` and `TaskReturns` per task, and `EndRunTasks`. Application code runs
  at `pc` in `UserCode`. epoll is level-triggered; `PollInterrupted` is EINTR.
* **EventLoopThread.** The test of `loop_` and the wait are two steps, because
  `threadFunc()` does not take the mutex. Spurious wakeups are allowed and never
  assumed. From the return of `starLoop()` to the destructor the owner and other
  threads post tasks and call `quit()` (`UserCalls`, then `UserWakeup`), and so
  does application code on the loop thread (in `LoopRuns`). The loop may
  therefore end before the destructor, which then finds `loop_` null, or finds
  it set and calls `quit()` on a loop that is gone: `DeadWakeup` is what is left
  of such a call, and of a user's that the loop did not outlive.
* **TcpConnection.** The loop thread has a stack of frames, so that callbacks
  may call `send()`, `shutdown()`, `forceClose()` and so reach other callbacks.
  A handler is one step up to the next callback; `Returns` is the return of a
  callback with the rest of the handler that called it. A foreign call is a
  test of `state_`, for `shutdown()` also a store, and then the queued task. A
  poll may put the callback of another channel in front of this one's events,
  as `activeChannels_` does. `files` is a history of how much of the stream there
  was at each `setSendFd()`: it tells whether a `send()` has followed, which is
  what makes the connection ask for EPOLLOUT. `SetEvents` includes what `Poll::updateChannel()` does to
  the registration.
* **TcpServer.** `newConnection()` is `AcceptToPool` and `Insert`: the loop of
  the connection may run in between. Without a pool (`AcceptOnBase`)
  `enableRead()` is a direct call.
* **TcpClient.** `RunStart` is `Connector::start()` with the result of
  `connect()`, `ConnectorEvent` the writable event; both end in `HandleWrite`,
  which is `Connector::handleWrite()` and `TcpClient::newConnection()` up to the
  application's callback. `connect()` may go on, or succeed or fail at once.
  `PollReturns` puts the registered channel into `activeChannels_`; until it is
  handled, callbacks of other channels may close the connection or destroy the
  client. The application shuts down and closes the connection on the loop thread
  in one step, and on other threads in the steps of the code: the test of
  `state_`, the store of `shutdown()`, the queued task. `Deaths` runs the
  destructor in the step that gives up the last reference. A build with
  assertions ends where one fails; the model goes on, as a build without them.
* **TimerQueue.** `AddTimer` and `CancelTimer` happen wherever application code
  runs on the loop thread, inside timer callbacks too. `handleRead()` is
  `HandleRead`, then `DropCanceled` or `RunTimer` and `TimerReturns` for each
  entry, and `EndHandleRead`; `Destruct` is the destructor.
* **Buffer.** Member functions are operators on a buffer value; the actions
  call them within their assertions.
* **HttpServer.** The unit is a complete line; a chunk completes any number of
  lines. `ResponsesFrom` is the reference: what the lines mean regardless of
  chunks. `setPath` is the state machine of the code, one character at a time,
  over character codes; `Decodes` is the reference: where each character or
  escape of the text goes, and what stands there.
* **ChatServer.** `Parse` is the loop of `LenHeaderCodec::onMessage()` over one
  buffer. `ServerReads` is a chunk that reaches the server: `handleRead()`, the
  codec and, for each message, `ChatServer::onMessage()` with its sends;
  `UserReads` the same on a client. `Offline` is a close at any time, by anyone.
  The histories `taken` and `owed` are what the server took from a user and what
  it took from the others while the user was connected.
* **WebServer.** `OnRequest` is one complete request: the lookup of the file,
  `setSendFd()`, `send()` of the header and `shutdown()`. `HandleWriteBuffer` and
  `HandleWriteFile` are the two branches of `handleWrite()`. A header is one unit
  on the wire.

## Runs

Deadlock is not checked where the system may rest: a stopped loop, a closed
connection, a client with nothing left to send. `buffer` never rests, so there
deadlock is checked.

| Run | Checks | Bounds |
|---|---|---|
| `loop` | `NoLostWakeup`, `QuitNotMissed`, `TaskRuns`, `QuitStops`, `ImplementsTaskQueue` | 2 foreign threads, 3 tasks: one in the batch, one pushed around the swap, one by a task |
| `thread_life` | `StartedLoopUsable`, `DtorJoins` | the owner, one more user, 2 tasks, an eventfd of up to 5; a user calls `quit()` only while the eventfd is 0, which leaves room for the destructor's |
| `starloop_returns` | `StarLoopReturns`, violated | the owner alone, 1 task |
| `conn_stream` | `StreamIntact`, `SendsKept`, `OutputArmed`, `DtorAssertion`, `FinAfterData`, `ClosesOnce` | 1 foreign thread, 2 messages of 2 bytes, a file of 2 units, 2 queued `forceClose()`; callbacks of other channels |
| `conn_life` | `PeerGoneSeen`, `ShutdownCompletes`, `ClosedIsReleased` | 1 foreign thread that sends and shuts down, 1 message, a file, unread data |
| `timers` | `TimerfdCovers`, `OneOwner`, `CanceledNeverRuns` | 3 addresses, one-shot and periodic, 4 instants |
| `http` | `ResponsesInOrder`, `ParserTerminates`, `RequestExact`, `AllAnswered` | all sequences of up to 4 lines, and of two lines behind a first request, in all chunkings, from clients that wait for responses and clients that do not; all targets of up to 5 characters out of `/%5Bbg?` |
| `buffer` | `TypeOK`, `CallsAreExact`, `ImplementsByteQueue` | prepend room 2, initial size 2, extra buffer 2, chunks up to 4, up to 5 readable bytes: every branch of `makeSpace()` and `readFd()` |
| `server` | `OpenIsHeld`, `RoundRobin`, `ClosedIsErased` | 3 connections, on the base loop or a pool of 1 or 2 loops |
| `client` | `HandedOver`, `ClosedOnce`, `ToldInOrder`, `DiesClosed` | 2 threads, each with its own `shutdown()` or `forceClose()`, 2 queued tasks, every result of `connect()` |
| `chat` | `MessagesFramed`, `HeardInOrder`, `AllHeard` | 3 users, 2 of them speaking; an empty message, one of the greatest length and one too long; headers of 2 bytes, in all chunkings |
| `web` | `ResponsesFramed`, `FilesClosed`, `ResponsesCompleted` | up to 3 requests for a file, an empty one, one that cannot be opened, one without a suffix, a missing one, directories with and without an index, and an empty path |

Messages of two bytes are the shortest that a partial write can cut; two of
them are the fewest that can be reordered. Two queued `forceClose()` are the
fewest that can close twice. Three timers are the fewest with one running, one
left in the batch and one still queued. Five characters hold an escape with
one before and one behind it, and every escape cut by the end of the path.
Three requests are the fewest with one before, one during and one after a file.

### What the violated property shows

`StarLoopReturns`, which the pool and its tests rely on: `threadFunc()` stores
`loop_` and notifies without the mutex, possibly between the test and the wait in
`starLoop()`, which then never returns.

### Where a passing property has a limit

The code has defects that the models show. They are named in the properties, as
narrowly as the model can tell, so that everything else is still checked:

* `DtorAssertion` and `ClosesOnce` except `"stored" \in mishap`: `shutdown()` on
  another thread tests `state_`, the loop closes the connection, and the store of
  `kDisconnecting` brings it back to life. The destructor's assertion
  (`TcpConnection.cpp:33`) then fails, and a queued `forceClose()` closes again.
* `ClosesOnce` excepts `"stale" \in mishap`: an event that `poll()` collected
  before another channel's callback closed the connection is still dispatched,
  and `handleClose()` runs a second time.
* `FinAfterData` always holds for the bytes of `send()`. For the file of
  `setSendFd()` it names two cases in which `shutdown()` finds EPOLLOUT off and
  sends the FIN first, so that the file is never sent: no `send()` has followed
  `setSendFd()` (`FileUnasked`), and `shutdown()` is called inside the
  `writeCompleteCallback_` (`TcpConnection.cpp:144`) of a `send()` that was
  written at once and asks for EPOLLOUT for the file only afterwards, at line 155
  (`InWriteComplete`). HttpServer calls `setSendFd()`, `send()` and `shutdown()`
  one after the other and meets neither.
* `SendsKept` ends where `sendInLoop()` takes the message: behind a FIN its write
  fails with EPIPE and the bytes stay in `outBuffer_`.
* `ToldInOrder` excepts the same two mishaps in `TcpClient`: either of them makes
  `handleClose()` run again, the application hears "disconnected" a second time,
  and the assertion of `closeConnection()` (`TcpClient.cpp:67`) fails.
* `StartedLoopUsable` ends with a `quit()` of the application: the loop then goes
  away under those who still point to it. If that falls between the
  destructor's test of `loop_` and its `loop_->quit()` (`EventLoopThread.cpp:21`),
  the destructor uses a null pointer or a loop that is gone; the model follows
  the call as if the memory were still there.
* `HandedOver` and `ToldInOrder` except `atOnce`: a `connect()` that is over at
  once makes `Connector::handleWrite()` disable a channel that was never
  registered, against the assertion at `Poll.cpp:60`. Built without assertions
  the descriptor is registered for the Connector, the connection's own
  registration fails, and an error returned at once is reported as a connection.
* `RequestExact` holds while the connection is open. After a 400 the rejected
  line is still in the buffer, and the next chunk calls `setMethod()` and
  `setPath()` again. Of a path with a broken escape it claims the part in front
  of the escape only: the code drops characters up to the next two digits and may
  take the blank or question mark behind the path for one.
* `AllAnswered` is about a client that waits: a second request in one chunk is
  not looked at before more bytes arrive.
* `ClosedIsErased` does not hold for a connection that the application closes
  in its connection callback when there is no pool: it is erased first and
  inserted afterwards.
* `DiesClosed` excepts `~TcpClient()`, which never closes its connection, and a
  `shutdown()` that stores kDisconnecting on a closed one (`"stored"`). A client
  is destroyed with an open connection only when nobody else points to it: the
  connection would call the destroyed client.
* `ResponsesFramed`, `FilesClosed` and `ResponsesCompleted` except `overlapped`:
  a request that arrives while a file is being sent puts its header inside the
  file and replaces the file, whose descriptor is never closed. `FilesClosed`
  also names an empty file, and says nothing of a closed connection: nobody
  closes `sendFd_` there. `ResponsesCompleted` excepts a file that exists and
  cannot be opened; `handleWrite()` then tries for ever.
* The web server ends with an exception when a file without a suffix is asked
  for, or a path is empty (`alive` in `WebServer`); and only its 404 sets a status code,
  so that files are sent with the status 0.

### Fairness

* EventLoop: weak fairness of the loop thread's steps and of the second half of
  a foreign call. The operating system runs runnable threads, and application
  code is assumed to return. Nobody is obliged to post, to quit or to send.
* EventLoopThread: the same, and for the owner inside `starLoop()` and inside
  the destructor. No fairness for spurious wakeups.
* TcpConnection: every iteration of the loop polls once and runs the queued
  tasks once, so each is strongly fair against the other; a writable socket
  makes progress again and again as long as the peer reads (strong fairness of
  `WriteProgress`); threads let go of their pointers.
* TcpServer: loops run their tasks. HttpServer: the loop finishes `onMessage()`,
  and the lines the client sends arrive, whatever pieces without a complete line
  come between (strong fairness). ChatServer: what was sent is read, in some
  chunks. WebServer: the client reads, so that `handleWrite()` makes progress.

## Proofs

The `...Proofs` modules are checked by TLAPS. Their theorems hold for every
value of the constants: any sets of threads, tasks, messages, timers and
connections, any sizes of messages, files, buffers and pools, and also without
the bounds that a run needs. The assumptions on the constants only say that
numbers are natural numbers and sequences are sequences, that a message and a
file have at least one byte (`SizesAssumption`; an empty message adds nothing to the
stream, and a file of `st_size` 0 is to the connection no file at all), that a
header of the codec has at least one byte, and that the owner of an EventLoopThread is one of the
threads (`OwnerAssumption`). Every invariant below is an invariant of the
specification without fairness, so it also holds with it.

| Component | Theorem | States | Checked by run |
|---|---|---|---|
| EventLoop | `TypeCorrect` | `TypeOK` | |
| EventLoop | `NoLostWakeupHolds`, `QuitNotMissedHolds`, `LoopImplementsTaskQueue` | `NoLostWakeup`, `QuitNotMissed`, `ImplementsTaskQueue` | `loop` |
| EventLoopThread | `LoopUsableOnceStarted` | `StartedLoopUsable` | `thread_life` |
| EventLoopThread | `ThreadedLoopWakes`, `ThreadedLoopImplementsTaskQueue` | the properties of the loop, of the composition | `loop`, for the loop alone |
| TcpConnection | `BytesInOrder`, `SentMessagesKept`, `BufferedIsArmed`, `DiesDisconnected`, `FinIsLast`, `ClosedAtMostOnce` | `StreamIntact`, `SendsKept`, `OutputArmed`, `DtorAssertion`, `FinAfterData`, `ClosesOnce` | `conn_stream` |
| TimerQueue | `PendingCovered`, `TimerOwnedOnce`, `CanceledStaysStopped` | `TimerfdCovers`, `OneOwner`, `CanceledNeverRuns` | `timers` |
| Buffer | `IndexesInBounds`, `CallsExact`, `BufferIsByteQueue` | `TypeOK`, `CallsAreExact`, `ImplementsByteQueue` | `buffer` |
| TcpServer | `OpenConnectionHeld`, `SpreadEvenly` | `OpenIsHeld`, `RoundRobin` | `server` |
| TcpClient | `DescriptorClosedOnce`, `EpollHandedOver`, `StoryInOrder`, `OpenDeathsNamed` | `ClosedOnce`, `HandedOver`, `ToldInOrder`, `DiesClosed` | `client` |
| HttpServer | `ParseLoopExits`, `AnswersInOrder`, `PathsExact` | `ParserTerminates`, `ResponsesInOrder`, `RequestExact` | `http` |
| HttpServer | `RequestsDoNotMix` | `OwnLineOnly` | |
| WebServer | `FilesGetClosed`, `ResponsesWhole` | `FilesClosed`, `ResponsesFramed` | `web` |
| chat and codec | `CodecFindsMessages`, `EverybodyHears` | `MessagesFramed`, `HeardInOrder` | `chat` |

The arguments, with the inductive invariant each needs:

* **EventLoop.** `NoLostWakeup` and `QuitNotMissed` are not inductive: a loop
  that enters epoll_wait must already have been safe. `WakeupInv` extends the
  first to all of the way from the swap to the poll, and adds that
  `runningTasks_` is set exactly inside `runTasks()`: that is what makes a task
  queued by a running task write the eventfd. The only place where a task may be
  queued without a wakeup is between the poll and the swap, and the swap takes
  it. Every step is a step of `TaskQueue` or invisible to it; the invariant
  needed is that the batch is empty outside the run phase (`BatchInv`), so that
  the swap does not change `batch \o tasks_`.
* **EventLoopThread.** `ThreadInv` ties the owner's place in `starLoop()` and in
  the destructor to the place of the thread: the loop exists while the thread
  is inside `loop()`, the thread leaves it only once `quit_` is set, and `quit_`
  is set only when `starLoop()` has returned. With it every step of the
  composition is a step of `EventLoop`, leaves the loop alone, or is
  `DeadWakeup`, a `wakeup()` on a loop that has already ended (a hazard). So the
  loop's lemmas carry over unchanged, and the composition keeps its properties
  and its refinement.
* **TcpConnection.** `ConnInv` is the types, `StreamIntact` and the life of a
  connection, `LifeInv`: before `enableRead()` nobody but its task can reach the
  connection (`NewInv`), and no second `enableRead()` exists (`NoEnableRead`);
  while it is open the channel is registered for EPOLLIN, so that `handleWrite()`
  never empties `events_` and deletes the channel, and bytes in `outBuffer_` have
  EPOLLOUT (`OpenInv`); once closed the channel is deleted for good, and only a
  mishap can make `state_` or an event suggest otherwise (`ClosedInv`); only a
  close makes the server let go (`OwnerInv`). `OutputArmed` and `DtorAssertion`
  follow from it, `ClosesOnce` is proved step by step under it. `FinAfterData`
  also needs `FilesInv`: a file still to be sent on an open connection has
  EPOLLOUT, or is in one of the two named cases; a `sendInLoop()` that ends asks
  for EPOLLOUT, and the stream it made longer ends the first case. `SendsKept` is inductive together with `ConnInv`: a message moves from the
  caller to the task queue to the stream, and no step drops it on the way.
* **TimerQueue.** `TimerfdCovers` is inductive over the types: `setTimer()` is
  called wherever the head of `timers_` gets earlier, and after `handleRead()`.
  `OneOwner` needs `QueueInv`: an entry carries the `when_` of its timer, so that
  `erase()` by key finds it (`OwnerInv`); the batch and the running timer exist
  only inside `handleRead()` (`PlaceInv`); a cancelled timer that still exists
  has the mark (`DoomedInv`), from which `CanceledNeverRuns` follows.
* **Buffer.** `Valid` is `TypeOK` and that the vector has room for the prepend
  area. `Holds(x, s)` says that the readable bytes of `x` are `s`; there is a
  lemma for each member function, saying that it keeps `Valid` and turns `s`
  into what `ByteQueue` says, through both branches of `makeSpace()` and of
  `readFd()`. The refinement and `CallsAreExact` put them together.
* **TcpServer.** `OpenIsHeld` needs to know the queues: an erase is queued only
  for a closed connection, and the one `enableRead()` of a connection only while
  it is kConnecting (`QueueInv`); and `newConnection()` runs once at a time
  (`OneInsert`). `RoundRobin` needs `DealInv`: connections are dealt in rounds,
  the loops before `nextEventLoop_` have one of the current round.
* **TcpClient.** `ClientInv` relates who owns the descriptor, what the
  application was told and who can still reach the connection (`OwnerInv`), the
  one event the Connector waits for (`ConnectorInv`), the socket's true outcome
  (`StoryInv`) and the count of closes (`CloseInv`). `DeathInv` says that a
  connection which the client has given up is closed, or looks open only since a
  late store, or died with the client, and that an event still waiting for it is
  a stale one: that is why a second close needs a mishap. None of the four
  properties is inductive without these.
* **HttpServer.** `DoneInv`: the parser is in `AllDone` only until `reset()`,
  before `onMessage()` returns. `RequestInv`: before its line a request is empty,
  afterwards its path is what one `setPath()` made of its target; `OwnLineOnly`
  follows. `ResponsesInOrder` needs `ParsedInv`: the buffer is a piece of the
  lines sent, and the responses so far, continued by what the lines from the
  current request on call for (`AnswersFrom`), are all the responses; within a
  request, `version_` and `header_` are those of its lines so far (`Begun`). A
  parser that is between two requests and one that is in the middle of one agree
  on the first line they have not answered, which is why no chunking matters.
  `RequestExact` adds `DecoderExact` to `OwnLineOnly`: what `setPath()` computes
  for any text, by induction from the end of the text, since each state of the
  decoder depends on what is behind it.
* **WebServer.** `FilesClosed` needs that a connection is kDisconnecting only
  after a response that asked for it (`ShutdownInv`): a file opened later is
  among those that may stay open. `ResponsesFramed` needs `SentInv`: `wire`,
  `outBuffer_` and the unsent rest of the file are together what the requests
  call for; and the rest of `FramedInv`, that nothing is buffered while EPOLLOUT
  is off, and that the file being sent is that of the last request.
* **Chat and codec.** `CodecExact`: from the beginning of a frame on, `Parse`
  returns the first messages of the stream, stops in front of the first frame
  that is incomplete or of a length out of range, and leaves exactly the bytes
  from there on. `UpInv` and `DownInv` say that a buffer and the bytes on their
  way are together the frames not yet taken, from the beginning of one on;
  another chunk keeps that (`ChunkExact`), and so does another message behind
  the others (`MoreArrives`). `MembersInv` is needed because the server sends to
  `connections_` and `send()` tests `state_`: a connection that takes output is
  in `connections_`.

Recursive functions (`AnswersFrom`, `setPath`, `Parse`) and `FlattenSeq` are
reasoned about through three lemmas that `HttpServerProofs` and `ExamplesProofs`
begin with. The library's induction theorems have an operator as parameter, and
the provers cannot instantiate them; but its `WFMin`, that a set has a minimal
element, has none. From it follow `LeastOf` and `Induction` for sets of numbers,
and `RecursiveFunction`: equations in which each value depends only on values of
smaller rank have a solution, so that the `CHOOSE` behind a recursive definition
satisfies them (`AnswersIs`, `DecodeIs`, `ParseIs`, `FlattenIs`).

Only model-checked:

* every liveness property (`TaskRuns`, `QuitStops`, `DtorJoins`, `PeerGoneSeen`,
  `ShutdownCompletes`, `ClosedIsReleased`, `ClosedIsErased`, `AllAnswered`,
  `AllHeard`, `ResponsesCompleted`) and the violated `StarLoopReturns`: the
  prover has neither fairness nor `ENABLED`.

Every safety property that a run checks is also proved.

## Not modelled

Logging and the address and socket wrappers have no control of their own; the
formatting of a response is one unit. Lifetimes of objects behind raw pointers
(a `Channel` in `activeChannels_`, also inside its own `handleEvents()`, a
`TcpClient` captured by a task, the `EventLoop` behind `quit()`) are listed as
hazards. Errors of `accept4()`, files that change their size while they are
sent, and `addTimer()` on another thread (its task refers to parameters that are
gone) are left out, and so is cancelling a timer that has already been deleted.
The system clock is not set while timers run. `TcpClient::send()` and the chat
client use `connection_` unchecked; their callers are assumed to be between the
callbacks. The tests under `testcase/` are drivers of what is modelled.

## Plan

1. Done: EventLoop, EventLoopThread, TcpConnection, TimerQueue, Buffer,
   HttpServer with HttpRequest, TcpServer, TcpClient, and the examples
   ChatServer and WebServer; theorems about all of them, among them one for
   every safety property of the runs.
2. Possible extensions: several connections of one loop, with the lifetimes of
   channels in `activeChannels_`; a queue of tasks shared by TcpServer and
   TcpConnection.

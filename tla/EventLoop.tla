------------------------------ MODULE EventLoop ------------------------------
(***************************************************************************)
(* yvent::EventLoop: one loop thread that polls, dispatches channels and   *)
(* runs queued tasks, and any number of other threads that call            *)
(* runInLoop(), addTask() and quit() on it.                                *)
(*                                                                         *)
(* A foreign call takes two steps, because the loop thread can run between *)
(* them: the push under mutex_ (or the store to quit_), and the write to   *)
(* the eventfd.  A call made by the loop thread itself is one step: only   *)
(* the loop thread reads runningTasks_ in addTask() (a foreign caller      *)
(* short-circuits on !isInLoopThread()), and it is not polling meanwhile.  *)
(***************************************************************************)
EXTENDS Naturals, Sequences, FiniteSets

CONSTANTS
    Threads,     \* the threads other than the loop thread
    Tasks,       \* the tasks, each handed to the loop at most once
    MaxWakeups   \* bound: a thread calls quit() only below this eventfd count

ASSUME MaxWakeupsAssumption == MaxWakeups \in Nat

VARIABLES
    pc,               \* where the loop thread is, see LoopPc
    quit_,            \* EventLoop::quit_
    tasks_,           \* EventLoop::tasks_, guarded by mutex_
    batch,            \* the local vector of runTasks() that is left to run
    runningTasks_,    \* EventLoop::runningTasks_
    wakeupfd_,        \* the counter of the eventfd
    ioReady,          \* some other channel of this loop is ready
    activeChannels_,  \* EventLoop::activeChannels_ left to dispatch
    caller,           \* per foreign thread: the call it is in the middle of
    submitted,        \* history: tasks handed to the loop
    early,            \* history: tasks the loop thread queued before loop()
    executed          \* history: tasks started, in order

queueVars == <<tasks_, batch, submitted, early, executed>>
pollVars  == <<ioReady, activeChannels_>>
vars == <<pc, quit_, runningTasks_, wakeupfd_, caller, queueVars, pollVars>>

(***************************************************************************)
(* The loop thread is before loop() ("init"), at the test of quit_         *)
(* ("check"), in epoll_wait ("poll"), dispatching ("handle"), inside the   *)
(* callback of an I/O channel ("callback"), in runTasks() before the swap  *)
(* ("swap"), between tasks ("run"), inside a task ("task"), or back from   *)
(* loop() ("stopped"): quit_ is never reset, so a second loop() returns    *)
(* at once.                                                                *)
(***************************************************************************)
LoopPc == {"init", "check", "poll", "handle", "callback", "swap", "run",
           "task", "stopped"}

\* Where the loop thread executes the application's code.
UserCode == {"init", "callback", "task", "stopped"}

Channels == {"wakeup", "io"}

Init ==
    /\ pc = "init"
    /\ quit_ = FALSE
    /\ tasks_ = <<>>
    /\ batch = <<>>
    /\ runningTasks_ = FALSE
    /\ wakeupfd_ = 0
    /\ ioReady = FALSE
    /\ activeChannels_ = {}
    /\ caller = [th \in Threads |-> "idle"]
    /\ submitted = {}
    /\ early = {}
    /\ executed = <<>>

-----------------------------------------------------------------------------
(* Calls made by other threads.                                            *)

\* addTask(), and runInLoop() off the loop thread: the push under mutex_.
PostTask(th, t) ==
    /\ caller[th] = "idle"
    /\ t \in Tasks \ submitted
    /\ tasks_' = Append(tasks_, t)
    /\ submitted' = submitted \cup {t}
    /\ caller' = [caller EXCEPT ![th] = "posted"]
    /\ UNCHANGED <<pc, quit_, batch, runningTasks_, wakeupfd_, early, executed,
                   pollVars>>

\* Wrong: the eventfd is written only while the loop runs tasks.
NeedsWakeup_OnlyWhileRunning(inLoopThread) == runningTasks_

\* Wrong: a task queued by the loop thread never wakes the loop.
NeedsWakeup_OnlyForeign(inLoopThread) == ~inLoopThread

\* The condition under which addTask() calls wakeup().
NeedsWakeup(inLoopThread) == ~inLoopThread \/ runningTasks_

\* The rest of addTask() on a foreign thread.
PostWakeup(th) ==
    /\ caller[th] = "posted"
    /\ wakeupfd_' = IF NeedsWakeup(FALSE) THEN wakeupfd_ + 1 ELSE wakeupfd_
    /\ caller' = [caller EXCEPT ![th] = "idle"]
    /\ UNCHANGED <<pc, quit_, runningTasks_, queueVars, pollVars>>

\* quit() on a foreign thread: the store to quit_ ...
QuitStore(th) ==
    /\ caller[th] = "idle"
    /\ wakeupfd_ < MaxWakeups
    /\ quit_' = TRUE
    /\ caller' = [caller EXCEPT ![th] = "quitting"]
    /\ UNCHANGED <<pc, runningTasks_, wakeupfd_, queueVars, pollVars>>

\* Wrong: a foreign quit() does not wake the loop.
QuitWakeup_Forgotten(th) ==
    /\ caller[th] = "quitting"
    /\ caller' = [caller EXCEPT ![th] = "idle"]
    /\ UNCHANGED <<pc, quit_, runningTasks_, wakeupfd_, queueVars, pollVars>>

\* ... and the wakeup.
QuitWakeup(th) ==
    /\ caller[th] = "quitting"
    /\ wakeupfd_' = wakeupfd_ + 1
    /\ caller' = [caller EXCEPT ![th] = "idle"]
    /\ UNCHANGED <<pc, quit_, runningTasks_, queueVars, pollVars>>

-----------------------------------------------------------------------------
(* Calls the application makes on the loop thread: before and after        *)
(* loop(), from an I/O callback or from a task.                            *)

\* addTask() on the loop thread.
AddTaskInLoop(t) ==
    /\ pc \in UserCode
    /\ t \in Tasks \ submitted
    /\ tasks_' = Append(tasks_, t)
    /\ wakeupfd_' = IF NeedsWakeup(TRUE) THEN wakeupfd_ + 1 ELSE wakeupfd_
    /\ submitted' = submitted \cup {t}
    /\ early' = IF pc = "init" THEN early \cup {t} ELSE early
    /\ UNCHANGED <<pc, quit_, batch, runningTasks_, caller, executed, pollVars>>

\* runInLoop() on the loop thread calls the task directly.
RunInLoopDirect(t) ==
    /\ pc \in UserCode
    /\ t \in Tasks \ submitted
    /\ executed' = Append(executed, t)
    /\ submitted' = submitted \cup {t}
    /\ UNCHANGED <<pc, quit_, tasks_, batch, runningTasks_, wakeupfd_, caller,
                   early, pollVars>>

\* quit() on the loop thread: no wakeup, the loop re-reads quit_ before it polls.
QuitInLoop ==
    /\ pc \in UserCode
    /\ quit_' = TRUE
    /\ UNCHANGED <<pc, runningTasks_, wakeupfd_, caller, queueVars, pollVars>>

-----------------------------------------------------------------------------
(* The loop thread.                                                        *)

EnterLoop ==
    /\ pc = "init"
    /\ pc' = "check"
    /\ UNCHANGED <<quit_, runningTasks_, wakeupfd_, caller, queueVars, pollVars>>

\* while (!quit_) { activeChannels_.clear(); ...
CheckQuit ==
    /\ pc = "check"
    /\ pc' = IF quit_ THEN "stopped" ELSE "poll"
    /\ UNCHANGED <<quit_, runningTasks_, wakeupfd_, caller, queueVars, pollVars>>

ReadyChannels ==
    {c \in Channels : \/ c = "wakeup" /\ wakeupfd_ > 0
                      \/ c = "io" /\ ioReady}

\* epoll_wait blocks until a channel is ready; level-triggered.
PollReturns ==
    /\ pc = "poll"
    /\ ReadyChannels # {}
    /\ activeChannels_' = ReadyChannels
    /\ pc' = "handle"
    /\ UNCHANGED <<quit_, runningTasks_, wakeupfd_, caller, queueVars, ioReady>>

\* epoll_wait fails (EINTR): Poll::poll() leaves the channel list empty.
PollInterrupted ==
    /\ pc = "poll"
    /\ activeChannels_' = {}
    /\ pc' = "handle"
    /\ UNCHANGED <<quit_, runningTasks_, wakeupfd_, caller, queueVars, ioReady>>

\* EventLoop::handleRead(): reading an eventfd resets its counter.
HandleRead ==
    /\ pc = "handle"
    /\ "wakeup" \in activeChannels_
    /\ wakeupfd_' = 0
    /\ activeChannels_' = activeChannels_ \ {"wakeup"}
    /\ UNCHANGED <<pc, quit_, runningTasks_, caller, queueVars, ioReady>>

\* channel->handleEvents() of any other channel enters the application's code.
DispatchIo ==
    /\ pc = "handle"
    /\ "io" \in activeChannels_
    /\ activeChannels_' = activeChannels_ \ {"io"}
    /\ ioReady' = FALSE
    /\ pc' = "callback"
    /\ UNCHANGED <<quit_, runningTasks_, wakeupfd_, caller, queueVars>>

CallbackReturns ==
    /\ pc = "callback"
    /\ pc' = "handle"
    /\ UNCHANGED <<quit_, runningTasks_, wakeupfd_, caller, queueVars, pollVars>>

\* runTasks(): runningTasks_ = true ...
BeginRunTasks ==
    /\ pc = "handle"
    /\ activeChannels_ = {}
    /\ runningTasks_' = TRUE
    /\ pc' = "swap"
    /\ UNCHANGED <<quit_, wakeupfd_, caller, queueVars, pollVars>>

\* Wrong: the swap keeps the tasks in tasks_ too.
SwapTasks_Copies ==
    /\ pc = "swap"
    /\ batch' = tasks_
    /\ pc' = "run"
    /\ UNCHANGED <<quit_, tasks_, runningTasks_, wakeupfd_, caller, submitted,
                   early, executed, pollVars>>

\* ... tasks_.swap(tasks) under mutex_ ...
SwapTasks ==
    /\ pc = "swap"
    /\ batch' = tasks_
    /\ tasks_' = <<>>
    /\ pc' = "run"
    /\ UNCHANGED <<quit_, runningTasks_, wakeupfd_, caller, submitted, early,
                   executed, pollVars>>

\* ... for (auto &task : tasks) task(); ...
RunTask ==
    /\ pc = "run"
    /\ batch # <<>>
    /\ executed' = Append(executed, Head(batch))
    /\ batch' = Tail(batch)
    /\ pc' = "task"
    /\ UNCHANGED <<quit_, tasks_, runningTasks_, wakeupfd_, caller, submitted,
                   early, pollVars>>

TaskReturns ==
    /\ pc = "task"
    /\ pc' = "run"
    /\ UNCHANGED <<quit_, runningTasks_, wakeupfd_, caller, queueVars, pollVars>>

\* Wrong: the loop goes straight back to poll after its tasks.
EndRunTasks_SkipsCheck ==
    /\ pc = "run"
    /\ batch = <<>>
    /\ runningTasks_' = FALSE
    /\ pc' = "poll"
    /\ UNCHANGED <<quit_, wakeupfd_, caller, queueVars, pollVars>>

\* ... runningTasks_ = false.
EndRunTasks ==
    /\ pc = "run"
    /\ batch = <<>>
    /\ runningTasks_' = FALSE
    /\ pc' = "check"
    /\ UNCHANGED <<quit_, wakeupfd_, caller, queueVars, pollVars>>

LoopStep ==
    \/ EnterLoop \/ CheckQuit
    \/ PollReturns
    \/ HandleRead \/ DispatchIo \/ CallbackReturns
    \/ BeginRunTasks \/ SwapTasks \/ RunTask \/ TaskReturns \/ EndRunTasks

-----------------------------------------------------------------------------
\* The kernel makes another channel of the loop ready.
IoBecomesReady ==
    /\ ~ioReady
    /\ ioReady' = TRUE
    /\ UNCHANGED <<pc, quit_, runningTasks_, wakeupfd_, caller, queueVars,
                   activeChannels_>>

Next ==
    \/ \E th \in Threads, t \in Tasks : PostTask(th, t)
    \/ \E th \in Threads : PostWakeup(th) \/ QuitStore(th) \/ QuitWakeup(th)
    \/ \E t \in Tasks : AddTaskInLoop(t) \/ RunInLoopDirect(t)
    \/ QuitInLoop
    \/ LoopStep
    \/ PollInterrupted
    \/ IoBecomesReady

Spec == Init /\ [][Next]_vars

(***************************************************************************)
(* Fairness: the loop thread and every foreign thread inside a call keep   *)
(* running, and application code returns.  Nobody is obliged to make a     *)
(* call, no I/O is obliged to arrive and no signal to interrupt the poll.  *)
(***************************************************************************)
FairSpec ==
    /\ Spec
    /\ WF_vars(LoopStep)
    /\ \A th \in Threads : WF_vars(PostWakeup(th) \/ QuitWakeup(th))

-----------------------------------------------------------------------------
(* Properties.                                                             *)

\* Every variable of the loop holds a value of its C++ type.
TypeOK ==
    /\ pc \in LoopPc
    /\ quit_ \in BOOLEAN
    /\ tasks_ \in Seq(Tasks)
    /\ batch \in Seq(Tasks)
    /\ runningTasks_ \in BOOLEAN
    /\ wakeupfd_ \in Nat
    /\ ioReady \in BOOLEAN
    /\ activeChannels_ \in SUBSET Channels
    /\ caller \in [Threads -> {"idle", "posted", "quitting"}]
    /\ submitted \in SUBSET Tasks
    /\ early \in SUBSET Tasks
    /\ executed \in Seq(Tasks)

Queued(t) == \E i \in 1..Len(tasks_) : tasks_[i] = t

\* Some call is still going to write the eventfd, or already has.
WakeupDue(call) == wakeupfd_ > 0 \/ \E th \in Threads : caller[th] = call

(***************************************************************************)
(* The loop never sleeps on a queued task: while the loop thread is in     *)
(* epoll_wait, a task in tasks_ that was not queued by the loop thread     *)
(* itself before loop() has a wakeup written or on its way (addTask() and  *)
(* handleRead(), against a swap that took only the earlier tasks).         *)
(***************************************************************************)
NoLostWakeup ==
    pc = "poll" =>
        ((\E t \in Tasks \ early : Queued(t)) => WakeupDue("posted"))

(***************************************************************************)
(* quit() is not missed: if quit_ is set while the loop thread is in       *)
(* epoll_wait, the caller of quit() has written the eventfd or is about to *)
(* (a quit() on the loop thread writes nothing and must be seen by the     *)
(* test of quit_).                                                         *)
(***************************************************************************)
QuitNotMissed == (pc = "poll" /\ quit_) => WakeupDue("quitting")

Executed(t) == \E i \in 1..Len(executed) : executed[i] = t

(***************************************************************************)
(* Every task handed to runInLoop() or addTask() is run, unless the loop   *)
(* stops first.  Excepted are the tasks the loop thread queues with        *)
(* addTask() before loop(): nothing wakes the first poll for them.         *)
(***************************************************************************)
TaskRuns ==
    \A t \in Tasks :
        (t \in submitted \ early) ~> (Executed(t) \/ pc = "stopped")

\* quit(), from any thread and at any time, ends loop().
QuitStops == quit_ ~> (pc = "stopped")

(***************************************************************************)
(* The loop keeps the promise of TaskQueue: what is left of the batch runs *)
(* before what was queued since the swap.                                  *)
(***************************************************************************)
TQ == INSTANCE TaskQueue
        WITH pending <- batch \o tasks_, stopped <- (pc = "stopped")

\* The loop runs queued tasks once each, in the order they were queued.
ImplementsTaskQueue == TQ!TQSpec
=============================================================================

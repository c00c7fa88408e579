--------------------------- MODULE EventLoopThread ---------------------------
(***************************************************************************)
(* yvent::EventLoopThread: a thread that owns an EventLoop on its stack,   *)
(* composed with EventLoop.  Owner constructs the EventLoopThread, calls   *)
(* starLoop() and destroys it; between the return of starLoop() and the    *)
(* destructor it and the other Threads post to the loop and quit() it, and *)
(* so does the application's code on the loop thread.                      *)
(*                                                                         *)
(* threadFunc() stores loop_ and notifies without holding mutex_, so the   *)
(* owner's test of loop_ and its enqueueing as a waiter are two steps the  *)
(* store and the notification can fall between.  The unsynchronised        *)
(* pointer is read as it was last written: every read follows an opaque    *)
(* call, so the compiler cannot keep it in a register.                     *)
(*                                                                         *)
(* The notified owner gets the mutex at once: nobody else ever locks it.   *)
(* A call on an EventLoop that is gone is a use after free: none begins    *)
(* there but the destructor's, which is followed as if the memory were     *)
(* still there, and one that was begun before changes nothing any more.    *)
(***************************************************************************)
EXTENDS EventLoop

CONSTANT Owner

ASSUME OwnerAssumption == Owner \in Threads

VARIABLES
    owner,   \* where Owner is, see OwnerPc
    thread,  \* where threadFunc() is, see ThreadPc
    loop_,   \* EventLoopThread::loop_ is not null
    alive,   \* the EventLoop on the thread's stack exists
    result   \* starLoop() returned a non-null pointer

threadVars == <<owner, thread, loop_, alive, result>>
allVars == <<vars, threadVars>>

\* Constructed; starLoop(): at the test of loop_, between the test and the
\* wait, in cond_.wait, about to return; using the loop; the destructor: about
\* to call quit(), inside quit(), in join(); destroyed.
OwnerPc == {"new", "testing", "toWait", "waiting", "returning", "running",
            "dtorQuit", "quitting", "joining", "gone"}

\* No thread yet; threadFunc() before the store, after it, in loop(), after
\* loop_ = nullptr; finished.
ThreadPc == {"none", "starting", "stored", "looping", "leaving", "done"}

ThreadInit ==
    /\ Init
    /\ owner = "new"
    /\ thread = "none"
    /\ loop_ = FALSE
    /\ alive = FALSE
    /\ result = FALSE

-----------------------------------------------------------------------------
(* starLoop()                                                              *)

StarLoop ==
    /\ owner = "new"
    /\ owner' = "testing"
    /\ thread' = "starting"
    /\ UNCHANGED <<vars, loop_, alive, result>>

\* while (nullptr == loop_)
TestLoop ==
    /\ owner = "testing"
    /\ owner' = IF loop_ THEN "returning" ELSE "toWait"
    /\ UNCHANGED <<vars, thread, loop_, alive, result>>

\* cond_.wait(lock) makes the owner a waiter ...
BeginWait ==
    /\ owner = "toWait"
    /\ owner' = "waiting"
    /\ UNCHANGED <<vars, thread, loop_, alive, result>>

\* Wrong: the woken owner returns without testing loop_ again.
WakeTarget_NoRetest == "returning"

\* Where a woken waiter continues.
WakeTarget == "testing"

\* ... which may wake up unasked.
SpuriousWake ==
    /\ owner = "waiting"
    /\ owner' = WakeTarget
    /\ UNCHANGED <<vars, thread, loop_, alive, result>>

StarLoopReturn ==
    /\ owner = "returning"
    /\ owner' = "running"
    /\ result' = loop_
    /\ UNCHANGED <<vars, thread, loop_, alive>>

-----------------------------------------------------------------------------
(* threadFunc()                                                            *)

\* EventLoop loop; loop_ = &loop;
ThreadStore ==
    /\ thread = "starting"
    /\ thread' = "stored"
    /\ alive' = TRUE
    /\ loop_' = TRUE
    /\ UNCHANGED <<vars, owner, result>>

\* cond_.notify_all() reaches the owner only if it already waits.
ThreadNotify ==
    /\ thread = "stored"
    /\ thread' = "looping"
    /\ owner' = IF owner = "waiting" THEN WakeTarget ELSE owner
    /\ UNCHANGED <<vars, loop_, alive, result>>

\* loop.loop() has returned: loop_ = nullptr;
ThreadLeave ==
    /\ thread = "looping"
    /\ pc = "stopped"
    /\ thread' = "leaving"
    /\ loop_' = FALSE
    /\ UNCHANGED <<vars, owner, alive, result>>

\* End of threadFunc(): the EventLoop is destroyed.
ThreadEnd ==
    /\ thread = "leaving"
    /\ thread' = "done"
    /\ alive' = FALSE
    /\ UNCHANGED <<vars, owner, loop_, result>>

-----------------------------------------------------------------------------
(* ~EventLoopThread()                                                      *)

DtorUnstarted ==
    /\ owner = "new"
    /\ owner' = "gone"
    /\ UNCHANGED <<vars, thread, loop_, alive, result>>

\* The application destroys the object when no call on the loop is going on.
DtorTest ==
    /\ owner = "running"
    /\ \A th \in Threads : caller[th] = "idle"
    /\ owner' = IF loop_ THEN "dtorQuit" ELSE "joining"
    /\ UNCHANGED <<vars, thread, loop_, alive, result>>

\* loop_->quit(): the store to quit_ ...
DtorQuit ==
    /\ owner = "dtorQuit"
    /\ QuitStore(Owner)
    /\ owner' = "quitting"
    /\ UNCHANGED <<thread, loop_, alive, result>>

\* What is left of a call when the EventLoop is gone: the write goes to a
\* closed descriptor and changes nothing of the loop.
DeadWakeup(th) ==
    /\ caller[th] # "idle"
    /\ caller' = [caller EXCEPT ![th] = "idle"]
    /\ UNCHANGED <<pc, quit_, runningTasks_, wakeupfd_, queueVars, pollVars>>

\* ... then the wakeup, on an EventLoop that the store may have ended.
DtorWakeup ==
    /\ owner = "quitting"
    /\ IF alive THEN QuitWakeup(Owner) ELSE DeadWakeup(Owner)
    /\ owner' = "joining"
    /\ UNCHANGED <<thread, loop_, alive, result>>

DtorJoin ==
    /\ owner = "joining"
    /\ thread = "done"
    /\ owner' = "gone"
    /\ UNCHANGED <<vars, thread, loop_, alive, result>>

-----------------------------------------------------------------------------
(* The loop and its users.  Channels, tasks and calls come from those who  *)
(* have the pointer that starLoop() returned: threadFunc() runs no code of *)
(* the application, threadInitCallback_ is stored and never called.        *)

LoopRuns ==
    /\ thread = "looping"
    /\ \/ LoopStep
       \/ PollInterrupted
       \/ result /\ IoBecomesReady
       \/ /\ result /\ pc \in {"callback", "task"}
          /\ QuitInLoop \/ \E t \in Tasks : AddTaskInLoop(t) \/ RunInLoopDirect(t)
    /\ UNCHANGED threadVars

\* A user calls addTask(), runInLoop() or quit().  Bound: quit() only while no
\* wakeup is waiting, which leaves room below MaxWakeups for the destructor's.
UserCalls(th) ==
    /\ owner = "running" /\ result /\ alive
    /\ (wakeupfd_ = 0 /\ QuitStore(th)) \/ \E t \in Tasks : PostTask(th, t)
    /\ UNCHANGED threadVars

\* The wakeup that ends the call.
UserWakeup(th) ==
    /\ owner = "running"
    /\ IF alive THEN PostWakeup(th) \/ QuitWakeup(th) ELSE DeadWakeup(th)
    /\ UNCHANGED threadVars

StarLoopStep == StarLoop \/ TestLoop \/ BeginWait \/ StarLoopReturn
ThreadStep == ThreadStore \/ ThreadNotify \/ ThreadLeave \/ ThreadEnd
DtorStep == DtorQuit \/ DtorWakeup \/ DtorJoin

ThreadNext ==
    \/ StarLoopStep \/ SpuriousWake
    \/ ThreadStep
    \/ DtorUnstarted \/ DtorTest \/ DtorStep
    \/ LoopRuns
    \/ \E th \in Threads : UserCalls(th) \/ UserWakeup(th)

(***************************************************************************)
(* The owner keeps running inside starLoop() and inside the destructor,    *)
(* the thread keeps running, and so do calls already begun.  The owner     *)
(* need not start or destroy the object, and a spurious wakeup need not    *)
(* happen: the standard permits it and promises none.                      *)
(***************************************************************************)
ThreadSpec == ThreadInit /\ [][ThreadNext]_allVars

ThreadFairSpec ==
    /\ ThreadSpec
    /\ WF_allVars(TestLoop \/ BeginWait \/ StarLoopReturn)
    /\ WF_allVars(ThreadStep)
    /\ WF_allVars(DtorStep)
    /\ WF_allVars(thread = "looping" /\ LoopStep /\ UNCHANGED threadVars)
    /\ \A th \in Threads : WF_allVars(UserWakeup(th))

-----------------------------------------------------------------------------
(* Properties.                                                             *)

(***************************************************************************)
(* The pointer starLoop() returned is not null and points to a live        *)
(* EventLoop, whatever woke the waiter and although the loop lives on      *)
(* another thread's stack, until the application itself calls quit(): up   *)
(* to there loop_->quit() in the destructor, too, finds the loop that the  *)
(* test of loop_ before it has seen.                                       *)
(***************************************************************************)
StartedLoopUsable == owner \in {"running", "dtorQuit"} => result /\ (alive \/ quit_)

(***************************************************************************)
(* The destructor ends: its quit() reaches the loop wherever it is, or the *)
(* loop has ended by a quit() of the application, and join() returns.      *)
(***************************************************************************)
DtorJoins == (owner \in {"dtorQuit", "quitting", "joining"}) ~> (owner = "gone")

(***************************************************************************)
(* starLoop() returns (testcase/testTcpConnection.cpp starts four threads  *)
(* this way and goes on).                                                  *)
(***************************************************************************)
StarLoopReturns == (owner = "testing") ~> (owner = "running")
=============================================================================

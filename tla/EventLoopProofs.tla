--------------------------- MODULE EventLoopProofs ---------------------------
(***************************************************************************)
(* Proofs about EventLoop, and about the loop on the stack of an           *)
(* EventLoopThread, for any set of threads and any set of tasks.           *)
(***************************************************************************)
EXTENDS EventLoopThread, TLAPS

-----------------------------------------------------------------------------
(* The loop of EventLoop, run by its own thread.                           *)

\* Every action of the loop preserves the C++ types.
LEMMA TypeStep == TypeOK /\ [Next]_vars => TypeOK'
<1> SUFFICES ASSUME TypeOK, [Next]_vars PROVE TypeOK'
  OBVIOUS
<1> USE DEF TypeOK, LoopPc, Channels, queueVars, pollVars
<1>1. ASSUME NEW th \in Threads, NEW t \in Tasks, PostTask(th, t) PROVE TypeOK'
  BY <1>1 DEF PostTask
<1>2. ASSUME NEW th \in Threads, PostWakeup(th) PROVE TypeOK'
  BY <1>2 DEF PostWakeup, NeedsWakeup
<1>3. ASSUME NEW th \in Threads, QuitStore(th) PROVE TypeOK'
  BY <1>3 DEF QuitStore
<1>4. ASSUME NEW th \in Threads, QuitWakeup(th) PROVE TypeOK'
  BY <1>4 DEF QuitWakeup
<1>5. ASSUME NEW t \in Tasks, AddTaskInLoop(t) PROVE TypeOK'
  BY <1>5 DEF AddTaskInLoop, NeedsWakeup
<1>6. ASSUME NEW t \in Tasks, RunInLoopDirect(t) PROVE TypeOK'
  BY <1>6 DEF RunInLoopDirect
<1>7. CASE QuitInLoop
  BY <1>7 DEF QuitInLoop
<1>8. CASE EnterLoop
  BY <1>8 DEF EnterLoop
<1>9. CASE CheckQuit
  BY <1>9 DEF CheckQuit
<1>10. CASE PollReturns
  BY <1>10 DEF PollReturns, ReadyChannels
<1>11. CASE HandleRead
  BY <1>11 DEF HandleRead
<1>12. CASE DispatchIo
  BY <1>12 DEF DispatchIo
<1>13. CASE CallbackReturns
  BY <1>13 DEF CallbackReturns
<1>14. CASE BeginRunTasks
  BY <1>14 DEF BeginRunTasks
<1>15. CASE SwapTasks
  BY <1>15 DEF SwapTasks
<1>16. CASE RunTask
  BY <1>16 DEF RunTask
<1>17. CASE TaskReturns
  BY <1>17 DEF TaskReturns
<1>18. CASE EndRunTasks
  BY <1>18 DEF EndRunTasks
<1>19. CASE PollInterrupted
  BY <1>19 DEF PollInterrupted
<1>20. CASE IoBecomesReady
  BY <1>20 DEF IoBecomesReady
<1>21. CASE UNCHANGED vars
  BY <1>21 DEF vars
<1> QED
  BY <1>1, <1>2, <1>3, <1>4, <1>5, <1>6, <1>7, <1>8, <1>9, <1>10, <1>11,
     <1>12, <1>13, <1>14, <1>15, <1>16, <1>17, <1>18, <1>19, <1>20, <1>21
  DEF Next, LoopStep

\* A loop that was just constructed has its types.
LEMMA TypeInit == Init => TypeOK
<1> SUFFICES ASSUME Init PROVE TypeOK
  OBVIOUS
<1>1. quit_ \in BOOLEAN /\ runningTasks_ \in BOOLEAN /\ ioReady \in BOOLEAN
  BY DEF Init
<1>2. tasks_ \in Seq(Tasks) /\ batch \in Seq(Tasks) /\ executed \in Seq(Tasks)
  BY DEF Init
<1>3. caller \in [Threads -> {"idle", "posted", "quitting"}]
  BY DEF Init
<1> QED
  BY <1>1, <1>2, <1>3 DEF Init, TypeOK, LoopPc, Channels

\* Type correctness of the loop.
THEOREM TypeCorrect == Spec => []TypeOK
BY TypeInit, TypeStep, PTL DEF Spec

-----------------------------------------------------------------------------
(***************************************************************************)
(* The inductive invariant.  NoLostWakeup speaks of the poll only; to get  *)
(* there it has to hold from the swap on, through the tasks and the test   *)
(* of quit_, and a task the loop thread queues meanwhile is covered only   *)
(* because runningTasks_ is then set.                                      *)
(***************************************************************************)
UrgentTaskQueued == \E t \in Tasks \ early : Queued(t)

WakeupInv ==
    /\ runningTasks_ <=> pc \in {"swap", "run", "task"}
    /\ pc \in {"init", "check", "poll", "run", "task"} =>
          (UrgentTaskQueued => WakeupDue("posted"))
    /\ QuitNotMissed

\* A push makes only the pushed task newly queued.
LEMMA QueuedAfterPush ==
    ASSUME TypeOK, NEW t \in Tasks, NEW u \in Tasks, tasks_' = Append(tasks_, t),
           Queued(u)'
    PROVE  u = t \/ Queued(u)
<1>1. PICK i \in 1..Len(tasks_') : tasks_'[i] = u
  BY DEF Queued
<1>2. tasks_ \in Seq(Tasks) /\ Len(tasks_') = Len(tasks_) + 1
  BY DEF TypeOK
<1>3. CASE i = Len(tasks_) + 1
  BY <1>1, <1>2, <1>3
<1>4. CASE i # Len(tasks_) + 1
  BY <1>1, <1>2, <1>4 DEF Queued
<1> QED
  BY <1>3, <1>4

\* A step that leaves tasks_ and early alone leaves UrgentTaskQueued alone.
LEMMA UrgentUnchanged ==
    ASSUME UNCHANGED <<tasks_, early>>
    PROVE  UrgentTaskQueued' <=> UrgentTaskQueued
BY DEF UrgentTaskQueued, Queued

\* No action can put the loop to sleep on an urgent task or on a quit().
LEMMA WakeupInvStep == TypeOK /\ WakeupInv /\ [Next]_vars => WakeupInv'
<1> SUFFICES ASSUME TypeOK, WakeupInv, [Next]_vars PROVE WakeupInv'
  OBVIOUS
<1> USE DEF WakeupInv, QuitNotMissed, WakeupDue, queueVars, pollVars
<1>1. ASSUME NEW th \in Threads, NEW t \in Tasks, PostTask(th, t) PROVE WakeupInv'
  <2>1. caller'[th] = "posted" /\ WakeupDue("posted")'
    BY <1>1 DEF PostTask, TypeOK
  <2>2. \A s \in Threads : caller[s] = "quitting" => caller'[s] = "quitting"
    BY <1>1 DEF PostTask, TypeOK
  <2> QED
    BY <1>1, <2>1, <2>2 DEF PostTask
<1>2. ASSUME NEW th \in Threads, PostWakeup(th) PROVE WakeupInv'
  <2>1. wakeupfd_' > 0
    BY <1>2 DEF PostWakeup, NeedsWakeup, TypeOK
  <2> QED
    BY <1>2, <2>1 DEF PostWakeup
<1>3. ASSUME NEW th \in Threads, QuitStore(th) PROVE WakeupInv'
  <2>1. caller'[th] = "quitting"
    BY <1>3 DEF QuitStore, TypeOK
  <2>2. \A s \in Threads : caller[s] = "posted" => caller'[s] = "posted"
    BY <1>3 DEF QuitStore, TypeOK
  <2>3. UrgentTaskQueued' <=> UrgentTaskQueued
    BY <1>3, UrgentUnchanged DEF QuitStore
  <2> QED
    BY <1>3, <2>1, <2>2, <2>3 DEF QuitStore
<1>4. ASSUME NEW th \in Threads, QuitWakeup(th) PROVE WakeupInv'
  <2>1. wakeupfd_' > 0
    BY <1>4 DEF QuitWakeup, TypeOK
  <2> QED
    BY <1>4, <2>1 DEF QuitWakeup
<1>5. ASSUME NEW t \in Tasks, AddTaskInLoop(t) PROVE WakeupInv'
  <2>1. CASE pc = "task"
    <3>1. wakeupfd_' > 0
      BY <1>5, <2>1 DEF AddTaskInLoop, NeedsWakeup, TypeOK
    <3> QED
      BY <1>5, <2>1, <3>1 DEF AddTaskInLoop
  <2>2. CASE pc = "init"
    <3>1. UrgentTaskQueued' => UrgentTaskQueued
      BY <1>5, <2>2, QueuedAfterPush DEF AddTaskInLoop, UrgentTaskQueued
    <3>2. wakeupfd_' = wakeupfd_ /\ caller' = caller
      BY <1>5, <2>2 DEF AddTaskInLoop, NeedsWakeup
    <3> QED
      BY <1>5, <2>2, <3>1, <3>2 DEF AddTaskInLoop
  <2>3. CASE pc \in {"callback", "stopped"}
    BY <1>5, <2>3 DEF AddTaskInLoop
  <2> QED
    BY <1>5, <2>1, <2>2, <2>3 DEF AddTaskInLoop, UserCode
<1>6. ASSUME NEW t \in Tasks, RunInLoopDirect(t) PROVE WakeupInv'
  BY <1>6, UrgentUnchanged DEF RunInLoopDirect
<1>7. CASE QuitInLoop
  BY <1>7, UrgentUnchanged DEF QuitInLoop, UserCode
<1>8. CASE EnterLoop
  BY <1>8, UrgentUnchanged DEF EnterLoop
<1>9. CASE CheckQuit
  BY <1>9, UrgentUnchanged DEF CheckQuit
<1>10. CASE PollReturns \/ PollInterrupted
  BY <1>10 DEF PollReturns, PollInterrupted
<1>11. CASE HandleRead \/ DispatchIo
  BY <1>11 DEF HandleRead, DispatchIo
<1>12. CASE CallbackReturns \/ BeginRunTasks
  BY <1>12 DEF CallbackReturns, BeginRunTasks
<1>13. CASE SwapTasks
  <2>1. ~UrgentTaskQueued'
    BY <1>13 DEF SwapTasks, UrgentTaskQueued, Queued
  <2> QED
    BY <1>13, <2>1 DEF SwapTasks
<1>14. CASE RunTask \/ TaskReturns
  BY <1>14, UrgentUnchanged DEF RunTask, TaskReturns
<1>15. CASE EndRunTasks
  BY <1>15, UrgentUnchanged DEF EndRunTasks
<1>16. CASE IoBecomesReady
  BY <1>16, UrgentUnchanged DEF IoBecomesReady
<1>17. CASE UNCHANGED vars
  BY <1>17, UrgentUnchanged DEF vars
<1> QED
  BY <1>1, <1>2, <1>3, <1>4, <1>5, <1>6, <1>7, <1>8, <1>9, <1>10, <1>11,
     <1>12, <1>13, <1>14, <1>15, <1>16, <1>17 DEF Next, LoopStep

\* Before loop() nothing is queued and nobody has called quit().
LEMMA WakeupInvInit == Init => WakeupInv
<1> SUFFICES ASSUME Init PROVE WakeupInv
  OBVIOUS
<1>1. ~UrgentTaskQueued
  BY DEF Init, UrgentTaskQueued, Queued
<1> QED
  BY <1>1 DEF Init, WakeupInv, QuitNotMissed

\* The strengthened invariant holds in every behaviour of the loop.
LEMMA WakeupInvariant == Spec => []WakeupInv
BY WakeupInvInit, WakeupInvStep, TypeCorrect, PTL DEF Spec

\* The loop never sleeps in epoll_wait on a task another thread has queued,
\* nor on one queued from a task, for any number of threads and tasks.
THEOREM NoLostWakeupHolds == Spec => []NoLostWakeup
<1>1. WakeupInv => NoLostWakeup
  BY DEF WakeupInv, NoLostWakeup, UrgentTaskQueued
<1> QED
  BY <1>1, WakeupInvariant, PTL

\* quit() from any thread reaches a loop that is asleep in epoll_wait.
THEOREM QuitNotMissedHolds == Spec => []QuitNotMissed
<1>1. WakeupInv => QuitNotMissed
  BY DEF WakeupInv
<1> QED
  BY <1>1, WakeupInvariant, PTL

-----------------------------------------------------------------------------
(***************************************************************************)
(* Refinement.  The mapping needs one fact: outside the loop over the      *)
(* batch nothing is left of it, so that the swap does not reorder.         *)
(***************************************************************************)
BatchInv == pc \notin {"run", "task"} => batch = <<>>

\* The batch is emptied before runTasks() returns.
LEMMA BatchInvStep == BatchInv /\ [Next]_vars => BatchInv'
  BY DEF BatchInv, Next, LoopStep, vars, queueVars, pollVars, PostTask, PostWakeup,
         QuitStore, QuitWakeup, AddTaskInLoop, RunInLoopDirect, QuitInLoop,
         EnterLoop, CheckQuit, PollReturns, PollInterrupted, HandleRead,
         DispatchIo, CallbackReturns, BeginRunTasks, SwapTasks, RunTask,
         TaskReturns, EndRunTasks, IoBecomesReady

\* So nothing is left of a batch outside runTasks().
LEMMA BatchInvariant == Spec => []BatchInv
<1>1. Init => BatchInv
  BY DEF Init, BatchInv
<1> QED
  BY <1>1, BatchInvStep, PTL DEF Spec

\* A push at the end of tasks_ is a push at the end of the abstract queue.
LEMMA PushAtEnd ==
    ASSUME NEW b \in Seq(Tasks), NEW q \in Seq(Tasks), NEW t \in Tasks
    PROVE  b \o Append(q, t) = Append(b \o q, t)
OBVIOUS

\* Every step of the loop is a step of the abstract queue or invisible to it.
LEMMA StepSimulation ==
    TypeOK /\ BatchInv /\ [Next]_vars => [TQ!TQNext]_TQ!tqVars
<1> SUFFICES ASSUME TypeOK, BatchInv, [Next]_vars PROVE [TQ!TQNext]_TQ!tqVars
  OBVIOUS
<1> USE DEF TQ!tqVars, queueVars, pollVars
<1>1. ASSUME NEW th \in Threads, NEW t \in Tasks, PostTask(th, t)
      PROVE  TQ!Submit(t)
  BY <1>1, PushAtEnd DEF PostTask, TypeOK, TQ!Submit
<1>2. ASSUME NEW t \in Tasks, AddTaskInLoop(t) PROVE TQ!Submit(t)
  BY <1>2, PushAtEnd DEF AddTaskInLoop, TypeOK, TQ!Submit
<1>3. ASSUME NEW t \in Tasks, RunInLoopDirect(t) PROVE TQ!RunNow(t)
  BY <1>3 DEF RunInLoopDirect, TQ!RunNow
<1>4. CASE RunTask
  <2>1. batch \in Seq(Tasks) /\ tasks_ \in Seq(Tasks) /\ batch # <<>>
    BY <1>4 DEF RunTask, TypeOK
  <2>2. /\ batch \o tasks_ # <<>>
        /\ Head(batch \o tasks_) = Head(batch)
        /\ Tail(batch \o tasks_) = Tail(batch) \o tasks_
    BY <2>1
  <2> QED
    BY <1>4, <2>2 DEF RunTask, TQ!RunOldest, TQ!TQNext
<1>5. CASE CheckQuit
  BY <1>5 DEF CheckQuit, TQ!Stop, TQ!TQNext
<1>6. CASE SwapTasks
  <2>1. batch = <<>> /\ tasks_ \in Seq(Tasks)
    BY <1>6 DEF SwapTasks, BatchInv, TypeOK
  <2>2. batch' \o tasks_' = batch \o tasks_
    BY <1>6, <2>1 DEF SwapTasks
  <2> QED
    BY <1>6, <2>2 DEF SwapTasks
<1>7. ASSUME NEW th \in Threads, PostWakeup(th) \/ QuitStore(th) \/ QuitWakeup(th)
      PROVE  UNCHANGED TQ!tqVars
  BY <1>7 DEF PostWakeup, QuitStore, QuitWakeup
<1>8. CASE QuitInLoop \/ PollInterrupted \/ IoBecomesReady
  BY <1>8 DEF QuitInLoop, PollInterrupted, IoBecomesReady
<1>9. CASE EnterLoop \/ PollReturns \/ HandleRead \/ DispatchIo \/ CallbackReturns
  BY <1>9 DEF EnterLoop, PollReturns, HandleRead, DispatchIo, CallbackReturns
<1>10. CASE BeginRunTasks \/ TaskReturns \/ EndRunTasks
  BY <1>10 DEF BeginRunTasks, TaskReturns, EndRunTasks
<1>11. CASE UNCHANGED vars
  BY <1>11 DEF vars
<1> QED
  BY <1>1, <1>2, <1>3, <1>4, <1>5, <1>6, <1>7, <1>8, <1>9, <1>10, <1>11
  DEF Next, LoopStep, TQ!TQNext

\* EventLoop implements TaskQueue: tasks run at most once, in queueing order.
THEOREM LoopImplementsTaskQueue == Spec => ImplementsTaskQueue
<1>1. Init => TQ!TQInit
  BY DEF Init, TQ!TQInit
<1> QED
  BY <1>1, StepSimulation, TypeCorrect, BatchInvariant, PTL
  DEF Spec, ImplementsTaskQueue, TQ!TQSpec

-----------------------------------------------------------------------------
(* EventLoopThread: what its owner may rely on, and that everything proved *)
(* of a loop that runs alone still holds of the loop on the thread's       *)
(* stack.                                                                  *)


(***************************************************************************)
(* The inductive invariant.  loop_ and alive follow threadFunc(); the loop *)
(* ends only if quit_ is set, and nobody can set it who does not have the  *)
(* pointer that starLoop() returned, so when starLoop() reads loop_ again  *)
(* to return it the thread cannot have left loop().                        *)
(***************************************************************************)
ThreadInv ==
    /\ owner \in OwnerPc /\ thread \in ThreadPc
    /\ result \in BOOLEAN /\ alive \in BOOLEAN /\ loop_ \in BOOLEAN
    /\ owner = "new" => thread = "none"
    /\ alive <=> thread \in {"stored", "looping", "leaving"}
    /\ loop_ <=> thread \in {"stored", "looping"}
    /\ result \/ quit_ => owner \in {"running", "dtorQuit", "quitting", "joining", "gone"}
    /\ pc = "stopped" => quit_
    /\ thread \in {"leaving", "done"} => pc = "stopped"
    /\ owner \in {"returning", "running", "dtorQuit", "quitting"} => thread \notin {"none", "starting"}
    /\ owner \in {"running", "dtorQuit"} => result

-----------------------------------------------------------------------------
\* The loop ends only when quit_ is set, and its users have the pointer.
LEMMA LoopEndsOnQuit ==
    ASSUME LoopRuns \/ \E th \in Threads : UserCalls(th) \/ UserWakeup(th)
    PROVE  /\ UNCHANGED threadVars
           /\ quit_ => quit_'
           /\ quit_' => quit_ \/ result
           /\ pc' = "stopped" => pc = "stopped" \/ quit_
           /\ thread = "looping" \/ pc' = pc
           /\ pc = "stopped" => pc' = "stopped"
<1> USE DEF queueVars, pollVars
<1>1. ASSUME LoopStep \/ PollInterrupted \/ IoBecomesReady
      PROVE  /\ quit_' = quit_ /\ (pc' = "stopped" => pc = "stopped" \/ quit_)
             /\ pc = "stopped" => pc' = "stopped"
  BY <1>1 DEF LoopStep, EnterLoop, CheckQuit, PollReturns, PollInterrupted, HandleRead,
     DispatchIo, CallbackReturns, BeginRunTasks, SwapTasks, RunTask, TaskReturns,
     EndRunTasks, IoBecomesReady
<1>2. ASSUME NEW t \in Tasks, AddTaskInLoop(t) \/ RunInLoopDirect(t)
      PROVE  quit_' = quit_ /\ pc' = pc
  BY <1>2 DEF AddTaskInLoop, RunInLoopDirect
<1>3. QuitInLoop => quit_' = TRUE /\ pc' = pc
  BY DEF QuitInLoop
<1>4. ASSUME NEW th \in Threads, UserCalls(th)
      PROVE  (quit_' = quit_ \/ (quit_' = TRUE /\ result)) /\ pc' = pc
  BY <1>4 DEF UserCalls, PostTask, QuitStore
<1>5. ASSUME NEW th \in Threads, UserWakeup(th)
      PROVE  quit_' = quit_ /\ pc' = pc
  BY <1>5 DEF UserWakeup, PostWakeup, QuitWakeup, DeadWakeup
<1>6. CASE LoopRuns
  BY <1>1, <1>2, <1>3, <1>6 DEF LoopRuns
<1>7. ASSUME NEW th \in Threads, UserCalls(th) \/ UserWakeup(th)
      PROVE  /\ UNCHANGED threadVars
             /\ quit_' = quit_ \/ (quit_' = TRUE /\ result)
             /\ pc' = pc
  BY <1>4, <1>5, <1>7 DEF UserCalls, UserWakeup
<1> QED
  BY <1>6, <1>7

\* Every step of the owner, of the thread and of the loop keeps the invariant.
LEMMA ThreadInvStep == ThreadInv /\ [ThreadNext]_allVars => ThreadInv'
<1> SUFFICES ASSUME ThreadInv, [ThreadNext]_allVars PROVE ThreadInv'
  OBVIOUS
<1> USE DEF ThreadInv, OwnerPc, ThreadPc, vars, threadVars
<1>1. CASE StarLoop
  BY <1>1 DEF StarLoop
<1>2. CASE TestLoop
  BY <1>2 DEF TestLoop
<1>3. CASE BeginWait
  BY <1>3 DEF BeginWait
<1>4. CASE SpuriousWake
  BY <1>4 DEF SpuriousWake, WakeTarget
<1>5. CASE StarLoopReturn
  BY <1>5 DEF StarLoopReturn
<1>6. CASE ThreadStore
  BY <1>6 DEF ThreadStore
<1>7. CASE ThreadNotify
  BY <1>7 DEF ThreadNotify, WakeTarget
<1>8. CASE ThreadLeave
  BY <1>8 DEF ThreadLeave
<1>9. CASE ThreadEnd
  BY <1>9 DEF ThreadEnd
<1>10. CASE DtorUnstarted
  BY <1>10 DEF DtorUnstarted
<1>11. CASE DtorTest
  BY <1>11 DEF DtorTest
<1>12. CASE DtorQuit
  BY <1>12 DEF DtorQuit, QuitStore
<1>13. CASE DtorWakeup
  <2>1. owner = "quitting" /\ owner' = "joining"
        /\ UNCHANGED <<pc, quit_, thread, loop_, alive, result>>
    BY <1>13 DEF DtorWakeup, QuitWakeup, DeadWakeup
  <2> QED
    BY <2>1
<1>14. CASE DtorJoin
  BY <1>14 DEF DtorJoin
<1>15. CASE LoopRuns \/ \E th \in Threads : UserCalls(th) \/ UserWakeup(th)
  <2>1. /\ UNCHANGED threadVars
        /\ quit_ => quit_'
        /\ quit_' => quit_ \/ result
        /\ pc' = "stopped" => pc = "stopped" \/ quit_
        /\ thread = "looping" \/ pc' = pc
        /\ pc = "stopped" => pc' = "stopped"
    BY <1>15, LoopEndsOnQuit
  <2> QED
    BY <2>1
<1>16. CASE UNCHANGED allVars
  BY <1>16 DEF allVars
<1> QED
  BY <1>1, <1>2, <1>3, <1>4, <1>5, <1>6, <1>7, <1>8, <1>9, <1>10, <1>11, <1>12, <1>13,
     <1>14, <1>15, <1>16 DEF ThreadNext, StarLoopStep, ThreadStep, DtorStep

\* The invariant holds in every reachable state.
LEMMA ThreadInvariant == ThreadSpec => []ThreadInv
<1>1. ThreadInit => ThreadInv
  BY DEF ThreadInit, Init, ThreadInv, OwnerPc, ThreadPc
<1> QED
  BY <1>1, ThreadInvStep, PTL DEF ThreadSpec

(***************************************************************************)
(* The pointer that starLoop() returned is not null, and its EventLoop     *)
(* lives at least until somebody calls quit(), whatever woke the waiter.   *)
(***************************************************************************)
THEOREM LoopUsableOnceStarted == ThreadSpec => []StartedLoopUsable
<1>1. ThreadInv => StartedLoopUsable
  <2> SUFFICES ASSUME ThreadInv, owner \in {"running", "dtorQuit"}, ~quit_ PROVE alive
    BY DEF StartedLoopUsable, ThreadInv
  <2>1. thread \in {"stored", "looping"}
    BY DEF ThreadInv, ThreadPc
  <2> QED
    BY <2>1 DEF ThreadInv
<1> QED
  BY <1>1, ThreadInvariant, PTL

-----------------------------------------------------------------------------
(***************************************************************************)
(* The composition.  Every step is a step of EventLoop or leaves the loop  *)
(* alone, with one exception: the wakeup() that ends a call on a loop that *)
(* a quit(), perhaps the same call's, has already ended.                   *)
(***************************************************************************)
LateWakeup == pc = "stopped" /\ \E th \in Threads : DeadWakeup(th)

\* A step of the thread, of its owner or of a user is one the loop alone could
\* take.
LEMMA StepOfLoop == ThreadInv /\ [ThreadNext]_allVars => [Next]_vars \/ LateWakeup
<1> SUFFICES ASSUME ThreadInv, [ThreadNext]_allVars PROVE [Next]_vars \/ LateWakeup
  OBVIOUS
<1>0. ~alive /\ owner \in {"running", "quitting"} => pc = "stopped"
  BY DEF ThreadInv, ThreadPc
<1>1. CASE StarLoopStep \/ SpuriousWake \/ ThreadStep \/ DtorUnstarted \/ DtorTest \/ DtorJoin
  BY <1>1 DEF StarLoopStep, SpuriousWake, ThreadStep, DtorUnstarted, DtorTest, DtorJoin,
     StarLoop, TestLoop, BeginWait, StarLoopReturn, ThreadStore, ThreadNotify, ThreadLeave,
     ThreadEnd
<1>2. CASE DtorQuit
  BY <1>2, OwnerAssumption DEF DtorQuit, Next
<1>3. CASE DtorWakeup
  BY <1>0, <1>3, OwnerAssumption DEF DtorWakeup, Next, LateWakeup
<1>4. CASE LoopRuns
  BY <1>4 DEF LoopRuns, Next
<1>5. ASSUME NEW th \in Threads, UserCalls(th) PROVE Next
  BY <1>5 DEF UserCalls, Next
<1>6. ASSUME NEW th \in Threads, UserWakeup(th) PROVE Next \/ LateWakeup
  BY <1>0, <1>6 DEF UserWakeup, Next, LateWakeup
<1>7. CASE UNCHANGED allVars
  BY <1>7 DEF allVars
<1> QED
  BY <1>1, <1>2, <1>3, <1>4, <1>5, <1>6, <1>7 DEF ThreadNext, DtorStep

\* A wakeup that goes nowhere changes nothing that matters to a stopped loop.
LEMMA LateWakeupHarmless ==
    ASSUME TypeOK, WakeupInv, BatchInv, LateWakeup
    PROVE  TypeOK' /\ WakeupInv' /\ BatchInv' /\ UNCHANGED TQ!tqVars
<1> USE DEF LateWakeup, DeadWakeup, queueVars, pollVars
<1>1. TypeOK'
  BY DEF TypeOK
<1>2. WakeupInv'
  BY DEF WakeupInv, QuitNotMissed
<1>3. BatchInv'
  BY DEF BatchInv
<1>4. UNCHANGED TQ!tqVars
  BY DEF TQ!tqVars
<1> QED
  BY <1>1, <1>2, <1>3, <1>4

\* What is invariant of a loop that runs alone is invariant of this one.
LEMMA LoopInvariants == ThreadSpec => [](TypeOK /\ WakeupInv /\ BatchInv)
<1>1. ThreadInit => Init
  BY DEF ThreadInit
<1>2. Init => TypeOK /\ WakeupInv /\ BatchInv
  BY TypeInit, WakeupInvInit DEF Init, BatchInv
<1>3. ThreadInv /\ TypeOK /\ WakeupInv /\ BatchInv /\ [ThreadNext]_allVars
        => (TypeOK /\ WakeupInv /\ BatchInv)'
  BY StepOfLoop, TypeStep, WakeupInvStep, BatchInvStep, LateWakeupHarmless
<1> QED
  BY <1>1, <1>2, <1>3, ThreadInvariant, PTL DEF ThreadSpec

(***************************************************************************)
(* Every quit() and every task that another thread queues reaches the loop *)
(* in its thread: it is never asleep in epoll_wait with neither a wakeup   *)
(* written nor one about to be.                                            *)
(***************************************************************************)
THEOREM ThreadedLoopWakes == ThreadSpec => [](NoLostWakeup /\ QuitNotMissed)
<1>1. WakeupInv => NoLostWakeup /\ QuitNotMissed
  BY DEF WakeupInv, NoLostWakeup, UrgentTaskQueued
<1> QED
  BY <1>1, LoopInvariants, PTL

(***************************************************************************)
(* The loop of an EventLoopThread is still a TaskQueue: composing it with  *)
(* its thread adds no way to lose, repeat or reorder a task.               *)
(***************************************************************************)
THEOREM ThreadedLoopImplementsTaskQueue == ThreadSpec => ImplementsTaskQueue
<1>1. ThreadInit => TQ!TQInit
  BY DEF ThreadInit, Init, TQ!TQInit
<1>2. TypeOK /\ WakeupInv /\ BatchInv /\ ThreadInv /\ [ThreadNext]_allVars
        => [TQ!TQNext]_TQ!tqVars
  BY StepOfLoop, StepSimulation, LateWakeupHarmless
<1> QED
  BY <1>1, <1>2, LoopInvariants, ThreadInvariant, PTL
  DEF ThreadSpec, ImplementsTaskQueue, TQ!TQSpec
=============================================================================

------------------------------ MODULE TaskQueue ------------------------------
(***************************************************************************)
(* What an EventLoop promises to the code that hands it tasks, with the    *)
(* polling, the wakeup descriptor and the batching of runTasks() left out. *)
(*                                                                         *)
(*  - a queued task waits behind every task queued before it, whichever    *)
(*    thread queued it, and runs at most once;                             *)
(*  - a task the loop thread passes to runInLoop() runs at once, ahead of  *)
(*    the queued ones;                                                     *)
(*  - once loop() has returned no queued task runs any more: what is still *)
(*    queued is dropped.                                                   *)
(***************************************************************************)
EXTENDS Sequences

CONSTANT Tasks

VARIABLES
    submitted,  \* tasks handed to the loop so far
    pending,    \* tasks queued and not yet started, oldest first
    executed,   \* tasks started, in the order they started
    stopped     \* loop() has returned

tqVars == <<submitted, pending, executed, stopped>>

TQInit ==
    /\ submitted = {}
    /\ pending = <<>>
    /\ executed = <<>>
    /\ stopped = FALSE

\* Any thread queues t, also after the loop stopped (t is then dropped).
Submit(t) ==
    /\ t \in Tasks \ submitted
    /\ submitted' = submitted \cup {t}
    /\ pending' = Append(pending, t)
    /\ UNCHANGED <<executed, stopped>>

\* The loop thread runs t without queueing it.
RunNow(t) ==
    /\ t \in Tasks \ submitted
    /\ submitted' = submitted \cup {t}
    /\ executed' = Append(executed, t)
    /\ UNCHANGED <<pending, stopped>>

\* The oldest queued task starts.
RunOldest ==
    /\ ~stopped
    /\ pending # <<>>
    /\ executed' = Append(executed, Head(pending))
    /\ pending' = Tail(pending)
    /\ UNCHANGED <<submitted, stopped>>

Stop ==
    /\ ~stopped
    /\ stopped' = TRUE
    /\ UNCHANGED <<submitted, pending, executed>>

TQNext ==
    \/ \E t \in Tasks : Submit(t) \/ RunNow(t)
    \/ RunOldest
    \/ Stop

TQSpec == TQInit /\ [][TQNext]_tqVars
=============================================================================

----------------------------- MODULE TimerQueue -----------------------------
(***************************************************************************)
(* yvent::TimerQueue and Timer: a std::set of (expiration, Timer* ) in     *)
(* front of one timerfd, all on the loop thread.                           *)
(*                                                                         *)
(* An element of Timers is the address of a Timer, reused once the object  *)
(* is deleted.  One clock stands for system_clock and CLOCK_MONOTONIC, so  *)
(* the system clock is not set while timers run; its unit is the 1ms below *)
(* which setTimer() does not arm the timerfd.  The application calls       *)
(* addTimer() and cancelTimer() on the loop thread, in a timer callback or *)
(* elsewhere, and cancels a timer at most once and not after its last run: *)
(* cancelTimer() cannot tell, see its TODO comment.                        *)
(***************************************************************************)
EXTENDS Naturals, FiniteSets

CONSTANTS
    Timers,     \* addresses of Timer objects
    Intervals,  \* intervals passed to addTimer(); 0 is a one-shot timer
    MaxTime     \* bound: the clock stops here

ASSUME TimerAssumption ==
    Timers \subseteq Nat /\ Intervals \subseteq Nat /\ MaxTime \in Nat

VARIABLES
    now,        \* the clock
    heap,       \* Timer objects that exist
    when_,      \* Timer::when_
    interval_,  \* Timer::interval_
    canceled_,  \* Timer::canceled_
    timers_,    \* TimerQueue::timers_
    expiry,     \* when the timerfd expires, 0 if it is not armed
    armedAt,    \* history: when setTimer() last ran
    readable,   \* the timerfd expired and was not read since
    batch,      \* what handleRead() has left of getExpired()
    running,    \* the timers whose callback runs, at most one
    pc,         \* where the loop thread is, see LoopPc
    doomed      \* history: timers the application cancelled

timerVars == <<heap, when_, interval_, canceled_, doomed>>
fdVars == <<expiry, armedAt, readable>>
vars == <<now, timerVars, timers_, fdVars, batch, running, pc>>

\* Outside handleRead(); the same with the timerfd on activeChannels_; in
\* handleRead() between timers; in a timer callback; after ~TimerQueue().
LoopPc == {"loop", "active", "expired", "callback", "gone"}

Init ==
    /\ now = 0
    /\ heap = {}
    /\ when_ = [t \in Timers |-> 0]
    /\ interval_ = [t \in Timers |-> 0]
    /\ canceled_ = [t \in Timers |-> FALSE]
    /\ timers_ = {}
    /\ expiry = 0
    /\ armedAt = 0
    /\ readable = FALSE
    /\ batch = {}
    /\ running = {}
    /\ pc = "loop"
    /\ doomed = {}

-----------------------------------------------------------------------------
\* The order of std::pair<TimePoint, Timer*>.
Precedes(e, f) == e[1] < f[1] \/ (e[1] = f[1] /\ e[2] < f[2])

IsFirst(e, S) == e \in S /\ \A f \in S \ {e} : Precedes(e, f)

\* setTimer(): at least one unit ahead.  timerfd_settime() also drops an
\* expiration that was not read.
SetTimer(when) ==
    /\ expiry' = IF when > now + 1 THEN when ELSE now + 1
    /\ armedAt' = now
    /\ readable' = FALSE

InUserCode == pc \in {"loop", "active", "callback"}

\* Wrong: the timerfd is set only for the first of all timers.
NeedsArming_OnlyAlone(e, S) == S = {e}

\* timers_.begin() == timerEntry.first
NeedsArming(e, S) == IsFirst(e, S)

\* addTimer() on the loop thread.
AddTimer(t, when, interval) ==
    /\ InUserCode
    /\ t \notin heap
    /\ heap' = heap \cup {t}
    /\ when_' = [when_ EXCEPT ![t] = when]
    /\ interval_' = [interval_ EXCEPT ![t] = interval]
    /\ canceled_' = [canceled_ EXCEPT ![t] = FALSE]
    /\ timers_' = timers_ \cup {<<when, t>>}
    /\ IF NeedsArming(<<when, t>>, timers_') THEN SetTimer(when) ELSE UNCHANGED fdVars
    /\ doomed' = doomed \ {t}
    /\ UNCHANGED <<now, batch, running, pc>>

\* Wrong: the Timer is deleted even when handleRead() still has it.
Cancel_AlwaysDeletes(t) ==
    /\ canceled_' = [canceled_ EXCEPT ![t] = TRUE]
    /\ timers_' = timers_ \ {<<when_[t], t>>}
    /\ heap' = heap \ {t}

\* Wrong: cancelling only removes the entry.
Cancel_NotMarked(t) ==
    /\ timers_' = timers_ \ {<<when_[t], t>>}
    /\ heap' = IF <<when_[t], t>> \in timers_ THEN heap \ {t} ELSE heap
    /\ UNCHANGED canceled_

\* The task of cancelTimer(): the Timer is deleted if timers_ holds it, and
\* left to handleRead() otherwise.
Cancel(t) ==
    /\ canceled_' = [canceled_ EXCEPT ![t] = TRUE]
    /\ timers_' = timers_ \ {<<when_[t], t>>}
    /\ heap' = IF <<when_[t], t>> \in timers_ THEN heap \ {t} ELSE heap

CancelTimer(t) ==
    /\ InUserCode
    /\ t \in heap \ doomed
    /\ Cancel(t)
    /\ doomed' = doomed \cup {t}
    /\ UNCHANGED <<now, when_, interval_, fdVars, batch, running, pc>>

-----------------------------------------------------------------------------
(* The loop.                                                               *)

\* poll() reports the timerfd; other channels may be handled before it.
PollReturns ==
    /\ pc = "loop"
    /\ readable
    /\ pc' = "active"
    /\ UNCHANGED <<now, timerVars, timers_, fdVars, batch, running>>

\* getExpired(): the entries before (now + 1ns, nullptr).
Expired == {e \in timers_ : e[1] <= now}

\* handleRead(): the read (which finds nothing if the timerfd was set again
\* meanwhile) and getExpired() ...
HandleRead ==
    /\ pc = "active"
    /\ readable' = FALSE
    /\ batch' = Expired
    /\ timers_' = timers_ \ Expired
    /\ pc' = "expired"
    /\ UNCHANGED <<now, timerVars, expiry, armedAt, running>>

\* ... then each in turn: a cancelled one is deleted, ...
DropCanceled(e) ==
    /\ pc = "expired"
    /\ IsFirst(e, batch)
    /\ canceled_[e[2]]
    /\ heap' = heap \ {e[2]}
    /\ batch' = batch \ {e}
    /\ UNCHANGED <<now, when_, interval_, canceled_, doomed, timers_, fdVars,
                   running, pc>>

\* ... the others run ...
RunTimer(e) ==
    /\ pc = "expired"
    /\ IsFirst(e, batch)
    /\ ~canceled_[e[2]]
    /\ batch' = batch \ {e}
    /\ running' = {e[2]}
    /\ pc' = "callback"
    /\ UNCHANGED <<now, timerVars, timers_, fdVars>>

\* ... and are deleted, or restarted and queued again, cancelled or not.
TimerReturns(t) ==
    /\ pc = "callback"
    /\ t \in running
    /\ IF interval_[t] > 0
       THEN /\ when_' = [when_ EXCEPT ![t] = @ + interval_[t]]
            /\ timers_' = timers_ \cup {<<when_[t] + interval_[t], t>>}
            /\ UNCHANGED heap
       ELSE heap' = heap \ {t} /\ UNCHANGED <<when_, timers_>>
    /\ running' = {}
    /\ pc' = "expired"
    /\ UNCHANGED <<now, interval_, canceled_, doomed, fdVars, batch>>

\* The last statement of handleRead().
Rearm ==
    IF timers_ = {} THEN UNCHANGED fdVars
    ELSE \E e \in timers_ : IsFirst(e, timers_) /\ SetTimer(e[1])

EndHandleRead ==
    /\ pc = "expired"
    /\ batch = {}
    /\ Rearm
    /\ pc' = "loop"
    /\ UNCHANGED <<now, timerVars, timers_, batch, running>>

\* ~TimerQueue(), by the loop's destructor.
Destruct ==
    /\ pc = "loop"
    /\ heap' = heap \ {e[2] : e \in timers_}
    /\ timers_' = {}
    /\ pc' = "gone"
    /\ UNCHANGED <<now, when_, interval_, canceled_, doomed, fdVars, batch, running>>

\* Time passes, in the kernel's timer too.
Tick ==
    /\ now < MaxTime
    /\ now' = now + 1
    /\ IF expiry = now + 1
       THEN expiry' = 0 /\ readable' = TRUE
       ELSE UNCHANGED <<expiry, readable>>
    /\ UNCHANGED <<timerVars, timers_, armedAt, batch, running, pc>>

Next ==
    \/ \E t \in Timers, when \in 0..MaxTime, i \in Intervals : AddTimer(t, when, i)
    \/ \E t \in Timers : CancelTimer(t) \/ TimerReturns(t)
    \/ PollReturns \/ HandleRead \/ EndHandleRead \/ Destruct
    \/ \E e \in batch : DropCanceled(e) \/ RunTimer(e)
    \/ Tick

Spec == Init /\ [][Next]_vars

-----------------------------------------------------------------------------
(* Properties.                                                             *)

(***************************************************************************)
(* No pending timer is forgotten: whenever the loop may poll, the timerfd  *)
(* covers every entry of timers_.  It is readable, or about to be handled, *)
(* or armed no later than the entry and never further ahead than the 1ms   *)
(* of setTimer() if that is later (addTimer() before the head, cancelling  *)
(* the head, an expiry that a new setTimer() drops).                       *)
(***************************************************************************)
TimerfdCovers ==
    pc = "loop" =>
        \A e \in timers_ :
            \/ readable
            \/ /\ expiry > now
               /\ expiry <= e[1] \/ expiry <= armedAt + 1

(***************************************************************************)
(* Every Timer has exactly one owner: an existing Timer is in timers_, in  *)
(* the rest of handleRead()'s batch or running, in one of them only; the   *)
(* entries are keyed by when_, so cancelTimer() finds them, and none of    *)
(* them points to a deleted Timer.  ~TimerQueue() so leaves none behind.   *)
(***************************************************************************)
OneOwner ==
    /\ \A e \in timers_ \cup batch : e[1] = when_[e[2]]
    /\ heap = {e[2] : e \in timers_ \cup batch} \cup running
    /\ timers_ \cap batch = {}
    /\ \A t \in running : <<when_[t], t>> \notin timers_ \cup batch
    /\ pc = "gone" => heap = {}

(***************************************************************************)
(* A cancelled timer does not run again, even when it was cancelled by     *)
(* another timer's callback after both had expired, or by its own.         *)
(***************************************************************************)
CanceledNeverRuns == [][running' \ running \subseteq Timers \ doomed]_vars
=============================================================================

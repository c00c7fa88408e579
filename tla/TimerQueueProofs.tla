-------------------------- MODULE TimerQueueProofs --------------------------
(***************************************************************************)
(* Proofs about TimerQueue for any set of timers and intervals and any     *)
(* length of time.                                                         *)
(***************************************************************************)
EXTENDS TimerQueue, TLAPS

Entries == Nat \X Timers

TypeOK ==
    /\ now \in Nat /\ expiry \in Nat /\ armedAt \in Nat
    /\ readable \in BOOLEAN
    /\ heap \subseteq Timers /\ running \subseteq Timers
    /\ when_ \in [Timers -> Nat] /\ interval_ \in [Timers -> Nat]
    /\ canceled_ \in [Timers -> BOOLEAN]
    /\ timers_ \subseteq Entries /\ batch \subseteq Entries
    /\ pc \in LoopPc

\* setTimer() sets the timerfd to some time.
LEMMA SetTimerTypes ==
    ASSUME TypeOK, NEW when \in Nat, SetTimer(when)
    PROVE  expiry' \in Nat /\ armedAt' \in Nat /\ readable' \in BOOLEAN
<1>1. expiry' \in Nat /\ armedAt' \in Nat
  <2>1. now \in Nat /\ now + 1 \in Nat
    BY DEF TypeOK
  <2> QED
    BY <2>1 DEF SetTimer
<1>2. readable' \in BOOLEAN
  BY DEF SetTimer
<1> QED
  BY <1>1, <1>2

\* Every action keeps the C++ types; nothing is assumed of the state before.
LEMMA TypeStep == TypeOK /\ [Next]_vars => TypeOK'
<1> SUFFICES ASSUME TypeOK, [Next]_vars PROVE TypeOK'
  OBVIOUS
<1> USE TimerAssumption DEF TypeOK, Entries, LoopPc, timerVars, fdVars
<1>1. ASSUME NEW t \in Timers, NEW when \in 0..MaxTime, NEW i \in Intervals,
             AddTimer(t, when, i)
      PROVE  TypeOK'
  <2>1. when \in Nat /\ i \in Nat /\ <<when, t>> \in Entries
    OBVIOUS
  <2>2. timers_' \subseteq Entries /\ heap' \subseteq Timers
    BY <1>1, <2>1 DEF AddTimer
  <2>3. /\ when_' \in [Timers -> Nat] /\ interval_' \in [Timers -> Nat]
        /\ canceled_' \in [Timers -> BOOLEAN]
    BY <1>1, <2>1 DEF AddTimer
  <2>4. expiry' \in Nat /\ armedAt' \in Nat /\ readable' \in BOOLEAN
    BY <1>1, <2>1, SetTimerTypes DEF AddTimer
  <2> QED
    BY <1>1, <2>2, <2>3, <2>4 DEF AddTimer
<1>2. ASSUME NEW t \in Timers, CancelTimer(t) PROVE TypeOK'
  BY <1>2 DEF CancelTimer, Cancel
<1>3. ASSUME NEW t \in Timers, TimerReturns(t) PROVE TypeOK'
  <2>1. when_[t] + interval_[t] \in Nat
    OBVIOUS
  <2>2. when_' \in [Timers -> Nat] /\ timers_' \subseteq Entries /\ heap' \subseteq Timers
    <3>1. CASE interval_[t] > 0
      <4>1. <<when_[t] + interval_[t], t>> \in Entries
        BY <2>1
      <4>2. timers_' \subseteq Entries
        BY <1>3, <3>1, <4>1 DEF TimerReturns
      <4> QED
        BY <1>3, <2>1, <3>1, <4>2 DEF TimerReturns
    <3>2. CASE ~(interval_[t] > 0)
      BY <1>3, <3>2 DEF TimerReturns
    <3> QED
      BY <3>1, <3>2
  <2> QED
    BY <1>3, <2>2 DEF TimerReturns
<1>4. CASE PollReturns
  BY <1>4 DEF PollReturns
<1>5. CASE HandleRead
  BY <1>5 DEF HandleRead, Expired
<1>6. CASE EndHandleRead
  <2>1. expiry' \in Nat /\ armedAt' \in Nat /\ readable' \in BOOLEAN
    BY <1>6, SetTimerTypes DEF EndHandleRead, Rearm
  <2> QED
    BY <1>6, <2>1 DEF EndHandleRead
<1>7. CASE Destruct
  BY <1>7 DEF Destruct
<1>8. ASSUME NEW e \in batch, DropCanceled(e) PROVE TypeOK'
  BY <1>8 DEF DropCanceled
<1>9. ASSUME NEW e \in batch, RunTimer(e) PROVE TypeOK'
  BY <1>9 DEF RunTimer
<1>10. CASE Tick
  <2>1. now' \in Nat /\ expiry' \in Nat
    BY <1>10 DEF Tick
  <2>2. readable' \in BOOLEAN
    BY <1>10 DEF Tick
  <2> QED
    BY <1>10, <2>1, <2>2 DEF Tick
<1>11. CASE UNCHANGED vars
  BY <1>11 DEF vars
<1> QED
  BY <1>1, <1>2, <1>3, <1>4, <1>5, <1>6, <1>7, <1>8, <1>9, <1>10, <1>11 DEF Next

\* The types hold in every reachable state.
LEMMA Typing == Spec => []TypeOK
<1>1. ASSUME Init PROVE TypeOK
  <2>1. /\ when_ \in [Timers -> Nat] /\ interval_ \in [Timers -> Nat]
        /\ canceled_ \in [Timers -> BOOLEAN]
    BY <1>1 DEF Init
  <2> QED
    BY <1>1, <2>1 DEF Init, TypeOK, LoopPc
<1> QED
  BY <1>1, TypeStep, PTL DEF Spec

-----------------------------------------------------------------------------
(***************************************************************************)
(* The timerfd.  While the loop may poll, no action can leave an entry     *)
(* uncovered: TimerfdCovers is inductive once the types are known, because *)
(* the steps that come back to the poll (EndHandleRead) set the timerfd    *)
(* for the first entry.                                                    *)
(***************************************************************************)

\* Transitivity, for numbers that are parts of an entry.
LEMMA LeqTrans == \A a, b, c \in Nat : a <= b /\ b <= c => a <= c
OBVIOUS

\* An entry that is not the first of timers_ has one before it.
LEMMA NotFirst ==
    ASSUME NEW S \in SUBSET Entries, NEW e \in S, ~IsFirst(e, S)
    PROVE  \E f \in S \ {e} : f[1] <= e[1]
<1>1. PICK f \in S \ {e} : ~Precedes(e, f)
  BY DEF IsFirst
<1>2. e[1] \in Nat /\ f[1] \in Nat
  BY DEF Entries
<1>3. f[1] <= e[1]
  BY <1>1, <1>2 DEF Precedes
<1> QED
  BY <1>1, <1>3

\* setTimer() for the first entry covers all of them.
LEMMA SetTimerCovers ==
    ASSUME TypeOK, TypeOK', NEW e \in timers_', IsFirst(e, timers_'), SetTimer(e[1]),
           now' = now
    PROVE  TimerfdCovers'
<1>1. \A f \in timers_' : e[1] <= f[1]
  <2> TAKE f \in timers_'
  <2>1. e[1] \in Nat /\ f[1] \in Nat
    BY DEF TypeOK, Entries
  <2> QED
    BY <2>1 DEF IsFirst, Precedes
<1>2. expiry' > now' /\ (expiry' <= e[1] \/ expiry' <= armedAt' + 1)
  BY DEF SetTimer, TypeOK, Entries
<1>3. \A f \in timers_' : f[1] \in Nat
  BY DEF TypeOK, Entries
<1>4. e[1] \in Nat /\ expiry' \in Nat /\ armedAt' \in Nat
  BY <1>3 DEF TypeOK
<1>5. \A f \in timers_' : expiry' <= f[1] \/ expiry' <= armedAt' + 1
  <2> TAKE f \in timers_'
  <2>1. e[1] <= f[1] /\ f[1] \in Nat
    BY <1>1, <1>3
  <2> QED
    BY <1>2, <1>4, <2>1, LeqTrans
<1> QED
  BY <1>2, <1>5 DEF TimerfdCovers

\* addTimer() arms the timerfd for a timer that comes first, and handleRead()
\* rearms it for the first that is left.
LEMMA CoversStep == TypeOK /\ TypeOK' /\ TimerfdCovers /\ [Next]_vars => TimerfdCovers'
<1> SUFFICES ASSUME TypeOK, TypeOK', TimerfdCovers, [Next]_vars PROVE TimerfdCovers'
  OBVIOUS
<1> USE DEF TimerfdCovers, timerVars, fdVars
<1>1. ASSUME NEW t \in Timers, NEW when \in 0..MaxTime, NEW i \in Intervals,
             AddTimer(t, when, i)
      PROVE  TimerfdCovers'
  <2> DEFINE e == <<when, t>>
  <2>1. e \in timers_' /\ timers_' = timers_ \cup {e} /\ now' = now /\ e[1] = when
    BY <1>1 DEF AddTimer
  <2>2. CASE IsFirst(e, timers_')
    <3>1. SetTimer(e[1])
      BY <1>1, <2>1, <2>2 DEF AddTimer, NeedsArming
    <3> QED
      BY <2>1, <2>2, <3>1, SetTimerCovers
  <2>3. CASE ~IsFirst(e, timers_')
    <3>1. UNCHANGED fdVars /\ pc' = pc
      BY <1>1, <2>3 DEF AddTimer, NeedsArming
    <3>2. PICK f \in timers_' \ {e} : f[1] <= e[1]
      BY <2>1, <2>3, NotFirst DEF TypeOK
    <3>3. f \in timers_ /\ f[1] \in Nat /\ e[1] \in Nat
      BY <2>1, <3>2 DEF TypeOK, Entries
    <3> HIDE DEF e
    <3>4. expiry \in Nat /\ armedAt \in Nat /\ now \in Nat
      BY DEF TypeOK
    <3>5. pc = "loop" =>
             readable \/ (expiry > now /\ (expiry <= e[1] \/ expiry <= armedAt + 1))
      BY <3>2, <3>3, <3>4
    <3> QED
      BY <2>1, <3>1, <3>5
  <2> QED
    BY <2>2, <2>3
<1>2. ASSUME NEW t \in Timers, CancelTimer(t) PROVE TimerfdCovers'
  BY <1>2 DEF CancelTimer, Cancel
<1>3. ASSUME NEW t \in Timers, TimerReturns(t) PROVE TimerfdCovers'
  BY <1>3 DEF TimerReturns
<1>4. CASE PollReturns
  BY <1>4 DEF PollReturns
<1>5. CASE HandleRead
  BY <1>5 DEF HandleRead
<1>6. CASE EndHandleRead
  <2>1. CASE timers_ = {}
    BY <1>6, <2>1 DEF EndHandleRead
  <2>2. CASE timers_ # {}
    BY <1>6, <2>2, SetTimerCovers DEF EndHandleRead, Rearm
  <2> QED
    BY <2>1, <2>2
<1>7. CASE Destruct
  BY <1>7 DEF Destruct
<1>8. ASSUME NEW e \in batch, DropCanceled(e) PROVE TimerfdCovers'
  BY <1>8 DEF DropCanceled
<1>9. ASSUME NEW e \in batch, RunTimer(e) PROVE TimerfdCovers'
  BY <1>9 DEF RunTimer
<1>10. CASE Tick
  BY <1>10 DEF Tick, TypeOK
<1>11. CASE UNCHANGED vars
  BY <1>11 DEF vars
<1> QED
  BY <1>1, <1>2, <1>3, <1>4, <1>5, <1>6, <1>7, <1>8, <1>9, <1>10, <1>11 DEF Next

(***************************************************************************)
(* No pending timer is forgotten by the timerfd: addTimer() before the     *)
(* head, cancelTimer() of the head and a setTimer() that drops an expiry   *)
(* all leave every entry covered when the loop polls.                      *)
(***************************************************************************)
THEOREM PendingCovered == Spec => []TimerfdCovers
<1>1. Init => TimerfdCovers
  BY DEF Init, TimerfdCovers
<1> QED
  BY <1>1, CoversStep, Typing, PTL DEF Spec

-----------------------------------------------------------------------------
(***************************************************************************)
(* Ownership.  An entry of a Timer can only be the pair of its when_ and   *)
(* its address; OneOwner is not inductive without knowing that batch and   *)
(* running are empty outside handleRead(), that only one timer runs, and,  *)
(* for CanceledNeverRuns, that an existing cancelled Timer has the mark.   *)
(***************************************************************************)
Entry(t) == <<when_[t], t>>

Owned(t) == Entry(t) \in timers_ \/ Entry(t) \in batch \/ t \in running

OwnerInv ==
    /\ \A e \in timers_ \cup batch : e = Entry(e[2])
    /\ \A t \in Timers : t \in heap <=> Owned(t)
    /\ timers_ \cap batch = {}
    /\ \A t \in running : Entry(t) \notin timers_ \cup batch

PlaceInv ==
    /\ pc # "callback" => running = {}
    /\ pc \notin {"expired", "callback"} => batch = {}
    /\ \A s, t \in running : s = t
    /\ pc = "gone" => heap = {}

DoomedInv == \A t \in doomed \cap heap : canceled_[t]

QueueInv == TypeOK /\ OwnerInv /\ PlaceInv /\ DoomedInv

\* Entries of different timers are different, and an entry names its timer.
LEMMA EntryFacts ==
    /\ \A t \in Timers : Entry(t)[1] = when_[t] /\ Entry(t)[2] = t
    /\ \A s, t \in Timers : Entry(s) = Entry(t) => s = t
    /\ \A t \in Timers : Entry(t)'[1] = when_'[t] /\ Entry(t)'[2] = t
BY DEF Entry

\* A step that changes the when_ of one timer only changes no other entry.
LEMMA EntryUnchanged ==
    ASSUME TypeOK, NEW t \in Timers, NEW w \in Nat, when_' = [when_ EXCEPT ![t] = w]
    PROVE  /\ \A s \in Timers \ {t} : Entry(s)' = Entry(s)
           /\ Entry(t)' = <<w, t>>
BY DEF Entry, TypeOK

\* A timer that nobody owns, or that is running, has no entry at all.
LEMMA NoEntry ==
    ASSUME TypeOK, OwnerInv, NEW t \in Timers, t \in running \/ t \notin heap
    PROVE  \A e \in timers_ \cup batch : e[2] # t
BY DEF OwnerInv, Owned

\* What an entry of the queue or of the batch looks like.
LEMMA EntryOf ==
    ASSUME TypeOK, OwnerInv, NEW e \in timers_ \cup batch
    PROVE  e[2] \in Timers /\ e = Entry(e[2]) /\ e[2] \in heap
BY DEF TypeOK, OwnerInv, Owned, Entries

\* No action of the queue loses a Timer, owns it twice or files it wrongly.
LEMMA OwnerStep == QueueInv /\ [Next]_vars => OwnerInv'
<1> SUFFICES ASSUME QueueInv, [Next]_vars PROVE OwnerInv'
  OBVIOUS
<1>0. TypeOK /\ OwnerInv /\ PlaceInv
  BY DEF QueueInv
<1>a. UNCHANGED when_ => \A t \in Timers : Entry(t)' = Entry(t)
  BY DEF Entry
<1>b. \A e \in timers_ \cup batch : e[2] \in Timers
  BY <1>0, EntryOf
<1>1. ASSUME NEW t \in Timers, NEW when \in 0..MaxTime, NEW i \in Intervals,
             AddTimer(t, when, i)
      PROVE  OwnerInv'
  <2>1. /\ t \notin heap /\ heap' = heap \cup {t} /\ timers_' = timers_ \cup {<<when, t>>}
        /\ UNCHANGED <<batch, running>> /\ when_' = [when_ EXCEPT ![t] = when]
    BY <1>1 DEF AddTimer
  <2>2. /\ \A s \in Timers \ {t} : Entry(s)' = Entry(s)
        /\ Entry(t)' = <<when, t>>
    <3>1. when \in Nat
      BY TimerAssumption
    <3> QED
      BY <1>0, <2>1, <3>1, EntryUnchanged
  <2>3. \A e \in timers_ \cup batch : e[2] # t
    BY <1>0, <2>1, NoEntry
  <2>4. t \notin running
    BY <1>0, <2>1 DEF OwnerInv, Owned
  <2>5. running \subseteq Timers
    BY <1>0 DEF TypeOK
  <2>6. \A e \in timers_' \cup batch' : e = Entry(e[2])'
    BY <1>0, <1>b, <2>1, <2>2, <2>3 DEF OwnerInv
  <2>7. \A s \in Timers : s \in heap' <=> Owned(s)'
    <3> TAKE s \in Timers
    <3>1. CASE s = t
      BY <2>1, <2>2, <3>1 DEF Owned
    <3>2. CASE s # t
      <4>1. Entry(s) # <<when, t>>
        BY <3>2 DEF Entry
      <4> QED
        BY <1>0, <2>1, <2>2, <3>2, <4>1 DEF Owned, OwnerInv
    <3> QED
      BY <3>1, <3>2
  <2>8. timers_' \cap batch' = {}
    <3>1. <<when, t>> \notin batch
      BY <2>3
    <3> QED
      BY <1>0, <2>1, <3>1 DEF OwnerInv
  <2>9. \A s \in running' : Entry(s)' \notin timers_' \cup batch'
    <3> TAKE s \in running'
    <3>1. s \in running /\ s # t /\ s \in Timers
      BY <2>1, <2>4, <2>5
    <3>2. Entry(s)' = Entry(s) /\ Entry(s) # <<when, t>>
      BY <2>2, <3>1 DEF Entry
    <3> QED
      BY <1>0, <2>1, <3>1, <3>2 DEF OwnerInv
  <2> QED
    BY <2>6, <2>7, <2>8, <2>9 DEF OwnerInv
<1>2. ASSUME NEW t \in Timers, CancelTimer(t) PROVE OwnerInv'
  <2>1. /\ timers_' = timers_ \ {Entry(t)} /\ UNCHANGED <<when_, batch, running>>
        /\ heap' = IF Entry(t) \in timers_ THEN heap \ {t} ELSE heap
        /\ t \in heap
    BY <1>2 DEF CancelTimer, Cancel, Entry
  <2>2. \A s \in Timers : Entry(s)' = Entry(s)
    BY <1>a, <2>1
  <2>3. running \subseteq Timers
    BY <1>0 DEF TypeOK
  <2>4. \A s \in Timers : s \in heap' <=> Owned(s)'
    BY <1>0, <2>1, <2>2, EntryFacts DEF Owned, OwnerInv
  <2> QED
    BY <1>0, <1>b, <2>1, <2>2, <2>3, <2>4 DEF OwnerInv
<1>3. ASSUME NEW t \in Timers, TimerReturns(t) PROVE OwnerInv'
  <2>1. t \in running /\ running' = {} /\ UNCHANGED batch /\ running = {t}
    BY <1>0, <1>3 DEF TimerReturns, PlaceInv
  <2>2. \A e \in timers_ \cup batch : e[2] # t
    BY <1>0, <2>1, NoEntry
  <2>3. CASE interval_[t] > 0
    <3> DEFINE w == when_[t] + interval_[t]
    <3>1. w \in Nat
      BY <1>0 DEF TypeOK
    <3>2. when_' = [when_ EXCEPT ![t] = w] /\ timers_' = timers_ \cup {<<w, t>>} /\ heap' = heap
      BY <1>3, <2>3 DEF TimerReturns
    <3> HIDE DEF w
    <3>3. /\ \A s \in Timers \ {t} : Entry(s)' = Entry(s)
          /\ Entry(t)' = <<w, t>>
      BY <1>0, <3>1, <3>2, EntryUnchanged
    <3>4. \A e \in timers_' \cup batch' : e = Entry(e[2])'
      BY <1>0, <1>b, <2>1, <2>2, <3>2, <3>3 DEF OwnerInv
    <3>5. \A s \in Timers : s \in heap' <=> Owned(s)'
      <4> TAKE s \in Timers
      <4>1. CASE s = t
        BY <1>0, <2>1, <3>2, <3>3, <4>1 DEF Owned, OwnerInv
      <4>2. CASE s # t
        <5>1. Entry(s) # <<w, t>>
          BY <4>2 DEF Entry
        <5> QED
          BY <1>0, <2>1, <3>2, <3>3, <4>2, <5>1 DEF Owned, OwnerInv
      <4> QED
        BY <4>1, <4>2
    <3>6. timers_' \cap batch' = {}
      <4>1. <<w, t>> \notin batch
        BY <2>2
      <4> QED
        BY <1>0, <2>1, <3>2, <4>1 DEF OwnerInv
    <3> QED
      BY <2>1, <3>4, <3>5, <3>6 DEF OwnerInv
  <2>4. CASE ~(interval_[t] > 0)
    <3>1. heap' = heap \ {t} /\ UNCHANGED <<when_, timers_>>
      BY <1>3, <2>4 DEF TimerReturns
    <3>2. \A s \in Timers : Entry(s)' = Entry(s)
      BY <1>a, <3>1
    <3> QED
      BY <1>0, <1>b, <2>1, <3>1, <3>2 DEF OwnerInv, Owned
  <2> QED
    BY <2>3, <2>4
<1>4. CASE PollReturns
  BY <1>4, <1>0, <1>a, <1>b DEF PollReturns, timerVars, OwnerInv, Owned, TypeOK
<1>5. CASE HandleRead
  <2>1. /\ batch = {} /\ running = {} /\ UNCHANGED <<when_, heap, running>>
        /\ batch' = Expired /\ timers_' = timers_ \ Expired /\ Expired \subseteq timers_
    BY <1>5, <1>0 DEF HandleRead, timerVars, PlaceInv, Expired
  <2>2. \A s \in Timers : Entry(s)' = Entry(s)
    BY <1>a, <2>1
  <2> QED
    BY <1>0, <1>b, <2>1, <2>2 DEF OwnerInv, Owned
<1>6. CASE EndHandleRead
  BY <1>6, <1>0, <1>a, <1>b DEF EndHandleRead, timerVars, OwnerInv, Owned, TypeOK
<1>7. CASE Destruct
  <2>1. /\ batch = {} /\ running = {} /\ UNCHANGED <<when_, batch, running>>
        /\ timers_' = {} /\ heap' = heap \ {e[2] : e \in timers_}
    BY <1>7, <1>0 DEF Destruct, PlaceInv
  <2>2. heap' = {}
    BY <1>0, <2>1, EntryFacts DEF OwnerInv, Owned, TypeOK
  <2> QED
    BY <2>1, <2>2 DEF OwnerInv, Owned
<1>8. ASSUME NEW e \in batch, DropCanceled(e) PROVE OwnerInv'
  <2>1. /\ running = {} /\ UNCHANGED <<when_, timers_, running>>
        /\ batch' = batch \ {e} /\ heap' = heap \ {e[2]}
    BY <1>8, <1>0 DEF DropCanceled, PlaceInv
  <2>2. \A s \in Timers : Entry(s)' = Entry(s)
    BY <1>a, <2>1
  <2>3. e = Entry(e[2]) /\ e[2] \in Timers
    BY <1>0, EntryOf
  <2>4. \A s \in Timers : Entry(s) = e => s = e[2]
    BY <2>3, EntryFacts
  <2> QED
    BY <1>0, <1>b, <2>1, <2>2, <2>3, <2>4 DEF OwnerInv, Owned
<1>9. ASSUME NEW e \in batch, RunTimer(e) PROVE OwnerInv'
  <2>1. /\ running = {} /\ UNCHANGED <<when_, timers_, heap>>
        /\ batch' = batch \ {e} /\ running' = {e[2]}
    BY <1>9, <1>0 DEF RunTimer, PlaceInv, timerVars
  <2>2. \A s \in Timers : Entry(s)' = Entry(s)
    BY <1>a, <2>1
  <2>3. e = Entry(e[2]) /\ e[2] \in Timers
    BY <1>0, EntryOf
  <2>4. \A s \in Timers : Entry(s) = e => s = e[2]
    BY <2>3, EntryFacts
  <2> QED
    BY <1>0, <1>b, <2>1, <2>2, <2>3, <2>4 DEF OwnerInv, Owned
<1>10. CASE Tick
  BY <1>10, <1>0, <1>a, <1>b DEF Tick, timerVars, OwnerInv, Owned, TypeOK
<1>11. CASE UNCHANGED vars
  BY <1>11, <1>0, <1>a, <1>b DEF vars, timerVars, OwnerInv, Owned, TypeOK
<1> QED
  BY <1>1, <1>2, <1>3, <1>4, <1>5, <1>6, <1>7, <1>8, <1>9, <1>10, <1>11 DEF Next

\* batch and running are handleRead()'s, and ~TimerQueue() deletes every Timer.
LEMMA PlaceStep == QueueInv /\ [Next]_vars => PlaceInv'
<1> SUFFICES ASSUME QueueInv, [Next]_vars PROVE PlaceInv'
  OBVIOUS
<1>0. PlaceInv
  BY DEF QueueInv
<1> USE <1>0 DEF PlaceInv, timerVars
<1>1. ASSUME NEW t \in Timers, NEW when \in 0..MaxTime, NEW i \in Intervals,
             AddTimer(t, when, i)
      PROVE  PlaceInv'
  BY <1>1 DEF AddTimer, InUserCode
<1>2. ASSUME NEW t \in Timers, CancelTimer(t) PROVE PlaceInv'
  BY <1>2 DEF CancelTimer, InUserCode
<1>3. ASSUME NEW t \in Timers, TimerReturns(t) PROVE PlaceInv'
  BY <1>3 DEF TimerReturns
<1>4. CASE PollReturns
  BY <1>4 DEF PollReturns
<1>5. CASE HandleRead
  BY <1>5 DEF HandleRead
<1>6. CASE EndHandleRead
  BY <1>6 DEF EndHandleRead
<1>7. CASE Destruct
  <2>1. \A t \in heap : Entry(t) \in timers_ /\ Entry(t)[2] = t
    BY <1>7, EntryFacts DEF Destruct, QueueInv, OwnerInv, Owned, TypeOK
  <2>2. heap' = {}
    BY <1>7, <2>1 DEF Destruct
  <2> QED
    BY <1>7, <2>2 DEF Destruct
<1>8. ASSUME NEW e \in batch, DropCanceled(e) PROVE PlaceInv'
  BY <1>8 DEF DropCanceled
<1>9. ASSUME NEW e \in batch, RunTimer(e) PROVE PlaceInv'
  BY <1>9 DEF RunTimer
<1>10. CASE Tick
  BY <1>10 DEF Tick
<1>11. CASE UNCHANGED vars
  BY <1>11 DEF vars
<1> QED
  BY <1>1, <1>2, <1>3, <1>4, <1>5, <1>6, <1>7, <1>8, <1>9, <1>10, <1>11 DEF Next

\* A cancelled Timer that still exists has its mark.
LEMMA DoomedStep == QueueInv /\ [Next]_vars => DoomedInv'
<1> SUFFICES ASSUME QueueInv, [Next]_vars PROVE DoomedInv'
  OBVIOUS
<1>0. TypeOK /\ DoomedInv
  BY DEF QueueInv
<1> USE <1>0 DEF DoomedInv, timerVars
<1>1. ASSUME NEW t \in Timers, NEW when \in 0..MaxTime, NEW i \in Intervals,
             AddTimer(t, when, i)
      PROVE  DoomedInv'
  BY <1>1 DEF AddTimer, TypeOK
<1>2. ASSUME NEW t \in Timers, CancelTimer(t) PROVE DoomedInv'
  BY <1>2 DEF CancelTimer, Cancel, TypeOK
<1>3. ASSUME NEW t \in Timers, TimerReturns(t) PROVE DoomedInv'
  BY <1>3 DEF TimerReturns
<1>4. CASE PollReturns
  BY <1>4 DEF PollReturns
<1>5. CASE HandleRead
  BY <1>5 DEF HandleRead
<1>6. CASE EndHandleRead
  BY <1>6 DEF EndHandleRead
<1>7. CASE Destruct
  BY <1>7 DEF Destruct
<1>8. ASSUME NEW e \in batch, DropCanceled(e) PROVE DoomedInv'
  BY <1>8 DEF DropCanceled
<1>9. ASSUME NEW e \in batch, RunTimer(e) PROVE DoomedInv'
  BY <1>9 DEF RunTimer
<1>10. CASE Tick
  BY <1>10 DEF Tick
<1>11. CASE UNCHANGED vars
  BY <1>11 DEF vars
<1> QED
  BY <1>1, <1>2, <1>3, <1>4, <1>5, <1>6, <1>7, <1>8, <1>9, <1>10, <1>11 DEF Next

\* The invariant holds in every reachable state of the queue.
LEMMA QueueInvariant == Spec => []QueueInv
<1>1. Init => OwnerInv /\ PlaceInv /\ DoomedInv
  BY DEF Init, OwnerInv, Owned, PlaceInv, DoomedInv
<1>2. QueueInv /\ [Next]_vars => QueueInv'
  BY TypeStep, OwnerStep, PlaceStep, DoomedStep DEF QueueInv
<1>3. Spec => QueueInv
  <2>1. Spec => TypeOK
    BY Typing, PTL
  <2> QED
    BY <1>1, <2>1 DEF Spec, QueueInv
<1> QED
  BY <1>2, <1>3, PTL DEF Spec

(***************************************************************************)
(* Every Timer has exactly one owner, whatever callbacks add and cancel:   *)
(* timers_, the rest of handleRead()'s batch, or the running callback; and *)
(* ~TimerQueue() leaves none behind.                                       *)
(***************************************************************************)
THEOREM TimerOwnedOnce == Spec => []OneOwner
<1>1. QueueInv => OneOwner
  <2> SUFFICES ASSUME QueueInv PROVE OneOwner
    OBVIOUS
  <2>0. TypeOK /\ OwnerInv
    BY DEF QueueInv
  <2>1. \A e \in timers_ \cup batch : e[1] = when_[e[2]] /\ e[2] \in heap
    BY <2>0, EntryOf, EntryFacts
  <2>2. \A t \in heap : Owned(t) /\ Entry(t)[2] = t
    BY <2>0, EntryFacts DEF OwnerInv, TypeOK
  <2>3. running \subseteq heap
    BY <2>0 DEF OwnerInv, Owned, TypeOK
  <2>4. heap = {e[2] : e \in timers_ \cup batch} \cup running
    BY <2>1, <2>2, <2>3 DEF Owned
  <2> QED
    BY <2>0, <2>1, <2>4 DEF OneOwner, OwnerInv, Entry, QueueInv, PlaceInv
<1> QED
  BY <1>1, QueueInvariant, PTL

(***************************************************************************)
(* A cancelled timer does not run again: handleRead() starts only a timer  *)
(* without the mark, and cancelTimer() marks every Timer it cannot delete. *)
(***************************************************************************)
THEOREM CanceledStaysStopped == Spec => CanceledNeverRuns
<1>1. QueueInv /\ [Next]_vars => [running' \ running \subseteq Timers \ doomed]_vars
  <2> SUFFICES ASSUME QueueInv, [Next]_vars, ~UNCHANGED vars
               PROVE  running' \ running \subseteq Timers \ doomed
    OBVIOUS
  <2>1. ASSUME NEW e \in batch, RunTimer(e)
        PROVE  running' \ running \subseteq Timers \ doomed
    <3>1. e[2] \in Timers /\ e[2] \in heap
      BY EntryOf DEF QueueInv
    <3>2. e[2] \notin doomed
      BY <2>1, <3>1 DEF RunTimer, QueueInv, DoomedInv
    <3> QED
      BY <2>1, <3>1, <3>2 DEF RunTimer
  <2>2. ASSUME ~(\E e \in batch : RunTimer(e)) PROVE running' \subseteq running
    BY <2>2 DEF Next, AddTimer, CancelTimer, TimerReturns, PollReturns, HandleRead,
       EndHandleRead, Destruct, DropCanceled, Tick
  <2> QED
    BY <2>1, <2>2
<1> QED
  BY <1>1, QueueInvariant, PTL DEF Spec, CanceledNeverRuns
=============================================================================

--------------------------- MODULE TcpServerProofs ---------------------------
(***************************************************************************)
(* Proofs about TcpServer for any set of connections and any size of the   *)
(* pool.                                                                   *)
(***************************************************************************)
EXTENDS TcpServer, FiniteSetTheorems, TLAPS

Tasks == {"enableRead", "erase"} \X Conns

TypeOK ==
    /\ threadNum_ \in Nat
    /\ queue \in [Loops -> Seq(Tasks)]
    /\ connections_ \subseteq Conns
    /\ inserting \subseteq Conns
    /\ nextEventLoop_ \in Nat
    /\ nextEventLoop_ = 0 \/ nextEventLoop_ < threadNum_
    /\ loopOf \in [Conns -> Loops]
    /\ state \in [Conns -> {"none", "kConnecting", "kConnected", "kDisconnected"}]

\* Task i of the queue of loop l is op of connection c.
At(l, i, op, c) == i \in 1..Len(queue[l]) /\ queue[l][i] = <<op, c>>

(***************************************************************************)
(* What the queues say of the connections: an erase is queued for a closed *)
(* connection only, and the one enableRead() of a connection only while it *)
(* is kConnecting, so no queued task can bring a closed connection back.   *)
(***************************************************************************)
QueueInv ==
    \A l \in Loops, i \in Nat, c \in Conns :
        /\ At(l, i, "erase", c) => state[c] = "kDisconnected"
        /\ At(l, i, "enableRead", c) =>
              /\ state[c] = "kConnecting"
              /\ \A k \in Loops, j \in Nat :
                    At(k, j, "enableRead", c) => k = l /\ j = i

\* Connections are dealt out in rounds: the loops before nextEventLoop_ have
\* got one of the current round, the others have not.
DealtOut(rounds) ==
    \A l \in PoolLoops :
        /\ IsFiniteSet(Accepted(l))
        /\ Cardinality(Accepted(l)) = IF l <= nextEventLoop_ THEN rounds + 1 ELSE rounds

DealInv == \E rounds \in Nat : DealtOut(rounds)

\* newConnection() runs once at a time.
OneInsert == \A c, d \in inserting : c = d

ServerInv == TypeOK /\ QueueInv /\ OneInsert /\ OpenIsHeld

-----------------------------------------------------------------------------
\* The loops of the server never change.
LEMMA LoopsFixed ==
    ASSUME UNCHANGED threadNum_ PROVE Loops' = Loops /\ PoolLoops' = PoolLoops
BY DEF Loops, PoolLoops

\* The base loop and, with a pool, the next loop of the pool are loops.
LEMMA NextIsLoop ==
    ASSUME TypeOK
    PROVE  /\ Base \in Loops
           /\ threadNum_ > 0 => NextLoop \in PoolLoops /\ NextLoop \in Loops /\ NextLoop # Base
BY DEF TypeOK, NextLoop, Loops, PoolLoops, Base

\* addTask() adds one task at the end of one queue.
LEMMA PostAt ==
    ASSUME TypeOK, NEW l0 \in Loops, NEW op0 \in {"enableRead", "erase"}, NEW c0 \in Conns,
           Post(l0, op0, c0)
    PROVE  /\ queue' \in [Loops -> Seq(Tasks)]
           /\ \A l \in Loops, i \in Nat, op \in {"enableRead", "erase"}, c \in Conns :
                 At(l, i, op, c)' =>
                     At(l, i, op, c) \/ (l = l0 /\ i = Len(queue[l0]) + 1 /\ op = op0 /\ c = c0)
<1> DEFINE q == Append(queue[l0], <<op0, c0>>)
<1>1. queue[l0] \in Seq(Tasks) /\ <<op0, c0>> \in Tasks
  BY DEF TypeOK, Tasks
<1>2. q \in Seq(Tasks) /\ Len(q) = Len(queue[l0]) + 1 /\ q[Len(queue[l0]) + 1] = <<op0, c0>>
      /\ \A i \in 1..Len(queue[l0]) : q[i] = queue[l0][i]
  BY <1>1
<1>3. queue' = [queue EXCEPT ![l0] = q] /\ queue \in [Loops -> Seq(Tasks)]
  BY DEF Post, TypeOK
<1> HIDE DEF q
<1>4. queue' \in [Loops -> Seq(Tasks)] /\ queue'[l0] = q
      /\ \A l \in Loops \ {l0} : queue'[l] = queue[l]
  BY <1>2, <1>3
<1>5. ASSUME NEW l \in Loops, NEW i \in Nat, NEW op \in {"enableRead", "erase"},
             NEW c \in Conns, At(l, i, op, c)'
      PROVE  At(l, i, op, c) \/ (l = l0 /\ i = Len(queue[l0]) + 1 /\ op = op0 /\ c = c0)
  <2>1. CASE l # l0
    BY <1>4, <1>5, <2>1 DEF At
  <2>2. CASE l = l0 /\ i = Len(queue[l0]) + 1
    BY <1>2, <1>4, <1>5, <2>2 DEF At
  <2>3. CASE l = l0 /\ i # Len(queue[l0]) + 1
    <3>1. i \in 1..Len(queue[l0])
      BY <1>1, <1>2, <1>4, <1>5, <2>3 DEF At
    <3> QED
      BY <1>2, <1>4, <1>5, <2>3, <3>1 DEF At
  <2> QED
    BY <2>1, <2>2, <2>3
<1> QED
  BY <1>4, <1>5

\* A loop that runs its first task moves the others up by one.
LEMMA TailAt ==
    ASSUME NEW q \in Seq(Tasks), q # <<>>
    PROVE  /\ Tail(q) \in Seq(Tasks)
           /\ \A i \in Nat : i \in 1..Len(Tail(q)) => i + 1 \in 1..Len(q) /\ Tail(q)[i] = q[i + 1]
OBVIOUS

\* The first task of a loop is at its place 1.
LEMMA RunsAt ==
    ASSUME TypeOK, NEW l \in Loops, NEW op, NEW c, Runs(l, op, c)
    PROVE  At(l, 1, op, c) /\ queue[l] # <<>> /\ queue[l] \in Seq(Tasks)
BY DEF TypeOK, Runs, At

\* The queues after loop l0 ran its first task, which may have closed c0.
QueuesAfter(l0, c0, closed) ==
    [k \in Loops |->
        IF k = l0 THEN Tail(queue[l0])
        ELSE IF k = Base /\ closed THEN Append(queue[Base], <<"erase", c0>>)
        ELSE queue[k]]

Shifted(l0, c0, closed) ==
    \A l \in Loops, i \in Nat, op \in {"enableRead", "erase"}, c \in Conns :
        At(l, i, op, c)' =>
            \/ l = l0 /\ At(l, i + 1, op, c)
            \/ l # l0 /\ At(l, i, op, c)
            \/ op = "erase" /\ c = c0 /\ closed

\* After a loop ran its first task, every task is an old one, that loop's moved
\* up, or the erase of a closed connection.
LEMMA RanFirst ==
    ASSUME TypeOK, NEW l0 \in Loops, queue[l0] # <<>>, NEW c0 \in Conns, NEW closed \in BOOLEAN,
           queue' = QueuesAfter(l0, c0, closed)
    PROVE  queue' \in [Loops -> Seq(Tasks)] /\ Shifted(l0, c0, closed)
<1> USE DEF QueuesAfter
<1>1. Base \in Loops /\ queue \in [Loops -> Seq(Tasks)] /\ <<"erase", c0>> \in Tasks
  BY NextIsLoop DEF TypeOK, Tasks
<1>2. queue'[l0] = Tail(queue[l0]) /\ queue'[l0] \in Seq(Tasks)
  BY <1>1, TailAt
<1>3. ASSUME NEW l \in Loops, l # l0, ~(l = Base /\ closed)
      PROVE  queue'[l] = queue[l] /\ queue'[l] \in Seq(Tasks)
  BY <1>1, <1>3
<1>4. ASSUME l0 # Base, closed
      PROVE  /\ queue'[Base] = Append(queue[Base], <<"erase", c0>>)
             /\ queue'[Base] \in Seq(Tasks)
  BY <1>1, <1>4
<1>5. queue' \in [Loops -> Seq(Tasks)]
  <2>1. \A l \in Loops : queue'[l] \in Seq(Tasks)
    BY <1>2, <1>3, <1>4
  <2>2. queue' = [l \in Loops |-> queue'[l]]
    OBVIOUS
  <2> QED
    BY <2>1, <2>2
<1>6. ASSUME NEW l \in Loops, NEW i \in Nat, NEW op \in {"enableRead", "erase"}, NEW c \in Conns,
             At(l, i, op, c)'
      PROVE  \/ l = l0 /\ At(l, i + 1, op, c)
             \/ l # l0 /\ At(l, i, op, c)
             \/ op = "erase" /\ c = c0 /\ closed
  <2>1. i \in 1..Len(queue'[l]) /\ queue'[l][i] = <<op, c>>
    BY <1>6 DEF At
  <2>2. CASE l = l0
    BY <1>1, <1>2, <2>1, <2>2, TailAt DEF At
  <2>3. CASE l # l0 /\ ~(l = Base /\ closed)
    BY <1>3, <2>1, <2>3 DEF At
  <2>4. CASE l # l0 /\ l = Base /\ closed
    <3>1. queue[l] \in Seq(Tasks) /\ queue'[l] = Append(queue[l], <<"erase", c0>>)
      BY <1>1, <1>4, <2>4
    <3>2. CASE i = Len(queue[l]) + 1
      BY <2>1, <2>4, <3>1, <3>2
    <3>3. CASE i # Len(queue[l]) + 1
      BY <2>1, <2>4, <3>1, <3>3 DEF At
    <3> QED
      BY <3>2, <3>3
  <2> QED
    BY <2>2, <2>3, <2>4
<1> QED
  BY <1>5, <1>6 DEF Shifted

\* Such a step keeps QueueInv if the connection it changes, if any, was not
\* closed before and has no enableRead() left.
LEMMA ShiftedQueue ==
    ASSUME QueueInv, Loops' = Loops, NEW l0 \in Loops, NEW c0 \in Conns,
           NEW closed \in BOOLEAN, Shifted(l0, c0, closed),
           closed => state'[c0] = "kDisconnected",
           \A d \in Conns : state'[d] # state[d] =>
              /\ state[d] # "kDisconnected"
              /\ \A l \in Loops, i \in Nat : ~At(l, i, "enableRead", d)'
    PROVE  QueueInv'
<1> SUFFICES ASSUME NEW l \in Loops, NEW i \in Nat, NEW c \in Conns
             PROVE  /\ At(l, i, "erase", c)' => state'[c] = "kDisconnected"
                    /\ At(l, i, "enableRead", c)' =>
                          /\ state'[c] = "kConnecting"
                          /\ \A k \in Loops, j \in Nat :
                                At(k, j, "enableRead", c)' => k = l /\ j = i
  BY DEF QueueInv
<1>1. i + 1 \in Nat
  OBVIOUS
<1>2. At(l, i, "erase", c)' => state'[c] = "kDisconnected"
  BY <1>1 DEF QueueInv, Shifted
<1>3. At(l, i, "enableRead", c)' => state'[c] = "kConnecting"
  BY <1>1 DEF QueueInv, Shifted
<1>4. ASSUME At(l, i, "enableRead", c)', NEW k \in Loops, NEW j \in Nat,
             At(k, j, "enableRead", c)'
      PROVE  k = l /\ j = i
  <2>1. \E m \in Nat : At(l, m, "enableRead", c) /\ m = IF l = l0 THEN i + 1 ELSE i
    BY <1>4 DEF Shifted
  <2>2. \E m \in Nat : At(k, m, "enableRead", c) /\ m = IF k = l0 THEN j + 1 ELSE j
    BY <1>4 DEF Shifted
  <2> QED
    BY <1>1, <2>1, <2>2 DEF QueueInv
<1> QED
  BY <1>2, <1>3, <1>4

\* Each action keeps the types and what the queues say, and lets go of no open
\* connection.
LEMMA ServerInvStep == ServerInv /\ [Next]_vars => ServerInv'
<1> SUFFICES ASSUME ServerInv, [Next]_vars PROVE ServerInv'
  OBVIOUS
<1>0. TypeOK /\ QueueInv /\ OneInsert /\ OpenIsHeld
  BY DEF ServerInv
<1>1. ASSUME NEW c \in Conns, AcceptToPool(c) PROVE ServerInv'
  <2>1. /\ state[c] = "none" /\ state' = [state EXCEPT ![c] = "kConnecting"]
        /\ Post(NextLoop, "enableRead", c) /\ inserting = {} /\ inserting' = {c}
        /\ UNCHANGED <<threadNum_, connections_>> /\ threadNum_ > 0
        /\ loopOf' = [loopOf EXCEPT ![c] = NextLoop] /\ nextEventLoop_' = NextIndex
    BY <1>1 DEF AcceptToPool
  <2>2. NextLoop \in Loops /\ Loops' = Loops
    BY <1>0, <2>1, NextIsLoop, LoopsFixed
  <2>3. /\ queue' \in [Loops -> Seq(Tasks)]
        /\ \A l \in Loops, i \in Nat, op \in {"enableRead", "erase"}, d \in Conns :
              At(l, i, op, d)' =>
                  \/ At(l, i, op, d)
                  \/ l = NextLoop /\ i = Len(queue[NextLoop]) + 1 /\ op = "enableRead" /\ d = c
    BY <1>0, <2>1, <2>2, PostAt
  <2>4. nextEventLoop_' \in Nat /\ nextEventLoop_' < threadNum_
    BY <1>0, <2>1 DEF TypeOK, NextIndex
  <2>5. TypeOK'
    BY <1>0, <2>1, <2>2, <2>3, <2>4 DEF TypeOK
  <2>6. \A l \in Loops, i \in Nat : ~At(l, i, "enableRead", c) /\ ~At(l, i, "erase", c)
    BY <1>0, <2>1 DEF QueueInv
  <2>7. \A d \in Conns : state'[d] = IF d = c THEN "kConnecting" ELSE state[d]
    BY <1>0, <2>1 DEF TypeOK
  <2>8. QueueInv'
    BY <1>0, <2>2, <2>3, <2>6, <2>7 DEF QueueInv
  <2>9. OpenIsHeld'
    BY <1>0, <2>1, <2>7 DEF OpenIsHeld
  <2> QED
    BY <2>1, <2>5, <2>8, <2>9 DEF ServerInv, OneInsert
<1>2. ASSUME NEW c \in Conns, AcceptOnBase(c) PROVE ServerInv'
  <2>1. PICK s \in AfterCallback : state' = [state EXCEPT ![c] = s]
    BY <1>2 DEF AcceptOnBase
  <2>2. /\ state[c] = "none" /\ inserting = {} /\ inserting' = {c} /\ threadNum_ = 0
        /\ nextEventLoop_' = 0 /\ UNCHANGED <<threadNum_, queue, connections_, loopOf>>
    BY <1>2 DEF AcceptOnBase, NextIndex
  <2>3. Loops' = Loops /\ \A l, i, op, d : At(l, i, op, d)' <=> At(l, i, op, d)
    BY <2>2, LoopsFixed DEF At
  <2>4. \A d \in Conns : state'[d] = IF d = c THEN s ELSE state[d]
    BY <1>0, <2>1 DEF TypeOK
  <2>5. TypeOK'
    BY <1>0, <2>1, <2>2, <2>3 DEF TypeOK, AfterCallback
  <2>6. QueueInv'
    BY <1>0, <2>2, <2>3, <2>4 DEF QueueInv
  <2>7. OpenIsHeld'
    BY <1>0, <2>2, <2>4 DEF OpenIsHeld
  <2> QED
    BY <2>2, <2>5, <2>6, <2>7 DEF ServerInv, OneInsert
<1>3. ASSUME NEW c \in Conns, Close(c) PROVE ServerInv'
  <2>1. /\ state[c] = "kConnected" /\ state' = [state EXCEPT ![c] = "kDisconnected"]
        /\ UNCHANGED <<threadNum_, inserting, nextEventLoop_, loopOf>>
    BY <1>3 DEF Close
  <2>2. Loops' = Loops /\ Base \in Loops
    BY <1>0, <2>1, LoopsFixed, NextIsLoop
  <2>3. \A d \in Conns : state'[d] = IF d = c THEN "kDisconnected" ELSE state[d]
    BY <1>0, <2>1 DEF TypeOK
  <2>4. /\ queue' \in [Loops -> Seq(Tasks)]
        /\ \A l \in Loops, i \in Nat, op \in {"enableRead", "erase"}, d \in Conns :
              At(l, i, op, d)' => At(l, i, op, d) \/ (op = "erase" /\ d = c)
        /\ connections_' \subseteq connections_ /\ connections_ \ {c} \subseteq connections_'
    <3>1. CASE loopOf[c] = Base
      <4>1. queue' = queue /\ connections_' = connections_ \ {c}
        BY <1>3, <3>1 DEF Close, HandleClose
      <4> QED
        BY <1>0, <4>1 DEF At, TypeOK
    <3>2. CASE loopOf[c] # Base
      <4>1. Post(Base, "erase", c) /\ UNCHANGED connections_
        BY <1>3, <3>2 DEF Close, HandleClose
      <4> QED
        BY <1>0, <2>2, <4>1, PostAt
    <3> QED
      BY <3>1, <3>2
  <2>5. TypeOK'
    BY <1>0, <2>1, <2>2, <2>4 DEF TypeOK
  <2>6. \A l \in Loops, i \in Nat : ~At(l, i, "enableRead", c)
    BY <1>0, <2>1 DEF QueueInv
  <2>7. QueueInv'
    BY <1>0, <2>2, <2>3, <2>4, <2>6 DEF QueueInv
  <2>8. OpenIsHeld'
    BY <1>0, <2>1, <2>3, <2>4 DEF OpenIsHeld
  <2> QED
    BY <1>0, <2>1, <2>5, <2>7, <2>8 DEF ServerInv, OneInsert
<1>4. ASSUME NEW c \in Conns, Insert(c) PROVE ServerInv'
  <2>1. /\ connections_' = connections_ \cup {c} /\ inserting' = {} /\ c \in inserting
        /\ UNCHANGED <<threadNum_, queue, nextEventLoop_, loopOf, state>>
    BY <1>4 DEF Insert
  <2>2. Loops' = Loops /\ \A l, i, op, d : At(l, i, op, d)' <=> At(l, i, op, d)
    BY <2>1, LoopsFixed DEF At
  <2>3. TypeOK'
    BY <1>0, <2>1, <2>2 DEF TypeOK
  <2>4. QueueInv'
    BY <1>0, <2>1, <2>2 DEF QueueInv
  <2>5. OpenIsHeld'
    BY <1>0, <2>1 DEF OpenIsHeld, OneInsert
  <2> QED
    BY <2>1, <2>3, <2>4, <2>5 DEF ServerInv, OneInsert
<1>5. ASSUME NEW c \in Conns, HandleCloseInLoop(c) PROVE ServerInv'
  <2>1. /\ Runs(Base, "erase", c) /\ queue' = [queue EXCEPT ![Base] = Tail(@)]
        /\ connections_' = connections_ \ {c}
        /\ UNCHANGED <<threadNum_, inserting, nextEventLoop_, loopOf, state>>
    BY <1>5 DEF HandleCloseInLoop
  <2>2. Loops' = Loops /\ Base \in Loops
    BY <1>0, <2>1, LoopsFixed, NextIsLoop
  <2>3. At(Base, 1, "erase", c) /\ queue[Base] # <<>> /\ queue[Base] \in Seq(Tasks)
    BY <1>0, <2>1, <2>2, RunsAt
  <2>4. state[c] = "kDisconnected"
    BY <1>0, <2>2, <2>3 DEF QueueInv
  <2>5. queue' = QueuesAfter(Base, c, FALSE)
    BY <1>0, <2>1 DEF TypeOK, QueuesAfter
  <2>6. queue' \in [Loops -> Seq(Tasks)] /\ Shifted(Base, c, FALSE)
    BY <1>0, <2>2, <2>3, <2>5, RanFirst
  <2>7. TypeOK'
    BY <1>0, <2>1, <2>2, <2>6 DEF TypeOK
  <2>8. QueueInv'
    BY <1>0, <2>1, <2>2, <2>6, ShiftedQueue
  <2>9. OpenIsHeld'
    BY <1>0, <2>1, <2>4 DEF OpenIsHeld
  <2> QED
    BY <1>0, <2>1, <2>7, <2>8, <2>9 DEF ServerInv, OneInsert
<1>6. ASSUME NEW c \in Conns, NEW l0 \in PoolLoops, EnableRead(l0, c) PROVE ServerInv'
  <2>1. PICK s \in AfterCallback :
          /\ state' = [state EXCEPT ![c] = s]
          /\ queue' = [k \in Loops |->
                          IF k = l0 THEN Tail(queue[l0])
                          ELSE IF k = Base /\ s = "kDisconnected"
                          THEN Append(queue[Base], <<"erase", c>>)
                          ELSE queue[k]]
    BY <1>6 DEF EnableRead
  <2>2. /\ l0 # Base /\ Runs(l0, "enableRead", c)
        /\ UNCHANGED <<threadNum_, connections_, inserting, nextEventLoop_, loopOf>>
    BY <1>6 DEF EnableRead
  <2>3. Loops' = Loops /\ Base \in Loops /\ l0 \in Loops
    BY <1>0, <2>2, LoopsFixed, NextIsLoop DEF Loops
  <2>4. At(l0, 1, "enableRead", c) /\ queue[l0] # <<>> /\ queue[l0] \in Seq(Tasks)
    BY <1>0, <2>2, <2>3, RunsAt
  <2>5. state[c] = "kConnecting"
    BY <1>0, <2>3, <2>4 DEF QueueInv
  <2>6. \A d \in Conns : state'[d] = IF d = c THEN s ELSE state[d]
    BY <1>0, <2>1 DEF TypeOK
  <2> DEFINE closed == s = "kDisconnected"
  <2>7. queue' \in [Loops -> Seq(Tasks)] /\ Shifted(l0, c, closed)
    <3>1. queue' = QueuesAfter(l0, c, closed) /\ closed \in BOOLEAN
      BY <2>1 DEF QueuesAfter
    <3> HIDE DEF closed
    <3> QED
      BY <1>0, <2>3, <2>4, <3>1, RanFirst
  <2>8. TypeOK'
    BY <1>0, <2>1, <2>2, <2>3, <2>7 DEF TypeOK, AfterCallback
  <2>9. \A l \in Loops, i \in Nat : ~At(l, i, "enableRead", c)'
    <3> SUFFICES ASSUME NEW l \in Loops, NEW i \in Nat, At(l, i, "enableRead", c)'
                 PROVE  FALSE
      OBVIOUS
    <3>1. i \in 1..Len(queue'[l])
      BY DEF At
    <3>2. i > 0 /\ i + 1 \in Nat /\ i + 1 # 1
      BY <2>3, <2>7, <3>1
    <3>3. (l = l0 /\ At(l, i + 1, "enableRead", c)) \/ (l # l0 /\ At(l, i, "enableRead", c))
      BY <2>7 DEF Shifted
    <3> QED
      BY <1>0, <2>3, <2>4, <3>2, <3>3 DEF QueueInv
  <2>10. QueueInv'
    <3>1. closed \in BOOLEAN /\ (closed => state'[c] = "kDisconnected")
      BY <2>6
    <3>2. \A d \in Conns : state'[d] # state[d] =>
             /\ state[d] # "kDisconnected"
             /\ \A l \in Loops, i \in Nat : ~At(l, i, "enableRead", d)'
      BY <2>5, <2>6, <2>9
    <3> HIDE DEF closed
    <3> QED
      BY <1>0, <2>3, <2>7, <3>1, <3>2, ShiftedQueue
  <2>11. OpenIsHeld'
    BY <1>0, <2>2, <2>5, <2>6 DEF OpenIsHeld
  <2> QED
    BY <1>0, <2>2, <2>8, <2>10, <2>11 DEF ServerInv, OneInsert
<1>7. CASE UNCHANGED vars
  <2>1. UNCHANGED <<threadNum_, queue, connections_, inserting, nextEventLoop_, loopOf, state>>
    BY <1>7 DEF vars
  <2>2. Loops' = Loops /\ \A l, i, op, d : At(l, i, op, d)' <=> At(l, i, op, d)
    BY <2>1, LoopsFixed DEF At
  <2>3. TypeOK'
    BY <1>0, <2>1, <2>2 DEF TypeOK
  <2>4. QueueInv'
    BY <1>0, <2>1, <2>2 DEF QueueInv
  <2> QED
    BY <1>0, <2>1, <2>3, <2>4 DEF ServerInv, OneInsert, OpenIsHeld
<1> QED
  BY <1>1, <1>2, <1>3, <1>4, <1>5, <1>6, <1>7 DEF Next, LoopStep

\* The invariant holds in every reachable state of the server.
LEMMA ServerInvariant == Spec => []ServerInv
<1>1. ASSUME Init PROVE ServerInv
  <2>1. \A l \in Loops : queue[l] = <<>> /\ Len(queue[l]) = 0
    BY <1>1 DEF Init
  <2>2. TypeOK
    <3>1. threadNum_ \in Nat
      BY <1>1, PoolSizesAssumption DEF Init
    <3>2. queue \in [Loops -> Seq(Tasks)] /\ Base \in Loops
      BY <1>1 DEF Init, Loops
    <3> QED
      BY <1>1, <3>1, <3>2 DEF Init, TypeOK
  <2>3. QueueInv
    BY <2>1 DEF QueueInv, At
  <2> QED
    BY <1>1, <2>2, <2>3 DEF Init, ServerInv, OneInsert, OpenIsHeld
<1> QED
  BY <1>1, ServerInvStep, PTL DEF Spec

(***************************************************************************)
(* The server holds on to every connection that is not closed, however the *)
(* loops of the pool and the insertion in newConnection() interleave: an   *)
(* erase can only overtake nothing, and enableRead() revives nothing.      *)
(***************************************************************************)
THEOREM OpenConnectionHeld == Spec => []OpenIsHeld
<1>1. ServerInv => OpenIsHeld
  BY DEF ServerInv
<1> QED
  BY <1>1, ServerInvariant, PTL

-----------------------------------------------------------------------------
(***************************************************************************)
(* getNextEventLoop().  RoundRobin alone is not inductive: it allows a     *)
(* loop that is one ahead to be the next one.  DealInv says which loops    *)
(* are ahead.                                                              *)
(***************************************************************************)

\* The index wraps at the size of the pool.
LEMMA NextIndexWraps ==
    ASSUME TypeOK, threadNum_ > 0
    PROVE  NextIndex = IF nextEventLoop_ + 1 = threadNum_ THEN 0 ELSE nextEventLoop_ + 1
<1>1. nextEventLoop_ \in Nat /\ threadNum_ \in Nat /\ nextEventLoop_ < threadNum_
  BY DEF TypeOK
<1> QED
  BY <1>1 DEF NextIndex

\* A step that accepts nothing deals out nothing.
LEMMA DealUnchanged ==
    ASSUME TypeOK, DealInv, UNCHANGED <<threadNum_, nextEventLoop_, loopOf>>,
           \A c \in Conns : state'[c] = "none" <=> state[c] = "none"
    PROVE  DealInv'
<1>1. \A l : Accepted(l)' = Accepted(l)
  BY DEF Accepted
<1>2. PICK rounds \in Nat : DealtOut(rounds)
  BY DEF DealInv
<1>3. DealtOut(rounds)'
  BY <1>1, <1>2, LoopsFixed DEF DealtOut
<1> QED
  BY <1>2, <1>3 DEF DealInv

\* Every action keeps the rounds.
LEMMA DealStep == ServerInv /\ DealInv /\ [Next]_vars => DealInv'
<1> SUFFICES ASSUME ServerInv, DealInv, [Next]_vars PROVE DealInv'
  OBVIOUS
<1>0. TypeOK /\ QueueInv
  BY DEF ServerInv
<1>1. ASSUME NEW c \in Conns, AcceptToPool(c) PROVE DealInv'
  <2>1. /\ state[c] = "none" /\ state' = [state EXCEPT ![c] = "kConnecting"]
        /\ UNCHANGED threadNum_ /\ threadNum_ > 0
        /\ loopOf' = [loopOf EXCEPT ![c] = nextEventLoop_ + 1] /\ nextEventLoop_' = NextIndex
    <3>1. threadNum_ \in Nat /\ threadNum_ > 0
      BY <1>0, <1>1 DEF AcceptToPool, TypeOK
    <3>2. NextLoop = nextEventLoop_ + 1
      BY <3>1 DEF NextLoop
    <3> QED
      BY <1>1, <3>1, <3>2 DEF AcceptToPool
  <2>2. PICK rounds \in Nat : DealtOut(rounds)
    BY DEF DealInv
  <2>3. \A l \in PoolLoops :
           Accepted(l)' = IF l = nextEventLoop_ + 1 THEN Accepted(l) \cup {c} ELSE Accepted(l)
    <3> TAKE l \in PoolLoops
    <3>1. c \notin Accepted(l)
      BY <2>1 DEF Accepted
    <3>2. \A d \in Conns \ {c} : state'[d] = state[d] /\ loopOf'[d] = loopOf[d]
      BY <1>0, <2>1 DEF TypeOK
    <3>3. state'[c] = "kConnecting" /\ loopOf'[c] = nextEventLoop_ + 1
      BY <1>0, <2>1 DEF TypeOK
    <3> QED
      BY <3>1, <3>2, <3>3 DEF Accepted
  <2>4. \A l \in PoolLoops :
           /\ IsFiniteSet(Accepted(l)')
           /\ Cardinality(Accepted(l)') =
                 IF l = nextEventLoop_ + 1 THEN Cardinality(Accepted(l)) + 1
                                           ELSE Cardinality(Accepted(l))
    <3> TAKE l \in PoolLoops
    <3>1. IsFiniteSet(Accepted(l)) /\ c \notin Accepted(l)
      BY <2>1, <2>2 DEF DealtOut, Accepted
    <3> QED
      BY <2>3, <3>1, FS_AddElement
  <2>5. nextEventLoop_ \in Nat /\ threadNum_ \in Nat /\ nextEventLoop_ < threadNum_
    BY <1>0, <2>1 DEF TypeOK
  <2>6. PoolLoops' = PoolLoops
    BY <2>1, LoopsFixed
  <2>7. CASE nextEventLoop_ + 1 = threadNum_
    <3>1. nextEventLoop_' = 0
      BY <1>0, <2>1, <2>7, NextIndexWraps
    <3>2. DealtOut(rounds + 1)'
      <4> SUFFICES ASSUME NEW l \in PoolLoops
                   PROVE  /\ IsFiniteSet(Accepted(l)')
                          /\ Cardinality(Accepted(l)') =
                                IF l <= nextEventLoop_' THEN rounds + 1 + 1 ELSE rounds + 1
        BY <2>6 DEF DealtOut
      <4>1. Cardinality(Accepted(l)) = IF l <= nextEventLoop_ THEN rounds + 1 ELSE rounds
        BY <2>2 DEF DealtOut
      <4>2. l \in 1..threadNum_
        BY DEF PoolLoops
      <4> QED
        BY <2>4, <2>5, <2>7, <3>1, <4>1, <4>2
    <3> QED
      BY <3>2 DEF DealInv
  <2>8. CASE nextEventLoop_ + 1 # threadNum_
    <3>1. nextEventLoop_' = nextEventLoop_ + 1
      BY <1>0, <2>1, <2>8, NextIndexWraps
    <3>2. DealtOut(rounds)'
      <4> SUFFICES ASSUME NEW l \in PoolLoops
                   PROVE  /\ IsFiniteSet(Accepted(l)')
                          /\ Cardinality(Accepted(l)') =
                                IF l <= nextEventLoop_' THEN rounds + 1 ELSE rounds
        BY <2>6 DEF DealtOut
      <4>1. Cardinality(Accepted(l)) = IF l <= nextEventLoop_ THEN rounds + 1 ELSE rounds
        BY <2>2 DEF DealtOut
      <4>2. l \in 1..threadNum_
        BY DEF PoolLoops
      <4> QED
        BY <2>4, <2>5, <2>8, <3>1, <4>1, <4>2
    <3> QED
      BY <3>2 DEF DealInv
  <2> QED
    BY <2>7, <2>8
<1>2. ASSUME NEW c \in Conns, AcceptOnBase(c) PROVE DealInv'
  <2>1. PoolLoops' = {}
    BY <1>2 DEF AcceptOnBase, PoolLoops
  <2> QED
    BY <2>1 DEF DealInv, DealtOut
<1>3. ASSUME NEW c \in Conns, Close(c) PROVE DealInv'
  BY <1>0, <1>3, DealUnchanged DEF Close, TypeOK
<1>4. ASSUME NEW c \in Conns, Insert(c) PROVE DealInv'
  BY <1>0, <1>4, DealUnchanged DEF Insert
<1>5. ASSUME NEW c \in Conns, HandleCloseInLoop(c) PROVE DealInv'
  BY <1>0, <1>5, DealUnchanged DEF HandleCloseInLoop
<1>6. ASSUME NEW c \in Conns, NEW l \in PoolLoops, EnableRead(l, c) PROVE DealInv'
  <2>1. state[c] = "kConnecting"
    <3>1. l \in Loops /\ At(l, 1, "enableRead", c)
      BY <1>0, <1>6, RunsAt DEF EnableRead, Loops
    <3> QED
      BY <1>0, <3>1 DEF QueueInv
  <2>2. \A d \in Conns : state'[d] = "none" <=> state[d] = "none"
    BY <1>0, <1>6, <2>1 DEF EnableRead, AfterCallback, TypeOK
  <2> QED
    BY <1>0, <1>6, <2>2, DealUnchanged DEF EnableRead
<1>7. CASE UNCHANGED vars
  BY <1>0, <1>7, DealUnchanged DEF vars
<1> QED
  BY <1>1, <1>2, <1>3, <1>4, <1>5, <1>6, <1>7 DEF Next, LoopStep

(***************************************************************************)
(* Accepted connections are spread evenly over a pool of any size: no loop *)
(* has got two connections more than another one.                          *)
(***************************************************************************)
THEOREM SpreadEvenly == Spec => []RoundRobin
<1>1. ASSUME Init PROVE DealInv
  <2>1. \A l \in PoolLoops : Accepted(l) = {} /\ ~(l <= nextEventLoop_)
    BY <1>1, PoolSizesAssumption DEF Init, Accepted, PoolLoops
  <2>2. DealtOut(0)
    BY <2>1, FS_EmptySet DEF DealtOut
  <2> QED
    BY <2>2 DEF DealInv
<1>2. DealInv => RoundRobin
  BY DEF DealInv, DealtOut, RoundRobin
<1> QED
  BY <1>1, <1>2, DealStep, ServerInvariant, PTL DEF Spec
=============================================================================

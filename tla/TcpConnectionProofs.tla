------------------------- MODULE TcpConnectionProofs -------------------------
(***************************************************************************)
(* Proofs about TcpConnection for any set of threads and of messages, any  *)
(* size of a message and of a file, and any number of queued tasks.        *)
(***************************************************************************)
EXTENDS TcpConnection, SequenceTheorems, TLAPS

Byte == Messages \X (1..MsgLen)

Frame == {"events", "user", "closing", "sent"}

Call == Task \cup {Idle, Out, <<"store">>}

OutTypeOK ==
    /\ outBuffer_ \in Seq(Byte) /\ wire \in Seq(Byte) /\ stream \in Seq(Byte)
    /\ fileLeft \in Nat
    /\ fin \in BOOLEAN

ConnTypeOK ==
    /\ state_ \in {"kConnecting", "kConnected", "kDisconnecting", "kDisconnected"}
    /\ chState \in {"kNew", "kAdded", "kDeleted"}
    /\ closes \in Nat
    /\ owner \in {"holds", "erasing", "gone"}

LoopTypeOK ==
    /\ stack \in Seq(Frame)
    /\ tasks \in Seq(Task)
    /\ call \in [Threads -> Call]

TypeOK == OutTypeOK /\ ConnTypeOK /\ LoopTypeOK

-----------------------------------------------------------------------------
(***************************************************************************)
(* The life of a connection.  Before enableRead() nobody but its task can  *)
(* reach it; while it is open its channel is registered for EPOLLIN, so    *)
(* handleWrite() never empties events_ and deletes the channel; once       *)
(* closed the channel is deleted for good, and state_ or a pending event   *)
(* can only suggest otherwise through one of the mishaps.                  *)
(***************************************************************************)
NewInv ==
    state_ = "kConnecting" =>
        /\ stack = <<>> /\ tasks = << <<"enableRead">> >>
        /\ \A th \in Threads : call[th] = Out
        /\ closes = 0 /\ events_ = {} /\ chState = "kNew" /\ outBuffer_ = <<>>

NoEnableRead ==
    /\ state_ # "kConnecting" => tasks \in Seq(Task \ {<<"enableRead">>})
    /\ \A th \in Threads : call[th] # <<"enableRead">>

OpenInv ==
    closes = 0 =>
        /\ state_ # "kDisconnected"
        /\ state_ # "kConnecting" => "IN" \in events_ /\ chState = "kAdded"
        /\ outBuffer_ # <<>> => isWriting

ClosedInv ==
    closes > 0 =>
        /\ chState = "kDeleted"
        /\ state_ = "kDisconnected" \/ "stored" \in mishap
        /\ revents \cap {"read", "close"} = {} \/ "stale" \in mishap

OwnerInv ==
    /\ owner # "holds" => closes > 0
    /\ closes = 0 => stack \in Seq(Frame \ {"closing"})

LifeInv == NewInv /\ NoEnableRead /\ OpenInv /\ ClosedInv /\ OwnerInv

-----------------------------------------------------------------------------
(* Sequences of bytes.                                                     *)

\* A message is MsgLen bytes, the first of which names it.
LEMMA BytesOfMessage ==
    ASSUME NEW m \in Messages
    PROVE  /\ Bytes(m) \in Seq(Byte) /\ Len(Bytes(m)) = MsgLen
           /\ 1 \in 1..MsgLen /\ Bytes(m)[1] = <<m, 1>>
<1>1. MsgLen \in Nat /\ MsgLen >= 1
  BY SizesAssumption
<1>2. \A i \in 1..MsgLen : <<m, i>> \in Byte
  BY DEF Byte
<1>3. Bytes(m) \in [1..MsgLen -> Byte]
  BY <1>2 DEF Bytes
<1>4. Bytes(m) \in Seq(Byte) /\ Len(Bytes(m)) = MsgLen
  BY <1>1, <1>3
<1> QED
  BY <1>1, <1>4 DEF Bytes

\* ::write() and ::sendfile() take between nothing and everything.
LEMMA TakesAtMost ==
    ASSUME NEW k \in Nat, NEW n \in Takes(k) PROVE n \in 0..k
BY DEF Takes

\* What was written and what was not make up the whole.
LEMMA SplitAt ==
    ASSUME NEW s \in Seq(Byte), NEW n \in 0..Len(s)
    PROVE  /\ SubSeq(s, 1, n) \in Seq(Byte)
           /\ SubSeq(s, n + 1, Len(s)) \in Seq(Byte)
           /\ SubSeq(s, 1, n) \o SubSeq(s, n + 1, Len(s)) = s
           /\ n = Len(s) => SubSeq(s, 1, n) = s /\ SubSeq(s, n + 1, Len(s)) = <<>>
<1>1. SubSeq(s, 1, n) \in Seq(Byte) /\ SubSeq(s, n + 1, Len(s)) \in Seq(Byte)
  BY SubSeqProperties
<1>2. SubSeq(s, 1, n) \o SubSeq(s, n + 1, Len(s)) = SubSeq(s, 1, Len(s))
  <2>1. 1 \in 1..Len(s)+1 /\ n \in 1-1..Len(s) /\ Len(s) \in n..Len(s)
    OBVIOUS
  <2> QED
    BY <2>1, ConcatAdjacentSubSeq
<1>3. SubSeq(s, 1, Len(s)) = s
  BY SubSeqFull
<1>4. n = Len(s) => SubSeq(s, n + 1, Len(s)) = <<>>
  BY SubSeqEmpty
<1> QED
  BY <1>1, <1>2, <1>3, <1>4

\* Output written now and output kept for later, after what was there before.
LEMMA Regroup ==
    /\ \A w, s, t \in Seq(Byte) : (w \o s) \o t = w \o (s \o t)
    /\ \A w \in Seq(Byte) : w \o <<>> = w /\ <<>> \o w = w
    /\ \A w, s \in Seq(Byte) : w \o s \in Seq(Byte)
<1>1. \A w, s, t \in Seq(Byte) : (w \o s) \o t = w \o (s \o t)
  BY ConcatAssociative
<1>2. \A w \in Seq(Byte) : w \o <<>> = w /\ <<>> \o w = w
  BY ConcatEmptySeq
<1>3. \A w, s \in Seq(Byte) : w \o s \in Seq(Byte)
  BY ConcatProperties
<1> QED
  BY <1>1, <1>2, <1>3

-----------------------------------------------------------------------------
(* What the handlers do to the output.                                     *)

\* sendInLoop() on a closed connection does nothing; on an open one it hands
\* the whole message on, in order, and asks for EPOLLOUT if some of it is left.
LEMMA SendEffect ==
    ASSUME OutTypeOK, StreamIntact, NEW m \in Messages, NEW rest \in Seq(Frame),
           SendInLoop(m, rest)
    PROVE  /\ OutTypeOK' /\ StreamIntact'
           /\ UNCHANGED <<fileLeft, fin>>
           /\ IF AcceptsOutput THEN stream' = stream \o Bytes(m) ELSE UNCHANGED outVars
           /\ \/ UNCHANGED <<events_, chState>>
                   /\ (outBuffer_' = outBuffer_ \/ isWriting)
              \/ ~isWriting /\ SetEvents(events_ \cup {"OUT"})
           /\ stack' \in {rest, <<"user", "sent">> \o rest}
<1>1. CASE ~AcceptsOutput
  BY <1>1 DEF SendInLoop, outVars, OutTypeOK, StreamIntact
<1>2. CASE AcceptsOutput
  <2> DEFINE b == Bytes(m)
  <2>1. b \in Seq(Byte) /\ Len(b) = MsgLen /\ MsgLen \in Nat
    BY BytesOfMessage, SizesAssumption
  <2>2. PICK n \in (IF WritesDirectly THEN Takes(MsgLen) ELSE {0}) :
           /\ stream' = stream \o b
           /\ wire' = wire \o SubSeq(b, 1, n)
           /\ IF n = MsgLen
              THEN stack' = <<"user", "sent">> \o rest /\ UNCHANGED <<outBuffer_, events_, chState>>
              ELSE stack' = rest /\ KeepRest(SubSeq(b, n + 1, MsgLen))
           /\ UNCHANGED <<fileLeft, fin>>
    BY <1>2 DEF SendInLoop
  <2>3. n \in 0..MsgLen /\ (n # 0 => outBuffer_ = <<>>)
    BY <2>1, TakesAtMost DEF WritesDirectly
  <2> HIDE DEF b
  <2>4. /\ SubSeq(b, 1, n) \in Seq(Byte) /\ SubSeq(b, n + 1, MsgLen) \in Seq(Byte)
        /\ SubSeq(b, 1, n) \o SubSeq(b, n + 1, MsgLen) = b
        /\ n = MsgLen => SubSeq(b, 1, n) = b /\ SubSeq(b, n + 1, MsgLen) = <<>>
    BY <2>1, <2>3, SplitAt
  <2>5. n = 0 => SubSeq(b, 1, n) = <<>> /\ SubSeq(b, n + 1, MsgLen) = b
    BY <2>1, SubSeqEmpty, SubSeqFull
  <2>6. wire \in Seq(Byte) /\ outBuffer_ \in Seq(Byte) /\ stream = wire \o outBuffer_
        /\ stream \in Seq(Byte)
    BY DEF OutTypeOK, StreamIntact
  <2>7. outBuffer_' = outBuffer_ \o SubSeq(b, n + 1, MsgLen)
    <3>1. CASE n = MsgLen
      BY <2>2, <2>4, <2>6, <3>1, Regroup
    <3>2. CASE n # MsgLen
      BY <2>2, <3>2 DEF KeepRest
    <3> QED
      BY <3>1, <3>2
  <2>8. StreamIntact'
    <3>1. CASE n = 0
      <4>1. wire' = wire \o <<>> /\ outBuffer_' = outBuffer_ \o b
        BY <2>2, <2>5, <2>7, <3>1
      <4>2. wire' = wire
        BY <2>6, <4>1, Regroup
      <4>3. (wire \o outBuffer_) \o b = wire \o (outBuffer_ \o b)
        BY <2>1, <2>6, Regroup
      <4>4. stream' = (wire \o outBuffer_) \o b
        BY <2>2, <2>6
      <4> QED
        BY <4>1, <4>2, <4>3, <4>4, Zenon DEF StreamIntact
    <3>2. CASE n # 0
      <4> DEFINE x == SubSeq(b, 1, n)  y == SubSeq(b, n + 1, MsgLen)
      <4>0. outBuffer_ = <<>>
        BY <2>3, <3>2
      <4>a. outBuffer_' = outBuffer_ \o y
        BY <2>7
      <4>b. wire' = wire \o x
        BY <2>2
      <4>c. stream' = stream \o b
        BY <2>2
      <4>2. x \in Seq(Byte) /\ y \in Seq(Byte) /\ x \o y = b
        BY <2>4
      <4> HIDE DEF x, y
      <4>1. outBuffer_' = <<>> \o y /\ stream' = (wire \o <<>>) \o b
        BY <2>6, <4>0, <4>a, <4>c, Zenon
      <4>3. <<>> \o y = y /\ wire \o <<>> = wire
        BY <2>6, <4>2, Regroup
      <4>4. (wire \o x) \o y = wire \o (x \o y)
        <5>1. wire \in Seq(Byte) /\ x \in Seq(Byte) /\ y \in Seq(Byte)
          BY <2>6, <4>2
        <5> QED
          BY <5>1, Regroup
      <4> QED
        BY <4>b, <4>1, <4>2, <4>3, <4>4, Zenon DEF StreamIntact
    <3> QED
      BY <3>1, <3>2
  <2>9. OutTypeOK'
    BY <2>1, <2>2, <2>4, <2>6, <2>7, Regroup DEF OutTypeOK
  <2>10. /\ \/ UNCHANGED <<events_, chState>> /\ (outBuffer_' = outBuffer_ \/ isWriting)
            \/ ~isWriting /\ SetEvents(events_ \cup {"OUT"})
         /\ stack' \in {rest, <<"user", "sent">> \o rest}
    BY <2>2 DEF KeepRest
  <2> QED
    BY <1>2, <2>2, <2>8, <2>9, <2>10 DEF b
<1> QED
  BY <1>1, <1>2

\* handleWrite() moves bytes from outBuffer_ to the socket, from the front, and
\* disables EPOLLOUT only when nothing is left.
LEMMA WriteBufferEffect ==
    ASSUME OutTypeOK, StreamIntact, HandleWriteBuffer
    PROVE  /\ OutTypeOK' /\ StreamIntact'
           /\ UNCHANGED <<fileLeft, stream>>
           /\ \/ UNCHANGED <<events_, chState, fin, stack>>
              \/ outBuffer_' = <<>> /\ fileLeft = 0 /\ Drained /\ stack' = <<"user">> \o stack
<1>1. PICK n \in Takes(Len(outBuffer_)) :
        /\ wire' = wire \o SubSeq(outBuffer_, 1, n)
        /\ outBuffer_' = SubSeq(outBuffer_, n + 1, Len(outBuffer_))
        /\ IF n = Len(outBuffer_) /\ fileLeft = 0
           THEN Drained /\ stack' = <<"user">> \o stack
           ELSE UNCHANGED <<events_, chState, fin, stack>>
  BY DEF HandleWriteBuffer
<1>2. UNCHANGED <<fileLeft, stream>>
  BY DEF HandleWriteBuffer
<1>3. wire \in Seq(Byte) /\ outBuffer_ \in Seq(Byte) /\ stream \in Seq(Byte)
      /\ stream = wire \o outBuffer_ /\ fin \in BOOLEAN /\ fileLeft \in Nat
  BY DEF OutTypeOK, StreamIntact
<1>4. n \in 0..Len(outBuffer_)
  <2>1. Len(outBuffer_) \in Nat
    BY <1>3
  <2> QED
    BY <2>1, TakesAtMost
<1> DEFINE x == SubSeq(outBuffer_, 1, n)  y == SubSeq(outBuffer_, n + 1, Len(outBuffer_))
<1>5. x \in Seq(Byte) /\ y \in Seq(Byte) /\ x \o y = outBuffer_
      /\ (n = Len(outBuffer_) => y = <<>>)
  BY <1>3, <1>4, SplitAt
<1>6. wire' = wire \o x /\ outBuffer_' = y
  BY <1>1
<1> HIDE DEF x, y
<1>7. (wire \o x) \o y = wire \o (x \o y) /\ wire \o x \in Seq(Byte)
  <2>1. wire \in Seq(Byte) /\ x \in Seq(Byte) /\ y \in Seq(Byte)
    BY <1>3, <1>5
  <2> QED
    BY <2>1, Regroup
<1>8. StreamIntact'
  BY <1>2, <1>3, <1>5, <1>6, <1>7, Zenon DEF StreamIntact
<1>9. fin' \in BOOLEAN
  BY <1>1, <1>3 DEF Drained
<1>10. OutTypeOK'
  BY <1>2, <1>3, <1>5, <1>6, <1>7, <1>9, Zenon DEF OutTypeOK
<1>11. \/ UNCHANGED <<events_, chState, fin, stack>>
       \/ outBuffer_' = <<>> /\ fileLeft = 0 /\ Drained /\ stack' = <<"user">> \o stack
  BY <1>1, <1>5, <1>6
<1> QED
  BY <1>2, <1>8, <1>10, <1>11

\* The rest of sendInLoop() after writeCompleteCallback_ only asks for EPOLLOUT.
LEMMA ReturnsEffect ==
    ASSUME OutTypeOK, Returns
    PROVE  /\ UNCHANGED outVars
           /\ \/ UNCHANGED <<events_, chState>>
              \/ ~isWriting /\ SetEvents(events_ \cup {"OUT"})
<1>1. outBuffer_ \o <<>> = outBuffer_
  BY Regroup DEF OutTypeOK
<1> QED
  BY <1>1 DEF Returns, KeepRest, outVars

\* A file goes out after outBuffer_, and EPOLLOUT is disabled at its end.
LEMMA WriteFileEffect ==
    ASSUME OutTypeOK, HandleWriteFile
    PROVE  /\ OutTypeOK' /\ UNCHANGED <<outBuffer_, wire, stream>>
           /\ outBuffer_ = <<>>
           /\ \/ UNCHANGED <<events_, chState, fin>>
              \/ fileLeft' = 0 /\ Drained
<1>1. PICK n \in Takes(fileLeft) :
        /\ fileLeft' = fileLeft - n
        /\ IF n = fileLeft THEN Drained ELSE UNCHANGED <<events_, chState, fin>>
  BY DEF HandleWriteFile
<1>2. fileLeft \in Nat
  BY DEF OutTypeOK
<1>3. n \in 0..fileLeft
  BY <1>2, TakesAtMost
<1>4. fileLeft' \in Nat /\ (n = fileLeft => fileLeft' = 0)
  BY <1>1, <1>2, <1>3
<1>5. fin' \in BOOLEAN
  BY <1>1 DEF Drained, OutTypeOK
<1>6. UNCHANGED <<outBuffer_, wire, stream>> /\ outBuffer_ = <<>>
  BY DEF HandleWriteFile
<1>7. OutTypeOK'
  BY <1>4, <1>5, <1>6, Zenon DEF OutTypeOK
<1> QED
  BY <1>1, <1>4, <1>6, <1>7

-----------------------------------------------------------------------------
(* Every step of the connection.                                           *)

\* The task at the head of the queue.
LEMMA RunsTask ==
    ASSUME NEW op, NEW T, T \subseteq Task, tasks \in Seq(T), Runs(op)
    PROVE  /\ tasks' \in Seq(T) /\ Head(tasks) \in T
           /\ op = "send" => Head(tasks) = <<"send", Head(tasks)[2]>> /\ Head(tasks)[2] \in Messages
           /\ op = "enableRead" => Head(tasks) = <<"enableRead">>
           /\ op # "enableRead" => Head(tasks) # <<"enableRead">>
<1>1. tasks' \in Seq(T) /\ Head(tasks) \in T /\ Head(tasks)[1] = op
  BY DEF Runs
<1>2. Head(tasks) \in Task
  BY <1>1
<1>3. ASSUME NEW t \in Task
      PROVE  /\ t[1] = "send" => t = <<"send", t[2]>> /\ t[2] \in Messages
             /\ t[1] = "enableRead" => t = <<"enableRead">>
             /\ t[1] # "enableRead" => t # <<"enableRead">>
  BY DEF Task
<1> QED
  BY <1>1, <1>2, <1>3

\* Frames pushed and popped.
LEMMA Frames ==
    ASSUME NEW F, NEW s \in Seq(F)
    PROVE  /\ s # <<>> => Head(s) \in F /\ Tail(s) \in Seq(F)
           /\ \A x \in F : <<x>> \o s \in Seq(F) /\ <<x>> \in Seq(F)
           /\ \A x, y \in F : <<x, y>> \o s \in Seq(F)
<1>1. s # <<>> => Head(s) \in F /\ Tail(s) \in Seq(F)
  OBVIOUS
<1>2. ASSUME NEW x \in F PROVE <<x>> \o s \in Seq(F) /\ <<x>> \in Seq(F)
  OBVIOUS
<1>3. ASSUME NEW x \in F, NEW y \in F PROVE <<x, y>> \o s \in Seq(F)
  <2>1. <<x, y>> \in Seq(F)
    OBVIOUS
  <2> QED
    BY <2>1, ConcatProperties
<1> QED
  BY <1>1, <1>2, <1>3

\* The output side of every step.
LEMMA OutputStep ==
    ASSUME TypeOK, StreamIntact, [Next]_vars
    PROVE  OutTypeOK' /\ StreamIntact'
<1>0. OutTypeOK /\ tasks \in Seq(Task) /\ stack \in Seq(Frame)
  BY DEF TypeOK, LoopTypeOK
<1>a. UNCHANGED outVars => OutTypeOK' /\ StreamIntact'
  BY <1>0 DEF outVars, OutTypeOK, StreamIntact
<1>1. CASE RunSend
  <2>1. Head(tasks)[2] \in Messages /\ <<>> \in Seq(Frame)
    BY <1>0, <1>1, RunsTask DEF RunSend
  <2> QED
    BY <1>0, <1>1, <2>1, SendEffect DEF RunSend
<1>2. ASSUME NEW m \in Messages, UserSend(m) PROVE OutTypeOK' /\ StreamIntact'
  BY <1>0, <1>2, SendEffect DEF UserSend
<1>3. CASE RunShutdown
  BY <1>0, <1>3 DEF RunShutdown, ShutdownInLoop, OutTypeOK, StreamIntact
<1>4. CASE UserShutdown
  BY <1>0, <1>4 DEF UserShutdown, ShutdownInLoop, OutTypeOK, StreamIntact
<1>5. CASE UserSetSendFd
  BY <1>0, <1>5, SizesAssumption DEF UserSetSendFd, OutTypeOK, StreamIntact
<1>6. CASE HandleWriteBuffer
  BY <1>0, <1>6, WriteBufferEffect
<1>7. CASE HandleWriteFile
  BY <1>0, <1>7, WriteFileEffect DEF StreamIntact
<1>8. CASE Returns
  BY <1>0, <1>8, <1>a, ReturnsEffect
<1>9. CASE EnableRead \/ RunForceClose \/ PollReturns
  BY <1>9, <1>a DEF EnableRead, RunForceClose, PollReturns
<1>10. CASE HangUp \/ HandleError \/ HandleReadData \/ HandleReadError \/ HandleReadEof
            \/ HandleWriteNothing \/ EventsReturn
  BY <1>10, <1>a DEF HangUp, HandleError, HandleReadData, HandleReadError, HandleReadEof,
     HandleWriteNothing, EventsReturn
<1>11. CASE UserForceClose \/ (\E th \in Threads : UserShares(th))
  BY <1>11, <1>a DEF UserForceClose, UserShares
<1>12. ASSUME NEW th \in Threads, ForeignStep(th) PROVE OutTypeOK' /\ StreamIntact'
  BY <1>12, <1>a DEF ForeignStep, ForeignSend, ForeignForceClose, ForeignShutdownTest,
     ForeignShutdownStore, ForeignPost, ForeignRelease, Begins
<1>13. CASE ServerErases \/ PeerStep
  BY <1>13, <1>a DEF ServerErases, PeerStep
<1>14. CASE UNCHANGED vars
  BY <1>14, <1>a DEF vars
<1> QED
  BY <1>1, <1>2, <1>3, <1>4, <1>5, <1>6, <1>7, <1>8, <1>9, <1>10, <1>11, <1>12, <1>13, <1>14
     DEF Next, RunTask, HandleEvents, UserStep

\* Before enableRead() has run only the peer and that task can take a step.
LEMMA StartedFirst ==
    ASSUME TypeOK, LifeInv, Next
    PROVE  /\ EnableRead => state_ = "kConnecting"
           /\ EnableRead \/ PeerStep \/ (state_ # "kConnecting" /\ state_' # "kConnecting")
<1>0. tasks \in Seq(Task) /\ Task \subseteq Task /\ NewInv /\ NoEnableRead
  BY DEF TypeOK, LoopTypeOK, LifeInv
<1>1. ASSUME EnableRead PROVE state_ = "kConnecting"
  <2>1. Runs("enableRead")
    BY <1>1 DEF EnableRead
  <2>2. Head(tasks) = <<"enableRead">> /\ tasks # <<>>
    BY <1>0, <2>1, RunsTask DEF Runs
  <2>3. ASSUME tasks \in Seq(Task \ {<<"enableRead">>}) PROVE FALSE
    <3>1. Head(tasks) \in Task \ {<<"enableRead">>}
      BY <2>2, <2>3
    <3> QED
      BY <2>2, <3>1
  <2> QED
    BY <1>0, <2>3 DEF NoEnableRead
<1>2. ASSUME RunSend \/ RunShutdown \/ RunForceClose
      PROVE  state_ # "kConnecting" /\ state_' # "kConnecting"
  <2>1. PICK op \in {"send", "shutdown", "forceClose"} : Runs(op)
    BY <1>2 DEF RunSend, RunShutdown, RunForceClose
  <2>2. Head(tasks) # <<"enableRead">>
    BY <1>0, <2>1, RunsTask
  <2>3. state_ # "kConnecting"
    BY <1>0, <2>2 DEF NewInv
  <2>4. state_' # "kConnecting"
    BY <1>2, <2>3 DEF RunSend, RunShutdown, RunForceClose, HandleClose, connVars
  <2> QED
    BY <2>3, <2>4
<1>3. ASSUME stack # <<>> /\ (HandleEvents \/ Returns \/ UserStep)
      PROVE  state_ # "kConnecting" /\ state_' # "kConnecting"
  <2>1. state_ # "kConnecting"
    BY <1>0, <1>3 DEF NewInv
  <2>2. state_' # "kConnecting"
    BY <1>3, <2>1 DEF HandleEvents, HangUp, HandleError, HandleReadData, HandleReadError,
       HandleReadEof, EndOfData, HandleClose, HandleWriteBuffer, HandleWriteFile,
       HandleWriteNothing, EventsReturn, Returns, UserStep, UserSend, UserSetSendFd,
       UserShutdown, UserForceClose, UserShares, connVars
  <2> QED
    BY <2>1, <2>2
<1>4. HandleEvents \/ Returns \/ UserStep => stack # <<>>
  BY DEF HandleEvents, HangUp, HandleError, HandleReadData, HandleReadError,
     HandleReadEof, HandleWriteBuffer, HandleWriteFile, HandleWriteNothing, EventsReturn,
     At, Returns, UserStep, UserSend, UserSetSendFd, UserShutdown, UserForceClose,
     UserShares, InUserCode
<1>5. ASSUME PollReturns
      PROVE  state_ # "kConnecting" /\ state_' # "kConnecting"
  BY <1>0, <1>5 DEF PollReturns, NewInv, connVars
<1>6. ASSUME NEW th \in Threads, ForeignStep(th) PROVE state_ # "kConnecting" /\ state_' # "kConnecting"
  <2>1. call[th] # Out
    BY <1>6 DEF ForeignStep, ForeignSend, ForeignForceClose, ForeignShutdownTest,
       ForeignShutdownStore, ForeignPost, ForeignRelease, Begins, Idle, Out, Task
  <2>2. state_ # "kConnecting"
    BY <1>0, <2>1 DEF NewInv
  <2> QED
    BY <1>6, <2>2 DEF ForeignStep, ForeignSend, ForeignForceClose, ForeignShutdownTest,
       ForeignShutdownStore, ForeignPost, ForeignRelease, Begins, connVars
<1>7. ASSUME ServerErases
      PROVE  state_ # "kConnecting" /\ state_' # "kConnecting"
  BY <1>0, <1>7 DEF ServerErases, LifeInv, OwnerInv, NewInv, connVars
<1> QED
  BY <1>1, <1>2, <1>3, <1>4, <1>5, <1>6, <1>7 DEF Next, RunTask

\* The task queue and the calls of other threads: no second enableRead() ever
\* gets there.
LEMMA TasksStep ==
    ASSUME TypeOK, LifeInv, [Next]_vars
    PROVE  tasks' \in Seq(Task) /\ call' \in [Threads -> Call] /\ NoEnableRead'
<1> DEFINE T == Task \ {<<"enableRead">>}
<1>0. tasks \in Seq(Task) /\ call \in [Threads -> Call] /\ NoEnableRead
      /\ (state_ # "kConnecting" => tasks \in Seq(T))
  BY DEF TypeOK, LoopTypeOK, LifeInv, NoEnableRead
<1>1. CASE EnableRead /\ state_ = "kConnecting"
  <2>1. tasks = << <<"enableRead">> >> /\ tasks' = Tail(tasks) /\ call' = call
    BY <1>1 DEF EnableRead, Runs, LifeInv, NewInv, appVars
  <2>2. tasks' = <<>>
    BY <2>1
  <2> QED
    BY <1>0, <2>1, <2>2 DEF NoEnableRead
<1>2. CASE PeerStep
  <2>1. UNCHANGED <<tasks, call, state_>>
    BY <1>2 DEF PeerStep, loopVars, appVars, connVars
  <2> QED
    BY <1>0, <2>1 DEF NoEnableRead
<1>3. CASE Next /\ state_ # "kConnecting" /\ ~EnableRead /\ ~PeerStep
  <2>0. tasks \in Seq(T) /\ T \subseteq Task
    BY <1>0, <1>3
  <2>1. SUFFICES tasks' \in Seq(T) /\ call' \in [Threads -> Call]
                 /\ \A th \in Threads : call'[th] # <<"enableRead">>
    <3>1. tasks' \in Seq(T) => tasks' \in Seq(Task)
      OBVIOUS
    <3> QED
      BY <3>1 DEF NoEnableRead
  <2>a. UNCHANGED call => call' \in [Threads -> Call] /\ \A th \in Threads : call'[th] # <<"enableRead">>
    BY <1>0 DEF NoEnableRead
  <2>b. ASSUME NEW th \in Threads, NEW c \in Call, c # <<"enableRead">>,
               call' = [call EXCEPT ![th] = c]
        PROVE  call' \in [Threads -> Call] /\ \A q \in Threads : call'[q] # <<"enableRead">>
    BY <1>0, <2>b DEF NoEnableRead
  <2>2. CASE RunSend \/ RunShutdown \/ RunForceClose
    <3>1. (\E op \in {"send", "shutdown", "forceClose"} : Runs(op)) /\ UNCHANGED call
      BY <2>2 DEF RunSend, RunShutdown, RunForceClose, appVars
    <3>2. tasks' \in Seq(T)
      BY <2>0, <3>1, RunsTask
    <3> QED
      BY <2>a, <3>1, <3>2
  <2>3. CASE PollReturns \/ HandleEvents \/ Returns
    <3>1. UNCHANGED <<tasks, call>>
      BY <2>3 DEF PollReturns, HandleEvents, HangUp, HandleError, HandleReadData,
         HandleReadError, HandleReadEof, HandleWriteBuffer, HandleWriteFile,
         HandleWriteNothing, EventsReturn, Returns, appVars
    <3> QED
      BY <2>0, <2>a, <3>1
  <2>4. CASE \/ \E m \in Messages : UserSend(m)
             \/ UserSetSendFd \/ UserShutdown \/ UserForceClose \/ ServerErases
    <3>1. UNCHANGED <<tasks, call>>
      BY <2>4 DEF UserSend, UserSetSendFd, UserShutdown, UserForceClose, ServerErases,
         appVars, loopVars
    <3> QED
      BY <2>0, <2>a, <3>1
  <2>5. ASSUME NEW th \in Threads, UserShares(th) \/ ForeignRelease(th)
        PROVE tasks' \in Seq(T) /\ call' \in [Threads -> Call]
              /\ \A q \in Threads : call'[q] # <<"enableRead">>
    <3>1. UNCHANGED tasks /\ \E c \in {Idle, Out} : call' = [call EXCEPT ![th] = c]
      BY <2>5 DEF UserShares, ForeignRelease, loopVars
    <3>2. Idle \in Call /\ Idle # <<"enableRead">> /\ Out \in Call /\ Out # <<"enableRead">>
      BY DEF Call, Idle, Out
    <3> QED
      BY <2>0, <2>b, <3>1, <3>2
  <2>6. ASSUME NEW th \in Threads, ForeignStep(th), ~ForeignRelease(th)
        PROVE tasks' \in Seq(T) /\ call' \in [Threads -> Call]
              /\ \A q \in Threads : call'[q] # <<"enableRead">>
    <3>1. CASE ForeignPost(th)
      <4>1. call[th] \in T
        BY <1>0, <3>1 DEF ForeignPost, NoEnableRead
      <4>2. tasks' = Append(tasks, call[th]) /\ call' = [call EXCEPT ![th] = Idle]
        BY <3>1 DEF ForeignPost
      <4>3. tasks' \in Seq(T)
        BY <2>0, <4>1, <4>2, AppendProperties
      <4>4. Idle \in Call /\ Idle # <<"enableRead">>
        BY DEF Call, Idle
      <4> QED
        BY <2>b, <4>2, <4>3, <4>4
    <3>2. CASE ForeignShutdownStore(th) \/ ForeignForceClose(th) \/ ForeignShutdownTest(th)
      <4>1. UNCHANGED tasks /\ \E c \in {<<"shutdown">>, <<"forceClose">>, <<"store">>} :
                call' = [call EXCEPT ![th] = c]
        BY <3>2 DEF ForeignShutdownStore, ForeignForceClose, ForeignShutdownTest, Begins, loopVars
      <4>2. \A c \in {<<"shutdown">>, <<"forceClose">>, <<"store">>} :
              c \in Call /\ c # <<"enableRead">>
        BY DEF Call, Task
      <4> QED
        BY <2>0, <2>b, <4>1, <4>2
    <3>3. ASSUME NEW m \in Messages, ForeignSend(th, m)
          PROVE tasks' \in Seq(T) /\ call' \in [Threads -> Call]
                /\ \A q \in Threads : call'[q] # <<"enableRead">>
      <4>1. UNCHANGED tasks /\ call' = [call EXCEPT ![th] = <<"send", m>>]
        BY <3>3 DEF ForeignSend, Begins, loopVars
      <4>2. <<"send", m>> \in Call /\ <<"send", m>> # <<"enableRead">>
        BY DEF Call, Task
      <4> QED
        BY <2>0, <2>b, <4>1, <4>2
    <3> QED
      BY <2>6, <3>1, <3>2, <3>3 DEF ForeignStep
  <2> QED
    BY <1>3, <2>2, <2>3, <2>4, <2>5, <2>6 DEF Next, RunTask, UserStep
<1>4. CASE UNCHANGED vars
  <2>1. UNCHANGED <<tasks, call, state_>>
    BY <1>4 DEF vars, loopVars, appVars, connVars
  <2> QED
    BY <1>0, <2>1 DEF NoEnableRead
<1> QED
  BY <1>1, <1>2, <1>3, <1>4, StartedFirst

\* handleClose() on a connection that was opened leaves it closed for good.
LEMMA CloseEffect ==
    ASSUME TypeOK, LifeInv, state_ # "kConnecting", NEW rest \in Seq(Frame), HandleClose(rest)
    PROVE  /\ closes' \in Nat /\ closes' > 0
           /\ stack' \in Seq(Frame)
           /\ state_' = "kDisconnected" /\ chState' = "kDeleted"
           /\ revents' \cap {"read", "close"} = {} \/ "stale" \in mishap'
<1>1. closes' \in Nat /\ closes' > 0
  BY DEF HandleClose, TypeOK, ConnTypeOK
<1>2. stack' \in Seq(Frame)
  <2>1. "user" \in Frame /\ "closing" \in Frame
    BY DEF Frame
  <2> QED
    BY <2>1, Frames DEF HandleClose
<1>3. chState # "kNew"
  <2>1. closes \in Nat
    BY DEF TypeOK, ConnTypeOK
  <2>2. CASE closes = 0
    BY <2>2 DEF LifeInv, OpenInv
  <2>3. CASE closes > 0
    BY <2>3 DEF LifeInv, ClosedInv
  <2> QED
    BY <2>1, <2>2, <2>3
<1>4. state_' = "kDisconnected" /\ chState' = "kDeleted"
  BY <1>3 DEF HandleClose, SetEvents
<1>5. revents' \cap {"read", "close"} = {} \/ "stale" \in mishap'
  BY DEF HandleClose
<1> QED
  BY <1>1, <1>2, <1>4, <1>5

Closes == \E rest \in Seq(Frame) : HandleClose(rest)

\* The steps in which handleClose() runs, and what they know when it does.
LEMMA WhoCloses ==
    ASSUME TypeOK, [Next]_vars, closes' # closes
    PROVE  /\ Closes /\ UNCHANGED outVars /\ UNCHANGED appVars
           /\ \/ Runs("forceClose") /\ state_ # "kDisconnected" /\ UNCHANGED revents
              \/ stack # <<>> /\ state_ # "kDisconnected" /\ UNCHANGED revents
              \/ At("close") \/ At("read")
<1>0. stack \in Seq(Frame) /\ <<>> \in Seq(Frame)
  BY DEF TypeOK, LoopTypeOK
<1>1. CASE EnableRead \/ RunSend \/ RunShutdown
  BY <1>1 DEF EnableRead, RunSend, RunShutdown, connVars
<1>2. CASE RunForceClose
  BY <1>0, <1>2 DEF RunForceClose, StillOpen, connVars, Closes
<1>3. CASE HangUp \/ HandleReadEof
  BY <1>0, <1>3 DEF HangUp, HandleReadEof, EndOfData, Closes
<1>4. CASE UserForceClose
  BY <1>0, <1>4 DEF UserForceClose, InUserCode, Closes
<1>5. CASE PollReturns \/ HandleError \/ HandleReadData \/ HandleReadError \/ HandleWriteBuffer
           \/ HandleWriteFile \/ HandleWriteNothing \/ EventsReturn \/ Returns
  BY <1>5 DEF PollReturns, HandleError, HandleReadData, HandleReadError, HandleWriteBuffer,
     HandleWriteFile, HandleWriteNothing, EventsReturn, Returns, connVars
<1>6. CASE \/ \E m \in Messages : UserSend(m)
           \/ UserSetSendFd \/ UserShutdown \/ (\E th \in Threads : UserShares(th))
  BY <1>6 DEF UserSend, UserSetSendFd, UserShutdown, UserShares, connVars
<1>7. CASE \E th \in Threads : ForeignStep(th)
  BY <1>7 DEF ForeignStep, ForeignSend, ForeignForceClose, ForeignShutdownTest,
     ForeignShutdownStore, ForeignPost, ForeignRelease, Begins, connVars
<1>8. CASE ServerErases \/ PeerStep \/ UNCHANGED vars
  BY <1>8 DEF ServerErases, PeerStep, vars, connVars
<1> QED
  BY <1>1, <1>2, <1>3, <1>4, <1>5, <1>6, <1>7, <1>8
     DEF Next, RunTask, HandleEvents, UserStep

\* The frames of the loop thread and the server's entry: closeCallback_ is
\* called by handleClose() only.
LEMMA StackStep ==
    ASSUME TypeOK, StreamIntact, LifeInv, [Next]_vars
    PROVE  /\ stack' \in Seq(Frame) /\ OwnerInv'
           /\ closes' \in Nat /\ owner' \in {"holds", "erasing", "gone"}
<1> DEFINE F == IF closes = 0 THEN Frame \ {"closing"} ELSE Frame
<1>0. /\ closes \in Nat /\ owner \in {"holds", "erasing", "gone"} /\ OutTypeOK
      /\ owner # "holds" => closes > 0
      /\ stack \in Seq(Frame) /\ stack \in Seq(F)
      /\ {"user", "events", "sent"} \subseteq F
      /\ "closing" \in F => closes > 0
  BY DEF TypeOK, ConnTypeOK, LoopTypeOK, LifeInv, OwnerInv, Frame
<1>1. CASE closes' # closes
  <2>1. Closes /\ UNCHANGED appVars
    BY <1>1, WhoCloses
  <2>2. state_ # "kConnecting"
    <3>1. CASE EnableRead \/ PeerStep
      BY <1>1, <3>1 DEF EnableRead, PeerStep, connVars
    <3>2. CASE UNCHANGED vars
      BY <1>1, <3>2 DEF vars, connVars
    <3> QED
      BY <3>1, <3>2, StartedFirst
  <2>3. closes' \in Nat /\ closes' > 0 /\ stack' \in Seq(Frame)
    BY <2>1, <2>2, CloseEffect DEF Closes
  <2> QED
    BY <1>0, <2>1, <2>3 DEF OwnerInv, appVars
<1>2. CASE closes' = closes
  <2>1. SUFFICES /\ stack' \in Seq(F)
                 /\ owner' \in {"holds", "erasing", "gone"}
                 /\ owner' # "holds" => closes > 0
    <3>1. stack' \in Seq(F) => stack' \in Seq(Frame)
      OBVIOUS
    <3> QED
      BY <1>0, <1>2, <2>1, <3>1 DEF OwnerInv
  <2>a. UNCHANGED owner => /\ owner' \in {"holds", "erasing", "gone"}
                           /\ owner' # "holds" => closes > 0
    BY <1>0
  <2> HIDE DEF F
  <2>b. <<>> \in Seq(F) /\ <<"user">> \in Seq(F) /\ <<"events">> \in Seq(F)
        /\ <<"user", "events">> \in Seq(F)
    <3>1. "user" \in F /\ "events" \in F
      BY <1>0
    <3> QED
      BY <3>1
  <2>c. <<"user">> \o stack \in Seq(F)
        /\ (\A s \in Seq(F) : <<"user", "sent">> \o s \in Seq(F))
    BY <1>0, Frames
  <2>2. CASE EnableRead
    BY <2>2, <2>a, <2>b DEF EnableRead, appVars
  <2>3. CASE RunSend
    <3>1. Head(tasks)[2] \in Messages /\ <<>> \in Seq(Frame) /\ UNCHANGED owner
      BY <1>0, <2>3, RunsTask DEF RunSend, TypeOK, LoopTypeOK, appVars
    <3>2. stack' \in {<<>>, <<"user", "sent">> \o <<>>}
      BY <1>0, <2>3, <3>1, SendEffect DEF RunSend
    <3> QED
      BY <2>a, <2>b, <2>c, <3>1, <3>2
  <2>4. ASSUME NEW m \in Messages, UserSend(m)
        PROVE stack' \in Seq(F) /\ UNCHANGED owner
    <3>1. stack' \in {stack, <<"user", "sent">> \o stack}
      BY <1>0, <2>4, SendEffect DEF UserSend
    <3> QED
      BY <1>0, <2>4, <2>c, <3>1 DEF UserSend
  <2>5. CASE RunShutdown \/ RunForceClose
    <3>1. UNCHANGED <<stack, owner>>
      BY <1>0, <1>2, <2>5 DEF RunShutdown, RunForceClose, HandleClose, appVars
    <3> QED
      BY <1>0, <2>a, <3>1
  <2>6. CASE PollReturns \/ EventsReturn \/ HandleReadData
    <3>1. stack' \in {<<"events">>, <<"user", "events">>, <<>>, <<"user">> \o stack}
          /\ UNCHANGED owner
      BY <2>6 DEF PollReturns, EventsReturn, HandleReadData, appVars
    <3> QED
      BY <2>a, <2>b, <2>c, <3>1
  <2>7. CASE HandleWriteBuffer
    <3>1. stack' \in {stack, <<"user">> \o stack} /\ UNCHANGED owner
      BY <1>0, <2>7, WriteBufferEffect DEF HandleWriteBuffer, appVars
    <3> QED
      BY <1>0, <2>a, <2>c, <3>1
  <2>8. CASE HandleError \/ HandleReadError \/ HandleWriteFile \/ HandleWriteNothing
    <3>1. UNCHANGED <<stack, owner>>
      BY <2>8 DEF HandleError, HandleReadError, HandleWriteFile, HandleWriteNothing, appVars
    <3> QED
      BY <1>0, <2>a, <3>1
  <2>9. HangUp \/ HandleReadEof \/ UserForceClose => FALSE
    BY <1>0, <1>2 DEF HangUp, HandleReadEof, EndOfData, UserForceClose, HandleClose
  <2>10. CASE Returns
    <3>1. stack # <<>> /\ stack' = Tail(stack)
          /\ IF Head(stack) = "closing" THEN CloseCallback ELSE UNCHANGED owner
      BY <2>10 DEF Returns
    <3>2. Head(stack) \in F /\ stack' \in Seq(F)
      BY <1>0, <3>1, Frames
    <3>3. CASE Head(stack) = "closing"
      BY <1>0, <3>1, <3>2, <3>3 DEF CloseCallback
    <3>4. CASE Head(stack) # "closing"
      BY <2>a, <3>1, <3>2, <3>4
    <3> QED
      BY <3>3, <3>4
  <2>11. CASE \/ UserSetSendFd \/ UserShutdown \/ (\E th \in Threads : UserShares(th))
              \/ (\E th \in Threads : ForeignStep(th)) \/ PeerStep \/ UNCHANGED vars
    <3>1. UNCHANGED <<stack, owner>>
      BY <2>11 DEF UserSetSendFd, UserShutdown, UserShares, ForeignStep, ForeignSend,
         ForeignForceClose, ForeignShutdownTest, ForeignShutdownStore, ForeignPost,
         ForeignRelease, Begins, PeerStep, vars, loopVars, appVars
    <3> QED
      BY <1>0, <2>a, <3>1
  <2>12. CASE ServerErases
    BY <1>0, <2>12 DEF ServerErases, loopVars
  <2> QED
    BY <2>2, <2>3, <2>4, <2>5, <2>6, <2>7, <2>8, <2>9, <2>10, <2>11, <2>12, <2>a
       DEF Next, RunTask, HandleEvents, UserStep
<1> QED
  BY <1>1, <1>2

\* An open connection stays registered for EPOLLIN, and for EPOLLOUT while
\* output is buffered; a closed one never gets back into epoll.
LEMMA ConnStep ==
    ASSUME TypeOK, StreamIntact, LifeInv, [Next]_vars
    PROVE  /\ state_' \in {"kConnecting", "kConnected", "kDisconnecting", "kDisconnected"}
           /\ chState' \in {"kNew", "kAdded", "kDeleted"}
           /\ NewInv' /\ OpenInv' /\ ClosedInv'
<1> DEFINE S == {"kConnecting", "kConnected", "kDisconnecting", "kDisconnected"}
           C == {"kNew", "kAdded", "kDeleted"}
<1>0. /\ state_ \in S /\ chState \in C /\ closes \in Nat
      /\ OutTypeOK /\ NewInv /\ OpenInv /\ ClosedInv
      /\ stack \in Seq(Frame) /\ tasks \in Seq(Task)
  BY DEF TypeOK, ConnTypeOK, LoopTypeOK, LifeInv
<1>a. closes' \in Nat
  BY StackStep
<1>1. CASE UNCHANGED <<connVars, outVars, loopVars, appVars>>
  BY <1>0, <1>1 DEF connVars, outVars, loopVars, appVars, NewInv, OpenInv, ClosedInv, isWriting
<1>2. CASE EnableRead
  <2>1. state_ = "kConnecting"
    BY <1>2, StartedFirst DEF EnableRead, Next, RunTask
  <2>2. closes = 0 /\ events_ = {} /\ chState = "kNew" /\ outBuffer_ = <<>>
    BY <1>0, <2>1 DEF NewInv
  <2>3. /\ state_' = "kConnected" /\ closes' = 0 /\ "IN" \in events_' /\ chState' = "kAdded"
        /\ outBuffer_' = <<>>
    BY <1>2, <2>2 DEF EnableRead, SetEvents, outVars
  <2> QED
    BY <2>3 DEF NewInv, OpenInv, ClosedInv
<1>3. CASE Next /\ state_ # "kConnecting" /\ state_' # "kConnecting" /\ closes' # closes
  <2>1. Closes
    BY <1>3, WhoCloses
  <2>2. /\ state_' = "kDisconnected" /\ chState' = "kDeleted" /\ closes' > 0
        /\ revents' \cap {"read", "close"} = {} \/ "stale" \in mishap'
    BY <1>3, <2>1, CloseEffect DEF Closes
  <2> QED
    BY <1>a, <2>2 DEF NewInv, OpenInv, ClosedInv
<1>4. CASE Next /\ state_ # "kConnecting" /\ state_' # "kConnecting" /\ closes' = closes
  <2>a. NewInv'
    BY <1>4 DEF NewInv
  <2>b. /\ closes = 0 => /\ state_ # "kDisconnected" /\ "IN" \in events_ /\ chState = "kAdded"
                         /\ outBuffer_ # <<>> => isWriting
        /\ closes > 0 => /\ chState = "kDeleted"
                         /\ state_ = "kDisconnected" \/ "stored" \in mishap
                         /\ revents \cap {"read", "close"} = {} \/ "stale" \in mishap
    BY <1>0, <1>4 DEF OpenInv, ClosedInv
  <2>c. ASSUME UNCHANGED connVars, UNCHANGED outBuffer_, closes = 0 \/ revents' \subseteq revents
        PROVE  state_' \in S /\ chState' \in C /\ OpenInv' /\ ClosedInv'
    BY <1>0, <1>4, <2>b, <2>c DEF connVars, OpenInv, ClosedInv, isWriting
  <2>d. ASSUME UNCHANGED <<state_, mishap, revents>>,
               \/ UNCHANGED <<events_, chState>> /\ (outBuffer_' = outBuffer_ \/ isWriting)
               \/ ~isWriting /\ SetEvents(events_ \cup {"OUT"})
        PROVE  state_' \in S /\ chState' \in C /\ OpenInv' /\ ClosedInv'
    <3>1. CASE UNCHANGED <<events_, chState>> /\ (outBuffer_' = outBuffer_ \/ isWriting)
      BY <1>0, <1>4, <2>b, <2>d, <3>1 DEF OpenInv, ClosedInv, isWriting
    <3>2. CASE SetEvents(events_ \cup {"OUT"})
      BY <1>0, <1>4, <2>b, <2>d, <3>2 DEF OpenInv, ClosedInv, isWriting, SetEvents
    <3> QED
      BY <2>d, <3>1, <3>2
  <2>e. ASSUME UNCHANGED <<state_, mishap>>, revents' \subseteq revents, outBuffer_' = <<>>, Drained
        PROVE  state_' \in S /\ chState' \in C /\ OpenInv' /\ ClosedInv'
    BY <1>0, <1>4, <2>b, <2>e DEF OpenInv, ClosedInv, isWriting, SetEvents, Drained
  <2>1. CASE RunSend
    <3>1. Head(tasks)[2] \in Messages /\ <<>> \in Seq(Frame)
      BY <1>0, <2>1, RunsTask DEF RunSend
    <3> QED
      BY <1>0, <2>1, <2>a, <2>d, <3>1, SendEffect DEF RunSend
  <2>2. ASSUME NEW m \in Messages, UserSend(m)
        PROVE  state_' \in S /\ chState' \in C /\ OpenInv' /\ ClosedInv'
    BY <1>0, <2>2, <2>d, SendEffect DEF UserSend
  <2>3. CASE Returns
    <3>1. UNCHANGED <<state_, mishap, revents>>
      BY <2>3 DEF Returns
    <3>2. outBuffer_' = outBuffer_
      BY <1>0, <2>3, ReturnsEffect DEF outVars
    <3> QED
      BY <1>0, <2>3, <2>a, <2>d, <3>1, <3>2, ReturnsEffect
  <2>4. CASE HandleWriteBuffer
    <3>1. UNCHANGED <<state_, closes, mishap>> /\ revents' \subseteq revents /\ isWriting
      BY <2>4 DEF HandleWriteBuffer, At
    <3>2. CASE UNCHANGED <<events_, chState, fin, stack>>
      BY <1>0, <1>4, <2>a, <2>b, <3>1, <3>2 DEF OpenInv, ClosedInv, isWriting
    <3> QED
      BY <1>0, <2>4, <2>a, <2>e, <3>1, <3>2, WriteBufferEffect
  <2>5. CASE HandleWriteFile
    <3>1. UNCHANGED <<state_, closes, mishap>> /\ revents' \subseteq revents /\ isWriting
      BY <2>5 DEF HandleWriteFile, At
    <3>2. outBuffer_ = <<>> /\ outBuffer_' = <<>>
      BY <1>0, <2>5, WriteFileEffect
    <3>3. CASE UNCHANGED <<events_, chState, fin>>
      BY <1>0, <1>4, <2>a, <2>b, <3>1, <3>2, <3>3 DEF OpenInv, ClosedInv, isWriting
    <3> QED
      BY <1>0, <2>5, <2>a, <2>e, <3>1, <3>2, <3>3, WriteFileEffect
  <2>6. CASE UserShutdown
    BY <1>0, <1>4, <2>6, <2>a, <2>b
       DEF UserShutdown, MayShutdown, loopVars, OpenInv, ClosedInv, isWriting
  <2>7. ASSUME NEW th \in Threads, ForeignShutdownStore(th)
        PROVE  state_' \in S /\ chState' \in C /\ OpenInv' /\ ClosedInv'
    BY <1>0, <1>4, <2>7, <2>b
       DEF ForeignShutdownStore, loopVars, outVars, OpenInv, ClosedInv, isWriting
  <2>8. CASE RunShutdown \/ RunForceClose
    <3>1. UNCHANGED connVars /\ UNCHANGED outBuffer_ /\ UNCHANGED revents
      BY <1>0, <1>4, <2>8 DEF RunShutdown, RunForceClose, HandleClose, outVars
    <3> QED
      BY <2>a, <2>c, <3>1
  <2>9. CASE PollReturns
    <3>1. UNCHANGED connVars /\ UNCHANGED outBuffer_ /\ closes = 0
      BY <1>0, <2>9, <2>b DEF PollReturns, outVars
    <3> QED
      BY <2>a, <2>c, <3>1
  <2>10. CASE HandleError \/ HandleReadData \/ HandleReadError \/ HandleWriteNothing \/ EventsReturn
    <3>1. UNCHANGED connVars /\ UNCHANGED outBuffer_ /\ revents' \subseteq revents
      BY <2>10 DEF HandleError, HandleReadData, HandleReadError, HandleWriteNothing,
         EventsReturn, At, outVars
    <3> QED
      BY <2>a, <2>c, <3>1
  <2>11. HangUp \/ HandleReadEof \/ UserForceClose => FALSE
    BY <1>0, <1>4 DEF HangUp, HandleReadEof, EndOfData, UserForceClose, HandleClose
  <2>12. CASE UserSetSendFd \/ (\E th \in Threads : UserShares(th)) \/ ServerErases \/ PeerStep
    <3>1. UNCHANGED connVars /\ UNCHANGED outBuffer_ /\ UNCHANGED revents
      BY <2>12 DEF UserSetSendFd, UserShares, ServerErases, PeerStep, loopVars, outVars
    <3> QED
      BY <2>a, <2>c, <3>1
  <2>13. ASSUME NEW th \in Threads, ForeignStep(th), ~ForeignShutdownStore(th)
         PROVE  state_' \in S /\ chState' \in C /\ OpenInv' /\ ClosedInv'
    <3>1. UNCHANGED connVars /\ UNCHANGED outBuffer_ /\ UNCHANGED revents
      BY <2>13 DEF ForeignStep, ForeignSend, ForeignForceClose, ForeignShutdownTest,
         ForeignPost, ForeignRelease, Begins, loopVars, outVars
    <3> QED
      BY <2>c, <3>1
  <2>14. ~EnableRead
    BY <1>4, StartedFirst
  <2> QED
    BY <1>4, <2>a, <2>1, <2>2, <2>3, <2>4, <2>5, <2>6, <2>7, <2>8, <2>9, <2>10, <2>11, <2>12,
       <2>13, <2>14 DEF Next, RunTask, HandleEvents, UserStep
<1>5. CASE PeerStep
  BY <1>1, <1>5 DEF PeerStep
<1>6. CASE UNCHANGED vars
  BY <1>1, <1>6 DEF vars
<1> QED
  BY <1>2, <1>3, <1>4, <1>5, <1>6, StartedFirst

-----------------------------------------------------------------------------
(* The inductive invariant.                                                *)

ConnInv == TypeOK /\ StreamIntact /\ LifeInv

\* A connection as TcpServer::newConnection() leaves it.
LEMMA ConnInvInit == Init => ConnInv
<1> SUFFICES ASSUME Init PROVE ConnInv
  OBVIOUS
<1>1. <<"enableRead">> \in Task
  BY DEF Task
<1>2. OutTypeOK /\ StreamIntact
  <2>1. <<>> \in Seq(Byte)
    OBVIOUS
  <2>2. wire = <<>> /\ outBuffer_ = <<>> /\ stream = <<>> /\ fileLeft = 0 /\ fin = FALSE
    BY DEF Init
  <2>3. <<>> \o <<>> = <<>>
    BY <2>1, Regroup
  <2>4. StreamIntact
    BY <2>2, <2>3, Zenon DEF StreamIntact
  <2>5. 0 \in Nat
    OBVIOUS
  <2> QED
    BY <2>1, <2>2, <2>4, <2>5, Zenon DEF OutTypeOK
<1>3. ConnTypeOK
  BY DEF Init, ConnTypeOK
<1>4. LoopTypeOK
  <2>1. stack \in Seq(Frame)
    BY DEF Init
  <2>2. tasks \in Seq(Task)
    BY <1>1 DEF Init
  <2>3. call \in [Threads -> Call]
    BY DEF Init, Call
  <2> QED
    BY <2>1, <2>2, <2>3 DEF LoopTypeOK
<1>5. NewInv /\ OpenInv /\ ClosedInv /\ OwnerInv
  BY DEF Init, NewInv, OpenInv, ClosedInv, OwnerInv
<1>6. NoEnableRead
  BY DEF Init, NoEnableRead, Out
<1> QED
  BY <1>2, <1>3, <1>4, <1>5, <1>6 DEF ConnInv, TypeOK, LifeInv

\* No step of the loop, of another thread or of the peer breaks it.
LEMMA ConnInvStep == ConnInv /\ [Next]_vars => ConnInv'
<1> SUFFICES ASSUME TypeOK, StreamIntact, LifeInv, [Next]_vars PROVE ConnInv'
  BY DEF ConnInv
<1>1. OutTypeOK' /\ StreamIntact'
  BY OutputStep
<1>2. tasks' \in Seq(Task) /\ call' \in [Threads -> Call] /\ NoEnableRead'
  BY TasksStep
<1>3. /\ stack' \in Seq(Frame) /\ OwnerInv'
      /\ closes' \in Nat /\ owner' \in {"holds", "erasing", "gone"}
  BY StackStep
<1>4. /\ state_' \in {"kConnecting", "kConnected", "kDisconnecting", "kDisconnected"}
      /\ chState' \in {"kNew", "kAdded", "kDeleted"}
      /\ NewInv' /\ OpenInv' /\ ClosedInv'
  BY ConnStep
<1>5. ConnTypeOK' /\ LoopTypeOK'
  BY <1>2, <1>3, <1>4 DEF ConnTypeOK, LoopTypeOK
<1> QED
  BY <1>1, <1>2, <1>3, <1>4, <1>5 DEF ConnInv, TypeOK, LifeInv

\* ConnInv holds in every reachable state.
LEMMA ConnInvHolds == Spec => []ConnInv
BY ConnInvInit, ConnInvStep, PTL DEF Spec

-----------------------------------------------------------------------------
(* The properties.                                                         *)

\* However the writes of send(), of writeCompleteCallback_ and of handleWrite()
\* interleave and however little the socket takes, no byte that sendInLoop()
\* took is lost, doubled or overtaken.
THEOREM BytesInOrder == Spec => []StreamIntact
BY ConnInvHolds, PTL DEF ConnInv

\* Bytes left in outBuffer_ of an open connection always have EPOLLOUT enabled
\* on a registered channel: handleWrite() will come.
THEOREM BufferedIsArmed == Spec => []OutputArmed
<1>1. ConnInv => OutputArmed
  BY DEF ConnInv, LifeInv, NewInv, OpenInv, OutputArmed
<1> QED
  BY <1>1, ConnInvHolds, PTL

\* ~TcpConnection() finds kDisconnected, unless a shutdown() of another thread
\* overwrote it: the server lets go of a connection only after handleClose().
THEOREM DiesDisconnected == Spec => []DtorAssertion
<1>1. ConnInv => DtorAssertion
  BY DEF ConnInv, LifeInv, OwnerInv, ClosedInv, DtorAssertion, Unreferenced
<1> QED
  BY <1>1, ConnInvHolds, PTL

\* handleClose() runs at most once, on an open connection, unless one of the
\* mishaps happened before: forceCloseInLoop() and forceClose() look at state_,
\* and no event is reported for a deleted channel.
THEOREM ClosedAtMostOnce == Spec => ClosesOnce
<1>1. ASSUME ConnInv, [Next]_vars, closes' # closes, mishap = {}
      PROVE  closes = 0 /\ state_ \in {"kConnected", "kDisconnecting"}
  <2>0. TypeOK /\ LifeInv /\ closes \in Nat /\ OpenInv /\ ClosedInv
        /\ state_ \in {"kConnecting", "kConnected", "kDisconnecting", "kDisconnected"}
    BY <1>1 DEF ConnInv, TypeOK, ConnTypeOK, LifeInv
  <2>1. \/ state_ # "kDisconnected"
        \/ revents \cap {"read", "close"} # {}
    <3>1. \/ state_ # "kDisconnected" \/ At("close") \/ At("read")
      BY <1>1, <2>0, WhoCloses
    <3> QED
      BY <3>1 DEF At
  <2>2. closes = 0
    BY <1>1, <2>0, <2>1 DEF ClosedInv
  <2>3. state_ # "kConnecting"
    <3>1. Next
      BY <1>1 DEF vars, connVars
    <3>2. ~EnableRead /\ ~PeerStep
      BY <1>1 DEF EnableRead, PeerStep, connVars
    <3> QED
      BY <2>0, <3>1, <3>2, StartedFirst
  <2> QED
    BY <2>0, <2>2, <2>3 DEF OpenInv
<1>2. ConnInv /\ [Next]_vars =>
        [closes' # closes =>
            mishap # {} \/ (closes = 0 /\ state_ \in {"kConnected", "kDisconnecting"})]_vars
  BY <1>1
<1> QED
  BY <1>2, ConnInvHolds, PTL DEF Spec, ClosesOnce

-----------------------------------------------------------------------------
(***************************************************************************)
(* Files.  A file of an open connection that is still to be sent has       *)
(* EPOLLOUT enabled, or nobody has asked for it yet: no send() followed    *)
(* setSendFd(), or the one that did is in its writeCompleteCallback_.      *)
(***************************************************************************)
FilesInv ==
    /\ files \in Seq(Nat)
    /\ closes = 0 /\ fileLeft # 0 => isWriting \/ FileUnasked \/ InWriteComplete

HasSent(s) == \E i \in 1..Len(s) : s[i] = "sent"

\* Where the frames are once others were pushed.
LEMMA PushedFrames ==
    ASSUME NEW f \in Seq(Frame), NEW s \in Seq(Frame)
    PROVE  /\ \A i \in 1..Len(f) : i \in 1..Len(f \o s) /\ (f \o s)[i] = f[i]
           /\ \A i \in 1..Len(s) :
                i + Len(f) \in 1..Len(f \o s) /\ (f \o s)[i + Len(f)] = s[i]
<1>1. Len(f) \in Nat /\ Len(s) \in Nat /\ Len(f \o s) = Len(f) + Len(s)
  OBVIOUS
<1>2. ASSUME NEW i \in 1..Len(f) PROVE i \in 1..Len(f \o s) /\ (f \o s)[i] = f[i]
  BY <1>1
<1>3. ASSUME NEW i \in 1..Len(s)
      PROVE  i + Len(f) \in 1..Len(f \o s) /\ (f \o s)[i + Len(f)] = s[i]
  BY <1>1
<1> QED
  BY <1>2, <1>3

\* A frame stays on the stack until it is on top.
LEMMA SentStays ==
    ASSUME NEW s \in Seq(Frame)
    PROVE  /\ s # <<>> /\ Head(s) # "sent" /\ HasSent(s) => HasSent(Tail(s))
           /\ HasSent(<<"user", "sent">> \o s)
           /\ HasSent(s) => HasSent(<<"user">> \o s)
           /\ ~HasSent(<<>>) /\ ~HasSent(<<"events">>)
<1>1. ASSUME s # <<>>, Head(s) # "sent", NEW i \in 1..Len(s), s[i] = "sent"
      PROVE  HasSent(Tail(s))
  <2>1. i # 1
    BY <1>1
  <2>2. i - 1 \in 1..Len(Tail(s)) /\ Tail(s)[i - 1] = "sent"
    BY <1>1, <2>1
  <2> QED
    BY <2>2 DEF HasSent
<1>2. HasSent(<<"user", "sent">> \o s)
  <2> DEFINE f == <<"user", "sent">>
  <2>1. f \in Seq(Frame) /\ Len(f) = 2 /\ f[2] = "sent"
    BY DEF Frame
  <2> HIDE DEF f
  <2>2. 2 \in 1..Len(f)
    BY <2>1
  <2>3. 2 \in 1..Len(f \o s) /\ (f \o s)[2] = "sent"
    BY <2>1, <2>2, PushedFrames, Zenon
  <2> QED
    BY <2>3 DEF HasSent, f
<1>3. ASSUME NEW i \in 1..Len(s), s[i] = "sent" PROVE HasSent(<<"user">> \o s)
  <2> DEFINE f == <<"user">>
  <2>1. f \in Seq(Frame) /\ Len(f) = 1
    BY DEF Frame
  <2> HIDE DEF f
  <2>2. i + Len(f) \in 1..Len(f \o s) /\ (f \o s)[i + Len(f)] = s[i]
    BY <2>1, PushedFrames, Zenon
  <2>3. i + Len(f) \in 1..Len(f \o s) /\ (f \o s)[i + Len(f)] = "sent"
    BY <1>3, <2>2, Zenon
  <2> QED
    BY <2>3 DEF HasSent, f
<1>4. ~HasSent(<<>>)
  BY DEF HasSent
<1>5. ~HasSent(<<"events">>)
  BY DEF HasSent
<1> QED
  BY <1>1, <1>2, <1>3, <1>4, <1>5 DEF HasSent

\* sendInLoop() on an open connection asks for EPOLLOUT or calls
\* writeCompleteCallback_, after which it will look at the file.
LEMMA SendAsks ==
    ASSUME NEW m, NEW rest, SendInLoop(m, rest), AcceptsOutput
    PROVE  stack' = <<"user", "sent">> \o rest \/ isWriting'
BY DEF SendInLoop, KeepRest, SetEvents, isWriting

\* A step that leaves the files, the stream and EPOLLOUT alone and keeps the
\* frames of sendInLoop().
LEMMA FilesQuiet ==
    ASSUME FilesInv, UNCHANGED <<files, stream, fileLeft>>, closes' = closes,
           isWriting => isWriting', HasSent(stack) => HasSent(stack')
    PROVE  FilesInv'
<1>1. InWriteComplete => InWriteComplete'
  BY DEF InWriteComplete, HasSent
<1> QED
  BY <1>1 DEF FilesInv, FileUnasked

\* sendInLoop(), the return of its writeCompleteCallback_ and handleWrite() keep
\* it; a close makes it void.
LEMMA FilesStep == ConnInv /\ FilesInv /\ [Next]_vars => FilesInv'
<1> SUFFICES ASSUME ConnInv, FilesInv, [Next]_vars PROVE FilesInv'
  OBVIOUS
<1> USE DEF connVars, outVars, loopVars, appVars
<1>0. /\ TypeOK /\ OutTypeOK /\ StreamIntact /\ LifeInv /\ tasks \in Seq(Task)
      /\ stack \in Seq(Frame) /\ files \in Seq(Nat) /\ stream \in Seq(Byte) /\ closes \in Nat
  BY DEF ConnInv, TypeOK, ConnTypeOK, LoopTypeOK, OutTypeOK, FilesInv
<1>1. CASE closes' # closes
  <2>1. Closes /\ UNCHANGED files
    BY <1>0, <1>1, WhoCloses
  <2>2. closes' # 0
    BY <1>0, <2>1 DEF Closes, HandleClose
  <2> QED
    BY <1>0, <2>1, <2>2 DEF FilesInv
<1>2. ASSUME closes' = closes, NEW m \in Messages, NEW rest \in Seq(Frame), SendInLoop(m, rest),
             UNCHANGED files
      PROVE  FilesInv'
  <2>1. CASE AcceptsOutput
    <3>1. isWriting' \/ HasSent(stack')
      BY <1>2, <2>1, SendAsks, SentStays
    <3> QED
      BY <1>0, <1>2, <3>1 DEF FilesInv, InWriteComplete, HasSent
  <2>2. CASE ~AcceptsOutput
    <3>1. closes # 0
      BY <1>0, <2>2 DEF AcceptsOutput, LifeInv, OpenInv
    <3> QED
      BY <1>0, <1>2, <3>1 DEF FilesInv
  <2> QED
    BY <2>1, <2>2
<1>3. CASE RunSend
  <2>1. Head(tasks)[2] \in Messages /\ <<>> \in Seq(Frame)
    BY <1>0, <1>3, RunsTask DEF RunSend
  <2> QED
    BY <1>2, <1>3, <2>1 DEF RunSend
<1>4. ASSUME NEW m \in Messages, UserSend(m) PROVE FilesInv'
  BY <1>0, <1>2, <1>4 DEF UserSend
<1>5. CASE UserSetSendFd
  <2>1. files' = Append(files, Len(stream)) /\ UNCHANGED stream /\ Len(stream) \in Nat
    BY <1>0, <1>5 DEF UserSetSendFd
  <2>2. files' \in Seq(Nat) /\ files' # <<>> /\ files'[Len(files')] = Len(stream')
    BY <1>0, <2>1
  <2> QED
    BY <2>2 DEF FilesInv, FileUnasked
<1>6. CASE Returns
  <2>1. /\ stack # <<>> /\ stack' = Tail(stack) /\ closes' = closes
        /\ UNCHANGED <<files, fileLeft, stream>>
        /\ isWriting => isWriting'
        /\ Head(stack) = "sent" /\ fileLeft # 0 => isWriting'
    BY <1>6 DEF Returns, KeepRest, SetEvents, isWriting
  <2>2. CASE Head(stack) = "sent"
    BY <1>0, <2>1, <2>2 DEF FilesInv
  <2>3. CASE Head(stack) # "sent"
    BY <1>0, <2>1, <2>3, SentStays, FilesQuiet
  <2> QED
    BY <2>2, <2>3
<1>7. CASE HandleWriteBuffer
  <2>1. /\ closes' = closes /\ UNCHANGED <<files, stream, fileLeft>>
        /\ stack \in {<<"events">>}
    BY <1>7 DEF HandleWriteBuffer, At
  <2>2. UNCHANGED events_ \/ fileLeft = 0
    BY <1>0, <1>7, WriteBufferEffect
  <2>3. CASE fileLeft = 0
    BY <1>0, <2>1, <2>3 DEF FilesInv
  <2>4. CASE UNCHANGED events_
    BY <1>0, <2>1, <2>4, SentStays, FilesQuiet DEF isWriting
  <2> QED
    BY <2>2, <2>3, <2>4
<1>8. CASE HandleWriteFile
  <2>1. closes' = closes /\ UNCHANGED <<files, stack, stream>> /\ isWriting
    BY <1>8 DEF HandleWriteFile
  <2>2. isWriting' \/ fileLeft' = 0
    BY <1>0, <1>8, <2>1, WriteFileEffect DEF isWriting
  <2> QED
    BY <1>0, <2>1, <2>2 DEF FilesInv
<1>9. CASE RunShutdown \/ UserShutdown \/ HandleError \/ HandleReadError \/ HandleWriteNothing
           \/ (\E th \in Threads : UserShares(th) \/ ForeignStep(th)) \/ ServerErases \/ PeerStep
           \/ UNCHANGED vars
  <2>1. UNCHANGED <<files, stream, fileLeft, closes, events_, stack>>
    BY <1>9 DEF RunShutdown, UserShutdown, HandleError, HandleReadError, HandleWriteNothing,
       UserShares, ForeignStep, ForeignSend, ForeignForceClose, ForeignShutdownTest,
       ForeignShutdownStore, ForeignPost, ForeignRelease, Begins, ServerErases, PeerStep, vars
  <2> QED
    BY <2>1, FilesQuiet DEF isWriting
<1>10. CASE EnableRead \/ RunForceClose \/ PollReturns \/ EventsReturn
  <2>1. CASE closes' = closes
    <3>1. /\ UNCHANGED <<files, stream, fileLeft>>
          /\ isWriting => isWriting'
          /\ stack = <<>> \/ stack = <<"events">>
      BY <1>0, <1>10, <2>1 DEF EnableRead, RunForceClose, HandleClose, PollReturns,
         EventsReturn, Runs, SetEvents, isWriting
    <3> QED
      BY <1>0, <2>1, <3>1, SentStays, FilesQuiet
  <2> QED
    BY <1>1, <2>1
<1>11. CASE HangUp \/ HandleReadEof \/ UserForceClose
  <2>1. closes' # closes
    BY <1>0, <1>11 DEF HangUp, HandleReadEof, EndOfData, UserForceClose, HandleClose
  <2> QED
    BY <1>1, <2>1
<1>12. CASE HandleReadData
  <2>1. UNCHANGED <<files, stream, fileLeft, closes, events_>> /\ stack' = <<"user">> \o stack
    BY <1>12 DEF HandleReadData
  <2> QED
    BY <1>0, <2>1, SentStays, FilesQuiet DEF isWriting
<1> QED
  BY <1>3, <1>4, <1>5, <1>6, <1>7, <1>8, <1>9, <1>10, <1>11, <1>12
     DEF Next, RunTask, HandleEvents, UserStep

\* FilesInv holds in every reachable state.
LEMMA FilesHold == Spec => [](ConnInv /\ FilesInv)
<1>1. Init => FilesInv
  BY DEF Init, FilesInv
<1> QED
  BY <1>1, ConnInvInit, ConnInvStep, FilesStep, PTL DEF Spec

\* ::shutdown(SHUT_WR) is called, by shutdownInLoop() or by handleWrite(), only
\* when every byte is out, and the file too, unless no send() has asked for
\* EPOLLOUT on its behalf yet.
THEOREM FinIsLast == Spec => FinAfterData
<1>1. ASSUME ConnInv, FilesInv, [Next]_vars, fin' # fin, closes = 0
      PROVE  wire' = stream' /\ (fileLeft' # 0 => FileUnasked \/ InWriteComplete)
  <2>0. OutTypeOK /\ StreamIntact /\ OpenInv /\ OutTypeOK' /\ StreamIntact' /\ tasks \in Seq(Task)
        /\ stack \in Seq(Frame)
    BY <1>1, ConnInvStep DEF ConnInv, TypeOK, LoopTypeOK, LifeInv
  <2>a. outBuffer_' = <<>> => wire' = stream'
    <3>1. wire' \in Seq(Byte) /\ wire' \o outBuffer_' = stream'
      BY <2>0 DEF OutTypeOK, StreamIntact
    <3>2. wire' \o <<>> = wire'
      BY <3>1, Regroup
    <3> QED
      BY <3>1, <3>2
  <2>b. fin \in BOOLEAN
    BY <2>0 DEF OutTypeOK
  <2>1. CASE RunShutdown \/ UserShutdown
    <3>1. ~isWriting /\ outBuffer_' = outBuffer_ /\ fileLeft' = fileLeft
      BY <1>1, <2>1, <2>b DEF RunShutdown, UserShutdown, ShutdownInLoop
    <3> QED
      BY <1>1, <2>0, <2>a, <3>1 DEF OpenInv, FilesInv
  <2>2. CASE HandleWriteBuffer
    BY <1>1, <2>0, <2>2, <2>a, WriteBufferEffect
  <2>3. CASE HandleWriteFile
    BY <1>1, <2>0, <2>3, <2>a, WriteFileEffect
  <2>4. RunSend \/ (\E m \in Messages : UserSend(m)) \/ Returns => FALSE
    <3>1. RunSend => UNCHANGED fin
      <4>1. RunSend => Head(tasks)[2] \in Messages /\ <<>> \in Seq(Frame)
        BY <2>0, RunsTask DEF RunSend
      <4> QED
        BY <2>0, <4>1, SendEffect DEF RunSend
    <3>2. \A m \in Messages : UserSend(m) => UNCHANGED fin
      BY <2>0, SendEffect DEF UserSend
    <3> QED
      BY <1>1, <3>1, <3>2 DEF Returns
  <2>5. EnableRead \/ RunForceClose \/ PollReturns \/ HangUp \/ HandleError \/ HandleReadData
        \/ HandleReadError \/ HandleReadEof \/ HandleWriteNothing \/ EventsReturn => FALSE
    BY <1>1 DEF EnableRead, RunForceClose, PollReturns, HangUp, HandleError, HandleReadData,
       HandleReadError, HandleReadEof, HandleWriteNothing, EventsReturn, outVars
  <2>6. UserSetSendFd \/ UserForceClose \/ (\E th \in Threads : UserShares(th)) \/ ServerErases
        \/ PeerStep \/ UNCHANGED vars => FALSE
    BY <1>1 DEF UserSetSendFd, UserForceClose, UserShares, ServerErases, PeerStep, vars, outVars
  <2>7. (\E th \in Threads : ForeignStep(th)) => FALSE
    BY <1>1 DEF ForeignStep, ForeignSend, ForeignForceClose, ForeignShutdownTest,
       ForeignShutdownStore, ForeignPost, ForeignRelease, Begins, outVars
  <2> QED
    BY <1>1, <2>1, <2>2, <2>3, <2>4, <2>5, <2>6, <2>7 DEF Next, RunTask, HandleEvents, UserStep
<1>2. ConnInv /\ FilesInv /\ [Next]_vars =>
        [fin' # fin /\ closes = 0 =>
            wire' = stream' /\ (fileLeft' # 0 => FileUnasked \/ InWriteComplete)]_vars
  BY <1>1
<1> QED
  BY <1>2, FilesHold, PTL DEF Spec, FinAfterData

-----------------------------------------------------------------------------
(* What send() took is kept.                                               *)

InCall(m) == \E th \in Threads : call[th] = <<"send", m>>
InTasks(m) == \E i \in 1..Len(tasks) : tasks[i] = <<"send", m>>
InStream(m) == \E i \in 1..Len(stream) : stream[i] = <<m, 1>>

\* A queued send() survives the task before it.
LEMMA TailKeeps ==
    ASSUME NEW s \in Seq(Task), s # <<>>, NEW t, t # Head(s), NEW i \in 1..Len(s), s[i] = t
    PROVE  \E j \in 1..Len(Tail(s)) : Tail(s)[j] = t
<1>1. i # 1
  OBVIOUS
<1>2. i - 1 \in 1..Len(Tail(s)) /\ Tail(s)[i - 1] = t
  BY <1>1
<1> QED
  BY <1>2

\* Bytes handed over stay handed over, and a message added is there.
LEMMA ConcatKeeps ==
    ASSUME NEW s \in Seq(Byte), NEW t \in Seq(Byte), NEW b
    PROVE  /\ (\E i \in 1..Len(s) : s[i] = b) => \E i \in 1..Len(s \o t) : (s \o t)[i] = b
           /\ (1 \in 1..Len(t) /\ t[1] = b) => \E i \in 1..Len(s \o t) : (s \o t)[i] = b
<1>1. ASSUME NEW i \in 1..Len(s), s[i] = b PROVE \E j \in 1..Len(s \o t) : (s \o t)[j] = b
  <2>1. i \in 1..Len(s \o t) /\ (s \o t)[i] = b
    BY <1>1
  <2> QED
    BY <2>1
<1>2. ASSUME 1 \in 1..Len(t), t[1] = b PROVE \E j \in 1..Len(s \o t) : (s \o t)[j] = b
  <2>1. Len(s) + 1 \in 1..Len(s \o t) /\ (s \o t)[Len(s) + 1] = b
    BY <1>2
  <2> QED
    BY <2>1
<1> QED
  BY <1>1, <1>2

\* sendInLoop() on an open connection: messages stay in the stream, m joins them.
LEMMA SendJoins ==
    ASSUME OutTypeOK, NEW m \in Messages, stream' = stream \o Bytes(m)
    PROVE  InStream(m)' /\ \A k : InStream(k) => InStream(k)'
<1>1. Bytes(m) \in Seq(Byte) /\ 1 \in 1..Len(Bytes(m)) /\ Bytes(m)[1] = <<m, 1>>
      /\ stream \in Seq(Byte)
  BY BytesOfMessage DEF OutTypeOK
<1>2. InStream(m)'
  BY <1>1, ConcatKeeps DEF InStream
<1>3. ASSUME NEW k, InStream(k) PROVE InStream(k)'
  BY <1>1, <1>3, ConcatKeeps DEF InStream
<1> QED
  BY <1>2, <1>3

Kept(m) == InCall(m) \/ InTasks(m) \/ InStream(m)

\* A message in the caller's hands gets into the queue, from the queue to
\* sendInLoop(), and there into the stream, for the connection is still open.
LEMMA KeptStep == ConnInv /\ SendsKept /\ [Next]_vars => SendsKept'
<1> SUFFICES ASSUME ConnInv, SendsKept, [Next]_vars, closes' = 0,
                    NEW m \in Messages, m \notin unsent'
             PROVE  Kept(m)'
  BY DEF SendsKept, Kept, InCall, InTasks, InStream
<1>0. /\ TypeOK /\ OutTypeOK /\ StreamIntact /\ LifeInv /\ tasks \in Seq(Task)
      /\ stack \in Seq(Frame) /\ call \in [Threads -> Call]
  BY DEF ConnInv, TypeOK, LoopTypeOK
<1>1. closes' = closes /\ closes = 0
  <2>1. closes \in Nat
    BY <1>0 DEF TypeOK, ConnTypeOK
  <2>2. closes' # closes => closes' = closes + 1
    BY <1>0, WhoCloses DEF Closes, HandleClose
  <2> QED
    BY <2>1, <2>2
<1>2. AcceptsOutput
  BY <1>0, <1>1 DEF LifeInv, OpenInv, AcceptsOutput
<1>3. m \notin unsent => Kept(m)
  BY <1>1 DEF SendsKept, Kept, InCall, InTasks, InStream
<1>a. UNCHANGED <<call, tasks, stream, unsent>> => Kept(m)'
  BY <1>3 DEF Kept, InCall, InTasks, InStream
<1>4. CASE RunSend
  <2>1. Runs("send") /\ SendInLoop(Head(tasks)[2], <<>>) /\ UNCHANGED <<call, unsent>>
    BY <1>4 DEF RunSend, appVars
  <2>2. PICK k \in Messages : k = Head(tasks)[2] /\ Head(tasks) = <<"send", k>>
    BY <1>0, <2>1, RunsTask
  <2>3. stream' = stream \o Bytes(k)
    <3>1. <<>> \in Seq(Frame) /\ SendInLoop(k, <<>>)
      BY <2>1, <2>2
    <3> QED
      BY <1>0, <1>2, <3>1, SendEffect
  <2>4. InStream(k)' /\ \A q : InStream(q) => InStream(q)'
    BY <1>0, <2>2, <2>3, SendJoins
  <2>5. CASE m = k
    BY <2>4, <2>5 DEF Kept
  <2>6. CASE m # k
    <3>1. <<"send", m>> # Head(tasks) /\ tasks # <<>> /\ tasks' = Tail(tasks)
      BY <2>1, <2>2, <2>6 DEF Runs
    <3>2. InTasks(m) => InTasks(m)'
      BY <1>0, <3>1, TailKeeps DEF InTasks
    <3>3. InCall(m) => InCall(m)'
      BY <2>1 DEF InCall
    <3> QED
      BY <1>3, <2>1, <2>4, <3>2, <3>3 DEF Kept
  <2> QED
    BY <2>5, <2>6
<1>5. CASE EnableRead \/ RunShutdown \/ RunForceClose
  <2>1. /\ tasks # <<>> /\ tasks' = Tail(tasks) /\ UNCHANGED <<call, unsent, stream>>
        /\ Head(tasks)[1] # "send"
    BY <1>5 DEF EnableRead, RunShutdown, RunForceClose, Runs, outVars, appVars
  <2>2. <<"send", m>> # Head(tasks)
    BY <2>1
  <2>3. InTasks(m) => InTasks(m)'
    BY <1>0, <2>1, <2>2, TailKeeps DEF InTasks
  <2> QED
    BY <1>3, <2>1, <2>3 DEF Kept, InCall, InStream
<1>6. ASSUME NEW k \in Messages, UserSend(k) PROVE Kept(m)'
  <2>1. SendInLoop(k, stack) /\ UNCHANGED <<call, tasks>> /\ unsent' = unsent \ {k}
    BY <1>6 DEF UserSend
  <2>2. stream' = stream \o Bytes(k)
    <3>1. k \in Messages /\ stack \in Seq(Frame) /\ OutTypeOK /\ StreamIntact
      BY <1>0, <1>6
    <3> QED
      BY <1>2, <2>1, <3>1, SendEffect
  <2>3. InStream(k)' /\ \A q : InStream(q) => InStream(q)'
    <3>1. k \in Messages /\ OutTypeOK
      BY <1>0, <1>6
    <3> QED
      BY <2>2, <3>1, SendJoins
  <2>4. CASE m = k
    BY <2>3, <2>4 DEF Kept
  <2>5. CASE m # k
    BY <1>3, <2>1, <2>3, <2>5 DEF Kept, InCall, InTasks
  <2> QED
    BY <2>4, <2>5
<1>7. CASE PollReturns \/ HandleEvents \/ Returns
  <2>1. HandleWriteBuffer \/ HandleWriteFile => UNCHANGED stream
    BY DEF HandleWriteBuffer, HandleWriteFile
  <2>2. UNCHANGED <<call, tasks, stream, unsent>>
    BY <1>7, <2>1 DEF PollReturns, HandleEvents, HangUp, HandleError, HandleReadData,
       HandleReadError, HandleReadEof, HandleWriteBuffer, HandleWriteFile,
       HandleWriteNothing, EventsReturn, Returns, appVars, outVars
  <2> QED
    BY <1>a, <2>2
<1>8. CASE UserSetSendFd \/ UserShutdown \/ UserForceClose \/ ServerErases \/ PeerStep
           \/ UNCHANGED vars
  <2>1. UNCHANGED <<call, tasks, stream, unsent>>
    BY <1>8 DEF UserSetSendFd, UserShutdown, UserForceClose, ServerErases, PeerStep, vars,
       appVars, outVars, loopVars
  <2> QED
    BY <1>a, <2>1
<1>9. ASSUME NEW th \in Threads, UserShares(th) \/ ForeignStep(th) PROVE Kept(m)'
  <2>1. CASE ForeignPost(th)
    <3>1. /\ call[th] \in Task /\ tasks' = Append(tasks, call[th])
          /\ call' = [call EXCEPT ![th] = Idle] /\ UNCHANGED <<unsent, stream>>
      BY <2>1 DEF ForeignPost, outVars
    <3>2. InTasks(m) => InTasks(m)'
      <4>1. ASSUME NEW i \in 1..Len(tasks), tasks[i] = <<"send", m>>
            PROVE  i \in 1..Len(tasks') /\ tasks'[i] = <<"send", m>>
        BY <1>0, <3>1, <4>1
      <4> QED
        BY <4>1 DEF InTasks
    <3>3. ASSUME NEW q \in Threads, call[q] = <<"send", m>> PROVE InCall(m)' \/ InTasks(m)'
      <4>1. CASE q = th
        <5>1. Len(tasks) + 1 \in 1..Len(tasks') /\ tasks'[Len(tasks) + 1] = <<"send", m>>
          BY <1>0, <3>1, <3>3, <4>1
        <5> QED
          BY <5>1 DEF InTasks
      <4>2. CASE q # th
        BY <1>0, <3>1, <3>3, <4>2 DEF InCall
      <4> QED
        BY <4>1, <4>2
    <3> QED
      BY <1>3, <3>1, <3>2, <3>3 DEF Kept, InCall, InStream
  <2>2. ASSUME NEW k \in Messages, ForeignSend(th, k) PROVE Kept(m)'
    <3>1. /\ call[th] = Idle /\ call' = [call EXCEPT ![th] = <<"send", k>>]
          /\ unsent' = unsent \ {k} /\ UNCHANGED <<tasks, stream>>
      BY <2>2 DEF ForeignSend, Begins, loopVars, outVars
    <3>2. InCall(k)'
      BY <1>0, <3>1 DEF InCall
    <3>3. InCall(m) => InCall(m)'
      BY <1>0, <3>1 DEF InCall, Idle
    <3> QED
      BY <1>3, <3>1, <3>2, <3>3 DEF Kept, InTasks, InStream
  <2>3. CASE UserShares(th) \/ ForeignForceClose(th) \/ ForeignShutdownTest(th)
             \/ ForeignShutdownStore(th) \/ ForeignRelease(th)
    <3>1. /\ call[th] \in {Idle, Out, <<"store">>} /\ UNCHANGED <<tasks, stream, unsent>>
          /\ \E c \in Call : call' = [call EXCEPT ![th] = c]
      <4>1. UNCHANGED <<tasks, stream, unsent>> /\ call[th] \in {Idle, Out, <<"store">>}
        BY <2>3 DEF UserShares, ForeignForceClose, ForeignShutdownTest, ForeignShutdownStore,
           ForeignRelease, Begins, loopVars, outVars
      <4>2. \E c : call' = [call EXCEPT ![th] = c]
        BY <2>3 DEF UserShares, ForeignForceClose, ForeignShutdownTest, ForeignShutdownStore,
           ForeignRelease, Begins
      <4> QED
        BY <4>1, <4>2, <1>0, TasksStep
    <3>2. call[th] # <<"send", m>>
      BY <3>1 DEF Idle, Out
    <3>3. InCall(m) => InCall(m)'
      BY <1>0, <3>1, <3>2 DEF InCall
    <3> QED
      BY <1>3, <3>1, <3>3 DEF Kept, InTasks, InStream
  <2> QED
    BY <1>9, <2>1, <2>2, <2>3 DEF ForeignStep
<1> QED
  BY <1>4, <1>5, <1>6, <1>7, <1>8, <1>9 DEF Next, RunTask, UserStep

\* A message that passed the test of send() reaches sendInLoop() and its bytes
\* the stream, whatever shutdown() is called meanwhile, until the connection is
\* closed.
THEOREM SentMessagesKept == Spec => []SendsKept
<1>1. Init => SendsKept
  BY DEF Init, SendsKept
<1> QED
  BY <1>1, KeptStep, ConnInvHolds, PTL DEF Spec
=============================================================================

--------------------------- MODULE TcpClientProofs ---------------------------
(***************************************************************************)
(* Proofs about TcpClient for any set of application threads and any       *)
(* number of queued tasks.                                                 *)
(***************************************************************************)
EXTENDS TcpClient, SequenceTheorems, TLAPS

Words == {"up", "down", "error"}

TypeOK ==
    /\ client \in BOOLEAN /\ startTask \in BOOLEAN /\ started_ \in BOOLEAN
    /\ connected_ \in BOOLEAN /\ soError \in BOOLEAN /\ atOnce \in BOOLEAN
    /\ reported \in BOOLEAN /\ connection_ \in BOOLEAN /\ saved \in BOOLEAN
    /\ inCallback \in BOOLEAN /\ diedOpen \in BOOLEAN
    /\ chState \in {"kNew", "kAdded", "kDeleted"}
    /\ epoll \in {"none", "connector", "connection"}
    /\ sock \in {"new", "connecting", "established", "failed"}
    /\ state_ \in {"none", "kConnected", "kDisconnecting", "kDisconnected"}
    /\ tasks \in Seq({"forceClose", "shutdown"})
    /\ call \in [Threads -> {"out", "idle", "forceClose", "store", "shutdown"}]

\* Connected, and then disconnected any number of times.
Story(s) ==
    /\ s \in Seq(Words)
    /\ Len(s) >= 1 /\ s[1] = "up"
    /\ \A i \in 2..Len(s) : s[i] = "down"

\* Before Connector::start() there is nothing; its one event is still to come
\* while channel_ waits for EPOLLOUT, and SO_ERROR then tells the outcome.
ConnectorInv ==
    /\ startTask => client /\ ~started_
    /\ ~started_ => sock = "new" /\ told = <<>> /\ chState = "kNew"
                    /\ epoll = "none" /\ ~soError
    /\ "OUT" \in events_ =>
          /\ told = <<>> /\ started_ /\ ~atOnce /\ chState = "kAdded"
          /\ soError <=> sock = "failed"
    /\ sock = "connecting" => told = <<>> /\ ~atOnce /\ ~soError
    /\ sock = "new" => ~started_
    /\ epoll = "connector" => client
    /\ reported /\ epoll = "connector" => "OUT" \in events_ /\ sock # "connecting"

\* Who owns the descriptor, what the application was told, and who may still
\* reach the connection go together.
OwnerInv ==
    /\ connected_ <=> state_ # "none"
    /\ ~connected_ => told \in {<<>>, <<"error">>} /\ ~Referenced /\ ~diedOpen
    /\ connected_ => Story(told)
    /\ connection_ => /\ client /\ state_ \in {"kConnected", "kDisconnecting"}
                      /\ Len(told) = 1
                      /\ epoll = "connection" \/ atOnce
    /\ epoll = "connection" => connection_
    /\ inCallback => client /\ connected_

\* A connection that the client has no more is closed, or only looks open since
\* a shutdown() of another thread, or died with the client; an event of cfd_
\* that is still to be handled then is a stale one.
DeathInv ==
    /\ diedOpen => ~Referenced /\ (~client \/ "stored" \in mishap)
    /\ connected_ /\ ~connection_ =>
          \/ state_ = "kDisconnected"
          \/ state_ = "kDisconnecting" /\ "stored" \in mishap
          \/ diedOpen
    /\ reported /\ epoll # "connector" => connection_ \/ "stale" \in mishap
    /\ Len(told) > 2 => mishap # {}

\* What the application was told is what happened to the socket.
StoryInv ==
    ~atOnce =>
        /\ connected_ => sock = "established"
        /\ told = <<"error">> => sock = "failed"

\* The descriptor was closed once if neither the Connector nor the connection
\* has it any more, and not yet otherwise.
CloseInv ==
    /\ connected_ => closes = IF Referenced THEN 0 ELSE 1
    /\ ~connected_ => closes = IF client THEN 0 ELSE 1

ClientInv == TypeOK /\ ConnectorInv /\ OwnerInv /\ DeathInv /\ StoryInv /\ CloseInv

-----------------------------------------------------------------------------
\* How a story begins and goes on.
LEMMA Stories ==
    /\ Append(<<>>, "up") = <<"up">> /\ Append(<<>>, "error") = <<"error">>
    /\ Story(<<"up">>) /\ Len(<<"up">>) = 1 /\ Len(<<"error">>) = 1 /\ Len(<<>>) = 0
    /\ ~Story(<<>>) /\ ~Story(<<"error">>)
    /\ <<"error">> # <<>>
<1>1. Append(<<>>, "up") = <<"up">> /\ Append(<<>>, "error") = <<"error">>
  OBVIOUS
<1>2. Len(<<>>) = 0 /\ Len(<<"up">>) = 1 /\ Len(<<"error">>) = 1
      /\ <<"up">>[1] = "up" /\ <<"error">>[1] = "error"
  OBVIOUS
<1>3. Story(<<"up">>)
  <2>1. <<"up">> \in Seq(Words)
    BY DEF Words
  <2>2. \A i \in 2..1 : FALSE
    OBVIOUS
  <2> QED
    BY <1>2, <2>1, <2>2 DEF Story
<1>4. ~Story(<<>>) /\ ~Story(<<"error">>)
  BY <1>2 DEF Story
<1> QED
  BY <1>1, <1>2, <1>3, <1>4

\* One more "down" at the end.
LEMMA StoryGoesOn ==
    ASSUME NEW s, Story(s)
    PROVE  Story(Append(s, "down")) /\ Len(Append(s, "down")) = Len(s) + 1 /\ Len(s) \in Nat
<1>1. s \in Seq(Words) /\ Len(s) \in Nat /\ Len(s) >= 1 /\ s[1] = "up"
      /\ \A i \in 2..Len(s) : s[i] = "down"
  BY DEF Story
<1> DEFINE r == Append(s, "down")
<1>2. r \in Seq(Words) /\ Len(r) = Len(s) + 1 /\ r[Len(s) + 1] = "down"
      /\ \A i \in 1..Len(s) : r[i] = s[i]
  BY <1>1 DEF Words
<1> HIDE DEF r
<1>3. r[1] = "up" /\ \A i \in 2..Len(r) : r[i] = "down"
  BY <1>1, <1>2
<1>4. Story(r)
  BY <1>1, <1>2, <1>3 DEF Story
<1> QED
  BY <1>1, <1>2, <1>4 DEF r

\* Whoever can call a method of the connection points to it.
LEMMA UsersPoint ==
    ASSUME ClientInv, InUserCode PROVE Referenced /\ connected_ /\ ~diedOpen
BY DEF ClientInv, OwnerInv, DeathInv, InUserCode, Referenced

\* handleClose() leaves a connection that is closed, is not the client's any more
\* and dies here only if nobody else points to it.  The application has heard of
\* an earlier close only after a mishap.
LEMMA HandleCloseStep ==
    ASSUME ClientInv, Referenced, HandleClose, tasks' \in Seq({"forceClose", "shutdown"}),
           reported' \in BOOLEAN,
           connection_ \/ mishap # {}
    PROVE  ClientInv'
<1> USE DEF connectorVars, channelVars, socketVars
<1>0. TypeOK /\ ConnectorInv /\ OwnerInv /\ DeathInv /\ StoryInv /\ CloseInv
  BY DEF ClientInv
<1>1. /\ connected_ /\ ~diedOpen /\ closes = 0 /\ Story(told)
      /\ connection_ => Len(told) = 1
  BY <1>0 DEF OwnerInv, DeathInv, CloseInv
<1>2. /\ state_' = "kDisconnected" /\ connection_' = FALSE /\ epoll' = "none"
      /\ told' = Append(told, "down")
      /\ UNCHANGED <<client, connectorVars, socketVars, inCallback>>
      /\ reported' => "stale" \in mishap'
      /\ mishap \subseteq mishap'
  BY DEF HandleClose, Closed
<1>3. /\ diedOpen' = FALSE
      /\ closes' = IF Referenced' THEN 0 ELSE 1
  <2>1. Deaths(0)
    BY DEF HandleClose
  <2> QED
    BY <1>0, <1>1, <1>2, <2>1 DEF Deaths, TypeOK
<1>4. Story(told') /\ Len(told') = Len(told) + 1 /\ Len(told) \in Nat
  BY <1>1, <1>2, StoryGoesOn
<1>5. saved' \in BOOLEAN
      /\ call' \in [Threads -> {"out", "idle", "forceClose", "store", "shutdown"}]
  BY <1>0 DEF HandleClose, TypeOK
<1>6. TypeOK'
  BY <1>0, <1>2, <1>3, <1>5 DEF TypeOK
<1>7. ConnectorInv'
  <2>1. told # <<>>
    BY <1>1, Stories
  <2> QED
    BY <1>0, <1>2, <2>1 DEF ConnectorInv
<1>8. OwnerInv'
  BY <1>0, <1>1, <1>2, <1>4 DEF OwnerInv
<1>9. DeathInv'
  <2>1. Len(told') > 2 => mishap' # {}
    BY <1>1, <1>2, <1>4
  <2> QED
    BY <1>2, <1>3, <2>1 DEF DeathInv
<1>10. StoryInv'
  <2>1. told' # <<"error">>
    BY <1>4, Stories
  <2> QED
    BY <1>0, <1>1, <1>2, <2>1 DEF StoryInv
<1>11. CloseInv'
  BY <1>1, <1>2, <1>3 DEF CloseInv
<1> QED
  BY <1>6, <1>7, <1>8, <1>9, <1>10, <1>11 DEF ClientInv

\* A connection of the client that somebody calls handleClose() on looks open
\* or has a stale event: otherwise one of the mishaps has happened.
LEMMA LooksOpen ==
    ASSUME ClientInv, Referenced, state_ # "kDisconnected" \/ (reported /\ epoll # "connector")
    PROVE  connection_ \/ mishap # {}
BY DEF ClientInv, OwnerInv, DeathInv

\* A step that only moves references around: the connection may die of it.
LEMMA RefStep ==
    ASSUME ClientInv, TypeOK', Referenced, Deaths(0),
           UNCHANGED <<client, connectorVars, pollVars, socketVars, connection_, state_,
                       inCallback, storyVars>>
    PROVE  ClientInv'
<1> USE DEF connectorVars, channelVars, pollVars, socketVars, storyVars
<1>0. TypeOK /\ ConnectorInv /\ OwnerInv /\ DeathInv /\ StoryInv /\ CloseInv
  BY DEF ClientInv
<1>1. connected_ /\ ~diedOpen /\ closes = 0
  BY <1>0 DEF OwnerInv, DeathInv, CloseInv
<1>2. closes' = IF Referenced' THEN 0 ELSE 1
  BY <1>0, <1>1 DEF Deaths
<1>3. diedOpen' => ~Referenced' /\ ~connection_ /\ state_ # "kDisconnected"
  BY <1>0, <1>1 DEF Deaths, Referenced
<1>4. ConnectorInv' /\ StoryInv'
  BY <1>0 DEF ConnectorInv, StoryInv
<1>5. OwnerInv'
  BY <1>0, <1>1 DEF OwnerInv
<1>6. DeathInv'
  BY <1>0, <1>1, <1>3 DEF DeathInv
<1>7. CloseInv'
  BY <1>1, <1>2 DEF CloseInv
<1> QED
  BY <1>4, <1>5, <1>6, <1>7 DEF ClientInv

\* Deaths() of a step that leaves a reference does nothing.
LEMMA NoDeath ==
    ASSUME TypeOK, UNCHANGED deathVars, CloseInv, Referenced, connected_, Referenced' PROVE Deaths(0)
BY DEF Deaths, deathVars, CloseInv

\* Every action of the client preserves the invariant.
LEMMA ClientInvStep == ClientInv /\ [Next]_vars => ClientInv'
<1> SUFFICES ASSUME ClientInv, [Next]_vars PROVE ClientInv'
  OBVIOUS
<1> USE DEF channelVars, connectorVars, pollVars, socketVars, storyVars, deathVars, refVars, connVars
<1>0. TypeOK /\ ConnectorInv /\ OwnerInv /\ DeathInv /\ StoryInv /\ CloseInv
  BY DEF ClientInv
<1>a. UNCHANGED refVars => (Referenced' <=> Referenced)
  BY DEF Referenced
<1>1. CASE Start
  <2>1. /\ client /\ ~started_ /\ startTask' = TRUE
        /\ UNCHANGED <<client, started_, connected_, channelVars, pollVars, socketVars, connVars>>
    BY <1>1 DEF Start
  <2>2. TypeOK' /\ ConnectorInv'
    BY <1>0, <2>1 DEF TypeOK, ConnectorInv
  <2>3. OwnerInv' /\ DeathInv' /\ StoryInv' /\ CloseInv'
    BY <1>0, <1>a, <2>1 DEF OwnerInv, DeathInv, StoryInv, CloseInv
  <2> QED
    BY <2>2, <2>3 DEF ClientInv
<1>2. CASE RunStart
  <2>1. /\ ~started_ /\ client /\ ~connected_ /\ closes = 0 /\ told = <<>> /\ epoll = "none"
        /\ chState = "kNew" /\ state_ = "none" /\ ~Referenced /\ ~diedOpen /\ ~reported
        /\ ~inCallback
    BY <1>0, <1>2, Stories DEF RunStart, ConnectorInv, OwnerInv, CloseInv
  <2>2. /\ sock' \in {"connecting", "established", "failed"} /\ atOnce' \in BOOLEAN
        /\ atOnce' <=> sock' # "connecting"
        /\ started_' = TRUE /\ startTask' = FALSE
        /\ UNCHANGED <<client, reported, peerFin, saved, call, tasks, mishap, deathVars>>
    BY <1>2 DEF RunStart
  <2>3. CASE atOnce'
    <3>1. /\ told' = <<"up">> /\ state_' = "kConnected" /\ connection_' = TRUE
          /\ connected_' = TRUE /\ soError' = FALSE /\ inCallback' = TRUE
          /\ events_' = {} /\ chState' = "kAdded" /\ epoll' = "connector"
      BY <1>2, <2>1, <2>3, Stories DEF RunStart, HandleWrite, DisableAll, HandOver, Failed
    <3>2. Referenced' /\ Story(told') /\ Len(told') = 1
      BY <3>1, Stories DEF Referenced
    <3>3. TypeOK' /\ ConnectorInv'
      BY <1>0, <2>1, <2>2, <2>3, <3>1 DEF TypeOK, ConnectorInv
    <3>4. OwnerInv' /\ DeathInv' /\ StoryInv' /\ CloseInv'
      BY <2>1, <2>2, <2>3, <3>1, <3>2 DEF OwnerInv, DeathInv, StoryInv, CloseInv
    <3> QED
      BY <3>3, <3>4 DEF ClientInv
  <2>4. CASE ~atOnce'
    <3>1. /\ events_' = {"OUT"} /\ chState' = "kAdded" /\ epoll' = "connector"
          /\ UNCHANGED <<soError, connected_, connection_, state_, inCallback, told>>
      BY <1>2, <2>4 DEF RunStart, AwaitConnect
    <3>2. Referenced' <=> Referenced
      BY <1>a, <2>2, <3>1
    <3>3. TypeOK' /\ ConnectorInv'
      BY <1>0, <2>1, <2>2, <2>4, <3>1 DEF TypeOK, ConnectorInv
    <3>4. Len(told') = 0 /\ told' # <<"error">>
      BY <2>1, <3>1, Stories
    <3>5. OwnerInv'
      BY <1>0, <2>1, <2>2, <3>1, <3>2 DEF OwnerInv
    <3>6. DeathInv'
      BY <2>1, <2>2, <3>1, <3>4 DEF DeathInv
    <3>7. StoryInv' /\ CloseInv'
      BY <1>0, <2>1, <2>2, <3>1, <3>2, <3>4 DEF StoryInv, CloseInv
    <3> QED
      BY <3>3, <3>5, <3>6, <3>7 DEF ClientInv
  <2> QED
    BY <2>3, <2>4
<1>3. CASE PollReturns
  <2>1. /\ reported' = TRUE
        /\ \/ epoll = "connector" /\ "OUT" \in events_ /\ sock # "connecting"
           \/ epoll = "connection"
        /\ UNCHANGED <<client, connectorVars, epoll, socketVars, connVars>>
    BY <1>3 DEF PollReturns
  <2>2. TypeOK' /\ ConnectorInv'
    BY <1>0, <2>1 DEF TypeOK, ConnectorInv
  <2>3. OwnerInv' /\ DeathInv' /\ StoryInv' /\ CloseInv'
    BY <1>0, <1>a, <2>1 DEF OwnerInv, DeathInv, StoryInv, CloseInv
  <2> QED
    BY <2>2, <2>3 DEF ClientInv
<1>4. CASE ConnectorEvent
  <2>1. /\ client /\ told = <<>> /\ ~atOnce /\ chState = "kAdded" /\ started_
        /\ sock # "connecting" /\ sock # "new" /\ (soError <=> sock = "failed")
        /\ ~inCallback
    BY <1>0, <1>4 DEF ConnectorEvent, ConnectorInv
  <2>2. ~connected_ /\ state_ = "none" /\ ~Referenced /\ closes = 0 /\ ~diedOpen
    BY <1>0, <2>1, Stories DEF OwnerInv, CloseInv
  <2>3. /\ reported' = FALSE /\ soError' = FALSE /\ events_' = {} /\ chState' = "kDeleted"
        /\ UNCHANGED <<client, startTask, started_, sock, peerFin, atOnce, saved, call, tasks,
                       mishap, deathVars>>
    BY <1>4, <2>1 DEF ConnectorEvent, HandleWrite, DisableAll
  <2>4. CASE soError
    <3>1. /\ epoll' = "none" /\ told' = <<"error">>
          /\ UNCHANGED <<connected_, connection_, state_, inCallback>>
      BY <1>4, <2>1, <2>4, Stories DEF ConnectorEvent, HandleWrite, DisableAll, Failed
    <3>2. Referenced' <=> Referenced
      BY <1>a, <2>3, <3>1
    <3>3. TypeOK' /\ ConnectorInv'
      BY <1>0, <2>1, <2>3, <3>1 DEF TypeOK, ConnectorInv
    <3>4. Len(told') = 1
      BY <3>1, Stories
    <3>a. sock = "failed"
      BY <2>1, <2>4
    <3>5. OwnerInv'
      BY <1>0, <2>1, <2>2, <2>3, <3>1, <3>2 DEF OwnerInv
    <3>6. DeathInv'
      BY <2>1, <2>2, <2>3, <3>1, <3>4 DEF DeathInv
    <3>7. StoryInv' /\ CloseInv'
      BY <1>0, <2>1, <2>2, <2>3, <3>1, <3>2, <3>a DEF StoryInv, CloseInv
    <3> QED
      BY <3>3, <3>5, <3>6, <3>7 DEF ClientInv
  <2>5. CASE ~soError
    <3>1. /\ told' = <<"up">> /\ state_' = "kConnected" /\ connection_' = TRUE
          /\ connected_' = TRUE /\ inCallback' = TRUE /\ epoll' = "connection"
      BY <1>4, <2>1, <2>5, Stories DEF ConnectorEvent, HandleWrite, DisableAll, HandOver, Failed
    <3>2. Referenced' /\ Story(told') /\ Len(told') = 1 /\ told' # <<"error">>
      BY <3>1, Stories DEF Referenced
    <3>3. TypeOK' /\ ConnectorInv'
      BY <1>0, <2>1, <2>3, <3>1 DEF TypeOK, ConnectorInv
    <3>a. sock = "established"
      BY <1>0, <2>1, <2>5 DEF TypeOK
    <3>4. OwnerInv' /\ DeathInv' /\ StoryInv' /\ CloseInv'
      BY <2>1, <2>2, <2>3, <3>1, <3>2, <3>a DEF OwnerInv, DeathInv, StoryInv, CloseInv
    <3> QED
      BY <3>3, <3>4 DEF ClientInv
  <2> QED
    BY <1>0, <2>4, <2>5 DEF TypeOK
<1>5. CASE HandleReadEof
  <2>1. CASE Referenced
    <3>1. HandleClose /\ tasks' = tasks /\ reported' = FALSE /\ reported /\ epoll # "connector"
      BY <1>5, <2>1 DEF HandleReadEof
    <3>2. connection_ \/ mishap # {}
      BY <2>1, <3>1, LooksOpen
    <3>3. tasks' \in Seq({"forceClose", "shutdown"}) /\ reported' \in BOOLEAN
      BY <1>0, <3>1 DEF TypeOK
    <3> QED
      BY <2>1, <3>1, <3>2, <3>3, HandleCloseStep
  <2>2. CASE ~Referenced
    <3>1. reported' = FALSE
          /\ UNCHANGED <<client, connectorVars, epoll, socketVars, connVars>>
      BY <1>5, <2>2 DEF HandleReadEof
    <3>b. reported' \in BOOLEAN /\ tasks' = tasks /\ call' = call
      BY <3>1
    <3>2. TypeOK'
      BY <1>0, <3>1, <3>b DEF TypeOK
    <3>a. ConnectorInv'
      BY <1>0, <3>1 DEF ConnectorInv
    <3>3. OwnerInv' /\ DeathInv' /\ StoryInv' /\ CloseInv'
      BY <1>0, <1>a, <3>1 DEF OwnerInv, DeathInv, StoryInv, CloseInv
    <3> QED
      BY <3>2, <3>a, <3>3 DEF ClientInv
  <2> QED
    BY <2>1, <2>2
<1>6. CASE RunForceClose \/ RunShutdown
  <2>1. /\ tasks # <<>> /\ tasks' = Tail(tasks) /\ UNCHANGED reported
        /\ \/ StillOpen /\ HandleClose
           \/ TaskDone
    BY <1>6 DEF RunForceClose, RunShutdown, Runs
  <2>2. Referenced /\ tasks' \in Seq({"forceClose", "shutdown"}) /\ reported' \in BOOLEAN
    BY <1>0, <2>1 DEF Referenced, TypeOK
  <2>3. CASE StillOpen /\ HandleClose
    <3>1. connection_ \/ mishap # {}
      BY <2>2, <2>3, LooksOpen DEF StillOpen
    <3> QED
      BY <2>2, <2>3, <3>1, HandleCloseStep
  <2>4. CASE TaskDone
    <3>1. /\ Deaths(0)
          /\ UNCHANGED <<client, connectorVars, pollVars, socketVars, connection_, state_,
                         inCallback, storyVars>>
          /\ UNCHANGED <<saved, call>>
      BY <2>1, <2>4 DEF TaskDone
    <3>2. TypeOK'
      <4>1. diedOpen' \in BOOLEAN
        BY <1>0, <3>1 DEF Deaths, TypeOK
      <4> QED
        BY <1>0, <2>2, <3>1, <4>1 DEF TypeOK
    <3> QED
      BY <2>2, <3>1, <3>2, RefStep
  <2> QED
    BY <2>1, <2>3, <2>4
<1>7. CASE UserSaves \/ UserDrops
  <2>1. /\ InUserCode /\ saved' \in BOOLEAN
        /\ UNCHANGED <<client, connectorVars, pollVars, socketVars, connection_, call, tasks, state_,
                       inCallback, storyVars>>
        /\ Deaths(0) \/ (saved' = TRUE /\ UNCHANGED deathVars)
    BY <1>7 DEF UserSaves, UserDrops, InUserCode
  <2>2. Referenced /\ connected_ /\ ~diedOpen
    BY <2>1, UsersPoint
  <2>3. Deaths(0)
    BY <1>0, <2>1, <2>2, NoDeath DEF Referenced
  <2>4. TypeOK'
    <3>1. diedOpen' \in BOOLEAN
      BY <1>0, <2>3 DEF Deaths, TypeOK
    <3> QED
      BY <1>0, <2>1, <3>1 DEF TypeOK
  <2> QED
    BY <2>1, <2>2, <2>3, <2>4, RefStep
<1>8. CASE UserShutdown
  <2>1. /\ InUserCode /\ state_ = "kConnected" /\ state_' = "kDisconnecting"
        /\ UNCHANGED <<client, connectorVars, pollVars, socketVars, refVars, inCallback, storyVars,
                       deathVars>>
    BY <1>8 DEF UserShutdown
  <2>2. Referenced /\ connected_ /\ ~diedOpen /\ connection_
    BY <1>0, <2>1, UsersPoint DEF DeathInv
  <2>3. TypeOK' /\ ConnectorInv' /\ StoryInv'
    BY <1>0, <2>1 DEF TypeOK, ConnectorInv, StoryInv
  <2>4. OwnerInv' /\ DeathInv' /\ CloseInv'
    BY <1>0, <1>a, <2>1, <2>2 DEF OwnerInv, DeathInv, CloseInv
  <2> QED
    BY <2>3, <2>4 DEF ClientInv
<1>9. CASE UserForceClose
  <2>1. InUserCode /\ state_ # "kDisconnected" /\ HandleClose /\ UNCHANGED <<reported, tasks>>
    BY <1>9 DEF UserForceClose
  <2>2. Referenced
    BY <2>1, UsersPoint
  <2>3. connection_ \/ mishap # {}
    BY <2>1, <2>2, LooksOpen
  <2>4. tasks' \in Seq({"forceClose", "shutdown"}) /\ reported' \in BOOLEAN
    BY <1>0, <2>1 DEF TypeOK
  <2> QED
    BY <2>1, <2>2, <2>3, <2>4, HandleCloseStep
<1>10. CASE CallbackReturns
  <2>1. /\ inCallback' = FALSE
        /\ UNCHANGED <<client, connectorVars, pollVars, socketVars, refVars, state_, storyVars,
                       deathVars>>
    BY <1>10 DEF CallbackReturns
  <2>a. inCallback' \in BOOLEAN /\ tasks' = tasks /\ call' = call
    BY <2>1
  <2>b. TypeOK'
    BY <1>0, <2>1, <2>a DEF TypeOK
  <2>2. ConnectorInv' /\ StoryInv'
    BY <1>0, <2>1 DEF ConnectorInv, StoryInv
  <2>3. OwnerInv' /\ DeathInv' /\ CloseInv'
    BY <1>0, <1>a, <2>1 DEF OwnerInv, DeathInv, CloseInv
  <2> QED
    BY <2>b, <2>2, <2>3 DEF ClientInv
<1>11. CASE Destroy
  <2>1. /\ client /\ ~startTask /\ client' = FALSE /\ epoll' = "none" /\ connection_' = FALSE
        /\ UNCHANGED <<connectorVars, reported, socketVars, saved, call, tasks, state_, inCallback,
                       told>>
        /\ mishap \subseteq mishap' /\ (reported => "stale" \in mishap')
        /\ connection_ => ~Referenced'
        /\ Deaths(IF connected_ THEN 0 ELSE 1)
        /\ ~inCallback
    BY <1>11 DEF Destroy
  <2>2. ~connection_ => (Referenced' <=> Referenced)
    BY <1>0, <2>1 DEF Referenced, TypeOK
  <2>3. connection_ => Referenced /\ connected_ /\ state_ # "kDisconnected"
    BY <1>0 DEF Referenced, OwnerInv
  <2>4. /\ diedOpen' = (diedOpen \/ connection_)
        /\ closes' = closes + (IF connection_ THEN 1 ELSE 0) + (IF connected_ THEN 0 ELSE 1)
    <3>1. CASE connection_
      BY <1>0, <2>1, <2>3, <3>1 DEF Deaths, TypeOK, CloseInv
    <3>2. CASE ~connection_
      BY <1>0, <2>1, <2>2, <3>2 DEF Deaths, TypeOK, CloseInv
    <3> QED
      BY <3>1, <3>2
  <2>a. TypeOK'
    BY <1>0, <2>1, <2>4 DEF TypeOK
  <2>5. ConnectorInv' /\ StoryInv'
    BY <1>0, <2>1 DEF ConnectorInv, StoryInv
  <2>6. OwnerInv'
    BY <1>0, <2>1, <2>2, <2>3, <2>4 DEF OwnerInv
  <2>7. DeathInv'
    BY <1>0, <2>1, <2>2, <2>4 DEF DeathInv
  <2>8. CloseInv'
    BY <1>0, <2>1, <2>2, <2>3, <2>4 DEF CloseInv
  <2> QED
    BY <2>a, <2>5, <2>6, <2>7, <2>8 DEF ClientInv
<1>12. ASSUME NEW th \in Threads, UserShares(th) PROVE ClientInv'
  <2>1. /\ InUserCode /\ call' = [call EXCEPT ![th] = "idle"]
        /\ UNCHANGED <<client, connectorVars, pollVars, socketVars, connection_, saved, tasks, state_,
                       inCallback, storyVars, deathVars>>
    BY <1>12 DEF UserShares
  <2>2. TypeOK' /\ call'[th] = "idle"
    BY <1>0, <2>1 DEF TypeOK
  <2>3. Referenced' /\ Referenced /\ connected_
    BY <2>1, <2>2, UsersPoint DEF Referenced
  <2>4. Deaths(0)
    BY <1>0, <2>1, <2>3, NoDeath
  <2> QED
    BY <2>1, <2>2, <2>3, <2>4, RefStep
<1>13. ASSUME NEW th \in Threads, ForceCloseTest(th) \/ ShutdownTest(th) \/ Post(th) PROVE ClientInv'
  <2>1. PICK from, to \in {"idle", "forceClose", "store", "shutdown"} : Goes(th, from, to)
    BY <1>13 DEF ForceCloseTest, ShutdownTest, Post
  <2>2. /\ call[th] # "out" /\ call' = [call EXCEPT ![th] = to]
        /\ UNCHANGED <<client, connectorVars, pollVars, socketVars, connection_, saved, inCallback,
                       told>>
    BY <2>1 DEF Goes
  <2>3. UNCHANGED <<state_, mishap, deathVars>> /\ tasks' \in Seq({"forceClose", "shutdown"})
    BY <1>0, <1>13 DEF ForceCloseTest, ShutdownTest, Post, TypeOK
  <2>4. TypeOK' /\ call'[th] # "out"
    BY <1>0, <2>2, <2>3 DEF TypeOK
  <2>5. Referenced /\ Referenced'
    BY <2>2, <2>4 DEF Referenced
  <2>6. connected_
    BY <1>0, <2>5 DEF OwnerInv
  <2>7. Deaths(0)
    BY <1>0, <2>3, <2>5, <2>6, NoDeath
  <2> QED
    BY <2>2, <2>3, <2>4, <2>5, <2>7, RefStep
<1>14. ASSUME NEW th \in Threads, ShutdownStore(th) PROVE ClientInv'
  <2>1. /\ call[th] = "store" /\ call' = [call EXCEPT ![th] = "shutdown"]
        /\ state_' = "kDisconnecting"
        /\ mishap \subseteq mishap' /\ (state_ = "kDisconnected" => "stored" \in mishap')
        /\ UNCHANGED <<client, connectorVars, pollVars, socketVars, connection_, saved, inCallback,
                       told, tasks, deathVars>>
    BY <1>14 DEF ShutdownStore, Goes
  <2>2. TypeOK' /\ call'[th] = "shutdown"
    BY <1>0, <2>1 DEF TypeOK
  <2>3. Referenced /\ Referenced'
    BY <2>1, <2>2 DEF Referenced
  <2>4. connected_ /\ ~diedOpen
    BY <1>0, <2>3 DEF OwnerInv, DeathInv
  <2>5. ConnectorInv' /\ StoryInv'
    BY <1>0, <2>1 DEF ConnectorInv, StoryInv
  <2>6. OwnerInv'
    BY <1>0, <2>1, <2>4 DEF OwnerInv
  <2>7. DeathInv'
    BY <1>0, <2>1, <2>4 DEF DeathInv
  <2>8. CloseInv'
    BY <1>0, <2>1, <2>3, <2>4 DEF CloseInv
  <2> QED
    BY <2>2, <2>5, <2>6, <2>7, <2>8 DEF ClientInv
<1>15. ASSUME NEW th \in Threads, Release(th) PROVE ClientInv'
  <2>1. /\ call[th] = "idle" /\ call' = [call EXCEPT ![th] = "out"] /\ Deaths(0)
        /\ UNCHANGED <<client, connectorVars, pollVars, socketVars, connection_, saved, inCallback,
                       told, tasks, state_, mishap>>
    BY <1>15 DEF Release, Goes
  <2>2. TypeOK'
    <3>1. diedOpen' \in BOOLEAN
      BY <1>0, <2>1 DEF Deaths, TypeOK
    <3> QED
      BY <1>0, <2>1, <3>1 DEF TypeOK
  <2>3. Referenced
    BY <2>1 DEF Referenced
  <2> QED
    BY <2>1, <2>2, <2>3, RefStep
<1>16. CASE ConnectSucceeds \/ ConnectFails
  <2>1. /\ sock = "connecting"
        /\ \/ soError' = TRUE /\ sock' = "failed"
           \/ soError' = soError /\ sock' = "established"
        /\ UNCHANGED <<client, connectorVars, pollVars, peerFin, atOnce, connVars>>
    <3>1. CASE ConnectSucceeds
      BY <3>1 DEF ConnectSucceeds
    <3>2. CASE ConnectFails
      <4>1. sock = "connecting" /\ sock' = "failed" /\ soError' = TRUE
            /\ UNCHANGED <<client, connectorVars, pollVars, peerFin, atOnce, connVars>>
        BY <3>2 DEF ConnectFails
      <4> QED
        BY <4>1, Zenon
    <3> QED
      BY <1>16, <3>1, <3>2
  <2>2. told = <<>> /\ ~atOnce /\ ~soError /\ started_ /\ ~connected_
    BY <1>0, <2>1, Stories DEF ConnectorInv, OwnerInv
  <2>c. /\ soError' \in BOOLEAN /\ sock' \in {"new", "connecting", "established", "failed"}
        /\ tasks' = tasks /\ call' = call
    BY <1>0, <2>1 DEF TypeOK
  <2>a. TypeOK'
    BY <1>0, <2>1, <2>c DEF TypeOK
  <2>b. ConnectorInv'
    BY <1>0, <2>1, <2>2 DEF ConnectorInv
  <2>3. StoryInv'
    BY <1>0, <2>1, <2>2, Stories DEF StoryInv
  <2>4. OwnerInv' /\ DeathInv' /\ CloseInv'
    BY <1>0, <1>a, <2>1 DEF OwnerInv, DeathInv, CloseInv
  <2> QED
    BY <2>a, <2>b, <2>3, <2>4 DEF ClientInv
<1>17. CASE PeerCloses \/ UNCHANGED vars
  <2>1. UNCHANGED <<client, connectorVars, pollVars, sock, soError, atOnce, connVars>>
    BY <1>17 DEF PeerCloses, vars
  <2>2. TypeOK' /\ ConnectorInv' /\ StoryInv'
    BY <1>0, <2>1 DEF TypeOK, ConnectorInv, StoryInv
  <2>3. OwnerInv' /\ DeathInv' /\ CloseInv'
    BY <1>0, <1>a, <2>1 DEF OwnerInv, DeathInv, CloseInv
  <2> QED
    BY <2>2, <2>3 DEF ClientInv
<1> QED
  BY <1>1, <1>2, <1>3, <1>4, <1>5, <1>6, <1>7, <1>8, <1>9, <1>10, <1>11, <1>12, <1>13,
     <1>14, <1>15, <1>16, <1>17 DEF Next

\* The invariant holds in every reachable state of the client.
LEMMA ClientInvariant == Spec => []ClientInv
<1>1. ASSUME Init PROVE ClientInv
  <2>0. ~Referenced
    BY <1>1 DEF Init, Referenced
  <2>1. TypeOK
    <3>1. tasks \in Seq({"forceClose", "shutdown"})
      BY <1>1 DEF Init
    <3>2. call \in [Threads -> {"out", "idle", "forceClose", "store", "shutdown"}]
      BY <1>1 DEF Init
    <3> QED
      BY <1>1, <3>1, <3>2 DEF Init, TypeOK
  <2>2. ConnectorInv
    BY <1>1 DEF Init, ConnectorInv
  <2>3. OwnerInv /\ CloseInv
    BY <1>1, <2>0 DEF Init, OwnerInv, CloseInv
  <2>4. StoryInv /\ DeathInv
    BY <1>1, Stories DEF Init, StoryInv, DeathInv
  <2> QED
    BY <2>1, <2>2, <2>3, <2>4 DEF ClientInv
<1> QED
  BY <1>1, ClientInvStep, PTL DEF Spec

-----------------------------------------------------------------------------
(***************************************************************************)
(* cfd_ is closed exactly once, by the Connector or by the TcpConnection   *)
(* (~Connector() looks at connected_, ~TcpConnection() always closes).     *)
(***************************************************************************)
THEOREM DescriptorClosedOnce == Spec => []ClosedOnce
<1>1. ClientInv => ClosedOnce
  BY DEF ClientInv, TypeOK, CloseInv, ClosedOnce
<1> QED
  BY <1>1, ClientInvariant, PTL

(***************************************************************************)
(* The client's connection has its own channel in epoll, the Connector's   *)
(* having been removed, unless connect() was over at once.                 *)
(***************************************************************************)
THEOREM EpollHandedOver == Spec => []HandedOver
<1>1. ClientInv => HandedOver
  BY DEF ClientInv, OwnerInv, HandedOver
<1> QED
  BY <1>1, ClientInvariant, PTL

(***************************************************************************)
(* The callbacks of newConnection(), closeConnection() and handleWrite()   *)
(* tell the application a consistent story, the true one; only after the   *)
(* race of shutdown() or a stale event does it hear of a second close.     *)
(***************************************************************************)
THEOREM StoryInOrder == Spec => []ToldInOrder
<1>1. ClientInv => ToldInOrder
  <2> SUFFICES ASSUME ClientInv PROVE ToldInOrder
    OBVIOUS
  <2>1. \/ told = <<>>
        \/ told = <<"error">> /\ ~connected_
        \/ Story(told) /\ connected_
    BY DEF ClientInv, TypeOK, OwnerInv
  <2>2. <<"error">>[1] = "error"
    OBVIOUS
  <2>3. told # <<>> /\ ~atOnce => (told[1] = "up" <=> sock = "established")
    BY <2>1, <2>2 DEF ClientInv, StoryInv, Story
  <2>4. told \in {<<>>, <<"error">>}
        \/ (told[1] = "up" /\ \A i \in 2..Len(told) : told[i] = "down")
    BY <2>1 DEF Story
  <2>5. Len(told) > 2 => mishap # {}
    BY DEF ClientInv, DeathInv
  <2> QED
    BY <2>3, <2>4, <2>5 DEF ToldInOrder
<1> QED
  BY <1>1, ClientInvariant, PTL

(***************************************************************************)
(* The assertion of ~TcpConnection() can fail in ~TcpClient() or after the *)
(* race of shutdown() with the close, and nowhere else.                    *)
(***************************************************************************)
THEOREM OpenDeathsNamed == Spec => []DiesClosed
<1>1. ClientInv => DiesClosed
  BY DEF ClientInv, DeathInv, DiesClosed
<1> QED
  BY <1>1, ClientInvariant, PTL
=============================================================================

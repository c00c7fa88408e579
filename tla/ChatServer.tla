----------------------------- MODULE ChatServer -----------------------------
(***************************************************************************)
(* The chat example: LenHeaderCodec frames messages with their length, on  *)
(* both sides; ChatServer, on one loop, sends what a user says to all the  *)
(* others.  TCP hands over the bytes of a stream in chunks of any size.    *)
(*                                                                         *)
(* A byte of a header is <<"len", l, k>>, the k-th of the length l; a byte *)
(* of a message is <<"body", m, k>>.  Output is what TcpConnection         *)
(* promises (StreamIntact): the bytes of send() arrive in order.           *)
(***************************************************************************)
EXTENDS Integers, Sequences, SequencesExt

CONSTANTS
    Users,        \* the clients; each connects once
    Speakers,     \* bound: the users that say something
    Messages,     \* what they say; each message is said once
    Length,       \* the length each message is announced with
    kHeaderLen,   \* bytes of a header
    MaxLen        \* the longest length accepted, 65536 in the code

ASSUME ChatAssumption ==
    /\ Speakers \subseteq Users
    /\ Length \in [Messages -> Int]
    /\ kHeaderLen \in Nat \ {0}
    /\ MaxLen \in Nat

VARIABLES
    connections_,  \* ChatServer::connections_
    state,         \* state_ of the server's connection with each user
    up,            \* bytes on their way to the server
    inBuffer_,     \* the server's inBuffer_ for each user
    down,          \* bytes on their way to each user
    clientBuffer,  \* the inBuffer_ of each user
    said,          \* history: what each user sent, in order
    heard,         \* history: stringMessageCallback_ of each user
    taken,         \* history: what the server took from each user, in order
    owed           \* history: what it took from others while the user was connected

chatVars ==
    <<connections_, state, up, inBuffer_, down, clientBuffer, said, heard, taken, owed>>

ChatInit ==
    /\ connections_ = {}
    /\ state = [u \in Users |-> "kConnecting"]
    /\ up = [u \in Users |-> <<>>] /\ inBuffer_ = up
    /\ down = up /\ clientBuffer = up
    /\ said = up /\ heard = up
    /\ taken = up /\ owed = up

-----------------------------------------------------------------------------
(* LenHeaderCodec.                                                         *)

Body(m) == [k \in 1..Length[m] |-> <<"body", m, k>>]

\* codec_.send(): the header is put in front of the message.
Framed(length, body) == [k \in 1..kHeaderLen |-> <<"len", length, k>>] \o body

\* What ntohl(peekInt32()) makes of bytes that are no header is a length out
\* of range.
LengthAt(buf, i) == IF buf[i][1] = "len" /\ buf[i][3] = 1 THEN buf[i][2] ELSE -1

\* Wrong: one byte more, or one less, than the limit.
Acceptable_OneMore(length) == length \in 0..(MaxLen + 1)
Acceptable_OneLess(length) == length \in 0..(MaxLen - 1)

\* The test of the length.
Acceptable(length) == length \in 0..MaxLen

(***************************************************************************)
(* onMessage() on a buffer: the messages it calls back with, what stays in *)
(* the buffer, and whether it met a length out of range, whose header      *)
(* stays in the buffer.                                                    *)
(***************************************************************************)
Parse(buf) ==
    LET stop(i, bad) == [messages |-> <<>>, rest |-> SubSeq(buf, i, Len(buf)), bad |-> bad]
        from[i \in 1..(Len(buf) + 1)] ==
            LET first == i + kHeaderLen
                last == first + LengthAt(buf, i) - 1
            IN  IF first > Len(buf) + 1 THEN stop(i, FALSE)
                ELSE IF ~Acceptable(LengthAt(buf, i)) THEN stop(i, TRUE)
                ELSE IF last > Len(buf) THEN stop(i, FALSE)
                ELSE [from[last + 1] EXCEPT !.messages = <<SubSeq(buf, first, last)>> \o @]
    IN  from[1]

-----------------------------------------------------------------------------
(* ChatServer.                                                             *)

\* onConnection() of a new connection, ...
Online(u) ==
    /\ state[u] = "kConnecting"
    /\ state' = [state EXCEPT ![u] = "kConnected"]
    /\ connections_' = connections_ \cup {u}
    /\ UNCHANGED <<up, inBuffer_, down, clientBuffer, said, heard, taken, owed>>

\* ... and of one that the user, or handleClose(), closed at any time: bytes
\* on their way are lost.
Offline(u) ==
    /\ state[u] \in {"kConnected", "kDisconnecting"}
    /\ state' = [state EXCEPT ![u] = "kDisconnected"]
    /\ connections_' = connections_ \ {u}
    /\ up' = [up EXCEPT ![u] = <<>>]
    /\ down' = [down EXCEPT ![u] = <<>>]
    /\ UNCHANGED <<inBuffer_, clientBuffer, said, heard, taken, owed>>

\* Wrong: the sender gets its message back.
Audience_WithSender(u) == connections_

\* Whom onMessage() sends a message of u to.
Audience(u) == connections_ \ {u}

(***************************************************************************)
(* n bytes of u are read and run through the codec; each message goes to   *)
(* the others, where send() gives up on a connection that was shut down.   *)
(***************************************************************************)
ServerReads(u, n) ==
    LET parsed == Parse(inBuffer_[u] \o SubSeq(up[u], 1, n))
        frames == FlattenSeq([i \in 1..Len(parsed.messages) |->
                      Framed(Len(parsed.messages[i]), parsed.messages[i])])
        takers == {v \in Users : state[v] = "kConnected"}
    IN  /\ u \in connections_
        /\ up' = [up EXCEPT ![u] = SubSeq(@, n + 1, Len(@))]
        /\ inBuffer_' = [inBuffer_ EXCEPT ![u] = parsed.rest]
        /\ down' = [v \in Users |-> IF v \in Audience(u) \cap takers
                                    THEN down[v] \o frames ELSE down[v]]
        /\ taken' = [taken EXCEPT ![u] = @ \o parsed.messages]
        /\ owed' = [v \in Users |-> IF v \in takers \ {u}
                                    THEN owed[v] \o parsed.messages ELSE owed[v]]
        /\ state' = IF parsed.bad /\ u \in takers
                    THEN [state EXCEPT ![u] = "kDisconnecting"] ELSE state
        /\ UNCHANGED <<connections_, clientBuffer, said, heard>>

-----------------------------------------------------------------------------
(* The users, whose clients use the same codec.  A user that is not a      *)
(* ChatClient may also announce a negative length.                         *)

Says(u, m) ==
    /\ u \in connections_ \cap Speakers
    /\ \A v \in Users : m \notin Range(said[v])
    /\ said' = [said EXCEPT ![u] = Append(@, m)]
    /\ up' = [up EXCEPT ![u] = @ \o Framed(Length[m], Body(m))]
    /\ UNCHANGED <<connections_, state, inBuffer_, down, clientBuffer, heard, taken, owed>>

\* ChatClient::onMessage() for what arrives.
UserReads(u, n) ==
    LET parsed == Parse(clientBuffer[u] \o SubSeq(down[u], 1, n))
    IN  /\ u \in connections_
        /\ down' = [down EXCEPT ![u] = SubSeq(@, n + 1, Len(@))]
        /\ clientBuffer' = [clientBuffer EXCEPT ![u] = parsed.rest]
        /\ heard' = [heard EXCEPT ![u] = @ \o parsed.messages]
        /\ UNCHANGED <<connections_, state, up, inBuffer_, said, taken, owed>>

ServerReadsSome(u) == \E n \in 1..Len(up[u]) : ServerReads(u, n)
UserReadsSome(u) == \E n \in 1..Len(down[u]) : UserReads(u, n)

ChatNext == \E u \in Users :
    \/ Online(u) \/ Offline(u)
    \/ ServerReadsSome(u) \/ UserReadsSome(u)
    \/ \E m \in Messages : Says(u, m)

ChatSpec == ChatInit /\ [][ChatNext]_chatVars

\* What was sent arrives, as long as the connection stays open.
ChatFairSpec ==
    /\ ChatSpec
    /\ \A u \in Users : WF_chatVars(ServerReadsSome(u)) /\ WF_chatVars(UserReadsSome(u))

-----------------------------------------------------------------------------
(* Properties.                                                             *)

\* A message whose length is allowed.
Proper(m) == Length[m] \in 0..MaxLen

(***************************************************************************)
(* LenHeaderCodec::onMessage() finds the messages again wherever the       *)
(* stream is cut, headers included, and takes nothing from the first       *)
(* length out of range on.                                                 *)
(***************************************************************************)
MessagesFramed ==
    \A u \in Users :
        /\ Len(taken[u]) <= Len(said[u])
        /\ \A i \in 1..Len(taken[u]) :
              Proper(said[u][i]) /\ taken[u][i] = Body(said[u][i])

(***************************************************************************)
(* Everybody hears what the others said while he was connected, whole, in  *)
(* the order in which the server took it, and not what he said himself.    *)
(***************************************************************************)
HeardInOrder == \A u \in Users : IsPrefix(heard[u], owed[u])

\* All that u said was taken, up to the first message that is not proper.
AllTaken(u) ==
    \/ Len(taken[u]) = Len(said[u])
    \/ Len(taken[u]) < Len(said[u]) /\ ~Proper(said[u][Len(taken[u]) + 1])

(***************************************************************************)
(* As long as the users stay, every proper message is taken and heard by   *)
(* everyone connected: a length of exactly MaxLen and an empty message     *)
(* included, and a header that is still incomplete is waited for.          *)
(***************************************************************************)
AllHeard ==
    \A u \in Users :
        /\ []<>(u \in connections_ => AllTaken(u))
        /\ []<>(u \in connections_ => heard[u] = owed[u])
=============================================================================

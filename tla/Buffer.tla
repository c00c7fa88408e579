------------------------------- MODULE Buffer -------------------------------
(***************************************************************************)
(* yvent::Buffer: a vector with a read and a write index.                  *)
(*                                                                         *)
(*    | prependable | readable bytes | writable |                          *)
(*    0        readerIndex_     writerIndex_   size                        *)
(*                                                                         *)
(* buffer_[i + 1] is the byte at offset i.  The member functions are       *)
(* operators on a Buffer value b, and the specification calls them in any  *)
(* order their assertions allow.                                           *)
(***************************************************************************)
EXTENDS Naturals, Sequences

CONSTANTS
    Byte,           \* values of a byte
    Chunks,         \* byte strings passed to append(), prepend(), read by readFd()
    Zero,           \* the byte vector::resize() fills with
    kCheapPrepend,
    kInitialSize,
    ExtraSize,      \* sizeof extrabuf in readFd()
    MaxReadable     \* bound: readable bytes

ASSUME ChunksAssumption == \A c \in Chunks : c \in Seq(Byte)

ASSUME SizeAssumption ==
    /\ Zero \in Byte
    /\ kCheapPrepend \in Nat
    /\ kInitialSize \in Nat
    /\ ExtraSize \in Nat
    /\ MaxReadable \in Nat

VARIABLE b  \* a Buffer object

BufferType ==
    [buffer_ : Seq(Byte), readerIndex_ : Nat, writerIndex_ : Nat]

Init ==
    b = [buffer_ |-> [i \in 1..(kCheapPrepend + kInitialSize) |-> Zero],
         readerIndex_ |-> kCheapPrepend,
         writerIndex_ |-> kCheapPrepend]

-----------------------------------------------------------------------------
size(x) == Len(x.buffer_)
writableBytes(x) == size(x) - x.writerIndex_
readableBytes(x) == x.writerIndex_ - x.readerIndex_
prependableBytes(x) == x.readerIndex_

\* The readable bytes.
Readable(x) == SubSeq(x.buffer_, x.readerIndex_ + 1, x.writerIndex_)

\* std::copy of data to offset at.
Copy(buffer, at, data) ==
    [i \in 1..Len(buffer) |->
        IF at < i /\ i <= at + Len(data) THEN data[i - at] ELSE buffer[i]]

Resize(buffer, n) == [i \in 1..n |-> IF i <= Len(buffer) THEN buffer[i] ELSE Zero]

\* makeSpace(): the vector grows unless moving the bytes to the front makes
\* room for len more and leaves kCheapPrepend.
MustGrow(x, len) == writableBytes(x) + prependableBytes(x) < len + kCheapPrepend

\* Wrong: the grown vector has no room for the bytes already there.
GrownSize_TooSmall(x, len) == x.readerIndex_ + len

GrownSize(x, len) == x.writerIndex_ + len

\* Wrong: compacting copies from the start of the vector.
Moved_FromStart(x) == SubSeq(x.buffer_, 1, readableBytes(x))

\* What compacting copies to kCheapPrepend.
Moved(x) == Readable(x)

makeSpace(x, len) ==
    IF MustGrow(x, len)
    THEN [x EXCEPT !.buffer_ = Resize(@, GrownSize(x, len))]
    ELSE [buffer_ |-> Copy(x.buffer_, kCheapPrepend, Moved(x)),
          readerIndex_ |-> kCheapPrepend,
          writerIndex_ |-> kCheapPrepend + readableBytes(x)]

ensureWritableBytes(x, len) == IF writableBytes(x) < len THEN makeSpace(x, len) ELSE x

\* append() and hasWritten().
append(x, data) ==
    LET y == ensureWritableBytes(x, Len(data))
    IN  [y EXCEPT !.buffer_ = Copy(@, y.writerIndex_, data),
                  !.writerIndex_ = @ + Len(data)]

prepend(x, data) ==
    LET at == x.readerIndex_ - Len(data)
    IN  [x EXCEPT !.buffer_ = Copy(@, at, data), !.readerIndex_ = at]

retrieveAll(x) ==
    [x EXCEPT !.readerIndex_ = kCheapPrepend, !.writerIndex_ = kCheapPrepend]

retrieve(x, len) ==
    IF len < readableBytes(x) THEN [x EXCEPT !.readerIndex_ = @ + len]
    ELSE retrieveAll(x)

\* Wrong: what readv() put in extrabuf is dropped.
readFd_NoExtra(x, data) ==
    IF Len(data) <= writableBytes(x)
    THEN [x EXCEPT !.buffer_ = Copy(@, x.writerIndex_, data),
                   !.writerIndex_ = @ + Len(data)]
    ELSE [x EXCEPT !.buffer_ = Copy(@, x.writerIndex_, SubSeq(data, 1, writableBytes(x))),
                   !.writerIndex_ = size(x)]

\* readFd() when readv() returns data: first into the writable bytes, then
\* into extrabuf, which is appended.
readFd(x, data) ==
    IF Len(data) <= writableBytes(x)
    THEN [x EXCEPT !.buffer_ = Copy(@, x.writerIndex_, data),
                   !.writerIndex_ = @ + Len(data)]
    ELSE append([x EXCEPT !.buffer_ =
                            Copy(@, x.writerIndex_, SubSeq(data, 1, writableBytes(x))),
                          !.writerIndex_ = size(x)],
                SubSeq(data, writableBytes(x) + 1, Len(data)))

\* How much readv() can read: extrabuf counts if the buffer is smaller.
ReadLimit(x) ==
    writableBytes(x) + (IF writableBytes(x) < ExtraSize THEN ExtraSize ELSE 0)

-----------------------------------------------------------------------------
Append_(data) ==
    /\ readableBytes(b) + Len(data) <= MaxReadable
    /\ b' = append(b, data)

Prepend_(data) ==
    /\ Len(data) <= prependableBytes(b)
    /\ readableBytes(b) + Len(data) <= MaxReadable
    /\ b' = prepend(b, data)

\* retrieve(), retrieve32(), retrieveUntil() and retrieveAsString().
Retrieve_(len) ==
    /\ len <= readableBytes(b)
    /\ b' = retrieve(b, len)

RetrieveAll_ == b' = retrieveAll(b)

ReadFd_(data) ==
    /\ Len(data) <= ReadLimit(b)
    /\ readableBytes(b) + Len(data) <= MaxReadable
    /\ b' = readFd(b, data)

Next ==
    \/ \E data \in Chunks : Append_(data) \/ Prepend_(data) \/ ReadFd_(data)
    \/ \E len \in 0..MaxReadable : Retrieve_(len)
    \/ RetrieveAll_

Spec == Init /\ [][Next]_b

-----------------------------------------------------------------------------
(* Properties.                                                             *)

\* The members have their types, and the indexes are in order: no access of a
\* member function leaves the vector.
TypeOK ==
    /\ b \in BufferType
    /\ b.readerIndex_ <= b.writerIndex_
    /\ b.writerIndex_ <= size(b)

(***************************************************************************)
(* Every call does exactly what it is asked, in every state and for every  *)
(* argument: append() and readFd() add all of the data at the end, through *)
(* growth, compaction and extrabuf, prepend() adds it in front, and        *)
(* makeSpace() moves bytes only towards the front, as it asserts.          *)
(***************************************************************************)
CallsAreExact ==
    \A data \in Chunks :
        /\ Readable(append(b, data)) = Readable(b) \o data
        /\ Len(data) <= ReadLimit(b) => Readable(readFd(b, data)) = Readable(b) \o data
        /\ Len(data) <= prependableBytes(b) => Readable(prepend(b, data)) = data \o Readable(b)
        /\ LET y == ensureWritableBytes(b, Len(data))
           IN  y.readerIndex_ # b.readerIndex_ => kCheapPrepend < b.readerIndex_

BQ == INSTANCE ByteQueue WITH bytes <- Readable(b)

\* No call loses, alters or reorders the bytes the buffer already holds: every
\* step is a step of the queue of bytes.
ImplementsByteQueue == BQ!BQSpec
=============================================================================

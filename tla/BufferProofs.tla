---------------------------- MODULE BufferProofs ----------------------------
(***************************************************************************)
(* Proofs about Buffer for every initial size, prepend area, size of       *)
(* extrabuf and content.                                                   *)
(***************************************************************************)
EXTENDS Buffer, SequenceTheorems, TLAPS

\* TypeOK of any Buffer value, in which there is room for the prepend area.
Valid(x) ==
    /\ x \in BufferType
    /\ kCheapPrepend <= size(x)
    /\ x.readerIndex_ <= x.writerIndex_
    /\ x.writerIndex_ <= size(x)

\* The readable bytes of x are the sequence s.
Holds(x, s) ==
    /\ s \in Seq(Byte)
    /\ Len(s) = x.writerIndex_ - x.readerIndex_
    /\ \A i \in 1..Len(s) : x.buffer_[x.readerIndex_ + i] = s[i]

-----------------------------------------------------------------------------
(* Sequences of bytes.                                                     *)

\* Readable() is what a valid buffer holds, and nothing else.
LEMMA HoldsReadable ==
    ASSUME NEW x, Valid(x)
    PROVE  Holds(x, Readable(x)) /\ \A s : Holds(x, s) => s = Readable(x)
<1> DEFINE buf == x.buffer_  r == x.readerIndex_  w == x.writerIndex_
<1>1. buf \in Seq(Byte) /\ r \in Nat /\ w \in Nat /\ r <= w /\ w <= Len(buf)
  BY DEF Valid, BufferType, size
<1>2. Readable(x) = SubSeq(buf, r + 1, w)
  BY DEF Readable
<1> HIDE DEF buf, r, w
<1>3. /\ SubSeq(buf, r + 1, w) \in Seq(Byte)
      /\ Len(SubSeq(buf, r + 1, w)) = w - r
      /\ \A i \in 1..(w - r) : SubSeq(buf, r + 1, w)[i] = buf[r + i]
  BY <1>1
<1>4. Holds(x, Readable(x))
  BY <1>2, <1>3 DEF Holds, buf, r, w
<1>5. ASSUME NEW s, Holds(x, s) PROVE s = Readable(x)
  <2>1. s \in Seq(Byte) /\ Len(s) = w - r /\ \A i \in 1..Len(s) : buf[r + i] = s[i]
    BY <1>5 DEF Holds, buf, r, w
  <2> DEFINE t == SubSeq(buf, r + 1, w)
  <2>2. t \in Seq(Byte) /\ Len(s) = Len(t) /\ \A i \in 1..Len(s) : s[i] = t[i]
    BY <1>3, <2>1
  <2> HIDE DEF t
  <2>3. s = t
    BY <2>1, <2>2, SeqEqual
  <2> QED
    BY <1>2, <2>3 DEF t
<1> QED
  BY <1>4, <1>5

\* std::copy writes data at its offset and leaves the rest alone.
LEMMA CopyIs ==
    ASSUME NEW buf \in Seq(Byte), NEW at \in Nat, NEW data \in Seq(Byte)
    PROVE  /\ Copy(buf, at, data) \in Seq(Byte) /\ Len(Copy(buf, at, data)) = Len(buf)
           /\ \A i \in 1..Len(buf) : i <= at \/ at + Len(data) < i => Copy(buf, at, data)[i] = buf[i]
           /\ at + Len(data) <= Len(buf) =>
                \A i \in 1..Len(data) : Copy(buf, at, data)[at + i] = data[i]
<1> DEFINE c == Copy(buf, at, data)  n == Len(buf)  d == Len(data)
<1>1. n \in Nat /\ d \in Nat
  OBVIOUS
<1>2. ASSUME NEW i \in 1..n
      PROVE  (IF at < i /\ i <= at + d THEN data[i - at] ELSE buf[i]) \in Byte
  <2>1. CASE at < i /\ i <= at + d
    <3>1. i - at \in 1..d
      BY <1>1, <2>1
    <3> QED
      BY <2>1, <3>1
  <2>2. CASE ~(at < i /\ i <= at + d)
    BY <2>2
  <2> QED
    BY <2>1, <2>2
<1>3. c \in [1..n -> Byte]
  BY <1>2 DEF Copy
<1>4. c \in Seq(Byte) /\ Len(c) = n
  BY <1>1, <1>3
<1>5. \A i \in 1..n : c[i] = IF at < i /\ i <= at + d THEN data[i - at] ELSE buf[i]
  BY DEF Copy
<1> HIDE DEF c
<1>6. ASSUME NEW i \in 1..n, i <= at \/ at + d < i PROVE c[i] = buf[i]
  BY <1>1, <1>5, <1>6
<1>7. ASSUME at + d <= n, NEW i \in 1..d PROVE c[at + i] = data[i]
  <2>1. at + i \in 1..n /\ at < at + i /\ at + i <= at + d /\ (at + i) - at = i
    BY <1>1, <1>7
  <2>2. c[at + i] = data[(at + i) - at]
    BY <1>5, <2>1
  <2> QED
    BY <2>1, <2>2
<1> QED
  BY <1>4, <1>6, <1>7 DEF c

\* vector::resize() to a larger size keeps what was there.
LEMMA ResizeIs ==
    ASSUME NEW buf \in Seq(Byte), NEW n \in Nat
    PROVE  /\ Resize(buf, n) \in Seq(Byte) /\ Len(Resize(buf, n)) = n
           /\ \A i \in 1..n : i <= Len(buf) => Resize(buf, n)[i] = buf[i]
<1>1. \A i \in 1..n : (IF i <= Len(buf) THEN buf[i] ELSE Zero) \in Byte
  BY SizeAssumption
<1>2. Resize(buf, n) \in [1..n -> Byte]
  BY <1>1 DEF Resize
<1>3. Resize(buf, n) \in Seq(Byte) /\ Len(Resize(buf, n)) = n
  BY <1>2
<1> QED
  BY <1>3 DEF Resize

-----------------------------------------------------------------------------
(* The member functions.                                                   *)

\* The members of a valid buffer.
LEMMA Members ==
    ASSUME NEW x, Valid(x)
    PROVE  /\ x.buffer_ \in Seq(Byte) /\ Len(x.buffer_) \in Nat
           /\ kCheapPrepend \in Nat /\ kCheapPrepend <= Len(x.buffer_)
           /\ x.readerIndex_ \in Nat /\ x.writerIndex_ \in Nat
           /\ x.readerIndex_ <= x.writerIndex_ /\ x.writerIndex_ <= Len(x.buffer_)
           /\ size(x) = Len(x.buffer_)
           /\ writableBytes(x) = Len(x.buffer_) - x.writerIndex_
           /\ readableBytes(x) = x.writerIndex_ - x.readerIndex_
           /\ prependableBytes(x) = x.readerIndex_
BY SizeAssumption DEF Valid, BufferType, size, writableBytes, readableBytes, prependableBytes

\* A buffer from its members.
LEMMA Made ==
    ASSUME NEW y, NEW buf \in Seq(Byte), NEW r \in Nat, NEW w \in Nat,
           y = [buffer_ |-> buf, readerIndex_ |-> r, writerIndex_ |-> w],
           r <= w, w <= Len(buf), kCheapPrepend <= Len(buf)
    PROVE  Valid(y) /\ y.buffer_ = buf /\ y.readerIndex_ = r /\ y.writerIndex_ = w
BY DEF Valid, BufferType, size

\* makeSpace() makes room for len bytes, keeps what is readable, and moves it,
\* if at all, towards the front.
LEMMA MakeSpaceIs ==
    ASSUME NEW x, Valid(x), NEW len \in Nat, writableBytes(x) < len, NEW s, Holds(x, s)
    PROVE  /\ Valid(makeSpace(x, len)) /\ Holds(makeSpace(x, len), s)
           /\ len <= writableBytes(makeSpace(x, len))
           /\ makeSpace(x, len).readerIndex_ # x.readerIndex_ => kCheapPrepend < x.readerIndex_
<1> DEFINE buf == x.buffer_  r == x.readerIndex_  w == x.writerIndex_
           y == makeSpace(x, len)
<1>0. /\ buf \in Seq(Byte) /\ Len(buf) \in Nat /\ r \in Nat /\ w \in Nat
      /\ r <= w /\ w <= Len(buf) /\ Len(buf) - w < len
      /\ kCheapPrepend \in Nat /\ kCheapPrepend <= Len(buf)
      /\ x = [buffer_ |-> buf, readerIndex_ |-> r, writerIndex_ |-> w]
  BY Members DEF Valid, BufferType
<1>s. /\ s \in Seq(Byte) /\ Len(s) \in Nat /\ Len(s) = w - r
      /\ \A i \in 1..Len(s) : buf[r + i] = s[i]
  BY DEF Holds
<1>m. MustGrow(x, len) <=> (Len(buf) - w) + r < len + kCheapPrepend
  BY Members DEF MustGrow
<1>1. CASE MustGrow(x, len)
  <2> DEFINE nb == Resize(buf, w + len)
  <2>1. y = [buffer_ |-> nb, readerIndex_ |-> r, writerIndex_ |-> w]
    BY <1>0, <1>1 DEF makeSpace, GrownSize
  <2>2. nb \in Seq(Byte) /\ Len(nb) = w + len /\ w + len \in Nat
        /\ \A i \in 1..(w + len) : i <= Len(buf) => nb[i] = buf[i]
    <3>1. w + len \in Nat
      BY <1>0
    <3> QED
      BY <1>0, <3>1, ResizeIs
  <2> HIDE DEF nb
  <2>3. w <= Len(nb) /\ kCheapPrepend <= Len(nb)
    BY <1>0, <2>2
  <2> HIDE DEF buf, r, w, y
  <2>4. Valid(y) /\ y.buffer_ = nb /\ y.readerIndex_ = r /\ y.writerIndex_ = w
    BY <1>0, <2>1, <2>2, <2>3, Made
  <2>5. \A i \in 1..Len(s) : nb[r + i] = s[i]
    <3>1. TAKE i \in 1..Len(s)
    <3>2. r + i \in 1..(w + len) /\ r + i <= Len(buf)
      BY <1>0, <1>s
    <3>3. nb[r + i] = buf[r + i]
      BY <2>2, <3>2
    <3> QED
      BY <1>s, <3>3
  <2>6. Holds(y, s)
    BY <1>s, <2>4, <2>5 DEF Holds
  <2>7. len <= writableBytes(y)
    BY <1>0, <2>2, <2>4, Members
  <2> QED
    BY <2>4, <2>6, <2>7 DEF r, y
<1>2. CASE ~MustGrow(x, len)
  <2> DEFINE nb == Copy(buf, kCheapPrepend, s)
  <2>1. Moved(x) = s
    BY HoldsReadable DEF Moved
  <2>2. y = [buffer_ |-> nb, readerIndex_ |-> kCheapPrepend, writerIndex_ |-> kCheapPrepend + (w - r)]
    BY <1>0, <1>2, <2>1, Members DEF makeSpace
  <2>3. /\ kCheapPrepend < r /\ kCheapPrepend + (w - r) \in Nat
        /\ kCheapPrepend <= kCheapPrepend + (w - r)
        /\ kCheapPrepend + (w - r) + len <= Len(buf)
    BY <1>0, <1>2, <1>m
  <2>4. nb \in Seq(Byte) /\ Len(nb) = Len(buf)
    BY <1>0, <1>s, CopyIs
  <2>5. \A i \in 1..Len(s) : nb[kCheapPrepend + i] = s[i]
    <3>1. kCheapPrepend + Len(s) <= Len(buf)
      BY <1>0, <1>s, <2>3
    <3> QED
      BY <1>0, <1>s, <3>1, CopyIs
  <2> HIDE DEF buf, r, w, y, nb
  <2>6. Valid(y) /\ y.buffer_ = nb /\ y.readerIndex_ = kCheapPrepend
        /\ y.writerIndex_ = kCheapPrepend + (w - r)
    <3>1. kCheapPrepend + (w - r) <= Len(nb) /\ kCheapPrepend <= Len(nb)
      BY <1>0, <2>3, <2>4
    <3> QED
      BY <1>0, <2>2, <2>3, <2>4, <3>1, Made
  <2>7. Holds(y, s)
    <3>1. Len(s) = (kCheapPrepend + (w - r)) - kCheapPrepend
      BY <1>0, <1>s
    <3> QED
      BY <1>s, <2>5, <2>6, <3>1 DEF Holds
  <2>8. len <= writableBytes(y)
    <3>1. writableBytes(y) = Len(nb) - (kCheapPrepend + (w - r))
      BY <2>6, Members
    <3> QED
      BY <1>0, <2>3, <2>4, <3>1
  <2> QED
    BY <2>3, <2>6, <2>7, <2>8 DEF r, y
<1> QED
  BY <1>1, <1>2

\* ensureWritableBytes(): the same, and nothing if there is room.
LEMMA EnsureIs ==
    ASSUME NEW x, Valid(x), NEW len \in Nat, NEW s, Holds(x, s)
    PROVE  /\ Valid(ensureWritableBytes(x, len)) /\ Holds(ensureWritableBytes(x, len), s)
           /\ len <= writableBytes(ensureWritableBytes(x, len))
           /\ ensureWritableBytes(x, len).readerIndex_ # x.readerIndex_ =>
                kCheapPrepend < x.readerIndex_
<1>1. CASE writableBytes(x) < len
  BY <1>1, MakeSpaceIs DEF ensureWritableBytes
<1>2. CASE ~(writableBytes(x) < len)
  <2>1. len <= writableBytes(x)
    BY <1>2, Members
  <2> QED
    BY <1>2, <2>1 DEF ensureWritableBytes
<1> QED
  BY <1>1, <1>2

\* Bytes written behind the readable ones, within the vector, join them.
LEMMA WriteIs ==
    ASSUME NEW x, Valid(x), NEW d \in Seq(Byte), Len(d) <= writableBytes(x), NEW s, Holds(x, s),
           NEW y, y = [x EXCEPT !.buffer_ = Copy(@, x.writerIndex_, d),
                                !.writerIndex_ = @ + Len(d)]
    PROVE  Valid(y) /\ Holds(y, s \o d)
<1> DEFINE buf == x.buffer_  r == x.readerIndex_  w == x.writerIndex_
           nb == Copy(buf, w, d)
<1>0. /\ buf \in Seq(Byte) /\ Len(buf) \in Nat /\ r \in Nat /\ w \in Nat
      /\ r <= w /\ w <= Len(buf) /\ kCheapPrepend <= Len(buf) /\ Len(d) \in Nat /\ w + Len(d) <= Len(buf)
      /\ x = [buffer_ |-> buf, readerIndex_ |-> r, writerIndex_ |-> w]
  BY Members DEF Valid, BufferType
<1>s. /\ s \in Seq(Byte) /\ Len(s) \in Nat /\ Len(s) = w - r
      /\ \A i \in 1..Len(s) : buf[r + i] = s[i]
  BY DEF Holds
<1>1. y = [buffer_ |-> nb, readerIndex_ |-> r, writerIndex_ |-> w + Len(d)]
  BY <1>0
<1>2. /\ nb \in Seq(Byte) /\ Len(nb) = Len(buf)
      /\ \A i \in 1..Len(buf) : i <= w \/ w + Len(d) < i => nb[i] = buf[i]
      /\ \A i \in 1..Len(d) : nb[w + i] = d[i]
  BY <1>0, CopyIs
<1> HIDE DEF buf, r, w, nb
<1>3. Valid(y) /\ y.buffer_ = nb /\ y.readerIndex_ = r /\ y.writerIndex_ = w + Len(d)
  <2>1. w + Len(d) \in Nat /\ r <= w + Len(d) /\ w + Len(d) <= Len(nb)
        /\ kCheapPrepend <= Len(nb)
    BY <1>0, <1>2
  <2> QED
    BY <1>0, <1>1, <1>2, <2>1, Made
<1>4. s \o d \in Seq(Byte) /\ Len(s \o d) = Len(s) + Len(d)
  BY <1>s
<1>5. ASSUME NEW i \in 1..(Len(s) + Len(d)) PROVE nb[r + i] = (s \o d)[i]
  <2>1. CASE i <= Len(s)
    <3>1. r + i \in 1..Len(buf) /\ r + i <= w /\ i \in 1..Len(s)
      BY <1>0, <1>s, <2>1
    <3>2. nb[r + i] = buf[r + i] /\ buf[r + i] = s[i]
      BY <1>2, <1>s, <3>1
    <3>3. (s \o d)[i] = s[i]
      BY <1>s, <3>1
    <3> QED
      BY <3>2, <3>3
  <2>2. CASE Len(s) < i
    <3>1. i - Len(s) \in 1..Len(d) /\ r + i = w + (i - Len(s))
      BY <1>0, <1>s, <2>2
    <3>2. nb[w + (i - Len(s))] = d[i - Len(s)]
      BY <1>2, <3>1
    <3>3. (s \o d)[i] = d[i - Len(s)]
      BY <1>s, <1>0, <2>2
    <3> QED
      BY <3>1, <3>2, <3>3
  <2> QED
    BY <1>s, <1>0, <2>1, <2>2
<1>6. Len(s \o d) = (w + Len(d)) - r
  BY <1>0, <1>s, <1>4
<1>7. Holds(y, s \o d)
  BY <1>3, <1>4, <1>5, <1>6 DEF Holds
<1> QED
  BY <1>3, <1>7

\* append() adds the data behind what is readable.
LEMMA AppendIs ==
    ASSUME NEW x, Valid(x), NEW d \in Seq(Byte), NEW s, Holds(x, s)
    PROVE  Valid(append(x, d)) /\ Holds(append(x, d), s \o d)
<1> DEFINE y == ensureWritableBytes(x, Len(d))
<1>1. Valid(y) /\ Holds(y, s) /\ Len(d) <= writableBytes(y)
  <2>1. Len(d) \in Nat
    OBVIOUS
  <2> QED
    BY <2>1, EnsureIs
<1>2. append(x, d) = [y EXCEPT !.buffer_ = Copy(@, y.writerIndex_, d),
                               !.writerIndex_ = @ + Len(d)]
  BY DEF append
<1> HIDE DEF y
<1> QED
  BY <1>1, <1>2, WriteIs

\* prepend() puts the data in front of what is readable.
LEMMA PrependIs ==
    ASSUME NEW x, Valid(x), NEW d \in Seq(Byte), Len(d) <= prependableBytes(x), NEW s, Holds(x, s)
    PROVE  Valid(prepend(x, d)) /\ Holds(prepend(x, d), d \o s)
<1> DEFINE buf == x.buffer_  r == x.readerIndex_  w == x.writerIndex_
           at == r - Len(d)  nb == Copy(buf, at, d)  y == prepend(x, d)
<1>0. /\ buf \in Seq(Byte) /\ Len(buf) \in Nat /\ r \in Nat /\ w \in Nat
      /\ r <= w /\ w <= Len(buf) /\ kCheapPrepend <= Len(buf) /\ Len(d) \in Nat /\ Len(d) <= r
      /\ x = [buffer_ |-> buf, readerIndex_ |-> r, writerIndex_ |-> w]
  BY Members DEF Valid, BufferType
<1>s. /\ s \in Seq(Byte) /\ Len(s) \in Nat /\ Len(s) = w - r
      /\ \A i \in 1..Len(s) : buf[r + i] = s[i]
  BY DEF Holds
<1>1. y = [buffer_ |-> nb, readerIndex_ |-> at, writerIndex_ |-> w]
  <2>1. y = [x EXCEPT !.buffer_ = Copy(x.buffer_, at, d), !.readerIndex_ = at]
    BY DEF prepend
  <2>2. y = [x EXCEPT !.buffer_ = nb, !.readerIndex_ = at]
    BY <2>1
  <2> HIDE DEF nb, at, y
  <2> QED
    BY <1>0, <2>2
<1>a. at \in Nat /\ at + Len(d) = r /\ at <= w /\ at + Len(d) <= Len(buf)
  BY <1>0
<1> HIDE DEF buf, r, w, at
<1>2. /\ nb \in Seq(Byte) /\ Len(nb) = Len(buf)
      /\ \A i \in 1..Len(buf) : i <= at \/ at + Len(d) < i => nb[i] = buf[i]
      /\ \A i \in 1..Len(d) : nb[at + i] = d[i]
  BY <1>0, <1>a, CopyIs
<1> HIDE DEF nb, y
<1>3. Valid(y) /\ y.buffer_ = nb /\ y.readerIndex_ = at /\ y.writerIndex_ = w
  BY <1>0, <1>1, <1>2, <1>a, Made
<1>4. d \o s \in Seq(Byte) /\ Len(d \o s) = Len(d) + Len(s)
  BY <1>s
<1>5. ASSUME NEW i \in 1..(Len(d) + Len(s)) PROVE nb[at + i] = (d \o s)[i]
  <2>1. CASE i <= Len(d)
    <3>1. i \in 1..Len(d)
      BY <1>0, <2>1
    <3>2. nb[at + i] = d[i] /\ (d \o s)[i] = d[i]
      BY <1>2, <1>s, <3>1
    <3> QED
      BY <3>2
  <2>2. CASE Len(d) < i
    <3>1. /\ i - Len(d) \in 1..Len(s) /\ at + i = r + (i - Len(d))
          /\ at + i \in 1..Len(buf) /\ at + Len(d) < at + i
      BY <1>0, <1>a, <1>s, <2>2
    <3>2. nb[at + i] = buf[at + i] /\ buf[r + (i - Len(d))] = s[i - Len(d)]
      BY <1>2, <1>s, <3>1
    <3>3. (d \o s)[i] = s[i - Len(d)]
      BY <1>s, <1>0, <2>2
    <3> QED
      BY <3>1, <3>2, <3>3
  <2> QED
    BY <1>s, <1>0, <2>1, <2>2
<1>6. Len(d \o s) = w - at
  BY <1>0, <1>a, <1>s, <1>4
<1>7. Holds(y, d \o s)
  BY <1>3, <1>4, <1>5, <1>6 DEF Holds
<1> QED
  BY <1>3, <1>7 DEF y

\* retrieveAll() leaves nothing.
LEMMA RetrieveAllIs ==
    ASSUME NEW x, Valid(x)
    PROVE  Valid(retrieveAll(x)) /\ Holds(retrieveAll(x), <<>>)
<1>1. x.buffer_ \in Seq(Byte) /\ kCheapPrepend <= Len(x.buffer_) /\ kCheapPrepend \in Nat
      /\ kCheapPrepend <= kCheapPrepend
  <2>1. x.buffer_ \in Seq(Byte) /\ kCheapPrepend <= Len(x.buffer_) /\ kCheapPrepend \in Nat
    BY Members
  <2> QED
    BY <2>1
<1>2. retrieveAll(x) = [buffer_ |-> x.buffer_, readerIndex_ |-> kCheapPrepend,
                        writerIndex_ |-> kCheapPrepend]
  <2> DEFINE buf == x.buffer_  r == x.readerIndex_  w == x.writerIndex_
  <2>1. /\ buf \in Seq(Byte) /\ r \in Nat /\ w \in Nat
        /\ x = [buffer_ |-> buf, readerIndex_ |-> r, writerIndex_ |-> w]
    BY Members DEF Valid, BufferType
  <2>2. retrieveAll(x) = [[x EXCEPT !.readerIndex_ = kCheapPrepend]
                             EXCEPT !.writerIndex_ = kCheapPrepend]
    BY DEF retrieveAll
  <2> HIDE DEF r, w
  <2> QED
    BY <1>1, <2>1, <2>2
<1>3. Valid(retrieveAll(x)) /\ retrieveAll(x).readerIndex_ = kCheapPrepend
      /\ retrieveAll(x).writerIndex_ = kCheapPrepend
  BY <1>1, <1>2, Made
<1>4. <<>> \in Seq(Byte) /\ Len(<<>>) = 0 /\ 1..0 = {} /\ kCheapPrepend - kCheapPrepend = 0
  BY <1>1
<1> QED
  BY <1>3, <1>4 DEF Holds

\* retrieve() takes the first len bytes.
LEMMA RetrieveIs ==
    ASSUME NEW x, Valid(x), NEW len \in Nat, len <= readableBytes(x),
           NEW s, Holds(x, s)
    PROVE  /\ len \in 0..Len(s)
           /\ Valid(retrieve(x, len)) /\ Holds(retrieve(x, len), SubSeq(s, len + 1, Len(s)))
<1> DEFINE buf == x.buffer_  r == x.readerIndex_  w == x.writerIndex_
<1>0. /\ buf \in Seq(Byte) /\ Len(buf) \in Nat /\ r \in Nat /\ w \in Nat
      /\ r <= w /\ w <= Len(buf) /\ kCheapPrepend <= Len(buf) /\ readableBytes(x) = w - r
      /\ x = [buffer_ |-> buf, readerIndex_ |-> r, writerIndex_ |-> w]
  BY Members DEF Valid, BufferType
<1>s. /\ s \in Seq(Byte) /\ Len(s) \in Nat /\ Len(s) = w - r
      /\ \A i \in 1..Len(s) : buf[r + i] = s[i]
  BY DEF Holds
<1>1. len \in 0..Len(s)
  BY <1>0, <1>s
<1>2. CASE len < readableBytes(x)
  <2> DEFINE y == retrieve(x, len)  t == SubSeq(s, len + 1, Len(s))
  <2>1. y = [buffer_ |-> buf, readerIndex_ |-> r + len, writerIndex_ |-> w]
    BY <1>0, <1>2 DEF retrieve
  <2>2. r + len \in Nat /\ r + len <= w
    BY <1>0, <1>2
  <2>3. t \in Seq(Byte) /\ Len(t) = w - (r + len)
        /\ \A i \in 1..Len(t) : t[i] = s[len + i] /\ len + i \in 1..Len(s)
    <3>1. s \in Seq(Byte) /\ Len(s) \in Nat
      BY <1>s
    <3>2. t \in Seq(Byte) /\ Len(t) = Len(s) - len
          /\ \A i \in 1..(Len(s) - len) : t[i] = s[len + i]
      BY <1>1, <3>1
    <3> HIDE DEF t, w, r
    <3>3. Len(t) = w - (r + len)
      BY <1>0, <1>s, <3>2
    <3>4. \A i \in 1..(Len(s) - len) : len + i \in 1..Len(s)
      BY <1>1, <3>1
    <3> QED
      BY <3>2, <3>3, <3>4
  <2> HIDE DEF buf, r, w, y, t
  <2>4. Valid(y) /\ y.buffer_ = buf /\ y.readerIndex_ = r + len /\ y.writerIndex_ = w
    BY <1>0, <2>1, <2>2, Made
  <2>5. ASSUME NEW i \in 1..Len(t) PROVE buf[(r + len) + i] = t[i]
    <3>1. len + i \in 1..Len(s) /\ t[i] = s[len + i]
      BY <2>3
    <3>2. (r + len) + i = r + (len + i)
      BY <1>0, <2>3
    <3> QED
      BY <1>s, <3>1, <3>2
  <2>6. Holds(y, t)
    BY <2>3, <2>4, <2>5 DEF Holds
  <2> QED
    BY <1>1, <2>4, <2>6 DEF y, t
<1>3. CASE ~(len < readableBytes(x))
  <2>1. len = Len(s) /\ retrieve(x, len) = retrieveAll(x)
    BY <1>0, <1>s, <1>3 DEF retrieve
  <2>2. SubSeq(s, len + 1, Len(s)) = <<>>
    BY <1>s, <2>1, SubSeqEmpty
  <2> QED
    BY <1>1, <2>1, <2>2, RetrieveAllIs
<1> QED
  BY <1>2, <1>3

\* readFd() adds all that readv() returned, whether it fits or overflows into
\* extrabuf.
LEMMA ReadFdIs ==
    ASSUME NEW x, Valid(x), NEW d \in Seq(Byte), NEW s, Holds(x, s)
    PROVE  Valid(readFd(x, d)) /\ Holds(readFd(x, d), s \o d)
<1> DEFINE n == writableBytes(x)
<1>0. n \in Nat /\ n = size(x) - x.writerIndex_ /\ size(x) \in Nat /\ x.writerIndex_ \in Nat
      /\ s \in Seq(Byte)
  BY Members DEF Holds
<1>1. CASE Len(d) <= n
  BY <1>1, WriteIs DEF readFd
<1>2. CASE ~(Len(d) <= n)
  <2> DEFINE d1 == SubSeq(d, 1, n)  d2 == SubSeq(d, n + 1, Len(d))
             y == [x EXCEPT !.buffer_ = Copy(@, x.writerIndex_, d1), !.writerIndex_ = size(x)]
  <2> HIDE DEF n
  <2>1. /\ d1 \in Seq(Byte) /\ Len(d1) = n /\ d2 \in Seq(Byte)
    BY <1>0, <1>2
  <2>2. d1 \o d2 = d
    <3>1. d1 \o d2 = SubSeq(d, 1, Len(d))
      <4>1. 1 \in 1..Len(d)+1 /\ n \in 1-1..Len(d) /\ Len(d) \in n..Len(d)
        BY <1>0, <1>2
      <4> QED
        BY <4>1, ConcatAdjacentSubSeq
    <3> QED
      BY <3>1, SubSeqFull
  <2>3. readFd(x, d) = append(y, d2)
    BY <1>2 DEF readFd, n
  <2> HIDE DEF d1, d2
  <2>4. y = [x EXCEPT !.buffer_ = Copy(@, x.writerIndex_, d1), !.writerIndex_ = @ + Len(d1)]
    <3>1. size(x) = x.writerIndex_ + Len(d1)
      BY <1>0, <2>1
    <3> QED
      BY <3>1
  <2>5. Len(d1) <= writableBytes(x)
    BY <1>0, <2>1 DEF n
  <2> HIDE DEF y
  <2>6. Valid(y) /\ Holds(y, s \o d1)
    BY <2>1, <2>4, <2>5, WriteIs
  <2>7. Valid(append(y, d2)) /\ Holds(append(y, d2), (s \o d1) \o d2)
    BY <2>1, <2>6, AppendIs
  <2>8. (s \o d1) \o d2 = s \o (d1 \o d2)
    <3>1. s \in Seq(Byte) /\ d1 \in Seq(Byte) /\ d2 \in Seq(Byte)
      BY <1>0, <2>1
    <3> QED
      BY <3>1, ConcatAssociative
  <2>9. (s \o d1) \o d2 = s \o d
    BY <2>2, <2>8, Zenon
  <2> QED
    BY <2>3, <2>7, <2>9, Zenon
<1> QED
  BY <1>1, <1>2

-----------------------------------------------------------------------------
(* The specification.                                                      *)

\* Chunks are sequences of bytes.
LEMMA ChunkIs == ASSUME NEW data \in Chunks PROVE data \in Seq(Byte) /\ Len(data) \in Nat
BY ChunksAssumption

\* A new buffer holds nothing.
LEMMA InitIs == Init => Valid(b) /\ Holds(b, <<>>)
<1> SUFFICES ASSUME Init PROVE Valid(b) /\ Holds(b, <<>>)
  OBVIOUS
<1> DEFINE n == kCheapPrepend + kInitialSize
           buf == [i \in 1..n |-> Zero]
<1>1. n \in Nat /\ kCheapPrepend \in Nat /\ kCheapPrepend <= n /\ Zero \in Byte
      /\ kCheapPrepend <= kCheapPrepend /\ kCheapPrepend - kCheapPrepend = 0
  BY SizeAssumption
<1>2. b = [buffer_ |-> buf, readerIndex_ |-> kCheapPrepend, writerIndex_ |-> kCheapPrepend]
  BY DEF Init
<1> HIDE DEF n
<1>3. buf \in [1..n -> Byte]
  BY <1>1
<1>4. buf \in Seq(Byte) /\ Len(buf) = n
  BY <1>1, <1>3
<1> HIDE DEF buf
<1>5. Valid(b) /\ b.readerIndex_ = kCheapPrepend /\ b.writerIndex_ = kCheapPrepend
  BY <1>1, <1>2, <1>4, Made
<1>6. <<>> \in Seq(Byte) /\ Len(<<>>) = 0 /\ 1..0 = {}
  OBVIOUS
<1> QED
  BY <1>1, <1>5, <1>6 DEF Holds

\* Every call leaves the buffer valid, and is a step of the queue of bytes.
LEMMA StepIs ==
    ASSUME Valid(b), Next
    PROVE  Valid(b') /\ [BQ!BQNext]_(Readable(b))
<1> DEFINE s == Readable(b)  s2 == Readable(b')
<1>0. Holds(b, s) /\ s \in Seq(Byte)
  BY HoldsReadable DEF Holds
<1>a. s' = s2
  BY DEF Readable
<1> HIDE DEF s, s2
<1>b. ASSUME Valid(b'), NEW t, Holds(b', t) PROVE s2 = t
  BY <1>b, HoldsReadable DEF s2
<1>1. ASSUME NEW data \in Chunks, Append_(data) \/ ReadFd_(data)
      PROVE  Valid(b') /\ s2 = s \o data
  <2>1. data \in Seq(Byte)
    BY ChunkIs
  <2>2. CASE Append_(data)
    <3>1. Valid(b') /\ Holds(b', s \o data)
      BY <1>0, <2>1, <2>2, AppendIs DEF Append_
    <3> QED
      BY <1>b, <3>1
  <2>3. CASE ReadFd_(data)
    <3>1. Valid(b') /\ Holds(b', s \o data)
      BY <1>0, <2>1, <2>3, ReadFdIs DEF ReadFd_
    <3> QED
      BY <1>b, <3>1
  <2> QED
    BY <1>1, <2>2, <2>3
<1>2. ASSUME NEW data \in Chunks, Prepend_(data)
      PROVE  Valid(b') /\ s2 = data \o s
  <2>1. data \in Seq(Byte)
    BY ChunkIs
  <2>2. Valid(b') /\ Holds(b', data \o s)
    BY <1>0, <1>2, <2>1, PrependIs DEF Prepend_
  <2> QED
    BY <1>b, <2>2
<1>3. ASSUME NEW len \in 0..MaxReadable, Retrieve_(len)
      PROVE  Valid(b') /\ \E n \in 0..Len(s) : s2 = SubSeq(s, n + 1, Len(s))
  <2>1. len \in Nat
    BY SizeAssumption
  <2>2. len \in 0..Len(s) /\ Valid(b') /\ Holds(b', SubSeq(s, len + 1, Len(s)))
    BY <1>0, <1>3, <2>1, RetrieveIs DEF Retrieve_
  <2>3. s2 = SubSeq(s, len + 1, Len(s))
    BY <1>b, <2>2
  <2> QED
    BY <2>2, <2>3
<1>4. ASSUME RetrieveAll_ PROVE Valid(b') /\ \E n \in 0..Len(s) : s2 = SubSeq(s, n + 1, Len(s))
  <2>1. Valid(b') /\ Holds(b', <<>>)
    BY <1>4, RetrieveAllIs DEF RetrieveAll_
  <2>2. s2 = <<>>
    BY <1>b, <2>1
  <2>3. Len(s) \in 0..Len(s) /\ SubSeq(s, Len(s) + 1, Len(s)) = <<>>
    BY <1>0, SubSeqEmpty
  <2> QED
    BY <2>1, <2>2, <2>3
<1>5. Valid(b')
  BY <1>1, <1>2, <1>3, <1>4 DEF Next
<1>6. \/ \E data \in Chunks : s' = s \o data
      \/ \E data \in Chunks : s' = data \o s
      \/ \E n \in 0..Len(s) : s' = SubSeq(s, n + 1, Len(s))
  BY <1>1, <1>2, <1>3, <1>4, <1>a DEF Next
<1>7. BQ!BQNext
  BY <1>6 DEF BQ!BQNext, BQ!Appended, BQ!Prepended, BQ!Retrieved, s
<1> QED
  BY <1>5, <1>7

\* Valid holds in every reachable state.
LEMMA ValidHolds == Spec => []Valid(b)
<1>1. Init => Valid(b)
  BY InitIs
<1>2. Valid(b) /\ [Next]_b => Valid(b)'
  <2> SUFFICES ASSUME Valid(b), [Next]_b PROVE Valid(b')
    BY DEF Valid, size
  <2>1. CASE Next
    BY <2>1, StepIs
  <2>2. CASE b' = b
    BY <2>2
  <2> QED
    BY <2>1, <2>2
<1> QED
  BY <1>1, <1>2, PTL DEF Spec

\* Whatever is called, the indexes stay in order and within the vector.
THEOREM IndexesInBounds == Spec => []TypeOK
<1>1. Valid(b) => TypeOK
  BY DEF Valid, TypeOK
<1> QED
  BY <1>1, ValidHolds, PTL

\* In every reachable state append(), readFd() and prepend() do exactly what
\* they are asked, through growth, compaction and extrabuf, and makeSpace() moves
\* bytes only towards the front.
THEOREM CallsExact == Spec => []CallsAreExact
<1>1. Valid(b) => CallsAreExact
  <2> SUFFICES ASSUME Valid(b), NEW data \in Chunks
               PROVE  /\ Readable(append(b, data)) = Readable(b) \o data
                      /\ Readable(readFd(b, data)) = Readable(b) \o data
                      /\ Len(data) <= prependableBytes(b) =>
                           Readable(prepend(b, data)) = data \o Readable(b)
                      /\ ensureWritableBytes(b, Len(data)).readerIndex_ # b.readerIndex_ =>
                           kCheapPrepend < b.readerIndex_
    BY DEF CallsAreExact
  <2>1. Holds(b, Readable(b)) /\ data \in Seq(Byte) /\ Len(data) \in Nat
    BY HoldsReadable, ChunkIs
  <2>2. Readable(append(b, data)) = Readable(b) \o data
    <3>1. Valid(append(b, data)) /\ Holds(append(b, data), Readable(b) \o data)
      BY <2>1, AppendIs
    <3> QED
      BY <3>1, HoldsReadable
  <2>3. Readable(readFd(b, data)) = Readable(b) \o data
    <3>1. Valid(readFd(b, data)) /\ Holds(readFd(b, data), Readable(b) \o data)
      BY <2>1, ReadFdIs
    <3> QED
      BY <3>1, HoldsReadable
  <2>4. ASSUME Len(data) <= prependableBytes(b)
        PROVE  Readable(prepend(b, data)) = data \o Readable(b)
    <3>1. Valid(prepend(b, data)) /\ Holds(prepend(b, data), data \o Readable(b))
      BY <2>1, <2>4, PrependIs
    <3> QED
      BY <3>1, HoldsReadable
  <2>5. ensureWritableBytes(b, Len(data)).readerIndex_ # b.readerIndex_ =>
          kCheapPrepend < b.readerIndex_
    BY <2>1, EnsureIs
  <2> QED
    BY <2>2, <2>3, <2>4, <2>5
<1> QED
  BY <1>1, ValidHolds, PTL

\* A Buffer is a queue of bytes: no call loses, alters or reorders what it holds.
THEOREM BufferIsByteQueue == Spec => ImplementsByteQueue
<1>1. Init => BQ!BQInit
  <2>1. Init => Valid(b) /\ Holds(b, <<>>)
    BY InitIs
  <2> QED
    BY <2>1, HoldsReadable DEF BQ!BQInit
<1>2. Valid(b) /\ [Next]_b => [BQ!BQNext]_(Readable(b))
  <2> SUFFICES ASSUME Valid(b), [Next]_b PROVE [BQ!BQNext]_(Readable(b))
    OBVIOUS
  <2>1. CASE Next
    BY <2>1, StepIs
  <2>2. CASE b' = b
    BY <2>2 DEF Readable
  <2> QED
    BY <2>1, <2>2
<1> QED
  BY <1>1, <1>2, ValidHolds, PTL DEF Spec, ImplementsByteQueue, BQ!BQSpec
=============================================================================
